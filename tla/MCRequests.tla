------------------------------ MODULE MCRequests ------------------------------
(***************************************************************************)
(* Instances for TLC of the parts that answer requests: Surface, Gateway,  *)
(* Dynamics, Intentions, Ingestion and Aliases.  They share no state, so a *)
(* behaviour is one of one part, and the others stay as they began.        *)
(***************************************************************************)
EXTENDS Surface, Gateway, Dynamics, Intentions, Ingestion, Aliases, TLC

CONSTANTS a1, a2, a3, b1, b2, c1, c2, d1, d2, retire, k1, admin, e1, e2, e3

VARIABLE part

(* A symmetry of one part is to be one of all of them. *)
Symmetry == Permutations({a1, a2, a3}) \cup Permutations({b1, b2}) \cup Permutations({c1, c2})

-----------------------------------------------------------------------------
(* Three searches with a reading key over HTTP and one over gRPC, one of    *)
(* the other key over gRPC, and a call of it that revokes the reading key.  *)
(* What they ask for is what Surface says of their requests.                *)

HttpCalls == {a1, a2, a3}
GrpcCalls == {d1, d2}
MCCalls == HttpCalls \cup GrpcCalls \cup {retire}
MCScopes == k1 :> {"read"} @@ admin :> {"read", "write", "admin"}
MCKeyOf == [c \in MCCalls |-> IF c \in {retire, d2} THEN admin ELSE k1]
MCAsks == [c \in MCCalls |-> IF c = retire THEN RequiredScope("DELETE", <<"admin", "keys", "id">>)
                              ELSE IF c \in GrpcCalls THEN RpcScope("SearchMemories")
                              ELSE RequiredScope("POST", <<"memories", "search">>)]
MCDoor == [c \in MCCalls |-> IF c \in GrpcCalls THEN "grpc" ELSE "http"]
MCRetires == [c \in MCCalls |-> IF c = retire THEN {k1} ELSE {}]

(* Two facts that are near one another and contradict each other, and one   *)
(* that has to do with neither.                                             *)
MCContrary == {<<e1, e2>>, <<e2, e1>>}
MCLikeness == [p \in Facts \X Facts |-> IF p[1] = p[2] THEN "duplicate"
                                         ELSE IF p \in MCContrary THEN "similar" ELSE "far"]
MCBatches == {<<e1, e1>>, <<e2, e3>>}

-----------------------------------------------------------------------------
Init ==
  /\ part \in {"surface", "gateway", "dynamics", "intentions", "ingestion", "aliases"}
  /\ SurfaceInit /\ GatewayInit /\ DynamicsInit /\ IntentionsInit /\ IngestionInit /\ AliasesInit

Next ==
  /\ UNCHANGED part
  /\ \/ /\ part = "surface" /\ SurfaceNext
        /\ UNCHANGED <<gatewayVars, dynamicsVars, intentionsVars, ingestionVars, aliasVars>>
     \/ /\ part = "gateway" /\ GatewayNext
        /\ UNCHANGED <<surfaceVars, dynamicsVars, intentionsVars, ingestionVars, aliasVars>>
     \/ /\ part = "dynamics" /\ DynamicsNext
        /\ UNCHANGED <<surfaceVars, gatewayVars, intentionsVars, ingestionVars, aliasVars>>
     \/ /\ part = "intentions" /\ IntentionsNext
        /\ UNCHANGED <<surfaceVars, gatewayVars, dynamicsVars, ingestionVars, aliasVars>>
     \/ /\ part = "ingestion" /\ IngestionNext
        /\ UNCHANGED <<surfaceVars, gatewayVars, dynamicsVars, intentionsVars, aliasVars>>
     \/ /\ part = "aliases" /\ AliasesNext
        /\ UNCHANGED <<surfaceVars, gatewayVars, dynamicsVars, intentionsVars, ingestionVars>>

vars == <<part, surfaceVars, gatewayVars, dynamicsVars, intentionsVars, ingestionVars, aliasVars>>

Spec == Init /\ [][Next]_vars

(* Every variable stays within its range; only those of one part change. *)
TypeOK ==
  /\ part = "surface" => SurfaceTypeOK
  /\ part = "gateway" => GatewayTypeOK
  /\ part = "dynamics" => DynamicsTypeOK
  /\ part = "intentions" => IntentionsTypeOK
  /\ part = "ingestion" => IngestionTypeOK
  /\ part = "aliases" => AliasesTypeOK
=============================================================================
