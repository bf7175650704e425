----------------------------- MODULE MCOperations -----------------------------
(***************************************************************************)
(* Instances for TLC of the parts that start, keep and summarise: Startup, *)
(* Reembed, Backups, Exchanges and Narratives.  They share no state, so a  *)
(* behaviour is one of one part, and the others stay as they began.        *)
(***************************************************************************)
EXTENDS Startup, Reembed, Backups, Exchanges, Narratives, TLC

CONSTANTS b1, b2, c1, c2, t1, t2, r1

VARIABLE part

(* A symmetry of one part is to be one of all of them. *)
Symmetry == Permutations({b1, b2}) \cup Permutations({c1, c2})

(* One record, in the table that is read last. *)
MCOwnerOf == r1 :> t1
MCTableOf == r1 :> 2

-----------------------------------------------------------------------------
Init ==
  /\ part \in {"startup", "reembed", "backups", "exchanges", "narratives"}
  /\ StartupInit /\ ReembedInit /\ BackupsInit /\ ExchangesInit /\ NarrativesInit
  /\ part # "reembed" => \A m \in Places : text[m] = 0
  /\ part # "narratives" => tenantId = DefaultTenantId

Next ==
  /\ UNCHANGED part
  /\ \/ /\ part = "startup" /\ StartupNext
        /\ UNCHANGED <<reembedVars, backupVars, exchangeVars, narrativeVars>>
     \/ /\ part = "reembed" /\ ReembedNext
        /\ UNCHANGED <<startupVars, backupVars, exchangeVars, narrativeVars>>
     \/ /\ part = "backups" /\ BackupsNext
        /\ UNCHANGED <<startupVars, reembedVars, exchangeVars, narrativeVars>>
     \/ /\ part = "exchanges" /\ ExchangesNext
        /\ UNCHANGED <<startupVars, reembedVars, backupVars, narrativeVars>>
     \/ /\ part = "narratives" /\ NarrativesNext
        /\ UNCHANGED <<startupVars, reembedVars, backupVars, exchangeVars>>

Spec == Init /\ [][Next]_<<part, startupVars, reembedVars, backupVars, exchangeVars, narrativeVars>>

(* Every variable of every part stays within its range. *)
TypeOK == StartupTypeOK /\ ReembedTypeOK /\ BackupsTypeOK /\ ExchangesTypeOK /\ NarrativesTypeOK
=============================================================================
