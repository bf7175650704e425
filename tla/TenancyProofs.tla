---------------------------- MODULE TenancyProofs ----------------------------
(* Proofs about Tenancy, for any number of tenants, tasks and rows. *)
EXTENDS Tenancy, TLAPS

Named == {"resolved"} \cup Creating \cup Deleting

(* A step that leaves everything alone. *)
LEMMA TypeStutter == TypeOK /\ UNCHANGED vars => TypeOK'
BY SMT DEF TypeOK, vars, tables, data, tasks, Creating, Deleting

(* The bound that Strike respects. *)
LEMMA StrikeBound ==
  ASSUME faults \in 0 .. MaxFaults, NEW kind, Strike(kind)
  PROVE  faults' \in 0 .. MaxFaults
BY TenancyAssumption, SMT DEF Strike

LEMMA TypeInit == Init => TypeOK
BY TenancyAssumption, SMT DEF Init, TypeOK, Tasks, Creating, Deleting

(* Steps that only end a task, and may count a fault. *)
LEMMA TypeEnd ==
  ASSUME TypeOK, NEW a \in Tasks, End(a),
         UNCHANGED <<listed, keyed, jobs, owner>>,
         schemas' \subseteq Tenants, ready' \subseteq Tenants,
         place' \in [Rows -> Tenants \cup {"public", "unwritten", "gone"}],
         faults' \in 0 .. MaxFaults
  PROVE  TypeOK'
BY SMT DEF TypeOK, End, Creating, Deleting

(* Steps that move a task on to a stage in which it has a tenant. *)
LEMMA TypeMove ==
  ASSUME TypeOK, NEW a \in Tasks, NEW t \in Tenants, NEW next \in Named,
         stage' = [stage EXCEPT ![a] = next],
         aim' = [aim EXCEPT ![a] = t],
         key' \in [Tasks -> Tenants \cup {"none", "any"}],
         ctx' \in [Tasks -> Tenants \cup {"none"}],
         may' \in [Tasks -> SUBSET Checked],
         UNCHANGED <<keyed, owner, place, faults>>,
         listed' \subseteq Tenants, jobs' \subseteq Tenants,
         schemas' \subseteq Tenants, ready' \subseteq Tenants
  PROVE  TypeOK'
<1>1. stage' \in [Tasks -> {"idle", "routed", "resolved"} \cup Creating \cup Deleting]
  BY DEF TypeOK, Named
<1>2. aim' \in [Tasks -> Tenants \cup {"none"}]
  BY DEF TypeOK
<1>3. \A b \in Tasks : stage'[b] \in {"resolved"} \cup Creating \cup Deleting => aim'[b] \in Tenants
  BY DEF TypeOK
<1> QED
  BY <1>1, <1>2, <1>3 DEF TypeOK

LEMMA TypeStep == TypeOK /\ [Next]_vars => TypeOK'
<1> SUFFICES ASSUME TypeOK, [Next]_vars PROVE TypeOK'
  OBVIOUS
<1>1. CASE UNCHANGED vars
  BY <1>1, TypeStutter
<1>2. ASSUME NEW t \in Tenants, MintKey(t) PROVE TypeOK'
  BY <1>2 DEF MintKey, TypeOK, tables, data, tasks, Creating, Deleting
<1>3. ASSUME NEW a \in Requests, NEW k \in keyed \cup {"any"}, Arrive(a, k) PROVE TypeOK'
  <2>1. k \in Tenants \cup {"any"} /\ a \in Tasks
    BY DEF TypeOK, Tasks
  <2>2. /\ stage' \in [Tasks -> {"idle", "routed", "resolved"} \cup Creating \cup Deleting]
        /\ key' \in [Tasks -> Tenants \cup {"none", "any"}]
        /\ ctx' \in [Tasks -> Tenants \cup {"none"}]
        /\ aim' \in [Tasks -> Tenants \cup {"none"}]
    BY <1>3, <2>1 DEF Arrive, TypeOK
  <2>3. \A b \in Tasks : stage'[b] \in {"resolved"} \cup Creating \cup Deleting => aim'[b] \in Tenants
    BY <1>3, <2>1 DEF Arrive, TypeOK, Creating, Deleting
  <2> QED
    BY <1>3, <2>2, <2>3 DEF Arrive, TypeOK, tables, data
<1>4. ASSUME NEW a \in Requests, NEW t \in Tenants, Resolve(a, t) PROVE TypeOK'
  <2>1. ctx' \in [Tasks -> Tenants \cup {"none"}] /\ a \in Tasks
    BY <1>4 DEF Resolve, TypeOK, Tasks
  <2> QED
    BY <1>4, <2>1, TypeMove DEF Resolve, Resolved, TypeOK, Named, tables, data
<1>5. ASSUME NEW a \in Requests, NEW b \in Requests, Spawn(a, b) PROVE TypeOK'
  <2>1. a \in Tasks /\ b \in Tasks /\ aim[a] \in Tenants
    BY <1>5 DEF Spawn, TypeOK, Tasks
  <2>2. key' \in [Tasks -> Tenants \cup {"none", "any"}] /\ ctx' \in [Tasks -> Tenants \cup {"none"}]
    BY <1>5, <2>1 DEF Spawn, TypeOK
  <2> QED
    BY <1>5, <2>1, <2>2, TypeMove DEF Spawn, TypeOK, Named, tables, data
<1>6. ASSUME NEW a \in Requests, Enqueue(a) PROVE TypeOK'
  <2>1. aim[a] \in Tenants
    BY <1>6 DEF Enqueue, TypeOK, Tasks
  <2> QED
    BY <1>6, <2>1 DEF Enqueue, TypeOK, data, tasks, Creating, Deleting
<1>7. ASSUME NEW a \in Requests, NEW t \in Tenants, Create(a, t) PROVE TypeOK'
  <2>1. a \in Tasks
    BY DEF Tasks
  <2> QED
    BY <1>7, <2>1, TypeMove DEF Create, Move, TypeOK, Named, Creating, data
<1>8. ASSUME NEW a \in Requests, Import(a) PROVE TypeOK'
  <2>1. a \in Tasks /\ aim[a] \in Tenants /\ aim' = [aim EXCEPT ![a] = aim[a]]
    BY <1>8 DEF Import, TypeOK, Tasks
  <2> QED
    BY <1>8, <2>1, TypeMove DEF Import, Move, TypeOK, Named, Creating, data
<1>9. ASSUME NEW a \in Requests, Provision(a) PROVE TypeOK'
  <2>1. a \in Tasks /\ aim[a] \in Tenants /\ aim = [aim EXCEPT ![a] = aim[a]]
    BY <1>9 DEF Provision, TypeOK, Tasks
  <2>2. CASE stage[a] = "create" /\ End(a)
    BY <1>9, <2>1, <2>2, TypeEnd DEF Provision, TypeOK, tables, data
  <2>3. CASE stage[a] = "import" /\ Move(a, "resolved") /\ UNCHANGED aim
    BY <1>9, <2>1, <2>3, TypeMove DEF Provision, Move, TypeOK, Named, tables, data
  <2> QED
    BY <1>9, <2>2, <2>3 DEF Provision, Answer
<1>10. ASSUME NEW a \in Requests, ProvisionFails(a) PROVE TypeOK'
  <2>1. a \in Tasks /\ faults' \in 0 .. MaxFaults
    BY <1>10, StrikeBound DEF ProvisionFails, TypeOK, Tasks
  <2> QED
    BY <1>10, <2>1, TypeEnd DEF ProvisionFails, TypeOK, tables, data
<1>11. ASSUME NEW a \in Requests, NEW t \in Tenants, NEW force \in BOOLEAN, CheckDelete(a, t, force)
       PROVE TypeOK'
  <2>1. a \in Tasks /\ may' \in [Tasks -> SUBSET Checked]
    BY <1>11 DEF CheckDelete, Check, TypeOK, Tasks
  <2> QED
    BY <1>11, <2>1, TypeMove DEF CheckDelete, Check, TypeOK, Named, Deleting, tables, data
<1>12. ASSUME NEW a \in Requests, Unlist(a) PROVE TypeOK'
  <2>1. a \in Tasks /\ aim[a] \in Tenants /\ aim' = [aim EXCEPT ![a] = aim[a]]
    BY <1>12 DEF Unlist, TypeOK, Tasks
  <2> QED
    BY <1>12, <2>1, TypeMove DEF Unlist, Move, TypeOK, Named, Deleting, data
<1>14. ASSUME NEW a \in Requests, Drop(a) PROVE TypeOK'
  <2>1. a \in Tasks /\ place' \in [Rows -> Tenants \cup {"public", "unwritten", "gone"}]
    BY <1>14 DEF Drop, TypeOK, Tasks
  <2> QED
    BY <1>14, <2>1, TypeEnd DEF Drop, TypeOK, tables
<1>15. ASSUME NEW a \in Requests, DropFails(a) PROVE TypeOK'
  <2>1. a \in Tasks /\ faults' \in 0 .. MaxFaults
    BY <1>15, StrikeBound DEF DropFails, TypeOK, Tasks
  <2> QED
    BY <1>15, <2>1, TypeEnd DEF DropFails, TypeOK, tables, data
<1>16. ASSUME NEW w \in Workers, NEW t \in Tenants, Claim(w, t) PROVE TypeOK'
  <2>1. w \in Tasks
    BY DEF Tasks
  <2>2. key' \in [Tasks -> Tenants \cup {"none", "any"}] /\ ctx' \in [Tasks -> Tenants \cup {"none"}]
    BY <1>16, <2>1 DEF Claim, TypeOK
  <2> QED
    BY <1>16, <2>1, <2>2, TypeMove DEF Claim, TypeOK, Named, data
<1>17. ASSUME NEW a \in Tasks, NEW r \in Rows, Write(a, r) PROVE TypeOK'
  <2>1. aim[a] \in Tenants /\ Path(ctx[a]) \in Tenants \cup {"public"}
    BY <1>17 DEF Write, Path, TypeOK
  <2>2. may' \in [Tasks -> SUBSET Checked]
    BY <1>17 DEF Write, TypeOK
  <2> QED
    BY <1>17, <2>1, <2>2 DEF Write, TypeOK, tables, tasks, Creating, Deleting
<1>18. ASSUME NEW a \in Tasks, Finish(a) PROVE TypeOK'
  BY <1>18, TypeEnd DEF Finish, TypeOK, tables, data
<1>19. ASSUME NEW a \in Tasks, Crash(a) PROVE TypeOK'
  <2>1. faults' \in 0 .. MaxFaults
    BY <1>19, StrikeBound DEF Crash, TypeOK
  <2> QED
    BY <1>19, <2>1, TypeEnd DEF Crash, TypeOK, tables, data
<1> QED
  BY <1>1, <1>2, <1>3, <1>4, <1>5, <1>6, <1>7, <1>8, <1>9, <1>10, <1>11, <1>12, <1>14,
     <1>15, <1>16, <1>17, <1>18, <1>19 DEF Next, Operate

(* Type correctness: the ranges of TypeOK hold of every tenant, task and    *)
(* row, whatever the number of each and whichever faults strike.            *)
THEOREM TypeCorrect == Spec => []TypeOK
<1>1. Init => TypeOK
  BY TypeInit
<1>2. TypeOK /\ [Next]_vars => TypeOK'
  BY TypeStep
<1> QED
  BY <1>1, <1>2, PTL DEF Spec

-----------------------------------------------------------------------------
(* A handler runs in the context of the tenant it works for; only that of a *)
(* worker is unset.                                                         *)
InContext(a) ==
  stage[a] \in {"resolved", "import"} =>
    /\ ctx[a] \in {aim[a], "none"}
    /\ a \in Requests => ctx[a] = aim[a]

IsoInv == /\ \A a \in Tasks : InContext(a)
          /\ RowsInOwnSchema

LEMMA PublicPath == ASSUME TypeOK, NEW t, t \notin Tenants PROVE Path(t) = "public"
BY DEF TypeOK, Path

LEMMA ContextStep ==
  ASSUME TypeOK, IsoInv, [Next]_vars, NEW b \in Tasks
  PROVE  InContext(b)'
<1> USE DEF InContext
<1>0. InContext(b)
  BY DEF IsoInv
<1>1. CASE stage'[b] = stage[b] /\ ctx'[b] = ctx[b] /\ aim'[b] = aim[b]
  BY <1>0, <1>1
<1>2. CASE stage'[b] \notin {"resolved", "import"}
  BY <1>2
<1>3. ASSUME NEW a \in Requests, NEW t \in Tenants, Resolve(a, t) PROVE InContext(b)'
  BY <1>0, <1>3 DEF Resolve, Resolved, TypeOK, Tasks
<1>4. ASSUME NEW a \in Requests, NEW c \in Requests, Spawn(a, c) PROVE InContext(b)'
  <2>1. a \in Tasks /\ ctx[a] = aim[a]
    BY <1>4 DEF Spawn, IsoInv, Tasks
  <2> QED
    BY <1>0, <1>4, <2>1 DEF Spawn, TypeOK
<1>5. ASSUME NEW a \in Requests, Import(a) PROVE InContext(b)'
  BY <1>0, <1>5 DEF Import, Move, TypeOK
<1>6. ASSUME NEW a \in Requests, Provision(a) PROVE InContext(b)'
  BY <1>0, <1>6 DEF Provision, Answer, End, Move, TypeOK
<1>7. ASSUME NEW w \in Workers, NEW t \in Tenants, Claim(w, t) PROVE InContext(b)'
  BY <1>0, <1>7, TenancyAssumption DEF Claim, TypeOK, Tasks
<1>8. CASE UNCHANGED vars \/ (\E t \in Tenants : MintKey(t)) \/ (\E a \in Requests : Enqueue(a))
           \/ (\E a \in Tasks, r \in Rows : Write(a, r))
  BY <1>1, <1>8 DEF vars, tasks, MintKey, Enqueue, Write
<1>9. ASSUME NEW a \in Tasks, End(a) PROVE InContext(b)'
  BY <1>1, <1>2, <1>9 DEF End, TypeOK
<1>10. ASSUME NEW a \in Requests, NEW k, Arrive(a, k) PROVE InContext(b)'
  BY <1>1, <1>2, <1>10 DEF Arrive, TypeOK
<1>11. ASSUME NEW a \in Requests, NEW t \in Tenants, Create(a, t) PROVE InContext(b)'
  BY <1>1, <1>2, <1>11 DEF Create, Move, TypeOK
<1>12. ASSUME NEW a \in Requests, NEW t \in Tenants, NEW force \in BOOLEAN, CheckDelete(a, t, force)
       PROVE InContext(b)'
  BY <1>1, <1>2, <1>12 DEF CheckDelete, Check, TypeOK
<1>13. ASSUME NEW a \in Requests, Unlist(a) PROVE InContext(b)'
  BY <1>1, <1>2, <1>13 DEF Unlist, Move, TypeOK
<1>14. ASSUME NEW a \in Tasks,
              ProvisionFails(a) \/ Drop(a) \/ DropFails(a) \/ Finish(a) \/ Crash(a)
       PROVE InContext(b)'
  BY <1>9, <1>14 DEF ProvisionFails, Drop, DropFails, Finish, Crash
<1>15. Requests \subseteq Tasks
  BY DEF Tasks
<1> QED
  BY <1>3, <1>4, <1>5, <1>6, <1>7, <1>8, <1>10, <1>11, <1>12, <1>13, <1>14, <1>15 DEF Next, Operate

LEMMA RowsStep == TypeOK /\ IsoInv /\ [Next]_vars => RowsInOwnSchema'
<1> SUFFICES ASSUME TypeOK, IsoInv, [Next]_vars PROVE RowsInOwnSchema'
  OBVIOUS
<1>1. ASSUME NEW a \in Tasks, NEW r \in Rows, Write(a, r) PROVE RowsInOwnSchema'
  <2>1. InContext(a) /\ aim[a] \in Tenants
    BY <1>1 DEF IsoInv, TypeOK, Write
  <2>2. Path(ctx[a]) \in Tenants => Path(ctx[a]) = aim[a]
    BY <1>1, <2>1, PublicPath, TenancyAssumption DEF InContext, Write, Path
  <2> QED
    BY <1>1, <2>2 DEF Write, IsoInv, RowsInOwnSchema, TypeOK
<1>2. ASSUME NEW a \in Requests, Drop(a) PROVE RowsInOwnSchema'
  BY <1>2, TenancyAssumption DEF Drop, IsoInv, RowsInOwnSchema, TypeOK
<1>3. CASE UNCHANGED data
  BY <1>3 DEF data, IsoInv, RowsInOwnSchema
<1>4. \/ UNCHANGED data
      \/ \E a \in Tasks, r \in Rows : Write(a, r)
      \/ \E a \in Requests : Drop(a)
  BY DEF Next, Operate, vars, MintKey, Arrive, Resolve, Resolved, Spawn, Enqueue, Claim, Create,
         Import, Provision, ProvisionFails, CheckDelete, Check, Unlist, DropFails,
         Finish, Crash
<1> QED
  BY <1>1, <1>2, <1>3, <1>4

(* RowsInOwnSchema: no schema ever holds a row of another tenant, however   *)
(* requests switch between tenants, leave tasks behind, or fail.            *)
THEOREM RowsInOwnSchemaAlways == Spec => []RowsInOwnSchema
<1>1. Init => TypeOK /\ IsoInv
  BY TypeInit, TenancyAssumption DEF Init, IsoInv, InContext, RowsInOwnSchema
<1>2. TypeOK /\ IsoInv /\ [Next]_vars => (TypeOK /\ IsoInv)'
  BY TypeStep, ContextStep, RowsStep DEF IsoInv
<1>3. IsoInv => RowsInOwnSchema
  BY DEF IsoInv
<1> QED
  BY <1>1, <1>2, <1>3, PTL DEF Spec

-----------------------------------------------------------------------------
(* While operators keep creating and deleting apart, a delete that has yet  *)
(* to drop its schema finds that nobody has created the tenant anew.        *)
ApartInv ==
  /\ ready \subseteq schemas
  /\ \A a \in Tasks : stage[a] = "dropping" => aim[a] \notin ready
  /\ \A a, b \in Tasks : ~(stage[a] \in Creating /\ stage[b] \in Deleting)

(* What matters to ApartInv of a step that is not an operator's. *)
LEMMA ApartOther ==
  ASSUME ApartInv, ready' = ready, schemas' = schemas,
         \A b \in Tasks : \/ stage'[b] = stage[b] /\ aim'[b] = aim[b]
                          \/ stage'[b] \notin Creating \cup Deleting
  PROVE  ApartInv'
BY DEF ApartInv, Creating, Deleting

LEMMA ApartStep ==
  ASSUME Apart, TypeOK, ApartInv, [Next]_vars
  PROVE  ApartInv'
<1>1. ASSUME NEW a \in Tasks, End(a), ready' = ready, schemas' = schemas PROVE ApartInv'
  BY <1>1, ApartOther DEF End, TypeOK, Creating, Deleting
<1>2. ASSUME NEW a \in Requests, NEW t \in Tenants, Create(a, t) PROVE ApartInv'
  BY <1>2, SMT DEF Create, Nobody, Move, ApartInv, TypeOK, Tasks, Creating, Deleting
<1>3. ASSUME NEW a \in Requests, Import(a) PROVE ApartInv'
  BY <1>3, SMT DEF Import, Nobody, Move, ApartInv, TypeOK, Tasks, Creating, Deleting
<1>4. ASSUME NEW a \in Requests, Provision(a) PROVE ApartInv'
  <2>1. a \in Tasks /\ ready' \subseteq schemas'
    BY <1>4 DEF Provision, ApartInv, Tasks
  <2>2. \A b \in Tasks : stage[b] \notin Deleting
    BY <1>4, <2>1 DEF Provision, ApartInv
  <2>3. \A b \in Tasks : stage'[b] \notin Deleting
    BY <1>4, <2>1, <2>2 DEF Provision, Answer, End, Move, TypeOK, Deleting
  <2> QED
    BY <2>1, <2>3 DEF ApartInv, Deleting
<1>5. ASSUME NEW a \in Requests, NEW t \in Tenants, NEW force \in BOOLEAN, CheckDelete(a, t, force)
      PROVE ApartInv'
  BY <1>5, SMT DEF CheckDelete, Check, Nobody, ApartInv, TypeOK, Tasks, Creating, Deleting
<1>6. ASSUME NEW a \in Requests, Unlist(a) PROVE ApartInv'
  BY <1>6, SMT DEF Unlist, Move, ApartInv, TypeOK, Tasks, Creating, Deleting
<1>7. ASSUME NEW a \in Requests, Drop(a) PROVE ApartInv'
  BY <1>7, SMT DEF Drop, End, ApartInv, TypeOK, Tasks, Creating, Deleting
<1>8. ASSUME NEW a \in Tasks,
             ProvisionFails(a) \/ DropFails(a) \/ Finish(a) \/ Crash(a)
      PROVE ApartInv'
  BY <1>1, <1>8 DEF ProvisionFails, DropFails, Finish, Crash
<1>9. CASE UNCHANGED vars \/ (\E t \in Tenants : MintKey(t)) \/ (\E a \in Requests : Enqueue(a))
           \/ (\E a \in Tasks, r \in Rows : Write(a, r))
  BY <1>9, ApartOther DEF vars, tasks, MintKey, Enqueue, Write
<1>10. ASSUME NEW a \in Requests, NEW k, Arrive(a, k) PROVE ApartInv'
  BY <1>10, ApartOther DEF Arrive, TypeOK, Creating, Deleting
<1>11. ASSUME NEW a \in Requests, NEW t \in Tenants, Resolve(a, t) PROVE ApartInv'
  BY <1>11, ApartOther DEF Resolve, Resolved, TypeOK, Creating, Deleting
<1>12. ASSUME NEW a \in Requests, NEW c \in Requests, Spawn(a, c) PROVE ApartInv'
  BY <1>12, ApartOther DEF Spawn, TypeOK, Creating, Deleting
<1>13. ASSUME NEW w \in Workers, NEW t \in Tenants, Claim(w, t) PROVE ApartInv'
  BY <1>13, ApartOther DEF Claim, TypeOK, Creating, Deleting
<1>14. Requests \subseteq Tasks
  BY DEF Tasks
<1> QED
  BY <1>2, <1>3, <1>4, <1>5, <1>6, <1>7, <1>8, <1>9, <1>10, <1>11, <1>12, <1>13, <1>14
     DEF Next, Operate

(* ReadyHaveSchemas: a tenant whose creation succeeded has its schema until *)
(* it is deleted, provided operators keep creating and deleting apart.      *)
THEOREM ReadyHaveSchemasWhenApart ==
  ASSUME Apart PROVE Spec => []ReadyHaveSchemas
<1>1. Init => TypeOK /\ ApartInv
  BY TypeInit DEF Init, ApartInv, Creating
<1>2. TypeOK /\ ApartInv /\ [Next]_vars => (TypeOK /\ ApartInv)'
  BY TypeStep, ApartStep
<1>3. ApartInv => ReadyHaveSchemas
  BY DEF ApartInv, ReadyHaveSchemas
<1> QED
  BY <1>1, <1>2, <1>3, PTL DEF Spec

(* RequestsReachTheSchema: under the same provision nothing a request       *)
(* writes for such a tenant falls through to public.                        *)
THEOREM RequestsReachTheSchemaWhenApart ==
  ASSUME Apart PROVE Spec => RequestsReachTheSchema
<1> DEFINE Reaches == \A a \in Requests, r \in Rows :
                        Write(a, r) /\ aim[a] \in ready => place'[r] = aim[a]
<1>1. Init => TypeOK /\ IsoInv /\ ApartInv
  BY TypeInit, TenancyAssumption DEF Init, IsoInv, InContext, RowsInOwnSchema, ApartInv, Creating
<1>2. TypeOK /\ IsoInv /\ ApartInv /\ [Next]_vars => (TypeOK /\ IsoInv /\ ApartInv)'
  BY TypeStep, ContextStep, RowsStep, ApartStep DEF IsoInv
<1>3. ASSUME TypeOK, IsoInv, ApartInv PROVE [Reaches]_vars
  <2> SUFFICES ASSUME NEW a \in Requests, NEW r \in Rows, Write(a, r), aim[a] \in ready
               PROVE place'[r] = aim[a]
    OBVIOUS
  <2>1. ctx[a] = aim[a] /\ aim[a] \in schemas
    BY <1>3 DEF IsoInv, InContext, ApartInv, Write, Tasks
  <2> QED
    BY <1>3, <2>1 DEF Write, Path, TypeOK
<1>4. Spec => [][Reaches]_vars
  BY <1>1, <1>2, <1>3, PTL DEF Spec
<1> QED
  BY <1>4 DEF RequestsReachTheSchema

-----------------------------------------------------------------------------
(* The rows of a schema are in a schema that there is; and of the checked   *)
(* rows in the schema that a delete is about to drop there is none that it  *)
(* may not take.                                                            *)
Housed == \A r \in Rows : place[r] \in Tenants => place[r] \in schemas

Looked(b) ==
  stage[b] \in Deleting => \A r \in Checked : place[r] = aim[b] => r \in may[b]

DropInv == Housed /\ \A b \in Tasks : Looked(b)

(* What matters to DropInv of a step that leaves the rows where they are.   *)
LEMMA DropOther ==
  ASSUME DropInv, UNCHANGED data, schemas \subseteq schemas',
         \A b \in Tasks : stage'[b] \in Deleting =>
           stage[b] \in Deleting /\ aim'[b] = aim[b] /\ may[b] \subseteq may'[b]
  PROVE  DropInv'
BY DEF DropInv, Housed, Looked, data

(* One that looks and goes ahead without force has seen none, wherever the  *)
(* operator's own search path leads.                                        *)
LEMMA LookedAround ==
  ASSUME TypeOK, RowsInOwnSchema, Housed, NEW t \in Tenants, Seen(t) \cap Checked = {},
         NEW r \in Checked
  PROVE  place[r] # t
<1> SUFFICES ASSUME place[r] = t PROVE FALSE
  OBVIOUS
<1>1. r \in Rows /\ t \in schemas
  BY TenancyAssumption DEF Housed
<1>2. Path(t) = t /\ owner[r] = t
  BY <1>1 DEF Path, RowsInOwnSchema
<1> QED
  BY <1>1, <1>2 DEF Seen

LEMMA DropStep == TypeOK /\ IsoInv /\ DropInv /\ [Next]_vars => DropInv'
<1> SUFFICES ASSUME TypeOK, IsoInv, DropInv, [Next]_vars PROVE DropInv'
  OBVIOUS
<1>1. ASSUME NEW a \in Tasks, End(a), UNCHANGED data, schemas' = schemas PROVE DropInv'
  BY <1>1, DropOther DEF End, TypeOK, Deleting
<1>2. ASSUME NEW a \in Tasks, NEW r \in Rows, Write(a, r) PROVE DropInv'
  <2>1. /\ schemas' = schemas /\ stage' = stage /\ aim' = aim
        /\ place' = [place EXCEPT ![r] = Path(ctx[a])]
        /\ may' = [b \in Tasks |-> IF stage[b] \in Deleting /\ place'[r] = aim[b]
                                  THEN may[b] \cup ({r} \cap Checked) ELSE may[b]]
    BY <1>2 DEF Write, tasks
  <2>2. Path(ctx[a]) \in Tenants => Path(ctx[a]) \in schemas
    BY TenancyAssumption DEF Path
  <2>3. Housed'
    BY <2>1, <2>2 DEF DropInv, Housed, TypeOK
  <2>4. ASSUME NEW b \in Tasks PROVE Looked(b)'
    BY <2>1 DEF DropInv, Looked, TypeOK
  <2> QED
    BY <2>3, <2>4 DEF DropInv
<1>3. ASSUME NEW a \in Requests, Drop(a) PROVE DropInv'
  <2>1. a \in Tasks /\ aim[a] \in Tenants
    BY <1>3 DEF Drop, TypeOK, Tasks, Deleting
  <2>2. /\ schemas' = schemas \ {aim[a]}
        /\ place' = [r \in Rows |-> IF place[r] = aim[a] THEN "gone" ELSE place[r]]
        /\ \A b \in Tasks : stage'[b] \in Deleting =>
             stage'[b] = stage[b] /\ aim'[b] = aim[b] /\ may'[b] = may[b]
    BY <1>3, <2>1 DEF Drop, End, TypeOK, Deleting
  <2>3. Housed'
    BY <2>2, TenancyAssumption DEF DropInv, Housed
  <2>4. ASSUME NEW b \in Tasks PROVE Looked(b)'
    <3> SUFFICES ASSUME stage'[b] \in Deleting, NEW r \in Checked, place'[r] = aim'[b]
                 PROVE  r \in may'[b]
      BY DEF Looked
    <3>1. aim[b] \in Tenants /\ r \in Rows
      BY <2>2, TenancyAssumption DEF TypeOK
    <3>2. place[r] = aim[b]
      BY <2>2, <3>1, TenancyAssumption
    <3> QED
      BY <2>2, <3>2 DEF DropInv, Looked
  <2> QED
    BY <2>3, <2>4 DEF DropInv
<1>4. ASSUME NEW a \in Requests, NEW t \in Tenants, NEW force \in BOOLEAN, CheckDelete(a, t, force)
      PROVE  DropInv'
  <2>1. a \in Tasks /\ UNCHANGED data /\ schemas' = schemas
    BY <1>4 DEF CheckDelete, Check, Tasks
  <2>2. ASSUME NEW b \in Tasks \ {a} PROVE Looked(b)'
    BY <1>4, <2>1 DEF CheckDelete, Check, DropInv, Looked, TypeOK, data
  <2>3. Looked(a)'
    <3>1. aim'[a] = t /\ may'[a] = IF force THEN Checked ELSE {}
      BY <1>4, <2>1 DEF CheckDelete, Check, TypeOK
    <3>2. CASE force
      BY <3>1, <3>2 DEF Looked
    <3>3. CASE ~force
      <4>1. Seen(t) \cap Checked = {}
        BY <1>4, <3>3 DEF CheckDelete, Check
      <4> QED
        BY <2>1, <3>1, <4>1, LookedAround DEF Looked, DropInv, IsoInv, data
    <3> QED
      BY <3>2, <3>3
  <2>4. Housed'
    BY <2>1 DEF DropInv, Housed, data
  <2> QED
    BY <2>2, <2>3, <2>4 DEF DropInv
<1>5. ASSUME NEW a \in Requests, Unlist(a) PROVE DropInv'
  BY <1>5, DropOther DEF Unlist, Move, TypeOK, Tasks, Deleting
<1>6. ASSUME NEW a \in Requests, NEW t \in Tenants, Create(a, t) PROVE DropInv'
  BY <1>6, DropOther DEF Create, Move, TypeOK, Tasks, Deleting
<1>7. ASSUME NEW a \in Requests, Import(a) PROVE DropInv'
  BY <1>7, DropOther DEF Import, Move, TypeOK, Tasks, Deleting
<1>8. ASSUME NEW a \in Requests, Provision(a) PROVE DropInv'
  <2>1. a \in Tasks /\ UNCHANGED data /\ schemas \subseteq schemas'
    BY <1>8 DEF Provision, Tasks
  <2>2. \A b \in Tasks : stage'[b] \in Deleting =>
          stage[b] \in Deleting /\ aim'[b] = aim[b] /\ may[b] \subseteq may'[b]
    BY <1>8, <2>1 DEF Provision, Answer, End, Move, TypeOK, Deleting
  <2> QED
    BY <2>1, <2>2, DropOther
<1>9. ASSUME NEW a \in Tasks, ProvisionFails(a) \/ DropFails(a) \/ Finish(a) \/ Crash(a)
      PROVE  DropInv'
  BY <1>1, <1>9 DEF ProvisionFails, DropFails, Finish, Crash
<1>10. CASE UNCHANGED vars \/ (\E t \in Tenants : MintKey(t)) \/ (\E a \in Requests : Enqueue(a))
  BY <1>10, DropOther DEF vars, tasks, MintKey, Enqueue
<1>11. ASSUME NEW a \in Requests, NEW k, Arrive(a, k) PROVE DropInv'
  BY <1>11, DropOther DEF Arrive, TypeOK, Deleting
<1>12. ASSUME NEW a \in Requests, NEW t \in Tenants, Resolve(a, t) PROVE DropInv'
  BY <1>12, DropOther DEF Resolve, Resolved, TypeOK, Deleting
<1>13. ASSUME NEW a \in Requests, NEW c \in Requests, Spawn(a, c) PROVE DropInv'
  BY <1>13, DropOther DEF Spawn, TypeOK, Deleting
<1>14. ASSUME NEW w \in Workers, NEW t \in Tenants, Claim(w, t) PROVE DropInv'
  BY <1>14, DropOther DEF Claim, TypeOK, Deleting
<1>15. Requests \subseteq Tasks
  BY DEF Tasks
<1> QED
  BY <1>2, <1>3, <1>4, <1>5, <1>6, <1>7, <1>8, <1>9, <1>10, <1>11, <1>12, <1>13, <1>14, <1>15
     DEF Next, Operate

(* A step that takes rows is the drop of a schema. *)
LEMMA OnlyDropTakes ==
  ASSUME TypeOK, [Next]_vars, NEW r \in Rows, place'[r] = "gone", place[r] # "gone"
  PROVE  \E a \in Requests : Drop(a)
<1>1. CASE UNCHANGED data
  BY <1>1 DEF data
<1>2. ASSUME NEW a \in Tasks, NEW q \in Rows, Write(a, q) PROVE FALSE
  BY <1>2, TenancyAssumption DEF Write, Path, TypeOK
<1>3. \/ UNCHANGED data
      \/ \E a \in Tasks, q \in Rows : Write(a, q)
      \/ \E a \in Requests : Drop(a)
  BY DEF Next, Operate, vars, MintKey, Arrive, Resolve, Resolved, Spawn, Enqueue, Claim, Create,
         Import, Provision, ProvisionFails, CheckDelete, Check, Unlist, DropFails,
         Finish, Crash
<1> QED
  BY <1>1, <1>2, <1>3

(* OnlyForceDropsData: whoever calls delete_tenant, with a key of whichever *)
(* tenant, takes without force no row that stood in a table it checks       *)
(* (api/tenants.py), even while creations, deletes and writes overlap with  *)
(* it and whether or not operators keep apart; what it may lose is what was *)
(* written after it looked.                                                 *)
THEOREM OnlyForceDropsDataAlways == Spec => OnlyForceDropsData
<1> DEFINE Spared == \A r \in Checked : place'[r] = "gone" /\ place[r] # "gone" =>
                       \E a \in Tasks : stage[a] = "dropping" /\ stage'[a] = "idle"
                                        /\ r \in may[a]
<1>1. Init => TypeOK /\ IsoInv /\ DropInv
  BY TypeInit, TenancyAssumption
  DEF Init, IsoInv, InContext, RowsInOwnSchema, DropInv, Housed, Looked, Deleting
<1>2. TypeOK /\ IsoInv /\ DropInv /\ [Next]_vars => (TypeOK /\ IsoInv /\ DropInv)'
  BY TypeStep, ContextStep, RowsStep, DropStep DEF IsoInv
<1>3. ASSUME TypeOK, DropInv, [Next]_vars PROVE [Spared]_vars
  <2> SUFFICES ASSUME NEW r \in Checked, place'[r] = "gone", place[r] # "gone"
               PROVE  \E a \in Tasks : stage[a] = "dropping" /\ stage'[a] = "idle" /\ r \in may[a]
    OBVIOUS
  <2>1. r \in Rows
    BY TenancyAssumption
  <2>2. PICK a \in Requests : Drop(a)
    BY <1>3, <2>1, OnlyDropTakes
  <2>3. a \in Tasks /\ place[r] = aim[a]
    BY <2>1, <2>2 DEF Drop, Tasks
  <2> QED
    BY <1>3, <2>2, <2>3 DEF Drop, End, TypeOK, DropInv, Looked, Deleting
<1>4. Spec => [][Spared]_vars
  BY <1>1, <1>2, <1>3, PTL DEF Spec
<1> QED
  BY <1>4 DEF OnlyForceDropsData
=============================================================================
