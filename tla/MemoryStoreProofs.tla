-------------------------- MODULE MemoryStoreProofs --------------------------
(***************************************************************************)
(* Proofs about MemoryStore for every number of memories, contents and     *)
(* requests in progress, and every pattern of overlaps and faults.         *)
(***************************************************************************)
EXTENDS MemoryStore, FiniteSetTheorems, SequenceTheorems, TLAPS

-----------------------------------------------------------------------------
(* What a request carries from one of its steps to the next. *)

ShapeOf(t) ==
  /\ task[t].at = "upsert" => /\ task[t].op \in {"create", "update"} /\ task[t].text \in Contents
                              /\ task[t].op = "update" => task[t].seen \in Contents
  /\ task[t].at = "commit" => /\ task[t].op = "update" /\ task[t].seen \in Contents
                              /\ task[t].text \in Contents \cup {"keep"}
  /\ task[t].at = "remove" => task[t].op = "delete"
  /\ task[t].at = "unpoint" => /\ task[t].op \in {"delete", "clear", "cleanup"}
                               /\ \A i \in task[t].ids : row[i] = "gone"
  /\ task[t].at = "bust" /\ task[t].op \in {"create", "update"} => task[t].text \in Contents
  /\ task[t].at \in {"number", "record"} =>
       task[t].op \in {"create", "update"} /\ task[t].text \in Contents
  /\ task[t].at = "publish" => task[t].op \in {"create", "update", "delete"}
  /\ task[t].at \in {"query", "fetch", "bump", "store"} => task[t].op = "search"

TInv == TypeOK /\ \A t \in Requests : ShapeOf(t)

(* A deleted row stays deleted. *)
GoneStays == \A i \in Ids : row[i] = "gone" => row'[i] = "gone"

(* The step is one of request t. *)
OnlyTask(t) == \A u \in Requests \ {t} : task'[u] = task[u]

LEMMA IdleRecord == Idle \in TaskRecords
BY DEF Idle, TaskRecords, Ops, Steps, Texts

LEMMA IdleShape == ASSUME NEW t \in Requests, task[t] = Idle PROVE ShapeOf(t)
BY DEF Idle, ShapeOf

LEMMA InitTInv == Init => TInv
<1> SUFFICES ASSUME Init PROVE TInv
  OBVIOUS
<1>1. TypeOK
  <2>1. Cardinality(cache) <= 1
    BY FS_EmptySet DEF Init
  <2> QED
    BY <2>1, IdleRecord, MemoryStoreAssumption DEF Init, TypeOK
<1>2. ASSUME NEW t \in Requests PROVE ShapeOf(t)
  BY IdleShape DEF Init
<1> QED
  BY <1>1, <1>2 DEF TInv

(* The shapes of the other requests survive a step of request t. *)
LEMMA OtherShapes ==
  ASSUME TInv, NEW t \in Requests, OnlyTask(t), GoneStays, ShapeOf(t)', TypeOK'
  PROVE  TInv'
<1>1. ASSUME NEW u \in Requests PROVE ShapeOf(u)'
  <2>1. CASE u = t
    BY <2>1
  <2>2. CASE u # t
    <3>1. task'[u] = task[u] /\ ShapeOf(u) /\ task[u].ids \subseteq Ids
      BY <2>2 DEF OnlyTask, TInv, TypeOK, TaskRecords
    <3> QED
      BY <3>1 DEF ShapeOf, GoneStays
  <2> QED
    BY <2>1, <2>2
<1> QED
  BY <1>1 DEF TInv

(* How a request goes on. *)
LEMMA GoType ==
  ASSUME TypeOK, NEW t \in Requests, NEW step \in Steps, Go(t, step)
  PROVE  /\ task' \in [Requests -> TaskRecords] /\ OnlyTask(t)
         /\ task'[t].at = step /\ task'[t].op = task[t].op /\ task'[t].ids = task[t].ids
         /\ task'[t].text = task[t].text /\ task'[t].seen = task[t].seen
<1> DEFINE next == [task[t] EXCEPT !.at = step]
<1>1. task \in [Requests -> TaskRecords] /\ task' = [task EXCEPT ![t] = next]
  BY DEF Go, TypeOK
<1>2. task[t] \in TaskRecords
  BY <1>1
<1>3. /\ next \in TaskRecords
      /\ next.at = step /\ next.op = task[t].op /\ next.ids = task[t].ids
      /\ next.text = task[t].text /\ next.seen = task[t].seen
  BY <1>2 DEF TaskRecords
<1> HIDE DEF next
<1>4. task' \in [Requests -> TaskRecords] /\ OnlyTask(t) /\ task'[t] = next
  BY <1>1, <1>3 DEF OnlyTask
<1> QED
  BY <1>3, <1>4

LEMMA ReplaceType ==
  ASSUME TypeOK, NEW t \in Requests, NEW next \in TaskRecords, task' = [task EXCEPT ![t] = next]
  PROVE  task' \in [Requests -> TaskRecords] /\ OnlyTask(t) /\ task'[t] = next
BY DEF TypeOK, OnlyTask

LEMMA EndType ==
  ASSUME TypeOK, NEW t \in Requests, End(t)
  PROVE  task' \in [Requests -> TaskRecords] /\ OnlyTask(t) /\ task'[t] = Idle
BY IdleRecord DEF End, TypeOK, OnlyTask

LEMMA BeginType ==
  ASSUME TypeOK, NEW t \in Requests, NEW ids \in SUBSET Ids, NEW first \in TaskRecords,
         Begin(t, ids, first)
  PROVE  /\ task' \in [Requests -> TaskRecords] /\ OnlyTask(t) /\ task'[t] = first
         /\ begun' \in 0 .. MaxRequests /\ raced' \subseteq Ids
BY MemoryStoreAssumption DEF Begin, TypeOK, OnlyTask

(* What every step of a request keeps. *)
StepOK(t) == TypeOK' /\ OnlyTask(t) /\ ShapeOf(t)' /\ GoneStays

(* The stores' types, apart from what a step is about. *)
LEMMA CountsType ==
  ASSUME TypeOK, UNCHANGED counts
  PROVE  begun' \in 0 .. MaxRequests /\ raced' \subseteq Ids /\ cut' \subseteq Ids /\ faults' \in 0 .. MaxFaults
BY DEF TypeOK, counts

LEMMA StrikeType ==
  ASSUME TypeOK, NEW kind, NEW ids \in SUBSET Ids, Strike(kind, ids)
  PROVE  cut' \subseteq Ids /\ faults' \in 0 .. MaxFaults /\ cut \subseteq cut'
BY MemoryStoreAssumption DEF Strike, TypeOK

(* Beginnings. *)
LEMMA CreateStep ==
  ASSUME TInv, NEW t \in Requests, NEW i \in Ids, NEW text \in Contents,
         NEW ttl \in {"never", "ahead"}, Create(t, i, text, ttl)
  PROVE  StepOK(t)
<1> DEFINE first == [Idle EXCEPT !.op = "create", !.at = "upsert", !.ids = {i}, !.text = text]
<1>1. first \in TaskRecords /\ first.at = "upsert" /\ first.op = "create" /\ first.text = text
  BY DEF Idle, TaskRecords, Ops, Steps, Texts
<1>2. Begin(t, {i}, first) /\ TypeOK
  BY DEF Create, TInv
<1> HIDE DEF first
<1>3. /\ task' \in [Requests -> TaskRecords] /\ OnlyTask(t) /\ task'[t] = first
      /\ begun' \in 0 .. MaxRequests /\ raced' \subseteq Ids
  BY <1>1, <1>2, BeginType
<1>4. TypeOK'
  BY <1>2, <1>3 DEF Create, TypeOK
<1>5. ShapeOf(t)'
  BY <1>1, <1>3 DEF ShapeOf
<1>6. GoneStays
  BY <1>2 DEF Create, GoneStays, TypeOK
<1> QED
  BY <1>3, <1>4, <1>5, <1>6 DEF StepOK

LEMMA UpdateStep ==
  ASSUME TInv, NEW t \in Requests, NEW i \in Ids, NEW text \in Contents \cup {"keep"},
         Update(t, i, text)
  PROVE  StepOK(t)
<1> DEFINE first == [Idle EXCEPT !.op = "update", !.ids = {i}, !.text = text, !.seen = row[i],
                                 !.at = IF text = "keep" THEN "commit" ELSE "upsert"]
<1>1. /\ first \in TaskRecords /\ first.op = "update" /\ first.text = text
      /\ first.seen = row[i] /\ row[i] \in Contents
      /\ first.at = IF text = "keep" THEN "commit" ELSE "upsert"
  BY DEF Update, Live, Idle, TaskRecords, Ops, Steps, Texts
<1>2. Begin(t, {i}, first) /\ TypeOK
  BY DEF Update, TInv
<1> HIDE DEF first
<1>3. /\ task' \in [Requests -> TaskRecords] /\ OnlyTask(t) /\ task'[t] = first
      /\ begun' \in 0 .. MaxRequests /\ raced' \subseteq Ids
  BY <1>1, <1>2, BeginType
<1>4. TypeOK' /\ GoneStays
  BY <1>2, <1>3 DEF Update, TypeOK, GoneStays, stores, pg
<1>5. ShapeOf(t)'
  BY <1>1, <1>3 DEF ShapeOf
<1> QED
  BY <1>3, <1>4, <1>5 DEF StepOK

LEMMA DeleteStep ==
  ASSUME TInv, NEW t \in Requests, NEW i \in Ids, Delete(t, i) PROVE StepOK(t)
<1> DEFINE first == [Idle EXCEPT !.op = "delete", !.at = "remove", !.ids = {i}]
<1>1. first \in TaskRecords /\ first.op = "delete" /\ first.at = "remove"
  BY DEF Idle, TaskRecords, Ops, Steps, Texts
<1>2. Begin(t, {i}, first) /\ TypeOK
  BY DEF Delete, TInv
<1> HIDE DEF first
<1>3. /\ task' \in [Requests -> TaskRecords] /\ OnlyTask(t) /\ task'[t] = first
      /\ begun' \in 0 .. MaxRequests /\ raced' \subseteq Ids
  BY <1>1, <1>2, BeginType
<1>4. TypeOK' /\ GoneStays
  BY <1>2, <1>3 DEF Delete, TypeOK, GoneStays, stores, pg
<1>5. ShapeOf(t)'
  BY <1>1, <1>3 DEF ShapeOf
<1> QED
  BY <1>3, <1>4, <1>5 DEF StepOK

(* The bulk deletes: rows first, and the ids kept are among theirs. *)
LEMMA BulkStep ==
  ASSUME TInv, NEW t \in Requests, NEW ids \in SUBSET Ids, NEW kept \in SUBSET ids,
         NEW op \in {"clear", "cleanup"},
         Begin(t, ids, [Idle EXCEPT !.op = op, !.ids = kept,
                                    !.at = IF kept = {} THEN "bust" ELSE "unpoint"]),
         row' = [i \in Ids |-> IF i \in ids THEN "gone" ELSE row[i]],
         UNCHANGED <<expiry, point, history, told, cache, cut, faults>>
  PROVE  StepOK(t)
<1> DEFINE first == [Idle EXCEPT !.op = op, !.ids = kept,
                                 !.at = IF kept = {} THEN "bust" ELSE "unpoint"]
<1>1. /\ first \in TaskRecords /\ first.op = op /\ first.ids = kept
      /\ first.at = IF kept = {} THEN "bust" ELSE "unpoint"
  BY DEF Idle, TaskRecords, Ops, Steps, Texts
<1>2. Begin(t, ids, first) /\ TypeOK
  BY DEF TInv
<1> HIDE DEF first
<1>3. /\ task' \in [Requests -> TaskRecords] /\ OnlyTask(t) /\ task'[t] = first
      /\ begun' \in 0 .. MaxRequests /\ raced' \subseteq Ids
  BY <1>1, <1>2, BeginType
<1>4. TypeOK' /\ GoneStays
  BY <1>2, <1>3 DEF TypeOK, GoneStays
<1>5. ShapeOf(t)'
  BY <1>1, <1>3 DEF ShapeOf
<1> QED
  BY <1>3, <1>4, <1>5 DEF StepOK

LEMMA ClearStep ==
  ASSUME TInv, NEW t \in Requests, NEW match \in SUBSET Ids, Clear(t, match) PROVE StepOK(t)
BY BulkStep DEF Clear

(* A cleanup's kept ids are a subset of the ids it deleted. *)
LEMMA CleanupKeeps ==
  ASSUME NEW t \in Requests, Cleanup(t)
  PROVE  LET ids == {i \in Ids : Live(i) /\ expiry[i] = "past"} IN
           \E kept \in SUBSET ids :
             /\ Cardinality(kept) = Min({Batch, Cardinality(ids)})
             /\ Begin(t, ids, [Idle EXCEPT !.op = "cleanup", !.ids = kept,
                                           !.at = IF kept = {} THEN "bust" ELSE "unpoint"])
BY DEF Cleanup, kSubset

LEMMA CleanupStep == ASSUME TInv, NEW t \in Requests, Cleanup(t) PROVE StepOK(t)
BY CleanupKeeps, BulkStep DEF Cleanup

LEMMA MissStep == ASSUME TInv, NEW t \in Requests, Miss(t) PROVE StepOK(t)
<1>1. task[t] = Idle /\ task \in [Requests -> TaskRecords] /\ TypeOK
  BY DEF Miss, TInv, TypeOK
<1>2. /\ task' = [task EXCEPT ![t] = [Idle EXCEPT !.op = "search", !.at = "query"]]
      /\ [Idle EXCEPT !.op = "search", !.at = "query"] \in TaskRecords
  BY <1>1 DEF Miss, Idle, TaskRecords, Ops, Steps, Texts
<1>3. /\ task' \in [Requests -> TaskRecords] /\ OnlyTask(t)
      /\ task'[t] = [Idle EXCEPT !.op = "search", !.at = "query"]
  BY <1>1, <1>2 DEF OnlyTask
<1>4. ShapeOf(t)'
  BY <1>3 DEF ShapeOf, Idle
<1>5. TypeOK' /\ GoneStays
  BY <1>1, <1>3, CountsType DEF Miss, TypeOK, GoneStays, stores, pg
<1> QED
  BY <1>3, <1>4, <1>5 DEF StepOK

-----------------------------------------------------------------------------
(* Continuations. *)

(* A request that only goes on. *)
LEMMA GoStep ==
  ASSUME TInv, NEW t \in Requests, NEW step \in Steps, Go(t, step), UNCHANGED <<stores, begun, raced>>,
         cut' \subseteq Ids, faults' \in 0 .. MaxFaults, ShapeOf(t)'
  PROVE  StepOK(t)
BY GoType DEF TInv, TypeOK, StepOK, GoneStays, stores, pg

(* A request that returns. *)
LEMMA EndStep ==
  ASSUME TInv, NEW t \in Requests, End(t), UNCHANGED <<stores, begun, raced>>,
         cut' \subseteq Ids, faults' \in 0 .. MaxFaults
  PROVE  StepOK(t)
<1>1. task' \in [Requests -> TaskRecords] /\ OnlyTask(t) /\ task'[t] = Idle
  BY EndType DEF TInv
<1>2. ShapeOf(t)'
  BY <1>1 DEF ShapeOf, Idle
<1> QED
  BY <1>1, <1>2 DEF TInv, TypeOK, StepOK, GoneStays, stores, pg

LEMMA UpsertStep == ASSUME TInv, NEW t \in Requests, Upsert(t) PROVE StepOK(t)
<1> DEFINE step == IF task[t].op = "create" THEN "bust" ELSE "commit"
<1>1. TypeOK /\ step \in Steps /\ Go(t, step) /\ ShapeOf(t) /\ task[t].at = "upsert"
  BY DEF TInv, Upsert, Steps
<1>2. /\ task' \in [Requests -> TaskRecords] /\ OnlyTask(t)
      /\ task'[t].at = step /\ task'[t].op = task[t].op /\ task'[t].ids = task[t].ids
      /\ task'[t].text = task[t].text /\ task'[t].seen = task[t].seen
  BY <1>1, GoType
<1>3. TypeOK' /\ GoneStays
  BY <1>1, <1>2, CountsType DEF Upsert, TypeOK, GoneStays, ShapeOf, pg
<1>4. ShapeOf(t)'
  BY <1>1, <1>2 DEF ShapeOf
<1> QED
  BY <1>2, <1>3, <1>4 DEF StepOK

(* The text an update goes on with. *)
Kept(t) == IF task[t].text = "keep" THEN task[t].seen ELSE task[t].text

LEMMA UpdateCommitTask ==
  ASSUME TInv, NEW t \in Requests, UpdateCommit(t)
  PROVE  /\ Kept(t) \in Contents /\ task[t].op = "update"
         /\ task' \in [Requests -> TaskRecords] /\ OnlyTask(t)
         /\ task'[t] = [task[t] EXCEPT !.at = "bust", !.text = Kept(t)]
<1> DEFINE next == [task[t] EXCEPT !.at = "bust", !.text = Kept(t)]
<1>1. task[t] \in TaskRecords /\ TypeOK /\ task[t].at = "commit" /\ ShapeOf(t)
  BY DEF TInv, TypeOK, UpdateCommit
<1>2. Kept(t) \in Contents /\ task[t].op = "update"
  BY <1>1 DEF ShapeOf, Kept
<1>3. next \in TaskRecords
  BY <1>1, <1>2 DEF TaskRecords, Steps, Texts
<1>4. task' = [task EXCEPT ![t] = next]
  BY <1>1 DEF UpdateCommit, Kept, TypeOK
<1> HIDE DEF next
<1>5. task' \in [Requests -> TaskRecords] /\ OnlyTask(t) /\ task'[t] = next
  BY <1>1, <1>3, <1>4, ReplaceType
<1> QED
  BY <1>2, <1>5 DEF next

LEMMA UpdateCommitStep == ASSUME TInv, NEW t \in Requests, UpdateCommit(t) PROVE StepOK(t)
<1>1. /\ Kept(t) \in Contents /\ task[t].op = "update" /\ task[t] \in TaskRecords /\ TypeOK
      /\ task' \in [Requests -> TaskRecords] /\ OnlyTask(t)
      /\ task'[t] = [task[t] EXCEPT !.at = "bust", !.text = Kept(t)]
  BY UpdateCommitTask DEF TInv, TypeOK
<1>2. PICK i \in Ids : Live(i) /\ row' = IF Kept(t) = task[t].seen THEN row
                                        ELSE [row EXCEPT ![i] = Kept(t)]
  BY <1>1 DEF UpdateCommit, Kept, TaskRecords
<1>3. row' \in [Ids -> Contents \cup {"unborn", "gone"}] /\ GoneStays
  BY <1>1, <1>2, MemoryStoreAssumption DEF TypeOK, GoneStays, Live
<1>4. TypeOK'
  BY <1>1, <1>3, CountsType DEF UpdateCommit, TypeOK
<1>5. /\ task'[t].at = "bust" /\ task'[t].op = "update" /\ task'[t].text = Kept(t)
  BY <1>1 DEF TaskRecords
<1>6. ShapeOf(t)'
  BY <1>1, <1>5 DEF ShapeOf
<1> QED
  BY <1>1, <1>3, <1>4, <1>6 DEF StepOK

LEMMA RemoveStep == ASSUME TInv, NEW t \in Requests, Remove(t) PROVE StepOK(t)
<1>1. /\ TypeOK /\ "unpoint" \in Steps /\ Go(t, "unpoint") /\ ShapeOf(t) /\ task[t].at = "remove"
      /\ task[t].ids \subseteq Ids
  BY DEF TInv, Remove, Steps, TypeOK, TaskRecords
<1>2. /\ task' \in [Requests -> TaskRecords] /\ OnlyTask(t)
      /\ task'[t].at = "unpoint" /\ task'[t].op = task[t].op /\ task'[t].ids = task[t].ids
  BY <1>1, GoType
<1>3. TypeOK' /\ GoneStays
  BY <1>1, <1>2, CountsType DEF Remove, TypeOK, GoneStays
<1>4. ShapeOf(t)'
  BY <1>1, <1>2 DEF Remove, ShapeOf
<1> QED
  BY <1>2, <1>3, <1>4 DEF StepOK

LEMMA UnpointStep == ASSUME TInv, NEW t \in Requests, Unpoint(t) PROVE StepOK(t)
<1>1. TypeOK /\ "bust" \in Steps /\ Go(t, "bust") /\ task[t].op = "delete"
  BY DEF TInv, Unpoint, Steps
<1>2. /\ task' \in [Requests -> TaskRecords] /\ OnlyTask(t)
      /\ task'[t].at = "bust" /\ task'[t].op = task[t].op
  BY <1>1, GoType
<1>3. TypeOK' /\ GoneStays
  BY <1>1, <1>2, CountsType DEF Unpoint, TypeOK, GoneStays, pg
<1>4. ShapeOf(t)'
  BY <1>1, <1>2 DEF ShapeOf
<1> QED
  BY <1>2, <1>3, <1>4 DEF StepOK

(* A chunk of vectors goes, and the task keeps the rest of its ids. *)
LEMMA UnpointChunkTask ==
  ASSUME TInv, NEW t \in Requests, UnpointChunk(t)
  PROVE  \E chunk \in SUBSET task[t].ids :
           /\ point' = [i \in Ids |-> IF i \in chunk THEN "none" ELSE point[i]]
           /\ task' \in [Requests -> TaskRecords] /\ OnlyTask(t)
           /\ task'[t].ids = task[t].ids \ chunk /\ task'[t].op = task[t].op
           /\ task'[t].at = IF task[t].ids \subseteq chunk THEN "bust" ELSE "unpoint"
<1>1. PICK chunk \in SUBSET task[t].ids :
        /\ point' = [i \in Ids |-> IF i \in chunk THEN "none" ELSE point[i]]
        /\ task' = [task EXCEPT ![t].ids = @ \ chunk,
                                ![t].at = IF task[t].ids \subseteq chunk THEN "bust" ELSE "unpoint"]
  BY DEF UnpointChunk, kSubset
<1> DEFINE at == IF task[t].ids \subseteq chunk THEN "bust" ELSE "unpoint"
           next == [task[t] EXCEPT !.ids = task[t].ids \ chunk, !.at = at]
<1>2. task[t] \in TaskRecords /\ TypeOK
  BY DEF TInv, TypeOK
<1>3. /\ next \in TaskRecords /\ next.ids = task[t].ids \ chunk /\ next.op = task[t].op
      /\ next.at = at
  BY <1>2 DEF TaskRecords, Steps
<1>4. task' = [task EXCEPT ![t] = next]
  BY <1>1, <1>2 DEF TypeOK
<1> HIDE DEF next, at
<1>5. task' \in [Requests -> TaskRecords] /\ OnlyTask(t) /\ task'[t] = next
  BY <1>2, <1>3, <1>4, ReplaceType
<1> QED
  BY <1>1, <1>3, <1>5 DEF at

LEMMA UnpointChunkStep == ASSUME TInv, NEW t \in Requests, UnpointChunk(t) PROVE StepOK(t)
<1>1. PICK chunk \in SUBSET task[t].ids :
        /\ point' = [i \in Ids |-> IF i \in chunk THEN "none" ELSE point[i]]
        /\ task' \in [Requests -> TaskRecords] /\ OnlyTask(t)
        /\ task'[t].ids = task[t].ids \ chunk /\ task'[t].op = task[t].op
        /\ task'[t].at \in {"bust", "unpoint"}
  BY UnpointChunkTask
<1>2. /\ task[t].at = "unpoint" /\ task[t].op \in {"clear", "cleanup"} /\ ShapeOf(t) /\ TypeOK
      /\ UNCHANGED <<pg, history, told, cache, counts>>
  BY DEF UnpointChunk, TInv
<1>3. TypeOK' /\ GoneStays
  BY <1>1, <1>2, CountsType DEF TypeOK, GoneStays, pg
<1>4. ShapeOf(t)'
  BY <1>1, <1>2 DEF ShapeOf, pg
<1> QED
  BY <1>1, <1>3, <1>4 DEF StepOK

LEMMA CacheSize == Cardinality({}) <= 1 /\ \A x : Cardinality({x}) <= 1
BY FS_EmptySet, FS_Singleton

LEMMA PastCacheStep ==
  ASSUME TInv, NEW t \in Requests, task[t].at = "bust", PastCache(t),
         UNCHANGED <<pg, point, history, told, begun, raced>>, cache' \in {cache, {}},
         cut' \subseteq Ids, faults' \in 0 .. MaxFaults
  PROVE  StepOK(t)
<1>1. TypeOK /\ ShapeOf(t) /\ task[t] \in TaskRecords
  BY DEF TInv, TypeOK
<1>2. /\ task' \in [Requests -> TaskRecords] /\ OnlyTask(t) /\ ShapeOf(t)'
  <2>1. CASE After(t) = "idle"
    <3>1. task' \in [Requests -> TaskRecords] /\ OnlyTask(t) /\ task'[t] = Idle
      BY <1>1, <2>1, EndType DEF PastCache
    <3> QED
      BY <3>1 DEF ShapeOf, Idle
  <2>2. CASE After(t) # "idle"
    <3>1. /\ After(t) \in Steps /\ Go(t, After(t))
          /\ \/ After(t) = "record" /\ task[t].op = "create"
             \/ After(t) = "number" /\ task[t].op = "update"
             \/ After(t) = "publish" /\ task[t].op = "delete"
      BY <2>2 DEF PastCache, After, Steps
    <3>2. /\ task' \in [Requests -> TaskRecords] /\ OnlyTask(t)
          /\ task'[t].at = After(t) /\ task'[t].op = task[t].op /\ task'[t].text = task[t].text
      BY <1>1, <3>1, GoType
    <3> QED
      BY <1>1, <3>1, <3>2 DEF ShapeOf
  <2> QED
    BY <2>1, <2>2
<1>3. TypeOK' /\ GoneStays
  BY <1>1, <1>2, CacheSize DEF TypeOK, GoneStays, pg
<1> QED
  BY <1>2, <1>3 DEF StepOK

LEMMA BustStep == ASSUME TInv, NEW t \in Requests, Bust(t) PROVE StepOK(t)
BY PastCacheStep, CountsType DEF Bust, TInv, counts

LEMMA BustLostStep == ASSUME TInv, NEW t \in Requests, BustLost(t) PROVE StepOK(t)
<1>1. cut' \subseteq Ids /\ faults' \in 0 .. MaxFaults
  BY StrikeType DEF BustLost, TInv
<1> QED
  BY <1>1, PastCacheStep DEF BustLost, stores

LEMMA NumbersType == ASSUME TypeOK, NEW i \in Ids PROVE Numbers(i) \subseteq Nat
<1>1. history[i] \in Seq([number : Nat, text : Contents])
  BY DEF TypeOK
<1>2. ASSUME NEW S, NEW q \in Seq(S), NEW n \in DOMAIN q PROVE q[n] \in S
  OBVIOUS
<1>3. \A n \in DOMAIN history[i] : history[i][n] \in [number : Nat, text : Contents]
  BY <1>1, <1>2
<1>4. \A n \in DOMAIN history[i] : history[i][n].number \in Nat
  BY <1>3
<1> QED
  BY <1>4 DEF Numbers

(* A version number is asked for, or made up. *)
LEMMA NumberedStep ==
  ASSUME TInv, NEW t \in Requests, NEW n \in Nat, task[t].at = "number",
         task' = [task EXCEPT ![t].at = "record", ![t].num = n], UNCHANGED <<stores, begun, raced>>,
         cut' \subseteq Ids, faults' \in 0 .. MaxFaults
  PROVE  StepOK(t)
<1> DEFINE next == [task[t] EXCEPT !.at = "record", !.num = n]
<1>1. TypeOK /\ ShapeOf(t) /\ task[t] \in TaskRecords
  BY DEF TInv, TypeOK
<1>2. next \in TaskRecords /\ next.at = "record" /\ next.op = task[t].op /\ next.text = task[t].text
  BY <1>1 DEF TaskRecords, Steps
<1>3. task' = [task EXCEPT ![t] = next]
  BY <1>1 DEF TypeOK
<1> HIDE DEF next
<1>4. task' \in [Requests -> TaskRecords] /\ OnlyTask(t) /\ task'[t] = next
  BY <1>1, <1>2, <1>3, ReplaceType
<1>5. ShapeOf(t)'
  BY <1>1, <1>2, <1>4 DEF ShapeOf
<1> QED
  BY <1>1, <1>4, <1>5 DEF TypeOK, StepOK, GoneStays, stores, pg

LEMMA NumberStep ==
  ASSUME TInv, NEW t \in Requests, Number(t) \/ NumberLost(t) PROVE StepOK(t)
<1>1. TypeOK /\ task[t].ids \subseteq Ids
  BY DEF TInv, TypeOK, TaskRecords
<1>2. CASE Number(t)
  <2>1. PICK i \in task[t].ids : \E n \in Numbers(i) \cup {0} :
          task' = [task EXCEPT ![t].at = "record", ![t].num = n + 1]
    BY <1>2 DEF Number
  <2>2. PICK n \in Nat : task' = [task EXCEPT ![t].at = "record", ![t].num = n + 1]
    BY <1>1, <2>1, NumbersType
  <2>3. n + 1 \in Nat /\ cut' \subseteq Ids /\ faults' \in 0 .. MaxFaults
    BY <1>1, <1>2, CountsType DEF Number
  <2> QED
    BY <1>2, <2>2, <2>3, NumberedStep DEF Number, counts
<1>3. CASE NumberLost(t)
  <2>1. cut' \subseteq Ids /\ faults' \in 0 .. MaxFaults
    BY <1>1, <1>3, StrikeType DEF NumberLost, Scope
  <2> QED
    BY <1>3, <2>1, NumberedStep DEF NumberLost
<1> QED
  BY <1>2, <1>3

LEMMA RecordStep == ASSUME TInv, NEW t \in Requests, Record(t) \/ RecordLost(t) PROVE StepOK(t)
<1>1. /\ TypeOK /\ ShapeOf(t) /\ task[t] \in TaskRecords /\ "publish" \in Steps /\ Go(t, "publish")
      /\ task[t].at = "record" /\ task[t].ids \subseteq Ids /\ task[t].num \in Nat
  BY DEF TInv, TypeOK, TaskRecords, Record, RecordLost, Steps
<1>2. /\ task' \in [Requests -> TaskRecords] /\ OnlyTask(t)
      /\ task'[t].at = "publish" /\ task'[t].op = task[t].op
  BY <1>1, GoType
<1>3. ShapeOf(t)'
  BY <1>1, <1>2 DEF ShapeOf
<1>4. CASE Record(t)
  <2> DEFINE version == [number |-> IF task[t].op = "create" THEN 1 ELSE task[t].num,
                         text |-> task[t].text]
  <2>1. version \in [number : Nat, text : Contents]
    BY <1>1 DEF ShapeOf
  <2>2. PICK i \in Ids : history' = [history EXCEPT ![i] = Append(history[i], version)]
    BY <1>1, <1>4 DEF Record
  <2> HIDE DEF version
  <2>3. history[i] \in Seq([number : Nat, text : Contents])
    BY <1>1 DEF TypeOK
  <2> DEFINE versions == [number : Nat, text : Contents]
  <2>4. ASSUME NEW x \in versions, NEW q \in Seq(versions) PROVE Append(q, x) \in Seq(versions)
    OBVIOUS
  <2>5. Append(history[i], version) \in Seq([number : Nat, text : Contents])
    BY <2>1, <2>3, <2>4
  <2>6. history' \in [Ids -> Seq([number : Nat, text : Contents])]
    BY <1>1, <2>2, <2>5 DEF TypeOK
  <2> QED
    BY <1>1, <1>2, <1>3, <1>4, <2>6, CountsType DEF Record, TypeOK, StepOK, GoneStays, pg
<1>5. CASE RecordLost(t)
  <2>1. cut' \subseteq Ids /\ faults' \in 0 .. MaxFaults
    BY <1>1, <1>5, StrikeType DEF RecordLost, Scope
  <2> QED
    BY <1>1, <1>3, <1>5, <2>1, GoStep DEF RecordLost
<1> QED
  BY <1>4, <1>5

LEMMA PublishStep == ASSUME TInv, NEW t \in Requests, Publish(t) PROVE StepOK(t)
<1>1. TypeOK /\ ShapeOf(t) /\ task[t].at = "publish" /\ End(t)
  BY DEF TInv, Publish
<1>2. task' \in [Requests -> TaskRecords] /\ OnlyTask(t) /\ task'[t] = Idle
  BY <1>1, EndType
<1>3. ShapeOf(t)'
  BY <1>2 DEF ShapeOf, Idle
<1>4. told' \in [Ids -> {"nothing", "create", "update", "delete"}]
  BY <1>1 DEF Publish, ShapeOf, TypeOK
<1> QED
  BY <1>1, <1>2, <1>3, <1>4, CountsType DEF Publish, TypeOK, StepOK, GoneStays, pg

(* The search. *)
LEMMA SearchTask ==
  ASSUME TInv, NEW t \in Requests, NEW ids \in SUBSET Ids, NEW hits \in SUBSET (Ids \X Contents),
         NEW at \in {"query", "fetch", "bump", "store"}, task[t].op = "search",
         task' = [task EXCEPT ![t] = [@ EXCEPT !.ids = ids, !.hits = hits, !.at = at]],
         UNCHANGED <<stores, counts>>
  PROVE  StepOK(t)
<1> DEFINE next == [task[t] EXCEPT !.ids = ids, !.hits = hits, !.at = at]
<1>1. TypeOK /\ task[t] \in TaskRecords
  BY DEF TInv, TypeOK
<1>2. next \in TaskRecords /\ next.at = at /\ next.op = "search"
  BY <1>1 DEF TaskRecords, Steps
<1> HIDE DEF next
<1>3. task' = [task EXCEPT ![t] = next]
  BY DEF next
<1>4. task' \in [Requests -> TaskRecords] /\ OnlyTask(t) /\ task'[t] = next
  BY <1>1, <1>2, <1>3, ReplaceType
<1>5. ShapeOf(t)'
  BY <1>2, <1>4 DEF ShapeOf
<1> QED
  BY <1>1, <1>4, <1>5, CountsType DEF TypeOK, StepOK, GoneStays, stores, pg

LEMMA SearchStep ==
  ASSUME TInv, NEW t \in Requests, Query(t) \/ Fetch(t) \/ Bump(t) PROVE StepOK(t)
<1>1. /\ task[t] \in TaskRecords /\ task[t].op = "search" /\ UNCHANGED <<stores, counts>>
      /\ task[t].ids \in SUBSET Ids /\ task[t].hits \in SUBSET (Ids \X Contents)
      /\ task \in [Requests -> TaskRecords]
  BY DEF TInv, TypeOK, TaskRecords, ShapeOf, Query, Fetch, Bump
<1>2. CASE Query(t)
  <2>1. PICK best \in SUBSET Ids :
          task' = [task EXCEPT ![t].ids = best, ![t].at = IF best = {} THEN "store" ELSE "fetch"]
    BY <1>2 DEF Query, kSubset
  <2>2. task' = [task EXCEPT ![t] = [@ EXCEPT !.ids = best, !.hits = task[t].hits,
                                              !.at = IF best = {} THEN "store" ELSE "fetch"]]
    BY <1>1, <2>1 DEF TaskRecords
  <2> QED
    BY <1>1, <2>2, SearchTask
<1>3. CASE Fetch(t)
  <2> DEFINE hits == {<<i, row[i]>> : i \in {k \in task[t].ids : Live(k) /\ expiry[k] # "past"}}
  <2>1. hits \in SUBSET (Ids \X Contents)
    BY <1>1 DEF Live
  <2>2. task' = [task EXCEPT ![t].at = "bump", ![t].hits = hits]
    BY <1>3 DEF Fetch
  <2> HIDE DEF hits
  <2>3. task' = [task EXCEPT ![t] = [@ EXCEPT !.ids = task[t].ids, !.hits = hits, !.at = "bump"]]
    BY <1>1, <2>2 DEF TaskRecords
  <2> QED
    BY <1>1, <2>1, <2>3, SearchTask
<1>4. CASE Bump(t)
  <2>1. task' = [task EXCEPT ![t] = [@ EXCEPT !.ids = task[t].ids, !.hits = task[t].hits,
                                              !.at = "store"]]
    BY <1>1, <1>4 DEF Bump, Go, TaskRecords
  <2> QED
    BY <1>1, <2>1, SearchTask
<1> QED
  BY <1>2, <1>3, <1>4

LEMMA StoreStep == ASSUME TInv, NEW t \in Requests, Store(t) PROVE StepOK(t)
<1>1. TypeOK /\ End(t) /\ task[t] \in TaskRecords /\ cache' = {task[t].hits}
  BY DEF TInv, TypeOK, Store
<1>2. task' \in [Requests -> TaskRecords] /\ OnlyTask(t) /\ task'[t] = Idle
  BY <1>1, EndType
<1>3. ShapeOf(t)'
  BY <1>2 DEF ShapeOf, Idle
<1>4. cache' \subseteq SUBSET (Ids \X Contents) /\ Cardinality(cache') <= 1
  BY <1>1, CacheSize DEF TaskRecords
<1> QED
  BY <1>1, <1>2, <1>3, <1>4, CountsType DEF Store, TypeOK, StepOK, GoneStays, pg

LEMMA ReturnStep ==
  ASSUME TInv, NEW t \in Requests, UpdateStale(t) \/ BumpStale(t) \/ Abort(t) PROVE StepOK(t)
<1>1. TypeOK /\ Scope(t) \subseteq Ids
  BY DEF TInv, TypeOK, TaskRecords, Scope
<1>2. End(t) /\ UNCHANGED <<stores, begun, raced>> /\ cut' \subseteq Ids /\ faults' \in 0 .. MaxFaults
  BY <1>1, CountsType, StrikeType DEF UpdateStale, BumpStale, Abort, counts
<1> QED
  BY <1>2, EndStep

LEMMA RequestStep ==
  ASSUME TInv, NEW t \in Requests, Start(t) \/ Continue(t) \/ Disturb(t) PROVE StepOK(t)
<1>1. CASE Start(t)
  BY <1>1, CreateStep, UpdateStep, DeleteStep, ClearStep, CleanupStep, MissStep DEF Start
<1>2. CASE Continue(t)
  BY <1>2, UpsertStep, UpdateCommitStep, RemoveStep, UnpointStep, UnpointChunkStep, BustStep,
     NumberStep, RecordStep, PublishStep, SearchStep, StoreStep, ReturnStep
     DEF Continue
<1>3. CASE Disturb(t)
  BY <1>3, BustLostStep, NumberStep, RecordStep, ReturnStep DEF Disturb
<1> QED
  BY <1>1, <1>2, <1>3

LEMMA OtherStep ==
  ASSUME TInv, (\E i \in Ids : Expire(i)) \/ CacheExpires \/ Crash \/ UNCHANGED vars
  PROVE  TInv' /\ GoneStays
<1>1. TypeOK /\ UNION {Scope(t) : t \in Requests} \subseteq Ids
  <2>1. ASSUME NEW t \in Requests PROVE Scope(t) \subseteq Ids
    BY DEF TInv, TypeOK, TaskRecords, Scope
  <2> QED
    BY <2>1 DEF TInv
<1>2. UNCHANGED row
  BY DEF Expire, CacheExpires, Crash, vars, stores, pg
<1>3. CASE (\E i \in Ids : Expire(i)) \/ CacheExpires \/ UNCHANGED vars
  <2>1. UNCHANGED <<task, history, counts>>
    BY <1>3 DEF Expire, CacheExpires, vars, stores, pg
  <2>2. /\ expiry' \in [Ids -> {"never", "ahead", "past"}]
        /\ point' \in [Ids -> Contents \cup {"none"}]
        /\ told' \in [Ids -> {"nothing", "create", "update", "delete"}]
    BY <1>1, <1>3 DEF TypeOK, Expire, CacheExpires, vars, stores, pg
  <2>3. cache' \subseteq SUBSET (Ids \X Contents) /\ Cardinality(cache') <= 1
    <3>1. cache' = cache \/ cache' = {}
      BY <1>3 DEF Expire, CacheExpires, vars, stores
    <3> QED
      BY <1>1, <3>1, CacheSize DEF TypeOK
  <2>4. TypeOK'
    BY <1>1, <1>2, <2>1, <2>2, <2>3 DEF TypeOK, counts
  <2> QED
    BY <1>2, <2>1, <2>4 DEF TInv, ShapeOf, GoneStays
<1>4. CASE Crash
  <2>1. cut' \subseteq Ids /\ faults' \in 0 .. MaxFaults
    BY <1>1, <1>4, StrikeType DEF Crash
  <2>2. TypeOK'
    BY <1>1, <1>4, <2>1, IdleRecord DEF Crash, TypeOK, stores, pg
  <2>3. ASSUME NEW t \in Requests PROVE ShapeOf(t)'
    BY <1>4, <2>3 DEF Crash, ShapeOf, Idle
  <2> QED
    BY <1>2, <2>2, <2>3 DEF TInv, GoneStays
<1> QED
  BY <1>3, <1>4

LEMMA NextTInv == ASSUME TInv, [Next]_vars PROVE TInv' /\ GoneStays
<1>1. ASSUME NEW t \in Requests, Start(t) \/ Continue(t) \/ Disturb(t) PROVE TInv' /\ GoneStays
  BY <1>1, RequestStep, OtherShapes DEF StepOK
<1> QED
  BY <1>1, OtherStep DEF Next

LEMMA Shapes == Spec => []TInv
<1>1. TInv /\ [Next]_vars => TInv'
  BY NextTInv
<1> QED
  BY <1>1, InitTInv, PTL DEF Spec

(* Type correctness, for any number of requests in progress. *)
THEOREM TypeCorrect == Spec => []TypeOK
BY Shapes, PTL DEF TInv

(* A deleted memory stays deleted: no update brings its row back. *)
THEOREM DeletedStaysDeletedAlways == Spec => DeletedStaysDeleted
<1>1. TInv /\ [Next]_vars => [\A i \in Ids : row[i] = "gone" => row'[i] = "gone"]_vars
  BY NextTInv DEF GoneStays
<1> QED
  BY <1>1, Shapes, PTL DEF Spec, DeletedStaysDeleted

-----------------------------------------------------------------------------
(* No live row is without its vector, but for the create still to write it. *)

Creating(t, i) == task[t].op = "create" /\ task[t].at = "upsert" /\ i \in task[t].ids

(* A step that deletes no vector and brings no row is harmless. *)
LEMMA Harmless ==
  ASSUME RowsAreSearchable, UNCHANGED point, cut \subseteq cut',
         \A i \in Ids : Live(i)' => Live(i),
         \A t \in Requests, i \in Ids \ cut' : Creating(t, i) => Creating(t, i)'
  PROVE  RowsAreSearchable'
<1> SUFFICES ASSUME NEW i \in Ids \ cut', Live(i)'
             PROVE  point[i] # "none" \/ \E t \in Requests : Creating(t, i)'
  BY DEF RowsAreSearchable, Creating
<1>1. point[i] # "none" \/ \E t \in Requests : Creating(t, i)
  BY DEF RowsAreSearchable, Creating
<1> QED
  BY <1>1

(* The steps that touch neither rows nor vectors nor a create's first step. *)
LEMMA QuietStep ==
  ASSUME TInv, RowsAreSearchable, NEW t \in Requests, StepOK(t),
         UNCHANGED <<row, point>>, cut \subseteq cut',
         task[t].at # "upsert" \/ Scope(t) \subseteq cut'
  PROVE  RowsAreSearchable'
<1>1. ASSUME NEW u \in Requests, NEW i \in Ids \ cut', Creating(u, i) PROVE Creating(u, i)'
  BY <1>1 DEF Creating, Scope, StepOK, OnlyTask
<1> QED
  BY <1>1, Harmless DEF Live

LEMMA CreateKeeps ==
  ASSUME TInv, RowsAreSearchable, NEW t \in Requests, StepOK(t), NEW k \in Ids,
         NEW text \in Contents, NEW ttl \in {"never", "ahead"}, Create(t, k, text, ttl)
  PROVE  RowsAreSearchable'
<1>1. /\ task[t] = Idle /\ UNCHANGED <<point, cut>> /\ row' = [row EXCEPT ![k] = text]
      /\ task'[t] = [Idle EXCEPT !.op = "create", !.at = "upsert", !.ids = {k}, !.text = text]
  BY DEF Create, Begin, TInv, TypeOK
<1> SUFFICES ASSUME NEW i \in Ids \ cut, Live(i)'
             PROVE  point[i] # "none" \/ \E u \in Requests : Creating(u, i)'
  BY <1>1 DEF RowsAreSearchable, Creating
<1>2. CASE i = k
  BY <1>1, <1>2 DEF Creating, Idle
<1>3. CASE i # k
  <2>1. Live(i)
    BY <1>1, <1>3 DEF Live, TInv, TypeOK
  <2>2. CASE \E u \in Requests : Creating(u, i)
    <3>1. PICK u \in Requests : Creating(u, i)
      BY <2>2
    <3>2. u # t
      BY <3>1, <1>1 DEF Creating, Idle
    <3> QED
      BY <3>1, <3>2 DEF Creating, StepOK, OnlyTask
  <2> QED
    BY <2>1, <2>2 DEF RowsAreSearchable, Creating
<1> QED
  BY <1>2, <1>3

LEMMA UpsertKeeps ==
  ASSUME TInv, RowsAreSearchable, NEW t \in Requests, StepOK(t), Upsert(t)
  PROVE  RowsAreSearchable'
<1>1. /\ UNCHANGED <<row, cut>> /\ task[t].text \in Contents
      /\ point' = [i \in Ids |-> IF i \in task[t].ids THEN task[t].text ELSE point[i]]
  BY DEF Upsert, TInv, ShapeOf, pg, counts
<1>2. "none" \notin Contents
  BY MemoryStoreAssumption
<1> SUFFICES ASSUME NEW i \in Ids \ cut, Live(i), i \notin task[t].ids
             PROVE  point'[i] # "none" \/ \E u \in Requests : Creating(u, i)'
  BY <1>1, <1>2 DEF RowsAreSearchable, Creating, Live
<1>3. CASE \E u \in Requests : Creating(u, i)
  <2>1. PICK u \in Requests : Creating(u, i)
    BY <1>3
  <2>2. u # t
    BY <2>1 DEF Creating
  <2> QED
    BY <2>1, <2>2 DEF Creating, StepOK, OnlyTask
<1> QED
  BY <1>1, <1>3 DEF RowsAreSearchable, Creating

(* The deletions: the vectors that go are those of rows gone before. *)
LEMMA DeletionKeeps ==
  ASSUME TInv, RowsAreSearchable, NEW t \in Requests, StepOK(t), task[t].at # "upsert",
         UNCHANGED cut, \A i \in Ids : Live(i)' => Live(i) /\ point'[i] = point[i]
  PROVE  RowsAreSearchable'
<1> SUFFICES ASSUME NEW i \in Ids \ cut, Live(i), point'[i] = point[i]
             PROVE  point'[i] # "none" \/ \E u \in Requests : Creating(u, i)'
  BY DEF RowsAreSearchable, Creating
<1>1. CASE \E u \in Requests : Creating(u, i)
  <2>1. PICK u \in Requests : Creating(u, i)
    BY <1>1
  <2>2. u # t
    BY <2>1 DEF Creating
  <2> QED
    BY <2>1, <2>2 DEF Creating, StepOK, OnlyTask
<1> QED
  BY <1>1 DEF RowsAreSearchable, Creating

LEMMA StartKeeps ==
  ASSUME TInv, RowsAreSearchable, NEW t \in Requests, StepOK(t), Start(t)
  PROVE  RowsAreSearchable'
<1>1. task[t].at # "upsert"
  <2>1. task[t] = Idle
    BY Zenon DEF Start, Create, Update, Delete, Clear, Cleanup, Miss, Begin
  <2> QED
    BY <2>1 DEF Idle
<1>2. ASSUME UNCHANGED <<stores, cut>> PROVE RowsAreSearchable'
  BY <1>1, <1>2, QuietStep DEF stores, pg
<1>3. ASSUME UNCHANGED <<point, cut>>, NEW ids,
             row' = [i \in Ids |-> IF i \in ids THEN "gone" ELSE row[i]]
      PROVE  RowsAreSearchable'
  <2>1. "gone" \notin Contents
    BY MemoryStoreAssumption
  <2>2. ASSUME NEW i \in Ids, Live(i)' PROVE Live(i) /\ point'[i] = point[i]
    BY <1>3, <2>1, <2>2 DEF Live
  <2> QED
    BY <1>1, <1>3, <2>2, DeletionKeeps
<1>4. CASE \E i \in Ids, text \in Contents, ttl \in {"never", "ahead"} : Create(t, i, text, ttl)
  BY <1>4, CreateKeeps
<1>5. CASE (\E i \in Ids, text \in Contents \cup {"keep"} : Update(t, i, text))
           \/ (\E i \in Ids : Delete(t, i)) \/ Miss(t)
  BY <1>2, <1>5 DEF Update, Delete, Miss, counts
<1>6. CASE (\E match \in SUBSET Ids : Clear(t, match)) \/ Cleanup(t)
  BY <1>3, <1>6 DEF Clear, Cleanup
<1> QED
  BY <1>4, <1>5, <1>6 DEF Start

LEMMA ContinueKeeps ==
  ASSUME TInv, RowsAreSearchable, NEW t \in Requests, StepOK(t), Continue(t)
  PROVE  RowsAreSearchable'
<1>1. "gone" \notin Contents
  BY MemoryStoreAssumption
<1>2. CASE Upsert(t)
  BY <1>2, UpsertKeeps
<1>3. CASE UpdateCommit(t)
  <2>1. task[t].at # "upsert" /\ UNCHANGED <<point, cut>>
    BY <1>3 DEF UpdateCommit, counts
  <2>2. PICK k \in task[t].ids : Live(k) /\ \A i \in Ids : i # k => row'[i] = row[i]
    BY <1>3 DEF UpdateCommit, TInv, TypeOK
  <2>3. ASSUME NEW i \in Ids, Live(i)' PROVE Live(i)
    BY <2>2, <2>3 DEF Live
  <2> QED
    BY <2>1, <2>3, DeletionKeeps
<1>4. CASE Remove(t)
  <2>1. ASSUME NEW i \in Ids, Live(i)' PROVE Live(i)
    BY <1>1, <1>4, <2>1 DEF Remove, Live
  <2> QED
    BY <1>4, <2>1, DeletionKeeps DEF Remove, counts
<1>5. CASE Unpoint(t) \/ UnpointChunk(t)
  <2>1. task[t].at = "unpoint" /\ UNCHANGED <<row, cut>>
    BY <1>5 DEF Unpoint, UnpointChunk, pg, counts
  <2>2. \A i \in task[t].ids : row[i] = "gone"
    BY <2>1 DEF TInv, ShapeOf
  <2>3. \A i \in Ids \ task[t].ids : point'[i] = point[i]
    <3>1. CASE Unpoint(t)
      BY <3>1 DEF Unpoint
    <3>2. CASE UnpointChunk(t)
      <4>1. PICK chunk \in kSubset(Min({Chunk, Cardinality(task[t].ids)}), task[t].ids) :
              point' = [i \in Ids |-> IF i \in chunk THEN "none" ELSE point[i]]
        BY <3>2 DEF UnpointChunk
      <4>2. chunk \subseteq task[t].ids
        BY <4>1 DEF kSubset
      <4> QED
        BY <4>1, <4>2
    <3> QED
      BY <1>5, <3>1, <3>2
  <2>4. ASSUME NEW i \in Ids, Live(i)' PROVE Live(i) /\ point'[i] = point[i]
    BY <1>1, <2>1, <2>2, <2>3, <2>4 DEF Live
  <2> QED
    BY <2>1, <2>4, DeletionKeeps
<1>6. CASE Bust(t) \/ Number(t) \/ Record(t) \/ Publish(t) \/ Query(t) \/ Fetch(t) \/ Bump(t)
           \/ BumpStale(t) \/ Store(t) \/ UpdateStale(t)
  <2>1. task[t].at # "upsert" /\ UNCHANGED <<row, point, cut>>
    BY <1>6 DEF Bust, Number, Record, Publish, Query, Fetch, Bump, BumpStale, Store, UpdateStale,
                stores, pg, counts
  <2> QED
    BY <2>1, QuietStep
<1> QED
  BY <1>2, <1>3, <1>4, <1>5, <1>6 DEF Continue

LEMMA DisturbKeeps ==
  ASSUME TInv, RowsAreSearchable, NEW t \in Requests, StepOK(t), Disturb(t)
  PROVE  RowsAreSearchable'
<1>1. UNCHANGED <<row, point>> /\ cut \subseteq cut'
  BY DEF Disturb, BustLost, NumberLost, RecordLost, Abort, Strike, stores, pg
<1>2. task[t].at # "upsert" \/ Scope(t) \subseteq cut'
  BY DEF Disturb, BustLost, NumberLost, RecordLost, Abort, Strike
<1> QED
  BY <1>1, <1>2, QuietStep

LEMMA OtherKeeps ==
  ASSUME TInv, RowsAreSearchable,
         (\E i \in Ids : Expire(i)) \/ CacheExpires \/ Crash \/ UNCHANGED vars
  PROVE  RowsAreSearchable'
<1>1. UNCHANGED <<row, point>> /\ cut \subseteq cut'
  BY DEF Expire, CacheExpires, Crash, Strike, vars, stores, pg, counts
<1>2. ASSUME NEW u \in Requests, NEW i \in Ids \ cut', Creating(u, i) PROVE Creating(u, i)'
  <2>1. CASE Crash
    BY <1>2, <2>1 DEF Crash, Strike, Creating, Scope
  <2>2. CASE (\E k \in Ids : Expire(k)) \/ CacheExpires \/ UNCHANGED vars
    BY <1>2, <2>2 DEF Expire, CacheExpires, vars, Creating
  <2> QED
    BY <2>1, <2>2
<1> QED
  BY <1>1, <1>2, Harmless DEF Live

LEMMA InitSearchable == Init => RowsAreSearchable
BY MemoryStoreAssumption DEF Init, RowsAreSearchable, Live

(* However requests overlap, and whichever of them are cut short, a row     *)
(* that no fault hit keeps a vector by which a search may find it.          *)
THEOREM RowsAreSearchableAlways == Spec => []RowsAreSearchable
<1>1. TInv /\ RowsAreSearchable /\ [Next]_vars => RowsAreSearchable'
  <2> SUFFICES ASSUME TInv, RowsAreSearchable, [Next]_vars PROVE RowsAreSearchable'
    OBVIOUS
  <2>1. ASSUME NEW t \in Requests, Start(t) \/ Continue(t) \/ Disturb(t)
        PROVE  RowsAreSearchable'
    BY <2>1, RequestStep, StartKeeps, ContinueKeeps, DisturbKeeps
  <2> QED
    BY <2>1, OtherKeeps DEF Next
<1> QED
  BY <1>1, Shapes, InitSearchable, PTL DEF Spec

-----------------------------------------------------------------------------
(* How far a request has got with a memory that it alone is writing.        *)

(* A cleanup reaches every memory it deletes. *)
Whole == Batch >= Cardinality(Ids)

Newest(i) == history[i][Len(history[i])].text
Numbered(i) ==
  /\ history[i] # <<>>
  /\ \A n \in DOMAIN history[i] : history[i][n].number = n

(* The trail of a live memory that no request is writing. *)
Told(i) ==
  /\ Numbered(i)
  /\ Newest(i) = row[i]
  /\ told[i] = IF Len(history[i]) = 1 THEN "create" ELSE "update"

(* A memory that no request is writing; one that is gone may have left its  *)
(* vector behind, where a cleanup's batch is too small.                     *)
AtRest(i) ==
  /\ row[i] # "gone" \/ Whole => Agree(i)
  /\ row[i] = "unborn" => history[i] = <<>>
  /\ Live(i) => Told(i)

(* What a request has done so far to a memory that it alone is writing. *)
Creation(q, i) ==
  /\ q.ids = {i} /\ q.at \in {"upsert", "bust", "record", "publish"}
  /\ Live(i) /\ row[i] = q.text
  /\ q.at # "upsert" => point[i] = q.text
  /\ history[i] = IF q.at = "publish" THEN <<[number |-> 1, text |-> q.text]>> ELSE <<>>

Change(q, i) ==
  /\ q.ids = {i} /\ q.at \in {"upsert", "commit", "bust", "number", "record", "publish"}
  /\ Live(i) /\ Numbered(i)
  /\ q.at \in {"upsert", "commit"} => q.seen = row[i] /\ Told(i)
  /\ point[i] = IF q.at = "commit" /\ q.text # "keep" THEN q.text ELSE row[i]
  /\ q.at \notin {"upsert", "commit"} => row[i] = q.text
  /\ q.at = "record" => q.num = Len(history[i]) + 1
  /\ q.at = "publish" => Len(history[i]) > 1 /\ Newest(i) = q.text

Deletion(q, i) ==
  /\ q.ids = {i} /\ q.at \in {"remove", "unpoint", "bust", "publish"}
  /\ row[i] # "unborn"
  /\ q.at # "remove" => row[i] = "gone"
  /\ q.at \in {"bust", "publish"} => point[i] = "none"

Midway(q, i) ==
  \/ q.op = "create" /\ Creation(q, i)
  \/ q.op = "update" /\ Change(q, i)
  \/ q.op = "delete" /\ Deletion(q, i)
  \/ q.op \in {"clear", "cleanup"} /\ q.at = "unpoint" /\ row[i] = "gone"

(* A memory on which no two write requests have met: one request at most    *)
(* writes it, and has got so far.                                           *)
Fine(i) ==
  /\ ~Busy(i) => AtRest(i)
  /\ \A t \in Requests : i \in Scope(t) => Midway(task[t], i)
  /\ \A t, u \in Requests : i \in Scope(t) \cap Scope(u) => t = u

MInv == \A i \in Ids \ (raced \cup cut) : Fine(i)

(* A step of request t leaves alone what t is not at work on. *)
LEMMA Untouched ==
  ASSUME NEW i \in Ids, Fine(i), NEW t \in Requests, OnlyTask(t), i \notin Scope(t), i \notin Scope(t)',
         row'[i] = row[i], point'[i] = point[i], history'[i] = history[i], told'[i] = told[i]
  PROVE  Fine(i)'
<1>1. \A u \in Requests \ {t} : task'[u] = task[u] /\ Scope(u)' = Scope(u)
  BY DEF OnlyTask, Scope
<1>2. Busy(i)' <=> Busy(i)
  BY <1>1 DEF Busy
<1>3. AtRest(i) => AtRest(i)'
  BY DEF AtRest, Agree, Live, Told, Numbered, Newest
<1>4. ASSUME NEW u \in Requests, i \in Scope(u)' PROVE Midway(task[u], i)'
  <2>1. u # t /\ task'[u] = task[u] /\ Midway(task[u], i)
    BY <1>1, <1>4 DEF Fine
  <2> QED
    BY <2>1 DEF Midway, Creation, Change, Deletion, Live, Told, Numbered, Newest
<1>5. \A u, v \in Requests : i \in Scope(u)' \cap Scope(v)' => u = v
  BY <1>1 DEF Fine
<1> QED
  BY <1>2, <1>3, <1>4, <1>5 DEF Fine

(* Request t begins to write what nobody was writing. *)
LEMMA Taken ==
  ASSUME NEW i \in Ids, ~Busy(i), NEW t \in Requests, OnlyTask(t), i \in Scope(t)', Midway(task[t], i)'
  PROVE  Fine(i)'
<1>1. \A u \in Requests \ {t} : i \notin Scope(u)'
  BY DEF OnlyTask, Scope, Busy
<1>2. Busy(i)'
  BY DEF Busy
<1> QED
  BY <1>1, <1>2 DEF Fine

(* Request t goes on with what it alone is writing, or has done with it. *)
LEMMA Held ==
  ASSUME NEW i \in Ids, Fine(i), NEW t \in Requests, OnlyTask(t), i \in Scope(t),
         i \in Scope(t)' => Midway(task[t], i)', i \notin Scope(t)' => AtRest(i)'
  PROVE  Fine(i)'
<1>1. \A u \in Requests \ {t} : i \notin Scope(u)'
  BY DEF OnlyTask, Scope, Fine
<1>2. Busy(i)' <=> i \in Scope(t)'
  BY <1>1 DEF Busy
<1> QED
  BY <1>1, <1>2 DEF Fine

-----------------------------------------------------------------------------
(* Beginnings. *)

LEMMA Begun ==
  ASSUME TInv, MInv, NEW t \in Requests, NEW ids \in SUBSET Ids, NEW first \in TaskRecords,
         Begin(t, ids, first), UNCHANGED cut
  PROVE  /\ OnlyTask(t) /\ task'[t] = first /\ Scope(t) = {}
         /\ \A i \in Ids \ (raced' \cup cut') : Fine(i) /\ (i \in ids => ~Busy(i) /\ AtRest(i))
<1>1. OnlyTask(t) /\ task'[t] = first
  BY BeginType DEF TInv
<1>2. Scope(t) = {}
  BY DEF Begin, Scope, Idle
<1>3. ASSUME NEW i \in Ids \ (raced' \cup cut') PROVE Fine(i) /\ (i \in ids => ~Busy(i) /\ AtRest(i))
  <2>1. raced' = raced \cup {k \in ids : Busy(k)}
    BY DEF Begin
  <2>2. Fine(i)
    BY <2>1 DEF MInv
  <2> QED
    BY <2>1, <2>2 DEF Fine
<1> QED
  BY <1>1, <1>2, <1>3

LEMMA CreateFine ==
  ASSUME TInv, MInv, NEW t \in Requests, NEW k \in Ids, NEW text \in Contents,
         NEW ttl \in {"never", "ahead"}, Create(t, k, text, ttl)
  PROVE  MInv'
<1> DEFINE first == [Idle EXCEPT !.op = "create", !.at = "upsert", !.ids = {k}, !.text = text]
<1>1. /\ first \in TaskRecords /\ first.at = "upsert" /\ first.op = "create" /\ first.text = text
      /\ first.ids = {k}
  BY DEF Idle, TaskRecords, Ops, Steps, Texts
<1>2. /\ Begin(t, {k}, first) /\ row[k] = "unborn" /\ row' = [row EXCEPT ![k] = text]
      /\ UNCHANGED <<point, history, told, cut>> /\ TypeOK
  BY DEF Create, TInv
<1> HIDE DEF first
<1>3. /\ OnlyTask(t) /\ task'[t] = first /\ Scope(t) = {}
      /\ \A i \in Ids \ (raced' \cup cut') : Fine(i) /\ (i \in {k} => ~Busy(i) /\ AtRest(i))
  <2>1. {k} \in SUBSET Ids /\ UNCHANGED cut
    BY <1>2
  <2> DEFINE one == {k}
  <2>2. one \in SUBSET Ids /\ Begin(t, one, first)
    BY <1>2, <2>1
  <2> HIDE DEF one
  <2>3. /\ OnlyTask(t) /\ task'[t] = first /\ Scope(t) = {}
        /\ \A i \in Ids \ (raced' \cup cut') : Fine(i) /\ (i \in one => ~Busy(i) /\ AtRest(i))
    BY <1>1, <2>1, <2>2, Begun
  <2> QED
    BY <2>3 DEF one
<1>4. Scope(t)' = {k}
  BY <1>1, <1>3 DEF Scope
<1> SUFFICES ASSUME NEW i \in Ids \ (raced' \cup cut') PROVE Fine(i)'
  BY DEF MInv
<1>5. row'[i] = IF i = k THEN text ELSE row[i]
  BY <1>2 DEF TypeOK
<1>6. CASE i = k
  <2>1. history[i] = <<>>
    BY <1>2, <1>3, <1>6 DEF AtRest
  <2>2. Midway(task[t], i)'
    BY <1>1, <1>2, <1>3, <1>5, <1>6, <2>1 DEF Midway, Creation, Live
  <2> QED
    BY <1>3, <1>4, <1>6, <2>2, Taken
<1>7. CASE i # k
  BY <1>2, <1>3, <1>4, <1>5, <1>7, Untouched
<1> QED
  BY <1>6, <1>7

LEMMA UpdateFine ==
  ASSUME TInv, MInv, NEW t \in Requests, NEW k \in Ids, NEW text \in Contents \cup {"keep"},
         Update(t, k, text)
  PROVE  MInv'
<1> DEFINE first == [Idle EXCEPT !.op = "update", !.ids = {k}, !.text = text, !.seen = row[k],
                                 !.at = IF text = "keep" THEN "commit" ELSE "upsert"]
<1>1. /\ first \in TaskRecords /\ first.op = "update" /\ first.text = text
      /\ first.seen = row[k] /\ row[k] \in Contents /\ first.ids = {k}
      /\ first.at = IF text = "keep" THEN "commit" ELSE "upsert"
  BY DEF Update, Live, Idle, TaskRecords, Ops, Steps, Texts
<1>2. Begin(t, {k}, first) /\ UNCHANGED <<row, point, history, told, cut>>
  BY DEF Update, stores, pg
<1> HIDE DEF first
<1>3. /\ OnlyTask(t) /\ task'[t] = first /\ Scope(t) = {}
      /\ \A i \in Ids \ (raced' \cup cut') : Fine(i) /\ (i \in {k} => ~Busy(i) /\ AtRest(i))
  <2>1. {k} \in SUBSET Ids /\ UNCHANGED cut
    BY <1>2
  <2> DEFINE one == {k}
  <2>2. one \in SUBSET Ids /\ Begin(t, one, first)
    BY <1>2, <2>1
  <2> HIDE DEF one
  <2>3. /\ OnlyTask(t) /\ task'[t] = first /\ Scope(t) = {}
        /\ \A i \in Ids \ (raced' \cup cut') : Fine(i) /\ (i \in one => ~Busy(i) /\ AtRest(i))
    BY <1>1, <2>1, <2>2, Begun
  <2> QED
    BY <2>3 DEF one
<1>4. Scope(t)' = {k}
  BY <1>1, <1>3 DEF Scope
<1> SUFFICES ASSUME NEW i \in Ids \ (raced' \cup cut') PROVE Fine(i)'
  BY DEF MInv
<1>6. CASE i = k
  <2>1. Live(i) /\ point[i] = row[i] /\ Told(i)
    BY <1>1, <1>3, <1>6, MemoryStoreAssumption DEF AtRest, Agree, Live
  <2>2. Change(task[t], i)'
    BY <1>1, <1>2, <1>3, <1>6, <2>1 DEF Change, Live, Told, Numbered, Newest
  <2>3. Midway(task[t], i)'
    BY <1>1, <1>3, <2>2 DEF Midway
  <2> QED
    BY <1>3, <1>4, <1>6, <2>3, Taken
<1>7. CASE i # k
  BY <1>2, <1>3, <1>4, <1>7, Untouched
<1> QED
  BY <1>6, <1>7

LEMMA DeleteFine ==
  ASSUME TInv, MInv, NEW t \in Requests, NEW k \in Ids, Delete(t, k) PROVE MInv'
<1> DEFINE first == [Idle EXCEPT !.op = "delete", !.at = "remove", !.ids = {k}]
<1>1. first \in TaskRecords /\ first.op = "delete" /\ first.at = "remove" /\ first.ids = {k}
  BY DEF Idle, TaskRecords, Ops, Steps, Texts
<1>2. Begin(t, {k}, first) /\ UNCHANGED <<row, point, history, told, cut>> /\ row[k] # "unborn"
  BY MemoryStoreAssumption DEF Delete, Live, stores, pg
<1> HIDE DEF first
<1>3. /\ OnlyTask(t) /\ task'[t] = first /\ Scope(t) = {}
      /\ \A i \in Ids \ (raced' \cup cut') : Fine(i) /\ (i \in {k} => ~Busy(i) /\ AtRest(i))
  <2>1. {k} \in SUBSET Ids /\ UNCHANGED cut
    BY <1>2
  <2> DEFINE one == {k}
  <2>2. one \in SUBSET Ids /\ Begin(t, one, first)
    BY <1>2, <2>1
  <2> HIDE DEF one
  <2>3. /\ OnlyTask(t) /\ task'[t] = first /\ Scope(t) = {}
        /\ \A i \in Ids \ (raced' \cup cut') : Fine(i) /\ (i \in one => ~Busy(i) /\ AtRest(i))
    BY <1>1, <2>1, <2>2, Begun
  <2> QED
    BY <2>3 DEF one
<1>4. Scope(t)' = {k}
  BY <1>1, <1>3 DEF Scope
<1> SUFFICES ASSUME NEW i \in Ids \ (raced' \cup cut') PROVE Fine(i)'
  BY DEF MInv
<1>5. CASE i = k
  <2>1. Midway(task[t], i)'
    BY <1>1, <1>2, <1>3, <1>5 DEF Midway, Deletion
  <2> QED
    BY <1>3, <1>4, <1>5, <2>1, Taken
<1>6. CASE i # k
  BY <1>2, <1>3, <1>4, <1>6, Untouched
<1> QED
  BY <1>5, <1>6

(* Nobody was writing the memory, and nobody is. *)
LEMMA Left ==
  ASSUME NEW i \in Ids, ~Busy(i), NEW t \in Requests, OnlyTask(t), i \notin Scope(t)', AtRest(i)'
  PROVE  Fine(i)'
<1>1. \A u \in Requests : i \notin Scope(u)'
  BY DEF OnlyTask, Scope, Busy
<1> QED
  BY <1>1 DEF Fine

(* Of the rows that go, kept are those whose vectors are to follow. *)
LEMMA BulkFine ==
  ASSUME TInv, MInv, NEW t \in Requests, NEW ids \in SUBSET Ids, NEW op \in {"clear", "cleanup"},
         NEW kept \in SUBSET ids, Whole => kept = ids,
         Begin(t, ids, [Idle EXCEPT !.op = op, !.ids = kept,
                                    !.at = IF kept = {} THEN "bust" ELSE "unpoint"]),
         row' = [i \in Ids |-> IF i \in ids THEN "gone" ELSE row[i]],
         UNCHANGED <<point, history, told, cut>>
  PROVE  MInv'
<1> DEFINE first == [Idle EXCEPT !.op = op, !.ids = kept,
                                 !.at = IF kept = {} THEN "bust" ELSE "unpoint"]
<1>1. /\ first \in TaskRecords /\ first.op = op /\ first.ids = kept
      /\ first.at = IF kept = {} THEN "bust" ELSE "unpoint"
  BY DEF Idle, TaskRecords, Ops, Steps, Texts
<1>2. Begin(t, ids, first)
  OBVIOUS
<1> HIDE DEF first
<1>3. /\ OnlyTask(t) /\ task'[t] = first /\ Scope(t) = {}
      /\ \A i \in Ids \ (raced' \cup cut') : Fine(i) /\ (i \in ids => ~Busy(i) /\ AtRest(i))
  BY <1>1, <1>2, Begun
<1>4. Scope(t)' = kept
  BY <1>1, <1>3 DEF Scope
<1> SUFFICES ASSUME NEW i \in Ids \ (raced' \cup cut') PROVE Fine(i)'
  BY DEF MInv
<1>5. CASE i \in kept
  <2>1. Midway(task[t], i)'
    BY <1>1, <1>3, <1>5 DEF Midway
  <2> QED
    BY <1>3, <1>4, <1>5, <2>1, Taken
<1>6. CASE i \in ids \ kept
  <2>1. ~Whole /\ row'[i] = "gone"
    BY <1>6
  <2>2. AtRest(i)'
    BY <2>1, MemoryStoreAssumption DEF AtRest, Live
  <2> QED
    BY <1>3, <1>4, <1>6, <2>2, Left
<1>7. CASE i \notin ids
  BY <1>3, <1>4, <1>7, Untouched
<1> QED
  BY <1>5, <1>6, <1>7

LEMMA ClearFine ==
  ASSUME TInv, MInv, NEW t \in Requests, NEW match \in SUBSET Ids, Clear(t, match) PROVE MInv'
BY BulkFine DEF Clear

LEMMA CleanupFine ==
  ASSUME TInv, MInv, NEW t \in Requests, Cleanup(t) PROVE MInv'
<1> DEFINE ids == {i \in Ids : Live(i) /\ expiry[i] = "past"}
<1>1. PICK kept \in SUBSET ids :
        /\ Cardinality(kept) = Min({Batch, Cardinality(ids)})
        /\ Begin(t, ids, [Idle EXCEPT !.op = "cleanup", !.ids = kept,
                                      !.at = IF kept = {} THEN "bust" ELSE "unpoint"])
  BY CleanupKeeps
<1>2. IsFiniteSet(Ids) /\ ids \subseteq Ids /\ Batch \in Nat
  BY MemoryStoreAssumption
<1>3. /\ row' = [i \in Ids |-> IF i \in ids THEN "gone" ELSE row[i]]
      /\ UNCHANGED <<point, history, told, cut>>
  BY DEF Cleanup
<1> HIDE DEF ids
<1>4. /\ IsFiniteSet(ids) /\ Cardinality(ids) \in Nat /\ Cardinality(Ids) \in Nat
      /\ Cardinality(ids) <= Cardinality(Ids)
  BY <1>2, FS_Subset, FS_CardinalityType
<1>5. ASSUME Whole
      PROVE  kept = ids
  <2>1. Cardinality(ids) <= Batch
    BY <1>2, <1>4, <1>5 DEF Whole
  <2>2. Min({Batch, Cardinality(ids)}) = Cardinality(ids)
    <3>1. ASSUME NEW x \in Nat, NEW y \in Nat, y <= x PROVE Min({x, y}) = y
      BY <3>1 DEF Min
    <3> QED
      BY <1>2, <1>4, <2>1, <3>1
  <2> QED
    BY <1>1, <1>4, <2>2, FS_Subset
<1> QED
  BY <1>1, <1>2, <1>3, <1>5, BulkFine

-----------------------------------------------------------------------------
(* Continuations. *)

(* What request t is at work on it brings one step further; the rest it     *)
(* leaves alone.                                                            *)
LEMMA Going ==
  ASSUME MInv, NEW t \in Requests, OnlyTask(t), raced \subseteq raced', cut \subseteq cut',
         Scope(t)' \subseteq Scope(t),
         \A i \in Ids \ (Scope(t) \cup raced \cup cut) :
           row'[i] = row[i] /\ point'[i] = point[i] /\ history'[i] = history[i] /\ told'[i] = told[i],
         \A i \in Scope(t) \ (raced' \cup cut') : Midway(task[t], i) =>
           /\ i \in Scope(t)' => Midway(task[t], i)'
           /\ i \notin Scope(t)' => AtRest(i)'
  PROVE  MInv'
<1> SUFFICES ASSUME NEW i \in Ids \ (raced' \cup cut') PROVE Fine(i)'
  BY DEF MInv
<1>1. Fine(i)
  BY DEF MInv
<1>2. CASE i \in Scope(t)
  <2>1. Midway(task[t], i)
    BY <1>1, <1>2 DEF Fine
  <2> QED
    BY <1>1, <1>2, <2>1, Held
<1>3. CASE i \notin Scope(t)
  BY <1>1, <1>3, Untouched
<1> QED
  BY <1>2, <1>3

(* A step of a request that is no search. *)
LEMMA Writing == ASSUME NEW t \in Requests, task[t].op # "search" PROVE Scope(t) = task[t].ids
BY DEF Scope

LEMMA UpsertFine == ASSUME TInv, MInv, NEW t \in Requests, Upsert(t) PROVE MInv'
<1> DEFINE step == IF task[t].op = "create" THEN "bust" ELSE "commit"
<1>1. /\ TypeOK /\ step \in Steps /\ Go(t, step) /\ task[t].at = "upsert"
      /\ task[t].op \in {"create", "update"} /\ task[t].text \in Contents
      /\ point' = [i \in Ids |-> IF i \in task[t].ids THEN task[t].text ELSE point[i]]
      /\ UNCHANGED <<row, history, told, raced, cut>> /\ task[t].ids \subseteq Ids
  BY DEF TInv, TypeOK, TaskRecords, Upsert, Steps, ShapeOf, pg, counts
<1>2. /\ OnlyTask(t)
      /\ task'[t].at = step /\ task'[t].op = task[t].op /\ task'[t].ids = task[t].ids
      /\ task'[t].text = task[t].text /\ task'[t].seen = task[t].seen
  BY <1>1, GoType
<1>3. Scope(t) = task[t].ids /\ Scope(t)' = task[t].ids
  BY <1>1, <1>2 DEF Scope
<1>4. ASSUME NEW i \in Scope(t), Midway(task[t], i) PROVE Midway(task[t], i)'
  <2>1. point'[i] = task[t].text /\ task[t].text # "keep" /\ UNCHANGED <<row, history, told>>
    BY <1>1, <1>3, MemoryStoreAssumption
  <2>2. CASE task[t].op = "create"
    BY <1>1, <1>2, <1>4, <2>1, <2>2 DEF Midway, Creation, Live
  <2>3. CASE task[t].op = "update"
    <3>1. Change(task[t], i)
      BY <1>4, <2>3 DEF Midway
    <3>2. Change(task[t], i)'
      BY <1>1, <1>2, <2>1, <2>3, <3>1 DEF Change, Live, Told, Numbered, Newest
    <3> QED
      BY <1>2, <2>3, <3>2 DEF Midway
  <2> QED
    BY <1>1, <2>2, <2>3
<1> QED
  BY <1>1, <1>2, <1>3, <1>4, Going

LEMMA UpdateCommitFine == ASSUME TInv, MInv, NEW t \in Requests, UpdateCommit(t) PROVE MInv'
<1>1. /\ Kept(t) \in Contents /\ task[t].op = "update" /\ task[t] \in TaskRecords /\ TypeOK
      /\ OnlyTask(t) /\ task'[t] = [task[t] EXCEPT !.at = "bust", !.text = Kept(t)]
      /\ task[t].at = "commit" /\ UNCHANGED <<point, history, told, raced, cut>>
  BY UpdateCommitTask DEF TInv, TypeOK, UpdateCommit, counts
<1>2. /\ task'[t].at = "bust" /\ task'[t].op = "update" /\ task'[t].text = Kept(t)
      /\ task'[t].ids = task[t].ids
  BY <1>1 DEF TaskRecords
<1>3. PICK k \in task[t].ids : row' = IF Kept(t) = task[t].seen THEN row
                                      ELSE [row EXCEPT ![k] = Kept(t)]
  BY <1>1 DEF UpdateCommit, Kept
<1>4. Scope(t) = task[t].ids /\ Scope(t)' = task[t].ids
  BY <1>1, <1>2 DEF Scope
<1>5. \A i \in Ids \ Scope(t) : row'[i] = row[i]
  BY <1>1, <1>3, <1>4 DEF TypeOK
<1>6. ASSUME NEW i \in Scope(t), Midway(task[t], i) PROVE Midway(task[t], i)'
  <2>1. Change(task[t], i) /\ i \in Ids
    BY <1>1, <1>4, <1>6 DEF Midway, TaskRecords
  <2>2. k = i /\ row[i] = task[t].seen
    BY <1>1, <1>3, <2>1 DEF Change
  <2>3. row'[i] = Kept(t)
    BY <1>1, <1>3, <2>1, <2>2 DEF TypeOK
  <2>4. point[i] = Kept(t)
    BY <1>1, <2>1, <2>2 DEF Change, Kept
  <2>5. Change(task[t], i)'
    BY <1>1, <1>2, <2>1, <2>3, <2>4 DEF Change, Live, Numbered
  <2> QED
    BY <1>2, <2>5 DEF Midway
<1> QED
  BY <1>1, <1>4, <1>5, <1>6, Going

LEMMA RemoveFine == ASSUME TInv, MInv, NEW t \in Requests, Remove(t) PROVE MInv'
<1>1. /\ TypeOK /\ "unpoint" \in Steps /\ Go(t, "unpoint") /\ task[t].at = "remove"
      /\ task[t].op = "delete" /\ task[t].ids \subseteq Ids
      /\ row' = [i \in Ids |-> IF i \in task[t].ids THEN "gone" ELSE row[i]]
      /\ UNCHANGED <<point, history, told, raced, cut>>
  BY DEF TInv, Remove, Steps, TypeOK, TaskRecords, ShapeOf, counts
<1>2. /\ OnlyTask(t)
      /\ task'[t].at = "unpoint" /\ task'[t].op = task[t].op /\ task'[t].ids = task[t].ids
  BY <1>1, GoType
<1>3. Scope(t) = task[t].ids /\ Scope(t)' = task[t].ids
  BY <1>1, <1>2 DEF Scope
<1>4. ASSUME NEW i \in Scope(t), Midway(task[t], i) PROVE Midway(task[t], i)'
  BY <1>1, <1>2, <1>3, <1>4 DEF Midway, Deletion
<1> QED
  BY <1>1, <1>2, <1>3, <1>4, Going

LEMMA UnpointFine == ASSUME TInv, MInv, NEW t \in Requests, Unpoint(t) PROVE MInv'
<1>1. /\ TypeOK /\ "bust" \in Steps /\ Go(t, "bust") /\ task[t].op = "delete" /\ task[t].at = "unpoint"
      /\ task[t].ids \subseteq Ids
      /\ point' = [i \in Ids |-> IF i \in task[t].ids THEN "none" ELSE point[i]]
      /\ UNCHANGED <<row, history, told, raced, cut>>
  BY DEF TInv, Unpoint, Steps, TypeOK, TaskRecords, pg, counts
<1>2. /\ OnlyTask(t)
      /\ task'[t].at = "bust" /\ task'[t].op = task[t].op /\ task'[t].ids = task[t].ids
  BY <1>1, GoType
<1>3. Scope(t) = task[t].ids /\ Scope(t)' = task[t].ids
  BY <1>1, <1>2 DEF Scope
<1>4. ASSUME NEW i \in Scope(t), Midway(task[t], i) PROVE Midway(task[t], i)'
  BY <1>1, <1>2, <1>3, <1>4 DEF Midway, Deletion
<1> QED
  BY <1>1, <1>2, <1>3, <1>4, Going

LEMMA UnpointChunkFine == ASSUME TInv, MInv, NEW t \in Requests, UnpointChunk(t) PROVE MInv'
<1>1. PICK chunk \in SUBSET task[t].ids :
        /\ point' = [i \in Ids |-> IF i \in chunk THEN "none" ELSE point[i]]
        /\ OnlyTask(t)
        /\ task'[t].ids = task[t].ids \ chunk /\ task'[t].op = task[t].op
        /\ task'[t].at = IF task[t].ids \subseteq chunk THEN "bust" ELSE "unpoint"
  BY UnpointChunkTask
<1>2. /\ task[t].at = "unpoint" /\ task[t].op \in {"clear", "cleanup"} /\ task[t].ids \subseteq Ids
      /\ UNCHANGED <<row, history, told, raced, cut>>
  BY DEF UnpointChunk, TInv, TypeOK, TaskRecords, pg, counts
<1>3. Scope(t) = task[t].ids /\ Scope(t)' = task[t].ids \ chunk
  BY <1>1, <1>2 DEF Scope
<1>4. ASSUME NEW i \in Scope(t), Midway(task[t], i)
      PROVE  /\ i \in Scope(t)' => Midway(task[t], i)'
             /\ i \notin Scope(t)' => AtRest(i)'
  <2>1. row'[i] = "gone" /\ i \in Ids
    BY <1>2, <1>3, <1>4 DEF Midway
  <2>2. CASE i \in chunk
    <3>1. point'[i] = "none" /\ ~Live(i)'
      BY <1>1, <2>1, <2>2, MemoryStoreAssumption DEF Live
    <3> QED
      BY <1>3, <2>1, <2>2, <3>1 DEF AtRest, Agree
  <2>3. CASE i \notin chunk
    BY <1>1, <1>2, <1>3, <2>1, <2>3 DEF Midway
  <2> QED
    BY <2>2, <2>3
<1> QED
  BY <1>1, <1>2, <1>3, <1>4, Going

LEMMA PastCacheFine ==
  ASSUME TInv, MInv, NEW t \in Requests, task[t].at = "bust", PastCache(t),
         UNCHANGED <<row, point, history, told, raced>>, cut \subseteq cut'
  PROVE  MInv'
<1>1. TypeOK /\ task[t].ids \subseteq Ids
  BY DEF TInv, TypeOK, TaskRecords
<1>2. CASE After(t) = "idle"
  <2>1. OnlyTask(t) /\ Scope(t)' = {}
    <3>1. OnlyTask(t) /\ task'[t] = Idle
      BY <1>1, <1>2, EndType DEF PastCache
    <3> QED
      BY <3>1 DEF Scope, Idle
  <2>2. task[t].op \notin {"create", "update", "delete"}
    BY <1>2 DEF After
  <2>3. ASSUME NEW i \in Scope(t), Midway(task[t], i) PROVE AtRest(i)'
    BY <2>2, <2>3 DEF Midway
  <2> QED
    BY <2>1, <2>3, Going
<1>3. CASE After(t) # "idle"
  <2>1. /\ After(t) \in Steps /\ Go(t, After(t))
        /\ \/ After(t) = "record" /\ task[t].op = "create"
           \/ After(t) = "number" /\ task[t].op = "update"
           \/ After(t) = "publish" /\ task[t].op = "delete"
    BY <1>3 DEF PastCache, After, Steps
  <2>2. /\ OnlyTask(t)
        /\ task'[t].at = After(t) /\ task'[t].op = task[t].op /\ task'[t].text = task[t].text
        /\ task'[t].ids = task[t].ids
    BY <1>1, <2>1, GoType
  <2>3. Scope(t) = task[t].ids /\ Scope(t)' = task[t].ids
    BY <2>1, <2>2 DEF Scope
  <2>4. ASSUME NEW i \in Scope(t), Midway(task[t], i) PROVE Midway(task[t], i)'
    <3>1. CASE task[t].op = "create"
      BY <2>1, <2>2, <2>4, <3>1 DEF Midway, Creation, Live
    <3>2. CASE task[t].op = "update"
      <4>1. Change(task[t], i)
        BY <2>4, <3>2 DEF Midway
      <4>2. Change(task[t], i)'
        BY <2>1, <2>2, <3>2, <4>1 DEF Change, Live, Numbered
      <4> QED
        BY <2>2, <3>2, <4>2 DEF Midway
    <3>3. CASE task[t].op = "delete"
      BY <2>1, <2>2, <2>4, <3>3 DEF Midway, Deletion
    <3> QED
      BY <2>1, <3>1, <3>2, <3>3
  <2> QED
    BY <2>2, <2>3, <2>4, Going
<1> QED
  BY <1>2, <1>3

LEMMA BustFine == ASSUME TInv, MInv, NEW t \in Requests, Bust(t) \/ BustLost(t) PROVE MInv'
BY PastCacheFine DEF Bust, BustLost, Strike, stores, pg, counts

(* The highest number of a complete trail is its length. *)
LEMMA HighestNumber ==
  ASSUME TypeOK, NEW i \in Ids, Numbered(i), NEW n \in Numbers(i) \cup {0},
         \A m \in Numbers(i) : m <= n
  PROVE  n = Len(history[i])
<1>1. history[i] \in Seq([number : Nat, text : Contents])
  BY DEF TypeOK
<1> DEFINE versions == [number : Nat, text : Contents]
<1>2. ASSUME NEW q \in Seq(versions), q # <<>> PROVE Len(q) \in Nat \ {0} /\ DOMAIN q = 1 .. Len(q)
  BY <1>2
<1>3. Len(history[i]) \in Nat \ {0} /\ DOMAIN history[i] = 1 .. Len(history[i])
  BY <1>1, <1>2 DEF Numbered
<1>4. Numbers(i) = 1 .. Len(history[i])
  BY <1>3 DEF Numbers, Numbered
<1>5. n \in Nat /\ n <= Len(history[i])
  BY <1>3, <1>4
<1>6. Len(history[i]) \in Numbers(i)
  BY <1>3, <1>4
<1>7. Len(history[i]) <= n
  BY <1>6
<1> QED
  BY <1>3, <1>5, <1>7

LEMMA NumberFine == ASSUME TInv, MInv, NEW t \in Requests, Number(t) PROVE MInv'
<1>1. /\ TypeOK /\ task[t] \in TaskRecords /\ task[t].ids \subseteq Ids /\ task[t].at = "number"
      /\ task[t].op \in {"create", "update"}
      /\ UNCHANGED <<row, point, history, told, raced, cut>>
  BY DEF TInv, TypeOK, TaskRecords, ShapeOf, Number, stores, pg, counts
<1> PICK k \in task[t].ids : \E n \in Numbers(k) \cup {0} :
        /\ \A m \in Numbers(k) : m <= n
        /\ task' = [task EXCEPT ![t].at = "record", ![t].num = n + 1]
  BY DEF Number
<1>2. PICK n \in Numbers(k) \cup {0} :
        /\ \A m \in Numbers(k) : m <= n
        /\ task' = [task EXCEPT ![t].at = "record", ![t].num = n + 1]
  OBVIOUS
<1> DEFINE next == [task[t] EXCEPT !.at = "record", !.num = n + 1]
<1>3. task' = [task EXCEPT ![t] = next]
  BY <1>1, <1>2 DEF TypeOK
<1>4. n + 1 \in Nat
  BY <1>1, <1>2, NumbersType
<1>5. /\ next \in TaskRecords /\ next.at = "record" /\ next.num = n + 1 /\ next.op = task[t].op
      /\ next.text = task[t].text /\ next.ids = task[t].ids
  BY <1>1, <1>4 DEF TaskRecords, Steps
<1> HIDE DEF next
<1>6. OnlyTask(t) /\ task'[t] = next
  BY <1>1, <1>3, <1>5, ReplaceType
<1>7. Scope(t) = task[t].ids /\ Scope(t)' = task[t].ids
  BY <1>1, <1>5, <1>6 DEF Scope
<1>8. ASSUME NEW i \in Scope(t), Midway(task[t], i) PROVE Midway(task[t], i)'
  <2>1. task[t].op = "update" /\ Change(task[t], i) /\ i \in Ids
    BY <1>1, <1>7, <1>8 DEF Midway, Creation
  <2>2. k = i /\ Numbered(i)
    BY <1>2, <2>1 DEF Change
  <2>3. n = Len(history[i])
    BY <1>1, <1>2, <2>1, <2>2, HighestNumber
  <2>4. Change(task[t], i)'
    BY <1>1, <1>5, <1>6, <2>1, <2>3 DEF Change, Live, Numbered
  <2> QED
    BY <1>5, <1>6, <2>1, <2>4 DEF Midway
<1> QED
  BY <1>1, <1>6, <1>7, <1>8, Going

LEMMA RecordFine == ASSUME TInv, MInv, NEW t \in Requests, Record(t) PROVE MInv'
<1> DEFINE versions == [number : Nat, text : Contents]
           version == [number |-> IF task[t].op = "create" THEN 1 ELSE task[t].num,
                       text |-> task[t].text]
<1>1. /\ TypeOK /\ task[t] \in TaskRecords /\ task[t].ids \subseteq Ids /\ task[t].at = "record"
      /\ "publish" \in Steps /\ Go(t, "publish") /\ task[t].op \in {"create", "update"}
      /\ task[t].text \in Contents /\ task[t].num \in Nat
      /\ UNCHANGED <<row, point, told, raced, cut>>
  BY DEF TInv, TypeOK, TaskRecords, ShapeOf, Record, Steps, pg, counts
<1>2. /\ OnlyTask(t)
      /\ task'[t].at = "publish" /\ task'[t].op = task[t].op /\ task'[t].ids = task[t].ids
      /\ task'[t].text = task[t].text
  BY <1>1, GoType
<1>3. PICK k \in task[t].ids : history' = [history EXCEPT ![k] = Append(history[k], version)]
  BY DEF Record
<1>4. /\ version \in versions
      /\ version.number = (IF task[t].op = "create" THEN 1 ELSE task[t].num)
      /\ version.text = task[t].text
      /\ version = [number |-> version.number, text |-> version.text]
  BY <1>1
<1> HIDE DEF version, versions
<1>5. history \in [Ids -> Seq(versions)]
  BY <1>1 DEF TypeOK, versions
<1>6. Scope(t) = task[t].ids /\ Scope(t)' = task[t].ids
  BY <1>1, <1>2 DEF Scope
<1>7. \A i \in Ids : history'[i] = IF i = k THEN Append(history[i], version) ELSE history[i]
  BY <1>3, <1>5
<1>8. ASSUME NEW i \in Scope(t), Midway(task[t], i) PROVE Midway(task[t], i)'
  <2>1. i \in Ids /\ k = i
    BY <1>1, <1>3, <1>6, <1>8 DEF Midway, Creation, Change
  <2>2. history'[i] = Append(history[i], version) /\ history[i] \in Seq(versions)
    BY <1>5, <1>7, <2>1
  <2>3. CASE task[t].op = "create"
    <3>1. Creation(task[t], i)
      BY <1>8, <2>3 DEF Midway
    <3>2. history'[i] = <<version>>
      BY <1>1, <1>4, <2>2, <3>1 DEF Creation
    <3>3. version = [number |-> 1, text |-> task[t].text]
      BY <1>4, <2>3
    <3>4. Creation(task[t], i)'
      BY <1>1, <1>2, <3>1, <3>2, <3>3 DEF Creation, Live
    <3> QED
      BY <1>2, <2>3, <3>4 DEF Midway
  <2>4. CASE task[t].op = "update"
    <3>1. Change(task[t], i) /\ version.number = Len(history[i]) + 1
      BY <1>1, <1>4, <1>8, <2>4 DEF Midway, Change
    <3>2. ASSUME NEW q \in Seq(versions), NEW v \in versions, q # <<>>
          PROVE  /\ Append(q, v) # <<>> /\ Len(q) \in Nat \ {0} /\ DOMAIN q = 1 .. Len(q)
                 /\ Len(Append(q, v)) = Len(q) + 1
                 /\ DOMAIN Append(q, v) = 1 .. Len(q) + 1
                 /\ Append(q, v)[Len(q) + 1] = v
                 /\ \A n \in 1 .. Len(q) : Append(q, v)[n] = q[n]
      BY <3>2
    <3>3. Numbered(i) /\ history[i] # <<>>
      BY <3>1 DEF Change, Numbered
    <3> DEFINE old == history[i]
               new == Append(old, version)
    <3>4. /\ new # <<>> /\ Len(old) \in Nat \ {0} /\ DOMAIN old = 1 .. Len(old)
          /\ Len(new) = Len(old) + 1 /\ DOMAIN new = 1 .. Len(old) + 1
          /\ new[Len(old) + 1] = version
          /\ \A n \in 1 .. Len(old) : new[n] = old[n]
      BY <1>4, <2>2, <3>2, <3>3
    <3> HIDE DEF new
    <3>5. history'[i] = new
      BY <2>2 DEF new
    <3>6. \A n \in DOMAIN new : new[n].number = n
      BY <3>1, <3>3, <3>4 DEF Numbered
    <3>7. Numbered(i)' /\ Len(history'[i]) > 1 /\ Newest(i)' = task[t].text
      BY <1>4, <3>4, <3>5, <3>6 DEF Numbered, Newest
    <3>8. Change(task[t], i)'
      BY <1>1, <1>2, <3>1, <3>7 DEF Change, Live
    <3> QED
      BY <1>2, <2>4, <3>8 DEF Midway
  <2> QED
    BY <1>1, <2>3, <2>4
<1>9. \A i \in Ids \ Scope(t) : history'[i] = history[i]
  BY <1>3, <1>6, <1>7
<1> QED
  BY <1>1, <1>2, <1>6, <1>8, <1>9, Going

LEMMA PublishFine == ASSUME TInv, MInv, NEW t \in Requests, Publish(t) PROVE MInv'
<1>1. /\ TypeOK /\ task[t].at = "publish" /\ End(t) /\ task[t].op \in {"create", "update", "delete"}
      /\ told' = [i \in Ids |-> IF i \in task[t].ids THEN task[t].op ELSE told[i]]
      /\ UNCHANGED <<row, point, history, raced, cut>> /\ task[t].ids \subseteq Ids
  BY DEF TInv, TypeOK, TaskRecords, ShapeOf, Publish, pg, counts
<1>2. OnlyTask(t) /\ task'[t] = Idle
  BY <1>1, EndType
<1>3. Scope(t) = task[t].ids /\ Scope(t)' = {}
  BY <1>1, <1>2 DEF Scope, Idle
<1>4. ASSUME NEW i \in Scope(t), Midway(task[t], i) PROVE AtRest(i)'
  <2>1. told'[i] = task[t].op /\ "gone" \notin Contents /\ "unborn" \notin Contents
    BY <1>1, <1>3, MemoryStoreAssumption
  <2>2. CASE task[t].op = "create"
    <3>1. Creation(task[t], i)
      BY <1>4, <2>2 DEF Midway
    <3> DEFINE version == [number |-> 1, text |-> task[t].text]
    <3>2. /\ <<version>> # <<>> /\ Len(<<version>>) = 1 /\ <<version>>[1] = version
          /\ DOMAIN <<version>> = {1} /\ version.number = 1 /\ version.text = task[t].text
      OBVIOUS
    <3>3. history[i] = <<version>>
      BY <1>1, <3>1 DEF Creation
    <3> HIDE DEF version
    <3>4. Told(i)'
      BY <1>1, <2>1, <2>2, <3>1, <3>2, <3>3 DEF Told, Numbered, Newest, Creation
    <3> QED
      BY <1>1, <2>1, <3>1, <3>4 DEF AtRest, Agree, Creation, Live
  <2>3. CASE task[t].op = "update"
    <3>1. Change(task[t], i)
      BY <1>4, <2>3 DEF Midway
    <3>2. Told(i)'
      BY <1>1, <2>1, <2>3, <3>1 DEF Told, Numbered, Newest, Change
    <3> QED
      BY <1>1, <2>1, <3>1, <3>2 DEF AtRest, Agree, Change, Live
  <2>4. CASE task[t].op = "delete"
    BY <1>1, <1>4, <2>1, <2>4 DEF Midway, Deletion, AtRest, Agree, Live
  <2> QED
    BY <1>1, <2>2, <2>3, <2>4
<1> QED
  BY <1>1, <1>2, <1>3, <1>4, Going

(* An update that finds its row gone met somebody else's deletion. *)
LEMMA UpdateStaleFine == ASSUME TInv, MInv, NEW t \in Requests, UpdateStale(t) PROVE MInv'
<1>1. /\ TypeOK /\ task[t].at = "commit" /\ End(t) /\ task[t].op = "update"
      /\ (\A i \in task[t].ids : ~Live(i))
      /\ UNCHANGED <<row, point, history, told, raced, cut>>
  BY DEF TInv, ShapeOf, UpdateStale, stores, pg, counts
<1>2. OnlyTask(t) /\ task'[t] = Idle
  BY <1>1, EndType
<1>3. Scope(t) = task[t].ids /\ Scope(t)' = {}
  BY <1>1, <1>2 DEF Scope, Idle
<1>4. ASSUME NEW i \in Scope(t), Midway(task[t], i) PROVE AtRest(i)'
  BY <1>1, <1>3, <1>4 DEF Midway, Change
<1> QED
  BY <1>1, <1>2, <1>3, <1>4, Going

(* Searches write nothing. *)
LEMMA SearchFine ==
  ASSUME TInv, MInv, NEW t \in Requests, StepOK(t),
         Miss(t) \/ Query(t) \/ Fetch(t) \/ Bump(t) \/ BumpStale(t) \/ Store(t)
  PROVE  MInv'
<1>1. OnlyTask(t) /\ UNCHANGED <<row, point, history, told, raced, cut>>
  BY DEF StepOK, Miss, Query, Fetch, Bump, BumpStale, Store, stores, pg, counts
<1>2. task[t] = Idle \/ task[t].op = "search"
  BY DEF TInv, ShapeOf, Miss, Query, Fetch, Bump, BumpStale, Store
<1>3. task[t] \in TaskRecords /\ task \in [Requests -> TaskRecords]
  BY DEF TInv, TypeOK
<1>4. Scope(t)' = {}
  <2>1. task'[t] = Idle \/ task'[t].op = "search"
    <3>1. CASE Miss(t)
      BY <1>3, <3>1 DEF Miss, Idle
    <3>2. CASE Query(t)
      <4>1. task[t].op = "search"
        BY <3>2 DEF Query, TInv, ShapeOf
      <4> QED
        BY <1>3, <3>2, <4>1 DEF Query, TaskRecords
    <3>3. CASE Fetch(t)
      <4>1. task[t].op = "search"
        BY <3>3 DEF Fetch, TInv, ShapeOf
      <4> QED
        BY <1>3, <3>3, <4>1 DEF Fetch, TaskRecords
    <3>4. CASE Bump(t)
      <4>1. task[t].op = "search"
        BY <3>4 DEF Bump, TInv, ShapeOf
      <4> QED
        BY <1>3, <3>4, <4>1 DEF Bump, Go, TaskRecords
    <3>5. CASE BumpStale(t) \/ Store(t)
      BY <1>3, <3>5 DEF BumpStale, Store, End
    <3> QED
      BY <3>1, <3>2, <3>3, <3>4, <3>5
  <2> QED
    BY <2>1 DEF Scope, Idle
<1>5. Scope(t) = {}
  BY <1>2 DEF Scope, Idle
<1> QED
  BY <1>1, <1>4, <1>5, Going

(* What a fault hits is cut. *)
LEMMA FaultFine ==
  ASSUME TInv, MInv, NEW t \in Requests, StepOK(t), Scope(t)' \subseteq Scope(t),
         Scope(t) \subseteq cut', UNCHANGED <<row, point, history, told, raced>>, cut \subseteq cut'
  PROVE  MInv'
BY Going DEF StepOK

LEMMA DisturbFine ==
  ASSUME TInv, MInv, NEW t \in Requests, StepOK(t), Disturb(t) PROVE MInv'
<1>1. CASE BustLost(t)
  BY <1>1, BustFine
<1>2. TypeOK /\ task[t] \in TaskRecords
  BY DEF TInv, TypeOK
<1>3. CASE NumberLost(t) \/ RecordLost(t) \/ Abort(t)
  <2>1. /\ Scope(t) \subseteq cut' /\ cut \subseteq cut'
        /\ UNCHANGED <<row, point, history, told, raced>>
    BY <1>3 DEF NumberLost, RecordLost, Abort, Strike, stores, pg
  <2>2. Scope(t)' \subseteq Scope(t)
    <3>1. CASE NumberLost(t)
      <4>1. task'[t].ids = task[t].ids /\ task'[t].op = task[t].op
        BY <1>2, <3>1 DEF NumberLost, TypeOK, TaskRecords
      <4> QED
        BY <4>1 DEF Scope
    <3>2. CASE RecordLost(t)
      <4>1. "publish" \in Steps /\ Go(t, "publish")
        BY <3>2 DEF RecordLost, Steps
      <4>2. task'[t].ids = task[t].ids /\ task'[t].op = task[t].op
        BY <1>2, <4>1, GoType
      <4> QED
        BY <4>2 DEF Scope
    <3>3. CASE Abort(t)
      <4>1. task'[t] = Idle
        BY <1>2, <3>3, EndType DEF Abort
      <4> QED
        BY <4>1 DEF Scope, Idle
    <3> QED
      BY <1>3, <3>1, <3>2, <3>3
  <2> QED
    BY <2>1, <2>2, FaultFine
<1> QED
  BY <1>1, <1>3 DEF Disturb

LEMMA StartFine ==
  ASSUME TInv, MInv, NEW t \in Requests, StepOK(t), Start(t) PROVE MInv'
BY CreateFine, UpdateFine, DeleteFine, ClearFine, CleanupFine, SearchFine DEF Start

LEMMA ContinueFine ==
  ASSUME TInv, MInv, NEW t \in Requests, StepOK(t), Continue(t) PROVE MInv'
BY UpsertFine, UpdateCommitFine, UpdateStaleFine, RemoveFine, UnpointFine, UnpointChunkFine,
   BustFine, NumberFine, RecordFine, PublishFine, SearchFine DEF Continue

LEMMA OtherFine ==
  ASSUME TInv, MInv, (\E i \in Ids : Expire(i)) \/ CacheExpires \/ Crash \/ UNCHANGED vars
  PROVE  MInv'
<1>1. UNCHANGED <<row, point, history, told, raced>> /\ cut \subseteq cut'
  BY DEF Expire, CacheExpires, Crash, Strike, vars, stores, pg, counts
<1> SUFFICES ASSUME NEW i \in Ids \ (raced \cup cut') PROVE Fine(i)'
  BY <1>1 DEF MInv
<1>2. Fine(i)
  BY <1>1 DEF MInv
<1>3. CASE UNCHANGED task
  BY <1>1, <1>2, <1>3 DEF Fine, Busy, Scope, AtRest, Agree, Live, Told, Numbered, Newest,
                          Midway, Creation, Change, Deletion
<1>4. CASE Crash
  <2>1. \A t \in Requests : i \notin Scope(t) /\ Scope(t)' = {}
    BY <1>4 DEF Crash, Strike, Scope, Idle
  <2>2. AtRest(i)
    BY <1>2, <2>1 DEF Fine, Busy
  <2>3. AtRest(i)'
    BY <1>1, <2>2 DEF AtRest, Agree, Live, Told, Numbered, Newest
  <2> QED
    BY <2>1, <2>3 DEF Fine
<1> QED
  BY <1>3, <1>4 DEF Expire, CacheExpires, vars

LEMMA InitFine == Init => MInv
<1> SUFFICES ASSUME Init, NEW i \in Ids PROVE Fine(i)
  BY DEF MInv
<1>1. \A t \in Requests : Scope(t) = {}
  BY DEF Init, Scope, Idle
<1>2. row[i] = "unborn" /\ point[i] = "none" /\ history[i] = <<>> /\ ~Live(i)
  BY MemoryStoreAssumption DEF Init, Live
<1> QED
  BY <1>1, <1>2 DEF Fine, AtRest, Agree

LEMMA FineAlways == Spec => []MInv
<1>1. TInv /\ MInv /\ [Next]_vars => MInv'
  <2> SUFFICES ASSUME TInv, MInv, [Next]_vars PROVE MInv'
    OBVIOUS
  <2>1. ASSUME NEW t \in Requests, Start(t) \/ Continue(t) \/ Disturb(t) PROVE MInv'
    BY <2>1, RequestStep, StartFine, ContinueFine, DisturbFine
  <2> QED
    BY <2>1, OtherFine DEF Next
<1> QED
  BY <1>1, Shapes, InitFine, PTL DEF Spec

(* Whatever the batch of a cleanup, a live row whose writes neither         *)
(* overlapped nor were cut short has the vector of its own content as soon  *)
(* as they have returned (create and update write row and vector apart).    *)
LiveRowsAgree ==
  \A i \in Ids \ (raced \cup cut) : ~Busy(i) /\ Live(i) => point[i] = row[i]

THEOREM LiveRowsAgreeAlways == Spec => []LiveRowsAgree
<1>1. MInv => LiveRowsAgree
  BY MemoryStoreAssumption DEF MInv, LiveRowsAgree, Fine, AtRest, Agree, Live
<1> QED
  BY <1>1, FineAlways, PTL

(* A memory whose writes neither overlapped nor were cut short has the      *)
(* vector of its content once they have returned, and none when it is gone, *)
(* if a cleanup keeps the ids of all memories it deletes                    *)
(* (memory_service.py): with fewer it leaves vectors behind.                *)
THEOREM StoresAgreeAlways == ASSUME Whole PROVE Spec => []StoresAgree
<1>1. MInv => StoresAgree
  BY MemoryStoreAssumption DEF MInv, StoresAgree, Fine, AtRest
<1> QED
  BY <1>1, FineAlways, PTL

(* Its versions are numbered from one without gaps, the last one is its     *)
(* content, and the last event tells of it (_record_version,                *)
(* broker.publish), whatever the batch of a cleanup.                        *)
THEOREM TrailIsCompleteAlways == Spec => []TrailIsComplete
<1>1. MInv => TrailIsComplete
  BY DEF MInv, TrailIsComplete, Fine, AtRest, Told, Numbered, Newest
<1> QED
  BY <1>1, FineAlways, PTL
=============================================================================
