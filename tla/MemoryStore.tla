----------------------------- MODULE MemoryStore -----------------------------
(***************************************************************************)
(* The memories of one tenant (mypalace/memory_service.py): rows in        *)
(* Postgres, one vector per row in Qdrant under the same id, the version   *)
(* history, the events, and the cached answer of one search                *)
(* (mypalace/cache).  No transaction spans two of these stores.            *)
(*                                                                         *)
(* A request is a coroutine: it runs from one await to the next, and other *)
(* requests, of this process or another, run in between.  Every action is  *)
(* one such stretch, with the one statement or call to a store in it.      *)
(* A vector is named by the content it was computed from.                  *)
(***************************************************************************)
EXTENDS Integers, Sequences, FiniteSets, FiniteSetsExt

CONSTANTS
  Ids,          \* memory ids; create() takes a fresh one (uuid4)
  Contents,     \* contents a memory may have
  Requests,     \* requests that may be in progress at the same time
  Limit,        \* limit of the search
  Chunk,        \* vectors per Qdrant delete call (500 in the code)
  Batch,        \* batch_size of a cleanup job
  MaxRequests,  \* bound: write requests in one behaviour
  Faults,       \* the kinds of fault that may strike: "abort", "crash", "swallowed"
  MaxFaults     \* bound: how many of them strike in one behaviour

ASSUME MemoryStoreAssumption ==
  /\ IsFiniteSet(Ids)
  /\ Contents \cap {"unborn", "gone", "none", "keep"} = {}
  /\ Limit \in Nat \ {0} /\ Chunk \in Nat \ {0} /\ Batch \in Nat
  /\ MaxRequests \in Nat
  /\ Faults \subseteq {"abort", "crash", "swallowed"}
  /\ MaxFaults \in Nat

VARIABLES
  row,      \* memories.content, or "unborn" before and "gone" after
  expiry,   \* memories.expires_at: "never", "ahead" or "past"
  point,    \* the content whose vector Qdrant has under the id, or "none"
  history,  \* memory_versions, in the order of created_at
  told,     \* the last event published about the memory
  cache,    \* {} or {answer}: the cached answer of the search
  task,     \* what each request in progress is about to do, and its locals
  begun,    \* write requests so far
  raced,    \* auxiliary: memories on which two write requests overlapped
  cut,      \* auxiliary: memories on which a fault hit a write request
  faults    \* faults so far

pg == <<row, expiry>>
stores == <<pg, point, history, told, cache>>
counts == <<begun, raced, cut, faults>>
vars == <<stores, task, counts>>

Texts == Contents \cup {"none", "keep"}
Steps == {"idle", "upsert", "commit", "remove", "unpoint", "bust", "number", "record",
          "publish", "query", "fetch", "bump", "store"}
Ops == {"none", "create", "update", "delete", "clear", "cleanup", "search"}
TaskRecords == [op : Ops, at : Steps, ids : SUBSET Ids, text : Texts, seen : Texts,
                hits : SUBSET (Ids \X Contents), num : Nat]
Live(i) == row[i] \in Contents

Idle == [op |-> "none", at |-> "idle", ids |-> {}, text |-> "none", seen |-> "none",
         hits |-> {}, num |-> 0]

Go(t, step) == task' = [task EXCEPT ![t].at = step]
End(t) == task' = [task EXCEPT ![t] = Idle]

(* The memories a write request is at work on. *)
Scope(t) == IF task[t].op = "search" THEN {} ELSE task[t].ids
Busy(i) == \E t \in Requests : i \in Scope(t)

(* A write request begins, on the memories ids. *)
Begin(t, ids, first) ==
  /\ task[t] = Idle
  /\ begun < MaxRequests
  /\ begun' = begun + 1
  /\ raced' = raced \cup {i \in ids : Busy(i)}
  /\ task' = [task EXCEPT ![t] = first]

(* A fault hits the write requests at work on the memories ids. *)
Strike(kind, ids) ==
  /\ kind \in Faults
  /\ faults < MaxFaults
  /\ faults' = faults + 1
  /\ cut' = cut \cup ids

Init ==
  /\ row = [i \in Ids |-> "unborn"]
  /\ expiry = [i \in Ids |-> "never"]
  /\ point = [i \in Ids |-> "none"]
  /\ history = [i \in Ids |-> <<>>]
  /\ told = [i \in Ids |-> "nothing"]
  /\ cache = {}
  /\ task = [t \in Requests |-> Idle]
  /\ begun = 0
  /\ raced = {}
  /\ cut = {}
  /\ faults = 0

-----------------------------------------------------------------------------
(* create and update. *)

(* create: the row is committed before its vector is even computed. *)
Create(t, i, text, ttl) ==
  /\ row[i] = "unborn"
  /\ Begin(t, {i}, [Idle EXCEPT !.op = "create", !.at = "upsert", !.ids = {i}, !.text = text])
  /\ row' = [row EXCEPT ![i] = text]
  /\ expiry' = [expiry EXCEPT ![i] = ttl]
  /\ UNCHANGED <<point, history, told, cache, cut, faults>>

(* update: the row is read, not locked; text is "keep" when only other      *)
(* columns change.  An unknown id ends the request (404).                   *)
Update(t, i, text) ==
  /\ Live(i)
  /\ Begin(t, {i}, [Idle EXCEPT !.op = "update", !.ids = {i}, !.text = text, !.seen = row[i],
                                !.at = IF text = "keep" THEN "commit" ELSE "upsert"])
  /\ UNCHANGED <<stores, cut, faults>>

(* The vector is written: after the row by create, before it by update. *)
Upsert(t) ==
  /\ task[t].at = "upsert"
  /\ point' = [i \in Ids |-> IF i \in task[t].ids THEN task[t].text ELSE point[i]]
  /\ Go(t, IF task[t].op = "create" THEN "bust" ELSE "commit")
  /\ UNCHANGED <<pg, history, told, cache, counts>>

(* A slip: the row is written whether or not it is still there. *)
UpdateCommitAnyway(t) ==
  /\ task[t].at = "commit"
  /\ \E i \in task[t].ids :
       LET text == IF task[t].text = "keep" THEN task[t].seen ELSE task[t].text IN
         /\ row' = [row EXCEPT ![i] = text]
         /\ task' = [task EXCEPT ![t].at = "bust", ![t].text = text]
  /\ UNCHANGED <<expiry, point, history, told, cache, counts>>

(* The session writes the columns that differ from what it read: a content  *)
(* equal to the one it read is not written.  What it goes on with is its    *)
(* own copy of the row.                                                     *)
UpdateCommit(t) ==
  /\ task[t].at = "commit"
  /\ \E i \in task[t].ids :
       LET text == IF task[t].text = "keep" THEN task[t].seen ELSE task[t].text IN
         /\ Live(i)
         /\ row' = IF text = task[t].seen THEN row ELSE [row EXCEPT ![i] = text]
         /\ task' = [task EXCEPT ![t].at = "bust", ![t].text = text]
  /\ UNCHANGED <<expiry, point, history, told, cache, counts>>

(* The row went away since it was read: the UPDATE matches nothing, and the *)
(* session raises.                                                          *)
UpdateStale(t) ==
  /\ task[t].at = "commit"
  /\ \A i \in task[t].ids : ~Live(i)
  /\ End(t)
  /\ UNCHANGED <<stores, counts>>

-----------------------------------------------------------------------------
(* delete, delete_for_user and cleanup_expired. *)

(* delete: the row is read; an unknown id ends the request (404). *)
Delete(t, i) ==
  /\ Live(i)
  /\ Begin(t, {i}, [Idle EXCEPT !.op = "delete", !.at = "remove", !.ids = {i}])
  /\ UNCHANGED <<stores, cut, faults>>

(* Gone already or not, the session only warns and the request goes on. *)
Remove(t) ==
  /\ task[t].at = "remove"
  /\ row' = [i \in Ids |-> IF i \in task[t].ids THEN "gone" ELSE row[i]]
  /\ Go(t, "unpoint")
  /\ UNCHANGED <<expiry, point, history, told, cache, counts>>

(* delete_for_user: the rows that match its filters go in one statement. *)
Clear(t, match) ==
  LET ids == {i \in match : Live(i)} IN
    /\ Begin(t, ids, [Idle EXCEPT !.op = "clear", !.ids = ids,
                                  !.at = IF ids = {} THEN "bust" ELSE "unpoint"])
    /\ row' = [i \in Ids |-> IF i \in ids THEN "gone" ELSE row[i]]
    /\ UNCHANGED <<expiry, point, history, told, cache, cut, faults>>

(* cleanup_expired: every expired row goes in one statement, and at most    *)
(* Batch of their ids, in no particular order, are kept for what follows.   *)
(* Without expired rows the job returns.                                    *)
Cleanup(t) ==
  LET ids == {i \in Ids : Live(i) /\ expiry[i] = "past"} IN
    /\ ids # {}
    /\ \E kept \in kSubset(Min({Batch, Cardinality(ids)}), ids) :
         Begin(t, ids, [Idle EXCEPT !.op = "cleanup", !.ids = kept,
                                    !.at = IF kept = {} THEN "bust" ELSE "unpoint"])
    /\ row' = [i \in Ids |-> IF i \in ids THEN "gone" ELSE row[i]]
    /\ UNCHANGED <<expiry, point, history, told, cache, cut, faults>>

(* delete removes its vector and goes on with its id. *)
Unpoint(t) ==
  /\ task[t].at = "unpoint" /\ task[t].op = "delete"
  /\ point' = [i \in Ids |-> IF i \in task[t].ids THEN "none" ELSE point[i]]
  /\ Go(t, "bust")
  /\ UNCHANGED <<pg, history, told, cache, counts>>

(* Slips: the vectors are deleted by their user, whose newer memories lose  *)
(* theirs too; the loop over the chunks stops after the first one.          *)
UnpointAll(t) ==
  /\ task[t].at = "unpoint" /\ task[t].op \in {"clear", "cleanup"}
  /\ point' = [i \in Ids |-> "none"]
  /\ task' = [task EXCEPT ![t].ids = {}, ![t].at = "bust"]
  /\ UNCHANGED <<pg, history, told, cache, counts>>

UnpointOnce(t) ==
  /\ task[t].at = "unpoint" /\ task[t].op \in {"clear", "cleanup"}
  /\ \E chunk \in kSubset(Min({Chunk, Cardinality(task[t].ids)}), task[t].ids) :
       /\ point' = [i \in Ids |-> IF i \in chunk THEN "none" ELSE point[i]]
       /\ task' = [task EXCEPT ![t].ids = {}, ![t].at = "bust"]
  /\ UNCHANGED <<pg, history, told, cache, counts>>

(* The others remove theirs chunk by chunk. *)
UnpointChunk(t) ==
  /\ task[t].at = "unpoint" /\ task[t].op \in {"clear", "cleanup"}
  /\ \E chunk \in kSubset(Min({Chunk, Cardinality(task[t].ids)}), task[t].ids) :
       /\ point' = [i \in Ids |-> IF i \in chunk THEN "none" ELSE point[i]]
       /\ task' = [task EXCEPT ![t].ids = @ \ chunk,
                               ![t].at = IF task[t].ids \subseteq chunk THEN "bust" ELSE "unpoint"]
  /\ UNCHANGED <<pg, history, told, cache, counts>>

-----------------------------------------------------------------------------
(* What every write request does once the stores are written. *)

After(t) ==
  CASE task[t].op = "create" -> "record"
    [] task[t].op = "update" -> "number"
    [] task[t].op = "delete" -> "publish"
    [] OTHER -> "idle"

(* The request goes on after the cache, or returns. *)
PastCache(t) == IF After(t) = "idle" THEN End(t) ELSE Go(t, After(t))

(* Every cached answer of the tenant goes. *)
Bust(t) ==
  /\ task[t].at = "bust"
  /\ cache' = {}
  /\ PastCache(t)
  /\ UNCHANGED <<pg, point, history, told, counts>>

(* Redis failed: the cache client swallows that. *)
BustLost(t) ==
  /\ Strike("swallowed", {})
  /\ task[t].at = "bust"
  /\ PastCache(t)
  /\ UNCHANGED <<stores, begun, raced>>

Numbers(i) == {history[i][n].number : n \in DOMAIN history[i]}

(* A slip: versions are counted from zero. *)
NumberFromZero(t) ==
  /\ task[t].at = "number"
  /\ \E i \in task[t].ids : \E n \in Numbers(i) \cup {0} :
       /\ \A m \in Numbers(i) : m <= n
       /\ task' = [task EXCEPT ![t].at = "record", ![t].num = n]
  /\ UNCHANGED <<stores, counts>>

(* update asks for the highest version number, in a statement of its own,   *)
(* and takes the next one.                                                  *)
Number(t) ==
  /\ task[t].at = "number"
  /\ \E i \in task[t].ids : \E n \in Numbers(i) \cup {0} :
       /\ \A m \in Numbers(i) : m <= n
       /\ task' = [task EXCEPT ![t].at = "record", ![t].num = n + 1]
  /\ UNCHANGED <<stores, counts>>

NumberLost(t) ==
  /\ Strike("swallowed", Scope(t))
  /\ task[t].at = "number"
  /\ task' = [task EXCEPT ![t].at = "record", ![t].num = 1]
  /\ UNCHANGED <<stores, begun, raced>>

(* The snapshot: the request's own copy, under the number it has. *)
Record(t) ==
  /\ task[t].at = "record"
  /\ \E i \in task[t].ids :
       LET version == [number |-> IF task[t].op = "create" THEN 1 ELSE task[t].num,
                       text |-> task[t].text]
       IN  history' = [history EXCEPT ![i] = Append(@, version)]
  /\ Go(t, "publish")
  /\ UNCHANGED <<pg, point, told, cache, counts>>

RecordLost(t) ==
  /\ Strike("swallowed", Scope(t))
  /\ task[t].at = "record"
  /\ Go(t, "publish")
  /\ UNCHANGED <<stores, begun, raced>>

Publish(t) ==
  /\ task[t].at = "publish"
  /\ told' = [i \in Ids |-> IF i \in task[t].ids THEN task[t].op ELSE told[i]]
  /\ End(t)
  /\ UNCHANGED <<pg, point, history, cache, counts>>

-----------------------------------------------------------------------------
(* The search, behind the read-through cache. *)

(* Nothing cached: the loader runs, and its query is embedded.  A cached    *)
(* answer, an empty one too, is returned as it is.                          *)
Miss(t) ==
  /\ task[t] = Idle
  /\ cache = {}
  /\ task' = [task EXCEPT ![t].op = "search", ![t].at = "query"]
  /\ UNCHANGED <<stores, counts>>

(* Qdrant returns the best Limit vectors; any of them may be the best. *)
Query(t) ==
  LET points == {i \in Ids : point[i] # "none"} IN
    /\ task[t].at = "query"
    /\ \E best \in kSubset(Min({Limit, Cardinality(points)}), points) :
         task' = [task EXCEPT ![t].ids = best, ![t].at = IF best = {} THEN "store" ELSE "fetch"]
    /\ UNCHANGED <<stores, counts>>

(* A slip: an answer for every vector found, whether or not it has a row. *)
FetchUnfiltered(t) ==
  /\ task[t].at = "fetch"
  /\ task' = [task EXCEPT ![t].at = "bump", ![t].hits = {<<i, row[i]>> : i \in task[t].ids}]
  /\ UNCHANGED <<stores, counts>>

(* The rows of the vectors found, without those that expired. *)
Fetch(t) ==
  /\ task[t].at = "fetch"
  /\ task' = [task EXCEPT ![t].at = "bump",
                 ![t].hits = {<<i, row[i]>> : i \in {k \in task[t].ids :
                                                      Live(k) /\ expiry[k] # "past"}}]
  /\ UNCHANGED <<stores, counts>>

(* The access counters of the rows found are written back. *)
Bump(t) ==
  /\ task[t].at = "bump"
  /\ \/ \A hit \in task[t].hits : Live(hit[1])
     \/ Cardinality(task[t].hits) > 1
  /\ Go(t, "store")
  /\ UNCHANGED <<stores, counts>>

(* A row found went away meanwhile: the session raises, if the driver       *)
(* counts the rows of a statement for several.                              *)
BumpStale(t) ==
  /\ task[t].at = "bump"
  /\ \E hit \in task[t].hits : ~Live(hit[1])
  /\ End(t)
  /\ UNCHANGED <<stores, counts>>

(* The answer is cached, whatever was written since it was computed. *)
Store(t) ==
  /\ task[t].at = "store"
  /\ cache' = {task[t].hits}
  /\ End(t)
  /\ UNCHANGED <<pg, point, history, told, counts>>

-----------------------------------------------------------------------------
(* Time, and faults. *)

Expire(i) ==
  /\ Live(i) /\ expiry[i] = "ahead"
  /\ expiry' = [expiry EXCEPT ![i] = "past"]
  /\ UNCHANGED <<row, point, history, told, cache, task, counts>>

CacheExpires ==
  /\ cache # {}
  /\ cache' = {}
  /\ UNCHANGED <<pg, point, history, told, task, counts>>

(* A request ends where it stands: a store raised, the client went away or  *)
(* the worker running the cleanup was killed.  An open transaction is       *)
(* rolled back.                                                             *)
Abort(t) ==
  /\ Strike("abort", Scope(t))
  /\ task[t] # Idle
  /\ End(t)
  /\ UNCHANGED <<stores, begun, raced>>

(* The process dies with all its requests. *)
Crash ==
  /\ Strike("crash", UNION {Scope(t) : t \in Requests})
  /\ \E t \in Requests : task[t] # Idle
  /\ task' = [t \in Requests |-> Idle]
  /\ UNCHANGED <<stores, begun, raced>>

Start(t) ==
  \/ \E i \in Ids, text \in Contents, ttl \in {"never", "ahead"} : Create(t, i, text, ttl)
  \/ \E i \in Ids, text \in Contents \cup {"keep"} : Update(t, i, text)
  \/ \E i \in Ids : Delete(t, i)
  \/ \E match \in SUBSET Ids : Clear(t, match)
  \/ Cleanup(t)
  \/ Miss(t)

Continue(t) ==
  \/ Upsert(t) \/ UpdateCommit(t) \/ UpdateStale(t)
  \/ Remove(t) \/ Unpoint(t) \/ UnpointChunk(t)
  \/ Bust(t) \/ Number(t) \/ Record(t) \/ Publish(t)
  \/ Query(t) \/ Fetch(t) \/ Bump(t) \/ BumpStale(t) \/ Store(t)

Disturb(t) == BustLost(t) \/ NumberLost(t) \/ RecordLost(t) \/ Abort(t)

Next ==
  \/ \E t \in Requests : Start(t) \/ Continue(t) \/ Disturb(t)
  \/ \E i \in Ids : Expire(i)
  \/ CacheExpires
  \/ Crash

Spec == Init /\ [][Next]_vars

-----------------------------------------------------------------------------
(* Every variable stays within its range. *)
TypeOK ==
  /\ row \in [Ids -> Contents \cup {"unborn", "gone"}]
  /\ expiry \in [Ids -> {"never", "ahead", "past"}]
  /\ point \in [Ids -> Contents \cup {"none"}]
  /\ history \in [Ids -> Seq([number : Nat, text : Contents])]
  /\ told \in [Ids -> {"nothing", "create", "update", "delete"}]
  /\ cache \subseteq SUBSET (Ids \X Contents) /\ Cardinality(cache) <= 1
  /\ task \in [Requests -> TaskRecords]
  /\ begun \in 0 .. MaxRequests
  /\ raced \subseteq Ids /\ cut \subseteq Ids
  /\ faults \in 0 .. MaxFaults

(* However requests on a memory overlap, a row is never left without a      *)
(* vector, where no search would find it: whoever deletes a vector deleted  *)
(* the row first, and no one brings a row back.                             *)
RowsAreSearchable ==
  \A i \in Ids \ cut : Live(i) =>
    \/ point[i] # "none"
    \/ \E t \in Requests : task[t].op = "create" /\ task[t].at = "upsert" /\ i \in task[t].ids

Agree(i) == IF Live(i) THEN point[i] = row[i] ELSE point[i] = "none"

(* A memory whose writes neither overlapped nor were cut short has the      *)
(* vector of its content, and none once it is gone, as soon as its last     *)
(* write has returned, whatever goes on elsewhere, bulk deletes included.   *)
StoresAgree ==
  \A i \in Ids \ (raced \cup cut) : ~Busy(i) => Agree(i)

(* The trail of such a memory is complete: its versions are numbered from   *)
(* one without gaps and end in what the row says, and the last event tells  *)
(* of the last version.                                                     *)
TrailIsComplete ==
  \A i \in Ids \ (raced \cup cut) : ~Busy(i) /\ Live(i) =>
    /\ history[i] # <<>>
    /\ \A n \in DOMAIN history[i] : history[i][n].number = n
    /\ history[i][Len(history[i])].text = row[i]
    /\ told[i] = IF Len(history[i]) = 1 THEN "create" ELSE "update"

(* A deleted memory stays deleted, although an update that read it before   *)
(* goes on to write it.                                                     *)
DeletedStaysDeleted == [][\A i \in Ids : row[i] = "gone" => row'[i] = "gone"]_vars

(* What README.md:347 says of the cache: once the writes have returned, no  *)
(* cached answer is from before them.                                       *)
CacheFollowsWrites ==
  (\A t \in Requests : task[t].op \in {"none", "search"}) =>
    \A answer \in cache : \A hit \in answer : row[hit[1]] = hit[2]
=============================================================================
