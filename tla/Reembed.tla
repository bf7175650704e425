------------------------------- MODULE Reembed -------------------------------
(***************************************************************************)
(* The job that embeds all memories of a tenant again, under another model *)
(* (_reembed_handler of mypalace/workers/handlers.py, asked for by         *)
(* mypalace/api/reembed.py).  It reads the rows a page at a time and       *)
(* writes their vectors into the tenant's collection, beside an API that   *)
(* goes on creating, changing and deleting memories and embeds them under  *)
(* the model it has always had.                                            *)
(***************************************************************************)
EXTENDS Integers, FiniteSets

CONSTANTS
  Places,       \* ids, by their order; a new memory may get any (uuid4)
  BatchSize,    \* batch_size of the job
  MaxText,      \* bound: versions of a memory's text
  MaxWrites,    \* bound: writes by the API in one behaviour
  MaxStumbles   \* bound: faults in one behaviour

ASSUME ReembedAssumption ==
  /\ Places \subseteq Nat /\ IsFiniteSet(Places)
  /\ BatchSize \in Nat \ {0}
  /\ MaxText \in Nat \ {0} /\ MaxWrites \in Nat
  /\ MaxStumbles \in Nat

VARIABLES
  text,      \* the row of a memory: its text's version; 0: none yet, -1: deleted
  point,     \* its vector: of which text, under which model
  pending,   \* writes that have committed the row and not reached the vector
  job,       \* where the job stands: idle, paging, embedding, writing, done
  offset,    \* OFFSET of the next page
  page,      \* the rest of the page, as it was read
  held,      \* the last page, all of it: the objects that the session still has
  failed,    \* the memories it counted as failures
  fits,      \* its model's vectors are as long as the collection's
  since,     \* auxiliary: the memories there since the job began
  moved,     \* auxiliary: a memory was deleted while the job ran
  crossed,   \* auxiliary: memories written while on the page, or whose vector was lost
  touched,   \* auxiliary: memories the API wrote since the job began
  writes,    \* writes by the API so far
  stumbles   \* faults so far

memory == <<text, point, pending>>
paging == <<job, offset, page, held, failed, fits>>
observed == <<since, moved, crossed, touched>>
reembedVars == <<memory, paging, observed, writes, stumbles>>

NoPoint == [of |-> 0, model |-> "none"]
Present == {m \in Places : text[m] > 0}
OnPage == {r.id : r \in page}

ReembedInit ==
  /\ \E there \in SUBSET Places :
       /\ text = [m \in Places |-> IF m \in there THEN 1 ELSE 0]
       /\ point = [m \in Places |-> IF m \in there THEN [of |-> 1, model |-> "old"] ELSE NoPoint]
  /\ pending = {}
  /\ job = "idle" /\ offset = 0 /\ page = {} /\ held = {} /\ failed = {} /\ fits = TRUE
  /\ since = {} /\ moved = FALSE /\ crossed = {} /\ touched = {}
  /\ writes = 0 /\ stumbles = 0

OneWrite == writes < MaxWrites /\ writes' = writes + 1
Stumble == stumbles < MaxStumbles /\ stumbles' = stumbles + 1

-----------------------------------------------------------------------------
(* The API: the row is committed, then the vector written or removed; see   *)
(* MemoryStore.                                                             *)

WriteRow(m) ==
  /\ OneWrite
  /\ text[m] \in 0 .. MaxText - 1 /\ m \notin pending
  /\ text' = [text EXCEPT ![m] = @ + 1]
  /\ pending' = pending \cup {m}
  /\ touched' = touched \cup {m}
  /\ crossed' = IF m \in OnPage THEN crossed \cup {m} ELSE crossed
  /\ UNCHANGED <<point, paging, since, moved, stumbles>>

DeleteRow(m) ==
  /\ OneWrite
  /\ m \in Present /\ m \notin pending
  /\ text' = [text EXCEPT ![m] = -1]
  /\ pending' = pending \cup {m}
  /\ since' = since \ {m}
  /\ moved' = (moved \/ job \notin {"idle", "done"})
  /\ crossed' = IF m \in OnPage THEN crossed \cup {m} ELSE crossed
  /\ UNCHANGED <<point, paging, touched, stumbles>>

Settle(m) ==
  /\ m \in pending
  /\ pending' = pending \ {m}
  /\ point' = [point EXCEPT ![m] = IF text[m] > 0 THEN [of |-> text[m], model |-> "old"]
                                   ELSE NoPoint]
  /\ crossed' = IF m \in OnPage THEN crossed \cup {m} ELSE crossed
  /\ UNCHANGED <<text, paging, since, moved, touched, writes, stumbles>>

Lose(m) ==
  /\ Stumble
  /\ m \in pending
  /\ pending' = pending \ {m}
  /\ crossed' = crossed \cup {m}
  /\ UNCHANGED <<text, point, paging, since, moved, touched, writes>>

-----------------------------------------------------------------------------
(* The job.  ensure_collection leaves a collection as it is that is there   *)
(* already, whatever the length of its vectors.                             *)

StartReembed ==
  /\ job = "idle"
  /\ job' = "paging"
  /\ since' = Present
  /\ touched' = pending
  /\ fits' \in BOOLEAN
  /\ UNCHANGED <<memory, offset, page, held, failed, moved, crossed, writes, stumbles>>

(* ORDER BY id LIMIT BatchSize OFFSET offset, as the rows are now; but the  *)
(* session does not refresh an object that it still has, that is, one of    *)
(* the last page.                                                           *)
PageAt(skip) ==
  {m \in Present : Cardinality({n \in Present : n < m}) \in skip .. skip + BatchSize - 1}

ReadPage ==
  /\ job = "paging"
  /\ held' = {r \in held : r.id \in PageAt(offset)}
               \cup {[id |-> m, text |-> text[m]] : m \in PageAt(offset) \ {r.id : r \in held}}
  /\ page' = held'
  /\ job' = IF PageAt(offset) = {} THEN "done" ELSE "embedding"
  /\ crossed' = crossed \cup (pending \cap PageAt(offset))
                   \cup {r.id : r \in {old \in page' : old.text # text[old.id]}}
  /\ UNCHANGED <<memory, offset, failed, fits, since, moved, touched, writes, stumbles>>

EmbedPage ==
  /\ job = "embedding"
  /\ job' = "writing"
  /\ UNCHANGED <<memory, offset, page, held, failed, fits, observed, writes, stumbles>>

(* A slip: the first page that fails ends the job. *)
EmbedFailsForAll ==
  /\ Stumble
  /\ job = "embedding"
  /\ failed' = failed \cup OnPage
  /\ page' = {}
  /\ job' = "done"
  /\ UNCHANGED <<memory, offset, held, fits, observed, writes>>

EmbedFails ==
  /\ Stumble
  /\ job = "embedding"
  /\ failed' = failed \cup OnPage
  /\ offset' = offset + BatchSize
  /\ page' = {}
  /\ job' = "paging"
  /\ UNCHANGED <<memory, held, fits, observed, writes>>

(* One vector after the other; one that is refused, or of the wrong length, *)
(* is counted and left out.                                                 *)
WritePoint ==
  /\ job = "writing"
  /\ \E m \in page :
       /\ \A n \in page : m.id <= n.id
       /\ page' = page \ {m}
       /\ \/ /\ fits
             /\ point' = [point EXCEPT ![m.id] = [of |-> m.text, model |-> "new"]]
             /\ UNCHANGED <<failed, stumbles>>
          \/ /\ IF fits THEN Stumble ELSE UNCHANGED stumbles
             /\ failed' = failed \cup {m.id}
             /\ UNCHANGED point
  /\ IF page' = {} THEN job' = "paging" /\ offset' = offset + BatchSize
     ELSE UNCHANGED <<job, offset>>
  /\ UNCHANGED <<text, pending, held, fits, observed, writes>>

ReembedNext ==
  \/ \E m \in Places : WriteRow(m) \/ DeleteRow(m) \/ Settle(m) \/ Lose(m)
  \/ StartReembed \/ ReadPage \/ EmbedPage \/ EmbedFails \/ WritePoint

ReembedSpec == ReembedInit /\ [][ReembedNext]_reembedVars

-----------------------------------------------------------------------------
(* Every variable stays within its range. *)
ReembedTypeOK ==
  /\ text \in [Places -> -1 .. MaxText]
  /\ point \in [Places -> [of : 0 .. MaxText, model : {"none", "old", "new"}]]
  /\ pending \subseteq Places
  /\ job \in {"idle", "paging", "embedding", "writing", "done"}
  /\ offset \in Nat
  /\ held \subseteq [id : Places, text : 1 .. MaxText] /\ page \subseteq held
  /\ fits \in BOOLEAN
  /\ failed \subseteq Places /\ since \subseteq Places
  /\ moved \in BOOLEAN
  /\ crossed \subseteq Places /\ touched \subseteq Places
  /\ writes \in 0 .. MaxWrites /\ stumbles \in 0 .. MaxStumbles

(* A finished job has given every memory that was there all along a vector  *)
(* under the new model, or counted it as a failure, unless a deletion moved *)
(* the pages or the API wrote the memory meanwhile, under the old model.    *)
EveryoneReembedded ==
  job = "done" /\ ~moved =>
    \A m \in since \ (failed \cup touched) : point[m] = [of |-> text[m], model |-> "new"]

(* When nothing is under way for a memory, its vector is of its text, and   *)
(* there is none of a deleted one, unless the API wrote it while the job    *)
(* held an older copy of it.                                                *)
VectorsFollowRows ==
  \A m \in Places \ (crossed \cup pending \cup OnPage) :
    point[m].of = IF text[m] > 0 THEN text[m] ELSE 0

(* What re-embedding does to the vectors. *)
ReembeddingHolds == EveryoneReembedded /\ VectorsFollowRows
=============================================================================
