------------------------------ MODULE Ingestion ------------------------------
(***************************************************************************)
(* How memories are written in batches (mypalace/retrieval/ingestion.py    *)
(* and create_batch of mypalace/memory_service.py): a language model       *)
(* extracts facts from a conversation, and each fact is compared with the  *)
(* nearest memory in the vector store and skipped, written, or written in  *)
(* the place of a memory it contradicts.  Requests overlap, memories are   *)
(* deleted meanwhile, and a request may be cut short at any await.  All    *)
(* memories here belong to one user; MemoryStore has the details of their  *)
(* rows, versions and events.                                              *)
(***************************************************************************)
EXTENDS Integers, Sequences, FiniteSets

CONSTANTS
  Ingests,    \* requests that write memories
  MemoryIds,  \* ids for new memories
  Facts,      \* what a memory can say
  Batches,    \* lists of facts a request may bring or the model extract
  Likeness,   \* how near two facts are, in the bands the thresholds cut out
  Contrary,   \* pairs _check_contradiction is confident about
  Nothing,    \* no memory, no fact, no request
  MaxCuts     \* bound: requests cut short in one behaviour

Bands == {"duplicate", "similar", "far"}
Modes == {"infer", "verbatim", "replace"}

ASSUME IngestionAssumption ==
  /\ Batches \subseteq Seq(Facts)
  /\ Likeness \in [Facts \X Facts -> Bands]
  /\ \A f, g \in Facts : Likeness[<<f, g>>] = Likeness[<<g, f>>]
  /\ Contrary \subseteq Facts \X Facts
  /\ Nothing \notin MemoryIds \cup Facts \cup Ingests
  /\ MaxCuts \in Nat

VARIABLES
  row,       \* the row of a memory: free, live or gone
  says,      \* its content
  index,     \* the memories with a vector
  removing,  \* deletes that have yet to remove the vector
  links,     \* the rows of memory_supersessions: <<superseded, new>>
  noted,     \* those with a version row "superseded"
  reported,  \* those published as memory.superseded
  phase,     \* where a request stands
  mode,      \* what it was asked to do
  todo,      \* the facts it still has before it, the current one first
  target,    \* the memory the current fact is to replace, or was compared with
  fresh,     \* the memory it is writing
  skips,     \* auxiliary: which fact was skipped on account of which memory
  author,    \* auxiliary: the request that wrote a memory
  given,     \* auxiliary: the memories searchable when a request began
  prior,     \* auxiliary: the same, for the request that wrote a memory
  aim,       \* auxiliary: the memory that a memory was written to replace
  cuts       \* auxiliary: the requests cut short so far, with what they wrote

stores == <<row, says, index, removing>>
record == <<links, noted, reported>>
request == <<phase, mode, todo, target, fresh>>
history == <<skips, author, given, prior, aim, cuts>>
ingestionVars == <<stores, record, request, history>>

IngestionInit ==
  /\ row = [m \in MemoryIds |-> "free"]
  /\ says = [m \in MemoryIds |-> Nothing]
  /\ index = {} /\ removing = {}
  /\ links = {} /\ noted = {} /\ reported = {}
  /\ phase = [i \in Ingests |-> "idle"]
  /\ mode = [i \in Ingests |-> "infer"]
  /\ todo = [i \in Ingests |-> <<>>]
  /\ target = [i \in Ingests |-> Nothing]
  /\ fresh = [i \in Ingests |-> Nothing]
  /\ skips = {}
  /\ author = [m \in MemoryIds |-> Nothing]
  /\ given = [i \in Ingests |-> {}]
  /\ prior = [m \in MemoryIds |-> {}]
  /\ aim = [m \in MemoryIds |-> Nothing]
  /\ cuts = {}

Live == {m \in MemoryIds : row[m] = "live"}

Go(i, where) == phase' = [phase EXCEPT ![i] = where]

(* The current fact is dealt with; the next one is taken up. *)
Advance(i) ==
  /\ todo' = [todo EXCEPT ![i] = Tail(@)]
  /\ Go(i, IF Len(todo[i]) = 1 THEN "done" ELSE IF mode[i] = "infer" THEN "look" ELSE "write")
  /\ target' = [target EXCEPT ![i] = Nothing]
  /\ fresh' = [fresh EXCEPT ![i] = Nothing]
  /\ UNCHANGED mode

-----------------------------------------------------------------------------
(* The three requests: POST /v1/memories/batch with infer and without, and  *)
(* POST /v1/memories/{id}/supersede.                                        *)

BeginIngest(i, how, where, facts) ==
  /\ phase[i] = "idle"
  /\ mode' = [mode EXCEPT ![i] = how]
  /\ todo' = [todo EXCEPT ![i] = facts]
  /\ given' = [given EXCEPT ![i] = index]
  /\ Go(i, where)
  /\ UNCHANGED <<stores, record, fresh, skips, author, prior, aim, cuts>>

Infer(i) == BeginIngest(i, "infer", "extract", <<>>) /\ UNCHANGED target

Verbatim(i, facts) ==
  BeginIngest(i, "verbatim", IF facts = <<>> THEN "done" ELSE "write", facts) /\ UNCHANGED target

(* supersede_memory: no search, but the old memory must be there (404). *)
Replace(i, m, f) ==
  /\ m \in Live
  /\ BeginIngest(i, "replace", "write", <<f>>)
  /\ target' = [target EXCEPT ![i] = m]

(* extract_memories: whatever list of facts the model makes of it; answers  *)
(* that are not JSON end the request (Cut).                                 *)
Extract(i, facts) ==
  /\ phase[i] = "extract"
  /\ todo' = [todo EXCEPT ![i] = facts]
  /\ Go(i, IF facts = <<>> THEN "done" ELSE "look")
  /\ UNCHANGED <<stores, record, mode, target, fresh, history>>

-----------------------------------------------------------------------------
(* dedup_and_write: one fact, one await after the other. *)

Band(i, m) == Likeness[<<Head(todo[i]), says[m]>>]

(* A slip: a fact is compared with what was there before its batch. *)
NearestBefore(i) ==
  LET within(bands) == {m \in index \cap given[i] : Band(i, m) \in bands}
  IN  IF within({"duplicate"}) # {} THEN within({"duplicate"}) ELSE within({"similar"})

(* vector_store.search with limit=1: the best of what has a vector, as far  *)
(* as it is above a threshold.                                              *)
Nearest(i) ==
  LET within(bands) == {m \in index : Band(i, m) \in bands}
  IN  IF within({"duplicate"}) # {} THEN within({"duplicate"}) ELSE within({"similar"})

Skip(i, m) ==
  /\ skips' = skips \cup {<<Head(todo[i]), m>>}
  /\ Advance(i)

Look(i) ==
  /\ phase[i] = "look"
  /\ \/ /\ Nearest(i) = {}
        /\ Go(i, "write")
        /\ UNCHANGED <<mode, todo, target, fresh, skips>>
     \/ \E m \in Nearest(i) :
          IF Band(i, m) = "duplicate" THEN Skip(i, m)
          ELSE /\ Go(i, "judge")
               /\ target' = [target EXCEPT ![i] = m]
               /\ UNCHANGED <<mode, todo, fresh, skips>>
  /\ UNCHANGED <<stores, record, author, given, prior, aim, cuts>>

(* memory_service.get and _check_contradiction: a row that is gone does not *)
(* keep the fact from being written.                                        *)
Judge(i) ==
  /\ phase[i] = "judge"
  /\ LET m == target[i] IN
       \/ /\ m \notin Live
          /\ Go(i, "write")
          /\ target' = [target EXCEPT ![i] = Nothing]
          /\ UNCHANGED <<mode, todo, fresh, skips>>
       \/ /\ m \in Live /\ <<says[m], Head(todo[i])>> \in Contrary
          /\ Go(i, "write") /\ UNCHANGED <<mode, todo, target, fresh, skips>>
       \/ /\ m \in Live /\ <<says[m], Head(todo[i])>> \notin Contrary
          /\ Skip(i, m)
  /\ UNCHANGED <<stores, record, author, given, prior, aim, cuts>>

(* memory_service.create: the row is committed first... *)
Write(i) ==
  /\ phase[i] = "write"
  /\ \E m \in MemoryIds :
       /\ row[m] = "free"
       /\ row' = [row EXCEPT ![m] = "live"]
       /\ says' = [says EXCEPT ![m] = Head(todo[i])]
       /\ fresh' = [fresh EXCEPT ![i] = m]
       /\ author' = [author EXCEPT ![m] = i]
       /\ prior' = [prior EXCEPT ![m] = given[i]]
       /\ aim' = [aim EXCEPT ![m] = target[i]]
  /\ Go(i, "embed")
  /\ UNCHANGED <<index, removing, record, mode, todo, target, skips, given, cuts>>

(* ... and its vector written after; then the next fact, or the             *)
(* bookkeeping of the memory it replaces.                                   *)
Embed(i) ==
  /\ phase[i] = "embed"
  /\ index' = index \cup {fresh[i]}
  /\ IF target[i] = Nothing THEN Advance(i)
     ELSE Go(i, "link") /\ UNCHANGED <<mode, todo, target, fresh>>
  /\ UNCHANGED <<row, says, removing, record, history>>

-----------------------------------------------------------------------------
(* _record_supersession. *)

(* A slip: recording the supersession is best-effort as well. *)
LinkIfItWorks(i) ==
  /\ phase[i] = "link"
  /\ \/ links' = links \cup {<<target[i], fresh[i]>>}
     \/ UNCHANGED links
  /\ Go(i, "note")
  /\ UNCHANGED <<stores, noted, reported, mode, todo, target, fresh, history>>

Link(i) ==
  /\ phase[i] = "link"
  /\ links' = links \cup {<<target[i], fresh[i]>>}
  /\ Go(i, "note")
  /\ UNCHANGED <<stores, noted, reported, mode, todo, target, fresh, history>>

(* The demotion, the graph's edge and the version row of the old memory are *)
(* best-effort; the version needs the old row.                              *)
Note(i) ==
  /\ phase[i] = "note"
  /\ \/ target[i] \in Live /\ noted' = noted \cup {<<target[i], fresh[i]>>}
     \/ UNCHANGED noted
  /\ Go(i, "tell")
  /\ UNCHANGED <<stores, links, reported, mode, todo, target, fresh, history>>

Tell(i) ==
  /\ phase[i] = "tell"
  /\ reported' = reported \cup {<<target[i], fresh[i]>>}
  /\ Advance(i)
  /\ UNCHANGED <<stores, links, noted, history>>

-----------------------------------------------------------------------------
(* What else happens. *)

(* A memory is deleted or has expired: its row goes first, its vector later *)
(* or, when that fails, never.                                              *)
Forget(m) ==
  /\ m \in Live
  /\ row' = [row EXCEPT ![m] = "gone"]
  /\ removing' = removing \cup {m}
  /\ UNCHANGED <<says, index, record, request, history>>

Unindex(m) ==
  /\ m \in removing
  /\ removing' = removing \ {m}
  /\ \/ index' = index \ {m}
     \/ UNCHANGED index
  /\ UNCHANGED <<row, says, record, request, history>>

Underway == {"extract", "look", "judge", "write", "embed", "link", "note", "tell"}

(* A store, the embedder or the process fails at an await: what is written  *)
(* stays, the rest is not done.  A vector may have been taken although its  *)
(* answer was lost, and so may a supersession.                              *)
Cut(i) ==
  /\ phase[i] \in Underway
  /\ Cardinality(cuts) < MaxCuts
  /\ cuts' = cuts \cup {<<i, fresh[i]>>}
  /\ Go(i, "failed")
  /\ \/ UNCHANGED <<index, links>>
     \/ phase[i] = "embed" /\ index' = index \cup {fresh[i]} /\ UNCHANGED links
     \/ phase[i] = "link" /\ links' = links \cup {<<target[i], fresh[i]>>} /\ UNCHANGED index
  /\ UNCHANGED <<row, says, removing, noted, reported, mode, todo, target, fresh>>
  /\ UNCHANGED <<skips, author, given, prior, aim>>

(* The client sends the same request again. *)
Retry(i) ==
  /\ phase[i] = "failed" /\ mode[i] = "infer"
  /\ Go(i, "extract")
  /\ target' = [target EXCEPT ![i] = Nothing]
  /\ fresh' = [fresh EXCEPT ![i] = Nothing]
  /\ given' = [given EXCEPT ![i] = index]
  /\ UNCHANGED <<stores, record, mode, todo, skips, author, prior, aim, cuts>>

IngestionNext ==
  \/ \E i \in Ingests :
       \/ Infer(i) \/ (\E facts \in Batches : Verbatim(i, facts) \/ Extract(i, facts))
       \/ \E m \in MemoryIds, f \in Facts : Replace(i, m, f)
       \/ Look(i) \/ Judge(i) \/ Write(i) \/ Embed(i)
       \/ Link(i) \/ Note(i) \/ Tell(i) \/ Cut(i) \/ Retry(i)
  \/ \E m \in MemoryIds : Forget(m) \/ Unindex(m)

IngestionSpec == IngestionInit /\ [][IngestionNext]_ingestionVars

-----------------------------------------------------------------------------
(* Every variable stays within its range. *)
IngestionTypeOK ==
  /\ row \in [MemoryIds -> {"free", "live", "gone"}]
  /\ says \in [MemoryIds -> Facts \cup {Nothing}]
  /\ index \subseteq MemoryIds /\ removing \subseteq MemoryIds
  /\ links \subseteq MemoryIds \X MemoryIds
  /\ noted \subseteq MemoryIds \X MemoryIds /\ reported \subseteq MemoryIds \X MemoryIds
  /\ phase \in [Ingests -> Underway \cup {"idle", "done", "failed"}]
  /\ mode \in [Ingests -> Modes]
  /\ todo \in [Ingests -> Seq(Facts)]
  /\ target \in [Ingests -> MemoryIds \cup {Nothing}]
  /\ fresh \in [Ingests -> MemoryIds \cup {Nothing}]
  /\ skips \subseteq Facts \X MemoryIds
  /\ author \in [MemoryIds -> Ingests \cup {Nothing}]
  /\ given \in [Ingests -> SUBSET MemoryIds]
  /\ prior \in [MemoryIds -> SUBSET MemoryIds]
  /\ aim \in [MemoryIds -> MemoryIds \cup {Nothing}]
  /\ cuts \subseteq Ingests \X (MemoryIds \cup {Nothing})

(* No fact is remembered twice by smart ingestion: a memory it wrote says   *)
(* the same as no other that is live and searchable, whoever wrote that,    *)
(* unless the other became searchable while the request was at work.        *)
NoTwins ==
  \A m, n \in index \cap Live :
    /\ m # n /\ author[m] # Nothing /\ mode[author[m]] = "infer"
    /\ Likeness[<<says[m], says[n]>>] = "duplicate"
    => n \notin prior[m] /\ author[n] # author[m]

(* A fact is dropped only on account of a memory that says nearly the same  *)
(* and that really was committed, even if it has been deleted since: not on *)
(* account of one whose writer failed before there was anything to keep.    *)
SkippedIsKnown ==
  \A s \in skips : row[s[2]] # "free" /\ Likeness[<<s[1], says[s[2]]>>] # "far"

(* What is taken for a duplicate is one, and what is not is none.           *)
DuplicatesAreDropped == NoTwins /\ SkippedIsKnown

(* A memory is retired only for a successor that search can find until it   *)
(* is deleted itself; and nothing says it is retired, neither an event nor  *)
(* its versions, before that is on record.                                  *)
RetiredForAnother ==
  /\ \A l \in links : l[1] # l[2] /\ (l[2] \in Live => l[2] \in index)
  /\ noted \cup reported \subseteq links

(* Of two contradicting memories the older is retired, unless the request   *)
(* that found the contradiction was cut short: then its retry takes the     *)
(* fact for a duplicate and nothing ever retires the older one.             *)
ResolvedOrCut ==
  \A m \in MemoryIds :
    aim[m] # Nothing =>
      \/ <<aim[m], m>> \in links
      \/ <<author[m], m>> \in cuts
      \/ fresh[author[m]] = m /\ phase[author[m]] \in {"embed", "link"}

(* What a supersession promises (_record_supersession), both ways: who is   *)
(* retired has a successor, and who has a successor is retired.             *)
SupersessionsHold == RetiredForAnother /\ ResolvedOrCut
=============================================================================
