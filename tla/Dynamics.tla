------------------------------ MODULE Dynamics ------------------------------
(***************************************************************************)
(* The review state of memories (mypalace/dynamics): one row of            *)
(* memory_dynamics per memory, looked up by memory and user although the   *)
(* memory alone is its primary key, and a row of memory_access_logs per    *)
(* review.  Requests read the row, compute and write it back without a     *)
(* lock, each in a transaction of its own (READ COMMITTED).                *)
(*                                                                         *)
(* Strengths are counted in thousandths.  Stability and difficulty follow  *)
(* the same reads and writes and are left out.                             *)
(***************************************************************************)
EXTENDS Integers, Sequences, FiniteSets

CONSTANTS
  Memories,     \* memory ids; nothing asks whether the memory exists
  Users,        \* users that review them
  Reviewers,   \* requests that may be in progress at the same time
  MaxReviews,  \* bound: requests that write in one behaviour
  MaxUpsets    \* bound: faults in one behaviour

ASSUME DynamicsAssumption ==
  /\ "none" \notin Users \cup Memories
  /\ MaxReviews \in Nat
  /\ MaxUpsets \in Nat

VARIABLES
  dynamics,   \* memory_dynamics, or NoRow
  log,        \* the access log rows ever written about a memory, oldest first
  pruned,     \* how many of them are deleted
  doing,      \* what each request in progress is about to do, and its locals
  reviews,    \* requests so far
  contested,  \* auxiliary: memories on which two reviews read the same row
  upsets      \* faults so far

dynamicsVars == <<dynamics, log, pruned, doing, reviews, contested, upsets>>

Grades == 1 .. 4   \* Grade.AGAIN, HARD, GOOD, EASY
Again == 1

NoRow == [user |-> "none", count |-> 0, retrieval |-> 0, storage |-> 0]
Fresh(u) == [user |-> u, count |-> 0, retrieval |-> 1000, storage |-> 500]
Absent(m) == dynamics[m].user = "none"

NoTask == [op |-> "none", at |-> "idle", memory |-> "none", user |-> "none", grade |-> Again,
           seen |-> NoRow, new |-> FALSE]

EndRequest(t) == doing' = [doing EXCEPT ![t] = NoTask]

(* An insert that is not committed yet makes other inserts wait. *)
Inserting(m) == \E t \in Reviewers : doing[t].memory = m /\ doing[t].new

(* A review has read the row and has not written it. *)
Reviewing(m) ==
  \E t \in Reviewers : doing[t].memory = m /\ doing[t].at = "commit" /\ ~doing[t].new

DynamicsInit ==
  /\ dynamics = [m \in Memories |-> NoRow]
  /\ log = [m \in Memories |-> <<>>]
  /\ pruned = [m \in Memories |-> 0]
  /\ doing = [t \in Reviewers |-> NoTask]
  /\ reviews = 0
  /\ contested = {}
  /\ upsets = 0

-----------------------------------------------------------------------------
(* The strengths after a review. *)

Capped(n) == IF n > 1000 THEN 1000 ELSE n

Boost(g) == CASE g = 2 -> 500 [] g = 3 -> 700 [] OTHER -> 900

Gain(g, bonus) ==
  CASE g = 2 -> 100 + bonus \div 10
    [] g = 3 -> 150 + (3 * bonus) \div 20
    [] OTHER -> 100 + bonus \div 20

(* A slip: a success is not capped either. *)
ReviewedUncapped(old, g, decayed) ==
  IF g = Again THEN [retrieval |-> 300, storage |-> old.storage + 50]
  ELSE [retrieval |-> decayed + Boost(g), storage |-> old.storage + Gain(g, 1000 - decayed)]

(* update_dual_strength: a success adds the more, the more had decayed, up  *)
(* to 1; a failure resets retrieval and adds 0.05 to storage without bound. *)
Reviewed(old, g, decayed) ==
  IF g = Again THEN [retrieval |-> 300, storage |-> old.storage + 50]
  ELSE [retrieval |-> Capped(decayed + Boost(g)),
        storage |-> Capped(old.storage + Gain(g, 1000 - decayed))]

(* What is left of retrieval: all of it at a first review, later anything;  *)
(* the model takes the two extremes, a review at once and one after years.  *)
Decayed(old) == IF old.count = 0 THEN {old.retrieval} ELSE {0, old.retrieval}

-----------------------------------------------------------------------------
(* promote; demote is promote with the grade AGAIN. *)

BeginRequest(t, request) ==
  /\ doing[t] = NoTask
  /\ reviews < MaxReviews
  /\ reviews' = reviews + 1
  /\ doing' = [doing EXCEPT ![t] = request]

(* The row is read, by memory and user; the row of another user is not      *)
(* found.                                                                   *)
Promote(t, m, u, g) ==
  LET known == dynamics[m].user = u IN
    /\ BeginRequest(t, [op |-> "promote", at |-> IF known THEN "commit" ELSE "insert",
                        memory |-> m, user |-> u, grade |-> g,
                        seen |-> IF known THEN dynamics[m] ELSE Fresh(u), new |-> FALSE])
    /\ contested' = IF known /\ Reviewing(m) THEN contested \cup {m} ELSE contested
    /\ UNCHANGED <<dynamics, log, pruned, upsets>>

(* A slip: the insert gives way to a row that is there (an upsert). *)
InsertOrTake(t) ==
  /\ doing[t].at = "insert" /\ doing[t].op = "promote"
  /\ ~Inserting(doing[t].memory)
  /\ doing' = [doing EXCEPT ![t].at = "commit", ![t].new = Absent(doing[t].memory)]
  /\ UNCHANGED <<dynamics, log, pruned, reviews, contested, upsets>>

(* No row was found: one is inserted, once no other insert is open. *)
Insert(t) ==
  /\ doing[t].at = "insert" /\ doing[t].op = "promote"
  /\ Absent(doing[t].memory) /\ ~Inserting(doing[t].memory)
  /\ doing' = [doing EXCEPT ![t].at = "commit", ![t].new = TRUE]
  /\ UNCHANGED <<dynamics, log, pruned, reviews, contested, upsets>>

(* Another request inserted it first, or the row is another user's: the     *)
(* primary key refuses, and the request fails.                              *)
Conflict(t) ==
  /\ doing[t].at = "insert"
  /\ ~Absent(doing[t].memory)
  /\ EndRequest(t)
  /\ UNCHANGED <<dynamics, log, pruned, reviews, contested, upsets>>

(* The session writes the columns that differ from what it read. *)
Column(now, read, next) == IF next = read THEN now ELSE next

Written(m, r, next) ==
  LET now == IF r.new THEN r.seen ELSE dynamics[m] IN
    [user |-> now.user, count |-> r.seen.count + 1,
     retrieval |-> Column(now.retrieval, r.seen.retrieval, next.retrieval),
     storage |-> Column(now.storage, r.seen.storage, next.storage)]

(* A slip: only the review that inserts the row is logged. *)
CommitUnlogged(t) ==
  LET r == doing[t] IN
    /\ r.at = "commit"
    /\ \E decayed \in Decayed(r.seen) :
         dynamics' = [dynamics EXCEPT ![r.memory] =
                        Written(r.memory, r, Reviewed(r.seen, r.grade, decayed))]
    /\ log' = IF r.new
              THEN [log EXCEPT ![r.memory] = Append(@, [user |-> r.user, grade |-> r.grade])]
              ELSE log
    /\ EndRequest(t)
    /\ UNCHANGED <<pruned, reviews, contested, upsets>>

(* The review of what was read is written, with its row in the log. *)
CommitRequest(t) ==
  LET r == doing[t] IN
    /\ r.at = "commit"
    /\ \E decayed \in Decayed(r.seen) :
         dynamics' = [dynamics EXCEPT ![r.memory] =
                        Written(r.memory, r, Reviewed(r.seen, r.grade, decayed))]
    /\ log' = [log EXCEPT ![r.memory] = Append(@, [user |-> r.user, grade |-> r.grade])]
    /\ EndRequest(t)
    /\ UNCHANGED <<pruned, reviews, contested, upsets>>

-----------------------------------------------------------------------------
(* score, which inserts a row it does not find, and the rest. *)

Score(t, m, u) ==
  /\ dynamics[m].user # u
  /\ BeginRequest(t, [NoTask EXCEPT !.op = "score", !.at = "insert", !.memory = m, !.user = u])
  /\ UNCHANGED <<dynamics, log, pruned, contested, upsets>>

(* ensure_dynamics: the insert and its commit. *)
Ensure(t) ==
  /\ doing[t].at = "insert" /\ doing[t].op = "score"
  /\ Absent(doing[t].memory) /\ ~Inserting(doing[t].memory)
  /\ dynamics' = [dynamics EXCEPT ![doing[t].memory] = Fresh(doing[t].user)]
  /\ EndRequest(t)
  /\ UNCHANGED <<log, pruned, reviews, contested, upsets>>

(* prune_access_logs: the rows before a cutoff. *)
Prune ==
  /\ pruned' \in [Memories -> 0 .. MaxReviews]
  /\ \A m \in Memories : pruned[m] <= pruned'[m] /\ pruned'[m] <= Len(log[m])
  /\ UNCHANGED <<dynamics, log, doing, reviews, contested, upsets>>

(* Requests end where they stand and are rolled back: one whose statement   *)
(* failed, or all those of a process that died.                             *)
AbortRequest(S) ==
  /\ upsets < MaxUpsets
  /\ upsets' = upsets + 1
  /\ \E t \in S : doing[t] # NoTask
  /\ doing' = [t \in Reviewers |-> IF t \in S THEN NoTask ELSE doing[t]]
  /\ UNCHANGED <<dynamics, log, pruned, reviews, contested>>

DynamicsNext ==
  \/ \E t \in Reviewers :
       \/ \E m \in Memories, u \in Users : \/ \E g \in Grades : Promote(t, m, u, g)
                                           \/ Score(t, m, u)
       \/ Insert(t) \/ Conflict(t) \/ CommitRequest(t) \/ Ensure(t)
  \/ Prune
  \/ \E S \in SUBSET Reviewers : AbortRequest(S)

DynamicsSpec == DynamicsInit /\ [][DynamicsNext]_dynamicsVars

-----------------------------------------------------------------------------
Rows == [user : Users \cup {"none"}, count : Nat, retrieval : 0 .. 1000, storage : Nat]

(* Every variable stays within its range: retrieval strength is a fraction. *)
DynamicsTypeOK ==
  /\ dynamics \in [Memories -> Rows]
  /\ log \in [Memories -> Seq([user : Users, grade : Grades])]
  /\ pruned \in [Memories -> Nat]
  /\ doing \in [Reviewers -> [op : {"none", "promote", "score"},
                            at : {"idle", "insert", "commit"}, memory : Memories \cup {"none"},
                            user : Users \cup {"none"}, grade : Grades, seen : Rows,
                            new : BOOLEAN]]
  /\ reviews \in 0 .. MaxReviews
  /\ contested \subseteq Memories
  /\ upsets \in 0 .. MaxUpsets

(* The counter of a row is the number of reviews in its log, and where two  *)
(* reviews overlapped at most that: a review may be overwritten, but it is  *)
(* in the log, and one that failed is in neither.  Overlapping first        *)
(* reviews do no harm: all but one fail.                                    *)
ReviewsAreLogged ==
  \A m \in Memories : IF m \in contested THEN dynamics[m].count <= Len(log[m])
                      ELSE dynamics[m].count = Len(log[m])

(* The reviews of a memory are one user's, whoever reviews it, though       *)
(* nothing but the primary key relates the two.                             *)
OneReviewer ==
  \A m \in Memories : \A n \in DOMAIN log[m] : log[m][n].user = dynamics[m].user

(* What was reviewed is on record, once, for whoever reviewed it. *)
ReviewsHold == ReviewsAreLogged /\ OneReviewer

Failures(m) == Cardinality({n \in DOMAIN log[m] : log[m][n].grade = Again})

(* Storage strength is a fraction but for the failures, which add to it     *)
(* without bound.                                                           *)
OnlyFailuresOverfill == \A m \in Memories : dynamics[m].storage <= 1000 + 50 * Failures(m)
=============================================================================
