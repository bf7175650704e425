----------------------------- MODULE Intentions -----------------------------
(***************************************************************************)
(* The intentions of one user and agent (mypalace/intentions/service.py):  *)
(* reminders that a message may fire.  A check reads the armed ones,       *)
(* evaluates their triggers, marks or deletes the matches in the same      *)
(* transaction (READ COMMITTED, nothing is locked by the read), and        *)
(* publishes an event for each of them before it answers.                  *)
(*                                                                         *)
(* Which triggers match is the choice of the environment: what a message   *)
(* says and what the time is.                                              *)
(***************************************************************************)
EXTENDS Integers, FiniteSets

CONSTANTS
  Ids,          \* intention ids; set() takes a fresh one (uuid4)
  Requests,     \* requests that may be in progress at the same time
  MaxRequests,  \* bound: checks and deletes in one behaviour
  MaxFaults     \* bound: faults in one behaviour

ASSUME IntentionsAssumption ==
  /\ IsFiniteSet(Ids) /\ IsFiniteSet(Requests)
  /\ MaxRequests \in Nat
  /\ MaxFaults \in Nat

VARIABLES
  intention,     \* "unset" before it exists, armed, fired, and "gone" after
  once,    \* intentions.fire_once
  expiry,  \* intentions.expires_at: "never", "ahead" or "past"
  task,    \* what each request in progress is about to do, and for which ids
  begun,   \* requests so far
  told,    \* how many events were published about the intention
  fires,   \* auxiliary: how many checks committed with it among their matches
  raced,   \* auxiliary: intentions that two checks had before them at once
  cut,     \* auxiliary: those of a check that ended between commit and answer
  faults   \* faults so far

table == <<intention, once, expiry>>
intentionsVars == <<table, task, begun, told, fires, raced, cut, faults>>

Idle == [at |-> "idle", ids |-> {}]
End(t) == task' = [task EXCEPT ![t] = Idle]
There(i) == intention[i] \in {"armed", "fired"}

IntentionsInit ==
  /\ intention = [i \in Ids |-> "unset"]
  /\ once = [i \in Ids |-> TRUE]
  /\ expiry = [i \in Ids |-> "never"]
  /\ task = [t \in Requests |-> Idle]
  /\ begun = 0
  /\ told = [i \in Ids |-> 0]
  /\ fires = [i \in Ids |-> 0]
  /\ raced = {}
  /\ cut = {}
  /\ faults = 0

-----------------------------------------------------------------------------
Set(i, single, ttl) ==
  /\ intention[i] = "unset"
  /\ intention' = [intention EXCEPT ![i] = "armed"]
  /\ once' = [once EXCEPT ![i] = single]
  /\ expiry' = [expiry EXCEPT ![i] = ttl]
  /\ UNCHANGED <<task, begun, told, fires, raced, cut, faults>>

Begin(t, at, ids) ==
  /\ task[t] = Idle
  /\ begun < MaxRequests
  /\ begun' = begun + 1
  /\ task' = [task EXCEPT ![t] = [at |-> at, ids |-> ids]]

Checking(i) == \E t \in Requests : task[t].at = "commit" /\ i \in task[t].ids

Match(t, ids) ==
  /\ ids # {}
  /\ Begin(t, "commit", ids)
  /\ raced' = raced \cup {i \in ids : Checking(i)}
  /\ UNCHANGED <<table, told, fires, cut, faults>>

(* A slip: fired intentions are not left out. *)
CheckFired(t, match) ==
  Match(t, {i \in match : There(i) /\ expiry[i] # "past"})

(* check: the armed intentions that have not expired are read, and those    *)
(* whose trigger matches are to be fired.  Without a match it returns.      *)
Check(t, match) ==
  Match(t, {i \in match : intention[i] = "armed" /\ expiry[i] # "past"})

Single(t) == {i \in task[t].ids : once[i]}
Lasting(t) == task[t].ids \ Single(t)

(* What the commit of a check leaves in the table. *)
Fired(t) ==
  intention' = [i \in Ids |-> CASE i \in Single(t) -> "gone"
                          [] i \in Lasting(t) /\ There(i) -> "fired"
                          [] OTHER -> intention[i]]

(* One transaction: an UPDATE of the lasting matches, a DELETE of the       *)
(* others, by id, whatever became of them since they were read.  A DELETE   *)
(* of a row that is gone only warns; an UPDATE of one raises, if the driver *)
(* counts the rows of a statement for several.                              *)
Writes(t) ==
  /\ task[t].at = "commit"
  /\ \/ \A i \in Lasting(t) : There(i)
     \/ Cardinality(Lasting(t)) > 1
  /\ Fired(t)
  /\ fires' = [i \in Ids |-> IF i \in task[t].ids THEN fires[i] + 1 ELSE fires[i]]

Commit(t) ==
  /\ Writes(t)
  /\ task' = [task EXCEPT ![t].at = "tell"]
  /\ UNCHANGED <<once, expiry, begun, told, raced, cut, faults>>

(* The session raises and is rolled back: no match is fired, and the        *)
(* request fails.                                                           *)
Stale(t) ==
  /\ task[t].at = "commit"
  /\ \E i \in Lasting(t) : ~There(i)
  /\ End(t)
  /\ UNCHANGED <<table, begun, told, fires, raced, cut, faults>>

(* A slip: the answer goes out after the first event. *)
PublishFirst(t) ==
  /\ task[t].at = "tell"
  /\ \E i \in task[t].ids : told' = [told EXCEPT ![i] = @ + 1]
  /\ End(t)
  /\ UNCHANGED <<table, begun, fires, raced, cut, faults>>

(* intention.fired, one after the other (by priority; here in any order),   *)
(* then the answer.                                                         *)
Publish(t) ==
  /\ task[t].at = "tell"
  /\ \E i \in task[t].ids :
       /\ told' = [told EXCEPT ![i] = @ + 1]
       /\ task' = [task EXCEPT ![t] = IF task[t].ids = {i} THEN Idle
                                      ELSE [at |-> "tell", ids |-> task[t].ids \ {i}]]
  /\ UNCHANGED <<table, begun, fires, raced, cut, faults>>

-----------------------------------------------------------------------------
(* delete reads the row; without one it returns (404). *)
Delete(t, i) ==
  /\ There(i)
  /\ Begin(t, "remove", {i})
  /\ UNCHANGED <<table, told, fires, raced, cut, faults>>

Remove(t) ==
  /\ task[t].at = "remove"
  /\ intention' = [i \in Ids |-> IF i \in task[t].ids THEN "gone" ELSE intention[i]]
  /\ End(t)
  /\ UNCHANGED <<once, expiry, begun, told, fires, raced, cut, faults>>

(* cleanup_expired: one statement, fired or not. *)
Cleanup ==
  /\ \E i \in Ids : There(i) /\ expiry[i] = "past"
  /\ intention' = [i \in Ids |-> IF There(i) /\ expiry[i] = "past" THEN "gone" ELSE intention[i]]
  /\ UNCHANGED <<once, expiry, task, begun, told, fires, raced, cut, faults>>

Expire(i) ==
  /\ There(i) /\ expiry[i] = "ahead"
  /\ expiry' = [expiry EXCEPT ![i] = "past"]
  /\ UNCHANGED <<intention, once, task, begun, told, fires, raced, cut, faults>>

-----------------------------------------------------------------------------
Strike ==
  /\ faults < MaxFaults
  /\ faults' = faults + 1

Untold(S) == UNION {task[t].ids : t \in {s \in S : task[s].at = "tell"}}

(* Requests end where they stand: one whose statement or client failed, or  *)
(* all those of a process that died.  Open transactions are rolled back.    *)
Abort(S) ==
  /\ Strike
  /\ \E t \in S : task[t] # Idle
  /\ task' = [t \in Requests |-> IF t \in S THEN Idle ELSE task[t]]
  /\ cut' = cut \cup Untold(S)
  /\ UNCHANGED <<table, begun, told, fires, raced>>

(* The commit of a check went through and raised all the same. *)
CommitUnacknowledged(t) ==
  /\ Strike
  /\ Writes(t)
  /\ cut' = cut \cup task[t].ids
  /\ End(t)
  /\ UNCHANGED <<once, expiry, begun, told, raced>>

IntentionsNext ==
  \/ \E i \in Ids :
       \/ \E single \in BOOLEAN, ttl \in {"never", "ahead", "past"} : Set(i, single, ttl)
       \/ Expire(i)
  \/ \E t \in Requests :
       \/ \E match \in SUBSET Ids : Check(t, match)
       \/ \E i \in Ids : Delete(t, i)
       \/ Commit(t) \/ Stale(t) \/ Publish(t) \/ Remove(t) \/ CommitUnacknowledged(t)
  \/ Cleanup
  \/ \E S \in SUBSET Requests : Abort(S)

IntentionsSpec == IntentionsInit /\ [][IntentionsNext]_intentionsVars

-----------------------------------------------------------------------------
(* Every variable stays within its range, and a request that has something  *)
(* to do knows for which intentions.                                        *)
IntentionsTypeOK ==
  /\ intention \in [Ids -> {"unset", "armed", "fired", "gone"}]
  /\ once \in [Ids -> BOOLEAN]
  /\ expiry \in [Ids -> {"never", "ahead", "past"}]
  /\ task \in [Requests -> [at : {"idle", "commit", "tell", "remove"}, ids : SUBSET Ids]]
  /\ \A t \in Requests : task[t].at # "idle" => task[t].ids # {}
  /\ begun \in 0 .. MaxRequests
  /\ told \in [Ids -> Nat]
  /\ fires \in [Ids -> Nat]
  /\ raced \subseteq Ids /\ cut \subseteq Ids
  /\ faults \in 0 .. MaxFaults

(* An intention fires at most once, whether it is deleted or kept, unless   *)
(* two checks had it before them at the same time.                          *)
FiresOnce == \A i \in Ids \ raced : fires[i] <= 1

Telling(i) == {t \in Requests : task[t].at = "tell" /\ i \in task[t].ids}

(* Every firing that a check committed is published once, and no other one: *)
(* neither a check that was rolled back because one of its matches had been *)
(* deleted nor one that lost the race tells of what it did not do.          *)
EventsMatchFires ==
  \A i \in Ids : LET events == told[i] + Cardinality(Telling(i)) IN
    /\ events <= fires[i]
    /\ i \notin cut => events = fires[i]

(* What the table shows as fired was told to clients or is about to be,     *)
(* unless its check ended between commit and event; and told once, unless   *)
(* two checks had it before them at the same time.                          *)
FiredIsTold ==
  \A i \in Ids \ cut : LET events == told[i] + Cardinality(Telling(i)) IN
    intention[i] = "fired" => events > 0 /\ (i \notin raced => events = 1)
=============================================================================
