------------------------------ MODULE Exchanges ------------------------------
(***************************************************************************)
(* Sessions and their messages (mypalace/session_service.py, mypalace/api/ *)
(* sessions.py), and what the assistant's messages set off: jobs that let  *)
(* a language model change the traits of the agent's personality           *)
(* (mypalace/personality_service.py).  A message is inserted in a          *)
(* transaction that holds a key-share lock on its session's row, which the *)
(* deletion of the session has to wait for.  The jobs' way through the     *)
(* queue is in JobQueue: here each may be run, and run again.              *)
(***************************************************************************)
EXTENDS Integers, Sequences, FiniteSets

CONSTANTS
  Sessions,   \* session ids
  Messages,   \* message ids
  Removals,   \* requests that delete a session
  Traits,     \* trait ids
  Runs,       \* runs of personality_evolve jobs
  NoSession,  \* no session
  MaxEdits    \* bound: what the traits' API does in one behaviour

ASSUME ExchangesAssumption ==
  /\ NoSession \notin Sessions
  /\ MaxEdits \in Nat

VARIABLES
  session,   \* absent, live or gone
  post,      \* none, inserted, committed, asking (of an assistant, before
             \* the look for the user's half), refused or gone
  place,     \* the session a message is for
  said,      \* its role
  order,     \* the messages by created_at
  removal,   \* where each deletion stands, of which session
  spent,     \* the messages it has deleted and not committed
  evolve,    \* the payloads enqueued: <<user's message, assistant's>>
  trait,     \* a row: absent, active or inactive
  run,       \* the traits a run has shown to the model; "off" before and after
  edits,     \* what the traits' API did so far
  before     \* auxiliary: what the user had said when a reply was inserted

conversation == <<session, post, place, said, order, removal, spent, before>>
personality == <<trait, run, edits>>
exchangeVars == <<conversation, evolve, personality>>

Off == [at |-> "off", shown |-> {}]

ExchangesInit ==
  /\ session = [s \in Sessions |-> "absent"]
  /\ post = [m \in Messages |-> "none"]
  /\ place = [m \in Messages |-> NoSession]
  /\ said = [m \in Messages |-> "user"]
  /\ order = <<>>
  /\ removal = [d \in Removals |-> [at |-> "none", of |-> NoSession]]
  /\ spent = [d \in Removals |-> {}]
  /\ evolve = {}
  /\ trait = [t \in Traits |-> "absent"]
  /\ run = [r \in Runs |-> Off]
  /\ edits = 0
  /\ before = [m \in Messages |-> {}]

Committed == {m \in Messages : post[m] \in {"committed", "asking"}}
Of(s) == {m \in Messages : place[m] = s}
UsersIn(s) == {m \in Committed \cap Of(s) : said[m] = "user"}
Index(m) == CHOOSE k \in DOMAIN order : order[k] = m

-----------------------------------------------------------------------------
(* Sessions.  (update changes a title or a summary.)                        *)

CreateSession(s) ==
  /\ session[s] = "absent"
  /\ session' = [session EXCEPT ![s] = "live"]
  /\ UNCHANGED <<post, place, said, order, removal, spent, before, evolve, personality>>

(* add_message: the select of the session flushes the insert.  A session    *)
(* that is not there fails the foreign key, and the request.                *)
InsertMessage(m, s, role) ==
  /\ post[m] = "none"
  /\ place' = [place EXCEPT ![m] = s]
  /\ said' = [said EXCEPT ![m] = role]
  /\ order' = Append(order, m)
  /\ before' = [before EXCEPT ![m] = UsersIn(s)]
  /\ post' = [post EXCEPT ![m] = IF session[s] = "live" THEN "inserted" ELSE "refused"]
  /\ UNCHANGED <<session, removal, spent, evolve, personality>>

CommitMessage(m) ==
  /\ post[m] = "inserted"
  /\ post' = [post EXCEPT ![m] = IF said[m] = "assistant" THEN "asking" ELSE "committed"]
  /\ UNCHANGED <<session, place, said, order, removal, spent, before, evolve, personality>>

(* The connection is lost before the commit. *)
AbandonMessage(m) ==
  /\ post[m] = "inserted"
  /\ post' = [post EXCEPT ![m] = "refused"]
  /\ UNCHANGED <<session, place, said, order, removal, spent, before, evolve, personality>>

(* ORDER BY created_at DESC LIMIT 1. *)
LatestOf(users) == {m \in users : \A n \in users : Index(n) <= Index(m)}

(* _maybe_trigger_personality_evolution: the user's latest message that is  *)
(* there now; then, by chance and if the queue takes it, a job.             *)
Ask(m) ==
  /\ post[m] = "asking"
  /\ post' = [post EXCEPT ![m] = "committed"]
  /\ \/ \E u \in LatestOf(UsersIn(place[m])) : evolve' = evolve \cup {<<u, m>>}
     \/ UNCHANGED evolve
  /\ UNCHANGED <<session, place, said, order, removal, spent, before, personality>>

(* delete: the session is looked up (404)...                                *)
BeginRemoval(d, s) ==
  /\ removal[d].at = "none"
  /\ session[s] = "live"
  /\ removal' = [removal EXCEPT ![d] = [at |-> "messages", of |-> s]]
  /\ UNCHANGED <<session, post, place, said, order, spent, before, evolve, personality>>

(* ... its messages are deleted, as far as they are committed; rows that    *)
(* another deletion has deleted are waited for...                           *)
RemoveMessages(d) ==
  LET s == removal[d].of IN
  /\ removal[d].at = "messages"
  /\ \A e \in Removals \ {d} : spent[e] \cap Of(s) = {}
  /\ spent' = [spent EXCEPT ![d] = Committed \cap Of(s)]
  /\ removal' = [removal EXCEPT ![d].at = "session"]
  /\ UNCHANGED <<session, post, place, said, order, before, evolve, personality>>

Spend(d, s) ==
  /\ session' = [session EXCEPT ![s] = "gone"]
  /\ post' = [m \in Messages |-> IF m \in spent[d] THEN "gone" ELSE post[m]]

(* A slip: no foreign key holds the session's row. *)
RemoveUnreferenced(d) ==
  LET s == removal[d].of IN
  /\ removal[d].at = "session"
  /\ Spend(d, s)
  /\ spent' = [spent EXCEPT ![d] = {}]
  /\ removal' = [removal EXCEPT ![d].at = "done"]
  /\ UNCHANGED <<place, said, order, before, evolve, personality>>

(* ... and then the session, when nobody holds its row.  Messages that came *)
(* in between fail the foreign key, and all is rolled back.                 *)
RemoveSession(d) ==
  LET s == removal[d].of IN
  /\ removal[d].at = "session"
  /\ \A m \in Of(s) : post[m] # "inserted"
  /\ IF session[s] = "live" /\ (Committed \cap Of(s)) \ spent[d] # {}
     THEN UNCHANGED <<session, post>>
     ELSE Spend(d, s)
  /\ spent' = [spent EXCEPT ![d] = {}]
  /\ removal' = [removal EXCEPT ![d].at = "done"]
  /\ UNCHANGED <<place, said, order, before, evolve, personality>>

-----------------------------------------------------------------------------
(* The agent's traits. *)

Active == {t \in Traits : trait[t] = "active"}

AddTrait(t) == trait[t] = "absent" /\ trait' = [trait EXCEPT ![t] = "active"]

(* Soft-delete; a second removal changes nothing.  (update changes the text *)
(* of a trait, active or not.)                                              *)
RemoveTrait(t) == trait[t] = "active" /\ trait' = [trait EXCEPT ![t] = "inactive"]

EditTrait(t) ==
  /\ edits < MaxEdits
  /\ edits' = edits + 1
  /\ AddTrait(t) \/ RemoveTrait(t)
  /\ UNCHANGED <<conversation, evolve, run>>

(* evaluate_and_apply: the active traits are shown to the model...          *)
Evaluate(r) ==
  /\ run[r].at = "off" /\ evolve # {}
  /\ run' = [run EXCEPT ![r] = [at |-> "model", shown |-> Active]]
  /\ UNCHANGED <<conversation, evolve, trait, edits>>

(* ... which decides; ids it makes up, answers that are not JSON and its    *)
(* failures change nothing.                                                 *)
Apply(r) ==
  /\ run[r].at = "model"
  /\ run' = [run EXCEPT ![r] = Off]
  /\ \/ \E t \in Traits : AddTrait(t)
     \/ \E t \in run[r].shown : RemoveTrait(t)
     \/ UNCHANGED trait
  /\ UNCHANGED <<conversation, evolve, edits>>

ExchangesNext ==
  \/ \E s \in Sessions :
       \/ CreateSession(s)
       \/ \E m \in Messages, role \in {"user", "assistant"} : InsertMessage(m, s, role)
       \/ \E d \in Removals : BeginRemoval(d, s)
  \/ \E m \in Messages : CommitMessage(m) \/ AbandonMessage(m) \/ Ask(m)
  \/ \E d \in Removals : RemoveMessages(d) \/ RemoveSession(d)
  \/ \E t \in Traits : EditTrait(t)
  \/ \E r \in Runs : Evaluate(r) \/ Apply(r)

ExchangesSpec == ExchangesInit /\ [][ExchangesNext]_exchangeVars

-----------------------------------------------------------------------------
(* Every variable stays within its range. *)
ExchangesTypeOK ==
  /\ session \in [Sessions -> {"absent", "live", "gone"}]
  /\ post \in [Messages -> {"none", "inserted", "committed", "asking", "refused", "gone"}]
  /\ place \in [Messages -> Sessions \cup {NoSession}]
  /\ said \in [Messages -> {"user", "assistant"}]
  /\ order \in Seq(Messages)
  /\ removal \in [Removals -> [at : {"none", "messages", "session", "done"},
                               of : Sessions \cup {NoSession}]]
  /\ spent \in [Removals -> SUBSET Messages]
  /\ evolve \subseteq Messages \X Messages
  /\ trait \in [Traits -> {"absent", "active", "inactive"}]
  /\ run \in [Runs -> [at : {"off", "model"}, shown : SUBSET Traits]]
  /\ edits \in 0 .. MaxEdits
  /\ before \in [Messages -> SUBSET Messages]

(* No message outlives its session, however messages and deletions overlap. *)
NoOrphans == \A m \in Committed : session[place[m]] = "live"

(* An evolution job quotes a reply and the user's message it answers: the   *)
(* last one of that session when the reply was inserted, or one that came   *)
(* while the reply was being stored.                                        *)
JobsQuoteTheExchange ==
  \A e \in evolve :
    /\ place[e[1]] = place[e[2]] /\ said[e[1]] = "user" /\ said[e[2]] = "assistant"
    /\ \A u \in before[e[2]] : Index(u) <= Index(e[1])

ExchangesHold == NoOrphans /\ JobsQuoteTheExchange
=============================================================================
