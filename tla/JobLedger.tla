----------------------------- MODULE JobLedger ------------------------------
(***************************************************************************)
(* What the job queue promises its callers, without rows, leases or        *)
(* clocks: a submitted job is taken up by one worker at a time, at most    *)
(* MaxAttempts times, and once it is settled it stays settled.             *)
(***************************************************************************)
EXTENDS Naturals

CONSTANTS Jobs, MaxAttempts

VARIABLES
  ticket,  \* absent, queued, taken, completed or failed
  tries    \* how often the job was taken

ledger == <<ticket, tries>>

Init ==
  /\ ticket = [j \in Jobs |-> "absent"]
  /\ tries = [j \in Jobs |-> 0]

Move(j, from, to) ==
  /\ ticket[j] = from
  /\ ticket' = [ticket EXCEPT ![j] = to]

(* A caller hands a job in. *)
Submit(j) == Move(j, "absent", "queued") /\ UNCHANGED tries

(* A worker takes up a job that nobody is working on. *)
Take(j) ==
  /\ tries[j] < MaxAttempts
  /\ Move(j, "queued", "taken")
  /\ tries' = [tries EXCEPT ![j] = @ + 1]

(* The worker gives up this attempt, or is gone. *)
Yield(j) == Move(j, "taken", "queued") /\ UNCHANGED tries

(* The job is settled, by the worker that has it. *)
Settle(j, outcome) == Move(j, "taken", outcome) /\ UNCHANGED tries

Next == \E j \in Jobs :
  Submit(j) \/ Take(j) \/ Yield(j) \/ Settle(j, "completed") \/ Settle(j, "failed")

Spec == Init /\ [][Next]_ledger
=============================================================================
