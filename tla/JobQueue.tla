------------------------------ MODULE JobQueue ------------------------------
(***************************************************************************)
(* The background job queue of MyPalace: rows of the table reflection_jobs, *)
(* the API process that inserts them, the worker processes that claim,     *)
(* run and settle them (mypalace/workers/queue.py, workers/runner.py), and *)
(* the executor that runs a row inside the API process instead             *)
(* (mypalace/job_service.py).                                              *)
(*                                                                         *)
(* Every action is one committed database statement or one step of a       *)
(* Python coroutine between two awaits.  Time is relative: left[j] is      *)
(* leased_until minus the present, lag[w] is the present minus the clock   *)
(* value a polling worker read before its claim statement ran.  A lease    *)
(* that ran out so long ago that every clock value in use lies after it is *)
(* the same as no lease (NULL); both are the value Free.                   *)
(***************************************************************************)
EXTENDS Integers, FiniteSets

CONSTANTS
  Workers,          \* worker processes (runner.py)
  Jobs,             \* rows that may ever be inserted
  InlineJobs,       \* the rows job_service.run_async inserts and executes itself
  UnregisteredJobs, \* the rows whose kind no worker has a handler for
  MaxAttempts,      \* settings.worker_max_attempts
  Lease,            \* settings.worker_lease_seconds, in ticks
  MaxLag,           \* bound: ticks a claim statement may wait after reading the clock
  Timely,           \* TRUE: no worker holds a job longer than its lease (see Tick)
  Faults,           \* the kinds of fault that may strike: "crash", "io", "ambiguous"
  MaxFaults         \* bound: how many of them strike in one behaviour

ASSUME JobQueueAssumption ==
  /\ Jobs # {} /\ IsFiniteSet(Jobs)
  /\ InlineJobs \subseteq Jobs
  /\ UnregisteredJobs \subseteq Jobs \ InlineJobs
  /\ MaxAttempts \in Nat \ {0}
  /\ Lease \in Nat \ {0}
  /\ MaxLag \in 0 .. Lease
  /\ Timely \in BOOLEAN
  /\ Faults \subseteq {"crash", "io", "ambiguous"}
  /\ MaxFaults \in Nat

VARIABLES
  status,    \* reflection_jobs.status, or "absent" before the insert
  attempts,  \* reflection_jobs.attempts
  left,      \* reflection_jobs.leased_until, relative to the present
  born,      \* reflection_jobs.created_at, as a rank
  exec,      \* what the API process does with the row: none, running, raised, over
  phase,     \* where process_one stands in each worker
  job,       \* the row a worker claimed last
  turn,      \* auxiliary: which attempt of that row the claim was (nothing reads it)
  final,     \* whether the worker takes a failure of this attempt as permanent
  lag,       \* age of the clock value a polling worker read
  faults     \* faults so far

rows == <<status, attempts, left, born>>
procs == <<phase, job, turn, final, lag>>
vars == <<rows, exec, procs, faults>>

Statuses == {"absent", "pending", "completed", "failed"}
Phases == {"idle", "polling", "claimed", "running", "failing", "down", "stopped"}
Free == -(MaxLag + 1)
AnyJob == CHOOSE j \in Jobs : TRUE    \* what job[w] is while w has no row
Terminal(j) == status[j] \in {"completed", "failed"}

(* A worker that has committed a claim and not yet settled or lost it. *)
Holds(w, j) == phase[w] \in {"claimed", "running", "failing"} /\ job[w] = j
Holder(w) == phase[w] \in {"claimed", "running", "failing"}
Held(j) == \E w \in Workers : Holds(w, j)

Strike(kind) ==
  /\ kind \in Faults
  /\ faults < MaxFaults
  /\ faults' = faults + 1

(* process_one returned, raised or died: its locals are gone. *)
Leave(w, p) ==
  /\ phase' = [phase EXCEPT ![w] = p]
  /\ job' = [job EXCEPT ![w] = AnyJob]
  /\ turn' = [turn EXCEPT ![w] = 0]
  /\ final' = [final EXCEPT ![w] = FALSE]
  /\ lag' = [lag EXCEPT ![w] = 0]

Init ==
  /\ status = [j \in Jobs |-> "absent"]
  /\ attempts = [j \in Jobs |-> 0]
  /\ left = [j \in Jobs |-> Free]
  /\ born = [j \in Jobs |-> 0]
  /\ exec = [j \in Jobs |-> "none"]
  /\ phase = [w \in Workers |-> "idle"]
  /\ job = [w \in Workers |-> AnyJob]
  /\ turn = [w \in Workers |-> 0]
  /\ final = [w \in Workers |-> FALSE]
  /\ lag = [w \in Workers |-> 0]
  /\ faults = 0

-----------------------------------------------------------------------------
(* The API process. *)

(* The number of rows inserted so far: created_at orders rows by insertion. *)
Inserted == Cardinality({j \in Jobs : status[j] # "absent"})

Insert(j) ==
  /\ status[j] = "absent"
  /\ status' = [status EXCEPT ![j] = "pending"]
  /\ born' = [born EXCEPT ![j] = Inserted + 1]
  /\ UNCHANGED <<attempts, left, procs, faults>>

(* enqueue: the row is committed pending, with its payload and no lease. *)
Enqueue(j) ==
  /\ j \notin InlineJobs
  /\ Insert(j)
  /\ UNCHANGED exec

(* run_async: the same row without a payload, then a task of the API process *)
(* that runs the coroutine.                                                  *)
RunAsync(j) ==
  /\ j \in InlineJobs
  /\ Insert(j)
  /\ exec' = [exec EXCEPT ![j] = "running"]

(* The coroutine returned and complete() committed: the lease stays. *)
InlineComplete(j) ==
  /\ exec[j] = "running"
  /\ status' = [status EXCEPT ![j] = "completed"]
  /\ exec' = [exec EXCEPT ![j] = "over"]
  /\ UNCHANGED <<attempts, left, born, procs, faults>>

(* The coroutine raised, or complete() did before its commit. *)
InlineRaise(j) ==
  /\ exec[j] = "running"
  /\ exec' = [exec EXCEPT ![j] = "raised"]
  /\ UNCHANGED <<rows, procs, faults>>

(* complete() committed and raised all the same: the acknowledgement was lost. *)
InlineCompleteUnacknowledged(j) ==
  /\ Strike("ambiguous")
  /\ exec[j] = "running"
  /\ status' = [status EXCEPT ![j] = "completed"]
  /\ exec' = [exec EXCEPT ![j] = "raised"]
  /\ UNCHANGED <<attempts, left, born, procs>>

InlineFail(j) ==
  /\ exec[j] = "raised"
  /\ status' = [status EXCEPT ![j] = "failed"]
  /\ exec' = [exec EXCEPT ![j] = "over"]
  /\ UNCHANGED <<attempts, left, born, procs, faults>>

(* fail() raises: nothing awaits the task, the row stays as it is. *)
InlineFailLost(j) ==
  /\ Strike("io")
  /\ exec[j] = "raised"
  /\ exec' = [exec EXCEPT ![j] = "over"]
  /\ UNCHANGED <<rows, procs>>

(* The API process dies: so do its tasks. *)
ApiCrash ==
  /\ Strike("crash")
  /\ \E j \in Jobs : exec[j] \in {"running", "raised"}
  /\ exec' = [j \in Jobs |->
                IF exec[j] \in {"running", "raised"} THEN "over" ELSE exec[j]]
  /\ UNCHANGED <<rows, procs>>

-----------------------------------------------------------------------------
(* A worker's loop. *)

(* claim_next begins: it reads the clock, then waits for a connection. *)
Poll(w) ==
  /\ phase[w] = "idle"
  /\ phase' = [phase EXCEPT ![w] = "polling"]
  /\ UNCHANGED <<rows, exec, job, turn, final, lag, faults>>

(* Slips in the WHERE clause: the attempts bound is missing, or off by one, *)
(* or the lease is not looked at.                                           *)
EligibleUnbounded(w) ==
  {j \in Jobs : status[j] = "pending" /\ left[j] < -lag[w] /\ attempts[j] <= MaxAttempts}

EligibleOneShort(w) ==
  {j \in Jobs : status[j] = "pending" /\ left[j] < -lag[w] /\ attempts[j] + 1 < MaxAttempts}

EligibleLeased(w) ==
  {j \in Jobs : status[j] = "pending" /\ attempts[j] < MaxAttempts}

(* The WHERE clause, with the clock value the worker read. *)
Eligible(w) ==
  {j \in Jobs : /\ status[j] = "pending"
                /\ left[j] < -lag[w]
                /\ attempts[j] < MaxAttempts}

(* A slip: the claim takes no lease. *)
ClaimRowUnleased(w, j) ==
  /\ attempts' = [attempts EXCEPT ![j] = @ + 1]
  /\ phase' = [phase EXCEPT ![w] = "claimed"]
  /\ job' = [job EXCEPT ![w] = j]
  /\ turn' = [turn EXCEPT ![w] = attempts[j] + 1]
  /\ lag' = [lag EXCEPT ![w] = 0]
  /\ UNCHANGED <<status, left, born, exec, final, faults>>

ClaimRow(w, j) ==
  /\ attempts' = [attempts EXCEPT ![j] = @ + 1]
  /\ left' = [left EXCEPT ![j] = Lease - lag[w]]
  /\ phase' = [phase EXCEPT ![w] = "claimed"]
  /\ job' = [job EXCEPT ![w] = j]
  /\ turn' = [turn EXCEPT ![w] = attempts[j] + 1]
  /\ lag' = [lag EXCEPT ![w] = 0]
  /\ UNCHANGED <<status, born, exec, final, faults>>

(* The single claim statement: the oldest eligible row gets one more attempt *)
(* and a lease that counts from the clock value, not from the commit.        *)
Claim(w) ==
  /\ phase[w] = "polling"
  /\ \E j \in Eligible(w) :
       /\ \A k \in Eligible(w) : born[j] <= born[k]
       /\ ClaimRow(w, j)

ClaimNothing(w) ==
  /\ phase[w] = "polling"
  /\ Eligible(w) = {}
  /\ Leave(w, "idle")
  /\ UNCHANGED <<rows, exec, faults>>

(* The row is read again in a second statement: attempts may have moved on. *)
(* Without a handler for its kind the job is to be failed for good.          *)
Load(w) ==
  /\ phase[w] = "claimed"
  /\ LET unknown == job[w] \in UnregisteredJobs IN
       /\ phase' = [phase EXCEPT ![w] = IF unknown THEN "failing" ELSE "running"]
       /\ final' = [final EXCEPT ![w] = unknown \/ attempts[job[w]] >= MaxAttempts]
  /\ UNCHANGED <<rows, exec, job, turn, lag, faults>>

(* The second statement raises: run() logs it, and the lease stays. *)
LoadLost(w) ==
  /\ Strike("io")
  /\ phase[w] = "claimed"
  /\ Leave(w, "idle")
  /\ UNCHANGED <<rows, exec>>

(* A slip: the lease of a completed row stays. *)
CompletedLeased(j) ==
  /\ status' = [status EXCEPT ![j] = "completed"]
  /\ UNCHANGED <<attempts, left, born>>

(* complete_job: status and lease, whoever holds the row now. *)
Completed(j) ==
  /\ status' = [status EXCEPT ![j] = "completed"]
  /\ left' = [left EXCEPT ![j] = Free]
  /\ UNCHANGED <<attempts, born>>

(* The handler returned.  It cannot on a row without payload. *)
Complete(w) ==
  /\ phase[w] = "running"
  /\ job[w] \notin InlineJobs
  /\ Completed(job[w])
  /\ Leave(w, "idle")
  /\ UNCHANGED <<exec, faults>>

(* complete_job committed and raised all the same. *)
CompleteUnacknowledged(w) ==
  /\ Strike("ambiguous")
  /\ phase[w] = "running"
  /\ job[w] \notin InlineJobs
  /\ Completed(job[w])
  /\ phase' = [phase EXCEPT ![w] = "failing"]
  /\ UNCHANGED <<exec, job, turn, final, lag>>

(* The handler raised, or complete_job did before its commit. *)
Raise(w) ==
  /\ phase[w] = "running"
  /\ phase' = [phase EXCEPT ![w] = "failing"]
  /\ UNCHANGED <<rows, exec, job, turn, final, lag, faults>>

(* Slips: every failure settles the row; a retry is written as pending; a   *)
(* retry gives the attempt back.                                            *)
FailAtOnce(w) ==
  /\ phase[w] = "failing"
  /\ status' = [status EXCEPT ![job[w]] = "failed"]
  /\ left' = [left EXCEPT ![job[w]] = Free]
  /\ Leave(w, "idle")
  /\ UNCHANGED <<attempts, born, exec, faults>>

FailToPending(w) ==
  /\ phase[w] = "failing"
  /\ status' = [status EXCEPT ![job[w]] = IF final[w] THEN "failed" ELSE "pending"]
  /\ left' = [left EXCEPT ![job[w]] = Free]
  /\ Leave(w, "idle")
  /\ UNCHANGED <<attempts, born, exec, faults>>

FailUncharged(w) ==
  /\ phase[w] = "failing"
  /\ status' = IF final[w] THEN [status EXCEPT ![job[w]] = "failed"] ELSE status
  /\ attempts' = IF final[w] THEN attempts ELSE [attempts EXCEPT ![job[w]] = @ - 1]
  /\ left' = [left EXCEPT ![job[w]] = Free]
  /\ Leave(w, "idle")
  /\ UNCHANGED <<born, exec, faults>>

(* fail_job: a permanent failure settles the row, any other only drops the *)
(* lease, whoever took it.                                                 *)
Fail(w) ==
  /\ phase[w] = "failing"
  /\ status' = IF final[w] THEN [status EXCEPT ![job[w]] = "failed"] ELSE status
  /\ left' = [left EXCEPT ![job[w]] = Free]
  /\ Leave(w, "idle")
  /\ UNCHANGED <<attempts, born, exec, faults>>

(* fail_job raises: run() logs it, and the lease stays. *)
FailLost(w) ==
  /\ Strike("io")
  /\ phase[w] = "failing"
  /\ Leave(w, "idle")
  /\ UNCHANGED <<rows, exec>>

(* The worker process is killed anywhere in its loop, and started again. *)
Crash(w) ==
  /\ Strike("crash")
  /\ phase[w] \notin {"down", "stopped"}
  /\ Leave(w, "down")
  /\ UNCHANGED <<rows, exec>>

Restart(w) ==
  /\ phase[w] = "down"
  /\ Leave(w, "idle")
  /\ UNCHANGED <<rows, exec, faults>>

(* SIGTERM only takes effect between two iterations of run(). Operators keep *)
(* one worker in service.                                                    *)
Stop(w) ==
  /\ phase[w] = "idle"
  /\ \E v \in Workers \ {w} : phase[v] # "stopped"
  /\ Leave(w, "stopped")
  /\ UNCHANGED <<rows, exec, faults>>

(* Time passes.  MaxLag bounds how long a claim statement waits.  Timely is *)
(* the assumption that a holder settles its row while its lease lasts.      *)
Tick ==
  /\ \A w \in Workers : phase[w] = "polling" => lag[w] < MaxLag
  /\ Timely => \A w \in Workers : Holder(w) => left[job[w]] > 0
  /\ left' = [j \in Jobs |-> IF left[j] > Free THEN left[j] - 1 ELSE Free]
  /\ lag' = [w \in Workers |-> IF phase[w] = "polling" THEN lag[w] + 1 ELSE lag[w]]
  /\ UNCHANGED <<status, attempts, born, exec, phase, job, turn, final, faults>>

-----------------------------------------------------------------------------
Api(j) ==
  \/ Enqueue(j) \/ RunAsync(j)
  \/ InlineComplete(j) \/ InlineRaise(j) \/ InlineFail(j)
  \/ InlineCompleteUnacknowledged(j) \/ InlineFailLost(j)

(* What a worker does of its own accord, and what befalls it. *)
Work(w) ==
  \/ Poll(w) \/ Claim(w) \/ ClaimNothing(w) \/ Load(w)
  \/ Complete(w) \/ Raise(w) \/ Fail(w) \/ Restart(w)

Befall(w) ==
  \/ LoadLost(w) \/ CompleteUnacknowledged(w) \/ FailLost(w)
  \/ Crash(w) \/ Stop(w)

Next ==
  \/ \E j \in Jobs : Api(j)
  \/ ApiCrash
  \/ \E w \in Workers : Work(w) \/ Befall(w)
  \/ Tick

Spec == Init /\ [][Next]_vars

(* A worker that is up keeps taking steps (its loop never ends and every     *)
(* await in it returns, handlers included), a killed one is restarted        *)
(* (restart: unless-stopped), and time passes.                               *)
FairSpec ==
  /\ Spec
  /\ \A w \in Workers : WF_vars(Work(w))
  /\ WF_vars(Tick)

-----------------------------------------------------------------------------
(* Every variable stays within its range: in particular attempts never      *)
(* passes worker_max_attempts, whoever claims when (queue.py:71).           *)
TypeOK ==
  /\ status \in [Jobs -> Statuses]
  /\ attempts \in [Jobs -> 0 .. MaxAttempts]
  /\ left \in [Jobs -> Free .. Lease]
  /\ born \in [Jobs -> Nat]
  /\ exec \in [Jobs -> {"none", "running", "raised", "over"}]
  /\ phase \in [Workers -> Phases]
  /\ job \in [Workers -> Jobs]
  /\ turn \in [Workers -> 0 .. MaxAttempts]
  /\ final \in [Workers -> BOOLEAN]
  /\ lag \in [Workers -> 0 .. MaxLag]
  /\ faults \in 0 .. MaxFaults

(* Workers that hold the same row hold it on different attempts, each one   *)
(* already charged to the row: however claims, expiries and crashes         *)
(* interleave, a row is processed at most worker_max_attempts times in all. *)
AttemptsAreCharged ==
  \A w \in Workers : Holder(w) =>
    /\ turn[w] \in 1 .. attempts[job[w]]
    /\ \A v \in Workers \ {w} : Holds(v, job[w]) => turn[v] # turn[w]

(* The last attempt knows that it is the last, though the row is read again *)
(* only after the claim committed: its failure is always permanent          *)
(* (runner.py:53-55), and no retryable row is left without attempts.        *)
LastAttemptIsFinal ==
  \A w \in Workers :
    phase[w] \in {"running", "failing"} /\ turn[w] = MaxAttempts => final[w]

(* A job is failed for good only when its attempts are used up or no worker *)
(* knows its kind (README.md:254); a slow worker's early failure is not     *)
(* enough.  Rows run in the API process fail with their coroutine.          *)
FailedOnlyWhenExhausted ==
  \A j \in Jobs \ (UnregisteredJobs \cup InlineJobs) :
    status[j] = "failed" => attempts[j] = MaxAttempts

(* A job runs out of chances when it has used up its attempts, neither      *)
(* earlier nor without knowing.                                             *)
FailureMeansExhausted == LastAttemptIsFinal /\ FailedOnlyWhenExhausted

(* A lease still running was taken by the row's latest claim, and that      *)
(* claim's worker is still at it: no path through process_one settles a row *)
(* and leaves its lease behind, or leaves the row and keeps the lease.      *)
LeaseMarksLatestClaim ==
  \A j \in Jobs : left[j] >= 0 /\ faults = 0 =>
    \E w \in Workers : Holds(w, j) /\ turn[w] = attempts[j]

(* Without faults no row is stranded: one that is pending with no attempts  *)
(* left is in the hands of the worker whose failure settles it.             *)
StrandedOnlyByFault ==
  \A j \in Jobs : status[j] = "pending" /\ attempts[j] = MaxAttempts /\ faults = 0 =>
    \E w \in Workers : Holds(w, j) /\ turn[w] = MaxAttempts

(* What the columns of a row say of its worker is true until a fault.       *)
RowsTellTheWorker == LeaseMarksLatestClaim /\ StrandedOnlyByFault

(* A settled row never goes back to pending, whatever a worker that lost    *)
(* its lease still writes to it: no job is run after it was settled.        *)
SettledNeverReopens ==
  [][\A j \in Jobs : Terminal(j) => Terminal(j)']_vars

(* One worker at a time processes a row, which docs/deployment.md:152-154   *)
(* expects of the claim statement alone.  It takes Timely: the claim        *)
(* excludes the holder only while its lease lasts.                          *)
OneWorkerPerJob ==
  \A v, w \in Workers : Holder(v) /\ Holder(w) /\ job[v] = job[w] => v = w

(* What a client once read from GET /v1/jobs/{id} as settled stays so.      *)
SettledIsFinal ==
  [][\A j \in Jobs : Terminal(j) => status'[j] = status[j]]_vars

(* The queue implements the ledger: a pending row is taken while a worker   *)
(* holds it and queued otherwise.                                           *)
Ticket(j) ==
  IF status[j] # "pending" THEN status[j] ELSE IF Held(j) THEN "taken" ELSE "queued"

Ledger == INSTANCE JobLedger
  WITH ticket <- [j \in Jobs |-> Ticket(j)], tries <- attempts

LedgerSpec == Ledger!Spec

(* Every inserted job is settled, or has used up its attempts with nobody   *)
(* left to settle it, which takes a fault on the last attempt: leases run   *)
(* out, killed workers' rows are taken up again, no row starves behind      *)
(* others.                                                                  *)
EveryJobSettles ==
  \A j \in Jobs : status[j] = "pending"
    ~> (Terminal(j) \/ (attempts[j] = MaxAttempts /\ ~Held(j)))

(* What api/episodes.py:54-56 says of a row run in the API process: the     *)
(* executor differs, so while it runs there no worker runs it too.          *)
InlineRunsAlone ==
  \A j \in Jobs : exec[j] \in {"running", "raised"} => ~Held(j)
=============================================================================
