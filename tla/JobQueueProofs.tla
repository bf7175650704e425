--------------------------- MODULE JobQueueProofs ---------------------------
(***************************************************************************)
(* Proofs about JobQueue for every number of workers and rows, every lease, *)
(* lag and attempts bound, and every pattern of faults.                    *)
(***************************************************************************)
EXTENDS JobQueue, FiniteSetTheorems, TLAPS

-----------------------------------------------------------------------------
(* Facts about the constants and the shared operators. *)

LEMMA FreeIsNegative == Free \in Int /\ Free < 0 /\ Free < Lease /\ Lease \in Nat /\ MaxLag \in Nat
BY JobQueueAssumption DEF Free

LEMMA AnyJobIsAJob == AnyJob \in Jobs
BY JobQueueAssumption DEF AnyJob

(* created_at ranks are natural numbers. *)
LEMMA InsertedType == Inserted \in Nat
<1>1. {j \in Jobs : status[j] # "absent"} \subseteq Jobs
  OBVIOUS
<1>2. IsFiniteSet({j \in Jobs : status[j] # "absent"})
  BY <1>1, JobQueueAssumption, FS_Subset
<1> QED
  BY <1>2, FS_CardinalityType DEF Inserted

-----------------------------------------------------------------------------
(* Type correctness. *)

LEMMA InitType == Init => TypeOK
BY JobQueueAssumption, FreeIsNegative, AnyJobIsAJob
   DEF Init, TypeOK, Statuses, Phases

LEMMA ApiType == ASSUME TypeOK, NEW j \in Jobs, Api(j) PROVE TypeOK'
<1> USE DEF TypeOK, rows, procs
<1>1. CASE Enqueue(j)
  BY <1>1, InsertedType DEF Enqueue, Insert, Statuses
<1>2. CASE RunAsync(j)
  BY <1>2, InsertedType DEF RunAsync, Insert, Statuses
<1>3. CASE InlineComplete(j)
  BY <1>3 DEF InlineComplete, Statuses
<1>4. CASE InlineRaise(j)
  BY <1>4 DEF InlineRaise
<1>5. CASE InlineFail(j)
  BY <1>5 DEF InlineFail, Statuses
<1>6. CASE InlineCompleteUnacknowledged(j)
  BY <1>6, JobQueueAssumption DEF InlineCompleteUnacknowledged, Strike, Statuses
<1>7. CASE InlineFailLost(j)
  BY <1>7, JobQueueAssumption DEF InlineFailLost, Strike
<1> QED
  BY <1>1, <1>2, <1>3, <1>4, <1>5, <1>6, <1>7 DEF Api

LEMMA WorkType == ASSUME TypeOK, NEW w \in Workers, Work(w) PROVE TypeOK'
<1> USE JobQueueAssumption, FreeIsNegative, AnyJobIsAJob DEF TypeOK, rows, Leave
<1>1. CASE Poll(w)
  BY <1>1 DEF Poll, Phases
<1>2. CASE Claim(w)
  <2>1. PICK j \in Eligible(w) : ClaimRow(w, j)
    BY <1>2 DEF Claim
  <2>2. j \in Jobs /\ attempts[j] + 1 \in 1 .. MaxAttempts
    BY <2>1 DEF Eligible
  <2>3. Lease - lag[w] \in Free .. Lease
    BY DEF Free
  <2> QED
    BY <2>1, <2>2, <2>3 DEF ClaimRow, Phases
<1>3. CASE ClaimNothing(w)
  BY <1>3 DEF ClaimNothing, Phases
<1>4. CASE Load(w)
  BY <1>4 DEF Load, Phases
<1>5. CASE Complete(w)
  BY <1>5 DEF Complete, Completed, Phases, Statuses
<1>6. CASE Raise(w)
  BY <1>6 DEF Raise, Phases
<1>7. CASE Fail(w)
  BY <1>7 DEF Fail, Phases, Statuses
<1>8. CASE Restart(w)
  BY <1>8 DEF Restart, Phases
<1> QED
  BY <1>1, <1>2, <1>3, <1>4, <1>5, <1>6, <1>7, <1>8 DEF Work

LEMMA BefallType == ASSUME TypeOK, NEW w \in Workers, Befall(w) PROVE TypeOK'
<1> USE JobQueueAssumption, FreeIsNegative, AnyJobIsAJob DEF TypeOK, rows, Leave, Strike, Phases
<1>1. CASE LoadLost(w)
  BY <1>1 DEF LoadLost
<1>2. CASE CompleteUnacknowledged(w)
  BY <1>2 DEF CompleteUnacknowledged, Completed, Statuses
<1>3. CASE FailLost(w)
  BY <1>3 DEF FailLost
<1>4. CASE Crash(w)
  BY <1>4 DEF Crash
<1>5. CASE Stop(w)
  BY <1>5 DEF Stop
<1> QED
  BY <1>1, <1>2, <1>3, <1>4, <1>5 DEF Befall

LEMMA TickType == ASSUME TypeOK, Tick PROVE TypeOK'
<1> USE JobQueueAssumption, FreeIsNegative DEF TypeOK, Tick
<1>1. left' \in [Jobs -> Free .. Lease]
  OBVIOUS
<1>2. lag' \in [Workers -> 0 .. MaxLag]
  OBVIOUS
<1> QED
  BY <1>1, <1>2

LEMMA NextType == TypeOK /\ [Next]_vars => TypeOK'
<1> SUFFICES ASSUME TypeOK, [Next]_vars PROVE TypeOK'
  OBVIOUS
<1>1. CASE ApiCrash
  BY <1>1, JobQueueAssumption DEF ApiCrash, Strike, TypeOK, rows, procs
<1>2. CASE UNCHANGED vars
  BY <1>2 DEF vars, rows, procs, TypeOK
<1> QED
  BY <1>1, <1>2, ApiType, WorkType, BefallType, TickType DEF Next

(* Every reachable state of the queue is well typed: attempts stay within   *)
(* worker_max_attempts and every lease within worker_lease_seconds.         *)
THEOREM TypeCorrect == Spec => []TypeOK
BY InitType, NextType, PTL DEF Spec

-----------------------------------------------------------------------------
(***************************************************************************)
(* The safety invariants.  They are not inductive one by one: Bookkeeping  *)
(* adds what ties a worker's locals to the row it claimed.                 *)
(***************************************************************************)
Bookkeeping ==
  /\ \A j \in Jobs : status[j] = "absent" => attempts[j] = 0
  /\ \A j \in Jobs : exec[j] # "none" => j \in InlineJobs
  /\ \A w \in Workers : phase[w] \in {"running", "failing"} /\ final[w] =>
       job[w] \in UnregisteredJobs \/ attempts[job[w]] = MaxAttempts

IInv ==
  /\ TypeOK
  /\ Bookkeeping
  /\ AttemptsAreCharged
  /\ LastAttemptIsFinal
  /\ FailedOnlyWhenExhausted
  /\ LeaseMarksLatestClaim
  /\ StrandedOnlyByFault

LEMMA InitIInv == Init => IInv
<1> SUFFICES ASSUME Init PROVE IInv
  OBVIOUS
<1>1. TypeOK
  BY InitType
<1> QED
  BY <1>1, JobQueueAssumption, FreeIsNegative
     DEF Init, IInv, Bookkeeping, AttemptsAreCharged, LastAttemptIsFinal, Holder, Holds,
         FailedOnlyWhenExhausted, LeaseMarksLatestClaim, StrandedOnlyByFault

(* What the API process does touches no worker, no lease and no attempt.    *)
LEMMA ApiFrame ==
  ASSUME TypeOK, NEW j \in Jobs, Api(j)
  PROVE  /\ UNCHANGED <<attempts, left, procs>>
         /\ \A k \in Jobs \ {j} : status'[k] = status[k] /\ exec'[k] = exec[k]
         /\ faults' \in Nat /\ (faults' = faults \/ faults' = faults + 1)
BY JobQueueAssumption
   DEF Api, Enqueue, RunAsync, Insert, InlineComplete, InlineRaise, InlineFail,
       InlineCompleteUnacknowledged, InlineFailLost, Strike, rows, procs, TypeOK

(* How it changes the row it is about. *)
LEMMA ApiRow ==
  ASSUME TypeOK, Bookkeeping, NEW j \in Jobs, Api(j)
  PROVE  \/ status[j] = "absent" /\ status'[j] = "pending" /\ (exec'[j] # "none" => j \in InlineJobs)
         \/ j \in InlineJobs /\ status'[j] \in {status[j], "completed", "failed"}
BY DEF Api, Enqueue, RunAsync, Insert, InlineComplete, InlineRaise, InlineFail,
       InlineCompleteUnacknowledged, InlineFailLost, rows, TypeOK, Bookkeeping

LEMMA ApiIInv == ASSUME IInv, NEW j \in Jobs, Api(j) PROVE IInv'
<1> USE DEF IInv
<1>1. TypeOK'
  BY ApiType
<1>2. Bookkeeping'
  <2>1. \A k \in Jobs : status'[k] = "absent" => attempts'[k] = 0
    BY ApiFrame, ApiRow DEF Bookkeeping, TypeOK
  <2>2. \A k \in Jobs : exec'[k] # "none" => k \in InlineJobs
    BY ApiFrame, ApiRow DEF Bookkeeping, TypeOK
  <2> QED
    BY <2>1, <2>2, ApiFrame DEF Bookkeeping, procs
<1>3. AttemptsAreCharged' /\ LastAttemptIsFinal'
  BY ApiFrame DEF AttemptsAreCharged, LastAttemptIsFinal, Holder, Holds, procs
<1>4. FailedOnlyWhenExhausted'
  BY ApiFrame, ApiRow DEF FailedOnlyWhenExhausted
<1>5. LeaseMarksLatestClaim'
  BY ApiFrame DEF LeaseMarksLatestClaim, Holds, procs, TypeOK
<1>6. StrandedOnlyByFault'
  <2> SUFFICES ASSUME NEW k \in Jobs, status'[k] = "pending", attempts'[k] = MaxAttempts,
                      faults' = 0
               PROVE  \E w \in Workers : Holds(w, k)' /\ turn'[w] = MaxAttempts
    BY DEF StrandedOnlyByFault
  <2>1. attempts[k] = MaxAttempts /\ faults = 0
    BY ApiFrame DEF TypeOK
  <2>2. status[k] = "pending"
    BY <2>1, ApiFrame, ApiRow, JobQueueAssumption DEF Bookkeeping, TypeOK
  <2> QED
    BY <2>1, <2>2, ApiFrame DEF StrandedOnlyByFault, Holds, procs
<1> QED
  BY <1>1, <1>2, <1>3, <1>4, <1>5, <1>6

(* A step of worker w leaves every other worker's locals alone. *)
OthersStay(w) ==
  \A v \in Workers \ {w} :
    phase'[v] = phase[v] /\ job'[v] = job[v] /\ turn'[v] = turn[v] /\ final'[v] = final[v]

LEMMA WorkerFrame ==
  ASSUME TypeOK, NEW w \in Workers, Work(w) \/ Befall(w)
  PROVE  /\ OthersStay(w)
         /\ UNCHANGED <<exec, born>>
         /\ faults' \in Nat /\ (faults' = faults \/ faults' = faults + 1)
<1> USE DEF OthersStay, TypeOK, rows, Leave
<1>1. CASE Work(w)
  BY <1>1, JobQueueAssumption
     DEF Work, Poll, Claim, ClaimRow, ClaimNothing, Load, Complete, Completed, Raise, Fail, Restart
<1>2. CASE Befall(w)
  BY <1>2, JobQueueAssumption
     DEF Befall, LoadLost, CompleteUnacknowledged, Completed, FailLost, Crash, Stop, Strike
<1> QED
  BY <1>1, <1>2

(* A worker that lets go of its row without writing to it. *)
LEMMA LetGo ==
  ASSUME IInv, TypeOK', NEW w \in Workers, OthersStay(w), UNCHANGED rows, UNCHANGED exec,
         ~Holder(w)', faults' \in Nat, faults' >= faults, Holder(w) => faults' > 0
  PROVE  IInv'
<1> USE DEF IInv, OthersStay, rows
<1>1. Bookkeeping'
  BY DEF Bookkeeping, Holder
<1>2. AttemptsAreCharged'
  BY DEF AttemptsAreCharged, Holder, Holds
<1>3. LastAttemptIsFinal' /\ FailedOnlyWhenExhausted'
  BY DEF LastAttemptIsFinal, FailedOnlyWhenExhausted, Holder
<1>4. LeaseMarksLatestClaim'
  BY DEF LeaseMarksLatestClaim, Holder, Holds, TypeOK
<1>5. StrandedOnlyByFault'
  BY DEF StrandedOnlyByFault, Holder, Holds, TypeOK
<1> QED
  BY <1>1, <1>2, <1>3, <1>4, <1>5

(* A worker that goes on with its row without writing to it. *)
LEMMA GoOn ==
  ASSUME IInv, TypeOK', NEW w \in Workers, OthersStay(w), UNCHANGED rows, UNCHANGED exec,
         Holder(w), Holder(w)', job'[w] = job[w], turn'[w] = turn[w],
         faults' = faults, Bookkeeping', LastAttemptIsFinal'
  PROVE  IInv'
<1> USE DEF IInv, OthersStay, rows
<1>1. AttemptsAreCharged'
  BY DEF AttemptsAreCharged, Holder, Holds
<1>2. FailedOnlyWhenExhausted'
  BY DEF FailedOnlyWhenExhausted
<1>3. LeaseMarksLatestClaim'
  BY DEF LeaseMarksLatestClaim, Holder, Holds
<1>4. StrandedOnlyByFault'
  BY DEF StrandedOnlyByFault, Holder, Holds
<1> QED
  BY <1>1, <1>2, <1>3, <1>4

(* A claim charges an attempt that nobody holds yet. *)
LEMMA ClaimIInv == ASSUME IInv, NEW w \in Workers, Claim(w) PROVE IInv'
<1> USE DEF IInv
<1>1. PICK j \in Eligible(w) : ClaimRow(w, j)
  BY DEF Claim
<1>2. phase[w] = "polling" /\ j \in Jobs /\ status[j] = "pending" /\ attempts[j] < MaxAttempts
  BY <1>1 DEF Claim, Eligible
<1>3. TypeOK' /\ OthersStay(w)
  BY WorkType, WorkerFrame DEF Work
<1>4. /\ phase'[w] = "claimed" /\ job'[w] = j /\ turn'[w] = attempts[j] + 1
      /\ attempts' = [attempts EXCEPT ![j] = attempts[j] + 1]
      /\ \A k \in Jobs \ {j} : attempts'[k] = attempts[k] /\ left'[k] = left[k]
      /\ attempts'[j] = attempts[j] + 1 /\ attempts[j] \in Nat
      /\ UNCHANGED <<status, exec, faults>>
  BY <1>1, <1>2 DEF ClaimRow, TypeOK
<1>5. Bookkeeping'
  BY <1>2, <1>3, <1>4 DEF Bookkeeping, OthersStay, TypeOK
<1>6. AttemptsAreCharged'
  <2>1. ASSUME NEW v \in Workers, Holder(v)' PROVE turn'[v] \in 1 .. attempts'[job'[v]]
    <3>1. CASE v = w
      BY <3>1, <1>4
    <3>2. CASE v # w
      <4>1. Holder(v) /\ turn'[v] = turn[v] /\ job'[v] = job[v]
        BY <2>1, <3>2, <1>3 DEF OthersStay, Holder
      <4>2. turn[v] \in 1 .. attempts[job[v]] /\ job[v] \in Jobs
        BY <4>1 DEF AttemptsAreCharged, TypeOK
      <4>3. attempts[job[v]] <= attempts'[job[v]] /\ attempts[job[v]] \in Nat /\ attempts'[job[v]] \in Nat
        BY <4>2, <1>4 DEF TypeOK
      <4> QED
        BY <4>1, <4>2, <4>3
    <3> QED
      BY <3>1, <3>2
  <2>2. ASSUME NEW v \in Workers, NEW u \in Workers \ {v}, Holder(v)', Holds(u, job[v])'
        PROVE  turn'[u] # turn'[v]
    <3>1. ASSUME NEW x \in Workers \ {w}, Holder(x)', job'[x] = j
          PROVE  turn'[x] # attempts[j] + 1
      BY <3>1, <1>3, <1>4 DEF AttemptsAreCharged, OthersStay, Holder
    <3>2. CASE v = w
      BY <2>2, <3>2, <3>1, <1>4 DEF Holder, Holds
    <3>3. CASE u = w
      BY <2>2, <3>3, <3>1, <1>4 DEF Holder, Holds
    <3>4. CASE v # w /\ u # w
      BY <2>2, <3>4, <1>3 DEF AttemptsAreCharged, OthersStay, Holder, Holds
    <3> QED
      BY <3>2, <3>3, <3>4
  <2> QED
    BY <2>1, <2>2 DEF AttemptsAreCharged, Holds
<1>7. LastAttemptIsFinal'
  BY <1>3, <1>4 DEF LastAttemptIsFinal, OthersStay
<1>8. FailedOnlyWhenExhausted'
  BY <1>2, <1>4 DEF FailedOnlyWhenExhausted
<1>9. LeaseMarksLatestClaim'
  <2> SUFFICES ASSUME NEW k \in Jobs, left'[k] >= 0, faults' = 0
               PROVE  \E v \in Workers : Holds(v, k)' /\ turn'[v] = attempts'[k]
    BY DEF LeaseMarksLatestClaim
  <2>1. CASE k = j
    BY <2>1, <1>4 DEF Holds
  <2>2. CASE k # j
    BY <2>2, <1>2, <1>3, <1>4 DEF LeaseMarksLatestClaim, Holds, OthersStay
  <2> QED
    BY <2>1, <2>2
<1>10. StrandedOnlyByFault'
  <2> SUFFICES ASSUME NEW k \in Jobs, status'[k] = "pending", attempts'[k] = MaxAttempts, faults' = 0
               PROVE  \E v \in Workers : Holds(v, k)' /\ turn'[v] = MaxAttempts
    BY DEF StrandedOnlyByFault
  <2>1. CASE k = j
    BY <2>1, <1>4 DEF Holds
  <2>2. CASE k # j
    BY <2>2, <1>2, <1>3, <1>4 DEF StrandedOnlyByFault, Holds, OthersStay
  <2> QED
    BY <2>1, <2>2
<1> QED
  BY <1>3, <1>5, <1>6, <1>7, <1>8, <1>9, <1>10

LEMMA LoadIInv == ASSUME IInv, NEW w \in Workers, Load(w) PROVE IInv'
<1> USE DEF IInv
<1>1. TypeOK' /\ OthersStay(w) /\ UNCHANGED exec
  BY WorkType, WorkerFrame DEF Work
<1>2. /\ phase[w] = "claimed" /\ phase'[w] \in {"running", "failing"}
      /\ final'[w] <=> (job[w] \in UnregisteredJobs \/ attempts[job[w]] >= MaxAttempts)
      /\ UNCHANGED <<rows, job, turn, faults>>
  BY DEF Load, TypeOK
<1>3. job[w] \in Jobs /\ attempts[job[w]] \in 0 .. MaxAttempts /\ MaxAttempts \in Nat
  BY JobQueueAssumption DEF TypeOK
<1>4. Bookkeeping'
  <2>1. final'[w] => job[w] \in UnregisteredJobs \/ attempts[job[w]] = MaxAttempts
    BY <1>2, <1>3
  <2>2. UNCHANGED <<status, attempts, exec, job>>
    BY <1>1, <1>2 DEF rows
  <2> QED
    BY <1>1, <2>1, <2>2 DEF Bookkeeping, OthersStay
<1>5. turn[w] <= attempts[job[w]] /\ turn[w] \in Nat
  BY <1>2, <1>3 DEF AttemptsAreCharged, Holder
<1>6. LastAttemptIsFinal'
  BY <1>1, <1>2, <1>3, <1>5 DEF LastAttemptIsFinal, OthersStay
<1>7. Holder(w) /\ Holder(w)'
  BY <1>2 DEF Holder
<1> QED
  BY <1>1, <1>2, <1>4, <1>6, <1>7, GoOn

LEMMA RaiseIInv == ASSUME IInv, NEW w \in Workers, Raise(w) PROVE IInv'
<1> USE DEF IInv
<1>1. TypeOK' /\ OthersStay(w) /\ UNCHANGED exec
  BY WorkType, WorkerFrame DEF Work
<1>2. /\ phase[w] = "running" /\ phase'[w] = "failing"
      /\ UNCHANGED <<rows, job, turn, final, faults>>
  BY DEF Raise, TypeOK
<1>3. Bookkeeping' /\ LastAttemptIsFinal'
  BY <1>1, <1>2 DEF Bookkeeping, LastAttemptIsFinal, OthersStay, rows
<1> QED
  BY <1>1, <1>2, <1>3, GoOn DEF Holder

(* What settling or releasing a row writes: never attempts, never a lease,  *)
(* and "failed" only when the attempts are used up.                         *)
LEMMA WriteRow ==
  ASSUME IInv, TypeOK', NEW w \in Workers, OthersStay(w), UNCHANGED <<exec, attempts>>,
         Holder(w), NEW s \in Statuses \ {"absent"},
         status' = [status EXCEPT ![job[w]] = s], left' = [left EXCEPT ![job[w]] = Free],
         s = "failed" => \/ job[w] \in UnregisteredJobs \cup InlineJobs
                         \/ attempts[job[w]] = MaxAttempts
                         \/ status[job[w]] = "failed",
         s = "pending" => turn[w] # MaxAttempts /\ status[job[w]] = "pending",
         faults' \in Nat, faults' = faults \/ faults' = faults + 1,
         ~Holder(w)' \/ (/\ s = "completed" /\ faults' > 0 /\ phase'[w] = "failing"
                         /\ phase[w] = "running" /\ job'[w] = job[w]
                         /\ turn'[w] = turn[w] /\ final'[w] = final[w])
  PROVE  IInv'
<1> USE FreeIsNegative DEF IInv, OthersStay
<1>0. job[w] \in Jobs /\ status'[job[w]] = s /\ left'[job[w]] = Free
      /\ (\A k \in Jobs \ {job[w]} : status'[k] = status[k] /\ left'[k] = left[k])
  BY DEF TypeOK
<1>1. Bookkeeping'
  BY <1>0 DEF Bookkeeping, Holder
<1>2. AttemptsAreCharged'
  BY DEF AttemptsAreCharged, Holder, Holds
<1>3. LastAttemptIsFinal'
  BY DEF LastAttemptIsFinal, Holder
<1>4. FailedOnlyWhenExhausted'
  BY <1>0 DEF FailedOnlyWhenExhausted
<1>5. LeaseMarksLatestClaim'
  <2> SUFFICES ASSUME NEW k \in Jobs, left'[k] >= 0, faults' = 0
               PROVE  \E v \in Workers : Holds(v, k)' /\ turn'[v] = attempts'[k]
    BY DEF LeaseMarksLatestClaim
  <2>1. k # job[w] /\ left[k] >= 0 /\ faults = 0
    BY <1>0 DEF TypeOK
  <2>2. PICK v \in Workers : Holds(v, k) /\ turn[v] = attempts[k]
    BY <2>1 DEF LeaseMarksLatestClaim
  <2> QED
    BY <2>1, <2>2 DEF Holds
<1>6. StrandedOnlyByFault'
  <2> SUFFICES ASSUME NEW k \in Jobs, status'[k] = "pending", attempts'[k] = MaxAttempts, faults' = 0
               PROVE  \E v \in Workers : Holds(v, k)' /\ turn'[v] = MaxAttempts
    BY DEF StrandedOnlyByFault
  <2>1. faults = 0 /\ status[k] = "pending" /\ attempts[k] = MaxAttempts
    BY <1>0 DEF TypeOK
  <2>2. PICK v \in Workers : Holds(v, k) /\ turn[v] = MaxAttempts
    BY <2>1 DEF StrandedOnlyByFault
  <2>3. v # w
    BY <1>0, <2>2 DEF Holds
  <2> QED
    BY <2>2, <2>3 DEF Holds
<1> QED
  BY <1>1, <1>2, <1>3, <1>4, <1>5, <1>6

LEMMA CompleteIInv ==
  ASSUME IInv, NEW w \in Workers, Complete(w) \/ CompleteUnacknowledged(w) PROVE IInv'
<1> USE JobQueueAssumption DEF IInv
<1>1. TypeOK' /\ OthersStay(w) /\ UNCHANGED exec
  BY WorkType, BefallType, WorkerFrame DEF Work, Befall
<1>2. Holder(w) /\ UNCHANGED attempts /\ job[w] \in Jobs
      /\ status' = [status EXCEPT ![job[w]] = "completed"]
      /\ left' = [left EXCEPT ![job[w]] = Free]
  BY DEF Complete, CompleteUnacknowledged, Completed, Holder, TypeOK
<1>0. "completed" \in Statuses \ {"absent"} /\ faults \in Nat
  BY DEF Statuses, TypeOK
<1>3. CASE Complete(w)
  <2>1. ~Holder(w)' /\ faults' = faults
    BY <1>3 DEF Complete, Leave, Holder, TypeOK
  <2> QED
    BY <1>0, <1>1, <1>2, <2>1, WriteRow
<1>4. CASE CompleteUnacknowledged(w)
  <2>1. /\ faults' = faults + 1 /\ phase'[w] = "failing" /\ phase[w] = "running"
        /\ UNCHANGED <<job, turn, final>>
    BY <1>4 DEF CompleteUnacknowledged, Strike, TypeOK
  <2>2. faults' \in Nat /\ faults' > 0
    BY <1>0, <2>1
  <2> QED
    BY <1>0, <1>1, <1>2, <2>1, <2>2, WriteRow
<1> QED
  BY <1>3, <1>4

(* A permanent failure comes from the last attempt or an unknown kind, any  *)
(* other one from an earlier attempt.                                       *)
LEMMA FailIInv == ASSUME IInv, NEW w \in Workers, Fail(w) PROVE IInv'
<1> USE JobQueueAssumption DEF IInv
<1>1. TypeOK' /\ OthersStay(w) /\ UNCHANGED <<exec, attempts>> /\ faults' = faults /\ faults \in Nat
  BY WorkType, WorkerFrame DEF Work, Fail, TypeOK
<1>2. Holder(w) /\ ~Holder(w)' /\ phase[w] = "failing"
      /\ left' = [left EXCEPT ![job[w]] = Free]
  BY DEF Fail, Leave, Holder, TypeOK
<1>3. CASE final[w]
  <2>1. status' = [status EXCEPT ![job[w]] = "failed"]
    BY <1>3 DEF Fail
  <2>2. job[w] \in UnregisteredJobs \/ attempts[job[w]] = MaxAttempts
    BY <1>2, <1>3 DEF Bookkeeping
  <2> QED
    BY <1>1, <1>2, <2>1, <2>2, WriteRow DEF Statuses
<1>4. CASE ~final[w]
  <2>1. status' = [status EXCEPT ![job[w]] = status[job[w]]] /\ job[w] \in Jobs
    BY <1>4 DEF Fail, TypeOK
  <2>2. turn[w] # MaxAttempts
    BY <1>2, <1>4 DEF LastAttemptIsFinal
  <2>3. status[job[w]] \in Statuses \ {"absent"}
    <3>1. turn[w] \in 1 .. attempts[job[w]] /\ attempts[job[w]] \in Nat
      BY <1>2, <2>1 DEF AttemptsAreCharged, TypeOK
    <3> QED
      BY <3>1, <2>1 DEF Bookkeeping, TypeOK
  <2> QED
    BY <1>1, <1>2, <2>1, <2>2, <2>3, WriteRow
<1> QED
  BY <1>3, <1>4

LEMMA StepAsideIInv ==
  ASSUME IInv, NEW w \in Workers,
         \/ Poll(w) \/ ClaimNothing(w) \/ Restart(w) \/ Stop(w)
         \/ LoadLost(w) \/ FailLost(w) \/ Crash(w)
  PROVE  IInv'
<1> USE JobQueueAssumption DEF IInv
<1>1. TypeOK' /\ OthersStay(w) /\ UNCHANGED exec
  BY WorkType, BefallType, WorkerFrame DEF Work, Befall
<1>2. UNCHANGED rows /\ ~Holder(w)' /\ faults' \in Nat /\ faults' >= faults
      /\ (Holder(w) => faults' > 0)
  BY DEF Poll, ClaimNothing, Restart, Stop, LoadLost, FailLost, Crash, Leave, Strike,
         Holder, TypeOK
<1> QED
  BY <1>1, <1>2, LetGo

LEMMA TickIInv == ASSUME IInv, Tick PROVE IInv'
<1> USE DEF IInv
<1>1. TypeOK'
  BY TickType
<1>2. UNCHANGED <<status, attempts, exec, phase, job, turn, final, faults>>
      /\ \A j \in Jobs : left'[j] >= 0 => left[j] >= 0
  BY FreeIsNegative DEF Tick, TypeOK
<1>3. Bookkeeping' /\ AttemptsAreCharged' /\ LastAttemptIsFinal' /\ FailedOnlyWhenExhausted'
      /\ StrandedOnlyByFault'
  BY <1>2 DEF Bookkeeping, AttemptsAreCharged, LastAttemptIsFinal, FailedOnlyWhenExhausted,
     StrandedOnlyByFault, Holder, Holds
<1>4. LeaseMarksLatestClaim'
  BY <1>2 DEF LeaseMarksLatestClaim, Holds
<1> QED
  BY <1>1, <1>3, <1>4

LEMMA ApiCrashIInv == ASSUME IInv, ApiCrash PROVE IInv'
<1> USE DEF IInv
<1>1. TypeOK'
  BY NextType DEF Next
<1>2. UNCHANGED <<rows, procs>> /\ faults' > 0 /\ faults' \in Nat
      /\ \A j \in Jobs : exec'[j] # "none" => exec[j] # "none"
  BY JobQueueAssumption DEF ApiCrash, Strike, TypeOK
<1> QED
  BY <1>1, <1>2
     DEF rows, procs, Bookkeeping, AttemptsAreCharged, LastAttemptIsFinal,
         FailedOnlyWhenExhausted, LeaseMarksLatestClaim, StrandedOnlyByFault, Holder, Holds

LEMMA NextIInv == IInv /\ [Next]_vars => IInv'
<1> SUFFICES ASSUME IInv, [Next]_vars PROVE IInv'
  OBVIOUS
<1>1. ASSUME NEW w \in Workers, Work(w) PROVE IInv'
  BY <1>1, StepAsideIInv, ClaimIInv, LoadIInv, CompleteIInv, RaiseIInv, FailIInv DEF Work
<1>2. ASSUME NEW w \in Workers, Befall(w) PROVE IInv'
  BY <1>2, StepAsideIInv, CompleteIInv DEF Befall
<1>3. CASE UNCHANGED vars
  BY <1>3
     DEF vars, rows, procs, IInv, TypeOK, Bookkeeping, AttemptsAreCharged, LastAttemptIsFinal,
         FailedOnlyWhenExhausted, LeaseMarksLatestClaim, StrandedOnlyByFault, Holder, Holds
<1> QED
  BY <1>1, <1>2, <1>3, ApiIInv, ApiCrashIInv, TickIInv DEF Next

LEMMA Invariance == Spec => []IInv
BY InitIInv, NextIInv, PTL DEF Spec

(* A row is processed at most worker_max_attempts times, on attempts that   *)
(* no two workers share, however many workers, faults and overruns.         *)
THEOREM AttemptsAreChargedAlways == Spec => []AttemptsAreCharged
BY Invariance, PTL DEF IInv

(* A queued row of a known kind is failed only when its attempts are used   *)
(* up, and the last attempt knows that it is the last although attempts is  *)
(* read after the claim committed.                                          *)
THEOREM FailureMeansExhaustedAlways == Spec => []FailureMeansExhausted
BY Invariance, PTL DEF IInv, FailureMeansExhausted

(* Until a fault a running lease belongs to the worker of the row's latest  *)
(* claim, and a row that is out of attempts is in the hands of a worker.    *)
THEOREM RowsTellTheWorkerAlways == Spec => []RowsTellTheWorker
BY Invariance, PTL DEF IInv, RowsTellTheWorker

(* A settled row never returns to pending, even when leases are outlived.   *)
THEOREM SettledNeverReopensAlways == Spec => SettledNeverReopens
<1>1. ASSUME TypeOK, [Next]_vars, NEW j \in Jobs, Terminal(j) PROVE Terminal(j)'
  <2>1. ASSUME NEW k \in Jobs, Api(k) PROVE Terminal(j)'
    BY <1>1, <2>1
       DEF Api, Enqueue, RunAsync, Insert, InlineComplete, InlineRaise, InlineFail,
           InlineCompleteUnacknowledged, InlineFailLost, rows, Terminal, TypeOK
  <2>2. ASSUME NEW w \in Workers, Work(w) \/ Befall(w) PROVE Terminal(j)'
    BY <1>1, <2>2
       DEF Work, Befall, Poll, Claim, ClaimRow, ClaimNothing, Load, Complete, Completed, Raise,
           Fail, Restart, LoadLost, CompleteUnacknowledged, FailLost, Crash, Stop, rows,
           Terminal, TypeOK
  <2> QED
    BY <1>1, <2>1, <2>2 DEF Next, ApiCrash, Tick, vars, rows, Terminal
<1>2. TypeOK /\ [Next]_vars => [\A j \in Jobs : Terminal(j) => Terminal(j)']_vars
  BY <1>1
<1> QED
  BY <1>2, TypeCorrect, PTL DEF Spec, SettledNeverReopens

-----------------------------------------------------------------------------
(***************************************************************************)
(* What holds while every worker settles its row within the lease, no row  *)
(* is executed in the API process and no commit goes unacknowledged.       *)
(***************************************************************************)
Punctual == Timely = TRUE /\ InlineJobs = {} /\ "ambiguous" \notin Faults

(* A held row is pending and its lease has not run out. *)
HeldRow ==
  \A w \in Workers : Holder(w) => status[job[w]] = "pending" /\ left[job[w]] >= 0

PInv == TypeOK /\ HeldRow /\ OneWorkerPerJob /\ (\A j \in Jobs : exec[j] = "none")

LEMMA InitPInv == Init => PInv
BY InitType DEF Init, PInv, HeldRow, OneWorkerPerJob, Holder

(* Without rows of its own to execute, the API process only enqueues. *)
LEMMA ApiEnqueues ==
  ASSUME Punctual, PInv, NEW j \in Jobs, Api(j)
  PROVE  Enqueue(j) /\ UNCHANGED <<exec, left, procs>>
BY DEF Punctual, PInv, Api, Enqueue, Insert, RunAsync, InlineComplete, InlineRaise, InlineFail,
       InlineCompleteUnacknowledged, InlineFailLost

LEMMA ApiPInv == ASSUME Punctual, PInv, NEW j \in Jobs, Api(j) PROVE PInv'
<1>1. TypeOK'
  BY ApiType DEF PInv
<1>2. Enqueue(j) /\ UNCHANGED <<exec, left, procs>>
  BY ApiEnqueues
<1> QED
  BY <1>1, <1>2 DEF Enqueue, Insert, PInv, HeldRow, OneWorkerPerJob, Holder, procs, TypeOK

(* A worker that lets go of its row, whatever it wrote to it. *)
LEMMA LeavePInv ==
  ASSUME PInv, TypeOK', NEW w \in Workers, OthersStay(w), UNCHANGED exec, ~Holder(w)',
         \A j \in Jobs : (status'[j] = status[j] /\ left'[j] = left[j]) \/ (Holder(w) /\ j = job[w])
  PROVE  PInv'
<1>1. OneWorkerPerJob'
  BY DEF PInv, OneWorkerPerJob, OthersStay, Holder
<1>2. HeldRow'
  <2> SUFFICES ASSUME NEW v \in Workers, Holder(v)'
               PROVE  status'[job'[v]] = "pending" /\ left'[job'[v]] >= 0
    BY DEF HeldRow
  <2>1. v # w /\ Holder(v) /\ job'[v] = job[v] /\ job[v] \in Jobs
    BY DEF OthersStay, Holder, PInv, TypeOK
  <2>2. ~(Holder(w) /\ job[v] = job[w])
    BY <2>1 DEF PInv, OneWorkerPerJob
  <2> QED
    BY <2>1, <2>2 DEF PInv, HeldRow
<1> QED
  BY <1>1, <1>2 DEF PInv

(* A claim cannot hit a held row: its lease is not older than any clock     *)
(* value a polling worker has read.                                         *)
LEMMA ClaimPInv == ASSUME PInv, NEW w \in Workers, Claim(w) PROVE PInv'
<1>1. PICK j \in Eligible(w) : ClaimRow(w, j)
  BY DEF Claim
<1>2. /\ j \in Jobs /\ status[j] = "pending" /\ left[j] < -lag[w]
      /\ lag[w] \in 0 .. MaxLag /\ left[j] \in Int
  BY <1>1, FreeIsNegative DEF Eligible, PInv, TypeOK, Free
<1>3. TypeOK' /\ OthersStay(w) /\ UNCHANGED exec
  BY WorkType, WorkerFrame DEF Work, PInv
<1>4. \A v \in Workers : Holder(v) => job[v] # j
  <2> SUFFICES ASSUME NEW v \in Workers, Holder(v), job[v] = j PROVE FALSE
    OBVIOUS
  <2>1. left[j] >= 0
    BY DEF PInv, HeldRow
  <2> QED
    BY <2>1, <1>2
<1>5. /\ job'[w] = j /\ status' = status /\ left'[j] = Lease - lag[w]
      /\ \A k \in Jobs \ {j} : left'[k] = left[k]
  BY <1>1, <1>2 DEF ClaimRow, PInv, TypeOK
<1>6. Lease - lag[w] >= 0
  BY <1>2, JobQueueAssumption
<1>7. HeldRow'
  BY <1>2, <1>3, <1>4, <1>5, <1>6 DEF PInv, HeldRow, OthersStay, Holder, TypeOK
<1>8. OneWorkerPerJob'
  BY <1>3, <1>4, <1>5 DEF PInv, OneWorkerPerJob, OthersStay, Holder
<1> QED
  BY <1>3, <1>7, <1>8 DEF PInv

LEMMA WorkerPInv ==
  ASSUME Punctual, PInv, NEW w \in Workers, Work(w) \/ Befall(w) PROVE PInv'
<1>1. TypeOK' /\ OthersStay(w) /\ UNCHANGED exec
  BY WorkType, BefallType, WorkerFrame DEF PInv
<1>2. CASE Claim(w)
  BY <1>2, ClaimPInv
<1>3. CASE Load(w) \/ Raise(w)
  <2>1. UNCHANGED <<status, left, job>> /\ Holder(w) /\ Holder(w)'
    BY <1>3 DEF Load, Raise, rows, Holder, PInv, TypeOK
  <2> QED
    BY <2>1, <1>1 DEF PInv, HeldRow, OneWorkerPerJob, OthersStay, Holder
<1>4. CASE Complete(w) \/ Fail(w)
  <2>1. Holder(w) /\ ~Holder(w)'
    BY <1>4 DEF Complete, Fail, Leave, Holder, PInv, TypeOK
  <2>2. \A j \in Jobs : (status'[j] = status[j] /\ left'[j] = left[j]) \/ j = job[w]
    BY <1>4 DEF Complete, Completed, Fail, PInv, TypeOK
  <2> QED
    BY <1>1, <2>1, <2>2, LeavePInv
<1>5. CASE Poll(w) \/ ClaimNothing(w) \/ Restart(w) \/ Stop(w) \/ LoadLost(w) \/ FailLost(w) \/ Crash(w)
  <2>1. UNCHANGED rows /\ ~Holder(w)'
    BY <1>5 DEF Poll, ClaimNothing, Restart, Stop, LoadLost, FailLost, Crash, Leave, Holder,
       PInv, TypeOK
  <2> QED
    BY <1>1, <2>1, LeavePInv DEF rows
<1>6. ~CompleteUnacknowledged(w)
  BY DEF CompleteUnacknowledged, Strike, Punctual
<1> QED
  BY <1>2, <1>3, <1>4, <1>5, <1>6 DEF Work, Befall

LEMMA NextPInv == ASSUME Punctual, PInv, [Next]_vars PROVE PInv'
<1>1. CASE Tick
  <2>1. TypeOK'
    BY <1>1, TickType DEF PInv
  <2>2. \A w \in Workers : Holder(w) => left'[job[w]] >= 0
    BY <1>1, FreeIsNegative DEF Tick, Punctual, PInv, TypeOK
  <2> QED
    BY <1>1, <2>1, <2>2 DEF Tick, PInv, HeldRow, OneWorkerPerJob, Holder
<1>2. CASE ApiCrash
  BY <1>2 DEF ApiCrash, PInv
<1>3. CASE UNCHANGED vars
  BY <1>3 DEF vars, rows, procs, PInv, TypeOK, HeldRow, OneWorkerPerJob, Holder
<1> QED
  BY <1>1, <1>2, <1>3, ApiPInv, WorkerPInv DEF Next

(* Mutual exclusion: while leases are not outlived, a row is never in the   *)
(* hands of two workers, whatever crashes, lost statements and slow polls.  *)
THEOREM OneWorkerPerJobAlways == ASSUME Punctual PROVE Spec => []OneWorkerPerJob
<1>1. PInv /\ [Next]_vars => PInv'
  BY NextPInv
<1> QED
  BY <1>1, InitPInv, PTL DEF Spec, PInv

-----------------------------------------------------------------------------
(* The queue implements JobLedger under the same assumption: each step is a *)
(* step of the ledger, or leaves every ticket and every count of tries.     *)

(* A step that moves the ticket of one row only. *)
LEMMA MoveTicket ==
  ASSUME NEW j \in Jobs, NEW from, NEW to, Ticket(j) = from, Ticket(j)' = to,
         \A k \in Jobs \ {j} : Ticket(k)' = Ticket(k)
  PROVE  Ledger!Move(j, from, to)
BY DEF Ledger!Move

LEMMA InitLedger == Init => Ledger!Init
BY DEF Init, Ledger!Init, Ticket

LEMMA ApiLedger == ASSUME Punctual, PInv, NEW j \in Jobs, Api(j) PROVE Ledger!Submit(j)
<1>1. Enqueue(j) /\ UNCHANGED procs /\ UNCHANGED attempts
  BY ApiEnqueues DEF Enqueue, Insert
<1>2. status[j] = "absent" /\ status' = [status EXCEPT ![j] = "pending"]
  BY <1>1 DEF Enqueue, Insert
<1>3. \A k \in Jobs : Held(k)' = Held(k)
  BY <1>1 DEF Held, Holds, procs
<1>4. ~Held(j)
  BY <1>2 DEF Held, Holds, PInv, HeldRow, Holder
<1>5. Ticket(j) = "absent" /\ Ticket(j)' = "queued"
  BY <1>2, <1>3, <1>4 DEF Ticket, PInv, TypeOK
<1>6. \A k \in Jobs \ {j} : Ticket(k)' = Ticket(k)
  BY <1>2, <1>3 DEF Ticket, PInv, TypeOK
<1> QED
  BY <1>1, <1>5, <1>6, MoveTicket DEF Ledger!Submit

(* Under mutual exclusion a row is held exactly by its one holder. *)
LEMMA HeldByOthers ==
  ASSUME PInv, NEW w \in Workers, OthersStay(w), NEW k \in Jobs,
         ~Holds(w, k), ~Holds(w, k)'
  PROVE  Held(k)' = Held(k)
BY DEF PInv, OthersStay, Held, Holds

LEMMA LeaveLedger ==
  ASSUME PInv, NEW w \in Workers, OthersStay(w), NEW j \in Jobs, job[w] = j,
         Holder(w), ~Holder(w)', UNCHANGED attempts,
         \A k \in Jobs \ {j} : status'[k] = status[k],
         status'[j] \in {"pending", "completed", "failed"}
  PROVE  Ledger!Next
<1>1. status[j] = "pending"
  BY DEF PInv, HeldRow
<1>2. \A k \in Jobs \ {j} : Ticket(k)' = Ticket(k)
  BY HeldByOthers DEF Ticket, Holds, Holder
<1>3. Ticket(j) = "taken"
  BY <1>1 DEF Ticket, Held, Holds, Holder
<1>4. ~Held(j)'
  BY DEF Held, Holds, Holder, OthersStay, PInv, OneWorkerPerJob
<1>5. Ticket(j)' = IF status'[j] = "pending" THEN "queued" ELSE status'[j]
  BY <1>4 DEF Ticket
<1>6. CASE status'[j] = "pending"
  <2>1. Ledger!Move(j, "taken", "queued")
    BY <1>2, <1>3, <1>5, <1>6, MoveTicket
  <2> QED
    BY <2>1 DEF Ledger!Next, Ledger!Yield
<1>7. CASE status'[j] \in {"completed", "failed"}
  <2>1. Ledger!Move(j, "taken", status'[j])
    BY <1>2, <1>3, <1>5, <1>7, MoveTicket
  <2>2. Ledger!Settle(j, status'[j])
    BY <2>1 DEF Ledger!Settle
  <2> QED
    BY <1>7, <2>2 DEF Ledger!Next
<1> QED
  BY <1>6, <1>7

LEMMA ClaimLedger == ASSUME PInv, NEW w \in Workers, Claim(w) PROVE Ledger!Next
<1>1. PICK j \in Eligible(w) : ClaimRow(w, j)
  BY DEF Claim
<1>2. j \in Jobs /\ status[j] = "pending" /\ attempts[j] < MaxAttempts /\ left[j] < 0
  BY <1>1, FreeIsNegative DEF Eligible, PInv, TypeOK, Free
<1>3. OthersStay(w) /\ PInv'
  BY WorkerFrame, ClaimPInv DEF Work, PInv
<1>4. ~Held(j)
  <2>1. \A v \in Workers : Holds(v, j) => left[j] >= 0
    BY DEF Holds, Holder, PInv, HeldRow
  <2>2. left[j] \in Int
    BY <1>2, FreeIsNegative DEF PInv, TypeOK
  <2> QED
    BY <1>2, <2>1, <2>2 DEF Held
<1>5. ~Holder(w) /\ phase'[w] = "claimed" /\ job'[w] = j /\ status' = status
      /\ attempts' = [attempts EXCEPT ![j] = attempts[j] + 1]
  BY <1>1 DEF Claim, ClaimRow, Holder, PInv, TypeOK
<1>6. Ticket(j) = "queued" /\ Ticket(j)' = "taken"
  BY <1>2, <1>4, <1>5 DEF Ticket, Held, Holds
<1>7. \A k \in Jobs \ {j} : Ticket(k)' = Ticket(k)
  BY <1>3, <1>5, HeldByOthers DEF Ticket, Holds, Holder
<1>8. Ledger!Take(j)
  BY <1>2, <1>5, <1>6, <1>7, MoveTicket DEF Ledger!Take
<1> QED
  BY <1>2, <1>8 DEF Ledger!Next

(* Steps that a caller cannot tell from nothing happening. *)
LEMMA SilentLedger ==
  ASSUME PInv, UNCHANGED <<status, attempts>>, \A k \in Jobs : Held(k)' = Held(k)
  PROVE  UNCHANGED <<[j \in Jobs |-> Ticket(j)], attempts>>
<1>1. \A k \in Jobs : Ticket(k)' = Ticket(k)
  BY DEF Ticket
<1> QED
  BY <1>1

LEMMA WorkerLedger ==
  ASSUME Punctual, PInv, NEW w \in Workers, Work(w) \/ Befall(w)
  PROVE  [Ledger!Next]_(Ledger!ledger)
<1>1. OthersStay(w) /\ ~CompleteUnacknowledged(w)
  BY WorkerFrame DEF PInv, CompleteUnacknowledged, Strike, Punctual
<1>2. CASE Claim(w)
  BY <1>2, ClaimLedger
<1>3. CASE Load(w) \/ Raise(w)
  <2>1. UNCHANGED <<status, attempts, job>> /\ Holder(w) /\ Holder(w)'
    BY <1>3 DEF Load, Raise, rows, Holder, PInv, TypeOK
  <2>2. \A k \in Jobs : Held(k)' = Held(k)
    BY <1>1, <2>1 DEF Held, Holds, Holder, OthersStay
  <2> QED
    BY <2>1, <2>2, SilentLedger DEF Ledger!ledger
<1>4. CASE Complete(w) \/ Fail(w) \/ LoadLost(w) \/ FailLost(w) \/ (Crash(w) /\ Holder(w))
  <2>1. PICK j \in Jobs : job[w] = j
    BY DEF PInv, TypeOK
  <2>2. Holder(w) /\ ~Holder(w)' /\ UNCHANGED attempts
    BY <1>4 DEF Complete, Completed, Fail, LoadLost, FailLost, Crash, Leave, rows, Holder, PInv, TypeOK
  <2>3. status[j] = "pending"
    BY <2>1, <2>2 DEF PInv, HeldRow
  <2>4. /\ \A k \in Jobs \ {j} : status'[k] = status[k]
        /\ status'[j] \in {"pending", "completed", "failed"}
    BY <1>4, <2>1, <2>3 DEF Complete, Completed, Fail, LoadLost, FailLost, Crash, rows, PInv, TypeOK
  <2> QED
    BY <1>1, <2>1, <2>2, <2>4, LeaveLedger
<1>5. CASE Poll(w) \/ ClaimNothing(w) \/ Restart(w) \/ Stop(w) \/ (Crash(w) /\ ~Holder(w))
  <2>1. UNCHANGED rows /\ ~Holder(w) /\ ~Holder(w)'
    BY <1>5 DEF Poll, ClaimNothing, Restart, Stop, Crash, Leave, Holder, PInv, TypeOK
  <2>2. \A k \in Jobs : Held(k)' = Held(k)
    BY <1>1, <2>1 DEF Held, Holds, Holder, OthersStay
  <2> QED
    BY <2>1, <2>2, SilentLedger DEF Ledger!ledger, rows
<1> QED
  BY <1>1, <1>2, <1>3, <1>4, <1>5 DEF Work, Befall

LEMMA NextLedger ==
  ASSUME Punctual, PInv, [Next]_vars PROVE [Ledger!Next]_(Ledger!ledger)
<1>1. ASSUME NEW j \in Jobs, Api(j) PROVE Ledger!Next
  BY <1>1, ApiLedger DEF Ledger!Next
<1>2. CASE ApiCrash \/ Tick \/ UNCHANGED vars
  <2>1. UNCHANGED <<status, attempts, phase, job>>
    BY <1>2 DEF ApiCrash, Tick, vars, rows, procs
  <2>2. \A k \in Jobs : Held(k)' = Held(k)
    BY <2>1 DEF Held, Holds
  <2> QED
    BY <2>1, <2>2, SilentLedger DEF Ledger!ledger
<1> QED
  BY <1>1, <1>2, WorkerLedger DEF Next

(* Refinement: to its callers the queue is JobLedger, in which one worker   *)
(* at a time takes a job, at most worker_max_attempts take it in all, and a *)
(* settled job stays settled.                                               *)
THEOREM QueueImplementsLedger == ASSUME Punctual PROVE Spec => LedgerSpec
<1>1. PInv /\ [Next]_vars => PInv'
  BY NextPInv
<1>2. PInv /\ [Next]_vars => [Ledger!Next]_(Ledger!ledger)
  BY NextLedger
<1> QED
  BY <1>1, <1>2, InitPInv, InitLedger, PTL DEF Spec, LedgerSpec, Ledger!Spec

(* The status a client has read as settled never changes again.             *)
THEOREM SettledIsFinalAlways == ASSUME Punctual PROVE Spec => SettledIsFinal
<1>1. PInv /\ [Next]_vars => PInv'
  BY NextPInv
<1>2. ASSUME PInv, [Next]_vars
      PROVE  [\A j \in Jobs : Terminal(j) => status'[j] = status[j]]_vars
  <2> SUFFICES ASSUME NEW j \in Jobs, Terminal(j) PROVE status'[j] = status[j]
    BY <1>2
  <2>1. ASSUME NEW k \in Jobs, Api(k) PROVE status'[j] = status[j]
    <3>1. Enqueue(k)
      BY <1>2, <2>1, ApiEnqueues
    <3> QED
      BY <1>2, <3>1 DEF Enqueue, Insert, Terminal, PInv, TypeOK
  <2>2. ASSUME NEW w \in Workers, Work(w) \/ Befall(w) PROVE status'[j] = status[j]
    <3>1. Holder(w) => job[w] # j
      BY <1>2 DEF PInv, HeldRow, Terminal
    <3> QED
      BY <1>2, <2>2, <3>1
         DEF Work, Befall, Poll, Claim, ClaimRow, ClaimNothing, Load, Complete, Completed, Raise,
             Fail, Restart, LoadLost, CompleteUnacknowledged, FailLost, Crash, Stop, rows, Holder,
             PInv, TypeOK
  <2> QED
    BY <1>2, <2>1, <2>2 DEF Next, ApiCrash, Tick, vars, rows
<1> QED
  BY <1>1, <1>2, InitPInv, PTL DEF Spec, SettledIsFinal
=============================================================================
