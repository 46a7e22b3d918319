----------------------------- MODULE SourceJobs -----------------------------
(***************************************************************************)
(* The acquisition lane: source jobs that capture a browser tab, the       *)
(* Maritime dispatches that wake the worker for them, the worker's         *)
(* processNextAcquisitionJob, and the operator's retry and cancel.         *)
(*                                                                         *)
(* A job is claimed under a lease.  Unlike the normalization and decision  *)
(* queues, its claim does take an expired lease, and what the worker saves *)
(* afterwards is not fenced by the lease: sourceJobs.transition compares   *)
(* the row with what it read a moment before, not with what was claimed.   *)
(* Its read and write are one step here: a write that finds the row        *)
(* changed throws, which is a step of its own.  The attempt, the captured  *)
(* listing and the new status are separate transactions.                   *)
(***************************************************************************)
EXTENDS Naturals, FiniteSets, FiniteSetTheorems, TLAPS

CONSTANTS
  Jobs,          \* source jobs: zillow.current-tab.v1 captures
  Workers,       \* worker processes
  Hosted,        \* TRUE when a Maritime agent claims dispatched jobs only
  MaxAttempts,   \* max_attempts of a job, 3 in createCurrentTabCaptureJob
  MaxDispatches, \* bound: dispatches of one behaviour, numbered as issued
  MaxRuns,       \* bound: claims of one job; late saves would make them endless
  MaxFaults      \* bound: crashes and lost replies of one behaviour

ASSUME SourceJobsAssumption ==
  /\ Hosted \in BOOLEAN
  /\ MaxAttempts \in Nat \ {0}
  /\ MaxDispatches \in Nat
  /\ MaxRuns \in Nat
  /\ MaxFaults \in Nat

Dispatches == 1 .. MaxDispatches
Attempts == 1 .. MaxAttempts

VARIABLES
  job,       \* source_jobs
  log,       \* source_job_attempts: the outcome stored under each number
  accepted,  \* browser_capture_acceptances: the attempt accepted, or 0
  dispatch,  \* maritime_dispatches, with how far their request has come
  worker,    \* the job a worker runs, as which attempt, and how far it is
  allowed,   \* the policy, kill switches and approval let the job run
  runs,      \* history: how often a job has been claimed
  faults     \* faults so far

vars == <<job, log, accepted, dispatch, worker, allowed, runs, faults>>

Outcomes == {"completed", "retryable_failed", "permanently_failed",
             "deferred_node_offline", "manual_action_required",
             "cancelled_by_policy"}
Statuses == Outcomes \cup {"queued", "dispatched", "running"}
Terminal == {"completed", "permanently_failed", "cancelled_by_policy"}
Retryable == {"retryable_failed", "deferred_node_offline", "manual_action_required"}
DispatchStates ==
  {"none", "pending_wake", "accepted", "consumed", "expired", "rejected"}

(* ALLOWED_SOURCE_JOB_TRANSITIONS.                                          *)
Allowed == [
  queued                 |-> {"dispatched", "cancelled_by_policy"},
  dispatched             |-> (Outcomes \ {"completed"}) \cup {"running"},
  running                |-> Outcomes,
  retryable_failed       |-> {"queued", "permanently_failed", "cancelled_by_policy"},
  deferred_node_offline  |-> {"queued", "cancelled_by_policy"},
  manual_action_required |-> {"queued", "cancelled_by_policy"},
  completed              |-> {},
  permanently_failed     |-> {},
  cancelled_by_policy    |-> {}]

Idle == [phase |-> "idle", job |-> {}, attempt |-> 0, outcome |-> "completed"]
NoDispatch == [state |-> "none", job |-> {}, late |-> FALSE, step |-> "done"]

Init ==
  /\ job = [j \in Jobs |-> [status |-> "queued", attempts |-> 0, lease |-> "none"]]
  /\ log = [j \in Jobs |-> [n \in Attempts |-> "none"]]
  /\ accepted = [j \in Jobs |-> 0]
  /\ dispatch = [d \in Dispatches |-> NoDispatch]
  /\ worker = [w \in Workers |-> Idle]
  /\ allowed = [j \in Jobs |-> TRUE]
  /\ runs = [j \in Jobs |-> 0]
  /\ faults = 0

(* Faulty: any status may follow a running job or a final one.              *)
CanMoveAnywhere(j, status) ==
  status \in Allowed[job[j].status] \/ job[j].status \in Terminal
CanMove(j, status) == status \in Allowed[job[j].status]

(* Faulty: the attempt is counted again when it is saved.                   *)
MovedAndCounted(j, status, attempts) ==
  [job EXCEPT ![j] = [status |-> status, attempts |-> attempts + 1, lease |-> "none"]]

(* sourceJobs.transition: a legal status, and no lease after it.            *)
Moved(j, status, attempts) ==
  [job EXCEPT ![j] = [status |-> status, attempts |-> attempts, lease |-> "none"]]
-----------------------------------------------------------------------------
(* The control plane: dispatchHostedSourceJob and what it awaits.           *)

(* The policy no longer allows a queued job: it is cancelled.               *)
DenyDispatch(j) ==
  /\ Hosted
  /\ job[j].status = "queued" /\ ~ allowed[j]
  /\ job' = Moved(j, "cancelled_by_policy", job[j].attempts)
  /\ UNCHANGED <<log, accepted, dispatch, worker, allowed, runs, faults>>

CreateDispatch(d, j) ==
  /\ Hosted
  /\ dispatch[d].state = "none"
  /\ \A e \in Dispatches : e < d => dispatch[e].state # "none"
  /\ job[j].status = "queued" /\ allowed[j]
  /\ dispatch' = [dispatch EXCEPT ![d] =
       [state |-> "pending_wake", job |-> {j}, late |-> FALSE, step |-> "wake"]]
  /\ UNCHANGED <<job, log, accepted, worker, allowed, runs, faults>>

(* The wake succeeds and the dispatch is accepted, unless it has expired.   *)
WakeSucceeds(d) ==
  /\ dispatch[d].step = "wake"
  /\ dispatch' = IF dispatch[d].state = "pending_wake"
                 THEN [dispatch EXCEPT ![d].state = "accepted", ![d].step = "mark"]
                 ELSE [dispatch EXCEPT ![d].step = "done"]
  /\ UNCHANGED <<job, log, accepted, worker, allowed, runs, faults>>

(* Faulty: a request whose wake failed goes on to mark the job.             *)
RejectedButMarking(d) ==
  [dispatch EXCEPT ![d].state = "rejected", ![d].step = "mark"]
Rejected(d) ==
  [dispatch EXCEPT ![d].state = IF @ = "pending_wake" THEN "rejected" ELSE @,
                   ![d].step = "done"]

WakeFails(d) ==
  /\ dispatch[d].step = "wake"
  /\ dispatch' = Rejected(d)
  /\ UNCHANGED <<job, log, accepted, worker, allowed, runs, faults>>

(* The job is marked dispatched; if it cannot be, the request throws and    *)
(* the dispatch stays accepted.                                             *)
MarkDispatched(d) == \E j \in dispatch[d].job :
  /\ dispatch[d].step = "mark"
  /\ dispatch' = [dispatch EXCEPT ![d].step = "done"]
  /\ job' = IF CanMove(j, "dispatched")
            THEN Moved(j, "dispatched", job[j].attempts) ELSE job
  /\ UNCHANGED <<log, accepted, worker, allowed, runs, faults>>

(* The five minutes of a dispatch pass, and the cleanup expires its row.    *)
DispatchRunsOut(d) ==
  /\ dispatch[d].state \in {"pending_wake", "accepted"} /\ ~ dispatch[d].late
  /\ dispatch' = [dispatch EXCEPT ![d].late = TRUE]
  /\ UNCHANGED <<job, log, accepted, worker, allowed, runs, faults>>

CleanUpDispatch(d) ==
  /\ dispatch[d].state \in {"pending_wake", "accepted"} /\ dispatch[d].late
  /\ dispatch' = [dispatch EXCEPT ![d].state = "expired"]
  /\ UNCHANGED <<job, log, accepted, worker, allowed, runs, faults>>
-----------------------------------------------------------------------------
(* The operator and the user.                                               *)

(* retrySourceJob; a job queued behind a rejected wake needs no new status. *)
Retry(j) ==
  /\ job[j].status \in Retryable
  /\ job[j].attempts < MaxAttempts
  /\ allowed[j]
  /\ job' = Moved(j, "queued", job[j].attempts)
  /\ UNCHANGED <<log, accepted, dispatch, worker, allowed, runs, faults>>

Cancel(j) ==
  /\ job[j].status \notin Terminal
  /\ CanMove(j, "cancelled_by_policy")
  /\ job' = Moved(j, "cancelled_by_policy", job[j].attempts)
  /\ UNCHANGED <<log, accepted, dispatch, worker, allowed, runs, faults>>

(* A control is switched, or the approval's five minutes are over.          *)
ChangePolicy(j) ==
  /\ job[j].status \notin Terminal
  /\ allowed' = [allowed EXCEPT ![j] = ~ @]
  /\ UNCHANGED <<job, log, accepted, dispatch, worker, runs, faults>>
-----------------------------------------------------------------------------
(* The worker.                                                              *)

LeaseExpires(j) ==
  /\ job[j].lease = "live"
  /\ job' = [job EXCEPT ![j].lease = "expired"]
  /\ UNCHANGED <<log, accepted, dispatch, worker, allowed, runs, faults>>

Free(j) == job[j].lease \in {"none", "expired"}

(* claimNextSourceJob.                                                      *)
ClaimableDirectly(j) ==
  /\ ~ Hosted
  /\ job[j].status \in {"queued", "retryable_failed", "running"}
  /\ Free(j)

(* Faulty: the job of a consumed dispatch is not recovered.                 *)
ClaimableOnce(d, j) ==
  /\ dispatch[d].state = "accepted" /\ ~ dispatch[d].late
  /\ job[j].status = "dispatched" /\ Free(j)

(* claimNextDispatchedSourceJob: an accepted dispatch in time, or the job   *)
(* of a consumed one whose lease has expired.                               *)
ClaimableBy(d, j) ==
  \/ /\ dispatch[d].state = "accepted" /\ ~ dispatch[d].late
     /\ job[j].status = "dispatched" /\ Free(j)
  \/ /\ dispatch[d].state = "consumed"
     /\ job[j].status = "running" /\ job[j].lease = "expired"

(* Dispatches are taken in the order they were issued.                      *)
TakesDispatch(d, j) ==
  /\ Hosted
  /\ dispatch[d].job = {j}
  /\ ClaimableBy(d, j)
  /\ \A e \in Dispatches : e < d /\ dispatch[e].job = {j} => ~ ClaimableBy(e, j)

Take(w, j) ==
  /\ worker[w].phase = "idle"
  /\ job[j].attempts < MaxAttempts
  /\ runs[j] < MaxRuns
  /\ \/ /\ ClaimableDirectly(j)
        /\ UNCHANGED dispatch
     \/ \E d \in Dispatches :
          /\ TakesDispatch(d, j)
          /\ dispatch' = [dispatch EXCEPT ![d].state = "consumed"]
  /\ job' = [job EXCEPT ![j] = [status |-> "running", attempts |-> @.attempts + 1,
                                lease |-> "live"]]
  /\ runs' = [runs EXCEPT ![j] = @ + 1]
  /\ UNCHANGED <<log, accepted, allowed>>

Claim(w) == \E j \in Jobs :
  /\ Take(w, j)
  /\ worker' = [worker EXCEPT ![w] = [Idle EXCEPT !.phase = "claimed", !.job = {j},
                                      !.attempt = job[j].attempts + 1]]
  /\ UNCHANGED faults

(* The controls, the node and the approval are read; a job they let pass is *)
(* captured, with any result the provider may return.                       *)
Execute(w) == \E j \in worker[w].job :
  /\ worker[w].phase = "claimed"
  /\ \E outcome \in IF allowed[j] THEN Outcomes \ {"cancelled_by_policy"}
                    ELSE {"cancelled_by_policy"} :
       worker' = [worker EXCEPT ![w].phase = "executed", ![w].outcome = outcome]
  /\ UNCHANGED <<job, log, accepted, dispatch, allowed, runs, faults>>

(* Faulty: an attempt that is stored over an earlier one of its number.     *)
RecordAttemptOver(w) == \E j \in worker[w].job :
  /\ worker[w].phase = "executed"
  /\ log' = [log EXCEPT ![j][worker[w].attempt] = worker[w].outcome]
  /\ worker' = [worker EXCEPT ![w].phase = "recorded"]
  /\ UNCHANGED <<job, accepted, dispatch, allowed, runs, faults>>

(* appendAttempt: the number is unique among the attempts of a job, and a   *)
(* second attempt under it throws.                                          *)
RecordAttempt(w) == \E j \in worker[w].job : LET n == worker[w].attempt IN
  /\ worker[w].phase = "executed"
  /\ IF log[j][n] = "none"
     THEN /\ log' = [log EXCEPT ![j][n] = worker[w].outcome]
          /\ worker' = [worker EXCEPT ![w].phase = "recorded"]
     ELSE /\ worker' = [worker EXCEPT ![w] = Idle]
          /\ UNCHANGED log
  /\ UNCHANGED <<job, accepted, dispatch, allowed, runs, faults>>

(* defer, manual, cancelByPolicy and the failures: the status is saved with *)
(* the attempt number of the claim.                                         *)
SaveOutcome(w) == \E j \in worker[w].job :
  /\ worker[w].phase = "recorded" /\ worker[w].outcome # "completed"
  /\ job' = IF CanMove(j, worker[w].outcome)
            THEN Moved(j, worker[w].outcome, worker[w].attempt) ELSE job
  /\ worker' = [worker EXCEPT ![w] = Idle]
  /\ UNCHANGED <<log, accepted, dispatch, allowed, runs, faults>>

Accepts(j) == accepted[j] = 0 /\ job[j].status = "running"

(* Faulty: the listing is kept when the job can no longer be completed.     *)
CommitCaptureApart(w, j) ==
  /\ worker[w].phase = "recorded" /\ worker[w].outcome = "completed"
  /\ accepted[j] = 0
  /\ accepted' = [accepted EXCEPT ![j] = worker[w].attempt]
  /\ job' = IF CanMove(j, "completed") THEN Moved(j, "completed", worker[w].attempt)
            ELSE job
  /\ UNCHANGED <<log, dispatch, allowed, runs>>

(* acceptBrowserCapture, one transaction: the raw listing with its          *)
(* normalization job, the acceptance and the completed job; or nothing.     *)
CommitCapture(w, j) ==
  /\ worker[w].phase = "recorded" /\ worker[w].outcome = "completed"
  /\ Accepts(j)
  /\ log[j][worker[w].attempt] = "completed"
  /\ accepted' = [accepted EXCEPT ![j] = worker[w].attempt]
  /\ job' = Moved(j, "completed", worker[w].attempt)
  /\ UNCHANGED <<log, dispatch, allowed, runs>>

AcceptCapture(w) == \E j \in worker[w].job :
  /\ CommitCapture(w, j)
  /\ worker' = [worker EXCEPT ![w] = Idle]
  /\ UNCHANGED faults

RefuseCapture(w) == \E j \in worker[w].job :
  /\ worker[w].phase = "recorded" /\ worker[w].outcome = "completed"
  /\ ~ Accepts(j)
  /\ worker' = [worker EXCEPT ![w] = Idle]
  /\ UNCHANGED <<job, log, accepted, dispatch, allowed, runs, faults>>
-----------------------------------------------------------------------------
(* Faults.  Their number is bounded by MaxFaults.                           *)

Fault == faults < MaxFaults /\ faults' = faults + 1

(* The process dies, or a statement or the provider throws: whatever has    *)
(* not been written is forgotten and the job stays as it is.                *)
Crash(w) ==
  /\ Fault
  /\ worker[w].phase # "idle"
  /\ worker' = [worker EXCEPT ![w] = Idle]
  /\ UNCHANGED <<job, log, accepted, dispatch, allowed, runs>>

ClaimReplyLost(w) ==
  /\ Fault
  /\ \E j \in Jobs : Take(w, j)
  /\ UNCHANGED worker

(* The web process dies between two steps of a dispatch.                    *)
RequestDies(d) ==
  /\ Fault
  /\ dispatch[d].step \in {"wake", "mark"}
  /\ dispatch' = [dispatch EXCEPT ![d].step = "done"]
  /\ UNCHANGED <<job, log, accepted, worker, allowed, runs>>

WorkerStep(w) ==
  \/ Claim(w) \/ Execute(w) \/ RecordAttempt(w)
  \/ SaveOutcome(w) \/ AcceptCapture(w) \/ RefuseCapture(w)

DispatchStep(d) ==
  \/ \E j \in Jobs : CreateDispatch(d, j)
  \/ WakeSucceeds(d) \/ WakeFails(d) \/ MarkDispatched(d)
  \/ DispatchRunsOut(d) \/ CleanUpDispatch(d) \/ RequestDies(d)

Next ==
  \/ \E w \in Workers : WorkerStep(w) \/ Crash(w) \/ ClaimReplyLost(w)
  \/ \E d \in Dispatches : DispatchStep(d)
  \/ \E j \in Jobs :
       \/ DenyDispatch(j) \/ Retry(j) \/ Cancel(j) \/ ChangePolicy(j)
       \/ LeaseExpires(j)

(* The worker polls for ever and time passes.                               *)
Fairness ==
  /\ \A w \in Workers : WF_vars(WorkerStep(w))
  /\ \A j \in Jobs : WF_vars(LeaseExpires(j))

Spec == Init /\ [][Next]_vars
FairSpec == Spec /\ Fairness
-----------------------------------------------------------------------------
(* Properties.                                                              *)

(* Every variable holds a value of its type.                                *)
TypeOK ==
  /\ job \in [Jobs -> [status : Statuses, attempts : 0 .. MaxAttempts,
                       lease : {"none", "live", "expired"}]]
  /\ log \in [Jobs -> [Attempts -> Outcomes \cup {"none"}]]
  /\ accepted \in [Jobs -> 0 .. MaxAttempts]
  /\ dispatch \in [Dispatches -> [state : DispatchStates, job : SUBSET Jobs,
                                  late : BOOLEAN, step : {"wake", "mark", "done"}]]
  /\ worker \in [Workers -> [phase : {"idle", "claimed", "executed", "recorded"},
                             job : SUBSET Jobs, attempt : 0 .. MaxAttempts,
                             outcome : Outcomes]]
  /\ allowed \in [Jobs -> BOOLEAN]
  /\ runs \in [Jobs -> 0 .. MaxRuns]
  /\ faults \in 0 .. MaxFaults

(* A capture enters the corpus if and only if its job is completed: not     *)
(* after a cancellation that overtook it, and not for a job that a late     *)
(* worker, a reclaim or a retry has since put into another state.           *)
AcceptedIffCompleted == \A j \in Jobs :
  accepted[j] # 0 <=> job[j].status = "completed"

(* The attempt an acceptance names is on record as the completed one, even  *)
(* though it was recorded before and apart from it.                         *)
AcceptanceHasItsAttempt == \A j \in Jobs :
  accepted[j] # 0 => log[j][accepted[j]] = "completed"

(* A finished job is never reopened or relabelled, by a worker that lost    *)
(* its lease, a retry or a dispatch that arrives late.                      *)
TerminalIsFinal == [][ \A j \in Jobs :
  job[j].status \in Terminal => job'[j].status = job[j].status ]_vars

(* A dispatched job has a dispatch still to be claimed or run out, however  *)
(* many requests dispatched it at once: none waits for a wake that failed   *)
(* or was used for another run.                                             *)
DispatchedIsBacked == \A j \in Jobs : job[j].status = "dispatched" =>
  \E d \in Dispatches : /\ dispatch[d].job = {j}
                        /\ dispatch[d].state \in {"accepted", "expired"}

(* Whatever leases expire, claims are lost and workers die, a capture is    *)
(* accepted for a completed job alone and under the attempt on record.      *)
CapturesAreAcceptedOnce ==
  /\ [](TypeOK /\ AcceptedIffCompleted /\ AcceptanceHasItsAttempt)
  /\ TerminalIsFinal

(* A job left running by a crash is claimed again while it has attempts     *)
(* left, also when its dispatch has been consumed.                          *)
RunningIsReclaimed == \A j \in Jobs :
  job[j].status = "running" ~>
    \/ job[j].status # "running"
    \/ job[j].attempts = MaxAttempts \/ runs[j] = MaxRuns

-----------------------------------------------------------------------------
(***************************************************************************)
(* Proofs, for every value of the constants.                               *)
(***************************************************************************)
USE SourceJobsAssumption

JobRows == [status : Statuses, attempts : 0 .. MaxAttempts,
            lease : {"none", "live", "expired"}]
WorkerRows == [phase : {"idle", "claimed", "executed", "recorded"},
               job : SUBSET Jobs, attempt : 0 .. MaxAttempts, outcome : Outcomes]
DispatchRows == [state : DispatchStates, job : SUBSET Jobs,
                 late : BOOLEAN, step : {"wake", "mark", "done"}]

(***************************************************************************)
(* What a step does to the jobs and the acceptances.                       *)
(***************************************************************************)

(* A worker that runs a job runs it under the number of an attempt.         *)
RunsAttempt(w) == worker[w].phase # "idle" => worker[w].attempt \in Attempts

(* The inductive invariant of the captures.                                 *)
CaptureInv ==
  /\ TypeOK
  /\ AcceptedIffCompleted
  /\ AcceptanceHasItsAttempt
  /\ \A w \in Workers : RunsAttempt(w)

(* No job and no acceptance changes, nor does a lease that runs out change  *)
(* more than itself.                                                        *)
Keeps == \A j \in Jobs : job'[j].status = job[j].status /\ accepted'[j] = accepted[j]

(* A job that is not finished gets a status other than completed.           *)
Moves(j) ==
  /\ job[j].status \notin Terminal /\ job'[j].status # "completed"
  /\ accepted' = accepted
  /\ \A i \in Jobs \ {j} : job'[i].status = job[i].status

(* A running job is completed together with its acceptance.                 *)
Completes(j) ==
  /\ job[j].status = "running" /\ job'[j].status = "completed"
  /\ accepted'[j] \in Attempts /\ log[j][accepted'[j]] = "completed"
  /\ \A i \in Jobs \ {j} :
       job'[i].status = job[i].status /\ accepted'[i] = accepted[i]

(* What is recorded of an attempt is never overwritten.                     *)
LogGrows == \A j \in Jobs, n \in Attempts : log[j][n] # "none" => log'[j][n] = log[j][n]

CaptureStep == Keeps \/ (\E j \in Jobs : Moves(j) \/ Completes(j))

(* A status that may follow another follows no finished one.                *)
LEMMA OnlyOpenJobsMove ==
  ASSUME NEW j \in Jobs, NEW status, job[j].status \in Statuses, CanMove(j, status)
  PROVE  job[j].status \notin Terminal
BY DEF CanMove, Allowed, Statuses, Outcomes, Terminal

(* An acceptance stays with its attempt, and a completed job with its       *)
(* acceptance, through each of the three kinds of steps.                    *)
LEMMA StepsKeepCaptures ==
  ASSUME TypeOK, AcceptedIffCompleted, AcceptanceHasItsAttempt,
         accepted' \in [Jobs -> 0 .. MaxAttempts], CaptureStep, LogGrows
  PROVE  AcceptedIffCompleted' /\ AcceptanceHasItsAttempt'
<1>1. accepted \in [Jobs -> 0 .. MaxAttempts]
  BY DEF TypeOK
<1>2. \A j \in Jobs : accepted[j] # 0 => accepted[j] \in Attempts
  BY <1>1 DEF Attempts
<1>3. CASE Keeps
  BY <1>1, <1>2, <1>3 DEF Keeps, LogGrows, AcceptedIffCompleted, AcceptanceHasItsAttempt
<1>4. ASSUME NEW j \in Jobs, Moves(j)
      PROVE  AcceptedIffCompleted' /\ AcceptanceHasItsAttempt'
  <2>1. job[j].status # "completed"
    BY <1>4 DEF Moves, Terminal
  <2>. QED
    BY <1>1, <1>2, <1>4, <2>1
    DEF Moves, LogGrows, AcceptedIffCompleted, AcceptanceHasItsAttempt
<1>5. ASSUME NEW j \in Jobs, Completes(j)
      PROVE  AcceptedIffCompleted' /\ AcceptanceHasItsAttempt'
  <2>1. accepted'[j] # 0 /\ log'[j][accepted'[j]] = "completed"
    BY <1>5 DEF Completes, LogGrows, Attempts
  <2>. QED
    BY <1>1, <1>2, <1>5, <2>1
    DEF Completes, LogGrows, AcceptedIffCompleted, AcceptanceHasItsAttempt
<1>. QED
  BY <1>3, <1>4, <1>5 DEF CaptureStep

(***************************************************************************)
(* The handlers, one by one.                                               *)
(***************************************************************************)

(* A written job row is of its type, and so is the table.                   *)
LEMMA WrittenJobs ==
  ASSUME TypeOK, NEW j \in Jobs, NEW status \in Statuses,
         NEW attempts \in 0 .. MaxAttempts, job' = Moved(j, status, attempts)
  PROVE  /\ job' \in [Jobs -> JobRows]
         /\ job'[j].status = status
         /\ \A i \in Jobs \ {j} : job'[i].status = job[i].status
BY DEF TypeOK, Moved, JobRows

(* So are the dispatches and the workers when one field of a row is set, or  *)
(* a worker rests.                                                          *)
LEMMA WrittenDispatches ==
  ASSUME dispatch \in [Dispatches -> DispatchRows], NEW d \in Dispatches
  PROVE  /\ \A s \in DispatchStates :
              [dispatch EXCEPT ![d].state = s] \in [Dispatches -> DispatchRows]
         /\ \A s \in {"wake", "mark", "done"} :
              [dispatch EXCEPT ![d].step = s] \in [Dispatches -> DispatchRows]
         /\ [dispatch EXCEPT ![d].late = TRUE] \in [Dispatches -> DispatchRows]
<1>1. dispatch[d] \in DispatchRows
  OBVIOUS
<1>2. /\ \A s \in DispatchStates : [dispatch[d] EXCEPT !.state = s] \in DispatchRows
      /\ \A s \in {"wake", "mark", "done"} : [dispatch[d] EXCEPT !.step = s] \in DispatchRows
      /\ [dispatch[d] EXCEPT !.late = TRUE] \in DispatchRows
  BY <1>1 DEF DispatchRows
<1>. QED
  BY <1>2

LEMMA WorkersMoveOn ==
  ASSUME CaptureInv, NEW w \in Workers
  PROVE  /\ \A new \in WorkerRows :
              [worker EXCEPT ![w] = new] \in [Workers -> WorkerRows]
         /\ worker \in [Workers -> WorkerRows]
         /\ worker[w] \in WorkerRows
         /\ \A new \in WorkerRows :
              worker' = [worker EXCEPT ![w] = new]
                /\ (new.phase # "idle" => new.attempt \in Attempts)
              => \A v \in Workers : RunsAttempt(v)'
<1>1. worker \in [Workers -> WorkerRows]
  BY DEF CaptureInv, TypeOK, WorkerRows
<1>. HIDE DEF WorkerRows
<1>2. ASSUME NEW new \in WorkerRows, worker' = [worker EXCEPT ![w] = new],
             new.phase # "idle" => new.attempt \in Attempts, NEW v \in Workers
      PROVE  RunsAttempt(v)'
  BY <1>1, <1>2 DEF CaptureInv, RunsAttempt
<1>. QED
  BY <1>1, <1>2

LEMMA WorkersRest ==
  ASSUME CaptureInv, NEW w \in Workers, worker' = [worker EXCEPT ![w] = Idle]
  PROVE  worker' \in [Workers -> WorkerRows] /\ \A v \in Workers : RunsAttempt(v)'
<1>1. Idle \in WorkerRows /\ Idle.phase = "idle"
  BY DEF Idle, WorkerRows, Outcomes
<1>. QED
  BY <1>1, WorkersMoveOn

Good == TypeOK' /\ (\A w \in Workers : RunsAttempt(w)') /\ CaptureStep /\ LogGrows

(* Steps of the control plane that write only dispatches, and the switches. *)
LEMMA DispatchSteps ==
  ASSUME CaptureInv, NEW d \in Dispatches,
         \/ \E j \in Jobs : CreateDispatch(d, j)
         \/ WakeSucceeds(d) \/ WakeFails(d) \/ DispatchRunsOut(d) \/ CleanUpDispatch(d)
         \/ RequestDies(d)
  PROVE  Good
<1>1. dispatch \in [Dispatches -> DispatchRows] /\ TypeOK /\ dispatch[d] \in DispatchRows
  BY DEF CaptureInv, TypeOK, DispatchRows
<1>2. UNCHANGED <<job, log, accepted, worker, allowed, runs>>
  BY DEF CreateDispatch, WakeSucceeds, WakeFails, DispatchRunsOut, CleanUpDispatch, RequestDies
<1>3. faults' \in 0 .. MaxFaults
  BY <1>1 DEF TypeOK, Fault, CreateDispatch, WakeSucceeds, WakeFails, DispatchRunsOut,
     CleanUpDispatch, RequestDies
<1>4. dispatch' \in [Dispatches -> DispatchRows]
  <2>1. CASE \E j \in Jobs : CreateDispatch(d, j)
    BY <1>1, <2>1 DEF CreateDispatch, DispatchRows, DispatchStates
  <2>2. CASE WakeSucceeds(d)
    BY <1>1, <2>2 DEF WakeSucceeds, DispatchRows, DispatchStates
  <2>3. CASE WakeFails(d)
    BY <1>1, <2>3 DEF WakeFails, Rejected, DispatchRows, DispatchStates
  <2>4. CASE DispatchRunsOut(d)
    <3>1. dispatch' = [dispatch EXCEPT ![d].late = TRUE]
      BY <2>4 DEF DispatchRunsOut
    <3>. QED
      BY <1>1, <3>1, WrittenDispatches
  <2>5. CASE CleanUpDispatch(d)
    <3>1. dispatch' = [dispatch EXCEPT ![d].state = "expired"] /\ "expired" \in DispatchStates
      BY <2>5 DEF CleanUpDispatch, DispatchStates
    <3>. QED
      BY <1>1, <3>1, WrittenDispatches
  <2>6. CASE RequestDies(d)
    <3>1. dispatch' = [dispatch EXCEPT ![d].step = "done"]
      BY <2>6 DEF RequestDies
    <3>. QED
      BY <1>1, <3>1, WrittenDispatches
  <2>. QED
    BY <2>1, <2>2, <2>3, <2>4, <2>5, <2>6
<1>5. TypeOK'
  BY <1>1, <1>2, <1>3, <1>4 DEF TypeOK, DispatchRows
<1>. QED
  BY <1>2, <1>5 DEF Good, CaptureInv, CaptureStep, Keeps, LogGrows, RunsAttempt

LEMMA PolicyStep ==
  ASSUME CaptureInv, NEW j \in Jobs, ChangePolicy(j)
  PROVE  Good
<1>1. TypeOK'
  BY DEF CaptureInv, TypeOK, ChangePolicy
<1>. QED
  BY <1>1 DEF Good, ChangePolicy, CaptureInv, CaptureStep, Keeps, LogGrows, RunsAttempt

(* The operator, and the control plane where it writes the job.             *)
LEMMA OperatorSteps ==
  ASSUME CaptureInv, NEW j \in Jobs,
         \/ DenyDispatch(j) \/ Retry(j) \/ Cancel(j)
         \/ \E d \in Dispatches : MarkDispatched(d) /\ j \in dispatch[d].job
                                  /\ job' = Moved(j, "dispatched", job[j].attempts)
                                  /\ CanMove(j, "dispatched")
  PROVE  Good
<1>1. TypeOK /\ job[j].attempts \in 0 .. MaxAttempts
  BY DEF CaptureInv, TypeOK
<1>2. UNCHANGED <<log, accepted, worker, allowed, runs, faults>>
  BY DEF DenyDispatch, Retry, Cancel, MarkDispatched
<1>3. PICK status \in Statuses \ {"completed"} :
        job' = Moved(j, status, job[j].attempts)
  BY DEF DenyDispatch, Retry, Cancel, Statuses, Outcomes
<1>4. job[j].status \notin Terminal
  <2>1. job[j].status \in Statuses
    BY <1>1 DEF TypeOK
  <2>. QED
    BY <2>1, OnlyOpenJobsMove DEF DenyDispatch, Retry, Cancel, Terminal, Retryable
<1>5. dispatch' \in [Dispatches -> DispatchRows]
  <2>1. dispatch \in [Dispatches -> DispatchRows]
    BY <1>1 DEF TypeOK, DispatchRows
  <2>2. \/ dispatch' = dispatch
        \/ \E d \in Dispatches : dispatch' = [dispatch EXCEPT ![d].step = "done"]
    BY DEF DenyDispatch, Retry, Cancel, MarkDispatched
  <2>. QED
    BY <2>1, <2>2, WrittenDispatches
<1>6. /\ job' \in [Jobs -> JobRows] /\ job'[j].status = status
      /\ \A i \in Jobs \ {j} : job'[i].status = job[i].status
  BY <1>1, <1>3, WrittenJobs
<1>7. TypeOK'
  <2>1. UNCHANGED log /\ UNCHANGED accepted /\ UNCHANGED worker /\ UNCHANGED allowed
        /\ UNCHANGED runs /\ UNCHANGED faults
    BY <1>2
  <2>2. job' \in [Jobs -> JobRows] /\ dispatch' \in [Dispatches -> DispatchRows]
    BY <1>5, <1>6
  <2>. QED
    BY <1>1, <2>1, <2>2 DEF TypeOK, JobRows, DispatchRows
<1>8. Moves(j)
  BY <1>2, <1>4, <1>6 DEF Moves
<1>. QED
  BY <1>2, <1>7, <1>8 DEF Good, CaptureInv, CaptureStep, LogGrows, RunsAttempt

LEMMA MarkStep ==
  ASSUME CaptureInv, NEW d \in Dispatches, MarkDispatched(d)
  PROVE  Good
<1>1. PICK j \in dispatch[d].job :
        /\ dispatch' = [dispatch EXCEPT ![d].step = "done"]
        /\ job' = IF CanMove(j, "dispatched")
                  THEN Moved(j, "dispatched", job[j].attempts) ELSE job
        /\ UNCHANGED <<log, accepted, worker, allowed, runs, faults>>
  BY DEF MarkDispatched
<1>2. j \in Jobs
  BY DEF CaptureInv, TypeOK
<1>3. CASE CanMove(j, "dispatched")
  BY <1>1, <1>2, <1>3, OperatorSteps
<1>4. CASE ~ CanMove(j, "dispatched")
  <2>1. /\ UNCHANGED job /\ UNCHANGED log /\ UNCHANGED accepted /\ UNCHANGED worker
        /\ UNCHANGED allowed /\ UNCHANGED runs /\ UNCHANGED faults
    BY <1>1, <1>4
  <2>2. dispatch' \in [Dispatches -> DispatchRows]
    <3>1. dispatch \in [Dispatches -> DispatchRows]
      BY DEF CaptureInv, TypeOK, DispatchRows
    <3>. QED
      BY <1>1, <3>1, WrittenDispatches
  <2>3. TypeOK'
    BY <2>1, <2>2 DEF CaptureInv, TypeOK, DispatchRows
  <2>. QED
    BY <2>1, <2>3 DEF Good, CaptureInv, CaptureStep, Keeps, LogGrows, RunsAttempt
<1>. QED
  BY <1>3, <1>4

LEMMA LeaseStep ==
  ASSUME CaptureInv, NEW j \in Jobs, LeaseExpires(j)
  PROVE  Good
<1>1. job \in [Jobs -> JobRows] /\ [job[j] EXCEPT !.lease = "expired"] \in JobRows
  <2>1. job \in [Jobs -> JobRows]
    BY DEF CaptureInv, TypeOK, JobRows
  <2>2. job[j] \in JobRows
    BY <2>1
  <2>. QED
    BY <2>1, <2>2 DEF JobRows
<1>2. job' \in [Jobs -> JobRows] /\ Keeps
  BY <1>1 DEF LeaseExpires, Keeps, JobRows
<1>3. TypeOK'
  BY <1>2 DEF CaptureInv, TypeOK, LeaseExpires, JobRows
<1>. QED
  BY <1>2, <1>3 DEF Good, LeaseExpires, CaptureInv, CaptureStep, LogGrows, RunsAttempt

(* A claim opens no finished job.                                           *)
LEMMA TakeStep ==
  ASSUME TypeOK, NEW w \in Workers, NEW j \in Jobs, Take(w, j)
  PROVE  /\ job' \in [Jobs -> JobRows] /\ dispatch' \in [Dispatches -> DispatchRows]
         /\ runs' \in [Jobs -> 0 .. MaxRuns]
         /\ job[j].attempts + 1 \in Attempts
         /\ Moves(j) /\ UNCHANGED <<log, accepted, allowed>>
<1>1. job[j].attempts \in 0 .. MaxAttempts /\ job[j].attempts < MaxAttempts
  BY DEF TypeOK, Take
<1>2. job[j].attempts + 1 \in 1 .. MaxAttempts
  BY <1>1
<1>3. job[j].status \notin Terminal
  BY DEF Take, ClaimableDirectly, TakesDispatch, ClaimableBy, Terminal
<1>4. job' = [job EXCEPT ![j] = [status |-> "running", attempts |-> job[j].attempts + 1,
                                 lease |-> "live"]]
  BY DEF Take, TypeOK
<1>5. job' \in [Jobs -> JobRows]
  BY <1>2, <1>4 DEF TypeOK, JobRows, Statuses
<1>6. dispatch' \in [Dispatches -> DispatchRows]
  <2>1. dispatch \in [Dispatches -> DispatchRows]
    BY DEF TypeOK, DispatchRows
  <2>2. CASE UNCHANGED dispatch
    BY <2>1, <2>2
  <2>3. ASSUME NEW d \in Dispatches, dispatch' = [dispatch EXCEPT ![d].state = "consumed"]
        PROVE  dispatch' \in [Dispatches -> DispatchRows]
    BY <2>1, <2>3, WrittenDispatches DEF DispatchStates
  <2>. QED
    BY <2>2, <2>3 DEF Take
<1>7. runs' \in [Jobs -> 0 .. MaxRuns]
  BY DEF Take, TypeOK
<1>8. Moves(j) /\ UNCHANGED <<log, accepted, allowed>>
  BY <1>3, <1>4 DEF Moves, Take, TypeOK
<1>. QED
  BY <1>2, <1>5, <1>6, <1>7, <1>8 DEF Attempts

LEMMA ClaimStep ==
  ASSUME CaptureInv, NEW w \in Workers, Claim(w)
  PROVE  Good
<1>1. PICK j \in Jobs :
        /\ Take(w, j)
        /\ worker' = [worker EXCEPT ![w] = [Idle EXCEPT !.phase = "claimed", !.job = {j},
                                            !.attempt = job[j].attempts + 1]]
        /\ UNCHANGED faults
  BY DEF Claim
<1>2. TypeOK
  BY DEF CaptureInv
<1>3. /\ job' \in [Jobs -> JobRows] /\ dispatch' \in [Dispatches -> DispatchRows]
      /\ runs' \in [Jobs -> 0 .. MaxRuns]
      /\ job[j].attempts + 1 \in Attempts
      /\ Moves(j) /\ UNCHANGED <<log, accepted, allowed>>
  BY <1>1, <1>2, TakeStep
<1>. DEFINE new == [Idle EXCEPT !.phase = "claimed", !.job = {j},
                                !.attempt = job[j].attempts + 1]
<1>4. new \in WorkerRows /\ new.attempt \in Attempts /\ worker' = [worker EXCEPT ![w] = new]
  <2>1. job[j].attempts \in 0 .. MaxAttempts /\ job[j].attempts < MaxAttempts
    BY <1>1, <1>2 DEF TypeOK, Take
  <2>2. job[j].attempts + 1 \in 0 .. MaxAttempts
    BY <2>1
  <2>3. Idle \in WorkerRows
    BY DEF Idle, WorkerRows, Outcomes
  <2>4. new \in WorkerRows /\ new.attempt = job[j].attempts + 1
    <3>1. \A row \in WorkerRows, n \in 0 .. MaxAttempts :
            [row EXCEPT !.phase = "claimed", !.job = {j}, !.attempt = n] \in WorkerRows
      BY DEF WorkerRows
    <3>2. \A row \in WorkerRows, n \in 0 .. MaxAttempts :
            [row EXCEPT !.phase = "claimed", !.job = {j}, !.attempt = n].attempt = n
      BY DEF WorkerRows
    <3>. QED
      BY <2>2, <2>3, <3>1, <3>2
  <2>. QED
    BY <1>1, <1>3, <2>4
<1>. HIDE DEF new
<1>5. worker' \in [Workers -> WorkerRows] /\ \A v \in Workers : RunsAttempt(v)'
  BY <1>4, WorkersMoveOn
<1>6. TypeOK'
  BY <1>1, <1>2, <1>3, <1>5 DEF TypeOK, JobRows, DispatchRows, WorkerRows
<1>. QED
  BY <1>3, <1>5, <1>6 DEF Good, CaptureStep, LogGrows

LEMMA LostClaimStep ==
  ASSUME CaptureInv, NEW w \in Workers, ClaimReplyLost(w)
  PROVE  Good
<1>1. PICK j \in Jobs : Take(w, j)
  BY DEF ClaimReplyLost
<1>2. TypeOK /\ UNCHANGED worker /\ faults' \in 0 .. MaxFaults
  BY DEF CaptureInv, ClaimReplyLost, Fault, TypeOK
<1>3. /\ job' \in [Jobs -> JobRows] /\ dispatch' \in [Dispatches -> DispatchRows]
      /\ runs' \in [Jobs -> 0 .. MaxRuns]
      /\ Moves(j) /\ UNCHANGED <<log, accepted, allowed>>
  BY <1>1, <1>2, TakeStep
<1>4. TypeOK'
  BY <1>2, <1>3 DEF TypeOK, JobRows, DispatchRows
<1>. QED
  BY <1>2, <1>3, <1>4 DEF Good, CaptureInv, CaptureStep, LogGrows, RunsAttempt

(* A worker that only moves on.                                             *)
LEMMA QuietWorkerSteps ==
  ASSUME CaptureInv, NEW w \in Workers, Execute(w) \/ RefuseCapture(w) \/ Crash(w)
  PROVE  Good
<1>1. UNCHANGED <<job, log, accepted, dispatch, allowed, runs>>
  BY DEF Execute, RefuseCapture, Crash
<1>2. faults' \in 0 .. MaxFaults
  BY DEF Execute, RefuseCapture, Crash, Fault, CaptureInv, TypeOK
<1>3. /\ worker' \in [Workers -> WorkerRows]
      /\ \A v \in Workers : RunsAttempt(v)'
  <2>1. CASE Execute(w)
    <3>1. PICK outcome \in Outcomes :
            worker' = [worker EXCEPT ![w].phase = "executed", ![w].outcome = outcome]
      BY <2>1 DEF Execute, Outcomes
    <3>. DEFINE new == [worker[w] EXCEPT !.phase = "executed", !.outcome = outcome]
    <3>2. /\ new \in WorkerRows /\ worker' = [worker EXCEPT ![w] = new]
          /\ new.attempt = worker[w].attempt
      BY <3>1, WorkersMoveOn DEF WorkerRows
    <3>3. worker[w].attempt \in Attempts
      BY <2>1 DEF Execute, CaptureInv, RunsAttempt
    <3>. HIDE DEF new
    <3>. QED
      BY <3>2, <3>3, WorkersMoveOn
  <2>2. CASE RefuseCapture(w) \/ Crash(w)
    BY <2>2, WorkersRest DEF RefuseCapture, Crash
  <2>. QED
    BY <2>1, <2>2
<1>4. TypeOK'
  BY <1>1, <1>2, <1>3 DEF CaptureInv, TypeOK, WorkerRows
<1>. QED
  BY <1>1, <1>3, <1>4 DEF Good, CaptureStep, Keeps, LogGrows

LEMMA RecordStep ==
  ASSUME CaptureInv, NEW w \in Workers, RecordAttempt(w)
  PROVE  Good
<1>1. PICK j \in worker[w].job : LET n == worker[w].attempt IN
        /\ worker[w].phase = "executed"
        /\ IF log[j][n] = "none"
           THEN /\ log' = [log EXCEPT ![j][n] = worker[w].outcome]
                /\ worker' = [worker EXCEPT ![w].phase = "recorded"]
           ELSE /\ worker' = [worker EXCEPT ![w] = Idle]
                /\ UNCHANGED log
  BY DEF RecordAttempt
<1>. DEFINE n == worker[w].attempt
<1>2. /\ TypeOK /\ j \in Jobs /\ n \in Attempts /\ worker[w].outcome \in Outcomes
      /\ UNCHANGED <<job, accepted, dispatch, allowed, runs, faults>>
  BY <1>1 DEF CaptureInv, TypeOK, RunsAttempt, RecordAttempt
<1>3. /\ worker' \in [Workers -> WorkerRows]
      /\ \A v \in Workers : RunsAttempt(v)'
  <2>1. CASE log[j][n] = "none"
    <3>. DEFINE new == [worker[w] EXCEPT !.phase = "recorded"]
    <3>1. /\ new \in WorkerRows /\ worker' = [worker EXCEPT ![w] = new]
          /\ new.attempt = n
      BY <1>1, <2>1, WorkersMoveOn DEF WorkerRows
    <3>. HIDE DEF new
    <3>. QED
      BY <1>2, <3>1, WorkersMoveOn
  <2>2. CASE log[j][n] # "none"
    BY <1>1, <2>2, WorkersRest
  <2>. QED
    BY <2>1, <2>2
<1>4. log' \in [Jobs -> [Attempts -> Outcomes \cup {"none"}]] /\ LogGrows
  <2>1. log[j] \in [Attempts -> Outcomes \cup {"none"}]
    BY <1>2 DEF TypeOK
  <2>2. CASE log[j][n] = "none"
    <3>1. log' = [log EXCEPT ![j] = [log[j] EXCEPT ![n] = worker[w].outcome]]
      BY <1>1, <2>2
    <3>2. [log[j] EXCEPT ![n] = worker[w].outcome] \in [Attempts -> Outcomes \cup {"none"}]
      BY <1>2, <2>1
    <3>. QED
      BY <1>2, <2>1, <2>2, <3>1, <3>2 DEF TypeOK, LogGrows
  <2>3. CASE log[j][n] # "none"
    BY <1>1, <1>2, <2>3 DEF TypeOK, LogGrows
  <2>. QED
    BY <2>2, <2>3
<1>5. TypeOK'
  BY <1>2, <1>3, <1>4 DEF TypeOK, WorkerRows
<1>. QED
  BY <1>2, <1>3, <1>4, <1>5 DEF Good, CaptureStep, Keeps

(* Whatever has happened to the job since it was claimed, a saved outcome   *)
(* leaves a finished one as it is.                                          *)
LEMMA SaveStep ==
  ASSUME CaptureInv, NEW w \in Workers, SaveOutcome(w)
  PROVE  Good
<1>1. PICK j \in worker[w].job :
        /\ worker[w].phase = "recorded" /\ worker[w].outcome # "completed"
        /\ job' = IF CanMove(j, worker[w].outcome)
                  THEN Moved(j, worker[w].outcome, worker[w].attempt) ELSE job
        /\ worker' = [worker EXCEPT ![w] = Idle]
        /\ UNCHANGED <<log, accepted, dispatch, allowed, runs, faults>>
  BY DEF SaveOutcome
<1>2. /\ TypeOK /\ j \in Jobs /\ worker[w].attempt \in 0 .. MaxAttempts
      /\ worker[w].outcome \in Statuses /\ job[j].status \in Statuses
  BY DEF CaptureInv, TypeOK, Statuses
<1>3. /\ worker' \in [Workers -> WorkerRows]
      /\ \A v \in Workers : RunsAttempt(v)'
  BY <1>1, WorkersRest
<1>4. job' \in [Jobs -> JobRows] /\ CaptureStep
  <2>1. CASE CanMove(j, worker[w].outcome)
    <3>1. /\ job' \in [Jobs -> JobRows]
          /\ job'[j].status = worker[w].outcome
          /\ \A i \in Jobs \ {j} : job'[i].status = job[i].status
      BY <1>1, <1>2, <2>1, WrittenJobs
    <3>2. Moves(j)
      BY <1>1, <1>2, <2>1, <3>1, OnlyOpenJobsMove DEF Moves
    <3>. QED
      BY <1>2, <3>1, <3>2 DEF CaptureStep
  <2>2. CASE ~ CanMove(j, worker[w].outcome)
    BY <1>1, <1>2, <2>2 DEF TypeOK, JobRows, CaptureStep, Keeps
  <2>. QED
    BY <2>1, <2>2
<1>5. TypeOK'
  BY <1>1, <1>2, <1>3, <1>4 DEF TypeOK, JobRows, WorkerRows
<1>. QED
  BY <1>1, <1>3, <1>4, <1>5 DEF Good, LogGrows

LEMMA AcceptStep ==
  ASSUME CaptureInv, NEW w \in Workers, AcceptCapture(w)
  PROVE  Good
<1>1. PICK j \in worker[w].job : CommitCapture(w, j)
  BY DEF AcceptCapture
<1>2. /\ TypeOK /\ j \in Jobs /\ worker[w].attempt \in Attempts
      /\ worker' = [worker EXCEPT ![w] = Idle] /\ UNCHANGED faults
  BY <1>1 DEF CaptureInv, TypeOK, RunsAttempt, CommitCapture, AcceptCapture
<1>3. /\ worker' \in [Workers -> WorkerRows]
      /\ \A v \in Workers : RunsAttempt(v)'
  BY <1>2, WorkersRest
<1>4. /\ job' \in [Jobs -> JobRows]
      /\ job'[j].status = "completed"
      /\ \A i \in Jobs \ {j} : job'[i].status = job[i].status
  <2>1. "completed" \in Statuses /\ worker[w].attempt \in 0 .. MaxAttempts
    BY <1>2 DEF Statuses, Outcomes, Attempts
  <2>. QED
    BY <1>1, <1>2, <2>1, WrittenJobs DEF CommitCapture
<1>5. Completes(j)
  BY <1>1, <1>2, <1>4 DEF Completes, CommitCapture, Accepts, TypeOK
<1>6. TypeOK'
  BY <1>1, <1>2, <1>3, <1>4 DEF TypeOK, JobRows, WorkerRows, CommitCapture, Attempts
<1>. QED
  BY <1>1, <1>2, <1>3, <1>5, <1>6 DEF Good, CaptureStep, LogGrows, CommitCapture

(***************************************************************************)
(* Every step, and the theorem.                                            *)
(***************************************************************************)

LEMMA CaptureInit == Init => CaptureInv
<1>. SUFFICES ASSUME Init PROVE CaptureInv
  OBVIOUS
<1>1. TypeOK
  BY DEF Init, TypeOK, Statuses, Outcomes, DispatchStates, NoDispatch, Idle
<1>. QED
  BY <1>1 DEF Init, CaptureInv, AcceptedIffCompleted, AcceptanceHasItsAttempt, RunsAttempt, Idle

LEMMA EveryStepIsGood ==
  ASSUME CaptureInv, [Next]_vars
  PROVE  Good
<1>1. CASE UNCHANGED vars
  BY <1>1 DEF vars, Good, CaptureInv, TypeOK, CaptureStep, Keeps, LogGrows, RunsAttempt
<1>2. ASSUME NEW w \in Workers, WorkerStep(w) \/ Crash(w) \/ ClaimReplyLost(w)
      PROVE  Good
  BY <1>2, ClaimStep, LostClaimStep, QuietWorkerSteps, RecordStep, SaveStep, AcceptStep
  DEF WorkerStep
<1>3. ASSUME NEW d \in Dispatches, DispatchStep(d)
      PROVE  Good
  BY <1>3, DispatchSteps, MarkStep DEF DispatchStep
<1>4. ASSUME NEW j \in Jobs,
             DenyDispatch(j) \/ Retry(j) \/ Cancel(j) \/ ChangePolicy(j) \/ LeaseExpires(j)
      PROVE  Good
  BY <1>4, OperatorSteps, PolicyStep, LeaseStep
<1>. QED
  BY <1>1, <1>2, <1>3, <1>4 DEF Next

LEMMA CaptureNext == CaptureInv /\ [Next]_vars => CaptureInv'
<1>. SUFFICES ASSUME CaptureInv, [Next]_vars PROVE CaptureInv'
  OBVIOUS
<1>1. Good
  BY EveryStepIsGood
<1>2. accepted' \in [Jobs -> 0 .. MaxAttempts]
  BY <1>1 DEF Good, TypeOK
<1>3. AcceptedIffCompleted' /\ AcceptanceHasItsAttempt'
  BY <1>1, <1>2, StepsKeepCaptures DEF Good, CaptureInv
<1>. QED
  BY <1>1, <1>3 DEF Good, CaptureInv

(* Whatever leases expire, claims are lost, workers die, requests dispatch  *)
(* and the operator retries or cancels: a capture is accepted for a         *)
(* completed job alone and under the attempt on record, and a finished job  *)
(* is never opened again, although acceptBrowserCapture and transition are  *)
(* not fenced by the lease of the claim.                                    *)
THEOREM CapturesAccepted == Spec => CapturesAreAcceptedOnce
<1>1. CaptureInv /\ [Next]_vars =>
        [\A j \in Jobs : job[j].status \in Terminal => job'[j].status = job[j].status]_vars
  <2>. SUFFICES ASSUME CaptureInv, [Next]_vars, NEW j \in Jobs, job[j].status \in Terminal
                PROVE  job'[j].status = job[j].status
    OBVIOUS
  <2>1. CaptureStep
    BY EveryStepIsGood DEF Good
  <2>. QED
    BY <2>1 DEF CaptureStep, Keeps, Moves, Completes, Terminal
<1>2. CaptureInv => TypeOK /\ AcceptedIffCompleted /\ AcceptanceHasItsAttempt
  BY DEF CaptureInv
<1>. QED
  BY <1>1, <1>2, CaptureInit, CaptureNext, PTL
  DEF Spec, CapturesAreAcceptedOnce, TerminalIsFinal

(***************************************************************************)
(* Dispatches.                                                             *)
(***************************************************************************)

(* The dispatches that wait to be used or to run out: a worker can claim    *)
(* the job, or it is known that none will.                                  *)
Waiting(j) == {d \in Dispatches :
  /\ dispatch[d].job = {j} /\ dispatch[d].step # "mark"
  /\ dispatch[d].state \in {"accepted", "expired"}}

(* Those a worker has used, for a job that another request had dispatched,  *)
(* before their own request has come to mark the job.                       *)
Overtaken(j) == {d \in Dispatches :
  /\ dispatch[d].job = {j} /\ dispatch[d].step = "mark"
  /\ dispatch[d].state = "consumed"}

One(b) == IF b THEN 1 ELSE 0
Owed(j) == One(job[j].status = "dispatched")

(* The states of a dispatch and the steps of its request go together.       *)
InStep(d) ==
  /\ dispatch[d].step = "mark" => dispatch[d].state \in {"accepted", "expired", "consumed"}
  /\ dispatch[d].step = "wake" => dispatch[d].state \in {"pending_wake", "expired"}
  /\ dispatch[d].state # "none" => \E j \in Jobs : dispatch[d].job = {j}

(* The inductive invariant of the dispatches.  One waiting dispatch for a   *)
(* dispatched job is not enough: an overtaken request may still mark the    *)
(* job, which a retry has queued again, so that it needs one as well.       *)
BackedInv ==
  /\ \A j \in Jobs : Cardinality(Overtaken(j)) + Owed(j) <= Cardinality(Waiting(j))
  /\ \A d \in Dispatches : InStep(d)

(* What dispatch d adds to that balance.                                    *)
Balance(j, d) == One(d \in Overtaken(j)) + Owed(j) - One(d \in Waiting(j))

(* A step writes one dispatch and lowers no balance, or it writes none and  *)
(* dispatches no job.                                                       *)
WritesOne(d) == \A e \in Dispatches \ {d} : dispatch'[e] = dispatch[e]
BackedStep ==
  \/ \E d \in Dispatches : WritesOne(d) /\ \A j \in Jobs : Balance(j, d)' <= Balance(j, d)
  \/ dispatch' = dispatch /\ \A j \in Jobs : Owed(j)' <= Owed(j)

(* The size of a set, counted apart from one element.                       *)
LEMMA CountedApart ==
  ASSUME NEW S \in SUBSET Dispatches, NEW d \in Dispatches
  PROVE  /\ Cardinality(S) = Cardinality(S \ {d}) + One(d \in S)
         /\ Cardinality(S \ {d}) \in Nat
<1>1. IsFiniteSet(Dispatches)
  BY FS_Interval DEF Dispatches
<1>2. IsFiniteSet(S)
  BY <1>1, FS_Subset
<1>3. IsFiniteSet(S \ {d}) /\ Cardinality(S \ {d}) \in Nat /\ Cardinality(S) \in Nat
  BY <1>2, FS_Subset, FS_CardinalityType
<1>4. CASE d \in S
  BY <1>2, <1>3, <1>4, FS_RemoveElement DEF One
<1>5. CASE d \notin S
  <2>1. S \ {d} = S
    BY <1>5
  <2>. QED
    BY <1>3, <1>5, <2>1 DEF One
<1>. QED
  BY <1>4, <1>5

LEMMA StepsKeepBalance ==
  ASSUME BackedInv, BackedStep, NEW j \in Jobs
  PROVE  Cardinality(Overtaken(j)') + Owed(j)' <= Cardinality(Waiting(j)')
<1>1. Cardinality(Overtaken(j)) + Owed(j) <= Cardinality(Waiting(j))
  BY DEF BackedInv
<1>2. /\ Overtaken(j) \in SUBSET Dispatches /\ Waiting(j) \in SUBSET Dispatches
      /\ Overtaken(j)' \in SUBSET Dispatches /\ Waiting(j)' \in SUBSET Dispatches
  BY DEF Overtaken, Waiting
<1>3. Owed(j) \in {0, 1} /\ Owed(j)' \in {0, 1}
  BY DEF Owed, One
<1>4. CASE dispatch' = dispatch /\ \A i \in Jobs : Owed(i)' <= Owed(i)
  <2>1. Overtaken(j)' = Overtaken(j) /\ Waiting(j)' = Waiting(j)
    BY <1>4 DEF Overtaken, Waiting
  <2>2. Owed(j)' <= Owed(j)
    BY <1>4
  <2>3. Cardinality(Overtaken(j)) \in Nat /\ Cardinality(Waiting(j)) \in Nat
    <3>1. IsFiniteSet(Dispatches)
      BY FS_Interval DEF Dispatches
    <3>. QED
      BY <1>2, <3>1, FS_Subset, FS_CardinalityType
  <2>. QED
    BY <1>1, <1>3, <2>1, <2>2, <2>3
<1>5. ASSUME NEW d \in Dispatches, WritesOne(d), Balance(j, d)' <= Balance(j, d)
      PROVE  Cardinality(Overtaken(j)') + Owed(j)' <= Cardinality(Waiting(j)')
  <2>1. Overtaken(j)' \ {d} = Overtaken(j) \ {d} /\ Waiting(j)' \ {d} = Waiting(j) \ {d}
    BY <1>5 DEF WritesOne, Overtaken, Waiting
  <2>. DEFINE o == Cardinality(Overtaken(j) \ {d})
              w == Cardinality(Waiting(j) \ {d})
  <2>2. /\ Cardinality(Overtaken(j)) = o + One(d \in Overtaken(j)) /\ o \in Nat
        /\ Cardinality(Waiting(j)) = w + One(d \in Waiting(j)) /\ w \in Nat
    BY <1>2, CountedApart
  <2>3. /\ Cardinality(Overtaken(j)') = o + One(d \in Overtaken(j)')
        /\ Cardinality(Waiting(j)') = w + One(d \in Waiting(j)')
    BY <1>2, <2>1, CountedApart
  <2>. HIDE DEF o, w
  <2>4. /\ One(d \in Overtaken(j)) \in {0, 1} /\ One(d \in Waiting(j)) \in {0, 1}
        /\ One(d \in Overtaken(j)') \in {0, 1} /\ One(d \in Waiting(j)') \in {0, 1}
    BY DEF One
  <2>5. One(d \in Overtaken(j)') + Owed(j)' - One(d \in Waiting(j)')
          <= One(d \in Overtaken(j)) + Owed(j) - One(d \in Waiting(j))
    BY <1>5 DEF Balance
  <2>. QED
    BY <1>1, <1>3, <2>2, <2>3, <2>4, <2>5
<1>. QED
  BY <1>4, <1>5 DEF BackedStep

(* A write of one dispatch keeps the others in step.                        *)
LEMMA OthersInStep ==
  ASSUME BackedInv, NEW d \in Dispatches, WritesOne(d), InStep(d)'
  PROVE  \A e \in Dispatches : InStep(e)'
BY DEF BackedInv, WritesOne, InStep

(* The control plane, where it writes only the dispatch.                    *)
LEMMA DispatchesBacked ==
  ASSUME TypeOK, BackedInv, NEW d \in Dispatches,
         \/ \E j \in Jobs : CreateDispatch(d, j)
         \/ WakeSucceeds(d) \/ WakeFails(d) \/ DispatchRunsOut(d) \/ CleanUpDispatch(d)
         \/ RequestDies(d)
  PROVE  BackedStep /\ \A e \in Dispatches : InStep(e)'
<1>1. /\ dispatch \in [Dispatches -> DispatchRows] /\ dispatch[d] \in DispatchRows
      /\ InStep(d)
  BY DEF TypeOK, DispatchRows, BackedInv
<1>2. UNCHANGED job
  BY DEF CreateDispatch, WakeSucceeds, WakeFails, DispatchRunsOut, CleanUpDispatch, RequestDies
<1>3. \A j \in Jobs : Owed(j)' = Owed(j) /\ Owed(j) \in {0, 1}
  BY <1>2 DEF Owed, One
<1>. DEFINE Fine ==
       /\ WritesOne(d) /\ InStep(d)'
       /\ \A j \in Jobs : (d \in Waiting(j) => d \in Waiting(j)')
                          /\ (d \in Overtaken(j)' => d \in Overtaken(j))
<1>4. ASSUME NEW j \in Jobs, CreateDispatch(d, j) PROVE Fine
  <2>1. /\ WritesOne(d) /\ dispatch[d].state = "none"
        /\ dispatch'[d] = [state |-> "pending_wake", job |-> {j}, late |-> FALSE, step |-> "wake"]
    BY <1>1, <1>4 DEF CreateDispatch, WritesOne, DispatchRows
  <2>. QED
    BY <1>1, <1>4, <2>1 DEF InStep, Waiting, Overtaken, CreateDispatch
<1>5. ASSUME WakeSucceeds(d) PROVE Fine
  <2>1. /\ WritesOne(d) /\ dispatch'[d].job = dispatch[d].job
        /\ IF dispatch[d].state = "pending_wake"
           THEN dispatch'[d].state = "accepted" /\ dispatch'[d].step = "mark"
           ELSE dispatch'[d].state = dispatch[d].state /\ dispatch'[d].step = "done"
    BY <1>1, <1>5 DEF WakeSucceeds, WritesOne, DispatchRows
  <2>. QED
    BY <1>1, <1>5, <2>1 DEF InStep, Waiting, Overtaken, WakeSucceeds
<1>6. ASSUME WakeFails(d) PROVE Fine
  <2>1. /\ WritesOne(d) /\ dispatch'[d].job = dispatch[d].job /\ dispatch'[d].step = "done"
        /\ dispatch'[d].state = IF dispatch[d].state = "pending_wake" THEN "rejected"
                                ELSE dispatch[d].state
    BY <1>1, <1>6 DEF WakeFails, Rejected, WritesOne, DispatchRows
  <2>. QED
    BY <1>1, <1>6, <2>1 DEF InStep, Waiting, Overtaken, WakeFails
<1>7. ASSUME DispatchRunsOut(d) PROVE Fine
  <2>1. /\ WritesOne(d) /\ dispatch'[d].job = dispatch[d].job
        /\ dispatch'[d].step = dispatch[d].step /\ dispatch'[d].state = dispatch[d].state
    BY <1>1, <1>7 DEF DispatchRunsOut, WritesOne, DispatchRows
  <2>. QED
    BY <1>1, <1>7, <2>1 DEF InStep, Waiting, Overtaken, DispatchRunsOut
<1>8. ASSUME CleanUpDispatch(d) PROVE Fine
  <2>1. /\ WritesOne(d) /\ dispatch'[d].job = dispatch[d].job
        /\ dispatch'[d].step = dispatch[d].step /\ dispatch'[d].state = "expired"
    BY <1>1, <1>8 DEF CleanUpDispatch, WritesOne, DispatchRows
  <2>. QED
    BY <1>1, <1>8, <2>1 DEF InStep, Waiting, Overtaken, CleanUpDispatch
<1>9. ASSUME RequestDies(d) PROVE Fine
  <2>1. /\ WritesOne(d) /\ dispatch'[d].job = dispatch[d].job
        /\ dispatch'[d].step = "done" /\ dispatch'[d].state = dispatch[d].state
    BY <1>1, <1>9 DEF RequestDies, WritesOne, DispatchRows
  <2>. QED
    BY <1>1, <1>9, <2>1 DEF InStep, Waiting, Overtaken, RequestDies
<1>10. Fine
  BY <1>4, <1>5, <1>6, <1>7, <1>8, <1>9
<1>. HIDE DEF Fine
<1>11. \A j \in Jobs : Balance(j, d)' <= Balance(j, d)
  BY <1>3, <1>10 DEF Fine, Balance, One
<1>. QED
  BY <1>10, <1>11, OthersInStep DEF Fine, BackedStep

(* A request marks its job, with the dispatch it has or, overtaken, with    *)
(* the one of the request that overtook it.                                 *)
LEMMA MarkBacked ==
  ASSUME TypeOK, BackedInv, NEW d \in Dispatches, MarkDispatched(d)
  PROVE  BackedStep /\ \A e \in Dispatches : InStep(e)'
<1>1. PICK j \in dispatch[d].job :
        /\ dispatch[d].step = "mark"
        /\ dispatch' = [dispatch EXCEPT ![d].step = "done"]
        /\ job' = IF CanMove(j, "dispatched")
                  THEN Moved(j, "dispatched", job[j].attempts) ELSE job
  BY DEF MarkDispatched
<1>2. /\ dispatch \in [Dispatches -> DispatchRows] /\ dispatch[d] \in DispatchRows
      /\ InStep(d) /\ job \in [Jobs -> JobRows]
  BY DEF TypeOK, DispatchRows, JobRows, BackedInv
<1>3. /\ j \in Jobs /\ dispatch[d].job = {j}
      /\ dispatch[d].state \in {"accepted", "expired", "consumed"}
  BY <1>1, <1>2 DEF InStep, DispatchRows
<1>4. WritesOne(d) /\ InStep(d)'
  BY <1>1, <1>2 DEF WritesOne, InStep, DispatchRows
<1>5. dispatch'[d].step = "done" /\ dispatch'[d].job = {j}
      /\ dispatch'[d].state = dispatch[d].state
  BY <1>1, <1>2, <1>3 DEF DispatchRows
<1>6. \A i \in Jobs : /\ Owed(i) \in {0, 1} /\ Owed(i)' \in {0, 1}
                      /\ i # j => Owed(i)' = Owed(i)
  BY <1>1, <1>2, <1>3 DEF Owed, One, Moved, JobRows
<1>7. ASSUME NEW i \in Jobs PROVE Balance(i, d)' <= Balance(i, d)
  <2>1. CASE i # j
    <3>1. /\ d \notin Overtaken(i) /\ d \notin Overtaken(i)'
          /\ d \notin Waiting(i) /\ d \notin Waiting(i)'
      BY <1>3, <1>5, <2>1 DEF Overtaken, Waiting
    <3>. QED
      BY <1>6, <2>1, <3>1 DEF Balance, One
  <2>2. CASE i = j /\ dispatch[d].state = "consumed"
    <3>1. /\ d \in Overtaken(i) /\ d \notin Overtaken(i)'
          /\ d \notin Waiting(i) /\ d \notin Waiting(i)'
      BY <1>1, <1>3, <1>5, <2>2 DEF Overtaken, Waiting
    <3>. QED
      BY <1>6, <3>1 DEF Balance, One
  <2>3. CASE i = j /\ dispatch[d].state # "consumed"
    <3>1. /\ d \notin Overtaken(i) /\ d \notin Overtaken(i)'
          /\ d \notin Waiting(i) /\ d \in Waiting(i)'
      BY <1>1, <1>3, <1>5, <2>3 DEF Overtaken, Waiting
    <3>. QED
      BY <1>6, <3>1 DEF Balance, One
  <2>. QED
    BY <2>1, <2>2, <2>3
<1>. QED
  BY <1>4, <1>7, OthersInStep DEF BackedStep

(* A claim uses up one dispatch of a job that is no longer dispatched.      *)
LEMMA TakeBacked ==
  ASSUME TypeOK, BackedInv, NEW w \in Workers, NEW j \in Jobs, Take(w, j)
  PROVE  BackedStep /\ \A e \in Dispatches : InStep(e)'
<1>1. /\ dispatch \in [Dispatches -> DispatchRows] /\ job \in [Jobs -> JobRows]
  BY DEF TypeOK, DispatchRows, JobRows
<1>2. \A i \in Jobs : /\ Owed(i) \in {0, 1} /\ Owed(i)' \in {0, 1}
                      /\ i # j => Owed(i)' = Owed(i)
  BY <1>1 DEF Take, Owed, One
<1>3. Owed(j)' = 0
  <2>1. job'[j].status = "running"
    BY <1>1 DEF Take
  <2>. QED
    BY <2>1 DEF Owed, One
<1>4. CASE UNCHANGED dispatch
  <2>1. \A i \in Jobs : Owed(i)' <= Owed(i)
    BY <1>2, <1>3
  <2>. QED
    BY <1>4, <2>1 DEF BackedStep, BackedInv, InStep
<1>5. ASSUME NEW d \in Dispatches, TakesDispatch(d, j),
             dispatch' = [dispatch EXCEPT ![d].state = "consumed"]
      PROVE  BackedStep /\ \A e \in Dispatches : InStep(e)'
  <2>1. /\ dispatch[d] \in DispatchRows /\ InStep(d) /\ dispatch[d].job = {j}
        /\ \/ dispatch[d].state = "accepted" /\ job[j].status = "dispatched"
           \/ dispatch[d].state = "consumed"
    BY <1>1, <1>5 DEF BackedInv, TakesDispatch, ClaimableBy
  <2>2. /\ dispatch'[d].state = "consumed" /\ dispatch'[d].job = {j}
        /\ dispatch'[d].step = dispatch[d].step
    BY <1>1, <1>5, <2>1 DEF DispatchRows
  <2>3. WritesOne(d) /\ InStep(d)'
    BY <1>1, <1>5, <2>1, <2>2 DEF WritesOne, InStep, DispatchRows
  <2>4. ASSUME NEW i \in Jobs PROVE Balance(i, d)' <= Balance(i, d)
    <3>1. CASE i # j
      <4>1. /\ d \notin Overtaken(i) /\ d \notin Overtaken(i)'
            /\ d \notin Waiting(i) /\ d \notin Waiting(i)'
        BY <2>1, <2>2, <3>1 DEF Overtaken, Waiting
      <4>. QED
        BY <1>2, <3>1, <4>1 DEF Balance, One
    <3>2. CASE i = j /\ dispatch[d].state = "consumed"
      <4>1. /\ d \in Overtaken(i)' <=> d \in Overtaken(i)
            /\ d \notin Waiting(i) /\ d \notin Waiting(i)'
        BY <2>1, <2>2, <3>2 DEF Overtaken, Waiting
      <4>. QED
        BY <1>2, <1>3, <3>2, <4>1 DEF Balance, One
    <3>3. CASE i = j /\ dispatch[d].state # "consumed" /\ dispatch[d].step = "mark"
      <4>1. d \notin Overtaken(i) /\ d \notin Waiting(i) /\ d \notin Waiting(i)'
        BY <2>1, <2>2, <3>3 DEF Overtaken, Waiting
      <4>2. Owed(i) = 1
        BY <2>1, <3>3 DEF Owed, One
      <4>. QED
        BY <1>3, <3>3, <4>1, <4>2 DEF Balance, One
    <3>4. CASE i = j /\ dispatch[d].state # "consumed" /\ dispatch[d].step # "mark"
      <4>1. /\ d \notin Overtaken(i) /\ d \in Waiting(i)
            /\ d \notin Overtaken(i)' /\ d \notin Waiting(i)'
        BY <2>1, <2>2, <3>4 DEF Overtaken, Waiting
      <4>2. Owed(i) = 1
        BY <2>1, <3>4 DEF Owed, One
      <4>. QED
        BY <1>3, <3>4, <4>1, <4>2 DEF Balance, One
    <3>. QED
      BY <3>1, <3>2, <3>3, <3>4
  <2>. QED
    BY <2>3, <2>4, OthersInStep DEF BackedStep
<1>. QED
  BY <1>4, <1>5 DEF Take

(* No other step dispatches a job.                                          *)
LEMMA OthersBacked ==
  ASSUME TypeOK, BackedInv, UNCHANGED dispatch,
         \A j \in Jobs : job'[j].status = "dispatched" => job[j].status = "dispatched"
  PROVE  BackedStep /\ \A e \in Dispatches : InStep(e)'
<1>1. \A j \in Jobs : Owed(j)' <= Owed(j)
  BY DEF Owed, One
<1>. QED
  BY <1>1 DEF BackedStep, BackedInv, InStep

LEMMA JobWritesBacked ==
  ASSUME TypeOK, BackedInv, NEW j \in Jobs, UNCHANGED dispatch,
         NEW status \in Statuses \ {"dispatched"}, NEW attempts,
         job' = Moved(j, status, attempts) \/ job' = job
  PROVE  BackedStep /\ \A e \in Dispatches : InStep(e)'
<1>1. ASSUME NEW i \in Jobs, job'[i].status = "dispatched"
      PROVE  job[i].status = "dispatched"
  <2>1. job \in [Jobs -> JobRows]
    BY DEF TypeOK, JobRows
  <2>2. CASE job' = Moved(j, status, attempts)
    BY <1>1, <2>1, <2>2 DEF Moved
  <2>3. CASE job' = job
    BY <1>1, <2>3
  <2>. QED
    BY <2>2, <2>3
<1>. QED
  BY <1>1, OthersBacked

LEMMA EveryStepBacked ==
  ASSUME TypeOK, BackedInv, [Next]_vars
  PROVE  BackedStep /\ \A e \in Dispatches : InStep(e)'
<1>. DEFINE Goal == BackedStep /\ \A e \in Dispatches : InStep(e)'
<1>1. CASE UNCHANGED vars
  BY <1>1, OthersBacked DEF vars
<1>2. ASSUME NEW w \in Workers, WorkerStep(w) \/ Crash(w) \/ ClaimReplyLost(w)
      PROVE  Goal
  <2>1. CASE Claim(w) \/ ClaimReplyLost(w)
    <3>1. PICK j \in Jobs : Take(w, j)
      BY <2>1 DEF Claim, ClaimReplyLost
    <3>. QED
      BY <3>1, TakeBacked
  <2>2. CASE Execute(w) \/ RecordAttempt(w) \/ RefuseCapture(w) \/ Crash(w)
    BY <2>2, OthersBacked DEF Execute, RecordAttempt, RefuseCapture, Crash
  <2>3. CASE SaveOutcome(w)
    <3>1. PICK j \in worker[w].job :
            \/ job' = Moved(j, worker[w].outcome, worker[w].attempt)
            \/ job' = job
      BY <2>3 DEF SaveOutcome
    <3>2. j \in Jobs /\ worker[w].outcome \in Statuses \ {"dispatched"} /\ UNCHANGED dispatch
      BY <2>3 DEF TypeOK, SaveOutcome, Statuses, Outcomes
    <3>. QED
      BY <3>1, <3>2, JobWritesBacked
  <2>4. CASE AcceptCapture(w)
    <3>1. PICK j \in worker[w].job : job' = Moved(j, "completed", worker[w].attempt)
      BY <2>4 DEF AcceptCapture, CommitCapture
    <3>2. j \in Jobs /\ "completed" \in Statuses \ {"dispatched"} /\ UNCHANGED dispatch
      BY <2>4 DEF TypeOK, AcceptCapture, CommitCapture, Statuses, Outcomes
    <3>. QED
      BY <3>1, <3>2, JobWritesBacked
  <2>. QED
    BY <1>2, <2>1, <2>2, <2>3, <2>4 DEF WorkerStep
<1>3. ASSUME NEW d \in Dispatches, DispatchStep(d)
      PROVE  Goal
  BY <1>3, DispatchesBacked, MarkBacked DEF DispatchStep
<1>4. ASSUME NEW j \in Jobs,
             DenyDispatch(j) \/ Retry(j) \/ Cancel(j) \/ ChangePolicy(j) \/ LeaseExpires(j)
      PROVE  Goal
  <2>1. CASE DenyDispatch(j) \/ Retry(j) \/ Cancel(j)
    <3>1. PICK status \in Statuses \ {"dispatched"} : job' = Moved(j, status, job[j].attempts)
      BY <2>1 DEF DenyDispatch, Retry, Cancel, Statuses, Outcomes
    <3>2. UNCHANGED dispatch
      BY <2>1 DEF DenyDispatch, Retry, Cancel
    <3>. QED
      BY <3>1, <3>2, JobWritesBacked
  <2>2. CASE ChangePolicy(j)
    BY <2>2, OthersBacked DEF ChangePolicy
  <2>3. CASE LeaseExpires(j)
    <3>1. UNCHANGED dispatch /\ \A i \in Jobs : job'[i].status = job[i].status
      BY <2>3 DEF LeaseExpires, TypeOK
    <3>. QED
      BY <3>1, OthersBacked
  <2>. QED
    BY <1>4, <2>1, <2>2, <2>3
<1>. QED
  BY <1>1, <1>2, <1>3, <1>4 DEF Next

LEMMA BackedInit == Init => BackedInv
<1>. SUFFICES ASSUME Init PROVE BackedInv
  OBVIOUS
<1>1. ASSUME NEW j \in Jobs
      PROVE  Overtaken(j) = {} /\ Waiting(j) = {} /\ Owed(j) = 0
  BY DEF Init, NoDispatch, Overtaken, Waiting, Owed, One
<1>2. Cardinality({}) = 0
  BY FS_EmptySet
<1>3. \A d \in Dispatches : InStep(d)
  BY DEF Init, NoDispatch, InStep
<1>. QED
  BY <1>1, <1>2, <1>3 DEF BackedInv

LEMMA BackedNext == TypeOK /\ BackedInv /\ [Next]_vars => BackedInv'
BY EveryStepBacked, StepsKeepBalance DEF BackedInv

(* However many requests dispatch a job at once, are overtaken by a worker  *)
(* or die, and however often it is retried: a job that is dispatched has a  *)
(* dispatch that a worker can still use or that is known to have run out.   *)
THEOREM DispatchedJobsAreBacked == Spec => []DispatchedIsBacked
<1>1. TypeOK /\ BackedInv => DispatchedIsBacked
  <2>. SUFFICES ASSUME TypeOK, BackedInv, NEW j \in Jobs, job[j].status = "dispatched"
                PROVE  \E d \in Dispatches : /\ dispatch[d].job = {j}
                                             /\ dispatch[d].state \in {"accepted", "expired"}
    BY DEF DispatchedIsBacked
  <2>1. Cardinality(Overtaken(j)) + 1 <= Cardinality(Waiting(j))
    BY DEF BackedInv, Owed, One
  <2>2. Cardinality(Overtaken(j)) \in Nat
    <3>1. IsFiniteSet(Dispatches) /\ Overtaken(j) \in SUBSET Dispatches
      BY FS_Interval DEF Dispatches, Overtaken
    <3>. QED
      BY <3>1, FS_Subset, FS_CardinalityType
  <2>3. Waiting(j) # {}
    <3>1. Cardinality(Waiting(j)) # 0
      BY <2>1, <2>2
    <3>. QED
      BY <3>1, FS_EmptySet
  <2>. QED
    BY <2>3 DEF Waiting
<1>2. CaptureInv => TypeOK
  BY DEF CaptureInv
<1>. QED
  BY <1>1, <1>2, CaptureInit, CaptureNext, BackedInit, BackedNext, PTL DEF Spec
=============================================================================
