-------------------------- MODULE LocalOrchestrator --------------------------
(***************************************************************************)
(* The orchestrator of source jobs that runs inside one process            *)
(* (maritime-orchestrator.ts), with the browser provider it is used with   *)
(* (browser-execution.ts) and the lifecycle of a source job                *)
(* (source-orchestration.ts).                                              *)
(*                                                                         *)
(* One thread runs every call; a call gives way at its two awaits, the     *)
(* policy decision and the capture, and holds a copy of the job there.     *)
(***************************************************************************)
EXTENDS Naturals, FiniteSets

CONSTANTS Callers,       \* calls that may be under way at once
          Jobs,          \* identifiers a caller gives to jobs
          Inputs,        \* what a job does: everything its key is made of
          BrowserInputs, \* those that capture a saved search
          None,          \* no job, no input
          MaxAttempts,   \* maxAttempts of every job
          Lifetime,      \* ticks a heartbeat is good for
          MaxTime,       \* bound: the last tick
          MaxCalls       \* bound: calls that are made

OrchestratorBounds ==
  /\ BrowserInputs \subseteq Inputs
  /\ {MaxAttempts, Lifetime} \subseteq Nat \ {0} /\ {MaxTime, MaxCalls} \subseteq Nat

VARIABLES
  now,       \* the clock
  job,       \* identifier -> #jobs
  node,      \* #nodes: the status of the browser node and its last heartbeat
  allowed,   \* whether policy, session and approval allow a dispatch
  cancelled, \* #cancelledExecutions of the provider
  caller,    \* caller -> its call
  captures,  \* identifier -> captures the provider has made
  successes, \* identifier -> captures that were completed
  calls,
  overlapped \* history: jobs for which a call began while another held a copy

vars ==
  <<now, job, node, allowed, cancelled, caller, captures, successes, calls, overlapped>>

Terminal == {"completed", "permanently_failed", "cancelled_by_policy"}

\* Faulty: a completed job can be tried again.
RetryableCompleted ==
  {"retryable_failed", "deferred_node_offline", "manual_action_required", "completed"}

Retryable == {"retryable_failed", "deferred_node_offline", "manual_action_required"}
Statuses == Terminal \cup Retryable \cup {"queued", "dispatched"}

Absent == [status |-> "absent", attempts |-> 0, input |-> None, carries |-> {}]
Idle == [pc |-> "idle", job |-> None, row |-> Absent, outcome |-> "none"]

Init ==
  /\ now = 0 /\ job = [j \in Jobs |-> Absent]
  /\ node = [status |-> "unregistered", at |-> 0]
  /\ allowed = TRUE /\ cancelled = {}
  /\ caller = [c \in Callers |-> Idle]
  /\ captures = [j \in Jobs |-> 0] /\ successes = [j \in Jobs |-> 0] /\ calls = 0
  /\ overlapped = {}

Tick ==
  /\ now < MaxTime /\ now' = now + 1
  /\ UNCHANGED <<job, node, allowed, cancelled, caller, captures, successes, calls, overlapped>>

(* A manifest is disabled or enabled, a session ends, an approval expires. *)
ChangePolicy ==
  /\ allowed' = ~allowed
  /\ UNCHANGED <<now, job, node, cancelled, caller, captures, successes, calls, overlapped>>
-----------------------------------------------------------------------------
(* The lifecycle of a job                                                  *)

Transitions == [
  queued |-> {"dispatched", "cancelled_by_policy"},
  dispatched |-> Statuses \ {"queued", "dispatched"},
  retryable_failed |-> {"queued", "permanently_failed", "cancelled_by_policy"},
  deferred_node_offline |-> {"queued", "cancelled_by_policy"},
  manual_action_required |-> {"queued", "cancelled_by_policy"},
  completed |-> {}, permanently_failed |-> {}, cancelled_by_policy |-> {}]

(* What the schema asks of a job.                                          *)
Parses(row) ==
  /\ row.attempts <= MaxAttempts
  /\ "manual" \in row.carries <=> row.status = "manual_action_required"
  /\ "deferred" \in row.carries <=> row.status = "deferred_node_offline"
  /\ row.status = "completed" => "result" \in row.carries
  /\ row.carries \cap {"result", "failure"} # {} =>
       row.status \in {"completed", "retryable_failed", "permanently_failed"}

Carried(status) ==
  CASE status = "completed" -> {"result"}
    [] status \in {"retryable_failed", "permanently_failed"} -> {"failure"}
    [] status = "manual_action_required" -> {"manual"}
    [] status = "deferred_node_offline" -> {"deferred"}
    [] OTHER -> {}

\* Faulty: what the row carried stays with it.
MovedKeeping(row, status) ==
  [row EXCEPT !.status = status, !.carries = @ \cup Carried(status)]

(* A transition starts from the row the call has, whatever is stored.      *)
Moved(row, status) == [row EXCEPT !.status = status, !.carries = Carried(status)]

Allows(row, status) == status \in Transitions[row.status]
-----------------------------------------------------------------------------
(* Calls                                                                   *)

Called == calls < MaxCalls /\ calls' = calls + 1

\* Faulty: only the identifier tells whether a job is there.
SameInputNever(input) == {}

SameInput(input) == {j \in Jobs : job[j].input = input}

(* Scheduling the same work again returns the job that is there.           *)
Schedule ==
  /\ Called
  /\ \E j \in Jobs, input \in Inputs :
       /\ SameInput(input) = {} /\ job[j] = Absent
       /\ job' = [job EXCEPT ![j] = [Absent EXCEPT !.status = "queued", !.input = input]]
  /\ UNCHANGED <<now, node, allowed, cancelled, caller, captures, successes, overlapped>>

(* A dispatch or a retry that passes its checks asks the policy.           *)
Await(c, pc, ready) ==
  /\ Called /\ caller[c] = Idle
  /\ \E j \in ready :
       /\ caller' = [caller EXCEPT ![c] = [Idle EXCEPT !.pc = pc, !.job = j, !.row = job[j]]]
       /\ overlapped' = overlapped \cup ({j} \cap {caller[d].job : d \in Callers})
  /\ UNCHANGED <<now, job, node, allowed, cancelled, captures, successes>>

Dispatch(c) ==
  Await(c, "dispatching", {j \in Jobs : job[j].status = "queued"})

\* Faulty: the attempts that were made are not compared with the limit.
HasAttemptsAlways(row) == TRUE

HasAttempts(row) == row.attempts < MaxAttempts

Retry(c) ==
  Await(c, "retrying", {j \in Jobs : job[j].status \in Retryable /\ HasAttempts(job[j])})

Store(c, row) == job' = [job EXCEPT ![caller[c].job] = row]
Done(c) == caller' = [caller EXCEPT ![c] = Idle]

Refuse(c) ==
  /\ caller[c].pc \in {"dispatching", "retrying"} /\ ~allowed
  /\ Store(c, Moved(caller[c].row, "cancelled_by_policy")) /\ Done(c)
  /\ UNCHANGED <<now, node, allowed, cancelled, captures, successes, calls, overlapped>>

Requeue(c) ==
  /\ caller[c].pc = "retrying" /\ allowed
  /\ Store(c, Moved(caller[c].row, "queued")) /\ Done(c)
  /\ UNCHANGED <<now, node, allowed, cancelled, captures, successes, calls, overlapped>>

Online == node.status = "online" /\ now < node.at + Lifetime

(* The provider answers at once, from its script; the call only learns of  *)
(* it after the await.                                                     *)
Outcomes == {"completed", "permanently_failed"} \cup Retryable

Begin(c) ==
  /\ caller[c].pc = "dispatching" /\ allowed
  /\ LET j == caller[c].job
         row == [Moved(caller[c].row, "dispatched") EXCEPT !.attempts = @ + 1]
         Fails(status) == Store(c, Moved(row, status)) /\ Done(c)
                          /\ UNCHANGED <<captures, successes>>
     IN  IF row.input \notin BrowserInputs THEN Fails("permanently_failed")
         ELSE IF ~Online THEN Fails("deferred_node_offline")
         ELSE \E outcome \in IF j \in cancelled THEN {"permanently_failed"} ELSE Outcomes :
                /\ Store(c, row)
                /\ caller' = [caller EXCEPT ![c] = [pc |-> "capturing", job |-> j,
                                                    row |-> row, outcome |-> outcome]]
                /\ captures' = [captures EXCEPT ![j] = IF j \in cancelled THEN @ ELSE @ + 1]
                /\ successes' = [successes EXCEPT ![j] =
                                   IF outcome = "completed" THEN @ + 1 ELSE @]
  /\ UNCHANGED <<now, node, allowed, cancelled, calls, overlapped>>

Finish(c) ==
  /\ caller[c].pc = "capturing"
  /\ Store(c, Moved(caller[c].row, caller[c].outcome)) /\ Done(c)
  /\ UNCHANGED <<now, node, allowed, cancelled, captures, successes, calls, overlapped>>

CancelByPolicy ==
  /\ Called
  /\ \E j \in Jobs :
       /\ job[j] # Absent /\ Allows(job[j], "cancelled_by_policy")
       /\ job' = [job EXCEPT ![j] = Moved(@, "cancelled_by_policy")]
  /\ UNCHANGED <<now, node, allowed, cancelled, caller, captures, successes, overlapped>>

(* The provider is told not to execute a job.                              *)
CancelExecution ==
  /\ Called /\ \E j \in Jobs \ cancelled : cancelled' = cancelled \cup {j}
  /\ UNCHANGED <<now, job, node, allowed, caller, captures, successes, overlapped>>

\* Faulty: the latest message is believed, whatever it says.
NewsAlways(at) == TRUE

(* A revoked node stays revoked, and old heartbeats are not listened to.   *)
News(at) == node.status # "revoked" /\ at >= node.at

Heartbeat ==
  /\ Called
  /\ \E status \in {"online", "offline", "stale", "revoked"}, at \in 0 .. now :
       /\ News(at)
       /\ node' = [status |-> status, at |-> at]
  /\ UNCHANGED <<now, job, allowed, cancelled, caller, captures, successes, overlapped>>

Resume(c) == Refuse(c) \/ Requeue(c) \/ Begin(c) \/ Finish(c)

Next ==
  \/ Tick \/ ChangePolicy \/ Schedule \/ CancelByPolicy \/ CancelExecution \/ Heartbeat
  \/ \E c \in Callers : Dispatch(c) \/ Retry(c) \/ Resume(c)

Spec == Init /\ [][Next]_vars
-----------------------------------------------------------------------------
(* Properties                                                              *)

(* Every stored job is one the schema accepts, though calls overlap.       *)
TypeOK ==
  /\ \A j \in Jobs : job[j] # Absent => job[j].status \in Statuses /\ Parses(job[j])
  /\ \A c \in Callers : caller[c].pc = "idle" <=> caller[c].job = None

(* The same work is never two jobs.                                        *)
OneJobPerInput ==
  \A i, j \in Jobs : job[i].input = job[j].input /\ job[i] # Absent => i = j

(* The captures of a job keep to its attempts, unless two of its calls     *)
(* overlap: each stores its own copy, and the attempt of the other is lost.*)
CapturesInLimit == \A j \in Jobs \ overlapped : captures[j] <= MaxAttempts

(* A node that was revoked stays so, and its heartbeats go forward.        *)
NodeGoesForward ==
  [][node'.at >= node.at /\ (node.status = "revoked" => node'.status = "revoked")]_vars

(* A job is captured successfully once, unless two of its calls overlap,   *)
(* whatever is cancelled, revoked or refused while a call waits.           *)
CompletedOnce == \A j \in Jobs \ overlapped : successes[j] <= 1
=============================================================================
