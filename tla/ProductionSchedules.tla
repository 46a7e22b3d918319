------------------------- MODULE ProductionSchedules -------------------------
(***************************************************************************)
(* The schedule lane of the worker: claims of due schedules in             *)
(* worker-queue.ts, their runs in maritime-scheduler.ts and                *)
(* maritime-repositories.ts, and the requests that turn a schedule on and  *)
(* off: the notification settings, the Gmail consent and the disconnect.   *)
(* Runs are kept for thirty days, longer than anything here lasts.         *)
(*                                                                         *)
(* Time is counted in ticks; what a handler does is modelled with its own  *)
(* component, here it only ends with one of its outcomes.                  *)
(***************************************************************************)
EXTENDS Naturals, FiniteSets

CONSTANTS Workers,    \* worker processes
          Schedules,  \* schedules of the users
          Requests,   \* requests that change a schedule
          None,       \* no schedule
          Every,      \* intervalSeconds, in ticks
          MaxTime,    \* bound: the last tick
          MaxFaults,  \* bound: workers that die or are stopped in a run
          MaxChanges  \* bound: requests that are served

ScheduleBounds ==
  Every \in Nat \ {0} /\ {MaxTime, MaxFaults, MaxChanges} \subseteq Nat

Times  == 0 .. MaxTime + Every
Never  == MaxTime + Every + 1

VARIABLES
  now,      \* the time
  row,      \* schedule -> its production_schedules row
  runs,     \* schedule, due time -> the state of the run, or "absent"
  worker,   \* worker -> what it is doing
  request,  \* request -> what it is doing
  handled,  \* schedule, due time -> times the handler has been called
  disabled, \* the handler was called for a schedule that was off
  lost,     \* the occurrences whose worker was lost before its run was made
  faults, changes

vars == <<now, row, runs, worker, request, handled, disabled, lost, faults, changes>>

Outcomes == {"completed", "permanently_failed", "cancelled_by_policy", "retryable_failed"}

Idle == [pc |-> "idle", schedule |-> None, due |-> 0]
Rest == [pc |-> "idle", schedule |-> None, at |-> 0, row |-> None]

Init ==
  /\ now = 0
  /\ row = [s \in Schedules |-> [state |-> "enabled", next |-> Every, last |-> Never]]
  /\ runs = [s \in Schedules |-> [t \in Times |-> "absent"]]
  /\ worker = [w \in Workers |-> Idle] /\ request = [r \in Requests |-> Rest]
  /\ handled = [s \in Schedules |-> [t \in Times |-> 0]]
  /\ disabled = FALSE /\ lost = {} /\ faults = 0 /\ changes = 0

Tick ==
  /\ now < MaxTime /\ now' = now + 1
  /\ UNCHANGED <<row, runs, worker, request, handled, disabled, lost, faults, changes>>
-----------------------------------------------------------------------------
(* The worker                                                              *)

\* Faulty: a schedule is claimed an interval early.
DueEarly == {s \in Schedules : row[s].state = "enabled" /\ row[s].next <= now + Every}

Due == {s \in Schedules : row[s].state = "enabled" /\ row[s].next <= now}

(* The schedule that has been due the longest comes first.                 *)
First(s) == \A u \in Due : row[s].next <= row[u].next

\* Faulty: the schedule is not moved on.
MovedOnNever(old) == [old EXCEPT !.last = old.next]

(* The claim moves the schedule on by one interval and keeps no lease.     *)
MovedOn(old) == [old EXCEPT !.last = old.next, !.next = @ + Every]

Claim(w) ==
  /\ worker[w].pc = "idle"
  /\ \E s \in Due :
       /\ First(s)
       /\ row' = [row EXCEPT ![s] = MovedOn(@)]
       /\ worker' = [worker EXCEPT ![w] = [pc |-> "claimed", schedule |-> s,
                                           due |-> row[s].next]]
  /\ UNCHANGED <<now, runs, request, handled, disabled, lost, faults, changes>>

\* Faulty: a run is made although the occurrence has one.
IsNewAlways(s, due) == TRUE

(* The idempotency key of a run is its schedule and due time.              *)
IsNew(s, due) == runs[s][due] = "absent"

CreateRun(w) ==
  /\ worker[w].pc = "claimed"
  /\ LET s == worker[w].schedule due == worker[w].due
     IN  IF IsNew(s, due)
         THEN /\ runs' = [runs EXCEPT ![s][due] = "created"]
              /\ worker' = [worker EXCEPT ![w].pc = "created"]
         ELSE runs' = runs /\ worker' = [worker EXCEPT ![w] = Idle]
  /\ UNCHANGED <<now, row, request, handled, disabled, lost, faults, changes>>

Move(w, from, to, pc) ==
  /\ runs[worker[w].schedule][worker[w].due] = from
  /\ runs' = [runs EXCEPT ![worker[w].schedule][worker[w].due] = to]
  /\ worker' = [worker EXCEPT ![w] = IF pc = "idle" THEN Idle ELSE [@ EXCEPT !.pc = pc]]

StartRun(w) ==
  /\ worker[w].pc = "created" /\ Move(w, "created", "running", "running")
  /\ UNCHANGED <<now, row, request, handled, disabled, lost, faults, changes>>

(* The handler looks at the row of the claim, in which the schedule is     *)
(* always enabled.                                                         *)
Handle(w) ==
  /\ worker[w].pc = "running"
  /\ LET s == worker[w].schedule
     IN  /\ handled' = [handled EXCEPT ![s][worker[w].due] = @ + 1]
         /\ disabled' = (disabled \/ row[s].state # "enabled")
  /\ worker' = [worker EXCEPT ![w].pc = "handled"]
  /\ UNCHANGED <<now, row, runs, request, lost, faults, changes>>

\* Faulty: nothing is written when the schedule has been turned off.
FinishEnabled(w) ==
  /\ worker[w].pc = "handled"
  /\ IF row[worker[w].schedule].state = "enabled"
     THEN \E outcome \in Outcomes : Move(w, "running", outcome, "idle")
     ELSE worker' = [worker EXCEPT ![w] = Idle] /\ runs' = runs
  /\ UNCHANGED <<now, row, request, handled, disabled, lost, faults, changes>>

Finish(w) ==
  /\ worker[w].pc = "handled"
  /\ \E outcome \in Outcomes : Move(w, "running", outcome, "idle")
  /\ UNCHANGED <<now, row, request, handled, disabled, lost, faults, changes>>

(* The process dies, or is told to stop and the handler throws: the next   *)
(* poll, of this process or its successor, starts afresh.                  *)
Lose(w) ==
  /\ worker[w].pc # "idle" /\ faults < MaxFaults /\ faults' = faults + 1
  /\ lost' = IF worker[w].pc = "claimed"
             THEN lost \cup {<<worker[w].schedule, worker[w].due>>} ELSE lost
  /\ worker' = [worker EXCEPT ![w] = Idle]
  /\ UNCHANGED <<now, row, runs, request, handled, disabled, changes>>
-----------------------------------------------------------------------------
(* Changing a schedule: the row is read and written back in one READ       *)
(* COMMITTED transaction, which does not lock it in between.               *)

Read(r) ==
  /\ request[r] = Rest /\ changes < MaxChanges /\ changes' = changes + 1
  /\ \E s \in Schedules :
       request' = [request EXCEPT ![r] = [pc |-> "read", schedule |-> s, at |-> now,
                                          row |-> row[s]]]
  /\ UNCHANGED <<now, row, runs, worker, handled, disabled, lost, faults>>

(* A disconnect writes the row it read, off.                               *)
DisconnectedRow(old) == [old EXCEPT !.state = "disabled_by_policy"]

(* The settings and the consent also start a new interval.                 *)
SavedRow(old, state, at) == [state |-> state, next |-> at + Every, last |-> old.last]

Write(r) ==
  /\ request[r].pc = "read"
  /\ LET s == request[r].schedule old == request[r].row
     IN  \E new \in {DisconnectedRow(old)} \cup
                    {SavedRow(old, state, request[r].at) :
                       state \in {"enabled", "disabled_by_policy"}} :
           row' = [row EXCEPT ![s] = new]
  /\ request' = [request EXCEPT ![r] = Rest]
  /\ UNCHANGED <<now, runs, worker, handled, disabled, lost, faults, changes>>

Work(w) == Claim(w) \/ CreateRun(w) \/ StartRun(w) \/ Handle(w) \/ Finish(w)

Next ==
  \/ Tick
  \/ \E w \in Workers : Work(w) \/ Lose(w)
  \/ \E r \in Requests : Read(r) \/ Write(r)

Spec == Init /\ [][Next]_vars

(* The clock goes on, and every worker polls and is served.                *)
FairSpec ==
  Spec /\ WF_vars(Tick) /\ (\A w \in Workers : WF_vars(Work(w)))
       /\ (\A r \in Requests : WF_vars(Write(r)))
-----------------------------------------------------------------------------
(* Properties                                                              *)

States == {"enabled", "disabled_by_policy"}

(* Times stay in their bounds.                                             *)
TypeOK ==
  /\ \A s \in Schedules : row[s].state \in States /\ row[s].next \in Nat
  /\ runs \in [Schedules -> [Times -> Outcomes \cup {"absent", "created", "running"}]]
  /\ \A w \in Workers : worker[w].pc = "idle" \/ worker[w].due \in 0 .. now

(* The handler is called at most once for an occurrence of a schedule,     *)
(* whatever the requests write back over the claims.                       *)
HandledOnce == \A s \in Schedules, t \in Times : handled[s][t] <= 1

(* A schedule that is due is claimed, or turned off or moved, however many *)
(* others are due.                                                         *)
DueIsClaimed ==
  \A s \in Schedules :
    row[s].state = "enabled" /\ row[s].next <= now
      ~> row[s].state # "enabled" \/ row[s].next > now

(* A run that was made reaches one of its outcomes.                        *)
RunIsFinished ==
  \A s \in Schedules, t \in Times :
    runs[s][t] \in {"created", "running"} ~> runs[s][t] \in Outcomes
=============================================================================
