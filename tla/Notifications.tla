---------------------------- MODULE Notifications ----------------------------
(***************************************************************************)
(* Lock-screen notifications: apps/worker/src/notification-fanout.ts and   *)
(* notification-worker.ts over the delivery queue of worker-queue.ts and   *)
(* notification-repositories.ts, with the settings page that turns a       *)
(* browser on and off and the Web Push provider.                           *)
(*                                                                         *)
(* The clock is kept as the facts the code reads off it: which deliveries  *)
(* have become due and in which order (availableAt), which leases have     *)
(* expired, whether it is quiet, and which deliveries fall in the last     *)
(* hour. A delivery is a pair of a listing and a browser endpoint, the two *)
(* values its idempotency key is a hash of.                                *)
(***************************************************************************)
EXTENDS Naturals, FiniteSets, Sequences, SequencesExt

CONSTANTS Workers,       \* worker processes; each does one thing at a time
          Listings,      \* canonical listings
          Endpoints,     \* push endpoints the browser is given, one after another
          None,          \* no endpoint, no delivery
          HourlyLimit,   \* hourlyLimit of the preference
          AttemptLimit,  \* the largest attempt_count a row may hold (20)
          QuietHours,    \* hourly deferrals that fit in one quiet period
          MaxQuiet,      \* bound: quiet periods
          MaxFailures,   \* bound: crashes, aborts and unreadable subscriptions
          MaxSlow,       \* bound: leases that expire under a working worker
          MaxRetries,    \* bound: pushes the provider does not settle
          MaxToggles,    \* bound: changes the user makes
          MaxFanouts     \* bound: fan-outs

NotificationBounds ==
  /\ {HourlyLimit, AttemptLimit} \subseteq Nat \ {0}
  /\ {QuietHours, MaxQuiet, MaxFailures, MaxSlow, MaxRetries, MaxToggles,
      MaxFanouts} \subseteq Nat

Keys == Listings \X Endpoints

VARIABLES
  enabled,   \* the preference is enabled
  sub,       \* endpoint -> "none", or the status of its subscription row
  endpoint,  \* the endpoint the browser holds, or None
  shown,     \* the settings page says this browser is enabled
  rows,      \* delivery -> its row
  due,       \* the deliveries whose availableAt has passed, in its order
  recent,    \* deliveries whose deliveredAt is in the last hour
  quiet,     \* it is quiet in the user's time zone
  events,    \* delivery -> "notification.queued" activity events
  pushes,    \* delivery -> pushes the provider has shown on the lock screen
  late,      \* endpoint -> those shown since it was turned off
  worker,    \* worker -> what it is doing
  used       \* how much of each bound is used

vars == <<enabled, sub, endpoint, shown, rows, due, recent, quiet, events,
          pushes, late, worker, used>>

Waiting  == {"queued", "retryable_failed", "deferred_quiet_hours", "deferred_rate_limit"}
Final    == {"delivered", "permanently_failed", "cancelled_by_policy"}
Statuses == {"none", "active", "disabled", "revoked"}

NoRow == [state |-> "absent", attempts |-> 0, expired |-> FALSE, naps |-> 0, after |-> {}]
Idle  == [pc |-> "idle", key |-> None, quiet |-> FALSE, next |-> "queued", todo |-> {}]
Bounds == [quiet |-> MaxQuiet, failures |-> MaxFailures, slow |-> MaxSlow,
           retries |-> MaxRetries, toggles |-> MaxToggles, fanouts |-> MaxFanouts]

Init ==
  /\ enabled \in BOOLEAN
  /\ sub = [e \in Endpoints |-> "none"] /\ endpoint = None /\ shown = FALSE
  /\ rows = [k \in Keys |-> NoRow] /\ due = <<>> /\ recent = {} /\ quiet = FALSE
  /\ events = [k \in Keys |-> 0] /\ pushes = [k \in Keys |-> 0]
  /\ late = [e \in Endpoints |-> 0]
  /\ worker = [w \in Workers |-> Idle]
  /\ used = [b \in DOMAIN Bounds |-> 0]

Use(b) == used[b] < Bounds[b] /\ used' = [used EXCEPT ![b] = @ + 1]

userVars  == <<enabled, sub, endpoint, shown, late>>
queueVars == <<rows, due, recent, events, pushes>>
Deliverable(e) == enabled /\ sub[e] = "active"
-----------------------------------------------------------------------------
(* The settings page and its routes                                        *)

(* The preference is saved; its schedule is the production schedules'.     *)
SavePreference ==
  /\ Use("toggles")
  /\ enabled' = ~enabled
  /\ late' = IF enabled THEN late ELSE [e \in Endpoints |-> 0]
  /\ UNCHANGED <<sub, endpoint, shown, rows, due, recent, quiet, events, pushes, worker>>

(* POST: an endpoint that is known is answered with its state, whatever it *)
(* is; the page reads only that the answer is a success.                   *)
Subscribe ==
  /\ ~shown /\ Use("toggles")
  /\ \E e \in Endpoints :
       /\ IF endpoint = None THEN sub[e] = "none" ELSE e = endpoint
       /\ endpoint' = e
       /\ sub' = [sub EXCEPT ![e] = IF @ = "none" THEN "active" ELSE @]
  /\ shown' = TRUE
  /\ UNCHANGED <<enabled, late, queueVars, quiet, worker>>

(* DELETE, then the browser gives the endpoint up; it may fail to, and the *)
(* page then keeps what it showed.                                         *)
Unsubscribe ==
  /\ shown /\ endpoint # None /\ Use("toggles")
  /\ sub' = [sub EXCEPT ![endpoint] = IF @ = "active" THEN "disabled" ELSE @]
  /\ \/ endpoint' = None /\ shown' = FALSE
     \/ UNCHANGED <<endpoint, shown>>
  /\ UNCHANGED <<enabled, late, queueVars, quiet, worker>>

(* The page is loaded again: enabled when any subscription is active.      *)
Reload ==
  /\ shown' = (\E e \in Endpoints : sub[e] = "active")
  /\ shown' # shown
  /\ UNCHANGED <<enabled, sub, endpoint, late, queueVars, quiet, worker, used>>
-----------------------------------------------------------------------------
(* The fan-out of a user                                                   *)

(* It reads the preference, the subscriptions, the deliveries and the      *)
(* listings; some of them are eligible by score, age, risk and constraint. *)
StartFanout(w) ==
  /\ worker[w].pc = "idle" /\ Use("fanouts") /\ enabled
  /\ \E eligible \in SUBSET Listings :
       LET todo == {k \in eligible \X {e \in Endpoints : sub[e] = "active"} :
                      rows[k].state = "absent"} IN
       /\ todo # {}
       /\ worker' = [worker EXCEPT ![w] = [Idle EXCEPT !.pc = "fanout", !.todo = todo]]
  /\ UNCHANGED <<userVars, queueVars, quiet>>

\* Faulty: the event is appended for a key that another fan-out has queued.
AnnouncesAny(k) == TRUE
Announces(k) == rows[k].state = "absent"

(* The insert does nothing when the key exists. The row is due from the    *)
(* time the fan-out read, so it may precede rows that came due since.      *)
Enqueue(w) ==
  /\ worker[w].pc = "fanout"
  /\ \E k \in worker[w].todo :
       /\ worker' = [worker EXCEPT ![w].todo = @ \ {k},
                                   ![w].key = IF Announces(k) THEN k ELSE None,
                                   ![w].pc = IF Announces(k) THEN "announce"
                                             ELSE IF worker[w].todo = {k} THEN "idle"
                                             ELSE "fanout"]
       /\ IF rows[k].state = "absent"
          THEN /\ rows' = [rows EXCEPT ![k].state = "queued"]
               /\ \E i \in 1 .. Len(due) + 1 : due' = InsertAt(due, i, k)
          ELSE UNCHANGED <<rows, due>>
  /\ UNCHANGED <<userVars, recent, quiet, events, pushes, used>>

Announce(w) ==
  /\ worker[w].pc = "announce"
  /\ events' = [events EXCEPT ![worker[w].key] = @ + 1]
  /\ worker' = [worker EXCEPT ![w] =
                  IF @.todo = {} THEN Idle ELSE [@ EXCEPT !.pc = "fanout", !.key = None]]
  /\ UNCHANGED <<userVars, rows, due, recent, quiet, pushes, used>>
-----------------------------------------------------------------------------
(* The queue                                                               *)

\* Faulty: a lease is taken over while its worker has time left.
ClaimableLeased(k) == rows[k].state \in Waiting \cup {"leased"}
Claimable(k) == rows[k].state \in Waiting \/ (rows[k].state = "leased" /\ rows[k].expired)

\* Faulty: an expired lease is not claimed again.
NextClaimAfresh == SelectInSeq(due, LAMBDA k : rows[k].state \in Waiting)
NextClaim == SelectInSeq(due, Claimable)

\* Faulty: the table's check is one attempt too generous.
WithinLimitPlus(k) == rows[k].attempts <= AttemptLimit
WithinLimit(k) == rows[k].attempts < AttemptLimit

(* The oldest claimable row is leased. An attempt beyond the limit is      *)
(* refused by the table's check, which undoes the transaction: the worker  *)
(* gets an error and the row is still the oldest.                          *)
Claim(w) ==
  /\ worker[w].pc = "idle" /\ NextClaim > 0
  /\ LET k == due[NextClaim] IN
       /\ WithinLimit(k)
       /\ rows' = [rows EXCEPT ![k].state = "leased", ![k].expired = FALSE,
                               ![k].attempts = @ + 1]
       /\ worker' = [worker EXCEPT ![w] = [Idle EXCEPT !.pc = "claimed", !.key = k,
                                                       !.quiet = quiet]]
  /\ UNCHANGED <<userVars, due, recent, quiet, events, pushes, used>>

\* Faulty: the subscription is not looked at again before the push.
MayPushUnchecked(e) == enabled
MayPush(e) == Deliverable(e)

\* overHourlyLimit
OverLimit == Cardinality(recent) >= HourlyLimit

(* The worker reads the preference, the subscription and the deliveries    *)
(* and decides.                                                            *)
Check(w) ==
  /\ worker[w].pc = "claimed"
  /\ LET may == MayPush(worker[w].key[2])  calm == ~worker[w].quiet IN
     worker' = [worker EXCEPT ![w].pc = IF may /\ calm /\ ~OverLimit THEN "push" ELSE "close",
                              ![w].next = IF ~may THEN "cancelled_by_policy"
                                          ELSE IF calm THEN "deferred_rate_limit"
                                          ELSE "deferred_quiet_hours"]
  /\ UNCHANGED <<userVars, queueVars, quiet, used>>

(* The push, and what the provider makes of it. An answer that is lost is  *)
(* a push that was shown and counts as a temporary failure.                *)
Outcomes == [accepted: BOOLEAN, next: {"delivered", "retryable_failed", "permanently_failed"},
             gone: BOOLEAN]

\* Faulty: an answer that never came counts as a delivery.
OutcomeTimeout(o) ==
  /\ o.gone => o.next = "permanently_failed"
  /\ o.accepted => o.next \in {"delivered", "retryable_failed"}
Outcome(o) ==
  /\ o.gone => o.next = "permanently_failed"
  /\ o.accepted => o.next \in {"delivered", "retryable_failed"}
  /\ o.next = "delivered" => o.accepted

Push(w) ==
  /\ worker[w].pc = "push"
  /\ \E o \in Outcomes : LET k == worker[w].key IN
       /\ Outcome(o)
       /\ IF o.next = "retryable_failed" THEN Use("retries") ELSE UNCHANGED used
       /\ pushes' = [pushes EXCEPT ![k] = @ + (IF o.accepted THEN 1 ELSE 0)]
       /\ late' = [late EXCEPT ![k[2]] =
                     @ + (IF o.accepted /\ ~Deliverable(k[2]) THEN 1 ELSE 0)]
       /\ worker' = [worker EXCEPT ![w].pc = IF o.gone THEN "revoke" ELSE "close",
                                   ![w].next = o.next]
  /\ UNCHANGED <<enabled, sub, endpoint, shown, rows, due, recent, quiet, events>>

(* A gone endpoint: its subscription is revoked before the delivery is     *)
(* closed; when it is no longer active that throws and the row stays leased.*)
Revoke(w) ==
  /\ worker[w].pc = "revoke"
  /\ LET e == worker[w].key[2] IN
       /\ sub' = [sub EXCEPT ![e] = IF @ = "active" THEN "revoked" ELSE @]
       /\ worker' = [worker EXCEPT ![w] = IF sub[e] = "active"
                                          THEN [@ EXCEPT !.pc = "close"] ELSE Idle]
  /\ UNCHANGED <<enabled, endpoint, shown, late, queueVars, quiet, used>>

\* Faulty: the transition does not compare the state it expects.
OpenAlways(k) == TRUE
Open(k) == rows[k].state = "leased"

(* The transition compares the state, not the lease owner: a worker whose  *)
(* lease was taken over closes the delivery of the other one. When the row *)
(* is not leased it throws and nothing changes.                            *)
Close(w) ==
  /\ worker[w].pc = "close"
  /\ LET k == worker[w].key  next == worker[w].next IN
       IF Open(k)
       THEN /\ rows' = [rows EXCEPT ![k] =
                 [@ EXCEPT !.state = next, !.expired = FALSE,
                           !.naps = IF next = "deferred_quiet_hours" THEN @ + 1 ELSE @,
                           !.after = IF next = "deferred_rate_limit" THEN recent ELSE {}]]
            /\ due' = SelectSeq(due, LAMBDA d : d # k)
            /\ recent' = IF next = "delivered" THEN recent \cup {k} ELSE recent
       ELSE UNCHANGED <<rows, due, recent>>
  /\ worker' = [worker EXCEPT ![w] = Idle]
  /\ UNCHANGED <<userVars, quiet, events, pushes, used>>

(* The process dies, is told to stop, or cannot read the subscription.     *)
Fail(w) ==
  /\ worker[w].pc # "idle" /\ Use("failures")
  /\ worker' = [worker EXCEPT ![w] = Idle]
  /\ UNCHANGED <<userVars, queueVars, quiet>>
-----------------------------------------------------------------------------
(* The clock                                                               *)

Holders(k) == {w \in Workers : worker[w].key = k /\ worker[w].pc \notin {"idle", "announce"}}

(* A minute passes over a lease.                                           *)
LeaseExpires(k) ==
  /\ rows[k].state = "leased" /\ ~rows[k].expired
  /\ IF Holders(k) = {} THEN UNCHANGED used ELSE Use("slow")
  /\ rows' = [rows EXCEPT ![k].expired = TRUE]
  /\ UNCHANGED <<userVars, due, recent, quiet, events, pushes, worker>>

(* A retry or an hour's deferral passes. After an hour what counted        *)
(* against the limit counts no more; a quiet period has its hours.         *)
BecomesDue(k) ==
  /\ rows[k].state \in Waiting /\ ~Contains(due, k)
  /\ rows[k].after \cap recent = {}
  /\ quiet => rows[k].naps < QuietHours
  /\ due' = Append(due, k)
  /\ UNCHANGED <<userVars, rows, recent, quiet, events, pushes, worker, used>>

Forget(k) ==
  /\ k \in recent /\ recent' = recent \ {k}
  /\ UNCHANGED <<userVars, rows, due, quiet, events, pushes, worker, used>>

QuietBegins ==
  /\ ~quiet /\ Use("quiet") /\ quiet' = TRUE
  /\ rows' = [k \in Keys |-> [rows[k] EXCEPT !.naps = 0]]
  /\ UNCHANGED <<userVars, due, recent, events, pushes, worker>>

QuietEnds ==
  /\ quiet /\ quiet' = FALSE
  /\ UNCHANGED <<userVars, queueVars, worker, used>>

User == SavePreference \/ Subscribe \/ Unsubscribe \/ Reload
Work(w) == \/ Enqueue(w) \/ Announce(w) \/ Claim(w) \/ Check(w) \/ Push(w)
           \/ Revoke(w) \/ Close(w)
Clock == \/ QuietBegins \/ QuietEnds
         \/ \E k \in Keys : LeaseExpires(k) \/ BecomesDue(k) \/ Forget(k)

Next == \/ User \/ Clock
        \/ \E w \in Workers : StartFanout(w) \/ Work(w) \/ Fail(w)

Spec == Init /\ [][Next]_vars

(* Workers run on, and time passes. Nothing makes the user act.            *)
Fairness == /\ \A w \in Workers : WF_vars(Work(w))
            /\ \A k \in Keys : WF_vars(LeaseExpires(k)) /\ WF_vars(BecomesDue(k))
                               /\ WF_vars(Forget(k))
            /\ WF_vars(QuietEnds)

LiveSpec == Spec /\ Fairness
-----------------------------------------------------------------------------
(* Every variable has its type; a leased row is in the due order.          *)
TypeOK ==
  /\ enabled \in BOOLEAN /\ quiet \in BOOLEAN /\ shown \in BOOLEAN
  /\ sub \in [Endpoints -> Statuses] /\ endpoint \in Endpoints \cup {None}
  /\ \A k \in Keys : /\ rows[k].state \in {"absent", "leased"} \cup Waiting \cup Final
                     /\ rows[k].attempts \in 0 .. AttemptLimit
                     /\ rows[k].state = "leased" => Contains(due, k)
                     /\ Contains(due, k) => rows[k].state \in {"leased"} \cup Waiting
  /\ IsInjective(due)
  /\ recent \subseteq Keys

(* A row that says delivered was shown at least once, whichever worker     *)
(* closed it.                                                              *)
DeliveredWasShown == \A k \in Keys : rows[k].state = "delivered" => pushes[k] > 0

(* Turning notifications off stops them: after the preference or the       *)
(* subscription is off, only pushes that workers had already decided on    *)
(* are shown, one a worker.                                                *)
OffMeansOff == \A e \in Endpoints : late[e] <= Cardinality(Workers)

(* However fan-outs overlap, a delivery is announced once in the activity. *)
AnnouncedOnce == \A k \in Keys : events[k] <= 1

(* A delivery is shown on the lock screen once, and once more only for a   *)
(* lease that ran out under a working worker, a worker that died or an     *)
(* answer of the provider that settles nothing.                            *)
PushedOnce == \A k \in Keys : pushes[k] <= 1 + used.slow + used.failures + used.retries

(* A delivery that is settled stays settled: no late worker reopens it.    *)
SettledIsFinal ==
  [][\A k \in Keys : rows[k].state \in Final => rows'[k].state = rows[k].state]_vars

(* A delivery whose attempts are used up cannot be claimed, and while it   *)
(* is the oldest one that is due nothing else can.                         *)
Stuck == NextClaim > 0 /\ ~WithinLimit(due[NextClaim])

(* A delivery is settled in the end, whatever worker died on the way and   *)
(* however often it was deferred, unless the queue stands still behind a   *)
(* delivery that has used up its attempts.                                 *)
IsSettled ==
  \A k \in Keys :
    []<>~Stuck => (rows[k].state \in {"leased"} \cup Waiting ~> rows[k].state \in Final)
=============================================================================
