---------------------------- MODULE CalendarHolds ----------------------------
(***************************************************************************)
(* Viewings of one listing and the tentative events Vera puts into the     *)
(* user's Google Calendar for them: the requests of                        *)
(* calendar-hold-service.ts, the transactions of calendar-transactions.ts  *)
(* and the calendar client, read by read and transaction by transaction.   *)
(*                                                                         *)
(* A hold is the reservation of one exact event: its approval, its event   *)
(* id and its key are one to one with it, so they are named by the hold.   *)
(* The payload of an event is what can change under it, the notes of the   *)
(* viewing; a window is fixed once it is selected.  Requests overlap and   *)
(* may stop at any step.                                                   *)
(*                                                                         *)
(* The listing's row has another writer, the decision lane (Decisions): a  *)
(* plan reads the state of the listing with its snapshot and writes it     *)
(* back when it is applied, whatever the calendar has made of it since.    *)
(***************************************************************************)
EXTENDS Naturals, FiniteSets, Sequences, SequencesExt

CONSTANTS
    Requests,     \* requests that are served at the same time
    MaxViewings,  \* bound on the viewings of the listing
    MaxHolds,     \* bound on the reservations
    Notes,        \* contact notes a preview may carry
    Checks,       \* outcomes of a conflict check: "free", "busy", "failed"
    Decides       \* whether the listing's corpus is decided meanwhile

ASSUME BoundsAreSmall == MaxViewings \in Nat /\ MaxHolds \in Nat
ASSUME ChecksAreOutcomes == Checks \subseteq {"free", "busy", "failed"}
ASSUME DecidesIsBoolean == Decides \in BOOLEAN

VARIABLES
    lifecycle,   \* state of the listing
    plan,        \* the state that a decision in progress has read
    putBack,     \* history: a decision put the listing back in this state
    viewings,    \* sequence of [state, notes, check, ref]
    holds,       \* sequence of [viewing, notes, from, check, state]
    approval,    \* sequence: state of the approval of each hold
    overdue,     \* holds whose pending approval has passed its expiry
    events,      \* holds whose event the provider stores
    late,        \* holds with an insert the provider has yet to carry out
    req,         \* what each request is doing and has read
    conflicted,  \* holds revoked because the final check found a conflict
    recheck,     \* holds revoked because the final check could not be made
    told         \* viewings whose end came with the warning to clean up

vars == <<lifecycle, plan, putBack, viewings, holds, approval, overdue, events, late, req,
          conflicted, recheck, told>>

------------------------------------------------------------------------------
NoNotes == "none"
NoPlan == "none"

\* The states a listing, a viewing, a hold and an approval take here.
Tour           == {"replied", "tour_proposed", "tour_scheduled"}
ViewingStates  == {"proposed", "selected", "hold_approved", "hold_created",
                   "cancelled"}
HoldStates     == {"approval_pending", "approved", "creating", "created",
                   "retryable_failed", "permanently_failed",
                   "cancelled_internal"}
ApprovalStates == {"none", "pending", "used", "revoked", "expired"}

Ended == {"permanently_failed", "cancelled_internal"}

(* The next states the domain allows a listing: a state is no successor of
   itself.                                                                 *)
Successors(s) ==
    CASE s = "replied"        -> {"tour_proposed"}
      [] s = "tour_proposed"  -> {"tour_scheduled", "replied"}
      [] s = "tour_scheduled" -> {"tour_proposed", "replied"}

Idle == [at |-> "idle", v |-> 0, h |-> 0, notes |-> NoNotes, from |-> 0,
         check |-> "checked", hold |-> "created"]

Init ==
    /\ lifecycle = "replied" /\ plan = NoPlan /\ putBack = FALSE
    /\ viewings = <<>> /\ holds = <<>> /\ approval = <<>>
    /\ overdue = {} /\ events = {} /\ late = {}
    /\ req = [r \in Requests |-> Idle]
    /\ conflicted = {} /\ recheck = {} /\ told = {}

\* A viewing whose windows come from a check with the outcome c.
NewViewing(c) ==
    [state |-> "proposed", notes |-> NoNotes, check |-> c, ref |-> FALSE]

\* Faulty: the outcome itself.
RecordedRaw(c) == c

\* The state of the stored check that an outcome is recorded as.
Recorded(c) == IF c = "failed" THEN "failed" ELSE "checked"

(* transitionLifecycle, in the transaction of its caller.                  *)
MoveListing(s) ==
    /\ lifecycle' = s /\ putBack' = (putBack /\ s = lifecycle)
    /\ UNCHANGED plan

Go(r, at)  == req' = [req EXCEPT ![r].at = at]
Finish(r)  == req' = [req EXCEPT ![r] = Idle]
HoldsOf(v) == {h \in DOMAIN holds : holds[h].viewing = v}
Active(v)  == {h \in HoldsOf(v) : holds[h].state \notin Ended}

------------------------------------------------------------------------------
(* Proposing, selecting, preparing and approving.                          *)

(* proposeViewing: windows out of the rules and a conflict check, for a
   listing that has been replied to.                                       *)
Propose(c) ==
    /\ Len(viewings) < MaxViewings
    /\ lifecycle \in Tour
    /\ viewings' = Append(viewings, NewViewing(Recorded(c)))
    /\ MoveListing(IF lifecycle = "replied" THEN "tour_proposed" ELSE lifecycle)
    /\ UNCHANGED <<holds, approval, overdue, events, late, req, conflicted,
                   recheck, told>>

Select(v) ==
    /\ viewings[v].state = "proposed"
    /\ viewings' = [viewings EXCEPT ![v].state = "selected"]
    /\ UNCHANGED <<lifecycle, plan, putBack, holds, approval, overdue, events,
                   late, req, conflicted, recheck, told>>

(* createPreview writes the notes into the viewing; the hold is reserved
   from the viewing this returned, in a statement of its own.              *)
Prepare(r, v, n) ==
    /\ req[r].at = "idle" /\ viewings[v].state = "selected"
    /\ viewings' = [viewings EXCEPT ![v].notes = n]
    /\ req' = [req EXCEPT ![r] =
                  [Idle EXCEPT !.at = "reserve", !.v = v, !.notes = n,
                               !.check = viewings[v].check]]
    /\ UNCHANGED <<lifecycle, plan, putBack, holds, approval, overdue, events,
                   late, conflicted, recheck, told>>

(* reservePreview: the hold with the key of this effect, or a new one.  A
   hold that has moved on since is refused.                                *)
Reserve(r) ==
    LET q == req[r]
        same == {h \in DOMAIN holds : /\ holds[h].viewing = q.v
                                      /\ holds[h].notes = q.notes
                                      /\ holds[h].from = q.from}
    IN  /\ q.at = "reserve"
        /\ same = {} => Len(holds) < MaxHolds
        /\ IF same = {}
           THEN /\ holds' = Append(holds, [viewing |-> q.v, notes |-> q.notes,
                                           from |-> q.from, check |-> q.check,
                                           state |-> "approval_pending"])
                /\ approval' = Append(approval, "none")
           ELSE UNCHANGED <<holds, approval>>
        /\ Finish(r)
        /\ UNCHANGED <<lifecycle, plan, putBack, viewings, overdue, events,
                       late, conflicted, recheck, told>>

(* approvePreview rebuilds the payload from the viewing it reads and
   compares it with the hold ...                                           *)
ReadPreview(r, h) ==
    LET v == holds[h].viewing
    IN  /\ req[r].at = "idle" /\ holds[h].state = "approval_pending"
        /\ viewings[v].notes = holds[h].notes
        /\ req' = [req EXCEPT ![r] =
                      [Idle EXCEPT !.at = "approve", !.v = v, !.h = h]]
        /\ UNCHANGED <<lifecycle, plan, putBack, viewings, holds, approval,
                       overdue, events, late, conflicted, recheck, told>>

\* The state a viewing must be in for the approval of a hold.
Approvable(h) == IF holds[h].from = 0 THEN "selected" ELSE "hold_approved"

(* ... and approveCalendarHold records the approval in one transaction,
   which checks the states of the viewing and of the reservation again.    *)
Approve(r) ==
    LET h == req[r].h
        v == req[r].v
        granted == /\ viewings[v].state = Approvable(h)
                   /\ holds[h].state = "approval_pending"
    IN  /\ req[r].at = "approve"
        /\ IF granted
           THEN /\ approval' = [approval EXCEPT ![h] = "pending"]
                /\ holds' = [holds EXCEPT ![h].state = "approved"]
                /\ viewings' = [viewings EXCEPT ![v].state = "hold_approved"]
           ELSE UNCHANGED <<approval, holds, viewings>>
        /\ Finish(r)
        /\ UNCHANGED <<lifecycle, plan, putBack, overdue, events, late,
                       conflicted, recheck, told>>

\* Ten minutes pass without the approval having been used.
PassExpiry(h) ==
    /\ approval[h] = "pending" /\ h \notin overdue
    /\ overdue' = overdue \cup {h}
    /\ UNCHANGED <<lifecycle, plan, putBack, viewings, holds, approval, events,
                   late, req, conflicted, recheck, told>>

------------------------------------------------------------------------------
(* createApprovedHold.                                                     *)

(* The request reads viewing, approval and hold, and decides on what it
   read: a created hold is returned, an expired approval is marked, and an
   approval that is neither pending nor used is refused.                   *)
StartCreate(r, h) ==
    LET hold == holds[h]
        v    == hold.viewing
    IN  /\ req[r].at = "idle"
        /\ approval[h] # "none" /\ hold.state # "created"
        /\ IF h \in overdue /\ approval[h] = "pending"
           THEN /\ approval' = [approval EXCEPT ![h] = "expired"]
                /\ UNCHANGED req
           ELSE /\ approval[h] \in {"pending", "used"}
                /\ hold.from # 0 => hold.check # "checked"
                /\ req' = [req EXCEPT ![r] =
                      [Idle EXCEPT !.at = IF hold.from = 0 THEN "check"
                                          ELSE "policy",
                                   !.v = v, !.h = h, !.check = hold.check,
                                   !.notes = viewings[v].notes,
                                   !.hold = hold.state]]
                /\ UNCHANGED approval
        /\ UNCHANGED <<lifecycle, plan, putBack, viewings, holds, overdue,
                       events, late, conflicted, recheck, told>>

\* appendFinalCheck: the primary calendar, as it is now.
FinalCheck(r, c) ==
    /\ req[r].at = "check"
    /\ req' = [req EXCEPT ![r].check = Recorded(c),
                          ![r].at = CASE c = "free"   -> "policy"
                                      [] c = "busy"   -> "conflict"
                                      [] c = "failed" -> "unavailable"]
    /\ UNCHANGED <<lifecycle, plan, putBack, viewings, holds, approval,
                   overdue, events, late, conflicted, recheck, told>>

\* Faulty: a hold that is being created is taken back as well.
RevocableLate(h) == holds[h].state \notin Ended

\* What revokeApprovedReservation finds when it reads again.
Revocable(h) == approval[h] = "pending" /\ holds[h].state = "approved"

(* revokeApprovedReservation: only an approval that nobody has consumed
   since is taken back, with its hold.                                     *)
Revoke(r) ==
    LET h == req[r].h
        busy == req[r].at = "conflict"
    IN  /\ req[r].at \in {"conflict", "unavailable"}
        /\ IF Revocable(h)
           THEN /\ approval' = [approval EXCEPT ![h] = "revoked"]
                /\ holds' = [holds EXCEPT ![h].state = "cancelled_internal",
                                          ![h].check = req[r].check]
                /\ conflicted' = IF busy THEN conflicted \cup {h} ELSE conflicted
                /\ recheck' = IF busy THEN recheck ELSE recheck \cup {h}
                /\ IF busy THEN Go(r, "replace") ELSE Finish(r)
           ELSE /\ Finish(r)
                /\ UNCHANGED <<approval, holds, conflicted, recheck>>
        /\ UNCHANGED <<lifecycle, plan, putBack, viewings, overdue, events,
                       late, told>>

(* persistReplacementViewing, a second transaction.                        *)
Replace(r) ==
    LET v == req[r].v
    IN  /\ req[r].at = "replace"
        /\ IF viewings[v].state = "hold_approved"
           THEN /\ Len(viewings) < MaxViewings
                /\ viewings' = Append([viewings EXCEPT ![v].state = "cancelled"],
                                      NewViewing("checked"))
           ELSE UNCHANGED viewings
        /\ Finish(r)
        /\ UNCHANGED <<lifecycle, plan, putBack, holds, approval, overdue,
                       events, late, conflicted, recheck, told>>

(* overridePreviewFromFailedReservation, at the end of a request whose check
   failed or on its own route: the hold that was cancelled internally, for
   a check that is not "checked".                                          *)
Overridable(h) ==
    /\ holds[h].from = 0 /\ holds[h].state = "cancelled_internal"
    /\ viewings[holds[h].viewing].state = "hold_approved"
    /\ holds[h].check # "checked"

PreviewOverride(r, h) ==
    /\ req[r].at = "idle" /\ Overridable(h)
    /\ req' = [req EXCEPT ![r] =
                  [Idle EXCEPT !.at = "reserve", !.v = holds[h].viewing,
                               !.notes = viewings[holds[h].viewing].notes,
                               !.from = h, !.check = holds[h].check]]
    /\ UNCHANGED <<lifecycle, plan, putBack, viewings, holds, approval,
                   overdue, events, late, conflicted, recheck, told>>

(* assertWritePolicy and writeClient: denied, unavailable, or on to the
   creation if the hold was in a state for it when it was read.            *)
ReadPolicy(r, allowed) ==
    /\ req[r].at = "policy"
    /\ IF ~allowed THEN Go(r, "deny")
       ELSE CASE req[r].hold \in {"approved", "retryable_failed"} -> Go(r, "begin")
              [] req[r].hold = "creating" -> Go(r, "lookup")
              [] OTHER -> Finish(r)
    /\ UNCHANGED <<lifecycle, plan, putBack, viewings, holds, approval,
                   overdue, events, late, conflicted, recheck, told>>

\* recordPreCreationPolicyDenial.
Deny(r) ==
    LET h == req[r].h
    IN  /\ req[r].at = "deny"
        /\ approval' = [approval EXCEPT ![h] =
                           IF @ = "pending" THEN "revoked" ELSE @]
        /\ holds' = [holds EXCEPT ![h].state =
                        IF @ \in {"approved", "retryable_failed"}
                        THEN "cancelled_internal" ELSE @]
        /\ Finish(r)
        /\ UNCHANGED <<lifecycle, plan, putBack, viewings, overdue, events,
                       late, conflicted, recheck, told>>

\* Faulty: the hold and the approval as the request read them.
FirstUseAsRead(h, v) == viewings[v].state = "hold_approved" /\ h \notin overdue

(* What beginCalendarHoldCreation reads again: a retry of a consumed
   approval, or the first use of one that is neither used nor expired.     *)
Retried(h) == holds[h].state = "retryable_failed" /\ approval[h] = "used"
FirstUse(h, v) ==
    /\ holds[h].state = "approved" /\ viewings[v].state = "hold_approved"
    /\ approval[h] = "pending" /\ h \notin overdue

\* Faulty: the hold keeps the check of the proposal.
BeginWithoutCheck(r) ==
    LET h == req[r].h
    IN  /\ req[r].at = "begin"
        /\ IF Retried(h) \/ FirstUse(h, req[r].v)
           THEN /\ approval' = [approval EXCEPT ![h] = "used"]
                /\ holds' = [holds EXCEPT ![h].state = "creating"]
                /\ Go(r, "lookup")
           ELSE Finish(r) /\ UNCHANGED <<approval, holds>>
        /\ UNCHANGED <<lifecycle, plan, putBack, viewings, overdue, events,
                       late, conflicted, recheck, told>>

\* beginCalendarHoldCreation.
Begin(r) ==
    LET h == req[r].h
    IN  /\ req[r].at = "begin"
        /\ IF Retried(h) \/ FirstUse(h, req[r].v)
           THEN /\ approval' = [approval EXCEPT ![h] = "used"]
                /\ holds' = [holds EXCEPT ![h].state = "creating",
                                          ![h].check = req[r].check]
                /\ Go(r, "lookup")
           ELSE Finish(r) /\ UNCHANGED <<approval, holds>>
        /\ UNCHANGED <<lifecycle, plan, putBack, viewings, overdue, events,
                       late, conflicted, recheck, told>>

(* The payload is rebuilt from the viewing read at the start, the event is
   looked up by its id, and the policy is read once more.  Anything else is
   a failure, of this kind or that.                                        *)
Lookup(r) ==
    /\ req[r].at = "lookup"
    /\ \E next \in {"retryable", "permanent"} \cup
                   (IF req[r].notes # holds[req[r].h].notes THEN {}
                    ELSE IF req[r].h \in events THEN {"finalize"}
                    ELSE {"insert"}) :
           Go(r, next)
    /\ UNCHANGED <<lifecycle, plan, putBack, viewings, holds, approval,
                   overdue, events, late, conflicted, recheck, told>>

(* The client's insert.  The provider carries it out at once or, when the
   answer is lost, at once, later or never; the client then looks the event
   up and otherwise reports an unknown outcome, which is retryable.        *)
Insert(r) ==
    LET h == req[r].h
    IN  /\ req[r].at = "insert"
        /\ \/ events' = events \cup {h} /\ UNCHANGED late
              /\ \E next \in {"finalize", "retryable"} : Go(r, next)
           \/ late' = (IF h \in events THEN late ELSE late \cup {h})
              /\ Go(r, "retryable") /\ UNCHANGED events
           \/ Go(r, "permanent") /\ UNCHANGED <<events, late>>
        /\ UNCHANGED <<lifecycle, plan, putBack, viewings, holds, approval,
                       overdue, conflicted, recheck, told>>

\* The provider carries out an insert whose caller has given up, or drops it.
Land(h) ==
    /\ h \in late
    /\ late' = late \ {h}
    /\ events' \in {events, events \cup {h}}
    /\ UNCHANGED <<lifecycle, plan, putBack, viewings, holds, approval,
                   overdue, req, conflicted, recheck, told>>

(* finalizeCalendarHoldCreation: hold, viewing and listing together, or
   none.  Its error passes through createApprovedHold unrecorded.          *)
Recordable(h, v) ==
    /\ holds[h].state = "creating" /\ viewings[v].state = "hold_approved"
    /\ "tour_scheduled" \in Successors(lifecycle)

Finalize(r) ==
    LET h == req[r].h
        v == req[r].v
    IN  /\ req[r].at = "finalize"
        /\ IF Recordable(h, v)
           THEN /\ holds' = [holds EXCEPT ![h].state = "created"]
                /\ viewings' = [viewings EXCEPT ![v].state = "hold_created",
                                                ![v].ref = TRUE]
                /\ MoveListing("tour_scheduled")
           ELSE UNCHANGED <<holds, viewings, lifecycle, plan, putBack>>
        /\ Finish(r)
        /\ UNCHANGED <<approval, overdue, events, late, conflicted, recheck,
                       told>>

\* Faulty: a hold fails whatever has become of it.
FailAny(r) ==
    LET h == req[r].h
    IN  /\ req[r].at \in {"retryable", "permanent"}
        /\ holds' = [holds EXCEPT ![h].state =
                        IF req[r].at = "retryable" THEN "retryable_failed"
                        ELSE "permanently_failed"]
        /\ Finish(r)
        /\ UNCHANGED <<lifecycle, plan, putBack, viewings, approval, overdue,
                       events, late, conflicted, recheck, told>>

\* failCalendarHoldCreation: only a hold that is still being created fails.
Fail(r) ==
    LET h == req[r].h
    IN  /\ req[r].at \in {"retryable", "permanent"}
        /\ holds' = [holds EXCEPT ![h].state =
                        IF @ # "creating" THEN @
                        ELSE IF req[r].at = "retryable" THEN "retryable_failed"
                        ELSE "permanently_failed"]
        /\ Finish(r)
        /\ UNCHANGED <<lifecycle, plan, putBack, viewings, approval, overdue,
                       events, late, conflicted, recheck, told>>

------------------------------------------------------------------------------
(* Cancelling and rescheduling.                                            *)

\* cancel reads the newest hold that has not ended ...
ReadForCancel(r, v) ==
    /\ req[r].at = "idle" /\ viewings[v].state # "cancelled"
    /\ req' = [req EXCEPT ![r] =
                  [Idle EXCEPT !.at = "cancel", !.v = v,
                               !.h = IF Active(v) = {} THEN 0
                                     ELSE CHOOSE h \in Active(v) :
                                              \A g \in Active(v) : g <= h]]
    /\ UNCHANGED <<lifecycle, plan, putBack, viewings, holds, approval,
                   overdue, events, late, conflicted, recheck, told>>

EndHold(h) == [holds EXCEPT ![h].state =
                  IF @ \in Ended THEN @ ELSE "cancelled_internal"]
Warned(v)  == IF viewings[v].ref THEN told \cup {v} ELSE told

\* ... and cancelViewingInternally ends the viewing, that hold and the tour.
Cancel(r) ==
    LET v == req[r].v
        h == req[r].h
    IN  /\ req[r].at = "cancel"
        /\ IF viewings[v].state = "cancelled"
           THEN UNCHANGED <<viewings, lifecycle, plan, putBack, holds, told>>
           ELSE /\ viewings' = [viewings EXCEPT ![v].state = "cancelled"]
                /\ MoveListing("replied")
                /\ holds' = IF h = 0 THEN holds ELSE EndHold(h)
                /\ told' = Warned(v)
        /\ Finish(r)
        /\ UNCHANGED <<approval, overdue, events, late, conflicted, recheck>>

\* Faulty: the listing stays as it is.
UnscheduledNever(s) == s

\* The listing of a viewing that is being rescheduled.
Unscheduled(s) == IF s = "tour_scheduled" THEN "tour_proposed" ELSE s

(* startViewingReschedule: a replacement with the windows of the viewing,
   whose one active hold ends with it; more than one is refused.           *)
Reschedule(v) ==
    /\ viewings[v].state # "cancelled" /\ Len(viewings) < MaxViewings
    /\ Cardinality(Active(v)) <= 1
    /\ viewings' = Append([viewings EXCEPT ![v].state = "cancelled"],
                          NewViewing(viewings[v].check))
    /\ holds' = IF Active(v) = {} THEN holds
                ELSE EndHold(CHOOSE h \in Active(v) : TRUE)
    /\ MoveListing(Unscheduled(lifecycle))
    /\ told' = Warned(v)
    /\ UNCHANGED <<approval, overdue, events, late, req, conflicted, recheck>>

\* The process ends between two steps of a request.
Crash(r) ==
    /\ req[r].at # "idle"
    /\ Finish(r)
    /\ UNCHANGED <<lifecycle, plan, putBack, viewings, holds, approval,
                   overdue, events, late, conflicted, recheck, told>>

------------------------------------------------------------------------------
(* The decision lane.                                                      *)

(* readSnapshot reads the state with the other priors, for one plan at a
   time, since only the newest revision is decided ...                     *)
ReadPriors ==
    /\ Decides
    /\ plan' = lifecycle
    /\ UNCHANGED <<lifecycle, putBack, viewings, holds, approval, overdue,
                   events, late, req, conflicted, recheck, told>>

(* ... applyPlan upserts it with the projection.  A plan that is refused is
   one that never gets there.                                              *)
ApplyPlan ==
    /\ plan # NoPlan /\ plan' = NoPlan
    /\ lifecycle' = plan /\ putBack' = (putBack \/ plan # lifecycle)
    /\ UNCHANGED <<viewings, holds, approval, overdue, events, late, req,
                   conflicted, recheck, told>>

------------------------------------------------------------------------------
Serve(r) ==
    \/ \E v \in DOMAIN viewings : \E n \in Notes : Prepare(r, v, n)
    \/ Reserve(r)
    \/ \E h \in DOMAIN holds : ReadPreview(r, h)
    \/ Approve(r)
    \/ \E h \in DOMAIN holds : StartCreate(r, h)
    \/ \E c \in Checks : FinalCheck(r, c)
    \/ Revoke(r)
    \/ Replace(r)
    \/ \E h \in DOMAIN holds : PreviewOverride(r, h)
    \/ \E allowed \in BOOLEAN : ReadPolicy(r, allowed)
    \/ Deny(r)
    \/ Begin(r)
    \/ Lookup(r)
    \/ Insert(r)
    \/ Finalize(r)
    \/ Fail(r)
    \/ \E v \in DOMAIN viewings : ReadForCancel(r, v)
    \/ Cancel(r)
    \/ Crash(r)

Next ==
    \/ \E c \in Checks : Propose(c)
    \/ \E v \in DOMAIN viewings : Select(v) \/ Reschedule(v)
    \/ \E h \in DOMAIN holds : PassExpiry(h) \/ Land(h)
    \/ \E r \in Requests : Serve(r)
    \/ ReadPriors \/ ApplyPlan

Spec == Init /\ [][Next]_vars

------------------------------------------------------------------------------
(* Properties.                                                             *)

TypeOK ==
    /\ lifecycle \in Tour /\ plan \in Tour \cup {NoPlan} /\ putBack \in BOOLEAN
    /\ \A v \in DOMAIN viewings : /\ viewings[v].state \in ViewingStates
                                  /\ viewings[v].notes \in Notes \cup {NoNotes}
                                  /\ viewings[v].check \in {"checked", "failed"}
                                  /\ viewings[v].ref \in BOOLEAN
    /\ \A h \in DOMAIN holds : /\ holds[h].state \in HoldStates
                               /\ holds[h].viewing \in DOMAIN viewings
                               /\ holds[h].from \in {0} \cup DOMAIN holds
    /\ Len(approval) = Len(holds) /\ Range(approval) \subseteq ApprovalStates
    /\ overdue \cup events \cup late \subseteq DOMAIN holds

\* What the provider stores, or may yet store, for a viewing.
Effects(v) == HoldsOf(v) \cap (events \cup late)

(* However often and however concurrently a creation is asked for, retried,
   overridden or crashes, a viewing gets at most one event.                *)
OneEventPerViewing == \A v \in DOMAIN viewings : Cardinality(Effects(v)) <= 1

(* Every event was written under an approval that its creation consumed.   *)
EventWasApproved == \A h \in events \cup late : approval[h] = "used"

(* A viewing whose final check found a conflict gets no event, from the
   revoked hold or from an override of it.                                 *)
NoEventOverConflict ==
    \A h \in conflicted : Effects(holds[h].viewing) = {}

(* A viewing whose hold is created has such a hold, with its event stored,
   whatever the slower of two requests for it reports afterwards.          *)
CreatedIsReal ==
    \A v \in DOMAIN viewings :
        viewings[v].state = "hold_created" =>
            \E h \in HoldsOf(v) : holds[h].state = "created" /\ h \in events

(* The listing says that a tour is scheduled only while the hold of one of its
   viewings is created, through conflicts, cancellations and reschedules,
   unless a decision that read the state before the tour was called off has
   put it back since.                                                       *)
TourHasHold ==
    lifecycle = "tour_scheduled" /\ ~putBack =>
        \E v \in DOMAIN viewings : viewings[v].state = "hold_created"

(* Requests that check, approve and create holds at once, and calls of Google
   that fail or answer late, leave one event for a viewing, as it was approved,
   over no conflict, and no viewing or listing that only believes in its hold. *)
HoldsAreApproved ==
    /\ OneEventPerViewing /\ EventWasApproved /\ NoEventOverConflict
    /\ CreatedIsReal /\ TourHasHold
==============================================================================
