------------------------ MODULE CalendarHolds_proofs ------------------------
(***************************************************************************)
(* Proofs about CalendarHolds, for every number of requests, viewings,     *)
(* holds and notes.                                                        *)
(*                                                                         *)
(* That a viewing has one event does not follow from its own approval: it  *)
(* needs what every request still in progress has read, and what a hold    *)
(* that overrides another comes from.  Two facts carry the invariant: the  *)
(* tables only ever go one way (ViewingsGo, HoldsGo), so that what was     *)
(* read stays good for its reader; and an approval that is consumed is     *)
(* consumed by a hold whose check had not failed, or one that overrides a  *)
(* hold that can no longer be created.                                     *)
(***************************************************************************)
EXTENDS CalendarHolds, SequenceTheorems, FiniteSetTheorems, TLAPS

USE BoundsAreSmall, ChecksAreOutcomes

(***************************************************************************)
(* The inductive invariant.                                                *)
(***************************************************************************)

CheckStates == {"checked", "failed"}
AnyNotes    == Notes \cup {NoNotes}
Viewings    == [state : ViewingStates, notes : AnyNotes, check : CheckStates, ref : BOOLEAN]
Holds       == [viewing : Nat, notes : AnyNotes, from : Nat, check : CheckStates,
                state : HoldStates]

(* The steps of a request that names a hold, with those after its approval  *)
(* was consumed.                                                            *)
Consumed == {"lookup", "insert", "retryable", "permanent", "finalize"}
OnHold   == {"approve", "check", "policy", "conflict", "unavailable", "replace", "deny",
             "begin"} \cup Consumed
Stages   == {"idle", "reserve", "cancel"} \cup OnHold
Progress == [at : Stages, v : Nat, h : Nat, notes : AnyNotes, from : Nat, check : CheckStates,
             hold : HoldStates]

(* The shape of the tables and of the requests.                             *)
Shape ==
    /\ lifecycle \in Tour /\ plan \in Tour \cup {NoPlan} /\ putBack \in BOOLEAN
    /\ viewings \in Seq(Viewings) /\ holds \in Seq(Holds) /\ approval \in Seq(ApprovalStates)
    /\ Len(approval) = Len(holds)
    /\ \A h \in DOMAIN holds : holds[h].viewing \in DOMAIN viewings
    /\ req \in [Requests -> Progress]
    /\ overdue \cup events \cup late \cup conflicted \subseteq DOMAIN holds

(* A viewing past its selection: its notes are settled.                     *)
Settled == {"hold_approved", "hold_created", "cancelled"}

(* What its approval says of the state and the check of a hold of a         *)
(* viewing.                                                                 *)
Fits(hold, granted, viewing) ==
    /\ hold.state = "approval_pending" => granted = "none"
    /\ hold.state = "approved" => granted # "none"
    /\ hold.state \in {"creating", "retryable_failed"} => granted = "used"
    /\ hold.state = "cancelled_internal" /\ granted = "none"
         => viewing.state = "cancelled"
    /\ hold.from = 0 /\ granted = "used" => hold.check = "checked"

ApprovalFits(h) == Fits(holds[h], approval[h], viewings[holds[h].viewing])

(* A hold an override of viewing v may start from: its approval was given   *)
(* and can no longer be used.                                               *)
Base(v, b) ==
    /\ v \in DOMAIN viewings /\ viewings[v].state \in Settled
    /\ b \in DOMAIN holds /\ holds[b].viewing = v /\ holds[b].from = 0
    /\ holds[b].state = "cancelled_internal" /\ holds[b].check # "checked"
    /\ approval[b] # "none"

(* Where a hold that was approved, and one that overrides another, come     *)
(* from.                                                                    *)
ComesFrom(h) ==
    /\ holds[h].from = 0 /\ approval[h] # "none"
         => viewings[holds[h].viewing].state \in Settled
    /\ holds[h].from # 0 => /\ Base(holds[h].viewing, holds[h].from)
                            /\ holds[h].notes = viewings[holds[h].viewing].notes

(* A viewing has one approved hold that overrides none, and one hold for    *)
(* each payload and override.                                               *)
OnePerViewing == \A h, g \in DOMAIN holds : holds[h].viewing = holds[g].viewing =>
    /\ holds[h].from = 0 /\ holds[g].from = 0 /\ approval[h] # "none" /\ approval[g] # "none"
         => h = g
    /\ holds[h].from = holds[g].from /\ holds[h].notes = holds[g].notes => h = g

(* A hold revoked over a conflict can be overridden by nobody.              *)
ConflictFits(h) == /\ holds[h].from = 0 /\ holds[h].check = "checked"
                   /\ holds[h].state = "cancelled_internal" /\ approval[h] = "revoked"

(* What a request that stands at q may rely on.                             *)
Relies(q) ==
    /\ q.at \in OnHold => q.h \in DOMAIN holds /\ holds[q.h].viewing = q.v
    /\ q.at \in {"reserve", "cancel"} => q.v \in DOMAIN viewings
    /\ q.at = "reserve" /\ q.from # 0 => Base(q.v, q.from) /\ q.notes = viewings[q.v].notes
    /\ q.at = "cancel" /\ q.h # 0 => q.h \in DOMAIN holds /\ holds[q.h].viewing = q.v
    /\ q.at \in {"check", "conflict", "unavailable"} => holds[q.h].from = 0
    /\ q.at = "conflict" => q.check = "checked"
    /\ q.at \in {"policy", "begin"} => (holds[q.h].from = 0 => q.check = "checked")
    /\ q.at \in {"check", "policy"} /\ q.hold = "creating" => approval[q.h] = "used"
    /\ q.at \in Consumed => approval[q.h] = "used"
    /\ q.at = "finalize" => q.h \in events

HoldsInv ==
    /\ \A h \in DOMAIN holds : ApprovalFits(h) /\ ComesFrom(h)
    /\ OnePerViewing
    /\ \A h \in conflicted : ConflictFits(h)
    /\ EventWasApproved /\ CreatedIsReal /\ TourHasHold

CalendarInv == Shape /\ HoldsInv /\ \A r \in Requests : Relies(req[r])

(***************************************************************************)
(* Rows of the tables.                                                     *)
(***************************************************************************)

LEMMA RowWritten ==
    ASSUME NEW S, NEW seq \in Seq(S), NEW i \in DOMAIN seq, NEW e \in S
    PROVE  /\ [seq EXCEPT ![i] = e] \in Seq(S)
           /\ Len([seq EXCEPT ![i] = e]) = Len(seq)
           /\ DOMAIN [seq EXCEPT ![i] = e] = DOMAIN seq
           /\ \A j \in DOMAIN seq : [seq EXCEPT ![i] = e][j] = IF j = i THEN e ELSE seq[j]
<1>1. DOMAIN seq = 1..Len(seq)
  BY LenProperties
<1>. QED
  BY <1>1, ExceptSeq

LEMMA RowAppended ==
    ASSUME NEW S, NEW seq \in Seq(S), NEW e \in S
    PROVE  /\ Append(seq, e) \in Seq(S)
           /\ Len(Append(seq, e)) = Len(seq) + 1
           /\ DOMAIN Append(seq, e) = DOMAIN seq \cup {Len(seq) + 1}
           /\ Len(seq) + 1 \notin DOMAIN seq
           /\ \A j \in DOMAIN seq : Append(seq, e)[j] = seq[j]
           /\ Append(seq, e)[Len(seq) + 1] = e
<1>1. DOMAIN seq = 1..Len(seq) /\ Len(seq) \in Nat
  BY LenProperties
<1>2. /\ Append(seq, e) \in Seq(S) /\ Len(Append(seq, e)) = Len(seq) + 1
      /\ \A j \in 1..Len(seq) : Append(seq, e)[j] = seq[j]
      /\ Append(seq, e)[Len(seq) + 1] = e
  BY AppendProperties
<1>3. DOMAIN Append(seq, e) = 1..(Len(seq) + 1)
  BY <1>2, LenProperties
<1>. QED
  BY <1>1, <1>2, <1>3

(* What the rows are, given their tables.                                   *)
LEMMA Rows ==
    ASSUME Shape
    PROVE  /\ DOMAIN approval = DOMAIN holds
           /\ DOMAIN holds \subseteq Nat \ {0} /\ DOMAIN viewings \subseteq Nat \ {0}
           /\ \A v \in DOMAIN viewings : viewings[v] \in Viewings
           /\ \A h \in DOMAIN holds : holds[h] \in Holds /\ approval[h] \in ApprovalStates
           /\ \A r \in Requests : req[r] \in Progress
<1>1. /\ DOMAIN holds = 1..Len(holds) /\ DOMAIN viewings = 1..Len(viewings)
      /\ DOMAIN approval = 1..Len(approval) /\ Len(holds) \in Nat /\ Len(viewings) \in Nat
      /\ viewings \in [1..Len(viewings) -> Viewings] /\ holds \in [1..Len(holds) -> Holds]
      /\ approval \in [1..Len(approval) -> ApprovalStates]
  BY LenProperties DEF Shape
<1>. QED
  BY <1>1 DEF Shape

(* The newest of some rows.                                                 *)
LEMMA NewestExists ==
    ASSUME NEW n \in Nat, NEW A, A \subseteq 1..n, A # {}
    PROVE  \E h \in A : \A g \in A : g <= h
<1>. DEFINE T == {X \in SUBSET A : \E h \in A : X = {g \in A : g > h}}
<1>0. A \subseteq Int
  OBVIOUS
<1>1. IsFiniteSet(A)
  <2>1. IsFiniteSet(1..n)
    BY FS_Interval
  <2>. QED
    BY <2>1, FS_Subset
<1>2. T \subseteq FiniteSubsetsOf(A)
  BY <1>1, FS_FiniteSubsetsOfFinite
<1>3. T # {}
  <2>1. PICK h \in A : TRUE
    OBVIOUS
  <2>2. {g \in A : g > h} \in T
    OBVIOUS
  <2>. QED
    BY <2>2
<1>. HIDE DEF T
<1>4. PICK X \in T : \A Y \in T : <<Y, X>> \notin StrictSubsetOrdering(A)
  <2>1. IsWellFoundedOn(StrictSubsetOrdering(A), FiniteSubsetsOf(A))
    BY FS_StrictSubsetOrderingWellFounded
  <2>. QED
    BY <1>2, <1>3, <2>1, WFMin
<1>5. PICK h \in A : X = {g \in A : g > h}
  BY DEF T
<1>6. ASSUME NEW g \in A, g > h PROVE FALSE
  <2>. DEFINE Y == {k \in A : k > g}
  <2>1. Y \in T
    BY DEF T
  <2>2. Y \subseteq X /\ g \in X /\ g \notin Y
    <3>1. g \in Int /\ h \in Int /\ \A k \in A : k \in Int
      BY <1>0, <1>6
    <3>2. \A k \in A : k > g => k > h
      BY <1>6, <3>1
    <3>3. ~(g > g)
      BY <3>1
    <3>. QED
      BY <1>5, <1>6, <3>2, <3>3
  <2>. HIDE DEF Y
  <2>3. <<Y, X>> \in StrictSubsetOrdering(A)
    BY <1>5, <2>1, <2>2 DEF StrictSubsetOrdering, T
  <2>. QED
    BY <1>4, <2>1, <2>3
<1>. QED
  BY <1>0, <1>6

(***************************************************************************)
(* What every step leaves as it is.                                        *)
(***************************************************************************)

(* A settled viewing stays settled, with its notes, and a cancelled one     *)
(* stays cancelled.                                                         *)
ViewingsGo ==
    /\ DOMAIN viewings \subseteq DOMAIN viewings'
    /\ \A v \in DOMAIN viewings :
         /\ viewings[v].state \in Settled =>
              viewings'[v].state \in Settled /\ viewings'[v].notes = viewings[v].notes
         /\ viewings[v].state = "cancelled" => viewings'[v].state = "cancelled"

(* A hold keeps its viewing, its notes and what it overrides; one that is   *)
(* cancelled keeps its state and its check, and no approval is taken back   *)
(* after its use or restored.                                               *)
HoldGoes(h) ==
    /\ holds'[h].viewing = holds[h].viewing
    /\ holds'[h].notes = holds[h].notes /\ holds'[h].from = holds[h].from
    /\ holds[h].state = "cancelled_internal" =>
         holds'[h].state = "cancelled_internal" /\ holds'[h].check = holds[h].check
    /\ approval[h] \in {"used", "revoked"} => approval'[h] = approval[h]
    /\ approval[h] # "none" => approval'[h] # "none"

HoldsGo ==
    /\ DOMAIN holds \subseteq DOMAIN holds' /\ events \subseteq events'
    /\ \A h \in DOMAIN holds : HoldGoes(h)

LEMMA BaseStays ==
    ASSUME Shape, ViewingsGo, HoldsGo, NEW v, NEW b, Base(v, b)
    PROVE  Base(v, b)'
BY DEF ViewingsGo, HoldsGo, HoldGoes, Base

(* What a request has read stays good for it.                               *)
LEMMA ReliesStays ==
    ASSUME Shape, ViewingsGo, HoldsGo, NEW q, Relies(q)
    PROVE  Relies(q)'
<1>1. {"check", "policy", "conflict", "unavailable", "begin", "finalize"} \cup Consumed \subseteq OnHold
  BY DEF OnHold, Consumed
<1>2. q.at = "reserve" /\ q.from # 0 => Base(q.v, q.from)' /\ q.notes = viewings'[q.v].notes
  <2>. SUFFICES ASSUME q.at = "reserve", q.from # 0
                PROVE  Base(q.v, q.from)' /\ q.notes = viewings'[q.v].notes
    OBVIOUS
  <2>1. Base(q.v, q.from) /\ q.notes = viewings[q.v].notes
    BY DEF Relies
  <2>2. viewings'[q.v].notes = viewings[q.v].notes
    BY <2>1 DEF Base, ViewingsGo
  <2>. QED
    BY <2>1, <2>2, BaseStays
<1>3. /\ q.at \in OnHold => q.h \in DOMAIN holds' /\ holds'[q.h].viewing = q.v
      /\ q.at \in {"reserve", "cancel"} => q.v \in DOMAIN viewings'
      /\ q.at = "cancel" /\ q.h # 0 => q.h \in DOMAIN holds' /\ holds'[q.h].viewing = q.v
      /\ q.at \in {"check", "conflict", "unavailable"} => holds'[q.h].from = 0
      /\ q.at = "conflict" => q.check = "checked"
      /\ q.at \in {"policy", "begin"} => (holds'[q.h].from = 0 => q.check = "checked")
      /\ q.at \in {"check", "policy"} /\ q.hold = "creating" => approval'[q.h] = "used"
      /\ q.at \in Consumed => approval'[q.h] = "used"
      /\ q.at = "finalize" => q.h \in events'
  BY <1>1 DEF Relies, ViewingsGo, HoldsGo, HoldGoes
<1>. QED
  BY <1>2, <1>3 DEF Relies

(* The request of a step goes on with q, and the others with what they have *)
(* read.                                                                    *)
LEMMA StepDone ==
    ASSUME CalendarInv, Shape', HoldsInv', ViewingsGo, HoldsGo, NEW r \in Requests,
           NEW q, Relies(q)', req' = [req EXCEPT ![r] = q]
    PROVE  CalendarInv'
<1>1. ASSUME NEW s \in Requests, s # r PROVE Relies(req[s])'
  <2>1. PICK p : p = req[s]
    OBVIOUS
  <2>2. req'[s] = p
    BY <1>1, <2>1 DEF CalendarInv, Shape
  <2>3. Relies(p)'
    BY <2>1, ReliesStays DEF CalendarInv
  <2>. QED
    BY <2>2, <2>3
<1>2. req'[r] = q
  BY DEF CalendarInv, Shape
<1>3. Relies(req[r])'
  BY <1>2
<1>. QED
  BY <1>1, <1>3 DEF CalendarInv

(* A step of no request.                                                    *)
LEMMA OutsideDone ==
    ASSUME CalendarInv, Shape', HoldsInv', ViewingsGo, HoldsGo, UNCHANGED req
    PROVE  CalendarInv'
<1>1. ASSUME NEW s \in Requests PROVE Relies(req[s])'
  <2>1. PICK p : p = req[s]
    OBVIOUS
  <2>2. Relies(p)'
    BY <2>1, ReliesStays DEF CalendarInv
  <2>. QED
    BY <2>1, <2>2
<1>. QED
  BY <1>1 DEF CalendarInv

(* A request that is over relies on nothing.                                *)
LEMMA IdleRelies == Idle \in Progress /\ Idle.at = "idle" /\ Relies(Idle) /\ Relies(Idle)'
<1>1. Idle \in Progress /\ Idle.at = "idle"
  BY DEF Idle, Progress, Stages, AnyNotes, CheckStates, HoldStates
<1>2. "idle" \notin OnHold \cup Consumed
  BY DEF OnHold, Consumed
<1>. QED
  BY <1>1, <1>2 DEF Relies

(* A created hold of a viewing and the tour of the listing last while no    *)
(* step touches them.                                                       *)
LEMMA CreatedStays ==
    ASSUME Shape, HoldsInv, HoldsGo,
           \A v \in DOMAIN viewings' : viewings'[v].state = "hold_created" =>
             /\ v \in DOMAIN viewings /\ viewings[v].state = "hold_created"
             /\ \A h \in HoldsOf(v) : holds[h].state = "created" => holds'[h].state = "created",
           lifecycle' = "tour_scheduled" /\ ~putBack' =>
             /\ lifecycle = "tour_scheduled" /\ ~putBack
             /\ \A v \in DOMAIN viewings : viewings[v].state = "hold_created" =>
                  v \in DOMAIN viewings' /\ viewings'[v].state = "hold_created"
    PROVE  CreatedIsReal' /\ TourHasHold'
<1>1. ASSUME NEW v \in DOMAIN viewings', viewings'[v].state = "hold_created"
      PROVE  \E h \in DOMAIN holds' : /\ holds'[h].viewing = v
                                      /\ holds'[h].state = "created" /\ h \in events'
  <2>1. PICK h \in HoldsOf(v) : holds[h].state = "created" /\ h \in events
    BY <1>1 DEF HoldsInv, CreatedIsReal
  <2>2. h \in DOMAIN holds /\ holds[h].viewing = v
    BY <2>1 DEF HoldsOf
  <2>3. holds'[h].state = "created"
    BY <1>1, <2>1
  <2>. QED
    BY <2>1, <2>2, <2>3 DEF HoldsGo, HoldGoes
<1>2. CreatedIsReal'
  BY <1>1 DEF CreatedIsReal, HoldsOf
<1>3. TourHasHold'
  BY DEF HoldsInv, TourHasHold
<1>. QED
  BY <1>2, <1>3

(* A hold whose approval a step does not give: where it comes from.         *)
LEMMA OriginStays ==
    ASSUME Shape, HoldsInv, ViewingsGo, HoldsGo, NEW h \in DOMAIN holds,
           approval[h] = "none" => approval'[h] = "none"
    PROVE  ComesFrom(h)'
<1>1. ComesFrom(h) /\ holds[h].viewing \in DOMAIN viewings
  BY DEF HoldsInv, Shape
<1>2. PICK v, b : v = holds[h].viewing /\ b = holds[h].from
  OBVIOUS
<1>3. b # 0 => Base(v, b)' /\ holds'[h].notes = viewings'[v].notes
  <2>1. b # 0 => Base(v, b) /\ holds[h].notes = viewings[v].notes
    BY <1>1, <1>2 DEF ComesFrom
  <2>2. b # 0 => Base(v, b)'
    BY <2>1, BaseStays
  <2>. QED
    BY <2>1, <2>2 DEF Base, ViewingsGo, HoldsGo, HoldGoes
<1>4. holds'[h].from = 0 /\ approval'[h] # "none"
        => viewings'[holds'[h].viewing].state \in Settled
  BY <1>1 DEF ComesFrom, ViewingsGo, HoldsGo, HoldGoes
<1>5. holds'[h].viewing = v /\ holds'[h].from = b
  BY <1>2 DEF HoldsGo, HoldGoes
<1>. QED
  BY <1>3, <1>4, <1>5 DEF ComesFrom

(* Steps that add no hold, and give no approval: where the holds come from. *)
LEMMA OriginsStay ==
    ASSUME Shape, HoldsInv, ViewingsGo, HoldsGo, DOMAIN holds' = DOMAIN holds,
           \A h \in DOMAIN holds : approval[h] = "none" => approval'[h] = "none"
    PROVE  (\A h \in DOMAIN holds : ComesFrom(h))' /\ OnePerViewing'
<1>1. \A h \in DOMAIN holds : ComesFrom(h)'
  BY OriginStays
<1>2. OnePerViewing'
  BY DEF HoldsInv, OnePerViewing, HoldsGo, HoldGoes
<1>. QED
  BY <1>1, <1>2

(***************************************************************************)
(* Steps of one kind.                                                      *)
(***************************************************************************)

(* Nothing is written but the requests, the events under used approvals and *)
(* the approvals that are overdue.                                          *)
LEMMA TablesStay ==
    ASSUME CalendarInv, UNCHANGED <<lifecycle, plan, putBack, viewings, holds, approval,
                                    conflicted>>,
           events \subseteq events', overdue' \subseteq DOMAIN holds,
           \A h \in events' \cup late' : h \in DOMAIN holds /\ approval[h] = "used",
           req' \in [Requests -> Progress]
    PROVE  Shape' /\ HoldsInv' /\ ViewingsGo /\ HoldsGo
<1>1. ViewingsGo /\ HoldsGo
  BY DEF ViewingsGo, HoldsGo, HoldGoes
<1>2. Shape'
  BY DEF CalendarInv, Shape
<1>3. (\A h \in DOMAIN holds : ComesFrom(h))' /\ OnePerViewing'
  BY <1>1, OriginsStay DEF CalendarInv
<1>4. CreatedIsReal' /\ TourHasHold'
  BY <1>1, CreatedStays DEF CalendarInv
<1>5. (\A h \in DOMAIN holds : ApprovalFits(h))'
  BY DEF CalendarInv, HoldsInv, ApprovalFits
<1>6. (\A h \in conflicted : ConflictFits(h))' /\ EventWasApproved'
  BY DEF CalendarInv, HoldsInv, ConflictFits, EventWasApproved
<1>. QED
  BY <1>1, <1>2, <1>3, <1>4, <1>5, <1>6 DEF HoldsInv

(* A request goes on, and nothing else is written.                          *)
LEMMA OnlyAsks ==
    ASSUME CalendarInv, UNCHANGED <<lifecycle, plan, putBack, viewings, holds, approval,
                                    conflicted>>,
           UNCHANGED <<events, late, overdue>>,
           NEW r \in Requests, NEW q \in Progress, Relies(q), req' = [req EXCEPT ![r] = q]
    PROVE  CalendarInv'
<1>1. req' \in [Requests -> Progress]
  BY DEF CalendarInv, Shape
<1>2. \A h \in events' \cup late' : h \in DOMAIN holds /\ approval[h] = "used"
  BY DEF CalendarInv, Shape, HoldsInv, EventWasApproved
<1>3. overdue' \subseteq DOMAIN holds
  BY DEF CalendarInv, Shape
<1>4. Shape' /\ HoldsInv' /\ ViewingsGo /\ HoldsGo
  BY <1>1, <1>2, <1>3, TablesStay
<1>5. Relies(q)'
  BY <1>4, ReliesStays DEF CalendarInv
<1>. QED
  BY <1>4, <1>5, StepDone

(* One hold is written: what its new row n and its approval a have to be    *)
(* for the viewing as the step leaves it.                                   *)
Writes(h, n, a) ==
    /\ h \in DOMAIN holds /\ n \in Holds /\ a \in ApprovalStates
    /\ holds' = [holds EXCEPT ![h] = n] /\ approval' = [approval EXCEPT ![h] = a]
    /\ n.viewing = holds[h].viewing /\ n.notes = holds[h].notes /\ n.from = holds[h].from
    /\ holds[h].state = "cancelled_internal" =>
         n.state = "cancelled_internal" /\ n.check = holds[h].check
    /\ approval[h] \in {"used", "revoked"} => a = approval[h]
    /\ a = "none" <=> approval[h] = "none"
    /\ Fits(n, a, viewings'[n.viewing])
    /\ UNCHANGED <<events, late>>

(* It leaves the other holds as they are, and what they come from.          *)
LEMMA OneHold ==
    ASSUME CalendarInv, NEW h, NEW n, NEW a, Writes(h, n, a), ViewingsGo
    PROVE  /\ (\A g \in DOMAIN holds : ApprovalFits(g) /\ ComesFrom(g))' /\ OnePerViewing'
           /\ EventWasApproved' /\ HoldsGo
           /\ holds' \in Seq(Holds) /\ approval' \in Seq(ApprovalStates)
           /\ Len(approval') = Len(holds') /\ DOMAIN holds' = DOMAIN holds
           /\ \A g \in DOMAIN holds : holds'[g] = IF g = h THEN n ELSE holds[g]
           /\ \A g \in DOMAIN holds : approval'[g] = IF g = h THEN a ELSE approval[g]
<1>. USE DEF Writes
<1>0. Shape /\ HoldsInv /\ DOMAIN approval = DOMAIN holds
  BY Rows DEF CalendarInv
<1>1. /\ holds' \in Seq(Holds) /\ DOMAIN holds' = DOMAIN holds /\ Len(holds') = Len(holds)
      /\ \A g \in DOMAIN holds : holds'[g] = IF g = h THEN n ELSE holds[g]
  BY <1>0, RowWritten DEF Shape
<1>2. /\ approval' \in Seq(ApprovalStates) /\ Len(approval') = Len(approval)
      /\ \A g \in DOMAIN holds : approval'[g] = IF g = h THEN a ELSE approval[g]
  BY <1>0, RowWritten DEF Shape
<1>3. HoldsGo
  <2>1. ASSUME NEW g \in DOMAIN holds PROVE HoldGoes(g)
    BY <1>1, <1>2 DEF HoldGoes
  <2>. QED
    BY <1>1, <2>1 DEF HoldsGo
<1>4. (\A g \in DOMAIN holds : ComesFrom(g))' /\ OnePerViewing'
  BY <1>0, <1>1, <1>2, <1>3, OriginsStay
<1>5. ASSUME NEW g \in DOMAIN holds PROVE ApprovalFits(g)'
  <2>1. CASE g = h
    BY <1>1, <1>2, <2>1 DEF ApprovalFits
  <2>2. CASE g # h
    <3>1. ApprovalFits(g) /\ holds[g].viewing \in DOMAIN viewings
      BY <1>0 DEF HoldsInv, Shape
    <3>2. holds'[g] = holds[g] /\ approval'[g] = approval[g]
      BY <1>1, <1>2, <2>2
    <3>. QED
      BY <3>1, <3>2 DEF ApprovalFits, Fits, ViewingsGo
  <2>. QED
    BY <2>1, <2>2
<1>6. EventWasApproved'
  BY <1>0, <1>2 DEF HoldsInv, EventWasApproved, Shape
<1>. QED
  BY <1>0, <1>1, <1>2, <1>3, <1>4, <1>5, <1>6 DEF Shape

(* The holds revoked over a conflict stay so while no other is.             *)
LEMMA ConflictsStay ==
    ASSUME CalendarInv, HoldsGo, conflicted' = conflicted
    PROVE  \A g \in conflicted' : ConflictFits(g)'
BY DEF CalendarInv, HoldsInv, Shape, HoldsGo, HoldGoes, ConflictFits

(* The row of one viewing is written.                                       *)
LEMMA OneViewing ==
    ASSUME Shape, NEW v \in DOMAIN viewings, NEW w \in Viewings,
           viewings' = [viewings EXCEPT ![v] = w],
           viewings[v].state \in Settled => w.state \in Settled /\ w.notes = viewings[v].notes,
           viewings[v].state = "cancelled" => w.state = "cancelled"
    PROVE  /\ viewings' \in Seq(Viewings) /\ DOMAIN viewings' = DOMAIN viewings
           /\ \A u \in DOMAIN viewings : viewings'[u] = IF u = v THEN w ELSE viewings[u]
           /\ ViewingsGo
<1>1. /\ viewings' \in Seq(Viewings) /\ DOMAIN viewings' = DOMAIN viewings
      /\ \A u \in DOMAIN viewings : viewings'[u] = IF u = v THEN w ELSE viewings[u]
  BY RowWritten DEF Shape
<1>. QED
  BY <1>1 DEF ViewingsGo

(* A hold is written and no event or viewing is: what is left to show.      *)
LEMMA HoldWritten ==
    ASSUME CalendarInv, NEW h, NEW n, NEW a, Writes(h, n, a),
           holds[h].state = "created" => n.state = "created",
           UNCHANGED <<lifecycle, plan, putBack, viewings, overdue>>,
           \A g \in conflicted' :
             \/ g \in conflicted
             \/ /\ g = h /\ n.from = 0 /\ n.check = "checked"
                /\ n.state = "cancelled_internal" /\ a = "revoked",
           req' \in [Requests -> Progress]
    PROVE  Shape' /\ HoldsInv' /\ ViewingsGo /\ HoldsGo
<1>0. Shape /\ HoldsInv
  BY DEF CalendarInv
<1>1. ViewingsGo
  BY DEF ViewingsGo
<1>2. /\ (\A g \in DOMAIN holds : ApprovalFits(g) /\ ComesFrom(g))' /\ OnePerViewing'
      /\ EventWasApproved' /\ HoldsGo
      /\ holds' \in Seq(Holds) /\ approval' \in Seq(ApprovalStates)
      /\ Len(approval') = Len(holds') /\ DOMAIN holds' = DOMAIN holds
      /\ \A g \in DOMAIN holds : holds'[g] = IF g = h THEN n ELSE holds[g]
      /\ \A g \in DOMAIN holds : approval'[g] = IF g = h THEN a ELSE approval[g]
  BY <1>1, OneHold
<1>. USE DEF Writes
<1>3. \A g \in DOMAIN holds : holds[g].state = "created" => holds'[g].state = "created"
  BY <1>2
<1>4. CreatedIsReal' /\ TourHasHold'
  BY <1>0, <1>2, <1>3, CreatedStays DEF HoldsOf
<1>5. \A g \in conflicted' : g \in DOMAIN holds /\ ConflictFits(g)'
  BY <1>0, <1>2 DEF HoldsInv, Shape, ConflictFits, HoldsGo, HoldGoes
<1>6. HoldsInv'
  BY <1>2, <1>4, <1>5 DEF HoldsInv
<1>7. Shape'
  BY <1>0, <1>2, <1>5 DEF Shape
<1>. QED
  BY <1>1, <1>2, <1>6, <1>7

(* Viewings go on, and the holds stay.                                      *)
LEMMA OnlyViewings ==
    ASSUME CalendarInv, UNCHANGED <<holds, approval, overdue, events, late, conflicted>>,
           ViewingsGo, viewings' \in Seq(Viewings),
           lifecycle' \in Tour, plan' \in Tour \cup {NoPlan}, putBack' \in BOOLEAN,
           req' \in [Requests -> Progress],
           \A v \in DOMAIN viewings' : viewings'[v].state = "hold_created" =>
             v \in DOMAIN viewings /\ viewings[v].state = "hold_created",
           lifecycle' = "tour_scheduled" /\ ~putBack' =>
             /\ lifecycle = "tour_scheduled" /\ ~putBack
             /\ \A v \in DOMAIN viewings : viewings[v].state = "hold_created" =>
                  viewings'[v].state = "hold_created"
    PROVE  Shape' /\ HoldsInv' /\ HoldsGo
<1>0. Shape /\ HoldsInv
  BY DEF CalendarInv
<1>1. HoldsGo
  BY DEF HoldsGo, HoldGoes
<1>2. (\A h \in DOMAIN holds : ComesFrom(h))' /\ OnePerViewing'
  BY <1>0, <1>1, OriginsStay
<1>3. ASSUME NEW h \in DOMAIN holds PROVE ApprovalFits(h)'
  <2>1. ApprovalFits(h) /\ holds[h].viewing \in DOMAIN viewings
    BY <1>0 DEF HoldsInv, Shape
  <2>. QED
    BY <2>1 DEF ApprovalFits, Fits, ViewingsGo
<1>4. CreatedIsReal' /\ TourHasHold'
  BY <1>0, <1>1, CreatedStays DEF ViewingsGo
<1>5. EventWasApproved' /\ \A g \in conflicted' : ConflictFits(g)'
  BY <1>0, <1>1, ConflictsStay DEF HoldsInv, EventWasApproved
<1>6. Shape'
  BY <1>0 DEF Shape, ViewingsGo
<1>. QED
  BY <1>1, <1>2, <1>3, <1>4, <1>5, <1>6 DEF HoldsInv

(* A hold ends with its viewing, and with the tour.                         *)
LEMMA HoldEnds ==
    ASSUME CalendarInv, NEW h \in DOMAIN holds, holds' = EndHold(h),
           UNCHANGED <<approval, overdue, events, late, conflicted>>,
           ViewingsGo, viewings' \in Seq(Viewings),
           lifecycle' \in Tour, plan' \in Tour \cup {NoPlan}, putBack' \in BOOLEAN,
           lifecycle' # "tour_scheduled", req' \in [Requests -> Progress],
           viewings'[holds[h].viewing].state = "cancelled",
           \A v \in DOMAIN viewings' : viewings'[v].state = "hold_created" =>
             v \in DOMAIN viewings /\ viewings[v].state = "hold_created"
    PROVE  Shape' /\ HoldsInv' /\ HoldsGo
<1>0. /\ Shape /\ HoldsInv /\ holds \in Seq(Holds) /\ approval \in Seq(ApprovalStates)
      /\ DOMAIN approval = DOMAIN holds
      /\ holds[h] \in Holds /\ approval[h] \in ApprovalStates
  BY Rows DEF CalendarInv, Shape
<1>. DEFINE n == [holds[h] EXCEPT !.state = IF @ \in Ended THEN @ ELSE "cancelled_internal"]
<1>1. holds' = [holds EXCEPT ![h] = n]
  BY <1>0 DEF EndHold
<1>2. /\ n \in Holds /\ n.viewing = holds[h].viewing /\ n.notes = holds[h].notes
      /\ n.from = holds[h].from /\ n.check = holds[h].check
      /\ n.state \in Ended
      /\ holds[h].state \in Ended => n.state = holds[h].state
  BY <1>0 DEF Holds, HoldStates, Ended
<1>. HIDE DEF n
<1>3. approval' = [approval EXCEPT ![h] = approval[h]]
  BY <1>0
<1>4. Fits(n, approval[h], viewings'[n.viewing])
  <2>1. ApprovalFits(h)
    BY <1>0 DEF HoldsInv
  <2>. QED
    BY <1>2, <2>1 DEF ApprovalFits, Fits, Ended
<1>5. holds[h].state = "cancelled_internal" =>
        n.state = "cancelled_internal" /\ n.check = holds[h].check
  BY <1>2 DEF Ended
<1>6. /\ (\A g \in DOMAIN holds : ApprovalFits(g) /\ ComesFrom(g))' /\ OnePerViewing'
      /\ EventWasApproved' /\ HoldsGo
      /\ holds' \in Seq(Holds) /\ approval' \in Seq(ApprovalStates)
      /\ Len(approval') = Len(holds') /\ DOMAIN holds' = DOMAIN holds
      /\ \A g \in DOMAIN holds : holds'[g] = IF g = h THEN n ELSE holds[g]
  <2>1. Writes(h, n, approval[h])
    BY <1>0, <1>1, <1>2, <1>3, <1>4, <1>5 DEF Writes
  <2>. QED
    BY <2>1, OneHold
<1>7. CreatedIsReal' /\ TourHasHold'
  <2>1. ASSUME NEW v \in DOMAIN viewings', viewings'[v].state = "hold_created",
               NEW g \in HoldsOf(v), holds[g].state = "created"
        PROVE  holds'[g].state = "created"
    BY <1>6, <2>1 DEF HoldsOf
  <2>. QED
    BY <1>0, <1>6, <2>1, CreatedStays
<1>8. \A g \in conflicted' : ConflictFits(g)'
  BY <1>6, ConflictsStay
<1>9. Shape'
  BY <1>0, <1>2, <1>6 DEF Shape, ViewingsGo
<1>. QED
  BY <1>6, <1>7, <1>8, <1>9 DEF HoldsInv

(* A viewing is cancelled, and another proposed.                            *)
LEMMA ViewingReplaced ==
    ASSUME Shape, NEW v \in DOMAIN viewings, NEW w \in Viewings, w.state = "proposed",
           viewings' = Append([viewings EXCEPT ![v].state = "cancelled"], w)
    PROVE  /\ viewings' \in Seq(Viewings) /\ ViewingsGo /\ viewings'[v].state = "cancelled"
           /\ \A u \in DOMAIN viewings : u # v => viewings'[u] = viewings[u]
           /\ \A u \in DOMAIN viewings' : viewings'[u].state = "hold_created" =>
                u \in DOMAIN viewings /\ viewings[u].state = "hold_created"
<1>. DEFINE c == [viewings[v] EXCEPT !.state = "cancelled"]
            mid == [viewings EXCEPT ![v] = c]
<1>1. viewings[v] \in Viewings /\ viewings \in Seq(Viewings)
  BY Rows DEF Shape
<1>2. c \in Viewings /\ c.state = "cancelled" /\ c.notes = viewings[v].notes
  BY <1>1 DEF Viewings, ViewingStates
<1>3. viewings' = Append(mid, w)
  OBVIOUS
<1>. HIDE DEF c
<1>4. /\ mid \in Seq(Viewings) /\ DOMAIN mid = DOMAIN viewings
      /\ \A u \in DOMAIN viewings : mid[u] = IF u = v THEN c ELSE viewings[u]
  BY <1>1, <1>2, RowWritten
<1>. HIDE DEF mid
<1>5. /\ Append(mid, w) \in Seq(Viewings)
      /\ DOMAIN Append(mid, w) = DOMAIN mid \cup {Len(mid) + 1}
      /\ \A u \in DOMAIN mid : Append(mid, w)[u] = mid[u]
      /\ Append(mid, w)[Len(mid) + 1] = w
  BY <1>4, RowAppended
<1>. QED
  BY <1>2, <1>3, <1>4, <1>5 DEF ViewingsGo, Settled

(***************************************************************************)
(* The steps of a request that write nothing else.                         *)
(***************************************************************************)

LEMMA StageSet ==
    ASSUME NEW q \in Progress, NEW at \in Stages
    PROVE  /\ [q EXCEPT !.at = at] \in Progress /\ [q EXCEPT !.at = at].at = at
           /\ [q EXCEPT !.at = at].v = q.v /\ [q EXCEPT !.at = at].h = q.h
           /\ [q EXCEPT !.at = at].notes = q.notes /\ [q EXCEPT !.at = at].from = q.from
           /\ [q EXCEPT !.at = at].check = q.check /\ [q EXCEPT !.at = at].hold = q.hold
BY DEF Progress

(* A request on a hold that goes on with it, as far as it may.              *)
LEMMA StageRelies ==
    ASSUME NEW q \in Progress, Relies(q), q.at \in OnHold, NEW at \in OnHold,
           at \notin {"check", "conflict", "unavailable", "policy"},
           at = "begin" => (holds[q.h].from = 0 => q.check = "checked"),
           at \in Consumed => approval[q.h] = "used",
           at = "finalize" => q.h \in events
    PROVE  [q EXCEPT !.at = at] \in Progress /\ Relies([q EXCEPT !.at = at])
<1>. DEFINE p == [q EXCEPT !.at = at]
<1>1. p \in Progress /\ p.at = at /\ p.v = q.v /\ p.h = q.h /\ p.check = q.check
  BY StageSet DEF Stages
<1>. HIDE DEF p
<1>2. p.at \notin {"reserve", "cancel"}
  BY <1>1 DEF OnHold, Consumed
<1>3. Relies(p)
  BY <1>1, <1>2 DEF Relies
<1>. QED
  BY <1>1, <1>3 DEF p

LEMMA CrashStep ==
    ASSUME CalendarInv, NEW r \in Requests, Finish(r),
           UNCHANGED <<lifecycle, plan, putBack, viewings, holds, approval, overdue, events, late,
                       conflicted>>
    PROVE  CalendarInv'
BY IdleRelies, OnlyAsks DEF Finish

LEMMA ReadPreviewStep ==
    ASSUME CalendarInv, NEW r \in Requests, NEW h \in DOMAIN holds, ReadPreview(r, h)
    PROVE  CalendarInv'
<1>. DEFINE q == [Idle EXCEPT !.at = "approve", !.v = holds[h].viewing, !.h = h]
<1>1. holds[h].viewing \in Nat /\ h \in Nat
  BY Rows DEF CalendarInv, Holds
<1>2. q \in Progress /\ q.at = "approve" /\ q.v = holds[h].viewing /\ q.h = h
  BY <1>1 DEF Idle, Progress, Stages, OnHold, AnyNotes, CheckStates, HoldStates
<1>3. req' = [req EXCEPT ![r] = q]
      /\ UNCHANGED <<lifecycle, plan, putBack, viewings, holds, approval, overdue, events, late,
                     conflicted>>
  BY DEF ReadPreview
<1>. HIDE DEF q
<1>4. Relies(q)
  BY <1>2 DEF Relies, OnHold, Consumed
<1>. QED
  BY <1>2, <1>3, <1>4, OnlyAsks

LEMMA FinalCheckStep ==
    ASSUME CalendarInv, NEW r \in Requests, NEW c \in Checks, FinalCheck(r, c)
    PROVE  CalendarInv'
<1>. DEFINE at == CASE c = "free"   -> "policy"
                    [] c = "busy"   -> "conflict"
                    [] c = "failed" -> "unavailable"
            q == [req[r] EXCEPT !.check = Recorded(c), !.at = at]
<1>1. req[r] \in Progress /\ Relies(req[r]) /\ req[r].at = "check" /\ req \in [Requests -> Progress]
  BY Rows DEF CalendarInv, Shape, FinalCheck
<1>2. /\ at \in {"policy", "conflict", "unavailable"} /\ Recorded(c) \in CheckStates
      /\ at \in {"policy", "conflict"} => Recorded(c) = "checked"
  BY DEF Recorded, CheckStates
<1>3. req' = [req EXCEPT ![r] = q]
      /\ UNCHANGED <<lifecycle, plan, putBack, viewings, holds, approval, overdue, events, late,
                     conflicted>>
  BY <1>1 DEF FinalCheck
<1>. HIDE DEF at
<1>4. at \in Stages
  BY <1>2 DEF Stages, OnHold
<1>5. /\ q \in Progress /\ q.at = at /\ q.check = Recorded(c) /\ q.v = req[r].v
      /\ q.h = req[r].h /\ q.hold = req[r].hold
  BY <1>1, <1>2, <1>4 DEF Progress
<1>. HIDE DEF q
<1>6. Relies(q)
  <2>1. /\ req[r].h \in DOMAIN holds /\ holds[req[r].h].viewing = req[r].v
        /\ holds[req[r].h].from = 0
    BY <1>1 DEF Relies, OnHold
  <2>. QED
    <3>1. req[r].hold = "creating" => approval[req[r].h] = "used"
      BY <1>1 DEF Relies
    <3>. QED
      BY <1>2, <1>5, <2>1, <3>1 DEF Relies, OnHold, Consumed
<1>. QED
  BY <1>3, <1>5, <1>6, OnlyAsks

LEMMA PreviewOverrideStep ==
    ASSUME CalendarInv, NEW r \in Requests, NEW h \in DOMAIN holds, PreviewOverride(r, h)
    PROVE  CalendarInv'
<1>. DEFINE v == holds[h].viewing
            q == [Idle EXCEPT !.at = "reserve", !.v = v, !.notes = viewings[v].notes, !.from = h,
                              !.check = holds[h].check]
<1>1. /\ holds[h] \in Holds /\ v \in DOMAIN viewings /\ viewings[v] \in Viewings
      /\ v \in Nat /\ h \in Nat /\ ApprovalFits(h)
  BY Rows DEF CalendarInv, Shape, HoldsInv
<1>2. /\ q \in Progress /\ q.at = "reserve" /\ q.v = v /\ q.notes = viewings[v].notes
      /\ q.from = h
  BY <1>1 DEF Idle, Progress, Stages, HoldStates, Holds, Viewings
<1>3. req' = [req EXCEPT ![r] = q]
      /\ UNCHANGED <<lifecycle, plan, putBack, viewings, holds, approval, overdue, events, late,
                     conflicted>>
  BY DEF PreviewOverride
<1>4. Base(v, h)
  <2>1. /\ holds[h].from = 0 /\ holds[h].state = "cancelled_internal"
        /\ viewings[v].state = "hold_approved" /\ holds[h].check # "checked"
    BY DEF PreviewOverride, Overridable
  <2>2. approval[h] # "none"
    BY <1>1, <2>1 DEF ApprovalFits, Fits
  <2>. QED
    BY <1>1, <2>1, <2>2 DEF Base, Settled
<1>. HIDE DEF q
<1>5. Relies(q)
  BY <1>1, <1>2, <1>4 DEF Relies, OnHold, Consumed
<1>. QED
  BY <1>2, <1>3, <1>5, OnlyAsks

LEMMA ReadPolicyStep ==
    ASSUME CalendarInv, NEW r \in Requests, NEW allowed \in BOOLEAN, ReadPolicy(r, allowed)
    PROVE  CalendarInv'
<1>1. /\ req[r] \in Progress /\ Relies(req[r]) /\ req[r].at = "policy"
      /\ req \in [Requests -> Progress]
      /\ UNCHANGED <<lifecycle, plan, putBack, viewings, holds, approval, overdue, events, late,
                     conflicted>>
  BY Rows DEF CalendarInv, Shape, ReadPolicy
<1>2. ASSUME NEW at \in {"deny", "begin", "lookup"}, Go(r, at),
             at = "lookup" => req[r].hold = "creating"
      PROVE  CalendarInv'
  <2>. DEFINE q == [req[r] EXCEPT !.at = at]
  <2>1. /\ holds[req[r].h].from = 0 => req[r].check = "checked"
        /\ at \in Consumed => approval[req[r].h] = "used"
    BY <1>1, <1>2 DEF Relies, Consumed
  <2>2. at \in OnHold /\ at \notin {"check", "conflict", "unavailable", "policy", "finalize"}
        /\ req[r].at \in OnHold
    BY <1>1 DEF OnHold, Consumed
  <2>3. q \in Progress /\ Relies(q)
    BY <1>1, <2>1, <2>2, StageRelies
  <2>4. req' = [req EXCEPT ![r] = q]
    BY <1>1, <1>2 DEF Go
  <2>. HIDE DEF q
  <2>. QED
    BY <1>1, <2>3, <2>4, OnlyAsks
<1>3. ASSUME Finish(r) PROVE CalendarInv'
  BY <1>1, <1>3, CrashStep
<1>4. \/ Go(r, "deny") \/ Finish(r) \/ Go(r, "begin")
      \/ req[r].hold = "creating" /\ Go(r, "lookup")
  BY DEF ReadPolicy
<1>. QED
  BY <1>2, <1>3, <1>4

LEMMA LookupStep ==
    ASSUME CalendarInv, NEW r \in Requests, Lookup(r)
    PROVE  CalendarInv'
<1>1. /\ req[r] \in Progress /\ Relies(req[r]) /\ req[r].at = "lookup"
      /\ req \in [Requests -> Progress]
      /\ UNCHANGED <<lifecycle, plan, putBack, viewings, holds, approval, overdue, events, late,
                     conflicted>>
  BY Rows DEF CalendarInv, Shape, Lookup
<1>2. PICK at \in {"retryable", "permanent", "finalize", "insert"} :
        Go(r, at) /\ (at = "finalize" => req[r].h \in events)
  BY DEF Lookup
<1>. DEFINE q == [req[r] EXCEPT !.at = at]
<1>3. approval[req[r].h] = "used"
  BY <1>1 DEF Relies, Consumed
<1>4. /\ at \in OnHold /\ at \notin {"check", "conflict", "unavailable", "policy", "begin"}
      /\ req[r].at \in OnHold
  BY <1>1 DEF OnHold, Consumed
<1>5. q \in Progress /\ Relies(q)
  BY <1>1, <1>2, <1>3, <1>4, StageRelies
<1>6. req' = [req EXCEPT ![r] = q]
  BY <1>1, <1>2 DEF Go
<1>. HIDE DEF q
<1>. QED
  BY <1>1, <1>5, <1>6, OnlyAsks

LEMMA ReadForCancelStep ==
    ASSUME CalendarInv, NEW r \in Requests, NEW v \in DOMAIN viewings, ReadForCancel(r, v)
    PROVE  CalendarInv'
<1>. DEFINE h == IF Active(v) = {} THEN 0
                 ELSE CHOOSE h \in Active(v) : \A g \in Active(v) : g <= h
            q == [Idle EXCEPT !.at = "cancel", !.v = v, !.h = h]
<1>1. Active(v) \subseteq DOMAIN holds /\ \A g \in Active(v) : holds[g].viewing = v
  BY DEF Active, HoldsOf
<1>2. h # 0 => h \in DOMAIN holds /\ holds[h].viewing = v
  <2>1. ASSUME Active(v) # {} PROVE h \in Active(v)
    <3>1. DOMAIN holds = 1..Len(holds) /\ Len(holds) \in Nat
      BY LenProperties DEF CalendarInv, Shape
    <3>2. \E g \in Active(v) : \A k \in Active(v) : k <= g
      BY <1>1, <2>1, <3>1, NewestExists
    <3>. QED
      BY <2>1, <3>2
  <2>. QED
    BY <1>1, <2>1
<1>3. req' = [req EXCEPT ![r] = q]
      /\ UNCHANGED <<lifecycle, plan, putBack, viewings, holds, approval, overdue, events, late,
                     conflicted>>
  BY DEF ReadForCancel
<1>. HIDE DEF h
<1>4. h \in Nat /\ v \in Nat
  BY <1>2, Rows DEF CalendarInv
<1>5. q \in Progress /\ q.at = "cancel" /\ q.v = v /\ q.h = h
  BY <1>4 DEF Idle, Progress, Stages, AnyNotes, CheckStates, HoldStates
<1>. HIDE DEF q
<1>6. Relies(q)
  BY <1>2, <1>5 DEF Relies, OnHold, Consumed
<1>. QED
  BY <1>3, <1>5, <1>6, OnlyAsks

(***************************************************************************)
(* The provider and the clock.                                             *)
(***************************************************************************)

LEMMA InsertStep ==
    ASSUME CalendarInv, NEW r \in Requests, Insert(r)
    PROVE  CalendarInv'
<1>0. PICK h : h = req[r].h
  OBVIOUS
<1>1. /\ req[r] \in Progress /\ Relies(req[r]) /\ req[r].at = "insert"
      /\ req \in [Requests -> Progress]
      /\ UNCHANGED <<lifecycle, plan, putBack, viewings, holds, approval, overdue, conflicted>>
  BY Rows DEF CalendarInv, Shape, Insert
<1>2. PICK at \in {"finalize", "retryable", "permanent"} :
        Go(r, at) /\ (at = "finalize" => h \in events')
  BY <1>0 DEF Insert
<1>3. events \subseteq events' /\ events' \cup late' \subseteq events \cup late \cup {h}
  BY <1>0 DEF Insert
<1>4. approval[h] = "used" /\ h \in DOMAIN holds /\ holds[h].viewing = req[r].v
  BY <1>0, <1>1 DEF Relies, Consumed, OnHold
<1>5. \A g \in events' \cup late' : g \in DOMAIN holds /\ approval[g] = "used"
  BY <1>3, <1>4 DEF CalendarInv, Shape, HoldsInv, EventWasApproved
<1>6. PICK q : q = [req[r] EXCEPT !.at = at]
  OBVIOUS
<1>7. q \in Progress /\ q.at = at /\ q.h = h /\ q.v = req[r].v
  <2>1. at \in Stages
    BY DEF Stages, OnHold, Consumed
  <2>. QED
    BY <1>0, <1>1, <1>6, <2>1, StageSet
<1>8. req' = [req EXCEPT ![r] = q]
  BY <1>1, <1>2, <1>6 DEF Go
<1>9. overdue' \subseteq DOMAIN holds /\ req' \in [Requests -> Progress]
  BY <1>1, <1>7, <1>8 DEF CalendarInv, Shape
<1>10. Shape' /\ HoldsInv' /\ ViewingsGo /\ HoldsGo
  BY <1>1, <1>3, <1>5, <1>9, TablesStay
<1>11. Relies(q)'
  BY <1>1, <1>2, <1>4, <1>7 DEF Relies, OnHold, Consumed
<1>. QED
  BY <1>8, <1>10, <1>11, StepDone

LEMMA LandStep ==
    ASSUME CalendarInv, NEW h \in DOMAIN holds, Land(h)
    PROVE  CalendarInv'
<1>1. /\ h \in late /\ events \subseteq events' /\ events' \cup late' \subseteq events \cup late
      /\ UNCHANGED <<lifecycle, plan, putBack, viewings, holds, approval, overdue, req,
                     conflicted>>
  BY DEF Land
<1>2. /\ \A g \in events' \cup late' : g \in DOMAIN holds /\ approval[g] = "used"
      /\ overdue' \subseteq DOMAIN holds /\ req' \in [Requests -> Progress]
  BY <1>1 DEF CalendarInv, Shape, HoldsInv, EventWasApproved
<1>. QED
  BY <1>1, <1>2, TablesStay, OutsideDone

LEMMA PassExpiryStep ==
    ASSUME CalendarInv, NEW h \in DOMAIN holds, PassExpiry(h)
    PROVE  CalendarInv'
<1>1. /\ UNCHANGED <<lifecycle, plan, putBack, viewings, holds, approval, events, late, req,
                     conflicted>>
      /\ overdue' \subseteq DOMAIN holds
  BY DEF PassExpiry, CalendarInv, Shape
<1>2. /\ \A g \in events' \cup late' : g \in DOMAIN holds /\ approval[g] = "used"
      /\ req' \in [Requests -> Progress]
  BY <1>1 DEF CalendarInv, Shape, HoldsInv, EventWasApproved
<1>. QED
  BY <1>1, <1>2, TablesStay, OutsideDone

(***************************************************************************)
(* The steps that write a hold.                                            *)
(***************************************************************************)

LEMMA StartCreateStep ==
    ASSUME CalendarInv, NEW r \in Requests, NEW h \in DOMAIN holds, StartCreate(r, h)
    PROVE  CalendarInv'
<1>0. /\ holds[h] \in Holds /\ approval[h] \in ApprovalStates /\ ApprovalFits(h) /\ h \in Nat
      /\ holds[h].viewing \in DOMAIN viewings /\ viewings[holds[h].viewing] \in Viewings
      /\ holds \in Seq(Holds) /\ approval \in Seq(ApprovalStates) /\ holds[h].viewing \in Nat
      /\ req \in [Requests -> Progress]
  BY Rows DEF CalendarInv, HoldsInv, Shape
<1>1. UNCHANGED <<lifecycle, plan, putBack, viewings, holds, overdue, events, late, conflicted>>
  BY DEF StartCreate
<1>2. CASE /\ approval[h] = "pending" /\ approval' = [approval EXCEPT ![h] = "expired"]
           /\ UNCHANGED req
  <2>1. holds' = [holds EXCEPT ![h] = holds[h]]
    BY <1>0, <1>1
  <2>2. Fits(holds[h], "expired", viewings'[holds[h].viewing])
    BY <1>0, <1>1, <1>2 DEF ApprovalFits, Fits
  <2>3. "expired" \in ApprovalStates
    BY DEF ApprovalStates
  <2>4. Writes(h, holds[h], "expired")
    BY <1>0, <1>1, <1>2, <2>1, <2>2, <2>3 DEF Writes
  <2>5. Shape' /\ HoldsInv' /\ ViewingsGo /\ HoldsGo
    <3>. DEFINE n == holds[h]
    <3>1. Writes(h, n, "expired") /\ (holds[h].state = "created" => n.state = "created")
      BY <2>4
    <3>. HIDE DEF n
    <3>. QED
      BY <1>0, <1>1, <1>2, <3>1, HoldWritten
  <2>. QED
    BY <1>2, <2>5, OutsideDone
<1>3. CASE ~(h \in overdue /\ approval[h] = "pending")
  <2>. DEFINE q == [Idle EXCEPT !.at = IF holds[h].from = 0 THEN "check" ELSE "policy",
                                !.v = holds[h].viewing, !.h = h, !.check = holds[h].check,
                                !.notes = viewings[holds[h].viewing].notes,
                                !.hold = holds[h].state]
  <2>1. req' = [req EXCEPT ![r] = q] /\ UNCHANGED approval
    BY <1>3 DEF StartCreate
  <2>2. /\ q \in Progress /\ q.at = (IF holds[h].from = 0 THEN "check" ELSE "policy")
        /\ q.v = holds[h].viewing /\ q.h = h /\ q.hold = holds[h].state
    BY <1>0 DEF Idle, Progress, Stages, OnHold, Holds, Viewings
  <2>. HIDE DEF q
  <2>3. q.hold = "creating" => approval[h] = "used"
    BY <1>0, <2>2 DEF ApprovalFits, Fits
  <2>4. Relies(q)
    BY <2>2, <2>3 DEF Relies, OnHold, Consumed
  <2>. QED
    BY <1>1, <2>1, <2>2, <2>4, OnlyAsks
<1>. QED
  BY <1>2, <1>3 DEF StartCreate

(* A step of a request on its hold: what it may rely on.                    *)
LEMMA HoldOfRequest ==
    ASSUME CalendarInv, NEW r \in Requests, req[r].at \in OnHold
    PROVE  /\ req \in [Requests -> Progress] /\ req[r] \in Progress /\ Relies(req[r])
           /\ req[r].h \in DOMAIN holds /\ holds[req[r].h].viewing = req[r].v
           /\ holds[req[r].h] \in Holds /\ approval[req[r].h] \in ApprovalStates
           /\ ApprovalFits(req[r].h) /\ ComesFrom(req[r].h)
           /\ req[r].v \in DOMAIN viewings /\ viewings[req[r].v] \in Viewings
           /\ holds \in Seq(Holds) /\ approval \in Seq(ApprovalStates)
           /\ viewings \in Seq(Viewings) /\ DOMAIN approval = DOMAIN holds
<1>1. Relies(req[r]) /\ req[r].h \in DOMAIN holds /\ holds[req[r].h].viewing = req[r].v
  BY DEF CalendarInv, Relies
<1>. QED
  BY <1>1, Rows DEF CalendarInv, HoldsInv, Shape

LEMMA RevokeStep ==
    ASSUME CalendarInv, NEW r \in Requests, Revoke(r)
    PROVE  CalendarInv'
<1>0. PICK h : h = req[r].h
  OBVIOUS
<1>1. req[r].at \in {"conflict", "unavailable"} /\ req[r].at \in OnHold
  BY DEF Revoke, OnHold
<1>2. /\ req \in [Requests -> Progress] /\ req[r] \in Progress /\ Relies(req[r])
      /\ h \in DOMAIN holds /\ holds[h].viewing = req[r].v
      /\ holds[h] \in Holds /\ approval[h] \in ApprovalStates
      /\ holds \in Seq(Holds) /\ approval \in Seq(ApprovalStates) /\ DOMAIN approval = DOMAIN holds
  BY <1>0, <1>1, HoldOfRequest
<1>3. UNCHANGED <<lifecycle, plan, putBack, viewings, overdue, events, late>>
  BY DEF Revoke
<1>4. CASE ~Revocable(h)
  <2>1. Finish(r) /\ UNCHANGED <<approval, holds, conflicted>>
    BY <1>0, <1>4 DEF Revoke
  <2>. QED
    BY <1>3, <2>1, CrashStep
<1>5. CASE Revocable(h)
  <2>. DEFINE n == [holds[h] EXCEPT !.state = "cancelled_internal", !.check = req[r].check]
  <2>1. approval[h] = "pending" /\ holds[h].state = "approved"
    BY <1>5 DEF Revocable
  <2>2. /\ n \in Holds /\ n.viewing = holds[h].viewing /\ n.notes = holds[h].notes
        /\ n.from = holds[h].from /\ n.check = req[r].check /\ n.state = "cancelled_internal"
    BY <1>2 DEF Holds, Progress, HoldStates
  <2>3. /\ approval' = [approval EXCEPT ![h] = "revoked"] /\ holds' = [holds EXCEPT ![h] = n]
        /\ conflicted' = IF req[r].at = "conflict" THEN conflicted \cup {h} ELSE conflicted
        /\ IF req[r].at = "conflict" THEN Go(r, "replace") ELSE Finish(r)
    BY <1>0, <1>2, <1>5 DEF Revoke
  <2>. HIDE DEF n
  <2>4. Fits(n, "revoked", viewings'[n.viewing]) /\ "revoked" \in ApprovalStates
    BY <2>2 DEF Fits, ApprovalStates
  <2>5. Writes(h, n, "revoked")
    BY <1>2, <1>3, <2>1, <2>2, <2>3, <2>4 DEF Writes
  <2>6. PICK q : q = IF req[r].at = "conflict" THEN [req[r] EXCEPT !.at = "replace"] ELSE Idle
    OBVIOUS
  <2>7. req' = [req EXCEPT ![r] = q]
    BY <1>2, <2>3, <2>6 DEF Go, Finish
  <2>8. /\ q \in Progress
        /\ \/ q = Idle
           \/ q.at = "replace" /\ q.h = h /\ q.v = req[r].v
    <3>1. "replace" \in Stages
      BY DEF Stages, OnHold
    <3>. QED
      BY <1>0, <1>2, <2>6, <3>1, StageSet, IdleRelies
  <2>9. req[r].at = "conflict" => holds[h].from = 0 /\ req[r].check = "checked"
    BY <1>0, <1>2 DEF Relies
  <2>10. Shape' /\ HoldsInv' /\ ViewingsGo /\ HoldsGo
    <3>1. req' \in [Requests -> Progress]
      BY <1>2, <2>7, <2>8
    <3>. QED
      BY <1>3, <2>1, <2>2, <2>3, <2>5, <2>9, <3>1, HoldWritten
  <2>11. Relies(q)'
    <3>1. CASE q = Idle
      BY <3>1, IdleRelies
    <3>2. CASE q.at = "replace" /\ q.h = h /\ q.v = req[r].v
      BY <1>2, <2>2, <2>3, <2>10, <3>2 DEF Relies, OnHold, Consumed, HoldsGo, HoldGoes
    <3>. QED
      BY <2>8, <3>1, <3>2
  <2>. QED
    BY <2>7, <2>10, <2>11, StepDone
<1>. QED
  BY <1>4, <1>5

LEMMA DenyStep ==
    ASSUME CalendarInv, NEW r \in Requests, Deny(r)
    PROVE  CalendarInv'
<1>0. PICK h : h = req[r].h
  OBVIOUS
<1>1. req[r].at = "deny" /\ req[r].at \in OnHold
  BY DEF Deny, OnHold
<1>2. /\ req \in [Requests -> Progress] /\ h \in DOMAIN holds /\ holds[h] \in Holds
      /\ approval[h] \in ApprovalStates /\ ApprovalFits(h)
      /\ holds \in Seq(Holds) /\ approval \in Seq(ApprovalStates) /\ DOMAIN approval = DOMAIN holds
  BY <1>0, <1>1, HoldOfRequest
<1>3. UNCHANGED <<lifecycle, plan, putBack, viewings, overdue, events, late, conflicted>> /\ Finish(r)
  BY DEF Deny
<1>. DEFINE n == [holds[h] EXCEPT !.state = IF @ \in {"approved", "retryable_failed"}
                                            THEN "cancelled_internal" ELSE @]
            a == IF approval[h] = "pending" THEN "revoked" ELSE approval[h]
<1>4. /\ n \in Holds /\ n.viewing = holds[h].viewing /\ n.notes = holds[h].notes
      /\ n.from = holds[h].from /\ n.check = holds[h].check
      /\ n.state = IF holds[h].state \in {"approved", "retryable_failed"}
                   THEN "cancelled_internal" ELSE holds[h].state
  BY <1>2 DEF Holds, HoldStates
<1>5. approval' = [approval EXCEPT ![h] = a] /\ holds' = [holds EXCEPT ![h] = n]
  BY <1>0, <1>2 DEF Deny
<1>6. a \in ApprovalStates
  BY <1>2 DEF ApprovalStates
<1>. HIDE DEF n
<1>7. Fits(n, a, viewings'[n.viewing])
  BY <1>2, <1>3, <1>4 DEF ApprovalFits, Fits
<1>8. Writes(h, n, a)
  BY <1>2, <1>3, <1>4, <1>5, <1>6, <1>7 DEF Writes
<1>. HIDE DEF a
<1>9. req' = [req EXCEPT ![r] = Idle] /\ req' \in [Requests -> Progress]
  BY <1>2, <1>3, IdleRelies DEF Finish
<1>10. Shape' /\ HoldsInv' /\ ViewingsGo /\ HoldsGo
  BY <1>3, <1>4, <1>8, <1>9, HoldWritten
<1>. QED
  BY <1>9, <1>10, IdleRelies, StepDone

LEMMA BeginStep ==
    ASSUME CalendarInv, NEW r \in Requests, Begin(r)
    PROVE  CalendarInv'
<1>0. PICK h : h = req[r].h
  OBVIOUS
<1>1. req[r].at = "begin" /\ req[r].at \in OnHold
  BY DEF Begin, OnHold
<1>2. /\ req \in [Requests -> Progress] /\ req[r] \in Progress /\ Relies(req[r])
      /\ h \in DOMAIN holds /\ holds[h].viewing = req[r].v
      /\ holds[h] \in Holds /\ approval[h] \in ApprovalStates
      /\ holds \in Seq(Holds) /\ approval \in Seq(ApprovalStates) /\ DOMAIN approval = DOMAIN holds
  BY <1>0, <1>1, HoldOfRequest
<1>3. UNCHANGED <<lifecycle, plan, putBack, viewings, overdue, events, late, conflicted>>
  BY DEF Begin
<1>4. CASE ~(Retried(h) \/ FirstUse(h, req[r].v))
  <2>1. Finish(r) /\ UNCHANGED <<approval, holds>>
    BY <1>0, <1>4 DEF Begin
  <2>. QED
    BY <1>3, <2>1, CrashStep
<1>5. CASE Retried(h) \/ FirstUse(h, req[r].v)
  <2>. DEFINE n == [holds[h] EXCEPT !.state = "creating", !.check = req[r].check]
  <2>1. approval[h] \in {"pending", "used"} /\ holds[h].state \in {"approved", "retryable_failed"}
    BY <1>5 DEF Retried, FirstUse
  <2>2. /\ n \in Holds /\ n.viewing = holds[h].viewing /\ n.notes = holds[h].notes
        /\ n.from = holds[h].from /\ n.check = req[r].check /\ n.state = "creating"
    BY <1>2 DEF Holds, Progress, HoldStates
  <2>3. /\ approval' = [approval EXCEPT ![h] = "used"] /\ holds' = [holds EXCEPT ![h] = n]
        /\ Go(r, "lookup")
    BY <1>0, <1>2, <1>5 DEF Begin
  <2>. HIDE DEF n
  <2>4. holds[h].from = 0 => req[r].check = "checked"
    BY <1>0, <1>1, <1>2 DEF Relies
  <2>5. Fits(n, "used", viewings'[n.viewing]) /\ "used" \in ApprovalStates
    BY <2>2, <2>4 DEF Fits, ApprovalStates
  <2>6. Writes(h, n, "used")
    BY <1>2, <1>3, <2>1, <2>2, <2>3, <2>5 DEF Writes
  <2>7. PICK q : q = [req[r] EXCEPT !.at = "lookup"]
    OBVIOUS
  <2>8. q \in Progress /\ q.at = "lookup" /\ q.h = h /\ q.v = req[r].v
    <3>1. "lookup" \in Stages
      BY DEF Stages, OnHold, Consumed
    <3>. QED
      BY <1>0, <1>2, <2>7, <3>1, StageSet
  <2>9. req' = [req EXCEPT ![r] = q] /\ req' \in [Requests -> Progress]
    BY <1>2, <2>3, <2>7, <2>8 DEF Go
  <2>10. Shape' /\ HoldsInv' /\ ViewingsGo /\ HoldsGo
    BY <1>3, <2>1, <2>6, <2>9, HoldWritten
  <2>11. approval'[h] = "used"
    BY <1>2, <2>3
  <2>12. Relies(q)'
    BY <1>2, <2>8, <2>10, <2>11 DEF Relies, OnHold, Consumed, HoldsGo, HoldGoes
  <2>. QED
    BY <2>9, <2>10, <2>12, StepDone
<1>. QED
  BY <1>4, <1>5

LEMMA FailStep ==
    ASSUME CalendarInv, NEW r \in Requests, Fail(r)
    PROVE  CalendarInv'
<1>0. PICK h : h = req[r].h
  OBVIOUS
<1>1. req[r].at \in {"retryable", "permanent"} /\ req[r].at \in OnHold
  BY DEF Fail, OnHold, Consumed
<1>2. /\ req \in [Requests -> Progress] /\ h \in DOMAIN holds /\ holds[h] \in Holds
      /\ approval[h] \in ApprovalStates /\ ApprovalFits(h)
      /\ holds \in Seq(Holds) /\ approval \in Seq(ApprovalStates) /\ DOMAIN approval = DOMAIN holds
  BY <1>0, <1>1, HoldOfRequest
<1>3. UNCHANGED <<lifecycle, plan, putBack, viewings, approval, overdue, events, late,
                  conflicted>> /\ Finish(r)
  BY DEF Fail
<1>. DEFINE to == IF req[r].at = "retryable" THEN "retryable_failed" ELSE "permanently_failed"
            n  == [holds[h] EXCEPT !.state = IF @ # "creating" THEN @ ELSE to]
<1>4. to \in {"retryable_failed", "permanently_failed"}
  OBVIOUS
<1>5. holds' = [holds EXCEPT ![h] = n]
  BY <1>0, <1>2 DEF Fail
<1>. HIDE DEF to
<1>6. /\ n \in Holds /\ n.viewing = holds[h].viewing /\ n.notes = holds[h].notes
      /\ n.from = holds[h].from /\ n.check = holds[h].check
      /\ n.state = IF holds[h].state # "creating" THEN holds[h].state ELSE to
  BY <1>2, <1>4 DEF Holds, HoldStates
<1>. HIDE DEF n
<1>7. Fits(n, approval[h], viewings'[n.viewing])
  BY <1>2, <1>3, <1>4, <1>6 DEF ApprovalFits, Fits
<1>8. approval' = [approval EXCEPT ![h] = approval[h]]
  BY <1>2, <1>3
<1>9. Writes(h, n, approval[h])
  BY <1>2, <1>3, <1>5, <1>6, <1>7, <1>8 DEF Writes
<1>10. req' = [req EXCEPT ![r] = Idle] /\ req' \in [Requests -> Progress]
  BY <1>2, <1>3, IdleRelies DEF Finish
<1>11. Shape' /\ HoldsInv' /\ ViewingsGo /\ HoldsGo
  BY <1>3, <1>6, <1>9, <1>10, HoldWritten
<1>. QED
  BY <1>10, <1>11, IdleRelies, StepDone

LEMMA FinalizeStep ==
    ASSUME CalendarInv, NEW r \in Requests, Finalize(r)
    PROVE  CalendarInv'
<1>0. PICK h, v : h = req[r].h /\ v = req[r].v
  OBVIOUS
<1>1. req[r].at = "finalize" /\ req[r].at \in OnHold
  BY DEF Finalize, OnHold, Consumed
<1>2. /\ req \in [Requests -> Progress] /\ Relies(req[r])
      /\ h \in DOMAIN holds /\ holds[h].viewing = v
      /\ holds[h] \in Holds /\ approval[h] \in ApprovalStates /\ ApprovalFits(h)
      /\ v \in DOMAIN viewings /\ viewings[v] \in Viewings
      /\ holds \in Seq(Holds) /\ approval \in Seq(ApprovalStates) /\ viewings \in Seq(Viewings)
      /\ DOMAIN approval = DOMAIN holds
  BY <1>0, <1>1, HoldOfRequest
<1>3. UNCHANGED <<approval, overdue, events, late, conflicted>> /\ Finish(r)
  BY DEF Finalize
<1>4. CASE ~Recordable(h, v)
  <2>1. UNCHANGED <<lifecycle, plan, putBack, viewings, holds>>
    BY <1>0, <1>4 DEF Finalize
  <2>. QED
    BY <1>3, <2>1, CrashStep
<1>5. CASE Recordable(h, v)
  <2>. DEFINE n == [holds[h] EXCEPT !.state = "created"]
              w == [viewings[v] EXCEPT !.state = "hold_created", !.ref = TRUE]
  <2>1. holds[h].state = "creating" /\ viewings[v].state = "hold_approved"
    BY <1>5 DEF Recordable
  <2>2. /\ n \in Holds /\ n.viewing = v /\ n.notes = holds[h].notes
        /\ n.from = holds[h].from /\ n.check = holds[h].check /\ n.state = "created"
    BY <1>2 DEF Holds, HoldStates
  <2>3. w \in Viewings /\ w.state = "hold_created" /\ w.notes = viewings[v].notes
    BY <1>2 DEF Viewings, ViewingStates
  <2>4. /\ holds' = [holds EXCEPT ![h] = n] /\ viewings' = [viewings EXCEPT ![v] = w]
        /\ lifecycle' = "tour_scheduled" /\ plan' = plan /\ putBack' \in BOOLEAN
    BY <1>0, <1>2, <1>5 DEF Finalize, MoveListing
  <2>. HIDE DEF n, w
  <2>5. /\ viewings' \in Seq(Viewings) /\ DOMAIN viewings' = DOMAIN viewings
        /\ \A u \in DOMAIN viewings : viewings'[u] = IF u = v THEN w ELSE viewings[u]
        /\ ViewingsGo
    <3>1. Shape /\ w.state \in Settled /\ viewings[v].state # "cancelled"
      BY <2>1, <2>3 DEF CalendarInv, Settled
    <3>. QED
      BY <1>2, <2>3, <2>4, <3>1, OneViewing
  <2>6. Writes(h, n, approval[h])
    <3>1. Fits(n, approval[h], viewings'[n.viewing])
      BY <1>2, <2>2 DEF ApprovalFits, Fits
    <3>2. approval' = [approval EXCEPT ![h] = approval[h]]
      BY <1>2, <1>3
    <3>. QED
      BY <1>2, <1>3, <2>1, <2>2, <2>4, <3>1, <3>2 DEF Writes
  <2>7. /\ (\A g \in DOMAIN holds : ApprovalFits(g) /\ ComesFrom(g))' /\ OnePerViewing'
        /\ EventWasApproved' /\ HoldsGo
        /\ holds' \in Seq(Holds) /\ approval' \in Seq(ApprovalStates)
        /\ Len(approval') = Len(holds') /\ DOMAIN holds' = DOMAIN holds
        /\ \A g \in DOMAIN holds : holds'[g] = IF g = h THEN n ELSE holds[g]
    BY <2>5, <2>6, OneHold
  <2>8. CreatedIsReal'
    <3>1. ASSUME NEW u \in DOMAIN viewings', viewings'[u].state = "hold_created"
          PROVE  \E g \in DOMAIN holds' : /\ holds'[g].viewing = u
                                          /\ holds'[g].state = "created" /\ g \in events'
      <4>1. CASE u = v
        <5>1. h \in events
          BY <1>0, <1>1, <1>2 DEF Relies
        <5>. QED
          BY <1>2, <1>3, <2>2, <2>7, <4>1, <5>1
      <4>2. CASE u # v
        <5>1. PICK g \in HoldsOf(u) : holds[g].state = "created" /\ g \in events
          BY <2>5, <3>1, <4>2 DEF CalendarInv, HoldsInv, CreatedIsReal
        <5>2. g \in DOMAIN holds /\ holds[g].viewing = u /\ g # h
          BY <1>2, <4>2, <5>1 DEF HoldsOf
        <5>. QED
          BY <1>3, <2>7, <5>1, <5>2
      <4>. QED
        BY <4>1, <4>2
    <3>. QED
      BY <3>1 DEF CreatedIsReal, HoldsOf
  <2>9. TourHasHold'
    BY <1>2, <2>3, <2>5 DEF TourHasHold
  <2>10. \A g \in conflicted' : ConflictFits(g)'
    BY <1>3, <2>7, ConflictsStay
  <2>11. req' = [req EXCEPT ![r] = Idle] /\ req' \in [Requests -> Progress]
    BY <1>2, <1>3, IdleRelies DEF Finish
  <2>12. Shape'
    BY <1>2, <1>3, <2>4, <2>5, <2>7, <2>11 DEF CalendarInv, Shape, Tour, HoldGoes, HoldsGo
  <2>13. HoldsInv'
    BY <2>7, <2>8, <2>9, <2>10 DEF HoldsInv
  <2>. QED
    BY <2>5, <2>7, <2>11, <2>12, <2>13, IdleRelies, StepDone
<1>. QED
  BY <1>4, <1>5

(***************************************************************************)
(* The steps that write a viewing.                                         *)
(***************************************************************************)

LEMMA ProposeStep ==
    ASSUME CalendarInv, NEW c \in Checks, Propose(c)
    PROVE  CalendarInv'
<1>1. PICK w : w = NewViewing(Recorded(c))
  OBVIOUS
<1>2. w \in Viewings /\ w.state = "proposed"
  BY <1>1 DEF NewViewing, Recorded, Viewings, ViewingStates, AnyNotes, CheckStates
<1>3. /\ viewings' = Append(viewings, w)
      /\ UNCHANGED <<holds, approval, overdue, events, late, req, conflicted>>
      /\ lifecycle' = IF lifecycle = "replied" THEN "tour_proposed" ELSE lifecycle
      /\ putBack' = (putBack /\ lifecycle' = lifecycle) /\ plan' = plan
  BY <1>1 DEF Propose, MoveListing
<1>4. /\ viewings' \in Seq(Viewings)
      /\ DOMAIN viewings' = DOMAIN viewings \cup {Len(viewings) + 1}
      /\ \A v \in DOMAIN viewings : viewings'[v] = viewings[v]
      /\ viewings'[Len(viewings) + 1] = w
  BY <1>2, <1>3, RowAppended DEF CalendarInv, Shape
<1>5. ViewingsGo
  BY <1>4 DEF ViewingsGo
<1>6. /\ lifecycle' \in Tour /\ plan' \in Tour \cup {NoPlan} /\ putBack' \in BOOLEAN
      /\ lifecycle' = "tour_scheduled" /\ ~putBack' =>
           lifecycle = "tour_scheduled" /\ ~putBack
      /\ req' \in [Requests -> Progress]
  BY <1>3 DEF CalendarInv, Shape, Tour
<1>7. \A v \in DOMAIN viewings' : viewings'[v].state = "hold_created" =>
        v \in DOMAIN viewings /\ viewings[v].state = "hold_created"
  BY <1>2, <1>4
<1>8. Shape' /\ HoldsInv' /\ HoldsGo
  BY <1>3, <1>4, <1>5, <1>6, <1>7, OnlyViewings
<1>. QED
  BY <1>3, <1>5, <1>8, OutsideDone

LEMMA SelectStep ==
    ASSUME CalendarInv, NEW v \in DOMAIN viewings, Select(v)
    PROVE  CalendarInv'
<1>1. PICK w : w = [viewings[v] EXCEPT !.state = "selected"]
  OBVIOUS
<1>2. /\ Shape /\ viewings \in Seq(Viewings) /\ viewings[v] \in Viewings
      /\ req \in [Requests -> Progress] /\ lifecycle \in Tour
      /\ plan \in Tour \cup {NoPlan} /\ putBack \in BOOLEAN
  BY Rows DEF CalendarInv, Shape
<1>3. w \in Viewings /\ w.state = "selected"
  BY <1>1, <1>2 DEF Viewings, ViewingStates
<1>4. /\ viewings[v].state = "proposed" /\ viewings' = [viewings EXCEPT ![v] = w]
      /\ UNCHANGED <<lifecycle, plan, putBack, holds, approval, overdue, events, late, req,
                     conflicted>>
  BY <1>1 DEF Select
<1>5. /\ viewings' \in Seq(Viewings) /\ DOMAIN viewings' = DOMAIN viewings
      /\ \A u \in DOMAIN viewings : viewings'[u] = IF u = v THEN w ELSE viewings[u]
      /\ ViewingsGo
  <2>1. viewings[v].state \notin Settled /\ viewings[v].state # "cancelled"
    BY <1>4 DEF Settled
  <2>. QED
    BY <1>2, <1>3, <1>4, <2>1, OneViewing
<1>6. /\ \A u \in DOMAIN viewings' : viewings'[u].state = "hold_created" =>
           u \in DOMAIN viewings /\ viewings[u].state = "hold_created"
      /\ \A u \in DOMAIN viewings : viewings[u].state = "hold_created" =>
           viewings'[u].state = "hold_created"
  BY <1>3, <1>4, <1>5
<1>7. Shape' /\ HoldsInv' /\ HoldsGo
  BY <1>2, <1>4, <1>5, <1>6, OnlyViewings
<1>. QED
  BY <1>4, <1>5, <1>7, OutsideDone

LEMMA PrepareStep ==
    ASSUME CalendarInv, NEW r \in Requests, NEW v \in DOMAIN viewings, NEW n \in Notes,
           Prepare(r, v, n)
    PROVE  CalendarInv'
<1>1. PICK w, q : /\ w = [viewings[v] EXCEPT !.notes = n]
                  /\ q = [Idle EXCEPT !.at = "reserve", !.v = v, !.notes = n,
                                      !.check = viewings[v].check]
  OBVIOUS
<1>2. /\ Shape /\ viewings \in Seq(Viewings) /\ viewings[v] \in Viewings /\ v \in Nat
      /\ req \in [Requests -> Progress] /\ lifecycle \in Tour
      /\ plan \in Tour \cup {NoPlan} /\ putBack \in BOOLEAN
  BY Rows DEF CalendarInv, Shape
<1>3. w \in Viewings /\ w.state = viewings[v].state
  BY <1>1, <1>2 DEF Viewings, AnyNotes
<1>4. q \in Progress /\ q.at = "reserve" /\ q.v = v /\ q.from = 0
  BY <1>1, <1>2 DEF Idle, Progress, Stages, Viewings, AnyNotes, HoldStates
<1>5. /\ viewings[v].state = "selected" /\ viewings' = [viewings EXCEPT ![v] = w]
      /\ UNCHANGED <<lifecycle, plan, putBack, holds, approval, overdue, events, late,
                     conflicted>>
      /\ req' = [req EXCEPT ![r] = q]
  BY <1>1 DEF Prepare
<1>6. /\ viewings' \in Seq(Viewings) /\ DOMAIN viewings' = DOMAIN viewings
      /\ \A u \in DOMAIN viewings : viewings'[u] = IF u = v THEN w ELSE viewings[u]
      /\ ViewingsGo
  <2>1. viewings[v].state \notin Settled /\ viewings[v].state # "cancelled"
    BY <1>5 DEF Settled
  <2>. QED
    BY <1>2, <1>3, <1>5, <2>1, OneViewing
<1>7. /\ \A u \in DOMAIN viewings' : viewings'[u].state = "hold_created" =>
           u \in DOMAIN viewings /\ viewings[u].state = "hold_created"
      /\ \A u \in DOMAIN viewings : viewings[u].state = "hold_created" =>
           viewings'[u].state = "hold_created"
      /\ req' \in [Requests -> Progress]
  BY <1>2, <1>3, <1>4, <1>5, <1>6
<1>8. Shape' /\ HoldsInv' /\ HoldsGo
  BY <1>2, <1>5, <1>6, <1>7, OnlyViewings
<1>9. Relies(q)'
  BY <1>4, <1>6 DEF Relies, OnHold, Consumed
<1>. QED
  BY <1>5, <1>6, <1>8, <1>9, StepDone

LEMMA ReplaceStep ==
    ASSUME CalendarInv, NEW r \in Requests, Replace(r)
    PROVE  CalendarInv'
<1>0. PICK v, w : v = req[r].v /\ w = NewViewing("checked")
  OBVIOUS
<1>1. req[r].at = "replace" /\ req[r].at \in OnHold
  BY DEF Replace, OnHold
<1>2. /\ req \in [Requests -> Progress] /\ v \in DOMAIN viewings /\ viewings \in Seq(Viewings)
      /\ Shape /\ lifecycle \in Tour
      /\ plan \in Tour \cup {NoPlan} /\ putBack \in BOOLEAN
  BY <1>0, <1>1, HoldOfRequest DEF CalendarInv, Shape
<1>3. UNCHANGED <<lifecycle, plan, putBack, holds, approval, overdue, events, late, conflicted>> /\ Finish(r)
  BY DEF Replace
<1>4. CASE viewings[v].state # "hold_approved"
  <2>1. UNCHANGED viewings
    BY <1>0, <1>4 DEF Replace
  <2>. QED
    BY <1>3, <2>1, CrashStep
<1>5. CASE viewings[v].state = "hold_approved"
  <2>1. w \in Viewings /\ w.state = "proposed"
    BY <1>0 DEF NewViewing, Viewings, ViewingStates, AnyNotes, CheckStates
  <2>2. viewings' = Append([viewings EXCEPT ![v].state = "cancelled"], w)
    BY <1>0, <1>5 DEF Replace
  <2>3. /\ viewings' \in Seq(Viewings) /\ ViewingsGo
        /\ \A u \in DOMAIN viewings : u # v => viewings'[u] = viewings[u]
        /\ \A u \in DOMAIN viewings' : viewings'[u].state = "hold_created" =>
             u \in DOMAIN viewings /\ viewings[u].state = "hold_created"
    BY <1>2, <2>1, <2>2, ViewingReplaced
  <2>4. \A u \in DOMAIN viewings : viewings[u].state = "hold_created" =>
          viewings'[u].state = "hold_created"
    BY <1>5, <2>3
  <2>5. req' = [req EXCEPT ![r] = Idle] /\ req' \in [Requests -> Progress]
    BY <1>2, <1>3, IdleRelies DEF Finish
  <2>6. Shape' /\ HoldsInv' /\ HoldsGo
    BY <1>2, <1>3, <2>3, <2>4, <2>5, OnlyViewings
  <2>. QED
    BY <2>3, <2>5, <2>6, IdleRelies, StepDone
<1>. QED
  BY <1>4, <1>5

LEMMA CancelStep ==
    ASSUME CalendarInv, NEW r \in Requests, Cancel(r)
    PROVE  CalendarInv'
<1>0. PICK v, h : v = req[r].v /\ h = req[r].h
  OBVIOUS
<1>1. /\ Shape /\ v \in DOMAIN viewings /\ viewings \in Seq(Viewings)
      /\ viewings[v] \in Viewings /\ req \in [Requests -> Progress] /\ lifecycle \in Tour
      /\ plan \in Tour \cup {NoPlan} /\ putBack \in BOOLEAN
      /\ h # 0 => h \in DOMAIN holds /\ holds[h].viewing = v
  <2>1. req[r].at = "cancel" /\ Relies(req[r])
    BY DEF Cancel, CalendarInv
  <2>2. v \in DOMAIN viewings /\ (h # 0 => h \in DOMAIN holds /\ holds[h].viewing = v)
    BY <1>0, <2>1 DEF Relies
  <2>. QED
    BY <2>2, Rows DEF CalendarInv, Shape
<1>2. UNCHANGED <<approval, overdue, events, late, conflicted>> /\ Finish(r)
  BY DEF Cancel
<1>3. CASE viewings[v].state = "cancelled"
  <2>1. UNCHANGED <<lifecycle, plan, putBack, viewings, holds>>
    BY <1>0, <1>3 DEF Cancel
  <2>. QED
    BY <1>2, <2>1, CrashStep
<1>4. CASE viewings[v].state # "cancelled"
  <2>1. PICK w : w = [viewings[v] EXCEPT !.state = "cancelled"]
    OBVIOUS
  <2>2. w \in Viewings /\ w.state = "cancelled" /\ w.notes = viewings[v].notes
    BY <1>1, <2>1 DEF Viewings, ViewingStates
  <2>3. /\ viewings' = [viewings EXCEPT ![v] = w] /\ lifecycle' = "replied"
        /\ plan' = plan /\ putBack' \in BOOLEAN
        /\ holds' = IF h = 0 THEN holds ELSE EndHold(h)
    BY <1>0, <1>4, <2>1 DEF Cancel, MoveListing
  <2>4. /\ viewings' \in Seq(Viewings) /\ DOMAIN viewings' = DOMAIN viewings
        /\ \A u \in DOMAIN viewings : viewings'[u] = IF u = v THEN w ELSE viewings[u]
        /\ ViewingsGo
    <3>1. w.state \in Settled
      BY <2>2 DEF Settled
    <3>. QED
      BY <1>1, <2>2, <2>3, <3>1, OneViewing
  <2>5. \A u \in DOMAIN viewings' : viewings'[u].state = "hold_created" =>
          u \in DOMAIN viewings /\ viewings[u].state = "hold_created"
    BY <2>2, <2>4
  <2>6. /\ lifecycle' \in Tour /\ plan' \in Tour \cup {NoPlan} /\ putBack' \in BOOLEAN
        /\ lifecycle' # "tour_scheduled"
    BY <1>1, <2>3 DEF Tour
  <2>7. req' = [req EXCEPT ![r] = Idle] /\ req' \in [Requests -> Progress]
    BY <1>1, <1>2, IdleRelies DEF Finish
  <2>8. CASE h = 0
    <3>1. Shape' /\ HoldsInv' /\ HoldsGo
      BY <1>2, <2>3, <2>4, <2>5, <2>6, <2>7, <2>8, OnlyViewings
    <3>. QED
      BY <2>4, <2>7, <3>1, IdleRelies, StepDone
  <2>9. CASE h # 0
    <3>1. holds' = EndHold(h) /\ viewings'[holds[h].viewing].state = "cancelled"
      BY <1>1, <2>2, <2>3, <2>4, <2>9
    <3>2. Shape' /\ HoldsInv' /\ HoldsGo
      BY <1>1, <1>2, <2>4, <2>5, <2>6, <2>7, <2>9, <3>1, HoldEnds
    <3>. QED
      BY <2>4, <2>7, <3>2, IdleRelies, StepDone
  <2>. QED
    BY <2>8, <2>9
<1>. QED
  BY <1>3, <1>4

LEMMA RescheduleStep ==
    ASSUME CalendarInv, NEW v \in DOMAIN viewings, Reschedule(v)
    PROVE  CalendarInv'
<1>1. PICK w : w = NewViewing(viewings[v].check)
  OBVIOUS
<1>2. /\ Shape /\ viewings \in Seq(Viewings) /\ viewings[v] \in Viewings
      /\ req \in [Requests -> Progress] /\ lifecycle \in Tour
      /\ plan \in Tour \cup {NoPlan} /\ putBack \in BOOLEAN
  BY Rows DEF CalendarInv, Shape
<1>3. w \in Viewings /\ w.state = "proposed"
  BY <1>1, <1>2 DEF NewViewing, Viewings, ViewingStates, AnyNotes
<1>4. /\ viewings' = Append([viewings EXCEPT ![v].state = "cancelled"], w)
      /\ UNCHANGED <<approval, overdue, events, late, req, conflicted>>
      /\ lifecycle' = Unscheduled(lifecycle) /\ plan' = plan /\ putBack' \in BOOLEAN
  BY <1>1 DEF Reschedule, MoveListing
<1>5. /\ viewings' \in Seq(Viewings) /\ ViewingsGo /\ viewings'[v].state = "cancelled"
      /\ \A u \in DOMAIN viewings' : viewings'[u].state = "hold_created" =>
           u \in DOMAIN viewings /\ viewings[u].state = "hold_created"
  BY <1>2, <1>3, <1>4, ViewingReplaced
<1>6. /\ lifecycle' \in Tour /\ plan' \in Tour \cup {NoPlan} /\ putBack' \in BOOLEAN
      /\ lifecycle' # "tour_scheduled" /\ req' \in [Requests -> Progress]
  BY <1>2, <1>4 DEF Unscheduled, Tour
<1>7. CASE Active(v) = {}
  <2>1. UNCHANGED holds
    BY <1>7 DEF Reschedule
  <2>2. Shape' /\ HoldsInv' /\ HoldsGo
    BY <1>4, <1>5, <1>6, <2>1, OnlyViewings
  <2>. QED
    BY <1>4, <1>5, <2>2, OutsideDone
<1>8. CASE Active(v) # {}
  <2>1. PICK h : h = CHOOSE g \in Active(v) : TRUE
    OBVIOUS
  <2>2. h \in Active(v)
    BY <1>8, <2>1
  <2>3. h \in DOMAIN holds /\ holds[h].viewing = v
    BY <2>2 DEF Active, HoldsOf
  <2>4. holds' = EndHold(h)
    BY <1>8, <2>1 DEF Reschedule
  <2>5. Shape' /\ HoldsInv' /\ HoldsGo
    BY <1>4, <1>5, <1>6, <2>3, <2>4, HoldEnds
  <2>. QED
    BY <1>4, <1>5, <2>5, OutsideDone
<1>. QED
  BY <1>7, <1>8

(***************************************************************************)
(* The decision lane.                                                      *)
(***************************************************************************)

(* A plan that writes another state than the row has puts the listing back, *)
(* and one that writes the same state changes nothing.                      *)
LEMMA DecisionStep ==
    ASSUME CalendarInv, ReadPriors \/ ApplyPlan
    PROVE  CalendarInv'
<1>1. /\ Shape /\ viewings \in Seq(Viewings) /\ req \in [Requests -> Progress]
      /\ lifecycle \in Tour /\ plan \in Tour \cup {NoPlan} /\ putBack \in BOOLEAN
  BY DEF CalendarInv, Shape
<1>2. UNCHANGED <<viewings, holds, approval, overdue, events, late, req, conflicted>>
  BY DEF ReadPriors, ApplyPlan
<1>3. ViewingsGo
  BY <1>2 DEF ViewingsGo
<1>4. \/ plan' = lifecycle /\ UNCHANGED <<lifecycle, putBack>>
      \/ /\ plan # NoPlan /\ plan' = NoPlan /\ lifecycle' = plan
         /\ putBack' = (putBack \/ plan # lifecycle)
  BY DEF ReadPriors, ApplyPlan
<1>5. /\ lifecycle' \in Tour /\ plan' \in Tour \cup {NoPlan} /\ putBack' \in BOOLEAN
      /\ lifecycle' = "tour_scheduled" /\ ~putBack' =>
           lifecycle = "tour_scheduled" /\ ~putBack
  BY <1>1, <1>4
<1>6. Shape' /\ HoldsInv' /\ HoldsGo
  BY <1>1, <1>2, <1>3, <1>5, OnlyViewings
<1>. QED
  BY <1>2, <1>3, <1>6, OutsideDone

(***************************************************************************)
(* A reservation and its approval.                                         *)
(***************************************************************************)

LEMMA ReserveStep ==
    ASSUME CalendarInv, NEW r \in Requests, Reserve(r)
    PROVE  CalendarInv'
<1>1. PICK q : q = req[r]
  OBVIOUS
<1>. DEFINE same == {h \in DOMAIN holds : /\ holds[h].viewing = q.v
                                          /\ holds[h].notes = q.notes
                                          /\ holds[h].from = q.from}
<1>2. UNCHANGED <<lifecycle, plan, putBack, viewings, overdue, events, late, conflicted>> /\ Finish(r)
  BY DEF Reserve
<1>3. CASE same # {}
  <2>1. UNCHANGED <<holds, approval>>
    BY <1>1, <1>3 DEF Reserve
  <2>. QED
    BY <1>2, <2>1, CrashStep
<1>4. CASE same = {}
  <2>1. PICK n : n = [viewing |-> q.v, notes |-> q.notes, from |-> q.from, check |-> q.check,
                      state |-> "approval_pending"]
    OBVIOUS
  <2>2. holds' = Append(holds, n) /\ approval' = Append(approval, "none")
    BY <1>1, <1>4, <2>1 DEF Reserve
  <2>3. /\ Shape /\ HoldsInv /\ q \in Progress /\ Relies(q) /\ q.at = "reserve"
        /\ req \in [Requests -> Progress] /\ DOMAIN approval = DOMAIN holds
        /\ Len(approval) = Len(holds)
    BY <1>1, Rows DEF CalendarInv, Shape, Reserve
  <2>4. /\ n \in Holds /\ n.viewing = q.v /\ n.notes = q.notes /\ n.from = q.from
        /\ n.state = "approval_pending" /\ "none" \in ApprovalStates
    BY <2>1, <2>3 DEF Holds, Progress, HoldStates, ApprovalStates
  <2>5. PICK k : k = Len(holds) + 1
    OBVIOUS
  <2>6. /\ holds' \in Seq(Holds) /\ Len(holds') = k /\ DOMAIN holds' = DOMAIN holds \cup {k}
        /\ k \notin DOMAIN holds /\ holds'[k] = n
        /\ \A h \in DOMAIN holds : holds'[h] = holds[h]
    BY <2>2, <2>3, <2>4, <2>5, RowAppended DEF Shape
  <2>7. /\ approval' \in Seq(ApprovalStates) /\ Len(approval') = k /\ approval'[k] = "none"
        /\ \A h \in DOMAIN holds : approval'[h] = approval[h]
    BY <2>2, <2>3, <2>4, <2>5, RowAppended DEF Shape
  <2>8. ViewingsGo
    BY <1>2 DEF ViewingsGo
  <2>9. HoldsGo
    BY <1>2, <2>6, <2>7 DEF HoldsGo, HoldGoes
  <2>10. ASSUME NEW h \in DOMAIN holds PROVE ApprovalFits(h)' /\ ComesFrom(h)'
    <3>1. ComesFrom(h)'
      BY <2>3, <2>7, <2>8, <2>9, OriginStays
    <3>2. ApprovalFits(h)'
      BY <1>2, <2>3, <2>6, <2>7 DEF HoldsInv, ApprovalFits
    <3>. QED
      BY <3>1, <3>2
  <2>11. ApprovalFits(k)' /\ ComesFrom(k)'
    <3>1. ApprovalFits(k)'
      BY <2>4, <2>6, <2>7 DEF ApprovalFits, Fits
    <3>2. q.from # 0 => Base(q.v, q.from) /\ q.notes = viewings[q.v].notes
      BY <2>3 DEF Relies
    <3>3. q.from # 0 => Base(q.v, q.from)'
      BY <2>3, <2>8, <2>9, <3>2, BaseStays
    <3>4. holds'[k].viewing = q.v /\ holds'[k].from = q.from /\ holds'[k].notes = q.notes
      BY <2>4, <2>6
    <3>. QED
      BY <1>2, <2>7, <3>1, <3>2, <3>3, <3>4 DEF ComesFrom
  <2>12. OnePerViewing'
    <3>1. \A h \in DOMAIN holds : holds'[h].viewing = q.v =>
            holds'[h].from # q.from \/ holds'[h].notes # q.notes
      BY <1>4, <2>6
    <3>2. OnePerViewing
      BY <2>3 DEF HoldsInv
    <3>. HIDE DEF same
    <3>. QED
      BY <2>4, <2>6, <2>7, <3>1, <3>2 DEF OnePerViewing
  <2>13. CreatedIsReal' /\ TourHasHold'
    BY <1>2, <2>3, <2>6, <2>9, CreatedStays DEF HoldsOf
  <2>14. EventWasApproved' /\ \A g \in conflicted' : ConflictFits(g)'
    BY <1>2, <2>3, <2>7, <2>9, ConflictsStay DEF HoldsInv, EventWasApproved, Shape
  <2>15. HoldsInv'
    BY <2>6, <2>10, <2>11, <2>12, <2>13, <2>14 DEF HoldsInv
  <2>16. req' = [req EXCEPT ![r] = Idle] /\ req' \in [Requests -> Progress]
    BY <1>2, <2>3, IdleRelies DEF Finish
  <2>17. Shape'
    <3>1. q.v \in DOMAIN viewings
      BY <2>3 DEF Relies
    <3>. QED
      BY <1>2, <2>3, <2>4, <2>6, <2>7, <2>16, <3>1 DEF Shape
  <2>. QED
    BY <2>8, <2>9, <2>15, <2>16, <2>17, IdleRelies, StepDone
<1>. QED
  BY <1>3, <1>4

LEMMA ApproveStep ==
    ASSUME CalendarInv, NEW r \in Requests, Approve(r)
    PROVE  CalendarInv'
<1>0. PICK h, v : h = req[r].h /\ v = req[r].v
  OBVIOUS
<1>1. req[r].at = "approve" /\ req[r].at \in OnHold
  BY DEF Approve, OnHold
<1>2. /\ req \in [Requests -> Progress] /\ h \in DOMAIN holds /\ holds[h].viewing = v
      /\ holds[h] \in Holds /\ ApprovalFits(h) /\ ComesFrom(h)
      /\ v \in DOMAIN viewings /\ viewings[v] \in Viewings
      /\ holds \in Seq(Holds) /\ approval \in Seq(ApprovalStates) /\ viewings \in Seq(Viewings)
      /\ DOMAIN approval = DOMAIN holds /\ Shape /\ HoldsInv
  BY <1>0, <1>1, HoldOfRequest DEF CalendarInv
<1>3. UNCHANGED <<lifecycle, plan, putBack, overdue, events, late, conflicted>> /\ Finish(r)
  BY DEF Approve
<1>. DEFINE granted == viewings[v].state = Approvable(h) /\ holds[h].state = "approval_pending"
<1>4. CASE ~granted
  <2>1. UNCHANGED <<viewings, holds, approval>>
    BY <1>0, <1>4 DEF Approve
  <2>. QED
    BY <1>3, <2>1, CrashStep
<1>5. CASE granted
  <2>1. PICK n, w : /\ n = [holds[h] EXCEPT !.state = "approved"]
                    /\ w = [viewings[v] EXCEPT !.state = "hold_approved"]
    OBVIOUS
  <2>2. /\ n \in Holds /\ n.viewing = v /\ n.notes = holds[h].notes /\ n.from = holds[h].from
        /\ n.state = "approved" /\ "pending" \in ApprovalStates
    BY <1>2, <2>1 DEF Holds, HoldStates, ApprovalStates
  <2>3. w \in Viewings /\ w.state = "hold_approved" /\ w.notes = viewings[v].notes
    BY <1>2, <2>1 DEF Viewings, ViewingStates
  <2>4. /\ holds' = [holds EXCEPT ![h] = n] /\ viewings' = [viewings EXCEPT ![v] = w]
        /\ approval' = [approval EXCEPT ![h] = "pending"]
    BY <1>0, <1>5, <2>1 DEF Approve
  <2>5. /\ holds[h].state = "approval_pending" /\ approval[h] = "none"
        /\ viewings[v].state = IF holds[h].from = 0 THEN "selected" ELSE "hold_approved"
    BY <1>2, <1>5 DEF ApprovalFits, Fits, Approvable
  <2>6. /\ viewings' \in Seq(Viewings) /\ DOMAIN viewings' = DOMAIN viewings
        /\ \A u \in DOMAIN viewings : viewings'[u] = IF u = v THEN w ELSE viewings[u]
        /\ ViewingsGo
    <3>1. w.state \in Settled /\ viewings[v].state # "cancelled"
      BY <2>3, <2>5 DEF Settled
    <3>. QED
      BY <1>2, <2>3, <2>4, <3>1, OneViewing
  <2>7. /\ holds' \in Seq(Holds) /\ DOMAIN holds' = DOMAIN holds /\ Len(holds') = Len(holds)
        /\ \A g \in DOMAIN holds : holds'[g] = IF g = h THEN n ELSE holds[g]
    BY <1>2, <2>2, <2>4, RowWritten
  <2>8. /\ approval' \in Seq(ApprovalStates) /\ Len(approval') = Len(approval)
        /\ \A g \in DOMAIN holds : approval'[g] = IF g = h THEN "pending" ELSE approval[g]
    BY <1>2, <2>2, <2>4, RowWritten
  <2>9. HoldsGo
    <3>1. ASSUME NEW g \in DOMAIN holds PROVE HoldGoes(g)
      BY <1>2, <2>2, <2>5, <2>7, <2>8 DEF HoldGoes
    <3>. QED
      BY <1>3, <2>7, <3>1 DEF HoldsGo
  <2>10. ASSUME NEW g \in DOMAIN holds, g # h PROVE ApprovalFits(g)' /\ ComesFrom(g)'
    <3>1. ComesFrom(g)'
      BY <1>2, <2>6, <2>8, <2>9, <2>10, OriginStays
    <3>2. ApprovalFits(g) /\ holds[g].viewing \in DOMAIN viewings
      BY <1>2 DEF HoldsInv, Shape
    <3>3. holds'[g] = holds[g] /\ approval'[g] = approval[g]
      BY <2>7, <2>8, <2>10
    <3>. QED
      BY <2>6, <3>1, <3>2, <3>3 DEF ApprovalFits, Fits, ViewingsGo
  <2>11. holds'[h] = n /\ approval'[h] = "pending" /\ viewings'[v] = w
    BY <1>2, <2>6, <2>7, <2>8
  <2>12. ApprovalFits(h)' /\ ComesFrom(h)'
    <3>1. ApprovalFits(h)'
      BY <2>2, <2>11 DEF ApprovalFits, Fits
    <3>2. PICK b : b = holds[h].from
      OBVIOUS
    <3>3. b # 0 => Base(v, b) /\ holds[h].notes = viewings[v].notes
      BY <1>2, <3>2 DEF ComesFrom
    <3>4. b # 0 => Base(v, b)'
      BY <1>2, <2>6, <2>9, <3>3, BaseStays
    <3>5. holds'[h].viewing = v /\ holds'[h].from = b /\ holds'[h].notes = holds[h].notes
      BY <2>2, <2>11, <3>2
    <3>. QED
      BY <2>3, <2>11, <3>1, <3>3, <3>4, <3>5 DEF ComesFrom, Settled
  <2>13. OnePerViewing'
    <3>1. OnePerViewing
      BY <1>2 DEF HoldsInv
    <3>2. ASSUME NEW g \in DOMAIN holds, g # h, holds[g].viewing = v, holds[g].from = 0,
                 approval[g] # "none"
          PROVE  holds[h].from # 0
      <4>1. ComesFrom(g)
        BY <1>2 DEF HoldsInv
      <4>2. viewings[v].state \in Settled
        BY <3>2, <4>1 DEF ComesFrom
      <4>. QED
        BY <2>5, <4>2 DEF Settled
    <3>3. \A g \in DOMAIN holds : /\ holds'[g].viewing = holds[g].viewing
                                  /\ holds'[g].from = holds[g].from
                                  /\ holds'[g].notes = holds[g].notes
                                  /\ g # h => approval'[g] = approval[g]
      BY <2>8, <2>9 DEF HoldsGo, HoldGoes
    <3>4. ASSUME NEW f \in DOMAIN holds, NEW g \in DOMAIN holds, holds[f].viewing = holds[g].viewing,
                 holds[f].from = 0, holds[g].from = 0, approval'[f] # "none", approval'[g] # "none"
          PROVE  f = g
      <4>1. CASE f = h
        BY <1>2, <3>2, <3>3, <3>4, <4>1
      <4>2. CASE g = h
        BY <1>2, <3>2, <3>3, <3>4, <4>2
      <4>3. CASE f # h /\ g # h
        BY <3>1, <3>3, <3>4, <4>3 DEF OnePerViewing
      <4>. QED
        BY <4>1, <4>2, <4>3
    <3>5. \A f, g \in DOMAIN holds :
            holds[f].viewing = holds[g].viewing /\ holds[f].from = holds[g].from
              /\ holds[f].notes = holds[g].notes => f = g
      BY <3>1 DEF OnePerViewing
    <3>6. \A f, g \in DOMAIN holds :
            holds[f].viewing = holds[g].viewing /\ holds[f].from = 0 /\ holds[g].from = 0
              /\ approval'[f] # "none" /\ approval'[g] # "none" => f = g
      BY <3>4
    <3>. QED
      BY <2>7, <3>3, <3>5, <3>6 DEF OnePerViewing
  <2>14. CreatedIsReal' /\ TourHasHold'
    <3>1. /\ \A u \in DOMAIN viewings' : viewings'[u].state = "hold_created" =>
               u \in DOMAIN viewings /\ viewings[u].state = "hold_created"
          /\ \A u \in DOMAIN viewings : viewings[u].state = "hold_created" =>
               viewings'[u].state = "hold_created"
          /\ \A g \in DOMAIN holds : holds[g].state = "created" => holds'[g].state = "created"
      BY <2>3, <2>5, <2>6, <2>7
    <3>. QED
      BY <1>2, <1>3, <2>6, <2>9, <3>1, CreatedStays DEF HoldsOf
  <2>15. EventWasApproved' /\ \A g \in conflicted' : ConflictFits(g)'
    <3>1. EventWasApproved'
      BY <1>2, <1>3, <2>5, <2>8 DEF HoldsInv, EventWasApproved, Shape
    <3>. QED
      BY <1>3, <2>9, <3>1, ConflictsStay
  <2>16. HoldsInv'
    BY <2>7, <2>10, <2>12, <2>13, <2>14, <2>15 DEF HoldsInv
  <2>17. req' = [req EXCEPT ![r] = Idle] /\ req' \in [Requests -> Progress]
    BY <1>2, <1>3, IdleRelies DEF Finish
  <2>18. Shape'
    BY <1>2, <1>3, <2>6, <2>7, <2>8, <2>9, <2>17 DEF Shape, HoldsGo, HoldGoes
  <2>. QED
    BY <2>6, <2>9, <2>16, <2>17, <2>18, IdleRelies, StepDone
<1>. QED
  BY <1>4, <1>5

(***************************************************************************)
(* The invariant holds of every behaviour.                                 *)
(***************************************************************************)

LEMMA CalendarStarts == Init => CalendarInv
<1>. SUFFICES ASSUME Init PROVE CalendarInv
  OBVIOUS
<1>1. /\ viewings = <<>> /\ holds = <<>> /\ approval = <<>> /\ lifecycle = "replied"
      /\ plan = NoPlan /\ putBack = FALSE
      /\ overdue = {} /\ events = {} /\ late = {} /\ conflicted = {}
      /\ req = [r \in Requests |-> Idle]
  BY DEF Init
<1>2. /\ viewings \in Seq(Viewings) /\ holds \in Seq(Holds) /\ approval \in Seq(ApprovalStates)
      /\ Len(approval) = Len(holds) /\ DOMAIN viewings = {} /\ DOMAIN holds = {}
  BY <1>1, EmptySeq
<1>3. Shape
  BY <1>1, <1>2, IdleRelies DEF Shape, Tour
<1>4. HoldsInv
  BY <1>1, <1>2 DEF HoldsInv, OnePerViewing, EventWasApproved, CreatedIsReal, TourHasHold
<1>5. \A r \in Requests : req[r] = Idle
  BY <1>1
<1>6. \A r \in Requests : Relies(req[r])
  BY <1>5, IdleRelies
<1>. QED
  BY <1>3, <1>4, <1>6 DEF CalendarInv

LEMMA RequestSteps ==
    ASSUME CalendarInv, NEW r \in Requests, Serve(r)
    PROVE  CalendarInv'
<1>1. ASSUME NEW v \in DOMAIN viewings, NEW n \in Notes, Prepare(r, v, n) PROVE CalendarInv'
  BY <1>1, PrepareStep
<1>2. ASSUME Reserve(r) PROVE CalendarInv'
  BY <1>2, ReserveStep
<1>3. ASSUME NEW h \in DOMAIN holds, ReadPreview(r, h) PROVE CalendarInv'
  BY <1>3, ReadPreviewStep
<1>4. ASSUME Approve(r) PROVE CalendarInv'
  BY <1>4, ApproveStep
<1>5. ASSUME NEW h \in DOMAIN holds, StartCreate(r, h) PROVE CalendarInv'
  BY <1>5, StartCreateStep
<1>6. ASSUME NEW c \in Checks, FinalCheck(r, c) PROVE CalendarInv'
  BY <1>6, FinalCheckStep
<1>7. ASSUME Revoke(r) PROVE CalendarInv'
  BY <1>7, RevokeStep
<1>8. ASSUME Replace(r) PROVE CalendarInv'
  BY <1>8, ReplaceStep
<1>9. ASSUME NEW h \in DOMAIN holds, PreviewOverride(r, h) PROVE CalendarInv'
  BY <1>9, PreviewOverrideStep
<1>10. ASSUME NEW allowed \in BOOLEAN, ReadPolicy(r, allowed) PROVE CalendarInv'
  BY <1>10, ReadPolicyStep
<1>11. ASSUME Deny(r) PROVE CalendarInv'
  BY <1>11, DenyStep
<1>12. ASSUME Begin(r) PROVE CalendarInv'
  BY <1>12, BeginStep
<1>13. ASSUME Lookup(r) PROVE CalendarInv'
  BY <1>13, LookupStep
<1>14. ASSUME Insert(r) PROVE CalendarInv'
  BY <1>14, InsertStep
<1>15. ASSUME Finalize(r) PROVE CalendarInv'
  BY <1>15, FinalizeStep
<1>16. ASSUME Fail(r) PROVE CalendarInv'
  BY <1>16, FailStep
<1>17. ASSUME NEW v \in DOMAIN viewings, ReadForCancel(r, v) PROVE CalendarInv'
  BY <1>17, ReadForCancelStep
<1>18. ASSUME Cancel(r) PROVE CalendarInv'
  BY <1>18, CancelStep
<1>19. ASSUME Crash(r) PROVE CalendarInv'
  BY <1>19, CrashStep DEF Crash
<1>. QED
  BY <1>1, <1>2, <1>3, <1>4, <1>5, <1>6, <1>7, <1>8, <1>9, <1>10, <1>11, <1>12, <1>13, <1>14,
     <1>15, <1>16, <1>17, <1>18, <1>19 DEF Serve

LEMMA CalendarSteps == CalendarInv /\ [Next]_vars => CalendarInv'
<1>. SUFFICES ASSUME CalendarInv, [Next]_vars PROVE CalendarInv'
  OBVIOUS
<1>1. ASSUME NEW c \in Checks, Propose(c) PROVE CalendarInv'
  BY <1>1, ProposeStep
<1>2. ASSUME NEW v \in DOMAIN viewings, Select(v) PROVE CalendarInv'
  BY <1>2, SelectStep
<1>3. ASSUME NEW v \in DOMAIN viewings, Reschedule(v) PROVE CalendarInv'
  BY <1>3, RescheduleStep
<1>4. ASSUME NEW h \in DOMAIN holds, PassExpiry(h) PROVE CalendarInv'
  BY <1>4, PassExpiryStep
<1>5. ASSUME NEW h \in DOMAIN holds, Land(h) PROVE CalendarInv'
  BY <1>5, LandStep
<1>6. ASSUME NEW r \in Requests, Serve(r) PROVE CalendarInv'
  BY <1>6, RequestSteps
<1>7. ASSUME UNCHANGED vars PROVE CalendarInv'
  <2>1. UNCHANGED <<lifecycle, plan, putBack, viewings, holds, approval, overdue, events, late,
                    req, conflicted>>
    BY <1>7 DEF vars
  <2>2. /\ \A h \in events' \cup late' : h \in DOMAIN holds /\ approval[h] = "used"
        /\ overdue' \subseteq DOMAIN holds /\ req' \in [Requests -> Progress]
    BY <2>1 DEF CalendarInv, Shape, HoldsInv, EventWasApproved
  <2>. QED
    BY <2>1, <2>2, TablesStay, OutsideDone
<1>8. ASSUME ReadPriors \/ ApplyPlan PROVE CalendarInv'
  BY <1>8, DecisionStep
<1>. QED
  BY <1>1, <1>2, <1>3, <1>4, <1>5, <1>6, <1>7, <1>8 DEF Next

LEMMA InvariantHolds == Spec => []CalendarInv
<1>. QED
  BY CalendarStarts, CalendarSteps, PTL DEF Spec

(***************************************************************************)
(* What the invariant says of the events.                                  *)
(***************************************************************************)

(* Two holds of a viewing whose approvals were consumed are one.  A hold    *)
(* that overrides another needs that one cancelled over a check that        *)
(* failed, which a hold whose approval was consumed never is; and two that  *)
(* override the same hold carry the same notes.                             *)
LEMMA OneConsumed ==
    ASSUME CalendarInv, NEW h \in DOMAIN holds, NEW g \in DOMAIN holds,
           holds[h].viewing = holds[g].viewing, approval[h] = "used", approval[g] = "used"
    PROVE  h = g
<1>1. /\ ApprovalFits(h) /\ ComesFrom(h) /\ ApprovalFits(g) /\ ComesFrom(g) /\ OnePerViewing
  BY DEF CalendarInv, HoldsInv
<1>2. PICK v : v = holds[h].viewing
  OBVIOUS
<1>3. ASSUME NEW a \in DOMAIN holds, NEW b \in DOMAIN holds, holds[a].viewing = v,
             holds[b].viewing = v, approval[b] = "used", holds[a].from # 0, holds[b].from = 0,
             ComesFrom(a), ApprovalFits(b)
      PROVE  FALSE
  <2>1. PICK c : c = holds[a].from
    OBVIOUS
  <2>2. Base(v, c)
    BY <1>3, <2>1 DEF ComesFrom
  <2>3. c = b
    BY <1>1, <1>3, <2>2 DEF Base, OnePerViewing
  <2>. QED
    BY <1>3, <2>2, <2>3 DEF Base, ApprovalFits, Fits
<1>4. CASE holds[h].from = 0 /\ holds[g].from = 0
  BY <1>1, <1>4 DEF OnePerViewing
<1>5. CASE holds[h].from # 0 /\ holds[g].from # 0
  <2>1. PICK b, c : b = holds[h].from /\ c = holds[g].from
    OBVIOUS
  <2>2. /\ Base(v, b) /\ Base(v, c) /\ holds[h].notes = viewings[v].notes
        /\ holds[g].notes = viewings[v].notes
    BY <1>1, <1>2, <1>5, <2>1 DEF ComesFrom
  <2>3. b = c
    BY <1>1, <2>2 DEF Base, OnePerViewing
  <2>. QED
    BY <1>1, <2>1, <2>2, <2>3 DEF OnePerViewing
<1>. QED
  BY <1>1, <1>2, <1>3, <1>4, <1>5

LEMMA EventsAreOfOneHold ==
    ASSUME CalendarInv, NEW v, NEW h \in Effects(v), NEW g \in Effects(v)
    PROVE  h = g
<1>1. /\ h \in DOMAIN holds /\ g \in DOMAIN holds /\ holds[h].viewing = holds[g].viewing
      /\ approval[h] = "used" /\ approval[g] = "used"
  BY DEF Effects, HoldsOf, CalendarInv, HoldsInv, EventWasApproved
<1>. QED
  BY <1>1, OneConsumed

LEMMA NothingOverConflict == CalendarInv => NoEventOverConflict
<1>. SUFFICES ASSUME CalendarInv, NEW h \in conflicted, NEW g \in Effects(holds[h].viewing)
              PROVE  FALSE
  BY DEF NoEventOverConflict
<1>1. /\ h \in DOMAIN holds /\ g \in DOMAIN holds /\ ConflictFits(h) /\ approval[g] = "used"
      /\ holds[g].viewing = holds[h].viewing /\ ComesFrom(g) /\ OnePerViewing
  BY DEF CalendarInv, Shape, HoldsInv, EventWasApproved, Effects, HoldsOf
<1>2. CASE holds[g].from = 0
  BY <1>1, <1>2 DEF OnePerViewing, ConflictFits
<1>3. CASE holds[g].from # 0
  <2>1. PICK b, v : b = holds[g].from /\ v = holds[g].viewing
    OBVIOUS
  <2>2. Base(v, b)
    BY <1>1, <1>3, <2>1 DEF ComesFrom
  <2>3. b = h
    BY <1>1, <2>1, <2>2 DEF Base, OnePerViewing, ConflictFits
  <2>. QED
    BY <1>1, <2>2, <2>3 DEF Base, ConflictFits
<1>. QED
  BY <1>2, <1>3

LEMMA AtMostOneEvent == CalendarInv => OneEventPerViewing
<1>. SUFFICES ASSUME CalendarInv, NEW v \in DOMAIN viewings PROVE Cardinality(Effects(v)) <= 1
  BY DEF OneEventPerViewing
<1>1. CASE Effects(v) = {}
  BY <1>1, FS_EmptySet
<1>2. CASE Effects(v) # {}
  <2>1. PICK h \in Effects(v) : TRUE
    BY <1>2
  <2>2. Effects(v) = {h}
    BY <2>1, EventsAreOfOneHold
  <2>3. Cardinality({h}) = 1
    BY FS_Singleton
  <2>. QED
    BY <2>2, <2>3
<1>. QED
  BY <1>1, <1>2

(***************************************************************************)
(* The theorem.                                                            *)
(***************************************************************************)

(* However requests that check, approve, create, cancel, reschedule and     *)
(* override overlap, crash or are answered late, a viewing gets at most one *)
(* event, under an approval its creation consumed and over no conflict; a   *)
(* viewing that says it has a hold has one, and so has a listing, unless a  *)
(* decision has put it back into a state it read earlier.                   *)
THEOREM HoldsApproved == Spec => []HoldsAreApproved
<1>1. CalendarInv => HoldsAreApproved
  BY AtMostOneEvent, NothingOverConflict DEF HoldsAreApproved, CalendarInv, HoldsInv
<1>. QED
  BY <1>1, InvariantHolds, PTL
=============================================================================
