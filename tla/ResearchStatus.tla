--------------------------- MODULE ResearchStatus ---------------------------
(***************************************************************************)
(* What the user is shown of one search while it runs.                     *)
(*                                                                         *)
(* Nothing stores the state of a source or the phase of a search:          *)
(* getRentalResearchStatus derives both from the activity events of the    *)
(* run and its source jobs, which it reads one after the other while the   *)
(* sources, the normalization worker and a stop write them.  A source      *)
(* imports listing by listing, then moves its job, then appends its event, *)
(* each in a transaction of its own.  The page asks once a second until it *)
(* is told that the run is completed.                                      *)
(*                                                                         *)
(* ResearchRuns models how a run begins, repeats and is retried; here one  *)
(* run is given and the sources differ in what they report.                *)
(***************************************************************************)
EXTENDS Naturals, FiniteSets, Sequences

CONSTANTS
  Selected,     \* the selected sources: "rentcast", "zillow" and browser sources
  Actions,      \* the manual actions a browser source may ask for
  MaxListings,  \* bound: listings one source retrieves
  MaxReads,     \* bound: statuses shown
  CanStop,      \* TRUE when the user may stop the run
  CanCrash,     \* TRUE when the web process may die
  None

(* The manual actions a status may name.                                    *)
ManualActions ==
  {"login_required", "two_factor_required", "captcha_required",
   "checkpoint_required", "consent_required", "blocked", "layout_changed",
   "browser_offline", "tab_required", "no_shared_tab",
   "multiple_shared_tabs", "shared_tab_changed", "cancelled"}

ResearchStatusAssumption ==
  /\ Actions \subseteq ManualActions \ {"cancelled"}
  /\ MaxListings \in 0 .. 10 /\ MaxReads \in Nat
  /\ CanStop \in BOOLEAN /\ CanCrash \in BOOLEAN

BrowserSources == Selected \ {"rentcast"}

VARIABLES
  step,     \* how far each source is
  out,      \* what the source has returned
  job,      \* its source job: the status, and the blocker of a manual action
  found,    \* live_listing_imported and _rejected, and the normalization events
  fin,      \* the finished event of a browser source, the provider event of RentCast
  fail,     \* its failed event
  ended,    \* rental_research_sources_finished was appended
  scored,   \* live_search_completed was appended
  read,     \* the events a status request has read
  shown,    \* the statuses shown, the last one last
  stopped   \* history: a stop cancelled a job

vars == <<step, out, job, found, fin, fail, ended, scored, read, shown, stopped>>

Imported == {"new", "normalized", "unusable", "known"}
Stoppable == {"running", "retryable_failed", "manual_action_required"}
NoJob == [status |-> "none", blocker |-> None]

(* The outputs the tools build and the schemas accept: a manual action has  *)
(* a reason and nothing else has one; a failure that has listings is        *)
(* partial.                                                                 *)
Output ==
  [state : {"completed", "partial"}, action : {None}, count : 1 .. MaxListings]
  \cup [state : {"failed", "no_results"}, action : {None}, count : {0}]
  \cup [state : {"manual_action_required"}, action : Actions, count : 0 .. MaxListings]

Init ==
  /\ step = [s \in Selected |-> "waits"]
  /\ out = [s \in Selected |-> None]
  /\ job = [s \in Selected |-> NoJob]
  /\ found = [s \in Selected |-> <<>>]
  /\ fin = [s \in Selected |-> None]
  /\ fail = [s \in Selected |-> "none"]
  /\ ended = FALSE /\ scored = FALSE
  /\ read = None /\ shown = <<>> /\ stopped = FALSE

Goto(s, where) == step' = [step EXCEPT ![s] = where]
Move(s, status) == job' = [job EXCEPT ![s] = [status |-> status, blocker |-> None]]
At(s, where) == step[s] = where
Status(s) == job[s].status
Over == {"over", "refused", "dead"}
Reader == UNCHANGED <<read, shown>>
Run == UNCHANGED <<ended, scored, stopped>>
-----------------------------------------------------------------------------
(* The sources.  The browser sources run one after the other.               *)

MyTurn(s) ==
  \/ s = "rentcast"
  \/ \A t \in BrowserSources \ {s} : step[t] \in {"waits"} \cup Over

(* The source is not enabled for the account: no job, and the run appends   *)
(* its failure when all sources have settled.                               *)
Refuse(s) ==
  /\ At(s, "waits") /\ MyTurn(s)
  /\ Goto(s, "refused")
  /\ UNCHANGED <<out, job, found, fin, fail>> /\ Reader /\ Run

(* Enqueued, dispatched and running in one transaction.                     *)
BeginZillow ==
  LET s == "zillow" IN
  /\ s \in Selected /\ At(s, "waits") /\ MyTurn(s)
  /\ Move(s, "running")
  /\ Goto(s, "searches")
  /\ UNCHANGED <<out, found, fin, fail>> /\ Reader /\ Run

BeginBrowser(s) ==
  /\ s \in BrowserSources \ {"zillow"} /\ At(s, "waits") /\ MyTurn(s)
  /\ Move(s, "running")
  /\ Goto(s, "searches")
  /\ UNCHANGED <<out, found, fin, fail>> /\ Reader /\ Run

BeginRentCast ==
  LET s == "rentcast" IN
  /\ s \in Selected /\ At(s, "waits")
  /\ Move(s, "running")
  /\ Goto(s, "searches")
  /\ UNCHANGED <<out, found, fin, fail>> /\ Reader /\ Run

Report(s, state, action, retrieved, imported, rejected) ==
  fin' = [fin EXCEPT ![s] =
    [state |-> state, action |-> action, retrieved |-> retrieved,
     imported |-> imported, rejected |-> rejected]]

(* The extension answers.  A run that was stopped meanwhile is reported as  *)
(* cancelled by Zillow and not at all by the other sources.                 *)
Answer(s) ==
  /\ s \in BrowserSources /\ At(s, "searches")
  /\ \/ /\ Status(s) = "running"
        /\ \E o \in Output : out' = [out EXCEPT ![s] = o]
        /\ Goto(s, "imports")
        /\ UNCHANGED fin
     \/ /\ Status(s) = "cancelled_by_policy"
        /\ IF s = "zillow"
             THEN Report(s, "manual_action_required", "cancelled", 0, 0, 0)
             ELSE UNCHANGED fin
        /\ Goto(s, "over")
        /\ UNCHANGED out
     \/ Goto(s, "threw") /\ UNCHANGED <<out, fin>>
  /\ UNCHANGED <<job, found, fail>> /\ Reader /\ Run

(* One listing: a new capture with a normalization job, one an earlier run  *)
(* has brought and normalized, or one that does not parse.                  *)
Add(s) == \E kind \in {"new", "known", "bad"} : found' = [found EXCEPT ![s] = Append(@, kind)]

ImportZillow ==
  LET s == "zillow" IN
  /\ s \in Selected /\ At(s, "imports")
  /\ IF Len(found[s]) = out[s].count \/ Status(s) = "cancelled_by_policy"
       THEN Goto(s, "settles") /\ UNCHANGED found
       ELSE Add(s) /\ UNCHANGED step
  /\ UNCHANGED <<out, job, fin, fail>> /\ Reader /\ Run

ImportBrowser(s) ==
  /\ s \in BrowserSources \ {"zillow"} /\ At(s, "imports")
  /\ IF Len(found[s]) = out[s].count \/ Status(s) = "cancelled_by_policy"
       THEN Goto(s, "settles") /\ UNCHANGED found
       ELSE Add(s) /\ UNCHANGED step
  /\ UNCHANGED <<out, job, fin, fail>> /\ Reader /\ Run

(* The provider's page of listings was recorded before the first import.    *)
ImportRentCast ==
  LET s == "rentcast" IN
  /\ s \in Selected /\ At(s, "imports")
  /\ IF Len(found[s]) = out[s].count
       THEN Goto(s, "settles") /\ UNCHANGED found
       ELSE Add(s) /\ UNCHANGED step
  /\ UNCHANGED <<out, job, fin, fail>> /\ Reader /\ Run

(* Faulty: the action itself is stored as the blocker.                      *)
BlockerRaw(action) == action
BrowserBlockerRaw(action) == action

(* The blocker the job of a manual action names.                            *)
Blocker(action) ==
  IF action \in {"login_required", "two_factor_required", "captcha_required",
                 "consent_required"} THEN action
  ELSE IF action = "blocked" THEN "rate_or_bot_challenge"
  ELSE IF action = "layout_changed" THEN "layout_incompatible"
  ELSE IF action = "browser_offline" THEN "node_offline"
  ELSE "user_intervention_required"

BrowserBlocker(action) ==
  IF action = "checkpoint_required" THEN "two_factor_required" ELSE Blocker(action)

(* Faulty: a blocker that still brought listings completes the job.         *)
SettleHopefully(s) ==
  /\ s \in BrowserSources /\ At(s, "settles")
  /\ IF Status(s) # "running" THEN Goto(s, "threw") /\ UNCHANGED job
     ELSE /\ Goto(s, "reports")
          /\ Move(s, IF out[s].count = 0 THEN "permanently_failed" ELSE "completed")
  /\ UNCHANGED <<out, found, fin, fail>> /\ Reader /\ Run

(* The job moves with what was returned; a stopped job takes no transition. *)
Settle(s) ==
  /\ s \in BrowserSources /\ At(s, "settles")
  /\ IF Status(s) # "running" THEN Goto(s, "threw") /\ UNCHANGED job
     ELSE /\ Goto(s, "reports")
          /\ IF out[s].state = "manual_action_required"
             THEN job' = [job EXCEPT ![s] =
                    [status |-> "manual_action_required",
                     blocker |-> IF s = "zillow" THEN Blocker(out[s].action)
                                 ELSE BrowserBlocker(out[s].action)]]
             ELSE IF out[s].state = "failed" /\ out[s].count = 0
             THEN Move(s, "permanently_failed")
             ELSE Move(s, "completed")
  /\ UNCHANGED <<out, found, fin, fail>> /\ Reader /\ Run

(* The event, in another transaction.  New captures count, known ones do not. *)
Kinds(s, kinds) == Cardinality({i \in DOMAIN found[s] : found[s][i] \in kinds})

Finish(s) ==
  /\ s \in BrowserSources /\ At(s, "reports")
  /\ Report(s, out[s].state, out[s].action, out[s].count,
            Kinds(s, Imported \ {"known"}), Kinds(s, {"bad"}))
  /\ Goto(s, "over")
  /\ UNCHANGED <<out, job, found, fail>> /\ Reader /\ Run

(* The gateway failed or the job was stopped: first the job, then the event. *)
CatchJob(s) ==
  /\ s \in BrowserSources /\ At(s, "threw")
  /\ IF Status(s) = "running"
       THEN \E status \in {"retryable_failed", "permanently_failed"} : Move(s, status)
       ELSE UNCHANGED job
  /\ Goto(s, "fails")
  /\ UNCHANGED <<out, found, fin, fail>> /\ Reader /\ Run

CatchEvent(s) ==
  /\ s \in BrowserSources /\ At(s, "fails")
  /\ fail' = [fail EXCEPT ![s] = "failed"]
  /\ Goto(s, "over")
  /\ UNCHANGED <<out, job, found, fin>> /\ Reader /\ Run

(* RentCast: a failure and its job are one transaction, and a search        *)
(* without results is a completed job with a failed event.                  *)
SearchRentCast ==
  LET s == "rentcast" IN
  /\ s \in Selected /\ At(s, "searches")
  /\ \/ \E n \in 1 .. MaxListings :
          /\ out' = [out EXCEPT ![s] = [count |-> n]]
          /\ Report(s, "completed", None, n, 0, 0)
          /\ Goto(s, "imports")
          /\ UNCHANGED <<job, fail>>
     \/ /\ IF Status(s) = "running"
             THEN \E status \in {"retryable_failed", "permanently_failed", "completed"} :
                    Move(s, status)
             ELSE UNCHANGED job
        /\ fail' = [fail EXCEPT ![s] = "failed"]
        /\ Goto(s, "over")
        /\ UNCHANGED <<out, fin>>
     \/ /\ Status(s) # "running"
        /\ Goto(s, "refused")
        /\ UNCHANGED <<out, fin, job, fail>>
  /\ UNCHANGED found /\ Reader /\ Run

FinishRentCast ==
  LET s == "rentcast"
      empty == Kinds(s, {"new", "normalized", "unusable"}) = 0 /\ Kinds(s, {"bad"}) > 0
  IN
  /\ s \in Selected /\ At(s, "settles")
  /\ Goto(s, IF empty \/ Status(s) = "running" THEN "over" ELSE "refused")
  /\ IF Status(s) = "running"
       THEN Move(s, IF empty THEN "permanently_failed" ELSE "completed")
       ELSE UNCHANGED job
  /\ fail' = [fail EXCEPT ![s] = IF empty THEN "failed" ELSE @]
  /\ UNCHANGED <<out, found, fin>> /\ Reader /\ Run
-----------------------------------------------------------------------------
(* The run, the workers and the user.                                       *)

(* All sources have settled: the run records the failures nobody recorded.  *)
RecordRefusal(s) ==
  /\ \A t \in Selected : step[t] \in {"over", "refused"}
  /\ At(s, "refused")
  /\ fail' = [fail EXCEPT ![s] =
       IF @ # "none" THEN @ ELSE IF Status(s) = "none" THEN "denied" ELSE "failed"]
  /\ Goto(s, "over")
  /\ UNCHANGED <<out, job, found, fin>> /\ Reader /\ Run

(* Faulty: the end does not wait for the failures to be recorded.           *)
ConcludeEarly ==
  /\ ~ended /\ \A s \in Selected : step[s] \in {"over", "refused"}
  /\ ended' = TRUE
  /\ UNCHANGED <<step, out, job, found, fin, fail, scored, stopped>> /\ Reader

Conclude ==
  /\ ~ended /\ \A s \in Selected : At(s, "over")
  /\ ended' = TRUE
  /\ UNCHANGED <<step, out, job, found, fin, fail, scored, stopped>> /\ Reader

Normalize(s) ==
  \E i \in DOMAIN found[s], kind \in {"normalized", "unusable"} :
    /\ found[s][i] = "new"
    /\ found' = [found EXCEPT ![s][i] = kind]
    /\ UNCHANGED <<step, out, job, fin, fail>> /\ Reader /\ Run

Contents(f) == UNION {{f[s][i] : i \in DOMAIN f[s]} : s \in Selected}

(* The decision worker completes a run all of whose imports have a source   *)
(* record, unless its RentCast branch has failed.                           *)
Score ==
  /\ ~scored /\ Contents(found) \cap Imported # {}
  /\ Contents(found) \cap {"new", "unusable"} = {}
  /\ "rentcast" \in Selected => fail["rentcast"] = "none"
  /\ scored' = TRUE
  /\ UNCHANGED <<step, out, job, found, fin, fail, ended, stopped>> /\ Reader

(* A stop cancels the jobs one by one.                                      *)
Stop(s) ==
  /\ CanStop /\ Status(s) \in Stoppable
  /\ Move(s, "cancelled_by_policy")
  /\ stopped' = TRUE
  /\ UNCHANGED <<step, out, found, fin, fail, ended, scored>> /\ Reader

Crash ==
  /\ CanCrash /\ ~ended /\ \E s \in Selected : step[s] # "dead"
  /\ step' = [s \in Selected |-> "dead"]
  /\ UNCHANGED <<out, job, found, fin, fail>> /\ Reader /\ Run
-----------------------------------------------------------------------------
(* The status.  It is derived from e, the events, and the jobs.             *)

CountOf(e, s, kinds) == Cardinality({i \in DOMAIN e.found[s] : e.found[s][i] \in kinds})

ManualAction(e, s) ==
  IF e.fin[s] # None THEN e.fin[s].action
  ELSE IF Status(s) = "cancelled_by_policy" THEN "cancelled" ELSE None

(* Faulty: the events are counted only while there is no finished event.    *)
ImportedCountNullish(e, s) ==
  IF e.fin[s] = None THEN CountOf(e, s, Imported) ELSE e.fin[s].imported

(* The number of the finished event; without one, or when it is zero, the   *)
(* events of the listings are counted.                                      *)
ImportedCount(e, s) ==
  IF e.fin[s] # None /\ e.fin[s].imported > 0 THEN e.fin[s].imported
  ELSE CountOf(e, s, Imported)

PartialOr(e, s, state) == IF ImportedCount(e, s) > 0 THEN "partial" ELSE state

CompletedState(e, s) ==
  IF e.fin[s] # None /\ e.fin[s].state = "no_results" THEN "no_results"
  ELSE IF (e.fin[s] # None /\ e.fin[s].state = "partial") \/ CountOf(e, s, {"unusable"}) > 0
  THEN "partial" ELSE "completed"

FailedState(e, s) ==
  PartialOr(e, s, IF e.fail[s] = "denied" THEN "source_not_approved" ELSE "failed")

TabActions == {"tab_required", "no_shared_tab", "multiple_shared_tabs", "shared_tab_changed"}

BlockedState(e, s, tabs) ==
  LET action == ManualAction(e, s) IN
  IF action \in {"login_required", "browser_offline"} THEN action
  ELSE IF action \in tabs THEN "tab_required"
  ELSE PartialOr(e, s, "manual_action_required")

Broken == {"retryable_failed", "permanently_failed", "cancelled_by_policy"}

ZillowState(e) ==
  LET s == "zillow" IN
  CASE Status(s) = "manual_action_required" -> BlockedState(e, s, TabActions)
    [] Status(s) = "completed" -> CompletedState(e, s)
    [] Status(s) \in Broken -> PartialOr(e, s, "failed")
    [] Status(s) = "running" /\ e.fail[s] = "none" -> "searching"
    [] OTHER -> IF e.fail[s] = "none" THEN "ready" ELSE FailedState(e, s)

BrowserState(e, s) ==
  CASE Status(s) = "manual_action_required" ->
         BlockedState(e, s, TabActions \ {"no_shared_tab"})
    [] Status(s) = "completed" -> CompletedState(e, s)
    [] Status(s) \in Broken -> FailedState(e, s)
    [] Status(s) = "running" /\ e.fail[s] = "none" -> "searching"
    [] OTHER -> IF e.fail[s] # "none" THEN FailedState(e, s)
                ELSE IF s = "facebook_marketplace" THEN "account_recommended" ELSE "ready"

RentCastState(e) ==
  LET s == "rentcast" IN
  CASE e.fail[s] = "denied" -> "source_not_approved"
    [] e.fail[s] = "failed" -> IF CountOf(e, s, Imported) > 0 THEN "partial" ELSE "failed"
    [] OTHER -> CASE Status(s) = "completed" ->
                       IF CountOf(e, s, {"unusable"}) > 0 THEN "partial" ELSE "completed"
                  [] Status(s) = "none" -> "ready"
                  [] OTHER -> "searching"

SourceState(e, s) ==
  IF s = "zillow" THEN ZillowState(e)
  ELSE IF s = "rentcast" THEN RentCastState(e) ELSE BrowserState(e, s)

(* Faulty: a run whose sources have finished is over.                       *)
PhaseHasty(e) ==
  IF e.ended THEN "completed"
  ELSE IF Contents(e.found) # {} THEN "importing" ELSE "searching"

Phase(e) ==
  LET kinds == Contents(e.found)
      imports == kinds \cap Imported
      ends == e.ended /\ (imports = {} \/
                (imports \subseteq {"normalized", "unusable"}
                 /\ ("unusable" \in imports \/ e.scored)))
  IN CASE ends -> "completed"
       [] OTHER ->
          CASE imports = {"normalized"} -> "scoring"
            [] "normalized" \in imports /\ imports # {"normalized"} -> "deduplicating"
            [] imports # {} /\ "normalized" \notin imports -> "importing"
            [] imports = {} ->
               IF \E s \in Selected : Status(s) = "running" THEN "searching"
               ELSE IF \E s \in Selected : Status(s) # "none" THEN "checking_sources"
               ELSE "connecting_browser"

NeedsRecovery ==
  {"failed", "partial", "login_required", "browser_offline", "tab_required",
   "source_not_approved", "manual_action_required"}

StatusFrom(e) ==
  LET state == [s \in Selected |-> SourceState(e, s)]
      imported == [s \in Selected |->
        IF s = "rentcast" THEN CountOf(e, s, Imported) ELSE ImportedCount(e, s)]
  IN [phase |-> Phase(e), state |-> state, imported |-> imported,
      partial |-> /\ \E s \in Selected : state[s] \in NeedsRecovery
                  /\ \E s \in Selected : imported[s] > 0 \/ state[s] = "completed"]

Now == [found |-> found, fin |-> fin, fail |-> fail, ended |-> ended, scored |-> scored]

(* The page asks until it was told that the run is completed.  The events   *)
(* are read first, the jobs after them.                                     *)
Last1 == shown[Len(shown)]

ReadEvents ==
  /\ read = None /\ Len(shown) < MaxReads
  /\ shown # <<>> => Last1.phase # "completed"
  /\ read' = Now
  /\ UNCHANGED <<step, out, job, found, fin, fail, shown>> /\ Run

Show ==
  /\ read # None
  /\ shown' = Append(shown, StatusFrom(read))
  /\ read' = None
  /\ UNCHANGED <<step, out, job, found, fin, fail>> /\ Run

Next ==
  \/ \E s \in Selected :
       \/ Refuse(s) \/ BeginBrowser(s) \/ Answer(s) \/ ImportBrowser(s) \/ Settle(s)
       \/ Finish(s) \/ CatchJob(s) \/ CatchEvent(s) \/ RecordRefusal(s)
       \/ Normalize(s) \/ Stop(s)
  \/ BeginZillow \/ ImportZillow
  \/ BeginRentCast \/ SearchRentCast \/ ImportRentCast \/ FinishRentCast
  \/ Conclude \/ Score \/ Crash \/ ReadEvents \/ Show

Spec == Init /\ [][Next]_vars
-----------------------------------------------------------------------------
(* Properties.                                                              *)

TypeOK ==
  /\ step \in [Selected -> {"waits", "searches", "imports", "settles", "reports",
                            "threw", "fails"} \cup Over]
  /\ \A s \in Selected :
       /\ Status(s) \in Stoppable \cup Broken \cup {"none", "completed"}
       /\ job[s].blocker # None <=> Status(s) = "manual_action_required"
       /\ job[s].blocker \in {None, "login_required", "two_factor_required",
            "captcha_required", "consent_required", "rate_or_bot_challenge",
            "layout_incompatible", "node_offline", "user_intervention_required"}
       /\ Len(found[s]) <= MaxListings
       /\ fail[s] \in {"none", "failed", "denied"}
  /\ \A i \in DOMAIN shown : \A s \in Selected : shown[i].imported[s] \in 0 .. 10

(* A source that stopped at a login, a challenge or a missing tab is never  *)
(* shown as one that completed or found nothing.                            *)
BlockerIsNoSuccess ==
  \A i \in DOMAIN shown : \A s \in BrowserSources :
    shown[i].state[s] \in {"completed", "no_results"} =>
      out[s] # None /\ out[s].state # "manual_action_required"

(* When the page is told that the run is completed it stops asking: every   *)
(* source is then settled and its state is the outcome it reported, however *)
(* the events and the jobs were read.                                       *)
FinalStatusIsSettled ==
  \A i \in DOMAIN shown : shown[i].phase = "completed" =>
    \A s \in Selected :
      /\ shown[i].state[s] \notin {"ready", "account_recommended", "searching"}
      /\ s \in BrowserSources /\ shown[i].state[s] = "completed" =>
           out[s].state = "completed"

(* What the page was told last stays true: unless the user stops a run that *)
(* is over, asking again would give the same answer.                        *)
CompletedIsFinal ==
  shown # <<>> /\ Last1.phase = "completed" /\ ~stopped => StatusFrom(Now) = Last1

(* Listings that were shown as imported stay so: the event that finishes    *)
(* the source, or a failure, never takes the count back to none.            *)
ImportsNeverVanish ==
  \A i, j \in DOMAIN shown : i < j =>
    \A s \in Selected : shown[i].imported[s] > 0 => shown[j].imported[s] > 0

(* The phases are shown in their order.  They are not: when all listings    *)
(* imported so far are normalized the run is scoring, and the next source   *)
(* that imports takes it back.                                              *)
Rank == [connecting_browser |-> 0, checking_sources |-> 1, searching |-> 1,
         importing |-> 2, deduplicating |-> 3, scoring |-> 4, completed |-> 5]
=============================================================================
