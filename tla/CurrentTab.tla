----------------------------- MODULE CurrentTab -----------------------------
(***************************************************************************)
(* The capture of the tab a person has open: the worker asks the OpenClaw  *)
(* command line for its version, then for the tabs of the dedicated        *)
(* browser profile, then for a snapshot of the one tab that shows the      *)
(* approved listing.  Each question is a process that can fail, hang until *)
(* its timeout or be cancelled, and the person browses on meanwhile.       *)
(*                                                                         *)
(* A url is a record of what the canonical form looks at; a page is a url, *)
(* what its text shows and whether a dialog covers it.  The browser, the   *)
(* gateway and the person are external.                                    *)
(***************************************************************************)
EXTENDS Naturals, FiniteSets

CONSTANTS
  None,
  Executions,          \* approved captures; a retry keeps its execution id
  Targets,             \* tabs of the profile
  Pages,               \* pages the person may open
  Blockers,            \* what a page shows instead of its content
  Approved,            \* execution -> the url that was approved
  MaxMoves, MaxTries

VARIABLES
  tabs,                \* target -> the page it shows, or None
  running,             \* the profile's browser runs
  verified,            \* #versionVerified
  pc,                  \* execution -> the process it waits for, idle or done
  chosen,              \* execution -> the listed tab: its target and url
  result,              \* execution -> the result of its last try
  active,              \* #active: executions with an abort controller
  told,                \* execution -> what the last cancellation answered
  answers,             \* <<execution, phase>> -> the gateway's first answer to that key
  tries, moves         \* counters for the bounds

browser == <<tabs, running, moves>>
vars == <<tabs, running, verified, pc, chosen, result, active, told, answers, tries, moves>>

-----------------------------------------------------------------------------
(* Urls *)
TrackingKeys == {"utm_source", "utm_medium", "utm_campaign", "utm_content", "utm_term", "fromhomepage"}

Canonical(u) ==
  IF /\ u.protocol = "https"
     /\ u.hostname = "www.zillow.com"
     /\ u.keys \subseteq TrackingKeys
  THEN u.listing
  ELSE None

Matches(e, u) == Canonical(u) # None /\ Canonical(u) = Canonical(Approved[e])

UrlBlocker(u) ==
  CASE u.path = "login" -> "login_required"
    [] u.path = "captcha" -> "captcha_required"
    [] OTHER -> None

\* Faulty: the text is read before the dialog that covers it.
SnapshotBlockerIgnoringDialog(page) == IF page.shows \in Blockers THEN page.shows ELSE None

SnapshotBlocker(page) ==
  IF page.dialog THEN "consent_required"
  ELSE IF page.shows \in Blockers THEN page.shows
  ELSE None

-----------------------------------------------------------------------------
(* Results *)
Result(status) == [status |-> status, evidence |-> None, manual |-> None, error |-> None]
Manual(blocker) == [Result("manual_action_required") EXCEPT !.manual = blocker]
Failed(status, code) == [Result(status) EXCEPT !.error = code]
Captured(tab, page) ==
  [Result("completed") EXCEPT !.evidence = [activeUrl |-> tab.url, canonical |-> Canonical(tab.url), text |-> page.shows]]

ValidResult(r) ==
  LET has == {f \in {"evidence", "manual", "error"} : r[f] # None}
  IN CASE r.status = "completed" -> has = {"evidence"}
       [] r.status = "manual_action_required" -> has = {"manual"}
       [] r.status \in {"retryable_failed", "permanently_failed"} -> has = {"error"}
       [] r.status = "cancelled" -> has = {}
       [] OTHER -> FALSE

\* Faulty: a release that was not tested is reported as an error.
FailureOfRelease(code) ==
  CASE code = "cancelled" -> Result("cancelled")
    [] code \in {"timeout", "spawn_failed"} -> Failed("retryable_failed", code)
    [] code = "version_incompatible" -> Failed("manual_action_required", code)
    [] OTHER -> Failed("permanently_failed", code)

Failure(code) ==
  CASE code = "cancelled" -> Result("cancelled")
    [] code \in {"timeout", "spawn_failed"} -> Failed("retryable_failed", code)
    [] code = "version_incompatible" -> Manual("version_incompatible")
    [] OTHER -> Failed("permanently_failed", code)

-----------------------------------------------------------------------------
Init ==
  /\ tabs \in [Targets -> Pages \cup {None}]
  /\ running \in BOOLEAN
  /\ verified = FALSE
  /\ pc = [e \in Executions |-> "idle"]
  /\ chosen = [e \in Executions |-> None]
  /\ result = [e \in Executions |-> None]
  /\ active = {}
  /\ told = [e \in Executions |-> None]
  /\ answers = [k \in Executions \X {"tabs", "snapshot"} |-> None]
  /\ tries = [e \in Executions |-> 0]
  /\ moves = 0

\* Faulty: the controller is forgotten only after a capture.
FinishForgetful(e, r) ==
  /\ pc' = [pc EXCEPT ![e] = "done"]
  /\ result' = [result EXCEPT ![e] = r]
  /\ active' = IF r.status = "completed" THEN active \ {e} ELSE active

Finish(e, r) ==
  /\ pc' = [pc EXCEPT ![e] = "done"]
  /\ result' = [result EXCEPT ![e] = r]
  /\ active' = active \ {e}

\* The worker captures an approved job, or tries it again.
Capture(e) ==
  /\ pc[e] \in {"idle", "done"} /\ tries[e] < MaxTries
  /\ pc' = [pc EXCEPT ![e] = IF verified THEN "tabs" ELSE "version"]
  /\ chosen' = [chosen EXCEPT ![e] = None]
  /\ result' = [result EXCEPT ![e] = None]
  /\ told' = [told EXCEPT ![e] = None]
  /\ active' = active \cup {e}
  /\ tries' = [tries EXCEPT ![e] = @ + 1]
  /\ UNCHANGED <<browser, verified, answers>>

Version(e) ==
  /\ pc[e] = "version"
  /\ verified' = TRUE
  /\ pc' = [pc EXCEPT ![e] = "tabs"]
  /\ UNCHANGED <<browser, chosen, result, active, told, answers, tries>>

\* The gateway may remember a key and answer a retry as it did before.
Answers(e, phase, fresh) == {fresh} \cup ({answers[<<e, phase>>]} \ {None})
Remember(e, phase, answer) ==
  answers' = [answers EXCEPT ![<<e, phase>>] = IF @ = None THEN answer ELSE @]

Listed == [running |-> running, open |-> {[target |-> t, url |-> tabs[t].url] : t \in {x \in Targets : tabs[x] # None}}]

NoTab(e, list) ==
  LET matching == {t \in list.open : Matches(e, t.url)}
  IN IF ~list.running \/ list.open = {} THEN "browser_profile_unavailable"
     ELSE IF matching = {} THEN
       LET prompts == {UrlBlocker(t.url) : t \in list.open} \ {None}
       IN IF Cardinality(list.open) = 1 /\ prompts # {} THEN CHOOSE b \in prompts : TRUE ELSE "active_url_mismatch"
     ELSE IF Cardinality(matching) # 1 THEN "user_intervention_required"
     ELSE None

Tabs(e) ==
  /\ pc[e] = "tabs"
  /\ \E list \in Answers(e, "tabs", Listed) :
       /\ Remember(e, "tabs", list)
       /\ IF NoTab(e, list) # None
          THEN Finish(e, Manual(NoTab(e, list))) /\ UNCHANGED chosen
          ELSE /\ \E t \in list.open : Matches(e, t.url) /\ chosen' = [chosen EXCEPT ![e] = t]
               /\ pc' = [pc EXCEPT ![e] = "snapshot"]
               /\ UNCHANGED <<result, active>>
  /\ UNCHANGED <<browser, verified, told, tries>>

\* Faulty: the snapshot is taken to be of the url that was listed.
OutcomeOfListed(e, target, page) ==
  IF target # chosen[e].target THEN Manual("stale_snapshot")
  ELSE IF SnapshotBlocker(page) # None THEN Manual(SnapshotBlocker(page))
  ELSE IF page.shows = "nothing" THEN Manual("layout_incompatible")
  ELSE Captured(chosen[e], page)

Outcome(e, target, page) ==
  IF target # chosen[e].target THEN Manual("stale_snapshot")
  ELSE IF ~Matches(e, page.url) THEN Manual("unexpected_redirect")
  ELSE IF SnapshotBlocker(page) # None THEN Manual(SnapshotBlocker(page))
  ELSE IF page.shows = "nothing" THEN Manual("layout_incompatible")
  ELSE Captured(chosen[e], page)

\* The snapshot is of the tab that was asked for, or of another when that one is gone.
Snapshot(e) ==
  /\ pc[e] = "snapshot"
  /\ \E t \in Targets :
       /\ tabs[t] # None /\ (tabs[chosen[e].target] # None => t = chosen[e].target)
       /\ \E s \in Answers(e, "snapshot", [target |-> t, page |-> tabs[t]]) :
            /\ Remember(e, "snapshot", s)
            /\ Finish(e, Outcome(e, s.target, s.page))
  /\ UNCHANGED <<browser, verified, chosen, told, tries>>

Fails(e, code) ==
  /\ pc[e] \in {"version", "tabs", "snapshot"}
  /\ Finish(e, Failure(code))
  /\ UNCHANGED <<browser, verified, chosen, told, answers, tries>>

Timeout(e) == Fails(e, "timeout")

ProcessFails(e) ==
  \E code \in {"spawn_failed", "output_limit", "response_rejected"} : pc[e] # "version" /\ Fails(e, code)

VersionFails(e) ==
  /\ pc[e] = "version"
  /\ \E code \in {"spawn_failed", "output_limit", "version_incompatible"} : Fails(e, code)

\* A cancellation aborts the process that runs, or finds none.
Cancel(e) ==
  /\ tries[e] > 0
  /\ IF e \in active
     THEN /\ told' = [told EXCEPT ![e] = "cancelled"]
          /\ IF pc[e] \in {"version", "tabs", "snapshot"} THEN Finish(e, Failure("cancelled"))
             ELSE UNCHANGED <<pc, result, active>>
     ELSE /\ told' = [told EXCEPT ![e] = IF @ = None THEN "already" ELSE @]
          /\ UNCHANGED <<pc, result, active>>
  /\ UNCHANGED <<browser, verified, chosen, answers, tries>>

(* The person. *)
Browse(t) ==
  /\ moves < MaxMoves /\ moves' = moves + 1
  /\ \E p \in Pages \cup {None} : p # tabs[t] /\ tabs' = [tabs EXCEPT ![t] = p]
  /\ UNCHANGED <<running, verified, pc, chosen, result, active, told, answers, tries>>

SwitchBrowser ==
  /\ moves < MaxMoves /\ moves' = moves + 1
  /\ running' = ~running
  /\ UNCHANGED <<tabs, verified, pc, chosen, result, active, told, answers, tries>>

Next ==
  \/ \E e \in Executions :
       \/ Capture(e) \/ Version(e) \/ Tabs(e) \/ Snapshot(e)
       \/ Timeout(e) \/ ProcessFails(e) \/ VersionFails(e) \/ Cancel(e)
  \/ \E t \in Targets : Browse(t)
  \/ SwitchBrowser

Spec == Init /\ [][Next]_vars

\* The runner arms a timer for every process it starts; nothing else is certain to end one.
FairSpec == Spec /\ \A e \in Executions : WF_vars(Timeout(e))

-----------------------------------------------------------------------------
(* Properties *)

\* A capture awaits one process, or is done with a result of the shape its
\* status demands (the refinement of BrowserCurrentTabCaptureResultSchema).
TypeOK ==
  /\ tabs \in [Targets -> Pages \cup {None}]
  /\ running \in BOOLEAN /\ verified \in BOOLEAN
  /\ moves \in 0 .. MaxMoves /\ tries \in [Executions -> 0 .. MaxTries]
  /\ told \in [Executions -> {None, "cancelled", "already"}]
  /\ \A e \in Executions :
       /\ pc[e] \in {"idle", "version", "tabs", "snapshot", "done"}
       /\ pc[e] = "snapshot" => chosen[e] # None
       /\ IF pc[e] = "done" THEN ValidResult(result[e]) ELSE result[e] = None

\* Whatever the person opens, closes or navigates between the list of tabs and
\* the snapshot, and even when the gateway repeats an answer, evidence is the
\* text of the approved listing, and not a blocker or another page's.
EvidenceIsTheListing ==
  \A e \in Executions :
    result[e] # None => (result[e].evidence # None =>
      result[e].evidence.text = Approved[e].listing /\ result[e].evidence.canonical = Approved[e].listing)

\* The text under a dialog is not captured, although the dialog opened after
\* the tab was listed and the text is the listing's.
DialogsAreNotCaptured ==
  [][\A e \in Executions :
       (pc[e] = "snapshot" /\ pc'[e] = "done" /\ result'[e].evidence # None /\ answers[<<e, "snapshot">>] = None)
         => ~tabs[chosen[e].target].dialog]_vars

\* A cancellation that says it stopped a capture stopped it: its result is
\* cancelled and stays so until it is tried again.
StoppedIsCancelled ==
  \A e \in Executions : told[e] = "cancelled" => pc[e] = "done" /\ result[e].status = "cancelled"
=============================================================================
