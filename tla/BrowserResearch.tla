-------------------------- MODULE BrowserResearch --------------------------
(***************************************************************************)
(* The bounded research tool for the other rental sources                  *)
(* (infra/maritime/openclaw/vera-browser-research) under one signed plan:  *)
(* a discovery that sets the filters of a source, collects cards and opens *)
(* details, the enrichment of one listing, or the capture of the page that *)
(* is shown.  Every operation lists the shared tabs and acts on the one it *)
(* finds; the checkpoint of the server allows both requests.               *)
(*                                                                         *)
(* Reads are tried again after a short wait when the connection fails; a   *)
(* read here stands for all its tries.  No other request is repeated.      *)
(***************************************************************************)
EXTENDS Naturals, Sequences, FiniteSets

CONSTANTS Tabs,       \* stable tab references
          None,       \* no tab, no answer
          Source,     \* "apartments_com", "facebook_marketplace" or "configured"
          Mode,       \* "discovery", "enrichment" or "current_page"
          Profile,    \* optional filters of the saved profile
          MaxActions, MaxResults, MaxDetails, \* limits of the plan
          MaxFaults   \* bound: user changes and failures of the browser

PlanBounds ==
  /\ None \notin Tabs /\ Source \in {"apartments_com", "facebook_marketplace", "configured"}
  /\ Mode \in {"discovery", "enrichment", "current_page"} /\ Profile \subseteq {"baths", "type"}
  /\ {MaxActions, MaxResults, MaxDetails, MaxFaults} \subseteq Nat /\ MaxResults > 0
  /\ Mode # "discovery" => MaxResults = 1

Result == [kind |-> "result", of |-> 0]
Other == [kind |-> "other", of |-> 0]                \* elsewhere on an allowed site
Off == [kind |-> "off", of |-> 0]                    \* another site
Detail(i) == [kind |-> "detail", of |-> i]
Pages == {Result, Other, Off} \cup {Detail(i) : i \in 0..MaxResults}  \* 0: a stranger's listing

VARIABLES
  page,      \* what the shared tab shows
  shared,    \* tabs that are shared now
  cancelled, expired,
  tool,      \* the state of the running tool
  answer,    \* the output of the run, or None
  pressed,   \* control -> how often the page has executed it
  touched,   \* tabs the run has acted on
  late,      \* browser operations since the run was cancelled
  faults

vars == <<page, shared, cancelled, expired, tool, answer, pressed, touched, late, faults>>
user == <<shared, cancelled, expired>>
ghosts == <<page, pressed, touched>>

Controls == {"price", "maximum", "price_done", "beds_baths", "beds", "baths_panel", "baths",
             "done", "all_filters", "type_panel", "type", "results"}

-----------------------------------------------------------------------------
(* The steps of a plan *)
Step(op, of) == [op |-> op, on |-> None, of |-> of]
Look == <<Step("look", 0)>>
Press(c) == <<[op |-> "press", on |-> c, of |-> 0]>> \o Look
Given(condition, steps) == IF condition THEN steps ELSE <<>>

\* applyApartmentsFilters
ApartmentsSteps ==
  Press("price") \o Press("maximum") \o Press("price_done")
    \o Press("beds_baths") \o Press("beds") \o Given("baths" \in Profile, Press("baths"))
    \o Press("done")
    \o Given("type" \in Profile, Press("all_filters") \o Press("type") \o Press("results"))

\* applyFacebookFilters
FacebookSteps ==
  Press("maximum") \o Press("beds_baths") \o Press("beds")
    \o Given("baths" \in Profile, Press("baths_panel") \o Press("baths"))
    \o Given("type" \in Profile, Press("type_panel") \o Press("type"))

DiscoverySteps ==
  <<Step("navigate", 0)>> \o Look
    \o Given(Source = "apartments_com", ApartmentsSteps)
    \o Given(Source = "facebook_marketplace", FacebookSteps)
    \o Look

EnrichmentSteps == <<Step("navigate", 1), Step("facts", 1), Step("extract", 0)>>
CaptureSteps == <<Step("facts", 1), Step("extract", 0)>>
ScrollSteps == <<Step("scroll", 0)>> \o Look
ExtractSteps == <<Step("extract", 0)>>
DetailSteps(i) == <<Step("open", i), Step("facts", i), Step("return", 0)>>

Init ==
  /\ page \in {Result, Other} \cup {Detail(i) : i \in 0..1}
  /\ shared \in {{t} : t \in Tabs} /\ cancelled = FALSE /\ expired = FALSE
  /\ tool = [phase |-> Mode, stage |-> "inspect", pinned |-> None, at |-> page, used |-> 0,
             trail |-> 0, cards |-> 0, listed |-> 0, opened |-> 0, scrolls |-> 0, read |-> Result,
             todo |-> CASE Mode = "discovery" -> DiscoverySteps
                        [] Mode = "enrichment" -> EnrichmentSteps
                        [] Mode = "current_page" -> CaptureSteps]
  /\ answer = None /\ pressed = [c \in Controls |-> 0] /\ touched = {} /\ late = 0 /\ faults = 0

step == Head(tool.todo)
Running == answer = None
Fault == faults < MaxFaults /\ faults' = faults + 1
NoFault == UNCHANGED faults

-----------------------------------------------------------------------------
(* How a run ends *)
Answer(state, t) == answer' = [state |-> state, listings |-> t.listed, trail |-> t.trail]

\* failure: the trail is cut to the limit of the plan.
FailWith(t, manual) ==
  /\ tool' = [t EXCEPT !.trail = IF t.trail < MaxActions THEN t.trail ELSE MaxActions]
  /\ Answer(IF manual THEN "manual_action_required"
            ELSE IF t.listed > 0 THEN "partial" ELSE "failed", tool')

Fail(manual) == FailWith(tool, manual)

\* validateResearchOutput refuses a trail that is longer than the plan allows.
Finish(t) ==
  IF t.trail > MaxActions THEN FailWith(t, FALSE)
  ELSE /\ tool' = [t EXCEPT !.todo = <<>>]
       /\ Answer(IF t.listed = 0 THEN "no_results"
                 ELSE IF t.listed < MaxResults
                         \/ t.opened < (IF MaxDetails < t.cards THEN MaxDetails ELSE t.cards)
                 THEN "partial" ELSE "completed", t)

-----------------------------------------------------------------------------
(* How a run goes on *)
Then(t, steps) == [t EXCEPT !.todo = steps, !.stage = "inspect"]
Goes(t) == tool' = t /\ UNCHANGED answer

HasActionBudget(t, needed) == t.used + needed <= MaxActions

NextDetail(t) ==
  IF t.opened < t.listed /\ t.opened < MaxDetails /\ HasActionBudget(t, 6)
  THEN Goes([Then(t, DetailSteps(t.opened + 1)) EXCEPT !.phase = "details"])
  ELSE Finish(t)

\* Faulty: scrolling has no bound.
MayScrollOn(t, n) == n < MaxResults /\ HasActionBudget(t, 4)

MayScroll(t, n) == n < MaxResults /\ t.scrolls < 2 /\ HasActionBudget(t, 4)

\* Cards are merged; the page is scrolled until there are enough of them, none
\* is new, or the last one has no reference.
Collect(t, n) ==
  LET seen == [t EXCEPT !.cards = n]
      scroll == MayScroll(t, n)
      fresh == t.phase = "discovery" \/ n > t.cards
  IN \/ n > 0 /\ scroll /\ fresh /\ NoFault
        /\ Goes([Then(seen, ScrollSteps) EXCEPT !.phase = "collect"])
     \/ (n = 0 \/ ~scroll \/ ~fresh) /\ NoFault
        /\ Goes([Then(seen, ExtractSteps) EXCEPT !.phase = "extract"])
     \/ n > 0 /\ scroll /\ fresh /\ Fault
        /\ Goes([Then(seen, ExtractSteps) EXCEPT !.phase = "extract"])

NextPhase(t) ==
  \/ /\ t.phase \in {"discovery", "collect"}
     /\ \E n \in t.cards..MaxResults :
          IF Source = "configured" /\ t.phase = "discovery" /\ n < 2 /\ MaxResults > 1
          THEN FailWith(t, TRUE) /\ NoFault
          ELSE Collect(t, n)
  \/ t.phase = "extract" /\ NextDetail([t EXCEPT !.listed = t.cards]) /\ NoFault
  \/ t.phase = "details" /\ NextDetail([t EXCEPT !.opened = t.opened + 1]) /\ NoFault
  \/ t.phase \in {"enrichment", "current_page"} /\ NoFault
     /\ Finish([t EXCEPT !.listed = 1, !.cards = 1, !.opened = MaxDetails])

Continue(t) ==
  IF Len(t.todo) > 1 THEN Goes(Then(t, Tail(t.todo))) /\ NoFault ELSE NextPhase(t)

-----------------------------------------------------------------------------
(* The requests of an operation *)

\* Faulty: the last action of the plan is allowed once more.
BeyondBounds == expired \/ tool.used > MaxActions

\* elapsed, and the limits the checkpoint tests
OutOfBounds == expired \/ tool.used >= MaxActions

\* authorize, when it does not allow
Refuse ==
  \/ cancelled /\ ~OutOfBounds /\ Fail(TRUE) /\ NoFault
  \/ OutOfBounds /\ Fail(FALSE) /\ NoFault
  \/ Fault /\ Fail(FALSE)

Allowed == ~cancelled /\ ~OutOfBounds

Inspect ==
  /\ Running /\ tool.stage = "inspect" /\ step.op # "extract"
  /\ \/ Refuse
     \/ Allowed /\ Goes([tool EXCEPT !.stage = "tabs"]) /\ NoFault
  /\ UNCHANGED <<user, ghosts, late>>

\* extract_observed_facts: an authorization without a browser operation
Extract ==
  /\ Running /\ tool.stage = "inspect" /\ step.op = "extract"
  /\ \/ Refuse
     \/ Allowed /\ Continue([tool EXCEPT !.trail = tool.trail + 1])
  /\ UNCHANGED <<user, ghosts, late>>

Counted == late' = late + (IF cancelled THEN 1 ELSE 0)

\* Faulty: the tab is matched with the plan only.
MatchesAny(t) == TRUE

\* A plan for the one shared tab binds the first tab it finds (pinnedTab).
Matches(t) == tool.pinned \in {None, t}

Inspected(t) ==
  Goes([tool EXCEPT !.used = tool.used + 1, !.pinned = t, !.at = page, !.stage = "authorize"])

ListTabs ==
  /\ Running /\ tool.stage = "tabs" /\ Counted
  /\ \/ /\ shared \in {{t} : t \in Tabs} /\ NoFault
        /\ \E t \in shared :
             IF page = Off \/ ~Matches(t) THEN Fail(TRUE) ELSE Inspected(t)
     \/ Cardinality(shared) # 1 /\ Fail(TRUE) /\ NoFault
     \/ Fault /\ Fail(TRUE)
  /\ UNCHANGED <<user, ghosts>>

\* Faulty: the checkpoint is asked once per operation.
AuthorizeOnce ==
  /\ Running /\ tool.stage = "authorize"
  /\ Goes([tool EXCEPT !.stage = "act", !.trail = tool.trail + 1])
  /\ UNCHANGED <<user, ghosts, late, faults>>

Authorize ==
  /\ Running /\ tool.stage = "authorize"
  /\ \/ Refuse
     \/ Allowed /\ Goes([tool EXCEPT !.stage = "act", !.trail = tool.trail + 1]) /\ NoFault
  /\ UNCHANGED <<user, ghosts, late>>

Acting(ops) == Running /\ tool.stage = "act" /\ step.op \in ops /\ Counted
Reaches == tool.pinned \in shared
Touch == touched' = touched \cup {tool.pinned}
Done == [tool EXCEPT !.used = tool.used + 1, !.trail = tool.trail + 1]

\* snapshot, and the facts that are read from a detail page
Snapshot ==
  /\ Acting({"look", "facts"}) /\ Reaches /\ Touch
  /\ IF page \in {Off, Other} \/ (step.op = "facts" /\ page.kind # "detail")
     THEN Fail(FALSE) /\ NoFault
     ELSE \/ Continue(IF step.op = "facts" THEN [Done EXCEPT !.read = page] ELSE Done)
          \/ Fault /\ Fail(TRUE)             \* a blocker, or another target
  /\ UNCHANGED <<user, page, pressed>>

\* navigate: a discovery does not load the page it is already on.
StayOnPage ==
  /\ Acting({"navigate"}) /\ Mode = "discovery" /\ tool.at = Result
  /\ Continue([tool EXCEPT !.trail = tool.trail + 1])
  /\ UNCHANGED <<user, ghosts>>

Navigate ==
  /\ Acting({"navigate", "open", "return"}) /\ Reaches /\ Touch
  /\ step.op = "navigate" => Mode # "discovery" \/ tool.at # Result
  /\ page' = IF step.of = 0 THEN Result ELSE Detail(step.of)
  /\ Continue(Done)
  /\ UNCHANGED <<user, pressed>>

Presses(c) == [pressed EXCEPT ![c] = @ + 1]
OnResults == Reaches /\ page.kind = "result"

\* activate, scrollToObservedCandidate
Activate ==
  /\ Acting({"press", "scroll"}) /\ OnResults /\ Touch
  /\ pressed' = IF step.op = "scroll" THEN pressed ELSE Presses(step.on)
  /\ Continue([Done EXCEPT !.scrolls = tool.scrolls + (IF step.op = "scroll" THEN 1 ELSE 0)])
  /\ UNCHANGED <<user, page>>

PostKinds == {"navigate", "open", "return", "press", "scroll"}

\* Faulty: a click whose answer is lost is repeated.
PostAgain ==
  /\ Acting({"press"}) /\ OnResults /\ Fault
  /\ pressed' = Presses(step.on) /\ Goes(Then(tool, tool.todo))
  /\ UNCHANGED <<user, page, touched>>

\* browserPost fails: the request is executed or not, and not repeated.
PostIsLost ==
  /\ Acting(PostKinds)
  /\ \/ (~Reaches \/ (step.op \in {"press", "scroll"} /\ ~OnResults)) /\ NoFault
     \/ Fault
  /\ pressed' \in {pressed} \cup {Presses(c) : c \in {step.on} \cap (IF OnResults THEN Controls ELSE {})}
  /\ \E manual \in BOOLEAN : Fail(manual)
  /\ UNCHANGED <<user, page, touched>>

\* browserGet: browser_offline, after its last try
ReadIsLost ==
  /\ Acting({"look", "facts"})
  /\ \/ ~Reaches /\ NoFault
     \/ Fault
  /\ Fail(TRUE)
  /\ UNCHANGED <<user, ghosts>>

ToolStep ==
  \/ Inspect \/ ListTabs \/ Authorize \/ Extract
  \/ Snapshot \/ StayOnPage \/ Navigate \/ Activate \/ PostIsLost \/ ReadIsLost

-----------------------------------------------------------------------------
(* The user and the clock *)
Share(t) ==
  /\ Running /\ Fault /\ shared' = (shared \cup {t}) \ (shared \cap {t})
  /\ UNCHANGED <<page, cancelled, expired, tool, answer, pressed, touched, late>>

\* The user opens another page, or the site redirects.
Wander ==
  /\ Running /\ Fault /\ \E p \in Pages \ {page} : page' = p
  /\ UNCHANGED <<user, tool, answer, pressed, touched, late>>

Cancel ==
  /\ Running /\ ~cancelled /\ MaxFaults > 0 /\ cancelled' = TRUE
  /\ UNCHANGED <<page, shared, expired, tool, answer, pressed, touched, late, faults>>

Expire ==
  /\ Running /\ ~expired /\ MaxFaults > 0 /\ expired' = TRUE
  /\ UNCHANGED <<page, shared, cancelled, tool, answer, pressed, touched, late, faults>>

Next == ToolStep \/ (\E t \in Tabs : Share(t)) \/ Wander \/ Cancel \/ Expire

Spec == Init /\ [][Next]_vars

-----------------------------------------------------------------------------
(* Properties *)

TypeOK ==
  /\ page \in Pages /\ shared \subseteq Tabs /\ {cancelled, expired} \subseteq BOOLEAN
  /\ tool.stage \in {"inspect", "tabs", "authorize", "act"} /\ tool.pinned \in Tabs \cup {None}
  /\ {tool.at, tool.read} \subseteq Pages /\ tool.cards \in 0..MaxResults
  /\ tool.listed \in 0..MaxResults /\ tool.opened \in 0..MaxDetails /\ tool.scrolls \in 0..2
  /\ {tool.used, tool.trail, late, faults} \subseteq Nat
  /\ pressed \in [Controls -> Nat] /\ touched \subseteq Tabs

\* No filter is toggled twice, although answers of the browser are lost: only
\* reads are tried again (browserGet, browserPost).
ClickedOnce == \A c \in Controls : pressed[c] <= 1

\* A run acts on one tab, whatever the user shares meanwhile (prepare).
OnePinnedTab == Cardinality(touched) <= 1

\* After the run is cancelled at most the operation that was already allowed
\* reaches the browser (authorize before each request).
StopsWhenCancelled == late <= 1

\* The browser never performs more actions than the plan allows (elapsed), and
\* the answer never tells of more (validateResearchOutput).
PlanIsKept == tool.used <= MaxActions /\ (answer # None => answer.trail <= MaxActions)

\* A run that meets no failure reports every card it has observed: the limit
\* on actions takes away details only (hasActionBudget).
ObservedCardsAreReported ==
  answer # None /\ faults = 0 /\ ~expired /\ answer.state # "manual_action_required"
    => answer.listings = tool.cards
=============================================================================
