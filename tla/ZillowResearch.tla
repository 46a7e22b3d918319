--------------------------- MODULE ZillowResearch ---------------------------
(***************************************************************************)
(* The bounded Zillow tool of the browser gateway                          *)
(* (infra/maritime/openclaw/vera-zillow-rental-research): one run applies  *)
(* the filters of a saved profile to the shared tab, collects result       *)
(* cards, opens some of them and answers with listings.                    *)
(*                                                                         *)
(* Every browser operation takes four steps: the checkpoint allows the     *)
(* verification, the shared tabs are listed, the checkpoint allows the     *)
(* operation, the operation acts on the tab.  The user, who shares tabs,   *)
(* browses and cancels, and the page, which replaces its references and    *)
(* loses answers, move between any two of them.                            *)
(***************************************************************************)
EXTENDS Naturals, Sequences, FiniteSets

CONSTANTS Tabs,       \* stable tab references
          None,       \* no tab, no control
          Approved,   \* the tab the user approved, or None for "the one shared tab"
          Profile,    \* optional filters of the saved profile
          Layouts,    \* pages the run may start from
          MaxActions, \* browser actions of a run
          MaxResults, \* result cards asked for
          MaxDetails, \* details asked for
          MaxScrolls, \* result page expansions
          MaxFaults   \* bound: user changes and failures of the browser

ResearchBounds ==
  /\ None \notin Tabs /\ Approved \in Tabs \cup {None} /\ Profile \subseteq {"beds", "baths", "type"}
  /\ {MaxActions, MaxResults, MaxDetails, MaxScrolls, MaxFaults} \subseteq Nat

\* A layout says whether the filters are in one dialog, whether the panels have
\* an apply button, whether the page already shows the saved location, whether
\* cards come with their address, and which dialog was left open.
PageLayouts == [dialog : BOOLEAN, applies : BOOLEAN, located : BOOLEAN, links : BOOLEAN,
                left : {None, "close_more", "close_popover"}]

VARIABLES
  layout,    \* the page the run starts from
  kind,      \* what the shared tab shows: "result", "detail" or "off"
  shared,    \* tabs that are shared now
  cancelled, expired,
  tool,      \* the state of the running tool
  answer,    \* the output of the run, or None
  pressed,   \* control -> how often the page has executed it
  clicked,   \* card -> how often it was opened
  touched,   \* tabs the run has acted on
  late,      \* browser operations since the run was cancelled
  faults

vars == <<layout, kind, shared, cancelled, expired, tool, answer, pressed, clicked, touched, late, faults>>
user == <<layout, shared, cancelled, expired>>
ghosts == <<kind, pressed, clicked, touched>>

Controls == {"close_more", "close_popover", "location", "price", "price_max", "price_apply",
             "rooms", "beds", "baths", "rooms_apply", "home_type", "type", "type_apply",
             "filters", "filters_apply"}

-----------------------------------------------------------------------------
(* The steps of a run *)
Step(op, on) == [op |-> op, on |-> on, again |-> FALSE]
Look == <<Step("look", None)>>
Press(c) == <<Step("press", c)>>
Open(c) == <<Step("open", c)>> \o Look   \* activateControlAndObserve
Given(condition, steps) == IF condition THEN steps ELSE <<>>
Choice(c) == Given(c \in Profile, Press(c))

\* closeStaleMoreFilters, closeStaleRentalTypePopover
CloseSteps == Given(layout.left # None, Press(layout.left) \o Look)

LocationSteps == Given(~layout.located, Press("location") \o Look)

PriceSteps ==
  Open("price") \o Press("price_max") \o Given(layout.applies, Press("price_apply")) \o Look

\* applyRoomFiltersAndObserve is the last step
RoomSteps ==
  Given(Profile \cap {"beds", "baths"} # {},
        Open("rooms") \o Choice("beds") \o Choice("baths") \o Look
          \o (IF layout.applies THEN Open("rooms_apply") ELSE Look))

TypeSteps ==
  Given("type" \in Profile,
        Open("home_type") \o Press("type") \o Given(layout.applies, Press("type_apply")) \o Look)

\* applyConsolidatedFilters
DialogSteps ==
  Open("filters") \o Press("price_max") \o Choice("beds") \o Choice("baths") \o Choice("type")
    \o Look \o Press("filters_apply") \o Look

\* applySavedProfile
FilterSteps ==
  Look \o CloseSteps \o LocationSteps
    \o (IF layout.dialog THEN DialogSteps ELSE PriceSteps \o RoomSteps \o TypeSteps)

ScrollSteps == <<Step("scroll", None)>> \o Look
DetailSteps ==
  <<Step(IF layout.links THEN "visit" ELSE "pick", None), Step("look", "detail"),
    Step("return", None)>> \o Look

Init ==
  /\ layout \in Layouts /\ kind = "result" /\ shared \in {{t} : t \in Tabs}
  /\ cancelled = FALSE /\ expired = FALSE
  /\ tool = [phase |-> "filter", todo |-> FilterSteps, stage |-> "verify", attempt |-> 0,
             pinned |-> None, bound |-> None, page |-> None, used |-> 0, cards |-> 0, at |-> 0, opened |-> 0,
             scrolls |-> 0, listings |-> 0]
  /\ answer = None /\ pressed = [c \in Controls |-> 0] /\ clicked = [i \in 1..MaxResults |-> 0]
  /\ touched = {} /\ late = 0 /\ faults = 0

step == Head(tool.todo)
Running == answer = None
Fault == faults < MaxFaults /\ faults' = faults + 1

-----------------------------------------------------------------------------
(* How a run ends *)
Finish ==
  answer' = [state |-> IF tool'.listings < MaxResults THEN "partial" ELSE "completed",
             listings |-> tool'.listings]

\* safeFailureOutput
Fail(manual) ==
  /\ answer' = [state |-> IF manual THEN "manual_action_required"
                          ELSE IF tool.listings > 0 THEN "partial" ELSE "failed",
                listings |-> tool.listings]
  /\ UNCHANGED tool

-----------------------------------------------------------------------------
(* How a run goes on *)
Do(steps) == [tool EXCEPT !.todo = steps, !.stage = "verify", !.attempt = 0]
Then(t, steps) == [t EXCEPT !.todo = steps, !.stage = "verify", !.attempt = 0]

\* The next card is opened; when no detail may be opened any more the cards
\* whose address is known are listed as they are.
NextCard(t) ==
  IF t.at >= t.cards
  THEN tool' = Then(t, <<>>) /\ Finish
  ELSE IF t.opened < MaxDetails
  THEN tool' = [Then(t, DetailSteps) EXCEPT !.phase = "details"] /\ UNCHANGED answer
  ELSE tool' = [Then(t, <<>>) EXCEPT !.at = t.cards,
                  !.listings = t.listings + (IF layout.links THEN t.cards - t.at ELSE 0)]
       /\ Finish

\* Faulty: the page is scrolled as long as cards are missing.
ScrollOn(t, n) == n < MaxResults

MoreWanted(t, n) == n < MaxResults /\ t.scrolls < MaxScrolls

\* The cards of a result page are merged into those observed before.  The page
\* is scrolled again while cards are missing, unless its last card has no
\* reference.
Collect(t, n) ==
  LET seen == [t EXCEPT !.cards = n]
      more == MoreWanted(t, n)
  IN \/ /\ n > 0 /\ more /\ UNCHANGED <<answer, faults>>
        /\ tool' = [Then(seen, ScrollSteps) EXCEPT !.phase = "collect"]
     \/ n > 0 /\ ~more /\ NextCard(seen) /\ UNCHANGED faults
     \/ n > 0 /\ more /\ NextCard(seen) /\ Fault
     \/ n = 0 /\ Fail(TRUE) /\ UNCHANGED faults

\* The program goes on after the last step of a phase.
NextPhase(t) ==
  \/ t.phase = "filter" /\ kind # "result" /\ Fail(FALSE) /\ UNCHANGED faults
  \/ /\ t.phase = "collect" \/ (t.phase = "filter" /\ kind = "result")
     /\ \E n \in t.cards..MaxResults : Collect(t, n)
  \/ /\ t.phase = "details" /\ UNCHANGED faults
     /\ NextCard([t EXCEPT !.at = t.at + 1, !.listings = t.listings + 1])
  \/ /\ t.phase = "skip" /\ UNCHANGED faults
     /\ NextCard([t EXCEPT !.at = t.at + 1])

Continue(t) ==
  IF Len(t.todo) > 1
  THEN tool' = Then(t, Tail(t.todo)) /\ UNCHANGED <<answer, faults>>
  ELSE NextPhase(t)

\* Faulty: a click whose answer is lost is repeated.
RepeatOpen(rest) == tool' = Do(tool.todo) /\ UNCHANGED answer

\* A click whose answer is lost is never repeated: what it opens must be seen.
ProveOpen(rest) == tool' = Do(<<Step("look", step.on)>> \o rest) /\ UNCHANGED answer

\* browser_offline and browser_action_timeout_ambiguous
Lost(manual) ==
  CASE step.op \in {"look", "refresh"} /\ tool.attempt = 0 ->
         tool' = [tool EXCEPT !.stage = "verify", !.attempt = 1] /\ UNCHANGED answer
    [] step.op = "open" -> ProveOpen(Tail(Tail(tool.todo)))
    [] step.op = "refresh" /\ tool.attempt = 1 /\ tool.todo[2].op = "open" ->
         ProveOpen(Tail(Tail(Tail(tool.todo))))
    [] OTHER -> Fail(manual)

\* An unknown reference proves that the click was not executed: the references
\* are refreshed and the same control is tried once more.  A card that is stale
\* twice is skipped.
Stale ==
  IF ~step.again /\ step.op \in {"open", "press", "pick"}
  THEN tool' = Do(<<Step("refresh", step.on), [step EXCEPT !.again = TRUE]>> \o Tail(tool.todo))
       /\ UNCHANGED answer
  ELSE IF step.op = "pick"
  THEN tool' = [Do(Look) EXCEPT !.phase = "skip"] /\ UNCHANGED answer
  ELSE Fail(FALSE)

-----------------------------------------------------------------------------
(* The four steps of a browser operation *)

\* Faulty: the last action of the budget is allowed once more.
BeyondBounds == expired \/ tool.used > MaxActions

\* checkDeadline
OutOfBounds == expired \/ tool.used >= MaxActions

\* authorizeAction, when it does not allow: the run is cancelled, the limits are
\* reached, or the checkpoint does not answer.
Refuse ==
  \/ cancelled /\ ~OutOfBounds /\ Fail(TRUE) /\ UNCHANGED faults
  \/ OutOfBounds /\ Fail(FALSE) /\ UNCHANGED faults
  \/ Fault /\ Fail(FALSE)

Verify ==
  /\ Running /\ tool.stage = "verify"
  /\ \/ Refuse
     \/ /\ ~cancelled /\ ~OutOfBounds /\ tool' = [tool EXCEPT !.stage = "tabs"]
        /\ UNCHANGED <<answer, faults>>
  /\ UNCHANGED <<user, ghosts, late>>

Counted == late' = late + (IF cancelled THEN 1 ELSE 0)

\* Faulty: the tab is verified against the current sharing only.
MatchesAny(t) == TRUE

\* startingReferenceMatches, pinnedConsentTabReference
Matches(t) ==
  IF tool.pinned = None THEN Approved \in {None, t} ELSE tool.pinned = t

\* prepareBrowserAction: the tab must be the only shared one, the one of before,
\* and on the site.
ListTabs ==
  /\ Running /\ tool.stage = "tabs" /\ Counted
  /\ \/ /\ shared \in {{t} : t \in Tabs}
        /\ \E t \in shared :
             IF ~Matches(t) THEN Fail(TRUE)
             ELSE IF kind = "off" THEN Fail(FALSE)
             ELSE /\ tool' = [tool EXCEPT !.used = tool.used + 1, !.pinned = t,
                                          !.page = kind, !.stage = "authorize"]
                  /\ UNCHANGED answer
        /\ UNCHANGED faults
     \/ Cardinality(shared) # 1 /\ Fail(TRUE) /\ UNCHANGED faults
     \/ Fault /\ Lost(TRUE)
  /\ UNCHANGED <<user, ghosts>>

\* Faulty: only the verification of the tab is authorized.
AuthorizeOnce ==
  /\ Running /\ tool.stage = "authorize"
  /\ tool' = [tool EXCEPT !.stage = "act"]
  /\ UNCHANGED <<user, ghosts, late, faults, answer>>

\* checkZillowResearchAction binds the first tab of a run that was approved for
\* the one shared tab.
Binds == Approved # None \/ tool.bound \in {None, tool.pinned}

Authorize ==
  /\ Running /\ tool.stage = "authorize"
  /\ \/ Refuse
     \/ ~Binds /\ Fail(FALSE) /\ UNCHANGED faults
     \/ /\ ~cancelled /\ ~OutOfBounds /\ Binds
        /\ tool' = [tool EXCEPT !.stage = "act", !.bound = tool.pinned]
        /\ UNCHANGED <<answer, faults>>
  /\ UNCHANGED <<user, ghosts, late>>

Acting(ops) == Running /\ tool.stage = "act" /\ step.op \in ops /\ Counted
Reaches == tool.pinned \in shared
Touch == touched' = touched \cup {tool.pinned}
Spent == [tool EXCEPT !.used = tool.used + 1]

\* Faulty: any snapshot is taken as proof of a click whose answer was lost.
ShownAlways(c) == TRUE

\* What the predicate of a snapshot asks for: the panel that a click opens, or
\* a detail page.
Shown(c) == CASE c = None -> TRUE
              [] c = "detail" -> kind = "detail"
              [] OTHER -> pressed[c] > 0

\* takeSnapshot
TakeSnapshot ==
  /\ Acting({"look"}) /\ Reaches /\ Touch /\ kind \in {"off", tool.page}
  /\ IF kind = "off" THEN Fail(FALSE) /\ UNCHANGED faults
     ELSE IF ~Shown(step.on)
     THEN (\E manual \in BOOLEAN : Fail(manual \/ step.on = "detail")) /\ UNCHANGED faults
     ELSE Continue([Spent EXCEPT !.opened = tool.opened + (IF step.on = "detail" THEN 1 ELSE 0)])
  /\ UNCHANGED <<user, kind, pressed, clicked>>

\* refreshedControl: the control must be there, and once.
Refresh ==
  /\ Acting({"refresh"}) /\ Reaches /\ Touch /\ kind \in {"off", tool.page}
  /\ \/ kind # "off" /\ Continue(Spent)
     \/ Fault /\ Fail(TRUE)
     \/ kind = "off" /\ Fail(FALSE) /\ UNCHANGED faults
  /\ UNCHANGED <<user, kind, pressed, clicked>>

\* The address changed since the tabs were listed: one more try.
SnapshotOfAnotherPage ==
  /\ Acting({"look", "refresh"}) /\ Reaches /\ Touch /\ kind # "off"
  /\ (kind # tool.page /\ UNCHANGED faults) \/ Fault
  /\ IF tool.attempt = 0
     THEN tool' = [Spent EXCEPT !.stage = "verify", !.attempt = 1] /\ UNCHANGED answer
     ELSE Fail(TRUE)
  /\ UNCHANGED <<user, kind, pressed, clicked>>

\* parseZillowSnapshot: a login, a captcha or another blocker
Blocked ==
  /\ Acting({"look", "refresh"}) /\ Reaches /\ Touch /\ Fault /\ Fail(TRUE)
  /\ UNCHANGED <<user, kind, pressed, clicked>>

Execute ==
  IF step.op \in {"press", "open"}
  THEN pressed' = [pressed EXCEPT ![step.on] = @ + 1] /\ UNCHANGED clicked
  ELSE IF step.op \in {"pick", "visit"}
  THEN clicked' = [clicked EXCEPT ![tool.at + 1] = @ + 1] /\ UNCHANGED pressed
  ELSE UNCHANGED <<pressed, clicked>>
Lands == kind' = CASE step.op \in {"pick", "visit"} -> "detail"
                   [] step.op = "return" -> "result"
                   [] OTHER -> kind

\* A control of the result page is there only while the tab shows that page.
OnPage == step.op \in {"visit", "return"} \/ kind = "result"

PostKinds == {"press", "open", "pick", "visit", "return", "scroll"}

\* activateControlOnce, activateObservedListing, navigateToObserved,
\* scrollToObservedResult
Act ==
  /\ Acting(PostKinds) /\ Reaches /\ OnPage /\ Touch /\ Execute /\ Lands
  /\ Continue([Spent EXCEPT !.scrolls = tool.scrolls + (IF step.op = "scroll" THEN 1 ELSE 0)])
  /\ UNCHANGED user

ActIsStale ==
  /\ Acting({"press", "open", "pick"}) /\ Reaches /\ Stale
  /\ (~OnPage /\ UNCHANGED faults) \/ Fault
  /\ UNCHANGED <<user, ghosts>>

\* The click is executed or not, and the tool does not learn which.
ActIsLost ==
  /\ Acting(PostKinds) /\ Reaches /\ OnPage /\ Touch /\ Fault
  /\ \/ Execute /\ Lands
     \/ UNCHANGED <<pressed, clicked, kind>>
  /\ \E manual \in BOOLEAN : Lost(manual)
  /\ UNCHANGED user

\* Another answer of the browser: a redirect, a forbidden control, no such tab.
ActFails ==
  /\ Acting(PostKinds) /\ ((~(Reaches /\ OnPage) /\ UNCHANGED faults) \/ Fault)
  /\ Fail(step.op \in {"pick", "visit", "return"})
  /\ UNCHANGED <<user, ghosts>>

LookFails ==
  /\ Acting({"look", "refresh"}) /\ ((~Reaches /\ UNCHANGED faults) \/ Fault)
  /\ Lost(TRUE)
  /\ UNCHANGED <<user, ghosts>>

ToolStep ==
  \/ Verify \/ ListTabs \/ Authorize
  \/ TakeSnapshot \/ Refresh \/ SnapshotOfAnotherPage \/ Blocked \/ LookFails
  \/ Act \/ ActIsStale \/ ActIsLost \/ ActFails

-----------------------------------------------------------------------------
(* The user and the clock *)
Share(t) ==
  /\ Running /\ Fault /\ shared' = (shared \cup {t}) \ (shared \cap {t})
  /\ UNCHANGED <<layout, cancelled, expired, kind, tool, answer, pressed, clicked, touched, late>>

Wander ==
  /\ Running /\ Fault /\ \E k \in {"result", "detail", "off"} \ {kind} : kind' = k
  /\ UNCHANGED <<user, tool, answer, pressed, clicked, touched, late>>

Cancel ==
  /\ Running /\ ~cancelled /\ MaxFaults > 0 /\ cancelled' = TRUE
  /\ UNCHANGED <<layout, shared, expired, kind, tool, answer, pressed, clicked, touched, late, faults>>

Expire ==
  /\ Running /\ ~expired /\ MaxFaults > 0 /\ expired' = TRUE
  /\ UNCHANGED <<layout, shared, cancelled, kind, tool, answer, pressed, clicked, touched, late, faults>>

Next == ToolStep \/ (\E t \in Tabs : Share(t)) \/ Wander \/ Cancel \/ Expire

Spec == Init /\ [][Next]_vars

-----------------------------------------------------------------------------
(* Properties *)

TypeOK ==
  /\ layout \in PageLayouts /\ kind \in {"result", "detail", "off"} /\ shared \subseteq Tabs
  /\ {cancelled, expired} \subseteq BOOLEAN
  /\ tool.stage \in {"verify", "tabs", "authorize", "act"} /\ {tool.pinned, tool.bound} \subseteq Tabs \cup {None}
  /\ tool.used \in Nat /\ tool.cards \in 0..MaxResults
  /\ tool.opened \in 0..MaxDetails /\ tool.scrolls \in 0..MaxScrolls
  /\ tool.listings \in 0..MaxResults
  /\ pressed \in [Controls -> Nat] /\ clicked \in [1..MaxResults -> Nat] /\ touched \subseteq Tabs /\ {late, faults} \subseteq Nat

\* However answers are lost and references replaced, the page executes no
\* control and opens no card twice (activateControl, activateControlAndObserve,
\* activateObservedListingWithFreshRetry).
ClickedOnce ==
  (\A c \in Controls : pressed[c] <= 1) /\ (\A i \in 1..MaxResults : clicked[i] <= 1)

\* The browser performs no more actions than a run may take, since both
\* requests of an operation are checked against the limit (checkDeadline).
BudgetKept == tool.used <= MaxActions

\* A run acts on one tab, whatever the user shares meanwhile.
OnePinnedTab == Cardinality(touched) <= 1

\* After the run is cancelled at most the operation that was already allowed
\* reaches the browser (authorizeAction before each of the two requests).
StopsWhenCancelled == late <= 1

\* A run that collects cards has set every filter of the profile: a click that
\* was lost or stale is never passed over.
CardsAreFiltered ==
  tool.cards > 0 =>
    /\ \A c \in Profile \cup {"price_max"} : pressed[c] > 0
    /\ layout.located \/ pressed["location"] > 0
    /\ layout.dialog => pressed["filters_apply"] > 0
    /\ ~layout.dialog /\ layout.applies
       => /\ pressed["price_apply"] > 0
          /\ Profile \cap {"beds", "baths"} # {} => pressed["rooms_apply"] > 0

\* A run that meets no failure lists every card it has observed, so far as it
\* knows the card's address: the actions of a run suffice for its longest
\* program (MAX_BROWSER_ACTIONS against applySavedProfile and the details).
EveryCardIsListed ==
  answer # None /\ answer.state # "manual_action_required" /\ faults = 0
    => answer.listings = IF layout.links \/ tool.cards <= MaxDetails THEN tool.cards
                         ELSE MaxDetails
=============================================================================
