----------------------------- MODULE MCResearch -----------------------------
(***************************************************************************)
(* Rental research on small instances: the runs of the web process, the    *)
(* tools that browse for them in the user's Chrome, the status the page is *)
(* shown, and the cards and pages of the listings that were found.  In     *)
(* this run they share no state, so part names the component that moves    *)
(* and the others stay as they started.                                    *)
(***************************************************************************)
EXTENDS ResearchRuns, TLC

CONSTANT None  \* no tab, no answer, no listing

VARIABLES
  part, \* the component that moves in this behaviour
  retriesPost, retriesOp, retriesJob, retriesLog, retriesImports, retriesListing, retriesDue,
  retriesStop, retriesLate, retriesCrashes,  \* Retries
  turnPost, turnOp, turnJob, turnLog, turnImports, turnListing, turnDue, turnStop, turnLate,
  turnCrashes,  \* InTurn
  layout, kind, shared, cancelled, expired, tool, answer, pressed, clicked, touched,
  zillowToolLate, faults,  \* ZillowTool
  calmLayout, calmKind, calmShared, calmCancelled, calmExpired, calmTool, calmAnswer,
  calmPressed, calmClicked, calmTouched, calmLate, calmFaults,  \* Calm
  spentLayout, spentKind, spentShared, spentCancelled, spentExpired, spentTool, spentAnswer,
  spentPressed, spentClicked, spentTouched, spentLate, spentFaults,  \* Spent
  page, browserToolShared, browserToolCancelled, browserToolExpired, browserToolTool,
  browserToolAnswer, browserToolPressed, browserToolTouched, browserToolLate, browserToolFaults,  \* BrowserTool
  marketplacePage, marketplaceShared, marketplaceCancelled, marketplaceExpired,
  marketplaceTool, marketplaceAnswer, marketplacePressed, marketplaceTouched, marketplaceLate,
  marketplaceFaults,  \* Marketplace
  apartmentsPage, apartmentsShared, apartmentsCancelled, apartmentsExpired, apartmentsTool,
  apartmentsAnswer, apartmentsPressed, apartmentsTouched, apartmentsLate, apartmentsFaults,  \* Apartments
  pagePage, pageShared, pageCancelled, pageExpired, pageTool, pageAnswer, pagePressed,
  pageTouched, pageLate, pageFaults,  \* Page
  step, out, statusJob, found, fin, fail, ended, scored, read, shown, stopped,  \* Status
  marketStep, marketOut, marketJob, marketFound, marketFin, marketFail, marketEnded,
  marketScored, marketRead, marketShown, marketStopped,  \* Market
  cardsRun, cardsListing, cardsMember, cardsScores, cardsRisks, cardsRuled, cardsSnapshot,
  cardsReader,  \* Summaries
  detailRun, detailListing, detailMember, detailScores, detailRisks, detailRuled,
  detailSnapshot, detailReader,  \* Detail
  list, query  \* Views

OneRun == [p \in Posts |-> "r1"]
NoRetry == [r \in Runs |-> r]
JustZillow == <<"zillow">>

\* Pages a run may start from; most properties tell few of them apart.
AllLayouts == [dialog : BOOLEAN, applies : BOOLEAN, located : BOOLEAN, links : BOOLEAN,
               left : {None, "close_more", "close_popover"}]
LikelyLayouts == {l \in AllLayouts : l.left = None /\ l.located /\ l.applies /\ l.links}
FirstLayout == CHOOSE l \in LikelyLayouts : TRUE

(* A good home, one without a total, an excluded one, one of an older       *)
(* answer whose draft was rejected, and one that is archived.               *)
Home(state, eligible, fit, rent, fees, severity, risky) ==
  [state |-> state, eligible |-> eligible, fit |-> fit, rent |-> rent, fees |-> fees,
   severity |-> severity, risks |-> risky, fresh |-> 1, unknown |-> 0, duplicates |-> 0,
   sources |-> {"zillow"}]
Homes == {
  Home("new", "yes", 2, 2, 0, None, 0),
  [Home("new", "yes", 1, 1, None, "low", 1) EXCEPT !.unknown = 1, !.fresh = 2],
  [Home("new", "no", 3, 1, 1, "high", 2) EXCEPT !.duplicates = 1, !.sources = {"zillow", "rentcast"}],
  [Home("draft_rejected", "undefined", None, None, 0, "high", 1) EXCEPT !.fresh = 3, !.unknown = 2],
  Home("dismissed", None, None, 3, 1, "info", 1)}

Retries == INSTANCE ResearchRuns WITH
  Posts <- 1 .. 3, Runs <- 1 .. 3, RunOf <- [p \in 1 .. 3 |-> p],
  RetryOf <- [r \in 1 .. 3 |-> 1], RentCast <- TRUE, Browser <- <<>>, Listings <- {"l1"},
  CanStop <- FALSE, MaxCrashes <- 1, post <- retriesPost, op <- retriesOp, job <- retriesJob,
  log <- retriesLog, imports <- retriesImports, listing <- retriesListing, due <- retriesDue,
  stop <- retriesStop, late <- retriesLate, crashes <- retriesCrashes
InTurn == INSTANCE ResearchRuns WITH
  RentCast <- FALSE, Browser <- <<"zillow", "craigslist">>, post <- turnPost, op <- turnOp,
  job <- turnJob, log <- turnLog, imports <- turnImports, listing <- turnListing,
  due <- turnDue, stop <- turnStop, late <- turnLate, crashes <- turnCrashes
ZillowTool == INSTANCE ZillowResearch WITH
  Tabs <- {"t1", "t2"}, Approved <- "t1", Profile <- {"beds"}, Layouts <- LikelyLayouts,
  MaxActions <- 80, MaxResults <- 2, MaxDetails <- 1, MaxScrolls <- 1, MaxFaults <- 2,
  late <- zillowToolLate
Calm == INSTANCE ZillowResearch WITH
  Tabs <- {"t1"}, Approved <- None, Profile <- {"beds", "baths", "type"},
  Layouts <- AllLayouts, MaxActions <- 80, MaxResults <- 10, MaxDetails <- 1, MaxScrolls <- 2,
  MaxFaults <- 0, layout <- calmLayout, kind <- calmKind, shared <- calmShared,
  cancelled <- calmCancelled, expired <- calmExpired, tool <- calmTool, answer <- calmAnswer,
  pressed <- calmPressed, clicked <- calmClicked, touched <- calmTouched, late <- calmLate,
  faults <- calmFaults
Spent == INSTANCE ZillowResearch WITH
  Tabs <- {"t1", "t2"}, Approved <- None, Profile <- {}, Layouts <- LikelyLayouts,
  MaxActions <- 21, MaxResults <- 2, MaxDetails <- 1, MaxScrolls <- 1, MaxFaults <- 1,
  layout <- spentLayout, kind <- spentKind, shared <- spentShared, cancelled <- spentCancelled,
  expired <- spentExpired, tool <- spentTool, answer <- spentAnswer, pressed <- spentPressed,
  clicked <- spentClicked, touched <- spentTouched, late <- spentLate, faults <- spentFaults
BrowserTool == INSTANCE BrowserResearch WITH
  Tabs <- {"t1", "t2"}, Source <- "facebook_marketplace", Mode <- "discovery",
  Profile <- {"baths"}, MaxActions <- 50, MaxResults <- 2, MaxDetails <- 1, MaxFaults <- 1,
  shared <- browserToolShared, cancelled <- browserToolCancelled,
  expired <- browserToolExpired, tool <- browserToolTool, answer <- browserToolAnswer,
  pressed <- browserToolPressed, touched <- browserToolTouched, late <- browserToolLate,
  faults <- browserToolFaults
Marketplace == INSTANCE BrowserResearch WITH
  Tabs <- {"t1"}, Source <- "facebook_marketplace", Mode <- "discovery",
  Profile <- {"baths", "type"}, MaxActions <- 50, MaxResults <- 10, MaxDetails <- 3,
  MaxFaults <- 0, page <- marketplacePage, shared <- marketplaceShared,
  cancelled <- marketplaceCancelled, expired <- marketplaceExpired, tool <- marketplaceTool,
  answer <- marketplaceAnswer, pressed <- marketplacePressed, touched <- marketplaceTouched,
  late <- marketplaceLate, faults <- marketplaceFaults
Apartments == INSTANCE BrowserResearch WITH
  Tabs <- {"t1"}, Source <- "apartments_com", Mode <- "discovery", Profile <- {"baths"},
  MaxActions <- 15, MaxResults <- 2, MaxDetails <- 1, MaxFaults <- 1, page <- apartmentsPage,
  shared <- apartmentsShared, cancelled <- apartmentsCancelled, expired <- apartmentsExpired,
  tool <- apartmentsTool, answer <- apartmentsAnswer, pressed <- apartmentsPressed,
  touched <- apartmentsTouched, late <- apartmentsLate, faults <- apartmentsFaults
Page == INSTANCE BrowserResearch WITH
  Tabs <- {"t1", "t2"}, Source <- "configured", Mode <- "current_page", Profile <- {},
  MaxActions <- 10, MaxResults <- 1, MaxDetails <- 1, MaxFaults <- 2, page <- pagePage,
  shared <- pageShared, cancelled <- pageCancelled, expired <- pageExpired, tool <- pageTool,
  answer <- pageAnswer, pressed <- pagePressed, touched <- pageTouched, late <- pageLate,
  faults <- pageFaults
Status == INSTANCE ResearchStatus WITH
  Selected <- {"zillow", "rentcast"}, Actions <- {"login_required"}, MaxListings <- 1,
  MaxReads <- 1, CanStop <- TRUE, CanCrash <- FALSE, job <- statusJob
Market == INSTANCE ResearchStatus WITH
  Selected <- {"facebook_marketplace"},
  Actions <- {"checkpoint_required", "browser_offline", "no_shared_tab"}, MaxListings <- 1,
  MaxReads <- 3, CanStop <- TRUE, CanCrash <- TRUE, step <- marketStep, out <- marketOut,
  job <- marketJob, found <- marketFound, fin <- marketFin, fail <- marketFail,
  ended <- marketEnded, scored <- marketScored, read <- marketRead, shown <- marketShown,
  stopped <- marketStopped
Summaries == INSTANCE ListingReads WITH
  Sources <- {"s1", "s2"}, Listings <- {"a", "b"}, MaxRuns <- 1, MaxSnapshots <- 1,
  MaxRuled <- 1, Pages <- FALSE, run <- cardsRun, listing <- cardsListing,
  member <- cardsMember, scores <- cardsScores, risks <- cardsRisks, ruled <- cardsRuled,
  snapshot <- cardsSnapshot, reader <- cardsReader
Detail == INSTANCE ListingReads WITH
  Sources <- {"s1", "s2"}, Listings <- {"a", "b"}, MaxRuns <- 2, MaxSnapshots <- 0,
  MaxRuled <- 0, Pages <- TRUE, run <- detailRun, listing <- detailListing,
  member <- detailMember, scores <- detailScores, risks <- detailRisks, ruled <- detailRuled,
  snapshot <- detailSnapshot, reader <- detailReader
Views == INSTANCE InboxViews WITH
  Cards <- Homes, Sources <- {"zillow", "rentcast"}, MaxLength <- 2, Null <- None

ASSUME PartsAssumptions ==
  /\ Retries!ResearchRunsAssumption /\ InTurn!ResearchRunsAssumption /\ ZillowTool!ResearchBounds
  /\ Calm!ResearchBounds /\ Spent!ResearchBounds
  /\ BrowserTool!PlanBounds /\ Marketplace!PlanBounds
  /\ Apartments!PlanBounds /\ Page!PlanBounds
  /\ Status!ResearchStatusAssumption /\ Market!ResearchStatusAssumption
  /\ Summaries!BoundsAssumption /\ Summaries!NoneAssumption
  /\ Detail!BoundsAssumption /\ Detail!NoneAssumption /\ Views!LengthAssumption

varsRetries == <<retriesPost, retriesOp, retriesJob, retriesLog, retriesImports, retriesListing,
    retriesDue, retriesStop, retriesLate, retriesCrashes>>
varsInTurn == <<turnPost, turnOp, turnJob, turnLog, turnImports, turnListing, turnDue, turnStop,
    turnLate, turnCrashes>>
varsZillowTool == <<layout, kind, shared, cancelled, expired, tool, answer, pressed, clicked, touched,
    zillowToolLate, faults>>
varsCalm == <<calmLayout, calmKind, calmShared, calmCancelled, calmExpired, calmTool, calmAnswer,
    calmPressed, calmClicked, calmTouched, calmLate, calmFaults>>
varsSpent == <<spentLayout, spentKind, spentShared, spentCancelled, spentExpired, spentTool,
    spentAnswer, spentPressed, spentClicked, spentTouched, spentLate, spentFaults>>
varsBrowserTool == <<page, browserToolShared, browserToolCancelled, browserToolExpired, browserToolTool,
    browserToolAnswer, browserToolPressed, browserToolTouched, browserToolLate,
    browserToolFaults>>
varsMarketplace == <<marketplacePage, marketplaceShared, marketplaceCancelled, marketplaceExpired,
    marketplaceTool, marketplaceAnswer, marketplacePressed, marketplaceTouched,
    marketplaceLate, marketplaceFaults>>
varsApartments == <<apartmentsPage, apartmentsShared, apartmentsCancelled, apartmentsExpired,
    apartmentsTool, apartmentsAnswer, apartmentsPressed, apartmentsTouched,
    apartmentsLate, apartmentsFaults>>
varsPage == <<pagePage, pageShared, pageCancelled, pageExpired, pageTool, pageAnswer, pagePressed,
    pageTouched, pageLate, pageFaults>>
varsStatus == <<step, out, statusJob, found, fin, fail, ended, scored, read, shown, stopped>>
varsMarket == <<marketStep, marketOut, marketJob, marketFound, marketFin, marketFail, marketEnded,
    marketScored, marketRead, marketShown, marketStopped>>
varsSummaries == <<cardsRun, cardsListing, cardsMember, cardsScores, cardsRisks, cardsRuled,
    cardsSnapshot, cardsReader>>
varsDetail == <<detailRun, detailListing, detailMember, detailScores, detailRisks, detailRuled,
    detailSnapshot, detailReader>>
varsViews == <<list, query>>

Parts ==
  {"runs", "retries", "sources in turn", "zillow", "calm zillow", "spent zillow", "browser",
   "calm browser", "spent browser", "page capture", "status", "browser status", "cards",
   "listing page", "views"}

RunInit ==
  /\ part \in Parts
  /\ Init
  /\ Retries!Init
  /\ InTurn!Init
  /\ ZillowTool!Init /\ (part # "zillow" => layout = FirstLayout /\ shared = {"t1"})
  /\ Calm!Init /\ (part # "calm zillow" => calmLayout = FirstLayout)
  /\ Spent!Init /\ (part # "spent zillow" => spentLayout = FirstLayout /\ spentShared = {"t1"})
  /\ BrowserTool!Init /\ (part # "browser" => page = BrowserTool!Other /\ browserToolShared = {"t1"})
  /\ Marketplace!Init /\ (part # "calm browser" => marketplacePage = Marketplace!Other)
  /\ Apartments!Init /\ (part # "spent browser" => apartmentsPage = Apartments!Other)
  /\ Page!Init /\ (part # "page capture" => pagePage = Page!Other /\ pageShared = {"t1"})
  /\ Status!Init
  /\ Market!Init
  /\ Summaries!Init
  /\ Detail!Init
  /\ Views!Init /\ (part # "views" => list = <<>>)

RunNext ==
  /\ UNCHANGED part
  /\ IF part = "runs" THEN Next ELSE UNCHANGED vars
  /\ IF part = "retries" THEN Retries!Next ELSE UNCHANGED varsRetries
  /\ IF part = "sources in turn" THEN InTurn!Next ELSE UNCHANGED varsInTurn
  /\ IF part = "zillow" THEN ZillowTool!Next ELSE UNCHANGED varsZillowTool
  /\ IF part = "calm zillow" THEN Calm!Next ELSE UNCHANGED varsCalm
  /\ IF part = "spent zillow" THEN Spent!Next ELSE UNCHANGED varsSpent
  /\ IF part = "browser" THEN BrowserTool!Next ELSE UNCHANGED varsBrowserTool
  /\ IF part = "calm browser" THEN Marketplace!Next ELSE UNCHANGED varsMarketplace
  /\ IF part = "spent browser" THEN Apartments!Next ELSE UNCHANGED varsApartments
  /\ IF part = "page capture" THEN Page!Next ELSE UNCHANGED varsPage
  /\ IF part = "status" THEN Status!Next ELSE UNCHANGED varsStatus
  /\ IF part = "browser status" THEN Market!Next ELSE UNCHANGED varsMarket
  /\ IF part = "cards" THEN Summaries!Next ELSE UNCHANGED varsSummaries
  /\ IF part = "listing page" THEN Detail!Next ELSE UNCHANGED varsDetail
  /\ IF part = "views" THEN Views!Next ELSE UNCHANGED varsViews

runVars ==
  <<part, vars, varsRetries, varsInTurn, varsZillowTool, varsCalm, varsSpent, varsBrowserTool,
    varsMarketplace, varsApartments, varsPage, varsStatus, varsMarket, varsSummaries,
    varsDetail, varsViews>>
RunSpec == RunInit /\ [][RunNext]_runVars
-----------------------------------------------------------------------------
(* What the components promise. *)

(* The same of three requests that are retries of one search, and of a     *)
(* search whose browser sources run one after the other, where a stop may  *)
(* come between the two.                                                   *)
RetriesAreSearches ==
  /\ part = "retries" => Retries!OneSearchAtATime
  /\ part = "sources in turn" => InTurn!OneSearchAtATime

(* A tool presses each control of a page once however often it looks for   *)
(* it, acts on the one tab it pinned, does nothing after it was cancelled  *)
(* and keeps to the actions of its plan; what it lists was found under the *)
(* filters of the profile, and when nothing fails every card it has        *)
(* observed is in its answer.                                              *)
BrowsesAsApproved ==
  /\ part = "zillow" =>
       /\ ZillowTool!TypeOK /\ ZillowTool!ClickedOnce /\ ZillowTool!OnePinnedTab
       /\ ZillowTool!StopsWhenCancelled /\ ZillowTool!CardsAreFiltered
  /\ part = "calm zillow" => Calm!EveryCardIsListed
  /\ part = "spent zillow" => Spent!BudgetKept
  /\ part = "browser" =>
       BrowserTool!TypeOK /\ BrowserTool!ClickedOnce /\ BrowserTool!StopsWhenCancelled
  /\ part = "calm browser" => Marketplace!ObservedCardsAreReported
  /\ part = "spent browser" => Apartments!PlanIsKept
  /\ part = "page capture" => Page!OnePinnedTab /\ Page!StopsWhenCancelled

(* The status of a run never calls a blocked source a success, is final    *)
(* only when everything is settled, stays completed, and never forgets a   *)
(* listing it has shown.                                                   *)
StatusTellsTheTruth ==
  /\ part = "status" =>
       Status!TypeOK /\ Status!BlockerIsNoSuccess /\ Status!FinalStatusIsSettled /\ Status!CompletedIsFinal /\ Status!ImportsNeverVanish
  /\ part = "browser status" =>
       Market!TypeOK /\ Market!BlockerIsNoSuccess /\ Market!FinalStatusIsSettled /\ Market!CompletedIsFinal /\ Market!ImportsNeverVanish

(* A source is on one card of an inbox, a page is of its row; and of every *)
(* list under every query the best home comes first, each is on a tab, the *)
(* constraints divide them and there is a way out of an empty list.        *)
CardsAreOfOneDecision ==
  /\ [](part = "cards" => Summaries!TypeOK /\ Summaries!SourceOnOneCard)
  /\ [](part = "listing page" => Detail!TypeOK /\ Detail!SourceOnOneCard /\ Detail!PageIsOfItsRow)
  /\ [](part = "views" => Views!BestFirst /\ Views!EveryListingHasATab /\ Views!ConstraintsSplit)
  /\ Views!WayOut

=============================================================================
