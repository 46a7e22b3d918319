----------------------------- MODULE MCServices -----------------------------
(***************************************************************************)
(* The services around the listings and what their user is shown, on small *)
(* instances: calendar holds, notifications, the schedules of a worker,    *)
(* the alerts it reads from Gmail, the dashboard and a page of a listing   *)
(* open beside it, and the search panel.  In this run they share no state, *)
(* so part names the component that moves and the others stay as they      *)
(* started.                                                                *)
(***************************************************************************)
EXTENDS CalendarHolds, TLC

CONSTANTS
  None,  \* no endpoint, no schedule
  home1, home2   \* two listings

VARIABLES
  part, \* the component that moves in this behaviour
  replacingLifecycle, replacingPlan, replacingPutBack, replacingViewings, replacingHolds, replacingApproval, replacingOverdue,
  replacingEvents, replacingLate, replacingReq, replacingConflicted, replacingRecheck,
  replacingTold,  \* Replacing
  enabled, sub, endpoint, shown, rows, due, recent, quiet, pushEvents, pushes, pushLate,
  worker, used,  \* Push
  now, row, runs, scheduleWorker, request, handled, disabled, lost, faults, changes,  \* Schedule
  arrived, deleted, references, imports, cursor, mailWorker, missed, permanent, mailFaults,  \* Mail
  log, requests, sent, inbox, searching, refreshes, page, reloads, inboxTold, inboxPlan,
  decided,  \* Inbox
  shelfLog, shelfRequests, shelfSent, shelfInbox, shelfSearching, shelfRefreshes, shelfPage,
  shelfReloads, shelfTold, shelfPlan, shelfDecided,  \* Shelf
  panelPage, custom, panelTold, heard, call, server, poll, stop, agreed,  \* Panel
  customPage, customCustom, customTold, customHeard, customCall, customServer, customPoll,
  customStop, customAgreed,  \* Custom
  pollsPage, pollsCustom, pollsTold, pollsHeard, pollsCall, pollsServer, pollsPoll, pollsStop,
  pollsAgreed  \* Polls

NewAndReplied == home1 :> "new" @@ home2 :> "replied"

Replacing == INSTANCE CalendarHolds WITH
  Requests <- {"r1"}, MaxViewings <- 2, MaxHolds <- 2, Notes <- {"a"},
  Checks <- {"free", "busy"}, Decides <- FALSE, lifecycle <- replacingLifecycle, plan <- replacingPlan,
  putBack <- replacingPutBack, viewings <- replacingViewings,
  holds <- replacingHolds, approval <- replacingApproval, overdue <- replacingOverdue,
  events <- replacingEvents, late <- replacingLate, req <- replacingReq,
  conflicted <- replacingConflicted, recheck <- replacingRecheck, told <- replacingTold
Push == INSTANCE Notifications WITH
  Workers <- {"w1", "w2"}, Listings <- {"l1", "l2"}, Endpoints <- {"e1"}, HourlyLimit <- 2,
  AttemptLimit <- 2, QuietHours <- 0, MaxQuiet <- 0, MaxFailures <- 0, MaxSlow <- 1,
  MaxRetries <- 0, MaxToggles <- 2, MaxFanouts <- 2, events <- pushEvents, late <- pushLate
Schedule == INSTANCE ProductionSchedules WITH
  Workers <- {"w1", "w2"}, Schedules <- {"s1"}, Requests <- {"r1", "r2"}, Every <- 1,
  MaxTime <- 2, MaxFaults <- 1, MaxChanges <- 2, worker <- scheduleWorker
Mail == INSTANCE GmailAlerts WITH
  Workers <- {"w1", "w2"}, MaxMessage <- 3, Malformed <- {2}, PageSize <- 2, MaxFaults <- 1,
  worker <- mailWorker, faults <- mailFaults
Inbox == INSTANCE ListingInbox WITH
  Listings <- {home1}, Start <- home1 :> "new", Opened <- home1, Demo <- FALSE,
  MaxRequests <- 2, MaxRefreshes <- 1, MaxReloads <- 0, MaxDecisions <- 1, told <- inboxTold,
  plan <- inboxPlan
Shelf == INSTANCE ListingInbox WITH
  Listings <- {home1, home2}, Start <- NewAndReplied, Opened <- home1, Demo <- FALSE,
  MaxRequests <- 2, MaxRefreshes <- 1, MaxReloads <- 0, MaxDecisions <- 0, log <- shelfLog,
  requests <- shelfRequests, sent <- shelfSent, inbox <- shelfInbox,
  searching <- shelfSearching, refreshes <- shelfRefreshes, page <- shelfPage,
  reloads <- shelfReloads, told <- shelfTold, plan <- shelfPlan, decided <- shelfDecided
Panel == INSTANCE SearchPage WITH
  Profiles <- {"p", "q"}, Saved <- {"p"}, Sources <- {"zillow"}, Approved <- {"zillow"},
  Runs <- {"r1"}, CanReload <- TRUE, CanStop <- TRUE, page <- panelPage, told <- panelTold
Custom == INSTANCE SearchPage WITH
  Profiles <- {"p"}, Saved <- {"p"}, Sources <- {"custom_website"},
  Approved <- {"custom_website"}, Runs <- {"r1"}, CanReload <- FALSE, CanStop <- FALSE,
  page <- customPage, custom <- customCustom, told <- customTold, heard <- customHeard,
  call <- customCall, server <- customServer, poll <- customPoll, stop <- customStop,
  agreed <- customAgreed
Polls == INSTANCE SearchPage WITH
  Profiles <- {"p"}, Saved <- {"p"}, Sources <- {"rentcast"}, Approved <- {"rentcast"},
  Runs <- {"r1"}, CanReload <- FALSE, CanStop <- TRUE, page <- pollsPage,
  custom <- pollsCustom, told <- pollsTold, heard <- pollsHeard, call <- pollsCall,
  server <- pollsServer, poll <- pollsPoll, stop <- pollsStop, agreed <- pollsAgreed

ASSUME PartsAssumptions ==
  /\ Replacing!BoundsAreSmall /\ Replacing!ChecksAreOutcomes /\ Replacing!DecidesIsBoolean
  /\ Push!NotificationBounds /\ Schedule!ScheduleBounds
  /\ Mail!MailBounds /\ Inbox!StartAssumption
  /\ Inbox!BoundsAssumption /\ Shelf!StartAssumption
  /\ Shelf!BoundsAssumption
  /\ Panel!SearchPageAssumption /\ Custom!SearchPageAssumption
  /\ Polls!SearchPageAssumption

varsReplacing == <<replacingLifecycle, replacingPlan, replacingPutBack, replacingViewings, replacingHolds, replacingApproval,
    replacingOverdue, replacingEvents, replacingLate, replacingReq, replacingConflicted,
    replacingRecheck, replacingTold>>
varsPush == <<enabled, sub, endpoint, shown, rows, due, recent, quiet, pushEvents, pushes,
    pushLate, worker, used>>
varsSchedule == <<now, row, runs, scheduleWorker, request, handled, disabled, lost, faults, changes>>
varsMail == <<arrived, deleted, references, imports, cursor, mailWorker, missed, permanent,
    mailFaults>>
varsInbox == <<log, requests, sent, inbox, searching, refreshes, page, reloads, inboxTold,
    inboxPlan, decided>>
varsShelf == <<shelfLog, shelfRequests, shelfSent, shelfInbox, shelfSearching, shelfRefreshes,
    shelfPage, shelfReloads, shelfTold, shelfPlan, shelfDecided>>
varsPanel == <<panelPage, custom, panelTold, heard, call, server, poll, stop, agreed>>
varsCustom == <<customPage, customCustom, customTold, customHeard, customCall, customServer,
    customPoll, customStop, customAgreed>>
varsPolls == <<pollsPage, pollsCustom, pollsTold, pollsHeard, pollsCall, pollsServer, pollsPoll,
    pollsStop, pollsAgreed>>

Parts ==
  {"holds", "replaced hold", "notifications", "schedules", "mail", "inbox",
   "inbox of two", "search page", "housing website", "status polls"}

RunInit ==
  /\ part \in Parts
  /\ Init
  /\ Replacing!Init
  /\ Push!Init /\ (part # "notifications" => ~enabled)
  /\ Schedule!Init
  /\ Mail!Init
  /\ Inbox!Init
  /\ Shelf!Init
  /\ Panel!Init
  /\ Custom!Init
  /\ Polls!Init

RunNext ==
  /\ UNCHANGED part
  /\ IF part = "holds" THEN Next ELSE UNCHANGED vars
  /\ IF part = "replaced hold" THEN Replacing!Next ELSE UNCHANGED varsReplacing
  /\ IF part = "notifications" THEN Push!Next ELSE UNCHANGED varsPush
  /\ IF part = "schedules" THEN Schedule!Next ELSE UNCHANGED varsSchedule
  /\ IF part = "mail" THEN Mail!Next ELSE UNCHANGED varsMail
  /\ IF part = "inbox" THEN Inbox!Next ELSE UNCHANGED varsInbox
  /\ IF part = "inbox of two" THEN Shelf!Next ELSE UNCHANGED varsShelf
  /\ IF part = "search page" THEN Panel!Next ELSE UNCHANGED varsPanel
  /\ IF part = "housing website" THEN Custom!Next ELSE UNCHANGED varsCustom
  /\ IF part = "status polls" THEN Polls!Next ELSE UNCHANGED varsPolls

runVars ==
  <<part, vars, varsReplacing, varsPush, varsSchedule, varsMail, varsInbox,
    varsShelf, varsPanel, varsCustom, varsPolls>>
RunSpec == RunInit /\ [][RunNext]_runVars
-----------------------------------------------------------------------------
(* What the components promise. *)

(* What is announced is announced once and only while notifications are    *)
(* on, what counts as delivered was shown, a notification is shown again   *)
(* only where a lease, a worker or an answer was lost, and a settled one   *)
(* stays settled; a due run is handled once; an alert is imported once,    *)
(* with all of its page; and a hold that takes the place of another is     *)
(* approved like the first.                                                *)
EachIsHandledOnce ==
  /\ [](part = "notifications" =>
       /\ Push!TypeOK /\ Push!DeliveredWasShown /\ Push!OffMeansOff
       /\ Push!AnnouncedOnce /\ Push!PushedOnce)
  /\ Push!SettledIsFinal
  /\ [](part = "schedules" => Schedule!TypeOK /\ Schedule!HandledOnce)
  /\ [](part = "mail" => Mail!TypeOK /\ Mail!ImportedOnce /\ Mail!PageIsImported)
  /\ [](part = "replaced hold" => Replacing!HoldsAreApproved)

(* What a page tells the reader about a listing was true of its row since  *)
(* the reader asked, and the states of a listing follow its life cycle,    *)
(* but for what a decision that read the row earlier writes back.          *)
ShownIsStored ==
  /\ part = "inbox" => Inbox!TypeOK /\ Inbox!ShownWasTrue /\ Inbox!LogIsLegal
  /\ part = "inbox of two" => Shelf!ShownWasTrue /\ Shelf!LogIsLegal

(* A search starts with the profile and sources that were confirmed, only  *)
(* after a fresh readiness answer, and the page shows the run that was     *)
(* polled.                                                                 *)
SearchIsTheUsers ==
  /\ [](part = "search page" => Panel!TypeOK /\ Panel!SearchAsConfirmed)
  /\ Panel!FreshlyReady
  /\ Custom!FreshlyReady
  /\ Polls!PollsShowTheRun

=============================================================================
