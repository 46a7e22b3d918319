----------------------------- MODULE MCLiveness -----------------------------
(***************************************************************************)
(* What must happen in the end, on small instances.  In this run the       *)
(* components share no state: part names the one that moves and the others *)
(* stay as they started.                                                   *)
(***************************************************************************)
EXTENDS TLC

CONSTANTS
  None,    \* none of the values
  NoOwner  \* no worker

VARIABLES
  part, \* the component that moves in this behaviour
  revision, jobs, sources, invalid, overrides, runs, projection, phase, claim, seen, error,
  search, incarnation, faults,  \* Decide
  laneRevision, laneJobs, laneSources, laneInvalid, laneOverrides, rows, lanePhase, laneClaim,
  laneError, laneIncarnation, laneFaults,  \* Lane
  lineRevision, lineJobs, lineSources, lineInvalid, lineOverrides, lineRuns, lineProjection,
  linePhase, lineClaim, lineSeen, lineError, lineSearch, lineRows, nPhase, nClaim, nError,
  turn, lineIncarnation, lineFaults,  \* Line
  job, log, accepted, dispatch, worker, allowed, sourceRuns, sourceFaults,  \* Source
  post, op, researchJob, researchLog, imports, listing, due, stop, late, crashes,  \* Research
  now, norm, records, queueRevision, queueJobs, attempts, queueRuns, held, queueCrashes, node,  \* Queue
  enabled, sub, endpoint, shown, pushRows, pushDue, recent, quiet, events, pushes, pushLate,
  pushWorker, used,  \* Push
  scheduleNow, row, scheduleRuns, scheduleWorker, request, handled, disabled, lost,
  scheduleFaults, changes,  \* Schedule
  arrived, deleted, references, mailImports, cursor, mailWorker, missed, permanent, mailFaults,  \* Mail
  record, enrichJob, work, drains, active, asking, requests, enrichCrashes,  \* Enrich
  accountRequest, member, account, signup, admitted, sessions, challenge, linked, granted,
  receipts, deletion, traffic, backup, ledger, born, reviews, accountFaults,  \* Account
  cloud, journal, gatewayOp, verdict, ids, creates, gatewayFaults,  \* Gateway
  inboxLog, inboxRequests, sent, inbox, searching, refreshes, page, reloads, told,  \* Inbox
  db, disk, side, saved, queue, at, answer, committed, failures, restarts,  \* Demo
  group, lease, attachedTabs, attachingTabs, timer, syncs, popup, making, detached, recovering,
  paired, relay, reported  \* Share

Decide == INSTANCE Decisions WITH
  Profiles <- {"p1"}, Raws <- {"a"}, Overrides <- {}, NoOwner <- NoOwner, MaxRevision <- 2,
  Workers <- {"w1", "w2"}, Searches <- {}, SearchProfile <- <<>>, MaxAttempts <- 2,
  MaxFaults <- 0, Lives <- {}, life <- [raw \in {"a"} |-> "new"],
  lifeRead <- [w \in {"w1", "w2"} |-> [raw \in {"a"} |-> "new"]],
  moved <- [w \in {"w1", "w2"} |-> {}]
Lane == INSTANCE Normalization WITH
  Profiles <- {"p1"}, Raws <- {"a", "b"}, Overrides <- {}, NoOwner <- NoOwner,
  NoProfile <- None, MaxRevision <- 2, Workers <- {"w1", "w2"},
  ProfileOf <- [raw \in {"a", "b"} |-> IF raw = "a" THEN "p1" ELSE None], MaxAttempts <- 3,
  MaxFaults <- 0, revision <- laneRevision, jobs <- laneJobs, sources <- laneSources,
  invalid <- laneInvalid, overrides <- laneOverrides, phase <- lanePhase, claim <- laneClaim,
  error <- laneError, incarnation <- laneIncarnation, faults <- laneFaults
Line == INSTANCE Pipeline WITH
  Profiles <- {"p1"}, Raws <- {"a"}, Overrides <- {}, NoOwner <- NoOwner, NoProfile <- None,
  MaxRevision <- 2, Workers <- {"w1"}, Searches <- {"s1"},
  SearchProfile <- [s \in {"s1"} |-> "p1"], ProfileOf <- [raw \in {"a"} |-> "p1"],
  MaxDecisionAttempts <- 2, MaxNormalizationAttempts <- 2, revision <- lineRevision,
  jobs <- lineJobs, sources <- lineSources, invalid <- lineInvalid, overrides <- lineOverrides,
  runs <- lineRuns, projection <- lineProjection, phase <- linePhase, claim <- lineClaim,
  seen <- lineSeen, error <- lineError, search <- lineSearch, rows <- lineRows,
  incarnation <- lineIncarnation, faults <- lineFaults
Source == INSTANCE SourceJobs WITH
  Jobs <- {"j1"}, Workers <- {"w1", "w2"}, Hosted <- TRUE, MaxAttempts <- 2,
  MaxDispatches <- 1, MaxRuns <- 3, MaxFaults <- 1, runs <- sourceRuns, faults <- sourceFaults
Research == INSTANCE ResearchRuns WITH
  Posts <- {"p1"}, Runs <- {"r1"}, RunOf <- [p \in {"p1"} |-> "r1"],
  RetryOf <- [r \in {"r1"} |-> r], RentCast <- FALSE, Browser <- <<"zillow", "craigslist">>,
  Listings <- {"l1"}, CanStop <- FALSE, MaxCrashes <- 1, job <- researchJob, log <- researchLog
Queue == INSTANCE DemoQueues WITH
  Raws <- {1}, Workers <- {"w1"}, MaxAttempts <- 2, DecisionAttempts <- 2, Lease <- 1,
  MaxTime <- 2, MaxRevision <- 2, Crashes <- 0, Reports <- {}, revision <- queueRevision,
  jobs <- queueJobs, runs <- queueRuns, crashes <- queueCrashes
Push == INSTANCE Notifications WITH
  Workers <- {"w1"}, Listings <- {"l1", "l2"}, Endpoints <- {"e1"}, HourlyLimit <- 1,
  AttemptLimit <- 2, QuietHours <- 1, MaxQuiet <- 1, MaxFailures <- 1, MaxSlow <- 0,
  MaxRetries <- 0, MaxToggles <- 1, MaxFanouts <- 1, rows <- pushRows, due <- pushDue,
  late <- pushLate, worker <- pushWorker
Schedule == INSTANCE ProductionSchedules WITH
  Workers <- {"w1"}, Schedules <- {"s1"}, Requests <- {"r1"}, Every <- 1, MaxTime <- 2,
  MaxFaults <- 0, MaxChanges <- 1, now <- scheduleNow, runs <- scheduleRuns,
  worker <- scheduleWorker, faults <- scheduleFaults
Mail == INSTANCE GmailAlerts WITH
  Workers <- {"w1"}, MaxMessage <- 3, Malformed <- {2}, PageSize <- 2, MaxFaults <- 1,
  imports <- mailImports, worker <- mailWorker, faults <- mailFaults
Enrich == INSTANCE ListingEnrichment WITH
  Records <- {"r1"}, Requesters <- {"q1"}, MaxRequests <- 1, MaxClaims <- 3, MaxCrashes <- 2,
  MaxDrains <- 1, Concurrency <- 1, MayOverrun <- TRUE, job <- enrichJob,
  crashes <- enrichCrashes
Account == INSTANCE Accounts WITH
  People <- {"p1"}, Requests <- {"d1"}, Founders <- {}, MaxUsers <- 1, MaxReviews <- 1,
  MaxFaults <- 2, request <- accountRequest, faults <- accountFaults
Gateway == INSTANCE GatewayResources WITH
  Kinds <- {"ssh_key", "droplet"}, MaxIds <- 2, MaxCreates <- 1, MaxFaults <- 2,
  op <- gatewayOp, faults <- gatewayFaults
Inbox == INSTANCE ListingInbox WITH
  Listings <- {"a"}, Start <- [l \in {"a"} |-> "new"], Opened <- "a", Demo <- FALSE,
  MaxRequests <- 2, MaxRefreshes <- 1, MaxReloads <- 0, MaxDecisions <- 0, log <- inboxLog,
  requests <- inboxRequests, plan <- [decisions |-> 0, read |-> [l \in {"a"} |-> 0]],
  decided <- {}
Demo == INSTANCE DemoStore WITH
  Requests <- {"r1", "r2", "r3"},
  KindOf <- "r1" :> "run" @@ "r2" :> "rules" @@ "r3" :> "check", MaxFailures <- 2,
  MaxRestarts <- 0
Share == INSTANCE ExtensionTabs WITH
  Tabs <- {"t1"}, Created <- {}, Reasons <- {"target_closed"}

ASSUME PartsAssumptions ==
  /\ Decide!DecisionsAssumption /\ Lane!NormalizationAssumption
  /\ Source!SourceJobsAssumption /\ Research!ResearchRunsAssumption
  /\ Queue!DemoQueuesAssumption /\ Push!NotificationBounds
  /\ Schedule!ScheduleBounds /\ Mail!MailBounds
  /\ Enrich!EnrichmentAssumption /\ Account!AccountBounds
  /\ Gateway!GatewayBounds /\ Inbox!StartAssumption
  /\ Inbox!BoundsAssumption /\ Demo!DemoBounds
  /\ Share!ExtensionTabsAssumption

varsDecide == <<revision, jobs, sources, invalid, overrides, runs, projection, phase, claim, seen,
    error, search, incarnation, faults>>
varsLane == <<laneRevision, laneJobs, laneSources, laneInvalid, laneOverrides, rows, lanePhase,
    laneClaim, laneError, laneIncarnation, laneFaults>>
varsLine == <<lineRevision, lineJobs, lineSources, lineInvalid, lineOverrides, lineRuns,
    lineProjection, linePhase, lineClaim, lineSeen, lineError, lineSearch, lineRows,
    nPhase, nClaim, nError, turn, lineIncarnation, lineFaults>>
varsSource == <<job, log, accepted, dispatch, worker, allowed, sourceRuns, sourceFaults>>
varsResearch == <<post, op, researchJob, researchLog, imports, listing, due, stop, late, crashes>>
varsQueue == <<now, norm, records, queueRevision, queueJobs, attempts, queueRuns, held,
    queueCrashes, node>>
varsPush == <<enabled, sub, endpoint, shown, pushRows, pushDue, recent, quiet, events, pushes,
    pushLate, pushWorker, used>>
varsSchedule == <<scheduleNow, row, scheduleRuns, scheduleWorker, request, handled, disabled, lost,
    scheduleFaults, changes>>
varsMail == <<arrived, deleted, references, mailImports, cursor, mailWorker, missed, permanent,
    mailFaults>>
varsEnrich == <<record, enrichJob, work, drains, active, asking, requests, enrichCrashes>>
varsAccount == <<accountRequest, member, account, signup, admitted, sessions, challenge, linked,
    granted, receipts, deletion, traffic, backup, ledger, born, reviews, accountFaults>>
varsGateway == <<cloud, journal, gatewayOp, verdict, ids, creates, gatewayFaults>>
varsInbox == <<inboxLog, inboxRequests, sent, inbox, searching, refreshes, page, reloads, told>>
varsDemo == <<db, disk, side, saved, queue, at, answer, committed, failures, restarts>>
varsShare == <<group, lease, attachedTabs, attachingTabs, timer, syncs, popup, making, detached,
    recovering, paired, relay, reported>>

Parts ==
  {"decisions", "normalization", "pipeline", "source jobs", "research", "demo queues",
   "notifications", "schedules", "mail", "enrichment", "accounts", "gateway", "inbox",
   "demo store", "shared tabs"}

RunInit ==
  /\ part \in Parts
  /\ Decide!Init
  /\ Lane!Init
  /\ Line!Init
  /\ Source!Init
  /\ Research!Init
  /\ Queue!Init
  /\ Push!Init /\ (part # "notifications" => ~enabled)
  /\ Schedule!Init
  /\ Mail!Init
  /\ Enrich!Init
  /\ Account!Init
  /\ Gateway!Init
  /\ Inbox!Init
  /\ Demo!Init
  /\ Share!Init

RunNext ==
  /\ UNCHANGED part
  /\ IF part = "decisions" THEN Decide!Next ELSE UNCHANGED varsDecide
  /\ IF part = "normalization" THEN Lane!Next ELSE UNCHANGED varsLane
  /\ IF part = "pipeline" THEN Line!Next ELSE UNCHANGED varsLine
  /\ IF part = "source jobs" THEN Source!Next ELSE UNCHANGED varsSource
  /\ IF part = "research" THEN Research!Next ELSE UNCHANGED varsResearch
  /\ IF part = "demo queues" THEN Queue!Next ELSE UNCHANGED varsQueue
  /\ IF part = "notifications" THEN Push!Next ELSE UNCHANGED varsPush
  /\ IF part = "schedules" THEN Schedule!Next ELSE UNCHANGED varsSchedule
  /\ IF part = "mail" THEN Mail!Next ELSE UNCHANGED varsMail
  /\ IF part = "enrichment" THEN Enrich!Next ELSE UNCHANGED varsEnrich
  /\ IF part = "accounts" THEN Account!Next ELSE UNCHANGED varsAccount
  /\ IF part = "gateway" THEN Gateway!Next ELSE UNCHANGED varsGateway
  /\ IF part = "inbox" THEN Inbox!Next ELSE UNCHANGED varsInbox
  /\ IF part = "demo store" THEN Demo!Next ELSE UNCHANGED varsDemo
  /\ IF part = "shared tabs" THEN Share!Next ELSE UNCHANGED varsShare

runVars ==
  <<part, varsDecide, varsLane, varsLine, varsSource, varsResearch, varsQueue, varsPush,
    varsSchedule, varsMail, varsEnrich, varsAccount, varsGateway, varsInbox, varsDemo, varsShare>>

(* The host of a part schedules what is written here and nothing else: its  *)
(* workers, timers and servers run on, the user and the faults may not.     *)
F(label, A) == part = label /\ A
RunFairness ==
  /\ \A w \in {"w1", "w2"} : WF_varsDecide(F("decisions", Decide!WorkerStep(w)))
  /\ \A w \in {"w1", "w2"} : WF_varsLane(F("normalization", Lane!WorkerStep(w)))
  /\ WF_varsLine(F("pipeline", Line!WorkerStep("w1")))
  /\ \A w \in {"w1", "w2"} : WF_varsSource(F("source jobs", Source!WorkerStep(w)))
  /\ WF_varsSource(F("source jobs", Source!LeaseExpires("j1")))
  /\ WF_varsResearch(F("research", Research!Branch("p1")))
  /\ WF_varsResearch(F("research", Research!Settle("p1")))
  /\ WF_varsResearch(F("research", Research!Normalize("l1")))
  /\ WF_varsResearch(F("research", Research!Decide))
  /\ WF_varsQueue(F("demo queues", Queue!Tick))
  /\ WF_varsQueue(F("demo queues", Queue!ClaimNormalization("w1")))
  /\ WF_varsQueue(F("demo queues", Queue!ClaimDecision("w1")))
  /\ WF_varsQueue(F("demo queues", Queue!Works("w1", "normalize")
                      /\ (Queue!CompleteNormalization("w1") \/ Queue!LoseLease("w1"))))
  /\ WF_varsQueue(F("demo queues", Queue!Works("w1", "decide")
       /\ \/ Queue!ApplyPlan("w1") \/ Queue!Replay("w1") \/ Queue!LoseLease("w1")
          \/ ~Queue!AtTarget(held["w1"].id) /\ Queue!FailDecision("w1", TRUE)))
  /\ WF_varsPush(F("notifications", Push!Work("w1")))
  /\ \A k \in Push!Keys : /\ WF_varsPush(F("notifications", Push!LeaseExpires(k)))
                          /\ WF_varsPush(F("notifications", Push!BecomesDue(k)))
                          /\ WF_varsPush(F("notifications", Push!Forget(k)))
  /\ WF_varsPush(F("notifications", Push!QuietEnds))
  /\ WF_varsSchedule(F("schedules", Schedule!Tick))
  /\ WF_varsSchedule(F("schedules", Schedule!Work("w1")))
  /\ WF_varsSchedule(F("schedules", Schedule!Write("r1")))
  /\ WF_varsMail(F("mail", Mail!Run("w1")))
  /\ \A c \in Enrich!Claims : WF_varsEnrich(F("enrichment", Enrich!Process(c)))
  /\ WF_varsEnrich(F("enrichment", Enrich!StartDrain))
  /\ WF_varsEnrich(F("enrichment", Enrich!DrainEnds))
  /\ WF_varsEnrich(F("enrichment", Enrich!RetryIsDue("r1")))
  /\ WF_varsEnrich(F("enrichment", Enrich!LeaseExpires("r1")))
  /\ SF_varsEnrich(F("enrichment", \E c \in Enrich!Claims : Enrich!Claim(c, "r1")))
  /\ WF_varsAccount(F("accounts", Account!Reapply \/ Account!OpenTraffic))
  /\ \A u \in Account!Users : /\ WF_varsAccount(F("accounts", Account!Admit(u)))
                              /\ WF_varsAccount(F("accounts", Account!SignIn(u)))
  /\ WF_varsAccount(F("accounts", \E u \in Account!Users : Account!Issue("d1", u)))
  /\ WF_varsAccount(F("accounts", Account!Consume("d1")))
  /\ WF_varsAccount(F("accounts", Account!Disconnect("d1")))
  /\ WF_varsAccount(F("accounts", Account!DeleteAccount("d1")))
  /\ WF_varsGateway(F("gateway", Gateway!StartSweep))
  /\ WF_varsGateway(F("gateway", Gateway!ToolStep))
  /\ \A i \in Gateway!Ids : WF_varsGateway(F("gateway", Gateway!Vanish(i)))
  /\ WF_varsInbox(F("inbox", Inbox!Loading)) /\ WF_varsInbox(F("inbox", Inbox!EndSearch))
  /\ WF_varsInbox(F("inbox", \E r \in inboxRequests : Inbox!Server(r) \/ Inbox!AnswerInbox(r)))
  /\ \A r \in {"r1", "r2", "r3"} : WF_varsDemo(F("demo store", Demo!Step(r)))
  /\ WF_varsShare(F("shared tabs", Share!SyncTimer)) /\ WF_varsShare(F("shared tabs", Share!Popup))
  /\ \A shared \in SUBSET {"t1"} : WF_varsShare(F("shared tabs", Share!Sync(shared)))
  /\ WF_varsShare(F("shared tabs", Share!AttachEnds("t1")))
  /\ WF_varsShare(F("shared tabs", Share!Creation("t1")))
  /\ WF_varsShare(F("shared tabs", Share!Recovery("t1")))
  /\ WF_varsShare(F("shared tabs", Share!HandleDetach("t1", "target_closed")))

RunSpec == RunInit /\ [][RunNext]_runVars /\ RunFairness
-----------------------------------------------------------------------------
(* What the components promise. *)

(* Every job of the queues ends: a revision is decided, a listing is       *)
(* normalized or given up, and shown, a search that imported it is         *)
(* completed, an acquisition whose worker is lost is reclaimed, a search   *)
(* of the user comes to an end, the demo decides its current revision.     *)
JobsEnd ==
  /\ (part = "decisions" => Decide!EventuallyDecided)
  /\ (part = "normalization" => Lane!EventuallyFinished)
  /\ [](part = "pipeline" => Line!TypeOK)
  /\ (part = "pipeline" => Line!ListingIsShown)
  /\ (part = "pipeline" => Line!SearchIsCompleted)
  /\ (part = "source jobs" => Source!RunningIsReclaimed)
  /\ (part = "research" => Research!SearchEnds)
  /\ (part = "demo queues" => Queue!CurrentRevisionEnds)

(* What is due happens: a notification is shown or given up, a schedule is *)
(* claimed and its run finished, an alert is imported, a listing that      *)
(* waits for enrichment is served.                                         *)
DueHappens ==
  /\ (part = "notifications" => Push!IsSettled)
  /\ (part = "schedules" => Schedule!DueIsClaimed)
  /\ (part = "schedules" => Schedule!RunIsFinished)
  /\ (part = "mail" => Mail!AlertIsImported)
  /\ (part = "enrichment" => Enrich!QueuedIsServed)

(* What a user asks for ends: a deletion is carried out, the machines of a *)
(* gateway are swept, a skeleton gives way to listings, a busy card        *)
(* becomes free, the demo answers, the relay learns that a tab has left    *)
(* the group.                                                              *)
RequestsAreAnswered ==
  /\ (part = "accounts" => Account!AskedIsDeleted)
  /\ (part = "gateway" => Gateway!SweptInTheEnd)
  /\ (part = "inbox" => Inbox!SkeletonEnds)
  /\ (part = "inbox" => Inbox!BusyEnds)
  /\ (part = "demo store" => Demo!Answered)
  /\ (part = "shared tabs" => Share!RelayLearns)

=============================================================================
