--------------------------- MODULE MCAcquisition ----------------------------
(***************************************************************************)
(* The acquisition of listings on small instances: source jobs, the        *)
(* switches and the enrolment of the browser, the tabs that are captured   *)
(* and shared, the orchestrator of a single process and the machines of    *)
(* the gateway.  In this run they share no state, so part names the        *)
(* component that moves and the others stay as they started.               *)
(***************************************************************************)
EXTENDS SourceJobs, TLC

CONSTANT None  \* no assignment, no job, no resource

VARIABLES
  part, \* the component that moves in this behaviour
  laneJob, laneLog, laneAccepted, laneDispatch, laneWorker, laneAllowed, laneRuns, laneFaults,  \* Lane
  control, profile, node, assigned, writer, asked, wish, switchesOverlapped, now,  \* Controls
  assignment, ticket, device, extension, token, revoking,  \* Connector
  singleAssignment, singleTicket, singleDevice, singleExtension, singleToken, singleRevoking,  \* Single
  localNow, localJob, localNode, localAllowed, cancelled, caller, captures, successes, calls,
  overlapped,  \* Local
  oneJobNow, oneJobJob, oneJobNode, oneJobAllowed, oneJobCancelled, oneJobCaller,
  oneJobCaptures, oneJobSuccesses, oneJobCalls, oneJobOverlapped,  \* OneJob
  cloud, journal, op, verdict, ids, creates, gatewayFaults,  \* Gateway
  stackCloud, stackJournal, stackOp, stackVerdict, stackIds, stackCreates, stackFaults,  \* Stack
  tabs, running, verified, pc, chosen, result, active, told, answers, tries, moves,  \* Tab
  group, lease, attachedTabs, attachingTabs, timer, syncs, popup, making, detached, recovering,
  paired, relay, reported,  \* Shared
  twoGroup, twoLease, twoAttachedTabs, twoAttachingTabs, twoTimer, twoSyncs, twoPopup,
  twoMaking, twoDetached, twoRecovering, twoPaired, twoRelay, twoReported  \* Two

(* The approved listing in two spellings, with a dialog, as a captcha and   *)
(* empty; another listing, also in disguise; a login page.                  *)
Url(path, listing, keys) ==
  [protocol |-> "https", hostname |-> "www.zillow.com", path |-> path, listing |-> listing,
   keys |-> keys]
Home(l, keys) == Url("homedetails", l, keys)
Page(u, shows, dialog) == [url |-> u, shows |-> shows, dialog |-> dialog]
SomePages ==
  {Page(Home("z1", {}), "z1", FALSE), Page(Home("z1", {"utm_source"}), "z1", TRUE),
   Page(Home("z1", {}), "captcha_required", FALSE), Page(Home("z1", {}), "nothing", FALSE),
   Page(Home("z2", {}), "z2", FALSE), Page(Home("z1", {"redirect"}), "z2", FALSE),
   Page(Url("login", None, {}), "login_required", FALSE)}

Lane == INSTANCE SourceJobs WITH
  Jobs <- {"j1"}, Workers <- {"w1", "w2"}, Hosted <- TRUE, MaxAttempts <- 2,
  MaxDispatches <- 2, MaxRuns <- 3, MaxFaults <- 1, job <- laneJob, log <- laneLog,
  accepted <- laneAccepted, dispatch <- laneDispatch, worker <- laneWorker,
  allowed <- laneAllowed, runs <- laneRuns, faults <- laneFaults
Controls == INSTANCE BrowserControls WITH
  Requests <- {"r1", "r2"}, MaxClock <- 1, overlapped <- switchesOverlapped
Connector == INSTANCE Enrollment WITH
  Assignments <- {"a1", "a2"}, Installations <- {"i1", "i2"}, MaxTickets <- 3
Single == INSTANCE Enrollment WITH
  Assignments <- {"a1"}, Installations <- {"i1", "i2"}, MaxTickets <- 4,
  assignment <- singleAssignment, ticket <- singleTicket, device <- singleDevice,
  extension <- singleExtension, token <- singleToken, revoking <- singleRevoking
Local == INSTANCE LocalOrchestrator WITH
  Callers <- {"c1", "c2"}, Jobs <- {"j1", "j2"}, Inputs <- {"i1", "i2"},
  BrowserInputs <- {"i1"}, MaxAttempts <- 2, Lifetime <- 2, MaxTime <- 2, MaxCalls <- 5,
  now <- localNow, job <- localJob, node <- localNode, allowed <- localAllowed
OneJob == INSTANCE LocalOrchestrator WITH
  Callers <- {"c1", "c2"}, Jobs <- {"j1"}, Inputs <- {"i1"}, BrowserInputs <- {"i1"},
  MaxAttempts <- 2, Lifetime <- 2, MaxTime <- 2, MaxCalls <- 7, now <- oneJobNow,
  job <- oneJobJob, node <- oneJobNode, allowed <- oneJobAllowed, cancelled <- oneJobCancelled,
  caller <- oneJobCaller, captures <- oneJobCaptures, successes <- oneJobSuccesses,
  calls <- oneJobCalls, overlapped <- oneJobOverlapped
Gateway == INSTANCE GatewayResources WITH
  Kinds <- {"certificate", "load_balancer"}, MaxIds <- 3, MaxCreates <- 4, MaxFaults <- 2,
  faults <- gatewayFaults
Stack == INSTANCE GatewayResources WITH
  Kinds <- {"tag", "firewall", "ssh_key", "droplet"}, MaxIds <- 4, MaxCreates <- 1,
  MaxFaults <- 2, cloud <- stackCloud, journal <- stackJournal, op <- stackOp,
  verdict <- stackVerdict, ids <- stackIds, creates <- stackCreates, faults <- stackFaults
Tab == INSTANCE CurrentTab WITH
  Executions <- {"e1"}, Targets <- {"tabA", "tabB"}, Pages <- SomePages,
  Blockers <- {"captcha_required", "login_required"}, Approved <- "e1" :> Home("z1", {}),
  MaxMoves <- 1, MaxTries <- 2
Shared == INSTANCE ExtensionTabs WITH
  Tabs <- {"t1"}, Created <- {"t1"}, Reasons <- {"canceled_by_user", "target_closed"}
Two == INSTANCE ExtensionTabs WITH
  Tabs <- {"t1", "t2"}, Created <- {}, Reasons <- {"canceled_by_user"}, group <- twoGroup,
  lease <- twoLease, attachedTabs <- twoAttachedTabs, attachingTabs <- twoAttachingTabs,
  timer <- twoTimer, syncs <- twoSyncs, popup <- twoPopup, making <- twoMaking,
  detached <- twoDetached, recovering <- twoRecovering, paired <- twoPaired, relay <- twoRelay,
  reported <- twoReported

ASSUME PartsAssumptions ==
  /\ Lane!SourceJobsAssumption /\ Controls!BrowserControlsAssumption
  /\ Connector!EnrollmentAssumption /\ Single!EnrollmentAssumption
  /\ Local!OrchestratorBounds /\ OneJob!OrchestratorBounds
  /\ Gateway!GatewayBounds /\ Stack!GatewayBounds
  /\ Shared!ExtensionTabsAssumption /\ Two!ExtensionTabsAssumption

varsLane == <<laneJob, laneLog, laneAccepted, laneDispatch, laneWorker, laneAllowed, laneRuns,
    laneFaults>>
varsControls ==
  <<control, profile, node, assigned, writer, asked, wish, switchesOverlapped, now>>
varsConnector == <<assignment, ticket, device, extension, token, revoking>>
varsSingle == <<singleAssignment, singleTicket, singleDevice, singleExtension, singleToken,
    singleRevoking>>
varsLocal == <<localNow, localJob, localNode, localAllowed, cancelled, caller, captures, successes,
    calls, overlapped>>
varsOneJob == <<oneJobNow, oneJobJob, oneJobNode, oneJobAllowed, oneJobCancelled, oneJobCaller,
    oneJobCaptures, oneJobSuccesses, oneJobCalls, oneJobOverlapped>>
varsGateway == <<cloud, journal, op, verdict, ids, creates, gatewayFaults>>
varsStack == <<stackCloud, stackJournal, stackOp, stackVerdict, stackIds, stackCreates, stackFaults>>
varsTab == <<tabs, running, verified, pc, chosen, result, active, told, answers, tries, moves>>
varsShared == <<group, lease, attachedTabs, attachingTabs, timer, syncs, popup, making, detached,
    recovering, paired, relay, reported>>
varsTwo == <<twoGroup, twoLease, twoAttachedTabs, twoAttachingTabs, twoTimer, twoSyncs, twoPopup,
    twoMaking, twoDetached, twoRecovering, twoPaired, twoRelay, twoReported>>

Parts ==
  {"source jobs", "hosted jobs", "controls", "enrollment", "one assignment", "orchestrator",
   "one job", "gateway", "stack", "current tab", "shared tab", "two shared tabs"}

RunInit ==
  /\ part \in Parts
  /\ Init
  /\ Lane!Init
  /\ Controls!Init
  /\ Connector!Init
  /\ Single!Init
  /\ Local!Init
  /\ OneJob!Init
  /\ Gateway!Init
  /\ Stack!Init
  /\ Tab!Init /\ (part # "current tab" => tabs = [t \in {"tabA", "tabB"} |-> None] /\ ~running)
  /\ Shared!Init
  /\ Two!Init

RunNext ==
  /\ UNCHANGED part
  /\ IF part = "source jobs" THEN Next ELSE UNCHANGED vars
  /\ IF part = "hosted jobs" THEN Lane!Next ELSE UNCHANGED varsLane
  /\ IF part = "controls" THEN Controls!Next ELSE UNCHANGED varsControls
  /\ IF part = "enrollment" THEN Connector!Next ELSE UNCHANGED varsConnector
  /\ IF part = "one assignment" THEN Single!Next ELSE UNCHANGED varsSingle
  /\ IF part = "orchestrator" THEN Local!Next ELSE UNCHANGED varsLocal
  /\ IF part = "one job" THEN OneJob!Next ELSE UNCHANGED varsOneJob
  /\ IF part = "gateway" THEN Gateway!Next ELSE UNCHANGED varsGateway
  /\ IF part = "stack" THEN Stack!Next ELSE UNCHANGED varsStack
  /\ IF part = "current tab" THEN Tab!Next ELSE UNCHANGED varsTab
  /\ IF part = "shared tab" THEN Shared!Next ELSE UNCHANGED varsShared
  /\ IF part = "two shared tabs" THEN Two!Next ELSE UNCHANGED varsTwo

runVars ==
  <<part, vars, varsLane, varsControls, varsConnector, varsSingle, varsLocal, varsOneJob,
    varsGateway, varsStack, varsTab, varsShared, varsTwo>>
RunSpec == RunInit /\ [][RunNext]_runVars
-----------------------------------------------------------------------------
(* What the components promise. *)

(* No switch of the browser is on that nobody asked to enable, and without *)
(* overlapping requests the switches are what the last one made of them;   *)
(* an assignment has one live device, its credential is in one Chrome      *)
(* profile, a revocation leaves nothing live, and what was revoked or used *)
(* never comes back.                                                       *)
BrowserIsTheUsers ==
  /\ [](part = "controls" =>
       Controls!TypeOK /\ Controls!EnabledWasAsked /\ Controls!SwitchesAreTheLast)
  /\ [](part = "enrollment" =>
       Connector!TypeOK /\ Connector!OneDevicePerAssignment /\ Connector!RevocationIsComplete)
  /\ [](part = "one assignment" => Single!OneHolder)
  /\ Single!EndsAreFinal

(* What is captured from a tab is the approved listing and no dialog, a    *)
(* stopped capture is cancelled; and the relay is told only of tabs that   *)
(* are leased and shared, and every lease is known to the extension.       *)
TabsAreTheUsers ==
  /\ [](part = "current tab" => Tab!TypeOK /\ Tab!EvidenceIsTheListing /\ Tab!StoppedIsCancelled)
  /\ Tab!DialogsAreNotCaptured
  /\ [](part = "shared tab" => Shared!TypeOK /\ Shared!ReportedIsLeased)
  /\ [](part = "two shared tabs" => Two!ReportedIsTheSharedTab /\ Two!LeaseIsKnown)

(* A job that Maritime is to run is backed by a dispatch a worker can use, *)
(* and its capture is accepted once as well; the orchestrator of one       *)
(* process never makes two jobs of the same work and, unless calls for one *)
(* job overlap, captures no more often than it has attempts and completes  *)
(* it once; a node that was revoked stays so.                              *)
DispatchedJobsAreKept ==
  /\ [](part = "hosted jobs" => Lane!DispatchedIsBacked)
  /\ Lane!CapturesAreAcceptedOnce
  /\ [](part = "orchestrator" =>
       /\ Local!TypeOK /\ Local!OneJobPerInput
       /\ Local!CapturesInLimit /\ Local!CompletedOnce)
  /\ [](part = "one job" => OneJob!CapturesInLimit /\ OneJob!CompletedOnce)
  /\ Local!NodeGoesForward

(* No managed resource of the gateway is there twice; the journal says     *)
(* deleted only of what is gone and misses at most one resource for each   *)
(* crash or lost answer; and what others use is deleted after them.        *)
CloudIsAccountedFor ==
  /\ part = "gateway" => Gateway!TypeOK /\ Gateway!OnePerName /\ Gateway!DeletedIsAbsent
  /\ part = "stack" => Stack!FewUnknown /\ Stack!DependentsFirst

=============================================================================
