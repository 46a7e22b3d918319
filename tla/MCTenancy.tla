----------------------------- MODULE MCTenancy ------------------------------
(***************************************************************************)
(* Accounts, what belongs to an owner, the connection of an account to     *)
(* Google, and the offline demo, on small instances.  In this run they     *)
(* share no state: part names the component that moves and the others stay *)
(* as they started.                                                        *)
(***************************************************************************)
EXTENDS Accounts, TLC

VARIABLES
  part, \* the component that moves in this behaviour
  founderRequest, founderMember, founderAccount, founderSignup, founderAdmitted,
  founderSessions, founderChallenge, founderLinked, founderGranted, founderReceipts,
  founderDeletion, founderTraffic, founderBackup, founderLedger, founderBorn, founderReviews,
  founderFaults,  \* Founder
  twiceRequest, twiceMember, twiceAccount, twiceSignup, twiceAdmitted, twiceSessions,
  twiceChallenge, twiceLinked, twiceGranted, twiceReceipts, twiceDeletion, twiceTraffic,
  twiceBackup, twiceLedger, twiceBorn, twiceReviews, twiceFaults,  \* Twice
  rows, detached, receipt, capturingDeletion, export,  \* Capturing
  wholeRows, wholeDetached, wholeReceipt, wholeDeletion, wholeExport,  \* Whole
  exportingRows, exportingDetached, exportingReceipt, exportingDeletion, exportingExport,  \* Exporting
  db, disk, side, saved, queue, at, answer, committed, failures, restarts,  \* Store
  holdingDb, holdingDisk, holdingSide, holdingSaved, holdingQueue, holdingAt, holdingAnswer,
  holdingCommitted, holdingFailures, holdingRestarts,  \* Holding
  searchingDb, searchingDisk, searchingSide, searchingSaved, searchingQueue, searchingAt,
  searchingAnswer, searchingCommitted, searchingFailures, searchingRestarts,  \* Searching
  now, norm, records, revision, jobs, attempts, runs, held, crashes, node,  \* Queues
  nodesNow, nodesNorm, nodesRecords, nodesRevision, nodesJobs, nodesAttempts, nodesRuns,
  nodesHeld, nodesCrashes, nodesNode,  \* Nodes
  conn, schedule, lease, states, owner, live, googleGranted, op, agreed, revoked, used,  \* Google
  consentConn, consentSchedule, consentLease, consentStates, consentOwner, consentLive,
  consentGranted, consentOp, consentAgreed, consentRevoked, consentUsed,  \* Consent
  twoAccountsConn, twoAccountsSchedule, twoAccountsLease, twoAccountsStates, twoAccountsOwner,
  twoAccountsLive, twoAccountsGranted, twoAccountsOp, twoAccountsAgreed, twoAccountsRevoked,
  twoAccountsUsed  \* TwoAccounts

(* Kinds of keys: a table below two cascades, append-only rows that refer   *)
(* to four tables, a nullable reference, a membership.                      *)
Graph == INSTANCE OwnerGraph WITH Tables <- {}, Filled <- FALSE, AnyOrder <- FALSE,
  CanExport <- FALSE, deletion <- capturingDeletion
Captures == {"browserNodes", "browserProfileControls", "sourceJobs", "sourceJobAttempts",
             "rawListings", "browserCaptureAcceptances", "privacyDeletionChallenges",
             "betaMemberships"}
Listings == {"searchProfiles", "rawListings", "listingSourceRecords", "fieldProvenance",
             "canonicalListings", "canonicalFieldSources", "sessions"}
Report(beat, updated, status) == [beat |-> beat, updated |-> updated, status |-> status]

Founder == INSTANCE Accounts WITH
  People <- {"p1"}, Requests <- {"d1"}, Founders <- {"p1"}, MaxUsers <- 2, MaxReviews <- 1,
  MaxFaults <- 1, request <- founderRequest, member <- founderMember,
  account <- founderAccount, signup <- founderSignup, admitted <- founderAdmitted,
  sessions <- founderSessions, challenge <- founderChallenge, linked <- founderLinked,
  granted <- founderGranted, receipts <- founderReceipts, deletion <- founderDeletion,
  traffic <- founderTraffic, backup <- founderBackup, ledger <- founderLedger,
  born <- founderBorn, reviews <- founderReviews, faults <- founderFaults
Twice == INSTANCE Accounts WITH
  People <- {"p1"}, Requests <- {"d1", "d2"}, Founders <- {}, MaxUsers <- 1, MaxReviews <- 1,
  MaxFaults <- 1, request <- twiceRequest, member <- twiceMember, account <- twiceAccount,
  signup <- twiceSignup, admitted <- twiceAdmitted, sessions <- twiceSessions,
  challenge <- twiceChallenge, linked <- twiceLinked, granted <- twiceGranted,
  receipts <- twiceReceipts, deletion <- twiceDeletion, traffic <- twiceTraffic,
  backup <- twiceBackup, ledger <- twiceLedger, born <- twiceBorn, reviews <- twiceReviews,
  faults <- twiceFaults
Capturing == INSTANCE OwnerGraph WITH
  Tables <- Captures, Filled <- FALSE, AnyOrder <- TRUE, CanExport <- FALSE,
  deletion <- capturingDeletion
Whole == INSTANCE OwnerGraph WITH
  Tables <- DOMAIN Graph!Schema, Filled <- TRUE, AnyOrder <- FALSE, CanExport <- FALSE,
  rows <- wholeRows, detached <- wholeDetached, receipt <- wholeReceipt,
  deletion <- wholeDeletion, export <- wholeExport
Exporting == INSTANCE OwnerGraph WITH
  Tables <- Listings, Filled <- FALSE, AnyOrder <- FALSE, CanExport <- TRUE,
  rows <- exportingRows, detached <- exportingDetached, receipt <- exportingReceipt,
  deletion <- exportingDeletion, export <- exportingExport
Store == INSTANCE DemoStore WITH
  Requests <- {"r1", "r2", "r3"},
  KindOf <- "r1" :> "capture" @@ "r2" :> "rules" @@ "r3" :> "rules", MaxFailures <- 2,
  MaxRestarts <- 1
Holding == INSTANCE DemoStore WITH
  Requests <- {"r1", "r2", "r3"},
  KindOf <- "r1" :> "hold" @@ "r2" :> "hold" @@ "r3" :> "check", MaxFailures <- 2,
  MaxRestarts <- 0, db <- holdingDb, disk <- holdingDisk, side <- holdingSide,
  saved <- holdingSaved, queue <- holdingQueue, at <- holdingAt, answer <- holdingAnswer,
  committed <- holdingCommitted, failures <- holdingFailures, restarts <- holdingRestarts
Searching == INSTANCE DemoStore WITH
  Requests <- {"r1", "r2", "r3"},
  KindOf <- "r1" :> "run" @@ "r2" :> "rules" @@ "r3" :> "check", MaxFailures <- 2,
  MaxRestarts <- 1, db <- searchingDb, disk <- searchingDisk, side <- searchingSide,
  saved <- searchingSaved, queue <- searchingQueue, at <- searchingAt,
  answer <- searchingAnswer, committed <- searchingCommitted, failures <- searchingFailures,
  restarts <- searchingRestarts
Queues == INSTANCE DemoQueues WITH
  Raws <- {1, 2}, Workers <- {"w1", "w2"}, MaxAttempts <- 2, DecisionAttempts <- 2, Lease <- 1,
  MaxTime <- 1, MaxRevision <- 2, Crashes <- 1, Reports <- {}
Nodes == INSTANCE DemoQueues WITH
  Raws <- {1}, Workers <- {"w1"}, MaxAttempts <- 2, DecisionAttempts <- 2, Lease <- 1,
  MaxTime <- 2, MaxRevision <- 1, Crashes <- 1,
  Reports <- {Report(1, 1, "online"), Report(1, 2, "stale"), Report(2, 2, "online"), Report(2, 3, "revoked"), Report(3, 3, "online")},
  now <- nodesNow, norm <- nodesNorm, records <- nodesRecords, revision <- nodesRevision,
  jobs <- nodesJobs, attempts <- nodesAttempts, runs <- nodesRuns, held <- nodesHeld,
  crashes <- nodesCrashes, node <- nodesNode
Google == INSTANCE GoogleIntegration WITH
  Procs <- {"p1", "p2"}, States <- {"s1", "s2"}, Accounts <- {"a1"}, MaxTokens <- 2,
  MaxDisconnects <- 2, MaxRefreshes <- 1, MaxRotations <- 1, MaxOutages <- 1, MaxSlow <- 0,
  MaxCrashes <- 1, MaxWithdrawals <- 1, granted <- googleGranted
Consent == INSTANCE GoogleIntegration WITH
  Procs <- {"p1", "p2"}, States <- {"s1"}, Accounts <- {"a1"}, MaxTokens <- 2,
  MaxDisconnects <- 2, MaxRefreshes <- 2, MaxRotations <- 1, MaxOutages <- 1, MaxSlow <- 1,
  MaxCrashes <- 1, MaxWithdrawals <- 1, conn <- consentConn, schedule <- consentSchedule,
  lease <- consentLease, states <- consentStates, owner <- consentOwner, live <- consentLive,
  granted <- consentGranted, op <- consentOp, agreed <- consentAgreed, revoked <- consentRevoked,
  used <- consentUsed
TwoAccounts == INSTANCE GoogleIntegration WITH
  Procs <- {"p1", "p2"}, States <- {"s1", "s2"}, Accounts <- {"a1", "a2"}, MaxTokens <- 2,
  MaxDisconnects <- 0, MaxRefreshes <- 1, MaxRotations <- 0, MaxOutages <- 0, MaxSlow <- 1,
  MaxCrashes <- 1, MaxWithdrawals <- 1, conn <- twoAccountsConn,
  schedule <- twoAccountsSchedule, lease <- twoAccountsLease, states <- twoAccountsStates,
  owner <- twoAccountsOwner, live <- twoAccountsLive, granted <- twoAccountsGranted,
  op <- twoAccountsOp, agreed <- twoAccountsAgreed, revoked <- twoAccountsRevoked,
  used <- twoAccountsUsed

ASSUME PartsAssumptions ==
  /\ Founder!AccountBounds /\ Twice!AccountBounds
  /\ Capturing!TablesAssumption /\ Capturing!FlagsAssumption
  /\ Whole!TablesAssumption /\ Whole!FlagsAssumption
  /\ Exporting!TablesAssumption /\ Exporting!FlagsAssumption
  /\ Store!DemoBounds /\ Holding!DemoBounds
  /\ Searching!DemoBounds /\ Queues!DemoQueuesAssumption
  /\ Nodes!DemoQueuesAssumption /\ Google!IntegrationBounds
  /\ Consent!IntegrationBounds /\ TwoAccounts!IntegrationBounds

varsFounder == <<founderRequest, founderMember, founderAccount, founderSignup, founderAdmitted,
    founderSessions, founderChallenge, founderLinked, founderGranted, founderReceipts,
    founderDeletion, founderTraffic, founderBackup, founderLedger, founderBorn,
    founderReviews, founderFaults>>
varsTwice == <<twiceRequest, twiceMember, twiceAccount, twiceSignup, twiceAdmitted, twiceSessions,
    twiceChallenge, twiceLinked, twiceGranted, twiceReceipts, twiceDeletion,
    twiceTraffic, twiceBackup, twiceLedger, twiceBorn, twiceReviews, twiceFaults>>
varsCapturing == <<rows, detached, receipt, capturingDeletion, export>>
varsWhole == <<wholeRows, wholeDetached, wholeReceipt, wholeDeletion, wholeExport>>
varsExporting == <<exportingRows, exportingDetached, exportingReceipt, exportingDeletion, exportingExport>>
varsStore == <<db, disk, side, saved, queue, at, answer, committed, failures, restarts>>
varsHolding == <<holdingDb, holdingDisk, holdingSide, holdingSaved, holdingQueue, holdingAt,
    holdingAnswer, holdingCommitted, holdingFailures, holdingRestarts>>
varsSearching == <<searchingDb, searchingDisk, searchingSide, searchingSaved, searchingQueue,
    searchingAt, searchingAnswer, searchingCommitted, searchingFailures, searchingRestarts>>
varsQueues == <<now, norm, records, revision, jobs, attempts, runs, held, crashes, node>>
varsNodes == <<nodesNow, nodesNorm, nodesRecords, nodesRevision, nodesJobs, nodesAttempts,
    nodesRuns, nodesHeld, nodesCrashes, nodesNode>>
varsGoogle == <<conn, schedule, lease, states, owner, live, googleGranted, op, agreed, revoked,
    used>>
varsConsent == <<consentConn, consentSchedule, consentLease, consentStates, consentOwner, consentLive,
    consentGranted, consentOp, consentAgreed, consentRevoked, consentUsed>>
varsTwoAccounts == <<twoAccountsConn, twoAccountsSchedule, twoAccountsLease, twoAccountsStates,
    twoAccountsOwner, twoAccountsLive, twoAccountsGranted, twoAccountsOp,
    twoAccountsAgreed, twoAccountsRevoked, twoAccountsUsed>>

Parts ==
  {"accounts", "founder", "deletion sent twice", "owner of captures", "owner of everything",
   "export", "demo store", "demo holds", "demo search", "demo queues", "demo nodes", "google",
   "one consent", "two accounts"}

RunInit ==
  /\ part \in Parts
  /\ Init
  /\ Founder!Init
  /\ Twice!Init
  /\ Capturing!Init
  /\ Whole!Init
  /\ Exporting!Init
  /\ Store!Init
  /\ Holding!Init
  /\ Searching!Init
  /\ Queues!Init
  /\ Nodes!Init
  /\ Google!Init
  /\ Consent!Init
  /\ TwoAccounts!Init

RunNext ==
  /\ UNCHANGED part
  /\ IF part = "accounts" THEN Next ELSE UNCHANGED vars
  /\ IF part = "founder" THEN Founder!Next ELSE UNCHANGED varsFounder
  /\ IF part = "deletion sent twice" THEN Twice!Next ELSE UNCHANGED varsTwice
  /\ IF part = "owner of captures" THEN Capturing!Next ELSE UNCHANGED varsCapturing
  /\ IF part = "owner of everything" THEN Whole!Next ELSE UNCHANGED varsWhole
  /\ IF part = "export" THEN Exporting!Next ELSE UNCHANGED varsExporting
  /\ IF part = "demo store" THEN Store!Next ELSE UNCHANGED varsStore
  /\ IF part = "demo holds" THEN Holding!Next ELSE UNCHANGED varsHolding
  /\ IF part = "demo search" THEN Searching!Next ELSE UNCHANGED varsSearching
  /\ IF part = "demo queues" THEN Queues!Next ELSE UNCHANGED varsQueues
  /\ IF part = "demo nodes" THEN Nodes!Next ELSE UNCHANGED varsNodes
  /\ IF part = "google" THEN Google!Next ELSE UNCHANGED varsGoogle
  /\ IF part = "one consent" THEN Consent!Next ELSE UNCHANGED varsConsent
  /\ IF part = "two accounts" THEN TwoAccounts!Next ELSE UNCHANGED varsTwoAccounts

runVars ==
  <<part, vars, varsFounder, varsTwice, varsCapturing, varsWhole, varsExporting, varsStore,
    varsHolding, varsSearching, varsQueues, varsNodes, varsGoogle, varsConsent, varsTwoAccounts>>
RunSpec == RunInit /\ [][RunNext]_runVars
-----------------------------------------------------------------------------
(* What the components promise. *)

(* An active membership is of the user who has its address now, also when  *)
(* a founder comes back, and one challenge starts one deletion however     *)
(* often the page sends it.                                                *)
AccountsHaveOneUser ==
  /\ part = "founder" => Founder!ActiveIsLive
  /\ part = "deletion sent twice" => Twice!OneConsumer

(* After a disconnect nothing of the connection is left, one refresh or    *)
(* disconnect at a time is at Google and a token it has revoked is not     *)
(* stored again without a consent, but for leases that run out; and a      *)
(* connection never changes its account.                                   *)
TokensFollowConsent ==
  /\ [](part = "google" => Google!TypeOK /\ Google!DisconnectedIsClean /\ Google!OneAtGoogle)
  /\ [](part = "one consent" => Consent!OneAtGoogle /\ Consent!NoTokenWithoutConsent)
  /\ TwoAccounts!AccountIsStable

(* Whatever rows an owner has and in whatever order they came, the         *)
(* deletion succeeds and leaves none of them, and an export is closed      *)
(* under the references of its rows.                                       *)
OwnersLeaveNothing ==
  /\ part = "owner of captures" =>
       Capturing!TypeOK /\ Capturing!DeletionSucceeds /\ Capturing!DeletionIsComplete
  /\ part = "owner of everything" => Whole!DeletionSucceeds /\ Whole!DeletionIsComplete
  /\ part = "export" => Exporting!TypeOK /\ Exporting!ExportIsClosed

(* The store of the demo keeps what it committed, its sidecar agrees with  *)
(* its rows, a hold is approved once and a completed search is whole; its  *)
(* queues have one writer per job, write only rows the schema allows and   *)
(* only under a lease, decide each revision on its own corpus, and a node  *)
(* never goes back.                                                        *)
DemoKeepsItsPromises ==
  /\ [](part = "demo store" => Store!TypeOK /\ Store!CommittedStays /\ Store!SidecarAgrees)
  /\ [](part = "demo holds" => Holding!HoldApprovedOnce /\ Holding!SidecarAgrees)
  /\ [](part = "demo search" => Searching!CompletionIsWhole)
  /\ [](part = "demo queues" =>
       Queues!TypeOK /\ Queues!NormalizationRowsAreAllowed /\ Queues!OneWriterPerJob /\ Queues!DecisionRowsAreAllowed /\ Queues!OneRevisionPerListing /\ Queues!RunsAreOfTheirRevision)
  /\ Queues!LeasesAreRespected
  /\ [](part = "demo nodes" => Nodes!DecisionRowsAreAllowed)
  /\ Nodes!NodeNeverGoesBack

=============================================================================
