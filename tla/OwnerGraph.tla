----------------------------- MODULE OwnerGraph -----------------------------
(***************************************************************************)
(* The rows a user owns in Postgres and the foreign keys between them      *)
(* (packages/db/src/postgres/schema.ts), under the two operations that     *)
(* touch all of them: the deletion of the owner, which is one DELETE of    *)
(* the users row and everything the triggers of the foreign keys do        *)
(* (privacy-lifecycle-repository.ts), and the export of the owner's data.  *)
(*                                                                         *)
(* Every foreign key carries the owner's id, so the rows of two owners     *)
(* never meet and the model follows one of them, with at most one row per  *)
(* table.  A table is modelled by what its rows refer to; its other        *)
(* columns and its CHECK constraints are left out here.                    *)
(*                                                                         *)
(* Postgres queues the triggers of a statement: the deletes a cascade      *)
(* performs queue their own triggers, which run when those queued before   *)
(* them have run.  The order in which Postgres runs the triggers of one    *)
(* round is not modelled: any (AnyOrder), or one that TLC chooses.         *)
(***************************************************************************)
EXTENDS Naturals, FiniteSets, TLAPS

CONSTANTS
  Tables,    \* the owner's tables of this instance
  Filled,    \* TRUE: every table has its row at first; FALSE: only the user exists
  AnyOrder,  \* TRUE: the triggers of one round run in any order
  CanExport  \* FALSE: no export is taken

(***************************************************************************)
(* The tables.  A row refers to a row of each table of needs (the columns  *)
(* are NOT NULL) and may refer to a row of each table of may.  The rows    *)
(* of a frozen table are append-only: the trigger vera_reject_mutation     *)
(* refuses to change them.  A secret table is not exported (delete_only in *)
(* PRIVACY_OWNER_TABLE_POLICY).  All refer to users.                       *)
(***************************************************************************)
Table(needs, may, frozen, secret) ==
  [needs |-> needs, may |-> may, frozen |-> frozen, secret |-> secret]
Owned(needs, may)  == Table(needs, may, FALSE, FALSE)
Frozen(needs, may) == Table(needs, may, TRUE, FALSE)
Secret(needs, may) == Table(needs, may, FALSE, TRUE)

privacyDeletionChallenges == Secret({}, {})
betaMemberships == Owned({}, {})
sessions == Secret({}, {})
accounts == Secret({}, {})
integrationConnections == Owned({}, {})
integrationRefreshLeases == Secret({"integrationConnections"}, {})
availabilityRuleSets == Owned({}, {})
calendarOauthStates == Secret({}, {})
availabilityChecks == Frozen({"availabilityRuleSets"}, {"integrationConnections"})
searchProfiles == Owned({}, {})
rawListings == Frozen({}, {})
listingSourceRecords == Owned({"rawListings"}, {})
listingSourceRecordDispositions == Frozen({"listingSourceRecords"}, {})
listingPhotos == Owned({"listingSourceRecords"}, {})
listingEnrichmentStates == Owned({"listingSourceRecords"}, {})
listingEnrichmentSnapshots == Frozen({"listingSourceRecords"}, {})
fieldProvenance == Owned({"listingSourceRecords", "rawListings"}, {})
approvals == Owned({}, {})
normalizationJobs == Owned({"rawListings"}, {})
sourceJobs == Owned({}, {"approvals", "browserNodes"})
sourceJobAttempts == Frozen({"sourceJobs"}, {})
browserNodes == Owned({}, {})
browserGatewayAssignments == Owned({"browserNodes"}, {})
browserConnectorDevices == Owned({"browserGatewayAssignments"}, {})
browserConnectorEnrollmentTickets ==
  Secret({"browserGatewayAssignments", "browserConnectorDevices"}, {})
browserGatewayAcceptanceRuns == Owned({"browserGatewayAssignments"}, {})
browserUserControls == Owned({}, {})
browserSourceControls == Owned({}, {})
browserProfileControls == Owned({"browserNodes"}, {})
browserCaptureAcceptances ==
  Frozen({"sourceJobs", "sourceJobAttempts", "browserProfileControls", "rawListings"}, {})
listingExtractions == Frozen({"rawListings", "listingSourceRecords"}, {})
decisionCorpusState == Owned({"searchProfiles"}, {})
decisionJobs == Owned({"searchProfiles"}, {})
decisionJobAttempts == Frozen({"decisionJobs"}, {})
decisionRuns == Frozen({"decisionJobs", "searchProfiles"}, {})
duplicatePairEvaluations == Frozen({"decisionRuns", "listingSourceRecords"}, {})
duplicateOverrides == Frozen({"searchProfiles"}, {})
duplicateOverrideRevocations == Frozen({"duplicateOverrides"}, {})
duplicateClusters == Owned({"searchProfiles"}, {"decisionRuns"})
canonicalListings ==
  Owned({"searchProfiles", "listingSourceRecords"}, {"duplicateClusters", "decisionRuns"})
canonicalDecisionRuns == Frozen({"decisionRuns", "canonicalListings", "listingSourceRecords"}, {})
canonicalListingSources == Owned({"canonicalListings", "listingSourceRecords"}, {})
canonicalFieldSources == Owned({"canonicalListings", "fieldProvenance"}, {})
listingScores == Frozen({"canonicalListings"}, {"searchProfiles", "decisionRuns"})
riskSignals == Frozen({"canonicalListings"}, {"decisionRuns"})
contactWorkflows == Owned({"canonicalListings"}, {})
viewings == Owned({"canonicalListings"}, {})
calendarHolds == Owned({"viewings"}, {"approvals", "availabilityChecks"})
activityEvents == Frozen({}, {"approvals"})
maritimeDispatches == Owned({"sourceJobs"}, {})
productionSchedules == Owned({}, {})
productionScheduleRuns == Owned({"productionSchedules"}, {"sourceJobs"})
notificationPreferences == Owned({}, {})
webPushSubscriptions == Owned({}, {})
notificationDeliveries == Owned({"canonicalListings", "webPushSubscriptions"}, {})
notificationDigestItems == Owned({"notificationDeliveries"}, {})
gmailOauthStates == Secret({}, {})
gmailAlertCursors == Owned({}, {})
gmailAlertExternalReferences == Owned({"rawListings"}, {})

(* PRIVACY_OWNER_TABLE_POLICY: the tables with the id of an owner.         *)
Schema == [
  privacyDeletionChallenges |-> privacyDeletionChallenges, betaMemberships |-> betaMemberships,
   sessions |-> sessions, accounts |-> accounts,
   integrationConnections |-> integrationConnections,
   integrationRefreshLeases |-> integrationRefreshLeases,
   availabilityRuleSets |-> availabilityRuleSets, calendarOauthStates |-> calendarOauthStates,
   availabilityChecks |-> availabilityChecks, searchProfiles |-> searchProfiles,
   rawListings |-> rawListings, listingSourceRecords |-> listingSourceRecords,
   listingSourceRecordDispositions |-> listingSourceRecordDispositions,
   listingPhotos |-> listingPhotos, listingEnrichmentStates |-> listingEnrichmentStates,
   listingEnrichmentSnapshots |-> listingEnrichmentSnapshots,
   fieldProvenance |-> fieldProvenance, approvals |-> approvals,
   normalizationJobs |-> normalizationJobs, sourceJobs |-> sourceJobs,
   sourceJobAttempts |-> sourceJobAttempts, browserNodes |-> browserNodes,
   browserGatewayAssignments |-> browserGatewayAssignments,
   browserConnectorDevices |-> browserConnectorDevices,
   browserConnectorEnrollmentTickets |-> browserConnectorEnrollmentTickets,
   browserGatewayAcceptanceRuns |-> browserGatewayAcceptanceRuns,
   browserUserControls |-> browserUserControls, browserSourceControls |-> browserSourceControls,
   browserProfileControls |-> browserProfileControls,
   browserCaptureAcceptances |-> browserCaptureAcceptances,
   listingExtractions |-> listingExtractions, decisionCorpusState |-> decisionCorpusState,
   decisionJobs |-> decisionJobs, decisionJobAttempts |-> decisionJobAttempts,
   decisionRuns |-> decisionRuns, duplicatePairEvaluations |-> duplicatePairEvaluations,
   duplicateOverrides |-> duplicateOverrides,
   duplicateOverrideRevocations |-> duplicateOverrideRevocations,
   duplicateClusters |-> duplicateClusters, canonicalListings |-> canonicalListings,
   canonicalDecisionRuns |-> canonicalDecisionRuns,
   canonicalListingSources |-> canonicalListingSources,
   canonicalFieldSources |-> canonicalFieldSources, listingScores |-> listingScores,
   riskSignals |-> riskSignals, contactWorkflows |-> contactWorkflows, viewings |-> viewings,
   calendarHolds |-> calendarHolds, activityEvents |-> activityEvents,
   maritimeDispatches |-> maritimeDispatches, productionSchedules |-> productionSchedules,
   productionScheduleRuns |-> productionScheduleRuns,
   notificationPreferences |-> notificationPreferences,
   webPushSubscriptions |-> webPushSubscriptions,
   notificationDeliveries |-> notificationDeliveries,
   notificationDigestItems |-> notificationDigestItems, gmailOauthStates |-> gmailOauthStates,
   gmailAlertCursors |-> gmailAlertCursors,
   gmailAlertExternalReferences |-> gmailAlertExternalReferences]

Parents(t) == Schema[t].needs \cup Schema[t].may

TablesAssumption ==
  /\ Tables \subseteq DOMAIN Schema
  /\ \A t \in Tables : Schema[t].needs \subseteq Tables
FlagsAssumption == {Filled, AnyOrder, CanExport} \subseteq BOOLEAN

(* What the foreign key from c to p does when the row of p is deleted.     *)
OnDelete(p, c) ==
  CASE c = "betaMemberships" -> "set null"
    [] p = "users" \/ <<p, c>> \in {<<"integrationConnections", "integrationRefreshLeases">>,
                                    <<"browserNodes", "browserProfileControls">>} -> "cascade"
    [] OTHER -> "restrict"

VARIABLES
  rows,      \* table -> the tables its row refers to, for the tables that have a row
  detached,  \* the tables with a row whose owner is NULL
  receipt,   \* privacy_deletion_receipts has a row for the owner
  deletion,  \* the transaction of deleteOwnerAccount
  export     \* the transaction of exportOwner

vars == <<rows, detached, receipt, deletion, export>>

NoRows == [t \in {} |-> {}]
Idle == [phase |-> "idle", saved |-> NoRows, now |-> {}, next |-> {}]
NotExported == [phase |-> "idle", snapshot |-> NoRows, left |-> {}, got |-> NoRows]

Init ==
  /\ rows = IF Filled
            THEN [t \in Tables \cup {"users"} |-> IF t = "users" THEN {} ELSE Parents(t) \cap Tables]
            ELSE [t \in {"users"} |-> {}]
  /\ detached = {} /\ receipt = FALSE /\ deletion = Idle /\ export = NotExported

Put(f, t, refs) == [x \in DOMAIN f \cup {t} |-> IF x = t THEN refs ELSE f[x]]
Without(f, ts) == [x \in DOMAIN f \ ts |-> f[x]]
Has(t) == t \in DOMAIN rows
Refer(c, p) == Has(c) /\ (p = "users" \/ p \in rows[c])

(* What the other transactions see: nothing of a deletion under way.       *)
Committed == IF deletion.phase \in {"firing", "refused"} THEN deletion.saved ELSE rows

-----------------------------------------------------------------------------
(* The product at work.  A row is inserted once the rows it needs exist;   *)
(* its foreign key locks the users row, so it waits while the owner is     *)
(* deleted, and fails afterwards.                                          *)
Insert(t) ==
  /\ deletion.phase = "idle" /\ Has("users") /\ ~Has(t)
  /\ Schema[t].needs \subseteq DOMAIN rows
  /\ \E refs \in SUBSET (Schema[t].may \cap DOMAIN rows) :
       rows' = Put(rows, t, Schema[t].needs \cup refs)
  /\ UNCHANGED <<detached, receipt, deletion, export>>

(* A nullable reference is set later: an approval of a source job, the     *)
(* decision run that last wrote a canonical listing.                       *)
Attach(t, p) ==
  /\ deletion.phase = "idle" /\ Has(t) /\ Has(p)
  /\ p \in Schema[t].may \ rows[t] /\ ~Schema[t].frozen
  /\ rows' = Put(rows, t, rows[t] \cup {p})
  /\ UNCHANGED <<detached, receipt, deletion, export>>

(* The rows the product itself deletes: a reconciliation rewrites the      *)
(* members and field sources of the canonical listings.                    *)
Unlink ==
  /\ deletion.phase = "idle" /\ Has("users")
  /\ rows' = Without(rows, {"canonicalFieldSources", "canonicalListingSources"})
  /\ rows' # rows
  /\ UNCHANGED <<detached, receipt, deletion, export>>

-----------------------------------------------------------------------------
(* The rows without a foreign key to the owner, which go by e-mail.        *)
\* Faulty: the membership is left to the foreign key.
WithoutIdentityForgotten(rs) == rs
WithoutIdentity(rs) == Without(rs, {"betaMemberships"})

(* The triggers a deleted row of p queues: one per foreign key to p.       *)
Queued(p) == {<<p, c>> : c \in {c \in Tables : p = "users" \/ p \in Parents(c)}}

(* The deletion up to the DELETE of the users row: the consumed challenge  *)
(* is found, the receipt stored, the identity rows deleted.                *)
\* Faulty: the receipt is written once the owner's rows are gone.
BeginDeletionReceiptLast ==
  /\ deletion.phase = "idle" /\ Has("users")
  /\ "privacyDeletionChallenges" \in Tables => Has("privacyDeletionChallenges")
  /\ deletion' = [phase |-> "firing", saved |-> rows, now |-> Queued("users"), next |-> {}]
  /\ rows' = Without(WithoutIdentity(rows), {"users"})
  /\ UNCHANGED <<detached, receipt, export>>
BeginDeletion ==
  /\ deletion.phase = "idle" /\ Has("users")
  /\ "privacyDeletionChallenges" \in Tables => Has("privacyDeletionChallenges")
  /\ deletion' = [phase |-> "firing", saved |-> rows, now |-> Queued("users"), next |-> {}]
  /\ receipt' = TRUE
  /\ rows' = Without(WithoutIdentity(rows), {"users"})
  /\ UNCHANGED <<detached, export>>

Refuse == /\ deletion' = [deletion EXCEPT !.phase = "refused", !.now = {}, !.next = {}]
          /\ UNCHANGED <<rows, detached>>

(* vera_reject_mutation, as the privacy migration replaced it: a cascade   *)
(* may delete an append-only row of an owner who has a receipt.            *)
MayDelete(c) == ~Schema[c].frozen \/ receipt

(* The triggers a cascade's own delete queues join the next round.         *)
\* Faulty: they run before those already queued.
EnqueueFirst(d, e, more) ==
  IF more = {} THEN [d EXCEPT !.now = @ \ {e}]
  ELSE [d EXCEPT !.now = more, !.next = @ \cup (d.now \ {e})]
Enqueue(d, e, more) == [d EXCEPT !.now = @ \ {e}, !.next = @ \cup more]

(* One trigger e = <<parent, child>> of the running round.                 *)
Fire(e) == LET c == e[2]  act == OnDelete(e[1], e[2]) IN
  /\ deletion.phase = "firing" /\ e \in deletion.now
  /\ IF ~Refer(c, e[1])
     THEN deletion' = Enqueue(deletion, e, {}) /\ UNCHANGED <<rows, detached>>
     ELSE CASE act = "set null" ->
                 /\ rows' = Without(rows, {c}) /\ detached' = detached \cup {c}
                 /\ deletion' = Enqueue(deletion, e, {})
            [] act = "cascade" /\ MayDelete(c) ->
                 /\ rows' = Without(rows, {c}) /\ UNCHANGED detached
                 /\ deletion' = Enqueue(deletion, e, Queued(c))
            [] OTHER -> Refuse
  /\ UNCHANGED <<receipt, export>>

FireAny == IF AnyOrder THEN \E e \in deletion.now : Fire(e)
           ELSE deletion.now # {} /\ Fire(CHOOSE e \in deletion.now : TRUE)

NextRound ==
  /\ deletion.phase = "firing" /\ deletion.now = {} /\ deletion.next # {}
  /\ deletion' = [deletion EXCEPT !.now = deletion.next, !.next = {}]
  /\ UNCHANGED <<rows, detached, receipt, export>>

(* countOwnerRows finds nothing left, and the transaction commits.         *)
Commit ==
  /\ deletion.phase = "firing" /\ deletion.now \cup deletion.next = {}
  /\ IF DOMAIN rows = {} THEN deletion' = [Idle EXCEPT !.phase = "done"] /\ UNCHANGED <<rows, detached>>
     ELSE Refuse
  /\ UNCHANGED <<receipt, export>>

(* An error of the database, or a crash, before the commit.                *)
\* Faulty: what the transaction did stays.
RollbackNothing ==
  /\ deletion.phase \in {"firing", "refused"} /\ deletion' = Idle
  /\ UNCHANGED <<rows, detached, receipt, export>>
Rollback ==
  /\ deletion.phase \in {"firing", "refused"}
  /\ rows' = deletion.saved /\ detached' = {} /\ receipt' = FALSE /\ deletion' = Idle
  /\ UNCHANGED export

-----------------------------------------------------------------------------
(* The export: the tables are read one by one in one snapshot.             *)
BeginExport ==
  /\ CanExport /\ export.phase = "idle" /\ "users" \in DOMAIN Committed
  /\ export' = [phase |-> "reading", snapshot |-> Committed, got |-> NoRows,
                left |-> {t \in Tables : ~Schema[t].secret}]
  /\ UNCHANGED <<rows, detached, receipt, deletion>>

\* Faulty: every table is read as it is by then.
LoadExportRowsNow(t) == IF t \in DOMAIN Committed THEN Put(export.got, t, Committed[t]) ELSE export.got
LoadExportRows(t) ==
  IF t \in DOMAIN export.snapshot THEN Put(export.got, t, export.snapshot[t]) ELSE export.got

ReadTable ==
  /\ export.phase = "reading" /\ export.left # {}
  /\ LET t == CHOOSE t \in export.left : TRUE IN
       export' = [export EXCEPT !.left = @ \ {t}, !.got = LoadExportRows(t)]
  /\ UNCHANGED <<rows, detached, receipt, deletion>>

FinishExport ==
  /\ export.phase = "reading" /\ export.left = {}
  /\ export' = [export EXCEPT !.phase = "sent", !.snapshot = NoRows]
  /\ UNCHANGED <<rows, detached, receipt, deletion>>

Next ==
  \/ \E t \in Tables : Insert(t) \/ \E p \in Tables : Attach(t, p)
  \/ Unlink \/ BeginDeletion \/ FireAny \/ NextRound \/ Commit \/ Rollback
  \/ BeginExport \/ ReadTable \/ FinishExport

Spec == Init /\ [][Next]_vars

-----------------------------------------------------------------------------
(* Properties.                                                             *)

(* Outside of a deletion every reference names a row of the owner, and     *)
(* nothing lost its owner: a failed deletion is undone as a whole.         *)
TypeOK ==
  /\ DOMAIN rows \subseteq Tables \cup {"users"}
  /\ detached \subseteq Tables /\ receipt \in BOOLEAN
  /\ deletion.phase \in {"idle", "firing", "refused", "done"}
  /\ deletion.now \cup deletion.next \subseteq (Tables \cup {"users"}) \X Tables
  /\ export.phase \in {"idle", "reading", "sent"}
  /\ deletion.phase = "idle" =>
       /\ Has("users") /\ detached = {} /\ ~receipt
       /\ \A t \in DOMAIN rows \ {"users"} :
            Schema[t].needs \subseteq rows[t] /\ rows[t] \subseteq DOMAIN rows

(* No foreign key and no append-only trigger stops the deletion of an      *)
(* owner, whatever rows the owner has and in whatever order the triggers   *)
(* run: every RESTRICT is tested when the rows it protects are gone too.   *)
DeletionSucceeds == deletion.phase # "refused"

(* A deletion that commits leaves no row of the owner, not even one that   *)
(* no longer names its owner, and leaves the receipt.                      *)
DeletionIsComplete == deletion.phase = "done" => rows = NoRows /\ detached = {} /\ receipt

(* An export taken while the product works and the owner is deleted is     *)
(* whole: it holds every row that a row of it refers to.                   *)
ExportIsClosed ==
  export.phase = "sent" => \A t \in DOMAIN export.got : export.got[t] \subseteq DOMAIN export.got
-----------------------------------------------------------------------------
(* Theorems, for every set of tables that TablesAssumption allows.         *)

(* The schema                                                              *)

(* The tables an export leaves out.                                        *)
Secrets ==
  {"privacyDeletionChallenges", "sessions", "accounts", "integrationRefreshLeases",
   "calendarOauthStates", "browserConnectorEnrollmentTickets", "gmailOauthStates"}

(* No table is called as the users are; nothing refers to the rows a       *)
(* reconciliation deletes, and nothing exported to a row that is not.      *)
LEMMA SchemaFacts ==
  ASSUME NEW t \in DOMAIN Schema
  PROVE  /\ t # "users"
         /\ Parents(t) \cap {"users", "canonicalFieldSources", "canonicalListingSources"} = {}
         /\ Schema[t].secret => t \in Secrets
         /\ ~Schema[t].secret => Parents(t) \cap Secrets = {}
<1>1. t \in {
         "privacyDeletionChallenges", "betaMemberships", "sessions", "accounts",
         "integrationConnections", "integrationRefreshLeases",
         "availabilityRuleSets", "calendarOauthStates", "availabilityChecks",
         "searchProfiles", "rawListings", "listingSourceRecords",
         "listingSourceRecordDispositions", "listingPhotos",
         "listingEnrichmentStates", "listingEnrichmentSnapshots", "fieldProvenance",
         "approvals", "normalizationJobs", "sourceJobs", "sourceJobAttempts",
         "browserNodes", "browserGatewayAssignments", "browserConnectorDevices",
         "browserConnectorEnrollmentTickets", "browserGatewayAcceptanceRuns",
         "browserUserControls", "browserSourceControls", "browserProfileControls",
         "browserCaptureAcceptances", "listingExtractions", "decisionCorpusState",
         "decisionJobs", "decisionJobAttempts", "decisionRuns",
         "duplicatePairEvaluations", "duplicateOverrides",
         "duplicateOverrideRevocations", "duplicateClusters", "canonicalListings",
         "canonicalDecisionRuns", "canonicalListingSources",
         "canonicalFieldSources", "listingScores", "riskSignals",
         "contactWorkflows", "viewings", "calendarHolds", "activityEvents",
         "maritimeDispatches", "productionSchedules", "productionScheduleRuns",
         "notificationPreferences", "webPushSubscriptions",
         "notificationDeliveries", "notificationDigestItems", "gmailOauthStates",
         "gmailAlertCursors", "gmailAlertExternalReferences"}
  BY DEF Schema
<1>2. /\ Schema.privacyDeletionChallenges = privacyDeletionChallenges
      /\ Schema.betaMemberships = betaMemberships /\ Schema.sessions = sessions
      /\ Schema.accounts = accounts /\ Schema.integrationConnections = integrationConnections
      /\ Schema.integrationRefreshLeases = integrationRefreshLeases
      /\ Schema.availabilityRuleSets = availabilityRuleSets
      /\ Schema.calendarOauthStates = calendarOauthStates
      /\ Schema.availabilityChecks = availabilityChecks
      /\ Schema.searchProfiles = searchProfiles /\ Schema.rawListings = rawListings
      /\ Schema.listingSourceRecords = listingSourceRecords
      /\ Schema.listingSourceRecordDispositions = listingSourceRecordDispositions
      /\ Schema.listingPhotos = listingPhotos
      /\ Schema.listingEnrichmentStates = listingEnrichmentStates
      /\ Schema.listingEnrichmentSnapshots = listingEnrichmentSnapshots
      /\ Schema.fieldProvenance = fieldProvenance /\ Schema.approvals = approvals
      /\ Schema.normalizationJobs = normalizationJobs /\ Schema.sourceJobs = sourceJobs
      /\ Schema.sourceJobAttempts = sourceJobAttempts /\ Schema.browserNodes = browserNodes
      /\ Schema.browserGatewayAssignments = browserGatewayAssignments
      /\ Schema.browserConnectorDevices = browserConnectorDevices
      /\ Schema.browserConnectorEnrollmentTickets = browserConnectorEnrollmentTickets
      /\ Schema.browserGatewayAcceptanceRuns = browserGatewayAcceptanceRuns
      /\ Schema.browserUserControls = browserUserControls
      /\ Schema.browserSourceControls = browserSourceControls
      /\ Schema.browserProfileControls = browserProfileControls
      /\ Schema.browserCaptureAcceptances = browserCaptureAcceptances
      /\ Schema.listingExtractions = listingExtractions
      /\ Schema.decisionCorpusState = decisionCorpusState /\ Schema.decisionJobs = decisionJobs
      /\ Schema.decisionJobAttempts = decisionJobAttempts /\ Schema.decisionRuns = decisionRuns
      /\ Schema.duplicatePairEvaluations = duplicatePairEvaluations
      /\ Schema.duplicateOverrides = duplicateOverrides
      /\ Schema.duplicateOverrideRevocations = duplicateOverrideRevocations
      /\ Schema.duplicateClusters = duplicateClusters
      /\ Schema.canonicalListings = canonicalListings
      /\ Schema.canonicalDecisionRuns = canonicalDecisionRuns
      /\ Schema.canonicalListingSources = canonicalListingSources
      /\ Schema.canonicalFieldSources = canonicalFieldSources
      /\ Schema.listingScores = listingScores /\ Schema.riskSignals = riskSignals
      /\ Schema.contactWorkflows = contactWorkflows /\ Schema.viewings = viewings
      /\ Schema.calendarHolds = calendarHolds /\ Schema.activityEvents = activityEvents
      /\ Schema.maritimeDispatches = maritimeDispatches
      /\ Schema.productionSchedules = productionSchedules
      /\ Schema.productionScheduleRuns = productionScheduleRuns
      /\ Schema.notificationPreferences = notificationPreferences
      /\ Schema.webPushSubscriptions = webPushSubscriptions
      /\ Schema.notificationDeliveries = notificationDeliveries
      /\ Schema.notificationDigestItems = notificationDigestItems
      /\ Schema.gmailOauthStates = gmailOauthStates
      /\ Schema.gmailAlertCursors = gmailAlertCursors
      /\ Schema.gmailAlertExternalReferences = gmailAlertExternalReferences
  BY SMTT(30) DEF Schema
<1>3. QED
  BY <1>1, <1>2, SMTT(60) DEF Parents, Secrets, Owned, Frozen, Secret, Table,
         privacyDeletionChallenges, betaMemberships, sessions, accounts,
         integrationConnections, integrationRefreshLeases, availabilityRuleSets,
         calendarOauthStates, availabilityChecks, searchProfiles, rawListings,
         listingSourceRecords, listingSourceRecordDispositions, listingPhotos,
         listingEnrichmentStates, listingEnrichmentSnapshots, fieldProvenance,
         approvals, normalizationJobs, sourceJobs, sourceJobAttempts, browserNodes,
         browserGatewayAssignments, browserConnectorDevices,
         browserConnectorEnrollmentTickets, browserGatewayAcceptanceRuns,
         browserUserControls, browserSourceControls, browserProfileControls,
         browserCaptureAcceptances, listingExtractions, decisionCorpusState,
         decisionJobs, decisionJobAttempts, decisionRuns, duplicatePairEvaluations,
         duplicateOverrides, duplicateOverrideRevocations, duplicateClusters,
         canonicalListings, canonicalDecisionRuns, canonicalListingSources,
         canonicalFieldSources, listingScores, riskSignals, contactWorkflows,
         viewings, calendarHolds, activityEvents, maritimeDispatches,
         productionSchedules, productionScheduleRuns, notificationPreferences,
         webPushSubscriptions, notificationDeliveries, notificationDigestItems,
         gmailOauthStates, gmailAlertCursors, gmailAlertExternalReferences

LEMMA TableFacts ==
  ASSUME TablesAssumption, NEW t \in Tables
  PROVE  /\ t \in DOMAIN Schema /\ t # "users" /\ Schema[t].needs \subseteq Tables
         /\ Parents(t) \cap {"users", "canonicalFieldSources", "canonicalListingSources"} = {}
<1>1. t \in DOMAIN Schema /\ Schema[t].needs \subseteq Tables
  BY DEF TablesAssumption
<1>2. QED BY <1>1, SchemaFacts

-----------------------------------------------------------------------------
(* The inductive invariant                                                 *)

IsFun(f) == f = [x \in DOMAIN f |-> f[x]]

(* The rows of an owner nobody is deleting.                                *)
Whole(rs) ==
  /\ IsFun(rs) /\ "users" \in DOMAIN rs /\ DOMAIN rs \subseteq Tables \cup {"users"}
  /\ \A t \in DOMAIN rs \ {"users"} :
       Schema[t].needs \subseteq rs[t] /\ rs[t] \subseteq DOMAIN rs /\ rs[t] \subseteq Parents(t)

Forms ==
  /\ deletion = [phase |-> deletion.phase, saved |-> deletion.saved, now |-> deletion.now,
                 next |-> deletion.next]
  /\ deletion.phase \in {"idle", "firing", "done"}
  /\ deletion.now \cup deletion.next \subseteq (Tables \cup {"users"}) \X Tables
  /\ detached = {} /\ receipt \in BOOLEAN

Kept == deletion.phase = "idle" => Whole(rows) /\ ~receipt

(* While a deletion fires, what is left still has its cascade of the user  *)
(* ahead of it, and triggers of other rows run when nothing is left.       *)
Falling ==
  deletion.phase = "firing" =>
    /\ Whole(deletion.saved) /\ receipt
    /\ IsFun(rows) /\ DOMAIN rows \subseteq Tables \ {"betaMemberships"}
    /\ \A c \in DOMAIN rows : <<"users", c>> \in deletion.now
    /\ deletion.now \subseteq {"users"} \X Tables \/ DOMAIN rows = {}

Fallen == deletion.phase = "done" => rows = NoRows /\ receipt

DeletionInv == Forms /\ Kept /\ Falling /\ Fallen

Shared == {t \in Tables : ~Schema[t].secret}

Copied ==
  /\ export = [phase |-> export.phase, snapshot |-> export.snapshot, left |-> export.left,
               got |-> export.got]
  /\ export.phase \in {"idle", "reading", "sent"}
  /\ export.phase = "reading" =>
       /\ Whole(export.snapshot) /\ export.left \subseteq Shared
       /\ DOMAIN export.got = (DOMAIN export.snapshot \cap Shared) \ export.left
       /\ \A t \in DOMAIN export.got : export.got[t] = export.snapshot[t]

GraphInv == DeletionInv /\ Copied /\ ExportIsClosed
-----------------------------------------------------------------------------
LEMMA WholePut ==
  ASSUME TablesAssumption, NEW rs, Whole(rs), NEW t \in Tables, NEW refs, refs \subseteq DOMAIN rs,
         Schema[t].needs \subseteq refs, refs \subseteq Parents(t)
  PROVE  Whole(Put(rs, t, refs))
BY TableFacts DEF Whole, Put, IsFun

LEMMA WholeUnlink ==
  ASSUME TablesAssumption, NEW rs, Whole(rs)
  PROVE  Whole(Without(rs, {"canonicalFieldSources", "canonicalListingSources"}))
BY TableFacts, "users" # "canonicalFieldSources", "users" # "canonicalListingSources"
   DEF Whole, Without, IsFun

LEMMA InitInv ==
  ASSUME TablesAssumption, Init
  PROVE  GraphInv
<1>1. Whole(rows)
  <2>1. CASE Filled
    <3>1. "users" \notin Tables
      BY TableFacts
    <3>2. /\ DOMAIN rows = Tables \cup {"users"} /\ IsFun(rows)
          /\ \A t \in Tables : rows[t] = Parents(t) \cap Tables
      BY <2>1, <3>1 DEF Init, IsFun
    <3>3. \A t \in Tables : Schema[t].needs \subseteq Parents(t) \cap Tables
      BY TableFacts DEF Parents
    <3>4. QED BY <3>1, <3>2, <3>3 DEF Whole
  <2>2. CASE ~Filled
    BY <2>2 DEF Init, Whole, IsFun
  <2>3. QED BY <2>1, <2>2
<1>2. DeletionInv
  BY <1>1 DEF Init, DeletionInv, Forms, Kept, Falling, Fallen, Idle
<1>3. Copied /\ ExportIsClosed
  BY DEF Init, Copied, ExportIsClosed, NotExported
<1>4. QED BY <1>2, <1>3 DEF GraphInv

-----------------------------------------------------------------------------
(* The deletion                                                            *)

LEMMA WorkKeeps ==
  ASSUME TablesAssumption, DeletionInv,
         (\E t \in Tables : Insert(t) \/ \E p \in Tables : Attach(t, p)) \/ Unlink
  PROVE  DeletionInv'
<1>1. deletion.phase = "idle" /\ UNCHANGED <<detached, receipt, deletion>>
  BY DEF Insert, Attach, Unlink
<1>2. Whole(rows) /\ ~receipt
  BY <1>1 DEF DeletionInv, Kept
<1>3. Whole(rows')
  <2>1. ASSUME NEW t \in Tables, Insert(t) PROVE Whole(rows')
    BY <2>1, <1>2, WholePut DEF Insert, Parents
  <2>2. ASSUME NEW t \in Tables, NEW p \in Tables, Attach(t, p) PROVE Whole(rows')
    <3>1. /\ t \in DOMAIN rows /\ p \in DOMAIN rows /\ p \in Parents(t)
          /\ rows' = Put(rows, t, rows[t] \cup {p})
      BY <2>2 DEF Attach, Has, Parents
    <3>2. t # "users"
      BY TableFacts
    <3>3. /\ Schema[t].needs \subseteq rows[t] /\ rows[t] \subseteq DOMAIN rows
          /\ rows[t] \subseteq Parents(t)
      BY <3>1, <3>2, <1>2 DEF Whole
    <3>4. QED BY <3>1, <3>3, <1>2, WholePut
  <2>3. CASE Unlink
    BY <2>3, <1>2, WholeUnlink DEF Unlink
  <2>4. QED BY <2>1, <2>2, <2>3
<1>4. QED BY <1>1, <1>2, <1>3 DEF DeletionInv, Forms, Kept, Falling, Fallen

LEMMA BeginKeeps ==
  ASSUME TablesAssumption, DeletionInv, BeginDeletion
  PROVE  DeletionInv'
<1>1. Whole(rows) /\ deletion.phase = "idle"
  BY DEF DeletionInv, Kept, BeginDeletion
<1>2. /\ deletion' = [phase |-> "firing", saved |-> rows, now |-> Queued("users"), next |-> {}]
      /\ receipt' = TRUE /\ detached' = detached
      /\ rows' = [x \in (DOMAIN rows \ {"betaMemberships"}) \ {"users"} |-> rows[x]]
  BY DEF BeginDeletion, WithoutIdentity, Without
<1>3. Queued("users") = {"users"} \X Tables
  BY DEF Queued
<1>4. Forms'
  BY <1>2, <1>3 DEF DeletionInv, Forms
<1>5. DOMAIN rows' \subseteq Tables \ {"betaMemberships"} /\ IsFun(rows')
  BY <1>1, <1>2 DEF Whole, IsFun
<1>6. QED BY <1>1, <1>2, <1>3, <1>4, <1>5 DEF DeletionInv, Kept, Falling, Fallen

LEMMA FireKeeps ==
  ASSUME TablesAssumption, DeletionInv, NEW e \in deletion.now, Fire(e)
  PROVE  DeletionInv'
<1> DEFINE c == e[2]
<1>1. deletion.phase = "firing" /\ c \in Tables /\ e = <<e[1], c>>
  <2>1. e \in (Tables \cup {"users"}) \X Tables
    BY DEF DeletionInv, Forms
  <2>2. e[2] \in Tables /\ e = <<e[1], e[2]>>
    BY <2>1
  <2>3. deletion.phase = "firing"
    BY DEF Fire
  <2>4. QED BY <2>2, <2>3
<1>2. CASE ~Refer(c, e[1])
  <2>1. deletion' = [deletion EXCEPT !.now = @ \ {e}, !.next = @ \cup {}]
    BY <1>2 DEF Fire, Enqueue
  <2>2. UNCHANGED <<rows, detached, receipt>>
    BY <1>2 DEF Fire
  <2>3. e[1] = "users" => c \notin DOMAIN rows
    BY <1>2 DEF Refer, Has
  <2>4. Falling'
    BY <1>1, <2>1, <2>2, <2>3 DEF DeletionInv, Forms, Falling
  <2>5. QED BY <1>1, <2>1, <2>2, <2>4 DEF DeletionInv, Forms, Kept, Fallen
<1>3. CASE Refer(c, e[1])
  <2>1. c \in DOMAIN rows /\ e[1] = "users" /\ c # "betaMemberships" /\ receipt
    BY <1>1, <1>3 DEF Refer, Has, DeletionInv, Falling
  <2>2. OnDelete(e[1], c) = "cascade" /\ MayDelete(c)
    BY <2>1 DEF OnDelete, MayDelete
  <2>3. /\ rows' = [x \in DOMAIN rows \ {c} |-> rows[x]]
        /\ deletion' = [deletion EXCEPT !.now = @ \ {e}, !.next = @ \cup Queued(c)]
        /\ UNCHANGED <<detached, receipt>>
    BY <1>3, <2>2 DEF Fire, Enqueue, Without
  <2>4. Queued(c) \subseteq Tables \X Tables
    BY <1>1 DEF Queued
  <2>5. Forms'
    BY <2>3, <2>4 DEF DeletionInv, Forms
  <2>6. Falling'
    BY <1>1, <2>1, <2>3 DEF DeletionInv, Forms, Falling, IsFun
  <2>7. QED BY <1>1, <2>3, <2>5, <2>6 DEF DeletionInv, Forms, Kept, Fallen
<1>4. QED BY <1>2, <1>3

LEMMA RoundKeeps ==
  ASSUME DeletionInv, NextRound
  PROVE  DeletionInv'
<1>1. DOMAIN rows = {}
  BY DEF NextRound, DeletionInv, Falling
<1>2. QED BY <1>1 DEF NextRound, DeletionInv, Forms, Kept, Falling, Fallen

LEMMA CommitKeeps ==
  ASSUME DeletionInv, Commit
  PROVE  DeletionInv'
<1>1. DOMAIN rows = {} /\ receipt /\ IsFun(rows)
  BY DEF Commit, DeletionInv, Falling
<1>2. rows = NoRows
  BY <1>1 DEF IsFun, NoRows
<1>3. deletion' = [Idle EXCEPT !.phase = "done"] /\ UNCHANGED <<rows, detached, receipt>>
  BY <1>1 DEF Commit
<1>4. QED BY <1>1, <1>2, <1>3 DEF DeletionInv, Forms, Kept, Falling, Fallen, Idle

LEMMA RollbackKeeps ==
  ASSUME DeletionInv, Rollback
  PROVE  DeletionInv'
BY DEF Rollback, DeletionInv, Forms, Kept, Falling, Fallen, Idle

-----------------------------------------------------------------------------
(* The export                                                              *)

LEMMA CommittedIsWhole ==
  ASSUME TablesAssumption, DeletionInv, "users" \in DOMAIN Committed
  PROVE  Whole(Committed)
BY DEF DeletionInv, Forms, Kept, Falling, Fallen, Committed, NoRows

LEMMA ExportKeeps ==
  ASSUME TablesAssumption, DeletionInv, Copied, ExportIsClosed,
         BeginExport \/ ReadTable \/ FinishExport
  PROVE  Copied' /\ ExportIsClosed'
<1>1. CASE BeginExport
  <2>1. Whole(Committed)
    BY <1>1, CommittedIsWhole DEF BeginExport
  <2>2. export' = [phase |-> "reading", snapshot |-> Committed, got |-> NoRows, left |-> Shared]
    BY <1>1 DEF BeginExport, Shared
  <2>3. QED BY <2>1, <2>2 DEF Copied, ExportIsClosed, NoRows
<1>2. CASE ReadTable
  <2>1. PICK t \in export.left :
          export' = [export EXCEPT !.left = @ \ {t}, !.got = LoadExportRows(t)]
    BY <1>2 DEF ReadTable
  <2>2. export.phase = "reading" /\ t \in Shared
    BY <1>2, <2>1 DEF ReadTable, Copied
  <2>3. /\ DOMAIN LoadExportRows(t) = (DOMAIN export.snapshot \cap Shared) \ (export.left \ {t})
        /\ \A u \in DOMAIN LoadExportRows(t) : LoadExportRows(t)[u] = export.snapshot[u]
    BY <2>1, <2>2 DEF LoadExportRows, Put, Copied
  <2>4. QED BY <2>1, <2>2, <2>3 DEF Copied, ExportIsClosed
<1>3. CASE FinishExport
  <2>1. export.phase = "reading" /\ export.left = {}
    BY <1>3 DEF FinishExport
  <2>2. \A t \in DOMAIN export.got : export.got[t] \subseteq DOMAIN export.got
    <3> SUFFICES ASSUME NEW t \in DOMAIN export.got, NEW p \in export.got[t]
                 PROVE  p \in DOMAIN export.got
      OBVIOUS
    <3>1. t \in DOMAIN export.snapshot \cap Shared /\ p \in export.snapshot[t]
      BY <2>1 DEF Copied
    <3>2. t # "users" /\ Parents(t) \cap Secrets = {} /\ "users" \notin Parents(t)
      BY <3>1, TableFacts, SchemaFacts DEF Shared
    <3>3. p \in DOMAIN export.snapshot /\ p \in Parents(t)
      BY <3>1, <3>2, <2>1 DEF Copied, Whole
    <3>4. p \in Tables
      BY <3>2, <3>3, <2>1 DEF Copied, Whole
    <3>5. ~Schema[p].secret
      BY <3>2, <3>3, <3>4, TableFacts, SchemaFacts
    <3>6. QED BY <3>3, <3>4, <3>5, <2>1 DEF Copied, Shared
  <2>3. export' = [export EXCEPT !.phase = "sent", !.snapshot = NoRows]
    BY <1>3 DEF FinishExport
  <2>4. QED BY <2>2, <2>3 DEF Copied, ExportIsClosed
<1>4. QED BY <1>1, <1>2, <1>3

LEMMA StepInv ==
  ASSUME TablesAssumption, GraphInv, [Next]_vars
  PROVE  GraphInv'
<1>1. DeletionInv'
  <2>1. CASE (\E t \in Tables : Insert(t) \/ \E p \in Tables : Attach(t, p)) \/ Unlink
    BY <2>1, WorkKeeps DEF GraphInv
  <2>2. CASE BeginDeletion
    BY <2>2, BeginKeeps DEF GraphInv
  <2>3. CASE FireAny
    <3>1. PICK e \in deletion.now : Fire(e)
      BY <2>3 DEF FireAny
    <3>2. QED BY <3>1, FireKeeps DEF GraphInv
  <2>4. CASE NextRound
    BY <2>4, RoundKeeps DEF GraphInv
  <2>5. CASE Commit
    BY <2>5, CommitKeeps DEF GraphInv
  <2>6. CASE Rollback
    BY <2>6, RollbackKeeps DEF GraphInv
  <2>7. CASE BeginExport \/ ReadTable \/ FinishExport \/ UNCHANGED vars
    <3>1. UNCHANGED <<rows, detached, receipt, deletion>>
      BY <2>7 DEF BeginExport, ReadTable, FinishExport, vars
    <3>2. QED BY <3>1 DEF GraphInv, DeletionInv, Forms, Kept, Falling, Fallen
  <2>8. QED BY <2>1, <2>2, <2>3, <2>4, <2>5, <2>6, <2>7 DEF Next
<1>2. Copied' /\ ExportIsClosed'
  <2>1. CASE BeginExport \/ ReadTable \/ FinishExport
    BY <2>1, ExportKeeps DEF GraphInv
  <2>2. CASE ~(BeginExport \/ ReadTable \/ FinishExport)
    <3>1. UNCHANGED export
      BY <2>2 DEF Next, vars, Insert, Attach, Unlink, BeginDeletion, FireAny, Fire, NextRound,
                  Commit, Rollback
    <3>2. QED BY <3>1 DEF GraphInv, Copied, ExportIsClosed
  <2>3. QED BY <2>1, <2>2
<1>3. QED BY <1>1, <1>2 DEF GraphInv

LEMMA Invariance ==
  ASSUME TablesAssumption
  PROVE  Spec => []GraphInv
<1>1. Init => GraphInv
  BY InitInv
<1>2. GraphInv /\ [Next]_vars => GraphInv'
  BY StepInv
<1>3. QED BY <1>1, <1>2, PTL DEF Spec

(* Whatever tables an owner has rows in, with whatever optional references *)
(* and in whatever order the triggers of a round run, deleteOwnerAccount   *)
(* is stopped by no RESTRICT and no append-only trigger, and leaves none   *)
(* of the rows, but the receipt.                                           *)
THEOREM OwnersAreDeleted ==
  ASSUME TablesAssumption
  PROVE  Spec => [](DeletionSucceeds /\ DeletionIsComplete)
<1>1. GraphInv => DeletionSucceeds /\ DeletionIsComplete
  BY DEF GraphInv, DeletionInv, Forms, Fallen, DeletionSucceeds, DeletionIsComplete
<1>2. QED BY <1>1, Invariance, PTL

(* An export is closed under the references of its rows, also while the    *)
(* product writes and the owner is being deleted.                          *)
THEOREM ExportsAreClosed ==
  ASSUME TablesAssumption
  PROVE  Spec => []ExportIsClosed
<1>1. GraphInv => ExportIsClosed
  BY DEF GraphInv
<1>2. QED BY <1>1, Invariance, PTL

(* A deletion that fails is undone as a whole: while none is under way the *)
(* references name rows of the owner, and nothing lost its owner.          *)
THEOREM TypeCorrect ==
  ASSUME TablesAssumption
  PROVE  Spec => []TypeOK
<1>1. GraphInv => TypeOK
  <2> SUFFICES ASSUME GraphInv PROVE TypeOK
    OBVIOUS
  <2>1. DOMAIN rows \subseteq Tables \cup {"users"}
    BY DEF GraphInv, DeletionInv, Forms, Kept, Falling, Fallen, Whole, NoRows
  <2>2. deletion.phase = "idle" =>
          /\ Has("users") /\ detached = {} /\ ~receipt
          /\ \A t \in DOMAIN rows \ {"users"} :
               Schema[t].needs \subseteq rows[t] /\ rows[t] \subseteq DOMAIN rows
    BY DEF GraphInv, DeletionInv, Forms, Kept, Whole, Has
  <2>3. QED BY <2>1, <2>2 DEF GraphInv, DeletionInv, Forms, Copied, TypeOK
<1>2. QED BY <1>1, Invariance, PTL
=============================================================================
