# Vera: a verification development

TLA+ models of Vera, the rental search application of this repository: its web
application, its workers, the PostgreSQL and SQLite stores they share, the browser
gateway and the Chrome extension. The models are checked with TLC, and the parts
that matter most are proved with TLAPS. Every definition is translated from the
code; `PROJECT.json` maps each one to its lines.

Contents: [inventory](#inventory), [modules](#modules), [how the models correspond
to the code](#how-the-models-correspond-to-the-code), [abstractions](#abstractions),
[runs](#runs), [fairness](#fairness), [proofs](#proofs), [what is only
model-checked](#what-is-only-model-checked), [findings](#findings), [what is not
modelled](#what-is-not-modelled), [plan](#plan).

## Inventory

Vera gathers rental listings for a user's search profiles, normalizes them, merges
duplicates, scores what is left and shows an inbox. Most coordination goes through
PostgreSQL rows: the web application and scripts write them, and worker processes
poll queues of them.

### Core path

| component | state | operations | interacts with |
|---|---|---|---|
| Decision corpus (`packages/db/src/postgres/decision-repositories.ts`) | a corpus revision per profile, `decision_jobs` (one per profile and target revision), source records, dispositions, duplicate overrides; beside it, the lifecycle state of each listing, which no revision covers | `bumpCorpusRevisionAndEnqueue`, `enqueueCurrentRevision` | called inside the transactions of normalization, overrides and repairs; its jobs are the decision lane's queue |
| Decision lane (`apps/worker/src/decision-worker.ts`, `postgres/decision-reconciliation.ts`, `postgres/worker-queue.ts`) | job status, lease owner, attempts; `decision_runs`; active canonical listings of a profile (the projection) | claim, `readSnapshot`, `evaluateCorpus`, `applyPlan`, `fail`, `finalizeCompletedLiveSearches` | reads everything the corpus writers change while they change it; completes live searches |
| Normalization lane (`apps/worker/src/normalization-worker.ts`, `postgres/standard-repositories.ts`) | `normalization_jobs`, one per raw listing | enqueue, claim, extraction, persist transaction, `fail` | adds source records and raises the corpus revision |
| Worker runtime (`decision-runtime.ts`, `lifecycle.ts`, `postgres-runtime.ts`) | the lane index, the running poll | rotate, poll, stop | gives each lane one poll in turn |
| Live search and rental research (`apps/web/lib/live-search-service.ts`, `rental-research-service.ts`) | source jobs and activity events of the run | check, retry, branches per source, import loop, stop, completion | enqueues normalization, asks for a decision, races with the finalizer |
| Canonical identity (`decision-reconciliation.ts`, `scoring/src/evaluate-corpus.ts`, `dedupe/cluster.ts`, `canonical/identity.ts`) | canonical listings, redirects, members, overrides | cluster, identify, supersede, override, repair | is what a decision writes |

What is hard here: several workers and many writers share the rows; a snapshot is
read by separate statements with no transaction around them, and part of it, the
lifecycle states, is written back; jobs of several
revisions of one profile are in progress at once and end in any order; a commit
whose reply is lost looks like an error to its caller; a process can stop between
any two statements; an import loop, a finalizer and two lanes have to hand a listing
over without losing it.

What makes it correct: the inbox shows one state of the corpus, never goes back, and
catches up with the newest state; every job has one holder, is decided once and
keeps its outcome; no change of the corpus is forgotten; a listing enters the corpus
once or its job says why not; a search is completed when and only when it should be.

### Around it

| component | state | hard part | what makes it correct |
|---|---|---|---|
| Acquisition (`acquisition-worker.ts`, source jobs) and Maritime dispatch | `source_jobs`, attempts, acceptances, dispatches | attempt, capture and transition are separate transactions, none fenced by the lease | a capture is accepted once, for a completed job, under its attempt; a dispatched job has a dispatch |
| Local orchestrator of the demo | jobs, inputs, node | a call awaits between its check and its write, and writes back the copy of the job it read (`maritime-orchestrator.ts:242-276`, 358, 583-603) | one job per input, however calls overlap; as many captures as attempts, and one completion, for jobs whose calls do not overlap |
| Production schedules | schedules, runs | claims by polling, kicks and switches race | a due run is handled once |
| Notifications | deliveries, subscriptions, preferences | quiet hours, hourly limit, switching off while sending | announced once and only while on; shown again only for a lost lease, worker or answer; what counts as delivered was shown; settled in the end unless a delivery out of attempts blocks the queue |
| Listing enrichment | enrichment records, leases, source jobs | unfenced requests, restarts, bounded drains | a lease has its job; snapshots go forward; queued is served |
| Google connection, token refresh | connection row, states, refresh lease | refresh and disconnect work with what they read before the lease | one refresh at Google unless a lease runs out under it; a revoked token is stored again only by a new consent, or by a refresh whose lease ran out; nothing left after a disconnect |
| Gmail alerts | references, cursor | overlapping runs | an alert is imported once with all of its page, if all of the page can be read |
| Calendar holds | viewings, holds, approvals, events at Google | lost answers of the calendar, overlapping and late requests | one event per viewing, approved and over no conflict |
| Browser controls, connector enrollment, current tab, Chrome extension | switches, nodes, assignments, tickets, devices, shared tabs, leases | read-modify-write, two-part revocations, awaited browser calls | nothing is enabled that nobody asked for; the switches are as they were last set, unless two requests overlap; one device; only shared tabs are reported |
| Browser gateway infrastructure | cloud resources, journal | crashes between a creation and its entry | nothing in the cloud is lost track of |
| Zillow and browser research tools | the program of a run, checkpoints | lost answers, tabs that change, cancellation | a control is pressed once, on the approved tab, within the plan |
| Beta access, accounts, privacy lifecycle | requests, memberships, accounts, challenges, receipts, backups | reviews, sign-up, deletion and restore in any order | revoked stays revoked; deleted stays deleted; no row of the owner is left |
| Source policies | manifests, stored versions, switches | releases seeded in any order | retractions hold, switches only refuse |
| Inbox, reads, views and search panel | what pages were told | answers in any order | what is shown was stored; a search starts as confirmed |
| Offline demo and SQLite queues | one connection, a mutex, a sidecar; queues with leases | transactions that suspend, restarts | what was committed stays; one writer per job |
| Risk, ranking, duplicates | evidence | order of arrival | scores add up; a signal is never stored twice; links anchored |

`PROJECT.json` lists every component with its status, and under `hazards` the lines
where these things bite with the properties that watch them.

## Modules

    Publication                what a reader of the inbox is promised
         ^ refined by
    Decisions  ----+
      EXTENDS      |  INSTANCE
    Corpus  <----- Pipeline
      EXTENDS      |  INSTANCE
    Normalization -+

The other components have a module each. The header of a module says what its state stands for.

| module | models |
|---|---|
| Corpus | revisions, decision jobs, sources, dispositions, overrides and every transaction that changes them |
| Decisions | the decision lane, run by any number of workers beside those transactions and live searches, with faults |
| Publication | the abstract specification: a profile's projection is replaced by the corpus of the moment in one step, never by an older one |
| Normalization | the normalization lane with its own jobs and faults |
| Pipeline | both lanes over one corpus under the rotation of the worker runtime |
| Canonicals | clusters with overrides, identities, redirects, repairs, on both stores |
| Duplicates, Ranking, Risks | the algorithms of a decision, under evidence that arrives and changes |
| ListingEnrichment | requests, drains, leases and runs of enrichment |
| SourcePolicies | manifests, releases, switches and who asks them |
| SourceJobs | acquisition and Maritime dispatch |
| LocalOrchestrator | the orchestrator of one process |
| BrowserControls, Enrollment, CurrentTab, ExtensionTabs | switches, connector enrollment, capture of the open tab, the Chrome extension |
| GatewayResources | the operator tools of the browser gateway |
| ResearchRuns, ResearchStatus | searches, and the status that is derived of them |
| ZillowResearch, BrowserResearch | the tools that browse under a signed plan |
| CalendarHolds, Notifications, ProductionSchedules, GmailAlerts | the services |
| ListingInbox, InboxViews, ListingReads, SearchPage | what the user is shown |
| Accounts, GoogleIntegration, OwnerGraph | accounts, the Google connection, the rows of an owner |
| DemoStore, DemoQueues | the offline demo and the SQLite queues |
| MCDecisionLane, MCEvidence, MCAcquisition, MCResearch, MCServices, MCTenancy, MCLiveness | instances of the above for TLC |
| Decisions_proofs, Accounts_proofs, CalendarHolds_proofs, ResearchRuns_proofs | the theorems; those of Normalization, SourceJobs, OwnerGraph and Enrollment are at the end of these modules |

An MC module holds instances of several components that share no state. Its
variable `part` names the one that moves in a behaviour; the others stay as they
started. So a run explores the union of its components' state spaces, not their
product, and a property of the run is a conjunction of properties of its parts, each
under `part = ...`. The component an MC module extends has its constants in the
`.cfg`, the others in the module.

Definitions whose comment starts with "Faulty" are variants with a plausible bug (a
dropped check, a missing bump, a swapped order); they belong to no specification. Each property
has some that, put in the place of the right definition, TLC refutes the property
with (`mutants` in `PROJECT.json`): a property no such bug could break would say
nothing about the code.

## How the models correspond to the code

The headers of the modules and the comments of the actions say which handler an
action is. This section is about the core path and about the conventions that all
modules share.

**Conventions.** A transaction is a step where its row locks or unique indexes make
it one; a handler that reads, awaits and writes is as many steps as it has awaits,
and what it read is part of its state in between. A guard is the code's condition; a
refusal or an early return is a step of its own when it changes something. A crash
drops what a process knows and keeps the rows; a lost reply lets the commit happen
and sends the caller to its error path. Requests of users, faults and other
processes may come between any two steps.

**Corpus.** `revision` is `decision_corpus_state.revision`. `jobs[p][r]` is the row
of `decision_jobs` that the unique index on user, profile and target revision
allows, with status, attempt count, lease owner, error class and the numbers of its
`decision_job_attempts` rows. `sources` are source records, named by their raw
listing; `invalid` those whose newest disposition rules them out. `Bump` is
`bumpCorpusRevisionAndEnqueue`; its callers are `CommitSource` (persist
transaction), `CreateOverride` (the POST route) and `RepairSources` (the repair
script).

**Decisions.** A worker's `phase` is its place in `processNextDecisionJob`:

| phase | reached by | code |
|---|---|---|
| claimed | `Claim` | `claimNextDecisionJob` |
| checked | `ReadRevision` (`FindStale` fails instead) | the revision test of `readSnapshot` |
| dispositions, sources, priors, planned | `ReadDispositions`, `ReadSources`, `ReadPriors`, `ReadOverrides` | the statements of `readSnapshot` in their order; `evaluateCorpus` is pure |
| applied | `ApplyPlan` (`RefusePlan` fails instead) | `applyPlan`, `applyValidatedPlan` |
| idle | `Finalize` | `finalizeCompletedLiveSearches` |
| failing, then idle | `SaveFailure`, `FailureRefused` | the catch block |

What a plan computes is abstracted to what it was computed from: a run's `input` is
the snapshot the worker read, and `projection[p]` the members and overrides the
active canonicals were built from. That is what freshness and ordering are about;
how canonicals are formed and scored is in Canonicals, Duplicates, Ranking and
Risks. One field of what is read is kept as a value, because it is written back: the
lifecycle state. `life[raw]` is the state of the listing that shows a source; the user
and the calendar change it (`MoveListing`, which is `transitionLifecycle`) without
raising the revision. `ReadPriors` reads the states of the shown listings into
`lifeRead[w]`, and `ApplyPlan` writes them over whatever the rows hold by then
(`decision-reconciliation.ts:415`, 741, 783). `moved[w]` remembers which listings were
moved in between; it is history and no action looks at it. `WorkFails` is any statement
or the evaluation throwing. Faults are `Crash` (also the aborted signal, which leaves
the job as it is), `ClaimReplyLost`,
`ApplyReplyLost`, `FailureLost` and `FinalizeFails`. `ImportListing` and
`EndImports` are the loop of `runLiveSearch` and what follows it.

**Normalization.** `rows[raw]` is the listing's `normalization_jobs` row. `Persist`
is the persist transaction: the listing has no result yet, one profile, the lease is
held, and the row that `complete` returns parses (`NormalizationJobSchema`, modelled
as `Parses`). `complete` leaves the error columns alone and so does the model; see
the findings.

**Pipeline.** `turn[w]` is the index of the rotating runtime, restricted to the two
lanes modelled; `PollIdle` is a poll that finds nothing. `Free` is the poller's rule
of one poll at a time.

**SourceJobs.** A worker goes claimed, executed, recorded: the attempt, the
acceptance and the transition are written by separate transactions. A claim takes an
expired lease, and what is saved afterwards is not compared with the lease, so two
workers can run one job. `dispatch[d]` is a row of the dispatches with the place of
its request (`wake`, `mark`, `done`), which can be overtaken.

**CalendarHolds.** `req[r]` is a request with what it has read; every read of the
calendar or of a row is a step, and `late` are inserts whose answer was given up and
which may still be carried out. A hold is the reservation of one exact event, so its
approval and its event id are named by it. The listing's lifecycle state has a writer
besides the calendar and the user: a decision reads it (`ReadPriors`; `plan` is what was
read) and stores it again when it commits (`ApplyPlan`). `putBack` says that a decision
has replaced a newer state by an older one. ListingInbox has the same two steps; there
`decided` are the entries of a listing's history that a decision wrote.

**Accounts.** A user is a number; a person, who keeps one address and one Google
subject, can be several users one after the other. `backup` is a dump of the tables
and `ledger` the record of receipts the restore script applies again.

## Abstractions

- *Time.* Retry delays only pass. Where an expired lease matters (source jobs,
  notifications, enrichment, demo queues, token refresh) its expiry is a step or a
  clock ticks; in the decision and normalization lanes it changes nothing, because no
  hosted claim takes a running or leased row (see the findings).
- *Claim order.* Claims order rows by `available_at` and creation; with retry delays
  any claimable row can be first, so any may be.
- *Transactions* that are single steps by simplification: the finalizer (two at once
  could both append `live_search_completed`), `enqueueCurrentRevision` outside a
  transaction (its read and insert), and, with two profiles only, the check of the
  sources and the writes of `applyPlan`.
- *Statements of the snapshot* that read rows of one owner are one read each: the
  sources with their provenance and photos, the active canonicals with their
  members and lifecycle states.
- *Data.* A listing, a message, a page or a payload is a model value or a record of
  the fields the control looks at; text is the set of rules or words it matches, an
  address a set of words, a photo the set of its hash bits, money a small number.
- *The set of profiles* is a constant, although editing a profile inserts a new one.
- *Never called:* job cancellation and override revocation have no caller in the
  hosted application. The replay branch of `applyPlan` is kept as a refusal and shown
  unreachable (`ClaimIsUndecided`).
- *Outside services* (Google, Maritime, the push provider, RentCast, the cloud
  provider, the browser) are choices over the answers the code distinguishes.
- *Pipeline* has no faults; the two lanes have them.

## Runs

| run | parts and their instances | shows |
|---|---|---|
| `decisions` | one profile: 2 workers, 2 listings, 1 override, dismissals at any time, 3 revisions, 2 attempts, 1 fault; two profiles: 2 workers, 2 listings, 1 revision each; live search: 1 search, 2 workers, 2 listings, 2 revisions, 1 fault; pipeline: 2 workers, 1 listing, 1 override, 1 search, 2 revisions | `SnapshotHolds`, `AppliedPlanIsCurrent`, `NewestRunShown`, `SettledProjectionIsFresh`, `EveryRevisionHasJob`, `JobsAreDecidedOnce`, the refinement of Publication; `ProfilesStayApart`; `SearchEndsWithARun` |
| `liveness` | 15 components with one or two actors each, under `RunFairness`; notifications: 2 listings, 1 per hour, 2 attempts, so that a deferred delivery uses them up; mail: 3 messages on pages of 2, one of them unreadable | `JobsEnd`, `DueHappens`, `RequestsAreAnswered` |
| `evidence` | normalization: 2 workers, 2 listings and one without a profile, 3 attempts, 2 faults; risks: 5 sources of 4 listings in four corpora; ranking: 3 profiles, 2 listings; duplicates: 7 sources; enrichment: 4 claims, 1 crash; policies: 3 releases; canonicals: 3 sources, 2 overrides, 5 revisions and a dismissal on PostgreSQL, the same without it on SQLite, and with a repair | `RowsAreSound`, `EveryListingIsDecided`, `OutcomeIsFinal`; `EvidenceIsJudged`, `ListingsAreKept`, `SourcesAreFollowed` |
| `acquisition` | source jobs: 1 job, 2 workers, 2 attempts, 3 runs, 2 faults, direct, and 2 dispatches with Maritime; controls: 2 requests that may overlap; enrollment: 2 assignments, 2 installations, 3 tickets, and one assignment with 4; orchestrator: 2 callers on 2 jobs, and on one job with 7 calls; gateway and stack: 3 or 4 resources, 2 faults; current tab: 2 tabs, 7 pages; shared tabs: one, and two | `CapturesAreAcceptedOnce`, `DispatchedJobsAreKept`, `BrowserIsTheUsers`, `TabsAreTheUsers`, `CloudIsAccountedFor` |
| `research` | runs: 1 request with RentCast and Zillow, 2 listings, 1 crash; retries: 3 requests that retry one search; 2 browser sources in turn, 1 crash; the Zillow tool with 2 faults, without any, and with 21 actions; the browser tool as a discovery, without faults, with 15 actions, and as a capture; status: Zillow with RentCast, and Marketplace with crashes; reads of the cards with an enrichment, of a page over 2 runs; views: lists of 2 of 5 cards | `OneSearchAtATime`, `RetriesAreSearches` (the same of the retries and of sources in turn), `BrowsesAsApproved`, `StatusTellsTheTruth`, `CardsAreOfOneDecision` |
| `services` | holds: 2 requests, 1 viewing, 2 holds, decisions of the listing; replaced hold: 2 viewings; notifications: 2 workers, 2 listings; schedules: 2 workers, 2 requests; mail: 2 workers, 3 messages, one unreadable; inbox: 1 listing with a decision, and 2 listings, 2 requests each; the search panel with 2 profiles, with a housing website, and polling | `HoldsAreApproved`, `EachIsHandledOnce`, `ShownIsStored`, `SearchIsTheUsers` |
| `tenancy` | accounts: 1 person who is 2 users in turn; the same as a founder; a deletion sent twice; the rows of an owner: of captures in any order, of all tables, and an export; the demo store with captures, holds, a search and a restart, its queues and nodes; Google: 2 processes, 2 tokens, 1 crash, with an outage, with an outage and a lease that runs out, and with two accounts and a slow refresh | `RevokedStays`, `AccountsEnd`, `AccountsHaveOneUser`, `OwnersLeaveNothing`, `TokensFollowConsent`, `DemoKeepsItsPromises` |
| `stranded_decision`, `early_completion`, `retry_is_lost`, `move_is_undone`, `repeated_signal` | 1 worker, as small as the case allows | the findings |

Every property is stated in words above its definition; the parts of a composite are
stated in the module of their component. The runs of the first seven rows also check
the `TypeOK` of their components.

*Bounds.* A bound stops users and faults, not workers: what has been started can
always be finished. `MaxRevision` at 3 leaves two older revisions whose jobs can end
after the newest, so both orders of stale jobs occur. Two workers, or two requests,
are the least that race; a third would repeat a role, because they meet only at a row
and a row has one holder. `MaxAttempts` is 3 in the code and 2 where one retry and
one last attempt suffice. One fault strands a job or loses a reply; two change an
owner or leave a lost call behind. Where a property needs a longer history (a hold
that replaces another, an account that comes back, a credential that is revoked and
issued again) a part of its own has the longer history and fewer actors. The proofs
are for every value.

Deadlock is not checked: when the bounds are reached and the work is done, there is
nothing left to do. Symmetry is over listings and workers of the extended component,
and only in runs without liveness.

## Fairness

`RunFairness` (MCLiveness) states what the host of each component schedules and
nothing else:

| component | fair | because |
|---|---|---|
| decisions, normalization, pipeline | the steps of each worker | `createAsyncWorkerPoller` starts the next poll whatever the last one returned or threw, and a poll runs to its end |
| source jobs | the steps of each worker, the expiry of a lease | the same poller; time passes |
| research | the branches, their settlement, normalization and decision | the promises of a request run on; the workers poll |
| demo queues | the clock, claims and the outcomes a worker of the demo reaches without crashing | the worker loop of the demo |
| notifications | workers, expiry of leases, deliveries that become due, the end of the quiet hours, deliveries that leave the last hour | the poller; time passes |
| schedules, mail | the clock, the worker, the write of a request that was read | the poller |
| enrichment | processing, drains, the delay of a retry, expiry of leases; strongly, the claim of a record | the drain is started by every request and claims in order, so a record that is queued again and again is not passed over for ever |
| accounts | the steps of a request that deletes, the restore script, sign-in | a request runs to its end |
| gateway | the operator's sweep and the steps of a tool, the provider's deletion | an operator runs the cleanup until it succeeds |
| inbox, demo store, shared tabs | answers of the server, steps of a request, timers and Chrome's callbacks | the event loop |

Users, captures, failures of the work and faults are never fair. In the lanes the
liveness parts have no faults, because there a fault can strand a job for ever
(`stranded_decision`); a crash of a search, an enrichment, a request of the demo, a
restore or a gateway tool is survived and allowed.

Three limits of the code are met in these parts and are conditions of the
properties. A delivery whose attempts are used up cannot be claimed (the CHECK of
`schema.ts:3022` lets a claim of the 21st attempt fail), and while it is the oldest that
is due, nothing else can (`Stuck`): deliveries are settled as long as the queue does not
stand still behind one. One message that cannot be read fails every run of its page: an
alert is imported if it comes to stay on a page of readable ones. A decision job that
fails at every attempt ends as given up.

Corpus changes end at `MaxRevision`: a corpus that never stops changing can keep
every plan from being applied, and the code does not promise otherwise. A job that
ends in a failure counts as an end; the property would be false if a *stale* retry
could use up the attempts of the newest job (`CurrentJobIsNeverStale`, which is
proved, says it cannot).

## Proofs

The theorems hold for every value of the constants that satisfies the named
assumptions: `CorpusAssumption` (there is a profile, the bound is a natural number),
`DecisionsAssumption` (at least one attempt, a profile for every search, an owner for
unheld rows that is no worker's), `NormalizationAssumption` (the same for its lane),
`SourceJobsAssumption`, `ResearchRunsAssumption`, `AccountBounds` and `BoundsAreSmall`, `ChecksAreOutcomes` of
CalendarHolds (bounds are natural numbers, sets that are counted are finite, a value
for "none" is none of the values). OwnerGraph and Enrollment have theirs,
`TablesAssumption` (tables of the schema, each with those its mandatory references
name) and `EnrollmentAssumption`, as hypotheses of each theorem. The runs evaluate all
of them, those two for every instance in `PartsAssumptions`.

### Decisions

| theorem | property |
|---|---|
| `TypeCorrect` | `TypeOK` |
| `RevisionsHaveJobs` | `EveryRevisionHasJob` |
| `SnapshotsAreCoherent` | `SnapshotHolds` |
| `NewestRunIsShown` | `NewestRunShown` |
| `SettledIsFresh` | `SettledProjectionIsFresh` |
| `PlansAreCurrent` | `AppliedPlanIsCurrent` |
| `Implements` | `ImplementsPublication`: Decisions refines Publication |
| `JobsDecidedOnce` | `JobsAreDecidedOnce` |
| `SourcesAreShared` | `SourceInOneProjection` |
| `CompletionsNameRuns` | `CompletionNamesARun` |

*The argument.* The hard fact is that a plan put together from five unsynchronized
statements is a plan for one state of the corpus. It rests on the revision: whoever
changes sources, dispositions or overrides raises it in the same
transaction. The lifecycle state of a listing is the exception: it is read with the
canonicals and moved without raising anything, so `SnapshotHolds` covers the states of
the listings nobody has moved since they were read (`moved`), and
`AppliedPlanIsCurrent` says that a commit leaves the states of the shown listings as
they are, but for those. That the exception is real is the run `move_is_undone`. The inductive
invariant follows a worker through its reads. `Coherent(w)` says that *as long as the
corpus is at the job's target*, each part that has been read still equals what the
database holds; the next statement extends it (lemma `CoherentReads`), a corpus
change leaves the target behind for ever (`CoherentChange`), and another worker's
commit can only change the projection of this profile at this revision by giving the
job a run (`CoherentCommit`), which the guard of `applyPlan` excludes. `applyPlan`
tests the target under a lock, so what it commits is current (`CommitIsCurrent`), and
newest: `ShownInv` keeps the projection at the newest run, whose revision the corpus
has reached. The whole invariant is

    TypeOK /\ EveryRevisionHasJob /\ ClaimsFollow /\ SnapshotHolds
           /\ ProjectionFollows /\ NewestRunShown /\ SettledProjectionIsFresh

where `ClaimsFollow` (a claim never targets a revision the corpus has not reached; it
needs `EveryRevisionHasJob`, since jobs exist only up to the revision) and
`ProjectionFollows` (nor does a projection) are the strengthening. For the refinement
each commit is shown to be a `Publish` of the profile, each corpus change a `Change`,
and everything else a stutter. With several profiles `SettledProjectionIsFresh` says
nothing, because sources belong to the user and another profile's change raises
another revision; the refinement still holds, since `applyPlan` compares the sources
themselves (`CoversSources`). The proof covers that case too.

*Jobs decided once* needs an invariant of the queue itself:

    LaneInv == JobsAreSound /\ ClaimsHold /\ OneWorkerPerJob /\ RunIffSucceeded

The attempts of a job are on record, all but the one that runs, and a job that can
be claimed has an attempt left (`JobsAreSound`); a worker with a claim still owns the
job under the attempt it claimed, unless its plan has committed and the job has
succeeded (`ClaimsHold`). That exception is what a lost reply makes of a claim, and
the reason why `OneWorkerPerJob` alone is not inductive. A job that failed as stale is behind its
corpus (`StaleIsBehind`), so a stale retry never uses up the attempts of the newest.

### Normalization

| theorem | property |
|---|---|
| `TypeCorrect` | `TypeOK` |
| `QueueIsSound` | `RowsAreSound` |
| `OutcomesAreFinal` | `OutcomeIsFinal` |
| `ListingsAreDecided` | `EveryListingIsDecided` |

`QueueInv` says that a row is absent or parses, that it is completed exactly when its
listing is in the corpus, that no two workers claim the same listing, and that a
worker holds the rows it claimed, unless the result has been committed and the worker
is about to report a failure it only believes in. The persist transaction writes the
row and the listing together, so such a worker finds a completed row and its report
is refused (`FailureKeepsQueue`).
`CorpusInv` counts: a profile's revision is the number of its committed listings, and
every revision has its decision job.

### SourceJobs

| theorem | states |
|---|---|
| `CapturesAccepted` | `CapturesAreAcceptedOnce` |
| `DispatchedJobsAreBacked` | `DispatchedIsBacked` |

Nothing is fenced by the lease, so neither theorem can rest on one worker per job.
`CaptureInv` is the property (a capture is accepted exactly when its job is completed,
and the attempt that was accepted is on record) together with the types and the fact
that a worker past its claim has the number of an attempt (`RunsAttempt`); acceptance and transition are checked against the *status*,
which only ever leaves the open ones, and that is enough: `CaptureStep` says a step
keeps every job, moves an open one, or completes one and accepts its capture.

That a dispatched job is backed is a matter of counting. A request can be overtaken
between the wake and the mark, and another one can dispatch the same job meanwhile,
so "some dispatch waits for it" is not inductive. `BackedInv` is: for each job, the
requests that were overtaken, plus one if it is dispatched, are at most the
dispatches that still wait for it. Each step writes one dispatch, and keeps the
balance (`StepsKeepBalance`).

### Accounts

| theorem | states |
|---|---|
| `RevocationLasts` | `RevokedStays` |
| `MembershipsAreLive` | `ActiveIsLive` |
| `DeletionsLast` | `AccountsEnd` |

A restore brings back whole tables, so every fact about the tables must hold of the
backup as well, and the facts about deletions must say what the ledger knows that the
backup does not. `MembersInv` (a membership that names a user names the one of its
address, now and in the backup), `ReceiptsInv` (users are numbered in the order they
are created; the receipts of a backup are among those of the database; while requests
are kept out the ledger has every receipt and no deletion is under way; nobody with a
receipt is there when they are let in) and `TokensInv` (the copies of a token are of
one user, and what a request has consumed is not usable again) are inductive together
with the types.

### CalendarHolds

| theorem | states |
|---|---|
| `HoldsApproved` | `HoldsAreApproved` |

`HoldsAreApproved` says that a viewing has one event at most, under an approval its
creation consumed and over no conflict, that a viewing which says it has a hold has
one, and so has a listing whose tour is scheduled, unless a decision that read the
state before the tour was called off has put it back (`putBack`). The inductive
invariant is

    CalendarInv == Shape /\ HoldsInv /\ \A r \in Requests : Relies(req[r])

Requests overlap, so what one has read may be history when it acts. `Relies(q)` says
what a request may still count on, step by step; it survives every other step because
the tables only go one way (`ViewingsGo`, `HoldsGo`): a viewing never comes back from
a later state, a check is never unmade, an approval that was consumed stays so. That
one lemma (`ReliesStays`) takes the place of an interference argument for each pair
of steps. The remaining question is how a second hold of one viewing comes to be: an
override or a rescheduling, each from a base that can no longer be created
(`ComesFrom`). Hence two holds of a viewing whose approvals were consumed are the
same hold (`OneConsumed`), and its events are of one hold. TLC checked `CalendarInv`
on one viewing, three holds and two notes without decisions, and on two holds with
them, before it was proved.

### ResearchRuns

| theorem | states |
|---|---|
| `OneSearch` | `OneSearchAtATime` |

Between the check of a request for another search (`CheckConcurrent`) and its insertion
(`InsertSearch`) nothing is locked, and other requests get in between. What keeps two
searches apart is the unique key made of the number of searches the request has
counted. The inductive invariant `SearchInv` says why that is enough: the numbers in
use are all those from 1 to the number of searches (`NumbersInUse`), so a number that
is still free is the next one, and whoever was given it has seen every search there
is, none of them active and none a retry of the same (`NumbersAreEarned`); since then
no search can have been added, and one that ended never becomes active again.
Neither "one search is active" nor "a search is retried once" is inductive without it.

`BranchInv` is about the branches of a request. A running job has a branch that works
on it or a process that died (`RunningIsServed`), a branch works on a job no other
request of the run works on (`WorkIsOwn`), and once a listing was stored for a
cancelled job nobody is about to store another (`LateIsLast`). Steps are not compared
with each other: every step of a branch prepares, opens its job, goes on or closes
(`BranchStep`), a stop request cancels (`CancelStep`), and both invariants are shown
for these alone. The runs may be retries of one another and a request may be sent
again with the run it had, which the instances of the run do not try together;
`FinishedLeavesNothingActive` is stated of runs, not of requests, because a request
that is repeated ends while the first one still searches.

### OwnerGraph

| theorem | states |
|---|---|
| `OwnersAreDeleted` | `DeletionSucceeds` and `DeletionIsComplete` |
| `ExportsAreClosed` | `ExportIsClosed` |
| `TypeCorrect` | `TypeOK`: while no deletion is under way references name rows, and nothing lost its owner |

The run checks all tables only when they are full and their triggers run in one order,
or a handful of tables in every order. The theorems cover any set of tables, full or
not, any optional references, and every order. A foreign key could stop the deletion
of an owner by a RESTRICT whose row is still there, or an append-only table by a
cascade that arrives from a row rather than from the user. The inductive invariant

    GraphInv == DeletionInv /\ Copied /\ ExportIsClosed

says why neither happens (`Falling`): while the triggers fire, every row that is left
still has the cascade *of the user* queued in this round, and triggers queued by the
deletion of other rows wait for the next round, which begins when nothing is left.
So the only trigger that meets a row is the cascade of the user, and every RESTRICT is
tested on an empty graph. This rests on a fact of the schema alone: each of the 59
tables but `betaMemberships`, which is deleted by a statement of its own, cascades
from `users` directly. For the export, `Copied` says that what is read is a copy of
the snapshot, and `SchemaFacts` goes through the tables: no exported row refers to a
table the export leaves out. TLC checked `GraphInv` on two sets of seven tables in
every order, and on one of them with an export, before it was proved.

### Enrollment

| theorem | states |
|---|---|
| `OneDevice` | `TypeOK` and `OneDevicePerAssignment` |
| `RevocationsAreComplete` | `RevocationIsComplete` |
| `EndsLast` | `EndsAreFinal` |
| `OneHolderWhileCalm` | `OneHolder`, as long as `RevocationsAreCalm` |
| `OneHolderOfOneAssignment` | `OneHolder`, when there is one assignment |

`EnrollmentInv` ties a ticket to its device: a ticket that was issued names a device
of the same profile at the same assignment (`TicketsMatch`), a device has the number of the
first ticket issued for it (`DevicesMatch`), and what an extension shows is a ticket
of its own (`ShowsItsOwn`). With these, the lock of the assignment is enough for the unique
indexes: an issue either makes a device, after every other live device of the
assignment has made way, or takes the one there is (`IssueStep`).

`OneHolder` says who has the credential, and is about the path from the checkpoint to
the extension: between `consume` and the delivery, and ever after, the device is
active or the assignment is revoked (`HoldersInv`). An active device never makes way
(`ActiveStays`), except to a revocation. The second half of a revocation takes
every device of the user, whatever assignment it belongs to; so if an operator
provisions and activates the next assignment between the two halves, and a profile is
connected to it, that profile keeps a credential whose device is revoked.
`RevocationsAreCalm` excludes exactly this, as a hypothesis about the behaviour
(`[]RevocationsAreCalm`). With one assignment it holds by itself, which is the case
the run checks. TLC checked `EnrollmentInv` with two assignments, and `HoldersInv`
with `OneHolder` in the states in which revocations are calm, before they were proved.

## What is only model-checked

- Liveness: `JobsEnd`, `DueHappens`, `RequestsAreAnswered`. The proof system does not
  reason about `ENABLED`, hence not about fairness.
- The composites `ProfilesStayApart`, `SearchEndsWithARun`, `DispatchedJobsAreKept`,
  `RetriesAreSearches`, `AccountsHaveOneUser`, `OwnersLeaveNothing` and
  `BrowserIsTheUsers`, which are about particular instances. Of their parts
  `SourceInOneProjection`, `CompletionNamesARun`, `DispatchedIsBacked`,
  `CapturesAreAcceptedOnce`, `OneSearchAtATime`, `ActiveIsLive`, `OneConsumer`, everything
  `OwnersLeaveNothing` says and what `BrowserIsTheUsers` says of the enrollment are
  proved for every instance; the orchestrator of one process and the switches of the
  browser are not.
- The properties of the other components: `EvidenceIsJudged`, `ListingsAreKept`,
  `SourcesAreFollowed`, `TabsAreTheUsers`, `CloudIsAccountedFor`, `BrowsesAsApproved`,
  `StatusTellsTheTruth`, `EachIsHandledOnce`, `ShownIsStored`, `CardsAreOfOneDecision`,
  `SearchIsTheUsers`, `TokensFollowConsent`, `DemoKeepsItsPromises`. Those about
  algorithms (`EvidenceIsJudged`, `ListingsAreKept`) fold over data, which needs
  induction over data, out of the prover's reach; so do `CloudIsAccountedFor`, whose
  steps select from sequences, and what the tools of `BrowsesAsApproved` collect.
- `RECURSIVE` operators are out of its reach as well; no module has one.

## Findings

Five runs refute what the repository says of itself; `PROJECT.json` quotes the lines.

1. `stranded_decision`: a decision job whose worker died stays `running`. The claim of
   the hosted worker (`worker-queue.ts`) has no disjunct for expired leases; the
   repository's `claimNext`, which it does not call, has.
2. `retry_is_lost`: a normalization job that failed once can never complete.
   `complete` leaves the error columns, the row it returns breaks
   `NormalizationJobSchema`, the transaction rolls back and the job is dead-lettered.
3. `early_completion`: a decision that ends while candidates are still imported
   completes the live search.
4. `move_is_undone`: a decision reads the lifecycle states of its listings with the
   snapshot and writes them back when it commits. A dismissal, a shortlisting or a
   move of the calendar made in between does not raise the revision, so the fence does
   not see it and the write undoes it, with no activity event. The ADR promises that
   user workflow state is kept.
5. `repeated_signal`: the key of a risk signal names the listing, the indicator and its
   evidence but no run, and it is unique. A second decision that finds the same
   indicator rolls back at every attempt and its job is given up, so the newest corpus
   is never shown. The ADR says that signals are recomputed with each revision.

Met while modelling, and modelled as the code has them: a `leased` normalization job
whose lease expired is not reclaimed by the PostgreSQL claim, though the design and
the SQLite adapter say so; the transitions of source jobs and of deliveries are not
fenced by the lease of the claim; the kill switches of the browser are read, merged
and written back without a lock, so of two overlapping requests one is lost
(`SwitchesAreTheLast` holds where none overlap); the local orchestrator awaits between
its check and its write, so two overlapping calls of one job capture more often than its
attempts allow and complete it twice (`overlapped`); a notification is shown a second
time when a lease runs out under a working worker, a worker dies after sending or the
provider's answer settles nothing, although a comment (`notification-fanout.ts:66`)
promises one per listing and device (`PushedOnce` bounds it by those losses); a token
refresh that outlasts its lease of 30 seconds overlaps the next one, and a credential
whose revocation Google did not confirm can be stored again by a refresh that had read
it (`OneAtGoogle`, `NoTokenWithoutConsent`); a delivery that is deferred or retried
often enough uses up its attempts and blocks the queue (`Stuck`); one unreadable message
keeps all alerts of its page from being imported.

## What is not modelled

Ephemeral cleanup and service health (periodic deletions and status rows nobody waits
for); the connectors, the LLM extraction and the clients of outside services (parsing
and calls); the web interface but for what keeps state of its own; layout, wording
and logging. Of the components marked *partly*, `PROJECT.json` says what is left out:
lanes of the worker runtime that change nothing modelled here, the parsing of captures,
encryption of endpoints, the rate limit of the public form, the reads of the SQLite
demo, parts of the extension that Chrome alone sees.

## Plan

Done: all modules above, their runs, and the proofs of Decisions, Normalization,
SourceJobs, Accounts, CalendarHolds, ResearchRuns, OwnerGraph and Enrollment. What
stays open, in the order of its weight:

1. GoogleIntegration: a disconnect leaves nothing, no token without consent.
2. Notifications and GmailAlerts: announced once, imported once.
3. Canonicals: a source is on one listing, splits are kept, for any clustering that
   satisfies its specification.
4. The components of which little is mapped: the rest of the schema, of the SQLite
   repositories and of the standard repositories.
