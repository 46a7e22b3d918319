------------------------------ MODULE Decisions ------------------------------
(***************************************************************************)
(* The decision lane of the worker: processNextDecisionJob over the        *)
(* PostgreSQL queue, run by any number of worker processes beside the web  *)
(* requests and scripts that change the corpus.  A worker claims a job in  *)
(* one transaction, reads the corpus in several statements that share no   *)
(* snapshot, evaluates them, and applies the plan in one transaction that  *)
(* must find the corpus where the reads left it.                           *)
(*                                                                         *)
(* Time is abstract: a claim needs available_at <= now and, for rows that  *)
(* still have one, an expired lease, but claimable rows carry no lease and *)
(* a retry delay only ever passes.  A lease that expires while its holder  *)
(* works changes nothing, because no hosted claim takes a running job.     *)
(*                                                                         *)
(* A listing's lifecycle state is part of the snapshot and of the plan but *)
(* not of the corpus: the user moves it without raising the revision, and  *)
(* a plan writes back what it read.  A source stands here for the listing  *)
(* that shows it; merging them is the subject of Canonicals.               *)
(***************************************************************************)
EXTENDS Corpus

CONSTANTS
  Workers,      \* worker processes
  Searches,     \* live searches a user may start
  SearchProfile,\* the profile a live search is for
  Lives,        \* lifecycle states the user moves listings to
  MaxAttempts,  \* DECISION_MAXIMUM_ATTEMPTS, 3 in the code
  MaxFaults     \* bound: crashes and lost replies of one behaviour

ASSUME DecisionsAssumption ==
  /\ MaxAttempts \in Nat \ {0}
  /\ MaxFaults \in Nat
  /\ SearchProfile \in [Searches -> Profiles]
  /\ NoOwner \notin Workers \X Nat
  /\ Lives \subseteq {"new", "shortlisted", "dismissed"}

VARIABLES
  runs,         \* decision_runs: one per job, with the hash of its input
  projection,   \* what the active canonicals of a profile were built from
  phase,        \* how far a worker is in processNextDecisionJob
  claim,        \* the job a worker holds, with its attempt number
  seen,         \* the part of the snapshot a worker has read
  error,        \* the class of the error a worker is about to save
  search,       \* activity events of a live search
  incarnation,  \* a process start draws a new lease owner
  faults,       \* faults so far
  life,         \* lifecycle state of the listing that shows a source
  lifeRead,     \* the lifecycle states a worker has read
  moved         \* history: listings moved since a worker read their states

decisionVars == <<runs, projection, phase, claim, seen, error, search,
                  incarnation, faults>>
lifecycleVars == <<life, lifeRead, moved>>
vars == <<corpusVars, decisionVars, lifecycleVars>>

NoRevision == -1
(* Faulty: a claim that takes rows still being worked on, or none that has  *)
(* failed.                                                                  *)
ClaimableOrRunning == {"queued", "retryable_failed", "running"}
OnlyQueued == {"queued"}
Claimable == {"queued", "retryable_failed"}
Terminal == {"succeeded", "permanently_failed"}
Statuses == {"none", "running"} \cup Claimable \cup Terminal
Errors == {"none", "stale", "internal", "permanent"}
Phases == {"idle", "claimed", "checked", "dispositions", "sources", "priors",
           "planned", "applied", "failing"}

NoClaim == [profile |-> CHOOSE p \in Profiles : TRUE, target |-> 0, attempt |-> 0]
AllNew == [raw \in Raws |-> "new"]
NothingSeen == [sources |-> {}, invalid |-> {}, overrides |-> {},
                prior |-> NoRevision]

Me(w) == <<w, incarnation[w]>>
Held(w) == jobs[claim[w].profile][claim[w].target]
(* The fence of applyPlan and fail: the row is running and still mine.      *)
Owns(w) == Held(w).status = "running" /\ Held(w).owner = Me(w)
IsAtTarget(w) == revision[claim[w].profile] = claim[w].target
Members(basis) == basis.sources \ basis.invalid
RunOf(p, r) == {run \in runs : run.profile = p /\ run.revision = r}
Taken(job, owner) == [job EXCEPT !.status = "running", !.owner = owner,
                                 !.error = "none", !.attempts = @ + 1]
Recorded(job, n, status, err) ==
  [job EXCEPT !.status = status, !.owner = NoOwner, !.error = err,
              !.recorded = @ \cup {n}]

DecisionsInit ==
  /\ runs = {}
  /\ projection = [p \in Profiles |->
       [revision |-> NoRevision, members |-> {}, overrides |-> {}]]
  /\ phase = [w \in Workers |-> "idle"]
  /\ claim = [w \in Workers |-> NoClaim]
  /\ seen = [w \in Workers |-> NothingSeen]
  /\ error = [w \in Workers |-> "none"]
  /\ search = [s \in Searches |->
       [open |-> TRUE, imports |-> {}, pending |-> FALSE, completed |-> {}]]
  /\ incarnation = [w \in Workers |-> 0]
  /\ faults = 0
  /\ life = AllNew
  /\ lifeRead = [w \in Workers |-> AllNew]
  /\ moved = [w \in Workers |-> {}]

Init == CorpusInit /\ DecisionsInit
-----------------------------------------------------------------------------
(* One worker.  Each action is one transaction or one statement.            *)

Becomes(w, next) == phase' = [phase EXCEPT ![w] = next]

Forget(w) ==
  /\ seen' = [seen EXCEPT ![w] = NothingSeen]
  /\ lifeRead' = [lifeRead EXCEPT ![w] = AllNew]
  /\ moved' = [moved EXCEPT ![w] = {}]

GoIdle(w) ==
  /\ Becomes(w, "idle")
  /\ claim' = [claim EXCEPT ![w] = NoClaim]
  /\ Forget(w)
  /\ error' = [error EXCEPT ![w] = "none"]

GoFailing(w, err) ==
  /\ Becomes(w, "failing")
  /\ Forget(w)
  /\ error' = [error EXCEPT ![w] = err]

(* claimNextDecisionJob: FOR UPDATE SKIP LOCKED, one row.  Which claimable  *)
(* row comes first depends on the clock; any may.                           *)
TakeJob(w, p, r) ==
  /\ phase[w] = "idle"
  /\ jobs[p][r].status \in Claimable
  /\ jobs' = [jobs EXCEPT ![p][r] = Taken(@, Me(w))]
  /\ UNCHANGED <<revision, sources, invalid, overrides>>

Claim(w) == \E p \in Profiles, r \in Revisions :
  /\ TakeJob(w, p, r)
  /\ Becomes(w, "claimed")
  /\ claim' = [claim EXCEPT ![w] =
       [profile |-> p, target |-> r, attempt |-> jobs[p][r].attempts + 1]]
  /\ UNCHANGED <<runs, projection, seen, error, search, incarnation, faults,
                 lifecycleVars>>

(* readSnapshot, one statement at a time: the corpus revision, then the     *)
(* dispositions, the sources (their provenance and photos hang off them),   *)
(* the active canonicals with their members and their lifecycle states,     *)
(* and the overrides.                                                       *)
ReadRevision(w) ==
  /\ phase[w] = "claimed"
  /\ IsAtTarget(w)
  /\ Becomes(w, "checked")
  /\ UNCHANGED <<corpusVars, runs, projection, claim, seen, error, search,
                 incarnation, faults, lifecycleVars>>

FindStale(w) ==
  /\ phase[w] = "claimed"
  /\ ~ IsAtTarget(w)
  /\ GoFailing(w, "stale")
  /\ UNCHANGED <<corpusVars, runs, projection, claim, search, incarnation, faults,
                 life>>

ReadDispositions(w) ==
  /\ phase[w] = "checked"
  /\ Becomes(w, "dispositions")
  /\ seen' = [seen EXCEPT ![w].invalid = invalid]
  /\ UNCHANGED <<corpusVars, runs, projection, claim, error, search,
                 incarnation, faults, lifecycleVars>>

ReadSources(w) ==
  /\ phase[w] = "dispositions"
  /\ Becomes(w, "sources")
  /\ seen' = [seen EXCEPT ![w].sources = sources]
  /\ UNCHANGED <<corpusVars, runs, projection, claim, error, search,
                 incarnation, faults, lifecycleVars>>

(* Faulty: every listing starts anew.                                       *)
ShownLivesForgotten(p) == AllNew
(* A source without a listing in the profile gets a new one.                *)
ShownLives(p) ==
  [raw \in Raws |-> IF raw \in projection[p].members THEN life[raw] ELSE "new"]

ReadPriors(w) ==
  /\ phase[w] = "sources"
  /\ Becomes(w, "priors")
  /\ seen' = [seen EXCEPT ![w].prior = projection[claim[w].profile].revision]
  /\ lifeRead' = [lifeRead EXCEPT ![w] = ShownLives(claim[w].profile)]
  /\ UNCHANGED <<corpusVars, runs, projection, claim, error, search,
                 incarnation, faults, life, moved>>

(* The last read; evaluateCorpus is pure and follows without an await.      *)
ReadOverrides(w) ==
  /\ phase[w] = "priors"
  /\ Becomes(w, "planned")
  /\ seen' = [seen EXCEPT ![w].overrides = overrides[claim[w].profile]]
  /\ UNCHANGED <<corpusVars, runs, projection, claim, error, search,
                 incarnation, faults, lifecycleVars>>

(* Any statement or the evaluation throws: safeFailure calls it internal    *)
(* (retryable) or one of the errors no retry can repair.                    *)
WorkFails(w) ==
  /\ phase[w] \in Phases \ {"idle", "applied", "failing"}
  /\ \E err \in {"internal", "permanent"} : GoFailing(w, err)
  /\ UNCHANGED <<corpusVars, runs, projection, claim, search, incarnation, faults,
                 life>>
-----------------------------------------------------------------------------
(* applyPlan and applyValidatedPlan.  The job row is locked FOR UPDATE and  *)
(* the corpus row FOR SHARE, so no transaction that bumps the profile       *)
(* commits between the checks and the writes.  canonical_listing_sources    *)
(* has one row per source: a plan that takes a source another profile's     *)
(* canonicals hold breaks the unique index.                                 *)
HasNoRun(w) == RunOf(claim[w].profile, claim[w].target) = {}
CoversSources(w) == Members(seen[w]) = Valid
TakesFreeSources(w) == \A q \in Profiles \ {claim[w].profile} :
  projection[q].members \cap Members(seen[w]) = {}

(* Faulty: one of the checks is missing.                                    *)
AppliesAtAnyRevision(w) ==
  HasNoRun(w) /\ Owns(w) /\ CoversSources(w) /\ TakesFreeSources(w)
AppliesToAnySources(w) ==
  HasNoRun(w) /\ Owns(w) /\ IsAtTarget(w) /\ TakesFreeSources(w)
AppliesWithoutIndex(w) ==
  HasNoRun(w) /\ Owns(w) /\ IsAtTarget(w) /\ CoversSources(w)

PlanApplies(w) ==
  /\ HasNoRun(w)
  /\ Owns(w)
  /\ IsAtTarget(w)
  /\ CoversSources(w)
  /\ TakesFreeSources(w)

CommitPlan(w) ==
  LET p == claim[w].profile
      r == claim[w].target
  IN  /\ phase[w] = "planned"
      /\ PlanApplies(w)
      /\ runs' = runs \cup {[profile |-> p, revision |-> r, input |-> seen[w]]}
      /\ projection' = [projection EXCEPT ![p] =
           [revision |-> r, members |-> Members(seen[w]),
            overrides |-> seen[w].overrides]]
      /\ life' = [raw \in Raws |->
           IF raw \in Members(seen[w]) THEN lifeRead[w][raw] ELSE life[raw]]
      /\ jobs' = [jobs EXCEPT ![p][r] =
           Recorded(@, claim[w].attempt, "succeeded", "none")]
      /\ UNCHANGED <<revision, sources, invalid, overrides>>

ApplyPlan(w) ==
  /\ CommitPlan(w)
  /\ Becomes(w, "applied")
  /\ Forget(w)
  /\ UNCHANGED <<claim, error, search, incarnation, faults>>

(* The transaction throws and rolls back.  A run already recorded for the   *)
(* job is replayed or is an idempotency conflict; ClaimIsUndecided says no  *)
(* worker ever gets that far.                                               *)
RefusePlan(w) ==
  /\ phase[w] = "planned"
  /\ ~ PlanApplies(w)
  /\ GoFailing(w, IF ~ HasNoRun(w) THEN "permanent"
                  ELSE IF Owns(w) /\ ~ IsAtTarget(w) THEN "stale" ELSE "internal")
  /\ UNCHANGED <<corpusVars, runs, projection, claim, search, incarnation, faults,
                 life>>

(* finalizeCompletedLiveSearches, a transaction of its own after the plan's *)
(* commit: a search with imports, all of them normalized by now, is said to *)
(* be complete at the revision of this job.                                 *)
Finalized(p, r) == [s \in Searches |->
  IF /\ SearchProfile[s] = p
     /\ search[s].completed = {}
     /\ search[s].imports # {}
     /\ search[s].imports \subseteq sources
  THEN [search[s] EXCEPT !.completed = {r}]
  ELSE search[s]]

Finalize(w) ==
  /\ phase[w] = "applied"
  /\ search' = Finalized(claim[w].profile, claim[w].target)
  /\ GoIdle(w)
  /\ UNCHANGED <<corpusVars, runs, projection, incarnation, faults, life>>

(* Faulty: one attempt too many; a failure saved without the fence.         *)
RetriesOnceMore(w) == error[w] # "permanent" /\ claim[w].attempt <= MaxAttempts
FailureCommitsUnfenced(w) == phase[w] = "failing"

Retries(w) == error[w] # "permanent" /\ claim[w].attempt < MaxAttempts

(* The catch block: one transaction appends the attempt (unique per job and *)
(* number), fails the job, fenced, and after a stale read makes sure that   *)
(* the current revision has a job.                                          *)
FailureCommits(w) == Owns(w) /\ claim[w].attempt \notin Held(w).recorded

SaveFailure(w) ==
  LET p == claim[w].profile
      failed == [jobs EXCEPT ![p][claim[w].target] = Recorded(@, claim[w].attempt,
                   IF Retries(w) THEN "retryable_failed" ELSE "permanently_failed",
                   error[w])]
  IN  /\ phase[w] = "failing"
      /\ FailureCommits(w)
      /\ jobs' = IF error[w] = "stale" THEN WithCurrentRevision(failed, p) ELSE failed
      /\ GoIdle(w)
      /\ UNCHANGED <<revision, sources, invalid, overrides, runs, projection,
                     search, incarnation, faults, life>>

(* The failure transaction itself is refused, rolls back, and the error     *)
(* ends the poll.                                                           *)
FailureRefused(w) ==
  /\ phase[w] = "failing"
  /\ ~ FailureCommits(w)
  /\ GoIdle(w)
  /\ UNCHANGED <<corpusVars, runs, projection, search, incarnation, faults, life>>
-----------------------------------------------------------------------------
(* Faults.  Their number is bounded by MaxFaults.                           *)

Fault == faults < MaxFaults /\ faults' = faults + 1

(* The process dies, or is asked to stop: an aborted signal returns without *)
(* touching the job.  The next start draws a new lease owner.               *)
Crash(w) ==
  /\ Fault
  /\ phase[w] # "idle"
  /\ incarnation' = [incarnation EXCEPT ![w] = @ + 1]
  /\ GoIdle(w)
  /\ UNCHANGED <<corpusVars, runs, projection, search, life>>

(* The claim commits, its reply is lost, and the poll ends in an error.     *)
ClaimReplyLost(w) ==
  /\ Fault
  /\ \E p \in Profiles, r \in Revisions : TakeJob(w, p, r)
  /\ UNCHANGED <<runs, projection, phase, claim, seen, error, search, incarnation,
                 lifecycleVars>>

(* The plan commits and its reply is lost: to the worker that is an error.  *)
ApplyReplyLost(w) ==
  /\ Fault
  /\ CommitPlan(w)
  /\ GoFailing(w, "internal")
  /\ UNCHANGED <<claim, search, incarnation>>

(* The failure transaction does not commit: the job is left running.        *)
FailureLost(w) ==
  /\ Fault
  /\ phase[w] = "failing"
  /\ GoIdle(w)
  /\ UNCHANGED <<corpusVars, runs, projection, search, incarnation, life>>

(* The completion audit fails; the worker swallows the error.               *)
FinalizeFails(w) ==
  /\ Fault
  /\ phase[w] = "applied"
  /\ GoIdle(w)
  /\ UNCHANGED <<corpusVars, runs, projection, search, incarnation, life>>
-----------------------------------------------------------------------------
(* The rest of the application.                                             *)

CorpusChanges ==
  /\ \E p \in Profiles :
       \/ \E raw \in Raws : CommitSource(raw, p)
       \/ \E o \in Overrides : CreateOverride(p, o)
       \/ \E bad \in SUBSET Raws : RepairSources(p, bad)
  /\ UNCHANGED <<decisionVars, lifecycleVars>>

(* ALLOWED_LISTING_TRANSITIONS, between the states the user chooses.        *)
MayBecome(from, to) ==
  \/ from = "new" /\ to \in {"shortlisted", "dismissed"}
  \/ from = "shortlisted" /\ to \in {"new", "dismissed"}

(* transitionLifecycle: a compare-and-set of the row that touches neither   *)
(* the revision nor the jobs.                                               *)
MoveListing(p, raw, to) ==
  /\ raw \in projection[p].members
  /\ MayBecome(life[raw], to)
  /\ life' = [life EXCEPT ![raw] = to]
  /\ moved' = [w \in Workers |-> IF phase[w] \in {"priors", "planned"}
                               THEN moved[w] \cup {raw} ELSE moved[w]]
  /\ UNCHANGED <<corpusVars, decisionVars, lifeRead>>

(* runLiveSearch imports the candidates one transaction each; a candidate   *)
(* whose raw listing has no source record yet is pending.                   *)
ImportListing(s, raw) ==
  /\ search[s].open
  /\ raw \notin search[s].imports
  /\ search' = [search EXCEPT ![s].imports = @ \cup {raw},
                              ![s].pending = @ \/ raw \notin sources]
  /\ UNCHANGED <<corpusVars, runs, projection, phase, claim, seen, error,
                 incarnation, faults, lifecycleVars>>

(* Faulty: the job of the current revision counts as decided as soon as it  *)
(* exists, or never.                                                        *)
DecidedWhenQueued(p) == jobs[p][revision[p]].status # "none"
NeverDecided(p) == revision[p] \notin Revisions

AlreadyDecided(p) == jobs[p][revision[p]].status = "succeeded"

(* The end of the import loop.  Nothing pending: the current revision gets  *)
(* a job, and if that job has already succeeded the search is complete.     *)
EndImports(s) ==
  LET p == SearchProfile[s]
      known == ~ search[s].pending
      done == known /\ AlreadyDecided(p)
  IN  /\ search[s].open
      /\ search[s].imports # {}
      /\ jobs' = IF known THEN WithCurrentRevision(jobs, p) ELSE jobs
      /\ search' = [search EXCEPT ![s].open = FALSE,
           ![s].completed = IF done THEN @ \cup {revision[p]} ELSE @]
      /\ UNCHANGED <<revision, sources, invalid, overrides, runs, projection,
                     phase, claim, seen, error, incarnation, faults, lifecycleVars>>

WorkerStep(w) ==
  \/ Claim(w) \/ ReadRevision(w) \/ FindStale(w) \/ ReadDispositions(w)
  \/ ReadSources(w) \/ ReadPriors(w) \/ ReadOverrides(w) \/ ApplyPlan(w)
  \/ RefusePlan(w) \/ Finalize(w) \/ SaveFailure(w) \/ FailureRefused(w)

FaultStep(w) ==
  \/ Crash(w) \/ ClaimReplyLost(w) \/ ApplyReplyLost(w) \/ FailureLost(w)
  \/ FinalizeFails(w)

Next ==
  \/ \E w \in Workers : WorkerStep(w) \/ WorkFails(w) \/ FaultStep(w)
  \/ CorpusChanges
  \/ \E p \in Profiles, raw \in Raws, to \in Lives : MoveListing(p, raw, to)
  \/ \E s \in Searches : EndImports(s) \/ \E raw \in Raws : ImportListing(s, raw)

(* createAsyncWorkerPoller polls again whatever a poll returned or threw,   *)
(* so every worker process keeps taking steps.  Nothing else is fair.       *)
Fairness == \A w \in Workers : WF_vars(WorkerStep(w))

Spec == Init /\ [][Next]_vars
FairSpec == Spec /\ Fairness
-----------------------------------------------------------------------------
(* Properties.                                                              *)

JobType == [status : Statuses, attempts : Nat, error : Errors,
            owner : {NoOwner} \cup (Workers \X Nat), recorded : SUBSET Nat]
Basis == [sources : SUBSET Raws, invalid : SUBSET Raws,
          overrides : SUBSET Overrides, prior : Revisions \cup {NoRevision}]
LifeType == [Raws -> {"new", "shortlisted", "dismissed"}]

(* Every variable holds a value of its type.                                *)
TypeOK ==
  /\ revision \in [Profiles -> Revisions]
  /\ jobs \in [Profiles -> [Revisions -> JobType]]
  /\ sources \subseteq Raws
  /\ invalid \subseteq Raws
  /\ overrides \in [Profiles -> SUBSET Overrides]
  /\ runs \subseteq [profile : Profiles, revision : Revisions, input : Basis]
  /\ projection \in [Profiles -> [revision : Revisions \cup {NoRevision},
                     members : SUBSET Raws, overrides : SUBSET Overrides]]
  /\ phase \in [Workers -> Phases]
  /\ claim \in [Workers -> [profile : Profiles, target : Revisions, attempt : Nat]]
  /\ seen \in [Workers -> Basis]
  /\ error \in [Workers -> Errors]
  /\ search \in [Searches -> [open : BOOLEAN, imports : SUBSET Raws,
                 pending : BOOLEAN, completed : SUBSET Revisions]]
  /\ incarnation \in [Workers -> Nat]
  /\ faults \in 0 .. MaxFaults
  /\ life \in LifeType
  /\ lifeRead \in [Workers -> LifeType]
  /\ moved \in [Workers -> SUBSET Raws]

(* Two workers never hold the same job, whatever crashed before: the claim  *)
(* takes the row in one statement and nobody takes a running row.           *)
OneWorkerPerJob == \A v, w \in Workers :
  v # w /\ phase[v] # "idle" /\ phase[w] # "idle" =>
    <<claim[v].profile, claim[v].target>> # <<claim[w].profile, claim[w].target>>

(* A worker that has yet to apply its plan still owns its job, and the job  *)
(* has no run: the replay branch of applyPlan is never needed.              *)
ClaimIsUndecided == \A w \in Workers :
  phase[w] \notin {"idle", "applied", "failing"} =>
    Owns(w) /\ RunOf(claim[w].profile, claim[w].target) = {}

(* Success is final and leaves exactly one run: a job has succeeded if and  *)
(* only if a run was recorded for it, also when the reply of the commit was *)
(* lost and the worker went on to report a failure.                         *)
RunIffSucceeded == \A p \in Profiles, r \in Revisions :
  /\ jobs[p][r].status = "succeeded" <=> RunOf(p, r) # {}
  /\ \A x, y \in RunOf(p, r) : x = y

(* No change of the corpus is forgotten: every revision a transaction has   *)
(* reached has its decision job, and no job is ahead of the corpus.         *)
EveryRevisionHasJob == \A p \in Profiles, r \in Revisions :
  /\ 0 < r /\ r <= revision[p] => jobs[p][r].status # "none"
  /\ r > revision[p] => jobs[p][r].status = "none"

(* The statements of a snapshot share none, and yet they agree: while the   *)
(* corpus is where the first of them found it, what the others have read is *)
(* what the database holds.  Sources and dispositions belong to the user,   *)
(* so a second profile's changes may pass unnoticed here.  The lifecycle    *)
(* states are those of the database for every listing the user has not      *)
(* moved since they were read.                                              *)
Coherent(w) ==
  LET p == claim[w].profile
      alone == Profiles = {p}
  IN  IsAtTarget(w) =>
        /\ alone /\ phase[w] \in {"dispositions", "sources", "priors", "planned"} =>
             seen[w].invalid = invalid
        /\ alone /\ phase[w] \in {"sources", "priors", "planned"} =>
             seen[w].sources = sources
        /\ HasNoRun(w) /\ phase[w] \in {"priors", "planned"} =>
             /\ seen[w].prior = projection[p].revision
             /\ \A raw \in Raws \ moved[w] : lifeRead[w][raw] = ShownLives(p)[raw]
        /\ phase[w] = "planned" => seen[w].overrides = overrides[p]

SnapshotHolds == \A w \in Workers : Coherent(w)

(* The projection is the one of the newest run; an older job that ends late *)
(* never puts an older projection back.                                     *)
NewestRunShown == \A p \in Profiles :
  /\ \A run \in runs : run.profile = p => run.revision <= projection[p].revision
  /\ projection[p].revision # NoRevision =>
       \E run \in RunOf(p, projection[p].revision) :
         /\ projection[p].members = Members(run.input)
         /\ projection[p].overrides = run.input.overrides

(* A user with one profile: a projection at the current revision shows the  *)
(* valid sources and the overrides of this very moment, although they were  *)
(* read in separate statements some time ago.                               *)
SettledProjectionIsFresh == \A p \in Profiles :
  Profiles = {p} /\ projection[p].revision = revision[p] =>
    projection[p].members = Valid /\ projection[p].overrides = overrides[p]

(* A source is a member of one profile's canonicals at most.                *)
SourceInOneProjection == \A p, q \in Profiles :
  p # q => projection[p].members \cap projection[q].members = {}

(* The attempts of a job are all on record: 1 to its attempt count, less    *)
(* the one in progress or left behind by a fault.                           *)
AttemptsAreRecorded == \A p \in Profiles, r \in Revisions :
  LET job == jobs[p][r]
  IN  /\ job.attempts <= MaxAttempts
      /\ job.recorded = 1 .. IF job.status = "running" THEN job.attempts - 1
                                                      ELSE job.attempts

(* The job of the current revision is never given up as stale: only a real  *)
(* error can leave the newest corpus without a decision.                    *)
CurrentJobIsNeverStale == \A p \in Profiles :
  jobs[p][revision[p]].error # "stale"

(* A completed live search names a revision that was decided.               *)
CompletionNamesARun == \A s \in Searches : \A r \in search[s].completed :
  RunOf(SearchProfile[s], r) # {}

(* The plan a step applies was computed from the corpus of that step: its   *)
(* target is the current revision, and the sources, the dispositions, the   *)
(* overrides and the prior canonicals it read are those in the database.    *)
(* The exception is what the revision does not cover: it may put a shown    *)
(* listing back into the lifecycle state it read, if the user moved that    *)
(* listing after the read.                                                  *)
PutsBack(p, raw) == \E w \in Workers :
  /\ phase[w] = "planned" /\ claim[w].profile = p
  /\ raw \in moved[w] /\ life'[raw] = lifeRead[w][raw]

AppliedPlanIsCurrent == [][ \A run \in runs' \ runs :
  LET p == run.profile
  IN  /\ run.revision = revision[p]
      /\ Members(run.input) = Valid
      /\ run.input.overrides = overrides[p]
      /\ run.input.prior = projection[p].revision
      /\ \A raw \in projection[p].members :
           life'[raw] = life[raw] \/ PutsBack(p, raw) ]_vars

(* docs/DECISIONS/0008-versioned-decision-reconciliation.md:10: decisions   *)
(* work "without deleting provenance or corrupting user workflow state":    *)
(* deciding a corpus leaves the lifecycle state of a shown listing alone.   *)
MovesAreKept == [][ \A run \in runs' \ runs :
  \A raw \in projection[run.profile].members : life'[raw] = life[raw] ]_vars

(* The worker protocol implements Publication: claims, torn reads, retries,  *)
(* faults and the races with corpus changes are invisible in what is shown. *)
Promise == INSTANCE Publication WITH
  corpus <- [p \in Profiles |-> [revision |-> revision[p], members |-> Valid,
                                 overrides |-> overrides[p]]],
  shown <- projection

ImplementsPublication == Promise!Spec

(* A worker that reported an error, or died, leaves no trace but its job:   *)
(* a succeeded job stays as it is.                                          *)
SuccessIsFinal == [][ \A p \in Profiles, r \in Revisions :
  jobs[p][r].status \in Terminal => jobs'[p][r] = jobs[p][r] ]_vars

(* Whatever crashes and lost replies do to the workers, a job has one of    *)
(* them at a time, is claimed only while undecided, records each attempt,   *)
(* has a run exactly when it succeeded, and never leaves success.           *)
JobsAreDecidedOnce ==
  /\ [](OneWorkerPerJob /\ ClaimIsUndecided /\ RunIffSucceeded)
  /\ [](AttemptsAreRecorded /\ CurrentJobIsNeverStale)
  /\ SuccessIsFinal

(* The newest corpus is decided in the end, or its job ends in a real       *)
(* failure, when no fault strands the job.                                  *)
EventuallyDecided == \A p \in Profiles :
  [](revision[p] > 0 => <>(jobs[p][revision[p]].status \in Terminal))

(* docs/superpowers/specs/2026-07-22-maritime-execution-plane-design.md:20: *)
(* "normalization and decision queues already support crash recovery": a    *)
(* job left running is taken up again.                                      *)
RunningJobIsRecovered == \A p \in Profiles, r \in Revisions :
  jobs[p][r].status = "running" ~> jobs[p][r].status # "running"

(* docs/superpowers/plans/2026-07-24-live-maritime-openclaw-rental-search   *)
(* .md:99: the finalizer appends live_search_completed "only after all      *)
(* imported observations normalize".                                        *)
CompletedSearchIsNormalized == \A s \in Searches :
  search[s].completed # {} => search[s].imports \subseteq sources
=============================================================================
