---------------------------- MODULE ResearchRuns ----------------------------
(***************************************************************************)
(* The searches a user starts: runRentalResearch over several sources,     *)
(* runLiveSearch as its RentCast branch, stopRentalResearch, and the       *)
(* status that is read back from the activity events.                      *)
(*                                                                         *)
(* One POST runs one search in one web process.  RentCast and the first    *)
(* browser source start at once; the browser sources run one after the     *)
(* other.  A source imports its listings one by one and only then moves    *)
(* its job.  What the search has come to is nowhere stored: it is derived  *)
(* from events of the POST, of the normalization worker and of the         *)
(* decision worker.                                                        *)
(*                                                                         *)
(* All searches here are of one profile, and a retry names a search of     *)
(* that profile.                                                           *)
(***************************************************************************)
EXTENDS Naturals, FiniteSets, Sequences

CONSTANTS
  Posts,      \* requests to start a search
  Runs,       \* their veraRunIds
  RunOf,      \* the run of each request; a repeated request has the same
  RetryOf,    \* the run a run retries, or the run itself when it is no retry
  RentCast,   \* TRUE when RentCast is selected
  Browser,    \* the selected browser sources, in order
  Listings,   \* what the sources may find
  CanStop,    \* TRUE when the user may stop a search
  MaxCrashes  \* bound: web processes that die

ASSUME ResearchRunsAssumption ==
  /\ IsFiniteSet(Runs) /\ RunOf \in [Posts -> Runs] /\ RetryOf \in [Runs -> Runs]
  /\ RentCast \in BOOLEAN /\ CanStop \in BOOLEAN
  /\ Browser \in Seq({"zillow", "craigslist"})
  /\ MaxCrashes \in Nat

BrowserSources == {Browser[i] : i \in DOMAIN Browser}
Sources == BrowserSources \cup (IF RentCast THEN {"rentcast"} ELSE {})

VARIABLES
  post,     \* how far each request is
  op,       \* each request's branch for each source
  job,      \* source_jobs: by run and source
  log,      \* the activity events of each run but for its imports
  imports,  \* live_listing_imported: the listings each run has imported
  listing,  \* raw listing and normalization job, with the run that queued it
  due,      \* the decision of the current revision has not succeeded yet
  stop,     \* the jobs a stop request has still to cancel
  late,     \* history: listings stored for a job after it was cancelled
  crashes   \* web processes that died

vars == <<post, op, job, log, imports, listing, due, stop, late, crashes>>

Active == {"queued", "dispatched", "running"}
Stoppable == Active \cup
  {"retryable_failed", "deferred_node_offline", "manual_action_required"}
Statuses == Stoppable \cup
  {"none", "completed", "permanently_failed", "cancelled_by_policy"}
OpSteps == {"off", "wait", "check", "insert", "search", "import", "store",
            "finish", "decide", "done", "threw", "dead"}
Over == {"done", "threw", "dead"}
Event(what) == [what |-> what, source |-> "none"]
Failed(s) == [what |-> "failed", source |-> s]
Events == {Event(what) : what \in {"requested", "completed", "sources_finished", "stopped"}}
          \cup {Failed(s) : s \in Sources}

NoJob == [status |-> "none", seq |-> 0]
NoOp == [step |-> "off", seq |-> 0, todo |-> {}, outcome |-> "completed",
         new |-> FALSE, rejected |-> FALSE, pending |-> FALSE]

Init ==
  /\ post = [p \in Posts |-> "new"]
  /\ op = [p \in Posts |-> [s \in Sources |-> NoOp]]
  /\ job = [r \in Runs |-> [s \in Sources |-> NoJob]]
  /\ log = [r \in Runs |-> {}]
  /\ imports = [r \in Runs |-> {}]
  /\ listing \in [Listings -> [state : {"absent"}, run : {{}}]]
  /\ due = FALSE
  /\ stop = [r \in Runs |-> {}]
  /\ late = [r \in Runs |-> [s \in Sources |-> 0]]
  /\ crashes = 0

Step(p, s, step) == op' = [op EXCEPT ![p][s].step = step]
SetJob(r, s, status) == job' = [job EXCEPT ![r][s].status = status]
Append1(r, events) == log' = [log EXCEPT ![r] = @ \cup events]

(* A running job may take any outcome; one that was cancelled takes none    *)
(* and sourceJobs.transition throws.                                        *)
Running(r, s) == job[r][s].status = "running"
-----------------------------------------------------------------------------
(* runRentalResearch.                                                       *)

(* The job with the run's own id: RentCast's, or Zillow's when it is alone. *)
NamedAfterRun(s) == s = "rentcast" \/ (s = "zillow" /\ Sources = {"zillow"})

Start(p) == LET r == RunOf[p] IN
  /\ post[p] = "new"
  /\ IF \E s \in Sources : NamedAfterRun(s) /\ job[r][s] # NoJob
     THEN post' = [post EXCEPT ![p] = "refused"] /\ UNCHANGED <<op, log>>
     ELSE /\ post' = [post EXCEPT ![p] = "running"]
          /\ Append1(r, {Event("requested")})
          /\ op' = [op EXCEPT ![p] = [s \in Sources |->
               [NoOp EXCEPT !.step = IF s = "rentcast" THEN "check" ELSE "wait"]]]
  /\ UNCHANGED <<job, imports, listing, due, stop, late, crashes>>

(* Every branch has settled: the rejected ones leave a failure event unless *)
(* there is one.                                                            *)
Settle(p) == LET r == RunOf[p] IN
  /\ post[p] = "running"
  /\ \A s \in Sources : op[p][s].step \in Over
  /\ post' = [post EXCEPT ![p] = "done"]
  /\ Append1(r, {Event("sources_finished")}
                \cup {Failed(s) : s \in {t \in Sources : op[p][t].step = "threw"}})
  /\ UNCHANGED <<op, job, imports, listing, due, stop, late, crashes>>
-----------------------------------------------------------------------------
(* runLiveSearch: the RentCast branch.                                      *)

RentCastJobs == {r \in Runs : RentCast /\ job[r]["rentcast"] # NoJob}

(* Faulty: a failed search may be retried again and again.                  *)
MayRetryAgain(r) ==
  RetryOf[r] # r => job[RetryOf[r]]["rentcast"].status = "retryable_failed"

(* The prior search failed and no retry of it was requested before.         *)
MayRetry(r) ==
  RetryOf[r] # r =>
    /\ job[RetryOf[r]]["rentcast"].status = "retryable_failed"
    /\ \A o \in RentCastJobs : RetryOf[o] = RetryOf[r] => o = RetryOf[r]

CheckConcurrent(p) == LET r == RunOf[p] IN
  /\ RentCast /\ op[p]["rentcast"].step = "check"
  /\ op' = IF MayRetry(r) /\ \A o \in RentCastJobs :
                                job[o]["rentcast"].status \notin Active
           THEN [op EXCEPT ![p]["rentcast"] =
                   [@ EXCEPT !.step = "insert", !.seq = Cardinality(RentCastJobs) + 1]]
           ELSE [op EXCEPT ![p]["rentcast"].step = "threw"]
  /\ UNCHANGED <<post, job, log, imports, listing, due, stop, late, crashes>>

(* Faulty: the idempotency key is made from the run instead of the number   *)
(* of searches the profile has had.                                         *)
KeyOfRunTaken(p) == job[RunOf[p]]["rentcast"] # NoJob
KeyTaken(p) ==
  \/ job[RunOf[p]]["rentcast"] # NoJob
  \/ \E o \in RentCastJobs : job[o]["rentcast"].seq = op[p]["rentcast"].seq

(* One transaction: enqueue, dispatched, running.                           *)
InsertSearch(p) == LET r == RunOf[p] IN
  /\ RentCast /\ op[p]["rentcast"].step = "insert"
  /\ IF KeyTaken(p)
     THEN Step(p, "rentcast", "threw") /\ UNCHANGED job
     ELSE /\ Step(p, "rentcast", "search")
          /\ job' = [job EXCEPT ![r]["rentcast"] =
                       [status |-> "running", seq |-> op[p]["rentcast"].seq]]
  /\ UNCHANGED <<post, log, imports, listing, due, stop, late, crashes>>

(* Faulty: a failed search keeps its job running.                           *)
FailRunOnly(p, retryable) ==
  /\ Append1(RunOf[p], {Failed("rentcast")})
  /\ Step(p, "rentcast", "threw")
  /\ UNCHANGED job
FailRun(p, retryable) == LET r == RunOf[p] IN
  /\ IF Running(r, "rentcast")
     THEN SetJob(r, "rentcast",
                 IF retryable THEN "retryable_failed" ELSE "permanently_failed")
     ELSE UNCHANGED job
  /\ Append1(r, {Failed("rentcast")})
  /\ Step(p, "rentcast", "threw")

ProviderFails(p) ==
  /\ RentCast /\ op[p]["rentcast"].step = "search"
  /\ \E retryable \in BOOLEAN : FailRun(p, retryable)
  /\ UNCHANGED <<post, imports, listing, due, stop, late, crashes>>

(* completeNoResults is one transaction: nothing of it stays if the job was *)
(* cancelled meanwhile.                                                     *)
ProviderFindsNothing(p) == LET r == RunOf[p] IN
  /\ RentCast /\ op[p]["rentcast"].step = "search"
  /\ IF Running(r, "rentcast")
     THEN SetJob(r, "rentcast", "completed") /\ Append1(r, {Failed("rentcast")})
     ELSE UNCHANGED <<job, log>>
  /\ Step(p, "rentcast", "threw")
  /\ UNCHANGED <<post, imports, listing, due, stop, late, crashes>>

(* Candidates came back, and the agent's analysis of them or its failure.   *)
ProviderAnswers(p) ==
  /\ RentCast /\ op[p]["rentcast"].step = "search"
  /\ \E found \in (SUBSET Listings) \ {{}} :
       op' = [op EXCEPT ![p]["rentcast"] = [@ EXCEPT !.step = "store", !.todo = found]]
  /\ UNCHANGED <<post, job, log, imports, listing, due, stop, late, crashes>>

FinishSearch(p) == LET r == RunOf[p]  o == op[p]["rentcast"] IN
  /\ RentCast /\ o.step = "store" /\ o.todo = {}
  /\ IF ~ o.new /\ o.rejected
     THEN FailRun(p, FALSE)
     ELSE /\ IF Running(r, "rentcast")
             THEN SetJob(r, "rentcast", "completed") /\ Step(p, "rentcast", "decide")
             ELSE Step(p, "rentcast", "threw") /\ UNCHANGED job
          /\ UNCHANGED log
  /\ UNCHANGED <<post, imports, listing, due, stop, late, crashes>>

(* Nothing to normalize: the decision of the current revision is asked for, *)
(* and ends the search when it is there already.                            *)
AskForDecision(p) ==
  /\ RentCast /\ op[p]["rentcast"].step = "decide"
  /\ IF ~ op[p]["rentcast"].pending /\ ~ due
     THEN Append1(RunOf[p], {Event("completed")}) ELSE UNCHANGED log
  /\ Step(p, "rentcast", "done")
  /\ UNCHANGED <<post, job, imports, listing, due, stop, late, crashes>>
-----------------------------------------------------------------------------
(* runZillowSource and runAdditionalBrowserSource.                          *)

(* Faulty: the chain does not survive a source that threw.                  *)
TurnAfterSuccess(p, s) ==
  \A i \in DOMAIN Browser : Browser[i] = s /\ i > 1 => op[p][Browser[i - 1]].step = "done"
Turn(p, s) ==
  \A i \in DOMAIN Browser : Browser[i] = s /\ i > 1 => op[p][Browser[i - 1]].step \in Over

(* The assignment, the source's approval or the job's id refuse it, or the  *)
(* job is enqueued and runs.                                                *)
StartSource(p, s) == LET r == RunOf[p] IN
  /\ op[p][s].step = "wait" /\ Turn(p, s)
  /\ \/ Step(p, s, "threw") /\ UNCHANGED job
     \/ /\ job[r][s] = NoJob
        /\ Step(p, s, "search")
        /\ SetJob(r, s, "running")
  /\ UNCHANGED <<post, log, imports, listing, due, stop, late, crashes>>

(* Its catch: the job fails unless it has ended otherwise.                  *)
SourceFails(p, s) == LET r == RunOf[p] IN
  /\ s \in BrowserSources /\ op[p][s].step = "search"
  /\ IF Running(r, s)
     THEN \E status \in {"retryable_failed", "permanently_failed"} : SetJob(r, s, status)
     ELSE UNCHANGED job
  /\ Append1(r, {Failed(s)})
  /\ Step(p, s, "done")
  /\ UNCHANGED <<post, imports, listing, due, stop, late, crashes>>

(* Faulty: the output's own state is written as the job's status.           *)
OutcomesAsReported(found) == {"completed", "manual_action_required", "failed"}
Outcomes(found) == {"completed", "manual_action_required"}
                   \cup (IF found = {} THEN {"permanently_failed"} ELSE {})

(* The browser comes back: what it saw is dropped if the job was cancelled. *)
SourceAnswers(p, s) ==
  /\ s \in BrowserSources /\ op[p][s].step = "search"
  /\ IF job[RunOf[p]][s].status = "cancelled_by_policy"
     THEN Step(p, s, "done")
     ELSE \E found \in SUBSET Listings : \E outcome \in Outcomes(found) :
            op' = [op EXCEPT ![p][s] =
                     [@ EXCEPT !.step = "import", !.todo = found, !.outcome = outcome]]
  /\ UNCHANGED <<post, job, log, imports, listing, due, stop, late, crashes>>

(* Faulty: the loop does not look at the job.                               *)
KeepsImporting(p, s) == op[p][s].todo # {}
GoesOn(p, s) ==
  op[p][s].todo # {} /\ job[RunOf[p]][s].status # "cancelled_by_policy"

(* Before every listing the loop reads the job again.                       *)
NextListing(p, s) ==
  /\ s \in BrowserSources /\ op[p][s].step = "import"
  /\ Step(p, s, IF GoesOn(p, s) THEN "store" ELSE "finish")
  /\ UNCHANGED <<post, job, log, imports, listing, due, stop, late, crashes>>

(* One transaction: the raw listing, its normalization job unless it has a  *)
(* source record, and the import event; or the listing is rejected.         *)
StoreListing(p, s) == LET r == RunOf[p] IN
  \E l \in op[p][s].todo :
    LET after == [op[p][s] EXCEPT
                    !.step = IF s = "rentcast" THEN "store" ELSE "import",
                    !.todo = @ \ {l}] IN
    /\ op[p][s].step = "store"
    /\ \/ /\ op' = [op EXCEPT ![p][s] = [after EXCEPT !.rejected = TRUE]]
          /\ UNCHANGED <<imports, listing, late>>
       \/ /\ op' = [op EXCEPT ![p][s] =
               [after EXCEPT !.new = @ \/ listing[l].state = "absent",
                             !.pending = @ \/ listing[l].state # "normalized"]]
          /\ listing' = IF listing[l].state = "absent"
                        THEN [listing EXCEPT ![l] = [state |-> "raw", run |-> {r}]]
                        ELSE listing
          /\ imports' = [imports EXCEPT ![r] = @ \cup {l}]
          /\ late' = IF job[r][s].status = "cancelled_by_policy"
                     THEN [late EXCEPT ![r][s] = @ + 1] ELSE late
    /\ UNCHANGED <<post, job, log, due, stop, crashes>>

(* The outcome is saved; if the job was cancelled the save throws and the   *)
(* catch records a failure.                                                 *)
FinishSource(p, s) == LET r == RunOf[p] IN
  /\ op[p][s].step = "finish"
  /\ IF Running(r, s)
     THEN SetJob(r, s, op[p][s].outcome) /\ UNCHANGED log
     ELSE Append1(r, {Failed(s)}) /\ UNCHANGED job
  /\ Step(p, s, "done")
  /\ UNCHANGED <<post, imports, listing, due, stop, late, crashes>>
-----------------------------------------------------------------------------
(* stopRentalResearch lists the jobs of the run and cancels them one by     *)
(* one; a job that has ended in between throws and ends the loop.           *)

Unfinished(r) == {s \in Sources : job[r][s].status \in Stoppable}

Stop(r) ==
  /\ CanStop /\ Event("stopped") \notin log[r] /\ stop[r] = {}
  /\ \E s \in Sources : job[r][s] # NoJob
  /\ stop' = [stop EXCEPT ![r] = Unfinished(r)]
  /\ IF Unfinished(r) = {} THEN Append1(r, {Event("stopped")}) ELSE UNCHANGED log
  /\ UNCHANGED <<post, op, job, imports, listing, due, late, crashes>>

StopNext(r) == \E s \in stop[r] :
  /\ IF job[r][s].status \in Stoppable
     THEN /\ SetJob(r, s, "cancelled_by_policy")
          /\ stop' = [stop EXCEPT ![r] = @ \ {s}]
          /\ IF stop[r] = {s} THEN Append1(r, {Event("stopped")}) ELSE UNCHANGED log
     ELSE stop' = [stop EXCEPT ![r] = {}] /\ UNCHANGED <<job, log>>
  /\ UNCHANGED <<post, op, imports, listing, due, late, crashes>>
-----------------------------------------------------------------------------
(* The workers, and the end of a web process.                               *)

Normalize(l) ==
  /\ listing[l].state = "raw"
  /\ \/ listing' = [listing EXCEPT ![l].state = "normalized"] /\ due' = TRUE
     \/ listing' = [listing EXCEPT ![l].state = "failed"] /\ due' = due
  /\ UNCHANGED <<post, op, job, log, imports, stop, late, crashes>>

(* finalizeCompletedLiveSearches skips a run that has completed or failed.  *)
Finalizable(r) ==
  /\ Event("requested") \in log[r]
  /\ log[r] \cap {Event("completed"), Failed("rentcast")} = {}
  /\ imports[r] # {} /\ \A l \in imports[r] : listing[l].state = "normalized"

Decide ==
  /\ due
  /\ due' = FALSE
  /\ log' = [r \in Runs |-> log[r] \cup (IF Finalizable(r) THEN {Event("completed")} ELSE {})]
  /\ UNCHANGED <<post, op, job, imports, listing, stop, late, crashes>>

Crash(p) ==
  /\ crashes < MaxCrashes /\ post[p] = "running"
  /\ crashes' = crashes + 1
  /\ post' = [post EXCEPT ![p] = "dead"]
  /\ op' = [op EXCEPT ![p] = [s \in Sources |-> [NoOp EXCEPT !.step = "dead"]]]
  /\ UNCHANGED <<job, log, imports, listing, due, stop, late>>
-----------------------------------------------------------------------------
Branch(p) ==
  \/ CheckConcurrent(p) \/ InsertSearch(p)
  \/ ProviderFails(p) \/ ProviderFindsNothing(p) \/ ProviderAnswers(p)
  \/ FinishSearch(p) \/ AskForDecision(p)
  \/ \E s \in Sources : \/ StartSource(p, s) \/ SourceFails(p, s)
                        \/ SourceAnswers(p, s) \/ NextListing(p, s)
                        \/ StoreListing(p, s) \/ FinishSource(p, s)

Next ==
  \/ \E p \in Posts : Start(p) \/ Branch(p) \/ Settle(p) \/ Crash(p)
  \/ \E r \in Runs : Stop(r) \/ StopNext(r)
  \/ \E l \in Listings : Normalize(l)
  \/ Decide

(* A web process that lives goes on, every call out has a timeout, and the  *)
(* workers poll.                                                            *)
Fairness ==
  /\ \A p \in Posts : WF_vars(Branch(p)) /\ WF_vars(Settle(p))
  /\ \A r \in Runs : WF_vars(StopNext(r))
  /\ \A l \in Listings : WF_vars(Normalize(l))
  /\ WF_vars(Decide)

Spec == Init /\ [][Next]_vars
LiveSpec == Spec /\ Fairness
-----------------------------------------------------------------------------
(* Properties.                                                              *)

(* A number of a search may be taken by the time it is used, so that it can *)
(* be one more than there are runs.                                         *)
Branches ==
  [step : OpSteps, seq : 0 .. Cardinality(Runs) + 1, todo : SUBSET Listings,
   outcome : {"completed", "manual_action_required", "permanently_failed"},
   new : BOOLEAN, rejected : BOOLEAN, pending : BOOLEAN]
TypeOK ==
  /\ post \in [Posts -> {"new", "running", "done", "refused", "dead"}]
  /\ op \in [Posts -> [Sources -> Branches]]
  /\ job \in [Runs -> [Sources ->
       [status : Statuses, seq : 0 .. Cardinality(Runs)]]]
  /\ log \in [Runs -> SUBSET Events] /\ imports \in [Runs -> SUBSET Listings]
  /\ listing \in [Listings -> [state : {"absent", "raw", "normalized", "failed"},
                               run : SUBSET Runs]]
  /\ due \in BOOLEAN /\ stop \in [Runs -> SUBSET Sources] /\ crashes \in 0 .. MaxCrashes
  /\ late \in [Runs -> [Sources -> Nat]]

(* At most one RentCast search of the profile is active, though the check   *)
(* for another one and the insertion are far apart.                         *)
OneActiveSearch ==
  Cardinality({r \in RentCastJobs : job[r]["rentcast"].status \in Active}) <= 1

(* A failed search is retried once: two retries that both saw none before   *)
(* them do not both become searches.                                        *)
RetriedOnce == \A r \in Runs :
  Cardinality({o \in RentCastJobs : o # r /\ RetryOf[o] = r}) <= 1

(* After a stop, the source whose job was cancelled stores at most the one  *)
(* listing it had already decided on.                                       *)
CancelledStoresAtMostOne ==
  \A r \in Runs, s \in BrowserSources : late[r][s] <= 1

(* A run whose requests have all reported their sources finished has no job *)
(* left active, whatever was cancelled, thrown, refused or asked for again  *)
(* on the way.                                                              *)
FinishedLeavesNothingActive ==
  \A r \in Runs :
    (\A p \in Posts : RunOf[p] = r => post[p] \in {"new", "refused", "done"})
      => \A s \in Sources : job[r][s].status \notin Active

(* However many requests, retries, stops and crashes overlap, a user has    *)
(* one active search and a search is retried once; a stopped search stores  *)
(* at most the listing it was storing, and a finished one leaves nothing    *)
(* active.                                                                  *)
OneSearchAtATime ==
  /\ TypeOK
  /\ OneActiveSearch
  /\ RetriedOnce
  /\ CancelledStoresAtMostOne
  /\ FinishedLeavesNothingActive

(* Every search ends, also when a source before another was refused.        *)
SearchEnds == \A p \in Posts :
  post[p] = "running" ~> post[p] \in {"done", "dead"}
=============================================================================
