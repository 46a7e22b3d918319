------------------------ MODULE ResearchRuns_proofs ------------------------
(***************************************************************************)
(* ResearchRuns never has two active searches of one profile.              *)
(*                                                                         *)
(* Nothing locks the profile between the check for another search and the  *)
(* insertion of one.  What protects it is the number a search gets: the    *)
(* numbers in use are always 1 up to the number of searches, so a request  *)
(* whose number is still free has seen all of them, and what it has seen   *)
(* of them cannot have got worse.                                          *)
(***************************************************************************)
EXTENDS ResearchRuns, FiniteSetTheorems, TLAPS

(***************************************************************************)
(* The inductive invariant.                                                *)
(***************************************************************************)

(* The steps in which a branch works on a job.                             *)
Working == {"search", "import", "store", "finish"}
Works(p, s) == op[p][s].step \in Working

(* Jobs are running or were ended; no other status is reached here.        *)
JobsAreKnown == \A r \in Runs, s \in Sources :
  IF job[r][s].status = "none" THEN job[r][s] = NoJob
  ELSE job[r][s].status \notin {"queued", "dispatched"}

(* RentCast does not wait for its turn, and only the branches of a request *)
(* that runs have a next step.                                             *)
RentCastStartsAtOnce == RentCast => \A p \in Posts : op[p]["rentcast"].step # "wait"
BranchesFollow == \A p \in Posts, s \in Sources :
  op[p][s].step \in {"off"} \cup Over \/ post[p] = "running"

(* A running job has a branch that works on it, or its process died.       *)
RunningIsServed == \A r \in Runs, s \in Sources :
  Running(r, s) => \E p \in Posts : RunOf[p] = r /\ (Works(p, s) \/ post[p] = "dead")

(* A branch works on a job that exists, and no other request of its run    *)
(* works on the same.                                                      *)
WorkIsOwn == \A p \in Posts, s \in Sources : Works(p, s) =>
  /\ job[RunOf[p]][s] # NoJob
  /\ \A q \in Posts \ {p} : RunOf[q] = RunOf[p] => ~ Works(q, s)

(* Once a listing was stored for a cancelled job, nobody is about to store *)
(* another.                                                                *)
LateIsLast == \A r \in Runs, s \in BrowserSources :
  late[r][s] # 0 =>
    /\ late[r][s] = 1 /\ job[r][s].status = "cancelled_by_policy"
    /\ \A p \in Posts : RunOf[p] = r => op[p][s].step # "store"

Search(r) == job[r]["rentcast"]
IsActive(r) == Search(r).status \in Active
IsRetry(o, r) == RetryOf[o] = r /\ o # r
Searches == Cardinality(RentCastJobs)

(* The numbers up to the number of searches are all in use.                *)
NumbersInUse == \A n \in 1 .. Searches : \E o \in RentCastJobs : Search(o).seq = n

(* A number beyond them was given out when no search was active and no     *)
(* search was a retry of the one the run retries.                          *)
NumbersAreEarned == RentCast => \A p \in Posts :
  op[p]["rentcast"].step = "insert" =>
    /\ op[p]["rentcast"].seq \in 1 .. Searches + 1
    /\ op[p]["rentcast"].seq = Searches + 1 => \A o \in RentCastJobs :
         /\ ~ IsActive(o)
         /\ ~ (RetryOf[RunOf[p]] # RunOf[p] /\ IsRetry(o, RetryOf[RunOf[p]]))

(* The two properties, of pairs of searches.                               *)
OneIsActive == \A o, q \in RentCastJobs : IsActive(o) /\ IsActive(q) => o = q
OneIsRetry == \A r \in Runs : \A o, q \in RentCastJobs :
  IsRetry(o, r) /\ IsRetry(q, r) => o = q

BranchInv ==
  /\ JobsAreKnown /\ RentCastStartsAtOnce /\ BranchesFollow
  /\ RunningIsServed /\ WorkIsOwn /\ LateIsLast
SearchInv == NumbersInUse /\ NumbersAreEarned /\ OneIsActive /\ OneIsRetry

LEMMA SourceNames ==
  /\ "rentcast" \notin BrowserSources
  /\ RentCast => "rentcast" \in Sources
  /\ BrowserSources \subseteq Sources /\ Sources \subseteq BrowserSources \cup {"rentcast"}
  /\ "rentcast" \in Sources => RentCast
<1>1. \A i \in DOMAIN Browser : Browser[i] \in {"zillow", "craigslist"}
  BY ResearchRunsAssumption
<1>. QED
  BY <1>1, ResearchRunsAssumption DEF BrowserSources, Sources

LEMMA SearchesBound ==
  /\ Cardinality(Runs) \in Nat /\ IsFiniteSet(RentCastJobs)
  /\ Searches \in Nat /\ Searches <= Cardinality(Runs)
<1>1. RentCastJobs \subseteq Runs
  BY DEF RentCastJobs
<1>. QED
  BY <1>1, ResearchRunsAssumption, FS_Subset, FS_CardinalityType DEF Searches

(***************************************************************************)
(* What a branch does in a step.                                           *)
(***************************************************************************)

OpTyped == op \in [Posts -> [Sources -> Branches]]
JobTyped == job \in [Runs -> [Sources -> [status : Statuses, seq : 0 .. Cardinality(Runs)]]]

OthersKeep(p, s) == \A q \in Posts, t \in Sources : q # p \/ t # s => op'[q][t] = op[q][t]
JobsKeep(r, s) == \A o \in Runs, t \in Sources : o # r \/ t # s => job'[o][t] = job[o][t]

(* The check of a request has seen no active search and no other retry.    *)
HasSeen(p) ==
  /\ op'[p]["rentcast"].seq = Searches + 1
  /\ \A o \in RentCastJobs :
       ~ IsActive(o) /\ ~ (RetryOf[RunOf[p]] # RunOf[p] /\ IsRetry(o, RetryOf[RunOf[p]]))

(* It does not work on a job, before or after.                             *)
Prepares(p, s) ==
  /\ ~ Works(p, s) /\ op'[p][s].step \notin Working \cup {"wait"}
  /\ s = "rentcast" /\ op'[p][s].step = "insert" => HasSeen(p)
  /\ job' = job /\ late' = late

(* It creates its job; RentCast's under a number that was free.            *)
Opens(p, s) ==
  /\ ~ Works(p, s) /\ op'[p][s].step = "search"
  /\ job[RunOf[p]][s] = NoJob /\ job'[RunOf[p]][s].status = "running"
  /\ JobsKeep(RunOf[p], s) /\ late' = late
  /\ s = "rentcast" =>
       /\ op[p][s].step = "insert" /\ ~ KeyTaken(p)
       /\ job'[RunOf[p]][s].seq = op[p][s].seq

(* It stores a listing, and is not about to store the next one.            *)
Stores(p, s) ==
  /\ op[p][s].step = "store"
  /\ s \in BrowserSources => op'[p][s].step # "store"
  /\ \A r \in Runs, t \in Sources : late'[r][t] =
       IF r = RunOf[p] /\ t = s /\ job[r][t].status = "cancelled_by_policy"
       THEN late[r][t] + 1 ELSE late[r][t]

(* It goes on with its work; whoever decides to store a listing has looked *)
(* at the job.                                                             *)
GoesOnWorking(p, s) ==
  /\ Works(p, s) /\ op'[p][s].step \in Working
  /\ job' = job
  /\ \/ Stores(p, s)
     \/ /\ late' = late
        /\ s \in BrowserSources /\ op'[p][s].step = "store"
             => job[RunOf[p]][s].status # "cancelled_by_policy"

(* It stops working, and the job is not left running.                      *)
Closes(p, s) ==
  /\ Works(p, s) /\ op'[p][s].step \notin Working \cup {"wait", "insert"}
  /\ late' = late
  /\ \/ ~ Running(RunOf[p], s) /\ job' = job
     \/ /\ Running(RunOf[p], s) /\ JobsKeep(RunOf[p], s)
        /\ job'[RunOf[p]][s].seq = job[RunOf[p]][s].seq
        /\ job'[RunOf[p]][s].status \notin Active \cup {"none"}

BranchStep(p, s) ==
  /\ post' = post /\ op[p][s].step \notin {"off"} \cup Over
  /\ OthersKeep(p, s)
  /\ Prepares(p, s) \/ Opens(p, s) \/ GoesOnWorking(p, s) \/ Closes(p, s)

LEMMA BranchSet ==
  ASSUME OpTyped, NEW p \in Posts, NEW s \in Sources, NEW b \in Branches,
         op' = [op EXCEPT ![p][s] = b]
  PROVE  OpTyped' /\ OthersKeep(p, s) /\ op'[p][s] = b
BY DEF OpTyped, OthersKeep

LEMMA NoOpTyped ==
  ASSUME NEW x \in OpSteps
  PROVE  [NoOp EXCEPT !.step = x] \in Branches /\ [NoOp EXCEPT !.step = x].step = x
<1>1. 0 \in 0 .. Cardinality(Runs) + 1
  BY SearchesBound
<1>. QED
  BY <1>1 DEF NoOp, Branches

LEMMA StepOf ==
  ASSUME OpTyped, NEW p \in Posts, NEW s \in Sources, NEW x \in OpSteps, Step(p, s, x)
  PROVE  OpTyped' /\ OthersKeep(p, s) /\ op'[p][s] = [op[p][s] EXCEPT !.step = x]
<1>. DEFINE b == [op[p][s] EXCEPT !.step = x]
<1>1. op[p][s] \in Branches
  BY DEF OpTyped
<1>2. b \in Branches
  BY <1>1 DEF Branches
<1>3. op' = [op EXCEPT ![p][s] = b]
  BY DEF Step
<1>. QED
  BY <1>2, <1>3, BranchSet

LEMMA JobSet ==
  ASSUME JobTyped, NEW r \in Runs, NEW s \in Sources, NEW x \in Statuses, SetJob(r, s, x)
  PROVE  /\ JobTyped' /\ JobsKeep(r, s)
         /\ job'[r][s].status = x /\ job'[r][s].seq = job[r][s].seq
BY DEF JobTyped, SetJob, JobsKeep

LEMMA CheckConcurrentStep ==
  ASSUME OpTyped, JobTyped, NEW p \in Posts, CheckConcurrent(p)
  PROVE  OpTyped' /\ JobTyped' /\ BranchStep(p, "rentcast")
<1>. DEFINE s == "rentcast"
<1>1. s \in Sources /\ RunOf[p] \in Runs /\ op[p][s] \in Branches
  BY SourceNames, ResearchRunsAssumption DEF CheckConcurrent, OpTyped
<1>2. op[p][s].step = "check" /\ ~ Works(p, s)
  BY DEF CheckConcurrent, Works, Working
<1>3. CASE MayRetry(RunOf[p]) /\ \A o \in RentCastJobs : ~ IsActive(o)
  <2>. DEFINE b == [op[p][s] EXCEPT !.step = "insert", !.seq = Searches + 1]
  <2>1. op' = [op EXCEPT ![p][s] = b]
    BY <1>3 DEF CheckConcurrent, IsActive, Search, Searches
  <2>2. b \in Branches /\ b.step = "insert" /\ b.seq = Searches + 1
    <3>1. Searches + 1 \in 0 .. Cardinality(Runs) + 1
      BY SearchesBound
    <3>. QED
      BY <1>1, <3>1 DEF Branches, OpSteps
  <2>. HIDE DEF b
  <2>3. OpTyped' /\ OthersKeep(p, s) /\ op'[p][s] = b
    BY <1>1, <2>1, <2>2, BranchSet
  <2>4. HasSeen(p)
    BY <1>3, <2>2, <2>3 DEF HasSeen, MayRetry, IsRetry
  <2>. QED
    BY <1>2, <2>2, <2>3, <2>4
       DEF CheckConcurrent, BranchStep, Prepares, Working, Over, JobTyped
<1>4. CASE Step(p, s, "threw")
  <2>1. OpTyped' /\ OthersKeep(p, s) /\ op'[p][s] = [op[p][s] EXCEPT !.step = "threw"]
    BY <1>1, <1>4, StepOf DEF OpSteps
  <2>2. op'[p][s].step = "threw"
    BY <1>1, <2>1 DEF Branches
  <2>. QED
    BY <1>2, <2>1, <2>2 DEF CheckConcurrent, BranchStep, Prepares, Working, Over, JobTyped
<1>. QED
  BY <1>3, <1>4 DEF CheckConcurrent, Step, IsActive, Search

LEMMA InsertSearchStep ==
  ASSUME OpTyped, JobTyped, SearchInv, NEW p \in Posts, InsertSearch(p)
  PROVE  OpTyped' /\ JobTyped' /\ BranchStep(p, "rentcast")
<1>. DEFINE s == "rentcast"
            r == RunOf[p]
<1>1. RentCast /\ s \in Sources /\ r \in Runs /\ op[p][s] \in Branches
  BY SourceNames, ResearchRunsAssumption DEF InsertSearch, OpTyped
<1>2. op[p][s].step = "insert" /\ ~ Works(p, s)
  BY DEF InsertSearch, Works, Working
<1>3. CASE KeyTaken(p)
  <2>1. OpTyped' /\ OthersKeep(p, s) /\ op'[p][s] = [op[p][s] EXCEPT !.step = "threw"]
    BY <1>1, <1>3, StepOf DEF OpSteps, InsertSearch
  <2>2. op'[p][s].step = "threw"
    BY <1>1, <2>1 DEF Branches
  <2>. QED
    BY <1>2, <1>3, <2>1, <2>2 DEF InsertSearch, BranchStep, Prepares, Working, Over, JobTyped
<1>4. CASE ~ KeyTaken(p)
  <2>1. OpTyped' /\ OthersKeep(p, s) /\ op'[p][s] = [op[p][s] EXCEPT !.step = "search"]
    BY <1>1, <1>4, StepOf DEF OpSteps, InsertSearch
  <2>2. op'[p][s].step = "search"
    BY <1>1, <2>1 DEF Branches
  <2>3. job[r][s] = NoJob /\ r \notin RentCastJobs
    BY <1>4 DEF KeyTaken, RentCastJobs
  <2>4. job' = [job EXCEPT ![r][s] = [status |-> "running", seq |-> op[p][s].seq]]
    BY <1>4 DEF InsertSearch
  <2>5. op[p][s].seq \in 1 .. Searches + 1
    BY <1>1, <1>2 DEF SearchInv, NumbersAreEarned
  <2>6. Searches + 1 <= Cardinality(Runs)
    <3>1. Cardinality(RentCastJobs \cup {r}) = Searches + 1
      BY <2>3, SearchesBound, FS_AddElement DEF Searches
    <3>2. RentCastJobs \cup {r} \subseteq Runs
      BY <1>1 DEF RentCastJobs
    <3>. QED
      BY <3>1, <3>2, ResearchRunsAssumption, FS_Subset
  <2>7. op[p][s].seq \in 0 .. Cardinality(Runs)
    BY <2>5, <2>6, SearchesBound
  <2>8. JobTyped' /\ JobsKeep(r, s) /\ job'[r][s] = [status |-> "running", seq |-> op[p][s].seq]
    BY <1>1, <2>4, <2>7 DEF JobTyped, JobsKeep, Statuses, Stoppable, Active
  <2>. QED
    BY <1>2, <1>4, <2>1, <2>2, <2>3, <2>8 DEF InsertSearch, BranchStep, Opens, Over
<1>. QED
  BY <1>3, <1>4

(* A branch that ends leaves no job running.                               *)
LEMMA ClosingStep ==
  ASSUME OpTyped, JobTyped, NEW p \in Posts, NEW s \in Sources,
         NEW x \in {"done", "threw", "decide"}, NEW y \in Statuses \ (Active \cup {"none"}),
         Works(p, s), Step(p, s, x), UNCHANGED <<post, late>>,
         IF Running(RunOf[p], s) THEN SetJob(RunOf[p], s, y) ELSE UNCHANGED job
  PROVE  OpTyped' /\ JobTyped' /\ BranchStep(p, s)
<1>. DEFINE r == RunOf[p]
<1>1. r \in Runs /\ op[p][s] \in Branches
  BY ResearchRunsAssumption DEF OpTyped
<1>. x \in OpSteps
  BY DEF OpSteps
<1>2. OpTyped' /\ OthersKeep(p, s) /\ op'[p][s] = [op[p][s] EXCEPT !.step = x]
  BY StepOf
<1>3. op'[p][s].step = x
  BY <1>1, <1>2 DEF Branches
<1>4. CASE Running(r, s)
  <2>1. /\ JobTyped' /\ JobsKeep(r, s)
        /\ job'[r][s].status = y /\ job'[r][s].seq = job[r][s].seq
    BY <1>1, <1>4, JobSet
  <2>. QED
    BY <1>2, <1>3, <1>4, <2>1 DEF BranchStep, Closes, Works, Working, Over
<1>5. CASE ~ Running(r, s)
  BY <1>2, <1>3, <1>5 DEF BranchStep, Closes, Works, Working, Over, JobTyped
<1>. QED
  BY <1>4, <1>5

LEMMA RentCastSteps ==
  ASSUME OpTyped, JobTyped, NEW p \in Posts,
         \/ ProviderFails(p) \/ ProviderFindsNothing(p) \/ ProviderAnswers(p)
         \/ FinishSearch(p) \/ AskForDecision(p)
  PROVE  OpTyped' /\ JobTyped' /\ BranchStep(p, "rentcast")
<1>. DEFINE s == "rentcast"
            r == RunOf[p]
            Ended == Statuses \ (Active \cup {"none"})
<1>1. RentCast /\ s \in Sources /\ r \in Runs /\ op[p][s] \in Branches
  BY SourceNames, ResearchRunsAssumption
     DEF ProviderFails, ProviderFindsNothing, ProviderAnswers, FinishSearch, AskForDecision, OpTyped
<1>2. {"retryable_failed", "permanently_failed", "completed"} \subseteq Ended
  BY DEF Statuses, Stoppable, Active
<1>. HIDE DEF Ended
<1>3. ASSUME NEW retryable \in BOOLEAN, FailRun(p, retryable), Works(p, s), UNCHANGED <<post, late>>
      PROVE  OpTyped' /\ JobTyped' /\ BranchStep(p, s)
  <2>. DEFINE y == IF retryable THEN "retryable_failed" ELSE "permanently_failed"
  <2>1. y \in Ended
    BY <1>2
  <2>2. Step(p, s, "threw") /\ IF Running(r, s) THEN SetJob(r, s, y) ELSE UNCHANGED job
    BY <1>3 DEF FailRun
  <2>. HIDE DEF y
  <2>. QED
    BY <1>1, <1>3, <2>1, <2>2, ClosingStep DEF Ended
<1>4. CASE ProviderFails(p)
  BY <1>3, <1>4 DEF ProviderFails, Works, Working
<1>5. CASE ProviderFindsNothing(p)
  <2>1. Step(p, s, "threw") /\ IF Running(r, s) THEN SetJob(r, s, "completed") ELSE UNCHANGED job
    BY <1>5 DEF ProviderFindsNothing
  <2>. QED
    BY <1>1, <1>2, <1>5, <2>1, ClosingStep DEF ProviderFindsNothing, Works, Working, Ended
<1>6. CASE ProviderAnswers(p)
  <2>1. PICK found \in SUBSET Listings :
          op' = [op EXCEPT ![p][s] = [@ EXCEPT !.step = "store", !.todo = found]]
    BY <1>6 DEF ProviderAnswers
  <2>. DEFINE b == [op[p][s] EXCEPT !.step = "store", !.todo = found]
  <2>2. op' = [op EXCEPT ![p][s] = b]
    BY <2>1
  <2>3. b \in Branches /\ b.step = "store"
    BY <1>1 DEF Branches, OpSteps
  <2>. HIDE DEF b
  <2>4. OpTyped' /\ OthersKeep(p, s) /\ op'[p][s] = b
    BY <1>1, <2>2, <2>3, BranchSet
  <2>. QED
    BY <1>6, <2>3, <2>4, SourceNames
       DEF ProviderAnswers, BranchStep, GoesOnWorking, Works, Working, Over, JobTyped
<1>7. CASE FinishSearch(p)
  <2>1. Works(p, s) /\ UNCHANGED <<post, late>>
    BY <1>7 DEF FinishSearch, Works, Working
  <2>2. CASE FailRun(p, FALSE)
    BY <1>3, <2>1, <2>2
  <2>3. CASE Running(r, s) /\ SetJob(r, s, "completed") /\ Step(p, s, "decide")
    BY <1>1, <1>2, <2>1, <2>3, ClosingStep DEF Ended
  <2>4. CASE ~ Running(r, s) /\ Step(p, s, "threw") /\ UNCHANGED job
    BY <1>1, <1>2, <2>1, <2>4, ClosingStep DEF Ended
  <2>. QED
    BY <1>7, <2>2, <2>3, <2>4 DEF FinishSearch
<1>8. CASE AskForDecision(p)
  <2>1. OpTyped' /\ OthersKeep(p, s) /\ op'[p][s] = [op[p][s] EXCEPT !.step = "done"]
    BY <1>1, <1>8, StepOf DEF AskForDecision, OpSteps
  <2>2. op'[p][s].step = "done"
    BY <1>1, <2>1 DEF Branches
  <2>. QED
    BY <1>8, <2>1, <2>2 DEF AskForDecision, BranchStep, Prepares, Works, Working, Over, JobTyped
<1>. QED
  BY <1>4, <1>5, <1>6, <1>7, <1>8

LEMMA StartSourceStep ==
  ASSUME OpTyped, JobTyped, RentCastStartsAtOnce,
         NEW p \in Posts, NEW s \in Sources, StartSource(p, s)
  PROVE  OpTyped' /\ JobTyped' /\ BranchStep(p, s)
<1>. DEFINE r == RunOf[p]
<1>1. r \in Runs /\ op[p][s] \in Branches /\ op[p][s].step = "wait" /\ ~ Works(p, s)
  BY ResearchRunsAssumption DEF OpTyped, StartSource, Works, Working
<1>2. s # "rentcast"
  BY <1>1, SourceNames DEF RentCastStartsAtOnce
<1>3. ASSUME NEW x \in {"threw", "search"}, Step(p, s, x)
      PROVE  OpTyped' /\ OthersKeep(p, s) /\ op'[p][s].step = x
  <2>. x \in OpSteps
    BY DEF OpSteps
  <2>1. OpTyped' /\ OthersKeep(p, s) /\ op'[p][s] = [op[p][s] EXCEPT !.step = x]
    BY <1>3, StepOf
  <2>. QED
    BY <1>1, <2>1 DEF Branches
<1>4. CASE Step(p, s, "threw") /\ UNCHANGED job
  BY <1>1, <1>2, <1>3, <1>4 DEF StartSource, BranchStep, Prepares, Working, Over, JobTyped
<1>5. CASE job[r][s] = NoJob /\ Step(p, s, "search") /\ SetJob(r, s, "running")
  <2>. "running" \in Statuses
    BY DEF Statuses, Stoppable, Active
  <2>1. JobTyped' /\ JobsKeep(r, s) /\ job'[r][s].status = "running"
    BY <1>1, <1>5, JobSet
  <2>. QED
    BY <1>1, <1>2, <1>3, <1>5, <2>1 DEF StartSource, BranchStep, Opens, Over
<1>. QED
  BY <1>4, <1>5 DEF StartSource

LEMMA SourceStops ==
  ASSUME OpTyped, JobTyped, NEW p \in Posts, NEW s \in Sources,
         SourceFails(p, s) \/ FinishSource(p, s)
  PROVE  OpTyped' /\ JobTyped' /\ BranchStep(p, s)
<1>. DEFINE r == RunOf[p]
            Ended == Statuses \ (Active \cup {"none"})
<1>1. Works(p, s) /\ Step(p, s, "done") /\ UNCHANGED <<post, late>>
  BY DEF SourceFails, FinishSource, Works, Working
<1>2. op[p][s].outcome \in {"completed", "manual_action_required", "permanently_failed"}
  BY DEF OpTyped, Branches
<1>3. {"completed", "manual_action_required", "permanently_failed", "retryable_failed"}
        \subseteq Ended
  BY DEF Statuses, Stoppable, Active
<1>. HIDE DEF Ended
<1>4. PICK y \in Ended : IF Running(r, s) THEN SetJob(r, s, y) ELSE UNCHANGED job
  BY <1>2, <1>3 DEF SourceFails, FinishSource
<1>. QED
  BY <1>1, <1>4, ClosingStep DEF Ended

LEMMA SourceGoesOn ==
  ASSUME OpTyped, JobTyped, NEW p \in Posts, NEW s \in Sources,
         SourceAnswers(p, s) \/ NextListing(p, s)
  PROVE  OpTyped' /\ JobTyped' /\ BranchStep(p, s)
<1>. DEFINE r == RunOf[p]
<1>1. /\ Works(p, s) /\ UNCHANGED <<post, job, late>>
      /\ r \in Runs /\ op[p][s] \in Branches /\ s \in BrowserSources
  BY ResearchRunsAssumption DEF SourceAnswers, NextListing, Works, Working, OpTyped
<1>2. CASE NextListing(p, s)
  <2>. DEFINE x == IF GoesOn(p, s) THEN "store" ELSE "finish"
  <2>1. x \in OpSteps /\ x \in Working /\ Step(p, s, x)
    BY <1>2 DEF OpSteps, Working, NextListing
  <2>2. x = "store" => job[r][s].status # "cancelled_by_policy"
    BY DEF GoesOn
  <2>. HIDE DEF x
  <2>3. OpTyped' /\ OthersKeep(p, s) /\ op'[p][s] = [op[p][s] EXCEPT !.step = x]
    BY <2>1, StepOf
  <2>4. op'[p][s].step = x
    BY <1>1, <2>3 DEF Branches
  <2>. QED
    BY <1>1, <2>1, <2>2, <2>3, <2>4 DEF BranchStep, GoesOnWorking, Works, Working, Over, JobTyped
<1>3. CASE SourceAnswers(p, s) /\ job[r][s].status = "cancelled_by_policy"
  <2>1. Step(p, s, "done") /\ ~ Running(r, s)
    BY <1>3 DEF SourceAnswers, Running
  <2>. "completed" \in Statuses \ (Active \cup {"none"})
    BY DEF Statuses, Active
  <2>. QED
    BY <1>1, <2>1, ClosingStep
<1>4. CASE SourceAnswers(p, s) /\ job[r][s].status # "cancelled_by_policy"
  <2>. PICK found \in SUBSET Listings : \E outcome \in Outcomes(found) :
          op' = [op EXCEPT ![p][s] =
                   [@ EXCEPT !.step = "import", !.todo = found, !.outcome = outcome]]
    BY <1>4 DEF SourceAnswers
  <2>1. PICK outcome \in Outcomes(found) :
          op' = [op EXCEPT ![p][s] =
                   [@ EXCEPT !.step = "import", !.todo = found, !.outcome = outcome]]
    OBVIOUS
  <2>. DEFINE b == [op[p][s] EXCEPT !.step = "import", !.todo = found, !.outcome = outcome]
  <2>2. op' = [op EXCEPT ![p][s] = b]
    BY <2>1
  <2>3. outcome \in {"completed", "manual_action_required", "permanently_failed"}
    BY DEF Outcomes
  <2>4. b \in Branches /\ b.step = "import"
    BY <1>1, <2>3 DEF Branches, OpSteps
  <2>. HIDE DEF b
  <2>5. OpTyped' /\ OthersKeep(p, s) /\ op'[p][s] = b
    BY <1>1, <2>2, <2>4, BranchSet
  <2>. QED
    BY <1>1, <2>4, <2>5 DEF BranchStep, GoesOnWorking, Works, Working, Over, JobTyped
<1>. QED
  BY <1>2, <1>3, <1>4

LEMMA StoreListingStep ==
  ASSUME OpTyped, JobTyped, late \in [Runs -> [Sources -> Nat]],
         NEW p \in Posts, NEW s \in Sources, StoreListing(p, s)
  PROVE  OpTyped' /\ JobTyped' /\ BranchStep(p, s) /\ late' \in [Runs -> [Sources -> Nat]]
<1>. DEFINE r == RunOf[p]
            now == op[p][s]
            next == IF s = "rentcast" THEN "store" ELSE "import"
<1>1. r \in Runs /\ now \in Branches /\ now.step = "store" /\ UNCHANGED <<post, job>>
  BY ResearchRunsAssumption DEF StoreListing, OpTyped
<1>2. PICK b \in Branches :
        b.step = next /\ op' = [op EXCEPT ![p][s] = b]
  <2>1. PICK l \in now.todo :
          LET after == [now EXCEPT !.step = next, !.todo = @ \ {l}] IN
          \/ op' = [op EXCEPT ![p][s] = [after EXCEPT !.rejected = TRUE]]
          \/ op' = [op EXCEPT ![p][s] =
               [after EXCEPT !.new = @ \/ listing[l].state = "absent",
                             !.pending = @ \/ listing[l].state # "normalized"]]
    BY DEF StoreListing
  <2>. DEFINE after == [now EXCEPT !.step = next, !.todo = @ \ {l}]
  <2>2. after \in Branches /\ after.step = next
    BY <1>1 DEF Branches, OpSteps
  <2>. HIDE DEF after, now, next
  <2>3. [after EXCEPT !.rejected = TRUE] \in Branches
        /\ [after EXCEPT !.rejected = TRUE].step = next
    BY <2>2 DEF Branches
  <2>. DEFINE b == [after EXCEPT !.new = @ \/ listing[l].state = "absent",
                                 !.pending = @ \/ listing[l].state # "normalized"]
  <2>4. b \in Branches /\ b.step = next
    BY <2>2, Zenon DEF Branches
  <2>. QED
    BY <2>1, <2>3, <2>4 DEF after
<1>3. OpTyped' /\ OthersKeep(p, s) /\ op'[p][s].step = next
  BY <1>2, BranchSet
<1>4. \/ late' = late
      \/ /\ job[r][s].status = "cancelled_by_policy"
         /\ late' = [late EXCEPT ![r][s] = @ + 1]
  BY DEF StoreListing
<1>5. op[p][s].step \notin {"off"} \cup Over /\ Works(p, s) /\ op'[p][s].step \in Working
  BY <1>1, <1>3 DEF Over, Works, Working
<1>6. CASE late' = late
  <2>1. s \in BrowserSources => op'[p][s].step # "store"
    BY <1>3, SourceNames
  <2>. QED
    BY <1>1, <1>3, <1>5, <1>6, <2>1 DEF BranchStep, GoesOnWorking, JobTyped
<1>7. CASE /\ job[r][s].status = "cancelled_by_policy"
           /\ late' = [late EXCEPT ![r][s] = @ + 1]
  <2>1. Stores(p, s)
    BY <1>1, <1>3, <1>7, SourceNames DEF Stores
  <2>2. late' \in [Runs -> [Sources -> Nat]]
    BY <1>1, <1>7
  <2>. QED
    BY <1>1, <1>3, <1>5, <2>1, <2>2 DEF BranchStep, GoesOnWorking, JobTyped
<1>. QED
  BY <1>4, <1>6, <1>7

LateTyped == late \in [Runs -> [Sources -> Nat]]

LEMMA BranchSteps ==
  ASSUME OpTyped, JobTyped, LateTyped, RentCastStartsAtOnce, SearchInv,
         NEW p \in Posts, Branch(p)
  PROVE  OpTyped' /\ JobTyped' /\ LateTyped' /\ \E s \in Sources : BranchStep(p, s)
<1>1. CASE CheckConcurrent(p)
  BY <1>1, CheckConcurrentStep, SourceNames DEF CheckConcurrent, LateTyped
<1>2. CASE InsertSearch(p)
  BY <1>2, InsertSearchStep, SourceNames DEF InsertSearch, LateTyped
<1>3. CASE \/ ProviderFails(p) \/ ProviderFindsNothing(p) \/ ProviderAnswers(p)
           \/ FinishSearch(p) \/ AskForDecision(p)
  <2>1. RentCast /\ late' = late
    BY <1>3 DEF ProviderFails, ProviderFindsNothing, ProviderAnswers, FinishSearch, AskForDecision
  <2>. QED
    BY <1>3, <2>1, RentCastSteps, SourceNames DEF LateTyped
<1>4. ASSUME NEW s \in Sources, StartSource(p, s)
      PROVE  OpTyped' /\ JobTyped' /\ LateTyped' /\ BranchStep(p, s)
  BY <1>4, StartSourceStep DEF StartSource, LateTyped
<1>5. ASSUME NEW s \in Sources, SourceFails(p, s) \/ FinishSource(p, s)
      PROVE  OpTyped' /\ JobTyped' /\ LateTyped' /\ BranchStep(p, s)
  BY <1>5, SourceStops DEF SourceFails, FinishSource, LateTyped
<1>6. ASSUME NEW s \in Sources, SourceAnswers(p, s) \/ NextListing(p, s)
      PROVE  OpTyped' /\ JobTyped' /\ LateTyped' /\ BranchStep(p, s)
  BY <1>6, SourceGoesOn DEF SourceAnswers, NextListing, LateTyped
<1>7. ASSUME NEW s \in Sources, StoreListing(p, s)
      PROVE  OpTyped' /\ JobTyped' /\ LateTyped' /\ BranchStep(p, s)
  BY <1>7, StoreListingStep DEF LateTyped
<1>. QED
  BY <1>1, <1>2, <1>3, <1>4, <1>5, <1>6, <1>7 DEF Branch

(***************************************************************************)
(* A step of a branch keeps what branches and jobs say of each other.      *)
(***************************************************************************)

LEMMA BranchStepKeepsBranches ==
  ASSUME LateTyped, BranchInv, NEW p \in Posts, NEW s \in Sources, BranchStep(p, s)
  PROVE  BranchInv'
<1>. DEFINE r == RunOf[p]
<1>. RunOf \in [Posts -> Runs]
  BY ResearchRunsAssumption
<1>. USE DEF BranchInv, BranchStep
<1>1. /\ \A q \in Posts, t \in Sources : q # p \/ t # s => (Works(q, t) <=> Works(q, t)')
      /\ \A q \in Posts, t \in Sources : q # p \/ t # s => op'[q][t].step = op[q][t].step
  BY DEF OthersKeep, Works
<1>2. post[p] = "running"
  BY DEF BranchesFollow
<1>7. RentCastStartsAtOnce' /\ BranchesFollow'
  <2>1. op'[p][s].step # "wait"
    BY DEF Prepares, Opens, GoesOnWorking, Closes, Working
  <2>2. RentCastStartsAtOnce'
    BY <1>1, <2>1, SourceNames DEF RentCastStartsAtOnce
  <2>3. BranchesFollow'
    BY <1>1, <1>2 DEF BranchesFollow
  <2>. QED
    BY <2>2, <2>3
<1>. BrowserSources \subseteq Sources
  BY SourceNames
<1>3. CASE Prepares(p, s)
  <2>1. ~ Works(p, s) /\ ~ Works(p, s)' /\ job' = job /\ late' = late
    BY <1>3 DEF Prepares, Works
  <2>2. JobsAreKnown'
    BY <2>1 DEF JobsAreKnown
  <2>4. RunningIsServed'
    BY <1>1, <2>1 DEF RunningIsServed, Running
  <2>5. WorkIsOwn'
    BY <1>1, <2>1 DEF WorkIsOwn
  <2>6. LateIsLast'
    BY <1>1, <1>3, <2>1 DEF LateIsLast, Prepares, Working
  <2>. QED
    BY <1>7, <2>2, <2>4, <2>5, <2>6
<1>4. CASE Opens(p, s)
  <2>1. /\ ~ Works(p, s) /\ Works(p, s)' /\ late' = late /\ JobsKeep(r, s)
        /\ job[r][s] = NoJob /\ job'[r][s].status = "running"
    BY <1>4 DEF Opens, Works, Working
  <2>2. JobsAreKnown'
    BY <2>1 DEF JobsAreKnown, JobsKeep
  <2>4. RunningIsServed'
    BY <1>1, <2>1 DEF RunningIsServed, Running, JobsKeep
  <2>5. job'[r][s] # NoJob
    BY <2>1 DEF NoJob
  <2>6. WorkIsOwn'
    BY <1>1, <2>1, <2>5 DEF WorkIsOwn, JobsKeep
  <2>7. late[r][s] = 0 \/ s \notin BrowserSources
    BY <2>1 DEF LateIsLast, NoJob
  <2>8. LateIsLast'
    BY <1>1, <1>4, <2>1, <2>7 DEF LateIsLast, JobsKeep, Opens
  <2>. QED
    BY <1>7, <2>2, <2>4, <2>6, <2>8
<1>5. CASE GoesOnWorking(p, s)
  <2>1. Works(p, s) /\ Works(p, s)' /\ job' = job
    BY <1>5 DEF GoesOnWorking, Works
  <2>2. JobsAreKnown'
    BY <2>1 DEF JobsAreKnown
  <2>4. RunningIsServed'
    BY <1>1, <2>1 DEF RunningIsServed, Running
  <2>5. WorkIsOwn'
    BY <1>1, <2>1 DEF WorkIsOwn
  <2>6. CASE Stores(p, s)
    <3>1. s \in BrowserSources =>
            /\ late[r][s] = 0
            /\ \A q \in Posts : RunOf[q] = r => op'[q][s].step # "store"
      BY <1>1, <2>1, <2>6 DEF Stores, LateIsLast, WorkIsOwn, Works, Working
    <3>2. \A o \in Runs, t \in Sources : late'[o][t] =
            IF o = r /\ t = s /\ job[o][t].status = "cancelled_by_policy"
            THEN late[o][t] + 1 ELSE late[o][t]
      BY <2>6 DEF Stores
    <3>3. \A o \in Runs, t \in BrowserSources : o # r \/ t # s => late'[o][t] = late[o][t]
      BY <3>2, SourceNames
    <3>4. s \in BrowserSources =>
            \/ late'[r][s] = 0
            \/ late'[r][s] = 1 /\ job[r][s].status = "cancelled_by_policy"
      BY <3>1, <3>2
    <3>. QED
      BY <1>1, <1>7, <2>1, <2>2, <2>4, <2>5, <3>1, <3>3, <3>4 DEF LateIsLast
  <2>7. CASE /\ late' = late
             /\ s \in BrowserSources /\ op'[p][s].step = "store"
                  => job[r][s].status # "cancelled_by_policy"
    <3>1. LateIsLast'
      BY <1>1, <2>1, <2>7 DEF LateIsLast
    <3>. QED
      BY <1>7, <2>2, <2>4, <2>5, <3>1
  <2>. QED
    BY <1>5, <2>6, <2>7 DEF GoesOnWorking
<1>6. CASE Closes(p, s)
  <2>1. /\ Works(p, s) /\ ~ Works(p, s)' /\ late' = late /\ JobsKeep(r, s)
        /\ \/ job'[r][s] = job[r][s] /\ ~ Running(r, s)
           \/ Running(r, s) /\ job'[r][s].status \notin Active \cup {"none"}
    BY <1>6 DEF Closes, Works, JobsKeep
  <2>2. JobsAreKnown'
    BY <2>1 DEF JobsAreKnown, JobsKeep, Active
  <2>4. ~ Running(r, s)'
    BY <2>1 DEF Running, Active
  <2>5. RunningIsServed'
    BY <1>1, <2>1, <2>4 DEF RunningIsServed, Running, JobsKeep
  <2>6. job'[r][s] = NoJob => job[r][s] = NoJob
    BY <2>1 DEF NoJob
  <2>7. WorkIsOwn'
    BY <1>1, <2>1, <2>6 DEF WorkIsOwn, JobsKeep
  <2>8. LateIsLast'
    BY <1>1, <1>6, <2>1 DEF LateIsLast, JobsKeep, Closes, Working, Running
  <2>. QED
    BY <1>7, <2>2, <2>5, <2>7, <2>8
<1>. QED
  BY <1>3, <1>4, <1>5, <1>6

(***************************************************************************)
(* The other steps keep it as well.                                        *)
(***************************************************************************)

(* A stop request cancels a job that has not ended.                        *)
CancelStep(r, s) ==
  /\ job[r][s].status \in Stoppable
  /\ job'[r][s].status = "cancelled_by_policy" /\ job'[r][s].seq = job[r][s].seq
  /\ JobsKeep(r, s)
  /\ UNCHANGED <<post, op, late>>

LEMMA StopNextStep ==
  ASSUME JobTyped, stop \in [Runs -> SUBSET Sources], NEW r \in Runs, StopNext(r)
  PROVE  /\ JobTyped'
         /\ (\E s \in Sources : CancelStep(r, s)) \/ UNCHANGED <<post, op, job, late>>
<1>1. PICK s \in stop[r] :
        \/ job[r][s].status \in Stoppable /\ SetJob(r, s, "cancelled_by_policy")
        \/ UNCHANGED job
  BY DEF StopNext
<1>2. s \in Sources /\ UNCHANGED <<post, op, late>>
  BY DEF StopNext
<1>3. CASE job[r][s].status \in Stoppable /\ SetJob(r, s, "cancelled_by_policy")
  <2>. "cancelled_by_policy" \in Statuses
    BY DEF Statuses
  <2>1. /\ JobTyped' /\ JobsKeep(r, s) /\ job'[r][s].seq = job[r][s].seq
        /\ job'[r][s].status = "cancelled_by_policy"
    BY <1>2, <1>3, JobSet
  <2>. QED
    BY <1>2, <1>3, <2>1 DEF CancelStep
<1>. QED
  BY <1>1, <1>2, <1>3 DEF JobTyped

LEMMA CancelKeepsBranches ==
  ASSUME BranchInv, NEW r \in Runs, NEW s \in Sources, CancelStep(r, s)
  PROVE  BranchInv'
<1>. RunOf \in [Posts -> Runs] /\ BrowserSources \subseteq Sources
  BY ResearchRunsAssumption, SourceNames
<1>. USE DEF BranchInv, CancelStep
<1>1. /\ \A p \in Posts, t \in Sources : Works(p, t) <=> Works(p, t)'
      /\ job'[r][s] # NoJob /\ ~ Running(r, s)'
  BY DEF Works, NoJob, Running
<1>2. JobsAreKnown'
  BY DEF JobsAreKnown, JobsKeep
<1>3. RentCastStartsAtOnce' /\ BranchesFollow'
  BY DEF RentCastStartsAtOnce, BranchesFollow
<1>4. RunningIsServed'
  BY <1>1 DEF RunningIsServed, Running, JobsKeep
<1>5. WorkIsOwn'
  BY <1>1 DEF WorkIsOwn, JobsKeep
<1>6. LateIsLast'
  BY DEF LateIsLast, JobsKeep
<1>. QED
  BY <1>2, <1>3, <1>4, <1>5, <1>6

PostTyped == post \in [Posts -> {"new", "running", "done", "refused", "dead"}]

LEMMA RequestsKeepBranches ==
  ASSUME OpTyped, PostTyped, BranchInv, NEW p \in Posts, Start(p) \/ Settle(p) \/ Crash(p)
  PROVE  BranchInv' /\ OpTyped'
<1>. RunOf \in [Posts -> Runs] /\ BrowserSources \subseteq Sources
  BY ResearchRunsAssumption, SourceNames
<1>. USE DEF BranchInv
<1>0. UNCHANGED <<job, late>>
  BY DEF Start, Settle, Crash
<1>1. JobsAreKnown'
  BY <1>0 DEF JobsAreKnown
<1>2. ASSUME NEW f \in [Sources -> Branches],
             \A t \in Sources : f[t].step \notin Working,
             op' = [op EXCEPT ![p] = f],
             RentCast => f["rentcast"].step # "wait",
             \/ post' = [post EXCEPT ![p] = "running"] /\ post[p] = "new"
             \/ /\ post' = [post EXCEPT ![p] = "dead"] /\ post[p] = "running"
                /\ \A t \in Sources : f[t].step = "dead"
      PROVE  BranchInv' /\ OpTyped'
  <2>1. /\ OpTyped' /\ op'[p] = f
        /\ \A q \in Posts \ {p} : op'[q] = op[q]
    BY <1>2 DEF OpTyped
  <2>2. /\ \A q \in Posts \ {p}, t \in Sources : Works(q, t) <=> Works(q, t)'
        /\ \A t \in Sources : ~ Works(p, t)'
    BY <1>2, <2>1 DEF Works
  <2>3. RentCastStartsAtOnce'
    BY <1>2, <2>1 DEF RentCastStartsAtOnce
  <2>4. \A q \in Posts \ {p} : post'[q] = post[q]
    BY <1>2 DEF PostTyped
  <2>5. \/ post'[p] = "running" /\ post[p] = "new"
        \/ post'[p] = "dead" /\ post[p] = "running" /\ \A t \in Sources : op'[p][t].step = "dead"
    BY <1>2, <2>1 DEF PostTyped
  <2>6. BranchesFollow'
    BY <2>1, <2>4, <2>5 DEF BranchesFollow, Over
  <2>7. RunningIsServed'
    <3>1. \A t \in Sources : Works(p, t) => post[p] = "running"
      BY DEF BranchesFollow, Works, Working, Over
    <3>. QED
      BY <1>0, <2>2, <2>4, <2>5, <3>1 DEF RunningIsServed, Running
  <2>8. WorkIsOwn'
    BY <1>0, <2>2 DEF WorkIsOwn
  <2>9. LateIsLast'
    BY <1>0, <1>2, <2>1 DEF LateIsLast, Working
  <2>. QED
    BY <1>1, <2>1, <2>3, <2>6, <2>7, <2>8, <2>9
<1>3. CASE Start(p) /\ op' # op
  <2>. DEFINE f == [s \in Sources |->
                      [NoOp EXCEPT !.step = IF s = "rentcast" THEN "check" ELSE "wait"]]
  <2>1. /\ op' = [op EXCEPT ![p] = f]
        /\ post' = [post EXCEPT ![p] = "running"] /\ post[p] = "new"
    BY <1>3 DEF Start
  <2>2. \A t \in Sources : f[t] \in Branches /\ f[t].step \in {"check", "wait"}
    BY NoOpTyped DEF OpSteps
  <2>3. RentCast => f["rentcast"].step = "check"
    BY SourceNames DEF NoOp
  <2>4. f \in [Sources -> Branches]
    BY <2>2
  <2>5. \A t \in Sources : f[t].step \notin Working
    BY <2>2 DEF Working
  <2>. HIDE DEF f
  <2>. QED
    BY <1>2, <2>1, <2>3, <2>4, <2>5
<1>4. CASE Crash(p)
  <2>. DEFINE f == [s \in Sources |-> [NoOp EXCEPT !.step = "dead"]]
  <2>1. /\ op' = [op EXCEPT ![p] = f]
        /\ post' = [post EXCEPT ![p] = "dead"] /\ post[p] = "running"
    BY <1>4 DEF Crash
  <2>2. \A t \in Sources : f[t] \in Branches /\ f[t].step = "dead"
    BY NoOpTyped DEF OpSteps
  <2>3. f \in [Sources -> Branches] /\ (RentCast => f["rentcast"].step = "dead")
    BY <2>2, SourceNames
  <2>. HIDE DEF f
  <2>. QED
    BY <1>2, <2>1, <2>2, <2>3 DEF Working
<1>5. CASE op' = op /\ (Start(p) \/ Settle(p))
  <2>1. \A q \in Posts, t \in Sources : Works(q, t) <=> Works(q, t)'
    BY <1>5 DEF Works
  <2>2. \A q \in Posts : post'[q] = post[q] \/ post[q] = "new" \/ post[q] = "running"
    BY <1>5 DEF Start, Settle, PostTyped
  <2>3. \A q \in Posts : post'[q] = post[q] \/ \A t \in Sources : op[q][t].step \in {"off"} \cup Over
    BY <1>5 DEF Start, Settle, PostTyped, BranchesFollow
  <2>4. BranchesFollow' /\ RentCastStartsAtOnce'
    BY <1>5, <2>3 DEF BranchesFollow, RentCastStartsAtOnce
  <2>5. RunningIsServed'
    BY <1>0, <2>1, <2>2 DEF RunningIsServed, Running
  <2>6. WorkIsOwn' /\ LateIsLast'
    BY <1>0, <1>5, <2>1 DEF WorkIsOwn, LateIsLast
  <2>. QED
    BY <1>1, <1>5, <2>4, <2>5, <2>6 DEF OpTyped
<1>. QED
  BY <1>3, <1>4, <1>5 DEF Settle

(***************************************************************************)
(* The numbers of the searches.                                            *)
(***************************************************************************)

(* No search is added, none becomes active, and whoever is told a number   *)
(* has seen them all.                                                      *)
SearchesKeep ==
  /\ \A r \in Runs :
       /\ Search(r)' = NoJob <=> Search(r) = NoJob
       /\ Search(r)'.seq = Search(r).seq
       /\ IsActive(r)' => IsActive(r)
  /\ \A p \in Posts :
       \/ op'[p]["rentcast"] = op[p]["rentcast"]
       \/ op'[p]["rentcast"].step # "insert"
       \/ HasSeen(p)

LEMMA KeptSearches ==
  ASSUME SearchInv, RentCast => SearchesKeep
  PROVE  SearchInv'
<1>1. CASE RentCast
  <2>1. RentCastJobs' = RentCastJobs /\ Searches' = Searches
    BY <1>1 DEF SearchesKeep, RentCastJobs, Search, Searches
  <2>2. RentCastJobs \subseteq Runs /\ Searches \in Nat
    BY SearchesBound DEF RentCastJobs
  <2>3. NumbersInUse'
    BY <1>1, <2>1, <2>2 DEF SearchInv, NumbersInUse, SearchesKeep
  <2>4. NumbersAreEarned'
    <3>. SUFFICES ASSUME NEW p \in Posts, op'[p]["rentcast"].step = "insert"
                  PROVE  /\ op'[p]["rentcast"].seq \in 1 .. Searches + 1
                         /\ op'[p]["rentcast"].seq = Searches + 1 => \A o \in RentCastJobs :
                              /\ ~ IsActive(o)'
                              /\ ~ (RetryOf[RunOf[p]] # RunOf[p] /\ IsRetry(o, RetryOf[RunOf[p]]))
      BY <2>1 DEF NumbersAreEarned, IsRetry
    <3>1. CASE op'[p]["rentcast"] = op[p]["rentcast"]
      BY <1>1, <2>2, <3>1 DEF SearchInv, NumbersAreEarned, SearchesKeep
    <3>2. CASE HasSeen(p)
      BY <1>1, <2>2, <3>2 DEF HasSeen, SearchesKeep
    <3>. QED
      BY <1>1, <3>1, <3>2 DEF SearchesKeep
  <2>5. OneIsActive'
    BY <1>1, <2>1, <2>2 DEF SearchInv, OneIsActive, SearchesKeep
  <2>6. OneIsRetry'
    BY <2>1 DEF SearchInv, OneIsRetry, IsRetry
  <2>. QED
    BY <2>3, <2>4, <2>5, <2>6 DEF SearchInv
<1>2. CASE ~ RentCast
  <2>1. RentCastJobs = {} /\ RentCastJobs' = {}
    BY <1>2 DEF RentCastJobs
  <2>2. Searches' = 0
    BY <2>1, FS_EmptySet DEF Searches
  <2>. QED
    BY <1>2, <2>1, <2>2 DEF SearchInv, NumbersInUse, NumbersAreEarned, OneIsActive, OneIsRetry
<1>. QED
  BY <1>1, <1>2

LEMMA OpenedSearch ==
  ASSUME SearchInv, RentCast, NEW p \in Posts, Opens(p, "rentcast"), OthersKeep(p, "rentcast")
  PROVE  SearchInv'
<1>. DEFINE r == RunOf[p]
            n == op[p]["rentcast"].seq
<1>1. /\ r \in Runs \ RentCastJobs /\ RentCastJobs \subseteq Runs
      /\ RetryOf \in [Runs -> Runs] /\ Searches \in Nat /\ "rentcast" \in Sources
  BY ResearchRunsAssumption, SearchesBound, SourceNames DEF Opens, RentCastJobs
<1>2. /\ Search(r)'.status = "running" /\ Search(r)'.seq = n
      /\ \A o \in Runs \ {r} : Search(o)' = Search(o)
  BY <1>1 DEF Opens, JobsKeep, Search
<1>3. RentCastJobs' = RentCastJobs \cup {r}
  <2>1. Search(r)' # NoJob
    BY <1>2 DEF NoJob
  <2>. QED
    BY <1>1, <1>2, <2>1 DEF RentCastJobs, Search
<1>4. Searches' = Searches + 1
  BY <1>1, <1>3, SearchesBound, FS_AddElement DEF Searches
<1>5. n = Searches + 1
  <2>1. n \in 1 .. Searches + 1
    BY DEF SearchInv, NumbersAreEarned, Opens
  <2>2. \A o \in RentCastJobs : Search(o).seq # n
    BY DEF Opens, KeyTaken, Search
  <2>3. n \notin 1 .. Searches
    BY <2>2 DEF SearchInv, NumbersInUse
  <2>. QED
    BY <1>1, <2>1, <2>3
<1>6. \A o \in RentCastJobs : ~ IsActive(o) /\ ~ (RetryOf[r] # r /\ IsRetry(o, RetryOf[r]))
  BY <1>5 DEF SearchInv, NumbersAreEarned, Opens
<1>7. NumbersInUse'
  <2>1. ASSUME NEW m \in 1 .. Searches + 1
        PROVE  \E o \in RentCastJobs \cup {r} : Search(o)'.seq = m
    <3>1. CASE m = Searches + 1
      BY <1>2, <1>5, <3>1
    <3>2. CASE m \in 1 .. Searches
      <4>1. PICK o \in RentCastJobs : Search(o).seq = m
        BY <3>2 DEF SearchInv, NumbersInUse
      <4>. QED
        BY <1>1, <1>2, <4>1
    <3>. QED
      BY <1>1, <3>1, <3>2
  <2>. QED
    BY <1>3, <1>4, <2>1 DEF NumbersInUse
<1>8. NumbersAreEarned'
  <2>. SUFFICES ASSUME NEW q \in Posts, op'[q]["rentcast"].step = "insert"
                PROVE  op'[q]["rentcast"].seq \in 1 .. Searches + 1
    BY <1>1, <1>4 DEF NumbersAreEarned
  <2>1. q # p
    BY DEF Opens
  <2>2. op'[q]["rentcast"] = op[q]["rentcast"]
    BY <1>1, <2>1 DEF OthersKeep
  <2>. QED
    BY <2>2 DEF SearchInv, NumbersAreEarned
<1>9. OneIsActive'
  <2>1. \A o \in RentCastJobs : ~ IsActive(o)'
    BY <1>1, <1>2, <1>6 DEF IsActive
  <2>. QED
    BY <1>3, <2>1 DEF OneIsActive
<1>10. OneIsRetry'
  BY <1>3, <1>6 DEF SearchInv, OneIsRetry, IsRetry
<1>. QED
  BY <1>7, <1>8, <1>9, <1>10 DEF SearchInv

(* Every step of a branch and every cancellation is one of the two.        *)
LEMMA BranchStepKeepsSearches ==
  ASSUME SearchInv, JobsAreKnown, NEW p \in Posts, NEW s \in Sources, BranchStep(p, s)
  PROVE  SearchInv'
<1>. RunOf \in [Posts -> Runs] /\ (RentCast => "rentcast" \in Sources)
  BY ResearchRunsAssumption, SourceNames
<1>1. CASE s = "rentcast" /\ Opens(p, s)
  BY <1>1, OpenedSearch, SourceNames DEF BranchStep
<1>2. CASE ~ (s = "rentcast" /\ Opens(p, s))
  <2>1. RentCast => \A r \in Runs : \/ Search(r)' = Search(r)
                                    \/ /\ Search(r).status = "running"
                                       /\ Search(r)'.seq = Search(r).seq
                                       /\ Search(r)'.status \notin Active \cup {"none"}
    BY <1>2 DEF BranchStep, Prepares, Opens, GoesOnWorking, Closes, JobsKeep, Search, Running
  <2>2. RentCast => \A q \in Posts : \/ op'[q]["rentcast"] = op[q]["rentcast"]
                                     \/ op'[q]["rentcast"].step # "insert"
                                     \/ HasSeen(q)
    BY <1>2 DEF BranchStep, OthersKeep, Prepares, Opens, GoesOnWorking, Closes, Working
  <2>3. RentCast => SearchesKeep
    BY <2>1, <2>2 DEF SearchesKeep, IsActive, NoJob
  <2>. QED
    BY <2>3, KeptSearches
<1>. QED
  BY <1>1, <1>2

LEMMA CancelKeepsSearches ==
  ASSUME SearchInv, NEW r \in Runs, NEW s \in Sources, CancelStep(r, s)
  PROVE  SearchInv'
<1>1. RentCast => \A o \in Runs : \/ Search(o)' = Search(o)
                                  \/ /\ Search(o).status \in Stoppable
                                     /\ Search(o)'.seq = Search(o).seq
                                     /\ Search(o)'.status = "cancelled_by_policy"
  BY SourceNames DEF CancelStep, JobsKeep, Search
<1>2. RentCast => SearchesKeep
  BY <1>1 DEF SearchesKeep, IsActive, NoJob, Stoppable, Active, CancelStep
<1>. QED
  BY <1>2, KeptSearches

(***************************************************************************)
(* The variables these invariants do not mention are typed.                *)
(***************************************************************************)

LogTyped == log \in [Runs -> SUBSET Events]
FoundTyped ==
  /\ imports \in [Runs -> SUBSET Listings]
  /\ listing \in [Listings -> [state : {"absent", "raw", "normalized", "failed"},
                               run : SUBSET Runs]]
  /\ due \in BOOLEAN
StopTyped == stop \in [Runs -> SUBSET Sources] /\ crashes \in 0 .. MaxCrashes

LEMMA TypeParts ==
  TypeOK <=> /\ OpTyped /\ JobTyped /\ LateTyped /\ PostTyped
             /\ LogTyped /\ FoundTyped /\ StopTyped
BY DEF TypeOK, OpTyped, JobTyped, LateTyped, PostTyped, LogTyped, FoundTyped, StopTyped

LEMMA LogGrows ==
  ASSUME LogTyped, NEW r \in Runs, NEW events \in SUBSET Events, Append1(r, events)
  PROVE  LogTyped'
BY DEF LogTyped, Append1

LEMMA EventNames ==
  /\ \A what \in {"requested", "completed", "sources_finished", "stopped"} : Event(what) \in Events
  /\ \A s \in Sources : Failed(s) \in Events
BY DEF Events

LEMMA LogStep ==
  ASSUME LogTyped, Next
  PROVE  LogTyped'
<1>. RunOf \in [Posts -> Runs]
  BY ResearchRunsAssumption
<1>1. ASSUME NEW r \in Runs, NEW events \in SUBSET Events, Append1(r, events) PROVE LogTyped'
  BY <1>1, LogGrows
<1>2. ASSUME UNCHANGED log PROVE LogTyped'
  BY <1>2 DEF LogTyped
<1>3. ASSUME NEW p \in Posts, Start(p) PROVE LogTyped'
  <2>1. {Event("requested")} \in SUBSET Events
    BY EventNames
  <2>. QED
    BY <1>1, <1>2, <1>3, <2>1 DEF Start
<1>4. ASSUME NEW p \in Posts, Settle(p) PROVE LogTyped'
  <2>1. {Event("sources_finished")}
          \cup {Failed(s) : s \in {t \in Sources : op[p][t].step = "threw"}} \in SUBSET Events
    BY EventNames
  <2>. QED
    BY <1>1, <1>4, <2>1 DEF Settle
<1>5. ASSUME NEW p \in Posts, Branch(p) PROVE LogTyped'
  <2>1. RentCast => {Failed("rentcast")} \in SUBSET Events
    BY EventNames, SourceNames
  <2>2. \A s \in Sources : {Failed(s)} \in SUBSET Events
    BY EventNames
  <2>3. {Event("completed")} \in SUBSET Events
    BY EventNames
  <2>4. CASE CheckConcurrent(p) \/ InsertSearch(p) \/ ProviderAnswers(p)
    BY <1>2, <2>4 DEF CheckConcurrent, InsertSearch, ProviderAnswers
  <2>5. CASE ProviderFails(p)
    BY <1>1, <2>1, <2>5 DEF ProviderFails, FailRun
  <2>6. CASE ProviderFindsNothing(p)
    BY <1>1, <1>2, <2>1, <2>6 DEF ProviderFindsNothing
  <2>7. CASE FinishSearch(p)
    BY <1>1, <1>2, <2>1, <2>7 DEF FinishSearch, FailRun
  <2>8. CASE AskForDecision(p)
    BY <1>1, <1>2, <2>3, <2>8 DEF AskForDecision
  <2>9. ASSUME NEW s \in Sources,
               \/ StartSource(p, s) \/ SourceFails(p, s) \/ SourceAnswers(p, s)
               \/ NextListing(p, s) \/ StoreListing(p, s) \/ FinishSource(p, s)
        PROVE  LogTyped'
    BY <1>1, <1>2, <2>2, <2>9
       DEF StartSource, SourceFails, SourceAnswers, NextListing, StoreListing, FinishSource
  <2>. QED
    BY <1>5, <2>4, <2>5, <2>6, <2>7, <2>8, <2>9 DEF Branch
<1>6. ASSUME NEW p \in Posts, Crash(p) PROVE LogTyped'
  BY <1>2, <1>6 DEF Crash
<1>7. ASSUME NEW r \in Runs, Stop(r) \/ StopNext(r) PROVE LogTyped'
  <2>1. {Event("stopped")} \in SUBSET Events
    BY EventNames
  <2>. QED
    BY <1>1, <1>2, <1>7, <2>1 DEF Stop, StopNext
<1>8. ASSUME NEW l \in Listings, Normalize(l) PROVE LogTyped'
  BY <1>2, <1>8 DEF Normalize
<1>9. ASSUME Decide PROVE LogTyped'
  BY <1>9, EventNames DEF Decide, LogTyped
<1>. QED
  BY <1>3, <1>4, <1>5, <1>6, <1>7, <1>8, <1>9 DEF Next

(* Of those that follow a branch writes what it has found.                 *)
LEMMA BranchWrites ==
  ASSUME NEW p \in Posts, Branch(p)
  PROVE  /\ UNCHANGED <<post, due, stop, crashes>>
         /\ UNCHANGED <<imports, listing>> \/ \E s \in Sources : StoreListing(p, s)
<1>1. CASE CheckConcurrent(p) \/ InsertSearch(p)
  BY <1>1 DEF CheckConcurrent, InsertSearch
<1>2. CASE \/ ProviderFails(p) \/ ProviderFindsNothing(p) \/ ProviderAnswers(p)
           \/ FinishSearch(p) \/ AskForDecision(p)
  BY <1>2 DEF ProviderFails, ProviderFindsNothing, ProviderAnswers, FinishSearch, AskForDecision
<1>3. ASSUME NEW s \in Sources, StartSource(p, s) \/ SourceFails(p, s) \/ SourceAnswers(p, s)
      PROVE  UNCHANGED <<post, due, stop, crashes, imports, listing>>
  BY <1>3 DEF StartSource, SourceFails, SourceAnswers
<1>4. ASSUME NEW s \in Sources, NextListing(p, s) \/ FinishSource(p, s)
      PROVE  UNCHANGED <<post, due, stop, crashes, imports, listing>>
  BY <1>4 DEF NextListing, FinishSource
<1>5. ASSUME NEW s \in Sources, StoreListing(p, s) PROVE UNCHANGED <<post, due, stop, crashes>>
  BY <1>5 DEF StoreListing
<1>. QED
  BY <1>1, <1>2, <1>3, <1>4, <1>5 DEF Branch

LEMMA FoundStep ==
  ASSUME OpTyped, FoundTyped, Next
  PROVE  FoundTyped'
<1>. RunOf \in [Posts -> Runs]
  BY ResearchRunsAssumption
<1>1. ASSUME NEW p \in Posts, NEW s \in Sources, StoreListing(p, s) PROVE FoundTyped'
  <2>1. PICK l \in op[p][s].todo :
          \/ UNCHANGED <<imports, listing>>
          \/ /\ listing' = IF listing[l].state = "absent"
                           THEN [listing EXCEPT ![l] = [state |-> "raw", run |-> {RunOf[p]}]]
                           ELSE listing
             /\ imports' = [imports EXCEPT ![RunOf[p]] = @ \cup {l}]
    BY <1>1 DEF StoreListing
  <2>2. l \in Listings /\ RunOf[p] \in Runs /\ due' = due
    BY <1>1 DEF OpTyped, Branches, StoreListing
  <2>3. imports' \in [Runs -> SUBSET Listings]
    BY <2>1, <2>2 DEF FoundTyped
  <2>. DEFINE new == [state |-> "raw", run |-> {RunOf[p]}]
              Rows == [state : {"absent", "raw", "normalized", "failed"}, run : SUBSET Runs]
  <2>4. new \in Rows
    BY <2>2
  <2>5. listing \in [Listings -> Rows] /\ (listing' = listing \/ listing' = [listing EXCEPT ![l] = new])
    BY <2>1 DEF FoundTyped
  <2>. HIDE DEF new, Rows
  <2>6. listing' \in [Listings -> Rows]
    BY <2>2, <2>4, <2>5
  <2>. QED
    BY <2>2, <2>3, <2>6 DEF FoundTyped, Rows
<1>2. ASSUME NEW l \in Listings, Normalize(l) PROVE FoundTyped'
  <2>. DEFINE Rows == [state : {"absent", "raw", "normalized", "failed"}, run : SUBSET Runs]
  <2>1. PICK state \in {"normalized", "failed"} : listing' = [listing EXCEPT ![l].state = state]
    BY <1>2 DEF Normalize
  <2>2. [listing[l] EXCEPT !.state = state] \in Rows /\ listing \in [Listings -> Rows]
    BY DEF FoundTyped
  <2>3. imports' = imports /\ due' \in BOOLEAN
    BY <1>2 DEF Normalize, FoundTyped
  <2>. HIDE DEF Rows
  <2>4. listing' \in [Listings -> Rows]
    BY <2>1, <2>2
  <2>. QED
    BY <2>3, <2>4 DEF FoundTyped, Rows
<1>3. CASE Decide
  BY <1>3 DEF Decide, FoundTyped
<1>4. ASSUME UNCHANGED <<imports, listing, due>> PROVE FoundTyped'
  BY <1>4 DEF FoundTyped
<1>5. ASSUME NEW p \in Posts, Start(p) \/ Settle(p) \/ Crash(p) PROVE FoundTyped'
  BY <1>4, <1>5 DEF Start, Settle, Crash
<1>6. ASSUME NEW r \in Runs, Stop(r) \/ StopNext(r) PROVE FoundTyped'
  BY <1>4, <1>6 DEF Stop, StopNext
<1>7. ASSUME NEW p \in Posts, Branch(p) PROVE FoundTyped'
  BY <1>1, <1>4, <1>7, BranchWrites
<1>. QED
  BY <1>2, <1>3, <1>5, <1>6, <1>7 DEF Next

LEMMA StopStep ==
  ASSUME StopTyped, PostTyped, Next
  PROVE  StopTyped' /\ PostTyped'
<1>1. ASSUME NEW r \in Runs, Stop(r) \/ StopNext(r) PROVE StopTyped' /\ PostTyped'
  BY <1>1 DEF Stop, StopNext, StopTyped, PostTyped, Unfinished
<1>2. ASSUME NEW p \in Posts, Start(p) \/ Settle(p) \/ Crash(p) PROVE StopTyped' /\ PostTyped'
  BY <1>2, ResearchRunsAssumption DEF Start, Settle, Crash, StopTyped, PostTyped
<1>3. ASSUME UNCHANGED <<stop, crashes, post>> PROVE StopTyped' /\ PostTyped'
  BY <1>3 DEF StopTyped, PostTyped
<1>4. ASSUME NEW p \in Posts, Branch(p) PROVE StopTyped' /\ PostTyped'
  BY <1>3, <1>4, BranchWrites
<1>5. ASSUME NEW l \in Listings, Normalize(l) \/ Decide PROVE StopTyped' /\ PostTyped'
  BY <1>3, <1>5 DEF Normalize, Decide
<1>6. ASSUME Decide PROVE StopTyped' /\ PostTyped'
  BY <1>3, <1>6 DEF Decide
<1>. QED
  BY <1>1, <1>2, <1>4, <1>5, <1>6 DEF Next

(***************************************************************************)
(* The theorems.                                                           *)
(***************************************************************************)

ResearchInv == TypeOK /\ BranchInv /\ SearchInv

LEMMA ResearchInit == Init => ResearchInv
<1>. SUFFICES ASSUME Init PROVE ResearchInv
  OBVIOUS
<1>1. /\ OpTyped /\ \A p \in Posts, s \in Sources : op[p][s].step = "off"
  <2>1. NoOp \in Branches /\ NoOp.step = "off"
    <3>1. 0 \in 0 .. Cardinality(Runs) + 1
      BY SearchesBound
    <3>. QED
      BY <3>1 DEF NoOp, Branches, OpSteps
  <2>. HIDE DEF NoOp
  <2>. QED
    BY <2>1 DEF Init, OpTyped
<1>2. /\ JobTyped /\ \A r \in Runs, s \in Sources : job[r][s] = NoJob
  BY SearchesBound DEF Init, JobTyped, NoJob, Statuses
<1>3. LateTyped /\ PostTyped /\ LogTyped /\ FoundTyped /\ StopTyped
  <2>1. LateTyped /\ PostTyped /\ LogTyped
    BY DEF Init, LateTyped, PostTyped, LogTyped
  <2>2. FoundTyped
    BY DEF Init, FoundTyped
  <2>3. StopTyped
    BY ResearchRunsAssumption DEF Init, StopTyped
  <2>. QED
    BY <2>1, <2>2, <2>3
<1>4. BranchInv
  <2>1. \A p \in Posts, s \in Sources : ~ Works(p, s)
    BY <1>1 DEF Works, Working
  <2>2. \A r \in Runs, s \in Sources : job[r][s].status = "none"
    BY <1>2 DEF NoJob
  <2>3. \A r \in Runs, s \in BrowserSources : late[r][s] = 0
    BY SourceNames DEF Init
  <2>. QED
    BY <1>1, <1>2, <2>1, <2>2, <2>3, SourceNames
       DEF BranchInv, JobsAreKnown, RentCastStartsAtOnce, BranchesFollow, RunningIsServed,
           Running, WorkIsOwn, LateIsLast
<1>5. SearchInv
  <2>1. RentCastJobs = {}
    BY <1>2, SourceNames DEF RentCastJobs
  <2>2. Searches = 0
    BY <2>1, FS_EmptySet DEF Searches
  <2>. QED
    BY <1>1, <2>1, <2>2, SourceNames
       DEF SearchInv, NumbersInUse, NumbersAreEarned, OneIsActive, OneIsRetry
<1>. QED
  BY <1>1, <1>2, <1>3, <1>4, <1>5, TypeParts DEF ResearchInv

LEMMA ResearchNext == ResearchInv /\ [Next]_vars => ResearchInv'
<1>. SUFFICES ASSUME ResearchInv, [Next]_vars PROVE ResearchInv'
  OBVIOUS
<1>. USE DEF ResearchInv
<1>0. OpTyped /\ JobTyped /\ LateTyped /\ PostTyped /\ LogTyped /\ FoundTyped /\ StopTyped
  BY TypeParts
<1>. DEFINE Holds == OpTyped' /\ JobTyped' /\ LateTyped' /\ BranchInv' /\ SearchInv'
<1>1. ASSUME UNCHANGED <<post, op, job, late>> PROVE Holds
  <2>1. OpTyped' /\ JobTyped' /\ LateTyped'
    BY <1>0, <1>1 DEF OpTyped, JobTyped, LateTyped
  <2>2. BranchInv'
    BY <1>1 DEF BranchInv, JobsAreKnown, RentCastStartsAtOnce, BranchesFollow, RunningIsServed,
                Running, WorkIsOwn, Works, LateIsLast
  <2>3. RentCast => SearchesKeep
    BY <1>1 DEF SearchesKeep, Search, IsActive
  <2>. QED
    BY <2>1, <2>2, <2>3, KeptSearches
<1>2. ASSUME NEW p \in Posts, Start(p) \/ Settle(p) \/ Crash(p) PROVE Holds
  <2>1. OpTyped' /\ BranchInv'
    BY <1>0, <1>2, RequestsKeepBranches
  <2>2. UNCHANGED <<job, late>>
    BY <1>2 DEF Start, Settle, Crash
  <2>3. RentCast => \A q \in Posts : \/ op'[q]["rentcast"] = op[q]["rentcast"]
                                     \/ op'[q]["rentcast"].step # "insert"
    BY <1>0, <1>2, SourceNames DEF Start, Settle, Crash, OpTyped, NoOp
  <2>4. RentCast => SearchesKeep
    BY <2>2, <2>3 DEF SearchesKeep, Search, IsActive
  <2>. QED
    BY <1>0, <2>1, <2>2, <2>4, KeptSearches DEF JobTyped, LateTyped
<1>3. ASSUME NEW p \in Posts, Branch(p) PROVE Holds
  <2>1. OpTyped' /\ JobTyped' /\ LateTyped' /\ \E s \in Sources : BranchStep(p, s)
    BY <1>0, <1>3, BranchSteps DEF BranchInv
  <2>2. PICK s \in Sources : BranchStep(p, s)
    BY <2>1
  <2>3. BranchInv'
    BY <1>0, <2>2, BranchStepKeepsBranches
  <2>4. SearchInv'
    BY <2>2, BranchStepKeepsSearches DEF BranchInv
  <2>. QED
    BY <2>1, <2>3, <2>4
<1>4. ASSUME NEW r \in Runs, StopNext(r) PROVE Holds
  <2>1. /\ JobTyped'
        /\ (\E s \in Sources : CancelStep(r, s)) \/ UNCHANGED <<post, op, job, late>>
    BY <1>0, <1>4, StopNextStep DEF StopTyped
  <2>2. ASSUME NEW s \in Sources, CancelStep(r, s) PROVE Holds
    BY <1>0, <2>1, <2>2, CancelKeepsBranches, CancelKeepsSearches
       DEF CancelStep, OpTyped, LateTyped
  <2>. QED
    BY <1>1, <2>1, <2>2
<1>5. ASSUME NEW r \in Runs, Stop(r) PROVE Holds
  BY <1>1, <1>5 DEF Stop
<1>6. ASSUME NEW l \in Listings, Normalize(l) PROVE Holds
  BY <1>1, <1>6 DEF Normalize
<1>7. ASSUME Decide PROVE Holds
  BY <1>1, <1>7 DEF Decide
<1>8. CASE Next
  <2>1. LogTyped' /\ FoundTyped' /\ StopTyped' /\ PostTyped'
    BY <1>0, <1>8, LogStep, FoundStep, StopStep
  <2>2. Holds
    <3>. HIDE DEF Holds
    <3>. QED
      BY <1>2, <1>3, <1>4, <1>5, <1>6, <1>7, <1>8 DEF Next
  <2>. QED
    BY <2>1, <2>2
       DEF TypeOK, OpTyped, JobTyped, LateTyped, PostTyped, LogTyped, FoundTyped, StopTyped
<1>9. CASE UNCHANGED vars
  <2>1. Holds
    BY <1>1, <1>9 DEF vars
  <2>2. LogTyped' /\ FoundTyped' /\ StopTyped' /\ PostTyped'
    BY <1>0, <1>9 DEF vars, LogTyped, FoundTyped, StopTyped, PostTyped
  <2>. QED
    BY <2>1, <2>2
       DEF TypeOK, OpTyped, JobTyped, LateTyped, PostTyped, LogTyped, FoundTyped, StopTyped
<1>. QED
  BY <1>8, <1>9

LEMMA AtMostOne ==
  ASSUME NEW S, \A x, y \in S : x = y
  PROVE  Cardinality(S) <= 1
<1>1. CASE S = {}
  BY <1>1, FS_EmptySet
<1>2. CASE S # {}
  <2>1. PICK x \in S : S = {x}
    BY <1>2
  <2>. QED
    BY <2>1, FS_Singleton
<1>. QED
  BY <1>1, <1>2

(* However many requests, repeated requests, retries, stops and crashes of *)
(* web processes overlap, a profile has one active RentCast search, and a  *)
(* failed one is retried once; a source whose job was cancelled stores one *)
(* listing at most, and a run whose requests are done leaves no job        *)
(* active.                                                                 *)
THEOREM OneSearch == Spec => []OneSearchAtATime
<1>1. ResearchInv => OneSearchAtATime
  <2>. SUFFICES ASSUME ResearchInv PROVE OneSearchAtATime
    OBVIOUS
  <2>1. OneActiveSearch
    BY AtMostOne DEF ResearchInv, SearchInv, OneIsActive, IsActive, Search, OneActiveSearch
  <2>2. RetriedOnce
    BY AtMostOne DEF ResearchInv, SearchInv, OneIsRetry, IsRetry, RetriedOnce
  <2>3. CancelledStoresAtMostOne
    <3>1. \A r \in Runs, s \in BrowserSources : late[r][s] = 0 \/ late[r][s] = 1
      BY DEF ResearchInv, BranchInv, LateIsLast
    <3>. QED
      BY <3>1 DEF CancelledStoresAtMostOne
  <2>4. FinishedLeavesNothingActive
    <3>. SUFFICES ASSUME NEW r \in Runs, NEW s \in Sources, job[r][s].status \in Active,
                         \A p \in Posts : RunOf[p] = r => post[p] \in {"new", "refused", "done"}
                  PROVE  FALSE
      BY DEF FinishedLeavesNothingActive
    <3>1. Running(r, s)
      BY DEF ResearchInv, BranchInv, JobsAreKnown, Running, Active
    <3>2. PICK p \in Posts : RunOf[p] = r /\ (Works(p, s) \/ post[p] = "dead")
      BY <3>1 DEF ResearchInv, BranchInv, RunningIsServed
    <3>3. Works(p, s) => post[p] = "running"
      BY DEF ResearchInv, BranchInv, BranchesFollow, Works, Working, Over
    <3>. QED
      BY <3>2, <3>3
  <2>. QED
    BY <2>1, <2>2, <2>3, <2>4 DEF ResearchInv, OneSearchAtATime
<1>. QED
  BY <1>1, ResearchInit, ResearchNext, PTL DEF Spec
=============================================================================
