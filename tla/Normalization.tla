---------------------------- MODULE Normalization ----------------------------
(***************************************************************************)
(* The normalization lane of the worker: processNextNormalizationJob over  *)
(* the PostgreSQL queue.  A job turns one raw listing into a source record *)
(* of the corpus: it is leased in one transaction, runs the extraction     *)
(* pipeline with no transaction open, and persists the result, the new     *)
(* corpus revision with its decision job, and its own completion in one    *)
(* transaction; a failure is saved by another.                             *)
(*                                                                         *)
(* Time is abstract as in Decisions: a retry delay only passes, and no     *)
(* hosted claim takes a leased row, expired or not.                        *)
(***************************************************************************)
EXTENDS Corpus, FiniteSetTheorems, TLAPS

CONSTANTS
  Workers,      \* worker processes
  ProfileOf,    \* the profile a listing belongs to: the one its capture
                \* names, or else the user's only profile
  NoProfile,    \* no such profile, or more than one
  MaxAttempts,  \* max_attempts of the jobs, 3 in every caller of enqueue
  MaxFaults     \* bound: crashes and lost replies of one behaviour

ASSUME NormalizationAssumption ==
  /\ MaxAttempts \in Nat \ {0}
  /\ MaxFaults \in Nat
  /\ NoProfile \notin Profiles
  /\ ProfileOf \in [Raws -> Profiles \cup {NoProfile}]
  /\ NoOwner \notin Workers \X Nat

VARIABLES
  rows,         \* normalization_jobs: at most one per raw listing
  phase,        \* how far a worker is in processNextNormalizationJob
  claim,        \* the raw listing whose job a worker holds, as a set
  error,        \* the class of the error a worker is about to save
  incarnation,  \* a process start draws a new lease owner
  faults        \* faults so far

laneVars == <<rows, phase, claim, error, incarnation, faults>>
vars == <<corpusVars, laneVars>>

States == {"none", "queued", "leased", "completed", "retryable", "dead_letter"}
Phases == {"idle", "leased", "extracted", "failing"}
(* "input": the evidence, its profile or the provider's verdict rules the   *)
(* listing out for good.  "schema": a row of Vera's own failed to parse.    *)
Errors == {"none", "transient", "input", "schema"}

NoRow == [state |-> "none", attempts |-> 0, owner |-> NoOwner, error |-> "none"]

Me(w) == <<w, incarnation[w]>>
Owns(w, raw) == rows[raw].state = "leased" /\ rows[raw].owner = Me(w)

(* NormalizationJobSchema's superRefine.  mapNormalizationJobRow parses     *)
(* every row that a query or a RETURNING clause hands back.                 *)
Parses(row) ==
  /\ row.state = "leased" <=> row.owner # NoOwner
  /\ row.state \in {"queued", "completed"} => row.error = "none"
  /\ row.state \in {"retryable", "dead_letter"} => row.error # "none"
  /\ row.attempts <= MaxAttempts
  /\ row.state = "queued" <=> row.attempts = 0
  /\ row.state = "retryable" => row.attempts < MaxAttempts

Init ==
  /\ CorpusInit
  /\ rows = [raw \in Raws |-> NoRow]
  /\ phase = [w \in Workers |-> "idle"]
  /\ claim = [w \in Workers |-> {}]
  /\ error = [w \in Workers |-> "none"]
  /\ incarnation = [w \in Workers |-> 0]
  /\ faults = 0
-----------------------------------------------------------------------------
(* A connector imports a raw listing and enqueues its job in the same       *)
(* transaction; importing it again finds both there.                        *)
Capture(raw) ==
  /\ rows[raw].state = "none"
  /\ rows' = [rows EXCEPT ![raw].state = "queued"]
  /\ UNCHANGED <<corpusVars, phase, claim, error, incarnation, faults>>

GoIdle(w) ==
  /\ phase' = [phase EXCEPT ![w] = "idle"]
  /\ claim' = [claim EXCEPT ![w] = {}]
  /\ error' = [error EXCEPT ![w] = "none"]

GoFailing(w, err) ==
  /\ phase' = [phase EXCEPT ![w] = "failing"]
  /\ error' = [error EXCEPT ![w] = err]

(* Faulty: a claim that takes leased rows, or no failed ones.               *)
ClaimableOrLeased == {"queued", "retryable", "leased"}
OnlyQueued == {"queued"}
Claimable == {"queued", "retryable"}

(* claimNextNormalizationJob.  The error of an earlier attempt stays in the *)
(* row.                                                                     *)
TakeJob(w, raw) ==
  /\ phase[w] = "idle"
  /\ rows[raw].state \in Claimable
  /\ rows' = [rows EXCEPT ![raw].state = "leased", ![raw].owner = Me(w),
                          ![raw].attempts = @ + 1]
  /\ UNCHANGED corpusVars

Claim(w) == \E raw \in Raws :
  /\ TakeJob(w, raw)
  /\ phase' = [phase EXCEPT ![w] = "leased"]
  /\ claim' = [claim EXCEPT ![w] = {raw}]
  /\ UNCHANGED <<error, incarnation, faults>>

(* The raw evidence is read and the pipeline and the projection succeed.    *)
Extract(w) ==
  /\ phase[w] = "leased"
  /\ phase' = [phase EXCEPT ![w] = "extracted"]
  /\ UNCHANGED <<corpusVars, rows, claim, error, incarnation, faults>>

(* Any of them, or a statement of the persist transaction, throws instead:  *)
(* safeFailure sorts errors into retryable ones and permanent ones.         *)
WorkFails(w) ==
  /\ phase[w] \in {"leased", "extracted"}
  /\ \E err \in {"transient", "input"} : GoFailing(w, err)
  /\ UNCHANGED <<corpusVars, rows, claim, incarnation, faults>>

(* Faulty: a state the database does not know.                              *)
Done(row) == [row EXCEPT !.state = "done", !.owner = NoOwner]

(* normalizationJobs.complete sets the state, the lease and the time, and   *)
(* leaves the error columns as they are.                                    *)
Completed(row) == [row EXCEPT !.state = "completed", !.owner = NoOwner]

(* The persist transaction commits if the listing has no result yet, has    *)
(* one profile, the lease is still held, and the completed row parses.      *)
HasNoResult(raw) == raw \notin sources
HasOneProfile(raw) == ProfileOf[raw] # NoProfile

(* Faulty: the completed row is not parsed.                                 *)
PersistCommitsUnparsed(w, raw) ==
  HasNoResult(raw) /\ HasOneProfile(raw) /\ Owns(w, raw)

PersistCommits(w, raw) ==
  /\ HasNoResult(raw)
  /\ HasOneProfile(raw)
  /\ Owns(w, raw)
  /\ Parses(Completed(rows[raw]))

CommitResult(w, raw) ==
  /\ phase[w] = "extracted"
  /\ PersistCommits(w, raw)
  /\ CommitSource(raw, ProfileOf[raw])
  /\ rows' = [rows EXCEPT ![raw] = Completed(@)]

Persist(w) == \E raw \in claim[w] :
  /\ CommitResult(w, raw)
  /\ GoIdle(w)
  /\ UNCHANGED <<incarnation, faults>>

RefusePersist(w) == \E raw \in claim[w] :
  /\ phase[w] = "extracted"
  /\ ~ PersistCommits(w, raw)
  /\ GoFailing(w, IF ~ HasNoResult(raw) \/ ~ HasOneProfile(raw) THEN "input"
                  ELSE IF ~ Owns(w, raw) THEN "transient" ELSE "schema")
  /\ UNCHANGED <<corpusVars, rows, claim, incarnation, faults>>

(* Faulty: a failure saved without the fence.                               *)
FailureCommitsUnfenced(w, raw) == raw \in claim[w]

FailureCommits(w, raw) == Owns(w, raw)

(* normalizationJobs.fail in a transaction of its own, fenced.              *)
SaveFailure(w) == \E raw \in claim[w] :
  LET dead == error[w] # "transient" \/ rows[raw].attempts >= MaxAttempts
  IN  /\ phase[w] = "failing"
      /\ FailureCommits(w, raw)
      /\ rows' = [rows EXCEPT ![raw].state = IF dead THEN "dead_letter" ELSE "retryable",
                              ![raw].owner = NoOwner, ![raw].error = error[w]]
      /\ GoIdle(w)
      /\ UNCHANGED <<corpusVars, incarnation, faults>>

FailureRefused(w) == \E raw \in claim[w] :
  /\ phase[w] = "failing"
  /\ ~ FailureCommits(w, raw)
  /\ GoIdle(w)
  /\ UNCHANGED <<corpusVars, rows, incarnation, faults>>
-----------------------------------------------------------------------------
(* Faults.  Their number is bounded by MaxFaults.                           *)

Fault == faults < MaxFaults /\ faults' = faults + 1

(* The process dies, or its signal is aborted: the job is left leased.      *)
Crash(w) ==
  /\ Fault
  /\ phase[w] # "idle"
  /\ incarnation' = [incarnation EXCEPT ![w] = @ + 1]
  /\ GoIdle(w)
  /\ UNCHANGED <<corpusVars, rows>>

ClaimReplyLost(w) ==
  /\ Fault
  /\ \E raw \in Raws : TakeJob(w, raw)
  /\ UNCHANGED <<phase, claim, error, incarnation>>

(* The persist transaction commits, its reply is lost, and the worker goes  *)
(* on to save a failure.                                                    *)
PersistReplyLost(w) ==
  /\ Fault
  /\ \E raw \in claim[w] : CommitResult(w, raw)
  /\ GoFailing(w, "transient")
  /\ UNCHANGED <<claim, incarnation>>

FailureLost(w) ==
  /\ Fault
  /\ phase[w] = "failing"
  /\ GoIdle(w)
  /\ UNCHANGED <<corpusVars, rows, incarnation>>

WorkerStep(w) ==
  \/ Claim(w) \/ Extract(w) \/ Persist(w) \/ RefusePersist(w)
  \/ SaveFailure(w) \/ FailureRefused(w)

FaultStep(w) ==
  \/ Crash(w) \/ ClaimReplyLost(w) \/ PersistReplyLost(w) \/ FailureLost(w)

Next ==
  \/ \E raw \in Raws : Capture(raw)
  \/ \E w \in Workers : WorkerStep(w) \/ WorkFails(w) \/ FaultStep(w)

(* The poller never stops polling; nothing else is fair.                    *)
Fairness == \A w \in Workers : WF_vars(WorkerStep(w))

Spec == Init /\ [][Next]_vars
FairSpec == Spec /\ Fairness
-----------------------------------------------------------------------------
(* Properties.                                                              *)

(* Every variable holds a value of its type.                                *)
TypeOK ==
  /\ revision \in [Profiles -> Revisions]
  /\ sources \subseteq Raws
  /\ rows \in [Raws -> [state : States, attempts : Nat, error : Errors,
                        owner : {NoOwner} \cup (Workers \X Nat)]]
  /\ phase \in [Workers -> Phases]
  /\ claim \in [Workers -> SUBSET Raws]
  /\ error \in [Workers -> Errors]
  /\ incarnation \in [Workers -> Nat]
  /\ faults \in 0 .. MaxFaults

(* Every stored row parses as a NormalizationJob.  A row that did not would *)
(* make each claim that reaches it throw, and stop the whole queue.         *)
RowsParse == \A raw \in Raws : rows[raw].state # "none" => Parses(rows[raw])

(* A job is completed if and only if its listing is in the corpus, whatever *)
(* reply was lost: no listing is half persisted or persisted twice.         *)
CompletedIffCommitted == \A raw \in Raws :
  rows[raw].state = "completed" <=> raw \in sources

(* Every listing of a profile raised that profile's revision once, and each *)
(* revision has a decision job to put the listing before the user.          *)
EveryListingIsDecided == \A p \in Profiles :
  /\ revision[p] = Cardinality({raw \in sources : ProfileOf[raw] = p})
  /\ \A r \in 1 .. revision[p] : jobs[p][r].status # "none"

(* A job has one holder, and the holder alone can end it: two workers never *)
(* hold the same job, and a worker yet to save its outcome owns its job.    *)
OneHolder ==
  /\ \A v, w \in Workers : v # w => claim[v] \cap claim[w] = {}
  /\ \A w \in Workers : phase[w] \in {"leased", "extracted"} =>
       \A raw \in claim[w] : Owns(w, raw)

(* The queue of the lane never breaks: its rows parse, agree with the       *)
(* corpus, and are held by one worker.                                      *)
RowsAreSound == RowsParse /\ CompletedIffCommitted /\ OneHolder

(* A finished job is never reopened or relabelled.                          *)
OutcomeIsFinal == [][ \A raw \in Raws :
  rows[raw].state \in {"completed", "dead_letter"} => rows'[raw] = rows[raw] ]_vars

(* Without faults every captured listing is normalized or dead-lettered.    *)
EventuallyFinished == \A raw \in Raws :
  rows[raw].state = "queued" ~> rows[raw].state \in {"completed", "dead_letter"}

(* docs/superpowers/specs/2026-07-17-connector-manual-ingestion-design.md:  *)
(* 171: a failure "returns the job to retryable ... until the maximum       *)
(* attempt moves it to dead_letter".  Only the last attempt, or an input    *)
(* that no retry can repair, gives a listing up.                            *)
DeadLetterIsEarned == \A raw \in Raws : rows[raw].state = "dead_letter" =>
  rows[raw].attempts = MaxAttempts \/ rows[raw].error = "input"

-----------------------------------------------------------------------------
(***************************************************************************)
(* Proofs, for every value of the constants.                               *)
(***************************************************************************)
USE CorpusAssumption, NormalizationAssumption

Rows == [state : States, attempts : Nat, error : Errors,
         owner : {NoOwner} \cup (Workers \X Nat)]

(* Nobody's lease is a worker's.                                            *)
LEMMA MeIsSomebody ==
  ASSUME TypeOK, NEW w \in Workers
  PROVE  Me(w) \in Workers \X Nat /\ Me(w) # NoOwner
BY DEF TypeOK, Me

(***************************************************************************)
(* The rows.                                                               *)
(***************************************************************************)

(* What the handlers of the lane make of a row: the capture queues it, a    *)
(* claim leases it, and the holder of the lease completes it or fails it.   *)
Queued(row) == [row EXCEPT !.state = "queued"]
Leased(row, owner) == [row EXCEPT !.state = "leased", !.owner = owner, !.attempts = @ + 1]
Failed(row, state, err) == [row EXCEPT !.state = state, !.owner = NoOwner, !.error = err]

(* A row is absent or parses.                                               *)
RowIsSound(row) == IF row.state = "none" THEN row = NoRow ELSE Parses(row)

(* What each handler makes of a sound row is a sound row.                   *)
LEMMA RowTypes ==
  ASSUME NEW row \in Rows
  PROVE  /\ Queued(row) \in Rows
         /\ \A owner \in Workers \X Nat : Leased(row, owner) \in Rows
         /\ Completed(row) \in Rows
         /\ \A state \in States, err \in Errors : Failed(row, state, err) \in Rows
<1>1. Queued(row) \in Rows /\ Completed(row) \in Rows
  BY DEF Rows, Queued, Completed, States
<1>2. ASSUME NEW owner \in Workers \X Nat PROVE Leased(row, owner) \in Rows
  <2>1. row.attempts + 1 \in Nat /\ "leased" \in States
    BY DEF Rows, States
  <2>. QED
    BY <2>1 DEF Rows, Leased
<1>3. \A state \in States, err \in Errors : Failed(row, state, err) \in Rows
  BY DEF Rows, Failed
<1>. QED
  BY <1>1, <1>2, <1>3

LEMMA CapturedRow ==
  ASSUME NEW row \in Rows, RowIsSound(row), row.state = "none"
  PROVE  RowIsSound(Queued(row)) /\ Queued(row).state = "queued"
<1>1. Queued(row) = [state |-> "queued", attempts |-> 0, owner |-> NoOwner, error |-> "none"]
  BY DEF RowIsSound, Queued, NoRow
<1>. QED
  BY <1>1 DEF RowIsSound, Parses

LEMMA ClaimedRow ==
  ASSUME NEW row \in Rows, RowIsSound(row), row.state \in Claimable,
         NEW owner \in Workers \X Nat
  PROVE  /\ RowIsSound(Leased(row, owner))
         /\ Leased(row, owner).state = "leased"
         /\ Leased(row, owner).owner = owner
<1>. DEFINE new == Leased(row, owner)
<1>1. /\ new.state = "leased" /\ new.owner = owner /\ new.error = row.error
      /\ new.attempts = row.attempts + 1
  BY DEF Leased, Rows
<1>2. row.attempts \in Nat /\ row.attempts < MaxAttempts
  BY DEF RowIsSound, Parses, Claimable, Rows
<1>3. owner # NoOwner
  OBVIOUS
<1>. HIDE DEF new
<1>4. Parses(new)
  BY <1>1, <1>2, <1>3 DEF Parses
<1>. QED
  BY <1>1, <1>4 DEF RowIsSound, new

LEMMA FailedRow ==
  ASSUME NEW row \in Rows, RowIsSound(row), row.state = "leased",
         NEW err \in Errors \ {"none"}, NEW state \in {"retryable", "dead_letter"},
         state = "retryable" => row.attempts < MaxAttempts
  PROVE  RowIsSound(Failed(row, state, err)) /\ Failed(row, state, err).state = state
<1>. DEFINE new == Failed(row, state, err)
<1>1. /\ new.state = state /\ new.owner = NoOwner /\ new.error = err
      /\ new.attempts = row.attempts
  BY DEF Failed, Rows
<1>2. row.attempts <= MaxAttempts /\ row.attempts # 0
  BY DEF RowIsSound, Parses
<1>. HIDE DEF new
<1>3. Parses(new)
  BY <1>1, <1>2 DEF Parses
<1>. QED
  BY <1>1, <1>3 DEF RowIsSound, new

(***************************************************************************)
(* Steps.                                                                  *)
(***************************************************************************)

(* A worker holds what it claimed, unless the result has been committed and *)
(* the worker is about to report a failure it only believes in.             *)
HoldsClaims(w) ==
  /\ \A raw \in claim[w] :
       \/ Owns(w, raw)
       \/ phase[w] = "failing" /\ rows[raw].state = "completed"
  /\ phase[w] = "idle" => claim[w] = {}
  /\ phase[w] = "failing" => error[w] # "none"

(* The inductive invariant of the lane's own table.                         *)
QueueInv ==
  /\ \A raw \in Raws : RowIsSound(rows[raw])
  /\ CompletedIffCommitted
  /\ \A w \in Workers : HoldsClaims(w)
  /\ \A v, w \in Workers : v # w => claim[v] \cap claim[w] = {}

(* The inductive invariant of what it adds to the corpus.                   *)
CorpusInv ==
  /\ IsFiniteSet(sources)
  /\ jobs \in [Profiles -> [Revisions -> {NoJob, QueuedJob}]]
  /\ EveryListingIsDecided

(* The steps of a worker that write no table.                               *)
Quiet(w) ==
  \/ Extract(w) \/ WorkFails(w) \/ RefusePersist(w) \/ FailureRefused(w)
  \/ Crash(w) \/ FailureLost(w)

(* A step that leaves every row alone and drops claims, if anything.        *)
LEMMA QuietSteps ==
  ASSUME TypeOK, NEW w \in Workers, Quiet(w)
  PROVE  /\ UNCHANGED <<corpusVars, rows>>
         /\ \A v \in Workers \ {w} :
              UNCHANGED <<phase[v], claim[v], error[v], incarnation[v]>>
         /\ \/ phase'[w] = "idle" /\ claim'[w] = {}
            \/ /\ phase'[w] = "extracted" /\ phase[w] # "failing"
               /\ UNCHANGED <<claim[w], incarnation[w]>>
            \/ /\ phase'[w] = "failing" /\ error'[w] # "none" /\ phase[w] # "failing"
               /\ UNCHANGED <<claim[w], incarnation[w]>>
<1>1. /\ phase \in [Workers -> Phases]
      /\ claim \in [Workers -> SUBSET Raws]
      /\ error \in [Workers -> Errors]
      /\ incarnation \in [Workers -> Nat]
  BY DEF TypeOK
<1>2. UNCHANGED <<corpusVars, rows>>
  BY DEF Quiet, Extract, WorkFails, RefusePersist, FailureRefused, Crash, FailureLost
<1>3. \A v \in Workers \ {w} : UNCHANGED <<phase[v], claim[v], error[v], incarnation[v]>>
  BY <1>1 DEF Quiet, Extract, WorkFails, RefusePersist, FailureRefused, Crash, FailureLost,
              GoIdle, GoFailing
<1>4. CASE GoIdle(w)
  BY <1>1, <1>2, <1>3, <1>4 DEF GoIdle
<1>5. CASE ~ GoIdle(w)
  <2>1. /\ phase[w] # "failing" /\ UNCHANGED <<claim, incarnation>>
        /\ \/ phase' = [phase EXCEPT ![w] = "extracted"]
           \/ \E err \in Errors \ {"none"} : GoFailing(w, err)
    BY <1>5 DEF Quiet, Extract, WorkFails, RefusePersist, FailureRefused, Crash, FailureLost,
                Errors
  <2>. QED
    BY <1>1, <1>2, <1>3, <2>1 DEF GoFailing
<1>. QED
  BY <1>4, <1>5

LEMMA QuietKeepsQueue ==
  ASSUME TypeOK, QueueInv, NEW w \in Workers, Quiet(w)
  PROVE  QueueInv'
<1>1. UNCHANGED <<sources, rows>>
  BY QuietSteps DEF corpusVars
<1>2. CompletedIffCommitted' /\ \A raw \in Raws : RowIsSound(rows'[raw])
  BY <1>1 DEF QueueInv, CompletedIffCommitted
<1>3. ASSUME NEW v \in Workers PROVE HoldsClaims(v)'
  <2>1. CASE v = w
    BY <1>1, <2>1, QuietSteps DEF QueueInv, HoldsClaims, Owns, Me
  <2>2. CASE v # w
    BY <1>1, <2>2, QuietSteps DEF QueueInv, HoldsClaims, Owns, Me
  <2>. QED
    BY <2>1, <2>2
<1>4. \A v \in Workers : claim'[v] \subseteq claim[v]
  BY QuietSteps
<1>5. \A u, v \in Workers : u # v => claim'[u] \cap claim'[v] = {}
  BY <1>4 DEF QueueInv
<1>. QED
  BY <1>2, <1>3, <1>5 DEF QueueInv

(* A step that writes the row of one listing, and what the other rows are.  *)
Writes(raw, new) ==
  /\ rows'[raw] = new
  /\ \A other \in Raws \ {raw} : rows'[other] = rows[other]

(* The steps that write, by what they make of the row.                      *)
LEMMA WritingSteps ==
  ASSUME TypeOK, NEW raw \in Raws
  PROVE  /\ Capture(raw) => Writes(raw, Queued(rows[raw]))
         /\ \A w \in Workers :
              /\ TakeJob(w, raw) => Writes(raw, Leased(rows[raw], Me(w)))
              /\ CommitResult(w, raw) => Writes(raw, Completed(rows[raw]))
<1>1. rows \in [Raws -> Rows]
  BY DEF TypeOK, Rows
<1>2. Capture(raw) => Writes(raw, Queued(rows[raw]))
  BY <1>1 DEF Capture, Writes, Queued
<1>3. ASSUME NEW w \in Workers, TakeJob(w, raw)
      PROVE  Writes(raw, Leased(rows[raw], Me(w)))
  BY <1>1, <1>3 DEF TakeJob, Writes, Leased
<1>4. ASSUME NEW w \in Workers, CommitResult(w, raw)
      PROVE  Writes(raw, Completed(rows[raw]))
  BY <1>1, <1>4 DEF CommitResult, Writes
<1>. QED
  BY <1>2, <1>3, <1>4

(* A failure that is saved is the holder's, and of its own job.             *)
LEMMA SavedFailure ==
  ASSUME TypeOK, QueueInv, NEW w \in Workers, SaveFailure(w)
  PROVE  \E raw \in claim[w] :
           /\ Owns(w, raw)
           /\ \E state \in {"retryable", "dead_letter"} :
                /\ state = "retryable" => rows[raw].attempts < MaxAttempts
                /\ Writes(raw, Failed(rows[raw], state, error[w]))
           /\ error[w] \in Errors \ {"none"}
           /\ GoIdle(w) /\ UNCHANGED <<corpusVars, incarnation, faults>>
<1>. DEFINE State(raw) == IF error[w] # "transient" \/ rows[raw].attempts >= MaxAttempts
                          THEN "dead_letter" ELSE "retryable"
<1>1. PICK raw \in claim[w] :
        /\ phase[w] = "failing" /\ Owns(w, raw)
        /\ rows' = [rows EXCEPT ![raw].state = State(raw),
                                ![raw].owner = NoOwner, ![raw].error = error[w]]
        /\ GoIdle(w) /\ UNCHANGED <<corpusVars, incarnation, faults>>
  BY DEF SaveFailure, FailureCommits
<1>2. raw \in Raws /\ rows \in [Raws -> Rows] /\ error[w] \in Errors
  BY DEF TypeOK, Rows
<1>3. error[w] # "none"
  BY <1>1 DEF QueueInv, HoldsClaims
<1>4. State(raw) \in {"retryable", "dead_letter"}
      /\ (State(raw) = "retryable" => rows[raw].attempts < MaxAttempts)
  BY <1>2 DEF Rows
<1>5. Writes(raw, Failed(rows[raw], State(raw), error[w]))
  BY <1>1, <1>2 DEF Writes, Failed
<1>. QED
  BY <1>1, <1>2, <1>3, <1>4, <1>5

(* Claims are disjoint, so a row that a worker writes is in no other claim. *)
LEMMA WriteKeepsClaims ==
  ASSUME TypeOK, QueueInv, NEW raw \in Raws, NEW new, Writes(raw, new),
         NEW v \in Workers, raw \notin claim[v],
         UNCHANGED <<phase[v], claim[v], error[v], incarnation[v]>>
  PROVE  HoldsClaims(v)'
<1>1. \A other \in claim[v] : rows'[other] = rows[other]
  BY DEF Writes, TypeOK
<1>. QED
  BY <1>1 DEF QueueInv, HoldsClaims, Owns, Me

(* A listing that is captured, or a job that is taken, is in no claim.      *)
LEMMA UnleasedIsUnclaimed ==
  ASSUME QueueInv, NEW raw \in Raws, rows[raw].state \notin {"leased", "completed"}
  PROVE  \A v \in Workers : raw \notin claim[v]
BY DEF QueueInv, HoldsClaims, Owns

LEMMA CaptureKeepsQueue ==
  ASSUME TypeOK, QueueInv, NEW raw \in Raws, Capture(raw)
  PROVE  QueueInv'
<1>1. /\ Writes(raw, Queued(rows[raw])) /\ rows[raw].state = "none"
      /\ UNCHANGED <<sources, phase, claim, error, incarnation>>
  BY WritingSteps DEF Capture, corpusVars
<1>2. RowIsSound(rows'[raw]) /\ rows'[raw].state = "queued"
  BY <1>1, CapturedRow DEF QueueInv, Writes, TypeOK, Rows
<1>3. \A v \in Workers : HoldsClaims(v)'
  BY <1>1, WriteKeepsClaims, UnleasedIsUnclaimed
<1>. QED
  BY <1>1, <1>2, <1>3 DEF QueueInv, Writes, CompletedIffCommitted

LEMMA TakeKeepsQueue ==
  ASSUME TypeOK, QueueInv, NEW w \in Workers, NEW raw \in Raws, TakeJob(w, raw),
         UNCHANGED <<error, incarnation>>,
         \/ UNCHANGED <<phase, claim>>
         \/ /\ phase' = [phase EXCEPT ![w] = "leased"]
            /\ claim' = [claim EXCEPT ![w] = {raw}]
  PROVE  QueueInv'
<1>0. /\ phase \in [Workers -> Phases]
      /\ claim \in [Workers -> SUBSET Raws]
      /\ rows[raw] \in Rows
  BY DEF TypeOK, Rows
<1>1. /\ Writes(raw, Leased(rows[raw], Me(w))) /\ UNCHANGED sources
      /\ rows[raw].state \in Claimable /\ phase[w] = "idle"
  BY WritingSteps DEF TakeJob, corpusVars
<1>2. RowIsSound(rows'[raw]) /\ rows'[raw].state = "leased" /\ rows'[raw].owner = Me(w)
  BY <1>0, <1>1, ClaimedRow, MeIsSomebody DEF QueueInv, Writes
<1>3. \A v \in Workers : raw \notin claim[v]
  BY <1>1, UnleasedIsUnclaimed DEF Claimable
<1>4. \A v \in Workers \ {w} : UNCHANGED <<phase[v], claim[v], error[v], incarnation[v]>>
  BY <1>0
<1>5. \/ UNCHANGED <<phase[w], claim[w]>>
      \/ phase'[w] = "leased" /\ claim'[w] = {raw}
  BY <1>0
<1>6. ASSUME NEW v \in Workers PROVE HoldsClaims(v)'
  <2>1. CASE UNCHANGED <<phase[v], claim[v], error[v], incarnation[v]>>
    BY <1>1, <1>3, <2>1, WriteKeepsClaims
  <2>2. CASE v = w /\ phase'[w] = "leased" /\ claim'[w] = {raw}
    BY <1>2, <2>2 DEF HoldsClaims, Owns, Me
  <2>. QED
    BY <1>4, <1>5, <2>1, <2>2
<1>7. \A u, v \in Workers : u # v => claim'[u] \cap claim'[v] = {}
  BY <1>3, <1>4, <1>5 DEF QueueInv
<1>8. rows[raw].state # "completed"
  BY <1>1 DEF Claimable
<1>. QED
  BY <1>1, <1>2, <1>6, <1>7, <1>8 DEF QueueInv, Writes, CompletedIffCommitted

LEMMA CommitKeepsQueue ==
  ASSUME TypeOK, QueueInv, NEW w \in Workers, NEW raw \in claim[w], CommitResult(w, raw),
         UNCHANGED incarnation,
         GoIdle(w) \/ (GoFailing(w, "transient") /\ UNCHANGED claim)
  PROVE  QueueInv'
<1>0. /\ phase \in [Workers -> Phases]
      /\ claim \in [Workers -> SUBSET Raws]
      /\ error \in [Workers -> Errors]
      /\ raw \in Raws /\ rows[raw] \in Rows
  BY DEF TypeOK, Rows
<1>1. /\ Writes(raw, Completed(rows[raw])) /\ sources' = sources \cup {raw}
      /\ Owns(w, raw) /\ Parses(Completed(rows[raw]))
  BY <1>0, WritingSteps DEF CommitResult, PersistCommits, CommitSource
<1>2. rows'[raw].state = "completed" /\ RowIsSound(rows'[raw])
  BY <1>0, <1>1 DEF Writes, Completed, Rows, RowIsSound
<1>3. \A v \in Workers \ {w} :
        raw \notin claim[v] /\ UNCHANGED <<phase[v], claim[v], error[v], incarnation[v]>>
  BY <1>0 DEF GoIdle, GoFailing, QueueInv
<1>4. \/ phase'[w] = "idle" /\ claim'[w] = {}
      \/ phase'[w] = "failing" /\ error'[w] = "transient" /\ UNCHANGED <<claim[w], incarnation[w]>>
  BY <1>0 DEF GoIdle, GoFailing
<1>5. HoldsClaims(w)'
  <2>1. \A other \in claim[w] : other = raw \/ rows'[other] = rows[other]
    BY <1>0, <1>1 DEF Writes
  <2>2. phase[w] # "failing"
    BY DEF CommitResult
  <2>. QED
    BY <1>2, <1>4, <2>1, <2>2 DEF QueueInv, HoldsClaims, Owns, Me
<1>6. ASSUME NEW v \in Workers PROVE HoldsClaims(v)'
  BY <1>0, <1>1, <1>3, <1>5, WriteKeepsClaims
<1>7. \A u, v \in Workers : u # v => claim'[u] \cap claim'[v] = {}
  BY <1>3, <1>4 DEF QueueInv
<1>8. CompletedIffCommitted'
  BY <1>1, <1>2 DEF QueueInv, CompletedIffCommitted, Writes
<1>. QED
  BY <1>1, <1>2, <1>6, <1>7, <1>8 DEF QueueInv, Writes

LEMMA FailureKeepsQueue ==
  ASSUME TypeOK, QueueInv, NEW w \in Workers, SaveFailure(w)
  PROVE  QueueInv'
<1>1. PICK raw \in claim[w], state \in {"retryable", "dead_letter"} :
        /\ Owns(w, raw)
        /\ state = "retryable" => rows[raw].attempts < MaxAttempts
        /\ Writes(raw, Failed(rows[raw], state, error[w]))
        /\ error[w] \in Errors \ {"none"}
        /\ GoIdle(w) /\ UNCHANGED <<corpusVars, incarnation, faults>>
  BY SavedFailure
<1>2. /\ raw \in Raws /\ rows[raw] \in Rows
      /\ phase \in [Workers -> Phases]
      /\ claim \in [Workers -> SUBSET Raws]
      /\ error \in [Workers -> Errors]
  BY DEF TypeOK, Rows
<1>3. RowIsSound(rows'[raw]) /\ rows'[raw].state = state
  BY <1>1, <1>2, FailedRow DEF QueueInv, Writes, Owns
<1>4. /\ \A v \in Workers \ {w} :
           raw \notin claim[v] /\ UNCHANGED <<phase[v], claim[v], error[v], incarnation[v]>>
      /\ phase'[w] = "idle" /\ claim'[w] = {}
  BY <1>1, <1>2 DEF GoIdle, QueueInv
<1>5. ASSUME NEW v \in Workers PROVE HoldsClaims(v)'
  <2>1. CASE v = w
    BY <1>4, <2>1 DEF HoldsClaims
  <2>2. CASE v # w
    BY <1>1, <1>2, <1>4, <2>2, WriteKeepsClaims
  <2>. QED
    BY <2>1, <2>2
<1>6. \A u, v \in Workers : u # v => claim'[u] \cap claim'[v] = {}
  BY <1>4 DEF QueueInv
<1>7. CompletedIffCommitted'
  BY <1>1, <1>2, <1>3 DEF QueueInv, CompletedIffCommitted, Writes, Owns, corpusVars
<1>. QED
  BY <1>1, <1>3, <1>5, <1>6, <1>7 DEF QueueInv, Writes

(* A worker's step writes no table, or takes a job, commits a result or     *)
(* saves a failure.                                                         *)
LEMMA WorkerSteps ==
  ASSUME NEW w \in Workers, WorkerStep(w) \/ WorkFails(w) \/ FaultStep(w)
  PROVE  \/ Quiet(w)
         \/ Claim(w) \/ ClaimReplyLost(w)
         \/ Persist(w) \/ PersistReplyLost(w)
         \/ SaveFailure(w)
BY DEF WorkerStep, FaultStep, Quiet

LEMMA QueueStep ==
  ASSUME TypeOK, QueueInv, [Next]_vars
  PROVE  QueueInv'
<1>1. ASSUME NEW raw \in Raws, Capture(raw) PROVE QueueInv'
  BY <1>1, CaptureKeepsQueue
<1>2. ASSUME NEW w \in Workers, WorkerStep(w) \/ WorkFails(w) \/ FaultStep(w)
      PROVE  QueueInv'
  <2>1. CASE Quiet(w)
    BY <2>1, QuietKeepsQueue
  <2>2. CASE Claim(w) \/ ClaimReplyLost(w)
    BY <2>2, TakeKeepsQueue DEF Claim, ClaimReplyLost
  <2>3. CASE Persist(w) \/ PersistReplyLost(w)
    BY <2>3, CommitKeepsQueue DEF Persist, PersistReplyLost
  <2>4. CASE SaveFailure(w)
    BY <2>4, FailureKeepsQueue
  <2>. QED
    BY <1>2, <2>1, <2>2, <2>3, <2>4, WorkerSteps
<1>3. CASE UNCHANGED vars
  BY <1>3 DEF vars, corpusVars, laneVars, QueueInv, CompletedIffCommitted, HoldsClaims, Owns, Me
<1>. QED
  BY <1>1, <1>2, <1>3 DEF Next

(***************************************************************************)
(* Types.                                                                  *)
(***************************************************************************)

LEMMA RowsType ==
  ASSUME TypeOK, NEW raw \in Raws, NEW new \in Rows, rows' = [rows EXCEPT ![raw] = new]
  PROVE  rows' \in [Raws -> Rows]
BY DEF TypeOK, Rows

LEMMA TypeStep ==
  ASSUME TypeOK, [Next]_vars
  PROVE  TypeOK'
<1>0. /\ revision \in [Profiles -> Revisions] /\ sources \subseteq Raws
      /\ rows \in [Raws -> Rows]
      /\ phase \in [Workers -> Phases] /\ claim \in [Workers -> SUBSET Raws]
      /\ error \in [Workers -> Errors] /\ incarnation \in [Workers -> Nat]
      /\ faults \in 0 .. MaxFaults
  BY DEF TypeOK, Rows
<1>. SUFFICES /\ revision' \in [Profiles -> Revisions] /\ sources' \subseteq Raws
              /\ rows' \in [Raws -> Rows]
              /\ phase' \in [Workers -> Phases] /\ claim' \in [Workers -> SUBSET Raws]
              /\ error' \in [Workers -> Errors] /\ incarnation' \in [Workers -> Nat]
              /\ faults' \in 0 .. MaxFaults
  BY DEF TypeOK, Rows
<1>1. ASSUME NEW raw \in Raws, Capture(raw)
      PROVE  rows' \in [Raws -> Rows] /\ UNCHANGED <<corpusVars, phase, claim, error, incarnation, faults>>
  BY <1>0, <1>1 DEF Capture, Rows, States
<1>2. ASSUME NEW w \in Workers, NEW raw \in Raws, TakeJob(w, raw)
      PROVE  rows' \in [Raws -> Rows] /\ UNCHANGED corpusVars
  <2>1. rows' = [rows EXCEPT ![raw] = Leased(rows[raw], Me(w))]
    BY <1>0, <1>2 DEF TakeJob, Leased
  <2>. QED
    BY <1>0, <1>2, <2>1, RowTypes, RowsType, MeIsSomebody DEF TakeJob
<1>3. ASSUME NEW w \in Workers, NEW raw \in Raws, CommitResult(w, raw)
      PROVE  /\ rows' \in [Raws -> Rows]
             /\ revision' \in [Profiles -> Revisions] /\ sources' \subseteq Raws
  <2>1. rows' \in [Raws -> Rows]
    BY <1>0, <1>3, RowTypes, RowsType DEF CommitResult
  <2>2. CommitSource(raw, ProfileOf[raw]) /\ ProfileOf[raw] \in Profiles
    BY <1>3 DEF CommitResult, PersistCommits, HasOneProfile
  <2>3. revision[ProfileOf[raw]] + 1 \in Revisions
    BY <1>0, <2>2 DEF CommitSource, Bump, Revisions
  <2>. QED
    BY <1>0, <2>1, <2>2, <2>3 DEF CommitSource, Bump
<1>4. ASSUME NEW w \in Workers, SaveFailure(w)
      PROVE  rows' \in [Raws -> Rows] /\ UNCHANGED corpusVars
  <2>1. PICK raw \in claim[w] :
          /\ UNCHANGED corpusVars
          /\ rows' = [rows EXCEPT ![raw].state =
                        IF error[w] # "transient" \/ rows[raw].attempts >= MaxAttempts
                        THEN "dead_letter" ELSE "retryable",
                      ![raw].owner = NoOwner, ![raw].error = error[w]]
    BY <1>4 DEF SaveFailure
  <2>. DEFINE state == IF error[w] # "transient" \/ rows[raw].attempts >= MaxAttempts
                       THEN "dead_letter" ELSE "retryable"
  <2>2. raw \in Raws /\ error[w] \in Errors /\ state \in States
    BY <1>0 DEF States
  <2>3. rows' = [rows EXCEPT ![raw] = Failed(rows[raw], state, error[w])]
    BY <1>0, <2>1 DEF Failed
  <2>. HIDE DEF state
  <2>. QED
    BY <1>0, <2>1, <2>2, <2>3, RowTypes, RowsType
<1>5. ASSUME NEW w \in Workers, WorkerStep(w) \/ WorkFails(w) \/ FaultStep(w)
      PROVE  /\ rows' \in [Raws -> Rows]
             /\ revision' \in [Profiles -> Revisions] /\ sources' \subseteq Raws
             /\ phase' \in [Workers -> Phases] /\ claim' \in [Workers -> SUBSET Raws]
             /\ error' \in [Workers -> Errors] /\ incarnation' \in [Workers -> Nat]
             /\ faults' \in 0 .. MaxFaults
  <2>1. faults' \in 0 .. MaxFaults
    <3>1. UNCHANGED faults \/ Fault
      BY <1>5 DEF WorkerStep, FaultStep, Claim, Extract, Persist, RefusePersist, WorkFails,
         SaveFailure, FailureRefused, Crash, ClaimReplyLost, PersistReplyLost, FailureLost
    <3>. QED
      BY <1>0, <3>1 DEF Fault
  <2>2. \A v \in Workers :
          /\ GoIdle(v) => /\ phase' \in [Workers -> Phases] /\ claim' \in [Workers -> SUBSET Raws]
                          /\ error' \in [Workers -> Errors]
          /\ \A err \in Errors : GoFailing(v, err) =>
               phase' \in [Workers -> Phases] /\ error' \in [Workers -> Errors]
    BY <1>0 DEF GoIdle, GoFailing, Phases, Errors
  <2>3. {"none", "transient", "input", "schema"} \subseteq Errors /\ "leased" \in Phases
        /\ "extracted" \in Phases
    BY DEF Errors, Phases
  <2>4. CASE Quiet(w)
    <3>1. UNCHANGED <<corpusVars, rows>>
      BY <2>4, QuietSteps
    <3>2. incarnation' \in [Workers -> Nat]
      BY <1>0, <2>4 DEF Quiet, Extract, WorkFails, RefusePersist, FailureRefused, Crash, FailureLost
    <3>3. phase' \in [Workers -> Phases] /\ claim' \in [Workers -> SUBSET Raws]
          /\ error' \in [Workers -> Errors]
      <4>1. \/ GoIdle(w)
            \/ /\ UNCHANGED claim
               /\ \/ phase' = [phase EXCEPT ![w] = "extracted"] /\ UNCHANGED error
                  \/ \E err \in Errors : GoFailing(w, err)
        BY <2>3, <2>4 DEF Quiet, Extract, WorkFails, RefusePersist, FailureRefused, Crash, FailureLost
      <4>. QED
        BY <1>0, <2>2, <2>3, <4>1
    <3>. QED
      BY <1>0, <2>1, <3>1, <3>2, <3>3 DEF corpusVars
  <2>5. CASE Claim(w) \/ ClaimReplyLost(w)
    <3>1. \E raw \in Raws : /\ TakeJob(w, raw)
                            /\ \/ UNCHANGED <<phase, claim>>
                               \/ /\ phase' = [phase EXCEPT ![w] = "leased"]
                                  /\ claim' = [claim EXCEPT ![w] = {raw}]
          /\ UNCHANGED <<error, incarnation>>
      BY <2>5 DEF Claim, ClaimReplyLost
    <3>. QED
      BY <1>0, <1>2, <2>1, <2>3, <3>1 DEF corpusVars
  <2>6. CASE Persist(w) \/ PersistReplyLost(w)
    <3>1. \E raw \in Raws : CommitResult(w, raw)
      BY <1>0, <2>6 DEF Persist, PersistReplyLost
    <3>2. /\ GoIdle(w) \/ (GoFailing(w, "transient") /\ UNCHANGED claim)
          /\ UNCHANGED incarnation
      BY <2>6 DEF Persist, PersistReplyLost
    <3>. QED
      BY <1>0, <1>3, <2>1, <2>2, <2>3, <3>1, <3>2
  <2>7. CASE SaveFailure(w)
    <3>1. GoIdle(w) /\ UNCHANGED incarnation
      BY <2>7 DEF SaveFailure
    <3>. QED
      BY <1>0, <1>4, <2>1, <2>2, <2>7, <3>1 DEF corpusVars
  <2>. QED
    BY <1>5, <2>4, <2>5, <2>6, <2>7, WorkerSteps
<1>6. CASE UNCHANGED vars
  BY <1>0, <1>6 DEF vars, corpusVars, laneVars
<1>. QED
  BY <1>0, <1>1, <1>5, <1>6 DEF Next, corpusVars

(* What the lane and its faults write always has the type the schema gives. *)
THEOREM TypeCorrect == Spec => []TypeOK
<1>1. Init => TypeOK
  BY DEF Init, CorpusInit, TypeOK, Revisions, NoRow, States, Phases, Errors
<1>. QED
  BY <1>1, TypeStep, PTL DEF Spec

(***************************************************************************)
(* The queue never breaks.                                                 *)
(***************************************************************************)

LEMMA QueueInit ==
  ASSUME Init
  PROVE  QueueInv
<1>1. \A raw \in Raws : rows[raw] = NoRow
  BY DEF Init
<1>2. NoRow.state = "none"
  BY DEF NoRow
<1>. QED
  BY <1>1, <1>2 DEF Init, CorpusInit, QueueInv, RowIsSound, CompletedIffCommitted, HoldsClaims

(* The rows of the queue parse, agree with the corpus and are held by one   *)
(* worker, whatever crashed and whatever reply was lost.                    *)
THEOREM QueueIsSound == Spec => []RowsAreSound
<1>1. QueueInv => RowsAreSound
  BY DEF QueueInv, RowIsSound, HoldsClaims, RowsAreSound, RowsParse, OneHolder
<1>. QED
  BY <1>1, QueueInit, QueueStep, TypeCorrect, PTL DEF Spec

(* A finished job is never reopened or relabelled.                          *)
THEOREM OutcomesAreFinal == Spec => OutcomeIsFinal
<1>. DEFINE Final == \A raw \in Raws :
       rows[raw].state \in {"completed", "dead_letter"} => rows'[raw] = rows[raw]
<1>1. ASSUME TypeOK, QueueInv, [Next]_vars PROVE Final
  <2>1. ASSUME NEW raw \in Raws, NEW new, Writes(raw, new),
               rows[raw].state \in {"none", "queued", "retryable", "leased"}
        PROVE  Final
    BY <2>1 DEF Writes
  <2>2. ASSUME NEW raw \in Raws, Capture(raw) PROVE Final
    BY <2>1, <2>2, WritingSteps, <1>1 DEF Capture
  <2>3. ASSUME NEW w \in Workers, WorkerStep(w) \/ WorkFails(w) \/ FaultStep(w)
        PROVE  Final
    <3>1. CASE Quiet(w)
      BY <1>1, <3>1, QuietSteps
    <3>2. CASE Claim(w) \/ ClaimReplyLost(w)
      <4>1. PICK raw \in Raws : TakeJob(w, raw)
        BY <3>2 DEF Claim, ClaimReplyLost
      <4>. QED
        BY <1>1, <2>1, <4>1, WritingSteps DEF TakeJob, Claimable
    <3>3. CASE Persist(w) \/ PersistReplyLost(w)
      <4>1. PICK raw \in claim[w] : CommitResult(w, raw)
        BY <3>3 DEF Persist, PersistReplyLost
      <4>2. raw \in Raws /\ rows[raw].state = "leased"
        BY <1>1, <4>1 DEF TypeOK, CommitResult, PersistCommits, Owns
      <4>. QED
        BY <1>1, <2>1, <4>1, <4>2, WritingSteps
    <3>4. CASE SaveFailure(w)
      <4>1. PICK raw \in claim[w] : Owns(w, raw) /\ \E new : Writes(raw, new)
        BY <1>1, <3>4, SavedFailure
      <4>2. raw \in Raws /\ rows[raw].state = "leased"
        BY <1>1, <4>1 DEF TypeOK, Owns
      <4>. QED
        BY <2>1, <4>1, <4>2
    <3>. QED
      BY <2>3, <3>1, <3>2, <3>3, <3>4, WorkerSteps
  <2>4. CASE UNCHANGED vars
    BY <2>4 DEF vars, laneVars
  <2>. QED
    BY <1>1, <2>2, <2>3, <2>4 DEF Next
<1>2. TypeOK /\ QueueInv /\ [Next]_vars => [Final]_vars
  BY <1>1
<1>. QED
  BY <1>2, QueueInit, QueueStep, TypeCorrect, PTL DEF Spec, OutcomeIsFinal

(***************************************************************************)
(* The corpus.                                                             *)
(***************************************************************************)

(* A step adds one listing to the corpus of its profile, or none.           *)
LEMMA CorpusSteps ==
  ASSUME TypeOK, [Next]_vars
  PROVE  \/ \E raw \in Raws : /\ raw \notin sources /\ ProfileOf[raw] \in Profiles
                              /\ sources' = sources \cup {raw} /\ Bump(ProfileOf[raw])
         \/ UNCHANGED corpusVars
<1>1. ASSUME NEW w \in Workers, WorkerStep(w) \/ WorkFails(w) \/ FaultStep(w)
      PROVE  \/ \E raw \in Raws : CommitResult(w, raw)
             \/ UNCHANGED corpusVars
  BY <1>1, QuietSteps, WorkerSteps
     DEF TypeOK, Claim, ClaimReplyLost, TakeJob, Persist, PersistReplyLost, SaveFailure
<1>2. ASSUME NEW w \in Workers, NEW raw \in Raws, CommitResult(w, raw)
      PROVE  /\ raw \notin sources /\ ProfileOf[raw] \in Profiles
             /\ sources' = sources \cup {raw} /\ Bump(ProfileOf[raw])
  BY <1>2 DEF CommitResult, PersistCommits, HasOneProfile, CommitSource
<1>. QED
  BY <1>1, <1>2 DEF Next, Capture, vars

(* A listing that is added raises the revision of its profile, and of no    *)
(* other, by one, and the new revision gets its decision job.               *)
LEMMA AddedListing ==
  ASSUME TypeOK, CorpusInv, NEW raw \in Raws, raw \notin sources, ProfileOf[raw] \in Profiles,
         sources' = sources \cup {raw}, Bump(ProfileOf[raw])
  PROVE  CorpusInv'
<1>. DEFINE p == ProfileOf[raw]
            new == revision[p] + 1
            Of(q) == {x \in sources : ProfileOf[x] = q}
<1>1. /\ revision \in [Profiles -> Revisions]
      /\ p \in Profiles /\ new \in Revisions
      /\ revision' = [revision EXCEPT ![p] = new]
      /\ jobs \in [Profiles -> [Revisions -> {NoJob, QueuedJob}]]
      /\ jobs' = [jobs EXCEPT ![p][new] = Enqueued(@)]
  BY DEF TypeOK, CorpusInv, Bump, Revisions
<1>2. IsFiniteSet(sources')
  BY FS_AddElement DEF CorpusInv
<1>3. NoJob.status = "none" /\ QueuedJob.status = "queued"
  BY DEF NoJob, QueuedJob
<1>4. Enqueued(jobs[p][new]) = QueuedJob
  BY <1>1, <1>3 DEF Enqueued
<1>5. jobs' \in [Profiles -> [Revisions -> {NoJob, QueuedJob}]]
      /\ jobs'[p][new] = QueuedJob
      /\ \A q \in Profiles, r \in Revisions : <<q, r>> # <<p, new>> => jobs'[q][r] = jobs[q][r]
  BY <1>1, <1>4
<1>6. ASSUME NEW q \in Profiles
      PROVE  /\ revision'[q] = Cardinality({x \in sources' : ProfileOf[x] = q})
             /\ \A r \in 1 .. revision'[q] : jobs'[q][r].status # "none"
  <2>0. /\ IsFiniteSet(Of(q)) /\ revision[q] = Cardinality(Of(q))
        /\ \A r \in 1 .. revision[q] : jobs[q][r].status # "none"
        /\ revision[q] \in Revisions
    BY <1>1, FS_Subset DEF CorpusInv, EveryListingIsDecided
  <2>1. CASE q = p
    <3>1. {x \in sources' : ProfileOf[x] = q} = Of(q) \cup {raw} /\ raw \notin Of(q)
      BY <2>1
    <3>2. Cardinality(Of(q) \cup {raw}) = Cardinality(Of(q)) + 1
      BY <2>0, <3>1, FS_AddElement
    <3>3. revision'[q] = new /\ new = Cardinality(Of(q)) + 1
      BY <1>1, <2>0, <2>1
    <3>4. ASSUME NEW r \in 1 .. revision'[q] PROVE jobs'[q][r].status # "none"
      <4>1. r = new \/ (r \in 1 .. revision[q] /\ r # new)
        BY <2>0, <2>1, <3>3 DEF Revisions
      <4>2. r \in Revisions
        BY <1>1, <3>3 DEF Revisions
      <4>. QED
        BY <1>3, <1>5, <2>0, <2>1, <4>1, <4>2
    <3>. QED
      BY <3>1, <3>2, <3>3, <3>4
  <2>2. CASE q # p
    <3>1. {x \in sources' : ProfileOf[x] = q} = Of(q)
      BY <2>2
    <3>2. revision'[q] = revision[q]
      BY <1>1, <2>2
    <3>3. ASSUME NEW r \in 1 .. revision[q] PROVE jobs'[q][r].status # "none"
      <4>1. r \in Revisions
        BY <2>0 DEF Revisions
      <4>. QED
        BY <1>5, <2>0, <2>2, <4>1
    <3>. QED
      BY <2>0, <3>1, <3>2, <3>3
  <2>. QED
    BY <2>1, <2>2
<1>. QED
  BY <1>2, <1>5, <1>6 DEF CorpusInv, EveryListingIsDecided

(* Every listing of a profile raised that profile's revision once, and each *)
(* revision has a decision job to put the listing before the user.          *)
THEOREM ListingsAreDecided == Spec => []EveryListingIsDecided
<1>1. Init => CorpusInv
  <2>. SUFFICES ASSUME Init PROVE CorpusInv
    OBVIOUS
  <2>1. /\ sources = {} /\ \A p \in Profiles : revision[p] = 0
        /\ jobs \in [Profiles -> [Revisions -> {NoJob, QueuedJob}]]
    BY DEF Init, CorpusInit
  <2>2. \A p \in Profiles : {raw \in sources : ProfileOf[raw] = p} = {}
    BY <2>1
  <2>3. 1 .. 0 = {}
    OBVIOUS
  <2>. QED
    BY <2>1, <2>2, <2>3, FS_EmptySet DEF CorpusInv, EveryListingIsDecided
<1>2. TypeOK /\ CorpusInv /\ [Next]_vars => CorpusInv'
  <2>. SUFFICES ASSUME TypeOK, CorpusInv, [Next]_vars PROVE CorpusInv'
    OBVIOUS
  <2>1. CASE UNCHANGED corpusVars
    BY <2>1 DEF corpusVars, CorpusInv, EveryListingIsDecided
  <2>. QED
    BY <2>1, CorpusSteps, AddedListing
<1>3. CorpusInv => EveryListingIsDecided
  BY DEF CorpusInv
<1>. QED
  BY <1>1, <1>2, <1>3, TypeCorrect, PTL DEF Spec
=============================================================================
