-------------------------- MODULE Decisions_proofs --------------------------
(***************************************************************************)
(* Proofs about Decisions, for every number of workers, profiles, sources, *)
(* overrides, searches, revisions, attempts and faults.                    *)
(***************************************************************************)
EXTENDS Decisions, TLAPS

USE CorpusAssumption, DecisionsAssumption

(* The values a worker resets its variables to have their types.            *)
LEMMA ResetTypes ==
  /\ NoClaim \in [profile : Profiles, target : Revisions, attempt : Nat]
  /\ NothingSeen \in Basis
  /\ NoJob \in JobType
  /\ QueuedJob \in JobType
<1>1. (CHOOSE p \in Profiles : TRUE) \in Profiles
  OBVIOUS
<1>. QED
  BY <1>1 DEF NoClaim, NothingSeen, Basis, NoJob, QueuedJob, JobType, Revisions,
              Statuses, Claimable, Terminal, Errors, NoRevision

(* Queueing a job for a revision keeps the type of the jobs.                *)
LEMMA EnqueuedType ==
  ASSUME NEW job \in JobType
  PROVE  Enqueued(job) \in JobType
BY ResetTypes DEF Enqueued

(* The error of a job closed by an attempt is that of the attempt.          *)
LEMMA RecordedError ==
  ASSUME NEW job \in JobType, NEW n, NEW status, NEW err
  PROVE  Recorded(job, n, status, err).error = err
BY DEF Recorded, JobType

(* A job closed by an attempt is a job.                                     *)
LEMMA RecordedType ==
  ASSUME NEW job \in JobType, NEW n \in Nat, NEW status \in Statuses, NEW err \in Errors
  PROVE  Recorded(job, n, status, err) \in JobType
BY DEF Recorded, JobType

(* Closing the job a worker holds keeps the type of the jobs.               *)
LEMMA ClosedType ==
  ASSUME TypeOK, NEW w \in Workers, NEW status \in Statuses, NEW err \in Errors
  PROVE  [jobs EXCEPT ![claim[w].profile][claim[w].target] =
            Recorded(@, claim[w].attempt, status, err)]
           \in [Profiles -> [Revisions -> JobType]]
BY RecordedType DEF TypeOK

(* A job taken by a worker is a job.                                        *)
LEMMA TakenType ==
  ASSUME NEW job \in JobType, NEW owner \in Workers \X Nat
  PROVE  Taken(job, owner) \in JobType
<1>1. job.attempts + 1 \in Nat /\ "running" \in Statuses /\ "none" \in Errors
  BY DEF JobType, Statuses, Errors
<1>. QED
  BY <1>1 DEF Taken, JobType

(* A snapshot stays one when a statement fills in one of its parts.         *)
LEMMA BasisType ==
  ASSUME NEW b \in Basis
  PROVE  /\ \A x \in SUBSET Raws : [b EXCEPT !.invalid = x] \in Basis
         /\ \A x \in SUBSET Raws : [b EXCEPT !.sources = x] \in Basis
         /\ \A x \in SUBSET Overrides : [b EXCEPT !.overrides = x] \in Basis
         /\ \A x \in Revisions \cup {NoRevision} : [b EXCEPT !.prior = x] \in Basis
BY DEF Basis

(* An import of a live search, the end of the imports, or a completion keep *)
(* its type.                                                                *)
LEMMA SearchType ==
  ASSUME NEW x \in [open : BOOLEAN, imports : SUBSET Raws,
                    pending : BOOLEAN, completed : SUBSET Revisions],
         NEW done \in SUBSET Revisions,
         NEW imported \in SUBSET Raws, NEW more \in BOOLEAN
  PROVE  /\ [x EXCEPT !.imports = imported, !.pending = more] \in
              [open : BOOLEAN, imports : SUBSET Raws,
               pending : BOOLEAN, completed : SUBSET Revisions]
         /\ [x EXCEPT !.completed = done] \in
              [open : BOOLEAN, imports : SUBSET Raws,
               pending : BOOLEAN, completed : SUBSET Revisions]
         /\ [x EXCEPT !.open = FALSE, !.completed = done] \in
              [open : BOOLEAN, imports : SUBSET Raws,
               pending : BOOLEAN, completed : SUBSET Revisions]
OBVIOUS

(* Every step is one of a worker or of the application, or leaves alone all *)
(* but the lifecycle of the listings.                                       *)
LEMMA Steps ==
  ASSUME [Next]_vars
  PROVE  \/ \E w \in Workers : WorkerStep(w) \/ WorkFails(w) \/ FaultStep(w)
         \/ CorpusChanges
         \/ \E s \in Searches : EndImports(s) \/ \E raw \in Raws : ImportListing(s, raw)
         \/ UNCHANGED <<corpusVars, decisionVars>>
BY DEF Next, vars, MoveListing

(* The steps of the lifecycle: a worker reads the states, a worker forgets  *)
(* them, having written them back if its plan commits, the user moves one.  *)
LEMMA LifecycleSteps ==
  ASSUME [Next]_vars
  PROVE  \/ UNCHANGED lifecycleVars
         \/ \E w \in Workers : ReadPriors(w)
         \/ \E w \in Workers : Forget(w) /\ (UNCHANGED life \/ CommitPlan(w))
         \/ \E p \in Profiles, raw \in Raws, to \in Lives : MoveListing(p, raw, to)
<1>1. ASSUME NEW w \in Workers, WorkerStep(w) \/ WorkFails(w)
      PROVE  \/ UNCHANGED lifecycleVars
             \/ ReadPriors(w)
             \/ Forget(w) /\ (UNCHANGED life \/ CommitPlan(w))
  BY <1>1 DEF WorkerStep, Claim, ReadRevision, FindStale, ReadDispositions, ReadSources,
              ReadOverrides, WorkFails, ApplyPlan, RefusePlan, Finalize, SaveFailure,
              FailureRefused, GoIdle, GoFailing, lifecycleVars
<1>2. ASSUME NEW w \in Workers, FaultStep(w)
      PROVE  \/ UNCHANGED lifecycleVars
             \/ Forget(w) /\ (UNCHANGED life \/ CommitPlan(w))
  BY <1>2 DEF FaultStep, Crash, ClaimReplyLost, ApplyReplyLost, FailureLost, FinalizeFails,
              GoIdle, GoFailing, lifecycleVars
<1>3. CorpusChanges => UNCHANGED lifecycleVars
  BY DEF CorpusChanges
<1>4. ASSUME NEW s \in Searches, EndImports(s) \/ \E raw \in Raws : ImportListing(s, raw)
      PROVE  UNCHANGED lifecycleVars
  BY <1>4 DEF EndImports, ImportListing
<1>5. UNCHANGED vars => UNCHANGED lifecycleVars
  BY DEF vars
<1>. QED
  BY <1>1, <1>2, <1>3, <1>4, <1>5 DEF Next

(* Lifecycle states stay lifecycle states.                                  *)
LEMMA LifeTypes ==
  ASSUME TypeOK, [Next]_vars
  PROVE  /\ life' \in LifeType
         /\ lifeRead' \in [Workers -> LifeType]
         /\ moved' \in [Workers -> SUBSET Raws]
<1>0. /\ life \in LifeType
      /\ lifeRead \in [Workers -> LifeType]
      /\ moved \in [Workers -> SUBSET Raws]
  BY DEF TypeOK
<1>1. CASE UNCHANGED lifecycleVars
  BY <1>0, <1>1 DEF lifecycleVars
<1>2. ASSUME NEW w \in Workers, ReadPriors(w)
      PROVE  /\ life' \in LifeType
             /\ lifeRead' \in [Workers -> LifeType]
             /\ moved' \in [Workers -> SUBSET Raws]
  <2>1. ShownLives(claim[w].profile) \in LifeType
    BY <1>0 DEF ShownLives, LifeType
  <2>. QED
    BY <1>0, <1>2, <2>1 DEF ReadPriors
<1>3. ASSUME NEW w \in Workers, Forget(w), UNCHANGED life \/ CommitPlan(w)
      PROVE  /\ life' \in LifeType
             /\ lifeRead' \in [Workers -> LifeType]
             /\ moved' \in [Workers -> SUBSET Raws]
  <2>1. AllNew \in LifeType
    BY DEF AllNew, LifeType
  <2>2. life' \in LifeType
    <3>1. CASE UNCHANGED life
      BY <1>0, <3>1
    <3>2. CASE CommitPlan(w)
      <4>1. lifeRead[w] \in LifeType
        BY <1>0
      <4>2. life' = [raw \in Raws |->
              IF raw \in Members(seen[w]) THEN lifeRead[w][raw] ELSE life[raw]]
        BY <3>2 DEF CommitPlan
      <4>. QED
        BY <1>0, <4>1, <4>2 DEF LifeType
    <3>. QED
      BY <1>3, <3>1, <3>2
  <2>. QED
    BY <1>0, <1>3, <2>1, <2>2 DEF Forget
<1>4. ASSUME NEW p \in Profiles, NEW raw \in Raws, NEW to \in Lives, MoveListing(p, raw, to)
      PROVE  /\ life' \in LifeType
             /\ lifeRead' \in [Workers -> LifeType]
             /\ moved' \in [Workers -> SUBSET Raws]
  <2>1. to \in {"new", "shortlisted", "dismissed"}
    OBVIOUS
  <2>2. life' \in LifeType
    BY <1>0, <1>4, <2>1 DEF MoveListing, LifeType
  <2>. QED
    BY <1>0, <1>4, <2>2 DEF MoveListing
<1>. QED
  BY <1>1, <1>2, <1>3, <1>4, LifecycleSteps

(* A transaction that bumps a profile keeps the types of what Bump writes.  *)
LEMMA BumpType ==
  ASSUME TypeOK, NEW p \in Profiles, Bump(p)
  PROVE  /\ revision' \in [Profiles -> Revisions]
         /\ jobs' \in [Profiles -> [Revisions -> JobType]]
<1>1. revision[p] + 1 \in Revisions
  BY DEF TypeOK, Bump, Revisions
<1>2. Enqueued(jobs[p][revision[p] + 1]) \in JobType
  BY <1>1, EnqueuedType DEF TypeOK
<1>. QED
  BY <1>1, <1>2 DEF TypeOK, Bump

(* Type correctness of the protocol state: what the application and any     *)
(* number of workers write always has the type the schema gives it.         *)
THEOREM TypeCorrect == Spec => []TypeOK
<1>1. Init => TypeOK
  <2>. SUFFICES ASSUME Init PROVE TypeOK
    OBVIOUS
  <2>. QED
    BY ResetTypes DEF Init, CorpusInit, DecisionsInit, TypeOK, Revisions,
                      Phases, Errors, NoRevision, AllNew, LifeType
<1>2. TypeOK /\ [Next]_vars => TypeOK'
  <2>. SUFFICES ASSUME TypeOK, [Next]_vars PROVE TypeOK'
    OBVIOUS
  <2>0. /\ life' \in LifeType
        /\ lifeRead' \in [Workers -> LifeType]
        /\ moved' \in [Workers -> SUBSET Raws]
    BY LifeTypes
  <2>1. ASSUME NEW w \in Workers, Claim(w) PROVE TypeOK'
    <3>1. PICK p \in Profiles, r \in Revisions :
            /\ TakeJob(w, p, r)
            /\ claim' = [claim EXCEPT ![w] =
                 [profile |-> p, target |-> r, attempt |-> jobs[p][r].attempts + 1]]
      BY <2>1 DEF Claim
    <3>2. jobs' \in [Profiles -> [Revisions -> JobType]]
      BY <3>1, TakenType DEF TypeOK, TakeJob, Me
    <3>3. claim' \in [Workers -> [profile : Profiles, target : Revisions, attempt : Nat]]
      BY <3>1 DEF TypeOK, JobType
    <3>. QED
      BY <2>0, <2>1, <3>1, <3>2, <3>3 DEF TypeOK, Claim, TakeJob, Becomes, Phases
  <2>2. ASSUME NEW w \in Workers, ReadRevision(w) PROVE TypeOK'
    BY <2>0, <2>2 DEF TypeOK, ReadRevision, Becomes, Phases, corpusVars
  <2>3. ASSUME NEW w \in Workers, FindStale(w) PROVE TypeOK'
    BY <2>0, <2>3, ResetTypes DEF TypeOK, FindStale, GoFailing, Forget, Becomes, Phases, Errors, corpusVars
  <2>4. ASSUME NEW w \in Workers, ReadDispositions(w) PROVE TypeOK'
    <3>1. [seen[w] EXCEPT !.invalid = invalid] \in Basis
      BY BasisType DEF TypeOK
    <3>2. seen' \in [Workers -> Basis]
      BY <2>4, <3>1 DEF TypeOK, ReadDispositions
    <3>3. phase' \in [Workers -> Phases]
      BY <2>4 DEF TypeOK, ReadDispositions, Becomes, Phases
    <3>. QED
      BY <2>0, <2>4, <3>2, <3>3 DEF TypeOK, ReadDispositions, corpusVars
  <2>5. ASSUME NEW w \in Workers, ReadSources(w) PROVE TypeOK'
    <3>1. [seen[w] EXCEPT !.sources = sources] \in Basis
      BY BasisType DEF TypeOK
    <3>2. seen' \in [Workers -> Basis]
      BY <2>5, <3>1 DEF TypeOK, ReadSources
    <3>3. phase' \in [Workers -> Phases]
      BY <2>5 DEF TypeOK, ReadSources, Becomes, Phases
    <3>. QED
      BY <2>0, <2>5, <3>2, <3>3 DEF TypeOK, ReadSources, corpusVars
  <2>6. ASSUME NEW w \in Workers, ReadPriors(w) PROVE TypeOK'
    <3>1. [seen[w] EXCEPT !.prior = projection[claim[w].profile].revision] \in Basis
      BY BasisType DEF TypeOK
    <3>2. seen' \in [Workers -> Basis]
      BY <2>6, <3>1 DEF TypeOK, ReadPriors
    <3>3. phase' \in [Workers -> Phases]
      BY <2>6 DEF TypeOK, ReadPriors, Becomes, Phases
    <3>. QED
      BY <2>0, <2>6, <3>2, <3>3 DEF TypeOK, ReadPriors, corpusVars
  <2>7. ASSUME NEW w \in Workers, ReadOverrides(w) PROVE TypeOK'
    <3>1. [seen[w] EXCEPT !.overrides = overrides[claim[w].profile]] \in Basis
      BY BasisType DEF TypeOK
    <3>2. seen' \in [Workers -> Basis]
      BY <2>7, <3>1 DEF TypeOK, ReadOverrides
    <3>3. phase' \in [Workers -> Phases]
      BY <2>7 DEF TypeOK, ReadOverrides, Becomes, Phases
    <3>. QED
      BY <2>0, <2>7, <3>2, <3>3 DEF TypeOK, ReadOverrides, corpusVars
  <2>8. ASSUME NEW w \in Workers, WorkFails(w) PROVE TypeOK'
    BY <2>0, <2>8, ResetTypes DEF TypeOK, WorkFails, GoFailing, Forget, Becomes, Phases, Errors, corpusVars
  <2>9. ASSUME NEW w \in Workers, CommitPlan(w)
        PROVE  /\ runs' \subseteq [profile : Profiles, revision : Revisions, input : Basis]
               /\ projection' \in [Profiles -> [revision : Revisions \cup {NoRevision},
                     members : SUBSET Raws, overrides : SUBSET Overrides]]
               /\ jobs' \in [Profiles -> [Revisions -> JobType]]
    <3>. DEFINE p == claim[w].profile
                r == claim[w].target
    <3>1. p \in Profiles /\ r \in Revisions /\ claim[w].attempt \in Nat
      BY DEF TypeOK
    <3>2. Members(seen[w]) \subseteq Raws /\ seen[w].overrides \subseteq Overrides
      BY DEF TypeOK, Members, Basis
    <3>3. Recorded(jobs[p][r], claim[w].attempt, "succeeded", "none") \in JobType
      BY <3>1, RecordedType DEF TypeOK, Statuses, Terminal, Errors
    <3>. QED
      BY <2>9, <3>1, <3>2, <3>3 DEF TypeOK, CommitPlan
  <2>10. ASSUME NEW w \in Workers, ApplyPlan(w) PROVE TypeOK'
    BY <2>0, <2>9, <2>10, ResetTypes DEF TypeOK, ApplyPlan, CommitPlan, Forget, Becomes, Phases
  <2>11. ASSUME NEW w \in Workers, RefusePlan(w) PROVE TypeOK'
    BY <2>0, <2>11, ResetTypes DEF TypeOK, RefusePlan, GoFailing, Forget, Becomes, Phases, Errors, corpusVars
  <2>12. ASSUME NEW w \in Workers, Finalize(w) PROVE TypeOK'
    <3>1. claim[w].target \in Revisions
      BY DEF TypeOK
    <3>2. search' \in [Searches -> [open : BOOLEAN, imports : SUBSET Raws,
                         pending : BOOLEAN, completed : SUBSET Revisions]]
      <4>1. \A s \in Searches : search[s] \in
              [open : BOOLEAN, imports : SUBSET Raws,
               pending : BOOLEAN, completed : SUBSET Revisions]
        BY DEF TypeOK
      <4>2. \A s \in Searches : [search[s] EXCEPT !.completed = {claim[w].target}] \in
              [open : BOOLEAN, imports : SUBSET Raws,
               pending : BOOLEAN, completed : SUBSET Revisions]
        <5>. TAKE s \in Searches
        <5>1. search[s] \in [open : BOOLEAN, imports : SUBSET Raws,
                             pending : BOOLEAN, completed : SUBSET Revisions]
          BY <4>1
        <5>2. {claim[w].target} \in SUBSET Revisions
          BY <3>1
        <5>. QED
          BY <5>1, <5>2, SearchType
      <4>3. search' = Finalized(claim[w].profile, claim[w].target)
        BY <2>12 DEF Finalize
      <4>. QED
        BY <4>1, <4>2, <4>3 DEF Finalized
    <3>3. /\ phase' \in [Workers -> Phases]
          /\ claim' \in [Workers -> [profile : Profiles, target : Revisions, attempt : Nat]]
          /\ seen' \in [Workers -> Basis]
          /\ error' \in [Workers -> Errors]
      BY <2>12, ResetTypes DEF TypeOK, Finalize, GoIdle, Forget, Becomes, Phases, Errors
    <3>. QED
      BY <2>0, <2>12, <3>2, <3>3 DEF TypeOK, Finalize, corpusVars
  <2>13. ASSUME NEW w \in Workers, SaveFailure(w) PROVE TypeOK'
    <3>. DEFINE p == claim[w].profile
                r == claim[w].target
                status == IF Retries(w) THEN "retryable_failed" ELSE "permanently_failed"
                failed == [jobs EXCEPT ![p][r] =
                             Recorded(@, claim[w].attempt, status, error[w])]
    <3>1. p \in Profiles /\ r \in Revisions /\ claim[w].attempt \in Nat
      BY DEF TypeOK
    <3>2. status \in Statuses /\ error[w] \in Errors
      BY DEF TypeOK, Statuses, Terminal, Claimable
    <3>3. failed \in [Profiles -> [Revisions -> JobType]]
      <4>. HIDE DEF status
      <4>. QED
        BY <3>2, ClosedType
    <3>4. WithCurrentRevision(failed, p) \in [Profiles -> [Revisions -> JobType]]
      <4>1. revision[p] \in Revisions
        BY <3>1 DEF TypeOK
      <4>2. Enqueued(failed[p][revision[p]]) \in JobType
        BY <3>1, <3>3, <4>1, EnqueuedType
      <4>. QED
        BY <3>1, <3>3, <4>1, <4>2 DEF WithCurrentRevision
    <3>5. jobs' \in [Profiles -> [Revisions -> JobType]]
      BY <2>13, <3>3, <3>4 DEF SaveFailure
    <3>. QED
      BY <2>0, <2>13, <3>5, ResetTypes DEF TypeOK, SaveFailure, GoIdle, Forget, Becomes, Phases, Errors
  <2>14. ASSUME NEW w \in Workers, FailureRefused(w) PROVE TypeOK'
    BY <2>0, <2>14, ResetTypes DEF TypeOK, FailureRefused, GoIdle, Forget, Becomes, Phases, Errors, corpusVars
  <2>15. ASSUME NEW w \in Workers, FaultStep(w) PROVE TypeOK'
    <3>1. faults' \in 0 .. MaxFaults
      BY <2>15 DEF TypeOK, FaultStep, Crash, ClaimReplyLost, ApplyReplyLost,
                   FailureLost, FinalizeFails, Fault
    <3>2. CASE Crash(w)
      BY <2>0, <3>1, <3>2, ResetTypes DEF TypeOK, Crash, GoIdle, Forget, Becomes, Phases, Errors, corpusVars
    <3>3. CASE ClaimReplyLost(w)
      <4>1. PICK p \in Profiles, r \in Revisions : TakeJob(w, p, r)
        BY <3>3 DEF ClaimReplyLost
      <4>2. jobs' \in [Profiles -> [Revisions -> JobType]]
        BY <4>1, TakenType DEF TypeOK, TakeJob, Me
      <4>. QED
        BY <2>0, <3>1, <3>3, <4>1, <4>2 DEF TypeOK, ClaimReplyLost, TakeJob
    <3>4. CASE ApplyReplyLost(w)
      BY <2>0, <2>9, <3>1, <3>4, ResetTypes DEF TypeOK, ApplyReplyLost, CommitPlan, GoFailing, Forget,
                                           Becomes, Phases, Errors
    <3>5. CASE FailureLost(w)
      BY <2>0, <3>1, <3>5, ResetTypes DEF TypeOK, FailureLost, GoIdle, Forget, Becomes, Phases, Errors, corpusVars
    <3>6. CASE FinalizeFails(w)
      BY <2>0, <3>1, <3>6, ResetTypes DEF TypeOK, FinalizeFails, GoIdle, Forget, Becomes, Phases, Errors, corpusVars
    <3>. QED
      BY <2>15, <3>2, <3>3, <3>4, <3>5, <3>6 DEF FaultStep
  <2>16. ASSUME CorpusChanges PROVE TypeOK'
    <3>1. PICK p \in Profiles :
            \/ \E raw \in Raws : CommitSource(raw, p)
            \/ \E o \in Overrides : CreateOverride(p, o)
            \/ \E bad \in SUBSET Raws : RepairSources(p, bad)
      BY <2>16 DEF CorpusChanges
    <3>2. Bump(p)
      BY <3>1 DEF CommitSource, CreateOverride, RepairSources
    <3>3. /\ sources' \subseteq Raws
          /\ invalid' \subseteq Raws
          /\ overrides' \in [Profiles -> SUBSET Overrides]
      BY <3>1 DEF TypeOK, CommitSource, CreateOverride, RepairSources
    <3>. QED
      BY <2>0, <2>16, <3>2, <3>3, BumpType DEF TypeOK, CorpusChanges, decisionVars
  <2>17. ASSUME NEW s \in Searches, NEW raw \in Raws, ImportListing(s, raw) PROVE TypeOK'
    <3>. DEFINE imported == search[s].imports \cup {raw}
                more == search[s].pending \/ raw \notin sources
    <3>1. search[s] \in [open : BOOLEAN, imports : SUBSET Raws,
                         pending : BOOLEAN, completed : SUBSET Revisions]
      BY DEF TypeOK
    <3>2. imported \in SUBSET Raws
      BY <3>1
    <3>3. more \in BOOLEAN
      BY <3>1, Zenon
    <3>4. [search[s] EXCEPT !.imports = imported, !.pending = more] \in
            [open : BOOLEAN, imports : SUBSET Raws,
             pending : BOOLEAN, completed : SUBSET Revisions]
      <4>. HIDE DEF imported, more
      <4>. QED
        BY <3>1, <3>2, <3>3, SearchType
    <3>5. search' = [search EXCEPT
                       ![s] = [search[s] EXCEPT !.imports = imported, !.pending = more]]
      BY <2>17 DEF ImportListing
    <3>6. search' \in [Searches -> [open : BOOLEAN, imports : SUBSET Raws,
                         pending : BOOLEAN, completed : SUBSET Revisions]]
      <4>. HIDE DEF imported, more
      <4>. QED
        BY <3>4, <3>5 DEF TypeOK
    <3>7. UNCHANGED <<corpusVars, runs, projection, phase, claim, seen, error,
                      incarnation, faults>>
      BY <2>17 DEF ImportListing
    <3>. QED
      BY <2>0, <3>6, <3>7 DEF TypeOK, corpusVars
  <2>18. ASSUME NEW s \in Searches, EndImports(s) PROVE TypeOK'
    <3>. DEFINE p == SearchProfile[s]
    <3>1. p \in Profiles /\ revision[p] \in Revisions
      BY DEF TypeOK
    <3>2. Enqueued(jobs[p][revision[p]]) \in JobType
      BY <3>1, EnqueuedType DEF TypeOK
    <3>3. jobs' \in [Profiles -> [Revisions -> JobType]]
      BY <2>18, <3>1, <3>2 DEF TypeOK, EndImports, WithCurrentRevision
    <3>4. search' \in [Searches -> [open : BOOLEAN, imports : SUBSET Raws,
                         pending : BOOLEAN, completed : SUBSET Revisions]]
      <4>. DEFINE done == IF ~ search[s].pending /\ AlreadyDecided(p)
                          THEN search[s].completed \cup {revision[p]}
                          ELSE search[s].completed
      <4>1. search[s] \in [open : BOOLEAN, imports : SUBSET Raws,
                           pending : BOOLEAN, completed : SUBSET Revisions]
        BY DEF TypeOK
      <4>2. done \in SUBSET Revisions
        BY <3>1, <4>1
      <4>3. [search[s] EXCEPT !.open = FALSE, !.completed = done] \in
              [open : BOOLEAN, imports : SUBSET Raws,
               pending : BOOLEAN, completed : SUBSET Revisions]
        BY <4>1, <4>2, SearchType
      <4>4. search' = [search EXCEPT
                         ![s] = [search[s] EXCEPT !.open = FALSE, !.completed = done]]
        BY <2>18 DEF EndImports
      <4>. QED
        BY <4>3, <4>4 DEF TypeOK
    <3>5. UNCHANGED <<revision, sources, invalid, overrides, runs, projection, phase,
                      claim, seen, error, incarnation, faults>>
      BY <2>18 DEF EndImports
    <3>. QED
      BY <2>0, <3>3, <3>4, <3>5 DEF TypeOK
  <2>19. CASE UNCHANGED <<corpusVars, decisionVars>>
    BY <2>0, <2>19 DEF TypeOK, corpusVars, decisionVars
  <2>. QED
    BY <2>1, <2>2, <2>3, <2>4, <2>5, <2>6, <2>7, <2>8, <2>10, <2>11, <2>12, <2>13,
       <2>14, <2>15, <2>16, <2>17, <2>18, <2>19, Steps DEF WorkerStep
<1>. QED
  BY <1>1, <1>2, PTL DEF Spec

(***************************************************************************)
(* Jobs and claims follow the corpus revision.                             *)
(***************************************************************************)

(* A worker's job is never for a revision the corpus has yet to reach.      *)
ClaimsFollow == \A w \in Workers :
  phase[w] # "idle" => claim[w].target <= revision[claim[w].profile]

(* A transaction that bumps a profile queues a job for the new revision and *)
(* disturbs no other.                                                       *)
LEMMA BumpJobs ==
  ASSUME TypeOK, EveryRevisionHasJob, NEW p \in Profiles, Bump(p)
  PROVE  /\ EveryRevisionHasJob'
         /\ \A q \in Profiles : revision[q] <= revision'[q]
         /\ revision'[p] = revision[p] + 1
<1>1. /\ revision \in [Profiles -> Revisions]
      /\ revision' = [revision EXCEPT ![p] = @ + 1]
      /\ revision[p] + 1 \in Revisions
      /\ jobs \in [Profiles -> [Revisions -> JobType]]
      /\ jobs' = [jobs EXCEPT ![p][revision[p] + 1] = Enqueued(@)]
  BY DEF TypeOK, Bump, Revisions
<1>2. ASSUME NEW q \in Profiles, NEW r \in Revisions
      PROVE  /\ 0 < r /\ r <= revision'[q] => jobs'[q][r].status # "none"
             /\ r > revision'[q] => jobs'[q][r].status = "none"
  <2>1. CASE q = p /\ r = revision[p] + 1
    <3>1. jobs'[q][r] = Enqueued(jobs[q][r])
      BY <1>1, <2>1
    <3>2. jobs'[q][r].status # "none"
      BY <3>1 DEF Enqueued, QueuedJob, NoJob
    <3>. QED
      BY <1>1, <2>1, <3>2 DEF Revisions
  <2>2. CASE ~ (q = p /\ r = revision[p] + 1)
    <3>1. jobs'[q][r] = jobs[q][r]
      BY <1>1, <2>2
    <3>. QED
      BY <1>1, <2>2, <3>1 DEF EveryRevisionHasJob, Revisions
  <2>. QED
    BY <2>1, <2>2
<1>. QED
  BY <1>1, <1>2 DEF EveryRevisionHasJob, Revisions

(* A step that only rewrites rows up to the corpus revision, and drops none, *)
(* leaves every revision its job.                                           *)
LEMMA RewriteJobs ==
  ASSUME TypeOK, EveryRevisionHasJob, UNCHANGED revision,
         \A q \in Profiles, s \in Revisions :
           \/ jobs'[q][s] = jobs[q][s]
           \/ s <= revision[q] /\ jobs'[q][s].status # "none"
  PROVE  EveryRevisionHasJob'
<1>1. \A q \in Profiles, s \in Revisions :
        /\ 0 < s /\ s <= revision'[q] => jobs'[q][s].status # "none"
        /\ s > revision'[q] => jobs'[q][s].status = "none"
  <2>. TAKE q \in Profiles, s \in Revisions
  <2>1. revision'[q] = revision[q] /\ revision[q] \in Int /\ s \in Int
    BY DEF TypeOK, Revisions
  <2>2. /\ 0 < s /\ s <= revision[q] => jobs[q][s].status # "none"
        /\ s > revision[q] => jobs[q][s].status = "none"
    BY DEF EveryRevisionHasJob
  <2>3. \/ jobs'[q][s] = jobs[q][s]
        \/ s <= revision[q] /\ jobs'[q][s].status # "none"
    OBVIOUS
  <2>. QED
    BY <2>1, <2>2, <2>3
<1>. QED
  BY <1>1 DEF EveryRevisionHasJob

(* Taking a job rewrites a row that was queued, hence reached.              *)
LEMMA TakeJobFollows ==
  ASSUME TypeOK, EveryRevisionHasJob, NEW w \in Workers,
         NEW p \in Profiles, NEW r \in Revisions, TakeJob(w, p, r)
  PROVE  EveryRevisionHasJob' /\ r <= revision[p] /\ UNCHANGED revision
<1>1. r <= revision[p]
  <2>1. revision[p] \in Int /\ r \in Int
    BY DEF TypeOK, Revisions
  <2>2. jobs[p][r].status # "none"
    BY DEF TakeJob, Claimable
  <2>3. ~ (r > revision[p])
    BY <2>2 DEF EveryRevisionHasJob
  <2>. QED
    BY <2>1, <2>3
<1>2. /\ jobs \in [Profiles -> [Revisions -> JobType]]
      /\ jobs' = [jobs EXCEPT ![p][r] = Taken(@, Me(w))]
      /\ UNCHANGED revision
  BY DEF TypeOK, TakeJob
<1>3. Taken(jobs[p][r], Me(w)).status = "running"
  BY <1>2 DEF Taken, JobType
<1>4. \A q \in Profiles, s \in Revisions :
        \/ jobs'[q][s] = jobs[q][s]
        \/ s <= revision[q] /\ jobs'[q][s].status # "none"
  BY <1>1, <1>2, <1>3
<1>. QED
  BY <1>1, <1>2, <1>4, RewriteJobs

(* Closing a job rewrites a row that a worker holds, hence reached.         *)
LEMMA RecordJobFollows ==
  ASSUME TypeOK, ClaimsFollow, NEW w \in Workers, phase[w] # "idle",
         NEW n, NEW status, status # "none", NEW err
  PROVE  LET js == [jobs EXCEPT ![claim[w].profile][claim[w].target] =
                      Recorded(@, n, status, err)]
         IN  \A q \in Profiles, s \in Revisions :
               \/ js[q][s] = jobs[q][s]
               \/ s <= revision[q] /\ js[q][s].status # "none"
<1>. DEFINE p == claim[w].profile
            r == claim[w].target
            js == [jobs EXCEPT ![p][r] = Recorded(@, n, status, err)]
<1>1. /\ p \in Profiles /\ r \in Revisions /\ r <= revision[p]
      /\ jobs \in [Profiles -> [Revisions -> JobType]]
  BY DEF TypeOK, ClaimsFollow
<1>2. Recorded(jobs[p][r], n, status, err).status = status
  BY <1>1 DEF Recorded, JobType
<1>3. js[p][r] = Recorded(jobs[p][r], n, status, err)
  BY <1>1
<1>4. \A q \in Profiles, s \in Revisions : ~ (q = p /\ s = r) => js[q][s] = jobs[q][s]
  BY <1>1
<1>. HIDE DEF p, r, js
<1>5. ASSUME NEW q \in Profiles, NEW s \in Revisions
      PROVE  \/ js[q][s] = jobs[q][s]
             \/ s <= revision[q] /\ js[q][s].status # "none"
  <2>1. CASE q = p /\ s = r
    BY <1>1, <1>2, <1>3, <2>1
  <2>2. CASE ~ (q = p /\ s = r)
    BY <1>4, <2>2
  <2>. QED
    BY <2>1, <2>2
<1>. QED
  BY <1>5 DEF p, r, js

(* The plan's commit closes the worker's own job.                           *)
LEMMA CommitPlanFollows ==
  ASSUME TypeOK, EveryRevisionHasJob, ClaimsFollow, NEW w \in Workers, CommitPlan(w)
  PROVE  EveryRevisionHasJob' /\ UNCHANGED revision
<1>1. /\ UNCHANGED revision
      /\ jobs' = [jobs EXCEPT ![claim[w].profile][claim[w].target] =
                    Recorded(@, claim[w].attempt, "succeeded", "none")]
      /\ phase[w] # "idle"
  BY DEF CommitPlan
<1>2. \A q \in Profiles, s \in Revisions :
        \/ jobs'[q][s] = jobs[q][s]
        \/ s <= revision[q] /\ jobs'[q][s].status # "none"
  <2>. DEFINE status == "succeeded"
  <2>1. status # "none"
    OBVIOUS
  <2>2. \A q \in Profiles, s \in Revisions :
          LET js == [jobs EXCEPT ![claim[w].profile][claim[w].target] =
                       Recorded(@, claim[w].attempt, status, "none")]
          IN  \/ js[q][s] = jobs[q][s]
              \/ s <= revision[q] /\ js[q][s].status # "none"
    <3>. HIDE DEF status
    <3>. QED
      BY <1>1, <2>1, RecordJobFollows
  <2>. QED
    BY <1>1, <2>2
<1>. QED
  BY <1>1, <1>2, RewriteJobs

(* A failed job and, after a stale read, the job of the current revision.   *)
LEMMA SaveFailureFollows ==
  ASSUME TypeOK, EveryRevisionHasJob, ClaimsFollow, NEW w \in Workers, SaveFailure(w)
  PROVE  EveryRevisionHasJob' /\ UNCHANGED revision
<1>. DEFINE p == claim[w].profile
            r == claim[w].target
            status == IF Retries(w) THEN "retryable_failed" ELSE "permanently_failed"
            failed == [jobs EXCEPT ![p][r] =
                         Recorded(@, claim[w].attempt, status, error[w])]
<1>1. /\ UNCHANGED revision
      /\ jobs' = IF error[w] = "stale" THEN WithCurrentRevision(failed, p) ELSE failed
      /\ phase[w] # "idle"
  BY DEF SaveFailure
<1>2. \A q \in Profiles, s \in Revisions :
        \/ failed[q][s] = jobs[q][s]
        \/ s <= revision[q] /\ failed[q][s].status # "none"
  <2>1. status # "none"
    OBVIOUS
  <2>. HIDE DEF status
  <2>. QED
    BY <1>1, <2>1, RecordJobFollows
<1>3. /\ p \in Profiles /\ revision[p] \in Revisions
      /\ failed \in [Profiles -> [Revisions -> JobType]]
  <2>1. status \in Statuses /\ error[w] \in Errors
    BY DEF TypeOK, Statuses, Terminal, Claimable
  <2>. HIDE DEF status
  <2>. QED
    BY <2>1, ClosedType DEF TypeOK
<1>4. Enqueued(failed[p][revision[p]]).status # "none"
  BY DEF Enqueued, QueuedJob, NoJob
<1>5. \A q \in Profiles, s \in Revisions :
        \/ WithCurrentRevision(failed, p)[q][s] = failed[q][s]
        \/ s <= revision[q] /\ WithCurrentRevision(failed, p)[q][s].status # "none"
  <2>. HIDE DEF failed
  <2>1. revision[p] <= revision[p]
    BY <1>3 DEF Revisions
  <2>2. /\ WithCurrentRevision(failed, p)[p][revision[p]] = Enqueued(failed[p][revision[p]])
        /\ \A q \in Profiles, s \in Revisions : ~ (q = p /\ s = revision[p]) =>
             WithCurrentRevision(failed, p)[q][s] = failed[q][s]
    BY <1>3 DEF WithCurrentRevision
  <2>. QED
    BY <1>4, <2>1, <2>2
<1>6. \A q \in Profiles, s \in Revisions :
        \/ jobs'[q][s] = jobs[q][s]
        \/ s <= revision[q] /\ jobs'[q][s].status # "none"
  BY <1>1, <1>2, <1>5
<1>. QED
  BY <1>1, <1>6, RewriteJobs

(* The steps of a worker that write nothing to the tables a decision is     *)
(* computed from or recorded in.                                            *)
Quiet(w) ==
  \/ ReadRevision(w) \/ FindStale(w) \/ ReadDispositions(w) \/ ReadSources(w)
  \/ ReadPriors(w) \/ ReadOverrides(w) \/ WorkFails(w) \/ RefusePlan(w)
  \/ Finalize(w) \/ FailureRefused(w) \/ Crash(w) \/ FailureLost(w)
  \/ FinalizeFails(w)

(* A quiet step starts from a claim and keeps or drops it.                  *)
LEMMA QuietKeepsClaims ==
  ASSUME TypeOK, NEW w \in Workers, Quiet(w)
  PROVE  /\ UNCHANGED <<revision, jobs, sources, invalid, overrides, runs, projection>>
         /\ \A v \in Workers : phase'[v] # "idle" =>
              phase[v] # "idle" /\ claim'[v] = claim[v]
<1>1. UNCHANGED <<revision, jobs, sources, invalid, overrides, runs, projection>>
  BY DEF Quiet, ReadRevision, FindStale, ReadDispositions, ReadSources, ReadPriors,
         ReadOverrides, WorkFails, RefusePlan, Finalize, FailureRefused, Crash,
         FailureLost, FinalizeFails, corpusVars
<1>2. phase[w] # "idle"
  BY DEF Quiet, ReadRevision, FindStale, ReadDispositions, ReadSources, ReadPriors,
         ReadOverrides, WorkFails, RefusePlan, Finalize, FailureRefused, Crash,
         FailureLost, FinalizeFails
<1>3. \/ UNCHANGED claim /\ \E next : Becomes(w, next)
      \/ GoIdle(w)
  BY DEF Quiet, ReadRevision, FindStale, ReadDispositions, ReadSources, ReadPriors,
         ReadOverrides, WorkFails, RefusePlan, Finalize, FailureRefused, Crash,
         FailureLost, FinalizeFails, GoFailing
<1>4. phase \in [Workers -> Phases] /\ claim \in [Workers ->
        [profile : Profiles, target : Revisions, attempt : Nat]]
  BY DEF TypeOK
<1>5. \A v \in Workers : v # w => phase'[v] = phase[v] /\ claim'[v] = claim[v]
  BY <1>3, <1>4 DEF Becomes, GoIdle
<1>6. phase'[w] # "idle" => claim'[w] = claim[w]
  BY <1>3, <1>4 DEF Becomes, GoIdle
<1>. QED
  BY <1>1, <1>2, <1>5, <1>6

(* The steps of a worker, told apart by what they write.                    *)
LEMMA WorkerSteps ==
  ASSUME NEW w \in Workers, WorkerStep(w) \/ WorkFails(w) \/ FaultStep(w)
  PROVE  Quiet(w) \/ Claim(w) \/ ClaimReplyLost(w) \/ ApplyPlan(w)
           \/ ApplyReplyLost(w) \/ SaveFailure(w)
BY DEF WorkerStep, FaultStep, Quiet

(* The transactions that change the corpus raise the revision of a profile  *)
(* and touch no worker.                                                     *)
LEMMA CorpusChangesBump ==
  ASSUME CorpusChanges
  PROVE  (\E p \in Profiles : Bump(p)) /\ UNCHANGED <<decisionVars, lifecycleVars>>
BY DEF CorpusChanges, CommitSource, CreateOverride, RepairSources

(* Every step leaves every revision its job and every claim in its place.   *)
LEMMA RevisionsStep ==
  ASSUME TypeOK, EveryRevisionHasJob, ClaimsFollow, [Next]_vars
  PROVE  EveryRevisionHasJob' /\ ClaimsFollow'
<1>. DEFINE ClaimsKept == \A v \in Workers : phase'[v] # "idle" =>
              phase[v] # "idle" /\ claim'[v] = claim[v]
<1>0. /\ phase \in [Workers -> Phases]
      /\ claim \in [Workers -> [profile : Profiles, target : Revisions, attempt : Nat]]
      /\ revision \in [Profiles -> Revisions]
  BY DEF TypeOK
<1>1. UNCHANGED revision /\ ClaimsKept => ClaimsFollow'
  BY DEF ClaimsFollow
<1>2. UNCHANGED <<revision, jobs>> => EveryRevisionHasJob'
  BY DEF EveryRevisionHasJob
<1>3. ASSUME NEW w \in Workers, Quiet(w)
      PROVE  EveryRevisionHasJob' /\ ClaimsFollow'
  BY <1>1, <1>2, <1>3, QuietKeepsClaims
<1>4. ASSUME NEW w \in Workers, Claim(w)
      PROVE  EveryRevisionHasJob' /\ ClaimsFollow'
  <2>1. PICK p \in Profiles, r \in Revisions :
          /\ TakeJob(w, p, r)
          /\ Becomes(w, "claimed")
          /\ claim' = [claim EXCEPT ![w] =
               [profile |-> p, target |-> r, attempt |-> jobs[p][r].attempts + 1]]
    BY <1>4 DEF Claim
  <2>2. EveryRevisionHasJob' /\ r <= revision[p] /\ UNCHANGED revision
    BY <2>1, TakeJobFollows
  <2>3. \A v \in Workers \ {w} : phase'[v] = phase[v] /\ claim'[v] = claim[v]
    BY <1>0, <2>1 DEF Becomes
  <2>4. claim'[w].profile = p /\ claim'[w].target = r
    BY <1>0, <2>1
  <2>. QED
    BY <2>2, <2>3, <2>4 DEF ClaimsFollow
<1>5. ASSUME NEW w \in Workers, ClaimReplyLost(w)
      PROVE  EveryRevisionHasJob' /\ ClaimsFollow'
  <2>1. PICK p \in Profiles, r \in Revisions : TakeJob(w, p, r)
    BY <1>5 DEF ClaimReplyLost
  <2>2. UNCHANGED <<phase, claim>>
    BY <1>5 DEF ClaimReplyLost
  <2>. QED
    BY <1>1, <2>1, <2>2, TakeJobFollows
<1>6. ASSUME NEW w \in Workers, ApplyPlan(w) \/ ApplyReplyLost(w)
      PROVE  EveryRevisionHasJob' /\ ClaimsFollow'
  <2>1. CommitPlan(w) /\ UNCHANGED claim /\ \E next : Becomes(w, next)
    BY <1>6 DEF ApplyPlan, ApplyReplyLost, GoFailing
  <2>2. phase[w] # "idle"
    BY <2>1 DEF CommitPlan
  <2>3. ClaimsKept
    BY <1>0, <2>1, <2>2 DEF Becomes
  <2>. QED
    BY <1>1, <2>1, <2>3, CommitPlanFollows
<1>7. ASSUME NEW w \in Workers, SaveFailure(w)
      PROVE  EveryRevisionHasJob' /\ ClaimsFollow'
  <2>1. ClaimsKept
    BY <1>0, <1>7 DEF SaveFailure, GoIdle, Becomes
  <2>. QED
    BY <1>1, <1>7, <2>1, SaveFailureFollows
<1>8. ASSUME CorpusChanges
      PROVE  EveryRevisionHasJob' /\ ClaimsFollow'
  <2>1. PICK p \in Profiles : Bump(p)
    BY <1>8, CorpusChangesBump
  <2>2. UNCHANGED <<phase, claim>>
    BY <1>8, CorpusChangesBump DEF decisionVars
  <2>3. EveryRevisionHasJob' /\ \A q \in Profiles : revision[q] <= revision'[q]
    BY <2>1, BumpJobs
  <2>4. revision' \in [Profiles -> Revisions]
    BY <2>1, BumpType
  <2>5. ASSUME NEW v \in Workers, phase[v] # "idle"
        PROVE  claim[v].target <= revision'[claim[v].profile]
    <3>. DEFINE q == claim[v].profile
    <3>1. q \in Profiles /\ claim[v].target \in Revisions
      BY <1>0
    <3>2. claim[v].target <= revision[q] /\ revision[q] <= revision'[q]
      BY <2>3, <2>5, <3>1 DEF ClaimsFollow
    <3>3. claim[v].target \in Int /\ revision[q] \in Int /\ revision'[q] \in Int
      BY <1>0, <2>4, <3>1 DEF Revisions
    <3>. HIDE DEF q
    <3>. QED
      BY <3>2, <3>3 DEF q
  <2>. QED
    BY <2>2, <2>3, <2>5 DEF ClaimsFollow
<1>9. ASSUME NEW s \in Searches, EndImports(s)
      PROVE  EveryRevisionHasJob' /\ ClaimsFollow'
  <2>. DEFINE p == SearchProfile[s]
  <2>1. /\ p \in Profiles /\ revision[p] \in Revisions
        /\ jobs \in [Profiles -> [Revisions -> JobType]]
    BY DEF TypeOK
  <2>2. UNCHANGED <<revision, phase, claim>>
    BY <1>9 DEF EndImports
  <2>3. jobs' = jobs \/ jobs' = WithCurrentRevision(jobs, p)
    BY <1>9 DEF EndImports
  <2>4. Enqueued(jobs[p][revision[p]]).status # "none"
    BY DEF Enqueued, QueuedJob, NoJob
  <2>5. revision[p] <= revision[p]
    BY <2>1 DEF Revisions
  <2>6. \A q \in Profiles, r \in Revisions :
          \/ jobs'[q][r] = jobs[q][r]
          \/ r <= revision[q] /\ jobs'[q][r].status # "none"
    BY <2>1, <2>3, <2>4, <2>5 DEF WithCurrentRevision
  <2>. QED
    BY <1>1, <2>2, <2>6, RewriteJobs
<1>10. ASSUME NEW s \in Searches, NEW raw \in Raws, ImportListing(s, raw)
       PROVE  EveryRevisionHasJob' /\ ClaimsFollow'
  BY <1>1, <1>2, <1>10 DEF ImportListing, corpusVars
<1>11. CASE UNCHANGED <<corpusVars, decisionVars>>
  BY <1>1, <1>2, <1>11 DEF corpusVars, decisionVars
<1>. QED
  BY <1>3, <1>4, <1>5, <1>6, <1>7, <1>8, <1>9, <1>10, <1>11, WorkerSteps, Steps

(* No change of the corpus is forgotten: every revision a transaction has   *)
(* reached has its decision job, and no job is ahead of the corpus.         *)
THEOREM RevisionsHaveJobs == Spec => []EveryRevisionHasJob
<1>1. Init => EveryRevisionHasJob /\ ClaimsFollow
  BY DEF Init, CorpusInit, DecisionsInit, EveryRevisionHasJob, ClaimsFollow,
         Revisions, NoJob
<1>. QED
  BY <1>1, TypeCorrect, RevisionsStep, PTL DEF Spec

(***************************************************************************)
(* What a worker has read holds at the revision of its job.                *)
(***************************************************************************)

Reading == {"dispositions", "sources", "priors", "planned"}

(* A worker that has read nothing that counts has a coherent snapshot.      *)
LEMMA CoherentOutside ==
  ASSUME NEW w \in Workers, phase'[w] \notin Reading
  PROVE  Coherent(w)'
BY DEF Coherent, Reading

(* A step that leaves the worker and what it reads alone keeps coherence.   *)
LEMMA CoherentFrame ==
  ASSUME NEW w \in Workers, Coherent(w),
         UNCHANGED <<phase[w], claim[w], seen[w], lifeRead[w], moved[w]>>,
         UNCHANGED <<revision, sources, invalid, overrides, runs, projection, life>>
  PROVE  Coherent(w)'
BY DEF Coherent, IsAtTarget, HasNoRun, RunOf, ShownLives

(* A listing the user moves counts no more for those who have read it.      *)
LEMMA CoherentMove ==
  ASSUME TypeOK, NEW p \in Profiles, NEW raw \in Raws, NEW to \in Lives,
         MoveListing(p, raw, to), NEW w \in Workers, Coherent(w)
  PROVE  Coherent(w)'
<1>. DEFINE q == claim[w].profile
<1>1. /\ UNCHANGED <<revision, sources, invalid, overrides, runs, projection, phase, claim,
                     seen, lifeRead>>
      /\ phase[w] \in {"priors", "planned"} => moved'[w] = moved[w] \cup {raw}
      /\ \A x \in Raws \ {raw} : life'[x] = life[x]
  BY DEF MoveListing, TypeOK, LifeType, corpusVars, decisionVars
<1>2. \A x \in Raws \ {raw} : ShownLives(q)'[x] = ShownLives(q)[x]
  BY <1>1 DEF ShownLives
<1>3. (IsAtTarget(w)' <=> IsAtTarget(w)) /\ (HasNoRun(w)' <=> HasNoRun(w))
  BY <1>1 DEF IsAtTarget, HasNoRun, RunOf
<1>4. ASSUME IsAtTarget(w), HasNoRun(w), phase[w] \in {"priors", "planned"}
      PROVE  \A x \in Raws \ moved'[w] : lifeRead[w][x] = ShownLives(q)'[x]
  BY <1>1, <1>2, <1>4 DEF Coherent
<1>. QED
  BY <1>1, <1>3, <1>4 DEF Coherent

(* Each statement of the snapshot adds what the database holds now.         *)
LEMMA CoherentReads ==
  ASSUME TypeOK, NEW w \in Workers, Coherent(w),
         \/ ReadDispositions(w) \/ ReadSources(w) \/ ReadPriors(w) \/ ReadOverrides(w)
  PROVE  Coherent(w)'
<1>1. /\ phase \in [Workers -> Phases]
      /\ lifeRead \in [Workers -> LifeType]
      /\ seen \in [Workers -> Basis]
      /\ seen[w] \in Basis
  BY DEF TypeOK
<1>2. UNCHANGED <<revision, sources, invalid, overrides, runs, projection, claim, life, moved>>
  BY DEF ReadDispositions, ReadSources, ReadPriors, ReadOverrides, corpusVars, lifecycleVars
<1>3. (IsAtTarget(w)' <=> IsAtTarget(w)) /\ (HasNoRun(w)' <=> HasNoRun(w))
  BY <1>2 DEF IsAtTarget, HasNoRun, RunOf
<1>4. CASE ReadDispositions(w)
  <2>1. phase'[w] = "dispositions" /\ seen'[w] = [seen[w] EXCEPT !.invalid = invalid]
    BY <1>1, <1>4 DEF ReadDispositions, Becomes
  <2>2. seen'[w].invalid = invalid
    BY <1>1, <2>1 DEF Basis
  <2>. QED
    BY <1>2, <1>3, <2>1, <2>2 DEF Coherent
<1>5. CASE ReadSources(w)
  <2>1. /\ phase[w] = "dispositions" /\ phase'[w] = "sources"
        /\ seen'[w] = [seen[w] EXCEPT !.sources = sources]
    BY <1>1, <1>5 DEF ReadSources, Becomes
  <2>2. seen'[w].sources = sources /\ seen'[w].invalid = seen[w].invalid
    BY <1>1, <2>1 DEF Basis
  <2>. QED
    BY <1>2, <1>3, <2>1, <2>2 DEF Coherent
<1>6. CASE ReadPriors(w)
  <2>1. /\ phase[w] = "sources" /\ phase'[w] = "priors"
        /\ seen'[w] = [seen[w] EXCEPT !.prior = projection[claim[w].profile].revision]
        /\ lifeRead'[w] = ShownLives(claim[w].profile)
    BY <1>1, <1>6 DEF ReadPriors, Becomes
  <2>2. /\ seen'[w].prior = projection[claim[w].profile].revision
        /\ seen'[w].sources = seen[w].sources /\ seen'[w].invalid = seen[w].invalid
    BY <1>1, <2>1 DEF Basis
  <2>3. lifeRead'[w] = ShownLives(claim[w].profile)'
    BY <1>2, <2>1 DEF ShownLives
  <2>. QED
    BY <1>2, <1>3, <2>1, <2>2, <2>3 DEF Coherent
<1>7. CASE ReadOverrides(w)
  <2>1. /\ phase[w] = "priors" /\ phase'[w] = "planned"
        /\ seen'[w] = [seen[w] EXCEPT !.overrides = overrides[claim[w].profile]]
        /\ UNCHANGED lifeRead
    BY <1>1, <1>7 DEF ReadOverrides, Becomes, lifecycleVars
  <2>3. ShownLives(claim[w].profile)' = ShownLives(claim[w].profile)
    BY <1>2 DEF ShownLives
  <2>2. /\ seen'[w].overrides = overrides[claim[w].profile]
        /\ seen'[w].prior = seen[w].prior
        /\ seen'[w].sources = seen[w].sources /\ seen'[w].invalid = seen[w].invalid
    BY <1>1, <2>1 DEF Basis
  <2>. QED
    BY <1>2, <1>3, <2>1, <2>2, <2>3 DEF Coherent
<1>. QED
  BY <1>4, <1>5, <1>6, <1>7

(* Another worker's commit either is for this worker's own job, which then  *)
(* has a run, or leaves alone what this worker has read.                    *)
LEMMA CoherentCommit ==
  ASSUME TypeOK, NEW u \in Workers, CommitPlan(u), NEW w \in Workers, Coherent(w),
         UNCHANGED <<phase[w], claim[w], seen[w], lifeRead[w], moved[w]>>
  PROVE  Coherent(w)'
<1>. DEFINE p == claim[u].profile
            r == claim[u].target
            q == claim[w].profile
<1>1. /\ p \in Profiles /\ q \in Profiles
      /\ DOMAIN projection = Profiles
  BY DEF TypeOK
<1>2. /\ UNCHANGED <<revision, sources, invalid, overrides>>
      /\ revision[p] = r
      /\ \E basis : runs' = runs \cup {[profile |-> p, revision |-> r, input |-> basis]}
      /\ \E shown : projection' = [projection EXCEPT ![p] = shown]
      /\ \A raw \in Raws \ Members(seen[u]) : life'[raw] = life[raw]
      /\ q # p => projection[q].members \cap Members(seen[u]) = {}
  BY <1>1 DEF CommitPlan, PlanApplies, IsAtTarget, TakesFreeSources
<1>3. IsAtTarget(w)' <=> IsAtTarget(w)
  BY <1>2 DEF IsAtTarget
<1>4. HasNoRun(w)' => HasNoRun(w)
  BY <1>2 DEF HasNoRun, RunOf
<1>5. HasNoRun(w)' /\ IsAtTarget(w) => q # p
  <2>. SUFFICES ASSUME q = p, IsAtTarget(w) PROVE ~ HasNoRun(w)'
    OBVIOUS
  <2>1. claim[w].target = r
    BY <1>2 DEF IsAtTarget
  <2>2. PICK basis : [profile |-> q, revision |-> r, input |-> basis] \in runs'
    BY <1>2
  <2>. QED
    BY <2>1, <2>2 DEF HasNoRun, RunOf
<1>6. q # p => projection'[q] = projection[q]
  BY <1>1, <1>2
<1>7. q # p => ShownLives(q)' = ShownLives(q)
  BY <1>2, <1>6 DEF ShownLives
<1>. QED
  BY <1>2, <1>3, <1>4, <1>5, <1>6, <1>7 DEF Coherent

(* A change of the corpus moves it past the revision of the worker's job,   *)
(* or belongs to another profile.                                           *)
LEMMA CoherentChange ==
  ASSUME TypeOK, ClaimsFollow, CorpusChanges, NEW w \in Workers, Coherent(w)
  PROVE  Coherent(w)'
<1>. DEFINE q == claim[w].profile
<1>0. CASE phase[w] \notin Reading
  BY <1>0, CorpusChangesBump, CoherentOutside DEF decisionVars
<1>. SUFFICES ASSUME phase[w] \in Reading PROVE Coherent(w)'
  BY <1>0
<1>1. PICK p \in Profiles :
        /\ Bump(p)
        /\ UNCHANGED overrides \/ Profiles = {p}
  BY DEF CorpusChanges, CommitSource, CreateOverride, RepairSources
<1>2. UNCHANGED <<runs, projection, phase, claim, seen, lifecycleVars>>
  BY CorpusChangesBump DEF decisionVars
<1>3. /\ q \in Profiles
      /\ revision \in [Profiles -> Revisions]
      /\ claim[w].target \in Revisions
      /\ claim[w].target <= revision[q]
  BY DEF TypeOK, ClaimsFollow, Reading
<1>4. CASE q = p
  <2>1. revision'[q] = revision[q] + 1
    BY <1>1, <1>3, <1>4 DEF Bump
  <2>2. revision'[q] # claim[w].target
    BY <1>3, <2>1 DEF Revisions
  <2>. QED
    BY <1>2, <2>2 DEF Coherent, IsAtTarget
<1>5. CASE q # p
  <2>1. Profiles # {q} /\ UNCHANGED overrides
    BY <1>1, <1>3, <1>5
  <2>2. revision'[q] = revision[q]
    BY <1>1, <1>3, <1>5 DEF Bump
  <2>. QED
    BY <1>2, <2>1, <2>2 DEF Coherent, IsAtTarget, HasNoRun, RunOf, ShownLives, lifecycleVars
<1>. QED
  BY <1>4, <1>5

(* Every step keeps every snapshot coherent.                                *)
LEMMA SnapshotStep ==
  ASSUME TypeOK, ClaimsFollow, SnapshotHolds, [Next]_vars
  PROVE  SnapshotHolds'
<1>. SUFFICES ASSUME NEW w \in Workers PROVE Coherent(w)'
  BY DEF SnapshotHolds
<1>0. /\ Coherent(w)
      /\ phase \in [Workers -> Phases]
      /\ claim \in [Workers -> [profile : Profiles, target : Revisions, attempt : Nat]]
      /\ seen \in [Workers -> Basis]
      /\ lifeRead \in [Workers -> LifeType] /\ moved \in [Workers -> SUBSET Raws]
  BY DEF SnapshotHolds, TypeOK
<1>1. ASSUME NEW v \in Workers, Quiet(v) PROVE Coherent(w)'
  <2>1. UNCHANGED <<revision, sources, invalid, overrides, runs, projection, life>>
    <3>1. UNCHANGED life
      BY <1>1 DEF Quiet, ReadRevision, FindStale, ReadDispositions, ReadSources, ReadPriors,
                  ReadOverrides, WorkFails, RefusePlan, Finalize, FailureRefused, Crash,
                  FailureLost, FinalizeFails, lifecycleVars
    <3>. QED
      BY <1>1, <3>1, QuietKeepsClaims
  <2>2. CASE v # w
    <3>1. UNCHANGED <<phase[w], claim[w], seen[w], lifeRead[w], moved[w]>>
      BY <1>0, <1>1, <2>2
         DEF Quiet, ReadRevision, FindStale, ReadDispositions, ReadSources, ReadPriors,
             ReadOverrides, WorkFails, RefusePlan, Finalize, FailureRefused, Crash,
             FailureLost, FinalizeFails, GoFailing, GoIdle, Forget, Becomes, lifecycleVars
    <3>. QED
      BY <1>0, <2>1, <3>1, CoherentFrame
  <2>3. CASE v = w
    <3>1. \/ ReadDispositions(w) \/ ReadSources(w) \/ ReadPriors(w) \/ ReadOverrides(w)
          \/ phase'[w] \in {"checked", "failing", "idle"}
      BY <1>0, <1>1, <2>3
         DEF Quiet, ReadRevision, FindStale, WorkFails, RefusePlan, Finalize,
             FailureRefused, Crash, FailureLost, FinalizeFails, GoFailing, GoIdle, Becomes
    <3>. QED
      BY <1>0, <3>1, CoherentReads, CoherentOutside DEF Reading
  <2>. QED
    BY <2>2, <2>3
<1>2. ASSUME NEW v \in Workers, Claim(v) PROVE Coherent(w)'
  <2>1. /\ UNCHANGED <<revision, sources, invalid, overrides, runs, projection, seen>>
        /\ UNCHANGED lifecycleVars
        /\ Becomes(v, "claimed")
        /\ \E c : claim' = [claim EXCEPT ![v] = c]
    BY <1>2 DEF Claim, TakeJob
  <2>2. CASE v # w
    <3>1. UNCHANGED <<phase[w], claim[w], seen[w], lifeRead[w], moved[w]>>
      BY <1>0, <2>1, <2>2 DEF Becomes, lifecycleVars
    <3>. QED
      BY <1>0, <2>1, <3>1, CoherentFrame DEF lifecycleVars
  <2>3. CASE v = w
    <3>1. phase'[w] \notin Reading
      BY <1>0, <2>1, <2>3 DEF Becomes, Reading
    <3>. QED
      BY <3>1, CoherentOutside
  <2>. QED
    BY <2>2, <2>3
<1>3. ASSUME NEW v \in Workers, ClaimReplyLost(v) PROVE Coherent(w)'
  <2>1. UNCHANGED <<revision, sources, invalid, overrides, runs, projection,
                    phase, claim, seen, life, lifeRead, moved>>
    BY <1>3 DEF ClaimReplyLost, TakeJob, lifecycleVars
  <2>. QED
    BY <1>0, <2>1, CoherentFrame
<1>4. ASSUME NEW v \in Workers, ApplyPlan(v) \/ ApplyReplyLost(v) PROVE Coherent(w)'
  <2>1. CASE v # w
    <3>1. CommitPlan(v) /\ UNCHANGED <<phase[w], claim[w], seen[w], lifeRead[w], moved[w]>>
      BY <1>0, <1>4, <2>1 DEF ApplyPlan, ApplyReplyLost, GoFailing, Forget, Becomes
    <3>. QED
      BY <1>0, <3>1, CoherentCommit
  <2>2. CASE v = w
    <3>1. phase'[w] \notin Reading
      BY <1>0, <1>4, <2>2 DEF ApplyPlan, ApplyReplyLost, GoFailing, Becomes, Reading
    <3>. QED
      BY <3>1, CoherentOutside
  <2>. QED
    BY <2>1, <2>2
<1>5. ASSUME NEW v \in Workers, SaveFailure(v) PROVE Coherent(w)'
  <2>1. /\ UNCHANGED <<revision, sources, invalid, overrides, runs, projection, life>>
        /\ GoIdle(v)
    BY <1>5 DEF SaveFailure
  <2>2. CASE v # w
    <3>1. UNCHANGED <<phase[w], claim[w], seen[w], lifeRead[w], moved[w]>>
      BY <1>0, <2>1, <2>2 DEF GoIdle, Forget, Becomes
    <3>. QED
      BY <1>0, <2>1, <3>1, CoherentFrame
  <2>3. CASE v = w
    <3>1. phase'[w] \notin Reading
      BY <1>0, <2>1, <2>3 DEF GoIdle, Becomes, Reading
    <3>. QED
      BY <3>1, CoherentOutside
  <2>. QED
    BY <2>2, <2>3
<1>6. ASSUME CorpusChanges PROVE Coherent(w)'
  BY <1>0, <1>6, CoherentChange
<1>7. ASSUME NEW s \in Searches, EndImports(s) \/ \E raw \in Raws : ImportListing(s, raw)
      PROVE  Coherent(w)'
  <2>1. UNCHANGED <<revision, sources, invalid, overrides, runs, projection,
                    phase, claim, seen, life, lifeRead, moved>>
    BY <1>7 DEF EndImports, ImportListing, corpusVars, lifecycleVars
  <2>. QED
    BY <1>0, <2>1, CoherentFrame
<1>8. CASE UNCHANGED vars
  BY <1>0, <1>8, CoherentFrame DEF vars, corpusVars, decisionVars, lifecycleVars
<1>9. ASSUME NEW p \in Profiles, NEW raw \in Raws, NEW to \in Lives, MoveListing(p, raw, to)
      PROVE  Coherent(w)'
  BY <1>0, <1>9, CoherentMove
<1>. QED
  BY <1>1, <1>2, <1>3, <1>4, <1>5, <1>6, <1>7, <1>8, <1>9, WorkerSteps DEF Next

(* The statements of a snapshot share none, and yet what a worker has read  *)
(* is what the database holds, until the corpus moves on; of the lifecycle  *)
(* states, those of the listings the user has not moved since.              *)
THEOREM SnapshotsAreCoherent == Spec => []SnapshotHolds
<1>1. Init => EveryRevisionHasJob /\ ClaimsFollow /\ SnapshotHolds
  BY DEF Init, CorpusInit, DecisionsInit, EveryRevisionHasJob, ClaimsFollow,
         Revisions, NoJob, SnapshotHolds, Coherent
<1>. QED
  BY <1>1, TypeCorrect, RevisionsStep, SnapshotStep, PTL DEF Spec

(***************************************************************************)
(* What a profile shows.                                                   *)
(***************************************************************************)

(* A projection is never ahead of its corpus.                               *)
ProjectionFollows == \A p \in Profiles : projection[p].revision <= revision[p]

(* A plan that commits was computed from the corpus as it is.               *)
LEMMA CommitIsCurrent ==
  ASSUME TypeOK, SnapshotHolds, NEW w \in Workers, CommitPlan(w)
  PROVE  LET p == claim[w].profile
             run == [profile |-> p, revision |-> revision[p], input |-> seen[w]]
         IN  /\ runs' = runs \cup {run}
             /\ projection' = [projection EXCEPT ![p] =
                  [revision |-> revision[p], members |-> Valid, overrides |-> overrides[p]]]
             /\ Members(run.input) = Valid
             /\ run.input.overrides = overrides[p]
             /\ run.input.prior = projection[p].revision
             /\ \A raw \in projection[p].members : life'[raw] = life[raw] \/ PutsBack(p, raw)
             /\ UNCHANGED <<revision, sources, invalid, overrides>>
<1>1. Coherent(w) /\ phase[w] = "planned" /\ IsAtTarget(w) /\ HasNoRun(w) /\ CoversSources(w)
  BY DEF SnapshotHolds, CommitPlan, PlanApplies
<1>2. seen[w].overrides = overrides[claim[w].profile]
      /\ seen[w].prior = projection[claim[w].profile].revision
  BY <1>1 DEF Coherent
<1>3. Members(seen[w]) = Valid /\ claim[w].target = revision[claim[w].profile]
  BY <1>1 DEF CoversSources, IsAtTarget
<1>4. ASSUME NEW raw \in projection[claim[w].profile].members
      PROVE  life'[raw] = life[raw] \/ PutsBack(claim[w].profile, raw)
  <2>1. raw \in Raws
    BY DEF TypeOK
  <2>2. life'[raw] = life[raw] \/ life'[raw] = lifeRead[w][raw]
    BY <2>1 DEF CommitPlan
  <2>3. CASE raw \in moved[w]
    BY <1>1, <2>2, <2>3 DEF PutsBack
  <2>4. CASE raw \notin moved[w]
    <3>1. lifeRead[w][raw] = ShownLives(claim[w].profile)[raw]
      BY <1>1, <2>1, <2>4 DEF Coherent
    <3>2. lifeRead[w][raw] = life[raw]
      BY <2>1, <3>1 DEF ShownLives
    <3>. QED
      BY <2>2, <3>2
  <2>. QED
    BY <2>3, <2>4
<1>. QED
  BY <1>2, <1>3, <1>4 DEF CommitPlan

(* A step either changes the corpus, commits a plan, or shows nothing new.  *)
LEMMA StepsThatShow ==
  ASSUME TypeOK, [Next]_vars
  PROVE  \/ CorpusChanges /\ UNCHANGED <<runs, projection>>
         \/ \E w \in Workers : CommitPlan(w)
         \/ UNCHANGED <<revision, sources, invalid, overrides, runs, projection>>
<1>1. ASSUME NEW w \in Workers, WorkerStep(w) \/ WorkFails(w) \/ FaultStep(w)
      PROVE  \/ CommitPlan(w)
             \/ UNCHANGED <<revision, sources, invalid, overrides, runs, projection>>
  <2>1. CASE Quiet(w)
    BY <2>1, QuietKeepsClaims
  <2>2. CASE Claim(w) \/ ClaimReplyLost(w)
    BY <2>2 DEF Claim, ClaimReplyLost, TakeJob
  <2>3. CASE ApplyPlan(w) \/ ApplyReplyLost(w)
    BY <2>3 DEF ApplyPlan, ApplyReplyLost
  <2>4. CASE SaveFailure(w)
    BY <2>4 DEF SaveFailure
  <2>. QED
    BY <1>1, <2>1, <2>2, <2>3, <2>4, WorkerSteps
<1>2. CorpusChanges => UNCHANGED <<runs, projection>>
  BY DEF CorpusChanges, decisionVars
<1>3. ASSUME NEW s \in Searches, EndImports(s) \/ \E raw \in Raws : ImportListing(s, raw)
      PROVE  UNCHANGED <<revision, sources, invalid, overrides, runs, projection>>
  BY <1>3 DEF EndImports, ImportListing, corpusVars
<1>4. UNCHANGED <<corpusVars, decisionVars>> =>
        UNCHANGED <<revision, sources, invalid, overrides, runs, projection>>
  BY DEF corpusVars, decisionVars
<1>. QED
  BY <1>1, <1>2, <1>3, <1>4, Steps

(* What every profile shows is the newest run, never ahead of the corpus,   *)
(* and fresh when the corpus has not moved since.                           *)
ShownInv == ProjectionFollows /\ NewestRunShown /\ SettledProjectionIsFresh

(* Revisions, projections and runs are ordered by numbers.                  *)
LEMMA ShownTypes ==
  ASSUME TypeOK
  PROVE  /\ \A p \in Profiles : revision[p] \in Int /\ projection[p].revision \in Int
         /\ DOMAIN projection = Profiles /\ DOMAIN revision = Profiles
         /\ \A run \in runs : run.profile \in Profiles /\ run.revision \in Int
         /\ \A p \in Profiles : revision[p] # NoRevision
BY DEF TypeOK, Revisions, NoRevision

(* A committed plan becomes the newest run and what the profile shows.      *)
LEMMA CommitShows ==
  ASSUME TypeOK, TypeOK', SnapshotHolds, ShownInv, NEW w \in Workers, CommitPlan(w)
  PROVE  ShownInv'
<1>. DEFINE p == claim[w].profile
            run == [profile |-> p, revision |-> revision[p], input |-> seen[w]]
<1>1. /\ p \in Profiles
      /\ runs' = runs \cup {run}
      /\ projection' = [projection EXCEPT ![p] =
           [revision |-> revision[p], members |-> Valid, overrides |-> overrides[p]]]
      /\ Members(seen[w]) = Valid
      /\ seen[w].overrides = overrides[p]
      /\ UNCHANGED <<revision, sources, invalid, overrides>>
  BY CommitIsCurrent DEF TypeOK
<1>2. /\ projection'[p].revision = revision[p]
      /\ projection'[p].members = Valid
      /\ projection'[p].overrides = overrides[p]
      /\ \A q \in Profiles \ {p} : projection'[q] = projection[q]
  BY <1>1, ShownTypes
<1>3. ProjectionFollows'
  BY <1>1, <1>2, ShownTypes DEF ShownInv, ProjectionFollows
<1>4. NewestRunShown'
  <2>1. ASSUME NEW x \in runs' PROVE x.revision <= projection'[x.profile].revision
    <3>1. CASE x = run
      BY <1>1, <1>2, <3>1, ShownTypes
    <3>2. CASE x \in runs /\ x.profile = p
      <4>1. x.revision <= projection[p].revision /\ projection[p].revision <= revision[p]
        BY <1>1, <3>2 DEF ShownInv, NewestRunShown, ProjectionFollows
      <4>. QED
        BY <1>1, <1>2, <3>2, <4>1, ShownTypes
    <3>3. CASE x \in runs /\ x.profile # p
      BY <1>2, <3>3, ShownTypes DEF ShownInv, NewestRunShown
    <3>. QED
      BY <1>1, <3>1, <3>2, <3>3
  <2>2. ASSUME NEW q \in Profiles, projection'[q].revision # NoRevision
        PROVE  \E x \in RunOf(q, projection[q].revision)' :
                 /\ projection'[q].members = Members(x.input)
                 /\ projection'[q].overrides = x.input.overrides
    <3>1. CASE q = p
      <4>1. run \in RunOf(q, projection[q].revision)'
        BY <1>1, <1>2, <3>1 DEF RunOf
      <4>. QED
        BY <1>1, <1>2, <3>1, <4>1
    <3>2. CASE q # p
      <4>1. PICK x \in RunOf(q, projection[q].revision) :
                /\ projection[q].members = Members(x.input)
                /\ projection[q].overrides = x.input.overrides
        BY <1>2, <2>2, <3>2 DEF ShownInv, NewestRunShown
      <4>2. x \in RunOf(q, projection[q].revision)'
        BY <1>1, <1>2, <3>2, <4>1 DEF RunOf
      <4>. QED
        BY <1>2, <3>2, <4>1, <4>2
    <3>. QED
      BY <3>1, <3>2
  <2>. QED
    BY <2>1, <2>2 DEF NewestRunShown, Members
<1>5. SettledProjectionIsFresh'
  BY <1>1, <1>2 DEF SettledProjectionIsFresh, Valid
<1>. QED
  BY <1>3, <1>4, <1>5 DEF ShownInv

(* A change of the corpus makes what its profile shows an older revision's. *)
LEMMA ChangeShows ==
  ASSUME TypeOK, TypeOK', ShownInv, CorpusChanges
  PROVE  ShownInv'
<1>1. PICK p \in Profiles : Bump(p)
  BY CorpusChangesBump
<1>2. UNCHANGED <<runs, projection>>
  BY CorpusChangesBump DEF decisionVars
<1>3. /\ revision'[p] = revision[p] + 1
      /\ \A q \in Profiles \ {p} : revision'[q] = revision[q]
  BY <1>1, ShownTypes DEF Bump
<1>4. projection[p].revision < revision'[p]
  BY <1>1, <1>3, ShownTypes DEF ShownInv, ProjectionFollows
<1>5. ProjectionFollows'
  BY <1>2, <1>3, <1>4, ShownTypes DEF ShownInv, ProjectionFollows
<1>6. NewestRunShown'
  BY <1>2 DEF ShownInv, NewestRunShown, RunOf, Members
<1>7. SettledProjectionIsFresh'
  <2>. SUFFICES ASSUME NEW q \in Profiles, Profiles = {q},
                       projection'[q].revision = revision'[q]
                PROVE  FALSE
    BY DEF SettledProjectionIsFresh
  <2>1. q = p
    OBVIOUS
  <2>. QED
    BY <1>2, <1>4, <2>1, ShownTypes
<1>. QED
  BY <1>5, <1>6, <1>7 DEF ShownInv

(* Every step shows the newest run.                                         *)
LEMMA ShownStep ==
  ASSUME TypeOK, TypeOK', SnapshotHolds, ShownInv, [Next]_vars
  PROVE  ShownInv'
<1>1. CASE CorpusChanges
  BY <1>1, ChangeShows
<1>2. CASE \E w \in Workers : CommitPlan(w)
  BY <1>2, CommitShows
<1>3. CASE UNCHANGED <<revision, sources, invalid, overrides, runs, projection>>
  BY <1>3 DEF ShownInv, ProjectionFollows, NewestRunShown, RunOf, Members,
              SettledProjectionIsFresh, Valid
<1>. QED
  BY <1>1, <1>2, <1>3, StepsThatShow

(* At first no profile shows anything.                                      *)
LEMMA ShownInit ==
  ASSUME Init
  PROVE  EveryRevisionHasJob /\ ClaimsFollow /\ SnapshotHolds /\ ShownInv
<1>1. EveryRevisionHasJob /\ ClaimsFollow /\ SnapshotHolds
  BY DEF Init, CorpusInit, DecisionsInit, EveryRevisionHasJob, ClaimsFollow,
         Revisions, NoJob, SnapshotHolds, Coherent
<1>2. /\ runs = {}
      /\ \A p \in Profiles : revision[p] = 0 /\ projection[p].revision = NoRevision
  BY DEF Init, CorpusInit, DecisionsInit
<1>3. ShownInv
  BY <1>2 DEF ShownInv, ProjectionFollows, NewestRunShown, SettledProjectionIsFresh,
              NoRevision
<1>. QED
  BY <1>1, <1>3

(* The projection is the one of the newest run; an older job that ends late *)
(* never puts an older projection back.                                     *)
THEOREM NewestRunIsShown == Spec => []NewestRunShown
<1>1. ShownInv => NewestRunShown
  BY DEF ShownInv
<1>. QED
  BY <1>1, ShownInit, TypeCorrect, RevisionsStep, SnapshotStep, ShownStep, PTL DEF Spec

(* A user with one profile: a projection at the current revision shows the  *)
(* valid sources and the overrides of this very moment.                     *)
THEOREM SettledIsFresh == Spec => []SettledProjectionIsFresh
<1>1. ShownInv => SettledProjectionIsFresh
  BY DEF ShownInv
<1>. QED
  BY <1>1, ShownInit, TypeCorrect, RevisionsStep, SnapshotStep, ShownStep, PTL DEF Spec

(* The plan a step applies was computed from the corpus of that step, and   *)
(* it undoes a lifecycle move of a shown listing only if the user made it   *)
(* after the worker had read the states.                                    *)
THEOREM PlansAreCurrent == Spec => AppliedPlanIsCurrent
<1>. DEFINE Current == \A run \in runs' \ runs :
       LET p == run.profile
       IN  /\ run.revision = revision[p]
           /\ Members(run.input) = Valid
           /\ run.input.overrides = overrides[p]
           /\ run.input.prior = projection[p].revision
           /\ \A raw \in projection[p].members : life'[raw] = life[raw] \/ PutsBack(p, raw)
<1>1. TypeOK /\ SnapshotHolds /\ [Next]_vars => Current
  <2>. SUFFICES ASSUME TypeOK, SnapshotHolds, [Next]_vars PROVE Current
    OBVIOUS
  <2>1. CASE \E w \in Workers : CommitPlan(w)
    <3>1. PICK w \in Workers : CommitPlan(w)
      BY <2>1
    <3>. DEFINE p == claim[w].profile
                committed == [profile |-> p, revision |-> revision[p], input |-> seen[w]]
    <3>2. /\ runs' = runs \cup {committed}
          /\ Members(seen[w]) = Valid
          /\ seen[w].overrides = overrides[p]
          /\ seen[w].prior = projection[p].revision
          /\ \A raw \in projection[p].members : life'[raw] = life[raw] \/ PutsBack(p, raw)
      BY <3>1, CommitIsCurrent
    <3>3. ASSUME NEW run \in runs' \ runs PROVE run = committed
      BY <3>2
    <3>. QED
      BY <3>2, <3>3
  <2>2. CASE UNCHANGED runs
    BY <2>2
  <2>. QED
    BY <2>1, <2>2, StepsThatShow
<1>2. TypeOK /\ SnapshotHolds /\ [Next]_vars => [Current]_vars
  BY <1>1
<1>. QED
  BY <1>2, TypeCorrect, SnapshotsAreCoherent, PTL DEF Spec, AppliedPlanIsCurrent

(***************************************************************************)
(* The protocol implements Publication.                                    *)
(***************************************************************************)

Corpora == [p \in Profiles |-> [revision |-> revision[p], members |-> Valid,
                                overrides |-> overrides[p]]]

(* A commit publishes the corpus of its step.                               *)
LEMMA CommitPublishes ==
  ASSUME TypeOK, SnapshotHolds, ShownInv, NEW w \in Workers, CommitPlan(w),
         NEW p \in Profiles, p = claim[w].profile
  PROVE  Promise!Publish(p)
<1>1. /\ p \in Profiles
      /\ projection' = [projection EXCEPT ![p] = Corpora[p]]
      /\ Corpora' = Corpora
  BY CommitIsCurrent DEF Corpora, TypeOK, Valid
<1>2. Corpora[p].revision = revision[p]
  BY <1>1 DEF Corpora
<1>3. \A q \in Profiles : projection[q].revision <= projection'[q].revision
  BY <1>1, <1>2, ShownTypes DEF ShownInv, ProjectionFollows
<1>. QED
  BY <1>1, <1>3 DEF Promise!Publish, Promise!Later, Corpora

(* A change of the corpus never takes a revision back.                      *)
LEMMA CorpusChangeIsChange ==
  ASSUME TypeOK, EveryRevisionHasJob, CorpusChanges
  PROVE  Promise!Change
<1>1. \A q \in Profiles : revision[q] <= revision'[q]
  BY CorpusChangesBump, BumpJobs
<1>2. UNCHANGED projection
  BY CorpusChangesBump DEF decisionVars
<1>. QED
  BY <1>1, <1>2 DEF Promise!Change, Promise!Later

(* The worker protocol implements Publication: claims, torn reads, retries, *)
(* faults and the races with corpus changes are invisible in what is shown. *)
THEOREM Implements == Spec => ImplementsPublication
<1>1. Init => Promise!Init
  BY ResetTypes DEF Init, CorpusInit, DecisionsInit, Promise!Init, NoRevision
<1>2. TypeOK /\ EveryRevisionHasJob /\ SnapshotHolds /\ ShownInv /\ [Next]_vars
        => [Promise!Next]_<<Corpora, projection>>
  <2>. SUFFICES ASSUME TypeOK, EveryRevisionHasJob, SnapshotHolds, ShownInv, [Next]_vars
                PROVE  [Promise!Next]_<<Corpora, projection>>
    OBVIOUS
  <2>1. CASE CorpusChanges
    BY <2>1, CorpusChangeIsChange DEF Promise!Next
  <2>2. CASE \E w \in Workers : CommitPlan(w)
    <3>1. PICK w \in Workers : CommitPlan(w)
      BY <2>2
    <3>2. PICK p \in Profiles : p = claim[w].profile
      BY DEF TypeOK
    <3>3. Promise!Publish(p)
      BY <3>1, <3>2, CommitPublishes
    <3>. QED
      BY <3>3 DEF Promise!Next
  <2>3. CASE UNCHANGED <<revision, sources, invalid, overrides, runs, projection>>
    BY <2>3 DEF Corpora, Valid
  <2>. QED
    BY <2>1, <2>2, <2>3, StepsThatShow
<1>3. Corpora = [p \in Profiles |-> [revision |-> revision[p], members |-> Valid,
                                     overrides |-> overrides[p]]]
  BY DEF Corpora
<1>. QED
  BY <1>1, <1>2, ShownInit, TypeCorrect, RevisionsStep, SnapshotStep, ShownStep, PTL
     DEF Spec, ImplementsPublication, Promise!Spec, Corpora

(***************************************************************************)
(* A job is decided once.                                                  *)
(***************************************************************************)

(* The attempts of a job are on record, and one that can be claimed has an  *)
(* attempt left.                                                            *)
JobIsSound(job) ==
  /\ job.attempts <= MaxAttempts
  /\ job.recorded = 1 .. IF job.status = "running" THEN job.attempts - 1 ELSE job.attempts
  /\ job.status = "running" => job.attempts > 0
  /\ job.status \in Claimable => job.attempts < MaxAttempts

JobsAreSound == \A p \in Profiles, r \in Revisions : JobIsSound(jobs[p][r])

(* A worker with a claim still owns the job, under the attempt it claimed,  *)
(* unless its plan has committed; the job has then succeeded.               *)
HoldsClaim(w) == Owns(w) /\ claim[w].attempt = Held(w).attempts
ClaimsHold == \A w \in Workers : phase[w] # "idle" =>
  \/ HoldsClaim(w) /\ phase[w] # "applied"
  \/ Held(w).status = "succeeded" /\ phase[w] \in {"applied", "failing"}

(* What makes every job be decided once.                                    *)
LaneInv == JobsAreSound /\ ClaimsHold /\ OneWorkerPerJob /\ RunIffSucceeded

(* The rows a job can be are sound: one just queued, one just claimed, and  *)
(* one an attempt has closed.                                               *)
LEMMA SoundRows ==
  /\ JobIsSound(NoJob) /\ JobIsSound(QueuedJob)
  /\ \A job \in JobType, owner \in Workers \X Nat :
       JobIsSound(job) /\ job.status \in Claimable => JobIsSound(Taken(job, owner))
  /\ \A job \in JobType, status \in Statuses \ {"running"}, err \in Errors :
       /\ JobIsSound(job) /\ job.status = "running"
       /\ status \in Claimable => job.attempts < MaxAttempts
       => JobIsSound(Recorded(job, job.attempts, status, err))
<1>1. JobIsSound(NoJob) /\ JobIsSound(QueuedJob)
  <2>1. \A job \in {NoJob, QueuedJob} :
          job.attempts = 0 /\ job.recorded = {} /\ job.status \in {"none", "queued"}
    BY DEF NoJob, QueuedJob
  <2>2. 1 .. 0 = {}
    OBVIOUS
  <2>3. ASSUME NEW job \in {NoJob, QueuedJob} PROVE JobIsSound(job)
    <3>1. job.attempts = 0 /\ job.status # "running" /\ job.recorded = 1 .. job.attempts
      BY <2>1, <2>2
    <3>. QED
      BY <3>1 DEF JobIsSound
  <2>. QED
    BY <2>3
<1>2. ASSUME NEW job \in JobType, NEW owner \in Workers \X Nat,
             JobIsSound(job), job.status \in Claimable
      PROVE  JobIsSound(Taken(job, owner))
  <2>1. Taken(job, owner).attempts = job.attempts + 1
        /\ Taken(job, owner).status = "running"
        /\ Taken(job, owner).recorded = job.recorded
    BY DEF Taken, JobType
  <2>2. job.attempts \in Nat /\ job.status # "running"
    BY <1>2 DEF JobType, Claimable
  <2>. QED
    BY <1>2, <2>1, <2>2 DEF JobIsSound, Claimable
<1>3. ASSUME NEW job \in JobType, NEW status \in Statuses \ {"running"}, NEW err \in Errors,
             JobIsSound(job), job.status = "running",
             status \in Claimable => job.attempts < MaxAttempts
      PROVE  JobIsSound(Recorded(job, job.attempts, status, err))
  <2>. DEFINE new == Recorded(job, job.attempts, status, err)
  <2>1. /\ new.attempts = job.attempts /\ new.status = status
        /\ new.recorded = job.recorded \cup {job.attempts}
    BY DEF Recorded, JobType
  <2>2. job.attempts \in Nat /\ job.attempts > 0
        /\ job.recorded = 1 .. (job.attempts - 1)
    BY <1>3 DEF JobIsSound, JobType
  <2>3. new.recorded = 1 .. job.attempts
    BY <2>1, <2>2
  <2>. HIDE DEF new
  <2>4. JobIsSound(new)
    BY <1>3, <2>1, <2>2, <2>3 DEF JobIsSound
  <2>. QED
    BY <2>4 DEF new
<1>. QED
  BY <1>1, <1>2, <1>3

(* What a step does to the claims of workers that do not write a job.       *)
ClaimsAreKept == \A v \in Workers : phase'[v] # "idle" =>
  /\ phase[v] # "idle" /\ claim'[v] = claim[v] /\ incarnation'[v] = incarnation[v]
  /\ phase'[v] = "applied" <=> phase[v] = "applied"
  /\ phase[v] = "failing" => phase'[v] = "failing"

(* A worker that reads, or gives up, keeps its claim or drops it.           *)
LEMMA QuietClaims ==
  ASSUME TypeOK, NEW w \in Workers, Quiet(w)
  PROVE  ClaimsAreKept
<1>0. /\ phase \in [Workers -> Phases]
      /\ claim \in [Workers -> [profile : Profiles, target : Revisions, attempt : Nat]]
      /\ incarnation \in [Workers -> Nat]
  BY DEF TypeOK
<1>1. CASE GoIdle(w)
  <2>1. phase'[w] = "idle" /\ \A v \in Workers \ {w} : phase'[v] = phase[v] /\ claim'[v] = claim[v]
    BY <1>0, <1>1 DEF GoIdle, Becomes
  <2>2. \A v \in Workers \ {w} : incarnation'[v] = incarnation[v]
    BY <1>0 DEF Quiet, ReadRevision, FindStale, ReadDispositions, ReadSources, ReadPriors,
         ReadOverrides, WorkFails, RefusePlan, Finalize, FailureRefused, Crash,
         FailureLost, FinalizeFails
  <2>. QED
    BY <2>1, <2>2 DEF ClaimsAreKept
<1>2. CASE ~ GoIdle(w)
  <2>1. /\ UNCHANGED <<claim, incarnation>>
        /\ phase[w] \notin {"idle", "applied", "failing"}
        /\ \E next \in Phases \ {"idle", "applied"} : Becomes(w, next)
    BY <1>2 DEF Quiet, ReadRevision, FindStale, ReadDispositions, ReadSources, ReadPriors,
         ReadOverrides, WorkFails, RefusePlan, Finalize, FailureRefused, Crash,
         FailureLost, FinalizeFails, GoFailing, Phases
  <2>. QED
    BY <1>0, <2>1 DEF ClaimsAreKept, Becomes
<1>. QED
  BY <1>1, <1>2

(* A step that writes no job or run keeps the lane.                         *)
LEMMA FrameKeepsLane ==
  ASSUME TypeOK, LaneInv, UNCHANGED <<jobs, runs>>, ClaimsAreKept
  PROVE  LaneInv'
<1>1. JobsAreSound' /\ RunIffSucceeded'
  BY DEF LaneInv, JobsAreSound, RunIffSucceeded, RunOf
<1>2. ClaimsHold'
  BY DEF LaneInv, ClaimsHold, ClaimsAreKept, HoldsClaim, Owns, Held, Me
<1>3. OneWorkerPerJob'
  BY DEF LaneInv, OneWorkerPerJob, ClaimsAreKept
<1>. QED
  BY <1>1, <1>2, <1>3 DEF LaneInv

(* So does one that only queues jobs that were not there.                   *)
Queueing == \A p \in Profiles, r \in Revisions :
  \/ jobs'[p][r] = jobs[p][r]
  \/ jobs[p][r].status = "none" /\ jobs'[p][r] = QueuedJob

LEMMA QueueingKeepsLane ==
  ASSUME TypeOK, LaneInv, Queueing, UNCHANGED <<runs, phase, claim, incarnation>>
  PROVE  LaneInv'
<1>0. QueuedJob.status = "queued"
  BY DEF QueuedJob, NoJob
<1>1. JobsAreSound'
  BY SoundRows DEF LaneInv, JobsAreSound, Queueing
<1>2. RunIffSucceeded'
  BY <1>0 DEF LaneInv, RunIffSucceeded, RunOf, Queueing
<1>3. ClaimsHold'
  <2>. SUFFICES ASSUME NEW w \in Workers, phase[w] # "idle"
                PROVE  jobs'[claim[w].profile][claim[w].target] = Held(w)
    BY DEF LaneInv, ClaimsHold, HoldsClaim, Owns, Held, Me
  <2>1. claim[w].profile \in Profiles /\ claim[w].target \in Revisions
    BY DEF TypeOK
  <2>2. Held(w).status # "none"
    BY DEF LaneInv, ClaimsHold, HoldsClaim, Owns
  <2>. QED
    BY <2>1, <2>2 DEF Queueing, Held
<1>4. OneWorkerPerJob'
  BY DEF LaneInv, OneWorkerPerJob
<1>. QED
  BY <1>1, <1>2, <1>3, <1>4 DEF LaneInv

(* A step that writes the one job of p and r, which no other worker claims. *)
WritesOnly(p, r) == \A q \in Profiles, s \in Revisions :
  <<q, s>> # <<p, r>> => jobs'[q][s] = jobs[q][s]

(* Taking a job takes one that nobody claims.                               *)
LEMMA TakeKeepsLane ==
  ASSUME TypeOK, LaneInv, NEW w \in Workers, NEW p \in Profiles, NEW r \in Revisions,
         TakeJob(w, p, r), UNCHANGED <<runs, incarnation>>,
         \/ UNCHANGED <<phase, claim>>
         \/ /\ Becomes(w, "claimed")
            /\ claim' = [claim EXCEPT ![w] =
                 [profile |-> p, target |-> r, attempt |-> jobs[p][r].attempts + 1]]
  PROVE  LaneInv'
<1>0. /\ phase \in [Workers -> Phases] /\ phase[w] = "idle"
      /\ claim \in [Workers -> [profile : Profiles, target : Revisions, attempt : Nat]]
      /\ jobs \in [Profiles -> [Revisions -> JobType]]
      /\ incarnation \in [Workers -> Nat]
      /\ jobs[p][r].status \in Claimable
      /\ jobs' = [jobs EXCEPT ![p][r] = Taken(@, Me(w))]
  BY DEF TypeOK, TakeJob
<1>1. /\ jobs'[p][r] = Taken(jobs[p][r], Me(w))
      /\ jobs'[p][r].status = "running" /\ jobs'[p][r].owner = Me(w)
      /\ jobs'[p][r].attempts = jobs[p][r].attempts + 1
      /\ WritesOnly(p, r)
  <2>1. jobs'[p][r] = Taken(jobs[p][r], Me(w)) /\ WritesOnly(p, r)
    BY <1>0 DEF WritesOnly
  <2>. QED
    BY <1>0, <2>1 DEF Taken, JobType
<1>2. JobsAreSound'
  <2>1. JobIsSound(jobs'[p][r])
    BY <1>0, <1>1, SoundRows DEF LaneInv, JobsAreSound, Me
  <2>. QED
    BY <1>1, <2>1 DEF LaneInv, JobsAreSound, WritesOnly
<1>3. RunIffSucceeded'
  BY <1>0, <1>1 DEF LaneInv, RunIffSucceeded, RunOf, WritesOnly, Claimable
<1>4. ASSUME NEW v \in Workers, phase[v] # "idle"
      PROVE  /\ <<claim[v].profile, claim[v].target>> # <<p, r>>
             /\ jobs'[claim[v].profile][claim[v].target] = Held(v)
  <2>1. claim[v].profile \in Profiles /\ claim[v].target \in Revisions
    BY <1>0
  <2>2. Held(v).status \notin Claimable
    BY <1>4 DEF LaneInv, ClaimsHold, HoldsClaim, Owns, Claimable
  <2>. QED
    BY <1>0, <1>1, <2>1, <2>2 DEF Held, WritesOnly
<1>5. \A v \in Workers : v # w => phase'[v] = phase[v] /\ claim'[v] = claim[v]
  BY <1>0 DEF Becomes
<1>6. \/ phase'[w] = "idle"
      \/ /\ phase'[w] = "claimed"
         /\ claim'[w] = [profile |-> p, target |-> r, attempt |-> jobs[p][r].attempts + 1]
  BY <1>0 DEF Becomes
<1>7. ClaimsHold'
  <2>. SUFFICES ASSUME NEW v \in Workers, phase'[v] # "idle"
                PROVE  \/ HoldsClaim(v)' /\ phase'[v] # "applied"
                       \/ Held(v)'.status = "succeeded" /\ phase'[v] \in {"applied", "failing"}
    BY DEF ClaimsHold
  <2>1. CASE v = w
    <3>1. phase'[w] = "claimed" /\ claim'[w].profile = p /\ claim'[w].target = r
          /\ claim'[w].attempt = jobs[p][r].attempts + 1
      BY <1>6, <2>1
    <3>2. Held(v)' = jobs'[p][r] /\ Me(v)' = Me(w)
      BY <2>1, <3>1 DEF Held, Me
    <3>. QED
      BY <1>1, <2>1, <3>1, <3>2 DEF HoldsClaim, Owns
  <2>2. CASE v # w
    <3>1. phase[v] # "idle" /\ phase'[v] = phase[v] /\ claim'[v] = claim[v]
      BY <1>5, <2>2
    <3>2. Held(v)' = Held(v)
      BY <1>4, <3>1 DEF Held
    <3>. QED
      BY <3>1, <3>2 DEF LaneInv, ClaimsHold, HoldsClaim, Owns, Me
  <2>. QED
    BY <2>1, <2>2
<1>8. OneWorkerPerJob'
  BY <1>4, <1>5, <1>6 DEF LaneInv, OneWorkerPerJob
<1>. QED
  BY <1>2, <1>3, <1>7, <1>8 DEF LaneInv

(* An attempt closes the job of its worker, which is nobody else's.         *)
LEMMA ClosingWritesOnly ==
  ASSUME TypeOK, LaneInv, NEW w \in Workers, phase[w] # "idle", Owns(w),
         NEW status \in Statuses \ {"running"}, NEW err \in Errors
  PROVE  LET p == claim[w].profile
             r == claim[w].target
             js == [jobs EXCEPT ![p][r] = Recorded(@, claim[w].attempt, status, err)]
         IN  /\ js[p][r].status = status
             /\ (status \in Claimable => claim[w].attempt < MaxAttempts) => JobIsSound(js[p][r])
             /\ \A q \in Profiles, s \in Revisions :
                  <<q, s>> # <<p, r>> => js[q][s] = jobs[q][s]
<1>. DEFINE p == claim[w].profile
            r == claim[w].target
            js == [jobs EXCEPT ![p][r] = Recorded(@, claim[w].attempt, status, err)]
<1>1. /\ p \in Profiles /\ r \in Revisions
      /\ jobs \in [Profiles -> [Revisions -> JobType]]
      /\ jobs[p][r] \in JobType
  BY DEF TypeOK
<1>2. /\ JobIsSound(jobs[p][r]) /\ jobs[p][r].status = "running"
      /\ claim[w].attempt = jobs[p][r].attempts
  BY <1>1 DEF LaneInv, JobsAreSound, ClaimsHold, HoldsClaim, Owns, Held
<1>3. js[p][r] = Recorded(jobs[p][r], jobs[p][r].attempts, status, err)
  BY <1>1, <1>2
<1>4. js[p][r].status = status
  BY <1>1, <1>3 DEF Recorded, JobType
<1>5. (status \in Claimable => claim[w].attempt < MaxAttempts) => JobIsSound(js[p][r])
  BY <1>1, <1>2, <1>3, SoundRows
<1>6. \A q \in Profiles, s \in Revisions : <<q, s>> # <<p, r>> => js[q][s] = jobs[q][s]
  BY <1>1
<1>. QED
  BY <1>4, <1>5, <1>6

(* The commit of a plan succeeds the worker's job and records its one run.  *)
LEMMA CommitKeepsLane ==
  ASSUME TypeOK, LaneInv, NEW w \in Workers, CommitPlan(w), UNCHANGED <<claim, incarnation>>,
         Becomes(w, "applied") \/ Becomes(w, "failing")
  PROVE  LaneInv'
<1>. DEFINE p == claim[w].profile
            r == claim[w].target
            run == [profile |-> p, revision |-> r, input |-> seen[w]]
<1>0. /\ phase \in [Workers -> Phases]
      /\ p \in Profiles /\ r \in Revisions
      /\ phase[w] = "planned" /\ Owns(w) /\ RunOf(p, r) = {}
      /\ jobs' = [jobs EXCEPT ![p][r] = Recorded(@, claim[w].attempt, "succeeded", "none")]
      /\ runs' = runs \cup {run}
  BY DEF TypeOK, CommitPlan, PlanApplies, HasNoRun
<1>1. /\ jobs'[p][r].status = "succeeded" /\ JobIsSound(jobs'[p][r])
      /\ WritesOnly(p, r)
  <2>1. "succeeded" \in Statuses \ {"running"} /\ "none" \in Errors
        /\ "succeeded" \notin Claimable
    BY DEF Statuses, Terminal, Errors, Claimable
  <2>. QED
    BY <1>0, <2>1, ClosingWritesOnly DEF WritesOnly
<1>2. JobsAreSound'
  BY <1>1 DEF LaneInv, JobsAreSound, WritesOnly
<1>3. RunIffSucceeded'
  <2>. SUFFICES ASSUME NEW q \in Profiles, NEW s \in Revisions
                PROVE  /\ jobs'[q][s].status = "succeeded" <=> RunOf(q, s)' # {}
                       /\ \A x, y \in RunOf(q, s)' : x = y
    BY DEF RunIffSucceeded
  <2>1. CASE <<q, s>> = <<p, r>>
    <3>1. RunOf(q, s)' = {run}
      BY <1>0, <2>1 DEF RunOf
    <3>. QED
      BY <1>1, <2>1, <3>1
  <2>2. CASE <<q, s>> # <<p, r>>
    <3>1. RunOf(q, s)' = RunOf(q, s)
      BY <1>0, <2>2 DEF RunOf
    <3>. QED
      BY <1>1, <2>2, <3>1 DEF LaneInv, RunIffSucceeded, WritesOnly
  <2>. QED
    BY <2>1, <2>2
<1>4. phase'[w] \in {"applied", "failing"}
      /\ \A v \in Workers \ {w} : phase'[v] = phase[v]
  BY <1>0 DEF Becomes
<1>5. OneWorkerPerJob'
  BY <1>0, <1>4 DEF LaneInv, OneWorkerPerJob
<1>6. ClaimsHold'
  <2>. SUFFICES ASSUME NEW v \in Workers, phase'[v] # "idle"
                PROVE  \/ HoldsClaim(v)' /\ phase'[v] # "applied"
                       \/ Held(v)'.status = "succeeded" /\ phase'[v] \in {"applied", "failing"}
    BY DEF ClaimsHold
  <2>1. CASE v = w
    BY <1>1, <1>4, <2>1 DEF Held
  <2>2. CASE v # w
    <3>1. phase[v] # "idle" /\ phase'[v] = phase[v]
      BY <1>4, <2>2
    <3>2. <<claim[v].profile, claim[v].target>> # <<p, r>>
      BY <1>0, <2>2, <3>1 DEF LaneInv, OneWorkerPerJob
    <3>3. claim[v].profile \in Profiles /\ claim[v].target \in Revisions
      BY DEF TypeOK
    <3>4. Held(v)' = Held(v)
      BY <1>1, <3>2, <3>3 DEF Held, WritesOnly
    <3>. QED
      BY <3>1, <3>4 DEF LaneInv, ClaimsHold, HoldsClaim, Owns, Me
  <2>. QED
    BY <2>1, <2>2
<1>. QED
  BY <1>2, <1>3, <1>5, <1>6 DEF LaneInv

(* A failure that is saved closes the worker's job and queues the one of    *)
(* the current revision.                                                    *)
LEMMA SaveFailureKeepsLane ==
  ASSUME TypeOK, LaneInv, NEW w \in Workers, SaveFailure(w)
  PROVE  LaneInv'
<1>. DEFINE p == claim[w].profile
            r == claim[w].target
            status == IF Retries(w) THEN "retryable_failed" ELSE "permanently_failed"
            failed == [jobs EXCEPT ![p][r] =
                         Recorded(@, claim[w].attempt, status, error[w])]
<1>0. /\ phase \in [Workers -> Phases]
      /\ p \in Profiles /\ r \in Revisions /\ revision[p] \in Revisions
      /\ error[w] \in Errors
      /\ phase[w] = "failing" /\ Owns(w)
      /\ jobs' = IF error[w] = "stale" THEN WithCurrentRevision(failed, p) ELSE failed
      /\ UNCHANGED <<runs, incarnation>>
      /\ GoIdle(w)
  BY DEF TypeOK, SaveFailure, FailureCommits
<1>1. /\ failed[p][r].status = status /\ JobIsSound(failed[p][r])
      /\ \A q \in Profiles, s \in Revisions :
           <<q, s>> # <<p, r>> => failed[q][s] = jobs[q][s]
  <2>1. /\ status \in Statuses \ {"running"}
        /\ status \in Claimable => claim[w].attempt < MaxAttempts
    BY DEF Statuses, Terminal, Claimable, Retries
  <2>. HIDE DEF status
  <2>2. /\ failed[p][r].status = status
        /\ (status \in Claimable => claim[w].attempt < MaxAttempts) => JobIsSound(failed[p][r])
        /\ \A q \in Profiles, s \in Revisions :
             <<q, s>> # <<p, r>> => failed[q][s] = jobs[q][s]
    <3>1. phase[w] # "idle" /\ Owns(w) /\ error[w] \in Errors
      BY <1>0
    <3>. QED
      BY <2>1, <3>1, ClosingWritesOnly
  <2>. QED
    BY <2>1, <2>2
<1>2. failed \in [Profiles -> [Revisions -> JobType]]
  <2>1. status \in Statuses
    BY DEF Statuses, Terminal, Claimable
  <2>. HIDE DEF status
  <2>. QED
    BY <1>0, <2>1, ClosedType
<1>. status \in {"retryable_failed", "permanently_failed"}
  OBVIOUS
<1>. HIDE DEF failed, status
<1>3. \A q \in Profiles, s \in Revisions :
        \/ jobs'[q][s] = failed[q][s]
        \/ failed[q][s].status = "none" /\ jobs'[q][s] = QueuedJob
  BY <1>0, <1>2 DEF WithCurrentRevision, Enqueued
<1>4. jobs'[p][r] = failed[p][r]
  BY <1>0, <1>1, <1>3
<1>5. JobsAreSound'
  <2>1. \A q \in Profiles, s \in Revisions : JobIsSound(failed[q][s])
    BY <1>1 DEF LaneInv, JobsAreSound
  <2>. QED
    BY <1>3, <2>1, SoundRows DEF JobsAreSound
<1>6. RunIffSucceeded'
  <2>. SUFFICES ASSUME NEW q \in Profiles, NEW s \in Revisions
                PROVE  jobs'[q][s].status = "succeeded" <=> jobs[q][s].status = "succeeded"
    BY <1>0 DEF LaneInv, RunIffSucceeded, RunOf
  <2>1. CASE <<q, s>> = <<p, r>>
    BY <1>0, <1>1, <1>4, <2>1 DEF Owns, Held
  <2>2. CASE <<q, s>> # <<p, r>>
    BY <1>1, <1>3, <2>2 DEF QueuedJob, NoJob
  <2>. QED
    BY <2>1, <2>2
<1>7. phase'[w] = "idle"
      /\ \A v \in Workers \ {w} : phase'[v] = phase[v] /\ claim'[v] = claim[v]
  BY <1>0 DEF GoIdle, Becomes
<1>8. OneWorkerPerJob'
  BY <1>0, <1>7 DEF LaneInv, OneWorkerPerJob
<1>9. ClaimsHold'
  <2>. SUFFICES ASSUME NEW v \in Workers, v # w, phase[v] # "idle"
                PROVE  Held(v)' = Held(v)
    BY <1>0, <1>7 DEF LaneInv, ClaimsHold, HoldsClaim, Owns, Me
  <2>1. <<claim[v].profile, claim[v].target>> # <<p, r>>
    BY <1>0 DEF LaneInv, OneWorkerPerJob
  <2>2. claim[v].profile \in Profiles /\ claim[v].target \in Revisions
    BY DEF TypeOK
  <2>3. Held(v).status # "none"
    BY DEF LaneInv, ClaimsHold, HoldsClaim, Owns
  <2>. QED
    BY <1>1, <1>3, <1>7, <2>1, <2>2, <2>3 DEF Held
<1>. QED
  BY <1>5, <1>6, <1>8, <1>9 DEF LaneInv

(* A transaction of the web application or a script only queues jobs.       *)
LEMMA ApplicationQueues ==
  ASSUME TypeOK, CorpusChanges \/ \E s \in Searches :
                   EndImports(s) \/ \E raw \in Raws : ImportListing(s, raw)
  PROVE  Queueing /\ UNCHANGED <<runs, phase, claim, error, incarnation>>
<1>0. /\ jobs \in [Profiles -> [Revisions -> JobType]]
      /\ revision \in [Profiles -> Revisions]
  BY DEF TypeOK
<1>1. ASSUME CorpusChanges
      PROVE  Queueing /\ UNCHANGED <<runs, phase, claim, error, incarnation>>
  <2>1. PICK p \in Profiles : Bump(p)
    BY <1>1, CorpusChangesBump
  <2>2. revision[p] + 1 \in Revisions
    BY <1>0, <2>1 DEF Bump, Revisions
  <2>3. jobs' = [jobs EXCEPT ![p][revision[p] + 1] = Enqueued(@)]
    BY <2>1 DEF Bump
  <2>4. Queueing
    <3>. DEFINE r == revision[p] + 1
    <3>1. /\ jobs'[p][r] = Enqueued(jobs[p][r])
          /\ \A q \in Profiles, s \in Revisions : <<q, s>> # <<p, r>> => jobs'[q][s] = jobs[q][s]
      BY <1>0, <2>2, <2>3
    <3>. HIDE DEF r
    <3>. QED
      BY <3>1 DEF Queueing, Enqueued
  <2>. QED
    BY <1>1, <2>4, CorpusChangesBump DEF decisionVars
<1>2. ASSUME NEW s \in Searches, EndImports(s)
      PROVE  Queueing /\ UNCHANGED <<runs, phase, claim, error, incarnation>>
  <2>. DEFINE p == SearchProfile[s]
  <2>1. p \in Profiles /\ revision[p] \in Revisions
    BY <1>0
  <2>2. jobs' = jobs \/ jobs' = WithCurrentRevision(jobs, p)
    BY <1>2 DEF EndImports
  <2>3. Queueing
    <3>. DEFINE r == revision[p]
    <3>1. /\ jobs'[p][r] = jobs[p][r] \/ jobs'[p][r] = Enqueued(jobs[p][r])
          /\ \A q \in Profiles, t \in Revisions : <<q, t>> # <<p, r>> => jobs'[q][t] = jobs[q][t]
      BY <1>0, <2>1, <2>2 DEF WithCurrentRevision
    <3>. HIDE DEF p, r
    <3>. QED
      BY <3>1 DEF Queueing, Enqueued
  <2>. QED
    BY <1>2, <2>3 DEF EndImports
<1>3. ASSUME NEW s \in Searches, NEW raw \in Raws, ImportListing(s, raw)
      PROVE  Queueing /\ UNCHANGED <<runs, phase, claim, error, incarnation>>
  <2>1. UNCHANGED <<jobs, runs, phase, claim, error, incarnation>>
    BY <1>3 DEF ImportListing, corpusVars
  <2>. QED
    BY <2>1 DEF Queueing
<1>. QED
  BY <1>1, <1>2, <1>3

(* Every step keeps every job decided once.                                 *)
LEMMA LaneStep ==
  ASSUME TypeOK, LaneInv, [Next]_vars
  PROVE  LaneInv'
<1>1. ASSUME NEW w \in Workers, WorkerStep(w) \/ WorkFails(w) \/ FaultStep(w)
      PROVE  LaneInv'
  <2>1. CASE Quiet(w)
    BY <2>1, QuietKeepsClaims, QuietClaims, FrameKeepsLane
  <2>2. CASE Claim(w)
    BY <2>2, TakeKeepsLane DEF Claim
  <2>3. CASE ClaimReplyLost(w)
    BY <2>3, TakeKeepsLane DEF ClaimReplyLost
  <2>4. CASE ApplyPlan(w) \/ ApplyReplyLost(w)
    BY <2>4, CommitKeepsLane DEF ApplyPlan, ApplyReplyLost, GoFailing
  <2>5. CASE SaveFailure(w)
    BY <2>5, SaveFailureKeepsLane
  <2>. QED
    BY <1>1, <2>1, <2>2, <2>3, <2>4, <2>5, WorkerSteps
<1>2. ASSUME CorpusChanges \/ \E s \in Searches :
               EndImports(s) \/ \E raw \in Raws : ImportListing(s, raw)
      PROVE  LaneInv'
  BY <1>2, ApplicationQueues, QueueingKeepsLane
<1>3. CASE UNCHANGED <<corpusVars, decisionVars>>
  <2>1. UNCHANGED <<jobs, runs>> /\ ClaimsAreKept
    BY <1>3 DEF corpusVars, decisionVars, ClaimsAreKept
  <2>. QED
    BY <2>1, FrameKeepsLane
<1>. QED
  BY <1>1, <1>2, <1>3, Steps

(* At first nothing is queued.                                              *)
LEMMA LaneInit ==
  ASSUME Init
  PROVE  LaneInv
<1>1. /\ \A p \in Profiles, r \in Revisions : jobs[p][r] = NoJob
      /\ runs = {} /\ \A w \in Workers : phase[w] = "idle"
  BY DEF Init, CorpusInit, DecisionsInit
<1>2. NoJob.status # "succeeded"
  BY DEF NoJob
<1>. QED
  BY <1>1, <1>2, SoundRows
     DEF LaneInv, JobsAreSound, ClaimsHold, OneWorkerPerJob, RunIffSucceeded, RunOf

(* A stale read is of a revision the corpus has left, and no job from the   *)
(* current revision on was failed as stale.                                 *)
StaleIsBehind ==
  /\ \A p \in Profiles, r \in Revisions : r >= revision[p] => jobs[p][r].error # "stale"
  /\ \A w \in Workers : phase[w] = "failing" /\ error[w] = "stale" =>
       claim[w].target < revision[claim[w].profile]

(* A job that ends at a target keeps current jobs free of stale errors.     *)
LEMMA StaleStep ==
  ASSUME TypeOK, TypeOK', EveryRevisionHasJob, ClaimsFollow, StaleIsBehind, [Next]_vars
  PROVE  StaleIsBehind'
<1>0. /\ phase \in [Workers -> Phases]
      /\ error \in [Workers -> Errors]
      /\ claim \in [Workers -> [profile : Profiles, target : Revisions, attempt : Nat]]
      /\ jobs \in [Profiles -> [Revisions -> JobType]]
      /\ revision \in [Profiles -> Revisions] /\ revision' \in [Profiles -> Revisions]
  BY DEF TypeOK
<1>. DEFINE JobsFresh == \A p \in Profiles, r \in Revisions :
              r >= revision[p] => jobs[p][r].error # "stale"
            FailuresLate == \A w \in Workers : phase[w] = "failing" /\ error[w] = "stale" =>
              claim[w].target < revision[claim[w].profile]
<1>1. ASSUME NEW w \in Workers, Quiet(w) PROVE StaleIsBehind'
  <2>1. UNCHANGED <<revision, jobs>>
    BY <1>1, QuietKeepsClaims
  <2>2. ASSUME NEW v \in Workers, phase'[v] = "failing", error'[v] = "stale"
        PROVE  claim'[v].target < revision[claim'[v].profile]
    <3>1. phase[v] # "idle" /\ claim'[v] = claim[v]
      BY <1>1, <2>2, QuietKeepsClaims
    <3>2. \/ phase[v] = "failing" /\ error[v] = "stale"
          \/ ~ IsAtTarget(v)
      BY <1>0, <1>1, <2>2
         DEF Quiet, ReadRevision, FindStale, ReadDispositions, ReadSources, ReadPriors,
             ReadOverrides, WorkFails, RefusePlan, Finalize, FailureRefused, Crash,
             FailureLost, FinalizeFails, GoFailing, GoIdle, Becomes
    <3>3. claim[v].target <= revision[claim[v].profile]
          /\ claim[v].target \in Int /\ revision[claim[v].profile] \in Int
      BY <1>0, <3>1 DEF ClaimsFollow, Revisions
    <3>. QED
      BY <3>1, <3>2, <3>3 DEF IsAtTarget, StaleIsBehind
  <2>. QED
    BY <2>1, <2>2 DEF StaleIsBehind
<1>2. ASSUME NEW w \in Workers, Claim(w) \/ ClaimReplyLost(w) PROVE StaleIsBehind'
  <2>1. PICK p \in Profiles, r \in Revisions : TakeJob(w, p, r)
    BY <1>2 DEF Claim, ClaimReplyLost
  <2>2. /\ jobs' = [jobs EXCEPT ![p][r] = Taken(@, Me(w))]
        /\ UNCHANGED <<revision, error>>
    BY <1>2, <2>1 DEF TakeJob, Claim, ClaimReplyLost
  <2>3. Taken(jobs[p][r], Me(w)).error = "none"
    BY <1>0 DEF Taken, JobType
  <2>4. \A q \in Profiles, s \in Revisions :
          jobs'[q][s] = jobs[q][s] \/ jobs'[q][s].error = "none"
    BY <1>0, <2>2, <2>3
  <2>5. \A v \in Workers : phase'[v] = "failing" => phase[v] = "failing" /\ claim'[v] = claim[v]
    BY <1>0, <1>2 DEF Claim, ClaimReplyLost, Becomes
  <2>. QED
    BY <2>2, <2>4, <2>5 DEF StaleIsBehind
<1>3. ASSUME NEW w \in Workers, ApplyPlan(w) \/ ApplyReplyLost(w) PROVE StaleIsBehind'
  <2>. DEFINE p == claim[w].profile
              r == claim[w].target
  <2>1. /\ jobs' = [jobs EXCEPT ![p][r] = Recorded(@, claim[w].attempt, "succeeded", "none")]
        /\ UNCHANGED <<revision, claim>>
        /\ p \in Profiles /\ r \in Revisions
    BY <1>0, <1>3 DEF ApplyPlan, ApplyReplyLost, CommitPlan
  <2>2. Recorded(jobs[p][r], claim[w].attempt, "succeeded", "none").error = "none"
    BY <1>0, <2>1, RecordedError
  <2>3. \A q \in Profiles, s \in Revisions :
          jobs'[q][s] = jobs[q][s] \/ jobs'[q][s].error = "none"
    BY <1>0, <2>1, <2>2
  <2>4. \A v \in Workers : phase'[v] = "failing" /\ error'[v] = "stale" =>
          phase[v] = "failing" /\ error[v] = "stale"
    BY <1>0, <1>3 DEF ApplyPlan, ApplyReplyLost, GoFailing, Becomes
  <2>. HIDE DEF p, r
  <2>5. \A q \in Profiles, s \in Revisions :
          s >= revision'[q] => jobs'[q][s].error # "stale"
    BY <2>1, <2>3 DEF StaleIsBehind
  <2>6. \A v \in Workers : phase'[v] = "failing" /\ error'[v] = "stale" =>
          claim'[v].target < revision'[claim'[v].profile]
    BY <2>1, <2>4 DEF StaleIsBehind
  <2>. QED
    BY <2>5, <2>6 DEF StaleIsBehind
<1>4. ASSUME NEW w \in Workers, SaveFailure(w) PROVE StaleIsBehind'
  <2>. DEFINE p == claim[w].profile
              r == claim[w].target
              status == IF Retries(w) THEN "retryable_failed" ELSE "permanently_failed"
              failed == [jobs EXCEPT ![p][r] =
                           Recorded(@, claim[w].attempt, status, error[w])]
  <2>1. /\ jobs' = IF error[w] = "stale" THEN WithCurrentRevision(failed, p) ELSE failed
        /\ UNCHANGED revision
        /\ p \in Profiles /\ r \in Revisions /\ revision[p] \in Revisions
        /\ phase[w] = "failing" /\ GoIdle(w)
    BY <1>0, <1>4 DEF SaveFailure
  <2>2. /\ failed[p][r].error = error[w]
        /\ \A q \in Profiles, s \in Revisions :
             <<q, s>> # <<p, r>> => failed[q][s] = jobs[q][s]
    <3>1. failed[p][r] = Recorded(jobs[p][r], claim[w].attempt, status, error[w])
      BY <1>0, <2>1
    <3>2. jobs[p][r] \in JobType
      BY <1>0, <2>1
    <3>3. failed[p][r].error = error[w]
      BY <3>1, <3>2, RecordedError
    <3>4. \A q \in Profiles, s \in Revisions :
             <<q, s>> # <<p, r>> => failed[q][s] = jobs[q][s]
      BY <1>0, <2>1
    <3>. QED
      BY <3>3, <3>4
  <2>3. failed \in [Profiles -> [Revisions -> JobType]]
    <3>1. status \in Statuses /\ error[w] \in Errors
      BY <1>0 DEF Statuses, Terminal, Claimable
    <3>. HIDE DEF status
    <3>. QED
      BY <3>1, ClosedType
  <2>. HIDE DEF failed
  <2>4. \A q \in Profiles, s \in Revisions :
          jobs'[q][s] = failed[q][s] \/ jobs'[q][s] = QueuedJob
    BY <2>1, <2>3 DEF WithCurrentRevision, Enqueued
  <2>5. QueuedJob.error = "none"
    BY DEF QueuedJob, NoJob
  <2>6. error[w] = "stale" => r < revision[p]
    BY <2>1 DEF StaleIsBehind
  <2>7. \A q \in Profiles, s \in Revisions :
          s >= revision[q] => jobs'[q][s].error # "stale"
    <3>. TAKE q \in Profiles, s \in Revisions
    <3>1. CASE <<q, s>> = <<p, r>>
      <4>1. q = p /\ s = r
        BY <3>1
      <4>. HIDE DEF p, r
      <4>2. jobs'[q][s].error = error[w] \/ jobs'[q][s].error = "none"
        BY <2>2, <2>4, <2>5, <4>1
      <4>3. s \in Int /\ revision[q] \in Int
        BY <1>0 DEF Revisions
      <4>. QED
        BY <2>6, <4>1, <4>2, <4>3
    <3>2. CASE <<q, s>> # <<p, r>>
      BY <2>2, <2>4, <2>5, <3>2 DEF StaleIsBehind
    <3>. QED
      BY <3>1, <3>2
  <2>8. \A v \in Workers : phase'[v] = "failing" =>
          phase[v] = "failing" /\ claim'[v] = claim[v] /\ error'[v] = error[v]
    BY <1>0, <2>1 DEF GoIdle, Becomes
  <2>. QED
    BY <2>1, <2>7, <2>8 DEF StaleIsBehind
<1>5. ASSUME CorpusChanges \/ \E s \in Searches :
               EndImports(s) \/ \E raw \in Raws : ImportListing(s, raw)
      PROVE  StaleIsBehind'
  <2>1. Queueing /\ UNCHANGED <<phase, claim, error>>
    BY <1>5, ApplicationQueues
  <2>2. \A q \in Profiles : revision[q] <= revision'[q]
    <3>1. CASE CorpusChanges
      BY <3>1, CorpusChangesBump, BumpJobs
    <3>2. CASE UNCHANGED revision
      BY <1>0, <3>2 DEF Revisions
    <3>. QED
      BY <1>5, <3>1, <3>2 DEF EndImports, ImportListing, corpusVars
  <2>3. QueuedJob.error = "none"
    BY DEF QueuedJob, NoJob
  <2>4. \A q \in Profiles, s \in Revisions :
          s >= revision'[q] => jobs'[q][s].error # "stale"
    <3>. TAKE q \in Profiles, s \in Revisions
    <3>1. s >= revision'[q] => s >= revision[q]
      BY <1>0, <2>2 DEF Revisions
    <3>. QED
      BY <2>1, <2>3, <3>1 DEF Queueing, StaleIsBehind
  <2>5. ASSUME NEW v \in Workers, phase[v] = "failing", error[v] = "stale"
        PROVE  claim[v].target < revision'[claim[v].profile]
    <3>. DEFINE q == claim[v].profile
    <3>1. q \in Profiles /\ claim[v].target \in Revisions
      BY <1>0
    <3>2. claim[v].target < revision[q] /\ revision[q] <= revision'[q]
      BY <2>2, <2>5, <3>1 DEF StaleIsBehind
    <3>3. claim[v].target \in Int /\ revision[q] \in Int /\ revision'[q] \in Int
      BY <1>0, <3>1 DEF Revisions
    <3>. HIDE DEF q
    <3>. QED
      BY <3>2, <3>3 DEF q
  <2>. QED
    BY <2>1, <2>4, <2>5 DEF StaleIsBehind
<1>6. CASE UNCHANGED <<corpusVars, decisionVars>>
  BY <1>6 DEF StaleIsBehind, corpusVars, decisionVars
<1>. QED
  BY <1>1, <1>2, <1>3, <1>4, <1>5, <1>6, WorkerSteps, Steps

(* The three facts a claim rests on, from the lane's invariant.             *)
LEMMA LaneFacts ==
  ASSUME TypeOK, LaneInv
  PROVE  OneWorkerPerJob /\ ClaimIsUndecided /\ RunIffSucceeded /\ AttemptsAreRecorded
<1>1. ClaimIsUndecided
  <2>. SUFFICES ASSUME NEW w \in Workers, phase[w] \notin {"idle", "applied", "failing"}
                PROVE  Owns(w) /\ RunOf(claim[w].profile, claim[w].target) = {}
    BY DEF ClaimIsUndecided
  <2>1. Owns(w) /\ Held(w).status = "running"
    BY DEF LaneInv, ClaimsHold, HoldsClaim, Owns
  <2>2. claim[w].profile \in Profiles /\ claim[w].target \in Revisions
    BY DEF TypeOK
  <2>. QED
    BY <2>1, <2>2 DEF LaneInv, RunIffSucceeded, Held
<1>2. AttemptsAreRecorded
  BY DEF LaneInv, JobsAreSound, JobIsSound, AttemptsAreRecorded
<1>. QED
  BY <1>1, <1>2 DEF LaneInv

(* Two workers never hold the same job, a worker that has yet to apply its  *)
(* plan still owns its job, and a job has succeeded if and only if one run  *)
(* was recorded for it, also when the reply of the commit was lost.         *)
THEOREM ClaimsAreUndecided == Spec => [](OneWorkerPerJob /\ ClaimIsUndecided /\ RunIffSucceeded)
BY TypeCorrect, LaneInit, LaneStep, LaneFacts, PTL DEF Spec

(* The attempts of a job are all on record, and the job of the current      *)
(* revision is never given up as stale.                                     *)
THEOREM AttemptsOnRecord == Spec => [](AttemptsAreRecorded /\ CurrentJobIsNeverStale)
<1>1. Init => EveryRevisionHasJob /\ ClaimsFollow /\ StaleIsBehind
  BY ShownInit DEF StaleIsBehind, Init, CorpusInit, DecisionsInit, NoJob
<1>2. TypeOK /\ StaleIsBehind => CurrentJobIsNeverStale
  BY DEF TypeOK, StaleIsBehind, CurrentJobIsNeverStale, Revisions
<1>. QED
  BY <1>1, <1>2, TypeCorrect, LaneInit, LaneStep, LaneFacts, RevisionsStep, StaleStep, PTL
     DEF Spec

(* A worker that reported an error, or died, leaves no trace but its job: a *)
(* finished job stays as it is.                                             *)
THEOREM SuccessStays == Spec => SuccessIsFinal
<1>. DEFINE Final == \A p \in Profiles, r \in Revisions :
              jobs[p][r].status \in Terminal => jobs'[p][r] = jobs[p][r]
<1>1. ASSUME TypeOK, LaneInv, [Next]_vars PROVE Final
  <2>1. ASSUME NEW w \in Workers, WorkerStep(w) \/ WorkFails(w) \/ FaultStep(w)
        PROVE  Final
    <3>. DEFINE p == claim[w].profile
                r == claim[w].target
    <3>0. /\ jobs \in [Profiles -> [Revisions -> JobType]]
          /\ p \in Profiles /\ r \in Revisions /\ revision[p] \in Revisions
      BY <1>1 DEF TypeOK
    <3>1. CASE Quiet(w)
      BY <1>1, <3>1, QuietKeepsClaims
    <3>2. CASE Claim(w) \/ ClaimReplyLost(w)
      <4>1. PICK q \in Profiles, s \in Revisions : TakeJob(w, q, s)
        BY <3>2 DEF Claim, ClaimReplyLost
      <4>. QED
        BY <3>0, <4>1 DEF TakeJob, Claimable, Terminal
    <3>3. CASE ApplyPlan(w) \/ ApplyReplyLost(w)
      <4>1. CommitPlan(w) /\ jobs[p][r].status = "running"
        BY <3>3 DEF ApplyPlan, ApplyReplyLost, CommitPlan, PlanApplies, Owns, Held
      <4>. QED
        BY <3>0, <4>1 DEF CommitPlan, Terminal
    <3>4. CASE SaveFailure(w)
      <4>. DEFINE status == IF Retries(w) THEN "retryable_failed" ELSE "permanently_failed"
                  failed == [jobs EXCEPT ![p][r] =
                               Recorded(@, claim[w].attempt, status, error[w])]
      <4>1. /\ jobs[p][r].status = "running"
            /\ jobs' = IF error[w] = "stale" THEN WithCurrentRevision(failed, p) ELSE failed
        BY <3>4 DEF SaveFailure, FailureCommits, Owns, Held
      <4>2. failed \in [Profiles -> [Revisions -> JobType]]
        <5>1. status \in Statuses /\ error[w] \in Errors
          BY <1>1 DEF TypeOK, Statuses, Terminal, Claimable
        <5>. HIDE DEF status
        <5>. QED
          BY <1>1, <5>1, ClosedType
      <4>. HIDE DEF status
      <4>5. \A q \in Profiles, s \in Revisions :
              jobs[q][s].status \in Terminal => failed[q][s] = jobs[q][s]
        BY <3>0, <4>1 DEF Terminal
      <4>. HIDE DEF failed
      <4>. DEFINE now == revision[p]
      <4>3. \/ jobs' = failed
            \/ /\ jobs'[p][now] = Enqueued(failed[p][now])
               /\ \A q \in Profiles, s \in Revisions :
                    <<q, s>> # <<p, now>> => jobs'[q][s] = failed[q][s]
        BY <3>0, <4>1, <4>2 DEF WithCurrentRevision
      <4>. HIDE DEF now
      <4>4. \A q \in Profiles, s \in Revisions :
              failed[q][s].status \in Terminal => jobs'[q][s] = failed[q][s]
        BY <4>3 DEF Enqueued, Terminal
      <4>. QED
        BY <4>4, <4>5
    <3>. QED
      BY <2>1, <3>1, <3>2, <3>3, <3>4, WorkerSteps
  <2>2. ASSUME CorpusChanges \/ \E s \in Searches :
                 EndImports(s) \/ \E raw \in Raws : ImportListing(s, raw)
        PROVE  Final
    BY <1>1, <2>2, ApplicationQueues DEF Queueing, Terminal
  <2>3. CASE UNCHANGED <<corpusVars, decisionVars>>
    BY <2>3 DEF corpusVars
  <2>. QED
    BY <1>1, <2>1, <2>2, <2>3, Steps
<1>2. TypeOK /\ LaneInv /\ [Next]_vars => [Final]_vars
  BY <1>1
<1>. QED
  BY <1>2, TypeCorrect, LaneInit, LaneStep, PTL DEF Spec, SuccessIsFinal

(* Whatever crashes and lost replies do to the workers, a job has one of    *)
(* them at a time, is claimed only while undecided, records each attempt,   *)
(* has a run exactly when it succeeded, and never leaves success.           *)
THEOREM JobsDecidedOnce == Spec => JobsAreDecidedOnce
BY ClaimsAreUndecided, AttemptsOnRecord, SuccessStays, PTL DEF JobsAreDecidedOnce

(***************************************************************************)
(* Profiles and searches.                                                  *)
(***************************************************************************)

(* A source is a member of one profile's canonicals at most.                *)
THEOREM SourcesAreShared == Spec => []SourceInOneProjection
<1>1. Init => SourceInOneProjection
  BY DEF Init, DecisionsInit, SourceInOneProjection
<1>2. TypeOK /\ SourceInOneProjection /\ [Next]_vars => SourceInOneProjection'
  <2>. SUFFICES ASSUME TypeOK, SourceInOneProjection, [Next]_vars
                PROVE  SourceInOneProjection'
    OBVIOUS
  <2>1. ASSUME NEW w \in Workers, CommitPlan(w) PROVE SourceInOneProjection'
    <3>. DEFINE p == claim[w].profile
    <3>1. /\ projection'[p].members = Members(seen[w])
          /\ \A q \in Profiles \ {p} : projection'[q] = projection[q]
          /\ \A q \in Profiles \ {p} : projection[q].members \cap Members(seen[w]) = {}
      BY <2>1 DEF TypeOK, CommitPlan, PlanApplies, TakesFreeSources
    <3>. QED
      BY <3>1 DEF SourceInOneProjection
  <2>2. CASE UNCHANGED projection
    BY <2>2 DEF SourceInOneProjection
  <2>. QED
    BY <2>1, <2>2, StepsThatShow
<1>. QED
  BY <1>1, <1>2, TypeCorrect, PTL DEF Spec

(* A completed live search names a revision that was decided.               *)
THEOREM CompletionsNameRuns == Spec => []CompletionNamesARun
<1>1. Init => CompletionNamesARun
  BY DEF Init, DecisionsInit, CompletionNamesARun
<1>2. TypeOK /\ LaneInv /\ CompletionNamesARun /\ [Next]_vars => CompletionNamesARun'
  <2>. SUFFICES ASSUME TypeOK, LaneInv, CompletionNamesARun, [Next]_vars
                PROVE  CompletionNamesARun'
    OBVIOUS
  <2>1. runs \subseteq runs'
    BY StepsThatShow DEF CommitPlan
  <2>2. ASSUME UNCHANGED search PROVE CompletionNamesARun'
    BY <2>1, <2>2 DEF CompletionNamesARun, RunOf
  <2>3. ASSUME NEW w \in Workers, Finalize(w) PROVE CompletionNamesARun'
    <3>1. RunOf(claim[w].profile, claim[w].target) # {}
      BY <2>3 DEF Finalize, LaneInv, ClaimsHold, RunIffSucceeded, TypeOK, Held
    <3>2. search' = Finalized(claim[w].profile, claim[w].target) /\ UNCHANGED runs
      BY <2>3 DEF Finalize
    <3>3. ASSUME NEW s \in Searches, NEW x \in search'[s].completed
          PROVE  RunOf(SearchProfile[s], x) # {}
      <4>1. \/ x \in search[s].completed
            \/ SearchProfile[s] = claim[w].profile /\ x = claim[w].target
        BY <3>2, <3>3 DEF Finalized, TypeOK
      <4>. QED
        BY <3>1, <4>1 DEF CompletionNamesARun
    <3>. QED
      BY <3>2, <3>3 DEF CompletionNamesARun, RunOf
  <2>4. ASSUME NEW s \in Searches, EndImports(s) PROVE CompletionNamesARun'
    <3>. DEFINE p == SearchProfile[s]
    <3>1. p \in Profiles /\ revision[p] \in Revisions /\ UNCHANGED runs
      BY <2>4 DEF TypeOK, EndImports
    <3>2. AlreadyDecided(p) => RunOf(p, revision[p]) # {}
      BY <3>1 DEF AlreadyDecided, LaneInv, RunIffSucceeded
    <3>3. ASSUME NEW t \in Searches, NEW x \in search'[t].completed
          PROVE  RunOf(SearchProfile[t], x) # {}
      <4>1. \/ x \in search[t].completed
            \/ t = s /\ x = revision[p] /\ AlreadyDecided(p)
        BY <2>4, <3>3 DEF EndImports, TypeOK
      <4>. QED
        BY <3>2, <4>1 DEF CompletionNamesARun
    <3>. QED
      BY <3>1, <3>3 DEF CompletionNamesARun, RunOf
  <2>5. ASSUME NEW s \in Searches, NEW raw \in Raws, ImportListing(s, raw)
        PROVE  CompletionNamesARun'
    <3>1. \A t \in Searches : search'[t].completed = search[t].completed
      BY <2>5 DEF ImportListing, TypeOK
    <3>. QED
      BY <2>1, <3>1 DEF CompletionNamesARun, RunOf
  <2>. QED
    BY <2>2, <2>3, <2>4, <2>5, Steps
       DEF WorkerStep, FaultStep, CorpusChanges, decisionVars, Claim, ReadRevision, FindStale,
           ReadDispositions, ReadSources, ReadPriors, ReadOverrides, WorkFails,
           ApplyPlan, RefusePlan, SaveFailure, FailureRefused, Crash, ClaimReplyLost,
           ApplyReplyLost, FailureLost, FinalizeFails
<1>. QED
  BY <1>1, <1>2, TypeCorrect, LaneInit, LaneStep, PTL DEF Spec
=============================================================================
