----------------------------- MODULE DemoQueues -----------------------------
(***************************************************************************)
(* The job queues of the SQLite store: normalization jobs, the corpus      *)
(* revision with its decision jobs, the attempts and runs they leave, and  *)
(* the health records of browser nodes.  Every operation is an immediate   *)
(* transaction, so it is one step here.  Leases and retry delays are       *)
(* measured on a clock.  A row an update would leave in breach of a CHECK  *)
(* of the schema is refused by SQLite; the model makes the update and the  *)
(* constraints are invariants, so that a refusal shows as a violation.     *)
(***************************************************************************)
EXTENDS Integers, FiniteSets, FiniteSetsExt

CONSTANTS
  Raws,             \* raw listings, numbered in the order of their ids
  Workers,          \* worker processes; each draws its own lease owner
  None,
  MaxAttempts,      \* max_attempts of a normalization job
  DecisionAttempts, \* DECISION_MAXIMUM_ATTEMPTS
  Lease,            \* length of a lease
  MaxTime, MaxRevision, Crashes,  \* bounds on the clock, the corpus, crashes
  Reports           \* health reports of one node that may arrive, in any order

DemoQueuesAssumption ==
  /\ Raws \subseteq Nat /\ Lease \in Nat \ {0}
  /\ {MaxAttempts, DecisionAttempts} \subseteq Nat \ {0}
  /\ {MaxTime, MaxRevision, Crashes} \subseteq Nat
  /\ \A r \in Reports : r.beat \in Nat /\ r.status \in {"online", "stale", "revoked"}

VARIABLES
  now,        \* the clock
  norm,       \* raw listing -> row of normalization_jobs
  records,    \* raw listings with a source record
  revision,   \* decision_corpus_state
  jobs,       \* revision -> row of decision_jobs
  attempts,   \* rows of decision_job_attempts
  runs,       \* decision job -> the revision its run was computed on
  held,       \* worker -> the job it works on, as claimNext returned it
  crashes,
  node        \* row of browser_nodes, or None

queues == <<now, norm, records, revision, jobs, attempts, runs, held, crashes>>
vars == <<queues, node>>

Row == [state |-> "none", attempts |-> 0, owner |-> None, expires |-> 0, available |-> 0,
        error |-> FALSE, completed |-> FALSE]
NoClaim == [kind |-> "none", id |-> 0, attempt |-> 0]
Revisions == 0 .. MaxRevision

\* The CHECKs of normalization_jobs, of decision_jobs, and the unique index of
\* decision_job_attempts
NormalizationRowAllowed(row) ==
  /\ row.attempts <= MaxAttempts
  /\ (row.state = "queued") <=> (row.attempts = 0)
  /\ row.state = "retryable" => row.attempts < MaxAttempts
  /\ (row.state = "leased") <=> (row.owner # None)
  /\ row.completed <=> (row.state = "completed")
  /\ row.state \in {"queued", "completed"} => ~row.error
  /\ row.state \in {"retryable", "dead_letter"} => row.error
DecisionRowAllowed(row) == row.attempts <= 100 /\ ((row.owner = None) <=> (row.expires = 0))
AttemptsAllowed(rows) == \A a, b \in rows : a.job = b.job /\ a.number = b.number => a = b

Init ==
  /\ now = 0 /\ norm = [r \in Raws |-> Row] /\ records = {} /\ revision = 0
  /\ jobs = [n \in Revisions |-> Row] /\ attempts = {} /\ runs = [n \in {} |-> 0]
  /\ held = [w \in Workers |-> NoClaim] /\ crashes = 0 /\ node = None

Tick == now < MaxTime /\ now' = now + 1
  /\ UNCHANGED <<norm, records, revision, jobs, attempts, runs, held, crashes, node>>

\* min(60 s, 1 s * 2^(n - 1)) after the failure; every delay ends within the
\* bound of the clock
RetryAt(n) == Min({now + Min({2 ^ (n - 1), 2}), MaxTime})

\* Faulty: the owner of an expired lease is kept.
LeasedByFirst(row, state, w) ==
  [row EXCEPT !.state = state, !.attempts = @ + 1, !.owner = IF @ = None THEN w ELSE @, !.expires = now + Lease]

Queued(available) == [Row EXCEPT !.state = "queued", !.available = available]
Leased(row, state, w) ==
  [row EXCEPT !.state = state, !.attempts = @ + 1, !.owner = w, !.expires = now + Lease]
Released(row, state) == [row EXCEPT !.state = state, !.owner = None, !.expires = 0]
Expired(row, state) == row.state = state /\ row.expires <= now

Idle(w) == held[w] = NoClaim
Works(w, kind) == held[w].kind = kind
Release(w) == held' = [held EXCEPT ![w] = NoClaim]

-----------------------------------------------------------------------------
(* Normalization jobs *)

\* rawListings.import and normalizationJobs.enqueue of one capture
Import(r) ==
  /\ norm' = [norm EXCEPT ![r] = IF @.state = "none" THEN Queued(now) ELSE @]
  /\ UNCHANGED <<now, records, revision, jobs, attempts, runs, held, crashes, node>>

NormalizationDue(r) ==
  /\ norm[r].available <= now /\ norm[r].attempts < MaxAttempts
  /\ norm[r].state \in {"queued", "retryable"} \/ Expired(norm[r], "leased")

First(due, row) == CHOOSE i \in due : \A j \in due :
  row[i].available < row[j].available \/ (row[i].available = row[j].available /\ i <= j)

ClaimNormalization(w) ==
  LET due == {r \in Raws : NormalizationDue(r)}
      r == First(due, norm)
  IN  /\ Idle(w) /\ due # {}
      /\ norm' = [norm EXCEPT ![r] = Leased(@, "leased", w)]
      /\ held' = [held EXCEPT ![w] = [kind |-> "normalize", id |-> r, attempt |-> norm[r].attempts + 1]]
      /\ UNCHANGED <<now, records, revision, jobs, attempts, runs, crashes, node>>

OwnsNormalization(w) == norm[held[w].id].state = "leased" /\ norm[held[w].id].owner = w

\* Faulty: the job starts over.
NormalizedAgain(r) == norm' = [norm EXCEPT ![r] = Queued(now)]

Normalized(r) ==
  norm' = [norm EXCEPT ![r] = [Released(@, "completed") EXCEPT !.error = FALSE, !.completed = TRUE]]

\* The transaction of the worker: the source record, the corpus revision with
\* its decision job, and the completion.
CompleteNormalization(w) ==
  /\ Works(w, "normalize") /\ OwnsNormalization(w)
  /\ held[w].id \notin records /\ revision < MaxRevision
  /\ records' = records \cup {held[w].id}
  /\ revision' = revision + 1
  /\ jobs' = [jobs EXCEPT ![revision + 1] = Queued(now)]
  /\ Normalized(held[w].id)
  /\ Release(w)
  /\ UNCHANGED <<now, attempts, runs, crashes, node>>

\* Faulty: the last attempt is retried too.
FailedNormalizationAgain(row, retryable) ==
  IF retryable
  THEN [Released(row, "retryable") EXCEPT !.error = TRUE, !.available = RetryAt(row.attempts)]
  ELSE [Released(row, "dead_letter") EXCEPT !.error = TRUE]

FailedNormalization(row, retryable) ==
  IF retryable /\ row.attempts < MaxAttempts
  THEN [Released(row, "retryable") EXCEPT !.error = TRUE, !.available = RetryAt(row.attempts)]
  ELSE [Released(row, "dead_letter") EXCEPT !.error = TRUE]

FailNormalization(w, retryable) ==
  /\ Works(w, "normalize") /\ OwnsNormalization(w)
  /\ norm' = [norm EXCEPT ![held[w].id] = FailedNormalization(@, retryable)]
  /\ Release(w)
  /\ UNCHANGED <<now, records, revision, jobs, attempts, runs, crashes, node>>

-----------------------------------------------------------------------------
(* Decision jobs *)

\* enqueueCurrentRevision from outside the worker
EnqueueCurrent ==
  /\ jobs' = [jobs EXCEPT ![revision] = IF @.state = "none" THEN Queued(now) ELSE @]
  /\ UNCHANGED <<now, norm, records, revision, attempts, runs, held, crashes, node>>

\* Faulty: a running job is claimed before its lease has ended.
DecisionDueEarly(n) ==
  jobs[n].available <= now /\ jobs[n].state \in {"queued", "retryable_failed", "running"}

\* Faulty: a failed job is not tried again.
DecisionDueOnce(n) ==
  /\ jobs[n].available <= now
  /\ jobs[n].state = "queued" \/ Expired(jobs[n], "running")

DecisionDue(n) ==
  /\ jobs[n].available <= now
  /\ jobs[n].state \in {"queued", "retryable_failed"} \/ Expired(jobs[n], "running")

ClaimDecision(w) ==
  LET due == {n \in Revisions : DecisionDue(n)}
      n == First(due, jobs)
  IN  /\ Idle(w) /\ due # {}
      /\ jobs' = [jobs EXCEPT ![n] = [Leased(@, "running", w) EXCEPT !.error = FALSE]]
      /\ held' = [held EXCEPT ![w] = [kind |-> "decide", id |-> n, attempt |-> jobs[n].attempts + 1]]
      /\ UNCHANGED <<now, norm, records, revision, attempts, runs, crashes, node>>

OwnsDecision(w) == jobs[held[w].id].state = "running" /\ jobs[held[w].id].owner = w

\* Faulty: attempts are numbered from zero.
AttemptFromZero(n, row, outcome) == [job |-> n, number |-> row.attempts - 1, outcome |-> outcome]

Attempt(n, row, outcome) == [job |-> n, number |-> row.attempts, outcome |-> outcome]

\* Faulty: the corpus may have moved on.
AtTargetAny(n) == TRUE

AtTarget(n) == revision = n

\* applyPlan writes the run, the attempt and the job in one transaction.
ApplyPlan(w) ==
  LET n == held[w].id
  IN  /\ Works(w, "decide") /\ n \notin DOMAIN runs
      /\ OwnsDecision(w) /\ AtTarget(n)
      /\ runs' = [m \in DOMAIN runs \cup {n} |-> IF m = n THEN revision ELSE runs[m]]
      /\ attempts' = attempts \cup {Attempt(n, jobs[n], "succeeded")}
      /\ jobs' = [jobs EXCEPT ![n] = [Released(@, "succeeded") EXCEPT !.completed = TRUE]]
      /\ Release(w)
      /\ UNCHANGED <<now, norm, records, revision, crashes, node>>

\* The job has a run: applyPlan answers with it.
Replay(w) ==
  /\ Works(w, "decide") /\ held[w].id \in DOMAIN runs
  /\ Release(w)
  /\ UNCHANGED <<now, norm, records, revision, jobs, attempts, runs, crashes, node>>

\* Faulty: the lease is kept.
FailedDecisionHeld(row, retryable) == [row EXCEPT !.state = "retryable_failed"]

FailedDecision(row, retryable) ==
  IF retryable
  THEN [Released(row, "retryable_failed") EXCEPT !.error = TRUE, !.available = RetryAt(row.attempts)]
  ELSE [Released(row, "permanently_failed") EXCEPT !.error = TRUE, !.completed = TRUE, !.available = now]

\* A stale job enqueues the current revision in the same transaction.
AfterStale(next) ==
  [next EXCEPT ![revision] = IF @.state = "none" THEN Queued(now) ELSE @]

\* The attempt and the failure of the job are one transaction.
FailDecision(w, retryable) ==
  LET n == held[w].id
      again == retryable /\ held[w].attempt < DecisionAttempts
      failed == [jobs EXCEPT ![n] = FailedDecision(@, again)]
  IN  /\ Works(w, "decide") /\ OwnsDecision(w)
      /\ attempts' = attempts \cup {[job |-> n, number |-> held[w].attempt,
                                     outcome |-> IF again THEN "retryable_failed" ELSE "permanently_failed"]}
      /\ jobs' = IF AtTarget(n) THEN failed ELSE AfterStale(failed)
      /\ Release(w)
      /\ UNCHANGED <<now, norm, records, revision, runs, crashes, node>>

\* The lease was lost: complete, fail and applyPlan throw, and their
\* transactions are rolled back.
LoseLease(w) ==
  /\ \/ Works(w, "normalize") /\ ~OwnsNormalization(w)
     \/ Works(w, "decide") /\ ~OwnsDecision(w) /\ held[w].id \notin DOMAIN runs
  /\ Release(w)
  /\ UNCHANGED <<now, norm, records, revision, jobs, attempts, runs, crashes, node>>

\* The worker ends, or is aborted, and leaves its job leased.
Crash(w) ==
  /\ ~Idle(w) /\ crashes < Crashes
  /\ crashes' = crashes + 1
  /\ Release(w)
  /\ UNCHANGED <<now, norm, records, revision, jobs, attempts, runs, node>>

-----------------------------------------------------------------------------
(* Browser nodes *)

\* Faulty: the reports are taken as they come.
IsNewerAlways(old, r) == TRUE

IsNewer(old, r) == r.beat > old.beat \/ (r.beat = old.beat /\ r.updated > old.updated)

\* A revoked node is not revived, an older report changes nothing.
Upsert(r) ==
  /\ node' = IF node = None THEN r
             ELSE IF node.status = "revoked" \/ ~IsNewer(node, r) THEN node ELSE r
  /\ UNCHANGED queues

Next ==
  \/ Tick \/ EnqueueCurrent
  \/ \E r \in Raws : Import(r)
  \/ \E w \in Workers :
       \/ ClaimNormalization(w) \/ CompleteNormalization(w)
       \/ ClaimDecision(w) \/ ApplyPlan(w) \/ Replay(w) \/ LoseLease(w) \/ Crash(w)
       \/ \E retryable \in BOOLEAN : FailNormalization(w, retryable) \/ FailDecision(w, retryable)
  \/ \E r \in Reports : Upsert(r)

Spec == Init /\ [][Next]_vars

\* The poller of a worker never stops, time passes, and a job that was begun
\* is brought to an end unless the process dies.
Fairness ==
  /\ WF_vars(Tick)
  /\ \A w \in Workers :
       /\ WF_vars(ClaimNormalization(w)) /\ WF_vars(ClaimDecision(w))
       /\ WF_vars(Works(w, "normalize") /\ (CompleteNormalization(w) \/ LoseLease(w)))
       /\ WF_vars(Works(w, "decide") /\ (ApplyPlan(w) \/ Replay(w) \/ LoseLease(w)
                                           \/ (~AtTarget(held[w].id) /\ FailDecision(w, TRUE))))

LiveSpec == Spec /\ Fairness

-----------------------------------------------------------------------------
(* Properties *)
RowType == [state : {"none", "queued", "leased", "completed", "retryable", "dead_letter", "running",
                     "succeeded", "retryable_failed", "permanently_failed"},
            attempts : Nat, owner : Workers \cup {None}, expires : Nat, available : Nat,
            error : BOOLEAN, completed : BOOLEAN]

TypeOK ==
  /\ now \in 0 .. MaxTime /\ revision \in Revisions /\ records \subseteq Raws
  /\ norm \in [Raws -> RowType] /\ jobs \in [Revisions -> RowType]
  /\ attempts \subseteq [job : Revisions, number : Nat \ {0},
                         outcome : {"succeeded", "retryable_failed", "permanently_failed"}]
  /\ node = None \/ node \in Reports

\* No update of the repositories is refused by the constraints of its table:
\* attempts stay within their limit and in step with the state, the lease
\* goes with the holder, the error with the failure.
NormalizationRowsAreAllowed ==
  \A r \in Raws : norm[r].state # "none" => NormalizationRowAllowed(norm[r])

\* The same of the decision tables; and a run is recorded exactly for a job
\* that succeeded, with the attempt that made it.
DecisionRowsAreAllowed ==
  /\ AttemptsAllowed(attempts)
  /\ \A n \in Revisions :
       /\ DecisionRowAllowed(jobs[n])
       /\ (jobs[n].state = "running") <=> (jobs[n].owner # None)
       /\ (jobs[n].state = "succeeded") <=> (n \in DOMAIN runs)
       /\ n \in DOMAIN runs => \E a \in attempts : a.job = n /\ a.outcome = "succeeded"

\* A listing is in the corpus exactly when its job is completed, and each
\* listing raised the revision once and left a decision job for it.
OneRevisionPerListing ==
  /\ \A r \in Raws : r \in records <=> norm[r].state = "completed"
  /\ revision = Cardinality(records)
  /\ \A n \in 1 .. revision : jobs[n].state # "none"

\* A run shows the corpus of its own revision.
RunsAreOfTheirRevision == \A n \in DOMAIN runs : runs[n] = n

\* Two workers that hold the same job hold it by different attempts, and only
\* the later one can still write.
OneWriterPerJob ==
  \A v, w \in Workers : v # w /\ ~Idle(v) /\ held[v].kind = held[w].kind /\ held[v].id = held[w].id =>
    /\ held[v].attempt # held[w].attempt
    /\ held[v].attempt < held[w].attempt =>
         IF Works(v, "decide") THEN ~OwnsDecision(v) ELSE ~OwnsNormalization(v)

\* No claim takes a job whose lease runs from the worker that holds it.
LeasesAreRespected ==
  [][/\ \A r \in Raws : norm[r].state = "leased" /\ norm[r].expires > now =>
          norm'[r].owner \in {norm[r].owner, None}
     /\ \A n \in Revisions : jobs[n].state = "running" /\ jobs[n].expires > now =>
          jobs'[n].owner \in {jobs[n].owner, None}]_vars

\* A node that was revoked stays revoked, and its heartbeat never goes back,
\* in whatever order its reports arrive.
NodeNeverGoesBack ==
  [][node # None => /\ node.status = "revoked" => node' = node
                    /\ node'.beat >= node.beat]_vars

\* Every revision that stays the current one is decided or given up: while
\* no worker dies, no job is forgotten.
CurrentRevisionEnds ==
  <>[](revision > 0 => jobs[revision].state \in {"succeeded", "permanently_failed"})
=============================================================================
