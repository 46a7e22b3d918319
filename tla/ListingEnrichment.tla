------------------------- MODULE ListingEnrichment -------------------------
(***************************************************************************)
(* The details of a listing are fetched by the web process.  Requests put  *)
(* a source record in a durable queue; drains claim records under a lease  *)
(* and run the browser, at most a few at a time; a source job per run is   *)
(* the record of it.                                                       *)
(*                                                                         *)
(* Claims are numbered: each has an owner and a source job of its own.     *)
(***************************************************************************)
EXTENDS Naturals, FiniteSets

CONSTANTS
  Records,      \* source records of the user
  Requesters,   \* requests of the user that may overlap
  MaxRequests,  \* bound: requests of one behaviour that queue a record
  MaxClaims,    \* bound: claims of one behaviour
  MaxCrashes,   \* bound: restarts of the web process
  MaxDrains,    \* bound: drains at the same time
  MayOverrun,   \* a run may take longer than its lease
  Concurrency   \* MAX_CONCURRENT_ENRICHMENTS

EnrichmentAssumption ==
  /\ MaxRequests \in Nat /\ MaxClaims \in Nat /\ MaxCrashes \in Nat
  /\ MayOverrun \in BOOLEAN /\ MaxDrains \in Nat \ {0} /\ Concurrency \in Nat \ {0}

Claims == 1 .. MaxClaims
MaximumAttempts == 3

VARIABLES
  record,    \* listing_enrichment_states
  job,       \* the source job of a claim
  work,      \* the run of a claim in the web process: record and phase
  drains,    \* drains that wait for their claim
  active,    \* activeEnrichments
  asking,    \* requests between their read and their write
  requests, crashes

vars == <<record, job, work, drains, active, asking, requests, crashes>>

Unasked == [state |-> "not_requested", attempts |-> 0, due |-> FALSE, owner |-> 0,
            expired |-> FALSE, snapshot |-> 0, fresh |-> FALSE]
NoWork == [phase |-> "none", of |-> {}]

Init ==
  /\ record = [r \in Records |-> Unasked]
  /\ job = [c \in Claims |-> "none"]
  /\ work = [c \in Claims |-> NoWork]
  /\ drains = 0 /\ active = 0
  /\ asking = [q \in Requesters |-> {}]
  /\ requests = 0 /\ crashes = 0

Working == {c \in Claims : work[c].phase # "none"}
-----------------------------------------------------------------------------
(* queue: the record and its snapshot are read, then the row is written as  *)
(* queued whatever it is by then.                                           *)

Queues(r, force) ==
  /\ record[r].state \notin {"queued", "enriching"}
  /\ force \/ record[r].state \notin {"blocked_manual_action", "failed"}
  /\ force \/ ~ (record[r].state = "enriched" /\ record[r].fresh)

Ask(q, r, force) ==
  /\ asking[q] = {} /\ requests < MaxRequests
  /\ Queues(r, force)
  /\ asking' = [asking EXCEPT ![q] = {r}]
  /\ requests' = requests + 1
  /\ UNCHANGED <<record, job, work, drains, active, crashes>>

WriteQueued(q, r) ==
  /\ r \in asking[q]
  /\ record' = [record EXCEPT ![r].state = "queued", ![r].attempts = 0, ![r].due = TRUE,
                              ![r].owner = 0, ![r].expired = FALSE]
  /\ asking' = [asking EXCEPT ![q] = {}]
  /\ UNCHANGED <<job, work, drains, active, requests, crashes>>

(* markExpiredStale, at the start of every request.                         *)
MarkStale(r) ==
  /\ record[r].state = "enriched" /\ ~ record[r].fresh
  /\ record' = [record EXCEPT ![r].state = "stale"]
  /\ UNCHANGED <<job, work, drains, active, asking, requests, crashes>>
-----------------------------------------------------------------------------
(* Time: a snapshot ages, a retry becomes due, a lease runs out.            *)

SnapshotAges(r) ==
  /\ record[r].fresh
  /\ record' = [record EXCEPT ![r].fresh = FALSE]
  /\ UNCHANGED <<job, work, drains, active, asking, requests, crashes>>
RetryIsDue(r) ==
  /\ record[r].state = "queued" /\ ~ record[r].due
  /\ record' = [record EXCEPT ![r].due = TRUE]
  /\ UNCHANGED <<job, work, drains, active, asking, requests, crashes>>
LeaseExpires(r) ==
  /\ record[r].owner # 0 /\ ~ record[r].expired
  /\ MayOverrun \/ work[record[r].owner] = NoWork
  /\ record' = [record EXCEPT ![r].expired = TRUE]
  /\ UNCHANGED <<job, work, drains, active, asking, requests, crashes>>
-----------------------------------------------------------------------------
(* drainListingEnrichments: the limit is tested, then the claim is awaited. *)

StartDrain ==
  /\ active < Concurrency /\ drains < MaxDrains
  /\ drains' = drains + 1
  /\ UNCHANGED <<record, job, work, active, asking, requests, crashes>>

(* Faulty: the attempts are not counted to their limit.                     *)
ClaimableAgain(r) ==
  \/ record[r].state \in {"queued", "stale"} /\ record[r].due
  \/ record[r].state = "enriching" /\ record[r].expired
(* Faulty: a record in work is never claimed again.                         *)
ClaimableQueued(r) ==
  /\ record[r].state = "queued" /\ record[r].due
  /\ record[r].attempts < MaximumAttempts
Claimable(r) ==
  /\ \/ record[r].state \in {"queued", "stale"} /\ record[r].due
     \/ record[r].state = "enriching" /\ record[r].expired
  /\ record[r].attempts < MaximumAttempts

Claim(c, r) ==
  /\ drains > 0
  /\ Claimable(r)
  /\ work[c] = NoWork /\ job[c] = "none"
  /\ \A b \in Claims : b < c => job[b] # "none"
  /\ record' = [record EXCEPT ![r].state = "enriching", ![r].attempts = @ + 1,
                              ![r].owner = c, ![r].expired = FALSE]
  /\ work' = [work EXCEPT ![c] = [phase |-> "claimed", of |-> {r}]]
  /\ job' = [job EXCEPT ![c] = "planned"]
  /\ active' = active + 1
  /\ drains' = IF active' < Concurrency THEN drains ELSE drains - 1
  /\ UNCHANGED <<asking, requests, crashes>>

DrainEnds ==
  /\ drains > 0 /\ ~ \E r \in Records : Claimable(r)
  /\ drains' = drains - 1
  /\ UNCHANGED <<record, job, work, active, asking, requests, crashes>>
-----------------------------------------------------------------------------
(* processEnrichment.                                                       *)

(* Faulty: whoever enriches may write, not only the owner of the lease.     *)
HoldsAny(c, r) == record[r].state = "enriching"
Holds(c, r) == record[r].state = "enriching" /\ record[r].owner = c

At(c, phase, r) == work[c].phase = phase /\ work[c].of = {r}
Ends(c) ==
  /\ work' = [work EXCEPT ![c] = NoWork]
  /\ active' = active - 1
  /\ UNCHANGED <<drains, asking, requests, crashes>>
Continues(c, phase) ==
  /\ work' = [work EXCEPT ![c].phase = phase]
  /\ UNCHANGED <<drains, active, asking, requests, crashes>>
(* Faulty: the lease is left on the row.                                    *)
ReleasedStateOnly(r, state) == [record EXCEPT ![r].state = state]
Released(r, state) == [record EXCEPT ![r].state = state, ![r].owner = 0,
                                     ![r].expired = FALSE]

(* fail: a retry while attempts are left, if the error allows one.          *)
Failed(r, retryable) ==
  IF retryable /\ record[r].attempts < MaximumAttempts
  THEN [Released(r, "queued") EXCEPT ![r].due = FALSE]
  ELSE [Released(r, "failed") EXCEPT ![r].due = FALSE]

Open(c, r) ==
  /\ At(c, "claimed", r)
  /\ job' = [job EXCEPT ![c] = "running"]
  /\ Continues(c, "running")
  /\ UNCHANGED record

(* The plan or the job cannot be made.                                      *)
FailBeforeBrowser(c, r) ==
  /\ At(c, "claimed", r)
  /\ record' = IF Holds(c, r) THEN Failed(r, FALSE) ELSE record
  /\ Ends(c)
  /\ UNCHANGED job

(* complete and the job's transition, in one transaction.                   *)
Complete(c, r) ==
  /\ At(c, "running", r) /\ Holds(c, r)
  /\ record' = [Released(r, "enriched") EXCEPT ![r].snapshot = c, ![r].fresh = TRUE]
  /\ job' = [job EXCEPT ![c] = "completed"]
  /\ Ends(c)

(* The browser needs its user, or fails: the record, then the job.          *)
Block(c, r) ==
  /\ At(c, "running", r) /\ Holds(c, r)
  /\ record' = Released(r, "blocked_manual_action")
  /\ Continues(c, "manual_action_required")
  /\ UNCHANGED job
Fail(c, r) ==
  /\ At(c, "running", r) /\ Holds(c, r)
  /\ \E retryable \in BOOLEAN :
       /\ record' = Failed(r, retryable)
       /\ Continues(c, IF retryable THEN "retryable_failed" ELSE "permanently_failed")
  /\ UNCHANGED job
FinishJob(c) ==
  /\ work[c].phase \in {"manual_action_required", "retryable_failed",
                        "permanently_failed"}
  /\ job' = [job EXCEPT ![c] = work[c].phase]
  /\ Ends(c)
  /\ UNCHANGED record

(* Whatever the outcome, it is refused for the lack of the lease; so is the *)
(* report of that failure, and the job is left as it is.                    *)
LeaseLost(c, r) ==
  /\ At(c, "running", r) /\ ~ Holds(c, r)
  /\ Ends(c)
  /\ UNCHANGED <<record, job>>

Process(c) ==
  \/ \E r \in Records :
       \/ Open(c, r) \/ FailBeforeBrowser(c, r) \/ Complete(c, r) \/ Block(c, r)
       \/ Fail(c, r) \/ LeaseLost(c, r)
  \/ FinishJob(c)

Crash ==
  /\ crashes < MaxCrashes
  /\ work' = [c \in Claims |-> NoWork]
  /\ asking' = [q \in Requesters |-> {}]
  /\ drains' = 0 /\ active' = 0 /\ crashes' = crashes + 1
  /\ UNCHANGED <<record, job, requests>>

Drain == StartDrain \/ DrainEnds \/ \E c \in Claims, r \in Records : Claim(c, r)

Next ==
  \/ \E q \in Requesters, r \in Records :
       WriteQueued(q, r) \/ \E force \in BOOLEAN : Ask(q, r, force)
  \/ \E r \in Records : MarkStale(r) \/ SnapshotAges(r) \/ RetryIsDue(r) \/ LeaseExpires(r)
  \/ Drain
  \/ \E c \in Claims : Process(c)
  \/ Crash

Spec == Init /\ [][Next]_vars

(* Runs end (the browser client has a timeout), time passes, and requests,  *)
(* ended runs and retry timers start drains again and again.                *)
Fairness ==
  /\ \A c \in Claims : WF_vars(Process(c))
  /\ WF_vars(StartDrain) /\ WF_vars(DrainEnds)
  /\ \A r \in Records :
       /\ WF_vars(RetryIsDue(r)) /\ WF_vars(LeaseExpires(r))
       /\ SF_vars(\E c \in Claims : Claim(c, r))
FairSpec == Spec /\ Fairness
-----------------------------------------------------------------------------
(* Properties.                                                              *)

(* Every variable holds a value of its type, the attempts within their      *)
(* limit.                                                                   *)
TypeOK ==
  /\ record \in [Records ->
       [state : {"not_requested", "queued", "enriching", "enriched", "stale",
                 "blocked_manual_action", "failed"},
        attempts : 0 .. MaximumAttempts, due : BOOLEAN, owner : 0 .. MaxClaims,
        expired : BOOLEAN, snapshot : 0 .. MaxClaims, fresh : BOOLEAN]]
  /\ job \in [Claims -> {"none", "planned", "running", "completed",
                         "manual_action_required", "retryable_failed",
                         "permanently_failed"}]
  /\ work \in [Claims -> [phase : {"none", "claimed", "running",
       "manual_action_required", "retryable_failed", "permanently_failed"},
                          of : SUBSET Records]]
  /\ drains \in 0 .. MaxDrains /\ active = Cardinality(Working)
  /\ asking \in [Requesters -> SUBSET Records]

(* A lease belongs to a record in work, and only to one.                    *)
LeasePair == \A r \in Records :
  /\ record[r].state = "enriching" <=> record[r].owner # 0
  /\ \A s \in Records \ {r} : record[r].owner # 0 => record[s].owner # record[r].owner

(* A run that lost its lease, to a second run or a second request, never    *)
(* brings an older snapshot back: snapshots only move forward, and the one  *)
(* shown is that of a completed job.                                        *)
SnapshotsMoveForward == [][ \A r \in Records :
  /\ record'[r].snapshot >= record[r].snapshot
  /\ record'[r].snapshot # record[r].snapshot =>
       record[r].owner = record'[r].snapshot /\ job'[record'[r].snapshot] = "completed"
  ]_vars

(* What is queued comes to an end, through retries, lost leases and         *)
(* restarts, except that of a run which is lost in its last attempt.        *)
LostInLastAttempt(r) ==
  /\ record[r].state = "enriching" /\ record[r].attempts = MaximumAttempts
  /\ work[record[r].owner] = NoWork
QueuedIsServed == \A r \in Records :
  record[r].state = "queued" ~>
    record[r].state \notin {"queued", "enriching"} \/ LostInLastAttempt(r)
=============================================================================
