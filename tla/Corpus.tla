------------------------------- MODULE Corpus -------------------------------
(***************************************************************************)
(* The decision corpus of one Vera user, as PostgreSQL keeps it: for every *)
(* search profile a corpus revision and one decision job per revision, and *)
(* for the whole user the listing source records, the ones of them that    *)
(* the newest disposition calls "not a listing", and the active duplicate  *)
(* overrides.  A transaction that changes one of these three also raises   *)
(* the revision of a profile and queues a decision job for the new         *)
(* revision (Bump); the modules that extend this one say which handlers do *)
(* so and when.  A decision reads more than these: where users move a      *)
(* listing in its lifecycle no revision is raised (Decisions).             *)
(***************************************************************************)
EXTENDS Integers, FiniteSets

CONSTANTS
  Profiles,     \* the user's search profiles
  Raws,         \* raw listings; a source record is named by its raw listing
  Overrides,    \* duplicate overrides a user may create
  NoOwner,      \* the lease_owner of a job nobody holds
  MaxRevision   \* bound: no transaction of the model goes past this revision

ASSUME CorpusAssumption ==
  /\ Profiles # {}
  /\ MaxRevision \in Nat

VARIABLES
  revision,     \* decision_corpus_state.revision of every profile
  jobs,         \* decision_jobs: the job of a profile and a target revision
  sources,      \* listing_source_records of the user
  invalid,      \* sources whose newest disposition is invalid_non_listing
  overrides     \* active duplicate overrides of every profile

corpusVars == <<revision, jobs, sources, invalid, overrides>>

Revisions == 0 .. MaxRevision

(* The unique index on user, profile and target revision makes the pair    *)
(* <<profile, revision>> the identity of a job; "none" is the absent row.  *)
(* recorded holds the attempt numbers of its decision_job_attempts rows.   *)
NoJob == [status |-> "none", attempts |-> 0, owner |-> NoOwner,
          error |-> "none", recorded |-> {}]
(* Faulty: a status the database does not know.                             *)
PendingJob == [NoJob EXCEPT !.status = "pending"]
QueuedJob == [NoJob EXCEPT !.status = "queued"]

(* INSERT ... ON CONFLICT DO NOTHING, then the row that is there.           *)
Enqueued(job) == IF job.status = "none" THEN QueuedJob ELSE job

(* decisionJobs.enqueueCurrentRevision, applied to the jobs js.             *)
WithCurrentRevision(js, p) == [js EXCEPT ![p][revision[p]] = Enqueued(@)]

(* Faulty: the job is queued for the revision that was, or for one that the *)
(* corpus has yet to reach.                                                 *)
BumpBehind(p) ==
  /\ revision[p] < MaxRevision
  /\ revision' = [revision EXCEPT ![p] = @ + 1]
  /\ jobs' = [jobs EXCEPT ![p][revision[p]] = Enqueued(@)]

BumpAhead(p) ==
  /\ revision[p] + 1 < MaxRevision
  /\ revision' = [revision EXCEPT ![p] = @ + 1]
  /\ jobs' = [jobs EXCEPT ![p][revision[p] + 2] = Enqueued(@)]

(* decisionJobs.bumpCorpusRevisionAndEnqueue: the corpus row is locked FOR  *)
(* UPDATE until the surrounding transaction ends.                           *)
Bump(p) ==
  /\ revision[p] < MaxRevision
  /\ revision' = [revision EXCEPT ![p] = @ + 1]
  /\ jobs' = [jobs EXCEPT ![p][revision[p] + 1] = Enqueued(@)]

(* What a decision may be computed from: records not ruled out.             *)
Valid == sources \ invalid

CorpusInit ==
  /\ revision = [p \in Profiles |-> 0]
  /\ jobs = [p \in Profiles |-> [r \in Revisions |-> NoJob]]
  /\ sources = {}
  /\ invalid = {}
  /\ overrides = [p \in Profiles |-> {}]

(* Faulty: a source record that raises no revision.                         *)
CommitSourceSilently(raw, p) ==
  /\ raw \notin sources
  /\ sources' = sources \cup {raw}
  /\ UNCHANGED <<revision, jobs, invalid, overrides>>

(* The persist transaction of a normalization, as the corpus sees it: the   *)
(* source record, its provenance and the new revision commit together.      *)
CommitSource(raw, p) ==
  /\ raw \notin sources
  /\ sources' = sources \cup {raw}
  /\ Bump(p)
  /\ UNCHANGED <<invalid, overrides>>

(* Faulty: an override that raises no revision.                             *)
CreateOverrideSilently(p, o) ==
  /\ Profiles = {p}
  /\ o \notin overrides[p]
  /\ overrides' = [overrides EXCEPT ![p] = @ \cup {o}]
  /\ UNCHANGED <<revision, jobs, sources, invalid>>

(* POST /api/dedupe/overrides.  The route answers 503 unless the user has   *)
(* exactly one profile.                                                     *)
CreateOverride(p, o) ==
  /\ Profiles = {p}
  /\ o \notin overrides[p]
  /\ overrides' = [overrides EXCEPT ![p] = @ \cup {o}]
  /\ Bump(p)
  /\ UNCHANGED <<sources, invalid>>

(* scripts/listing-integrity-repair.ts apply: the dispositions of a         *)
(* preview and the new revision commit together.  Every disposition the     *)
(* script writes is invalid_non_listing; replaying an applied preview       *)
(* changes nothing.                                                         *)
RepairSources(p, bad) ==
  /\ bad \subseteq sources
  /\ ~ bad \subseteq invalid
  /\ invalid' = invalid \cup bad
  /\ Bump(p)
  /\ UNCHANGED <<sources, overrides>>
=============================================================================
