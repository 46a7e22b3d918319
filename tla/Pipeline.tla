------------------------------ MODULE Pipeline ------------------------------
(***************************************************************************)
(* From a captured listing to the inbox: the normalization and the         *)
(* decision lanes run by the same worker processes over the same database, *)
(* beside live searches, overrides and repairs.  A worker runs one poll at *)
(* a time, and its rotating runtime gives the lanes turns: the index moves *)
(* on when a poll starts, whether or not the lane finds a job.             *)
(*                                                                         *)
(* The other lanes touch none of this state.  Faults are left to the       *)
(* models of the two lanes, which this module instantiates with none.      *)
(***************************************************************************)
EXTENDS Corpus

CONSTANTS Workers, Searches, SearchProfile, ProfileOf, NoProfile,
  MaxDecisionAttempts, MaxNormalizationAttempts

VARIABLES
  runs, projection, phase, claim, seen, error, search,    \* decision lane
  rows, nPhase, nClaim, nError,                           \* normalization lane
  turn,                                                   \* lane of the next poll
  incarnation, faults                                     \* both lanes; constant here

decisionLane == <<runs, projection, phase, claim, seen, error, search>>
normalizationLane == <<rows, nPhase, nClaim, nError>>
started == <<incarnation, faults>>
vars == <<corpusVars, decisionLane, normalizationLane, turn, started>>

\* No listing is moved here; that is the subject of Decisions itself.
AllNew == [raw \in Raws |-> "new"]
D == INSTANCE Decisions WITH
  MaxAttempts <- MaxDecisionAttempts, MaxFaults <- 0, Lives <- {},
  life <- AllNew, lifeRead <- [w \in Workers |-> AllNew], moved <- [w \in Workers |-> {}]
N == INSTANCE Normalization WITH
  MaxAttempts <- MaxNormalizationAttempts, MaxFaults <- 0,
  phase <- nPhase, claim <- nClaim, error <- nError

Init ==
  /\ D!Init
  /\ rows = [raw \in Raws |-> N!NoRow]
  /\ nPhase = [w \in Workers |-> "idle"]
  /\ nClaim = [w \in Workers |-> {}]
  /\ nError = [w \in Workers |-> "none"]
  /\ turn = [w \in Workers |-> "normalization"]
-----------------------------------------------------------------------------
(* Faulty: only one of the lanes is looked at; one lane gets all the turns. *)
FreeOfNormalization(w) == nPhase[w] = "idle"
OneLane(lane) == "normalization"

Free(w) == phase[w] = "idle" /\ nPhase[w] = "idle"

NextLane(lane) == IF lane = "normalization" THEN "decision" ELSE "normalization"
Advance(w) == turn' = [turn EXCEPT ![w] = NextLane(@)]

PollNormalization(w) ==
  /\ Free(w) /\ turn[w] = "normalization"
  /\ N!Claim(w)
  /\ Advance(w)
  /\ UNCHANGED decisionLane

PollDecision(w) ==
  /\ Free(w) /\ turn[w] = "decision"
  /\ D!Claim(w)
  /\ Advance(w)
  /\ UNCHANGED normalizationLane

(* A lane without a claimable job reports "idle".                           *)
PollIdle(w) ==
  /\ Free(w)
  /\ IF turn[w] = "normalization"
     THEN \A raw \in Raws : rows[raw].state \notin N!Claimable
     ELSE \A p \in Profiles, r \in Revisions : jobs[p][r].status \notin D!Claimable
  /\ Advance(w)
  /\ UNCHANGED <<corpusVars, decisionLane, normalizationLane, started>>

ContinueNormalization(w) ==
  /\ nPhase[w] # "idle"
  /\ N!WorkerStep(w)
  /\ UNCHANGED <<decisionLane, turn>>

ContinueDecision(w) ==
  /\ phase[w] # "idle"
  /\ D!WorkerStep(w)
  /\ UNCHANGED <<normalizationLane, turn>>

Errs(w) ==
  \/ N!WorkFails(w) /\ UNCHANGED <<decisionLane, turn>>
  \/ D!WorkFails(w) /\ UNCHANGED <<normalizationLane, turn>>

(* A capture outside any live search.                                       *)
Capture(raw) == N!Capture(raw) /\ UNCHANGED <<decisionLane, turn>>

(* One candidate of runLiveSearch: the raw listing, its normalization job   *)
(* unless a source record exists, and the activity event, together.         *)
ImportCandidate(s, raw) ==
  /\ D!ImportListing(s, raw)
  /\ rows' = [rows EXCEPT ![raw].state =
       IF raw \notin sources /\ @ = "none" THEN "queued" ELSE @]
  /\ UNCHANGED <<nPhase, nClaim, nError, turn>>

EndSearch(s) == D!EndImports(s) /\ UNCHANGED <<normalizationLane, turn>>

UserChanges ==
  /\ \E p \in Profiles :
       \/ \E o \in Overrides : CreateOverride(p, o)
       \/ \E bad \in SUBSET Raws : RepairSources(p, bad)
  /\ UNCHANGED <<decisionLane, normalizationLane, turn, started>>

WorkerStep(w) ==
  \/ PollNormalization(w) \/ PollDecision(w) \/ PollIdle(w)
  \/ ContinueNormalization(w) \/ ContinueDecision(w)

Next ==
  \/ \E w \in Workers : WorkerStep(w) \/ Errs(w)
  \/ \E raw \in Raws : Capture(raw) \/ \E s \in Searches : ImportCandidate(s, raw)
  \/ \E s \in Searches : EndSearch(s)
  \/ UserChanges

(* createAsyncWorkerPoller: the next poll follows the one before, for as    *)
(* long as the process runs.                                                *)
Fairness == \A w \in Workers : WF_vars(WorkerStep(w))

Spec == Init /\ [][Next]_vars
FairSpec == Spec /\ Fairness
-----------------------------------------------------------------------------
(* Properties.                                                              *)

(* A worker process works on one job at a time.                             *)
TypeOK ==
  /\ D!TypeOK
  /\ N!TypeOK
  /\ turn \in [Workers -> {"normalization", "decision"}]
  /\ \A w \in Workers : phase[w] = "idle" \/ nPhase[w] = "idle"

DecisionGivenUp == \E p \in Profiles, r \in Revisions :
  jobs[p][r].status = "permanently_failed" /\ jobs[p][r].error # "stale"

(* Every captured listing is shown in the end, unless its own job was       *)
(* dead-lettered, a repair ruled it out, or a decision failed for a reason  *)
(* other than a stale corpus: the hand-over between the lanes, the turns    *)
(* and the stale retries lose nothing.                                      *)
ListingIsShown == \A raw \in Raws :
  rows[raw].state = "queued" ~>
    \/ rows[raw].state = "dead_letter"
    \/ raw \in invalid
    \/ DecisionGivenUp
    \/ \E p \in Profiles : raw \in projection[p].members

(* A live search whose import loop has ended is completed in the end, under *)
(* the same provisos: either the service or a later decision's finalizer    *)
(* sees that everything is normalized.                                      *)
SearchIsCompleted == \A s \in Searches :
  ~ search[s].open ~>
    \/ search[s].completed # {}
    \/ \E raw \in search[s].imports : rows[raw].state = "dead_letter"
    \/ DecisionGivenUp
=============================================================================
