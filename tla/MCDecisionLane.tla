--------------------------- MODULE MCDecisionLane ---------------------------
(***************************************************************************)
(* The decision lane on small instances: one profile with an override, two *)
(* profiles whose workers decide at once, a live search that waits for its *)
(* decision, and two workers that give both lanes their turns.  They share *)
(* no state: part names the instance that moves and the others stay as     *)
(* they started.                                                           *)
(***************************************************************************)
EXTENDS Decisions, TLC

CONSTANT p1     \* the profile of every live search

ForP1 == [s \in Searches |-> p1]
Symmetric == Permutations(Raws) \cup Permutations(Workers)

VARIABLES
  part, \* the component that moves in this behaviour
  pairRevision, pairJobs, pairSources, pairInvalid, pairOverrides, pairRuns, pairProjection,
  pairPhase, pairClaim, pairSeen, pairError, pairSearch, pairIncarnation, pairFaults,  \* Pair
  liveRevision, liveJobs, liveSources, liveInvalid, liveOverrides, liveRuns, liveProjection,
  livePhase, liveClaim, liveSeen, liveError, liveSearch, liveIncarnation, liveFaults,  \* Live
  lineRevision, lineJobs, lineSources, lineInvalid, lineOverrides, lineRuns, lineProjection,
  linePhase, lineClaim, lineSeen, lineError, lineSearch, rows, nPhase, nClaim, nError, turn,
  lineIncarnation, lineFaults  \* Line

Pair == INSTANCE Decisions WITH
  Profiles <- {"p1", "p2"}, Raws <- {"a", "b"}, Overrides <- {}, NoOwner <- NoOwner,
  MaxRevision <- 1, Workers <- {"w1", "w2"}, Searches <- {}, SearchProfile <- <<>>,
  MaxAttempts <- 2, MaxFaults <- 0, revision <- pairRevision, jobs <- pairJobs,
  sources <- pairSources, invalid <- pairInvalid, overrides <- pairOverrides, runs <- pairRuns,
  projection <- pairProjection, phase <- pairPhase, claim <- pairClaim, seen <- pairSeen,
  error <- pairError, search <- pairSearch, incarnation <- pairIncarnation,
  faults <- pairFaults, Lives <- {}, life <- [raw \in {"a", "b"} |-> "new"],
  lifeRead <- [w \in {"w1", "w2"} |-> [raw \in {"a", "b"} |-> "new"]],
  moved <- [w \in {"w1", "w2"} |-> {}]
Live == INSTANCE Decisions WITH
  Profiles <- {"p1"}, Raws <- {"a", "b"}, Overrides <- {}, NoOwner <- NoOwner,
  MaxRevision <- 2, Workers <- {"w1", "w2"}, Searches <- {"s1"},
  SearchProfile <- [s \in {"s1"} |-> "p1"], MaxAttempts <- 2, MaxFaults <- 1,
  revision <- liveRevision, jobs <- liveJobs, sources <- liveSources, invalid <- liveInvalid,
  overrides <- liveOverrides, runs <- liveRuns, projection <- liveProjection,
  phase <- livePhase, claim <- liveClaim, seen <- liveSeen, error <- liveError,
  search <- liveSearch, incarnation <- liveIncarnation, faults <- liveFaults,
  Lives <- {}, life <- [raw \in {"a", "b"} |-> "new"],
  lifeRead <- [w \in {"w1", "w2"} |-> [raw \in {"a", "b"} |-> "new"]],
  moved <- [w \in {"w1", "w2"} |-> {}]
Line == INSTANCE Pipeline WITH
  Profiles <- {"p1"}, Raws <- {"a"}, Overrides <- {"o1"}, NoOwner <- NoOwner,
  NoProfile <- "none", MaxRevision <- 2, Workers <- {"w1", "w2"}, Searches <- {"s1"},
  SearchProfile <- [s \in {"s1"} |-> "p1"], ProfileOf <- [raw \in {"a"} |-> "p1"],
  MaxDecisionAttempts <- 2, MaxNormalizationAttempts <- 2, revision <- lineRevision,
  jobs <- lineJobs, sources <- lineSources, invalid <- lineInvalid, overrides <- lineOverrides,
  runs <- lineRuns, projection <- lineProjection, phase <- linePhase, claim <- lineClaim,
  seen <- lineSeen, error <- lineError, search <- lineSearch, incarnation <- lineIncarnation,
  faults <- lineFaults

ASSUME PartsAssumptions ==
  /\ Pair!DecisionsAssumption /\ Live!DecisionsAssumption

varsPair == <<pairRevision, pairJobs, pairSources, pairInvalid, pairOverrides, pairRuns,
    pairProjection, pairPhase, pairClaim, pairSeen, pairError, pairSearch,
    pairIncarnation, pairFaults>>
varsLive == <<liveRevision, liveJobs, liveSources, liveInvalid, liveOverrides, liveRuns,
    liveProjection, livePhase, liveClaim, liveSeen, liveError, liveSearch,
    liveIncarnation, liveFaults>>
varsLine == <<lineRevision, lineJobs, lineSources, lineInvalid, lineOverrides, lineRuns,
    lineProjection, linePhase, lineClaim, lineSeen, lineError, lineSearch, rows, nPhase,
    nClaim, nError, turn, lineIncarnation, lineFaults>>

Parts ==
  {"one profile", "two profiles", "live search", "pipeline"}

RunInit ==
  /\ part \in Parts
  /\ Init
  /\ Pair!Init
  /\ Live!Init
  /\ Line!Init

(* Bound: the user has one of the listings dismissed at a time, and only   *)
(* in behaviours without a fault.                                          *)
OneDismissed ==
  LET dismissed == {raw \in Raws : life[raw] # "new"}
  IN  dismissed # {} => Cardinality(dismissed) = 1 /\ faults = 0

RunNext ==
  /\ UNCHANGED part
  /\ IF part = "one profile" THEN Next /\ OneDismissed' ELSE UNCHANGED vars
  /\ IF part = "two profiles" THEN Pair!Next ELSE UNCHANGED varsPair
  /\ IF part = "live search" THEN Live!Next ELSE UNCHANGED varsLive
  /\ IF part = "pipeline" THEN Line!Next ELSE UNCHANGED varsLine

runVars ==
  <<part, vars, varsPair, varsLive, varsLine>>
RunSpec == RunInit /\ [][RunNext]_runVars

(* The first instance alone, with and without the fairness of its workers.  *)
LaneSpec == part = "one profile" /\ RunSpec
FairLaneSpec == LaneSpec /\ Fairness
-----------------------------------------------------------------------------
(* What the components promise. *)

(* Of two profiles that decide at once each shows its own newest run, and  *)
(* a source is never among the canonicals of both.                         *)
ProfilesStayApart ==
  /\ [](part = "two profiles" => Pair!SourceInOneProjection)
  /\ Pair!ImplementsPublication

(* A live search that is recorded as completed names a decision run of its *)
(* profile that exists, and a worker that gives two lanes their turns      *)
(* works on one job at a time.                                             *)
SearchEndsWithARun ==
  /\ part = "live search" => Live!CompletionNamesARun
  /\ part = "pipeline" => Line!TypeOK

=============================================================================
