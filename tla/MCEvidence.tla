----------------------------- MODULE MCEvidence -----------------------------
(***************************************************************************)
(* Normalization and what is computed from the evidence it stores, on      *)
(* small instances: risks, scores, duplicates, the canonical listings,     *)
(* enrichment and the policies of the sources.  In this run they share no  *)
(* state: part names the component that moves and the others stay as they  *)
(* started.                                                                *)
(***************************************************************************)
EXTENDS Normalization, TLC

CONSTANTS p1, stray     \* a profile, and a listing that belongs to none

AllButStray == [raw \in Raws |-> IF raw = stray THEN NoProfile ELSE p1]
Symmetric == Permutations(Raws \ {stray}) \cup Permutations(Workers)

CONSTANT None  \* nothing known

VARIABLES
  part, \* the component that moves in this behaviour
  facts, arrived, riskRevision, job, history, touches,  \* Risk
  profile, listing, age, risks,  \* Scores
  corpus,  \* Pairs
  record, enrichJob, work, drains, active, asking, requests, crashes,  \* Enrich
  stored, seeding, switches, steps,  \* Policy
  groupRevision, groupSources, groupInvalid, groupOverrides, asked, groupRows, snap, decided,
  moves,  \* Group
  demoGroupRevision, demoGroupSources, demoGroupInvalid, demoGroupOverrides, demoGroupAsked,
  demoGroupRows, demoGroupSnap, demoGroupDecided, demoGroupMoves,  \* DemoGroup
  repairedRevision, repairedSources, repairedInvalid, repairedOverrides, repairedAsked,
  repairedRows, repairedSnap, repairedDecided, repairedMoves  \* Repaired

(* Corpora of five sources of four listings: photos that travel between     *)
(* addresses, the same rules met by several sources, sources that differ,   *)
(* listings far below the others.  Prices are in hundreds of dollars.       *)
Plain == [language |-> {}, links |-> {}, rent |-> 20, fee |-> None, bedrooms |-> 1,
          bathrooms |-> None, address |-> None, photos |-> {}]
At(address, photos) == [Plain EXCEPT !.address = address, !.photos = photos]
Pictures == <<At("a", {{1, 2, 3}}), At("a", {{7, 8}, {1}}), At("b", {{1, 2}}),
              At("c", {{9, 10, 11}, {1, 2, 3}}), At("b", {{1, 2, 3, 4, 5}})>>
Words ==
  <<[Plain EXCEPT !.language = {"deposit_before_viewing"}, !.links = {"shortener"}],
    [Plain EXCEPT !.links = {"scheme"},
                  !.language = {"deposit_before_viewing", "suspicious_off_platform_contact"}],
    [Plain EXCEPT !.language = {"pressure_or_refusal_to_show"}], Plain, Plain>>
Prices ==
  <<[Plain EXCEPT !.rent = 20, !.fee = 4, !.bedrooms = 3], [Plain EXCEPT !.rent = 26, !.fee = 1],
    [Plain EXCEPT !.rent = 6], [Plain EXCEPT !.rent = 21],
    [Plain EXCEPT !.rent = 5, !.address = "d"]>>
Cheap == [s \in 1..5 |-> [Plain EXCEPT !.rent = <<5, 5, 6, 20, 22>>[s]]]

(* Three profiles and the listings they are shown, with default penalties.  *)
Bands == <<[olderThan |-> 2, penalty |-> 1500], [olderThan |-> 1, penalty |-> 750],
           [olderThan |-> 0, penalty |-> 250]>>
Texts == "parking" :> "parking" @@ "air conditioning" :> "air_conditioning"
Anybody == [target |-> None, maximum |-> None, bedrooms |-> None, bathrooms |-> None,
            earliest |-> None, latest |-> None, pets |-> {}, required |-> {}, nice |-> {}]
Prefers(code, weight, penalize) == [code |-> code, weight |-> weight, penalize |-> penalize]
Searchers ==
  {Anybody,
   [Anybody EXCEPT !.target = 20, !.maximum = 27, !.bedrooms = 1, !.required = {"parking"},
      !.nice = {Prefers("air_conditioning", 7000, TRUE), Prefers("dishwasher", 3000, FALSE)}],
   [Anybody EXCEPT !.maximum = 24, !.bathrooms = 2, !.latest = 2, !.pets = {"cat", "dog"},
      !.required = {"air_conditioning"}, !.nice = {Prefers("parking", 3000, FALSE)}]}
Silent == [rent |-> None, fees |-> None, bedrooms |-> None, bathrooms |-> None,
           available |-> None, pets |-> None, amenities |-> {}, confidences |-> <<>>]
Offers == {Silent, [Silent EXCEPT !.confidences = <<9000, 3333>>, !.bathrooms = 1]}
News ==
  [rent |-> {20, 24, 28}, fees |-> {0, 2}, bedrooms |-> {4}, available |-> {2, 3},
   pets |-> {[cat |-> "not_allowed", dog |-> "unknown"]},
   amenities |-> {{"air conditioning", "parking"}}]

(* One apartment seen by two sources, its neighbour, one agent's other      *)
(* offer, and two messages that say nothing to compare by.                  *)
PairWeights ==
  [address |-> 2500, geographic |-> 1000, rent |-> 1500, beds_baths |-> 1000,
   square_feet |-> 750, text |-> 1250, photo |-> 1500, posting_time |-> 500]
Street(n) == [text |-> n, words |-> {n, "elm", "street"}, trigrams |-> {n, "elm", "str", "tre"}]
Avenue == [text |-> "9 oak", words |-> {"9", "oak"}, trigrams |-> {"oak"}]
Photo(byte, bits) == [byte |-> byte, bits |-> bits]
Bare == [src |-> "zillow", lid |-> None, url |-> None, address |-> None, unit |-> None,
         city |-> None, postal |-> None, contacts |-> {}, photos |-> {}, place |-> None,
         rent |-> None, beds |-> None, baths |-> None, area |-> None, words |-> {}, posted |-> None]
Listed == [Bare EXCEPT !.src = "craigslist"]
SomeFacts ==
  <<[Bare EXCEPT !.lid = "z1", !.address = Street("12"), !.unit = "a", !.city = "b", !.rent = 2000,
       !.beds = 2, !.contacts = {"agent"}, !.photos = {Photo("p", {1, 2})}, !.place = 100,
       !.words = {"sunny", "quiet"}, !.posted = 10, !.baths = 2, !.area = 800],
    [Listed EXCEPT !.address = Street("12"), !.city = "b", !.rent = 2050, !.beds = 2,
       !.contacts = {"agent"}, !.photos = {Photo(None, {1, 2, 3, 4, 5})}, !.place = 130,
       !.words = {"sunny"}, !.posted = 40, !.baths = 3, !.area = 700],
    [Bare EXCEPT !.lid = "z2", !.address = Street("14"), !.unit = "b", !.city = "b",
       !.rent = 2000, !.beds = 2, !.place = 150],
    [Bare EXCEPT !.src = "facebook", !.contacts = {"agent"}, !.words = {"sunny", "quiet"}],
    [Listed EXCEPT !.address = Avenue, !.city = "b", !.photos = {Photo("p", {9})}],
    [Listed EXCEPT !.words = {"room"}],
    [Listed EXCEPT !.words = {"room"}]>>

(* A release as it is seeded, one that retracts the capture and adds an     *)
(* experiment, and one that forgot to raise a version.                      *)
Manifest == INSTANCE SourcePolicies WITH Releases <- <<>>, Keys <- {}, MaxSteps <- 0
Manual == Manifest!ManualCapture
SomeReleases ==
  "first" :> <<Manual, Manifest!RentCast, Manifest!DisabledLabel("zillow")>>
    @@ "retracts" :> <<[Manual EXCEPT !.version = 2, !.state = "disabled", !.enabled = FALSE],
                       Manifest!GoogleCalendar, Manifest!ZillowCurrentTab>>
    @@ "forgets" :> <<Manifest!RentCast, [Manual EXCEPT !.session = TRUE]>>
SomeKeys == {"integrations.disabled", "browser.disabled", Manual.key,
             Manifest!ZillowCurrentTab.key, Manifest!GmailAlerts.key}

Risk == INSTANCE Risks WITH
  Sources <- 1..5, Home <- <<1, 1, 3, 4, 5>>, Corpora <- {Pictures, Words, Prices, Cheap},
  PhotoDistance <- 1, RentMinimum <- 2, RentPercent <- 10, FeeMinimum <- 1, FeePercent <- 20,
  RoomMinimum <- 1, OutlierComparables <- 3, OutlierRatio <- 60, OutlierZ <- 30000,
  MaxEvidence <- 4, MaxAttempts <- 2, MaxTouches <- 1, revision <- riskRevision
Scores == INSTANCE Ranking WITH
  Profiles <- Searchers, Listings <- Offers, Evidence <- News,
  Weight <- <<750, 1000, 1000, 3000, 1250, 1000, 1000, 1000>>, UnknownPenalty <- 2500,
  StaleBands <- Bands, ConfidenceFloor <- 7000, MaxConfidencePenalty <- 1500,
  SeverityPenalty <- [medium |-> 750, high |-> 2000], MaxRiskPenalty <- 3000, Feature <- Texts,
  MaxAge <- 0
Pairs == INSTANCE Duplicates WITH
  Facts <- SomeFacts, Rents <- {2100, 2200, 2600}, Weight <- PairWeights,
  LinkThreshold <- 7500, ReviewThreshold <- 6000, MaxCandidatePairs <- 6, FallbackBlockSize <- 2
Enrich == INSTANCE ListingEnrichment WITH
  Records <- {"r1"}, Requesters <- {"q1", "q2"}, MaxRequests <- 2, MaxClaims <- 4,
  MaxCrashes <- 1, MaxDrains <- 2, Concurrency <- 2, MayOverrun <- TRUE, job <- enrichJob
Policy == INSTANCE SourcePolicies WITH
  Releases <- SomeReleases, Keys <- SomeKeys, MaxSteps <- 3
Group == INSTANCE Canonicals WITH
  Sources <- 1..3, Links <- <<{2, 3}, {1, 2}>>, Rank <- <<1, 2, 3>>, Store <- "postgres",
  Kinds <- {"merge", "split"}, Lives <- {"dismissed"}, MaxOverrides <- 2, MaxRevision <- 5,
  MaxMoves <- 1, Repairs <- 0, revision <- groupRevision, sources <- groupSources, invalid <- groupInvalid,
  overrides <- groupOverrides, rows <- groupRows
DemoGroup == INSTANCE Canonicals WITH
  Sources <- 1..3, Links <- <<>>, Rank <- <<1, 2, 3>>, Store <- "sqlite",
  Kinds <- {"merge", "split"}, Lives <- {}, MaxOverrides <- 2, MaxRevision <- 5, MaxMoves <- 0,
  Repairs <- 0, revision <- demoGroupRevision, sources <- demoGroupSources,
  invalid <- demoGroupInvalid, overrides <- demoGroupOverrides, asked <- demoGroupAsked,
  rows <- demoGroupRows, snap <- demoGroupSnap, decided <- demoGroupDecided,
  moves <- demoGroupMoves
Repaired == INSTANCE Canonicals WITH
  Sources <- 1..3, Links <- <<{1, 2}>>, Rank <- <<1, 2, 3>>, Store <- "postgres",
  Kinds <- {"merge", "split"}, Lives <- {}, MaxOverrides <- 1, MaxRevision <- 5, MaxMoves <- 0,
  Repairs <- 1, revision <- repairedRevision, sources <- repairedSources,
  invalid <- repairedInvalid, overrides <- repairedOverrides, asked <- repairedAsked,
  rows <- repairedRows, snap <- repairedSnap, decided <- repairedDecided, moves <- repairedMoves

ASSUME PartsAssumptions ==
  /\ Risk!RisksAssumption /\ Scores!RankingAssumption
  /\ Pairs!DuplicatesAssumption /\ Enrich!EnrichmentAssumption
  /\ Policy!SourcePoliciesAssumption /\ Group!CanonicalsAssumption
  /\ DemoGroup!CanonicalsAssumption /\ Repaired!CanonicalsAssumption

varsRisk == <<facts, arrived, riskRevision, job, history, touches>>
varsScores == <<profile, listing, age, risks>>
varsPairs == <<corpus>>
varsEnrich == <<record, enrichJob, work, drains, active, asking, requests, crashes>>
varsPolicy == <<stored, seeding, switches, steps>>
varsGroup == <<groupRevision, groupSources, groupInvalid, groupOverrides, asked, groupRows, snap,
    decided, moves>>
varsDemoGroup == <<demoGroupRevision, demoGroupSources, demoGroupInvalid, demoGroupOverrides,
    demoGroupAsked, demoGroupRows, demoGroupSnap, demoGroupDecided, demoGroupMoves>>
varsRepaired == <<repairedRevision, repairedSources, repairedInvalid, repairedOverrides, repairedAsked,
    repairedRows, repairedSnap, repairedDecided, repairedMoves>>

Parts ==
  {"normalization", "risks", "ranking", "duplicates", "enrichment", "policies", "canonicals",
   "canonicals of the demo", "repaired canonicals"}

RunInit ==
  /\ part \in Parts
  /\ Init
  /\ Risk!Init /\ (part # "risks" => facts = Words)
  /\ Scores!Init /\ (part # "ranking" => profile = Anybody /\ listing = Silent)
  /\ Pairs!Init
  /\ Enrich!Init
  /\ Policy!Init
  /\ Group!Init
  /\ DemoGroup!Init
  /\ Repaired!Init

RunNext ==
  /\ UNCHANGED part
  /\ IF part = "normalization" THEN Next ELSE UNCHANGED vars
  /\ IF part = "risks" THEN Risk!Next ELSE UNCHANGED varsRisk
  /\ IF part = "ranking" THEN Scores!Next ELSE UNCHANGED varsScores
  /\ IF part = "duplicates" THEN Pairs!Next ELSE UNCHANGED varsPairs
  /\ IF part = "enrichment" THEN Enrich!Next ELSE UNCHANGED varsEnrich
  /\ IF part = "policies" THEN Policy!Next ELSE UNCHANGED varsPolicy
  /\ IF part = "canonicals" THEN Group!Next ELSE UNCHANGED varsGroup
  /\ IF part = "canonicals of the demo" THEN DemoGroup!Next ELSE UNCHANGED varsDemoGroup
  /\ IF part = "repaired canonicals" THEN Repaired!Next ELSE UNCHANGED varsRepaired

runVars ==
  <<part, vars, varsRisk, varsScores, varsPairs, varsEnrich, varsPolicy, varsGroup,
    varsDemoGroup, varsRepaired>>
RunSpec == RunInit /\ [][RunNext]_runVars

(* Normalization alone.                                                     *)
LaneSpec == part = "normalization" /\ RunSpec
(* Risks alone.                                                             *)
RiskSpec == part = "risks" /\ RunSpec
-----------------------------------------------------------------------------
(* What the components promise. *)

(* A risk is signalled once per indicator, a reused photo is held against  *)
(* both listings and outliers are a minority; a score adds up to its       *)
(* allocation, a factor of no weight rules out, known facts rule out for   *)
(* good, and a cheaper listing ranks no worse.                             *)
EvidenceIsJudged ==
  /\ [](part = "risks" =>
       /\ Risk!TypeOK /\ Risk!OneSignalPerIndicator
       /\ Risk!PhotoReuseIsMutual /\ Risk!OutliersAreAMinority)
  /\ [](part = "ranking" =>
       Scores!TypeOK /\ Scores!AllocationAddsUp /\ Scores!ZeroFactorsAreRuledOut)
  /\ Scores!KnownFactsRuleOut
  /\ Scores!CheaperIsNoWorse

(* docs/DECISIONS/0008-versioned-decision-reconciliation.md:56: signals     *)
(* "are recomputed with" the revision.  A revision is decided whatever its *)
(* listings showed before.                                                 *)
RevisionIsDecided == Risk!RevisionIsDecided

(* Records that share an identity are compared, links rest on an anchor,   *)
(* comparisons only grow and a closer rent is no worse; whatever the order *)
(* of sources, overrides and repairs, a source is on one listing, splits   *)
(* are kept, linked records stay together unless split, merges come first, *)
(* a listing keeps its identity, and the state the user gave it but for    *)
(* what a snapshot read before the user's move.                            *)
ListingsAreKept ==
  /\ [](part = "duplicates" =>
       Pairs!TypeOK /\ Pairs!IdentitiesAreCompared /\ Pairs!LinksAreAnchored)
  /\ Pairs!ComparisonsOnlyGrow
  /\ Pairs!CloserRentIsNoWorse
  /\ [](part = "canonicals" =>
       Group!TypeOK /\ Group!OneListingPerSource /\ Group!SplitsAreKept /\ Group!LinkedUnlessSplit /\ Group!MergesComeFirst)
  /\ Group!IdentityIsKept
  /\ Group!DecidedAtItsRevision
  /\ Group!LifeIsKept
  /\ [](part = "canonicals of the demo" =>
       DemoGroup!OneListingPerSource /\ DemoGroup!RedirectsLeadToActive)
  /\ [](part = "repaired canonicals" => Repaired!OneListingPerSource)
  /\ Repaired!IdentityIsKept

(* A lease of an enrichment has its job, its snapshots move forward; a     *)
(* retracted policy stays retracted, activation widens nothing, a version  *)
(* never changes and a switch only refuses.                                *)
SourcesAreFollowed ==
  /\ [](part = "enrichment" => Enrich!TypeOK /\ Enrich!LeasePair)
  /\ Enrich!SnapshotsMoveForward
  /\ [](part = "policies" =>
       Policy!TypeOK /\ Policy!RetractionsHold /\ Policy!ActivationWidensNothing)
  /\ Policy!VersionsNeverChange
  /\ Policy!SwitchesOnlyRefuse

=============================================================================
