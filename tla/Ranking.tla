------------------------------ MODULE Ranking ------------------------------
(***************************************************************************)
(* The score of a canonical listing under a search profile: the hard       *)
(* constraints, the factors, the allocation of weights and contributions   *)
(* in whole basis points, the penalties, and the explanation.  The scoring *)
(* is a function of its input; the steps are what changes that input: the  *)
(* user edits the profile, later evidence adds or replaces a fact, time    *)
(* passes, risk indicators come and go.                                    *)
(*                                                                         *)
(* A factor code stands for its place in the order of codes.  The corpus   *)
(* evaluation supplies no absent features and no commute minutes, so the   *)
(* branches that read them are not reached.                                *)
(***************************************************************************)
EXTENDS Integers, FiniteSetsExt, Functions, SequencesExt

CONSTANTS
  None,
  Profiles,         \* search profiles the user may set
  Listings,         \* facts a listing may start with
  Evidence,         \* field -> values that may be learned of it
  Weight,           \* factorWeights, in basis points
  UnknownPenalty,   \* unknownPenaltyScoreBasisPoints
  StaleBands,       \* sequence of [olderThan, penalty]
  ConfidenceFloor, MaxConfidencePenalty,
  SeverityPenalty, MaxRiskPenalty,
  Feature,          \* text of an amenity -> its code, as normalizedFeature makes it
  MaxAge            \* bound on the age of the freshest observation, in days

Codes == DOMAIN Weight
BasisPoints == 0 .. 10000

ValidConfig ==
  /\ \A c \in Codes : Weight[c] \in BasisPoints
  /\ SumFunction(Weight) = 10000
  /\ {UnknownPenalty, ConfidenceFloor, MaxConfidencePenalty, MaxRiskPenalty} \subseteq BasisPoints
  /\ \A s \in DOMAIN SeverityPenalty : SeverityPenalty[s] \in BasisPoints
  /\ \A i \in DOMAIN StaleBands : /\ StaleBands[i].olderThan \in Nat /\ StaleBands[i].penalty \in BasisPoints
                                  /\ i > 1 => StaleBands[i].olderThan < StaleBands[i - 1].olderThan

\* SearchProfileSchema
ValidProfile(p) ==
  /\ None \notin {p.target, p.maximum} => p.target <= p.maximum
  /\ p.latest = None \/ p.latest \in Nat
  /\ \A a, b \in p.nice : a.code = b.code => a = b

RankingAssumption ==
  /\ ValidConfig /\ ConfidenceFloor > 0 /\ MaxAge \in Nat
  /\ \A p \in Profiles : ValidProfile(p)

VARIABLES
  profile,   \* the search profile
  listing,   \* the selected facts, None where unknown, and their confidences
  age,       \* days since the freshest observation
  risks      \* severities of the open risk signals, by indicator

vars == <<profile, listing, age, risks>>

-----------------------------------------------------------------------------
(* Hard constraints *)
Constraint(code, status) == [code |-> code, status |-> status]

\* Faulty: unknown fees are taken to be as high as they get.
BudgetConstraintAssumed(p, l) ==
  IF p.maximum = None THEN {}
  ELSE {Constraint("budget_exceeded",
          IF l.rent = None THEN "unknown"
          ELSE IF l.rent + (IF l.fees = None THEN 4 ELSE l.fees) > p.maximum THEN "failed" ELSE "passed")}

BudgetConstraint(p, l) ==
  IF p.maximum = None THEN {}
  ELSE {Constraint("budget_exceeded",
          CASE l.rent = None -> "unknown"
            [] l.rent # None /\ l.rent > p.maximum -> "failed"
            [] l.rent # None /\ l.rent <= p.maximum /\ l.fees = None -> "unknown"
            [] OTHER -> IF l.rent + l.fees > p.maximum THEN "failed" ELSE "passed")}

MinimumConstraint(code, minimum, observed) ==
  IF minimum = None THEN {}
  ELSE {Constraint(code, IF observed = None THEN "unknown" ELSE IF observed < minimum THEN "failed" ELSE "passed")}

Permission(l, animal) == IF l.pets = None \/ animal \notin {"cat", "dog"} THEN "unknown" ELSE l.pets[animal]

PetConstraint(l, animal) ==
  Constraint("pets_explicitly_disallowed",
    CASE Permission(l, animal) = "unknown" -> "unknown"
      [] Permission(l, animal) = "not_allowed" -> "failed"
      [] Permission(l, animal) = "allowed" -> "passed")

\* The text of an amenity is compared with the code as it is written, up to
\* case; a feature that is not found is unknown.
FeatureConstraint(l, required) ==
  [code |-> "required_feature_absent", status |-> IF required \in l.amenities THEN "passed" ELSE "unknown"]

MoveInConstraint(p, l) ==
  IF p.latest = None THEN {}
  ELSE {Constraint("availability_after_latest_move_in",
          IF l.available = None THEN "unknown" ELSE IF l.available > p.latest THEN "failed" ELSE "passed")}

HardConstraints(p, l) ==
  BudgetConstraint(p, l)
    \cup MinimumConstraint("bedrooms_below_minimum", p.bedrooms, l.bedrooms)
    \cup MinimumConstraint("bathrooms_below_minimum", p.bathrooms, l.bathrooms)
    \cup {PetConstraint(l, animal) : animal \in p.pets}
    \cup MoveInConstraint(p, l)
    \cup {FeatureConstraint(l, required) : required \in p.required}

Eligible(p, l) == \A c \in HardConstraints(p, l) : c.status # "failed"

-----------------------------------------------------------------------------
(* Factors: a score in basis points, or None while unknown *)
Round(n, d) == (2 * n + d) \div (2 * d)
Clamp(n) == Max({0, Min({10000, n})})

\* Faulty: the distance from the target, instead of that to the maximum.
CostFromTarget(p, l) ==
  IF (p.target = None /\ p.maximum = None) \/ l.rent = None \/ l.fees = None THEN None
  ELSE LET total == l.rent + l.fees
       IN  CASE p.maximum # None /\ total >= p.maximum -> IF total > p.maximum THEN 0 ELSE 2500
             [] p.maximum # None /\ total < p.maximum /\ p.target # None /\ total > p.target ->
                  Round((total - p.target) * 7500, p.maximum - p.target) + 2500
             [] OTHER -> IF p.target = None \/ total <= p.target THEN 10000 ELSE 5000

Cost(p, l) ==
  IF (p.target = None /\ p.maximum = None) \/ l.rent = None \/ l.fees = None THEN None
  ELSE LET total == l.rent + l.fees
       IN  Clamp(CASE p.maximum # None /\ total >= p.maximum -> IF total > p.maximum THEN 0 ELSE 2500
                   [] p.maximum # None /\ total < p.maximum /\ p.target # None /\ total > p.target ->
                        Round((p.maximum - total) * 7500, p.maximum - p.target) + 2500
                   [] OTHER -> IF p.target = None \/ total <= p.target THEN 10000 ELSE 5000)

\* Faulty: more rooms than asked for always count for more.
MinimumUncapped(minimum, observed) ==
  IF None \in {minimum, observed} THEN None
  ELSE IF observed < minimum THEN 0 ELSE 8000 + (observed - minimum) * 1000

Minimum(minimum, observed) ==
  IF None \in {minimum, observed} THEN None
  ELSE IF observed < minimum THEN 0 ELSE Min({10000, 8000 + (observed - minimum) * 1000})

\* Faulty: the latest day itself is too late.
MoveInBefore(p, l) ==
  IF (p.earliest = None /\ p.latest = None) \/ l.available = None THEN None
  ELSE IF p.latest # None /\ l.available >= p.latest THEN 0 ELSE 10000

MoveIn(p, l) ==
  IF (p.earliest = None /\ p.latest = None) \/ l.available = None THEN None
  ELSE IF p.latest # None /\ l.available > p.latest THEN 0 ELSE 10000

Pets(p, l) ==
  LET permissions == {Permission(l, animal) : animal \in p.pets}
  IN  IF p.pets = {} THEN None
      ELSE IF "not_allowed" \in permissions THEN 0
      ELSE IF "unknown" \in permissions THEN None ELSE 10000

MustHaves(p, l) ==
  LET relevant == {c \in HardConstraints(p, l) : c.code = "required_feature_absent"}
  IN  IF relevant = {} THEN None
      ELSE IF \E c \in relevant : c.status = "unknown" THEN None ELSE 10000

\* A preference of unknown presence counts only if the user penalizes that.
NiceScore(l, preference) ==
  IF preference.code \in {Feature[t] : t \in l.amenities} THEN 10000
  ELSE IF preference.penalize THEN UnknownPenalty ELSE None

NiceToHaves(p, l) ==
  LET effective == {q \in p.nice : NiceScore(l, q) # None}
      total == MapThenSumSet(LAMBDA q : q.weight, effective)
  IN  IF total = 0 THEN None
      ELSE Round(MapThenSumSet(LAMBDA q : NiceScore(l, q) * q.weight, effective), total)

\* Without commute minutes the factor is unknown.
Commute(p, l) == None

\* The factors in the order of their codes
Factors(p, l) ==
  [c \in Codes |->
     CASE c = 1 -> Minimum(p.bathrooms, l.bathrooms)
       [] c = 2 -> Minimum(p.bedrooms, l.bedrooms)
       [] c = 3 -> Commute(p, l)
       [] c = 4 -> Cost(p, l)
       [] c = 5 -> MoveIn(p, l)
       [] c = 6 -> MustHaves(p, l)
       [] c = 7 -> NiceToHaves(p, l)
       [] c = 8 -> Pets(p, l)]

-----------------------------------------------------------------------------
(* Allocation and penalties *)

\* Faulty: the units that are left go round in the order of codes.
LargestRemainderInOrder(effective, numerator, total, target) ==
  LET floor == [c \in Codes |-> IF c \in effective THEN numerator[c] \div total ELSE 0]
  IN  [c \in Codes |-> floor[c] + IF c <= target - SumFunction(floor) THEN 1 ELSE 0]

\* The whole parts, and one unit more for the largest remainders
LargestRemainder(effective, numerator, total, target) ==
  LET floor == [c \in Codes |-> IF c \in effective THEN numerator[c] \div total ELSE 0]
      rest == [c \in Codes |-> IF c \in effective THEN numerator[c] % total ELSE 0]
      before(c) == {d \in Codes : rest[d] > rest[c] \/ (rest[d] = rest[c] /\ d < c)}
  IN  [c \in Codes |-> floor[c] + IF Cardinality(before(c)) < target - SumFunction(floor) THEN 1 ELSE 0]

Allocation(p, l) ==
  LET factor == Factors(p, l)
      effective == {c \in Codes : factor[c] # None}
      weighted == [c \in effective |-> factor[c] * Weight[c]]
      total == SumFunctionOnSet(Weight, effective)
      base == Round(SumFunction(weighted), total)
  IN  IF total = 0 THEN [base |-> 0, weights |-> [c \in Codes |-> 0], contributions |-> [c \in Codes |-> 0]]
      ELSE [base |-> base,
            weights |-> LargestRemainder(effective, [c \in effective |-> Weight[c] * 10000], total, 10000),
            contributions |-> LargestRemainder(effective, weighted, total, base)]

StalePenalty(days) ==
  LET bands == {i \in DOMAIN StaleBands : days > StaleBands[i].olderThan}
  IN  IF bands = {} THEN 0 ELSE StaleBands[Min(bands)].penalty

LowConfidencePenalty(l) ==
  LET n == Len(l.confidences)
      average == Round(SumFunction(l.confidences), n)
  IN  IF n = 0 THEN MaxConfidencePenalty
      ELSE IF average >= ConfidenceFloor THEN 0
      ELSE Min({MaxConfidencePenalty, Round((ConfidenceFloor - average) * MaxConfidencePenalty, ConfidenceFloor)})

RiskPenalty(severities) ==
  Min({MaxRiskPenalty, SumFunction([i \in DOMAIN severities |-> SeverityPenalty[severities[i]]])})

FinalScore(p, l, days, severities) ==
  Max({0, Allocation(p, l).base - StalePenalty(days) - LowConfidencePenalty(l) - RiskPenalty(severities)})

-----------------------------------------------------------------------------
(* What changes the input *)
Init == profile \in Profiles /\ listing \in Listings /\ age = 0 /\ risks = <<>>

UpdateProfile(p) == profile' = p /\ UNCHANGED <<listing, age, risks>>

\* A later decision selects a value for a field: new evidence is fresh.
Select(field, value) ==
  /\ listing[field] # value
  /\ listing' = [listing EXCEPT ![field] = value]
  /\ age' = 0 /\ UNCHANGED <<profile, risks>>

Age == age < MaxAge /\ age' = age + 1 /\ UNCHANGED <<profile, listing, risks>>

Assess(severities) == risks' = severities /\ UNCHANGED <<profile, listing, age>>

Next ==
  \/ \E p \in Profiles : UpdateProfile(p)
  \/ \E f \in DOMAIN Evidence : \E v \in Evidence[f] : Select(f, v)
  \/ Age
  \/ \E s \in DOMAIN SeverityPenalty : \E n \in 0 .. 2 : Assess([i \in 1 .. n |-> s])

Spec == Init /\ [][Next]_vars

-----------------------------------------------------------------------------
(* Properties *)

\* The penalties and the score are basis points, as the schema of a score
\* demands.
TypeOK ==
  /\ profile \in Profiles /\ age \in 0 .. MaxAge
  /\ Allocation(profile, listing).base \in BasisPoints
  /\ \A c \in Codes : Factors(profile, listing)[c] \in BasisPoints \cup {None}
  /\ {LowConfidencePenalty(listing), RiskPenalty(risks), StalePenalty(age)} \subseteq BasisPoints

\* Whole basis points add up: the normalized weights to all of it, the
\* contributions to the base score, and a factor that is unknown or has no
\* weight gets none of either.
AllocationAddsUp ==
  LET a == Allocation(profile, listing)
      factor == Factors(profile, listing)
  IN  /\ SumFunction(a.weights) \in {0, 10000} /\ SumFunction(a.contributions) = a.base
      /\ \A c \in Codes : factor[c] = None \/ Weight[c] = 0 => a.weights[c] = 0 /\ a.contributions[c] = 0

\* Constraints and factors judge alike: a factor is zero only for a listing
\* that is ruled out, and what is ruled out has a factor that is zero or
\* still unknown.
ZeroFactorsAreRuledOut ==
  LET factor == Factors(profile, listing)
  IN  /\ (\E c \in Codes : factor[c] = 0) => ~Eligible(profile, listing)
      /\ ~Eligible(profile, listing) => \E c \in Codes : factor[c] = 0 \/ (c = 4 /\ factor[c] = None)

\* More evidence never rescues a listing: once known facts rule it out, a
\* fact that was unknown does not make it eligible.
KnownFactsRuleOut ==
  [][profile' = profile /\ listing' # listing /\ ~Eligible(profile, listing)
       /\ (\A f \in DOMAIN Evidence : listing[f] # None => listing'[f] = listing[f])
     => ~Eligible(profile', listing')]_vars

\* A listing whose rent falls, all else equal, does not lose score, and does
\* not become ineligible.
CheaperIsNoWorse ==
  [][profile' = profile /\ None \notin {listing.rent, listing'.rent} /\ listing' = [listing EXCEPT !.rent = listing'.rent]
       /\ listing'.rent < listing.rent
     => /\ FinalScore(profile, listing', age, risks) >= FinalScore(profile, listing, age, risks)
        /\ Eligible(profile, listing) => Eligible(profile, listing')]_vars
=============================================================================
