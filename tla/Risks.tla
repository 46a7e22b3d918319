------------------------------- MODULE Risks -------------------------------
(***************************************************************************)
(* Risk indicators: the language rules on each description, the rules that *)
(* compare the sources of a listing with each other and with the other     *)
(* listings, their merge to one signal per listing and indicator, and the  *)
(* rows a decision appends to the history of signals.  The identity of a   *)
(* row is a hash of what the signal says: version, listing, indicator,     *)
(* evidence.  Text is reduced to the rules it matches, a perceptual hash   *)
(* to the set of its bits, and hashes of contents to the contents.         *)
(***************************************************************************)
EXTENDS Integers, FiniteSetsExt, SequencesExt

CONSTANTS
  Sources,           \* source records, numbered in the order of their ids
  Home,              \* source -> the listing it is clustered into
  Corpora,           \* the functions from sources to facts that are explored
  None,
  PhotoDistance,     \* reusedPhotoMaximumHammingDistance
  RentMinimum, RentPercent, FeeMinimum, FeePercent, RoomMinimum,
  OutlierComparables, OutlierRatio, OutlierZ,
  MaxEvidence,       \* items a signal keeps as evidence
  MaxAttempts,       \* DECISION_MAXIMUM_ATTEMPTS
  MaxTouches         \* bound on revisions that bring no new source

ValidConfig ==
  /\ {RentMinimum, RentPercent, FeeMinimum, FeePercent, RoomMinimum, OutlierComparables,
      OutlierRatio, OutlierZ} \subseteq Nat \ {0}
  /\ OutlierRatio < 100 /\ PhotoDistance \in 0 .. 64

RisksAssumption ==
  /\ Sources \subseteq Nat /\ Home \in [Sources -> Nat] /\ ValidConfig
  /\ {MaxEvidence, MaxAttempts} \subseteq Nat \ {0} /\ MaxTouches \in Nat

VARIABLES
  facts,     \* source -> what was normalized from it
  arrived,   \* the source records of the corpus
  revision,
  job,       \* state and attempts of the decision job of this revision
  history,   \* rows of risk_signals
  touches

vars == <<facts, arrived, revision, job, history, touches>>

-----------------------------------------------------------------------------
(* Rules *)

\* The rules on descriptions, with the severity and confidence each reports
Severity(code) ==
  IF code \in {"suspicious_payment_method", "deposit_before_viewing", "out_of_country_courier_keys"}
  THEN 3 ELSE 2
Confidence(code) ==
  CASE code \in {"suspicious_payment_method", "deposit_before_viewing"} -> 95
    [] code \in {"pressure_or_refusal_to_show", "missing_address_extreme_low_price"} -> 85
    [] code = "suspicious_off_platform_contact" -> 80
    [] OTHER -> 90

Candidate(code, evidence, action) ==
  [code |-> code, severity |-> Severity(code), confidence |-> Confidence(code),
   evidence |-> evidence, action |-> action]
Excerpt(s, field, says) == [source |-> s, field |-> field, says |-> says]

\* The reason given for a link is that of the first one that is unusual.
LinkAction(links) == IF "scheme" \in links THEN "scheme" ELSE SetToSortSeq(links, LAMBDA a, b : FALSE)[1]

LanguageCandidates(s) ==
  LET f == facts[s]
  IN  {Candidate(code, {Excerpt(s, "description", code)}, code) : code \in f.language}
        \cup IF f.links = {} THEN {}
             ELSE {Candidate("unusual_external_link", {Excerpt(s, "description", LinkAction(f.links))},
                             LinkAction(f.links))}

Listings(corpus) == {Home[s] : s \in corpus}
Members(corpus, c) == {s \in corpus : Home[s] = c}

SumOfBits(a, b) == Cardinality((a \ b) \cup (b \ a))
PhotosNear(a, b) == \E x \in facts[a].photos, y \in facts[b].photos : SumOfBits(x, y) <= PhotoDistance
Best(a, b) == Min({SumOfBits(x, y) : x \in facts[a].photos, y \in facts[b].photos})

Abs(n) == IF n < 0 THEN -n ELSE n
Material(a, b, minimum, percent) ==
  /\ None \notin {a, b}
  /\ Abs(a - b) > minimum /\ Abs(a - b) * 100 > Max({a, b}) * percent

Differences(a, b) ==
  {field \in {"rent", "fee", "bedrooms", "bathrooms"} :
     LET x == facts[a][field]
         y == facts[b][field]
     IN  CASE field = "rent" -> Material(x, y, RentMinimum, RentPercent)
           [] field = "fee" -> Material(x, y, FeeMinimum, FeePercent)
           [] OTHER -> None \notin {x, y} /\ Abs(x - y) >= RoomMinimum}

\* What two sources have to do with each other
Says(p, field) == IF field = "photoHashes" THEN Best(p[1], p[2]) ELSE Differences(p[1], p[2])

\* Faulty: the limit counts pairs.
KeptPairs(pairs, field) ==
  UNION {{Excerpt(p[1], field, Says(p, field)), Excerpt(p[2], field, Says(p, field))} : p \in pairs}

\* The first pairs, two items of evidence each
Kept(pairs, field) ==
  LET ordered == SetToSortSeq(pairs, LAMBDA p, q : p[1] < q[1] \/ (p[1] = q[1] /\ p[2] < q[2]))
      kept == ToSet(SubSeq(ordered, 1, Min({Len(ordered), MaxEvidence \div 2})))
  IN  UNION {{Excerpt(p[1], field, Says(p, field)), Excerpt(p[2], field, Says(p, field))} : p \in kept}

\* Faulty: a listing is compared with later ones only.
ReusedPairsLater(corpus, c) ==
  {p \in Members(corpus, c) \X corpus :
     /\ Home[p[2]] > c
     /\ None \notin {facts[p[1]].address, facts[p[2]].address}
     /\ facts[p[1]].address # facts[p[2]].address /\ PhotosNear(p[1], p[2])}

ReusedPairs(corpus, c) ==
  {p \in Members(corpus, c) \X corpus :
     /\ Home[p[2]] # c
     /\ None \notin {facts[p[1]].address, facts[p[2]].address}
     /\ facts[p[1]].address # facts[p[2]].address /\ PhotosNear(p[1], p[2])}

InconsistentPairs(corpus, c) ==
  {p \in Members(corpus, c) \X Members(corpus, c) : p[1] < p[2] /\ Differences(p[1], p[2]) # {}}

\* Half way, rounded up, between the two in the middle
Median(numbers) ==
  LET sorted == SetToSortSeq({<<numbers[i], i>> : i \in DOMAIN numbers},
                             LAMBDA a, b : a[1] < b[1] \/ (a[1] = b[1] /\ a[2] < b[2]))
      middle == Len(sorted) \div 2
  IN  IF Len(sorted) % 2 = 1 THEN sorted[middle + 1][1]
      ELSE (sorted[middle][1] + sorted[middle + 1][1] + 1) \div 2

Rent(corpus, c) ==
  LET known == {s \in Members(corpus, c) : facts[s].rent # None}
  IN  IF known = {} THEN None ELSE Median([s \in known |-> facts[s].rent])

\* Faulty: any rent that deviates is an outlier.
LowAnyway(rent, rents) == Cardinality(DOMAIN rents) >= OutlierComparables

Low(rent, rents) ==
  LET median == Median(rents)
      deviation == Median([c \in DOMAIN rents |-> Abs(rents[c] - median)])
  IN  /\ Cardinality(DOMAIN rents) >= OutlierComparables
      /\ rent * 100 <= median * OutlierRatio
      /\ deviation = 0 \/ (median - rent) * 6745 >= deviation * OutlierZ

Outlier(corpus, c) ==
  LET rented == {d \in Listings(corpus) : Rent(corpus, d) # None}
  IN  /\ \A s \in Members(corpus, c) : facts[s].address = None
      /\ c \in rented /\ Low(Rent(corpus, c), [d \in rented |-> Rent(corpus, d)])

ComparativeCandidates(corpus, c) ==
  LET reused == ReusedPairs(corpus, c)
      inconsistent == InconsistentPairs(corpus, c)
  IN  {Candidate("reused_photos_different_addresses", Kept(reused, "photoHashes"), "verify") :
         x \in {y \in {reused} : y # {}}}
        \cup {Candidate("material_duplicate_inconsistency", Kept(inconsistent, "duplicateCluster"), "verify") :
                x \in {y \in {inconsistent} : y # {}}}
        \cup {Candidate("missing_address_extreme_low_price",
                        {Excerpt(Min(Members(corpus, c)), "rentCents", Rent(corpus, c))}, "verify") :
                x \in {y \in {c} : Outlier(corpus, c)}}

\* Faulty: the candidates are not merged.
MergedNot(candidates) == candidates

\* Equal candidates of an indicator keep the order of their sources; the
\* first one's advice stands.
Merged(candidates) ==
  {LET same == {d \in candidates : d.code = code}
       first == CHOOSE d \in same : \A e \in same :
                  Min({x.source : x \in d.evidence}) <= Min({x.source : x \in e.evidence})
   IN  [first EXCEPT !.evidence = UNION {d.evidence : d \in same}] : code \in {d.code : d \in candidates}}

\* evaluateRiskIndicators
Indicators(corpus, c) ==
  Merged(UNION {LanguageCandidates(s) : s \in Members(corpus, c)} \cup ComparativeCandidates(corpus, c))

\* What the id and the idempotency key of a row are computed from
Key(c, signal) == <<c, signal>>

Signals(corpus) == UNION {{[listing |-> c, signal |-> x, key |-> Key(c, x)] : x \in Indicators(corpus, c)} :
                            c \in Listings(corpus)}

\* RiskSignalV2Schema, which a plan has to pass
Codes == {"suspicious_payment_method", "deposit_before_viewing", "out_of_country_courier_keys",
          "pressure_or_refusal_to_show", "suspicious_off_platform_contact",
          "reused_photos_different_addresses", "material_duplicate_inconsistency",
          "unusual_external_link", "missing_address_extreme_low_price"}

ValidSignal(signal) ==
  /\ signal.code \in Codes /\ signal.evidence # {}
  /\ {x.source : x \in signal.evidence} \subseteq arrived
  /\ Cardinality(signal.evidence) <= MaxEvidence

-----------------------------------------------------------------------------
(* Decisions *)
NewJob == [state |-> "queued", attempts |-> 0]

Init ==
  /\ facts \in Corpora /\ arrived = {} /\ revision = 0
  /\ job = NewJob /\ history = {} /\ touches = 0

\* A source record is normalized into the corpus.
Arrive(s) ==
  /\ s \notin arrived
  /\ arrived' = arrived \cup {s} /\ revision' = revision + 1 /\ job' = NewJob
  /\ UNCHANGED <<facts, history, touches>>

\* An override that leaves the clusters as they are raises the revision too.
Touch ==
  /\ touches < MaxTouches
  /\ touches' = touches + 1 /\ revision' = revision + 1 /\ job' = NewJob
  /\ UNCHANGED <<facts, arrived, history>>

\* risk_signals_user_idempotency_key_unique, and the primary key
Accepted(rows) == \A r \in rows, old \in history : r.key # old.key

\* applyPlan inserts every signal of the plan and completes the job.
Decide ==
  /\ job.state = "queued" /\ Accepted(Signals(arrived))
  /\ history' = history \cup 
       {[revision |-> revision, listing |-> r.listing, signal |-> r.signal, key |-> r.key] : r \in Signals(arrived)}
  /\ job' = [job EXCEPT !.state = "succeeded"]
  /\ UNCHANGED <<facts, arrived, revision, touches>>

\* The insert is refused; the transaction is rolled back and the failure is
\* an internal error, tried again until the attempts are used up.
Refuse ==
  /\ job.state = "queued" /\ ~Accepted(Signals(arrived))
  /\ job' = [state |-> IF job.attempts + 1 < MaxAttempts THEN "queued" ELSE "permanently_failed",
             attempts |-> job.attempts + 1]
  /\ UNCHANGED <<facts, arrived, revision, history, touches>>

Next == Touch \/ Decide \/ Refuse \/ \E s \in Sources : Arrive(s)

Spec == Init /\ [][Next]_vars

-----------------------------------------------------------------------------
(* Properties *)
\* Every row is a valid signal of a listing of the corpus and rests on source
\* records that were there.
TypeOK ==
  /\ arrived \subseteq Sources /\ job.attempts \in 0 .. MaxAttempts
  /\ job.state \in {"queued", "succeeded", "permanently_failed"}
  /\ \A r \in history : /\ r.revision <= revision /\ r.listing \in Listings(arrived)
                        /\ ValidSignal(r.signal)

\* A run reports each indicator of a listing once, whichever sources and
\* pairs of sources it was seen in, and its keys are distinct.
OneSignalPerIndicator ==
  \A a, b \in history :
    a.revision = b.revision /\ a # b => a.key # b.key /\ <<a.listing, a.signal.code>> # <<b.listing, b.signal.code>>

\* Reused photos are reported of both listings: whenever a run blames a
\* listing on a source of another one, that one is blamed by the same run.
PhotoReuseIsMutual ==
  \A r \in history : r.signal.code = "reused_photos_different_addresses" =>
    \A x \in r.signal.evidence :
      \E q \in history : /\ q.revision = r.revision /\ q.listing = Home[x.source]
                         /\ q.signal.code = "reused_photos_different_addresses"

\* Extremely low prices are a minority of the rents a run compares them with.
OutliersAreAMinority ==
  LET low == {r \in history : r.revision = revision /\ r.signal.code = "missing_address_extreme_low_price"}
      rented == {c \in Listings(arrived) : Rent(arrived, c) # None}
  IN  low # {} => 2 * Cardinality(low) <= Cardinality(rented)

\* Every revision is decided anew, whatever indicators its listings showed
\* before: no job is given up.  It does not hold: a signal that is found again
\* has the key of its old row.
RevisionIsDecided == job.state # "permanently_failed"
=============================================================================
