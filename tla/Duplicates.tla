----------------------------- MODULE Duplicates -----------------------------
(***************************************************************************)
(* Which pairs of source records a decision compares, and what it decides  *)
(* of each pair.  The corpus grows record by record, and a capture changes *)
(* the rent of one; the decision is a function of the corpus.              *)
(*                                                                         *)
(* Text is a set of words, an address a set of words and a set of          *)
(* trigrams, a place a point on a line in meters, a time an hour, a photo  *)
(* its bytes and the set of bits of its perceptual hash.  Ids are in the   *)
(* order of the code's comparison.                                         *)
(***************************************************************************)
EXTENDS Integers, Sequences, FiniteSets, Folds, Functions, FiniteSetsExt

CONSTANTS
  None,
  Facts,               \* source record id -> the facts it arrives with
  Rents,               \* rents a later capture may report
  Weight,              \* feature -> weight in basis points
  LinkThreshold, ReviewThreshold,
  MaxCandidatePairs, FallbackBlockSize

Ids == DOMAIN Facts
Features == DOMAIN Weight
BasisPoints == 0 .. 10000

ValidConfig ==
  /\ \A f \in Features : Weight[f] \in BasisPoints
  /\ FoldFunction(+, 0, Weight) = 10000
  /\ ReviewThreshold \in Nat /\ LinkThreshold \in ReviewThreshold .. 10000
  /\ MaxCandidatePairs \in 1 .. 1000000 /\ FallbackBlockSize \in 2 .. 1000

DuplicatesAssumption == Ids \subseteq Nat /\ IsFiniteSet(Ids) /\ ValidConfig

VARIABLES corpus   \* the records captured so far: id -> facts

vars == <<corpus>>

-----------------------------------------------------------------------------
(* Candidate pairs *)
Bands(s) ==
  IF s.rent = None /\ s.beds = None THEN {}
  ELSE {<<"market-band", IF s.city # None THEN s.city ELSE s.postal,
          IF s.rent = None THEN None ELSE s.rent \div 250, s.beds,
          IF s.posted = None THEN None ELSE s.posted \div 720>>}

\* Faulty: contacts make no block.
BlockKeysWithoutContact(s) ==
  (IF s.lid = None THEN {} ELSE {<<"source", s.src, s.lid>>})
    \cup (IF s.url = None THEN {} ELSE {<<"url", s.url>>})
    \cup (IF s.address = None THEN {}
          ELSE {<<"address", s.address.text, s.unit>>} \cup {<<"street-token", s.city, t>> : t \in s.address.words})
    \cup (IF s.postal = None THEN {} ELSE {<<"postal", s.postal>>})
    \cup {<<"photo-byte", p.byte>> : p \in {q \in s.photos : q.byte # None}}
    \cup {<<"photo-perceptual", p.bits>> : p \in s.photos}
    \cup Bands(s)

BlockKeys(s) ==
  (IF s.lid = None THEN {} ELSE {<<"source", s.src, s.lid>>})
    \cup (IF s.url = None THEN {} ELSE {<<"url", s.url>>})
    \cup (IF s.address = None THEN {}
          ELSE {<<"address", s.address.text, s.unit>>} \cup {<<"street-token", s.city, t>> : t \in s.address.words})
    \cup (IF s.postal = None THEN {} ELSE {<<"postal", s.postal>>})
    \cup {<<"contact", f>> : f \in s.contacts}
    \cup {<<"photo-byte", p.byte>> : p \in {q \in s.photos : q.byte # None}}
    \cup {<<"photo-perceptual", p.bits>> : p \in s.photos}
    \cup Bands(s)

\* Faulty: the members of a street or a market that is too large are left alone.
BlocksOfFew(c) ==
  {<<i, j>> \in (DOMAIN c) \X (DOMAIN c) :
     i < j /\ \E key \in BlockKeys(c[i]) \cap BlockKeys(c[j]) :
                key[1] \in {"street-token", "market-band"} =>
                  Cardinality({k \in DOMAIN c : key \in BlockKeys(c[k])}) <= FallbackBlockSize}

\* Pairs of records in one block
Blocks(c) ==
  {<<i, j>> \in (DOMAIN c) \X (DOMAIN c) : i < j /\ BlockKeys(c[i]) \cap BlockKeys(c[j]) # {}}

\* Records in no block are compared within chunks of their order.
FallbackPairs(c) ==
  LET fallback == {i \in DOMAIN c : BlockKeys(c[i]) = {}}
      chunk(i) == Cardinality({j \in fallback : j < i}) \div FallbackBlockSize
  IN  {<<i, j>> \in fallback \X fallback : i < j /\ chunk(i) = chunk(j)}

CandidatePairs(c) == Blocks(c) \cup FallbackPairs(c)

\* Too many candidates refuse the whole corpus.
WasTruncated(c) == Cardinality(CandidatePairs(c)) > MaxCandidatePairs

-----------------------------------------------------------------------------
(* Features of a pair: a score, or None while unknown *)
Round(n, d) == (2 * n + d) \div (2 * d)
Abs(n) == IF n < 0 THEN -n ELSE n

\* n/d, 10000 up to full/scale of it, 0 from zero/scale on, and linear between
DescendingLinear(n, d, full, zero, scale) ==
  IF n * scale <= full * d THEN 10000
  ELSE IF n * scale >= zero * d THEN 0
  ELSE Round((zero * d - n * scale) * 10000, (zero - full) * d)

Known(a, b) == None \notin {a, b}
Common(a, b) == 2 * Cardinality(a \cap b)
Size(a, b) == Cardinality(a) + Cardinality(b)

AddressSimilarity(a, b) ==
  IF ~Known(a, b) THEN None
  ELSE IF a = b THEN 10000
  ELSE Round(Common(a.words, b.words) * 6000 * Size(a.trigrams, b.trigrams)
               + Common(a.trigrams, b.trigrams) * 4000 * Size(a.words, b.words),
             Size(a.words, b.words) * Size(a.trigrams, b.trigrams))

GeographicSimilarity(a, b) == IF ~Known(a, b) THEN None ELSE DescendingLinear(Abs(a - b), 1, 25, 500, 1)

RelativeDifference(a, b, full, zero, scale) ==
  IF ~Known(a, b) THEN None
  ELSE IF Max({a, b}) = 0 THEN 10000 ELSE DescendingLinear(Abs(a - b), Max({a, b}), full, zero, scale)

\* Faulty: rents that are far apart are taken for unknown.
RentSimilarityOfNear(a, b) ==
  IF RelativeDifference(a, b, 2, 20, 100) = 0 THEN None ELSE RelativeDifference(a, b, 2, 20, 100)

RentSimilarity(a, b) == RelativeDifference(a, b, 2, 20, 100)

SquareFeetSimilarity(a, b) == RelativeDifference(a, b, 5, 30, 100)

\* Rooms are counted in halves.
RoomScore(a, b) ==
  CASE Abs(a - b) = 0 -> 10000 [] Abs(a - b) = 1 -> 5000 [] Abs(a - b) = 2 -> 2500 [] OTHER -> 0

BedsBathsSimilarity(s, t) ==
  LET scores == (IF Known(s.beds, t.beds) THEN <<RoomScore(s.beds, t.beds)>> ELSE <<>>)
      both == IF Known(s.baths, t.baths) THEN Append(scores, RoomScore(s.baths, t.baths)) ELSE scores
  IN  IF both = <<>> THEN None ELSE Round(FoldFunction(+, 0, both), Len(both))

TextSimilarity(a, b) ==
  IF {} \in {a, b} THEN None ELSE Round(Common(a, b) * 10000, Size(a, b))

PhotoSimilarity(a, b) ==
  IF {} \in {a, b} THEN None
  ELSE DescendingLinear(
         Min({Cardinality((p.bits \ q.bits) \cup (q.bits \ p.bits)) : p \in a, q \in b}), 1, 2, 16, 1)

PostingTimeSimilarity(a, b) == IF ~Known(a, b) THEN None ELSE DescendingLinear(Abs(a - b), 1, 24, 720, 1)

PairFeatures(s, t) ==
  [f \in Features |->
     CASE f = "address" -> AddressSimilarity(s.address, t.address)
       [] f = "geographic" -> GeographicSimilarity(s.place, t.place)
       [] f = "rent" -> RentSimilarity(s.rent, t.rent)
       [] f = "beds_baths" -> BedsBathsSimilarity(s, t)
       [] f = "square_feet" -> SquareFeetSimilarity(s.area, t.area)
       [] f = "text" -> TextSimilarity(s.words, t.words)
       [] f = "photo" -> PhotoSimilarity(s.photos, t.photos)
       [] f = "posting_time" -> PostingTimeSimilarity(s.posted, t.posted)]

\* Faulty: a contribution is not scaled up to the known weights.
WeightedOfAll(feature) ==
  LET known == {f \in Features : feature[f] # None}
      weight == FoldFunctionOnSet(+, 0, Weight, known)
      of(f) == feature[f] * Weight[f]
  IN  IF weight = 0 THEN [score |-> None, contribution |-> [f \in Features |-> None]]
      ELSE [score |-> Round(FoldFunction(+, 0, [f \in known |-> of(f)]), weight),
            contribution |-> [f \in Features |-> IF f \in known THEN Round(of(f), 10000) ELSE None]]

\* The weights of the known features are scaled up to all of it.
Weighted(feature) ==
  LET known == {f \in Features : feature[f] # None}
      weight == FoldFunctionOnSet(+, 0, Weight, known)
      of(f) == feature[f] * Weight[f]
  IN  IF weight = 0 THEN [score |-> None, contribution |-> [f \in Features |-> None]]
      ELSE [score |-> Round(FoldFunction(+, 0, [f \in known |-> of(f)]), weight),
            contribution |-> [f \in Features |-> IF f \in known THEN Round(of(f), weight) ELSE None]]

-----------------------------------------------------------------------------
(* The decision of a pair *)
Same(a, b) == Known(a, b) /\ a = b

HasExactPhotoMatch(s, t) ==
  \E p \in s.photos, q \in t.photos : p.bits = q.bits \/ Same(p.byte, q.byte)

ExactUnit(s, t) == Same(s.address, t.address) /\ Same(s.unit, t.unit)
HardIdentity(s, t) == (s.src = t.src /\ Same(s.lid, t.lid)) \/ Same(s.url, t.url) \/ ExactUnit(s, t)

ExactReasons(s, t) ==
  {r \in {"same_source_listing_id", "exact_canonical_url", "exact_normalized_address_unit",
          "exact_contact_match", "exact_photo_hash"} :
     CASE r = "same_source_listing_id" -> s.src = t.src /\ Same(s.lid, t.lid)
       [] r = "exact_canonical_url" -> Same(s.url, t.url)
       [] r = "exact_normalized_address_unit" -> ExactUnit(s, t)
       [] r = "exact_contact_match" -> s.contacts \cap t.contacts # {}
       [] r = "exact_photo_hash" -> HasExactPhotoMatch(s, t)}

\* Two listings of one source, or two units of one address
Distinct(s, t) ==
  \/ s.src = t.src /\ Known(s.lid, t.lid) /\ s.lid # t.lid
  \/ Same(s.address, t.address) /\ Known(s.unit, t.unit) /\ s.unit # t.unit

AtLeast(score, threshold) == score # None /\ score >= threshold

LocationConflict(f) == f["address"] # None /\ f["address"] < 2500 /\ f["geographic"] \in {None, 0}
MaterialConflict(f) == LocationConflict(f) \/ 0 \in {f["rent"], f["beds_baths"], f["geographic"]}

MissingAnchor(s, t, f) ==
  /\ s.src # t.src /\ ~HardIdentity(s, t)
  /\ ~AtLeast(f["address"], 6000) /\ ~AtLeast(f["geographic"], 5000) /\ ~HasExactPhotoMatch(s, t)

\* Faulty: a contact in common is enough before anything of the property is.
DecisionByContact(s, t) ==
  LET f == PairFeatures(s, t)
      score == Weighted(f).score
  IN  CASE Distinct(s, t) -> "separate"
        [] ~Distinct(s, t) /\ HardIdentity(s, t) -> IF MaterialConflict(f) THEN "review" ELSE "link"
        [] ~Distinct(s, t) /\ ~HardIdentity(s, t) ->
             IF s.contacts \cap t.contacts # {} \/ HasExactPhotoMatch(s, t) THEN "link"
             ELSE IF MissingAnchor(s, t, f) THEN "separate"
             ELSE IF AtLeast(score, LinkThreshold) THEN "link"
             ELSE IF AtLeast(score, ReviewThreshold) THEN "review" ELSE "separate"

Decision(s, t) ==
  LET f == PairFeatures(s, t)
      score == Weighted(f).score
      reviewed == IF AtLeast(score, ReviewThreshold) THEN "review" ELSE "separate"
  IN  CASE Distinct(s, t) -> "separate"
        [] ~Distinct(s, t) /\ HardIdentity(s, t) -> IF MaterialConflict(f) THEN "review" ELSE "link"
        [] ~Distinct(s, t) /\ ~HardIdentity(s, t) ->
             IF LocationConflict(f) THEN reviewed
             ELSE IF MissingAnchor(s, t, f) THEN "separate"
             ELSE IF s.contacts \cap t.contacts # {} \/ HasExactPhotoMatch(s, t) \/ AtLeast(score, LinkThreshold)
                  THEN "link" ELSE reviewed

\* The evaluated pairs of a corpus
Evaluated(c) == IF WasTruncated(c) THEN {} ELSE CandidatePairs(c)

-----------------------------------------------------------------------------
Init == corpus = <<>>

Capture(id) ==
  /\ id \notin DOMAIN corpus
  /\ corpus' = [i \in DOMAIN corpus \cup {id} |-> IF i = id THEN Facts[id] ELSE corpus[i]]

\* A later capture of a record reports another rent.
Reprice(id, rent) ==
  /\ id \in DOMAIN corpus /\ corpus[id].rent \notin {None, rent}
  /\ corpus' = [corpus EXCEPT ![id].rent = rent]

Next == \E id \in Ids : Capture(id) \/ \E rent \in Rents : Reprice(id, rent)

Spec == Init /\ [][Next]_vars

-----------------------------------------------------------------------------
(* Properties *)

\* Scores are basis points, and what the features are said to contribute
\* adds up to the score but for the rounding of each.
TypeOK ==
  \A pair \in Evaluated(corpus) :
    LET f == PairFeatures(corpus[pair[1]], corpus[pair[2]])
        w == Weighted(f)
        known == {g \in Features : f[g] # None}
    IN  /\ \A g \in Features : f[g] \in BasisPoints \cup {None}
        /\ w.score # None => /\ w.score \in BasisPoints
                             /\ Abs(FoldFunctionOnSet(+, 0, w.contribution, known) - w.score) <= Cardinality(known)

\* Blocking loses no pair that is known to be one listing: two records that
\* share an identity, a contact or a photo are compared, unless the corpus is
\* refused.
IdentitiesAreCompared ==
  ~WasTruncated(corpus) =>
    \A i, j \in DOMAIN corpus : i < j /\ ExactReasons(corpus[i], corpus[j]) # {} => <<i, j>> \in Evaluated(corpus)

\* A corpus that grows loses no comparison of records that have a block, and
\* once it is refused more records do not make it acceptable.
ComparisonsOnlyGrow ==
  [][corpus' # corpus /\ (\A i \in DOMAIN corpus : corpus'[i] = corpus[i]) =>
       /\ {p \in CandidatePairs(corpus) : BlockKeys(corpus[p[1]]) # {}} \subseteq CandidatePairs(corpus')
       /\ WasTruncated(corpus) => WasTruncated(corpus')]_vars

\* A link between two sources rests on the property and not only on who
\* offers it, and no link joins two listings of one source or two units of an
\* address.
LinksAreAnchored ==
  \A pair \in Evaluated(corpus) :
    LET s == corpus[pair[1]]
        t == corpus[pair[2]]
    IN  Decision(s, t) = "link" =>
          /\ ~Distinct(s, t)
          /\ s.src = t.src \/ Same(s.url, t.url) \/ HasExactPhotoMatch(s, t)
               \/ AtLeast(AddressSimilarity(s.address, t.address), 6000)
               \/ AtLeast(GeographicSimilarity(s.place, t.place), 5000)

Rank == [separate |-> 0, review |-> 1, link |-> 2]

\* When the rent of one record comes closer to that of another, the two are
\* not judged to be less alike.
CloserRentIsNoWorse ==
  [][\A i, j \in DOMAIN corpus \cap DOMAIN corpus' :
       /\ i # j /\ corpus'[j] = corpus[j] /\ None \notin {corpus[i].rent, corpus'[i].rent, corpus[j].rent}
       /\ corpus'[i] = [corpus[i] EXCEPT !.rent = corpus'[i].rent]
       /\ \/ corpus[i].rent <= corpus'[i].rent /\ corpus'[i].rent <= corpus[j].rent
          \/ corpus[i].rent >= corpus'[i].rent /\ corpus'[i].rent >= corpus[j].rent
       => Rank[Decision(corpus'[i], corpus'[j])] >= Rank[Decision(corpus[i], corpus[j])]]_vars
=============================================================================
