---------------------------- MODULE ListingReads ----------------------------
(***************************************************************************)
(* What the inbox and the page of a listing read while decisions are       *)
(* published: listSummaries (packages/db/src/postgres/standard-            *)
(* repositories.ts), which puts the cards together from seven queries sent *)
(* at once on the pool, and getListingDetail (apps/web/lib/listing-        *)
(* presentation.ts), which reads the listing, the cards and then the rest  *)
(* one query after the other.  Every query sees what is committed when it  *)
(* runs; no transaction holds them together.                               *)
(*                                                                         *)
(* One search profile.  The identities a decision gives its clusters are   *)
(* the subject of Canonicals; here a decision may group the sources in any *)
(* way.  Prices, addresses and the other facts of a card are left out, a   *)
(* risk signal is there or not, and an enrichment snapshot is known by its *)
(* completeness.                                                           *)
(***************************************************************************)
EXTENDS Naturals, FiniteSets

CONSTANTS
  Sources,      \* listing source records
  Listings,     \* ids of canonical listings
  None,
  MaxRuns,      \* bound: decision runs
  MaxSnapshots, \* bound: completeness of a snapshot
  MaxRuled,     \* bound: sources ruled out
  Pages         \* TRUE: the reader may open the page of a listing

BoundsAssumption == {MaxRuns, MaxSnapshots, MaxRuled} \subseteq Nat /\ Pages \in BOOLEAN
NoneAssumption == None \notin Sources \cup Listings

VARIABLES
  run,       \* the last decision run
  listing,   \* id -> row of canonicalListings
  member,    \* source -> the listing it is a source of (canonicalListingSources), or None
  scores,    \* <<id, run>>: rows of listingScores
  risks,     \* <<id, run>>: rows of riskSignals
  ruled,     \* sources disposed as invalid_non_listing
  snapshot,  \* source -> completeness of its current snapshot, 0 for none
  reader     \* one request

vars == <<run, listing, member, scores, risks, ruled, snapshot, reader>>
data == <<run, listing, member, scores, risks, ruled, snapshot>>

Absent == [state |-> "none", run |-> 0]
Queries == {"listings", "members", "ruled", "snapshots", "scores", "risks"}
(* before: what was ruled out when the request came; row: the listing as   *)
(* the page read it first.                                                 *)
Quiet == [pc |-> "idle", page |-> None, row |-> Absent, todo |-> {}, before |-> {},
          listings |-> [c \in Listings |-> Absent], members |-> [s \in Sources |-> None],
          ruled |-> {}, snapshots |-> [s \in Sources |-> 0], scores |-> {}, risks |-> {},
          cards |-> {}, sources |-> {}, scored |-> FALSE, risky |-> FALSE]

Init ==
  /\ run = 0 /\ listing = [c \in Listings |-> Absent] /\ member = [s \in Sources |-> None]
  /\ scores = {} /\ risks = {} /\ ruled = {} /\ snapshot = [s \in Sources |-> 0]
  /\ reader = Quiet

-----------------------------------------------------------------------------
(* What is written meanwhile.                                              *)

\* Faulty: a listing that loses one of its sources is superseded.
PublishInPlace ==
  /\ run < MaxRuns
  /\ \E place \in [Sources \ ruled -> Listings], risky \in SUBSET Listings :
       LET used == {place[s] : s \in DOMAIN place} IN
       /\ risky \subseteq used
       /\ run' = run + 1
       /\ member' = [s \in Sources |-> IF s \in DOMAIN place THEN place[s] ELSE None]
       /\ listing' = [c \in Listings |->
            IF \E s \in DOMAIN place : member[s] = c /\ place[s] # c
              THEN [state |-> "superseded", run |-> run + 1]
            ELSE IF c \in used THEN [state |-> "active", run |-> run + 1]
            ELSE listing[c]]
       /\ scores' = scores \cup {<<c, run + 1>> : c \in used}
       /\ risks' = risks \cup {<<c, run + 1>> : c \in risky}
  /\ UNCHANGED <<ruled, snapshot, reader>>
(* applyPlan publishes a decision in one transaction: every source not     *)
(* ruled out goes to a listing, the listings that lose theirs to another   *)
(* are superseded, and the histories of the run are appended.  A listing   *)
(* whose sources are all ruled out loses them and stays as it is.          *)
Publish ==
  /\ run < MaxRuns
  /\ \E place \in [Sources \ ruled -> Listings], risky \in SUBSET Listings :
       LET used == {place[s] : s \in DOMAIN place} IN
       /\ risky \subseteq used
       /\ run' = run + 1
       /\ member' = [s \in Sources |-> IF s \in DOMAIN place THEN place[s] ELSE None]
       /\ listing' = [c \in Listings |->
            IF c \in used THEN [state |-> "active", run |-> run + 1]
            ELSE IF listing[c].state = "active" /\ \E s \in Sources \ ruled : member[s] = c
              THEN [state |-> "superseded", run |-> run + 1]
            ELSE listing[c]]
       /\ scores' = scores \cup {<<c, run + 1>> : c \in used}
       /\ risks' = risks \cup {<<c, run + 1>> : c \in risky}
  /\ UNCHANGED <<ruled, snapshot, reader>>

(* An enrichment is stored; the newest snapshot is the current one.        *)
Enrich(s) ==
  /\ s \notin ruled
  /\ \E n \in 1 .. MaxSnapshots : n # snapshot[s] /\ snapshot' = [snapshot EXCEPT ![s] = n]
  /\ UNCHANGED <<run, listing, member, scores, risks, ruled, reader>>

(* The integrity repair rules a source out; its memberships stay until the *)
(* next decision.                                                          *)
RuleOut(s) ==
  /\ s \notin ruled /\ Cardinality(ruled) < MaxRuled
  /\ ruled' = ruled \cup {s}
  /\ UNCHANGED <<run, listing, member, scores, risks, snapshot, reader>>

-----------------------------------------------------------------------------
(* The request.                                                            *)
OpenInbox ==
  /\ reader.pc = "idle"
  /\ reader' = [Quiet EXCEPT !.pc = "reading", !.todo = Queries, !.before = ruled]
  /\ UNCHANGED data

(* getById: the page is of an active listing.                              *)
OpenPage(c) ==
  /\ Pages /\ reader.pc = "idle" /\ listing[c].state = "active"
  /\ reader' = [Quiet EXCEPT !.pc = "reading", !.todo = Queries, !.before = ruled,
                             !.page = c, !.row = listing[c]]
  /\ UNCHANGED data

(* One of the queries of Promise.all.                                      *)
Query(q) ==
  /\ reader.pc = "reading" /\ q \in reader.todo
  /\ LET r == [reader EXCEPT !.todo = @ \ {q}] IN
     reader' = CASE q = "listings"  -> [r EXCEPT !.listings = listing]
                 [] q = "members"   -> [r EXCEPT !.members = member]
                 [] q = "ruled"     -> [r EXCEPT !.ruled = ruled]
                 [] q = "snapshots" -> [r EXCEPT !.snapshots = snapshot]
                 [] q = "scores"    -> [r EXCEPT !.scores = scores]
                 [] q = "risks"     -> [r EXCEPT !.risks = risks]
  /\ UNCHANGED data

(* The sources on the card of c.                                           *)
\* Faulty: what was ruled out stays until the next decision.
ShownAll(c) == {s \in Sources : reader.members[s] = c}
Shown(c) == {s \in Sources \ reader.ruled : reader.members[s] = c}

(* The run whose score and risks the card shows.                           *)
RunShown(c) == reader.listings[c].run

(* bestEnrichment: the source whose snapshot is the most complete.         *)
Best(ss) == {s \in ss : reader.snapshots[s] > 0 /\ \A t \in ss : reader.snapshots[t] <= reader.snapshots[s]}

Card(c) == [id |-> c, sources |-> Shown(c),
            scored |-> <<c, RunShown(c)>> \in reader.scores,
            risky |-> <<c, RunShown(c)>> \in reader.risks,
            best |-> Best(Shown(c))]

(* The cards: the active listings with a source left.  A page whose        *)
(* listing has none is answered 404.                                       *)
Assemble ==
  /\ reader.pc = "reading" /\ reader.todo = {}
  /\ LET cs == {Card(c) : c \in {c \in Listings :
                   reader.listings[c].state = "active" /\ Shown(c) # {}}} IN
     reader' = [reader EXCEPT
       !.cards = cs,
       !.pc = IF reader.page = None THEN "done"
              ELSE IF \E k \in cs : k.id = reader.page THEN "sources" ELSE "missing"]
  /\ UNCHANGED data

(* listByCanonicalListingId: the members, then their dispositions.         *)
ReadSources ==
  /\ reader.pc = "sources"
  /\ reader' = [reader EXCEPT !.pc = "ruled", !.sources = {s \in Sources : member[s] = reader.page}]
  /\ UNCHANGED data
ReadRuled ==
  /\ reader.pc = "ruled"
  /\ reader' = [reader EXCEPT !.pc = "score", !.sources = @ \ ruled]
  /\ UNCHANGED data

(* getCurrentV2ByCanonicalListingId and listCurrentV2ByCanonicalListingId. *)
ReadScore ==
  /\ reader.pc = "score"
  /\ reader' = [reader EXCEPT !.pc = "risks", !.scored = <<reader.page, reader.row.run>> \in scores]
  /\ UNCHANGED data
\* Faulty: the risks are those of the newest decision.
ReadRisksNewest ==
  /\ reader.pc = "risks"
  /\ reader' = [reader EXCEPT !.pc = "done", !.risky = <<reader.page, run>> \in risks]
  /\ UNCHANGED data
ReadRisks ==
  /\ reader.pc = "risks"
  /\ reader' = [reader EXCEPT !.pc = "done", !.risky = <<reader.page, reader.row.run>> \in risks]
  /\ UNCHANGED data

(* The answer is sent; the next request may come.                          *)
Answer == reader.pc \in {"done", "missing"} /\ reader' = Quiet /\ UNCHANGED data

Next ==
  \/ Publish \/ \E s \in Sources : Enrich(s) \/ RuleOut(s)
  \/ OpenInbox \/ \E c \in Listings : OpenPage(c)
  \/ \E q \in Queries : Query(q)
  \/ Assemble \/ ReadSources \/ ReadRuled \/ ReadScore \/ ReadRisks \/ Answer

Spec == Init /\ [][Next]_vars

-----------------------------------------------------------------------------
(* Properties.                                                             *)
Done == reader.pc = "done"
OnPage == Done /\ reader.page # None

(* Every source is a member of an active listing or of none, and every     *)
(* active listing has the score of the run that wrote it.                  *)
TypeOK ==
  /\ run \in 0 .. MaxRuns /\ ruled \subseteq Sources
  /\ \A s \in Sources : member[s] # None => listing[member[s]].state = "active"
  /\ \A c \in Listings : listing[c].state = "active" => <<c, listing[c].run>> \in scores
  /\ risks \subseteq scores
  /\ reader.todo \subseteq Queries /\ reader.page \in Listings \cup {None}

(* However the queries interleave with a decision, a source is on one card *)
(* at most, and no card shows a source, or the details of a source, that   *)
(* was ruled out before the request came.                                  *)
SourceOnOneCard == Done =>
  /\ \A k, l \in reader.cards : k # l => k.sources \cap l.sources = {}
  /\ \A k \in reader.cards : (k.sources \cup k.best) \cap reader.before = {}

(* The page reads its listing first, so the score and the risks it shows   *)
(* are those of that row's run, whatever is published while it reads.      *)
PageIsOfItsRow == OnPage =>
  /\ reader.scored
  /\ reader.risky = (<<reader.page, reader.row.run>> \in risks)
=============================================================================
