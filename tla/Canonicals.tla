----------------------------- MODULE Canonicals -----------------------------
(***************************************************************************)
(* The canonical listings of a profile: what a decision makes of the       *)
(* source records, the user's overrides and the listings it made before.   *)
(* A decision reads a snapshot, clusters the sources (dedupe/cluster.ts),  *)
(* gives every cluster an identity (canonical/identity.ts) and rewrites    *)
(* the rows in one transaction, which the corpus revision fences.  Users   *)
(* move listings through their lifecycle meanwhile; that changes no        *)
(* revision.  The job and its lease are in Decisions.                      *)
(***************************************************************************)
EXTENDS Integers, Sequences, SequencesExt, FiniteSets, FiniteSetsExt

CONSTANTS
  Sources,       \* source records, numbered in the order of their ids
  Links,         \* pairs the evaluation links, best score first
  Rank,          \* source -> its rank when a primary source is chosen
  Store,         \* "postgres" or "sqlite"
  Kinds,         \* kinds of override the user asks for
  Lives,         \* lifecycle states the user moves a listing to
  None,
  MaxOverrides, MaxRevision, MaxMoves,  \* bounds on overrides, changes, moves
  Repairs        \* bound on records the repair script rules out

CanonicalsAssumption ==
  /\ Sources \subseteq Nat \ {0} /\ IsFiniteSet(Sources)
  /\ \A n \in DOMAIN Links : Links[n] \subseteq Sources /\ Cardinality(Links[n]) = 2
  /\ Rank \in [Sources -> Nat] /\ Store \in {"postgres", "sqlite"}
  /\ Kinds \subseteq {"merge", "split"} /\ Lives \subseteq {"new", "shortlisted", "dismissed"}
  /\ {MaxOverrides, MaxRevision, MaxMoves, Repairs} \subseteq Nat

VARIABLES
  revision,    \* the corpus revision
  sources,     \* source records that were normalized
  invalid,     \* those the repair script ruled out
  overrides,   \* accepted overrides, in order
  asked,       \* override requests between their checks and their transaction
  rows,        \* canonical id -> canonical_listings row with its members
  snap,        \* the snapshot the worker decides on, or None
  decided,     \* the snapshot the rows show, or None
  moves        \* lifecycle moves made

vars == <<revision, sources, invalid, overrides, asked, rows, snap, decided, moves>>

\* stableEntityId("canonical", [first source]) and its split variants
Ids == Sources \X (0 .. 2)
Older(i, j) == i[1] < j[1] \/ (i[1] = j[1] /\ i[2] <= j[2])
Pairs == {p \in SUBSET Sources : Cardinality(p) = 2}
NoRow == [state |-> "none", by |-> None, members |-> {}, primary |-> 0, life |-> "new",
          created |-> 0]
Active == {i \in Ids : rows[i].state = "active"}
Eligible == IF Store = "postgres" THEN sources \ invalid ELSE sources

Init ==
  /\ revision = 0 /\ sources = {} /\ invalid = {} /\ overrides = <<>> /\ asked = {}
  /\ rows = [i \in Ids |-> NoRow] /\ snap = None /\ decided = None /\ moves = 0

-----------------------------------------------------------------------------
(* Clustering *)

\* resolveActiveOverrides: the newest override of the same sources counts.
Resolved(os) ==
  {n \in DOMAIN os : \A m \in DOMAIN os : os[m].pair = os[n].pair => m <= n}
CannotLink(os) == {os[n].pair : n \in {m \in Resolved(os) : os[m].kind = "split"}}
MergeEdges(os) ==
  LET kept == SetToSortSeq({n \in Resolved(os) : os[n].kind = "merge"}, <)
  IN  [k \in DOMAIN kept |-> os[kept[k]].pair]
LinkEdges(ss) == SelectSeq(Links, LAMBDA e : e \subseteq ss)

Cluster(partition, s) == CHOOSE c \in partition : s \in c

\* Faulty: only the two sources of the edge are checked.
BlockedPair(left, right, edge, cannot) == edge \in cannot

\* Faulty: an override of any member blocks the cluster.
BlockedTouched(left, right, edge, cannot) == \E p \in cannot : p \cap (left \cup right) # {}

\* firstBlockingConstraint
Blocked(left, right, edge, cannot) == \E a \in left, b \in right : {a, b} \in cannot

AttemptUnion(partition, edge, cannot) ==
  LET a == Min(edge)  b == Max(edge)
      left == Cluster(partition, a)  right == Cluster(partition, b)
  IN  IF left = right \/ Blocked(left, right, edge, cannot) THEN partition
      ELSE (partition \ {left, right}) \cup {left \cup right}

\* Faulty: the automatic edges come first.
EdgesAutomaticFirst(s) == LinkEdges(s.sources) \o MergeEdges(s.overrides)

Edges(s) == MergeEdges(s.overrides) \o LinkEdges(s.sources)

Clusters(s) ==
  FoldLeft(LAMBDA partition, edge : AttemptUnion(partition, edge, CannotLink(s.overrides)),
           {{a} : a \in s.sources}, Edges(s))

\* clusterDuplicateSources throws on an override outside the corpus.
KnownOverrides(s) == \A n \in Resolved(s.overrides) : s.overrides[n].pair \subseteq s.sources

-----------------------------------------------------------------------------
(* Identity *)

Owner(s, i) == Cluster(Clusters(s), s.priors[i].primary)
Assigned(s, c) == {i \in DOMAIN s.priors : Owner(s, i) = c}

OldestCanonical(s, is) == CHOOSE i \in is : \A j \in is :
  \/ s.priors[i].created < s.priors[j].created
  \/ (s.priors[i].created = s.priors[j].created /\ Older(i, j))

Merging(s, c) ==
  {n \in Resolved(s.overrides) : s.overrides[n].kind = "merge" /\ s.overrides[n].pair \subseteq c}

\* explicitMergeSurvivor throws unless the survivor is a touched listing.
SurvivorKnown(s, c) ==
  Cardinality(Assigned(s, c)) > 1 /\ Merging(s, c) # {}
    => s.overrides[Max(Merging(s, c))].survivor \in Assigned(s, c)

Winner(s, c) ==
  IF Cardinality(Assigned(s, c)) > 1 /\ Merging(s, c) # {}
  THEN s.overrides[Max(Merging(s, c))].survivor
  ELSE OldestCanonical(s, Assigned(s, c))

\* Faulty: an identity some listing holds is given again.
AvailableIdTaken(s, c) == <<Min(c), 0>>

AvailableId(s, c) ==
  <<Min(c), Min({k \in 0 .. 2 : <<Min(c), k>> \notin DOMAIN s.priors})>>

\* Faulty: a cluster is named after its first source.
IdByFirst(s, c) == <<Min(c), 0>>

IdOf(s, c) == IF Assigned(s, c) = {} THEN AvailableId(s, c) ELSE Winner(s, c)

\* Faulty: a listing takes over the state of the oldest one it replaces.
LifeOfOldest(s, c) ==
  IF Assigned(s, c) = {} THEN "new" ELSE s.priors[OldestCanonical(s, Assigned(s, c))].life

LifeOf(s, c) == IF Assigned(s, c) = {} THEN "new" ELSE s.priors[Winner(s, c)].life

\* Faulty: the losing listings are redirected one to the next.
RedirectChained(s, i) ==
  LET others == Assigned(s, Owner(s, i)) \ {i}
  IN  IF others = {} THEN None ELSE CHOOSE j \in others : \A k \in others : Older(k, j)

\* supersessions
Redirect(s, i) == IdOf(s, Owner(s, i))

Evaluates(s) ==
  /\ KnownOverrides(s)
  /\ \A c \in Clusters(s) : SurvivorKnown(s, c)

\* Faulty: the sources of the other clusters are compared too.
PrimaryOfAll(c) == CHOOSE a \in Sources : \A b \in Sources : Rank[a] >= Rank[b]

\* The first of compareSources
Primary(c) == CHOOSE a \in c : \A b \in c :
  Rank[a] > Rank[b] \/ (Rank[a] = Rank[b] /\ a <= b)

-----------------------------------------------------------------------------
(* The worker *)

Prior(i) ==
  LET members == rows[i].members \cap Eligible
  IN  [members |-> members, life |-> rows[i].life, created |-> rows[i].created,
       primary |-> IF rows[i].primary \in members THEN rows[i].primary ELSE Min(members)]

\* readSnapshot of either store
Snapshot ==
  LET shown == {i \in Active : rows[i].members \cap Eligible # {}}
  IN  [revision |-> revision, sources |-> Eligible, overrides |-> overrides,
       priors |-> [i \in shown |-> Prior(i)]]

ReadSnapshot ==
  /\ snap = None
  /\ decided # None => decided.revision # revision
  /\ snap' = Snapshot
  /\ UNCHANGED <<revision, sources, invalid, overrides, asked, rows, decided, moves>>

PlannedIds(s) == {IdOf(s, c) : c \in Clusters(s)}
PlannedCluster(s, i) == CHOOSE c \in Clusters(s) : IdOf(s, c) = i

\* The upsert of a planned listing: created_at is written by the insert only.
PlannedRow(s, i) ==
  LET c == PlannedCluster(s, i)
  IN  [state |-> "active", by |-> None, members |-> c, primary |-> Primary(c),
       life |-> LifeOf(s, c),
       created |-> IF rows[i].state = "none" THEN revision + 1 ELSE rows[i].created]

\* Faulty: a listing that is not planned keeps its members.
DroppedRowWithMembers(s, i) ==
  IF i \in DOMAIN s.priors
  THEN [rows[i] EXCEPT !.state = "superseded", !.by = Redirect(s, i)]
  ELSE rows[i]

\* A listing that is not planned is superseded by its survivor; one that lost
\* all its sources to the repair script stays, without members.
DroppedRow(s, i) ==
  IF i \in DOMAIN s.priors
  THEN [rows[i] EXCEPT !.state = "superseded", !.by = Redirect(s, i), !.members = {}]
  ELSE [rows[i] EXCEPT !.members = {}]

\* Faulty: the revision is not compared.
AcceptsAnyRevision(s) == Evaluates(s) /\ s.sources = Eligible

\* applyPlan: the plan is refused when the corpus moved.  Its other checks
\* are that it assigns every source once and has a redirect for every loser.
Accepts(s) == Evaluates(s) /\ s.revision = revision /\ s.sources = Eligible

ApplyPlan ==
  /\ snap # None /\ Accepts(snap)
  /\ rows' = [i \in Ids |-> IF i \in PlannedIds(snap) THEN PlannedRow(snap, i)
                            ELSE IF i \in Active THEN DroppedRow(snap, i) ELSE rows[i]]
  /\ decided' = snap
  /\ snap' = None
  /\ UNCHANGED <<revision, sources, invalid, overrides, asked, moves>>

\* The evaluation throws, or the plan is refused: the job fails.
Refuse ==
  /\ snap # None /\ ~Accepts(snap)
  /\ snap' = None
  /\ UNCHANGED <<revision, sources, invalid, overrides, asked, rows, decided, moves>>

-----------------------------------------------------------------------------
(* The corpus and the user *)
Bump == revision < MaxRevision /\ revision' = revision + 1

AddSource(a) ==
  /\ a \notin sources /\ Bump
  /\ sources' = sources \cup {a}
  /\ UNCHANGED <<invalid, overrides, asked, rows, snap, decided, moves>>

\* filterDecisionSnapshot
Without(s, a) ==
  LET Keep(i) == LET left == s.priors[i].members \ {a}
                 IN  [s.priors[i] EXCEPT !.members = left,
                        !.primary = IF @ \in left THEN @ ELSE Min(left)]
  IN  [s EXCEPT !.sources = @ \ {a},
         !.priors = [i \in {j \in DOMAIN s.priors : s.priors[j].members # {a}} |-> Keep(i)]]

\* The preview evaluates the corpus without the record; the apply refuses a
\* preview of another corpus.
Repair(a) ==
  /\ Store = "postgres" /\ a \in sources \ invalid /\ Cardinality(invalid) < Repairs
  /\ Evaluates(Without(Snapshot, a))
  /\ Bump
  /\ invalid' = invalid \cup {a}
  /\ UNCHANGED <<sources, overrides, asked, rows, snap, decided, moves>>

\* POST /api/dedupe/overrides: the references are checked, then the override
\* is recorded in a transaction.
AskOverride(kind, pair, survivor) ==
  /\ Len(overrides) + Cardinality(asked) < MaxOverrides
  /\ kind \in Kinds /\ pair \subseteq sources
  /\ IF kind = "merge" THEN survivor \in Active ELSE survivor = None
  /\ asked' = asked \cup {[kind |-> kind, pair |-> pair, survivor |-> survivor]}
  /\ UNCHANGED <<revision, sources, invalid, overrides, rows, snap, decided, moves>>

RecordOverride(o) ==
  /\ Bump
  /\ overrides' = Append(overrides, o)
  /\ asked' = asked \ {o}
  /\ UNCHANGED <<sources, invalid, rows, snap, decided, moves>>

\* ALLOWED_LISTING_TRANSITIONS, between the states the user chooses
MayBecome(from, to) ==
  \/ from = "new" /\ to \in {"shortlisted", "dismissed"}
  \/ from = "shortlisted" /\ to \in {"new", "dismissed"}

\* setListingShortlist and dismissListing: the row is compared and set.
MoveListing(i, to) ==
  /\ moves < MaxMoves /\ rows[i].state # "none" /\ to \in Lives /\ MayBecome(rows[i].life, to)
  /\ rows' = [rows EXCEPT ![i].life = to]
  /\ moves' = moves + 1
  /\ UNCHANGED <<revision, sources, invalid, overrides, asked, snap, decided>>

Next ==
  \/ ReadSnapshot \/ ApplyPlan \/ Refuse
  \/ \E a \in Sources : AddSource(a) \/ Repair(a)
  \/ \E kind \in Kinds, p \in Pairs, i \in Ids \cup {None} : AskOverride(kind, p, i)
  \/ \E o \in asked : RecordOverride(o)
  \/ \E i \in Ids, to \in Lives : MoveListing(i, to)

Spec == Init /\ [][Next]_vars

-----------------------------------------------------------------------------
(* Properties *)
RowType == [state : {"none", "active", "superseded"}, by : Ids \cup {None},
            members : SUBSET Sources, primary : Sources \cup {0},
            life : {"new", "shortlisted", "dismissed"}, created : Nat]
OverrideType == [kind : {"merge", "split"}, pair : Pairs, survivor : Ids \cup {None}]

\* Rows, requests and overrides are of their types, the primary source of a
\* listing is one of its members, and only a superseded listing redirects.
TypeOK ==
  /\ revision \in 0 .. MaxRevision /\ invalid \subseteq sources /\ sources \subseteq Sources
  /\ rows \in [Ids -> RowType] /\ asked \subseteq OverrideType /\ Range(overrides) \subseteq OverrideType
  /\ \A i \in Ids : /\ rows[i].members # {} => rows[i].primary \in rows[i].members
                    /\ (rows[i].state = "superseded") <=> (rows[i].by # None)

\* A source record is shown by one listing, and once a revision is decided
\* every record of it is.
OneListingPerSource ==
  /\ \A i, j \in Ids : i # j => rows[i].members \cap rows[j].members = {}
  /\ decided # None => UNION {rows[i].members : i \in Active} = decided.sources

\* A link to a listing that was merged away leads to a listing that is shown,
\* however many merges and splits came after.
RedirectsLeadToActive ==
  \A i \in Ids : rows[i].state = "superseded" =>
    \E n \in 1 .. Cardinality(Ids) :
      LET reach[k \in 0 .. n] == IF k = 0 THEN i ELSE
            IF rows[reach[k - 1]].by = None THEN reach[k - 1] ELSE rows[reach[k - 1]].by
      IN  reach[n] \in Active

\* No two sources the user told apart are in one listing.
SplitsAreKept ==
  decided # None =>
    \A p \in CannotLink(decided.overrides), i \in Active : ~(p \subseteq rows[i].members)

\* Sources that are linked, or that the user merged, are in different
\* listings only if the user told some of these listings' sources apart.
LinkedUnlessSplit ==
  decided # None =>
    \A e \in Range(LinkEdges(decided.sources)) \cup Range(MergeEdges(decided.overrides)),
       i, j \in Active :
      i # j /\ e \cap rows[i].members # {} /\ e \cap rows[j].members # {} =>
        \E a \in rows[i].members, b \in rows[j].members : {a, b} \in CannotLink(decided.overrides)

\* The user's merges come before the links: the sources of a merge are apart
\* only if what the user merged with them was told apart.
Merged(s) == FoldLeft(LAMBDA partition, edge : AttemptUnion(partition, edge, {}),
                      {{a} : a \in s.sources}, MergeEdges(s.overrides))
MergesComeFirst ==
  decided # None =>
    \A e \in Range(MergeEdges(decided.overrides)) :
      \/ \E i \in Active : e \subseteq rows[i].members
      \/ \E p \in CannotLink(decided.overrides) : p \subseteq Cluster(Merged(decided), Min(e))

\* A decision keeps the identity of a listing whose sources stay together and
\* meet no other listing.
IdentityIsKept ==
  [][\A i \in Ids :
       /\ decided' # decided /\ i \in Active /\ rows[i].members # {}
       /\ \E c \in Clusters(decided') : rows[i].members \subseteq c
            /\ \A j \in Active \ {i} : rows[j].members \cap c = {}
       => rows'[i].state = "active" /\ rows[i].members \subseteq rows'[i].members]_vars

\* A decision leaves a listing that stays the state the user gave it, whatever
\* it is merged with or split from, unless the user moved it after the
\* snapshot was read: then the state of the snapshot is written back.
LifeIsKept ==
  [][\A i \in Ids :
       decided' # decided /\ i \in Active /\ rows'[i].state = "active" =>
         \/ rows'[i].life = rows[i].life
         \/ i \in DOMAIN snap.priors /\ rows'[i].life = snap.priors[i].life]_vars

\* What the rows show was decided on a corpus that had not moved.
DecidedAtItsRevision == [][decided' # decided => decided'.revision = revision]_vars
=============================================================================
