----------------------------- MODULE InboxViews -----------------------------
(***************************************************************************)
(* The views of the inbox: refineListingInbox and listingInboxTabCounts    *)
(* (apps/web/lib/listing-inbox.ts) and the controls of the dashboard that  *)
(* change the query.  The list is what the server answered and stays.      *)
(* Money and scores are small numbers, a missing one is None; a time is    *)
(* its rank.                                                               *)
(***************************************************************************)
EXTENDS Integers, SequencesExt

CONSTANTS
  Cards,     \* listings that may be in the list
  Sources,   \* source labels
  MaxLength, \* bound: listings in the list
  Null       \* a missing value

LengthAssumption == MaxLength \in Nat

VARIABLES
  list,  \* the listings, as the server ordered them
  query  \* the query of the reader
vars == <<list, query>>

(* The tabs of the inbox besides "all".                                    *)
\* Faulty: a rejected draft is forgotten.
LifecycleTabsForgetful ==
  [new |-> {"new"}, shortlisted |-> {"shortlisted", "draft_ready"},
   contacted |-> {"draft_created", "replied", "follow_up_due"},
   tours |-> {"tour_proposed", "tour_scheduled", "toured"},
   archived |-> {"applying", "passed", "dismissed", "stale", "unavailable"}]
LifecycleTabs ==
  [new |-> {"new"}, shortlisted |-> {"shortlisted", "draft_ready", "draft_rejected"},
   contacted |-> {"draft_created", "replied", "follow_up_due"},
   tours |-> {"tour_proposed", "tour_scheduled", "toured"},
   archived |-> {"applying", "passed", "dismissed", "stale", "unavailable"}]

MatchesTab(state, tab) == tab = "all" \/ state \in LifecycleTabs[tab]

Tabs == DOMAIN LifecycleTabs \cup {"all"}
Sorts == {"fit", "freshness", "price", "risk"}
Constraints == {"all", "eligible", "excluded", "unknown"}
DefaultQuery == [tab |-> "new", sort |-> "fit", constraint |-> "all",
                 missingFactsOnly |-> FALSE, duplicatesOnly |-> FALSE, source |-> "all"]

-----------------------------------------------------------------------------
(* Comparisons; a negative number puts the left one first.                 *)

\* Faulty: what is not known counts as nothing.
CompareNullableAsZero(left, right, sign) ==
  sign * ((IF left = Null THEN 0 ELSE left) - (IF right = Null THEN 0 ELSE right))
CompareNullable(left, right, sign) ==
  IF left = Null THEN IF right = Null THEN 0 ELSE 1
  ELSE IF right = Null THEN -1 ELSE sign * (left - right)

MonthlyTotal(c) == IF Null \in {c.rent, c.fees} THEN Null ELSE c.rent + c.fees

SeverityRank(severity) ==
  CASE severity = "high" -> 4 [] severity = "medium" -> 3 [] severity = "low" -> 2
    [] severity = "info" -> 1 [] OTHER -> 0

(* The first comparison that is not 0 decides.                             *)
Or(x, y) == IF x # 0 THEN x ELSE y
Flag(b) == IF b THEN 1 ELSE 0

CompareListings(l, r, sort) ==
  CASE sort = "fit" -> Or(Flag(r.eligible # "no") - Flag(l.eligible # "no"),
                          CompareNullable(l.fit, r.fit, -1))
    [] sort = "freshness" -> r.fresh - l.fresh
    [] sort = "price" -> CompareNullable(MonthlyTotal(l), MonthlyTotal(r), 1)
    [] sort = "risk" -> Or(SeverityRank(r.severity) - SeverityRank(l.severity), r.risks - l.risks)

(* An eligibility not evaluated is null, or missing in older answers.      *)
\* Faulty: a missing one is not "not evaluated".
SatisfiesStrictly(c, constraint) ==
  CASE constraint = "eligible" -> c.eligible = "yes"
    [] constraint = "excluded" -> c.eligible = "no"
    [] constraint = "unknown"  -> c.eligible = Null
    [] constraint = "all"      -> TRUE
Satisfies(c, constraint) ==
  CASE constraint = "eligible" -> c.eligible = "yes"
    [] constraint = "excluded" -> c.eligible = "no"
    [] constraint = "unknown"  -> c.eligible \in {Null, "undefined"}
    [] constraint = "all"      -> TRUE

Matches(c, q) ==
  /\ MatchesTab(c.state, q.tab) /\ Satisfies(c, q.constraint)
  /\ q.missingFactsOnly => c.unknown > 0
  /\ q.duplicatesOnly => c.duplicates > 0
  /\ q.source \in {"all"} \cup c.sources

(* refineListingInbox; equal listings stay in the order of the list.       *)
Refine(cs, q) ==
  LET kept == SelectSeq([i \in DOMAIN cs |-> [card |-> cs[i], index |-> i]],
                        LAMBDA e : Matches(e.card, q))
  IN SortSeq(kept, LAMBDA l, r : Or(CompareListings(l.card, r.card, q.sort), l.index - r.index) < 0)

TabCount(cs, tab) == Len(SelectSeq(cs, LAMBDA c : MatchesTab(c.state, tab)))

-----------------------------------------------------------------------------
Init == list \in UNION {[1 .. n -> Cards] : n \in 0 .. MaxLength} /\ query = DefaultQuery

SetTab == \E t \in Tabs : query' = [query EXCEPT !.tab = t] /\ UNCHANGED list
SetSort == \E s \in Sorts : query' = [query EXCEPT !.sort = s] /\ UNCHANGED list
SetConstraint == \E c \in Constraints : query' = [query EXCEPT !.constraint = c] /\ UNCHANGED list
SetSource == \E s \in Sources \cup {"all"} : query' = [query EXCEPT !.source = s] /\ UNCHANGED list
Check(f) == query' = [query EXCEPT ![f] = ~@] /\ UNCHANGED list

(* "Clear filters", offered when one is set.                               *)
ClearFilters ==
  /\ \E f \in {"constraint", "missingFactsOnly", "duplicatesOnly", "source"} : query[f] # DefaultQuery[f]
  /\ query' = [DefaultQuery EXCEPT !.tab = query.tab, !.sort = query.sort]
  /\ UNCHANGED list

(* "Show all listings", offered when a list that is not empty shows none.  *)
\* Faulty: the tab goes back to the default one.
ShowNew ==
  /\ list # <<>> /\ Refine(list, query) = <<>>
  /\ query' = DefaultQuery /\ UNCHANGED list
ShowAll ==
  /\ list # <<>> /\ Refine(list, query) = <<>>
  /\ query' = [DefaultQuery EXCEPT !.tab = "all"]
  /\ UNCHANGED list

Next ==
  \/ SetTab \/ SetSort \/ SetConstraint \/ SetSource
  \/ \E f \in {"missingFactsOnly", "duplicatesOnly"} : Check(f)
  \/ ClearFilters \/ ShowAll

Spec == Init /\ [][Next]_vars

-----------------------------------------------------------------------------
(* Properties.                                                             *)
Visible == Refine(list, query)
Shown(q) == {e.index : e \in {Refine(list, q)[i] : i \in DOMAIN Refine(list, q)}}

(* A listing of the view never stands before a better one: an excluded one *)
(* is after the others, what is not known is after what is known, and      *)
(* equal ones are in the server's order, so the view is deterministic.     *)
Better(l, r) ==
  LET Known(x, y) == x # Null /\ y = Null IN
  CASE query.sort = "fit" ->
         \/ l.eligible # "no" /\ r.eligible = "no"
         \/ (l.eligible = "no") = (r.eligible = "no")
            /\ (Known(l.fit, r.fit) \/ (Null \notin {l.fit, r.fit} /\ l.fit > r.fit))
    [] query.sort = "freshness" -> l.fresh > r.fresh
    [] query.sort = "price" ->
         LET x == MonthlyTotal(l) y == MonthlyTotal(r) IN
         Known(x, y) \/ (Null \notin {x, y} /\ x < y)
    [] query.sort = "risk" ->
         SeverityRank(l.severity) > SeverityRank(r.severity)
         \/ (l.severity = r.severity /\ l.risks > r.risks)
BestFirst == \A i, j \in DOMAIN Visible : i < j =>
  LET a == Visible[i] b == Visible[j] IN
  /\ ~Better(b.card, a.card)
  /\ Better(a.card, b.card) \/ a.index < b.index

(* Every listing is in one tab besides "all", whatever its state, and the  *)
(* numbers on the tabs are those of the views.                             *)
EveryListingHasATab ==
  /\ \A i \in DOMAIN list :
       \E t \in Tabs \ {"all"} : \A u \in Tabs \ {"all"} : MatchesTab(list[i].state, u) <=> u = t
  /\ TabCount(list, "all") = Len(list)
  /\ query = [DefaultQuery EXCEPT !.tab = query.tab] => TabCount(list, query.tab) = Len(Visible)

(* The eligible, the excluded and the not evaluated listings of a view are *)
(* the whole view: no listing disappears from all three.                   *)
ConstraintsSplit ==
  Shown([query EXCEPT !.constraint = "all"])
    = UNION {Shown([query EXCEPT !.constraint = c]) : c \in Constraints \ {"all"}}

(* The way out of an empty view shows every listing, whatever the tab and  *)
(* the filters were: no other control changes the tab and more at once.    *)
WayOut == [][(query'.tab # query.tab /\ \E f \in DOMAIN query \ {"tab"} : query'[f] # query[f])
             => Len(Visible') = Len(list)]_vars
=============================================================================
