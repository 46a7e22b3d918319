---------------------------- MODULE ListingInbox ----------------------------
(***************************************************************************)
(* The inbox of one reader (apps/web/app/listing-dashboard.tsx), the page  *)
(* of one listing open in another tab (app/listings/[id]/listing-          *)
(* detail.tsx) and the server's lifecycle transitions, setListingShortlist *)
(* and dismissListing (apps/web/lib/listing-presentation.ts over           *)
(* transitionLifecycle of packages/db/src/postgres/standard-repositories). *)
(*                                                                         *)
(* A row of canonicalListings is its history of states: transitionLifecycle*)
(* compares the state and updatedAt it read, so a row is rewritten only if *)
(* nothing was added.  A request may fail on the way there or back.  The   *)
(* filters are the subject of InboxViews, the search of SearchPage.        *)
(*                                                                         *)
(* The decision lane writes the row too (Decisions): a plan upserts the    *)
(* state its snapshot read, with a new updatedAt and without comparing.    *)
(***************************************************************************)
EXTENDS Integers, Sequences, FiniteSets

(* The lifecycle of a listing (packages/domain/src/lifecycle.ts).          *)
Everywhere == {"dismissed", "stale", "unavailable"}

(* ALLOWED_LISTING_TRANSITIONS; the terminal states allow none.            *)
Allowed ==
  [new           |-> {"shortlisted"} \cup Everywhere,
   shortlisted   |-> {"new", "draft_ready"} \cup Everywhere,
   draft_ready   |-> {"draft_created", "draft_rejected"} \cup Everywhere,
   draft_created |-> {"replied", "follow_up_due"} \cup Everywhere,
   draft_rejected |-> {"draft_ready"} \cup Everywhere,
   replied       |-> {"tour_proposed"} \cup Everywhere,
   follow_up_due |-> {"replied"} \cup Everywhere,
   tour_proposed |-> {"tour_scheduled", "replied"} \cup Everywhere,
   tour_scheduled |-> {"tour_proposed", "replied", "toured", "dismissed", "unavailable"},
   toured        |-> {"applying", "passed"},
   applying      |-> {"passed"},
   passed |-> {}, dismissed |-> {}, stale |-> {}, unavailable |-> {}]

States == DOMAIN Allowed

(* What a card offers.                                                     *)
CanShortlist(state) == state \in {"new", "shortlisted"}
Dismissible == {"new", "shortlisted", "draft_ready", "draft_created", "draft_rejected",
                "replied", "follow_up_due", "tour_proposed", "tour_scheduled"}
-----------------------------------------------------------------------------
CONSTANTS
  Listings,
  Start,        \* listing -> its state when the pages are opened
  Opened,       \* the listing of the other tab
  Demo,         \* TRUE: the demo inbox, which enriches nothing
  None,
  MaxRequests,  \* bound: mutations requested
  MaxRefreshes, \* bound: loads of the inbox
  MaxDecisions, \* bound: decisions of the corpus
  MaxReloads    \* bound: detail refreshes of the other tab

StartAssumption == Start \in [Listings -> States] /\ Opened \in Listings /\ Demo \in BOOLEAN
BoundsAssumption ==
  {MaxRequests, MaxRefreshes, MaxReloads, MaxDecisions} \subseteq Nat /\ None \notin Listings

VARIABLES
  log,       \* listing -> states of its row, the last is the present one
  requests,  \* mutations in flight
  sent,      \* mutations requested so far
  inbox,     \* the dashboard
  searching, \* a search runs: the dashboard shows its skeleton
  refreshes, \* loads begun
  page,      \* the other tab
  reloads,   \* detail refreshes begun
  told,      \* listings the reader was told are dismissed
  plan,      \* the entries of the logs a decision in progress has read
  decided    \* history: the entries a decision wrote, each as
             \* <<listing, its place, the place of the entry it repeats>>

vars == <<log, requests, sent, inbox, searching, refreshes, page, reloads, told, plan, decided>>
planVars == <<plan, decided>>
inboxVars == <<inbox, searching, refreshes, told>>
pageVars == <<page, reloads>>

Now(l) == log[l][Len(log[l])]
Snapshot == [l \in Listings |-> Now(l)]
NoPlan == [l \in Listings |-> 0]

Init ==
  /\ log = [l \in Listings |-> <<Start[l]>>]
  /\ requests = {} /\ sent = 0 /\ searching = FALSE /\ refreshes = 0 /\ reloads = 0 /\ told = {}
  /\ plan = [decisions |-> 0, read |-> NoPlan] /\ decided = {}
  /\ inbox = [kind |-> "ready", shown |-> Start, busy |-> None, confirm |-> None,
              load |-> "none", answer |-> Start]
  /\ page = [kind |-> "ready", shown |-> Start[Opened], save |-> "idle", saved |-> Start[Opened],
             refresh |-> "idle", refreshed |-> Start[Opened], acked |-> FALSE]

-----------------------------------------------------------------------------
(* The server.                                                             *)

(* transitionLifecycle reads the row and checks the transition.            *)
Read(r) ==
  /\ r \in requests /\ r.phase = "sent"
  /\ requests' = (requests \ {r}) \cup
       {[r EXCEPT !.phase = IF r.to \in Allowed[Now(r.listing)] THEN "read" ELSE "failed",
                  !.seen = Len(log[r.listing])]}
  /\ UNCHANGED <<log, sent, inboxVars, pageVars, planVars>>

(* It writes the row it read, with its activity event, or fails.           *)
\* Faulty: the row is written whatever it has become.
WriteBlindly(r) ==
  /\ r \in requests /\ r.phase = "read"
  /\ log' = [log EXCEPT ![r.listing] = Append(@, r.to)]
  /\ requests' = (requests \ {r}) \cup {[r EXCEPT !.phase = "ok"]}
  /\ UNCHANGED <<sent, inboxVars, pageVars, planVars>>
Write(r) ==
  /\ r \in requests /\ r.phase = "read"
  /\ LET current == Len(log[r.listing]) = r.seen IN
     /\ log' = IF current THEN [log EXCEPT ![r.listing] = Append(@, r.to)] ELSE log
     /\ requests' = (requests \ {r}) \cup {[r EXCEPT !.phase = IF current THEN "ok" ELSE "failed"]}
  /\ UNCHANGED <<sent, inboxVars, pageVars, planVars>>

(* The request or its answer is lost, or the database is unavailable.      *)
Lose(r) ==
  /\ r \in requests /\ r.phase \in {"sent", "ok"}
  /\ requests' = (requests \ {r}) \cup {[r EXCEPT !.phase = "failed"]}
  /\ UNCHANGED <<log, sent, inboxVars, pageVars, planVars>>

(* A viewing is planned for a listing that replied.                        *)
Plan(l) ==
  /\ Now(l) = "replied"
  /\ log' = [log EXCEPT ![l] = Append(@, "tour_proposed")]
  /\ UNCHANGED <<requests, sent, inboxVars, pageVars, planVars>>

(* readSnapshot reads the states of all listings; applyPlan writes them    *)
(* back in one transaction.  A plan that is refused never gets there.      *)
ReadPriors ==
  /\ plan.read = NoPlan /\ plan.decisions < MaxDecisions
  /\ plan' = [decisions |-> plan.decisions + 1, read |-> [l \in Listings |-> Len(log[l])]]
  /\ UNCHANGED <<log, requests, sent, inboxVars, pageVars, decided>>
ApplyPlan ==
  /\ plan.read # NoPlan /\ plan' = [plan EXCEPT !.read = NoPlan]
  /\ log' = [l \in Listings |-> Append(log[l], log[l][plan.read[l]])]
  /\ decided' = decided \cup
       {<<l, Len(log[l]) + 1, plan.read[l]>> : l \in Listings}
  /\ UNCHANGED <<requests, sent, inboxVars, pageVars>>

Send(from, l, to) ==
  /\ sent < MaxRequests
  /\ sent' = sent + 1
  /\ requests' = requests \cup
       {[id |-> sent, from |-> from, listing |-> l, to |-> to, phase |-> "sent", seen |-> 0]}

-----------------------------------------------------------------------------
(* The inbox: what the reader does.                                        *)
Clickable(l) == inbox.kind = "ready" /\ (~searching \/ Demo) /\ inbox.busy # l

\* Faulty: the card is changed before the answer.
ToggleEagerly(l) ==
  /\ Clickable(l) /\ CanShortlist(inbox.shown[l])
  /\ LET to == IF inbox.shown[l] = "shortlisted" THEN "new" ELSE "shortlisted" IN
     /\ Send("inbox", l, to)
     /\ inbox' = [inbox EXCEPT !.busy = l, !.shown[l] = to]
  /\ UNCHANGED <<log, searching, refreshes, told, pageVars, planVars>>
Toggle(l) ==
  /\ Clickable(l) /\ CanShortlist(inbox.shown[l])
  /\ Send("inbox", l, IF inbox.shown[l] = "shortlisted" THEN "new" ELSE "shortlisted")
  /\ inbox' = [inbox EXCEPT !.busy = l]
  /\ UNCHANGED <<log, searching, refreshes, told, pageVars, planVars>>

AskDismiss(l) ==
  /\ Clickable(l) /\ inbox.shown[l] \in Dismissible /\ inbox.confirm # l
  /\ inbox' = [inbox EXCEPT !.confirm = l]
  /\ UNCHANGED <<log, requests, sent, searching, refreshes, told, pageVars, planVars>>
CancelDismiss ==
  /\ inbox.confirm # None /\ Clickable(inbox.confirm)
  /\ inbox' = [inbox EXCEPT !.confirm = None]
  /\ UNCHANGED <<log, requests, sent, searching, refreshes, told, pageVars, planVars>>
Dismiss(l) ==
  /\ Clickable(l) /\ inbox.confirm = l
  /\ Send("inbox", l, "dismissed")
  /\ inbox' = [inbox EXCEPT !.busy = l]
  /\ UNCHANGED <<log, searching, refreshes, told, pageVars, planVars>>

(* The answer to a mutation; updateListingState changes a card that is     *)
(* there, and nothing while a list is being loaded.                        *)
\* Faulty: a refusal leaves the card busy.
AnswerInboxStuck(r) ==
  /\ r \in requests /\ r.from = "inbox" /\ r.phase \in {"ok", "failed"}
  /\ requests' = requests \ {r}
  /\ LET done == r.phase = "ok" IN
     /\ inbox' = [inbox EXCEPT
          !.busy = IF done THEN None ELSE @,
          !.confirm = IF done /\ r.to = "dismissed" THEN None ELSE @,
          !.shown = IF done /\ inbox.kind = "ready" THEN [@ EXCEPT ![r.listing] = r.to] ELSE @]
     /\ told' = IF done /\ r.to = "dismissed" THEN told \cup {r.listing} ELSE told
  /\ UNCHANGED <<log, sent, searching, refreshes, pageVars, planVars>>
AnswerInbox(r) ==
  /\ r \in requests /\ r.from = "inbox" /\ r.phase \in {"ok", "failed"}
  /\ requests' = requests \ {r}
  /\ LET done == r.phase = "ok" IN
     /\ inbox' = [inbox EXCEPT
          !.busy = None,
          !.confirm = IF done /\ r.to = "dismissed" THEN None ELSE @,
          !.shown = IF done /\ inbox.kind = "ready" THEN [@ EXCEPT ![r.listing] = r.to] ELSE @]
     /\ told' = IF done /\ r.to = "dismissed" THEN told \cup {r.listing} ELSE told
  /\ UNCHANGED <<log, sent, searching, refreshes, pageVars, planVars>>

-----------------------------------------------------------------------------
(* The inbox: its loads.  The effect aborts the load before it.            *)
Reload ==
  /\ refreshes < MaxRefreshes
  /\ refreshes' = refreshes + 1
  /\ inbox' = [inbox EXCEPT !.load = "due"]

StartSearch ==
  /\ ~searching /\ refreshes < MaxRefreshes
  /\ searching' = TRUE
  /\ UNCHANGED <<log, requests, sent, inbox, refreshes, told, pageVars, planVars>>
(* A search that completes bumps refreshKey.                               *)
EndSearch ==
  /\ searching /\ searching' = FALSE
  /\ \/ Reload
     \/ UNCHANGED <<inbox, refreshes, planVars>>
  /\ UNCHANGED <<log, requests, sent, told, pageVars, planVars>>
TryAgain ==
  /\ inbox.kind = "unavailable" /\ (~searching \/ Demo) /\ Reload
  /\ UNCHANGED <<log, requests, sent, searching, told, pageVars, planVars>>

(* loadListings, after its first await.                                    *)
BeginLoad ==
  /\ inbox.load = "due"
  /\ inbox' = [inbox EXCEPT !.load = "sent", !.kind = "loading"]
  /\ UNCHANGED <<log, requests, sent, searching, refreshes, told, pageVars, planVars>>
ServeLoad ==
  /\ inbox.load = "sent"
  /\ inbox' = [inbox EXCEPT !.load = "served", !.answer = Snapshot]
  /\ UNCHANGED <<log, requests, sent, searching, refreshes, told, pageVars, planVars>>
(* The list is shown; the inbox of a search then asks for enrichments.     *)
EndLoad ==
  /\ inbox.load = "served"
  /\ inbox' = [inbox EXCEPT !.load = IF Demo THEN "none" ELSE "enriching",
                            !.kind = "ready", !.shown = inbox.answer]
  /\ UNCHANGED <<log, requests, sent, searching, refreshes, told, pageVars, planVars>>
(* A request that fails ends in the same catch, whichever it is.           *)
\* Faulty: the skeleton stays.
FailLoadQuietly ==
  /\ inbox.load \in {"sent", "served", "enriching"}
  /\ inbox' = [inbox EXCEPT !.load = "none"]
  /\ UNCHANGED <<log, requests, sent, searching, refreshes, told, pageVars, planVars>>
FailLoad ==
  /\ inbox.load \in {"sent", "served", "enriching"}
  /\ inbox' = [inbox EXCEPT !.load = "none", !.kind = "unavailable"]
  /\ UNCHANGED <<log, requests, sent, searching, refreshes, told, pageVars, planVars>>
EndEnrichment ==
  /\ inbox.load = "enriching"
  /\ inbox' = [inbox EXCEPT !.load = "none"]
  /\ UNCHANGED <<log, requests, sent, searching, refreshes, told, pageVars, planVars>>

-----------------------------------------------------------------------------
(* The page of a listing.  Its button is there in every state.             *)
TogglePage ==
  /\ page.kind = "ready" /\ page.save = "idle"
  /\ Send("page", Opened, IF page.shown = "shortlisted" THEN "new" ELSE "shortlisted")
  /\ page' = [page EXCEPT !.save = "posting", !.acked = FALSE]
  /\ UNCHANGED <<log, reloads, inboxVars, planVars>>
AnswerPage(r) ==
  /\ r \in requests /\ r.from = "page" /\ r.phase \in {"ok", "failed"}
  /\ requests' = requests \ {r}
  /\ page' = IF r.phase = "ok" THEN [page EXCEPT !.save = "loading", !.acked = TRUE]
             ELSE [page EXCEPT !.save = "idle", !.kind = "error"]
  /\ UNCHANGED <<log, sent, reloads, inboxVars, planVars>>
ServePage ==
  /\ page.save = "loading"
  /\ page' = [page EXCEPT !.save = "loaded", !.saved = Now(Opened)]
  /\ UNCHANGED <<log, requests, sent, reloads, inboxVars, planVars>>
EndSave ==
  /\ page.save = "loaded"
  /\ page' = [page EXCEPT !.save = "idle", !.kind = "ready", !.shown = page.saved]
  /\ UNCHANGED <<log, requests, sent, reloads, inboxVars, planVars>>
FailSave ==
  /\ page.save \in {"loading", "loaded"}
  /\ page' = [page EXCEPT !.save = "idle", !.kind = "error"]
  /\ UNCHANGED <<log, requests, sent, reloads, inboxVars, planVars>>

(* refreshDetails queues an enrichment and loads the page again; it may    *)
(* run beside a toggle, and shows no error of its own on a failure.        *)
RefreshPage ==
  /\ ~Demo /\ page.kind = "ready" /\ page.refresh = "idle" /\ reloads < MaxReloads
  /\ reloads' = reloads + 1 /\ page' = [page EXCEPT !.refresh = "loading"]
  /\ UNCHANGED <<log, requests, sent, inboxVars, planVars>>
ServeRefresh ==
  /\ page.refresh = "loading"
  /\ page' = [page EXCEPT !.refresh = "loaded", !.refreshed = Now(Opened)]
  /\ UNCHANGED <<log, requests, sent, reloads, inboxVars, planVars>>
EndRefresh ==
  /\ page.refresh = "loaded"
  /\ page' = [page EXCEPT !.refresh = "idle", !.kind = "ready", !.shown = page.refreshed]
  /\ UNCHANGED <<log, requests, sent, reloads, inboxVars, planVars>>
FailRefresh ==
  /\ page.refresh \in {"loading", "loaded"}
  /\ page' = [page EXCEPT !.refresh = "idle"]
  /\ UNCHANGED <<log, requests, sent, reloads, inboxVars, planVars>>

Server(r) == Read(r) \/ Write(r)
Click == \/ \E l \in Listings : Toggle(l) \/ AskDismiss(l) \/ Dismiss(l)
         \/ CancelDismiss \/ StartSearch \/ TryAgain \/ TogglePage \/ RefreshPage
Loading == BeginLoad \/ ServeLoad \/ EndLoad \/ FailLoad
Next ==
  \/ Click \/ EndSearch \/ Loading \/ EndEnrichment
  \/ \E r \in requests : Server(r) \/ Lose(r) \/ AnswerInbox(r) \/ AnswerPage(r)
  \/ \E l \in Listings : Plan(l)
  \/ ReadPriors \/ ApplyPlan
  \/ ServePage \/ EndSave \/ FailSave \/ ServeRefresh \/ EndRefresh \/ FailRefresh

Spec == Init /\ [][Next]_vars

(* A request ends, answered or not, and the browser runs its handlers.     *)
FairSpec ==
  /\ Spec /\ WF_vars(Loading) /\ WF_vars(EndSearch)
  /\ WF_vars(\E r \in requests : Server(r) \/ AnswerInbox(r))

-----------------------------------------------------------------------------
(* Properties.                                                             *)
TypeOK ==
  /\ \A l \in Listings : log[l] \in Seq(States) /\ log[l] # <<>>
  /\ \A r \in requests : r.from \in {"inbox", "page"} /\ r.listing \in Listings /\ r.to \in States
  /\ sent \in 0 .. MaxRequests /\ refreshes \in 0 .. MaxRefreshes /\ reloads \in 0 .. MaxReloads
  /\ inbox.kind \in {"ready", "loading", "unavailable"} /\ inbox.busy \in Listings \cup {None}
  /\ inbox.kind = "loading" => inbox.load \in {"due", "sent", "served"}
  /\ plan.decisions \in 0 .. MaxDecisions
  /\ \A l \in Listings : plan.read[l] \in 0 .. Len(log[l])
  /\ page.save = "posting" <=> \E r \in requests : r.from = "page"

(* However the pages' requests interleave, a listing makes only the moves  *)
(* of the state machine, and one that is dismissed never comes back, but   *)
(* for one case: a decision writes the state it read, whatever came after. *)
LogIsLegal == \A l \in Listings : \A i \in 2 .. Len(log[l]) :
  \/ log[l][i] \in Allowed[log[l][i - 1]]
  \/ \E j \in 1 .. i - 1 : <<l, i, j>> \in decided /\ log[l][i] = log[l][j]

(* A page shows only states the listing really was in, and says that one   *)
(* is dismissed only when it is, or was until a decision that had read the *)
(* row before put it back.                                                 *)
ShownWasTrue ==
  /\ \A l \in Listings : inbox.shown[l] \in {log[l][i] : i \in DOMAIN log[l]}
  /\ page.shown \in {log[Opened][i] : i \in DOMAIN log[Opened]}
  /\ \A l \in told : \E i \in DOMAIN log[l] :
       /\ log[l][i] = "dismissed"
       /\ \/ Now(l) = "dismissed"
          \/ \E k \in i + 1 .. Len(log[l]), j \in 1 .. i - 1 : <<l, k, j>> \in decided

(* A load ends, shown or failed, and a card does not stay busy.            *)
SkeletonEnds == inbox.kind = "loading" ~> inbox.kind # "loading"
BusyEnds == \A l \in Listings : inbox.busy = l ~> inbox.busy # l
=============================================================================
