----------------------------- MODULE SearchPage -----------------------------
(***************************************************************************)
(* The search panel of the cockpit: choosing a profile and sources,        *)
(* confirming, the check of the shared tab, starting, polling, stopping    *)
(* and retrying a search.                                                  *)
(*                                                                         *)
(* The page talks to one server.  A start is a POST that is answered only  *)
(* when every source of the search has settled; meanwhile the page polls.  *)
(* Answers arrive in any order and may be lost, and what the person does   *)
(* in between is remembered by the calls under way: run() works with the   *)
(* profile of the render its button was drawn in.                          *)
(*                                                                         *)
(* A run stands for one call of run() and for the id it makes up.  Error   *)
(* texts are left out.                                                     *)
(***************************************************************************)
EXTENDS FiniteSets

CONSTANTS
  Profiles,   \* search profiles
  Saved,      \* those that are there when the page is loaded
  Sources,    \* the sources on offer
  Approved,   \* those approved for the account
  Runs,       \* bound: calls of run()
  CanReload,  \* TRUE when the person may reload the page
  CanStop,    \* TRUE when the person may stop a search
  None        \* no profile, no run, no message

BrowserSources ==
  {"zillow", "apartments_com", "facebook_marketplace", "bu_off_campus", "custom_website", "craigslist"}

SearchPageAssumption ==
  /\ Saved \subseteq Profiles /\ Approved \subseteq Sources
  /\ Sources \subseteq BrowserSources \cup {"rentcast"}
  /\ CanReload \in BOOLEAN /\ CanStop \in BOOLEAN /\ None \notin Profiles \cup Runs

VARIABLES
  page,    \* the state of the panel
  custom,  \* local storage: a housing website was saved, and is on by default
  told,    \* the last readiness message of the extension
  heard,   \* by run: the messages since its preflight began
  call,    \* by run: its POST
  server,  \* by run: what the server has come to
  poll,    \* the request for the status that is under way
  stop,    \* the request to stop that is under way
  agreed   \* history: profile and sources whenever the box was ticked

vars == <<page, custom, told, heard, call, server, poll, stop, agreed>>

Messages == {"ready", "not_ready"}
Status == [run : Runs, phase : {"searching", "checking", "completed"},
           failed : SUBSET Sources, open : SUBSET Sources]
Customs == {"none", "saved", "default"}

NoStatus == [run |-> None, phase |-> None, failed |-> {}, open |-> {}]
NoCall == [step |-> "unused", profile |-> None, sources |-> {}, retry |-> None, answer |-> NoStatus]
NoPoll == [run |-> None, answer |-> NoStatus]

TypeOK ==
  /\ page \in [known : SUBSET Profiles, profile : Profiles \cup {None}, sources : SUBSET Approved,
               confirmed : BOOLEAN, run : Runs \cup {None}, status : Status \cup {NoStatus},
               local : BOOLEAN, preflight : BOOLEAN, custom : Customs]
  /\ custom \in Customs
  /\ told \in Messages \cup {None}
  /\ heard \in [Runs -> SUBSET Messages]
  /\ call \in [Runs -> [step : {"unused", "preflight", "refused", "sent", "settled", "over", "lost"},
                        profile : Profiles \cup {None}, sources : SUBSET Approved,
                        retry : Runs \cup {None}, answer : Status \cup {NoStatus}]]
  /\ \A r \in Runs : server[r] \in Status \cup {NoStatus} /\ server[r].run \in {r, None}
  /\ poll \in [run : Runs \cup {None}, answer : Status \cup {NoStatus}]
  /\ stop \in [run : Runs \cup {None}, answer : Status \cup {NoStatus}]
  /\ agreed \subseteq Profiles \X SUBSET Approved

OpenedPage(known, first) ==
  [known |-> known, profile |-> first,
   sources |-> Approved \cap {"rentcast", "zillow", "apartments_com", "facebook_marketplace"},
   confirmed |-> FALSE, run |-> None, status |-> NoStatus, local |-> FALSE, preflight |-> FALSE,
   custom |-> "none"]

Init ==
  /\ \E first \in IF Saved = {} THEN {None} ELSE Saved : page = OpenedPage(Saved, first)
  /\ custom = "none"
  /\ told = None
  /\ heard = [r \in Runs |-> {}]
  /\ call = [r \in Runs |-> NoCall]
  /\ server = [r \in Runs |-> NoStatus]
  /\ poll = NoPoll /\ stop = NoPoll
  /\ agreed = {}
-----------------------------------------------------------------------------
(* What the page shows.                                                     *)

Phase(p) == IF p.status # NoStatus THEN p.status.phase
            ELSE IF p.local THEN "connecting" ELSE None
Running == page.run # None /\ Phase(page) # "completed"
Busy == Running \/ page.preflight

UsesBrowser(sources) == sources \cap BrowserSources # {}
MayBrowse(sources) == UsesBrowser(sources) => told = "ready"

Recoverable == page.status.failed
RecoveryReady == Recoverable # {} /\ page.status.open = {}

(* Faulty: the request under way is not aborted.                            *)
ShowAndKeep(new) == page' = new /\ poll' = poll

(* A new state of the panel.  The polling belongs to a run and a phase:     *)
(* when one of them changes, the request under way is aborted.              *)
Show(new) ==
  /\ page' = new
  /\ poll' = IF new.run = page.run /\ Phase(new) = Phase(page) THEN poll ELSE NoPoll

-----------------------------------------------------------------------------
(* The person.                                                              *)

(* Faulty: another profile does not ask for another confirmation.           *)
ChosenAsConfirmed(p) == [page EXCEPT !.profile = p]

Chosen(p) == [page EXCEPT !.profile = p, !.confirmed = FALSE]

SelectProfile(p) ==
  /\ ~Running /\ p \in page.known
  /\ page' = Chosen(p)
  /\ UNCHANGED <<custom, told, heard, call, server, poll, stop, agreed>>

(* The answer to a profile being saved may come at any time.                *)
ProfileCreated(p) ==
  /\ p \notin page.known
  /\ page' = [Chosen(p) EXCEPT !.known = @ \cup {p}]
  /\ UNCHANGED <<custom, told, heard, call, server, poll, stop, agreed>>

ToggleSource(s) ==
  /\ ~Busy /\ s \in Approved
  /\ s = "custom_website" => page.custom # "none"
  /\ page' = [page EXCEPT !.confirmed = FALSE,
                !.sources = IF s \in @ THEN @ \ {s} ELSE @ \cup {s}]
  /\ UNCHANGED <<custom, told, heard, call, server, poll, stop, agreed>>

(* Faulty: a website is selected without asking whether it is approved.      *)
WithCustomUnasked(sources, how) ==
  IF how = "default" THEN sources \cup {"custom_website"} ELSE sources \ {"custom_website"}

WithCustom(sources, how) ==
  IF how = "default" /\ "custom_website" \in Approved
  THEN sources \cup {"custom_website"} ELSE sources \ {"custom_website"}

SaveCustomSource(how) ==
  /\ ~Busy /\ how # "none"
  /\ custom' = how
  /\ page' = [page EXCEPT !.custom = how, !.confirmed = FALSE,
                          !.sources = WithCustom(@, how)]
  /\ UNCHANGED <<told, heard, call, server, poll, stop, agreed>>

Confirm ==
  /\ ~Busy /\ page.profile # None /\ page.sources # {} /\ MayBrowse(page.sources)
  /\ \E ticked \in BOOLEAN :
       /\ page' = [page EXCEPT !.confirmed = ticked]
       /\ agreed' = agreed \cup (IF ticked THEN {<<page.profile, page.sources>>} ELSE {})
  /\ UNCHANGED <<custom, told, heard, call, server, poll, stop>>

(* The page is loaded: it reads local storage and has forgotten the rest.   *)
(* What was sent is on its way.                                             *)
Reload ==
  /\ CanReload
  /\ \E first \in page.known :
       page' = LET p == OpenedPage(page.known, first)
               IN [p EXCEPT !.custom = custom,
                     !.sources = IF custom = "default" THEN WithCustom(@, custom) ELSE @]
  /\ call' = [r \in Runs |-> IF call[r].step \in {"sent", "settled", "refused"}
                             THEN [call[r] EXCEPT !.step = "lost"]
                             ELSE IF call[r].step = "preflight" THEN [NoCall EXCEPT !.step = "over"]
                             ELSE call[r]]
  /\ told' = None /\ poll' = NoPoll /\ stop' = NoPoll
  /\ UNCHANGED <<custom, heard, server, agreed>>
-----------------------------------------------------------------------------
(* Starting a search.                                                       *)

(* The rest of run(), once nothing is in its way.                           *)
Send(r, c) ==
  /\ call' = [call EXCEPT ![r] = [c EXCEPT !.step = "sent"]]
  /\ Show([page EXCEPT !.run = r, !.status = NoStatus, !.local = TRUE, !.preflight = FALSE])
  /\ UNCHANGED heard

Preflight(r, c) ==
  /\ call' = [call EXCEPT ![r] = [c EXCEPT !.step = "preflight"]]
  /\ heard' = [heard EXCEPT ![r] = {}]
  /\ page' = [page EXCEPT !.preflight = TRUE]
  /\ UNCHANGED poll

Run(r, sources, retry) ==
  /\ call[r] = NoCall
  /\ sources # {} /\ sources \subseteq Approved
  /\ "custom_website" \in sources => page.custom # "none"
  /\ MayBrowse(sources)
  /\ LET c == [NoCall EXCEPT !.profile = page.profile, !.sources = sources, !.retry = retry]
     IN IF UsesBrowser(sources) THEN Preflight(r, c) ELSE Send(r, c)
  /\ UNCHANGED <<custom, told, server, stop, agreed>>

SearchNow(r) ==
  /\ ~Busy /\ page.confirmed /\ page.profile # None
  /\ Run(r, page.sources, None)

(* The button waits neither for the confirmation nor for a preflight.       *)
Retry(r) ==
  /\ Recoverable # {} /\ (~Running \/ RecoveryReady)
  /\ Run(r, Recoverable, page.status.run)

CapturePage(r) ==
  /\ page.custom # "none" /\ "custom_website" \in Recoverable
  /\ ~Busy /\ told = "ready"
  /\ Run(r, {"custom_website"}, page.status.run)

(* Faulty: a message from before the preflight counts.                      *)
PassesByMemory(r) == told = "ready"

(* A message has come since the preflight began, and the last one is good.  *)
Passes(r) == heard[r] # {} /\ told = "ready"

PreflightEnds(r) ==
  /\ call[r].step = "preflight"
  /\ IF Passes(r) THEN Send(r, call[r])
     ELSE /\ call' = [call EXCEPT ![r].step = "over"]
          /\ page' = [page EXCEPT !.preflight = FALSE, !.confirmed = FALSE]
          /\ UNCHANGED <<heard, poll>>
  /\ UNCHANGED <<custom, told, server, stop, agreed>>

Hear(m) ==
  /\ told' = m
  /\ heard' = [r \in Runs |-> IF call[r].step = "preflight" THEN heard[r] \cup {m} ELSE heard[r]]
  /\ UNCHANGED <<page, custom, call, server, poll, stop, agreed>>

(* No message for 3.5 s; a preflight lasts 2.5 s.                           *)
ForgetReadiness ==
  /\ told # None
  /\ \A r \in Runs : call[r].step = "preflight" => heard[r] = {}
  /\ told' = None
  /\ UNCHANGED <<page, custom, heard, call, server, poll, stop, agreed>>
-----------------------------------------------------------------------------
(* The server.                                                              *)

ServerStarts(r) ==
  /\ call[r].step \in {"sent", "lost"} /\ server[r] = NoStatus
  /\ server' = [server EXCEPT ![r] = [run |-> r, phase |-> "searching", failed |-> {},
                                      open |-> call[r].sources]]
  /\ UNCHANGED <<page, custom, told, heard, call, poll, stop, agreed>>

ServerRefuses(r) ==
  /\ call[r].step = "sent" /\ server[r] = NoStatus
  /\ call' = [call EXCEPT ![r].step = "refused"]
  /\ UNCHANGED <<page, custom, told, heard, server, poll, stop, agreed>>

SourceSettles(r) ==
  /\ \E s \in server[r].open, fails \in BOOLEAN :
       server' = [server EXCEPT ![r].open = @ \ {s},
                    ![r].failed = IF fails THEN @ \cup {s} ELSE @,
                    ![r].phase = IF server[r].open = {s} THEN "checking" ELSE @]
  /\ UNCHANGED <<page, custom, told, heard, call, poll, stop, agreed>>

Settled(r) == server[r] # NoStatus /\ server[r].open = {}

Decided(r) ==
  /\ Settled(r) /\ server[r].phase # "completed"
  /\ server' = [server EXCEPT ![r].phase = "completed"]
  /\ UNCHANGED <<page, custom, told, heard, call, poll, stop, agreed>>

ServerAnswers(r) ==
  /\ Settled(r) /\ call[r].step = "sent"
  /\ call' = [call EXCEPT ![r].step = "settled", ![r].answer = server[r]]
  /\ UNCHANGED <<page, custom, told, heard, server, poll, stop, agreed>>
-----------------------------------------------------------------------------
(* Answers.                                                                 *)

PostAnswered(r) ==
  /\ call[r].step = "settled"
  /\ call' = [call EXCEPT ![r].step = "over"]
  /\ Show([page EXCEPT !.status = call[r].answer, !.local = FALSE])
  /\ UNCHANGED <<custom, told, heard, server, stop, agreed>>

(* It was refused, or the connection broke: the server does not notice.     *)
PostFails(r) ==
  /\ call[r].step \in {"sent", "settled", "refused"}
  /\ call' = [call EXCEPT ![r].step = IF @ = "refused" THEN "over" ELSE "lost"]
  /\ Show([page EXCEPT !.run = None, !.local = FALSE])
  /\ UNCHANGED <<custom, told, heard, server, stop, agreed>>

Poll ==
  /\ Running /\ poll = NoPoll
  /\ poll' = [run |-> page.run, answer |-> NoStatus]
  /\ UNCHANGED <<page, custom, told, heard, call, server, stop, agreed>>

ServerIsPolled ==
  /\ poll.run # None /\ poll.answer = NoStatus /\ server[poll.run] # NoStatus
  /\ poll' = [poll EXCEPT !.answer = server[poll.run]]
  /\ UNCHANGED <<page, custom, told, heard, call, server, stop, agreed>>

PollAnswered ==
  /\ poll.answer # NoStatus
  /\ page' = [page EXCEPT !.status = poll.answer, !.local = FALSE]
  /\ poll' = NoPoll
  /\ UNCHANGED <<custom, told, heard, call, server, stop, agreed>>

(* 404, an error or no answer.                                              *)
PollFails ==
  /\ poll # NoPoll
  /\ poll' = NoPoll
  /\ UNCHANGED <<page, custom, told, heard, call, server, stop, agreed>>

(* One request to stop at a time.                                           *)
Stop ==
  /\ CanStop /\ Running /\ stop = NoPoll
  /\ stop' = [run |-> page.run, answer |-> NoStatus]
  /\ UNCHANGED <<page, custom, told, heard, call, server, poll, agreed>>

ServerStops ==
  /\ stop.run # None /\ stop.answer = NoStatus /\ server[stop.run] # NoStatus
  /\ LET stopped == [server[stop.run] EXCEPT !.open = {}, !.phase = "completed"]
     IN server' = [server EXCEPT ![stop.run] = stopped] /\ stop' = [stop EXCEPT !.answer = stopped]
  /\ UNCHANGED <<page, custom, told, heard, call, poll, agreed>>

StopAnswered ==
  /\ stop.answer # NoStatus
  /\ stop' = NoPoll
  /\ Show([page EXCEPT !.status = stop.answer, !.local = FALSE])
  /\ UNCHANGED <<custom, told, heard, call, server, agreed>>

StopFails ==
  /\ stop # NoPoll
  /\ stop' = NoPoll
  /\ UNCHANGED <<page, custom, told, heard, call, server, poll, agreed>>
-----------------------------------------------------------------------------
Answers(r) == PostAnswered(r) \/ PostFails(r)
Works(r) == ServerStarts(r) \/ ServerRefuses(r) \/ SourceSettles(r) \/ Decided(r) \/ ServerAnswers(r)

Next ==
  \/ \E p \in Profiles : SelectProfile(p) \/ ProfileCreated(p)
  \/ \E s \in Sources : ToggleSource(s)
  \/ \E how \in Customs : SaveCustomSource(how)
  \/ Confirm \/ Reload
  \/ \E r \in Runs : SearchNow(r) \/ Retry(r) \/ CapturePage(r) \/ PreflightEnds(r)
  \/ \E m \in Messages : Hear(m)
  \/ ForgetReadiness
  \/ \E r \in Runs : Works(r) \/ Answers(r)
  \/ Poll \/ ServerIsPolled \/ PollAnswered \/ PollFails
  \/ Stop \/ ServerStops \/ StopAnswered \/ StopFails

Spec == Init /\ [][Next]_vars

(* The server works, every POST is answered or breaks, the page polls every *)
(* second, and of the polls not all are lost.                               *)
Fairness ==
  /\ \A r \in Runs : WF_vars(Works(r)) /\ WF_vars(Answers(r))
  /\ WF_vars(Poll) /\ SF_vars(ServerIsPolled) /\ SF_vars(PollAnswered)

FairSpec == Spec /\ Fairness
-----------------------------------------------------------------------------
(* Properties.                                                              *)

Sends(r) == call[r].step # "sent" /\ call'[r].step = "sent"

(* A search of browser sources starts only after the extension has said,    *)
(* since the click, that the tab is ready: waitForFreshBrowserReadiness.    *)
FreshlyReady ==
  [][\A r \in Runs : Sends(r) /\ UsesBrowser(call[r].sources) => "ready" \in heard[r]]_vars

(* What is searched was confirmed, profile and sources together, whatever   *)
(* the person chooses while the tab is checked: the closure of run().       *)
SearchAsConfirmed ==
  \A r \in Runs : call[r].step = "sent" /\ call[r].retry = None =>
                    <<call[r].profile, call[r].sources>> \in agreed

(* A poll never shows a search other than the one the page is waiting for.  *)
PollsShowTheRun ==
  [][poll.answer # NoStatus /\ page' # page /\ page'.status = poll.answer
       /\ stop' = stop /\ call' = call => poll.run = page.run]_vars

(* Every search the page waits for comes to an end on the page.             *)
SearchEnds == Running ~> ~Running
=============================================================================
