----------------------------- MODULE GmailAlerts -----------------------------
(***************************************************************************)
(* The ingestion of listing alerts from Gmail: the handler of its schedule *)
(* in postgres-runtime.ts, gmail-alert-worker.ts, the connector and client *)
(* it reads with, and the cursors and references it keeps.                 *)
(*                                                                         *)
(* A message is its history identifier, a number that grows from message   *)
(* to message. What is found in a message is left out, its access token is *)
(* GoogleIntegration's, and when a run is made is ProductionSchedules'.    *)
(***************************************************************************)
EXTENDS Naturals, FiniteSets, FiniteSetsExt

CONSTANTS Workers,    \* worker processes
          MaxMessage, \* bound: the messages that arrive
          Malformed,  \* messages the client cannot read (no subject, no text)
          PageSize,   \* maxResults of a search
          MaxFaults   \* bound: calls that fail and workers that die in a run

MailBounds == PageSize \in Nat \ {0} /\ MaxMessage \in Nat /\ MaxFaults \in Nat

Messages == 1 .. MaxMessage

VARIABLES
  arrived,    \* the messages that have arrived are 1 .. arrived
  deleted,    \* those the user has deleted or taken the label from
  references, \* gmail_alert_external_references: the messages imported
  imports,    \* message -> raw listings (each with its job) made for it
  cursor,     \* gmail_alert_cursors.history_id, 0 for none
  worker,     \* worker -> its ingestion
  missed,     \* messages of a completed run's page without a reference
  permanent,  \* some run has ended as permanently_failed
  faults

vars == <<arrived, deleted, references, imports, cursor, worker, missed, permanent, faults>>

Idle == [pc |-> "idle", batch |-> {}, seen |-> {}, cursor |-> 0]

Init ==
  /\ arrived = 0 /\ deleted = {} /\ references = {} /\ imports = [m \in Messages |-> 0]
  /\ cursor = 0 /\ worker = [w \in Workers |-> Idle]
  /\ missed = {} /\ permanent = FALSE /\ faults = 0

Mailbox == (1 .. arrived) \ deleted

(* The Vera label is put on a new message.                                 *)
Arrive ==
  /\ arrived < MaxMessage /\ arrived' = arrived + 1
  /\ UNCHANGED <<deleted, references, imports, cursor, worker, missed, permanent, faults>>

Delete ==
  /\ \E m \in Mailbox : deleted' = deleted \cup {m}
  /\ UNCHANGED <<arrived, references, imports, cursor, worker, missed, permanent, faults>>
-----------------------------------------------------------------------------
(* One ingestion                                                           *)

\* Faulty: no run starts after one that has failed for good.
StartUnlessFailed(w) ==
  /\ worker[w].pc = "idle" /\ ~permanent
  /\ worker' = [worker EXCEPT ![w] = [Idle EXCEPT !.pc = "reading", !.cursor = cursor]]
  /\ UNCHANGED <<arrived, deleted, references, imports, cursor, missed, permanent, faults>>

(* The cursor is read before Gmail is asked.                               *)
Start(w) ==
  /\ worker[w].pc = "idle"
  /\ worker' = [worker EXCEPT ![w] = [Idle EXCEPT !.pc = "reading", !.cursor = cursor]]
  /\ UNCHANGED <<arrived, deleted, references, imports, cursor, missed, permanent, faults>>

(* The search does not send the cursor: it finds the newest matches.       *)
Page == {m \in Mailbox : Cardinality({n \in Mailbox : n > m}) < PageSize}

Search(w) ==
  /\ worker[w].pc = "reading"
  /\ worker' = [worker EXCEPT ![w].pc = "listed", ![w].batch = Page]
  /\ UNCHANGED <<arrived, deleted, references, imports, cursor, missed, permanent, faults>>

Unreadable(m) == m \in deleted \cup Malformed

(* Every message of the page is fetched, and one that cannot be read fails *)
(* the run for good; the transaction then looks for those it has.          *)
Fetch(w) ==
  /\ worker[w].pc = "listed"
  /\ IF \E m \in worker[w].batch : Unreadable(m)
     THEN worker' = [worker EXCEPT ![w] = Idle] /\ permanent' = TRUE
     ELSE /\ worker' = [worker EXCEPT ![w].pc = "importing", ![w].seen = references]
          /\ permanent' = permanent
  /\ UNCHANGED <<arrived, deleted, references, imports, cursor, missed, faults>>

\* Faulty: the import stops at the first message it has.
NewUntilSeen(w) ==
  {m \in worker[w].batch :
     \A n \in worker[w].batch : n >= m => n \notin references}

New(w) == worker[w].batch \ worker[w].seen

\* Faulty: a message that another run has imported is imported again.
ClashesNever(w) == FALSE

(* The message identifier of a reference is unique.                        *)
Clashes(w) == New(w) \cap references # {}

\* Faulty: the cursor of a search is the next history.
LatestNext(w) == IF worker[w].batch = {} THEN arrived + 1 ELSE Min(worker[w].batch)

(* The history of the last message of the page, which is the oldest: the   *)
(* answer to a search has no history of its own.                           *)
Latest(w) == IF worker[w].batch = {} THEN worker[w].cursor ELSE Min(worker[w].batch)

(* References, raw listings, jobs and cursor are one transaction; the      *)
(* cursor is written whatever another run has made of it.                  *)
Import(w) ==
  /\ worker[w].pc = "importing"
  /\ IF Clashes(w)
     THEN /\ permanent' = TRUE
          /\ UNCHANGED <<references, imports, cursor, missed>>
     ELSE /\ references' = references \cup New(w)
          /\ imports' = [m \in Messages |-> IF m \in New(w) THEN imports[m] + 1 ELSE imports[m]]
          /\ cursor' = Latest(w)
          /\ missed' = missed \cup (worker[w].batch \ references')
          /\ permanent' = permanent
  /\ worker' = [worker EXCEPT ![w] = Idle]
  /\ UNCHANGED <<arrived, deleted, faults>>

(* A call fails, the process is stopped or dies: nothing is written.       *)
Fail(w) ==
  /\ worker[w].pc # "idle" /\ faults < MaxFaults /\ faults' = faults + 1
  /\ worker' = [worker EXCEPT ![w] = Idle]
  /\ UNCHANGED <<arrived, deleted, references, imports, cursor, missed, permanent>>

Run(w) == Start(w) \/ Search(w) \/ Fetch(w) \/ Import(w)

Next == Arrive \/ Delete \/ \E w \in Workers : Run(w) \/ Fail(w)

Spec == Init /\ [][Next]_vars

(* Every worker goes on with its runs, of which the schedule always makes  *)
(* another.                                                                *)
FairSpec == Spec /\ \A w \in Workers : WF_vars(Run(w))
-----------------------------------------------------------------------------
(* Properties                                                              *)

(* A reference belongs to a message, and so does a cursor.                 *)
TypeOK ==
  /\ references \subseteq 1 .. arrived /\ deleted \subseteq 1 .. arrived
  /\ cursor \in 0 .. arrived /\ imports \in [Messages -> Nat]

(* Runs that overlap import a message once, and only with its reference.   *)
ImportedOnce == \A m \in Messages : imports[m] = IF m \in references THEN 1 ELSE 0

(* Whatever came and went since the last run, a run that completes leaves  *)
(* no message of its page behind.                                          *)
PageIsImported == missed = {}

(* An alert is imported if it comes to stay on the newest page, and all    *)
(* messages of that page can be read: one that cannot fails every run.     *)
AlertIsImported ==
  \A m \in Messages :
    <>[](m \in Page /\ Page \cap Malformed = {}) => <>(m \in references)
=============================================================================
