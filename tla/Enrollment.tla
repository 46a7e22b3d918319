----------------------------- MODULE Enrollment -----------------------------
(***************************************************************************)
(* Connecting a Chrome profile to a user's gateway.  An operator provisions *)
(* an assignment; the settings page asks for a one-time ticket and hands it *)
(* to the extension; the extension shows it to the gateway, which redeems  *)
(* it at the checkpoint and answers with the relay credential.             *)
(*                                                                         *)
(* Issuing and redeeming are transactions that lock the assignment first.  *)
(* A revocation is two transactions: the assignment, then the tickets and  *)
(* devices of the user, whatever assignment they belong to.                *)
(***************************************************************************)
EXTENDS Naturals, FiniteSets, FiniteSetTheorems, TLAPS

CONSTANTS
  Assignments,    \* gateway assignments one user can be given
  Installations,  \* Chrome profiles with the extension
  MaxTickets,     \* bound: tickets of one behaviour, numbered as issued
  None            \* no assignment

EnrollmentAssumption ==
  /\ MaxTickets \in Nat
  /\ None \notin Assignments

Tickets == 1 .. MaxTickets

VARIABLES
  assignment,  \* browser_gateway_assignments: status
  ticket,      \* browser_connector_enrollment_tickets
  device,      \* browser_connector_devices, numbered by their first ticket
  extension,   \* what an extension is doing, with which ticket
  token,       \* the assignment whose relay credential an extension holds
  revoking     \* the assignment whose revocation has made its first half

vars == <<assignment, ticket, device, extension, token, revoking>>

NoTicket == [status |-> "none", at |-> None, by |-> {}, device |-> 0, late |-> FALSE]
NoDevice == [status |-> "none", at |-> None, by |-> {}]
Quiet == [phase |-> "idle", ticket |-> 0]

Init ==
  /\ assignment = [a \in Assignments |-> "none"]
  /\ ticket = [t \in Tickets |-> NoTicket]
  /\ device = [d \in Tickets |-> NoDevice]
  /\ extension = [i \in Installations |-> Quiet]
  /\ token = [i \in Installations |-> None]
  /\ revoking = {}

Live(d) == device[d].status \in {"pending", "active"}
LiveAt(a) == {d \in Tickets : Live(d) /\ device[d].at = a}
LiveAssignments == {a \in Assignments : assignment[a] \in {"pending", "active"}}
-----------------------------------------------------------------------------
(* The operator: provisionBrowserAssignment and activate.                   *)

Provision(a) ==
  /\ assignment[a] = "none" /\ LiveAssignments = {}
  /\ assignment' = [assignment EXCEPT ![a] = "pending"]
  /\ UNCHANGED <<ticket, device, extension, token, revoking>>

Activate(a) ==
  /\ assignment[a] = "pending"
  /\ assignment' = [assignment EXCEPT ![a] = "active"]
  /\ UNCHANGED <<ticket, device, extension, token, revoking>>
-----------------------------------------------------------------------------
(* issue: expired tickets are closed, a second ticket or another active     *)
(* device is refused, a pending device of another profile makes way.        *)

Overdue(a) == {t \in Tickets :
  ticket[t].at = a /\ ticket[t].status = "issued" /\ ticket[t].late}
Open(a) == {t \in Tickets : ticket[t].at = a /\ ticket[t].status = "issued"}

(* Faulty: a new ticket is issued beside an open one.                       *)
AlwaysNewTicket(a) == TRUE
NoTicketActive(a) == Open(a) = Overdue(a)

(* Faulty: any device of another profile makes way.                         *)
NoConflictAnyway(a, i) == TRUE
NoConflict(a, i) ==
  \A d \in LiveAt(a) : device[d].by = {i} \/ device[d].status = "pending"

(* No live device of another assignment has the same installation: the      *)
(* unique index would abort the transaction.                                *)
InstallationFree(a, i) ==
  \A d \in Tickets : Live(d) /\ device[d].by = {i} => device[d].at = a

Issue(i, a, t) == LET own == {d \in LiveAt(a) : device[d].by = {i}} IN
  /\ extension[i].phase = "idle" /\ token[i] = None
  /\ assignment[a] = "active"
  /\ ticket[t].status = "none"
  /\ \A u \in Tickets : u < t => ticket[u].status # "none"
  /\ NoTicketActive(a)
  /\ NoConflict(a, i) /\ InstallationFree(a, i)
  /\ \E d \in IF own = {} THEN {t} ELSE own :
       /\ device' = [e \in Tickets |->
            CASE e = d /\ own = {} -> [status |-> "pending", at |-> a, by |-> {i}]
              [] e # d /\ e \in LiveAt(a) -> [device[e] EXCEPT !.status = "revoked"]
              [] OTHER -> device[e]]
       /\ ticket' = [u \in Tickets |->
            CASE u = t -> [status |-> "issued", at |-> a, by |-> {i}, device |-> d,
                           late |-> FALSE]
              [] u \in Overdue(a) -> [ticket[u] EXCEPT !.status = "expired"]
              [] OTHER -> ticket[u]]
  /\ extension' = [extension EXCEPT ![i] = [phase |-> "asked", ticket |-> t]]
  /\ UNCHANGED <<assignment, token, revoking>>

(* A ticket is good for a minute.                                           *)
TicketRunsOut(t) ==
  /\ ticket[t].status = "issued" /\ ~ ticket[t].late
  /\ ticket' = [ticket EXCEPT ![t].late = TRUE]
  /\ UNCHANGED <<assignment, device, extension, token, revoking>>
-----------------------------------------------------------------------------
(* consume, at the checkpoint of the gateway.                               *)

(* Faulty: a ticket is redeemed for a device that has made way.             *)
RedeemsForAnyDevice(t) ==
  /\ assignment[ticket[t].at] = "active"
  /\ ticket[t].status \in {"issued", "expired"}
Redeems(t) ==
  /\ assignment[ticket[t].at] = "active"
  /\ ticket[t].status = "issued" /\ ~ ticket[t].late
  /\ Live(ticket[t].device)

Consume(i) == LET t == extension[i].ticket IN
  /\ extension[i].phase = "asked"
  /\ Redeems(t)
  /\ ticket' = [ticket EXCEPT ![t].status = "consumed"]
  /\ device' = [device EXCEPT ![ticket[t].device].status = "active"]
  /\ extension' = [extension EXCEPT ![i].phase = "allowed"]
  /\ UNCHANGED <<assignment, token, revoking>>

(* A late ticket is closed as it is refused.                                *)
Refuse(i) == LET t == extension[i].ticket IN
  /\ extension[i].phase = "asked"
  /\ ~ Redeems(t)
  /\ ticket' = IF assignment[ticket[t].at] = "active"
                  /\ ticket[t].status = "issued" /\ ticket[t].late
               THEN [ticket EXCEPT ![t].status = "expired"] ELSE ticket
  /\ extension' = [extension EXCEPT ![i] = Quiet]
  /\ UNCHANGED <<assignment, device, token, revoking>>

(* The gateway sends the credential, the extension stores it and connects.  *)
Deliver(i) ==
  /\ extension[i].phase = "allowed"
  /\ token' = [token EXCEPT ![i] = ticket[extension[i].ticket].at]
  /\ extension' = [extension EXCEPT ![i] = Quiet]
  /\ UNCHANGED <<assignment, ticket, device, revoking>>

(* The connection breaks or ten seconds pass: the ticket may be used up.    *)
GiveUp(i) ==
  /\ extension[i].phase \in {"asked", "allowed"}
  /\ extension' = [extension EXCEPT ![i] = Quiet]
  /\ UNCHANGED <<assignment, ticket, device, token, revoking>>

Unpair(i) ==
  /\ token[i] # None
  /\ token' = [token EXCEPT ![i] = None]
  /\ UNCHANGED <<assignment, ticket, device, extension, revoking>>
-----------------------------------------------------------------------------
(* The revocation of the user's assignment.                                 *)

RevokeAssignment(a) ==
  /\ a \in LiveAssignments /\ revoking = {}
  /\ assignment' = [assignment EXCEPT ![a] = "revoked"]
  /\ revoking' = {a}
  /\ UNCHANGED <<ticket, device, extension, token>>

(* Faulty: tickets are left to expire and their devices to wait.            *)
RevokedActiveOnly == [d \in Tickets |->
  IF device[d].status = "active" THEN [device[d] EXCEPT !.status = "revoked"]
  ELSE device[d]]
(* Faulty: a device ends as its ticket would.                               *)
RevokedAsTickets == [d \in Tickets |->
  IF Live(d) THEN [device[d] EXCEPT !.status = "expired"] ELSE device[d]]
RevokedDevices == [d \in Tickets |->
  IF Live(d) THEN [device[d] EXCEPT !.status = "revoked"] ELSE device[d]]

(* Also made when there was no assignment left to revoke.                   *)
RevokeDevices ==
  /\ revoking # {} \/ LiveAssignments = {}
  /\ device' = RevokedDevices
  /\ ticket' = [t \in Tickets |->
       IF ticket[t].status = "issued" THEN [ticket[t] EXCEPT !.status = "revoked"]
       ELSE ticket[t]]
  /\ revoking' = {}
  /\ UNCHANGED <<assignment, extension, token>>

Next ==
  \/ \E a \in Assignments : Provision(a) \/ Activate(a) \/ RevokeAssignment(a)
  \/ \E i \in Installations, a \in Assignments, t \in Tickets : Issue(i, a, t)
  \/ \E t \in Tickets : TicketRunsOut(t)
  \/ \E i \in Installations :
       Consume(i) \/ Refuse(i) \/ Deliver(i) \/ GiveUp(i) \/ Unpair(i)
  \/ RevokeDevices

Spec == Init /\ [][Next]_vars
-----------------------------------------------------------------------------
(* Properties.                                                              *)

(* Every variable holds a value of its type.                                *)
TypeOK ==
  /\ assignment \in [Assignments -> {"none", "pending", "active", "revoked"}]
  /\ ticket \in [Tickets ->
       [status : {"none", "issued", "consumed", "expired", "revoked"},
        at : Assignments \cup {None}, by : SUBSET Installations,
        device : 0 .. MaxTickets, late : BOOLEAN]]
  /\ device \in [Tickets -> [status : {"none", "pending", "active", "revoked"},
                             at : Assignments \cup {None}, by : SUBSET Installations]]
  /\ extension \in [Installations ->
       [phase : {"idle", "asked", "allowed"}, ticket : 0 .. MaxTickets]]
  /\ token \in [Installations -> Assignments \cup {None}]
  /\ revoking \subseteq Assignments

(* The locks of issue are enough: it never violates the unique indexes on   *)
(* live devices and open tickets of an assignment.                          *)
OneDevicePerAssignment == \A a \in Assignments :
  Cardinality(LiveAt(a)) <= 1 /\ Cardinality(Open(a)) <= 1

(* The credential of an active assignment, which all its holders share, is  *)
(* in one Chrome profile at most: the one whose device is active, also when *)
(* a pending profile made way, a ticket was late or an answer got lost.     *)
OneHolder == \A i \in Installations : LET a == token[i] IN
  a # None /\ assignment[a] = "active" =>
    \E d \in LiveAt(a) : device[d].status = "active" /\ device[d].by = {i}

(* Once a revocation is through nothing of a revoked assignment is live:    *)
(* the profile is free to be connected to the next one.                     *)
RevocationIsComplete == revoking = {} => \A d \in Tickets :
  Live(d) => assignment[device[d].at] # "revoked"

(* An assignment never comes back from its revocation, and a ticket or a    *)
(* device never from its end.                                               *)
EndsAreFinal == [][
  /\ \A a \in Assignments :
       assignment[a] = "revoked" => assignment'[a] = "revoked"
  /\ \A t \in Tickets :
       /\ ticket[t].status \in {"consumed", "expired", "revoked"} =>
            ticket'[t].status = ticket[t].status
       /\ device[t].status = "revoked" => device'[t].status = "revoked" ]_vars
-----------------------------------------------------------------------------
(* Theorems, for every instance that EnrollmentAssumption allows.          *)

(* A ticket that was issued is for a device of the same profile at the     *)
(* same assignment, which has been active.                                 *)
TicketsMatch == \A t \in Tickets : ticket[t].status # "none" =>
  /\ ticket[t].at \in Assignments /\ assignment[ticket[t].at] \in {"active", "revoked"}
  /\ \E i \in Installations : ticket[t].by = {i}
  /\ ticket[t].device \in Tickets
  /\ LET d == device[ticket[t].device] IN
       d.status # "none" /\ d.at = ticket[t].at /\ d.by = ticket[t].by

(* A device has the number of the first ticket that was issued for it.     *)
DevicesMatch == \A d \in Tickets : device[d].status # "none" =>
  device[d].at \in Assignments /\ ticket[d].status # "none"

(* What an extension shows is a ticket of its own.                         *)
ShowsItsOwn == \A i \in Installations : extension[i].phase # "idle" =>
  /\ extension[i].ticket \in Tickets
  /\ ticket[extension[i].ticket].status # "none" /\ ticket[extension[i].ticket].by = {i}

(* The unique indexes, without counting.                                   *)
UniqueLive == \A d, e \in Tickets : Live(d) /\ Live(e) /\ device[d].at = device[e].at => d = e
UniqueOpen == \A t, u \in Tickets :
  ticket[t].status = "issued" /\ ticket[u].status = "issued" /\ ticket[t].at = ticket[u].at
    => t = u

RevokingIsRevoked == \A a \in revoking : assignment[a] = "revoked"

(* The inductive invariant.                                                *)
EnrollmentInv ==
  /\ TypeOK /\ TicketsMatch /\ DevicesMatch /\ ShowsItsOwn /\ UniqueLive /\ UniqueOpen
  /\ RevokingIsRevoked /\ RevocationIsComplete

(* The profile i has the active device of the assignment a.                *)
HeldBy(i, a) == \E d \in Tickets :
  device[d].status = "active" /\ device[d].at = a /\ device[d].by = {i}

(* Whoever has been allowed, or has the credential, has the active device. *)
HoldersInv == \A i \in Installations :
  /\ extension[i].phase = "allowed" =>
       LET t == ticket[extension[i].ticket] IN
         assignment[t.at] = "active" =>
           device[t.device].status = "active"
  /\ token[i] # None =>
       /\ assignment[token[i]] \in {"active", "revoked"}
       /\ assignment[token[i]] = "active" => HeldBy(i, token[i])

(* No assignment is provisioned between the two halves of a revocation.    *)
RevocationsAreCalm == revoking # {} => LiveAssignments = {}
-----------------------------------------------------------------------------
(* Types                                                                   *)

TicketRows == [status : {"none", "issued", "consumed", "expired", "revoked"},
               at : Assignments \cup {None}, by : SUBSET Installations,
               device : 0 .. MaxTickets, late : BOOLEAN]
DeviceRows == [status : {"none", "pending", "active", "revoked"},
               at : Assignments \cup {None}, by : SUBSET Installations]
ExtensionRows == [phase : {"idle", "asked", "allowed"}, ticket : 0 .. MaxTickets]

LEMMA TypesAre ==
  TypeOK <=> /\ assignment \in [Assignments -> {"none", "pending", "active", "revoked"}]
             /\ ticket \in [Tickets -> TicketRows] /\ device \in [Tickets -> DeviceRows]
             /\ extension \in [Installations -> ExtensionRows]
             /\ token \in [Installations -> Assignments \cup {None}]
             /\ revoking \subseteq Assignments
BY DEF TypeOK, TicketRows, DeviceRows, ExtensionRows

-----------------------------------------------------------------------------
(* What the steps do                                                       *)

(* An issue makes a device, and the pending devices of other profiles make *)
(* way; or it takes the one live device there is, and leaves it.           *)
NewDevice(i, a, t) ==
  /\ device[t].status = "none"
  /\ \A e \in Tickets : Live(e) /\ device[e].at = a => device[e].status = "pending"
  /\ device' = [e \in Tickets |->
       IF e = t THEN [status |-> "pending", at |-> a, by |-> {i}]
       ELSE IF Live(e) /\ device[e].at = a THEN [device[e] EXCEPT !.status = "revoked"]
       ELSE device[e]]

SameDevice(i, a, d) ==
  /\ Live(d) /\ device[d].at = a /\ device[d].by = {i}
  /\ device' = device

Issued(i, a, t, d) ==
  /\ assignment[a] = "active" /\ ticket[t].status = "none"
  /\ \A u \in Tickets : ticket[u].status = "issued" /\ ticket[u].at = a => ticket[u].late
  /\ ticket' = [u \in Tickets |->
       IF u = t THEN [status |-> "issued", at |-> a, by |-> {i}, device |-> d, late |-> FALSE]
       ELSE IF ticket[u].at = a /\ ticket[u].status = "issued" /\ ticket[u].late
            THEN [ticket[u] EXCEPT !.status = "expired"]
       ELSE ticket[u]]
  /\ extension[i].phase = "idle"
  /\ extension' = [extension EXCEPT ![i] = [phase |-> "asked", ticket |-> t]]
  /\ UNCHANGED <<assignment, token, revoking>>

LEMMA IssueStep ==
  ASSUME EnrollmentInv, NEW i \in Installations, NEW a \in Assignments, NEW t \in Tickets,
         Issue(i, a, t)
  PROVE  \E d \in Tickets : /\ Issued(i, a, t, d)
                            /\ (d = t /\ NewDevice(i, a, t)) \/ SameDevice(i, a, d)
<1> DEFINE own == {d \in LiveAt(a) : device[d].by = {i}}
<1>1. PICK d \in IF own = {} THEN {t} ELSE own :
        /\ device' = [e \in Tickets |->
             CASE e = d /\ own = {} -> [status |-> "pending", at |-> a, by |-> {i}]
               [] e # d /\ e \in LiveAt(a) -> [device[e] EXCEPT !.status = "revoked"]
               [] OTHER -> device[e]]
        /\ ticket' = [u \in Tickets |->
             CASE u = t -> [status |-> "issued", at |-> a, by |-> {i}, device |-> d,
                            late |-> FALSE]
               [] u \in Overdue(a) -> [ticket[u] EXCEPT !.status = "expired"]
               [] OTHER -> ticket[u]]
  BY DEF Issue
<1>2. d \in Tickets
  BY DEF LiveAt
<1>3. ticket[t].status = "none" /\ device[t].status = "none"
  BY DEF Issue, EnrollmentInv, DevicesMatch
<1>4. Issued(i, a, t, d)
  BY <1>1, <1>3 DEF Issue, Issued, NoTicketActive, Open, Overdue
<1>5. CASE own = {}
  <2>1. \A e \in Tickets : Live(e) /\ device[e].at = a => device[e].status = "pending"
    BY <1>5 DEF Issue, NoConflict, LiveAt
  <2>2. ~Live(t)
    BY <1>3 DEF Live
  <2>3. QED BY <1>1, <1>3, <1>4, <1>5, <2>1, <2>2 DEF NewDevice, LiveAt
<1>6. CASE own # {}
  <2>1. Live(d) /\ device[d].at = a /\ device[d].by = {i}
    BY <1>6 DEF LiveAt
  <2>2. \A e \in LiveAt(a) : e = d
    BY <1>2, <2>1 DEF LiveAt, EnrollmentInv, UniqueLive
  <2>3. device' = [e \in Tickets |-> device[e]]
    BY <1>1, <1>6, <2>2
  <2>4. device' = device
    BY <2>3, TypesAre DEF EnrollmentInv
  <2>5. QED BY <1>2, <1>4, <2>1, <2>4 DEF SameDevice
<1>7. QED BY <1>5, <1>6

-----------------------------------------------------------------------------
(* The steps keep the invariant                                            *)

LEMMA OperatorKeeps ==
  ASSUME EnrollmentInv, NEW a \in Assignments,
         Provision(a) \/ Activate(a) \/ RevokeAssignment(a)
  PROVE  EnrollmentInv'
<1>1. /\ UNCHANGED <<ticket, device, extension, token>>
      /\ assignment \in [Assignments -> {"none", "pending", "active", "revoked"}]
  BY TypesAre DEF Provision, Activate, RevokeAssignment, EnrollmentInv
<1>2. TypeOK'
  BY <1>1, TypesAre DEF Provision, Activate, RevokeAssignment, EnrollmentInv, TypeOK
<1>3. \A b \in Assignments :
        assignment[b] \in {"active", "revoked"} => assignment'[b] \in {"active", "revoked"}
  BY <1>1 DEF Provision, Activate, RevokeAssignment, LiveAssignments
<1>4. TicketsMatch'
  BY <1>1, <1>3 DEF EnrollmentInv, TicketsMatch
<1>5. DevicesMatch' /\ ShowsItsOwn' /\ UniqueLive' /\ UniqueOpen'
  BY <1>1 DEF EnrollmentInv, DevicesMatch, ShowsItsOwn, UniqueLive, UniqueOpen, Live
<1>6. RevokingIsRevoked' /\ RevocationIsComplete'
  <2>1. CASE Provision(a) \/ Activate(a)
    <3>1. /\ revoking' = revoking
          /\ \A b \in Assignments : assignment'[b] = "revoked" <=> assignment[b] = "revoked"
      BY <1>1, <2>1 DEF Provision, Activate
    <3>2. QED BY <1>1, <3>1 DEF EnrollmentInv, TypeOK, RevokingIsRevoked,
                                RevocationIsComplete, DevicesMatch, Live
  <2>2. CASE RevokeAssignment(a)
    BY <1>1, <2>2 DEF RevokeAssignment, RevokingIsRevoked, RevocationIsComplete
  <2>3. QED BY <2>1, <2>2
<1>7. QED BY <1>2, <1>4, <1>5, <1>6 DEF EnrollmentInv

LEMMA IssueKeeps ==
  ASSUME EnrollmentAssumption, EnrollmentInv, NEW i \in Installations, NEW a \in Assignments,
         NEW t \in Tickets, Issue(i, a, t)
  PROVE  EnrollmentInv'
<1>1. PICK d \in Tickets : /\ Issued(i, a, t, d)
                           /\ (d = t /\ NewDevice(i, a, t)) \/ SameDevice(i, a, d)
  BY IssueStep
<1>2. /\ ticket \in [Tickets -> TicketRows] /\ device \in [Tickets -> DeviceRows]
      /\ extension \in [Installations -> ExtensionRows] /\ Tickets \subseteq 0 .. MaxTickets
  BY TypesAre DEF EnrollmentInv, Tickets, EnrollmentAssumption
<1>3. device' \in [Tickets -> DeviceRows]
  BY <1>1, <1>2 DEF NewDevice, SameDevice, DeviceRows
<1>4. ticket' \in [Tickets -> TicketRows]
  BY <1>1, <1>2 DEF Issued, TicketRows
<1>5. extension' \in [Installations -> ExtensionRows]
  BY <1>1, <1>2 DEF Issued, ExtensionRows
<1>6. TypeOK'
  BY <1>1, <1>3, <1>4, <1>5 DEF Issued, EnrollmentInv, TypeOK, TicketRows, DeviceRows, ExtensionRows
<1>7. TicketsMatch'
  <2>1. \A e \in Tickets : device[e].status # "none" =>
          device'[e].status # "none" /\ device'[e].at = device[e].at /\ device'[e].by = device[e].by
    BY <1>1, <1>2 DEF NewDevice, SameDevice, DeviceRows
  <2>2. device'[d].status # "none" /\ device'[d].at = a /\ device'[d].by = {i}
    BY <1>1, <1>2 DEF NewDevice, SameDevice, Live, DeviceRows
  <2>3. \A u \in Tickets \ {t} :
          /\ ticket'[u].at = ticket[u].at /\ ticket'[u].by = ticket[u].by
          /\ ticket'[u].device = ticket[u].device
          /\ ticket'[u].status # "none" => ticket[u].status # "none"
    BY <1>1, <1>2 DEF Issued, TicketRows
  <2>4. ticket'[t] = [status |-> "issued", at |-> a, by |-> {i}, device |-> d, late |-> FALSE]
        /\ assignment' = assignment /\ assignment[a] = "active"
    BY <1>1 DEF Issued
  <2>5. SUFFICES ASSUME NEW u \in Tickets, ticket'[u].status # "none"
                 PROVE  /\ ticket'[u].at \in Assignments
                        /\ assignment'[ticket'[u].at] \in {"active", "revoked"}
                        /\ \E j \in Installations : ticket'[u].by = {j}
                        /\ ticket'[u].device \in Tickets
                        /\ device'[ticket'[u].device].status # "none"
                        /\ device'[ticket'[u].device].at = ticket'[u].at
                        /\ device'[ticket'[u].device].by = ticket'[u].by
    BY DEF TicketsMatch
  <2>6. CASE u = t
    BY <2>2, <2>4, <2>6
  <2>7. CASE u # t
    <3>1. ticket[u].status # "none" /\ ticket'[u].at = ticket[u].at
          /\ ticket'[u].by = ticket[u].by /\ ticket'[u].device = ticket[u].device
      BY <2>3, <2>5, <2>7
    <3>2. /\ ticket[u].at \in Assignments /\ assignment[ticket[u].at] \in {"active", "revoked"}
          /\ \E j \in Installations : ticket[u].by = {j}
          /\ ticket[u].device \in Tickets /\ device[ticket[u].device].status # "none"
          /\ device[ticket[u].device].at = ticket[u].at
          /\ device[ticket[u].device].by = ticket[u].by
      BY <3>1 DEF EnrollmentInv, TicketsMatch
    <3>3. QED BY <2>1, <2>4, <3>1, <3>2
  <2>8. QED BY <2>6, <2>7
<1>8. DevicesMatch'
  <2>1. \A u \in Tickets : u = t \/ ticket[u].status # "none" => ticket'[u].status # "none"
    BY <1>1, <1>2 DEF Issued, TicketRows
  <2>2. CASE NewDevice(i, a, t)
    BY <1>2, <2>1, <2>2 DEF NewDevice, EnrollmentInv, DevicesMatch, DeviceRows
  <2>3. CASE SameDevice(i, a, d)
    BY <2>1, <2>3 DEF SameDevice, EnrollmentInv, DevicesMatch
  <2>4. QED BY <1>1, <2>2, <2>3
<1>9. ShowsItsOwn'
  BY <1>1, <1>2 DEF Issued, EnrollmentInv, ShowsItsOwn, TicketRows, ExtensionRows
<1>10. UniqueLive'
  BY <1>1, <1>2 DEF Issued, NewDevice, SameDevice, EnrollmentInv, UniqueLive, Live, DeviceRows
<1>11. UniqueOpen'
  BY <1>1, <1>2 DEF Issued, EnrollmentInv, UniqueOpen, TicketRows
<1>12. RevokingIsRevoked' /\ RevocationIsComplete'
  BY <1>1, <1>2 DEF Issued, NewDevice, SameDevice, EnrollmentInv, RevokingIsRevoked,
                    RevocationIsComplete, Live, DeviceRows
<1>13. QED BY <1>6, <1>7, <1>8, <1>9, <1>10, <1>11, <1>12 DEF EnrollmentInv

LEMMA ClockKeeps ==
  ASSUME EnrollmentInv, NEW t \in Tickets, TicketRunsOut(t)
  PROVE  EnrollmentInv'
<1>1. /\ ticket \in [Tickets -> TicketRows]
      /\ ticket' = [ticket EXCEPT ![t].late = TRUE]
      /\ UNCHANGED <<assignment, device, extension, token, revoking>>
  BY TypesAre DEF EnrollmentInv, TicketRunsOut
<1>2. ticket' \in [Tickets -> TicketRows]
  BY <1>1 DEF TicketRows
<1>3. \A u \in Tickets : /\ ticket'[u].status = ticket[u].status /\ ticket'[u].at = ticket[u].at
                         /\ ticket'[u].by = ticket[u].by /\ ticket'[u].device = ticket[u].device
  BY <1>1 DEF TicketRows
<1>4. TypeOK'
  BY <1>1, <1>2 DEF EnrollmentInv, TypeOK, TicketRows
<1>5. QED BY <1>1, <1>3, <1>4 DEF EnrollmentInv, TicketsMatch, DevicesMatch, ShowsItsOwn,
             UniqueLive, UniqueOpen, RevokingIsRevoked, RevocationIsComplete, Live

LEMMA ConsumeKeeps ==
  ASSUME EnrollmentInv, NEW i \in Installations, Consume(i)
  PROVE  EnrollmentInv'
<1> DEFINE t == extension[i].ticket
           d == ticket[t].device
<1>1. /\ ticket \in [Tickets -> TicketRows] /\ device \in [Tickets -> DeviceRows]
      /\ extension \in [Installations -> ExtensionRows]
  BY TypesAre DEF EnrollmentInv
<1>2. /\ extension[i].phase = "asked" /\ ticket[t].status = "issued"
      /\ assignment[ticket[t].at] = "active" /\ Live(d)
      /\ ticket' = [ticket EXCEPT ![t].status = "consumed"]
      /\ device' = [device EXCEPT ![d].status = "active"]
      /\ extension' = [extension EXCEPT ![i].phase = "allowed"]
      /\ UNCHANGED <<assignment, token, revoking>>
  BY DEF Consume, Redeems
<1>3. t \in Tickets /\ ticket[t].by = {i}
  BY <1>2 DEF EnrollmentInv, ShowsItsOwn
<1>4. d \in Tickets /\ device[d].at = ticket[t].at /\ device[d].by = ticket[t].by
  BY <1>2, <1>3 DEF EnrollmentInv, TicketsMatch
<1> HIDE DEF t, d
<1>5. \A u \in Tickets : /\ ticket'[u].at = ticket[u].at
                         /\ ticket'[u].by = ticket[u].by /\ ticket'[u].device = ticket[u].device
                         /\ ticket'[u].status = IF u = t THEN "consumed" ELSE ticket[u].status
  BY <1>1, <1>2 DEF TicketRows
<1>6. \A e \in Tickets : /\ device'[e].at = device[e].at /\ device'[e].by = device[e].by
                         /\ device'[e].status = IF e = d THEN "active" ELSE device[e].status
  BY <1>1, <1>2 DEF DeviceRows
<1>7. \A j \in Installations :
        /\ extension'[j].ticket = extension[j].ticket
        /\ extension'[j].phase # "idle" => extension[j].phase # "idle"
  BY <1>1, <1>2 DEF ExtensionRows
<1>8. ticket' \in [Tickets -> TicketRows] /\ device' \in [Tickets -> DeviceRows]
      /\ extension' \in [Installations -> ExtensionRows]
  <2>1. ticket' \in [Tickets -> TicketRows]
    BY <1>1, <1>2 DEF TicketRows
  <2>2. device' \in [Tickets -> DeviceRows]
    BY <1>1, <1>2 DEF DeviceRows
  <2>3. extension' \in [Installations -> ExtensionRows]
    BY <1>1, <1>2 DEF ExtensionRows
  <2>4. QED BY <2>1, <2>2, <2>3
<1>9. TypeOK'
  BY <1>2, <1>8 DEF EnrollmentInv, TypeOK, TicketRows, DeviceRows, ExtensionRows
<1>10. TicketsMatch' /\ DevicesMatch' /\ ShowsItsOwn'
  <2>1. TicketsMatch'
    BY <1>2, <1>3, <1>4, <1>5, <1>6 DEF EnrollmentInv, TicketsMatch
  <2>2. DevicesMatch'
    BY <1>2, <1>4, <1>5, <1>6 DEF EnrollmentInv, DevicesMatch, Live
  <2>3. ShowsItsOwn'
    BY <1>3, <1>5, <1>7 DEF EnrollmentInv, ShowsItsOwn
  <2>4. QED BY <2>1, <2>2, <2>3
<1>11. UniqueLive' /\ UniqueOpen'
  BY <1>2, <1>4, <1>5, <1>6 DEF EnrollmentInv, UniqueLive, UniqueOpen, Live
<1>12. RevokingIsRevoked' /\ RevocationIsComplete'
  BY <1>2, <1>4, <1>6 DEF EnrollmentInv, RevokingIsRevoked, RevocationIsComplete, Live
<1>13. QED BY <1>9, <1>10, <1>11, <1>12 DEF EnrollmentInv

LEMMA ExtensionKeeps ==
  ASSUME EnrollmentAssumption, EnrollmentInv, NEW i \in Installations,
         Refuse(i) \/ Deliver(i) \/ GiveUp(i) \/ Unpair(i)
  PROVE  EnrollmentInv'
<1>1. /\ ticket \in [Tickets -> TicketRows] /\ extension \in [Installations -> ExtensionRows]
      /\ token \in [Installations -> Assignments \cup {None}]
  BY TypesAre DEF EnrollmentInv
<1>2. /\ UNCHANGED <<assignment, device, revoking>>
      /\ extension' \in {extension, [extension EXCEPT ![i] = Quiet]}
  BY DEF Refuse, Deliver, GiveUp, Unpair
<1>3. \A u \in Tickets : /\ ticket'[u].at = ticket[u].at
                         /\ ticket'[u].by = ticket[u].by /\ ticket'[u].device = ticket[u].device
                         /\ \/ ticket'[u].status = ticket[u].status
                            \/ ticket[u].status = "issued" /\ ticket'[u].status = "expired"
  BY <1>1 DEF Refuse, Deliver, GiveUp, Unpair, TicketRows
<1>4. ticket' \in [Tickets -> TicketRows]
  BY <1>1 DEF Refuse, Deliver, GiveUp, Unpair, TicketRows
<1>5. extension' \in [Installations -> ExtensionRows]
  BY <1>1, <1>2 DEF Quiet, ExtensionRows, EnrollmentAssumption
<1>6. token' \in [Installations -> Assignments \cup {None}]
  <2>1. CASE Deliver(i)
    BY <2>1, <1>1 DEF Deliver, EnrollmentInv, ShowsItsOwn, TicketRows
  <2>2. CASE Refuse(i) \/ GiveUp(i) \/ Unpair(i)
    BY <2>2, <1>1 DEF Refuse, GiveUp, Unpair
  <2>3. QED BY <2>1, <2>2
<1>7. TypeOK'
  BY <1>2, <1>4, <1>5, <1>6 DEF EnrollmentInv, TypeOK, TicketRows, ExtensionRows
<1>8. TicketsMatch' /\ DevicesMatch'
  BY <1>2, <1>3 DEF EnrollmentInv, TicketsMatch, DevicesMatch
<1>9. \A j \in Installations : extension'[j].phase # "idle" => extension'[j] = extension[j]
  BY <1>1, <1>2 DEF Quiet
<1>10. ShowsItsOwn'
  BY <1>3, <1>9 DEF EnrollmentInv, ShowsItsOwn
<1>11. UniqueLive' /\ UniqueOpen' /\ RevokingIsRevoked' /\ RevocationIsComplete'
  BY <1>2, <1>3 DEF EnrollmentInv, UniqueLive, UniqueOpen, RevokingIsRevoked,
                    RevocationIsComplete, Live
<1>12. QED BY <1>7, <1>8, <1>10, <1>11 DEF EnrollmentInv

LEMMA RevokeKeeps ==
  ASSUME EnrollmentInv, RevokeDevices
  PROVE  EnrollmentInv'
<1>1. /\ ticket \in [Tickets -> TicketRows] /\ device \in [Tickets -> DeviceRows]
      /\ revoking' = {} /\ UNCHANGED <<assignment, extension, token>>
  BY TypesAre DEF EnrollmentInv, RevokeDevices
<1>2. \A u \in Tickets : /\ ticket'[u].at = ticket[u].at
                         /\ ticket'[u].by = ticket[u].by /\ ticket'[u].device = ticket[u].device
                         /\ ticket'[u].status =
                              IF ticket[u].status = "issued" THEN "revoked" ELSE ticket[u].status
  BY <1>1 DEF RevokeDevices, TicketRows
<1>3. \A e \in Tickets : /\ device'[e].at = device[e].at /\ device'[e].by = device[e].by
                         /\ device'[e].status = IF Live(e) THEN "revoked" ELSE device[e].status
  BY <1>1 DEF RevokeDevices, RevokedDevices, DeviceRows
<1>4. ticket' \in [Tickets -> TicketRows] /\ device' \in [Tickets -> DeviceRows]
  <2>1. ticket' \in [Tickets -> TicketRows]
    BY <1>1 DEF RevokeDevices, TicketRows
  <2>2. device' \in [Tickets -> DeviceRows]
    BY <1>1 DEF RevokeDevices, RevokedDevices, DeviceRows
  <2>3. QED BY <2>1, <2>2
<1>5. TypeOK'
  BY <1>1, <1>4 DEF EnrollmentInv, TypeOK, TicketRows, DeviceRows
<1>6. TicketsMatch' /\ DevicesMatch' /\ ShowsItsOwn'
  BY <1>1, <1>2, <1>3 DEF EnrollmentInv, TicketsMatch, DevicesMatch, ShowsItsOwn, Live
<1>7. (\A e \in Tickets : ~Live(e))' /\ \A u \in Tickets : ticket'[u].status # "issued"
  BY <1>2, <1>3 DEF Live
<1>8. UniqueLive' /\ UniqueOpen' /\ RevokingIsRevoked' /\ RevocationIsComplete'
  BY <1>1, <1>7 DEF UniqueLive, UniqueOpen, RevokingIsRevoked, RevocationIsComplete
<1>9. QED BY <1>5, <1>6, <1>8 DEF EnrollmentInv

LEMMA InitInv ==
  ASSUME EnrollmentAssumption, Init
  PROVE  EnrollmentInv
<1>1. TypeOK
  BY DEF Init, TypeOK, NoTicket, NoDevice, Quiet, EnrollmentAssumption
<1>2. QED BY <1>1 DEF Init, EnrollmentInv, TicketsMatch, DevicesMatch, ShowsItsOwn, UniqueLive,
             UniqueOpen, RevokingIsRevoked, RevocationIsComplete, Live, NoTicket, NoDevice, Quiet

LEMMA StepInv ==
  ASSUME EnrollmentAssumption, EnrollmentInv, [Next]_vars
  PROVE  EnrollmentInv'
<1>1. ASSUME NEW a \in Assignments, Provision(a) \/ Activate(a) \/ RevokeAssignment(a)
      PROVE  EnrollmentInv'
  BY <1>1, OperatorKeeps
<1>2. ASSUME NEW i \in Installations, NEW a \in Assignments, NEW t \in Tickets, Issue(i, a, t)
      PROVE  EnrollmentInv'
  BY <1>2, IssueKeeps
<1>3. ASSUME NEW t \in Tickets, TicketRunsOut(t)
      PROVE  EnrollmentInv'
  BY <1>3, ClockKeeps
<1>4. ASSUME NEW i \in Installations, Consume(i)
      PROVE  EnrollmentInv'
  BY <1>4, ConsumeKeeps
<1>5. ASSUME NEW i \in Installations, Refuse(i) \/ Deliver(i) \/ GiveUp(i) \/ Unpair(i)
      PROVE  EnrollmentInv'
  BY <1>5, ExtensionKeeps
<1>6. CASE RevokeDevices
  BY <1>6, RevokeKeeps
<1>7. CASE UNCHANGED vars
  <2>1. UNCHANGED <<assignment, ticket, device, extension, token, revoking>>
    BY <1>7 DEF vars
  <2>2. TypeOK'
    BY <2>1 DEF EnrollmentInv, TypeOK
  <2>3. QED BY <2>1, <2>2 DEF EnrollmentInv, TicketsMatch, DevicesMatch, ShowsItsOwn,
               UniqueLive, UniqueOpen, RevokingIsRevoked, RevocationIsComplete, Live
<1>8. QED BY <1>1, <1>2, <1>3, <1>4, <1>5, <1>6, <1>7 DEF Next

-----------------------------------------------------------------------------
(* What no step undoes                                                     *)

(* An assignment goes one way; a ticket keeps what it is for, a device     *)
(* whose it is, and each its end.                                          *)
Forward ==
  /\ \A a \in Assignments :
       /\ assignment[a] = "revoked" => assignment'[a] = "revoked"
       /\ assignment[a] \in {"active", "revoked"} => assignment'[a] \in {"active", "revoked"}
  /\ \A t \in Tickets :
       /\ ticket[t].status \in {"consumed", "expired", "revoked"} =>
            ticket'[t].status = ticket[t].status
       /\ ticket[t].status # "none" =>
            ticket'[t].at = ticket[t].at /\ ticket'[t].device = ticket[t].device
       /\ device[t].status = "revoked" => device'[t].status = "revoked"
       /\ device[t].status # "none" =>
            device'[t].at = device[t].at /\ device'[t].by = device[t].by

LEMMA StepsGoForward ==
  ASSUME EnrollmentInv, [Next]_vars
  PROVE  Forward
<1>1. /\ ticket \in [Tickets -> TicketRows] /\ device \in [Tickets -> DeviceRows]
      /\ assignment \in [Assignments -> {"none", "pending", "active", "revoked"}]
  BY TypesAre DEF EnrollmentInv
<1>2. ASSUME NEW a \in Assignments, Provision(a) \/ Activate(a) \/ RevokeAssignment(a)
      PROVE  Forward
  BY <1>1, <1>2 DEF Provision, Activate, RevokeAssignment, LiveAssignments, Forward
<1>3. ASSUME NEW i \in Installations, NEW a \in Assignments, NEW t \in Tickets, Issue(i, a, t)
      PROVE  Forward
  <2>1. PICK d \in Tickets : /\ Issued(i, a, t, d)
                             /\ (d = t /\ NewDevice(i, a, t)) \/ SameDevice(i, a, d)
    BY <1>3, IssueStep
  <2>2. \A e \in Tickets :
          /\ device[e].status = "revoked" => device'[e].status = "revoked"
          /\ device[e].status # "none" =>
               device'[e].at = device[e].at /\ device'[e].by = device[e].by
    BY <1>1, <2>1 DEF NewDevice, SameDevice, DeviceRows
  <2>3. QED BY <1>1, <2>1, <2>2 DEF Issued, Forward, TicketRows
<1>4. ASSUME NEW t \in Tickets, TicketRunsOut(t)
      PROVE  Forward
  BY <1>1, <1>4 DEF TicketRunsOut, Forward, TicketRows
<1>5. ASSUME NEW i \in Installations, Consume(i)
      PROVE  Forward
  <2> DEFINE t == extension[i].ticket
             d == ticket[t].device
  <2>1. /\ ticket[t].status = "issued" /\ device[d].status \in {"pending", "active"}
        /\ ticket' = [ticket EXCEPT ![t].status = "consumed"]
        /\ device' = [device EXCEPT ![d].status = "active"]
        /\ assignment' = assignment
    BY <1>5 DEF Consume, Redeems, Live
  <2> HIDE DEF t, d
  <2>2. \A u \in Tickets :
          /\ ticket[u].status \in {"consumed", "expired", "revoked"} => u # t
          /\ u # t => ticket'[u] = ticket[u]
          /\ ticket'[u].at = ticket[u].at /\ ticket'[u].device = ticket[u].device
    BY <1>1, <2>1 DEF TicketRows
  <2>3. \A e \in Tickets :
          /\ device[e].status = "revoked" => e # d
          /\ e # d => device'[e] = device[e]
          /\ device'[e].at = device[e].at /\ device'[e].by = device[e].by
    BY <1>1, <2>1 DEF DeviceRows
  <2>4. QED BY <2>1, <2>2, <2>3 DEF Forward
<1>6. ASSUME NEW i \in Installations, Refuse(i) \/ Deliver(i) \/ GiveUp(i) \/ Unpair(i)
      PROVE  Forward
  BY <1>1, <1>6 DEF Refuse, Deliver, GiveUp, Unpair, Forward, TicketRows
<1>7. CASE RevokeDevices
  BY <1>1, <1>7 DEF RevokeDevices, RevokedDevices, Live, Forward, TicketRows, DeviceRows
<1>8. CASE UNCHANGED vars
  BY <1>8 DEF vars, Forward
<1>9. QED BY <1>2, <1>3, <1>4, <1>5, <1>6, <1>7, <1>8 DEF Next

(* The active device of an active assignment stays so: whoever might make  *)
(* it give way is refused, and a revocation takes the assignment first.    *)
LEMMA ActiveStays ==
  ASSUME EnrollmentInv, RevocationsAreCalm, [Next]_vars,
         NEW d \in Tickets, device[d].status = "active", assignment[device[d].at] = "active"
  PROVE  device'[d].status = "active"
<1>1. device \in [Tickets -> DeviceRows] /\ device[d].at \in Assignments
  BY TypesAre DEF EnrollmentInv, DevicesMatch
<1>2. ASSUME NEW i \in Installations, NEW a \in Assignments, NEW t \in Tickets, Issue(i, a, t)
      PROVE  device'[d].status = "active"
  <2>1. PICK c \in Tickets : /\ Issued(i, a, t, c)
                             /\ (c = t /\ NewDevice(i, a, t)) \/ SameDevice(i, a, c)
    BY <1>2, IssueStep
  <2>2. CASE NewDevice(i, a, t)
    BY <1>1, <2>2 DEF NewDevice, Live
  <2>3. CASE SameDevice(i, a, c)
    BY <2>3 DEF SameDevice
  <2>4. QED BY <2>1, <2>2, <2>3
<1>3. ASSUME NEW i \in Installations, Consume(i)
      PROVE  device'[d].status = "active"
  BY <1>1, <1>3 DEF Consume, DeviceRows
<1>4. CASE RevokeDevices
  BY <1>1, <1>4 DEF RevokeDevices, RevocationsAreCalm, LiveAssignments
<1>5. CASE device' = device
  BY <1>5
<1>6. QED BY <1>2, <1>3, <1>4, <1>5 DEF Next, vars, Provision, Activate, RevokeAssignment,
             TicketRunsOut, Refuse, Deliver, GiveUp, Unpair

(* A credential is delivered to whom it was allowed, and from then on      *)
(* stands for an active device.                                            *)
LEMMA HoldersStep ==
  ASSUME EnrollmentAssumption, EnrollmentInv, HoldersInv, RevocationsAreCalm, [Next]_vars
  PROVE  HoldersInv'
<1>1. Forward
  BY StepsGoForward
<1>2. /\ ticket \in [Tickets -> TicketRows] /\ device \in [Tickets -> DeviceRows]
      /\ extension \in [Installations -> ExtensionRows]
      /\ token \in [Installations -> Assignments \cup {None}]
      /\ assignment \in [Assignments -> {"none", "pending", "active", "revoked"}]
      /\ assignment' \in [Assignments -> {"none", "pending", "active", "revoked"}]
  <2>1. TypeOK'
    BY StepInv DEF EnrollmentInv
  <2>2. QED BY <2>1, TypesAre DEF EnrollmentInv, TypeOK
<1>3. SUFFICES ASSUME NEW i \in Installations
               PROVE  /\ extension'[i].phase = "allowed" =>
                           LET t == ticket'[extension'[i].ticket] IN
                             assignment'[t.at] = "active" => device'[t.device].status = "active"
                      /\ token'[i] # None =>
                           /\ assignment'[token'[i]] \in {"active", "revoked"}
                           /\ assignment'[token'[i]] = "active" => HeldBy(i, token[i])'
  BY DEF HoldersInv
<1> DEFINE t == extension[i].ticket
           d == ticket[t].device
           Match == /\ t \in Tickets /\ ticket[t].status # "none" /\ ticket[t].by = {i}
                    /\ ticket[t].at \in Assignments
                    /\ assignment[ticket[t].at] \in {"active", "revoked"}
                    /\ d \in Tickets /\ device[d].status # "none"
                    /\ device[d].at = ticket[t].at /\ device[d].by = {i}
<1>4. extension[i].phase # "idle" => Match
  BY DEF EnrollmentInv, ShowsItsOwn, TicketsMatch
<1> HIDE DEF t, d
<1>5. ASSUME extension'[i].phase = "allowed"
      PROVE  /\ extension[i].phase # "idle" /\ extension'[i].ticket = t
             /\ extension[i].phase = "allowed" \/ Consume(i)
  <2>1. ASSUME NEW j \in Installations, Consume(j)
        PROVE  /\ extension[i].phase # "idle" /\ extension'[i].ticket = t
               /\ extension[i].phase = "allowed" \/ Consume(i)
    BY <1>2, <1>5, <2>1 DEF Consume, ExtensionRows, t
  <2>2. ASSUME NEW j \in Installations, NEW a \in Assignments, NEW u \in Tickets, Issue(j, a, u)
        PROVE  extension'[i] = extension[i]
    BY <1>2, <1>5, <2>2 DEF Issue
  <2>3. ASSUME NEW j \in Installations, Refuse(j) \/ Deliver(j) \/ GiveUp(j) \/ Unpair(j)
        PROVE  extension'[i] = extension[i]
    BY <1>2, <1>5, <2>3 DEF Refuse, Deliver, GiveUp, Unpair, Quiet
  <2>4. CASE extension' = extension
    BY <2>4, <1>5 DEF t
  <2>5. QED BY <1>5, <2>1, <2>2, <2>3, <2>4 DEF Next, vars, Provision, Activate,
             RevokeAssignment, TicketRunsOut, RevokeDevices, t
<1>6. ASSUME extension'[i].phase = "allowed", assignment'[ticket'[t].at] = "active"
      PROVE  device'[ticket'[t].device].status = "active"
  <2>1. Match /\ ticket'[t].at = ticket[t].at /\ ticket'[t].device = d
    BY <1>1, <1>4, <1>5, <1>6 DEF Forward, d
  <2>2. assignment[ticket[t].at] = "active"
    BY <1>1, <1>2, <1>6, <2>1 DEF Forward
  <2>3. CASE Consume(i)
    BY <1>2, <2>1, <2>3 DEF Consume, t, d, DeviceRows
  <2>4. CASE extension[i].phase = "allowed"
    <3>1. device[d].status = "active"
      BY <2>2, <2>4 DEF HoldersInv, t, d
    <3>2. QED BY <2>1, <2>2, <3>1, ActiveStays
  <2>5. QED BY <1>5, <1>6, <2>3, <2>4
<1>7. ASSUME token'[i] # None
      PROVE  \/ token'[i] = token[i]
             \/ Deliver(i) /\ token'[i] = ticket[t].at
  <2>1. CASE token' = token
    BY <2>1
  <2>2. ASSUME NEW j \in Installations, Deliver(j)
        PROVE  \/ token'[i] = token[i]
               \/ Deliver(i) /\ token'[i] = ticket[t].at
    BY <1>2, <2>2 DEF Deliver, t
  <2>3. ASSUME NEW j \in Installations, Unpair(j)
        PROVE  token'[i] = token[i]
    BY <1>2, <1>7, <2>3 DEF Unpair
  <2>4. QED BY <2>1, <2>2, <2>3 DEF Next, vars, Provision, Activate, RevokeAssignment,
               Issue, TicketRunsOut, Consume, Refuse, GiveUp, RevokeDevices
<1>8. ASSUME token'[i] # None
      PROVE  /\ assignment[token'[i]] \in {"active", "revoked"} /\ token'[i] \in Assignments
             /\ assignment[token'[i]] = "active" => HeldBy(i, token'[i])
  <2>1. CASE token'[i] = token[i]
    BY <1>2, <1>8, <2>1 DEF HoldersInv
  <2>2. CASE Deliver(i) /\ token'[i] = ticket[t].at
    <3>1. extension[i].phase = "allowed"
      BY <2>2 DEF Deliver
    <3>2. Match
      BY <1>4, <3>1
    <3>3. assignment[ticket[t].at] = "active" => device[d].status = "active"
      BY <3>1 DEF HoldersInv, t, d
    <3>4. QED BY <2>2, <3>2, <3>3 DEF HeldBy
  <2>3. QED BY <1>7, <1>8, <2>1, <2>2
<1>9. ASSUME token'[i] # None, assignment'[token'[i]] = "active"
      PROVE  HeldBy(i, token[i])'
  <2>1. assignment[token'[i]] = "active"
    BY <1>1, <1>2, <1>8, <1>9 DEF Forward
  <2>2. PICK c \in Tickets :
          device[c].status = "active" /\ device[c].at = token'[i] /\ device[c].by = {i}
    BY <1>8, <1>9, <2>1 DEF HeldBy
  <2>3. device'[c].status = "active"
    BY <2>1, <2>2, ActiveStays
  <2>4. device'[c].at = token'[i] /\ device'[c].by = {i}
    BY <1>1, <2>2 DEF Forward
  <2>5. QED BY <2>3, <2>4 DEF HeldBy
<1>10. token'[i] # None => assignment'[token'[i]] \in {"active", "revoked"}
  BY <1>1, <1>8 DEF Forward
<1>11. QED BY <1>5, <1>6, <1>9, <1>10

-----------------------------------------------------------------------------
(* The theorems                                                            *)

LEMMA SingletonOrEmpty ==
  ASSUME NEW S, \A x, y \in S : x = y
  PROVE  Cardinality(S) <= 1
<1>1. CASE S = {}
  BY <1>1, FS_EmptySet
<1>2. CASE S # {}
  <2>1. PICK x : S = {x}
    BY <1>2
  <2>2. QED BY <2>1, FS_Singleton
<1>3. QED BY <1>1, <1>2

(* The ticket and the device of an assignment are unique whatever profiles  *)
(* ask for one, in whatever order tickets end and devices make way.         *)
THEOREM OneDevice ==
  ASSUME EnrollmentAssumption
  PROVE  Spec => [](TypeOK /\ OneDevicePerAssignment)
<1>1. EnrollmentInv => TypeOK /\ OneDevicePerAssignment
  <2> SUFFICES ASSUME EnrollmentInv, NEW a \in Assignments
               PROVE  Cardinality(LiveAt(a)) <= 1 /\ Cardinality(Open(a)) <= 1
    BY DEF EnrollmentInv, OneDevicePerAssignment
  <2>1. \A d, e \in LiveAt(a) : d = e
    BY DEF EnrollmentInv, UniqueLive, LiveAt
  <2>2. \A t, u \in Open(a) : t = u
    BY DEF EnrollmentInv, UniqueOpen, Open
  <2>3. QED BY <2>1, <2>2, SingletonOrEmpty
<1>2. Init => EnrollmentInv
  BY InitInv
<1>3. EnrollmentInv /\ [Next]_vars => EnrollmentInv'
  BY StepInv
<1>4. QED BY <1>1, <1>2, <1>3, PTL DEF Spec

(* Once its second half is through, a revocation has left nothing of a      *)
(* revoked assignment live, also what was issued or redeemed meanwhile.     *)
THEOREM RevocationsAreComplete ==
  ASSUME EnrollmentAssumption
  PROVE  Spec => []RevocationIsComplete
<1>1. EnrollmentInv => RevocationIsComplete
  BY DEF EnrollmentInv
<1>2. Init => EnrollmentInv
  BY InitInv
<1>3. EnrollmentInv /\ [Next]_vars => EnrollmentInv'
  BY StepInv
<1>4. QED BY <1>1, <1>2, <1>3, PTL DEF Spec

(* No step takes an assignment, a ticket or a device back from its end.     *)
THEOREM EndsLast ==
  ASSUME EnrollmentAssumption
  PROVE  Spec => EndsAreFinal
<1>1. Init => EnrollmentInv
  BY InitInv
<1>2. EnrollmentInv /\ [Next]_vars => EnrollmentInv'
  BY StepInv
<1> DEFINE Ends == /\ \A a \in Assignments :
                        assignment[a] = "revoked" => assignment'[a] = "revoked"
                   /\ \A t \in Tickets :
                        /\ ticket[t].status \in {"consumed", "expired", "revoked"} =>
                             ticket'[t].status = ticket[t].status
                        /\ device[t].status = "revoked" => device'[t].status = "revoked"
<1>3. EnrollmentInv /\ [Next]_vars => [Ends]_vars
  BY StepsGoForward DEF Forward
<1>4. QED BY <1>1, <1>2, <1>3, PTL DEF Spec, EndsAreFinal

(* The profile that holds the credential of an active assignment is the one *)
(* of its active device, however many assignments the user has had, unless  *)
(* one is provisioned between the two halves of a revocation: the second    *)
(* half takes the devices of the user, whatever assignment they belong to.  *)
THEOREM OneHolderWhileCalm ==
  ASSUME EnrollmentAssumption
  PROVE  Spec /\ []RevocationsAreCalm => []OneHolder
<1>1. EnrollmentInv /\ HoldersInv => OneHolder
  BY DEF EnrollmentInv, TypeOK, HoldersInv, HeldBy, OneHolder, LiveAt, Live
<1>2. Init => EnrollmentInv /\ HoldersInv
  BY InitInv DEF Init, HoldersInv, Quiet
<1>3. EnrollmentInv /\ HoldersInv /\ RevocationsAreCalm /\ [Next]_vars
        => EnrollmentInv' /\ HoldersInv'
  BY StepInv, HoldersStep
<1>4. QED BY <1>1, <1>2, <1>3, PTL DEF Spec

(* With a single assignment there is none to provision meanwhile, and the   *)
(* credential is in one profile at most without further conditions.         *)
THEOREM OneHolderOfOneAssignment ==
  ASSUME EnrollmentAssumption, NEW a, Assignments = {a}
  PROVE  Spec => []OneHolder
<1>1. EnrollmentInv => RevocationsAreCalm
  BY DEF EnrollmentInv, TypeOK, RevokingIsRevoked, RevocationsAreCalm, LiveAssignments
<1>2. Init => EnrollmentInv
  BY InitInv
<1>3. EnrollmentInv /\ [Next]_vars => EnrollmentInv'
  BY StepInv
<1>4. QED BY <1>1, <1>2, <1>3, OneHolderWhileCalm, PTL DEF Spec
=============================================================================
