-------------------------- MODULE GoogleIntegration --------------------------
(***************************************************************************)
(* The Google connection of a user: the consent flows of                   *)
(* google-integration-oauth.ts and gmail-integration-oauth.ts, the token   *)
(* refreshes of the web application and of the Gmail worker                *)
(* (google-gmail-access.ts) and the disconnect, over the row of            *)
(* integration-repository.ts and the lease of                              *)
(* integration-refresh-leases.ts. Google is external: it issues, rotates,  *)
(* refuses and revokes refresh tokens.                                     *)
(*                                                                         *)
(* Every request reads the row first, works with what it read and writes   *)
(* the whole row back; the lease is taken after the read. Tokens are       *)
(* numbered in the order Google issues them.                               *)
(***************************************************************************)
EXTENDS Naturals, FiniteSets

CONSTANTS Procs,           \* requests of the web application and the worker
          States,          \* OAuth states, one for each authorization asked for
          Accounts,        \* Google accounts the user owns
          None,            \* no account, no lease owner
          MaxTokens,       \* bound: refresh tokens Google issues
          MaxDisconnects,  \* bound: disconnects
          MaxRefreshes,    \* bound: refreshes
          MaxRotations,    \* bound: refreshes that are given a new token
          MaxOutages,      \* bound: calls to Google that fail
          MaxSlow,         \* bound: leases that expire under a working refresh
          MaxCrashes,      \* bound: processes that die
          MaxWithdrawals   \* bound: grants the user revokes at Google

IntegrationBounds ==
  {MaxTokens, MaxDisconnects, MaxRefreshes, MaxRotations, MaxOutages, MaxSlow,
   MaxCrashes, MaxWithdrawals} \subseteq Nat

VARIABLES
  conn,      \* the integration_connections row
  schedule,  \* the Gmail ingestion schedule: "none", "enabled" or "disabled"
  lease,     \* the integration_refresh_leases row
  states,    \* OAuth state -> "unused", the flow it was made for, or "consumed"
  owner,     \* refresh token -> the account it belongs to, None before its issue
  live,      \* the refresh tokens Google accepts
  granted,   \* account -> the scopes granted at Google
  op,        \* process -> the request it serves
  agreed,    \* a consent was recorded after the last recorded disconnect
  revoked,   \* tokens a recorded disconnect was told that Google has ended
  used       \* how much of each bound is used

vars == <<conn, schedule, lease, states, owner, live, granted, op, agreed, revoked, used>>

Flows  == {"calendar", "gmail"}
Tokens == 1 .. MaxTokens
Without == 0

NoConn == [status |-> "none", token |-> Without, scopes |-> {}, account |-> None]
Idle   == [kind |-> "none", pc |-> "idle", seen |-> NoConn, account |-> None,
           token |-> Without, scopes |-> {}, answer |-> "none"]
Free   == [owner |-> None, expired |-> FALSE]

Bounds == [disconnects |-> MaxDisconnects, refreshes |-> MaxRefreshes,
           rotations |-> MaxRotations, outages |-> MaxOutages, slow |-> MaxSlow,
           crashes |-> MaxCrashes, withdrawals |-> MaxWithdrawals]

Init ==
  /\ conn = NoConn /\ schedule = "none" /\ lease = Free
  /\ states = [s \in States |-> "unused"]
  /\ owner = [t \in Tokens |-> None] /\ live = {}
  /\ granted = [a \in Accounts |-> {}]
  /\ op = [p \in Procs |-> Idle]
  /\ agreed = FALSE /\ revoked = {}
  /\ used = [b \in DOMAIN Bounds |-> 0]

Use(b) == used[b] < Bounds[b] /\ used' = [used EXCEPT ![b] = @ + 1]

googleVars == <<owner, live, granted>>
history    == <<agreed, revoked>>

At(p, kinds, pc) == op[p].kind \in kinds /\ op[p].pc = pc
Done(p) == op' = [op EXCEPT ![p] = Idle]
Fresh(t) == owner[t] = None /\ \A u \in 1 .. t - 1 : owner[u] # None
-----------------------------------------------------------------------------
(* Consent                                                                 *)

(* createAuthorization stores a state and sends the user to Google.        *)
Authorize(s) ==
  /\ states[s] = "unused"
  /\ \E flow \in Flows : states' = [states EXCEPT ![s] = flow]
  /\ UNCHANGED <<conn, schedule, lease, googleVars, op, history, used>>

(* A callback consumes its state; nothing more happens when consent was    *)
(* denied or the exchange fails.                                           *)
FailCallback(s) ==
  /\ states[s] \in Flows
  /\ states' = [states EXCEPT ![s] = "consumed"]
  /\ UNCHANGED <<conn, schedule, lease, googleVars, op, history, used>>

(* Else Google answers with an account, its scopes (the user may have      *)
(* ticked the one asked for or not) and perhaps a refresh token.           *)
Exchange(p, s) ==
  /\ op[p] = Idle /\ states[s] \in Flows
  /\ states' = [states EXCEPT ![s] = "consumed"]
  /\ \E a \in Accounts, t \in Tokens \cup {Without}, ticked \in SUBSET {states[s]} :
       /\ t # Without => Fresh(t)
       /\ granted' = [granted EXCEPT ![a] = @ \cup ticked]
       /\ owner' = IF t = Without THEN owner ELSE [owner EXCEPT ![t] = a]
       /\ live' = live \cup ({t} \ {Without})
       /\ op' = [op EXCEPT ![p] = [Idle EXCEPT !.kind = states[s], !.pc = "exchanged",
                   !.account = a, !.token = t, !.scopes = granted'[a]]]
  /\ UNCHANGED <<conn, schedule, lease, history, used>>

\* Faulty: a connection whose grant was revoked is taken for disconnected.
MayLinkRevoked(seen, a) ==
  seen.status \in {"none", "disconnected", "revoked"} \/ seen.account = a

(* Another account may be linked only once the first is disconnected.      *)
MayLink(seen, a) == seen.status \in {"none", "disconnected"} \/ seen.account = a

(* The callback reads the connection ...                                   *)
ReadForCallback(p) ==
  /\ At(p, Flows, "exchanged")
  /\ IF MayLink(conn, op[p].account)
     THEN op' = [op EXCEPT ![p].pc = "linking", ![p].seen = conn]
     ELSE Done(p)
  /\ UNCHANGED <<conn, schedule, lease, states, googleVars, history, used>>

LinkStatus(flow, token, scopes) ==
  IF token = Without THEN "reconnect_required"
  ELSE IF flow \in scopes THEN "connected" ELSE "partial"

(* ... and writes it; a second row for the user is refused. A Gmail        *)
(* consent enables the schedule in the same transaction.                   *)
Link(p) ==
  /\ At(p, Flows, "linking")
  /\ LET o == op[p]
         token == IF o.token = Without THEN o.seen.token ELSE o.token
     IN  IF o.seen = NoConn /\ conn # NoConn
         THEN UNCHANGED <<conn, schedule, agreed>>
         ELSE /\ conn' = [status |-> LinkStatus(o.kind, token, o.scopes), token |-> token,
                          scopes |-> o.scopes, account |-> o.account]
              /\ schedule' = IF o.kind = "gmail" /\ "gmail" \in o.scopes /\ token # Without
                             THEN "enabled" ELSE schedule
              /\ agreed' = TRUE
  /\ Done(p)
  /\ UNCHANGED <<lease, states, googleVars, revoked, used>>
-----------------------------------------------------------------------------
(* The lease                                                               *)

\* Faulty: the insert overwrites the lease of another owner.
AcquirableAlways == TRUE

(* A row that is absent or has expired is taken over.                      *)
Acquirable == lease.owner = None \/ lease.expired

Acquire(p) ==
  /\ op[p].pc = "read"
  /\ IF Acquirable
     THEN /\ lease' = [owner |-> p, expired |-> FALSE]
          /\ op' = [op EXCEPT ![p].pc = "leased"]
     ELSE lease' = lease /\ Done(p)
  /\ UNCHANGED <<conn, schedule, states, googleVars, history, used>>

(* Only the owner's row is deleted.                                        *)
Released(p) == IF lease.owner = p THEN Free ELSE lease

(* A dead owner's lease expires; so may that of a refresh of the web       *)
(* application, whose four calls of up to ten seconds outlast it.          *)
ExpireLease ==
  /\ lease.owner # None /\ ~lease.expired
  /\ IF op[lease.owner].pc \in {"leased", "answered"}
     THEN op[lease.owner].kind = "refresh" /\ Use("slow")
     ELSE used' = used
  /\ lease' = [lease EXCEPT !.expired = TRUE]
  /\ UNCHANGED <<conn, schedule, states, googleVars, op, history>>
-----------------------------------------------------------------------------
(* Refreshing: of the web application, and of the Gmail worker             *)

Refreshers == {"refresh", "worker"}
Refreshable(c) == c.token # Without /\ c.status \in {"connected", "partial"}
Needs(kind) == IF kind = "worker" THEN "gmail" ELSE "calendar"

ReadForRefresh(p, kind) ==
  /\ op[p] = Idle /\ Refreshable(conn) /\ Needs(kind) \in conn.scopes
  /\ Use("refreshes")
  /\ op' = [op EXCEPT ![p] = [Idle EXCEPT !.kind = kind, !.pc = "read", !.seen = conn]]
  /\ UNCHANGED <<conn, schedule, lease, states, googleVars, history>>

(* Google accepts the token, perhaps rotating it.                          *)
Accepted(p) ==
  /\ At(p, Refreshers, "leased") /\ op[p].seen.token \in live
  /\ LET t == op[p].seen.token
         answer(u) == op' = [op EXCEPT ![p].pc = "answered", ![p].answer = "ok",
                               ![p].token = u, ![p].scopes = granted[owner[t]]]
     IN  \/ answer(t) /\ UNCHANGED <<googleVars, used>>
         \/ \E u \in Tokens :
              /\ Fresh(u) /\ Use("rotations")
              /\ owner' = [owner EXCEPT ![u] = owner[t]] /\ live' = (live \ {t}) \cup {u}
              /\ answer(u) /\ UNCHANGED granted
  /\ UNCHANGED <<conn, schedule, lease, states, history>>

(* Google refuses it. The worker only reports the failure.                 *)
Refused(p) ==
  /\ At(p, Refreshers, "leased") /\ op[p].seen.token \notin live
  /\ IF op[p].kind = "refresh"
     THEN op' = [op EXCEPT ![p].pc = "answered", ![p].answer = "invalid_grant"]
          /\ lease' = lease
     ELSE Done(p) /\ lease' = Released(p)
  /\ UNCHANGED <<conn, schedule, states, googleVars, agreed, revoked, used>>

(* Google does not answer in time.                                         *)
Unanswered(p) ==
  /\ At(p, Refreshers, "leased") /\ Use("outages")
  /\ Done(p) /\ lease' = Released(p)
  /\ UNCHANGED <<conn, schedule, states, googleVars, history>>

\* Faulty: a refused token is kept in the row.
RefreshedRowKept(o) ==
  IF o.answer = "invalid_grant" THEN [o.seen EXCEPT !.status = "revoked"]
  ELSE [o.seen EXCEPT !.token = o.token, !.scopes = o.scopes]

(* The row a refresh writes: what it read, with what Google answered. The  *)
(* worker keeps the token it read.                                         *)
RefreshedRow(o) ==
  IF o.answer = "invalid_grant"
  THEN [o.seen EXCEPT !.token = Without, !.status = "revoked"]
  ELSE IF o.kind = "worker" THEN [o.seen EXCEPT !.status = "connected"]
  ELSE [o.seen EXCEPT !.token = o.token, !.scopes = o.scopes,
          !.status = IF "calendar" \in o.scopes THEN "connected" ELSE "partial"]

WriteRefresh(p) ==
  /\ At(p, Refreshers, "answered")
  /\ conn' = RefreshedRow(op[p])
  /\ Done(p) /\ lease' = Released(p)
  /\ UNCHANGED <<schedule, states, googleVars, agreed, revoked, used>>
-----------------------------------------------------------------------------
(* Disconnecting                                                           *)

ReadForDisconnect(p) ==
  /\ op[p] = Idle /\ conn # NoConn /\ Use("disconnects")
  /\ op' = [op EXCEPT ![p] = [Idle EXCEPT !.kind = "disconnect", !.pc = "read",
                                          !.seen = conn]]
  /\ UNCHANGED <<conn, schedule, lease, states, googleVars, history>>

Kin(t) == {u \in Tokens : owner[u] = owner[t]}

\* Faulty: the row is cleared without asking Google.
RevokeSkipped(p) ==
  /\ At(p, {"disconnect"}, "leased")
  /\ op' = [op EXCEPT ![p].pc = "answered", ![p].answer = "ok"]
  /\ UNCHANGED <<conn, schedule, lease, states, history, googleVars, used>>

(* Google ends the grant of the token; a token it does not know counts as  *)
(* revoked, and a failed call as unconfirmed.                              *)
Revoke(p) ==
  /\ At(p, {"disconnect"}, "leased")
  /\ LET t == op[p].seen.token
     IN  \/ /\ op' = [op EXCEPT ![p].pc = "answered", ![p].answer = "ok"]
            /\ IF t \in live
               THEN live' = live \ Kin(t) /\ granted' = [granted EXCEPT ![owner[t]] = {}]
               ELSE UNCHANGED <<live, granted>>
            /\ UNCHANGED <<owner, used>>
         \/ /\ t # Without /\ Use("outages")
            /\ op' = [op EXCEPT ![p].pc = "answered", ![p].answer = "unconfirmed"]
            /\ UNCHANGED googleVars
  /\ UNCHANGED <<conn, schedule, lease, states, history>>

DisconnectedRow(seen) ==
  [seen EXCEPT !.token = Without, !.scopes = {}, !.status = "disconnected"]

\* Faulty: the schedule of the Gmail worker is left on.
SchedulesKept == schedule

SchedulesOff == IF schedule = "enabled" THEN "disabled" ELSE schedule

WriteDisconnect(p) ==
  /\ At(p, {"disconnect"}, "answered")
  /\ conn' = DisconnectedRow(op[p].seen) /\ schedule' = SchedulesOff
  /\ agreed' = FALSE
  /\ revoked' = IF op[p].answer = "ok" /\ op[p].seen.token # Without
                THEN revoked \cup {op[p].seen.token} ELSE revoked
  /\ Done(p) /\ lease' = Released(p)
  /\ UNCHANGED <<states, googleVars, used>>
-----------------------------------------------------------------------------
(* A process dies: what it wrote stays, its lease too.                     *)
Crash(p) ==
  /\ op[p] # Idle /\ Use("crashes") /\ Done(p)
  /\ UNCHANGED <<conn, schedule, lease, states, googleVars, history>>

(* The user withdraws the grant in the Google account.                     *)
Withdraw(a) ==
  /\ \E t \in live : owner[t] = a
  /\ Use("withdrawals")
  /\ live' = {t \in live : owner[t] # a} /\ granted' = [granted EXCEPT ![a] = {}]
  /\ UNCHANGED <<conn, schedule, lease, states, owner, op, history>>

Next ==
  \/ \E s \in States : Authorize(s) \/ FailCallback(s)
  \/ \E p \in Procs :
       \/ \E s \in States : Exchange(p, s)
       \/ ReadForCallback(p) \/ Link(p) \/ Acquire(p)
       \/ \E kind \in Refreshers : ReadForRefresh(p, kind)
       \/ Accepted(p) \/ Refused(p) \/ Unanswered(p) \/ WriteRefresh(p)
       \/ ReadForDisconnect(p) \/ Revoke(p) \/ WriteDisconnect(p)
       \/ Crash(p)
  \/ ExpireLease
  \/ \E a \in Accounts : Withdraw(a)

Spec == Init /\ [][Next]_vars
-----------------------------------------------------------------------------
(* Properties                                                              *)

Rows == [status : {"none", "connected", "partial", "revoked", "disconnected",
                   "reconnect_required"},
         token : Tokens \cup {Without}, scopes : SUBSET Flows,
         account : Accounts \cup {None}]

(* The shapes of the rows, and the schema's rule that a disconnected       *)
(* connection holds no credential.                                         *)
TypeOK ==
  /\ conn \in Rows /\ (conn.status \in {"disconnected", "none", "revoked"} => conn.token = Without)
  /\ schedule \in {"none", "enabled", "disabled"}
  /\ lease \in [owner : Procs \cup {None}, expired : BOOLEAN]
  /\ live \subseteq {t \in Tokens : owner[t] # None}
  /\ \A p \in Procs : op[p].seen \in Rows

(* A disconnected connection holds no scope, and the Gmail worker is not   *)
(* scheduled for it, whatever consent or refresh was under way.            *)
DisconnectedIsClean ==
  conn.status = "disconnected" => conn.scopes = {} /\ schedule # "enabled"

(* At most one refresh or disconnect is between the lease and its last     *)
(* write, and one more only for a lease that ran out under a refresh: the  *)
(* web application and the worker do not else rotate or revoke a token at  *)
(* the same time.                                                          *)
OneAtGoogle ==
  Cardinality({p \in Procs : op[p].pc \in {"leased", "answered"}}) <= 1 + used.slow

(* A credential that a disconnect has revoked is not stored again by a     *)
(* refresh that read it before, without a new consent, unless the lease of *)
(* a refresh ran out.  One whose revocation Google did not confirm may be. *)
NoTokenWithoutConsent == conn.token \in revoked => agreed \/ used.slow > 0

(* The linked account changes only through a disconnect.                   *)
AccountIsStable ==
  [][conn.status \notin {"none", "disconnected"} => conn'.account = conn.account]_vars
=============================================================================
