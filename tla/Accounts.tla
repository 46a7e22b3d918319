------------------------------ MODULE Accounts ------------------------------
(***************************************************************************)
(* Who may use Vera and how an account ends: beta requests and memberships *)
(* (beta-access-repository.ts), sign-up and sign-in (auth.ts, session.ts), *)
(* the deletion of an account (privacy-lifecycle-service.ts and            *)
(* privacy-lifecycle-repository.ts) and the restore of a backup            *)
(* (reapply-privacy-deletions.ts).                                         *)
(*                                                                         *)
(* A user is a number, and a person, who keeps one e-mail address and one  *)
(* Google subject, can be several users one after the other.               *)
(***************************************************************************)
EXTENDS Naturals, FiniteSets

CONSTANTS People,     \* e-mail addresses, each with its Google subject
          Requests,   \* DELETE requests that may be under way at once
          Founders,   \* those the operator bootstraps
          None,       \* no person, no user, no backup
          MaxUsers,   \* bound: users ever created
          MaxReviews, \* bound: reviews of beta requests
          MaxFaults   \* bound: crashes, errors and expired challenges

ASSUME AccountBounds ==
  /\ Founders \subseteq People /\ IsFiniteSet(Requests) /\ None \notin Nat
  /\ {MaxUsers, MaxReviews, MaxFaults} \subseteq Nat

Users == 1..MaxUsers
Tokens == 1..(Cardinality(Requests) + MaxUsers + 1)

VARIABLES
  request,    \* person -> status of #betaAccessRequests
  member,     \* person -> #betaMemberships
  account,    \* person -> #users: the user with this e-mail address
  signup,     \* person -> how far Better Auth is with creating a user
  admitted,   \* users the session hook has let pass
  sessions,   \* users with a session
  challenge,  \* user -> #privacyDeletionChallenges
  linked,     \* users with a Google credential in #integrationConnections
  granted,    \* users whose refresh token Google still honours
  receipts,   \* #privacyDeletionReceipts
  deletion,   \* request -> its progress
  traffic,    \* whether web requests are let in
  backup,     \* the last backup of the database
  ledger,     \* receipts the operator keeps outside the database
  born, reviews, faults

access == <<request, member, signup, reviews>>
entry == <<admitted, sessions>>
provider == <<linked, granted>>
restore == <<traffic, backup, ledger>>
vars == <<request, member, account, signup, admitted, sessions, challenge, linked, granted,
          receipts, deletion, traffic, backup, ledger, born, reviews, faults>>

NoMember == [status |-> "none", user |-> None]
NoChallenge == [token |-> None, consumed |-> FALSE]
Idle == [pc |-> "idle", user |-> None, token |-> None, revoked |-> "none"]

Init ==
  /\ request = [p \in People |-> "none"] /\ member = [p \in People |-> NoMember]
  /\ account = [p \in People |-> None] /\ signup = [p \in People |-> "idle"]
  /\ admitted = {} /\ sessions = {} /\ challenge = [u \in Users |-> NoChallenge]
  /\ linked = {} /\ granted = {} /\ receipts = {} /\ deletion = [r \in Requests |-> Idle]
  /\ traffic = TRUE /\ backup = None /\ ledger = {}
  /\ born = 0 /\ reviews = 0 /\ faults = 0

Live == {account[p] : p \in People} \ {None}
PersonOf(u) == CHOOSE p \in People : account[p] = u

\* isActiveUser, which guards every session and every request.
Active(u) == \E p \in People : member[p] = [status |-> "active", user |-> u]

\* requireVeraSession: what a request of user u gets past.
Served(u) == traffic /\ u \in sessions /\ Active(u)

Fault == faults < MaxFaults /\ faults' = faults + 1

-----------------------------------------------------------------------------
(* submit: a second request of the same address changes nothing. *)
Submit(p) ==
  /\ traffic /\ request[p] = "none"
  /\ request' = [request EXCEPT ![p] = "requested"]
  /\ UNCHANGED <<member, signup, reviews, account, entry, challenge, provider, receipts, deletion,
                 restore, born, faults>>

\* Faulty: an invitation always ends in "invited".
ReviewedForgetting(m) == [m EXCEPT !.status = "invited"]

\* Faulty: the action is stored in the place of the status.
ReviewedAsAction(m) == IF m.status = "revoked" THEN m ELSE [m EXCEPT !.status = "invite"]

\* The membership an invitation leaves.
Reviewed(m) == IF m.status = "revoked" THEN m ELSE [m EXCEPT !.status = "invited"]

(* review: the same decision may be taken again. *)
Review(p, decision) ==
  /\ traffic /\ reviews < MaxReviews /\ request[p] \in {"requested", decision}
  /\ request' = [request EXCEPT ![p] = decision]
  /\ IF decision = "invited" THEN member' = [member EXCEPT ![p] = Reviewed(@)]
     ELSE UNCHANGED member
  /\ reviews' = reviews + 1
  /\ UNCHANGED <<signup, account, entry, challenge, provider, receipts, deletion, restore, born,
                 faults>>

(* revoke, with the sessions of the user. *)
Revoke(p) ==
  /\ member[p].status \in {"invited", "active"} /\ traffic
  /\ member' = [member EXCEPT ![p].status = "revoked"]
  /\ sessions' = sessions \ {member[p].user}
  /\ UNCHANGED <<request, signup, reviews, account, admitted, challenge, provider, receipts,
                 deletion, restore, born, faults>>

(* bootstrapExistingUser, which the operator runs for the founder. *)
Bootstrap(p) ==
  /\ p \in Founders /\ account[p] # None
  /\ member' = [member EXCEPT ![p] = [status |-> "active", user |-> account[p]]]
  /\ UNCHANGED <<request, signup, reviews, account, entry, challenge, provider, receipts, deletion,
                 restore, born, faults>>

-----------------------------------------------------------------------------
(* The hook before Better Auth creates a user: findInvitedByEmail. *)
CheckInvitation(p) ==
  /\ traffic /\ signup[p] = "idle" /\ account[p] = None
  /\ member[p] = [status |-> "invited", user |-> None]
  /\ signup' = [signup EXCEPT ![p] = "checked"]
  /\ UNCHANGED <<request, member, reviews, account, entry, challenge, provider, receipts, deletion,
                 restore, born, faults>>

(* Better Auth commits the user. *)
CreateUser(p) ==
  /\ signup[p] = "checked" /\ account[p] = None /\ born < MaxUsers
  /\ account' = [account EXCEPT ![p] = born + 1] /\ born' = born + 1
  /\ signup' = [signup EXCEPT ![p] = "created"]
  /\ UNCHANGED <<request, member, reviews, entry, challenge, provider, receipts, deletion, restore,
                 faults>>

(* The hook after it: bindInvitedMembership, which fails unless the address *)
(* is still invited. *)
BindMembership(p) ==
  /\ signup[p] = "created"
  /\ signup' = [signup EXCEPT ![p] = "idle"]
  /\ IF member[p] = [status |-> "invited", user |-> None] /\ account[p] # None
     THEN member' = [member EXCEPT ![p] = [status |-> "active", user |-> account[p]]]
     ELSE UNCHANGED member
  /\ UNCHANGED <<request, reviews, account, entry, challenge, provider, receipts, deletion,
                 restore, born, faults>>

(* The process stops during a sign-up, and the committed user stays. *)
LoseSignUp(p) ==
  /\ signup[p] # "idle" /\ Fault
  /\ signup' = [signup EXCEPT ![p] = "idle"]
  /\ UNCHANGED <<request, member, reviews, account, entry, challenge, provider, receipts, deletion,
                 restore, born>>

(* The hook before a session, and the session. *)
Admit(u) ==
  /\ traffic /\ u \in Live /\ Active(u) /\ u \notin admitted \cup sessions
  /\ admitted' = admitted \cup {u}
  /\ UNCHANGED <<access, account, sessions, challenge, provider, receipts, deletion, restore, born,
                 faults>>

SignIn(u) ==
  /\ u \in admitted
  /\ admitted' = admitted \ {u}
  /\ sessions' = IF u \in Live THEN sessions \cup {u} ELSE sessions
  /\ UNCHANGED <<access, account, challenge, provider, receipts, deletion, restore, born, faults>>

(* completeConnection of google-integration-oauth.ts. *)
LinkGoogle(u) ==
  /\ Served(u) /\ u \notin linked
  /\ linked' = linked \cup {u} /\ granted' = granted \cup {u}
  /\ UNCHANGED <<access, account, entry, challenge, receipts, deletion, restore, born, faults>>

-----------------------------------------------------------------------------
Held == {deletion[r].token : r \in Requests} \cup {challenge[u].token : u \in Users}
Fresh(t) == t \notin Held
Progress(r, stage) == deletion' = [deletion EXCEPT ![r].pc = stage]
Drop(r) == deletion' = [deletion EXCEPT ![r] = Idle]

(* issueDeletionChallenge replaces the challenge of the user. *)
Issue(r, u) ==
  /\ Served(u) /\ deletion[r].pc = "idle"
  /\ LET t == CHOOSE n \in Tokens : Fresh(n) IN
     /\ challenge' = [challenge EXCEPT ![u] = [token |-> t, consumed |-> FALSE]]
     /\ deletion' = [deletion EXCEPT ![r] = [Idle EXCEPT !.pc = "issued", !.user = u, !.token = t]]
  /\ UNCHANGED <<access, account, entry, provider, receipts, restore, born, faults>>

(* The page sends its challenge a second time. *)
Resend(r, other) ==
  /\ deletion[r].pc = "idle" /\ deletion[other].token # None
  /\ deletion' = [deletion EXCEPT ![r] = [deletion[other] EXCEPT !.pc = "issued",
                                                                 !.revoked = "none"]]
  /\ UNCHANGED <<access, account, entry, challenge, provider, receipts, restore, born, faults>>

\* Faulty: a consumed challenge is good again.
UsableAgain(u, t) == challenge[u].token = t

Usable(u, t) == challenge[u] = [token |-> t, consumed |-> FALSE]

(* consumeDeletionChallenge, one statement. *)
Consume(r) == LET d == deletion[r] IN
  /\ d.pc = "issued" /\ traffic
  /\ IF Served(d.user) /\ Usable(d.user, d.token)
     THEN Progress(r, "consumed") /\ challenge' = [challenge EXCEPT ![d.user].consumed = TRUE]
     ELSE Drop(r) /\ UNCHANGED challenge
  /\ UNCHANGED <<access, account, entry, provider, receipts, restore, born, faults>>

\* Faulty: a user without a Google connection cannot be disconnected.
AnswersLinked(u) == IF u \in linked THEN BOOLEAN ELSE {}

\* Whether Google can confirm the revocation; without a connection it is.
Answers(u) == IF u \in linked THEN BOOLEAN ELSE {TRUE}

(* getDeletionIdentity and disconnect: Google confirms the revocation, or   *)
(* it does not, and the credential is removed either way.                  *)
Disconnect(r) == LET u == deletion[r].user IN
  /\ deletion[r].pc = "consumed"
  /\ IF u \notin Live THEN Drop(r) /\ UNCHANGED provider
     ELSE \E confirmed \in Answers(u) :
          /\ deletion' = [deletion EXCEPT ![r].pc = "delete",
               ![r].revoked = IF confirmed THEN "confirmed" ELSE "unconfirmed"]
          /\ linked' = linked \ {u}
          /\ granted' = IF confirmed THEN granted \ ({u} \cap linked) ELSE granted
  /\ UNCHANGED <<access, account, entry, challenge, receipts, restore, born, faults>>

\* Faulty: the foreign key alone takes the user out of its membership.
LeavesDetached(m, p, u) == IF m.user = u THEN [m EXCEPT !.user = None] ELSE m

\* deleteNonOwnerIdentityRows: the membership of the user or of its address.
Leaves(m, p, u) == IF m.user = u \/ account[p] = u THEN NoMember ELSE m

\* deleteNonOwnerIdentityRows and deleteOwnerGraph.
Erase(u) ==
  /\ request' = [p \in People |-> IF account[p] = u THEN "none" ELSE request[p]]
  /\ member' = [p \in People |-> Leaves(member[p], p, u)]
  /\ account' = [p \in People |-> IF account[p] = u THEN None ELSE account[p]]
  /\ sessions' = sessions \ {u} /\ linked' = linked \ {u}
  /\ challenge' = [challenge EXCEPT ![u] = NoChallenge]

\* The unique index on subject_digest, and the one on former_user_id.
Recorded(u) == \E r \in receipts : r.user = u \/ r.person = PersonOf(u)

(* deleteOwnerAccount, one transaction. *)
DeleteAccount(r) == LET d == deletion[r] IN
  /\ d.pc = "delete" /\ Drop(r)
  /\ IF /\ challenge[d.user] = [token |-> d.token, consumed |-> TRUE]
        /\ d.user \in Live /\ ~Recorded(d.user)
     THEN /\ receipts' = receipts \cup
               {[user |-> d.user, person |-> PersonOf(d.user), provider |-> d.revoked]}
          /\ Erase(d.user)
     ELSE UNCHANGED <<request, member, account, sessions, linked, challenge, receipts>>
  /\ UNCHANGED <<signup, reviews, admitted, granted, restore, born, faults>>

(* The request ends in an error or with its process, or the challenge      *)
(* expires; what was done so far stays.                                    *)
FailDeletion(r) ==
  /\ deletion[r].pc # "idle" /\ Fault /\ Drop(r)
  /\ UNCHANGED <<access, account, entry, challenge, provider, receipts, restore, born>>

-----------------------------------------------------------------------------
(* A backup of the database is taken. *)
Snapshot ==
  /\ traffic /\ backup = None
  /\ backup' = [request |-> request, member |-> member, account |-> account, linked |-> linked,
                sessions |-> sessions, receipts |-> receipts]
  /\ UNCHANGED <<access, account, entry, challenge, provider, receipts, deletion, traffic, ledger,
                 born, faults>>

(* Traffic is stopped and the backup restored. The operator has the        *)
(* receipts of the database that is given up; its challenges have expired. *)
Restore ==
  /\ traffic /\ backup # None /\ Fault
  /\ ledger' = ledger \cup receipts
  /\ request' = backup.request /\ member' = backup.member /\ account' = backup.account
  /\ linked' = backup.linked /\ sessions' = backup.sessions /\ receipts' = backup.receipts
  /\ challenge' = [u \in Users |-> NoChallenge] /\ deletion' = [r \in Requests |-> Idle]
  /\ admitted' = {} /\ signup' = [p \in People |-> "idle"]
  /\ traffic' = FALSE /\ backup' = None
  /\ UNCHANGED <<granted, reviews, born>>

\* Faulty: the owner of a receipt is looked up by the subject.
OwnerOfSubject(r) == account[r.person]

\* The user a receipt is about, if it is there.
OwnerOf(r) == IF r.user \in Live THEN r.user ELSE None

Outstanding(r) == r \notin receipts \/ OwnerOf(r) # None

(* reapplyDeletionReceipt, one transaction per receipt of the ledger. *)
Reapply ==
  /\ ~traffic
  /\ \E r \in ledger :
     /\ Outstanding(r)
     /\ receipts' = receipts \cup {r}
     /\ IF OwnerOf(r) # None THEN Erase(OwnerOf(r))
        ELSE UNCHANGED <<request, member, account, sessions, linked, challenge>>
  /\ UNCHANGED <<signup, reviews, admitted, granted, deletion, restore, born, faults>>

\* Faulty: traffic is enabled although the run stopped at a failure.
AppliedSome == TRUE

AllApplied == ~\E r \in ledger : Outstanding(r)

(* Traffic is enabled when the run has checked every receipt. *)
OpenTraffic ==
  /\ ~traffic /\ AllApplied
  /\ traffic' = TRUE
  /\ UNCHANGED <<access, account, entry, challenge, provider, receipts, deletion, backup, ledger,
                 born, faults>>

-----------------------------------------------------------------------------
SignUpStep(p) == CheckInvitation(p) \/ CreateUser(p) \/ BindMembership(p) \/ LoseSignUp(p)
DeletionStep(r) ==
  \/ \E u \in Users : Issue(r, u)
  \/ \E other \in Requests : Resend(r, other)
  \/ Consume(r) \/ Disconnect(r) \/ DeleteAccount(r) \/ FailDeletion(r)

Next ==
  \/ \E p \in People :
       \/ Submit(p) \/ Revoke(p) \/ Bootstrap(p) \/ SignUpStep(p)
       \/ \E decision \in {"invited", "declined", "withdrawn"} : Review(p, decision)
  \/ \E u \in Users : Admit(u) \/ SignIn(u) \/ LinkGoogle(u)
  \/ \E r \in Requests : DeletionStep(r)
  \/ Snapshot \/ Restore \/ Reapply \/ OpenTraffic

Spec == Init /\ [][Next]_vars

\* A request that has begun goes on, a restore is finished, and a person who
\* wants the account deleted signs in and asks again.
Fairness ==
  /\ WF_vars(Reapply \/ OpenTraffic)
  /\ \A u \in Users : WF_vars(Admit(u)) /\ WF_vars(SignIn(u))
  /\ \A r \in Requests :
       /\ WF_vars(\E u \in Users : Issue(r, u))
       /\ WF_vars(Consume(r)) /\ WF_vars(Disconnect(r)) /\ WF_vars(DeleteAccount(r))

LiveSpec == Spec /\ Fairness
-----------------------------------------------------------------------------
(* Properties *)

\* The shape of the tables, of the requests and of the backup.
TypeOK ==
  /\ request \in [People -> {"none", "requested", "invited", "declined", "withdrawn"}]
  /\ member \in [People -> [status : {"none", "invited", "active", "revoked"},
                            user : Users \cup {None}]]
  /\ account \in [People -> Users \cup {None}]
  /\ signup \in [People -> {"idle", "checked", "created"}]
  /\ UNION {admitted, sessions, linked, granted} \subseteq Users
  /\ challenge \in [Users -> [token : Tokens \cup {None}, consumed : BOOLEAN]]
  /\ receipts \cup ledger \subseteq
       [user : Users, person : People, provider : {"confirmed", "unconfirmed"}]
  /\ deletion \in [Requests -> [pc : {"idle", "issued", "consumed", "delete"},
       user : Users \cup {None}, token : Tokens \cup {None},
       revoked : {"none", "confirmed", "unconfirmed"}]]
  /\ traffic \in BOOLEAN /\ (backup # None => traffic)
  /\ born \in 0..MaxUsers /\ reviews \in 0..MaxReviews /\ faults \in 0..MaxFaults

\* Whoever was deleted stays deleted: when requests are let in, no user with a
\* receipt in the database or in the operator's ledger exists, also after a
\* backup from before the deletion was restored.
DeletedIsGone == traffic => Live \cap {r.user : r \in receipts \cup ledger} = {}

\* An active membership is that of the user who has its address now: deletion,
\* sign-up, bootstrap and restore never leave it with nobody or another user.
ActiveIsLive ==
  \A p \in People : member[p].status = "active" =>
    member[p].user = account[p] /\ account[p] # None

\* One challenge starts one deletion, however often the page sends it.
OneConsumer ==
  \A r, s \in Requests :
    r # s /\ {deletion[r].pc, deletion[s].pc} \subseteq {"consumed", "delete"} =>
      deletion[r].token # deletion[s].token

\* A user disappears only with a receipt of its own; the restore of a backup
\* itself aside, nobody else's deletion takes an account away.
ErasedHasReceipt ==
  [][\A p \in People :
       account[p] # None /\ account'[p] # account[p] /\ ~(traffic /\ ~traffic')
         => \E r \in receipts' : r.user = account[p]]_vars

\* Whoever asks, restores a backup or asks again: a deletion happens once, with
\* a receipt, and lasts.
AccountsEnd == [](TypeOK /\ DeletedIsGone /\ OneConsumer) /\ ErasedHasReceipt

\* No review, sign-up or new request gives a revoked membership back; only the
\* bootstrap of a founder, the end of the account or a restore does.
RevokedStays ==
  [][\A p \in People \ Founders :
       member[p].status = "revoked" /\ traffic = traffic' /\ account'[p] = account[p]
         => member'[p].status = "revoked"]_vars

\* A user who asks for deletion and keeps asking is deleted in the end, through
\* crashes, expired challenges, failed disconnects and restores, unless access
\* is taken from the user first.
AskedIsDeleted ==
  \A u \in Users :
    (\E r \in Requests : deletion[r].user = u) ~> (u \notin Live \/ ~Active(u))
=============================================================================
