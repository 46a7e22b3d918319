--------------------------- MODULE Accounts_proofs ---------------------------
(***************************************************************************)
(* Proofs about Accounts, for every number of people, users, deletion      *)
(* requests, reviews and faults.                                           *)
(***************************************************************************)
EXTENDS Accounts, FiniteSetTheorems, TLAPS

USE AccountBounds

Members == [status : {"none", "invited", "active", "revoked"}, user : Users \cup {None}]
Challenges == [token : Tokens \cup {None}, consumed : BOOLEAN]
Receipts == [user : Users, person : People, provider : {"confirmed", "unconfirmed"}]
Deletions == [pc : {"idle", "issued", "consumed", "delete"}, user : Users \cup {None},
              token : Tokens \cup {None}, revoked : {"none", "confirmed", "unconfirmed"}]
Backups == [request : [People -> {"none", "requested", "invited", "declined", "withdrawn"}],
            member : [People -> Members], account : [People -> Users \cup {None}],
            linked : SUBSET Users, sessions : SUBSET Users, receipts : SUBSET Receipts]

(* A backup holds values of the types of its tables.                        *)
BackupIsTyped == backup \in Backups \cup {None}

(* Who deletes an account knows whether Google confirmed the revocation.    *)
RevocationIsKnown ==
  \A r \in Requests : deletion[r].pc = "delete" => deletion[r].revoked # "none"

Typed == TypeOK /\ BackupIsTyped /\ RevocationIsKnown

(* None is no user and no token, and neither is a backup.                   *)
LEMMA NoneIsNothing == None \notin Users /\ None \notin Tokens /\ Users \subseteq Nat
<1>1. Users \subseteq Nat
  BY DEF Users
<1>2. Tokens \subseteq Nat
  BY FS_CardinalityType DEF Tokens
<1>. QED
  BY <1>1, <1>2

(***************************************************************************)
(* Memberships.                                                            *)
(***************************************************************************)

(* A membership with a user is of the one who has the address, and an       *)
(* active one has a user.                                                   *)
IsOwn(m, a) == (m.user # None => m.user = a) /\ (m.status = "active" => m.user # None)

(* The inductive invariant of the memberships; a restore brings back those  *)
(* of the backup.                                                           *)
MembersInv ==
  /\ \A p \in People : IsOwn(member[p], account[p])
  /\ backup # None => \A p \in People : IsOwn(backup.member[p], backup.account[p])

(* A revoked membership of somebody who is no founder stays revoked, unless *)
(* the account ends or a backup is restored.                                *)
RevokedKept == \A p \in People \ Founders :
  member[p].status = "revoked" /\ traffic = traffic' /\ account'[p] = account[p]
    => member'[p].status = "revoked"

(* The deletion of a user takes its membership with it.                     *)
LEMMA EraseMembers ==
  ASSUME Typed, MembersInv, NEW u \in Users, Erase(u), UNCHANGED backup
  PROVE  MembersInv' /\ RevokedKept
<1>1. u # None
  BY NoneIsNothing
<1>2. ASSUME NEW p \in People
      PROVE  /\ IsOwn(member'[p], account'[p])
             /\ member[p].status = "revoked" /\ account'[p] = account[p]
                  => member'[p].status = "revoked"
  <2>1. /\ member'[p] = Leaves(member[p], p, u)
        /\ account'[p] = IF account[p] = u THEN None ELSE account[p]
        /\ IsOwn(member[p], account[p])
    BY DEF Erase, MembersInv
  <2>2. CASE account[p] = u
    BY <1>1, <2>1, <2>2 DEF Leaves, IsOwn, NoMember
  <2>3. CASE account[p] # u
    <3>1. member[p].user # u
      BY <1>1, <2>1, <2>3 DEF IsOwn
    <3>. QED
      BY <2>1, <2>3, <3>1 DEF Leaves
  <2>. QED
    BY <2>2, <2>3
<1>. QED
  BY <1>2 DEF MembersInv, RevokedKept

(* A step that writes one membership, which it leaves with its account.     *)
LEMMA OneMember ==
  ASSUME Typed, MembersInv, NEW p \in People, NEW m \in Members,
         member' = [member EXCEPT ![p] = m], UNCHANGED <<account, backup>>,
         IsOwn(m, account[p]),
         p \notin Founders /\ member[p].status = "revoked" => m.status = "revoked"
  PROVE  MembersInv' /\ RevokedKept
<1>1. member \in [People -> Members]
  BY DEF Typed, TypeOK, Members
<1>2. \A q \in People : member'[q] = IF q = p THEN m ELSE member[q]
  BY <1>1
<1>. QED
  BY <1>2 DEF MembersInv, RevokedKept

LEMMA MembersNext ==
  ASSUME Typed, MembersInv, [Next]_vars
  PROVE  MembersInv' /\ RevokedKept
<1>. DEFINE Goal == MembersInv' /\ RevokedKept
<1>0. /\ member \in [People -> Members] /\ account \in [People -> Users \cup {None}]
      /\ \A p \in People : member[p] \in Members /\ IsOwn(member[p], account[p])
  BY DEF Typed, TypeOK, Members, MembersInv
<1>1. ASSUME UNCHANGED <<member, account, backup>> PROVE Goal
  BY <1>1 DEF MembersInv, RevokedKept
<1>2. ASSUME NEW p \in People, Submit(p) PROVE Goal
  BY <1>1, <1>2 DEF Submit, restore
<1>3. ASSUME NEW p \in People, NEW decision, Review(p, decision) PROVE Goal
  <2>1. CASE member' = [member EXCEPT ![p] = Reviewed(@)]
    <3>1. Reviewed(member[p]) \in Members /\ IsOwn(Reviewed(member[p]), account[p])
      BY <1>0 DEF Reviewed, Members, IsOwn
    <3>2. member[p].status = "revoked" => Reviewed(member[p]).status = "revoked"
      BY DEF Reviewed
    <3>3. UNCHANGED <<account, backup>>
      BY <1>3 DEF Review, restore
    <3>. QED
      BY <1>0, <2>1, <3>1, <3>2, <3>3, OneMember
  <2>2. CASE UNCHANGED member
    BY <1>1, <1>3, <2>2 DEF Review, restore
  <2>. QED
    BY <1>3, <2>1, <2>2 DEF Review
<1>4. ASSUME NEW p \in People, Revoke(p) PROVE Goal
  <2>. DEFINE m == [member[p] EXCEPT !.status = "revoked"]
  <2>1. m \in Members /\ IsOwn(m, account[p]) /\ m.status = "revoked"
    BY <1>0 DEF Members, IsOwn
  <2>2. member' = [member EXCEPT ![p] = m] /\ UNCHANGED <<account, backup>>
    BY <1>4 DEF Revoke, restore
  <2>. HIDE DEF m
  <2>. QED
    BY <2>1, <2>2, OneMember
<1>5. ASSUME NEW p \in People, Bootstrap(p) PROVE Goal
  <2>. DEFINE m == [status |-> "active", user |-> account[p]]
  <2>1. m \in Members /\ IsOwn(m, account[p])
    BY <1>0, <1>5 DEF Members, IsOwn, Bootstrap
  <2>2. member' = [member EXCEPT ![p] = m] /\ UNCHANGED <<account, backup>> /\ p \in Founders
    BY <1>5 DEF Bootstrap, restore
  <2>. HIDE DEF m
  <2>. QED
    BY <2>1, <2>2, OneMember
<1>6. ASSUME NEW p \in People, CheckInvitation(p) \/ LoseSignUp(p) PROVE Goal
  BY <1>1, <1>6 DEF CheckInvitation, LoseSignUp, restore
<1>7. ASSUME NEW p \in People, CreateUser(p) PROVE Goal
  <2>1. /\ account[p] = None /\ account' = [account EXCEPT ![p] = born + 1]
        /\ UNCHANGED <<member, backup>>
    BY <1>7 DEF CreateUser, restore
  <2>2. \A q \in People : IsOwn(member[q], account'[q])
    BY <1>0, <2>1 DEF IsOwn
  <2>. QED
    BY <2>1, <2>2 DEF MembersInv, RevokedKept
<1>8. ASSUME NEW p \in People, BindMembership(p) PROVE Goal
  <2>1. UNCHANGED <<account, backup>>
    BY <1>8 DEF BindMembership, restore
  <2>2. CASE member' = [member EXCEPT ![p] = [status |-> "active", user |-> account[p]]]
             /\ member[p].status = "invited" /\ account[p] # None
    <3>. DEFINE m == [status |-> "active", user |-> account[p]]
    <3>1. m \in Members /\ IsOwn(m, account[p])
      BY <1>0, <2>2 DEF Members, IsOwn
    <3>. HIDE DEF m
    <3>. QED
      BY <2>1, <2>2, <3>1, OneMember DEF m
  <2>3. CASE UNCHANGED member
    BY <1>1, <2>1, <2>3
  <2>. QED
    BY <1>8, <2>2, <2>3 DEF BindMembership
<1>9. ASSUME NEW u \in Users, Admit(u) \/ SignIn(u) \/ LinkGoogle(u) PROVE Goal
  BY <1>1, <1>9 DEF Admit, SignIn, LinkGoogle, access, restore
<1>10. ASSUME NEW r \in Requests, DeletionStep(r) PROVE Goal
  <2>1. CASE DeleteAccount(r)
    <3>1. UNCHANGED backup
      BY <2>1 DEF DeleteAccount, restore
    <3>2. CASE Erase(deletion[r].user) /\ deletion[r].user \in Live
      <4>1. deletion[r].user \in Users
        BY <1>0, <3>2 DEF Live
      <4>. QED
        BY <3>1, <3>2, <4>1, EraseMembers
    <3>3. CASE UNCHANGED <<member, account>>
      BY <1>1, <3>1, <3>3
    <3>. QED
      BY <2>1, <3>2, <3>3 DEF DeleteAccount
  <2>2. CASE ~DeleteAccount(r)
    <3>1. UNCHANGED <<member, account, backup>>
      BY <1>10, <2>2
      DEF DeletionStep, Issue, Resend, Consume, Disconnect, FailDeletion, access, restore
    <3>. QED
      BY <1>1, <3>1
  <2>. QED
    BY <2>1, <2>2
<1>11. CASE Snapshot
  BY <1>11 DEF Snapshot, access, MembersInv, RevokedKept
<1>12. CASE Restore
  BY <1>12 DEF Restore, MembersInv, RevokedKept
<1>13. CASE Reapply
  <2>1. PICK r \in ledger : IF OwnerOf(r) # None THEN Erase(OwnerOf(r))
                            ELSE UNCHANGED <<request, member, account, sessions, linked, challenge>>
    BY <1>13 DEF Reapply
  <2>2. UNCHANGED backup
    BY <1>13 DEF Reapply, restore
  <2>3. CASE OwnerOf(r) # None
    <3>1. OwnerOf(r) \in Users
      BY <1>0, <2>3 DEF OwnerOf, Live
    <3>. QED
      BY <2>1, <2>2, <2>3, <3>1, EraseMembers
  <2>4. CASE OwnerOf(r) = None
    BY <1>1, <2>1, <2>2, <2>4
  <2>. QED
    BY <2>3, <2>4
<1>14. CASE OpenTraffic
  BY <1>1, <1>14 DEF OpenTraffic, access
<1>15. CASE UNCHANGED vars
  BY <1>1, <1>15 DEF vars
<1>. QED
  BY <1>2, <1>3, <1>4, <1>5, <1>6, <1>7, <1>8, <1>9, <1>10, <1>11, <1>12, <1>13, <1>14, <1>15
  DEF Next, SignUpStep

(***************************************************************************)
(* Deletions last.                                                         *)
(***************************************************************************)

(* Users are numbered in the order they were created, so that nobody is     *)
(* ever again the user of a receipt.                                        *)
Numbered(accounts, papers) ==
  /\ \A p \in People : accounts[p] # None => accounts[p] <= born
  /\ \A r \in papers : r.user <= born

(* The inductive invariant of receipts and restores: traffic is let in only *)
(* when nobody with a receipt is there, the ledger has every receipt while  *)
(* it is not, and a backup has none that the database has not.              *)
ReceiptsInv ==
  /\ Numbered(account, receipts \cup ledger)
  /\ backup # None => /\ Numbered(backup.account, backup.receipts)
                      /\ backup.receipts \subseteq receipts
  /\ DeletedIsGone
  /\ ~traffic => receipts \subseteq ledger
  /\ ~traffic => \A r \in Requests : deletion[r] = Idle

(* An account ends with a receipt, or with the restore of a backup.         *)
EndsWithReceipt == \A p \in People :
  account[p] # None /\ account'[p] # account[p] /\ ~(traffic /\ ~traffic')
    => \E r \in receipts' : r.user = account[p]

(* An erased user is not there any more, and nobody else goes.              *)
LEMMA ErasedIsGone ==
  ASSUME Typed, NEW u \in Users, Erase(u)
  PROVE  /\ Live' = Live \ {u}
         /\ \A p \in People : account'[p] # account[p] => account[p] = u /\ account'[p] = None
<1>1. u # None /\ account \in [People -> Users \cup {None}]
  BY NoneIsNothing DEF Typed, TypeOK
<1>2. \A p \in People : account'[p] = IF account[p] = u THEN None ELSE account[p]
  BY DEF Erase
<1>. QED
  BY <1>1, <1>2 DEF Live

(* Steps that leave accounts, receipts and the backup as they are, and let  *)
(* in no traffic.                                                           *)
LEMMA ReceiptsStay ==
  ASSUME Typed, ReceiptsInv,
         UNCHANGED <<account, receipts, traffic, backup, ledger, born>>,
         ~traffic => \A r \in Requests : deletion'[r] = Idle
  PROVE  ReceiptsInv' /\ EndsWithReceipt
<1>1. Live' = Live
  BY DEF Live
<1>. QED
  BY <1>1 DEF ReceiptsInv, Numbered, DeletedIsGone, EndsWithReceipt

(* Without traffic no request is under way, and none begins.                *)
LEMMA NothingUnderWay ==
  ASSUME ReceiptsInv, NEW r \in Requests, DeletionStep(r)
  PROVE  traffic
<1>1. ASSUME NEW u \in Users, Issue(r, u) PROVE traffic
  BY <1>1 DEF Issue, Served
<1>2. ASSUME NEW other \in Requests, ~traffic PROVE ~Resend(r, other)
  BY <1>2 DEF ReceiptsInv, Resend, Idle
<1>3. ASSUME ~traffic
      PROVE  ~(Consume(r) \/ Disconnect(r) \/ DeleteAccount(r) \/ FailDeletion(r))
  BY <1>3 DEF ReceiptsInv, Idle, Consume, Disconnect, DeleteAccount, FailDeletion
<1>. QED
  BY <1>1, <1>2, <1>3 DEF DeletionStep

(* The user of a receipt that is stored with the erasure is gone.           *)
LEMMA ReceiptStep ==
  ASSUME Typed, ReceiptsInv, NEW u \in Users, Erase(u), u \in Live,
         NEW paper \in Receipts, paper.user = u, receipts' = receipts \cup {paper},
         paper \in ledger \/ traffic,
         UNCHANGED <<traffic, backup, ledger, born>>,
         ~traffic => \A r \in Requests : deletion'[r] = Idle
  PROVE  ReceiptsInv' /\ EndsWithReceipt
<1>1. /\ Live' = Live \ {u}
      /\ \A p \in People : account'[p] # account[p] => account[p] = u /\ account'[p] = None
  BY ErasedIsGone
<1>2. u <= born
  <2>1. PICK p \in People : account[p] = u
    BY DEF Live
  <2>2. u # None
    BY NoneIsNothing
  <2>. QED
    BY <2>1, <2>2 DEF ReceiptsInv, Numbered
<1>3. Numbered(account, receipts \cup ledger)'
  BY <1>1, <1>2 DEF ReceiptsInv, Numbered
<1>4. (backup # None)' => /\ Numbered(backup.account, backup.receipts)'
                          /\ (backup.receipts \subseteq receipts)'
  BY DEF ReceiptsInv, Numbered
<1>5. DeletedIsGone'
  BY <1>1 DEF ReceiptsInv, DeletedIsGone
<1>6. ~traffic' => receipts' \subseteq ledger'
  BY DEF ReceiptsInv
<1>7. EndsWithReceipt
  BY <1>1 DEF EndsWithReceipt
<1>. QED
  BY <1>3, <1>4, <1>5, <1>6, <1>7 DEF ReceiptsInv

(* A new user has a number of its own.                                      *)
LEMMA NewUser ==
  ASSUME Typed, ReceiptsInv, NEW p \in People, CreateUser(p)
  PROVE  ReceiptsInv' /\ EndsWithReceipt
<1>1. /\ account[p] = None /\ account' = [account EXCEPT ![p] = born + 1]
      /\ born' = born + 1 /\ born \in Nat /\ born + 1 \in Users
      /\ account \in [People -> Users \cup {None}]
      /\ UNCHANGED <<receipts, traffic, backup, ledger, deletion>>
  BY DEF CreateUser, restore, Typed, TypeOK, Users
<1>2. Live' \subseteq Live \cup {born + 1}
  BY <1>1 DEF Live
<1>3. /\ \A r \in receipts \cup ledger : r.user \in Nat /\ r.user <= born
      /\ \A q \in People : account[q] # None => account[q] \in Nat /\ account[q] <= born
  BY <1>1, NoneIsNothing DEF Typed, TypeOK, ReceiptsInv, Numbered
<1>4. Numbered(account, receipts \cup ledger)'
  BY <1>1, <1>3 DEF Numbered
<1>5. backup # None => Numbered(backup.account, backup.receipts)'
  <2>. SUFFICES ASSUME backup # None PROVE Numbered(backup.account, backup.receipts)'
    OBVIOUS
  <2>1. backup.account \in [People -> Users \cup {None}] /\ backup.receipts \in SUBSET Receipts
    BY DEF Typed, BackupIsTyped, Backups
  <2>2. /\ \A r \in backup.receipts : r.user \in Nat /\ r.user <= born
        /\ \A q \in People : backup.account[q] # None =>
             backup.account[q] \in Nat /\ backup.account[q] <= born
    BY <2>1, NoneIsNothing DEF ReceiptsInv, Numbered, Receipts
  <2>. QED
    BY <1>1, <2>2 DEF Numbered
<1>6. DeletedIsGone'
  BY <1>1, <1>2, <1>3 DEF ReceiptsInv, DeletedIsGone
<1>7. EndsWithReceipt
  BY <1>1 DEF EndsWithReceipt
<1>. QED
  BY <1>1, <1>4, <1>5, <1>6, <1>7 DEF ReceiptsInv

LEMMA ReceiptsNext ==
  ASSUME Typed, ReceiptsInv, [Next]_vars
  PROVE  ReceiptsInv' /\ EndsWithReceipt
<1>. DEFINE Goal == ReceiptsInv' /\ EndsWithReceipt
<1>0. /\ account \in [People -> Users \cup {None}]
      /\ receipts \in SUBSET Receipts /\ ledger \in SUBSET Receipts
  BY DEF Typed, TypeOK, Receipts
<1>1. ASSUME UNCHANGED <<account, receipts, traffic, backup, ledger, born, deletion>> PROVE Goal
  BY <1>1, ReceiptsStay DEF ReceiptsInv
<1>2. ASSUME NEW p \in People,
             \/ Submit(p) \/ Revoke(p) \/ Bootstrap(p)
             \/ CheckInvitation(p) \/ BindMembership(p) \/ LoseSignUp(p)
             \/ \E decision \in {"invited", "declined", "withdrawn"} : Review(p, decision)
      PROVE  Goal
  BY <1>1, <1>2
  DEF Submit, Revoke, Bootstrap, CheckInvitation, BindMembership, LoseSignUp, Review, restore
<1>3. ASSUME NEW p \in People, CreateUser(p) PROVE Goal
  BY <1>3, NewUser
<1>4. ASSUME NEW u \in Users, Admit(u) \/ SignIn(u) \/ LinkGoogle(u) PROVE Goal
  BY <1>1, <1>4 DEF Admit, SignIn, LinkGoogle, restore
<1>5. ASSUME NEW r \in Requests, DeletionStep(r) PROVE Goal
  <2>1. traffic
    BY <1>5, NothingUnderWay
  <2>2. CASE DeleteAccount(r)
    <3>. DEFINE u == deletion[r].user
                paper == [user |-> u, person |-> PersonOf(u), provider |-> deletion[r].revoked]
    <3>1. UNCHANGED <<traffic, backup, ledger, born>>
      BY <2>2 DEF DeleteAccount, restore
    <3>2. CASE Erase(u) /\ u \in Live /\ receipts' = receipts \cup {paper}
      <4>1. u \in Users /\ PersonOf(u) \in People
        BY <1>0, <3>2 DEF Live, PersonOf
      <4>2. deletion[r].revoked \in {"confirmed", "unconfirmed"}
        BY <2>2 DEF DeleteAccount, Typed, TypeOK, RevocationIsKnown
      <4>3. paper \in Receipts /\ paper.user = u
        BY <4>1, <4>2 DEF Receipts
      <4>. HIDE DEF u, paper
      <4>. QED
        BY <2>1, <3>1, <3>2, <4>1, <4>3, ReceiptStep
    <3>3. CASE UNCHANGED <<account, receipts>>
      BY <2>1, <3>1, <3>3, ReceiptsStay
    <3>. QED
      BY <2>2, <3>2, <3>3 DEF DeleteAccount
  <2>3. CASE ~DeleteAccount(r)
    <3>1. UNCHANGED <<account, receipts, traffic, backup, ledger, born>>
      BY <1>5, <2>3 DEF DeletionStep, Issue, Resend, Consume, Disconnect, FailDeletion, restore
    <3>. QED
      BY <2>1, <3>1, ReceiptsStay
  <2>. QED
    BY <2>2, <2>3
<1>6. CASE Snapshot
  <2>1. /\ UNCHANGED <<account, receipts, traffic, ledger, born, deletion>> /\ traffic
        /\ backup'.account = account /\ backup'.receipts = receipts
    BY <1>6 DEF Snapshot
  <2>2. Live' = Live
    BY <2>1 DEF Live
  <2>. QED
    BY <2>1, <2>2 DEF ReceiptsInv, Numbered, DeletedIsGone, EndsWithReceipt
<1>7. CASE Restore
  <2>1. /\ traffic /\ ~traffic' /\ backup # None /\ backup' = None
        /\ ledger' = ledger \cup receipts /\ receipts' = backup.receipts
        /\ account' = backup.account /\ UNCHANGED born
        /\ deletion' = [r \in Requests |-> Idle]
    BY <1>7 DEF Restore
  <2>. QED
    BY <2>1 DEF ReceiptsInv, Numbered, DeletedIsGone, EndsWithReceipt
<1>8. CASE Reapply
  <2>1. PICK paper \in ledger :
          /\ receipts' = receipts \cup {paper}
          /\ IF OwnerOf(paper) # None THEN Erase(OwnerOf(paper))
             ELSE UNCHANGED <<request, member, account, sessions, linked, challenge>>
    BY <1>8 DEF Reapply
  <2>2. ~traffic /\ UNCHANGED <<traffic, backup, ledger, born, deletion>>
    BY <1>8 DEF Reapply, restore
  <2>3. CASE OwnerOf(paper) # None
    <3>1. OwnerOf(paper) = paper.user /\ paper.user \in Live /\ paper.user \in Users
      BY <1>0, <2>3 DEF OwnerOf, Receipts
    <3>. QED
      BY <1>0, <2>1, <2>2, <2>3, <3>1, ReceiptStep DEF ReceiptsInv
  <2>4. CASE OwnerOf(paper) = None
    <3>1. UNCHANGED account
      BY <2>1, <2>4
    <3>2. EndsWithReceipt
      BY <3>1 DEF EndsWithReceipt
    <3>. QED
      BY <2>1, <2>2, <3>1, <3>2 DEF ReceiptsInv, Numbered, DeletedIsGone
  <2>. QED
    BY <2>3, <2>4
<1>9. CASE OpenTraffic
  <2>1. /\ ~traffic /\ AllApplied /\ traffic'
        /\ UNCHANGED <<account, receipts, backup, ledger, born, deletion>>
    BY <1>9 DEF OpenTraffic
  <2>2. Live' = Live
    BY <2>1 DEF Live
  <2>3. ASSUME NEW paper \in ledger PROVE paper \in receipts /\ paper.user \notin Live
    <3>1. paper \in receipts /\ OwnerOf(paper) = None
      BY <2>1 DEF AllApplied, Outstanding
    <3>2. paper.user \in Users
      BY <1>0 DEF Receipts
    <3>. QED
      BY <3>1, <3>2, NoneIsNothing DEF OwnerOf
  <2>4. receipts \subseteq ledger
    BY <2>1 DEF ReceiptsInv
  <2>5. DeletedIsGone'
    BY <2>1, <2>2, <2>3, <2>4 DEF DeletedIsGone
  <2>. QED
    BY <2>1, <2>5 DEF ReceiptsInv, Numbered, EndsWithReceipt
<1>10. CASE UNCHANGED vars
  BY <1>1, <1>10 DEF vars
<1>. QED
  BY <1>2, <1>3, <1>4, <1>5, <1>6, <1>7, <1>8, <1>9, <1>10 DEF Next, SignUpStep

(***************************************************************************)
(* Challenges.                                                             *)
(***************************************************************************)

(* A function has no more values than arguments.                            *)
LEMMA ValuesBound ==
  ASSUME NEW S, IsFiniteSet(S), NEW V, NEW f \in [S -> V], \A v \in V : \E x \in S : f[x] = v
  PROVE  IsFiniteSet(V) /\ Cardinality(V) <= Cardinality(S)
<1>1. f \in Surjection(S, V)
  BY DEF Surjection
<1>. QED
  BY <1>1, FS_Surjection

(* There are more tokens than requests and challenges can hold, so that a   *)
(* new one differs from all of them.                                        *)
LEMMA FreshToken ==
  ASSUME Typed
  PROVE  \E n \in Tokens : Fresh(n)
<1>. DEFINE f == [r \in Requests |-> deletion[r].token]
            g == [u \in Users |-> challenge[u].token]
            F == {deletion[r].token : r \in Requests}
            G == {challenge[u].token : u \in Users}
<1>1. f \in [Requests -> F] /\ \A v \in F : \E r \in Requests : f[r] = v
  OBVIOUS
<1>2. g \in [Users -> G] /\ \A v \in G : \E u \in Users : g[u] = v
  OBVIOUS
<1>3. Held = F \cup G
  BY DEF Held
<1>4. IsFiniteSet(Requests) /\ IsFiniteSet(Users) /\ Cardinality(Users) = MaxUsers
  BY FS_Interval DEF Users
<1>. HIDE DEF f, g, F, G
<1>5. IsFiniteSet(F) /\ Cardinality(F) <= Cardinality(Requests)
  BY <1>1, <1>4, ValuesBound
<1>6. IsFiniteSet(G) /\ Cardinality(G) <= MaxUsers
  BY <1>2, <1>4, ValuesBound
<1>7. IsFiniteSet(Held) /\ Cardinality(Held) <= Cardinality(Requests) + MaxUsers
  <2>1. /\ IsFiniteSet(F \cup G)
        /\ Cardinality(F \cup G) = Cardinality(F) + Cardinality(G) - Cardinality(F \cap G)
    BY <1>5, <1>6, FS_Union
  <2>2. Cardinality(F) \in Nat /\ Cardinality(G) \in Nat /\ Cardinality(F \cap G) \in Nat
    BY <1>5, <1>6, FS_CardinalityType, FS_Intersection
  <2>3. Cardinality(Requests) \in Nat /\ MaxUsers \in Nat
    BY <1>4, FS_CardinalityType
  <2>. QED
    BY <1>3, <1>5, <1>6, <2>1, <2>2, <2>3
<1>8. IsFiniteSet(Tokens) /\ Cardinality(Tokens) = Cardinality(Requests) + MaxUsers + 1
  <2>1. Cardinality(Requests) + MaxUsers + 1 \in Nat
    BY <1>4, FS_CardinalityType
  <2>. QED
    BY <2>1, FS_Interval DEF Tokens
<1>9. SUFFICES ASSUME Tokens \subseteq Held PROVE FALSE
  BY DEF Fresh
<1>10. Cardinality(Tokens) <= Cardinality(Held)
  BY <1>7, <1>9, FS_Subset
<1>11. Cardinality(Requests) \in Nat /\ Cardinality(Held) \in Nat
  BY <1>4, <1>7, FS_CardinalityType
<1>. QED
  BY <1>7, <1>8, <1>10, <1>11

(* One DELETE request changes: what becomes of it, and of nothing else.     *)
LEMMA OneDeletion ==
  ASSUME Typed, NEW r \in Requests, NEW d \in Deletions, d.pc = "delete" => d.revoked # "none",
         deletion' = [deletion EXCEPT ![r] = d]
  PROVE  /\ deletion' \in [Requests -> Deletions] /\ RevocationIsKnown'
         /\ \A s \in Requests : deletion'[s] = IF s = r THEN d ELSE deletion[s]
<1>1. deletion \in [Requests -> Deletions]
  BY DEF Typed, TypeOK, Deletions
<1>. QED
  BY <1>1 DEF Typed, RevocationIsKnown

(* What the steps of a DELETE request write into its record.                *)
LEMMA DeletionRows ==
  ASSUME Typed
  PROVE  /\ Idle \in Deletions /\ Idle.pc = "idle"
         /\ \A u \in Users, t \in Tokens :
              /\ [Idle EXCEPT !.pc = "issued", !.user = u, !.token = t] \in Deletions
              /\ [Idle EXCEPT !.pc = "issued", !.user = u, !.token = t].pc = "issued"
         /\ \A d \in Deletions :
              /\ [d EXCEPT !.pc = "issued", !.revoked = "none"] \in Deletions
              /\ [d EXCEPT !.pc = "consumed"] \in Deletions
              /\ \A known \in {"confirmed", "unconfirmed"} :
                   [d EXCEPT !.pc = "delete", !.revoked = known] \in Deletions
BY DEF Idle, Deletions

(* The tables an erasure writes keep their types.                           *)
LEMMA EraseTyped ==
  ASSUME Typed, NEW u \in Users, Erase(u)
  PROVE  /\ request' \in [People -> {"none", "requested", "invited", "declined", "withdrawn"}]
         /\ member' \in [People -> Members] /\ account' \in [People -> Users \cup {None}]
         /\ sessions' \subseteq Users /\ linked' \subseteq Users
         /\ challenge' \in [Users -> Challenges]
<1>1. /\ request \in [People -> {"none", "requested", "invited", "declined", "withdrawn"}]
      /\ member \in [People -> Members] /\ account \in [People -> Users \cup {None}]
      /\ sessions \subseteq Users /\ linked \subseteq Users
      /\ challenge \in [Users -> Challenges]
  BY DEF Typed, TypeOK, Members, Challenges
<1>2. NoMember \in Members /\ NoChallenge \in Challenges
  BY DEF NoMember, NoChallenge, Members, Challenges
<1>3. \A p \in People : Leaves(member[p], p, u) \in Members
  BY <1>1, <1>2 DEF Leaves
<1>. QED
  BY <1>1, <1>2, <1>3 DEF Erase

(* The types are inductive, with what a request knows of its revocation.    *)
LEMMA TypedNext ==
  ASSUME Typed, [Next]_vars
  PROVE  Typed'
<1>0. /\ request \in [People -> {"none", "requested", "invited", "declined", "withdrawn"}]
      /\ member \in [People -> Members] /\ account \in [People -> Users \cup {None}]
      /\ signup \in [People -> {"idle", "checked", "created"}]
      /\ admitted \subseteq Users /\ sessions \subseteq Users /\ linked \subseteq Users
      /\ granted \subseteq Users /\ challenge \in [Users -> Challenges]
      /\ receipts \subseteq Receipts /\ ledger \subseteq Receipts
      /\ deletion \in [Requests -> Deletions] /\ RevocationIsKnown
      /\ traffic \in BOOLEAN /\ (backup # None => traffic) /\ backup \in Backups \cup {None}
      /\ born \in 0..MaxUsers /\ reviews \in 0..MaxReviews /\ faults \in 0..MaxFaults
  BY DEF Typed, TypeOK, BackupIsTyped, Members, Challenges, Receipts, Deletions
<1>. DEFINE
       AccessTyped ==
         /\ request \in [People -> {"none", "requested", "invited", "declined", "withdrawn"}]
         /\ member \in [People -> Members] /\ account \in [People -> Users \cup {None}]
         /\ signup \in [People -> {"idle", "checked", "created"}]
         /\ admitted \subseteq Users /\ sessions \subseteq Users /\ linked \subseteq Users
         /\ granted \subseteq Users /\ challenge \in [Users -> Challenges]
       RestTyped ==
         /\ receipts \subseteq Receipts /\ ledger \subseteq Receipts
         /\ deletion \in [Requests -> Deletions] /\ RevocationIsKnown
         /\ traffic \in BOOLEAN /\ (backup # None => traffic) /\ backup \in Backups \cup {None}
         /\ born \in 0..MaxUsers /\ reviews \in 0..MaxReviews /\ faults \in 0..MaxFaults
       Fine == AccessTyped' /\ RestTyped'
<1>1. ASSUME Fine PROVE Typed'
  BY <1>1 DEF Typed, TypeOK, BackupIsTyped, Members, Challenges, Receipts, Deletions
<1>2. ASSUME NEW p \in People, NEW decision \in {"invited", "declined", "withdrawn"},
             Review(p, decision)
      PROVE  Fine
  <2>1. Reviewed(member[p]) \in Members
    BY <1>0 DEF Reviewed, Members
  <2>2. member' \in [People -> Members]
    BY <1>0, <1>2, <2>1 DEF Review
  <2>3. request' \in [People -> {"none", "requested", "invited", "declined", "withdrawn"}]
    BY <1>0, <1>2 DEF Review
  <2>4. reviews' \in 0..MaxReviews
    BY <1>0, <1>2 DEF Review
  <2>5. UNCHANGED <<signup, account, admitted, sessions, challenge, linked, granted, receipts,
                    deletion, traffic, backup, ledger, born, faults>>
    BY <1>2 DEF Review, entry, provider, restore
  <2>. QED
    BY <1>0, <2>2, <2>3, <2>4, <2>5 DEF RevocationIsKnown
<1>3. ASSUME NEW p \in People, Submit(p) \/ Revoke(p) \/ Bootstrap(p) PROVE Fine
  <2>1. member' \in [People -> Members]
    <3>1. [member[p] EXCEPT !.status = "revoked"] \in Members
      BY <1>0 DEF Members
    <3>2. [status |-> "active", user |-> account[p]] \in Members
      BY <1>0 DEF Members
    <3>3. CASE Revoke(p)
      <4>1. member' = [member EXCEPT ![p] = [member[p] EXCEPT !.status = "revoked"]]
        BY <3>3 DEF Revoke
      <4>. QED
        BY <1>0, <3>1, <4>1
    <3>. QED
      BY <1>0, <1>3, <3>2, <3>3 DEF Submit, Bootstrap
  <2>2. request' \in [People -> {"none", "requested", "invited", "declined", "withdrawn"}]
    BY <1>0, <1>3 DEF Submit, Revoke, Bootstrap
  <2>3. sessions' \subseteq Users
    BY <1>0, <1>3 DEF Submit, Revoke, Bootstrap, entry
  <2>4. UNCHANGED <<signup, account, admitted, challenge, linked, granted, receipts,
                    deletion, traffic, backup, ledger, born, reviews, faults>>
    BY <1>3 DEF Submit, Revoke, Bootstrap, entry, provider, restore
  <2>. QED
    BY <1>0, <2>1, <2>2, <2>3, <2>4 DEF RevocationIsKnown
<1>4. ASSUME NEW p \in People, SignUpStep(p) PROVE Fine
  <2>1. signup' \in [People -> {"idle", "checked", "created"}]
    BY <1>0, <1>4 DEF SignUpStep, CheckInvitation, CreateUser, BindMembership, LoseSignUp
  <2>2. account' \in [People -> Users \cup {None}] /\ born' \in 0..MaxUsers
    <3>1. CASE CreateUser(p)
      <4>1. born + 1 \in Users /\ born + 1 \in 0..MaxUsers
        BY <1>0, <3>1 DEF CreateUser, Users
      <4>. QED
        BY <1>0, <3>1, <4>1 DEF CreateUser
    <3>2. CASE ~CreateUser(p)
      BY <1>0, <1>4, <3>2 DEF SignUpStep, CheckInvitation, BindMembership, LoseSignUp
    <3>. QED
      BY <3>1, <3>2
  <2>3. member' \in [People -> Members]
    <3>1. [status |-> "active", user |-> account[p]] \in Members
      BY <1>0 DEF Members
    <3>. QED
      BY <1>0, <1>4, <3>1 DEF SignUpStep, CheckInvitation, CreateUser, BindMembership, LoseSignUp
  <2>4. faults' \in 0..MaxFaults
    BY <1>0, <1>4
    DEF SignUpStep, CheckInvitation, CreateUser, BindMembership, LoseSignUp, Fault
  <2>5. UNCHANGED <<request, admitted, sessions, challenge, linked, granted, receipts,
                    deletion, traffic, backup, ledger, reviews>>
    BY <1>4 DEF SignUpStep, CheckInvitation, CreateUser, BindMembership, LoseSignUp,
                entry, provider, restore
  <2>. QED
    BY <1>0, <2>1, <2>2, <2>3, <2>4, <2>5 DEF RevocationIsKnown
<1>5. ASSUME NEW u \in Users, Admit(u) \/ SignIn(u) \/ LinkGoogle(u) PROVE Fine
  <2>1. /\ admitted' \subseteq Users /\ sessions' \subseteq Users
        /\ linked' \subseteq Users /\ granted' \subseteq Users
    BY <1>0, <1>5 DEF Admit, SignIn, LinkGoogle, entry, provider
  <2>2. UNCHANGED <<request, member, account, signup, challenge, receipts,
                    deletion, traffic, backup, ledger, born, reviews, faults>>
    BY <1>5 DEF Admit, SignIn, LinkGoogle, access, restore
  <2>. QED
    BY <1>0, <2>1, <2>2 DEF RevocationIsKnown
<1>6. ASSUME NEW r \in Requests, DeletionStep(r) PROVE Fine
  <2>. DEFINE Step == deletion' \in [Requests -> Deletions] /\ RevocationIsKnown'
  <2>. DEFINE Kept == UNCHANGED <<signup, admitted, traffic, backup, ledger, born, reviews>>
  <2>1. faults' \in 0..MaxFaults /\ Kept
    <3>1. ASSUME NEW u \in Users, Issue(r, u) PROVE Kept /\ UNCHANGED faults
      BY <3>1 DEF Issue, access, entry, restore
    <3>2. ASSUME NEW other \in Requests, Resend(r, other) PROVE Kept /\ UNCHANGED faults
      BY <3>2 DEF Resend, access, entry, restore
    <3>3. ASSUME Consume(r) PROVE Kept /\ UNCHANGED faults
      BY <3>3 DEF Consume, access, entry, restore
    <3>4. ASSUME Disconnect(r) PROVE Kept /\ UNCHANGED faults
      BY <3>4 DEF Disconnect, access, entry, restore
    <3>5. ASSUME DeleteAccount(r) PROVE Kept /\ UNCHANGED faults
      BY <3>5 DEF DeleteAccount, restore
    <3>6. ASSUME FailDeletion(r) PROVE Kept /\ faults' \in 0..MaxFaults
      BY <1>0, <3>6 DEF FailDeletion, Fault, access, entry, restore
    <3>. HIDE DEF Kept
    <3>. QED
      BY <1>0, <1>6, <3>1, <3>2, <3>3, <3>4, <3>5, <3>6 DEF DeletionStep
  <2>2. ASSUME UNCHANGED <<request, member, account, sessions, linked, granted, challenge,
                           receipts>>, Step
        PROVE  Fine
    BY <1>0, <2>1, <2>2
  <2>3. ASSUME Drop(r) PROVE Step
    BY <2>3, DeletionRows, OneDeletion DEF Drop
  <2>4. ASSUME NEW u \in Users, Issue(r, u) PROVE Fine
    <3>. DEFINE t == CHOOSE n \in Tokens : Fresh(n)
    <3>1. t \in Tokens
      BY FreshToken
    <3>2. /\ challenge' = [challenge EXCEPT ![u] = [token |-> t, consumed |-> FALSE]]
          /\ deletion' = [deletion EXCEPT
                            ![r] = [Idle EXCEPT !.pc = "issued", !.user = u, !.token = t]]
          /\ UNCHANGED <<request, member, account, sessions, linked, granted, receipts>>
      BY <2>4 DEF Issue, access, entry, provider
    <3>. HIDE DEF t
    <3>3. challenge' \in [Users -> Challenges]
      BY <1>0, <3>1, <3>2 DEF Challenges
    <3>4. Step
      BY <3>1, <3>2, DeletionRows, OneDeletion
    <3>. QED
      BY <1>0, <2>1, <3>2, <3>3, <3>4
  <2>5. ASSUME NEW other \in Requests, Resend(r, other) PROVE Fine
    <3>. DEFINE d == [deletion[other] EXCEPT !.pc = "issued", !.revoked = "none"]
    <3>1. deletion[other] \in Deletions
      BY <1>0
    <3>2. d \in Deletions /\ d.pc = "issued"
      BY <3>1 DEF Deletions
    <3>3. deletion' = [deletion EXCEPT ![r] = d]
      BY <2>5 DEF Resend
    <3>. HIDE DEF d
    <3>4. Step
      BY <3>2, <3>3, OneDeletion
    <3>. QED
      BY <2>2, <2>5, <3>4 DEF Resend, access, entry, provider
  <2>6. ASSUME Consume(r) PROVE Fine
    <3>1. Step
      <4>1. CASE Progress(r, "consumed")
        <5>. DEFINE d == [deletion[r] EXCEPT !.pc = "consumed"]
        <5>1. d \in Deletions /\ d.pc = "consumed"
          BY <1>0 DEF Deletions
        <5>2. deletion' = [deletion EXCEPT ![r] = d]
          BY <4>1 DEF Progress
        <5>. HIDE DEF d
        <5>. QED
          BY <5>1, <5>2, OneDeletion
      <4>2. CASE Drop(r)
        BY <2>3, <4>2
      <4>. QED
        BY <2>6, <4>1, <4>2 DEF Consume
    <3>2. challenge' \in [Users -> Challenges]
      <4>1. CASE UNCHANGED challenge
        BY <1>0, <4>1
      <4>2. CASE challenge' = [challenge EXCEPT ![deletion[r].user].consumed = TRUE]
        BY <1>0, <4>2 DEF Challenges
      <4>. QED
        BY <2>6, <4>1, <4>2 DEF Consume
    <3>3. UNCHANGED <<request, member, account, sessions, linked, granted, receipts>>
      BY <2>6 DEF Consume, access, entry, provider
    <3>. QED
      BY <1>0, <2>1, <3>1, <3>2, <3>3
  <2>7. ASSUME Disconnect(r) PROVE Fine
    <3>1. Step
      <4>1. CASE Drop(r)
        BY <2>3, <4>1
      <4>2. ASSUME NEW known \in {"confirmed", "unconfirmed"},
                   deletion' = [deletion EXCEPT ![r].pc = "delete", ![r].revoked = known]
            PROVE  Step
        <5>. DEFINE d == [deletion[r] EXCEPT !.pc = "delete", !.revoked = known]
        <5>1. d \in Deletions
          BY <1>0, DeletionRows
        <5>2. d.revoked # "none"
          <6>1. \A row \in Deletions : [row EXCEPT !.pc = "delete", !.revoked = known].revoked = known
            BY DEF Deletions
          <6>. QED
            BY <1>0, <6>1
        <5>3. deletion' = [deletion EXCEPT ![r] = d]
          BY <1>0, <4>2
        <5>. HIDE DEF d
        <5>. QED
          BY <5>1, <5>2, <5>3, OneDeletion
      <4>. QED
        BY <2>7, <4>1, <4>2 DEF Disconnect
    <3>2. linked' \subseteq Users /\ granted' \subseteq Users
      BY <1>0, <2>7 DEF Disconnect, provider
    <3>3. UNCHANGED <<request, member, account, sessions, challenge, receipts>>
      BY <2>7 DEF Disconnect, access, entry
    <3>. QED
      BY <1>0, <2>1, <3>1, <3>2, <3>3
  <2>8. ASSUME DeleteAccount(r) PROVE Fine
    <3>. DEFINE u == deletion[r].user
                paper == [user |-> u, person |-> PersonOf(u), provider |-> deletion[r].revoked]
    <3>1. Step /\ UNCHANGED granted
      BY <2>3, <2>8 DEF DeleteAccount
    <3>2. CASE Erase(u) /\ u \in Live /\ receipts' = receipts \cup {paper}
      <4>1. u \in Users /\ PersonOf(u) \in People
        BY <1>0, <3>2 DEF Live, PersonOf
      <4>2. deletion[r].revoked \in {"confirmed", "unconfirmed"}
        BY <1>0, <2>8 DEF DeleteAccount, RevocationIsKnown, Deletions
      <4>3. receipts' \subseteq Receipts
        BY <1>0, <3>2, <4>1, <4>2 DEF Receipts
      <4>. HIDE DEF u, paper
      <4>. QED
        BY <1>0, <2>1, <3>1, <3>2, <4>1, <4>3, EraseTyped
    <3>3. CASE UNCHANGED <<request, member, account, sessions, linked, challenge, receipts>>
      BY <2>2, <3>1, <3>3
    <3>. QED
      BY <2>8, <3>2, <3>3 DEF DeleteAccount
  <2>9. ASSUME FailDeletion(r) PROVE Fine
    BY <2>2, <2>3, <2>9 DEF FailDeletion, access, entry, provider
  <2>. QED
    BY <1>6, <2>4, <2>5, <2>6, <2>7, <2>8, <2>9 DEF DeletionStep
<1>7. ASSUME Snapshot PROVE Fine
  <2>1. /\ traffic /\ UNCHANGED <<request, member, account, signup, admitted, sessions, linked,
                     granted, challenge, receipts, deletion, traffic, ledger, born, reviews, faults>>
    BY <1>7 DEF Snapshot, access, entry, provider
  <2>2. backup' \in Backups
    BY <1>0, <1>7 DEF Snapshot, Backups
  <2>. QED
    BY <1>0, <2>1, <2>2 DEF RevocationIsKnown
<1>8. ASSUME Restore PROVE Fine
  <2>1. backup \in Backups
    BY <1>0, <1>8 DEF Restore
  <2>2. /\ request' \in [People -> {"none", "requested", "invited", "declined", "withdrawn"}]
        /\ member' \in [People -> Members] /\ account' \in [People -> Users \cup {None}]
        /\ sessions' \subseteq Users /\ linked' \subseteq Users /\ receipts' \subseteq Receipts
    BY <1>8, <2>1 DEF Restore, Backups
  <2>3. NoChallenge \in Challenges /\ Idle \in Deletions /\ Idle.pc = "idle"
    BY DEF NoChallenge, Challenges, Idle, Deletions
  <2>4. /\ challenge' \in [Users -> Challenges] /\ deletion' \in [Requests -> Deletions]
        /\ RevocationIsKnown'
    BY <1>8, <2>3 DEF Restore, RevocationIsKnown
  <2>5. /\ signup' \in [People -> {"idle", "checked", "created"}] /\ admitted' = {}
        /\ traffic' = FALSE /\ backup' = None /\ ledger' = ledger \cup receipts
        /\ faults' \in 0..MaxFaults /\ UNCHANGED <<granted, reviews, born>>
    BY <1>0, <1>8 DEF Restore, Fault
  <2>. QED
    BY <1>0, <2>2, <2>4, <2>5
<1>9. ASSUME Reapply PROVE Fine
  <2>1. PICK paper \in ledger :
          /\ receipts' = receipts \cup {paper}
          /\ IF OwnerOf(paper) # None THEN Erase(OwnerOf(paper))
             ELSE UNCHANGED <<request, member, account, sessions, linked, challenge>>
    BY <1>9 DEF Reapply
  <2>2. UNCHANGED <<signup, reviews, admitted, granted, deletion, traffic, backup, ledger, born,
                    faults>>
    BY <1>9 DEF Reapply, restore
  <2>3. OwnerOf(paper) # None => OwnerOf(paper) \in Users
    BY <1>0 DEF OwnerOf, Receipts
  <2>4. AccessTyped'
    BY <1>0, <2>1, <2>2, <2>3, EraseTyped
  <2>. QED
    BY <1>0, <2>1, <2>2, <2>4 DEF RevocationIsKnown
<1>10. ASSUME OpenTraffic PROVE Fine
  BY <1>0, <1>10 DEF OpenTraffic, access, entry, provider, RevocationIsKnown
<1>11. ASSUME UNCHANGED vars PROVE Fine
  BY <1>0, <1>11 DEF vars, RevocationIsKnown
<1>. HIDE DEF Fine
<1>. QED
  BY <1>1, <1>2, <1>3, <1>4, <1>5, <1>6, <1>7, <1>8, <1>9, <1>10, <1>11 DEF Next

(* The inductive invariant of the challenges: copies of a token are of one  *)
(* user, and what a request has consumed is not usable again.               *)
TokensInv ==
  /\ \A r \in Requests :
       /\ deletion[r].pc = "idle" => deletion[r] = Idle
       /\ deletion[r].pc # "idle" => deletion[r].token # None /\ deletion[r].user # None
       /\ deletion[r].pc \in {"consumed", "delete"} => ~Usable(deletion[r].user, deletion[r].token)
  /\ \A r, s \in Requests :
       deletion[r].token = deletion[s].token /\ deletion[r].token # None
         => deletion[r].user = deletion[s].user
  /\ OneConsumer

(* No challenge but those of new tokens becomes usable.                     *)
NoneRevives == \A u \in Users, t \in Held \ {None} : Usable(u, t)' => Usable(u, t)

(* A request is given up, or goes on with a challenge it has consumed.      *)
LEMMA TokensStay ==
  ASSUME Typed, TokensInv, NEW r \in Requests, NEW d \in Deletions, NoneRevives,
         deletion' = [deletion EXCEPT ![r] = d],
         \/ d = Idle
         \/ /\ d.user = deletion[r].user /\ d.token = deletion[r].token
            /\ {deletion[r].pc, d.pc} \subseteq {"consumed", "delete"}
  PROVE  TokensInv'
<1>1. \A s \in Requests : deletion'[s] = (IF s = r THEN d ELSE deletion[s])
                          /\ deletion[s] \in Deletions /\ deletion[s].token \in Held
  BY DEF Typed, TypeOK, Deletions, Held
<1>2. ASSUME NEW s \in Requests
      PROVE  /\ deletion'[s].pc = "idle" => deletion'[s] = Idle
             /\ deletion'[s].pc # "idle" => deletion'[s].token # None /\ deletion'[s].user # None
             /\ deletion'[s].pc \in {"consumed", "delete"}
                  => ~Usable(deletion[s].user, deletion[s].token)'
  <2>1. CASE deletion'[s] = Idle
    BY <2>1 DEF Idle
  <2>2. CASE deletion'[s] # Idle
    <3>1. /\ deletion'[s].user = deletion[s].user /\ deletion'[s].token = deletion[s].token
          /\ \/ deletion'[s].pc = deletion[s].pc /\ deletion'[s] = deletion[s]
             \/ {deletion[s].pc, deletion'[s].pc} \subseteq {"consumed", "delete"}
      BY <1>1, <2>2
    <3>2. deletion[s].pc # "idle"
      BY <1>1, <2>2, <3>1 DEF TokensInv
    <3>3. deletion[s].token # None /\ deletion[s].user \in Users
      BY <1>1, <3>2 DEF TokensInv, Deletions
    <3>4. Usable(deletion[s].user, deletion[s].token)' => Usable(deletion[s].user, deletion[s].token)
      BY <1>1, <3>1, <3>3 DEF NoneRevives, Usable
    <3>. QED
      BY <3>1, <3>2, <3>3, <3>4 DEF TokensInv
  <2>. QED
    BY <2>1, <2>2
<1>3. \A s \in Requests :
        \/ deletion'[s] = Idle
        \/ /\ deletion'[s].user = deletion[s].user /\ deletion'[s].token = deletion[s].token
           /\ deletion'[s].pc \in {"consumed", "delete"} => deletion[s].pc \in {"consumed", "delete"}
  BY <1>1
<1>4. Idle.token = None /\ Idle.pc = "idle"
  BY DEF Idle
<1>5. \A s, q \in Requests :
        deletion'[s].token = deletion'[q].token /\ deletion'[s].token # None
          => deletion'[s].user = deletion'[q].user
  BY <1>3, <1>4 DEF TokensInv
<1>6. OneConsumer'
  BY <1>3, <1>4 DEF TokensInv, OneConsumer
<1>. QED
  BY <1>2, <1>5, <1>6 DEF TokensInv

(* Steps that leave the requests alone.                                     *)
LEMMA TokensKept ==
  ASSUME Typed, TokensInv, UNCHANGED deletion, NoneRevives
  PROVE  TokensInv'
<1>1. ASSUME NEW r \in Requests, deletion[r].pc \in {"consumed", "delete"}
      PROVE  ~Usable(deletion[r].user, deletion[r].token)'
  <2>1. deletion[r].user \in Users /\ deletion[r].token \in Held \ {None}
    BY <1>1 DEF TokensInv, Held, Typed, TypeOK
  <2>2. ~Usable(deletion[r].user, deletion[r].token)
    BY <1>1 DEF TokensInv
  <2>. QED
    BY <2>1, <2>2 DEF NoneRevives, Usable
<1>. QED
  BY <1>1 DEF TokensInv, OneConsumer

(* The challenge of an erased user is usable by nobody.                     *)
LEMMA ErasedChallenge ==
  ASSUME Typed, NEW u \in Users, Erase(u)
  PROVE  NoneRevives
<1>1. challenge' = [challenge EXCEPT ![u] = NoChallenge] /\ challenge \in [Users -> Challenges]
  BY DEF Erase, Typed, TypeOK, Challenges
<1>. QED
  BY <1>1 DEF NoneRevives, Usable, NoChallenge

LEMMA TokensNext ==
  ASSUME Typed, TokensInv, [Next]_vars
  PROVE  TokensInv'
<1>0. /\ deletion \in [Requests -> Deletions] /\ challenge \in [Users -> Challenges]
      /\ account \in [People -> Users \cup {None}]
      /\ \A r \in Requests : deletion[r] \in Deletions /\ deletion[r].token \in Held
  BY DEF Typed, TypeOK, Deletions, Challenges, Held
<1>1. ASSUME UNCHANGED <<challenge, deletion>> PROVE TokensInv'
  BY <1>1, TokensKept DEF NoneRevives, Usable
<1>2. Idle \in Deletions
  BY DeletionRows
<1>3. ASSUME NEW p \in People,
             \/ Submit(p) \/ Revoke(p) \/ Bootstrap(p) \/ SignUpStep(p)
             \/ \E decision \in {"invited", "declined", "withdrawn"} : Review(p, decision)
      PROVE  TokensInv'
  BY <1>1, <1>3
  DEF Submit, Revoke, Bootstrap, SignUpStep, CheckInvitation, CreateUser, BindMembership,
      LoseSignUp, Review
<1>4. ASSUME NEW u \in Users, Admit(u) \/ SignIn(u) \/ LinkGoogle(u) PROVE TokensInv'
  BY <1>1, <1>4 DEF Admit, SignIn, LinkGoogle
<1>5. ASSUME NEW r \in Requests, NEW u \in Users, Issue(r, u) PROVE TokensInv'
  <2>. DEFINE t == CHOOSE n \in Tokens : Fresh(n)
              d == [Idle EXCEPT !.pc = "issued", !.user = u, !.token = t]
  <2>1. t \in Tokens /\ t \notin Held
    BY FreshToken DEF Fresh
  <2>2. /\ challenge' = [challenge EXCEPT ![u] = [token |-> t, consumed |-> FALSE]]
        /\ deletion' = [deletion EXCEPT ![r] = d] /\ deletion[r].pc = "idle"
    BY <1>5 DEF Issue
  <2>. HIDE DEF t
  <2>3. d.pc = "issued" /\ d.user = u /\ d.token = t /\ u # None /\ t # None
    BY <2>1, NoneIsNothing DEF Idle
  <2>4. NoneRevives
    BY <1>0, <2>1, <2>2 DEF NoneRevives, Usable
  <2>. HIDE DEF d
  <2>5. \A s \in Requests : deletion'[s] = IF s = r THEN d ELSE deletion[s]
    BY <1>0, <2>2
  <2>6. ASSUME NEW s \in Requests
        PROVE  /\ deletion'[s].pc = "idle" => deletion'[s] = Idle
               /\ deletion'[s].pc # "idle" =>
                    deletion'[s].token # None /\ deletion'[s].user # None
               /\ deletion'[s].pc \in {"consumed", "delete"}
                    => ~Usable(deletion[s].user, deletion[s].token)'
    <3>1. CASE s = r
      BY <2>3, <2>5, <3>1
    <3>2. CASE s # r
      <4>1. deletion'[s] = deletion[s]
        BY <2>5, <3>2
      <4>2. ASSUME deletion[s].pc \in {"consumed", "delete"}
            PROVE  ~Usable(deletion[s].user, deletion[s].token)'
        <5>1. deletion[s].user \in Users /\ deletion[s].token \in Held \ {None}
          BY <1>0, <4>2 DEF TokensInv, Deletions
        <5>. QED
          BY <2>4, <4>1, <4>2, <5>1 DEF NoneRevives, Usable, TokensInv
      <4>. QED
        BY <4>1, <4>2 DEF TokensInv
    <3>. QED
      BY <3>1, <3>2
  <2>7. \A s, q \in Requests :
          deletion'[s].token = deletion'[q].token /\ deletion'[s].token # None
            => deletion'[s].user = deletion'[q].user
    BY <1>0, <2>1, <2>3, <2>5 DEF TokensInv
  <2>8. OneConsumer'
    BY <2>3, <2>5 DEF TokensInv, OneConsumer
  <2>. QED
    BY <2>6, <2>7, <2>8 DEF TokensInv
<1>6. ASSUME NEW r \in Requests, NEW other \in Requests, Resend(r, other) PROVE TokensInv'
  <2>. DEFINE d == [deletion[other] EXCEPT !.pc = "issued", !.revoked = "none"]
  <2>1. /\ deletion' = [deletion EXCEPT ![r] = d] /\ UNCHANGED challenge
        /\ deletion[other].token # None
    BY <1>6 DEF Resend
  <2>2. d.pc = "issued" /\ d.user = deletion[other].user /\ d.token = deletion[other].token
    BY <1>0 DEF Deletions
  <2>. HIDE DEF d
  <2>3. deletion[other].user # None
    BY <1>0, <2>1 DEF TokensInv, Idle
  <2>4. \A s \in Requests : deletion'[s] = IF s = r THEN d ELSE deletion[s]
    BY <1>0, <2>1
  <2>5. \A s \in Requests :
          /\ deletion'[s].pc = "idle" => deletion'[s] = Idle
          /\ deletion'[s].pc # "idle" => deletion'[s].token # None /\ deletion'[s].user # None
          /\ deletion'[s].pc \in {"consumed", "delete"}
               => ~Usable(deletion[s].user, deletion[s].token)'
    BY <2>1, <2>2, <2>3, <2>4 DEF TokensInv, Usable
  <2>6. \A s, q \in Requests :
          deletion'[s].token = deletion'[q].token /\ deletion'[s].token # None
            => deletion'[s].user = deletion'[q].user
    BY <2>2, <2>4 DEF TokensInv
  <2>7. OneConsumer'
    BY <2>2, <2>4 DEF TokensInv, OneConsumer
  <2>. QED
    BY <2>5, <2>6, <2>7 DEF TokensInv
<1>7. ASSUME NEW r \in Requests, Consume(r) PROVE TokensInv'
  <2>. DEFINE u == deletion[r].user
              t == deletion[r].token
  <2>1. CASE Drop(r) /\ UNCHANGED challenge
    BY <1>2, <2>1, TokensStay DEF Drop, NoneRevives, Usable
  <2>2. CASE /\ Usable(u, t) /\ Progress(r, "consumed")
             /\ challenge' = [challenge EXCEPT ![u].consumed = TRUE]
    <3>. DEFINE d == [deletion[r] EXCEPT !.pc = "consumed"]
    <3>1. deletion' = [deletion EXCEPT ![r] = d] /\ deletion[r].pc = "issued"
      BY <1>7, <2>2 DEF Progress, Consume
    <3>2. d.pc = "consumed" /\ d.user = u /\ d.token = t
      BY <1>0 DEF Deletions
    <3>3. u # None /\ t # None /\ u \in Users
      BY <1>0, <3>1 DEF TokensInv, Deletions
    <3>. HIDE DEF d
    <3>4. \A s \in Requests : deletion'[s] = IF s = r THEN d ELSE deletion[s]
      BY <1>0, <3>1
    <3>5. /\ NoneRevives /\ ~Usable(u, t)'
          /\ \A n : challenge'[u] # [token |-> n, consumed |-> FALSE]
      <4>1. challenge'[u].consumed /\ \A v \in Users \ {u} : challenge'[v] = challenge[v]
        BY <1>0, <2>2, <3>3 DEF Challenges
      <4>2. \A n : challenge'[u] # [token |-> n, consumed |-> FALSE]
        BY <4>1
      <4>3. u' = u
        BY <3>2, <3>4
      <4>4. NoneRevives
        BY <4>1, <4>2 DEF NoneRevives, Usable
      <4>. HIDE DEF u, t
      <4>. QED
        BY <4>2, <4>3, <4>4 DEF Usable
    <3>6. \A s \in Requests :
            deletion[s].pc \in {"consumed", "delete"} => s # r /\ deletion[s].token # t
      BY <2>2, <3>1, <3>3 DEF TokensInv
    <3>7. ASSUME NEW s \in Requests, s # r, deletion[s].pc \in {"consumed", "delete"}
          PROVE  ~Usable(deletion[s].user, deletion[s].token)'
      <4>1. deletion[s].user \in Users /\ deletion[s].token \in Held \ {None}
        BY <1>0, <3>7 DEF TokensInv, Deletions
      <4>2. deletion'[s] = deletion[s]
        BY <3>4, <3>7
      <4>. QED
        BY <3>5, <3>7, <4>1, <4>2 DEF NoneRevives, Usable, TokensInv
    <3>8. \A s \in Requests :
            /\ deletion'[s].pc = "idle" => deletion'[s] = Idle
            /\ deletion'[s].pc # "idle" => deletion'[s].token # None /\ deletion'[s].user # None
            /\ deletion'[s].pc \in {"consumed", "delete"}
                 => ~Usable(deletion[s].user, deletion[s].token)'
      <4>. TAKE s \in Requests
      <4>1. CASE s = r
        <5>1. /\ deletion'[s].pc = "consumed"
              /\ deletion'[s].user = u /\ deletion'[s].token = t
          BY <3>2, <3>4, <4>1
        <5>. HIDE DEF u, t
        <5>2. ~Usable(deletion[s].user, deletion[s].token)'
          BY <3>5, <5>1 DEF Usable
        <5>. QED
          BY <3>3, <5>1, <5>2
      <4>2. CASE s # r
        <5>1. deletion'[s] = deletion[s]
          BY <3>4, <4>2
        <5>. QED
          BY <3>7, <4>2, <5>1 DEF TokensInv
      <4>. QED
        BY <4>1, <4>2
    <3>9. \A s, q \in Requests :
            deletion'[s].token = deletion'[q].token /\ deletion'[s].token # None
              => deletion'[s].user = deletion'[q].user
      BY <3>2, <3>4 DEF TokensInv
    <3>10. OneConsumer'
      BY <3>2, <3>4, <3>6 DEF TokensInv, OneConsumer
    <3>. QED
      BY <3>8, <3>9, <3>10 DEF TokensInv
  <2>. QED
    BY <1>7, <2>1, <2>2 DEF Consume
<1>8. ASSUME NEW r \in Requests, Disconnect(r) PROVE TokensInv'
  <2>1. UNCHANGED challenge /\ deletion[r].pc = "consumed"
    BY <1>8 DEF Disconnect
  <2>2. CASE Drop(r)
    BY <1>2, <2>1, <2>2, TokensStay DEF Drop, NoneRevives, Usable
  <2>3. ASSUME NEW known \in {"confirmed", "unconfirmed"},
               deletion' = [deletion EXCEPT ![r].pc = "delete", ![r].revoked = known]
        PROVE  TokensInv'
    <3>. DEFINE d == [deletion[r] EXCEPT !.pc = "delete", !.revoked = known]
    <3>1. d \in Deletions
      BY <1>0, DeletionRows
    <3>2. d.pc = "delete" /\ d.user = deletion[r].user /\ d.token = deletion[r].token
      <4>1. \A row \in Deletions :
              LET e == [row EXCEPT !.pc = "delete", !.revoked = known]
              IN  e.pc = "delete" /\ e.user = row.user /\ e.token = row.token
        BY DEF Deletions
      <4>. QED
        BY <1>0, <4>1
    <3>3. deletion' = [deletion EXCEPT ![r] = d]
      BY <1>0, <2>3
    <3>. HIDE DEF d
    <3>. QED
      BY <2>1, <3>1, <3>2, <3>3, TokensStay DEF NoneRevives, Usable
  <2>. QED
    BY <1>8, <2>2, <2>3 DEF Disconnect
<1>9. ASSUME NEW r \in Requests, DeleteAccount(r) PROVE TokensInv'
  <2>1. Drop(r)
    BY <1>9 DEF DeleteAccount
  <2>2. NoneRevives
    <3>1. CASE UNCHANGED challenge
      BY <3>1 DEF NoneRevives, Usable
    <3>2. CASE Erase(deletion[r].user) /\ deletion[r].user \in Live
      <4>1. deletion[r].user \in Users
        BY <1>0, <3>2 DEF Live
      <4>. QED
        BY <3>2, <4>1, ErasedChallenge
    <3>. QED
      BY <1>9, <3>1, <3>2 DEF DeleteAccount
  <2>. QED
    BY <1>2, <2>1, <2>2, TokensStay DEF Drop
<1>10. ASSUME NEW r \in Requests, FailDeletion(r) PROVE TokensInv'
  BY <1>2, <1>10, TokensStay DEF FailDeletion, Drop, NoneRevives, Usable
<1>11. CASE Snapshot \/ OpenTraffic \/ UNCHANGED vars
  BY <1>1, <1>11 DEF Snapshot, OpenTraffic, vars
<1>12. CASE Restore
  <2>1. deletion' = [r \in Requests |-> Idle]
    BY <1>12 DEF Restore
  <2>. QED
    BY <2>1 DEF TokensInv, OneConsumer, Idle
<1>13. CASE Reapply
  <2>1. PICK paper \in ledger :
          IF OwnerOf(paper) # None THEN Erase(OwnerOf(paper))
          ELSE UNCHANGED <<request, member, account, sessions, linked, challenge>>
    BY <1>13 DEF Reapply
  <2>2. UNCHANGED deletion
    BY <1>13 DEF Reapply
  <2>3. CASE OwnerOf(paper) # None
    <3>1. OwnerOf(paper) \in Users
      BY <1>0, <2>3 DEF OwnerOf, Live
    <3>. QED
      BY <2>1, <2>2, <2>3, <3>1, ErasedChallenge, TokensKept
  <2>4. CASE OwnerOf(paper) = None
    BY <1>1, <2>1, <2>2, <2>4
  <2>. QED
    BY <2>3, <2>4
<1>. QED
  BY <1>3, <1>4, <1>5, <1>6, <1>7, <1>8, <1>9, <1>10, <1>11, <1>12, <1>13 DEF Next, DeletionStep

(***************************************************************************)
(* The theorems.                                                           *)
(***************************************************************************)

LEMMA InitHolds ==
  ASSUME Init
  PROVE  Typed /\ MembersInv /\ ReceiptsInv /\ TokensInv
<1>1. Idle \in Deletions /\ NoMember \in Members /\ NoChallenge \in Challenges
  BY DEF Idle, Deletions, NoMember, Members, NoChallenge, Challenges
<1>2. Typed
  BY <1>1
  DEF Init, Typed, TypeOK, BackupIsTyped, RevocationIsKnown, Idle, Deletions, Members, Challenges
<1>3. MembersInv
  BY DEF Init, MembersInv, IsOwn, NoMember
<1>4. ReceiptsInv
  <2>1. Live = {}
    BY DEF Init, Live
  <2>. QED
    BY <2>1 DEF Init, ReceiptsInv, Numbered, DeletedIsGone
<1>5. TokensInv
  BY DEF Init, TokensInv, OneConsumer, Idle
<1>. QED
  BY <1>2, <1>3, <1>4, <1>5

(* Memberships and accounts are consistent in every reachable state.        *)
LEMMA AccountsAreSound == Spec => [](Typed /\ MembersInv /\ ReceiptsInv /\ TokensInv)
<1>1. Init => Typed /\ MembersInv /\ ReceiptsInv /\ TokensInv
  BY InitHolds
<1>2. Typed /\ MembersInv /\ ReceiptsInv /\ TokensInv /\ [Next]_vars
        => (Typed /\ MembersInv /\ ReceiptsInv /\ TokensInv)'
  BY TypedNext, MembersNext, ReceiptsNext, TokensNext
<1>. QED
  BY <1>1, <1>2, PTL DEF Spec

(* No review, sign-up or new request gives a revoked membership back; only  *)
(* the bootstrap of a founder, the end of the account or a restore does.    *)
THEOREM RevocationLasts == Spec => RevokedStays
<1>1. Typed /\ MembersInv /\ [Next]_vars
        => [\A p \in People \ Founders :
              member[p].status = "revoked" /\ traffic = traffic' /\ account'[p] = account[p]
                => member'[p].status = "revoked"]_vars
  BY MembersNext DEF RevokedKept
<1>. QED
  BY <1>1, AccountsAreSound, PTL DEF Spec, RevokedStays

(* Sign-up, review, bootstrap, deletion and restore never leave an active   *)
(* membership with nobody or with another user than the one of its address. *)
THEOREM MembershipsAreLive == Spec => []ActiveIsLive
<1>1. Typed /\ MembersInv => ActiveIsLive
  BY NoneIsNothing DEF MembersInv, IsOwn, ActiveIsLive
<1>. QED
  BY <1>1, AccountsAreSound, PTL

(* Whoever asks, restores a backup or asks again: a deletion happens once,  *)
(* with a receipt of its own, and whoever was deleted is not there when     *)
(* requests are let in.                                                     *)
THEOREM DeletionsLast == Spec => AccountsEnd
<1>1. Typed /\ ReceiptsInv /\ TokensInv => TypeOK /\ DeletedIsGone /\ OneConsumer
  BY DEF Typed, ReceiptsInv, TokensInv
<1>2. Typed /\ ReceiptsInv /\ [Next]_vars
        => [\A p \in People :
              account[p] # None /\ account'[p] # account[p] /\ ~(traffic /\ ~traffic')
                => \E r \in receipts' : r.user = account[p]]_vars
  BY ReceiptsNext DEF EndsWithReceipt
<1>. QED
  BY <1>1, <1>2, AccountsAreSound, PTL DEF Spec, AccountsEnd, ErasedHasReceipt
=============================================================================
