-------------------------- MODULE GatewayResources --------------------------
(***************************************************************************)
(* The operator tools that create and remove the cloud resources of a      *)
(* browser gateway (infra/digitalocean/browser-gateway): the journal of a  *)
(* run (resource-journal.ts), the diagnostics stack                        *)
(* (create-diagnostics-stack.ts), the managed certificate and load         *)
(* balancer (managed-certificate.ts, managed-load-balancer.ts, which       *)
(* follow one protocol) and the cleanup (cleanup-stack.ts).                *)
(*                                                                         *)
(* A run uses one name per kind of resource. Tools are run one after the   *)
(* other; any of them may stop at any point, and the journal file stays.   *)
(***************************************************************************)
EXTENDS Naturals, Sequences, FiniteSets

CONSTANTS Kinds,      \* kinds of resources this run uses
          None,       \* no resource, no kind
          MaxIds,     \* bound: resources the provider ever creates
          MaxCreates, \* bound: times a creating tool is started
          MaxFaults   \* bound: crashes, lost answers and refused requests

GatewayBounds ==
  /\ Kinds \subseteq {"load_balancer", "dns_record", "certificate", "droplet", "firewall",
                      "ssh_key", "tag", "dns_zone"}
  /\ {MaxIds, MaxCreates, MaxFaults} \subseteq Nat

Used(order) == SelectSeq(order, LAMBDA k : k \in Kinds)

\* Faulty: resources are removed in the order in which they are created.
CreationOrder == Used(<<"dns_zone", "tag", "ssh_key", "firewall", "droplet", "certificate",
                        "dns_record", "load_balancer">>)

\* JOURNAL_CLEANUP_ORDER
CleanupOrder == Used(<<"load_balancer", "dns_record", "certificate", "droplet", "firewall",
                       "ssh_key", "tag", "dns_zone">>)
StackOrder == Used(<<"tag", "firewall", "ssh_key", "droplet">>)
Managed == Kinds \cap {"certificate", "load_balancer"}

\* What a resource is used by: a load balancer names its certificate and its
\* droplet, a droplet its key and its tag.
UsedBy(k) ==
  CASE k \in {"certificate", "droplet"} -> {"load_balancer"}
    [] k \in {"ssh_key", "tag"} -> {"droplet"}
    [] OTHER -> {}

VARIABLES
  cloud,   \* id -> what the provider has of it
  journal, \* entries of the journal file, at most one per kind
  op,      \* the tool that is running
  verdict, \* whether the last cleanup said it is complete
  ids, creates, faults

vars == <<cloud, journal, op, verdict, ids, creates, faults>>

Ids == 1..MaxIds
Gone == [kind |-> None, state |-> "absent"]
Idle == [tool |-> None, pc |-> "idle", kind |-> None, id |-> None, rest |-> <<>>]

Init ==
  /\ cloud = [i \in Ids |-> Gone] /\ journal = {} /\ op = Idle /\ verdict = FALSE
  /\ ids = 0 /\ creates = 0 /\ faults = 0

Live == {i \in Ids : cloud[i].kind # None}
LiveOf(k) == {i \in Live : cloud[i].kind = k}
Entry(k) == {e \in journal : e.kind = k}
Open(k) == {e \in Entry(k) : e.cleanup # "deleted"}

Fault == faults < MaxFaults /\ faults' = faults + 1
At(stage) == op' = [op EXCEPT !.pc = stage]
Stop == op' = Idle

\* A tool that fails ends, except that the stack removes what it has made.
Fail ==
  IF op.tool = "stack"
  THEN op' = [Idle EXCEPT !.tool = "undo", !.pc = "next", !.rest = CleanupOrder]
  ELSE Stop

-----------------------------------------------------------------------------
(* createDiagnosticsStack *)
StartStack ==
  /\ op = Idle /\ StackOrder # <<>> /\ creates < MaxCreates
  /\ creates' = creates + 1 /\ verdict' = FALSE
  /\ op' = [Idle EXCEPT !.tool = "stack", !.pc = "create", !.kind = Head(StackOrder),
                        !.rest = Tail(StackOrder)]
  /\ UNCHANGED <<cloud, journal, ids, faults>>

\* Faulty: a managed resource is created without looking for it first.
FirstStepCreating == "create"

\* A managed resource is looked for at the provider before it is created.
FirstStep == "list"

(* ensureManagedCertificate, ensureManagedLoadBalancer: a journaled resource *)
(* is resumed, whatever its cleanup state short of deleted.                *)
StartEnsure(k) ==
  /\ op = Idle /\ creates < MaxCreates
  /\ creates' = creates + 1 /\ verdict' = FALSE
  /\ op' = [Idle EXCEPT !.tool = "ensure", !.kind = k,
       !.pc = IF Open(k) # {} THEN "poll" ELSE FirstStep,
       !.id = IF Open(k) # {} THEN (CHOOSE e \in Open(k) : TRUE).id ELSE None]
  /\ UNCHANGED <<cloud, journal, ids, faults>>

(* cleanupManagedCertificate, cleanupManagedLoadBalancer *)
StartClean(k) ==
  /\ op = Idle /\ creates < MaxCreates
  /\ creates' = creates + 1 /\ verdict' = FALSE
  /\ op' = [Idle EXCEPT !.tool = "clean", !.kind = k,
       !.pc = IF Open(k) # {} THEN "mark" ELSE "list",
       !.id = IF Open(k) # {} THEN (CHOOSE e \in Open(k) : TRUE).id ELSE None]
  /\ UNCHANGED <<cloud, journal, ids, faults>>

(* exactReconciliation, by exact name, before a create, after one whose     *)
(* answer had no identity, and before the cleanup of what is not journaled. *)
Reconcile ==
  /\ op.pc \in {"list", "relist"}
  /\ LET found == LiveOf(op.kind) IN
     CASE found = {} -> IF op.tool = "ensure" /\ op.pc = "list" THEN At("create") ELSE Fail
       [] Cardinality(found) = 1 ->
            op' = [op EXCEPT !.pc = "persist", !.id = CHOOSE i \in found : TRUE]
       [] OTHER -> Fail
  /\ UNCHANGED <<cloud, journal, verdict, ids, creates, faults>>

(* The request that creates a resource. The provider may refuse it; its     *)
(* answer may lack an identity, or get lost.                               *)
Create ==
  /\ op.pc = "create" /\ ids < MaxIds
  /\ \/ /\ ids' = ids + 1
        /\ cloud' = [cloud EXCEPT ![ids + 1] = [kind |-> op.kind, state |-> "new"]]
        /\ \/ op' = [op EXCEPT !.pc = "persist", !.id = ids + 1] /\ UNCHANGED faults
           \/ Fault /\ IF op.kind \in Managed THEN At("relist") ELSE Fail
     \/ Fault /\ Fail /\ UNCHANGED <<cloud, ids>>
  /\ UNCHANGED <<journal, verdict, creates>>

\* Faulty: a second identity may be journaled under one name.
RecordableOver(k) == TRUE

\* recordCreated takes one identity per name, also when it was deleted since.
Recordable(k) == Entry(k) = {}

\* Faulty: the stack is journaled when all of it is there.
JournaledAtTheEnd(e) == IF op.rest = <<>> \/ op.tool # "stack" THEN {e} ELSE {}

Journaled(e) == {e}

(* recordCreated, an atomic replacement of the file. *)
Persist ==
  /\ op.pc = "persist"
  /\ IF Recordable(op.kind)
     THEN /\ journal' = journal \cup
               Journaled([kind |-> op.kind, id |-> op.id, status |-> "new", cleanup |-> "active"])
          /\ CASE op.tool = "clean" -> At("mark")
               [] op.tool = "stack" /\ op.rest # <<>> ->
                    op' = [op EXCEPT !.pc = "create", !.kind = Head(op.rest), !.id = None,
                                     !.rest = Tail(op.rest)]
               [] OTHER -> At("poll")
     ELSE Fail /\ UNCHANGED journal
  /\ UNCHANGED <<cloud, verdict, ids, creates, faults>>

Revised(i, field, state) ==
  {IF e.id = i THEN [e EXCEPT ![field] = state] ELSE e : e \in journal}

(* pollVerified, pollActive, waitForActiveDroplet: until the resource is    *)
(* active, errored or gone, or the time is up.                             *)
Poll ==
  /\ op.pc = "poll"
  /\ LET state == cloud[op.id].state IN
     /\ journal' = IF op.tool = "ensure" /\ op.id \in Live
                   THEN Revised(op.id, "status", state) ELSE journal
     /\ IF state = "active" THEN Stop ELSE Fail
  /\ UNCHANGED <<cloud, verdict, ids, creates, faults>>

-----------------------------------------------------------------------------
(* cleanupJournal over every entry that is not deleted *)
StartSweep ==
  /\ op = Idle /\ ~verdict
  /\ op' = [Idle EXCEPT !.tool = "sweep", !.pc = "next", !.rest = CleanupOrder]
  /\ UNCHANGED <<cloud, journal, verdict, ids, creates, faults>>

NextKind ==
  /\ op.pc = "next"
  /\ IF op.rest = <<>>
     THEN Stop /\ verdict' = (\A e \in journal : e.cleanup = "deleted")
     ELSE /\ UNCHANGED verdict
          /\ IF Open(Head(op.rest)) = {} THEN op' = [op EXCEPT !.rest = Tail(@)]
             ELSE op' = [op EXCEPT !.pc = "mark", !.kind = Head(op.rest), !.rest = Tail(@),
                                   !.id = (CHOOSE e \in Open(Head(op.rest)) : TRUE).id]
  /\ UNCHANGED <<cloud, journal, ids, creates, faults>>

\* markCleanup
Marked(state) == journal' = Revised(op.id, "cleanup", state)

\* What follows one entry: a sweep goes on, also after a failure.
Continue == IF op.tool = "clean" THEN Stop ELSE At("next")

MarkPending ==
  /\ op.pc = "mark" /\ Marked("delete_pending") /\ At("delete")
  /\ UNCHANGED <<cloud, verdict, ids, creates, faults>>

\* The provider keeps a certificate that a load balancer names.
InUse(k) == k = "certificate" /\ LiveOf("load_balancer") # {}

(* deleteResource, which takes a resource that is gone for deleted.        *)
Delete ==
  /\ op.pc = "delete"
  /\ \/ /\ ~InUse(op.kind)
        /\ \/ cloud' = [cloud EXCEPT ![op.id] = Gone]
           \/ op.id \in Live /\ cloud' = [cloud EXCEPT ![op.id].state = "deleting"]
        /\ At("read") /\ UNCHANGED <<journal, faults>>
     \/ /\ InUse(op.kind)
        /\ Marked("delete_failed") /\ Continue /\ UNCHANGED <<cloud, faults>>
     \/ Fault /\ Marked("delete_failed") /\ Continue /\ UNCHANGED cloud
  /\ UNCHANGED <<verdict, ids, creates>>

\* Faulty: an accepted DELETE is taken for an absence.
VerifiedAlways == TRUE

\* Faulty: only a resource that was there can be verified to be absent.
VerifiedHere == op.id \notin Live /\ cloud[op.id].kind = op.kind

\* resourceAbsent: the sweep reads every resource back; the stack only its
\* droplet.
Verified == op.id \notin Live \/ (op.tool = "undo" /\ op.kind # "droplet")

ReadBack ==
  /\ op.pc = "read" /\ Marked(IF Verified THEN "deleted" ELSE "delete_failed") /\ Continue
  /\ UNCHANGED <<cloud, verdict, ids, creates, faults>>

-----------------------------------------------------------------------------
(* The provider *)
Settle(i) ==
  /\ cloud[i].state = "new"
  /\ \E state \in {"active", "errored"} : cloud' = [cloud EXCEPT ![i].state = state]
  /\ UNCHANGED <<journal, op, verdict, ids, creates, faults>>

Vanish(i) ==
  /\ cloud[i].state = "deleting" /\ cloud' = [cloud EXCEPT ![i] = Gone]
  /\ UNCHANGED <<journal, op, verdict, ids, creates, faults>>

(* The tool stops where it is. *)
Crash ==
  /\ op # Idle /\ Fault /\ Stop
  /\ UNCHANGED <<cloud, journal, verdict, ids, creates>>

ToolStep ==
  Reconcile \/ Create \/ Persist \/ Poll \/ NextKind \/ MarkPending \/ Delete \/ ReadBack

Next ==
  \/ StartStack \/ StartSweep \/ ToolStep \/ Crash
  \/ \E k \in Managed : StartEnsure(k) \/ StartClean(k)
  \/ \E i \in Ids : Settle(i) \/ Vanish(i)

Spec == Init /\ [][Next]_vars

\* A tool that was started goes on, the provider finishes deletions, and the
\* operator runs the cleanup until it says it is complete.
Fairness ==
  /\ WF_vars(StartSweep) /\ WF_vars(ToolStep)
  /\ \A i \in Ids : WF_vars(Vanish(i))

LiveSpec == Spec /\ Fairness

-----------------------------------------------------------------------------
(* Properties *)

\* The shape of the journal, with one entry per kind and per identity, and of
\* the tool.
TypeOK ==
  /\ cloud \in [Ids -> [kind : Kinds \cup {None},
       state : {"absent", "new", "active", "errored", "deleting"}]]
  /\ journal \subseteq [kind : Kinds, id : Ids,
       status : {"new", "active", "errored", "deleting"},
       cleanup : {"active", "delete_pending", "deleted", "delete_failed"}]
  /\ \A e, f \in journal : e.kind = f.kind \/ e.id = f.id => e = f
  /\ op \in [tool : {None, "stack", "undo", "ensure", "clean", "sweep"},
       pc : {"idle", "create", "list", "relist", "persist", "poll", "next", "mark", "delete",
             "read"},
       kind : Kinds \cup {None}, id : Ids \cup {None}, rest : Seq(Kinds)]
  /\ verdict \in BOOLEAN
  /\ ids \in 0..MaxIds /\ creates \in 0..MaxCreates /\ faults \in 0..MaxFaults

\* A managed resource is never there twice, through lost answers, crashes
\* between the create and the journal, and tools that are run again.
OnePerName == \A k \in Managed : Cardinality(LiveOf(k)) <= 1

\* The journal says "deleted" only of what the provider no longer has, so that
\* a complete cleanup leaves nothing it has recorded.
DeletedIsAbsent == \A e \in journal : e.cleanup = "deleted" => e.id \notin Live

\* What the provider has and the journal does not is at most one resource for
\* every crash or lost answer, and the one being written down.
FewUnknown ==
  Cardinality(Live \ {e.id : e \in journal})
    <= faults + (IF op.pc \in {"persist", "relist"} THEN 1 ELSE 0)

\* A sweep asks for the deletion of a resource only after it has tried every
\* journaled resource that uses it.
DependentsFirst ==
  op.tool \in {"sweep", "undo"} /\ op.pc = "delete" =>
    \A e \in journal : e.kind \in UsedBy(op.kind) => e.cleanup # "active"

\* An operator who repeats the cleanup ends with everything in the journal
\* deleted, through crashes and deletions that fail or take their time.
SweptInTheEnd == <>[](\A e \in journal : e.cleanup = "deleted")
=============================================================================
