---------------------------- MODULE ExtensionTabs ----------------------------
(***************************************************************************)
(* The Chrome extension: which tabs the user shares (the tab group), which *)
(* ones it holds Chrome's debugger on, and what it told the relay.          *)
(*                                                                         *)
(* Every Chrome call is awaited, so popup messages, relay commands, timers *)
(* and Chrome's events interleave between any two of them.                  *)
(***************************************************************************)
EXTENDS Naturals, FiniteSets

CONSTANTS
  Tabs,     \* tabs of the browser
  Created,  \* bound: the ones the relay may have created
  Reasons,  \* bound: reasons Chrome gives for ending an attachment
  None      \* no tab

ExtensionTabsAssumption ==
  /\ IsFiniteSet(Tabs) /\ None \notin Tabs /\ Created \subseteq Tabs
  /\ Reasons \subseteq {"canceled_by_user", "target_closed"}

VARIABLES
  group,       \* tabs in the OpenClaw group: the user's consent
  lease,       \* tabs Chrome has this extension's debugger attached to
  attachedTabs,  \* the ones the extension believes it is attached to
  attachingTabs, \* attachments in flight
  timer,       \* a synchronisation is scheduled
  syncs,       \* the synchronisation in flight: the shared tabs it listed
  popup,       \* what the popup asked for and how far it is
  making,      \* tabs the relay asked to create: how far they are
  detached,    \* events of Chrome that were not handled yet
  recovering,  \* tabs whose lease is being won back after a navigation
  paired,      \* the relay's address and token are stored
  relay,       \* the relay's socket is open
  reported     \* the tabs last reported to the relay

vars == <<group, lease, attachedTabs, attachingTabs, timer, syncs, popup, making,
          detached, recovering, paired, relay, reported>>
tabVars == <<group, lease, attachedTabs, attachingTabs, timer>>
flowVars == <<syncs, popup, making, detached, recovering>>
relayVars == <<paired, relay, reported>>

Idle == [goal |-> "none", tab |-> None, rest |-> {}, cut |-> None]

Init ==
  /\ group = {} /\ lease = {} /\ attachedTabs = {} /\ attachingTabs = {}
  /\ timer = FALSE /\ syncs = {} /\ popup = Idle
  /\ making = [t \in Tabs |-> "no"]
  /\ detached = {} /\ recovering = [t \in Tabs |-> "no"]
  /\ paired = FALSE /\ relay = FALSE /\ reported = {}
-----------------------------------------------------------------------------
(* The user in Chrome.  Every change of a tab or a group is an event that   *)
(* schedules a synchronisation.                                             *)

DragIn(t) ==
  /\ t \notin group
  /\ group' = group \cup {t} /\ timer' = TRUE
  /\ UNCHANGED <<lease, attachedTabs, attachingTabs, flowVars, relayVars>>

(* Faulty: leaving the group is not noticed.                                *)
UnnoticedChange == timer
NoticedChange == TRUE

DragOut(t) ==
  /\ t \in group
  /\ group' = group \ {t} /\ timer' = NoticedChange
  /\ UNCHANGED <<lease, attachedTabs, attachingTabs, flowVars, relayVars>>

(* A tab is closed, by the user or by the relay.                            *)
Close(t) ==
  /\ t \in group \cup lease
  /\ group' = group \ {t} /\ lease' = lease \ {t}
  /\ attachedTabs' = attachedTabs \ {t}
  /\ timer' = TRUE
  /\ UNCHANGED <<attachingTabs, flowVars, relayVars>>

(* Chrome ends an attachment: cancelled by the user, or the page's process  *)
(* was replaced by a navigation.                                            *)
Told(t) == \A reason \in Reasons : <<t, reason>> \notin detached

ChromeDetaches(t, reason) ==
  /\ t \in lease /\ Told(t)
  /\ lease' = lease \ {t}
  /\ detached' = detached \cup {<<t, reason>>}
  /\ UNCHANGED <<group, attachedTabs, attachingTabs, timer, syncs, popup, making,
                 recovering, relayVars>>
-----------------------------------------------------------------------------
(* attachDebugger: the tab is looked up in the group, then Chrome is asked. *)

(* Chrome's answer comes after the events that preceded it.                 *)

(* Faulty: the tab of the popup is attached, whoever asked.                 *)
AttachesPopupTab(t) == t \in group /\ attachingTabs' = attachingTabs \cup {popup.tab}
Attaches(t) == t \in group /\ attachingTabs' = attachingTabs \cup {t}

AttachEnds(t) ==
  /\ t \in attachingTabs /\ Told(t)
  /\ attachingTabs' = attachingTabs \ {t}
  /\ \/ lease' = lease \cup {t} /\ attachedTabs' = attachedTabs \cup {t}
     \/ t \notin lease /\ UNCHANGED <<lease, attachedTabs>>
  /\ UNCHANGED <<group, timer, flowVars, relayVars>>

(* syncTabsToRelay: the group is listed; when Chrome has told whether the   *)
(* tab is attached, leases that are not covered are given up and the relay  *)
(* is told.  It takes milliseconds: the next one starts after it.           *)
SyncTimer ==
  /\ timer /\ syncs = {}
  /\ timer' = FALSE /\ syncs' = {group}
  /\ UNCHANGED <<group, lease, attachedTabs, attachingTabs, popup, making, detached,
                 recovering, relayVars>>

(* Chrome lists the tab as attached, and answers a command on it.           *)
HasOwnedAttachment(t) == t \in lease
Ready(shared) ==
  IF Cardinality(shared) = 1 THEN {t \in shared : HasOwnedAttachment(t)} ELSE {}

(* Faulty: with two shared tabs the leases are forgotten, not given up.     *)
ForgetAll == lease
GiveUpAll == lease \ attachedTabs

Sync(shared) == LET held == (attachedTabs \ shared) \cup Ready(shared) IN
  /\ shared \in syncs
  /\ syncs' = syncs \ {shared}
  /\ IF Cardinality(shared) > 1
     THEN lease' = GiveUpAll /\ attachedTabs' = {}
     ELSE lease' = lease \ (held \ shared) /\ attachedTabs' = held \cap shared
  /\ reported' = IF relay THEN Ready(shared) ELSE {}
  /\ UNCHANGED <<group, attachingTabs, timer, popup, making, detached, recovering,
                 paired, relay>>
-----------------------------------------------------------------------------
(* The popup: one request at a time.  Each starts by giving up the leases   *)
(* of "rest", tab by tab: detach, then ungroup.                             *)

Unshare(t) ==
  /\ popup = Idle /\ t \in group
  /\ popup' = [Idle EXCEPT !.goal = "sync", !.rest = {t}]
  /\ UNCHANGED <<tabVars, syncs, making, detached, recovering, relayVars>>
Share(t) ==
  /\ popup = Idle /\ t \notin group
  /\ popup' = [goal |-> "group", tab |-> t, rest |-> group, cut |-> None]
  /\ UNCHANGED <<tabVars, syncs, making, detached, recovering, relayVars>>
Unpair ==
  /\ popup = Idle /\ paired
  /\ popup' = [Idle EXCEPT !.goal = "unpair", !.rest = group]
  /\ UNCHANGED <<tabVars, syncs, making, detached, recovering, relayVars>>

PopupDetaches(t) ==
  /\ popup.cut = None /\ t \in popup.rest
  /\ lease' = lease \ {t} /\ attachedTabs' = attachedTabs \ {t}
  /\ popup' = [popup EXCEPT !.cut = t]
  /\ UNCHANGED <<group, attachingTabs, timer, syncs, making, detached, recovering,
                 relayVars>>
PopupUngroups ==
  /\ popup.cut # None
  /\ group' = group \ {popup.cut}
  /\ timer' = (timer \/ popup.cut \in group)
  /\ popup' = [popup EXCEPT !.rest = @ \ {popup.cut}, !.cut = None]
  /\ UNCHANGED <<lease, attachedTabs, attachingTabs, syncs, making, detached,
                 recovering, relayVars>>

Proceeds(goal) == popup.goal = goal /\ popup.rest = {} /\ popup.cut = None

PopupGroups ==
  /\ Proceeds("group")
  /\ group' = group \cup {popup.tab} /\ timer' = TRUE
  /\ popup' = [popup EXCEPT !.goal = "attach"]
  /\ UNCHANGED <<lease, attachedTabs, attachingTabs, syncs, making, detached,
                 recovering, relayVars>>
PopupAttaches ==
  /\ Proceeds("attach")
  /\ Attaches(popup.tab)
  /\ popup' = [popup EXCEPT !.goal = "wait"]
  /\ UNCHANGED <<group, lease, attachedTabs, timer, syncs, making, detached,
                 recovering, relayVars>>
(* The attachment succeeded; or it failed and the tab is given back.        *)
PopupShared ==
  /\ Proceeds("wait") /\ popup.tab \notin attachingTabs
  /\ popup.tab \in attachedTabs
  /\ popup' = [Idle EXCEPT !.goal = "sync"]
  /\ UNCHANGED <<tabVars, syncs, making, detached, recovering, relayVars>>
PopupFails ==
  /\ \/ Proceeds("attach") /\ popup.tab \notin group
     \/ Proceeds("wait") /\ popup.tab \notin attachingTabs \cup attachedTabs
  /\ popup' = [Idle EXCEPT !.goal = "undo", !.rest = {popup.tab}]
  /\ UNCHANGED <<tabVars, syncs, making, detached, recovering, relayVars>>
PopupUndone ==
  /\ Proceeds("undo")
  /\ popup' = Idle
  /\ UNCHANGED <<tabVars, syncs, making, detached, recovering, relayVars>>
PopupSyncs ==
  /\ Proceeds("sync") \/ Proceeds("unpair")
  /\ syncs = {} /\ syncs' = {group}
  /\ popup' = IF popup.goal = "sync" THEN Idle ELSE [popup EXCEPT !.goal = "forget"]
  /\ UNCHANGED <<tabVars, making, detached, recovering, relayVars>>
PopupForgets ==
  /\ Proceeds("forget")
  /\ paired' = FALSE /\ relay' = FALSE /\ reported' = {}
  /\ popup' = Idle
  /\ UNCHANGED <<tabVars, syncs, making, detached, recovering>>

Popup ==
  \/ \E t \in Tabs : PopupDetaches(t)
  \/ PopupUngroups \/ PopupGroups \/ PopupAttaches \/ PopupShared \/ PopupFails
  \/ PopupUndone \/ PopupSyncs \/ PopupForgets
-----------------------------------------------------------------------------
(* The relay: connection and commands.                                      *)

Enroll ==
  /\ ~ paired
  /\ paired' = TRUE
  /\ UNCHANGED <<tabVars, flowVars, relay, reported>>
Connect ==
  /\ paired /\ ~ relay
  /\ relay' = TRUE
  /\ reported' = Ready(group)
  /\ attachedTabs' = (attachedTabs \ (IF Cardinality(group) = 1 THEN group ELSE {}))
                       \cup Ready(group)
  /\ UNCHANGED <<group, lease, attachingTabs, timer, flowVars, paired>>
Disconnect ==
  /\ relay
  /\ relay' = FALSE /\ reported' = {}
  /\ UNCHANGED <<tabVars, flowVars, paired>>

(* A command on tab t is carried out.                                       *)
Accepts(t) == relay /\ t \in attachedTabs /\ t \in lease

RelayAttaches(t) ==
  /\ relay /\ t \notin attachingTabs
  /\ Attaches(t)
  /\ UNCHANGED <<group, lease, attachedTabs, timer, flowVars, relayVars>>

(* createTab: create, group, attach, navigate, schedule a synchronisation.  *)
RelayCreates(t) ==
  /\ relay /\ t \in Created \ (group \cup lease) /\ making[t] = "no"
  /\ making' = [making EXCEPT ![t] = "made"]
  /\ UNCHANGED <<tabVars, syncs, popup, detached, recovering, relayVars>>
CreatedIsGrouped(t) ==
  /\ making[t] = "made"
  /\ group' = group \cup {t} /\ timer' = TRUE
  /\ making' = [making EXCEPT ![t] = "grouped"]
  /\ UNCHANGED <<lease, attachedTabs, attachingTabs, syncs, popup, detached,
                 recovering, relayVars>>
CreatedAttaches(t) ==
  /\ making[t] = "grouped"
  /\ \/ Attaches(t) /\ making' = [making EXCEPT ![t] = "attaching"]
     \/ t \notin group /\ making' = [making EXCEPT ![t] = "no"]
        /\ UNCHANGED attachingTabs
  /\ UNCHANGED <<group, lease, attachedTabs, timer, syncs, popup, detached,
                 recovering, relayVars>>
CreatedIsReady(t) ==
  /\ making[t] = "attaching" /\ t \notin attachingTabs
  /\ timer' = (timer \/ t \in attachedTabs)
  /\ making' = [making EXCEPT ![t] = "no"]
  /\ UNCHANGED <<group, lease, attachedTabs, attachingTabs, syncs, popup, detached,
                 recovering, relayVars>>
Creation(t) == CreatedIsGrouped(t) \/ CreatedAttaches(t) \/ CreatedIsReady(t)
-----------------------------------------------------------------------------
(* handleDebuggerDetach and recoverNavigationDebuggerLease.                 *)

(* Faulty: the relay is not told that the lease is gone.                    *)
SilentDetach(t) == reported
ToldDetached(t) == reported \ {t}

HandleDetach(t, reason) == LET shared == t \in group
                               recovers == shared /\ reason = "target_closed" IN
  /\ <<t, reason>> \in detached
  /\ detached' = detached \ {<<t, reason>>}
  /\ attachedTabs' = attachedTabs \ {t}
  /\ reported' = ToldDetached(t)
  /\ recovering' = IF recovers THEN [recovering EXCEPT ![t] = "try"] ELSE recovering
  /\ group' = IF shared /\ ~ recovers THEN group \ {t} ELSE group
  /\ timer' = (timer \/ (shared /\ ~ recovers))
  /\ UNCHANGED <<lease, attachingTabs, syncs, popup, making, paired, relay>>

RecoveryAttaches(t) ==
  /\ recovering[t] = "try" /\ group = {t}
  /\ Attaches(t)
  /\ recovering' = [recovering EXCEPT ![t] = "wait"]
  /\ UNCHANGED <<group, lease, attachedTabs, timer, syncs, popup, making, detached,
                 relayVars>>
RecoverySucceeds(t) ==
  /\ recovering[t] = "wait" /\ t \notin attachingTabs /\ t \in attachedTabs
  /\ recovering' = [recovering EXCEPT ![t] = "no"]
  /\ syncs = {} /\ syncs' = {group}
  /\ UNCHANGED <<tabVars, popup, making, detached, relayVars>>
(* Another tab was shared, another debugger is there or the attempts are    *)
(* used up: the tab leaves the group.                                       *)
RecoveryFails(t) ==
  /\ \/ recovering[t] = "try" /\ group # {t}
     \/ recovering[t] = "wait" /\ t \notin attachingTabs \cup attachedTabs
  /\ recovering' = [recovering EXCEPT ![t] = "no"]
  /\ group' = group \ {t} /\ timer' = TRUE
  /\ UNCHANGED <<lease, attachedTabs, attachingTabs, syncs, popup, making, detached,
                 relayVars>>
Recovery(t) ==
  RecoveryAttaches(t) \/ RecoverySucceeds(t) \/ RecoveryFails(t)

Next ==
  \/ \E t \in Tabs :
       \/ DragIn(t) \/ DragOut(t) \/ Close(t) \/ AttachEnds(t)
       \/ Unshare(t) \/ Share(t)
       \/ RelayAttaches(t) \/ RelayCreates(t) \/ Creation(t) \/ Recovery(t)
       \/ \E reason \in Reasons :
            ChromeDetaches(t, reason) \/ HandleDetach(t, reason)
  \/ SyncTimer \/ Popup \/ Unpair
  \/ \E shared \in SUBSET Tabs : Sync(shared)
  \/ Enroll \/ Connect \/ Disconnect

Spec == Init /\ [][Next]_vars

(* Chrome answers its calls, delivers its events and fires timers.          *)
Fairness ==
  /\ WF_vars(SyncTimer) /\ WF_vars(Popup)
  /\ \A shared \in SUBSET Tabs : WF_vars(Sync(shared))
  /\ \A t \in Tabs :
       /\ WF_vars(AttachEnds(t)) /\ WF_vars(Creation(t)) /\ WF_vars(Recovery(t))
       /\ \A reason \in Reasons :
            WF_vars(HandleDetach(t, reason))
FairSpec == Spec /\ Fairness
-----------------------------------------------------------------------------
(* Properties.                                                              *)

(* Every variable holds a value of its type.                                *)
TypeOK ==
  /\ group \subseteq Tabs /\ lease \subseteq Tabs /\ attachedTabs \subseteq Tabs
  /\ attachingTabs \subseteq Tabs /\ timer \in BOOLEAN /\ syncs \subseteq SUBSET Tabs
  /\ popup \in [goal : {"none", "sync", "group", "attach", "wait", "undo", "unpair",
                        "forget"},
                tab : Tabs \cup {None}, rest : SUBSET Tabs, cut : Tabs \cup {None}]
  /\ making \in [Tabs -> {"no", "made", "grouped", "attaching"}]
  /\ detached \subseteq Tabs \X Reasons
  /\ recovering \in [Tabs -> {"no", "try", "wait"}]
  /\ paired \in BOOLEAN /\ relay \in BOOLEAN /\ reported \subseteq Tabs

(* Some step that ends in a report or an event is still to come.            *)
Unsettled == timer \/ syncs # {} \/ popup # Idle \/ detached # {}

(* The header of background.js: a tab is not reported to the relay unless   *)
(* the extension owns the attachment.  A report that became untrue when a   *)
(* tab closed or Chrome or the popup took the lease is about to be amended. *)
ReportedIsLeased == reported \subseteq lease \/ Unsettled

(* The extension never loses track of a debugger it attached: it stays able *)
(* to give it up.                                                           *)
LeaseIsKnown == lease \subseteq attachedTabs

(* At rest the relay knows of a tab only if it is the one shared tab: two   *)
(* shared tabs are none.                                                    *)
ReportedIsTheSharedTab == reported \in {{}, group} \/ Unsettled

(* A tab that leaves the group disappears from the relay, unless it is      *)
(* shared again.                                                            *)
RelayLearns == \A t \in Tabs : t \notin group ~> (t \notin reported \/ t \in group)
=============================================================================
