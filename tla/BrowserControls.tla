--------------------------- MODULE BrowserControls ---------------------------
(***************************************************************************)
(* The switches that keep a browser from being used and everyone who       *)
(* writes them: the settings requests (mutateBrowserControls), the health  *)
(* reconciliation, the acceptance of a capture and the revocation of the   *)
(* gateway assignment.                                                     *)
(*                                                                         *)
(* All but the revocation read a row, change a field of the copy and write *)
(* the whole row back; browserNodes.upsert reads the row once more to      *)
(* refuse or ignore the write, and writes it in a statement of its own.    *)
(* Every read and every write is a step.                                   *)
(***************************************************************************)
EXTENDS Naturals, TLC

CONSTANTS
  Requests,   \* settings requests in progress at a time
  MaxClock    \* bound: time stamps handed out

BrowserControlsAssumption == MaxClock \in Nat

Health == "health"
Acceptor == "acceptor"
Writers == Requests \cup {Health, Acceptor}
Switches == {"user", "source"}

VARIABLES
  control,   \* browser_user_controls and browser_source_controls: enabled
  profile,   \* browser_profile_controls: not disabled
  node,      \* the browser_nodes row
  assigned,  \* the gateway assignment is live
  writer,    \* how far each writer is, and what it is about to write
  asked,     \* history: switches somebody asked to enable
  wish,      \* history: what the last request or revocation made of each switch
  overlapped,\* history: a request or revocation began during another request
  now        \* the time

vars == <<control, profile, node, assigned, writer, asked, wish, overlapped, now>>
wishes == <<wish, overlapped>>
Switching == \E r \in Requests : writer[r].phase \in {"user", "source"}

NoPut == [s \in {} |-> TRUE]
Idle == [phase |-> "idle", put |-> NoPut, enable |-> FALSE,
         control |-> [s \in Switches |-> FALSE],
         row |-> [status |-> "online", disabled |-> TRUE, beat |-> 0, updated |-> 0]]

(* A paired node; nothing has been enabled.                                 *)
Init ==
  /\ control = [s \in Switches |-> FALSE]
  /\ profile = FALSE
  /\ node = [status |-> "online", disabled |-> FALSE, beat |-> 0, updated |-> 0]
  /\ assigned = TRUE
  /\ writer = [w \in Writers |-> Idle]
  /\ asked = {} /\ wish = control /\ overlapped = FALSE
  /\ now = 0

Tick == now < MaxClock /\ now' = now + 1
-----------------------------------------------------------------------------
(* mutateBrowserControls.  A request sets the global switches it names, or  *)
(* the node's, or the profile's; one that names several does so in turn.    *)

(* Faulty: only the switches of the request are written.                    *)
MergedOnlyPut(put) == put
(* Faulty: a switch the request leaves out is taken to be enabled.          *)
MergedWithDefault(put) == put @@ [s \in Switches |-> TRUE]
Merged(put) == put @@ control

ReadControls(r) == \E S \in SUBSET Switches \ {{}} : \E put \in [S -> BOOLEAN] :
  /\ writer[r].phase = "idle"
  /\ writer' = [writer EXCEPT ![r] =
       [Idle EXCEPT !.phase = "user", !.put = put, !.control = Merged(put)]]
  /\ asked' = asked \cup {s \in S : put[s]}
  /\ wish' = put @@ wish /\ overlapped' = (overlapped \/ Switching)
  /\ UNCHANGED <<control, profile, node, assigned, now>>

(* Both switches are written, in two statements.                            *)
WriteUser(r) ==
  /\ writer[r].phase = "user"
  /\ control' = [control EXCEPT !["user"] = writer[r].control["user"]]
  /\ writer' = [writer EXCEPT ![r].phase = "source"]
  /\ UNCHANGED <<profile, node, assigned, asked, now, wishes>>

WriteSource(r) ==
  /\ writer[r].phase = "source"
  /\ control' = [control EXCEPT !["source"] = writer[r].control["source"]]
  /\ writer' = [writer EXCEPT ![r] = Idle]
  /\ UNCHANGED <<profile, node, assigned, asked, now, wishes>>

SwitchNode(r) == \E on \in BOOLEAN :
  /\ writer[r].phase = "idle"
  /\ Tick
  /\ writer' = [writer EXCEPT ![r] = [Idle EXCEPT !.phase = "check", !.enable = on,
       !.row = [node EXCEPT !.disabled = ~ on, !.updated = now']]]
  /\ UNCHANGED <<control, profile, node, assigned, asked, wishes>>

(* A profile that is enabled is selected on the node too.                   *)
SwitchProfile(r) == \E on \in BOOLEAN :
  /\ writer[r].phase = "idle"
  /\ Tick
  /\ profile' = on
  /\ writer' = IF on
       THEN [writer EXCEPT ![r] = [Idle EXCEPT !.phase = "check",
              !.row = [node EXCEPT !.updated = now']]]
       ELSE writer
  /\ asked' = IF on THEN asked \cup {"profile"} ELSE asked
  /\ UNCHANGED <<control, node, assigned, wishes>>
-----------------------------------------------------------------------------
(* The health reconciliation skips disabled nodes; the gateway takes        *)
(* seconds to answer, and the disabled state is the one read before it.     *)
StartInspection ==
  /\ writer[Health].phase = "idle"
  /\ ~ node.disabled
  /\ writer' = [writer EXCEPT ![Health] =
       [Idle EXCEPT !.phase = "inspect", !.row = node]]
  /\ UNCHANGED <<control, profile, node, assigned, asked, now, wishes>>

EndInspection == \E status \in {"online", "offline"} :
  /\ writer[Health].phase = "inspect"
  /\ Tick
  /\ writer' = [writer EXCEPT ![Health].phase = "check",
       ![Health].row = [@ EXCEPT !.status = status, !.beat = now', !.updated = now']]
  /\ UNCHANGED <<control, profile, node, assigned, asked, wishes>>

InspectionFails ==
  /\ writer[Health].phase = "inspect"
  /\ writer' = [writer EXCEPT ![Health] = Idle]
  /\ UNCHANGED <<control, profile, node, assigned, asked, now, wishes>>

(* acceptBrowserCapture stamps the node with the time of the capture.       *)
StampCapture ==
  /\ writer[Acceptor].phase = "idle"
  /\ profile
  /\ Tick
  /\ writer' = [writer EXCEPT ![Acceptor] =
       [Idle EXCEPT !.phase = "check", !.row = [node EXCEPT !.updated = now']]]
  /\ UNCHANGED <<control, profile, node, assigned, asked, wishes>>
-----------------------------------------------------------------------------
(* browserNodes.upsert: a revoked node is not revived, and an older report  *)
(* is ignored.                                                              *)
Revives(row) == node.status = "revoked" /\ row.status # "revoked"
IsOlder(row) ==
  \/ row.beat < node.beat
  \/ row.beat = node.beat /\ row.updated <= node.updated

CheckNode(w) ==
  /\ writer[w].phase = "check"
  /\ writer' = IF Revives(writer[w].row) \/ IsOlder(writer[w].row)
               THEN [writer EXCEPT ![w] = Idle]
               ELSE [writer EXCEPT ![w].phase = "write"]
  /\ UNCHANGED <<control, profile, node, assigned, asked, now, wishes>>

WriteNode(w) ==
  /\ writer[w].phase = "write"
  /\ node' = writer[w].row
  /\ writer' = [writer EXCEPT ![w] = Idle]
  /\ UNCHANGED <<control, profile, assigned, asked, now, wishes>>

(* revokeForUser, one transaction.                                          *)
Revoke ==
  /\ assigned
  /\ Tick
  /\ control' = [s \in Switches |-> FALSE]
  /\ profile' = FALSE
  /\ node' = [node EXCEPT !.status = "revoked", !.disabled = TRUE, !.updated = now']
  /\ assigned' = FALSE
  /\ wish' = control' /\ overlapped' = (overlapped \/ Switching)
  /\ UNCHANGED <<writer, asked>>

Request(r) ==
  \/ ReadControls(r) \/ WriteUser(r) \/ WriteSource(r)
  \/ SwitchNode(r) \/ SwitchProfile(r)

Next ==
  \/ \E r \in Requests : Request(r)
  \/ StartInspection \/ EndInspection \/ InspectionFails \/ StampCapture
  \/ \E w \in Writers : CheckNode(w) \/ WriteNode(w)
  \/ Revoke

Spec == Init /\ [][Next]_vars
-----------------------------------------------------------------------------
(* Properties.                                                              *)

Rows == [status : {"online", "offline", "revoked"}, disabled : BOOLEAN,
         beat : 0 .. MaxClock, updated : 0 .. MaxClock]

(* Every variable holds a value of its type.                                *)
TypeOK ==
  /\ control \in [Switches -> BOOLEAN]
  /\ profile \in BOOLEAN
  /\ node \in Rows
  /\ assigned \in BOOLEAN
  /\ \A w \in Writers :
       /\ writer[w].phase \in {"idle", "user", "source", "inspect", "check", "write"}
       /\ writer[w].row \in Rows
       /\ writer[w].control \in [Switches -> BOOLEAN]
  /\ asked \subseteq Switches \cup {"profile"}
  /\ now \in 0 .. MaxClock

(* The browser is opt-in: whatever overlaps with what, a switch is never on *)
(* that nobody has ever asked to enable.                                    *)
EnabledWasAsked ==
  /\ \A s \in Switches : control[s] => s \in asked
  /\ profile => "profile" \in asked

(* Once no request is under way the switches are what the last request or  *)
(* revocation made of them, unless one began during another: each writes   *)
(* the switches it does not name as it has read them.                      *)
SwitchesAreTheLast == ~Switching /\ ~overlapped => control = wish
=============================================================================
