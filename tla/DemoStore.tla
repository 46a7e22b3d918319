----------------------------- MODULE DemoStore -----------------------------
(***************************************************************************)
(* The store of the offline demo (packages/db/src/demo): one SQLite        *)
(* connection and one calendar sidecar in memory, shared by all requests   *)
(* of a process.  Transactions are serialized by a mutex and may suspend   *)
(* between their statements; the repositories a request gets outside a     *)
(* transaction use the same connection and do not take the mutex.          *)
(*                                                                         *)
(* A request is a program of statements, with a suspension after each.     *)
(***************************************************************************)
EXTENDS Naturals, Sequences, SequencesExt, FiniteSets

CONSTANTS Requests,
          KindOf,       \* request -> "run", "capture", "rules", "check" or "hold"
          None,
          MaxFailures,  \* bound on failing statements
          MaxRestarts   \* bound on restarts of the process

DemoBounds ==
  /\ KindOf \in [Requests -> {"run", "capture", "rules", "check", "hold"}]
  /\ None \notin Requests /\ {MaxFailures, MaxRestarts} \subseteq Nat

VARIABLES
  db,        \* rows the connection sees
  disk,      \* rows a restart finds
  side,      \* the calendar sidecar
  saved,     \* what a rollback of the open transaction restores, or None
  queue,     \* requests in the mutex, the holder first
  at,        \* request -> the statement it runs next
  answer,    \* request -> its answer, or None
  committed, \* requests a transaction of which was committed
  failures, restarts

vars == <<db, disk, side, saved, queue, at, answer, committed, failures, restarts>>

Row(what, by) == [what |-> what, by |-> by]
Completion == Row("completion", None)                \* DEMO_COMPLETION_EVENT_ID

-----------------------------------------------------------------------------
(* Statements and programs *)
Do(op, row) == [op |-> op, row |-> row]
Append1(what, r) == Do("append", Row(what, r))       \* fails if the id exists
Put(what) == Do("put", Row(what, None))              \* keeps what exists
Transaction(steps) == <<Do("begin", None)>> \o steps \o <<Do("commit", None)>>

\* captureListing
CaptureSteps(r) ==
  <<Append1("requested", r), Append1("authorized", r)>>
    \o Transaction(<<Put("raw"), Put("job"), Append1("captured", r)>>)

\* Faulty: the completion is recorded before the fixtures are captured.
RunStepsEarly(r) ==
  <<Do("replay", None)>> \o Transaction(<<Do("append", Completion)>>) \o CaptureSteps(r)
    \o Transaction(<<Put("reused")>>) \o <<Do("confirm", None)>>

\* runDemoSearch, with one fixture
RunSteps(r) ==
  <<Do("replay", None)>> \o CaptureSteps(r)
    \o Transaction(<<Put("reused"), Do("append", Completion)>>) \o <<Do("confirm", None)>>

RulesSteps(r) == Transaction(<<Do("rules", None), Append1("saved", r)>>)
CheckSteps(r) == <<Do("check", None)>>

\* A hold is prepared, and approved in a second transaction.
HoldSteps(r) ==
  Transaction(<<Do("hold", None), Put("pending")>>)
    \o Transaction(<<Do("approve", None), Append1("approved", r)>>)

Program(r) ==
  CASE KindOf[r] = "run" -> RunSteps(r)
    [] KindOf[r] = "capture" -> CaptureSteps(r)
    [] KindOf[r] = "rules" -> RulesSteps(r)
    [] KindOf[r] = "check" -> CheckSteps(r)
    [] KindOf[r] = "hold" -> HoldSteps(r)

EmptySidecar == [rules |-> {}, checks |-> {}, hold |-> None]

Init ==
  /\ db = {} /\ disk = {} /\ side = EmptySidecar /\ saved = None /\ queue = <<>>
  /\ at = [r \in Requests |-> 1] /\ answer = [r \in Requests |-> None]
  /\ committed = {} /\ failures = 0 /\ restarts = 0

-----------------------------------------------------------------------------
(* Statements *)
Running(r) == answer[r] = None
Stmt(r) == Program(r)[at[r]]
InTransaction(r) == saved # None /\ queue # <<>> /\ Head(queue) = r
Advance(r) == at' = [at EXCEPT ![r] = @ + 1]
Answer(r, a) == answer' = [answer EXCEPT ![r] = a]
AtEnd(r) == at[r] = Len(Program(r))
Goes(r) == Advance(r) /\ IF AtEnd(r) THEN Answer(r, "done") ELSE UNCHANGED answer
NoFailure == UNCHANGED failures

\* A statement outside a transaction commits by itself, unless the connection
\* is in the transaction of another request.
Writes(rows) ==
  /\ db' = rows
  /\ disk' = IF saved = None THEN rows ELSE disk

\* The sidecar: upsertCurrent, append, insert and transition
Sidecar(r) ==
  CASE Stmt(r).op = "rules" -> [side EXCEPT !.rules = @ \cup {r}]
    [] Stmt(r).op = "check" -> [side EXCEPT !.checks = @ \cup {r}]
    [] Stmt(r).op = "hold" -> [side EXCEPT !.hold = IF @ = None THEN "pending" ELSE @]
    [] Stmt(r).op = "approve" -> [side EXCEPT !.hold = "approved"]

\* Faulty: a transition ignores the state it expects.
RefusedById(r) == Stmt(r).op = "append" /\ Stmt(r).row \in db

\* append: the id must be new; transition: the expected state
Refused(r) ==
  \/ Stmt(r).op = "append" /\ Stmt(r).row \in db
  \/ Stmt(r).op = "approve" /\ side.hold # "pending"

Statement(r) ==
  /\ Running(r) /\ ~Refused(r) /\ NoFailure /\ Goes(r)
  /\ \/ Stmt(r).op \in {"append", "put"} /\ Writes(db \cup {Stmt(r).row}) /\ UNCHANGED side
     \/ Stmt(r).op \in {"rules", "check", "hold", "approve"} /\ side' = Sidecar(r)
        /\ UNCHANGED <<db, disk>>
  /\ UNCHANGED <<saved, queue, committed, restarts>>

\* runFromCompletionEvent
Replay(r) ==
  /\ Running(r) /\ Stmt(r).op \in {"replay", "confirm"} /\ NoFailure
  /\ IF Completion \in db
     THEN Answer(r, IF Stmt(r).op = "replay" THEN "replayed" ELSE "completed") /\ UNCHANGED at
     ELSE IF Stmt(r).op = "replay" THEN Advance(r) /\ UNCHANGED answer
     ELSE Answer(r, "failed") /\ UNCHANGED at
  /\ UNCHANGED <<db, disk, side, saved, queue, committed, restarts>>

-----------------------------------------------------------------------------
(* Transactions *)

\* Faulty: a request enters the mutex again while it waits.
EnqueueAgain(r) ==
  /\ Running(r) /\ Stmt(r).op = "begin" /\ Len(queue) < 2 * Cardinality(Requests)
  /\ queue' = Append(queue, r)
  /\ UNCHANGED <<db, disk, side, saved, at, answer, committed, failures, restarts>>

\* AsyncMutex.run: the operation waits for all that came before it.
Enqueue(r) ==
  /\ Running(r) /\ Stmt(r).op = "begin" /\ ~Contains(queue, r)
  /\ queue' = Append(queue, r)
  /\ UNCHANGED <<db, disk, side, saved, at, answer, committed, failures, restarts>>

Begin(r) ==
  /\ Running(r) /\ Stmt(r).op = "begin" /\ saved = None /\ queue # <<>> /\ Head(queue) = r
  /\ saved' = [db |-> db, side |-> side]
  /\ Advance(r)
  /\ UNCHANGED <<db, disk, side, queue, answer, committed, failures, restarts>>

\* Faulty: the mutex stays with a transaction that has failed.
KeepMutex(failed) == IF failed THEN queue ELSE Tail(queue)

Release(failed) == Tail(queue)

Commit(r) ==
  /\ Running(r) /\ Stmt(r).op = "commit"
  /\ disk' = db /\ saved' = None /\ queue' = Release(FALSE)
  /\ committed' = committed \cup {r} /\ Goes(r) /\ NoFailure
  /\ UNCHANGED <<db, side, restarts>>

\* Faulty: the sidecar is not restored.
RollbackDatabase == db' = saved.db /\ UNCHANGED <<disk, side>>

\* Faulty: the sidecar is reset instead.
RollbackReset == db' = saved.db /\ UNCHANGED disk /\ side' = EmptySidecar

Rollback ==
  /\ db' = saved.db /\ UNCHANGED disk
  /\ side' = saved.side

\* A statement is refused or fails, inside a transaction or outside.
Fail(r) ==
  /\ Running(r) /\ Answer(r, "failed")
  /\ \/ Refused(r) /\ NoFailure
     \/ failures < MaxFailures /\ failures' = failures + 1
        /\ Stmt(r).op \notin {"begin", "replay", "confirm"}
  /\ IF InTransaction(r)
     THEN Rollback /\ saved' = None /\ queue' = Release(TRUE)
     ELSE UNCHANGED <<db, disk, side, saved, queue>>
  /\ UNCHANGED <<at, committed, restarts>>

\* The process ends: an open transaction, the sidecar and all requests are lost.
Restart ==
  /\ restarts < MaxRestarts /\ restarts' = restarts + 1
  /\ db' = disk /\ side' = EmptySidecar /\ saved' = None /\ queue' = <<>>
  /\ answer' = [r \in Requests |-> IF Running(r) /\ at[r] > 1 THEN "lost" ELSE answer[r]]
  /\ UNCHANGED <<disk, at, committed, failures>>

Step(r) == Statement(r) \/ Replay(r) \/ Enqueue(r) \/ Begin(r) \/ Commit(r) \/ Fail(r)

Next == (\E r \in Requests : Step(r)) \/ Restart

Spec == Init /\ [][Next]_vars

\* The event loop runs every continuation.
FairSpec == Spec /\ \A r \in Requests : WF_vars(Step(r))

-----------------------------------------------------------------------------
(* Properties *)

TypeOK ==
  /\ {db, disk} \subseteq SUBSET [what : STRING, by : Requests \cup {None}]
  /\ side.rules \subseteq Requests /\ side.checks \subseteq Requests
  /\ side.hold \in {None, "pending", "approved"}
  /\ IsInjective(queue) /\ committed \subseteq Requests
  /\ at \in [Requests -> 1..20]
  /\ answer \in [Requests -> {None, "done", "replayed", "completed", "failed", "lost"}]

\* Outside a transaction the sidecar and the database tell the same of the
\* rules and of the hold, whichever transactions failed
\* (createDemoRepositoryProvider, "restoring both persistence boundaries").
SidecarAgrees ==
  saved = None /\ restarts = 0 =>
    /\ side.rules = {r \in Requests : Row("saved", r) \in db}
    /\ side.hold # None <=> Row("pending", None) \in db
    /\ side.hold = "approved" <=> \E r \in Requests : Row("approved", r) \in db

\* A hold is approved once (transition, with the state it expects).
HoldApprovedOnce == Cardinality({row \in db : row.what = "approved"}) <= 1

\* What a transaction has committed is never undone, by the failure of another
\* one or by a restart (transaction).
CommittedStays ==
  \A r \in committed :
    /\ KindOf[r] \in {"run", "capture"} => Row("captured", r) \in db
    /\ KindOf[r] = "rules" => Row("saved", r) \in db /\ (restarts = 0 => r \in side.rules)

\* The completion of the demo search is never recorded without the events it
\* summarizes, not even after a restart (runDemoSearch).
CompletionIsWhole ==
  Completion \in disk => {Row("reused", None), Row("raw", None)} \subseteq disk

\* Every request is answered (AsyncMutex).
Answered == \A r \in Requests : <>(answer[r] # None)
=============================================================================
