---------------------------- MODULE Publication ----------------------------
(***************************************************************************)
(* What decision reconciliation promises a reader of the inbox: a profile  *)
(* shows the result of one state of its corpus, whole, and a state shown   *)
(* is never replaced by an earlier one.  The corpus changes whenever users *)
(* and ingestion change it; publishing copies it in a single step, as if   *)
(* reading, evaluating and writing took no time.                           *)
(***************************************************************************)
EXTENDS Integers

CONSTANT Profiles
VARIABLES
  corpus,   \* what a decision on a profile would be computed from now
  shown     \* what the decision a profile shows was computed from

Later(old, new) == \A p \in Profiles : old[p].revision <= new[p].revision

Init == \A p \in Profiles : shown[p].revision < corpus[p].revision

Change ==
  /\ Later(corpus, corpus')
  /\ shown' = shown

Publish(p) ==
  /\ shown' = [shown EXCEPT ![p] = corpus[p]]
  /\ Later(shown, shown')
  /\ corpus' = corpus

Next == Change \/ \E p \in Profiles : Publish(p)

Spec == Init /\ [][Next]_<<corpus, shown>>
=============================================================================
