------------------------------- MODULE OneTree -------------------------------
(* What the starts of one run are promised about its hooks directory: it   *)
(* is published at most once, is never replaced, and every start is either *)
(* given that one tree or told that it gets none.                          *)
CONSTANT Starts

VARIABLES
  tree,      (* whose tree the run has: "none", a start, or "other"          *)
  verdict    (* per start: "none" yet, the tree it was given, or "denied"    *)

vars == <<tree, verdict>>

Init ==
  /\ tree \in {"none", "other"}
  /\ verdict = [s \in Starts |-> "none"]

Publish(s) ==
  /\ tree = "none" /\ verdict[s] = "none"
  /\ tree' = s
  /\ UNCHANGED verdict

Grant(s) ==
  /\ tree \in Starts /\ verdict[s] = "none"
  /\ verdict' = [verdict EXCEPT ![s] = tree]
  /\ UNCHANGED tree

Deny(s) ==
  /\ verdict[s] = "none"
  /\ verdict' = [verdict EXCEPT ![s] = "denied"]
  /\ UNCHANGED tree

Next == \E s \in Starts : Publish(s) \/ Grant(s) \/ Deny(s)

Spec == Init /\ [][Next]_vars
=============================================================================
