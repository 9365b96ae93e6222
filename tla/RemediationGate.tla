--------------------------- MODULE RemediationGate ---------------------------
(***************************************************************************)
(* What the guard promises about one tenant's actions, with everything     *)
(* about clocks, budgets, policies and clusters left out: an action is     *)
(* requested, then authorised, then attempted once, then settled; it may   *)
(* be closed at any time before the attempt, and a closed action is never  *)
(* attempted.                                                              *)
(***************************************************************************)
CONSTANT ActionIDs
VARIABLE gate

Init == gate = [a \in ActionIDs |-> "absent"]

Advance(a, from, to) == gate[a] = from /\ gate' = [gate EXCEPT ![a] = to]

Request(a) == Advance(a, "absent", "pending")
Authorise(a) == Advance(a, "pending", "authorised")
Attempt(a) == Advance(a, "authorised", "attempted")
Settle(a) == Advance(a, "attempted", "settled")

\* A refusal, a rejection, or a sweep that expires several actions at once.
Close(S) ==
  /\ \A a \in S : gate[a] \in {"pending", "authorised"}
  /\ gate' = [a \in ActionIDs |-> IF a \in S THEN "closed" ELSE gate[a]]

Next == \/ \E a \in ActionIDs : Request(a) \/ Authorise(a) \/ Attempt(a) \/ Settle(a)
        \/ \E S \in SUBSET ActionIDs : Close(S)

Spec == Init /\ [][Next]_gate
=============================================================================
