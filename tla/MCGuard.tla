------------------------------- MODULE MCGuard -------------------------------
(***************************************************************************)
(* Instances of Guard for TLC: the tenant policies an admin may switch     *)
(* between.                                                                *)
(***************************************************************************)
EXTENDS Guard, TLC

\* Everything allowed with a budget of two; then the target is taken off the
\* allowlist after approval.
OpenThenRevoked ==
  {[cap |-> 2, types |-> ActionTypes, targets |-> Targets, autoAllowed |-> TRUE],
   [cap |-> 2, types |-> ActionTypes, targets |-> {}, autoAllowed |-> FALSE]}

OnlyOpen == {[cap |-> 2, types |-> ActionTypes, targets |-> Targets, autoAllowed |-> TRUE]}

\* A cap that an admin lowers while proposals are pending; 0 is the default cap.
ShrinkingCaps ==
  {[cap |-> c, types |-> ActionTypes, targets |-> Targets, autoAllowed |-> FALSE] : c \in {0, 1}}

IDSymmetry == Permutations(ActionIDs) \cup Permutations(Principals) \cup Permutations(Keys)
=============================================================================
