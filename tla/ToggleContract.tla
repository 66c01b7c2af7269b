---------------------------- MODULE ToggleContract ----------------------------
(***************************************************************************)
(* What the links of the results page promise: a result is shown or not,   *)
(* each click on its link asks for one change of that, and the changes     *)
(* that were asked for are all made, one at a time.                        *)
(***************************************************************************)
EXTENDS Naturals

CONSTANT Results

VARIABLES
  shown,    \* shown[r]: whether the result is shown when nothing moves
  pending   \* pending[r]: how many changes are still to be made

vars == <<shown, pending>>

Init ==
  /\ shown = [r \in Results |-> FALSE]
  /\ pending = [r \in Results |-> 0]

Ask(r) ==
  /\ pending' = [pending EXCEPT ![r] = @ + 1]
  /\ UNCHANGED shown

Change(r) ==
  /\ pending[r] > 0
  /\ pending' = [pending EXCEPT ![r] = @ - 1]
  /\ shown' = [shown EXCEPT ![r] = ~ @]

Next == \E r \in Results : Ask(r) \/ Change(r)

\* Weak fairness of Change(r), which is enabled while pending[r] > 0, spelled
\* out: TLC cannot decide whether a step of the contract is enabled in a state
\* of the page.
ChangesAreMade(r) == []<>(pending[r] = 0) \/ []<><<Change(r)>>_vars

Spec == Init /\ [][Next]_vars /\ \A r \in Results : ChangesAreMade(r)
===============================================================================
