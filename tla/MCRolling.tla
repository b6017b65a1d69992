------------------------------ MODULE MCRolling ------------------------------
(***************************************************************************)
(* Instances of the rolling update for TLC: one errand that runs once.     *)
(***************************************************************************)
EXTENDS RollingUpdate

OnceSpecs == {[strategy |-> "once", update |-> FALSE, refs |-> {}]}

RollingBudgets(edit, fault, crash, miss) ==
  [edit |-> edit, config |-> 0, touch |-> 0, fault |-> fault, crash |-> crash,
   miss |-> miss, clash |-> 0]

\* rolling: the errand is created; one fault, one crash of the new operator.
RollingBudget == RollingBudgets(1, 1, 1, 0)

\* rolling_lost: no fault and no crash.
LostBudget == RollingBudgets(1, 0, 0, 0)
=============================================================================
