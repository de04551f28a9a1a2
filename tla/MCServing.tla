----------------------------- MODULE MCServing -----------------------------
(* A small instance of Serving.                                             *)
EXTENDS Serving, TLC

(* Panel, service and other programs compete, the service restarts. *)
BudgetAll ==
  [apply |-> 1, start |-> 2, crash |-> 1, other |-> 2, query |-> 1]

=============================================================================
