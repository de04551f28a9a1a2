--------------------------- MODULE MCAgentMonitor ---------------------------
(* Small instances of AgentMonitor.                                         *)
EXTENDS AgentMonitor, TLC

(* Every kind of fault, with one end of the service and a new start. *)
BudgetFaults ==
  [console |-> 2, death |-> 1, syscall |-> 1, slow |-> 1, exit |-> 1]

(* For liveness: agents that are spawned connect within the five seconds,  *)
(* everything else may go wrong.                                           *)
BudgetPrompt ==
  [console |-> 1, death |-> 1, syscall |-> 0, slow |-> 0, exit |-> 1]

(* One agent is late once, and nothing else happens. *)
BudgetOneSlow ==
  [console |-> 0, death |-> 0, syscall |-> 0, slow |-> 1, exit |-> 0]

(* Processes are interchangeable, and so are sessions. *)
Symmetry == Permutations(Proc) \cup Permutations(Session)

=============================================================================
