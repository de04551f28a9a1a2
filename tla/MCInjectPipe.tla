---------------------------- MODULE MCInjectPipe ----------------------------
(* A small instance of InjectPipe: two phones, up to three agents.          *)
EXTENDS InjectPipe, TLC

Symmetry == Permutations(Client) \cup Permutations(Target)

=============================================================================
