-------------------------- MODULE MCContextSockets --------------------------
(* Instances of ContextSockets for TLC. Contexts and sockets are           *)
(* interchangeable; threads are not, because one of them is Main.          *)
EXTENDS ContextSockets, TLC

Symmetry == Permutations(Contexts) \cup Permutations(Sockets)

=============================================================================
