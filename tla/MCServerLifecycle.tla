-------------------------- MODULE MCServerLifecycle --------------------------
(* Small instances of ServerLifecycle for TLC. *)
EXTENDS ServerLifecycle, TLC

\* Threads, tenants and names are interchangeable: the code only compares them.
Symmetry == Permutations(Requests) \cup Permutations(Tenants)
FullSymmetry == Symmetry \cup Permutations(Names)
=============================================================================
