---------------------------- MODULE MCWorldExports ----------------------------
(* Small instances of WorldExports for TLC. *)
EXTENDS WorldExports, TLC

\* Threads and tenants are interchangeable: the code only compares them.
Symmetry == Permutations(Requests) \cup Permutations(Tenants)
=============================================================================
