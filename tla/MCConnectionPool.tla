-------------------------- MODULE MCConnectionPool --------------------------
(* Tasks, keys and connections are interchangeable, and the runs of this   *)
(* module check safety only.                                               *)
EXTENDS ConnectionPool, TLC

Symmetry ==
    Permutations(Tasks) \cup Permutations(Keys) \cup Permutations(Connections)
=============================================================================
