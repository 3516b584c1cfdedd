-------------------------- MODULE MCPluginAdmission --------------------------
(* PluginAdmission on small instances.                                       *)
EXTENDS PluginAdmission, TLC

CONSTANTS j1, j2, j3, p1, p2

\* The last job is the only one of profile p2; all others are of p1.
MCProfileOf == [j \in Jobs |-> IF j = j3 THEN p2 ELSE p1]

\* Jobs of one profile are interchangeable.
Symmetry == Permutations({j1, j2})
=============================================================================
