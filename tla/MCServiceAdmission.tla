-------------------------- MODULE MCServiceAdmission --------------------------
(* ServiceAdmission on small instances.                                      *)
EXTENDS ServiceAdmission

CONSTANTS j1, j2, p1, p2

\* One job of each profile.
MCProfileOf == [j \in Jobs |-> IF j = j1 THEN p1 ELSE p2]
=============================================================================
