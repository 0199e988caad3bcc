----------------------------- MODULE MCExitPool -----------------------------
(* Three paths, two of which share a base name (two strategies), one thread *)
(* more than a path needs, a pool and a lane that are both contended.       *)
EXTENDS ExitPool

CONSTANTS p1, p2, p3, n1, n2

MCNameOf == [p \in {p1, p2, p3} |-> IF p = p3 THEN n2 ELSE n1]
=============================================================================
