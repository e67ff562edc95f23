-------------------------- MODULE MCTimedControlPlane -------------------------
(* Small instances of TimedControlPlane for TLC.                           *)
EXTENDS TimedControlPlane

CONSTANTS c1, c2, n1, n2

OneName == {n1}
TwoNames == {n1, n2}
NoRequests == {}

Symmetry == Permutations({c1, c2}) \cup Permutations({n1, n2})
===============================================================================
