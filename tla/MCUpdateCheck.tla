--------------------------- MODULE MCUpdateCheck ----------------------------
EXTENDS UpdateCheck, TLC

CONSTANTS p1, p2, p3, d1, d2

(* Two checks and the acknowledgement of one release.                      *)
MCRole == [p \in Processes |-> IF p = p3 THEN d1 ELSE "check"]
MCSymmetry == Permutations({p1, p2})
=============================================================================
