------------------------- MODULE MCConstraintSets -------------------------
(* Two type variables and three constraints, of which one is a scheme; any *)
(* of them may be made once, with any of the variables.                    *)
EXTENDS ConstraintSets

CONSTANTS a, b, k1, k2, k3

MCTypeVar == {a, b}
MCConstraint == {k1, k2, k3}
MCScheme == {k1}
MCInstance == {}
=============================================================================
