------------------------------- MODULE Loops -------------------------------
(***************************************************************************)
(* A loop over the elements of a list, each turn with what the one before  *)
(* has left.                                                               *)
(***************************************************************************)
EXTENDS Integers, Sequences

(* FoldLeft, with each intermediate value bound by a set constructor, so    *)
(* that TLC computes it once.                                              *)
Through(Op(_, _), base, seq) ==
    LET F[n \in 0..Len(seq)] ==
            IF n = 0 THEN base
            ELSE CHOOSE r \in {Op(before, seq[n]) : before \in {F[n - 1]}} : TRUE
    IN  F[Len(seq)]
=============================================================================
