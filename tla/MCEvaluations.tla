--------------------------- MODULE MCEvaluations ---------------------------
(* Finite instance of Evaluations. *)
EXTENDS Evaluations, TLC

CONSTANTS r1, r2, r3, q1, q2, c1, c2

MCExtras == {<<2, 0>>, <<2, 2>>}

MCSymmetry == Permutations({r1, r2}) \union Permutations({q1, q2})
              \union Permutations({c1, c2})
=============================================================================
