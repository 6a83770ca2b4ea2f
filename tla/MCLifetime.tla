----------------------------- MODULE MCLifetime -----------------------------
(***************************************************************************)
(* A small instance of Lifetime: two variables and one constant, and every *)
(* program of at most MaxQuads quadruples over them.                       *)
(***************************************************************************)
EXTENDS Lifetime, TLC

CONSTANTS a, b, k

MCSymbols == {a, b, k}
MCConstant == {k}
MCGarbage == 7

\* The two variables are interchangeable.
Symmetry == Permutations({a, b})
=============================================================================
