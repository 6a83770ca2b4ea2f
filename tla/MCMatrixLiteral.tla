-------------------------- MODULE MCMatrixLiteral ---------------------------
(***************************************************************************)
(* A small instance of MatrixLiteral: matrices of at most three rows and   *)
(* three columns of two distinct numbers, every cell free to be either.    *)
(***************************************************************************)
EXTENDS MatrixLiteral

CONSTANTS one, two

MCFloats == {one, two}
=============================================================================
