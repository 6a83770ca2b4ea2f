--------------------------- MODULE MCSymbolTable ----------------------------
(***************************************************************************)
(* A small instance of SymbolTable: four identifiers, two of which begin   *)
(* with the same 30 characters, and two buckets, so that both hold several *)
(* items.                                                                  *)
(***************************************************************************)
EXTENDS SymbolTable

CONSTANTS a, b, long1, long2, long

MCNames == {a, b, long1, long2}
MCCut == [n \in MCNames |-> IF n \in {long1, long2} THEN long ELSE n]

\* a, the long names and every other temporary and constant share a bucket.
MCDoHash ==
  [k \in Keys |-> IF k[1] # "_" THEN k[2] % 2
                  ELSE IF k[2] = b THEN 1 ELSE 0]
=============================================================================
