---------------------------- MODULE MCLinearScan ----------------------------
(***************************************************************************)
(* Small instances of LinearScan.  The intervals are those of programs: a  *)
(* quadruple mentions at most three symbols, so at most three intervals    *)
(* begin, and at most three end, at one position.  The names of the        *)
(* symbols do not matter, so only inputs whose symbols are numbered by     *)
(* increasing interval are taken.                                          *)
(***************************************************************************)
EXTENDS LinearScan

CONSTANTS MaxSymbols

MCSymbols == 1 .. MaxSymbols

\* Symbol 2 is a matrix of one row and one column, the others are scalars.
MCSize == [s \in MCSymbols |-> IF s = 2 THEN 12 ELSE 4]

NotBefore(p, q) == p[1] < q[1] \/ (p[1] = q[1] /\ p[2] <= q[2])

OfProgram(life) ==
  \A p \in 0 .. MaxPoint :
    /\ Cardinality({s \in Symbols : life[s][1] = p}) <= 3
    /\ Cardinality({s \in Symbols : life[s][2] = p}) <= 3

\* The lives, numbered: the input is built symbol by symbol.
Lives[n \in 0 .. MaxSymbols] ==
  IF n = 0 THEN {<<>>}
  ELSE {Append(f, p) : f \in Lives[n - 1], p \in Interval}
         \cap {g \in [1 .. n -> Interval] : n = 1 \/ NotBefore(g[n - 1], g[n])}

MCInit ==
  \E life \in Lives[MaxSymbols] :
    /\ OfProgram(life)
    /\ InitFrom([s \in Symbols |-> life[s][1]], [s \in Symbols |-> life[s][2]])

MCSpec == MCInit /\ [][Next]_vars
=============================================================================
