----------------------------- MODULE MCBackend ------------------------------
(***************************************************************************)
(* A small instance of Backend: every program of a few quadruples taken    *)
(* from a menu, then the RET that main() adds.                             *)
(***************************************************************************)
EXTENDS Backend

CONSTANTS x, y, c, l0, l3, MaxQuads

Labels == {l0, l3}
MCSymbols == {x, y, c} \cup Labels
MCConstant == {c} \cup Labels
MCType == [z \in MCSymbols |-> "INT"]
MCData == [z \in MCSymbols |-> CASE z = l3 -> 3 [] z = c -> 1 [] OTHER -> 0]
MCSize == [z \in MCSymbols |-> 4]
MCGarbage == 7

\* Words of two bits.
MCJunk == -1
MCWord == {MCJunk} \cup 0 .. 3
MCResult(op, v, w) == IF MCJunk \in {v, w} THEN MCJunk ELSE (v + w) % 4
MCTaken(op, v, w) == IF op = "BE" THEN v = w ELSE v < w

Make(op, res, op1, op2) == [op |-> op, res |-> res, op1 |-> op1, op2 |-> op2]

Menu == {Make("MOVE", x, c, NULL), Make("MOVE", y, x, NULL),
         Make("ADD", y, x, c), Make("PRTI", x, NULL, NULL),
         Make("B", l3, NULL, NULL),
         Make("BLT", l3, x, y), Make("BLT", l0, y, c), Make("BE", l3, x, c)}

RET == Make("RET", NULL, NULL, NULL)

Programs ==
  {Append(p, RET) : p \in UNION {[1 .. m -> Menu] : m \in 0 .. MaxQuads}}

\* Where values may still be used: the equations, iterated from nothing.
Uses(program) ==
  LET known == [k \in Positions(program) |->
                  Successors(program, k) \cap Positions(program)]
      turn[n \in Nat] ==
        IF n = 0 THEN [k \in Positions(program) |-> {}]
        ELSE LET last == turn[n - 1]
             IN  [k \in Positions(program) |->
                    Reads(program[k + 1])
                    \cup ((UNION {last[m] : m \in known[k]})
                          \ Writes(program[k + 1]))]
  IN  turn[Len(program) * 2 + 2]

MCInit == \E p \in Programs : StartBackend(p, Uses(p))

MCSpec == MCInit /\ [][NextStep]_backend /\ WF_backend(NextStep)
=============================================================================
