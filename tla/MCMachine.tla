----------------------------- MODULE MCMachine ------------------------------
(***************************************************************************)
(* Small instances of Machine: every program of a few quadruples taken     *)
(* from a menu, then the RET that main() adds.  Two integer variables x    *)
(* and y, two integer constants c and d, a float variable f and constant   *)
(* g, a string constant s and temporary t, and labels.                     *)
(***************************************************************************)
EXTENDS Machine, FiniteSets

CONSTANTS x, y, c, d, f, g, s, t, l0, l1, l2, l3, l4, lost

Variables == {x, y, f, t}
Labels == {l0, l1, l2, l3, l4, lost}
MCSymbols == Variables \cup {c, d, g, s} \cup Labels
MCConstant == MCSymbols \ Variables
MCType == [z \in MCSymbols |->
             CASE z \in {f, g} -> "FLOAT"
               [] z \in {s, t} -> "STRING"
               [] OTHER -> "INT"]
MCData == [z \in MCSymbols |->
             CASE z = l1 -> 1 [] z = l2 -> 2 [] z = l3 -> 3 [] z = l4 -> 4
               [] z = lost -> 7 [] z = c -> 1 [] z = d -> 2 [] z = g -> 3
               [] OTHER -> 0]

\* Words of two bits.
MCJunk == -1
MCWord == {MCJunk} \cup 0 .. 7
MCResult(op, v, w) ==
  IF MCJunk \in {v, w} THEN MCJunk
  ELSE CASE op = "NEG" -> (4 - v) % 4
         [] op = "ADD" -> (v + w) % 4
         [] op = "SUB" -> (v + 4 - w) % 4
         [] OTHER -> (v * w) % 4
MCTaken(op, v, w) ==
  CASE op = "BE" -> v = w
    [] op = "BNE" -> v # w
    [] op = "BLT" -> v < w
    [] op = "BGT" -> v > w
    [] op = "BLTE" -> v <= w
    [] OTHER -> v >= w

Make(op, res, op1, op2) == [op |-> op, res |-> res, op1 |-> op1, op2 |-> op2]
Go(label) == Make("B", label, NULL, NULL)

\* IntegerQuads: results, prints and branches forwards and backwards.
Loops == {Make("MOVE", x, c, NULL), Make("SUB", x, x, d),
          Make("PRTI", x, NULL, NULL), Make("PRTI", d, NULL, NULL),
          Make("BLT", l3, x, d), Make("BE", l0, y, c), Go(l1), Go(l4)}

IntegerQuads == Loops \cup {Make("MOVE", y, x, NULL), Make("NEG", y, x, NULL),
                         Make("PRTI", y, NULL, NULL)}

\* What the types of the operands make of the instructions, and labels that
\* are lost or were never set.
Others == {Make("NOP", NULL, NULL, NULL), Make("MOVE", f, c, NULL),
           Make("MOVE", f, g, NULL), Make("MOVE", x, f, NULL),
           Make("ADD", f, f, g), Make("NEG", t, s, NULL),
           Make("PRTF", f, NULL, NULL), Make("PRTS", s, NULL, NULL),
           Make("PRTS", t, NULL, NULL), Make("BLT", l2, f, g),
           Make("BNE", l2, s, s), Go(NULL), Go(lost)}

RET == Make("RET", NULL, NULL, NULL)

SeqsUpTo(items, n) == UNION {[1 .. m -> items] : m \in 0 .. n}

Programs ==
  {Append(p, RET) : p \in SeqsUpTo(Loops, 4) \cup SeqsUpTo(IntegerQuads, 3)
                          \cup SeqsUpTo(IntegerQuads \cup Others, 2)}

\* The registers the linear scan gives when nothing expired is kept: the
\* symbols in the order of their first mention, the first register that is
\* free.  A symbol it has no register for stays without.
Ranked(program) ==
  LET first(z) == First(Mentions(program, z))
      order(z) == 100 * first(z) + (CASE z \in Labels -> MCData[z]
                     [] z = x -> 11 [] z = y -> 12 [] z = c -> 13
                     [] z = d -> 14 [] z = f -> 15 [] z = g -> 16
                     [] z = s -> 17 [] OTHER -> 18)
      used == {z \in Symbols : Mentions(program, z) # {}}
  IN  [n \in 1 .. Cardinality(used) |->
         CHOOSE z \in used :
           Cardinality({u \in used : order(u) < order(z)}) = n - 1]

FirstFit(program) ==
  LET turn == Ranked(program)
      rank == [z \in Range(turn) |-> CHOOSE n \in DOMAIN turn : turn[n] = z]
      taken(r, n, place) ==
        \E m \in 1 .. n - 1 :
          /\ place[m] = r
          /\ First(Mentions(program, turn[n]))
               <= LastOne(Mentions(program, turn[m]))
      places[n \in 0 .. Len(turn)] ==
        IF n = 0 THEN <<>>
        ELSE LET free == {r \in Registers : ~ taken(r, n, places[n - 1])}
             IN  Append(places[n - 1],
                        IF free = {} THEN REGISTER_NONE
                        ELSE CHOOSE r \in free : \A q \in free : r <= q)
      all == places[Len(turn)]
  IN  [z \in Symbols |-> IF z \in Range(turn) THEN all[rank[z]]
                                              ELSE REGISTER_NONE]

\* Where values may still be used: the equations, iterated from nothing.
Uses(program) ==
  LET n == Len(program)
      known == [k \in Positions(program) |->
                  Successors(program, k) \cap Positions(program)]
      turn[i \in Nat] ==
        IF i = 0 THEN [k \in Positions(program) |-> {}]
        ELSE LET last == turn[i - 1]
             IN  [k \in Positions(program) |->
                    Reads(program[k + 1])
                    \cup ((UNION {last[m] : m \in known[k]})
                          \ Writes(program[k + 1]))]
  IN  turn[n * 2 + 2]

MCInit ==
  \E p \in Programs : StartFrom(p, FirstFit(p), Uses(p))

MCSpec == MCInit /\ [][Next]_vars /\ Fairness

\* Loops that compare nothing, so that no BE loads a label: a variable, the
\* result of a subtraction that is moved to the variable, and gotos.
GotoLoops == {Make("SUB", y, x, d), Make("MOVE", x, y, NULL),
              Make("PRTI", x, NULL, NULL), Go(l0), Go(l1)}

LoopInit ==
  \E p \in {Append(q, RET) : q \in SeqsUpTo(GotoLoops, 4)} :
    StartFrom(p, FirstFit(p), Uses(p))

LoopSpec == LoopInit /\ [][Next]_vars /\ Fairness
=============================================================================
