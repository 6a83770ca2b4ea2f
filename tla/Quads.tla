------------------------------- MODULE Quads --------------------------------
(***************************************************************************)
(* What a quadruple reads, writes and leads to: the reading of quad.h that *)
(* generate_code() and the abstract QuadMachine share.  A program is the   *)
(* sequence of the quadruples of quad_list; the number of a quadruple      *)
(* counts from 0, as quad_counter does.                                    *)
(***************************************************************************)
EXTENDS Integers, Sequences

CONSTANTS Symbols,   \* the symbols of the symbol table
          NULL,      \* the null pointer
          Type,      \* the type of each symbol
          Constant,  \* those with the flag `constant'
          Data       \* the word the data section holds for a symbol; for a
                     \*   label constant the number of a quadruple

ArithmeticOps == {"ADD", "SUB", "MUL", "DIV"}
ConditionalOps == {"BE", "BNE", "BLT", "BGT", "BLTE", "BGTE"}
BranchOps == {"B"} \cup ConditionalOps
Ops == {"NOP", "MOVE", "NEG", "PRTI", "PRTF", "PRTS", "RET"}
       \cup ArithmeticOps \cup BranchOps

ASSUME QuadsAssumption ==
  /\ Type \in [Symbols -> {"INT", "FLOAT", "STRING", "MATRIX"}]
  /\ Constant \subseteq Symbols
  /\ NULL \notin Symbols
  /\ DOMAIN Data = Symbols

Operand == Symbols \cup {NULL}
Quad == [op : Ops, res : Operand, op1 : Operand, op2 : Operand]

\* The symbols whose value a quadruple uses, and the one it sets.
Reads(q) ==
  CASE q.op \in {"MOVE", "NEG"} -> {q.op1}
    [] q.op \in ArithmeticOps \cup ConditionalOps -> {q.op1, q.op2}
    [] q.op \in {"PRTI", "PRTF"} -> {q.res}
    [] OTHER -> {}

Writes(q) == IF q.op \in {"MOVE", "NEG"} \cup ArithmeticOps THEN {q.res} ELSE {}

\* The quadruple a branch goes to, when it has a label.
Target(q) == Data[q.res]

Unresolved(q) == q.op \in BranchOps /\ q.res = NULL

\* The type of a temporary is that of its operands, but an assignment and a
\* comparison take operands of any types, and the operators are only said to
\* compute numbers: of other quadruples the result is anybody's guess.
Unspecified(q) ==
  LET types == {Type[s] : s \in Reads(q) \cup Writes(q)}
  IN  \/ \E s, t \in types : s # t
      \/ q.op # "MOVE" /\ ~ types \subseteq {"INT", "FLOAT"}

\* The numbers of the quadruples that may come after number k.
Successors(quads, k) ==
  LET q == quads[k + 1]
  IN  (IF q.op \in BranchOps /\ q.res # NULL THEN {Target(q)} ELSE {})
      \cup (IF q.op \in {"B", "RET"} THEN {} ELSE {k + 1})

Positions(quads) == 0 .. Len(quads) - 1

\* The places where a symbol is mentioned.
Mentions(quads, s) ==
  {k \in Positions(quads) :
     LET q == quads[k + 1] IN s \in {q.res, q.op1, q.op2}}

\* Every branch has a label and it is the number of a quadruple.
WellLabelled(quads) ==
  \A k \in Positions(quads) :
    /\ ~ Unresolved(quads[k + 1])
    /\ Successors(quads, k) \subseteq Positions(quads)

\* `live' says before which quadruples the value of a symbol may still be
\* used: any solution of the equations of data flow will do.
IsLiveness(quads, live) ==
  /\ DOMAIN live = Positions(quads)
  /\ \A k \in Positions(quads) :
       live[k] = Reads(quads[k + 1])
                 \cup ((UNION {live[m] : m \in Successors(quads, k)})
                       \ Writes(quads[k + 1]))
=============================================================================
