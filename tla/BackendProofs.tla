--------------------------- MODULE BackendProofs ----------------------------
(***************************************************************************)
(* The generated code does what the quadruples say, for programs of any    *)
(* length, any words and any number of registers.                          *)
(*                                                                         *)
(* What is assumed of a program is what the actions of the parser make of  *)
(* any text; what is assumed of the registers is first what Orderly says,  *)
(* then nothing: at the end the passes run one after the other, and what   *)
(* the allocator leaves is enough as long as it spills no value.           *)
(***************************************************************************)
EXTENDS Backend, WellFoundedInduction, FiniteSetTheorems, TLAPS

\* The symbols a program computes with.
ValuesOf(program) ==
  UNION {Reads(program[k + 1]) \cup Writes(program[k + 1]) :
           k \in Positions(program)}

\* What actions.c makes: the operands a quadruple computes with are there, it
\* prints a number with the call for its type (actions.c:276-279), and a
\* symbol that is computed with is not first met as the label of a branch or
\* as the string of a print: labels and literals are constants of their own.
Parsed(program) ==
  /\ program \in Seq(Quad) \ {<<>>}
  /\ ValuesOf(program) \subseteq Symbols
  /\ \A k \in Positions(program) :
       LET q == program[k + 1]
       IN  /\ q.op = "PRTI" => Type[q.res] = "INT"
           /\ q.op = "PRTF" => Type[q.res] = "FLOAT"
           /\ q.op \in LabelOnly /\ q.res \in ValuesOf(program) =>
                \/ q.res \in {q.op1, q.op2}
                \/ \E m \in Mentions(program, q.res) : m < k

Init ==
  \E program \in Seq(Quad) :
    /\ Parsed(program)
    /\ \E allocation \in [Symbols -> Registers \cup {REGISTER_NONE}] :
         \E uses \in [Positions(program) -> SUBSET Symbols] :
           /\ WellLabelled(program) => IsLiveness(program, uses)
           /\ StartFrom(program, allocation, uses)

Spec == Init /\ [][Next]_vars

-----------------------------------------------------------------------------
(***************************************************************************)
(* The invariant.                                                          *)
(***************************************************************************)
Used == ValuesOf(quads)

\* The symbols that are loaded in front of quadruple k.
LoadedAt(k) ==
  LET q == quads[k + 1]
  IN  {s \in Symbols : /\ start_point[s] = k
                       /\ \/ s \in {q.op1, q.op2}
                          \/ s = q.res /\ q.op \notin LabelOnly}

\* What never changes.
Given ==
  /\ Parsed(quads)
  /\ affected_register \in [Symbols -> Registers \cup {REGISTER_NONE}]
  /\ live \in [Positions(quads) -> SUBSET Symbols]
  /\ WellLabelled(quads) => IsLiveness(quads, live)

\* The interval of a symbol goes from its first mention to its last one.
Intervals ==
  \A s \in Symbols :
    /\ start_point[s] \in Mentions(quads, s) \cup {POINT_INIT}
    /\ end_point[s] \in Int
    /\ \A k \in Mentions(quads, s) : start_point[s] <= k /\ k <= end_point[s]
    /\ Mentions(quads, s) # {} => start_point[s] # POINT_INIT
    /\ Mentions(quads, s) = {} => end_point[s] = POINT_INIT

\* The block of quadruple k: n loads, that of res first, then its code.
Translates(block, k, n) ==
  LET body == block.code
      last == Code(quads[k + 1])
  IN  /\ block.label = k
      /\ Len(body) = n + Len(last)
      /\ DOMAIN body = 1 .. n + Len(last)
      /\ \A m \in 1 .. n : \E s \in LoadedAt(k) : body[m] = Load(s)
      /\ \A s \in LoadedAt(k) : \E m \in 1 .. n : body[m] = Load(s)
      /\ \A m \in 2 .. n :
           body[m] \in {Load(quads[k + 1].op1), Load(quads[k + 1].op2)}
      /\ \A m \in 1 .. Len(last) : body[n + m] = last[m]

Translated ==
  /\ quad_counter \in 0 .. Len(quads)
  /\ Len(instructions) = quad_counter
  /\ DOMAIN instructions = 1 .. quad_counter
  /\ \A k \in 0 .. quad_counter - 1 :
       \E n \in Nat : Translates(instructions[k + 1], k, n)

Phases ==
  /\ pc \in {"generate", "crashed", "assemble", "rejected", "run", "exited"}
  /\ pc \notin {"generate", "crashed"} => quad_counter = Len(quads)
  /\ pc \in {"run", "exited"} =>
       \A k \in DOMAIN instructions :
         \A ins \in Range(instructions[k].code) : Assembles(ins)

\* A symbol that is not computed with may have the register of one that is,
\* as long as it is loaded first: no later, and in front of the operands.
GivesWay(t, s) ==
  /\ t \notin Used
  /\ start_point[t] <= start_point[s]
  /\ t \notin {quads[start_point[t] + 1].op1, quads[start_point[t] + 1].op2}

\* Otherwise a symbol that is computed with has its register for itself.
Parted ==
  \A s \in Used : \A t \in Mentioned \ {s} :
    Overlap(s, t) /\ affected_register[s] = affected_register[t]
    /\ affected_register[t] \in Registers => GivesWay(t, s)

\* This is less than Orderly: nothing is asked of the registers of labels.
InOrder == WellLabelled(quads) /\ Parted /\ JumpsKeepLoads /\ LoopTailsQuiet

\* The register of a symbol, and what it holds.
Held(s) == regs[FileOf(s)][affected_register[s]]

\* Past its load and within its interval, or wherever a loop needs it: the
\* register of the symbol is not given to another.
Protected(s) ==
  /\ s \in Used \cap live[at[1]]
  /\ start_point[s] < at[1]
  /\ at[1] <= end_point[s] \/ ~ LoadedAgain(s)

\* Where the registers are in orderly use, those of symbols that do not change
\* hold what memory does, from the load on.
RegistersRight ==
  /\ at[1] \in Positions(quads)
  /\ at[2] \in Nat \ {0}
  /\ pc \in {"run", "exited"} =>
       \A m \in DOMAIN CodeAt :
         m < at[2] =>
           /\ CodeAt[m].opcode = "LOAD"
           /\ CodeAt[m].args[2] \in Used =>
                regs[CodeAt[m].file][CodeAt[m].args[1]]
                  = Data[CodeAt[m].args[2]]
  /\ \A s \in Symbols :
       Protected(s) /\ ~ Written(s) => Held(s) = Data[s]

MachineTypes ==
  /\ regs \in [Files -> [Registers -> Word]]
  /\ at[1] \in 0 .. Len(quads)
  /\ pc \notin {"run", "exited"} => at = <<0, 1>>

IInv ==
  /\ Given
  /\ Intervals
  /\ Translated
  /\ Phases
  /\ MachineTypes
  /\ InOrder => RegistersRight

-----------------------------------------------------------------------------
(***************************************************************************)
(* Lemmas on the ends of intervals.                                        *)
(***************************************************************************)

\* A set of numbers has a least one.
LEMMA Least ==
  ASSUME NEW T \in SUBSET Nat, T # {}
  PROVE  \E x \in T : \A y \in T : x <= y
<1> DEFINE less == OpToRel(<, Nat)
<1>1. IsWellFoundedOn(less, Nat)
  BY NatLessThanWellFounded
<1>2. PICK x \in T : \A y \in T : <<y, x>> \notin less
  <2> HIDE DEF less
  <2> QED
    BY <1>1, WFMin
<1>3. \A y \in T : ~ (y < x)
  BY <1>2 DEF OpToRel
<1> QED
  BY <1>3

\* A set of numbers up to a bound has a greatest one.
LEMMA Greatest ==
  ASSUME NEW N \in Nat, NEW T \in SUBSET (0 .. N), T # {}
  PROVE  \E x \in T : \A y \in T : y <= x
<1>1. PICK below : below = {N - y : y \in T}
  OBVIOUS
<1>2. below \in SUBSET Nat /\ below # {}
  <2>1. \A y \in T : N - y \in Nat
    OBVIOUS
  <2>2. PICK y \in T : N - y \in below
    BY <1>1
  <2> QED
    BY <2>1, <2>2, <1>1
<1>3. PICK d \in below : \A e \in below : d <= e
  BY <1>2, Least
<1>4. PICK x \in T : d = N - x
  BY <1>1, <1>3
<1>5. \A y \in T : N - x <= N - y
  BY <1>1, <1>3, <1>4
<1> QED
  BY <1>5

\* The ends that compute_symbols_lifetime() finds (see Lifetime).
LEMMA EndsAre ==
  ASSUME NEW N \in Nat, NEW places \in SUBSET (0 .. N)
  PROVE  /\ places # {} =>
              /\ First(places) \in places /\ LastOne(places) \in places
              /\ \A k \in places : First(places) <= k /\ k <= LastOne(places)
         /\ places = {} =>
              First(places) = POINT_INIT /\ LastOne(places) = POINT_INIT
<1>1. CASE places = {}
  BY <1>1 DEF First, LastOne
<1>2. CASE places # {}
  <2>1. PICK x \in places : \A y \in places : x <= y
    BY <1>2, Least
  <2>2. First(places) \in places /\ \A k \in places : First(places) <= k
    BY <1>2, <2>1 DEF First
  <2>3. PICK z \in places : \A y \in places : y <= z
    BY <1>2, Greatest
  <2>4. LastOne(places) \in places \cup {POINT_INIT}
        /\ \A k \in places : k <= LastOne(places)
    BY <2>3 DEF LastOne
  <2>5. LastOne(places) # POINT_INIT
    BY <1>2, <2>4 DEF POINT_INIT
  <2> QED
    BY <1>2, <2>2, <2>4, <2>5
<1> QED
  BY <1>1, <1>2

-----------------------------------------------------------------------------
(***************************************************************************)
(* Lemmas on the code of a quadruple.                                      *)
(***************************************************************************)

\* Two pieces of code joined.
LEMMA Joined ==
  ASSUME NEW X, NEW a \in Seq(X), NEW b \in Seq(X), NEW ab, ab = a \o b
  PROVE  /\ ab \in Seq(X)
         /\ Len(ab) = Len(a) + Len(b)
         /\ DOMAIN ab = 1 .. Len(a) + Len(b)
         /\ \A m \in 1 .. Len(a) : ab[m] = a[m]
         /\ \A m \in 1 .. Len(b) : ab[Len(a) + m] = b[m]
<1>1. ab \in Seq(X)
  OBVIOUS
<1>2. Len(ab) = Len(a) + Len(b)
  OBVIOUS
<1>3. DOMAIN ab = 1 .. Len(a) + Len(b)
  OBVIOUS
<1>4. \A m \in 1 .. Len(a) : ab[m] = a[m]
  OBVIOUS
<1>5. \A m \in 1 .. Len(b) : ab[Len(a) + m] = b[m]
  OBVIOUS
<1> QED
  BY <1>1, <1>2, <1>3, <1>4, <1>5

\* What is in two pieces joined is in one of them.
LEMMA JoinedItems ==
  ASSUME NEW X, NEW a \in Seq(X), NEW b \in Seq(X), NEW ab, ab = a \o b
  PROVE  Range(ab) = Range(a) \cup Range(b)
<1>1. /\ DOMAIN ab = 1 .. Len(a) + Len(b)
      /\ \A m \in 1 .. Len(a) : ab[m] = a[m]
      /\ \A m \in 1 .. Len(b) : ab[Len(a) + m] = b[m]
  BY Joined
<1>2. /\ DOMAIN a = 1 .. Len(a) /\ Len(a) \in Nat
      /\ DOMAIN b = 1 .. Len(b) /\ Len(b) \in Nat
  OBVIOUS
<1>3. ASSUME NEW m \in DOMAIN ab
      PROVE  \/ \E n \in DOMAIN a : ab[m] = a[n]
             \/ \E n \in DOMAIN b : ab[m] = b[n]
  <2>1. CASE m <= Len(a)
    BY <2>1, <1>1, <1>2
  <2>2. CASE ~ (m <= Len(a))
    <3>1. m - Len(a) \in 1 .. Len(b) /\ Len(a) + (m - Len(a)) = m
      BY <2>2, <1>1, <1>2
    <3>2. ab[Len(a) + (m - Len(a))] = b[m - Len(a)]
      BY <3>1, <1>1
    <3> QED
      BY <3>1, <3>2, <1>2
  <2> QED
    BY <2>1, <2>2
<1>4. \A n \in DOMAIN a : n \in DOMAIN ab /\ ab[n] = a[n]
  BY <1>1, <1>2
<1>5. \A n \in DOMAIN b : Len(a) + n \in DOMAIN ab /\ ab[Len(a) + n] = b[n]
  BY <1>1, <1>2
<1>6. Range(ab) \subseteq Range(a) \cup Range(b)
  BY <1>3 DEF Range
<1>7. Range(a) \subseteq Range(ab)
  BY <1>4 DEF Range
<1>8. Range(b) \subseteq Range(ab)
  BY <1>5 DEF Range
<1> QED
  BY <1>6, <1>7, <1>8

\* A sequence of one instruction.
LEMMA OneInstruction ==
  ASSUME NEW opcode, NEW file, NEW args, NEW body,
         body = <<Instruction(opcode, file, args)>>
  PROVE  /\ Len(body) = 1 /\ DOMAIN body = 1 .. 1
         /\ body[1].opcode = opcode
         /\ body[1].file = file
         /\ body[1].args = args
  BY DEF Instruction

\* The code by operator.
LEMMA CodeOf ==
  ASSUME NEW q \in Quad
  PROVE  /\ q.op = "MOVE" => Code(q) = MoveCode(q)
         /\ q.op = "NEG" => Code(q) = NegCode(q)
         /\ q.op \in ArithmeticOps => Code(q) = ArithmeticCode(q)
         /\ q.op = "B" => Code(q) = <<Instruction("B", "REG", <<Target(q)>>)>>
         /\ q.op \in ConditionalOps => Code(q) = CompareCode(q)
         /\ q.op = "PRTI" =>
              Code(q) = <<Instruction("PRTI", "REG", <<Register(q.res)>>)>>
         /\ q.op = "PRTF" =>
              Code(q) = <<Instruction("PRTF", "FREG", <<Register(q.res)>>)>>
         /\ q.op = "PRTS" =>
              Code(q) = <<Instruction("PRTS", "REG", <<q.res>>)>>
         /\ q.op \in {"NOP", "RET"} =>
              Code(q) = <<Instruction(q.op, "REG", <<>>)>>
  BY DEF Code, ArithmeticOps, ConditionalOps

\* The code of a quadruple is one instruction, named like its operator, or
\* none, where the operator has none for the type.
LEMMA CodeShape ==
  ASSUME NEW q \in Quad
  PROVE  \/ /\ Code(q) = <<>>
            /\ \/ q.op \in {"NEG"} \cup ArithmeticOps
                  /\ Type[q.res] \notin {"INT", "FLOAT"}
               \/ q.op \in ConditionalOps /\ Type[q.op1] \notin {"INT", "FLOAT"}
         \/ \E file, args : Code(q) = <<Instruction(q.op, file, args)>>
<1>1. q.op \in Ops
  BY DEF Quad
<1>2. CASE q.op = "MOVE"
  BY <1>2, CodeOf DEF MoveCode
<1>3. CASE q.op = "NEG"
  BY <1>3, CodeOf DEF NegCode
<1>4. CASE q.op \in ArithmeticOps
  BY <1>4, CodeOf DEF ArithmeticCode
<1>5. CASE q.op \in ConditionalOps
  BY <1>5, CodeOf DEF CompareCode
<1>6. CASE q.op \in {"B", "PRTI", "PRTF", "PRTS", "NOP", "RET"}
  BY <1>6, CodeOf
<1> QED
  BY <1>1, <1>2, <1>3, <1>4, <1>5, <1>6 DEF Ops, BranchOps

\* A load, or nothing.
LEMMA LoadOrNothing ==
  ASSUME NEW X, NEW condition \in BOOLEAN, NEW s, Load(s) \in X,
         NEW piece, piece = LoadIf(condition, s)
  PROVE  /\ piece \in Seq(X)
         /\ \A n \in DOMAIN piece : condition /\ piece[n] = Load(s)
         /\ condition => \E n \in DOMAIN piece : piece[n] = Load(s)
<1>1. PICK ins \in X : ins = Load(s)
  OBVIOUS
<1>2. CASE condition
  <2>1. piece = <<ins>>
    BY <1>1, <1>2 DEF LoadIf
  <2>2. piece \in Seq(X) /\ DOMAIN piece = 1 .. 1 /\ piece[1] = ins
    BY <2>1
  <2>3. \A n \in DOMAIN piece : n = 1
    BY <2>2
  <2>4. 1 \in DOMAIN piece
    BY <2>2
  <2> QED
    BY <2>2, <2>3, <2>4, <1>1, <1>2
<1>3. CASE ~ condition
  <2>1. piece = <<>>
    BY <1>3 DEF LoadIf
  <2> QED
    BY <2>1, <1>3
<1> QED
  BY <1>2, <1>3

\* The block that the loop pushes: the loads of what is first mentioned here,
\* then the code.
LEMMA BlockTranslates ==
  ASSUME Given, quad_counter \in Positions(quads)
  PROVE  \E n \in Nat :
           Translates([label |-> quad_counter, code |-> Block], quad_counter, n)
<1>1. PICK q : q = Current
  OBVIOUS
<1>2. q = quads[quad_counter + 1] /\ q \in Quad
  <2>1. quad_counter + 1 \in 1 .. Len(quads) /\ quads \in Seq(Quad)
    BY DEF Given, Parsed, Positions
  <2> QED
    BY <2>1, <1>1 DEF Current
<1> DEFINE cRes == LoadedHere(q.res) /\ q.op \notin LabelOnly
           c1 == LoadedHere(q.op1)
           c2 == LoadedHere(q.op2)
<1>3. PICK X : X = {Load(q.res), Load(q.op1), Load(q.op2), Code(q)[1]}
  OBVIOUS
<1>4. PICK a : a = LoadIf(cRes, q.res)
  OBVIOUS
<1>5. PICK b : b = LoadIf(c1, q.op1)
  OBVIOUS
<1>6. PICK c : c = LoadIf(c2, q.op2)
  OBVIOUS
<1>7. cRes \in BOOLEAN /\ c1 \in BOOLEAN /\ c2 \in BOOLEAN
  BY DEF LoadedHere
<1>8. /\ Load(q.res) \in X /\ Load(q.op1) \in X /\ Load(q.op2) \in X
      /\ Code(q)[1] \in X
  BY <1>3
<1> HIDE DEF cRes, c1, c2
<1>9. /\ a \in Seq(X)
      /\ \A n \in DOMAIN a : cRes /\ a[n] = Load(q.res)
      /\ cRes => \E n \in DOMAIN a : a[n] = Load(q.res)
  BY <1>4, <1>7, <1>8, LoadOrNothing
<1>10. /\ b \in Seq(X)
       /\ \A n \in DOMAIN b : c1 /\ b[n] = Load(q.op1)
       /\ c1 => \E n \in DOMAIN b : b[n] = Load(q.op1)
  BY <1>5, <1>7, <1>8, LoadOrNothing
<1>11. /\ c \in Seq(X)
       /\ \A n \in DOMAIN c : c2 /\ c[n] = Load(q.op2)
       /\ c2 => \E n \in DOMAIN c : c[n] = Load(q.op2)
  BY <1>6, <1>7, <1>8, LoadOrNothing
<1>12. PICK ab : ab = a \o b
  OBVIOUS
<1>13. PICK loads : loads = ab \o c
  OBVIOUS
<1>14. a \in Seq(X) /\ b \in Seq(X) /\ c \in Seq(X)
       /\ ab \in Seq(X) /\ loads \in Seq(X)
  <2>1. a \in Seq(X) /\ b \in Seq(X) /\ c \in Seq(X)
    BY <1>9, <1>10, <1>11
  <2>2. ab \in Seq(X)
    BY <2>1, <1>12, Joined
  <2>3. loads \in Seq(X)
    BY <2>1, <2>2, <1>13, Joined
  <2> QED
    BY <2>1, <2>2, <2>3
<1>15. loads = Loads(q)
  <2>1. Loads(q) = (a \o b) \o c
    BY <1>4, <1>5, <1>6 DEF Loads, cRes, c1, c2
  <2> QED
    BY <2>1, <1>12, <1>13
<1>16. /\ Range(ab) = Range(a) \cup Range(b)
       /\ Range(loads) = Range(ab) \cup Range(c)
  <2>1. Range(ab) = Range(a) \cup Range(b)
    BY <1>12, <1>14, JoinedItems, ZenonT(60)
  <2>2. Range(loads) = Range(ab) \cup Range(c)
    BY <1>13, <1>14, JoinedItems, ZenonT(60)
  <2> QED
    BY <2>1, <2>2
<1>17. /\ \A ins \in Range(loads) :
            \/ cRes /\ ins = Load(q.res)
            \/ c1 /\ ins = Load(q.op1)
            \/ c2 /\ ins = Load(q.op2)
       /\ cRes => Load(q.res) \in Range(loads)
       /\ c1 => Load(q.op1) \in Range(loads)
       /\ c2 => Load(q.op2) \in Range(loads)
  <2>1. /\ \A ins \in Range(a) : cRes /\ ins = Load(q.res)
        /\ cRes => Load(q.res) \in Range(a)
    BY <1>9 DEF Range
  <2>2. /\ \A ins \in Range(b) : c1 /\ ins = Load(q.op1)
        /\ c1 => Load(q.op1) \in Range(b)
    BY <1>10 DEF Range
  <2>3. /\ \A ins \in Range(c) : c2 /\ ins = Load(q.op2)
        /\ c2 => Load(q.op2) \in Range(c)
    BY <1>11 DEF Range
  <2> QED
    BY <2>1, <2>2, <2>3, <1>16
<1>18. /\ NULL \notin Symbols
       /\ {q.res, q.op1, q.op2} \subseteq Symbols \cup {NULL}
  BY <1>2, QuadsAssumption DEF Quad, Operand
<1>19. /\ cRes <=> q.res \in Symbols /\ start_point[q.res] = quad_counter
                   /\ q.op \notin LabelOnly
       /\ c1 <=> q.op1 \in Symbols /\ start_point[q.op1] = quad_counter
       /\ c2 <=> q.op2 \in Symbols /\ start_point[q.op2] = quad_counter
  BY <1>18 DEF LoadedHere, cRes, c1, c2
<1>20. PICK n \in Nat : n = Len(loads)
  BY <1>14
<1>21. DOMAIN loads = 1 .. n
  BY <1>14, <1>20
<1>22. Code(q) \in Seq(X)
  <2>1. CASE Code(q) = <<>>
    BY <2>1
  <2>2. ASSUME NEW file, NEW args, Code(q) = <<Instruction(q.op, file, args)>>
        PROVE  Code(q) \in Seq(X)
    <3>1. PICK ins : ins = Instruction(q.op, file, args)
      OBVIOUS
    <3>2. Code(q) = <<ins>>
      BY <2>2, <3>1
    <3>3. ins \in X
      BY <3>2, <1>8
    <3> QED
      BY <3>2, <3>3
  <2> QED
    BY <2>1, <2>2, <1>2, CodeShape
<1>23. PICK last : last = Code(q)
  OBVIOUS
<1>24. PICK body : body = loads \o last
  OBVIOUS
<1>25. /\ Len(body) = n + Len(last)
       /\ DOMAIN body = 1 .. n + Len(last)
       /\ \A m \in 1 .. n : body[m] = loads[m]
       /\ \A m \in 1 .. Len(last) : body[n + m] = last[m]
  BY <1>14, <1>20, <1>22, <1>23, <1>24, Joined
<1>26. PICK block : block = [label |-> quad_counter, code |-> Block]
  OBVIOUS
<1>27. block.label = quad_counter /\ block.code = body
  BY <1>1, <1>15, <1>23, <1>24, <1>26 DEF Block
<1>28. \A m \in 1 .. n : \E s \in LoadedAt(quad_counter) : body[m] = Load(s)
  <2> TAKE m \in 1 .. n
  <2>1. \/ cRes /\ body[m] = Load(q.res)
        \/ c1 /\ body[m] = Load(q.op1)
        \/ c2 /\ body[m] = Load(q.op2)
    <3>1. body[m] \in Range(loads)
      BY <1>21, <1>25 DEF Range
    <3> QED
      BY <3>1, <1>17
  <2> QED
    BY <2>1, <1>2, <1>19 DEF LoadedAt
<1>29. \A s \in LoadedAt(quad_counter) : \E m \in 1 .. n : body[m] = Load(s)
  <2> TAKE s \in LoadedAt(quad_counter)
  <2>1. \/ s = q.res /\ cRes
        \/ s = q.op1 /\ c1
        \/ s = q.op2 /\ c2
    BY <1>2, <1>19 DEF LoadedAt
  <2>2. Load(s) \in Range(loads)
    BY <2>1, <1>17
  <2> QED
    BY <2>2, <1>21, <1>25 DEF Range
<1>30. Len(a) <= 1
  BY <1>4 DEF LoadIf
<1>31. \A m \in 2 .. n : body[m] \in {Load(q.op1), Load(q.op2)}
  <2> TAKE m \in 2 .. n
  <2>1. body[m] = loads[m]
    BY <1>25
  <2>2. /\ Len(a) \in Nat /\ Len(b) \in Nat /\ Len(c) \in Nat
        /\ Len(ab) = Len(a) + Len(b)
        /\ \A l \in 1 .. Len(b) : ab[Len(a) + l] = b[l]
    BY <1>12, <1>14, Joined
  <2>3. /\ Len(loads) = Len(ab) + Len(c)
        /\ \A l \in 1 .. Len(ab) : loads[l] = ab[l]
        /\ \A l \in 1 .. Len(c) : loads[Len(ab) + l] = c[l]
    BY <1>13, <1>14, Joined
  <2>4. DOMAIN b = 1 .. Len(b) /\ DOMAIN c = 1 .. Len(c)
    BY <1>14
  <2>5. CASE m <= Len(ab)
    <3>1. m - Len(a) \in 1 .. Len(b) /\ Len(a) + (m - Len(a)) = m
      BY <2>2, <2>5, <1>30
    <3>2. loads[m] = ab[m]
      BY <2>2, <2>3, <2>5
    <3>3. loads[m] = b[m - Len(a)]
      BY <3>1, <3>2, <2>2
    <3> QED
      BY <3>1, <3>3, <2>1, <2>4, <1>10
  <2>6. CASE ~ (m <= Len(ab))
    <3>1. m - Len(ab) \in 1 .. Len(c) /\ Len(ab) + (m - Len(ab)) = m
      BY <2>2, <2>3, <2>6, <1>20
    <3>2. loads[m] = c[m - Len(ab)]
      BY <3>1, <2>3
    <3> QED
      BY <3>1, <3>2, <2>1, <2>4, <1>11
  <2> QED
    BY <2>5, <2>6
<1>32. Translates(block, quad_counter, n)
  BY <1>2, <1>23, <1>25, <1>27, <1>28, <1>29, <1>31 DEF Translates
<1> QED
  BY <1>26, <1>32

-----------------------------------------------------------------------------
(***************************************************************************)
(* Lemmas on the program and its registers.                                *)
(***************************************************************************)

\* What a quadruple mentions and computes with.
LEMMA QuadAt ==
  ASSUME Given, NEW k \in Positions(quads), NEW q, q = quads[k + 1]
  PROVE  /\ q \in Quad
         /\ Reads(q) \subseteq Used /\ Writes(q) \subseteq Used
         /\ \A s \in Reads(q) \cup Writes(q) : k \in Mentions(quads, s)
         /\ q.op = "PRTI" => Type[q.res] = "INT"
         /\ q.op = "PRTF" => Type[q.res] = "FLOAT"
         /\ k \in Int /\ k >= 0
<1>1. quads \in Seq(Quad) /\ k + 1 \in 1 .. Len(quads) /\ k \in Int /\ k >= 0
  BY DEF Given, Parsed, Positions
<1>2. q \in Quad
  BY <1>1
<1>3. Reads(q) \subseteq Used /\ Writes(q) \subseteq Used
  BY DEF Used, ValuesOf
<1>4. \A s \in Reads(q) \cup Writes(q) : s \in {q.res, q.op1, q.op2}
  <2>1. \A s \in Reads(q) : s \in {q.res, q.op1, q.op2}
    BY DEF Reads, ArithmeticOps, ConditionalOps
  <2>2. \A s \in Writes(q) : s \in {q.res, q.op1, q.op2}
    BY DEF Writes
  <2> QED
    BY <2>1, <2>2
<1>5. \A s \in Reads(q) \cup Writes(q) : k \in Mentions(quads, s)
  BY <1>4 DEF Mentions
<1>6. /\ q.op = "PRTI" => Type[q.res] = "INT"
      /\ q.op = "PRTF" => Type[q.res] = "FLOAT"
  BY DEF Given, Parsed
<1> QED
  BY <1>1, <1>2, <1>3, <1>5, <1>6

\* A symbol that is computed with is mentioned, and starts at its first
\* mention.
LEMMA ValueStarts ==
  ASSUME Given, Intervals, NEW s \in Used
  PROVE  /\ s \in Symbols /\ s \in Mentioned
         /\ start_point[s] \in Mentions(quads, s)
         /\ start_point[s] \in Positions(quads)
         /\ start_point[s] \in Int /\ end_point[s] \in Int
<1>1. PICK k \in Positions(quads) :
             s \in Reads(quads[k + 1]) \cup Writes(quads[k + 1])
  BY DEF Used, ValuesOf
<1>2. k \in Mentions(quads, s)
  BY <1>1, QuadAt
<1>3. s \in Symbols
  BY DEF Given, Parsed, Used
<1>4. start_point[s] \in Mentions(quads, s) /\ end_point[s] \in Int
  BY <1>2, <1>3 DEF Intervals
<1>5. start_point[s] \in Positions(quads) /\ start_point[s] \in Int
  BY <1>4 DEF Mentions, Positions
<1> QED
  BY <1>2, <1>3, <1>4, <1>5 DEF Mentioned

\* It is loaded where it starts.
LEMMA ValueLoaded ==
  ASSUME Given, Intervals, NEW s \in Used
  PROVE  s \in LoadedAt(start_point[s])
<1>1. PICK k : k = start_point[s]
  OBVIOUS
<1>2. PICK q : q = quads[k + 1]
  OBVIOUS
<1>3. /\ s \in Symbols /\ k \in Positions(quads)
      /\ k \in Mentions(quads, s) /\ k \in Int
  BY <1>1, ValueStarts
<1>4. s \in {q.res, q.op1, q.op2}
  BY <1>2, <1>3 DEF Mentions
<1>5. ~ \E m \in Mentions(quads, s) : m < k
  <2>1. \A m \in Mentions(quads, s) : m \in Int /\ k <= m
    BY <1>1, <1>3 DEF Intervals, Mentions, Positions
  <2> QED
    BY <2>1, <1>3
<1>6. q.op \in LabelOnly /\ s = q.res => s \in {q.op1, q.op2}
  BY <1>2, <1>3, <1>5 DEF Given, Parsed, Used
<1> QED
  BY <1>1, <1>2, <1>3, <1>4, <1>6 DEF LoadedAt

\* What is put in a register at k, by a load or by the quadruple, is mentioned
\* there.
LEMMA OverwritesMentioned ==
  ASSUME Given, Intervals, NEW k \in Positions(quads),
         NEW t \in LoadedAt(k) \cup Writes(quads[k + 1])
  PROVE  /\ t \in Overwrites(k) /\ t \in Symbols /\ t \in Mentioned
         /\ k \in Mentions(quads, t)
         /\ start_point[t] <= k /\ k <= end_point[t]
         /\ start_point[t] \in Int /\ end_point[t] \in Int
<1>1. k \in Int /\ k >= 0
  BY DEF Positions
<1>2. CASE t \in LoadedAt(k)
  <2>1. /\ t \in Symbols /\ start_point[t] = k
        /\ t \in {quads[k + 1].res, quads[k + 1].op1, quads[k + 1].op2}
    BY <1>2 DEF LoadedAt
  <2>2. k \in Mentions(quads, t)
    BY <2>1 DEF Mentions
  <2> QED
    BY <2>1, <2>2, <1>1 DEF Mentioned, Overwrites, Intervals
<1>3. CASE t \in Writes(quads[k + 1])
  <2>1. t \in Used /\ k \in Mentions(quads, t)
    BY <1>3, QuadAt
  <2>2. t \in Symbols /\ t \in Mentioned /\ start_point[t] \in Int
    BY <2>1, ValueStarts
  <2> QED
    BY <2>1, <2>2, <1>3 DEF Overwrites, Intervals
<1> QED
  BY <1>2, <1>3

\* A symbol that is loaded or set where a value is mentioned has another
\* register, or gives way.
LEMMA ApartHere ==
  ASSUME Given, Intervals, InOrder, NEW k \in Positions(quads),
         NEW s \in Used, NEW t \in Symbols, s # t,
         k \in Mentions(quads, s), k \in Mentions(quads, t),
         Register(t) \in Registers
  PROVE  affected_register[s] # affected_register[t] \/ GivesWay(t, s)
<1>1. /\ s \in Symbols
      /\ start_point[s] <= k /\ k <= end_point[s]
      /\ start_point[t] <= k /\ k <= end_point[t]
  BY ValueStarts DEF Intervals
<1>2. /\ k \in Int
      /\ start_point[s] \in Int /\ end_point[s] \in Int
      /\ start_point[t] \in Int /\ end_point[t] \in Int
  BY <1>1 DEF Intervals, Mentions, Positions, POINT_INIT
<1>3. Overlap(s, t) /\ t \in Mentioned
  BY <1>1, <1>2 DEF Overlap, Mentioned
<1> QED
  BY <1>3 DEF InOrder, Parted, Register

\* A symbol that is live at a place where it is not mentioned is live at one of
\* the next ones.
LEMMA LiveOn ==
  ASSUME Given, InOrder, NEW k \in Positions(quads), NEW s \in live[k],
         k \notin Mentions(quads, s)
  PROVE  \E e \in Steps : e[1] = k /\ s \in live[e[2]]
<1>1. s \notin Reads(quads[k + 1])
  BY QuadAt
<1>2. IsLiveness(quads, live) /\ Successors(quads, k) \subseteq Positions(quads)
  BY DEF Given, InOrder, WellLabelled
<1>3. PICK m \in Successors(quads, k) : s \in live[m]
  BY <1>1, <1>2 DEF IsLiveness
<1>4. <<k, m>> \in Steps
  BY <1>2 DEF Steps
<1> QED
  BY <1>3, <1>4

\* A protected symbol keeps its register at k: what is put in one there, by a
\* load or by the quadruple, goes to another.
LEMMA Apart ==
  ASSUME Given, Intervals, InOrder, at[1] \in Positions(quads),
         NEW s, Protected(s),
         NEW t \in LoadedAt(at[1]) \cup Writes(quads[at[1] + 1]), s # t,
         Register(t) \in Registers
  PROVE  affected_register[s] # affected_register[t]
<1>1. PICK k \in Positions(quads) : k = at[1]
  OBVIOUS
<1>2. /\ s \in Used /\ s \in live[k] /\ start_point[s] < k
      /\ k <= end_point[s] \/ ~ LoadedAgain(s)
  BY <1>1 DEF Protected
<1>3. /\ s \in Symbols /\ s \in Mentioned
      /\ start_point[s] \in Int /\ end_point[s] \in Int
  BY <1>2, ValueStarts
<1>4. /\ t \in Overwrites(k) /\ t \in Symbols /\ t \in Mentioned
      /\ start_point[t] <= k /\ k <= end_point[t]
      /\ start_point[t] \in Int /\ end_point[t] \in Int
  BY <1>1, OverwritesMentioned
<1>5. k \in Int
  BY DEF Positions
<1>6. CASE k <= end_point[s]
  <2>1. Overlap(s, t)
    BY <1>2, <1>3, <1>4, <1>5, <1>6 DEF Overlap
  <2>2. ~ GivesWay(t, s)
    <3>1. CASE t \in LoadedAt(k)
      <4>1. start_point[t] = k
        BY <3>1 DEF LoadedAt
      <4> QED
        BY <4>1, <1>2, <1>3, <1>5 DEF GivesWay
    <3>2. CASE t \in Writes(quads[k + 1])
      <4>1. t \in Used
        BY <3>2, QuadAt
      <4> QED
        BY <4>1 DEF GivesWay
    <3> QED
      BY <3>1, <3>2, <1>1
  <2> QED
    BY <2>1, <2>2, <1>2, <1>4 DEF InOrder, Parted, Register
<1>7. CASE end_point[s] < k
  <2>1. k \notin Mentions(quads, s)
    BY <1>3, <1>5, <1>7 DEF Intervals
  <2>2. PICK e \in Steps : e[1] = k /\ s \in live[e[2]]
    BY <2>1, <1>2, LiveOn
  <2>3. ~ LoadedAgain(s)
    BY <1>2, <1>3, <1>5, <1>7
  <2> QED
    BY <2>2, <2>3, <1>4, <1>7 DEF InOrder, LoopTailsQuiet
<1> QED
  BY <1>3, <1>5, <1>6, <1>7
-----------------------------------------------------------------------------
(***************************************************************************)
(* Lemmas on what a step leaves alone.                                     *)
(***************************************************************************)

\* The program, its intervals and its registers are as they were.
LEMMA SameInput ==
  ASSUME UNCHANGED input, UNCHANGED live
  PROVE  /\ Given' = Given
         /\ Intervals' = Intervals
         /\ InOrder' = InOrder
         /\ \A s : Written(s)' = Written(s) /\ LoadedAgain(s)' = LoadedAgain(s)
<1>1. /\ quads' = quads /\ start_point' = start_point
      /\ end_point' = end_point /\ affected_register' = affected_register
      /\ live' = live
  BY DEF input
<1>2. Steps' = Steps /\ Mentioned' = Mentioned
  BY <1>1 DEF Steps, Mentioned
<1>3. \A s : Written(s)' = Written(s)
  BY <1>1 DEF Written
<1>4. \A s : LoadedAgain(s)' = LoadedAgain(s)
  BY <1>1, <1>2, <1>3 DEF LoadedAgain
<1>5. \A k : Overwrites(k)' = Overwrites(k)
  BY <1>1, <1>2 DEF Overwrites
<1>6. Given' = Given
  BY <1>1 DEF Given
<1>7. Intervals' = Intervals
  BY <1>1 DEF Intervals
<1>8. Parted' = Parted
  BY <1>1, <1>2 DEF Parted, Overlap, GivesWay, Used
<1>9. JumpsKeepLoads' = JumpsKeepLoads
  BY <1>1, <1>2, <1>3 DEF JumpsKeepLoads
<1>10. LoopTailsQuiet' = LoopTailsQuiet
  BY <1>1, <1>2, <1>4, <1>5 DEF LoopTailsQuiet
<1>11. InOrder' = InOrder
  BY <1>1, <1>8, <1>9, <1>10 DEF InOrder
<1> QED
  BY <1>3, <1>4, <1>6, <1>7, <1>11

\* A block means what it did.
LEMMA SameTranslation ==
  ASSUME UNCHANGED input, NEW block, NEW k, NEW n
  PROVE  Translates(block, k, n)' = Translates(block, k, n)
<1>1. \A s : Load(s)' = Load(s)
  BY DEF Load, input
<1>2. \A q : Code(q)' = Code(q)
  BY DEF Code, MoveCode, NegCode, ArithmeticCode, CompareCode, Register, input
<1>3. LoadedAt(k)' = LoadedAt(k)
  BY DEF LoadedAt, input
<1> QED
  BY <1>1, <1>2, <1>3 DEF Translates, input

\* The code is as it was.
LEMMA SameCode ==
  ASSUME UNCHANGED input, UNCHANGED <<instructions, quad_counter>>
  PROVE  Translated' = Translated
BY SameTranslation DEF Translated, input

-----------------------------------------------------------------------------
(***************************************************************************)
(* The invariant holds at the start, and while the code is written.        *)
(***************************************************************************)

\* Nothing has been generated, and nothing runs.
Untouched ==
  /\ instructions = <<>>
  /\ quad_counter = 0
  /\ pc = "generate"
  /\ regs = [file \in Files |-> [r \in Registers |-> Junk]]
  /\ at = <<0, 1>>
  /\ printed = NULL

\* Nothing is past its load.
LEMMA StartIInv ==
  ASSUME Given, Intervals, Untouched
  PROVE  IInv
<1>1. quads \in Seq(Quad) /\ Len(quads) \in Nat /\ Len(quads) # 0
  BY DEF Given, Parsed
<1>2. Translated
  BY <1>1 DEF Untouched, Translated
<1>3. Phases
  BY DEF Untouched, Phases
<1>4. MachineTypes
  <2>1. regs \in [Files -> [Registers -> Word]]
    BY MachineAssumption DEF Untouched
  <2> QED
    BY <2>1, <1>1 DEF Untouched, MachineTypes
<1>5. RegistersRight
  <2>1. at[1] = 0 /\ at[2] = 1
    BY DEF Untouched
  <2>2. at[1] \in Positions(quads)
    BY <2>1, <1>1 DEF Positions
  <2>3. \A s \in Symbols : ~ Protected(s)
    <3> SUFFICES ASSUME NEW s \in Symbols, Protected(s)
                 PROVE  FALSE
      OBVIOUS
    <3>1. start_point[s] \in Positions(quads)
      BY ValueStarts DEF Protected
    <3> QED
      BY <3>1, <2>1, <1>1 DEF Protected, Positions
  <2> QED
    BY <2>1, <2>2, <2>3 DEF Untouched, RegistersRight
<1> QED
  BY <1>2, <1>3, <1>4, <1>5 DEF IInv

\* Every variable has its value.
LEMMA InitIInv == Init => IInv /\ Untouched
<1> SUFFICES ASSUME NEW program \in Seq(Quad), Parsed(program),
                    NEW allocation \in [Symbols -> Registers \cup {REGISTER_NONE}],
                    NEW uses \in [Positions(program) -> SUBSET Symbols],
                    WellLabelled(program) => IsLiveness(program, uses),
                    StartFrom(program, allocation, uses)
             PROVE  IInv /\ Untouched
  BY DEF Init
<1>1. /\ quads = program /\ affected_register = allocation /\ live = uses
      /\ start_point = [s \in Symbols |-> First(Mentions(program, s))]
      /\ end_point = [s \in Symbols |-> LastOne(Mentions(program, s))]
      /\ instructions = <<>> /\ quad_counter = 0 /\ pc = "generate"
      /\ regs = [file \in Files |-> [r \in Registers |-> Junk]]
      /\ at = <<0, 1>>
  BY DEF StartFrom, InitFrom
<1>2. quads \in Seq(Quad) /\ Len(quads) \in Nat /\ Len(quads) # 0
  BY <1>1 DEF Parsed
<1>3. Given
  BY <1>1 DEF Given
<1>4. Intervals
  <2> SUFFICES ASSUME NEW s \in Symbols
               PROVE  /\ start_point[s] \in Mentions(quads, s) \cup {POINT_INIT}
                      /\ end_point[s] \in Int
                      /\ \A k \in Mentions(quads, s) :
                           start_point[s] <= k /\ k <= end_point[s]
                      /\ Mentions(quads, s) # {} => start_point[s] # POINT_INIT
                      /\ Mentions(quads, s) = {} => end_point[s] = POINT_INIT
    BY DEF Intervals
  <2>1. PICK places : places = Mentions(quads, s)
    OBVIOUS
  <2>2. /\ places \in SUBSET (0 .. Len(quads))
        /\ \A k \in places : k \in Int /\ k >= 0
    BY <2>1, <1>2 DEF Mentions, Positions
  <2>3. start_point[s] = First(places) /\ end_point[s] = LastOne(places)
    BY <1>1, <2>1
  <2>4. /\ places # {} =>
             /\ First(places) \in places /\ LastOne(places) \in places
             /\ \A k \in places : First(places) <= k /\ k <= LastOne(places)
        /\ places = {} =>
             First(places) = POINT_INIT /\ LastOne(places) = POINT_INIT
    BY <2>2, <1>2, EndsAre
  <2> QED
    BY <2>1, <2>2, <2>3, <2>4 DEF POINT_INIT
<1>5. Untouched
  BY DEF StartFrom, InitFrom, Untouched
<1> QED
  BY <1>3, <1>4, <1>5, StartIInv

\* What the processor has done is as it was.
LEMMA SameMachine ==
  ASSUME IInv, UNCHANGED input, UNCHANGED machine,
         pc \notin {"run", "exited"}, Translated', Phases'
  PROVE  /\ MachineTypes'
         /\ (InOrder => RegistersRight)'
<1>1. /\ quads' = quads /\ start_point' = start_point
      /\ end_point' = end_point /\ affected_register' = affected_register
      /\ live' = live /\ regs' = regs /\ at' = at
  BY DEF input, machine
<1>2. at = <<0, 1>>
  BY DEF IInv, MachineTypes
<1>3. MachineTypes'
  BY <1>1, <1>2 DEF IInv, MachineTypes
<1>4. ASSUME InOrder'
      PROVE  RegistersRight'
  <2>1. RegistersRight
    BY <1>1, <1>4, SameInput DEF IInv, input
  <2>2. \A s \in Symbols :
          Protected(s)' = Protected(s) /\ Written(s)' = Written(s)
    <3>1. \A s : Written(s)' = Written(s) /\ LoadedAgain(s)' = LoadedAgain(s)
      BY <1>1, SameInput
    <3> QED
      BY <3>1, <1>1 DEF Protected, Used
  <2>3. \A s \in Symbols : Held(s)' = Held(s)
    BY <1>1 DEF Held
  <2>4. ASSUME pc' \in {"run", "exited"}
        PROVE  \A m \in DOMAIN CodeAt' : m \in Int /\ m >= 1
    <3>1. quad_counter' = Len(quads) /\ Len(quads) \in Nat /\ Len(quads) # 0
      BY <2>4, <1>1 DEF Phases, IInv, Given, Parsed
    <3>2. PICK n \in Nat : Translates(instructions[1], 0, n)'
      BY <3>1 DEF Translated
    <3>3. CodeAt' = instructions[1].code'
      BY <1>1, <1>2 DEF CodeAt
    <3>4. PICK last : last = Code(quads[1])'
      OBVIOUS
    <3>5. DOMAIN (instructions[1].code') = 1 .. n + Len(last)
      BY <3>2, <3>4 DEF Translates
    <3> QED
      BY <3>3, <3>5
  <2>5. at' = <<0, 1>>
    BY <1>1, <1>2
  <2>6. \A s \in Symbols :
          (Protected(s) /\ ~ Written(s))' => (Held(s) = Data[s])'
    BY <2>1, <2>2, <2>3 DEF RegistersRight
  <2> QED
    BY <2>1, <2>4, <2>5, <2>6, <1>1 DEF RegistersRight
<1> QED
  BY <1>3, <1>4
\* The code is written block by block, and nothing runs.
LEMMA GenerateStep == IInv /\ Generate => IInv'
<1> SUFFICES ASSUME IInv, Generate
             PROVE  IInv'
  OBVIOUS
<1>1. UNCHANGED input /\ UNCHANGED machine /\ UNCHANGED live
      /\ pc = "generate" /\ pc \notin {"run", "exited"}
  BY DEF Generate, Crash, GenerateQuad, Generated, machine
<1>2. Given' /\ Intervals'
  BY <1>1, SameInput DEF IInv
<1>3. Len(quads) \in Nat /\ quads' = quads
  BY <1>1 DEF IInv, Given, Parsed, input
<1>4. Translated' /\ Phases'
  <2>1. CASE Crash \/ Generated
    <3>1. UNCHANGED <<instructions, quad_counter>>
      BY <2>1 DEF Crash, Generated
    <3>2. Translated'
      BY <3>1, <1>1, SameCode DEF IInv
    <3>3. Phases'
      BY <2>1, <3>1, <1>3 DEF Crash, Generated, Phases, IInv
    <3> QED
      BY <3>2, <3>3
  <2>2. CASE GenerateQuad
    <3>1. PICK k : k = quad_counter
      OBVIOUS
    <3>2. PICK block : block = [label |-> quad_counter, code |-> Block]
      OBVIOUS
    <3>3. /\ instructions' = Append(instructions, block)
          /\ quad_counter' = k + 1
          /\ k < Len(quads) /\ pc' = pc
      BY <2>2, <3>1, <3>2 DEF GenerateQuad
    <3>4. /\ k \in Nat /\ k \in Positions(quads)
          /\ Len(instructions) = k /\ DOMAIN instructions = 1 .. k
          /\ \A m \in 0 .. k - 1 :
               \E n \in Nat : Translates(instructions[m + 1], m, n)
      BY <3>1, <3>3, <1>3 DEF IInv, Translated, Positions
    <3>5. PICK n \in Nat : Translates(block, k, n)
      BY <3>1, <3>2, <3>4, BlockTranslates DEF IInv
    <3>6. \A b, m, l : Translates(b, m, l)' = Translates(b, m, l)
      BY <1>1, SameTranslation
    <3>7. /\ Len(instructions') = k + 1 /\ DOMAIN instructions' = 1 .. k + 1
          /\ instructions'[k + 1] = block
          /\ \A m \in 1 .. k : instructions'[m] = instructions[m]
      BY <3>3, <3>4
    <3>8. ASSUME NEW m \in 0 .. k
          PROVE  \E l \in Nat : Translates(instructions'[m + 1], m, l)
      <4>1. CASE m = k
        BY <4>1, <3>5, <3>7
      <4>2. CASE m # k
        <5>1. m \in 0 .. k - 1 /\ m + 1 \in 1 .. k
          BY <4>2, <3>4
        <5>2. instructions'[m + 1] = instructions[m + 1]
          BY <5>1, <3>7
        <5> QED
          BY <5>1, <5>2, <3>4
      <4> QED
        BY <4>1, <4>2
    <3>9. Translated'
      <4>1. quad_counter' \in 0 .. Len(quads')
        BY <3>3, <3>4, <1>3
      <4>2. (k + 1) - 1 = k
        BY <3>4
      <4> QED
        BY <4>1, <4>2, <3>3, <3>6, <3>7, <3>8 DEF Translated
    <3>10. Phases'
      BY <1>1, <3>3 DEF Phases
    <3> QED
      BY <3>9, <3>10
  <2> QED
    BY <2>1, <2>2 DEF Generate
<1>5. MachineTypes' /\ (InOrder => RegistersRight)'
  BY <1>1, <1>4, SameMachine
<1> QED
  BY <1>2, <1>4, <1>5 DEF IInv

\* Only what the assembler takes runs.
LEMMA AssembleStep == IInv /\ Assemble => IInv'
<1> SUFFICES ASSUME IInv, Assemble
             PROVE  IInv'
  OBVIOUS
<1>1. UNCHANGED input /\ UNCHANGED machine /\ UNCHANGED live
      /\ UNCHANGED <<instructions, quad_counter>>
      /\ pc = "assemble" /\ pc \notin {"run", "exited"}
  BY DEF Assemble, machine
<1>2. Given' /\ Intervals' /\ Translated'
  BY <1>1, SameInput, SameCode DEF IInv
<1>3. Phases'
  <2>1. quad_counter = Len(quads) /\ quads' = quads
    BY <1>1 DEF IInv, Phases, input
  <2>2. \A ins : Assembles(ins)' = Assembles(ins)
    BY <1>1 DEF Assembles, LabelsOf, Labelled
  <2> QED
    BY <2>1, <2>2, <1>1 DEF Assemble, Phases
<1>4. MachineTypes' /\ (InOrder => RegistersRight)'
  BY <1>1, <1>2, <1>3, SameMachine
<1> QED
  BY <1>2, <1>3, <1>4 DEF IInv

-----------------------------------------------------------------------------
(***************************************************************************)
(* Lemmas on the instruction that comes next.                              *)
(***************************************************************************)

\* The one instruction of a quadruple, by operator.
LEMMA CodeFields ==
  ASSUME NEW q \in Quad, NEW ins, Code(q) = <<ins>>
  PROVE  /\ ins.opcode = q.op
         /\ q.op \in {"MOVE", "NEG"} =>
              /\ ins.file = FileOf(q.res)
              /\ ins.args = <<Register(q.res), Register(q.op1)>>
         /\ q.op \in ArithmeticOps =>
              /\ ins.file = FileOf(q.res)
              /\ ins.args = <<Register(q.res), Register(q.op1), Register(q.op2)>>
         /\ q.op = "B" => ins.args = <<Target(q)>>
         /\ q.op \in ConditionalOps =>
              /\ ins.file = FileOf(q.op1)
              /\ ins.args = <<Register(q.op1), Register(q.op2), Target(q)>>
              /\ Type[q.op1] \in {"INT", "FLOAT"}
         /\ q.op = "PRTI" => ins.file = "REG" /\ ins.args = <<Register(q.res)>>
         /\ q.op = "PRTF" => ins.file = "FREG" /\ ins.args = <<Register(q.res)>>
         /\ q.op = "PRTS" => ins.args = <<q.res>>
<1>1. q.op \in Ops
  BY DEF Quad
<1>2. \A opcode, file, args :
        <<ins>> = <<Instruction(opcode, file, args)>> =>
          ins.opcode = opcode /\ ins.file = file /\ ins.args = args
  BY DEF Instruction
<1>3. <<ins>> # <<>>
  OBVIOUS
<1>4. CASE q.op = "MOVE"
  <2>1. <<ins>> = <<Instruction("MOVE", FileOf(q.res),
                              <<Register(q.res), Register(q.op1)>>)>>
    BY <1>4, CodeOf DEF MoveCode
  <2>2. /\ ins.opcode = "MOVE" /\ ins.file = FileOf(q.res)
        /\ ins.args = <<Register(q.res), Register(q.op1)>>
    BY <2>1, <1>2
  <2> QED
    BY <2>2, <1>4 DEF ArithmeticOps, ConditionalOps
<1>5. CASE q.op = "NEG"
  <2>1. <<ins>> = NegCode(q)
    BY <1>5, CodeOf
  <2>2. <<ins>> = <<Instruction("NEG", FileOf(q.res),
                              <<Register(q.res), Register(q.op1)>>)>>
    BY <2>1, <1>3 DEF NegCode
  <2>3. /\ ins.opcode = "NEG" /\ ins.file = FileOf(q.res)
        /\ ins.args = <<Register(q.res), Register(q.op1)>>
    BY <2>2, <1>2
  <2> QED
    BY <2>3, <1>5 DEF ArithmeticOps, ConditionalOps
<1>6. CASE q.op \in ArithmeticOps
  <2>1. <<ins>> = ArithmeticCode(q)
    BY <1>6, CodeOf
  <2>2. <<ins>> = <<Instruction(q.op, FileOf(q.res),
                    <<Register(q.res), Register(q.op1), Register(q.op2)>>)>>
    BY <2>1, <1>3 DEF ArithmeticCode
  <2>3. /\ ins.opcode = q.op /\ ins.file = FileOf(q.res)
        /\ ins.args = <<Register(q.res), Register(q.op1), Register(q.op2)>>
    BY <2>2, <1>2
  <2> QED
    BY <2>3, <1>6 DEF ArithmeticOps, ConditionalOps
<1>7. CASE q.op = "B"
  <2>1. <<ins>> = <<Instruction("B", "REG", <<Target(q)>>)>>
    BY <1>7, CodeOf
  <2>2. ins.opcode = "B" /\ ins.args = <<Target(q)>>
    BY <2>1, <1>2
  <2> QED
    BY <2>2, <1>7 DEF ArithmeticOps, ConditionalOps
<1>8. CASE q.op \in ConditionalOps
  <2>1. <<ins>> = CompareCode(q)
    BY <1>8, CodeOf
  <2>2. /\ Type[q.op1] \in {"INT", "FLOAT"}
        /\ <<ins>> = <<Instruction(q.op, FileOf(q.op1),
                       <<Register(q.op1), Register(q.op2), Target(q)>>)>>
    BY <2>1, <1>3 DEF CompareCode
  <2>3. /\ ins.opcode = q.op /\ ins.file = FileOf(q.op1)
        /\ ins.args = <<Register(q.op1), Register(q.op2), Target(q)>>
    BY <2>2, <1>2
  <2> QED
    BY <2>2, <2>3, <1>8 DEF ArithmeticOps, ConditionalOps
<1>9. CASE q.op = "PRTI"
  <2>1. <<ins>> = <<Instruction("PRTI", "REG", <<Register(q.res)>>)>>
    BY <1>9, CodeOf
  <2>2. /\ ins.opcode = "PRTI" /\ ins.file = "REG"
        /\ ins.args = <<Register(q.res)>>
    BY <2>1, <1>2
  <2> QED
    BY <2>2, <1>9 DEF ArithmeticOps, ConditionalOps
<1>10. CASE q.op = "PRTF"
  <2>1. <<ins>> = <<Instruction("PRTF", "FREG", <<Register(q.res)>>)>>
    BY <1>10, CodeOf
  <2>2. /\ ins.opcode = "PRTF" /\ ins.file = "FREG"
        /\ ins.args = <<Register(q.res)>>
    BY <2>1, <1>2
  <2> QED
    BY <2>2, <1>10 DEF ArithmeticOps, ConditionalOps
<1>11. CASE q.op = "PRTS"
  <2>1. <<ins>> = <<Instruction("PRTS", "REG", <<q.res>>)>>
    BY <1>11, CodeOf
  <2>2. ins.opcode = "PRTS" /\ ins.args = <<q.res>>
    BY <2>1, <1>2
  <2> QED
    BY <2>2, <1>11 DEF ArithmeticOps, ConditionalOps
<1>12. CASE q.op \in {"NOP", "RET"}
  <2>1. <<ins>> = <<Instruction(q.op, "REG", <<>>)>>
    BY <1>12, CodeOf
  <2>2. ins.opcode = q.op
    BY <2>1, <1>2
  <2> QED
    BY <2>2, <1>12 DEF ArithmeticOps, ConditionalOps
<1> QED
  BY <1>1, <1>4, <1>5, <1>6, <1>7, <1>8, <1>9, <1>10, <1>11, <1>12
     DEF Ops, BranchOps

\* A load.
LEMMA LoadFields ==
  ASSUME NEW s, NEW ins, ins = Load(s)
  PROVE  /\ ins.opcode = "LOAD" /\ ins.file = FileOf(s)
         /\ ins.args = <<affected_register[s], s>>
         /\ ins.args[1] = affected_register[s] /\ ins.args[2] = s
BY DEF Load, Instruction

\* The processor is at a quadruple, and at its block.
LEMMA AtBlock ==
  ASSUME IInv, Running
  PROVE  /\ at[1] \in Positions(quads)
         /\ at[1] + 1 \in DOMAIN instructions
         /\ Len(instructions) = Len(quads)
         /\ \E n \in Nat : Translates(instructions[at[1] + 1], at[1], n)
<1>1. /\ quad_counter = Len(quads) /\ Len(quads) \in Nat
      /\ Len(instructions) = quad_counter
      /\ DOMAIN instructions = 1 .. quad_counter
      /\ at[1] \in 0 .. Len(quads) /\ at[1] < Len(instructions)
  BY DEF IInv, Phases, Running, Translated, MachineTypes, Given, Parsed
<1>2. at[1] \in 0 .. quad_counter - 1 /\ at[1] \in Positions(quads)
  BY <1>1 DEF Positions
<1> QED
  BY <1>1, <1>2 DEF IInv, Translated

\* It is a load, with loads in front of it only, or the code of the quadruple,
\* with every load in front of it.
LEMMA Fetches ==
  ASSUME IInv, Running, at[2] \in DOMAIN CodeAt,
         NEW k, k = at[1], NEW p, p = at[2],
         NEW q, q = quads[k + 1], NEW ins, ins = Fetched
  PROVE  /\ ins.opcode # "LOAD" \/ \E s \in LoadedAt(k) : ins = Load(s)
         /\ ins.opcode = "LOAD" =>
              /\ \A m \in DOMAIN CodeAt :
                   m < p => \E s \in LoadedAt(k) : CodeAt[m] = Load(s)
              /\ p # 1 => ins \in {Load(q.op1), Load(q.op2)}
              /\ p = Len(CodeAt) =>
                   /\ Code(q) = <<>>
                   /\ \A s \in LoadedAt(k) :
                        \E m \in DOMAIN CodeAt : CodeAt[m] = Load(s)
         /\ ins.opcode # "LOAD" =>
              /\ p = Len(CodeAt)
              /\ Code(q) = <<ins>>
              /\ \A s \in LoadedAt(k) :
                   \E m \in DOMAIN CodeAt : m < p /\ CodeAt[m] = Load(s)
         /\ k \in Positions(quads) /\ q \in Quad /\ p \in Nat \ {0}
         /\ p <= Len(CodeAt) /\ Len(CodeAt) \in Nat
         /\ DOMAIN CodeAt = 1 .. Len(CodeAt)
         /\ Assembles(ins)
<1>1. PICK body : body = CodeAt
  OBVIOUS
<1>2. /\ k \in Positions(quads) /\ k + 1 \in DOMAIN instructions
      /\ q \in Quad
  BY AtBlock, QuadAt DEF IInv
<1>3. PICK n \in Nat : Translates(instructions[k + 1], k, n)
  BY AtBlock
<1>4. PICK last : last = Code(q)
  OBVIOUS
<1>5. /\ Len(body) = n + Len(last)
      /\ DOMAIN body = 1 .. n + Len(last)
      /\ \A m \in 1 .. n : \E s \in LoadedAt(k) : body[m] = Load(s)
      /\ \A s \in LoadedAt(k) : \E m \in 1 .. n : body[m] = Load(s)
      /\ \A m \in 2 .. n : body[m] \in {Load(q.op1), Load(q.op2)}
      /\ \A m \in 1 .. Len(last) : body[n + m] = last[m]
  BY <1>1, <1>3, <1>4 DEF Translates, CodeAt
<1>6. ins = body[p] /\ p \in DOMAIN body
  BY <1>1 DEF Fetched
<1>7. \/ last = <<>>
      \/ \E file, args : last = <<Instruction(q.op, file, args)>>
  BY <1>2, <1>4, CodeShape
<1>8. Len(last) \in {0, 1}
  BY <1>7
<1>9. Assembles(ins)
  <2>1. ins \in Range(instructions[k + 1].code)
    BY <1>1, <1>6 DEF Range, CodeAt
  <2> QED
    BY <2>1, <1>2 DEF IInv, Phases, Running
<1>10. CASE p <= n
  <2>1. \E s \in LoadedAt(k) : ins = Load(s)
    BY <1>5, <1>6, <1>8, <1>10
  <2>2. ins.opcode = "LOAD"
    BY <2>1, LoadFields
  <2>3. \A m \in DOMAIN body :
          m < p => \E s \in LoadedAt(k) : body[m] = Load(s)
    <3> TAKE m \in DOMAIN body
    <3> HAVE m < p
    <3>1. m \in 1 .. n
      BY <1>5, <1>6, <1>8, <1>10
    <3> QED
      BY <3>1, <1>5
  <2>4. ASSUME p = Len(body)
        PROVE  /\ last = <<>>
               /\ \A s \in LoadedAt(k) : \E m \in DOMAIN body : body[m] = Load(s)
    <3>1. Len(last) = 0
      BY <2>4, <1>5, <1>8, <1>10
    <3>2. last = <<>>
      BY <3>1, <1>7
    <3>3. 1 .. n \subseteq DOMAIN body
      BY <3>1, <1>5
    <3> QED
      BY <3>2, <3>3, <1>5
  <2>5. /\ p \in Nat \ {0} /\ p <= Len(body) /\ Len(body) \in Nat
        /\ DOMAIN body = 1 .. Len(body)
    BY <1>5, <1>6, <1>8
  <2>6. p # 1 => ins \in {Load(q.op1), Load(q.op2)}
    <3>1. p # 1 => p \in 2 .. n
      BY <2>5, <1>10
    <3> QED
      BY <3>1, <1>5, <1>6
  <2> QED
    BY <2>1, <2>2, <2>3, <2>4, <2>5, <2>6, <1>1, <1>2, <1>4, <1>9
<1>11. CASE ~ (p <= n)
  <2>1. Len(last) = 1 /\ p = n + 1 /\ Len(body) = p
    BY <1>5, <1>6, <1>8, <1>11
  <2>2. last = <<last[1]>> /\ last[1] = ins
    <3>1. last[1] = ins
      BY <2>1, <1>5, <1>6
    <3>2. last # <<>>
      BY <2>1
    <3>3. PICK file, args : last = <<Instruction(q.op, file, args)>>
      BY <3>2, <1>7
    <3> QED
      BY <3>1, <3>3
  <2>3. ins.opcode = q.op
    BY <2>2, <1>2, <1>4, CodeFields
  <2>4. ins.opcode # "LOAD"
    BY <2>3, <1>2 DEF Quad, Ops, BranchOps, ArithmeticOps, ConditionalOps
  <2>5. \A s \in LoadedAt(k) : \E m \in DOMAIN body : m < p /\ body[m] = Load(s)
    <3> TAKE s \in LoadedAt(k)
    <3>1. PICK m \in 1 .. n : body[m] = Load(s)
      BY <1>5
    <3>2. m \in DOMAIN body /\ m < p
      BY <2>1, <1>5
    <3> QED
      BY <3>1, <3>2
  <2>6. /\ p \in Nat \ {0} /\ p <= Len(body) /\ Len(body) \in Nat
        /\ DOMAIN body = 1 .. Len(body)
    BY <2>1, <1>5
  <2> QED
    BY <2>1, <2>2, <2>4, <2>5, <2>6, <1>1, <1>2, <1>4, <1>9
<1> QED
  BY <1>10, <1>11

-----------------------------------------------------------------------------
(***************************************************************************)
(* Lemmas on the registers.                                                *)
(***************************************************************************)

\* An instruction that was assembled names registers that are there.
LEMMA Named ==
  ASSUME IInv, NEW ins, Assembles(ins), NEW n \in DOMAIN ins.args,
         NEW s \in Symbols, ins.args[n] = Register(s)
  PROVE  Register(s) \in Registers
<1>1. ins.args[n] # REGISTER_NONE
  BY DEF Assembles, Range
<1> QED
  BY <1>1 DEF IInv, Given, Register

\* What a register holds is a word.
LEMMA HoldsWord ==
  ASSUME IInv, NEW file \in Files, NEW r \in Registers
  PROVE  regs[file][r] \in Word
BY DEF IInv, MachineTypes

\* Data is words.
LEMMA DataWord ==
  ASSUME NEW s \in Symbols
  PROVE  Data[s] \in Word
BY MachineAssumption

\* A register takes a word.
LEMMA PutWord ==
  ASSUME IInv, NEW file, NEW r, NEW word \in Word,
         regs' = [regs EXCEPT ![file][r] = word]
  PROVE  regs' \in [Files -> [Registers -> Word]]
BY DEF IInv, MachineTypes

\* The register holds what was put in it.
LEMMA PutThere ==
  ASSUME IInv, UNCHANGED input, NEW t, Register(t) \in Registers, NEW word,
         regs' = [regs EXCEPT ![FileOf(t)][Register(t)] = word]
  PROVE  Held(t)' = word
<1>1. FileOf(t) \in Files /\ FileOf(t)' = FileOf(t)
  BY DEF FileOf, Files
<1>2. affected_register' = affected_register
  BY DEF input
<1> QED
  BY <1>1, <1>2 DEF IInv, MachineTypes, Held, Register

\* Another register holds what it did.
LEMMA PutElsewhere ==
  ASSUME IInv, UNCHANGED input, NEW s \in Symbols, NEW t, NEW word,
         affected_register[s] # affected_register[t],
         regs' = [regs EXCEPT ![FileOf(t)][Register(t)] = word]
  PROVE  Held(s)' = Held(s)
<1>1. FileOf(s) \in Files /\ FileOf(s)' = FileOf(s)
  BY DEF FileOf, Files
<1>2. affected_register' = affected_register
  BY DEF input
<1> QED
  BY <1>1, <1>2 DEF IInv, MachineTypes, Held, Register

\* What nobody puts anything in holds what it did.
LEMMA NothingPut ==
  ASSUME UNCHANGED input, UNCHANGED regs, NEW s
  PROVE  Held(s)' = Held(s)
BY DEF Held, input

\* The file is the type's.
LEMMA SameFile ==
  ASSUME NEW s, NEW t, Type[s] = Type[t]
  PROVE  FileOf(s) = FileOf(t)
BY DEF FileOf

\* The place behind an instruction.
LEMMA BehindIs ==
  ASSUME NEW k, k = at[1], NEW p, p = at[2], NEW n, n = Len(CodeAt),
         p \in Nat, n \in Nat, p <= n
  PROVE  /\ p = n => Behind = <<k + 1, 1>>
         /\ p # n => Behind = <<k, p + 1>>
BY DEF Behind

\* The first parts of the invariant outlive every step of the processor.
LEMMA RunKeeps ==
  ASSUME IInv, Running, UNCHANGED <<input, instructions, quad_counter, live>>,
         pc' \in {"run", "exited"}, regs' \in [Files -> [Registers -> Word]],
         at'[1] \in 0 .. Len(quads)
  PROVE  Given' /\ Intervals' /\ Translated' /\ Phases' /\ MachineTypes'
<1>1. /\ UNCHANGED input /\ UNCHANGED live /\ quads' = quads
      /\ UNCHANGED <<instructions, quad_counter>>
  BY DEF input
<1>2. Given' /\ Intervals' /\ Translated'
  BY <1>1, SameInput, SameCode DEF IInv
<1>3. Phases'
  <2>1. /\ quad_counter = Len(quads)
        /\ \A k \in DOMAIN instructions :
             \A ins \in Range(instructions[k].code) : Assembles(ins)
    BY DEF IInv, Phases, Running
  <2>2. \A ins : Assembles(ins)' = Assembles(ins)
    BY <1>1 DEF Assembles, LabelsOf, Labelled
  <2> QED
    BY <2>1, <2>2, <1>1 DEF Phases
<1>4. MachineTypes'
  BY <1>1 DEF MachineTypes
<1> QED
  BY <1>2, <1>3, <1>4

\* A symbol that was loaded here is in its register.
LEMMA IsLoaded ==
  ASSUME IInv, InOrder, Running, NEW s \in LoadedAt(at[1]) \cap Used,
         \E m \in DOMAIN CodeAt : m < at[2] /\ CodeAt[m] = Load(s)
  PROVE  Held(s) = Data[s]
<1>1. PICK m \in DOMAIN CodeAt : m < at[2] /\ CodeAt[m] = Load(s)
  OBVIOUS
<1>2. CodeAt[m].args[2] \in Used =>
        regs[CodeAt[m].file][CodeAt[m].args[1]] = Data[CodeAt[m].args[2]]
  BY <1>1 DEF IInv, RegistersRight, Running
<1>3. PICK ins : ins = CodeAt[m]
  OBVIOUS
<1>4. /\ ins.file = FileOf(s) /\ ins.args[1] = affected_register[s]
      /\ ins.args[2] = s
  BY <1>1, <1>3, LoadFields
<1> QED
  BY <1>2, <1>3, <1>4 DEF Held

\* When the loads are done the operands are in their registers.
LEMMA OperandsThere ==
  ASSUME IInv, InOrder, Running, NEW k, k = at[1], NEW q, q = quads[k + 1],
         NEW s \in Reads(q),
         \A t \in LoadedAt(k) :
           \E m \in DOMAIN CodeAt : m < at[2] /\ CodeAt[m] = Load(t)
  PROVE  /\ s \in Symbols /\ s \in live[k]
         /\ Cell(s) = Held(s)
<1>1. k \in Positions(quads) /\ k \in Int
  BY AtBlock DEF Positions
<1>2. s \in Used /\ k \in Mentions(quads, s)
  BY <1>1, QuadAt DEF IInv
<1>3. /\ s \in Symbols /\ start_point[s] \in Int /\ end_point[s] \in Int
      /\ start_point[s] <= k /\ k <= end_point[s]
  BY <1>2, ValueStarts DEF IInv, Intervals
<1>4. s \in live[k]
  BY <1>1 DEF IInv, Given, InOrder, IsLiveness
<1>5. CASE start_point[s] = k
  <2>1. s \in LoadedAt(k)
    BY <1>2, <1>5, ValueLoaded DEF IInv
  <2>2. Held(s) = Data[s]
    BY <2>1, <1>2, IsLoaded
  <2> QED
    BY <2>2, <1>3, <1>4, <1>5 DEF Cell
<1>6. CASE start_point[s] # k
  <2>1. Protected(s)
    BY <1>1, <1>2, <1>3, <1>4, <1>6 DEF Protected
  <2>2. ~ Written(s) => Held(s) = Data[s]
    BY <2>1, <1>3 DEF IInv, RegistersRight
  <2> QED
    BY <2>2, <1>1, <1>3, <1>4, <1>6 DEF Cell, Held
<1> QED
  BY <1>5, <1>6

-----------------------------------------------------------------------------
(***************************************************************************)
(* From one quadruple to the next.                                         *)
(***************************************************************************)

\* The heart of the proof: whoever leaves a quadruple having loaded what is
\* first mentioned there, and having changed no protected register but that of
\* the result, finds all that is still to be used in its place, also behind a
\* jump into an interval or back in front of one.
LEMMA Leave ==
  ASSUME IInv, InOrder, Running, UNCHANGED input, UNCHANGED live,
         UNCHANGED <<instructions, quad_counter>>,
         NEW k, k = at[1], NEW q, q = quads[k + 1],
         NEW m \in Successors(quads, k), at' = <<m, 1>>,
         \A s \in (LoadedAt(k) \cap Used) \ Writes(q) : Held(s)' = Data[s],
         \A s \in Symbols \ Writes(q) : Protected(s) => Held(s)' = Held(s)
  PROVE  /\ m \in Positions(quads)
         /\ \A s \in live[m] \ Writes(q) : s \in live[k] /\ Cell(s)' = Cell(s)
         /\ \A s \in Writes(q) : Cell(s)' = Held(s)'
         /\ RegistersRight'
<1>1. /\ quads' = quads /\ start_point' = start_point
      /\ end_point' = end_point /\ affected_register' = affected_register
      /\ live' = live
  BY DEF input
<1>2. k \in Positions(quads) /\ k \in Int /\ k >= 0
  BY AtBlock DEF Positions
<1>3. m \in Positions(quads) /\ m \in Int
  BY <1>2 DEF InOrder, WellLabelled, Positions
<1>4. <<k, m>> \in Steps
  BY <1>2, <1>3 DEF Steps
<1>5. at'[1] = m /\ at'[2] = 1
  OBVIOUS
<1>6. \A s \in live[m] :
        /\ m > start_point[s] => k >= start_point[s]
        /\ start_point[s] \in m .. k => ~ Written(s)
  BY <1>4 DEF InOrder, JumpsKeepLoads
<1>7. \A s \in live[m] \ Writes(q) : s \in live[k]
  <2>1. live[k] = Reads(q)
                  \cup ((UNION {live[l] : l \in Successors(quads, k)}) \ Writes(q))
    BY <1>2 DEF IInv, Given, InOrder, IsLiveness
  <2>2. PICK later : later = UNION {live[l] : l \in Successors(quads, k)}
    OBVIOUS
  <2>3. \A s \in live[m] : s \in later
    BY <2>2
  <2>4. live[k] = Reads(q) \cup (later \ Writes(q))
    BY <2>1, <2>2
  <2> QED
    BY <2>3, <2>4
<1>8. /\ \A s : Written(s)' = Written(s) /\ LoadedAgain(s)' = LoadedAgain(s)
      /\ Used' = Used
  BY <1>1, SameInput DEF Used
<1>9. \A s : Written(s) => s \in Used /\ ~ LoadedAgain(s)
  BY DEF Written, Used, ValuesOf, LoadedAgain
<1>10. \A s \in Used :
         /\ s \in Symbols /\ s \in LoadedAt(start_point[s])
         /\ start_point[s] \in Int /\ end_point[s] \in Int
  BY ValueStarts, ValueLoaded DEF IInv
<1>11. \A s \in Used \ Writes(q) : start_point[s] = k => Held(s)' = Data[s]
  BY <1>10
<1>12. ASSUME NEW s \in live[m] \ Writes(q)
       PROVE  Cell(s)' = Cell(s)
  <2>1. Cell(s)' = IF m <= start_point[s] \/ ~ Written(s) THEN Data[s]
                                                         ELSE Held(s)'
    BY <1>1, <1>5, <1>8 DEF Cell, Held
  <2>2. Cell(s) = IF k <= start_point[s] \/ ~ Written(s) THEN Data[s]
                                                         ELSE Held(s)
    BY DEF Cell, Held
  <2>3. CASE ~ Written(s)
    BY <2>1, <2>2, <2>3
  <2>4. CASE Written(s)
    <3>1. /\ s \in Used /\ ~ LoadedAgain(s) /\ s \in Symbols
          /\ start_point[s] \in Int
      BY <2>4, <1>9, <1>10
    <3>2. CASE m <= start_point[s]
      <4>1. k < start_point[s]
        BY <3>1, <3>2, <2>4, <1>2, <1>3, <1>6
      <4> QED
        BY <4>1, <3>1, <3>2, <2>1, <2>2, <1>2
    <3>3. CASE start_point[s] < m /\ start_point[s] = k
      BY <3>1, <3>3, <2>1, <2>2, <2>4, <1>2, <1>3, <1>11
    <3>4. CASE start_point[s] < m /\ start_point[s] # k
      <4>1. start_point[s] < k
        BY <3>1, <3>4, <1>2, <1>3, <1>6
      <4>2. Protected(s)
        BY <4>1, <3>1, <1>7 DEF Protected
      <4>3. Held(s)' = Held(s)
        BY <4>2, <3>1
      <4> QED
        BY <4>1, <4>3, <3>1, <3>4, <2>1, <2>2, <2>4, <1>2, <1>3
    <3> QED
      BY <3>1, <3>2, <3>3, <3>4, <1>3
  <2> QED
    BY <2>3, <2>4
<1>13. ASSUME NEW s \in Writes(q)
       PROVE  Cell(s)' = Held(s)'
  <2>1. q.op \notin BranchOps /\ q.op # "RET"
    BY DEF Writes, BranchOps, ArithmeticOps, ConditionalOps
  <2>2. m = k + 1
    BY <2>1 DEF Successors, BranchOps
  <2>3. Written(s)
    BY <1>2 DEF Written
  <2>4. s \in Used /\ k \in Mentions(quads, s)
    BY <1>2, QuadAt DEF IInv
  <2>5. start_point[s] <= k /\ start_point[s] \in Int
    BY <2>4, <1>10 DEF IInv, Intervals
  <2> QED
    BY <2>2, <2>3, <2>5, <1>1, <1>2, <1>5, <1>8 DEF Cell, Held
<1>14. RegistersRight'
  <2>1. ASSUME NEW s \in Symbols, Protected(s)', ~ Written(s)'
        PROVE  Held(s)' = Data[s]
    <3>1. /\ s \in Used /\ s \in live[m] /\ start_point[s] < m
          /\ m <= end_point[s] \/ ~ LoadedAgain(s)
          /\ ~ Written(s)
      BY <2>1, <1>1, <1>5, <1>8 DEF Protected
    <3>2. s \notin Writes(q)
      BY <3>1, <1>2 DEF Written
    <3>3. /\ start_point[s] \in Int /\ end_point[s] \in Int
          /\ k >= start_point[s] /\ s \in live[k]
      BY <3>1, <3>2, <1>3, <1>6, <1>7, <1>10
    <3>4. CASE start_point[s] = k
      BY <3>1, <3>2, <3>4, <1>11
    <3>5. CASE start_point[s] # k
      <4>1. k <= end_point[s] \/ ~ LoadedAgain(s)
        <5>1. SUFFICES ASSUME LoadedAgain(s), ~ (k <= end_point[s])
                       PROVE  FALSE
          OBVIOUS
        <5>2. m \notin start_point[s] + 1 .. end_point[s]
          BY <5>1, <3>3, <1>2, <1>4 DEF LoadedAgain
        <5> QED
          BY <5>1, <5>2, <3>1, <3>3, <1>3
      <4>2. Protected(s)
        BY <4>1, <3>1, <3>3, <3>5, <1>2 DEF Protected
      <4>3. Held(s)' = Held(s)
        BY <4>2, <3>2
      <4>4. Held(s) = Data[s]
        BY <4>2, <3>1 DEF IInv, RegistersRight
      <4> QED
        BY <4>3, <4>4
    <3> QED
      BY <3>4, <3>5
  <2>2. \A p \in DOMAIN CodeAt' : p \in Int /\ p >= 1
    <3>1. Translated'
      BY SameCode DEF IInv
    <3>2. /\ quad_counter' = Len(quads) /\ Len(quads) \in Nat
      BY DEF IInv, Phases, Running, Given, Parsed
    <3>3. m \in 0 .. quad_counter' - 1
      BY <3>2, <1>3 DEF Positions
    <3>4. PICK n \in Nat : Translates(instructions[m + 1], m, n)'
      BY <3>1, <3>3, <1>5 DEF Translated
    <3>5. PICK last : last = Code(quads[m + 1])'
      OBVIOUS
    <3>6. DOMAIN (instructions[m + 1].code)' = 1 .. n + Len(last)
      BY <3>4, <3>5 DEF Translates
    <3>7. CodeAt' = instructions[m + 1].code
      BY <1>5 DEF CodeAt
    <3> QED
      BY <3>6, <3>7
  <2> QED
    BY <2>1, <2>2, <1>1, <1>3, <1>5 DEF RegistersRight
<1> QED
  BY <1>3, <1>7, <1>12, <1>13, <1>14

-----------------------------------------------------------------------------
(***************************************************************************)
(* What the quadruple machine does meanwhile.                              *)
(***************************************************************************)

\* Both machines read a quadruple the same way.
LEMMA SameReading ==
  ASSUME NEW q
  PROVE  /\ QM!Reads(q) = Reads(q)
         /\ QM!Writes(q) = Writes(q)
         /\ QM!Target(q) = Target(q)
         /\ QM!Unspecified(q) = Unspecified(q)
         /\ QM!ConditionalOps = ConditionalOps
         /\ QM!ArithmeticOps = ArithmeticOps
<1>1. QM!ConditionalOps = ConditionalOps /\ QM!ArithmeticOps = ArithmeticOps
  BY DEF QM!ConditionalOps, ConditionalOps, QM!ArithmeticOps, ArithmeticOps
<1>2. QM!Reads(q) = Reads(q)
  BY <1>1 DEF QM!Reads, Reads
<1>3. QM!Writes(q) = Writes(q)
  BY <1>1 DEF QM!Writes, Writes
<1>4. QM!Target(q) = Target(q)
  BY DEF QM!Target, Target
<1>5. QM!Unspecified(q) = Unspecified(q)
  BY <1>2, <1>3 DEF QM!Unspecified, Unspecified
<1> QED
  BY <1>1, <1>2, <1>3, <1>4, <1>5

\* The store of the quadruple machine.
Store == [s \in live[at[1]] |-> Cell(s)]

\* The cells still in use are kept.
LEMMA Kept ==
  ASSUME UNCHANGED live, NEW k, k = at[1], NEW m, at' = <<m, 1>>,
         \A s \in live[m] : s \in live[k] /\ Cell(s)' = Cell(s)
  PROVE  Store' = [s \in live[m] |-> Store[s]]
<1>1. Store' = [s \in live[m] |-> Cell(s)']
  BY DEF Store
<1>2. \A s \in live[m] : Store[s] = Cell(s)
  BY DEF Store
<1> QED
  BY <1>1, <1>2

\* All of them but the result, which has its word.
LEMMA KeptButOne ==
  ASSUME UNCHANGED live, NEW k, k = at[1], NEW m, at' = <<m, 1>>,
         NEW r, NEW word, Cell(r)' = word,
         \A s \in live[m] \ {r} : s \in live[k] /\ Cell(s)' = Cell(s)
  PROVE  Store' = [s \in live[m] |-> IF s = r THEN word ELSE Store[s]]
<1>1. Store' = [s \in live[m] |-> Cell(s)']
  BY DEF Store
<1>2. \A s \in live[m] : Cell(s)' = IF s = r THEN word ELSE Store[s]
  BY DEF Store
<1> QED
  BY <1>1, <1>2

\* A result.
LEMMA ComputesQuad ==
  ASSUME Running, UNCHANGED input, UNCHANGED <<live, printed, pc>>,
         NEW k, k = at[1], NEW q, q = quads[k + 1],
         Writes(q) # {}, at' = <<k + 1, 1>>,
         NEW word \in QM!Computed(q),
         Store' = [s \in live[k + 1] |-> IF s = q.res THEN word ELSE Store[s]]
  PROVE  QM!Next
<1>1. quads' = quads /\ live' = live /\ pc' = pc /\ at'[1] = k + 1
      /\ pc # "exited" /\ printed' = printed
  BY DEF input, Running
<1>2. QM!GoTo(at[1] + 1)
  BY <1>1 DEF QM!GoTo
<1>3. QM!Writes(q) # {}
  BY SameReading
<1>4. QM!Compute(q)
  BY <1>1, <1>2, <1>3 DEF QM!Compute, Store
<1> QED
  BY <1>1, <1>4 DEF QM!Next, QM!Step

\* A branch, a print or nothing at all.
LEMMA PassesQuad ==
  ASSUME Running, UNCHANGED input, UNCHANGED <<live, pc>>,
         NEW k, k = at[1], NEW q, q = quads[k + 1],
         NEW m, at' = <<m, 1>>,
         Store' = [s \in live[m] |-> Store[s]],
         \/ q.op = "B" /\ m = Target(q) /\ printed' = printed
         \/ q.op = "NOP" /\ m = k + 1 /\ printed' = printed
         \/ /\ q.op \in ConditionalOps /\ printed' = printed
            /\ \/ /\ Unspecified(q) \/ Taken(q.op, Store[q.op1], Store[q.op2])
                  /\ m = Target(q)
               \/ /\ Unspecified(q) \/ ~ Taken(q.op, Store[q.op1], Store[q.op2])
                  /\ m = k + 1
         \/ /\ q.op \in {"PRTI", "PRTF", "PRTS"} /\ m = k + 1
            /\ printed' = <<q.op, IF q.op = "PRTS" THEN q.res ELSE Store[q.res]>>
  PROVE  QM!Next
<1>1. quads' = quads /\ live' = live /\ pc' = pc /\ at'[1] = m
      /\ pc # "exited"
  BY DEF input, Running
<1>2. QM!GoTo(m)
  BY <1>1 DEF QM!GoTo
<1>3. QM!Keep
  BY <1>1 DEF QM!Keep, Store
<1>4. CASE q.op = "B" /\ m = Target(q) /\ printed' = printed
  <2>1. QM!Goto(q)
    BY <1>2, <1>3, <1>4, SameReading DEF QM!Goto
  <2> QED
    BY <2>1, <1>1 DEF QM!Next, QM!Step
<1>5. CASE q.op = "NOP" /\ m = k + 1 /\ printed' = printed
  <2>1. QM!Skip(q)
    BY <1>2, <1>3, <1>5 DEF QM!Skip
  <2> QED
    BY <2>1, <1>1 DEF QM!Next, QM!Step
<1>6. CASE q.op \in ConditionalOps /\ printed' = printed
           /\ (\/ /\ Unspecified(q) \/ Taken(q.op, Store[q.op1], Store[q.op2])
                  /\ m = Target(q)
               \/ /\ Unspecified(q) \/ ~ Taken(q.op, Store[q.op1], Store[q.op2])
                  /\ m = k + 1)
  <2>1. /\ QM!Unspecified(q) = Unspecified(q) /\ QM!Target(q) = Target(q)
        /\ QM!ConditionalOps = ConditionalOps
    BY SameReading
  <2>2. QM!Branch(q)
    BY <2>1, <1>2, <1>3, <1>6 DEF QM!Branch, Store
  <2> QED
    BY <2>2, <1>1 DEF QM!Next, QM!Step
<1>7. CASE q.op \in {"PRTI", "PRTF", "PRTS"} /\ m = k + 1
           /\ printed' = <<q.op, IF q.op = "PRTS" THEN q.res ELSE Store[q.res]>>
  <2>1. QM!Show(q)
    BY <1>2, <1>3, <1>7 DEF QM!Show, Store
  <2> QED
    BY <2>1, <1>1 DEF QM!Next, QM!Step
<1> QED
  BY <1>4, <1>5, <1>6, <1>7

\* Nothing that can be seen.
LEMMA SameStore ==
  ASSUME UNCHANGED input, UNCHANGED <<live, printed>>,
         at'[1] = at[1], pc # "exited", pc' # "exited",
         \A s \in live[at[1]] : Cell(s)' = Cell(s)
  PROVE  UNCHANGED QM!vars
<1>1. Store' = Store
  BY DEF Store
<1> QED
  BY <1>1 DEF QM!vars, Store, input

\* A program in which a value has no register is not assembled.
LEMMA ValueHasRegister ==
  ASSUME IInv, Running, NEW s \in Used
  PROVE  Register(s) \in Registers
<1>1. PICK k : k = start_point[s]
  OBVIOUS
<1>2. s \in Symbols /\ k \in Positions(quads) /\ s \in LoadedAt(k)
  BY <1>1, ValueStarts, ValueLoaded DEF IInv
<1>3. /\ quad_counter = Len(quads) /\ Len(quads) \in Nat
      /\ DOMAIN instructions = 1 .. quad_counter
  BY DEF IInv, Phases, Running, Translated, Given, Parsed
<1>4. k \in 0 .. quad_counter - 1 /\ k + 1 \in DOMAIN instructions
  BY <1>2, <1>3 DEF Positions
<1>5. PICK n \in Nat : Translates(instructions[k + 1], k, n)
  BY <1>4 DEF IInv, Translated
<1>6. PICK body : body = instructions[k + 1].code
  OBVIOUS
<1>7. PICK last : last = Code(quads[k + 1])
  OBVIOUS
<1>8. DOMAIN body = 1 .. n + Len(last) /\ Len(last) \in Nat
  <2>1. DOMAIN body = 1 .. n + Len(last)
    BY <1>5, <1>6, <1>7 DEF Translates
  <2>2. quads[k + 1] \in Quad
    BY <1>2, QuadAt DEF IInv
  <2>3. \/ last = <<>>
        \/ \E file, args : last = <<Instruction(quads[k + 1].op, file, args)>>
    BY <2>2, <1>7, CodeShape
  <2> QED
    BY <2>1, <2>3
<1>9. PICK m \in 1 .. n : body[m] = Load(s)
  BY <1>2, <1>5, <1>6 DEF Translates
<1>10. PICK ins : ins = Load(s)
  OBVIOUS
<1>11. ins \in Range(body)
  BY <1>8, <1>9, <1>10 DEF Range
<1>12. Assembles(ins)
  BY <1>4, <1>6, <1>11 DEF IInv, Phases, Running
<1>13. 1 \in DOMAIN ins.args /\ ins.args[1] = Register(s)
  <2>1. ins.args = <<affected_register[s], s>>
    BY <1>10, LoadFields
  <2> QED
    BY <2>1 DEF Register
<1> QED
  BY <1>2, <1>12, <1>13, Named

\* A quadruple without code has no meaning either, and the next one comes.
LEMMA WithoutCode ==
  ASSUME IInv, InOrder, Running, UNCHANGED input,
         UNCHANGED <<live, printed, pc>>,
         regs' \in [Files -> [Registers -> Word]],
         NEW k, k = at[1], NEW q, q = quads[k + 1], at' = <<k + 1, 1>>,
         Code(q) = <<>>,
         \A s \in live[k + 1] \ Writes(q) : s \in live[k] /\ Cell(s)' = Cell(s),
         \A s \in Writes(q) : Cell(s)' = Held(s)'
  PROVE  QM!Next
<1>1. k \in Positions(quads) /\ q \in Quad
  BY AtBlock, QuadAt DEF IInv
<1>2. \A file, args : <<>> # <<Instruction(q.op, file, args)>>
  OBVIOUS
<1>3. \/ /\ q.op \in {"NEG"} \cup ArithmeticOps
         /\ Type[q.res] \notin {"INT", "FLOAT"}
      \/ q.op \in ConditionalOps /\ Type[q.op1] \notin {"INT", "FLOAT"}
  BY <1>1, <1>2, CodeShape
<1>4. CASE /\ q.op \in {"NEG"} \cup ArithmeticOps
           /\ Type[q.res] \notin {"INT", "FLOAT"}
  <2>1. Writes(q) = {q.res} /\ q.op # "MOVE"
    BY <1>4 DEF Writes, ArithmeticOps
  <2>2. Unspecified(q)
    BY <1>4, <2>1 DEF Unspecified
  <2>3. q.res \in Symbols /\ Register(q.res) \in Registers
    <3>1. q.res \in Used
      BY <2>1, <1>1, QuadAt DEF IInv
    <3>2. q.res \in Symbols
      BY <3>1, ValueStarts DEF IInv
    <3> QED
      BY <3>1, <3>2, ValueHasRegister
  <2>4. PICK word : word = Held(q.res)'
    OBVIOUS
  <2>5. word \in Word
    <3>1. FileOf(q.res) \in Files /\ FileOf(q.res)' = FileOf(q.res)
      BY DEF FileOf, Files
    <3> QED
      BY <2>3, <2>4, <3>1 DEF Held, Register, input
  <2>6. word \in QM!Computed(q)
    BY <2>2, <2>5, SameReading DEF QM!Computed
  <2>7. Cell(q.res)' = word
    BY <2>1, <2>4
  <2>8. Store' = [s \in live[k + 1] |-> IF s = q.res THEN word ELSE Store[s]]
    BY <2>1, <2>7, KeptButOne
  <2>9. Writes(q) # {}
    BY <2>1
  <2> QED
    BY <2>6, <2>8, <2>9, ComputesQuad
<1>5. CASE q.op \in ConditionalOps /\ Type[q.op1] \notin {"INT", "FLOAT"}
  <2>1. q.op1 \in Reads(q) /\ Writes(q) = {} /\ q.op # "MOVE"
    BY <1>5 DEF Reads, Writes, ConditionalOps, ArithmeticOps
  <2>2. Unspecified(q)
    BY <1>5, <2>1 DEF Unspecified
  <2>3. Store' = [s \in live[k + 1] |-> Store[s]]
    BY <2>1, Kept
  <2> QED
    BY <1>5, <2>2, <2>3, PassesQuad
<1> QED
  BY <1>3, <1>4, <1>5

-----------------------------------------------------------------------------
(***************************************************************************)
(* The steps of the processor.                                             *)
(***************************************************************************)

\* The block comes to its end with a load or before it began: the symbols of
\* the quadruple are loaded and it has no code.
LEMMA EndOfLoads ==
  ASSUME IInv, InOrder, Running, UNCHANGED input,
         UNCHANGED <<live, printed, pc, instructions, quad_counter>>,
         regs' \in [Files -> [Registers -> Word]],
         NEW k, k = at[1], NEW q, q = quads[k + 1], at' = <<k + 1, 1>>,
         Code(q) = <<>>,
         \A s \in LoadedAt(k) \cap Used : Held(s)' = Data[s],
         \A s \in Symbols : Protected(s) => Held(s)' = Held(s)
  PROVE  RegistersRight' /\ QM!Next
<1>1. k \in Positions(quads) /\ q \in Quad
  BY AtBlock, QuadAt DEF IInv
<1>2. \A file, args : <<>> # <<Instruction(q.op, file, args)>>
  OBVIOUS
<1>3. q.op \in {"NEG"} \cup ArithmeticOps \cup ConditionalOps
  BY <1>1, <1>2, CodeShape
<1>4. k + 1 \in Successors(quads, k)
  BY <1>3 DEF Successors, ArithmeticOps, ConditionalOps
<1>5. PICK m : m = k + 1
  OBVIOUS
<1>6. /\ \A s \in live[m] \ Writes(q) : s \in live[k] /\ Cell(s)' = Cell(s)
      /\ \A s \in Writes(q) : Cell(s)' = Held(s)'
      /\ RegistersRight'
  <2>1. m \in Successors(quads, k) /\ at' = <<m, 1>>
    BY <1>4, <1>5
  <2>2. /\ \A s \in (LoadedAt(k) \cap Used) \ Writes(q) : Held(s)' = Data[s]
        /\ \A s \in Symbols \ Writes(q) : Protected(s) => Held(s)' = Held(s)
    OBVIOUS
  <2> QED
    BY <2>1, <2>2, Leave
<1>7. QM!Next
  BY <1>5, <1>6, WithoutCode
<1> QED
  BY <1>6, <1>7

\* A symbol is loaded: it falls on no register in use.
LEMMA LoadWordStep ==
  IInv /\ LoadWord => IInv' /\ (InOrder => QM!Next \/ UNCHANGED QM!vars)
<1> SUFFICES ASSUME IInv, LoadWord
             PROVE  IInv' /\ (InOrder => QM!Next \/ UNCHANGED QM!vars)
  OBVIOUS
<1>1. PICK k, p, ins, q :
        k = at[1] /\ p = at[2] /\ ins = Fetched /\ q = quads[k + 1]
  OBVIOUS
<1>2. /\ Running /\ p \in DOMAIN CodeAt /\ ins.opcode = "LOAD"
      /\ UNCHANGED input /\ UNCHANGED <<live, printed, pc>>
      /\ UNCHANGED <<instructions, quad_counter>>
      /\ UNCHANGED <<input, instructions, quad_counter, live>>
      /\ regs' = [regs EXCEPT ![ins.file][ins.args[1]] = Data[ins.args[2]]]
      /\ at' = Behind
  BY <1>1 DEF LoadWord, Execute, Put, Argument
<1>3. /\ \E t \in LoadedAt(k) : ins = Load(t)
      /\ \A m \in DOMAIN CodeAt :
           m < p => \E s \in LoadedAt(k) : CodeAt[m] = Load(s)
      /\ p = Len(CodeAt) =>
           /\ Code(q) = <<>>
           /\ \A s \in LoadedAt(k) : \E m \in DOMAIN CodeAt : CodeAt[m] = Load(s)
      /\ p # 1 => ins \in {Load(q.op1), Load(q.op2)}
      /\ k \in Positions(quads) /\ q \in Quad /\ p \in Nat \ {0}
      /\ p <= Len(CodeAt) /\ Len(CodeAt) \in Nat
      /\ DOMAIN CodeAt = 1 .. Len(CodeAt)
      /\ Assembles(ins)
  BY <1>1, <1>2, Fetches
<1>14. /\ p \in Int /\ p + 1 \in Nat \ {0}
       /\ \A m \in DOMAIN CodeAt : m \in Int
       /\ k \in Int /\ k \in 0 .. Len(quads) /\ k + 1 \in 0 .. Len(quads)
  <2>1. p \in Nat \ {0} /\ k \in Positions(quads)
    BY <1>3
  <2>2. DOMAIN CodeAt = 1 .. Len(CodeAt) /\ Len(CodeAt) \in Nat
    BY <1>3
  <2>3. PICK n \in Nat : DOMAIN CodeAt = 1 .. n
    BY <2>2
  <2>4. Len(quads) \in Nat
    BY DEF IInv, Given, Parsed
  <2>5. \A m \in DOMAIN CodeAt : m \in Int
    BY <2>3
  <2>6. p \in Int /\ p + 1 \in Nat \ {0}
    BY <2>1
  <2>7. k \in Int /\ k \in 0 .. Len(quads) /\ k + 1 \in 0 .. Len(quads)
    BY <2>1, <2>4 DEF Positions
  <2> QED
    BY <2>5, <2>6, <2>7
<1>4. PICK t \in LoadedAt(k) : ins = Load(t)
  BY <1>3
<1>5. /\ ins.file = FileOf(t) /\ ins.args = <<affected_register[t], t>>
      /\ ins.args[1] = Register(t) /\ ins.args[2] = t
      /\ t \in Symbols /\ start_point[t] = k /\ k \in Mentions(quads, t)
  BY <1>3, <1>4, LoadFields DEF LoadedAt, Register, Mentions
<1>6. Register(t) \in Registers
  <2>1. 1 \in DOMAIN ins.args
    BY <1>5
  <2>2. ins.args[1] = Register(t) /\ t \in Symbols
    BY <1>5
  <2>3. Assembles(ins)
    BY <1>3
  <2> QED
    BY <2>1, <2>2, <2>3, Named
<1>7. PICK word : word = Data[t]
  OBVIOUS
<1>8. /\ regs' = [regs EXCEPT ![FileOf(t)][Register(t)] = word]
      /\ word \in Word
  BY <1>2, <1>5, <1>7, DataWord
<1>9. regs' \in [Files -> [Registers -> Word]]
  BY <1>8, PutWord
<1>10. /\ p = Len(CodeAt) => at' = <<k + 1, 1>>
       /\ p # Len(CodeAt) => at' = <<k, p + 1>>
  BY <1>1, <1>2, <1>3, BehindIs
<1>11. Given' /\ Intervals' /\ Translated' /\ Phases' /\ MachineTypes'
  <2>1. at'[1] \in 0 .. Len(quads)
    <3>1. at'[1] = k + 1 \/ at'[1] = k
      BY <1>10
    <3>2. k \in 0 .. Len(quads) /\ k + 1 \in 0 .. Len(quads)
      BY <1>14
    <3> QED
      BY <3>1, <3>2
  <2>2. pc' \in {"run", "exited"}
    BY <1>2 DEF Running
  <2> QED
    BY <2>1, <2>2, <1>2, <1>9, RunKeeps
<1>12. InOrder' = InOrder
  BY <1>2, SameInput
<1>13. ASSUME InOrder
       PROVE  RegistersRight' /\ (QM!Next \/ UNCHANGED QM!vars)
  <2>1. Held(t)' = Data[t]
    BY <1>2, <1>6, <1>7, <1>8, PutThere
  <2>2. ASSUME NEW s \in LoadedAt(k) \cap Used, s # t, p # 1
        PROVE  Held(s)' = Held(s)
    <3>1. s \in Symbols /\ k \in Mentions(quads, s)
      BY <1>1, <1>3 DEF LoadedAt, Mentions
    <3>2. affected_register[s] # affected_register[t] \/ GivesWay(t, s)
      <4>1. Given /\ Intervals
        BY DEF IInv
      <4>2. /\ k \in Positions(quads) /\ t \in Symbols
            /\ k \in Mentions(quads, t)
        BY <1>3, <1>5, Zenon
      <4>3. s \in Used
        OBVIOUS
      <4> QED
        BY <4>1, <4>2, <4>3, <3>1, <2>2, <1>6, <1>13, ApartHere, Zenon
    <3>3. t \in {q.op1, q.op2}
      <4>1. ins = Load(q.op1) \/ ins = Load(q.op2)
        BY <2>2, <1>3
      <4>2. ins.args[2] = q.op1 \/ ins.args[2] = q.op2
        BY <4>1, LoadFields, Zenon
      <4> QED
        BY <4>2, <1>5
    <3>4. ~ GivesWay(t, s)
      BY <3>3, <1>1, <1>5 DEF GivesWay
    <3> QED
      BY <3>1, <3>2, <3>4, <1>2, <1>8, PutElsewhere
  <2>3. ASSUME NEW s \in Symbols, Protected(s)
        PROVE  Held(s)' = Held(s)
    <3>1. s # t
      BY <2>3, <1>1, <1>3, <1>5 DEF Protected, Positions
    <3>2. affected_register[s] # affected_register[t]
      BY <2>3, <3>1, <1>1, <1>3, <1>4, <1>6, <1>13, Apart DEF IInv
    <3> QED
      BY <3>2, <1>2, <1>8, PutElsewhere
  <2>4. ASSUME NEW s \in LoadedAt(k) \cap Used, NEW m \in DOMAIN CodeAt,
               m <= p, CodeAt[m] = Load(s)
        PROVE  Held(s)' = Data[s]
    <3>1. CASE s = t
      BY <3>1, <2>1
    <3>2. CASE s # t
      <4>1. m # p
        <5>1. SUFFICES ASSUME m = p
                       PROVE  FALSE
          OBVIOUS
        <5>2. Load(s) = Load(t)
          BY <5>1, <2>4, <1>1, <1>4 DEF Fetched
        <5>3. s = t
          BY <5>2, LoadFields
        <5> QED
          BY <5>3, <3>2
      <4>2. m < p
        BY <4>1, <2>4, <1>14
      <4>3. Held(s) = Data[s]
        BY <4>2, <2>4, <1>1, <1>2, <1>13, IsLoaded
      <4>4. p # 1
        <5>1. m \in 1 .. Len(CodeAt) /\ Len(CodeAt) \in Nat
          BY <1>3
        <5> QED
          BY <5>1, <4>2
      <4> QED
        BY <4>3, <4>4, <3>2, <2>2
    <3> QED
      BY <3>1, <3>2
  <2>5. CASE p = Len(CodeAt)
    <3>1. at' = <<k + 1, 1>> /\ Code(q) = <<>>
      BY <2>5, <1>3, <1>10
    <3>2. \A s \in LoadedAt(k) \cap Used : Held(s)' = Data[s]
      <4> TAKE s \in LoadedAt(k) \cap Used
      <4>1. PICK m \in DOMAIN CodeAt : CodeAt[m] = Load(s)
        BY <2>5, <1>3
      <4>2. m \in 1 .. Len(CodeAt) /\ Len(CodeAt) \in Nat
        BY <1>3
      <4>3. m <= p
        BY <4>2, <2>5
      <4> QED
        BY <4>1, <4>3, <2>4
    <3> QED
      BY <3>1, <3>2, <2>3, <1>1, <1>2, <1>9, <1>13, EndOfLoads
  <2>6. CASE p # Len(CodeAt)
    <3>1. at'[1] = k /\ at'[2] = p + 1
      BY <2>6, <1>10
    <3>2. CodeAt' = CodeAt
      BY <3>1, <1>1, <1>2 DEF CodeAt
    <3>3. /\ quads' = quads /\ start_point' = start_point
          /\ end_point' = end_point /\ affected_register' = affected_register
          /\ live' = live
      BY <1>2 DEF input
    <3>4. /\ \A s : Written(s)' = Written(s) /\ LoadedAgain(s)' = LoadedAgain(s)
          /\ Used' = Used
      BY <3>3, <1>2, SameInput DEF Used
    <3>5. \A s : Protected(s)' = Protected(s)
      BY <3>1, <3>3, <3>4, <1>1 DEF Protected
    <3>6. ASSUME NEW m \in DOMAIN CodeAt, m < p + 1
          PROVE  /\ CodeAt[m].opcode = "LOAD"
                 /\ CodeAt[m].args[2] \in Used =>
                      regs'[CodeAt[m].file][CodeAt[m].args[1]]
                        = Data[CodeAt[m].args[2]]
      <4>1. m <= p
        BY <3>6, <1>14
      <4>2. PICK s \in LoadedAt(k) : CodeAt[m] = Load(s)
        <5>1. CASE m = p
          BY <5>1, <1>1, <1>4 DEF Fetched
        <5>2. CASE m # p
          <6>1. m < p
            BY <5>2, <4>1, <1>14
          <6> QED
            BY <6>1, <1>3
        <5> QED
          BY <5>1, <5>2
      <4>3. s \in Used => Held(s)' = Data[s]
        BY <4>1, <4>2, <2>4
      <4>4. s \in Used => regs'[FileOf(s)][affected_register[s]] = Data[s]
        BY <4>3, <3>3 DEF Held, FileOf
      <4>5. PICK l : l = CodeAt[m]
        OBVIOUS
      <4>6. /\ l.opcode = "LOAD" /\ l.file = FileOf(s)
            /\ l.args[1] = affected_register[s] /\ l.args[2] = s
        BY <4>2, <4>5, LoadFields
      <4> QED
        BY <4>4, <4>5, <4>6
    <3>7. RegistersRight'
      <4>1. \A s \in Symbols :
              (Protected(s) /\ ~ Written(s))' => Held(s)' = Data[s]
        BY <3>4, <3>5, <2>3, <1>13 DEF IInv, RegistersRight
      <4>2. at'[1] \in Positions(quads') /\ at'[2] \in Nat \ {0}
        <5>1. k \in Positions(quads') /\ p + 1 \in Nat \ {0}
          BY <3>3, <1>14, <1>3
        <5> QED
          BY <5>1, <3>1
      <4>3. Used' = Used
        BY <3>4
      <4> QED
        BY <4>1, <4>2, <4>3, <3>1, <3>2, <3>6 DEF RegistersRight
    <3>8. \A s \in live[k] : Cell(s)' = Cell(s)
      <4> TAKE s \in live[k]
      <4>1. Cell(s) = IF k <= start_point[s] \/ ~ Written(s) THEN Data[s]
                                                             ELSE Held(s)
        BY <1>1 DEF Cell, Held
      <4>2. Cell(s)' = IF k <= start_point[s] \/ ~ Written(s) THEN Data[s]
                                                              ELSE Held(s)'
        BY <3>1, <3>3, <3>4 DEF Cell, Held
      <4>3. CASE k <= start_point[s] \/ ~ Written(s)
        BY <4>1, <4>2, <4>3
      <4>4. CASE ~ (k <= start_point[s]) /\ Written(s)
        <5>1. s \in Used /\ ~ LoadedAgain(s)
          BY <4>4 DEF Written, Used, ValuesOf, LoadedAgain
        <5>2. s \in Symbols /\ start_point[s] \in Int
          BY <5>1, ValueStarts DEF IInv
        <5>3. Protected(s)
          BY <5>1, <5>2, <4>4, <1>1, <1>3 DEF Protected, Positions
        <5> QED
          BY <5>2, <5>3, <4>1, <4>2, <2>3
      <4> QED
        BY <4>3, <4>4
    <3>9. UNCHANGED QM!vars
      <4>1. at'[1] = at[1] /\ pc # "exited" /\ pc' # "exited"
        BY <3>1, <1>1, <1>2 DEF Running
      <4> QED
        BY <4>1, <3>8, <1>1, <1>2, SameStore
    <3> QED
      BY <3>7, <3>9
  <2> QED
    BY <2>5, <2>6
<1> QED
  BY <1>11, <1>12, <1>13 DEF IInv

\* A result is put in its register: no other that is in use changes.
LEMMA ResultStep ==
  ASSUME IInv, Running, at[2] \in DOMAIN CodeAt,
         UNCHANGED <<input, instructions, quad_counter, live>>,
         UNCHANGED pc, UNCHANGED printed,
         NEW k, k = at[1], NEW q, q = quads[k + 1], NEW ins, ins = Fetched,
         ins.opcode \in {"MOVE", "NEG"} \cup ArithmeticOps,
         NEW word \in Word, InOrder => word \in QM!Computed(q),
         NEW file, file = ins.file, NEW r, r = ins.args[1],
         regs' = [regs EXCEPT ![file][r] = word], at' = Behind
  PROVE  IInv' /\ (InOrder => QM!Next)
<1>1. /\ UNCHANGED input /\ UNCHANGED live
      /\ UNCHANGED <<instructions, quad_counter>>
      /\ pc' \in {"run", "exited"}
  BY DEF Running
<1>2. PICK p : p = at[2]
  OBVIOUS
<1>3. ins.opcode # "LOAD"
  BY DEF ArithmeticOps
<1>4. /\ p = Len(CodeAt)
      /\ Code(q) = <<ins>>
      /\ \A s \in LoadedAt(k) :
           \E m \in DOMAIN CodeAt : m < p /\ CodeAt[m] = Load(s)
      /\ k \in Positions(quads) /\ q \in Quad
      /\ Assembles(ins)
  BY <1>2, <1>3, Fetches
<1>5. p \in Nat /\ Len(CodeAt) \in Nat /\ p <= Len(CodeAt)
  BY <1>2, Fetches
<1>6. /\ q.op \in {"MOVE", "NEG"} \cup ArithmeticOps
      /\ ins.file = FileOf(q.res)
      /\ ins.args[1] = Register(q.res) /\ 1 \in DOMAIN ins.args
  <2>1. ins.opcode = q.op
    BY <1>4, CodeFields
  <2>2. CASE q.op \in {"MOVE", "NEG"}
    BY <2>1, <2>2, <1>4, CodeFields
  <2>3. CASE q.op \in ArithmeticOps
    BY <2>1, <2>3, <1>4, CodeFields
  <2> QED
    BY <2>1, <2>2, <2>3
<1>7. /\ Writes(q) = {q.res} /\ Writes(q) # {}
      /\ k + 1 \in Successors(quads, k)
  <2>1. Writes(q) = {q.res}
    BY <1>6 DEF Writes
  <2>2. q.op \notin {"B", "RET"}
    BY <1>6 DEF ArithmeticOps
  <2> QED
    BY <2>1, <2>2 DEF Successors
<1>8. PICK t : t = q.res
  OBVIOUS
<1>9. t \in Symbols /\ k \in Mentions(quads, t) /\ Register(t) \in Registers
  <2>1. t \in Used /\ k \in Mentions(quads, t)
    BY <1>4, <1>7, <1>8, QuadAt DEF IInv
  <2>2. t \in Symbols
    BY <2>1, ValueStarts DEF IInv
  <2> QED
    BY <2>1, <2>2, <1>4, <1>6, <1>8, Named
<1>10. regs' = [regs EXCEPT ![FileOf(t)][Register(t)] = word]
  BY <1>6, <1>8
<1>11. regs' \in [Files -> [Registers -> Word]]
  BY PutWord
<1>12. at' = <<k + 1, 1>>
  BY <1>2, <1>4, <1>5, BehindIs
<1>13. Given' /\ Intervals' /\ Translated' /\ Phases' /\ MachineTypes'
  <2>1. at'[1] = k + 1
    BY <1>12
  <2>2. k \in Positions(quads) /\ Len(quads) \in Nat
    BY <1>4 DEF IInv, Given, Parsed
  <2>3. at'[1] \in 0 .. Len(quads)
    BY <2>1, <2>2 DEF Positions
  <2> QED
    BY <2>3, <1>1, <1>11, RunKeeps
<1>14. InOrder' = InOrder
  BY <1>1, SameInput
<1>15. ASSUME InOrder
       PROVE  RegistersRight' /\ QM!Next
  <2>1. Held(t)' = word
    BY <1>1, <1>9, <1>10, PutThere
  <2>2. ASSUME NEW s \in (LoadedAt(k) \cap Used) \ Writes(q)
        PROVE  Held(s)' = Data[s]
    <3>1. s \in Symbols /\ k \in Mentions(quads, s) /\ s # t
      BY <1>4, <1>7, <1>8 DEF LoadedAt, Mentions
    <3>2. affected_register[s] # affected_register[t]
      <4>1. affected_register[s] # affected_register[t] \/ GivesWay(t, s)
        BY <3>1, <1>4, <1>9, <1>15, ApartHere DEF IInv
      <4>2. t \in Used
        BY <1>4, <1>7, <1>8, QuadAt DEF IInv
      <4> QED
        BY <4>1, <4>2 DEF GivesWay
    <3>3. Held(s)' = Held(s)
      BY <3>1, <3>2, <1>1, <1>10, PutElsewhere
    <3>4. Held(s) = Data[s]
      BY <1>2, <1>4, <1>15, IsLoaded
    <3> QED
      BY <3>3, <3>4
  <2>3. ASSUME NEW s \in Symbols \ Writes(q), Protected(s)
        PROVE  Held(s)' = Held(s)
    <3>1. affected_register[s] # affected_register[t]
      <4>1. s # t /\ t \in LoadedAt(at[1]) \cup Writes(quads[at[1] + 1])
        BY <1>7, <1>8
      <4>2. at[1] \in Positions(quads)
        BY <1>4
      <4> QED
        BY <2>3, <4>1, <4>2, <1>9, <1>15, Apart DEF IInv
    <3> QED
      BY <3>1, <1>1, <1>10, PutElsewhere
  <2>4. PICK m : m = k + 1
    OBVIOUS
  <2>5. /\ \A s \in live[m] \ Writes(q) : s \in live[k] /\ Cell(s)' = Cell(s)
        /\ \A s \in Writes(q) : Cell(s)' = Held(s)'
        /\ RegistersRight'
    <3>1. m \in Successors(quads, k) /\ at' = <<m, 1>>
      BY <2>4, <1>7, <1>12
    <3> QED
      BY <3>1, <2>2, <2>3, <1>1, <1>15, Leave
  <2>6. Cell(t)' = word
    BY <2>1, <2>5, <1>7, <1>8
  <2>7. /\ at' = <<m, 1>>
        /\ \A s \in live[m] \ {t} : s \in live[k] /\ Cell(s)' = Cell(s)
    BY <2>4, <2>5, <1>7, <1>8, <1>12
  <2>8. Store' = [s \in live[m] |-> IF s = t THEN word ELSE Store[s]]
    BY <2>6, <2>7, <1>1, KeptButOne
  <2>9. Store' = [s \in live[k + 1] |-> IF s = q.res THEN word ELSE Store[s]]
    BY <2>4, <2>8, <1>8
  <2>10. UNCHANGED <<live, printed, pc>> /\ word \in QM!Computed(q)
    BY <1>1, <1>15
  <2>11. QM!Next
    BY <2>9, <2>10, <1>1, <1>7, <1>12, ComputesQuad
  <2> QED
    BY <2>5, <2>11
<1> QED
  BY <1>13, <1>14, <1>15 DEF IInv

\* The register of an operand, and the word in it.
LEMMA OperandNamed ==
  ASSUME IInv, NEW k \in Positions(quads), NEW q, q = quads[k + 1],
         NEW s \in Reads(q) \cup Writes(q),
         NEW ins, Assembles(ins), NEW n \in DOMAIN ins.args, ins.args[n] = Register(s),
         NEW file \in Files, NEW word, word = regs[file][ins.args[n]]
  PROVE  s \in Symbols /\ Register(s) \in Registers /\ word \in Word
<1>1. s \in Symbols
  BY QuadAt, ValueStarts DEF IInv
<1>2. Register(s) \in Registers
  BY <1>1, Named
<1> QED
  BY <1>1, <1>2, HoldsWord

\* Where the types agree that word is what the quadruple is said to read.
LEMMA OperandRight ==
  ASSUME IInv, InOrder, Running, NEW k, k = at[1], NEW q, q = quads[k + 1],
         \A t \in LoadedAt(k) :
           \E m \in DOMAIN CodeAt : m < at[2] /\ CodeAt[m] = Load(t),
         NEW s \in Reads(q), NEW file,
         NEW t \in Reads(q) \cup Writes(q), file = FileOf(t), ~ Unspecified(q),
         NEW word, word = regs[file][Register(s)]
  PROVE  word = Store[s]
<1>1. Type[s] = Type[t]
  BY DEF Unspecified
<1>2. FileOf(s) = FileOf(t)
  BY <1>1, SameFile
<1>3. word = Held(s)
  BY <1>2 DEF Held, Register
<1>4. s \in live[k] /\ Cell(s) = Held(s)
  BY OperandsThere
<1> QED
  BY <1>3, <1>4 DEF Store

\* A word is moved.
LEMMA MoveRegisterStep ==
  IInv /\ MoveRegister => IInv' /\ (InOrder => QM!Next \/ UNCHANGED QM!vars)
<1> SUFFICES ASSUME IInv, MoveRegister
             PROVE  IInv' /\ (InOrder => QM!Next)
  OBVIOUS
<1>1. PICK k, ins, q : k = at[1] /\ ins = Fetched /\ q = quads[k + 1]
  OBVIOUS
<1>2. PICK file, r, word :
        file = ins.file /\ r = ins.args[1] /\ word = regs[file][ins.args[2]]
  OBVIOUS
<1>3. /\ Running /\ at[2] \in DOMAIN CodeAt /\ ins.opcode = "MOVE"
      /\ UNCHANGED <<input, instructions, quad_counter, live>>
      /\ UNCHANGED pc /\ UNCHANGED printed
      /\ regs' = [regs EXCEPT ![file][r] = word]
      /\ at' = Behind
  BY <1>1, <1>2 DEF MoveRegister, Execute, Put, Argument, Value
<1>4. /\ k \in Positions(quads) /\ q \in Quad /\ Code(q) = <<ins>>
      /\ Assembles(ins)
      /\ \A s \in LoadedAt(k) :
           \E m \in DOMAIN CodeAt : m < at[2] /\ CodeAt[m] = Load(s)
  BY <1>1, <1>3, Fetches
<1>5. q.op = "MOVE"
  BY <1>3, <1>4, CodeFields
<1>6. /\ file = FileOf(q.res)
      /\ ins.args = <<Register(q.res), Register(q.op1)>>
  BY <1>2, <1>4, <1>5, CodeFields
<1>7. q.op1 \in Reads(q) /\ q.res \in Writes(q)
  BY <1>5 DEF Reads, Writes
<1>8. file \in Files
  BY <1>6 DEF FileOf, Files
<1>9. 2 \in DOMAIN ins.args /\ ins.args[2] = Register(q.op1)
  BY <1>6
<1>10. word \in Word
  BY <1>1, <1>2, <1>4, <1>7, <1>8, <1>9, OperandNamed
<1>11. ASSUME InOrder
       PROVE  word \in QM!Computed(q)
  <2>1. CASE Unspecified(q)
    BY <2>1, <1>10, SameReading DEF QM!Computed
  <2>2. CASE ~ Unspecified(q)
    <3>1. PICK s : s = q.op1
      OBVIOUS
    <3>2. word = Store[s]
      BY <3>1, <2>2, <1>1, <1>2, <1>3, <1>4, <1>6, <1>7, <1>9, <1>11,
         OperandRight
    <3>3. QM!Computed(q) = {Store[q.op1]}
      BY <2>2, <1>5, SameReading DEF QM!Computed, Store
    <3> QED
      BY <3>1, <3>2, <3>3
  <2> QED
    BY <2>1, <2>2
<1>12. ins.opcode \in {"MOVE", "NEG"} \cup ArithmeticOps
  BY <1>3
<1> QED
  BY <1>1, <1>2, <1>3, <1>10, <1>11, <1>12, ResultStep

\* A word is computed.
LEMMA CalculateStep ==
  IInv /\ Calculate => IInv' /\ (InOrder => QM!Next \/ UNCHANGED QM!vars)
<1> SUFFICES ASSUME IInv, Calculate
             PROVE  IInv' /\ (InOrder => QM!Next)
  OBVIOUS
<1>1. PICK k, ins, q : k = at[1] /\ ins = Fetched /\ q = quads[k + 1]
  OBVIOUS
<1>2. PICK file, r, n : file = ins.file /\ r = ins.args[1] /\ n = Len(ins.args)
  OBVIOUS
<1>3. PICK v, w : v = regs[file][ins.args[2]] /\ w = regs[file][ins.args[n]]
  OBVIOUS
<1>4. PICK word : word = Result(ins.opcode, v, w)
  OBVIOUS
<1>5. /\ Running /\ at[2] \in DOMAIN CodeAt
      /\ ins.opcode \in {"NEG"} \cup ArithmeticOps
      /\ UNCHANGED <<input, instructions, quad_counter, live>>
      /\ UNCHANGED pc /\ UNCHANGED printed
      /\ regs' = [regs EXCEPT ![file][r] = word]
      /\ at' = Behind
  BY <1>1, <1>2, <1>3, <1>4 DEF Calculate, Execute, Put, Argument, Value
<1>6. ins.opcode # "LOAD"
  BY <1>5 DEF ArithmeticOps
<1>7. /\ k \in Positions(quads) /\ q \in Quad /\ Code(q) = <<ins>>
      /\ Assembles(ins)
      /\ \A s \in LoadedAt(k) :
           \E m \in DOMAIN CodeAt : m < at[2] /\ CodeAt[m] = Load(s)
  BY <1>1, <1>5, <1>6, Fetches
<1>8. q.op = ins.opcode
  BY <1>7, CodeFields
<1>9. PICK last : last = IF q.op = "NEG" THEN q.op1 ELSE q.op2
  OBVIOUS
<1>10. /\ file = FileOf(q.res) /\ q.res \in Writes(q) /\ q.op1 \in Reads(q)
       /\ 2 \in DOMAIN ins.args /\ ins.args[2] = Register(q.op1)
       /\ n \in DOMAIN ins.args /\ ins.args[n] = Register(last)
       /\ last \in Reads(q) /\ q.op # "MOVE"
  <2>1. CASE q.op = "NEG"
    <3>1. file = FileOf(q.res) /\ ins.args = <<Register(q.res), Register(q.op1)>>
      BY <2>1, <1>2, <1>7, CodeFields
    <3>2. q.res \in Writes(q) /\ q.op1 \in Reads(q)
      BY <2>1 DEF Reads, Writes
    <3>3. n = 2
      BY <3>1, <1>2
    <3> QED
      BY <3>1, <3>2, <3>3, <2>1, <1>9
  <2>2. CASE q.op \in ArithmeticOps
    <3>1. /\ file = FileOf(q.res)
          /\ ins.args = <<Register(q.res), Register(q.op1), Register(q.op2)>>
      BY <2>2, <1>2, <1>7, CodeFields
    <3>2. q.res \in Writes(q) /\ q.op1 \in Reads(q) /\ q.op2 \in Reads(q)
          /\ q.op # "NEG" /\ q.op # "MOVE"
      BY <2>2 DEF Reads, Writes, ArithmeticOps
    <3>3. n = 3
      BY <3>1, <1>2
    <3> QED
      BY <3>1, <3>2, <3>3, <1>9
  <2> QED
    BY <2>1, <2>2, <1>5, <1>8
<1>11. file \in Files
  BY <1>10 DEF FileOf, Files
<1>12. v \in Word
  BY <1>1, <1>3, <1>7, <1>10, <1>11, OperandNamed
<1>13. w \in Word
  BY <1>1, <1>3, <1>7, <1>10, <1>11, OperandNamed
<1>14. word \in Word
  BY <1>4, <1>5, <1>12, <1>13, MachineAssumption
<1>15. ASSUME InOrder
       PROVE  word \in QM!Computed(q)
  <2>1. CASE Unspecified(q)
    BY <2>1, <1>14, SameReading DEF QM!Computed
  <2>2. CASE ~ Unspecified(q)
    <3>1. PICK s : s = q.op1
      OBVIOUS
    <3>2. v = Store[s]
      BY <3>1, <2>2, <1>1, <1>3, <1>5, <1>7, <1>10, <1>15, OperandRight
    <3>3. w = Store[last]
      BY <2>2, <1>1, <1>3, <1>5, <1>7, <1>10, <1>15, OperandRight
    <3>4. QM!Computed(q) = {Result(q.op, Store[q.op1], Store[last])}
      <4>1. CASE q.op = "NEG"
        BY <4>1, <2>2, <1>9, SameReading DEF QM!Computed, Store
      <4>2. CASE q.op # "NEG"
        BY <4>2, <2>2, <1>9, <1>10, SameReading DEF QM!Computed, Store
      <4> QED
        BY <4>1, <4>2
    <3> QED
      BY <3>1, <3>2, <3>3, <3>4, <1>4, <1>8
  <2> QED
    BY <2>1, <2>2
<1>16. ins.opcode \in {"MOVE", "NEG"} \cup ArithmeticOps
  BY <1>5
<1> QED
  BY <1>1, <1>2, <1>5, <1>14, <1>15, <1>16, ResultStep

\* Where nothing is put in a register, everything keeps its place.
LEMMA JumpStep ==
  ASSUME IInv, Running,
         UNCHANGED <<input, instructions, quad_counter, live>>,
         UNCHANGED pc, UNCHANGED regs,
         NEW k, k = at[1], NEW q, q = quads[k + 1], Writes(q) = {},
         NEW m \in 0 .. Len(quads), at' = <<m, 1>>,
         InOrder => m \in Successors(quads, k),
         InOrder => \A s \in LoadedAt(k) \cap Used : Held(s) = Data[s]
  PROVE  /\ IInv'
         /\ InOrder => Store' = [s \in live[m] |-> Store[s]]
<1>1. /\ UNCHANGED input /\ UNCHANGED live
      /\ UNCHANGED <<instructions, quad_counter>>
      /\ pc' \in {"run", "exited"}
  BY DEF Running
<1>2. Given' /\ Intervals' /\ Translated' /\ Phases' /\ MachineTypes'
  <2>1. regs' \in [Files -> [Registers -> Word]]
    BY DEF IInv, MachineTypes
  <2>2. at'[1] \in 0 .. Len(quads)
    OBVIOUS
  <2> QED
    BY <2>1, <2>2, <1>1, RunKeeps
<1>3. InOrder' = InOrder
  BY <1>1, SameInput
<1>4. ASSUME InOrder
      PROVE  RegistersRight' /\ Store' = [s \in live[m] |-> Store[s]]
  <2>1. \A s : Held(s)' = Held(s)
    BY <1>1, NothingPut
  <2>2. /\ \A s \in (LoadedAt(k) \cap Used) \ Writes(q) : Held(s)' = Data[s]
        /\ \A s \in Symbols \ Writes(q) : Protected(s) => Held(s)' = Held(s)
    BY <2>1, <1>4
  <2>3. /\ \A s \in live[m] \ Writes(q) : s \in live[k] /\ Cell(s)' = Cell(s)
        /\ RegistersRight'
    BY <2>2, <1>1, <1>4, Leave
  <2>4. \A s \in live[m] : s \in live[k] /\ Cell(s)' = Cell(s)
    BY <2>3
  <2>5. Store' = [s \in live[m] |-> Store[s]]
    BY <2>4, <1>1, Kept
  <2> QED
    BY <2>3, <2>5
<1> QED
  BY <1>2, <1>3, <1>4 DEF IInv

\* A label is the number of a quadruple.
LEMMA LabelIs ==
  ASSUME IInv, Running, NEW l \in LabelsOf(instructions)
  PROVE  l \in 0 .. Len(quads)
<1>1. PICK p \in DOMAIN instructions : l = instructions[p].label
  BY DEF LabelsOf
<1>2. /\ quad_counter = Len(quads) /\ Len(quads) \in Nat
      /\ DOMAIN instructions = 1 .. quad_counter
  BY DEF IInv, Phases, Running, Translated, Given, Parsed
<1>3. p - 1 \in 0 .. quad_counter - 1 /\ (p - 1) + 1 = p
  BY <1>1, <1>2
<1>4. PICK n \in Nat : Translates(instructions[(p - 1) + 1], p - 1, n)
  BY <1>3 DEF IInv, Translated
<1>5. l = p - 1
  BY <1>1, <1>3, <1>4 DEF Translates
<1> QED
  BY <1>2, <1>3, <1>5

\* The quadruple has been reached, its loads are done, and its code comes.
LEMMA AtCode ==
  ASSUME IInv, Running, at[2] \in DOMAIN CodeAt,
         NEW k, k = at[1], NEW q, q = quads[k + 1], NEW ins, ins = Fetched,
         ins.opcode # "LOAD"
  PROVE  /\ k \in Positions(quads) /\ k + 1 \in 0 .. Len(quads)
         /\ q \in Quad /\ Code(q) = <<ins>> /\ q.op = ins.opcode
         /\ Assembles(ins)
         /\ Behind = <<k + 1, 1>>
         /\ \A s \in LoadedAt(k) :
              \E m \in DOMAIN CodeAt : m < at[2] /\ CodeAt[m] = Load(s)
         /\ InOrder => \A s \in LoadedAt(k) \cap Used : Held(s) = Data[s]
<1>1. PICK p : p = at[2]
  OBVIOUS
<1>2. /\ p = Len(CodeAt)
      /\ Code(q) = <<ins>>
      /\ \A s \in LoadedAt(k) :
           \E m \in DOMAIN CodeAt : m < p /\ CodeAt[m] = Load(s)
      /\ k \in Positions(quads) /\ q \in Quad
      /\ Assembles(ins)
  BY <1>1, Fetches
<1>3. p \in Nat /\ Len(CodeAt) \in Nat /\ p <= Len(CodeAt)
  BY <1>1, Fetches
<1>4. q.op = ins.opcode
  BY <1>2, CodeFields
<1>5. Behind = <<k + 1, 1>>
  BY <1>1, <1>2, <1>3, BehindIs
<1>6. k + 1 \in 0 .. Len(quads)
  <2>1. Len(quads) \in Nat
    BY DEF IInv, Given, Parsed
  <2> QED
    BY <2>1, <1>2 DEF Positions
<1>7. InOrder => \A s \in LoadedAt(k) \cap Used : Held(s) = Data[s]
  BY <1>1, <1>2, IsLoaded
<1> QED
  BY <1>1, <1>2, <1>4, <1>5, <1>6, <1>7

\* A branch.
LEMMA BranchToStep ==
  IInv /\ BranchTo => IInv' /\ (InOrder => QM!Next \/ UNCHANGED QM!vars)
<1> SUFFICES ASSUME IInv, BranchTo
             PROVE  IInv' /\ (InOrder => QM!Next)
  OBVIOUS
<1>1. PICK k, ins, q : k = at[1] /\ ins = Fetched /\ q = quads[k + 1]
  OBVIOUS
<1>2. PICK m : m = ins.args[1]
  OBVIOUS
<1>3. /\ Running /\ at[2] \in DOMAIN CodeAt /\ ins.opcode = "B"
      /\ UNCHANGED <<input, instructions, quad_counter, live>>
      /\ UNCHANGED input /\ UNCHANGED <<live, pc>>
      /\ UNCHANGED pc /\ UNCHANGED regs /\ printed' = printed
      /\ at' = <<m, 1>>
  BY <1>1, <1>2 DEF BranchTo, Execute, Jump, Argument
<1>4. /\ k \in Positions(quads) /\ q \in Quad /\ Code(q) = <<ins>>
      /\ q.op = "B" /\ Assembles(ins)
      /\ InOrder => \A s \in LoadedAt(k) \cap Used : Held(s) = Data[s]
  BY <1>1, <1>3, AtCode
<1>5. m = Target(q)
  BY <1>2, <1>4, CodeFields
<1>6. m \in 0 .. Len(quads)
  BY <1>2, <1>3, <1>4, LabelIs DEF Assembles
<1>7. Writes(q) = {}
  BY <1>4 DEF Writes, ArithmeticOps
<1>8. InOrder => m \in Successors(quads, k)
  BY <1>1, <1>4, <1>5
     DEF InOrder, WellLabelled, Unresolved, Successors, BranchOps
<1>9. /\ IInv'
      /\ InOrder => Store' = [s \in live[m] |-> Store[s]]
  BY <1>1, <1>3, <1>4, <1>6, <1>7, <1>8, JumpStep
<1>10. InOrder => QM!Next
  BY <1>1, <1>3, <1>4, <1>5, <1>9, PassesQuad
<1> QED
  BY <1>9, <1>10

\* A conditional branch: it compares what the quadruple compares.
LEMMA BranchIfStep ==
  IInv /\ BranchIf => IInv' /\ (InOrder => QM!Next \/ UNCHANGED QM!vars)
<1> SUFFICES ASSUME IInv, BranchIf
             PROVE  IInv' /\ (InOrder => QM!Next)
  OBVIOUS
<1>1. PICK k, ins, q : k = at[1] /\ ins = Fetched /\ q = quads[k + 1]
  OBVIOUS
<1>2. PICK file, l : file = ins.file /\ l = ins.args[3]
  OBVIOUS
<1>3. PICK v, w : v = regs[file][ins.args[1]] /\ w = regs[file][ins.args[2]]
  OBVIOUS
<1>4. PICK m : m = IF Taken(ins.opcode, v, w) THEN l ELSE k + 1
  OBVIOUS
<1>5. /\ Running /\ at[2] \in DOMAIN CodeAt /\ ins.opcode \in ConditionalOps
      /\ UNCHANGED <<input, instructions, quad_counter, live>>
      /\ UNCHANGED input /\ UNCHANGED <<live, pc>>
      /\ UNCHANGED pc /\ UNCHANGED regs /\ printed' = printed
      /\ at' = IF Taken(ins.opcode, v, w) THEN <<l, 1>> ELSE Behind
  BY <1>1, <1>2, <1>3 DEF BranchIf, Execute, Jump, Argument, Value
<1>6. ins.opcode # "LOAD"
  BY <1>5 DEF ConditionalOps
<1>7. /\ k \in Positions(quads) /\ k + 1 \in 0 .. Len(quads)
      /\ q \in Quad /\ Code(q) = <<ins>>
      /\ q.op = ins.opcode /\ Assembles(ins) /\ Behind = <<k + 1, 1>>
      /\ \A s \in LoadedAt(k) :
           \E n \in DOMAIN CodeAt : n < at[2] /\ CodeAt[n] = Load(s)
      /\ InOrder => \A s \in LoadedAt(k) \cap Used : Held(s) = Data[s]
  BY <1>1, <1>5, <1>6, AtCode
<1>8. at' = <<m, 1>>
  BY <1>4, <1>5, <1>7
<1>9. /\ file = FileOf(q.op1)
      /\ ins.args = <<Register(q.op1), Register(q.op2), Target(q)>>
  BY <1>2, <1>5, <1>7, CodeFields
<1>10. /\ l = Target(q)
       /\ ins.args[1] = Register(q.op1) /\ ins.args[2] = Register(q.op2)
  BY <1>2, <1>9
<1>11. m \in 0 .. Len(quads)
  <2>1. l \in LabelsOf(instructions)
    BY <1>2, <1>5, <1>7 DEF Assembles
  <2>2. l \in 0 .. Len(quads)
    BY <2>1, <1>5, LabelIs
  <2> QED
    BY <2>2, <1>4, <1>7
<1>12. Writes(q) = {} /\ q.op1 \in Reads(q) /\ q.op2 \in Reads(q)
  BY <1>5, <1>7 DEF Writes, Reads, ArithmeticOps, ConditionalOps
<1>13. InOrder => m \in Successors(quads, k)
  <2>1. k + 1 \in Successors(quads, k)
    BY <1>1, <1>5, <1>7 DEF Successors, ConditionalOps
  <2>2. InOrder => l \in Successors(quads, k)
    BY <1>1, <1>5, <1>7, <1>10
       DEF InOrder, WellLabelled, Unresolved, Successors, BranchOps
  <2> QED
    BY <2>1, <2>2, <1>4
<1>14. /\ IInv'
       /\ InOrder => Store' = [s \in live[m] |-> Store[s]]
  BY <1>1, <1>5, <1>7, <1>8, <1>11, <1>12, <1>13, JumpStep
<1>15. ASSUME InOrder
       PROVE  \/ /\ Unspecified(q) \/ Taken(q.op, Store[q.op1], Store[q.op2])
                 /\ m = Target(q)
              \/ /\ Unspecified(q) \/ ~ Taken(q.op, Store[q.op1], Store[q.op2])
                 /\ m = k + 1
  <2>1. CASE Unspecified(q)
    BY <2>1, <1>4, <1>10
  <2>2. CASE ~ Unspecified(q)
    <3>1. PICK a, b : a = q.op1 /\ b = q.op2
      OBVIOUS
    <3>2. v = Store[a]
      BY <3>1, <2>2, <1>1, <1>3, <1>5, <1>7, <1>9, <1>10, <1>12, <1>15,
         OperandRight
    <3>3. w = Store[b]
      BY <3>1, <2>2, <1>1, <1>3, <1>5, <1>7, <1>9, <1>10, <1>12, <1>15,
         OperandRight
    <3> QED
      BY <3>1, <3>2, <3>3, <1>4, <1>7, <1>10
  <2> QED
    BY <2>1, <2>2
<1>16. InOrder => QM!Next
  BY <1>1, <1>5, <1>7, <1>8, <1>14, <1>15, PassesQuad
<1> QED
  BY <1>14, <1>16

\* A print: of the symbol the quadruple names, by the call for its type.
LEMMA PrintSyscallStep ==
  IInv /\ PrintSyscall => IInv' /\ (InOrder => QM!Next \/ UNCHANGED QM!vars)
<1> SUFFICES ASSUME IInv, PrintSyscall
             PROVE  IInv' /\ (InOrder => QM!Next)
  OBVIOUS
<1>1. PICK k, ins, q : k = at[1] /\ ins = Fetched /\ q = quads[k + 1]
  OBVIOUS
<1>2. PICK file, word : file = ins.file /\ word = regs[file][ins.args[1]]
  OBVIOUS
<1>3. /\ Running /\ at[2] \in DOMAIN CodeAt
      /\ ins.opcode \in {"PRTI", "PRTF", "PRTS"}
      /\ UNCHANGED <<input, instructions, quad_counter, live>>
      /\ UNCHANGED input /\ UNCHANGED <<live, pc>>
      /\ UNCHANGED pc /\ UNCHANGED regs
      /\ printed' = <<ins.opcode,
                      IF ins.opcode = "PRTS" THEN ins.args[1] ELSE word>>
      /\ at' = Behind
  BY <1>1, <1>2 DEF PrintSyscall, Execute, Argument, Value
<1>4. ins.opcode # "LOAD"
  BY <1>3
<1>5. /\ k \in Positions(quads) /\ k + 1 \in 0 .. Len(quads)
      /\ q \in Quad /\ Code(q) = <<ins>>
      /\ q.op = ins.opcode /\ Behind = <<k + 1, 1>>
      /\ \A s \in LoadedAt(k) :
           \E n \in DOMAIN CodeAt : n < at[2] /\ CodeAt[n] = Load(s)
      /\ InOrder => \A s \in LoadedAt(k) \cap Used : Held(s) = Data[s]
  BY <1>1, <1>3, <1>4, AtCode
<1>6. PICK m : m = k + 1
  OBVIOUS
<1>7. /\ m \in 0 .. Len(quads) /\ at' = <<m, 1>>
      /\ m \in Successors(quads, k)
  BY <1>1, <1>3, <1>5, <1>6 DEF Successors
<1>8. Writes(q) = {}
  BY <1>3, <1>5 DEF Writes, ArithmeticOps
<1>9. /\ IInv'
      /\ InOrder => Store' = [s \in live[m] |-> Store[s]]
  BY <1>1, <1>3, <1>5, <1>7, <1>8, JumpStep
<1>10. ASSUME InOrder
       PROVE  printed' = <<q.op, IF q.op = "PRTS" THEN q.res ELSE Store[q.res]>>
  <2>1. CASE q.op = "PRTS"
    <3>1. ins.args = <<q.res>>
      BY <2>1, <1>5, CodeFields
    <3>2. ins.args[1] = q.res
      BY <3>1
    <3> QED
      BY <3>2, <2>1, <1>3, <1>5
  <2>2. CASE q.op \in {"PRTI", "PRTF"}
    <3>1. PICK s : s = q.res
      OBVIOUS
    <3>2. s \in Reads(q)
      BY <3>1, <2>2 DEF Reads, ArithmeticOps, ConditionalOps
    <3>3. file = FileOf(s) /\ ins.args = <<Register(s)>>
      <4>1. CASE q.op = "PRTI"
        <5>1. Type[s] = "INT"
          BY <4>1, <3>1, <1>1, <1>5, QuadAt DEF IInv
        <5>2. file = "REG" /\ ins.args = <<Register(s)>>
          BY <4>1, <3>1, <1>2, <1>5, CodeFields
        <5> QED
          BY <5>1, <5>2 DEF FileOf
      <4>2. CASE q.op = "PRTF"
        <5>1. Type[s] = "FLOAT"
          BY <4>2, <3>1, <1>1, <1>5, QuadAt DEF IInv
        <5>2. file = "FREG" /\ ins.args = <<Register(s)>>
          BY <4>2, <3>1, <1>2, <1>5, CodeFields
        <5> QED
          BY <5>1, <5>2 DEF FileOf
      <4> QED
        BY <4>1, <4>2, <2>2
    <3>4. ins.args[1] = Register(s)
      BY <3>3
    <3>5. word = Held(s)
      BY <3>3, <3>4, <1>2 DEF Held, Register
    <3>6. s \in live[k] /\ Cell(s) = Held(s)
      BY <3>2, <1>1, <1>3, <1>5, <1>10, OperandsThere
    <3>7. word = Store[s]
      BY <3>5, <3>6, <1>1 DEF Store
    <3> QED
      BY <3>1, <3>7, <2>2, <1>3, <1>5
  <2> QED
    BY <2>1, <2>2, <1>3, <1>5
<1>11. InOrder => QM!Next
  BY <1>1, <1>3, <1>5, <1>6, <1>7, <1>9, <1>10, PassesQuad
<1> QED
  BY <1>9, <1>11

\* Nothing is done.
LEMMA NoOperationStep ==
  IInv /\ NoOperation => IInv' /\ (InOrder => QM!Next \/ UNCHANGED QM!vars)
<1> SUFFICES ASSUME IInv, NoOperation
             PROVE  IInv' /\ (InOrder => QM!Next)
  OBVIOUS
<1>1. PICK k, ins, q : k = at[1] /\ ins = Fetched /\ q = quads[k + 1]
  OBVIOUS
<1>2. /\ Running /\ at[2] \in DOMAIN CodeAt /\ ins.opcode = "NOP"
      /\ UNCHANGED <<input, instructions, quad_counter, live>>
      /\ UNCHANGED input /\ UNCHANGED <<live, pc>>
      /\ UNCHANGED pc /\ UNCHANGED regs /\ printed' = printed
      /\ at' = Behind
  BY <1>1 DEF NoOperation, Execute, Jump
<1>3. /\ k + 1 \in 0 .. Len(quads)
      /\ q.op = "NOP" /\ Behind = <<k + 1, 1>>
      /\ InOrder => \A s \in LoadedAt(k) \cap Used : Held(s) = Data[s]
  BY <1>1, <1>2, AtCode
<1>4. PICK m : m = k + 1
  OBVIOUS
<1>5. /\ m \in 0 .. Len(quads) /\ at' = <<m, 1>>
      /\ m \in Successors(quads, k)
  BY <1>1, <1>2, <1>3, <1>4 DEF Successors
<1>6. Writes(q) = {}
  BY <1>3 DEF Writes, ArithmeticOps
<1>7. /\ IInv'
      /\ InOrder => Store' = [s \in live[m] |-> Store[s]]
  BY <1>1, <1>2, <1>3, <1>5, <1>6, JumpStep
<1>8. InOrder => QM!Next
  BY <1>1, <1>2, <1>3, <1>4, <1>5, <1>7, PassesQuad
<1> QED
  BY <1>7, <1>8

\* A label with nothing behind it.
LEMMA FallThroughStep ==
  IInv /\ FallThrough => IInv' /\ (InOrder => QM!Next \/ UNCHANGED QM!vars)
<1> SUFFICES ASSUME IInv, FallThrough
             PROVE  IInv' /\ (InOrder => QM!Next)
  OBVIOUS
<1>1. PICK k, q : k = at[1] /\ q = quads[k + 1]
  OBVIOUS
<1>2. /\ Running /\ CodeAt = <<>>
      /\ UNCHANGED <<input, instructions, quad_counter, live>>
      /\ UNCHANGED input /\ UNCHANGED live
      /\ UNCHANGED <<live, printed, pc, instructions, quad_counter>>
      /\ UNCHANGED regs /\ pc' \in {"run", "exited"}
      /\ at' = <<k + 1, 1>>
  BY <1>1 DEF FallThrough, Running
<1>3. k \in Positions(quads) /\ q \in Quad
  BY <1>1, <1>2, AtBlock, QuadAt DEF IInv
<1>4. Code(q) = <<>> /\ LoadedAt(k) = {}
  <2>1. PICK n \in Nat : Translates(instructions[k + 1], k, n)
    BY <1>1, <1>2, AtBlock
  <2>2. PICK last : last = Code(q)
    OBVIOUS
  <2>3. PICK body : body = CodeAt
    OBVIOUS
  <2>4. /\ Len(body) = n + Len(last)
        /\ \A s \in LoadedAt(k) : \E m \in 1 .. n : body[m] = Load(s)
    BY <2>1, <2>2, <2>3, <1>1 DEF Translates, CodeAt
  <2>5. \/ last = <<>>
        \/ \E file, args : last = <<Instruction(q.op, file, args)>>
    BY <2>2, <1>3, CodeShape
  <2>6. Len(last) \in {0, 1} /\ Len(body) = 0
    BY <2>3, <2>5, <1>2
  <2>7. n = 0 /\ Len(last) = 0
    <3>1. PICK l : l = Len(last)
      OBVIOUS
    <3>2. l \in {0, 1} /\ n + l = 0
      BY <3>1, <2>4, <2>6
    <3> QED
      BY <3>1, <3>2
  <2>8. last = <<>>
    BY <2>5, <2>7
  <2> QED
    BY <2>2, <2>4, <2>7, <2>8
<1>5. regs' \in [Files -> [Registers -> Word]]
  BY <1>2 DEF IInv, MachineTypes
<1>6. at'[1] \in 0 .. Len(quads)
  <2>1. Len(quads) \in Nat
    BY DEF IInv, Given, Parsed
  <2>2. k + 1 \in 0 .. Len(quads)
    BY <2>1, <1>3 DEF Positions
  <2> QED
    BY <2>2, <1>2
<1>7. Given' /\ Intervals' /\ Translated' /\ Phases' /\ MachineTypes'
  BY <1>2, <1>5, <1>6, RunKeeps
<1>8. InOrder' = InOrder
  BY <1>2, SameInput
<1>9. ASSUME InOrder
      PROVE  RegistersRight' /\ QM!Next
  <2>1. \A s \in LoadedAt(k) \cap Used : Held(s)' = Data[s]
    BY <1>4
  <2>2. \A s \in Symbols : Protected(s) => Held(s)' = Held(s)
    BY <1>2, NothingPut
  <2> QED
    BY <2>1, <2>2, <1>1, <1>2, <1>4, <1>5, <1>9, EndOfLoads
<1> QED
  BY <1>7, <1>8, <1>9 DEF IInv

\* The program ends.
LEMMA ReturnStep ==
  IInv /\ Return => IInv' /\ (InOrder => QM!Next \/ UNCHANGED QM!vars)
<1> SUFFICES ASSUME IInv, Return
             PROVE  IInv' /\ (InOrder => QM!Next)
  OBVIOUS
<1>1. PICK k, ins, q : k = at[1] /\ ins = Fetched /\ q = quads[k + 1]
  OBVIOUS
<1>2. /\ Running /\ at[2] \in DOMAIN CodeAt /\ ins.opcode = "RET"
      /\ UNCHANGED <<input, instructions, quad_counter, live>>
      /\ UNCHANGED input /\ UNCHANGED live
      /\ UNCHANGED <<instructions, quad_counter>>
      /\ UNCHANGED at /\ UNCHANGED regs /\ UNCHANGED printed
      /\ pc' = "exited" /\ pc = "run" /\ pc' \in {"run", "exited"}
  BY <1>1 DEF Return, Execute, Running
<1>3. q.op = "RET"
  BY <1>1, <1>2, AtCode
<1>4. Given' /\ Intervals' /\ Translated' /\ Phases' /\ MachineTypes'
  <2>1. regs' \in [Files -> [Registers -> Word]] /\ at'[1] \in 0 .. Len(quads)
    BY <1>2 DEF IInv, MachineTypes
  <2> QED
    BY <2>1, <1>2, RunKeeps
<1>5. InOrder' = InOrder
  BY <1>2, SameInput
<1>6. /\ quads' = quads /\ start_point' = start_point
      /\ end_point' = end_point /\ affected_register' = affected_register
      /\ live' = live
  BY <1>2 DEF input
<1>7. \A s : Written(s)' = Written(s) /\ LoadedAgain(s)' = LoadedAgain(s)
  BY <1>2, SameInput
<1>8. ASSUME InOrder
      PROVE  RegistersRight'
  <2>1. \A s : Protected(s)' = Protected(s)
    BY <1>2, <1>6, <1>7 DEF Protected, Used
  <2>2. \A s : Held(s)' = Held(s)
    BY <1>2, NothingPut
  <2>3. CodeAt' = CodeAt /\ Used' = Used
    BY <1>2, <1>6 DEF CodeAt, Used
  <2> QED
    BY <2>1, <2>2, <2>3, <1>2, <1>6, <1>7, <1>8 DEF RegistersRight, IInv
<1>9. QM!Next
  <2>1. \A s : Cell(s)' = Cell(s)
    BY <1>2, <1>6, <1>7 DEF Cell, FileOf
  <2>2. Store' = Store
    BY <2>1, <1>2 DEF Store
  <2>3. QM!Halt(q)
    BY <2>2, <1>2, <1>3, <1>6 DEF QM!Halt, Store
  <2> QED
    BY <2>3, <1>1, <1>2 DEF QM!Next, QM!Step
<1> QED
  BY <1>4, <1>5, <1>8, <1>9 DEF IInv

-----------------------------------------------------------------------------
(***************************************************************************)
(* Theorems.                                                               *)
(***************************************************************************)

\* What the quadruple machine sees does not change while code is written.
LEMMA Unseen ==
  IInv /\ (Generate \/ Assemble) => UNCHANGED QM!vars
<1> SUFFICES ASSUME IInv, Generate \/ Assemble
             PROVE  UNCHANGED QM!vars
  OBVIOUS
<1>1. /\ UNCHANGED input /\ UNCHANGED machine
      /\ pc # "exited" /\ pc' # "exited"
  BY DEF Generate, Crash, GenerateQuad, Generated, Assemble, machine
<1>2. /\ quads' = quads /\ start_point' = start_point
      /\ affected_register' = affected_register
      /\ live' = live /\ regs' = regs /\ at' = at /\ printed' = printed
  BY <1>1 DEF input, machine
<1>3. \A s : Cell(s)' = Cell(s)
  BY <1>2 DEF Cell, Written, FileOf
<1>4. UNCHANGED <<live, printed>> /\ at'[1] = at[1]
  BY <1>2
<1> QED
  BY <1>1, <1>3, <1>4, SameStore

\* Every step keeps the invariant, and is a step of the quadruple machine or
\* one it does not see.
LEMMA StepIInv ==
  IInv /\ [Next]_vars => IInv' /\ [InOrder => QM!Next]_(QM!vars)
<1> SUFFICES ASSUME IInv, [Next]_vars
             PROVE  IInv' /\ (InOrder => QM!Next \/ UNCHANGED QM!vars)
  OBVIOUS
<1>1. CASE Generate
  BY <1>1, GenerateStep, Unseen
<1>2. CASE Assemble
  BY <1>2, AssembleStep, Unseen
<1>3. CASE LoadWord
  BY <1>3, LoadWordStep
<1>4. CASE MoveRegister
  BY <1>4, MoveRegisterStep
<1>5. CASE Calculate
  BY <1>5, CalculateStep
<1>6. CASE BranchTo
  BY <1>6, BranchToStep
<1>7. CASE BranchIf
  BY <1>7, BranchIfStep
<1>8. CASE PrintSyscall
  BY <1>8, PrintSyscallStep
<1>9. CASE NoOperation
  BY <1>9, NoOperationStep
<1>10. CASE FallThrough
  BY <1>10, FallThroughStep
<1>11. CASE Return
  BY <1>11, ReturnStep
<1>12. CASE UNCHANGED vars
  <2>1. UNCHANGED input /\ UNCHANGED machine
        /\ UNCHANGED <<instructions, quad_counter>> /\ UNCHANGED pc
    BY <1>12 DEF vars
  <2>2. /\ quads' = quads /\ start_point' = start_point
        /\ end_point' = end_point /\ affected_register' = affected_register
        /\ live' = live /\ regs' = regs /\ at' = at /\ printed' = printed
        /\ instructions' = instructions /\ quad_counter' = quad_counter
        /\ pc' = pc
    BY <2>1 DEF input, machine
  <2>3. UNCHANGED QM!vars
    BY <2>2 DEF QM!vars, Cell, Written, FileOf
  <2>4. Given' /\ Intervals' /\ Translated'
    BY <2>1, <2>2, SameInput, SameCode DEF IInv
  <2>5. Phases' /\ MachineTypes'
    <3>1. \A ins : Assembles(ins)' = Assembles(ins)
      BY <2>2 DEF Assembles, LabelsOf, Labelled
    <3> QED
      BY <3>1, <2>2 DEF IInv, Phases, MachineTypes
  <2>6. (InOrder => RegistersRight)'
    <3>1. /\ InOrder' = InOrder
          /\ \A s : Written(s)' = Written(s) /\ LoadedAgain(s)' = LoadedAgain(s)
      BY <2>1, <2>2, SameInput
    <3>2. \A s : Protected(s)' = Protected(s) /\ Held(s)' = Held(s)
      BY <3>1, <2>2 DEF Protected, Used, Held, FileOf
    <3>3. CodeAt' = CodeAt /\ Used' = Used
      BY <2>2 DEF CodeAt, Used
    <3> QED
      BY <3>1, <3>2, <3>3, <2>2 DEF IInv, RegistersRight
  <2> QED
    BY <2>3, <2>4, <2>5, <2>6 DEF IInv
<1> QED
  BY <1>1, <1>2, <1>3, <1>4, <1>5, <1>6, <1>7, <1>8, <1>9, <1>10, <1>11,
     <1>12 DEF Next

\* The strengthened invariant holds throughout: where the registers are in
\* orderly use, those of the symbols still needed hold what they should.
THEOREM Invariance == Spec => []IInv
<1>1. IInv /\ [Next]_vars => IInv'
  BY StepIInv
<1> QED
  BY InitIInv, <1>1, PTL DEF Spec

\* Every variable holds a value of its kind, whatever the program: no step of
\* the processor, also none of a program with lost labels or mixed types that
\* the assembler took, leaves the blocks or the words.
THEOREM TypeCorrect == Spec => []TypeOK
<1>1. IInv => TypeOK
  <2> SUFFICES ASSUME IInv
               PROVE  TypeOK
    OBVIOUS
  <2>1. quads \in Seq(Quad) /\ Len(quads) \in Nat
    BY DEF IInv, Given, Parsed
  <2>2. \A q \in Range(quads) : q \in Quad
    BY <2>1 DEF Range
  <2>3. quad_counter = Len(instructions) /\ quad_counter <= Len(quads)
    BY <2>1 DEF IInv, Translated
  <2>4. \A k \in DOMAIN instructions : instructions[k].label = k - 1
    <3> TAKE k \in DOMAIN instructions
    <3>1. quad_counter \in Nat /\ DOMAIN instructions = 1 .. quad_counter
      BY <2>1 DEF IInv, Translated
    <3>2. k - 1 \in 0 .. quad_counter - 1 /\ (k - 1) + 1 = k
      BY <3>1
    <3>3. PICK n \in Nat : Translates(instructions[(k - 1) + 1], k - 1, n)
      BY <3>2 DEF IInv, Translated
    <3> QED
      BY <3>2, <3>3 DEF Translates
  <2> QED
    BY <2>2, <2>3, <2>4 DEF TypeOK, IInv, Given, Phases, MachineTypes
<1> QED
  BY <1>1, Invariance, PTL

\* Of every program whose loads and loops are orderly, of any length, on any
\* number of registers and with any words, the machine code does what the
\* quadruples say: each step of the processor is a step of the quadruple
\* machine, or a load it does not see.
THEOREM RegistersDoWhatQuadsSay == Spec => ImplementsQuads
<1>0. IInv /\ Orderly => InOrder
  <2> SUFFICES ASSUME IInv, Orderly
               PROVE  Parted
    BY DEF Orderly, Compiled, InOrder
  <2>1. Used \subseteq Mentioned
    BY ValueStarts DEF IInv
  <2> QED
    BY <2>1 DEF Orderly, Compiled, Allocated, Parted
<1>1. Init => (Orderly => QM!Init)
  <2> SUFFICES ASSUME Init, Orderly
               PROVE  QM!Init
    OBVIOUS
  <2>1. IInv
    BY InitIInv
  <2>2. at[1] = 0 /\ printed = NULL /\ pc = "generate"
    BY DEF Init, StartFrom, InitFrom
  <2>3. IsLiveness(quads, live)
    BY <2>1 DEF IInv, Given, Orderly, Compiled
  <2>4. QM!IsLiveness(quads, live)
    <3>1. \A q : QM!Reads(q) = Reads(q) /\ QM!Writes(q) = Writes(q)
      BY SameReading
    <3>2. QM!Positions(quads) = Positions(quads)
      BY DEF QM!Positions, Positions
    <3>3. \A k : QM!Successors(quads, k) = Successors(quads, k)
      BY DEF QM!Successors, Successors, QM!BranchOps, BranchOps,
             QM!ConditionalOps, ConditionalOps, QM!Target, Target
    <3> QED
      BY <2>3, <3>1, <3>2, <3>3 DEF QM!IsLiveness, IsLiveness
  <2>5. \A s \in live[0] : Cell(s) = Data[s]
    <3> SUFFICES ASSUME NEW s \in live[0], Written(s)
                 PROVE  0 <= start_point[s]
      BY <2>2 DEF Cell
    <3>1. s \in Used
      BY DEF Written, Used, ValuesOf
    <3>2. start_point[s] \in Positions(quads)
      BY <3>1, <2>1, ValueStarts DEF IInv
    <3> QED
      BY <3>2 DEF Positions
  <2> QED
    BY <2>2, <2>4, <2>5 DEF QM!Init
<1>2. IInv /\ [Next]_vars => [Orderly => QM!Next]_(QM!vars)
  BY <1>0, StepIInv
<1> QED
  BY <1>1, <1>2, Invariance, PTL DEF Spec, ImplementsQuads

-----------------------------------------------------------------------------
(***************************************************************************)
(* The passes together.  What is proved of Lifetime and of LinearScan is   *)
(* taken over for the variables of Backend; its steps are theirs.          *)
(* MaxQuads and MaxPoint bound only the initial states of their own        *)
(* specifications, which are not used here: programs and intervals are     *)
(* as long as they are.                                                    *)
(***************************************************************************)

\* What is proved of compute_symbols_lifetime().
LP == INSTANCE LifetimeProofs WITH
        quad_counter <- visited, pc <- lifetime_pc, MaxQuads <- 0

\* What is proved of linear_scan_register_allocation().
SP == INSTANCE LinearScanProofs WITH pc <- allocator_pc, MaxPoint <- 0

\* A step of the pass is a step of the instance its proofs are about.
LEMMA SameLife == Life!Next => LP!Next
<1>1. Life!Reset => LP!Reset
  BY DEF Life!Reset, LP!Reset, Life!POINT_INIT, LP!POINT_INIT
<1>2. Life!VisitQuad => LP!VisitQuad
  BY DEF Life!VisitQuad, LP!VisitQuad, Life!POINT_INIT, LP!POINT_INIT,
         Life!Counted, LP!Counted, Life!Operands, LP!Operands,
         Life!Later, LP!Later
<1>3. Life!Warn => LP!Warn
  BY DEF Life!Warn, LP!Warn
<1> QED
  BY <1>1, <1>2, <1>3 DEF Life!Next, LP!Next

\* The intervals stay as tight as the quadruples visited so far allow.
LEMMA TakesOver ==
  ASSUME visited \in Nat, LP!Prologue, LP!LifetimeTight, Life!Next
  PROVE  LP!LifetimeTight'
<1>1. LP!Next
  BY SameLife
<1>2. /\ Constant \subseteq Symbols /\ NULL \notin Symbols
      /\ Garbage \in Int /\ 0 \in Nat
  BY QuadsAssumption, BackendAssumption
<1> QED
  BY <1>1, <1>2, LP!TightStep

\* The two instances of the allocator have the same operators ...
LEMMA ScanOperators ==
  /\ Scan!Registers = SP!Registers
  /\ Scan!Cells = SP!Cells
  /\ Scan!Current = SP!Current
  /\ Scan!LastActive = SP!LastActive
  /\ Scan!FreeRegisters = SP!FreeRegisters
  /\ Scan!TooManyActive = SP!TooManyActive
  /\ Scan!Expired = SP!Expired
  /\ \A s, key : Scan!SortedBy(s, key) = SP!SortedBy(s, key)
  /\ \A k : Scan!ActiveWithout(k) = SP!ActiveWithout(k)
<1>1. Scan!Registers = SP!Registers
  BY DEF Scan!Registers, SP!Registers
<1>2. Scan!Cells = SP!Cells
  BY <1>1 DEF Scan!Cells, SP!Cells, Scan!REGISTER_NONE, SP!REGISTER_NONE
<1>3. Scan!Current = SP!Current
  BY DEF Scan!Current, SP!Current
<1>4. Scan!LastActive = SP!LastActive
  BY DEF Scan!LastActive, SP!LastActive
<1>5. Scan!FreeRegisters = SP!FreeRegisters
  BY <1>1 DEF Scan!FreeRegisters, SP!FreeRegisters
<1>6. Scan!TooManyActive = SP!TooManyActive
  BY DEF Scan!TooManyActive, SP!TooManyActive
<1>7. Scan!Expired = SP!Expired
  BY <1>3 DEF Scan!Expired, SP!Expired
<1>8. \A s, key : Scan!SortedBy(s, key) = SP!SortedBy(s, key)
  BY DEF Scan!SortedBy, SP!SortedBy, Scan!Sorted, SP!Sorted,
         Scan!Range, SP!Range
<1>9. \A k : Scan!ActiveWithout(k) = SP!ActiveWithout(k)
  BY DEF Scan!ActiveWithout, SP!ActiveWithout, Scan!RemoveAt, SP!RemoveAt
<1> QED
  BY <1>1, <1>2, <1>3, <1>4, <1>5, <1>6, <1>7, <1>8, <1>9

\* ... and the same steps.
LEMMA SameScan == Scan!Next => SP!Next
<1>1. Scan!NextSymbol \/ Scan!Finish \/ Scan!ExpireDone =>
        SP!NextSymbol \/ SP!Finish \/ SP!ExpireDone
  BY ScanOperators
     DEF Scan!NextSymbol, SP!NextSymbol, Scan!Finish, SP!Finish,
         Scan!ExpireDone, SP!ExpireDone, Scan!intervals, SP!intervals,
         Scan!allocation, SP!allocation
<1>2. Scan!Expire => SP!Expire
  BY ScanOperators
     DEF Scan!Expire, SP!Expire, Scan!FreeRegister, SP!FreeRegister,
         Scan!intervals, SP!intervals
<1>3. Scan!PlacedCurrent = SP!PlacedCurrent
  BY DEF Scan!PlacedCurrent, SP!PlacedCurrent
<1>4. \A s, others : Scan!Activate(s, others) = SP!Activate(s, others)
  BY ScanOperators DEF Scan!Activate, SP!Activate
<1>5. \A s : Scan!Spill(s) = SP!Spill(s)
  BY ScanOperators DEF Scan!Spill, SP!Spill
<1>6. Scan!Assign => SP!Assign
  BY <1>3, <1>4, ScanOperators
     DEF Scan!Assign, SP!Assign, Scan!intervals, SP!intervals
<1>7. Scan!AssignBelow => SP!AssignBelow
  BY <1>3, <1>4, ScanOperators
     DEF Scan!AssignBelow, SP!AssignBelow, Scan!intervals, SP!intervals,
         Scan!REGISTER_NONE, SP!REGISTER_NONE
<1>8. Scan!AssignNothing => SP!AssignNothing
  BY <1>3, <1>4, ScanOperators
     DEF Scan!AssignNothing, SP!AssignNothing, Scan!intervals, SP!intervals,
         Scan!REGISTER_NONE, SP!REGISTER_NONE
<1>9. Scan!SpillLast => SP!SpillLast
  BY <1>3, <1>4, <1>5, ScanOperators
     DEF Scan!SpillLast, SP!SpillLast, Scan!intervals, SP!intervals
<1>10. Scan!SpillCurrent => SP!SpillCurrent
  BY <1>3, <1>4, <1>5, ScanOperators
     DEF Scan!SpillCurrent, SP!SpillCurrent, Scan!intervals, SP!intervals
<1> QED
  BY <1>1, <1>2, <1>6, <1>7, <1>8, <1>9, <1>10
     DEF Scan!Next, SP!Next, Scan!Place, SP!Place

\* A step of the allocator keeps its invariant and who came first.
LEMMA Takes ==
  ASSUME SP!IInv, SP!KeepsRegister, Scan!Next
  PROVE  SP!IInv' /\ SP!KeepsRegister'
<1>1. [SP!Next]_(SP!vars)
  BY SameScan
<1>2. /\ SP!IsFiniteSet(Symbols) /\ MAX_REGISTERS \in Nat \ {0} /\ 0 \in Nat
      /\ Size \in [Symbols -> Nat \ {0}] /\ NULL \notin Symbols
      /\ Foreign \notin Symbols \cup {NULL}
  BY QuadsAssumption, CodeGenAssumption, BackendAssumption
     DEF IsFiniteSet, SP!IsFiniteSet
<1>3. SP!IInv'
  BY <1>1, <1>2, SP!StepIInv
<1>4. SP!KeepsRegister'
  BY <1>1, <1>2, SP!KeepsStep
<1> QED
  BY <1>3, <1>4

\* What the allocator starts with is enough for both.
LEMMA StartsNext == SP!Starting' => SP!IInv' /\ SP!KeepsRegister'
<1>1. /\ SP!IsFiniteSet(Symbols) /\ MAX_REGISTERS \in Nat \ {0} /\ 0 \in Nat
      /\ Size \in [Symbols -> Nat \ {0}] /\ NULL \notin Symbols
      /\ Foreign \notin Symbols \cup {NULL}
  BY QuadsAssumption, CodeGenAssumption, BackendAssumption
     DEF IsFiniteSet, SP!IsFiniteSet
<1>2. SP!Starting => SP!IInv /\ SP!KeepsRegister
  BY <1>1, SP!StartIInv, SP!StartKeeps
<1> QED
  BY <1>2, PTL

\* Where nothing of the allocator changes, nothing is lost.
LEMMA StaysAllocated ==
  ASSUME SP!IInv, SP!KeepsRegister, UNCHANGED SP!vars
  PROVE  SP!IInv' /\ SP!KeepsRegister'
<1>1. /\ SP!IsFiniteSet(Symbols) /\ MAX_REGISTERS \in Nat \ {0} /\ 0 \in Nat
      /\ Size \in [Symbols -> Nat \ {0}] /\ NULL \notin Symbols
      /\ Foreign \notin Symbols \cup {NULL}
  BY QuadsAssumption, CodeGenAssumption, BackendAssumption
     DEF IsFiniteSet, SP!IsFiniteSet
<1>2. SP!IInv'
  BY <1>1, SP!StepIInv
<1>3. SP!KeepsRegister'
  BY <1>1, SP!KeepsStep
<1> QED
  BY <1>2, <1>3

\* What the two instances call differently is the same.
LEMMA ScanWords ==
  /\ SP!Cardinality(Symbols) = Cardinality(Symbols)
  /\ SP!IsFiniteSet(Symbols) = IsFiniteSet(Symbols)
  /\ \A f : SP!Range(f) = Range(f)
  /\ \A s, key : SP!Sorted(s, key) = Scan!Sorted(s, key)
  /\ SP!Registers = Registers
  /\ SP!Cells = Registers \cup {REGISTER_NONE}
  /\ Scan!Cells = SP!Cells
  /\ SP!REGISTER_NONE = REGISTER_NONE
  /\ SP!POINT_INIT = POINT_INIT
<1>1. SP!Cardinality(Symbols) = Cardinality(Symbols)
  BY DEF SP!Cardinality, Cardinality
<1>2. SP!IsFiniteSet(Symbols) = IsFiniteSet(Symbols)
  BY DEF SP!IsFiniteSet, IsFiniteSet
<1>3. \A f : SP!Range(f) = Range(f)
  BY DEF SP!Range, Range
<1>4. \A s, key : SP!Sorted(s, key) = Scan!Sorted(s, key)
  BY DEF SP!Sorted, Scan!Sorted
<1>5. SP!REGISTER_NONE = REGISTER_NONE /\ SP!POINT_INIT = POINT_INIT
  BY DEF SP!REGISTER_NONE, REGISTER_NONE, SP!POINT_INIT, POINT_INIT
<1>6. SP!Registers = Registers
  BY DEF SP!Registers, Registers
<1>7. SP!Cells = Registers \cup {REGISTER_NONE}
  BY <1>5, <1>6 DEF SP!Cells
<1> QED
  BY <1>1, <1>2, <1>3, <1>4, <1>5, <1>6, <1>7, ScanOperators

-----------------------------------------------------------------------------
(***************************************************************************)
(* The invariant of the passes together: the program is what the parser    *)
(* made, the intervals are those of the quadruples visited, the registers  *)
(* are as LinearScanProofs has them from the first symbol on, and the code *)
(* is as above once they are given.                                        *)
(***************************************************************************)

\* What a quadruple names besides its result it computes with: wherever one
\* is made, the operands it has no use for are NULL (actions.c:35, 110, 121,
\* 183, 201, 230-279, main.c:90).
OperandsRead(program) ==
  \A k \in Positions(program) :
    {program[k + 1].op1, program[k + 1].op2}
      \subseteq Reads(program[k + 1]) \cup {NULL}

\* Any program the actions of the parser can make.
BackendInit ==
  \E program \in Seq(Quad) :
    /\ Parsed(program)
    /\ OperandsRead(program)
    /\ \E uses \in [Positions(program) -> SUBSET Symbols] :
         /\ WellLabelled(program) => IsLiveness(program, uses)
         /\ StartBackend(program, uses)

\* No fairness: what is proved is what the passes never do.
BackendSpec == BackendInit /\ [][NextStep]_backend

\* No pass changes the program.
Program ==
  /\ Parsed(quads)
  /\ OperandsRead(quads)
  /\ live \in [Positions(quads) -> SUBSET Symbols]
  /\ WellLabelled(quads) => IsLiveness(quads, live)

\* What Lifetime has found of the quadruples visited.
Lives ==
  /\ start_point \in [Symbols -> Int]
  /\ end_point \in [Symbols -> Int]
  /\ visited \in 0 .. Len(quads)
  /\ lifetime_pc = "done" => visited = Len(quads)
  /\ lifetime_pc \in {"reset", "visit", "done"}
  /\ LP!Prologue
  /\ LP!LifetimeTight

\* The table of the allocator before the allocation.
Empty ==
  /\ active_symbols = <<>>
  /\ registers = [r \in Scan!Cells |-> NULL]
  /\ stack_location = [s \in Symbols |-> 0]
  /\ current_stack_location = 0
  /\ i = 1
  /\ j = 1
  /\ errors = {}

\* Nothing has been allocated, or all that LinearScanProofs says holds.
Allocation ==
  IF allocator_pc = "called" THEN Empty
  ELSE lifetime_pc = "done" /\ SP!IInv /\ SP!KeepsRegister

\* Nothing has been generated, or it is as the generator and spim have it.
Execution == IF allocator_pc = "done" THEN IInv ELSE Untouched

\* All four: they hold at every step of the back end.
BackendInv == Program /\ Lives /\ Allocation /\ Execution

\* When all quadruples have been visited, each interval goes from the first
\* mention of its symbol to the last one.
LEMMA LivesAreIntervals ==
  Program /\ Lives /\ lifetime_pc = "done" =>
    Intervals /\ \A s \in Symbols : start_point[s] <= end_point[s]
<1> SUFFICES ASSUME Program, Lives, lifetime_pc = "done", NEW s \in Symbols
             PROVE  /\ start_point[s] \in Mentions(quads, s) \cup {POINT_INIT}
                    /\ end_point[s] \in Int
                    /\ \A k \in Mentions(quads, s) :
                         start_point[s] <= k /\ k <= end_point[s]
                    /\ Mentions(quads, s) # {} => start_point[s] # POINT_INIT
                    /\ Mentions(quads, s) = {} => end_point[s] = POINT_INIT
                    /\ start_point[s] <= end_point[s]
  BY DEF Intervals
<1>1. visited = Len(quads) /\ Len(quads) \in Nat
  BY DEF Lives, Program, Parsed
<1>2. LP!Uses(s) = Mentions(quads, s)
  <2>1. s # NULL
    BY QuadsAssumption
  <2> QED
    BY <1>1, <2>1 DEF LP!Uses, LP!Operands, Mentions, Positions
<1>3. PICK places : places = Mentions(quads, s)
  OBVIOUS
<1>4. \A k \in places : k \in Int /\ k >= 0
  BY <1>1, <1>3 DEF Mentions, Positions
<1>5. /\ places = {} => start_point[s] = POINT_INIT /\ end_point[s] = POINT_INIT
      /\ places # {} =>
           /\ start_point[s] \in places /\ end_point[s] \in places
           /\ \A k \in places : start_point[s] <= k /\ k <= end_point[s]
  <2>1. LP!LifetimeTight
    BY DEF Lives
  <2>2. LP!POINT_INIT = POINT_INIT
    BY DEF LP!POINT_INIT, POINT_INIT
  <2> QED
    BY <2>1, <2>2, <1>2, <1>3 DEF LP!LifetimeTight
<1> QED
  BY <1>3, <1>4, <1>5 DEF POINT_INIT

\* The same of the next state.
LEMMA LivesAreIntervalsNext ==
  Program' /\ Lives' /\ lifetime_pc' = "done" =>
    Intervals' /\ \A s \in Symbols : start_point'[s] <= end_point'[s]
<1>1. (Program /\ Lives /\ lifetime_pc = "done" =>
        Intervals /\ \A s \in Symbols : start_point[s] <= end_point[s])'
  BY LivesAreIntervals, PTL
<1> QED
  BY <1>1

\* Code generation starts in order, whenever it does.
LEMMA StartIInvNext == Given' /\ Intervals' /\ Untouched' => IInv'
<1>1. Given /\ Intervals /\ Untouched => IInv
  BY StartIInv
<1> QED
  BY <1>1, PTL

\* Every program starts that way.
LEMMA BackendInitInv == BackendInit => BackendInv
<1> SUFFICES ASSUME NEW program \in Seq(Quad), Parsed(program),
                    OperandsRead(program),
                    NEW uses \in [Positions(program) -> SUBSET Symbols],
                    WellLabelled(program) => IsLiveness(program, uses),
                    StartBackend(program, uses)
             PROVE  BackendInv
  BY DEF BackendInit
<1>1. /\ quads = program /\ live = uses /\ visited = 0 /\ unused = {}
      /\ lifetime_pc = "reset" /\ allocator_pc = "called"
      /\ start_point = [s \in Symbols |-> Garbage]
      /\ end_point = [s \in Symbols |-> Garbage]
  BY DEF StartBackend
<1>2. Program
  BY <1>1 DEF Program
<1>3. Lives
  <2>1. Len(quads) \in Nat
    BY <1>1
  <2> QED
    BY <2>1, <1>1, BackendAssumption DEF Lives, LP!Prologue, LP!LifetimeTight
<1>4. Allocation
  BY <1>1 DEF StartBackend, Allocation, Empty
<1>5. Execution
  BY <1>1 DEF StartBackend, Execution, Untouched
<1> QED
  BY <1>2, <1>3, <1>4, <1>5 DEF BackendInv

\* The first pass writes the intervals; the others have not started.
LEMMA ComputeLifetimesStep ==
  ASSUME BackendInv, ComputeLifetimes
  PROVE  BackendInv'
<1>1. /\ Life!Next /\ UNCHANGED allocator /\ UNCHANGED code
  BY DEF ComputeLifetimes
<1>2. LP!Next
  BY <1>1, SameLife
<1>3. lifetime_pc # "done" /\ quads' = quads
  BY <1>2 DEF LP!Next, LP!Reset, LP!VisitQuad, LP!Warn
<1>4. allocator_pc = "called"
  BY <1>3 DEF BackendInv, Allocation
<1>5. Program'
  BY <1>1, <1>3 DEF BackendInv, Program, code, machine
<1>6. Lives'
  <2>1. Lives /\ Len(quads) \in Nat /\ visited \in Nat
    BY DEF BackendInv, Lives, Program, Parsed
  <2>2. LP!LifetimeTight'
    BY <1>1, <2>1, TakesOver DEF Lives
  <2>3. CASE LP!Reset
    BY <2>1, <2>2, <2>3 DEF LP!Reset, Lives, LP!Prologue, LP!POINT_INIT
  <2>4. CASE LP!VisitQuad
    <3>1. /\ visited' = visited + 1 /\ visited < Len(quads)
          /\ lifetime_pc = "visit" /\ lifetime_pc' = "visit" /\ quads' = quads
      BY <2>4 DEF LP!VisitQuad, LP!Counted
    <3>2. start_point' \in [Symbols -> Int]
      BY <2>1, <2>4 DEF LP!VisitQuad, Lives
    <3>3. end_point' \in [Symbols -> Int]
      BY <2>1, <2>4 DEF LP!VisitQuad, Lives, LP!Later
    <3> QED
      BY <2>1, <2>2, <3>1, <3>2, <3>3 DEF Lives, LP!Prologue
  <2>5. CASE LP!Warn
    BY <2>1, <2>2, <2>5 DEF LP!Warn, Lives, LP!Prologue
  <2> QED
    BY <2>3, <2>4, <2>5, <1>2 DEF LP!Next
<1>7. Allocation'
  BY <1>1, <1>4 DEF BackendInv, Allocation, Empty, allocator
<1>8. Execution'
  BY <1>1, <1>4 DEF BackendInv, Execution, Untouched, allocator, code, machine
<1> QED
  BY <1>5, <1>6, <1>7, <1>8 DEF BackendInv

\* The orders of the symbols hold each of them once.
LEMMA OrdersArePermutations ==
  ASSUME NEW t \in Orders
  PROVE  t \in [1 .. Cardinality(Symbols) -> Symbols] /\ Range(t) = Symbols
<1>1. PICK n : n = Cardinality(Symbols)
  OBVIOUS
<1>2. n \in Nat /\ IsFiniteSet(1 .. n) /\ Cardinality(1 .. n) = n
  BY <1>1, BackendAssumption, FS_CardinalityType, FS_Interval
<1>3. /\ t \in [1 .. n -> Symbols]
      /\ \A m, l \in 1 .. n : m # l => t[m] # t[l]
  BY <1>1 DEF Orders, SetToSeqs
<1>4. t \in Injection(1 .. n, Symbols)
  BY <1>3 DEF Injection, IsInjective
<1>5. t \in Surjection(1 .. n, Symbols)
  BY <1>1, <1>2, <1>4, BackendAssumption, FS_Injection
<1> QED
  BY <1>1, <1>3, <1>5 DEF Surjection, Range

\* The allocator starts with what LinearScanProofs lets it start with.
LEMMA StartAllocationStep ==
  ASSUME BackendInv, StartAllocation
  PROVE  BackendInv'
<1>1. /\ lifetime_pc = "done" /\ allocator_pc = "called"
      /\ affected_register' = [s \in Symbols |-> REGISTER_NONE]
      /\ live_symbols' \in Orders /\ Scan!Sorted(live_symbols', start_point)
      /\ \E below \in {NULL, Foreign} :
           registers' = [registers EXCEPT ![REGISTER_NONE] = below]
      /\ allocator_pc' = "next"
      /\ UNCHANGED <<quads, start_point, end_point, lifetimes, active_symbols,
                     stack_location, current_stack_location, i, j, errors, code>>
  BY DEF StartAllocation
<1>2. /\ quads' = quads /\ start_point' = start_point
      /\ end_point' = end_point /\ life_time' = life_time
      /\ visited' = visited /\ unused' = unused /\ lifetime_pc' = lifetime_pc
      /\ active_symbols' = active_symbols
      /\ stack_location' = stack_location
      /\ current_stack_location' = current_stack_location
      /\ i' = i /\ j' = j /\ errors' = errors
      /\ instructions' = instructions /\ quad_counter' = quad_counter
      /\ pc' = pc /\ live' = live /\ regs' = regs /\ at' = at
      /\ printed' = printed
  BY <1>1 DEF lifetimes, code, machine
<1>3. Program' /\ Lives'
  BY <1>2 DEF BackendInv, Program, Lives, LP!Prologue, LP!LifetimeTight, LP!Uses
<1>4. Execution'
  BY <1>1, <1>2 DEF BackendInv, Execution, Untouched
<1>5. SP!Starting'
  <2>1. /\ start_point \in [Symbols -> Int] /\ end_point \in [Symbols -> Int]
        /\ \A s \in Symbols : start_point[s] <= end_point[s]
    BY <1>1, LivesAreIntervals DEF BackendInv, Lives
  <2>2. /\ live_symbols' \in [1 .. SP!Cardinality(Symbols) -> Symbols]
        /\ SP!Range(live_symbols') = Symbols
        /\ SP!Sorted(live_symbols', start_point)
    BY <1>1, OrdersArePermutations, ScanWords
  <2>3. Empty
    BY <1>1 DEF BackendInv, Allocation
  <2>4. \E below \in {NULL, Foreign} :
          registers' = [r \in SP!Cells |->
                          IF r = SP!REGISTER_NONE THEN below ELSE NULL]
    BY <1>1, <2>3, ScanWords DEF Empty
  <2>5. SP!InitFrom(start_point, end_point)'
    <3>1. /\ affected_register' = [s \in Symbols |-> SP!REGISTER_NONE]
          /\ active_symbols' = <<>> /\ stack_location' = [s \in Symbols |-> 0]
          /\ current_stack_location' = 0 /\ i' = 1 /\ j' = 1 /\ errors' = {}
          /\ allocator_pc' = "next"
      BY <1>1, <1>2, <2>3, ScanWords DEF Empty
    <3> QED
      BY <3>1, <2>2, <2>4, <1>2 DEF SP!InitFrom
  <2> QED
    BY <2>1, <2>5, <1>2 DEF SP!Starting
<1>6. SP!IInv' /\ SP!KeepsRegister'
  BY <1>5, StartsNext
<1> QED
  BY <1>1, <1>2, <1>3, <1>4, <1>6 DEF BackendInv, Allocation

\* The symbols have the registers that the code generator takes.
LEMMA AllocationTypes ==
  SP!IInv => affected_register \in [Symbols -> Registers \cup {REGISTER_NONE}]
BY ScanWords DEF SP!IInv, SP!FieldsOK

\* The same of the next state.
LEMMA AllocationTypesNext ==
  SP!IInv' => affected_register' \in [Symbols -> Registers \cup {REGISTER_NONE}]
<1>1. (SP!IInv =>
        affected_register \in [Symbols -> Registers \cup {REGISTER_NONE}])'
  BY AllocationTypes, PTL
<1> QED
  BY <1>1

\* The allocator keeps its invariant; when it ends, the code generator finds
\* what its own invariant starts from.
LEMMA AllocateStep ==
  ASSUME BackendInv, Allocate
  PROVE  BackendInv'
<1>1. Scan!Next /\ UNCHANGED <<quads, lifetimes, code>>
  BY DEF Allocate
<1>2. SP!Next
  BY <1>1, SameScan
<1>3. /\ allocator_pc \in {"next", "expire", "place"}
      /\ allocator_pc' \in {"next", "expire", "place", "done", "crashed"}
      /\ UNCHANGED SP!intervals
  BY <1>2 DEF SP!Next, SP!NextSymbol, SP!Finish, SP!Expire, SP!ExpireDone,
              SP!Place, SP!Assign, SP!AssignBelow, SP!AssignNothing,
              SP!SpillLast, SP!SpillCurrent, SP!PlacedCurrent
<1>4. /\ quads' = quads /\ start_point' = start_point
      /\ end_point' = end_point /\ life_time' = life_time
      /\ visited' = visited /\ unused' = unused /\ lifetime_pc' = lifetime_pc
      /\ instructions' = instructions /\ quad_counter' = quad_counter
      /\ pc' = pc /\ live' = live /\ regs' = regs /\ at' = at
      /\ printed' = printed
  BY <1>1, <1>3 DEF lifetimes, code, machine, SP!intervals
<1>5. Program' /\ Lives'
  BY <1>4 DEF BackendInv, Program, Lives, LP!Prologue, LP!LifetimeTight, LP!Uses
<1>6. lifetime_pc = "done" /\ SP!IInv /\ SP!KeepsRegister
  BY <1>3 DEF BackendInv, Allocation
<1>7. SP!IInv' /\ SP!KeepsRegister'
  BY <1>1, <1>6, Takes
<1>8. Allocation'
  BY <1>3, <1>4, <1>6, <1>7 DEF Allocation
<1>9. Untouched'
  BY <1>3, <1>4 DEF BackendInv, Execution, Untouched
<1>10. IInv'
  <2>1. Intervals'
    BY <1>4, <1>5, <1>6, LivesAreIntervalsNext
  <2>2. Given'
    BY <1>5, <1>7, AllocationTypesNext DEF Program, Given
  <2> QED
    BY <2>1, <2>2, <1>9, StartIInvNext
<1> QED
  BY <1>5, <1>8, <1>9, <1>10 DEF BackendInv, Execution

\* What is generated and run leaves alone what it is given.
LEMMA MachineKeepsInput ==
  ASSUME [Next]_vars
  PROVE  UNCHANGED input /\ UNCHANGED live
<1>1. CASE Generate
  BY <1>1 DEF Generate, Crash, GenerateQuad, Generated, machine
<1>2. CASE Assemble
  BY <1>2 DEF Assemble, machine
<1>3. CASE LoadWord \/ MoveRegister \/ Calculate \/ BranchTo \/ BranchIf
           \/ PrintSyscall \/ NoOperation \/ Return
  BY <1>3 DEF LoadWord, MoveRegister, Calculate, BranchTo, BranchIf,
              PrintSyscall, NoOperation, Return, Execute
<1>4. CASE FallThrough
  BY <1>4 DEF FallThrough
<1>5. CASE UNCHANGED vars
  BY <1>5 DEF vars, machine
<1> QED
  BY <1>1, <1>2, <1>3, <1>4, <1>5 DEF Next

\* Generator and spim keep theirs, and leave the other passes alone.
LEMMA GenerateAndRunStep ==
  ASSUME BackendInv, GenerateAndRun \/ UNCHANGED backend
  PROVE  BackendInv'
<1>1. [Next]_vars /\ UNCHANGED <<lifetimes, allocator>>
  BY DEF GenerateAndRun, backend, vars, code
<1>2. UNCHANGED input /\ UNCHANGED live
  BY <1>1, MachineKeepsInput
<1>3. /\ quads' = quads /\ start_point' = start_point
      /\ end_point' = end_point /\ affected_register' = affected_register
      /\ life_time' = life_time /\ live' = live
      /\ visited' = visited /\ unused' = unused /\ lifetime_pc' = lifetime_pc
      /\ live_symbols' = live_symbols /\ active_symbols' = active_symbols
      /\ registers' = registers /\ stack_location' = stack_location
      /\ current_stack_location' = current_stack_location
      /\ i' = i /\ j' = j /\ errors' = errors /\ allocator_pc' = allocator_pc
  BY <1>1, <1>2 DEF lifetimes, allocator, input
<1>4. Program' /\ Lives'
  BY <1>3 DEF BackendInv, Program, Lives, LP!Prologue, LP!LifetimeTight, LP!Uses
<1>5. Allocation'
  <2>1. CASE allocator_pc = "called"
    BY <2>1, <1>3 DEF BackendInv, Allocation, Empty
  <2>2. CASE allocator_pc # "called"
    <3>1. SP!IInv /\ SP!KeepsRegister
      BY <2>2 DEF BackendInv, Allocation
    <3>2. UNCHANGED SP!vars
      BY <1>3 DEF SP!vars, SP!intervals, SP!allocation
    <3>3. SP!IInv' /\ SP!KeepsRegister'
      BY <3>1, <3>2, StaysAllocated
    <3> QED
      BY <2>2, <3>3, <1>3 DEF BackendInv, Allocation
  <2> QED
    BY <2>1, <2>2
<1>6. Execution'
  <2>1. CASE allocator_pc = "done"
    <3>1. IInv
      BY <2>1 DEF BackendInv, Execution
    <3>2. IInv'
      BY <3>1, <1>1, StepIInv
    <3> QED
      BY <3>2, <2>1, <1>3 DEF Execution
  <2>2. CASE allocator_pc # "done"
    <3>1. UNCHANGED code
      BY <2>2 DEF GenerateAndRun, backend
    <3> QED
      BY <3>1, <2>2, <1>3 DEF BackendInv, Execution, Untouched, code, machine
  <2> QED
    BY <2>1, <2>2
<1> QED
  BY <1>4, <1>5, <1>6 DEF BackendInv

\* No step of any pass leaves the invariant.
LEMMA BackendStep == BackendInv /\ [NextStep]_backend => BackendInv'
BY ComputeLifetimesStep, StartAllocationStep, AllocateStep, GenerateAndRunStep
   DEF NextStep

-----------------------------------------------------------------------------
(***************************************************************************)
(* A symbol that is not on the stack shares its register with none that    *)
(* came after it and whose interval meets its own.  If no value is on the  *)
(* stack, whatever shares a register with a value came before it and is no *)
(* value: it is loaded no later, and in front of a quadruple that does not *)
(* compute with it.                                                        *)
(***************************************************************************)
LEMMA NotSpilledIsParted ==
  ASSUME BackendInv, allocator_pc = "done",
         \A s \in Values : stack_location[s] = 0
  PROVE  Parted
<1>1. SP!IInv /\ SP!KeepsRegister /\ Intervals /\ Given
  BY LivesAreIntervals DEF BackendInv, Allocation, Execution, IInv
<1>2. \A s \in Used : s \in Symbols /\ stack_location[s] = 0
  <2>1. quads \in Seq(Quad)
    BY DEF BackendInv, Program, Parsed
  <2>2. \A k \in Positions(quads) : quads[k + 1] \in Range(quads)
    BY <2>1 DEF Positions, Range
  <2>3. Used \subseteq Values
    BY <2>2 DEF Used, ValuesOf, Values
  <2>4. Used \subseteq Symbols
    BY DEF BackendInv, Program, Parsed, Used
  <2> QED
    BY <2>3, <2>4
<1>3. SUFFICES ASSUME NEW s \in Used, NEW t \in Mentioned, t # s,
                      Overlap(s, t),
                      affected_register[s] = affected_register[t],
                      affected_register[t] \in Registers
               PROVE  GivesWay(t, s)
  BY DEF Parted
<1>4. s \in Symbols /\ t \in Symbols /\ ~ SP!OnStack(s)
  BY <1>2 DEF Mentioned, SP!OnStack
<1>5. /\ i > Len(live_symbols) /\ i \in 1 .. Len(live_symbols) + 1
      /\ DOMAIN live_symbols = 1 .. Len(live_symbols)
      /\ Len(live_symbols) \in Nat
      /\ Range(live_symbols) = Symbols
      /\ Scan!Sorted(live_symbols, start_point)
      /\ start_point \in [Symbols -> Int] /\ end_point \in [Symbols -> Int]
  <2>1. /\ SP!FieldsOK /\ SP!LiveOK
    BY <1>1 DEF SP!IInv
  <2>2. i > Len(live_symbols)
    BY <1>1 DEF SP!KeepsRegister
  <2>3. /\ live_symbols \in Seq(Symbols) /\ i \in 1 .. Len(live_symbols) + 1
        /\ start_point \in [Symbols -> Int] /\ end_point \in [Symbols -> Int]
    BY <2>1 DEF SP!FieldsOK
  <2>4. Range(live_symbols) = Symbols /\ Scan!Sorted(live_symbols, start_point)
    BY <2>1, ScanWords DEF SP!LiveOK
  <2> QED
    BY <2>2, <2>3, <2>4
<1>6. PICK m \in 1 .. i - 1 : s = live_symbols[m]
  BY <1>4, <1>5 DEF Range
<1>7. PICK n \in 1 .. i - 1 : t = live_symbols[n]
  BY <1>4, <1>5 DEF Range
<1>8. SP!Overlap(s, t)
  BY <1>3 DEF SP!Overlap, Overlap
<1>9. t \notin Used
  <2> SUFFICES ASSUME t \in Used
               PROVE  FALSE
    OBVIOUS
  <2>1. ~ SP!OnStack(t)
    BY <1>2 DEF SP!OnStack
  <2>2. s \in SP!Placed /\ t \in SP!Placed
    BY <1>6, <1>7 DEF SP!Placed
  <2>3. SP!NoClobber
    BY <1>1 DEF SP!IInv
  <2> QED
    BY <2>1, <2>2, <2>3, <1>3, <1>4, <1>8 DEF SP!NoClobber
<1>10. ~ (m < n)
  <2>1. affected_register[t] # SP!REGISTER_NONE
    BY <1>3, ScanWords DEF REGISTER_NONE, Registers
  <2> QED
    BY <2>1, <1>1, <1>3, <1>4, <1>6, <1>7, <1>8 DEF SP!KeepsRegister
<1>11. start_point[t] <= start_point[s]
  <2>1. n < m
    BY <1>3, <1>5, <1>6, <1>7, <1>10
  <2>2. m \in DOMAIN live_symbols /\ n \in DOMAIN live_symbols
    BY <1>5
  <2>3. Scan!Sorted(live_symbols, start_point)
    BY <1>5
  <2>4. start_point[live_symbols[n]] <= start_point[live_symbols[m]]
    BY <2>1, <2>2, <2>3 DEF Scan!Sorted
  <2> QED
    BY <2>4, <1>6, <1>7
<1>12. t \notin {quads[start_point[t] + 1].op1, quads[start_point[t] + 1].op2}
  <2>1. PICK k : k = start_point[t]
    OBVIOUS
  <2>2. k \in Positions(quads)
    <3>1. k \in Mentions(quads, t)
      BY <1>1, <1>4, <2>1 DEF Intervals, Mentioned
    <3> QED
      BY <3>1 DEF Mentions
  <2>3. {quads[k + 1].op1, quads[k + 1].op2} \subseteq Used \cup {NULL}
    <3>1. {quads[k + 1].op1, quads[k + 1].op2}
            \subseteq Reads(quads[k + 1]) \cup {NULL}
      BY <2>2 DEF BackendInv, Program, OperandsRead
    <3>2. Reads(quads[k + 1]) \subseteq Used
      BY <2>2 DEF Used, ValuesOf
    <3> QED
      BY <3>1, <3>2
  <2>4. t # NULL
    BY <1>4, QuadsAssumption
  <2> QED
    BY <2>1, <2>3, <2>4, <1>9
<1> QED
  BY <1>9, <1>11, <1>12 DEF GivesWay

\* main() runs the passes one after the other and asks none how it went.  Of
\* any program the parser can make, with any number of symbols on any number
\* of registers and with any garbage in the fields, if the allocator puts no
\* value of the program on the stack, the code does what the quadruples say,
\* whatever errors were printed on the way and whatever labels took registers.
THEOREM PassesTogether == BackendSpec => WrongOnlyWhenSpilled
<1>1. BackendSpec => []BackendInv
  BY BackendInitInv, BackendStep, PTL DEF BackendSpec
<1>2. ASSUME BackendInv, [NextStep]_backend, allocator_pc = "done",
             \A s \in Values : stack_location[s] = 0,
             WellLabelled(quads), JumpsKeepLoads, LoopTailsQuiet
      PROVE  [QM!Next]_(QM!vars)
  <2>1. IInv /\ lifetime_pc = "done"
    BY <1>2 DEF BackendInv, Execution, Allocation
  <2>2. InOrder
    BY <1>2, NotSpilledIsParted DEF InOrder
  <2>3. [Next]_vars
    <3>1. ~ ComputeLifetimes
      BY <2>1 DEF ComputeLifetimes, Life!Next, Life!Reset, Life!VisitQuad,
                  Life!Warn
    <3>2. ~ StartAllocation
      BY <1>2 DEF StartAllocation
    <3>3. ~ Allocate
      BY <1>2 DEF Allocate, Scan!Next, Scan!NextSymbol, Scan!Finish,
                  Scan!Expire, Scan!ExpireDone, Scan!Place, Scan!Assign,
                  Scan!AssignBelow, Scan!AssignNothing, Scan!SpillLast,
                  Scan!SpillCurrent
    <3>4. GenerateAndRun \/ UNCHANGED backend
      BY <3>1, <3>2, <3>3, <1>2 DEF NextStep
    <3> QED
      BY <3>4 DEF GenerateAndRun, backend, vars, code
  <2>4. [InOrder => QM!Next]_(QM!vars)
    BY <2>1, <2>3, StepIInv
  <2> QED
    BY <2>2, <2>4
<1>3. BackendInv /\ [NextStep]_backend =>
        [/\ allocator_pc = "done"
         /\ \A s \in Values : stack_location[s] = 0
         /\ WellLabelled(quads) /\ JumpsKeepLoads /\ LoopTailsQuiet
         => [QM!Next]_(QM!vars)]_backend
  BY <1>2
<1> QED
  BY <1>1, <1>3, PTL DEF BackendSpec, WrongOnlyWhenSpilled
=============================================================================
