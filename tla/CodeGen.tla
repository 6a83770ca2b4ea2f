------------------------------ MODULE CodeGen -------------------------------
(***************************************************************************)
(* generate_code() of mips/translation.c.  Its input is what the earlier   *)
(* passes leave: quad_list, a start point in every symbol (Lifetime) and a *)
(* register in every symbol (LinearScan, when it printed no error).        *)
(*                                                                         *)
(* The instruction list is a sequence of blocks, one per turn of the loop: *)
(* the label L<quad_counter> and the instructions up to the next label.    *)
(* The two register files have one numbering: register r of a FLOAT symbol *)
(* is FREG_STR[r], of any other REG_STR[r].  The three instructions of a   *)
(* print, the last of them a syscall, touch no register that is allocated  *)
(* and are one here.                                                       *)
(*                                                                         *)
(* A definition marked "variant" is the one that follows it with a slip    *)
(* put in; no specification uses it.                                       *)
(***************************************************************************)
EXTENDS Quads, Functions

CONSTANTS MAX_REGISTERS

ASSUME CodeGenAssumption == MAX_REGISTERS \in Nat \ {0}

Registers == 0 .. MAX_REGISTERS - 1

\* What the allocator leaves in a symbol it has no register for.  The name of
\* the register is then read below an array of names.
REGISTER_NONE == -1

Files == {"REG", "FREG"}

VARIABLES quads,              \* quad_list
          start_point,
          end_point,
          affected_register,
          instructions,
          quad_counter,
          pc                  \* what goes on: see Machine for the rest

input == <<quads, start_point, end_point, affected_register>>

\* The file a symbol is loaded to.
FileOf(s) == IF Type[s] = "FLOAT" THEN "FREG" ELSE "REG"

Instruction(opcode, file, args) ==
  [opcode |-> opcode, file |-> file, args |-> args]

-----------------------------------------------------------------------------
(***************************************************************************)
(* The loads in front of a quadruple.                                      *)
(***************************************************************************)

\* The operators whose res is not loaded.  BE is not one of them.
LabelOnly == {"B", "BNE", "BLT", "BGT", "BLTE", "BGTE", "PRTS"}

\* load_symbol_in_register()
Load(s) == Instruction("LOAD", FileOf(s), <<affected_register[s], s>>)

\* variant: loaded at the last mention
LoadedAtEnd(s) == s # NULL /\ end_point[s] = quad_counter

\* The symbol is mentioned here for the first time.
LoadedHere(s) == s # NULL /\ start_point[s] = quad_counter

LoadIf(condition, s) == IF condition THEN <<Load(s)>> ELSE <<>>

Loads(q) ==
  LoadIf(LoadedHere(q.res) /\ q.op \notin LabelOnly, q.res)
  \o LoadIf(LoadedHere(q.op1), q.op1)
  \o LoadIf(LoadedHere(q.op2), q.op2)

-----------------------------------------------------------------------------
(***************************************************************************)
(* The instruction of a quadruple.                                         *)
(***************************************************************************)
Register(s) == affected_register[s]

MoveCode(q) ==
  <<Instruction("MOVE", FileOf(q.res), <<Register(q.res), Register(q.op1)>>)>>

\* NEG and the operators: nothing for a string or a matrix.
NegCode(q) ==
  IF Type[q.res] \in {"INT", "FLOAT"}
    THEN <<Instruction("NEG", FileOf(q.res),
                       <<Register(q.res), Register(q.op1)>>)>>
    ELSE <<>>

ArithmeticCode(q) ==
  IF Type[q.res] \in {"INT", "FLOAT"}
    THEN <<Instruction(q.op, FileOf(q.res),
                       <<Register(q.res), Register(q.op1), Register(q.op2)>>)>>
    ELSE <<>>

\* The type of the left operand decides.
CompareCode(q) ==
  IF Type[q.op1] \in {"INT", "FLOAT"}
    THEN <<Instruction(q.op, FileOf(q.op1),
                       <<Register(q.op1), Register(q.op2), Target(q)>>)>>
    ELSE <<>>

\* variant: a return is not translated
CodeWithoutReturn(q) ==
  CASE q.op = "MOVE" -> MoveCode(q)
    [] q.op = "NEG" -> NegCode(q)
    [] q.op \in ArithmeticOps -> ArithmeticCode(q)
    [] q.op = "B" -> <<Instruction("B", "REG", <<Target(q)>>)>>
    [] q.op \in ConditionalOps -> CompareCode(q)
    [] q.op = "PRTI" -> <<Instruction("PRTI", "REG", <<Register(q.res)>>)>>
    [] q.op = "PRTF" -> <<Instruction("PRTF", "FREG", <<Register(q.res)>>)>>
    [] q.op = "PRTS" -> <<Instruction("PRTS", "REG", <<q.res>>)>>
    [] OTHER -> <<>>

Code(q) ==
  CASE q.op = "MOVE" -> MoveCode(q)
    [] q.op = "NEG" -> NegCode(q)
    [] q.op \in ArithmeticOps -> ArithmeticCode(q)
    [] q.op = "B" -> <<Instruction("B", "REG", <<Target(q)>>)>>
    [] q.op \in ConditionalOps -> CompareCode(q)
    [] q.op = "PRTI" -> <<Instruction("PRTI", "REG", <<Register(q.res)>>)>>
    [] q.op = "PRTF" -> <<Instruction("PRTF", "FREG", <<Register(q.res)>>)>>
    [] q.op = "PRTS" -> <<Instruction("PRTS", "REG", <<q.res>>)>>
    [] OTHER -> <<Instruction(q.op, "REG", <<>>)>>

-----------------------------------------------------------------------------
(***************************************************************************)
(* The loop.                                                               *)
(***************************************************************************)

\* The ends of an interval, as Lifetime promises them (LifetimeTight).
POINT_INIT == -1
First(places) ==
  CHOOSE k \in places \cup {POINT_INIT} :
    \A m \in places : k \in places /\ k <= m
LastOne(places) ==
  CHOOSE k \in places \cup {POINT_INIT} : \A m \in places : m <= k

InitFrom(program, registers) ==
  /\ quads = program
  /\ start_point = [s \in Symbols |-> First(Mentions(program, s))]
  /\ end_point = [s \in Symbols |-> LastOne(Mentions(program, s))]
  /\ affected_register = registers
  /\ instructions = <<>>
  /\ quad_counter = 0
  /\ pc = "generate"

Current == quads[quad_counter + 1]

Block == Loads(Current) \o Code(Current)

Nameless(code) ==
  \E i \in DOMAIN code : REGISTER_NONE \in Range(code[i].args)

\* The label of a branch that was never completed is read through NULL, and
\* the word below the names of the registers need not be a pointer.
Crash ==
  /\ pc = "generate"
  /\ quad_counter < Len(quads)
  /\ IF Unresolved(Current) THEN TRUE ELSE Nameless(Block)
  /\ pc' = "crashed"
  /\ UNCHANGED <<input, instructions, quad_counter>>

\* variant: a NOP is not counted
GenerateSkippingNop ==
  /\ pc = "generate"
  /\ quad_counter < Len(quads)
  /\ ~ Unresolved(Current)
  /\ instructions' = Append(instructions,
                            [label |-> quad_counter, code |-> Block])
  /\ quad_counter' = quad_counter + (IF Current.op = "NOP" THEN 0 ELSE 1)
  /\ UNCHANGED <<input, pc>>

GenerateQuad ==
  /\ pc = "generate"
  /\ quad_counter < Len(quads)
  /\ ~ Unresolved(Current)
  /\ instructions' = Append(instructions,
                            [label |-> quad_counter, code |-> Block])
  /\ quad_counter' = quad_counter + 1
  /\ UNCHANGED <<input, pc>>

Generated ==
  /\ pc = "generate"
  /\ quad_counter = Len(quads)
  /\ pc' = "assemble"
  /\ UNCHANGED <<input, instructions, quad_counter>>
=============================================================================
