------------------------------ MODULE Machine -------------------------------
(***************************************************************************)
(* generate_code() followed by what becomes of its output: the assembler,  *)
(* then the processor, one instruction per step.  Both belong to spim,     *)
(* which tests/test.sh runs on what the compiler writes.  Memory is the    *)
(* data section; no instruction the compiler emits stores to it.           *)
(*                                                                         *)
(* The question is whether the registers do what the quadruples say: the   *)
(* machine is compared with QuadMachine.                                   *)
(*                                                                         *)
(* A definition marked "variant" is the one that follows it with a slip    *)
(* put in; no specification uses it.                                       *)
(***************************************************************************)
EXTENDS CodeGen

CONSTANTS Word, Result(_, _, _), Taken(_, _, _),
          Junk       \* what a register holds before anything is put in it

ASSUME MachineAssumption ==
  /\ Junk \in Word
  /\ \A s \in Symbols : Data[s] \in Word
  /\ \A op \in {"NEG"} \cup ArithmeticOps, v, w \in Word :
       Result(op, v, w) \in Word

VARIABLES live,      \* where the value of a symbol may still be used; the
                     \*   program does not know it, only the comparison does
          regs,      \* the two register files
          at,        \* the block and the instruction that comes next
          printed    \* what the last print showed

machine == <<live, regs, at, printed>>
vars == <<input, instructions, quad_counter, pc, machine>>

-----------------------------------------------------------------------------
(***************************************************************************)
(* The assembler.                                                          *)
(***************************************************************************)

\* The symbols symbol_table_print_data_section() makes a label for.
Labelled == {s \in Symbols : s \in Constant \/ Type[s] # "STRING"}

LabelsOf(code) == {code[i].label : i \in DOMAIN code}

Assembles(i) ==
  /\ REGISTER_NONE \notin Range(i.args)
  /\ i.opcode = "B" => i.args[1] \in LabelsOf(instructions)
  /\ i.opcode \in ConditionalOps =>
       /\ i.file = "REG"        \* no comparison of floats takes a label
       /\ i.args[3] \in LabelsOf(instructions)
  /\ i.opcode = "LOAD" => i.args[2] \in Labelled
  /\ i.opcode = "PRTS" => i.args[1] \in Labelled

Assemble ==
  /\ pc = "assemble"
  /\ pc' = IF \A k \in DOMAIN instructions :
                \A i \in Range(instructions[k].code) : Assembles(i)
             THEN "run" ELSE "rejected"
  /\ UNCHANGED <<input, instructions, quad_counter, machine>>

-----------------------------------------------------------------------------
(***************************************************************************)
(* The processor.                                                          *)
(***************************************************************************)
Running == pc = "run" /\ at[1] < Len(instructions)

CodeAt == instructions[at[1] + 1].code

\* The instruction that comes next, and that it is executed.
Fetched == CodeAt[at[2]]

Execute(opcodes) ==
  /\ Running
  /\ at[2] \in DOMAIN CodeAt
  /\ Fetched.opcode \in opcodes
  /\ UNCHANGED <<input, instructions, quad_counter, live>>

\* The place behind it; no time is spent on a label.
Behind == IF at[2] < Len(CodeAt) THEN <<at[1], at[2] + 1>> ELSE <<at[1] + 1, 1>>

Argument(n) == Fetched.args[n]
Value(n) == regs[Fetched.file][Argument(n)]

Put(word) ==
  /\ regs' = [regs EXCEPT ![Fetched.file][Argument(1)] = word]
  /\ at' = Behind
  /\ UNCHANGED <<pc, printed>>

LoadWord == Execute({"LOAD"}) /\ Put(Data[Argument(2)])

MoveRegister == Execute({"MOVE"}) /\ Put(Value(2))

Calculate ==
  /\ Execute({"NEG"} \cup ArithmeticOps)
  /\ Put(Result(Fetched.opcode, Value(2), Value(Len(Fetched.args))))

Jump(place) ==
  /\ at' = place
  /\ UNCHANGED <<pc, regs, printed>>

BranchTo == Execute({"B"}) /\ Jump(<<Argument(1), 1>>)

BranchIf ==
  /\ Execute(ConditionalOps)
  /\ Jump(IF Taken(Fetched.opcode, Value(1), Value(2))
            THEN <<Argument(3), 1>> ELSE Behind)

PrintSyscall ==
  /\ Execute({"PRTI", "PRTF", "PRTS"})
  /\ printed' = <<Fetched.opcode,
                  IF Fetched.opcode = "PRTS" THEN Argument(1) ELSE Value(1)>>
  /\ at' = Behind
  /\ UNCHANGED <<pc, regs>>

NoOperation == Execute({"NOP"}) /\ Jump(Behind)

\* Nothing but labels up to the next block.
FallThrough ==
  /\ Running
  /\ CodeAt = <<>>
  /\ at' = <<at[1] + 1, 1>>
  /\ UNCHANGED <<input, instructions, quad_counter, pc, live, regs, printed>>

\* jal $ra: back to where main was called from, which exits.
Return ==
  /\ Execute({"RET"})
  /\ pc' = "exited"
  /\ UNCHANGED <<at, regs, printed>>

-----------------------------------------------------------------------------
StartFrom(program, registers, uses) ==
  /\ InitFrom(program, registers)
  /\ live = uses
  /\ regs = [file \in Files |-> [r \in Registers |-> Junk]]
  /\ at = <<0, 1>>
  /\ printed = NULL

Generate == (Crash \/ GenerateQuad \/ Generated) /\ UNCHANGED machine

Next ==
  \/ Generate
  \/ Assemble
  \/ LoadWord
  \/ MoveRegister
  \/ Calculate
  \/ BranchTo
  \/ BranchIf
  \/ PrintSyscall
  \/ NoOperation
  \/ FallThrough
  \/ Return

\* One compiler and one processor, which do not stop on their own.
Fairness == WF_vars(Next)

-----------------------------------------------------------------------------
(***************************************************************************)
(* What the code generator needs of a program and of its registers.        *)
(***************************************************************************)

\* What the allocator promises when it printed no error (NoClobber and
\* CompleteWhenSilent of LinearScan): every symbol mentioned has a register,
\* of its own as long as it is in its interval.
Overlap(s, t) ==
  /\ start_point[s] <= end_point[t]
  /\ start_point[t] <= end_point[s]

Mentioned == {s \in Symbols : Mentions(quads, s) # {}}

Allocated ==
  \A s \in Mentioned :
    /\ affected_register[s] # REGISTER_NONE
    /\ \A t \in Mentioned \ {s} :
         Overlap(s, t) => affected_register[s] # affected_register[t]

Steps == {e \in Positions(quads) \X Positions(quads) :
            e[2] \in Successors(quads, e[1])}

Written(s) == \E k \in Positions(quads) : s \in Writes(quads[k + 1])

\* No step to where a symbol may be used jumps over the place where it is
\* loaded, and none goes back to that place when the symbol may have changed.
JumpsKeepLoads ==
  \A e \in Steps : \A s \in live[e[2]] :
    /\ e[2] > start_point[s] => e[1] >= start_point[s]
    /\ start_point[s] \in e[2] .. e[1] => ~ Written(s)

\* A symbol that does not change and is loaded again before each use.
LoadedAgain(s) ==
  /\ ~ Written(s)
  /\ \A e \in Steps :
       e[1] > end_point[s] => e[2] \notin start_point[s] + 1 .. end_point[s]

\* The symbols put in a register by a quadruple.
Overwrites(k) ==
  Writes(quads[k + 1]) \cup {s \in Mentioned : start_point[s] = k}

\* Behind its interval a symbol that may be used again, in the next turn of a
\* loop, does not lose its register.
LoopTailsQuiet ==
  \A e \in Steps : \A s \in live[e[2]] :
    end_point[s] < e[1] /\ ~ LoadedAgain(s) =>
      \A t \in Overwrites(e[1]) \ {s} :
        affected_register[t] # affected_register[s]

\* Labelled and allocated: the earlier passes did all they could.
Compiled == WellLabelled(quads) /\ Allocated

Orderly == Compiled /\ JumpsKeepLoads /\ LoopTailsQuiet

\* Every quadruple has a meaning, and there are instructions for it: floats
\* are not compared (translation.c:200-217 gives c.lt.s a label).
Supported ==
  \A q \in Range(quads) :
    /\ ~ Unspecified(q)
    /\ q.op \in ConditionalOps => Type[q.op1] = "INT"
    /\ q.op = "PRTS" => q.res \in Labelled

Forward == \A e \in Steps : e[1] < e[2]

-----------------------------------------------------------------------------
(***************************************************************************)
(* Properties.                                                             *)
(***************************************************************************)

\* Every variable holds a value of its kind; the instructions are those of
\* whole quadruples, in their order.
TypeOK ==
  /\ \A q \in Range(quads) : q \in Quad
  /\ affected_register \in [Symbols -> Registers \cup {REGISTER_NONE}]
  /\ quad_counter = Len(instructions)
  /\ quad_counter <= Len(quads)
  /\ \A k \in DOMAIN instructions : instructions[k].label = k - 1
  /\ pc \in {"generate", "crashed", "assemble", "rejected", "run", "exited"}
  /\ regs \in [Files -> [Registers -> Word]]
  /\ at[1] \in 0 .. Len(quads)

\* The cells of the quadruple machine: before its load a symbol is still in
\* memory, then in its register; a symbol that does not change is both.
Cell(s) ==
  IF at[1] <= start_point[s] \/ ~ Written(s) THEN Data[s]
  ELSE regs[FileOf(s)][affected_register[s]]

QM == INSTANCE QuadMachine WITH
        next <- at[1],
        store <- [s \in live[at[1]] |-> Cell(s)],
        halted <- pc = "exited"

\* The registers do what the quadruples say ("res = op1 + op2", quad.h:8-27),
\* in every program whose loads are on the paths to the uses and whose loops
\* leave alone the registers of what they read again: each symbol is loaded
\* in time, at its first mention (translation.c:95-105), no load or result
\* falls on a register still in use, also not the label a BE loads
\* (translation.c:96-97), and a quadruple of mixed types (actions.c:35), which
\* may compute any word here, spoils no other symbol.
ImplementsQuads ==
  /\ Orderly => QM!Init
  /\ [][Orderly => QM!Next]_(QM!vars)

\* The same of every program the earlier passes found nothing wrong with: the
\* comments of quad.h have no exception for loops and jumps.
RunsAsWritten ==
  /\ Compiled => QM!Init
  /\ [][Compiled => QM!Next]_(QM!vars)

\* A program without loops comes to its RET, and jal $ra ends it
\* (translation.c:246): nothing in it is refused by the assembler or left
\* out.
ForwardProgramsReturn ==
  Orderly /\ Supported /\ Forward => <>(pc = "exited")
=============================================================================
