------------------------------ MODULE Backend -------------------------------
(***************************************************************************)
(* The back end as main() runs it: compute_symbols_lifetime(), then        *)
(* generate_code(), which allocates the registers first, then spim.  The   *)
(* passes have no parameters; they hand over what they found in the fields *)
(* of the symbols: Lifetime writes start_point and end_point, LinearScan   *)
(* reads them and writes affected_register, CodeGen reads all three.       *)
(* Neither main() nor generate_code() asks how a pass went, so a program   *)
(* for which the allocator has printed errors is translated like any.      *)
(***************************************************************************)
EXTENDS Machine, SequencesExt

CONSTANTS Garbage,   \* what an uninitialised int holds
          Size,      \* the field `size' of each symbol
          Foreign    \* what can be found below the register array

ASSUME BackendAssumption ==
  /\ IsFiniteSet(Symbols)
  /\ Garbage \in Int
  /\ Size \in [Symbols -> Nat \ {0}]
  /\ Foreign \notin Symbols \cup {NULL}

VARIABLES life_time, visited, unused, lifetime_pc,
          live_symbols, active_symbols, registers, stack_location,
          current_stack_location, i, j, errors, allocator_pc

lifetimes == <<life_time, visited, unused, lifetime_pc>>
allocator == <<live_symbols, active_symbols, registers, stack_location,
               current_stack_location, i, j, errors, allocator_pc>>
code == <<instructions, quad_counter, pc, machine>>
backend == <<input, lifetimes, allocator, code>>

Life == INSTANCE Lifetime WITH
          quad_counter <- visited, pc <- lifetime_pc, MaxQuads <- 0

Scan == INSTANCE LinearScan WITH pc <- allocator_pc, MaxPoint <- 0

\* Nothing of what the passes are going to write has been set.
StartBackend(program, uses) ==
  /\ quads = program
  /\ start_point = [s \in Symbols |-> Garbage]
  /\ end_point = [s \in Symbols |-> Garbage]
  /\ affected_register = [s \in Symbols |-> Garbage]
  /\ life_time = [s \in Symbols |-> Garbage]
  /\ visited = 0
  /\ unused = {}
  /\ lifetime_pc = "reset"
  /\ live_symbols = <<>>
  /\ active_symbols = <<>>
  /\ registers = [r \in Scan!Cells |-> NULL]
  /\ stack_location = [s \in Symbols |-> 0]
  /\ current_stack_location = 0
  /\ i = 1
  /\ j = 1
  /\ errors = {}
  /\ allocator_pc = "called"
  /\ instructions = <<>>
  /\ quad_counter = 0
  /\ pc = "generate"
  /\ live = uses
  /\ regs = [file \in Files |-> [r \in Registers |-> Junk]]
  /\ at = <<0, 1>>
  /\ printed = NULL

ComputeLifetimes ==
  /\ Life!Next
  /\ UNCHANGED <<affected_register, allocator, code>>

Orders == SetToSeqs(Symbols)

\* The head of linear_scan_register_allocation(), when lifetimes are known:
\* the table is emptied but for the word below it, and all symbols are sorted.
StartAllocation ==
  /\ lifetime_pc = "done"
  /\ allocator_pc = "called"
  /\ affected_register' = [s \in Symbols |-> REGISTER_NONE]
  /\ live_symbols' \in {t \in Orders : Scan!Sorted(t, start_point)}
  /\ \E below \in {NULL, Foreign} :
       registers' = [registers EXCEPT ![REGISTER_NONE] = below]
  /\ allocator_pc' = "next"
  /\ UNCHANGED <<quads, start_point, end_point, lifetimes, active_symbols,
                 stack_location, current_stack_location, i, j, errors, code>>

Allocate ==
  /\ Scan!Next
  /\ UNCHANGED <<quads, lifetimes, code>>

\* What comes after the allocation, see Machine.
GenerateAndRun ==
  /\ allocator_pc = "done"
  /\ Next
  /\ UNCHANGED <<lifetimes, allocator>>

NextStep == ComputeLifetimes \/ StartAllocation \/ Allocate \/ GenerateAndRun

-----------------------------------------------------------------------------
(***************************************************************************)
(* Properties.                                                             *)
(***************************************************************************)

\* The symbols whose values the program uses; a label is not one of them.
Values == UNION {Reads(q) \cup Writes(q) : q \in Range(quads)}

\* Whatever errors the allocator prints, as long as it spills no value of the
\* program it does no harm: a symbol without a register is a label, which
\* needs none, or the program is not assembled (register_allocation.c:45-53,
\* 130-144, translation.c:70-77).  If a value is spilled, the program may be
\* assembled and use the register for two: nothing loads it from the stack,
\* and labels have taken registers away from the values.
WrongOnlyWhenSpilled ==
  [][/\ allocator_pc = "done"
     /\ \A s \in Values : stack_location[s] = 0
     /\ WellLabelled(quads) /\ JumpsKeepLoads /\ LoopTailsQuiet
     => [QM!Next]_(QM!vars)]_backend

\* The passes together lose no program: one with a label on every branch and
\* without loops comes to its end, unless there was an error of the allocator
\* (main.c:118-125, translation.c:79-253).
ReturnsOrWarns ==
  WellLabelled(quads) /\ Supported /\ Forward =>
    <>(errors # {} \/ pc = "exited")
=============================================================================
