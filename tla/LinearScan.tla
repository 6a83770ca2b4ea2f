----------------------------- MODULE LinearScan -----------------------------
(***************************************************************************)
(* linear_scan_register_allocation() of mips/register_allocation.c.  The   *)
(* symbols are taken by increasing start point; the ones whose interval is *)
(* over give their register back, and the new one takes a free register,   *)
(* or, when too many are active, the register of the active symbol that    *)
(* ends last.                                                              *)
(*                                                                         *)
(* The code reads and writes registers[REGISTER_NONE], that is             *)
(* registers[-1], when no register is free.  The word below the array is   *)
(* modelled as one more cell, whose first content is either zero padding   *)
(* (NULL) or data of another object (Foreign).  A line the code prints on  *)
(* stderr is remembered in `errors'.                                       *)
(*                                                                         *)
(* A definition marked "variant" is the one that follows it with a slip    *)
(* put in.  No specification uses it; it serves to see that the properties *)
(* notice the slip.                                                        *)
(***************************************************************************)
EXTENDS Integers, Sequences, FiniteSets, SequencesExt

CONSTANTS Symbols,        \* the symbols of the symbol table
          MAX_REGISTERS,
          MaxPoint,       \* the last position of a quadruple
          Size,           \* the field `size' of each symbol, in bytes
          NULL,
          Foreign         \* what else can be found below the array

REGISTER_NONE == -1
POINT_INIT == -1

ASSUME LinearScanAssumption ==
  /\ IsFiniteSet(Symbols)
  /\ MAX_REGISTERS \in Nat \ {0}
  /\ MaxPoint \in Nat
  /\ Size \in [Symbols -> Nat \ {0}]
  /\ NULL \notin Symbols
  /\ Foreign \notin Symbols \cup {NULL}

Registers == 0 .. MAX_REGISTERS - 1
Cells == Registers \cup {REGISTER_NONE}

VARIABLES start_point,      \* the intervals, from compute_symbols_lifetime
          end_point,
          live_symbols,     \* every symbol, by increasing start point
          active_symbols,   \* the symbols holding a register, by end point
          registers,        \* the symbol living in each register
          affected_register,
          stack_location,
          current_stack_location,
          i,                \* index in live_symbols of the current symbol
          j,                \* index in active_symbols while expiring
          errors,           \* the kinds of error lines printed so far
          pc

intervals == <<start_point, end_point, live_symbols>>
allocation == <<active_symbols, registers, affected_register, stack_location,
                current_stack_location, errors>>
vars == <<intervals, allocation, i, j, pc>>

Interval == {p \in (POINT_INIT .. MaxPoint) \X (POINT_INIT .. MaxPoint) :
               (p[1] = POINT_INIT /\ p[2] = POINT_INIT)
               \/ (0 <= p[1] /\ p[1] <= p[2])}

\* Whether the sequence s is in the order of the field `key' of its symbols.
Sorted(s, key) ==
  \A m, n \in DOMAIN s : m < n => key[s[m]] <= key[s[n]]

\* What qsort() may leave: the order of symbols with the same key is not
\* specified.
SortedBy(s, key) ==
  {t \in [DOMAIN s -> Range(s)] : Range(t) = Range(s) /\ Sorted(t, key)}

Current == live_symbols[i]
LastActive == active_symbols[Len(active_symbols)]
FreeRegisters == {r \in Registers : registers[r] = NULL}

-----------------------------------------------------------------------------
(***************************************************************************)
(* The functions of the allocator that do not loop.                        *)
(***************************************************************************)

\* variant: the register is not given back
KeepRegister(reg) == UNCHANGED <<registers, errors>>

\* free_register()
FreeRegister(reg) ==
  /\ registers' = [registers EXCEPT ![reg] = NULL]
  /\ errors' = IF registers[reg] = NULL
                 THEN errors \cup {"already_free"} ELSE errors

\* variant: the active array is not sorted after the push
ActivateUnsorted(s, others) ==
  active_symbols' = Append(others, s)

\* symbol_array_push() and sort_active_symbols()
Activate(s, others) ==
  active_symbols' \in SortedBy(Append(others, s), end_point)

\* variant: nothing is removed
ActiveWith(k) == active_symbols

\* symbol_array_remove()
ActiveWithout(k) == RemoveAt(active_symbols, k)

\* variant: the stack grows by the size of the wrong symbol
SpillBySizeOfCurrent(s) ==
  /\ current_stack_location' = current_stack_location - Size[Current]
  /\ stack_location' = [stack_location EXCEPT ![s] = current_stack_location']

\* new_stack_location()
Spill(s) ==
  /\ current_stack_location' = current_stack_location - Size[s]
  /\ stack_location' = [stack_location EXCEPT ![s] = current_stack_location']

-----------------------------------------------------------------------------
(***************************************************************************)
(* linear_scan_register_allocation(): the initialisation, with             *)
(* generate_live_symbols(), and the head of the main loop.                 *)
(***************************************************************************)
InitFrom(start, end) ==
  /\ start_point = start
  /\ end_point = end
  /\ live_symbols \in {t \in [1 .. Cardinality(Symbols) -> Symbols] :
                         Range(t) = Symbols /\ Sorted(t, start)}
  /\ active_symbols = <<>>
  /\ \E below \in {NULL, Foreign} :
       registers = [r \in Cells |-> IF r = REGISTER_NONE THEN below ELSE NULL]
  /\ affected_register = [s \in Symbols |-> REGISTER_NONE]
  /\ stack_location = [s \in Symbols |-> 0]
  /\ current_stack_location = 0
  /\ i = 1
  /\ j = 1
  /\ errors = {}
  /\ pc = "next"

Init ==
  \E life \in [Symbols -> Interval] :
    InitFrom([s \in Symbols |-> life[s][1]], [s \in Symbols |-> life[s][2]])

\* The loop takes the next symbol ...
NextSymbol ==
  /\ pc = "next"
  /\ i <= Len(live_symbols)
  /\ j' = 1
  /\ pc' = "expire"
  /\ UNCHANGED <<intervals, allocation, i>>

\* ... or ends.
Finish ==
  /\ pc = "next"
  /\ i > Len(live_symbols)
  /\ pc' = "done"
  /\ UNCHANGED <<intervals, allocation, i, j>>

-----------------------------------------------------------------------------
(***************************************************************************)
(* expire_old_symbols()                                                    *)
(***************************************************************************)

\* variant: an interval that ends where the current one starts is over
ExpiredAtMeeting ==
  /\ j <= Len(active_symbols)
  /\ end_point[active_symbols[j]] <= start_point[Current]

Expired ==
  /\ j <= Len(active_symbols)
  /\ end_point[active_symbols[j]] < start_point[Current]

\* One turn of the loop that frees a register.  j moves on although the
\* symbols behind j have moved down: the symbol now at j is not looked at.
Expire ==
  /\ pc = "expire"
  /\ Expired
  /\ FreeRegister(affected_register[active_symbols[j]])
  /\ active_symbols' \in SortedBy(ActiveWithout(j), end_point)
  /\ j' = j + 1
  /\ UNCHANGED <<intervals, affected_register, stack_location,
                 current_stack_location, i, pc>>

ExpireDone ==
  /\ pc = "expire"
  /\ ~ Expired
  /\ pc' = "place"
  /\ UNCHANGED <<intervals, allocation, i, j>>

-----------------------------------------------------------------------------
(***************************************************************************)
(* The rest of the body of the main loop, with next_free_register(),       *)
(* assign_register() and spill_symbol().                                   *)
(***************************************************************************)

\* variant: without the off-by-one
TooManyFromTheEighth == Len(active_symbols) >= MAX_REGISTERS

TooManyActive == Len(active_symbols) > MAX_REGISTERS

\* variant: the loop steps twice
PlacedTwice == i' = i + 2 /\ pc' = "next"

PlacedCurrent == i' = i + 1 /\ pc' = "next"

\* The first free register is taken.
Assign ==
  /\ pc = "place"
  /\ ~ TooManyActive
  /\ \E reg \in FreeRegisters :
       /\ \A r \in FreeRegisters : reg <= r
       /\ registers' = [registers EXCEPT ![reg] = Current]
       /\ affected_register' = [affected_register EXCEPT ![Current] = reg]
  /\ Activate(Current, active_symbols)
  /\ PlacedCurrent
  /\ UNCHANGED <<intervals, stack_location, current_stack_location, j, errors>>

\* There is none: this is reported, and the answer REGISTER_NONE is taken for
\* an index.  The word there is free; the symbol keeps REGISTER_NONE.
AssignBelow ==
  /\ pc = "place"
  /\ ~ TooManyActive
  /\ FreeRegisters = {}
  /\ registers[REGISTER_NONE] = NULL
  /\ registers' = [registers EXCEPT ![REGISTER_NONE] = Current]
  /\ errors' = errors \cup {"no_free"}
  /\ Activate(Current, active_symbols)
  /\ PlacedCurrent
  /\ UNCHANGED <<intervals, affected_register, stack_location,
                 current_stack_location, j>>

\* The same when the word is not free: the symbol becomes active without a
\* register, unless printing the error, which reads REG_STR[-1] and the name
\* of what the word points to, kills the program.
AssignNothing ==
  /\ pc = "place"
  /\ ~ TooManyActive
  /\ FreeRegisters = {}
  /\ registers[REGISTER_NONE] # NULL
  /\ errors' = errors \cup {"no_free", "already_assigned"}
  /\ \/ Activate(Current, active_symbols) /\ PlacedCurrent
     \/ pc' = "crashed" /\ UNCHANGED <<active_symbols, i>>
  /\ UNCHANGED <<intervals, registers, affected_register, stack_location,
                 current_stack_location, j>>

\* The active symbol that ends last goes to the stack and the current one
\* takes its register over ...
SpillLast ==
  /\ pc = "place"
  /\ TooManyActive
  /\ end_point[Current] < end_point[LastActive]
  /\ affected_register' =
       [affected_register EXCEPT ![Current] = affected_register[LastActive]]
  /\ Spill(LastActive)
  /\ Activate(Current, ActiveWithout(Len(active_symbols)))
  /\ PlacedCurrent
  /\ UNCHANGED <<intervals, registers, j, errors>>

\* ... or the current symbol goes there itself.  (More than MAX_REGISTERS
\* symbols are active, so the error of line 93 cannot occur.)
SpillCurrent ==
  /\ pc = "place"
  /\ TooManyActive
  /\ end_point[Current] >= end_point[LastActive]
  /\ Spill(Current)
  /\ PlacedCurrent
  /\ UNCHANGED <<intervals, active_symbols, registers, affected_register, j,
                 errors>>

Place == \/ Assign \/ AssignBelow \/ AssignNothing
         \/ SpillLast \/ SpillCurrent

Next == NextSymbol \/ Finish \/ Expire \/ ExpireDone \/ Place

Spec == Init /\ [][Next]_vars

-----------------------------------------------------------------------------
(***************************************************************************)
(* Properties.                                                             *)
(***************************************************************************)

\* The types of the fields, of the two arrays, of the indices and of the error
\* lines.
FieldsOK ==
  /\ start_point \in [Symbols -> Int]
  /\ end_point \in [Symbols -> Int]
  /\ live_symbols \in Seq(Symbols)
  /\ active_symbols \in Seq(Symbols)
  /\ registers \in [Cells -> Symbols \cup {NULL, Foreign}]
  /\ affected_register \in [Symbols -> Cells]
  /\ stack_location \in [Symbols -> Int]
  /\ current_stack_location \in Int
  /\ i \in 1 .. Len(live_symbols) + 1
  /\ j \in Nat \ {0}
  /\ errors \subseteq {"no_free", "already_free", "already_assigned"}
  /\ pc \in {"next", "expire", "place", "done", "crashed"}

\* The types, and that the active array never holds more symbols than there
\* are cells, although the test of line 134 lets one more in than there are
\* registers (register_allocation.c:22-26, 62-71, 134).
TypeOK == FieldsOK /\ Len(active_symbols) <= MAX_REGISTERS + 1

Active == Range(active_symbols)
Placed == {live_symbols[k] : k \in 1 .. i - 1}
OnStack(s) == stack_location[s] # 0
Overlap(s, t) ==
  start_point[s] <= end_point[t] /\ start_point[t] <= end_point[s]

\* The symbols some quadruple mentions, and those of them that live at p.
Mentioned == {s \in Symbols : start_point[s] # POINT_INIT}
LivingAt(p) == {s \in Mentioned : start_point[s] <= p /\ p <= end_point[s]}

\* Two symbols whose lives overlap never share a register, as long as neither
\* has been spilled; the cell below the array counts as a register here.  The
\* expiration that skips symbols, the overflow and the spill that leaves the
\* register array alone do not break it (register_allocation.c:79-112,
\* 130-144).
NoClobber ==
  \A s, t \in Placed :
    s # t /\ Overlap(s, t) /\ ~ OnStack(s) /\ ~ OnStack(t)
      => affected_register[s] # affected_register[t]

\* A register is marked free exactly when no active symbol has it, two active
\* symbols never have the same one, and an active symbol is never on the
\* stack.  Spilling keeps this although it does not touch the register array
\* (register_allocation.c:41-71, 97-106).
RegistersMatchActive ==
  /\ \A s, t \in Active :
       affected_register[s] = affected_register[t] => s = t
  /\ \A r \in Registers :
       registers[r] = NULL <=> \A s \in Active : affected_register[s] # r
  /\ \A s \in Active : ~ OnStack(s)

\* No register is freed twice, and the error of line 51 is printed only
\* together with the one of line 45 (register_allocation.c:62-65, 49-53).
NoDoubleFree ==
  /\ "already_free" \notin errors
  /\ "already_assigned" \in errors => "no_free" \in errors

\* "no more free register" is never the fault of the symbols whose expiration
\* was skipped: either at the quadruple that starts some symbol more symbols
\* live than there are registers, or the symbols that no quadruple mentions,
\* which all have the interval -1 to -1, are by themselves more than the
\* registers (register_allocation.c:79-89, 45).
OverflowMeansPressure ==
  "no_free" \in errors =>
    \/ \E s \in Mentioned :
         Cardinality(LivingAt(start_point[s])) > MAX_REGISTERS
    \/ Cardinality(Symbols \ Mentioned) > MAX_REGISTERS

\* The stack is used only after the allocator has gone past the end of the
\* register array: the ninth symbol never spills (register_allocation.c:134).
SpillOnlyAfterOverflow ==
  current_stack_location # 0 => "no_free" \in errors

\* What is spilled is a symbol that ends last among the active ones and the
\* current one, and it is not active afterwards (register_allocation.c:97-110).
SpilledEndsLast ==
  [][\A v \in Symbols :
       stack_location'[v] # stack_location[v] =>
         /\ \A s \in Active \cup {Current} : end_point[s] <= end_point[v]
         /\ v \notin Range(active_symbols')]_vars

\* Two spilled symbols never overlap on the stack
\* (register_allocation.c:73-77).
StackSlotsDisjoint ==
  \A s, t \in Symbols :
    s # t /\ OnStack(s) /\ OnStack(t) =>
      \/ stack_location[s] + Size[s] <= stack_location[t]
      \/ stack_location[t] + Size[t] <= stack_location[s]

\* When the allocation returns without having printed an error every symbol
\* has a register of the array (register_allocation.c:130-152).
CompleteWhenSilent ==
  pc = "done" /\ errors = {} =>
    \A s \in Symbols : affected_register[s] \in Registers
=============================================================================
