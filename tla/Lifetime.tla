------------------------------ MODULE Lifetime ------------------------------
(***************************************************************************)
(* compute_symbols_lifetime() of mips/translation.c.  The quadruples of    *)
(* the program are visited in list order; the life of a symbol is the      *)
(* interval from the first to the last quadruple that mentions it.  The    *)
(* register allocator (LinearScan) takes these intervals as its input.     *)
(*                                                                         *)
(* A quadruple is here only what the pass reads of it: the symbols in its  *)
(* res, op1 and op2 fields, NULL where the field is empty.                 *)
(*                                                                         *)
(* A definition marked "variant" is the one that follows it with a slip    *)
(* put in.  No specification uses it; it serves to see that the properties *)
(* notice the slip.                                                        *)
(***************************************************************************)
EXTENDS Integers, Sequences

CONSTANTS Symbols,   \* the symbols of the symbol table
          Constant,  \* those with the flag `constant' (cst0, cst1, ...)
          NULL,      \* the null pointer
          MaxQuads,  \* bound on the length of the program
          Garbage    \* a value an uninitialised int field of a symbol holds

POINT_INIT == -1

ASSUME LifetimeAssumption ==
  /\ Constant \subseteq Symbols
  /\ NULL \notin Symbols
  /\ MaxQuads \in Nat
  /\ Garbage \in Int

VARIABLES quads,         \* quad_list, as the sequence of its quadruples
          start_point,
          end_point,
          life_time,
          quad_counter,
          unused,        \* symbols named by a "warning: unused symbol" line
          pc

vars == <<quads, start_point, end_point, life_time, quad_counter, unused, pc>>

Quad == [res : Symbols \cup {NULL}, op1 : Symbols \cup {NULL},
         op2 : Symbols \cup {NULL}]

Operands(q) == {q.res, q.op1, q.op2} \ {NULL}

(***************************************************************************)
(* symbol_new() allocates a symbol without initialising these three        *)
(* fields.                                                                 *)
(***************************************************************************)
Init ==
  /\ quads \in UNION {[1 .. n -> Quad] : n \in 0 .. MaxQuads}
  /\ start_point = [s \in Symbols |-> Garbage]
  /\ end_point = [s \in Symbols |-> Garbage]
  /\ life_time = [s \in Symbols |-> Garbage]
  /\ quad_counter = 0
  /\ unused = {}
  /\ pc = "reset"

\* variant: end_point keeps what the allocation of the symbol left in it
ResetWithoutEnd ==
  /\ pc = "reset"
  /\ start_point' = [s \in Symbols |-> POINT_INIT]
  /\ life_time' = [s \in Symbols |-> 0]
  /\ pc' = "visit"
  /\ UNCHANGED <<quads, end_point, quad_counter, unused>>

\* The first loop: every symbol of the table starts with an empty life.
Reset ==
  /\ pc = "reset"
  /\ start_point' = [s \in Symbols |-> POINT_INIT]
  /\ end_point' = [s \in Symbols |-> POINT_INIT]
  /\ life_time' = [s \in Symbols |-> 0]
  /\ pc' = "visit"
  /\ UNCHANGED <<quads, quad_counter, unused>>

Later(a, b) == IF a > b THEN a ELSE b    \* the macro MAX

\* variant: counted in the head of the loop and in its body
CountedTwice == quad_counter + 2

Counted == quad_counter + 1

\* One turn of the second loop: extend the life of the operands.
VisitQuad ==
  /\ pc = "visit"
  /\ quad_counter < Len(quads)
  /\ LET used == Operands(quads[quad_counter + 1])
     IN  /\ start_point' =
              [s \in Symbols |->
                 IF s \in used /\ start_point[s] = POINT_INIT
                   THEN quad_counter ELSE start_point[s]]
         /\ end_point' =
              [s \in Symbols |->
                 IF s \in used THEN Later(end_point[s], quad_counter)
                               ELSE end_point[s]]
         /\ life_time' =
              [s \in Symbols |->
                 IF s \in used THEN end_point'[s] - start_point'[s]
                               ELSE life_time[s]]
  /\ quad_counter' = Counted
  /\ UNCHANGED <<quads, unused, pc>>

\* variant: constants are not exempt
WarnEveryShortLife ==
  /\ pc = "visit"
  /\ quad_counter = Len(quads)
  /\ unused' = {s \in Symbols : life_time[s] = 0}
  /\ pc' = "done"
  /\ UNCHANGED <<quads, start_point, end_point, life_time, quad_counter>>

\* The last loop.
Warn ==
  /\ pc = "visit"
  /\ quad_counter = Len(quads)
  /\ unused' = {s \in Symbols \ Constant : life_time[s] = 0}
  /\ pc' = "done"
  /\ UNCHANGED <<quads, start_point, end_point, life_time, quad_counter>>

Next == Reset \/ VisitQuad \/ Warn

Spec == Init /\ [][Next]_vars

-----------------------------------------------------------------------------
(***************************************************************************)
(* Properties.                                                             *)
(***************************************************************************)

\* Each field of a symbol is an int, the program does not change under the
\* pass and the counter stays within it (struct symbol, symbol.h:22-36).
TypeOK ==
  /\ quads \in Seq(Quad)
  /\ start_point \in [Symbols -> Int]
  /\ end_point \in [Symbols -> Int]
  /\ life_time \in [Symbols -> Int]
  /\ quad_counter \in 0 .. Len(quads)
  /\ unused \subseteq Symbols
  /\ pc \in {"reset", "visit", "done"}

\* The positions, among those visited, of the quadruples that mention s.
Uses(s) ==
  {k \in 0 .. quad_counter - 1 : s \in Operands(quads[k + 1])}

\* The interval of a symbol begins at its first use and ends at its last one,
\* its life time is the distance between them, and a symbol the program does
\* not mention has the empty interval, whatever its fields held before the
\* pass (translation.c:13-15, 21-42).
LifetimeTight ==
  pc # "reset" =>
    \A s \in Symbols :
      IF Uses(s) = {}
        THEN start_point[s] = POINT_INIT /\ end_point[s] = POINT_INIT
             /\ life_time[s] = 0
        ELSE /\ start_point[s] \in Uses(s)
             /\ end_point[s] \in Uses(s)
             /\ \A k \in Uses(s) : start_point[s] <= k /\ k <= end_point[s]
             /\ life_time[s] = end_point[s] - start_point[s]

\* What the warning really says: the symbol is not a constant and at most one
\* quadruple mentions it (translation.c:47-51).
WarnedMeansUsedAtMostOnce ==
  pc = "done" =>
    \A s \in Symbols :
      s \in unused <=>
        /\ s \notin Constant
        /\ \A k, l \in Uses(s) : k = l
=============================================================================
