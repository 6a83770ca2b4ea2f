---------------------------- MODULE QuadMachine -----------------------------
(***************************************************************************)
(* What a list of quadruples is said to do (the enum of quad.h): a machine *)
(* that runs them over a store with one cell per symbol.  Only the cells   *)
(* whose value may still be used are kept, so a program that has put       *)
(* something else where a dead symbol was implements it too.               *)
(***************************************************************************)
EXTENDS Quads

CONSTANTS Word,             \* what a register or a word of memory may hold
          Result(_, _, _),  \* the value of an operator on two words
          Taken(_, _, _)    \* whether a comparison of two words holds

VARIABLES quads, live,
          next,     \* the number of the next quadruple
          store,    \* the values of the symbols in live[next]
          printed,  \* what the last print showed
          halted

vars == <<quads, live, next, store, printed, halted>>

Init ==
  /\ IsLiveness(quads, live)
  /\ next = 0
  /\ store = [s \in live[0] |-> Data[s]]
  /\ printed = NULL
  /\ halted = FALSE

GoTo(k) ==
  /\ next' = k
  /\ UNCHANGED <<quads, live, halted>>

Keep == store' = [s \in live[next'] |-> store[s]]

\* The words a quadruple may compute.
Computed(q) ==
  IF Unspecified(q) THEN Word
  ELSE CASE q.op = "MOVE" -> {store[q.op1]}
         [] q.op = "NEG" -> {Result("NEG", store[q.op1], store[q.op1])}
         [] OTHER -> {Result(q.op, store[q.op1], store[q.op2])}

Compute(q) ==
  /\ Writes(q) # {}
  /\ GoTo(next + 1)
  /\ \E w \in Computed(q) :
       store' = [s \in live[next'] |-> IF s = q.res THEN w ELSE store[s]]
  /\ UNCHANGED printed

Goto(q) == q.op = "B" /\ GoTo(Target(q)) /\ Keep /\ UNCHANGED printed

Branch(q) ==
  /\ q.op \in ConditionalOps
  /\ \/ /\ Unspecified(q) \/ Taken(q.op, store[q.op1], store[q.op2])
        /\ GoTo(Target(q))
     \/ /\ Unspecified(q) \/ ~ Taken(q.op, store[q.op1], store[q.op2])
        /\ GoTo(next + 1)
  /\ Keep
  /\ UNCHANGED printed

Show(q) ==
  /\ q.op \in {"PRTI", "PRTF", "PRTS"}
  /\ GoTo(next + 1)
  /\ Keep
  /\ printed' = <<q.op, IF q.op = "PRTS" THEN q.res ELSE store[q.res]>>

Skip(q) == q.op = "NOP" /\ GoTo(next + 1) /\ Keep /\ UNCHANGED printed

Halt(q) ==
  /\ q.op = "RET"
  /\ halted' = TRUE
  /\ UNCHANGED <<quads, live, next, store, printed>>

Step(q) == Compute(q) \/ Goto(q) \/ Branch(q) \/ Show(q) \/ Skip(q) \/ Halt(q)

Next == ~ halted /\ Step(quads[next + 1])

Spec == Init /\ [][Next]_vars
=============================================================================
