--------------------------- MODULE LifetimeProofs ---------------------------
(***************************************************************************)
(* Theorems of Lifetime, for every symbol table and every program: the     *)
(* types, the tightness of the intervals, and what the warning says.       *)
(* LifetimeTight speaks of the visited prefix of the program, so with the  *)
(* types it is inductive as it stands; a second fact is needed before the  *)
(* visit starts, that no quadruple has been visited.                       *)
(***************************************************************************)
EXTENDS Lifetime, TLAPS

\* Before the reset nothing has been visited and nothing has been reported.
Prologue == pc = "reset" => quad_counter = 0 /\ unused = {}

\* A program of the instance is a sequence of quadruples.
LEMMA QuadsAreSequences ==
  ASSUME NEW n \in Nat, NEW f \in [1 .. n -> Quad]
  PROVE  f \in Seq(Quad)
  OBVIOUS

\* The operands of a quadruple are symbols.
LEMMA OperandsAreSymbols ==
  ASSUME NEW q \in Quad
  PROVE  Operands(q) \subseteq Symbols
  BY DEF Quad, Operands

\* The fields of a symbol stay ints and the counter stays within the program
\* in every run of the pass.
THEOREM TypeCorrect == Spec => [](TypeOK /\ Prologue)
<1>1. Init => TypeOK /\ Prologue
  <2> SUFFICES ASSUME Init PROVE TypeOK /\ Prologue
    OBVIOUS
  <2>1. quads \in Seq(Quad)
    BY QuadsAreSequences, LifetimeAssumption DEF Init
  <2> QED
    BY <2>1, LifetimeAssumption DEF Init, TypeOK, Prologue
<1>2. TypeOK /\ Prologue /\ [Next]_vars => TypeOK' /\ Prologue'
  <2> SUFFICES ASSUME TypeOK, Prologue, [Next]_vars
               PROVE  TypeOK' /\ Prologue'
    OBVIOUS
  <2>1. CASE Reset
    BY <2>1 DEF Reset, TypeOK, Prologue, POINT_INIT
  <2>2. CASE VisitQuad
    <3> DEFINE used == Operands(quads[quad_counter + 1])
    <3>1. quad_counter \in Nat /\ quad_counter + 1 \in 0 .. Len(quads)
      BY <2>2 DEF VisitQuad, Counted, TypeOK
    <3>2. start_point' \in [Symbols -> Int]
      BY <2>2, <3>1 DEF VisitQuad, Counted, TypeOK
    <3>3. end_point' \in [Symbols -> Int]
      BY <2>2, <3>1 DEF VisitQuad, Counted, TypeOK, Later
    <3>4. life_time' \in [Symbols -> Int]
      <4>1. \A s \in Symbols : end_point'[s] - start_point'[s] \in Int
        BY <3>2, <3>3
      <4> QED
        BY <2>2, <4>1 DEF VisitQuad, Counted, TypeOK
    <3> QED
      BY <2>2, <3>1, <3>2, <3>3, <3>4 DEF VisitQuad, Counted, TypeOK, Prologue
  <2>3. CASE Warn
    BY <2>3 DEF Warn, TypeOK, Prologue
  <2>4. CASE UNCHANGED vars
    BY <2>4 DEF vars, TypeOK, Prologue
  <2> QED
    BY <2>1, <2>2, <2>3, <2>4 DEF Next
<1> QED
  BY <1>1, <1>2, PTL DEF Spec

\* One visited quadruple adds its position to the uses of its operands.
LEMMA UsesAfterVisit ==
  ASSUME quad_counter \in Nat, VisitQuad, NEW s \in Symbols
  PROVE  Uses(s)' = IF s \in Operands(quads[quad_counter + 1])
                      THEN Uses(s) \cup {quad_counter} ELSE Uses(s)
<1>1. quad_counter \in Nat /\ quad_counter' = quad_counter + 1
      /\ quads' = quads
  BY DEF VisitQuad, Counted
<1>2. 0 .. quad_counter' - 1 = (0 .. quad_counter - 1) \cup {quad_counter}
  BY <1>1
<1> QED
  BY <1>1, <1>2, SMTT(30) DEF Uses, Operands

\* The step from one visited quadruple to the next; of the program nothing is
\* assumed.
LEMMA TightStep ==
  ASSUME quad_counter \in Nat, Prologue, LifetimeTight, [Next]_vars
  PROVE  LifetimeTight'
<1>1. CASE Reset
  <2>1. \A s \in Symbols : Uses(s)' = {}
    BY <1>1 DEF Reset, Prologue, Uses
  <2> QED
    BY <1>1, <2>1 DEF Reset, LifetimeTight
<1>2. CASE VisitQuad
  <2> SUFFICES ASSUME NEW s \in Symbols
               PROVE  IF Uses(s)' = {}
                        THEN start_point'[s] = POINT_INIT
                             /\ end_point'[s] = POINT_INIT
                             /\ life_time'[s] = 0
                        ELSE /\ start_point'[s] \in Uses(s)'
                             /\ end_point'[s] \in Uses(s)'
                             /\ \A k \in Uses(s)' :
                                  start_point'[s] <= k /\ k <= end_point'[s]
                             /\ life_time'[s] =
                                  end_point'[s] - start_point'[s]
    BY DEF LifetimeTight
  <2>1. quad_counter \in Nat
    OBVIOUS
  <2>2. Uses(s) \subseteq 0 .. quad_counter - 1
    BY DEF Uses
  <2>3. IF Uses(s) = {}
          THEN start_point[s] = POINT_INIT /\ end_point[s] = POINT_INIT
               /\ life_time[s] = 0
          ELSE /\ start_point[s] \in Uses(s)
               /\ end_point[s] \in Uses(s)
               /\ \A k \in Uses(s) :
                    start_point[s] <= k /\ k <= end_point[s]
               /\ life_time[s] = end_point[s] - start_point[s]
    BY <1>2 DEF VisitQuad, Counted, LifetimeTight
  <2>4. CASE s \notin Operands(quads[quad_counter + 1])
    <3>1. /\ Uses(s)' = Uses(s)
          /\ start_point'[s] = start_point[s]
          /\ end_point'[s] = end_point[s]
          /\ life_time'[s] = life_time[s]
      BY <1>2, <2>4, UsesAfterVisit DEF VisitQuad, Counted
    <3> QED
      BY <2>3, <3>1
  <2>5. CASE s \in Operands(quads[quad_counter + 1])
    <3>1. Uses(s)' = Uses(s) \cup {quad_counter}
      BY <1>2, <2>5, UsesAfterVisit
    <3>2. /\ start_point'[s] = IF start_point[s] = POINT_INIT
                                 THEN quad_counter ELSE start_point[s]
          /\ end_point'[s] = Later(end_point[s], quad_counter)
      BY <1>2, <2>5 DEF VisitQuad, Counted
    <3>3. life_time'[s] = end_point'[s] - start_point'[s]
      BY <1>2, <2>5 DEF VisitQuad, Counted
    <3>4. CASE Uses(s) = {}
      <4>1. start_point'[s] = quad_counter /\ end_point'[s] = quad_counter
        BY <2>1, <2>3, <3>2, <3>4 DEF Later, POINT_INIT
      <4> QED
        BY <2>1, <3>1, <3>3, <3>4, <4>1
    <3>5. CASE Uses(s) # {}
      <4>1. start_point[s] \in 0 .. quad_counter - 1
            /\ end_point[s] \in 0 .. quad_counter - 1
        BY <2>2, <2>3, <3>5
      <4>2. start_point'[s] = start_point[s]
            /\ end_point'[s] = quad_counter
        BY <2>1, <3>2, <4>1 DEF Later, POINT_INIT
      <4> QED
        BY <2>1, <2>2, <2>3, <3>1, <3>3, <3>5, <4>1, <4>2
    <3> QED
      BY <3>4, <3>5
  <2> QED
    BY <2>4, <2>5
<1>3. CASE Warn
  BY <1>3 DEF Warn, LifetimeTight, Uses
<1>4. CASE UNCHANGED vars
  BY <1>4 DEF vars, LifetimeTight, Uses
<1> QED
  BY <1>1, <1>2, <1>3, <1>4 DEF Next

\* After any number of visited quadruples the interval of every symbol is
\* exactly the span of its uses so far (translation.c:18-45).
THEOREM IntervalsTight == Spec => []LifetimeTight
<1>1. Init => LifetimeTight
  BY DEF Init, LifetimeTight
<1>2. TypeOK /\ Prologue /\ LifetimeTight /\ [Next]_vars => LifetimeTight'
  <2>1. TypeOK => quad_counter \in Nat
    BY DEF TypeOK
  <2> QED
    BY <2>1, TightStep
<1> QED
  BY <1>1, <1>2, TypeCorrect, PTL DEF Spec

\* The warning names exactly the symbols, constants apart, that at most one
\* quadruple mentions (translation.c:47-51).
THEOREM WarningMeaning == Spec => []WarnedMeansUsedAtMostOnce
<1>1. Init => WarnedMeansUsedAtMostOnce
  BY DEF Init, WarnedMeansUsedAtMostOnce
<1>2. TypeOK /\ LifetimeTight /\ WarnedMeansUsedAtMostOnce /\ [Next]_vars
      => WarnedMeansUsedAtMostOnce'
  <2> SUFFICES ASSUME TypeOK, LifetimeTight, WarnedMeansUsedAtMostOnce,
                      [Next]_vars
               PROVE  WarnedMeansUsedAtMostOnce'
    OBVIOUS
  <2>1. CASE Reset \/ VisitQuad
    BY <2>1 DEF Reset, VisitQuad, Counted, WarnedMeansUsedAtMostOnce
  <2>2. CASE Warn
    <3> SUFFICES ASSUME NEW s \in Symbols
                 PROVE  s \in unused' <=>
                          /\ s \notin Constant
                          /\ \A k, l \in Uses(s) : k = l
      BY <2>2 DEF Warn, WarnedMeansUsedAtMostOnce, Uses
    <3>1. Uses(s) \subseteq Int
      BY DEF Uses, TypeOK
    <3>2. life_time[s] = 0 <=> \A k, l \in Uses(s) : k = l
      BY <2>2, <3>1 DEF Warn, LifetimeTight
    <3> QED
      BY <2>2, <3>2 DEF Warn
  <2>3. CASE UNCHANGED vars
    BY <2>3 DEF vars, WarnedMeansUsedAtMostOnce, Uses
  <2> QED
    BY <2>1, <2>2, <2>3 DEF Next
<1> QED
  BY <1>1, <1>2, TypeCorrect, IntervalsTight, PTL DEF Spec
=============================================================================
