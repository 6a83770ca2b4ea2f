-------------------------- MODULE LinearScanProofs --------------------------
(***************************************************************************)
(* Theorems of LinearScan, for every set of symbols, every choice of their *)
(* intervals and every number of registers.                                *)
(***************************************************************************)
EXTENDS LinearScan, FiniteSetTheorems, SequenceTheorems, TLAPS

-----------------------------------------------------------------------------
(***************************************************************************)
(* The operations on the arrays of symbols.                                *)
(***************************************************************************)

\* An array without repetition is a sequence that is an injection.
Distinct(s) == \A m, n \in DOMAIN s : s[m] = s[n] => m = n

\* A sequence without repetition is as long as its range is large.
LEMMA DistinctLength ==
  ASSUME NEW S, NEW s \in Seq(S), Distinct(s)
  PROVE  IsFiniteSet(Range(s)) /\ Cardinality(Range(s)) = Len(s)
<1>1. s \in Injection(1 .. Len(s), Range(s))
      /\ s \in Surjection(1 .. Len(s), Range(s))
  BY DEF Distinct, Injection, Surjection, IsInjective, Range
<1>2. IsFiniteSet(1 .. Len(s)) /\ Cardinality(1 .. Len(s)) = Len(s)
  <2>1. Len(s) \in Nat
    OBVIOUS
  <2> QED
    BY <2>1, FS_Interval
<1> QED
  BY <1>1, <1>2, FS_Surjection

\* Sorting permutes an array: it keeps its length, its symbols, and that no
\* symbol occurs twice.
LEMMA Resorted ==
  ASSUME NEW S, NEW s \in Seq(S), Distinct(s), NEW key,
         NEW t \in SortedBy(s, key)
  PROVE  /\ t \in Seq(S)
         /\ Len(t) = Len(s)
         /\ Range(t) = Range(s)
         /\ Distinct(t)
         /\ Sorted(t, key)
<1>1. /\ DOMAIN s = 1 .. Len(s)
      /\ t \in [1 .. Len(s) -> Range(s)]
      /\ Range(t) = Range(s)
      /\ Sorted(t, key)
  BY DEF SortedBy
<1>2. Range(s) \subseteq S
  BY DEF Range
<1>3. t \in Seq(S) /\ Len(t) = Len(s)
  BY <1>1, <1>2
<1>4. t \in Surjection(1 .. Len(s), Range(s))
  BY <1>1 DEF Surjection, Range
<1>5. Len(s) \in Nat
  OBVIOUS
<1>6. IsFiniteSet(1 .. Len(s))
      /\ Cardinality(1 .. Len(s)) = Cardinality(Range(s))
  BY <1>5, DistinctLength, FS_Interval
<1>7. t \in Injection(1 .. Len(s), Range(s))
  BY <1>4, <1>6, FS_SurjSameCardinalityImpliesInj
<1> QED
  BY <1>1, <1>3, <1>7 DEF Injection, IsInjective, Distinct

\* Pushing a symbol that is not in the array.
LEMMA Pushed ==
  ASSUME NEW S, NEW s \in Seq(S), Distinct(s), NEW x \in S, x \notin Range(s)
  PROVE  /\ Append(s, x) \in Seq(S)
         /\ Len(Append(s, x)) = Len(s) + 1
         /\ Range(Append(s, x)) = Range(s) \cup {x}
         /\ Distinct(Append(s, x))
<1> DEFINE t == Append(s, x)
<1>1. t \in Seq(S) /\ Len(t) = Len(s) + 1
      /\ DOMAIN t = 1 .. Len(s) + 1 /\ DOMAIN s = 1 .. Len(s)
  OBVIOUS
<1>2. \A m \in 1 .. Len(s) + 1 : t[m] = IF m = Len(s) + 1 THEN x ELSE s[m]
  OBVIOUS
<1>3. Range(t) = Range(s) \cup {x}
  <2>1. Range(t) \subseteq Range(s) \cup {x}
    BY <1>1, <1>2 DEF Range
  <2>2. \A m \in DOMAIN s : s[m] \in Range(t)
    BY <1>1, <1>2 DEF Range
  <2>3. x \in Range(t)
    BY <1>1, <1>2 DEF Range
  <2> QED
    BY <2>1, <2>2, <2>3 DEF Range
<1>4. Distinct(t)
  <2>1. \A m \in DOMAIN s : s[m] # x
    BY DEF Range
  <2> QED
    BY <1>1, <1>2, <2>1 DEF Distinct
<1> QED
  BY <1>1, <1>3, <1>4

\* Removing the symbol at an index of the array.
LEMMA Removed ==
  ASSUME NEW S, NEW s \in Seq(S), Distinct(s), NEW k \in 1 .. Len(s)
  PROVE  /\ RemoveAt(s, k) \in Seq(S)
         /\ Len(RemoveAt(s, k)) = Len(s) - 1
         /\ Range(RemoveAt(s, k)) = Range(s) \ {s[k]}
         /\ Distinct(RemoveAt(s, k))
<1> DEFINE t == RemoveAt(s, k)
<1>1. t \in Seq(S) /\ Len(t) = Len(s) - 1
      /\ DOMAIN t = 1 .. Len(s) - 1 /\ DOMAIN s = 1 .. Len(s)
      /\ \A m \in 1 .. Len(s) - 1 : t[m] = IF m < k THEN s[m] ELSE s[m + 1]
  <2> DEFINE u == SubSeq(s, 1, k - 1)
             v == SubSeq(s, k + 1, Len(s))
  <2>1. /\ u \in Seq(S) /\ Len(u) = k - 1
        /\ \A m \in 1 .. k - 1 : u[m] = s[m]
    OBVIOUS
  <2>2. /\ v \in Seq(S) /\ Len(v) = Len(s) - k
        /\ \A m \in 1 .. Len(s) - k : v[m] = s[m + k]
    OBVIOUS
  <2>3. t = u \o v
    BY DEF RemoveAt
  <2> HIDE DEF t, u, v
  <2>4. /\ t \in Seq(S) /\ Len(t) = Len(u) + Len(v)
        /\ \A m \in 1 .. Len(u) + Len(v) :
             t[m] = IF m <= Len(u) THEN u[m] ELSE v[m - Len(u)]
    BY <2>1, <2>2, <2>3, ConcatProperties
  <2>5. Len(u) + Len(v) = Len(s) - 1
    BY <2>1, <2>2
  <2>6. ASSUME NEW m \in 1 .. Len(s) - 1
        PROVE  t[m] = IF m < k THEN s[m] ELSE s[m + 1]
    <3>1. m \in Int /\ k \in Int /\ Len(s) \in Int
          /\ 1 <= m /\ m <= Len(s) - 1 /\ 1 <= k
      OBVIOUS
    <3>2. t[m] = IF m <= k - 1 THEN u[m] ELSE v[m - (k - 1)]
      <4>1. m \in 1 .. Len(u) + Len(v)
        BY <2>5
      <4>2. Len(u) = k - 1
        BY <2>1
      <4> QED
        BY <2>4, <4>1, <4>2
    <3>3. CASE m < k
      <4>1. m <= k - 1 /\ m \in 1 .. k - 1
        BY <3>1, <3>3
      <4>2. u[m] = s[m]
        BY <2>1, <4>1
      <4> QED
        BY <3>2, <3>3, <4>1, <4>2
    <3>4. CASE ~ (m < k)
      <4>1. k <= m /\ ~ (m <= k - 1)
        BY <3>1, <3>4
      <4>2. m - (k - 1) \in 1 .. Len(s) - k
        BY <3>1, <4>1
      <4>3. v[m - (k - 1)] = s[(m - (k - 1)) + k]
        BY <2>2, <4>2
      <4>4. (m - (k - 1)) + k = m + 1
        BY <3>1
      <4>5. t[m] = v[m - (k - 1)]
        BY <3>2, <4>1, Zenon
      <4>6. t[m] = s[m + 1]
        BY <4>3, <4>4, <4>5, Zenon
      <4> QED
        BY <3>4, <4>6, Zenon
    <3> QED
      BY <3>3, <3>4
  <2>7. t \in Seq(S) /\ Len(t) = Len(s) - 1
    BY <2>4, <2>5, Zenon
  <2>8. DOMAIN t = 1 .. Len(t) /\ DOMAIN s = 1 .. Len(s)
    BY <2>7
  <2>9. DOMAIN t = 1 .. Len(s) - 1
    BY <2>7, <2>8, Zenon
  <2> QED
    BY <2>6, <2>7, <2>8, <2>9, Zenon
<1> HIDE DEF t
<1>2. \A m \in 1 .. Len(s) - 1 : t[m] = IF m < k THEN s[m] ELSE s[m + 1]
  BY <1>1
<1>3. Range(t) \subseteq Range(s) \ {s[k]}
  <2>1. \A m \in 1 .. Len(s) - 1 :
          \E n \in DOMAIN s : n # k /\ t[m] = s[n]
    <3> SUFFICES ASSUME NEW m \in 1 .. Len(s) - 1
                 PROVE  \E n \in DOMAIN s : n # k /\ t[m] = s[n]
      OBVIOUS
    <3>1. CASE m < k
      <4> WITNESS m \in DOMAIN s
      <4> QED
        BY <1>2, <3>1
    <3>2. CASE ~ (m < k)
      <4> WITNESS m + 1 \in DOMAIN s
      <4> QED
        BY <1>2, <3>2
    <3> QED
      BY <3>1, <3>2
  <2> QED
    BY <1>1, <2>1 DEF Range, Distinct
<1>4. Range(s) \ {s[k]} \subseteq Range(t)
  <2> SUFFICES ASSUME NEW n \in DOMAIN s, n # k
               PROVE  s[n] \in Range(t)
    BY DEF Range
  <2>1. CASE n < k
    <3>1. n \in DOMAIN t /\ t[n] = s[n]
      BY <1>1, <1>2, <2>1
    <3> QED
      BY <3>1 DEF Range
  <2>2. CASE n > k
    <3>1. n - 1 \in DOMAIN t /\ t[n - 1] = s[n]
      BY <1>1, <1>2, <2>2
    <3> QED
      BY <3>1 DEF Range
  <2> QED
    BY <2>1, <2>2
<1>5. Distinct(t)
  BY <1>1, <1>2 DEF Distinct
<1> QED
  BY <1>1, <1>3, <1>4, <1>5 DEF t

-----------------------------------------------------------------------------
(***************************************************************************)
(* The inductive invariant.  NoClobber alone is not inductive: that a new  *)
(* symbol does not meet an earlier owner of its register rests on the      *)
(* register array and the active array agreeing, and on every symbol that  *)
(* has left the active array having ended before all the symbols to come.  *)
(***************************************************************************)

\* The symbols are taken each once, by increasing start point.
LiveOK ==
  /\ Distinct(live_symbols)
  /\ Range(live_symbols) = Symbols
  /\ Sorted(live_symbols, start_point)
  /\ \A s \in Symbols : start_point[s] <= end_point[s]

\* The active array holds symbols already placed, each once, by end point.
ActiveOK ==
  /\ Distinct(active_symbols)
  /\ Sorted(active_symbols, end_point)
  /\ Active \subseteq Placed

\* An active symbol without a register of the array keeps the cell below the
\* array from being free, and the overflow has been reported.
BelowOK ==
  \A s \in Active : affected_register[s] = REGISTER_NONE =>
    registers[REGISTER_NONE] # NULL /\ "no_free" \in errors

\* A symbol that is no longer active is on the stack or over.
Retired ==
  \A s \in Placed : s \notin Active /\ ~ OnStack(s) =>
    \A k \in i .. Len(live_symbols) : end_point[s] < start_point[live_symbols[k]]

\* A symbol to come has neither a register nor a place on the stack.
Pending ==
  \A k \in i .. Len(live_symbols) :
    /\ affected_register[live_symbols[k]] = REGISTER_NONE
    /\ ~ OnStack(live_symbols[k])

\* The stack grows downwards from 0.
StackOK ==
  /\ current_stack_location <= 0
  /\ \A s \in Symbols :
       OnStack(s) => current_stack_location <= stack_location[s]

\* In the body of the loop there is a current symbol.
InBody == pc \in {"expire", "place"} => i <= Len(live_symbols)

IInv ==
  /\ FieldsOK
  /\ LiveOK
  /\ ActiveOK
  /\ RegistersMatchActive
  /\ BelowOK
  /\ Retired
  /\ Pending
  /\ InBody
  /\ NoDoubleFree
  /\ NoClobber
  /\ StackOK
  /\ StackSlotsDisjoint
  /\ SpillOnlyAfterOverflow

\* The fields of the intervals are integers.
LEMMA PointsAreIntegers ==
  ASSUME FieldsOK
  PROVE  start_point \in [Symbols -> Int] /\ end_point \in [Symbols -> Int]
  BY DEF FieldsOK

\* The current symbol is new, and placing it adds it to the placed ones.
LEMMA PlacingCurrent ==
  ASSUME FieldsOK, LiveOK, i <= Len(live_symbols)
  PROVE  /\ i \in 1 .. Len(live_symbols)
         /\ Current \in Symbols
         /\ Current \notin Placed
         /\ i' = i + 1 /\ live_symbols' = live_symbols =>
              Placed' = Placed \cup {Current}
         /\ \A k \in i .. Len(live_symbols) :
              /\ live_symbols[k] \in Symbols
              /\ start_point[Current] <= start_point[live_symbols[k]]
<1>1. i \in 1 .. Len(live_symbols) /\ DOMAIN live_symbols = 1 .. Len(live_symbols)
  BY DEF FieldsOK
<1>2. Current \in Symbols
  BY <1>1 DEF FieldsOK, Current
<1>3. Current \notin Placed
  BY <1>1 DEF LiveOK, Distinct, Placed, Current
<1>4. ASSUME i' = i + 1, live_symbols' = live_symbols
      PROVE  Placed' = Placed \cup {Current}
  <2>1. 1 .. i' - 1 = (1 .. i - 1) \cup {i}
    BY <1>1, <1>4
  <2> QED
    BY <1>4, <2>1 DEF Placed, Current
<1>5. ASSUME NEW k \in i .. Len(live_symbols)
      PROVE  /\ live_symbols[k] \in Symbols
             /\ start_point[Current] <= start_point[live_symbols[k]]
  <2> live_symbols[k] \in Symbols
    BY <1>1 DEF FieldsOK
  <2>1. CASE k = i
    BY <1>2, <2>1 DEF FieldsOK, Current
  <2>2. CASE i < k
    BY <1>1, <2>2 DEF LiveOK, Sorted, Current
  <2> QED
    BY <1>1, <2>1, <2>2
<1> QED
  BY <1>1, <1>2, <1>3, <1>4, <1>5

\* What the allocation starts with, whatever the intervals are.
Starting ==
  /\ start_point \in [Symbols -> Int]
  /\ end_point \in [Symbols -> Int]
  /\ \A s \in Symbols : start_point[s] <= end_point[s]
  /\ InitFrom(start_point, end_point)

\* Before the first symbol no register is taken and nothing has been printed.
LEMMA StartIInv == Starting => IInv
<1> SUFFICES ASSUME Starting PROVE IInv
  OBVIOUS
<1>1. InitFrom(start_point, end_point)
  BY DEF Starting
<1>2. /\ start_point \in [Symbols -> Int]
      /\ end_point \in [Symbols -> Int]
      /\ \A s \in Symbols : start_point[s] <= end_point[s]
  BY DEF Starting
<1>3. Cardinality(Symbols) \in Nat
  BY LinearScanAssumption, FS_CardinalityType
<1>4. /\ live_symbols \in [1 .. Cardinality(Symbols) -> Symbols]
      /\ Range(live_symbols) = Symbols
      /\ Sorted(live_symbols, start_point)
  BY <1>1 DEF InitFrom
<1>5. live_symbols \in Seq(Symbols) /\ Len(live_symbols) = Cardinality(Symbols)
  BY <1>3, <1>4
<1>6. Distinct(live_symbols)
  <2>1. live_symbols \in Surjection(1 .. Cardinality(Symbols), Symbols)
    BY <1>4 DEF Surjection, Range
  <2>2. IsFiniteSet(1 .. Cardinality(Symbols))
        /\ Cardinality(1 .. Cardinality(Symbols)) = Cardinality(Symbols)
    BY <1>3, FS_Interval
  <2>3. live_symbols \in Injection(1 .. Cardinality(Symbols), Symbols)
    BY <2>1, <2>2, FS_SurjSameCardinalityImpliesInj
  <2> QED
    BY <2>3 DEF Injection, IsInjective, Distinct
<1>7. /\ registers \in [Cells -> Symbols \cup {NULL, Foreign}]
      /\ \A r \in Registers : registers[r] = NULL
  BY <1>1 DEF InitFrom, Cells, Registers, REGISTER_NONE
<1>8. FieldsOK
  BY <1>1, <1>2, <1>5, <1>7 DEF InitFrom, FieldsOK, Cells
<1>9. /\ active_symbols = <<>> /\ i = 1 /\ errors = {} /\ pc = "next"
      /\ stack_location = [s \in Symbols |-> 0]
      /\ current_stack_location = 0
      /\ affected_register = [s \in Symbols |-> REGISTER_NONE]
  BY <1>1 DEF InitFrom
<1>10. Active = {} /\ Placed = {}
  BY <1>9 DEF Active, Placed, Range
<1> QED
  BY <1>2, <1>4, <1>5, <1>6, <1>7, <1>8, <1>9, <1>10
     DEF IInv, LiveOK, ActiveOK, Distinct, Sorted, RegistersMatchActive,
         BelowOK, Retired, Pending, OnStack, InBody, NoDoubleFree, NoClobber,
         StackOK, StackSlotsDisjoint, SpillOnlyAfterOverflow

\* The same for the lives that Init chooses from.
THEOREM InitIInv == Init => IInv
<1> SUFFICES ASSUME Init PROVE Starting
  BY StartIInv
<1>1. PICK life \in [Symbols -> Interval] :
        InitFrom([s \in Symbols |-> life[s][1]],
                 [s \in Symbols |-> life[s][2]])
  BY DEF Init
<1>2. /\ start_point = [s \in Symbols |-> life[s][1]]
      /\ end_point = [s \in Symbols |-> life[s][2]]
  BY <1>1 DEF InitFrom
<1>3. \A s \in Symbols :
        life[s][1] \in Int /\ life[s][2] \in Int /\ life[s][1] <= life[s][2]
  BY LinearScanAssumption DEF Interval, POINT_INIT
<1>4. /\ start_point \in [Symbols -> Int]
      /\ end_point \in [Symbols -> Int]
      /\ \A s \in Symbols : start_point[s] <= end_point[s]
  BY <1>2, <1>3
<1>5. InitFrom(start_point, end_point)
  BY <1>1, <1>2
<1> QED
  BY <1>4, <1>5 DEF Starting

-----------------------------------------------------------------------------
(***************************************************************************)
(* Each step preserves the invariant.                                      *)
(***************************************************************************)

\* The head of the loop and the end of the expiration move the control only.
LEMMA ControlStep ==
  ASSUME IInv, NextSymbol \/ Finish \/ ExpireDone
  PROVE  IInv'
<1>1. UNCHANGED <<intervals, allocation, i>>
  BY DEF NextSymbol, Finish, ExpireDone
<1>2. /\ start_point' = start_point /\ end_point' = end_point
      /\ live_symbols' = live_symbols /\ active_symbols' = active_symbols
      /\ registers' = registers /\ affected_register' = affected_register
      /\ stack_location' = stack_location /\ i' = i
      /\ current_stack_location' = current_stack_location /\ errors' = errors
  BY <1>1 DEF intervals, allocation
<1>3. FieldsOK' /\ InBody'
  <2>1. FieldsOK /\ InBody
    BY DEF IInv
  <2>2. CASE NextSymbol
    <3>1. /\ pc = "next" /\ pc' = "expire" /\ j' = 1
          /\ i <= Len(live_symbols)
      BY <2>2 DEF NextSymbol
    <3> QED
      BY <1>2, <2>1, <3>1 DEF FieldsOK, InBody
  <2>3. CASE Finish
    <3>1. pc' = "done" /\ j' = j
      BY <2>3 DEF Finish
    <3> QED
      BY <1>2, <2>1, <3>1 DEF FieldsOK, InBody
  <2>4. CASE ExpireDone
    <3>1. pc = "expire" /\ pc' = "place" /\ j' = j
      BY <2>4 DEF ExpireDone
    <3> QED
      BY <1>2, <2>1, <3>1 DEF FieldsOK, InBody
  <2> QED
    BY <2>2, <2>3, <2>4
<1>4. /\ Active' = Active /\ Placed' = Placed
      /\ \A s : OnStack(s)' = OnStack(s)
      /\ \A s, t : Overlap(s, t)' = Overlap(s, t)
  BY <1>2 DEF Active, Placed, OnStack, Overlap
<1>5. LiveOK' /\ ActiveOK'
  BY <1>2, <1>4 DEF IInv, LiveOK, ActiveOK
<1>6. RegistersMatchActive' /\ BelowOK' /\ NoDoubleFree'
  BY <1>2, <1>4 DEF IInv, RegistersMatchActive, BelowOK, NoDoubleFree
<1>7. Retired' /\ Pending'
  BY <1>2, <1>4 DEF IInv, Retired, Pending
<1>8. NoClobber'
  BY <1>2, <1>4 DEF IInv, NoClobber
<1>9. StackOK' /\ StackSlotsDisjoint' /\ SpillOnlyAfterOverflow'
  BY <1>2, <1>4 DEF IInv, StackOK, StackSlotsDisjoint, SpillOnlyAfterOverflow
<1> QED
  BY <1>3, <1>5, <1>6, <1>7, <1>8, <1>9 DEF IInv

\* The symbol that expires gives its register back and its life is over for
\* every symbol to come.
LEMMA ExpireStep ==
  ASSUME IInv, Expire
  PROVE  IInv'
<1> DEFINE s == active_symbols[j]
           reg == affected_register[s]
<1>1. /\ FieldsOK /\ LiveOK /\ ActiveOK /\ RegistersMatchActive /\ BelowOK
      /\ Retired /\ Pending /\ InBody /\ NoDoubleFree /\ NoClobber
      /\ StackOK /\ StackSlotsDisjoint /\ SpillOnlyAfterOverflow
  BY DEF IInv
<1>2. /\ pc = "expire" /\ j \in 1 .. Len(active_symbols)
      /\ end_point[s] < start_point[Current]
      /\ registers' = [registers EXCEPT ![reg] = NULL]
      /\ errors' = IF registers[reg] = NULL
                     THEN errors \cup {"already_free"} ELSE errors
      /\ active_symbols' \in SortedBy(RemoveAt(active_symbols, j), end_point)
      /\ j' = j + 1
      /\ UNCHANGED <<intervals, affected_register, stack_location,
                     current_stack_location, i, pc>>
  BY <1>1 DEF Expire, Expired, FreeRegister, ActiveWithout, FieldsOK
<1>3. /\ active_symbols' \in Seq(Symbols)
      /\ Active' = Active \ {s}
      /\ Distinct(active_symbols')
      /\ Sorted(active_symbols', end_point)
  <2>1. active_symbols \in Seq(Symbols) /\ Distinct(active_symbols)
    BY <1>1 DEF FieldsOK, ActiveOK
  <2>2. /\ RemoveAt(active_symbols, j) \in Seq(Symbols)
        /\ Distinct(RemoveAt(active_symbols, j))
        /\ Range(RemoveAt(active_symbols, j)) = Active \ {s}
    BY <1>2, <2>1, Removed DEF Active
  <2> QED
    BY <1>2, <2>2, Resorted DEF Active
<1>4. s \in Active /\ s \in Symbols /\ reg \in Cells
  BY <1>1, <1>2 DEF Active, Range, FieldsOK
<1>5. registers[reg] # NULL
  <2>1. CASE reg = REGISTER_NONE
    BY <1>1, <1>4, <2>1 DEF BelowOK
  <2>2. CASE reg \in Registers
    BY <1>1, <1>4, <2>2 DEF RegistersMatchActive
  <2> QED
    BY <1>4, <2>1, <2>2 DEF Cells
<1>6. errors' = errors
  BY <1>2, <1>5
<1> HIDE DEF s, reg
<1>7. UNCHANGED <<start_point, end_point, live_symbols>> /\ Placed' = Placed
  BY <1>2 DEF intervals, Placed
<1>8. FieldsOK'
  <2>1. registers' \in [Cells -> Symbols \cup {NULL, Foreign}]
    BY <1>1, <1>2, <1>4 DEF FieldsOK
  <2>2. j' \in Nat \ {0}
    BY <1>1, <1>2 DEF FieldsOK
  <2> QED
    BY <1>1, <1>2, <1>3, <1>6, <1>7, <2>1, <2>2 DEF FieldsOK
<1>9. LiveOK'
  BY <1>1, <1>7 DEF LiveOK
<1>10. ActiveOK'
  BY <1>1, <1>3, <1>7 DEF ActiveOK
<1>11. RegistersMatchActive'
  <2>1. \A t, u \in Active' :
          affected_register'[t] = affected_register'[u] => t = u
    BY <1>1, <1>2, <1>3 DEF RegistersMatchActive
  <2>2. ASSUME NEW r \in Registers
        PROVE  registers'[r] = NULL <=>
                 \A t \in Active' : affected_register'[t] # r
    <3>1. registers[r] = NULL <=> \A t \in Active : affected_register[t] # r
      BY <1>1 DEF RegistersMatchActive
    <3>2. CASE r = reg
      <4>1. registers'[r] = NULL
        BY <1>1, <1>2, <1>4, <3>2 DEF FieldsOK
      <4>2. \A t \in Active' : affected_register'[t] # r
        BY <1>1, <1>2, <1>3, <1>4, <3>2 DEF RegistersMatchActive, reg
      <4> QED
        BY <4>1, <4>2
    <3>3. CASE r # reg
      <4>1. registers'[r] = registers[r]
        BY <1>1, <1>2, <3>3 DEF FieldsOK, Cells
      <4>2. affected_register[s] # r
        BY <3>3 DEF reg
      <4> QED
        BY <1>2, <1>3, <3>1, <4>1, <4>2
    <3> QED
      BY <3>2, <3>3
  <2>3. \A t \in Active' : ~ OnStack(t)'
    BY <1>1, <1>2, <1>3 DEF RegistersMatchActive, OnStack
  <2> QED
    BY <2>1, <2>2, <2>3 DEF RegistersMatchActive
<1>12. BelowOK'
  <2> SUFFICES ASSUME NEW t \in Active', affected_register[t] = REGISTER_NONE
               PROVE  registers'[REGISTER_NONE] # NULL /\ "no_free" \in errors
    BY <1>2, <1>6 DEF BelowOK
  <2>1. reg # REGISTER_NONE
    BY <1>1, <1>3, <1>4 DEF RegistersMatchActive, reg
  <2>2. registers'[REGISTER_NONE] = registers[REGISTER_NONE]
    BY <1>1, <1>2, <2>1 DEF FieldsOK, Cells
  <2> QED
    BY <1>1, <1>3, <2>2 DEF BelowOK
<1>13. Retired'
  <2> SUFFICES ASSUME NEW t \in Placed, t \notin Active', ~ OnStack(t),
                      NEW k \in i .. Len(live_symbols)
               PROVE  end_point[t] < start_point[live_symbols[k]]
    BY <1>2, <1>7 DEF Retired, OnStack
  <2>1. CASE t \in Active
    <3>1. t = s
      BY <1>3, <2>1
    <3>2. start_point[Current] <= start_point[live_symbols[k]]
      BY <1>1, <1>2, PlacingCurrent DEF InBody
    <3>3. Current \in Symbols /\ live_symbols[k] \in Symbols
      BY <1>1, <1>2, PlacingCurrent DEF InBody
    <3>4. /\ end_point[s] \in Int /\ start_point[Current] \in Int
          /\ start_point[live_symbols[k]] \in Int
      BY <1>1, <1>4, <3>3, PointsAreIntegers
    <3> QED
      BY <1>2, <3>1, <3>2, <3>4 DEF s
  <2>2. CASE t \notin Active
    BY <1>1, <2>2 DEF Retired
  <2> QED
    BY <2>1, <2>2
<1>14. Pending' /\ InBody' /\ NoDoubleFree'
  BY <1>1, <1>2, <1>6, <1>7 DEF Pending, InBody, NoDoubleFree, OnStack
<1>15. NoClobber'
  BY <1>1, <1>2, <1>7 DEF NoClobber, OnStack, Overlap
<1>16. StackOK' /\ StackSlotsDisjoint' /\ SpillOnlyAfterOverflow'
  BY <1>1, <1>2, <1>6 DEF StackOK, StackSlotsDisjoint, OnStack,
                          SpillOnlyAfterOverflow
<1> QED
  BY <1>8, <1>9, <1>10, <1>11, <1>12, <1>13, <1>14, <1>15, <1>16 DEF IInv

-----------------------------------------------------------------------------
(***************************************************************************)
(* Counting registers.                                                     *)
(***************************************************************************)

\* There are MAX_REGISTERS registers.
LEMMA RegistersFinite ==
  IsFiniteSet(Registers) /\ Cardinality(Registers) = MAX_REGISTERS
<1>1. 0 \in Int /\ MAX_REGISTERS - 1 \in Int
      /\ ~ (0 > MAX_REGISTERS - 1)
  BY LinearScanAssumption
<1> QED
  BY <1>1, FS_Interval, LinearScanAssumption DEF Registers

\* When no register is free at least MAX_REGISTERS symbols are active, and
\* one more if one of them is without a register of the array.
LEMMA AllTaken ==
  ASSUME FieldsOK, ActiveOK, RegistersMatchActive, FreeRegisters = {}
  PROVE  /\ Len(active_symbols) >= MAX_REGISTERS
         /\ ~ TooManyActive =>
              \A s \in Active : affected_register[s] \in Registers
<1> DEFINE Owner(r) == CHOOSE s \in Active : affected_register[s] = r
           owner == [r \in Registers |-> Owner(r)]
<1>1. \A r \in Registers : Owner(r) \in Active
                           /\ affected_register[Owner(r)] = r
  <2> SUFFICES ASSUME NEW r \in Registers
               PROVE  \E s \in Active : affected_register[s] = r
    OBVIOUS
  <2> QED
    BY DEF FreeRegisters, RegistersMatchActive
<1>2. /\ IsFiniteSet(Active) /\ Cardinality(Active) = Len(active_symbols)
      /\ Len(active_symbols) \in Nat
  <2>1. active_symbols \in Seq(Symbols) /\ Distinct(active_symbols)
    BY DEF FieldsOK, ActiveOK
  <2> QED
    BY <2>1, DistinctLength DEF Active
<1>3. owner \in Injection(Registers, Active)
  BY <1>1 DEF Injection, IsInjective
<1>4. Cardinality(Registers) <= Cardinality(Active)
  BY <1>2, <1>3, FS_Injection
<1>5. ASSUME NEW s \in Active, affected_register[s] \notin Registers
      PROVE  Len(active_symbols) > MAX_REGISTERS
  <2>1. owner \in Injection(Registers, Active \ {s})
    BY <1>1, <1>5 DEF Injection, IsInjective
  <2>2. IsFiniteSet(Active \ {s})
        /\ Cardinality(Active \ {s}) = Len(active_symbols) - 1
    BY <1>2, FS_RemoveElement
  <2>3. Cardinality(Registers) <= Cardinality(Active \ {s})
    BY <2>1, <2>2, FS_Injection
  <2> QED
    BY <1>2, <2>2, <2>3, RegistersFinite, LinearScanAssumption
<1> QED
  BY <1>2, <1>4, <1>5, RegistersFinite, LinearScanAssumption
     DEF TooManyActive

\* When too many symbols are active one of them has no register of the array,
\* so the overflow has been reported.
LEMMA TooManyMeansOverflow ==
  ASSUME FieldsOK, ActiveOK, RegistersMatchActive, BelowOK, TooManyActive
  PROVE  "no_free" \in errors
<1> SUFFICES ASSUME \A s \in Active : affected_register[s] \in Registers
             PROVE  FALSE
  BY DEF BelowOK, FieldsOK, Cells, Active, Range
<1> DEFINE held == [s \in Active |-> affected_register[s]]
<1>1. held \in Injection(Active, Registers)
  BY DEF RegistersMatchActive, Injection, IsInjective
<1>2. Cardinality(Active) = Len(active_symbols) /\ Len(active_symbols) \in Nat
  <2>1. active_symbols \in Seq(Symbols) /\ Distinct(active_symbols)
    BY DEF FieldsOK, ActiveOK
  <2> QED
    BY <2>1, DistinctLength DEF Active
<1>3. Cardinality(Active) <= Cardinality(Registers)
  BY <1>1, RegistersFinite, FS_Injection
<1> QED
  BY <1>2, <1>3, RegistersFinite, LinearScanAssumption DEF TooManyActive

-----------------------------------------------------------------------------
(***************************************************************************)
(* Placing the current symbol.                                             *)
(***************************************************************************)

\* The parts of the invariant that every way to place a symbol keeps.
LEMMA Placing ==
  ASSUME IInv, pc = "place", PlacedCurrent, UNCHANGED intervals,
         \A s \in Symbols : s # Current =>
           affected_register'[s] = affected_register[s],
         \A k \in i + 1 .. Len(live_symbols) :
           stack_location'[live_symbols[k]] = stack_location[live_symbols[k]]
  PROVE  /\ Current \in Symbols /\ Current \notin Placed
         /\ Current \notin Active
         /\ Placed' = Placed \cup {Current}
         /\ i' \in 1 .. Len(live_symbols') + 1
         /\ LiveOK' /\ Pending' /\ InBody'
<1>1. FieldsOK /\ LiveOK /\ ActiveOK /\ Pending /\ InBody
  BY DEF IInv
<1>2. UNCHANGED <<start_point, end_point, live_symbols>> /\ i' = i + 1
      /\ pc' = "next" /\ i <= Len(live_symbols)
  BY <1>1 DEF intervals, PlacedCurrent, InBody
<1>3. /\ i \in 1 .. Len(live_symbols) /\ Current \in Symbols
      /\ Current \notin Placed /\ Placed' = Placed \cup {Current}
  BY <1>1, <1>2, PlacingCurrent
<1>4. Current \notin Active
  BY <1>1, <1>3 DEF ActiveOK
<1>5. LiveOK'
  BY <1>1, <1>2 DEF LiveOK
<1>6. Pending'
  <2> SUFFICES ASSUME NEW k \in i + 1 .. Len(live_symbols)
               PROVE  /\ affected_register'[live_symbols[k]] = REGISTER_NONE
                      /\ stack_location'[live_symbols[k]] = 0
    BY <1>2 DEF Pending, OnStack
  <2>1. /\ k \in i .. Len(live_symbols) /\ k # i /\ k \in DOMAIN live_symbols
        /\ i \in DOMAIN live_symbols /\ live_symbols[k] \in Symbols
    <3>1. live_symbols \in Seq(Symbols)
      BY <1>1 DEF FieldsOK
    <3>2. DOMAIN live_symbols = 1 .. Len(live_symbols)
          /\ Len(live_symbols) \in Nat
      BY <3>1
    <3>3. k \in 1 .. Len(live_symbols) /\ k \in i .. Len(live_symbols) /\ k # i
      BY <1>3, <3>2
    <3> QED
      BY <1>3, <3>1, <3>2, <3>3
  <2>2. live_symbols[k] # Current
    BY <1>1, <2>1 DEF LiveOK, Distinct, Current
  <2> QED
    BY <1>1, <2>1, <2>2 DEF Pending, OnStack
<1>7. InBody' /\ i' \in 1 .. Len(live_symbols') + 1
  BY <1>2, <1>3 DEF InBody
<1> QED
  BY <1>3, <1>4, <1>5, <1>6, <1>7

\* The active array after the current symbol has been pushed and sorted.
LEMMA Activating ==
  ASSUME FieldsOK, ActiveOK, Current \in Symbols, Current \notin Active,
         Placed' = Placed \cup {Current}, end_point' = end_point,
         NEW others \in Seq(Symbols), Distinct(others),
         Range(others) \subseteq Active,
         Activate(Current, others)
  PROVE  /\ active_symbols' \in Seq(Symbols)
         /\ Active' = Range(others) \cup {Current}
         /\ ActiveOK'
<1>1. /\ Append(others, Current) \in Seq(Symbols)
      /\ Range(Append(others, Current)) = Range(others) \cup {Current}
      /\ Distinct(Append(others, Current))
  BY Pushed
<1>2. /\ active_symbols' \in Seq(Symbols)
      /\ Range(active_symbols') = Range(others) \cup {Current}
      /\ Distinct(active_symbols')
      /\ Sorted(active_symbols', end_point)
  BY <1>1, Resorted DEF Activate
<1> QED
  BY <1>2 DEF ActiveOK, Active

\* The new owner of a register meets no earlier one, provided the ones that
\* are still active are put on the stack.
LEMMA NewOwner ==
  ASSUME IInv, pc = "place", UNCHANGED intervals, NEW reg \in Cells,
         Placed' = Placed \cup {Current}, Current \in Symbols,
         affected_register' = [affected_register EXCEPT ![Current] = reg],
         \A s \in Placed :
           s \in Active /\ affected_register[s] = reg => OnStack(s)',
         \A s \in Placed : OnStack(s) => OnStack(s)'
  PROVE  NoClobber'
<1>1. FieldsOK /\ LiveOK /\ Retired /\ InBody /\ NoClobber
  BY DEF IInv
<1>2. UNCHANGED <<start_point, end_point, live_symbols>>
  BY DEF intervals
<1>3. i \in i .. Len(live_symbols) /\ Current = live_symbols[i]
  BY <1>1 DEF FieldsOK, InBody, Current
<1>4. Placed \subseteq Symbols
  <2>1. \A k \in 1 .. i - 1 : k \in 1 .. Len(live_symbols)
    BY <1>1 DEF FieldsOK
  <2>2. live_symbols \in Seq(Symbols)
    BY <1>1 DEF FieldsOK
  <2>3. \A k \in 1 .. Len(live_symbols) : live_symbols[k] \in Symbols
    BY <2>2
  <2> QED
    BY <2>1, <2>3 DEF Placed
<1>5. ASSUME NEW s \in Placed, ~ OnStack(s)', affected_register'[s] = reg,
             s # Current
      PROVE  ~ Overlap(s, Current) /\ ~ Overlap(Current, s)
  <2>1. affected_register[s] = reg
    BY <1>1, <1>4, <1>5 DEF FieldsOK
  <2>2. s \notin Active /\ ~ OnStack(s)
    BY <1>5, <2>1
  <2>3. end_point[s] < start_point[Current]
    BY <1>1, <1>3, <2>2 DEF Retired
  <2>4. end_point[s] \in Int /\ start_point[Current] \in Int
    BY <1>1, <1>4, PointsAreIntegers
  <2> QED
    BY <2>3, <2>4 DEF Overlap
<1>6. \A s \in Symbols :
        affected_register'[s] = IF s = Current THEN reg ELSE affected_register[s]
  BY <1>1 DEF FieldsOK
<1> SUFFICES ASSUME NEW s \in Placed', NEW t \in Placed', s # t,
                    Overlap(s, t)', ~ OnStack(s)', ~ OnStack(t)',
                    affected_register'[s] = affected_register'[t]
             PROVE  FALSE
  BY DEF NoClobber
<1>7. Overlap(s, t)
  BY <1>2 DEF Overlap
<1>8. CASE s = Current
  BY <1>5, <1>6, <1>7, <1>8
<1>9. CASE t = Current
  BY <1>5, <1>6, <1>7, <1>9
<1>10. CASE s # Current /\ t # Current
  BY <1>1, <1>4, <1>6, <1>7, <1>10 DEF NoClobber
<1> QED
  BY <1>8, <1>9, <1>10

\* Taking the first free register.
LEMMA AssignStep ==
  ASSUME IInv, Assign
  PROVE  IInv'
<1>1. /\ FieldsOK /\ LiveOK /\ ActiveOK /\ RegistersMatchActive /\ BelowOK
      /\ Retired /\ InBody /\ NoDoubleFree /\ StackOK /\ StackSlotsDisjoint
      /\ SpillOnlyAfterOverflow
  BY DEF IInv
<1>2. PICK reg \in Registers :
        /\ registers[reg] = NULL
        /\ registers' = [registers EXCEPT ![reg] = Current]
        /\ affected_register' = [affected_register EXCEPT ![Current] = reg]
  BY DEF Assign, FreeRegisters
<1>3. /\ pc = "place" /\ PlacedCurrent /\ i' = i + 1 /\ pc' = "next"
      /\ Activate(Current, active_symbols)
      /\ UNCHANGED <<intervals, stack_location, current_stack_location, j,
                     errors>>
      /\ UNCHANGED <<start_point, end_point, live_symbols>>
  BY DEF Assign, PlacedCurrent, intervals
<1>4. /\ Current \in Symbols /\ Current \notin Placed /\ Current \notin Active
      /\ Placed' = Placed \cup {Current}
      /\ i' \in 1 .. Len(live_symbols') + 1
      /\ LiveOK' /\ Pending' /\ InBody'
  BY <1>1, <1>2, <1>3, Placing DEF FieldsOK
<1>5. /\ active_symbols' \in Seq(Symbols)
      /\ Active' = Active \cup {Current}
      /\ ActiveOK'
  <2>1. active_symbols \in Seq(Symbols) /\ Distinct(active_symbols)
        /\ Range(active_symbols) = Active
    BY <1>1 DEF FieldsOK, ActiveOK, Active
  <2> QED
    BY <1>1, <1>3, <1>4, <2>1, Activating
<1>6. FieldsOK'
  <2>1. reg \in Cells /\ Current \in Symbols \cup {NULL, Foreign}
    BY <1>4 DEF Cells
  <2> QED
    BY <1>1, <1>2, <1>3, <1>4, <1>5, <2>1 DEF FieldsOK
<1>7. \A s \in Symbols :
        affected_register'[s] = IF s = Current THEN reg ELSE affected_register[s]
  BY <1>1, <1>2 DEF FieldsOK
<1>8. \A s \in Active : s \in Symbols /\ affected_register[s] # reg
  BY <1>1, <1>2 DEF RegistersMatchActive, FieldsOK, Active, Range
<1>9. \A r \in Cells : registers'[r] = IF r = reg THEN Current ELSE registers[r]
  BY <1>1, <1>2 DEF FieldsOK
<1>10. RegistersMatchActive'
  <2>1. \A s, t \in Active' :
          affected_register'[s] = affected_register'[t] => s = t
    BY <1>1, <1>4, <1>5, <1>7, <1>8 DEF RegistersMatchActive
  <2>2. ASSUME NEW r \in Registers
        PROVE  registers'[r] = NULL <=>
                 \A s \in Active' : affected_register'[s] # r
    <3>1. CASE r = reg
      BY <1>4, <1>5, <1>7, <1>9, <3>1, LinearScanAssumption DEF Cells
    <3>2. CASE r # reg
      BY <1>1, <1>4, <1>5, <1>7, <1>8, <1>9, <3>2
         DEF RegistersMatchActive, Cells
    <3> QED
      BY <3>1, <3>2
  <2>3. \A s \in Active' : ~ OnStack(s)'
    <3>1. i \in i .. Len(live_symbols)
      BY <1>1, <1>3 DEF InBody, FieldsOK
    <3>2. ~ OnStack(Current)
      BY <3>1 DEF IInv, Pending, Current
    <3> QED
      BY <1>1, <1>3, <1>5, <3>2 DEF RegistersMatchActive, OnStack
  <2> QED
    BY <2>1, <2>2, <2>3 DEF RegistersMatchActive
<1>11. BelowOK'
  <2>1. reg # REGISTER_NONE
    BY LinearScanAssumption DEF Registers, REGISTER_NONE
  <2>2. registers'[REGISTER_NONE] = registers[REGISTER_NONE]
    BY <1>9, <2>1 DEF Cells
  <2> QED
    BY <1>1, <1>3, <1>4, <1>5, <1>7, <1>8, <2>1, <2>2 DEF BelowOK
<1>12. Retired'
  <2>1. \A k \in i + 1 .. Len(live_symbols) : k \in i .. Len(live_symbols)
    BY <1>1 DEF FieldsOK
  <2> QED
    BY <1>1, <1>3, <1>4, <1>5, <2>1 DEF Retired, OnStack
<1>13. NoClobber'
  <2>1. reg \in Cells
    BY DEF Cells
  <2>2. \A s \in Placed : OnStack(s) => OnStack(s)'
    BY <1>3 DEF OnStack
  <2> QED
    BY <1>2, <1>3, <1>4, <1>8, <2>1, <2>2, NewOwner
<1>14. NoDoubleFree' /\ StackOK' /\ StackSlotsDisjoint'
       /\ SpillOnlyAfterOverflow'
  BY <1>1, <1>3 DEF NoDoubleFree, StackOK, StackSlotsDisjoint, OnStack,
                    SpillOnlyAfterOverflow
<1> QED
  BY <1>4, <1>5, <1>6, <1>10, <1>11, <1>12, <1>13, <1>14 DEF IInv

\* Going past the end of the register array, when the program survives it.
LEMMA OverflowStep ==
  ASSUME IInv, AssignBelow \/ AssignNothing, pc' # "crashed"
  PROVE  IInv'
<1>1. /\ FieldsOK /\ LiveOK /\ ActiveOK /\ RegistersMatchActive /\ BelowOK
      /\ Retired /\ InBody /\ NoDoubleFree /\ StackOK /\ StackSlotsDisjoint
      /\ SpillOnlyAfterOverflow
  BY DEF IInv
<1>2. /\ pc = "place" /\ PlacedCurrent /\ i' = i + 1 /\ pc' = "next"
      /\ ~ TooManyActive /\ FreeRegisters = {}
      /\ Activate(Current, active_symbols)
      /\ UNCHANGED <<intervals, affected_register, stack_location,
                     current_stack_location, j>>
      /\ UNCHANGED <<start_point, end_point, live_symbols>>
  BY DEF AssignBelow, AssignNothing, PlacedCurrent, intervals
<1>3. /\ Current \in Symbols /\ Current \notin Placed /\ Current \notin Active
      /\ Placed' = Placed \cup {Current}
      /\ i' \in 1 .. Len(live_symbols') + 1
      /\ LiveOK' /\ Pending' /\ InBody'
  BY <1>2, Placing
<1>4. /\ affected_register[Current] = REGISTER_NONE
      /\ ~ OnStack(Current)
  <2>1. i \in i .. Len(live_symbols)
    BY <1>1, <1>2 DEF InBody, FieldsOK
  <2> QED
    BY <2>1 DEF IInv, Pending, Current
<1>5. \A s \in Active : affected_register[s] \in Registers
  BY <1>1, <1>2, AllTaken
<1>6. REGISTER_NONE \in Cells /\ REGISTER_NONE \notin Registers
      /\ Registers \subseteq Cells
  BY LinearScanAssumption DEF Cells, Registers, REGISTER_NONE
<1>7. /\ registers' \in [Cells -> Symbols \cup {NULL, Foreign}]
      /\ registers'[REGISTER_NONE] # NULL
      /\ \A r \in Registers : registers'[r] = registers[r]
  <2>1. CASE AssignBelow
    <3>1. registers' = [registers EXCEPT ![REGISTER_NONE] = Current]
      BY <2>1 DEF AssignBelow
    <3>2. Current # NULL /\ Current \in Symbols \cup {NULL, Foreign}
      BY <1>3, LinearScanAssumption
    <3> QED
      BY <1>1, <1>6, <3>1, <3>2 DEF FieldsOK
  <2>2. CASE AssignNothing
    BY <1>1, <2>2 DEF AssignNothing, FieldsOK
  <2> QED
    BY <2>1, <2>2
<1>8. /\ "no_free" \in errors'
      /\ errors' \subseteq errors \cup {"no_free", "already_assigned"}
  BY DEF AssignBelow, AssignNothing
<1>9. /\ active_symbols' \in Seq(Symbols)
      /\ Active' = Active \cup {Current}
      /\ ActiveOK'
  <2>1. active_symbols \in Seq(Symbols) /\ Distinct(active_symbols)
        /\ Range(active_symbols) = Active
    BY <1>1 DEF FieldsOK, ActiveOK, Active
  <2> QED
    BY <1>1, <1>2, <1>3, <2>1, Activating
<1>10. FieldsOK'
  BY <1>1, <1>2, <1>3, <1>7, <1>8, <1>9 DEF FieldsOK
<1>11. RegistersMatchActive'
  <2>1. \A s, t \in Active' :
          affected_register'[s] = affected_register'[t] => s = t
    BY <1>1, <1>2, <1>4, <1>5, <1>6, <1>9 DEF RegistersMatchActive
  <2>2. \A r \in Registers :
          registers'[r] = NULL <=> \A s \in Active' : affected_register'[s] # r
    BY <1>1, <1>2, <1>4, <1>6, <1>7, <1>9 DEF RegistersMatchActive
  <2>3. \A s \in Active' : ~ OnStack(s)'
    BY <1>1, <1>2, <1>4, <1>9 DEF RegistersMatchActive, OnStack
  <2> QED
    BY <2>1, <2>2, <2>3 DEF RegistersMatchActive
<1>12. BelowOK'
  BY <1>7, <1>8 DEF BelowOK
<1>13. Retired'
  <2>1. \A k \in i + 1 .. Len(live_symbols) : k \in i .. Len(live_symbols)
    BY <1>1 DEF FieldsOK
  <2> QED
    BY <1>1, <1>2, <1>3, <1>9, <2>1 DEF Retired, OnStack
<1>14. NoClobber'
  <2>1. affected_register' =
          [affected_register EXCEPT ![Current] = REGISTER_NONE]
    BY <1>1, <1>2, <1>3, <1>4 DEF FieldsOK
  <2>2. \A s \in Placed : OnStack(s) => OnStack(s)'
    BY <1>2 DEF OnStack
  <2>3. \A s \in Active : affected_register[s] # REGISTER_NONE
    BY <1>5, <1>6
  <2> QED
    BY <1>2, <1>3, <1>6, <2>1, <2>2, <2>3, NewOwner
<1>15. NoDoubleFree' /\ StackOK' /\ StackSlotsDisjoint'
       /\ SpillOnlyAfterOverflow'
  BY <1>1, <1>2, <1>8 DEF NoDoubleFree, StackOK, StackSlotsDisjoint, OnStack,
                          SpillOnlyAfterOverflow
<1> QED
  BY <1>3, <1>9, <1>10, <1>11, <1>12, <1>13, <1>14, <1>15 DEF IInv

\* Going past the end of the register array, when it kills the program.
LEMMA CrashStep ==
  ASSUME IInv, AssignBelow \/ AssignNothing, pc' = "crashed"
  PROVE  IInv'
<1>1. /\ UNCHANGED <<intervals, active_symbols, registers, affected_register,
                      stack_location, current_stack_location, i, j>>
      /\ errors' = errors \cup {"no_free", "already_assigned"}
  BY DEF AssignBelow, AssignNothing, PlacedCurrent
<1>2. FieldsOK' /\ InBody'
  BY <1>1 DEF IInv, FieldsOK, InBody, intervals
<1>3. BelowOK' /\ NoDoubleFree' /\ SpillOnlyAfterOverflow'
  BY <1>1 DEF IInv, BelowOK, NoDoubleFree, SpillOnlyAfterOverflow, Active
<1> QED
  BY <1>1, <1>2, <1>3
     DEF IInv, LiveOK, ActiveOK, Active, Placed, RegistersMatchActive, Retired,
         Pending, NoClobber, OnStack, Overlap, StackOK, StackSlotsDisjoint,
         intervals

\* One more symbol on the stack, below the others.
LEMMA Spilling ==
  ASSUME FieldsOK, StackOK, StackSlotsDisjoint, NEW v \in Symbols,
         ~ OnStack(v), Spill(v)
  PROVE  /\ stack_location' \in [Symbols -> Int]
         /\ current_stack_location' \in Int
         /\ \A s \in Symbols : OnStack(s)' <=> OnStack(s) \/ s = v
         /\ \A s \in Symbols : s # v => stack_location'[s] = stack_location[s]
         /\ StackOK' /\ StackSlotsDisjoint'
<1> DEFINE top == current_stack_location - Size[v]
<1>1. current_stack_location' = top
      /\ stack_location' = [stack_location EXCEPT ![v] = top]
  BY DEF Spill
<1>2. /\ current_stack_location \in Int /\ current_stack_location <= 0
      /\ Size[v] \in Int /\ Size[v] > 0
      /\ stack_location \in [Symbols -> Int]
  BY LinearScanAssumption DEF FieldsOK, StackOK
<1>3. top \in Int /\ top < 0 /\ top < current_stack_location
      /\ top + Size[v] = current_stack_location
  BY <1>2
<1> HIDE DEF top
<1>4. stack_location' \in [Symbols -> Int]
      /\ \A s \in Symbols :
           stack_location'[s] = IF s = v THEN top ELSE stack_location[s]
  BY <1>1, <1>2, <1>3
<1>5. \A s \in Symbols : OnStack(s)' <=> OnStack(s) \/ s = v
  BY <1>3, <1>4 DEF OnStack
<1>6. StackOK'
  BY <1>1, <1>2, <1>3, <1>4, <1>5 DEF StackOK
<1>7. StackSlotsDisjoint'
  BY <1>2, <1>3, <1>4, <1>5 DEF StackSlotsDisjoint, StackOK
<1> QED
  BY <1>1, <1>3, <1>4, <1>5, <1>6, <1>7

\* The last active symbol goes to the stack, its register to the current one.
LEMMA SpillLastStep ==
  ASSUME IInv, SpillLast
  PROVE  IInv'
<1> PICK v : v = LastActive
  OBVIOUS
<1> PICK reg : reg = affected_register[v]
  OBVIOUS
<1> DEFINE others == RemoveAt(active_symbols, Len(active_symbols))
<1>1. /\ FieldsOK /\ LiveOK /\ ActiveOK /\ RegistersMatchActive /\ BelowOK
      /\ Retired /\ InBody /\ NoDoubleFree /\ StackOK /\ StackSlotsDisjoint
      /\ SpillOnlyAfterOverflow
  BY DEF IInv
<1>2. /\ pc = "place" /\ PlacedCurrent /\ i' = i + 1 /\ pc' = "next"
      /\ TooManyActive
      /\ affected_register' = [affected_register EXCEPT ![Current] = reg]
      /\ Spill(v)
      /\ Activate(Current, others)
      /\ UNCHANGED <<intervals, registers, j, errors>>
      /\ UNCHANGED <<start_point, end_point, live_symbols>>
  BY DEF SpillLast, PlacedCurrent, intervals, ActiveWithout
<1>3. Len(active_symbols) \in 1 .. Len(active_symbols)
  BY <1>1, <1>2, LinearScanAssumption DEF TooManyActive, FieldsOK
<1>4. v \in Active /\ v \in Symbols /\ reg \in Cells /\ ~ OnStack(v)
  BY <1>1, <1>3 DEF Active, Range, FieldsOK, LastActive, RegistersMatchActive
<1>5. /\ others \in Seq(Symbols) /\ Distinct(others)
      /\ Range(others) = Active \ {v}
  <2>1. active_symbols \in Seq(Symbols) /\ Distinct(active_symbols)
    BY <1>1 DEF FieldsOK, ActiveOK
  <2> QED
    BY <1>3, <2>1, Removed DEF Active, LastActive
<1>6. /\ stack_location' \in [Symbols -> Int]
      /\ current_stack_location' \in Int
      /\ \A s \in Symbols : OnStack(s)' <=> OnStack(s) \/ s = v
      /\ \A s \in Symbols : s # v => stack_location'[s] = stack_location[s]
      /\ StackOK' /\ StackSlotsDisjoint'
  BY <1>1, <1>2, <1>4, Spilling
<1> HIDE DEF others
<1>7. i \in i .. Len(live_symbols) /\ i \in 1 .. Len(live_symbols)
      /\ Current \in Symbols /\ Current \notin Placed
      /\ \A k \in i + 1 .. Len(live_symbols) : live_symbols[k] # v
  <2>1. i \in i .. Len(live_symbols) /\ i <= Len(live_symbols)
    BY <1>1, <1>2 DEF InBody, FieldsOK
  <2>2. v \in Placed
    BY <1>1, <1>4 DEF ActiveOK
  <2>3. PICK m \in 1 .. i - 1 : v = live_symbols[m]
    BY <2>2 DEF Placed
  <2>4. \A k \in i + 1 .. Len(live_symbols) : live_symbols[k] # v
    BY <1>1, <2>1, <2>3 DEF LiveOK, Distinct, FieldsOK
  <2> QED
    BY <1>1, <2>1, <2>4, PlacingCurrent
<1>8. /\ Current \notin Active
      /\ Placed' = Placed \cup {Current}
      /\ i' \in 1 .. Len(live_symbols') + 1
      /\ LiveOK' /\ Pending' /\ InBody'
  <2>1. \A s \in Symbols : s # Current =>
          affected_register'[s] = affected_register[s]
    BY <1>1, <1>2 DEF FieldsOK
  <2>2. \A k \in i + 1 .. Len(live_symbols) :
          stack_location'[live_symbols[k]] = stack_location[live_symbols[k]]
    <3>1. \A k \in i + 1 .. Len(live_symbols) : live_symbols[k] \in Symbols
      BY <1>1 DEF FieldsOK
    <3> QED
      BY <1>6, <1>7, <3>1
  <2> QED
    BY <1>2, <2>1, <2>2, Placing
<1>9. /\ active_symbols' \in Seq(Symbols)
      /\ Active' = (Active \ {v}) \cup {Current}
      /\ ActiveOK'
  BY <1>1, <1>2, <1>5, <1>7, <1>8, Activating
<1>10. FieldsOK'
  BY <1>1, <1>2, <1>4, <1>6, <1>8, <1>9 DEF FieldsOK
<1>11. \A s \in Symbols :
         affected_register'[s] = IF s = Current THEN reg ELSE affected_register[s]
  BY <1>1, <1>2 DEF FieldsOK
<1>12. /\ Active \subseteq Symbols
       /\ affected_register[v] = reg
       /\ \A s \in Active : affected_register[s] = reg => s = v
  <2>1. Active \subseteq Symbols
    BY <1>1 DEF FieldsOK, Active, Range
  <2> QED
    BY <1>1, <1>4, <2>1 DEF RegistersMatchActive
<1>13. ~ OnStack(Current)
  BY <1>7 DEF IInv, Pending, Current
<1>14. RegistersMatchActive'
  <2>1. \A s, t \in Active' :
          affected_register'[s] = affected_register'[t] => s = t
    BY <1>1, <1>7, <1>8, <1>9, <1>11, <1>12 DEF RegistersMatchActive
  <2>2. ASSUME NEW r \in Registers
        PROVE  registers'[r] = NULL <=>
                 \A s \in Active' : affected_register'[s] # r
    <3>1. registers[r] = NULL <=> \A s \in Active : affected_register[s] # r
      BY <1>1 DEF RegistersMatchActive
    <3>2. (\A s \in Active' : affected_register'[s] # r)
          <=> (\A s \in Active : affected_register[s] # r)
      BY <1>4, <1>7, <1>8, <1>9, <1>11, <1>12
    <3> QED
      BY <1>2, <3>1, <3>2
  <2>3. \A s \in Active' : ~ OnStack(s)'
    BY <1>1, <1>4, <1>6, <1>7, <1>8, <1>9, <1>12, <1>13
       DEF RegistersMatchActive
  <2> QED
    BY <2>1, <2>2, <2>3 DEF RegistersMatchActive
<1>15. BelowOK'
  BY <1>1, <1>2, <1>4, <1>7, <1>9, <1>11, <1>12 DEF BelowOK
<1>16. Retired'
  <2>1. \A k \in i + 1 .. Len(live_symbols) : k \in i .. Len(live_symbols)
    BY <1>1 DEF FieldsOK
  <2>2. \A s \in Placed : s \in Symbols
    BY <1>1 DEF Placed, FieldsOK
  <2> QED
    BY <1>1, <1>2, <1>6, <1>8, <1>9, <2>1, <2>2 DEF Retired
<1>17. NoClobber'
  <2>1. \A s \in Placed : s \in Symbols
    BY <1>1 DEF Placed, FieldsOK
  <2>2. \A s \in Placed : OnStack(s) => OnStack(s)'
    BY <1>6, <2>1
  <2>3. OnStack(v)'
    BY <1>4, <1>6
  <2>4. \A s \in Placed : s \in Active /\ affected_register[s] = reg
          => OnStack(s)'
    BY <1>12, <2>3
  <2> QED
    BY <1>2, <1>4, <1>7, <1>8, <2>2, <2>4, NewOwner
<1>18. NoDoubleFree' /\ SpillOnlyAfterOverflow'
  <2>1. "no_free" \in errors
    BY <1>1, <1>2, TooManyMeansOverflow
  <2> QED
    BY <1>1, <1>2, <2>1 DEF NoDoubleFree, SpillOnlyAfterOverflow
<1> QED
  BY <1>6, <1>8, <1>9, <1>10, <1>14, <1>15, <1>16, <1>17, <1>18 DEF IInv

\* The current symbol goes to the stack.
LEMMA SpillCurrentStep ==
  ASSUME IInv, SpillCurrent
  PROVE  IInv'
<1>1. /\ FieldsOK /\ LiveOK /\ ActiveOK /\ RegistersMatchActive /\ BelowOK
      /\ Retired /\ InBody /\ NoDoubleFree /\ NoClobber /\ StackOK
      /\ StackSlotsDisjoint /\ SpillOnlyAfterOverflow
  BY DEF IInv
<1>2. /\ pc = "place" /\ PlacedCurrent /\ i' = i + 1 /\ pc' = "next"
      /\ TooManyActive
      /\ Spill(Current)
      /\ UNCHANGED <<intervals, active_symbols, registers, affected_register,
                     j, errors>>
      /\ UNCHANGED <<start_point, end_point, live_symbols>>
  BY DEF SpillCurrent, PlacedCurrent, intervals
<1>3. i \in i .. Len(live_symbols) /\ i \in 1 .. Len(live_symbols)
      /\ Current \in Symbols /\ ~ OnStack(Current)
      /\ \A k \in i + 1 .. Len(live_symbols) :
           live_symbols[k] \in Symbols /\ live_symbols[k] # Current
  <2>1. i \in i .. Len(live_symbols) /\ i \in 1 .. Len(live_symbols)
    BY <1>1, <1>2 DEF InBody, FieldsOK
  <2>2. \A k \in i + 1 .. Len(live_symbols) :
          live_symbols[k] \in Symbols /\ live_symbols[k] # Current
    BY <1>1, <2>1 DEF LiveOK, Distinct, FieldsOK, Current
  <2> QED
    BY <1>1, <2>1, <2>2 DEF IInv, Pending, Current, FieldsOK
<1>4. /\ stack_location' \in [Symbols -> Int]
      /\ current_stack_location' \in Int
      /\ \A s \in Symbols : OnStack(s)' <=> OnStack(s) \/ s = Current
      /\ \A s \in Symbols :
           s # Current => stack_location'[s] = stack_location[s]
      /\ StackOK' /\ StackSlotsDisjoint'
  BY <1>1, <1>2, <1>3, Spilling
<1>5. /\ Current \notin Active
      /\ Placed' = Placed \cup {Current}
      /\ i' \in 1 .. Len(live_symbols') + 1
      /\ LiveOK' /\ Pending' /\ InBody'
  BY <1>2, <1>3, <1>4, Placing
<1>6. FieldsOK'
  BY <1>1, <1>2, <1>4, <1>5 DEF FieldsOK
<1>7. Active' = Active /\ Active \subseteq Symbols /\ Placed \subseteq Symbols
  <2>1. live_symbols \in Seq(Symbols) /\ active_symbols \in Seq(Symbols)
        /\ i \in 1 .. Len(live_symbols) + 1
    BY <1>1 DEF FieldsOK
  <2>2. \A k \in 1 .. i - 1 : k \in DOMAIN live_symbols
    BY <2>1
  <2>3. Placed \subseteq Symbols
    BY <2>1, <2>2 DEF Placed
  <2>4. Active \subseteq Symbols
    BY <2>1 DEF Active, Range
  <2> QED
    BY <1>2, <2>3, <2>4 DEF Active
<1>8. ActiveOK'
  BY <1>1, <1>2, <1>5, <1>7 DEF ActiveOK
<1>9. RegistersMatchActive'
  <2>1. \A s \in Active' : ~ OnStack(s)'
    BY <1>1, <1>4, <1>5, <1>7 DEF RegistersMatchActive
  <2> QED
    BY <1>1, <1>2, <1>7, <2>1 DEF RegistersMatchActive
<1>10. BelowOK'
  BY <1>1, <1>2, <1>7 DEF BelowOK
<1>11. Retired'
  <2>1. \A k \in i + 1 .. Len(live_symbols) : k \in i .. Len(live_symbols)
    BY <1>1 DEF FieldsOK
  <2> QED
    BY <1>1, <1>2, <1>3, <1>4, <1>5, <1>7, <2>1 DEF Retired
<1>12. NoClobber'
  BY <1>1, <1>2, <1>3, <1>4, <1>5, <1>7 DEF NoClobber, Overlap
<1>13. NoDoubleFree' /\ SpillOnlyAfterOverflow'
  <2>1. "no_free" \in errors
    BY <1>1, <1>2, TooManyMeansOverflow
  <2> QED
    BY <1>1, <1>2, <2>1 DEF NoDoubleFree, SpillOnlyAfterOverflow
<1> QED
  BY <1>4, <1>5, <1>6, <1>8, <1>9, <1>10, <1>11, <1>12, <1>13 DEF IInv

\* Every step keeps the invariant.
LEMMA StepIInv ==
  ASSUME IInv, [Next]_vars
  PROVE  IInv'
<1>1. CASE NextSymbol \/ Finish \/ ExpireDone
  BY <1>1, ControlStep
<1>2. CASE Expire
  BY <1>2, ExpireStep
<1>3. CASE Assign
  BY <1>3, AssignStep
<1>4. CASE AssignBelow \/ AssignNothing
  BY <1>4, OverflowStep, CrashStep
<1>5. CASE SpillLast
  BY <1>5, SpillLastStep
<1>6. CASE SpillCurrent
  BY <1>6, SpillCurrentStep
<1>7. CASE UNCHANGED vars
  BY <1>7 DEF vars, intervals, allocation, IInv, FieldsOK, LiveOK, ActiveOK,
              Active, Placed, RegistersMatchActive, BelowOK, Retired, Pending,
              InBody, NoDoubleFree, NoClobber, OnStack, Overlap, StackOK,
              StackSlotsDisjoint, SpillOnlyAfterOverflow, Current
<1> QED
  BY <1>1, <1>2, <1>3, <1>4, <1>5, <1>6, <1>7 DEF Next, Place

\* The invariant holds in every run of the allocation.
THEOREM Invariance == Spec => []IInv
<1>1. IInv /\ [Next]_vars => IInv'
  BY StepIInv
<1> QED
  BY <1>1, InitIInv, PTL DEF Spec

-----------------------------------------------------------------------------
(***************************************************************************)
(* Who came first.  NoClobber says nothing of a symbol on the stack, but   *)
(* such a symbol may keep the register it had: what holds is that a symbol *)
(* which is not on the stack never shares its register with one that came  *)
(* after it.                                                               *)
(***************************************************************************)
KeepsRegister ==
  /\ \A m, n \in 1 .. i - 1 :
       LET s == live_symbols[m]
           t == live_symbols[n]
       IN  /\ m < n
           /\ ~ OnStack(s)
           /\ Overlap(s, t)
           /\ affected_register[t] # REGISTER_NONE
           => affected_register[s] # affected_register[t]
  /\ pc = "done" => i > Len(live_symbols)

LEMMA StartKeeps == Starting => KeepsRegister
<1> SUFFICES ASSUME Starting PROVE KeepsRegister
  OBVIOUS
<1>1. i = 1 /\ pc = "next"
  BY DEF Starting, InitFrom
<1> QED
  BY <1>1 DEF KeepsRegister

\* A step that places no symbol and takes no register away.
LEMMA KeepsWithoutPlacing ==
  ASSUME KeepsRegister, UNCHANGED intervals, UNCHANGED affected_register,
         UNCHANGED stack_location, i' = i,
         pc' = "done" => i > Len(live_symbols)
  PROVE  KeepsRegister'
<1>1. UNCHANGED <<start_point, end_point, live_symbols>>
  BY DEF intervals
<1>2. /\ \A s : OnStack(s)' = OnStack(s)
      /\ \A s, t : Overlap(s, t)' = Overlap(s, t)
  BY <1>1 DEF OnStack, Overlap
<1> QED
  BY <1>1, <1>2 DEF KeepsRegister

\* The current symbol is placed: whoever is active with its register goes to
\* the stack.
LEMMA KeepsPlacing ==
  ASSUME IInv, KeepsRegister, pc = "place", PlacedCurrent,
         UNCHANGED intervals, NEW reg \in Cells,
         affected_register' = [affected_register EXCEPT ![Current] = reg],
         \A s \in Active :
           reg # REGISTER_NONE /\ affected_register[s] = reg => OnStack(s)',
         \A s \in Placed : OnStack(s) => OnStack(s)'
  PROVE  KeepsRegister'
<1>1. FieldsOK /\ LiveOK /\ Retired /\ InBody
  BY DEF IInv
<1>2. /\ UNCHANGED <<start_point, end_point, live_symbols>>
      /\ i' = i + 1 /\ pc' = "next"
  BY DEF intervals, PlacedCurrent
<1>3. i \in 1 .. Len(live_symbols) /\ i \in i .. Len(live_symbols)
      /\ Current = live_symbols[i]
  BY <1>1 DEF FieldsOK, InBody, Current
<1>4. ASSUME NEW m \in 1 .. i - 1
      PROVE  /\ live_symbols[m] \in Symbols /\ live_symbols[m] \in Placed
             /\ live_symbols[m] # Current
             /\ affected_register'[live_symbols[m]]
                  = affected_register[live_symbols[m]]
             /\ stack_location'[live_symbols[m]] = 0 =>
                  stack_location[live_symbols[m]] = 0
  <2>1. m \in DOMAIN live_symbols /\ i \in DOMAIN live_symbols /\ m # i
    BY <1>1, <1>3 DEF FieldsOK
  <2>2. live_symbols[m] \in Symbols /\ live_symbols[m] \in Placed
    BY <1>1, <2>1 DEF FieldsOK, Placed
  <2>3. live_symbols[m] # Current
    BY <1>1, <1>3, <2>1 DEF LiveOK, Distinct
  <2>4. affected_register'[live_symbols[m]]
          = affected_register[live_symbols[m]]
    BY <1>1, <2>2, <2>3 DEF FieldsOK
  <2>5. PICK s : s = live_symbols[m]
    OBVIOUS
  <2>6. stack_location'[s] = 0 => stack_location[s] = 0
    BY <2>2, <2>5 DEF OnStack
  <2> QED
    BY <2>2, <2>3, <2>4, <2>5, <2>6
<1>5. affected_register'[Current] = reg
  <2>1. Current \in Symbols
    BY <1>1, <1>3, PlacingCurrent
  <2> QED
    BY <1>1, <2>1 DEF FieldsOK
<1> SUFFICES ASSUME NEW m \in 1 .. i, NEW n \in 1 .. i, m < n,
                    stack_location'[live_symbols[m]] = 0,
                    Overlap(live_symbols[m], live_symbols[n]),
                    affected_register'[live_symbols[n]] # REGISTER_NONE,
                    affected_register'[live_symbols[m]]
                      = affected_register'[live_symbols[n]]
             PROVE  FALSE
  <2>1. 1 .. i' - 1 = 1 .. i
    BY <1>2, <1>3
  <2>2. \A s, t : Overlap(s, t)' = Overlap(s, t)
    BY <1>2 DEF Overlap
  <2> QED
    BY <1>2, <2>1, <2>2 DEF KeepsRegister, OnStack
<1>6. m \in 1 .. i - 1
  BY <1>3
<1>7. CASE n = i
  <2>1. PICK s : s = live_symbols[m]
    OBVIOUS
  <2>2. s \in Placed /\ affected_register[s] = reg /\ reg # REGISTER_NONE
        /\ s \in Symbols
    BY <1>3, <1>4, <1>5, <1>6, <1>7, <2>1
  <2>3. ~ OnStack(s) /\ ~ OnStack(s)'
    BY <1>4, <1>6, <2>1 DEF OnStack
  <2>4. s \notin Active
    BY <2>2, <2>3
  <2>5. end_point[s] < start_point[Current]
    BY <1>1, <1>3, <2>2, <2>3, <2>4 DEF Retired
  <2>6. end_point[s] \in Int /\ start_point[Current] \in Int
    BY <1>1, <1>3, <2>2, PointsAreIntegers, PlacingCurrent
  <2>7. Overlap(s, Current)
    BY <1>3, <1>7, <2>1
  <2> QED
    BY <2>5, <2>6, <2>7 DEF Overlap
<1>8. CASE n # i
  <2>1. n \in 1 .. i - 1
    BY <1>3, <1>8
  <2> QED
    BY <1>4, <1>6, <2>1 DEF KeepsRegister, OnStack
<1> QED
  BY <1>7, <1>8

LEMMA KeepsStep ==
  ASSUME IInv, KeepsRegister, [Next]_vars
  PROVE  KeepsRegister'
<1>1. /\ FieldsOK /\ LiveOK /\ ActiveOK /\ RegistersMatchActive /\ Pending
      /\ InBody /\ StackOK /\ StackSlotsDisjoint
  BY DEF IInv
<1>2. CASE NextSymbol \/ Finish \/ ExpireDone \/ Expire
  <2>1. /\ UNCHANGED intervals /\ UNCHANGED affected_register
        /\ UNCHANGED stack_location /\ i' = i
        /\ pc' = "done" => i > Len(live_symbols)
    BY <1>2 DEF NextSymbol, Finish, ExpireDone, Expire, allocation
  <2> QED
    BY <2>1, KeepsWithoutPlacing
<1>3. CASE UNCHANGED vars
  <2>1. /\ UNCHANGED intervals /\ UNCHANGED affected_register
        /\ UNCHANGED stack_location /\ i' = i
        /\ pc' = "done" => i > Len(live_symbols)
    BY <1>3 DEF vars, allocation, KeepsRegister
  <2> QED
    BY <2>1, KeepsWithoutPlacing
<1>4. ASSUME pc = "place"
      PROVE  /\ Current \in Symbols /\ ~ OnStack(Current)
             /\ affected_register[Current] = REGISTER_NONE
             /\ affected_register =
                  [affected_register EXCEPT ![Current] = REGISTER_NONE]
             /\ REGISTER_NONE \in Cells
  <2>1. i \in i .. Len(live_symbols) /\ i <= Len(live_symbols)
    BY <1>1, <1>4 DEF InBody, FieldsOK
  <2>2. Current \in Symbols
    BY <1>1, <2>1, PlacingCurrent
  <2>3. affected_register[Current] = REGISTER_NONE /\ ~ OnStack(Current)
    BY <1>1, <2>1 DEF Pending, Current
  <2>4. REGISTER_NONE \in Cells
    BY DEF Cells
  <2> QED
    BY <1>1, <2>2, <2>3, <2>4 DEF FieldsOK
<1>5. CASE Assign
  <2>1. PICK reg \in Registers :
          /\ registers[reg] = NULL
          /\ affected_register' = [affected_register EXCEPT ![Current] = reg]
    BY <1>5 DEF Assign, FreeRegisters
  <2>2. pc = "place" /\ PlacedCurrent /\ UNCHANGED intervals
        /\ UNCHANGED stack_location
    BY <1>5 DEF Assign
  <2>3. reg \in Cells /\ \A s \in Active : affected_register[s] # reg
    BY <1>1, <2>1 DEF RegistersMatchActive, Cells
  <2>4. \A s \in Placed : OnStack(s) => OnStack(s)'
    BY <2>2 DEF OnStack
  <2> QED
    BY <2>1, <2>2, <2>3, <2>4, KeepsPlacing
<1>6. CASE AssignBelow \/ AssignNothing
  <2>1. pc = "place" /\ UNCHANGED intervals /\ UNCHANGED affected_register
        /\ UNCHANGED stack_location
        /\ (PlacedCurrent \/ (i' = i /\ pc' = "crashed"))
    BY <1>6 DEF AssignBelow, AssignNothing
  <2>2. CASE i' = i /\ pc' = "crashed"
    BY <2>1, <2>2, KeepsWithoutPlacing
  <2>3. CASE PlacedCurrent
    <3>1. \A s \in Placed : OnStack(s) => OnStack(s)'
      BY <2>1 DEF OnStack
    <3>2. affected_register' =
            [affected_register EXCEPT ![Current] = REGISTER_NONE]
      BY <1>4, <2>1
    <3> QED
      BY <1>4, <2>1, <2>3, <3>1, <3>2, KeepsPlacing
  <2> QED
    BY <2>1, <2>2, <2>3
<1>7. CASE SpillLast
  <2>1. PICK v, reg : v = LastActive /\ reg = affected_register[v]
    OBVIOUS
  <2>2. /\ pc = "place" /\ PlacedCurrent /\ UNCHANGED intervals
        /\ affected_register' = [affected_register EXCEPT ![Current] = reg]
        /\ Spill(v) /\ TooManyActive
    BY <1>7, <2>1 DEF SpillLast
  <2>3. Len(active_symbols) \in 1 .. Len(active_symbols)
    BY <1>1, <2>2, LinearScanAssumption DEF TooManyActive, FieldsOK
  <2>4. v \in Active /\ v \in Symbols /\ reg \in Cells /\ ~ OnStack(v)
    BY <1>1, <2>1, <2>3 DEF Active, Range, FieldsOK, LastActive,
                            RegistersMatchActive
  <2>5. \A s \in Symbols : OnStack(s)' <=> OnStack(s) \/ s = v
    BY <1>1, <2>2, <2>4, Spilling
  <2>6. Placed \subseteq Symbols
    BY <1>1 DEF Placed, FieldsOK
  <2>7. \A s \in Placed : OnStack(s) => OnStack(s)'
    BY <2>5, <2>6
  <2>8. \A s \in Active : affected_register[s] = reg => OnStack(s)'
    BY <1>1, <2>1, <2>4, <2>5 DEF RegistersMatchActive
  <2> QED
    BY <2>2, <2>4, <2>7, <2>8, KeepsPlacing
<1>8. CASE SpillCurrent
  <2>1. /\ pc = "place" /\ PlacedCurrent /\ UNCHANGED intervals
        /\ UNCHANGED affected_register /\ Spill(Current)
    BY <1>8 DEF SpillCurrent
  <2>2. \A s \in Symbols : OnStack(s)' <=> OnStack(s) \/ s = Current
    BY <1>1, <1>4, <2>1, Spilling
  <2>3. Placed \subseteq Symbols
    BY <1>1 DEF Placed, FieldsOK
  <2>4. \A s \in Placed : OnStack(s) => OnStack(s)'
    BY <2>2, <2>3
  <2>5. affected_register' =
          [affected_register EXCEPT ![Current] = REGISTER_NONE]
    BY <1>4, <2>1
  <2> QED
    BY <1>4, <2>1, <2>4, <2>5, KeepsPlacing
<1> QED
  BY <1>2, <1>3, <1>5, <1>6, <1>7, <1>8 DEF Next, Place

-----------------------------------------------------------------------------
(***************************************************************************)
(* What the invariant gives.                                               *)
(***************************************************************************)

\* The active symbols are distinct and hold different cells.
LEMMA ActiveBounded ==
  ASSUME FieldsOK, ActiveOK, RegistersMatchActive
  PROVE  Len(active_symbols) <= MAX_REGISTERS + 1
<1>1. /\ IsFiniteSet(Active)
      /\ Cardinality(Active) = Len(active_symbols)
  <2>1. active_symbols \in Seq(Symbols) /\ Distinct(active_symbols)
    BY DEF FieldsOK, ActiveOK
  <2> QED
    BY <2>1, DistinctLength DEF Active
<1>2. IsFiniteSet(Cells) /\ Cardinality(Cells) = MAX_REGISTERS + 1
  <2>1. Cells = REGISTER_NONE .. MAX_REGISTERS - 1
    BY LinearScanAssumption DEF Cells, Registers, REGISTER_NONE
  <2>2. REGISTER_NONE \in Int /\ MAX_REGISTERS - 1 \in Int
        /\ REGISTER_NONE <= MAX_REGISTERS - 1
        /\ (MAX_REGISTERS - 1) - REGISTER_NONE + 1 = MAX_REGISTERS + 1
    BY LinearScanAssumption DEF REGISTER_NONE
  <2> QED
    BY <2>1, <2>2, FS_Interval
<1>3. [s \in Active |-> affected_register[s]] \in Injection(Active, Cells)
  <2>1. Active \subseteq Symbols
    BY DEF FieldsOK, Active, Range
  <2>2. \A s \in Active : affected_register[s] \in Cells
    BY <2>1 DEF FieldsOK
  <2> QED
    BY <2>2 DEF RegistersMatchActive, Injection, IsInjective
<1> QED
  BY <1>1, <1>2, <1>3, FS_Injection

\* The fields, the arrays and the indices keep their types, and the active
\* array never outgrows the cells.
THEOREM TypeCorrect == Spec => []TypeOK
<1>1. IInv => TypeOK
  BY ActiveBounded DEF IInv, TypeOK
<1> QED
  BY <1>1, Invariance, PTL

\* No two symbols whose lives overlap share a register, unless one of them is
\* on the stack: the result a caller of the allocation relies on, overflow,
\* skipped expirations and spills included.
THEOREM RegistersNotClobbered == Spec => []NoClobber
  BY Invariance, PTL DEF IInv

\* The register array and the active array agree at every step.
THEOREM RegisterArrayCoherent == Spec => []RegistersMatchActive
  BY Invariance, PTL DEF IInv

\* free_register() never meets a free register.
THEOREM RegistersFreedOnce == Spec => []NoDoubleFree
  BY Invariance, PTL DEF IInv

\* No symbol is spilled before the allocator has run past the register array.
THEOREM OverflowBeforeSpill == Spec => []SpillOnlyAfterOverflow
  BY Invariance, PTL DEF IInv

\* The places of two spilled symbols are apart.
THEOREM StackSlotsApart == Spec => []StackSlotsDisjoint
  BY Invariance, PTL DEF IInv

\* The last active symbol is the one that ends last.
LEMMA LastActiveEndsLast ==
  ASSUME FieldsOK, ActiveOK, TooManyActive
  PROVE  /\ LastActive \in Symbols
         /\ \A s \in Active : s \in Symbols /\ end_point[s] <= end_point[LastActive]
<1> DEFINE n == Len(active_symbols)
<1>1. n \in Nat /\ n \in 1 .. n /\ DOMAIN active_symbols = 1 .. n
      /\ \A m \in 1 .. n : active_symbols[m] \in Symbols
  <2>1. active_symbols \in Seq(Symbols) /\ n > MAX_REGISTERS
        /\ MAX_REGISTERS \in Nat
    BY LinearScanAssumption DEF TooManyActive, FieldsOK
  <2>2. n \in Nat /\ DOMAIN active_symbols = 1 .. n
        /\ \A m \in 1 .. n : active_symbols[m] \in Symbols
    BY <2>1
  <2>3. n \in 1 .. n
    BY <2>1, <2>2
  <2> QED
    BY <2>2, <2>3
<1>2. LastActive \in Symbols /\ LastActive = active_symbols[n]
  BY <1>1 DEF LastActive
<1>3. end_point[LastActive] \in Int
  BY <1>2, PointsAreIntegers
<1>4. ASSUME NEW m \in 1 .. n
      PROVE  end_point[active_symbols[m]] <= end_point[LastActive]
  <2>1. CASE m = n
    <3>1. active_symbols[m] = LastActive
      BY <1>2, <2>1
    <3> QED
      BY <1>3, <3>1
  <2>2. CASE m < n
    <3>1. n \in DOMAIN active_symbols /\ m \in DOMAIN active_symbols
      BY <1>1
    <3>2. end_point[active_symbols[m]] <= end_point[active_symbols[n]]
      BY <2>2, <3>1 DEF ActiveOK, Sorted
    <3> QED
      BY <1>2, <3>2
  <2>3. m = n \/ m < n
    <3>1. n \in Nat
      BY <1>1
    <3> QED
      BY <3>1
  <2> QED
    BY <2>1, <2>2, <2>3
<1> QED
  BY <1>1, <1>2, <1>4 DEF Active, Range

\* The symbol put on the stack ends last among those it competes with, and
\* leaves the active array.
THEOREM SpillVictim == Spec => SpilledEndsLast
<1> DEFINE Victim(v) ==
             stack_location'[v] # stack_location[v] =>
               /\ \A s \in Active \cup {Current} : end_point[s] <= end_point[v]
               /\ v \notin Range(active_symbols')
<1>1. ASSUME IInv, IInv', [Next]_vars, NEW v \in Symbols,
             stack_location'[v] # stack_location[v]
      PROVE  Victim(v)
  <2>1. FieldsOK /\ LiveOK /\ ActiveOK /\ InBody /\ StackOK
    BY <1>1 DEF IInv
  <2>2. SpillLast \/ SpillCurrent
    BY <1>1 DEF Next, Place, vars, allocation, NextSymbol, Finish, Expire,
                ExpireDone, Assign, AssignBelow, AssignNothing
  <2>3. i <= Len(live_symbols) /\ Current \in Symbols /\ TooManyActive
    <3>1. pc = "place" /\ TooManyActive
      BY <2>2 DEF SpillLast, SpillCurrent
    <3>2. i <= Len(live_symbols)
      BY <2>1, <3>1 DEF InBody
    <3> QED
      BY <2>1, <3>1, <3>2, PlacingCurrent
  <2>4. LastActive \in Symbols
        /\ \A s \in Active : s \in Symbols /\ end_point[s] <= end_point[LastActive]
    BY <2>1, <2>3, LastActiveEndsLast
  <2>5. end_point \in [Symbols -> Int]
    BY <2>1, PointsAreIntegers
  <2>6. \A s \in Active \cup {Current} : end_point[s] <= end_point[v]
    <3>1. CASE SpillLast
      <4>1. v = LastActive
        BY <1>1, <2>1, <3>1 DEF SpillLast, Spill, FieldsOK
      <4>2. end_point[Current] < end_point[LastActive]
        BY <3>1 DEF SpillLast
      <4> QED
        BY <2>3, <2>4, <2>5, <4>1, <4>2
    <3>2. CASE SpillCurrent
      <4>1. v = Current
        BY <1>1, <2>1, <3>2 DEF SpillCurrent, Spill, FieldsOK
      <4>2. end_point[Current] >= end_point[LastActive]
        BY <3>2 DEF SpillCurrent
      <4> QED
        BY <2>3, <2>4, <2>5, <4>1, <4>2
    <3> QED
      BY <2>2, <3>1, <3>2
  <2>7. stack_location'[v] # 0
    <3>1. PICK w \in Symbols : Spill(w)
      BY <2>2, <2>3, <2>4 DEF SpillLast, SpillCurrent
    <3>2. v = w /\ stack_location'[v] = current_stack_location - Size[w]
      BY <1>1, <2>1, <3>1 DEF Spill, FieldsOK
    <3> QED
      BY <2>1, <3>2, LinearScanAssumption DEF StackOK, FieldsOK
  <2>8. v \notin Range(active_symbols')
    BY <1>1, <2>7 DEF IInv, RegistersMatchActive, Active, OnStack
  <2> QED
    BY <2>6, <2>8
<1>2. IInv /\ IInv' /\ [Next]_vars => [\A v \in Symbols : Victim(v)]_vars
  BY <1>1
<1> QED
  BY <1>2, Invariance, PTL DEF Spec, SpilledEndsLast

-----------------------------------------------------------------------------
(***************************************************************************)
(* The overflow.  The expiration skips every other expired symbol, but it  *)
(* frees at least one register whenever some active symbol is over; so     *)
(* when none is free nothing had expired, and all the active symbols live  *)
(* at the start of the current one.                                        *)
(***************************************************************************)

\* Until the overflow, if no register is free then nothing has been expired
\* for the current symbol, and then every active symbol lives at its start.
Expiring ==
  /\ pc \in {"expire", "place"} /\ "no_free" \notin errors
     /\ FreeRegisters = {} => j = 1
  /\ pc = "place" /\ j = 1 =>
       \A s \in Active : start_point[Current] <= end_point[s]

\* Until the overflow every symbol that has been placed has a register.
SilentSoFar ==
  /\ "no_free" \notin errors =>
       \A s \in Placed : affected_register[s] \in Registers
  /\ pc = "done" => i = Len(live_symbols) + 1

\* A symbol is mentioned at a point from 0 on, or its interval is -1 to -1.
IntervalsOK == \A s \in Symbols : <<start_point[s], end_point[s]>> \in Interval

\* The two ways the registers run out.
Pressure ==
  \/ \E s \in Mentioned :
       Cardinality(LivingAt(start_point[s])) > MAX_REGISTERS
  \/ Cardinality(Symbols \ Mentioned) > MAX_REGISTERS

\* A set of symbols that holds the current one and all the active ones is
\* larger than the registers when none of them is free.
LEMMA AllAtOnce ==
  ASSUME IInv, pc = "place", FreeRegisters = {},
         NEW alive \in SUBSET Symbols, Active \cup {Current} \subseteq alive
  PROVE  Cardinality(alive) > MAX_REGISTERS
<1>1. FieldsOK /\ LiveOK /\ ActiveOK /\ RegistersMatchActive /\ InBody
  BY DEF IInv
<1>2. i <= Len(live_symbols)
  BY <1>1 DEF InBody
<1>3. Current \in Symbols /\ Current \notin Active
  BY <1>1, <1>2, PlacingCurrent DEF ActiveOK
<1>4. /\ IsFiniteSet(Active) /\ Cardinality(Active) = Len(active_symbols)
      /\ Len(active_symbols) \in Nat
  <2>1. active_symbols \in Seq(Symbols) /\ Distinct(active_symbols)
    BY <1>1 DEF FieldsOK, ActiveOK
  <2> QED
    BY <2>1, DistinctLength DEF Active
<1>5. /\ IsFiniteSet(Active \cup {Current})
      /\ Cardinality(Active \cup {Current}) = Len(active_symbols) + 1
  BY <1>3, <1>4, FS_AddElement
<1>6. IsFiniteSet(alive) /\ Cardinality(alive) \in Nat
  <2>1. IsFiniteSet(alive)
    BY LinearScanAssumption, FS_Subset
  <2> QED
    BY <2>1, FS_CardinalityType
<1>7. Cardinality(Active \cup {Current}) <= Cardinality(alive)
  BY <1>6, FS_Subset
<1>8. Len(active_symbols) >= MAX_REGISTERS
  BY <1>1, AllTaken
<1> QED
  BY <1>4, <1>5, <1>6, <1>7, <1>8, LinearScanAssumption

\* When every active symbol is still alive at the start of the current one:
\* if some quadruple mentions the current symbol, they all live there;
\* otherwise none of them is mentioned.
LEMMA PressureAtCurrent ==
  ASSUME IInv, IntervalsOK, pc = "place", FreeRegisters = {},
         \A s \in Active : start_point[Current] <= end_point[s]
  PROVE  Pressure
<1>1. FieldsOK /\ LiveOK /\ ActiveOK /\ InBody
  BY DEF IInv
<1>2. i <= Len(live_symbols)
  BY <1>1 DEF InBody
<1>3. i \in 1 .. Len(live_symbols) /\ Current \in Symbols
  BY <1>1, <1>2, PlacingCurrent
<1>4. ASSUME NEW s \in Symbols
      PROVE  /\ start_point[s] \in Int /\ end_point[s] \in Int
             /\ start_point[s] <= end_point[s]
             /\ \/ start_point[s] = POINT_INIT /\ end_point[s] = POINT_INIT
                \/ 0 <= start_point[s]
  BY <1>1, PointsAreIntegers DEF IntervalsOK, Interval, LiveOK
<1>5. ASSUME NEW s \in Active
      PROVE  s \in Symbols /\ start_point[s] <= start_point[Current]
  <2>1. s \in Placed
    BY <1>1 DEF ActiveOK
  <2>2. PICK m \in 1 .. i - 1 : s = live_symbols[m]
    BY <2>1 DEF Placed
  <2>3. m \in DOMAIN live_symbols /\ i \in DOMAIN live_symbols /\ m < i
    BY <1>1, <1>3, <2>2 DEF FieldsOK
  <2> QED
    BY <1>1, <2>2, <2>3 DEF LiveOK, Sorted, Current, FieldsOK
<1>6. CASE start_point[Current] = POINT_INIT
  <2>1. \A s \in Active : start_point[s] = POINT_INIT
    BY <1>3, <1>4, <1>5, <1>6 DEF POINT_INIT
  <2>2. Active \cup {Current} \subseteq Symbols \ Mentioned
    BY <1>3, <1>5, <1>6, <2>1 DEF Mentioned
  <2>3. Symbols \ Mentioned \in SUBSET Symbols
    OBVIOUS
  <2>4. Cardinality(Symbols \ Mentioned) > MAX_REGISTERS
    BY <2>2, <2>3, AllAtOnce
  <2> QED
    BY <2>4 DEF Pressure
<1>7. CASE start_point[Current] # POINT_INIT
  <2>1. 0 <= start_point[Current] /\ Current \in Mentioned
    BY <1>3, <1>4, <1>7 DEF Mentioned
  <2>2. ASSUME NEW s \in Active
        PROVE  s \in LivingAt(start_point[Current])
    <3>1. s \in Symbols /\ start_point[s] <= start_point[Current]
          /\ start_point[Current] <= end_point[s]
      BY <1>5
    <3>2. start_point[s] # POINT_INIT
      BY <1>3, <1>4, <2>1, <3>1 DEF POINT_INIT
    <3> QED
      BY <3>1, <3>2 DEF LivingAt, Mentioned
  <2>3. Current \in LivingAt(start_point[Current])
    BY <1>3, <1>4, <2>1 DEF LivingAt
  <2>4. LivingAt(start_point[Current]) \in SUBSET Symbols
    BY DEF LivingAt, Mentioned
  <2>5. Active \cup {Current} \subseteq LivingAt(start_point[Current])
    BY <2>2, <2>3
  <2>6. Cardinality(LivingAt(start_point[Current])) > MAX_REGISTERS
    BY <2>4, <2>5, AllAtOnce
  <2> QED
    BY <2>1, <2>6 DEF Pressure
<1> QED
  BY <1>6, <1>7

\* Freeing registers and placing symbols keep the two facts, and the overflow
\* happens only under pressure.
LEMMA OverflowInductive ==
  ASSUME IInv, IInv', IntervalsOK, Expiring, SilentSoFar,
         OverflowMeansPressure, [Next]_vars
  PROVE  Expiring' /\ SilentSoFar' /\ OverflowMeansPressure'
<1>1. FieldsOK /\ LiveOK /\ ActiveOK /\ BelowOK /\ InBody
  BY DEF IInv
<1>2. ASSUME UNCHANGED intervals, errors' = errors
      PROVE  OverflowMeansPressure'
  BY <1>2 DEF OverflowMeansPressure, Mentioned, LivingAt, intervals
<1>3. CASE NextSymbol \/ Finish
  <2>1. UNCHANGED <<intervals, allocation, i>>
    BY <1>3 DEF NextSymbol, Finish
  <2>2. SilentSoFar'
    BY <1>1, <1>3, <2>1 DEF SilentSoFar, Placed, intervals, allocation,
                            NextSymbol, Finish, FieldsOK
  <2>3. Expiring'
    BY <1>3 DEF NextSymbol, Finish, Expiring
  <2> QED
    BY <1>2, <2>1, <2>2, <2>3 DEF allocation
<1>4. CASE Expire
  <2>1. /\ j \in 1 .. Len(active_symbols) /\ j' = j + 1 /\ pc = "expire"
        /\ registers' =
             [registers EXCEPT ![affected_register[active_symbols[j]]] = NULL]
        /\ UNCHANGED <<intervals, affected_register, i, pc>>
        /\ errors \subseteq errors'
    BY <1>1, <1>4 DEF Expire, Expired, FreeRegister, FieldsOK
  <2>2. errors' = errors
    BY <1>4, <2>1 DEF IInv, NoDoubleFree, Expire, FreeRegister
  <2>3. Expiring'
    <3>1. ASSUME "no_free" \notin errors
          PROVE  FreeRegisters' # {}
      <4>1. active_symbols[j] \in Active /\ active_symbols[j] \in Symbols
        BY <1>1, <2>1 DEF Active, Range, FieldsOK
      <4>2. affected_register[active_symbols[j]] \in Registers
        BY <1>1, <3>1, <4>1 DEF BelowOK, FieldsOK, Cells
      <4>3. registers'[affected_register[active_symbols[j]]] = NULL
        BY <1>1, <2>1, <4>2 DEF FieldsOK, Cells
      <4> QED
        BY <4>2, <4>3 DEF FreeRegisters
    <3> QED
      BY <2>1, <2>2, <3>1 DEF Expiring
  <2>4. SilentSoFar'
    BY <2>1, <2>2 DEF SilentSoFar, Placed, intervals
  <2> QED
    BY <1>2, <2>1, <2>2, <2>3, <2>4
<1>5. CASE ExpireDone
  <2>1. /\ UNCHANGED <<intervals, allocation, i, j>> /\ ~ Expired
        /\ pc = "expire" /\ pc' = "place"
    BY <1>5 DEF ExpireDone
  <2>2. UNCHANGED <<start_point, end_point, live_symbols, active_symbols,
                    registers, affected_register, errors, i, j>>
    BY <2>1 DEF intervals, allocation
  <2>3. ASSUME j = 1, NEW s \in Active
        PROVE  start_point[Current] <= end_point[s]
    <3>1. PICK m \in DOMAIN active_symbols : s = active_symbols[m]
      BY DEF Active, Range
    <3>2. 1 \in DOMAIN active_symbols /\ m \in 1 .. Len(active_symbols)
      BY <1>1, <3>1 DEF FieldsOK
    <3>3. active_symbols[1] \in Symbols /\ s \in Symbols /\ Current \in Symbols
      <4>1. i <= Len(live_symbols)
        BY <1>1, <2>1 DEF InBody
      <4>2. Current \in Symbols
        BY <1>1, <4>1, PlacingCurrent
      <4>3. active_symbols[1] \in Symbols /\ s \in Symbols
        BY <1>1, <3>1, <3>2 DEF FieldsOK
      <4> QED
        BY <4>2, <4>3
    <3>4. end_point[active_symbols[1]] <= end_point[s]
      <4>1. CASE m = 1
        BY <1>1, <3>1, <3>3, <4>1, PointsAreIntegers
      <4>2. CASE 1 < m
        BY <1>1, <3>1, <3>2, <4>2 DEF ActiveOK, Sorted
      <4> QED
        BY <3>2, <4>1, <4>2
    <3>5. ~ (end_point[active_symbols[1]] < start_point[Current])
      BY <2>1, <2>3, <3>2 DEF Expired
    <3>6. /\ end_point[active_symbols[1]] \in Int /\ end_point[s] \in Int
          /\ start_point[Current] \in Int
      BY <1>1, <3>3, PointsAreIntegers
    <3> QED
      BY <3>4, <3>5, <3>6
  <2>4. Expiring'
    BY <2>1, <2>2, <2>3 DEF Expiring, FreeRegisters, Active, Current
  <2>5. SilentSoFar'
    BY <2>1, <2>2 DEF SilentSoFar, Placed
  <2> QED
    BY <1>2, <2>1, <2>2, <2>4, <2>5
<1>6. CASE Assign
  <2>1. PICK reg \in Registers :
          affected_register' = [affected_register EXCEPT ![Current] = reg]
    BY <1>6 DEF Assign, FreeRegisters
  <2>2. /\ i' = i + 1 /\ pc = "place" /\ pc' = "next"
        /\ UNCHANGED <<intervals, errors>> /\ live_symbols' = live_symbols
    BY <1>6 DEF Assign, PlacedCurrent, intervals
  <2>3. Placed' = Placed \cup {Current} /\ Placed \subseteq Symbols
    <3>1. i <= Len(live_symbols)
      BY <1>1, <2>2 DEF InBody
    <3>2. \A k \in 1 .. i - 1 : live_symbols[k] \in Symbols
      BY <1>1 DEF FieldsOK
    <3> QED
      BY <1>1, <2>2, <3>1, <3>2, PlacingCurrent DEF Placed
  <2>4. SilentSoFar'
    <3>1. \A s \in Symbols : affected_register'[s] =
            IF s = Current THEN reg ELSE affected_register[s]
      BY <1>1, <2>1 DEF FieldsOK
    <3>2. "no_free" \notin errors' =>
            \A s \in Placed' : s \in Symbols => affected_register'[s] \in Registers
      BY <2>2, <2>3, <3>1 DEF SilentSoFar
    <3>3. Current \in Symbols
      BY <1>1, <2>2, PlacingCurrent DEF InBody
    <3> QED
      BY <2>2, <2>3, <3>2, <3>3 DEF SilentSoFar
  <2>5. Expiring'
    BY <2>2 DEF Expiring
  <2> QED
    BY <1>2, <2>2, <2>4, <2>5
<1>7. CASE AssignBelow \/ AssignNothing
  <2>1. /\ pc = "place" /\ FreeRegisters = {} /\ UNCHANGED intervals
        /\ pc' \in {"next", "crashed"} /\ "no_free" \in errors'
        /\ UNCHANGED <<start_point, end_point, live_symbols>>
    BY <1>7 DEF AssignBelow, AssignNothing, PlacedCurrent, intervals
  <2>2. Expiring' /\ SilentSoFar'
    BY <2>1 DEF Expiring, SilentSoFar
  <2>3. Pressure
    <3>1. CASE "no_free" \in errors
      BY <3>1 DEF OverflowMeansPressure, Pressure
    <3>2. CASE "no_free" \notin errors
      <4>1. \A s \in Active : start_point[Current] <= end_point[s]
        BY <2>1, <3>2 DEF Expiring
      <4> QED
        BY <2>1, <4>1, PressureAtCurrent
    <3> QED
      BY <3>1, <3>2
  <2>4. OverflowMeansPressure'
    BY <2>1, <2>3 DEF OverflowMeansPressure, Pressure, Mentioned, LivingAt
  <2> QED
    BY <2>2, <2>4
<1>8. CASE SpillLast \/ SpillCurrent
  <2>1. /\ pc' = "next" /\ UNCHANGED <<intervals, errors>>
        /\ TooManyActive
    BY <1>8 DEF SpillLast, SpillCurrent, PlacedCurrent
  <2>2. "no_free" \in errors
    BY <1>1, <2>1, TooManyMeansOverflow DEF IInv
  <2>3. Expiring' /\ SilentSoFar'
    BY <2>1, <2>2 DEF Expiring, SilentSoFar
  <2> QED
    BY <1>2, <2>1, <2>3
<1>9. CASE UNCHANGED vars
  BY <1>2, <1>9 DEF vars, intervals, allocation, Expiring, SilentSoFar,
                    FreeRegisters, Active, Current, Placed
<1> QED
  BY <1>3, <1>4, <1>5, <1>6, <1>7, <1>8, <1>9 DEF Next, Place

\* The two facts and the reason of the overflow hold in every run.
LEMMA OverflowInvariance ==
  Spec => [](Expiring /\ SilentSoFar /\ OverflowMeansPressure)
<1>1. Init => IntervalsOK /\ Expiring /\ SilentSoFar /\ OverflowMeansPressure
  <2> SUFFICES ASSUME Init
               PROVE  /\ IntervalsOK /\ Expiring /\ SilentSoFar
                      /\ OverflowMeansPressure
    OBVIOUS
  <2>1. pc = "next" /\ errors = {} /\ i = 1
    BY DEF Init, InitFrom
  <2>2. PICK life \in [Symbols -> Interval] :
          InitFrom([s \in Symbols |-> life[s][1]],
                   [s \in Symbols |-> life[s][2]])
    BY DEF Init
  <2>3. \A s \in Symbols :
          start_point[s] = life[s][1] /\ end_point[s] = life[s][2]
    BY <2>2 DEF InitFrom
  <2>4. \A p \in Interval : <<p[1], p[2]>> = p
    BY DEF Interval
  <2>5. IntervalsOK
    BY <2>3, <2>4 DEF IntervalsOK
  <2> QED
    BY <2>1, <2>5 DEF Expiring, SilentSoFar, Placed, OverflowMeansPressure
<1>2. IInv /\ IInv' /\ IntervalsOK /\ Expiring /\ SilentSoFar
      /\ OverflowMeansPressure /\ [Next]_vars
      => Expiring' /\ SilentSoFar' /\ OverflowMeansPressure'
  BY OverflowInductive
<1>3. IntervalsOK /\ [Next]_vars => IntervalsOK'
  <2> SUFFICES ASSUME [Next]_vars
               PROVE  UNCHANGED <<start_point, end_point>>
    BY DEF IntervalsOK
  <2>1. UNCHANGED intervals
    BY DEF Next, Place, NextSymbol, Finish, Expire, ExpireDone, Assign,
           AssignBelow, AssignNothing, SpillLast, SpillCurrent, vars
  <2> QED
    BY <2>1 DEF intervals
<1> QED
  BY <1>1, <1>2, <1>3, Invariance, PTL DEF Spec

\* "no more free register" is printed only if more than MAX_REGISTERS symbols
\* live at the quadruple that starts one of them, or more than MAX_REGISTERS
\* symbols are mentioned by no quadruple: the symbols the expiration skips
\* cost nothing.
THEOREM OverflowOnlyUnderPressure == Spec => []OverflowMeansPressure
  BY OverflowInvariance, PTL

\* An allocation that printed no error has given every symbol a register.
THEOREM SilentAllocationComplete == Spec => []CompleteWhenSilent
<1>1. IInv /\ SilentSoFar => CompleteWhenSilent
  <2> SUFFICES ASSUME IInv, SilentSoFar, pc = "done", errors = {},
                      NEW s \in Symbols
               PROVE  affected_register[s] \in Registers
    BY DEF CompleteWhenSilent
  <2>1. s \in Range(live_symbols)
    BY DEF IInv, LiveOK
  <2>2. PICK m \in DOMAIN live_symbols : s = live_symbols[m]
    BY <2>1 DEF Range
  <2>3. m \in 1 .. i - 1
    BY <2>2 DEF IInv, FieldsOK, SilentSoFar
  <2>4. s \in Placed
    BY <2>2, <2>3 DEF Placed
  <2> QED
    BY <2>4 DEF SilentSoFar
<1> QED
  BY <1>1, Invariance, OverflowInvariance, PTL
=============================================================================
