------------------------ MODULE FrontendListProofs ------------------------
(***************************************************************************)
(* The lists of the front end: when a list runs into itself, which         *)
(* branches have a label, and which quadruples are in the program.         *)
(*                                                                         *)
(* A condition's code and its lists of branches are threaded through the   *)
(* same nodes, so that whoever links two lists may close a circle.  As     *)
(* long as no OR has joined two true exits and no AND two false ones, the  *)
(* codes of the values on the semantic stack end and share no node, and    *)
(* the lists of a condition are ends of its code.  Once it has happened,   *)
(* the condition is a trap: its code and one of its lists go round, until  *)
(* a function walks one of them.                                           *)
(***************************************************************************)
EXTENDS FrontendProofs

-----------------------------------------------------------------------------
(***************************************************************************)
(* The invariant.                                                          *)
(***************************************************************************)

\* A branch without a label.
Open(h, n) == h.quad[n].op \in BranchOps /\ h.quad[n].res = NoSymbol

\* What a list of branches is to the code of its condition: one of its ends,
\* empty if no branch should be taken.
Exit(h, list, code, branches) ==
  /\ list \in NodesOf(h, code) \cup {NULL}
  /\ list = NULL <=> branches = {}

\* Nothing but branches is on the list.
AllBranches(h, list) == \A n \in NodesOf(h, list) : h.quad[n].op \in BranchOps

\* The lists of a condition have branches only, and so has its code if it
\* always holds, or never.
OnlyBranches(h, v) ==
  /\ AllBranches(h, v.true_list) /\ AllBranches(h, v.false_list)
  /\ (v.yes = {}) # (v.no = {}) => AllBranches(h, v.code)

\* The branches of each exit are on its list.
Held(h, v) ==
  v.yes \subseteq NodesOf(h, v.true_list) /\ v.no \subseteq NodesOf(h, v.false_list)

\* A branch of the code without a label is in one of the exits, or dangling.
Awaited(h, v, dang) ==
  \A n \in NodesOf(h, v.code) : Open(h, n) => n \in v.yes \cup v.no \cup dang

\* The code of a value ends and its lists are ends of it.  They have all of its
\* branches without a label that do not dangle, and without OR, AND, NOT no
\* others.
Sound(h, v, used, dang) ==
  /\ ~ Endless(h, v.code)
  /\ Exit(h, v.true_list, v.code, v.yes)
  /\ Exit(h, v.false_list, v.code, v.no)
  /\ OnlyBranches(h, v)
  /\ Held(h, v) /\ Awaited(h, v, dang)
  /\ used = {} =>
       \A n \in NodesOf(h, v.true_list) \cup NodesOf(h, v.false_list) :
         h.quad[n].op \in BranchOps => Open(h, n)

\* The values and the program, whose code is a list, are lists without a node
\* in common.
Apart(h, values, list, used, dang) ==
  /\ ~ Endless(h, list)
  /\ \A n \in NodesOf(h, list) : Open(h, n) => n \in dang
  /\ \A k \in 1 .. Len(values) :
       /\ Sound(h, values[k], used, dang)
       /\ NodesOf(h, values[k].code) \cap NodesOf(h, list) = {}
  /\ \A j, k \in 1 .. Len(values) :
       j # k => NodesOf(h, values[j].code) \cap NodesOf(h, values[k].code) = {}

\* The list leads to nodes that no link leaves.
Loops(h, list) ==
  \E C \in SUBSET (1 .. NextQuad(h)) :
    list \in C /\ \A n \in C : h.quad[n].successor \in C

Trap(h, v) ==
  Loops(h, v.code) /\ (Loops(h, v.true_list) \/ Loops(h, v.false_list))

ListsKept ==
  /\ ~ merged => ~ heap.hung /\ Apart(heap, vals, quad_list, connectives, dangling)
  /\ merged => "OR" \in connectives \/ "AND" \in connectives
  /\ merged /\ ~ heap.hung /\ status = "parsing" =>
       \E k \in 1 .. Len(vals) : Trap(heap, vals[k])
  /\ status = "done" => ~ merged
-----------------------------------------------------------------------------
(***************************************************************************)
(* Heaps and their links.                                                  *)
(***************************************************************************)

\* A heap of quadruples whose links lead to one of them, whatever symbols and
\* labels they have.
Wired(h) == \E S, L : L \subseteq S /\ IsHeap(h, S, L)

\* What a wired heap is.
LEMMA WiredIs ==
  ASSUME NEW h, Wired(h)
  PROVE  /\ NextQuad(h) \in Nat /\ h.hung \in BOOLEAN
         /\ h = [quad |-> h.quad, hung |-> h.hung]
         /\ h.quad = [n \in 1 .. NextQuad(h) |-> h.quad[n]]
         /\ \A n \in 1 .. NextQuad(h) :
              /\ h.quad[n].successor \in 0 .. NextQuad(h)
              /\ h.quad[n].op \in Ops
              /\ h.quad[n] = [op |-> h.quad[n].op, res |-> h.quad[n].res,
                              op1 |-> h.quad[n].op1, op2 |-> h.quad[n].op2,
                              successor |-> h.quad[n].successor]
<1>1. PICK S, L : IsHeap(h, S, L)
  BY DEF Wired
<1>2. PICK Q : Q = QuadOf(S, L)
  OBVIOUS
<1>3. /\ h \in [quad : Seq(Q), hung : BOOLEAN]
      /\ \A n \in 1 .. Len(h.quad) : h.quad[n].successor <= Len(h.quad)
  BY <1>1, <1>2 DEF IsHeap
<1>4. h.quad \in Seq(Q) /\ Len(h.quad) \in Nat
  BY <1>3
<1>5. \A n \in 1 .. Len(h.quad) : h.quad[n] \in Q
  BY <1>4
<1>6. ASSUME NEW q \in Q
      PROVE  /\ q.successor \in Nat /\ q.op \in Ops
             /\ q = [op |-> q.op, res |-> q.res, op1 |-> q.op1,
                     op2 |-> q.op2, successor |-> q.successor]
  BY <1>2 DEF QuadOf
<1>7. ASSUME NEW n \in 1 .. Len(h.quad)
      PROVE  h.quad[n].successor \in 0 .. Len(h.quad)
  BY <1>3, <1>4, <1>5, <1>6
<1>8. h.quad = [n \in 1 .. Len(h.quad) |-> h.quad[n]]
  BY <1>4
<1> QED
  BY <1>3, <1>4, <1>5, <1>6, <1>7, <1>8 DEF NextQuad

\* A wired heap is one of as many symbols and labels as wanted.
LEMMA WiredFor ==
  ASSUME NEW h, Wired(h), NEW T
  PROVE  \E S : T \subseteq S /\ IsHeap(h, S, S)
<1>1. PICK S, L : L \subseteq S /\ IsHeap(h, S, L)
  BY DEF Wired
<1>2. IsHeap(h, S \cup T, S \cup T)
  <2>1. S \subseteq S \cup T /\ L \subseteq S \cup T
    BY <1>1
  <2> QED
    BY <1>1, <2>1, HeapOfMore
<1> QED
  BY <1>2

\* Making a quadruple adds a node and leaves the others.
LEMMA QuadNewWires ==
  ASSUME NEW h, Wired(h), NEW op \in Ops, NEW res, NEW op1, NEW op2
  PROVE  LET g == QuadNew(h, op, res, op1, op2)
         IN  /\ Wired(g) /\ g.hung = h.hung /\ NextQuad(g) = NextQuad(h) + 1
             /\ \A m \in 1 .. NextQuad(h) : g.quad[m] = h.quad[m]
<1> DEFINE q == [op |-> op, res |-> res, op1 |-> op1, op2 |-> op2,
                 successor |-> NULL]
<1>1. PICK S : {res, op1, op2} \subseteq S /\ IsHeap(h, S, S)
  BY WiredFor
<1>2. /\ IsHeap(QuadNew(h, op, res, op1, op2), S, S)
      /\ NextQuad(QuadNew(h, op, res, op1, op2)) = NextQuad(h) + 1
      /\ QuadNew(h, op, res, op1, op2).hung = h.hung
  <2>1. res \in OrNone(S) /\ op1 \in OrNone(S) /\ op2 \in OrNone(S)
    BY <1>1 DEF OrNone
  <2> QED
    BY <2>1, <1>1, QuadNewIsHeap
<1>3. Wired(QuadNew(h, op, res, op1, op2))
  BY <1>2 DEF Wired
<1>4. PICK Q : h.quad \in Seq(Q)
  BY <1>1 DEF IsHeap
<1>5. QuadNew(h, op, res, op1, op2).quad = Append(h.quad, q)
  <2>1. h = [quad |-> h.quad, hung |-> h.hung]
    BY WiredIs
  <2> HIDE DEF q
  <2>2. [h EXCEPT !.quad = Append(@, q)].quad = Append(h.quad, q)
    BY <2>1
  <2> QED
    BY <2>2 DEF QuadNew, q
<1> HIDE DEF q
<1>6. \A m \in 1 .. Len(h.quad) : Append(h.quad, q)[m] = h.quad[m]
  BY <1>4
<1> QED
  BY <1>2, <1>3, <1>5, <1>6 DEF NextQuad

\* The node it adds.
LEMMA QuadNewNode ==
  ASSUME NEW h, Wired(h), NEW op, NEW res, NEW op1, NEW op2
  PROVE  QuadNew(h, op, res, op1, op2).quad[NextQuad(h) + 1]
           = [op |-> op, res |-> res, op1 |-> op1, op2 |-> op2,
              successor |-> NULL]
<1> DEFINE q == [op |-> op, res |-> res, op1 |-> op1, op2 |-> op2,
                 successor |-> NULL]
<1>1. PICK Q : h.quad \in Seq(Q)
  BY DEF Wired, IsHeap
<1>2. h = [quad |-> h.quad, hung |-> h.hung]
  BY WiredIs
<1> HIDE DEF q
<1>3. [h EXCEPT !.quad = Append(@, q)].quad = Append(h.quad, q)
  BY <1>2
<1>4. Append(h.quad, q)[Len(h.quad) + 1] = q
  BY <1>1
<1> QED
  BY <1>3, <1>4 DEF QuadNew, NextQuad, q

-----------------------------------------------------------------------------
(***************************************************************************)
(* Lists that end.                                                         *)
(***************************************************************************)

\* The nodes of a list that ends, in their order.
IsPath(h, list, p) ==
  /\ p \in Seq(1 .. NextQuad(h))
  /\ \A i, j \in 1 .. Len(p) : p[i] = p[j] => i = j
  /\ list = IF Len(p) = 0 THEN NULL ELSE p[1]
  /\ \A i \in 1 .. Len(p) :
       h.quad[p[i]].successor = IF i = Len(p) THEN NULL ELSE p[i + 1]

\* What a path is: it has no more nodes than the heap.
LEMMA PathIs ==
  ASSUME NEW h, Wired(h), NEW list, NEW p, IsPath(h, list, p)
  PROVE  /\ Len(p) \in 0 .. NextQuad(h) /\ DOMAIN p = 1 .. Len(p)
         /\ \A i \in 1 .. Len(p) : p[i] \in 1 .. NextQuad(h)
         /\ list \in 0 .. NextQuad(h)
<1>1. PICK m \in Nat : m = NextQuad(h)
  BY WiredIs
<1>2. /\ p \in Seq(1 .. m) /\ Len(p) \in Nat /\ DOMAIN p = 1 .. Len(p)
      /\ \A i \in 1 .. Len(p) : p[i] \in 1 .. m
  BY <1>1 DEF IsPath
<1>3. p \in Injection(1 .. Len(p), 1 .. m)
  <2>1. p \in [1 .. Len(p) -> 1 .. m]
    BY <1>2
  <2> QED
    BY <2>1, <1>2 DEF IsPath, Injection, IsInjective
<1>4. /\ Cardinality(1 .. m) = m /\ IsFiniteSet(1 .. m)
      /\ Cardinality(1 .. Len(p)) = Len(p)
  <2>1. /\ IsFiniteSet(1 .. m) /\ IsFiniteSet(1 .. Len(p))
        /\ Cardinality(1 .. m) = IF 1 > m THEN 0 ELSE m - 1 + 1
        /\ Cardinality(1 .. Len(p)) = IF 1 > Len(p) THEN 0 ELSE Len(p) - 1 + 1
    <3>1. 1 \in Int /\ m \in Int /\ Len(p) \in Int
      BY <1>2
    <3> QED
      BY <3>1, FS_Interval, Zenon
  <2> QED
    BY <2>1, <1>2
<1>5. Len(p) <= m
  <2>1. Cardinality(1 .. Len(p)) <= Cardinality(1 .. m)
    BY <1>3, <1>4, FS_Injection
  <2> QED
    BY <2>1, <1>4
<1>6. list \in 0 .. m
  <2>1. CASE Len(p) = 0
    BY <2>1 DEF IsPath, NULL
  <2>2. CASE Len(p) # 0
    <3>1. list = p[1]
      BY <2>2 DEF IsPath
    <3>2. 1 \in 1 .. Len(p)
      BY <2>2, <1>2
    <3> QED
      BY <3>1, <3>2, <1>2
  <2> QED
    BY <2>1, <2>2
<1> QED
  BY <1>1, <1>2, <1>5, <1>6

\* The loop over a list goes along its path.
LEMMA PathWalk ==
  ASSUME NEW h, Wired(h), NEW list, NEW p, IsPath(h, list, p),
         NEW k \in 0 .. NextQuad(h)
  PROVE  Walk(h, list)[k] = IF k < Len(p) THEN p[k + 1] ELSE NULL
<1>1. PICK m \in Nat : m = NextQuad(h)
  BY WiredIs
<1>2. PICK at : at = Walk(h, list)
  OBVIOUS
<1>3. /\ at[0] = list
      /\ \A i \in 1 .. m : at[i] = Onward(h, at[i - 1])
  BY <1>1, <1>2, WalkDefined
<1>4. /\ Len(p) \in 0 .. m /\ \A i \in 1 .. Len(p) : p[i] \in 1 .. m
      /\ list = IF Len(p) = 0 THEN NULL ELSE p[1]
      /\ \A i \in 1 .. Len(p) :
           h.quad[p[i]].successor = IF i = Len(p) THEN NULL ELSE p[i + 1]
  BY <1>1, PathIs DEF IsPath
<1> DEFINE along == {i \in Nat : i <= m =>
                       at[i] = IF i < Len(p) THEN p[i + 1] ELSE NULL}
<1>5. 0 \in along
  BY <1>3, <1>4
<1>6. ASSUME NEW i \in along PROVE i + 1 \in along
  <2>1. SUFFICES ASSUME i + 1 <= m
                 PROVE  at[i + 1] = IF i + 1 < Len(p) THEN p[i + 2] ELSE NULL
    OBVIOUS
  <2>2. at[i + 1] = Onward(h, at[i]) /\ i \in Nat
    <3>1. i + 1 \in 1 .. m /\ (i + 1) - 1 = i
      BY <2>1
    <3> QED
      BY <3>1, <1>3
  <2>3. at[i] = IF i < Len(p) THEN p[i + 1] ELSE NULL
    BY <2>1
  <2>4. CASE i < Len(p)
    <3>1. i + 1 \in 1 .. Len(p) /\ (i + 1) + 1 = i + 2
      BY <2>4, <1>4
    <3>2. p[i + 1] # NULL /\ h.quad[p[i + 1]].successor =
                               IF i + 1 = Len(p) THEN NULL ELSE p[i + 2]
      BY <3>1, <1>4 DEF NULL
    <3> QED
      BY <3>1, <3>2, <2>2, <2>3, <2>4, <1>4 DEF Onward
  <2>5. CASE ~ (i < Len(p))
    BY <2>2, <2>3, <2>5, <1>4 DEF Onward
  <2> QED
    BY <2>4, <2>5
<1>7. k \in along
  <2> HIDE DEF along
  <2>1. along \subseteq Nat
    BY DEF along
  <2>2. along = Nat
    BY <1>5, <1>6, <2>1, Induction
  <2> QED
    BY <2>2, <1>1
<1> QED
  BY <1>1, <1>2, <1>7

\* A list that has a path ends, and its nodes are those of the path.
LEMMA PathEnds ==
  ASSUME NEW h, Wired(h), NEW list, NEW p, IsPath(h, list, p)
  PROVE  /\ ~ Endless(h, list)
         /\ NodesOf(h, list) = {p[i] : i \in 1 .. Len(p)}
         /\ Len(p) # 0 => TailOf(h, list) = p[Len(p)]
<1>1. PICK m \in Nat : m = NextQuad(h)
  BY WiredIs
<1>2. PICK at : at = Walk(h, list)
  OBVIOUS
<1>3. /\ Len(p) \in 0 .. m /\ \A i \in 1 .. Len(p) : p[i] \in 1 .. m
      /\ \A i \in 1 .. Len(p) :
           h.quad[p[i]].successor = IF i = Len(p) THEN NULL ELSE p[i + 1]
  BY <1>1, PathIs DEF IsPath
<1>4. DOMAIN at = 0 .. m /\ \A k \in 0 .. m :
        at[k] = IF k < Len(p) THEN p[k + 1] ELSE NULL
  BY <1>1, <1>2, WalkDefined, PathWalk
<1>5. ~ Endless(h, list)
  BY <1>1, <1>2, <1>3, <1>4 DEF Endless
<1>6. NodesOf(h, list) = {p[i] : i \in 1 .. Len(p)}
  <2>1. ASSUME NEW i \in 1 .. Len(p) PROVE p[i] \in NodesOf(h, list)
    <3>1. i - 1 \in 0 .. m /\ i - 1 < Len(p) /\ (i - 1) + 1 = i
      BY <1>3
    <3>2. at[i - 1] = p[i] /\ p[i] # NULL
      BY <3>1, <1>3, <1>4 DEF NULL
    <3> QED
      BY <3>1, <3>2, <1>2, <1>4 DEF NodesOf, Range
  <2>2. ASSUME NEW n \in NodesOf(h, list) PROVE n \in {p[i] : i \in 1 .. Len(p)}
    <3>1. PICK k \in 0 .. m : at[k] = n /\ n # NULL
      BY <1>2, <1>4 DEF NodesOf, Range
    <3>2. k < Len(p) /\ n = p[k + 1]
      BY <3>1, <1>4
    <3> QED
      BY <3>2, <1>3
  <2> QED
    BY <2>1, <2>2
<1>7. ASSUME Len(p) # 0 PROVE TailOf(h, list) = p[Len(p)]
  <2>1. Len(p) \in 1 .. Len(p)
    BY <1>3, <1>7
  <2>2. /\ p[Len(p)] \in NodesOf(h, list)
        /\ h.quad[p[Len(p)]].successor = NULL
    BY <2>1, <1>3, <1>6
  <2>3. ASSUME NEW n \in NodesOf(h, list), h.quad[n].successor = NULL
        PROVE  n = p[Len(p)]
    <3>1. PICK i \in 1 .. Len(p) : n = p[i]
      BY <1>6
    <3>2. CASE i # Len(p)
      <4>1. i + 1 \in 1 .. Len(p)
        BY <3>2, <1>3
      <4> QED
        BY <4>1, <3>1, <3>2, <2>3, <1>3 DEF NULL
    <3> QED
      BY <3>1, <3>2
  <2> QED
    BY <2>2, <2>3 DEF TailOf
<1> QED
  BY <1>5, <1>6, <1>7

\* A list that ends has a path.
LEMMA PathExists ==
  ASSUME NEW h, Wired(h), NEW list \in 0 .. NextQuad(h), ~ Endless(h, list)
  PROVE  \E p : IsPath(h, list, p)
<1>1. PICK m \in Nat : m = NextQuad(h)
  BY WiredIs
<1>2. PICK at : at = Walk(h, list)
  OBVIOUS
<1>3. /\ DOMAIN at = 0 .. m /\ at[0] = list
      /\ \A k \in 1 .. m : at[k] = Onward(h, at[k - 1])
      /\ at[m] = NULL
  BY <1>1, <1>2, WalkDefined DEF Endless
<1>4. \A k \in 0 .. m : at[k] \in 0 .. m
  <2>1. NodesOf(h, list) \subseteq 1 .. m
    BY <1>1, WalkInHeap DEF Wired
  <2> QED
    BY <2>1, <1>2, <1>3 DEF NodesOf, Range, NULL
\* The first turn of the loop at the end of the list.
<1>5. PICK e \in 0 .. m : at[e] = NULL /\ \A k \in 0 .. m : at[k] = NULL => e <= k
  <2> DEFINE atEnd == {k \in Nat : k <= m /\ at[k] = NULL}
             less == OpToRel(<, Nat)
  <2>1. IsWellFoundedOn(less, Nat)
    BY NatLessThanWellFounded
  <2>2. atEnd \in SUBSET Nat /\ atEnd # {}
    BY <1>3
  <2>3. PICK e \in atEnd : \A k \in atEnd : <<k, e>> \notin less
    <3> HIDE DEF less, atEnd
    <3> QED
      BY <2>1, <2>2, WFMin
  <2>4. \A k \in atEnd : ~ (k < e)
    BY <2>3 DEF OpToRel
  <2> QED
    BY <2>4
<1> DEFINE p == [i \in 1 .. e |-> at[i - 1]]
<1>6. p \in Seq(1 .. m) /\ Len(p) = e
  <2>1. ASSUME NEW i \in 1 .. e PROVE at[i - 1] \in 1 .. m
    <3>1. i - 1 \in 0 .. m /\ i - 1 < e
      OBVIOUS
    <3>2. at[i - 1] # NULL
      BY <3>1, <1>5
    <3> QED
      BY <3>1, <3>2, <1>4 DEF NULL
  <2>2. p \in [1 .. e -> 1 .. m]
    BY <2>1
  <2> QED
    BY <2>2
\* Two turns at the same node would stay together until the end.
<1>7. ASSUME NEW i \in 1 .. e, NEW j \in 1 .. e, p[i] = p[j], i < j PROVE FALSE
  <2> DEFINE together == {d \in Nat : j - 1 + d <= m =>
                                        at[i - 1 + d] = at[j - 1 + d]}
  <2>1. 0 \in together
    BY <1>7
  <2>2. ASSUME NEW d \in together PROVE d + 1 \in together
    <3>1. SUFFICES ASSUME j - 1 + (d + 1) <= m
                   PROVE  at[i - 1 + (d + 1)] = at[j - 1 + (d + 1)]
      OBVIOUS
    <3>2. d \in Nat /\ at[i - 1 + d] = at[j - 1 + d]
      BY <3>1
    <3>3. /\ i - 1 + (d + 1) \in 1 .. m /\ (i - 1 + (d + 1)) - 1 = i - 1 + d
          /\ j - 1 + (d + 1) \in 1 .. m /\ (j - 1 + (d + 1)) - 1 = j - 1 + d
      BY <3>1, <3>2, <1>7
    <3>4. /\ at[i - 1 + (d + 1)] = Onward(h, at[i - 1 + d])
          /\ at[j - 1 + (d + 1)] = Onward(h, at[j - 1 + d])
      BY <3>3, <1>3
    <3> QED
      BY <3>2, <3>4
  <2>3. e - (j - 1) \in together
    <3> HIDE DEF together
    <3>1. together \subseteq Nat
      BY DEF together
    <3>2. together = Nat
      BY <2>1, <2>2, <3>1, Induction
    <3> QED
      BY <3>2
  <2>4. at[i - 1 + (e - (j - 1))] = NULL
    <3>1. j - 1 + (e - (j - 1)) = e /\ e <= m
      OBVIOUS
    <3> QED
      BY <2>3, <3>1, <1>5
  <2>5. i - 1 + (e - (j - 1)) \in 0 .. m /\ i - 1 + (e - (j - 1)) < e
    BY <1>7
  <2> QED
    BY <2>4, <2>5, <1>5
<1>8. \A i, j \in 1 .. Len(p) : p[i] = p[j] => i = j
  <2> HIDE DEF p
  <2>1. \A i \in 1 .. e, j \in 1 .. e : p[i] = p[j] => ~ (i < j)
    BY <1>7
  <2> QED
    BY <2>1, <1>6
<1>9. list = IF Len(p) = 0 THEN NULL ELSE p[1]
  BY <1>3, <1>5, <1>6
<1>10. ASSUME NEW i \in 1 .. Len(p)
       PROVE  h.quad[p[i]].successor = IF i = Len(p) THEN NULL ELSE p[i + 1]
  <2>1. i \in 1 .. m /\ i - 1 \in 0 .. m /\ i - 1 < e /\ p[i] = at[i - 1]
    BY <1>6
  <2>2. at[i] = Onward(h, at[i - 1]) /\ at[i - 1] # NULL
    BY <2>1, <1>3, <1>5
  <2>3. at[i] = h.quad[p[i]].successor
    BY <2>1, <2>2 DEF Onward
  <2>4. i # e => p[i + 1] = at[i]
    BY <2>1, <1>6
  <2> QED
    BY <2>3, <2>4, <1>5, <1>6
<1> HIDE DEF p
<1> QED
  BY <1>1, <1>6, <1>8, <1>9, <1>10 DEF IsPath

\* The empty list ends.
LEMMA NoList ==
  ASSUME NEW h, Wired(h)
  PROVE  ~ Endless(h, NULL) /\ NodesOf(h, NULL) = {}
<1>1. IsPath(h, NULL, <<>>)
  BY DEF IsPath
<1>2. {<<>>[i] : i \in 1 .. Len(<<>>)} = {}
  OBVIOUS
<1> QED
  BY <1>1, <1>2, PathEnds

\* A list that ends holds its first node and every successor; one node alone
\* is its tail.
LEMMA EndingIs ==
  ASSUME NEW h, Wired(h), NEW list \in 0 .. NextQuad(h), ~ Endless(h, list)
  PROVE  /\ NodesOf(h, list) \subseteq 1 .. NextQuad(h)
         /\ list # NULL => /\ list \in NodesOf(h, list)
                           /\ TailOf(h, list) \in NodesOf(h, list)
                           /\ h.quad[TailOf(h, list)].successor = NULL
         /\ \A n \in NodesOf(h, list) :
              /\ h.quad[n].successor \in NodesOf(h, list) \cup {NULL}
              /\ h.quad[n].successor = NULL => n = TailOf(h, list)
<1>1. PICK p : IsPath(h, list, p)
  BY PathExists
<1>2. /\ Len(p) \in Nat /\ list = IF Len(p) = 0 THEN NULL ELSE p[1]
      /\ \A i \in 1 .. Len(p) :
           /\ p[i] \in 1 .. NextQuad(h)
           /\ h.quad[p[i]].successor = IF i = Len(p) THEN NULL ELSE p[i + 1]
  BY <1>1, PathIs DEF IsPath
<1>3. NodesOf(h, list) = {p[i] : i \in 1 .. Len(p)}
  BY <1>1, PathEnds
<1>4. Len(p) # 0 => TailOf(h, list) = p[Len(p)]
  BY <1>1, PathEnds
<1>5. ASSUME list # NULL
      PROVE  /\ list \in NodesOf(h, list)
             /\ TailOf(h, list) \in NodesOf(h, list)
             /\ h.quad[TailOf(h, list)].successor = NULL
  <2>1. Len(p) # 0 /\ 1 \in 1 .. Len(p) /\ Len(p) \in 1 .. Len(p)
    BY <1>2, <1>5
  <2> QED
    BY <2>1, <1>2, <1>3, <1>4
<1>6. ASSUME NEW n \in NodesOf(h, list)
      PROVE  /\ h.quad[n].successor \in NodesOf(h, list) \cup {NULL}
             /\ h.quad[n].successor = NULL => n = TailOf(h, list)
  <2>1. PICK i \in 1 .. Len(p) : n = p[i]
    BY <1>3
  <2>2. CASE i = Len(p)
    BY <2>1, <2>2, <1>2, <1>4
  <2>3. CASE i # Len(p)
    <3>1. i + 1 \in 1 .. Len(p)
      BY <2>3, <1>2
    <3>2. p[i + 1] # NULL /\ p[i + 1] \in NodesOf(h, list)
      BY <3>1, <1>2, <1>3 DEF NULL
    <3> QED
      BY <3>2, <2>1, <2>3, <1>2
  <2> QED
    BY <2>2, <2>3
<1> QED
  BY <1>2, <1>3, <1>5, <1>6

\* From one of its nodes on, a path is a path.
LEMMA PathFrom ==
  ASSUME NEW h, Wired(h), NEW list, NEW p, IsPath(h, list, p), NEW i \in 1 .. Len(p)
  PROVE  \E q : /\ IsPath(h, p[i], q) /\ Len(q) = Len(p) - i + 1
                /\ \A j \in 1 .. Len(q) : q[j] = p[i + j - 1]
<1>1. PICK m \in Nat : m = NextQuad(h)
  BY WiredIs
<1>2. /\ Len(p) \in Nat /\ \A j \in 1 .. Len(p) : p[j] \in 1 .. m
      /\ \A j, k \in 1 .. Len(p) : p[j] = p[k] => j = k
      /\ \A j \in 1 .. Len(p) :
           h.quad[p[j]].successor = IF j = Len(p) THEN NULL ELSE p[j + 1]
  BY <1>1, PathIs DEF IsPath
<1>3. PICK l \in Nat, n \in Nat : l = Len(p) /\ n = l - i + 1 /\ i \in 1 .. l
  <2>1. Len(p) \in Nat
    BY <1>2
  <2> QED
    BY <2>1
<1>4. PICK q : q = [j \in 1 .. n |-> p[i + j - 1]]
  OBVIOUS
<1>5. q \in Seq(1 .. m) /\ Len(q) = n
  <2>1. \A j \in 1 .. n : i + j - 1 \in 1 .. Len(p)
    BY <1>2, <1>3
  <2>2. q \in [1 .. n -> 1 .. m]
    BY <2>1, <1>2, <1>4
  <2> QED
    BY <2>2
<1>6. \A j \in 1 .. n : q[j] = p[i + j - 1] /\ i + j - 1 \in 1 .. Len(p)
  BY <1>2, <1>3, <1>4
<1>7. ASSUME NEW j \in 1 .. n, NEW k \in 1 .. n, q[j] = q[k] PROVE j = k
  <2>1. i + j - 1 = i + k - 1
    BY <1>2, <1>6, <1>7
  <2> QED
    BY <2>1
<1>8. n # 0 /\ q[1] = p[i]
  <2>1. n # 0 /\ 1 \in 1 .. n /\ i + 1 - 1 = i
    BY <1>3
  <2>2. q[1] = p[i + 1 - 1]
    BY <2>1, <1>6
  <2> QED
    BY <2>1, <2>2
<1>9. ASSUME NEW j \in 1 .. n
      PROVE  h.quad[q[j]].successor = IF j = n THEN NULL ELSE q[j + 1]
  <2>1. h.quad[q[j]].successor = IF i + j - 1 = Len(p) THEN NULL
                                                       ELSE p[(i + j - 1) + 1]
    BY <1>2, <1>6
  <2>2. CASE j = n
    BY <2>1, <2>2, <1>2, <1>3
  <2>3. CASE j # n
    <3>1. j + 1 \in 1 .. n /\ i + (j + 1) - 1 = (i + j - 1) + 1
          /\ i + j - 1 # l
      BY <2>3, <1>3
    <3>2. q[j + 1] = p[i + (j + 1) - 1]
      BY <3>1, <1>6
    <3> QED
      BY <3>1, <3>2, <2>1, <2>3, <1>3
  <2> QED
    BY <2>2, <2>3
<1>10. IsPath(h, p[i], q)
  BY <1>1, <1>5, <1>7, <1>8, <1>9 DEF IsPath
<1> QED
  BY <1>3, <1>5, <1>6, <1>10

\* From one of its nodes on, a list that ends is a list that ends at the same
\* tail.
LEMMA Inside ==
  ASSUME NEW h, Wired(h), NEW list \in 0 .. NextQuad(h), ~ Endless(h, list),
         NEW x \in NodesOf(h, list)
  PROVE  /\ ~ Endless(h, x) /\ x \in 1 .. NextQuad(h) /\ x # NULL
         /\ NodesOf(h, x) \subseteq NodesOf(h, list)
         /\ TailOf(h, x) = TailOf(h, list)
<1>1. PICK p : IsPath(h, list, p)
  BY PathExists
<1>2. /\ NodesOf(h, list) = {p[j] : j \in 1 .. Len(p)}
      /\ Len(p) # 0 => TailOf(h, list) = p[Len(p)]
      /\ Len(p) \in Nat /\ \A j \in 1 .. Len(p) : p[j] \in 1 .. NextQuad(h)
  BY <1>1, PathEnds, PathIs
<1>3. PICK i \in 1 .. Len(p) : x = p[i]
  BY <1>2
<1>4. PICK q : /\ IsPath(h, x, q) /\ Len(q) = Len(p) - i + 1
               /\ \A j \in 1 .. Len(q) : q[j] = p[i + j - 1]
  BY <1>1, <1>3, PathFrom
<1>5. /\ ~ Endless(h, x) /\ NodesOf(h, x) = {q[j] : j \in 1 .. Len(q)}
      /\ Len(q) # 0 => TailOf(h, x) = q[Len(q)]
  BY <1>4, PathEnds
<1>6. \A j \in 1 .. Len(q) : i + j - 1 \in 1 .. Len(p)
  BY <1>2, <1>4
<1>7. /\ Len(q) # 0 /\ Len(p) # 0 /\ Len(q) \in 1 .. Len(q)
      /\ i + Len(q) - 1 = Len(p)
  BY <1>2, <1>4
<1>8. TailOf(h, x) = TailOf(h, list)
  BY <1>2, <1>4, <1>5, <1>7
<1>9. x \in 1 .. NextQuad(h) /\ x # NULL
  <2>1. x \in 1 .. NextQuad(h)
    BY <1>2, <1>3
  <2> QED
    BY <2>1 DEF NULL
<1> QED
  BY <1>2, <1>4, <1>5, <1>6, <1>8, <1>9

\* A list is the same list as long as its nodes have the same successors.
LEMMA Undisturbed ==
  ASSUME NEW h, Wired(h), NEW g, Wired(g), NextQuad(h) <= NextQuad(g),
         NEW list \in 0 .. NextQuad(h), ~ Endless(h, list),
         \A n \in NodesOf(h, list) : g.quad[n].successor = h.quad[n].successor
  PROVE  /\ ~ Endless(g, list) /\ NodesOf(g, list) = NodesOf(h, list)
         /\ TailOf(g, list) = TailOf(h, list)
<1>1. PICK p : IsPath(h, list, p)
  BY PathExists
<1>2. NodesOf(h, list) = {p[i] : i \in 1 .. Len(p)}
  BY <1>1, PathEnds
<1>3. IsPath(g, list, p)
  <2>1. p \in Seq(1 .. NextQuad(g))
    <3>1. PICK m \in Nat, k \in Nat : m = NextQuad(h) /\ k = NextQuad(g)
      BY WiredIs
    <3>2. p \in Seq(1 .. m) /\ m <= k
      BY <3>1, <1>1 DEF IsPath
    <3>3. p \in Seq(1 .. k)
      BY <3>2
    <3> QED
      BY <3>1, <3>3
  <2>2. ASSUME NEW i \in 1 .. Len(p)
        PROVE  g.quad[p[i]].successor = h.quad[p[i]].successor
    BY <1>2
  <2> QED
    BY <2>1, <2>2, <1>1 DEF IsPath
<1>4. TailOf(g, list) = TailOf(h, list)
  <2>1. CASE Len(p) # 0
    BY <2>1, <1>1, <1>3, PathEnds
  <2>2. CASE Len(p) = 0
    <3>1. NodesOf(h, list) = {} /\ NodesOf(g, list) = {}
      BY <2>2, <1>1, <1>3, PathEnds
    <3> QED
      BY <3>1 DEF TailOf
  <2> QED
    BY <2>1, <2>2
<1> QED
  BY <1>1, <1>2, <1>3, <1>4, PathEnds

\* What a function may do to links: it cuts none, and once the heap hangs it
\* does.
Grows(h, g) ==
  /\ NextQuad(h) <= NextQuad(g)
  /\ h.hung => g.hung
  /\ g.hung \/ \A n \in 1 .. NextQuad(h) :
                 h.quad[n].successor # NULL =>
                   g.quad[n].successor = h.quad[n].successor

\* All of a quadruple but its successor.
Says(q) == <<q.op, q.res, q.op1, q.op2>>

\* The last node of a list is followed by another list, and nothing else
\* changes.
Extended(h, list, src, g) ==
  /\ Wired(g) /\ ~ g.hung /\ NextQuad(g) = NextQuad(h)
  /\ \A n \in 1 .. NextQuad(h) : Says(g.quad[n]) = Says(h.quad[n])
  /\ \A n \in 1 .. NextQuad(h) : n # TailOf(h, list) => g.quad[n] = h.quad[n]
  /\ \A x \in NodesOf(h, list) :
       ~ Endless(g, x) /\ NodesOf(g, x) = NodesOf(h, x) \cup NodesOf(h, src)

\* A list is linked behind another that shares no node with it.
LEMMA Linking ==
  ASSUME NEW h, Wired(h), ~ h.hung,
         NEW list \in 1 .. NextQuad(h), NEW src \in 0 .. NextQuad(h),
         ~ Endless(h, list), ~ Endless(h, src),
         NodesOf(h, list) \cap NodesOf(h, src) = {}
  PROVE  Extended(h, list, src, Link(h, list, src))
<1>1. PICK m \in Nat : m = NextQuad(h)
  BY WiredIs
<1>2. PICK g : g = Link(h, list, src)
  OBVIOUS
<1>3. PICK t : t = TailOf(h, list)
  OBVIOUS
<1>4. Wired(g) /\ NextQuad(g) = m
  <2>1. PICK S : IsHeap(h, S, S)
    BY WiredFor
  <2>2. IsHeap(g, S, S) /\ NextQuad(g) = NextQuad(h)
    BY <2>1, <1>2, LinkIsHeap
  <2> QED
    BY <2>2, <1>1 DEF Wired
<1>5. t \in 1 .. m
  <2>1. list \in 0 .. m /\ list # NULL
    BY <1>1 DEF NULL
  <2> QED
    BY <2>1, <1>1, <1>3, EndingIs
<1>6. /\ ~ g.hung
      /\ \A n \in 1 .. m : n # t => g.quad[n] = h.quad[n]
      /\ g.quad[t] = [h.quad[t] EXCEPT !.successor = src]
  <2>1. /\ h = [quad |-> h.quad, hung |-> h.hung]
        /\ h.quad = [n \in 1 .. m |-> h.quad[n]]
    BY <1>1, WiredIs
  <2>2. g = [h EXCEPT !.quad[t].successor = src]
    BY <1>2, <1>3 DEF Link
  <2>3. g.hung = h.hung /\ g.quad = [h.quad EXCEPT ![t].successor = src]
    BY <2>1, <2>2
  <2> QED
    BY <2>1, <2>3, <1>5
<1>7. /\ g.quad[t].successor = src
      /\ Says(g.quad[t]) = Says(h.quad[t])
  <2>1. h.quad[t] = [op |-> h.quad[t].op, res |-> h.quad[t].res,
                     op1 |-> h.quad[t].op1, op2 |-> h.quad[t].op2,
                     successor |-> h.quad[t].successor]
    BY <1>1, <1>5, WiredIs
  <2> QED
    BY <2>1, <1>6 DEF Says
<1>8. PICK b : IsPath(h, src, b)
  BY PathExists
<1>9. /\ NodesOf(h, src) = {b[i] : i \in 1 .. Len(b)}
      /\ Len(b) \in Nat /\ \A i \in 1 .. Len(b) : b[i] \in 1 .. m
      /\ \A i, j \in 1 .. Len(b) : b[i] = b[j] => i = j
      /\ src = IF Len(b) = 0 THEN NULL ELSE b[1]
      /\ \A i \in 1 .. Len(b) :
           h.quad[b[i]].successor = IF i = Len(b) THEN NULL ELSE b[i + 1]
  <2>1. NodesOf(h, src) = {b[i] : i \in 1 .. Len(b)}
    BY <1>8, PathEnds
  <2>2. Len(b) \in Nat /\ \A i \in 1 .. Len(b) : b[i] \in 1 .. m
    BY <1>1, <1>8, PathIs
  <2> QED
    BY <2>1, <2>2, <1>8 DEF IsPath
<1>10. ASSUME NEW x \in NodesOf(h, list)
       PROVE  /\ ~ Endless(g, x)
              /\ NodesOf(g, x) = NodesOf(h, x) \cup NodesOf(h, src)
  <2>1. /\ ~ Endless(h, x) /\ x \in 0 .. m /\ x # NULL
        /\ NodesOf(h, x) \subseteq NodesOf(h, list) /\ TailOf(h, x) = t
    <3>1. list \in 0 .. NextQuad(h)
      BY <1>1
    <3> QED
      BY <3>1, <1>1, <1>3, Inside
  <2>2. PICK a : IsPath(h, x, a)
    BY <1>1, <2>1, PathExists
  <2>3. /\ NodesOf(h, x) = {a[i] : i \in 1 .. Len(a)}
        /\ Len(a) \in Nat /\ \A i \in 1 .. Len(a) : a[i] \in 1 .. m
        /\ \A i, j \in 1 .. Len(a) : a[i] = a[j] => i = j
        /\ x = IF Len(a) = 0 THEN NULL ELSE a[1]
        /\ \A i \in 1 .. Len(a) :
             h.quad[a[i]].successor = IF i = Len(a) THEN NULL ELSE a[i + 1]
    <3>1. NodesOf(h, x) = {a[i] : i \in 1 .. Len(a)}
      BY <2>2, PathEnds
    <3>2. Len(a) \in Nat /\ \A i \in 1 .. Len(a) : a[i] \in 1 .. m
      BY <1>1, <2>2, PathIs
    <3> QED
      BY <3>1, <3>2, <2>2 DEF IsPath
  <2>4. Len(a) # 0 /\ a[Len(a)] = t
    BY <2>1, <2>2, <2>3, PathEnds
  <2>5. PICK l \in Nat, k \in Nat : l = Len(a) /\ k = Len(b)
    BY <1>9, <2>3
  <2>6. PICK p : p = [i \in 1 .. l + k |-> IF i <= l THEN a[i] ELSE b[i - l]]
    OBVIOUS
  <2>7. /\ \A i \in 1 .. l : p[i] = a[i]
        /\ \A i \in 1 .. k : p[l + i] = b[i]
        /\ \A i \in 1 .. l + k : i \in 1 .. l \/ i - l \in 1 .. k
    BY <2>6
  <2>8. p \in Seq(1 .. m) /\ Len(p) = l + k
    <3>1. \A i \in 1 .. l + k : p[i] \in 1 .. m
      BY <2>5, <2>6, <2>3, <1>9
    <3>2. p \in [1 .. l + k -> 1 .. m]
      BY <3>1, <2>6
    <3> QED
      BY <3>2
  <2>9. ASSUME NEW i \in 1 .. l + k, NEW j \in 1 .. l + k, p[i] = p[j]
        PROVE  i = j
    <3>1. \A u \in 1 .. l, v \in 1 .. k : a[u] # b[v]
      <4>1. \A u \in 1 .. l : a[u] \in NodesOf(h, list)
        BY <2>1, <2>3, <2>5
      <4>2. \A v \in 1 .. k : b[v] \in NodesOf(h, src)
        BY <1>9, <2>5
      <4> QED
        BY <4>1, <4>2
    <3>2. CASE i \in 1 .. l /\ j \in 1 .. l
      BY <3>2, <2>3, <2>5, <2>7, <2>9
    <3>3. CASE i - l \in 1 .. k /\ j - l \in 1 .. k
      <4>1. b[i - l] = b[j - l]
        BY <3>3, <2>7, <2>9
      <4>2. i - l = j - l
        BY <4>1, <3>3, <1>9, <2>5
      <4> QED
        BY <4>2
    <3>4. CASE i \in 1 .. l /\ j - l \in 1 .. k
      BY <3>1, <3>4, <2>7, <2>9
    <3>5. CASE i - l \in 1 .. k /\ j \in 1 .. l
      BY <3>1, <3>5, <2>7, <2>9
    <3> QED
      BY <3>2, <3>3, <3>4, <3>5, <2>7
  <2>10. x = IF Len(p) = 0 THEN NULL ELSE p[1]
    <3>1. 1 \in 1 .. l /\ l + k # 0 /\ x = a[1]
      BY <2>3, <2>4, <2>5
    <3> QED
      BY <3>1, <2>7, <2>8
  <2>11. ASSUME NEW i \in 1 .. l + k
         PROVE  g.quad[p[i]].successor = IF i = l + k THEN NULL ELSE p[i + 1]
    <3>1. CASE i \in 1 .. l /\ i # l
      <4>1. /\ a[i] # t /\ i + 1 \in 1 .. l /\ a[i] \in 1 .. m /\ i # l + k
            /\ h.quad[a[i]].successor = a[i + 1]
        BY <3>1, <2>3, <2>4, <2>5
      <4> QED
        BY <4>1, <3>1, <2>7, <1>6
    <3>2. CASE i = l
      <4>1. p[i] = t
        BY <3>2, <2>4, <2>5, <2>7
      <4>2. CASE k = 0
        BY <4>1, <4>2, <3>2, <1>7, <1>9, <2>5
      <4>3. CASE k # 0
        <5>1. 1 \in 1 .. k /\ src = b[1] /\ i # l + k
          BY <4>3, <3>2, <1>9, <2>5
        <5> QED
          BY <5>1, <4>1, <3>2, <1>7, <2>7
      <4> QED
        BY <4>2, <4>3
    <3>3. CASE i - l \in 1 .. k
      <4>1. PICK j \in 1 .. k : j = i - l
        BY <3>3
      <4>2. p[i] = b[j] /\ i = l + j
        BY <4>1, <2>7
      <4>3. b[j] # t /\ b[j] \in 1 .. m
        <5>1. l \in 1 .. l
          BY <2>4, <2>5
        <5>2. t \in NodesOf(h, list)
          BY <5>1, <2>1, <2>3, <2>4, <2>5
        <5>3. b[j] \in NodesOf(h, src)
          BY <1>9, <2>5
        <5> QED
          BY <5>2, <5>3, <1>9
      <4>4. g.quad[b[j]].successor = IF j = k THEN NULL ELSE b[j + 1]
        BY <4>3, <1>6, <1>9, <2>5
      <4>5. ASSUME j # k PROVE j + 1 \in 1 .. k /\ p[i + 1] = b[j + 1]
        <5>1. PICK next \in 1 .. k : next = j + 1
          BY <4>5
        <5>2. p[l + next] = b[next]
          BY <2>7
        <5>3. i + 1 = l + next
          BY <5>1, <4>2
        <5> QED
          BY <5>1, <5>2, <5>3
      <4> QED
        BY <4>2, <4>4, <4>5
    <3> QED
      BY <3>1, <3>2, <3>3, <2>7
  <2>12. IsPath(g, x, p)
    BY <2>8, <2>9, <2>10, <2>11, <1>4 DEF IsPath
  <2>13. ~ Endless(g, x) /\ NodesOf(g, x) = {p[i] : i \in 1 .. l + k}
    <3>1. ~ Endless(g, x) /\ NodesOf(g, x) = {p[i] : i \in 1 .. Len(p)}
      BY <2>12, <1>4, PathEnds
    <3>2. Len(p) = l + k
      BY <2>8
    <3> QED
      BY <3>1, <3>2
  <2>14. {p[i] : i \in 1 .. l + k} = {a[i] : i \in 1 .. l} \cup {b[i] : i \in 1 .. k}
    <3>1. \A i \in 1 .. l : i \in 1 .. l + k
      OBVIOUS
    <3>2. \A i \in 1 .. k : l + i \in 1 .. l + k
      OBVIOUS
    <3>3. ASSUME NEW i \in 1 .. l + k
          PROVE  p[i] \in {a[j] : j \in 1 .. l} \cup {b[j] : j \in 1 .. k}
      <4>1. CASE i \in 1 .. l
        BY <4>1, <2>7
      <4>2. CASE i - l \in 1 .. k
        <5>1. i = l + (i - l)
          OBVIOUS
        <5> QED
          BY <5>1, <4>2, <2>7
      <4> QED
        BY <4>1, <4>2, <2>7
    <3> QED
      BY <3>1, <3>2, <3>3, <2>7
  <2> QED
    BY <2>3, <2>5, <2>13, <2>14, <1>9
<1>11. Extended(h, list, src, g)
  BY <1>1, <1>3, <1>4, <1>6, <1>7, <1>10 DEF Extended
<1> QED
  BY <1>2, <1>11

\* One growth after another is one.
LEMMA GrowsOn ==
  ASSUME NEW h, NEW g, NEW f, Wired(h), Wired(g), Wired(f), Grows(h, g), Grows(g, f)
  PROVE  Grows(h, f)
<1>1. PICK k \in Nat, m \in Nat, n \in Nat :
        k = NextQuad(h) /\ m = NextQuad(g) /\ n = NextQuad(f)
  BY WiredIs
<1>2. k <= m /\ m <= n
  BY <1>1 DEF Grows
<1>3. ASSUME ~ f.hung, NEW i \in 1 .. k, h.quad[i].successor # NULL
      PROVE  f.quad[i].successor = h.quad[i].successor
  BY <1>1, <1>2, <1>3 DEF Grows
<1> QED
  BY <1>1, <1>2, <1>3 DEF Grows

\* A new quadruple cuts no link.
LEMMA QuadNewGrows ==
  ASSUME NEW h, Wired(h), NEW op \in Ops, NEW res, NEW op1, NEW op2
  PROVE  Grows(h, QuadNew(h, op, res, op1, op2))
<1>1. PICK m \in Nat : m = NextQuad(h)
  BY WiredIs
<1>2. PICK g : g = QuadNew(h, op, res, op1, op2)
  OBVIOUS
<1>3. /\ g.hung = h.hung /\ NextQuad(g) = m + 1
      /\ \A n \in 1 .. m : g.quad[n] = h.quad[n]
  BY <1>1, <1>2, QuadNewWires
<1>4. Grows(h, g)
  BY <1>1, <1>3 DEF Grows
<1> QED
  BY <1>2, <1>4

\* quad_list_complete() changes labels alone, and only of the list it is
\* given.
LEMMA CompleteWires ==
  ASSUME NEW h, Wired(h), NEW list, NEW label
  PROVE  LET g == Complete(h, list, label)
         IN  /\ Wired(g) /\ NextQuad(g) = NextQuad(h) /\ Grows(h, g)
             /\ g.hung <=> h.hung \/ Endless(h, list)
             /\ \A n \in 1 .. NextQuad(h) :
                  /\ g.quad[n].successor = h.quad[n].successor
                  /\ g.quad[n].op = h.quad[n].op
                  /\ g.quad[n].op1 = h.quad[n].op1
                  /\ g.quad[n].op2 = h.quad[n].op2
             /\ \A n \in 1 .. NextQuad(h) :
                  IF n \in NodesOf(h, list) /\ ~ g.hung
                    THEN g.quad[n].res = label
                    ELSE g.quad[n] = h.quad[n]
<1>1. PICK m \in Nat : m = NextQuad(h)
  BY WiredIs
<1>2. PICK g : g = Complete(h, list, label)
  OBVIOUS
<1>3. Wired(g) /\ NextQuad(g) = m
  <2>1. PICK S : {label} \subseteq S /\ IsHeap(h, S, S)
    BY WiredFor
  <2>2. label \in OrNone(S)
    BY <2>1 DEF OrNone
  <2>3. IsHeap(g, S, S) /\ NextQuad(g) = NextQuad(h)
    BY <2>1, <2>2, <1>2, CompleteIsHeap
  <2> QED
    BY <2>3, <1>1 DEF Wired
<1>4. h = [quad |-> h.quad, hung |-> h.hung] /\ h.hung \in BOOLEAN
      /\ DOMAIN h.quad = 1 .. m
  <2>1. h.quad = [n \in 1 .. m |-> h.quad[n]]
    BY <1>1, WiredIs
  <2> QED
    BY <2>1, WiredIs
<1>5. CASE h.hung
  <2>1. g = h
    BY <1>2, <1>5 DEF Complete
  <2>2. Grows(h, g) /\ g.hung
    BY <2>1, <1>1, <1>5 DEF Grows
  <2> QED
    BY <2>1, <2>2, <1>1, <1>2, <1>3, <1>5
<1>6. CASE ~ h.hung /\ Endless(h, list)
  <2>1. g = Hang(h)
    BY <1>2, <1>6 DEF Complete
  <2>2. g.hung /\ g.quad = h.quad
    BY <2>1, <1>4 DEF Hang
  <2> QED
    BY <2>2, <1>1, <1>2, <1>3, <1>6 DEF Grows
<1>7. CASE ~ h.hung /\ ~ Endless(h, list)
  <2>1. PICK R : R = NodesOf(h, list)
    OBVIOUS
  <2>2. PICK quads : quads = [n \in DOMAIN h.quad |->
                                IF n \in R THEN [h.quad[n] EXCEPT !.res = label]
                                           ELSE h.quad[n]]
    OBVIOUS
  <2>3. g = [h EXCEPT !.quad = quads]
    BY <2>1, <2>2, <1>2, <1>7 DEF Complete
  <2>4. g.hung = h.hung /\ g.quad = quads
    BY <2>3, <1>4
  <2>5. ASSUME NEW n \in 1 .. m
        PROVE  /\ g.quad[n].successor = h.quad[n].successor
               /\ g.quad[n].op = h.quad[n].op
               /\ g.quad[n].op1 = h.quad[n].op1
               /\ g.quad[n].op2 = h.quad[n].op2
               /\ IF n \in R THEN g.quad[n].res = label
                             ELSE g.quad[n] = h.quad[n]
    <3>1. h.quad[n] = [op |-> h.quad[n].op, res |-> h.quad[n].res,
                       op1 |-> h.quad[n].op1, op2 |-> h.quad[n].op2,
                       successor |-> h.quad[n].successor]
      BY <1>1, WiredIs
    <3>2. g.quad[n] = IF n \in R THEN [h.quad[n] EXCEPT !.res = label]
                                 ELSE h.quad[n]
      BY <2>2, <2>4, <1>4
    <3> QED
      BY <3>1, <3>2
  <2>6. Grows(h, g)
    BY <2>4, <2>5, <1>1, <1>3 DEF Grows
  <2> QED
    BY <2>1, <2>4, <2>5, <2>6, <1>1, <1>2, <1>3, <1>4, <1>7
<1> QED
  BY <1>4, <1>5, <1>6, <1>7

\* A link goes from a node that led nowhere.
LEMMA LinkGrows ==
  ASSUME NEW h, Wired(h), NEW list \in 1 .. NextQuad(h), NEW src \in 0 .. NextQuad(h)
  PROVE  LET g == Link(h, list, src)
         IN  /\ Wired(g) /\ NextQuad(g) = NextQuad(h) /\ Grows(h, g)
             /\ g.hung <=> h.hung \/ Endless(h, list)
             /\ ~ g.hung => g.quad[TailOf(h, list)].successor = src
<1>1. PICK m \in Nat : m = NextQuad(h)
  BY WiredIs
<1>2. PICK g : g = Link(h, list, src)
  OBVIOUS
<1>3. Wired(g) /\ NextQuad(g) = m
  <2>1. PICK S : IsHeap(h, S, S)
    BY WiredFor
  <2>2. IsHeap(g, S, S) /\ NextQuad(g) = NextQuad(h)
    BY <2>1, <1>2, LinkIsHeap
  <2> QED
    BY <2>2, <1>1 DEF Wired
<1>4. h = [quad |-> h.quad, hung |-> h.hung] /\ h.hung \in BOOLEAN
      /\ h.quad = [n \in 1 .. m |-> h.quad[n]]
  BY <1>1, WiredIs
<1>5. CASE h.hung
  <2>1. g = h
    BY <1>2, <1>5 DEF Link
  <2>2. Grows(h, g) /\ g.hung
    BY <2>1, <1>1, <1>5 DEF Grows
  <2> QED
    BY <2>1, <2>2, <1>1, <1>2, <1>3, <1>5
<1>6. CASE ~ h.hung /\ Endless(h, list)
  <2>1. g = Hang(h)
    BY <1>2, <1>6 DEF Link
  <2>2. g.hung /\ g.quad = h.quad
    BY <2>1, <1>4 DEF Hang
  <2> QED
    BY <2>2, <1>1, <1>2, <1>3, <1>6 DEF Grows
<1>7. CASE ~ h.hung /\ ~ Endless(h, list)
  <2>1. PICK t : t = TailOf(h, list)
    OBVIOUS
  <2>2. t \in 1 .. m /\ h.quad[t].successor = NULL
    <3>1. list \in 0 .. NextQuad(h) /\ list # NULL
      BY <1>1 DEF NULL
    <3> QED
      BY <3>1, <2>1, <1>1, <1>7, EndingIs
  <2>3. g = [h EXCEPT !.quad[t].successor = src]
    BY <1>2, <1>7, <2>1 DEF Link
  <2>4. g.hung = h.hung /\ g.quad = [h.quad EXCEPT ![t].successor = src]
    BY <2>3, <1>4
  <2>5. \A n \in 1 .. m : n # t => g.quad[n] = h.quad[n]
    BY <2>4, <1>4
  <2>6. g.quad[t].successor = src
    <3>1. h.quad[t] = [op |-> h.quad[t].op, res |-> h.quad[t].res,
                       op1 |-> h.quad[t].op1, op2 |-> h.quad[t].op2,
                       successor |-> h.quad[t].successor]
      BY <1>1, <2>2, WiredIs
    <3>2. g.quad[t] = [h.quad[t] EXCEPT !.successor = src]
      BY <2>2, <2>4, <1>4
    <3> QED
      BY <3>1, <3>2
  <2>7. Grows(h, g)
    BY <2>2, <2>4, <2>5, <1>1, <1>3 DEF Grows
  <2> QED
    BY <2>1, <2>4, <2>6, <2>7, <1>1, <1>2, <1>3, <1>7
<1> QED
  BY <1>4, <1>5, <1>6, <1>7

\* quad_list_concat() makes and cuts nothing.
LEMMA ConcatGrows ==
  ASSUME NEW h, Wired(h), NEW sources, Len(sources) \in Nat,
         \A i \in 1 .. Len(sources) : sources[i] \in 0 .. NextQuad(h)
  PROVE  \E f : /\ After(f, h, sources, Len(sources))
                /\ Concat(h, sources) = f[Len(sources)]
                /\ \A i \in 0 .. Len(sources) :
                     /\ Wired(f[i].heap) /\ NextQuad(f[i].heap) = NextQuad(h)
                     /\ Grows(h, f[i].heap) /\ f[i].list \in 0 .. NextQuad(h)
                     /\ f[i] = [heap |-> f[i].heap, list |-> f[i].list]
<1>1. PICK m \in Nat, n \in Nat : m = Len(sources) /\ n = NextQuad(h)
  BY WiredIs
<1>2. PICK f : After(f, h, sources, m) /\ Concat(h, sources) = f[m]
  BY <1>1, ConcatDefined
<1>3. /\ f[0] = [heap |-> h, list |-> NULL]
      /\ \A i \in 1 .. m : f[i] = Joined(f[i - 1], sources[i])
  BY <1>2 DEF After
<1> DEFINE Good(i) == /\ Wired(f[i].heap) /\ NextQuad(f[i].heap) = n
                      /\ Grows(h, f[i].heap) /\ f[i].list \in 0 .. n
                      /\ f[i] = [heap |-> f[i].heap, list |-> f[i].list]
           good == {i \in Nat : i <= m => Good(i)}
<1>4. 0 \in good
  <2>1. f[0].heap = h /\ f[0].list = 0
    BY <1>3 DEF NULL
  <2>2. Grows(h, h)
    BY <1>1 DEF Grows
  <2> QED
    BY <2>1, <2>2, <1>1, <1>3
<1>5. ASSUME NEW i \in good PROVE i + 1 \in good
  <2>1. SUFFICES ASSUME i + 1 <= m PROVE Good(i + 1)
    OBVIOUS
  <2>2. Good(i) /\ f[i + 1] = Joined(f[i], sources[i + 1])
        /\ sources[i + 1] \in 0 .. n
    <3>1. i + 1 \in 1 .. m /\ (i + 1) - 1 = i /\ i <= m
      BY <2>1
    <3> QED
      BY <3>1, <1>1, <1>3
  <2>3. CASE f[i].list = NULL
    <3>1. f[i + 1] = [heap |-> f[i].heap, list |-> sources[i + 1]]
      BY <2>2, <2>3 DEF Joined
    <3> QED
      BY <3>1, <2>2
  <2>4. CASE f[i].list # NULL
    <3>1. PICK g : g = Link(f[i].heap, f[i].list, sources[i + 1])
      OBVIOUS
    <3>2. f[i + 1] = [heap |-> g, list |-> f[i].list]
      BY <3>1, <2>2, <2>4 DEF Joined
    <3>3. f[i].list \in 1 .. n
      BY <2>2, <2>4 DEF NULL
    <3>4. Wired(g) /\ NextQuad(g) = n /\ Grows(f[i].heap, g)
      BY <3>1, <3>3, <2>2, LinkGrows
    <3>5. Grows(h, g)
      BY <3>4, <2>2, GrowsOn
    <3> QED
      BY <3>2, <3>4, <3>5, <2>2
  <2> QED
    BY <2>3, <2>4
<1>6. \A i \in 0 .. m : Good(i)
  <2>1. good = Nat
    <3> HIDE DEF good
    <3>1. good \subseteq Nat
      BY DEF good
    <3> QED
      BY <1>4, <1>5, <3>1, Induction
  <2> QED
    BY <2>1
<1> QED
  BY <1>1, <1>2, <1>6

\* The nodes of some of the lists.
NodesIn(h, sources, I) == UNION {NodesOf(h, sources[i]) : i \in I}

\* quad_list_concat() of lists that end and share no node: the result ends
\* and has the nodes of all; from a node of one of the lists on it has the
\* rest of that list and all later ones.
LEMMA ConcatLists ==
  ASSUME NEW h, Wired(h), ~ h.hung, NEW sources, Len(sources) \in Nat,
         \A i \in 1 .. Len(sources) :
           sources[i] \in 0 .. NextQuad(h) /\ ~ Endless(h, sources[i]),
         \A i, j \in 1 .. Len(sources) :
           i # j => NodesOf(h, sources[i]) \cap NodesOf(h, sources[j]) = {}
  PROVE  LET r == Concat(h, sources)
             all == NodesIn(h, sources, 1 .. Len(sources))
         IN  /\ Wired(r.heap) /\ ~ r.heap.hung
             /\ NextQuad(r.heap) = NextQuad(h) /\ r.list \in 0 .. NextQuad(h)
             /\ ~ Endless(r.heap, r.list) /\ NodesOf(r.heap, r.list) = all
             /\ \A n \in 1 .. NextQuad(h) :
                  /\ Says(r.heap.quad[n]) = Says(h.quad[n])
                  /\ n \notin all => r.heap.quad[n] = h.quad[n]
             /\ \A i \in 1 .. Len(sources) : \A x \in NodesOf(h, sources[i]) :
                  /\ ~ Endless(r.heap, x)
                  /\ NodesOf(r.heap, x) =
                       NodesOf(h, x) \cup NodesIn(h, sources, i + 1 .. Len(sources))
<1>1. PICK m \in Nat, top \in Nat : m = Len(sources) /\ top = NextQuad(h)
  BY WiredIs
<1>2. PICK f : /\ After(f, h, sources, m) /\ Concat(h, sources) = f[m]
               /\ \A i \in 0 .. m :
                    /\ Wired(f[i].heap) /\ NextQuad(f[i].heap) = top
                    /\ f[i].list \in 0 .. top
                    /\ f[i] = [heap |-> f[i].heap, list |-> f[i].list]
  <2>1. \A i \in 1 .. Len(sources) : sources[i] \in 0 .. NextQuad(h)
    OBVIOUS
  <2>2. PICK f : /\ After(f, h, sources, Len(sources))
                 /\ Concat(h, sources) = f[Len(sources)]
                 /\ \A i \in 0 .. Len(sources) :
                      /\ Wired(f[i].heap) /\ NextQuad(f[i].heap) = NextQuad(h)
                      /\ f[i].list \in 0 .. NextQuad(h)
                      /\ f[i] = [heap |-> f[i].heap, list |-> f[i].list]
    BY <2>1, ConcatGrows
  <2> QED
    BY <2>2, <1>1
<1>3. /\ f[0] = [heap |-> h, list |-> NULL]
      /\ \A i \in 1 .. m : f[i] = Joined(f[i - 1], sources[i])
  BY <1>2 DEF After
<1>4. PICK P : P = [i \in 1 .. m |-> NodesOf(h, sources[i])]
  OBVIOUS
<1> DEFINE U(i, j) == UNION {P[k] : k \in i .. j}
<1>5. /\ \A i \in 1 .. m : /\ P[i] = NodesOf(h, sources[i])
                           /\ sources[i] \in 0 .. top /\ ~ Endless(h, sources[i])
      /\ \A i, j \in 1 .. m : i # j => P[i] \cap P[j] = {}
  BY <1>1, <1>4
<1>6. \A i \in 1 .. m : P[i] \subseteq 1 .. top
  BY <1>1, <1>5, EndingIs
<1> DEFINE Good(i) ==
             LET g == f[i].heap
             IN  /\ ~ g.hung /\ ~ Endless(g, f[i].list)
                 /\ NodesOf(g, f[i].list) = U(1, i)
                 /\ \A n \in 1 .. top :
                      /\ Says(g.quad[n]) = Says(h.quad[n])
                      /\ n \notin U(1, i) => g.quad[n] = h.quad[n]
                 /\ \A j \in 1 .. i : \A x \in P[j] :
                      /\ ~ Endless(g, x)
                      /\ NodesOf(g, x) = NodesOf(h, x) \cup U(j + 1, i)
           good == {i \in Nat : i <= m => Good(i)}
<1>7. 0 \in good
  <2>1. f[0].heap = h /\ f[0].list = NULL /\ U(1, 0) = {}
    BY <1>3
  <2>2. ~ Endless(h, NULL) /\ NodesOf(h, NULL) = {}
    BY NoList
  <2> QED
    BY <2>1, <2>2
<1>8. ASSUME NEW i \in good PROVE i + 1 \in good
  <2>1. SUFFICES ASSUME i + 1 <= m PROVE Good(i + 1)
    OBVIOUS
  <2>2. PICK g, s : g = f[i].heap /\ s = sources[i + 1]
    OBVIOUS
  <2>3. /\ i \in Nat /\ i + 1 \in 1 .. m /\ i <= m /\ Good(i)
        /\ f[i + 1] = Joined(f[i], s)
        /\ Wired(g) /\ NextQuad(g) = top /\ f[i].list \in 0 .. top
        /\ s \in 0 .. top /\ ~ Endless(h, s) /\ P[i + 1] = NodesOf(h, s)
        /\ f[i] = [heap |-> g, list |-> f[i].list]
    <3>1. i \in Nat /\ (i <= m => Good(i))
      OBVIOUS
    <3> HIDE DEF Good, good
    <3>2. i + 1 \in 1 .. m /\ (i + 1) - 1 = i /\ i <= m /\ i \in 0 .. m
      BY <3>1, <2>1
    <3> QED
      BY <3>1, <3>2, <2>2, <1>2, <1>3, <1>5
  <2>4. U(1, i + 1) = U(1, i) \cup P[i + 1]
    <3>1. 1 .. i + 1 = 1 .. i \cup {i + 1}
      BY <2>3
    <3> QED
      BY <3>1
  <2>5. U(1, i) \cap P[i + 1] = {}
    <3>1. \A j \in 1 .. i : j \in 1 .. m /\ j # i + 1
      BY <2>3
    <3> QED
      BY <3>1, <2>3, <1>5
  <2>6. \A n \in P[i + 1] : g.quad[n] = h.quad[n]
    BY <2>2, <2>3, <2>5, <1>6
  \* What agrees with the first heap on the new list has the list.
  <2>7. ASSUME NEW k, Wired(k), NextQuad(k) = top,
               \A n \in P[i + 1] : k.quad[n] = h.quad[n],
               NEW x \in P[i + 1] \cup {s}
        PROVE  ~ Endless(k, x) /\ NodesOf(k, x) = NodesOf(h, x)
    <3>1. x \in 0 .. top /\ ~ Endless(h, x) /\ NodesOf(h, x) \subseteq P[i + 1]
      BY <2>3, <1>1, Inside
    <3> QED
      BY <3>1, <2>7, <1>1, Undisturbed
  <2>8. CASE f[i].list = NULL
    <3>1. f[i + 1] = [heap |-> g, list |-> s]
      BY <2>2, <2>3, <2>8 DEF Joined
    <3>2. U(1, i) = {}
      BY <2>2, <2>3, <2>8, NoList
    <3>3. ASSUME NEW x \in P[i + 1] \cup {s}
          PROVE  ~ Endless(g, x) /\ NodesOf(g, x) = NodesOf(h, x)
      BY <2>3, <2>6, <2>7
    <3>4. /\ ~ g.hung
          /\ \A n \in 1 .. top :
               /\ Says(g.quad[n]) = Says(h.quad[n])
               /\ n \notin U(1, i) => g.quad[n] = h.quad[n]
      BY <2>2, <2>3
    <3>5. ASSUME NEW j \in 1 .. i + 1, NEW x \in P[j]
          PROVE  /\ ~ Endless(g, x)
                 /\ NodesOf(g, x) = NodesOf(h, x) \cup U(j + 1, i + 1)
      <4>1. j = i + 1
        BY <3>2, <2>3
      <4>2. U(j + 1, i + 1) = {}
        BY <4>1, <2>3
      <4> QED
        BY <3>3, <4>1, <4>2
    <3>6. ~ Endless(g, s) /\ NodesOf(g, s) = U(1, i + 1)
      BY <2>3, <2>4, <3>2, <3>3
    <3> QED
      BY <3>1, <3>2, <3>4, <3>5, <3>6, <2>4
  <2>9. CASE f[i].list # NULL
    <3>1. PICK k : k = Link(g, f[i].list, s)
      OBVIOUS
    <3>2. f[i + 1] = [heap |-> k, list |-> f[i].list]
      BY <3>1, <2>2, <2>3, <2>9 DEF Joined
    <3>3. f[i].list \in 1 .. top /\ ~ g.hung /\ ~ Endless(g, f[i].list)
          /\ NodesOf(g, f[i].list) = U(1, i)
      BY <2>2, <2>3, <2>9 DEF NULL
    <3>4. ~ Endless(g, s) /\ NodesOf(g, s) = P[i + 1]
      BY <2>3, <2>6, <2>7
    <3>5. /\ Wired(k) /\ ~ k.hung /\ NextQuad(k) = top
          /\ \A n \in 1 .. top : Says(k.quad[n]) = Says(g.quad[n])
          /\ \A n \in 1 .. top : n # TailOf(g, f[i].list) => k.quad[n] = g.quad[n]
          /\ \A x \in U(1, i) : /\ ~ Endless(k, x)
                                /\ NodesOf(k, x) = NodesOf(g, x) \cup P[i + 1]
      <4>1. NodesOf(g, f[i].list) \cap NodesOf(g, s) = {}
        BY <2>5, <3>3, <3>4
      <4>2. Extended(g, f[i].list, s, k)
        <5> HIDE DEF U
        <5> QED
          BY <2>3, <3>1, <3>3, <3>4, <4>1, Linking
      <4> HIDE DEF U
      <4> QED
        BY <2>3, <3>3, <3>4, <4>2 DEF Extended
    <3>6. TailOf(g, f[i].list) \in U(1, i)
      <4> HIDE DEF U
      <4> QED
        BY <2>3, <2>9, <3>3, EndingIs
    <3>7. \A n \in P[i + 1] : k.quad[n] = h.quad[n]
      <4>1. \A n \in P[i + 1] : n \in 1 .. top /\ n # TailOf(g, f[i].list)
        BY <2>3, <2>5, <3>6, <1>6
      <4> QED
        BY <4>1, <3>5, <2>6
    <3>8. ASSUME NEW x \in P[i + 1] \cup {s}
          PROVE  ~ Endless(k, x) /\ NodesOf(k, x) = NodesOf(h, x)
      BY <3>5, <3>7, <2>7
    <3>9. ASSUME NEW n \in 1 .. top
          PROVE  /\ Says(k.quad[n]) = Says(h.quad[n])
                 /\ n \notin U(1, i + 1) => k.quad[n] = h.quad[n]
      <4>1. Says(g.quad[n]) = Says(h.quad[n])
            /\ (n \notin U(1, i) => g.quad[n] = h.quad[n])
        BY <2>2, <2>3
      <4> QED
        BY <4>1, <3>5, <3>6, <2>4
    <3>10. ASSUME NEW j \in 1 .. i + 1, NEW x \in P[j]
           PROVE  /\ ~ Endless(k, x)
                  /\ NodesOf(k, x) = NodesOf(h, x) \cup U(j + 1, i + 1)
      <4>1. CASE j = i + 1
        <5>1. U(j + 1, i + 1) = {}
          BY <4>1, <2>3
        <5> QED
          BY <3>8, <4>1, <5>1
      <4>2. CASE j # i + 1
        <5>1. j \in 1 .. i /\ j + 1 .. i + 1 = (j + 1 .. i) \cup {i + 1}
          <6>1. i \in Nat
            BY <2>3
          <6> QED
            BY <6>1, <4>2
        <5>2. U(j + 1, i + 1) = U(j + 1, i) \cup P[i + 1]
          BY <5>1
        <5>3. x \in U(1, i)
          BY <5>1
        <5>4. NodesOf(g, x) = NodesOf(h, x) \cup U(j + 1, i)
          BY <5>1, <2>2, <2>3
        <5> QED
          BY <5>2, <5>3, <5>4, <3>5
      <4> QED
        BY <4>1, <4>2
    <3>11. ~ Endless(k, f[i].list) /\ NodesOf(k, f[i].list) = U(1, i + 1)
      <4>1. f[i].list \in U(1, i)
        <5> HIDE DEF U
        <5> QED
          BY <2>3, <2>9, <3>3, EndingIs
      <4> QED
        BY <4>1, <3>3, <3>5, <2>4
    <3> QED
      BY <3>2, <3>5, <3>9, <3>10, <3>11
  <2> QED
    BY <2>8, <2>9
<1>9. Good(m)
  <2> HIDE DEF Good
  <2>1. good \subseteq Nat
    OBVIOUS
  <2> HIDE DEF good
  <2>2. good = Nat
    BY <1>7, <1>8, <2>1, Induction
  <2> QED
    BY <2>2 DEF good
<1>10. \A i, j \in Nat : j <= m /\ i >= 1 => NodesIn(h, sources, i .. j) = U(i, j)
  <2>1. SUFFICES ASSUME NEW i \in Nat, NEW j \in Nat, j <= m, i >= 1
                 PROVE  NodesIn(h, sources, i .. j) = U(i, j)
    OBVIOUS
  <2>2. \A k \in i .. j : P[k] = NodesOf(h, sources[k])
    BY <2>1, <1>5
  <2> QED
    BY <2>2 DEF NodesIn
<1>11. /\ NodesIn(h, sources, 1 .. m) = U(1, m)
       /\ \A i \in 1 .. m : NodesIn(h, sources, i + 1 .. m) = U(i + 1, m)
  BY <1>10
<1> HIDE DEF U
<1>12. Wired(f[m].heap) /\ NextQuad(f[m].heap) = top /\ f[m].list \in 0 .. top
  <2>1. m \in 0 .. m
    OBVIOUS
  <2> QED
    BY <2>1, <1>2
<1>13. PICK r, all : r = f[m] /\ all = U(1, m)
  OBVIOUS
<1>14. /\ ~ r.heap.hung /\ ~ Endless(r.heap, r.list)
       /\ NodesOf(r.heap, r.list) = all
       /\ \A n \in 1 .. top : /\ Says(r.heap.quad[n]) = Says(h.quad[n])
                              /\ n \notin all => r.heap.quad[n] = h.quad[n]
  BY <1>9, <1>13
<1>15. ASSUME NEW i \in 1 .. Len(sources), NEW x \in NodesOf(h, sources[i])
       PROVE  /\ ~ Endless(r.heap, x)
              /\ NodesOf(r.heap, x) =
                   NodesOf(h, x) \cup NodesIn(h, sources, i + 1 .. Len(sources))
  <2>1. i \in 1 .. m /\ x \in P[i]
    BY <1>1, <1>5
  <2>2. ~ Endless(r.heap, x) /\ NodesOf(r.heap, x) = NodesOf(h, x) \cup U(i + 1, m)
    BY <2>1, <1>9, <1>13
  <2> QED
    BY <2>1, <2>2, <1>1, <1>11
<1>16. r = Concat(h, sources) /\ all = NodesIn(h, sources, 1 .. Len(sources))
  BY <1>1, <1>2, <1>11, <1>13
<1>17. Wired(r.heap) /\ NextQuad(r.heap) = top /\ r.list \in 0 .. top
  BY <1>12, <1>13
<1> HIDE DEF Good, good
<1>18. /\ \A n \in 1 .. NextQuad(h) :
            /\ Says(r.heap.quad[n]) = Says(h.quad[n])
            /\ n \notin all => r.heap.quad[n] = h.quad[n]
       /\ \A i \in 1 .. Len(sources) : \A x \in NodesOf(h, sources[i]) :
            /\ ~ Endless(r.heap, x)
            /\ NodesOf(r.heap, x) =
                 NodesOf(h, x) \cup NodesIn(h, sources, i + 1 .. Len(sources))
  <2>1. \A n \in 1 .. NextQuad(h) :
          /\ Says(r.heap.quad[n]) = Says(h.quad[n])
          /\ n \notin all => r.heap.quad[n] = h.quad[n]
    BY <1>1, <1>14
  <2> QED
    BY <2>1, <1>15
<1>19. NextQuad(r.heap) = NextQuad(h) /\ r.list \in 0 .. NextQuad(h)
  BY <1>1, <1>17
<1> QED
  BY <1>14, <1>16, <1>17, <1>18, <1>19

\* Lists that end and share no node.
Separate(h, sources) ==
  /\ Wired(h) /\ ~ h.hung /\ Len(sources) \in Nat
  /\ \A i \in 1 .. Len(sources) :
       sources[i] \in 0 .. NextQuad(h) /\ ~ Endless(h, sources[i])
  /\ \A i, j \in 1 .. Len(sources) :
       i # j => NodesOf(h, sources[i]) \cap NodesOf(h, sources[j]) = {}

\* The nodes of the lists behind the k-th.
Rest(h, sources, k) == NodesIn(h, sources, k + 1 .. Len(sources))

\* From a node of one of the lists on, the result has the rest of that list and
\* all later ones.
LEMMA ConcatRest ==
  ASSUME NEW h, NEW sources, Separate(h, sources),
         NEW k \in 1 .. Len(sources), NEW x \in NodesOf(h, sources[k])
  PROVE  NodesOf(Concat(h, sources).heap, x) = NodesOf(h, x) \cup Rest(h, sources, k)
<1> DEFINE r == Concat(h, sources)
<1>1. PICK all : all = NodesIn(h, sources, 1 .. Len(sources))
  OBVIOUS
<1> HIDE DEF r
<1>2. \A i \in 1 .. Len(sources) : \A y \in NodesOf(h, sources[i]) :
        /\ ~ Endless(r.heap, y)
        /\ NodesOf(r.heap, y) =
             NodesOf(h, y) \cup NodesIn(h, sources, i + 1 .. Len(sources))
  BY <1>1, ConcatLists DEF r, Separate
<1>3. NodesOf(r.heap, x) = NodesOf(h, x) \cup NodesIn(h, sources, k + 1 .. Len(sources))
  BY <1>2
<1> QED
  BY <1>3 DEF r, Rest

\* The second of two lists is linked behind the first, which makes one list.
InARow(h, a, b, r) ==
  /\ Wired(r.heap) /\ ~ r.heap.hung
  /\ NextQuad(r.heap) = NextQuad(h) /\ r.list \in 0 .. NextQuad(h)
  /\ ~ Endless(r.heap, r.list)
  /\ NodesOf(r.heap, r.list) = NodesOf(h, a) \cup NodesOf(h, b)
  /\ \A n \in 1 .. NextQuad(h) :
       /\ Says(r.heap.quad[n]) = Says(h.quad[n])
       /\ n \notin NodesOf(h, a) \cup NodesOf(h, b) => r.heap.quad[n] = h.quad[n]
  /\ \A x \in NodesOf(h, a) :
       /\ ~ Endless(r.heap, x)
       /\ NodesOf(r.heap, x) = NodesOf(h, x) \cup NodesOf(h, b)
  /\ \A x \in NodesOf(h, b) :
       ~ Endless(r.heap, x) /\ NodesOf(r.heap, x) = NodesOf(h, x)

\* quad_list_concat() of two such lists.
LEMMA ConcatPair ==
  ASSUME NEW h, Wired(h), ~ h.hung,
         NEW a \in 0 .. NextQuad(h), NEW b \in 0 .. NextQuad(h),
         ~ Endless(h, a), ~ Endless(h, b), NodesOf(h, a) \cap NodesOf(h, b) = {}
  PROVE  InARow(h, a, b, Concat(h, <<a, b>>))
<1>1. PICK s : s = <<a, b>>
  OBVIOUS
<1>2. Len(s) = 2 /\ s[1] = a /\ s[2] = b
  BY <1>1
<1> DEFINE r == Concat(h, s)
<1>3. /\ \A i \in 1 .. Len(s) : s[i] \in 0 .. NextQuad(h) /\ ~ Endless(h, s[i])
      /\ \A i, j \in 1 .. Len(s) :
           i # j => NodesOf(h, s[i]) \cap NodesOf(h, s[j]) = {}
  <2>1. \A i \in 1 .. 2 : i = 1 \/ i = 2
    OBVIOUS
  <2> QED
    BY <2>1, <1>2
<1>4. PICK all : all = NodesIn(h, s, 1 .. Len(s))
  OBVIOUS
<1>5. /\ Wired(r.heap) /\ ~ r.heap.hung
      /\ NextQuad(r.heap) = NextQuad(h) /\ r.list \in 0 .. NextQuad(h)
      /\ ~ Endless(r.heap, r.list) /\ NodesOf(r.heap, r.list) = all
      /\ \A n \in 1 .. NextQuad(h) :
           /\ Says(r.heap.quad[n]) = Says(h.quad[n])
           /\ n \notin all => r.heap.quad[n] = h.quad[n]
      /\ \A i \in 1 .. Len(s) : \A x \in NodesOf(h, s[i]) :
           /\ ~ Endless(r.heap, x)
           /\ NodesOf(r.heap, x) = NodesOf(h, x) \cup NodesIn(h, s, i + 1 .. Len(s))
  <2>1. Len(s) \in Nat
    BY <1>2
  <2> HIDE DEF r
  <2>2. /\ Wired(r.heap) /\ ~ r.heap.hung
        /\ NextQuad(r.heap) = NextQuad(h) /\ r.list \in 0 .. NextQuad(h)
        /\ ~ Endless(r.heap, r.list) /\ NodesOf(r.heap, r.list) = all
    BY <2>1, <1>3, <1>4, ConcatLists DEF r
  <2>3. \A n \in 1 .. NextQuad(h) :
          /\ Says(r.heap.quad[n]) = Says(h.quad[n])
          /\ n \notin NodesIn(h, s, 1 .. Len(s)) => r.heap.quad[n] = h.quad[n]
    BY <2>1, <1>3, ConcatLists DEF r
  <2>4. \A i \in 1 .. Len(s) : \A x \in NodesOf(h, s[i]) :
          /\ ~ Endless(r.heap, x)
          /\ NodesOf(r.heap, x) = NodesOf(h, x) \cup NodesIn(h, s, i + 1 .. Len(s))
    BY <2>1, <1>3, <1>4, ConcatLists DEF r
  <2> QED
    BY <2>2, <2>3, <2>4, <1>4
<1> HIDE DEF r
<1>6. /\ NodesIn(h, s, 1 .. 2) = NodesOf(h, a) \cup NodesOf(h, b)
      /\ NodesIn(h, s, 2 .. 2) = NodesOf(h, b)
      /\ NodesIn(h, s, 3 .. 2) = {}
  <2>1. 1 .. 2 = {1, 2} /\ 2 .. 2 = {2} /\ 3 .. 2 = {}
    OBVIOUS
  <2> QED
    BY <2>1, <1>2 DEF NodesIn
<1>7. ASSUME NEW x \in NodesOf(h, a)
      PROVE  /\ ~ Endless(r.heap, x)
             /\ NodesOf(r.heap, x) = NodesOf(h, x) \cup NodesOf(h, b)
  <2>1. 1 \in 1 .. Len(s) /\ x \in NodesOf(h, s[1]) /\ 1 + 1 = 2 /\ Len(s) = 2
    BY <1>2
  <2> QED
    BY <2>1, <1>5, <1>6
<1>8. ASSUME NEW x \in NodesOf(h, b)
      PROVE  ~ Endless(r.heap, x) /\ NodesOf(r.heap, x) = NodesOf(h, x)
  <2>1. 2 \in 1 .. Len(s) /\ x \in NodesOf(h, s[2]) /\ 2 + 1 .. Len(s) = 3 .. 2
    BY <1>2
  <2>2. /\ ~ Endless(r.heap, x)
        /\ NodesOf(r.heap, x) = NodesOf(h, x) \cup NodesIn(h, s, 2 + 1 .. Len(s))
    BY <2>1, <1>5
  <2> QED
    BY <2>1, <2>2, <1>6
<1>9. all = NodesOf(h, a) \cup NodesOf(h, b)
  BY <1>2, <1>4, <1>6
<1>10. r = Concat(h, <<a, b>>)
  BY <1>1 DEF r
<1>11. InARow(h, a, b, r)
  BY <1>5, <1>7, <1>8, <1>9 DEF InARow
<1> QED
  BY <1>10, <1>11

\* Two lists of which one is empty are concatenated without a link.
LEMMA OneList ==
  ASSUME NEW h, Wired(h), ~ h.hung,
         NEW a \in 0 .. NextQuad(h), NEW b \in 0 .. NextQuad(h),
         ~ Endless(h, a), a = NULL \/ b = NULL
  PROVE  /\ Concat(h, <<a, b>>).heap = h
         /\ Concat(h, <<a, b>>).list = IF a = NULL THEN b ELSE a
<1>1. PICK s : s = <<a, b>>
  OBVIOUS
<1>2. Len(s) = 2 /\ s[1] = a /\ s[2] = b
  BY <1>1
<1>3. PICK f : After(f, h, s, 2) /\ Concat(h, s) = f[2]
  <2>1. Len(s) \in Nat
    BY <1>2
  <2>2. PICK f : After(f, h, s, Len(s)) /\ Concat(h, s) = f[Len(s)]
    BY <2>1, ConcatDefined
  <2> QED
    BY <2>2, <1>2
<1>4. /\ f[0] = [heap |-> h, list |-> NULL]
      /\ f[1] = Joined(f[0], a) /\ f[2] = Joined(f[1], b)
  <2>1. 1 \in 1 .. 2 /\ 2 \in 1 .. 2 /\ 1 - 1 = 0 /\ 2 - 1 = 1
    OBVIOUS
  <2> QED
    BY <2>1, <1>2, <1>3 DEF After
<1>5. f[1] = [heap |-> h, list |-> a]
  BY <1>4 DEF Joined
<1>6. CASE a = NULL
  <2>1. Joined([heap |-> h, list |-> a], b) = [heap |-> h, list |-> b]
    BY <1>6 DEF Joined
  <2>2. f[2] = [heap |-> h, list |-> b]
    BY <2>1, <1>4, <1>5
  <2> QED
    BY <2>2, <1>1, <1>3, <1>6
<1>7. CASE a # NULL
  <2>3. Joined([heap |-> h, list |-> a], b) = [heap |-> Link(h, a, NULL), list |-> a]
    BY <1>7 DEF Joined
  <2>1. f[2] = [heap |-> Link(h, a, NULL), list |-> a]
    BY <2>3, <1>4, <1>5
  <2>2. Link(h, a, NULL) = h
    <3>1. PICK t, g : t = TailOf(h, a) /\ g = Link(h, a, NULL)
      OBVIOUS
    <3>2. t \in 1 .. NextQuad(h) /\ h.quad[t].successor = NULL
      BY <3>1, <1>7, EndingIs
    <3>3. g = [h EXCEPT !.quad[t].successor = NULL]
      BY <3>1 DEF Link
    <3>4. /\ h = [quad |-> h.quad, hung |-> h.hung]
          /\ h.quad = [n \in 1 .. NextQuad(h) |-> h.quad[n]]
          /\ h.quad[t] = [op |-> h.quad[t].op, res |-> h.quad[t].res,
                          op1 |-> h.quad[t].op1, op2 |-> h.quad[t].op2,
                          successor |-> h.quad[t].successor]
      BY <3>2, WiredIs
    <3>5. [h.quad[t] EXCEPT !.successor = NULL] = h.quad[t]
      BY <3>2, <3>4
    <3>6. [h.quad EXCEPT ![t].successor = NULL] = h.quad
      BY <3>2, <3>4, <3>5
    <3>7. g.hung = h.hung /\ g.quad = [h.quad EXCEPT ![t].successor = NULL]
      BY <3>3, <3>4
    <3>8. g = [quad |-> g.quad, hung |-> g.hung]
      <4>1. a \in 1 .. NextQuad(h) /\ NULL \in 0 .. NextQuad(h)
        BY <1>7, WiredIs DEF NULL
      <4> QED
        BY <4>1, <3>1, LinkGrows, WiredIs
    <3>9. [quad |-> g.quad, hung |-> g.hung] = [quad |-> h.quad, hung |-> h.hung]
      BY <3>6, <3>7
    <3> QED
      BY <3>1, <3>4, <3>8, <3>9
  <2> QED
    BY <2>1, <2>2, <1>1, <1>3, <1>7
<1> QED
  BY <1>6, <1>7

-----------------------------------------------------------------------------
(***************************************************************************)
(* Lists that go round.                                                    *)
(***************************************************************************)

\* The loop over a list that goes round never ends.
LEMMA LoopsIsEndless ==
  ASSUME NEW h, Wired(h), NEW list, Loops(h, list)
  PROVE  Endless(h, list) /\ list \in 1 .. NextQuad(h) /\ list # NULL
<1>1. PICK m \in Nat : m = NextQuad(h)
  BY WiredIs
<1>2. PICK C \in SUBSET (1 .. m) :
        list \in C /\ \A n \in C : h.quad[n].successor \in C
  BY <1>1 DEF Loops
<1>3. PICK at : at = Walk(h, list)
  OBVIOUS
<1>4. /\ at[0] = list
      /\ \A k \in 1 .. m : at[k] = Onward(h, at[k - 1])
  BY <1>1, <1>3, WalkDefined
<1> DEFINE inside == {k \in Nat : k <= m => at[k] \in C}
<1>5. 0 \in inside
  BY <1>2, <1>4
<1>6. ASSUME NEW k \in inside PROVE k + 1 \in inside
  <2>1. SUFFICES ASSUME k + 1 <= m PROVE at[k + 1] \in C
    OBVIOUS
  <2>2. k + 1 \in 1 .. m /\ (k + 1) - 1 = k /\ k <= m
    BY <2>1
  <2>3. at[k] \in C /\ at[k] # NULL
    BY <2>2 DEF NULL
  <2>4. at[k + 1] = Onward(h, at[k])
    BY <2>2, <1>4
  <2> QED
    BY <2>3, <2>4, <1>2 DEF Onward
<1>7. at[m] \in C
  <2>1. inside \subseteq Nat
    OBVIOUS
  <2> HIDE DEF inside
  <2>2. inside = Nat
    BY <1>5, <1>6, <2>1, Induction
  <2> QED
    BY <2>2 DEF inside
<1>8. at[m] # NULL /\ list # NULL /\ list \in 1 .. m
  BY <1>2, <1>7 DEF NULL
<1> QED
  BY <1>1, <1>3, <1>8 DEF Endless

\* As long as no link is cut it goes round.
LEMMA LoopsOn ==
  ASSUME NEW h, Wired(h), NEW g, Wired(g), Grows(h, g), ~ g.hung,
         NEW list, Loops(h, list)
  PROVE  Loops(g, list)
<1>1. PICK m \in Nat, k \in Nat : m = NextQuad(h) /\ k = NextQuad(g)
  BY WiredIs
<1>2. m <= k
  BY <1>1 DEF Grows
<1>3. PICK C \in SUBSET (1 .. m) :
        list \in C /\ \A n \in C : h.quad[n].successor \in C
  BY <1>1 DEF Loops
<1>4. C \subseteq 1 .. k
  BY <1>2
<1>5. ASSUME NEW n \in C PROVE g.quad[n].successor \in C
  <2>1. h.quad[n].successor \in C /\ h.quad[n].successor # NULL
    BY <1>3 DEF NULL
  <2>2. g.quad[n].successor = h.quad[n].successor
    BY <2>1, <1>1 DEF Grows
  <2> QED
    BY <2>1, <2>2
<1> QED
  BY <1>1, <1>3, <1>4, <1>5 DEF Loops

\* A list that ends in front of one that goes round goes round too.
LEMMA LoopsBehind ==
  ASSUME NEW h, Wired(h), NEW list \in 1 .. NextQuad(h), NEW src,
         Loops(h, src), ~ Link(h, list, src).hung
  PROVE  Loops(Link(h, list, src), list)
<1>1. PICK m, g : m \in Nat /\ m = NextQuad(h) /\ g = Link(h, list, src)
  BY WiredIs
<1>2. PICK C \in SUBSET (1 .. m) :
        src \in C /\ \A n \in C : h.quad[n].successor \in C
  BY <1>1 DEF Loops
<1>3. src \in 0 .. NextQuad(h)
  <2>1. src \in 1 .. m
    BY <1>2
  <2> QED
    BY <2>1, <1>1
<1>4. /\ Wired(g) /\ NextQuad(g) = m /\ Grows(h, g)
      /\ ~ h.hung /\ ~ Endless(h, list)
      /\ g.quad[TailOf(h, list)].successor = src
  BY <1>1, <1>3, LinkGrows
<1>5. PICK D : D = NodesOf(h, list)
  OBVIOUS
<1>6. /\ D \subseteq 1 .. m /\ list \in D
      /\ \A n \in D : /\ h.quad[n].successor \in D \cup {NULL}
                      /\ h.quad[n].successor = NULL => n = TailOf(h, list)
  <2>1. list \in 0 .. NextQuad(h) /\ list # NULL
    BY <1>1 DEF NULL
  <2> QED
    BY <2>1, <1>1, <1>4, <1>5, EndingIs
<1>7. ASSUME NEW n \in C \cup D PROVE g.quad[n].successor \in C \cup D
  <2>1. h.quad[n].successor # NULL => g.quad[n].successor = h.quad[n].successor
    BY <1>1, <1>4, <1>6 DEF Grows
  <2>2. CASE n \in C
    <3>1. h.quad[n].successor \in C /\ h.quad[n].successor # NULL
      BY <2>2, <1>2 DEF NULL
    <3> QED
      BY <3>1, <2>1
  <2>3. CASE n \in D /\ h.quad[n].successor # NULL
    BY <2>1, <2>3, <1>6
  <2>4. CASE n \in D /\ h.quad[n].successor = NULL
    BY <2>4, <1>2, <1>4, <1>6
  <2> QED
    BY <2>2, <2>3, <2>4
<1>8. C \cup D \in SUBSET (1 .. NextQuad(g)) /\ list \in C \cup D
  BY <1>4, <1>6
<1> QED
  BY <1>1, <1>7, <1>8 DEF Loops

-----------------------------------------------------------------------------
(***************************************************************************)
(* The values on the stack.                                                *)
(***************************************************************************)

\* What the invariant of the types says of the heap and the values.
LEMMA ListsAre ==
  ASSUME IInv
  PROVE  /\ Wired(heap) /\ quad_list \in 0 .. NextQuad(heap) /\ Len(vals) \in Nat
         /\ vals \in Seq(Attribute(Symbols, NextQuad(heap)))
         /\ \A k \in 1 .. Len(vals) :
              /\ vals[k].code \in 0 .. NextQuad(heap)
              /\ vals[k].true_list \in 0 .. NextQuad(heap)
              /\ vals[k].false_list \in 0 .. NextQuad(heap)
<1>1. Wired(heap)
  <2>1. LabelsUpTo(symbol_table, NextQuad(heap)) \subseteq DOMAIN symbol_table
    BY DEF LabelsUpTo
  <2> QED
    BY <2>1 DEF IInv, WellMade, Wired
<1>2. PICK A : A = Attribute(Symbols, NextQuad(heap))
  OBVIOUS
<1>3. vals \in Seq(A) /\ quad_list \in 0 .. NextQuad(heap)
  BY <1>2 DEF IInv
<1>4. \A v \in A : /\ v.code \in 0 .. NextQuad(heap)
                   /\ v.true_list \in 0 .. NextQuad(heap)
                   /\ v.false_list \in 0 .. NextQuad(heap)
  BY <1>2 DEF Attribute
<1>5. Len(vals) \in Nat /\ \A k \in 1 .. Len(vals) : vals[k] \in A
  BY <1>3
<1> QED
  BY <1>1, <1>2, <1>3, <1>4, <1>5

\* A value is sound as long as its nodes are not touched.
LEMMA SoundStays ==
  ASSUME NEW h, Wired(h), NEW g, Wired(g), NextQuad(h) <= NextQuad(g),
         NEW v, v.code \in 0 .. NextQuad(h), NEW used, NEW more, used \subseteq more,
         NEW dang, NEW wider, dang \subseteq wider, Sound(h, v, used, dang),
         \A n \in NodesOf(h, v.code) : g.quad[n] = h.quad[n]
  PROVE  Sound(g, v, more, wider) /\ NodesOf(g, v.code) = NodesOf(h, v.code)
<1>1. PICK D : D = NodesOf(h, v.code)
  OBVIOUS
<1>2. /\ ~ Endless(h, v.code) /\ \A n \in D : g.quad[n] = h.quad[n]
      /\ v.true_list \in D \cup {NULL} /\ v.false_list \in D \cup {NULL}
  BY <1>1 DEF Sound, Exit
<1>3. ~ Endless(g, v.code) /\ NodesOf(g, v.code) = D
  BY <1>1, <1>2, Undisturbed
<1>4. ASSUME NEW l \in D \cup {NULL}
      PROVE  NodesOf(g, l) = NodesOf(h, l) /\ NodesOf(h, l) \subseteq D
  <2>1. CASE l = NULL
    BY <2>1, NoList
  <2>2. CASE l \in D
    <3>1. ~ Endless(h, l) /\ l \in 1 .. NextQuad(h) /\ NodesOf(h, l) \subseteq D
      BY <2>2, <1>1, <1>2, Inside
    <3>2. \A n \in NodesOf(h, l) : g.quad[n].successor = h.quad[n].successor
      BY <3>1, <1>2
    <3>3. l \in 0 .. NextQuad(h)
      BY <3>1, WiredIs
    <3> QED
      BY <3>1, <3>2, <3>3, Undisturbed
  <2> QED
    BY <2>1, <2>2
<1>5. /\ NodesOf(g, v.true_list) = NodesOf(h, v.true_list)
      /\ NodesOf(g, v.false_list) = NodesOf(h, v.false_list)
      /\ NodesOf(h, v.true_list) \cup NodesOf(h, v.false_list) \subseteq D
  BY <1>2, <1>4
<1>6. \A n \in D : Open(g, n) <=> Open(h, n)
  BY <1>2 DEF Open
<1>7. /\ Exit(g, v.true_list, v.code, v.yes)
      /\ Exit(g, v.false_list, v.code, v.no)
  BY <1>1, <1>3 DEF Sound, Exit
<1>8. Held(g, v) /\ Awaited(g, v, wider)
  BY <1>1, <1>3, <1>5, <1>6 DEF Sound, Held, Awaited
<1>9. more = {} =>
        \A n \in NodesOf(g, v.true_list) \cup NodesOf(g, v.false_list) :
          g.quad[n].op \in BranchOps => Open(g, n)
  <2>1. more = {} => used = {}
    OBVIOUS
  <2> QED
    BY <2>1, <1>2, <1>5, <1>6 DEF Sound
<1>10. OnlyBranches(g, v)
  <2>1. OnlyBranches(h, v)
    BY DEF Sound
  <2> QED
    BY <2>1, <1>1, <1>2, <1>3, <1>5 DEF OnlyBranches, AllBranches
<1> QED
  BY <1>1, <1>3, <1>7, <1>8, <1>9, <1>10 DEF Sound

\* No label of a branch is written over.
LabelsLeft(h, g) ==
  \A n \in 1 .. NextQuad(h) :
    h.quad[n].op \in BranchOps /\ h.quad[n].res # NoSymbol =>
      g.quad[n].res = h.quad[n].res

\* The nodes of the last n values.
TopNodes(n) == NodesIn(heap, [k \in DOMAIN vals |-> vals[k].code],
                       Len(vals) - n + 1 .. Len(vals))

\* The nodes the heap g has more than the present one.
Fresh(g) == NextQuad(heap) + 1 .. NextQuad(g)

\* What a quadruple reads, if it is not one that computes an operand.
Asks(q) ==
  IF q.op \in ArithmeticOps THEN {}
  ELSE {q.op1, q.op2} \cup (IF q.op \in PrintOps THEN {q.res} ELSE {})

Asked(g, x) == \E m \in Fresh(g) : x \in Asks(g.quad[m])

\* No quadruple changes but for the labels of branches.
SameOperands(h, g) ==
  \A m \in 1 .. NextQuad(h) :
    /\ g.quad[m].op = h.quad[m].op
    /\ g.quad[m].op1 = h.quad[m].op1 /\ g.quad[m].op2 = h.quad[m].op2
    /\ h.quad[m].op \notin BranchOps => g.quad[m].res = h.quad[m].res

IsExpression(k) == Takes(Head(work))[k] = "expr"

\* What becomes of the code of the values a reduction replaces: what is not the
\* code of an expression stays in the result, and that of an expression exactly
\* when a new quadruple reads it that is not itself an operand; new quadruples
\* stay, and one that computes an operand makes an expression.
Gathers(n, attr) ==
  /\ \A m \in Fresh(heap') :
       /\ m \in NodesOf(heap', attr.code)
       /\ heap'.quad[m].op \in ArithmeticOps => Kind(Head(work)) = "expr"
  /\ \A k \in 1 .. n :
       \/ /\ NodesOf(heap, Value(n, k).code) \subseteq NodesOf(heap', attr.code)
          /\ IsExpression(k) => Asked(heap', Value(n, k).symbol)
       \/ /\ NodesOf(heap, Value(n, k).code) \cap NodesOf(heap', attr.code) = {}
          /\ IsExpression(k) \/ NodesOf(heap, Value(n, k).code) = {}
  /\ \A x : Asked(heap', x) /\ x[1] = "tmp" =>
       \E k \in 1 .. n :
         /\ IsExpression(k) /\ x = Value(n, k).symbol
         /\ NodesOf(heap, Value(n, k).code) \subseteq NodesOf(heap', attr.code)

\* A reduction makes its value of the nodes of those it replaces and of new
\* ones, and leaves the others alone.
MadeOf(n, attr) ==
  /\ ~ heap'.hung
  /\ \A m \in 1 .. NextQuad(heap) :
       m \notin TopNodes(n) => heap'.quad[m] = heap.quad[m]
  /\ Sound(heap', attr, connectives', dangling')
  /\ NodesOf(heap', attr.code) \subseteq
       TopNodes(n) \cup (NextQuad(heap) + 1 .. NextQuad(heap'))
  /\ connectives' = {} => LabelsLeft(heap, heap')
  /\ SameOperands(heap, heap') /\ Gathers(n, attr)

\* No node is gone, and the program and the values below the last n have those
\* they had.
OthersKept(n) ==
  /\ NextQuad(heap) <= NextQuad(heap')
  /\ quad_list' = quad_list /\ NodesOf(heap', quad_list) = NodesOf(heap, quad_list)
  /\ \A k \in 1 .. Len(vals) - n :
       NodesOf(heap', vals[k].code) = NodesOf(heap, vals[k].code)

\* Such a reduction leaves lists that have no node in common.
LEMMA ApartStays ==
  ASSUME IInv, Apart(heap, vals, quad_list, connectives, dangling),
         NEW n \in Nat, n <= Len(vals), NEW attr, Return(n, attr),
         quad_list' = quad_list, Wired(heap'), NextQuad(heap) <= NextQuad(heap'),
         connectives \subseteq connectives',
         dangling \subseteq dangling', MadeOf(n, attr)
  PROVE  Apart(heap', vals', quad_list', connectives', dangling') /\ OthersKept(n)
<1>1. PICK top, topNew, l : /\ top = NextQuad(heap) /\ topNew = NextQuad(heap')
                            /\ l = Len(vals) - n
  OBVIOUS
<1>2. /\ top \in Nat /\ topNew \in Nat /\ top <= topNew /\ l \in Nat
      /\ l + n = Len(vals) /\ Wired(heap) /\ quad_list \in 0 .. top
      /\ \A k \in 1 .. Len(vals) : vals[k].code \in 0 .. top
  <2>1. /\ Wired(heap) /\ quad_list \in 0 .. top /\ Len(vals) \in Nat
        /\ \A k \in 1 .. Len(vals) : vals[k].code \in 0 .. top
    BY <1>1, ListsAre
  <2>2. top \in Nat
    BY <2>1, <1>1, WiredIs
  <2>3. topNew \in Nat
    BY <1>1, WiredIs
  <2>4. l \in Nat /\ l + n = Len(vals)
    BY <2>1, <1>1
  <2> QED
    BY <2>1, <2>2, <2>3, <2>4, <1>1
<1>3. PICK A : vals \in Seq(A)
  BY ListsAre
<1>4. /\ Len(vals') = l + 1 /\ vals'[l + 1] = attr
      /\ \A k \in 1 .. l : vals'[k] = vals[k] /\ k \in 1 .. Len(vals)
  <2>1. SubSeq(vals, 1, l) \in Seq(A) /\ Len(SubSeq(vals, 1, l)) = l
        /\ \A k \in 1 .. l : SubSeq(vals, 1, l)[k] = vals[k]
    BY <1>2, <1>3
  <2>2. vals' = Append(SubSeq(vals, 1, l), attr)
    BY <1>1 DEF Return, Below
  <2> QED
    BY <2>1, <2>2, <1>2
<1>5. PICK P : P = [k \in 1 .. Len(vals) |-> NodesOf(heap, vals[k].code)]
  OBVIOUS
<1>6. PICK T : T = TopNodes(n)
  OBVIOUS
<1>7. T = UNION {P[k] : k \in l + 1 .. Len(vals)}
  <2>1. DOMAIN vals = 1 .. Len(vals)
    BY <1>3
  <2>2. \A k \in l + 1 .. Len(vals) :
          P[k] = NodesOf(heap, [i \in DOMAIN vals |-> vals[i].code][k])
    BY <2>1, <1>2, <1>5
  <2>3. TopNodes(n) = NodesIn(heap, [i \in DOMAIN vals |-> vals[i].code],
                              l + 1 .. Len(vals))
    BY <1>1 DEF TopNodes
  <2> QED
    BY <2>2, <2>3, <1>6 DEF NodesIn
<1>8. /\ \A k \in 1 .. Len(vals) : /\ Sound(heap, vals[k], connectives, dangling)
                                   /\ P[k] \cap NodesOf(heap, quad_list) = {}
                                   /\ P[k] = NodesOf(heap, vals[k].code)
      /\ \A j, k \in 1 .. Len(vals) : j # k => P[j] \cap P[k] = {}
  BY <1>5 DEF Apart
<1>9. /\ ~ Endless(heap, quad_list) /\ NodesOf(heap, quad_list) \subseteq 1 .. top
      /\ \A k \in 1 .. Len(vals) : P[k] \subseteq 1 .. top
  <2>1. ~ Endless(heap, quad_list)
    BY DEF Apart
  <2>2. \A k \in 1 .. Len(vals) : /\ ~ Endless(heap, vals[k].code)
                                   /\ P[k] = NodesOf(heap, vals[k].code)
    BY <1>8 DEF Sound
  <2> QED
    BY <2>1, <2>2, <1>1, <1>2, EndingIs
<1>10. \A k \in 1 .. l : P[k] \cap T = {}
  BY <1>2, <1>7, <1>8
<1>11. NodesOf(heap, quad_list) \cap T = {}
  BY <1>2, <1>7, <1>8
<1>12. \A m \in 1 .. top : m \notin T => heap'.quad[m] = heap.quad[m]
  BY <1>1, <1>6 DEF MadeOf
<1>13. /\ ~ Endless(heap', quad_list)
       /\ NodesOf(heap', quad_list) = NodesOf(heap, quad_list)
  <2>1. \A m \in NodesOf(heap, quad_list) :
          heap'.quad[m].successor = heap.quad[m].successor
    BY <1>9, <1>11, <1>12
  <2>2. /\ quad_list \in 0 .. NextQuad(heap) /\ NextQuad(heap) <= NextQuad(heap')
        /\ Wired(heap) /\ ~ Endless(heap, quad_list)
    BY <1>1, <1>2, <1>9
  <2> QED
    BY <2>1, <2>2, Undisturbed
<1>14. ASSUME NEW k \in 1 .. l
       PROVE  /\ Sound(heap', vals'[k], connectives', dangling')
              /\ NodesOf(heap', vals'[k].code) = P[k]
  <2>1. k \in 1 .. Len(vals) /\ vals'[k] = vals[k]
    BY <1>4
  <2>2. PICK v : v = vals[k]
    OBVIOUS
  <2>3. /\ v.code \in 0 .. NextQuad(heap) /\ Sound(heap, v, connectives, dangling)
        /\ NodesOf(heap, v.code) = P[k]
    BY <2>1, <2>2, <1>1, <1>2, <1>8
  <2>4. \A m \in NodesOf(heap, v.code) : heap'.quad[m] = heap.quad[m]
    BY <2>1, <2>3, <1>9, <1>10, <1>12
  <2>5. /\ Sound(heap', v, connectives', dangling')
        /\ NodesOf(heap', v.code) = NodesOf(heap, v.code)
    <3>1. Wired(heap) /\ Wired(heap') /\ NextQuad(heap) <= NextQuad(heap')
      BY <1>1, <1>2
    <3> QED
      BY <3>1, <2>3, <2>4, SoundStays
  <2> QED
    BY <2>1, <2>2, <2>3, <2>5
<1>15. /\ Sound(heap', vals'[l + 1], connectives', dangling')
       /\ NodesOf(heap', vals'[l + 1].code) \subseteq T \cup (top + 1 .. topNew)
  BY <1>1, <1>4, <1>6 DEF MadeOf
<1>16. \A k \in 1 .. l : P[k] \cap NodesOf(heap', vals'[l + 1].code) = {}
  <2>1. \A k \in 1 .. l : P[k] \cap (top + 1 .. topNew) = {}
    BY <1>2, <1>4, <1>9
  <2> QED
    BY <2>1, <1>10, <1>15
<1>17. NodesOf(heap', quad_list) \cap NodesOf(heap', vals'[l + 1].code) = {}
  <2>1. NodesOf(heap', quad_list) \cap (top + 1 .. topNew) = {}
    BY <1>2, <1>9, <1>13
  <2> QED
    BY <2>1, <1>11, <1>13, <1>15
<1>18. \A m \in NodesOf(heap', quad_list) : Open(heap', m) => m \in dangling'
  <2>1. SUFFICES ASSUME NEW m \in NodesOf(heap, quad_list), Open(heap', m)
                 PROVE  m \in dangling'
    BY <1>13
  <2>2. /\ heap'.quad[m] = heap.quad[m]
        /\ Open(heap, m) => m \in dangling
    BY <2>1, <1>9, <1>11, <1>12 DEF Apart
  <2> QED
    BY <2>1, <2>2 DEF Open
<1>19. ASSUME NEW k \in 1 .. l + 1
       PROVE  /\ Sound(heap', vals'[k], connectives', dangling')
              /\ NodesOf(heap', vals'[k].code) \cap NodesOf(heap', quad_list) = {}
  <2>1. CASE k = l + 1
    BY <2>1, <1>15, <1>17
  <2>2. CASE k \in 1 .. l
    BY <2>2, <1>4, <1>8, <1>13, <1>14
  <2> QED
    BY <2>1, <2>2, <1>2
<1>20. ASSUME NEW j \in 1 .. l + 1, NEW k \in 1 .. l + 1, j # k
       PROVE  NodesOf(heap', vals'[j].code) \cap NodesOf(heap', vals'[k].code) = {}
  <2>1. CASE j \in 1 .. l /\ k \in 1 .. l
    BY <2>1, <1>4, <1>8, <1>14, <1>20
  <2>2. CASE j \in 1 .. l /\ k = l + 1
    BY <2>2, <1>14, <1>16
  <2>3. CASE j = l + 1 /\ k \in 1 .. l
    BY <2>3, <1>14, <1>16
  <2> QED
    BY <2>1, <2>2, <2>3, <1>2, <1>20
<1>21. Apart(heap', vals', quad_list', connectives', dangling')
  BY <1>4, <1>13, <1>18, <1>19, <1>20 DEF Apart
<1>22. OthersKept(n)
  <2>1. ASSUME NEW k \in 1 .. l PROVE NodesOf(heap', vals[k].code) = NodesOf(heap, vals[k].code)
    BY <1>4, <1>8, <1>14
  <2> QED
    BY <2>1, <1>1, <1>2, <1>13 DEF OthersKept
<1> QED
  BY <1>21, <1>22

\* A value that is not a condition's has no lists of branches.
LEMMA NoLists ==
  ASSUME IInv, NEW f, Reduce(f), NEW n \in Nat, n = Len(Takes(f)),
         NEW k \in 1 .. n, Takes(f)[k] # "cond"
  PROVE  /\ Value(n, k).true_list = NULL /\ Value(n, k).false_list = NULL
         /\ ~ Trap(heap, Value(n, k))
<1>1. PICK value, kind : value = Value(n, k) /\ kind = Takes(f)[k]
  OBVIOUS
<1>2. kind \in Kinds
  <2>1. Takes(f) \in Seq(Kinds)
    BY KindsAreKinds
  <2> QED
    BY <2>1, <1>1
<1>3. value \in ValuesOf(symbol_table, NextQuad(heap))[kind]
  BY <1>1, ValuesAre
<1>4. value.true_list = NULL /\ value.false_list = NULL
  BY <1>1, <1>2, <1>3 DEF ValuesOf
<1>5. ~ Loops(heap, NULL)
  BY ListsAre, LoopsIsEndless
<1> QED
  BY <1>1, <1>4, <1>5 DEF Trap

\* The values a reduction takes, as long as all lists are apart.
LEMMA TopIs ==
  ASSUME IInv, Apart(heap, vals, quad_list, connectives, dangling),
         NEW f, Reduce(f), NEW n \in Nat, n = Len(Takes(f))
  PROVE  /\ \A k \in 1 .. n :
              /\ Sound(heap, Value(n, k), connectives, dangling)
              /\ NodesOf(heap, Value(n, k).code) \subseteq TopNodes(n)
         /\ \A j, k \in 1 .. n : j # k =>
              NodesOf(heap, Value(n, j).code) \cap NodesOf(heap, Value(n, k).code) = {}
         /\ \A m \in TopNodes(n) : \E k \in 1 .. n : m \in NodesOf(heap, Value(n, k).code)
         /\ TopNodes(n) \subseteq 1 .. NextQuad(heap)
<1>1. PICK l : l = Len(vals) - n
  OBVIOUS
<1>2. /\ l \in Nat /\ l + n = Len(vals) /\ Len(vals) \in Nat
      /\ DOMAIN vals = 1 .. Len(vals)
  <2>1. Len(vals) \in Nat /\ DOMAIN vals = 1 .. Len(vals)
    BY ListsAre
  <2>2. n <= Len(vals)
    BY ValuesAre
  <2> QED
    BY <2>1, <2>2, <1>1
<1>3. ASSUME NEW k \in 1 .. n
      PROVE  Value(n, k) = vals[l + k] /\ l + k \in 1 .. Len(vals)
  BY <1>1, <1>2 DEF Value
<1>4. PICK P : P = [k \in 1 .. Len(vals) |-> NodesOf(heap, vals[k].code)]
  OBVIOUS
<1>5. TopNodes(n) = UNION {P[k] : k \in l + 1 .. Len(vals)}
  <2>1. \A k \in l + 1 .. Len(vals) :
          P[k] = NodesOf(heap, [i \in DOMAIN vals |-> vals[i].code][k])
    BY <1>2, <1>4
  <2>2. TopNodes(n) = NodesIn(heap, [i \in DOMAIN vals |-> vals[i].code],
                              l + 1 .. Len(vals))
    BY <1>1 DEF TopNodes
  <2> QED
    BY <2>1, <2>2 DEF NodesIn
<1>6. ASSUME NEW k \in 1 .. n
      PROVE  /\ Sound(heap, Value(n, k), connectives, dangling)
             /\ NodesOf(heap, Value(n, k).code) = P[l + k]
  BY <1>3, <1>4 DEF Apart
<1>7. ASSUME NEW j \in 1 .. n, NEW k \in 1 .. n, j # k
      PROVE  P[l + j] \cap P[l + k] = {}
  <2>1. l + j # l + k /\ l + j \in 1 .. Len(vals) /\ l + k \in 1 .. Len(vals)
    BY <1>2, <1>7
  <2> QED
    BY <2>1, <1>4 DEF Apart
<1>8. ASSUME NEW k \in 1 .. n PROVE P[l + k] \subseteq TopNodes(n)
  <2>1. l + k \in l + 1 .. Len(vals)
    BY <1>2
  <2> QED
    BY <2>1, <1>5
<1>9. ASSUME NEW m \in TopNodes(n)
      PROVE  \E k \in 1 .. n : m \in NodesOf(heap, Value(n, k).code)
  <2>1. PICK i \in l + 1 .. Len(vals) : m \in P[i]
    BY <1>5
  <2>2. i - l \in 1 .. n /\ l + (i - l) = i
    BY <1>2
  <2> QED
    BY <2>1, <2>2, <1>6
<1>10. ASSUME NEW m \in TopNodes(n) PROVE m \in 1 .. NextQuad(heap)
  <2>1. PICK i \in l + 1 .. Len(vals) : m \in P[i]
    BY <1>5
  <2>2. i \in 1 .. Len(vals) /\ P[i] = NodesOf(heap, vals[i].code)
    BY <1>2, <1>4
  <2>3. ~ Endless(heap, vals[i].code)
    BY <2>2 DEF Apart, Sound
  <2>4. Wired(heap) /\ vals[i].code \in 0 .. NextQuad(heap)
    BY <2>2, ListsAre
  <2>5. NodesOf(heap, vals[i].code) \subseteq 1 .. NextQuad(heap)
    BY <2>3, <2>4, EndingIs
  <2> QED
    BY <2>1, <2>2, <2>5
<1> QED
  BY <1>6, <1>7, <1>8, <1>9, <1>10

\* What a reduction that does not end a function makes of the values.
Traced ==
  /\ ~ merged' /\ status' = "parsing" /\ work' # work
  /\ Head(work) \notin DOMAIN Grammar /\ Head(work) # "FUNCTION"
  => \E n \in Nat : \E attr :
       /\ n = Len(Takes(Head(work))) /\ Reduce(Head(work)) /\ Return(n, attr)
       /\ MadeOf(n, attr) /\ OthersKept(n)

\* A step that keeps the invariant and, without OR, AND and NOT, the labels.
KeepsLists ==
  /\ ListsKept' /\ (connectives' = {} => LabelsLeft(heap, heap'))
  /\ merged => merged'
  /\ Traced

\* A reduction keeps the invariant if it makes its value of the values it
\* replaces and leaves a trap where it found one.
LEMMA ReduceLists ==
  ASSUME IInv, ListsKept, NEW f, Reduce(f), NEW n \in Nat, n = Len(Takes(f)),
         NEW attr, Return(n, attr), quad_list' = quad_list, status' = status,
         Wired(heap'), Grows(heap, heap'), connectives \subseteq connectives',
         dangling \subseteq dangling',
         merged => merged',
         merged' => "OR" \in connectives' \/ "AND" \in connectives',
         ~ merged' => MadeOf(n, attr),
         merged' /\ ~ merged => heap'.hung \/ Trap(heap', attr),
         \A k \in 1 .. n :
           merged /\ Trap(heap, Value(n, k)) => heap'.hung \/ Trap(heap', attr)
  PROVE  KeepsLists
<1>1. status = "parsing" /\ ~ heap.hung
  BY DEF Reduce, Parsing
<1>2. /\ n <= Len(vals) /\ Len(vals) \in Nat
      /\ Wired(heap) /\ NextQuad(heap) <= NextQuad(heap')
  BY ValuesAre, ListsAre DEF Grows
<1>3. ~ merged' => /\ ~ heap'.hung /\ OthersKept(n)
                   /\ Apart(heap', vals', quad_list', connectives', dangling')
  <2>1. SUFFICES ASSUME ~ merged'
                 PROVE  /\ ~ heap'.hung /\ OthersKept(n)
                        /\ Apart(heap', vals', quad_list', connectives', dangling')
    OBVIOUS
  <2>2. MadeOf(n, attr)
    BY <2>1
  <2>3. Apart(heap, vals, quad_list, connectives, dangling)
    BY <2>1 DEF ListsKept
  <2>4. ~ heap'.hung
    BY <2>2 DEF MadeOf
  <2> QED
    BY <2>2, <2>3, <2>4, <1>2, ApartStays
<1>4. PICK A, l : vals \in Seq(A) /\ l = Len(vals) - n
  BY ListsAre
<1>5. /\ Len(vals') = l + 1 /\ vals'[l + 1] = attr /\ l \in Nat
      /\ \A k \in 1 .. l : vals'[k] = vals[k]
  <2>1. SubSeq(vals, 1, l) \in Seq(A) /\ Len(SubSeq(vals, 1, l)) = l /\ l \in Nat
        /\ \A k \in 1 .. l : SubSeq(vals, 1, l)[k] = vals[k]
    BY <1>2, <1>4
  <2>2. vals' = Append(SubSeq(vals, 1, l), attr)
    BY <1>4 DEF Return, Below
  <2> QED
    BY <2>1, <2>2
<1>6. ASSUME merged', ~ heap'.hung
      PROVE  \E k \in 1 .. Len(vals') : Trap(heap', vals'[k])
  <2>1. CASE Trap(heap', attr)
    <3>1. l + 1 \in 1 .. Len(vals')
      BY <1>5
    <3> QED
      BY <2>1, <3>1, <1>5
  <2>2. CASE merged
    <3>1. PICK k \in 1 .. Len(vals) : Trap(heap, vals[k])
      BY <2>2, <1>1 DEF ListsKept
    <3>2. CASE k \in 1 .. l
      <4>1. Trap(heap', vals[k])
        BY <3>1, <1>2, <1>6, LoopsOn DEF Trap
      <4> QED
        BY <3>2, <4>1, <1>5
    <3>3. CASE k \notin 1 .. l
      <4>1. k - l \in 1 .. n /\ Value(n, k - l) = vals[k]
        BY <3>3, <1>2, <1>4, <1>5 DEF Value
      <4>2. Trap(heap', attr)
        BY <4>1, <3>1, <2>2, <1>6
      <4> QED
        BY <4>2, <2>1
    <3> QED
      BY <3>2, <3>3
  <2> QED
    BY <2>1, <2>2, <1>6
<1>7. connectives' = {} => LabelsLeft(heap, heap')
  <2>1. connectives' = {} => ~ merged'
    OBVIOUS
  <2> QED
    BY <2>1 DEF MadeOf
<1>8. Traced
  <2>1. Head(work) = f
    BY DEF Reduce
  <2> QED
    BY <2>1, <1>3 DEF Traced
<1>9. ListsKept'
  BY <1>1, <1>3, <1>6 DEF ListsKept
<1> QED
  BY <1>7, <1>8, <1>9 DEF KeepsLists

-----------------------------------------------------------------------------
(***************************************************************************)
(* Linking the codes of values.                                            *)
(***************************************************************************)

\* The operations that change the links all make the heap grow.
LEMMA ConcatStays ==
  ASSUME NEW h, Wired(h), NEW sources, Len(sources) \in Nat,
         \A i \in 1 .. Len(sources) : sources[i] \in 0 .. NextQuad(h)
  PROVE  LET r == Concat(h, sources)
         IN  /\ Wired(r.heap) /\ NextQuad(r.heap) = NextQuad(h) /\ Grows(h, r.heap)
             /\ r.list \in 0 .. NextQuad(h)
<1>1. PICK f : /\ After(f, h, sources, Len(sources))
               /\ Concat(h, sources) = f[Len(sources)]
               /\ \A i \in 0 .. Len(sources) :
                    /\ Wired(f[i].heap) /\ NextQuad(f[i].heap) = NextQuad(h)
                    /\ Grows(h, f[i].heap) /\ f[i].list \in 0 .. NextQuad(h)
  BY ConcatGrows
<1>2. Len(sources) \in 0 .. Len(sources)
  OBVIOUS
<1> QED
  BY <1>1, <1>2

\* A heap in which the codes of the last n values can be linked: nothing has
\* been linked yet, and no branch of theirs is without a label but dangling
\* ones.
Ready(g, n) ==
  /\ Wired(g) /\ ~ g.hung /\ NextQuad(heap) <= NextQuad(g)
  /\ \A m \in 1 .. NextQuad(heap) : g.quad[m].successor = heap.quad[m].successor
  /\ \A m \in 1 .. NextQuad(heap) :
       m \notin TopNodes(n) => g.quad[m] = heap.quad[m]
  /\ \A m \in NextQuad(heap) + 1 .. NextQuad(g) : g.quad[m].successor = NULL
  /\ \A m \in TopNodes(n) \cup (NextQuad(heap) + 1 .. NextQuad(g)) :
       Open(g, m) => m \in dangling
  /\ connectives = {} => LabelsLeft(heap, g)
  /\ SameOperands(heap, g)

\* Without a condition among the values the heap is ready as it is.
LEMMA ReadyHere ==
  ASSUME IInv, Apart(heap, vals, quad_list, connectives, dangling),
         NEW f, Reduce(f), NEW n \in Nat, n = Len(Takes(f)),
         \A k \in 1 .. n : Takes(f)[k] # "cond"
  PROVE  Ready(heap, n)
<1>1. Wired(heap) /\ ~ heap.hung
  BY ListsAre DEF Reduce, Parsing
<1>2. PICK m \in Nat : m = NextQuad(heap)
  BY <1>1, WiredIs
<1>3. NextQuad(heap) <= NextQuad(heap) /\ NextQuad(heap) + 1 .. NextQuad(heap) = {}
  BY <1>2
<1>4. ASSUME NEW i \in TopNodes(n), Open(heap, i) PROVE i \in dangling
  <2>1. PICK k \in 1 .. n : i \in NodesOf(heap, Value(n, k).code)
    BY TopIs
  <2>2. Sound(heap, Value(n, k), connectives, dangling)
    BY TopIs
  <2>3. Value(n, k).true_list = NULL /\ Value(n, k).false_list = NULL
    BY NoLists
  <2>4. Value(n, k).yes = {} /\ Value(n, k).no = {}
    BY <2>2, <2>3 DEF Sound, Exit
  <2> QED
    BY <2>1, <2>2, <2>4, <1>4 DEF Sound, Awaited
<1> QED
  BY <1>1, <1>3, <1>4 DEF Ready, LabelsLeft, SameOperands

\* It stays ready when a quadruple is made that is not a branch without label.
LEMMA ReadyMore ==
  ASSUME IInv, Apart(heap, vals, quad_list, connectives, dangling),
         NEW f, Reduce(f), NEW n \in Nat, n = Len(Takes(f)),
         NEW g, Ready(g, n), NEW op \in Ops, NEW res, NEW op1, NEW op2,
         op \in BranchOps => res # NoSymbol
  PROVE  /\ Ready(QuadNew(g, op, res, op1, op2), n)
         /\ NextQuad(QuadNew(g, op, res, op1, op2)) = NextQuad(g) + 1
<1>1. PICK made : made = QuadNew(g, op, res, op1, op2)
  OBVIOUS
<1>2. PICK m \in Nat, k \in Nat : m = NextQuad(heap) /\ k = NextQuad(g)
  BY ListsAre, WiredIs DEF Ready
<1>3. Wired(g) /\ ~ g.hung /\ m <= k
  BY <1>2 DEF Ready
<1>4. /\ Wired(made) /\ NextQuad(made) = k + 1 /\ ~ made.hung
      /\ \A i \in 1 .. k : made.quad[i] = g.quad[i]
  BY <1>1, <1>2, <1>3, QuadNewWires
<1>5. /\ made.quad[k + 1].op = op /\ made.quad[k + 1].res = res
      /\ made.quad[k + 1].successor = NULL
  <2>1. made.quad[k + 1] = [op |-> op, res |-> res, op1 |-> op1, op2 |-> op2,
                            successor |-> NULL]
    BY <1>1, <1>2, <1>3, QuadNewNode
  <2> QED
    BY <2>1
<1>6. ~ Open(made, k + 1)
  BY <1>5 DEF Open
<1>7. \A i \in 1 .. k : Open(made, i) <=> Open(g, i)
  BY <1>4 DEF Open
<1>8. TopNodes(n) \subseteq 1 .. k
  <2>1. TopNodes(n) \subseteq 1 .. m
    BY <1>2, TopIs
  <2> QED
    BY <2>1, <1>3
<1>9. \A i \in 1 .. m : i \in 1 .. k
  BY <1>3
<1>10. \A i \in m + 1 .. k + 1 : (i \in 1 .. k /\ i \in m + 1 .. k) \/ i = k + 1
  BY <1>3
<1>11. \A i \in m + 1 .. k + 1 : made.quad[i].successor = NULL
  BY <1>2, <1>4, <1>5, <1>10 DEF Ready
<1>12. \A i \in TopNodes(n) \cup (m + 1 .. k + 1) : Open(made, i) => i \in dangling
  BY <1>2, <1>6, <1>7, <1>8, <1>10 DEF Ready
<1>13. connectives = {} => LabelsLeft(heap, made)
  BY <1>2, <1>4, <1>9 DEF Ready, LabelsLeft
<1>14. /\ \A i \in 1 .. m : made.quad[i].successor = heap.quad[i].successor
       /\ \A i \in 1 .. m : i \notin TopNodes(n) => made.quad[i] = heap.quad[i]
  BY <1>2, <1>4, <1>9 DEF Ready
<1>15. m <= k + 1
  BY <1>3
<1>16. SameOperands(heap, made)
  BY <1>2, <1>4, <1>9 DEF Ready, SameOperands
<1> QED
  BY <1>1, <1>2, <1>4, <1>11, <1>12, <1>13, <1>14, <1>15, <1>16 DEF Ready

\* The lists of a sound value end inside its code.
LEMMA ListsInside ==
  ASSUME NEW h, Wired(h), NEW v, v.code \in 0 .. NextQuad(h), NEW used,
         NEW dang, Sound(h, v, used, dang), NEW l \in {v.true_list, v.false_list}
  PROVE  /\ l \in 0 .. NextQuad(h) /\ ~ Endless(h, l)
         /\ NodesOf(h, l) \subseteq NodesOf(h, v.code)
         /\ l # NULL => l \in NodesOf(h, v.code) /\ l \in NodesOf(h, l)
<1>1. ~ Endless(h, v.code) /\ l \in NodesOf(h, v.code) \cup {NULL}
  BY DEF Sound, Exit
<1>2. CASE l = NULL
  <2>1. NextQuad(h) \in Nat
    BY WiredIs
  <2> QED
    BY <1>2, <2>1, NoList DEF NULL
<1>3. CASE l \in NodesOf(h, v.code)
  <2>1. /\ ~ Endless(h, l) /\ l \in 1 .. NextQuad(h)
        /\ NodesOf(h, l) \subseteq NodesOf(h, v.code)
    BY <1>1, <1>3, Inside
  <2>2. l \in 0 .. NextQuad(h)
    BY <2>1, WiredIs
  <2>3. l # NULL => l \in NodesOf(h, l)
    BY <2>1, <2>2, EndingIs
  <2> QED
    BY <2>1, <2>2, <2>3, <1>3
<1> QED
  BY <1>1, <1>2, <1>3

\* Completing the lists of the only condition gives a label to every branch
\* that has none, and to no other.
LEMMA ReadySettled ==
  ASSUME IInv, Apart(heap, vals, quad_list, connectives, dangling),
         NEW f, Reduce(f), NEW n \in Nat, n = Len(Takes(f)), NEW c \in 1 .. n,
         \A k \in 1 .. n : Takes(f)[k] = "cond" => k = c,
         NEW true_tag, true_tag # NoSymbol, NEW false_tag, false_tag # NoSymbol
  PROVE  /\ Ready(Settle(heap, Value(n, c), true_tag, false_tag), n)
         /\ NextQuad(Settle(heap, Value(n, c), true_tag, false_tag)) = NextQuad(heap)
<1>1. PICK cond, tl, fl : /\ cond = Value(n, c)
                          /\ tl = cond.true_list /\ fl = cond.false_list
  OBVIOUS
<1>2. PICK first, g : /\ first = Complete(heap, tl, true_tag)
                      /\ g = Complete(first, fl, false_tag)
  OBVIOUS
<1>3. Wired(heap) /\ ~ heap.hung
  BY ListsAre DEF Reduce, Parsing
<1>4. PICK top \in Nat : top = NextQuad(heap)
  BY <1>3, WiredIs
<1>5. cond.code \in 0 .. NextQuad(heap) /\ Sound(heap, cond, connectives, dangling)
      /\ NodesOf(heap, cond.code) \subseteq TopNodes(n)
  BY <1>1, PartsAre, TopIs
<1>6. PICK T, F : T = NodesOf(heap, tl) /\ F = NodesOf(heap, fl)
  OBVIOUS
<1>7. /\ tl \in 0 .. NextQuad(heap) /\ ~ Endless(heap, tl)
      /\ T \subseteq TopNodes(n)
      /\ fl \in 0 .. NextQuad(heap) /\ ~ Endless(heap, fl) /\ F \subseteq TopNodes(n)
  BY <1>1, <1>3, <1>5, <1>6, ListsInside
<1>8. TopNodes(n) \subseteq 1 .. top
  BY <1>4, TopIs
<1>9. /\ Wired(first) /\ NextQuad(first) = top /\ ~ first.hung
      /\ \A m \in 1 .. top : /\ first.quad[m].successor = heap.quad[m].successor
                             /\ m \in T => first.quad[m].res = true_tag
                             /\ m \notin T => first.quad[m] = heap.quad[m]
  <2>1. /\ Wired(first) /\ NextQuad(first) = top
        /\ first.hung <=> heap.hung \/ Endless(heap, tl)
        /\ \A m \in 1 .. top :
             /\ first.quad[m].successor = heap.quad[m].successor
             /\ IF m \in NodesOf(heap, tl) /\ ~ first.hung
                  THEN first.quad[m].res = true_tag
                  ELSE first.quad[m] = heap.quad[m]
    BY <1>2, <1>3, <1>4, CompleteWires
  <2>2. ~ first.hung
    BY <2>1, <1>3, <1>7
  <2> QED
    BY <2>1, <2>2, <1>6
<1>10. ~ Endless(first, fl) /\ NodesOf(first, fl) = F
  <2>1. \A m \in NodesOf(heap, fl) : first.quad[m].successor = heap.quad[m].successor
    BY <1>6, <1>7, <1>8, <1>9
  <2>2. NextQuad(heap) <= NextQuad(first)
    BY <1>4, <1>9
  <2> QED
    BY <2>1, <2>2, <1>3, <1>6, <1>7, <1>9, Undisturbed
<1>11. /\ Wired(g) /\ NextQuad(g) = top /\ ~ g.hung
       /\ \A m \in 1 .. top : /\ g.quad[m].successor = first.quad[m].successor
                              /\ m \in F => g.quad[m].res = false_tag
                              /\ m \notin F => g.quad[m] = first.quad[m]
  <2>1. /\ Wired(g) /\ NextQuad(g) = top
        /\ g.hung <=> first.hung \/ Endless(first, fl)
        /\ \A m \in 1 .. top :
             /\ g.quad[m].successor = first.quad[m].successor
             /\ IF m \in NodesOf(first, fl) /\ ~ g.hung
                  THEN g.quad[m].res = false_tag
                  ELSE g.quad[m] = first.quad[m]
    BY <1>2, <1>9, CompleteWires
  <2>2. ~ g.hung
    BY <2>1, <1>9, <1>10
  <2> QED
    BY <2>1, <2>2, <1>10
<1>12. \A m \in 1 .. top :
         /\ g.quad[m].successor = heap.quad[m].successor
         /\ m \in T \cup F => g.quad[m].res \in {true_tag, false_tag}
         /\ m \notin T \cup F => g.quad[m] = heap.quad[m]
  BY <1>9, <1>11
<1>13. ASSUME NEW m \in TopNodes(n), Open(g, m) PROVE m \in dangling
  <2>1. CASE m \in T \cup F
    BY <2>1, <1>8, <1>12, <1>13 DEF Open
  <2>2. CASE m \notin T \cup F
    <3>1. PICK k \in 1 .. n : m \in NodesOf(heap, Value(n, k).code)
      BY TopIs
    <3>2. Sound(heap, Value(n, k), connectives, dangling)
      BY TopIs
    <3>3. m \in Value(n, k).yes \cup Value(n, k).no \cup dangling
      <4>1. Open(heap, m)
        BY <2>2, <1>8, <1>12, <1>13 DEF Open
      <4> QED
        BY <4>1, <3>1, <3>2 DEF Sound, Awaited
    <3>4. CASE k = c
      <4>1. cond.yes \subseteq T /\ cond.no \subseteq F
        BY <1>1, <1>5, <1>6 DEF Sound, Held
      <4> QED
        BY <4>1, <2>2, <3>3, <3>4, <1>1
    <3>5. CASE k # c
      <4>1. Takes(f)[k] # "cond"
        BY <3>5
      <4>2. Value(n, k).true_list = NULL /\ Value(n, k).false_list = NULL
        BY <4>1, NoLists
      <4>3. Value(n, k).yes = {} /\ Value(n, k).no = {}
        BY <4>2, <3>2 DEF Sound, Exit
      <4> QED
        BY <4>3, <3>3
    <3> QED
      BY <3>4, <3>5
  <2> QED
    BY <2>1, <2>2
<1>14. connectives = {} => LabelsLeft(heap, g)
  <2>1. SUFFICES ASSUME connectives = {}, NEW m \in 1 .. top, heap.quad[m].op \in BranchOps,
                        heap.quad[m].res # NoSymbol
                 PROVE  g.quad[m].res = heap.quad[m].res
    BY <1>4 DEF LabelsLeft
  <2>2. m \notin T \cup F
    BY <2>1, <1>1, <1>5, <1>6 DEF Sound, Open
  <2> QED
    BY <2>2, <1>12
<1>15. /\ \A m \in 1 .. top : m \notin TopNodes(n) => g.quad[m] = heap.quad[m]
       /\ top + 1 .. top = {} /\ top <= top
  BY <1>7, <1>12
<1>16. SameOperands(heap, g)
  <2>1. \A m \in 1 .. top : /\ first.quad[m].op = heap.quad[m].op
                            /\ first.quad[m].op1 = heap.quad[m].op1
                            /\ first.quad[m].op2 = heap.quad[m].op2
    BY <1>2, <1>3, <1>4, CompleteWires
  <2>2. \A m \in 1 .. top : /\ g.quad[m].op = first.quad[m].op
                            /\ g.quad[m].op1 = first.quad[m].op1
                            /\ g.quad[m].op2 = first.quad[m].op2
    BY <1>2, <1>9, CompleteWires
  <2>3. \A m \in T \cup F : heap.quad[m].op \in BranchOps
    BY <1>1, <1>5, <1>6 DEF Sound, OnlyBranches, AllBranches
  <2> QED
    BY <2>1, <2>2, <2>3, <1>4, <1>12 DEF SameOperands
<1>17. Ready(g, n)
  BY <1>4, <1>11, <1>12, <1>13, <1>14, <1>15, <1>16 DEF Ready
<1> QED
  BY <1>1, <1>2, <1>4, <1>11, <1>17 DEF Settle

\* A node that leads nowhere is a list of its own.
LEMMA Single ==
  ASSUME NEW h, Wired(h), NEW x \in 1 .. NextQuad(h), h.quad[x].successor = NULL
  PROVE  ~ Endless(h, x) /\ NodesOf(h, x) = {x} /\ TailOf(h, x) = x
<1>1. PICK p : p = <<x>>
  OBVIOUS
<1>2. Len(p) = 1 /\ p[1] = x /\ p \in Seq(1 .. NextQuad(h)) /\ Len(p) # 0
  BY <1>1
<1>3. IsPath(h, x, p)
  <2>1. \A i \in 1 .. Len(p) : i = 1
    BY <1>2
  <2> QED
    BY <2>1, <1>2 DEF IsPath
<1>4. /\ NodesOf(h, x) = {p[i] : i \in 1 .. Len(p)} /\ ~ Endless(h, x)
      /\ TailOf(h, x) = p[Len(p)]
  BY <1>2, <1>3, PathEnds
<1> QED
  BY <1>2, <1>4

\* What the codes of the values are in a heap that is ready.
LEMMA CodesReady ==
  ASSUME IInv, Apart(heap, vals, quad_list, connectives, dangling),
         NEW f, Reduce(f), NEW n \in Nat, n = Len(Takes(f)), NEW g, Ready(g, n),
         NEW k \in 1 .. n
  PROVE  /\ Value(n, k).code \in 0 .. NextQuad(heap)
         /\ Value(n, k).code \in 0 .. NextQuad(g)
         /\ ~ Endless(g, Value(n, k).code)
         /\ NodesOf(g, Value(n, k).code) = NodesOf(heap, Value(n, k).code)
         /\ NodesOf(heap, Value(n, k).code) \subseteq TopNodes(n)
         /\ NodesOf(heap, Value(n, k).code) \subseteq 1 .. NextQuad(heap)
<1>1. PICK code : code = Value(n, k).code
  OBVIOUS
<1>2. code \in 0 .. NextQuad(heap) /\ ~ Endless(heap, code)
      /\ NodesOf(heap, code) \subseteq TopNodes(n)
      /\ TopNodes(n) \subseteq 1 .. NextQuad(heap)
  BY <1>1, PartsAre, TopIs DEF Sound
<1>3. Wired(heap) /\ Wired(g) /\ NextQuad(heap) <= NextQuad(g)
  BY ListsAre DEF Ready
<1>4. NextQuad(heap) \in Nat /\ NextQuad(g) \in Nat
  BY <1>3, WiredIs
<1>5. \A m \in NodesOf(heap, code) : g.quad[m].successor = heap.quad[m].successor
  BY <1>2 DEF Ready
<1>6. ~ Endless(g, code) /\ NodesOf(g, code) = NodesOf(heap, code)
  BY <1>2, <1>3, <1>5, Undisturbed
<1>7. code \in 0 .. NextQuad(g)
  BY <1>2, <1>3, <1>4
<1> QED
  BY <1>1, <1>2, <1>6, <1>7

\* Where the lists to be linked come from: the code of a value, or a new node.
Origin(g, n, sources, o) ==
  /\ Len(sources) \in Nat
  /\ \A i \in 1 .. Len(sources) :
       \/ o[i] \in 1 .. n /\ sources[i] = Value(n, o[i]).code
       \/ /\ o[i] \in Nat /\ n < o[i]
          /\ NextQuad(heap) + (o[i] - n) <= NextQuad(g)
          /\ sources[i] = NextQuad(heap) + (o[i] - n)
  /\ \A i, j \in 1 .. Len(sources) : o[i] = o[j] => i = j

\* Linking such lists makes one list of them.
LEMMA LinkedIs ==
  ASSUME IInv, Apart(heap, vals, quad_list, connectives, dangling),
         NEW f, Reduce(f), NEW n \in Nat, n = Len(Takes(f)),
         NEW g, Wired(g), ~ g.hung, NextQuad(heap) <= NextQuad(g),
         \A k \in 1 .. n :
           /\ ~ Endless(g, Value(n, k).code)
           /\ NodesOf(g, Value(n, k).code) = NodesOf(heap, Value(n, k).code),
         \A m \in NextQuad(heap) + 1 .. NextQuad(g) : g.quad[m].successor = NULL,
         NEW sources, NEW o, Origin(g, n, sources, o)
  PROVE  /\ \A i \in 1 .. Len(sources) :
              /\ sources[i] \in 0 .. NextQuad(g) /\ ~ Endless(g, sources[i])
              /\ o[i] \in 1 .. n => NodesOf(g, sources[i]) = NodesOf(heap, Value(n, o[i]).code)
              /\ o[i] \notin 1 .. n =>
                   /\ NodesOf(g, sources[i]) = {sources[i]}
                   /\ sources[i] \in NextQuad(heap) + 1 .. NextQuad(g)
         /\ \A i, j \in 1 .. Len(sources) :
              i # j => NodesOf(g, sources[i]) \cap NodesOf(g, sources[j]) = {}
<1>1. PICK top, topNew : top = NextQuad(heap) /\ topNew = NextQuad(g)
  OBVIOUS
<1>2. top \in Nat /\ topNew \in Nat /\ top <= topNew /\ Wired(heap)
  BY <1>1, ListsAre, WiredIs
<1>3. ASSUME NEW i \in 1 .. Len(sources), o[i] \in 1 .. n
      PROVE  /\ sources[i] \in 0 .. topNew /\ ~ Endless(g, sources[i])
             /\ NodesOf(g, sources[i]) = NodesOf(heap, Value(n, o[i]).code)
             /\ NodesOf(g, sources[i]) \subseteq 1 .. top
  <2>1. sources[i] = Value(n, o[i]).code
    BY <1>3 DEF Origin
  <2>2. PICK k \in 1 .. n : k = o[i]
    BY <1>3
  <2>3. Value(n, k).code \in 0 .. top
    BY <1>1, PartsAre
  <2>4. /\ Sound(heap, Value(n, k), connectives, dangling)
        /\ NodesOf(heap, Value(n, k).code) \subseteq 1 .. top
    BY <1>1, TopIs
  <2> QED
    BY <2>1, <2>2, <2>3, <2>4, <1>2
<1>4. ASSUME NEW i \in 1 .. Len(sources), o[i] \notin 1 .. n
      PROVE  /\ sources[i] \in 0 .. topNew /\ ~ Endless(g, sources[i])
             /\ NodesOf(g, sources[i]) = {sources[i]}
             /\ sources[i] \in top + 1 .. topNew
             /\ o[i] \in Nat /\ sources[i] = top + (o[i] - n)
  <2>1. /\ o[i] \in Nat /\ n < o[i] /\ top + (o[i] - n) <= topNew
        /\ sources[i] = top + (o[i] - n)
    BY <1>1, <1>4 DEF Origin
  <2>2. /\ sources[i] \in top + 1 .. topNew /\ sources[i] \in 1 .. topNew
        /\ sources[i] \in 0 .. topNew
    BY <2>1, <1>2
  <2>3. g.quad[sources[i]].successor = NULL
    BY <2>2, <1>1
  <2>4. ~ Endless(g, sources[i]) /\ NodesOf(g, sources[i]) = {sources[i]}
    BY <2>2, <2>3, <1>1, Single
  <2> QED
    BY <2>1, <2>2, <2>4
<1>5. ASSUME NEW i \in 1 .. Len(sources), NEW j \in 1 .. Len(sources), i # j
      PROVE  NodesOf(g, sources[i]) \cap NodesOf(g, sources[j]) = {}
  <2>1. o[i] # o[j]
    BY <1>5 DEF Origin
  <2>2. CASE o[i] \in 1 .. n /\ o[j] \in 1 .. n
    <3>1. PICK k \in 1 .. n, l \in 1 .. n : k = o[i] /\ l = o[j]
      BY <2>2
    <3>2. NodesOf(heap, Value(n, k).code) \cap NodesOf(heap, Value(n, l).code) = {}
      BY <2>1, <3>1, TopIs
    <3> QED
      BY <3>1, <3>2, <1>3
  <2>3. CASE o[i] \in 1 .. n /\ o[j] \notin 1 .. n
    <3>1. (1 .. top) \cap {sources[j]} = {}
      BY <2>3, <1>2, <1>4
    <3> QED
      BY <2>3, <3>1, <1>3, <1>4
  <2>4. CASE o[i] \notin 1 .. n /\ o[j] \in 1 .. n
    <3>1. (1 .. top) \cap {sources[i]} = {}
      BY <2>4, <1>2, <1>4
    <3> QED
      BY <2>4, <3>1, <1>3, <1>4
  <2>5. CASE o[i] \notin 1 .. n /\ o[j] \notin 1 .. n
    <3>1. sources[i] # sources[j]
      BY <2>1, <2>5, <1>2, <1>4
    <3> QED
      BY <2>5, <3>1, <1>4
  <2> QED
    BY <2>2, <2>3, <2>4, <2>5
<1> QED
  BY <1>1, <1>3, <1>4, <1>5

\* What the lists that are linked have of the values and of the new nodes.
Covers(g, n, placed) ==
  /\ \A m \in Fresh(g) :
       /\ n + (m - NextQuad(heap)) \in placed
       /\ g.quad[m].op \in ArithmeticOps => Kind(Head(work)) = "expr"
  /\ \A k \in 1 .. n :
       IF k \in placed THEN IsExpression(k) => Asked(g, Value(n, k).symbol)
                       ELSE IsExpression(k) \/ Value(n, k).code = NULL
  /\ \A x : Asked(g, x) /\ x[1] = "tmp" =>
       \E k \in 1 .. n : k \in placed /\ IsExpression(k) /\ x = Value(n, k).symbol

PlacesOf(sources, o) == {o[i] : i \in 1 .. Len(sources)}

\* The quadruples of two heaps read the same.
LEMMA SaysAsks ==
  ASSUME NEW g, NEW h, NextQuad(h) = NextQuad(g),
         NextQuad(g) \in Nat, NextQuad(heap) \in Nat,
         \A m \in 1 .. NextQuad(g) : Says(h.quad[m]) = Says(g.quad[m])
  PROVE  /\ \A m \in 1 .. NextQuad(g) : h.quad[m].op = g.quad[m].op
         /\ \A x : Asked(h, x) <=> Asked(g, x)
<1>1. \A m \in Fresh(g) : m \in 1 .. NextQuad(g)
  BY DEF Fresh
<1>2. \A m \in 1 .. NextQuad(g) : /\ h.quad[m].op = g.quad[m].op
                                  /\ h.quad[m].res = g.quad[m].res
                                  /\ h.quad[m].op1 = g.quad[m].op1
                                  /\ h.quad[m].op2 = g.quad[m].op2
  BY DEF Says
<1>3. \A m \in Fresh(g) : Asks(h.quad[m]) = Asks(g.quad[m])
  BY <1>1, <1>2 DEF Asks
<1>4. Fresh(h) = Fresh(g)
  BY DEF Fresh
<1> QED
  BY <1>2, <1>3, <1>4 DEF Asked

\* Then the result has what it should of them.
LEMMA GathersIs ==
  ASSUME IInv, Apart(heap, vals, quad_list, connectives, dangling),
         NEW f, Reduce(f), NEW n \in Nat, n = Len(Takes(f)),
         NEW g, NextQuad(heap) \in Nat, NextQuad(g) \in Nat,
         NEW sources, NEW o, Origin(g, n, sources, o),
         \A i \in 1 .. Len(sources) :
           /\ o[i] \in 1 .. n => NodesOf(g, sources[i]) = NodesOf(heap, Value(n, o[i]).code)
           /\ o[i] \notin 1 .. n => NodesOf(g, sources[i]) = {sources[i]},
         NextQuad(heap') = NextQuad(g),
         \A m \in 1 .. NextQuad(g) : Says(heap'.quad[m]) = Says(g.quad[m]),
         NEW attr, NodesOf(heap', attr.code) = NodesIn(g, sources, 1 .. Len(sources)),
         NEW placed, placed = PlacesOf(sources, o), Covers(g, n, placed)
  PROVE  Gathers(n, attr)
<1>1. PICK top, result : top = NextQuad(heap) /\ result = NodesOf(heap', attr.code)
  OBVIOUS
<1>2. /\ \A m \in 1 .. NextQuad(g) : heap'.quad[m].op = g.quad[m].op
      /\ \A x : Asked(heap', x) <=> Asked(g, x)
      /\ Fresh(heap') = Fresh(g)
  BY SaysAsks DEF Fresh
<1>3. PICK N : N = [i \in 1 .. Len(sources) |-> NodesOf(g, sources[i])]
  OBVIOUS
<1>4. PICK P : P = [k \in 1 .. n |-> NodesOf(heap, Value(n, k).code)]
  OBVIOUS
<1>5. /\ result = UNION {N[i] : i \in 1 .. Len(sources)}
      /\ \A i \in 1 .. Len(sources) : /\ o[i] \in 1 .. n => N[i] = P[o[i]]
                                      /\ o[i] \notin 1 .. n => N[i] = {sources[i]}
  BY <1>1, <1>3, <1>4 DEF NodesIn
<1>6. /\ \A k \in 1 .. n : P[k] \subseteq 1 .. top
      /\ \A j, k \in 1 .. n : j # k => P[j] \cap P[k] = {}
  <2>1. /\ \A k \in 1 .. n : NodesOf(heap, Value(n, k).code) \subseteq TopNodes(n)
        /\ \A j, k \in 1 .. n : j # k =>
             NodesOf(heap, Value(n, j).code) \cap NodesOf(heap, Value(n, k).code) = {}
        /\ TopNodes(n) \subseteq 1 .. NextQuad(heap)
    BY TopIs
  <2> QED
    BY <2>1, <1>1, <1>4
<1>7. \A i \in 1 .. Len(sources) : o[i] \notin 1 .. n =>
        /\ o[i] \in Nat /\ n < o[i] /\ sources[i] = top + (o[i] - n)
  BY <1>1 DEF Origin
<1>8. ASSUME NEW m \in Fresh(g) PROVE m \in result
  <2>1. m \in Nat /\ top < m
    BY <1>1 DEF Fresh
  <2>2. PICK i \in 1 .. Len(sources) : o[i] = n + (m - top)
    BY <1>1 DEF Covers, PlacesOf
  <2>3. o[i] \notin 1 .. n
    BY <2>1, <2>2, <1>1
  <2>4. sources[i] = top + (o[i] - n)
    BY <2>3, <1>7
  <2>5. sources[i] = m
    BY <2>1, <2>2, <2>4, <1>1
  <2> QED
    BY <2>3, <2>5, <1>5
<1>9. ASSUME NEW k \in 1 .. n, k \in placed PROVE P[k] \subseteq result
  <2>1. PICK i \in 1 .. Len(sources) : o[i] = k
    BY <1>9 DEF PlacesOf
  <2> QED
    BY <2>1, <1>5
<1>10. ASSUME NEW k \in 1 .. n, k \notin placed PROVE P[k] \cap result = {}
  <2>1. SUFFICES ASSUME NEW m \in P[k], m \in result PROVE FALSE
    OBVIOUS
  <2>2. PICK i \in 1 .. Len(sources) : m \in N[i]
    BY <2>1, <1>5
  <2>3. o[i] # k
    BY <1>10 DEF PlacesOf
  <2>4. CASE o[i] \in 1 .. n
    BY <2>1, <2>2, <2>3, <2>4, <1>5, <1>6
  <2>5. CASE o[i] \notin 1 .. n
    <3>1. m = top + (o[i] - n) /\ o[i] \in Nat /\ n < o[i]
      BY <2>2, <2>5, <1>5, <1>7
    <3>2. m \in 1 .. top
      BY <2>1, <1>6
    <3> QED
      BY <3>1, <3>2, <1>1
  <2> QED
    BY <2>4, <2>5
<1>11. ASSUME NEW k \in 1 .. n
       PROVE  IF k \in placed THEN IsExpression(k) => Asked(g, Value(n, k).symbol)
                              ELSE IsExpression(k) \/ P[k] = {}
  <2>1. NodesOf(heap, NULL) = {}
    BY ListsAre, NoList
  <2> QED
    BY <2>1, <1>4 DEF Covers
<1>12. \A m \in Fresh(heap') :
         /\ m \in result
         /\ heap'.quad[m].op \in ArithmeticOps => Kind(Head(work)) = "expr"
  <2>1. \A m \in Fresh(g) : m \in 1 .. NextQuad(g)
    BY DEF Fresh
  <2>2. \A m \in Fresh(g) : g.quad[m].op \in ArithmeticOps => Kind(Head(work)) = "expr"
    BY DEF Covers
  <2> QED
    BY <2>1, <2>2, <1>2, <1>8
<1>13. ASSUME NEW k \in 1 .. n
       PROVE  \/ P[k] \subseteq result /\ (IsExpression(k) => Asked(heap', Value(n, k).symbol))
              \/ P[k] \cap result = {} /\ (IsExpression(k) \/ P[k] = {})
  BY <1>2, <1>9, <1>10, <1>11
<1>14. \A x : Asked(heap', x) /\ x[1] = "tmp" =>
         \E k \in 1 .. n : IsExpression(k) /\ x = Value(n, k).symbol /\ P[k] \subseteq result
  BY <1>2, <1>9 DEF Covers
<1> QED
  BY <1>1, <1>4, <1>12, <1>13, <1>14 DEF Gathers

\* Linking the lists of a heap that is ready makes a value of the values.
LEMMA ReadyLinked ==
  ASSUME IInv, Apart(heap, vals, quad_list, connectives, dangling),
         NEW f, Reduce(f), NEW n \in Nat, n = Len(Takes(f)), NEW g, Ready(g, n),
         NEW sources, NEW o, Origin(g, n, sources, o),
         NEW attr, attr.code = Concat(g, sources).list,
         attr.true_list = NULL, attr.false_list = NULL, attr.yes = {}, attr.no = {},
         heap' = Concat(g, sources).heap, connectives' = connectives,
         dangling' = dangling,
         Covers(g, n, PlacesOf(sources, o))
  PROVE  MadeOf(n, attr)
<1>1. PICK top, topNew : top = NextQuad(heap) /\ topNew = NextQuad(g)
  OBVIOUS
<1>2. Wired(g) /\ ~ g.hung /\ top <= topNew /\ Wired(heap) /\ Len(sources) \in Nat
  BY <1>1, ListsAre DEF Ready, Origin
<1>3. top \in Nat /\ topNew \in Nat
  BY <1>1, <1>2, WiredIs
<1>4. \A k \in 1 .. n : /\ ~ Endless(g, Value(n, k).code)
                        /\ NodesOf(g, Value(n, k).code) = NodesOf(heap, Value(n, k).code)
                        /\ NodesOf(heap, Value(n, k).code) \subseteq TopNodes(n)
  BY CodesReady
<1>5. /\ \A i \in 1 .. Len(sources) :
           /\ sources[i] \in 0 .. topNew /\ ~ Endless(g, sources[i])
           /\ o[i] \in 1 .. n => NodesOf(g, sources[i]) = NodesOf(heap, Value(n, o[i]).code)
           /\ o[i] \notin 1 .. n => /\ NodesOf(g, sources[i]) = {sources[i]}
                                    /\ sources[i] \in top + 1 .. topNew
      /\ \A i, j \in 1 .. Len(sources) :
           i # j => NodesOf(g, sources[i]) \cap NodesOf(g, sources[j]) = {}
  <2>1. \A m \in NextQuad(heap) + 1 .. NextQuad(g) : g.quad[m].successor = NULL
    BY DEF Ready
  <2>2. Wired(g) /\ ~ g.hung /\ NextQuad(heap) <= NextQuad(g)
    BY <1>1, <1>2
  <2>3. \A k \in 1 .. n : /\ ~ Endless(g, Value(n, k).code)
                          /\ NodesOf(g, Value(n, k).code) = NodesOf(heap, Value(n, k).code)
    BY <1>4
  <2>4. /\ \A i \in 1 .. Len(sources) :
             /\ sources[i] \in 0 .. NextQuad(g) /\ ~ Endless(g, sources[i])
             /\ o[i] \in 1 .. n => NodesOf(g, sources[i]) = NodesOf(heap, Value(n, o[i]).code)
             /\ o[i] \notin 1 .. n =>
                  /\ NodesOf(g, sources[i]) = {sources[i]}
                  /\ sources[i] \in NextQuad(heap) + 1 .. NextQuad(g)
        /\ \A i, j \in 1 .. Len(sources) :
             i # j => NodesOf(g, sources[i]) \cap NodesOf(g, sources[j]) = {}
    BY <2>1, <2>2, <2>3, LinkedIs
  <2> QED
    BY <2>4, <1>1
<1>6. PICK all : all = NodesIn(g, sources, 1 .. Len(sources))
  OBVIOUS
<1>7. all \subseteq TopNodes(n) \cup (top + 1 .. topNew)
  <2>1. ASSUME NEW i \in 1 .. Len(sources)
        PROVE  NodesOf(g, sources[i]) \subseteq TopNodes(n) \cup (top + 1 .. topNew)
    <3>1. CASE o[i] \in 1 .. n
      <4>1. NodesOf(heap, Value(n, o[i]).code) \subseteq TopNodes(n)
        BY <3>1, <1>4
      <4>2. NodesOf(g, sources[i]) = NodesOf(heap, Value(n, o[i]).code)
        BY <3>1, <1>5
      <4> QED
        BY <4>1, <4>2
    <3>2. CASE o[i] \notin 1 .. n
      <4>1. NodesOf(g, sources[i]) = {sources[i]} /\ sources[i] \in top + 1 .. topNew
        BY <3>2, <1>5
      <4> QED
        BY <4>1
    <3> QED
      BY <3>1, <3>2
  <2> QED
    BY <2>1, <1>6 DEF NodesIn
<1>8. /\ Wired(heap') /\ ~ heap'.hung /\ NextQuad(heap') = topNew
      /\ ~ Endless(heap', attr.code) /\ NodesOf(heap', attr.code) = all
      /\ \A m \in 1 .. topNew : /\ Says(heap'.quad[m]) = Says(g.quad[m])
                                /\ m \notin all => heap'.quad[m] = g.quad[m]
  <2> DEFINE r == Concat(g, sources)
  <2> HIDE DEF r
  <2>1. /\ Wired(r.heap) /\ ~ r.heap.hung /\ NextQuad(r.heap) = topNew
        /\ ~ Endless(r.heap, r.list) /\ NodesOf(r.heap, r.list) = all
        /\ \A m \in 1 .. topNew : /\ Says(r.heap.quad[m]) = Says(g.quad[m])
                                  /\ m \notin all => r.heap.quad[m] = g.quad[m]
    <3>1. /\ \A i \in 1 .. Len(sources) :
               sources[i] \in 0 .. NextQuad(g) /\ ~ Endless(g, sources[i])
          /\ \A i, j \in 1 .. Len(sources) :
               i # j => NodesOf(g, sources[i]) \cap NodesOf(g, sources[j]) = {}
      BY <1>1, <1>5
    <3>2. /\ Wired(r.heap) /\ ~ r.heap.hung /\ NextQuad(r.heap) = NextQuad(g)
          /\ ~ Endless(r.heap, r.list)
          /\ NodesOf(r.heap, r.list) = NodesIn(g, sources, 1 .. Len(sources))
          /\ \A m \in 1 .. NextQuad(g) :
               /\ Says(r.heap.quad[m]) = Says(g.quad[m])
               /\ m \notin NodesIn(g, sources, 1 .. Len(sources)) =>
                    r.heap.quad[m] = g.quad[m]
      BY <3>1, <1>2, ConcatLists DEF r
    <3> QED
      BY <3>2, <1>1, <1>6
  <2>2. heap' = r.heap /\ attr.code = r.list
    BY DEF r
  <2> QED
    BY <2>1, <2>2
<1>9. \A m \in 1 .. topNew : /\ Open(heap', m) <=> Open(g, m)
                             /\ heap'.quad[m].res = g.quad[m].res
  BY <1>8 DEF Says, Open
<1>10. TopNodes(n) \subseteq 1 .. top
  BY <1>1, TopIs
<1>11. \A m \in 1 .. top : m \notin TopNodes(n) => heap'.quad[m] = heap.quad[m]
  <2>1. SUFFICES ASSUME NEW m \in 1 .. top, m \notin TopNodes(n)
                 PROVE  heap'.quad[m] = heap.quad[m]
    OBVIOUS
  <2>2. m \notin all /\ m \in 1 .. topNew
    BY <2>1, <1>2, <1>3, <1>7
  <2> QED
    BY <2>1, <2>2, <1>1, <1>8 DEF Ready
<1>12. \A m \in all : Open(heap', m) => m \in dangling'
  <2>1. SUFFICES ASSUME NEW m \in all, Open(heap', m) PROVE m \in dangling
    OBVIOUS
  <2>2. m \in 1 .. topNew
    BY <1>2, <1>3, <1>7, <1>10
  <2>3. Open(g, m)
    BY <2>1, <2>2, <1>9
  <2> QED
    BY <2>3, <1>1, <1>7 DEF Ready
<1>13. Sound(heap', attr, connectives', dangling')
  <2>1. NodesOf(heap', NULL) = {}
    BY <1>8, NoList
  <2>2. Exit(heap', NULL, attr.code, {})
    BY DEF Exit
  <2>3. OnlyBranches(heap', attr)
    BY <2>1 DEF OnlyBranches, AllBranches
  <2>4. Held(heap', attr) /\ Awaited(heap', attr, dangling')
    BY <1>8, <1>12 DEF Held, Awaited
  <2> QED
    BY <2>1, <2>2, <2>3, <2>4, <1>8 DEF Sound
<1>14. connectives' = {} => LabelsLeft(heap, heap')
  <2>1. SUFFICES ASSUME connectives = {}, NEW m \in 1 .. top, heap.quad[m].op \in BranchOps,
                        heap.quad[m].res # NoSymbol
                 PROVE  heap'.quad[m].res = heap.quad[m].res
    BY <1>1 DEF LabelsLeft
  <2>2. m \in 1 .. topNew
    BY <1>2, <1>3
  <2> QED
    BY <2>1, <2>2, <1>1, <1>9 DEF Ready, LabelsLeft
<1>15. SameOperands(heap, heap')
  <2>1. SameOperands(heap, g)
    BY DEF Ready
  <2>2. \A m \in 1 .. top : /\ heap'.quad[m].op = g.quad[m].op
                            /\ heap'.quad[m].res = g.quad[m].res
                            /\ heap'.quad[m].op1 = g.quad[m].op1
                            /\ heap'.quad[m].op2 = g.quad[m].op2
    BY <1>2, <1>3, <1>8 DEF Says
  <2> QED
    BY <2>1, <2>2, <1>1 DEF SameOperands
<1>16. Gathers(n, attr)
  <2>1. PICK placed : placed = PlacesOf(sources, o)
    OBVIOUS
  <2>2. \A i \in 1 .. Len(sources) :
          /\ o[i] \in 1 .. n => NodesOf(g, sources[i]) = NodesOf(heap, Value(n, o[i]).code)
          /\ o[i] \notin 1 .. n => NodesOf(g, sources[i]) = {sources[i]}
    BY <1>5
  <2>3. /\ NextQuad(heap') = NextQuad(g) /\ NextQuad(g) \in Nat /\ NextQuad(heap) \in Nat
        /\ \A m \in 1 .. NextQuad(g) : Says(heap'.quad[m]) = Says(g.quad[m])
        /\ NodesOf(heap', attr.code) = NodesIn(g, sources, 1 .. Len(sources))
    BY <1>1, <1>3, <1>6, <1>8
  <2>4. Covers(g, n, placed)
    BY <2>1
  <2> QED
    BY <2>1, <2>2, <2>3, <2>4, GathersIs
<1> QED
  BY <1>1, <1>7, <1>8, <1>11, <1>13, <1>14, <1>15, <1>16 DEF MadeOf

-----------------------------------------------------------------------------
(***************************************************************************)
(* Reductions that leave code.                                             *)
(***************************************************************************)

\* One list or none need not be linked.
LEMMA FewLists ==
  ASSUME NEW h, NEW x
  PROVE  /\ Concat(h, <<x>>).heap = h /\ Concat(h, <<x>>).list = x
         /\ Concat(h, <<>>).heap = h /\ Concat(h, <<>>).list = NULL
<1>1. PICK s, e : s = <<x>> /\ e = <<>>
  OBVIOUS
<1>2. Len(s) = 1 /\ Len(s) \in Nat /\ s[1] = x /\ Len(e) = 0 /\ Len(e) \in Nat
  BY <1>1
<1>3. PICK f : After(f, h, s, Len(s)) /\ Concat(h, s) = f[Len(s)]
  BY <1>2, ConcatDefined
<1>4. f[0] = [heap |-> h, list |-> NULL] /\ f[1] = Joined(f[1 - 1], s[1])
  <2>1. 1 \in 1 .. Len(s)
    BY <1>2
  <2> QED
    BY <2>1, <1>3 DEF After
<1>5. f[1] = [heap |-> h, list |-> x]
  <2>1. 1 - 1 = 0
    OBVIOUS
  <2> QED
    BY <2>1, <1>2, <1>4 DEF Joined
<1>6. Concat(h, s).heap = h /\ Concat(h, s).list = x
  BY <1>2, <1>3, <1>5
<1>7. PICK d : After(d, h, e, Len(e)) /\ Concat(h, e) = d[Len(e)]
  BY <1>2, ConcatDefined
<1>8. d[0] = [heap |-> h, list |-> NULL]
  BY <1>7 DEF After
<1>9. Concat(h, e).heap = h /\ Concat(h, e).list = NULL
  BY <1>2, <1>7, <1>8
<1> QED
  BY <1>1, <1>6, <1>9

\* A reduction that links lists behind each other, in a heap made of the one
\* it found, and walks what goes round.
LEMMA CodeLists ==
  ASSUME IInv, ListsKept, NEW f, Reduce(f), NEW n \in Nat, n = Len(Takes(f)),
         NEW g, Wired(g), Grows(heap, g), ~ merged => Ready(g, n),
         NEW sources, NEW o, Origin(g, n, sources, o),
         ~ merged => Covers(g, n, PlacesOf(sources, o)),
         NEW attr, attr.code = Concat(g, sources).list,
         attr.true_list = NULL, attr.false_list = NULL, attr.yes = {}, attr.no = {},
         heap' = Concat(g, sources).heap, Return(n, attr),
         UNCHANGED <<quad_list, status, connectives, dangling, merged>>,
         \A k \in 1 .. n : Trap(heap, Value(n, k)) => g.hung
  PROVE  KeepsLists
<1>1. PICK top, topNew : top = NextQuad(heap) /\ topNew = NextQuad(g)
  OBVIOUS
<1>2. top \in Nat /\ topNew \in Nat /\ top <= topNew /\ Wired(heap)
  <2>1. Wired(heap) /\ top <= topNew
    BY <1>1, ListsAre DEF Grows
  <2> QED
    BY <2>1, <1>1, WiredIs
<1>3. ASSUME NEW i \in 1 .. Len(sources) PROVE sources[i] \in 0 .. NextQuad(g)
  <2>1. CASE o[i] \in 1 .. n /\ sources[i] = Value(n, o[i]).code
    <3>1. PICK k \in 1 .. n : k = o[i]
      BY <2>1
    <3>2. Value(n, k).code \in 0 .. top
      BY <1>1, PartsAre
    <3> QED
      BY <2>1, <3>1, <3>2, <1>1, <1>2
  <2>2. CASE /\ o[i] \in Nat /\ n < o[i]
             /\ NextQuad(heap) + (o[i] - n) <= NextQuad(g)
             /\ sources[i] = NextQuad(heap) + (o[i] - n)
    BY <2>2, <1>1, <1>2
  <2> QED
    BY <2>1, <2>2 DEF Origin
<1>4. Wired(heap') /\ Grows(g, heap')
  <2> DEFINE r == Concat(g, sources)
  <2> HIDE DEF r
  <2>1. Len(sources) \in Nat
    BY DEF Origin
  <2>2. Wired(r.heap) /\ Grows(g, r.heap)
    BY <2>1, <1>3, ConcatStays DEF r
  <2>3. heap' = r.heap
    BY DEF r
  <2> QED
    BY <2>2, <2>3
<1>5. Grows(heap, heap')
  BY <1>2, <1>4, GrowsOn
<1>6. ~ merged' => MadeOf(n, attr)
  <2>1. SUFFICES ASSUME ~ merged PROVE MadeOf(n, attr)
    OBVIOUS
  <2>2. /\ Apart(heap, vals, quad_list, connectives, dangling) /\ Ready(g, n)
        /\ Covers(g, n, PlacesOf(sources, o))
    BY <2>1 DEF ListsKept
  <2> QED
    BY <2>2, ReadyLinked
<1>7. \A k \in 1 .. n : Trap(heap, Value(n, k)) => heap'.hung
  BY <1>4 DEF Grows
<1>8. merged' => "OR" \in connectives' \/ "AND" \in connectives'
  BY DEF ListsKept
<1> QED
  BY <1>4, <1>5, <1>6, <1>7, <1>8, ReduceLists

\* One quadruple is new.
LEMMA OneFresh ==
  ASSUME Wired(heap), NEW op \in Ops, NEW res, NEW op1, NEW op2,
         NEW made, made = QuadNew(heap, op, res, op1, op2)
  PROVE  /\ Fresh(made) = {NextQuad(heap) + 1}
         /\ made.quad[NextQuad(heap) + 1].op = op
         /\ \A x : Asked(made, x) <=>
              /\ op \notin ArithmeticOps
              /\ x = op1 \/ x = op2 \/ (op \in PrintOps /\ x = res)
<1>1. PICK m : m = NextQuad(heap) + 1
  OBVIOUS
<1>2. NextQuad(heap) \in Nat /\ NextQuad(made) = m
  <2>1. NextQuad(heap) \in Nat
    BY WiredIs
  <2>2. NextQuad(made) = NextQuad(heap) + 1
    BY QuadNewWires
  <2> QED
    BY <2>1, <2>2, <1>1
<1>3. Fresh(made) = {m}
  BY <1>1, <1>2 DEF Fresh
<1>4. made.quad[m] = [op |-> op, res |-> res, op1 |-> op1, op2 |-> op2,
                      successor |-> NULL]
  BY <1>1, QuadNewNode
<1>5. /\ made.quad[m].op = op /\ made.quad[m].res = res
      /\ made.quad[m].op1 = op1 /\ made.quad[m].op2 = op2
  BY <1>4
<1> QED
  BY <1>1, <1>3, <1>5 DEF Asked, Asks

\* A reduction that leaves no code.
LEMMA NoCodeLists ==
  ASSUME IInv, ListsKept, NEW f, Reduce(f), NEW n \in Nat, n = Len(Takes(f)),
         \A k \in 1 .. n : Takes(f)[k] = "expr",
         NEW attr, attr.code = NULL,
         attr.true_list = NULL, attr.false_list = NULL, attr.yes = {}, attr.no = {},
         Return(n, attr), UNCHANGED <<heap, quad_list, status, connectives, dangling, merged>>
  PROVE  KeepsLists
<1>1. PICK none : none = <<>>
  OBVIOUS
<1>2. /\ Concat(heap, none).heap = heap /\ Concat(heap, none).list = NULL
      /\ Len(none) = 0 /\ Len(none) \in Nat
  BY <1>1, FewLists
<1>3. Wired(heap) /\ Grows(heap, heap)
  <2>1. Wired(heap) /\ NextQuad(heap) \in Nat
    BY ListsAre, WiredIs
  <2> QED
    BY <2>1 DEF Grows
<1>4. ~ merged => Ready(heap, n)
  <2>1. ~ merged => Apart(heap, vals, quad_list, connectives, dangling)
    BY DEF ListsKept
  <2> QED
    BY <2>1, ReadyHere
<1>5. Origin(heap, n, none, none)
  BY <1>2 DEF Origin
<1>6. \A k \in 1 .. n : Trap(heap, Value(n, k)) => heap.hung
  BY NoLists
<1>7. Covers(heap, n, PlacesOf(none, none))
  <2>1. Fresh(heap) = {} /\ PlacesOf(none, none) = {}
    <3>1. NextQuad(heap) \in Nat
      BY <1>3, WiredIs
    <3> QED
      BY <3>1, <1>2 DEF Fresh, PlacesOf
  <2>2. \A k \in 1 .. n : IsExpression(k)
    BY DEF IsExpression, Reduce
  <2> QED
    BY <2>1, <2>2 DEF Covers, Asked
<1> QED
  BY <1>2, <1>3, <1>4, <1>5, <1>6, <1>7, CodeLists

\* A reduction that makes one quadruple, no branch, and leaves it as code.
LEMMA OneNodeLists ==
  ASSUME IInv, ListsKept, NEW f, Reduce(f), NEW n \in Nat, n = Len(Takes(f)),
         \A k \in 1 .. n : Takes(f)[k] = "expr",
         NEW op \in Ops, op \notin BranchOps, NEW res, NEW op1, NEW op2,
         op \in ArithmeticOps => Kind(f) = "expr",
         op \in ArithmeticOps \/ (op \notin PrintOps /\ op1 = NoSymbol /\ op2 = NoSymbol),
         heap' = QuadNew(heap, op, res, op1, op2),
         NEW attr, attr.code = NextQuad(heap'),
         attr.true_list = NULL, attr.false_list = NULL, attr.yes = {}, attr.no = {},
         Return(n, attr), UNCHANGED <<quad_list, status, connectives, dangling, merged>>
  PROVE  KeepsLists
<1>1. PICK g : g = QuadNew(heap, op, res, op1, op2)
  OBVIOUS
<1>2. Wired(heap) /\ Wired(g) /\ Grows(heap, g) /\ NextQuad(g) = NextQuad(heap) + 1
  <2>1. Wired(heap)
    BY ListsAre
  <2>2. Wired(g) /\ NextQuad(g) = NextQuad(heap) + 1
    BY <2>1, <1>1, QuadNewWires
  <2>3. Grows(heap, g)
    BY <2>1, <1>1, QuadNewGrows
  <2> QED
    BY <2>1, <2>2, <2>3
<1>3. PICK one, o : one = <<NextQuad(g)>> /\ o = <<n + 1>>
  OBVIOUS
<1>4. /\ Concat(g, one).heap = g /\ Concat(g, one).list = NextQuad(g)
      /\ Len(one) = 1 /\ one[1] = NextQuad(g) /\ o[1] = n + 1
  BY <1>3, FewLists
<1>5. ~ merged => Ready(g, n)
  <2>1. ~ merged => Apart(heap, vals, quad_list, connectives, dangling)
    BY DEF ListsKept
  <2>2. ~ merged => Ready(heap, n)
    BY <2>1, ReadyHere
  <2> QED
    BY <2>1, <2>2, <1>1, ReadyMore
<1>6. Origin(g, n, one, o)
  <2>1. NextQuad(heap) \in Nat
    BY <1>2, WiredIs
  <2>2. \A i \in 1 .. Len(one) : i = 1
    BY <1>4
  <2>3. /\ o[1] \in Nat /\ n < o[1] /\ NextQuad(heap) + (o[1] - n) <= NextQuad(g)
        /\ one[1] = NextQuad(heap) + (o[1] - n)
    BY <2>1, <1>2, <1>4
  <2>4. Len(one) \in Nat
    BY <1>4
  <2> QED
    BY <2>2, <2>3, <2>4 DEF Origin
<1>7. \A k \in 1 .. n : Trap(heap, Value(n, k)) => g.hung
  BY NoLists
<1>8. heap' = Concat(g, one).heap /\ attr.code = Concat(g, one).list
  BY <1>1, <1>4
<1>9. Covers(g, n, PlacesOf(one, o))
  <2>1. PlacesOf(one, o) = {n + 1}
    <3>1. 1 .. 1 = {1}
      OBVIOUS
    <3> QED
      BY <3>1, <1>4 DEF PlacesOf
  <2>2. /\ Fresh(g) = {NextQuad(heap) + 1}
        /\ \A x : Asked(g, x) => x = NoSymbol
    BY <1>1, <1>2, OneFresh
  <2>3. \A k \in 1 .. n : IsExpression(k) /\ k \notin {n + 1}
    BY DEF IsExpression, Reduce
  <2>5. NoSymbol[1] # "tmp"
    BY DEF NoSymbol
  <2>6. PICK placed, new : placed = PlacesOf(one, o) /\ new = NextQuad(heap) + 1
    OBVIOUS
  <2>4. NextQuad(heap) \in Nat
    BY <1>2, WiredIs
  <2>7. placed = {n + 1} /\ Fresh(g) = {new} /\ n + (new - NextQuad(heap)) = n + 1
    BY <2>1, <2>2, <2>4, <2>6
  <2>10. \A k \in 1 .. n : IsExpression(k) /\ k \notin placed
    BY <2>1, <2>3, <2>6
  <2>8. \A m \in Fresh(g) : n + (m - NextQuad(heap)) \in placed
    BY <2>7
  <2>9. \A x : Asked(g, x) => x[1] # "tmp"
    BY <2>2, <2>5
  <2>11. \A m \in Fresh(g) : g.quad[m].op \in ArithmeticOps => Kind(Head(work)) = "expr"
    <3>1. \A m \in Fresh(g) : g.quad[m].op = op
      BY <1>1, <1>2, OneFresh
    <3>2. Head(work) = f
      BY DEF Reduce
    <3> QED
      BY <3>1, <3>2
  <2> QED
    BY <2>6, <2>8, <2>9, <2>10, <2>11 DEF Covers
<1> QED
  BY <1>2, <1>5, <1>6, <1>7, <1>8, <1>9, CodeLists

\* A quadruple that is not an operand and reads one symbol.
ReadsOnly(op, res, op1, op2, s) ==
  /\ op \notin ArithmeticOps
  /\ \/ op \notin PrintOps /\ op1 = s /\ op2 = NoSymbol
     \/ op \in PrintOps /\ res = s /\ op1 = NoSymbol /\ op2 = NoSymbol

\* A reduction that links a new quadruple, no branch, behind a value's code.
LEMMA BehindLists ==
  ASSUME IInv, ListsKept, NEW f, Reduce(f), NEW n \in Nat, n = Len(Takes(f)),
         \A k \in 1 .. n : Takes(f)[k] = "expr", NEW c \in 1 .. n,
         NEW op \in Ops, op \notin BranchOps, NEW res, NEW op1, NEW op2,
         ReadsOnly(op, res, op1, op2, Value(n, c).symbol),
         NEW made, made = QuadNew(heap, op, res, op1, op2),
         heap' = Concat(made, <<Value(n, c).code, NextQuad(made)>>).heap,
         NEW attr, attr.code = Concat(made, <<Value(n, c).code, NextQuad(made)>>).list,
         attr.true_list = NULL, attr.false_list = NULL, attr.yes = {}, attr.no = {},
         Return(n, attr), UNCHANGED <<quad_list, status, connectives, dangling, merged>>
  PROVE  KeepsLists
<1>1. /\ Wired(heap) /\ Wired(made) /\ Grows(heap, made)
      /\ NextQuad(made) = NextQuad(heap) + 1
  <2>1. Wired(heap)
    BY ListsAre
  <2>2. Wired(made) /\ NextQuad(made) = NextQuad(heap) + 1
    BY <2>1, QuadNewWires
  <2>3. Grows(heap, made)
    BY <2>1, QuadNewGrows
  <2> QED
    BY <2>1, <2>2, <2>3
<1>2. PICK codes, o : codes = <<Value(n, c).code, NextQuad(made)>> /\ o = <<c, n + 1>>
  OBVIOUS
<1>3. /\ Len(codes) = 2 /\ codes[1] = Value(n, c).code /\ codes[2] = NextQuad(made)
      /\ o[1] = c /\ o[2] = n + 1
  BY <1>2
<1>4. ~ merged => Ready(made, n)
  <2>1. ~ merged => Apart(heap, vals, quad_list, connectives, dangling)
    BY DEF ListsKept
  <2>2. ~ merged => Ready(heap, n)
    BY <2>1, ReadyHere
  <2> QED
    BY <2>1, <2>2, ReadyMore
<1>5. Origin(made, n, codes, o)
  <2>1. NextQuad(heap) \in Nat
    BY <1>1, WiredIs
  <2>2. \A i \in 1 .. Len(codes) : i = 1 \/ i = 2
    BY <1>3
  <2>3. /\ o[2] \in Nat /\ n < o[2] /\ NextQuad(heap) + (o[2] - n) <= NextQuad(made)
        /\ codes[2] = NextQuad(heap) + (o[2] - n) /\ o[1] # o[2]
    BY <2>1, <1>1, <1>3
  <2>4. Len(codes) \in Nat /\ o[1] \in 1 .. n /\ codes[1] = Value(n, o[1]).code
    BY <1>3
  <2> QED
    BY <2>2, <2>3, <2>4 DEF Origin
<1>6. \A k \in 1 .. n : Trap(heap, Value(n, k)) => made.hung
  BY NoLists
<1>7. heap' = Concat(made, codes).heap /\ attr.code = Concat(made, codes).list
  BY <1>2
<1>8. Covers(made, n, PlacesOf(codes, o))
  <2>1. PICK s : s = Value(n, c).symbol
    OBVIOUS
  <2>2. PlacesOf(codes, o) = {c, n + 1}
    <3>1. 1 .. 2 = {1, 2}
      OBVIOUS
    <3> QED
      BY <3>1, <1>3 DEF PlacesOf
  <2>3. /\ Fresh(made) = {NextQuad(heap) + 1}
        /\ \A x : Asked(made, x) <=>
             /\ op \notin ArithmeticOps
             /\ x = op1 \/ x = op2 \/ (op \in PrintOps /\ x = res)
    BY <1>1, OneFresh
  <2>4. Asked(made, s) /\ \A x : Asked(made, x) => x = s \/ x = NoSymbol
    BY <2>1, <2>3 DEF ReadsOnly
  <2>5. \A k \in 1 .. n : IsExpression(k) /\ k # n + 1
    BY DEF IsExpression, Reduce
  <2>7. NoSymbol[1] # "tmp"
    BY DEF NoSymbol
  <2>8. PICK placed, new : placed = PlacesOf(codes, o) /\ new = NextQuad(heap) + 1
    OBVIOUS
  <2>9. /\ placed = {c, n + 1} /\ Fresh(made) = {new} /\ n + (new - NextQuad(heap)) = n + 1
    <3>1. placed = {c, n + 1}
      BY <2>2, <2>8
    <3>2. Fresh(made) = {new}
      BY <2>3, <2>8
    <3>3. n + (new - NextQuad(heap)) = n + 1
      <4>1. NextQuad(heap) \in Nat
        BY <1>1, WiredIs
      <4> QED
        BY <4>1, <2>8
    <3> QED
      BY <3>1, <3>2, <3>3
  <2>10. \A m \in Fresh(made) : n + (m - NextQuad(heap)) \in placed
    BY <2>9
  <2>11. \A k \in 1 .. n : k \in placed => k = c
    BY <2>5, <2>9
  <2>12. ASSUME NEW k \in 1 .. n, k \in placed PROVE Asked(made, Value(n, k).symbol)
    <3>1. k = c
      BY <2>11, <2>12
    <3> QED
      BY <3>1, <2>1, <2>4
  <2>13. \A k \in 1 .. n : IsExpression(k)
    BY <2>5
  <2>14. \A x : Asked(made, x) /\ x[1] = "tmp" => x = s
    BY <2>4, <2>7
  <2>15. c \in placed /\ c \in 1 .. n
    BY <2>9
  <2>16. \A m \in Fresh(made) : made.quad[m].op \notin ArithmeticOps
    <3>1. \A m \in Fresh(made) : made.quad[m].op = op
      BY <1>1, OneFresh
    <3> QED
      BY <3>1 DEF ReadsOnly
  <2> QED
    BY <2>1, <2>8, <2>10, <2>12, <2>13, <2>14, <2>15, <2>16 DEF Covers
<1> QED
  BY <1>1, <1>4, <1>5, <1>6, <1>7, <1>8, CodeLists

\* A reduction that fails leaves the lists as they are.
LEMMA AbortLists ==
  ASSUME ListsKept, Abort, Parsing PROVE KeepsLists
<1>1. /\ vals' = vals /\ heap' = heap /\ quad_list' = quad_list
      /\ connectives' = connectives /\ dangling' = dangling /\ merged' = merged
      /\ status' = "aborted"
  BY DEF Abort, program, meaning
<1>2. Traced
  BY <1>1 DEF Traced
<1> QED
  BY <1>1, <1>2 DEF ListsKept, KeepsLists, LabelsLeft

\* The attributes of all but conditions have no lists of branches.
Bare(attr) == /\ attr.true_list = NULL /\ attr.false_list = NULL
              /\ attr.yes = {} /\ attr.no = {}

LEMMA AttrsAre ==
  ASSUME NEW list, NEW s
  PROVE  /\ Bare(Attr) /\ Attr.code = NULL
         /\ Bare(Symbol(s)) /\ Symbol(s).code = NULL
         /\ Bare(Code(list)) /\ Code(list).code = list
         /\ Bare(Expr(list, s)) /\ Expr(list, s).code = list
<1>1. Bare(Attr) /\ Attr.code = NULL
  BY DEF Bare, Attr
<1>2. Bare(Symbol(s)) /\ Symbol(s).code = NULL
  BY DEF Bare, Symbol, Attr
<1>3. Bare(Code(list)) /\ Code(list).code = list
  BY DEF Bare, Code, Attr
<1>4. Bare(Expr(list, s)) /\ Expr(list, s).code = list
  BY DEF Bare, Expr, Attr
<1> QED
  BY <1>1, <1>2, <1>3, <1>4

\* A semantic function without values that leaves no code.
LEMMA NothingLists ==
  ASSUME IInv, ListsKept, NEW f, Reduce(f), Takes(f) = <<>>,
         NEW attr, attr = Attr \/ \E s : attr = Symbol(s), Return(0, attr),
         UNCHANGED <<heap, quad_list, status, connectives, dangling, merged>>
  PROVE  KeepsLists
<1>1. /\ attr.code = NULL /\ attr.true_list = NULL /\ attr.false_list = NULL
      /\ attr.yes = {} /\ attr.no = {}
  <2>1. CASE attr = Attr
    BY <2>1, AttrsAre DEF Bare
  <2>2. ASSUME NEW s, attr = Symbol(s)
        PROVE  Bare(attr) /\ attr.code = NULL
    BY <2>2, AttrsAre
  <2> QED
    BY <2>1, <2>2 DEF Bare
<1>2. 0 = Len(Takes(f)) /\ 0 \in Nat /\ \A k \in 1 .. 0 : Takes(f)[k] = "expr"
  OBVIOUS
<1> QED
  BY <1>1, <1>2, NoCodeLists

\* Literals, tags and names leave no code.
LEMMA DeclareConstantLists ==
  ASSUME IInv, ListsKept, DeclareConstant
  PROVE  KeepsLists
<1>1. /\ Reduce("CONSTANT") /\ Return(0, Symbol(NewConst))
      /\ Takes("CONSTANT") = <<>>
      /\ UNCHANGED <<heap, quad_list, status, connectives, dangling, merged>>
  BY NothingTaken DEF DeclareConstant, meaning
<1> QED
  BY <1>1, NothingLists

\* A tag is a symbol alone.
LEMMA MakeTagLists ==
  ASSUME IInv, ListsKept, NEW f \in DOMAIN Late, MakeTag(f, Late[f])
  PROVE  KeepsLists
<1>1. /\ Reduce(f) /\ Return(0, Symbol(NewConst)) /\ Takes(f) = <<>>
      /\ UNCHANGED <<heap, quad_list, status, connectives, dangling, merged>>
  BY NothingTaken DEF MakeTag, meaning, Late
<1> QED
  BY <1>1, NothingLists

\* So is a variable; without a declaration the text is refused.
LEMMA LookupLists == ASSUME IInv, ListsKept, Lookup PROVE KeepsLists
<1>1. PICK name \in Names :
        IF Declared(User(name))
          THEN /\ Return(0, Symbol(User(name)))
               /\ UNCHANGED <<program, status, meaning>>
          ELSE Abort
  BY DEF Lookup
<1>2. Reduce("LOOKUP") /\ Parsing /\ Takes("LOOKUP") = <<>>
  BY NothingTaken DEF Lookup, Reduce
<1>3. CASE ~ Declared(User(name))
  BY <1>1, <1>2, <1>3, AbortLists
<1>4. CASE Declared(User(name))
  <2>1. /\ Return(0, Symbol(User(name)))
        /\ UNCHANGED <<heap, quad_list, status, connectives, dangling, merged>>
    BY <1>1, <1>4 DEF program, meaning
  <2> QED
    BY <2>1, <1>2, NothingLists
<1> QED
  BY <1>3, <1>4

\* An operation leaves its quadruple as its code.
LEMMA ComputeLists ==
  ASSUME IInv, ListsKept, NEW f, Reduce(f), NEW n \in Nat, n = Len(Takes(f)),
         \A k \in 1 .. n : Takes(f)[k] = "expr", Kind(f) = "expr", NEW op \in ArithmeticOps,
         NEW type, NEW op1, NEW op2, Compute(n, op, type, op1, op2)
  PROVE  KeepsLists
<1>1. PICK attr : attr = Expr(NextQuad(heap'), NewTemp)
  OBVIOUS
<1>2. /\ heap' = QuadNew(heap, op, NewTemp, op1, op2) /\ Return(n, attr)
      /\ UNCHANGED <<quad_list, status, connectives, dangling, merged>>
  BY <1>1 DEF Compute, meaning
<1>3. op \in Ops /\ op \notin BranchOps
  BY DEF Ops, ArithmeticOps, BranchOps
<1>4. /\ attr.code = NextQuad(heap') /\ attr.true_list = NULL
      /\ attr.false_list = NULL /\ attr.yes = {} /\ attr.no = {}
  BY <1>1, AttrsAre DEF Bare
<1> QED
  BY <1>2, <1>3, <1>4, OneNodeLists

\* The temporary of a sign is computed by a new quadruple; the code of its operand
\* is dropped.
LEMMA UnaryArithmeticOpLists ==
  ASSUME IInv, ListsKept, UnaryArithmeticOp PROVE KeepsLists
<1>1. PICK expr : expr = Value(1, 1)
  OBVIOUS
<1>2. /\ Reduce("UNARY")
      /\ Compute(1, "NEG", TypeOf(expr.symbol), expr.symbol, NoSymbol)
  BY <1>1 DEF UnaryArithmeticOp
<1>3. Takes("UNARY") = <<"expr">> /\ "NEG" \in ArithmeticOps
  BY Taken DEF ArithmeticOps
<1>4. 1 \in Nat /\ 1 = Len(Takes("UNARY")) /\ \A k \in 1 .. 1 : Takes("UNARY")[k] = "expr"
  BY <1>3
<1> QED
  BY <1>2, <1>3, <1>4, ComputeLists, KindsOf

\* So is that of a calculation, unless its operands have different types.
LEMMA BinaryArithmeticOpLists ==
  ASSUME IInv, ListsKept, BinaryArithmeticOp PROVE KeepsLists
<1>1. PICK expr1, expr2 : expr1 = Value(2, 1) /\ expr2 = Value(2, 2)
  OBVIOUS
<1>2. /\ Reduce("BINARY") /\ Parsing
      /\ IF TypeOf(expr1.symbol) = TypeOf(expr2.symbol)
           THEN \E op \in BinaryOps :
                  Compute(2, op, TypeOf(expr1.symbol), expr1.symbol,
                          expr2.symbol)
           ELSE Abort
  BY <1>1 DEF BinaryArithmeticOp, Reduce
<1>3. Takes("BINARY") = <<"expr", "expr">>
  BY Taken
<1>4. 2 \in Nat /\ 2 = Len(Takes("BINARY")) /\ \A k \in 1 .. 2 : Takes("BINARY")[k] = "expr"
  BY <1>3
<1>5. CASE TypeOf(expr1.symbol) = TypeOf(expr2.symbol)
  <2>1. PICK op \in BinaryOps :
          Compute(2, op, TypeOf(expr1.symbol), expr1.symbol, expr2.symbol)
    BY <1>2, <1>5
  <2>2. op \in ArithmeticOps
    BY FrontendAssumption
  <2> QED
    BY <2>1, <2>2, <1>2, <1>4, ComputeLists, KindsOf
<1>6. CASE TypeOf(expr1.symbol) # TypeOf(expr2.symbol)
  BY <1>2, <1>6, AbortLists
<1> QED
  BY <1>5, <1>6

\* An assignment links its quadruple behind the code of its source.
LEMMA AssignLists ==
  ASSUME IInv, ListsKept, NEW f, Reduce(f), NEW n \in Nat, n = Len(Takes(f)),
         \A k \in 1 .. n : Takes(f)[k] = "expr", NEW c \in 1 .. n,
         NEW table, NEW dest, Assign(n, table, dest, Value(n, c))
  PROVE  KeepsLists
<1>1. PICK src : src = Value(n, c)
  OBVIOUS
<1>2. PICK made : made = QuadNew(heap, "MOVE", dest, src.symbol, NoSymbol)
  OBVIOUS
<1>3. PICK attr : attr = Expr(Concat(made, <<src.code, NextQuad(made)>>).list, dest)
  OBVIOUS
<1>4. /\ heap' = Concat(made, <<Value(n, c).code, NextQuad(made)>>).heap
      /\ Return(n, attr) /\ UNCHANGED <<quad_list, status, connectives, dangling, merged>>
  BY <1>1, <1>2, <1>3 DEF Assign, meaning
<1>5. /\ attr.code = Concat(made, <<Value(n, c).code, NextQuad(made)>>).list
      /\ attr.true_list = NULL /\ attr.false_list = NULL
      /\ attr.yes = {} /\ attr.no = {}
  BY <1>1, <1>3, AttrsAre DEF Bare
<1>6. "MOVE" \in Ops /\ "MOVE" \notin BranchOps
  BY DEF Ops, BranchOps
<1>7. ReadsOnly("MOVE", dest, src.symbol, NoSymbol, Value(n, c).symbol)
  BY <1>1 DEF ReadsOnly, ArithmeticOps, PrintOps
<1> QED
  BY <1>2, <1>4, <1>5, <1>6, <1>7, BehindLists

\* An assignment links a MOVE behind the code of its source.
LEMMA AssignationLists == ASSUME IInv, ListsKept, Assignation PROVE KeepsLists
<1>1. PICK dest : dest = Value(2, 1).symbol
  OBVIOUS
<1>2. Reduce("ASSIGN") /\ Assign(2, symbol_table, dest, Value(2, 2))
  BY <1>1 DEF Assignation
<1>3. Takes("ASSIGN") = <<"expr", "expr">>
  BY Taken
<1>4. /\ 2 \in Nat /\ 2 = Len(Takes("ASSIGN")) /\ 2 \in 1 .. 2
      /\ \A k \in 1 .. 2 : Takes("ASSIGN")[k] = "expr"
  BY <1>3
<1> QED
  BY <1>2, <1>4, AssignLists

\* So does a declaration with a value, of a name that is not declared yet.
LEMMA DeclareAndAssignLists ==
  ASSUME IInv, ListsKept, DeclareAndAssign
  PROVE  KeepsLists
<1>1. PICK name \in Names, type \in {"INT", "FLOAT"} :
        IF Declared(User(name)) THEN Abort
        ELSE Assign(1, Pushed(User(name), type, 0), User(name), Value(1, 1))
  BY DEF DeclareAndAssign
<1>2. Reduce("DECLARE_ASSIGN") /\ Parsing
  BY DEF DeclareAndAssign, Reduce
<1>3. Takes("DECLARE_ASSIGN") = <<"expr">>
  BY Taken
<1>4. /\ 1 \in Nat /\ 1 = Len(Takes("DECLARE_ASSIGN")) /\ 1 \in 1 .. 1
      /\ \A k \in 1 .. 1 : Takes("DECLARE_ASSIGN")[k] = "expr"
  BY <1>3
<1>5. CASE Declared(User(name))
  BY <1>1, <1>2, <1>5, AbortLists
<1>6. CASE ~ Declared(User(name))
  <2>1. PICK table, dest : /\ table = Pushed(User(name), type, 0)
                           /\ dest = User(name)
    OBVIOUS
  <2>2. Assign(1, table, dest, Value(1, 1))
    BY <1>1, <1>6, <2>1
  <2> QED
    BY <2>2, <1>2, <1>4, AssignLists
<1> QED
  BY <1>5, <1>6

\* A declaration leaves no code.
LEMMA DeclareLists == ASSUME IInv, ListsKept, Declare PROVE KeepsLists
<1>1. PICK name \in Names, type \in {"INT", "FLOAT"} :
        IF Declared(User(name)) THEN Abort
        ELSE /\ symbol_table' = Pushed(User(name), type, 0)
             /\ Return(0, Attr)
             /\ UNCHANGED <<heap, quad_list, temps_count, constants_count,
                            status, meaning>>
  BY DEF Declare
<1>2. Reduce("DECLARE") /\ Parsing /\ Takes("DECLARE") = <<>>
  BY NothingTaken DEF Declare, Reduce
<1>3. CASE Declared(User(name))
  BY <1>1, <1>2, <1>3, AbortLists
<1>4. CASE ~ Declared(User(name))
  <2>1. /\ Return(0, Attr)
        /\ UNCHANGED <<heap, quad_list, status, connectives, dangling, merged>>
    BY <1>1, <1>4 DEF meaning
  <2> QED
    BY <2>1, <1>2, NothingLists
<1> QED
  BY <1>3, <1>4

\* A matrix literal makes no quadruple.
LEMMA DeclareMatrixLists == ASSUME IInv, ListsKept, DeclareMatrix PROVE KeepsLists
<1>1. PICK name \in Names :
        IF Declared(User(name)) THEN Abort
        ELSE /\ symbol_table' = Pushed(User(name), "MATRIX", 0)
             /\ Return(0, Attr)
             /\ UNCHANGED <<heap, quad_list, temps_count, constants_count,
                            status, meaning>>
  BY DEF DeclareMatrix
<1>2. Reduce("DECLARE_MATRIX") /\ Parsing /\ Takes("DECLARE_MATRIX") = <<>>
  BY NothingTaken DEF DeclareMatrix, Reduce
<1>3. CASE Declared(User(name))
  BY <1>1, <1>2, <1>3, AbortLists
<1>4. CASE ~ Declared(User(name))
  <2>1. /\ Return(0, Attr)
        /\ UNCHANGED <<heap, quad_list, status, connectives, dangling, merged>>
    BY <1>1, <1>4 DEF meaning
  <2> QED
    BY <2>1, <1>2, NothingLists
<1> QED
  BY <1>3, <1>4

\* A print is linked behind the code of its operand; that of a matrix is lost.
LEMMA CallFunctionWithExprLists ==
  ASSUME IInv, ListsKept, CallFunctionWithExpr PROVE KeepsLists
<1>1. Reduce("CALL") /\ Parsing
  BY DEF CallFunctionWithExpr, Reduce
<1>2. Takes("CALL") = <<"expr">>
  BY Taken
<1>3. /\ 1 \in Nat /\ 1 = Len(Takes("CALL")) /\ 1 \in 1 .. 1
      /\ Takes("CALL")[1] = "expr" /\ \A k \in 1 .. 1 : Takes("CALL")[k] = "expr"
  BY <1>2
<1>4. PICK expr, type : expr = Value(1, 1) /\ type = TypeOf(expr.symbol)
  OBVIOUS
<1>5. CASE Abort
  BY <1>1, <1>5, AbortLists
<1>6. ASSUME type # "MATRIX",
             LET printed == QuadNew(heap, PrintOp[type], expr.symbol,
                                    NoSymbol, NoSymbol)
                 joined == Concat(printed, <<expr.code, NextQuad(printed)>>)
             IN  heap' = joined.heap /\ Return(1, Code(joined.list)),
             UNCHANGED <<quad_list, status, meaning>>
      PROVE  KeepsLists
  <2>1. PICK op : op = PrintOp[type]
    OBVIOUS
  <2>2. op \in Ops /\ op \notin BranchOps /\ op \in PrintOps /\ op \notin ArithmeticOps
    <3>1. expr.symbol \in Symbols
      BY <1>1, <1>3, <1>4, PartsAre
    <3>2. type \in Types
      BY <3>1, <1>4, TypesAre
    <3> QED
      BY <3>2, <2>1, <1>6 DEF Types, PrintOp, Ops, PrintOps, BranchOps, ArithmeticOps
  <2>3. PICK printed : printed = QuadNew(heap, op, expr.symbol, NoSymbol, NoSymbol)
    OBVIOUS
  <2>4. PICK list, attr : /\ list = Concat(printed, <<expr.code, NextQuad(printed)>>).list
                          /\ attr = Code(list)
    OBVIOUS
  <2>5. /\ heap' = Concat(printed, <<Value(1, 1).code, NextQuad(printed)>>).heap
        /\ Return(1, attr)
    BY <1>4, <1>6, <2>1, <2>3, <2>4
  <2>6. /\ attr.code = list /\ attr.true_list = NULL /\ attr.false_list = NULL
        /\ attr.yes = {} /\ attr.no = {}
    BY <2>4, AttrsAre DEF Bare
  <2>8. attr.code = Concat(printed, <<Value(1, 1).code, NextQuad(printed)>>).list
    BY <1>4, <2>4, <2>6
  <2>7. UNCHANGED <<quad_list, status, connectives, dangling, merged>>
    BY <1>6 DEF meaning
  <2>9. ReadsOnly(op, expr.symbol, NoSymbol, NoSymbol, Value(1, 1).symbol)
    BY <1>4, <2>2 DEF ReadsOnly
  <2>10. PICK n, f, s, none :
           n = 1 /\ f = "CALL" /\ s = expr.symbol /\ none = NoSymbol
    OBVIOUS
  <2>11. /\ Reduce(f) /\ n \in Nat /\ n = Len(Takes(f)) /\ n \in 1 .. n
         /\ \A k \in 1 .. n : Takes(f)[k] = "expr"
    BY <1>1, <1>3, <2>10
  <2>12. /\ ReadsOnly(op, s, none, none, Value(n, n).symbol)
         /\ printed = QuadNew(heap, op, s, none, none)
    BY <2>3, <2>9, <2>10
  <2>13. /\ heap' = Concat(printed, <<Value(n, n).code, NextQuad(printed)>>).heap
         /\ attr.code = Concat(printed, <<Value(n, n).code, NextQuad(printed)>>).list
         /\ Return(n, attr)
    BY <2>5, <2>8, <2>10
  <2>14. op \in Ops /\ op \notin BranchOps
    BY <2>2
  <2>15. attr.true_list = NULL /\ attr.false_list = NULL /\ attr.yes = {} /\ attr.no = {}
    BY <2>6
  <2> QED
    BY <2>7, <2>11, <2>12, <2>13, <2>14, <2>15, BehindLists
<1>7. ASSUME Return(1, Attr), UNCHANGED <<program, status, meaning>>
      PROVE  KeepsLists
  <2>1. PICK attr : attr = Attr
    OBVIOUS
  <2>2. /\ attr.code = NULL /\ attr.true_list = NULL /\ attr.false_list = NULL
        /\ attr.yes = {} /\ attr.no = {}
    BY <2>1, AttrsAre DEF Bare
  <2>3. /\ Return(1, attr)
        /\ UNCHANGED <<heap, quad_list, status, connectives, dangling, merged>>
    BY <1>7, <2>1 DEF program, meaning
  <2> QED
    BY <1>1, <1>3, <2>2, <2>3, NoCodeLists
<1> QED
  BY <1>4, <1>5, <1>6, <1>7 DEF CallFunctionWithExpr

\* A return is a quadruple of its own, an empty block none.
LEMMA ControlReturnLists == ASSUME IInv, ListsKept, ControlReturn PROVE KeepsLists
<1>1. PICK attr : attr = Code(NextQuad(heap'))
  OBVIOUS
<1>2. /\ Reduce("RETURN")
      /\ heap' = QuadNew(heap, "RET", NoSymbol, NoSymbol, NoSymbol)
      /\ Return(0, attr) /\ UNCHANGED <<quad_list, status, connectives, dangling, merged>>
  BY <1>1 DEF ControlReturn, QuadNewEmpty, meaning
<1>3. /\ attr.code = NextQuad(heap') /\ attr.true_list = NULL
      /\ attr.false_list = NULL /\ attr.yes = {} /\ attr.no = {}
  BY <1>1, AttrsAre DEF Bare
<1>4. /\ "RET" \in Ops /\ "RET" \notin BranchOps /\ "RET" \notin PrintOps
      /\ "RET" \notin ArithmeticOps
  BY DEF Ops, BranchOps, PrintOps, ArithmeticOps
<1>5. /\ 0 \in Nat /\ 0 = Len(Takes("RETURN"))
      /\ \A k \in 1 .. 0 : Takes("RETURN")[k] = "expr"
  BY NothingTaken
<1> QED
  BY <1>2, <1>3, <1>4, <1>5, OneNodeLists

\* An empty block has no code.
LEMMA EmptyStatementsLists ==
  ASSUME IInv, ListsKept, EmptyStatements
  PROVE  KeepsLists
<1>1. /\ Reduce("EMPTY") /\ Takes("EMPTY") = <<>> /\ Return(0, Attr)
      /\ UNCHANGED <<heap, quad_list, status, connectives, dangling, merged>>
  BY NothingTaken DEF EmptyStatements, program, meaning
<1> QED
  BY <1>1, NothingLists

\* A sequence links the codes of its two statements.
LEMMA SequenceLists == ASSUME IInv, ListsKept, Sequence PROVE KeepsLists
<1>1. PICK codes, o : codes = <<Value(2, 1).code, Value(2, 2).code>> /\ o = <<1, 2>>
  OBVIOUS
<1>2. PICK attr : attr = Code(Concat(heap, codes).list)
  OBVIOUS
<1>3. /\ Reduce("SEQUENCE") /\ heap' = Concat(heap, codes).heap /\ Return(2, attr)
      /\ UNCHANGED <<quad_list, status, connectives, dangling, merged>>
  BY <1>1, <1>2 DEF Sequence, meaning
<1>4. Takes("SEQUENCE") = <<"code", "code">>
  BY Taken
<1>5. /\ 2 \in Nat /\ 2 = Len(Takes("SEQUENCE"))
      /\ \A k \in 1 .. 2 : Takes("SEQUENCE")[k] # "cond"
  BY <1>4
<1>6. Wired(heap) /\ Grows(heap, heap)
  <2>1. Wired(heap) /\ NextQuad(heap) \in Nat
    BY ListsAre, WiredIs
  <2> QED
    BY <2>1 DEF Grows
<1>7. ~ merged => Ready(heap, 2)
  <2>1. ~ merged => Apart(heap, vals, quad_list, connectives, dangling)
    BY DEF ListsKept
  <2> QED
    BY <2>1, <1>3, <1>5, ReadyHere
<1>8. Origin(heap, 2, codes, o)
  <2>1. Len(codes) = 2 /\ Len(codes) \in Nat /\ o[1] = 1 /\ o[2] = 2
        /\ codes[1] = Value(2, 1).code /\ codes[2] = Value(2, 2).code
    BY <1>1
  <2>2. \A i \in 1 .. Len(codes) : i = 1 \/ i = 2
    BY <2>1
  <2> QED
    BY <2>1, <2>2 DEF Origin
<1>9. \A k \in 1 .. 2 : Trap(heap, Value(2, k)) => heap.hung
  BY <1>3, <1>5, NoLists
<1>10. /\ attr.code = Concat(heap, codes).list /\ attr.true_list = NULL
       /\ attr.false_list = NULL /\ attr.yes = {} /\ attr.no = {}
  BY <1>2, AttrsAre DEF Bare
<1>11. Covers(heap, 2, PlacesOf(codes, o))
  <2>1. PlacesOf(codes, o) = {1, 2}
    <3>1. Len(codes) = 2 /\ o[1] = 1 /\ o[2] = 2 /\ 1 .. 2 = {1, 2}
      BY <1>1
    <3> QED
      BY <3>1 DEF PlacesOf
  <2>2. Fresh(heap) = {}
    <3>1. NextQuad(heap) \in Nat
      BY <1>6, WiredIs
    <3> QED
      BY <3>1 DEF Fresh
  <2>3. \A k \in 1 .. 2 : ~ IsExpression(k) /\ k \in {1, 2}
    BY <1>3, <1>4 DEF IsExpression, Reduce
  <2> QED
    BY <2>1, <2>2, <2>3 DEF Covers, Asked
<1> QED
  BY <1>3, <1>5, <1>6, <1>7, <1>8, <1>9, <1>10, <1>11, CodeLists

-----------------------------------------------------------------------------
(***************************************************************************)
(* Conditions.                                                             *)
(***************************************************************************)

\* `true' and `false' are a branch that is their code and one of their lists.
LEMMA OneBranchLists ==
  ASSUME IInv, ListsKept, NEW f, Reduce(f), Takes(f) = <<>>,
         heap' = QuadNewEmpty(heap, "B"),
         NEW attr, attr.code = NextQuad(heap'),
         \/ /\ attr.true_list = NextQuad(heap') /\ attr.yes = {NextQuad(heap')}
            /\ attr.false_list = NULL /\ attr.no = {}
         \/ /\ attr.false_list = NextQuad(heap') /\ attr.no = {NextQuad(heap')}
            /\ attr.true_list = NULL /\ attr.yes = {},
         Return(0, attr), UNCHANGED <<quad_list, status, connectives, dangling, merged>>
  PROVE  KeepsLists
<1>1. PICK top \in Nat : top = NextQuad(heap)
  BY ListsAre, WiredIs
<1>2. PICK made : made = QuadNew(heap, "B", NoSymbol, NoSymbol, NoSymbol)
  OBVIOUS
<1>3. heap' = made
  BY <1>2 DEF QuadNewEmpty
<1>4. "B" \in Ops /\ "B" \in BranchOps /\ Wired(heap) /\ ~ heap.hung
  BY ListsAre DEF Ops, BranchOps, Reduce, Parsing
<1>5. /\ Wired(made) /\ NextQuad(made) = top + 1 /\ ~ made.hung
      /\ \A m \in 1 .. top : made.quad[m] = heap.quad[m]
  BY <1>1, <1>2, <1>4, QuadNewWires
<1>6. Grows(heap, made)
  BY <1>2, <1>4, QuadNewGrows
<1>7. PICK b : b = top + 1
  OBVIOUS
<1>8. /\ made.quad[b].op = "B" /\ made.quad[b].res = NoSymbol
      /\ made.quad[b].op1 = NoSymbol /\ made.quad[b].op2 = NoSymbol
      /\ made.quad[b].successor = NULL
  <2>1. made.quad[NextQuad(heap) + 1]
          = [op |-> "B", res |-> NoSymbol, op1 |-> NoSymbol, op2 |-> NoSymbol,
             successor |-> NULL]
    BY <1>2, <1>4, QuadNewNode
  <2> QED
    BY <2>1, <1>1, <1>7
<1>9. ~ Endless(made, b) /\ NodesOf(made, b) = {b} /\ b # NULL
  <2>1. b \in 1 .. NextQuad(made)
    BY <1>1, <1>5, <1>7
  <2> QED
    BY <2>1, <1>5, <1>8, Single DEF NULL
<1>10. Open(made, b)
  BY <1>4, <1>8 DEF Open
<1>11. attr.code = b /\ NodesOf(made, NULL) = {}
  BY <1>3, <1>5, <1>7, NoList
<1>12. Sound(made, attr, connectives', dangling')
  <2>1. AllBranches(made, b) /\ AllBranches(made, NULL)
    BY <1>4, <1>8, <1>9, <1>11 DEF AllBranches
  <2>2. CASE attr.true_list = b /\ attr.yes = {b} /\ attr.false_list = NULL /\ attr.no = {}
    <3>1. OnlyBranches(made, attr)
      BY <2>1, <2>2, <1>11 DEF OnlyBranches
    <3>2. Held(made, attr) /\ Awaited(made, attr, dangling')
      BY <2>2, <1>9, <1>11 DEF Held, Awaited
    <3> QED
      BY <2>2, <3>1, <3>2, <1>9, <1>10, <1>11 DEF Sound, Exit
  <2>3. CASE attr.false_list = b /\ attr.no = {b} /\ attr.true_list = NULL /\ attr.yes = {}
    <3>1. OnlyBranches(made, attr)
      BY <2>1, <2>3, <1>11 DEF OnlyBranches
    <3>2. Held(made, attr) /\ Awaited(made, attr, dangling')
      BY <2>3, <1>9, <1>11 DEF Held, Awaited
    <3> QED
      BY <2>3, <3>1, <3>2, <1>9, <1>10, <1>11 DEF Sound, Exit
  <2> QED
    BY <2>2, <2>3, <1>3, <1>5, <1>7
<1>13. NodesOf(made, attr.code) \subseteq TopNodes(0) \cup (NextQuad(heap) + 1 .. NextQuad(made))
  BY <1>1, <1>5, <1>7, <1>9, <1>11
<1>14. LabelsLeft(heap, made)
  BY <1>1, <1>5 DEF LabelsLeft
<1>15. MadeOf(0, attr)
  <2>1. SameOperands(heap, made)
    BY <1>1, <1>5 DEF SameOperands
  <2>2. \A m \in Fresh(made) : m = b
    BY <1>1, <1>5, <1>7 DEF Fresh
  <2>3. Asks(made.quad[b]) = {NoSymbol}
    BY <1>8 DEF Asks, PrintOps, ArithmeticOps
  <2>4. \A x : Asked(made, x) => x = NoSymbol
    BY <2>2, <2>3 DEF Asked
  <2>5. NoSymbol[1] # "tmp"
    BY DEF NoSymbol
  <2>6. Gathers(0, attr)
    <3>1. made.quad[b].op \notin ArithmeticOps
      BY <1>8 DEF ArithmeticOps
    <3> QED
      BY <3>1, <2>2, <2>4, <2>5, <1>3, <1>9, <1>11 DEF Gathers
  <2> QED
    BY <2>1, <2>6, <1>1, <1>3, <1>5, <1>12, <1>13, <1>14 DEF MadeOf
<1>16. 0 = Len(Takes(f)) /\ 0 \in Nat /\ 1 .. 0 = {}
  OBVIOUS
<1>17. merged' => "OR" \in connectives' \/ "AND" \in connectives'
  BY DEF ListsKept
<1> QED
  BY <1>3, <1>5, <1>6, <1>15, <1>16, <1>17, ReduceLists

\* The branch of `true' is its true list.
LEMMA ConditionTrueLists == ASSUME IInv, ListsKept, ConditionTrue PROVE KeepsLists
<1>1. PICK made, b : made = QuadNewEmpty(heap, "B") /\ b = NextQuad(made)
  OBVIOUS
<1>2. PICK attr : attr = [Attr EXCEPT !.code = b, !.true_list = b, !.yes = {b}]
  OBVIOUS
<1>3. /\ Reduce("TRUE") /\ Built(made, attr, 0, <<>>)
      /\ UNCHANGED <<connectives, dangling, merged>>
  BY <1>1, <1>2 DEF ConditionTrue
<1>4. heap' = made /\ Return(0, attr) /\ UNCHANGED <<quad_list, status>>
  BY <1>3 DEF Built
<1>5. /\ attr.code = b /\ attr.true_list = b /\ attr.yes = {b}
      /\ attr.false_list = NULL /\ attr.no = {}
  BY <1>2 DEF Attr
<1>6. Takes("TRUE") = <<>>
  BY NothingTaken
<1> QED
  BY <1>1, <1>3, <1>4, <1>5, <1>6, OneBranchLists

\* The branch of `false' is its false list.
LEMMA ConditionFalseLists == ASSUME IInv, ListsKept, ConditionFalse PROVE KeepsLists
<1>1. PICK made, b : made = QuadNewEmpty(heap, "B") /\ b = NextQuad(made)
  OBVIOUS
<1>2. PICK attr : attr = [Attr EXCEPT !.code = b, !.false_list = b, !.no = {b}]
  OBVIOUS
<1>3. /\ Reduce("FALSE") /\ Built(made, attr, 0, <<>>)
      /\ UNCHANGED <<connectives, dangling, merged>>
  BY <1>1, <1>2 DEF ConditionFalse
<1>4. heap' = made /\ Return(0, attr) /\ UNCHANGED <<quad_list, status>>
  BY <1>3 DEF Built
<1>5. /\ attr.code = b /\ attr.false_list = b /\ attr.no = {b}
      /\ attr.true_list = NULL /\ attr.yes = {}
  BY <1>2 DEF Attr
<1>6. Takes("FALSE") = <<>>
  BY NothingTaken
<1> QED
  BY <1>1, <1>3, <1>4, <1>5, <1>6, OneBranchLists

\* x and y are the last two lists of a concatenation.
LastAre(sources, x, y) ==
  \E k \in 1 .. Len(sources) :
    k + 1 = Len(sources) /\ sources[k] = x /\ sources[k + 1] = y

\* A list of one node, and a list of two.
Alone(h, x) == NodesOf(h, x) = {x}
Followed(h, x, y) == NodesOf(h, x) = {x, y} /\ Alone(h, y)

\* The last two lists of a concatenation, one node each.
LEMMA LastTwo ==
  ASSUME NEW h, NEW sources, Separate(h, sources), NEW x, NEW y,
         LastAre(sources, x, y), Alone(h, x), Alone(h, y)
  PROVE  Followed(Concat(h, sources).heap, x, y)
<1>0. PICK k \in 1 .. Len(sources) :
        k + 1 = Len(sources) /\ sources[k] = x /\ sources[k + 1] = y
  BY DEF LastAre
<1>1. PICK l : l = k + 1
  OBVIOUS
<1>2. l \in 1 .. Len(sources)
  BY <1>0, <1>1
<1>3. x \in NodesOf(h, sources[k]) /\ y \in NodesOf(h, sources[l])
  BY <1>0, <1>1 DEF Alone
<1>4. NodesOf(Concat(h, sources).heap, x) = NodesOf(h, x) \cup Rest(h, sources, k)
  BY <1>2, <1>3, ConcatRest
<1>5. NodesOf(Concat(h, sources).heap, y) = NodesOf(h, y) \cup Rest(h, sources, l)
  BY <1>2, <1>3, ConcatRest
<1>6. Rest(h, sources, k) = {y} /\ Rest(h, sources, l) = {}
  <2>1. k + 1 .. Len(sources) = {l} /\ l + 1 .. Len(sources) = {}
    BY <1>0, <1>1 DEF Separate
  <2> QED
    BY <2>1, <1>0, <1>1 DEF Rest, NodesIn, Alone
<1> QED
  BY <1>4, <1>5, <1>6 DEF Alone, Followed

\* The lists a test links: the codes of its operands and its two branches.
TestCodes(n, sources, t, e) ==
  /\ Len(sources) = n + 2
  /\ \A i \in 1 .. n : sources[i] = Value(n, i).code
  /\ sources[n + 1] = t /\ sources[n + 2] = e

\* It reads its operands.
TestReads(n, op1, op2) ==
  /\ \A k \in 1 .. n : Value(n, k).symbol \in {op1, op2}
  /\ \A x \in {op1, op2} : x[1] = "tmp" => \E k \in 1 .. n : x = Value(n, k).symbol

\* A test is two branches behind the code of its operands; both are without a
\* label, and the second follows the first.
LEMMA TwoBranchesMade ==
  ASSUME IInv, Apart(heap, vals, quad_list, connectives, dangling),
         NEW f, Reduce(f), NEW n \in Nat, n = Len(Takes(f)),
         \A k \in 1 .. n : Takes(f)[k] = "expr", NEW op \in BranchOps, NEW op1, NEW op2,
         TestReads(n, op1, op2),
         NEW goto_true, goto_true = QuadNew(heap, op, NoSymbol, op1, op2),
         NEW goto_false,
         goto_false = QuadNew(goto_true, "B", NoSymbol, NoSymbol, NoSymbol),
         NEW t, t = NextQuad(goto_true), NEW e, e = NextQuad(goto_false),
         NEW sources, TestCodes(n, sources, t, e),
         heap' = Concat(goto_false, sources).heap,
         NEW attr, attr.code = Concat(goto_false, sources).list,
         attr.true_list = t, attr.false_list = e, attr.yes = {t}, attr.no = {e},
         connectives' = connectives, dangling' = dangling
  PROVE  MadeOf(n, attr)
<1>1. PICK top \in Nat : top = NextQuad(heap)
  BY ListsAre, WiredIs
<1>2. PICK g : g = goto_false
  OBVIOUS
<1>3. "B" \in Ops /\ "B" \in BranchOps /\ op \in Ops /\ Wired(heap) /\ ~ heap.hung
  BY ListsAre DEF Ops, BranchOps, Reduce, Parsing
<1>4. /\ Wired(goto_true) /\ NextQuad(goto_true) = top + 1 /\ ~ goto_true.hung
      /\ \A m \in 1 .. top : goto_true.quad[m] = heap.quad[m]
  BY <1>1, <1>3, QuadNewWires
<1>5. /\ Wired(g) /\ NextQuad(g) = top + 1 + 1 /\ ~ g.hung
      /\ \A m \in 1 .. top + 1 : g.quad[m] = goto_true.quad[m]
  BY <1>1, <1>2, <1>3, <1>4, QuadNewWires
<1>6. /\ t = top + 1 /\ e = top + 2 /\ NextQuad(g) = top + 2
      /\ t # NULL /\ e # NULL /\ t # e
  BY <1>1, <1>2, <1>4, <1>5 DEF NULL
<1>7. /\ goto_true.quad[t].op = op /\ goto_true.quad[t].res = NoSymbol
      /\ goto_true.quad[t].op1 = op1 /\ goto_true.quad[t].op2 = op2
      /\ goto_true.quad[t].successor = NULL
  <2>1. goto_true.quad[NextQuad(heap) + 1]
          = [op |-> op, res |-> NoSymbol, op1 |-> op1, op2 |-> op2,
             successor |-> NULL]
    BY <1>3, QuadNewNode
  <2> QED
    BY <2>1, <1>1, <1>6
<1>8. /\ g.quad[e].op = "B" /\ g.quad[e].res = NoSymbol
      /\ g.quad[e].op1 = NoSymbol /\ g.quad[e].op2 = NoSymbol
      /\ g.quad[e].successor = NULL
  <2>1. g.quad[NextQuad(goto_true) + 1]
          = [op |-> "B", res |-> NoSymbol, op1 |-> NoSymbol, op2 |-> NoSymbol,
             successor |-> NULL]
    BY <1>2, <1>4, QuadNewNode
  <2>2. NextQuad(goto_true) + 1 = e
    BY <1>1, <1>4, <1>6
  <2> QED
    BY <2>1, <2>2
<1>9. /\ \A m \in 1 .. top : g.quad[m] = heap.quad[m]
      /\ g.quad[t] = goto_true.quad[t]
  <2>1. t \in 1 .. top + 1 /\ \A m \in 1 .. top : m \in 1 .. top + 1
    BY <1>1, <1>6
  <2> QED
    BY <2>1, <1>4, <1>5
<1>10. Open(g, t) /\ Open(g, e)
  BY <1>3, <1>7, <1>8, <1>9 DEF Open
<1>11. PICK o : o = [i \in 1 .. n + 2 |-> i]
  OBVIOUS
<1>12. Origin(g, n, sources, o)
  <2>1. ASSUME NEW i \in 1 .. n + 2
        PROVE  \/ o[i] \in 1 .. n /\ sources[i] = Value(n, o[i]).code
               \/ /\ o[i] \in Nat /\ n < o[i] /\ top + (o[i] - n) <= NextQuad(g)
                  /\ sources[i] = top + (o[i] - n)
    <3>1. CASE i \in 1 .. n
      BY <3>1, <1>11 DEF TestCodes
    <3>2. CASE i = n + 1
      BY <3>2, <1>1, <1>6, <1>11 DEF TestCodes
    <3>3. CASE i = n + 2
      BY <3>3, <1>1, <1>6, <1>11 DEF TestCodes
    <3> QED
      BY <3>1, <3>2, <3>3
  <2>2. n + 2 \in Nat /\ \A i, j \in 1 .. n + 2 : o[i] = o[j] => i = j
    BY <1>11
  <2> QED
    BY <2>1, <2>2, <1>1 DEF Origin, TestCodes
<1>13. \A m \in top + 1 .. NextQuad(g) : m = t \/ m = e
  BY <1>1, <1>6
<1>14. ASSUME NEW k \in 1 .. n
       PROVE  /\ ~ Endless(g, Value(n, k).code)
              /\ NodesOf(g, Value(n, k).code) = NodesOf(heap, Value(n, k).code)
  <2>1. PICK code : code = Value(n, k).code
    OBVIOUS
  <2>2. code \in 0 .. NextQuad(heap) /\ ~ Endless(heap, code)
        /\ NodesOf(heap, code) \subseteq 1 .. top
    BY <2>1, <1>1, PartsAre, TopIs DEF Sound
  <2>3. \A m \in NodesOf(heap, code) : g.quad[m].successor = heap.quad[m].successor
    BY <2>2, <1>9
  <2>4. NextQuad(heap) <= NextQuad(g)
    BY <1>1, <1>6
  <2> QED
    BY <2>1, <2>2, <2>3, <2>4, <1>3, <1>5, Undisturbed
<1>15. /\ \A i \in 1 .. Len(sources) :
            /\ sources[i] \in 0 .. NextQuad(g) /\ ~ Endless(g, sources[i])
            /\ o[i] \in 1 .. n => NodesOf(g, sources[i]) = NodesOf(heap, Value(n, o[i]).code)
            /\ o[i] \notin 1 .. n =>
                 /\ NodesOf(g, sources[i]) = {sources[i]}
                 /\ sources[i] \in NextQuad(heap) + 1 .. NextQuad(g)
       /\ \A i, j \in 1 .. Len(sources) :
            i # j => NodesOf(g, sources[i]) \cap NodesOf(g, sources[j]) = {}
  <2>1. Wired(g) /\ ~ g.hung /\ NextQuad(heap) <= NextQuad(g)
    BY <1>1, <1>5, <1>6
  <2>2. \A m \in NextQuad(heap) + 1 .. NextQuad(g) : g.quad[m].successor = NULL
    BY <1>1, <1>7, <1>8, <1>9, <1>13
  <2>3. \A k \in 1 .. n : /\ ~ Endless(g, Value(n, k).code)
                          /\ NodesOf(g, Value(n, k).code) = NodesOf(heap, Value(n, k).code)
    BY <1>14
  <2> QED
    BY <2>1, <2>2, <2>3, <1>12, LinkedIs
<1>16. PICK N : N = [i \in 1 .. n + 2 |-> NodesOf(g, sources[i])]
  OBVIOUS
<1>17. /\ \A i \in 1 .. n : N[i] \subseteq TopNodes(n)
       /\ N[n + 1] = {t} /\ N[n + 2] = {e}
  <2>1. ASSUME NEW i \in 1 .. n PROVE N[i] \subseteq TopNodes(n)
    <3>1. i \in 1 .. n + 2 /\ o[i] = i
      BY <1>11
    <3> QED
      BY <3>1, <1>15, <1>16, TopIs DEF TestCodes
  <2>2. /\ n + 1 \in 1 .. n + 2 /\ n + 2 \in 1 .. n + 2
        /\ o[n + 1] = n + 1 /\ o[n + 2] = n + 2 /\ n + 1 \notin 1 .. n /\ n + 2 \notin 1 .. n
    BY <1>11
  <2>3. \A i \in 1 .. n + 2 : o[i] \notin 1 .. n => NodesOf(g, sources[i]) = {sources[i]}
    BY <1>15 DEF TestCodes
  <2>4. NodesOf(g, sources[n + 1]) = {t}
    BY <2>2, <2>3 DEF TestCodes
  <2>5. NodesOf(g, sources[n + 2]) = {e}
    BY <2>2, <2>3 DEF TestCodes
  <2> QED
    BY <2>1, <2>2, <2>4, <2>5, <1>16
<1>18. PICK all : all = NodesIn(g, sources, 1 .. n + 2)
  OBVIOUS
<1>19. all \subseteq TopNodes(n) \cup {t, e} /\ t \in all /\ e \in all
  <2>1. all = UNION {N[i] : i \in 1 .. n + 2}
    BY <1>16, <1>18 DEF NodesIn
  <2>2. \A i \in 1 .. n + 2 : i \in 1 .. n \/ i = n + 1 \/ i = n + 2
    OBVIOUS
  <2>3. n + 1 \in 1 .. n + 2 /\ n + 2 \in 1 .. n + 2
    OBVIOUS
  <2> QED
    BY <2>1, <2>2, <2>3, <1>17
<1> DEFINE r == Concat(g, sources)
<1>20. heap' = r.heap /\ attr.code = r.list
  BY <1>2
<1>21. /\ Len(sources) \in Nat /\ Wired(g) /\ ~ g.hung
       /\ \A i \in 1 .. Len(sources) :
            sources[i] \in 0 .. NextQuad(g) /\ ~ Endless(g, sources[i])
       /\ \A i, j \in 1 .. Len(sources) :
            i # j => NodesOf(g, sources[i]) \cap NodesOf(g, sources[j]) = {}
  BY <1>5, <1>12, <1>15 DEF Origin
<1> HIDE DEF r
<1>22. /\ Wired(r.heap) /\ ~ r.heap.hung /\ NextQuad(r.heap) = NextQuad(g)
       /\ ~ Endless(r.heap, r.list)
       /\ NodesOf(r.heap, r.list) = NodesIn(g, sources, 1 .. Len(sources))
       /\ \A m \in 1 .. NextQuad(g) :
            /\ Says(r.heap.quad[m]) = Says(g.quad[m])
            /\ m \notin NodesIn(g, sources, 1 .. Len(sources)) =>
                 r.heap.quad[m] = g.quad[m]
  BY <1>21, ConcatLists DEF r
<1>24. NodesOf(r.heap, e) = {e} /\ NodesOf(r.heap, t) = {t, e}
  <2>1. n + 1 \in 1 .. n + 2 /\ n + 2 \in 1 .. n + 2
    OBVIOUS
  <2>2. NodesOf(g, t) = {t} /\ NodesOf(g, e) = {e}
    BY <2>1, <1>16, <1>17 DEF TestCodes
  <2>3. PICK k : k = n + 1
    OBVIOUS
  <2>4. /\ k \in 1 .. Len(sources) /\ k + 1 = Len(sources)
        /\ sources[k] = t /\ sources[k + 1] = e
    <3>1. n + 1 + 1 = n + 2
      OBVIOUS
    <3> QED
      BY <3>1, <2>1, <2>3 DEF TestCodes
  <2> QED
    <3>1. Separate(g, sources)
      BY <1>21 DEF Separate
    <3>2. LastAre(sources, t, e)
      BY <2>4 DEF LastAre
    <3>3. Alone(g, t) /\ Alone(g, e)
      BY <2>2 DEF Alone
    <3>4. Followed(Concat(g, sources).heap, t, e)
      BY <3>1, <3>2, <3>3, LastTwo
    <3> QED
      BY <3>4 DEF r, Followed, Alone
<1>25. \A m \in 1 .. top + 2 : /\ Open(heap', m) <=> Open(g, m)
                               /\ heap'.quad[m].res = g.quad[m].res
                               /\ m \notin all => heap'.quad[m] = g.quad[m]
  BY <1>6, <1>18, <1>20, <1>22 DEF Says, Open, TestCodes
<1>26. TopNodes(n) \subseteq 1 .. top
  BY <1>1, TopIs
<1>27. NodesOf(heap', attr.code) = all /\ ~ Endless(heap', attr.code)
       /\ NextQuad(heap') = top + 2 /\ ~ heap'.hung
       /\ NodesOf(heap', e) = {e} /\ NodesOf(heap', t) = {t, e}
  BY <1>6, <1>18, <1>20, <1>22, <1>24 DEF TestCodes
<1>28. \A m \in 1 .. top : m \notin TopNodes(n) => heap'.quad[m] = heap.quad[m]
  <2>1. \A m \in 1 .. top : m \in 1 .. top + 2 /\ m # t /\ m # e
    BY <1>1, <1>6
  <2> QED
    BY <2>1, <1>9, <1>19, <1>25
<1>29. ASSUME NEW m \in all, Open(heap', m)
       PROVE  m \in {t, e} \cup dangling
  <2>1. SUFFICES ASSUME m \in TopNodes(n) PROVE m \in dangling
    BY <1>19
  <2>2. m \in 1 .. top /\ m \in 1 .. top + 2
    BY <2>1, <1>1, <1>26
  <2>3. Open(heap, m)
    BY <2>2, <1>9, <1>25, <1>29 DEF Open
  <2>4. PICK k \in 1 .. n : m \in NodesOf(heap, Value(n, k).code)
    BY <2>1, TopIs
  <2>5. Sound(heap, Value(n, k), connectives, dangling)
    BY TopIs
  <2>6. Value(n, k).true_list = NULL /\ Value(n, k).false_list = NULL
    BY NoLists
  <2>7. Value(n, k).yes = {} /\ Value(n, k).no = {}
    BY <2>5, <2>6 DEF Sound, Exit
  <2> QED
    BY <2>3, <2>4, <2>5, <2>7 DEF Sound, Awaited
<1>30. Open(heap', t) /\ Open(heap', e)
  <2>1. t \in 1 .. top + 2 /\ e \in 1 .. top + 2
    BY <1>1, <1>6
  <2> QED
    BY <2>1, <1>10, <1>25
<1>31. Sound(heap', attr, connectives', dangling')
  <2>1. NodesOf(heap', attr.true_list) \cup NodesOf(heap', attr.false_list) = {t, e}
    BY <1>27
  <2>2. /\ Exit(heap', attr.true_list, attr.code, attr.yes)
        /\ Exit(heap', attr.false_list, attr.code, attr.no)
    BY <1>6, <1>19, <1>27 DEF Exit
  <2>3. OnlyBranches(heap', attr)
    <3>1. heap'.quad[t].op \in BranchOps /\ heap'.quad[e].op \in BranchOps
      BY <1>30 DEF Open
    <3>2. attr.yes # {} /\ attr.no # {}
      OBVIOUS
    <3> QED
      BY <3>1, <3>2, <1>27 DEF OnlyBranches, AllBranches
  <2>4. Held(heap', attr) /\ Awaited(heap', attr, dangling')
    BY <1>27, <1>29 DEF Held, Awaited
  <2> QED
    BY <2>1, <2>2, <2>3, <2>4, <1>27, <1>30 DEF Sound
<1>32. LabelsLeft(heap, heap')
  <2>1. \A m \in 1 .. top : m \in 1 .. top + 2
    BY <1>1
  <2> QED
    BY <2>1, <1>1, <1>9, <1>25 DEF LabelsLeft
<1>33. {t, e} \subseteq NextQuad(heap) + 1 .. NextQuad(heap')
  BY <1>1, <1>6, <1>27
<1>34. SameOperands(heap, heap')
  <2>1. \A m \in 1 .. top : m \in 1 .. NextQuad(g)
    BY <1>1, <1>6
  <2> QED
    BY <2>1, <1>1, <1>9, <1>20, <1>22 DEF SameOperands, Says
<1>35. Covers(g, n, PlacesOf(sources, o))
  <2>1. PlacesOf(sources, o) = 1 .. n + 2
    BY <1>11 DEF PlacesOf, TestCodes
  <2>2. Fresh(g) = {t, e} /\ t = top + 1 /\ e = top + 2
    BY <1>1, <1>6 DEF Fresh
  <2>3. Asks(g.quad[t]) = {op1, op2}
    <3>1. /\ g.quad[t].op = op /\ g.quad[t].op1 = op1 /\ g.quad[t].op2 = op2
      BY <1>7, <1>9
    <3>2. op \notin ArithmeticOps /\ op \notin PrintOps
      BY DEF BranchOps, ArithmeticOps, PrintOps
    <3> QED
      BY <3>1, <3>2 DEF Asks
  <2>4. Asks(g.quad[e]) = {NoSymbol}
    BY <1>8 DEF Asks, ArithmeticOps, PrintOps
  <2>5. \A x : Asked(g, x) <=> x \in {op1, op2, NoSymbol}
    BY <2>2, <2>3, <2>4 DEF Asked
  <2>6. NoSymbol[1] # "tmp"
    BY DEF NoSymbol
  <2>7. \A k \in 1 .. n : IsExpression(k) /\ k \in 1 .. n + 2
    BY DEF IsExpression, Reduce
  <2>8. \A m \in {t, e} : n + (m - NextQuad(heap)) \in 1 .. n + 2
    BY <2>2, <1>1
  <2>9. \A x : Asked(g, x) /\ x[1] = "tmp" => \E k \in 1 .. n : x = Value(n, k).symbol
    BY <2>5, <2>6 DEF TestReads
  <2>10. \A k \in 1 .. n : Asked(g, Value(n, k).symbol)
    BY <2>5 DEF TestReads
  <2>11. g.quad[t].op \notin ArithmeticOps /\ g.quad[e].op \notin ArithmeticOps
    <3>1. g.quad[t].op = op /\ g.quad[e].op = "B"
      BY <1>7, <1>8, <1>9
    <3> QED
      BY <3>1 DEF BranchOps, ArithmeticOps
  <2> QED
    BY <2>1, <2>2, <2>7, <2>8, <2>9, <2>10, <2>11 DEF Covers
<1>36. Gathers(n, attr)
  <2>1. PICK placed : placed = PlacesOf(sources, o)
    OBVIOUS
  <2>2. \A i \in 1 .. Len(sources) :
          /\ o[i] \in 1 .. n => NodesOf(g, sources[i]) = NodesOf(heap, Value(n, o[i]).code)
          /\ o[i] \notin 1 .. n => NodesOf(g, sources[i]) = {sources[i]}
    BY <1>15
  <2>3. /\ NextQuad(heap') = NextQuad(g) /\ NextQuad(g) \in Nat /\ NextQuad(heap) \in Nat
        /\ \A m \in 1 .. NextQuad(g) : Says(heap'.quad[m]) = Says(g.quad[m])
        /\ NodesOf(heap', attr.code) = NodesIn(g, sources, 1 .. Len(sources))
    BY <1>1, <1>6, <1>20, <1>22
  <2>4. Covers(g, n, placed)
    BY <2>1, <1>35
  <2> QED
    BY <2>1, <2>2, <2>3, <2>4, <1>12, GathersIs
<1> QED
  BY <1>1, <1>19, <1>27, <1>28, <1>31, <1>32, <1>33, <1>34, <1>36 DEF MadeOf
\* The value of a test with the branches t and e, which the heap g has made.
IsTest(g, sources, t, e, attr) ==
  /\ heap' = Concat(g, sources).heap
  /\ attr.code = Concat(g, sources).list
  /\ attr.true_list = t /\ attr.yes = {t} /\ attr.false_list = e /\ attr.no = {e}

\* A test keeps the invariant.
LEMMA TestLists ==
  ASSUME IInv, ListsKept, NEW f, Reduce(f), NEW n \in Nat, n = Len(Takes(f)),
         \A k \in 1 .. n : Takes(f)[k] = "expr", NEW op \in BranchOps, NEW op1, NEW op2,
         TestReads(n, op1, op2),
         NEW goto_true, goto_true = QuadNew(heap, op, NoSymbol, op1, op2),
         NEW goto_false,
         goto_false = QuadNew(goto_true, "B", NoSymbol, NoSymbol, NoSymbol),
         NEW t, t = NextQuad(goto_true), NEW e, e = NextQuad(goto_false),
         NEW sources, TestCodes(n, sources, t, e),
         NEW attr, IsTest(goto_false, sources, t, e, attr),
         Return(n, attr), quad_list' = quad_list, status' = status,
         connectives' = connectives, dangling' = dangling, merged' = merged
  PROVE  KeepsLists
<1>1. "B" \in Ops /\ op \in Ops /\ Wired(heap)
  BY ListsAre DEF Ops, BranchOps
<1>2. /\ Wired(goto_true) /\ Grows(heap, goto_true)
      /\ NextQuad(goto_true) = NextQuad(heap) + 1
  BY <1>1, QuadNewWires, QuadNewGrows
<1>3. /\ Wired(goto_false) /\ Grows(goto_true, goto_false)
      /\ NextQuad(goto_false) = NextQuad(goto_true) + 1
  BY <1>1, <1>2, QuadNewWires, QuadNewGrows
<1>4. Grows(heap, goto_false)
  BY <1>1, <1>2, <1>3, GrowsOn
<1>5. PICK top \in Nat : top = NextQuad(heap)
  BY <1>1, WiredIs
<1>6. NextQuad(goto_false) = top + 2 /\ t = top + 1 /\ e = top + 2
  BY <1>2, <1>3, <1>5
<1>7. Len(sources) \in Nat
        /\ \A i \in 1 .. Len(sources) : sources[i] \in 0 .. NextQuad(goto_false)
  <2>1. ASSUME NEW i \in 1 .. n + 2 PROVE sources[i] \in 0 .. top + 2
    <3>1. CASE i \in 1 .. n
      <4>1. Value(n, i).code \in 0 .. top
        BY <3>1, <1>5, PartsAre
      <4> QED
        BY <3>1, <4>1 DEF TestCodes
    <3>2. CASE i = n + 1
      BY <3>2, <1>6 DEF TestCodes
    <3>3. CASE i = n + 2
      BY <3>3, <1>6 DEF TestCodes
    <3> QED
      BY <3>1, <3>2, <3>3
  <2> QED
    BY <2>1, <1>6 DEF TestCodes
<1>8. Wired(heap') /\ Grows(heap, heap')
  <2>1. PICK g : g = goto_false
    OBVIOUS
  <2> DEFINE r == Concat(g, sources)
  <2> HIDE DEF r
  <2>2. Wired(r.heap) /\ Grows(g, r.heap)
    BY <2>1, <1>3, <1>7, ConcatStays DEF r
  <2>3. heap' = r.heap
    BY <2>1 DEF r, IsTest
  <2> QED
    BY <2>1, <2>2, <2>3, <1>1, <1>3, <1>4, GrowsOn
<1>9. ~ merged' => MadeOf(n, attr)
  <2>1. SUFFICES ASSUME ~ merged PROVE MadeOf(n, attr)
    OBVIOUS
  <2>2. Apart(heap, vals, quad_list, connectives, dangling)
    BY <2>1 DEF ListsKept
  <2> QED
    BY <2>2, TwoBranchesMade DEF IsTest
<1>10. \A k \in 1 .. n : ~ Trap(heap, Value(n, k))
  BY NoLists
<1>11. merged' => "OR" \in connectives' \/ "AND" \in connectives'
  BY DEF ListsKept
<1> QED
  BY <1>8, <1>9, <1>10, <1>11, ReduceLists

\* The codes of an action's tests are those of its operands and the branches.
LEMMA BranchesLists ==
  ASSUME IInv, ListsKept, NEW f, Reduce(f), NEW n \in Nat, n = Len(Takes(f)),
         \A k \in 1 .. n : Takes(f)[k] = "expr", NEW op \in BranchOps, NEW op1, NEW op2,
         TestReads(n, op1, op2),
         NEW codes \in Seq(Nat), n = Len(codes),
         \A i \in 1 .. n : codes[i] = Value(n, i).code,
         Branches(n, op, op1, op2, codes), UNCHANGED <<connectives, dangling, merged>>
  PROVE  KeepsLists
<1>1. PICK goto_true : goto_true = QuadNew(heap, op, NoSymbol, op1, op2)
  OBVIOUS
<1>2. PICK goto_false : goto_false = QuadNew(goto_true, "B", NoSymbol, NoSymbol, NoSymbol)
  OBVIOUS
<1>3. PICK t, e : t = NextQuad(goto_true) /\ e = NextQuad(goto_false)
  OBVIOUS
<1>4. PICK sources : sources = codes \o <<t, e>>
  OBVIOUS
<1>5. PICK joined : joined = Concat(goto_false, sources)
  OBVIOUS
<1>6. PICK attr : attr = [Attr EXCEPT !.code = joined.list, !.true_list = t,
                                      !.false_list = e, !.yes = {t}, !.no = {e}]
  OBVIOUS
<1>7. Built(joined.heap, attr, n, <<>>)
  BY <1>1, <1>2, <1>3, <1>4, <1>5, <1>6 DEF Branches, QuadNewEmpty
<1>8. /\ heap' = joined.heap /\ Return(n, attr) /\ UNCHANGED <<quad_list, status>>
  BY <1>7 DEF Built
<1>9. /\ attr.code = joined.list /\ attr.true_list = t /\ attr.false_list = e
      /\ attr.yes = {t} /\ attr.no = {e}
  BY <1>6 DEF Attr
<1>10. TestCodes(n, sources, t, e)
  <2>1. Len(<<t, e>>) = 2 /\ <<t, e>>[1] = t /\ <<t, e>>[2] = e
    OBVIOUS
  <2>2. t \in Nat /\ e \in Nat
    <3>1. "B" \in Ops /\ op \in Ops /\ Wired(heap)
      BY ListsAre DEF Ops, BranchOps
    <3>2. Wired(goto_true)
      BY <3>1, <1>1, QuadNewWires
    <3>3. Wired(goto_false)
      BY <3>1, <3>2, <1>2, QuadNewWires
    <3> QED
      BY <3>2, <3>3, <1>3, WiredIs
  <2>3. Len(sources) = n + 2 /\ \A i \in 1 .. n : sources[i] = codes[i]
    BY <2>1, <2>2, <1>4
  <2>4. sources[n + 1] = t /\ sources[n + 2] = e
    BY <2>1, <2>2, <1>4
  <2> QED
    BY <2>3, <2>4 DEF TestCodes
<1> QED
  <2>1. /\ heap' = Concat(goto_false, sources).heap
        /\ attr.code = Concat(goto_false, sources).list
    BY <1>5, <1>8, <1>9
  <2>2. /\ quad_list' = quad_list /\ status' = status
        /\ connectives' = connectives /\ dangling' = dangling /\ merged' = merged
    BY <1>8
  <2>3. IsTest(goto_false, sources, t, e, attr)
    BY <2>1, <1>9 DEF IsTest
  <2> QED
    BY <2>2, <2>3, <1>1, <1>2, <1>3, <1>8, <1>10, TestLists

\* A test of an expression against zero.
LEMMA ConditionFromExpressionLists ==
  ASSUME IInv, ListsKept, ConditionFromExpression PROVE KeepsLists
<1>1. PICK codes : codes = <<Value(1, 1).code>>
  OBVIOUS
<1>2. /\ Reduce("TEST") /\ Branches(1, "BNE", Value(1, 1).symbol, NewConst, codes)
      /\ UNCHANGED <<connectives, dangling, merged>>
  BY <1>1 DEF ConditionFromExpression
<1>3. Takes("TEST") = <<"expr">>
  BY Taken
<1>4. 1 = Len(Takes("TEST")) /\ 1 \in Nat /\ \A k \in 1 .. 1 : Takes("TEST")[k] = "expr"
  BY <1>3
<1>5. Value(1, 1).code \in Nat
  <2>1. NextQuad(heap) \in Nat
    BY ListsAre, WiredIs
  <2>2. 1 \in 1 .. 1
    OBVIOUS
  <2>3. \A k \in 1 .. 1 : Value(1, k).code \in 0 .. NextQuad(heap)
    BY <1>2, <1>4, PartsAre
  <2> QED
    BY <2>1, <2>2, <2>3
<1>6. codes \in Seq(Nat) /\ 1 = Len(codes) /\ \A i \in 1 .. 1 : codes[i] = Value(1, i).code
  BY <1>1, <1>5
<1>7. "BNE" \in BranchOps
  BY DEF BranchOps
<1>8. TestReads(1, Value(1, 1).symbol, NewConst)
  <2>1. NewConst[1] # "tmp"
    BY DEF NewConst
  <2>2. \A k \in 1 .. 1 : k = 1
    OBVIOUS
  <2> QED
    BY <2>1, <2>2 DEF TestReads
<1> QED
  BY <1>2, <1>4, <1>6, <1>7, <1>8, BranchesLists

\* A comparison of two expressions.
LEMMA ConditionCompareExpressionsLists ==
  ASSUME IInv, ListsKept, ConditionCompareExpressions PROVE KeepsLists
<1>1. PICK codes : codes = <<Value(2, 1).code, Value(2, 2).code>>
  OBVIOUS
<1>2. PICK op \in CompareOps :
        Branches(2, op, Value(2, 1).symbol, Value(2, 2).symbol, codes)
  BY <1>1 DEF ConditionCompareExpressions
<1>3. Reduce("COMPARE") /\ UNCHANGED <<connectives, dangling, merged>>
  BY DEF ConditionCompareExpressions
<1>4. Takes("COMPARE") = <<"expr", "expr">>
  BY Taken
<1>5. 2 = Len(Takes("COMPARE")) /\ 2 \in Nat /\ \A k \in 1 .. 2 : Takes("COMPARE")[k] = "expr"
  BY <1>4
<1>6. Value(2, 1).code \in Nat /\ Value(2, 2).code \in Nat
  <2>1. NextQuad(heap) \in Nat
    BY ListsAre, WiredIs
  <2>2. 1 \in 1 .. 2 /\ 2 \in 1 .. 2
    OBVIOUS
  <2>3. \A k \in 1 .. 2 : Value(2, k).code \in 0 .. NextQuad(heap)
    BY <1>3, <1>5, PartsAre
  <2> QED
    BY <2>1, <2>2, <2>3
<1>7. codes \in Seq(Nat) /\ 2 = Len(codes) /\ \A i \in 1 .. 2 : codes[i] = Value(2, i).code
  BY <1>1, <1>6
<1>8. op \in BranchOps
  BY FrontendAssumption
<1>9. TestReads(2, Value(2, 1).symbol, Value(2, 2).symbol)
  <2>1. 1 \in 1 .. 2 /\ 2 \in 1 .. 2 /\ \A k \in 1 .. 2 : k = 1 \/ k = 2
    OBVIOUS
  <2> QED
    BY <2>1 DEF TestReads
<1> QED
  BY <1>2, <1>3, <1>5, <1>7, <1>8, <1>9, BranchesLists

-----------------------------------------------------------------------------
(***************************************************************************)
(* OR and AND.                                                             *)
(***************************************************************************)

\* quad_list_concat() of two lists.
LEMMA TwoLists ==
  ASSUME NEW h, NEW a, NEW b
  PROVE  /\ Concat(h, <<a, b>>).heap = IF a = NULL THEN h ELSE Link(h, a, b)
         /\ Concat(h, <<a, b>>).list = IF a = NULL THEN b ELSE a
<1>1. PICK s : s = <<a, b>>
  OBVIOUS
<1>2. Len(s) = 2 /\ 2 \in Nat /\ s[1] = a /\ s[2] = b
  BY <1>1
<1>3. PICK f : After(f, h, s, 2) /\ Concat(h, s) = f[2]
  <2>1. Len(s) \in Nat
    BY <1>2
  <2>2. PICK f : After(f, h, s, Len(s)) /\ Concat(h, s) = f[Len(s)]
    BY <2>1, ConcatDefined
  <2> QED
    BY <2>2, <1>2
<1>4. /\ f[0] = [heap |-> h, list |-> NULL]
      /\ f[1] = Joined(f[0], a) /\ f[2] = Joined(f[1], b)
  <2>1. 1 \in 1 .. 2 /\ 2 \in 1 .. 2 /\ 1 - 1 = 0 /\ 2 - 1 = 1
    OBVIOUS
  <2> QED
    BY <2>1, <1>2, <1>3 DEF After
<1>5. f[1] = [heap |-> h, list |-> a]
  BY <1>4 DEF Joined
<1>6. CASE a = NULL
  <2>1. Joined([heap |-> h, list |-> a], b) = [heap |-> h, list |-> b]
    BY <1>6 DEF Joined
  <2> QED
    BY <2>1, <1>1, <1>3, <1>4, <1>5, <1>6
<1>7. CASE a # NULL
  <2>1. Joined([heap |-> h, list |-> a], b) = [heap |-> Link(h, a, b), list |-> a]
    BY <1>7 DEF Joined
  <2> QED
    BY <2>1, <1>1, <1>3, <1>4, <1>5, <1>7
<1> QED
  BY <1>6, <1>7

\* What follows a list that goes round is never reached.
LEMMA PairHangs ==
  ASSUME NEW h, Wired(h), NEW a, Loops(h, a), NEW b
  PROVE  Concat(h, <<a, b>>).heap.hung
<1>1. Endless(h, a) /\ a # NULL
  BY LoopsIsEndless
<1>2. Concat(h, <<a, b>>).heap = Link(h, a, b)
  BY <1>1, TwoLists
<1>3. h.hung \in BOOLEAN /\ h = [quad |-> h.quad, hung |-> h.hung]
  BY WiredIs
<1>4. Hang(h).hung
  BY <1>3 DEF Hang
<1>5. Link(h, a, b).hung
  BY <1>1, <1>4 DEF Link
<1> QED
  BY <1>2, <1>5

\* A list with one behind it that goes round goes round.
LEMMA PairLoops ==
  ASSUME NEW h, Wired(h), NEW a \in 0 .. NextQuad(h), NEW b, Loops(h, b),
         ~ Concat(h, <<a, b>>).heap.hung
  PROVE  Loops(Concat(h, <<a, b>>).heap, Concat(h, <<a, b>>).list)
<1>1. CASE a = NULL
  <2>1. Concat(h, <<a, b>>).heap = h /\ Concat(h, <<a, b>>).list = b
    BY <1>1, TwoLists
  <2> QED
    BY <2>1
<1>2. CASE a # NULL
  <2>1. Concat(h, <<a, b>>).heap = Link(h, a, b) /\ Concat(h, <<a, b>>).list = a
    BY <1>2, TwoLists
  <2>2. a \in 1 .. NextQuad(h)
    BY <1>2, WiredIs DEF NULL
  <2>3. ~ Link(h, a, b).hung
    BY <2>1
  <2>4. Loops(Link(h, a, b), a)
    BY <2>2, <2>3, LoopsBehind
  <2> QED
    BY <2>1, <2>4
<1> QED
  BY <1>1, <1>2

\* An end of a list is not linked to a node of it but that it goes round.
LEMMA EndCloses ==
  ASSUME NEW h, Wired(h), ~ h.hung, NEW list \in 0 .. NextQuad(h), ~ Endless(h, list),
         NEW x \in NodesOf(h, list), NEW y \in NodesOf(h, list)
  PROVE  LET r == Concat(h, <<x, y>>)
         IN  Loops(r.heap, list) /\ Loops(r.heap, r.list)
<1>1. PICK g : g = Link(h, x, y)
  OBVIOUS
<1>2. ~ Endless(h, x) /\ x # NULL /\ TailOf(h, x) = TailOf(h, list)
  BY Inside
<1>3. PICK m \in Nat : m = NextQuad(h)
  BY WiredIs
<1>4. PICK C : C = NodesOf(h, list)
  OBVIOUS
<1>5. list # NULL
  BY NoList
<1>6. /\ C \subseteq 1 .. m /\ list \in C
      /\ \A n \in C : /\ h.quad[n].successor \in C \cup {NULL}
                      /\ h.quad[n].successor = NULL => n = TailOf(h, list)
  BY <1>3, <1>4, <1>5, EndingIs
<1>7. /\ Wired(g) /\ NextQuad(g) = m /\ Grows(h, g) /\ ~ g.hung
      /\ g.quad[TailOf(h, list)].successor = y
  <2>1. x \in 1 .. NextQuad(h) /\ y \in 0 .. NextQuad(h)
    BY <1>3, <1>4, <1>6
  <2> QED
    BY <2>1, <1>1, <1>2, <1>3, LinkGrows
<1>8. ASSUME NEW n \in C PROVE g.quad[n].successor \in C
  <2>1. CASE h.quad[n].successor = NULL
    BY <2>1, <1>4, <1>6, <1>7
  <2>2. CASE h.quad[n].successor # NULL
    <3>1. g.quad[n].successor = h.quad[n].successor
      BY <2>2, <1>3, <1>6, <1>7 DEF Grows
    <3> QED
      BY <2>2, <3>1, <1>6
  <2> QED
    BY <2>1, <2>2
<1>9. C \in SUBSET (1 .. NextQuad(g)) /\ list \in C /\ x \in C
  BY <1>4, <1>6, <1>7
<1>10. Loops(g, list) /\ Loops(g, x)
  BY <1>8, <1>9 DEF Loops
<1>11. Concat(h, <<x, y>>).heap = g /\ Concat(h, <<x, y>>).list = x
  BY <1>1, <1>2, TwoLists
<1> QED
  BY <1>10, <1>11

\* The codes of two conditions in one, from the heap h to the heap g: behind
\* the nodes of the first come those of the second; the false list of the first
\* has its label.
CodeJoined(h, c1, c2, tag, g, code) ==
  /\ Wired(g) /\ ~ g.hung /\ NextQuad(g) = NextQuad(h)
  /\ code \in 0 .. NextQuad(h) /\ ~ Endless(g, code)
  /\ NodesOf(g, code) = NodesOf(h, c1.code) \cup NodesOf(h, c2.code)
  /\ \A m \in 1 .. NextQuad(h) :
       /\ g.quad[m].op = h.quad[m].op
       /\ g.quad[m].op1 = h.quad[m].op1 /\ g.quad[m].op2 = h.quad[m].op2
       /\ m \in NodesOf(h, c1.false_list) => g.quad[m].res = tag
       /\ m \notin NodesOf(h, c1.false_list) => g.quad[m].res = h.quad[m].res
       /\ m \notin NodesOf(g, code) => g.quad[m] = h.quad[m]
  /\ \A x \in NodesOf(h, c1.code) :
       ~ Endless(g, x) /\ NodesOf(g, x) = NodesOf(h, x) \cup NodesOf(h, c2.code)
  /\ \A x \in NodesOf(h, c2.code) :
       ~ Endless(g, x) /\ NodesOf(g, x) = NodesOf(h, x)

\* The false list of the first condition is completed and the codes are linked.
LEMMA CodesJoin ==
  ASSUME NEW h, Wired(h), ~ h.hung, NEW used, NEW dang,
         NEW c1, c1.code \in 0 .. NextQuad(h), Sound(h, c1, used, dang),
         NEW c2, c2.code \in 0 .. NextQuad(h), Sound(h, c2, used, dang),
         NodesOf(h, c1.code) \cap NodesOf(h, c2.code) = {}, NEW tag,
         NEW f, f = Complete(h, c1.false_list, tag)
  PROVE  CodeJoined(h, c1, c2, tag, Concat(f, <<c1.code, c2.code>>).heap,
                    Concat(f, <<c1.code, c2.code>>).list)
<1>1. PICK a, b, l : a = c1.code /\ b = c2.code /\ l = c1.false_list
  OBVIOUS
<1>2. PICK top \in Nat : top = NextQuad(h)
  BY WiredIs
<1>3. PICK A, B, F : A = NodesOf(h, a) /\ B = NodesOf(h, b) /\ F = NodesOf(h, l)
  OBVIOUS
<1>4. /\ a \in 0 .. top /\ ~ Endless(h, a) /\ A \subseteq 1 .. top
      /\ b \in 0 .. top /\ ~ Endless(h, b) /\ B \subseteq 1 .. top
      /\ A \cap B = {}
  <2>1. /\ a \in 0 .. NextQuad(h) /\ ~ Endless(h, a)
        /\ b \in 0 .. NextQuad(h) /\ ~ Endless(h, b)
    BY <1>1 DEF Sound
  <2>2. A \subseteq 1 .. top /\ B \subseteq 1 .. top
    BY <2>1, <1>2, <1>3, EndingIs
  <2> QED
    BY <2>1, <2>2, <1>1, <1>2, <1>3
<1>5. l \in 0 .. NextQuad(h) /\ ~ Endless(h, l) /\ F \subseteq A
  <2>1. l \in {c1.true_list, c1.false_list}
    BY <1>1
  <2> QED
    BY <2>1, <1>1, <1>3, ListsInside
<1>6. /\ Wired(f) /\ NextQuad(f) = top /\ ~ f.hung
      /\ \A m \in 1 .. top : /\ f.quad[m].successor = h.quad[m].successor
                             /\ f.quad[m].op = h.quad[m].op
                             /\ m \in F => f.quad[m].res = tag
                             /\ m \notin F => f.quad[m] = h.quad[m]
  <2>1. /\ Wired(f) /\ NextQuad(f) = top
        /\ f.hung <=> h.hung \/ Endless(h, l)
        /\ \A m \in 1 .. top :
             /\ f.quad[m].successor = h.quad[m].successor
             /\ f.quad[m].op = h.quad[m].op
             /\ IF m \in NodesOf(h, l) /\ ~ f.hung
                  THEN f.quad[m].res = tag
                  ELSE f.quad[m] = h.quad[m]
    BY <1>1, <1>2, CompleteWires
  <2>2. ~ f.hung
    BY <2>1, <1>5
  <2> QED
    BY <2>1, <2>2, <1>3
<1>7. ASSUME NEW x \in 0 .. NextQuad(h), ~ Endless(h, x), NodesOf(h, x) \subseteq 1 .. top
      PROVE  ~ Endless(f, x) /\ NodesOf(f, x) = NodesOf(h, x)
  <2>1. \A m \in NodesOf(h, x) : f.quad[m].successor = h.quad[m].successor
    BY <1>6, <1>7
  <2>2. NextQuad(h) <= NextQuad(f)
    BY <1>2, <1>6
  <2> QED
    BY <2>1, <2>2, <1>6, <1>7, Undisturbed
<1>8. /\ ~ Endless(f, a) /\ NodesOf(f, a) = A
      /\ ~ Endless(f, b) /\ NodesOf(f, b) = B
  BY <1>2, <1>3, <1>4, <1>7
<1>9. ASSUME NEW x \in A \cup B
      PROVE  ~ Endless(f, x) /\ NodesOf(f, x) = NodesOf(h, x)
  <2>1. ~ Endless(h, x) /\ x \in 1 .. top /\ NodesOf(h, x) \subseteq A \cup B
    <3>1. CASE x \in A
      BY <3>1, <1>2, <1>3, <1>4, Inside
    <3>2. CASE x \in B
      BY <3>2, <1>2, <1>3, <1>4, Inside
    <3> QED
      BY <3>1, <3>2
  <2>2. x \in 0 .. NextQuad(h) /\ NodesOf(h, x) \subseteq 1 .. top
    <3>1. x \in 0 .. top
      BY <2>1
    <3> QED
      BY <2>1, <3>1, <1>2, <1>4
  <2> QED
    BY <2>1, <2>2, <1>7
<1> DEFINE r == Concat(f, <<a, b>>)
<1> HIDE DEF r
<1>10. /\ a \in 0 .. NextQuad(f) /\ b \in 0 .. NextQuad(f)
       /\ NodesOf(f, a) \cap NodesOf(f, b) = {}
  BY <1>4, <1>6, <1>8
<1>11. InARow(f, a, b, r)
  BY <1>6, <1>8, <1>10, ConcatPair DEF r
<1>12. /\ Wired(r.heap) /\ ~ r.heap.hung
       /\ NextQuad(r.heap) = NextQuad(f) /\ r.list \in 0 .. NextQuad(f)
       /\ ~ Endless(r.heap, r.list)
       /\ NodesOf(r.heap, r.list) = NodesOf(f, a) \cup NodesOf(f, b)
       /\ \A n \in 1 .. NextQuad(f) :
            /\ Says(r.heap.quad[n]) = Says(f.quad[n])
            /\ n \notin NodesOf(f, a) \cup NodesOf(f, b) =>
                 r.heap.quad[n] = f.quad[n]
  BY <1>11 DEF InARow
<1>13. /\ \A x \in NodesOf(f, a) :
            /\ ~ Endless(r.heap, x)
            /\ NodesOf(r.heap, x) = NodesOf(f, x) \cup NodesOf(f, b)
       /\ \A x \in NodesOf(f, b) :
            ~ Endless(r.heap, x) /\ NodesOf(r.heap, x) = NodesOf(f, x)
  BY <1>11 DEF InARow
<1>14. \A m \in 1 .. top :
         /\ r.heap.quad[m].op = h.quad[m].op
         /\ m \in F => r.heap.quad[m].res = tag
         /\ m \notin F => r.heap.quad[m].res = h.quad[m].res
         /\ m \notin NodesOf(r.heap, r.list) => r.heap.quad[m] = h.quad[m]
  <2>1. \A m \in 1 .. top : /\ r.heap.quad[m].op = f.quad[m].op
                            /\ r.heap.quad[m].res = f.quad[m].res
    BY <1>6, <1>12 DEF Says
  <2>2. \A m \in 1 .. top : m \notin A \cup B => r.heap.quad[m] = f.quad[m]
    BY <1>6, <1>8, <1>12
  <2>3. NodesOf(r.heap, r.list) = A \cup B
    BY <1>8, <1>12
  <2> QED
    BY <2>1, <2>2, <2>3, <1>5, <1>6
<1>15. \A m \in 1 .. top : /\ r.heap.quad[m].op1 = h.quad[m].op1
                           /\ r.heap.quad[m].op2 = h.quad[m].op2
  <2>1. \A m \in 1 .. top : /\ f.quad[m].op1 = h.quad[m].op1
                            /\ f.quad[m].op2 = h.quad[m].op2
    BY <1>1, <1>2, CompleteWires
  <2>2. \A m \in 1 .. top : /\ r.heap.quad[m].op1 = f.quad[m].op1
                            /\ r.heap.quad[m].op2 = f.quad[m].op2
    BY <1>6, <1>12 DEF Says
  <2> QED
    BY <2>1, <2>2
<1>16. CodeJoined(h, c1, c2, tag, r.heap, r.list)
  <2>1. /\ \A x \in A : ~ Endless(r.heap, x) /\ NodesOf(r.heap, x) = NodesOf(h, x) \cup B
        /\ \A x \in B : ~ Endless(r.heap, x) /\ NodesOf(r.heap, x) = NodesOf(h, x)
    BY <1>8, <1>9, <1>13
  <2> QED
    BY <2>1, <1>1, <1>2, <1>3, <1>6, <1>8, <1>12, <1>14, <1>15 DEF CodeJoined
<1> QED
  BY <1>1, <1>16 DEF r

\* The list that is not empty, of two of which one is.
Either(x1, x2) == IF x1 = NULL THEN x2 ELSE x1

\* If one of two lists of exits is empty the other is their list.
LEMMA OneExit ==
  ASSUME NEW h, NEW c1, NEW c2, NEW tag, NEW g, NEW code,
         CodeJoined(h, c1, c2, tag, g, code),
         NEW x1 \in NodesOf(h, c1.code) \cup {NULL},
         NEW x2 \in NodesOf(h, c2.code) \cup {NULL}, x1 = NULL \/ x2 = NULL
  PROVE  /\ Concat(g, <<x1, x2>>).heap = g
         /\ Concat(g, <<x1, x2>>).list = Either(x1, x2)
<1>1. /\ Wired(g) /\ ~ g.hung /\ code \in 0 .. NextQuad(g) /\ ~ Endless(g, code)
      /\ NodesOf(g, code) = NodesOf(h, c1.code) \cup NodesOf(h, c2.code)
  BY DEF CodeJoined
<1>2. ASSUME NEW x \in NodesOf(g, code) \cup {NULL}
      PROVE  x \in 0 .. NextQuad(g) /\ ~ Endless(g, x)
  <2>1. CASE x = NULL
    <3>1. ~ Endless(g, NULL) /\ NextQuad(g) \in Nat
      BY <1>1, NoList, WiredIs
    <3> QED
      BY <2>1, <3>1 DEF NULL
  <2>2. CASE x \in NodesOf(g, code)
    <3>1. ~ Endless(g, x) /\ x \in 1 .. NextQuad(g)
      BY <2>2, <1>1, Inside
    <3>2. NextQuad(g) \in Nat
      BY <1>1, WiredIs
    <3> QED
      BY <3>1, <3>2
  <2> QED
    BY <2>1, <2>2
<1>3. /\ x1 \in 0 .. NextQuad(g) /\ ~ Endless(g, x1)
      /\ x2 \in 0 .. NextQuad(g)
  BY <1>1, <1>2
<1> QED
  BY <1>1, <1>3, OneList DEF Either

\* Else both lists go on into the code of the second condition, and that they
\* are linked to each other makes the code go round.
LEMMA TwoExits ==
  ASSUME NEW h, NEW c1, NEW c2, NEW tag, NEW g, NEW code,
         CodeJoined(h, c1, c2, tag, g, code),
         NEW x1 \in NodesOf(h, c1.code), NEW x2 \in NodesOf(h, c2.code)
  PROVE  /\ Loops(Concat(g, <<x1, x2>>).heap, code)
         /\ Loops(Concat(g, <<x1, x2>>).heap, Concat(g, <<x1, x2>>).list)
<1>1. /\ Wired(g) /\ ~ g.hung /\ code \in 0 .. NextQuad(g) /\ ~ Endless(g, code)
      /\ x1 \in NodesOf(g, code) /\ x2 \in NodesOf(g, code)
  BY DEF CodeJoined
<1> QED
  BY <1>1, EndCloses

\* The nodes of the code are those of the two conditions.
LEMMA ConnectedNodes ==
  ASSUME IInv, Apart(heap, vals, quad_list, connectives, dangling), NEW f, Reduce(f),
         NEW n \in Nat, n = Len(Takes(f)), NEW i \in 1 .. n, NEW j \in 1 .. n,
         NEW tag, NEW g, NEW code,
         CodeJoined(heap, Value(n, i), Value(n, j), tag, g, code)
  PROVE  /\ NodesOf(g, code) \subseteq TopNodes(n)
         /\ \A m \in 1 .. NextQuad(heap) :
              m \notin TopNodes(n) => g.quad[m] = heap.quad[m]
<1>1. /\ NodesOf(g, code) = NodesOf(heap, Value(n, i).code)
                               \cup NodesOf(heap, Value(n, j).code)
      /\ \A m \in 1 .. NextQuad(heap) : m \notin NodesOf(g, code) => g.quad[m] = heap.quad[m]
  BY DEF CodeJoined
<1>2. /\ NodesOf(heap, Value(n, i).code) \subseteq TopNodes(n)
      /\ NodesOf(heap, Value(n, j).code) \subseteq TopNodes(n)
  BY TopIs
<1> QED
  BY <1>1, <1>2

\* One of the lists of a condition, for the branches b; d are the others.
HasExit(h, c, x, b, d) ==
  /\ x \in NodesOf(h, c.code) \cup {NULL} /\ (x = NULL <=> b = {})
  /\ AllBranches(h, x)
  /\ (b = {}) # (d = {}) => AllBranches(h, c.code)
  /\ b # {} \/ d # {}

\* The lists of one kind of two conditions of which one has none are joined;
\* both lists of the result have branches only.
LEMMA ConnectedBranches ==
  ASSUME NEW h, NEW c1, NEW c2, NEW tag, NEW g, NEW code,
         CodeJoined(h, c1, c2, tag, g, code),
         NEW x1, NEW b1, NEW d1, HasExit(h, c1, x1, b1, d1),
         NEW x2, NEW b2, NEW d2, HasExit(h, c2, x2, b2, d2),
         NEW y2, HasExit(h, c2, y2, d2, b2), x1 = NULL \/ x2 = NULL
  PROVE  /\ AllBranches(g, Either(x1, x2)) /\ AllBranches(g, y2)
         /\ (b1 \cup b2 = {}) # (d2 = {}) => AllBranches(g, code)
<1>0. /\ x1 \in NodesOf(h, c1.code) \cup {NULL} /\ (x1 = NULL <=> b1 = {})
      /\ x2 \in NodesOf(h, c2.code) \cup {NULL} /\ (x2 = NULL <=> b2 = {})
      /\ y2 \in NodesOf(h, c2.code) \cup {NULL}
      /\ AllBranches(h, x1) /\ AllBranches(h, x2) /\ AllBranches(h, y2)
      /\ (b1 = {}) # (d1 = {}) => AllBranches(h, c1.code)
      /\ (b2 = {}) # (d2 = {}) => AllBranches(h, c2.code)
      /\ (b1 # {} \/ d1 # {}) /\ (b2 # {} \/ d2 # {})
  BY DEF HasExit
<1>1. PICK A, B : A = NodesOf(h, c1.code) /\ B = NodesOf(h, c2.code)
  OBVIOUS
<1>2. /\ Wired(g) /\ NextQuad(g) = NextQuad(h) /\ NodesOf(g, code) = A \cup B
      /\ code \in 0 .. NextQuad(g) /\ ~ Endless(g, code)
      /\ \A m \in 1 .. NextQuad(h) : g.quad[m].op = h.quad[m].op
      /\ \A x \in A : NodesOf(g, x) = NodesOf(h, x) \cup B
      /\ \A x \in B : NodesOf(g, x) = NodesOf(h, x)
  BY <1>1 DEF CodeJoined
<1>3. A \cup B \subseteq 1 .. NextQuad(h) /\ NodesOf(g, NULL) = {}
  BY <1>2, EndingIs, NoList
<1>4. \A m \in A \cup B : g.quad[m].op = h.quad[m].op
  BY <1>2, <1>3
<1>5. \A x \in A \cup B : NodesOf(g, x) \subseteq A \cup B
  BY <1>2, <1>3, Inside
<1>6. ASSUME NEW y \in B \cup {NULL}, AllBranches(h, y) PROVE AllBranches(g, y)
  BY <1>2, <1>3, <1>4, <1>5, <1>6 DEF AllBranches
<1>7. ASSUME NEW x \in A, AllBranches(h, x), AllBranches(h, c2.code)
      PROVE  AllBranches(g, x)
  BY <1>1, <1>2, <1>4, <1>5, <1>7 DEF AllBranches
<1>8. AllBranches(g, Either(x1, x2))
  <2>1. CASE x1 = NULL
    BY <1>0, <2>1, <1>1, <1>6 DEF Either
  <2>2. CASE x1 # NULL
    <3>1. AllBranches(h, c2.code)
      BY <1>0, <2>2
    <3> QED
      BY <1>0, <2>2, <3>1, <1>1, <1>7 DEF Either
  <2> QED
    BY <2>1, <2>2
<1>9. (b1 \cup b2 = {}) # (d2 = {}) => AllBranches(g, code)
  <2>1. SUFFICES ASSUME (b1 \cup b2 = {}) # (d2 = {}) PROVE AllBranches(g, code)
    OBVIOUS
  <2>2. AllBranches(h, c2.code)
    BY <1>0, <2>1
  <2>3. b1 = {}
    BY <1>0, <2>1
  <2>4. AllBranches(h, c1.code)
    BY <1>0, <2>3
  <2> QED
    BY <2>2, <2>4, <1>1, <1>2, <1>4 DEF AllBranches
<1> QED
  BY <1>0, <1>1, <1>6, <1>8, <1>9

\* One of the lists of a condition has the branches b.
HasList(h, c, x, b) == x \in NodesOf(h, c.code) \cup {NULL} /\ b \subseteq NodesOf(h, x)

\* The list that is joined has the branches of both exits, the other list of the
\* second condition keeps its own.
LEMMA ConnectedHeld ==
  ASSUME NEW h, Wired(h), NEW c1, NEW c2, NEW tag, NEW g, NEW code,
         CodeJoined(h, c1, c2, tag, g, code),
         NEW x1, NEW b1, HasList(h, c1, x1, b1), NEW x2, NEW b2, HasList(h, c2, x2, b2),
         NEW y2, NEW d2, HasList(h, c2, y2, d2), x1 = NULL \/ x2 = NULL
  PROVE  b1 \cup b2 \subseteq NodesOf(g, Either(x1, x2)) /\ d2 \subseteq NodesOf(g, y2)
<1>1. /\ \A x \in NodesOf(h, c1.code) :
           NodesOf(g, x) = NodesOf(h, x) \cup NodesOf(h, c2.code)
      /\ \A x \in NodesOf(h, c2.code) : NodesOf(g, x) = NodesOf(h, x)
  BY DEF CodeJoined
<1>2. NodesOf(h, NULL) = {}
  BY NoList
<1>3. CASE x1 = NULL
  BY <1>1, <1>2, <1>3 DEF Either, HasList
<1>4. CASE x1 # NULL
  BY <1>1, <1>2, <1>4 DEF Either, HasList
<1> QED
  BY <1>3, <1>4

\* Of the branches without a label those of the first condition's true exit are
\* left, and those of the second condition.
LEMMA ConnectedAwaited ==
  ASSUME NEW h, NEW c1, NEW c2, NEW tag, tag # NoSymbol, NEW g, NEW code,
         CodeJoined(h, c1, c2, tag, g, code), NodesOf(g, code) \subseteq 1 .. NextQuad(h),
         NEW dang, Held(h, c1), Awaited(h, c1, dang), Awaited(h, c2, dang),
         NEW m \in NodesOf(g, code), Open(g, m)
  PROVE  m \in c1.yes \cup c2.yes \cup c2.no \cup dang
<1>1. m \in NodesOf(h, c1.code) \cup NodesOf(h, c2.code) /\ m \in 1 .. NextQuad(h)
  BY DEF CodeJoined
<1>2. /\ g.quad[m].op = h.quad[m].op
      /\ m \in NodesOf(h, c1.false_list) => g.quad[m].res = tag
      /\ m \notin NodesOf(h, c1.false_list) => g.quad[m].res = h.quad[m].res
  BY <1>1 DEF CodeJoined
<1>3. m \notin NodesOf(h, c1.false_list) /\ Open(h, m)
  BY <1>2 DEF Open
<1> QED
  BY <1>1, <1>3 DEF Held, Awaited

\* A connective takes two conditions and a tag.
TwoConditions(f, n, i, j) ==
  \A k \in 1 .. n : /\ Takes(f)[k] # "expr"
                    /\ k = i \/ k = j \/ Value(n, k).code = NULL

\* The result has all of their code.
LEMMA ConnectedGathers ==
  ASSUME IInv, Apart(heap, vals, quad_list, connectives, dangling), NEW f, Reduce(f),
         NEW n \in Nat, n = Len(Takes(f)), NEW i \in 1 .. n, NEW j \in 1 .. n,
         TwoConditions(f, n, i, j), NEW tag, NEW code,
         CodeJoined(heap, Value(n, i), Value(n, j), tag, heap', code),
         NEW attr, attr.code = code
  PROVE  SameOperands(heap, heap') /\ Gathers(n, attr)
<1>1. PICK c1, c2 : c1 = Value(n, i) /\ c2 = Value(n, j)
  OBVIOUS
<1>2. /\ NextQuad(heap') = NextQuad(heap)
      /\ NodesOf(heap', code) = NodesOf(heap, c1.code) \cup NodesOf(heap, c2.code)
      /\ \A m \in 1 .. NextQuad(heap) :
           /\ heap'.quad[m].op = heap.quad[m].op
           /\ heap'.quad[m].op1 = heap.quad[m].op1
           /\ heap'.quad[m].op2 = heap.quad[m].op2
           /\ m \notin NodesOf(heap, c1.false_list) => heap'.quad[m].res = heap.quad[m].res
  BY <1>1 DEF CodeJoined
<1>3. SameOperands(heap, heap')
  <2>1. Sound(heap, c1, connectives, dangling)
    BY <1>1, TopIs
  <2>2. \A m \in NodesOf(heap, c1.false_list) : heap.quad[m].op \in BranchOps
    BY <2>1 DEF Sound, OnlyBranches, AllBranches
  <2> QED
    BY <2>2, <1>2 DEF SameOperands
<1>4. Fresh(heap') = {}
  <2>1. NextQuad(heap) \in Nat
    BY ListsAre, WiredIs
  <2> QED
    BY <2>1, <1>2 DEF Fresh
<1>5. ASSUME NEW k \in 1 .. n
      PROVE  /\ ~ IsExpression(k)
             /\ \/ NodesOf(heap, Value(n, k).code) \subseteq NodesOf(heap', code)
                \/ NodesOf(heap, Value(n, k).code) = {}
  <2>1. Head(work) = f
    BY DEF Reduce
  <2>2. NodesOf(heap, NULL) = {}
    BY ListsAre, NoList
  <2>3. Takes(f)[k] # "expr" /\ (k = i \/ k = j \/ Value(n, k).code = NULL)
    BY DEF TwoConditions
  <2>4. ~ IsExpression(k)
    BY <2>1, <2>3 DEF IsExpression
  <2>5. CASE k = i
    BY <2>4, <2>5, <1>1, <1>2
  <2>6. CASE k = j
    BY <2>4, <2>6, <1>1, <1>2
  <2>7. CASE Value(n, k).code = NULL
    BY <2>2, <2>4, <2>7
  <2> QED
    BY <2>3, <2>5, <2>6, <2>7
<1>6. Gathers(n, attr)
  BY <1>4, <1>5 DEF Gathers, Asked
<1> QED
  BY <1>3, <1>6

\* The value of an OR of conditions of which one has no true exit.
IsOr(c1, c2, code, attr) ==
  /\ attr.code = code
  /\ attr.true_list = Either(c1.true_list, c2.true_list)
  /\ attr.yes = c1.yes \cup c2.yes
  /\ attr.false_list = c2.false_list /\ attr.no = c2.no
  /\ c1.true_list = NULL \/ c2.true_list = NULL
  /\ c1.yes # {} \/ c1.no # {}
  /\ c2.yes # {} \/ c2.no # {}

\* It is made of the two conditions.
LEMMA OrMade ==
  ASSUME IInv, Apart(heap, vals, quad_list, connectives, dangling), NEW f, Reduce(f),
         NEW n \in Nat, n = Len(Takes(f)), NEW i \in 1 .. n, NEW j \in 1 .. n, i # j,
         TwoConditions(f, n, i, j),
         NEW c1, c1 = Value(n, i), NEW c2, c2 = Value(n, j),
         NEW tag, tag # NoSymbol,
         NEW g, NEW code, CodeJoined(heap, c1, c2, tag, g, code), heap' = g,
         NEW attr, IsOr(c1, c2, code, attr),
         connectives' = connectives \cup {"OR"}, dangling' = dangling
  PROVE  MadeOf(n, attr)
<1>0. /\ attr.code = code
      /\ attr.true_list = Either(c1.true_list, c2.true_list)
      /\ attr.yes = c1.yes \cup c2.yes
      /\ attr.false_list = c2.false_list /\ attr.no = c2.no
      /\ c1.true_list = NULL \/ c2.true_list = NULL
      /\ c1.yes # {} \/ c1.no # {}
      /\ c2.yes # {} \/ c2.no # {}
  BY DEF IsOr
<1>1. Sound(heap, c1, connectives, dangling) /\ Sound(heap, c2, connectives, dangling)
  BY TopIs
<1>2. /\ Exit(g, attr.true_list, code, attr.yes)
      /\ Exit(g, attr.false_list, code, attr.no)
      /\ NodesOf(g, code) \subseteq TopNodes(n)
      /\ \A m \in 1 .. NextQuad(heap) : m \notin TopNodes(n) => g.quad[m] = heap.quad[m]
  <2>1. /\ Exit(heap, c1.true_list, c1.code, c1.yes)
        /\ Exit(heap, c2.true_list, c2.code, c2.yes)
        /\ Exit(heap, c2.false_list, c2.code, c2.no)
    BY <1>0, <1>1 DEF Sound
  <2>2. /\ Exit(g, Either(c1.true_list, c2.true_list), code, c1.yes \cup c2.yes)
        /\ Exit(g, c2.false_list, code, c2.no)
    <3>1. NodesOf(g, code) = NodesOf(heap, c1.code) \cup NodesOf(heap, c2.code)
      BY DEF CodeJoined
    <3>2. CASE c1.true_list = NULL
      BY <1>0, <3>1, <3>2, <2>1 DEF Exit, Either
    <3>3. CASE c1.true_list # NULL
      BY <1>0, <3>1, <3>3, <2>1 DEF Exit, Either
    <3> QED
      BY <1>0, <3>2, <3>3
  <2>3. /\ NodesOf(g, code) \subseteq TopNodes(n)
        /\ \A m \in 1 .. NextQuad(heap) : m \notin TopNodes(n) => g.quad[m] = heap.quad[m]
    BY ConnectedNodes
  <2> QED
    BY <1>0, <2>2, <2>3
<1>3. /\ NodesOf(g, code) = NodesOf(heap, c1.code) \cup NodesOf(heap, c2.code)
      /\ \A m \in 1 .. NextQuad(heap) :
           /\ g.quad[m].op = heap.quad[m].op
           /\ m \in NodesOf(heap, c1.false_list) => g.quad[m].res = tag
           /\ m \notin NodesOf(heap, c1.false_list) => g.quad[m].res = heap.quad[m].res
      /\ \A x \in NodesOf(heap, c1.code) :
           NodesOf(g, x) = NodesOf(heap, x) \cup NodesOf(heap, c2.code)
      /\ \A x \in NodesOf(heap, c2.code) : NodesOf(g, x) = NodesOf(heap, x)
      /\ Wired(g) /\ ~ g.hung /\ ~ Endless(g, code)
  BY DEF CodeJoined
<1>4. NodesOf(heap, NULL) = {} /\ NodesOf(g, NULL) = {}
  BY <1>0, <1>3, ListsAre, NoList
<1>5. Held(g, attr) /\ Awaited(g, attr, dangling')
  <2>1. Held(heap, c1) /\ Held(heap, c2)
        /\ Awaited(heap, c1, dangling) /\ Awaited(heap, c2, dangling)
    BY <1>1 DEF Sound
  <2>2. /\ c1.true_list \in NodesOf(heap, c1.code) \cup {NULL}
        /\ c2.true_list \in NodesOf(heap, c2.code) \cup {NULL}
        /\ c2.false_list \in NodesOf(heap, c2.code) \cup {NULL}
    BY <1>1 DEF Sound, Exit
  <2>3. /\ c1.yes \cup c2.yes \subseteq NodesOf(g, Either(c1.true_list, c2.true_list))
        /\ c2.no \subseteq NodesOf(g, c2.false_list)
    <3>1. /\ HasList(heap, c1, c1.true_list, c1.yes)
          /\ HasList(heap, c2, c2.true_list, c2.yes)
          /\ HasList(heap, c2, c2.false_list, c2.no)
      BY <2>1, <2>2 DEF Held, HasList
    <3>2. Wired(heap) /\ (c1.true_list = NULL \/ c2.true_list = NULL)
      BY <1>0, ListsAre
    <3> QED
      BY <3>1, <3>2, ConnectedHeld
  <2>4. NodesOf(g, code) \subseteq 1 .. NextQuad(heap)
    BY <1>2, TopIs
  <2>5. \A m \in NodesOf(g, code) :
          Open(g, m) => m \in c1.yes \cup c2.yes \cup c2.no \cup dangling
    BY <2>1, <2>4, ConnectedAwaited
  <2> QED
    BY <1>0, <2>3, <2>5 DEF Held, Awaited
<1>6. Sound(g, attr, connectives', dangling')
  <2>1. connectives' # {}
    OBVIOUS
  <2>2. OnlyBranches(heap, c1) /\ OnlyBranches(heap, c2)
    BY <1>0, <1>1 DEF Sound
  <2>3. /\ HasExit(heap, c1, c1.true_list, c1.yes, c1.no)
        /\ HasExit(heap, c2, c2.true_list, c2.yes, c2.no)
        /\ HasExit(heap, c2, c2.false_list, c2.no, c2.yes)
    BY <1>0, <1>1, <2>2 DEF Sound, Exit, OnlyBranches, HasExit
  <2>4. /\ AllBranches(g, Either(c1.true_list, c2.true_list))
        /\ AllBranches(g, c2.false_list)
        /\ (c1.yes \cup c2.yes = {}) # (c2.no = {}) => AllBranches(g, code)
    BY <1>0, <2>3, ConnectedBranches
  <2>5. OnlyBranches(g, attr)
    BY <1>0, <2>4 DEF OnlyBranches
  <2> QED
    BY <1>0, <2>1, <2>5, <1>2, <1>3, <1>5 DEF Sound
<1>7. connectives' # {}
  OBVIOUS
<1>8. SameOperands(heap, heap') /\ Gathers(n, attr)
  BY <1>0, ConnectedGathers
<1> QED
  BY <1>0, <1>2, <1>3, <1>6, <1>7, <1>8 DEF MadeOf

\* The value of an AND of conditions of which one has no false exit.
IsAnd(c1, c2, code, attr) ==
  /\ attr.code = code
  /\ attr.false_list = Either(c1.false_list, c2.false_list)
  /\ attr.no = c1.no \cup c2.no
  /\ attr.true_list = c2.true_list /\ attr.yes = c2.yes
  /\ c1.false_list = NULL \/ c2.false_list = NULL
  /\ c1.yes # {} \/ c1.no # {}
  /\ c2.yes # {} \/ c2.no # {}

\* It is made of the two conditions; the true exit of the first one dangles.
LEMMA AndMade ==
  ASSUME IInv, Apart(heap, vals, quad_list, connectives, dangling), NEW f, Reduce(f),
         NEW n \in Nat, n = Len(Takes(f)), NEW i \in 1 .. n, NEW j \in 1 .. n, i # j,
         TwoConditions(f, n, i, j),
         NEW c1, c1 = Value(n, i), NEW c2, c2 = Value(n, j),
         NEW tag, tag # NoSymbol,
         NEW g, NEW code, CodeJoined(heap, c1, c2, tag, g, code), heap' = g,
         NEW attr, IsAnd(c1, c2, code, attr),
         connectives' = connectives \cup {"AND"},
         dangling' = dangling \cup c1.yes
  PROVE  MadeOf(n, attr)
<1>0. /\ attr.code = code
      /\ attr.false_list = Either(c1.false_list, c2.false_list)
      /\ attr.no = c1.no \cup c2.no
      /\ attr.true_list = c2.true_list /\ attr.yes = c2.yes
      /\ c1.false_list = NULL \/ c2.false_list = NULL
      /\ c1.yes # {} \/ c1.no # {}
      /\ c2.yes # {} \/ c2.no # {}
  BY DEF IsAnd
<1>1. Sound(heap, c1, connectives, dangling) /\ Sound(heap, c2, connectives, dangling)
  BY TopIs
<1>2. /\ Exit(g, attr.true_list, code, attr.yes)
      /\ Exit(g, attr.false_list, code, attr.no)
      /\ NodesOf(g, code) \subseteq TopNodes(n)
      /\ \A m \in 1 .. NextQuad(heap) : m \notin TopNodes(n) => g.quad[m] = heap.quad[m]
  <2>1. /\ Exit(heap, c1.false_list, c1.code, c1.no)
        /\ Exit(heap, c2.false_list, c2.code, c2.no)
        /\ Exit(heap, c2.true_list, c2.code, c2.yes)
    BY <1>0, <1>1 DEF Sound
  <2>2. /\ Exit(g, Either(c1.false_list, c2.false_list), code, c1.no \cup c2.no)
        /\ Exit(g, c2.true_list, code, c2.yes)
    <3>1. NodesOf(g, code) = NodesOf(heap, c1.code) \cup NodesOf(heap, c2.code)
      BY DEF CodeJoined
    <3>2. CASE c1.false_list = NULL
      BY <1>0, <3>1, <3>2, <2>1 DEF Exit, Either
    <3>3. CASE c1.false_list # NULL
      BY <1>0, <3>1, <3>3, <2>1 DEF Exit, Either
    <3> QED
      BY <1>0, <3>2, <3>3
  <2>3. /\ NodesOf(g, code) \subseteq TopNodes(n)
        /\ \A m \in 1 .. NextQuad(heap) : m \notin TopNodes(n) => g.quad[m] = heap.quad[m]
    BY ConnectedNodes
  <2> QED
    BY <1>0, <2>2, <2>3
<1>3. Wired(g) /\ ~ g.hung /\ ~ Endless(g, code)
  BY DEF CodeJoined
<1>4. Held(g, attr) /\ Awaited(g, attr, dangling')
  <2>1. Held(heap, c1) /\ Held(heap, c2)
        /\ Awaited(heap, c1, dangling) /\ Awaited(heap, c2, dangling)
    BY <1>0, <1>1 DEF Sound
  <2>2. /\ c1.false_list \in NodesOf(heap, c1.code) \cup {NULL}
        /\ c2.false_list \in NodesOf(heap, c2.code) \cup {NULL}
        /\ c2.true_list \in NodesOf(heap, c2.code) \cup {NULL}
    BY <1>0, <1>1 DEF Sound, Exit
  <2>3. /\ c1.no \cup c2.no \subseteq NodesOf(g, Either(c1.false_list, c2.false_list))
        /\ c2.yes \subseteq NodesOf(g, c2.true_list)
    <3>1. /\ HasList(heap, c1, c1.false_list, c1.no)
          /\ HasList(heap, c2, c2.false_list, c2.no)
          /\ HasList(heap, c2, c2.true_list, c2.yes)
      BY <2>1, <2>2 DEF Held, HasList
    <3>2. Wired(heap) /\ (c1.false_list = NULL \/ c2.false_list = NULL)
      BY <1>0, ListsAre
    <3> QED
      BY <3>1, <3>2, ConnectedHeld
  <2>4. NodesOf(g, code) \subseteq 1 .. NextQuad(heap)
    BY <1>0, <1>2, TopIs
  <2>5. \A m \in NodesOf(g, code) :
          Open(g, m) => m \in c1.yes \cup c2.yes \cup c2.no \cup dangling
    BY <1>0, <2>1, <2>4, ConnectedAwaited
  <2> QED
    BY <1>0, <2>3, <2>5 DEF Held, Awaited
<1>5. Sound(g, attr, connectives', dangling')
  <2>2. OnlyBranches(heap, c1) /\ OnlyBranches(heap, c2)
    BY <1>0, <1>1 DEF Sound
  <2>3. /\ HasExit(heap, c1, c1.false_list, c1.no, c1.yes)
        /\ HasExit(heap, c2, c2.false_list, c2.no, c2.yes)
        /\ HasExit(heap, c2, c2.true_list, c2.yes, c2.no)
    BY <1>0, <1>1, <2>2 DEF Sound, Exit, OnlyBranches, HasExit
  <2>4. /\ AllBranches(g, Either(c1.false_list, c2.false_list))
        /\ AllBranches(g, c2.true_list)
        /\ (c1.no \cup c2.no = {}) # (c2.yes = {}) => AllBranches(g, code)
    BY <1>0, <2>3, ConnectedBranches
  <2>5. OnlyBranches(g, attr)
    BY <1>0, <2>4 DEF OnlyBranches
  <2>6. connectives' # {}
    OBVIOUS
  <2> QED
    BY <1>0, <2>5, <2>6, <1>2, <1>3, <1>4 DEF Sound
<1>6. SameOperands(heap, heap') /\ Gathers(n, attr)
  BY <1>0, ConnectedGathers
<1>7. connectives' # {}
  OBVIOUS
<1> QED
  BY <1>0, <1>2, <1>3, <1>5, <1>6, <1>7 DEF MadeOf

\* The heaps of a connective: f when the false list of the first condition has
\* its label, g when the codes are linked, k when the exits are.
Connected(h, c1, c2, tag, x1, x2, f, g, code, k, list) ==
  /\ f = Complete(h, c1.false_list, tag)
  /\ g = Concat(f, <<c1.code, c2.code>>).heap
  /\ code = Concat(f, <<c1.code, c2.code>>).list
  /\ k = Concat(g, <<x1, x2>>).heap
  /\ list = Concat(g, <<x1, x2>>).list

\* If the first code goes round the links are never made; what goes round behind
\* it makes the lists that lead to it go round.
LEMMA ConnectedTraps ==
  ASSUME NEW h, Wired(h), NEW c1, c1.code \in 0 .. NextQuad(h),
         NEW c2, c2.code \in 0 .. NextQuad(h), NEW tag,
         NEW x1 \in 0 .. NextQuad(h), NEW x2 \in 0 .. NextQuad(h),
         NEW f, NEW g, NEW code, NEW k, NEW list,
         Connected(h, c1, c2, tag, x1, x2, f, g, code, k, list)
  PROVE  /\ Wired(k) /\ Grows(h, k)
         /\ Loops(h, c1.code) => k.hung
         /\ Loops(h, c2.code) => k.hung \/ Loops(k, code)
         /\ Loops(h, x2) => k.hung \/ Loops(k, list)
         /\ \A y : Loops(h, y) => k.hung \/ Loops(k, y)
<1>1. PICK a, b : a = c1.code /\ b = c2.code
  OBVIOUS
<1>2. Wired(f) /\ NextQuad(f) = NextQuad(h) /\ Grows(h, f)
  BY CompleteWires DEF Connected
<1>3. g = Concat(f, <<a, b>>).heap /\ code = Concat(f, <<a, b>>).list
  BY <1>1 DEF Connected
<1>4. k = Concat(g, <<x1, x2>>).heap /\ list = Concat(g, <<x1, x2>>).list
  BY DEF Connected
<1>5. Wired(g) /\ NextQuad(g) = NextQuad(h) /\ Grows(f, g)
  <2>1. PICK s : s = <<a, b>>
    OBVIOUS
  <2>2. Len(s) \in Nat /\ \A i \in 1 .. Len(s) : s[i] \in 0 .. NextQuad(f)
    BY <2>1, <1>1, <1>2
  <2> DEFINE r == Concat(f, s)
  <2> HIDE DEF r
  <2>3. Wired(r.heap) /\ NextQuad(r.heap) = NextQuad(f) /\ Grows(f, r.heap)
    BY <2>2, <1>2, ConcatStays DEF r
  <2>4. g = r.heap
    BY <2>1, <1>3 DEF r
  <2> QED
    BY <2>3, <2>4, <1>2
<1>6. Wired(k) /\ Grows(g, k)
  <2>1. PICK s : s = <<x1, x2>>
    OBVIOUS
  <2>2. Len(s) \in Nat /\ \A i \in 1 .. Len(s) : s[i] \in 0 .. NextQuad(g)
    BY <2>1, <1>5
  <2> DEFINE r == Concat(g, s)
  <2> HIDE DEF r
  <2>3. Wired(r.heap) /\ Grows(g, r.heap)
    BY <2>2, <1>5, ConcatStays DEF r
  <2>4. k = r.heap
    BY <2>1, <1>4 DEF r
  <2> QED
    BY <2>3, <2>4
<1>7. Grows(h, g) /\ Grows(h, k)
  BY <1>2, <1>5, <1>6, GrowsOn
<1>8. ~ k.hung => ~ f.hung /\ ~ g.hung
  <2>1. (f.hung => g.hung) /\ (g.hung => k.hung)
    BY <1>5, <1>6 DEF Grows
  <2> QED
    BY <2>1
<1>9. Loops(h, a) => k.hung
  <2>1. SUFFICES ASSUME Loops(h, a), ~ k.hung PROVE FALSE
    OBVIOUS
  <2>2. Loops(f, a)
    BY <2>1, <1>2, <1>8, LoopsOn
  <2>3. g.hung
    BY <2>2, <1>2, <1>3, PairHangs
  <2> QED
    BY <2>1, <2>3, <1>8
<1>10. ASSUME ~ k.hung, NEW y, Loops(h, y)
       PROVE  Loops(k, y) /\ Loops(f, y) /\ Loops(g, y)
  BY <1>2, <1>5, <1>6, <1>7, <1>8, <1>10, LoopsOn
<1>11. ASSUME ~ k.hung, Loops(h, b) PROVE Loops(k, code)
  <2>1. Loops(f, b) /\ a \in 0 .. NextQuad(f)
    BY <1>1, <1>2, <1>10, <1>11
  <2>2. ~ Concat(f, <<a, b>>).heap.hung
    BY <1>3, <1>8, <1>11
  <2>3. Loops(Concat(f, <<a, b>>).heap, Concat(f, <<a, b>>).list)
    BY <2>1, <2>2, <1>2, PairLoops
  <2>4. Loops(g, code)
    BY <2>3, <1>3
  <2> QED
    BY <2>4, <1>5, <1>6, <1>11, LoopsOn
<1>12. ASSUME ~ k.hung, Loops(h, x2) PROVE Loops(k, list)
  <2>1. Loops(g, x2) /\ x1 \in 0 .. NextQuad(g)
    BY <1>5, <1>10, <1>12
  <2>2. ~ Concat(g, <<x1, x2>>).heap.hung
    BY <1>4, <1>12
  <2>3. Loops(Concat(g, <<x1, x2>>).heap, Concat(g, <<x1, x2>>).list)
    BY <2>1, <2>2, <1>5, PairLoops
  <2> QED
    BY <2>3, <1>4
<1> QED
  BY <1>1, <1>6, <1>7, <1>9, <1>10, <1>11, <1>12

\* A tag stands for a number.
LEMMA TagLabels ==
  ASSUME IInv, NEW f, Reduce(f), NEW n \in Nat, n = Len(Takes(f)), NEW k \in 1 .. n,
         Takes(f)[k] \in DOMAIN Late
  PROVE  Value(n, k).symbol # NoSymbol
<1>1. Value(n, k).symbol \in Symbols
  <2>1. Value(n, k).symbol
          \in LabelsUpTo(symbol_table, NextQuad(heap) + Late[Takes(f)[k]])
    BY PartsAre
  <2> QED
    BY <2>1 DEF LabelsUpTo, Symbols
<1>2. NoSymbol \notin SymbolName
  BY DEF NoSymbol, SymbolName
<1> QED
  BY <1>1, <1>2 DEF IInv, TableKept

\* What a connective finds: two conditions of which the second starts at the
\* tag, and which share no node unless lists are mixed up already.
LEMMA ConnectivesFind ==
  ASSUME IInv, NEW f, Reduce(f), Takes(f) = <<"cond", "tag", "cond">>,
         NEW n \in Nat, n = 3
  PROVE  /\ n = Len(Takes(f)) /\ 1 \in 1 .. n /\ 3 \in 1 .. n
         /\ TwoConditions(f, n, 1, 3)
         /\ Value(n, 2).symbol # NoSymbol /\ ~ Trap(heap, Value(n, 2))
         /\ \A i \in {1, 3} :
              /\ Value(n, i).code \in 0 .. NextQuad(heap)
              /\ Value(n, i).true_list \in 0 .. NextQuad(heap)
              /\ Value(n, i).false_list \in 0 .. NextQuad(heap)
              /\ Value(n, i).yes # {} \/ Value(n, i).no # {}
         /\ Wired(heap) /\ ~ heap.hung
<1>1. /\ n = Len(Takes(f)) /\ 1 \in 1 .. n /\ 2 \in 1 .. n /\ 3 \in 1 .. n
      /\ Takes(f)[2] = "tag"
  OBVIOUS
<1>2. "tag" \in DOMAIN Late /\ "tag" # "cond"
  BY DEF Late
<1>3. Value(n, 2).symbol # NoSymbol /\ ~ Trap(heap, Value(n, 2))
  BY <1>1, <1>2, TagLabels, NoLists
<1>4. \A i \in 1 .. n :
        /\ Value(n, i).code \in 0 .. NextQuad(heap)
        /\ Value(n, i).true_list \in 0 .. NextQuad(heap)
        /\ Value(n, i).false_list \in 0 .. NextQuad(heap)
  BY <1>1, PartsAre
<1>5. Wired(heap) /\ ~ heap.hung
  BY ListsAre DEF Reduce, Parsing
<1>6. \A i \in 1 .. n : Takes(f)[i] = "cond" =>
                          Value(n, i).yes # {} \/ Value(n, i).no # {}
  BY <1>1, PartsAre
<1>7. Takes(f)[1] = "cond" /\ Takes(f)[3] = "cond"
  OBVIOUS
<1>8. TwoConditions(f, n, 1, 3)
  <2>1. \A k \in 1 .. n : Takes(f)[k] \in DOMAIN Late => Value(n, k).code = NULL
    BY <1>1, PartsAre
  <2>2. Value(n, 2).code = NULL
    BY <2>1, <1>1, <1>2
  <2>3. \A k \in 1 .. n : k = 1 \/ k = 2 \/ k = 3
    OBVIOUS
  <2>4. \A k \in 1 .. n : Takes(f)[k] # "expr"
    BY <2>3, <1>1, <1>7
  <2> QED
    BY <2>2, <2>3, <2>4 DEF TwoConditions
<1> QED
  BY <1>1, <1>3, <1>4, <1>5, <1>6, <1>7, <1>8

\* As long as no lists are mixed up the codes of a connective are joined.
LEMMA ConnectivesJoin ==
  ASSUME IInv, Apart(heap, vals, quad_list, connectives, dangling), NEW f, Reduce(f),
         Takes(f) = <<"cond", "tag", "cond">>, NEW n \in Nat, n = 3,
         NEW c1, c1 = Value(n, 1), NEW c2, c2 = Value(n, 3), NEW tag, NEW x1, NEW x2,
         NEW h, NEW g, NEW code, NEW k, NEW list,
         Connected(heap, c1, c2, tag, x1, x2, h, g, code, k, list)
  PROVE  /\ CodeJoined(heap, c1, c2, tag, g, code)
         /\ Sound(heap, c1, connectives, dangling) /\ Sound(heap, c2, connectives, dangling)
<1>1. /\ n = Len(Takes(f)) /\ 1 \in 1 .. n /\ 3 \in 1 .. n
      /\ c1.code \in 0 .. NextQuad(heap) /\ c2.code \in 0 .. NextQuad(heap)
      /\ Wired(heap) /\ ~ heap.hung
  BY ConnectivesFind
<1>2. PICK i, j : i = 1 /\ j = 3
  OBVIOUS
<1>3. i \in 1 .. n /\ j \in 1 .. n /\ i # j /\ c1 = Value(n, i) /\ c2 = Value(n, j)
  BY <1>1, <1>2
<1>4. /\ Sound(heap, c1, connectives, dangling) /\ Sound(heap, c2, connectives, dangling)
      /\ NodesOf(heap, c1.code) \cap NodesOf(heap, c2.code) = {}
  <2>1. /\ \A k1 \in 1 .. n : Sound(heap, Value(n, k1), connectives, dangling)
        /\ \A k1, k2 \in 1 .. n : k1 # k2 =>
             NodesOf(heap, Value(n, k1).code) \cap NodesOf(heap, Value(n, k2).code) = {}
    BY <1>1, TopIs
  <2> QED
    BY <2>1, <1>3
<1>5. CodeJoined(heap, c1, c2, tag, Concat(h, <<c1.code, c2.code>>).heap,
                 Concat(h, <<c1.code, c2.code>>).list)
  <2>1. h = Complete(heap, c1.false_list, tag)
    BY DEF Connected
  <2> QED
    BY <2>1, <1>1, <1>4, CodesJoin
<1> QED
  BY <1>4, <1>5 DEF Connected

\* The values of a connective's conditions that go round make its own go round.
LEMMA ConnectivesTrap ==
  ASSUME IInv, NEW f, Reduce(f), Takes(f) = <<"cond", "tag", "cond">>,
         NEW n \in Nat, n = 3,
         NEW c1, c1 = Value(n, 1), NEW c2, c2 = Value(n, 3), NEW tag,
         NEW x1 \in {c1.true_list, c1.false_list},
         NEW x2 \in {c2.true_list, c2.false_list},
         NEW h, NEW g, NEW code, NEW list,
         Connected(heap, c1, c2, tag, x1, x2, h, g, code, heap', list),
         NEW attr, attr.code = code,
         \/ /\ x2 = c2.true_list /\ attr.true_list = list
            /\ attr.false_list = c2.false_list
         \/ /\ x2 = c2.false_list /\ attr.false_list = list
            /\ attr.true_list = c2.true_list,
         NEW i \in 1 .. n, Trap(heap, Value(n, i))
  PROVE  heap'.hung \/ Trap(heap', attr)
<1>1. /\ n = Len(Takes(f)) /\ ~ Trap(heap, Value(n, 2))
      /\ c1.code \in 0 .. NextQuad(heap) /\ c2.code \in 0 .. NextQuad(heap)
      /\ x1 \in 0 .. NextQuad(heap) /\ x2 \in 0 .. NextQuad(heap)
      /\ Wired(heap)
  BY ConnectivesFind
<1>2. /\ Loops(heap, c1.code) => heap'.hung
      /\ Loops(heap, c2.code) => heap'.hung \/ Loops(heap', code)
      /\ Loops(heap, x2) => heap'.hung \/ Loops(heap', list)
      /\ \A y : Loops(heap, y) => heap'.hung \/ Loops(heap', y)
  BY <1>1, ConnectedTraps
<1>3. i = 1 \/ i = 2 \/ i = 3
  OBVIOUS
<1>4. CASE i = 1
  BY <1>2, <1>4 DEF Trap
<1>5. CASE i = 3
  BY <1>2, <1>5 DEF Trap
<1> QED
  BY <1>1, <1>3, <1>4, <1>5

\* OR joins the true exits of two conditions.
LEMMA ConditionOrLists == ASSUME IInv, ListsKept, ConditionOr PROVE KeepsLists
<1>1. PICK n \in Nat : n = 3
  OBVIOUS
<1>2. PICK c1, c2, tag : c1 = Value(n, 1) /\ c2 = Value(n, 3) /\ tag = Value(n, 2).symbol
  OBVIOUS
<1>3. PICK x1, x2 : x1 = c1.true_list /\ x2 = c2.true_list
  OBVIOUS
<1>4. PICK h : h = Complete(heap, c1.false_list, tag)
  OBVIOUS
<1>5. PICK r : r = Concat(h, <<c1.code, c2.code>>)
  OBVIOUS
<1>6. PICK g, code : g = r.heap /\ code = r.list
  OBVIOUS
<1>7. PICK q : q = Concat(g, <<x1, x2>>)
  OBVIOUS
<1>8. PICK k, list : k = q.heap /\ list = q.list
  OBVIOUS
<1>9. PICK attr : attr = [Attr EXCEPT !.code = code, !.true_list = list,
                                      !.false_list = c2.false_list,
                                      !.yes = c1.yes \cup c2.yes, !.no = c2.no]
  OBVIOUS
<1>10. /\ Reduce("OR") /\ merged' = (merged \/ (c1.yes # {} /\ c2.yes # {}))
       /\ connectives' = connectives \cup {"OR"} /\ dangling' = dangling
       /\ \E meant : Built(k, attr, n, meant)
  BY <1>1, <1>2, <1>3, <1>4, <1>5, <1>6, <1>7, <1>8, <1>9 DEF ConditionOr
<1>11. heap' = k /\ Return(n, attr) /\ quad_list' = quad_list /\ status' = status
  BY <1>10 DEF Built
<1>12. /\ attr.code = code /\ attr.true_list = list
       /\ attr.false_list = c2.false_list
       /\ attr.yes = c1.yes \cup c2.yes /\ attr.no = c2.no
  BY <1>9 DEF Attr
<1>13. Connected(heap, c1, c2, tag, x1, x2, h, g, code, heap', list)
  BY <1>4, <1>5, <1>6, <1>7, <1>8, <1>11 DEF Connected
<1>14. Takes("OR") = <<"cond", "tag", "cond">>
  BY Taken
<1>15. /\ n = Len(Takes("OR")) /\ 1 \in 1 .. n /\ 3 \in 1 .. n /\ tag # NoSymbol
       /\ TwoConditions("OR", n, 1, 3)
       /\ c1.code \in 0 .. NextQuad(heap) /\ c2.code \in 0 .. NextQuad(heap)
       /\ x1 \in 0 .. NextQuad(heap) /\ x2 \in 0 .. NextQuad(heap)
       /\ c1.yes # {} \/ c1.no # {}
       /\ c2.yes # {} \/ c2.no # {}
       /\ Wired(heap) /\ ~ heap.hung
  BY <1>1, <1>2, <1>3, <1>10, <1>14, ConnectivesFind
<1>16. Wired(heap') /\ Grows(heap, heap')
  BY <1>13, <1>15, ConnectedTraps
<1>17. ASSUME ~ merged
       PROVE  /\ Apart(heap, vals, quad_list, connectives, dangling)
              /\ CodeJoined(heap, c1, c2, tag, g, code)
              /\ x1 \in NodesOf(heap, c1.code) \cup {NULL} /\ (x1 = NULL <=> c1.yes = {})
              /\ x2 \in NodesOf(heap, c2.code) \cup {NULL} /\ (x2 = NULL <=> c2.yes = {})
  <2>1. Apart(heap, vals, quad_list, connectives, dangling)
    BY <1>17 DEF ListsKept
  <2>2. /\ CodeJoined(heap, c1, c2, tag, g, code)
        /\ Sound(heap, c1, connectives, dangling) /\ Sound(heap, c2, connectives, dangling)
    BY <2>1, <1>1, <1>2, <1>10, <1>13, <1>14, ConnectivesJoin
  <2> QED
    BY <2>1, <2>2, <1>3 DEF Sound, Exit
<1>18. ~ merged' => MadeOf(n, attr)
  <2>1. SUFFICES ASSUME ~ merged' PROVE MadeOf(n, attr)
    OBVIOUS
  <2>2. ~ merged /\ (c1.yes = {} \/ c2.yes = {})
    BY <2>1, <1>10
  <2>3. x1 = NULL \/ x2 = NULL
    BY <2>2, <1>17
  <2>4. q.heap = g /\ q.list = Either(x1, x2)
    BY <2>2, <2>3, <1>7, <1>17, OneExit
  <2>5. heap' = g /\ attr.true_list = Either(c1.true_list, c2.true_list)
    BY <2>4, <1>3, <1>8, <1>11, <1>12
  <2>6. PICK i \in 1 .. n, j \in 1 .. n : i = 1 /\ j = 3
    BY <1>15
  <2>7. /\ i # j /\ c1 = Value(n, i) /\ c2 = Value(n, j)
        /\ TwoConditions("OR", n, i, j)
    BY <2>6, <1>2, <1>15
  <2>8. /\ Apart(heap, vals, quad_list, connectives, dangling)
        /\ CodeJoined(heap, c1, c2, tag, g, code)
    BY <2>2, <1>17
  <2>9. c1.true_list = NULL \/ c2.true_list = NULL
    BY <2>3, <1>3
  <2>10. IsOr(c1, c2, code, attr)
    BY <2>5, <2>9, <1>12, <1>15 DEF IsOr
  <2> QED
    BY <2>5, <2>7, <2>8, <2>10, <1>10, <1>15, OrMade
<1>19. merged' /\ ~ merged => heap'.hung \/ Trap(heap', attr)
  <2>1. SUFFICES ASSUME merged', ~ merged PROVE Trap(heap', attr)
    OBVIOUS
  <2>2. x1 \in NodesOf(heap, c1.code) /\ x2 \in NodesOf(heap, c2.code)
    BY <2>1, <1>10, <1>17
  <2>3. Loops(q.heap, code) /\ Loops(q.heap, q.list)
    BY <2>1, <2>2, <1>7, <1>17, TwoExits
  <2> QED
    BY <2>3, <1>8, <1>11, <1>12 DEF Trap
<1>20. \A i \in 1 .. n :
         merged /\ Trap(heap, Value(n, i)) => heap'.hung \/ Trap(heap', attr)
  <2>1. SUFFICES ASSUME NEW i \in 1 .. n, Trap(heap, Value(n, i))
                 PROVE  heap'.hung \/ Trap(heap', attr)
    OBVIOUS
  <2>2. x1 \in {c1.true_list, c1.false_list} /\ x2 \in {c2.true_list, c2.false_list}
    BY <1>3
  <2> QED
    BY <2>1, <2>2, <1>1, <1>2, <1>3, <1>10, <1>12, <1>13, <1>14, ConnectivesTrap
<1>21. /\ merged => merged' /\ connectives \subseteq connectives'
       /\ dangling \subseteq dangling'
       /\ merged' => "OR" \in connectives' \/ "AND" \in connectives'
  BY <1>10
<1> QED
  BY <1>10, <1>11, <1>15, <1>16, <1>18, <1>19, <1>20, <1>21, ReduceLists

\* AND joins their false exits.
LEMMA ConditionAndLists == ASSUME IInv, ListsKept, ConditionAnd PROVE KeepsLists
<1>1. PICK n \in Nat : n = 3
  OBVIOUS
<1>2. PICK c1, c2, tag : c1 = Value(n, 1) /\ c2 = Value(n, 3) /\ tag = Value(n, 2).symbol
  OBVIOUS
<1>3. PICK x1, x2 : x1 = c1.false_list /\ x2 = c2.false_list
  OBVIOUS
<1>4. PICK h : h = Complete(heap, c1.false_list, tag)
  OBVIOUS
<1>5. PICK r : r = Concat(h, <<c1.code, c2.code>>)
  OBVIOUS
<1>6. PICK g, code : g = r.heap /\ code = r.list
  OBVIOUS
<1>7. PICK q : q = Concat(g, <<x1, x2>>)
  OBVIOUS
<1>8. PICK k, list : k = q.heap /\ list = q.list
  OBVIOUS
<1>9. PICK attr : attr = [Attr EXCEPT !.code = code, !.false_list = list,
                                      !.true_list = c2.true_list,
                                      !.no = c1.no \cup c2.no, !.yes = c2.yes]
  OBVIOUS
<1>10. /\ Reduce("AND") /\ merged' = (merged \/ (c1.no # {} /\ c2.no # {}))
       /\ connectives' = connectives \cup {"AND"}
       /\ dangling' = dangling \cup c1.yes
       /\ \E meant : Built(k, attr, n, meant)
  BY <1>1, <1>2, <1>3, <1>4, <1>5, <1>6, <1>7, <1>8, <1>9 DEF ConditionAnd
<1>11. heap' = k /\ Return(n, attr) /\ quad_list' = quad_list /\ status' = status
  BY <1>10 DEF Built
<1>12. /\ attr.code = code /\ attr.false_list = list
       /\ attr.true_list = c2.true_list
       /\ attr.no = c1.no \cup c2.no /\ attr.yes = c2.yes
  BY <1>9 DEF Attr
<1>13. Connected(heap, c1, c2, tag, x1, x2, h, g, code, heap', list)
  BY <1>4, <1>5, <1>6, <1>7, <1>8, <1>11 DEF Connected
<1>14. Takes("AND") = <<"cond", "tag", "cond">>
  BY Taken
<1>15. /\ n = Len(Takes("AND")) /\ 1 \in 1 .. n /\ 3 \in 1 .. n /\ tag # NoSymbol
       /\ TwoConditions("AND", n, 1, 3)
       /\ c1.code \in 0 .. NextQuad(heap) /\ c2.code \in 0 .. NextQuad(heap)
       /\ x1 \in 0 .. NextQuad(heap) /\ x2 \in 0 .. NextQuad(heap)
       /\ c1.yes # {} \/ c1.no # {}
       /\ c2.yes # {} \/ c2.no # {}
       /\ Wired(heap) /\ ~ heap.hung
  BY <1>1, <1>2, <1>3, <1>10, <1>14, ConnectivesFind
<1>16. Wired(heap') /\ Grows(heap, heap')
  BY <1>13, <1>15, ConnectedTraps
<1>17. ASSUME ~ merged
       PROVE  /\ Apart(heap, vals, quad_list, connectives, dangling)
              /\ CodeJoined(heap, c1, c2, tag, g, code)
              /\ x1 \in NodesOf(heap, c1.code) \cup {NULL} /\ (x1 = NULL <=> c1.no = {})
              /\ x2 \in NodesOf(heap, c2.code) \cup {NULL} /\ (x2 = NULL <=> c2.no = {})
  <2>1. Apart(heap, vals, quad_list, connectives, dangling)
    BY <1>17 DEF ListsKept
  <2>2. /\ CodeJoined(heap, c1, c2, tag, g, code)
        /\ Sound(heap, c1, connectives, dangling) /\ Sound(heap, c2, connectives, dangling)
    BY <2>1, <1>1, <1>2, <1>10, <1>13, <1>14, ConnectivesJoin
  <2> QED
    BY <2>1, <2>2, <1>3 DEF Sound, Exit
<1>18. ~ merged' => MadeOf(n, attr)
  <2>1. SUFFICES ASSUME ~ merged' PROVE MadeOf(n, attr)
    OBVIOUS
  <2>2. ~ merged /\ (c1.no = {} \/ c2.no = {})
    BY <2>1, <1>10
  <2>3. x1 = NULL \/ x2 = NULL
    BY <2>2, <1>17
  <2>4. q.heap = g /\ q.list = Either(x1, x2)
    BY <2>2, <2>3, <1>7, <1>17, OneExit
  <2>5. heap' = g /\ attr.false_list = Either(c1.false_list, c2.false_list)
    BY <2>4, <1>3, <1>8, <1>11, <1>12
  <2>6. PICK i \in 1 .. n, j \in 1 .. n : i = 1 /\ j = 3
    BY <1>15
  <2>7. /\ i # j /\ c1 = Value(n, i) /\ c2 = Value(n, j)
        /\ TwoConditions("AND", n, i, j)
    BY <2>6, <1>2, <1>15
  <2>8. /\ Apart(heap, vals, quad_list, connectives, dangling)
        /\ CodeJoined(heap, c1, c2, tag, g, code)
    BY <2>2, <1>17
  <2>9. c1.false_list = NULL \/ c2.false_list = NULL
    BY <2>3, <1>3
  <2>10. IsAnd(c1, c2, code, attr)
    BY <2>5, <2>9, <1>12, <1>15 DEF IsAnd
  <2> QED
    BY <2>5, <2>7, <2>8, <2>10, <1>10, <1>15, AndMade
<1>19. merged' /\ ~ merged => heap'.hung \/ Trap(heap', attr)
  <2>1. SUFFICES ASSUME merged', ~ merged PROVE Trap(heap', attr)
    OBVIOUS
  <2>2. x1 \in NodesOf(heap, c1.code) /\ x2 \in NodesOf(heap, c2.code)
    BY <2>1, <1>10, <1>17
  <2>3. Loops(q.heap, code) /\ Loops(q.heap, q.list)
    BY <2>1, <2>2, <1>7, <1>17, TwoExits
  <2> QED
    BY <2>3, <1>8, <1>11, <1>12 DEF Trap
<1>20. \A i \in 1 .. n :
         merged /\ Trap(heap, Value(n, i)) => heap'.hung \/ Trap(heap', attr)
  <2>1. SUFFICES ASSUME NEW i \in 1 .. n, Trap(heap, Value(n, i))
                 PROVE  heap'.hung \/ Trap(heap', attr)
    OBVIOUS
  <2>2. x1 \in {c1.true_list, c1.false_list} /\ x2 \in {c2.true_list, c2.false_list}
    BY <1>3
  <2> QED
    BY <2>1, <2>2, <1>1, <1>2, <1>3, <1>10, <1>12, <1>13, <1>14, ConnectivesTrap
<1>21. /\ merged => merged' /\ connectives \subseteq connectives'
       /\ dangling \subseteq dangling'
       /\ merged' => "OR" \in connectives' \/ "AND" \in connectives'
  BY <1>10
<1> QED
  BY <1>10, <1>11, <1>15, <1>16, <1>18, <1>19, <1>20, <1>21, ReduceLists

\* NOT exchanges the lists of its condition.
LEMMA ConditionNotLists == ASSUME IInv, ListsKept, ConditionNot PROVE KeepsLists
<1>1. PICK n \in Nat : n = 1
  OBVIOUS
<1>2. PICK c : c = Value(n, 1)
  OBVIOUS
<1>3. PICK attr : attr = [c EXCEPT !.true_list = c.false_list, !.false_list = c.true_list,
                                   !.yes = c.no, !.no = c.yes]
  OBVIOUS
<1>4. /\ Reduce("NOT") /\ Return(n, attr) /\ connectives' = connectives \cup {"NOT"}
      /\ heap' = heap /\ quad_list' = quad_list /\ status' = status /\ merged' = merged
      /\ dangling' = dangling
  BY <1>1, <1>2, <1>3 DEF ConditionNot, program
<1>5. Takes("NOT") = <<"cond">>
  BY Taken
<1>6. n = Len(Takes("NOT")) /\ 1 \in 1 .. n
  BY <1>1, <1>5
<1>7. /\ attr.code = c.code /\ attr.true_list = c.false_list
      /\ attr.false_list = c.true_list
      /\ attr.yes = c.no /\ attr.no = c.yes
  <2>1. c \in Attribute(Symbols, NextQuad(heap))
    BY <1>2, <1>4, <1>6, PartsAre
  <2> QED
    BY <2>1, <1>3 DEF Attribute
<1>8. Wired(heap') /\ Grows(heap, heap')
  <2>1. Wired(heap) /\ NextQuad(heap) \in Nat
    BY ListsAre, WiredIs
  <2> QED
    BY <2>1, <1>4 DEF Grows
<1>9. ~ merged' => MadeOf(n, attr)
  <2>1. SUFFICES ASSUME ~ merged PROVE MadeOf(n, attr)
    BY <1>4
  <2>2. Apart(heap, vals, quad_list, connectives, dangling) /\ ~ heap.hung
    BY <2>1 DEF ListsKept
  <2>3. Sound(heap, c, connectives, dangling) /\ NodesOf(heap, c.code) \subseteq TopNodes(n)
    BY <2>2, <1>2, <1>4, <1>6, TopIs
  <2>4. connectives' # {} /\ Held(heap, attr) /\ Awaited(heap, attr, dangling')
    BY <2>3, <1>4, <1>7 DEF Sound, Held, Awaited
  <2>5. Sound(heap, attr, connectives', dangling')
    BY <2>3, <2>4, <1>7 DEF Sound, OnlyBranches
  <2>6. SameOperands(heap, heap) /\ LabelsLeft(heap, heap)
    BY DEF SameOperands, LabelsLeft
  <2>7. Gathers(n, attr)
    <3>1. Fresh(heap') = {}
      <4>1. NextQuad(heap) \in Nat
        BY ListsAre, WiredIs
      <4> QED
        BY <4>1, <1>4 DEF Fresh
    <3>2. Takes(Head(work))[1] # "expr"
      BY <1>4, <1>5 DEF Reduce
    <3>3. \A k \in 1 .. n : Value(n, k) = c /\ ~ IsExpression(k)
      BY <3>2, <1>1, <1>2 DEF IsExpression
    <3> QED
      BY <3>1, <3>3, <1>4, <1>7 DEF Gathers, Asked
  <2> QED
    BY <2>2, <2>3, <2>4, <2>5, <2>6, <2>7, <1>4, <1>7 DEF MadeOf
<1>10. \A i \in 1 .. n : Trap(heap, Value(n, i)) => Trap(heap', attr)
  <2>1. \A i \in 1 .. n : i = 1
    BY <1>1
  <2> QED
    BY <2>1, <1>2, <1>4, <1>7 DEF Trap
<1>11. /\ connectives \subseteq connectives' /\ dangling \subseteq dangling'
       /\ merged' => "OR" \in connectives' \/ "AND" \in connectives'
  BY <1>4 DEF ListsKept
<1> QED
  BY <1>4, <1>6, <1>8, <1>9, <1>10, <1>11, ReduceLists

-----------------------------------------------------------------------------
(***************************************************************************)
(* Control structures.                                                     *)
(***************************************************************************)

\* All that is new are gotos.
Gotos(g) ==
  \A m \in Fresh(g) : /\ g.quad[m].op = "B"
                      /\ g.quad[m].op1 = NoSymbol /\ g.quad[m].op2 = NoSymbol

\* A heap whose codes are ready to be linked, or that hangs on the condition.
Settles(g, n) ==
  /\ Wired(g) /\ Grows(heap, g) /\ Gotos(g)
  /\ ~ merged => Ready(g, n)
  /\ \A k \in 1 .. n : Trap(heap, Value(n, k)) => g.hung

\* It is one when both lists of the only condition have their labels.
LEMMA SettleSettles ==
  ASSUME IInv, ListsKept, NEW f, Reduce(f), NEW n \in Nat, n = Len(Takes(f)),
         NEW c \in 1 .. n, \A k \in 1 .. n : Takes(f)[k] = "cond" => k = c,
         NEW true_tag, true_tag # NoSymbol, NEW false_tag, false_tag # NoSymbol
  PROVE  /\ Settles(Settle(heap, Value(n, c), true_tag, false_tag), n)
         /\ NextQuad(Settle(heap, Value(n, c), true_tag, false_tag)) = NextQuad(heap)
<1>1. PICK cond, g : /\ cond = Value(n, c)
                     /\ g = Settle(heap, cond, true_tag, false_tag)
  OBVIOUS
<1>2. PICK first : first = Complete(heap, cond.true_list, true_tag)
  OBVIOUS
<1>3. g = Complete(first, cond.false_list, false_tag)
  BY <1>1, <1>2 DEF Settle
<1>4. Wired(heap)
  BY ListsAre
<1>5. /\ Wired(first) /\ NextQuad(first) = NextQuad(heap) /\ Grows(heap, first)
      /\ first.hung <=> heap.hung \/ Endless(heap, cond.true_list)
  BY <1>2, <1>4, CompleteWires
<1>6. /\ Wired(g) /\ NextQuad(g) = NextQuad(first) /\ Grows(first, g)
      /\ g.hung <=> first.hung \/ Endless(first, cond.false_list)
  BY <1>3, <1>5, CompleteWires
<1>7. Grows(heap, g)
  BY <1>4, <1>5, <1>6, GrowsOn
<1>8. ~ merged => Ready(g, n)
  <2>1. ~ merged => Apart(heap, vals, quad_list, connectives, dangling)
    BY DEF ListsKept
  <2> QED
    BY <2>1, <1>1, ReadySettled
<1>9. ASSUME NEW k \in 1 .. n, Trap(heap, Value(n, k)) PROVE g.hung
  <2>1. k = c
    BY <1>9, NoLists
  <2>2. CASE Loops(heap, cond.true_list)
    BY <2>2, <1>4, <1>5, <1>6, LoopsIsEndless
  <2>3. CASE Loops(heap, cond.false_list)
    <3>1. CASE first.hung
      BY <3>1, <1>6
    <3>2. CASE ~ first.hung
      <4>1. Loops(first, cond.false_list)
        BY <2>3, <3>2, <1>4, <1>5, LoopsOn
      <4> QED
        BY <4>1, <1>5, <1>6, LoopsIsEndless
    <3> QED
      BY <3>1, <3>2
  <2> QED
    BY <2>1, <2>2, <2>3, <1>1, <1>9 DEF Trap
<1>10. Gotos(g)
  <2>1. NextQuad(g) = NextQuad(heap) /\ NextQuad(heap) \in Nat
    BY <1>4, <1>5, <1>6, WiredIs
  <2> QED
    BY <2>1 DEF Gotos, Fresh
<1> QED
  BY <1>1, <1>5, <1>6, <1>7, <1>8, <1>9, <1>10 DEF Settles

\* It stays one when a goto with a label is made.
LEMMA GotoSettles ==
  ASSUME IInv, ListsKept, NEW f, Reduce(f), NEW n \in Nat, n = Len(Takes(f)),
         NEW g, Settles(g, n), NEW label, label # NoSymbol
  PROVE  Settles(Goto(g, label), n) /\ NextQuad(Goto(g, label)) = NextQuad(g) + 1
<1>1. PICK made : made = QuadNew(g, "B", label, NoSymbol, NoSymbol)
  OBVIOUS
<1>2. "B" \in Ops /\ Wired(heap) /\ Wired(g) /\ Grows(heap, g)
  BY ListsAre DEF Ops, BranchOps, Settles
<1>3. Wired(made) /\ NextQuad(made) = NextQuad(g) + 1 /\ made.hung = g.hung
  BY <1>1, <1>2, QuadNewWires
<1>4. Grows(g, made)
  BY <1>1, <1>2, QuadNewGrows
<1>5. Grows(heap, made)
  BY <1>2, <1>3, <1>4, GrowsOn
<1>6. ~ merged => Ready(made, n)
  <2>1. SUFFICES ASSUME ~ merged PROVE Ready(made, n)
    OBVIOUS
  <2>2. Apart(heap, vals, quad_list, connectives, dangling) /\ Ready(g, n)
    BY <2>1 DEF ListsKept, Settles
  <2> QED
    BY <2>2, <1>1, <1>2, ReadyMore
<1>7. \A k \in 1 .. n : Trap(heap, Value(n, k)) => made.hung
  BY <1>3 DEF Settles
<1>8. Gotos(made)
  <2>1. PICK top, old : top = NextQuad(heap) /\ old = NextQuad(g)
    OBVIOUS
  <2>2. top \in Nat /\ old \in Nat /\ NextQuad(made) = old + 1
    BY <2>1, <1>2, <1>3, WiredIs
  <2>3. SUFFICES ASSUME NEW m \in Fresh(made)
                 PROVE  /\ made.quad[m].op = "B"
                        /\ made.quad[m].op1 = NoSymbol /\ made.quad[m].op2 = NoSymbol
    BY DEF Gotos
  <2>4. m \in top + 1 .. old + 1
    BY <2>1, <2>2, <2>3 DEF Fresh
  <2>5. CASE m = old + 1
    <3>1. made.quad[m] = [op |-> "B", res |-> label, op1 |-> NoSymbol,
                          op2 |-> NoSymbol, successor |-> NULL]
      BY <2>1, <2>5, <1>1, <1>2, QuadNewNode
    <3> QED
      BY <3>1
  <2>6. CASE m # old + 1
    <3>1. m \in top + 1 .. old /\ m \in 1 .. old
      BY <2>2, <2>4, <2>6
    <3>2. \A i \in 1 .. NextQuad(g) : made.quad[i] = g.quad[i]
      BY <1>1, <1>2, QuadNewWires
    <3>3. made.quad[m] = g.quad[m] /\ m \in Fresh(g)
      BY <2>1, <3>1, <3>2 DEF Fresh
    <3> QED
      BY <3>3 DEF Settles, Gotos
  <2> QED
    BY <2>5, <2>6
<1> QED
  BY <1>1, <1>3, <1>5, <1>6, <1>7, <1>8 DEF Settles, Goto

\* A control structure takes no expression; it links the codes of all its parts
\* but the tags, and its gotos.
Wholly(f, g, n, placed) ==
  /\ \A k \in 1 .. n : /\ Takes(f)[k] # "expr"
                       /\ Takes(f)[k] \in DOMAIN Late \/ k \in placed
  /\ \A m \in Fresh(g) : n + (m - NextQuad(heap)) \in placed

LEMMA WhollyCovers ==
  ASSUME IInv, NEW f, Reduce(f), NEW n \in Nat, n = Len(Takes(f)),
         NEW g, Gotos(g), NEW placed, Wholly(f, g, n, placed)
  PROVE  Covers(g, n, placed)
<1>1. ASSUME NEW x, Asked(g, x) PROVE x[1] # "tmp"
  <2>1. PICK m \in Fresh(g) : x \in Asks(g.quad[m])
    BY <1>1 DEF Asked
  <2>2. "B" \notin PrintOps
    BY DEF PrintOps
  <2>3. x = NoSymbol
    BY <2>1, <2>2 DEF Gotos, Asks
  <2> QED
    BY <2>3 DEF NoSymbol
<1>2. ASSUME NEW k \in 1 .. n
      PROVE  ~ IsExpression(k) /\ (k \notin placed => Value(n, k).code = NULL)
  <2>1. ~ IsExpression(k)
    BY DEF IsExpression, Wholly, Reduce
  <2>2. ASSUME k \notin placed PROVE Value(n, k).code = NULL
    <3>1. Takes(f)[k] \in DOMAIN Late
      BY <2>2 DEF Wholly
    <3> QED
      BY <3>1, PartsAre
  <2> QED
    BY <2>1, <2>2
<1>3. \A m \in Fresh(g) : n + (m - NextQuad(heap)) \in placed
  BY DEF Wholly
<1>4. \A m \in Fresh(g) : g.quad[m].op \notin ArithmeticOps
  BY DEF Gotos, ArithmeticOps
<1> QED
  BY <1>1, <1>2, <1>3, <1>4 DEF Covers

\* A control structure links the codes of its parts and its gotos.
LEMMA ControlLists ==
  ASSUME IInv, ListsKept, NEW f, Reduce(f), NEW n \in Nat, n = Len(Takes(f)),
         NEW g, Settles(g, n), NEW sources, NEW o, Origin(g, n, sources, o),
         Wholly(f, g, n, PlacesOf(sources, o)), NEW meant,
         Built(Concat(g, sources).heap, Code(Concat(g, sources).list), n, meant),
         UnchangedByControl
  PROVE  KeepsLists
<1>1. PICK attr : attr = Code(Concat(g, sources).list)
  OBVIOUS
<1>2. /\ attr.code = Concat(g, sources).list /\ attr.true_list = NULL
      /\ attr.false_list = NULL /\ attr.yes = {} /\ attr.no = {}
  BY <1>1, AttrsAre DEF Bare
<1>3. /\ heap' = Concat(g, sources).heap /\ Return(n, attr)
      /\ UNCHANGED <<quad_list, status, connectives, dangling, merged>>
  BY <1>1 DEF Built, UnchangedByControl
<1>4. /\ Wired(g) /\ Grows(heap, g) /\ (~ merged => Ready(g, n))
      /\ \A k \in 1 .. n : Trap(heap, Value(n, k)) => g.hung
  BY DEF Settles
<1>5. Covers(g, n, PlacesOf(sources, o))
  BY WhollyCovers DEF Settles
<1> QED
  BY <1>2, <1>3, <1>4, <1>5, CodeLists

\* An if links its test and its statements.
LEMMA ControlIfLists == ASSUME IInv, ListsKept, ControlIf PROVE KeepsLists
<1>1. PICK n \in Nat : n = 4
  OBVIOUS
<1>2. PICK cond : cond = Value(n, 1)
  OBVIOUS
<1>3. PICK settled : settled = Settle(heap, cond, Value(n, 2).symbol, Value(n, 4).symbol)
  OBVIOUS
<1>4. PICK sources : sources = <<Value(n, 1).code, Value(n, 3).code>>
  OBVIOUS
<1>5. PICK o : o = <<1, 3>>
  OBVIOUS
<1>6. /\ Reduce("IF") /\ UnchangedByControl
      /\ \E meant : Built(Concat(settled, sources).heap,
                         Code(Concat(settled, sources).list), n, meant)
  BY <1>1, <1>2, <1>3, <1>4 DEF ControlIf
<1>7. Takes("IF") = <<"cond", "tag", "code", "tag">>
  BY Taken
<1>8. n = Len(Takes("IF")) /\ 1 \in 1 .. n
  BY <1>1, <1>7
<1>9. \A t \in {2, 4} : Value(n, t).symbol # NoSymbol
  <2>1. \A t \in {2, 4} : t \in 1 .. n /\ Takes("IF")[t] \in {"tag", "tag1", "tag2"}
    BY <1>1, <1>7
  <2>2. \A t \in {2, 4} : Takes("IF")[t] \in DOMAIN Late
    BY <2>1 DEF Late
  <2> QED
    BY <2>1, <2>2, <1>6, <1>8, TagLabels
<1>10. \A i \in 1 .. n : Takes("IF")[i] = "cond" => i = 1
  BY <1>1, <1>7
<1>11. Settles(settled, n) /\ NextQuad(settled) = NextQuad(heap)
  <2>1. PICK i \in 1 .. n : i = 1
    BY <1>8
  <2>2. PICK true_tag, false_tag : /\ true_tag = Value(n, 2).symbol
                                   /\ false_tag = Value(n, 4).symbol
    OBVIOUS
  <2>3. true_tag # NoSymbol /\ false_tag # NoSymbol
    BY <2>2, <1>9
  <2>4. settled = Settle(heap, Value(n, i), true_tag, false_tag)
    BY <2>1, <2>2, <1>2, <1>3
  <2>5. \A j \in 1 .. n : Takes("IF")[j] = "cond" => j = i
    BY <2>1, <1>10
  <2> QED
    BY <2>3, <2>4, <2>5, <1>6, <1>8, SettleSettles
<1>12. Origin(settled, n, sources, o)
  <2>1. Len(sources) = 2 /\ Len(sources) \in Nat
    BY <1>4
  <2>2. \A i \in 1 .. 2 : i = 1 \/ i = 2
    OBVIOUS
  <2>3. /\ o[1] \in 1 .. n /\ sources[1] = Value(n, o[1]).code
        /\ o[2] \in 1 .. n /\ sources[2] = Value(n, o[2]).code
    BY <1>1, <1>4, <1>5
  <2>4. \A i, j \in 1 .. 2 : o[i] = o[j] => i = j
    BY <2>2, <1>5
  <2> QED
    BY <2>1, <2>2, <2>3, <2>4 DEF Origin
<1>13. Wholly("IF", settled, n, PlacesOf(sources, o))
  <2>1. PICK placed : placed = PlacesOf(sources, o)
    OBVIOUS
  <2>2. 1 \in placed /\ 3 \in placed
    <3>1. Len(sources) = 2
      BY <1>4
    <3>2. \A i \in 1 .. 2 : o[i] \in placed
      BY <2>1, <3>1 DEF PlacesOf
    <3> QED
      BY <3>2, <1>5
  <2>3. \A k \in 1 .. n : k \in {1, 2, 3, 4}
    BY <1>1
  <2>4. \A k \in 1 .. n : /\ Takes("IF")[k] # "expr"
                          /\ Takes("IF")[k] \in {"tag", "tag1", "tag2"} \/ k \in placed
    BY <2>2, <2>3, <1>7
  <2>5. \A m \in Fresh(settled) : n + (m - NextQuad(heap)) \in placed
    <3>1. NextQuad(heap) \in Nat
      BY ListsAre, WiredIs
    <3> QED
      BY <3>1, <1>11 DEF Fresh
  <2>6. DOMAIN Late = {"tag", "tag1", "tag2"}
    BY DEF Late
  <2>7. \A k \in 1 .. n : /\ Takes("IF")[k] # "expr"
                          /\ Takes("IF")[k] \in DOMAIN Late \/ k \in placed
    BY <2>4, <2>6
  <2> QED
    BY <2>1, <2>5, <2>7 DEF Wholly
<1> QED
  BY <1>6, <1>8, <1>11, <1>12, <1>13, ControlLists

\* An if with else has a goto between its statements.
LEMMA ControlIfElseLists == ASSUME IInv, ListsKept, ControlIfElse PROVE KeepsLists
<1>1. PICK n \in Nat : n = 6
  OBVIOUS
<1>2. PICK cond : cond = Value(n, 1)
  OBVIOUS
<1>3. PICK settled : settled = Settle(heap, cond, Value(n, 2).symbol, Value(n, 4).symbol)
  OBVIOUS
<1>4. PICK made, goto_end : /\ made = Goto(settled, Value(n, 6).symbol)
                             /\ goto_end = NextQuad(made)
  OBVIOUS
<1>5. PICK sources : sources = <<Value(n, 1).code, Value(n, 3).code, goto_end,
                                Value(n, 5).code>>
  OBVIOUS
<1>6. PICK o : o = <<1, 3, 7, 5>>
  OBVIOUS
<1>7. /\ Reduce("IF_ELSE") /\ UnchangedByControl
      /\ \E meant : Built(Concat(made, sources).heap,
                         Code(Concat(made, sources).list), n, meant)
  BY <1>1, <1>2, <1>3, <1>4, <1>5 DEF ControlIfElse
<1>8. Takes("IF_ELSE") = <<"cond", "tag", "code", "tag1", "code", "tag1">>
  BY Taken
<1>9. n = Len(Takes("IF_ELSE")) /\ 1 \in 1 .. n
  BY <1>1, <1>8
<1>10. \A t \in {2, 4, 6} : Value(n, t).symbol # NoSymbol
  <2>1. \A t \in {2, 4, 6} : t \in 1 .. n /\ Takes("IF_ELSE")[t] \in {"tag", "tag1", "tag2"}
    BY <1>1, <1>8
  <2>2. \A t \in {2, 4, 6} : Takes("IF_ELSE")[t] \in DOMAIN Late
    BY <2>1 DEF Late
  <2> QED
    BY <2>1, <2>2, <1>7, <1>9, TagLabels
<1>11. \A i \in 1 .. n : Takes("IF_ELSE")[i] = "cond" => i = 1
  BY <1>1, <1>8
<1>12. Settles(settled, n) /\ NextQuad(settled) = NextQuad(heap)
  <2>1. PICK i \in 1 .. n : i = 1
    BY <1>9
  <2>2. PICK true_tag, false_tag : /\ true_tag = Value(n, 2).symbol
                                   /\ false_tag = Value(n, 4).symbol
    OBVIOUS
  <2>3. true_tag # NoSymbol /\ false_tag # NoSymbol
    BY <2>2, <1>10
  <2>4. settled = Settle(heap, Value(n, i), true_tag, false_tag)
    BY <2>1, <2>2, <1>2, <1>3
  <2>5. \A j \in 1 .. n : Takes("IF_ELSE")[j] = "cond" => j = i
    BY <2>1, <1>11
  <2> QED
    BY <2>3, <2>4, <2>5, <1>7, <1>9, SettleSettles
<1>13. Settles(made, n) /\ NextQuad(made) = NextQuad(settled) + 1
  <2>1. PICK label : label = Value(n, 6).symbol
    OBVIOUS
  <2>2. label # NoSymbol /\ made = Goto(settled, label)
    BY <2>1, <1>4, <1>10
  <2> QED
    BY <2>2, <1>7, <1>9, <1>12, GotoSettles
<1>14. PICK top \in Nat : top = NextQuad(heap)
  BY ListsAre, WiredIs
<1>15. goto_end = top + 1 /\ NextQuad(made) = top + 1
  BY <1>4, <1>12, <1>13, <1>14
<1>16. Origin(made, n, sources, o)
  <2>1. Len(sources) = 4 /\ Len(sources) \in Nat
    BY <1>5
  <2>2. \A i \in 1 .. 4 : i = 1 \/ i = 2 \/ i = 3 \/ i = 4
    OBVIOUS
  <2>3. /\ o[1] \in 1 .. n /\ sources[1] = Value(n, o[1]).code
        /\ o[2] \in 1 .. n /\ sources[2] = Value(n, o[2]).code
        /\ o[4] \in 1 .. n /\ sources[4] = Value(n, o[4]).code
    BY <1>1, <1>5, <1>6
  <2>4. /\ o[3] \in Nat /\ n < o[3]
        /\ NextQuad(heap) + (o[3] - n) <= NextQuad(made)
        /\ sources[3] = NextQuad(heap) + (o[3] - n)
    BY <1>1, <1>5, <1>6, <1>14, <1>15
  <2>5. \A i, j \in 1 .. 4 : o[i] = o[j] => i = j
    BY <2>2, <1>6
  <2> QED
    BY <2>1, <2>2, <2>3, <2>4, <2>5 DEF Origin
<1>17. Wholly("IF_ELSE", made, n, PlacesOf(sources, o))
  <2>1. PICK placed : placed = PlacesOf(sources, o)
    OBVIOUS
  <2>2. 1 \in placed /\ 3 \in placed /\ 7 \in placed /\ 5 \in placed
    <3>1. Len(sources) = 4
      BY <1>5
    <3>2. \A i \in 1 .. 4 : o[i] \in placed
      BY <2>1, <3>1 DEF PlacesOf
    <3> QED
      BY <3>2, <1>6
  <2>3. \A k \in 1 .. n : k \in {1, 2, 3, 4, 5, 6}
    BY <1>1
  <2>4. \A k \in 1 .. n : /\ Takes("IF_ELSE")[k] # "expr"
                          /\ Takes("IF_ELSE")[k] \in {"tag", "tag1", "tag2"} \/ k \in placed
    BY <2>2, <2>3, <1>8
  <2>5. \A m \in Fresh(made) : n + (m - NextQuad(heap)) \in placed
    <3>1. \A m \in Fresh(made) : n + (m - NextQuad(heap)) = n + 1
      BY <1>14, <1>15 DEF Fresh
    <3> QED
      BY <3>1, <2>2, <1>1
  <2>6. DOMAIN Late = {"tag", "tag1", "tag2"}
    BY DEF Late
  <2>7. \A k \in 1 .. n : /\ Takes("IF_ELSE")[k] # "expr"
                          /\ Takes("IF_ELSE")[k] \in DOMAIN Late \/ k \in placed
    BY <2>4, <2>6
  <2> QED
    BY <2>1, <2>5, <2>7 DEF Wholly
<1> QED
  BY <1>7, <1>9, <1>13, <1>16, <1>17, ControlLists

\* A while ends in a goto to its test.
LEMMA ControlWhileLists == ASSUME IInv, ListsKept, ControlWhile PROVE KeepsLists
<1>1. PICK n \in Nat : n = 5
  OBVIOUS
<1>2. PICK cond : cond = Value(n, 2)
  OBVIOUS
<1>3. PICK settled : settled = Settle(heap, cond, Value(n, 3).symbol, Value(n, 5).symbol)
  OBVIOUS
<1>4. PICK made, goto_condition : /\ made = Goto(settled, Value(n, 1).symbol)
                                  /\ goto_condition = NextQuad(made)
  OBVIOUS
<1>5. PICK sources : sources = <<Value(n, 2).code, Value(n, 4).code, goto_condition>>
  OBVIOUS
<1>6. PICK o : o = <<2, 4, 6>>
  OBVIOUS
<1>7. /\ Reduce("WHILE") /\ UnchangedByControl
      /\ \E meant : Built(Concat(made, sources).heap,
                         Code(Concat(made, sources).list), n, meant)
  BY <1>1, <1>2, <1>3, <1>4, <1>5 DEF ControlWhile
<1>8. Takes("WHILE") = <<"tag", "cond", "tag", "code", "tag1">>
  BY Taken
<1>9. n = Len(Takes("WHILE")) /\ 2 \in 1 .. n
  BY <1>1, <1>8
<1>10. \A t \in {1, 3, 5} : Value(n, t).symbol # NoSymbol
  <2>1. \A t \in {1, 3, 5} : t \in 1 .. n /\ Takes("WHILE")[t] \in {"tag", "tag1", "tag2"}
    BY <1>1, <1>8
  <2>2. \A t \in {1, 3, 5} : Takes("WHILE")[t] \in DOMAIN Late
    BY <2>1 DEF Late
  <2> QED
    BY <2>1, <2>2, <1>7, <1>9, TagLabels
<1>11. \A i \in 1 .. n : Takes("WHILE")[i] = "cond" => i = 2
  BY <1>1, <1>8
<1>12. Settles(settled, n) /\ NextQuad(settled) = NextQuad(heap)
  <2>1. PICK i \in 1 .. n : i = 2
    BY <1>9
  <2>2. PICK true_tag, false_tag : /\ true_tag = Value(n, 3).symbol
                                   /\ false_tag = Value(n, 5).symbol
    OBVIOUS
  <2>3. true_tag # NoSymbol /\ false_tag # NoSymbol
    BY <2>2, <1>10
  <2>4. settled = Settle(heap, Value(n, i), true_tag, false_tag)
    BY <2>1, <2>2, <1>2, <1>3
  <2>5. \A j \in 1 .. n : Takes("WHILE")[j] = "cond" => j = i
    BY <2>1, <1>11
  <2> QED
    BY <2>3, <2>4, <2>5, <1>7, <1>9, SettleSettles
<1>13. Settles(made, n) /\ NextQuad(made) = NextQuad(settled) + 1
  <2>1. PICK label : label = Value(n, 1).symbol
    OBVIOUS
  <2>2. label # NoSymbol /\ made = Goto(settled, label)
    BY <2>1, <1>4, <1>10
  <2> QED
    BY <2>2, <1>7, <1>9, <1>12, GotoSettles
<1>14. PICK top \in Nat : top = NextQuad(heap)
  BY ListsAre, WiredIs
<1>15. goto_condition = top + 1 /\ NextQuad(made) = top + 1
  BY <1>4, <1>12, <1>13, <1>14
<1>16. Origin(made, n, sources, o)
  <2>1. Len(sources) = 3 /\ Len(sources) \in Nat
    BY <1>5
  <2>2. \A i \in 1 .. 3 : i = 1 \/ i = 2 \/ i = 3
    OBVIOUS
  <2>3. /\ o[1] \in 1 .. n /\ sources[1] = Value(n, o[1]).code
        /\ o[2] \in 1 .. n /\ sources[2] = Value(n, o[2]).code
    BY <1>1, <1>5, <1>6
  <2>4. /\ o[3] \in Nat /\ n < o[3]
        /\ NextQuad(heap) + (o[3] - n) <= NextQuad(made)
        /\ sources[3] = NextQuad(heap) + (o[3] - n)
    BY <1>1, <1>5, <1>6, <1>14, <1>15
  <2>5. \A i, j \in 1 .. 3 : o[i] = o[j] => i = j
    BY <2>2, <1>6
  <2> QED
    BY <2>1, <2>2, <2>3, <2>4, <2>5 DEF Origin
<1>17. Wholly("WHILE", made, n, PlacesOf(sources, o))
  <2>1. PICK placed : placed = PlacesOf(sources, o)
    OBVIOUS
  <2>2. 2 \in placed /\ 4 \in placed /\ 6 \in placed
    <3>1. Len(sources) = 3
      BY <1>5
    <3>2. \A i \in 1 .. 3 : o[i] \in placed
      BY <2>1, <3>1 DEF PlacesOf
    <3> QED
      BY <3>2, <1>6
  <2>3. \A k \in 1 .. n : k \in {1, 2, 3, 4, 5}
    BY <1>1
  <2>4. \A k \in 1 .. n : /\ Takes("WHILE")[k] # "expr"
                          /\ Takes("WHILE")[k] \in {"tag", "tag1", "tag2"} \/ k \in placed
    BY <2>2, <2>3, <1>8
  <2>5. \A m \in Fresh(made) : n + (m - NextQuad(heap)) \in placed
    <3>1. \A m \in Fresh(made) : n + (m - NextQuad(heap)) = n + 1
      BY <1>14, <1>15 DEF Fresh
    <3> QED
      BY <3>1, <2>2, <1>1
  <2>6. DOMAIN Late = {"tag", "tag1", "tag2"}
    BY DEF Late
  <2>7. \A k \in 1 .. n : /\ Takes("WHILE")[k] # "expr"
                          /\ Takes("WHILE")[k] \in DOMAIN Late \/ k \in placed
    BY <2>4, <2>6
  <2> QED
    BY <2>1, <2>5, <2>7 DEF Wholly
<1> QED
  BY <1>7, <1>9, <1>13, <1>16, <1>17, ControlLists

\* A do has its test behind its statements.
LEMMA ControlDoWhileLists == ASSUME IInv, ListsKept, ControlDoWhile PROVE KeepsLists
<1>1. PICK n \in Nat : n = 4
  OBVIOUS
<1>2. PICK cond : cond = Value(n, 3)
  OBVIOUS
<1>3. PICK settled : settled = Settle(heap, cond, Value(n, 1).symbol, Value(n, 4).symbol)
  OBVIOUS
<1>4. PICK sources : sources = <<Value(n, 2).code, Value(n, 3).code>>
  OBVIOUS
<1>5. PICK o : o = <<2, 3>>
  OBVIOUS
<1>6. /\ Reduce("DO") /\ UnchangedByControl
      /\ \E meant : Built(Concat(settled, sources).heap,
                         Code(Concat(settled, sources).list), n, meant)
  BY <1>1, <1>2, <1>3, <1>4 DEF ControlDoWhile
<1>7. Takes("DO") = <<"tag", "code", "cond", "tag">>
  BY Taken
<1>8. n = Len(Takes("DO")) /\ 3 \in 1 .. n
  BY <1>1, <1>7
<1>9. \A t \in {1, 4} : Value(n, t).symbol # NoSymbol
  <2>1. \A t \in {1, 4} : t \in 1 .. n /\ Takes("DO")[t] \in {"tag", "tag1", "tag2"}
    BY <1>1, <1>7
  <2>2. \A t \in {1, 4} : Takes("DO")[t] \in DOMAIN Late
    BY <2>1 DEF Late
  <2> QED
    BY <2>1, <2>2, <1>6, <1>8, TagLabels
<1>10. \A i \in 1 .. n : Takes("DO")[i] = "cond" => i = 3
  BY <1>1, <1>7
<1>11. Settles(settled, n) /\ NextQuad(settled) = NextQuad(heap)
  <2>1. PICK i \in 1 .. n : i = 3
    BY <1>8
  <2>2. PICK true_tag, false_tag : /\ true_tag = Value(n, 1).symbol
                                   /\ false_tag = Value(n, 4).symbol
    OBVIOUS
  <2>3. true_tag # NoSymbol /\ false_tag # NoSymbol
    BY <2>2, <1>9
  <2>4. settled = Settle(heap, Value(n, i), true_tag, false_tag)
    BY <2>1, <2>2, <1>2, <1>3
  <2>5. \A j \in 1 .. n : Takes("DO")[j] = "cond" => j = i
    BY <2>1, <1>10
  <2> QED
    BY <2>3, <2>4, <2>5, <1>6, <1>8, SettleSettles
<1>12. Origin(settled, n, sources, o)
  <2>1. Len(sources) = 2 /\ Len(sources) \in Nat
    BY <1>4
  <2>2. \A i \in 1 .. 2 : i = 1 \/ i = 2
    OBVIOUS
  <2>3. /\ o[1] \in 1 .. n /\ sources[1] = Value(n, o[1]).code
        /\ o[2] \in 1 .. n /\ sources[2] = Value(n, o[2]).code
    BY <1>1, <1>4, <1>5
  <2>4. \A i, j \in 1 .. 2 : o[i] = o[j] => i = j
    BY <2>2, <1>5
  <2> QED
    BY <2>1, <2>2, <2>3, <2>4 DEF Origin
<1>13. Wholly("DO", settled, n, PlacesOf(sources, o))
  <2>1. PICK placed : placed = PlacesOf(sources, o)
    OBVIOUS
  <2>2. 2 \in placed /\ 3 \in placed
    <3>1. Len(sources) = 2
      BY <1>4
    <3>2. \A i \in 1 .. 2 : o[i] \in placed
      BY <2>1, <3>1 DEF PlacesOf
    <3> QED
      BY <3>2, <1>5
  <2>3. \A k \in 1 .. n : k \in {1, 2, 3, 4}
    BY <1>1
  <2>4. \A k \in 1 .. n : /\ Takes("DO")[k] # "expr"
                          /\ Takes("DO")[k] \in {"tag", "tag1", "tag2"} \/ k \in placed
    BY <2>2, <2>3, <1>7
  <2>5. \A m \in Fresh(settled) : n + (m - NextQuad(heap)) \in placed
    <3>1. NextQuad(heap) \in Nat
      BY ListsAre, WiredIs
    <3> QED
      BY <3>1, <1>11 DEF Fresh
  <2>6. DOMAIN Late = {"tag", "tag1", "tag2"}
    BY DEF Late
  <2>7. \A k \in 1 .. n : /\ Takes("DO")[k] # "expr"
                          /\ Takes("DO")[k] \in DOMAIN Late \/ k \in placed
    BY <2>4, <2>6
  <2> QED
    BY <2>1, <2>5, <2>7 DEF Wholly
<1> QED
  BY <1>6, <1>8, <1>11, <1>12, <1>13, ControlLists

\* A for has its iteration and a goto between its test and its statements, and
\* another goto behind them.
LEMMA ControlForLists == ASSUME IInv, ListsKept, ControlFor PROVE KeepsLists
<1>1. PICK n \in Nat : n = 8
  OBVIOUS
<1>2. PICK cond : cond = Value(n, 3)
  OBVIOUS
<1>3. PICK settled : settled = Settle(heap, cond, Value(n, 6).symbol, Value(n, 8).symbol)
  OBVIOUS
<1>4. PICK again, goto_condition : /\ again = Goto(settled, Value(n, 2).symbol)
                                   /\ goto_condition = NextQuad(again)
  OBVIOUS
<1>5. PICK made, goto_iteration : /\ made = Goto(again, Value(n, 4).symbol)
                                  /\ goto_iteration = NextQuad(made)
  OBVIOUS
<1>6. PICK sources : sources = <<Value(n, 1).code, Value(n, 3).code, Value(n, 5).code,
                                goto_condition, Value(n, 7).code, goto_iteration>>
  OBVIOUS
<1>7. PICK o : o = <<1, 3, 5, 9, 7, 10>>
  OBVIOUS
<1>8. /\ Reduce("FOR") /\ UnchangedByControl
      /\ \E meant : Built(Concat(made, sources).heap,
                         Code(Concat(made, sources).list), n, meant)
  BY <1>1, <1>2, <1>3, <1>4, <1>5, <1>6 DEF ControlFor
<1>9. Takes("FOR") = <<"code", "tag", "cond", "tag", "code", "tag1", "code",
                           "tag2">>
  BY Taken
<1>10. n = Len(Takes("FOR")) /\ 3 \in 1 .. n
  BY <1>1, <1>9
<1>11. \A t \in {2, 4, 6, 8} : Value(n, t).symbol # NoSymbol
  <2>1. \A t \in {2, 4, 6, 8} : t \in 1 .. n /\ Takes("FOR")[t] \in {"tag", "tag1", "tag2"}
    BY <1>1, <1>9
  <2>2. \A t \in {2, 4, 6, 8} : Takes("FOR")[t] \in DOMAIN Late
    BY <2>1 DEF Late
  <2> QED
    BY <2>1, <2>2, <1>8, <1>10, TagLabels
<1>12. \A i \in 1 .. n : Takes("FOR")[i] = "cond" => i = 3
  BY <1>1, <1>9
<1>13. Settles(settled, n) /\ NextQuad(settled) = NextQuad(heap)
  <2>1. PICK i \in 1 .. n : i = 3
    BY <1>10
  <2>2. PICK true_tag, false_tag : /\ true_tag = Value(n, 6).symbol
                                   /\ false_tag = Value(n, 8).symbol
    OBVIOUS
  <2>3. true_tag # NoSymbol /\ false_tag # NoSymbol
    BY <2>2, <1>11
  <2>4. settled = Settle(heap, Value(n, i), true_tag, false_tag)
    BY <2>1, <2>2, <1>2, <1>3
  <2>5. \A j \in 1 .. n : Takes("FOR")[j] = "cond" => j = i
    BY <2>1, <1>12
  <2> QED
    BY <2>3, <2>4, <2>5, <1>8, <1>10, SettleSettles
<1>14. Settles(again, n) /\ NextQuad(again) = NextQuad(settled) + 1
  <2>1. PICK label : label = Value(n, 2).symbol
    OBVIOUS
  <2>2. label # NoSymbol /\ again = Goto(settled, label)
    BY <2>1, <1>4, <1>11
  <2> QED
    BY <2>2, <1>8, <1>10, <1>13, GotoSettles
<1>15. Settles(made, n) /\ NextQuad(made) = NextQuad(again) + 1
  <2>1. PICK label : label = Value(n, 4).symbol
    OBVIOUS
  <2>2. label # NoSymbol /\ made = Goto(again, label)
    BY <2>1, <1>5, <1>11
  <2> QED
    BY <2>2, <1>8, <1>10, <1>14, GotoSettles
<1>16. PICK top \in Nat : top = NextQuad(heap)
  BY ListsAre, WiredIs
<1>17. /\ goto_condition = top + 1 /\ goto_iteration = top + 2
       /\ NextQuad(made) = top + 2
  BY <1>4, <1>5, <1>13, <1>14, <1>15, <1>16
<1>18. Origin(made, n, sources, o)
  <2>1. Len(sources) = 6 /\ Len(sources) \in Nat
    BY <1>6
  <2>2. \A i \in 1 .. 6 : i = 1 \/ i = 2 \/ i = 3 \/ i = 4 \/ i = 5 \/ i = 6
    OBVIOUS
  <2>3. /\ o[1] \in 1 .. n /\ sources[1] = Value(n, o[1]).code
        /\ o[2] \in 1 .. n /\ sources[2] = Value(n, o[2]).code
        /\ o[3] \in 1 .. n /\ sources[3] = Value(n, o[3]).code
        /\ o[5] \in 1 .. n /\ sources[5] = Value(n, o[5]).code
    BY <1>1, <1>6, <1>7
  <2>4. /\ o[4] \in Nat /\ n < o[4]
        /\ NextQuad(heap) + (o[4] - n) <= NextQuad(made)
        /\ sources[4] = NextQuad(heap) + (o[4] - n)
        /\ o[6] \in Nat /\ n < o[6]
        /\ NextQuad(heap) + (o[6] - n) <= NextQuad(made)
        /\ sources[6] = NextQuad(heap) + (o[6] - n)
    BY <1>1, <1>6, <1>7, <1>16, <1>17
  <2>5. \A i, j \in 1 .. 6 : o[i] = o[j] => i = j
    BY <2>2, <1>7
  <2> QED
    BY <2>1, <2>2, <2>3, <2>4, <2>5 DEF Origin
<1>19. Wholly("FOR", made, n, PlacesOf(sources, o))
  <2>1. PICK placed : placed = PlacesOf(sources, o)
    OBVIOUS
  <2>2. 1 \in placed /\ 3 \in placed /\ 5 \in placed /\ 9 \in placed /\ 7 \in placed /\ 10 \in placed
    <3>1. Len(sources) = 6
      BY <1>6
    <3>2. \A i \in 1 .. 6 : o[i] \in placed
      BY <2>1, <3>1 DEF PlacesOf
    <3> QED
      BY <3>2, <1>7
  <2>3. \A k \in 1 .. n : k \in {1, 2, 3, 4, 5, 6, 7, 8}
    BY <1>1
  <2>4. \A k \in 1 .. n : /\ Takes("FOR")[k] # "expr"
                          /\ Takes("FOR")[k] \in {"tag", "tag1", "tag2"} \/ k \in placed
    BY <2>2, <2>3, <1>9
  <2>5. \A m \in Fresh(made) : n + (m - NextQuad(heap)) \in placed
    <3>1. \A m \in Fresh(made) : \/ n + (m - NextQuad(heap)) = n + 1
                                \/ n + (m - NextQuad(heap)) = n + 2
      BY <1>16, <1>17 DEF Fresh
    <3> QED
      BY <3>1, <2>2, <1>1
  <2>6. DOMAIN Late = {"tag", "tag1", "tag2"}
    BY DEF Late
  <2>7. \A k \in 1 .. n : /\ Takes("FOR")[k] # "expr"
                          /\ Takes("FOR")[k] \in DOMAIN Late \/ k \in placed
    BY <2>4, <2>6
  <2> QED
    BY <2>1, <2>5, <2>7 DEF Wholly
<1> QED
  BY <1>8, <1>10, <1>15, <1>18, <1>19, ControlLists

-----------------------------------------------------------------------------
(***************************************************************************)
(* The program.                                                            *)
(***************************************************************************)

\* A function's statements become the program; those of the function before
\* it are forgotten.
LEMMA FunctionLists == ASSUME IInv, ListsKept, Function PROVE KeepsLists
<1>1. PICK n \in Nat : n = 1
  OBVIOUS
<1>2. PICK v : v = Value(n, n)
  OBVIOUS
<1>3. /\ Reduce("FUNCTION") /\ quad_list' = v.code /\ vals' = Below(n)
      /\ heap' = heap /\ connectives' = connectives /\ merged' = merged
      /\ dangling' = dangling /\ status' = status
  BY <1>1, <1>2 DEF Function
<1>4. Takes("FUNCTION") = <<"code">>
  BY Taken
<1>5. n = Len(Takes("FUNCTION")) /\ n \in 1 .. n /\ Takes("FUNCTION")[n] # "cond"
  BY <1>1, <1>4
<1>6. v.true_list = NULL /\ v.false_list = NULL /\ ~ Trap(heap, v)
  BY <1>2, <1>3, <1>5, NoLists
<1>7. PICK l \in Nat : l + n = Len(vals) /\ v = vals[l + n]
  <2>1. n <= Len(vals) /\ Len(vals) \in Nat
    BY <1>3, <1>5, ListsAre, ValuesAre
  <2>2. Len(vals) - n \in Nat /\ (Len(vals) - n) + n = Len(vals)
    BY <2>1
  <2> QED
    BY <2>2, <1>2 DEF Value
<1>8. Len(vals') = l /\ \A k \in 1 .. l : vals'[k] = vals[k]
  <2>1. PICK A : vals \in Seq(A)
    BY ListsAre
  <2>2. vals' = SubSeq(vals, 1, l)
    BY <1>3, <1>7 DEF Below
  <2> QED
    BY <2>1, <2>2, <1>7
<1>9. ASSUME Apart(heap, vals, quad_list, connectives, dangling)
      PROVE  Apart(heap', vals', quad_list', connectives', dangling')
  <2>1. l + n \in 1 .. Len(vals) /\ l + n = l + 1
    BY <1>1, <1>7
  <2>2. Sound(heap, v, connectives, dangling)
    BY <2>1, <1>7, <1>9 DEF Apart
  <2>3. ~ Endless(heap, v.code)
    BY <2>2 DEF Sound
  <2>4. \A m \in NodesOf(heap, v.code) : Open(heap, m) => m \in dangling
    <3>1. v.yes = {} /\ v.no = {}
      BY <1>6, <2>2 DEF Sound, Exit
    <3> QED
      BY <3>1, <2>2 DEF Sound, Awaited
  <2>5. ASSUME NEW k \in 1 .. l
        PROVE  /\ k \in 1 .. Len(vals) /\ k # l + n
               /\ Sound(heap, vals[k], connectives, dangling)
               /\ NodesOf(heap, vals[k].code) \cap NodesOf(heap, v.code) = {}
    <3>1. k \in 1 .. Len(vals) /\ k # l + n
      BY <2>1, <1>7
    <3> QED
      BY <3>1, <2>1, <1>7, <1>9 DEF Apart
  <2>6. \A j, k \in 1 .. l : j # k =>
          NodesOf(heap, vals[j].code) \cap NodesOf(heap, vals[k].code) = {}
    BY <2>5, <1>9 DEF Apart
  <2>7. Apart(heap, vals', v.code, connectives, dangling)
    BY <2>3, <2>4, <2>5, <2>6, <1>8 DEF Apart
  <2> QED
    BY <2>7, <1>3
<1>10. ASSUME NEW k \in 1 .. Len(vals), Trap(heap, vals[k])
       PROVE  k \in 1 .. l
  <2>1. k # l + n
    BY <1>6, <1>7, <1>10
  <2> QED
    BY <2>1, <1>1, <1>7, <1>10
<1>11. merged' /\ ~ heap'.hung /\ status' = "parsing" =>
         \E k \in 1 .. Len(vals') : Trap(heap', vals'[k])
  BY <1>3, <1>8, <1>10 DEF ListsKept
<1>12. LabelsLeft(heap, heap')
  BY <1>3 DEF LabelsLeft
<1>13. Traced
  BY <1>3 DEF Traced, Reduce
<1> QED
  BY <1>3, <1>9, <1>11, <1>12, <1>13 DEF ListsKept, KeepsLists

\* When the whole text has been parsed there is no value, hence no trap.
LEMMA NoValueLeft ==
  ASSUME IInv, ListsKept, work = <<>>, status = "parsing", ~ heap.hung
  PROVE  Len(vals) = 0 /\ ~ merged /\ Apart(heap, vals, quad_list, connectives, dangling)
<1>1. PICK kinds, F : Stacks(work, kinds) /\ Fit(vals, kinds[1], F)
  BY DEF IInv, StackKept
<1>2. kinds[1] = <<>>
  BY <1>1 DEF Stacks
<1>3. Len(vals) = 0
  BY <1>1, <1>2 DEF Fit
<1> QED
  BY <1>3 DEF ListsKept

\* main() pushes a RET behind a program that ends: the list gets one node,
\* which is no branch.
LEMMA ListPushed ==
  ASSUME NEW h, Wired(h), ~ h.hung, NEW list \in 0 .. NextQuad(h),
         ~ Endless(h, list), NEW op \in Ops, op \notin BranchOps
  PROVE  LET r == ListPush(h, list, op)
         IN  /\ ~ r.heap.hung /\ ~ Endless(r.heap, r.list)
             /\ NextQuad(r.heap) = NextQuad(h) + 1
             /\ NodesOf(r.heap, r.list) = NodesOf(h, list) \cup {NextQuad(h) + 1}
             /\ \A m \in 1 .. NextQuad(h) : Says(r.heap.quad[m]) = Says(h.quad[m])
             /\ \A m \in NodesOf(r.heap, r.list) :
                  m \in NodesOf(h, list) \/ r.heap.quad[m].op = op
<1>1. PICK made, r : made = QuadNewEmpty(h, op) /\ r = ListPush(h, list, op)
  OBVIOUS
<1>2. /\ Wired(made) /\ ~ made.hung /\ NextQuad(made) = NextQuad(h) + 1
      /\ \A m \in 1 .. NextQuad(h) : made.quad[m] = h.quad[m]
  BY <1>1, QuadNewWires DEF QuadNewEmpty
<1>3. PICK m \in Nat, x \in Nat : m = NextQuad(h) /\ x = NextQuad(made) /\ x = m + 1
  BY <1>2, WiredIs
<1>4. made.quad[x].op = op /\ made.quad[x].successor = NULL
  <2>1. made.quad[NextQuad(h) + 1] = [op |-> op, res |-> NoSymbol, op1 |-> NoSymbol,
                                      op2 |-> NoSymbol, successor |-> NULL]
    BY <1>1, QuadNewNode DEF QuadNewEmpty
  <2> QED
    BY <2>1, <1>3
<1>5. ~ Endless(made, x) /\ NodesOf(made, x) = {x}
  <2>1. x \in 1 .. NextQuad(made)
    BY <1>3
  <2> QED
    BY <2>1, <1>2, <1>4, Single
<1>6. CASE list = NULL
  <2>1. r.heap = made /\ r.list = x
    BY <1>1, <1>3, <1>6 DEF ListPush
  <2>2. NodesOf(h, list) = {}
    BY <1>6, NoList
  <2> QED
    BY <2>1, <2>2, <1>1, <1>2, <1>3, <1>4, <1>5
<1>7. CASE list # NULL
  <2>1. r.heap = Link(made, list, x) /\ r.list = list
    BY <1>1, <1>3, <1>7 DEF ListPush
  <2>2. NodesOf(h, list) \subseteq 1 .. m
    BY <1>3, EndingIs
  <2>3. ~ Endless(made, list) /\ NodesOf(made, list) = NodesOf(h, list)
    <3>1. \A i \in NodesOf(h, list) : made.quad[i].successor = h.quad[i].successor
      BY <2>2, <1>2, <1>3
    <3>2. NextQuad(h) <= NextQuad(made)
      BY <1>3
    <3> QED
      BY <3>1, <3>2, <1>2, Undisturbed
  <2>4. /\ list \in 1 .. NextQuad(made) /\ x \in 0 .. NextQuad(made)
        /\ NodesOf(made, list) \cap NodesOf(made, x) = {}
    BY <2>2, <2>3, <1>3, <1>5, <1>7 DEF NULL
  <2>5. PICK g : g = Link(made, list, x)
    OBVIOUS
  <2>6. /\ Wired(g) /\ ~ g.hung /\ NextQuad(g) = NextQuad(made)
        /\ \A n \in 1 .. NextQuad(made) : Says(g.quad[n]) = Says(made.quad[n])
        /\ \A i \in NodesOf(made, list) :
             /\ ~ Endless(g, i)
             /\ NodesOf(g, i) = NodesOf(made, i) \cup NodesOf(made, x)
    <3>1. Extended(made, list, x, g)
      BY <2>3, <2>4, <2>5, <1>2, <1>5, Linking
    <3> QED
      BY <3>1 DEF Extended
  <2>7. list \in NodesOf(made, list)
    BY <2>3, <2>4, <1>2, <1>7, EndingIs
  <2>8. ~ Endless(g, list) /\ NodesOf(g, list) = NodesOf(h, list) \cup {x}
    BY <2>3, <2>6, <2>7, <1>5
  <2>9. g.quad[x].op = op
    <3>1. Says(g.quad[x]) = Says(made.quad[x])
      BY <2>6, <1>3
    <3> QED
      BY <3>1, <1>4 DEF Says
  <2>10. \A i \in 1 .. NextQuad(h) : Says(g.quad[i]) = Says(h.quad[i])
    BY <2>6, <1>2, <1>3
  <2> QED
    BY <2>1, <2>5, <2>6, <2>8, <2>9, <2>10, <1>1, <1>3
<1> QED
  BY <1>6, <1>7

\* The program ends with its RET, and no trap is left.
LEMMA AddReturnLists == ASSUME IInv, ListsKept, AddReturn PROVE KeepsLists
<1>1. PICK r : r = ListPush(heap, quad_list, "RET")
  OBVIOUS
<1>2. /\ work = <<>> /\ status = "parsing" /\ ~ heap.hung
      /\ heap' = r.heap /\ quad_list' = r.list /\ vals' = vals
      /\ connectives' = connectives /\ dangling' = dangling /\ merged' = merged
  BY <1>1 DEF AddReturn, meaning
<1>3. Len(vals) = 0 /\ ~ merged /\ Apart(heap, vals, quad_list, connectives, dangling)
  BY <1>2, NoValueLeft
<1>4. /\ Wired(heap) /\ quad_list \in 0 .. NextQuad(heap)
      /\ "RET" \in Ops /\ "RET" \notin BranchOps /\ ~ Endless(heap, quad_list)
  BY <1>3, ListsAre DEF Ops, BranchOps, Apart
<1>5. /\ ~ r.heap.hung /\ ~ Endless(r.heap, r.list)
      /\ \A m \in 1 .. NextQuad(heap) : Says(r.heap.quad[m]) = Says(heap.quad[m])
      /\ \A m \in NodesOf(r.heap, r.list) :
           m \in NodesOf(heap, quad_list) \/ r.heap.quad[m].op = "RET"
  BY <1>1, <1>2, <1>4, ListPushed
<1>6. NodesOf(heap, quad_list) \subseteq 1 .. NextQuad(heap)
  BY <1>4, EndingIs
<1>7. ASSUME NEW m \in NodesOf(r.heap, r.list), Open(r.heap, m)
      PROVE  m \in dangling
  <2>1. CASE r.heap.quad[m].op = "RET"
    BY <2>1, <1>4, <1>7 DEF Open
  <2>2. CASE m \in NodesOf(heap, quad_list)
    <3>1. Says(r.heap.quad[m]) = Says(heap.quad[m])
      BY <2>2, <1>5, <1>6
    <3>2. Open(heap, m)
      BY <3>1, <1>7 DEF Says, Open
    <3> QED
      BY <3>2, <2>2, <1>3 DEF Apart
  <2> QED
    BY <2>1, <2>2, <1>5
<1>8. \A k : k \notin 1 .. Len(vals)
  BY <1>3
<1>9. Apart(heap', vals', quad_list', connectives', dangling')
  BY <1>2, <1>5, <1>7, <1>8 DEF Apart
<1>10. LabelsLeft(heap, heap')
  BY <1>2, <1>5 DEF LabelsLeft, Says
<1>11. Traced
  BY DEF AddReturn, Traced
<1> QED
  BY <1>2, <1>3, <1>5, <1>9, <1>10, <1>11 DEF ListsKept, KeepsLists

\* Going on with a rule, or not at all, touches no list.
LEMMA SameLists ==
  ASSUME ListsKept, UNCHANGED <<vals, program, status, meaning>>,
         work' = work \/ Head(work) \in DOMAIN Grammar
  PROVE  KeepsLists
<1>1. /\ vals' = vals /\ heap' = heap /\ quad_list' = quad_list
      /\ connectives' = connectives /\ dangling' = dangling /\ merged' = merged
      /\ status' = status
  BY DEF program, meaning
<1>2. Traced
  BY DEF Traced
<1> QED
  BY <1>1, <1>2 DEF ListsKept, KeepsLists, LabelsLeft

\* At first there is no list.
LEMMA InitLists == Init => ListsKept
<1>1. SUFFICES ASSUME Init PROVE ListsKept
  OBVIOUS
<1>2. /\ vals = <<>> /\ heap = EmptyHeap /\ quad_list = NULL /\ ~ merged
      /\ status = "parsing"
  BY <1>1 DEF Init
<1>3. Wired(heap) /\ ~ heap.hung
  <2>1. IInv
    BY <1>1, InitIInv
  <2> QED
    BY <2>1, <1>2, ListsAre DEF EmptyHeap
<1>4. ~ Endless(heap, quad_list) /\ NodesOf(heap, quad_list) = {}
  BY <1>2, <1>3, NoList
<1>5. \A k : k \notin 1 .. Len(vals)
  BY <1>2
<1> QED
  BY <1>2, <1>3, <1>4, <1>5 DEF ListsKept, Apart

\* Every step keeps the lists.
LEMMA NextLists == ASSUME IInv, ListsKept, Next PROVE KeepsLists
<1>1. CASE Derive
  BY <1>1, SameLists DEF Derive
<1>2. CASE DeclareConstant \/ Lookup \/ UnaryArithmeticOp \/ BinaryArithmeticOp
  BY <1>2, DeclareConstantLists, LookupLists, UnaryArithmeticOpLists,
     BinaryArithmeticOpLists
<1>3. CASE MakeTag("tag", 0) \/ MakeTag("tag1", 1) \/ MakeTag("tag2", 2)
  <2>1. /\ "tag" \in DOMAIN Late /\ "tag1" \in DOMAIN Late
        /\ "tag2" \in DOMAIN Late
        /\ Late["tag"] = 0 /\ Late["tag1"] = 1 /\ Late["tag2"] = 2
    BY DEF Late
  <2> QED
    BY <2>1, <1>3, MakeTagLists
<1>4. CASE Assignation \/ Declare \/ DeclareAndAssign \/ DeclareMatrix
  BY <1>4, AssignationLists, DeclareLists, DeclareAndAssignLists, DeclareMatrixLists
<1>5. CASE CallFunctionWithExpr \/ ControlReturn \/ EmptyStatements \/ Sequence
  BY <1>5, CallFunctionWithExprLists, ControlReturnLists, EmptyStatementsLists,
     SequenceLists
<1>6. CASE \/ ConditionFromExpression \/ ConditionCompareExpressions
           \/ ConditionTrue \/ ConditionFalse
  BY <1>6, ConditionFromExpressionLists, ConditionCompareExpressionsLists,
     ConditionTrueLists, ConditionFalseLists
<1>7. CASE ConditionOr \/ ConditionAnd \/ ConditionNot
  BY <1>7, ConditionOrLists, ConditionAndLists, ConditionNotLists
<1>8. CASE \/ ControlIf \/ ControlIfElse \/ ControlWhile \/ ControlDoWhile
           \/ ControlFor
  BY <1>8, ControlIfLists, ControlIfElseLists, ControlWhileLists,
     ControlDoWhileLists, ControlForLists
<1>9. CASE Function \/ AddReturn
  BY <1>9, FunctionLists, AddReturnLists
<1> QED
  BY <1>1, <1>2, <1>3, <1>4, <1>5, <1>6, <1>7, <1>8, <1>9 DEF Next

\* A step or a stutter keeps the lists.
LEMMA StepLists == ASSUME IInv, ListsKept, [Next]_vars PROVE KeepsLists
<1>1. CASE Next
  BY <1>1, NextLists
<1>2. CASE UNCHANGED vars
  BY <1>2, SameLists DEF vars
<1> QED
  BY <1>1, <1>2

\* Whatever the text, the codes of the values and the program end and share no
\* node, and the lists of a condition are ends of its code, until an OR or an
\* AND joins two exits; from then on a value is a trap (actions.c:90-268,
\* quad_list.c:26-48).
THEOREM ListsInvariance == Spec => [](IInv /\ ListsKept)
<1>1. IInv /\ ListsKept /\ [Next]_vars => ListsKept'
  BY StepLists DEF KeepsLists
<1> QED
  BY <1>1, InitLists, Invariance, PTL DEF Spec

\* Whatever the text, the compiler loops on it only if it has an OR of two
\* conditions that both can jump when they hold, or an AND of two that both can
\* jump when they do not, and it never compiles such a text
\* (actions.c:127-147, quad_list.c:26-43).
THEOREM HangsOnMerging == Spec => []HangsExactlyWhenExitsMerge
<1>1. ListsKept => HangsExactlyWhenExitsMerge
  BY DEF ListsKept, HangsExactlyWhenExitsMerge, Compiled
<1> QED
  BY <1>1, ListsInvariance, PTL

\* Whatever the text, a branch of the compiled program has a label unless it is
\* one that should be taken when the left side of an AND holds: the lists of a
\* condition hold all of its other branches that have none, and the construct it
\* belongs to completes them (actions.c:139, 216-268).
THEOREM BranchesResolved == Spec => []UnresolvedOnlyBeforeAnd
<1>1. ASSUME ListsKept PROVE UnresolvedOnlyBeforeAnd
  <2>1. SUFFICES ASSUME status = "done", NEW b \in InCode,
                        heap.quad[b].op \in BranchOps, ~ Resolved(b)
                 PROVE  b \in dangling
    BY DEF UnresolvedOnlyBeforeAnd, Compiled
  <2>2. Apart(heap, vals, quad_list, connectives, dangling)
    BY <1>1, <2>1 DEF ListsKept
  <2>3. Open(heap, b)
    BY <2>1 DEF Open, Resolved
  <2> QED
    BY <2>2, <2>3 DEF Apart, InCode
<1> QED
  BY <1>1, ListsInvariance, PTL

\* Whatever the text, as long as it has no OR, AND or NOT, a branch that has a
\* label keeps it: a list is completed before anything is linked behind it
\* (quad_list.c:47, actions.c:216-268).
THEOREM LabelsStay == Spec => LabelsWrittenOnce
<1> DEFINE Written == connectives' = {} =>
             \A n \in Nodes : heap.quad[n].op \in BranchOps /\ Resolved(n) =>
                                heap'.quad[n].res = heap.quad[n].res
<1>1. ASSUME IInv, ListsKept, [Next]_vars PROVE Written
  BY <1>1, StepLists DEF KeepsLists, LabelsLeft, Nodes, Resolved
<1>2. IInv /\ ListsKept /\ [Next]_vars => [Written]_vars
  BY <1>1
<1>3. Spec => [][Written]_vars
  BY <1>2, ListsInvariance, PTL DEF Spec
<1> QED
  BY <1>3 DEF LabelsWrittenOnce

-----------------------------------------------------------------------------
(***************************************************************************)
(* Which quadruples are in the program.  Since the last function ended,    *)
(* the code of a statement or a condition has had only quadruples that     *)
(* stay, and that of an expression at most the one that computes it: it    *)
(* stays if a quadruple reads it that is not itself an operand, and that   *)
(* is when the code is linked to that quadruple.                           *)
(***************************************************************************)

\* The nodes made since the last function ended.
Current == extents[Len(extents)] + 1 .. NextQuad(heap)

\* One of the nodes reads the symbol and is not itself an operand.
Sought(h, nodes, x) == \E m \in nodes : x \in Asks(h.quad[m])

Needed(h, nodes, m) ==
  h.quad[m].op \notin ArithmeticOps \/ Sought(h, nodes, h.quad[m].res)

\* The value of an expression: a variable or a constant, or the result of a
\* quadruple that nothing has read yet.
OperandShape(h, nodes, v) ==
  \/ v.code = NULL /\ v.symbol[1] # "tmp"
  \/ \E m \in nodes : /\ NodesOf(h, v.code) = {m}
                      /\ h.quad[m].op \in ArithmeticOps /\ h.quad[m].res = v.symbol
                      /\ ~ Sought(h, nodes, v.symbol)

\* Another value: its code has quadruples that stay.
CodeShape(h, nodes, v) ==
  \A m \in NodesOf(h, v.code) : m \in nodes /\ Needed(h, nodes, m)

ShapeOf(h, nodes, v, kind) ==
  IF kind = "expr" THEN OperandShape(h, nodes, v) ELSE CodeShape(h, nodes, v)

Shaped ==
  \E kinds : /\ Stacks(work, kinds) /\ Len(vals) = Len(kinds[1])
             /\ \A k \in 1 .. Len(vals) : ShapeOf(heap, Current, vals[k], kinds[1][k])

\* What stays is in the code of some value.
NothingMissing ==
  \A m \in Current : Needed(heap, Current, m) =>
    \E k \in 1 .. Len(vals) : m \in NodesOf(heap, vals[k].code)

\* Each operand has a temporary of its own.
OwnTemporaries ==
  \A m, i \in 1 .. NextQuad(heap) :
    heap.quad[m].op \in ArithmeticOps /\ heap.quad[i].op \in ArithmeticOps =>
      /\ heap.quad[m].res[1] = "tmp"
      /\ heap.quad[m].res = heap.quad[i].res => m = i

\* The program is what stays of the last function.
ProgramWhole ==
  Len(extents) > 1 =>
    /\ NodesOf(heap, quad_list) \subseteq LastFunction
    /\ \A m \in LastFunction :
         m \in NodesOf(heap, quad_list) <=> Needed(heap, LastFunction, m)

\* An item that leaves no value is the last one, or only a list of functions
\* comes behind it.
Ending(items) ==
  \A i \in 1 .. Len(items) : Kind(items[i]) = "none" =>
    \/ i = Len(items)
    \/ /\ i + 1 = Len(items) /\ items[i] # "functions"
       /\ items[Len(items)] = "functions"

Unfinished(items) == \E i \in 1 .. Len(items) : Kind(items[i]) = "none"

ExtentsKept ==
  extents \in Seq(Nat) /\ extents # <<>> /\ extents[Len(extents)] <= NextQuad(heap)

OperandsParsed ==
  /\ ExtentsKept /\ Shaped /\ NothingMissing /\ OwnTemporaries /\ ProgramWhole
  /\ Ending(work) /\ (Len(extents) = 1 => Unfinished(work))

OperandsKept ==
  /\ ~ merged /\ status = "parsing" => OperandsParsed
  /\ OnlyOperandsLost

\* Only functions, not their parts, come behind the end of a function.
LEMMA EndingDerived ==
  ASSUME IInv, Derive, Ending(work)
  PROVE  Ending(work') /\ (Unfinished(work) => Unfinished(work'))
<1>1. PICK rhs \in Grammar[Head(work)] : work' = rhs \o Tail(work)
  BY DEF Derive
<1>2. work \in Seq(Item) /\ work # <<>> /\ Head(work) \in DOMAIN Grammar
  BY DEF Derive, Parsing, IInv
<1>3. PICK m \in Nat : Len(work) = m + 1
  <2>1. Len(work) \in Nat /\ Len(work) # 0
    BY <1>2
  <2> QED
    BY <2>1
<1>4. /\ Head(work) = work[1] /\ Tail(work) \in Seq(Item) /\ Len(Tail(work)) = m
      /\ \A i \in 1 .. m : Tail(work)[i] = work[i + 1]
  BY <1>2, <1>3
<1>5. CASE Kind(Head(work)) # "none"
  <2>1. rhs # <<"function", "functions">>
    <3>1. \A x \in DOMAIN Grammar : <<"function", "functions">> \in Grammar[x] => x = "functions"
      BY DEF Grammar
    <3> QED
      BY <3>1, <1>1, <1>2, <1>5, KindsOf
  <2>2. PICK r \in 1 .. 9 : Wellformed(Head(work), rhs, r)
    BY <2>1, <1>2, RulesWellformed
  <2>3. rhs \in Seq(Item) /\ Len(rhs) = r
    BY <2>2 DEF Wellformed
  <2>4. \A i \in 1 .. r : Kind(rhs[i]) # "none"
    BY <2>2, <1>5 DEF Wellformed, Leaves
  <2>5. /\ Len(work') = r + m /\ \A i \in 1 .. r : work'[i] = rhs[i]
        /\ \A i \in r + 1 .. r + m : work'[i] = work[i - r + 1]
    <3>1. \A i \in r + 1 .. r + m : i - r \in 1 .. m
      OBVIOUS
    <3>2. \A i \in r + 1 .. r + m : work'[i] = Tail(work)[i - r]
      BY <2>3, <1>1, <1>4
    <3> QED
      BY <3>1, <3>2, <2>3, <1>1, <1>4
  <2>6. ASSUME NEW i \in 1 .. r + m, Kind(work'[i]) = "none"
        PROVE  \/ i = r + m
               \/ i + 1 = r + m /\ work'[i] # "functions" /\ work'[r + m] = "functions"
    <3>1. i \in r + 1 .. r + m
      BY <2>4, <2>5, <2>6
    <3>2. PICK k \in 1 .. m + 1 : k = i - r + 1 /\ work'[i] = work[k]
      <4>1. i - r + 1 \in 1 .. m + 1
        BY <3>1
      <4> QED
        BY <4>1, <3>1, <2>5
    <3>3. CASE k = m + 1
      BY <3>2, <3>3
    <3>4. CASE k # m + 1
      <4>1. k + 1 = m + 1 /\ work[k] # "functions" /\ work[m + 1] = "functions"
        BY <3>2, <3>4, <2>6, <1>3 DEF Ending
      <4>2. r + m \in r + 1 .. r + m /\ (r + m) - r + 1 = m + 1
        BY <3>1
      <4> QED
        BY <4>1, <4>2, <3>2, <2>5
    <3> QED
      BY <3>3, <3>4
  <2>7. ASSUME Unfinished(work) PROVE Unfinished(work')
    <3>1. PICK k \in 1 .. m + 1 : Kind(work[k]) = "none"
      BY <2>7, <1>3 DEF Unfinished
    <3>2. k # 1
      BY <3>1, <1>4, <1>5
    <3>3. PICK i \in r + 1 .. r + m : i - r + 1 = k
      <4>1. r + (k - 1) \in r + 1 .. r + m /\ (r + (k - 1)) - r + 1 = k
        BY <3>2
      <4> QED
        BY <4>1
    <3>4. i \in 1 .. Len(work') /\ work'[i] = work[k]
      BY <3>3, <2>5
    <3> QED
      BY <3>1, <3>4 DEF Unfinished
  <2> QED
    BY <2>5, <2>6, <2>7 DEF Ending
<1>6. CASE Kind(Head(work)) = "none"
  <2>1. \/ m = 0
        \/ m = 1 /\ Head(work) # "functions" /\ Tail(work)[1] = "functions"
    <3>1. \/ 1 = m + 1
          \/ 1 + 1 = m + 1 /\ work[1] # "functions" /\ work[m + 1] = "functions"
      <4>1. 1 \in 1 .. Len(work)
        BY <1>3
      <4> QED
        BY <4>1, <1>3, <1>4, <1>6 DEF Ending
    <3>2. CASE m = 1
      <4>1. 1 \in 1 .. m /\ 1 + 1 = 2 /\ m + 1 = 2
        BY <3>2
      <4>2. Tail(work)[1] = work[2]
        BY <4>1, <1>4
      <4>3. work[2] = "functions" /\ work[1] # "functions"
        BY <3>1, <4>1
      <4> QED
        BY <3>2, <4>2, <4>3, <1>4
    <3>3. CASE m # 1
      BY <3>1, <3>3
    <3> QED
      BY <3>2, <3>3
  <2>2. \/ Head(work) = "functions" /\ rhs \in {<<"function">>, <<"function", "functions">>}
        \/ Head(work) = "function" /\ rhs = <<"statements", "FUNCTION">>
    <3>1. Head(work) \in {"functions", "function"}
      <4>1. Head(work) \in {"functions", "function", "statements", "statement",
              "variable_declaration", "assignation", "expression", "condition"}
        BY <1>2 DEF Grammar
      <4> QED
        BY <4>1, <1>6, KindsOf
    <3>2. /\ Grammar["functions"] = {<<"function">>, <<"function", "functions">>}
          /\ Grammar["function"] = {<<"statements", "FUNCTION">>}
      BY DEF Grammar
    <3> QED
      BY <3>1, <3>2, <1>1
  <2>3. /\ Len(work') = Len(rhs) + m /\ \A i \in 1 .. Len(rhs) : work'[i] = rhs[i]
        /\ m = 1 => work'[Len(rhs) + 1] = Tail(work)[1]
    <3>1. PICK t \in Seq(Item) : t = Tail(work) /\ Len(t) = m
      BY <1>4
    <3>2. rhs \in Seq(Item)
      <4>1. /\ "function" \in Item /\ "functions" \in Item
            /\ "statements" \in Item /\ "FUNCTION" \in Item
        BY DEF Item
      <4> HIDE DEF Item
      <4>2. /\ <<"function">> \in Seq(Item) /\ <<"function", "functions">> \in Seq(Item)
            /\ <<"statements", "FUNCTION">> \in Seq(Item)
        BY <4>1
      <4> QED
        BY <2>2, <4>2
    <3>3. PICK q \in Seq(Item), r \in Nat : q = rhs /\ r = Len(rhs)
      BY <3>2
    <3>4. work' = q \o t /\ Len(q) = r
      BY <3>1, <3>3, <1>1
    <3>5. Len(work') = r + m /\ \A i \in 1 .. r : work'[i] = q[i]
      <4>1. /\ Len(q \o t) = Len(q) + Len(t)
            /\ \A i \in 1 .. Len(q) : (q \o t)[i] = q[i]
        BY <3>1, <3>3, ConcatProperties
      <4> QED
        BY <4>1, <3>1, <3>4
    <3>6. ASSUME m = 1 PROVE work'[r + 1] = t[1]
      <4>1. Len(t) = 1 /\ r + 1 \in r + 1 .. r + 1 /\ (r + 1) - r = 1
        BY <3>1, <3>6
      <4> QED
        BY <4>1, <3>1, <3>4
    <3> QED
      BY <3>1, <3>3, <3>5, <3>6
  <2>4. /\ Kind("function") = "none" /\ Kind("functions") = "none"
        /\ Kind("FUNCTION") = "none" /\ Kind("statements") # "none"
    BY KindsOf
  <2>5. CASE m = 0 /\ rhs = <<"function">>
    <3>1. Len(work') = 1 /\ work'[1] = "function"
      BY <2>3, <2>5
    <3> QED
      BY <3>1, <2>4 DEF Ending, Unfinished
  <2>6. CASE m = 0 /\ rhs = <<"function", "functions">>
    <3>1. Len(work') = 2 /\ work'[1] = "function" /\ work'[2] = "functions"
      BY <2>3, <2>6
    <3> QED
      BY <3>1, <2>4 DEF Ending, Unfinished
  <2>7. CASE m = 0 /\ rhs = <<"statements", "FUNCTION">>
    <3>1. Len(work') = 2 /\ work'[1] = "statements" /\ work'[2] = "FUNCTION"
      BY <2>3, <2>7
    <3> QED
      BY <3>1, <2>4 DEF Ending, Unfinished
  <2>8. CASE m = 1 /\ rhs = <<"statements", "FUNCTION">>
    <3>1. /\ Len(work') = 3 /\ work'[1] = "statements" /\ work'[2] = "FUNCTION"
          /\ work'[3] = "functions"
      <4>1. Len(rhs) = 2 /\ rhs[1] = "statements" /\ rhs[2] = "FUNCTION"
        BY <2>8
      <4>2. m = 1 /\ m # 0
        BY <2>8
      <4>3. Tail(work)[1] = "functions"
        BY <2>1, <4>2, Zenon
      <4>4. Len(rhs) + m = 3 /\ Len(rhs) + 1 = 3 /\ 1 \in 1 .. Len(rhs) /\ 2 \in 1 .. Len(rhs)
        BY <4>1, <4>2
      <4> QED
        BY <4>1, <4>2, <4>3, <4>4, <2>3
    <3> QED
      BY <3>1, <2>4 DEF Ending, Unfinished
  <2> QED
    BY <2>1, <2>2, <2>5, <2>6, <2>7, <2>8
<1> QED
  BY <1>5, <1>6

\* So it is when the next item has been treated.
LEMMA EndingReduced ==
  ASSUME work \in Seq(Item), work # <<>>, Ending(work), work' = Tail(work)
  PROVE  /\ Ending(work')
         /\ Kind(Head(work)) # "none" /\ Unfinished(work) => Unfinished(work')
<1>1. PICK m \in Nat : Len(work) = m + 1
  <2>1. Len(work) \in Nat /\ Len(work) # 0
    OBVIOUS
  <2> QED
    BY <2>1
<1>2. /\ Head(work) = work[1] /\ Len(work') = m
      /\ \A i \in 1 .. m : work'[i] = work[i + 1]
  BY <1>1
<1>3. ASSUME NEW i \in 1 .. m, Kind(work'[i]) = "none"
      PROVE  \/ i = m
             \/ i + 1 = m /\ work'[i] # "functions" /\ work'[m] = "functions"
  <2>1. i + 1 \in 1 .. m + 1 /\ m \in 1 .. m
    OBVIOUS
  <2>2. \/ i + 1 = m + 1
        \/ /\ (i + 1) + 1 = m + 1 /\ work[i + 1] # "functions"
           /\ work[m + 1] = "functions"
    BY <2>1, <1>1, <1>2, <1>3 DEF Ending
  <2> QED
    BY <2>1, <2>2, <1>2
<1>4. ASSUME Kind(Head(work)) # "none", Unfinished(work) PROVE Unfinished(work')
  <2>1. PICK k \in 1 .. m + 1 : Kind(work[k]) = "none"
    BY <1>1, <1>4 DEF Unfinished
  <2>2. k - 1 \in 1 .. m /\ (k - 1) + 1 = k
    BY <2>1, <1>2, <1>4
  <2> QED
    BY <2>1, <2>2, <1>2 DEF Unfinished
<1> QED
  BY <1>2, <1>3, <1>4 DEF Ending

\* A reduction takes n of the kinds, and puts its own in their place.
Pops(kinds, n) ==
  \E l \in Nat : \E after :
    /\ l + n = Len(vals) /\ Stacks(Tail(work), after)
    /\ \A k \in 1 .. n : kinds[1][l + k] = Takes(Head(work))[k]
    /\ \A k \in 1 .. l : kinds[1][k] = after[1][k]
    /\ IF Kind(Head(work)) = "none" THEN Len(after[1]) = l
       ELSE Len(after[1]) = l + 1 /\ after[1][l + 1] = Kind(Head(work))

\* The kinds on the stack make it so.
LEMMA PoppedKinds ==
  ASSUME work \in Seq(Item), work # <<>>, NEW kinds, Stacks(work, kinds),
         Len(vals) = Len(kinds[1]), NEW n \in Nat, n = Len(Takes(Head(work)))
  PROVE  Pops(kinds, n)
<1>1. PICK taken \in Seq(Kinds) : taken = Takes(Head(work)) /\ Len(taken) = n
  BY KindsAreKinds
<1>2. PICK base, after :
        /\ base \in Seq(Kinds)
        /\ kinds[1] = base \o taken
        /\ Stacks(Tail(work), after)
        /\ after[1] = IF Kind(Head(work)) = "none" THEN base
                      ELSE Append(base, Kind(Head(work)))
  BY <1>1, Popping
<1>3. PICK l \in Nat : l = Len(base)
  BY <1>2
<1>4. /\ Len(kinds[1]) = l + n
      /\ \A k \in 1 .. l : kinds[1][k] = base[k]
      /\ \A k \in 1 .. n : kinds[1][l + k] = taken[k]
  BY <1>1, <1>2, <1>3
<1>5. CASE Kind(Head(work)) = "none"
  <2>1. after[1] = base /\ Len(vals) = l + n
    BY <1>2, <1>4, <1>5
  <2> QED
    BY <2>1, <1>1, <1>2, <1>3, <1>4, <1>5 DEF Pops
<1>6. CASE Kind(Head(work)) # "none"
  <2>1. PICK kind \in Kinds : kind = Kind(Head(work))
    BY <1>6, KindsAreKinds
  <2>2. PICK more : more = Append(base, kind)
    OBVIOUS
  <2>3. /\ Len(more) = l + 1 /\ more[l + 1] = kind
        /\ \A k \in 1 .. l : more[k] = base[k]
    BY <2>2, <1>2, <1>3
  <2>4. after[1] = more
    BY <2>1, <2>2, <1>2, <1>6
  <2> QED
    BY <2>1, <2>3, <2>4, <1>1, <1>2, <1>4, <1>6 DEF Pops
<1> QED
  BY <1>5, <1>6

\* Of the values, a reduction leaves those below the last n, and its own.
Replaces(n, attr) ==
  \E l \in Nat :
    /\ l + n = Len(vals) /\ Len(vals') = l + 1 /\ vals'[l + 1] = attr
    /\ \A k \in 1 .. l : vals'[k] = vals[k]
    /\ \A k \in 1 .. n : Value(n, k) = vals[l + k]

\* So bison's stack is after a reduction.
LEMMA ReturnIs ==
  ASSUME NEW A, vals \in Seq(A), NEW n \in Nat, n <= Len(vals), NEW attr, Return(n, attr)
  PROVE  Replaces(n, attr)
<1>1. PICK l \in Nat : l = Len(vals) - n /\ l + n = Len(vals)
  <2>1. Len(vals) \in Nat
    OBVIOUS
  <2>2. Len(vals) - n \in Nat /\ (Len(vals) - n) + n = Len(vals)
    BY <2>1
  <2> QED
    BY <2>2
<1>2. PICK below : below = SubSeq(vals, 1, l)
  OBVIOUS
<1>3. below \in Seq(A) /\ Len(below) = l /\ \A k \in 1 .. l : below[k] = vals[k]
  BY <1>1, <1>2
<1>4. vals' = Append(below, attr)
  BY <1>1, <1>2 DEF Return, Below
<1>5. /\ Len(vals') = l + 1 /\ vals'[l + 1] = attr
      /\ \A k \in 1 .. l : vals'[k] = below[k]
  BY <1>3, <1>4
<1>6. \A k \in 1 .. n : Value(n, k) = vals[l + k]
  BY <1>1 DEF Value
<1> QED
  BY <1>1, <1>3, <1>5, <1>6 DEF Replaces

\* What the quadruples read is what they read.
LEMMA SameAsks ==
  ASSUME SameOperands(heap, heap'), NEW m \in 1 .. NextQuad(heap)
  PROVE  /\ Asks(heap'.quad[m]) = Asks(heap.quad[m])
         /\ heap'.quad[m].op = heap.quad[m].op
         /\ heap.quad[m].op \in ArithmeticOps => heap'.quad[m].res = heap.quad[m].res
<1>1. /\ heap'.quad[m].op = heap.quad[m].op
      /\ heap'.quad[m].op1 = heap.quad[m].op1 /\ heap'.quad[m].op2 = heap.quad[m].op2
      /\ heap.quad[m].op \notin BranchOps => heap'.quad[m].res = heap.quad[m].res
  BY DEF SameOperands
<1>2. /\ \A op : op \in ArithmeticOps => op \notin BranchOps
      /\ \A op : op \in PrintOps => op \notin BranchOps
  BY DEF ArithmeticOps, BranchOps, PrintOps
<1> QED
  BY <1>1, <1>2 DEF Asks

\* A reduction that makes its value of those it replaces, with all that is known
\* of the operands before.
Renewed(n, attr) ==
  /\ Apart(heap, vals, quad_list, connectives, dangling) /\ OperandsParsed
  /\ Reduce(Head(work)) /\ n = Len(Takes(Head(work))) /\ Return(n, attr)
  /\ MadeOf(n, attr) /\ OthersKept(n) /\ extents' = extents

\* Where the nodes are.
LEMMA CurrentGrows ==
  ASSUME IInv, IInv', ExtentsKept, extents' = extents, NextQuad(heap) <= NextQuad(heap')
  PROVE  /\ Current' = Current \cup Fresh(heap') /\ ExtentsKept'
         /\ Current \subseteq 1 .. NextQuad(heap)
         /\ Current \cap Fresh(heap') = {}
<1>1. NextQuad(heap) \in Nat /\ NextQuad(heap') \in Nat
  BY ProgramIs DEF IInv, WellMade, IsHeap, NextQuad
<1>2. PICK e, old, new : /\ e = extents[Len(extents)] /\ old = NextQuad(heap)
                         /\ new = NextQuad(heap')
  OBVIOUS
<1>3. e \in Nat /\ e <= old
  <2>1. Len(extents) \in 1 .. Len(extents)
    BY DEF ExtentsKept
  <2> QED
    BY <2>1, <1>2 DEF ExtentsKept
<1>4. e + 1 .. new = (e + 1 .. old) \cup (old + 1 .. new)
  BY <1>1, <1>2, <1>3
<1>5. /\ (e + 1 .. old) \subseteq 1 .. old
      /\ (e + 1 .. old) \cap (old + 1 .. new) = {}
  BY <1>1, <1>2, <1>3
<1>6. /\ Current = e + 1 .. old /\ Fresh(heap') = old + 1 .. new
      /\ Current' = e + 1 .. new
  BY <1>2 DEF Current, Fresh
<1>7. ExtentsKept'
  BY <1>1, <1>2, <1>3 DEF ExtentsKept
<1> QED
  BY <1>2, <1>4, <1>5, <1>6, <1>7

\* What the new quadruples read is sought as well.
LEMMA SoughtMore ==
  ASSUME IInv, IInv', ExtentsKept, extents' = extents, NextQuad(heap) <= NextQuad(heap'),
         SameOperands(heap, heap')
  PROVE  \A x : Sought(heap', Current', x) <=>
                  Sought(heap, Current, x) \/ Asked(heap', x)
<1>1. /\ Current' = Current \cup Fresh(heap')
      /\ Current \subseteq 1 .. NextQuad(heap)
  BY CurrentGrows
<1>2. \A m \in Current : Asks(heap'.quad[m]) = Asks(heap.quad[m])
  BY <1>1, SameAsks
<1> QED
  BY <1>1, <1>2 DEF Sought, Asked

\* What the values that give way are.
LEMMA TopShapes ==
  ASSUME IInv, NEW n \in Nat, NEW attr, Renewed(n, attr)
  PROVE  \A k \in 1 .. n :
           IF IsExpression(k) THEN OperandShape(heap, Current, Value(n, k))
                              ELSE CodeShape(heap, Current, Value(n, k))
<1>1. PICK kinds : /\ Stacks(work, kinds) /\ Len(vals) = Len(kinds[1])
                   /\ \A k \in 1 .. Len(vals) :
                        ShapeOf(heap, Current, vals[k], kinds[1][k])
  BY DEF Renewed, OperandsParsed, Shaped
<1>2. work \in Seq(Item) /\ work # <<>> /\ n = Len(Takes(Head(work)))
  BY DEF Renewed, Reduce, Parsing, IInv
<1>3. PICK l \in Nat : /\ l + n = Len(vals)
                       /\ \A k \in 1 .. n : kinds[1][l + k] = Takes(Head(work))[k]
  <2>1. Pops(kinds, n)
    BY <1>1, <1>2, PoppedKinds
  <2> QED
    BY <2>1 DEF Pops
<1>4. ASSUME NEW k \in 1 .. n
      PROVE  ShapeOf(heap, Current, Value(n, k), Takes(Head(work))[k])
  <2>1. l + k \in 1 .. Len(vals) /\ Value(n, k) = vals[l + k]
    <3>1. Len(vals) - n = l
      BY <1>3
    <3> QED
      BY <3>1, <1>3 DEF Value
  <2> QED
    BY <2>1, <1>1, <1>3
<1> QED
  BY <1>4 DEF ShapeOf, IsExpression

\* A temporary that a new quadruple reads is the result of one that a value
\* consists of, and that value is in the code.
LEMMA TempAsked ==
  ASSUME IInv, NEW n \in Nat, NEW attr, Renewed(n, attr),
         NEW x, Asked(heap', x), x[1] = "tmp"
  PROVE  \E k \in 1 .. n : \E m \in Current :
           /\ IsExpression(k) /\ NodesOf(heap, Value(n, k).code) = {m}
           /\ m \in NodesOf(heap', attr.code)
           /\ heap.quad[m].op \in ArithmeticOps /\ heap.quad[m].res = x
<1>1. Gathers(n, attr)
  BY DEF Renewed, MadeOf
<1>2. PICK k \in 1 .. n :
        /\ IsExpression(k) /\ x = Value(n, k).symbol
        /\ NodesOf(heap, Value(n, k).code) \subseteq NodesOf(heap', attr.code)
  BY <1>1 DEF Gathers
<1>3. OperandShape(heap, Current, Value(n, k))
  BY <1>2, TopShapes
<1>4. PICK m \in Current : /\ NodesOf(heap, Value(n, k).code) = {m}
                           /\ heap.quad[m].op \in ArithmeticOps
                           /\ heap.quad[m].res = Value(n, k).symbol
  BY <1>2, <1>3 DEF OperandShape
<1> QED
  BY <1>2, <1>4

\* Where the values are that a reduction leaves.
LEMMA RenewedIs ==
  ASSUME IInv, NEW n \in Nat, NEW attr, Renewed(n, attr)
  PROVE  Replaces(n, attr)
<1>1. vals \in Seq(Attribute(Symbols, NextQuad(heap)))
  BY DEF IInv
<1>2. Reduce(Head(work)) /\ n = Len(Takes(Head(work))) /\ Return(n, attr)
  BY DEF Renewed
<1>3. n <= Len(vals)
  BY <1>2, ValuesAre
<1> QED
  BY <1>1, <1>2, <1>3, ReturnIs

\* What is known of the nodes: they are there, and those that compute operands
\* do so as before.
LEMMA RenewedNodes ==
  ASSUME IInv, IInv', NEW n \in Nat, NEW attr, Renewed(n, attr)
  PROVE  /\ Current' = Current \cup Fresh(heap') /\ ExtentsKept'
         /\ Current \subseteq 1 .. NextQuad(heap)
         /\ Current \cap Fresh(heap') = {}
         /\ \A m \in 1 .. NextQuad(heap) :
              /\ Asks(heap'.quad[m]) = Asks(heap.quad[m])
              /\ heap'.quad[m].op = heap.quad[m].op
              /\ heap.quad[m].op \in ArithmeticOps =>
                   heap'.quad[m].res = heap.quad[m].res
         /\ \A x : Sought(heap', Current', x) <=>
                     Sought(heap, Current, x) \/ Asked(heap', x)
         /\ \A m, i \in 1 .. NextQuad(heap) :
              heap.quad[m].op \in ArithmeticOps /\ heap.quad[i].op \in ArithmeticOps =>
                /\ heap.quad[m].res[1] = "tmp"
                /\ heap.quad[m].res = heap.quad[i].res => m = i
<1>1. /\ ExtentsKept /\ extents' = extents /\ NextQuad(heap) <= NextQuad(heap')
      /\ SameOperands(heap, heap') /\ OwnTemporaries
  BY DEF Renewed, OperandsParsed, OthersKept, MadeOf
<1>2. /\ Current' = Current \cup Fresh(heap') /\ ExtentsKept'
      /\ Current \subseteq 1 .. NextQuad(heap)
      /\ Current \cap Fresh(heap') = {}
  BY <1>1, CurrentGrows
<1>3. \A x : Sought(heap', Current', x) <=>
               Sought(heap, Current, x) \/ Asked(heap', x)
  BY <1>1, SoughtMore
<1>4. \A m \in 1 .. NextQuad(heap) :
        /\ Asks(heap'.quad[m]) = Asks(heap.quad[m])
        /\ heap'.quad[m].op = heap.quad[m].op
        /\ heap.quad[m].op \in ArithmeticOps => heap'.quad[m].res = heap.quad[m].res
  BY <1>1, SameAsks
<1> QED
  BY <1>1, <1>2, <1>3, <1>4 DEF OwnTemporaries

\* What is needed is needed.
LEMMA NeededStays ==
  ASSUME IInv, IInv', NEW n \in Nat, NEW attr, Renewed(n, attr),
         NEW m \in Current, Needed(heap, Current, m)
  PROVE  m \in Current' /\ Needed(heap', Current', m)
  BY RenewedNodes DEF Needed

\* The values that a reduction leaves alone are what they were.
LEMMA OldShapes ==
  ASSUME IInv, IInv', NEW n \in Nat, NEW attr, Renewed(n, attr),
         NEW l \in Nat, l + n = Len(vals), NEW k \in 1 .. l, NEW kind,
         ShapeOf(heap, Current, vals[k], kind)
  PROVE  ShapeOf(heap', Current', vals[k], kind)
<1>1. PICK v : v = vals[k]
  OBVIOUS
<1>2. NodesOf(heap', v.code) = NodesOf(heap, v.code)
  <2>1. k \in 1 .. Len(vals) - n
    BY ListsAre
  <2> QED
    BY <2>1, <1>1 DEF Renewed, OthersKept
<1>3. \A j \in 1 .. n : NodesOf(heap, Value(n, j).code) \cap NodesOf(heap, v.code) = {}
  <2>1. SUFFICES ASSUME NEW j \in 1 .. n
                 PROVE  NodesOf(heap, Value(n, j).code) \cap NodesOf(heap, v.code) = {}
    OBVIOUS
  <2>2. Len(vals) - n = l /\ l + j \in 1 .. Len(vals) /\ k \in 1 .. Len(vals) /\ l + j # k
    OBVIOUS
  <2>3. Value(n, j) = vals[l + j]
    BY <2>2 DEF Value
  <2> QED
    BY <2>2, <2>3, <1>1 DEF Renewed, Apart
<1>4. CASE kind = "expr"
  <2>1. OperandShape(heap, Current, v)
    BY <1>1, <1>4 DEF ShapeOf
  <2>2. CASE v.code = NULL /\ v.symbol[1] # "tmp"
    BY <2>2, <1>1, <1>4 DEF ShapeOf, OperandShape
  <2>3. CASE ~ (v.code = NULL /\ v.symbol[1] # "tmp")
    <3>1. PICK m \in Current : /\ NodesOf(heap, v.code) = {m}
                               /\ heap.quad[m].op \in ArithmeticOps
                               /\ heap.quad[m].res = v.symbol
                               /\ ~ Sought(heap, Current, v.symbol)
      BY <2>1, <2>3 DEF OperandShape
    <3>2. /\ m \in Current' /\ m \in 1 .. NextQuad(heap) /\ v.symbol[1] = "tmp"
          /\ heap'.quad[m].op = heap.quad[m].op /\ heap'.quad[m].res = heap.quad[m].res
      BY <3>1, RenewedNodes
    <3>3. ~ Asked(heap', v.symbol)
      <4>1. SUFFICES ASSUME Asked(heap', v.symbol) PROVE FALSE
        OBVIOUS
      <4>2. PICK j \in 1 .. n : \E i \in Current :
              /\ NodesOf(heap, Value(n, j).code) = {i}
              /\ heap.quad[i].op \in ArithmeticOps /\ heap.quad[i].res = v.symbol
        <5>1. PICK x : x = v.symbol /\ x[1] = "tmp" /\ Asked(heap', x)
          BY <4>1, <3>2
        <5>2. \E j \in 1 .. n : \E i \in Current :
                /\ IsExpression(j) /\ NodesOf(heap, Value(n, j).code) = {i}
                /\ i \in NodesOf(heap', attr.code)
                /\ heap.quad[i].op \in ArithmeticOps /\ heap.quad[i].res = x
          BY <5>1, TempAsked
        <5> QED
          BY <5>1, <5>2
      <4>3. PICK i \in Current :
              /\ NodesOf(heap, Value(n, j).code) = {i}
              /\ heap.quad[i].op \in ArithmeticOps /\ heap.quad[i].res = v.symbol
        BY <4>2
      <4>4. i = m
        <5>1. i \in 1 .. NextQuad(heap)
          BY RenewedNodes
        <5> QED
          BY <5>1, <4>3, <3>1, <3>2, RenewedNodes
      <4> QED
        BY <4>3, <4>4, <3>1, <1>3
    <3>4. ~ Sought(heap', Current', v.symbol)
      BY <3>1, <3>3, RenewedNodes
    <3>5. OperandShape(heap', Current', v)
      BY <3>1, <3>2, <3>4, <1>2 DEF OperandShape
    <3> QED
      BY <3>5, <1>1, <1>4 DEF ShapeOf
  <2> QED
    BY <2>2, <2>3
<1>5. CASE kind # "expr"
  <2>1. CodeShape(heap, Current, v)
    BY <1>1, <1>5 DEF ShapeOf
  <2>2. CodeShape(heap', Current', v)
    BY <2>1, <1>2, NeededStays DEF CodeShape
  <2> QED
    BY <2>2, <1>1, <1>5 DEF ShapeOf
<1> QED
  BY <1>4, <1>5

\* A reduction that leaves an operand: its code is one new quadruple that
\* computes it, or it is a variable or a constant.
MakesOperand(attr) ==
  \/ Fresh(heap') = {} /\ attr.code = NULL /\ attr.symbol[1] # "tmp"
  \/ \E m : /\ Fresh(heap') = {m} /\ NodesOf(heap', attr.code) = {m}
            /\ heap'.quad[m].op \in ArithmeticOps /\ heap'.quad[m].res = attr.symbol
            /\ attr.symbol[1] = "tmp" /\ attr.symbol \notin Symbols

\* A new symbol is read by no quadruple, and is the result of none.
LEMMA NewSymbol ==
  ASSUME IInv, NEW x, x[1] = "tmp", x \notin Symbols, NEW m \in 1 .. NextQuad(heap)
  PROVE  x \notin Asks(heap.quad[m]) /\ heap.quad[m].res # x
<1>1. heap.quad[m] \in QuadOf(Symbols, LabelsUpTo(symbol_table, NextQuad(heap)))
  BY DEF IInv, WellMade, IsHeap, NextQuad, Symbols
<1>2. /\ heap.quad[m].res \in OrNone(Symbols) /\ heap.quad[m].op1 \in OrNone(Symbols)
      /\ heap.quad[m].op2 \in OrNone(Symbols)
  BY <1>1 DEF QuadOf
<1>3. x \notin OrNone(Symbols)
  BY DEF OrNone, NoSymbol
<1> QED
  BY <1>2, <1>3 DEF Asks

\* The value that a reduction leaves is what its kind should be.
LEMMA NewShape ==
  ASSUME IInv, IInv', NEW n \in Nat, NEW attr, Renewed(n, attr),
         Kind(Head(work)) = "expr" => MakesOperand(attr)
  PROVE  ShapeOf(heap', Current', attr, Kind(Head(work)))
<1>1. CASE Kind(Head(work)) = "expr"
  <2>1. SUFFICES ASSUME ~ (attr.code = NULL /\ attr.symbol[1] # "tmp")
                 PROVE  OperandShape(heap', Current', attr)
    BY <1>1 DEF ShapeOf, OperandShape
  <2>2. PICK m : /\ Fresh(heap') = {m} /\ NodesOf(heap', attr.code) = {m}
                 /\ heap'.quad[m].op \in ArithmeticOps
                 /\ heap'.quad[m].res = attr.symbol
                 /\ attr.symbol[1] = "tmp" /\ attr.symbol \notin Symbols
    BY <2>1, <1>1 DEF MakesOperand
  <2>3. ~ Asked(heap', attr.symbol)
    BY <2>2 DEF Asked, Asks
  <2>4. ~ Sought(heap, Current, attr.symbol)
    BY <2>2, RenewedNodes, NewSymbol DEF Sought
  <2>5. m \in Current' /\ ~ Sought(heap', Current', attr.symbol)
    BY <2>2, <2>3, <2>4, RenewedNodes
  <2> QED
    BY <2>2, <2>5 DEF OperandShape
<1>2. CASE Kind(Head(work)) # "expr"
  <2>1. SUFFICES ASSUME NEW m \in NodesOf(heap', attr.code)
                 PROVE  m \in Current' /\ Needed(heap', Current', m)
    BY <1>2 DEF ShapeOf, CodeShape
  <2>2. Gathers(n, attr)
    BY DEF Renewed, MadeOf
  <2>3. m \in TopNodes(n) \/ m \in Fresh(heap')
    BY DEF Renewed, MadeOf, Fresh
  <2>4. CASE m \in Fresh(heap')
    <3>1. heap'.quad[m].op \notin ArithmeticOps
      BY <2>2, <2>4, <1>2 DEF Gathers
    <3> QED
      BY <3>1, <2>4, RenewedNodes DEF Needed
  <2>5. CASE m \in TopNodes(n)
    <3>1. PICK k \in 1 .. n : m \in NodesOf(heap, Value(n, k).code)
      BY <2>5, TopIs DEF Renewed
    <3>2. IsExpression(k) => Asked(heap', Value(n, k).symbol)
      BY <2>1, <2>2, <3>1 DEF Gathers
    <3>3. CASE IsExpression(k)
      <4>1. OperandShape(heap, Current, Value(n, k))
        BY <3>3, TopShapes
      <4>2. NodesOf(heap, NULL) = {}
        BY ListsAre, NoList
      <4>3. /\ m \in Current /\ heap.quad[m].op \in ArithmeticOps
            /\ heap.quad[m].res = Value(n, k).symbol
        BY <3>1, <4>1, <4>2 DEF OperandShape
      <4>4. /\ m \in Current' /\ heap'.quad[m].res = Value(n, k).symbol
            /\ Sought(heap', Current', Value(n, k).symbol)
        BY <3>2, <3>3, <4>3, RenewedNodes
      <4> QED
        BY <4>4 DEF Needed
    <3>4. CASE ~ IsExpression(k)
      <4>1. CodeShape(heap, Current, Value(n, k))
        BY <3>4, TopShapes
      <4> QED
        BY <3>1, <4>1, NeededStays DEF CodeShape
    <3> QED
      BY <3>3, <3>4
  <2> QED
    BY <2>3, <2>4, <2>5
<1> QED
  BY <1>1, <1>2

\* Nothing that stays is lost: it was in the code of a value the reduction
\* leaves alone, or it is in that of its own.
LEMMA NothingLost ==
  ASSUME IInv, IInv', NEW n \in Nat, NEW attr, Renewed(n, attr)
  PROVE  NothingMissing'
<1>1. PICK l \in Nat :
        /\ l + n = Len(vals) /\ Len(vals') = l + 1 /\ vals'[l + 1] = attr
        /\ \A k \in 1 .. l : vals'[k] = vals[k]
        /\ \A k \in 1 .. n : Value(n, k) = vals[l + k]
  <2>1. Replaces(n, attr)
    BY RenewedIs
  <2> QED
    BY <2>1 DEF Replaces
<1>2. Gathers(n, attr) /\ NothingMissing
  BY DEF Renewed, MadeOf, OperandsParsed
<1>3. SUFFICES ASSUME NEW m \in Current', Needed(heap', Current', m)
               PROVE  \E k \in 1 .. l + 1 : m \in NodesOf(heap', vals'[k].code)
  BY <1>1 DEF NothingMissing
<1>4. ASSUME m \in NodesOf(heap', attr.code)
      PROVE  \E k \in 1 .. l + 1 : m \in NodesOf(heap', vals'[k].code)
  <2>1. l + 1 \in 1 .. l + 1
    OBVIOUS
  <2> QED
    BY <2>1, <1>1, <1>4
<1>5. CASE m \in Fresh(heap')
  BY <1>2, <1>4, <1>5 DEF Gathers
<1>6. CASE m \notin Fresh(heap')
  <2>1. /\ m \in Current /\ m \in 1 .. NextQuad(heap)
        /\ heap'.quad[m].op = heap.quad[m].op
        /\ heap.quad[m].op \in ArithmeticOps => heap'.quad[m].res = heap.quad[m].res
    BY <1>3, <1>6, RenewedNodes
  <2>2. CASE ~ Needed(heap, Current, m)
    <3>1. heap.quad[m].op \in ArithmeticOps /\ ~ Sought(heap, Current, heap.quad[m].res)
      BY <2>2 DEF Needed
    <3>2. PICK x : x = heap.quad[m].res
      OBVIOUS
    <3>3. Asked(heap', x) /\ x[1] = "tmp"
      <4>1. Sought(heap', Current', x)
        BY <2>1, <3>1, <3>2, <1>3 DEF Needed
      <4> QED
        BY <2>1, <3>1, <3>2, <4>1, RenewedNodes
    <3>4. \E k \in 1 .. n : \E i \in Current :
            /\ IsExpression(k) /\ NodesOf(heap, Value(n, k).code) = {i}
            /\ i \in NodesOf(heap', attr.code)
            /\ heap.quad[i].op \in ArithmeticOps /\ heap.quad[i].res = x
      BY <3>3, TempAsked
    <3>5. PICK i \in Current :
            /\ i \in NodesOf(heap', attr.code)
            /\ heap.quad[i].op \in ArithmeticOps /\ heap.quad[i].res = x
      BY <3>4
    <3>6. i \in 1 .. NextQuad(heap)
      BY RenewedNodes
    <3>7. i = m
      BY <2>1, <3>1, <3>2, <3>5, <3>6, RenewedNodes
    <3> QED
      BY <3>5, <3>7, <1>4
  <2>3. CASE Needed(heap, Current, m)
    <3>1. PICK k \in 1 .. Len(vals) : m \in NodesOf(heap, vals[k].code)
      BY <2>1, <2>3, <1>2 DEF NothingMissing
    <3>2. CASE k \in 1 .. l
      <4>1. k \in 1 .. Len(vals) - n /\ k \in 1 .. l + 1
        BY <3>2, <1>1
      <4>2. NodesOf(heap', vals[k].code) = NodesOf(heap, vals[k].code)
        BY <4>1 DEF Renewed, OthersKept
      <4> QED
        BY <4>1, <4>2, <3>1, <3>2, <1>1
    <3>3. CASE k \notin 1 .. l
      <4>1. PICK j \in 1 .. n : vals[k] = Value(n, j)
        <5>1. k - l \in 1 .. n /\ l + (k - l) = k
          BY <3>3, <1>1
        <5> QED
          BY <5>1, <1>1
      <4>2. m \in NodesOf(heap, Value(n, j).code)
        BY <4>1, <3>1
      <4>3. CASE NodesOf(heap, Value(n, j).code) \subseteq NodesOf(heap', attr.code)
        BY <4>2, <4>3, <1>4
      <4>4. CASE ~ NodesOf(heap, Value(n, j).code) \subseteq NodesOf(heap', attr.code)
        <5>1. IsExpression(j)
          BY <4>2, <4>4, <1>2 DEF Gathers
        <5>2. OperandShape(heap, Current, Value(n, j))
          BY <5>1, TopShapes
        <5>3. NodesOf(heap, NULL) = {}
          BY ListsAre, NoList
        <5>4. ~ Needed(heap, Current, m)
          BY <5>2, <5>3, <4>2 DEF OperandShape, Needed
        <5> QED
          BY <5>4, <2>3
      <4> QED
        BY <4>3, <4>4
    <3> QED
      BY <3>2, <3>3
  <2> QED
    BY <2>2, <2>3
<1> QED
  BY <1>5, <1>6

\* A new operand has a new temporary.
LEMMA NewTemporary ==
  ASSUME IInv, IInv', NEW n \in Nat, NEW attr, Renewed(n, attr),
         Kind(Head(work)) = "expr" => MakesOperand(attr)
  PROVE  OwnTemporaries'
<1>1. PICK top, topNew : top = NextQuad(heap) /\ topNew = NextQuad(heap')
  OBVIOUS
<1>2. top \in Nat /\ topNew \in Nat /\ top <= topNew
  BY <1>1, ProgramIs DEF IInv, WellMade, IsHeap, NextQuad, Renewed, OthersKept
<1>3. \A m \in 1 .. topNew : m \in 1 .. top \/ m \in Fresh(heap')
  BY <1>1, <1>2 DEF Fresh
<1>4. Gathers(n, attr)
  BY DEF Renewed, MadeOf
<1>5. \A m \in 1 .. top :
        heap'.quad[m].op \in ArithmeticOps =>
          /\ heap.quad[m].op \in ArithmeticOps
          /\ heap'.quad[m].res = heap.quad[m].res /\ heap.quad[m].res[1] = "tmp"
  BY <1>1, RenewedNodes
<1>6. ASSUME NEW m \in Fresh(heap'), heap'.quad[m].op \in ArithmeticOps
      PROVE  /\ Fresh(heap') = {m} /\ heap'.quad[m].res[1] = "tmp"
             /\ \A i \in 1 .. top : heap.quad[i].res # heap'.quad[m].res
  <2>1. MakesOperand(attr)
    BY <1>4, <1>6 DEF Gathers
  <2>2. PICK i : /\ Fresh(heap') = {i} /\ heap'.quad[i].res = attr.symbol
                 /\ attr.symbol[1] = "tmp" /\ attr.symbol \notin Symbols
    BY <2>1, <1>6 DEF MakesOperand
  <2>3. i = m
    BY <2>2, <1>6
  <2>4. PICK x : x = attr.symbol /\ x[1] = "tmp" /\ x \notin Symbols
    BY <2>2
  <2>5. \A j \in 1 .. top : heap.quad[j].res # x
    BY <2>4, <1>1, NewSymbol
  <2> QED
    BY <2>2, <2>3, <2>4, <2>5
<1>7. SUFFICES ASSUME NEW m \in 1 .. topNew, NEW i \in 1 .. topNew,
                      heap'.quad[m].op \in ArithmeticOps,
                      heap'.quad[i].op \in ArithmeticOps
               PROVE  /\ heap'.quad[m].res[1] = "tmp"
                      /\ heap'.quad[m].res = heap'.quad[i].res => m = i
  BY <1>1 DEF OwnTemporaries
<1>8. CASE m \in 1 .. top /\ i \in 1 .. top
  BY <1>1, <1>5, <1>7, <1>8, RenewedNodes
<1>9. CASE m \in Fresh(heap') /\ i \in Fresh(heap')
  BY <1>6, <1>7, <1>9
<1>10. CASE m \in 1 .. top /\ i \in Fresh(heap')
  BY <1>5, <1>6, <1>7, <1>10
<1>11. CASE m \in Fresh(heap') /\ i \in 1 .. top
  BY <1>5, <1>6, <1>7, <1>11
<1> QED
  BY <1>3, <1>8, <1>9, <1>10, <1>11

\* The program is left alone.
LEMMA ProgramStays ==
  ASSUME IInv, IInv', NEW n \in Nat, NEW attr, Renewed(n, attr)
  PROVE  ProgramWhole'
<1>1. /\ extents' = extents /\ quad_list' = quad_list
      /\ NodesOf(heap', quad_list) = NodesOf(heap, quad_list)
      /\ ProgramWhole /\ ExtentsKept
  BY DEF Renewed, OthersKept, OperandsParsed
<1>2. SUFFICES ASSUME Len(extents) > 1
               PROVE  /\ NodesOf(heap, quad_list) \subseteq LastFunction
                      /\ \A m \in LastFunction : m \in NodesOf(heap, quad_list) <=>
                           Needed(heap', LastFunction, m)
  <2>1. LastFunction' = LastFunction
    BY <1>1 DEF LastFunction
  <2> QED
    BY <2>1, <1>1 DEF ProgramWhole
<1>3. LastFunction \subseteq 1 .. NextQuad(heap)
  <2>1. PICK e, l : e = extents /\ l = Len(extents)
    OBVIOUS
  <2>2. /\ e \in Seq(Nat) /\ l \in Nat /\ l > 1 /\ e[l] <= NextQuad(heap)
        /\ l - 1 \in 1 .. l /\ l \in 1 .. l /\ l = Len(e)
    BY <2>1, <1>1, <1>2 DEF ExtentsKept
  <2>3. e[l] \in Nat /\ e[l - 1] \in Nat /\ NextQuad(heap) \in Nat
    BY <2>2, ProgramIs
  <2>4. (e[l - 1] + 1 .. e[l]) \subseteq 1 .. NextQuad(heap)
    BY <2>2, <2>3
  <2> QED
    BY <2>1, <2>4 DEF LastFunction
<1>4. \A x : Sought(heap', LastFunction, x) <=> Sought(heap, LastFunction, x)
  BY <1>3, RenewedNodes DEF Sought
<1>5. \A m \in LastFunction :
        Needed(heap', LastFunction, m) <=> Needed(heap, LastFunction, m)
  BY <1>3, <1>4, RenewedNodes DEF Needed
<1> QED
  BY <1>1, <1>2, <1>5 DEF ProgramWhole

\* All that is known of the operands stays so.
LEMMA RenewedOperands ==
  ASSUME IInv, IInv', NEW n \in Nat, NEW attr, Renewed(n, attr),
         Kind(Head(work)) # "none", Kind(Head(work)) = "expr" => MakesOperand(attr)
  PROVE  OperandsParsed'
<1>1. PICK kinds : /\ Stacks(work, kinds) /\ Len(vals) = Len(kinds[1])
                   /\ \A k \in 1 .. Len(vals) :
                        ShapeOf(heap, Current, vals[k], kinds[1][k])
  BY DEF Renewed, OperandsParsed, Shaped
<1>2. /\ work \in Seq(Item) /\ work # <<>> /\ n = Len(Takes(Head(work)))
      /\ work' = Tail(work)
  BY DEF Renewed, Reduce, Parsing, IInv
<1>3. PICK l \in Nat :
        /\ l + n = Len(vals) /\ Len(vals') = l + 1 /\ vals'[l + 1] = attr
        /\ \A k \in 1 .. l : vals'[k] = vals[k]
        /\ \A k \in 1 .. n : Value(n, k) = vals[l + k]
  <2>1. Replaces(n, attr)
    BY RenewedIs
  <2> QED
    BY <2>1 DEF Replaces
<1>4. PICK after :
        /\ Stacks(work', after) /\ \A k \in 1 .. l : kinds[1][k] = after[1][k]
        /\ Len(after[1]) = l + 1 /\ after[1][l + 1] = Kind(Head(work))
  <2>1. Pops(kinds, n)
    BY <1>1, <1>2, PoppedKinds
  <2>2. PICK j \in Nat : \E after :
          /\ j + n = Len(vals)
          /\ Stacks(work', after) /\ \A k \in 1 .. j : kinds[1][k] = after[1][k]
          /\ Len(after[1]) = j + 1 /\ after[1][j + 1] = Kind(Head(work))
    BY <2>1, <1>2 DEF Pops
  <2>3. j = l
    BY <2>2, <1>3
  <2> QED
    BY <2>2, <2>3
<1>5. \A k \in 1 .. l + 1 : ShapeOf(heap', Current', vals'[k], after[1][k])
  <2>1. ASSUME NEW k \in 1 .. l
        PROVE  ShapeOf(heap', Current', vals'[k], after[1][k])
    <3>1. ShapeOf(heap, Current, vals[k], after[1][k])
      <4>1. k \in 1 .. Len(vals)
        BY <1>3
      <4> QED
        BY <4>1, <1>1, <1>4
    <3>2. PICK kind : kind = after[1][k]
      OBVIOUS
    <3>3. ShapeOf(heap', Current', vals[k], kind)
      BY <3>1, <3>2, <1>3, OldShapes
    <3> QED
      BY <3>2, <3>3, <1>3
  <2>2. ShapeOf(heap', Current', vals'[l + 1], after[1][l + 1])
    BY <1>3, <1>4, NewShape
  <2> QED
    BY <2>1, <2>2
<1>6. Shaped'
  BY <1>3, <1>4, <1>5 DEF Shaped
<1>7. Ending(work') /\ (Len(extents') = 1 => Unfinished(work'))
  <2>1. Ending(work) /\ (Len(extents) = 1 => Unfinished(work)) /\ extents' = extents
    BY DEF Renewed, OperandsParsed
  <2> QED
    BY <2>1, <1>2, EndingReduced
<1>8. ExtentsKept'
  BY RenewedNodes
<1> QED
  BY <1>6, <1>7, <1>8, NothingLost, NewTemporary, ProgramStays DEF OperandsParsed

\* Apart from the values: a reduction ends no function.
Reduced ==
  \E f : /\ Reduce(f) /\ f \notin DOMAIN Grammar /\ Kind(f) # "none"
         /\ extents' = extents /\ status' \in {status, "aborted"}
         /\ Kind(f) = "expr" /\ status' = "parsing" =>
              DeclareConstant \/ Lookup \/ UnaryArithmeticOp \/ BinaryArithmeticOp

\* One that leaves no expression is only a reduction.
LEMMA OtherReduces ==
  ASSUME NEW f, Reduce(f), f \notin DOMAIN Grammar, Kind(f) \notin {"none", "expr"},
         extents' = extents, status' \in {status, "aborted"}
  PROVE  Reduced
  BY DEF Reduced

\* The functions of expressions.
LEMMA ExpressionReduces ==
  ASSUME DeclareConstant \/ Lookup \/ UnaryArithmeticOp \/ BinaryArithmeticOp
  PROVE  Reduced
<1>1. \A f \in {"CONSTANT", "LOOKUP", "UNARY", "BINARY"} :
        f \notin DOMAIN Grammar /\ Kind(f) = "expr"
  BY KindsOf DEF Grammar
<1>2. \E f \in {"CONSTANT", "LOOKUP", "UNARY", "BINARY"} : Reduce(f)
  BY DEF DeclareConstant, Lookup, UnaryArithmeticOp, BinaryArithmeticOp
<1>3. extents' = extents /\ status' \in {status, "aborted"}
  BY DEF DeclareConstant, Lookup, UnaryArithmeticOp, BinaryArithmeticOp, Compute,
         Abort, meaning
<1> QED
  BY <1>1, <1>2, <1>3 DEF Reduced

\* Those of statements, and the tags.
LEMMA StatementReduces ==
  ASSUME \/ Assignation \/ Declare \/ DeclareAndAssign \/ DeclareMatrix
         \/ CallFunctionWithExpr \/ ControlReturn \/ EmptyStatements \/ Sequence
         \/ MakeTag("tag", 0) \/ MakeTag("tag1", 1) \/ MakeTag("tag2", 2)
  PROVE  Reduced
<1> DEFINE names == {"ASSIGN", "DECLARE", "DECLARE_ASSIGN", "DECLARE_MATRIX", "CALL",
                     "RETURN", "EMPTY", "SEQUENCE", "tag", "tag1", "tag2"}
<1>1. \A f \in names : f \notin DOMAIN Grammar /\ Kind(f) \notin {"none", "expr"}
  BY KindsOf DEF Grammar
<1>2. \E f \in names : Reduce(f)
  BY DEF Assignation, Declare, DeclareAndAssign, DeclareMatrix, CallFunctionWithExpr,
         ControlReturn, EmptyStatements, Sequence, MakeTag
<1>3. extents' = extents /\ status' \in {status, "aborted"}
  <2>1. Assignation \/ Declare \/ DeclareAndAssign \/ DeclareMatrix => extents' = extents /\ status' \in {status, "aborted"}
    BY DEF Assignation, Declare, DeclareAndAssign, DeclareMatrix, Assign, Abort, meaning
  <2>2. CallFunctionWithExpr \/ ControlReturn \/ EmptyStatements \/ Sequence
        => extents' = extents /\ status' \in {status, "aborted"}
    BY DEF CallFunctionWithExpr, ControlReturn, EmptyStatements, Sequence, Abort, meaning
  <2>3. MakeTag("tag", 0) \/ MakeTag("tag1", 1) \/ MakeTag("tag2", 2)
        => extents' = extents /\ status' \in {status, "aborted"}
    BY DEF MakeTag, meaning
  <2> QED
    BY <2>1, <2>2, <2>3
<1> QED
  BY <1>1, <1>2, <1>3, OtherReduces

\* Those of conditions.
LEMMA ConditionReduces ==
  ASSUME \/ ConditionFromExpression \/ ConditionCompareExpressions \/ ConditionTrue
         \/ ConditionFalse \/ ConditionOr \/ ConditionAnd \/ ConditionNot
  PROVE  Reduced
<1> DEFINE names == {"TEST", "COMPARE", "TRUE", "FALSE", "OR", "AND", "NOT"}
<1>1. \A f \in names : f \notin DOMAIN Grammar /\ Kind(f) \notin {"none", "expr"}
  BY KindsOf DEF Grammar
<1>2. \E f \in names : Reduce(f)
  BY DEF ConditionFromExpression, ConditionCompareExpressions, ConditionTrue,
         ConditionFalse, ConditionOr, ConditionAnd, ConditionNot
<1>3. extents' = extents /\ status' \in {status, "aborted"}
  <2>1. ConditionFromExpression \/ ConditionCompareExpressions \/ ConditionTrue
        \/ ConditionFalse => extents' = extents /\ status' \in {status, "aborted"}
    BY DEF ConditionFromExpression, ConditionCompareExpressions, ConditionTrue,
           ConditionFalse, Branches, Built
  <2>2. ConditionOr \/ ConditionAnd \/ ConditionNot => extents' = extents /\ status' \in {status, "aborted"}
    BY DEF ConditionOr, ConditionAnd, ConditionNot, Built
  <2> QED
    BY <2>1, <2>2
<1> QED
  BY <1>1, <1>2, <1>3, OtherReduces

\* Those of control structures.
LEMMA ControlReduces ==
  ASSUME ControlIf \/ ControlIfElse \/ ControlWhile \/ ControlDoWhile \/ ControlFor
  PROVE  Reduced
<1>1. \A f \in Controls : f \notin DOMAIN Grammar /\ Kind(f) \notin {"none", "expr"}
  BY KindsOf DEF Grammar, Controls
<1>2. \E f \in Controls : Reduce(f)
  BY DEF ControlIf, ControlIfElse, ControlWhile, ControlDoWhile, ControlFor, Controls
<1>3. extents' = extents /\ status' \in {status, "aborted"}
  BY DEF ControlIf, ControlIfElse, ControlWhile, ControlDoWhile, ControlFor, Built
<1> QED
  BY <1>1, <1>2, <1>3, OtherReduces

\* A step is a rule, the end of a function or of the text, or another reduction.
LEMMA NextReduces == Next => Derive \/ Function \/ AddReturn \/ Reduced
  BY ExpressionReduces, StatementReduces, ConditionReduces, ControlReduces DEF Next

\* What expressions leave.
LEMMA ExpressionMakes ==
  ASSUME IInv, NEW n \in Nat, NEW attr, Renewed(n, attr), status' = "parsing",
         DeclareConstant \/ Lookup \/ UnaryArithmeticOp \/ BinaryArithmeticOp
  PROVE  MakesOperand(attr)
<1>1. Replaces(n, attr) /\ Return(n, attr) /\ n = Len(Takes(Head(work)))
  BY RenewedIs DEF Renewed
<1>2. ASSUME NEW b, Return(n, b) PROVE attr = b
  <2>1. vals \in Seq(Attribute(Symbols, NextQuad(heap))) /\ n <= Len(vals)
    <3>1. n <= Len(vals)
      BY <1>1, ListsAre DEF Replaces
    <3> QED
      BY <3>1 DEF IInv
  <2>2. Replaces(n, b)
    BY <2>1, <1>2, ReturnIs
  <2> QED
    BY <2>2, <1>1 DEF Replaces
<1>3. Wired(heap) /\ NextQuad(heap) \in Nat
  BY ListsAre, WiredIs
<1>4. ASSUME NEW s, s[1] # "tmp", Return(n, Symbol(s)), heap' = heap
      PROVE  MakesOperand(attr)
  <2>1. attr = Symbol(s)
    BY <1>2, <1>4
  <2>2. attr.code = NULL /\ attr.symbol = s
    BY <2>1 DEF Symbol, Attr
  <2>3. Fresh(heap') = {}
    BY <1>3, <1>4 DEF Fresh
  <2> QED
    BY <2>2, <2>3, <1>4 DEF MakesOperand
<1>5. ASSUME NEW op \in ArithmeticOps, NEW type, NEW op1, NEW op2,
             Compute(n, op, type, op1, op2)
      PROVE  MakesOperand(attr)
  <2>1. PICK made : made = QuadNew(heap, op, NewTemp, op1, op2)
    OBVIOUS
  <2>2. heap' = made /\ Return(n, Expr(NextQuad(made), NewTemp))
    BY <2>1, <1>5 DEF Compute
  <2>3. PICK m : m = NextQuad(heap) + 1
    OBVIOUS
  <2>4. op \in Ops
    BY DEF Ops
  <2>5. Fresh(made) = {m} /\ made.quad[m].op = op
    BY <2>1, <2>3, <2>4, <1>3, OneFresh
  <2>6. made.quad[m].res = NewTemp /\ made.quad[m].successor = NULL
    <3>1. made.quad[m] = [op |-> op, res |-> NewTemp, op1 |-> op1, op2 |-> op2,
                          successor |-> NULL]
      BY <2>1, <2>3, <1>3, QuadNewNode
    <3> QED
      BY <3>1
  <2>7. Wired(made) /\ NextQuad(made) = m
    BY <2>1, <2>3, <2>4, <1>3, QuadNewWires
  <2>8. NodesOf(made, m) = {m}
    BY <2>3, <2>6, <2>7, <1>3, Single
  <2>9. attr.code = m /\ attr.symbol = NewTemp
    <3>1. attr = Expr(m, NewTemp)
      BY <2>2, <2>7, <1>2
    <3> QED
      BY <3>1 DEF Expr, Attr
  <2>10. NewTemp[1] = "tmp" /\ NewTemp \notin Symbols
    BY DEF NewTemp, IInv, TableKept
  <2> QED
    BY <2>2, <2>5, <2>6, <2>8, <2>9, <2>10 DEF MakesOperand
<1>6. /\ Takes("CONSTANT") = <<>> /\ Takes("LOOKUP") = <<>>
      /\ Takes("UNARY") = <<"expr">> /\ Takes("BINARY") = <<"expr", "expr">>
  BY NothingTaken, Taken
<1>7. CASE DeclareConstant
  <2>1. Head(work) = "CONSTANT" /\ Return(0, Symbol(NewConst)) /\ heap' = heap
    BY <1>7 DEF DeclareConstant, Reduce
  <2>2. n = 0 /\ NewConst[1] # "tmp"
    BY <2>1, <1>1, <1>6 DEF NewConst
  <2> QED
    BY <2>1, <2>2, <1>4
<1>8. CASE Lookup
  <2>1. PICK name : Head(work) = "LOOKUP" /\ Return(0, Symbol(User(name))) /\ heap' = heap
    BY <1>8 DEF Lookup, Reduce, Abort, program
  <2>2. n = 0 /\ User(name)[1] # "tmp"
    BY <2>1, <1>1, <1>6 DEF User
  <2> QED
    BY <2>1, <2>2, <1>4
<1>9. CASE UnaryArithmeticOp
  <2>1. Head(work) = "UNARY" /\ \E type, op1, op2 : Compute(1, "NEG", type, op1, op2)
    BY <1>9 DEF UnaryArithmeticOp, Reduce
  <2>2. n = 1 /\ "NEG" \in ArithmeticOps
    BY <2>1, <1>1, <1>6 DEF ArithmeticOps
  <2> QED
    BY <2>1, <2>2, <1>5
<1>10. CASE BinaryArithmeticOp
  <2>1. Head(work) = "BINARY" /\ \E op \in BinaryOps : \E type, op1, op2 :
                                    Compute(2, op, type, op1, op2)
    BY <1>10 DEF BinaryArithmeticOp, Reduce, Abort
  <2>2. n = 2 /\ BinaryOps \subseteq ArithmeticOps
    BY <2>1, <1>1, <1>6, FrontendAssumption
  <2> QED
    BY <2>1, <2>2, <1>5
<1> QED
  BY <1>7, <1>8, <1>9, <1>10

\* A reduction keeps what is known of the operands.
LEMMA ReducedOperands ==
  ASSUME IInv, IInv', ListsKept, KeepsLists, Reduced, OperandsParsed,
         ~ merged', status' = "parsing"
  PROVE  OperandsParsed'
<1>1. PICK f : /\ Reduce(f) /\ f \notin DOMAIN Grammar /\ Kind(f) # "none"
               /\ extents' = extents /\ status' \in {status, "aborted"}
               /\ Kind(f) = "expr" /\ status' = "parsing" =>
                    DeclareConstant \/ Lookup \/ UnaryArithmeticOp \/ BinaryArithmeticOp
  BY DEF Reduced
<1>2. f = Head(work) /\ work' = Tail(work) /\ work # <<>>
  BY <1>1 DEF Reduce, Parsing
<1>3. f # "FUNCTION" /\ work' # work
  <2>1. f # "FUNCTION"
    BY <1>1, KindsOf
  <2>2. Len(Tail(work)) = Len(work) - 1 /\ Len(work) \in Nat
    BY <1>2 DEF IInv
  <2> QED
    BY <2>1, <2>2, <1>2
<1>4. PICK n \in Nat : \E attr :
        /\ n = Len(Takes(Head(work))) /\ Reduce(Head(work)) /\ Return(n, attr)
        /\ MadeOf(n, attr) /\ OthersKept(n)
  BY <1>1, <1>2, <1>3 DEF KeepsLists, Traced
<1>5. PICK attr :
        /\ n = Len(Takes(Head(work))) /\ Reduce(Head(work)) /\ Return(n, attr)
        /\ MadeOf(n, attr) /\ OthersKept(n)
  BY <1>4
<1>6. Apart(heap, vals, quad_list, connectives, dangling)
  BY DEF KeepsLists, ListsKept
<1>7. Renewed(n, attr)
  BY <1>1, <1>5, <1>6 DEF Renewed
<1>8. Kind(f) = "expr" => MakesOperand(attr)
  BY <1>1, <1>7, ExpressionMakes
<1> QED
  BY <1>1, <1>2, <1>7, <1>8, RenewedOperands

\* When a function ends, nothing but further functions is left to treat, and
\* its statements are the only value.
LEMMA OnlyValue ==
  ASSUME IInv, Function, OperandsParsed
  PROVE  /\ Len(vals) = 1 /\ CodeShape(heap, Current, vals[1])
         /\ \E after : Stacks(work', after) /\ Len(after[1]) = 0
<1>1. PICK kinds : /\ Stacks(work, kinds) /\ Len(vals) = Len(kinds[1])
                   /\ \A k \in 1 .. Len(vals) :
                        ShapeOf(heap, Current, vals[k], kinds[1][k])
  BY DEF OperandsParsed, Shaped
<1>2. /\ work \in Seq(Item) /\ work # <<>> /\ Head(work) = "FUNCTION"
      /\ work' = Tail(work) /\ Ending(work)
  BY DEF Function, Reduce, Parsing, IInv, OperandsParsed
<1>3. Takes("FUNCTION") = <<"code">> /\ Kind("FUNCTION") = "none"
  BY Taken, KindsOf
<1>4. PICK n \in Nat : n = 1
  OBVIOUS
<1>5. PICK l \in Nat : \E after :
        /\ l + n = Len(vals) /\ Stacks(Tail(work), after)
        /\ \A k \in 1 .. n : kinds[1][l + k] = Takes("FUNCTION")[k]
        /\ Len(after[1]) = l
  <2>1. n = Len(Takes(Head(work)))
    BY <1>2, <1>3, <1>4
  <2>2. Pops(kinds, n)
    BY <2>1, <1>1, <1>2, PoppedKinds
  <2> QED
    BY <2>2, <1>2, <1>3 DEF Pops
<1>6. PICK after :
        /\ l + n = Len(vals) /\ Stacks(Tail(work), after)
        /\ \A k \in 1 .. n : kinds[1][l + k] = Takes("FUNCTION")[k]
        /\ Len(after[1]) = l
  BY <1>5
<1>7. PICK rest \in Seq(Item), m \in Nat : rest = Tail(work) /\ m = Len(rest)
  BY <1>2
<1>8. m = 0 \/ (m = 1 /\ rest[1] = "functions")
  <2>1. Len(work) = m + 1 /\ work[1] = "FUNCTION" /\ \A i \in 1 .. m : rest[i] = work[i + 1]
    BY <1>2, <1>7
  <2>2. 1 \in 1 .. Len(work)
    BY <2>1
  <2>3. 1 = m + 1 \/ (1 + 1 = m + 1 /\ work[m + 1] = "functions")
    BY <2>1, <2>2, <1>2, <1>3 DEF Ending
  <2>4. CASE 1 + 1 = m + 1 /\ work[m + 1] = "functions"
    <3>1. 1 \in 1 .. m /\ m = 1
      BY <2>4
    <3>2. rest[1] = work[1 + 1]
      BY <2>1, <3>1
    <3> QED
      BY <2>4, <3>1, <3>2
  <2> QED
    BY <2>3, <2>4
<1>9. l = 0
  <2>1. after[m + 1] = <<>> /\ \A i \in 1 .. m : Effect(rest[i], after[i], after[i + 1])
    BY <1>6, <1>7 DEF Stacks
  <2>2. CASE m = 0
    BY <2>1, <2>2, <1>6
  <2>3. CASE m = 1 /\ rest[1] = "functions"
    <3>1. Effect("functions", after[1], <<>>)
      <4>1. 1 \in 1 .. m /\ 1 + 1 = m + 1
        BY <2>3
      <4>2. Effect(rest[1], after[1], after[1 + 1])
        BY <2>1, <4>1
      <4> QED
        BY <2>1, <2>3, <4>1, <4>2
    <3>2. Takes("functions") = <<>> /\ Kind("functions") = "none"
      BY NothingTaken, KindsOf
    <3>3. PICK base \in Seq(Kinds) : after[1] = base \o <<>> /\ base = <<>>
      BY <3>1, <3>2 DEF Effect
    <3>4. after[1] = <<>>
      BY <3>3
    <3> QED
      BY <3>4, <1>6
  <2> QED
    BY <2>2, <2>3, <1>8
<1>10. Len(vals) = 1 /\ kinds[1][1] = "code"
  <2>1. 1 \in 1 .. n /\ l + 1 = 1
    BY <1>4, <1>9
  <2>2. kinds[1][1] = Takes("FUNCTION")[1]
    BY <2>1, <1>6
  <2> QED
    BY <2>2, <1>3, <1>4, <1>6, <1>9
<1>11. CodeShape(heap, Current, vals[1])
  BY <1>1, <1>10 DEF ShapeOf
<1> QED
  BY <1>2, <1>6, <1>9, <1>10, <1>11

\* The program is what stays of the function that ends.
LEMMA FunctionOperands ==
  ASSUME IInv, Function, OperandsParsed
  PROVE  OperandsParsed'
<1>1. /\ quad_list' = Value(1, 1).code /\ vals' = Below(1) /\ heap' = heap
      /\ extents' = Append(extents, NextQuad(heap))
      /\ work' = Tail(work) /\ work \in Seq(Item) /\ work # <<>>
  BY DEF Function, Reduce, Parsing, IInv
<1>2. /\ Len(vals) = 1 /\ CodeShape(heap, Current, vals[1])
      /\ \E after : Stacks(work', after) /\ Len(after[1]) = 0
  BY OnlyValue
<1>3. quad_list' = vals[1].code /\ Len(vals') = 0
  <2>1. 1 - 1 = 0 /\ Len(vals) - 1 + 1 = 1
    BY <1>2
  <2>2. vals \in Seq(Attribute(Symbols, NextQuad(heap)))
    BY DEF IInv
  <2> QED
    BY <2>1, <2>2, <1>1, <1>2 DEF Value, Below
<1>4. PICK top, l : top = NextQuad(heap) /\ l = Len(extents)
  OBVIOUS
<1>5. top \in Nat
  BY <1>4, ProgramIs
<1>6. /\ extents \in Seq(Nat) /\ l \in Nat /\ l >= 1 /\ extents[l] \in Nat
      /\ extents[l] <= top
  <2>1. extents \in Seq(Nat) /\ extents # <<>> /\ extents[l] <= top
    BY <1>4 DEF OperandsParsed, ExtentsKept
  <2>2. l \in Nat /\ l >= 1
    BY <2>1, <1>4
  <2> QED
    BY <2>1, <2>2, <1>4
<1>7. /\ extents' \in Seq(Nat) /\ Len(extents') = l + 1 /\ extents'[l + 1] = top
      /\ extents'[l] = extents[l] /\ extents' # <<>>
  BY <1>1, <1>4, <1>5, <1>6
<1>8. Current' = {} /\ LastFunction' = Current
  <2>1. Current' = top + 1 .. top
    BY <1>1, <1>4, <1>7 DEF Current
  <2>2. LastFunction' = extents[l] + 1 .. top
    <3>1. (l + 1) - 1 = l
      BY <1>6
    <3> QED
      BY <3>1, <1>7 DEF LastFunction
  <2>3. Current = extents[l] + 1 .. top /\ top + 1 .. top = {}
    BY <1>4, <1>5 DEF Current
  <2> QED
    BY <2>1, <2>2, <2>3
<1>9. ExtentsKept'
  BY <1>1, <1>4, <1>5, <1>7 DEF ExtentsKept
<1>10. Shaped'
  BY <1>2, <1>3 DEF Shaped
<1>11. NothingMissing'
  BY <1>8 DEF NothingMissing
<1>12. OwnTemporaries'
  BY <1>1 DEF OperandsParsed, OwnTemporaries
<1>13. ProgramWhole'
  <2>1. NodesOf(heap, vals[1].code) \subseteq Current
    BY <1>2 DEF CodeShape
  <2>2. ASSUME NEW m \in Current
        PROVE  m \in NodesOf(heap, vals[1].code) <=> Needed(heap, Current, m)
    <3>1. ASSUME Needed(heap, Current, m) PROVE m \in NodesOf(heap, vals[1].code)
      <4>1. PICK k \in 1 .. Len(vals) : m \in NodesOf(heap, vals[k].code)
        BY <3>1 DEF OperandsParsed, NothingMissing
      <4>2. k = 1
        BY <4>1, <1>2
      <4> QED
        BY <4>1, <4>2
    <3> QED
      BY <3>1, <1>2 DEF CodeShape
  <2> QED
    BY <2>1, <2>2, <1>1, <1>3, <1>8 DEF ProgramWhole
<1>14. Ending(work') /\ (Len(extents') = 1 => Unfinished(work'))
  <2>1. Ending(work')
    BY <1>1, EndingReduced DEF OperandsParsed
  <2>2. Len(extents') # 1
    BY <1>6, <1>7
  <2> QED
    BY <2>1, <2>2
<1> QED
  BY <1>9, <1>10, <1>11, <1>12, <1>13, <1>14 DEF OperandsParsed

\* The text goes on.
LEMMA DeriveOperands ==
  ASSUME IInv, Derive, OperandsParsed
  PROVE  OperandsParsed'
<1>1. /\ vals' = vals /\ heap' = heap /\ quad_list' = quad_list
      /\ extents' = extents
  BY DEF Derive, program, meaning
<1>2. Ending(work') /\ (Len(extents') = 1 => Unfinished(work'))
  BY <1>1, EndingDerived DEF OperandsParsed
<1>3. Shaped'
  <2>1. PICK kinds : /\ Stacks(work, kinds) /\ Len(vals) = Len(kinds[1])
                     /\ \A k \in 1 .. Len(vals) :
                          ShapeOf(heap, Current, vals[k], kinds[1][k])
    BY DEF OperandsParsed, Shaped
  <2>2. PICK longer : Stacks(work', longer) /\ longer[1] = kinds[1]
    BY <2>1, Deriving
  <2> QED
    BY <2>1, <2>2, <1>1 DEF Shaped, Current
<1>4. /\ ExtentsKept' /\ NothingMissing' /\ OwnTemporaries' /\ ProgramWhole'
  BY <1>1 DEF OperandsParsed, ExtentsKept, NothingMissing, OwnTemporaries,
     ProgramWhole, Current, LastFunction
<1> QED
  BY <1>2, <1>3, <1>4 DEF OperandsParsed

\* At first there is nothing but the text.
LEMMA InitOperands == Init => OperandsKept
<1>1. SUFFICES ASSUME Init PROVE OperandsParsed /\ OnlyOperandsLost
  BY DEF OperandsKept
<1>2. /\ work = <<"functions">> /\ vals = <<>> /\ heap = EmptyHeap
      /\ extents = <<0>> /\ status = "parsing"
  BY <1>1 DEF Init
<1>3. IInv
  BY <1>1, InitIInv
<1>4. NextQuad(heap) = 0
  BY <1>2 DEF EmptyHeap, NextQuad
<1>5. ExtentsKept /\ Current = {}
  BY <1>2, <1>4 DEF ExtentsKept, Current
<1>6. Shaped
  <2>1. PICK kinds, F : Stacks(work, kinds) /\ Fit(vals, kinds[1], F)
    BY <1>2, <1>3 DEF IInv, StackKept
  <2>2. Len(vals) = Len(kinds[1]) /\ Len(vals) = 0
    BY <2>1, <1>2 DEF Fit
  <2>3. \A k : k \notin 1 .. Len(vals)
    BY <2>2
  <2> QED
    BY <2>1, <2>2, <2>3 DEF Shaped
<1>7. NothingMissing /\ OwnTemporaries /\ ProgramWhole
  BY <1>2, <1>4, <1>5 DEF NothingMissing, OwnTemporaries, ProgramWhole
<1>8. Ending(work) /\ Unfinished(work)
  <2>1. Kind("functions") = "none"
    BY KindsOf
  <2>2. Len(work) = 1 /\ work[1] = "functions"
    BY <1>2
  <2> QED
    BY <2>1, <2>2 DEF Ending, Unfinished
<1>9. OnlyOperandsLost
  BY <1>2 DEF OnlyOperandsLost, Compiled
<1> QED
  BY <1>5, <1>6, <1>7, <1>8, <1>9 DEF OperandsParsed

\* main() pushes its RET behind the program and nothing else.
LEMMA AddReturnOperands ==
  ASSUME IInv, ListsKept, AddReturn, OperandsParsed
  PROVE  OnlyOperandsLost'
<1>1. PICK r, top : r = ListPush(heap, quad_list, "RET") /\ top = NextQuad(heap)
  OBVIOUS
<1>2. /\ work = <<>> /\ status = "parsing" /\ ~ heap.hung
      /\ heap' = r.heap /\ quad_list' = r.list /\ extents' = extents
  BY <1>1 DEF AddReturn, meaning
<1>3. /\ Wired(heap) /\ quad_list \in 0 .. NextQuad(heap)
      /\ "RET" \in Ops /\ "RET" \notin BranchOps /\ ~ Endless(heap, quad_list)
  BY <1>2, NoValueLeft, ListsAre DEF Ops, BranchOps, Apart
<1>4. /\ NextQuad(heap') = top + 1
      /\ NodesOf(heap', quad_list') = NodesOf(heap, quad_list) \cup {top + 1}
      /\ \A m \in 1 .. top : Says(heap'.quad[m]) = Says(heap.quad[m])
  BY <1>1, <1>2, <1>3, ListPushed
<1>5. top \in Nat
  BY <1>1, ProgramIs
<1>6. PICK l : l = Len(extents) /\ l \in Nat /\ l > 1
  <2>1. ~ Unfinished(work)
    BY <1>2 DEF Unfinished
  <2>2. Len(extents) # 1 /\ extents \in Seq(Nat) /\ extents # <<>>
    BY <2>1 DEF OperandsParsed, ExtentsKept
  <2>3. PICK e : e \in Seq(Nat) /\ e # <<>> /\ e = extents
    BY <2>2
  <2>4. Len(e) \in Nat /\ Len(e) # 0
    BY <2>3
  <2>5. Len(extents) \in Nat /\ Len(extents) # 0 /\ Len(extents) # 1
    BY <2>2, <2>3, <2>4
  <2>6. Len(extents) > 1
    BY <2>5
  <2> QED
    BY <2>5, <2>6
<1>7. /\ LastFunction \subseteq 1 .. top /\ LastFunction' = LastFunction
  <2>1. /\ extents \in Seq(Nat) /\ extents[l] <= top /\ l - 1 \in 1 .. l /\ l \in 1 .. l
    BY <1>1, <1>6 DEF OperandsParsed, ExtentsKept
  <2>2. extents[l] \in Nat /\ extents[l - 1] \in Nat
    BY <2>1, <1>6
  <2>3. (extents[l - 1] + 1 .. extents[l]) \subseteq 1 .. top
    BY <2>1, <2>2, <1>5
  <2> QED
    BY <2>3, <1>2, <1>6 DEF LastFunction
<1>8. /\ NodesOf(heap, quad_list) \subseteq LastFunction
      /\ \A m \in LastFunction :
           m \in NodesOf(heap, quad_list) <=> Needed(heap, LastFunction, m)
  BY <1>6 DEF OperandsParsed, ProgramWhole
<1>9. InCode' = NodesOf(heap, quad_list) \cup {top + 1}
  BY <1>4 DEF InCode
<1>10. top + 1 \notin LastFunction
  BY <1>5, <1>7
<1>11. \A m \in LastFunction : /\ heap'.quad[m].op = heap.quad[m].op
                              /\ heap'.quad[m].res = heap.quad[m].res
                              /\ heap'.quad[m].op1 = heap.quad[m].op1
                              /\ heap'.quad[m].op2 = heap.quad[m].op2
  BY <1>4, <1>7 DEF Says
<1>12. ASSUME NEW m \in LastFunction, NEW x
       PROVE  x \in Asks(heap.quad[m]) <=>
                heap'.quad[m].op \notin ArithmeticOps /\ x \in (Reads(m))'
  BY <1>11 DEF Asks, Reads
<1>13. ASSUME NEW n \in LastFunction
       PROVE  Needed(heap, LastFunction, n) <=>
                \/ heap'.quad[n].op \notin ArithmeticOps
                \/ \E m \in LastFunction :
                     /\ heap'.quad[m].op \notin ArithmeticOps
                     /\ heap'.quad[n].res \in (Reads(m))'
  BY <1>11, <1>12 DEF Needed, Sought
<1>14. InCode' \subseteq LastFunction' \cup {NextQuad(heap')}
  BY <1>4, <1>7, <1>8, <1>9
<1> QED
  BY <1>7, <1>8, <1>9, <1>10, <1>13, <1>14 DEF OnlyOperandsLost

\* Every step keeps what is known of the operands.
LEMMA StepOperands ==
  ASSUME IInv, ListsKept, OperandsKept, [Next]_vars
  PROVE  OperandsKept'
<1>1. CASE UNCHANGED vars
  <2>1. /\ work' = work /\ vals' = vals /\ heap' = heap /\ quad_list' = quad_list
        /\ status' = status /\ merged' = merged /\ extents' = extents
    BY <1>1 DEF vars, program, meaning
  <2>2. OperandsParsed' <=> OperandsParsed
    BY <2>1 DEF OperandsParsed, ExtentsKept, Shaped, NothingMissing, OwnTemporaries,
       ProgramWhole, Current, LastFunction
  <2>3. OnlyOperandsLost' <=> OnlyOperandsLost
    BY <2>1 DEF OnlyOperandsLost, Compiled, InCode, LastFunction, Reads
  <2> QED
    BY <2>1, <2>2, <2>3 DEF OperandsKept
<1>2. CASE Next
  <2>1. IInv' /\ KeepsLists
    BY <1>2, NextStep, NextLists
  <2>2. ~ merged' => ~ merged
    BY <2>1 DEF KeepsLists
  <2>3. status = "parsing" /\ (status' = "done" => AddReturn)
    <3>1. Derive => status = "parsing" /\ status' = status
      BY DEF Derive, Parsing
    <3>2. Function => status = "parsing" /\ status' = status
      BY DEF Function, Reduce, Parsing
    <3>3. AddReturn => status = "parsing"
      BY DEF AddReturn
    <3>4. Reduced => status = "parsing" /\ status' # "done"
      <4>1. Reduced => status = "parsing" /\ status' \in {status, "aborted"}
        BY DEF Reduced, Reduce, Parsing
      <4> QED
        BY <4>1
    <3> QED
      BY <3>1, <3>2, <3>3, <3>4, <1>2, NextReduces
  <2>4. ASSUME ~ merged', status' = "parsing" PROVE OperandsParsed'
    <3>1. OperandsParsed
      BY <2>2, <2>3, <2>4 DEF OperandsKept
    <3>2. CASE Derive
      BY <3>1, <3>2, DeriveOperands
    <3>3. CASE Function
      BY <3>1, <3>3, FunctionOperands
    <3>4. CASE Reduced
      BY <3>1, <3>4, <2>1, <2>4, ReducedOperands
    <3>5. ~ AddReturn
      <4>1. SUFFICES ASSUME AddReturn PROVE FALSE
        OBVIOUS
      <4>2. ~ heap'.hung
        BY <2>1, <2>4 DEF KeepsLists, ListsKept
      <4>3. status' = "done"
        BY <4>1, <4>2 DEF AddReturn
      <4> QED
        BY <4>3, <2>4
    <3> QED
      BY <3>2, <3>3, <3>4, <3>5, <1>2, NextReduces
  <2>5. OnlyOperandsLost'
    <3>1. CASE AddReturn
      <4>1. ~ merged
        BY <3>1, NoValueLeft DEF AddReturn
      <4>2. OperandsParsed
        BY <4>1, <2>3 DEF OperandsKept
      <4> QED
        BY <3>1, <4>2, AddReturnOperands
    <3>2. CASE ~ AddReturn
      BY <3>2, <2>3 DEF OnlyOperandsLost, Compiled
    <3> QED
      BY <3>1, <3>2
  <2> QED
    BY <2>4, <2>5 DEF OperandsKept
<1> QED
  BY <1>1, <1>2

\* Whatever the text, a quadruple of the last function is missing from the
\* compiled program exactly when it computes an operand of another computation
\* or the matrix of a print, and the other functions are left out altogether:
\* the code of the operands of a computation is never linked
\* (actions.c:110, 121, 280, parser.y:95-96).
THEOREM OnlyOperandsAreLost == Spec => []OnlyOperandsLost
<1>1. IInv /\ ListsKept /\ OperandsKept /\ [Next]_vars => OperandsKept'
  BY StepOperands
<1>2. OperandsKept => OnlyOperandsLost
  BY DEF OperandsKept
<1> QED
  BY <1>1, <1>2, InitOperands, ListsInvariance, PTL DEF Spec
=============================================================================
