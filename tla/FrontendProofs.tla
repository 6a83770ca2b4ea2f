--------------------------- MODULE FrontendProofs ---------------------------
(***************************************************************************)
(* What the front end leaves in memory is well-formed for every text: the  *)
(* theorems of Frontend.                                                   *)
(*                                                                         *)
(* The type invariant does not hold by itself.  unary_arithmetic_op() and  *)
(* its like read the type of the symbol that $1 stands for, so that symbol *)
(* must be there; and that $1 is an expression, not a statement, depends   *)
(* on what the parser has reduced and has still to reduce.  The invariant  *)
(* therefore follows the kinds of the values on the semantic stack through *)
(* all that is left of the text.                                           *)
(*                                                                         *)
(* A tag numbers a quadruple that may not have been made when it is        *)
(* reduced, and control_if_else() and control_for() make their gotos only  *)
(* when they are reduced.  So a tag, a `tag1' and a `tag2' are three kinds *)
(* of values: so many gotos are still to be made after each.               *)
(***************************************************************************)
EXTENDS Frontend, SequenceTheorems, FiniteSetTheorems, WellFoundedInduction,
        TLAPS

-----------------------------------------------------------------------------
(***************************************************************************)
(* The invariant.                                                          *)
(***************************************************************************)
Ops == {"MOVE", "RET"} \cup ArithmeticOps \cup BranchOps \cup PrintOps

\* A symbol of a program, and one that may be missing.
SymbolName == ({"user"} \X Names) \cup ({"tmp", "cst"} \X Nat)
OrNone(S) == S \cup {NoSymbol}

\* A quadruple of the symbols S, whose label is in L if it is a branch, and a
\* heap of such quadruples whose links all lead to one of them.
QuadOf(S, L) ==
  {q \in [op : Ops, res : OrNone(S), op1 : OrNone(S), op2 : OrNone(S),
          successor : Nat] : q.op \in BranchOps => q.res \in OrNone(L)}
IsHeap(h, S, L) ==
  /\ h \in [quad : Seq(QuadOf(S, L)), hung : BOOLEAN]
  /\ \A n \in 1 .. Len(h.quad) : h.quad[n].successor <= Len(h.quad)

\* The attributes of a value, among n nodes.
Attribute(S, n) == [code : 0 .. n, symbol : OrNone(S), true_list : 0 .. n,
                    false_list : 0 .. n, yes : SUBSET Nat, no : SUBSET Nat]

-----------------------------------------------------------------------------
(***************************************************************************)
(* The operations on the heap.                                             *)
(***************************************************************************)

\* quad_new() and quad_list_new() add a node that leads nowhere.
LEMMA QuadNewIsHeap ==
  ASSUME NEW S, NEW L, NEW h, IsHeap(h, S, L), NEW op \in Ops,
         NEW res \in OrNone(S), NEW op1 \in OrNone(S), NEW op2 \in OrNone(S),
         op \in BranchOps => res \in OrNone(L)
  PROVE  /\ IsHeap(QuadNew(h, op, res, op1, op2), S, L)
         /\ NextQuad(QuadNew(h, op, res, op1, op2)) = NextQuad(h) + 1
         /\ NextQuad(h) \in Nat
         /\ QuadNew(h, op, res, op1, op2).hung = h.hung
<1> DEFINE q == [op |-> op, res |-> res, op1 |-> op1, op2 |-> op2,
                 successor |-> NULL]
<1>1. PICK quads \in Seq(QuadOf(S, L)) : quads = h.quad
  BY DEF IsHeap
<1>2. h.hung \in BOOLEAN /\ h = [quad |-> quads, hung |-> h.hung]
  BY <1>1 DEF IsHeap
<1>3. q \in QuadOf(S, L) /\ q.successor = 0
  BY DEF QuadOf, NULL, OrNone
<1> HIDE DEF q
<1>4. QuadNew(h, op, res, op1, op2) = [quad |-> Append(quads, q),
                                       hung |-> h.hung]
  BY <1>1, <1>2 DEF QuadNew, q
<1>5. /\ Append(quads, q) \in Seq(QuadOf(S, L)) /\ Len(quads) \in Nat
      /\ Len(Append(quads, q)) = Len(quads) + 1
      /\ Append(quads, q)[Len(quads) + 1] = q
      /\ \A n \in 1 .. Len(quads) : Append(quads, q)[n] = quads[n]
  BY <1>3
<1>6. ASSUME NEW n \in 1 .. Len(quads) + 1
      PROVE  Append(quads, q)[n].successor <= Len(quads) + 1
  <2>1. CASE n = Len(quads) + 1
    BY <2>1, <1>3, <1>5
  <2>2. CASE n \in 1 .. Len(quads)
    <3>1. quads[n] \in QuadOf(S, L) /\ quads[n].successor <= Len(quads)
      BY <2>2, <1>1 DEF IsHeap
    <3>2. quads[n].successor \in Nat
      BY <3>1 DEF QuadOf
    <3> QED
      BY <3>1, <3>2, <2>2, <1>5
  <2> QED
    BY <2>1, <2>2, <1>5
<1> QED
  BY <1>1, <1>2, <1>4, <1>5, <1>6 DEF IsHeap, NextQuad

\* A heap that hangs is a heap.
LEMMA HangIsHeap ==
  ASSUME NEW S, NEW L, NEW h, IsHeap(h, S, L)
  PROVE  IsHeap(Hang(h), S, L) /\ NextQuad(Hang(h)) = NextQuad(h)
  BY DEF Hang, IsHeap, NextQuad

\* Replacing nodes by others keeps a heap one.
LEMMA NodesReplaced ==
  ASSUME NEW S, NEW L, NEW h, IsHeap(h, S, L), NEW quads, DOMAIN quads = DOMAIN h.quad,
         quads = [n \in DOMAIN quads |-> quads[n]],
         \A n \in DOMAIN quads : quads[n] \in QuadOf(S, L)
                                 /\ quads[n].successor <= NextQuad(h)
  PROVE  /\ IsHeap([h EXCEPT !.quad = quads], S, L)
         /\ NextQuad([h EXCEPT !.quad = quads]) = NextQuad(h)
<1>1. h.quad \in Seq(QuadOf(S, L)) /\ h.hung \in BOOLEAN
      /\ [h EXCEPT !.quad = quads] = [quad |-> quads, hung |-> h.hung]
  BY DEF IsHeap
<1>2. DOMAIN quads = 1 .. Len(h.quad) /\ Len(h.quad) \in Nat
  BY <1>1
<1>3. quads \in Seq(QuadOf(S, L)) /\ Len(quads) = Len(h.quad)
  <2>1. quads \in [1 .. Len(h.quad) -> QuadOf(S, L)]
    BY <1>2
  <2> QED
    BY <2>1, <1>2
<1> QED
  BY <1>1, <1>2, <1>3 DEF IsHeap, NextQuad

\* quad_list_complete() makes no node and cuts none.
LEMMA CompleteIsHeap ==
  ASSUME NEW S, NEW L, NEW h, IsHeap(h, S, L), NEW list, L \subseteq S,
         NEW label \in OrNone(L)
  PROVE  /\ IsHeap(Complete(h, list, label), S, L)
         /\ NextQuad(Complete(h, list, label)) = NextQuad(h)
<1> DEFINE reached == NodesOf(h, list)
           quads == [n \in DOMAIN h.quad |->
                       IF n \in reached THEN [h.quad[n] EXCEPT !.res = label]
                                        ELSE h.quad[n]]
<1>1. CASE h.hung
  BY <1>1 DEF Complete
<1>2. CASE ~ h.hung /\ Endless(h, list)
  BY <1>2, HangIsHeap DEF Complete
<1>3. CASE ~ h.hung /\ ~ Endless(h, list)
  <2>1. Complete(h, list, label) = [h EXCEPT !.quad = quads]
    BY <1>3 DEF Complete, IsHeap
  <2>2. ASSUME NEW n \in DOMAIN h.quad
        PROVE  quads[n] \in QuadOf(S, L) /\ quads[n].successor <= NextQuad(h)
    <3>1. h.quad[n] \in QuadOf(S, L) /\ h.quad[n].successor <= NextQuad(h)
      BY DEF IsHeap, NextQuad
    <3>2. /\ [h.quad[n] EXCEPT !.res = label] \in QuadOf(S, L)
          /\ [h.quad[n] EXCEPT !.res = label].successor = h.quad[n].successor
      BY <3>1 DEF QuadOf, OrNone
    <3> QED
      BY <3>1, <3>2
  <2> HIDE DEF reached
  <2>3. DOMAIN quads = DOMAIN h.quad /\ quads = [n \in DOMAIN quads |-> quads[n]]
    OBVIOUS
  <2> HIDE DEF quads
  <2> QED
    BY <2>1, <2>2, <2>3, NodesReplaced
<1> QED
  BY <1>1, <1>2, <1>3

\* Linking a list of the heap behind another leads to a node of the heap.
LEMMA LinkIsHeap ==
  ASSUME NEW S, NEW L, NEW h, IsHeap(h, S, L), NEW list, NEW src \in 0 .. NextQuad(h)
  PROVE  /\ IsHeap(Link(h, list, src), S, L)
         /\ NextQuad(Link(h, list, src)) = NextQuad(h)
<1> DEFINE end == TailOf(h, list)
           quads == [n \in DOMAIN h.quad |->
                       IF n = end THEN [h.quad[n] EXCEPT !.successor = src]
                                  ELSE h.quad[n]]
<1>1. CASE h.hung
  BY <1>1 DEF Link
<1>2. CASE ~ h.hung /\ Endless(h, list)
  BY <1>2, HangIsHeap DEF Link
<1>3. CASE ~ h.hung /\ ~ Endless(h, list)
  <2>1. Link(h, list, src) = [h EXCEPT !.quad = quads]
    BY <1>3 DEF Link, IsHeap
  <2>2. ASSUME NEW n \in DOMAIN h.quad
        PROVE  quads[n] \in QuadOf(S, L) /\ quads[n].successor <= NextQuad(h)
    <3>1. h.quad[n] \in QuadOf(S, L) /\ h.quad[n].successor <= NextQuad(h)
      BY DEF IsHeap, NextQuad
    <3>2. src \in Nat /\ src <= NextQuad(h)
      BY DEF IsHeap, NextQuad
    <3>3. /\ [h.quad[n] EXCEPT !.successor = src] \in QuadOf(S, L)
          /\ [h.quad[n] EXCEPT !.successor = src].successor = src
      BY <3>1, <3>2 DEF QuadOf
    <3> QED
      BY <3>1, <3>2, <3>3
  <2> HIDE DEF end
  <2>3. DOMAIN quads = DOMAIN h.quad /\ quads = [n \in DOMAIN quads |-> quads[n]]
    OBVIOUS
  <2> HIDE DEF quads
  <2> QED
    BY <2>1, <2>2, <2>3, NodesReplaced
<1> QED
  BY <1>1, <1>2, <1>3

\* What quad_list_concat() has after n of its arguments.
After(f, h, sources, n) ==
  /\ f[0] = [heap |-> h, list |-> NULL]
  /\ \A i \in 1 .. n : f[i] = Joined(f[i - 1], sources[i])

\* Induction over the natural numbers, for sets: the least number that is not
\* in the set would follow one that is.
LEMMA Induction ==
  ASSUME NEW S \in SUBSET Nat, 0 \in S, \A n \in S : n + 1 \in S
  PROVE  S = Nat
<1> DEFINE less == OpToRel(<, Nat)
           rest == Nat \ S
<1>1. IsWellFoundedOn(less, Nat)
  BY NatLessThanWellFounded
<1>2. SUFFICES ASSUME rest # {} PROVE FALSE
  OBVIOUS
<1>3. PICK n \in rest : \A m \in rest : <<m, n>> \notin less
  <2>1. rest \in SUBSET Nat
    OBVIOUS
  <2> HIDE DEF less, rest
  <2> QED
    BY <1>1, <1>2, <2>1, WFMin
<1>4. \A m \in rest : ~ (m < n)
  BY <1>3 DEF OpToRel
<1>5. n - 1 \in Nat
  OBVIOUS
<1>6. n - 1 \in S /\ (n - 1) + 1 = n
  BY <1>4, <1>5
<1> QED
  BY <1>3, <1>6

\* The recursive definition in Concat has a solution.
LEMMA ConcatDefined ==
  ASSUME NEW h, NEW sources, Len(sources) \in Nat
  PROVE  \E f : /\ After(f, h, sources, Len(sources))
                /\ Concat(h, sources) = f[Len(sources)]
<1> DEFINE m == Len(sources)
           solved == {n \in Nat : \E f : After(f, h, sources, n)}
<1>1. 0 \in solved
  <2>1. After([k \in {0} |-> [heap |-> h, list |-> NULL]], h, sources, 0)
    BY DEF After
  <2> QED
    BY <2>1
<1>2. ASSUME NEW n \in solved PROVE n + 1 \in solved
  <2>1. PICK f : After(f, h, sources, n)
    OBVIOUS
  <2>2. PICK g : g = [k \in 0 .. n + 1 |->
                        IF k = n + 1 THEN Joined(f[n], sources[n + 1])
                                     ELSE f[k]]
    OBVIOUS
  <2>3. /\ g[n + 1] = Joined(f[n], sources[n + 1])
        /\ \A k \in 0 .. n : g[k] = f[k]
    BY <2>2
  <2>4. ASSUME NEW i \in 1 .. n + 1
        PROVE  g[i] = Joined(g[i - 1], sources[i])
    <3>1. CASE i = n + 1
      <4>1. i - 1 = n /\ n \in 0 .. n
        BY <3>1
      <4> QED
        BY <4>1, <3>1, <2>3
    <3>2. CASE i # n + 1
      <4>1. i \in 1 .. n /\ i \in 0 .. n /\ i - 1 \in 0 .. n
        BY <3>2
      <4> QED
        BY <4>1, <2>1, <2>3 DEF After
    <3> QED
      BY <3>1, <3>2
  <2>5. g[0] = [heap |-> h, list |-> NULL]
    BY <2>1, <2>3 DEF After
  <2>6. After(g, h, sources, n + 1)
    BY <2>4, <2>5 DEF After
  <2>7. n + 1 \in Nat
    OBVIOUS
  <2> QED
    BY <2>6, <2>7
<1>3. solved = Nat
  <2> HIDE DEF solved
  <2> QED
    BY <1>1, <1>2, Induction DEF solved
<1>4. PICK f : After(f, h, sources, m)
  BY <1>3
<1> DEFINE body(g) == [i \in 0 .. m |->
                         IF i = 0 THEN [heap |-> h, list |-> NULL]
                         ELSE Joined(g[i - 1], sources[i])]
           after == CHOOSE g : g = body(g)
<1>5. PICK g : g = [i \in 0 .. m |-> f[i]]
  OBVIOUS
<1>6. g = body(g)
  <2>1. ASSUME NEW i \in 0 .. m
        PROVE  g[i] = IF i = 0 THEN [heap |-> h, list |-> NULL]
                      ELSE Joined(g[i - 1], sources[i])
    <3>1. CASE i = 0
      BY <3>1, <1>4, <1>5 DEF After
    <3>2. CASE i # 0
      <4>1. i \in 1 .. m /\ i - 1 \in 0 .. m
        BY <3>2
      <4> QED
        BY <3>2, <4>1, <1>4, <1>5 DEF After
    <3> QED
      BY <3>1, <3>2
  <2> QED
    BY <2>1, <1>5
<1>7. after = body(after)
  <2> HIDE DEF body
  <2> QED
    BY <1>6
<1>8. Concat(h, sources) = after[m]
  BY DEF Concat
<1> HIDE DEF after
<1>9. After(after, h, sources, m)
  <2>1. after[0] = [heap |-> h, list |-> NULL]
    BY <1>7
  <2>2. ASSUME NEW i \in 1 .. m
        PROVE  after[i] = Joined(after[i - 1], sources[i])
    <3>1. i \in 0 .. m /\ i # 0
      OBVIOUS
    <3> QED
      BY <3>1, <1>7
  <2> QED
    BY <2>1, <2>2 DEF After
<1> QED
  BY <1>8, <1>9

\* quad_list_concat() of lists of the heap is a list of the heap.
LEMMA ConcatIsHeap ==
  ASSUME NEW S, NEW L, NEW h, IsHeap(h, S, L), NEW sources \in Seq(0 .. NextQuad(h))
  PROVE  /\ IsHeap(Concat(h, sources).heap, S, L)
         /\ NextQuad(Concat(h, sources).heap) = NextQuad(h)
         /\ Concat(h, sources).list \in 0 .. NextQuad(h)
<1>1. PICK m \in Nat : m = Len(sources) /\ \A i \in 1 .. m :
                         sources[i] \in 0 .. NextQuad(h)
  <2>1. Len(sources) \in Nat
    OBVIOUS
  <2>2. \A i \in 1 .. Len(sources) : sources[i] \in 0 .. NextQuad(h)
    <3>1. PICK D : D = 0 .. NextQuad(h)
      OBVIOUS
    <3>2. sources \in Seq(D)
      BY <3>1
    <3>3. \A i \in 1 .. Len(sources) : sources[i] \in D
      BY <3>2
    <3> QED
      BY <3>1, <3>3
  <2> QED
    BY <2>1, <2>2
<1>2. PICK f : After(f, h, sources, m) /\ Concat(h, sources) = f[m]
  BY <1>1, ConcatDefined
<1> DEFINE good(r) == /\ r = [heap |-> r.heap, list |-> r.list]
                      /\ IsHeap(r.heap, S, L) /\ NextQuad(r.heap) = NextQuad(h)
                      /\ r.list \in 0 .. NextQuad(h)
           goods == {i \in Nat : i <= m => good(f[i])}
<1>3. 0 \in goods
  <2>1. f[0] = [heap |-> h, list |-> 0] /\ 0 \in 0 .. NextQuad(h)
    BY <1>2 DEF After, NULL, IsHeap, NextQuad
  <2> QED
    BY <2>1
<1>4. ASSUME NEW i \in goods PROVE i + 1 \in goods
  <2>1. SUFFICES ASSUME i + 1 <= m PROVE good(f[i + 1])
    OBVIOUS
  <2>2. /\ good(f[i]) /\ i + 1 \in 1 .. m /\ (i + 1) - 1 = i
    BY <2>1
  <2>3. f[i + 1] = Joined(f[i], sources[i + 1])
    BY <2>2, <1>2 DEF After
  <2>4. PICK r, src : r = f[i] /\ src = sources[i + 1]
    OBVIOUS
  <2>5. src \in 0 .. NextQuad(h)
    BY <2>2, <2>4, <1>1
  <2>6. CASE r.list = NULL
    <3>1. Joined(r, src) = [heap |-> r.heap, list |-> src]
      BY <2>2, <2>4, <2>6 DEF Joined
    <3> QED
      BY <3>1, <2>2, <2>3, <2>4, <2>5
  <2>7. CASE r.list # NULL
    <3>1. Joined(r, src) = [heap |-> Link(r.heap, r.list, src), list |-> r.list]
      BY <2>2, <2>4, <2>7 DEF Joined
    <3>2. /\ IsHeap(Link(r.heap, r.list, src), S, L)
          /\ NextQuad(Link(r.heap, r.list, src)) = NextQuad(h)
      BY <2>2, <2>4, <2>5, LinkIsHeap
    <3> QED
      BY <3>1, <3>2, <2>2, <2>3, <2>4
  <2> QED
    BY <2>6, <2>7
<1>5. goods = Nat
  <2> HIDE DEF goods
  <2> QED
    BY <1>3, <1>4, Induction DEF goods
<1>6. good(f[m])
  BY <1>5
<1> QED
  BY <1>6, <1>2

\* quad_list_push() makes one node.
LEMMA ListPushIsHeap ==
  ASSUME NEW S, NEW L, NEW h, IsHeap(h, S, L), NEW list \in 0 .. NextQuad(h),
         NEW op \in Ops
  PROVE  /\ IsHeap(ListPush(h, list, op).heap, S, L)
         /\ NextQuad(ListPush(h, list, op).heap) = NextQuad(h) + 1
         /\ ListPush(h, list, op).list \in 0 .. NextQuad(h) + 1
<1>1. PICK made : made = QuadNewEmpty(h, op)
  OBVIOUS
<1>2. /\ IsHeap(made, S, L) /\ NextQuad(made) = NextQuad(h) + 1
      /\ NextQuad(h) \in Nat
  BY <1>1, QuadNewIsHeap DEF QuadNewEmpty, OrNone
<1>3. CASE list = NULL
  BY <1>1, <1>2, <1>3 DEF ListPush
<1>4. CASE list # NULL
  <2>1. /\ IsHeap(Link(made, list, NextQuad(made)), S, L)
        /\ NextQuad(Link(made, list, NextQuad(made))) = NextQuad(made)
    BY <1>2, LinkIsHeap
  <2>2. ListPush(h, list, op) =
          [heap |-> Link(made, list, NextQuad(made)), list |-> list]
    BY <1>1, <1>4 DEF ListPush
  <2> QED
    BY <2>1, <2>2, <1>2
<1> QED
  BY <1>3, <1>4

\* More symbols and labels make no heap a bad one.
LEMMA HeapOfMore ==
  ASSUME NEW S, NEW L, NEW T, S \subseteq T, NEW M, L \subseteq M, NEW h,
         IsHeap(h, S, L)
  PROVE  IsHeap(h, T, M)
<1>1. \A q \in QuadOf(S, L) : q \in QuadOf(T, M)
  BY DEF QuadOf, OrNone
<1>2. h.quad \in Seq(QuadOf(T, M))
  <2>1. h.quad \in Seq(QuadOf(S, L))
    BY DEF IsHeap
  <2> HIDE DEF QuadOf
  <2> QED
    BY <2>1, <1>1
<1> QED
  BY <1>2 DEF IsHeap

-----------------------------------------------------------------------------
(***************************************************************************)
(* The kinds of values.                                                    *)
(***************************************************************************)

\* An item of a sentential form.
Item == {"functions", "function", "statements", "statement",
         "variable_declaration", "assignation", "expression", "condition",
         "tag", "tag1", "tag2", "FUNCTION", "EMPTY", "SEQUENCE", "CALL",
         "RETURN", "IF", "IF_ELSE", "WHILE", "DO", "FOR", "DECLARE",
         "DECLARE_ASSIGN", "DECLARE_MATRIX", "ASSIGN", "CONSTANT", "LOOKUP",
         "UNARY", "BINARY", "OR", "AND", "NOT", "TRUE", "FALSE", "TEST",
         "COMPARE"}

\* The %type of a symbol of the grammar; a semantic function has that of the
\* rule it belongs to.  The three tags number different quadruples.
Kinds == {"expr", "tag", "tag1", "tag2", "cond", "code"}

Kind(x) ==
  CASE x \in {"expression", "CONSTANT", "LOOKUP", "UNARY", "BINARY"} -> "expr"
    [] x = "tag" -> "tag"
    [] x = "tag1" -> "tag1"
    [] x = "tag2" -> "tag2"
    [] x \in {"condition", "OR", "AND", "NOT", "TRUE", "FALSE", "TEST",
              "COMPARE"} -> "cond"
    [] x \in {"functions", "function", "FUNCTION"} -> "none"
    [] OTHER -> "code"

\* The kinds of the values a semantic function replaces, $1 first.
Takes(x) ==
  CASE x = "FUNCTION" -> <<"code">>
    [] x = "SEQUENCE" -> <<"code", "code">>
    [] x = "CALL" -> <<"expr">>
    [] x = "IF" -> <<"cond", "tag", "code", "tag">>
    [] x = "IF_ELSE" -> <<"cond", "tag", "code", "tag1", "code", "tag1">>
    [] x = "WHILE" -> <<"tag", "cond", "tag", "code", "tag1">>
    [] x = "DO" -> <<"tag", "code", "cond", "tag">>
    [] x = "FOR" -> <<"code", "tag", "cond", "tag", "code", "tag1", "code",
                      "tag2">>
    [] x = "DECLARE_ASSIGN" -> <<"expr">>
    [] x = "ASSIGN" -> <<"expr", "expr">>
    [] x = "UNARY" -> <<"expr">>
    [] x = "BINARY" -> <<"expr", "expr">>
    [] x = "OR" -> <<"cond", "tag", "cond">>
    [] x = "AND" -> <<"cond", "tag", "cond">>
    [] x = "NOT" -> <<"cond">>
    [] x = "TEST" -> <<"expr">>
    [] x = "COMPARE" -> <<"expr", "expr">>
    [] OTHER -> <<>>

\* What treating an item does to the kinds on the semantic stack.
Effect(x, before, after) ==
  \E base \in Seq(Kinds) :
    /\ before = base \o Takes(x)
    /\ after = IF Kind(x) = "none" THEN base ELSE Append(base, Kind(x))

\* The kinds on the semantic stack, now and after each of the items left.
Stacks(items, kinds) ==
  /\ kinds \in [1 .. Len(items) + 1 -> Seq(Kinds)]
  /\ kinds[Len(items) + 1] = <<>>
  /\ \A i \in 1 .. Len(items) : Effect(items[i], kinds[i], kinds[i + 1])

\* Every value is one of those that its kind allows: F[kind].
Fit(values, kinds, F) ==
  /\ Len(values) = Len(kinds)
  /\ \A k \in 1 .. Len(kinds) : values[k] \in F[kinds[k]]

\* The last n values fit their kinds.
TopFits(values, kinds, n, F) ==
  \A k \in 1 .. n : values[Len(values) - n + k] \in F[kinds[k]]

\* The symbols that number one of the first n quadruples or the next one.
LabelsUpTo(table, n) == {s \in DOMAIN table : table[s].value <= n}

\* How many gotos are made after a tag and before the quadruple it numbers.
Late == [tag |-> 0, tag1 |-> 1, tag2 |-> 2]

\* What a value of each kind can be, among n nodes: an expression stands for a
\* symbol and a tag for a number, without code; only conditions have lists of
\* branches, and a condition has a branch to take.
ValuesOf(table, n) ==
  [kind \in Kinds |->
     {v \in Attribute(DOMAIN table, n) :
        /\ kind = "expr" => v.symbol \in DOMAIN table
        /\ kind \in DOMAIN Late => /\ v.symbol \in LabelsUpTo(table, n + Late[kind])
                                   /\ v.code = NULL
        /\ kind = "cond" => v.yes # {} \/ v.no # {}
        /\ kind # "cond" => v.true_list = NULL /\ v.false_list = NULL}]

\* The heap is one of quadruples of the table's symbols, and the label of a
\* branch numbers one of them or the next one.
WellMade(h, table) ==
  IsHeap(h, DOMAIN table, LabelsUpTo(table, NextQuad(h)))

\* The table has all that it had.
Extends(more, table) ==
  /\ DOMAIN table \subseteq DOMAIN more
  /\ \A s \in DOMAIN table : more[s] = table[s]

StackKept ==
  status = "parsing" =>
    \E kinds : /\ Stacks(work, kinds)
              /\ Fit(vals, kinds[1], ValuesOf(symbol_table, NextQuad(heap)))

\* No label numbers a quadruple behind the RET that main() has pushed.
LabelsKept ==
  status = "done" =>
    IsHeap(heap, Symbols, LabelsUpTo(symbol_table, NextQuad(heap) - 1))

\* The counters name the symbols the compiler has made.
TableKept ==
  /\ temps_count \in Nat
  /\ constants_count \in Nat
  /\ symbol_table \in [Symbols -> [type : Types, value : Nat]]
  /\ Symbols \subseteq SymbolName
  /\ \A n \in Nat : <<"tmp", n>> \in Symbols <=> n < temps_count
  /\ \A n \in Nat : <<"cst", n>> \in Symbols <=> n < constants_count

IInv ==
  /\ work \in Seq(Item)
  /\ growth \in 0 .. MaxGrowth
  /\ vals \in Seq(Attribute(Symbols, NextQuad(heap)))
  /\ WellMade(heap, symbol_table)
  /\ quad_list \in 0 .. NextQuad(heap)
  /\ TableKept
  /\ status \in {"parsing", "aborted", "done"}
  /\ StackKept
  /\ LabelsKept

-----------------------------------------------------------------------------
(***************************************************************************)
(* The rules of the grammar.                                               *)
(***************************************************************************)

\* The item leaves a value and replaces none.
Leaves(x) == x \in Item /\ Takes(x) = <<>> /\ Kind(x) # "none"

\* The last of the n items of a rule replaces the values that the others
\* leave, by one of the kind of the nonterminal.
Wellformed(x, rhs, n) ==
  /\ rhs \in Seq(Item) /\ Len(rhs) = n
  /\ Len(Takes(rhs[n])) = n - 1
  /\ Kind(rhs[n]) = Kind(x)
  /\ \A k \in 1 .. n - 1 : Leaves(rhs[k]) /\ Kind(rhs[k]) = Takes(rhs[n])[k]

\* The kinds, one by one.
LEMMA KindsOf ==
  /\ \A x \in {"expression", "CONSTANT", "LOOKUP", "UNARY", "BINARY"} :
       Kind(x) = "expr"
  /\ \A x \in {"tag", "tag1", "tag2"} : Kind(x) = x
  /\ \A x \in {"condition", "OR", "AND", "NOT", "TRUE", "FALSE", "TEST",
               "COMPARE"} : Kind(x) = "cond"
  /\ \A x \in {"functions", "function", "FUNCTION"} : Kind(x) = "none"
  /\ \A x \in {"statements", "statement", "variable_declaration",
               "assignation", "EMPTY", "SEQUENCE", "CALL", "RETURN", "IF",
               "IF_ELSE", "WHILE", "DO", "FOR", "DECLARE", "DECLARE_ASSIGN",
               "DECLARE_MATRIX", "ASSIGN"} : Kind(x) = "code"
  BY DEF Kind

\* An item that is no semantic function, or one of a rule of no other item,
\* replaces no value.
LEMMA NothingTaken ==
  \A x \in {"functions", "function", "statements", "statement",
            "variable_declaration", "assignation", "expression", "condition",
            "tag", "tag1", "tag2", "EMPTY", "RETURN", "DECLARE",
            "DECLARE_MATRIX", "CONSTANT", "LOOKUP", "TRUE", "FALSE"} :
    Takes(x) = <<>>
  BY DEF Takes

\* What each of the other semantic functions replaces.
LEMMA Taken ==
  /\ Takes("FUNCTION") = <<"code">>
  /\ Takes("SEQUENCE") = <<"code", "code">>
  /\ Takes("CALL") = <<"expr">>
  /\ Takes("IF") = <<"cond", "tag", "code", "tag">>
  /\ Takes("IF_ELSE") = <<"cond", "tag", "code", "tag1", "code", "tag1">>
  /\ Takes("WHILE") = <<"tag", "cond", "tag", "code", "tag1">>
  /\ Takes("DO") = <<"tag", "code", "cond", "tag">>
  /\ Takes("FOR") = <<"code", "tag", "cond", "tag", "code", "tag1", "code",
                      "tag2">>
  /\ Takes("DECLARE_ASSIGN") = <<"expr">>
  /\ Takes("ASSIGN") = <<"expr", "expr">>
  /\ Takes("UNARY") = <<"expr">>
  /\ Takes("BINARY") = <<"expr", "expr">>
  /\ Takes("OR") = <<"cond", "tag", "cond">>
  /\ Takes("AND") = <<"cond", "tag", "cond">>
  /\ Takes("NOT") = <<"cond">>
  /\ Takes("TEST") = <<"expr">>
  /\ Takes("COMPARE") = <<"expr", "expr">>
  BY DEF Takes

\* The rules of functions.
LEMMA RulesOfFunctions ==
  ASSUME NEW rhs \in Grammar["functions"], rhs # <<"function", "functions">>
  PROVE  \E n \in 1 .. 9 : Wellformed("functions", rhs, n)
<1>1. Wellformed("functions", <<"function">>, 1)
  BY KindsOf, NothingTaken, Taken DEF Wellformed, Leaves, Item
<1> QED
  BY <1>1 DEF Grammar

\* The rules of function.
LEMMA RulesOfFunction ==
  ASSUME NEW rhs \in Grammar["function"]
  PROVE  \E n \in 1 .. 9 : Wellformed("function", rhs, n)
<1>1. Wellformed("function", <<"statements", "FUNCTION">>, 2)
  BY KindsOf, NothingTaken, Taken DEF Wellformed, Leaves, Item
<1> QED
  BY <1>1 DEF Grammar

\* The rules of statements.
LEMMA RulesOfStatements ==
  ASSUME NEW rhs \in Grammar["statements"]
  PROVE  \E n \in 1 .. 9 : Wellformed("statements", rhs, n)
<1>1. Wellformed("statements", <<"EMPTY">>, 1)
  BY KindsOf, NothingTaken, Taken DEF Wellformed, Leaves, Item
<1>2. Wellformed("statements", <<"statement">>, 1)
  BY KindsOf, NothingTaken, Taken DEF Wellformed, Leaves, Item
<1>3. Wellformed("statements", <<"statement", "statements", "SEQUENCE">>, 3)
  BY KindsOf, NothingTaken, Taken DEF Wellformed, Leaves, Item
<1> QED
  BY <1>1, <1>2, <1>3 DEF Grammar

\* The rules of statement.
LEMMA RulesOfStatement ==
  ASSUME NEW rhs \in Grammar["statement"]
  PROVE  \E n \in 1 .. 9 : Wellformed("statement", rhs, n)
<1>1. Wellformed("statement", <<"variable_declaration">>, 1)
  BY KindsOf, NothingTaken, Taken DEF Wellformed, Leaves, Item
<1>2. Wellformed("statement", <<"assignation">>, 1)
  BY KindsOf, NothingTaken, Taken DEF Wellformed, Leaves, Item
<1>3. Wellformed("statement", <<"expression", "CALL">>, 2)
  BY KindsOf, NothingTaken, Taken DEF Wellformed, Leaves, Item
<1>4. Wellformed("statement", <<"RETURN">>, 1)
  BY KindsOf, NothingTaken, Taken DEF Wellformed, Leaves, Item
<1>5. Wellformed("statement", <<"condition", "tag", "statements", "tag", "IF">>, 5)
  BY KindsOf, NothingTaken, Taken DEF Wellformed, Leaves, Item
<1>6. Wellformed("statement", <<"condition", "tag", "statements", "tag1",
                               "statements", "tag1", "IF_ELSE">>, 7)
  BY KindsOf, NothingTaken, Taken DEF Wellformed, Leaves, Item
<1>7. Wellformed("statement", <<"tag", "condition", "tag", "statements", "tag1", "WHILE">>, 6)
  BY KindsOf, NothingTaken, Taken DEF Wellformed, Leaves, Item
<1>8. Wellformed("statement", <<"tag", "statements", "condition", "tag", "DO">>, 5)
  BY KindsOf, NothingTaken, Taken DEF Wellformed, Leaves, Item
<1>9. Wellformed("statement",
                 <<"variable_declaration", "tag", "condition", "tag",
                   "assignation", "tag1", "statements", "tag2", "FOR">>, 9)
  BY KindsOf, NothingTaken, Taken DEF Wellformed, Leaves, Item
<1> QED
  BY <1>1, <1>2, <1>3, <1>4, <1>5, <1>6, <1>7, <1>8, <1>9 DEF Grammar

\* The rules of variable_declaration.
LEMMA RulesOfVariableDeclaration ==
  ASSUME NEW rhs \in Grammar["variable_declaration"]
  PROVE  \E n \in 1 .. 9 : Wellformed("variable_declaration", rhs, n)
<1>1. Wellformed("variable_declaration", <<"DECLARE">>, 1)
  BY KindsOf, NothingTaken, Taken DEF Wellformed, Leaves, Item
<1>2. Wellformed("variable_declaration", <<"expression", "DECLARE_ASSIGN">>, 2)
  BY KindsOf, NothingTaken, Taken DEF Wellformed, Leaves, Item
<1>3. Wellformed("variable_declaration", <<"DECLARE_MATRIX">>, 1)
  BY KindsOf, NothingTaken, Taken DEF Wellformed, Leaves, Item
<1> QED
  BY <1>1, <1>2, <1>3 DEF Grammar

\* The rules of assignation.
LEMMA RulesOfAssignation ==
  ASSUME NEW rhs \in Grammar["assignation"]
  PROVE  \E n \in 1 .. 9 : Wellformed("assignation", rhs, n)
<1>1. Wellformed("assignation", <<"LOOKUP", "expression", "ASSIGN">>, 3)
  BY KindsOf, NothingTaken, Taken DEF Wellformed, Leaves, Item
<1> QED
  BY <1>1 DEF Grammar

\* The rules of expression.
LEMMA RulesOfExpression ==
  ASSUME NEW rhs \in Grammar["expression"]
  PROVE  \E n \in 1 .. 9 : Wellformed("expression", rhs, n)
<1>1. Wellformed("expression", <<"CONSTANT">>, 1)
  BY KindsOf, NothingTaken, Taken DEF Wellformed, Leaves, Item
<1>2. Wellformed("expression", <<"LOOKUP">>, 1)
  BY KindsOf, NothingTaken, Taken DEF Wellformed, Leaves, Item
<1>3. Wellformed("expression", <<"expression", "UNARY">>, 2)
  BY KindsOf, NothingTaken, Taken DEF Wellformed, Leaves, Item
<1>4. Wellformed("expression", <<"expression", "expression", "BINARY">>, 3)
  BY KindsOf, NothingTaken, Taken DEF Wellformed, Leaves, Item
<1> QED
  BY <1>1, <1>2, <1>3, <1>4 DEF Grammar

\* The rules of condition.
LEMMA RulesOfCondition ==
  ASSUME NEW rhs \in Grammar["condition"]
  PROVE  \E n \in 1 .. 9 : Wellformed("condition", rhs, n)
<1>1. Wellformed("condition", <<"condition", "tag", "condition", "OR">>, 4)
  BY KindsOf, NothingTaken, Taken DEF Wellformed, Leaves, Item
<1>2. Wellformed("condition", <<"condition", "tag", "condition", "AND">>, 4)
  BY KindsOf, NothingTaken, Taken DEF Wellformed, Leaves, Item
<1>3. Wellformed("condition", <<"condition", "NOT">>, 2)
  BY KindsOf, NothingTaken, Taken DEF Wellformed, Leaves, Item
<1>4. Wellformed("condition", <<"TRUE">>, 1)
  BY KindsOf, NothingTaken, Taken DEF Wellformed, Leaves, Item
<1>5. Wellformed("condition", <<"FALSE">>, 1)
  BY KindsOf, NothingTaken, Taken DEF Wellformed, Leaves, Item
<1>6. Wellformed("condition", <<"expression", "TEST">>, 2)
  BY KindsOf, NothingTaken, Taken DEF Wellformed, Leaves, Item
<1>7. Wellformed("condition", <<"expression", "expression", "COMPARE">>, 3)
  BY KindsOf, NothingTaken, Taken DEF Wellformed, Leaves, Item
<1> QED
  BY <1>1, <1>2, <1>3, <1>4, <1>5, <1>6, <1>7 DEF Grammar

-----------------------------------------------------------------------------
(***************************************************************************)
(* The semantic stack and the text that is left.                           *)
(***************************************************************************)

\* What is replaced and what leaves has a kind.
LEMMA KindsAreKinds ==
  /\ \A x : Takes(x) \in Seq(Kinds)
  /\ \A x : Kind(x) # "none" => Kind(x) \in Kinds
<1>1. ASSUME NEW x PROVE Takes(x) \in Seq(Kinds)
  <2>1. /\ "expr" \in Kinds /\ "tag" \in Kinds /\ "tag1" \in Kinds
        /\ "tag2" \in Kinds /\ "cond" \in Kinds /\ "code" \in Kinds
    BY DEF Kinds
  <2> DEFINE few == {<<>>, <<"code">>, <<"expr">>, <<"cond">>,
                     <<"code", "code">>, <<"expr", "expr">>,
                     <<"cond", "tag", "cond">>}
             more == {<<"cond", "tag", "code", "tag">>,
                      <<"tag", "code", "cond", "tag">>,
                      <<"tag", "cond", "tag", "code", "tag1">>}
             many == {<<"cond", "tag", "code", "tag1", "code", "tag1">>,
                      <<"code", "tag", "cond", "tag", "code", "tag1", "code",
                        "tag2">>}
  <2>2. Takes(x) \in few \cup more \cup many
    BY DEF Takes
  <2>3. few \subseteq Seq(Kinds) /\ more \subseteq Seq(Kinds)
    BY <2>1
  <2>4. many \subseteq Seq(Kinds)
    BY <2>1
  <2> QED
    BY <2>2, <2>3, <2>4, Zenon
<1>2. ASSUME NEW x, Kind(x) # "none" PROVE Kind(x) \in Kinds
  BY <1>2 DEF Kind, Kinds
<1> QED
  BY <1>1, <1>2

\* The items of a rule build upon the stack the values that the last of them
\* replaces.
LEMMA BuiltUp ==
  ASSUME NEW x, NEW rhs, NEW n \in 1 .. 9, Wellformed(x, rhs, n),
         NEW base \in Seq(Kinds), NEW i \in 1 .. n - 1
  PROVE  LET taken == Takes(rhs[n])
         IN  Effect(rhs[i], base \o SubSeq(taken, 1, i - 1),
                    base \o SubSeq(taken, 1, i))
<1>1. PICK taken \in Seq(Kinds) : taken = Takes(rhs[n])
  BY KindsAreKinds
<1>2. PICK kind \in Kinds : kind = taken[i]
  BY <1>1 DEF Wellformed
<1>3. Takes(rhs[i]) = <<>> /\ Kind(rhs[i]) = kind /\ Kind(rhs[i]) # "none"
  BY <1>1, <1>2 DEF Wellformed, Leaves
<1>4. PICK one \in Seq(Kinds) : one = SubSeq(taken, 1, i - 1)
  <2>1. Len(taken) = n - 1 /\ i - 1 \in 0 .. Len(taken)
    BY <1>1 DEF Wellformed
  <2>2. \A k \in 1 .. i - 1 : taken[k] \in Kinds
    BY <2>1
  <2>3. 1 \in Int /\ i - 1 \in Int
    OBVIOUS
  <2>4. SubSeq(taken, 1, i - 1) \in Seq(Kinds)
    BY <2>2, <2>3, SubSeqProperties
  <2> QED
    BY <2>4
<1>5. SubSeq(taken, 1, i) = Append(one, kind)
  BY <1>1, <1>2, <1>4 DEF Wellformed
<1>6. /\ base \o one \in Seq(Kinds)
      /\ (base \o one) \o <<>> = base \o one
      /\ Append(base \o one, kind) = base \o Append(one, kind)
  OBVIOUS
<1> QED
  BY <1>1, <1>3, <1>4, <1>5, <1>6 DEF Effect

\* Putting a rule in the place of its nonterminal builds the same stack.
LEMMA Replacing ==
  ASSUME NEW items \in Seq(Item), items # <<>>, NEW kinds, Stacks(items, kinds),
         Takes(Head(items)) = <<>>,
         NEW rhs, NEW n \in 1 .. 9, Wellformed(Head(items), rhs, n)
  PROVE  /\ rhs \o Tail(items) \in Seq(Item)
         /\ \E longer : /\ Stacks(rhs \o Tail(items), longer)
                        /\ longer[1] = kinds[1]
<1>1. PICK m \in Nat : Len(items) = m + 1
  <2>1. Len(items) \in Nat /\ Len(items) # 0
    OBVIOUS
  <2> QED
    BY <2>1
<1>2. PICK text : text = rhs \o Tail(items)
  OBVIOUS
<1>3. /\ rhs \in Seq(Item) /\ Len(rhs) = n
      /\ Tail(items) \in Seq(Item) /\ Len(Tail(items)) = m
      /\ Head(items) = items[1]
      /\ \A i \in 1 .. m : Tail(items)[i] = items[i + 1]
  BY <1>1 DEF Wellformed
<1>4. /\ text \in Seq(Item) /\ Len(text) = n + m
      /\ \A i \in 1 .. n : text[i] = rhs[i]
      /\ \A i \in 1 .. m : text[n + i] = items[i + 1]
  BY <1>2, <1>3
<1>5. PICK taken \in Seq(Kinds) : taken = Takes(rhs[n]) /\ Len(taken) = n - 1
  BY KindsAreKinds DEF Wellformed
<1>6. /\ kinds \in [1 .. m + 2 -> Seq(Kinds)] /\ kinds[m + 2] = <<>>
      /\ \A i \in 1 .. m + 1 : Effect(items[i], kinds[i], kinds[i + 1])
  <2>1. Len(items) + 1 = m + 2
    BY <1>1
  <2> QED
    BY <2>1, <1>1 DEF Stacks
<1>7. PICK base \in Seq(Kinds) :
        /\ base = kinds[1]
        /\ kinds[2] = IF Kind(Head(items)) = "none" THEN base
                      ELSE Append(base, Kind(Head(items)))
  <2>1. Effect(items[1], kinds[1], kinds[2])
    BY <1>6
  <2>2. \A base \in Seq(Kinds) : base \o <<>> = base
    OBVIOUS
  <2> QED
    BY <2>1, <2>2, <1>3 DEF Effect
<1> DEFINE built(i) == base \o SubSeq(taken, 1, i - 1)
           longer == [i \in 1 .. n + m + 1 |->
                        IF i <= n THEN built(i) ELSE kinds[i - n + 1]]
<1>8. \A i \in 1 .. n : built(i) \in Seq(Kinds)
  <2>1. ASSUME NEW i \in 1 .. n PROVE SubSeq(taken, 1, i - 1) \in Seq(Kinds)
    <3>1. \A k \in 1 .. i - 1 : taken[k] \in Kinds
      BY <1>5
    <3>2. 1 \in Int /\ i - 1 \in Int
      OBVIOUS
    <3> QED
      BY <3>1, <3>2, SubSeqProperties
  <2> QED
    BY <2>1
<1>9. built(1) = kinds[1]
  <2>1. SubSeq(taken, 1, 0) = <<>> /\ base \o <<>> = base
    BY SubSeqEmpty
  <2> QED
    BY <2>1, <1>7
<1>10. built(n) = base \o taken
  <2>1. SubSeq(taken, 1, n - 1) = taken
    BY <1>5
  <2> QED
    BY <2>1
<1> HIDE DEF built
<1>11. /\ longer \in [1 .. n + m + 1 -> Seq(Kinds)]
       /\ \A i \in 1 .. n : longer[i] = built(i)
       /\ \A i \in 1 .. m + 1 : longer[n + i] = kinds[i + 1]
  <2>1. ASSUME NEW i \in 1 .. n + m + 1, ~ (i <= n)
        PROVE  kinds[i - n + 1] \in Seq(Kinds)
    <3>1. i - n + 1 \in 1 .. m + 2
      BY <2>1
    <3> QED
      BY <3>1, <1>6
  <2>2. \A i \in 1 .. n + m + 1 : i <= n => i \in 1 .. n
    OBVIOUS
  <2>3. longer \in [1 .. n + m + 1 -> Seq(Kinds)]
    BY <2>1, <2>2, <1>8
  <2>4. \A i \in 1 .. n : longer[i] = built(i)
    OBVIOUS
  <2>5. ASSUME NEW i \in 1 .. m + 1
        PROVE  longer[n + i] = kinds[i + 1]
    <3>1. n + i \in 1 .. n + m + 1 /\ ~ (n + i <= n) /\ (n + i) - n + 1 = i + 1
      OBVIOUS
    <3> QED
      BY <3>1
  <2> QED
    BY <2>3, <2>4, <2>5
<1> HIDE DEF longer
<1>12. longer[n + m + 1] = <<>>
  <2>1. m + 1 \in 1 .. m + 1 /\ n + (m + 1) = n + m + 1 /\ (m + 1) + 1 = m + 2
    OBVIOUS
  <2> QED
    BY <2>1, <1>6, <1>11
<1>13. ASSUME NEW i \in 1 .. n + m
       PROVE  Effect(text[i], longer[i], longer[i + 1])
  <2>1. CASE i < n
    <3>1. i \in 1 .. n - 1 /\ i \in 1 .. n /\ i + 1 \in 1 .. n /\ (i + 1) - 1 = i
      BY <2>1
    <3>2. Effect(rhs[i], built(i), built(i + 1))
      BY <3>1, <1>5, BuiltUp DEF built
    <3> QED
      BY <3>1, <3>2, <1>4, <1>11
  <2>2. CASE i = n
    <3>1. Kind(rhs[n]) = Kind(Head(items))
      BY DEF Wellformed
    <3>2. longer[n + 1] = kinds[2]
      <4>1. 1 \in 1 .. m + 1
        OBVIOUS
      <4> QED
        BY <4>1, <1>11
    <3>3. longer[n] = base \o taken /\ text[n] = rhs[n]
      BY <1>4, <1>10, <1>11
    <3> QED
      BY <2>2, <3>1, <3>2, <3>3, <1>5, <1>7 DEF Effect
  <2>3. CASE i > n
    <3>1. PICK k \in 1 .. m : i = n + k
      <4>1. i - n \in 1 .. m /\ i = n + (i - n)
        BY <2>3
      <4> QED
        BY <4>1
    <3>2. k \in 1 .. m + 1 /\ k + 1 \in 1 .. m + 1 /\ i + 1 = n + (k + 1)
      BY <3>1
    <3>3. /\ text[i] = items[k + 1] /\ longer[i] = kinds[k + 1]
          /\ longer[i + 1] = kinds[(k + 1) + 1]
      BY <3>1, <3>2, <1>4, <1>11
    <3> QED
      BY <3>2, <3>3, <1>6
  <2> QED
    BY <2>1, <2>2, <2>3
<1>14. Stacks(text, longer)
  BY <1>4, <1>11, <1>12, <1>13 DEF Stacks
<1>15. longer[1] = kinds[1]
  <2>1. 1 \in 1 .. n
    OBVIOUS
  <2> QED
    BY <2>1, <1>9, <1>11
<1> QED
  BY <1>2, <1>4, <1>14, <1>15

\* The rule `functions : function functions' leaves no value at all.
LEMMA ReplacingFunctions ==
  ASSUME NEW items \in Seq(Item), items # <<>>, NEW kinds, Stacks(items, kinds),
         Head(items) = "functions"
  PROVE  LET text == <<"function", "functions">> \o Tail(items)
         IN  /\ text \in Seq(Item)
             /\ \E longer : Stacks(text, longer) /\ longer[1] = kinds[1]
<1>1. PICK m \in Nat : Len(items) = m + 1
  <2>1. Len(items) \in Nat /\ Len(items) # 0
    OBVIOUS
  <2> QED
    BY <2>1
<1>2. PICK text : text = <<"function", "functions">> \o Tail(items)
  OBVIOUS
<1>3. /\ <<"function", "functions">> \in Seq(Item)
      /\ Tail(items) \in Seq(Item) /\ Len(Tail(items)) = m
      /\ items[1] = "functions"
      /\ \A i \in 1 .. m : Tail(items)[i] = items[i + 1]
  BY <1>1 DEF Item
<1>4. /\ text \in Seq(Item) /\ Len(text) = m + 2
      /\ text[1] = "function" /\ text[2] = "functions"
      /\ \A i \in 1 .. m : text[i + 2] = items[i + 1]
  BY <1>2, <1>3
<1>5. /\ kinds \in [1 .. m + 2 -> Seq(Kinds)] /\ kinds[m + 2] = <<>>
      /\ \A i \in 1 .. m + 1 : Effect(items[i], kinds[i], kinds[i + 1])
  <2>1. Len(items) + 1 = m + 2
    BY <1>1
  <2> QED
    BY <2>1, <1>1 DEF Stacks
<1>6. \A x \in {"function", "functions"} : Takes(x) = <<>> /\ Kind(x) = "none"
  BY KindsOf, NothingTaken
<1>7. kinds[1] = kinds[2] /\ kinds[1] \in Seq(Kinds)
  <2>1. Effect(items[1], kinds[1], kinds[2])
    BY <1>5
  <2>2. \A base \in Seq(Kinds) : base \o <<>> = base
    OBVIOUS
  <2> QED
    BY <2>1, <2>2, <1>3, <1>6 DEF Effect
<1>8. \A x \in {"function", "functions"} : Effect(x, kinds[1], kinds[1])
  <2>1. kinds[1] \o <<>> = kinds[1]
    BY <1>7
  <2> QED
    BY <2>1, <1>6, <1>7 DEF Effect
<1>9. PICK longer : longer = [i \in 1 .. m + 3 |-> IF i = 1 THEN kinds[1]
                                                   ELSE kinds[i - 1]]
  OBVIOUS
<1>10. /\ longer \in [1 .. m + 3 -> Seq(Kinds)]
       /\ longer[1] = kinds[1] /\ longer[2] = kinds[1] /\ longer[3] = kinds[1]
       /\ \A i \in 2 .. m + 3 : longer[i] = kinds[i - 1]
  <2>1. \A i \in 2 .. m + 3 : i - 1 \in 1 .. m + 2
    OBVIOUS
  <2> QED
    BY <2>1, <1>5, <1>7, <1>9
<1>11. ASSUME NEW i \in 1 .. m + 2
       PROVE  Effect(text[i], longer[i], longer[i + 1])
  <2>1. CASE i \in {1, 2}
    BY <2>1, <1>4, <1>8, <1>10
  <2>2. CASE i > 2
    <3>1. PICK k \in 1 .. m : i = k + 2
      <4>1. i - 2 \in 1 .. m /\ i = (i - 2) + 2
        BY <2>2
      <4> QED
        BY <4>1
    <3>2. /\ k + 1 \in 1 .. m + 1 /\ i \in 2 .. m + 3 /\ i + 1 \in 2 .. m + 3
          /\ i - 1 = k + 1 /\ (i + 1) - 1 = (k + 1) + 1
      BY <3>1
    <3> QED
      BY <3>1, <3>2, <1>4, <1>5, <1>10
  <2> QED
    BY <2>1, <2>2
<1>12. longer[m + 3] = <<>>
  <2>1. m + 3 \in 2 .. m + 3 /\ (m + 3) - 1 = m + 2
    OBVIOUS
  <2> QED
    BY <2>1, <1>5, <1>10
<1>13. Stacks(text, longer)
  <2>1. Len(text) + 1 = m + 3
    BY <1>4
  <2> QED
    BY <2>1, <1>4, <1>10, <1>11, <1>12 DEF Stacks
<1> QED
  BY <1>2, <1>4, <1>10, <1>13

\* What a semantic function does to the kinds.
LEMMA Popping ==
  ASSUME NEW items \in Seq(Item), items # <<>>, NEW kinds, Stacks(items, kinds)
  PROVE  \E base, after :
           /\ base \in Seq(Kinds)
           /\ kinds[1] = base \o Takes(Head(items))
           /\ Stacks(Tail(items), after)
           /\ after[1] = IF Kind(Head(items)) = "none" THEN base
                         ELSE Append(base, Kind(Head(items)))
<1>1. PICK m \in Nat : Len(items) = m + 1
  <2>1. Len(items) \in Nat /\ Len(items) # 0
    OBVIOUS
  <2> QED
    BY <2>1
<1>2. /\ Tail(items) \in Seq(Item) /\ Len(Tail(items)) = m
      /\ Head(items) = items[1]
      /\ \A i \in 1 .. m : Tail(items)[i] = items[i + 1]
  BY <1>1
<1>3. /\ kinds \in [1 .. m + 2 -> Seq(Kinds)] /\ kinds[m + 2] = <<>>
      /\ \A i \in 1 .. m + 1 : Effect(items[i], kinds[i], kinds[i + 1])
  <2>1. Len(items) + 1 = m + 2
    BY <1>1
  <2> QED
    BY <2>1, <1>1 DEF Stacks
<1>4. PICK base \in Seq(Kinds) :
        /\ kinds[1] = base \o Takes(Head(items))
        /\ kinds[2] = IF Kind(Head(items)) = "none" THEN base
                      ELSE Append(base, Kind(Head(items)))
  <2>1. 1 \in 1 .. m + 1
    OBVIOUS
  <2>2. Effect(Head(items), kinds[1], kinds[2])
    BY <2>1, <1>2, <1>3
  <2> QED
    BY <2>2 DEF Effect
<1>5. PICK after : after = [i \in 1 .. m + 1 |-> kinds[i + 1]]
  OBVIOUS
<1>6. Stacks(Tail(items), after) /\ after[1] = kinds[2]
  <2>1. after \in [1 .. m + 1 -> Seq(Kinds)] /\ after[m + 1] = <<>>
    <3>1. \A i \in 1 .. m + 1 : i + 1 \in 1 .. m + 2
      OBVIOUS
    <3> QED
      BY <3>1, <1>3, <1>5
  <2>2. ASSUME NEW i \in 1 .. m
        PROVE  Effect(Tail(items)[i], after[i], after[i + 1])
    <3>1. i \in 1 .. m + 1 /\ i + 1 \in 1 .. m + 1
      OBVIOUS
    <3> QED
      BY <3>1, <1>2, <1>3, <1>5
  <2>3. after[1] = kinds[2]
    BY <1>5
  <2> QED
    BY <2>1, <2>2, <2>3, <1>2 DEF Stacks
<1> QED
  BY <1>4, <1>6

\* The values that a semantic function replaces are there and fit their kinds;
\* a value that fits its own kind fits in their place.
LEMMA Reducing ==
  ASSUME NEW items \in Seq(Item), items # <<>>, NEW kinds, Stacks(items, kinds),
         NEW A, NEW values \in Seq(A), NEW F, Fit(values, kinds[1], F),
         NEW n \in Nat, n = Len(Takes(Head(items)))
  PROVE  LET below == SubSeq(values, 1, Len(values) - n)
         IN  /\ Tail(items) \in Seq(Item)
             /\ n <= Len(values)
             /\ TopFits(values, Takes(Head(items)), n, F)
             /\ below \in Seq(A)
             /\ Kind(Head(items)) = "none" =>
                  \E after : Stacks(Tail(items), after) /\ Fit(below, after[1], F)
             /\ Kind(Head(items)) # "none" =>
                  \A attr \in F[Kind(Head(items))] :
                    \E after : /\ Stacks(Tail(items), after)
                              /\ Fit(Append(below, attr), after[1], F)
<1>1. Tail(items) \in Seq(Item)
  OBVIOUS
<1>2. PICK taken \in Seq(Kinds) : taken = Takes(Head(items)) /\ Len(taken) = n
  BY KindsAreKinds
<1>3. PICK base, after :
        /\ base \in Seq(Kinds)
        /\ kinds[1] = base \o taken
        /\ Stacks(Tail(items), after)
        /\ after[1] = IF Kind(Head(items)) = "none" THEN base
                      ELSE Append(base, Kind(Head(items)))
  BY <1>2, Popping
<1>4. PICK b \in Nat : b = Len(base)
  BY <1>3
<1>5. /\ Len(values) = b + n
      /\ \A k \in 1 .. b : kinds[1][k] = base[k]
      /\ \A k \in 1 .. n : kinds[1][b + k] = taken[k]
  BY <1>2, <1>3, <1>4 DEF Fit
<1>6. Len(values) - n = b /\ n <= Len(values)
  BY <1>5
<1>7. ASSUME NEW k \in 1 .. n
      PROVE  values[b + k] \in F[taken[k]]
  <2>1. b + k \in 1 .. Len(values) /\ b + k \in 1 .. Len(kinds[1])
    BY <1>5 DEF Fit
  <2>2. kinds[1][b + k] = taken[k]
    BY <1>5
  <2>3. values[b + k] \in F[kinds[1][b + k]]
    BY <2>1 DEF Fit
  <2> QED
    BY <2>2, <2>3
<1>8. PICK below : below = SubSeq(values, 1, b)
  OBVIOUS
<1>9. /\ below \in Seq(A) /\ Len(below) = b
       /\ \A k \in 1 .. b : below[k] = values[k]
  BY <1>5, <1>8
<1>10. Fit(below, base, F)
  <2>1. ASSUME NEW k \in 1 .. b PROVE below[k] \in F[base[k]]
    <3>1. k \in 1 .. Len(kinds[1])
      BY <1>5 DEF Fit
    <3> QED
      BY <3>1, <1>5, <1>9 DEF Fit
  <2> QED
    BY <2>1, <1>4, <1>9 DEF Fit
<1>11. ASSUME Kind(Head(items)) # "none", NEW attr \in F[Kind(Head(items))]
       PROVE  Fit(Append(below, attr), Append(base, Kind(Head(items))), F)
  <2>1. PICK kind \in Kinds : kind = Kind(Head(items))
    BY <1>11, KindsAreKinds
  <2>2. PICK more, kinds_2 : more = Append(below, attr) /\ kinds_2 = Append(base, kind)
    OBVIOUS
  <2>3. /\ Len(more) = b + 1 /\ more[b + 1] = attr
        /\ \A k \in 1 .. b : more[k] = below[k]
    BY <2>2, <1>9
  <2>4. /\ Len(kinds_2) = b + 1 /\ kinds_2[b + 1] = kind
        /\ \A k \in 1 .. b : kinds_2[k] = base[k]
    BY <2>2, <1>4
  <2>5. ASSUME NEW k \in 1 .. b + 1 PROVE more[k] \in F[kinds_2[k]]
    <3>1. CASE k = b + 1
      BY <3>1, <2>1, <2>3, <2>4, <1>11
    <3>2. CASE k # b + 1
      <4>1. k \in 1 .. b
        BY <3>2
      <4> QED
        BY <4>1, <2>3, <2>4, <1>4, <1>10 DEF Fit
    <3> QED
      BY <3>1, <3>2
  <2> QED
    BY <2>1, <2>2, <2>3, <2>4, <2>5 DEF Fit
<1>12. TopFits(values, taken, n, F)
  BY <1>6, <1>7 DEF TopFits
<1> QED
  BY <1>1, <1>2, <1>3, <1>6, <1>8, <1>9, <1>10, <1>11, <1>12

-----------------------------------------------------------------------------
(***************************************************************************)
(* What the steps have in common.                                          *)
(***************************************************************************)

\* More symbols and more nodes give more labels.
LEMMA LabelsMore ==
  ASSUME NEW table, \A s \in DOMAIN table : table[s].value \in Nat,
         NEW more, Extends(more, table), NEW m \in Nat, NEW n \in Nat, m <= n
  PROVE  LabelsUpTo(table, m) \subseteq LabelsUpTo(more, n)
  BY DEF LabelsUpTo, Extends

\* A heap is well-made whatever is added to the table, and its labels stay
\* good when nodes are added.
LEMMA WellMadeMore ==
  ASSUME NEW h, NEW table, WellMade(h, table),
         \A s \in DOMAIN table : table[s].value \in Nat,
         NEW more, Extends(more, table), NEW n \in Nat, NextQuad(h) <= n
  PROVE  IsHeap(h, DOMAIN more, LabelsUpTo(more, n)) /\ NextQuad(h) \in Nat
<1>1. NextQuad(h) \in Nat
  BY DEF WellMade, IsHeap, NextQuad
<1>2. LabelsUpTo(table, NextQuad(h)) \subseteq LabelsUpTo(more, n)
  BY <1>1, LabelsMore
<1>3. IsHeap(h, DOMAIN table, LabelsUpTo(table, NextQuad(h)))
  BY DEF WellMade
<1>4. DOMAIN table \subseteq DOMAIN more
  BY DEF Extends
<1> QED
  BY <1>1, <1>2, <1>3, <1>4, HeapOfMore

\* More symbols and more nodes allow more values.
LEMMA ValuesMore ==
  ASSUME NEW table, \A s \in DOMAIN table : table[s].value \in Nat,
         NEW more, Extends(more, table), NEW m \in Nat, NEW n \in Nat, m <= n
  PROVE  /\ Attribute(DOMAIN table, m) \subseteq Attribute(DOMAIN more, n)
         /\ \A kind \in Kinds :
              ValuesOf(table, m)[kind] \subseteq ValuesOf(more, n)[kind]
<1>1. Attribute(DOMAIN table, m) \subseteq Attribute(DOMAIN more, n)
  <2>1. 0 .. m \subseteq 0 .. n
    OBVIOUS
  <2>2. OrNone(DOMAIN table) \subseteq OrNone(DOMAIN more)
    BY DEF OrNone, Extends
  <2> QED
    BY <2>1, <2>2 DEF Attribute
<1>2. ASSUME NEW kind \in DOMAIN Late
      PROVE  LabelsUpTo(table, m + Late[kind])
               \subseteq LabelsUpTo(more, n + Late[kind])
  <2>1. PICK late \in Nat : late = Late[kind]
    BY DEF Late
  <2>2. m + late \in Nat /\ n + late \in Nat /\ m + late <= n + late
    OBVIOUS
  <2> QED
    BY <2>1, <2>2, LabelsMore
<1>3. ASSUME NEW kind \in Kinds, NEW v \in ValuesOf(table, m)[kind]
      PROVE  v \in ValuesOf(more, n)[kind]
  <2>1. /\ v \in Attribute(DOMAIN table, m)
        /\ kind = "expr" => v.symbol \in DOMAIN table
        /\ kind \in DOMAIN Late => v.symbol \in LabelsUpTo(table, m + Late[kind])
        /\ kind \in DOMAIN Late => v.code = NULL
        /\ kind = "cond" => v.yes # {} \/ v.no # {}
        /\ kind # "cond" => v.true_list = NULL /\ v.false_list = NULL
    BY <1>3 DEF ValuesOf
  <2>2. /\ v \in Attribute(DOMAIN more, n)
        /\ kind = "expr" => v.symbol \in DOMAIN more
    BY <2>1, <1>1 DEF Extends
  <2>3. kind \in DOMAIN Late => v.symbol \in LabelsUpTo(more, n + Late[kind])
    BY <2>1, <1>2
  <2> QED
    BY <2>1, <2>2, <2>3 DEF ValuesOf
<1> QED
  BY <1>1, <1>3

\* Values that fit their kinds fit larger kinds.
LEMMA FitMore ==
  ASSUME NEW values, NEW kinds \in Seq(Kinds), NEW F, Fit(values, kinds, F),
         NEW G, \A kind \in Kinds : F[kind] \subseteq G[kind]
  PROVE  Fit(values, kinds, G)
  BY DEF Fit

\* The stack of the kinds is one.
LEMMA FirstOfStacks ==
  ASSUME NEW items \in Seq(Item), NEW kinds, Stacks(items, kinds)
  PROVE  kinds[1] \in Seq(Kinds)
<1>1. Len(items) \in Nat /\ 1 \in 1 .. Len(items) + 1
  OBVIOUS
<1> QED
  BY <1>1 DEF Stacks

\* The parser starts with nothing on its stack, and leaves nothing on it.
LEMMA InitIInv == Init => IInv
<1> SUFFICES ASSUME Init PROVE IInv
  OBVIOUS
<1>1. /\ work = <<"functions">> /\ growth = MaxGrowth /\ vals = <<>>
      /\ heap = [quad |-> <<>>, hung |-> FALSE] /\ quad_list = 0
      /\ symbol_table = <<>> /\ temps_count = 0 /\ constants_count = 0
      /\ status = "parsing"
  BY DEF Init, EmptyHeap, NULL
<1>2. PICK S : S = Symbols
  OBVIOUS
<1>3. S = {}
  BY <1>1, <1>2 DEF Symbols
<1>4. WellMade(heap, symbol_table) /\ NextQuad(heap) = 0
  BY <1>1 DEF WellMade, IsHeap, NextQuad
<1>5. TableKept
  <2>1. symbol_table \in [Symbols -> [type : Types, value : Nat]]
    BY <1>1 DEF Symbols
  <2> QED
    BY <2>1, <1>1, <1>2, <1>3 DEF TableKept
<1>6. work \in Seq(Item) /\ Len(work) = 1 /\ work[1] = "functions"
  BY <1>1 DEF Item
<1>7. StackKept
  <2>1. PICK kinds : kinds = [i \in 1 .. 2 |-> <<>>]
    OBVIOUS
  <2>2. /\ kinds \in [1 .. 2 -> Seq(Kinds)] /\ kinds[1] = <<>> /\ kinds[2] = <<>>
    BY <2>1
  <2>3. Takes("functions") = <<>> /\ Kind("functions") = "none"
    BY KindsOf, NothingTaken
  <2>4. Effect("functions", <<>>, <<>>)
    <3>1. <<>> \in Seq(Kinds) /\ <<>> \o <<>> = <<>>
      OBVIOUS
    <3> QED
      BY <3>1, <2>3 DEF Effect
  <2>5. Stacks(work, kinds)
    BY <2>2, <2>4, <1>6 DEF Stacks
  <2>6. Fit(vals, kinds[1], ValuesOf(symbol_table, NextQuad(heap)))
    BY <2>2, <1>1 DEF Fit
  <2> QED
    BY <2>5, <2>6 DEF StackKept
<1>8. growth \in 0 .. MaxGrowth
  BY <1>1, FrontendAssumption
<1>9. LabelsKept
  BY <1>1 DEF LabelsKept
<1> QED
  BY <1>1, <1>2, <1>4, <1>5, <1>6, <1>7, <1>8, <1>9 DEF IInv

\* Every rule is well-formed but the one that has two functions.
LEMMA RulesWellformed ==
  ASSUME NEW x \in DOMAIN Grammar, NEW rhs \in Grammar[x],
         rhs # <<"function", "functions">>
  PROVE  \E n \in 1 .. 9 : Wellformed(x, rhs, n)
<1>1. x \in {"functions", "function", "statements", "statement",
             "variable_declaration", "assignation", "expression", "condition"}
  BY DEF Grammar
<1> QED
  BY <1>1, RulesOfFunctions, RulesOfFunction, RulesOfStatements,
     RulesOfStatement, RulesOfVariableDeclaration, RulesOfAssignation,
     RulesOfExpression, RulesOfCondition, Zenon

\* Going on with a rule leaves the kinds on the stack.
LEMMA Deriving ==
  ASSUME IInv, Derive, NEW kinds, Stacks(work, kinds)
  PROVE  /\ work' \in Seq(Item)
         /\ \E longer : Stacks(work', longer) /\ longer[1] = kinds[1]
<1>1. PICK rhs \in Grammar[Head(work)] : work' = rhs \o Tail(work)
  BY DEF Derive
<1>2. work \in Seq(Item) /\ work # <<>> /\ Head(work) \in DOMAIN Grammar
  BY DEF Derive, Parsing, IInv
<1>3. CASE rhs = <<"function", "functions">>
  <2>1. \A x \in DOMAIN Grammar : <<"function", "functions">> \in Grammar[x] => x = "functions"
    BY DEF Grammar
  <2>2. Head(work) = "functions"
    BY <2>1, <1>1, <1>2, <1>3
  <2> QED
    BY <2>2, <1>1, <1>2, <1>3, ReplacingFunctions
<1>4. CASE rhs # <<"function", "functions">>
  <2>1. PICK n \in 1 .. 9 : Wellformed(Head(work), rhs, n)
    BY <1>2, <1>4, RulesWellformed
  <2>2. Takes(Head(work)) = <<>>
    <3>1. Head(work) \in {"functions", "function", "statements", "statement",
            "variable_declaration", "assignation", "expression", "condition"}
      BY <1>2 DEF Grammar
    <3> QED
      BY <3>1, NothingTaken
  <2> QED
    BY <2>1, <2>2, <1>1, <1>2, Replacing
<1> QED
  BY <1>3, <1>4

\* The text goes on.
LEMMA DeriveStep == ASSUME IInv, Derive PROVE IInv'
<1>1. PICK rhs \in Grammar[Head(work)] :
        /\ Growth(Head(work), rhs) <= growth
        /\ growth' = growth - Growth(Head(work), rhs)
        /\ work' = rhs \o Tail(work)
  BY DEF Derive
<1>2. /\ status = "parsing" /\ work # <<>> /\ Head(work) \in DOMAIN Grammar
      /\ vals' = vals /\ heap' = heap /\ quad_list' = quad_list
      /\ symbol_table' = symbol_table /\ temps_count' = temps_count
      /\ constants_count' = constants_count /\ status' = status
  BY DEF Derive, Parsing, program
<1>3. growth' \in 0 .. MaxGrowth
  <2>1. Growth(Head(work), rhs) \in {0, 1}
    BY DEF Growth
  <2> QED
    BY <2>1, <1>1, FrontendAssumption DEF IInv
<1>4. PICK kinds :
        /\ Stacks(work, kinds)
        /\ Fit(vals, kinds[1], ValuesOf(symbol_table, NextQuad(heap)))
  BY <1>2 DEF IInv, StackKept
<1>5. /\ work' \in Seq(Item)
      /\ \E longer : Stacks(work', longer) /\ longer[1] = kinds[1]
  BY <1>4, Deriving
<1>6. StackKept'
  <2>1. PICK longer : Stacks(work', longer) /\ longer[1] = kinds[1]
    BY <1>5
  <2>2. Fit(vals', longer[1], ValuesOf(symbol_table', NextQuad(heap')))
    BY <2>1, <1>2, <1>4
  <2> QED
    BY <2>1, <2>2 DEF StackKept
<1>7. TableKept' /\ LabelsKept'
  BY <1>2 DEF IInv, TableKept, Symbols, LabelsKept
<1> QED
  BY <1>2, <1>3, <1>5, <1>6, <1>7 DEF IInv, Symbols

\* What the table and the heap are when the invariant holds.
LEMMA ProgramIs ==
  ASSUME IInv
  PROVE  /\ NextQuad(heap) \in Nat /\ WellMade(heap, symbol_table)
         /\ \A s \in DOMAIN symbol_table : symbol_table[s].value \in Nat
         /\ \A s \in DOMAIN symbol_table : symbol_table[s].type \in Types
<1>1. NextQuad(heap) \in Nat
  BY DEF IInv, WellMade, IsHeap, NextQuad
<1>2. symbol_table \in [DOMAIN symbol_table -> [type : Types, value : Nat]]
  BY DEF IInv, TableKept, Symbols
<1> QED
  BY <1>1, <1>2 DEF IInv

\* What $1 to $n are when the parser reduces.
LEMMA ValuesAre ==
  ASSUME IInv, NEW f, Reduce(f), NEW n \in Nat, n = Len(Takes(f))
  PROVE  /\ status = "parsing" /\ n <= Len(vals)
         /\ Below(n) \in Seq(Attribute(Symbols, NextQuad(heap)))
         /\ \A k \in 1 .. n :
              Value(n, k) \in ValuesOf(symbol_table, NextQuad(heap))[Takes(f)[k]]
<1>1. status = "parsing" /\ work # <<>> /\ Head(work) = f
  BY DEF Reduce, Parsing
<1>2. PICK F : F = ValuesOf(symbol_table, NextQuad(heap))
  OBVIOUS
<1>3. PICK kinds : Stacks(work, kinds) /\ Fit(vals, kinds[1], F)
  BY <1>1, <1>2 DEF IInv, StackKept
<1>4. PICK A : A = Attribute(Symbols, NextQuad(heap))
  OBVIOUS
<1>5. work \in Seq(Item) /\ vals \in Seq(A)
  BY <1>4 DEF IInv
<1>6. /\ n <= Len(vals) /\ SubSeq(vals, 1, Len(vals) - n) \in Seq(A)
      /\ TopFits(vals, Takes(f), n, F)
  <2>1. n = Len(Takes(Head(work)))
    BY <1>1
  <2> QED
    BY <2>1, <1>1, <1>3, <1>5, Reducing
<1> QED
  BY <1>1, <1>2, <1>4, <1>6 DEF Value, Below, TopFits

\* The lists of a value are lists of the heap, and its symbol is one of the
\* program if it has one.
LEMMA PartsAre ==
  ASSUME IInv, NEW f, Reduce(f), NEW n \in Nat, n = Len(Takes(f)),
         NEW k \in 1 .. n
  PROVE  /\ Value(n, k) \in Attribute(Symbols, NextQuad(heap))
         /\ Value(n, k).code \in 0 .. NextQuad(heap)
         /\ Value(n, k).true_list \in 0 .. NextQuad(heap)
         /\ Value(n, k).false_list \in 0 .. NextQuad(heap)
         /\ Value(n, k).symbol \in OrNone(Symbols)
         /\ Value(n, k).yes \in SUBSET Nat /\ Value(n, k).no \in SUBSET Nat
         /\ Takes(f)[k] = "expr" => Value(n, k).symbol \in Symbols
         /\ Takes(f)[k] \in DOMAIN Late =>
              Value(n, k).symbol \in LabelsUpTo(symbol_table, NextQuad(heap)
                                                              + Late[Takes(f)[k]])
         /\ Takes(f)[k] \in DOMAIN Late => Value(n, k).code = NULL
         /\ Takes(f)[k] = "cond" => Value(n, k).yes # {} \/ Value(n, k).no # {}
<1>1. PICK value, kind : value = Value(n, k) /\ kind = Takes(f)[k]
  OBVIOUS
<1>2. kind \in Kinds
  <2>1. Takes(f) \in Seq(Kinds)
    BY KindsAreKinds
  <2> QED
    BY <2>1, <1>1
<1>3. value \in ValuesOf(symbol_table, NextQuad(heap))[kind]
  BY <1>1, ValuesAre
<1>4. /\ value \in Attribute(Symbols, NextQuad(heap))
      /\ kind = "expr" => value.symbol \in Symbols
      /\ kind \in DOMAIN Late =>
           value.symbol \in LabelsUpTo(symbol_table, NextQuad(heap) + Late[kind])
      /\ kind \in DOMAIN Late => value.code = NULL
      /\ kind = "cond" => value.yes # {} \/ value.no # {}
  BY <1>2, <1>3 DEF ValuesOf, Symbols
<1>5. /\ value.code \in 0 .. NextQuad(heap)
      /\ value.true_list \in 0 .. NextQuad(heap)
      /\ value.false_list \in 0 .. NextQuad(heap)
      /\ value.symbol \in OrNone(Symbols)
      /\ value.yes \in SUBSET Nat /\ value.no \in SUBSET Nat
  BY <1>4 DEF Attribute
<1> QED
  BY <1>1, <1>4, <1>5

\* A reduction that fails leaves all there was.
LEMMA AbortStep == ASSUME IInv, NEW f, Reduce(f), Abort PROVE IInv'
<1>1. /\ work' = Tail(work) /\ growth' = growth /\ status' = "aborted"
      /\ work # <<>> /\ vals' = vals /\ heap' = heap /\ quad_list' = quad_list
      /\ symbol_table' = symbol_table /\ temps_count' = temps_count
      /\ constants_count' = constants_count
  BY DEF Reduce, Parsing, Abort, program
<1>2. work' \in Seq(Item)
  BY <1>1 DEF IInv
<1>3. TableKept' /\ StackKept' /\ LabelsKept'
  BY <1>1 DEF IInv, TableKept, Symbols, StackKept, LabelsKept
<1> QED
  BY <1>1, <1>2, <1>3 DEF IInv, Symbols

\* A reduction that leaves a value leaves a well-formed program if its value,
\* its heap and its table are.
LEMMA ReduceStep ==
  ASSUME IInv, NEW f, Reduce(f), NEW n \in Nat, n = Len(Takes(f)),
         Kind(f) # "none", NEW attr, Return(n, attr),
         attr \in ValuesOf(symbol_table', NextQuad(heap'))[Kind(f)],
         WellMade(heap', symbol_table'), TableKept',
         Extends(symbol_table', symbol_table), NextQuad(heap) <= NextQuad(heap'),
         quad_list' = quad_list, status' = status
  PROVE  IInv'
<1>1. /\ status = "parsing" /\ work # <<>> /\ Head(work) = f
      /\ work' = Tail(work) /\ growth' = growth
      /\ vals' = Append(Below(n), attr)
  BY DEF Reduce, Parsing, Return
<1>2. PICK F, G : /\ F = ValuesOf(symbol_table, NextQuad(heap))
                  /\ G = ValuesOf(symbol_table', NextQuad(heap'))
  OBVIOUS
<1>3. PICK A, B : /\ A = Attribute(Symbols, NextQuad(heap))
                  /\ B = Attribute(Symbols', NextQuad(heap'))
  OBVIOUS
<1>4. work \in Seq(Item) /\ vals \in Seq(A)
  BY <1>3 DEF IInv
<1>5. NextQuad(heap) \in Nat /\ NextQuad(heap') \in Nat
  BY ProgramIs DEF WellMade, IsHeap, NextQuad
<1>6. A \subseteq B /\ \A kind \in Kinds : F[kind] \subseteq G[kind]
  BY <1>2, <1>3, <1>5, ProgramIs, ValuesMore DEF Symbols
<1>7. PICK kinds : Stacks(work, kinds) /\ Fit(vals, kinds[1], F)
  BY <1>1, <1>2 DEF IInv, StackKept
<1>8. Fit(vals, kinds[1], G)
  BY <1>4, <1>6, <1>7, FirstOfStacks, FitMore
<1>9. /\ work' \in Seq(Item) /\ Below(n) \in Seq(A)
      /\ \E after : Stacks(work', after) /\ Fit(vals', after[1], G)
  <2>1. attr \in G[Kind(Head(work))] /\ Kind(Head(work)) # "none"
        /\ n = Len(Takes(Head(work)))
    BY <1>1, <1>2
  <2> QED
    BY <2>1, <1>1, <1>4, <1>7, <1>8, Reducing DEF Below
<1>10. attr \in B
  <2>1. Kind(f) \in Kinds
    BY KindsAreKinds
  <2> QED
    BY <2>1, <1>3 DEF ValuesOf, Symbols
<1>11. vals' \in Seq(B)
  <2>1. Below(n) \in Seq(B)
    BY <1>6, <1>9
  <2> QED
    BY <2>1, <1>1, <1>10
<1>12. quad_list' \in 0 .. NextQuad(heap')
  BY <1>5 DEF IInv
<1>13. LabelsKept'
  BY <1>1 DEF LabelsKept
<1> QED
  BY <1>1, <1>2, <1>3, <1>9, <1>11, <1>12, <1>13 DEF IInv, StackKept

\* symbol_table_push() of a symbol that the table does not have.
LEMMA Pushing ==
  ASSUME TableKept, NEW s, s \notin Symbols, NEW type \in Types, NEW value \in Nat,
         symbol_table' = Pushed(s, type, value)
  PROVE  /\ Symbols' = Symbols \cup {s}
         /\ symbol_table' \in [Symbols' -> [type : Types, value : Nat]]
         /\ Extends(symbol_table', symbol_table)
         /\ symbol_table'[s].value = value
<1>1. DOMAIN symbol_table' = Symbols \cup {s}
  BY DEF Pushed
<1>2. \A t \in Symbols \cup {s} :
        symbol_table'[t] \in [type : Types, value : Nat]
  <2>1. \A t \in Symbols : symbol_table[t] \in [type : Types, value : Nat]
    BY DEF TableKept
  <2> QED
    BY <2>1 DEF Pushed
<1>3. symbol_table' = [t \in DOMAIN symbol_table' |-> symbol_table'[t]]
  BY DEF Pushed
<1>4. \A t \in Symbols : symbol_table'[t] = symbol_table[t]
  BY DEF Pushed
<1>5. symbol_table'[s].value = value
  BY DEF Pushed
<1> QED
  BY <1>1, <1>2, <1>3, <1>4, <1>5 DEF Symbols, Extends

\* The names of the compiler's symbols are all different.
LEMMA PushedUser ==
  ASSUME TableKept, NEW name \in Names, ~ Declared(User(name)),
         NEW type \in Types, NEW value \in Nat,
         symbol_table' = Pushed(User(name), type, value),
         temps_count' = temps_count, constants_count' = constants_count
  PROVE  /\ TableKept' /\ Symbols' = Symbols \cup {User(name)}
         /\ Extends(symbol_table', symbol_table)
<1>1. /\ User(name) \in SymbolName
      /\ \A n : User(name) # <<"tmp", n>> /\ User(name) # <<"cst", n>>
  BY DEF User, SymbolName
<1>2. /\ Symbols' = Symbols \cup {User(name)}
      /\ symbol_table' \in [Symbols' -> [type : Types, value : Nat]]
      /\ Extends(symbol_table', symbol_table)
  BY Pushing DEF Declared
<1> QED
  BY <1>1, <1>2 DEF TableKept

\* The next temporary is new, and the counter counts it.
LEMMA PushedTemp ==
  ASSUME TableKept, NEW type \in Types, NEW value \in Nat,
         symbol_table' = Pushed(NewTemp, type, value),
         temps_count' = temps_count + 1, constants_count' = constants_count
  PROVE  /\ TableKept' /\ Symbols' = Symbols \cup {NewTemp}
         /\ Extends(symbol_table', symbol_table)
<1>1. /\ NewTemp \in SymbolName
      /\ \A n : <<"tmp", n>> = NewTemp <=> n = temps_count
      /\ \A n : <<"cst", n>> # NewTemp
  BY DEF NewTemp, SymbolName, TableKept
<1>2. /\ temps_count \in Nat
      /\ \A n \in Nat : n < temps_count + 1 <=> n < temps_count \/ n = temps_count
  BY DEF TableKept
<1>3. NewTemp \notin Symbols
  BY <1>2 DEF NewTemp, TableKept
<1>4. /\ Symbols' = Symbols \cup {NewTemp}
      /\ symbol_table' \in [Symbols' -> [type : Types, value : Nat]]
      /\ Extends(symbol_table', symbol_table)
  BY <1>3, Pushing
<1>5. \A n \in Nat : <<"tmp", n>> \in Symbols' <=> n < temps_count'
  BY <1>1, <1>2, <1>4 DEF TableKept
<1>6. \A n \in Nat : <<"cst", n>> \in Symbols' <=> n < constants_count'
  BY <1>1, <1>4 DEF TableKept
<1>7. Symbols' \subseteq SymbolName
  BY <1>1, <1>4 DEF TableKept
<1> QED
  BY <1>2, <1>4, <1>5, <1>6, <1>7 DEF TableKept

\* So is the next constant.
LEMMA PushedConst ==
  ASSUME TableKept, NEW type \in Types, NEW value \in Nat,
         symbol_table' = Pushed(NewConst, type, value),
         temps_count' = temps_count, constants_count' = constants_count + 1
  PROVE  /\ TableKept' /\ Symbols' = Symbols \cup {NewConst}
         /\ Extends(symbol_table', symbol_table)
         /\ symbol_table'[NewConst].value = value
<1>1. /\ NewConst \in SymbolName
      /\ \A n : <<"cst", n>> = NewConst <=> n = constants_count
      /\ \A n : <<"tmp", n>> # NewConst
  BY DEF NewConst, SymbolName, TableKept
<1>2. /\ constants_count \in Nat
      /\ \A n \in Nat : n < constants_count + 1
                        <=> n < constants_count \/ n = constants_count
  BY DEF TableKept
<1>3. NewConst \notin Symbols
  BY <1>2 DEF NewConst, TableKept
<1>4. /\ Symbols' = Symbols \cup {NewConst}
      /\ symbol_table' \in [Symbols' -> [type : Types, value : Nat]]
      /\ Extends(symbol_table', symbol_table)
      /\ symbol_table'[NewConst].value = value
  BY <1>3, Pushing
<1>5. \A n \in Nat : <<"cst", n>> \in Symbols' <=> n < constants_count'
  BY <1>1, <1>2, <1>4 DEF TableKept
<1>6. \A n \in Nat : <<"tmp", n>> \in Symbols' <=> n < temps_count'
  BY <1>1, <1>4 DEF TableKept
<1>7. Symbols' \subseteq SymbolName
  BY <1>1, <1>4 DEF TableKept
<1> QED
  BY <1>2, <1>4, <1>5, <1>6, <1>7 DEF TableKept

\* A table that is left alone.
LEMMA TableSame ==
  ASSUME TableKept, UNCHANGED <<symbol_table, temps_count, constants_count>>
  PROVE  /\ TableKept' /\ Symbols' = Symbols
         /\ Extends(symbol_table', symbol_table)
  BY DEF TableKept, Symbols, Extends

\* The attributes the semantic functions leave.
LEMMA AttributesMade ==
  ASSUME NEW table, NEW n \in Nat, NEW list \in 0 .. n, NEW s \in DOMAIN table
  PROVE  /\ Attr \in ValuesOf(table, n)["code"]
         /\ Code(list) \in ValuesOf(table, n)["code"]
         /\ Expr(list, s) \in ValuesOf(table, n)["code"]
         /\ Expr(list, s) \in ValuesOf(table, n)["expr"]
         /\ Symbol(s) \in ValuesOf(table, n)["expr"]
         /\ \A kind \in DOMAIN Late :
              s \in LabelsUpTo(table, n + Late[kind]) =>
                Symbol(s) \in ValuesOf(table, n)[kind]
<1>1. /\ 0 \in 0 .. n /\ {} \in SUBSET Nat /\ NoSymbol \in OrNone(DOMAIN table)
      /\ s \in OrNone(DOMAIN table)
  BY DEF OrNone
<1>2. \A v \in {Attr, Code(list)} :
        v \in Attribute(DOMAIN table, n) /\ v.true_list = 0 /\ v.false_list = 0
  BY <1>1 DEF Attr, Code, Attribute, NULL
<1>3. PICK v : v = Expr(list, s)
  OBVIOUS
<1>4. /\ v \in Attribute(DOMAIN table, n) /\ v.true_list = 0
      /\ v.false_list = 0 /\ v.symbol = s
  BY <1>1, <1>3 DEF Attr, Expr, Attribute, NULL
<1>5. PICK w : w = Symbol(s)
  OBVIOUS
<1>6. /\ w \in Attribute(DOMAIN table, n) /\ w.true_list = 0
      /\ w.false_list = 0 /\ w.symbol = s /\ w.code = 0
  BY <1>1, <1>5 DEF Attr, Symbol, Attribute, NULL
<1>7. /\ "code" \in Kinds /\ "expr" \in Kinds
      /\ \A kind \in DOMAIN Late : kind \in Kinds /\ kind # "expr" /\ kind # "cond"
      /\ "code" \notin DOMAIN Late /\ "expr" \notin DOMAIN Late
  BY DEF Kinds, Late
<1>8. /\ Attr \in ValuesOf(table, n)["code"]
      /\ Code(list) \in ValuesOf(table, n)["code"]
  BY <1>2, <1>7 DEF ValuesOf, NULL
<1>9. /\ v \in ValuesOf(table, n)["code"] /\ v \in ValuesOf(table, n)["expr"]
  BY <1>4, <1>7 DEF ValuesOf, NULL
<1>10. /\ w \in ValuesOf(table, n)["expr"]
       /\ \A kind \in DOMAIN Late :
            s \in LabelsUpTo(table, n + Late[kind]) =>
              w \in ValuesOf(table, n)[kind]
  BY <1>6, <1>7 DEF ValuesOf, NULL
<1> QED
  BY <1>3, <1>5, <1>8, <1>9, <1>10

\* So are those that stand for no symbol when the table is empty.
LEMMA CodeMade ==
  ASSUME NEW table, NEW n \in Nat, NEW list \in 0 .. n
  PROVE  /\ Attr \in ValuesOf(table, n)["code"]
         /\ Code(list) \in ValuesOf(table, n)["code"]
<1>1. 0 \in 0 .. n /\ {} \in SUBSET Nat /\ NoSymbol \in OrNone(DOMAIN table)
  BY DEF OrNone
<1>2. /\ Attr = [code |-> 0, symbol |-> NoSymbol, true_list |-> 0,
                 false_list |-> 0, yes |-> {}, no |-> {}]
      /\ Code(list) = [code |-> list, symbol |-> NoSymbol, true_list |-> 0,
                       false_list |-> 0, yes |-> {}, no |-> {}]
  BY DEF Attr, Code, NULL
<1>3. /\ Attr \in Attribute(DOMAIN table, n)
      /\ Code(list) \in Attribute(DOMAIN table, n)
  BY <1>1, <1>2 DEF Attribute
<1>4. "code" \in Kinds /\ "code" \notin DOMAIN Late
  BY DEF Kinds, Late
<1>5. /\ Attr.true_list = 0 /\ Attr.false_list = 0
      /\ Code(list).true_list = 0 /\ Code(list).false_list = 0
  BY <1>2
<1> QED
  BY <1>3, <1>4, <1>5 DEF ValuesOf, NULL

\* A condition may have any lists, as long as it has a branch to take.
LEMMA ConditionsMade ==
  ASSUME NEW table, NEW n \in Nat, NEW attr \in Attribute(DOMAIN table, n),
         attr.yes # {} \/ attr.no # {}
  PROVE  attr \in ValuesOf(table, n)["cond"]
<1>1. "cond" \in Kinds /\ "cond" # "expr" /\ "cond" \notin DOMAIN Late
  BY DEF Kinds, Late
<1> QED
  BY <1>1 DEF ValuesOf

\* A reduction that leaves the heap alone.
LEMMA HeapSame ==
  ASSUME IInv, heap' = heap, Extends(symbol_table', symbol_table)
  PROVE  /\ WellMade(heap', symbol_table') /\ NextQuad(heap') \in Nat
         /\ NextQuad(heap) <= NextQuad(heap')
<1>1. NextQuad(heap) \in Nat /\ NextQuad(heap) <= NextQuad(heap)
  BY ProgramIs
<1>2. IsHeap(heap, DOMAIN symbol_table', LabelsUpTo(symbol_table', NextQuad(heap)))
  BY <1>1, ProgramIs, WellMadeMore
<1> QED
  BY <1>1, <1>2 DEF WellMade

-----------------------------------------------------------------------------
(***************************************************************************)
(* The invariant, action by action: expressions.                           *)
(***************************************************************************)

\* A literal leaves the invariant.
LEMMA DeclareConstantStep == ASSUME IInv, DeclareConstant PROVE IInv'
<1>1. PICK type \in ConstantTypes : symbol_table' = Pushed(NewConst, type, 0)
  BY DEF DeclareConstant
<1>2. /\ Reduce("CONSTANT") /\ Return(0, Symbol(NewConst)) /\ heap' = heap
      /\ quad_list' = quad_list /\ status' = status
      /\ temps_count' = temps_count /\ constants_count' = constants_count + 1
  BY DEF DeclareConstant
<1>3. /\ TableKept' /\ Symbols' = Symbols \cup {NewConst}
      /\ Extends(symbol_table', symbol_table)
  BY <1>1, <1>2, FrontendAssumption, PushedConst DEF IInv
<1>4. /\ WellMade(heap', symbol_table') /\ NextQuad(heap') \in Nat
      /\ NextQuad(heap) <= NextQuad(heap')
  BY <1>2, <1>3, HeapSame
<1>5. Symbol(NewConst) \in ValuesOf(symbol_table', NextQuad(heap'))["expr"]
  <2>1. NewConst \in DOMAIN symbol_table' /\ 0 \in 0 .. NextQuad(heap')
    BY <1>3, <1>4 DEF Symbols
  <2> QED
    BY <2>1, <1>4, AttributesMade
<1>6. PICK attr : attr = Symbol(NewConst)
  OBVIOUS
<1>7. /\ 0 \in Nat /\ 0 = Len(Takes("CONSTANT")) /\ Kind("CONSTANT") # "none"
      /\ Kind("CONSTANT") = "expr"
  BY KindsOf, NothingTaken
<1>8. /\ Return(0, attr)
      /\ attr \in ValuesOf(symbol_table', NextQuad(heap'))[Kind("CONSTANT")]
  BY <1>2, <1>5, <1>6, <1>7
<1> QED
  BY <1>2, <1>3, <1>4, <1>7, <1>8, ReduceStep

\* A tag leaves the invariant: it numbers a quadruple to come.
LEMMA MakeTagStep ==
  ASSUME IInv, NEW f \in DOMAIN Late, MakeTag(f, Late[f])
  PROVE  IInv'
<1>1. /\ Reduce(f) /\ Return(0, Symbol(NewConst)) /\ heap' = heap
      /\ symbol_table' = Pushed(NewConst, "INT", Label(Late[f]))
      /\ quad_list' = quad_list /\ status' = status
      /\ temps_count' = temps_count /\ constants_count' = constants_count + 1
  BY DEF MakeTag
<1>2. /\ Late[f] \in Nat /\ "INT" \in Types /\ f \in {"tag", "tag1", "tag2"}
      /\ NextQuad(heap) \in Nat /\ Label(Late[f]) = NextQuad(heap) + Late[f]
      /\ Label(Late[f]) \in Nat
  BY ProgramIs DEF Label, Late, Types
<1>3. /\ TableKept' /\ Symbols' = Symbols \cup {NewConst}
      /\ Extends(symbol_table', symbol_table)
      /\ symbol_table'[NewConst].value = NextQuad(heap) + Late[f]
  BY <1>1, <1>2, PushedConst DEF IInv
<1>4. /\ WellMade(heap', symbol_table') /\ NextQuad(heap') \in Nat
      /\ NextQuad(heap) <= NextQuad(heap') /\ NextQuad(heap') = NextQuad(heap)
  BY <1>1, <1>3, HeapSame
<1>5. NewConst \in LabelsUpTo(symbol_table', NextQuad(heap') + Late[f])
  <2>1. NewConst \in DOMAIN symbol_table'
    BY <1>3 DEF Symbols
  <2>2. symbol_table'[NewConst].value <= NextQuad(heap') + Late[f]
    BY <1>2, <1>3, <1>4
  <2> QED
    BY <2>1, <2>2 DEF LabelsUpTo
<1>6. Symbol(NewConst) \in ValuesOf(symbol_table', NextQuad(heap'))[f]
  <2>1. NewConst \in DOMAIN symbol_table' /\ 0 \in 0 .. NextQuad(heap')
    BY <1>3, <1>4 DEF Symbols
  <2> QED
    BY <2>1, <1>4, <1>5, AttributesMade
<1>7. PICK attr : attr = Symbol(NewConst)
  OBVIOUS
<1>8. 0 \in Nat /\ 0 = Len(Takes(f)) /\ Kind(f) = f /\ Kind(f) # "none"
  BY <1>2, KindsOf, NothingTaken
<1>9. /\ Return(0, attr)
      /\ attr \in ValuesOf(symbol_table', NextQuad(heap'))[Kind(f)]
  BY <1>1, <1>6, <1>7, <1>8
<1> QED
  BY <1>1, <1>3, <1>4, <1>8, <1>9, ReduceStep

\* The name of a symbol leaves the invariant, declared or not.
LEMMA LookupStep == ASSUME IInv, Lookup PROVE IInv'
<1>1. PICK name \in Names :
        IF Declared(User(name))
          THEN /\ Return(0, Symbol(User(name)))
               /\ UNCHANGED <<program, status, meaning>>
          ELSE Abort
  BY DEF Lookup
<1>2. Reduce("LOOKUP")
  BY DEF Lookup
<1>3. CASE ~ Declared(User(name))
  BY <1>1, <1>2, <1>3, AbortStep
<1>4. CASE Declared(User(name))
  <2>1. /\ Return(0, Symbol(User(name))) /\ heap' = heap
        /\ quad_list' = quad_list /\ status' = status
        /\ symbol_table' = symbol_table /\ temps_count' = temps_count
        /\ constants_count' = constants_count
    BY <1>1, <1>4 DEF program
  <2>2. /\ TableKept' /\ Symbols' = Symbols
        /\ Extends(symbol_table', symbol_table)
    BY <2>1, TableSame DEF IInv
  <2>3. /\ WellMade(heap', symbol_table') /\ NextQuad(heap') \in Nat
        /\ NextQuad(heap) <= NextQuad(heap')
    BY <2>1, <2>2, HeapSame
  <2>4. Symbol(User(name)) \in ValuesOf(symbol_table', NextQuad(heap'))["expr"]
    <3>1. User(name) \in DOMAIN symbol_table' /\ 0 \in 0 .. NextQuad(heap')
      BY <1>4, <2>2, <2>3 DEF Declared, Symbols
    <3> QED
      BY <3>1, <2>3, AttributesMade
  <2>5. PICK attr : attr = Symbol(User(name))
    OBVIOUS
  <2>6. /\ 0 \in Nat /\ 0 = Len(Takes("LOOKUP")) /\ Kind("LOOKUP") # "none"
        /\ Kind("LOOKUP") = "expr"
    BY KindsOf, NothingTaken
  <2>7. /\ Return(0, attr)
        /\ attr \in ValuesOf(symbol_table', NextQuad(heap'))[Kind("LOOKUP")]
    BY <2>1, <2>4, <2>5, <2>6
  <2> QED
    BY <1>2, <2>1, <2>2, <2>3, <2>6, <2>7, ReduceStep
<1> QED
  BY <1>3, <1>4

\* A quadruple that computes a temporary.
LEMMA ComputeStep ==
  ASSUME IInv, NEW f, Reduce(f), NEW n \in Nat, n = Len(Takes(f)),
         Kind(f) = "expr", NEW op \in ArithmeticOps, NEW type \in Types,
         NEW op1 \in Symbols, NEW op2 \in OrNone(Symbols),
         Compute(n, op, type, op1, op2)
  PROVE  IInv'
<1>1. /\ heap' = QuadNew(heap, op, NewTemp, op1, op2)
      /\ Return(n, Expr(NextQuad(heap'), NewTemp))
      /\ symbol_table' = Pushed(NewTemp, type, 0)
      /\ temps_count' = temps_count + 1
      /\ UNCHANGED <<quad_list, constants_count, status>>
  BY DEF Compute
<1>2. /\ TableKept' /\ Symbols' = Symbols \cup {NewTemp}
      /\ Extends(symbol_table', symbol_table)
  BY <1>1, PushedTemp DEF IInv
<1>3. op \in Ops /\ op \notin BranchOps
  BY DEF Ops, ArithmeticOps, BranchOps
<1>4. PICK L : L = LabelsUpTo(symbol_table', NextQuad(heap) + 1)
  OBVIOUS
<1>5. IsHeap(heap, Symbols', L) /\ NextQuad(heap) \in Nat
  <2>1. NextQuad(heap) + 1 \in Nat /\ NextQuad(heap) <= NextQuad(heap) + 1
    BY ProgramIs
  <2> QED
    BY <2>1, <1>2, <1>4, ProgramIs, WellMadeMore DEF Symbols
<1>6. IsHeap(heap', Symbols', L) /\ NextQuad(heap') = NextQuad(heap) + 1
  <2>1. /\ NewTemp \in OrNone(Symbols') /\ op1 \in OrNone(Symbols')
        /\ op2 \in OrNone(Symbols')
    BY <1>2 DEF OrNone
  <2> QED
    BY <2>1, <1>1, <1>3, <1>5, QuadNewIsHeap
<1>7. WellMade(heap', symbol_table')
  BY <1>4, <1>6 DEF WellMade, Symbols
<1>8. PICK attr : attr = Expr(NextQuad(heap'), NewTemp)
  OBVIOUS
<1>9. attr \in ValuesOf(symbol_table', NextQuad(heap'))["expr"]
  <2>1. /\ NewTemp \in DOMAIN symbol_table' /\ NextQuad(heap') \in Nat
        /\ NextQuad(heap') \in 0 .. NextQuad(heap')
    BY <1>2, <1>5, <1>6 DEF Symbols
  <2> QED
    BY <2>1, <1>8, AttributesMade
<1>10. NextQuad(heap) <= NextQuad(heap') /\ Kind(f) # "none"
       /\ attr \in ValuesOf(symbol_table', NextQuad(heap'))[Kind(f)]
  BY <1>5, <1>6, <1>9
<1>11. Return(n, attr) /\ quad_list' = quad_list /\ status' = status
  BY <1>1, <1>8
<1> QED
  BY <1>2, <1>7, <1>10, <1>11, ReduceStep

\* The type of a symbol of the table.
LEMMA TypesAre == ASSUME IInv, NEW s \in Symbols PROVE TypeOf(s) \in Types
  BY ProgramIs DEF TypeOf, Symbols

\* A negation leaves the invariant.
LEMMA UnaryArithmeticOpStep == ASSUME IInv, UnaryArithmeticOp PROVE IInv'
<1>1. PICK expr : expr = Value(1, 1)
  OBVIOUS
<1>2. /\ Reduce("UNARY")
      /\ Compute(1, "NEG", TypeOf(expr.symbol), expr.symbol, NoSymbol)
  BY <1>1 DEF UnaryArithmeticOp
<1>3. Takes("UNARY") = <<"expr">> /\ Kind("UNARY") = "expr"
  BY KindsOf, Taken
<1>4. /\ 1 \in Nat /\ 1 = Len(Takes("UNARY")) /\ 1 \in 1 .. 1
      /\ Takes("UNARY")[1] = "expr"
  BY <1>3
<1>5. expr.symbol \in Symbols
  BY <1>1, <1>2, <1>4, PartsAre
<1>6. TypeOf(expr.symbol) \in Types
  BY <1>5, TypesAre
<1>7. "NEG" \in ArithmeticOps /\ NoSymbol \in OrNone(Symbols)
  BY DEF ArithmeticOps, OrNone
<1> QED
  BY <1>2, <1>3, <1>4, <1>5, <1>6, <1>7, ComputeStep

\* An operation leaves the invariant, or is refused.
LEMMA BinaryArithmeticOpStep == ASSUME IInv, BinaryArithmeticOp PROVE IInv'
<1>1. PICK expr1, expr2 : expr1 = Value(2, 1) /\ expr2 = Value(2, 2)
  OBVIOUS
<1>2. /\ Reduce("BINARY")
      /\ IF TypeOf(expr1.symbol) = TypeOf(expr2.symbol)
           THEN \E op \in BinaryOps :
                  Compute(2, op, TypeOf(expr1.symbol), expr1.symbol,
                          expr2.symbol)
           ELSE Abort
  BY <1>1 DEF BinaryArithmeticOp
<1>3. Takes("BINARY") = <<"expr", "expr">> /\ Kind("BINARY") = "expr"
  BY KindsOf, Taken
<1>4. /\ 2 \in Nat /\ 2 = Len(Takes("BINARY")) /\ 1 \in 1 .. 2 /\ 2 \in 1 .. 2
      /\ Takes("BINARY")[1] = "expr" /\ Takes("BINARY")[2] = "expr"
  BY <1>3
<1>5. expr1.symbol \in Symbols /\ expr2.symbol \in Symbols
  BY <1>1, <1>2, <1>4, PartsAre
<1>6. TypeOf(expr1.symbol) \in Types /\ expr2.symbol \in OrNone(Symbols)
  BY <1>5, TypesAre DEF OrNone
<1>7. \A op \in BinaryOps : op \in ArithmeticOps
  BY FrontendAssumption
<1>8. CASE TypeOf(expr1.symbol) = TypeOf(expr2.symbol)
  <2>1. PICK op \in BinaryOps :
          Compute(2, op, TypeOf(expr1.symbol), expr1.symbol, expr2.symbol)
    BY <1>2, <1>8
  <2> QED
    BY <2>1, <1>2, <1>3, <1>4, <1>5, <1>6, <1>7, ComputeStep
<1>9. CASE TypeOf(expr1.symbol) # TypeOf(expr2.symbol)
  BY <1>2, <1>9, AbortStep
<1> QED
  BY <1>8, <1>9

-----------------------------------------------------------------------------
(***************************************************************************)
(* The invariant, action by action: declarations, assignments and          *)
(* instructions.                                                           *)
(***************************************************************************)

\* The labels of a heap are still good when nodes or symbols are to be added.
LEMMA HeapStays ==
  ASSUME IInv, NEW n \in Nat, NextQuad(heap) <= n
  PROVE  /\ IsHeap(heap, Symbols, LabelsUpTo(symbol_table, n))
         /\ Extends(symbol_table', symbol_table) =>
              IsHeap(heap, Symbols', LabelsUpTo(symbol_table', n))
<1>1. Extends(symbol_table, symbol_table)
  BY DEF Extends
<1> QED
  BY <1>1, ProgramIs, WellMadeMore DEF Symbols

\* A tag numbers the next quadruple once so many gotos are made.
LEMMA TagIs ==
  ASSUME IInv, NEW f, Reduce(f), NEW n \in Nat, n = Len(Takes(f)),
         NEW k \in 1 .. n, NEW kind \in DOMAIN Late, Takes(f)[k] = kind,
         NEW gotos \in Nat, Late[kind] <= gotos
  PROVE  Value(n, k).symbol \in
           OrNone(LabelsUpTo(symbol_table, NextQuad(heap) + gotos))
<1>1. PICK tag, late : tag = Value(n, k).symbol /\ late = Late[kind]
  OBVIOUS
<1>2. late \in Nat /\ late <= gotos /\ NextQuad(heap) \in Nat
  BY <1>1, ProgramIs DEF Late
<1>3. tag \in LabelsUpTo(symbol_table, NextQuad(heap) + late)
  BY <1>1, PartsAre
<1>4. /\ tag \in DOMAIN symbol_table
      /\ symbol_table[tag].value <= NextQuad(heap) + late
  BY <1>3 DEF LabelsUpTo
<1>5. symbol_table[tag].value \in Nat
  BY <1>4, ProgramIs
<1>6. symbol_table[tag].value <= NextQuad(heap) + gotos
  BY <1>2, <1>4, <1>5
<1> QED
  BY <1>1, <1>4, <1>6 DEF LabelsUpTo, OrNone

\* A new quadruple behind the code of an expression.
LEMMA BehindCode ==
  ASSUME NEW S, NEW L, NEW h, IsHeap(h, S, L), NEW op \in Ops, NEW res \in OrNone(S),
         NEW op1 \in OrNone(S), NEW op2 \in OrNone(S), op \notin BranchOps,
         NEW code, code \in 0 .. NextQuad(h)
  PROVE  LET made == QuadNew(h, op, res, op1, op2)
             joined == Concat(made, <<code, NextQuad(made)>>)
         IN  /\ IsHeap(joined.heap, S, L)
             /\ NextQuad(joined.heap) = NextQuad(h) + 1 /\ NextQuad(h) \in Nat
             /\ joined.list \in 0 .. NextQuad(joined.heap)
<1>1. PICK made : made = QuadNew(h, op, res, op1, op2)
  OBVIOUS
<1>2. /\ IsHeap(made, S, L) /\ NextQuad(made) = NextQuad(h) + 1
      /\ NextQuad(h) \in Nat
  BY <1>1, QuadNewIsHeap
<1>3. PICK codes : codes = <<code, NextQuad(made)>>
  OBVIOUS
<1>4. codes \in Seq(0 .. NextQuad(made))
  <2>1. code \in 0 .. NextQuad(made) /\ NextQuad(made) \in 0 .. NextQuad(made)
    BY <1>2
  <2> QED
    BY <2>1, <1>3
<1>5. PICK joined : joined = Concat(made, codes)
  OBVIOUS
<1>6. /\ IsHeap(joined.heap, S, L) /\ NextQuad(joined.heap) = NextQuad(made)
      /\ joined.list \in 0 .. NextQuad(made)
  BY <1>2, <1>4, <1>5, ConcatIsHeap
<1> QED
  BY <1>1, <1>2, <1>3, <1>5, <1>6

\* assign() builds a heap of the symbols of the table it is given.
LEMMA AssignStep ==
  ASSUME IInv, NEW f, Reduce(f), NEW n \in Nat, n = Len(Takes(f)),
         Kind(f) = "code", NEW table, NEW dest, dest \in Symbols',
         NEW src, src.code \in 0 .. NextQuad(heap),
         src.symbol \in Symbols, Assign(n, table, dest, src),
         TableKept', Extends(symbol_table', symbol_table)
  PROVE  IInv'
<1>1. PICK made : made = QuadNew(heap, "MOVE", dest, src.symbol, NoSymbol)
  OBVIOUS
<1>2. PICK joined : joined = Concat(made, <<src.code, NextQuad(made)>>)
  OBVIOUS
<1>3. PICK attr : attr = Expr(joined.list, dest)
  OBVIOUS
<1>4. /\ heap' = joined.heap /\ Return(n, attr)
      /\ quad_list' = quad_list /\ status' = status
  BY <1>1, <1>2, <1>3 DEF Assign
<1>5. /\ "MOVE" \in Ops /\ dest \in OrNone(Symbols') /\ "MOVE" \notin BranchOps
      /\ src.symbol \in OrNone(Symbols') /\ NoSymbol \in OrNone(Symbols')
  BY DEF Ops, OrNone, Extends, Symbols, BranchOps
<1>6. PICK L : L = LabelsUpTo(symbol_table', NextQuad(heap) + 1)
  OBVIOUS
<1>7. IsHeap(heap, Symbols', L)
  <2>1. NextQuad(heap) + 1 \in Nat /\ NextQuad(heap) <= NextQuad(heap) + 1
    BY ProgramIs
  <2> QED
    BY <2>1, <1>6, HeapStays
<1>8. /\ IsHeap(heap', Symbols', L) /\ NextQuad(heap') = NextQuad(heap) + 1
      /\ NextQuad(heap) \in Nat /\ joined.list \in 0 .. NextQuad(heap')
  BY <1>1, <1>2, <1>4, <1>5, <1>7, BehindCode
<1>9. /\ NextQuad(heap') \in Nat /\ NextQuad(heap) <= NextQuad(heap')
      /\ WellMade(heap', symbol_table')
  BY <1>6, <1>8 DEF WellMade, Symbols
<1>10. attr \in ValuesOf(symbol_table', NextQuad(heap'))[Kind(f)]
  <2>1. dest \in DOMAIN symbol_table'
    BY DEF Symbols
  <2> QED
    BY <2>1, <1>3, <1>8, <1>9, AttributesMade
<1>11. Kind(f) # "none"
  OBVIOUS
<1> QED
  BY <1>4, <1>9, <1>10, <1>11, ReduceStep

\* An assignment leaves the invariant.
LEMMA AssignationStep == ASSUME IInv, Assignation PROVE IInv'
<1>1. PICK dest, src : dest = Value(2, 1).symbol /\ src = Value(2, 2)
  OBVIOUS
<1>2. Reduce("ASSIGN") /\ Assign(2, symbol_table, dest, src)
  BY <1>1 DEF Assignation
<1>3. Takes("ASSIGN") = <<"expr", "expr">> /\ Kind("ASSIGN") = "code"
  BY KindsOf, Taken
<1>4. /\ 2 \in Nat /\ 2 = Len(Takes("ASSIGN")) /\ 1 \in 1 .. 2 /\ 2 \in 1 .. 2
      /\ Takes("ASSIGN")[1] = "expr" /\ Takes("ASSIGN")[2] = "expr"
  BY <1>3
<1>5. /\ dest \in Symbols /\ src.code \in 0 .. NextQuad(heap)
      /\ src.symbol \in Symbols
  BY <1>1, <1>2, <1>4, PartsAre
<1>6. /\ TableKept' /\ Symbols' = Symbols
      /\ Extends(symbol_table', symbol_table)
  <2>1. UNCHANGED <<symbol_table, temps_count, constants_count>>
    BY <1>2 DEF Assign
  <2> QED
    BY <2>1, TableSame DEF IInv
<1>7. dest \in Symbols'
  BY <1>5, <1>6
<1> QED
  BY <1>2, <1>3, <1>4, <1>5, <1>6, <1>7, AssignStep

\* A declaration that pushes a symbol and leaves no code.
LEMMA DeclaredStep ==
  ASSUME IInv, NEW f, Reduce(f), 0 = Len(Takes(f)), Kind(f) = "code",
         NEW name \in Names, ~ Declared(User(name)), NEW type \in Types,
         symbol_table' = Pushed(User(name), type, 0), Return(0, Attr),
         UNCHANGED <<heap, quad_list, temps_count, constants_count, status>>
  PROVE  IInv'
<1>1. TableKept' /\ Extends(symbol_table', symbol_table)
  BY PushedUser DEF IInv
<1>2. /\ WellMade(heap', symbol_table') /\ NextQuad(heap') \in Nat
      /\ NextQuad(heap) <= NextQuad(heap')
  BY <1>1, HeapSame
<1>3. PICK attr : attr = Attr
  OBVIOUS
<1>4. attr \in ValuesOf(symbol_table', NextQuad(heap'))[Kind(f)]
  <2>1. 0 \in 0 .. NextQuad(heap')
    BY <1>2
  <2> QED
    BY <2>1, <1>2, <1>3, CodeMade
<1>5. 0 \in Nat /\ Kind(f) # "none" /\ Return(0, attr)
  BY <1>3
<1> QED
  BY <1>1, <1>2, <1>4, <1>5, ReduceStep

\* A declaration leaves the invariant.
LEMMA DeclareStep == ASSUME IInv, Declare PROVE IInv'
<1>1. PICK name \in Names, type \in {"INT", "FLOAT"} :
        IF Declared(User(name)) THEN Abort
        ELSE /\ symbol_table' = Pushed(User(name), type, 0)
             /\ Return(0, Attr)
             /\ UNCHANGED <<heap, quad_list, temps_count, constants_count,
                            status, meaning>>
  BY DEF Declare
<1>2. Reduce("DECLARE") /\ type \in Types
  BY DEF Declare, Types
<1>3. CASE Declared(User(name))
  BY <1>1, <1>2, <1>3, AbortStep
<1>4. CASE ~ Declared(User(name))
  <2>1. Takes("DECLARE") = <<>> /\ Kind("DECLARE") = "code"
    BY KindsOf, NothingTaken
  <2>2. 0 = Len(Takes("DECLARE"))
    BY <2>1
  <2> QED
    BY <1>1, <1>2, <1>4, <2>1, <2>2, DeclaredStep
<1> QED
  BY <1>3, <1>4

\* A declaration of a matrix leaves the invariant.
LEMMA DeclareMatrixStep == ASSUME IInv, DeclareMatrix PROVE IInv'
<1>1. PICK name \in Names :
        IF Declared(User(name)) THEN Abort
        ELSE /\ symbol_table' = Pushed(User(name), "MATRIX", 0)
             /\ Return(0, Attr)
             /\ UNCHANGED <<heap, quad_list, temps_count, constants_count,
                            status, meaning>>
  BY DEF DeclareMatrix
<1>2. Reduce("DECLARE_MATRIX") /\ "MATRIX" \in Types
  BY DEF DeclareMatrix, Types
<1>3. CASE Declared(User(name))
  BY <1>1, <1>2, <1>3, AbortStep
<1>4. CASE ~ Declared(User(name))
  <2>1. Takes("DECLARE_MATRIX") = <<>> /\ Kind("DECLARE_MATRIX") = "code"
    BY KindsOf, NothingTaken
  <2>2. 0 = Len(Takes("DECLARE_MATRIX"))
    BY <2>1
  <2> QED
    BY <1>1, <1>2, <1>4, <2>1, <2>2, DeclaredStep
<1> QED
  BY <1>3, <1>4

\* A declaration with an initial value leaves the invariant.
LEMMA DeclareAndAssignStep == ASSUME IInv, DeclareAndAssign PROVE IInv'
<1>1. PICK src : src = Value(1, 1)
  OBVIOUS
<1>2. PICK name \in Names, type \in {"INT", "FLOAT"} :
        IF Declared(User(name)) THEN Abort
        ELSE Assign(1, Pushed(User(name), type, 0), User(name), src)
  BY <1>1 DEF DeclareAndAssign
<1>3. Reduce("DECLARE_ASSIGN") /\ type \in Types
  BY DEF DeclareAndAssign, Types
<1>4. CASE Declared(User(name))
  BY <1>2, <1>3, <1>4, AbortStep
<1>5. CASE ~ Declared(User(name))
  <2>1. Takes("DECLARE_ASSIGN") = <<"expr">> /\ Kind("DECLARE_ASSIGN") = "code"
    BY KindsOf, Taken
  <2>2. /\ 1 \in Nat /\ 1 = Len(Takes("DECLARE_ASSIGN")) /\ 1 \in 1 .. 1
        /\ Takes("DECLARE_ASSIGN")[1] = "expr"
    BY <2>1
  <2>3. src.code \in 0 .. NextQuad(heap) /\ src.symbol \in Symbols
    BY <1>1, <1>3, <2>2, PartsAre
  <2>4. PICK table, dest : table = Pushed(User(name), type, 0)
                           /\ dest = User(name)
    OBVIOUS
  <2>5. Assign(1, table, dest, src)
    BY <1>2, <1>5, <2>4
  <2>6. /\ symbol_table' = Pushed(User(name), type, 0)
        /\ temps_count' = temps_count /\ constants_count' = constants_count
    BY <2>4, <2>5 DEF Assign
  <2>7. /\ TableKept' /\ Symbols' = Symbols \cup {User(name)}
        /\ Extends(symbol_table', symbol_table)
    BY <1>3, <1>5, <2>6, PushedUser DEF IInv
  <2>8. dest \in Symbols'
    BY <2>4, <2>7
  <2> QED
    BY <1>3, <2>1, <2>2, <2>3, <2>5, <2>7, <2>8, AssignStep
<1> QED
  BY <1>4, <1>5

\* A reduction that leaves a value and no new symbol.
LEMMA SameTableStep ==
  ASSUME IInv, NEW f, Reduce(f), NEW n \in Nat, n = Len(Takes(f)),
         Kind(f) # "none", NEW attr, Return(n, attr),
         attr \in ValuesOf(symbol_table, NextQuad(heap'))[Kind(f)],
         IsHeap(heap', Symbols, LabelsUpTo(symbol_table, NextQuad(heap'))),
         NextQuad(heap) <= NextQuad(heap'),
         UNCHANGED <<symbol_table, temps_count, constants_count>>,
         quad_list' = quad_list, status' = status
  PROVE  IInv'
<1>1. TableKept' /\ Extends(symbol_table', symbol_table)
  BY TableSame DEF IInv
<1>2. WellMade(heap', symbol_table')
  BY DEF WellMade, Symbols
<1>3. attr \in ValuesOf(symbol_table', NextQuad(heap'))[Kind(f)]
  OBVIOUS
<1> QED
  BY <1>1, <1>2, <1>3, ReduceStep

\* A print leaves the invariant; so does a call that is refused.
LEMMA CallFunctionWithExprStep == ASSUME IInv, CallFunctionWithExpr PROVE IInv'
<1>1. Reduce("CALL")
  BY DEF CallFunctionWithExpr
<1>2. Takes("CALL") = <<"expr">> /\ Kind("CALL") = "code"
  BY KindsOf, Taken
<1>3. /\ 1 \in Nat /\ 1 = Len(Takes("CALL")) /\ 1 \in 1 .. 1
      /\ Takes("CALL")[1] = "expr" /\ Kind("CALL") # "none"
  BY <1>2
<1>4. PICK expr, type : expr = Value(1, 1) /\ type = TypeOf(expr.symbol)
  OBVIOUS
<1>5. /\ expr.symbol \in Symbols /\ expr.code \in 0 .. NextQuad(heap)
  BY <1>1, <1>3, <1>4, PartsAre
<1>6. CASE Abort
  BY <1>1, <1>6, AbortStep
<1>7. ASSUME type # "MATRIX",
             LET printed == QuadNew(heap, PrintOp[type], expr.symbol,
                                    NoSymbol, NoSymbol)
                 joined == Concat(printed, <<expr.code, NextQuad(printed)>>)
             IN  heap' = joined.heap /\ Return(1, Code(joined.list)),
             UNCHANGED <<quad_list, symbol_table, temps_count, constants_count,
                         status>>
      PROVE  IInv'
  <2>1. PICK op : op = PrintOp[type]
    OBVIOUS
  <2>2. op \in Ops /\ op \notin BranchOps
    <3>1. type \in Types
      BY <1>4, <1>5, TypesAre
    <3> QED
      BY <3>1, <2>1, <1>7 DEF Types, PrintOp, Ops, PrintOps, BranchOps
  <2>3. PICK L : L = LabelsUpTo(symbol_table, NextQuad(heap) + 1)
    OBVIOUS
  <2>4. /\ expr.symbol \in OrNone(Symbols) /\ NoSymbol \in OrNone(Symbols)
        /\ IsHeap(heap, Symbols, L)
    <3>1. NextQuad(heap) + 1 \in Nat /\ NextQuad(heap) <= NextQuad(heap) + 1
      BY ProgramIs
    <3> QED
      BY <3>1, <1>5, <2>3, HeapStays DEF OrNone
  <2>5. PICK printed : printed = QuadNew(heap, op, expr.symbol, NoSymbol, NoSymbol)
    OBVIOUS
  <2>6. PICK joined : joined = Concat(printed, <<expr.code, NextQuad(printed)>>)
    OBVIOUS
  <2>7. /\ IsHeap(joined.heap, Symbols, L)
        /\ NextQuad(joined.heap) = NextQuad(heap) + 1 /\ NextQuad(heap) \in Nat
        /\ joined.list \in 0 .. NextQuad(joined.heap)
    BY <1>5, <2>2, <2>4, <2>5, <2>6, BehindCode
  <2>8. PICK attr : attr = Code(joined.list)
    OBVIOUS
  <2>9. heap' = joined.heap /\ Return(1, attr)
    BY <1>7, <2>1, <2>5, <2>6, <2>8
  <2>10. /\ attr \in ValuesOf(symbol_table, NextQuad(heap'))[Kind("CALL")]
         /\ NextQuad(heap) <= NextQuad(heap')
    BY <1>2, <2>7, <2>8, <2>9, CodeMade
  <2>11. IsHeap(heap', Symbols, LabelsUpTo(symbol_table, NextQuad(heap')))
    BY <2>3, <2>7, <2>9
  <2> QED
    BY <1>1, <1>3, <1>7, <2>9, <2>10, <2>11, SameTableStep
<1>8. ASSUME Return(1, Attr), UNCHANGED <<program, status>>
      PROVE  IInv'
  <2>1. PICK attr : attr = Attr
    OBVIOUS
  <2>2. heap' = heap /\ NextQuad(heap) \in Nat /\ 0 \in 0 .. NextQuad(heap)
    BY <1>8, ProgramIs DEF program
  <2>3. attr \in ValuesOf(symbol_table, NextQuad(heap'))[Kind("CALL")]
    BY <1>2, <2>1, <2>2, CodeMade
  <2>4. /\ IsHeap(heap', Symbols, LabelsUpTo(symbol_table, NextQuad(heap')))
        /\ NextQuad(heap) <= NextQuad(heap')
    BY <2>2, HeapStays
  <2>5. /\ Return(1, attr) /\ UNCHANGED <<symbol_table, temps_count, constants_count>>
        /\ quad_list' = quad_list /\ status' = status
    BY <1>8, <2>1 DEF program
  <2> QED
    BY <1>1, <1>3, <2>3, <2>4, <2>5, SameTableStep
<1> QED
  BY <1>4, <1>6, <1>7, <1>8 DEF CallFunctionWithExpr

\* A return leaves the invariant.
LEMMA ControlReturnStep == ASSUME IInv, ControlReturn PROVE IInv'
<1>1. /\ Reduce("RETURN")
      /\ heap' = QuadNew(heap, "RET", NoSymbol, NoSymbol, NoSymbol)
      /\ Return(0, Code(NextQuad(heap')))
      /\ UNCHANGED <<symbol_table, temps_count, constants_count>>
      /\ quad_list' = quad_list /\ status' = status
  BY DEF ControlReturn, QuadNewEmpty
<1>2. Takes("RETURN") = <<>> /\ Kind("RETURN") = "code"
  BY KindsOf, NothingTaken
<1>3. 0 \in Nat /\ 0 = Len(Takes("RETURN")) /\ Kind("RETURN") # "none"
  BY <1>2
<1>4. PICK L : L = LabelsUpTo(symbol_table, NextQuad(heap) + 1)
  OBVIOUS
<1>5. IsHeap(heap, Symbols, L)
  <2>1. NextQuad(heap) + 1 \in Nat /\ NextQuad(heap) <= NextQuad(heap) + 1
    BY ProgramIs
  <2> QED
    BY <2>1, <1>4, HeapStays
<1>6. /\ IsHeap(heap', Symbols, L) /\ NextQuad(heap') = NextQuad(heap) + 1
      /\ NextQuad(heap) \in Nat
  <2>1. "RET" \in Ops /\ NoSymbol \in OrNone(Symbols) /\ "RET" \notin BranchOps
    BY DEF Ops, OrNone, BranchOps
  <2> QED
    BY <2>1, <1>1, <1>5, QuadNewIsHeap
<1>7. PICK attr : attr = Code(NextQuad(heap'))
  OBVIOUS
<1>8. /\ Return(0, attr) /\ NextQuad(heap) <= NextQuad(heap')
      /\ attr \in ValuesOf(symbol_table, NextQuad(heap'))[Kind("RETURN")]
  <2>1. NextQuad(heap') \in Nat /\ NextQuad(heap') \in 0 .. NextQuad(heap')
    BY <1>6
  <2> QED
    BY <2>1, <1>1, <1>2, <1>6, <1>7, CodeMade
<1>9. IsHeap(heap', Symbols, LabelsUpTo(symbol_table, NextQuad(heap')))
  BY <1>4, <1>6
<1> QED
  BY <1>1, <1>3, <1>8, <1>9, SameTableStep

\* A block without statements leaves the invariant.
LEMMA EmptyStatementsStep == ASSUME IInv, EmptyStatements PROVE IInv'
<1>1. /\ Reduce("EMPTY") /\ Return(0, Attr) /\ heap' = heap
      /\ UNCHANGED <<symbol_table, temps_count, constants_count>>
      /\ quad_list' = quad_list /\ status' = status
  BY DEF EmptyStatements, program
<1>2. Takes("EMPTY") = <<>> /\ Kind("EMPTY") = "code"
  BY KindsOf, NothingTaken
<1>3. 0 \in Nat /\ 0 = Len(Takes("EMPTY")) /\ Kind("EMPTY") # "none"
  BY <1>2
<1>4. NextQuad(heap) \in Nat /\ 0 \in 0 .. NextQuad(heap)
  BY ProgramIs
<1>5. PICK attr : attr = Attr
  OBVIOUS
<1>6. /\ Return(0, attr) /\ NextQuad(heap) <= NextQuad(heap')
      /\ attr \in ValuesOf(symbol_table, NextQuad(heap'))[Kind("EMPTY")]
  BY <1>1, <1>2, <1>4, <1>5, CodeMade
<1>7. IsHeap(heap', Symbols, LabelsUpTo(symbol_table, NextQuad(heap')))
  BY <1>1, <1>4, HeapStays
<1> QED
  BY <1>1, <1>3, <1>6, <1>7, SameTableStep

\* Two lists of statements in a row leave the invariant.
LEMMA SequenceStep == ASSUME IInv, Sequence PROVE IInv'
<1>1. PICK codes : codes = <<Value(2, 1).code, Value(2, 2).code>>
  OBVIOUS
<1>2. PICK joined : joined = Concat(heap, codes)
  OBVIOUS
<1>3. PICK attr : attr = Code(joined.list)
  OBVIOUS
<1>4. /\ Reduce("SEQUENCE") /\ heap' = joined.heap /\ Return(2, attr)
      /\ UNCHANGED <<symbol_table, temps_count, constants_count>>
      /\ quad_list' = quad_list /\ status' = status
  BY <1>1, <1>2, <1>3 DEF Sequence
<1>5. Takes("SEQUENCE") = <<"code", "code">> /\ Kind("SEQUENCE") = "code"
  BY KindsOf, Taken
<1>6. /\ 2 \in Nat /\ 2 = Len(Takes("SEQUENCE")) /\ 1 \in 1 .. 2 /\ 2 \in 1 .. 2
      /\ Kind("SEQUENCE") # "none"
  BY <1>5
<1>7. PICK L : L = LabelsUpTo(symbol_table, NextQuad(heap))
  OBVIOUS
<1>8. NextQuad(heap) \in Nat /\ IsHeap(heap, Symbols, L)
  BY <1>7, ProgramIs DEF WellMade, Symbols
<1>9. codes \in Seq(0 .. NextQuad(heap))
  <2>1. /\ Value(2, 1).code \in 0 .. NextQuad(heap)
        /\ Value(2, 2).code \in 0 .. NextQuad(heap)
    BY <1>4, <1>6, PartsAre
  <2> QED
    BY <2>1, <1>1
<1>10. /\ IsHeap(heap', Symbols, L) /\ NextQuad(heap') = NextQuad(heap)
       /\ joined.list \in 0 .. NextQuad(heap)
  BY <1>2, <1>4, <1>8, <1>9, ConcatIsHeap
<1>11. /\ attr \in ValuesOf(symbol_table, NextQuad(heap'))[Kind("SEQUENCE")]
       /\ NextQuad(heap) <= NextQuad(heap')
  BY <1>3, <1>5, <1>8, <1>10, CodeMade
<1>12. IsHeap(heap', Symbols, LabelsUpTo(symbol_table, NextQuad(heap')))
  BY <1>7, <1>10
<1> QED
  BY <1>4, <1>6, <1>11, <1>12, SameTableStep

-----------------------------------------------------------------------------
(***************************************************************************)
(* The invariant, action by action: conditions.                            *)
(***************************************************************************)

\* A condition may have any lists, as long as it has a branch to take.
LEMMA ConditionStep ==
  ASSUME IInv, NEW f, Reduce(f), NEW n \in Nat, n = Len(Takes(f)),
         Kind(f) = "cond", NEW attr, Return(n, attr),
         attr \in Attribute(Symbols, NextQuad(heap')),
         attr.yes # {} \/ attr.no # {},
         IsHeap(heap', Symbols, LabelsUpTo(symbol_table, NextQuad(heap'))),
         NextQuad(heap) <= NextQuad(heap'),
         UNCHANGED <<symbol_table, temps_count, constants_count>>,
         quad_list' = quad_list, status' = status
  PROVE  IInv'
<1>1. NextQuad(heap') \in Nat
  BY DEF IsHeap, NextQuad
<1>2. attr \in ValuesOf(symbol_table, NextQuad(heap'))[Kind(f)] /\ Kind(f) # "none"
  BY <1>1, ConditionsMade DEF Symbols
<1> QED
  BY <1>2, SameTableStep

\* The two branches of a test leave a well-formed heap.
LEMMA BranchesStep ==
  ASSUME IInv, NEW f, Reduce(f), NEW n \in Nat, n = Len(Takes(f)),
         Kind(f) = "cond", NEW op \in BranchOps, NEW op1, NEW op2,
         op1 \in OrNone(Symbols'), op2 \in OrNone(Symbols'),
         NEW codes \in Seq(0 .. NextQuad(heap)), Branches(n, op, op1, op2, codes),
         TableKept', Extends(symbol_table', symbol_table)
  PROVE  IInv'
<1>1. PICK goto_true : goto_true = QuadNew(heap, op, NoSymbol, op1, op2)
  OBVIOUS
<1>2. PICK goto_false : goto_false = QuadNewEmpty(goto_true, "B")
  OBVIOUS
<1>3. PICK t, u : t = NextQuad(goto_true) /\ u = NextQuad(goto_false)
  OBVIOUS
<1>4. PICK all, joined : /\ all = codes \o <<t, u>>
                        /\ joined = Concat(goto_false, all)
  OBVIOUS
<1>5. PICK attr : attr = [Attr EXCEPT !.code = joined.list, !.true_list = t,
                                      !.false_list = u, !.yes = {t},
                                      !.no = {u}]
  OBVIOUS
<1>6. /\ heap' = joined.heap /\ Return(n, attr)
      /\ quad_list' = quad_list /\ status' = status
  BY <1>1, <1>2, <1>3, <1>4, <1>5 DEF Branches, Built
<1>7. PICK S, L : /\ S = Symbols'
                 /\ L = LabelsUpTo(symbol_table', NextQuad(heap) + 2)
  OBVIOUS
<1>8. /\ op \in Ops /\ "B" \in Ops /\ NoSymbol \in OrNone(S)
      /\ op1 \in OrNone(S) /\ op2 \in OrNone(S) /\ NoSymbol \in OrNone(L)
  BY <1>7 DEF Ops, BranchOps, OrNone
<1>9. IsHeap(heap, S, L)
  <2>1. NextQuad(heap) + 2 \in Nat /\ NextQuad(heap) <= NextQuad(heap) + 2
    BY ProgramIs
  <2> QED
    BY <2>1, <1>7, HeapStays
<1>10. /\ IsHeap(goto_true, S, L) /\ t = NextQuad(heap) + 1
       /\ NextQuad(heap) \in Nat
  BY <1>1, <1>3, <1>8, <1>9, QuadNewIsHeap
<1>11. IsHeap(goto_false, S, L) /\ u = NextQuad(heap) + 2
  <2>1. goto_false = QuadNew(goto_true, "B", NoSymbol, NoSymbol, NoSymbol)
    BY <1>2 DEF QuadNewEmpty
  <2>2. /\ IsHeap(goto_false, S, L)
        /\ NextQuad(goto_false) = NextQuad(goto_true) + 1
    BY <2>1, <1>8, <1>10, QuadNewIsHeap
  <2> QED
    BY <2>2, <1>3, <1>10
<1>12. PICK N \in Nat : N = u
  BY <1>10, <1>11
<1>13. t \in 0 .. N /\ u \in 0 .. N
  BY <1>10, <1>11, <1>12
<1>14. all \in Seq(0 .. NextQuad(goto_false))
  <2>1. codes \in Seq(0 .. N)
    <3>1. PICK D, E : D = 0 .. NextQuad(heap) /\ E = 0 .. N
      OBVIOUS
    <3>2. codes \in Seq(D) /\ D \subseteq E
      BY <3>1, <1>10, <1>11, <1>12
    <3>3. codes \in Seq(E)
      BY <3>2
    <3> QED
      BY <3>1, <3>3
  <2>2. <<t, u>> \in Seq(0 .. N)
    BY <1>13
  <2> QED
    BY <2>1, <2>2, <1>3, <1>4, <1>12
<1>15. /\ IsHeap(joined.heap, S, L) /\ NextQuad(joined.heap) = N
       /\ joined.list \in 0 .. N
  <2>1. joined = Concat(goto_false, all)
    BY <1>4
  <2>2. /\ IsHeap(joined.heap, S, L) /\ NextQuad(joined.heap) = NextQuad(goto_false)
        /\ joined.list \in 0 .. NextQuad(goto_false)
    BY <2>1, <1>11, <1>14, ConcatIsHeap
  <2> QED
    BY <2>2, <1>3, <1>12
<1>16. attr \in Attribute(S, N)
  <2>1. 0 \in 0 .. N /\ {t} \in SUBSET Nat /\ {u} \in SUBSET Nat
    BY <1>13
  <2> QED
    BY <2>1, <1>5, <1>8, <1>13, <1>15 DEF Attribute, Attr
<1>17. WellMade(heap', symbol_table') /\ NextQuad(heap') = N
  BY <1>6, <1>7, <1>11, <1>12, <1>15 DEF WellMade, Symbols
<1>18. attr \in ValuesOf(symbol_table', NextQuad(heap'))[Kind(f)]
  <2>1. attr.yes # {}
    BY <1>5 DEF Attr
  <2> QED
    BY <2>1, <1>7, <1>16, <1>17, ConditionsMade DEF Symbols
<1>19. NextQuad(heap) <= NextQuad(heap') /\ Kind(f) # "none"
  BY <1>10, <1>11, <1>12, <1>17
<1> QED
  BY <1>6, <1>17, <1>18, <1>19, ReduceStep

\* An expression as a condition leaves the invariant.
LEMMA ConditionFromExpressionStep ==
  ASSUME IInv, ConditionFromExpression PROVE IInv'
<1>1. PICK op1, op2, codes : /\ op1 = Value(1, 1).symbol /\ op2 = NewConst
                             /\ codes = <<Value(1, 1).code>>
  OBVIOUS
<1>2. /\ Reduce("TEST") /\ Branches(1, "BNE", op1, op2, codes)
      /\ symbol_table' = Pushed(NewConst, "INT", 0)
      /\ constants_count' = constants_count + 1
      /\ temps_count' = temps_count
  BY <1>1 DEF ConditionFromExpression, Branches, Built
<1>3. Takes("TEST") = <<"expr">> /\ Kind("TEST") = "cond"
  BY KindsOf, Taken
<1>4. 1 \in Nat /\ 1 = Len(Takes("TEST")) /\ 1 \in 1 .. 1
  BY <1>3
<1>5. op1 \in OrNone(Symbols) /\ codes \in Seq(0 .. NextQuad(heap))
  <2>1. /\ Value(1, 1).symbol \in OrNone(Symbols)
        /\ Value(1, 1).code \in 0 .. NextQuad(heap)
    BY <1>2, <1>4, PartsAre
  <2> QED
    BY <2>1, <1>1
<1>6. /\ TableKept' /\ Symbols' = Symbols \cup {NewConst}
      /\ Extends(symbol_table', symbol_table)
  <2>1. "INT" \in Types
    BY DEF Types
  <2> QED
    BY <2>1, <1>2, PushedConst DEF IInv
<1>7. op1 \in OrNone(Symbols') /\ op2 \in OrNone(Symbols')
  BY <1>1, <1>5, <1>6 DEF OrNone
<1>8. "BNE" \in BranchOps
  BY DEF BranchOps
<1> QED
  BY <1>2, <1>3, <1>4, <1>5, <1>6, <1>7, <1>8, BranchesStep

\* A comparison leaves the invariant.
LEMMA ConditionCompareExpressionsStep ==
  ASSUME IInv, ConditionCompareExpressions PROVE IInv'
<1>1. PICK op1, op2, codes :
        /\ op1 = Value(2, 1).symbol /\ op2 = Value(2, 2).symbol
        /\ codes = <<Value(2, 1).code, Value(2, 2).code>>
  OBVIOUS
<1>2. PICK op \in CompareOps : Branches(2, op, op1, op2, codes)
  BY <1>1 DEF ConditionCompareExpressions
<1>3. /\ Reduce("COMPARE")
      /\ UNCHANGED <<symbol_table, temps_count, constants_count>>
  BY <1>2 DEF ConditionCompareExpressions, Branches, Built
<1>4. Takes("COMPARE") = <<"expr", "expr">> /\ Kind("COMPARE") = "cond"
  BY KindsOf, Taken
<1>5. 2 \in Nat /\ 2 = Len(Takes("COMPARE")) /\ 1 \in 1 .. 2 /\ 2 \in 1 .. 2
  BY <1>4
<1>6. /\ op1 \in OrNone(Symbols) /\ op2 \in OrNone(Symbols)
      /\ codes \in Seq(0 .. NextQuad(heap))
  <2>1. \A k \in 1 .. 2 : /\ Value(2, k).symbol \in OrNone(Symbols)
                          /\ Value(2, k).code \in 0 .. NextQuad(heap)
    BY <1>3, <1>5, PartsAre
  <2> QED
    BY <2>1, <1>1, <1>5
<1>7. /\ TableKept' /\ Symbols' = Symbols
      /\ Extends(symbol_table', symbol_table)
  BY <1>3, TableSame DEF IInv
<1>8. op1 \in OrNone(Symbols') /\ op2 \in OrNone(Symbols')
  BY <1>6, <1>7
<1>9. op \in BranchOps
  BY FrontendAssumption
<1> QED
  BY <1>2, <1>3, <1>4, <1>5, <1>6, <1>7, <1>8, <1>9, BranchesStep

\* A condition that always or never holds is one branch.
LEMMA OneBranchStep ==
  ASSUME IInv, NEW f \in {"TRUE", "FALSE"}, Reduce(f),
         heap' = QuadNewEmpty(heap, "B"), NEW b, b = NextQuad(heap'),
         NEW t \in {0, b}, NEW u \in {0, b}, NEW yes \in SUBSET {b},
         NEW no \in SUBSET {b}, yes # {} \/ no # {}, NEW attr, Return(0, attr),
         attr = [code |-> b, symbol |-> NoSymbol, true_list |-> t,
                 false_list |-> u, yes |-> yes, no |-> no],
         UNCHANGED <<symbol_table, temps_count, constants_count>>,
         quad_list' = quad_list, status' = status
  PROVE  IInv'
<1>1. Takes(f) = <<>> /\ Kind(f) = "cond"
  BY KindsOf, NothingTaken
<1>2. 0 \in Nat /\ 0 = Len(Takes(f)) /\ Kind(f) = "cond"
  BY <1>1
<1>3. PICK L : L = LabelsUpTo(symbol_table, NextQuad(heap) + 1)
  OBVIOUS
<1>4. IsHeap(heap, Symbols, L)
  <2>1. NextQuad(heap) + 1 \in Nat /\ NextQuad(heap) <= NextQuad(heap) + 1
    BY ProgramIs
  <2> QED
    BY <2>1, <1>3, HeapStays
<1>5. /\ IsHeap(heap', Symbols, L) /\ NextQuad(heap') = NextQuad(heap) + 1
      /\ NextQuad(heap) \in Nat
  <2>1. /\ "B" \in Ops /\ NoSymbol \in OrNone(Symbols)
        /\ NoSymbol \in OrNone(L)
    BY DEF Ops, BranchOps, OrNone
  <2> QED
    BY <2>1, <1>4, QuadNewIsHeap DEF QuadNewEmpty
<1>6. /\ b \in Nat /\ NextQuad(heap) <= NextQuad(heap')
      /\ IsHeap(heap', Symbols, LabelsUpTo(symbol_table, NextQuad(heap')))
  BY <1>3, <1>5
<1>7. attr \in Attribute(Symbols, b)
  <2>1. b \in 0 .. b /\ 0 \in 0 .. b /\ NoSymbol \in OrNone(Symbols)
    BY <1>6 DEF OrNone
  <2>2. t \in 0 .. b /\ u \in 0 .. b
    BY <2>1
  <2>3. yes \in SUBSET Nat /\ no \in SUBSET Nat
    BY <1>6
  <2> QED
    BY <2>1, <2>2, <2>3 DEF Attribute
<1> QED
  BY <1>1, <1>2, <1>6, <1>7, ConditionStep

\* The condition `true' leaves the invariant.
LEMMA ConditionTrueStep == ASSUME IInv, ConditionTrue PROVE IInv'
<1>1. PICK b : b = NextQuad(heap')
  OBVIOUS
<1>2. PICK attr : attr = [Attr EXCEPT !.code = b, !.true_list = b, !.yes = {b}]
  OBVIOUS
<1>3. /\ Reduce("TRUE") /\ heap' = QuadNewEmpty(heap, "B") /\ Return(0, attr)
      /\ UNCHANGED <<symbol_table, temps_count, constants_count>>
      /\ quad_list' = quad_list /\ status' = status
  BY <1>1, <1>2 DEF ConditionTrue, Built
<1>4. attr = [code |-> b, symbol |-> NoSymbol, true_list |-> b,
              false_list |-> 0, yes |-> {b}, no |-> {}]
  BY <1>2 DEF Attr, NULL
<1>5. /\ "TRUE" \in {"TRUE", "FALSE"} /\ "FALSE" \in {"TRUE", "FALSE"}
      /\ b \in {0, b} /\ 0 \in {0, b}
      /\ {b} \in SUBSET {b} /\ {} \in SUBSET {b} /\ {b} # {}
  OBVIOUS
<1> QED
  BY <1>1, <1>3, <1>4, <1>5, OneBranchStep

\* The condition `false' leaves the invariant.
LEMMA ConditionFalseStep == ASSUME IInv, ConditionFalse PROVE IInv'
<1>1. PICK b : b = NextQuad(heap')
  OBVIOUS
<1>2. PICK attr : attr = [Attr EXCEPT !.code = b, !.false_list = b, !.no = {b}]
  OBVIOUS
<1>3. /\ Reduce("FALSE") /\ heap' = QuadNewEmpty(heap, "B") /\ Return(0, attr)
      /\ UNCHANGED <<symbol_table, temps_count, constants_count>>
      /\ quad_list' = quad_list /\ status' = status
  BY <1>1, <1>2 DEF ConditionFalse, Built
<1>4. attr = [code |-> b, symbol |-> NoSymbol, true_list |-> 0,
              false_list |-> b, yes |-> {}, no |-> {b}]
  BY <1>2 DEF Attr, NULL
<1>5. /\ "TRUE" \in {"TRUE", "FALSE"} /\ "FALSE" \in {"TRUE", "FALSE"}
      /\ b \in {0, b} /\ 0 \in {0, b}
      /\ {b} \in SUBSET {b} /\ {} \in SUBSET {b} /\ {b} # {}
  OBVIOUS
<1> QED
  BY <1>1, <1>3, <1>4, <1>5, OneBranchStep

\* Two lists that are concatenated.
LEMMA PairIsHeap ==
  ASSUME NEW S, NEW L, NEW h, IsHeap(h, S, L), NEW first \in 0 .. NextQuad(h),
         NEW second \in 0 .. NextQuad(h)
  PROVE  /\ IsHeap(Concat(h, <<first, second>>).heap, S, L)
         /\ NextQuad(Concat(h, <<first, second>>).heap) = NextQuad(h)
         /\ Concat(h, <<first, second>>).list \in 0 .. NextQuad(h)
<1>1. PICK pair : pair = <<first, second>>
  OBVIOUS
<1>2. pair \in Seq(0 .. NextQuad(h))
  BY <1>1
<1> QED
  BY <1>1, <1>2, ConcatIsHeap

\* An OR leaves the invariant.
LEMMA ConditionOrStep == ASSUME IInv, ConditionOr PROVE IInv'
<1>1. PICK cond1, cond2, tag : /\ cond1 = Value(3, 1) /\ cond2 = Value(3, 3)
                               /\ tag = Value(3, 2).symbol
  OBVIOUS
<1>2. PICK completed : completed = Complete(heap, cond1.false_list, tag)
  OBVIOUS
<1>3. PICK code : code = Concat(completed, <<cond1.code, cond2.code>>)
  OBVIOUS
<1>4. PICK exits : exits = Concat(code.heap, <<cond1.true_list, cond2.true_list>>)
  OBVIOUS
<1>5. PICK attr : attr = [Attr EXCEPT !.code = code.list,
                                      !.true_list = exits.list,
                                      !.false_list = cond2.false_list,
                                      !.yes = cond1.yes \cup cond2.yes, !.no = cond2.no]
  OBVIOUS
<1>6. /\ Reduce("OR") /\ heap' = exits.heap /\ Return(3, attr)
      /\ UNCHANGED <<symbol_table, temps_count, constants_count>>
      /\ quad_list' = quad_list /\ status' = status
  BY <1>1, <1>2, <1>3, <1>4, <1>5 DEF ConditionOr, Built
<1>7. Takes("OR") = <<"cond", "tag", "cond">> /\ Kind("OR") = "cond"
  BY KindsOf, Taken
<1>8. /\ 3 \in Nat /\ 3 = Len(Takes("OR")) /\ Takes("OR")[2] = "tag"
      /\ 1 \in 1 .. 3 /\ 2 \in 1 .. 3 /\ 3 \in 1 .. 3
  BY <1>7
<1>9. \A k \in 1 .. 3 :
         /\ Value(3, k).code \in 0 .. NextQuad(heap)
         /\ Value(3, k).true_list \in 0 .. NextQuad(heap)
         /\ Value(3, k).false_list \in 0 .. NextQuad(heap)
         /\ Value(3, k).yes \in SUBSET Nat /\ Value(3, k).no \in SUBSET Nat
         /\ Takes("OR")[k] = "cond" => Value(3, k).yes # {} \/ Value(3, k).no # {}
  BY <1>6, <1>8, PartsAre
<1>10. /\ cond1.code \in 0 .. NextQuad(heap) /\ cond2.code \in 0 .. NextQuad(heap)
       /\ cond1.true_list \in 0 .. NextQuad(heap)
       /\ cond2.true_list \in 0 .. NextQuad(heap)
       /\ cond2.false_list \in 0 .. NextQuad(heap)
  BY <1>1, <1>8, <1>9
<1>11. PICK L : L = LabelsUpTo(symbol_table, NextQuad(heap))
  OBVIOUS
<1>12. /\ IsHeap(heap, Symbols, L) /\ L \subseteq Symbols
       /\ NextQuad(heap) \in Nat
  BY <1>11, ProgramIs DEF WellMade, LabelsUpTo, Symbols
<1>13. tag \in OrNone(L)
  <2>1. /\ "tag" \in DOMAIN Late /\ Late["tag"] <= 0 /\ 0 \in Nat
        /\ NextQuad(heap) + 0 = NextQuad(heap)
    BY <1>12 DEF Late
  <2>2. Value(3, 2).symbol
          \in OrNone(LabelsUpTo(symbol_table, NextQuad(heap) + 0))
    BY <2>1, <1>6, <1>8, TagIs
  <2> QED
    BY <2>1, <2>2, <1>1, <1>11
<1>14. /\ IsHeap(exits.heap, Symbols, L) /\ NextQuad(exits.heap) = NextQuad(heap)
       /\ code.list \in 0 .. NextQuad(heap) /\ exits.list \in 0 .. NextQuad(heap)
  <2>1. IsHeap(completed, Symbols, L) /\ NextQuad(completed) = NextQuad(heap)
    BY <1>2, <1>12, <1>13, CompleteIsHeap
  <2>2. /\ IsHeap(code.heap, Symbols, L) /\ NextQuad(code.heap) = NextQuad(heap)
        /\ code.list \in 0 .. NextQuad(heap)
    BY <2>1, <1>3, <1>10, PairIsHeap
  <2> QED
    BY <2>2, <1>4, <1>10, PairIsHeap
<1>15. attr \in Attribute(Symbols, NextQuad(heap))
  <2>1. /\ cond1.yes \in SUBSET Nat /\ cond1.no \in SUBSET Nat
        /\ cond2.yes \in SUBSET Nat /\ cond2.no \in SUBSET Nat
    BY <1>1, <1>8, <1>9
  <2>2. cond1.yes \cup cond2.yes \in SUBSET Nat /\ cond2.no \in SUBSET Nat
    BY <2>1
  <2>3. NoSymbol \in OrNone(Symbols)
    BY DEF OrNone
  <2> QED
    BY <2>2, <2>3, <1>5, <1>10, <1>14 DEF Attribute, Attr
<1>16. /\ attr \in Attribute(Symbols, NextQuad(heap'))
       /\ NextQuad(heap) <= NextQuad(heap')
       /\ IsHeap(heap', Symbols, LabelsUpTo(symbol_table, NextQuad(heap')))
  BY <1>6, <1>11, <1>12, <1>14, <1>15
<1>17. attr.yes # {} \/ attr.no # {}
  <2>1. cond2.yes # {} \/ cond2.no # {}
    BY <1>1, <1>7, <1>8, <1>9
  <2> QED
    BY <2>1, <1>5 DEF Attr
<1> QED
  BY <1>6, <1>7, <1>8, <1>16, <1>17, ConditionStep

\* An AND leaves the invariant.
LEMMA ConditionAndStep == ASSUME IInv, ConditionAnd PROVE IInv'
<1>1. PICK cond1, cond2, tag : /\ cond1 = Value(3, 1) /\ cond2 = Value(3, 3)
                               /\ tag = Value(3, 2).symbol
  OBVIOUS
<1>2. PICK completed : completed = Complete(heap, cond1.false_list, tag)
  OBVIOUS
<1>3. PICK code : code = Concat(completed, <<cond1.code, cond2.code>>)
  OBVIOUS
<1>4. PICK exits : exits = Concat(code.heap, <<cond1.false_list, cond2.false_list>>)
  OBVIOUS
<1>5. PICK attr : attr = [Attr EXCEPT !.code = code.list,
                                      !.false_list = exits.list,
                                      !.true_list = cond2.true_list,
                                      !.yes = cond2.yes, !.no = cond1.no \cup cond2.no]
  OBVIOUS
<1>6. /\ Reduce("AND") /\ heap' = exits.heap /\ Return(3, attr)
      /\ UNCHANGED <<symbol_table, temps_count, constants_count>>
      /\ quad_list' = quad_list /\ status' = status
  BY <1>1, <1>2, <1>3, <1>4, <1>5 DEF ConditionAnd, Built
<1>7. Takes("AND") = <<"cond", "tag", "cond">> /\ Kind("AND") = "cond"
  BY KindsOf, Taken
<1>8. /\ 3 \in Nat /\ 3 = Len(Takes("AND")) /\ Takes("AND")[2] = "tag"
      /\ 1 \in 1 .. 3 /\ 2 \in 1 .. 3 /\ 3 \in 1 .. 3
  BY <1>7
<1>9. \A k \in 1 .. 3 :
         /\ Value(3, k).code \in 0 .. NextQuad(heap)
         /\ Value(3, k).true_list \in 0 .. NextQuad(heap)
         /\ Value(3, k).false_list \in 0 .. NextQuad(heap)
         /\ Value(3, k).yes \in SUBSET Nat /\ Value(3, k).no \in SUBSET Nat
         /\ Takes("AND")[k] = "cond" => Value(3, k).yes # {} \/ Value(3, k).no # {}
  BY <1>6, <1>8, PartsAre
<1>10. /\ cond1.code \in 0 .. NextQuad(heap) /\ cond2.code \in 0 .. NextQuad(heap)
       /\ cond1.false_list \in 0 .. NextQuad(heap)
       /\ cond2.true_list \in 0 .. NextQuad(heap)
       /\ cond2.false_list \in 0 .. NextQuad(heap)
  BY <1>1, <1>8, <1>9
<1>11. PICK L : L = LabelsUpTo(symbol_table, NextQuad(heap))
  OBVIOUS
<1>12. /\ IsHeap(heap, Symbols, L) /\ L \subseteq Symbols
       /\ NextQuad(heap) \in Nat
  BY <1>11, ProgramIs DEF WellMade, LabelsUpTo, Symbols
<1>13. tag \in OrNone(L)
  <2>1. /\ "tag" \in DOMAIN Late /\ Late["tag"] <= 0 /\ 0 \in Nat
        /\ NextQuad(heap) + 0 = NextQuad(heap)
    BY <1>12 DEF Late
  <2>2. Value(3, 2).symbol
          \in OrNone(LabelsUpTo(symbol_table, NextQuad(heap) + 0))
    BY <2>1, <1>6, <1>8, TagIs
  <2> QED
    BY <2>1, <2>2, <1>1, <1>11
<1>14. /\ IsHeap(exits.heap, Symbols, L) /\ NextQuad(exits.heap) = NextQuad(heap)
       /\ code.list \in 0 .. NextQuad(heap) /\ exits.list \in 0 .. NextQuad(heap)
  <2>1. IsHeap(completed, Symbols, L) /\ NextQuad(completed) = NextQuad(heap)
    BY <1>2, <1>12, <1>13, CompleteIsHeap
  <2>2. /\ IsHeap(code.heap, Symbols, L) /\ NextQuad(code.heap) = NextQuad(heap)
        /\ code.list \in 0 .. NextQuad(heap)
    BY <2>1, <1>3, <1>10, PairIsHeap
  <2> QED
    BY <2>2, <1>4, <1>10, PairIsHeap
<1>15. attr \in Attribute(Symbols, NextQuad(heap))
  <2>1. /\ cond1.yes \in SUBSET Nat /\ cond1.no \in SUBSET Nat
        /\ cond2.yes \in SUBSET Nat /\ cond2.no \in SUBSET Nat
    BY <1>1, <1>8, <1>9
  <2>2. cond2.yes \in SUBSET Nat /\ cond1.no \cup cond2.no \in SUBSET Nat
    BY <2>1
  <2>3. NoSymbol \in OrNone(Symbols)
    BY DEF OrNone
  <2> QED
    BY <2>2, <2>3, <1>5, <1>10, <1>14 DEF Attribute, Attr
<1>16. /\ attr \in Attribute(Symbols, NextQuad(heap'))
       /\ NextQuad(heap) <= NextQuad(heap')
       /\ IsHeap(heap', Symbols, LabelsUpTo(symbol_table, NextQuad(heap')))
  BY <1>6, <1>11, <1>12, <1>14, <1>15
<1>17. attr.yes # {} \/ attr.no # {}
  <2>1. cond2.yes # {} \/ cond2.no # {}
    BY <1>1, <1>7, <1>8, <1>9
  <2> QED
    BY <2>1, <1>5 DEF Attr
<1> QED
  BY <1>6, <1>7, <1>8, <1>16, <1>17, ConditionStep

\* A NOT leaves the invariant.
LEMMA ConditionNotStep == ASSUME IInv, ConditionNot PROVE IInv'
<1>1. PICK op : op = Value(1, 1)
  OBVIOUS
<1>2. PICK attr : attr = [op EXCEPT !.true_list = op.false_list,
                                    !.false_list = op.true_list,
                                    !.yes = op.no, !.no = op.yes]
  OBVIOUS
<1>3. /\ Reduce("NOT") /\ Return(1, attr) /\ heap' = heap
      /\ UNCHANGED <<symbol_table, temps_count, constants_count>>
      /\ quad_list' = quad_list /\ status' = status
  BY <1>1, <1>2 DEF ConditionNot, program
<1>4. Takes("NOT") = <<"cond">> /\ Kind("NOT") = "cond"
  BY KindsOf, Taken
<1>5. 1 \in Nat /\ 1 = Len(Takes("NOT")) /\ 1 \in 1 .. 1
  BY <1>4
<1>6. op \in Attribute(Symbols, NextQuad(heap))
  BY <1>1, <1>3, <1>5, PartsAre
<1>7. /\ attr \in Attribute(Symbols, NextQuad(heap))
      /\ attr.yes # {} \/ attr.no # {}
  <2>1. op.yes # {} \/ op.no # {}
    <3>1. Takes("NOT")[1] = "cond"
      BY <1>4
    <3>2. \A k \in 1 .. 1 : Takes("NOT")[k] = "cond" =>
                              Value(1, k).yes # {} \/ Value(1, k).no # {}
      BY <1>3, <1>5, PartsAre
    <3> QED
      BY <3>1, <3>2, <1>1, <1>5
  <2> QED
    BY <2>1, <1>2, <1>6 DEF Attribute
<1>8. /\ attr \in Attribute(Symbols, NextQuad(heap'))
      /\ IsHeap(heap', Symbols, LabelsUpTo(symbol_table, NextQuad(heap')))
      /\ NextQuad(heap) <= NextQuad(heap')
  BY <1>3, <1>7, HeapSame, ProgramIs DEF WellMade, Symbols
<1> QED
  BY <1>3, <1>4, <1>5, <1>7, <1>8, ConditionStep

-----------------------------------------------------------------------------
(***************************************************************************)
(* The invariant, action by action: control structures.                    *)
(***************************************************************************)

\* A control structure leaves the code that it has concatenated.
LEMMA ControlStep ==
  ASSUME IInv, NEW f, Reduce(f), NEW n \in Nat, n = Len(Takes(f)),
         Kind(f) = "code", NEW h,
         IsHeap(h, Symbols, LabelsUpTo(symbol_table, NextQuad(h))),
         NextQuad(heap) <= NextQuad(h), NEW codes \in Seq(0 .. NextQuad(h)),
         NEW joined, joined = Concat(h, codes), heap' = joined.heap,
         Return(n, Code(joined.list)),
         UNCHANGED <<symbol_table, temps_count, constants_count>>,
         quad_list' = quad_list, status' = status
  PROVE  IInv'
<1>1. PICK attr : attr = Code(joined.list)
  OBVIOUS
<1>2. PICK L : L = LabelsUpTo(symbol_table, NextQuad(h))
  OBVIOUS
<1>3. /\ IsHeap(heap', Symbols, L) /\ NextQuad(heap') = NextQuad(h)
      /\ joined.list \in 0 .. NextQuad(h)
  BY <1>2, ConcatIsHeap
<1>4. NextQuad(h) \in Nat
  BY DEF IsHeap, NextQuad
<1>5. /\ attr \in ValuesOf(symbol_table, NextQuad(heap'))[Kind(f)]
      /\ IsHeap(heap', Symbols, LabelsUpTo(symbol_table, NextQuad(heap')))
      /\ Return(n, attr) /\ NextQuad(heap) <= NextQuad(heap')
      /\ Kind(f) # "none"
  BY <1>1, <1>2, <1>3, <1>4, CodeMade
<1> QED
  BY <1>5, SameTableStep

\* The lists of a condition get labels of the program.
LEMMA SettleIsHeap ==
  ASSUME NEW S, NEW L, NEW h, IsHeap(h, S, L), L \subseteq S, NEW cond,
         NEW true_tag \in OrNone(L), NEW false_tag \in OrNone(L)
  PROVE  /\ IsHeap(Settle(h, cond, true_tag, false_tag), S, L)
         /\ NextQuad(Settle(h, cond, true_tag, false_tag)) = NextQuad(h)
<1>1. PICK once : once = Complete(h, cond.true_list, true_tag)
  OBVIOUS
<1>2. IsHeap(once, S, L) /\ NextQuad(once) = NextQuad(h)
  BY <1>1, CompleteIsHeap
<1>3. Settle(h, cond, true_tag, false_tag) =
        Complete(once, cond.false_list, false_tag)
  BY <1>1 DEF Settle
<1> QED
  BY <1>2, <1>3, CompleteIsHeap

\* A goto is one more node.
LEMMA GotoIsHeap ==
  ASSUME NEW S, NEW L, NEW h, IsHeap(h, S, L), L \subseteq S,
         NEW label \in OrNone(L)
  PROVE  /\ IsHeap(Goto(h, label), S, L)
         /\ NextQuad(Goto(h, label)) = NextQuad(h) + 1 /\ NextQuad(h) \in Nat
<1>1. "B" \in Ops /\ NoSymbol \in OrNone(S) /\ label \in OrNone(S)
  BY DEF Ops, BranchOps, OrNone
<1> QED
  BY <1>1, QuadNewIsHeap DEF Goto

\* The heap can be given labels for as many gotos as it will get.
LEMMA HeapForGotos ==
  ASSUME IInv, NEW gotos \in Nat, NEW L,
         L = LabelsUpTo(symbol_table, NextQuad(heap) + gotos)
  PROVE  /\ IsHeap(heap, Symbols, L) /\ L \subseteq Symbols
         /\ NextQuad(heap) \in Nat
<1>1. /\ NextQuad(heap) + gotos \in Nat
      /\ NextQuad(heap) <= NextQuad(heap) + gotos
  BY ProgramIs
<1> QED
  BY <1>1, HeapStays, ProgramIs DEF LabelsUpTo, Symbols

\* An if leaves the invariant.
LEMMA ControlIfStep == ASSUME IInv, ControlIf PROVE IInv'
<1>1. PICK settled : settled = Settle(heap, Value(4, 1),
                                     Value(4, 2).symbol, Value(4, 4).symbol)
  OBVIOUS
<1>2. PICK codes : codes =
        <<Value(4, 1).code,
          Value(4, 3).code>>
  OBVIOUS
<1>3. PICK joined : joined = Concat(settled, codes)
  OBVIOUS
<1>4. /\ Reduce("IF") /\ heap' = joined.heap /\ Return(4, Code(joined.list))
      /\ UNCHANGED <<symbol_table, temps_count, constants_count>>
      /\ quad_list' = quad_list /\ status' = status
  BY <1>1, <1>2, <1>3 DEF ControlIf, Built, UnchangedByControl
<1>5. /\ Takes("IF") = <<"cond", "tag", "code", "tag">>
      /\ Kind("IF") = "code"
  BY KindsOf, Taken
<1>6. /\ 4 \in Nat /\ 4 = Len(Takes("IF"))
      /\ 1 \in 1 .. 4 /\ 2 \in 1 .. 4 /\ 3 \in 1 .. 4 /\ 4 \in 1 .. 4
      /\ Takes("IF")[2] = "tag"
      /\ Takes("IF")[4] = "tag"
  BY <1>5
<1>7. \A k \in 1 .. 4 : Value(4, k).code \in 0 .. NextQuad(heap)
  BY <1>4, <1>6, PartsAre
<1>8. PICK L : L = LabelsUpTo(symbol_table, NextQuad(heap) + 0)
  OBVIOUS
<1>9. /\ IsHeap(heap, Symbols, L) /\ L \subseteq Symbols
      /\ NextQuad(heap) \in Nat
  BY <1>8, HeapForGotos
<1>10. /\ Value(4, 2).symbol \in OrNone(L)
      /\ Value(4, 4).symbol \in OrNone(L)
  <2>1. /\ 0 \in Nat
        /\ "tag" \in DOMAIN Late /\ Late["tag"] <= 0
    BY DEF Late
  <2> QED
    BY <2>1, <1>4, <1>6, <1>8, TagIs
<1>11. IsHeap(settled, Symbols, L) /\ NextQuad(settled) = NextQuad(heap)
  BY <1>1, <1>9, <1>10, SettleIsHeap
<1>12. /\ codes \in Seq(0 .. NextQuad(settled)) /\ NextQuad(heap) <= NextQuad(settled)
       /\ IsHeap(settled, Symbols, LabelsUpTo(symbol_table, NextQuad(settled)))
  <2>1. /\ NextQuad(heap) <= NextQuad(settled) /\ NextQuad(settled) \in Nat
        /\ NextQuad(settled) = NextQuad(heap) + 0
    BY <1>9, <1>11
  <2>2. \A m \in 0 .. NextQuad(heap) : m \in 0 .. NextQuad(settled)
    BY <2>1, <1>9
  <2>3. /\ Value(4, 1).code \in 0 .. NextQuad(settled)
        /\ Value(4, 3).code \in 0 .. NextQuad(settled)
    BY <2>1, <2>2, <1>6, <1>7, <1>9, <1>11
  <2>4. codes \in Seq(0 .. NextQuad(settled))
    BY <2>3, <1>2
  <2> QED
    BY <2>1, <2>4, <1>8, <1>11
<1> QED
  BY <1>3, <1>4, <1>5, <1>6, <1>12, ControlStep

\* An if with an else leaves the invariant.
LEMMA ControlIfElseStep == ASSUME IInv, ControlIfElse PROVE IInv'
<1>1. PICK settled : settled = Settle(heap, Value(6, 1),
                                     Value(6, 2).symbol, Value(6, 4).symbol)
  OBVIOUS
<1>2. PICK made : made = Goto(settled, Value(6, 6).symbol)
  OBVIOUS
<1>3. PICK codes : codes =
        <<Value(6, 1).code,
          Value(6, 3).code,
          NextQuad(made),
          Value(6, 5).code>>
  OBVIOUS
<1>4. PICK joined : joined = Concat(made, codes)
  OBVIOUS
<1>5. /\ Reduce("IF_ELSE") /\ heap' = joined.heap /\ Return(6, Code(joined.list))
      /\ UNCHANGED <<symbol_table, temps_count, constants_count>>
      /\ quad_list' = quad_list /\ status' = status
  BY <1>1, <1>2, <1>3, <1>4 DEF ControlIfElse, Built, UnchangedByControl
<1>6. /\ Takes("IF_ELSE") = <<"cond", "tag", "code", "tag1", "code", "tag1">>
      /\ Kind("IF_ELSE") = "code"
  BY KindsOf, Taken
<1>7. /\ 6 \in Nat /\ 6 = Len(Takes("IF_ELSE"))
      /\ 1 \in 1 .. 6 /\ 2 \in 1 .. 6 /\ 3 \in 1 .. 6 /\ 4 \in 1 .. 6
      /\ 5 \in 1 .. 6 /\ 6 \in 1 .. 6
      /\ Takes("IF_ELSE")[2] = "tag"
      /\ Takes("IF_ELSE")[4] = "tag1"
      /\ Takes("IF_ELSE")[6] = "tag1"
  BY <1>6
<1>8. \A k \in 1 .. 6 : Value(6, k).code \in 0 .. NextQuad(heap)
  BY <1>5, <1>7, PartsAre
<1>9. PICK L : L = LabelsUpTo(symbol_table, NextQuad(heap) + 1)
  OBVIOUS
<1>10. /\ IsHeap(heap, Symbols, L) /\ L \subseteq Symbols
      /\ NextQuad(heap) \in Nat
  BY <1>9, HeapForGotos
<1>11. /\ Value(6, 2).symbol \in OrNone(L)
      /\ Value(6, 4).symbol \in OrNone(L)
      /\ Value(6, 6).symbol \in OrNone(L)
  <2>1. /\ 1 \in Nat
        /\ "tag" \in DOMAIN Late /\ Late["tag"] <= 1
        /\ "tag1" \in DOMAIN Late /\ Late["tag1"] <= 1
    BY DEF Late
  <2> QED
    BY <2>1, <1>5, <1>7, <1>9, TagIs
<1>12. IsHeap(settled, Symbols, L) /\ NextQuad(settled) = NextQuad(heap)
  BY <1>1, <1>10, <1>11, SettleIsHeap
<1>13. IsHeap(made, Symbols, L) /\ NextQuad(made) = NextQuad(heap) + 1
  BY <1>2, <1>10, <1>11, <1>12, GotoIsHeap
<1>14. /\ codes \in Seq(0 .. NextQuad(made)) /\ NextQuad(heap) <= NextQuad(made)
       /\ IsHeap(made, Symbols, LabelsUpTo(symbol_table, NextQuad(made)))
  <2>1. /\ NextQuad(heap) <= NextQuad(made) /\ NextQuad(made) \in Nat
        /\ NextQuad(made) = NextQuad(heap) + 1
    BY <1>10, <1>12, <1>13
  <2>2. \A m \in 0 .. NextQuad(heap) : m \in 0 .. NextQuad(made)
    BY <2>1, <1>10
  <2>3. /\ Value(6, 1).code \in 0 .. NextQuad(made)
        /\ Value(6, 3).code \in 0 .. NextQuad(made)
        /\ NextQuad(made) \in 0 .. NextQuad(made)
        /\ Value(6, 5).code \in 0 .. NextQuad(made)
    BY <2>1, <2>2, <1>7, <1>8, <1>10, <1>12, <1>13
  <2>4. codes \in Seq(0 .. NextQuad(made))
    BY <2>3, <1>3
  <2> QED
    BY <2>1, <2>4, <1>9, <1>13
<1> QED
  BY <1>4, <1>5, <1>6, <1>7, <1>14, ControlStep

\* A while leaves the invariant.
LEMMA ControlWhileStep == ASSUME IInv, ControlWhile PROVE IInv'
<1>1. PICK settled : settled = Settle(heap, Value(5, 2),
                                     Value(5, 3).symbol, Value(5, 5).symbol)
  OBVIOUS
<1>2. PICK made : made = Goto(settled, Value(5, 1).symbol)
  OBVIOUS
<1>3. PICK codes : codes =
        <<Value(5, 2).code,
          Value(5, 4).code,
          NextQuad(made)>>
  OBVIOUS
<1>4. PICK joined : joined = Concat(made, codes)
  OBVIOUS
<1>5. /\ Reduce("WHILE") /\ heap' = joined.heap /\ Return(5, Code(joined.list))
      /\ UNCHANGED <<symbol_table, temps_count, constants_count>>
      /\ quad_list' = quad_list /\ status' = status
  BY <1>1, <1>2, <1>3, <1>4 DEF ControlWhile, Built, UnchangedByControl
<1>6. /\ Takes("WHILE") = <<"tag", "cond", "tag", "code", "tag1">>
      /\ Kind("WHILE") = "code"
  BY KindsOf, Taken
<1>7. /\ 5 \in Nat /\ 5 = Len(Takes("WHILE"))
      /\ 1 \in 1 .. 5 /\ 2 \in 1 .. 5 /\ 3 \in 1 .. 5 /\ 4 \in 1 .. 5
      /\ 5 \in 1 .. 5
      /\ Takes("WHILE")[1] = "tag"
      /\ Takes("WHILE")[3] = "tag"
      /\ Takes("WHILE")[5] = "tag1"
  BY <1>6
<1>8. \A k \in 1 .. 5 : Value(5, k).code \in 0 .. NextQuad(heap)
  BY <1>5, <1>7, PartsAre
<1>9. PICK L : L = LabelsUpTo(symbol_table, NextQuad(heap) + 1)
  OBVIOUS
<1>10. /\ IsHeap(heap, Symbols, L) /\ L \subseteq Symbols
      /\ NextQuad(heap) \in Nat
  BY <1>9, HeapForGotos
<1>11. /\ Value(5, 1).symbol \in OrNone(L)
      /\ Value(5, 3).symbol \in OrNone(L)
      /\ Value(5, 5).symbol \in OrNone(L)
  <2>1. /\ 1 \in Nat
        /\ "tag" \in DOMAIN Late /\ Late["tag"] <= 1
        /\ "tag1" \in DOMAIN Late /\ Late["tag1"] <= 1
    BY DEF Late
  <2> QED
    BY <2>1, <1>5, <1>7, <1>9, TagIs
<1>12. IsHeap(settled, Symbols, L) /\ NextQuad(settled) = NextQuad(heap)
  BY <1>1, <1>10, <1>11, SettleIsHeap
<1>13. IsHeap(made, Symbols, L) /\ NextQuad(made) = NextQuad(heap) + 1
  BY <1>2, <1>10, <1>11, <1>12, GotoIsHeap
<1>14. /\ codes \in Seq(0 .. NextQuad(made)) /\ NextQuad(heap) <= NextQuad(made)
       /\ IsHeap(made, Symbols, LabelsUpTo(symbol_table, NextQuad(made)))
  <2>1. /\ NextQuad(heap) <= NextQuad(made) /\ NextQuad(made) \in Nat
        /\ NextQuad(made) = NextQuad(heap) + 1
    BY <1>10, <1>12, <1>13
  <2>2. \A m \in 0 .. NextQuad(heap) : m \in 0 .. NextQuad(made)
    BY <2>1, <1>10
  <2>3. /\ Value(5, 2).code \in 0 .. NextQuad(made)
        /\ Value(5, 4).code \in 0 .. NextQuad(made)
        /\ NextQuad(made) \in 0 .. NextQuad(made)
    BY <2>1, <2>2, <1>7, <1>8, <1>10, <1>12, <1>13
  <2>4. codes \in Seq(0 .. NextQuad(made))
    BY <2>3, <1>3
  <2> QED
    BY <2>1, <2>4, <1>9, <1>13
<1> QED
  BY <1>4, <1>5, <1>6, <1>7, <1>14, ControlStep

\* A do leaves the invariant.
LEMMA ControlDoWhileStep == ASSUME IInv, ControlDoWhile PROVE IInv'
<1>1. PICK settled : settled = Settle(heap, Value(4, 3),
                                     Value(4, 1).symbol, Value(4, 4).symbol)
  OBVIOUS
<1>2. PICK codes : codes =
        <<Value(4, 2).code,
          Value(4, 3).code>>
  OBVIOUS
<1>3. PICK joined : joined = Concat(settled, codes)
  OBVIOUS
<1>4. /\ Reduce("DO") /\ heap' = joined.heap /\ Return(4, Code(joined.list))
      /\ UNCHANGED <<symbol_table, temps_count, constants_count>>
      /\ quad_list' = quad_list /\ status' = status
  BY <1>1, <1>2, <1>3 DEF ControlDoWhile, Built, UnchangedByControl
<1>5. /\ Takes("DO") = <<"tag", "code", "cond", "tag">>
      /\ Kind("DO") = "code"
  BY KindsOf, Taken
<1>6. /\ 4 \in Nat /\ 4 = Len(Takes("DO"))
      /\ 1 \in 1 .. 4 /\ 2 \in 1 .. 4 /\ 3 \in 1 .. 4 /\ 4 \in 1 .. 4
      /\ Takes("DO")[1] = "tag"
      /\ Takes("DO")[4] = "tag"
  BY <1>5
<1>7. \A k \in 1 .. 4 : Value(4, k).code \in 0 .. NextQuad(heap)
  BY <1>4, <1>6, PartsAre
<1>8. PICK L : L = LabelsUpTo(symbol_table, NextQuad(heap) + 0)
  OBVIOUS
<1>9. /\ IsHeap(heap, Symbols, L) /\ L \subseteq Symbols
      /\ NextQuad(heap) \in Nat
  BY <1>8, HeapForGotos
<1>10. /\ Value(4, 1).symbol \in OrNone(L)
      /\ Value(4, 4).symbol \in OrNone(L)
  <2>1. /\ 0 \in Nat
        /\ "tag" \in DOMAIN Late /\ Late["tag"] <= 0
    BY DEF Late
  <2> QED
    BY <2>1, <1>4, <1>6, <1>8, TagIs
<1>11. IsHeap(settled, Symbols, L) /\ NextQuad(settled) = NextQuad(heap)
  BY <1>1, <1>9, <1>10, SettleIsHeap
<1>12. /\ codes \in Seq(0 .. NextQuad(settled)) /\ NextQuad(heap) <= NextQuad(settled)
       /\ IsHeap(settled, Symbols, LabelsUpTo(symbol_table, NextQuad(settled)))
  <2>1. /\ NextQuad(heap) <= NextQuad(settled) /\ NextQuad(settled) \in Nat
        /\ NextQuad(settled) = NextQuad(heap) + 0
    BY <1>9, <1>11
  <2>2. \A m \in 0 .. NextQuad(heap) : m \in 0 .. NextQuad(settled)
    BY <2>1, <1>9
  <2>3. /\ Value(4, 2).code \in 0 .. NextQuad(settled)
        /\ Value(4, 3).code \in 0 .. NextQuad(settled)
    BY <2>1, <2>2, <1>6, <1>7, <1>9, <1>11
  <2>4. codes \in Seq(0 .. NextQuad(settled))
    BY <2>3, <1>2
  <2> QED
    BY <2>1, <2>4, <1>8, <1>11
<1> QED
  BY <1>3, <1>4, <1>5, <1>6, <1>12, ControlStep

\* A for leaves the invariant.
LEMMA ControlForStep == ASSUME IInv, ControlFor PROVE IInv'
<1>1. PICK settled : settled = Settle(heap, Value(8, 3),
                                     Value(8, 6).symbol, Value(8, 8).symbol)
  OBVIOUS
<1>2. PICK condition_again : condition_again = Goto(settled, Value(8, 2).symbol)
  OBVIOUS
<1>3. PICK made : made = Goto(condition_again, Value(8, 4).symbol)
  OBVIOUS
<1>4. PICK codes : codes =
        <<Value(8, 1).code,
          Value(8, 3).code,
          Value(8, 5).code,
          NextQuad(condition_again),
          Value(8, 7).code,
          NextQuad(made)>>
  OBVIOUS
<1>5. PICK joined : joined = Concat(made, codes)
  OBVIOUS
<1>6. /\ Reduce("FOR") /\ heap' = joined.heap /\ Return(8, Code(joined.list))
      /\ UNCHANGED <<symbol_table, temps_count, constants_count>>
      /\ quad_list' = quad_list /\ status' = status
  BY <1>1, <1>2, <1>3, <1>4, <1>5 DEF ControlFor, Built, UnchangedByControl
<1>7. /\ Takes("FOR") = <<"code", "tag", "cond", "tag", "code", "tag1",
                          "code", "tag2">>
      /\ Kind("FOR") = "code"
  BY KindsOf, Taken
<1>8. /\ 8 \in Nat /\ 8 = Len(Takes("FOR"))
      /\ 1 \in 1 .. 8 /\ 2 \in 1 .. 8 /\ 3 \in 1 .. 8 /\ 4 \in 1 .. 8
      /\ 5 \in 1 .. 8 /\ 6 \in 1 .. 8 /\ 7 \in 1 .. 8 /\ 8 \in 1 .. 8
      /\ Takes("FOR")[2] = "tag"
      /\ Takes("FOR")[4] = "tag"
      /\ Takes("FOR")[6] = "tag1"
      /\ Takes("FOR")[8] = "tag2"
  BY <1>7
<1>9. \A k \in 1 .. 8 : Value(8, k).code \in 0 .. NextQuad(heap)
  BY <1>6, <1>8, PartsAre
<1>10. PICK L : L = LabelsUpTo(symbol_table, NextQuad(heap) + 2)
  OBVIOUS
<1>11. /\ IsHeap(heap, Symbols, L) /\ L \subseteq Symbols
      /\ NextQuad(heap) \in Nat
  BY <1>10, HeapForGotos
<1>12. /\ Value(8, 2).symbol \in OrNone(L)
      /\ Value(8, 4).symbol \in OrNone(L)
      /\ Value(8, 6).symbol \in OrNone(L)
      /\ Value(8, 8).symbol \in OrNone(L)
  <2>1. /\ 2 \in Nat
        /\ "tag" \in DOMAIN Late /\ Late["tag"] <= 2
        /\ "tag1" \in DOMAIN Late /\ Late["tag1"] <= 2
        /\ "tag2" \in DOMAIN Late /\ Late["tag2"] <= 2
    BY DEF Late
  <2> QED
    BY <2>1, <1>6, <1>8, <1>10, TagIs
<1>13. IsHeap(settled, Symbols, L) /\ NextQuad(settled) = NextQuad(heap)
  BY <1>1, <1>11, <1>12, SettleIsHeap
<1>14. IsHeap(condition_again, Symbols, L) /\ NextQuad(condition_again) = NextQuad(heap) + 1
  BY <1>2, <1>11, <1>12, <1>13, GotoIsHeap
<1>15. IsHeap(made, Symbols, L) /\ NextQuad(made) = NextQuad(heap) + 2
  BY <1>3, <1>11, <1>12, <1>13, <1>14, GotoIsHeap
<1>16. /\ codes \in Seq(0 .. NextQuad(made)) /\ NextQuad(heap) <= NextQuad(made)
       /\ IsHeap(made, Symbols, LabelsUpTo(symbol_table, NextQuad(made)))
  <2>1. /\ NextQuad(heap) <= NextQuad(made) /\ NextQuad(made) \in Nat
        /\ NextQuad(made) = NextQuad(heap) + 2
    BY <1>11, <1>13, <1>14, <1>15
  <2>2. \A m \in 0 .. NextQuad(heap) : m \in 0 .. NextQuad(made)
    BY <2>1, <1>11
  <2>3. /\ Value(8, 1).code \in 0 .. NextQuad(made)
        /\ Value(8, 3).code \in 0 .. NextQuad(made)
        /\ Value(8, 5).code \in 0 .. NextQuad(made)
        /\ NextQuad(condition_again) \in 0 .. NextQuad(made)
        /\ Value(8, 7).code \in 0 .. NextQuad(made)
        /\ NextQuad(made) \in 0 .. NextQuad(made)
    BY <2>1, <2>2, <1>8, <1>9, <1>11, <1>13, <1>14, <1>15
  <2>4. codes \in Seq(0 .. NextQuad(made))
    BY <2>3, <1>4
  <2> QED
    BY <2>1, <2>4, <1>10, <1>15
<1> QED
  BY <1>5, <1>6, <1>7, <1>8, <1>16, ControlStep

-----------------------------------------------------------------------------
(***************************************************************************)
(* The invariant, action by action: the program; and the theorems.         *)
(***************************************************************************)

\* The code of a function becomes the program.
LEMMA FunctionStep == ASSUME IInv, Function PROVE IInv'
<1>1. /\ Reduce("FUNCTION") /\ quad_list' = Value(1, 1).code
      /\ vals' = Below(1) /\ heap' = heap /\ symbol_table' = symbol_table
      /\ temps_count' = temps_count /\ constants_count' = constants_count
      /\ status' = status
  BY DEF Function
<1>2. /\ status = "parsing" /\ work # <<>> /\ Head(work) = "FUNCTION"
      /\ work' = Tail(work) /\ growth' = growth
  BY <1>1 DEF Reduce, Parsing
<1>3. Takes("FUNCTION") = <<"code">> /\ Kind("FUNCTION") = "none"
  BY KindsOf, Taken
<1>4. 1 \in Nat /\ 1 = Len(Takes("FUNCTION")) /\ 1 \in 1 .. 1
  BY <1>3
<1>5. quad_list' \in 0 .. NextQuad(heap)
  BY <1>1, <1>4, PartsAre
<1>6. PICK F : F = ValuesOf(symbol_table, NextQuad(heap))
  OBVIOUS
<1>7. PICK kinds : Stacks(work, kinds) /\ Fit(vals, kinds[1], F)
  BY <1>2, <1>6 DEF IInv, StackKept
<1>8. PICK A : A = Attribute(Symbols, NextQuad(heap))
  OBVIOUS
<1>9. work \in Seq(Item) /\ vals \in Seq(A)
  BY <1>8 DEF IInv
<1>10. /\ work' \in Seq(Item) /\ Below(1) \in Seq(A)
       /\ \E after : Stacks(work', after) /\ Fit(Below(1), after[1], F)
  <2>1. 1 = Len(Takes(Head(work))) /\ Kind(Head(work)) = "none"
    BY <1>2, <1>3, <1>4
  <2> QED
    BY <2>1, <1>2, <1>4, <1>7, <1>9, Reducing DEF Below
<1>11. TableKept' /\ Symbols' = Symbols
  BY <1>1, TableSame DEF IInv
<1>12. StackKept' /\ LabelsKept'
  BY <1>1, <1>2, <1>6, <1>10 DEF StackKept, LabelsKept
<1>13. WellMade(heap', symbol_table')
  BY <1>1 DEF IInv
<1> QED
  BY <1>1, <1>2, <1>5, <1>8, <1>10, <1>11, <1>12, <1>13 DEF IInv

\* main() pushes the RET, so no label is past the end of the program.
LEMMA AddReturnStep == ASSUME IInv, AddReturn PROVE IInv'
<1>1. PICK pushed : pushed = ListPush(heap, quad_list, "RET")
  OBVIOUS
<1>2. /\ status = "parsing" /\ heap' = pushed.heap /\ quad_list' = pushed.list
      /\ status' \in {"parsing", "done"} /\ work' = work /\ growth' = growth
      /\ vals' = vals /\ symbol_table' = symbol_table
      /\ temps_count' = temps_count /\ constants_count' = constants_count
  BY <1>1 DEF AddReturn
<1>3. /\ TableKept' /\ Symbols' = Symbols
      /\ Extends(symbol_table', symbol_table)
  BY <1>2, TableSame DEF IInv
<1>4. PICK L : L = LabelsUpTo(symbol_table, NextQuad(heap))
  OBVIOUS
<1>5. /\ IsHeap(heap', Symbols, L) /\ NextQuad(heap') = NextQuad(heap) + 1
      /\ quad_list' \in 0 .. NextQuad(heap')
  <2>1. /\ "RET" \in Ops /\ "RET" \notin BranchOps /\ IsHeap(heap, Symbols, L)
        /\ quad_list \in 0 .. NextQuad(heap)
    BY <1>4 DEF Ops, BranchOps, IInv, WellMade, Symbols
  <2>2. /\ IsHeap(pushed.heap, Symbols, L)
        /\ NextQuad(pushed.heap) = NextQuad(heap) + 1
        /\ pushed.list \in 0 .. NextQuad(heap) + 1
    BY <2>1, <1>1, ListPushIsHeap
  <2> QED
    BY <2>2, <1>2
<1>6. /\ NextQuad(heap) \in Nat /\ NextQuad(heap') \in Nat
      /\ NextQuad(heap) <= NextQuad(heap')
      /\ NextQuad(heap') - 1 = NextQuad(heap)
  BY <1>5, ProgramIs
<1>7. LabelsKept'
  BY <1>2, <1>3, <1>4, <1>5, <1>6 DEF LabelsKept
<1>8. WellMade(heap', symbol_table')
  <2>1. L \subseteq LabelsUpTo(symbol_table', NextQuad(heap'))
    BY <1>3, <1>4, <1>6, ProgramIs, LabelsMore
  <2>2. Symbols \subseteq Symbols'
    BY <1>3
  <2> QED
    BY <2>1, <2>2, <1>5, HeapOfMore DEF WellMade, Symbols
<1>9. PICK F, G : /\ F = ValuesOf(symbol_table, NextQuad(heap))
                  /\ G = ValuesOf(symbol_table', NextQuad(heap'))
  OBVIOUS
<1>10. PICK A, B : /\ A = Attribute(Symbols, NextQuad(heap))
                   /\ B = Attribute(Symbols', NextQuad(heap'))
  OBVIOUS
<1>11. A \subseteq B /\ \A kind \in Kinds : F[kind] \subseteq G[kind]
  BY <1>3, <1>6, <1>9, <1>10, ProgramIs, ValuesMore DEF Symbols
<1>12. vals' \in Seq(B)
  BY <1>2, <1>10, <1>11 DEF IInv
<1>13. StackKept'
  <2>1. PICK kinds : Stacks(work, kinds) /\ Fit(vals, kinds[1], F)
    BY <1>2, <1>9 DEF IInv, StackKept
  <2>2. work \in Seq(Item)
    BY DEF IInv
  <2>3. Fit(vals, kinds[1], G)
    BY <2>1, <2>2, <1>11, FirstOfStacks, FitMore
  <2>4. Stacks(work', kinds) /\ Fit(vals', kinds[1], G)
    BY <2>1, <2>3, <1>2
  <2> QED
    BY <2>4, <1>9 DEF StackKept
<1> QED
  BY <1>2, <1>3, <1>5, <1>7, <1>8, <1>10, <1>12, <1>13 DEF IInv

\* A step that changes nothing leaves the invariant.
LEMMA StutterStep == ASSUME IInv, UNCHANGED vars PROVE IInv'
<1>1. /\ work' = work /\ growth' = growth /\ vals' = vals /\ heap' = heap
      /\ quad_list' = quad_list /\ symbol_table' = symbol_table
      /\ temps_count' = temps_count /\ constants_count' = constants_count
      /\ status' = status
  BY DEF vars, program
<1>2. TableKept' /\ StackKept' /\ Symbols' = Symbols
  BY <1>1, TableSame DEF IInv, StackKept
<1>3. LabelsKept'
  BY <1>1, <1>2 DEF IInv, LabelsKept
<1> QED
  BY <1>1, <1>2, <1>3 DEF IInv

\* Every step leaves the invariant.
LEMMA NextStep == ASSUME IInv, Next PROVE IInv'
<1>1. CASE Derive
  BY <1>1, DeriveStep
<1>2. CASE DeclareConstant \/ Lookup \/ UnaryArithmeticOp \/ BinaryArithmeticOp
  BY <1>2, DeclareConstantStep, LookupStep, UnaryArithmeticOpStep,
     BinaryArithmeticOpStep
<1>3. CASE MakeTag("tag", 0) \/ MakeTag("tag1", 1) \/ MakeTag("tag2", 2)
  <2>1. /\ "tag" \in DOMAIN Late /\ "tag1" \in DOMAIN Late
        /\ "tag2" \in DOMAIN Late
        /\ Late["tag"] = 0 /\ Late["tag1"] = 1 /\ Late["tag2"] = 2
    BY DEF Late
  <2> QED
    BY <2>1, <1>3, MakeTagStep
<1>4. CASE Assignation \/ Declare \/ DeclareAndAssign \/ DeclareMatrix
  BY <1>4, AssignationStep, DeclareStep, DeclareAndAssignStep, DeclareMatrixStep
<1>5. CASE CallFunctionWithExpr \/ ControlReturn \/ EmptyStatements \/ Sequence
  BY <1>5, CallFunctionWithExprStep, ControlReturnStep, EmptyStatementsStep,
     SequenceStep
<1>6. CASE \/ ConditionFromExpression \/ ConditionCompareExpressions
           \/ ConditionTrue \/ ConditionFalse
  BY <1>6, ConditionFromExpressionStep, ConditionCompareExpressionsStep,
     ConditionTrueStep, ConditionFalseStep
<1>7. CASE ConditionOr \/ ConditionAnd \/ ConditionNot
  BY <1>7, ConditionOrStep, ConditionAndStep, ConditionNotStep
<1>8. CASE \/ ControlIf \/ ControlIfElse \/ ControlWhile \/ ControlDoWhile
           \/ ControlFor
  BY <1>8, ControlIfStep, ControlIfElseStep, ControlWhileStep,
     ControlDoWhileStep, ControlForStep
<1>9. CASE Function \/ AddReturn
  BY <1>9, FunctionStep, AddReturnStep
<1> QED
  BY <1>1, <1>2, <1>3, <1>4, <1>5, <1>6, <1>7, <1>8, <1>9 DEF Next

\* Whatever the text, the semantic stack holds what the rest of the text takes
\* from it, and the program is well-formed (parser.y, actions.c).
THEOREM Invariance == Spec => []IInv
<1>1. IInv /\ [Next]_vars => IInv'
  BY NextStep, StutterStep
<1> QED
  BY <1>1, InitIInv, PTL DEF Spec

\* The part of TypeOK about the numbers of the compiler's symbols.
LEMMA NumbersAre ==
  ASSUME NEW S, S \subseteq SymbolName, NEW kind \in {"tmp", "cst"},
         NEW count \in Nat, \A n \in Nat : <<kind, n>> \in S <=> n < count
  PROVE  {s[2] : s \in {t \in S : t[1] = kind}} = 0 .. count - 1
<1>1. ASSUME NEW s \in S, s[1] = kind
      PROVE  s[2] \in 0 .. count - 1
  <2>1. s \in {"tmp", "cst"} \X Nat
    BY <1>1 DEF SymbolName
  <2>2. s = <<kind, s[2]>> /\ s[2] \in Nat
    BY <2>1, <1>1
  <2>3. s[2] < count
    BY <2>2
  <2> QED
    BY <2>2, <2>3
<1>2. ASSUME NEW n \in 0 .. count - 1
      PROVE  \E s \in S : s[1] = kind /\ s[2] = n
  <2>1. <<kind, n>> \in S
    OBVIOUS
  <2> QED
    BY <2>1
<1> QED
  BY <1>1, <1>2

\* Every text leaves globals and a semantic stack of the types they have in C,
\* and no pointer to a node or a symbol that does not exist: no semantic
\* function reads a value that the parser has not left, or the type of a
\* symbol that is not there (actions.c, parser.y).
THEOREM TypeCorrect == Spec => []TypeOK
<1>1. ASSUME IInv PROVE TypeOK
  <2> DEFINE L == LabelsUpTo(symbol_table, NextQuad(heap))
  <2>1. /\ heap.quad \in Seq(QuadOf(Symbols, L)) /\ heap.hung \in BOOLEAN
        /\ \A n \in 1 .. Len(heap.quad) : heap.quad[n].successor <= Len(heap.quad)
        /\ NextQuad(heap) = Len(heap.quad) /\ NextQuad(heap) \in Nat
    BY <1>1 DEF IInv, WellMade, IsHeap, NextQuad, Symbols
  <2> HIDE DEF L
  <2>2. Pointers = 0 .. NextQuad(heap)
    BY <2>1 DEF Pointers, Nodes, NULL
  <2>3. ASSUME NEW n \in Nodes
        PROVE  /\ heap.quad[n].op \in {"MOVE", "RET"} \cup ArithmeticOps
                                      \cup BranchOps \cup PrintOps
               /\ {heap.quad[n].res, heap.quad[n].op1, heap.quad[n].op2}
                    \subseteq Symbols \cup {NoSymbol}
               /\ heap.quad[n].successor \in Pointers
    <3>1. n \in 1 .. Len(heap.quad)
      BY <2>1 DEF Nodes
    <3>2. PICK q \in QuadOf(Symbols, L) : q = heap.quad[n]
      BY <3>1, <2>1
    <3>3. q.successor \in 0 .. NextQuad(heap)
      BY <3>1, <3>2, <2>1 DEF QuadOf
    <3> QED
      BY <3>2, <3>3, <2>2 DEF QuadOf, OrNone, Ops
  <2>4. ASSUME NEW k \in DOMAIN vals
        PROVE  /\ {vals[k].code, vals[k].true_list, vals[k].false_list}
                    \subseteq Pointers
               /\ vals[k].symbol \in Symbols \cup {NoSymbol}
    <3>1. PICK A : A = Attribute(Symbols, NextQuad(heap))
      OBVIOUS
    <3>2. vals \in Seq(A)
      BY <3>1, <1>1 DEF IInv
    <3>3. PICK value \in A : value = vals[k]
      BY <3>2
    <3> QED
      BY <3>1, <3>3, <2>2 DEF Attribute, OrNone
  <2>5. \A s \in Symbols : /\ symbol_table[s].type \in Types
                           /\ symbol_table[s].value \in Nat
    BY <1>1 DEF IInv, TableKept
  <2>6. /\ {s[2] : s \in {t \in Symbols : t[1] = "tmp"}} = 0 .. temps_count - 1
        /\ {s[2] : s \in {t \in Symbols : t[1] = "cst"}}
             = 0 .. constants_count - 1
    <3>1. PICK S : S = Symbols
      OBVIOUS
    <3>2. /\ S \subseteq SymbolName
          /\ temps_count \in Nat /\ constants_count \in Nat
          /\ \A n \in Nat : <<"tmp", n>> \in S <=> n < temps_count
          /\ \A n \in Nat : <<"cst", n>> \in S <=> n < constants_count
      BY <3>1, <1>1 DEF IInv, TableKept
    <3>3. /\ {s[2] : s \in {t \in S : t[1] = "tmp"}} = 0 .. temps_count - 1
          /\ {s[2] : s \in {t \in S : t[1] = "cst"}} = 0 .. constants_count - 1
      BY <3>2, NumbersAre
    <3> QED
      BY <3>1, <3>3
  <2>7. /\ growth \in 0 .. MaxGrowth /\ quad_list \in Pointers
        /\ status \in {"parsing", "aborted", "done"}
    BY <1>1, <2>2 DEF IInv
  <2> QED
    BY <2>1, <2>3, <2>4, <2>5, <2>6, <2>7 DEF TypeOK
<1> QED
  BY <1>1, Invariance, PTL

\* When the whole text has been parsed, no value is left on bison's stack: each
\* value a semantic function has left was $1 to $n of exactly one other.
THEOREM StackIsEmptied == Spec => [](work = <<>> /\ status = "parsing" => vals = <<>>)
<1>1. ASSUME IInv, work = <<>>, status = "parsing" PROVE vals = <<>>
  <2>1. PICK kinds, F : Stacks(work, kinds) /\ Fit(vals, kinds[1], F)
    BY <1>1 DEF IInv, StackKept
  <2>2. kinds[1] = <<>>
    BY <2>1, <1>1 DEF Stacks
  <2>3. PICK A : vals \in Seq(A)
    BY <1>1 DEF IInv
  <2>4. Len(vals) = 0
    BY <2>1, <2>2 DEF Fit
  <2> QED
    BY <2>3, <2>4
<1> QED
  BY <1>1, Invariance, PTL

\* The loop over a list is at the list first, and then at the successor.
LEMMA WalkDefined ==
  ASSUME NEW h, NEW list, NextQuad(h) \in Nat
  PROVE  /\ DOMAIN Walk(h, list) = 0 .. NextQuad(h)
         /\ Walk(h, list)[0] = list
         /\ \A k \in 1 .. NextQuad(h) :
              Walk(h, list)[k] = Onward(h, Walk(h, list)[k - 1])
<1> DEFINE m == NextQuad(h)
           Walked(f, n) == /\ f[0] = list
                           /\ \A k \in 1 .. n : f[k] = Onward(h, f[k - 1])
           solved == {n \in Nat : \E f : Walked(f, n)}
<1>1. 0 \in solved
  <2>1. Walked([k \in {0} |-> list], 0)
    OBVIOUS
  <2> QED
    BY <2>1
<1>2. ASSUME NEW n \in solved PROVE n + 1 \in solved
  <2>1. PICK f : Walked(f, n)
    OBVIOUS
  <2>2. PICK g : g = [k \in 0 .. n + 1 |-> IF k = n + 1 THEN Onward(h, f[n])
                                                       ELSE f[k]]
    OBVIOUS
  <2>3. /\ g[n + 1] = Onward(h, f[n])
        /\ \A k \in 0 .. n : g[k] = f[k]
    BY <2>2
  <2>4. ASSUME NEW i \in 1 .. n + 1 PROVE g[i] = Onward(h, g[i - 1])
    <3>1. CASE i = n + 1
      <4>1. i - 1 = n /\ n \in 0 .. n
        BY <3>1
      <4> QED
        BY <4>1, <3>1, <2>3
    <3>2. CASE i # n + 1
      <4>1. i \in 1 .. n /\ i \in 0 .. n /\ i - 1 \in 0 .. n
        BY <3>2
      <4> QED
        BY <4>1, <2>1, <2>3
    <3> QED
      BY <3>1, <3>2
  <2>5. g[0] = list
    BY <2>1, <2>3
  <2>6. Walked(g, n + 1)
    BY <2>4, <2>5
  <2>7. n + 1 \in Nat
    OBVIOUS
  <2> QED
    BY <2>6, <2>7
<1>3. solved = Nat
  <2> HIDE DEF solved
  <2> QED
    BY <1>1, <1>2, Induction DEF solved
<1>4. PICK f : Walked(f, m)
  BY <1>3
<1> DEFINE body(g) == [k \in 0 .. m |-> IF k = 0 THEN list
                                        ELSE Onward(h, g[k - 1])]
           at == CHOOSE g : g = body(g)
<1>5. PICK g : g = [k \in 0 .. m |-> f[k]]
  OBVIOUS
<1>6. g = body(g)
  <2>1. ASSUME NEW k \in 0 .. m
        PROVE  g[k] = IF k = 0 THEN list ELSE Onward(h, g[k - 1])
    <3>1. CASE k = 0
      BY <3>1, <1>4, <1>5
    <3>2. CASE k # 0
      <4>1. k \in 1 .. m /\ k - 1 \in 0 .. m
        BY <3>2
      <4> QED
        BY <3>2, <4>1, <1>4, <1>5
    <3> QED
      BY <3>1, <3>2
  <2> QED
    BY <2>1, <1>5
<1>7. at = body(at)
  <2> HIDE DEF body
  <2> QED
    BY <1>6
<1>8. Walk(h, list) = at
  BY DEF Walk
<1> HIDE DEF at
<1>9. DOMAIN at = 0 .. m /\ at[0] = list
  BY <1>7
<1>10. ASSUME NEW k \in 1 .. m PROVE at[k] = Onward(h, at[k - 1])
  <2>1. k \in 0 .. m /\ k # 0
    OBVIOUS
  <2> QED
    BY <2>1, <1>7
<1> QED
  BY <1>8, <1>9, <1>10

\* The loop over a list of the heap is always at a node of the heap or at its
\* end.
LEMMA WalkInHeap ==
  ASSUME NEW S, NEW L, NEW h, IsHeap(h, S, L), NEW list \in 0 .. NextQuad(h)
  PROVE  NodesOf(h, list) \subseteq 1 .. NextQuad(h)
<1>1. PICK m \in Nat : m = NextQuad(h)
  BY DEF IsHeap, NextQuad
<1>2. PICK at : at = Walk(h, list)
  OBVIOUS
<1>3. /\ DOMAIN at = 0 .. m /\ at[0] = list
      /\ \A k \in 1 .. m : at[k] = Onward(h, at[k - 1])
  BY <1>1, <1>2, WalkDefined
<1>4. ASSUME NEW n \in 0 .. m PROVE Onward(h, n) \in 0 .. m
  <2>1. CASE n = 0
    BY <2>1 DEF Onward, NULL
  <2>2. CASE n # 0
    <3>1. h.quad \in Seq(QuadOf(S, L)) /\ n \in 1 .. Len(h.quad)
          /\ Len(h.quad) = m
      BY <2>2, <1>1 DEF IsHeap, NextQuad
    <3>2. h.quad[n] \in QuadOf(S, L) /\ h.quad[n].successor <= m
      BY <3>1 DEF IsHeap
    <3>3. h.quad[n].successor \in Nat
      BY <3>2 DEF QuadOf
    <3> QED
      BY <3>2, <3>3, <2>2 DEF Onward, NULL
  <2> QED
    BY <2>1, <2>2
<1> DEFINE inside == {k \in Nat : k <= m => at[k] \in 0 .. m}
<1>5. 0 \in inside
  BY <1>1, <1>3
<1>6. ASSUME NEW k \in inside PROVE k + 1 \in inside
  <2>1. SUFFICES ASSUME k + 1 <= m PROVE at[k + 1] \in 0 .. m
    OBVIOUS
  <2>2. k + 1 \in 1 .. m /\ (k + 1) - 1 = k /\ at[k] \in 0 .. m
    BY <2>1
  <2>3. at[k + 1] = Onward(h, at[k])
    BY <2>2, <1>3
  <2> QED
    BY <2>2, <2>3, <1>4
<1>7. inside = Nat
  <2> HIDE DEF inside
  <2> QED
    BY <1>5, <1>6, Induction DEF inside
<1>8. \A k \in 0 .. m : at[k] \in 0 .. m
  BY <1>7
<1> QED
  BY <1>1, <1>2, <1>3, <1>8 DEF NodesOf, Range, NULL

\* Whatever the text, a branch of the compiled program that has a label goes to
\* the number of one of its quadruples, if none was lost: the assembler finds
\* every label (translation.c:87, 183; actions.c, parser.y).
THEOREM LabelsAreNumbers == Spec => []LabelsExist
<1>1. ASSUME IInv PROVE LabelsExist
  <2>1. SUFFICES ASSUME status = "done", Nodes \subseteq InCode, NEW b \in InCode,
                        heap.quad[b].op \in BranchOps, Resolved(b)
                 PROVE  Destination(b) \in 0 .. Cardinality(InCode) - 1
    BY DEF LabelsExist, Compiled
  <2>2. PICK m \in Nat : m = NextQuad(heap)
    BY <1>1, ProgramIs
  <2>3. InCode = 1 .. m
    <3>1. quad_list \in 0 .. NextQuad(heap) /\ WellMade(heap, symbol_table)
      BY <1>1 DEF IInv
    <3>2. InCode \subseteq 1 .. NextQuad(heap)
      BY <3>1, WalkInHeap DEF WellMade, InCode
    <3> QED
      BY <3>2, <2>1, <2>2 DEF Nodes
  <2>4. Cardinality(InCode) = m
    <3>1. Cardinality(1 .. m) = IF 1 > m THEN 0 ELSE m - 1 + 1
      BY FS_Interval
    <3> QED
      BY <3>1, <2>3
  <2>5. PICK L : L = LabelsUpTo(symbol_table, m - 1)
    OBVIOUS
  <2>6. heap.quad \in Seq(QuadOf(Symbols, L)) /\ b \in 1 .. Len(heap.quad)
    BY <1>1, <2>1, <2>2, <2>3, <2>5 DEF IInv, LabelsKept, IsHeap, NextQuad
  <2>7. heap.quad[b].res \in L
    <3>1. heap.quad[b] \in QuadOf(Symbols, L)
      BY <2>6
    <3> QED
      BY <3>1, <2>1 DEF QuadOf, Resolved, OrNone
  <2>8. Destination(b) \in Nat /\ Destination(b) <= m - 1
    BY <1>1, <2>5, <2>7, ProgramIs DEF LabelsUpTo, Destination
  <2> QED
    BY <2>4, <2>8
<1> QED
  BY <1>1, Invariance, PTL
=============================================================================
