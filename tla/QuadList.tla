------------------------------ MODULE QuadList ------------------------------
(***************************************************************************)
(* The quadruples and the singly linked lists of quad.c and quad_list.c.   *)
(*                                                                         *)
(* Every quad_new() of the program is followed by a quad_list_new() of     *)
(* that quadruple, and no other node is ever made for it.  So node and     *)
(* quadruple are one record, and its address is the rank of its creation:  *)
(* the n-th quadruple is node n, and next_quad is the number of nodes.  A  *)
(* list is the address of its first node, or NULL.                         *)
(*                                                                         *)
(* Lists share nodes, and nothing in the code prevents a list from running *)
(* into itself.  A function that walks such a list never returns: that is  *)
(* the field `hung' of the heap, and nothing changes a hung heap.          *)
(*                                                                         *)
(* A definition marked "variant" is the one that follows it with a slip    *)
(* put in; no specification uses it.                                       *)
(***************************************************************************)
EXTENDS Naturals, Sequences, SequencesExt

NULL == 0

NoSymbol == <<"null", 0>>    \* the null pointer, where a symbol is expected

EmptyHeap == [quad |-> <<>>, hung |-> FALSE]

NextQuad(h) == Len(h.quad)

\* quad_list_new(quad_new(op, res, op1, op2)); the node is NextQuad of the
\* heap that results.
QuadNew(h, op, res, op1, op2) ==
  [h EXCEPT !.quad = Append(@, [op |-> op, res |-> res, op1 |-> op1,
                                op2 |-> op2, successor |-> NULL])]

QuadNewEmpty(h, op) == QuadNew(h, op, NoSymbol, NoSymbol, NoSymbol)

-----------------------------------------------------------------------------
(***************************************************************************)
(* The loop `for(; l != NULL; l = l->successor)' from a node: where it is  *)
(* after each turn.  It has as many turns as the list has nodes, so it is  *)
(* endless when it is still on a node after one turn per node of the heap. *)
(***************************************************************************)
Onward(h, n) == IF n = NULL THEN NULL ELSE h.quad[n].successor

Walk(h, list) ==
  LET at[k \in 0 .. NextQuad(h)] ==
        IF k = 0 THEN list ELSE Onward(h, at[k - 1])
  IN  at

Endless(h, list) == Walk(h, list)[NextQuad(h)] # NULL

NodesOf(h, list) == Range(Walk(h, list)) \ {NULL}

TailOf(h, list) == CHOOSE n \in NodesOf(h, list) : h.quad[n].successor = NULL

Hang(h) == [h EXCEPT !.hung = TRUE]

-----------------------------------------------------------------------------
\* quad_list_complete(): the label becomes the res of every node reached,
\* whatever else has been linked behind the list since it was made.
Complete(h, list, label) ==
  IF h.hung THEN h
  ELSE IF Endless(h, list) THEN Hang(h)
  ELSE LET reached == NodesOf(h, list)
       IN  [h EXCEPT !.quad =
              [n \in DOMAIN @ |->
                 IF n \in reached THEN [@[n] EXCEPT !.res = label]
                                  ELSE @[n]]]

\* variant: link behind the first node
LinkFirst(h, list, src) == [h EXCEPT !.quad[list].successor = src]

\* Link src behind the last node of the list.
Link(h, list, src) ==
  IF h.hung THEN h
  ELSE IF Endless(h, list) THEN Hang(h)
  ELSE [h EXCEPT !.quad[TailOf(h, list)].successor = src]

\* The next argument of quad_list_concat(), behind those before it.
Joined(before, src) ==
  IF before.list = NULL THEN [before EXCEPT !.list = src]
  ELSE [before EXCEPT !.heap = Link(@, before.list, src)]

\* quad_list_concat(): the lists are linked in place, no node is copied.
Concat(h, sources) ==
  LET after[i \in 0 .. Len(sources)] ==
        IF i = 0 THEN [heap |-> h, list |-> NULL]
        ELSE Joined(after[i - 1], sources[i])
  IN  after[Len(sources)]

\* quad_list_push() of a new quadruple.
ListPush(h, list, op) ==
  LET made == QuadNewEmpty(h, op)
  IN  IF list = NULL THEN [heap |-> made, list |-> NextQuad(made)]
      ELSE [heap |-> Link(made, list, NextQuad(made)), list |-> list]
=============================================================================
