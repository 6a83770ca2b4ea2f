------------------------------ MODULE Frontend ------------------------------
(***************************************************************************)
(* From a source text to quad_list and symbol_table: the grammar of        *)
(* parsing/parser.y, the functions of parsing/actions.c it calls, and the  *)
(* RET that main() adds when yyparse() returns.                            *)
(*                                                                         *)
(* The source text is a nondeterministic derivation.  `work' is what is    *)
(* left of the sentential form, its first item to be treated next: a       *)
(* nonterminal is replaced by the right-hand side of one of its rules; the *)
(* other items name semantic functions, which stand at the place where the *)
(* parser reduces, hence run in the order bison runs them.  `vals' is      *)
(* bison's semantic stack.  Terminals, and the rules that only bracket     *)
(* ('{' statements '}', '(' expression ')', '(' condition ')'), pass their *)
(* value on and are left out; with brackets every tree derived here is one *)
(* the parser builds, whatever way it settles its conflicts.               *)
(*                                                                         *)
(* A definition marked "variant" is the one that follows it with a slip    *)
(* put in.  No specification uses it; it serves to see that the properties *)
(* notice the slip.                                                        *)
(***************************************************************************)
EXTENDS QuadList, Integers

CONSTANTS Names,          \* the identifiers of the source text
          ConstantTypes,  \* the types of its literals
          BinaryOps,      \* the operators it uses, out of ADD SUB MUL DIV
          CompareOps,     \*   ... and out of BE BNE BLT BGT BLTE BGTE
          Excluded,       \* the rules it does not use
          MaxGrowth       \* how often a rule can be used that makes it longer

Types == {"INT", "FLOAT", "STRING", "MATRIX"}
ArithmeticOps == {"NEG", "ADD", "SUB", "MUL", "DIV"}
BranchOps == {"B", "BE", "BNE", "BLT", "BGT", "BLTE", "BGTE"}
PrintOps == {"PRTI", "PRTF", "PRTS"}

ASSUME FrontendAssumption ==
  /\ ConstantTypes \subseteq Types
  /\ BinaryOps \subseteq ArithmeticOps \ {"NEG"}
  /\ CompareOps \subseteq BranchOps \ {"B"}
  /\ MaxGrowth \in Nat

VARIABLES work,             \* the rest of the sentential form
          growth,           \* how much longer the text may still become
          vals,             \* the semantic stack
          heap,             \* every node made so far, see QuadList
          quad_list,
          symbol_table,     \* from a name to the symbol's type and value
          temps_count,
          constants_count,
          status            \* "parsing", "aborted" by abort_parsing, "done"

(***************************************************************************)
(* What the source text means, to state properties: no action of the code  *)
(* reads these.                                                            *)
(***************************************************************************)
VARIABLES intent,      \* where a branch should go: see Aim
          connectives, \* which of OR, AND, NOT the text has used
          dangling,    \* the branches of the true exit of an AND's left side
          merged,      \* an OR joined two true exits, or an AND two false ones
          extents      \* the number of nodes at the end of each function

program == <<heap, quad_list, symbol_table, temps_count, constants_count>>
meaning == <<intent, connectives, dangling, merged, extents>>
vars == <<work, growth, vals, program, status, meaning>>

-----------------------------------------------------------------------------
\* The rules of parser.y.  FOR's declaration must be kept apart from an
\* instruction: it leaves its attributes, not its code.
Grammar ==
  [functions   |-> {<<"function">>, <<"function", "functions">>},
   function    |-> {<<"statements", "FUNCTION">>},
   statements  |-> {<<"EMPTY">>, <<"statement">>,
                    <<"statement", "statements", "SEQUENCE">>},
   statement   |-> {<<"variable_declaration">>, <<"assignation">>,
                    <<"expression", "CALL">>, <<"RETURN">>,
                    <<"condition", "tag", "statements", "tag", "IF">>,
                    <<"condition", "tag", "statements", "tag1", "statements",
                      "tag1", "IF_ELSE">>,
                    <<"tag", "condition", "tag", "statements", "tag1",
                      "WHILE">>,
                    <<"tag", "statements", "condition", "tag", "DO">>,
                    <<"variable_declaration", "tag", "condition", "tag",
                      "assignation", "tag1", "statements", "tag2", "FOR">>},
   variable_declaration |->
                   {<<"DECLARE">>, <<"expression", "DECLARE_ASSIGN">>,
                    <<"DECLARE_MATRIX">>},
   assignation |-> {<<"LOOKUP", "expression", "ASSIGN">>},
   expression  |-> {<<"CONSTANT">>, <<"LOOKUP">>,
                    <<"expression", "UNARY">>,
                    <<"expression", "expression", "BINARY">>},
   condition   |-> {<<"condition", "tag", "condition", "OR">>,
                    <<"condition", "tag", "condition", "AND">>,
                    <<"condition", "NOT">>, <<"TRUE">>, <<"FALSE">>,
                    <<"expression", "TEST">>,
                    <<"expression", "expression", "COMPARE">>}]

Recursive == {"functions", "statements", "expression", "condition"}
Controls == {"IF", "IF_ELSE", "WHILE", "DO", "FOR"}

\* A rule makes the text longer when it starts a control structure or uses
\* again the nonterminal it derives.
Growth(symbol, rhs) ==
  IF \/ Last(rhs) \in Controls
     \/ symbol \in Recursive /\ \E k \in DOMAIN rhs : rhs[k] = symbol
    THEN 1 ELSE 0

-----------------------------------------------------------------------------
Init ==
  /\ work = <<"functions">>
  /\ growth = MaxGrowth
  /\ vals = <<>>
  /\ heap = EmptyHeap
  /\ quad_list = NULL
  /\ symbol_table = <<>>
  /\ temps_count = 0
  /\ constants_count = 0
  /\ status = "parsing"
  /\ intent = <<>>
  /\ connectives = {}
  /\ dangling = {}
  /\ merged = FALSE
  /\ extents = <<0>>

Parsing == status = "parsing" /\ ~ heap.hung /\ work # <<>>

\* The text goes on with one of the rules of the nonterminal.
Derive ==
  /\ Parsing
  /\ Head(work) \in DOMAIN Grammar
  /\ \E rhs \in Grammar[Head(work)] \ Excluded :
       /\ Growth(Head(work), rhs) <= growth
       /\ growth' = growth - Growth(Head(work), rhs)
       /\ work' = rhs \o Tail(work)
  /\ UNCHANGED <<vals, program, status, meaning>>

-----------------------------------------------------------------------------
(***************************************************************************)
(* Attributes.  One record serves for the %union: expr_attr is code and    *)
(* symbol, cond_attr is code, true_list and false_list.  `yes' and `no'    *)
(* are the branches that should be taken when a condition holds and when   *)
(* it does not; they belong to the meaning.                                *)
(***************************************************************************)
Attr == [code |-> NULL, symbol |-> NoSymbol, true_list |-> NULL,
         false_list |-> NULL, yes |-> {}, no |-> {}]

Code(list) == [Attr EXCEPT !.code = list]
Symbol(s) == [Attr EXCEPT !.symbol = s]
Expr(list, s) == [Attr EXCEPT !.code = list, !.symbol = s]

\* The parser reduces by the rule named f, which has n values: bison's $1 ..
\* $n are Value(n, 1) .. Value(n, n).
Reduce(f) == Parsing /\ Head(work) = f /\ work' = Tail(work) /\ UNCHANGED growth

Value(n, k) == vals[Len(vals) - n + k]
Below(n) == SubSeq(vals, 1, Len(vals) - n)
Return(n, attr) == vals' = Append(Below(n), attr)

Abort == status' = "aborted" /\ UNCHANGED <<vals, program, meaning>>

Symbols == DOMAIN symbol_table

Declared(s) == s \in Symbols

TypeOf(s) == symbol_table[s].type

\* symbol_table_push() of a symbol that is not in the table.  `value' is the
\* initial value of an int constant, 0 for any other symbol.
Pushed(s, type, value) ==
  [t \in Symbols \cup {s} |-> IF t = s THEN [type |-> type, value |-> value]
                             ELSE symbol_table[t]]

User(name) == <<"user", name>>
NewTemp == <<"tmp", temps_count>>
NewConst == <<"cst", constants_count>>

-----------------------------------------------------------------------------
(***************************************************************************)
(* Expressions.                                                            *)
(***************************************************************************)

\* declare_int_constant and its siblings, for a literal
DeclareConstant ==
  /\ Reduce("CONSTANT")
  /\ \E type \in ConstantTypes : symbol_table' = Pushed(NewConst, type, 0)
  /\ constants_count' = constants_count + 1
  /\ Return(0, Symbol(NewConst))
  /\ UNCHANGED <<heap, quad_list, temps_count, status, meaning>>

\* The number the next quadruple has, once `offset' more are made.
Label(offset) == NextQuad(heap) + offset

\* tag, tag1 and tag2: a constant with the number of a quadruple to come
MakeTag(f, offset) ==
  /\ Reduce(f)
  /\ symbol_table' = Pushed(NewConst, "INT", Label(offset))
  /\ constants_count' = constants_count + 1
  /\ Return(0, Symbol(NewConst))
  /\ UNCHANGED <<heap, quad_list, temps_count, status, meaning>>

\* symbol_table_lookup_user
Lookup ==
  /\ Reduce("LOOKUP")
  /\ \E name \in Names :
       IF Declared(User(name))
         THEN /\ Return(0, Symbol(User(name)))
              /\ UNCHANGED <<program, status, meaning>>
         ELSE Abort

\* variant: the temporary is not pushed
ComputeUnpushed(n, op, type, op1, op2) ==
  /\ heap' = QuadNew(heap, op, NewTemp, op1, op2)
  /\ Return(n, Expr(NextQuad(heap'), NewTemp))
  /\ temps_count' = temps_count + 1
  /\ UNCHANGED <<quad_list, symbol_table, constants_count, status, meaning>>

\* A quadruple computes a new temporary of the given type from the operands;
\* their code is not in the list that results.
Compute(n, op, type, op1, op2) ==
  /\ heap' = QuadNew(heap, op, NewTemp, op1, op2)
  /\ Return(n, Expr(NextQuad(heap'), NewTemp))
  /\ symbol_table' = Pushed(NewTemp, type, 0)
  /\ temps_count' = temps_count + 1
  /\ UNCHANGED <<quad_list, constants_count, status, meaning>>

UnaryArithmeticOp ==
  /\ Reduce("UNARY")
  /\ LET expr == Value(1, 1)
     IN  Compute(1, "NEG", TypeOf(expr.symbol), expr.symbol, NoSymbol)

BinaryArithmeticOp ==
  /\ Reduce("BINARY")
  /\ LET expr1 == Value(2, 1)
         expr2 == Value(2, 2)
     IN  IF TypeOf(expr1.symbol) = TypeOf(expr2.symbol)
           THEN \E op \in BinaryOps :
                  Compute(2, op, TypeOf(expr1.symbol), expr1.symbol,
                          expr2.symbol)
           ELSE Abort

-----------------------------------------------------------------------------
(***************************************************************************)
(* Declarations, assignments, instructions.                                *)
(***************************************************************************)

\* variant: the code of the source is dropped
AssignDropping(n, table, dest, src) ==
  /\ heap' = QuadNew(heap, "MOVE", dest, src.symbol, NoSymbol)
  /\ symbol_table' = table
  /\ Return(n, Expr(NextQuad(heap'), dest))
  /\ UNCHANGED <<quad_list, temps_count, constants_count, status, meaning>>

\* assign(): n values give way to the attributes of dest, in the table given.
Assign(n, table, dest, src) ==
  LET moved == QuadNew(heap, "MOVE", dest, src.symbol, NoSymbol)
      joined == Concat(moved, <<src.code, NextQuad(moved)>>)
  IN  /\ heap' = joined.heap
      /\ symbol_table' = table
      /\ Return(n, Expr(joined.list, dest))
      /\ UNCHANGED <<quad_list, temps_count, constants_count, status, meaning>>

Assignation == Reduce("ASSIGN") /\ Assign(2, symbol_table, Value(2, 1).symbol,
                                          Value(2, 2))

\* declare(): symbol_table_push() refuses a name the table has.
Declare ==
  /\ Reduce("DECLARE")
  /\ \E name \in Names, type \in {"INT", "FLOAT"} :
       IF Declared(User(name)) THEN Abort
       ELSE /\ symbol_table' = Pushed(User(name), type, 0)
            /\ Return(0, Attr)
            /\ UNCHANGED <<heap, quad_list, temps_count, constants_count,
                           status, meaning>>

DeclareAndAssign ==
  /\ Reduce("DECLARE_ASSIGN")
  /\ \E name \in Names, type \in {"INT", "FLOAT"} :
       IF Declared(User(name)) THEN Abort
       ELSE Assign(1, Pushed(User(name), type, 0), User(name), Value(1, 1))

DeclareMatrix ==
  /\ Reduce("DECLARE_MATRIX")
  /\ \E name \in Names :
       IF Declared(User(name)) THEN Abort
       ELSE /\ symbol_table' = Pushed(User(name), "MATRIX", 0)
            /\ Return(0, Attr)
            /\ UNCHANGED <<heap, quad_list, temps_count, constants_count,
                           status, meaning>>

PrintOp == [INT |-> "PRTI", FLOAT |-> "PRTF", STRING |-> "PRTS"]

\* call_function_with_expr(), of print or printf, or of another name
CallFunctionWithExpr ==
  /\ Reduce("CALL")
  /\ \/ Abort
     \/ LET expr == Value(1, 1)
            type == TypeOf(expr.symbol)
        IN  /\ type # "MATRIX"
            /\ LET printed == QuadNew(heap, PrintOp[type], expr.symbol,
                                      NoSymbol, NoSymbol)
                   joined == Concat(printed, <<expr.code, NextQuad(printed)>>)
               IN  heap' = joined.heap /\ Return(1, Code(joined.list))
            /\ UNCHANGED <<quad_list, symbol_table, temps_count,
                           constants_count, status, meaning>>
     \/ /\ TypeOf(Value(1, 1).symbol) = "MATRIX"
        /\ Return(1, Attr)
        /\ UNCHANGED <<program, status, meaning>>

ControlReturn ==
  /\ Reduce("RETURN")
  /\ heap' = QuadNewEmpty(heap, "RET")
  /\ Return(0, Code(NextQuad(heap')))
  /\ UNCHANGED <<quad_list, symbol_table, temps_count, constants_count,
                 status, meaning>>

\* statements : '{' '}'
EmptyStatements ==
  /\ Reduce("EMPTY")
  /\ Return(0, Attr)
  /\ UNCHANGED <<program, status, meaning>>

\* statements : statement statements
Sequence ==
  /\ Reduce("SEQUENCE")
  /\ LET joined == Concat(heap, <<Value(2, 1).code, Value(2, 2).code>>)
     IN  heap' = joined.heap /\ Return(2, Code(joined.list))
  /\ UNCHANGED <<quad_list, symbol_table, temps_count, constants_count,
                 status, meaning>>

-----------------------------------------------------------------------------
(***************************************************************************)
(* What the branches are for.  A branch should go `off' quadruples after   *)
(* the quadruple `node' (0: to it, 1: behind it).  `head' is the first     *)
(* quadruple of the construct the branch belongs to, `ahead' how many      *)
(* gotos the tag of its label counts that were not made yet.               *)
(***************************************************************************)
Aim(branches, node, off, head, ahead) ==
  [b \in branches |-> [node |-> node, off |-> off, head |-> head,
                       ahead |-> ahead]]

LastOf(list) == TailOf(heap, list)

\* The end of a list that may be empty and otherwise follows a node.
EndAfter(node, list) == IF list = NULL THEN node ELSE LastOf(list)

\* An action that builds this heap: when it loops, nothing after it happens.
Built(h, attr, n, meant) ==
  /\ heap' = h
  /\ Return(n, attr)
  /\ IF h.hung THEN UNCHANGED intent ELSE intent' = meant @@ intent
  /\ UNCHANGED <<quad_list, temps_count, status, extents>>

-----------------------------------------------------------------------------
(***************************************************************************)
(* Conditions.                                                             *)
(***************************************************************************)

\* A conditional branch taken when the condition holds, and a plain one
\* taken otherwise, behind the code of the operands.
Branches(n, op, op1, op2, codes) ==
  LET goto_true == QuadNew(heap, op, NoSymbol, op1, op2)
      goto_false == QuadNewEmpty(goto_true, "B")
      t == NextQuad(goto_true)
      f == NextQuad(goto_false)
      joined == Concat(goto_false, codes \o <<t, f>>)
  IN  Built(joined.heap,
            [Attr EXCEPT !.code = joined.list, !.true_list = t,
                         !.false_list = f, !.yes = {t}, !.no = {f}],
            n, <<>>)

ConditionFromExpression ==
  /\ Reduce("TEST")
  /\ Branches(1, "BNE", Value(1, 1).symbol, NewConst, <<Value(1, 1).code>>)
  /\ symbol_table' = Pushed(NewConst, "INT", 0)
  /\ constants_count' = constants_count + 1
  /\ UNCHANGED <<connectives, dangling, merged>>

ConditionCompareExpressions ==
  /\ Reduce("COMPARE")
  /\ \E op \in CompareOps :
       Branches(2, op, Value(2, 1).symbol, Value(2, 2).symbol,
                <<Value(2, 1).code, Value(2, 2).code>>)
  /\ UNCHANGED <<symbol_table, constants_count, connectives, dangling, merged>>

ConditionTrue ==
  /\ Reduce("TRUE")
  /\ LET made == QuadNewEmpty(heap, "B")
         b == NextQuad(made)
     IN  Built(made, [Attr EXCEPT !.code = b, !.true_list = b, !.yes = {b}],
               0, <<>>)
  /\ UNCHANGED <<symbol_table, constants_count, connectives, dangling, merged>>

ConditionFalse ==
  /\ Reduce("FALSE")
  /\ LET made == QuadNewEmpty(heap, "B")
         b == NextQuad(made)
     IN  Built(made, [Attr EXCEPT !.code = b, !.false_list = b, !.no = {b}],
               0, <<>>)
  /\ UNCHANGED <<symbol_table, constants_count, connectives, dangling, merged>>

\* $1 OR tag $4
ConditionOr ==
  /\ Reduce("OR")
  /\ LET cond1 == Value(3, 1)
         cond2 == Value(3, 3)
         completed == Complete(heap, cond1.false_list, Value(3, 2).symbol)
         code == Concat(completed, <<cond1.code, cond2.code>>)
         exits == Concat(code.heap, <<cond1.true_list, cond2.true_list>>)
     IN  /\ Built(exits.heap,
                  [Attr EXCEPT !.code = code.list, !.true_list = exits.list,
                               !.false_list = cond2.false_list,
                               !.yes = cond1.yes \cup cond2.yes,
                               !.no = cond2.no],
                  3, Aim(cond1.no, cond2.code, 0, cond1.code, 0))
         /\ merged' = (merged \/ (cond1.yes # {} /\ cond2.yes # {}))
  /\ connectives' = connectives \cup {"OR"}
  /\ UNCHANGED <<symbol_table, constants_count, dangling>>

\* $1 AND tag $4: it is again the false list that is completed.
ConditionAnd ==
  /\ Reduce("AND")
  /\ LET cond1 == Value(3, 1)
         cond2 == Value(3, 3)
         completed == Complete(heap, cond1.false_list, Value(3, 2).symbol)
         code == Concat(completed, <<cond1.code, cond2.code>>)
         exits == Concat(code.heap, <<cond1.false_list, cond2.false_list>>)
     IN  /\ Built(exits.heap,
                  [Attr EXCEPT !.code = code.list, !.false_list = exits.list,
                               !.true_list = cond2.true_list,
                               !.yes = cond2.yes,
                               !.no = cond1.no \cup cond2.no],
                  3, Aim(cond1.yes, cond2.code, 0, cond1.code, 0))
         /\ dangling' = dangling \cup cond1.yes
         /\ merged' = (merged \/ (cond1.no # {} /\ cond2.no # {}))
  /\ connectives' = connectives \cup {"AND"}
  /\ UNCHANGED <<symbol_table, constants_count>>

ConditionNot ==
  /\ Reduce("NOT")
  /\ LET op == Value(1, 1)
     IN  Return(1, [op EXCEPT !.true_list = op.false_list,
                              !.false_list = op.true_list,
                              !.yes = op.no, !.no = op.yes])
  /\ connectives' = connectives \cup {"NOT"}
  /\ UNCHANGED <<program, status, intent, dangling, merged, extents>>

-----------------------------------------------------------------------------
(***************************************************************************)
(* Control structures.                                                     *)
(***************************************************************************)

\* variant: the false list first
SettleFalseFirst(h, cond, true_tag, false_tag) ==
  Complete(Complete(h, cond.false_list, false_tag), cond.true_list, true_tag)

\* variant: the false list is forgotten
SettleTrueOnly(h, cond, true_tag, false_tag) ==
  Complete(h, cond.true_list, true_tag)

\* The two lists of a condition get their labels.
Settle(h, cond, true_tag, false_tag) ==
  Complete(Complete(h, cond.true_list, true_tag), cond.false_list, false_tag)

Goto(h, label) == QuadNew(h, "B", label, NoSymbol, NoSymbol)

UnchangedByControl ==
  UNCHANGED <<symbol_table, constants_count, connectives, dangling, merged>>

\* variant: the lists are completed when the statements are linked already
ControlIfLinked ==
  /\ Reduce("IF")
  /\ LET cond == Value(4, 1)
         true_statements == Value(4, 3).code
         joined == Concat(heap, <<cond.code, true_statements>>)
         settled == Settle(joined.heap, cond, Value(4, 2).symbol,
                           Value(4, 4).symbol)
         test == LastOf(cond.code)
     IN  Built(settled, Code(joined.list), 4,
               Aim(cond.yes, test, 1, cond.code, 0)
               @@ Aim(cond.no, EndAfter(test, true_statements), 1,
                      cond.code, 0))
  /\ UnchangedByControl

\* IF ( $1 ) tag statements tag
ControlIf ==
  /\ Reduce("IF")
  /\ LET cond == Value(4, 1)
         true_statements == Value(4, 3).code
         settled == Settle(heap, cond, Value(4, 2).symbol, Value(4, 4).symbol)
         joined == Concat(settled, <<cond.code, true_statements>>)
         test == LastOf(cond.code)
     IN  Built(joined.heap, Code(joined.list), 4,
               Aim(cond.yes, test, 1, cond.code, 0)
               @@ Aim(cond.no, EndAfter(test, true_statements), 1,
                      cond.code, 0))
  /\ UnchangedByControl

\* IF ( $1 ) tag statements ELSE tag1 statements tag1
ControlIfElse ==
  /\ Reduce("IF_ELSE")
  /\ LET cond == Value(6, 1)
         true_statements == Value(6, 3).code
         false_statements == Value(6, 5).code
         settled == Settle(heap, cond, Value(6, 2).symbol, Value(6, 4).symbol)
         made == Goto(settled, Value(6, 6).symbol)
         goto_end == NextQuad(made)
         joined == Concat(made, <<cond.code, true_statements, goto_end,
                                  false_statements>>)
     IN  Built(joined.heap, Code(joined.list), 6,
               Aim(cond.yes, LastOf(cond.code), 1, cond.code, 0)
               @@ Aim(cond.no, goto_end, 1, cond.code, 1)
               @@ Aim({goto_end}, EndAfter(goto_end, false_statements), 1,
                      cond.code, 1))
  /\ UnchangedByControl

\* WHILE ( tag $2 ) tag statements tag1
ControlWhile ==
  /\ Reduce("WHILE")
  /\ LET cond == Value(5, 2)
         statements == Value(5, 4).code
         settled == Settle(heap, cond, Value(5, 3).symbol, Value(5, 5).symbol)
         made == Goto(settled, Value(5, 1).symbol)
         goto_condition == NextQuad(made)
         joined == Concat(made, <<cond.code, statements, goto_condition>>)
     IN  Built(joined.heap, Code(joined.list), 5,
               Aim(cond.yes, LastOf(cond.code), 1, cond.code, 0)
               @@ Aim(cond.no, goto_condition, 1, cond.code, 1)
               @@ Aim({goto_condition}, cond.code, 0, cond.code, 0))
  /\ UnchangedByControl

\* DO tag statements WHILE ( $3 tag ) ;
ControlDoWhile ==
  /\ Reduce("DO")
  /\ LET cond == Value(4, 3)
         statements == Value(4, 2).code
         settled == Settle(heap, cond, Value(4, 1).symbol, Value(4, 4).symbol)
         joined == Concat(settled, <<statements, cond.code>>)
     IN  Built(joined.heap, Code(joined.list), 4,
               Aim(cond.yes, joined.list, 0, joined.list, 0)
               @@ Aim(cond.no, LastOf(cond.code), 1, joined.list, 0))
  /\ UnchangedByControl

\* FOR ( $1 ; tag $3 ; tag $5 ) tag1 statements tag2
ControlFor ==
  /\ Reduce("FOR")
  /\ LET variable_declaration == Value(8, 1)
         cond == Value(8, 3)
         iteration == Value(8, 5)
         statements == Value(8, 7).code
         settled == Settle(heap, cond, Value(8, 6).symbol, Value(8, 8).symbol)
         condition_again == Goto(settled, Value(8, 2).symbol)
         made == Goto(condition_again, Value(8, 4).symbol)
         goto_condition == NextQuad(condition_again)
         goto_iteration == NextQuad(made)
         joined == Concat(made, <<variable_declaration.code, cond.code,
                                  iteration.code, goto_condition, statements,
                                  goto_iteration>>)
     IN  Built(joined.heap, Code(joined.list), 8,
               Aim(cond.yes, goto_condition, 1, cond.code, 1)
               @@ Aim(cond.no, goto_iteration, 1, cond.code, 2)
               @@ Aim({goto_condition}, cond.code, 0, cond.code, 0)
               @@ Aim({goto_iteration}, iteration.code, 0, cond.code, 0))
  /\ UnchangedByControl

-----------------------------------------------------------------------------
(***************************************************************************)
(* The program.                                                            *)
(***************************************************************************)

\* function : ... statements { quad_list = $5; }
Function ==
  /\ Reduce("FUNCTION")
  /\ quad_list' = Value(1, 1).code
  /\ vals' = Below(1)
  /\ extents' = Append(extents, NextQuad(heap))
  /\ UNCHANGED <<heap, symbol_table, temps_count, constants_count, status,
                 intent, connectives, dangling, merged>>

\* variant: main() pushes no RET
AddNoReturn ==
  /\ status = "parsing"
  /\ ~ heap.hung
  /\ work = <<>>
  /\ status' = "done"
  /\ UNCHANGED <<work, growth, vals, program, meaning>>

\* yyparse() has succeeded; main() pushes a RET.
AddReturn ==
  /\ status = "parsing"
  /\ ~ heap.hung
  /\ work = <<>>
  /\ LET pushed == ListPush(heap, quad_list, "RET")
     IN  heap' = pushed.heap /\ quad_list' = pushed.list
  /\ status' = IF heap'.hung THEN status ELSE "done"
  /\ UNCHANGED <<work, growth, vals, symbol_table, temps_count,
                 constants_count, meaning>>

Next ==
  \/ Derive
  \/ DeclareConstant
  \/ MakeTag("tag", 0)
  \/ MakeTag("tag1", 1)
  \/ MakeTag("tag2", 2)
  \/ Lookup
  \/ UnaryArithmeticOp
  \/ BinaryArithmeticOp
  \/ Assignation
  \/ Declare
  \/ DeclareAndAssign
  \/ DeclareMatrix
  \/ CallFunctionWithExpr
  \/ ControlReturn
  \/ EmptyStatements
  \/ Sequence
  \/ ConditionFromExpression
  \/ ConditionCompareExpressions
  \/ ConditionTrue
  \/ ConditionFalse
  \/ ConditionOr
  \/ ConditionAnd
  \/ ConditionNot
  \/ ControlIf
  \/ ControlIfElse
  \/ ControlWhile
  \/ ControlDoWhile
  \/ ControlFor
  \/ Function
  \/ AddReturn

Spec == Init /\ [][Next]_vars

-----------------------------------------------------------------------------
(***************************************************************************)
(* Properties.                                                             *)
(***************************************************************************)

Nodes == 1 .. NextQuad(heap)
Pointers == Nodes \cup {NULL}

\* The globals of the front end and the semantic stack hold what their C
\* types say, and every pointer to a node or a symbol is to one that exists.
TypeOK ==
  /\ growth \in 0 .. MaxGrowth
  /\ \A n \in Nodes :
       /\ heap.quad[n].op \in {"MOVE", "RET"} \cup ArithmeticOps
                              \cup BranchOps \cup PrintOps
       /\ {heap.quad[n].res, heap.quad[n].op1, heap.quad[n].op2}
            \subseteq Symbols \cup {NoSymbol}
       /\ heap.quad[n].successor \in Pointers
  /\ heap.hung \in BOOLEAN
  /\ quad_list \in Pointers
  /\ \A k \in DOMAIN vals :
       /\ {vals[k].code, vals[k].true_list, vals[k].false_list}
            \subseteq Pointers
       /\ vals[k].symbol \in Symbols \cup {NoSymbol}
  /\ \A s \in Symbols : /\ symbol_table[s].type \in Types
                        /\ symbol_table[s].value \in Nat
  /\ {s[2] : s \in {t \in Symbols : t[1] = "tmp"}} = 0 .. temps_count - 1
  /\ {s[2] : s \in {t \in Symbols : t[1] = "cst"}} = 0 .. constants_count - 1
  /\ status \in {"parsing", "aborted", "done"}

Compiled == status = "done"

\* The quadruples of the compiled program.
InCode == NodesOf(heap, quad_list)

\* The number generate_code() gives to a quadruple, hence its label.
Position(n) ==
  LET at == Walk(heap, quad_list)
  IN  CHOOSE k \in 0 .. NextQuad(heap) : at[k] = n

\* The number of the quadruple a branch goes to.
Destination(b) == symbol_table[heap.quad[b].res].value

Resolved(b) == heap.quad[b].res # NoSymbol

\* The quadruples created for the last function of the text.
LastFunction == extents[Len(extents) - 1] + 1 .. extents[Len(extents)]

\* The quadruples made that are not in the program, and how many of them were
\* made from the first quadruple of a construct on before a tag that counted
\* `made' quadruples; those between the tag and the construct count negatively.
Lost == Nodes \ InCode
LostSince(first, made) ==
  Cardinality(Lost \cap (first .. made))
  - Cardinality(Lost \cap (made + 1 .. first - 1))

\* A branch of a program without OR, AND, NOT misses the place it is meant to
\* go to by what the first quadruple of its construct has moved since it was
\* numbered, and by the quadruples lost between that quadruple and the tag,
\* and by nothing else, whatever the nesting.  A quadruple moves when
\* quadruples before it are lost, as operands or with a whole function, or
\* when a goto is put in front of it that was created behind it
\* (actions.c:107-125, 224-268, the tags of parser.y:173-194).
BranchesMoveWithTheirConstruct ==
  Compiled /\ connectives = {} =>
    \A b \in InCode \cap DOMAIN intent :
      LET aim == intent[b]
          moved == Position(aim.head) - (aim.head - 1)
      IN  Destination(b) + moved =
            Position(aim.node) + aim.off
            + LostSince(aim.head, Destination(b) - aim.ahead)

\* What the comments the code gives its branches say of them: "jump to the
\* true statements", "jump to the end of if-else control" and so on
\* (actions.c:184, 188, 231, 242, 262, 264).
BranchesGoWhereTheySay ==
  Compiled =>
    \A b \in InCode \cap DOMAIN intent :
      Resolved(b) =>
        Destination(b) = Position(intent[b].node) + intent[b].off

\* The label of every branch is the number of a quadruple of the program, so
\* the assembler finds it, unless code was lost (translation.c:87, 183).
LabelsExist ==
  Compiled /\ Nodes \subseteq InCode =>
    \A b \in InCode :
      heap.quad[b].op \in BranchOps /\ Resolved(b) =>
        Destination(b) \in 0 .. Cardinality(InCode) - 1

\* The compiler loops forever on a text exactly when it has an OR of two
\* conditions that both can jump when they hold, or an AND of two that both
\* can jump when they do not (actions.c:127-147: the concatenation of the
\* lists links the code to itself, quad_list.c:26-43).
HangsExactlyWhenExitsMerge ==
  /\ heap.hung => merged
  /\ Compiled => ~ merged

\* A branch of the program without a label is one that should be taken when
\* the left side of an AND holds; every other branch has one, also in the
\* texts that have an AND (actions.c:139 completes the false list of the left
\* side a second time instead of its true list).
UnresolvedOnlyBeforeAnd ==
  Compiled =>
    \A b \in InCode :
      heap.quad[b].op \in BranchOps /\ ~ Resolved(b) => b \in dangling

\* Where a branch should go, as the number of a quadruple.
Aimed(b) == Position(intent[b].node) + intent[b].off

\* In an if, a branch does not always go where it is meant to, but to the
\* farthest place that a branch before it, or itself, is meant for.  So
\* `c || false' never falls back on its right side, and both branches of
\* `! (a < b)' go to the end (actions.c:128, 152, 218-219, quad_list.c:48: a
\* list that gets its label runs on into the code behind it).  With AND there
\* are also branches without a label.
FarthestExitWins ==
  LET branches == InCode \cap DOMAIN intent
      conditions == {intent[b].head : b \in {m \in branches : intent[m].off = 1}}
  IN  /\ Compiled
      /\ Nodes \subseteq InCode
      /\ "AND" \notin connectives
      /\ Cardinality(conditions) = 1
      => \A b \in branches :
           Destination(b) = Max({Aimed(e) : e \in {m \in branches :
                                     m <= b /\ Position(b) < Aimed(m)}})

\* The branches of compiled programs get a label once; only with OR, AND or
\* NOT is one written over (quad_list.c:47, actions.c:216-268: the lists run
\* on into whatever was linked behind them, so completing a list after a
\* concatenation would reach other branches).
LabelsWrittenOnce ==
  [][connectives' = {} =>
       \A n \in Nodes : heap.quad[n].op \in BranchOps /\ Resolved(n) =>
                          heap'.quad[n].res = heap.quad[n].res]_vars

Reads(n) == {heap.quad[n].op1, heap.quad[n].op2}
            \cup (IF heap.quad[n].op \in PrintOps THEN {heap.quad[n].res}
                                                  ELSE {})

\* A quadruple of the last function is left out of the program exactly when
\* it computes an operand of another computation, or the matrix of a print
\* (actions.c:110, 121, 280); the other functions are left out altogether
\* (parser.y:95-96).
OnlyOperandsLost ==
  Compiled =>
    /\ InCode \subseteq LastFunction \cup {NextQuad(heap)}
    /\ \A n \in LastFunction :
         n \in InCode <=>
           \/ heap.quad[n].op \notin ArithmeticOps
           \/ \E m \in LastFunction :
                /\ heap.quad[m].op \notin ArithmeticOps
                /\ heap.quad[n].res \in Reads(m)
=============================================================================
