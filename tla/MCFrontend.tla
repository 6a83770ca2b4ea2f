----------------------------- MODULE MCFrontend -----------------------------
(***************************************************************************)
(* Small instances of Frontend: each run takes away the rules it is not    *)
(* about and so can afford longer texts with the others.                   *)
(***************************************************************************)
EXTENDS Frontend

RulesOf(names) ==
  {rule \in UNION {Grammar[n] : n \in DOMAIN Grammar} : Last(rule) \in names}

TwoFunctions == {<<"function", "functions">>}

\* Control structures over one kind of condition, whose expression may lose
\* quadruples.
NoLogic == RulesOf({"OR", "AND", "NOT", "TRUE", "FALSE", "COMPARE"})
ControlOnly == NoLogic \cup RulesOf({"BINARY", "CALL", "LOOKUP",
                                     "DECLARE_MATRIX", "DECLARE_ASSIGN"})
               \cup {<<"assignation">>, <<"variable_declaration">>}

\* The same in one function and without anything that is lost.
ControlInOneFunction == ControlOnly \cup TwoFunctions \cup RulesOf({"UNARY"})

\* Conditions, in an if around a return.
LogicOnly == RulesOf({"UNARY", "BINARY", "LOOKUP", "CALL", "IF_ELSE", "WHILE",
                      "DO", "FOR", "SEQUENCE", "TEST"})
             \cup {<<"assignation">>, <<"variable_declaration">>}

\* Expressions and declarations, without control.
ExpressionsOnly == RulesOf(Controls)
=============================================================================
