------------------------------- MODULE Driver -------------------------------
(***************************************************************************)
(* main(): the options, the passes in their order, the files, the exit     *)
(* status.  What a function of the text is compiled to is the business of  *)
(* the other modules; here it matters which functions the parser saw and   *)
(* in which way one of them goes wrong:                                    *)
(*                                                                         *)
(*   plain       a function like any other                                 *)
(*   unlabelled  one with a branch that never got a label                  *)
(*   minus       one that computes with strings, into a temporary          *)
(*   undeclared  one in which abort_parsing() is called                    *)
(*   endless     one on which the parser does not return (Frontend)        *)
(*   broken      one that is not in the grammar                            *)
(*   stray       a token no function begins with                           *)
(*                                                                         *)
(* The last four end the parse, so a text is cut there.  Whether there are *)
(* registers for all symbols depends on the whole table, with the symbols  *)
(* of every function, and on the list of the last (LinearScan): any answer *)
(* is possible after each function.                                        *)
(*                                                                         *)
(* A definition marked "variant" is the one that follows it with a slip    *)
(* put in; no specification uses it.                                       *)
(***************************************************************************)
EXTENDS Integers, Sequences, Functions

CONSTANTS Files,          \* names that are not those of options
          Sources,        \* those of files that hold a text at the start
          Locked,         \* those that cannot be opened
          Absent, SourceText, stdin, stdout, NULL,
          MaxArguments, MaxFunctions   \* bounds of the instance

Arguments == {"-h", "-d", "-c", "-o"} \cup Files

Whole == {"plain", "unlabelled", "minus"}
Items == Whole \cup {"undeclared", "endless", "broken", "stray"}

ASSUME DriverAssumption ==
  /\ Files \cap {"-h", "-d", "-c", "-o"} = {}
  /\ Sources \subseteq Files
  /\ Locked \subseteq Files \ Sources
  /\ {stdin, stdout, NULL} \cap Arguments = {}
  /\ NULL \notin Whole
  /\ stdin # NULL /\ stdout # NULL /\ stdin # stdout
  /\ SourceText # <<>>
  /\ MaxArguments \in Nat
  /\ MaxFunctions \in Nat

VARIABLES argv, i,            \* the arguments, from 1, and the next of them
          stop_after_quads, source_file, output_file,
          text,               \* what the parser has read
          parse_successful,
          quad_list,          \* the function whose list it is
          crowded,            \* there is no register for one of the symbols
          printed,            \* what was printed to output_file, in parts
          disk,               \* what the files hold
          pc,                 \* the part of main() that comes next
          status              \* of the process

options == <<argv, i, stop_after_quads, source_file, output_file>>
parser == <<text, parse_successful, quad_list, crowded>>
vars == <<options, parser, printed, disk, pc, status>>

InitialDisk ==
  [f \in Arguments \cup {stdout} |->
     IF f \in Sources THEN SourceText
     ELSE IF f = stdout THEN <<>> ELSE Absent]

Init ==
  /\ argv \in UNION {[1 .. n -> Arguments] : n \in 0 .. MaxArguments}
  /\ i = 1
  /\ stop_after_quads = FALSE
  /\ source_file = NULL
  /\ output_file = NULL
  /\ text = <<>>
  /\ parse_successful = FALSE
  /\ quad_list = NULL
  /\ crowded = FALSE
  /\ printed = <<>>
  /\ disk = InitialDisk
  /\ pc = "options"
  /\ status = "running"

Exit(how) ==
  /\ pc' = "ended"
  /\ status' = how

Continue(place) == pc' = place /\ UNCHANGED status

-----------------------------------------------------------------------------
(***************************************************************************)
(* The options, one argument (two with -o) per step.                       *)
(***************************************************************************)
Argument(option) ==
  /\ pc = "options"
  /\ i <= Len(argv)
  /\ argv[i] = option
  /\ UNCHANGED <<argv, parser, printed>>

Help ==
  /\ Argument("-h")
  /\ Exit("success")
  /\ UNCHANGED <<i, stop_after_quads, source_file, output_file, disk>>

\* variant: the loop does not go on
DebugAgain ==
  /\ Argument("-d")
  /\ UNCHANGED <<i, stop_after_quads, source_file, output_file, disk, pc, status>>

\* -d and -dd only add messages.
Debug ==
  /\ Argument("-d")
  /\ i' = i + 1
  /\ UNCHANGED <<stop_after_quads, source_file, output_file, disk, pc, status>>

StopAfterQuads ==
  /\ Argument("-c")
  /\ i' = i + 1
  /\ stop_after_quads' = TRUE
  /\ UNCHANGED <<source_file, output_file, disk, pc, status>>

\* variant: a file that is there is opened with r+
OutputKept ==
  /\ Argument("-o")
  /\ IF i = Len(argv) \/ argv[i + 1] \in Locked
       THEN /\ Exit("failure")
            /\ UNCHANGED <<i, output_file, disk>>
       ELSE /\ output_file' = argv[i + 1]
            /\ disk' = [disk EXCEPT ![argv[i + 1]] = IF @ = Absent THEN <<>> ELSE @]
            /\ i' = i + 2
            /\ UNCHANGED <<pc, status>>
  /\ UNCHANGED <<stop_after_quads, source_file>>

\* Whatever follows -o is a name; the file is emptied at once.
Output ==
  /\ Argument("-o")
  /\ IF i = Len(argv) \/ argv[i + 1] \in Locked
       THEN /\ Exit("failure")
            /\ UNCHANGED <<i, output_file, disk>>
       ELSE /\ output_file' = argv[i + 1]
            /\ disk' = [disk EXCEPT ![argv[i + 1]] = <<>>]
            /\ i' = i + 2
            /\ UNCHANGED <<pc, status>>
  /\ UNCHANGED <<stop_after_quads, source_file>>

\* Anything else is the source if it comes last, an error if not.
Source ==
  \E f \in Files :
    /\ Argument(f)
    /\ IF i < Len(argv) \/ f \in Locked \/ disk[f] = Absent
         THEN Exit("failure") /\ UNCHANGED <<i, source_file>>
         ELSE /\ source_file' = f
              /\ i' = i + 1
              /\ UNCHANGED <<pc, status>>
    /\ UNCHANGED <<stop_after_quads, output_file, disk>>

NoMoreOptions ==
  /\ pc = "options"
  /\ i > Len(argv)
  /\ source_file' = IF source_file = NULL THEN stdin ELSE source_file
  /\ output_file' = IF output_file = NULL THEN stdout ELSE output_file
  /\ Continue("parse")
  /\ UNCHANGED <<argv, i, stop_after_quads, parser, printed, disk>>

-----------------------------------------------------------------------------
(***************************************************************************)
(* yyparse().  There is a text on stdin and in a source that was not       *)
(* emptied.                                                                *)
(***************************************************************************)
HasText == IF source_file = stdin THEN TRUE ELSE disk[source_file] = SourceText

Parse(item) ==
  /\ pc = "parse"
  /\ HasText
  /\ Len(text) < MaxFunctions
  /\ text' = Append(text, item)
  /\ UNCHANGED <<options, printed, disk>>

ParseFunction ==
  \E item \in Whole :
    /\ Parse(item)
    /\ quad_list' = item
    /\ crowded' \in BOOLEAN
    /\ UNCHANGED <<parse_successful, pc, status>>

\* abort_parsing()
AbortParsing ==
  /\ Parse("undeclared")
  /\ Exit("failure")
  /\ UNCHANGED <<parse_successful, quad_list, crowded>>

ParseForever ==
  /\ Parse("endless")
  /\ Continue("endless")
  /\ UNCHANGED <<parse_successful, quad_list, crowded>>

\* A type was read, so the functions before are not reduced to a program.
SyntaxErrorInFunction ==
  /\ Parse("broken")
  /\ Continue("parsed")
  /\ UNCHANGED <<parse_successful, quad_list, crowded>>

\* variant: the program is only reduced in front of the end of the text
SyntaxErrorNoticed ==
  /\ Parse("stray")
  /\ Continue("parsed")
  /\ UNCHANGED <<parse_successful, quad_list, crowded>>

\* variant: the parser goes on behind the token
SyntaxErrorSkipped ==
  /\ Parse("stray")
  /\ UNCHANGED <<parse_successful, quad_list, crowded, pc, status>>

\* After a function any token but a type makes the parser reduce by default,
\* up to the program, before it looks whether the token may follow.
SyntaxErrorBetween ==
  /\ Parse("stray")
  /\ parse_successful' = (quad_list # NULL)
  /\ Continue("parsed")
  /\ UNCHANGED <<quad_list, crowded>>

\* The end of the text; a text without a function is a syntax error.
EndOfText ==
  /\ pc = "parse"
  /\ parse_successful' = (quad_list # NULL)
  /\ Continue("parsed")
  /\ UNCHANGED <<options, text, quad_list, crowded, printed, disk>>

-----------------------------------------------------------------------------
(***************************************************************************)
(* The rest of main().                                                     *)
(***************************************************************************)
Step(from, to) ==
  /\ pc = from
  /\ Continue(to)
  /\ UNCHANGED <<options, parser, disk>>

\* variant: the test is forgotten
CheckNothing ==
  /\ pc = "parsed"
  /\ Continue(IF stop_after_quads THEN "quads" ELSE "data")
  /\ UNCHANGED <<options, parser, printed, disk>>

\* variant: the two outputs are swapped
ModesSwapped ==
  /\ pc = "parsed"
  /\ IF ~ parse_successful THEN Exit("failure")
     ELSE Continue(IF stop_after_quads THEN "data" ELSE "quads")
  /\ UNCHANGED <<options, parser, printed, disk>>

\* What yyparse() returned is not looked at.
CheckParse ==
  /\ pc = "parsed"
  /\ IF ~ parse_successful THEN Exit("failure")
     ELSE Continue(IF stop_after_quads THEN "quads" ELSE "data")
  /\ UNCHANGED <<options, parser, printed, disk>>

PrintQuads == Step("quads", "delete") /\ printed' = <<"variables", "code">>

PrintDataSection == Step("data", "generate") /\ printed' = <<"data">>

\* CodeGen: a branch without a label is a NULL dereference; the register of a
\* symbol without one lies below the array and its name may be anything.
GenerateCode ==
  /\ quad_list # "unlabelled"
  /\ Step("generate", "delete")
  /\ printed' = Append(printed, "text")

Crash ==
  /\ Exit("crashed")
  /\ UNCHANGED <<options, parser, printed, disk>>

\* LinearScan: what lies below the registers may be no symbol either.
GenerateCodeCrash ==
  /\ pc = "generate"
  /\ quad_list = "unlabelled" \/ crowded
  /\ Crash

\* variant: everything is deleted before it is printed
DeletedFirst == Step("delete", "close") /\ printed' = <<>>

Delete == Step("delete", "close") /\ UNCHANGED printed

\* The initial value of a string temporary is freed and was never set.
DeleteCrash ==
  /\ pc = "delete"
  /\ "minus" \in Range(text)
  /\ Crash

\* A part of what was printed leaves the buffer, when that is full.
Flush ==
  /\ pc \in {"generate", "delete", "close"}
  /\ \E n \in Len(disk[output_file]) + 1 .. Len(printed) :
       disk' = [disk EXCEPT ![output_file] = SubSeq(printed, 1, n)]
  /\ UNCHANGED <<options, parser, printed, pc, status>>

Close ==
  /\ pc = "close"
  /\ disk' = [disk EXCEPT ![output_file] = printed]
  /\ Exit("success")
  /\ UNCHANGED <<options, parser, printed>>

Next ==
  \/ Help
  \/ Debug
  \/ StopAfterQuads
  \/ Output
  \/ Source
  \/ NoMoreOptions
  \/ ParseFunction
  \/ AbortParsing
  \/ ParseForever
  \/ SyntaxErrorInFunction
  \/ SyntaxErrorBetween
  \/ EndOfText
  \/ CheckParse
  \/ PrintQuads
  \/ PrintDataSection
  \/ GenerateCode
  \/ GenerateCodeCrash
  \/ Delete
  \/ DeleteCrash
  \/ Flush
  \/ Close

\* One process that does not stop on its own; a text has an end.
Spec == Init /\ [][Next]_vars /\ WF_vars(Next)

-----------------------------------------------------------------------------
(***************************************************************************)
(* Properties.                                                             *)
(***************************************************************************)
Compilation == status = "success" /\ pc = "ended" /\ text # <<>>

\* The files an -o may have named.
Outputs == {argv[k + 1] : k \in {m \in 1 .. Len(argv) - 1 : argv[m] = "-o"}}

\* Argument k is no name: an -o takes the next argument whatever it is, so of
\* several in a row every second is a name.
IsOption(k) ==
  \E m \in 1 .. k :
    /\ m = 1 \/ argv[m - 1] # "-o"
    /\ \A n \in m .. k - 1 : argv[n] = "-o"
    /\ (k - m) % 2 = 0

\* The files named by the options read so far.
Opened ==
  {argv[k + 1] : k \in {m \in 1 .. i - 2 : argv[m] = "-o" /\ IsOption(m)}}

\* Every variable holds a value of its kind, and text is what a parser can
\* have read: an item that ends the parse is the last.
TypeOK ==
  /\ i \in 1 .. Len(argv) + 1
  /\ source_file \in Arguments \cup {NULL, stdin}
  /\ output_file \in Arguments \cup {NULL, stdout}
  /\ Range(text) \subseteq Items
  /\ \A k \in 1 .. Len(text) - 1 : text[k] \in Whole
  /\ quad_list \in Whole \cup {NULL}
  /\ parse_successful \in BOOLEAN
  /\ crowded \in BOOLEAN
  /\ status \in {"running", "success", "failure", "crashed"}
  /\ (pc = "ended") <=> (status # "running")

\* The status 0 means that what was asked for is there, all of it, in the
\* file named last (main.c:104-131).
SuccessMeansWholeOutput ==
  Compilation =>
    disk[output_file] = IF stop_after_quads THEN <<"variables", "code">>
                                            ELSE <<"data", "text">>

\* A compilation that fails has printed no code, and it has emptied every file
\* that an option it has read names, also when a later option is wrong or the
\* file is the source; all others are as they were (main.c:65-77: the files
\* are opened while the options are read).
FailureLeavesEmptyFiles ==
  status = "failure" =>
    \A f \in DOMAIN disk :
      disk[f] = IF f \in Opened THEN <<>> ELSE InitialDisk[f]

\* A text that was read to its end, or to an error, is refused unless it begins
\* with a whole function and its only error is a token behind a whole function
\* that begins no other (parser.y:90, main.c:87-97).
ErrorsMissed ==
  pc = "ended" /\ text # <<>> =>
    (status # "failure" <=> /\ text[1] \in Whole
                            /\ Range(text) \subseteq Whole \cup {"stray"})

\* The compiler crashes only when it is to print assembly and a branch of the
\* last function has no label or a symbol no register, or when it deletes the
\* symbols and there was a string temporary in any of the functions
\* (translation.c:70-124, 183; symbol.c:43).
CrashesExplained ==
  status = "crashed" =>
    \/ ~ stop_after_quads /\ (quad_list = "unlabelled" \/ crowded)
    \/ "minus" \in Range(text)

\* A source survives unless an option names it as the output, and then the
\* compilation fails: it reads an empty text (main.c:71, 75).
SourceLostNeverCompiled ==
  \A f \in Sources :
    disk[f] # SourceText =>
      /\ f \in Outputs
      /\ pc = "ended" /\ source_file = f => status = "failure"

\* The compiler ends on every text but one its parser loops on
\* (actions.c:127-147).
EndsUnlessEndless == <>(pc \in {"ended", "endless"})
=============================================================================
