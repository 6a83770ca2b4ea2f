---------------------------- MODULE DriverProofs ----------------------------
(***************************************************************************)
(* What main() promises, for every command line and every text, of any     *)
(* length.                                                                 *)
(***************************************************************************)
EXTENDS Driver, TLAPS

Passes == {"quads", "data", "generate", "delete", "close"}

Types ==
  /\ argv \in Seq(Arguments)
  /\ i \in 1 .. Len(argv) + 1
  /\ stop_after_quads \in BOOLEAN
  /\ source_file \in Files \cup {NULL, stdin}
  /\ output_file \in Arguments \cup {NULL, stdout}
  /\ text \in Seq(Items)
  /\ quad_list \in Whole \cup {NULL}
  /\ parse_successful \in BOOLEAN
  /\ crowded \in BOOLEAN
  /\ pc \in {"options", "parse", "parsed", "endless", "ended"} \cup Passes
  /\ status \in {"running", "success", "failure", "crashed"}
  /\ (pc = "ended") <=> (status # "running")
  /\ DOMAIN disk = Arguments \cup {stdout}

\* The source is the last argument; both files are known when the parser
\* starts.
Options ==
  /\ pc = "options" /\ source_file # NULL => i = Len(argv) + 1
  /\ pc = "options" => source_file # stdin /\ output_file # stdout
  /\ pc \notin {"options", "ended"} => source_file # NULL /\ output_file # NULL
  /\ pc = "options" => text = <<>> /\ quad_list = NULL

\* The argument that comes next is not the name after an -o.
Position == pc = "options" => IsOption(i)

\* An item that ends the parse is the last, and the parser is not at one.
TextShape ==
  /\ \A k \in 1 .. Len(text) - 1 : text[k] \in Whole
  /\ pc \in {"options", "parse"} => \A k \in 1 .. Len(text) : text[k] \in Whole

\* There is a list as soon as there is a whole function.
ListKnown ==
  pc \in {"options", "parse", "parsed"} =>
    (quad_list # NULL <=> Len(text) > 0 /\ text[1] \in Whole)

\* Only a text of whole functions, and perhaps a stray token, is compiled ...
Accepted ==
  /\ pc \in Passes => parse_successful
  /\ status \in {"success", "crashed"} => Len(text) = 0 \/ parse_successful
  /\ parse_successful =>
       /\ pc \notin {"options", "parse"}
       /\ Len(text) > 0
       /\ text[1] \in Whole
       /\ \A k \in 1 .. Len(text) : text[k] \in Whole \cup {"stray"}

\* ... and one of those only, that begins with a function, is.
Refused ==
  \/ text = <<>>
  \/ text[1] \notin Whole
  \/ \E k \in 1 .. Len(text) : text[k] \in {"broken", "undeclared"}
  \/ (pc = "parsed" => parse_successful) /\ status # "failure"

\* The passes print one after the other.
Printed ==
  /\ pc \in {"options", "parse", "parsed", "quads", "data"} => printed = <<>>
  /\ pc = "quads" => stop_after_quads
  /\ pc \in {"data", "generate"} => ~ stop_after_quads
  /\ pc = "generate" => printed = <<"data">>
  /\ pc \in {"delete", "close"} =>
       printed = IF stop_after_quads THEN <<"variables", "code">>
                                     ELSE <<"data", "text">>

\* Until something is printed the files that options have named are empty and
\* the others as they were.
Emptied ==
  pc \in {"options", "parse", "parsed", "endless"} \/ status = "failure" =>
    \A f \in DOMAIN disk :
      disk[f] = IF f \in Opened THEN <<>> ELSE InitialDisk[f]

\* The output was named by an option and is empty until something is printed.
OutputEmpty ==
  /\ output_file \in Outputs \cup {NULL, stdout}
  /\ pc \in {"options", "parse", "parsed"} /\ output_file \in Arguments =>
       disk[output_file] = <<>>

\* The source still holds the text that was read, so it is not the output.
TextKept ==
  /\ pc \in {"parse", "parsed"} /\ text # <<>> => HasText
  /\ pc \in Passes => HasText /\ source_file # output_file

IInv ==
  /\ Types
  /\ Options
  /\ Position
  /\ TextShape
  /\ ListKnown
  /\ Accepted
  /\ Refused
  /\ Printed
  /\ Emptied
  /\ OutputEmpty
  /\ TextKept
  /\ SourceLostNeverCompiled
  /\ SuccessMeansWholeOutput
  /\ CrashesExplained

-----------------------------------------------------------------------------
(***************************************************************************)
(* The start.                                                              *)
(***************************************************************************)
\* Nothing has been read, and every file is as it was found.
LEMMA InitIInv == Init => IInv
<1> SUFFICES ASSUME Init PROVE IInv
  OBVIOUS
<1> USE DriverAssumption DEF Init
<1>1. argv \in Seq(Arguments)
  OBVIOUS
<1>2. Types
  <2>1. i \in 1 .. Len(argv) + 1
    BY <1>1
  <2>2. text \in Seq(Items)
    OBVIOUS
  <2>3. DOMAIN disk = Arguments \cup {stdout}
    BY DEF InitialDisk
  <2> QED
    BY <1>1, <2>1, <2>2, <2>3 DEF Types
<1>3. Options /\ TextShape /\ ListKnown /\ Accepted /\ Refused /\ Printed
  BY DEF Options, TextShape, ListKnown, Accepted, Refused, Printed, Passes
<1>4. Position /\ Emptied
  <2>1. Position
    BY DEF Position, IsOption
  <2>2. Opened = {}
    BY DEF Opened
  <2> QED
    BY <2>1, <2>2 DEF Emptied
<1>5. OutputEmpty /\ TextKept
  BY DEF OutputEmpty, TextKept, Arguments, Passes
<1>6. SourceLostNeverCompiled
  BY DEF SourceLostNeverCompiled, InitialDisk, Arguments
<1>7. SuccessMeansWholeOutput /\ CrashesExplained
  BY DEF SuccessMeansWholeOutput, CrashesExplained, Compilation
<1> QED
  BY <1>2, <1>3, <1>4, <1>5, <1>6, <1>7 DEF IInv

-----------------------------------------------------------------------------
(***************************************************************************)
(* The options.  Nothing is read or printed yet.                           *)
(***************************************************************************)
OptionStep ==
  Help \/ Debug \/ StopAfterQuads \/ Output \/ Source \/ NoMoreOptions

\* The files named by the -o before argument k.
NamedBefore(k) ==
  {argv[n + 1] : n \in {m \in 1 .. k - 2 : argv[m] = "-o" /\ IsOption(m)}}

\* What follows an -o is no option: the -o in a row before both would be of
\* even and of odd number.
LEMMA NameIsNoOption ==
  ASSUME NEW k \in Nat \ {0}, argv[k] = "-o", IsOption(k)
  PROVE  ~ IsOption(k + 1)
<1> SUFFICES ASSUME IsOption(k + 1) PROVE FALSE
  OBVIOUS
<1>1. PICK m \in 1 .. k : /\ m = 1 \/ argv[m - 1] # "-o"
                          /\ \A n \in m .. k - 1 : argv[n] = "-o"
                          /\ (k - m) % 2 = 0
  BY DEF IsOption
<1>2. PICK l \in 1 .. k + 1 : /\ l = 1 \/ argv[l - 1] # "-o"
                              /\ \A n \in l .. k : argv[n] = "-o"
                              /\ (k + 1 - l) % 2 = 0
  BY DEF IsOption
<1>3. l # k + 1
  BY <1>2
<1>4. ~ (m < l)
  <2> SUFFICES ASSUME m < l PROVE FALSE
    OBVIOUS
  <2>1. l - 1 \in m .. k - 1
    BY <1>3
  <2> QED
    BY <1>1, <1>2, <2>1
<1>5. ~ (l < m)
  <2> SUFFICES ASSUME l < m PROVE FALSE
    OBVIOUS
  <2>1. m - 1 \in l .. k
    OBVIOUS
  <2> QED
    BY <1>1, <1>2, <2>1
<1>6. l = m
  BY <1>4, <1>5
<1> QED
  BY <1>1, <1>2, <1>6

\* Another option is read: no further file is named.
LEMMA OptionPassed ==
  ASSUME NEW k \in Nat \ {0}, IsOption(k), argv[k] # "-o"
  PROVE  IsOption(k + 1) /\ NamedBefore(k + 1) = NamedBefore(k)
<1>1. IsOption(k + 1)
  <2>1. /\ k + 1 \in 1 .. k + 1
        /\ argv[(k + 1) - 1] # "-o"
        /\ \A n \in k + 1 .. (k + 1) - 1 : argv[n] = "-o"
        /\ ((k + 1) - (k + 1)) % 2 = 0
    OBVIOUS
  <2> QED
    BY <2>1 DEF IsOption
<1>2. ASSUME NEW m \in Int, argv[m] = "-o", IsOption(m)
      PROVE  m \in 1 .. (k + 1) - 2 <=> m \in 1 .. k - 2
  <2>1. m \in Nat \ {0} => ~ IsOption(m + 1)
    BY <1>2, NameIsNoOption
  <2>2. m \in Nat \ {0} => m # k - 1
    BY <2>1
  <2> QED
    BY <2>2
<1> QED
  BY <1>1, <1>2 DEF NamedBefore

\* An -o is read, with the name behind it.
LEMMA NamePassed ==
  ASSUME NEW k \in Nat \ {0}, IsOption(k), argv[k] = "-o"
  PROVE  /\ IsOption(k + 2)
         /\ NamedBefore(k + 2) = NamedBefore(k) \cup {argv[k + 1]}
<1>1. IsOption(k + 2)
  <2>1. CASE argv[k + 1] # "-o"
    <3>1. /\ k + 2 \in 1 .. k + 2
          /\ argv[(k + 2) - 1] # "-o"
          /\ \A n \in k + 2 .. (k + 2) - 1 : argv[n] = "-o"
          /\ ((k + 2) - (k + 2)) % 2 = 0
      BY <2>1
    <3> QED
      BY <3>1 DEF IsOption
  <2>2. CASE argv[k + 1] = "-o"
    <3>1. PICK m \in 1 .. k : /\ m = 1 \/ argv[m - 1] # "-o"
                              /\ \A n \in m .. k - 1 : argv[n] = "-o"
                              /\ (k - m) % 2 = 0
      BY DEF IsOption
    <3>2. m \in 1 .. k + 2
      OBVIOUS
    <3>3. \A n \in m .. (k + 2) - 1 : argv[n] = "-o"
      <4> SUFFICES ASSUME NEW n \in m .. (k + 2) - 1 PROVE argv[n] = "-o"
        OBVIOUS
      <4>1. n \in m .. k - 1 \/ n = k \/ n = k + 1
        OBVIOUS
      <4> QED
        BY <2>2, <3>1, <4>1
    <3>4. ((k + 2) - m) % 2 = 0
      BY <3>1
    <3> QED
      BY <3>1, <3>2, <3>3, <3>4 DEF IsOption
  <2> QED
    BY <2>1, <2>2
<1>2. ASSUME NEW m \in Int, argv[m] = "-o", IsOption(m)
      PROVE  m \in 1 .. (k + 2) - 2 <=> m \in 1 .. k - 2 \/ m = k
  <2>1. m \in Nat \ {0} => ~ IsOption(m + 1)
    BY <1>2, NameIsNoOption
  <2>2. m \in Nat \ {0} => m # k - 1
    BY <2>1
  <2> QED
    BY <2>2
<1> QED
  BY <1>1, <1>2 DEF NamedBefore

\* What the options of a step have named, in terms of the arguments before it.
LEMMA OpenedNow ==
  ASSUME argv' = argv
  PROVE  /\ Opened = NamedBefore(i)
         /\ Opened' = NamedBefore(i')
         /\ Position' <=> (pc' = "options" => IsOption(i'))
BY DEF Opened, NamedBefore, Position, IsOption

\* Where no option is read the same files are named.
LEMMA SameOptions ==
  ASSUME UNCHANGED options
  PROVE  Outputs' = Outputs /\ Opened' = Opened
<1>1. argv' = argv /\ i' = i
  BY DEF options
<1>2. Opened' = Opened
  BY <1>1, OpenedNow
<1> QED
  BY <1>1, <1>2 DEF Outputs

\* While options are read nothing is parsed or printed; a file can only be
\* emptied.
LEMMA OptionKeeps ==
  ASSUME IInv, OptionStep
  PROVE  /\ pc = "options" /\ status = "running"
         /\ argv' = argv /\ Outputs' = Outputs
         /\ text' = <<>> /\ quad_list' = NULL /\ parse_successful' = FALSE
         /\ crowded' = crowded
         /\ printed' = <<>>
         /\ pc' \in {"options", "parse", "ended"}
         /\ status' \in {"running", "success", "failure"}
         /\ pc' = "ended" <=> status' # "running"
<1>1. pc = "options" /\ argv' = argv /\ UNCHANGED <<parser, printed>>
  BY DEF OptionStep, Help, Debug, StopAfterQuads, Output, Source,
         NoMoreOptions, Argument
<1>2. status = "running" /\ text = <<>> /\ quad_list = NULL
      /\ printed = <<>> /\ parse_successful = FALSE
  BY <1>1 DEF IInv, Types, Options, Printed, Accepted
<1>3. /\ pc' \in {"options", "parse", "ended"}
      /\ status' \in {"running", "success", "failure"}
      /\ pc' = "ended" <=> status' # "running"
  BY <1>1, <1>2 DEF OptionStep, Help, Debug, StopAfterQuads, Output, Source,
         NoMoreOptions, Argument, Exit, Continue
<1>4. Outputs' = Outputs
  BY <1>1 DEF Outputs
<1> QED
  BY <1>1, <1>2, <1>3, <1>4 DEF parser

\* Options keep the invariant.
LEMMA OptionIInv == ASSUME IInv, OptionStep PROVE IInv'
<1>0. /\ pc = "options" /\ status = "running"
      /\ argv' = argv /\ Outputs' = Outputs
      /\ text' = <<>> /\ quad_list' = NULL /\ parse_successful' = FALSE
      /\ crowded' = crowded
      /\ printed' = <<>>
      /\ pc' \in {"options", "parse", "ended"}
      /\ status' \in {"running", "success", "failure"}
      /\ pc' = "ended" <=> status' # "running"
  BY OptionKeeps
<1> USE <1>0
<1>1. TextShape' /\ ListKnown' /\ Accepted' /\ Refused'
  BY DEF TextShape, ListKnown, Accepted, Refused, Passes
<1>2. Printed'
  BY DEF Printed
<1>3. SuccessMeansWholeOutput' /\ CrashesExplained'
  BY DEF SuccessMeansWholeOutput, CrashesExplained, Compilation
<1>4. Types'
  <2>1. /\ i' \in 1 .. Len(argv) + 1
        /\ stop_after_quads' \in BOOLEAN
        /\ source_file' \in Files \cup {NULL, stdin}
        /\ output_file' \in Arguments \cup {NULL, stdout}
        /\ DOMAIN disk' = DOMAIN disk
    <3> USE DriverAssumption DEF IInv, Types
    <3>1. CASE Help
      BY <3>1 DEF Help
    <3>2. CASE Debug
      BY <3>2 DEF Debug, Argument
    <3>3. CASE StopAfterQuads
      BY <3>3 DEF StopAfterQuads, Argument
    <3>4. CASE Output
      BY <3>4 DEF Output, Argument
    <3>5. CASE Source
      BY <3>5 DEF Source, Argument
    <3>6. CASE NoMoreOptions
      BY <3>6 DEF NoMoreOptions
    <3> QED
      BY <3>1, <3>2, <3>3, <3>4, <3>5, <3>6 DEF OptionStep
  <2>2. argv \in Seq(Arguments) /\ <<>> \in Seq(Items)
    BY DEF IInv, Types
  <2> QED
    BY <2>1, <2>2 DEF IInv, Types
<1>5. Options'
  <2>1. /\ i <= Len(argv) => source_file = NULL
        /\ source_file # stdin /\ output_file # stdout
    <3>1. i \in Int /\ Len(argv) \in Nat
      BY DEF IInv, Types
    <3> QED
      BY <3>1 DEF IInv, Options
  <2> USE DriverAssumption, <2>1 DEF Options
  <2>2. CASE Help
    BY <2>2 DEF Help, Exit
  <2>3. CASE Debug \/ StopAfterQuads
    BY <2>3 DEF Debug, StopAfterQuads, Argument
  <2>4. CASE Output
    <3>1. i <= Len(argv) /\ pc' \in {"options", "ended"}
          /\ source_file' = source_file
      BY <2>4 DEF Output, Argument, Exit
    <3>2. output_file' # stdout
      <4>1. i + 1 \in 1 .. Len(argv) => argv[i + 1] \in Arguments
        BY DEF IInv, Types
      <4> QED
        BY <2>4, <4>1 DEF Output, Argument, IInv, Types
    <3> QED
      BY <3>1, <3>2
  <2>5. CASE Source
    <3>1. i' = Len(argv) + 1 \/ pc' = "ended"
      BY <2>5 DEF Source, Argument, Exit, IInv, Types
    <3> QED
      BY <2>5, <3>1 DEF Source, Argument, Exit, Arguments
  <2>6. CASE NoMoreOptions
    BY <2>6 DEF NoMoreOptions, Continue
  <2> QED
    BY <2>2, <2>3, <2>4, <2>5, <2>6 DEF OptionStep
<1>6. Position' /\ Emptied' /\ OutputEmpty' /\ TextKept'
      /\ SourceLostNeverCompiled'
  <2>0. /\ Opened = NamedBefore(i)
        /\ Opened' = NamedBefore(i')
        /\ Position' <=> (pc' = "options" => IsOption(i'))
    BY OpenedNow
  <2>1. TextKept'
    BY DEF TextKept, Passes
  <2>2. i \in Nat \ {0} /\ IsOption(i)
    BY DEF IInv, Types, Position
  <2>3. CASE Output
    <3>1. CASE i = Len(argv) \/ argv[i + 1] \in Locked
      <4>1. disk' = disk /\ output_file' = output_file /\ i' = i
            /\ status' = "failure" /\ pc' = "ended"
        BY <2>3, <3>1 DEF Output, Exit
      <4>2. Emptied'
        BY <2>0, <4>1 DEF IInv, Emptied
      <4> QED
        BY <2>0, <2>1, <4>1, <4>2
        DEF IInv, OutputEmpty, SourceLostNeverCompiled
    <3>2. CASE ~ (i = Len(argv) \/ argv[i + 1] \in Locked)
      <4> DEFINE named == argv[i + 1]
      <4>1. /\ output_file' = named
            /\ disk' = [disk EXCEPT ![named] = <<>>]
            /\ i' = i + 2
            /\ UNCHANGED <<pc, status, source_file>>
            /\ i <= Len(argv) /\ argv[i] = "-o"
        BY <2>3, <3>2 DEF Output, Argument
      <4>2. i \in 1 .. Len(argv) - 1
        BY <3>2, <4>1 DEF IInv, Types
      <4>3. named \in Outputs
        BY <4>1, <4>2 DEF Outputs
      <4>4. named \in Arguments /\ named \in DOMAIN disk
        BY <4>2 DEF IInv, Types
      <4>5. IsOption(i + 2) /\ NamedBefore(i + 2) = NamedBefore(i) \cup {named}
        BY <2>2, <4>1, NamePassed
      <4>6. Position' /\ Opened' = Opened \cup {named}
        BY <2>0, <4>1, <4>5
      <4> HIDE DEF named
      <4>7. Emptied'
        BY <4>1, <4>4, <4>6 DEF IInv, Emptied, InitialDisk
      <4>8. OutputEmpty'
        BY <4>1, <4>3, <4>4 DEF OutputEmpty
      <4>9. SourceLostNeverCompiled'
        <5>1. Sources \subseteq DOMAIN disk
          BY DriverAssumption DEF IInv, Types, Arguments
        <5> QED
          BY <4>1, <4>3, <4>4, <5>1 DEF IInv, SourceLostNeverCompiled
      <4> QED
        BY <2>1, <4>6, <4>7, <4>8, <4>9
    <3> QED
      BY <3>1, <3>2
  <2>4. CASE ~ Output
    <3>1. disk' = disk
      BY <2>4 DEF OptionStep, Help, Debug, StopAfterQuads, Source,
                  NoMoreOptions
    <3>2. Position' /\ Opened' = Opened
      <4>1. i' = i \/ (i' = i + 1 /\ argv[i] # "-o")
        BY <2>4, DriverAssumption
        DEF OptionStep, Help, Debug, StopAfterQuads, Source, NoMoreOptions,
            Argument
      <4>2. CASE i' = i
        BY <2>0, <2>2, <4>2
      <4>3. CASE i' = i + 1 /\ argv[i] # "-o"
        BY <2>0, <2>2, <4>3, OptionPassed
      <4> QED
        BY <4>1, <4>2, <4>3
    <3>3. Emptied'
      BY <3>1, <3>2 DEF IInv, Emptied
    <3>4. output_file' = output_file \/ output_file' = stdout
      BY <2>4 DEF OptionStep, Help, Debug, StopAfterQuads, Source,
                  NoMoreOptions
    <3>5. OutputEmpty'
      BY <3>1, <3>4, DriverAssumption DEF IInv, OutputEmpty
    <3>6. SourceLostNeverCompiled'
      <4>1. pc' = "ended" => status' = "failure" \/ source_file' = NULL
        BY <2>4 DEF OptionStep, Help, Debug, StopAfterQuads, Source,
                    NoMoreOptions, Argument, Exit, Continue, IInv, Types,
                    Options
      <4> QED
        BY <3>1, <4>1, DriverAssumption
        DEF IInv, SourceLostNeverCompiled, Arguments
    <3> QED
      BY <2>1, <3>2, <3>3, <3>5, <3>6
  <2> QED
    BY <2>3, <2>4
<1> QED
  BY <1>1, <1>2, <1>3, <1>4, <1>5, <1>6 DEF IInv

-----------------------------------------------------------------------------
(***************************************************************************)
(* The parser.  The files stay as they are.                                *)
(***************************************************************************)
ParseStep ==
  \/ ParseFunction
  \/ AbortParsing
  \/ ParseForever
  \/ SyntaxErrorInFunction
  \/ SyntaxErrorBetween
  \/ EndOfText

\* The text after an item was read.
LEMMA TextRead ==
  ASSUME IInv, NEW item \in Items, Parse(item)
  PROVE  /\ text' \in Seq(Items) /\ Len(text') \in Nat \ {0}
         /\ \A k \in 1 .. Len(text') - 1 : text'[k] \in Whole
         /\ text'[Len(text')] = item
         /\ quad_list # NULL <=> Len(text') > 1
<1>1. pc = "parse" /\ text' = Append(text, item)
  BY DEF Parse
<1>2. text \in Seq(Items) /\ Len(text) \in Nat
  BY DEF IInv, Types
<1>3. \A k \in 1 .. Len(text) : text[k] \in Whole
  BY <1>1 DEF IInv, TextShape
<1>4. Len(text) > 0 => text[1] \in Whole
  BY <1>2, <1>3
<1>5. quad_list # NULL <=> Len(text) > 0
  BY <1>1, <1>4 DEF IInv, ListKnown
<1>6. Len(text') = Len(text) + 1
  BY <1>1, <1>2
<1> QED
  BY <1>1, <1>2, <1>3, <1>5, <1>6

\* While functions are read the options, the files and the printed parts stay.
LEMMA ParseKeeps ==
  ASSUME IInv, ParseStep
  PROVE  /\ pc = "parse" /\ status = "running"
         /\ UNCHANGED <<options, printed, disk>>
         /\ Outputs' = Outputs /\ Opened' = Opened
         /\ pc' \in {"parse", "parsed", "endless", "ended"}
         /\ status' \in {"running", "failure"}
         /\ pc' = "ended" <=> status' # "running"
         /\ text' # text => HasText
<1>1. pc = "parse" /\ UNCHANGED <<options, printed, disk>>
  BY DEF ParseStep, ParseFunction, AbortParsing, ParseForever,
         SyntaxErrorInFunction, SyntaxErrorBetween, EndOfText, Parse
<1>2. status = "running"
  BY <1>1 DEF IInv, Types
<1>3. /\ pc' \in {"parse", "parsed", "endless", "ended"}
      /\ status' \in {"running", "failure"}
      /\ pc' = "ended" <=> status' # "running"
      /\ text' # text => HasText
  BY <1>1, <1>2 DEF ParseStep, ParseFunction, AbortParsing, ParseForever,
         SyntaxErrorInFunction, SyntaxErrorBetween, EndOfText, Parse, Exit,
         Continue
<1>4. Outputs' = Outputs /\ Opened' = Opened
  BY <1>1, SameOptions
<1> QED
  BY <1>1, <1>2, <1>3, <1>4

\* What the properties of the text need of each step.
LEMMA ParseText ==
  ASSUME IInv, ParseStep
  PROVE  /\ text' \in Seq(Items) /\ quad_list' \in Whole \cup {NULL}
         /\ parse_successful' \in BOOLEAN /\ crowded' \in BOOLEAN
         /\ TextShape' /\ ListKnown' /\ Accepted' /\ Refused'
<1>1. /\ pc = "parse" /\ status = "running" /\ parse_successful = FALSE
      /\ quad_list \in Whole \cup {NULL} /\ crowded \in BOOLEAN
      /\ text \in Seq(Items) /\ Len(text) \in Nat
  BY ParseKeeps DEF IInv, Accepted, Types
<1> USE <1>1 DEF Passes
<1>2. CASE ParseFunction
  <2>1. PICK item \in Whole : Parse(item) /\ quad_list' = item
             /\ crowded' \in BOOLEAN
             /\ UNCHANGED <<parse_successful, pc, status>>
    BY <1>2 DEF ParseFunction
  <2>2. item \in Items /\ item # NULL
    BY DriverAssumption DEF Items
  <2>3. \A k \in 1 .. Len(text') : text'[k] \in Whole
    BY <2>1, <2>2, TextRead
  <2>4. TextShape' /\ ListKnown'
    BY <2>1, <2>2, <2>3, TextRead DEF TextShape, ListKnown
  <2>5. Accepted' /\ Refused'
    BY <2>1, <2>2 DEF Accepted, Refused
  <2> QED
    BY <2>1, <2>2, <2>4, <2>5, TextRead
<1>3. CASE AbortParsing
  <2>1. /\ Parse("undeclared") /\ pc' = "ended" /\ status' = "failure"
        /\ quad_list' = quad_list /\ parse_successful' = FALSE
        /\ crowded' = crowded
    BY <1>3 DEF AbortParsing, Exit
  <2>2. "undeclared" \in Items /\ "undeclared" \notin Whole
    BY DEF Items, Whole
  <2>3. TextShape'
    BY <2>1, <2>2, TextRead DEF TextShape
  <2>4. ListKnown'
    BY <2>1, <2>2, TextRead DEF ListKnown
  <2>5. Accepted'
    BY <2>1, <2>2, TextRead DEF Accepted
  <2>6. Refused'
    BY <2>1, <2>2, TextRead DEF Refused
  <2> QED
    BY <2>1, <2>2, <2>3, <2>4, <2>5, <2>6, TextRead
<1>4. CASE ParseForever
  <2>1. /\ Parse("endless") /\ pc' = "endless" /\ status' = "running"
        /\ quad_list' = quad_list /\ parse_successful' = FALSE
        /\ crowded' = crowded
    BY <1>4 DEF ParseForever, Continue
  <2>2. "endless" \in Items /\ "endless" \notin Whole
    BY DEF Items, Whole
  <2>3. TextShape'
    BY <2>1, <2>2, TextRead DEF TextShape
  <2>4. ListKnown'
    BY <2>1, <2>2, TextRead DEF ListKnown
  <2>5. Accepted'
    BY <2>1, <2>2, TextRead DEF Accepted
  <2>6. Refused'
    BY <2>1, <2>2, TextRead DEF Refused
  <2> QED
    BY <2>1, <2>2, <2>3, <2>4, <2>5, <2>6, TextRead
<1>5. CASE SyntaxErrorInFunction
  <2>1. /\ Parse("broken") /\ pc' = "parsed" /\ status' = "running"
        /\ quad_list' = quad_list /\ parse_successful' = FALSE
        /\ crowded' = crowded
    BY <1>5 DEF SyntaxErrorInFunction, Continue
  <2>2. "broken" \in Items /\ "broken" \notin Whole
    BY DEF Items, Whole
  <2>3. TextShape'
    BY <2>1, <2>2, TextRead DEF TextShape
  <2>4. ListKnown'
    BY <2>1, <2>2, TextRead DEF ListKnown
  <2>5. Accepted'
    BY <2>1, <2>2, TextRead DEF Accepted
  <2>6. Refused'
    BY <2>1, <2>2, TextRead DEF Refused
  <2> QED
    BY <2>1, <2>2, <2>3, <2>4, <2>5, <2>6, TextRead
<1>6. CASE SyntaxErrorBetween
  <2>1. /\ Parse("stray") /\ pc' = "parsed" /\ status' = "running"
        /\ quad_list' = quad_list /\ crowded' = crowded
        /\ quad_list = NULL => parse_successful' = FALSE
        /\ quad_list # NULL => parse_successful' = TRUE
    BY <1>6 DEF SyntaxErrorBetween, Continue
  <2>2. "stray" \in Items /\ "stray" \notin Whole
    BY DEF Items, Whole
  <2>3. TextShape'
    BY <2>1, <2>2, TextRead DEF TextShape
  <2>4. ListKnown'
    BY <2>1, <2>2, TextRead DEF ListKnown
  <2>5. Accepted' /\ Refused'
    <3>1. CASE quad_list = NULL
      <4>1. Len(text') \in Nat \ {0} /\ ~ (Len(text') > 1)
            /\ text'[Len(text')] = "stray"
        BY <2>1, <2>2, <3>1, TextRead
      <4>2. Len(text') = 1
        <5>1. \A n \in Nat \ {0} : ~ (n > 1) => n = 1
          OBVIOUS
        <5> QED
          BY <4>1, <5>1
      <4>3. parse_successful' = FALSE /\ text'[1] \notin Whole
        BY <2>1, <2>2, <3>1, <4>1, <4>2
      <4> QED
        BY <2>1, <4>3 DEF Accepted, Refused
    <3>2. CASE quad_list # NULL
      <4>1. parse_successful' = TRUE /\ Len(text') > 1
        BY <2>1, <2>2, <3>2, TextRead
      <4>2. /\ text'[1] \in Whole
            /\ \A k \in 1 .. Len(text') : text'[k] \in Whole \cup {"stray"}
        BY <2>1, <2>2, <4>1, TextRead
      <4> QED
        BY <2>1, <4>1, <4>2 DEF Accepted, Refused
    <3> QED
      BY <3>1, <3>2
  <2> QED
    BY <2>1, <2>2, <2>3, <2>4, <2>5, TextRead
<1>7. CASE EndOfText
  <2>1. /\ pc' = "parsed" /\ status' = "running" /\ text' = text
        /\ quad_list' = quad_list /\ crowded' = crowded
        /\ quad_list = NULL => parse_successful' = FALSE
        /\ quad_list # NULL => parse_successful' = TRUE
    BY <1>7 DEF EndOfText, Continue
  <2>2. \A k \in 1 .. Len(text) : text[k] \in Whole
    BY DEF IInv, TextShape
  <2>3. quad_list # NULL <=> Len(text) > 0
    BY <2>2 DEF IInv, ListKnown
  <2>4. TextShape'
    BY <2>1, <2>2 DEF TextShape
  <2>5. ListKnown'
    BY <2>1, <2>2, <2>3 DEF ListKnown
  <2>6. Accepted' /\ Refused'
    <3>1. CASE quad_list = NULL
      BY <2>1, <2>3, <3>1 DEF Accepted, Refused
    <3>2. CASE quad_list # NULL
      BY <2>1, <2>2, <2>3, <3>2 DEF Accepted, Refused
    <3> QED
      BY <3>1, <3>2
  <2> QED
    BY <2>1, <2>4, <2>5, <2>6
<1> QED
  BY <1>2, <1>3, <1>4, <1>5, <1>6, <1>7 DEF ParseStep

\* The parser keeps the invariant.
LEMMA ParseIInv == ASSUME IInv, ParseStep PROVE IInv'
<1>0. /\ pc = "parse" /\ status = "running"
      /\ UNCHANGED <<options, printed, disk>>
      /\ Outputs' = Outputs /\ Opened' = Opened
      /\ pc' \in {"parse", "parsed", "endless", "ended"}
      /\ status' \in {"running", "failure"}
      /\ pc' = "ended" <=> status' # "running"
      /\ text' # text => HasText
  BY ParseKeeps
<1> USE <1>0 DEF options
<1>1. TextShape' /\ ListKnown' /\ Accepted' /\ Refused'
  BY ParseText
<1>2. Types'
  BY ParseText DEF IInv, Types
<1>3. Options'
  BY DEF IInv, Options
<1>4. Printed'
  BY DEF IInv, Printed
<1>5. Position' /\ Emptied' /\ OutputEmpty'
  BY DEF IInv, Position, Emptied, OutputEmpty
<1>6. TextKept'
  BY DEF IInv, TextKept, HasText, Passes
<1>7. SourceLostNeverCompiled'
  BY DEF IInv, SourceLostNeverCompiled
<1>8. SuccessMeansWholeOutput' /\ CrashesExplained'
  BY DEF SuccessMeansWholeOutput, CrashesExplained, Compilation
<1> QED
  BY <1>1, <1>2, <1>3, <1>4, <1>5, <1>6, <1>7, <1>8 DEF IInv

-----------------------------------------------------------------------------
(***************************************************************************)
(* The passes.  Options and text stay as they are.                         *)
(***************************************************************************)
PassStep ==
  \/ CheckParse
  \/ PrintQuads
  \/ PrintDataSection
  \/ GenerateCode
  \/ GenerateCodeCrash
  \/ Delete
  \/ DeleteCrash
  \/ Flush
  \/ Close

\* The data section followed by the text is the whole output: a sequence is
\* determined by its length and its elements.
LEMMA DataThenText == Append(<<"data">>, "text") = <<"data", "text">>
<1>1. <<"data">> \in Seq({"data", "text"}) /\ Len(<<"data">>) = 1
  OBVIOUS
<1>2. /\ Append(<<"data">>, "text") \in Seq({"data", "text"})
      /\ Len(Append(<<"data">>, "text")) = 2
  BY <1>1
<1>3. /\ Append(<<"data">>, "text")[1] = "data"
      /\ Append(<<"data">>, "text")[2] = "text"
  BY <1>1
<1>4. \A s \in Seq({"data", "text"}) : Len(s) = 2 => s = <<s[1], s[2]>>
  OBVIOUS
<1> QED
  BY <1>2, <1>3, <1>4

\* The passes keep the invariant.
LEMMA PassIInv == ASSUME IInv, PassStep PROVE IInv'
<1>1. /\ pc \in {"parsed"} \cup Passes /\ status = "running"
      /\ UNCHANGED <<options, parser>>
      /\ Outputs' = Outputs /\ Opened' = Opened
      /\ pc' \in {"ended"} \cup Passes
      /\ status' \in {"running", "success", "failure", "crashed"}
      /\ pc' = "ended" <=> status' # "running"
      /\ DOMAIN disk' = DOMAIN disk
      /\ \A f \in DOMAIN disk : disk'[f] # disk[f] => f = output_file
      /\ disk' # disk => pc \in {"generate", "delete", "close"}
  <2>1. /\ pc \in {"parsed"} \cup Passes
        /\ UNCHANGED <<options, parser>>
    BY DEF PassStep, CheckParse, PrintQuads, PrintDataSection, GenerateCode,
           GenerateCodeCrash, Delete, DeleteCrash, Flush, Close, Step, Crash,
           Passes
  <2>2. status = "running"
    BY <2>1 DEF IInv, Types, Passes
  <2>3. /\ pc' \in {"ended"} \cup Passes
        /\ status' \in {"running", "success", "failure", "crashed"}
        /\ pc' = "ended" <=> status' # "running"
    BY <2>1, <2>2
    DEF PassStep, CheckParse, PrintQuads, PrintDataSection, GenerateCode,
        GenerateCodeCrash, Delete, DeleteCrash, Flush, Close, Step, Crash,
        Passes, Continue, Exit
  <2>4. /\ DOMAIN disk' = DOMAIN disk
        /\ \A f \in DOMAIN disk : disk'[f] # disk[f] => f = output_file
        /\ disk' # disk => pc \in {"generate", "delete", "close"}
    BY DEF PassStep, CheckParse, PrintQuads, PrintDataSection, GenerateCode,
           GenerateCodeCrash, Delete, DeleteCrash, Flush, Close, Step, Crash
  <2>5. Outputs' = Outputs /\ Opened' = Opened
    BY <2>1, SameOptions
  <2> QED
    BY <2>1, <2>2, <2>3, <2>4, <2>5
<1> USE <1>1 DEF options, parser
<1>2. Types'
  BY DEF IInv, Types, Passes
<1>3. Options' /\ Position'
  BY DEF IInv, Options, Position, Passes
<1>4. TextShape' /\ ListKnown'
  BY DEF IInv, TextShape, ListKnown, Passes
<1>5. CASE CheckParse
  <2> USE <1>5 DEF CheckParse, Continue, Exit
  <2>1. Accepted' /\ Refused'
    BY DEF IInv, Accepted, Refused, Passes
  <2>2. Printed'
    BY DEF IInv, Printed
  <2>3. Emptied' /\ OutputEmpty'
    BY DEF IInv, Emptied, OutputEmpty
  <2>4. TextKept'
    <3>1. CASE ~ parse_successful
      BY <3>1 DEF TextKept, Passes
    <3>2. CASE parse_successful
      <4>1. HasText /\ source_file \in Files \cup {stdin}
        BY <3>2 DEF IInv, Accepted, TextKept, Types, Options
      <4>2. source_file \in Arguments => disk[source_file] = SourceText
        BY <4>1, DriverAssumption DEF HasText
      <4>3. output_file \in Arguments => disk[output_file] = <<>>
        BY DEF IInv, OutputEmpty
      <4>4. output_file \in Arguments \cup {stdout}
        BY DEF IInv, Types, Options
      <4>5. source_file # output_file
        BY <4>1, <4>2, <4>3, <4>4, DriverAssumption DEF Arguments
      <4> QED
        BY <4>1, <4>5 DEF TextKept, HasText, Passes
    <3> QED
      BY <3>1, <3>2
  <2>5. SourceLostNeverCompiled'
    BY DEF IInv, SourceLostNeverCompiled
  <2>6. SuccessMeansWholeOutput' /\ CrashesExplained'
    BY DEF SuccessMeansWholeOutput, CrashesExplained, Compilation
  <2> QED
    BY <1>2, <1>3, <1>4, <2>1, <2>2, <2>3, <2>4, <2>5, <2>6 DEF IInv
<1>6. CASE ~ CheckParse
  <2>1. pc \in Passes /\ status' # "failure" /\ pc' # "parsed"
        /\ pc' \notin {"quads", "data"}
    BY <1>6
    DEF PassStep, PrintQuads, PrintDataSection, GenerateCode,
        GenerateCodeCrash, Delete, DeleteCrash, Flush, Close, Step, Crash,
        Passes, Continue, Exit
  <2> USE <2>1
  <2>2. Accepted' /\ Refused'
    BY DEF IInv, Accepted, Refused, Passes
  <2>3. Printed'
    <3>1. CASE PrintQuads \/ PrintDataSection
      BY <3>1
      DEF IInv, Printed, PrintQuads, PrintDataSection, Step, Continue
    <3>2. CASE GenerateCode
      <4>1. pc = "generate" /\ pc' = "delete"
            /\ printed' = Append(printed, "text")
        BY <3>2 DEF GenerateCode, Step, Continue
      <4>2. printed = <<"data">> /\ ~ stop_after_quads
        BY <4>1 DEF IInv, Printed
      <4>3. printed' = <<"data", "text">>
        BY <4>1, <4>2, DataThenText
      <4> QED
        BY <4>1, <4>2, <4>3 DEF Printed
    <3>3. CASE Delete \/ Flush
      BY <3>3 DEF IInv, Printed, Delete, Flush, Step, Continue
    <3>4. CASE GenerateCodeCrash \/ DeleteCrash \/ Close
      BY <3>4 DEF Printed, GenerateCodeCrash, DeleteCrash, Close, Crash, Exit
    <3> QED
      BY <1>6, <3>1, <3>2, <3>3, <3>4 DEF PassStep
  <2>4. Emptied' /\ OutputEmpty'
    BY DEF IInv, Emptied, OutputEmpty, Passes
  <2>5. HasText' /\ source_file # output_file
    BY DriverAssumption DEF IInv, TextKept, HasText, Types, Options, Arguments
  <2>6. TextKept'
    BY <2>5 DEF TextKept, Passes
  <2>7. SourceLostNeverCompiled'
    <3> SUFFICES ASSUME NEW f \in Sources, disk'[f] # SourceText
                 PROVE  f \in Outputs /\ source_file # f
      BY DEF SourceLostNeverCompiled
    <3>1. f \in DOMAIN disk /\ f # stdin /\ f \notin {NULL, stdout}
      BY DriverAssumption DEF IInv, Types, Arguments
    <3>2. source_file # f
      BY <2>5, <3>1 DEF HasText
    <3>3. disk[f] # SourceText \/ f = output_file
      BY <3>1
    <3> QED
      BY <3>1, <3>2, <3>3 DEF IInv, SourceLostNeverCompiled, OutputEmpty
  <2>8. SuccessMeansWholeOutput'
    <3>1. status' = "success" => Close
      BY <1>6
      DEF PassStep, PrintQuads, PrintDataSection, GenerateCode,
          GenerateCodeCrash, Delete, DeleteCrash, Flush, Step, Crash,
          Continue, Exit
    <3>2. output_file \in DOMAIN disk
      BY DEF IInv, Types, Options, Passes
    <3> QED
      BY <3>1, <3>2
      DEF SuccessMeansWholeOutput, Compilation, Close, IInv, Printed
  <2>9. CrashesExplained'
    BY <1>6
    DEF CrashesExplained, PassStep, PrintQuads, PrintDataSection,
        GenerateCode, GenerateCodeCrash, Delete, DeleteCrash, Flush, Close,
        Step, Crash, Continue, Exit, IInv, Printed
  <2> QED
    BY <1>2, <1>3, <1>4, <2>2, <2>3, <2>4, <2>6, <2>7, <2>8, <2>9 DEF IInv
<1> QED
  BY <1>5, <1>6

-----------------------------------------------------------------------------
(***************************************************************************)
(* The theorems.                                                           *)
(***************************************************************************)

\* The parts of IInv hold in every state main() comes to.
THEOREM Invariance == Spec => []IInv
<1>1. IInv /\ [Next]_vars => IInv'
  <2> SUFFICES ASSUME IInv, [Next]_vars PROVE IInv'
    OBVIOUS
  <2>1. CASE OptionStep
    BY <2>1, OptionIInv
  <2>2. CASE ParseStep
    BY <2>2, ParseIInv
  <2>3. CASE PassStep
    BY <2>3, PassIInv
  <2>4. CASE UNCHANGED vars
    <3> USE <2>4 DEF vars, options, parser, IInv
    <3>1. Outputs' = Outputs /\ Opened' = Opened
      BY SameOptions DEF options
    <3>2. Types' /\ Options' /\ Position' /\ Printed'
      BY DEF Types, Options, Position, IsOption, Printed
    <3>3. TextShape' /\ ListKnown' /\ Accepted' /\ Refused'
      BY DEF TextShape, ListKnown, Accepted, Refused
    <3>4. Emptied' /\ OutputEmpty'
      BY <3>1 DEF Emptied, OutputEmpty
    <3>5. TextKept' /\ SourceLostNeverCompiled'
      BY <3>1 DEF TextKept, HasText, SourceLostNeverCompiled
    <3>6. SuccessMeansWholeOutput' /\ CrashesExplained'
      BY DEF SuccessMeansWholeOutput, Compilation, CrashesExplained
    <3> QED
      BY <3>2, <3>3, <3>4, <3>5, <3>6
  <2> QED
    BY <2>1, <2>2, <2>3, <2>4 DEF Next, OptionStep, ParseStep, PassStep
<1> QED
  BY <1>1, InitIInv, PTL DEF Spec

\* Every variable of main() holds a value of its kind.
THEOREM TypeCorrect == Spec => []TypeOK
<1>1. IInv => TypeOK
  <2> SUFFICES ASSUME IInv PROVE TypeOK
    OBVIOUS
  <2>1. text \in Seq(Items)
    BY DEF IInv, Types
  <2>2. Range(text) \subseteq Items
    BY <2>1 DEF Range
  <2> QED
    BY <2>2 DEF IInv, Types, TextShape, TypeOK, Arguments
<1> QED
  BY <1>1, Invariance, PTL

\* The status 0 means that all that was asked for is in the file named last
\* (main.c:104-131), however many options there are.
THEOREM SuccessIsComplete == Spec => []SuccessMeansWholeOutput
<1>1. IInv => SuccessMeansWholeOutput
  BY DEF IInv
<1> QED
  BY <1>1, Invariance, PTL

\* A failure has emptied the files that the options read so far name, and left
\* every other as it was (main.c:65-77).
THEOREM FailureIsClean == Spec => []FailureLeavesEmptyFiles
<1>1. IInv => FailureLeavesEmptyFiles
  BY DEF IInv, Emptied, FailureLeavesEmptyFiles
<1> QED
  BY <1>1, Invariance, PTL

\* Of the texts of any length on which the compiler comes to an end, exactly those
\* are not refused that begin with a whole function and go on with whole
\* functions, with a stray token at most behind them (parser.y:90,
\* main.c:87-97).
THEOREM ErrorsMissedExactly == Spec => []ErrorsMissed
<1>1. IInv => ErrorsMissed
  <2> SUFFICES ASSUME IInv, pc = "ended", text # <<>>
               PROVE  status # "failure" <=>
                        /\ text[1] \in Whole
                        /\ Range(text) \subseteq Whole \cup {"stray"}
    BY DEF ErrorsMissed
  <2>1. text \in Seq(Items) /\ Len(text) > 0
    BY DEF IInv, Types
  <2>2. Range(text) = {text[k] : k \in 1 .. Len(text)}
    BY <2>1 DEF Range
  <2>3. ASSUME status # "failure"
        PROVE  /\ text[1] \in Whole
               /\ Range(text) \subseteq Whole \cup {"stray"}
    <3>1. status \in {"success", "crashed"}
      BY <2>3 DEF IInv, Types
    <3> QED
      BY <2>1, <2>2, <3>1 DEF IInv, Accepted
  <2>4. ASSUME text[1] \in Whole,
               Range(text) \subseteq Whole \cup {"stray"}
        PROVE  status # "failure"
    <3>1. \A k \in 1 .. Len(text) : text[k] \notin {"broken", "undeclared"}
      BY <2>2, <2>4 DEF Whole
    <3> QED
      BY <2>4, <3>1 DEF IInv, Refused
  <2> QED
    BY <2>3, <2>4
<1> QED
  BY <1>1, Invariance, PTL

\* The compiler crashes only when it prints assembly, on a branch without a
\* label or a symbol without a register, or on a string temporary
\* (translation.c:70-124, 183; symbol.c:43).
THEOREM CrashesOnlyAsExplained == Spec => []CrashesExplained
<1>1. IInv => CrashesExplained
  BY DEF IInv
<1> QED
  BY <1>1, Invariance, PTL

\* A source that an option overwrites is never reported as compiled
\* (main.c:71, 75).
THEOREM LostSourceNotCompiled == Spec => []SourceLostNeverCompiled
<1>1. IInv => SourceLostNeverCompiled
  BY DEF IInv
<1> QED
  BY <1>1, Invariance, PTL
=============================================================================
