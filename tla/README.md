# matcc in TLA+

matcc compiles MatC, a small subset of C with matrices, to MIPS assembly for
spim. It is a sequential program of about 1500 lines. Nothing runs
concurrently and nothing is persisted; what is hard in it is the order of
things: numbers that are given to quadruples before their place is known,
lists that share nodes, state that one pass leaves for the next, arrays that
shrink while they are scanned. The modules here follow the compiler pass by
pass. Paths below are relative to `src/src/` of the repository.

## 1. Inventory

| component | state | operations | module |
|---|---|---|---|
| lexer (`parsing/lexer.l`) | none of its own | tokens | - |
| parser and semantic actions (`parsing/parser.y`, `parsing/actions.c`) | bison's semantic stack, `parse_successful` | one function per rule | `Frontend` |
| quadruples and lists (`quad.c`, `quad_list.c`) | `next_quad`, `quad_list`, the nodes on the heap | new, push, concat, complete | `QuadList` |
| symbols, symbol table, hash table (`symbol.c`, `symbol_table.c`, `hash_table.c`) | `symbol_table` with `last_error`, `temps_count`, `constants_count` | push, lookup, enumerate, free | `SymbolTable`, `SymbolMap` |
| matrices (`matrix.c`) | a matrix per row of a literal | append value, append row, delete | `MatrixLiteral` |
| lifetimes (`mips/translation.c:8-53`) | positions in every symbol | reset, visit, warn | `Lifetime` |
| register allocation (`mips/register_allocation.c`, `mips/symbol_array.c`) | `live_symbols`, `active_symbols`, `registers`, `current_stack_location`, a register and a stack slot in every symbol | expire, assign, spill | `LinearScan` |
| code generation (`mips/translation.c:70-256`, `mips/instruction.c`) | the instruction list | one case per operator | `Quads`, `CodeGen` |
| what runs its output (spim, external) | the registers, the data section | one step per instruction | `Machine`, against `QuadMachine` |
| the back end as a whole | the fields of the symbols | the three passes, then the machine | `Backend` |
| driver (`main.c`, the ways `yyparse` returns) | options, files, exit status | the passes in order | `Driver`; the `RET` it adds: `Frontend` |
| allocation wrappers (`utility.c`) | none | exit on failure | - |

How they interact. The parser calls a semantic function at each reduction; it
pushes symbols to the table and builds quadruples; the list of the last
function becomes the global `quad_list`, and `main` adds a `RET`.
`compute_symbols_lifetime` reads that list and writes positions into the
symbols, which the allocator reads by enumerating the table and answers with a
register in each symbol; `generate_code` reads all three. There are no
callbacks and no messages: each pass trusts the global state of the previous
one.

What is hard, and what makes each component right:

* *Frontend.* A jump label is `next_quad` when an empty rule (`tag`, `tag1`,
  `tag2`) is reduced, a guess at the place a quadruple will have in the list.
  The guess counts quadruples that are dropped later and does not count gotos
  that are created late and placed early. A condition's `code`, `true_list`
  and `false_list` share nodes, and concatenation links in place. Right: every
  branch has a label, that of the place it is meant for; the compiler returns;
  what a quadruple reads has been computed.
* *SymbolTable.* The answer of a lookup goes through a flag that every call
  sets and one resets; keys are cut to fit a buffer. Right: it is a map, and
  enumeration meets every symbol once.
* *MatrixLiteral.* Reallocation, copies at computed offsets, deletion of rows.
  Right: the matrix is the text; nothing unwritten is in it; nothing leaks.
* *Lifetime.* Fields come uninitialised. Right: tight intervals.
* *LinearScan.* The list of active symbols is shortened while it is scanned,
  the bound on its size is off by one, a spill updates half of the state.
  Right: no two live symbols share a register, and a run without an error line
  has a register for every symbol.
* *Code generation.* A symbol is loaded at its first mention in the text and
  never stored; which file of registers an instruction uses depends on the type
  of one operand. Right: the registers do what the quadruples say, and the
  program ends if they do.
* *Back end.* The passes talk through uninitialised fields and do not look at
  each other's errors. Right: an error is harmless, or said to be fatal.
* *Driver.* The output is opened, and emptied, while options are still read; a
  flag set by a grammar rule stands for the result of the parser; everything is
  freed before the output is closed. Right: the exit status tells what became
  of the text and of the files.

`PROJECT.json` lists the hazards with their lines.

## 2. Plan

Done, in this order:

1. `Lifetime`, `LinearScan` and their proofs; `QuadList`, `Frontend`,
   `SymbolTable` refining `SymbolMap`, `MatrixLiteral`.
2. `CodeGen` and `Machine`, refining `QuadMachine`, the machine that runs
   quadruples over a store of symbols.
3. `Backend`, composing `Lifetime`, `LinearScan`, `CodeGen` and `Machine`.
4. `Driver` and its proofs.
5. Proofs about `SymbolTable`, `MatrixLiteral` and `Machine`, the refinements of
   `SymbolMap` and `QuadMachine` among them, and about the types, the labels, the
   lists and the lost operands of `Frontend`.
6. The proof that the passes of `Backend` do together what each is proved to do alone.

Left: more about `Frontend`: where the branches of a construct go
(`BranchesMoveWithTheirConstruct`, `FarthestExitWins`), and that the quadruples it
makes are what the back end assumes (`Parsed`, `OperandsRead`). No
module uses a `RECURSIVE` operator, so all of them can be proved about.

`Frontend` is not composed with `Backend`: the symbols of a program, their types
and the labels are constants of the one and made by the other, and the programs
that can be derived within TLC's reach are fewer than those of `MCBackend`'s
menu. What the back end needs of the front end is stated on both sides: `Frontend`
says which branches have a label that exists (`LabelsExist`,
`UnresolvedOnlyBeforeAnd`), and the back end asks for it (`WellLabelled` in
`Quads`).

## 3. The modules

**`QuadList`** is the heap. Each `quad_new` is followed by one
`quad_list_new` and no other node is made for that quadruple, so a node and
its quadruple are one record and its address is the rank of its creation. A
walk along a list that runs into itself does not return in C; here the heap
becomes `hung` and the compiler takes no further step. Operators only.

**`Frontend`** is the grammar and the semantic functions. The source text is
not an input: `Derive` chooses it, rule by rule, top-down, while the semantic
functions stand in the sentential form where bison reduces, so they run in
bison's order on a stack like bison's. One action per semantic function, whole:
`ConditionOr` completes a list, concatenates the code, concatenates the exits.
`abort_parsing` ends the behaviour with `status = "aborted"`. Types,
declarations and lookups are followed; names and literal values are not
(except the numbers in labels). Beside the code's state there is the meaning
of the text: for each branch the quadruple it should reach, the construct it
belongs to and how many gotos its tag counts ahead (`intent`), which
connectives have been used, which branches are taken when the left side of an
AND holds (`dangling`), whether two exits were merged, where functions end.
Actions write these and never read them.

**`SymbolTable`** is the hash table and its client: identifiers are declared and
looked up, temporaries and constants are named by their counters. `pushed` is
history, the symbols that `symbol_table_push` has returned; the loops over the table
are compared with it. **`SymbolMap`** is what the parser relies on. The hash function is a constant, so that an instance can make
it collide; the cut of identifiers to 30 characters is the constant `Cut`.

**`MatrixLiteral`** is the literal, its rows read value by value; memory that
`realloc` adds is `Garbage` until written.

**`Lifetime`** is the pass over the list, one quadruple per step; uninitialised
fields hold `Garbage`.

**`LinearScan`** is the allocator, one loop turn of `expire_old_symbols` or one
placement per step. `registers[REGISTER_NONE]` is the word below the array: the
program reads it and writes it, so it is a cell whose first content is NULL
(padding) or `Foreign` (some other object), and both are explored. `qsort` is
not stable: any sorted permutation may result.

**`Quads`** is the quadruple as the passes behind the parser see it: which
operands it reads and writes, where it goes, which of its operands have types
that give it no meaning (`Unspecified`), where values may still be used
(`IsLiveness`), whether the labels are all there (`WellLabelled`).

**`QuadMachine`** is the abstract specification: one quadruple per step over a
store, what the comments of the enum in `quad.h` promise. An unspecified
quadruple may compute any word and branch either way. Only the cells that
may still be used are part of its state, so that a dead symbol's register can be
reused.

**`CodeGen`** is `generate_code`, one quadruple per step: the loads in front of it,
its instructions, the label. A register number that is `REGISTER_NONE` reads
below the array of names; a crash is possible there, and if there is none what
was read is not the name of a register and the assembler refuses it. A branch
without a label is a crash.

**`Machine`** adds the assembler and the processor of spim, one instruction per
step. They are not in the repository (`tests/test.sh` calls them) and are
modelled as the generated code relies on them: `Assembles` is what is refused - a
jump to a label that is not there, a comparison of floats with a label operand, a
load from a name without a data section entry. Memory is the data section, and
nothing stores to it. `QM == INSTANCE QuadMachine WITH ...` is the refinement
mapping: the store is in memory before the load and in the register after it.
The refinement holds under named conditions: `Allocated` (what `LinearScan`
promises without errors), `JumpsKeepLoads` (no path to a use avoids the load or
comes back to it) and `LoopTailsQuiet` (what a loop reads again does not lose
its register before). Without the last two it does not hold, see the findings.

**`Backend`** is the three passes and the machine in the order of `main`. The
variables the modules share are the fields of the symbols: `start_point` and
`end_point` go from `Lifetime` to `LinearScan` and `CodeGen`,
`affected_register` from `LinearScan` to `CodeGen`. They start as garbage. Here
nothing is assumed of the registers; they are what the allocator gave.

**`Driver`** is `main`: one action per option, the ways the parser reads or
refuses a function, the passes, the buffer that reaches the file in parts. What
the other modules find is the kind of a function: `unlabelled` (`Frontend`,
crashes `CodeGen`), `endless` (`Frontend`), `undeclared` (`abort_parsing`), `minus`
(a string temporary). Whether a symbol is left without a register depends on the
symbols of the whole text and on the last list, so `crowded` may be true or false
after each function, and then `generate_code` crashes or not, as in `CodeGen`: what
lies below the arrays decides. bison reduces by default, so a token that begins no
function, behind a whole one, is found to be wrong only after
`parse_successful` has been set (`SyntaxErrorBetween`); in front of one, or
inside, it is found before.

Definitions marked "variant" are the slips used to test that a property can
fail; no specification uses them.

## 4. The runs

`Machine`, `Backend` and `Driver` state liveness and assume weak fairness of
their whole next-state relation: one compiler, one processor, sequential, and
neither stops on its own. No fairness between actions is assumed: where several
are enabled, they are inputs or outcomes, not processes. In `Driver` fairness
also says that a text ends, which `MaxFunctions` makes true of the instance. The
other modules claim no liveness; that the parser returns is stated as a safety
property, `HangsExactlyWhenExitsMerge`, since hanging is a state of the heap.
Deadlock is not checked: all these passes come to an end.

| run | instance | shows |
|---|---|---|
| `control` | returns and controls whose condition is a variable or computed from one by unary operators, four growing rules, one name, two functions allowed | A branch misses its place by what the first quadruple of its construct has moved and by the operands lost since, and by nothing else (`BranchesMoveWithTheirConstruct`); labels exist; lists are completed before linking |
| `logic` | conditions of at most three connectives, in an `if` | The compiler hangs exactly on an OR of two conditions that can both jump when true, or an AND of two that can both jump when false; the branches without a label are those that should be taken when the left side of an AND holds (`UnresolvedOnlyBeforeAnd`); of the exits that were completed over one another the farthest wins (`FarthestExitWins`) |
| `expressions` | straight-line text, three growing rules, int and matrix, two functions allowed | A quadruple is missing from the program exactly when it computes an operand, or the matrix of a print, or belongs to a function before the last |
| `labels` | one function, controls | finding, see below |
| `symbol_table` | 4 identifiers, 2 of which are cut to one name, 2 temporaries, 2 constants, 2 buckets | The table implements `SymbolMap`; the loops over it meet exactly the symbols that were pushed, each once; identifiers are confused only when they are cut to the same name |
| `matrix` | up to 3x3, two numbers, ragged literals included | The matrix is the text; ragged literals, and only they, are refused; only the literal stays allocated |
| `lifetime` | every program of up to 3 quadruples over 2 variables and a constant | Intervals are tight; the warning means "mentioned at most once" |
| `linear_scan` | 5 symbols, every choice of intervals on 3 positions, 2 registers | The properties of the allocation |
| `machine` | programs of up to 4 quadruples, 3 registers | The registers do what the quadruples say when loads are on the paths and loop tails quiet (`ImplementsQuads`); a program without loops comes to its RET (`ForwardProgramsReturn`) |
| `loops` | programs of up to 4 of a subtraction, a move, a print and two gotos (`GotoLoops`) | finding, see below |
| `backend` | programs of up to 3 quadruples, 2 registers, every order `qsort` may leave | As long as no value is spilled the allocator's errors do no harm (`WrongOnlyWhenSpilled`); a program without loops returns or there was an error line (`ReturnsOrWarns`) |
| `driver` | command lines of up to 4 arguments, texts of up to 3 functions | What exit status 0, 1 and a crash say of the text and the files, with and without a register for every symbol; that the compiler ends |

Why these bounds. A "growing rule" is one that starts a control structure,
adds a statement, a function, an operator or a connective; three of them give
every pair of nested controls with a statement beside them and three nested
ones, a fourth an operand that is lost in or before them; the labels of a construct depend only on what encloses it and what is
before it, one of each. Hanging takes one connective, overwriting of labels
two. In the allocator five symbols are the least with which two registers
overflow, the array is above its limit, one symbol is spilled and a further one
is placed; the proofs lift these bounds. The two buckets hold several items each.
A program of `Machine` is up to four quadruples from `Loops`, the menu with
assignments, a print and jumps backwards and forwards, three from `IntegerQuads`,
or two from all of them, mixed types and lost labels included, each with the RET
of `main`: a loop that computes, reads and jumps back is three quadruples, a
forward branch into it a fourth. Its registers are those a first-fit
allocation gives, three of them, so that some are reused; words have two bits
(and `Junk`, a register nobody has written). `Backend` takes three quadruples and
five symbols, two of them labels: with two registers both errors of the
allocator and every spill happen. A command line of four arguments holds any
pair of options with a source, `-o` twice included; three functions are one
before, one in which something is wrong, one behind. `MaxArguments`,
`MaxFunctions`, `MaxQuads`, `MaxGrowth`, `MaxGenerated`, `MaxRows`, `MaxColumns`,
`MaxPoint` and `MaxSymbols` are bounds of instances, the program has none of
them.
`Names`, `ConstantTypes`, `BinaryOps` and `CompareOps` are small because the
front end treats all members of each alike.

### Findings

* `labels` - inside the else part of an if, or the body of a for, branches of
  nested controls go one quadruple short for every such part around them: the
  goto put in front of the part is created after the labels were numbered.
* `loops` - in `SUB y x d; MOVE x y; B l0`, a loop that subtracts from x and is the
  first to mention it, the goto leads back to quadruple 0 and with it to the load of
  x, which puts the word of the data section over the result before the
  subtraction reads it. Nothing stores x. The trace ends with the goto, since from
  there on the value of x is the one the load will put there. No label is loaded in this
  program: without `BE` no label is.

What other passing runs show of the program, by saying exactly when it happens:
the parser does not return on `a < b || c < d` (`HangsExactlyWhenExitsMerge`);
a branch that should lead from the left side of an AND to the right may be left
without a label (`UnresolvedOnlyBeforeAnd`); in
`c || false`, or after a NOT, a branch gets the label of the other exit
(`FarthestExitWins`); `a + b + c` reads a temporary nothing computes
(`OnlyOperandsLost`); two identifiers with the same first 30 characters are one
(`OnlyCutNamesConfused`); labels and constants take registers though no
instruction needs them there, and once that makes the allocator spill a value,
the program may be assembled and compute something else while the compiler
exits with 0 (`WrongOnlyWhenSpilled`, whose condition cannot be dropped);
a text with a stray token behind a whole function is compiled without the rest
of it, also with exit status 0 (`ErrorsMissed`).

What the runs also show to be harmless, against appearances: the skip in
`expire_old_symbols` never makes two live symbols share a register and never
causes a missing register by itself, since whenever something has expired at
least one register is given back: when one is missing, more symbols than there are
registers live at the start of one of them, or more than that are mentioned nowhere
(`OverflowMeansPressure`; symbols that no quadruple mentions have the interval -1 to
-1 and are all placed before the others); and the error of `spill_symbol` on an empty
array cannot occur. After a spill `registers[]` still names the symbol that
was spilled, but only whether a register is taken is ever read from it
(`RegistersMatchActive`). The warning "unused symbol" names each variable that
at most one quadruple mentions, one that is read included
(`WarnedMeansUsedAtMostOnce`).

## 5. The proofs

Each module `...Proofs` extends the one it is about.

`LifetimeProofs`. For every set of symbols and every program length: type
correctness, `LifetimeTight` and `WarnedMeansUsedAtMostOnce`. `LifetimeTight`
is inductive once the types are known and `quad_counter` is 0 before the visit
(`Prologue`); the lemma `UsesAfterVisit` says what one visit adds to the uses of
a symbol. The only assumption is `LifetimeAssumption`: constants are symbols,
NULL is not, fields are integers.

`LinearScanProofs`. For every finite set of symbols, every choice of their
intervals and every positive number of registers. The properties are not
inductive: that a register is not shared needs to know that the register array
and the active list agree, that the active list is sorted and without
repetition, that what has left it has ended before the current symbol starts,
and what happens to the cell below the array. `IInv` is the conjunction of
these; `InitIInv` starts it, one lemma per action preserves it
(`ControlStep`, `ExpireStep`, `AssignStep`, `OverflowStep`, `CrashStep`,
`SpillLastStep`, `SpillCurrentStep`), `Invariance` concludes, and the theorems
on `NoClobber`, `RegistersMatchActive`, `NoDoubleFree`,
`SpillOnlyAfterOverflow` and `StackSlotsDisjoint` follow. `SpillVictim` is an
action property. `OverflowOnlyUnderPressure` and `SilentAllocationComplete`
need a second invariant, on what is still to be expired while the loop runs and
on the registers taken as long as no error was printed; it counts registers
with the theorems on finite cardinalities. When none is
free, a set that holds the current symbol and all active ones is larger than the
registers (`AllAtOnce`); if a quadruple mentions the current symbol, the set is what
lives at its start, and if none does, what is mentioned nowhere (`PressureAtCurrent`,
with `IntervalsOK`: an interval that begins at -1 ends there). That the
array of active symbols is never longer than it has cells is `ActiveBounded`. The assumption is `LinearScanAssumption`.

`DriverProofs`. For any sets of files, any number of arguments and functions: type
correctness, `SuccessMeansWholeOutput`, `FailureLeavesEmptyFiles`,
`ErrorsMissed`, `CrashesExplained` and `SourceLostNeverCompiled`. None is
inductive alone. That a success means the whole output needs to know what each
pass has printed before (`Printed`) and that the parse was accepted (`Accepted`);
that a failure is clean, that before the parse is checked nothing has been flushed
and exactly the files named by the options read so far are empty (`Emptied`), which
needs to know that the loop over the arguments stops at options and never at a name
behind an `-o` (`Position`; the lemmas `OptionPassed`, `NamePassed` and `OpenedNow`
say what one option adds); that a source which was lost is not compiled, that the text
has been read from a file that still holds it, so source and output differ
(`TextKept`, with `OutputEmpty` and `Options`); which errors are missed, that an
item that ends the parse is the last (`TextShape`), that there is a list as soon
as there is a function (`ListKnown`), and which texts are refused (`Refused`). `IInv` is their conjunction. `InitIInv` starts it;
the steps are in three groups with a lemma each - options (`OptionIInv`), parser
(`ParseIInv`), passes (`PassIInv`) - and `Invariance` concludes. The assumption is
`DriverAssumption`: a file has not the name of an option, sources and names that
cannot be opened are apart, the standard streams are no names and not each other, a text is not empty.

`MatrixLiteralProofs`. For any set of numbers and literals of any number of rows
and columns: type correctness, which includes that a matrix has
`height * width` cells and that all of them have been written, `LiteralMeansItsText`,
`RaggedRefused` and `OnlyTheLiteralLeft`. Inductive is that the row being read is
a matrix of its own and holds the last row of the text (`RowKept`), that the array
holds all rows before it, cell by cell (`ArrayKept`: the place of cell `(i, j)` is
`(i - 1) * width + j`, and the lemmas on places say that the `memcpy` behind the
last row disturbs none of them), and that what is not deleted is in use
(`LiveKept`). A row that is refused is not freed, so the last part ends there.

`SymbolTableProofs`. For any identifiers and cut names, any number of buckets and
generated symbols and any hash function: type correctness, `EverySymbolListedOnce`,
`OnlyCutNamesConfused` and `ImplementsMap`, the refinement of `SymbolMap`: the
initial states map to the empty map and every call to the step of the map with the
same answer. Inductive is that an item is in the bucket of its key and alone
there with it (`Chained`), that the temporaries and constants in the table are those
the counters have counted (`Counted`: otherwise one could be refused), that what is in
the table is what was pushed (`Recorded`), and that the last answer is still true of the
table (`Answered`). `Listed` walks the buckets with a
recursive function. A schema of induction cannot be cited, since it takes an
operator as a parameter; the lemma `Induction` states it with a set of numbers
instead, from the least element of a well-founded order (`WFMin`), and
`FirstBucketsDefined` uses it to show that the function exists. Assumed is
`SymbolTableAssumption`: the codes of the hash table and the answers are
different, as the members of the enum are (`hash_table.h`), and the hash of a key is a
bucket.

`BackendProofs`. For programs of any length, any number of registers, any words
and any meaning of the operators on them: type correctness, and `ImplementsQuads`,
the refinement of `QuadMachine`. Type correctness is proved of all programs, also
those with lost labels or mixed types and registers the allocator should not have
given; the refinement of those that are `Orderly`, as the property says. `IInv` is
the conjunction of

* `Given` and `Intervals`, what never changes: the program, and that the interval of
  a symbol goes from its first to its last mention;
* `Translated`: block k is the code of quadruple k, its loads in front. That a
  block has one instruction at most behind its loads (`CodeShape`) is why nothing
  happens between two quadruples;
* `Phases`: what runs has been assembled, block by block;
* `RegistersRight`, where `InOrder` holds: inside a block only loads are behind the
  processor, and they hold what they loaded; a symbol that does not change and is
  `Protected` - live, past its load, and within its interval or still needed by a
  loop - is in its register. It is not enough to say this of the interval: a loop
  carries a symbol past its end and back.

A symbol that changes needs no conjunct of its own, since the refinement mapping
says what its cell is. The heart is the lemma `Leave`: whoever leaves a
quadruple having changed no protected register but that of the result finds every
symbol that is live at the next one in its place, which is where `JumpsKeepLoads`
is used; `Apart`, where `Parted` and `LoopTailsQuiet` are used, says that a load
or a result falls on no protected register. Then there is one lemma per
action. Assumed of a program (`Parsed`) is what `actions.c` makes: an operand that
is computed with is there; a number is printed with the call for its type
(`actions.c:276-279`); a symbol that is computed with is not first met as a
label or as the string of a print, since labels and literals are constants of
their own, made where they are used (`actions.c:47-89`). Of `live`, that it solves the
equations of data flow where every label is there. `MachineAssumption` says that
the operators compute words and that memory and fresh registers hold words.

`InOrder` asks less than `Orderly`: not that every symbol has a register of its own,
but (`Parted`) that a symbol which is computed with shares its register only with
one that is not, a label or a literal, which is loaded no later and which no operand
field of that quadruple names (`GivesWay`): `res` is loaded before the operands, so such
a load is overwritten before anyone reads the register. That is what is left of an allocation in which labels have
used up the registers, and it makes the same proof serve for `WrongOnlyWhenSpilled`, the
property of the passes together: the theorem `PassesTogether`, for any finite set of
symbols, any number of registers, any garbage in the fields and below the register
array. `BackendInv` is inductive for all steps of `Backend`:

* `Program`: no pass changes the quadruples.
* `Lives`: the intervals are what `LifetimeProofs` says of the quadruples visited so
  far, so once all are visited they are `Intervals` (`LivesAreIntervals`).
* `Allocation`: nothing is allocated yet, or the invariant of `LinearScanProofs` holds.
  That one says nothing of a spilled symbol, which keeps the register it had. Needed is
  also who came first (`KeepsRegister` there): a symbol that is not on the stack shares
  its register with none placed after it whose interval meets its own.
* `Execution`: nothing is generated yet, or `IInv` above holds.

`LP` and `SP` are instances of the two proof modules for the variables of `Backend`, so
their lemmas are cited and not repeated; `SameLife` and `SameScan` say that the steps are
the same, `StartAllocationStep` and `AllocateStep` that each pass starts from what
the one before leaves. `NotSpilledIsParted` is where they meet: if no value of the
program is on the stack, what shares a register with a value and is alive with it came
before it and is no value, hence gives way. Assumed is, besides the above,
`OperandsRead`: what a quadruple names besides its result it computes with (in every call
of `quad_new` the operands without use are NULL), and `BackendAssumption`: the symbols
are finitely many, as those of a hash table are.

`FrontendProofs`. For texts of any size, any identifiers, operators and rules:
type correctness of the globals and of the semantic stack, and that the stack is
empty when the text has been parsed. The types do not hold by themselves:
`unary_arithmetic_op()` reads the type of the symbol that `$1` stands for, so `$1`
must be an expression, and that depends on the rules that have been reduced and on
those still open. `IInv` therefore has `StackKept`: the kinds of values (expression, tag,
condition, code) now on the stack and after each item that is left of the text, where
every item takes from the top what its rule says (`Takes`) and leaves what its
`%type` says (`Kind`). The lemmas on the grammar (`RulesOf...`) say that each rule
leaves what its nonterminal promises; `Replacing` puts a rule in the place of a
nonterminal, `Reducing` treats a semantic function. `TableKept` says that the
compiler's symbols are those its counters have counted, so that a new one is never
in the table already. `IsHeap` says that no link leaves the heap; `QuadNewIsHeap`,
`CompleteIsHeap`, `LinkIsHeap` and `ConcatIsHeap` say what quad_list.c preserves, the
last by induction over the arguments (`ConcatDefined`). Then one lemma per action.

The same `IInv` gives `LabelsExist`. That a label is one of the numbers of the
program is not inductive: a tag takes `next_quad` before the quadruple of that
number is made, and it may never be made if the text is refused. `IsHeap` therefore
says of which labels a branch may be, and `WellMade` that they go up to
`next_quad`, one past the last quadruple. `add_return` always makes that one,
and `LabelsKept` says that when the parser is done every label is below. The `for`
and the `else` make gotos that move what is behind them, so `tag`, `tag1` and
`tag2` are kinds of their own (`Late`): the number of a tag is below what
`next_quad` will be once that many gotos are made. `WalkDefined` and `WalkInHeap`
say that the walk from `quad_list`, a recursive function, exists and meets only nodes
of the heap, so where no quadruple was lost the numbers are the positions.
The assumption is `FrontendAssumption`.

`FrontendListProofs`. For the same texts: `HangsExactlyWhenExitsMerge`,
`UnresolvedOnlyBeforeAnd` and `LabelsWrittenOnce`. All three follow from one more
invariant, `ListsKept`, proved on top of `IInv`. As long as no OR has joined two
true exits and no AND two false ones, the values are `Apart`: the code of each
value and the program end, no two of them have a node in common, and each value
is `Sound` - its true and false lists are NULL or begin at a node of its code, a list is
NULL exactly when the condition has no such exit, and every branch that has no
label yet is in one of the two, unless it is `dangling` (`Awaited`): `condition_and`
completes the false list of its left side and drops the true one. That the lists are ends of the code and
not lists of their own is the point: they run on into the code behind them, which is why
completing one writes over others, and why joining two exits closes a circle
(`EndCloses`). Once exits have been joined, a value on the stack is a `Trap`: its
code and one of its lists lead into nodes that no link leaves
(`Loops`), whatever is linked later (`LoopsOn`), until a function walks one of them; every
rule that takes a condition does, or passes the trap on, and when the text has been
parsed there is no value left. So a text that joins exits is never
compiled, and one that does not never hangs. That it is inductive also needs
the labels: without OR, AND and NOT a list of branches reaches no branch that has one,
which is `LabelsWrittenOnce` step by step (`KeepsLists`).

The lemmas go from the heap upwards. `WiredIs` to `LinkGrows` say what
`quad_new`, `quad_list_complete` and one link of `quad_list_concat` do to a heap;
`PathExists` and `PathWalk` that a walk which is not endless follows a sequence of different
nodes and the reverse (an endless one is found by counting: more steps than
nodes); `Linking` that a list linked behind another it shares no node with
is the two in a row; `ConcatLists` the same of a whole call of `quad_list_concat`,
by induction over its arguments. `ReduceLists` and `CodeLists` say once what all
semantic functions have in common: the nodes of the values they take and
the new ones become the nodes of the value they leave. `ConnectivesJoin` and
`ConnectivesTrap` are the two cases of OR and AND. Then one lemma per action
(`...Lists`), `NextLists`, and the theorems.

On top of `IInv` and `ListsKept` the same module proves `OnlyOperandsLost`. A second
invariant, `OperandsKept`, says before the end of the text who holds a quadruple.
`Needed` is a quadruple that is no arithmetic or is read by one that is no operand.
`Shaped`: the value of an expression is a variable or a constant, or the result of
the one quadruple that computes it and that nothing has read yet; the code of any
other value has only quadruples that are `Needed`. `NothingMissing`: what is `Needed`
is in the code of some value. `OwnTemporaries`: each operand has a temporary of its
own, so reading one never makes another `Needed`. `ProgramWhole`: after the end of a
function the program is what is `Needed` of it. `Ending`: behind the end of a function
there are only further functions, so that no value waits while `extents` moves on. That
it is inductive also rests on the lists: while the values are `Apart`, the code that a
computation drops with its operand is nobody else's, and once exits have been joined
nothing is claimed, because no such text is compiled. `Gathers` says of each reduction
what becomes of the codes it takes - kept, or dropped because nothing that stays reads
the operand -, `Traced` that a reduction which does not end a function is of this
kind, `OthersKept` that it leaves the program and the values below alone.
`RenewedOperands` is the step of any such reduction, `FunctionOperands`,
`DeriveOperands` and `AddReturnOperands` are the steps at the end of a function, of the
grammar, and at the end of the text, and `StepOperands` puts them together.

Only model-checked: of `Frontend`, where branches go
(`BranchesMoveWithTheirConstruct`, `FarthestExitWins`), which speak of the position
of every quadruple in the list: an invariant for them has to say, of every
value on the stack, how the positions of its quadruples, the labels already taken and the
gotos still to be put in front of them relate, and none has been found that is
inductive; and the liveness of `Machine`, `Backend` and `Driver`
(`ForwardProgramsReturn`, `ReturnsOrWarns`, `EndsUnlessEndless`), which is
out of the prover's reach, as ENABLED is.

## 6. Not modelled

* The lexer: flex generates it and it keeps no state; its tokens are what
  `Derive` chooses. Line and column numbers only appear in messages.
* `utility.c`: wrappers that exit when the C library fails. No allocation fails
  here; `realloc` appears in `MatrixLiteral`.
* The wording of what is printed: instructions, quadruples, symbols, comments
  on quadruples, help and messages. `-d` prints the name of each symbol's
  register, also of one without a register, from below the array of names; a
  crash there comes in the same runs of the compiler as the one of `generate_code`
  (`GenerateCodeCrash`) and is not told from it.
* Freeing of quadruples and instructions, which happens once, at the end.
* In spim: exceptions (a division by zero, an overflow), the width of real
  words, the contents of matrices.
* What a quadruple of mixed types computes (`assign` compares no types): nothing in
  the code says it, so `QuadMachine` lets it be any word, and no property covers it.
