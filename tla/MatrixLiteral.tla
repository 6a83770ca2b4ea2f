--------------------------- MODULE MatrixLiteral ----------------------------
(***************************************************************************)
(* A matrix literal: the rules float_matrix, float_array_list, float_array *)
(* and float_list of parser.y, and the functions of matrix.c they call.    *)
(* Every row is first a matrix of its own, which grows as its values are   *)
(* read; the first one then takes in the others, which are deleted.        *)
(*                                                                         *)
(* The values of a matrix are the cells of its allocation.  What           *)
(* safe_realloc() adds is Garbage until it is written.                     *)
(*                                                                         *)
(* A definition marked "variant" is the one that follows it with a slip    *)
(* put in; no specification uses it.                                       *)
(***************************************************************************)
EXTENDS Naturals, SequencesExt

CONSTANTS Floats, Garbage, MaxRows, MaxColumns

ASSUME MatrixAssumption ==
  /\ Garbage \notin Floats
  /\ MaxRows \in Nat \ {0}
  /\ MaxColumns \in Nat \ {0}

NULL == 0

VARIABLES matrices,  \* every matrix made so far; its address is its rank
          row,       \* the float_list or float_array being read
          array,     \* the float_array_list being read
          text,      \* the literal as it is written, a sequence of rows
          status     \* "row" or "rows" while it is read, "aborted", "done"

vars == <<matrices, row, array, text, status>>

-----------------------------------------------------------------------------
\* safe_realloc() to n cells
Realloc(values, n) ==
  [k \in 1 .. n |-> IF k <= Len(values) THEN values[k] ELSE Garbage]

\* matrix_new_with_value()
WithValue(v) ==
  [height |-> 1, width |-> 1, values |-> <<v>>, deleted |-> FALSE]

\* variant: the value goes where the last one is
ValueOver(m, v) ==
  LET wider == m.width + 1
      cells == Realloc(m.values, m.height * wider)
  IN  [m EXCEPT !.width = wider, !.values = [cells EXCEPT ![m.width] = v]]

\* matrix_append_value(), the case of a matrix with one row.  It has one:
\* only a float_list is appended to.
ValueAppended(m, v) ==
  LET wider == m.width + 1
      cells == Realloc(m.values, m.height * wider)
  IN  [m EXCEPT !.width = wider, !.values = [cells EXCEPT ![wider] = v]]

\* variant: the row is copied to where the last one is
RowCopiedOver(m, r) ==
  LET cells == Realloc(m.values, (m.height + r.height) * m.width)
  IN  [m EXCEPT
         !.values = [k \in DOMAIN cells |->
                       LET c == k - (m.height - 1) * m.width
                       IN  IF c \in 1 .. r.width THEN r.values[c] ELSE cells[k]],
         !.height = @ + 1]

\* matrix_append_row(), past its two checks
RowAppended(m, r) ==
  LET cells == Realloc(m.values, (m.height + r.height) * m.width)
  IN  [m EXCEPT
         !.values = [k \in DOMAIN cells |->
                       LET c == k - m.height * m.width
                       IN  IF c \in 1 .. r.width THEN r.values[c] ELSE cells[k]],
         !.height = @ + 1]

\* variant: a row lives on
Keep(r) == r

\* matrix_delete()
Delete(r) == [r EXCEPT !.deleted = TRUE]

-----------------------------------------------------------------------------
Init ==
  /\ matrices = <<>>
  /\ row = NULL
  /\ array = NULL
  /\ text = <<>>
  /\ status = "rows"

\* float_list : FLOATCONST
FirstValue ==
  /\ status = "rows"
  /\ Len(text) < MaxRows
  /\ \E v \in Floats :
       /\ matrices' = Append(matrices, WithValue(v))
       /\ text' = Append(text, <<v>>)
  /\ row' = Len(matrices')
  /\ status' = "row"
  /\ UNCHANGED array

\* float_list : float_list ',' FLOATCONST
NextValue ==
  /\ status = "row"
  /\ Len(text[Len(text)]) < MaxColumns
  /\ \E v \in Floats :
       /\ matrices' = [matrices EXCEPT ![row] = ValueAppended(@, v)]
       /\ text' = [text EXCEPT ![Len(text)] = Append(@, v)]
  /\ UNCHANGED <<row, array, status>>

\* float_array_list : float_array
FirstRow ==
  /\ status = "row"
  /\ array = NULL
  /\ array' = row
  /\ row' = NULL
  /\ status' = "rows"
  /\ UNCHANGED <<matrices, text>>

\* variant: a row may be shorter
Fits(m, r) == m.width >= r.width /\ r.height = 1

\* What matrix_append_row() demands.
SameWidth(m, r) == m.width = r.width /\ r.height = 1

\* float_array_list : float_array_list ',' float_array
NextRow ==
  /\ status = "row"
  /\ array # NULL
  /\ LET m == matrices[array]
         r == matrices[row]
     IN  IF SameWidth(m, r)
           THEN /\ matrices' = [matrices EXCEPT ![array] = RowAppended(m, r),
                                                ![row] = Delete(r)]
                /\ status' = "rows"
           ELSE /\ status' = "aborted"
                /\ UNCHANGED matrices
  /\ row' = NULL
  /\ UNCHANGED <<array, text>>

\* expression : '{' float_matrix '}', of a float_list or a float_array_list
Literal ==
  /\ \/ status = "rows" /\ array # NULL /\ UNCHANGED array
     \/ status = "row" /\ array = NULL /\ array' = row
  /\ status' = "done"
  /\ UNCHANGED <<matrices, row, text>>

Next == FirstValue \/ NextValue \/ FirstRow \/ NextRow \/ Literal

Spec == Init /\ [][Next]_vars

-----------------------------------------------------------------------------
(***************************************************************************)
(* Properties.                                                             *)
(***************************************************************************)

Live == {k \in DOMAIN matrices : ~ matrices[k].deleted}

\* A matrix has a cell for each of its entries and none it has not written
\* (matrix.h:6-10, matrix.c:13-43).
TypeOK ==
  /\ \A k \in DOMAIN matrices :
       /\ matrices[k].values \in Seq(Floats)
       /\ Len(matrices[k].values) = matrices[k].height * matrices[k].width
  /\ {row, array} \subseteq DOMAIN matrices \cup {NULL}

\* The matrix of a literal is what the text says, row after row, whatever
\* the sequence of reallocations and copies that built it (matrix.c:24-42).
LiteralMeansItsText ==
  status = "done" =>
    LET m == matrices[array]
    IN  /\ m.height = Len(text)
        /\ \A i \in 1 .. Len(text) :
             /\ m.width = Len(text[i])
             /\ \A j \in 1 .. Len(text[i]) :
                  m.values[(i - 1) * m.width + j] = text[i][j]

\* The compiler refuses a literal exactly when two of its rows differ in
\* length, as soon as the second of them ends (matrix.c:32-37).
RaggedRefused ==
  /\ status # "row" =>
       (status = "aborted" <=>
          \E i \in 1 .. Len(text) : Len(text[i]) # Len(text[1]))
  /\ status = "aborted" =>
       \A i \in 1 .. Len(text) - 1 : Len(text[i]) = Len(text[1])

\* The matrix of the literal is the only one left: every other row has been
\* deleted, none that is still in use (parser.y:147-149, matrix.c:45-48).
OnlyTheLiteralLeft ==
  /\ {row, array} \ {NULL} \subseteq Live
  /\ status = "done" => Live = {array}
=============================================================================
