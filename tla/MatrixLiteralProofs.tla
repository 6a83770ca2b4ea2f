------------------------ MODULE MatrixLiteralProofs -------------------------
(***************************************************************************)
(* A matrix is its text, for literals of any size.                         *)
(***************************************************************************)
EXTENDS MatrixLiteral, SequenceTheorems, TLAPS

Size == Nat \ {0}
Row == Seq(Floats) \ {<<>>}

Matrix == [height : Size, width : Size, values : Seq(Floats), deleted : BOOLEAN]

\* All of its cells have been written.
Full(m) == Len(m.values) = m.height * m.width

\* The matrix m has the first n rows of t.
Holds(m, t, n) ==
  /\ m.height = n
  /\ \A i \in 1 .. n :
       /\ Len(t[i]) = m.width
       /\ \A j \in 1 .. m.width : m.values[(i - 1) * m.width + j] = t[i][j]

Types ==
  /\ matrices \in Seq(Matrix)
  /\ \A k \in DOMAIN matrices : Full(matrices[k])
  /\ text \in Seq(Row)
  /\ row \in DOMAIN matrices \cup {NULL}
  /\ array \in DOMAIN matrices \cup {NULL}
  /\ status \in {"row", "rows", "aborted", "done"}

\* The row being read is a matrix of its own and holds the last row of text.
RowKept ==
  /\ status = "row" =>
       /\ row # NULL /\ row # array
       /\ text # <<>>
       /\ matrices[row].height = 1
       /\ matrices[row].values = text[Len(text)]
  /\ status \in {"rows", "aborted"} => row = NULL
  /\ status = "done" => row \in {NULL, array}

\* How many rows of the text the array holds.
Absorbed == IF status \in {"row", "aborted"} THEN Len(text) - 1 ELSE Len(text)

ArrayKept ==
  /\ array # NULL => Holds(matrices[array], text, Absorbed)
  /\ array = NULL => status \in {"row", "rows"} /\ Absorbed = 0
  /\ status = "aborted" => Len(text[Len(text)]) # Len(text[1])

\* Of all the matrices made, those in use are not deleted, and only those
\* until a row is refused.
LiveKept ==
  /\ {row, array} \ {NULL} \subseteq Live
  /\ status # "aborted" => Live = {row, array} \ {NULL}

IInv == Types /\ RowKept /\ ArrayKept /\ LiveKept

-----------------------------------------------------------------------------
(***************************************************************************)
(* Lemmas on places and on the functions of matrix.c.                      *)
(***************************************************************************)

\* A place computed from a row and a column is one of the cells.
LEMMA PlaceInside ==
  ASSUME NEW h \in Nat, NEW w \in Nat, NEW i \in 1 .. h, NEW j \in 1 .. w
  PROVE  (i - 1) * w + j \in 1 .. h * w
<1>1. (i - 1) * w >= 0
  OBVIOUS
<1>2. (h - i) * w >= 0
  OBVIOUS
<1>3. h * w = (i - 1) * w + (h - i) * w + w
  OBVIOUS
<1>4. (i - 1) * w \in Int /\ h * w \in Int /\ (h - i) * w \in Int
  OBVIOUS
<1> QED
  BY <1>1, <1>2, <1>3, <1>4

\* A row of w cells more than n rows of w cells.
LEMMA OneRowMore ==
  ASSUME NEW n \in Nat, NEW w \in Nat
  PROVE  n * w \in Nat /\ (n + 1) * w = n * w + w /\ 1 * w = w
  OBVIOUS

\* Growing an allocation by a cell and writing that cell appends to it.
LEMMA CellAppended ==
  ASSUME NEW s \in Seq(Floats), NEW v \in Floats, NEW w \in Nat, w = Len(s) + 1
  PROVE  [Realloc(s, w) EXCEPT ![w] = v] = Append(s, v)
<1> DEFINE left == [Realloc(s, w) EXCEPT ![w] = v]
           right == Append(s, v)
<1>1. /\ right \in Seq(Floats) /\ Len(right) = w /\ DOMAIN right = 1 .. w
      /\ right[w] = v
      /\ \A k \in 1 .. w : k # w => right[k] = s[k]
  OBVIOUS
<1>2. /\ left = [k \in 1 .. w |-> left[k]]
      /\ left[w] = v
      /\ \A k \in 1 .. w : k # w => left[k] = s[k]
  BY DEF Realloc
<1> HIDE DEF left, right
<1>3. right = [k \in 1 .. w |-> right[k]]
  BY <1>1
<1>4. \A k \in 1 .. w : left[k] = right[k]
  BY <1>1, <1>2
<1> QED
  BY <1>2, <1>3, <1>4 DEF left, right

\* Two sequences joined, cell by cell.
LEMMA Joined ==
  ASSUME NEW s \in Seq(Floats), NEW r \in Seq(Floats),
         NEW n \in Nat, NEW w \in Nat, Len(s) = n, Len(r) = w
  PROVE  /\ s \o r \in Seq(Floats) /\ Len(s \o r) = n + w
         /\ DOMAIN (s \o r) = 1 .. n + w
         /\ \A k \in 1 .. n + w :
              (s \o r)[k] = IF k <= n THEN s[k] ELSE r[k - n]
<1>1. s \o r \in Seq(Floats) /\ Len(s \o r) = n + w
      /\ DOMAIN (s \o r) = 1 .. n + w
  OBVIOUS
<1>2. \A k \in 1 .. n + w :
        (s \o r)[k] = IF k <= n THEN s[k] ELSE r[k - n]
  OBVIOUS
<1> QED
  BY <1>1, <1>2

\* The cells of s, grown by w, with those of r copied behind the first n.
Copied(s, r, n, w) ==
  [k \in DOMAIN Realloc(s, n + w) |->
     IF k - n \in 1 .. w THEN r[k - n] ELSE Realloc(s, n + w)[k]]

\* Growing an allocation by w cells and copying w cells behind the n there
\* are joins the two.
LEMMA CellsCopied ==
  ASSUME NEW s \in Seq(Floats), NEW r \in Seq(Floats),
         NEW n \in Nat, NEW w \in Nat, Len(s) = n, Len(r) = w
  PROVE  Copied(s, r, n, w) = s \o r
<1> DEFINE cells == Realloc(s, n + w)
           left == [k \in DOMAIN cells |->
                      IF k - n \in 1 .. w THEN r[k - n] ELSE cells[k]]
           right == s \o r
<1>1. Copied(s, r, n, w) = left
  BY Zenon DEF Copied
<1>2. /\ right \in Seq(Floats) /\ Len(right) = n + w
      /\ DOMAIN right = 1 .. n + w
      /\ \A k \in 1 .. n + w : right[k] = IF k <= n THEN s[k] ELSE r[k - n]
  BY Joined
<1>3. /\ DOMAIN cells = 1 .. n + w
      /\ \A k \in 1 .. n + w : k <= n => cells[k] = s[k]
  BY DEF Realloc
<1>4. \A k \in 1 .. n + w : k - n \in 1 .. w <=> ~ (k <= n)
  OBVIOUS
<1> HIDE DEF cells
<1>5. /\ left = [k \in 1 .. n + w |-> left[k]]
      /\ \A k \in 1 .. n + w : left[k] = IF k <= n THEN s[k] ELSE r[k - n]
  BY <1>3, <1>4
<1> HIDE DEF left, right
<1>6. right = [k \in 1 .. n + w |-> right[k]]
  BY <1>2
<1>7. \A k \in 1 .. n + w : left[k] = right[k]
  BY <1>2, <1>5
<1> QED
  <2>1. left = right
    BY <1>5, <1>6, <1>7
  <2> QED
    BY <2>1, <1>1, Zenon DEF right

\* A matrix of one value is that row of the text.
LEMMA WithValueIsMatrix ==
  ASSUME NEW v \in Floats
  PROVE  /\ WithValue(v) \in Matrix /\ Full(WithValue(v))
         /\ WithValue(v).height = 1
         /\ WithValue(v).values = <<v>>
         /\ ~ WithValue(v).deleted
         /\ <<v>> \in Row
<1>1. <<v>> \in Seq(Floats) /\ Len(<<v>>) = 1 /\ <<v>> # <<>>
  OBVIOUS
<1> QED
  BY <1>1, OneRowMore DEF WithValue, Row, Matrix, Full, Size

\* Appending a value to a matrix of one row appends it to that row.
LEMMA ValueAppendedIsMatrix ==
  ASSUME NEW m \in Matrix, Full(m), m.height = 1, NEW v \in Floats
  PROVE  /\ ValueAppended(m, v) \in Matrix /\ Full(ValueAppended(m, v))
         /\ ValueAppended(m, v).height = 1
         /\ ValueAppended(m, v).values = Append(m.values, v)
         /\ ValueAppended(m, v).deleted = m.deleted
<1>1. PICK w \in Nat : w = m.width + 1
  BY DEF Matrix, Size
<1>2. PICK values : values = Append(m.values, v)
  OBVIOUS
<1>3. 1 * w = w /\ 1 * m.width = m.width
  BY OneRowMore DEF Matrix, Size
<1>4. m.values \in Seq(Floats) /\ w = Len(m.values) + 1
  BY <1>1, <1>3 DEF Matrix, Full
<1>5. values \in Seq(Floats) /\ Len(values) = w
  BY <1>2, <1>4, AppendProperties
<1>6. [Realloc(m.values, w) EXCEPT ![w] = v] = values
  BY <1>2, <1>4, CellAppended
<1>7. m.height * (m.width + 1) = w
  BY <1>1, <1>3
<1>8. ValueAppended(m, v) = [m EXCEPT !.width = w, !.values = values]
  BY <1>1, <1>6, <1>7 DEF ValueAppended
<1>9. ValueAppended(m, v) = [height |-> 1, width |-> w, values |-> values,
                             deleted |-> m.deleted]
  BY <1>8 DEF Matrix
<1>10. w > 0 /\ m.deleted \in BOOLEAN
  BY <1>1 DEF Matrix, Size
<1> QED
  BY <1>2, <1>3, <1>5, <1>9, <1>10 DEF Matrix, Full, Size

\* Appending a row to a matrix that holds the rows before it.
LEMMA RowAppendedHolds ==
  ASSUME NEW m \in Matrix, NEW r \in Matrix, Full(m), Full(r), SameWidth(m, r),
         NEW t \in Seq(Row), NEW n \in Nat, Len(t) = n + 1,
         Holds(m, t, n), r.values = t[n + 1]
  PROVE  /\ RowAppended(m, r) \in Matrix /\ Full(RowAppended(m, r))
         /\ Holds(RowAppended(m, r), t, n + 1)
         /\ RowAppended(m, r).deleted = m.deleted
<1>1. PICK w \in Nat : w = m.width
  BY DEF Matrix, Size
<1>2. PICK size \in Nat : size = n * w
  BY OneRowMore
<1>3. PICK old \in Seq(Floats), new \in Seq(Floats) :
        old = m.values /\ new = r.values
  BY DEF Matrix
<1>4. (n + 1) * w = size + w /\ 1 * w = w
  BY <1>2, OneRowMore
<1>5. /\ m.height = n /\ r.height = 1 /\ r.width = w
  BY <1>1 DEF Holds, SameWidth, Matrix
<1>6. Len(old) = size /\ Len(new) = w
  BY <1>1, <1>2, <1>3, <1>4, <1>5 DEF Full
<1> DEFINE values == old \o new
<1>7. /\ values \in Seq(Floats) /\ Len(values) = size + w
      /\ \A k \in 1 .. size + w :
           values[k] = IF k <= size THEN old[k] ELSE new[k - size]
  <2>1. values \in Seq(Floats) /\ Len(values) = size + w
    BY <1>6, Joined
  <2>2. \A k \in 1 .. size + w :
          values[k] = IF k <= size THEN old[k] ELSE new[k - size]
    BY <1>6
  <2> QED
    BY <2>1, <2>2
<1>8. RowAppended(m, r) = [height |-> n + 1, width |-> w, values |-> values,
                           deleted |-> m.deleted]
  <2>1. /\ (m.height + r.height) * m.width = size + w
        /\ m.height * m.width = size
    BY <1>1, <1>2, <1>4, <1>5
  <2>2. Copied(old, new, size, w) = values
    BY <1>6, CellsCopied, Zenon
  <2>3. RowAppended(m, r) =
          [m EXCEPT !.values = Copied(old, new, size, w), !.height = @ + 1]
    BY <2>1, <1>3, <1>5 DEF RowAppended, Copied
  <2>4. RowAppended(m, r) = [m EXCEPT !.values = values, !.height = n + 1]
    BY <2>2, <2>3, <1>5
  <2> QED
    BY <2>4, <1>1, <1>5 DEF Matrix
<1> HIDE DEF values
<1>9. ASSUME NEW i \in 1 .. n + 1
      PROVE  /\ Len(t[i]) = w
             /\ \A j \in 1 .. w : values[(i - 1) * w + j] = t[i][j]
  <2>1. CASE i = n + 1
    <3>1. (i - 1) * w = size
      BY <2>1, <1>2
    <3>2. \A j \in 1 .. w : size + j \in 1 .. size + w /\ ~ (size + j <= size)
                           /\ size + j - size = j
      OBVIOUS
    <3> QED
      BY <2>1, <3>1, <3>2, <1>3, <1>6, <1>7
  <2>2. CASE i # n + 1
    <3>1. i \in 1 .. n
      BY <2>2
    <3>2. ASSUME NEW j \in 1 .. w
          PROVE  values[(i - 1) * w + j] = m.values[(i - 1) * w + j]
      <4>1. (i - 1) * w + j \in 1 .. size
        BY <3>1, <1>2, PlaceInside
      <4> QED
        BY <4>1, <1>3, <1>7
    <3> QED
      BY <3>1, <3>2, <1>1 DEF Holds
  <2> QED
    BY <2>1, <2>2
<1>10. RowAppended(m, r) \in Matrix /\ Full(RowAppended(m, r))
  <2>1. w > 0 /\ n + 1 \in Size /\ m.deleted \in BOOLEAN
    BY <1>1 DEF Matrix, Size
  <2> QED
    BY <2>1, <1>4, <1>7, <1>8 DEF Matrix, Full, Size
<1>11. Holds(RowAppended(m, r), t, n + 1)
  BY <1>1, <1>8, <1>9 DEF Holds, Matrix
<1> QED
  BY <1>8, <1>10, <1>11 DEF Matrix

\* Only the first n rows matter to a matrix that holds them.
LEMMA HoldsFirstRows ==
  ASSUME NEW m, NEW t, NEW u, NEW n \in Nat,
         Holds(m, t, n), \A i \in 1 .. n : u[i] = t[i]
  PROVE  Holds(m, u, n)
<1>1. m.height = n
  BY DEF Holds
<1>2. ASSUME NEW i \in 1 .. n
      PROVE  /\ Len(u[i]) = m.width
             /\ \A j \in 1 .. m.width :
                  m.values[(i - 1) * m.width + j] = u[i][j]
  <2>1. u[i] = t[i]
    OBVIOUS
  <2> QED
    BY <2>1 DEF Holds
<1> QED
  BY <1>1, <1>2 DEF Holds

\* A row is a matrix that holds one row.
LEMMA RowHolds ==
  ASSUME NEW m \in Matrix, Full(m), NEW t, m.height = 1, m.values = t[1]
  PROVE  Holds(m, t, 1) /\ Len(m.values) = m.width
<1>1. m.width \in Nat /\ 1 * m.width = m.width
  BY OneRowMore DEF Matrix, Size
<1>2. Len(t[1]) = m.width
  BY <1>1 DEF Full
<1>3. ASSUME NEW i \in 1 .. 1, NEW j \in 1 .. m.width
      PROVE  m.values[(i - 1) * m.width + j] = t[i][j]
  <2>1. i = 1 /\ (i - 1) * m.width + j = j
    BY <1>1
  <2> QED
    BY <2>1
<1> QED
  BY <1>1, <1>2, <1>3 DEF Holds

-----------------------------------------------------------------------------
(***************************************************************************)
(* The invariant, action by action.                                        *)
(***************************************************************************)
\* Nothing has been read and nothing is allocated.
LEMMA InitIInv == Init => IInv
  BY DEF Init, IInv, Types, RowKept, ArrayKept, Absorbed, LiveKept, Live, NULL

\* The first value of a row starts a matrix of one cell.
LEMMA FirstValueStep == ASSUME IInv, FirstValue PROVE IInv'
<1>1. PICK v \in Floats : /\ matrices' = Append(matrices, WithValue(v))
                          /\ text' = Append(text, <<v>>)
  BY DEF FirstValue
<1> DEFINE m == WithValue(v)
<1>2. /\ m \in Matrix /\ Full(m) /\ m.height = 1 /\ m.values = <<v>>
      /\ ~ m.deleted /\ <<v>> \in Row
  BY WithValueIsMatrix
<1> HIDE DEF m
<1>3. /\ status = "rows" /\ status' = "row" /\ array' = array
      /\ row = NULL /\ row' = Len(matrices')
  BY DEF FirstValue, IInv, RowKept
<1>4. /\ matrices \in Seq(Matrix) /\ text \in Seq(Row)
      /\ array \in 0 .. Len(matrices)
  BY DEF IInv, Types, NULL
<1>5. /\ matrices' \in Seq(Matrix) /\ Len(matrices') = Len(matrices) + 1
      /\ matrices'[Len(matrices) + 1] = m
      /\ \A k \in 1 .. Len(matrices) : matrices'[k] = matrices[k]
  BY <1>1, <1>4, <1>2, AppendProperties DEF m
<1>6. /\ text' \in Seq(Row) /\ Len(text') = Len(text) + 1
      /\ text'[Len(text) + 1] = <<v>> /\ text' # <<>>
      /\ \A i \in 1 .. Len(text) : text'[i] = text[i]
  BY <1>1, <1>4, <1>2, AppendProperties
<1>7. Types'
  <2>1. ASSUME NEW k \in DOMAIN matrices' PROVE Full(matrices'[k])
    BY <1>4, <1>5, <1>2 DEF IInv, Types
  <2> QED
    BY <2>1, <1>3, <1>4, <1>5, <1>6 DEF Types, NULL
<1>8. RowKept'
  BY <1>3, <1>4, <1>5, <1>6, <1>2 DEF RowKept, NULL
<1>9. ArrayKept'
  <2>1. Absorbed = Len(text) /\ Absorbed' = Len(text)
    BY <1>3, <1>4, <1>6 DEF Absorbed
  <2>2. CASE array = NULL
    BY <2>1, <2>2, <1>3 DEF IInv, ArrayKept
  <2>3. CASE array # NULL
    <3>1. Holds(matrices[array], text, Len(text)) /\ array \in 1 .. Len(matrices)
      BY <2>1, <2>3, <1>4 DEF IInv, ArrayKept, NULL
    <3>2. matrices'[array] = matrices[array] /\ Len(text) \in Nat
      BY <3>1, <1>4, <1>5
    <3>3. Holds(matrices[array], text', Len(text))
      BY <3>1, <3>2, <1>6, HoldsFirstRows
    <3> QED
      BY <3>2, <3>3, <2>1, <2>3, <1>3 DEF ArrayKept
  <2> QED
    BY <2>2, <2>3
<1>10. LiveKept'
  <2>1. Live = {array} \ {NULL}
    BY <1>3 DEF IInv, LiveKept
  <2>2. Live' = Live \cup {Len(matrices) + 1}
    <3>1. /\ DOMAIN matrices = 1 .. Len(matrices)
          /\ DOMAIN matrices' = 1 .. Len(matrices) + 1
          /\ Len(matrices) \in Nat
      BY <1>4, <1>5
    <3>2. /\ \A k : k \in Live <=> k \in 1 .. Len(matrices) /\ ~ matrices[k].deleted
          /\ \A k : k \in Live' <=>
                  k \in 1 .. Len(matrices) + 1 /\ ~ matrices'[k].deleted
      BY <3>1, Zenon DEF Live
    <3>3. ~ matrices'[Len(matrices) + 1].deleted
      BY <1>2, <1>5, Zenon
    <3>4. \A k : k \in 1 .. Len(matrices) + 1 <=>
                  k \in 1 .. Len(matrices) \/ k = Len(matrices) + 1
      BY <3>1
    <3>5. Len(matrices) + 1 \notin 1 .. Len(matrices)
      BY <3>1
    <3>6. ASSUME NEW k
          PROVE  k \in Live' <=> k \in Live \/ k = Len(matrices) + 1
      BY <1>5, <3>2, <3>3, <3>4, <3>5, Zenon
    <3> QED
      BY <3>6
  <2> QED
    BY <2>1, <2>2, <1>3, <1>4, <1>5 DEF LiveKept, NULL
<1> QED
  BY <1>7, <1>8, <1>9, <1>10 DEF IInv

\* A further value makes the row one cell longer.
LEMMA NextValueStep == ASSUME IInv, NextValue PROVE IInv'
<1> DEFINE n == Len(text)
           last == text[n]
<1>1. PICK v \in Floats :
        /\ matrices' = [matrices EXCEPT ![row] = ValueAppended(matrices[row], v)]
        /\ text' = [text EXCEPT ![n] = Append(last, v)]
  BY DEF NextValue
<1>2. /\ status = "row" /\ status' = "row" /\ array' = array /\ row' = row
      /\ row # NULL /\ row # array /\ text # <<>>
      /\ matrices[row].height = 1 /\ matrices[row].values = last
  BY DEF NextValue, IInv, RowKept
<1>3. /\ matrices \in Seq(Matrix) /\ text \in Seq(Row)
      /\ row \in 1 .. Len(matrices) /\ array \in 0 .. Len(matrices)
      /\ Full(matrices[row]) /\ n \in Nat /\ n > 0
  BY <1>2 DEF IInv, Types, NULL
<1>4. /\ ValueAppended(matrices[row], v) \in Matrix
      /\ Full(ValueAppended(matrices[row], v))
      /\ ValueAppended(matrices[row], v).height = 1
      /\ ValueAppended(matrices[row], v).values = Append(last, v)
      /\ ValueAppended(matrices[row], v).deleted = matrices[row].deleted
  BY <1>2, <1>3, ValueAppendedIsMatrix
<1>5. /\ matrices' \in Seq(Matrix) /\ Len(matrices') = Len(matrices)
      /\ matrices'[row] = ValueAppended(matrices[row], v)
      /\ \A k \in 1 .. Len(matrices) : k # row => matrices'[k] = matrices[k]
  BY <1>1, <1>3, <1>4
<1>6. Append(last, v) \in Row
  <2>1. last \in Seq(Floats)
    BY <1>3 DEF Row
  <2> QED
    BY <2>1, AppendProperties DEF Row
<1>7. /\ text' \in Seq(Row) /\ Len(text') = n
      /\ text'[n] = Append(last, v) /\ text' # <<>>
      /\ \A i \in 1 .. n - 1 : text'[i] = text[i]
  BY <1>1, <1>2, <1>3, <1>6
<1>8. Types'
  <2>1. ASSUME NEW k \in DOMAIN matrices' PROVE Full(matrices'[k])
    BY <1>3, <1>4, <1>5 DEF IInv, Types
  <2> QED
    BY <2>1, <1>2, <1>3, <1>5, <1>7 DEF Types, NULL
<1>9. RowKept'
  BY <1>2, <1>4, <1>5, <1>7 DEF RowKept
<1>10. ArrayKept'
  <2>1. Absorbed = n - 1 /\ Absorbed' = n - 1 /\ n - 1 \in Nat
    BY <1>2, <1>3, <1>7 DEF Absorbed
  <2>2. CASE array = NULL
    BY <2>1, <2>2, <1>2 DEF IInv, ArrayKept
  <2>3. CASE array # NULL
    <3>1. Holds(matrices[array], text, n - 1) /\ array \in 1 .. Len(matrices)
      BY <2>1, <2>3, <1>3 DEF IInv, ArrayKept, NULL
    <3>2. Holds(matrices'[array], text', n - 1)
      BY <3>1, <2>1, <1>2, <1>5, <1>7, HoldsFirstRows
    <3> QED
      BY <3>2, <2>1, <2>3, <1>2 DEF ArrayKept
  <2> QED
    BY <2>2, <2>3
<1>11. LiveKept'
  <2>1. Live' = Live
    BY <1>3, <1>4, <1>5 DEF Live
  <2> QED
    BY <2>1, <1>2 DEF IInv, LiveKept
<1> QED
  BY <1>8, <1>9, <1>10, <1>11 DEF IInv

\* The first row is the literal so far.
LEMMA FirstRowStep == ASSUME IInv, FirstRow PROVE IInv'
<1>1. /\ status = "row" /\ status' = "rows" /\ array = NULL /\ array' = row
      /\ row' = NULL /\ matrices' = matrices /\ text' = text
      /\ row # NULL /\ text # <<>>
      /\ matrices[row].height = 1 /\ matrices[row].values = text[Len(text)]
  BY DEF FirstRow, IInv, RowKept
<1>2. row \in DOMAIN matrices /\ matrices[row] \in Matrix /\ Full(matrices[row])
  BY <1>1 DEF IInv, Types
<1>3. Absorbed = Len(text) - 1 /\ Absorbed' = Len(text)
  BY <1>1 DEF Absorbed
<1>4. Len(text) = 1
  BY <1>1, <1>3 DEF IInv, Types, ArrayKept
<1>5. Types' /\ RowKept' /\ LiveKept'
  BY <1>1 DEF IInv, Types, RowKept, LiveKept, Live
<1>6. Holds(matrices[row], text, 1)
  BY <1>1, <1>2, <1>4, RowHolds
<1>7. ArrayKept'
  BY <1>1, <1>3, <1>4, <1>6 DEF ArrayKept
<1> QED
  BY <1>5, <1>7 DEF IInv

\* The literal ends, and the last row with it.
LEMMA LiteralStep == ASSUME IInv, Literal PROVE IInv'
<1>1. /\ status' = "done" /\ matrices' = matrices /\ row' = row /\ text' = text
  BY DEF Literal
<1>2. CASE status = "rows" /\ array # NULL /\ array' = array
  <2>1. Absorbed' = Absorbed
    BY <1>1, <1>2 DEF Absorbed
  <2> QED
    BY <1>1, <1>2, <2>1
    DEF IInv, Types, RowKept, ArrayKept, LiveKept, Live
<1>3. CASE status = "row" /\ array = NULL /\ array' = row
  <2>1. /\ row # NULL /\ text # <<>>
        /\ matrices[row].height = 1 /\ matrices[row].values = text[Len(text)]
    BY <1>3 DEF IInv, RowKept
  <2>2. row \in DOMAIN matrices /\ matrices[row] \in Matrix /\ Full(matrices[row])
    BY <2>1 DEF IInv, Types
  <2>3. Absorbed = Len(text) - 1 /\ Absorbed' = Len(text)
    BY <1>1, <1>3 DEF Absorbed
  <2>4. Len(text) = 1
    BY <1>3, <2>1, <2>3 DEF IInv, Types, ArrayKept
  <2>5. Holds(matrices[row], text, 1)
    BY <2>1, <2>2, <2>4, RowHolds
  <2>6. ArrayKept'
    BY <1>1, <1>3, <2>1, <2>3, <2>4, <2>5 DEF ArrayKept
  <2>7. Types' /\ RowKept' /\ LiveKept'
    BY <1>1, <1>3 DEF IInv, Types, RowKept, LiveKept, Live
  <2> QED
    BY <2>6, <2>7 DEF IInv
<1> QED
  BY <1>2, <1>3 DEF Literal

\* A further row of the same width is copied behind the others and deleted; one
\* of another width is refused.
LEMMA NextRowStep == ASSUME IInv, NextRow PROVE IInv'
<1> DEFINE m == matrices[array]
           r == matrices[row]
           n == Len(text) - 1
<1>1. /\ status = "row" /\ row' = NULL /\ array' = array /\ text' = text
      /\ row # NULL /\ array # NULL /\ row # array /\ text # <<>>
      /\ r.height = 1 /\ r.values = text[n + 1]
  <2>1. Len(text) = n + 1
    BY DEF IInv, Types
  <2> QED
    BY <2>1 DEF NextRow, IInv, RowKept
<1>2. /\ matrices \in Seq(Matrix) /\ text \in Seq(Row)
      /\ n \in Nat /\ Len(text) = n + 1
      /\ row \in 1 .. Len(matrices) /\ array \in 1 .. Len(matrices)
      /\ m \in Matrix /\ Full(m) /\ r \in Matrix /\ Full(r)
  BY <1>1 DEF IInv, Types
<1>3. Absorbed = n /\ Holds(m, text, n)
  BY <1>1 DEF Absorbed, IInv, ArrayKept
<1>4. Live = {row, array}
  BY <1>1, <1>2 DEF IInv, LiveKept
<1>5. CASE SameWidth(m, r)
  <2> DEFINE longer == RowAppended(m, r)
             gone == Delete(r)
  <2>1. /\ status' = "rows"
        /\ matrices' = [matrices EXCEPT ![array] = longer, ![row] = gone]
    BY <1>5, <1>1 DEF NextRow
  <2>2. longer \in Matrix /\ Full(longer) /\ Holds(longer, text, n + 1)
        /\ longer.deleted = m.deleted
    BY <1>1, <1>2, <1>3, <1>5, RowAppendedHolds
  <2>3. gone \in Matrix /\ Full(gone) /\ gone.deleted
    BY <1>2 DEF Delete, Matrix, Full
  <2> HIDE DEF longer, gone
  <2>4. /\ matrices' \in Seq(Matrix) /\ Len(matrices') = Len(matrices)
        /\ matrices'[array] = longer /\ matrices'[row] = gone
        /\ \A k \in 1 .. Len(matrices) :
             k # row /\ k # array => matrices'[k] = matrices[k]
    BY <2>1, <2>2, <2>3, <1>1, <1>2
  <2>5. Types'
    <3>1. ASSUME NEW k \in DOMAIN matrices' PROVE Full(matrices'[k])
      BY <1>2, <2>2, <2>3, <2>4 DEF IInv, Types
    <3> QED
      BY <3>1, <1>1, <1>2, <2>1, <2>4 DEF Types
  <2>6. RowKept'
    BY <1>1, <2>1 DEF RowKept
  <2>7. ArrayKept'
    <3>1. Absorbed' = n + 1
      BY <1>1, <1>2, <2>1 DEF Absorbed
    <3> QED
      BY <3>1, <1>1, <2>1, <2>2, <2>4 DEF ArrayKept
  <2>8. Live' = {array}
    <3>1. \A k \in 1 .. Len(matrices) :
            k \in Live <=> ~ matrices[k].deleted
      BY <1>2 DEF Live
    <3>2. \A k \in 1 .. Len(matrices) :
            k \in Live' <=> ~ matrices'[k].deleted
      BY <1>2, <2>4 DEF Live
    <3>3. Live' \subseteq 1 .. Len(matrices)
      BY <1>2, <2>4 DEF Live
    <3>4. ~ longer.deleted
      BY <3>1, <1>2, <1>4, <2>2
    <3>5. \A k \in 1 .. Len(matrices) : k \in Live' <=> k = array
      BY <3>1, <3>2, <3>4, <1>1, <1>2, <1>4, <2>3, <2>4
    <3> QED
      BY <3>3, <3>5, <1>2
  <2>9. LiveKept'
    BY <2>8, <1>1 DEF LiveKept
  <2> QED
    BY <2>5, <2>6, <2>7, <2>9 DEF IInv
<1>6. CASE ~ SameWidth(m, r)
  <2>1. status' = "aborted" /\ matrices' = matrices
    BY <1>6, <1>1 DEF NextRow
  <2>2. Types' /\ RowKept'
    BY <1>1, <2>1 DEF IInv, Types, RowKept
  <2>3. Len(text[n + 1]) # Len(text[1])
    <3>1. Len(r.values) = r.width
      <4>1. r.width \in Nat
        BY <1>2 DEF Matrix, Size
      <4> QED
        BY <4>1, <1>1, <1>2, OneRowMore DEF Full
    <3>2. m.height = n /\ 1 \in 1 .. n
      BY <1>2, <1>3 DEF Holds, Matrix, Size
    <3>3. Len(text[1]) = m.width
      BY <3>2, <1>3 DEF Holds
    <3> QED
      BY <3>1, <3>3, <1>1, <1>6 DEF SameWidth
  <2>4. ArrayKept'
    <3>1. Absorbed' = n
      BY <1>1, <2>1 DEF Absorbed
    <3> QED
      BY <3>1, <1>1, <1>2, <1>3, <2>1, <2>3 DEF ArrayKept
  <2>5. LiveKept'
    BY <1>1, <1>4, <2>1 DEF LiveKept, Live
  <2> QED
    BY <2>2, <2>4, <2>5 DEF IInv
<1> QED
  BY <1>5, <1>6

\* The invariant holds of literals with any number of rows and columns.
THEOREM Invariance == Spec => []IInv
<1>1. IInv /\ [Next]_vars => IInv'
  <2> SUFFICES ASSUME IInv, [Next]_vars PROVE IInv'
    OBVIOUS
  <2>1. CASE FirstValue
    BY <2>1, FirstValueStep
  <2>2. CASE NextValue
    BY <2>2, NextValueStep
  <2>3. CASE FirstRow
    BY <2>3, FirstRowStep
  <2>4. CASE NextRow
    BY <2>4, NextRowStep
  <2>5. CASE Literal
    BY <2>5, LiteralStep
  <2>6. CASE UNCHANGED vars
    BY <2>6
    DEF vars, IInv, Types, RowKept, ArrayKept, Absorbed, LiveKept, Live
  <2> QED
    BY <2>1, <2>2, <2>3, <2>4, <2>5, <2>6 DEF Next
<1> QED
  BY <1>1, InitIInv, PTL DEF Spec

\* Every matrix made on the way has a cell for each of its entries, and none
\* it has not written (matrix.c:13-43).
THEOREM TypeCorrect == Spec => []TypeOK
<1>1. IInv => TypeOK
  <2> SUFFICES ASSUME IInv PROVE TypeOK
    OBVIOUS
  <2>1. ASSUME NEW k \in DOMAIN matrices
        PROVE  /\ matrices[k].values \in Seq(Floats)
               /\ Len(matrices[k].values)
                    = matrices[k].height * matrices[k].width
    <3>1. matrices[k] \in Matrix /\ Full(matrices[k])
      BY DEF IInv, Types
    <3> QED
      BY <3>1 DEF Matrix, Full
  <2> QED
    BY <2>1 DEF IInv, Types, TypeOK
<1> QED
  BY <1>1, Invariance, PTL

\* The matrix of a literal of any size is its text, row after row
\* (matrix.c:24-42).
THEOREM MatrixIsText == Spec => []LiteralMeansItsText
<1>1. IInv => LiteralMeansItsText
  <2> SUFFICES ASSUME IInv, status = "done" PROVE LiteralMeansItsText
    BY DEF LiteralMeansItsText
  <2>1. Holds(matrices[array], text, Len(text))
    BY DEF IInv, ArrayKept, Absorbed
  <2> QED
    BY <2>1 DEF LiteralMeansItsText, Holds
<1> QED
  BY <1>1, Invariance, PTL

\* A literal is refused at its first row that differs in length from the
\* first, and only then (matrix.c:32-37).
THEOREM RefusedExactlyWhenRagged == Spec => []RaggedRefused
<1>1. IInv => RaggedRefused
  <2> SUFFICES ASSUME IInv PROVE RaggedRefused
    OBVIOUS
  <2>1. text \in Seq(Row) /\ Len(text) \in Nat
    BY DEF IInv, Types
  <2>2. CASE status \in {"rows", "done"}
    <3>1. \A i \in 1 .. Len(text) : Len(text[i]) = Len(text[1])
      <4>1. CASE array = NULL
        BY <4>1, <2>1, <2>2 DEF IInv, ArrayKept, Absorbed
      <4>2. CASE array # NULL
        BY <4>2, <2>1, <2>2 DEF IInv, ArrayKept, Absorbed, Holds
      <4> QED
        BY <4>1, <4>2
    <3> QED
      BY <3>1, <2>2 DEF RaggedRefused
  <2>3. CASE status = "aborted"
    <3>1. Holds(matrices[array], text, Len(text) - 1)
      BY <2>3 DEF IInv, ArrayKept, Absorbed
    <3>2. \A i \in 1 .. Len(text) - 1 : Len(text[i]) = Len(text[1])
      BY <3>1, <2>1 DEF Holds
    <3>3. text # <<>>
      <4>1. array # NULL
        BY <2>3 DEF IInv, ArrayKept
      <4>2. matrices[array] \in Matrix
        BY <4>1 DEF IInv, Types
      <4>3. Len(text) - 1 > 0
        BY <4>2, <3>1 DEF Holds, Matrix, Size
      <4> QED
        BY <4>3
    <3>4. Len(text) \in 1 .. Len(text)
      BY <2>1, <3>3
    <3> QED
      BY <3>2, <3>4, <2>3 DEF RaggedRefused, IInv, ArrayKept
  <2> QED
    BY <2>2, <2>3 DEF RaggedRefused, IInv, Types
<1> QED
  BY <1>1, Invariance, PTL

\* Of all the rows of a literal only the first is left, as its matrix
\* (parser.y:147-149).
THEOREM OthersDeleted == Spec => []OnlyTheLiteralLeft
<1>1. IInv => OnlyTheLiteralLeft
  BY DEF IInv, RowKept, ArrayKept, LiveKept, OnlyTheLiteralLeft
<1> QED
  BY <1>1, Invariance, PTL
=============================================================================
