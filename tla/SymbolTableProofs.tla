------------------------- MODULE SymbolTableProofs --------------------------
(***************************************************************************)
(* The hash table is a map, and its loops meet every symbol once, for any  *)
(* number of identifiers, buckets, temporaries and constants and any hash  *)
(* function.                                                               *)
(***************************************************************************)
EXTENDS SymbolTable, Integers, SequenceTheorems, WellFoundedInduction, TLAPS

\* No two items of a chain have the same key.
Distinct(chain) ==
  \A k, l \in DOMAIN chain : chain[k].key = chain[l].key => k = l

\* The key is in the table, and the symbol it has there.
Present(key) == Has(ht.buckets[DoHash[key]], key)
At(key) == Found(ht.buckets[DoHash[key]], key).value

Types ==
  /\ ht \in [buckets : [Buckets -> Seq(Items)], last_error : {HT_OK}]
  /\ temps_count \in 0 .. MaxGenerated
  /\ constants_count \in 0 .. MaxGenerated
  /\ freed \in Seq(Symbols)
  /\ answer \in Symbols \cup {Nothing, AlreadyDefined, Unknown}
  /\ asked \in Names \cup {NULL}
  /\ pushed \subseteq Symbols

\* An item is in the bucket of its key, alone with it, and its symbol was
\* pushed with that key.
Chained ==
  \A b \in Buckets :
    /\ Distinct(ht.buckets[b])
    /\ \A k \in DOMAIN ht.buckets[b] :
         LET item == ht.buckets[b][k]
         IN  DoHash[item.key] = b /\ item.value.key = item.key

\* The temporaries and constants in the table are those the counters have
\* counted.
Counted ==
  \A n \in 0 .. MaxGenerated - 1 :
    /\ n < temps_count <=> Present(TempKey(n))
    /\ n < constants_count <=> Present(ConstKey(n))

\* What was pushed is there, under its key, and nothing else is.
Recorded ==
  \A s \in Symbols : s \in pushed <=> Present(s.key) /\ At(s.key) = s

Answered ==
  /\ answer = AlreadyDefined => asked # NULL /\ Present(UserKey(asked))
  /\ answer = Unknown => asked # NULL /\ ~ Present(UserKey(asked))
  /\ answer \in Symbols => Present(answer.key) /\ At(answer.key) = answer
  /\ answer \in Symbols /\ asked # NULL => answer.key = UserKey(asked)

IInv == Types /\ Chained /\ Counted /\ Recorded /\ Answered

-----------------------------------------------------------------------------
(***************************************************************************)
(* Lemmas on keys and on one chain.                                        *)
(***************************************************************************)

\* The key of a symbol tells whether it is an identifier, and if so which 30
\* characters it begins with.
LEMMA KeysOfSymbols ==
  /\ \A s \in Symbols : s.key \in Keys
  /\ \A name \in Names : UserKey(name) \in Keys
  /\ \A n \in 0 .. MaxGenerated - 1 : TempKey(n) \in Keys /\ ConstKey(n) \in Keys
  /\ \A s \in Symbols, name \in Names :
       s.key = UserKey(name) => s.of \in Names /\ Cut[s.of] = Cut[name]
  /\ \A s \in Symbols, name \in Names :
       s.of \in Names /\ Cut[s.of] = Cut[name] => s.key = UserKey(name)
  /\ \A n \in Nat, name \in Names :
       TempKey(n) # UserKey(name) /\ ConstKey(n) # UserKey(name)
  /\ \A m, n \in Nat : /\ TempKey(m) = TempKey(n) => m = n
                       /\ ConstKey(m) = ConstKey(n) => m = n
                       /\ TempKey(m) # ConstKey(n)
<1>1. \A n \in Nat, name \in Names :
        TempKey(n) # UserKey(name) /\ ConstKey(n) # UserKey(name)
  BY DEF TempKey, ConstKey, UserKey
<1>2. \A m, n \in Nat : /\ TempKey(m) = TempKey(n) => m = n
                        /\ ConstKey(m) = ConstKey(n) => m = n
                        /\ TempKey(m) # ConstKey(n)
  BY DEF TempKey, ConstKey
<1>3. ASSUME NEW s \in Symbols
      PROVE  \/ \E name \in Names : s = [key |-> UserKey(name), of |-> name]
             \/ \E key \in GeneratedKeys : s = [key |-> key, of |-> NULL]
  BY DEF Symbols
<1>4. \A one, two \in Names : UserKey(one) = UserKey(two) <=> Cut[one] = Cut[two]
  BY DEF UserKey
<1>5. ASSUME NEW key \in GeneratedKeys, NEW name \in Names
      PROVE  key # UserKey(name)
  BY <1>1, SymbolTableAssumption DEF GeneratedKeys
<1>6. ASSUME NEW s \in Symbols, NEW name \in Names, s.key = UserKey(name)
      PROVE  s.of \in Names /\ Cut[s.of] = Cut[name]
  BY <1>3, <1>4, <1>5, <1>6
<1>7. ASSUME NEW s \in Symbols, NEW name \in Names,
             s.of \in Names, Cut[s.of] = Cut[name]
      PROVE  s.key = UserKey(name)
  BY <1>3, <1>4, <1>7, SymbolTableAssumption
<1>8. ASSUME NEW s \in Symbols PROVE s.key \in Keys
  BY <1>3 DEF Keys
<1>9. \A n \in 0 .. MaxGenerated - 1 : TempKey(n) \in Keys /\ ConstKey(n) \in Keys
  BY DEF Keys, GeneratedKeys
<1> QED
  BY <1>1, <1>2, <1>6, <1>7, <1>8, <1>9 DEF Keys

\* The symbols the compiler makes.
LEMMA GeneratedSymbols ==
  \A n \in 0 .. MaxGenerated - 1 :
    /\ [key |-> TempKey(n), of |-> NULL] \in Symbols
    /\ [key |-> ConstKey(n), of |-> NULL] \in Symbols
BY DEF Symbols, GeneratedKeys

\* Of a chain without doubles, what is found is the item with the key.
LEMMA FoundItem ==
  ASSUME NEW chain \in Seq(Items), Distinct(chain),
         NEW k \in DOMAIN chain
  PROVE  Found(chain, chain[k].key) = chain[k]
<1> DEFINE key == chain[k].key
           first(n) == /\ chain[n].key = key
                       /\ \A l \in 1 .. n - 1 : chain[l].key # key
<1>1. first(k)
  BY DEF Distinct
<1>2. \A n \in DOMAIN chain : first(n) => n = k
  BY DEF Distinct
<1>3. PICK n : n = CHOOSE m \in DOMAIN chain : first(m)
  OBVIOUS
<1>4. n = k
  BY <1>1, <1>2, <1>3
<1> QED
  BY <1>3, <1>4 DEF Found

\* An item put in front of a chain, place by place.
LEMMA ItemInFront ==
  ASSUME NEW chain \in Seq(Items), NEW item \in Items,
         NEW longer, longer = <<item>> \o chain
  PROVE  /\ longer \in Seq(Items)
         /\ DOMAIN longer = 1 .. Len(chain) + 1
         /\ longer[1] = item
         /\ \A k \in 1 .. Len(chain) : longer[k + 1] = chain[k]
<1>1. <<item>> \o chain \in Seq(Items)
  OBVIOUS
<1>2. DOMAIN (<<item>> \o chain) = 1 .. Len(chain) + 1
  OBVIOUS
<1>3. (<<item>> \o chain)[1] = item
  OBVIOUS
<1>4. \A k \in 1 .. Len(chain) : (<<item>> \o chain)[k + 1] = chain[k]
  OBVIOUS
<1> QED
  BY <1>1, <1>2, <1>3, <1>4

\* Putting an item with a new key in front of a chain adds that key, and
\* what was found before is found again.
LEMMA FoundInFront ==
  ASSUME NEW chain \in Seq(Items), Distinct(chain), NEW item \in Items,
         ~ Has(chain, item.key)
  PROVE  /\ Distinct(<<item>> \o chain)
         /\ \A key : Has(<<item>> \o chain, key)
                       <=> key = item.key \/ Has(chain, key)
         /\ Found(<<item>> \o chain, item.key) = item
         /\ \A key : Has(chain, key) =>
                       Found(<<item>> \o chain, key) = Found(chain, key)
<1>1. PICK longer : longer = <<item>> \o chain
  OBVIOUS
<1>2. /\ longer \in Seq(Items) /\ DOMAIN longer = 1 .. Len(chain) + 1
      /\ longer[1] = item
      /\ \A k \in 1 .. Len(chain) : longer[k + 1] = chain[k]
  BY <1>1, ItemInFront
<1>3. DOMAIN chain = 1 .. Len(chain) /\ Len(chain) \in Nat
  OBVIOUS
<1>4. \A k \in DOMAIN longer :
        \/ k = 1
        \/ k - 1 \in DOMAIN chain /\ longer[k] = chain[k - 1]
  <2> TAKE k \in DOMAIN longer
  <2>1. CASE k = 1
    BY <2>1
  <2>2. CASE k # 1
    <3>1. k - 1 \in 1 .. Len(chain) /\ (k - 1) + 1 = k
      BY <1>2, <1>3, <2>2
    <3> QED
      BY <3>1, <1>2, <1>3
  <2> QED
    BY <2>1, <2>2
<1>5. \A k \in DOMAIN chain : chain[k].key # item.key
  BY DEF Has
<1>6. Distinct(longer)
  <2> SUFFICES ASSUME NEW k \in DOMAIN longer, NEW l \in DOMAIN longer,
                      longer[k].key = longer[l].key
               PROVE  k = l
    BY DEF Distinct
  <2> QED
    BY <1>2, <1>3, <1>4, <1>5 DEF Distinct
<1>7. ASSUME NEW key
      PROVE  Has(longer, key) <=> key = item.key \/ Has(chain, key)
  <2>1. ASSUME Has(longer, key) PROVE key = item.key \/ Has(chain, key)
    BY <2>1, <1>2, <1>4 DEF Has
  <2>2. ASSUME key = item.key PROVE Has(longer, key)
    BY <2>2, <1>2, <1>3 DEF Has
  <2>3. ASSUME NEW k \in DOMAIN chain, chain[k].key = key
        PROVE  Has(longer, key)
    <3>1. k + 1 \in DOMAIN longer /\ longer[k + 1] = chain[k]
      BY <1>2, <1>3
    <3> QED
      BY <3>1, <2>3 DEF Has
  <2> QED
    BY <2>1, <2>2, <2>3 DEF Has
<1>8. Found(longer, item.key) = item
  <2>1. 1 \in DOMAIN longer
    BY <1>2, <1>3
  <2> QED
    BY <2>1, <1>2, <1>6, FoundItem
<1>9. ASSUME NEW key, Has(chain, key)
      PROVE  Found(longer, key) = Found(chain, key)
  <2>1. PICK k \in DOMAIN chain : chain[k].key = key
    BY <1>9 DEF Has
  <2>2. k + 1 \in DOMAIN longer /\ longer[k + 1] = chain[k]
    BY <1>2, <1>3
  <2>3. Found(longer, key) = chain[k]
    BY <2>1, <2>2, <1>2, <1>6, FoundItem
  <2>4. Found(chain, key) = chain[k]
    BY <2>1, FoundItem
  <2> QED
    BY <2>3, <2>4
<1> QED
  BY <1>1, <1>6, <1>7, <1>8, <1>9

-----------------------------------------------------------------------------
(***************************************************************************)
(* What the calls do to the table.                                         *)
(***************************************************************************)

\* An item of a bucket is present, and it is what is found.
LEMMA InBucket ==
  ASSUME Types, Chained, NEW b \in Buckets, NEW k \in DOMAIN ht.buckets[b]
  PROVE  LET item == ht.buckets[b][k]
         IN  /\ item \in Items
             /\ Present(item.key) /\ At(item.key) = item.value
             /\ item.value.key = item.key
<1>1. /\ ht.buckets[b] \in Seq(Items) /\ Distinct(ht.buckets[b])
      /\ DoHash[ht.buckets[b][k].key] = b
      /\ ht.buckets[b][k].value.key = ht.buckets[b][k].key
  BY DEF Types, Chained
<1>2. Has(ht.buckets[b], ht.buckets[b][k].key)
  BY DEF Has
<1>3. Found(ht.buckets[b], ht.buckets[b][k].key) = ht.buckets[b][k]
  BY <1>1, FoundItem
<1> QED
  BY <1>1, <1>2, <1>3 DEF Present, At

\* A key that is present has an item in its bucket.
LEMMA PresentItem ==
  ASSUME Types, Chained, NEW key \in Keys, Present(key)
  PROVE  \E k \in DOMAIN ht.buckets[DoHash[key]] :
           LET item == ht.buckets[DoHash[key]][k]
           IN  item.key = key /\ item.value = At(key)
<1>1. PICK k \in DOMAIN ht.buckets[DoHash[key]] :
             ht.buckets[DoHash[key]][k].key = key
  BY DEF Present, Has
<1>2. DoHash[key] \in Buckets
  BY SymbolTableAssumption
<1> QED
  BY <1>1, <1>2, InBucket

\* The symbol of a key is one, and was pushed with that key.
LEMMA SymbolAt ==
  ASSUME Types, Chained, NEW key \in Keys, Present(key)
  PROVE  At(key) \in Symbols /\ At(key).key = key
<1>1. DoHash[key] \in Buckets
  BY SymbolTableAssumption
<1>2. PICK k \in DOMAIN ht.buckets[DoHash[key]] :
             /\ ht.buckets[DoHash[key]][k].key = key
             /\ ht.buckets[DoHash[key]][k].value = At(key)
  BY PresentItem
<1> QED
  BY <1>1, <1>2, InBucket DEF Items

\* A push of a key that is there changes nothing.
LEMMA PushRefused ==
  ASSUME Types, NEW s \in Symbols, Push(s), Present(s.key)
  PROVE  ht' = ht /\ answer' = AlreadyDefined /\ pushed' = pushed
<1>1. ht = [buckets |-> ht.buckets, last_error |-> HT_OK]
  BY DEF Types
<1>2. Exists(ht, s.key)
  BY <1>1, SymbolTableAssumption DEF Exists, Get, Present
<1>3. Put(ht, s.key, s) = [buckets |-> ht.buckets,
                           last_error |-> HT_ALREADYEXISTS]
  BY <1>1, <1>2 DEF Put
<1> QED
  BY <1>1, <1>3 DEF Push, Reset

\* A push of a new key puts the symbol there and leaves the other keys.
LEMMA PushAccepted ==
  ASSUME Types, Chained, NEW s \in Symbols, Push(s), ~ Present(s.key)
  PROVE  /\ answer' = s
         /\ pushed' = pushed \cup {s}
         /\ ht' \in [buckets : [Buckets -> Seq(Items)], last_error : {HT_OK}]
         /\ Chained'
         /\ \A key \in Keys : Present(key)' <=> Present(key) \/ key = s.key
         /\ At(s.key)' = s
         /\ \A key \in Keys : Present(key) => At(key)' = At(key)
<1>1. /\ ht = [buckets |-> ht.buckets, last_error |-> HT_OK]
      /\ ht.buckets \in [Buckets -> Seq(Items)]
  BY DEF Types
<1>2. PICK h \in Buckets : h = DoHash[s.key]
  BY KeysOfSymbols, SymbolTableAssumption
<1>3. PICK item : item = [key |-> s.key, value |-> s]
  OBVIOUS
<1>4. item \in Items /\ item.key = s.key /\ item.value = s
  BY <1>3, KeysOfSymbols DEF Items
<1>5. PICK longer : longer = <<item>> \o ht.buckets[h]
  OBVIOUS
<1>6. ~ Exists(ht, s.key)
  BY <1>1, SymbolTableAssumption DEF Exists, Get, Present
<1>7. Put(ht, s.key, s) = [buckets |-> [ht.buckets EXCEPT ![h] = longer],
                           last_error |-> HT_OK]
  BY <1>1, <1>2, <1>3, <1>5, <1>6 DEF Put
<1>8. /\ ht' = [buckets |-> [ht.buckets EXCEPT ![h] = longer],
                last_error |-> HT_OK]
      /\ answer' = s /\ pushed' = pushed \cup {s}
  BY <1>7, SymbolTableAssumption DEF Push, Reset
<1>9. ht.buckets[h] \in Seq(Items) /\ Distinct(ht.buckets[h])
  BY <1>1 DEF Chained
<1>10. ~ Has(ht.buckets[h], item.key)
  BY <1>2, <1>4 DEF Present
<1>11. /\ Distinct(longer)
       /\ \A key : Has(longer, key) <=> key = item.key \/ Has(ht.buckets[h], key)
       /\ Found(longer, item.key) = item
       /\ \A key : Has(ht.buckets[h], key) =>
                     Found(longer, key) = Found(ht.buckets[h], key)
  BY <1>4, <1>5, <1>9, <1>10, FoundInFront
<1>12. /\ longer \in Seq(Items) /\ DOMAIN longer = 1 .. Len(ht.buckets[h]) + 1
       /\ longer[1] = item
       /\ \A k \in 1 .. Len(ht.buckets[h]) : longer[k + 1] = ht.buckets[h][k]
  BY <1>4, <1>5, <1>9, ItemInFront
<1>13. /\ ht'.buckets \in [Buckets -> Seq(Items)]
       /\ ht'.buckets[h] = longer
       /\ \A b \in Buckets \ {h} : ht'.buckets[b] = ht.buckets[b]
  BY <1>1, <1>8, <1>12
<1>14. Chained'
  <2>1. ASSUME NEW b \in Buckets \ {h}
        PROVE  /\ Distinct(ht'.buckets[b])
               /\ \A k \in DOMAIN ht'.buckets[b] :
                    /\ DoHash[ht'.buckets[b][k].key] = b
                    /\ ht'.buckets[b][k].value.key = ht'.buckets[b][k].key
    BY <1>13 DEF Chained
  <2>2. ASSUME NEW k \in DOMAIN longer
        PROVE  DoHash[longer[k].key] = h /\ longer[k].value.key = longer[k].key
    <3>1. CASE k = 1
      BY <3>1, <1>2, <1>4, <1>12
    <3>2. CASE k # 1
      <4>1. /\ k - 1 \in 1 .. Len(ht.buckets[h]) /\ (k - 1) + 1 = k
            /\ DOMAIN ht.buckets[h] = 1 .. Len(ht.buckets[h])
        BY <3>2, <1>9, <1>12
      <4>2. longer[k] = ht.buckets[h][k - 1] /\ k - 1 \in DOMAIN ht.buckets[h]
        BY <4>1, <1>12
      <4> QED
        BY <4>2 DEF Chained
    <3> QED
      BY <3>1, <3>2
  <2> QED
    BY <2>1, <2>2, <1>11, <1>13 DEF Chained
<1>15. ASSUME NEW key \in Keys
       PROVE  /\ Present(key)' <=> Present(key) \/ key = s.key
              /\ Present(key) => At(key)' = At(key)
  <2>1. CASE DoHash[key] = h
    BY <2>1, <1>4, <1>11, <1>13 DEF Present, At
  <2>2. CASE DoHash[key] # h
    <3>1. ht'.buckets[DoHash[key]] = ht.buckets[DoHash[key]]
      BY <2>2, <1>13, SymbolTableAssumption
    <3> QED
      BY <3>1, <2>2, <1>2 DEF Present, At
  <2> QED
    BY <2>1, <2>2
<1>16. At(s.key)' = s
  BY <1>2, <1>4, <1>11, <1>13 DEF At
<1>17. ht' \in [buckets : [Buckets -> Seq(Items)], last_error : {HT_OK}]
  BY <1>8, <1>13
<1> QED
  BY <1>8, <1>14, <1>15, <1>16, <1>17

\* A push that succeeds is recorded.
LEMMA PushRecorded ==
  ASSUME Recorded, NEW s \in Symbols, ~ Present(s.key),
         \A t \in Symbols : t.key \in Keys,
         pushed' = pushed \cup {s},
         \A key \in Keys : Present(key)' <=> Present(key) \/ key = s.key,
         At(s.key)' = s,
         \A key \in Keys : Present(key) => At(key)' = At(key)
  PROVE  Recorded'
<1> SUFFICES ASSUME NEW t \in Symbols
             PROVE  t \in pushed' <=> Present(t.key)' /\ At(t.key)' = t
  BY DEF Recorded, Present, At
<1>1. t.key \in Keys
  OBVIOUS
<1>2. CASE t.key = s.key
  <2>1. ~ Present(t.key) /\ t \notin pushed
    BY <1>2 DEF Recorded
  <2>2. Present(t.key)' /\ At(t.key)' = s
    <3>1. Present(s.key)' /\ At(s.key)' = s
      BY <1>1, <1>2
    <3> QED
      BY <1>2, <3>1 DEF Present, At
  <2> QED
    BY <2>1, <2>2
<1>3. CASE t.key # s.key
  BY <1>1, <1>3 DEF Recorded
<1> QED
  BY <1>2, <1>3

\* A lookup changes nothing.
LEMMA LookupReads ==
  ASSUME Types, NEW key \in Keys, Lookup(key)
  PROVE  /\ ht' = ht
         /\ answer' = IF Present(key) THEN At(key) ELSE Unknown
<1>1. ht = [buckets |-> ht.buckets, last_error |-> HT_OK]
  BY DEF Types
<1>2. CASE Present(key)
  <2>1. Get(ht, key) = [table |-> [buckets |-> ht.buckets,
                                   last_error |-> HT_OK],
                        value |-> At(key)]
    BY <1>1, <1>2 DEF Get, Present, At
  <2> QED
    BY <2>1, <1>1, <1>2, SymbolTableAssumption DEF Lookup, Reset
<1>3. CASE ~ Present(key)
  <2>1. Get(ht, key) = [table |-> [buckets |-> ht.buckets,
                                   last_error |-> HT_NOTFOUND],
                        value |-> NULL]
    BY <1>1, <1>3 DEF Get, Present
  <2> QED
    BY <2>1, <1>1, <1>3 DEF Lookup, Reset
<1> QED
  BY <1>2, <1>3

-----------------------------------------------------------------------------
(***************************************************************************)
(* The loops over the table.                                               *)
(***************************************************************************)

\* Induction over the natural numbers, for sets: the least number that is not
\* in the set would follow one that is.
LEMMA Induction ==
  ASSUME NEW S \in SUBSET Nat, 0 \in S, \A n \in S : n + 1 \in S
  PROVE  S = Nat
<1> DEFINE less == OpToRel(<, Nat)
           rest == Nat \ S
<1>1. IsWellFoundedOn(less, Nat)
  BY NatLessThanWellFounded
<1>2. SUFFICES ASSUME rest # {} PROVE FALSE
  OBVIOUS
<1>3. PICK n \in rest : \A m \in rest : <<m, n>> \notin less
  <2>1. rest \in SUBSET Nat
    OBVIOUS
  <2> HIDE DEF less, rest
  <2> QED
    BY <1>1, <1>2, <2>1, WFMin
<1>4. \A m \in rest : ~ (m < n)
  BY <1>3 DEF OpToRel
<1>5. n - 1 \in Nat
  OBVIOUS
<1>6. n - 1 \in S /\ (n - 1) + 1 = n
  BY <1>4, <1>5
<1> QED
  BY <1>3, <1>6

\* The recursive definition of FirstBuckets has a solution, so it means what
\* it says.
LEMMA FirstBucketsDefined ==
  ASSUME Types
  PROVE  /\ FirstBuckets[0] = <<>>
         /\ \A n \in 0 .. Size - 1 :
              FirstBuckets[n + 1] = FirstBuckets[n] \o ht.buckets[n]
<1> DEFINE solves(f, n) ==
             /\ f[0] = <<>>
             /\ \A k \in 1 .. n : f[k] = f[k - 1] \o ht.buckets[k - 1]
           solved == {n \in Nat : \E f : solves(f, n)}
<1>1. 0 \in solved
  <2>1. solves([k \in {0} |-> <<>>], 0)
    OBVIOUS
  <2> QED
    BY <2>1
<1>2. ASSUME NEW n \in solved PROVE n + 1 \in solved
  <2>1. PICK f : solves(f, n)
    OBVIOUS
  <2>2. PICK g : g = [k \in 0 .. n + 1 |->
                        IF k = n + 1 THEN f[n] \o ht.buckets[n] ELSE f[k]]
    OBVIOUS
  <2>3. /\ g[n + 1] = f[n] \o ht.buckets[n]
        /\ \A k \in 0 .. n : g[k] = f[k]
    BY <2>2
  <2>4. ASSUME NEW k \in 1 .. n + 1
        PROVE  g[k] = g[k - 1] \o ht.buckets[k - 1]
    <3>1. CASE k = n + 1
      <4>1. k - 1 = n /\ n \in 0 .. n
        BY <3>1
      <4> QED
        BY <4>1, <3>1, <2>3
    <3>2. CASE k # n + 1
      <4>1. k \in 1 .. n /\ k \in 0 .. n /\ k - 1 \in 0 .. n
        BY <3>2
      <4> QED
        BY <4>1, <2>1, <2>3
    <3> QED
      BY <3>1, <3>2
  <2>5. g[0] = <<>>
    BY <2>1, <2>3
  <2>6. solves(g, n + 1)
    BY <2>4, <2>5
  <2>7. n + 1 \in Nat
    OBVIOUS
  <2> HIDE DEF solves
  <2> QED
    BY <2>6, <2>7
<1>3. solved = Nat
  <2> HIDE DEF solved
  <2> QED
    BY <1>1, <1>2, Induction DEF solved
<1>4. Size \in Nat
  BY SymbolTableAssumption
<1>5. PICK f : solves(f, Size)
  BY <1>3, <1>4
<1> DEFINE body(g) == [n \in 0 .. Size |->
                         IF n = 0 THEN <<>> ELSE g[n - 1] \o ht.buckets[n - 1]]
<1>6. PICK g : g = [n \in 0 .. Size |-> f[n]]
  OBVIOUS
<1>7. \A n \in 0 .. Size : g[n] = f[n]
  BY <1>6
<1>8. ASSUME NEW n \in 0 .. Size
      PROVE  g[n] = IF n = 0 THEN <<>> ELSE g[n - 1] \o ht.buckets[n - 1]
  <2>1. CASE n = 0
    BY <2>1, <1>5, <1>7
  <2>2. CASE n # 0
    <3>1. n \in 1 .. Size /\ n - 1 \in 0 .. Size
      BY <2>2, <1>4
    <3> QED
      BY <3>1, <2>2, <1>5, <1>7
  <2> QED
    BY <2>1, <2>2
<1>9. g = body(g)
  BY <1>6, <1>8
<1>10. FirstBuckets = CHOOSE h : h = body(h)
  BY DEF FirstBuckets
<1>11. FirstBuckets = body(FirstBuckets)
  <2> HIDE DEF body
  <2> QED
    BY <1>9, <1>10
<1>12. ASSUME NEW n \in 0 .. Size
       PROVE  FirstBuckets[n] = IF n = 0 THEN <<>>
                                ELSE FirstBuckets[n - 1] \o ht.buckets[n - 1]
  BY <1>11
<1>13. ASSUME NEW n \in 0 .. Size - 1
       PROVE  FirstBuckets[n + 1] = FirstBuckets[n] \o ht.buckets[n]
  <2>1. n + 1 \in 0 .. Size /\ n + 1 # 0 /\ (n + 1) - 1 = n
    BY <1>4
  <2> QED
    BY <2>1, <1>12
<1>14. FirstBuckets[0] = <<>>
  BY <1>4, <1>12
<1> QED
  BY <1>13, <1>14

\* Every item of a bucket is met, and no key twice.
LEMMA BucketsListed ==
  ASSUME Types, Chained
  PROVE  /\ Listed \in Seq(Items)
         /\ \A k \in DOMAIN Listed :
              \E b \in Buckets : \E j \in DOMAIN ht.buckets[b] :
                Listed[k] = ht.buckets[b][j]
         /\ \A b \in Buckets : \A j \in DOMAIN ht.buckets[b] :
              \E k \in DOMAIN Listed : Listed[k] = ht.buckets[b][j]
         /\ \A k, l \in DOMAIN Listed : Listed[k].key = Listed[l].key => k = l
<1> DEFINE lists(s, n) ==
             /\ s \in Seq(Items)
             /\ \A k \in DOMAIN s :
                  \E b \in 0 .. n - 1 : \E j \in DOMAIN ht.buckets[b] :
                    s[k] = ht.buckets[b][j]
             /\ \A b \in 0 .. n - 1 : \A j \in DOMAIN ht.buckets[b] :
                  \E k \in DOMAIN s : s[k] = ht.buckets[b][j]
             /\ Distinct(s)
           listed == {n \in Nat : n <= Size => lists(FirstBuckets[n], n)}
<1>1. 0 \in listed
  <2>1. FirstBuckets[0] = <<>>
    BY FirstBucketsDefined
  <2>2. <<>> \in Seq(Items) /\ DOMAIN <<>> = {}
    OBVIOUS
  <2>3. lists(<<>>, 0)
    BY <2>2 DEF Distinct
  <2> HIDE DEF lists
  <2> QED
    BY <2>1, <2>3
<1>2. ASSUME NEW n \in listed PROVE n + 1 \in listed
  <2> SUFFICES ASSUME n + 1 <= Size PROVE lists(FirstBuckets[n + 1], n + 1)
    <3> HIDE DEF lists
    <3> QED
      OBVIOUS
  <2>1. Size \in Nat /\ n \in Nat /\ n \in 0 .. Size - 1 /\ n \in Buckets
    BY SymbolTableAssumption DEF Buckets
  <2>2. PICK s : s = FirstBuckets[n]
    OBVIOUS
  <2>3. PICK c : c = ht.buckets[n]
    OBVIOUS
  <2>4. PICK u : u = s \o c
    OBVIOUS
  <2>5. FirstBuckets[n + 1] = u
    BY <2>1, <2>2, <2>3, <2>4, FirstBucketsDefined
  <2>6. lists(s, n)
    BY <2>1, <2>2
  <2>7. /\ s \in Seq(Items) /\ c \in Seq(Items) /\ Distinct(s) /\ Distinct(c)
        /\ \A k \in DOMAIN c : DoHash[c[k].key] = n
    BY <2>1, <2>3, <2>6 DEF Types, Chained
  <2>8. \A k \in DOMAIN s : DoHash[s[k].key] \in 0 .. n - 1
    <3> TAKE k \in DOMAIN s
    <3>1. PICK b \in 0 .. n - 1 : \E j \in DOMAIN ht.buckets[b] :
                 s[k] = ht.buckets[b][j]
      BY <2>6
    <3>2. b \in Buckets
      BY <2>1 DEF Buckets
    <3> QED
      BY <3>1, <3>2 DEF Chained
  <2>9. u \in Seq(Items) /\ DOMAIN u = 1 .. Len(s) + Len(c)
    BY <2>4, <2>7
  <2>10. \A k \in 1 .. Len(s) : u[k] = s[k]
    BY <2>4, <2>7
  <2>11. \A k \in 1 .. Len(c) : u[Len(s) + k] = c[k]
    BY <2>4, <2>7
  <2>12. /\ DOMAIN s = 1 .. Len(s) /\ Len(s) \in Nat
         /\ DOMAIN c = 1 .. Len(c) /\ Len(c) \in Nat
    BY <2>7
  <2>13. \A k \in DOMAIN u :
           \/ k \in DOMAIN s /\ u[k] = s[k]
           \/ k - Len(s) \in DOMAIN c /\ u[k] = c[k - Len(s)]
    <3> TAKE k \in DOMAIN u
    <3>1. CASE k <= Len(s)
      BY <3>1, <2>9, <2>10, <2>12
    <3>2. CASE ~ (k <= Len(s))
      <4>1. /\ k - Len(s) \in 1 .. Len(c)
            /\ Len(s) + (k - Len(s)) = k
        BY <3>2, <2>9, <2>12
      <4>2. u[Len(s) + (k - Len(s))] = c[k - Len(s)]
        BY <4>1, <2>11
      <4> QED
        BY <4>1, <4>2, <2>12
    <3> QED
      BY <3>1, <3>2
  <2>14. Distinct(u)
    <3> SUFFICES ASSUME NEW k \in DOMAIN u, NEW l \in DOMAIN u,
                        u[k].key = u[l].key
                 PROVE  k = l
      BY DEF Distinct
    <3>1. k \in Int /\ l \in Int /\ Len(s) \in Int
      BY <2>9, <2>12
    <3>2. CASE k \in DOMAIN s /\ u[k] = s[k]
      <4>1. DoHash[u[l].key] # n
        BY <3>2, <2>1, <2>8
      <4>2. l \in DOMAIN s /\ u[l] = s[l]
        BY <4>1, <2>7, <2>13
      <4> QED
        BY <4>2, <3>2, <2>7 DEF Distinct
    <3>3. CASE k - Len(s) \in DOMAIN c /\ u[k] = c[k - Len(s)]
      <4>1. DoHash[u[l].key] = n
        BY <3>3, <2>7
      <4>2. ~ (l \in DOMAIN s /\ u[l] = s[l])
        BY <4>1, <2>1, <2>8
      <4>3. l - Len(s) \in DOMAIN c /\ u[l] = c[l - Len(s)]
        BY <4>2, <2>13
      <4>4. k - Len(s) = l - Len(s)
        BY <4>3, <3>3, <2>7 DEF Distinct
      <4> QED
        BY <4>4, <3>1
    <3> QED
      BY <3>2, <3>3, <2>13
  <2>15. ASSUME NEW k \in DOMAIN u
         PROVE  \E b \in 0 .. (n + 1) - 1 : \E j \in DOMAIN ht.buckets[b] :
                  u[k] = ht.buckets[b][j]
    <3>1. CASE k \in DOMAIN s /\ u[k] = s[k]
      <4>1. PICK b \in 0 .. n - 1 : \E j \in DOMAIN ht.buckets[b] :
                   s[k] = ht.buckets[b][j]
        BY <3>1, <2>6
      <4>2. b \in 0 .. (n + 1) - 1
        BY <2>1
      <4> QED
        BY <4>1, <4>2, <3>1
    <3>2. CASE k - Len(s) \in DOMAIN c /\ u[k] = c[k - Len(s)]
      <4>1. n \in 0 .. (n + 1) - 1
        BY <2>1
      <4> QED
        BY <4>1, <3>2, <2>3
    <3> QED
      BY <3>1, <3>2, <2>13
  <2>16. ASSUME NEW b \in 0 .. (n + 1) - 1, NEW j \in DOMAIN ht.buckets[b]
         PROVE  \E k \in DOMAIN u : u[k] = ht.buckets[b][j]
    <3>1. CASE b = n
      <4>1. Len(s) + j \in DOMAIN u /\ u[Len(s) + j] = c[j]
        BY <3>1, <2>3, <2>9, <2>11, <2>12
      <4> QED
        BY <4>1, <3>1, <2>3
    <3>2. CASE b # n
      <4>1. b \in 0 .. n - 1
        BY <3>2, <2>1
      <4>2. PICK k \in DOMAIN s : s[k] = ht.buckets[b][j]
        BY <4>1, <2>6
      <4>3. k \in DOMAIN u /\ u[k] = s[k]
        BY <2>9, <2>10, <2>12
      <4> QED
        BY <4>2, <4>3
    <3> QED
      BY <3>1, <3>2
  <2> QED
    BY <2>5, <2>9, <2>14, <2>15, <2>16
<1>3. listed = Nat
  <2> HIDE DEF lists
  <2>1. listed \in SUBSET Nat
    OBVIOUS
  <2> HIDE DEF listed
  <2> QED
    BY <1>1, <1>2, <2>1, Induction
<1>4. Size \in Nat
  BY SymbolTableAssumption
<1>5. lists(Listed, Size)
  <2> HIDE DEF lists
  <2> QED
    BY <1>3, <1>4 DEF Listed
<1> QED
  BY <1>5 DEF Buckets, Distinct

-----------------------------------------------------------------------------
(***************************************************************************)
(* The invariant, call by call.                                            *)
(***************************************************************************)

\* The empty table.
LEMMA InitIInv == Init => IInv
<1> SUFFICES ASSUME Init PROVE IInv
  OBVIOUS
<1>1. /\ ht = [buckets |-> [b \in Buckets |-> <<>>], last_error |-> HT_OK]
      /\ \A b \in Buckets : ht.buckets[b] = <<>>
      /\ temps_count = 0 /\ constants_count = 0 /\ pushed = {}
      /\ freed = <<>> /\ answer = Nothing /\ asked = NULL
  BY DEF Init, Empty
<1>2. MaxGenerated \in Nat
  BY SymbolTableAssumption
<1>3. Types
  BY <1>1, <1>2 DEF Types
<1>4. Chained
  BY <1>1 DEF Chained, Distinct
<1>5. \A key \in Keys : ~ Present(key)
  BY <1>1, SymbolTableAssumption DEF Present, Has
<1>6. Counted /\ Recorded
  BY <1>1, <1>5, KeysOfSymbols DEF Counted, Recorded
<1>7. Answered
  BY <1>1, SymbolTableAssumption DEF Answered
<1> QED
  BY <1>3, <1>4, <1>6, <1>7 DEF IInv

\* An identifier is declared: its symbol is new, or this ends the program.
LEMMA DeclareStep ==
  ASSUME IInv, NEW name \in Names, Declare(name)
  PROVE  IInv'
<1>1. PICK s : s = [key |-> UserKey(name), of |-> name]
  OBVIOUS
<1>2. /\ s \in Symbols /\ s.key = UserKey(name) /\ s.key \in Keys
      /\ \A n \in 0 .. MaxGenerated - 1 :
           s.key # TempKey(n) /\ s.key # ConstKey(n)
  BY <1>1, KeysOfSymbols DEF Symbols
<1>3. Types /\ Chained /\ Counted /\ Recorded /\ Answered
  BY DEF IInv
<1>4. /\ Push(s) /\ asked' = name /\ asked' # NULL
      /\ temps_count' = temps_count /\ constants_count' = constants_count
      /\ freed' = freed
  BY <1>1, SymbolTableAssumption DEF Declare, counters
<1>5. CASE Present(s.key)
  <2>1. ht' = ht /\ answer' = AlreadyDefined /\ pushed' = pushed
    BY <1>2, <1>3, <1>4, <1>5, PushRefused
  <2>2. Types'
    BY <2>1, <1>3, <1>4 DEF Types
  <2>3. Chained' /\ Counted' /\ Recorded'
    BY <2>1, <1>3, <1>4 DEF Chained, Counted, Recorded, Present, At
  <2>4. Answered'
    BY <2>1, <1>2, <1>4, <1>5, SymbolTableAssumption DEF Answered, Present
  <2> QED
    BY <2>2, <2>3, <2>4 DEF IInv
<1>6. CASE ~ Present(s.key)
  <2>1. /\ answer' = s /\ pushed' = pushed \cup {s}
        /\ ht' \in [buckets : [Buckets -> Seq(Items)], last_error : {HT_OK}]
        /\ Chained'
        /\ \A key \in Keys : Present(key)' <=> Present(key) \/ key = s.key
        /\ At(s.key)' = s
        /\ \A key \in Keys : Present(key) => At(key)' = At(key)
    BY <1>2, <1>3, <1>4, <1>6, PushAccepted
  <2>2. Types'
    BY <2>1, <1>2, <1>3, <1>4 DEF Types
  <2>3. Counted'
    BY <2>1, <1>2, <1>3, <1>4, KeysOfSymbols DEF Counted
  <2>4. Recorded'
    BY <2>1, <1>2, <1>3, <1>6, KeysOfSymbols, PushRecorded
  <2>5. Answered'
    <3>1. Present(s.key)'
      BY <2>1, <1>2
    <3>2. answer' \notin {AlreadyDefined, Unknown}
      BY <2>1, <1>2, SymbolTableAssumption
    <3> QED
      BY <3>1, <3>2, <2>1, <1>2, <1>4 DEF Answered, Present, At
  <2> QED
    BY <2>1, <2>2, <2>3, <2>4, <2>5 DEF IInv
<1> QED
  BY <1>5, <1>6

\* A temporary has a name no other has.
LEMMA DeclareTempStep == ASSUME IInv, DeclareTemp PROVE IInv'
<1>1. PICK n \in Nat : n = temps_count
  BY SymbolTableAssumption DEF IInv, Types
<1>2. PICK s : s = [key |-> TempKey(n), of |-> NULL]
  OBVIOUS
<1>3. /\ Push(s) /\ asked' = NULL /\ n < MaxGenerated
      /\ temps_count' = n + 1 /\ constants_count' = constants_count /\ freed' = freed
  BY <1>1, <1>2 DEF DeclareTemp
<1>4. n \in 0 .. MaxGenerated - 1 /\ MaxGenerated \in Nat
  BY <1>3, SymbolTableAssumption
<1>5. s \in Symbols /\ s.key = TempKey(n) /\ s.key \in Keys
  BY <1>2, <1>4, KeysOfSymbols, GeneratedSymbols
<1>6. Types /\ Chained /\ Counted /\ Recorded /\ Answered
  BY DEF IInv
<1>7. ~ Present(s.key)
  BY <1>1, <1>4, <1>5, <1>6 DEF Counted
<1>8. /\ answer' = s /\ pushed' = pushed \cup {s}
      /\ ht' \in [buckets : [Buckets -> Seq(Items)], last_error : {HT_OK}]
      /\ Chained'
      /\ \A key \in Keys : Present(key)' <=> Present(key) \/ key = s.key
      /\ At(s.key)' = s
      /\ \A key \in Keys : Present(key) => At(key)' = At(key)
  BY <1>3, <1>5, <1>6, <1>7, PushAccepted
<1>9. Types'
  BY <1>3, <1>4, <1>5, <1>6, <1>8 DEF Types
<1>10. Counted'
  <2> SUFFICES ASSUME NEW m \in 0 .. MaxGenerated - 1
               PROVE  /\ m < n + 1 <=> Present(TempKey(m))'
                      /\ m < constants_count <=> Present(ConstKey(m))'
    BY <1>3 DEF Counted, Present
  <2>1. /\ TempKey(m) \in Keys /\ (TempKey(m) = s.key <=> m = n)
        /\ ConstKey(m) \in Keys /\ ConstKey(m) # s.key
    BY <1>4, <1>5, KeysOfSymbols
  <2>2. /\ m < n <=> Present(TempKey(m))
        /\ m < constants_count <=> Present(ConstKey(m))
    BY <1>1, <1>6 DEF Counted
  <2>3. m < n + 1 <=> m < n \/ m = n
    OBVIOUS
  <2> QED
    BY <2>1, <2>2, <2>3, <1>8
<1>11. Recorded'
  BY <1>5, <1>6, <1>7, <1>8, KeysOfSymbols, PushRecorded
<1>12. Answered'
  <2>1. Present(s.key)'
    BY <1>5, <1>8
  <2>2. answer' \notin {AlreadyDefined, Unknown}
    BY <1>5, <1>8, SymbolTableAssumption
  <2> QED
    BY <2>1, <2>2, <1>3, <1>5, <1>8 DEF Answered, Present, At
<1> QED
  BY <1>8, <1>9, <1>10, <1>11, <1>12 DEF IInv

\* So has a constant.
LEMMA DeclareConstantStep == ASSUME IInv, DeclareConstant PROVE IInv'
<1>1. PICK n \in Nat : n = constants_count
  BY SymbolTableAssumption DEF IInv, Types
<1>2. PICK s : s = [key |-> ConstKey(n), of |-> NULL]
  OBVIOUS
<1>3. /\ Push(s) /\ asked' = NULL /\ n < MaxGenerated
      /\ constants_count' = n + 1 /\ temps_count' = temps_count /\ freed' = freed
  BY <1>1, <1>2 DEF DeclareConstant
<1>4. n \in 0 .. MaxGenerated - 1 /\ MaxGenerated \in Nat
  BY <1>3, SymbolTableAssumption
<1>5. s \in Symbols /\ s.key = ConstKey(n) /\ s.key \in Keys
  BY <1>2, <1>4, KeysOfSymbols, GeneratedSymbols
<1>6. Types /\ Chained /\ Counted /\ Recorded /\ Answered
  BY DEF IInv
<1>7. ~ Present(s.key)
  BY <1>1, <1>4, <1>5, <1>6 DEF Counted
<1>8. /\ answer' = s /\ pushed' = pushed \cup {s}
      /\ ht' \in [buckets : [Buckets -> Seq(Items)], last_error : {HT_OK}]
      /\ Chained'
      /\ \A key \in Keys : Present(key)' <=> Present(key) \/ key = s.key
      /\ At(s.key)' = s
      /\ \A key \in Keys : Present(key) => At(key)' = At(key)
  BY <1>3, <1>5, <1>6, <1>7, PushAccepted
<1>9. Types'
  BY <1>3, <1>4, <1>5, <1>6, <1>8 DEF Types
<1>10. Counted'
  <2> SUFFICES ASSUME NEW m \in 0 .. MaxGenerated - 1
               PROVE  /\ m < n + 1 <=> Present(ConstKey(m))'
                      /\ m < temps_count <=> Present(TempKey(m))'
    BY <1>3 DEF Counted, Present
  <2>1. /\ ConstKey(m) \in Keys /\ (ConstKey(m) = s.key <=> m = n)
        /\ TempKey(m) \in Keys /\ TempKey(m) # s.key
    BY <1>4, <1>5, KeysOfSymbols
  <2>2. /\ m < n <=> Present(ConstKey(m))
        /\ m < temps_count <=> Present(TempKey(m))
    BY <1>1, <1>6 DEF Counted
  <2>3. m < n + 1 <=> m < n \/ m = n
    OBVIOUS
  <2> QED
    BY <2>1, <2>2, <2>3, <1>8
<1>11. Recorded'
  BY <1>5, <1>6, <1>7, <1>8, KeysOfSymbols, PushRecorded
<1>12. Answered'
  <2>1. Present(s.key)'
    BY <1>5, <1>8
  <2>2. answer' \notin {AlreadyDefined, Unknown}
    BY <1>5, <1>8, SymbolTableAssumption
  <2> QED
    BY <2>1, <2>2, <1>3, <1>5, <1>8 DEF Answered, Present, At
<1> QED
  BY <1>8, <1>9, <1>10, <1>11, <1>12 DEF IInv

\* A lookup answers with the symbol of the identifier.
LEMMA LookupUserStep ==
  ASSUME IInv, NEW name \in Names, LookupUser(name)
  PROVE  IInv'
<1>1. UserKey(name) \in Keys
  BY KeysOfSymbols
<1>2. Types /\ Chained /\ Counted /\ Recorded
  BY DEF IInv
<1>3. /\ Lookup(UserKey(name)) /\ asked' = name /\ name # NULL
      /\ temps_count' = temps_count /\ constants_count' = constants_count
      /\ freed' = freed /\ pushed' = pushed
  BY SymbolTableAssumption DEF LookupUser, counters
<1>4. /\ ht' = ht
      /\ answer' = IF Present(UserKey(name)) THEN At(UserKey(name)) ELSE Unknown
  BY <1>1, <1>2, <1>3, LookupReads
<1>5. Present(UserKey(name)) =>
        /\ At(UserKey(name)) \in Symbols
        /\ At(UserKey(name)).key = UserKey(name)
  BY <1>1, <1>2, SymbolAt
<1>6. Types'
  BY <1>2, <1>3, <1>4, <1>5 DEF Types
<1>7. Chained' /\ Counted' /\ Recorded'
  BY <1>2, <1>3, <1>4 DEF Chained, Counted, Recorded, Present, At
<1>8. Answered'
  <2>1. CASE Present(UserKey(name))
    BY <2>1, <1>3, <1>4, <1>5, SymbolTableAssumption
    DEF Answered, Present, At
  <2>2. CASE ~ Present(UserKey(name))
    BY <2>2, <1>3, <1>4, SymbolTableAssumption DEF Answered, Present
  <2> QED
    BY <2>1, <2>2
<1> QED
  BY <1>6, <1>7, <1>8 DEF IInv

\* The table is freed at the end; the model keeps its contents to compare.
LEMMA FreeStep == ASSUME IInv, Free PROVE IInv'
<1>1. /\ freed' = [k \in DOMAIN Listed |-> Listed[k].value]
      /\ ht' = ht /\ temps_count' = temps_count
      /\ constants_count' = constants_count
      /\ answer' = answer /\ asked' = asked /\ pushed' = pushed
  BY DEF Free, counters
<1>2. Listed \in Seq(Items)
  BY BucketsListed DEF IInv
<1>3. freed' \in Seq(Symbols)
  <2>1. DOMAIN Listed = 1 .. Len(Listed) /\ Len(Listed) \in Nat
    BY <1>2
  <2>2. \A k \in 1 .. Len(Listed) : Listed[k].value \in Symbols
    <3>1. \A k \in 1 .. Len(Listed) : Listed[k] \in Items
      BY <1>2
    <3> QED
      BY <3>1 DEF Items
  <2>3. freed' \in [1 .. Len(Listed) -> Symbols]
    BY <2>1, <2>2, <1>1
  <2> QED
    BY <2>1, <2>3
<1> QED
  BY <1>1, <1>3
  DEF IInv, Types, Chained, Counted, Recorded, Answered, Present, At

\* The invariant holds of a table of any size with any hash function.
THEOREM Invariance == Spec => []IInv
<1>1. IInv /\ [Next]_vars => IInv'
  <2> SUFFICES ASSUME IInv, [Next]_vars PROVE IInv'
    OBVIOUS
  <2>1. ASSUME NEW name \in Names, Declare(name) PROVE IInv'
    BY <2>1, DeclareStep
  <2>2. ASSUME NEW name \in Names, LookupUser(name) PROVE IInv'
    BY <2>2, LookupUserStep
  <2>3. CASE DeclareTemp
    BY <2>3, DeclareTempStep
  <2>6. CASE DeclareConstant
    BY <2>6, DeclareConstantStep
  <2>4. CASE Free
    BY <2>4, FreeStep
  <2>5. CASE UNCHANGED vars
    BY <2>5
    DEF vars, counters, IInv, Types, Chained, Counted, Recorded, Answered,
        Present, At
  <2> QED
    BY <2>1, <2>2, <2>3, <2>4, <2>5, <2>6 DEF Next
<1> QED
  BY <1>1, InitIInv, PTL DEF Spec

\* Every item stays in the bucket of its key, and a call never leaves an
\* error behind for the next one to read (hash_table.c:34-61, 103-107).
THEOREM TypeCorrect == Spec => []TypeOK
<1>1. IInv => TypeOK
  BY DEF IInv, Types, Chained, TypeOK
<1> QED
  BY <1>1, Invariance, PTL

\* The loops over the table meet every symbol that was pushed exactly once,
\* whatever bucket the hash function puts it in (hash_table.c:72-91,
\* symbol_table.h:16-19).
THEOREM AllSymbolsListed == Spec => []EverySymbolListedOnce
<1>1. IInv => EverySymbolListedOnce
  <2> SUFFICES ASSUME IInv PROVE EverySymbolListedOnce
    OBVIOUS
  <2>1. /\ \A b \in Buckets : \A j \in DOMAIN ht.buckets[b] :
             \E k \in DOMAIN Listed : Listed[k] = ht.buckets[b][j]
        /\ \A k, l \in DOMAIN Listed : Listed[k].key = Listed[l].key => k = l
    BY BucketsListed DEF IInv
  <2>2. ASSUME NEW key \in Keys, Present(key)
        PROVE  \E k \in DOMAIN Listed :
                 Listed[k].key = key /\ Listed[k].value = At(key)
    <3>1. DoHash[key] \in Buckets
      BY SymbolTableAssumption
    <3>2. PICK j \in DOMAIN ht.buckets[DoHash[key]] :
            /\ ht.buckets[DoHash[key]][j].key = key
            /\ ht.buckets[DoHash[key]][j].value = At(key)
      BY <2>2, PresentItem DEF IInv
    <3> QED
      BY <3>1, <3>2, <2>1
  <2>3. ASSUME NEW k \in DOMAIN Listed
        PROVE  /\ Listed[k].value \in Symbols
               /\ Listed[k].value.key = Listed[k].key
               /\ Listed[k].value \in pushed
    <3>1. PICK b \in Buckets :
                 \E j \in DOMAIN ht.buckets[b] : Listed[k] = ht.buckets[b][j]
      BY BucketsListed DEF IInv
    <3>2. /\ Listed[k] \in Items
          /\ Present(Listed[k].key) /\ At(Listed[k].key) = Listed[k].value
          /\ Listed[k].value.key = Listed[k].key
      BY <3>1, InBucket DEF IInv
    <3> QED
      BY <3>2 DEF IInv, Recorded, Items
  <2>4. ASSUME NEW s \in pushed
        PROVE  \E k \in DOMAIN Listed : Listed[k].value = s
    <3>1. s \in Symbols /\ s.key \in Keys
      BY KeysOfSymbols DEF IInv, Types
    <3>2. Present(s.key) /\ At(s.key) = s
      BY <3>1 DEF IInv, Recorded
    <3> QED
      BY <3>1, <3>2, <2>2
  <2>5. {Listed[k].value : k \in DOMAIN Listed} = pushed
    BY <2>3, <2>4
  <2>6. \A k, l \in DOMAIN Listed :
          Listed[k].key = Listed[l].key \/ Listed[k].value = Listed[l].value
            => k = l
    BY <2>1, <2>3
  <2> QED
    BY <2>5, <2>6 DEF EverySymbolListedOnce
<1> QED
  BY <1>1, Invariance, PTL

\* Whatever the program declares, no temporary and no constant is already
\* defined, and what is refused or found for an identifier has the same first 30
\* characters (symbol.c:20-39, symbol_table.c:6-27).
THEOREM OnlyCutNames == Spec => []OnlyCutNamesConfused
<1>1. IInv => OnlyCutNamesConfused
  <2> SUFFICES ASSUME IInv PROVE OnlyCutNamesConfused
    OBVIOUS
  <2>1. Types /\ Chained /\ Answered
    BY DEF IInv
  <2>2. asked \in Names \cup {NULL} /\ NULL \notin Names
    BY <2>1, SymbolTableAssumption DEF Types
  <2> DEFINE alike(k) == /\ {Listed[k].value.of, asked} \subseteq Names
                         /\ Cut[Listed[k].value.of] = Cut[asked]
  <2>3. ASSUME NEW k \in DOMAIN Listed, asked \in Names
        PROVE  alike(k) =>
                 /\ Present(UserKey(asked))
                 /\ Listed[k].value = At(UserKey(asked))
    <3>1. PICK b \in Buckets :
                 \E j \in DOMAIN ht.buckets[b] : Listed[k] = ht.buckets[b][j]
      BY <2>1, BucketsListed
    <3>2. /\ Listed[k] \in Items /\ Listed[k].value.key = Listed[k].key
          /\ Present(Listed[k].key) /\ At(Listed[k].key) = Listed[k].value
      BY <3>1, <2>1, InBucket DEF Items
    <3>3. alike(k) => Listed[k].value.key = UserKey(asked)
      BY <3>2, <2>3, KeysOfSymbols DEF Items
    <3> QED
      BY <3>2, <3>3
  <2>4. ASSUME asked \in Names, Present(UserKey(asked))
        PROVE  \E k \in DOMAIN Listed :
                 alike(k) /\ Listed[k].value = At(UserKey(asked))
    <3>1. UserKey(asked) \in Keys /\ DoHash[UserKey(asked)] \in Buckets
      BY <2>4, KeysOfSymbols, SymbolTableAssumption
    <3>2. PICK j \in DOMAIN ht.buckets[DoHash[UserKey(asked)]] :
            /\ ht.buckets[DoHash[UserKey(asked)]][j].key = UserKey(asked)
            /\ ht.buckets[DoHash[UserKey(asked)]][j].value = At(UserKey(asked))
      BY <3>1, <2>1, <2>4, PresentItem
    <3>3. PICK k \in DOMAIN Listed :
                 Listed[k] = ht.buckets[DoHash[UserKey(asked)]][j]
      BY <3>1, <3>2, <2>1, BucketsListed
    <3>4. Listed[k].value \in Symbols /\ Listed[k].value.key = UserKey(asked)
      BY <3>1, <3>2, <3>3, <2>1, <2>4, SymbolAt
    <3>5. alike(k)
      BY <3>4, <2>4, KeysOfSymbols
    <3> QED
      BY <3>2, <3>3, <3>5
  <2> QED
    BY <2>1, <2>2, <2>3, <2>4 DEF OnlyCutNamesConfused, Answered
<1> QED
  BY <1>1, Invariance, PTL

-----------------------------------------------------------------------------
(***************************************************************************)
(* The table implements the map.                                           *)
(***************************************************************************)

\* The contents as a function, key by key.
LEMMA ContentsAt ==
  /\ DOMAIN Contents = {key \in Keys : Present(key)}
  /\ \A key \in DOMAIN Contents : Contents[key] = At(key)
  /\ Contents = [key \in DOMAIN Contents |-> Contents[key]]
  BY DEF Contents, Present, At

\* A push of the table is a push of the map.
LEMMA PushMapped ==
  ASSUME IInv, NEW s \in Symbols, Push(s), Running
  PROVE  Abstract!Push(s.key, s)
<1>1. s.key \in Keys /\ Types /\ Chained
  BY KeysOfSymbols DEF IInv
<1>2. Abstract!Running
  BY DEF Running, Abstract!Running
<1>3. s.key \in DOMAIN Contents <=> Present(s.key)
  BY <1>1, ContentsAt
<1>4. CASE Present(s.key)
  <2>1. ht' = ht /\ answer' = AlreadyDefined
    BY <1>1, <1>4, PushRefused
  <2>2. Contents' = Contents
    BY <2>1 DEF Contents
  <2> QED
    BY <2>1, <2>2, <1>2, <1>3, <1>4 DEF Abstract!Push
<1>5. CASE ~ Present(s.key)
  <2>1. /\ answer' = s
        /\ \A key \in Keys : Present(key)' <=> Present(key) \/ key = s.key
        /\ At(s.key)' = s
        /\ \A key \in Keys : Present(key) => At(key)' = At(key)
    BY <1>1, <1>5, PushAccepted
  <2>2. /\ Contents' = [key \in DOMAIN Contents' |-> Contents'[key]]
        /\ DOMAIN Contents' = {key \in Keys : Present(key)'}
        /\ \A key \in DOMAIN Contents' : Contents'[key] = At(key)'
    BY DEF Contents, Present, At
  <2>3. DOMAIN Contents' = DOMAIN Contents \cup {s.key}
    BY <2>1, <2>2, <1>1, ContentsAt
  <2>4. \A key \in DOMAIN Contents' :
          Contents'[key] = IF key = s.key THEN s ELSE Contents[key]
    BY <2>1, <2>2, <1>5, ContentsAt
  <2>5. Contents' = [key \in DOMAIN Contents \cup {s.key} |->
                       IF key = s.key THEN s ELSE Contents[key]]
    BY <2>2, <2>3, <2>4
  <2> QED
    BY <2>1, <2>5, <1>2, <1>3, <1>5 DEF Abstract!Push
<1> QED
  BY <1>4, <1>5

\* The hash table, with the flag that its calls set, read and reset, is a
\* map: it refuses a second push, and it never loses or changes what it has,
\* whatever the number of buckets and the hash function (hash_table.c:34-70,
\* 103-107, symbol_table.c:6-22).
THEOREM TableIsMap == Spec => ImplementsMap
<1>1. Init => Abstract!Init
  <2> SUFFICES ASSUME Init PROVE Abstract!Init
    OBVIOUS
  <2>1. \A key \in Keys : ~ Present(key)
    BY SymbolTableAssumption DEF Init, Empty, Present, Has
  <2>2. DOMAIN Contents = {}
    BY <2>1, ContentsAt
  <2>3. Contents = <<>>
    BY <2>2, ContentsAt
  <2> QED
    BY <2>3 DEF Init, Abstract!Init
<1>2. IInv /\ [Next]_vars => [Abstract!Next]_(Abstract!vars)
  <2> SUFFICES ASSUME IInv, [Next]_vars
               PROVE  Abstract!Next \/ UNCHANGED Abstract!vars
    OBVIOUS
  <2>1. ASSUME NEW name \in Names, Declare(name) PROVE Abstract!Next
    <3>1. PICK s : s = [key |-> UserKey(name), of |-> name]
      OBVIOUS
    <3>2. s \in Symbols /\ s.key \in Keys
      BY <3>1, KeysOfSymbols DEF Symbols
    <3>3. Push(s) /\ Running
      BY <3>1, <2>1 DEF Declare
    <3> QED
      BY <3>2, <3>3, PushMapped DEF Abstract!Next
  <2>2. CASE DeclareTemp
    <3>1. PICK s : s = [key |-> TempKey(temps_count), of |-> NULL]
      OBVIOUS
    <3>2. temps_count \in 0 .. MaxGenerated - 1
      BY <2>2, SymbolTableAssumption DEF DeclareTemp, IInv, Types
    <3>3. s \in Symbols /\ s.key \in Keys
      BY <3>1, <3>2, KeysOfSymbols, GeneratedSymbols
    <3>4. Push(s) /\ Running
      BY <3>1, <2>2 DEF DeclareTemp
    <3> QED
      BY <3>3, <3>4, PushMapped DEF Abstract!Next
  <2>6. CASE DeclareConstant
    <3>1. PICK s : s = [key |-> ConstKey(constants_count), of |-> NULL]
      OBVIOUS
    <3>2. constants_count \in 0 .. MaxGenerated - 1
      BY <2>6, SymbolTableAssumption DEF DeclareConstant, IInv, Types
    <3>3. s \in Symbols /\ s.key \in Keys
      BY <3>1, <3>2, KeysOfSymbols, GeneratedSymbols
    <3>4. Push(s) /\ Running
      BY <3>1, <2>6 DEF DeclareConstant
    <3> QED
      BY <3>3, <3>4, PushMapped DEF Abstract!Next
  <2>3. ASSUME NEW name \in Names, LookupUser(name) PROVE Abstract!Next
    <3>1. UserKey(name) \in Keys /\ Types
      BY KeysOfSymbols DEF IInv
    <3>2. /\ ht' = ht
          /\ answer' = IF Present(UserKey(name)) THEN At(UserKey(name))
                                                 ELSE Unknown
      BY <2>3, <3>1, LookupReads DEF LookupUser
    <3>3. Contents' = Contents
      BY <3>2 DEF Contents
    <3>4. Running
      BY <2>3 DEF LookupUser
    <3>5. Abstract!Lookup(UserKey(name))
      BY <3>1, <3>2, <3>3, <3>4, ContentsAt
      DEF Abstract!Lookup, Abstract!Running, Running
    <3> QED
      BY <3>1, <3>5 DEF Abstract!Next
  <2>4. CASE Free
    BY <2>4 DEF Free, Abstract!vars, Contents
  <2>5. CASE UNCHANGED vars
    BY <2>5 DEF vars, Abstract!vars, Contents
  <2> QED
    BY <2>1, <2>2, <2>3, <2>4, <2>5, <2>6 DEF Next
<1> QED
  BY <1>1, <1>2, Invariance, PTL DEF Spec, ImplementsMap, Abstract!Spec
=============================================================================
