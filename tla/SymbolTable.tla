---------------------------- MODULE SymbolTable -----------------------------
(***************************************************************************)
(* The hash table of hash_table.c and its only client, symbol_table.c,     *)
(* with the naming of symbols in symbol.c.                                 *)
(*                                                                         *)
(* A key is a string; here it is the kind of the symbol (the prefix of its *)
(* name) and either a number or what is left of an identifier when         *)
(* snprintf() has cut the name to its 32 bytes.                            *)
(*                                                                         *)
(* A definition marked "variant" is the one that follows it with a slip    *)
(* put in; no specification uses it.                                       *)
(***************************************************************************)
EXTENDS Naturals, FiniteSets, SequencesExt

CONSTANTS Names,         \* the identifiers of the source text
          Cut,           \* from an identifier to its first 30 characters
          Size,          \* the number of buckets
          DoHash,        \* ht_dohash(), from a key to a bucket
          MaxGenerated,  \* bound on the temporaries, and on the constants
          NULL,
          HT_OK, HT_ALREADYEXISTS, HT_NOTFOUND,
          AlreadyDefined, Unknown, Nothing

UserKey(name) == <<"_", Cut[name]>>

\* variant: the counter is not in the name
TempKeyAlone(n) == <<"tmp", 0>>

TempKey(n) == <<"tmp", n>>

ConstKey(n) == <<"cst", n>>

\* The names the compiler makes.
GeneratedKeys == {TempKey(n) : n \in 0 .. MaxGenerated - 1}
                 \cup {ConstKey(n) : n \in 0 .. MaxGenerated - 1}

Keys == {UserKey(name) : name \in Names} \cup GeneratedKeys

\* A symbol is named by the key it is pushed with and, to tell what the text
\* declared, by the identifier it was declared with.
Symbols == {[key |-> UserKey(name), of |-> name] : name \in Names}
           \cup {[key |-> key, of |-> NULL] : key \in GeneratedKeys}

Buckets == 0 .. Size - 1

ASSUME SymbolTableAssumption ==
  /\ DOMAIN Cut = Names
  /\ NULL \notin Names
  /\ Size \in Nat \ {0}
  /\ MaxGenerated \in Nat
  /\ DoHash \in [Keys -> Buckets]
  /\ HT_OK \notin {HT_ALREADYEXISTS, HT_NOTFOUND}
  /\ HT_ALREADYEXISTS # HT_NOTFOUND
  /\ AlreadyDefined # Unknown
  /\ {AlreadyDefined, Unknown, Nothing} \cap Symbols = {}
  /\ Nothing \notin {AlreadyDefined, Unknown}

VARIABLES ht,           \* buckets and last_error
          temps_count, constants_count,
          freed,        \* the symbols symbol_delete() was called with, in order
          answer,       \* what the last call returned, or the error it ended with
          asked,        \* the identifier of the last call, NULL if it had none
          pushed        \* history: the symbols symbol_table_push() returned

counters == <<temps_count, constants_count>>
vars == <<ht, counters, freed, answer, asked, pushed>>

-----------------------------------------------------------------------------
(***************************************************************************)
(* hash_table.c.  A function that returns a value and changes the table is *)
(* the table it leaves, and the value is a field of it.                    *)
(***************************************************************************)

\* ht_init()
Empty == [buckets |-> [b \in Buckets |-> <<>>], last_error |-> HT_OK]

\* The first item with the key, of a bucket that has one.
Found(bucket, key) ==
  bucket[CHOOSE k \in DOMAIN bucket :
           /\ bucket[k].key = key
           /\ \A l \in 1 .. k - 1 : bucket[l].key # key]

\* variant: only the item that was put last is looked at
HasFirst(bucket, key) == bucket # <<>> /\ bucket[1].key = key

Has(bucket, key) == \E k \in DOMAIN bucket : bucket[k].key = key

Get(table, key) ==
  LET bucket == table.buckets[DoHash[key]]
  IN  IF Has(bucket, key)
        THEN [table |-> [table EXCEPT !.last_error = HT_OK],
              value |-> Found(bucket, key).value]
        ELSE [table |-> [table EXCEPT !.last_error = HT_NOTFOUND],
              value |-> NULL]

\* ht_exists(): last_error stays HT_NOTFOUND when the key is not there.
Exists(table, key) == Get(table, key).table.last_error # HT_NOTFOUND

\* variant: the item behind the new one is forgotten
PutOver(table, key, value) ==
  IF Exists(table, key)
    THEN [table EXCEPT !.last_error = HT_ALREADYEXISTS]
    ELSE [table EXCEPT !.buckets[DoHash[key]] =
                         <<[key |-> key, value |-> value]>>,
                       !.last_error = HT_OK]

\* variant: the hash is not used
PutInFirst(table, key, value) ==
  IF Exists(table, key)
    THEN [table EXCEPT !.last_error = HT_ALREADYEXISTS]
    ELSE [table EXCEPT !.buckets[0] =
                         <<[key |-> key, value |-> value]>> \o @,
                       !.last_error = HT_OK]

\* ht_put(): a new item goes to the front of its bucket.
Put(table, key, value) ==
  IF Exists(table, key)
    THEN [table EXCEPT !.last_error = HT_ALREADYEXISTS]
    ELSE [table EXCEPT !.buckets[DoHash[key]] =
                         <<[key |-> key, value |-> value]>> \o @,
                       !.last_error = HT_OK]

\* ht_last_error() reads the error and resets it.
Reset(table) == [table EXCEPT !.last_error = HT_OK]

\* The order of ht_free(), ht_size() and the macro for_each_symbol.
FirstBuckets[n \in 0 .. Size] ==
  IF n = 0 THEN <<>> ELSE FirstBuckets[n - 1] \o ht.buckets[n - 1]

Listed == FirstBuckets[Size]

-----------------------------------------------------------------------------
(***************************************************************************)
(* symbol_table.c, as the parser uses it.                                  *)
(***************************************************************************)
Init ==
  /\ ht = Empty
  /\ temps_count = 0
  /\ constants_count = 0
  /\ freed = <<>>
  /\ answer = Nothing
  /\ asked = NULL
  /\ pushed = {}

Running == answer \notin {AlreadyDefined, Unknown} /\ freed = <<>>

\* symbol_table_push()
Push(s) ==
  LET put == Put(ht, s.key, s)
  IN  /\ ht' = Reset(put)
      /\ IF put.last_error = HT_ALREADYEXISTS
           THEN answer' = AlreadyDefined /\ pushed' = pushed
           ELSE answer' = s /\ pushed' = pushed \cup {s}

\* symbol_table_lookup()
Lookup(key) ==
  LET got == Get(ht, key)
  IN  /\ ht' = Reset(got.table)
      /\ answer' = IF got.table.last_error = HT_NOTFOUND THEN Unknown
                                                         ELSE got.value

\* declare(), of a user symbol
Declare(name) ==
  /\ Running
  /\ Push([key |-> UserKey(name), of |-> name])
  /\ asked' = name
  /\ UNCHANGED <<counters, freed>>

\* symbol_new_temp() and the push of the result
DeclareTemp ==
  /\ Running
  /\ temps_count < MaxGenerated
  /\ Push([key |-> TempKey(temps_count), of |-> NULL])
  /\ temps_count' = temps_count + 1
  /\ asked' = NULL
  /\ UNCHANGED <<constants_count, freed>>

\* symbol_new_const() and the push of the result
DeclareConstant ==
  /\ Running
  /\ constants_count < MaxGenerated
  /\ Push([key |-> ConstKey(constants_count), of |-> NULL])
  /\ constants_count' = constants_count + 1
  /\ asked' = NULL
  /\ UNCHANGED <<temps_count, freed>>

\* symbol_table_lookup_user()
LookupUser(name) ==
  /\ Running
  /\ Lookup(UserKey(name))
  /\ asked' = name
  /\ UNCHANGED <<counters, freed, pushed>>

\* ht_free(), at the end of main()
Free ==
  /\ Running
  /\ Listed # <<>>
  /\ freed' = [k \in DOMAIN Listed |-> Listed[k].value]
  /\ UNCHANGED <<ht, counters, answer, asked, pushed>>

Next ==
  \/ \E name \in Names : Declare(name) \/ LookupUser(name)
  \/ DeclareTemp
  \/ DeclareConstant
  \/ Free

Spec == Init /\ [][Next]_vars

-----------------------------------------------------------------------------
(***************************************************************************)
(* Properties.                                                             *)
(***************************************************************************)

Items == [key : Keys, value : Symbols]

\* The types of hashtable_t and of the counters (hash_table.h:13-34), every
\* item in the bucket of its key, and no error waiting for the next call.
TypeOK ==
  /\ \A b \in Buckets : /\ ht.buckets[b] \in Seq(Items)
                        /\ \A k \in DOMAIN ht.buckets[b] :
                             DoHash[ht.buckets[b][k].key] = b
  /\ ht.last_error = HT_OK
  /\ {temps_count, constants_count} \subseteq 0 .. MaxGenerated
  /\ freed \in Seq(Symbols)
  /\ answer \in Symbols \cup {Nothing, AlreadyDefined, Unknown}
  /\ asked \in Names \cup {NULL}
  /\ pushed \subseteq Symbols

Contents ==
  [key \in {k \in Keys : Has(ht.buckets[DoHash[k]], k)} |->
     Found(ht.buckets[DoHash[key]], key).value]

Abstract == INSTANCE SymbolMap WITH map <- Contents

\* The chained buckets, the flag last_error and the way the calls read and
\* reset it together are a map that refuses a second push and never loses or
\* changes what it has (hash_table.c:34-70, 103-107, symbol_table.c:6-22).
ImplementsMap == Abstract!Spec

\* The loops over the table meet every symbol that was ever pushed, and none
\* else, and meet it once, whatever the buckets: the passes that follow would
\* use fields no one has set of a symbol they missed (hash_table.c:72-91,
\* symbol_table.h:16-19).
EverySymbolListedOnce ==
  /\ {Listed[k].value : k \in DOMAIN Listed} = pushed
  /\ \A k, l \in DOMAIN Listed :
       Listed[k].key = Listed[l].key \/ Listed[k].value = Listed[l].value
         => k = l

\* A temporary or a constant is never already defined, and the answer for an
\* identifier is about one with the same first 30 characters: it is refused or
\* found when such a one was declared, unknown when none was (symbol.c:20-39).
OnlyCutNamesConfused ==
  LET alike == {k \in DOMAIN Listed :
                  /\ {Listed[k].value.of, asked} \subseteq Names
                  /\ Cut[Listed[k].value.of] = Cut[asked]}
  IN  /\ answer = AlreadyDefined => alike # {}
      /\ answer = Unknown => alike = {}
      /\ answer \in Symbols /\ asked # NULL =>
           \E k \in alike : Listed[k].value = answer
=============================================================================
