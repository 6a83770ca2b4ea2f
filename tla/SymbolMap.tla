----------------------------- MODULE SymbolMap ------------------------------
(***************************************************************************)
(* What the parser relies on the symbol table for: a map from keys to      *)
(* symbols that only grows.  A key that is in it cannot be pushed again,   *)
(* and a lookup gives the symbol that was pushed.  Either failure ends the *)
(* program.                                                                *)
(***************************************************************************)
CONSTANTS Keys, Symbols, AlreadyDefined, Unknown, Nothing

VARIABLES map,    \* a partial function from Keys to Symbols
          answer  \* what the last call returned, or the error it ended with

vars == <<map, answer>>

Running == answer \notin {AlreadyDefined, Unknown}

Init == map = <<>> /\ answer = Nothing

Push(key, s) ==
  /\ Running
  /\ IF key \in DOMAIN map
       THEN map' = map /\ answer' = AlreadyDefined
       ELSE /\ map' = [k \in DOMAIN map \cup {key} |->
                         IF k = key THEN s ELSE map[k]]
            /\ answer' = s

Lookup(key) ==
  /\ Running
  /\ answer' = IF key \in DOMAIN map THEN map[key] ELSE Unknown
  /\ map' = map

Next == \E key \in Keys : Lookup(key) \/ \E s \in Symbols : Push(key, s)

Spec == Init /\ [][Next]_vars
=============================================================================
