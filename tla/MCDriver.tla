------------------------------ MODULE MCDriver ------------------------------
(***************************************************************************)
(* A small instance of Driver: a source, a name that is free, a name that  *)
(* cannot be opened.                                                       *)
(***************************************************************************)
EXTENDS Driver

CONSTANTS source, free, locked

MCFiles == {source, free, locked}
MCSources == {source}
MCLocked == {locked}
=============================================================================
