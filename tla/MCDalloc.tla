----------------------------- MODULE MCDalloc -----------------------------
(***************************************************************************)
(* Small instances of Dalloc for TLC.                                      *)
(***************************************************************************)
EXTENDS Dalloc

CONSTANTS t1, t2
=============================================================================
