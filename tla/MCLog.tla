------------------------------- MODULE MCLog -------------------------------
(***************************************************************************)
(* Small instances of Log for TLC.                                         *)
(***************************************************************************)
EXTENDS Log, TLC

CONSTANTS o1, o2, o3, b1, b2, b3, v1, v2

\* Processes, blocks and contents are interchangeable.
Symmetry == Permutations(Ops) \cup Permutations(Blocks) \cup Permutations(Vals)
=============================================================================
