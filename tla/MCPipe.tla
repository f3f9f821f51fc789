------------------------------- MODULE MCPipe -------------------------------
(***************************************************************************)
(* Small instances of Pipe for TLC.                                        *)
(***************************************************************************)
EXTENDS Pipe, TLC

CONSTANTS r1, r2, w1, w2, x, y

Symmetry == Permutations(Readers) \cup Permutations(Writers) \cup Permutations(Bytes)
=============================================================================
