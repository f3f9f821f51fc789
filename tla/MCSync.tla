------------------------------- MODULE MCSync -------------------------------
(*****************************************************************************)
(* Small instances of the pipe, the process table, the heap and the buffer   *)
(* cache, with the same model values for their actors.                       *)
(*****************************************************************************)
EXTENDS Sync, TLC

CONSTANTS a1, a2, b1, b2,       \* processes, CPUs
          x, y, z,              \* bytes; block numbers
          d0, d1,               \* contents of a block
          nobody

\* No part tells these actors, or these bytes and blocks, from each other.
Symmetry == Permutations({a1, a2}) \cup Permutations({b1, b2}) \cup Permutations({x, y})
=============================================================================
