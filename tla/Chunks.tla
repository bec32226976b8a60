------------------------------- MODULE Chunks -------------------------------
(***************************************************************************)
(* What chunk_ranges of src/execution/mod.rs returns, in closed form: the  *)
(* half-open ranges of chunk_size rows that cover 0..row_count-1 in order, *)
(* the last one cut at row_count.  Module ChunkRanges runs the loop and    *)
(* shows that it computes this; ExecutionEngine uses it.                   *)
(***************************************************************************)
EXTENDS Integers

DivCeil(n, size) == (n + size - 1) \div size

Least(a, b) == IF a <= b THEN a ELSE b

\* Mutant: chunks that share their border row.
SharedBorder(n, size, i) ==
  [start |-> i * size, end |-> Least((i + 1) * size + 1, n)]

ChunkRange(n, size, i) ==
  [start |-> i * size, end |-> Least((i + 1) * size, n)]
=============================================================================
