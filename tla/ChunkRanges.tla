---------------------------- MODULE ChunkRanges ----------------------------
(***************************************************************************)
(* src/execution/mod.rs: the loop of chunk_ranges, one iteration per step, *)
(* in usize arithmetic; it computes what module Chunks says.  chunk_size   *)
(* comes from the caller and may be any usize but 0.  A dataset is a Vec   *)
(* of Vecs, so it has far fewer rows than half the usize range.            *)
(***************************************************************************)
EXTENDS Chunks, Sequences

CONSTANTS
  Word,        \* usize arithmetic is modulo Word
  MaxRows      \* bound on the rows of a dataset

ASSUME WordAssumption == Word \in Nat \ {0} /\ MaxRows \in Nat /\ 2 * MaxRows < Word

VARIABLES
  row_count,   \* dataset.row_count()
  chunk_size,  \* ExecutionOptions.chunk_size
  start,       \* the local of the loop
  ranges,      \* `out`, the ranges pushed so far
  returned     \* whether chunk_ranges has returned

chunkVars == <<row_count, chunk_size, start, ranges, returned>>

ChunkInit ==
  /\ row_count \in 0..MaxRows
  /\ chunk_size \in 1..(Word - 1)
  /\ start = 0 /\ ranges = <<>> /\ returned = FALSE

\* Mutant: the end of a chunk is not cut at row_count.
Uncut(s) == (s + chunk_size) % Word

EndOf(s) == Least((s + chunk_size) % Word, row_count)

\* `while start < row_count`: push, and go on from the end of the range.
PushRange ==
  /\ ~returned /\ start < row_count
  /\ ranges' = Append(ranges, [start |-> start, end |-> EndOf(start)])
  /\ start' = EndOf(start)
  /\ UNCHANGED <<row_count, chunk_size, returned>>

ReturnRanges ==
  /\ ~returned /\ start >= row_count
  /\ returned' = TRUE
  /\ UNCHANGED <<row_count, chunk_size, start, ranges>>

ChunkNext == PushRange \/ ReturnRanges

ChunkSpec == ChunkInit /\ [][ChunkNext]_chunkVars
-----------------------------------------------------------------------------
ChunkTypeOK ==
  /\ row_count \in 0..MaxRows /\ chunk_size \in 1..(Word - 1)
  /\ start \in 0..row_count
  /\ ranges \in Seq([start: Nat, end: Nat])
  /\ returned \in {TRUE, FALSE}

\* Between two iterations: whole chunks so far, or the whole dataset.
AtHead ==
  /\ start = Least(Len(ranges) * chunk_size, row_count)
  /\ Len(ranges) > 0 => (Len(ranges) - 1) * chunk_size < row_count
  /\ returned => start = row_count

Pushed == \A i \in 1..Len(ranges) :
  ranges[i] = ChunkRange(row_count, chunk_size, i - 1)

IInv == ChunkTypeOK /\ AtHead /\ Pushed

(***************************************************************************)
(* chunk_ranges returns the chunks of the closed form, as many as its      *)
(* with_capacity reserves (div_ceil), for every chunk_size, however close  *)
(* to the end of usize: `start + chunk_size` does not wrap, since past the *)
(* first chunk it is less than twice the rows.                             *)
(***************************************************************************)
ReturnsTheChunks == returned =>
  /\ Len(ranges) = DivCeil(row_count, chunk_size)
  /\ Pushed
=============================================================================
