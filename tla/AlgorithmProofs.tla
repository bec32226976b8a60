-------------------------- MODULE AlgorithmProofs --------------------------
(***************************************************************************)
(* Proofs about five algorithms.  ChunkRanges: the loop of chunk_ranges    *)
(* returns the chunks of module Chunks, for every usize range and every    *)
(* chunk_size.  Reductions: one pass over the rows knows the best row of   *)
(* every column.  Interchange: the rows of a dataset come through Python   *)
(* and Arrow as they went in.  TransformPlan: a specification that         *)
(* succeeds did all that it says, and nothing else.  DataQuality: the      *)
(* verdicts, quantiles and outliers of a report are those of its cells.    *)
(***************************************************************************)
EXTENDS ChunkRanges, Reductions, Interchange, TransformPlan, DataQuality, Induction

\* The products of the loop, said of plain numbers: (k + 1) chunks are k
\* chunks and one more, and a chunk is no longer than k >= 1 of them.
LEMMA NextMultiple ==
  ASSUME NEW k \in Nat, NEW s \in Nat \ {0}
  PROVE  /\ (k + 1) * s = k * s + s
         /\ k * s \in Nat
         /\ k > 0 => s <= k * s
         /\ k > 0 => (k - 1) * s = k * s - s
<1>1. (k + 1) * s = k * s + s /\ k * s \in Nat
  BY SMT
<1>2. ASSUME k > 0 PROVE (k - 1) * s = k * s - s /\ s <= k * s
  <2>1. (k - 1) * s = k * s - s
    BY SMT
  <2>2. k - 1 \in Nat /\ (k - 1) * s >= 0
    BY <1>2, SMT
  <2> QED
    BY <1>1, <2>1, <2>2, SMT
<1> QED
  BY <1>1, <1>2

\* Division rounds down: the quotient is the only q with a remainder below s.
LEMMA QuotientIs ==
  ASSUME NEW a \in Nat, NEW s \in Nat \ {0}, NEW q \in Nat,
         q * s <= a, a < q * s + s
  PROVE  a \div s = q
<1> DEFINE d == a \div s
<1>1. d \in Int /\ d * s <= a /\ a < d * s + s
  BY SMT
<1>2. ASSUME d < q PROVE FALSE
  <2>1. (d + 1) * s <= q * s
    BY <1>1, <1>2, SMT
  <2> QED
    BY <1>1, <2>1, SMT
<1>3. ASSUME q < d PROVE FALSE
  <2>1. (q + 1) * s <= d * s
    BY <1>1, <1>3, SMT
  <2> QED
    BY <1>1, <2>1, SMT
<1> QED
  BY <1>1, <1>2, <1>3, SMT

\* One iteration: below row_count, the end of the chunk does not wrap.
LEMMA EndIsTheNextMultiple ==
  ASSUME IInv, start < row_count
  PROVE  /\ start = Len(ranges) * chunk_size
         /\ EndOf(start) = Least((Len(ranges) + 1) * chunk_size, row_count)
         /\ EndOf(start) \in 0..row_count
<1> DEFINE k == Len(ranges)
<1>0. /\ k \in Nat /\ chunk_size \in Nat \ {0} /\ row_count \in Nat
      /\ chunk_size < Word /\ row_count <= MaxRows /\ start \in Nat
  BY WordAssumption DEF IInv, ChunkTypeOK
<1>1. /\ (k + 1) * chunk_size = k * chunk_size + chunk_size
      /\ k * chunk_size \in Nat
      /\ k > 0 => chunk_size <= k * chunk_size
  BY <1>0, NextMultiple
<1>2. start = k * chunk_size
  <2>1. start = Least(k * chunk_size, row_count)
    BY DEF IInv, AtHead
  <2> QED
    BY <1>0, <1>1, <2>1 DEF Least
<1>3. k = 0 => start = 0
  BY <1>0, <1>2
<1>4. start + chunk_size < Word
  BY <1>0, <1>1, <1>2, <1>3, WordAssumption
<1>5. (start + chunk_size) % Word = start + chunk_size
  BY <1>0, <1>4, WordAssumption
<1>6. EndOf(start) = Least((k + 1) * chunk_size, row_count)
  BY <1>1, <1>2, <1>5 DEF EndOf
<1> HIDE DEF k
<1>7. EndOf(start) \in 0..row_count
  BY <1>0, <1>1, <1>6 DEF Least
<1> QED
  BY <1>2, <1>6, <1>7 DEF k

THEOREM Invariance == ChunkSpec => []IInv
<1>1. ChunkInit => IInv
  <2> SUFFICES ASSUME ChunkInit PROVE IInv
    OBVIOUS
  <2>1. ChunkTypeOK
    <3>1. row_count \in 0..MaxRows /\ start \in 0..row_count
      BY WordAssumption DEF ChunkInit
    <3>2. ranges \in Seq([start: Nat, end: Nat])
      BY DEF ChunkInit
    <3>3. returned \in {TRUE, FALSE}
      BY Zenon DEF ChunkInit
    <3> QED
      BY <3>1, <3>2, <3>3 DEF ChunkInit, ChunkTypeOK
  <2>2. Len(ranges) = 0
    BY DEF ChunkInit
  <2>3. AtHead /\ Pushed
    BY <2>1, <2>2, WordAssumption DEF ChunkInit, ChunkTypeOK, AtHead, Pushed, Least
  <2> QED
    BY <2>1, <2>3 DEF IInv
<1>2. IInv /\ [ChunkNext]_chunkVars => IInv'
  <2> SUFFICES ASSUME IInv, [ChunkNext]_chunkVars PROVE IInv'
    OBVIOUS
  <2> USE DEF IInv
  <2>1. CASE PushRange
    <3> DEFINE k == Len(ranges)
               piece == [start |-> start, end |-> EndOf(start)]
    <3>1. /\ k \in Nat /\ chunk_size \in Nat \ {0} /\ row_count \in Nat
          /\ start \in Nat /\ start < row_count
      BY <2>1, WordAssumption DEF PushRange, ChunkTypeOK
    <3>2. /\ start = k * chunk_size
          /\ EndOf(start) = Least((k + 1) * chunk_size, row_count)
          /\ EndOf(start) \in 0..row_count
      BY <3>1, EndIsTheNextMultiple
    <3>3. /\ ranges' = Append(ranges, piece)
          /\ start' = EndOf(start)
          /\ row_count' = row_count /\ chunk_size' = chunk_size
          /\ returned' = FALSE
      BY <2>1 DEF PushRange, ChunkTypeOK
    <3>4. /\ ranges' \in Seq([start: Nat, end: Nat])
          /\ Len(ranges') = k + 1
          /\ \A i \in 1..k : ranges'[i] = ranges[i]
          /\ ranges'[k + 1] = piece
      <4>1. ranges \in Seq([start: Nat, end: Nat])
        BY DEF ChunkTypeOK
      <4>2. piece \in [start: Nat, end: Nat]
        BY <3>1, <3>2
      <4> QED
        BY <3>3, <4>1, <4>2
    <3>5. ChunkTypeOK'
      BY <3>2, <3>3, <3>4 DEF ChunkTypeOK
    <3>6. AtHead'
      <4>1. start' = Least((k + 1) * chunk_size, row_count)
        BY <3>2, <3>3
      <4>2. (k + 1) - 1 = k /\ k * chunk_size < row_count
        BY <3>1, <3>2
      <4> QED
        BY <3>3, <3>4, <4>1, <4>2 DEF AtHead
    <3>7. Pushed'
      <4> SUFFICES ASSUME NEW i \in 1..(k + 1)
                   PROVE  ranges'[i] = ChunkRange(row_count, chunk_size, i - 1)
        BY <3>3, <3>4 DEF Pushed
      <4>1. CASE i \in 1..k
        BY <3>4, <4>1 DEF Pushed
      <4>2. CASE i = k + 1
        <5>1. i - 1 = k
          BY <3>1, <4>2
        <5>2. ChunkRange(row_count, chunk_size, k) = piece
          BY <3>2 DEF ChunkRange
        <5> QED
          BY <3>4, <4>2, <5>1, <5>2
      <4> QED
        BY <3>1, <4>1, <4>2
    <3> QED
      BY <3>5, <3>6, <3>7
  <2>2. CASE ReturnRanges
    <3>1. start = row_count
      BY <2>2 DEF ReturnRanges, ChunkTypeOK
    <3> QED
      BY <2>2, <3>1 DEF ReturnRanges, ChunkTypeOK, AtHead, Pushed
  <2>3. CASE UNCHANGED chunkVars
    BY <2>3 DEF chunkVars, ChunkTypeOK, AtHead, Pushed
  <2> QED
    BY <2>1, <2>2, <2>3 DEF ChunkNext
<1> QED
  BY <1>1, <1>2, PTL DEF ChunkSpec

(***************************************************************************)
(* chunk_ranges stays inside the dataset: every bound it holds is a row    *)
(* number of the dataset, or its length.                                   *)
(***************************************************************************)
THEOREM TypeCorrect == ChunkSpec => []ChunkTypeOK
<1>1. IInv => ChunkTypeOK
  BY DEF IInv
<1> QED
  BY <1>1, Invariance, PTL

(***************************************************************************)
(* What chunk_ranges returns, for every row count, chunk size and width.   *)
(***************************************************************************)
THEOREM LoopIsClosedForm == ChunkSpec => []ReturnsTheChunks
<1>1. IInv => ReturnsTheChunks
  <2> SUFFICES ASSUME IInv, returned
               PROVE  Len(ranges) = DivCeil(row_count, chunk_size)
    BY DEF IInv, ReturnsTheChunks
  <2> DEFINE k == Len(ranges)
  <2>1. /\ k \in Nat /\ chunk_size \in Nat \ {0} /\ row_count \in Nat
        /\ row_count = Least(k * chunk_size, row_count)
        /\ k > 0 => (k - 1) * chunk_size < row_count
    BY WordAssumption DEF IInv, ChunkTypeOK, AtHead
  <2>2. /\ k * chunk_size \in Nat
        /\ k > 0 => (k - 1) * chunk_size = k * chunk_size - chunk_size
    BY <2>1, NextMultiple
  <2>3. row_count <= k * chunk_size
    BY <2>1, <2>2 DEF Least
  <2>4. k = 0 => k * chunk_size = 0
    BY <2>1
  <2> HIDE DEF k
  <2>5. LET a == row_count + chunk_size - 1
        IN  /\ a \in Nat /\ k * chunk_size <= a
            /\ a < k * chunk_size + chunk_size
    BY <2>1, <2>2, <2>3, <2>4
  <2>6. (row_count + chunk_size - 1) \div chunk_size = k
    BY <2>1, <2>5, QuotientIs
  <2> QED
    BY <2>6 DEF DivCeil, k
<1> QED
  BY <1>1, Invariance, PTL
-----------------------------------------------------------------------------
IsArg == op \in {"ArgMax", "ArgMin"}

\* What a loop of arg_max_row or arg_min_row keeps true.
ArgTyped ==
  /\ op \in Ops
  /\ column \in [type: DataTypes \cup {"none"}, cells: Seq(Cell)]
  /\ row \in 0..Len(column.cells)
  /\ IsArg => acc = None \/ \E b \in [row: Nat, cell: Cell] : acc = <<b>>

ArgInv == ArgTyped /\ FirstBestRow

\* A cell beats another of its type exactly if it is better.
LEMMA BeatsIsBetter ==
  ASSUME NEW a \in Cell, NEW b \in Cell
  PROVE  Beats(a, b) <=> a.type = b.type /\ Better(a, b)
BY DEF Beats, Better

\* A step of another reduction's loop is no step of this one.
LEMMA OtherSteps ==
  ASSUME ArgTyped, [ReduceNext]_reduceVars, ~ArgRow, IsArg
  PROVE  UNCHANGED <<op, column, row, acc>>
<1>1. CASE AnswerAtOnce
  BY <1>1 DEF AnswerAtOnce
<1>2. CASE SumRow \/ ExtremeRow \/ StatsRow \/ DistinctRow \/ MedianRow \/ CountRow
  BY <1>2 DEF IsArg, SumRow, ExtremeRow, StatsRow, DistinctRow, MedianRow,
              CountRow, ReadRow
<1>3. CASE Finish
  BY <1>3 DEF Finish
<1>4. CASE UNCHANGED reduceVars
  BY <1>4 DEF reduceVars
<1> QED
  BY <1>1, <1>2, <1>3, <1>4 DEF ReduceNext

\* One row: the invariant after ArgRow, whose cell is nothing new, the first
\* value, a better one, or one that does not beat the best.
LEMMA RowKeepsBest ==
  ASSUME ArgInv, ArgRow
  PROVE  ArgInv'
<1> DEFINE h == column.cells[row + 1]
           old == acc[1]
           new == <<[row |-> row + 1, cell |-> h]>>
<1>1. /\ IsArg /\ op' = op /\ column' = column /\ row' = row + 1
      /\ row < Len(column.cells) /\ row \in Nat
      /\ column.cells \in Seq(Cell)
  BY DEF ArgRow, ReadRow, IsArg, ArgInv, ArgTyped
<1>2. h \in Cell /\ row + 1 \in 1..Len(column.cells)
  BY <1>1
<1>3. acc # None => old \in [row: Nat, cell: Cell] /\ acc = <<old>>
  BY <1>1 DEF ArgInv, ArgTyped
<1>4. acc' = IF h.type # "Null" /\ (acc # None => Beats(h, old.cell))
             THEN new ELSE acc
  BY DEF ArgRow, Here
<1>5. /\ [row |-> row + 1, cell |-> h] \in [row: Nat, cell: Cell]
      /\ new # None /\ new[1].row = row + 1 /\ new[1].cell = h
  BY <1>1, <1>2 DEF None
<1>6. ArgTyped'
  <2>1. acc' = None \/ \E b \in [row: Nat, cell: Cell] : acc' = <<b>>
    BY <1>1, <1>3, <1>4, <1>5 DEF ArgInv, ArgTyped
  <2> QED
    BY <1>1, <1>2, <2>1 DEF ArgInv, ArgTyped, IsArg
<1>7. \A i \in 1..(row + 1) : i \in 1..row \/ i = row + 1
  BY <1>1
<1>8. \A i \in 1..(row + 1) : column.cells[i] \in Cell
  BY <1>1
<1>9. acc # None => Beats(h, old.cell) <=> (h.type = old.cell.type /\ Better(h, old.cell))
  BY <1>2, <1>3, BeatsIsBetter
<1>10. IF acc = None THEN AllNull(row) ELSE IsFirstBest(old, row)
  BY <1>1 DEF ArgInv, FirstBestRow, IsArg
<1> HIDE DEF h, old, new
<1>11. SUFFICES IF acc' = None THEN AllNull(row + 1)
                ELSE IsFirstBest(acc'[1], row + 1)
  BY <1>1, <1>6 DEF ArgInv, FirstBestRow, AllNull, IsFirstBest, Better
<1>12. ASSUME h.type = "Null" PROVE h = column.cells[row + 1] /\ acc' = acc
  BY <1>4, <1>12 DEF h
<1>13. CASE acc = None
  <2>1. CASE h.type = "Null"
    BY <1>1, <1>7, <1>10, <1>12, <1>13, <2>1 DEF AllNull, h
  <2>2. CASE h.type # "Null"
    <3>1. acc' = new
      BY <1>4, <1>13, <2>2
    <3>2. AllNull(row) /\ h.n \in Int
      BY <1>2, <1>10, <1>13 DEF Cell
    <3>3. column.cells[row + 1].type = h.type /\ AllNull((row + 1) - 1)
      BY <1>1, <3>2 DEF h
    <3>4. ASSUME NEW i \in 1..(row + 1), column.cells[i].type = h.type
          PROVE  ~Better(column.cells[i], h) /\ ~(i < row + 1)
      BY <1>1, <1>7, <2>2, <3>2, <3>4 DEF AllNull, Better, h
    <3>5. IsFirstBest([row |-> row + 1, cell |-> h], row + 1)
      BY <1>1, <1>2, <2>2, <3>3, <3>4 DEF IsFirstBest, h
    <3> QED
      BY <1>5, <3>1, <3>5 DEF new
  <2> QED
    BY <2>1, <2>2
<1>14. CASE acc # None /\ h.type # "Null" /\ Beats(h, old.cell)
  <2>1. acc' = new
    BY <1>4, <1>14
  <2>2. h.type = old.cell.type /\ Better(h, old.cell) /\ IsFirstBest(old, row)
    BY <1>9, <1>10, <1>14
  <2>3. PICK f \in 1..old.row :
          column.cells[f].type = h.type /\ AllNull(f - 1)
    BY <2>2 DEF IsFirstBest
  <2>4. f \in 1..(row + 1)
    BY <1>1, <2>2 DEF IsFirstBest
  <2>5. ASSUME NEW i \in 1..(row + 1), column.cells[i].type = h.type
        PROVE  /\ ~Better(column.cells[i], h)
               /\ i < row + 1 => Better(h, column.cells[i])
    <3>1. h.n \in Int /\ old.cell.n \in Int /\ column.cells[i].n \in Int
      BY <1>2, <1>3, <1>8, <1>14 DEF Cell
    <3>2. CASE i \in 1..row
      <4>1. ~Better(column.cells[i], old.cell)
        BY <2>2, <2>5, <3>2 DEF IsFirstBest
      <4> QED
        BY <2>2, <3>1, <4>1 DEF Better
    <3>3. CASE i = row + 1
      BY <1>1, <3>1, <3>3 DEF Better, h
    <3> QED
      BY <1>7, <3>2, <3>3
  <2>6. IsFirstBest([row |-> row + 1, cell |-> h], row + 1)
    BY <1>1, <1>2, <1>14, <2>3, <2>4, <2>5 DEF IsFirstBest, h
  <2> QED
    BY <1>5, <2>1, <2>6 DEF new
<1>15. CASE acc # None /\ (h.type = "Null" \/ ~Beats(h, old.cell))
  <2>1. acc' = acc
    BY <1>4, <1>15
  <2>2. IsFirstBest(old, row + 1)
    BY <1>1, <1>2, <1>3, <1>7, <1>8, <1>9, <1>10, <1>15
    DEF IsFirstBest, AllNull, h
  <2> QED
    BY <1>15, <2>1, <2>2 DEF old
<1> QED
  BY <1>13, <1>14, <1>15

\* arg_max_row and arg_min_row, for every column, whatever types its cells
\* have: the best row so far is the first of the best.
THEOREM ArgIsFirstBest == ReduceSpec => []FirstBestRow
<1>1. ReduceInit => ArgInv
  <2> SUFFICES ASSUME ReduceInit PROVE ArgInv
    OBVIOUS
  <2>1. /\ op \in Ops /\ row = 0
        /\ IsArg => acc = None
        /\ column \in [type: DataTypes \cup {"none"}, cells: Seq(Cell)]
    BY ColumnsAssumption DEF ReduceInit, Start, IsArg
  <2>2. row \in 0..Len(column.cells)
    BY <2>1
  <2>3. AllNull(row)
    BY <2>1 DEF AllNull
  <2>4. FirstBestRow
    BY <2>1, <2>3 DEF FirstBestRow, IsArg
  <2> QED
    BY <2>1, <2>2, <2>4 DEF ArgInv, ArgTyped
<1>2. ArgInv /\ [ReduceNext]_reduceVars => ArgInv'
  <2> SUFFICES ASSUME ArgInv, [ReduceNext]_reduceVars PROVE ArgInv'
    OBVIOUS
  <2>1. CASE ArgRow
    BY <2>1, RowKeepsBest
  <2>2. CASE ~ArgRow /\ IsArg
    <3>1. UNCHANGED <<op, column, row, acc>>
      BY <2>2, OtherSteps DEF ArgInv
    <3> QED
      BY <3>1 DEF ArgInv, ArgTyped, FirstBestRow, AllNull, IsFirstBest, Better, IsArg
  <2>3. CASE ~IsArg
    <3>1. UNCHANGED <<op, column>> /\ row' \in {row, row + 1}
          /\ row' \in 0..Len(column.cells)
      BY <2>3 DEF ArgInv, ArgTyped, ReduceNext, reduceVars, AnswerAtOnce, Finish,
         SumRow, ExtremeRow, StatsRow, DistinctRow, MedianRow, ArgRow, CountRow,
         ReadRow
    <3> QED
      BY <2>3, <3>1 DEF ArgInv, ArgTyped, FirstBestRow, IsArg
  <2> QED
    BY <2>1, <2>2, <2>3
<1>3. ArgInv => FirstBestRow
  BY DEF ArgInv
<1> QED
  BY <1>1, <1>2, <1>3, PTL DEF ReduceSpec
-----------------------------------------------------------------------------
(* A trip.                                                                 *)

\* What a cell of a Python row becomes, and the cells of a dataset or a batch.
InLibrary(o) == IF trip.job.enters = "python" THEN value_from_py(o) ELSE o

Reading == {"bool", "int", "float", "big int", "str"}

\* The first attempt that PyO3 grants.
LEMMA AttemptIs ==
  ASSUME NEW kind
  PROVE  /\ kind = "bool" => Attempt(kind) = 1
         /\ kind = "int" => Attempt(kind) = 2
         /\ (kind = "float" \/ kind = "big int") => Attempt(kind) = 3
         /\ kind = "str" => Attempt(kind) = 4
         /\ kind \notin Reading => Attempt(kind) = 0
<1> DEFINE I == {i \in 1..Len(Attempts) : Attempts[i] \in ReadsAs(kind)}
<1>1. Attempt(kind) = IF I # {} THEN Min(I) ELSE 0
  BY DEF Attempt, SelectInSeq
<1>2. /\ I = {i \in 1..4 : Attempts[i] \in ReadsAs(kind)}
      /\ Attempts[1] = "Bool" /\ Attempts[2] = "Int64" /\ Attempts[3] = "Float64" /\ Attempts[4] = "Utf8"
  BY DEF Attempts
<1>3. I \in SUBSET (1..4)
  BY <1>2
<1>a. /\ 1 \in I <=> "Bool" \in ReadsAs(kind)
      /\ 2 \in I <=> "Int64" \in ReadsAs(kind)
      /\ 3 \in I <=> "Float64" \in ReadsAs(kind)
      /\ 4 \in I <=> "Utf8" \in ReadsAs(kind)
  BY <1>2
<1> HIDE DEF I
<1>b. /\ kind = "bool" => ReadsAs(kind) = {"Bool", "Int64", "Float64"}
      /\ kind = "int" => ReadsAs(kind) = {"Int64", "Float64"}
      /\ (kind = "float" \/ kind = "big int") => ReadsAs(kind) = {"Float64"}
      /\ kind = "str" => ReadsAs(kind) = {"Utf8"}
      /\ kind \notin Reading => ReadsAs(kind) = {}
  BY DEF ReadsAs, Reading
<1>4. /\ kind = "bool" => 1 \in I
      /\ kind = "int" => 2 \in I /\ 1 \notin I
      /\ (kind = "float" \/ kind = "big int") => 3 \in I /\ 1 \notin I /\ 2 \notin I
      /\ kind = "str" => 4 \in I /\ 1 \notin I /\ 2 \notin I /\ 3 \notin I
      /\ kind \notin Reading => 1 \notin I /\ 2 \notin I /\ 3 \notin I /\ 4 \notin I
  BY <1>a, <1>b
<1>5. I # {} => Min(I) \in I /\ \A x \in I : Min(I) <= x
  BY <1>3, LeastIs
<1>6. \A i \in I : i = 1 \/ i = 2 \/ i = 3 \/ i = 4
  BY <1>3
<1>7. kind \notin Reading => I = {}
  BY <1>4, <1>6
<1>8. kind = "bool" => Min(I) = 1
  BY <1>4, <1>5, <1>6
<1>9. kind = "int" => Min(I) = 2
  BY <1>4, <1>5, <1>6
<1>10. ASSUME kind = "float" \/ kind = "big int" PROVE Min(I) = 3
  <2>1. 3 \in I /\ 1 \notin I /\ 2 \notin I
    BY <1>4, <1>10
  <2>2. Min(I) \in I /\ Min(I) <= 3
    BY <1>5, <2>1
  <2> QED
    BY <1>6, <2>1, <2>2
<1>11. kind = "str" => Min(I) = 4
  BY <1>4, <1>5, <1>6
<1> QED
  BY <1>1, <1>4, <1>7, <1>8, <1>9, <1>10, <1>11

\* There and back: an int past an i64 is a float of its size, all else is itself.
LEMMA ThereAndBack ==
  ASSUME NEW o \in PyObjects, IsValue(o)
  PROVE  /\ value_from_py(o) \in LibraryCells
         /\ value_to_py(value_from_py(o)) = IF o[1] = "big int" THEN <<"float", 0>> ELSE o
<1> DEFINE kind == o[1]
           id == o[2]
<1>1. o = <<kind, id>> /\ id \in Nat /\ (kind = "None" => id = 0)
  BY DEF PyObjects
<1>2. kind \in Reading \/ kind = "None"
  BY AttemptIs DEF IsValue
<1>3. /\ value_from_py(o) = IF kind = "None" THEN <<"Null", 0>>
                            ELSE <<Attempts[Attempt(kind)], IF kind = "big int" THEN 0 ELSE id>>
      /\ Attempts[1] = "Bool" /\ Attempts[2] = "Int64" /\ Attempts[3] = "Float64" /\ Attempts[4] = "Utf8"
  BY DEF value_from_py, Attempts
<1> HIDE DEF kind, id
<1>4. /\ kind = "None" => value_from_py(o) = <<"Null", 0>>
      /\ kind = "bool" => value_from_py(o) = <<"Bool", id>>
      /\ kind = "int" => value_from_py(o) = <<"Int64", id>>
      /\ kind = "float" => value_from_py(o) = <<"Float64", id>>
      /\ kind = "big int" => value_from_py(o) = <<"Float64", 0>>
      /\ kind = "str" => value_from_py(o) = <<"Utf8", id>>
  BY <1>3, AttemptIs
<1>5. value_from_py(o) \in LibraryCells
  <2>1. \A i \in Nat : \A t \in {"Null", "Bool", "Int64", "Float64", "Utf8"} : <<t, i>> \in LibraryCells
    BY DEF LibraryCells, LibraryTypes
  <2>2. \/ kind = "None" \/ kind = "bool" \/ kind = "int" \/ kind = "float" \/ kind = "big int" \/ kind = "str"
    BY <1>2 DEF Reading
  <2>3. 0 \in Nat
    OBVIOUS
  <2> QED
    BY <1>1, <1>4, <2>1, <2>2, <2>3
<1>6. \A i : /\ value_to_py(<<"Null", i>>) = <<"None", i>>
             /\ value_to_py(<<"Bool", i>>) = <<"bool", i>>
             /\ value_to_py(<<"Int64", i>>) = <<"int", i>>
             /\ value_to_py(<<"Float64", i>>) = <<"float", i>>
             /\ value_to_py(<<"Utf8", i>>) = <<"str", i>>
  BY DEF value_to_py, PythonKind
<1>7. value_to_py(value_from_py(o)) = IF kind = "big int" THEN <<"float", 0>> ELSE o
  BY <1>1, <1>2, <1>4, <1>6 DEF Reading
<1> QED
  BY <1>5, <1>7 DEF kind

\* An object of the type of its column fits it, and None does.
LEMMA FitsInPython ==
  ASSUME NEW o, NEW type \in LibraryTypes, o[1] \in {"None", PythonType[type]}
  PROVE  IsValue(o) /\ Fits(value_from_py(o), type)
<1> DEFINE kind == o[1]
<1>1. \/ kind = "None" \/ (kind = "int" /\ type = "Int64") \/ (kind = "float" /\ type = "Float64")
      \/ (kind = "bool" /\ type = "Bool") \/ (kind = "str" /\ type = "Utf8")
  BY DEF PythonType, LibraryTypes
<1>2. /\ value_from_py(o)[1] = IF kind = "None" THEN "Null" ELSE Attempts[Attempt(kind)]
      /\ Attempts[1] = "Bool" /\ Attempts[2] = "Int64" /\ Attempts[3] = "Float64" /\ Attempts[4] = "Utf8"
  BY DEF value_from_py, Attempts
<1>3. IsValue(o) <=> kind = "None" \/ Attempt(kind) # 0
  BY DEF IsValue
<1> HIDE DEF kind
<1>4. IsValue(o)
  <2>1. /\ kind = "bool" => Attempt(kind) = 1
        /\ kind = "int" => Attempt(kind) = 2
        /\ kind = "float" => Attempt(kind) = 3
        /\ kind = "str" => Attempt(kind) = 4
    BY AttemptIs
  <2> QED
    BY <1>1, <1>3, <2>1
<1>5. value_from_py(o)[1] = "Null" \/ value_from_py(o)[1] = type
  BY <1>1, <1>2, AttemptIs
<1> QED
  BY <1>4, <1>5 DEF Fits
Phases == {"python", "rust", "arrow", "dataset", "batches", "to read", "read", "returned", "failed"}
Kinds == LibraryTypes \cup {"Null", "None", "int", "float", "bool", "str"}
TripTypeOK ==
  trip \in [job: Trips, at: Phases, fields: Schemas(ArrowTypes), rows: Seq(Seq(Kinds \X Nat)),
            batches: Seq(RecordBatches),
            error: {"none", "ValueError", "ParseError", "Engine", "SchemaMismatch"}]

\* A trip begins where its rows are.
Begins == trip.at \in {"python", "rust", "arrow"} => trip.at = trip.job.enters

\* What dataset_from_rows_py has checked.
Admitted ==
  trip.job.enters = "python" =>
    \A i \in 1..Len(trip.job.rows) :
      /\ Len(trip.job.rows[i]) = Len(trip.job.fields)
      /\ \A j \in 1..Len(trip.job.rows[i]) : IsValue(trip.job.rows[i][j])

DatasetIs == trip.at = "dataset" =>
  /\ trip.job.enters # "arrow" /\ Admitted /\ trip.fields = trip.job.fields
  /\ trip.rows \in Seq(Seq(LibraryCells)) /\ Len(trip.rows) = Len(trip.job.rows)
  /\ \A i \in 1..Len(trip.rows) :
       /\ Len(trip.rows[i]) = Len(trip.job.rows[i])
       /\ \A j \in 1..Len(trip.rows[i]) : trip.rows[i][j] = InLibrary(trip.job.rows[i][j])

\* The batches hold what entered, if they are batches of one schema.
BatchRows == FlattenSeq([b \in 1..Len(trip.batches) |-> trip.batches[b].rows])
Alike == \A b \in 1..Len(trip.batches) : trip.batches[b].fields = trip.batches[1].fields
BatchRow(i) ==
  /\ Len(BatchRows[i]) = Len(Entered.fields)
  /\ \A j \in 1..Len(Entered.fields) : BatchRows[i][j] = InLibrary(CellOf(Entered.rows[i], j))
BatchesAre == trip.at \in {"batches", "to read"} =>
  /\ Admitted
  /\ trip.batches = <<>> => Entered.rows = <<>> /\ Entered.fields = <<>>
  /\ trip.batches # <<>> => trip.batches[1].fields = Entered.fields
  /\ trip.job.enters # "arrow" => Len(trip.batches) = 1
  /\ BatchRows \in Seq(Seq(LibraryCells)) /\ Len(BatchRows) = Len(Entered.rows)
  /\ trip.batches # <<>> /\ Alike => \A i \in 1..Len(BatchRows) : BatchRow(i)

\* The schema that a batch is read under.
FieldsAre == trip.at = "to read" =>
  /\ trip.job.target # <<>> \/ trip.batches = <<>> => trip.fields = trip.job.target
  /\ trip.job.target = <<>> /\ trip.batches # <<>> =>
       /\ Len(trip.fields) = Len(Entered.fields)
       /\ \A k \in 1..Len(trip.fields) :
            /\ trip.fields[k].name = Entered.fields[k].name
            /\ trip.job.enters = "python" => trip.fields[k].type = Entered.fields[k].type

RowRead(i) ==
  /\ Len(trip.rows[i]) = Len(trip.fields)
  /\ \A k \in 1..Len(trip.fields) :
       /\ FirstNamed(trip.fields[k].name) \in 1..Len(Entered.fields)
       /\ trip.rows[i][k] = InLibrary(CellOf(Entered.rows[i], FirstNamed(trip.fields[k].name)))
ReadIs == trip.at = "read" =>
  /\ Admitted
  /\ trip.rows \in Seq(Seq(LibraryCells)) /\ Len(trip.rows) = Len(Entered.rows)
  /\ trip.job.target = <<>> => Len(trip.fields) = Len(Entered.fields)
  /\ \A i \in 1..Len(trip.rows) : RowRead(i)

TripIInv ==
  TripTypeOK /\ Begins /\ DatasetIs /\ BatchesAre /\ FieldsAre /\ ReadIs /\ InterchangeKeepsCells

\* Why a trip that began with Python rows may fail.
Reasons ==
  \/ Entered.fields = <<>>
  \/ \E i \in 1..Len(Entered.rows) :
       \/ Len(Entered.rows[i]) # Len(Entered.fields)
       \/ \E j \in 1..Len(Entered.fields) :
            Entered.rows[i][j][1] \notin {"None", PythonType[Entered.fields[j].type]}
  \/ \E k \in 1..Len(Asked) :
       \/ ~\E j \in 1..Len(Entered.fields) : Entered.fields[j].name = Asked[k].name
       \/ Entered.fields[FirstNamed(Asked[k].name)].type # Asked[k].type

LEMMA SameJob ==
  ASSUME trip'.job = trip.job
  PROVE  /\ Entered' = Entered /\ Asked' = Asked /\ (Reasons <=> Reasons')
         /\ \A name : FirstNamed(name)' = FirstNamed(name)
         /\ \A o : InLibrary(o)' = InLibrary(o)
         /\ \A o : SameInPython(o)' = SameInPython(o)
         /\ Admitted <=> Admitted'
<1>1. Entered' = Entered
  BY DEF Entered
<1>2. Asked' = Asked
  BY <1>1 DEF Asked
<1>3. \A name : FirstNamed(name)' = FirstNamed(name)
  BY <1>1 DEF FirstNamed
<1>4. Reasons <=> Reasons'
  BY <1>1, <1>2, <1>3 DEF Reasons
<1>5. \A o : InLibrary(o)' = InLibrary(o)
  BY DEF InLibrary
<1>6. \A o : SameInPython(o)' = SameInPython(o)
  BY DEF SameInPython
<1>7. Admitted <=> Admitted'
  BY DEF Admitted
<1> QED
  BY <1>1, <1>2, <1>3, <1>4, <1>5, <1>6, <1>7

LEMMA TripFails ==
  ASSUME TripTypeOK, NEW e \in {"ValueError", "ParseError", "Engine", "SchemaMismatch"},
         FailsWith(e), trip.job.enters = "python" => Reasons
  PROVE  TripIInv'
<1>1. /\ trip' = [trip EXCEPT !.at = "failed", !.error = e]
      /\ trip'.job = trip.job /\ trip'.at = "failed"
  BY DEF FailsWith, TripTypeOK
<1>2. TripTypeOK'
  BY <1>1 DEF TripTypeOK, Phases
<1>3. trip'.job.enters = "python" => Reasons'
  BY <1>1, SameJob
<1>4. InterchangeKeepsCells'
  BY <1>1, <1>3 DEF InterchangeKeepsCells, Reasons
<1> QED
  BY <1>1, <1>2, <1>4 DEF TripIInv, Begins, DatasetIs, BatchesAre, FieldsAre, ReadIs

LEMMA CellsAreKinds ==
  ASSUME NEW rows \in Seq(Seq(LibraryCells))
  PROVE  rows \in Seq(Seq(Kinds \X Nat))
<1>1. LibraryCells \subseteq Kinds \X Nat
  BY DEF LibraryCells, Kinds
<1>2. Seq(LibraryCells) \subseteq Seq(Kinds \X Nat)
  BY <1>1, Widened
<1> QED
  BY <1>2, Widened

LEMMA FieldIs ==
  ASSUME NEW types, NEW fields \in Schemas(types), NEW j \in 1..Len(fields)
  PROVE  fields[j].type \in types
<1> DEFINE F == [name: STRING, type: types]
<1>1. fields \in Seq(F)
  BY DEF Schemas
<1> HIDE DEF F
<1>2. fields[j] \in F
  BY <1>1
<1> QED
  BY <1>2 DEF F

\* A sequence of sequences, made line by line.
LEMMA Lines ==
  ASSUME NEW A, NEW n \in Nat, NEW out, out = [i \in 1..n |-> out[i]],
         \A i \in 1..n : out[i] \in A
  PROVE  out \in Seq(A)
OBVIOUS

LEMMA SchemaIsArrows ==
  ASSUME NEW fields \in Schemas(LibraryTypes)
  PROVE  fields \in Schemas(ArrowTypes)
<1> DEFINE F == [name: STRING, type: LibraryTypes]
           G == [name: STRING, type: ArrowTypes]
<1>1. F \subseteq G
  BY DEF ArrowTypes
<1>2. fields \in Seq(F)
  BY DEF Schemas
<1> HIDE DEF F, G
<1>3. fields \in Seq(G)
  BY <1>1, <1>2, Widened
<1> QED
  BY <1>3 DEF Schemas, G

\* What entered, by the way it came.
LEMMA EnteredIs ==
  ASSUME trip.job \in Trips
  PROVE  /\ trip.job.enters \in {"python", "rust", "arrow"}
         /\ trip.job.target \in Schemas(LibraryTypes)
         /\ trip.job.enters # "arrow" =>
              /\ Entered.fields = trip.job.fields /\ Entered.rows = trip.job.rows
              /\ trip.job.fields \in Schemas(LibraryTypes)
         /\ trip.job.enters = "python" => trip.job.rows \in Seq(Seq(PyObjects))
         /\ trip.job.enters = "rust" => trip.job.rows \in Seq(Seq(LibraryCells))
         /\ trip.job.enters = "arrow" => trip.job.rows \in Seq(RecordBatches)
         /\ trip.job.enters = "arrow" => \A b \in 1..Len(trip.job.rows) : RowsFit(trip.job.rows[b])
         /\ trip.job.enters = "arrow" =>
              /\ Entered.fields = IF trip.job.rows = <<>> THEN <<>> ELSE trip.job.rows[1].fields
              /\ Entered.rows = FlattenSeq([b \in 1..Len(trip.job.rows) |-> trip.job.rows[b].rows])
BY TripsAssumption DEF Entered

LEMMA EnteredFields ==
  ASSUME trip.job \in Trips
  PROVE  Entered.fields \in Schemas(ArrowTypes) /\ Len(Entered.fields) \in Nat
<1>1. Entered.fields \in Schemas(ArrowTypes)
  <2>1. CASE trip.job.enters # "arrow"
    <3>1. Entered.fields = trip.job.fields /\ trip.job.fields \in Schemas(LibraryTypes)
      BY <2>1, EnteredIs
    <3>2. trip.job.fields \in Schemas(ArrowTypes)
      BY <3>1, SchemaIsArrows
    <3> QED
      BY <3>1, <3>2
  <2>2. CASE trip.job.enters = "arrow" /\ trip.job.rows = <<>>
    <3>1. Entered.fields = <<>>
      BY <2>2, EnteredIs
    <3> QED
      BY <3>1 DEF Schemas
  <2>3. CASE trip.job.enters = "arrow" /\ trip.job.rows # <<>>
    <3>1. trip.job.rows \in Seq(RecordBatches)
      BY <2>3, EnteredIs
    <3>2. trip.job.rows[1] \in RecordBatches
      BY <2>3, <3>1
    <3>3. trip.job.rows[1].fields \in Schemas(ArrowTypes)
      BY <3>2 DEF RecordBatches
    <3> QED
      BY <2>3, <3>3, EnteredIs
  <2> QED
    BY <2>1, <2>2, <2>3
<1> QED
  BY <1>1 DEF Schemas

LEMMA DatasetFromRowsStep == TripIInv /\ DatasetFromRows => TripIInv'
<1> SUFFICES ASSUME TripIInv, DatasetFromRows PROVE TripIInv'
  OBVIOUS
<1> DEFINE fields == trip.job.fields
           rows == trip.job.rows
           out == [i \in 1..Len(rows) |-> [j \in 1..Len(fields) |-> value_from_py(rows[i][j])]]
           bad == \E i \in 1..Len(rows) : \/ Len(rows[i]) # Len(fields)
                                          \/ \E j \in 1..Len(rows[i]) : ~IsValue(rows[i][j])
<1>1. TripTypeOK /\ trip.job \in Trips /\ trip.job.enters = "python"
  BY DEF TripIInv, TripTypeOK, Begins, DatasetFromRows
<1>2. /\ fields \in Schemas(LibraryTypes) /\ rows \in Seq(Seq(PyObjects))
      /\ Entered.fields = fields /\ Entered.rows = rows /\ Len(fields) \in Nat
  BY <1>1, EnteredIs DEF Schemas
<1>3. CASE bad
  <2>1. FailsWith("ValueError")
    BY <1>3 DEF DatasetFromRows
  <2>2. PICK i \in 1..Len(rows) : \/ Len(rows[i]) # Len(fields)
                                  \/ \E j \in 1..Len(rows[i]) : ~IsValue(rows[i][j])
    BY <1>3
  <2>3. Reasons
    <3>1. CASE Len(rows[i]) # Len(fields)
      BY <1>2, <2>2, <3>1, SMTT(30) DEF Reasons
    <3>2. CASE Len(rows[i]) = Len(fields)
      <4>1. PICK j \in 1..Len(fields) : ~IsValue(rows[i][j])
        BY <2>2, <3>2
      <4>2. fields[j].type \in LibraryTypes
        BY <1>2, <4>1, FieldIs
      <4>3. rows[i][j][1] \notin {"None", PythonType[fields[j].type]}
        BY <4>1, <4>2, FitsInPython
      <4> QED
        BY <1>2, <2>2, <4>1, <4>3, Zenon DEF Reasons
    <3> QED
      BY <3>1, <3>2
  <2> QED
    BY <1>1, <2>1, <2>3, TripFails
<1>4. CASE ~bad
  <2>1. trip' = [trip EXCEPT !.at = "dataset", !.fields = fields, !.rows = out]
    BY <1>4 DEF DatasetFromRows, Goes
  <2>2. trip'.job = trip.job /\ trip'.at = "dataset" /\ trip'.fields = fields /\ trip'.rows = out
    BY <1>1, <2>1 DEF TripTypeOK
  <2>3. Admitted
    BY <1>4 DEF Admitted
  <2>4. Len(out) = Len(rows) /\ \A i \in 1..Len(rows) : out[i] = [j \in 1..Len(fields) |-> value_from_py(rows[i][j])]
    BY <1>2
  <2>5. ASSUME NEW i \in 1..Len(rows)
        PROVE  /\ out[i] \in Seq(LibraryCells) /\ Len(out[i]) = Len(rows[i])
               /\ \A j \in 1..Len(out[i]) : out[i][j] = value_from_py(rows[i][j])
    <3>1. Len(rows[i]) = Len(fields) /\ \A j \in 1..Len(fields) : IsValue(rows[i][j])
      BY <1>4
    <3>2. \A j \in 1..Len(fields) : value_from_py(rows[i][j]) \in LibraryCells
      <4> SUFFICES ASSUME NEW j \in 1..Len(fields) PROVE value_from_py(rows[i][j]) \in LibraryCells
        OBVIOUS
      <4>1. rows[i][j] \in PyObjects
        BY <1>2, <3>1
      <4> QED
        BY <3>1, <4>1, ThereAndBack
    <3> DEFINE line == [j \in 1..Len(fields) |-> value_from_py(rows[i][j])]
    <3>3. line \in Seq(LibraryCells) /\ Len(line) = Len(fields)
      BY <1>2, <3>2
    <3>4. \A j \in 1..Len(fields) : line[j] = value_from_py(rows[i][j])
      OBVIOUS
    <3> HIDE DEF line
    <3>5. out[i] = line
      BY <2>4 DEF line
    <3> HIDE DEF out
    <3> QED
      BY <3>1, <3>3, <3>4, <3>5
  <2>6. out \in Seq(Seq(LibraryCells))
    <3>1. Len(rows) \in Nat /\ DOMAIN out = 1..Len(rows) /\ out = [i \in 1..Len(rows) |-> out[i]]
      BY <1>2
    <3>2. \A i \in 1..Len(rows) : out[i] \in Seq(LibraryCells)
      BY <2>5
    <3> HIDE DEF out, rows
    <3> QED
      BY <3>1, <3>2, Lines
  <2> HIDE DEF out, fields, rows
  <2>7. TripTypeOK'
    <3>1. fields \in Schemas(ArrowTypes)
      BY <1>2, SchemaIsArrows
    <3>2. out \in Seq(Seq(Kinds \X Nat))
      BY <2>6, CellsAreKinds
    <3> QED
      BY <1>1, <2>1, <3>1, <3>2 DEF TripTypeOK, Phases
  <2>8. DatasetIs'
    <3>1. \A o : InLibrary(o)' = value_from_py(o)
      BY <1>1, <2>2 DEF InLibrary
    <3>2. Admitted'
      BY <2>2, <2>3, SameJob
    <3> QED
      BY <1>1, <2>2, <2>4, <2>5, <2>6, <3>1, <3>2 DEF DatasetIs, rows, fields
  <2>9. /\ Begins' /\ BatchesAre' /\ FieldsAre' /\ ReadIs' /\ InterchangeKeepsCells'
    BY <2>2 DEF Begins, BatchesAre, FieldsAre, ReadIs, InterchangeKeepsCells
  <2> QED
    BY <2>7, <2>8, <2>9 DEF TripIInv
<1> QED
  BY <1>3, <1>4

LEMMA NewDatasetStep == TripIInv /\ NewDataset => TripIInv'
<1> SUFFICES ASSUME TripIInv, NewDataset PROVE TripIInv'
  OBVIOUS
<1>1. TripTypeOK /\ trip.job \in Trips /\ trip.job.enters = "rust"
  BY DEF TripIInv, TripTypeOK, Begins, NewDataset
<1>2. /\ trip.job.fields \in Schemas(LibraryTypes) /\ trip.job.rows \in Seq(Seq(LibraryCells))
  BY <1>1, EnteredIs
<1>3. trip' = [trip EXCEPT !.at = "dataset", !.fields = trip.job.fields, !.rows = trip.job.rows]
  BY DEF NewDataset, Goes
<1>4. /\ trip'.job = trip.job /\ trip'.at = "dataset" /\ trip'.fields = trip.job.fields
      /\ trip'.rows = trip.job.rows
  BY <1>1, <1>3 DEF TripTypeOK
<1>5. TripTypeOK'
  <2>1. trip.job.fields \in Schemas(ArrowTypes)
    BY <1>2, SchemaIsArrows
  <2>2. trip.job.rows \in Seq(Seq(Kinds \X Nat))
    BY <1>2, CellsAreKinds
  <2> QED
    BY <1>1, <1>3, <2>1, <2>2 DEF TripTypeOK, Phases
<1>6. DatasetIs'
  <2>1. (\A o : InLibrary(o)' = o) /\ Admitted'
    BY <1>1, <1>4 DEF InLibrary, Admitted
  <2> QED
    BY <1>1, <1>2, <1>4, <2>1 DEF DatasetIs
<1>7. /\ Begins' /\ BatchesAre' /\ FieldsAre' /\ ReadIs' /\ InterchangeKeepsCells'
  BY <1>4 DEF Begins, BatchesAre, FieldsAre, ReadIs, InterchangeKeepsCells
<1> QED
  BY <1>5, <1>6, <1>7 DEF TripIInv

LEMMA BatchStep == TripIInv /\ dataset_to_record_batch => TripIInv'
<1> SUFFICES ASSUME TripIInv, dataset_to_record_batch PROVE TripIInv'
  OBVIOUS
<1> DEFINE fields == trip.fields
           rows == trip.rows
           came == trip.job.rows
           n == Len(rows)
           m == Len(fields)
           cells == [i \in 1..n |-> [j \in 1..m |-> CellOf(rows[i], j)]]
           batch == [fields |-> fields, rows |-> cells]
           bad == \E i \in 1..Len(cells) : \E j \in 1..m : ~Fits(cells[i][j], fields[j].type)
<1>1. /\ TripTypeOK /\ trip.job \in Trips /\ trip.at = "dataset" /\ trip.job.enters # "arrow"
      /\ Admitted /\ fields = trip.job.fields /\ rows \in Seq(Seq(LibraryCells)) /\ n = Len(came)
      /\ \A i \in 1..n : /\ Len(rows[i]) = Len(came[i])
                         /\ \A j \in 1..Len(rows[i]) : rows[i][j] = InLibrary(came[i][j])
  BY DEF TripIInv, TripTypeOK, DatasetIs, dataset_to_record_batch
<1>2. /\ fields \in Schemas(LibraryTypes) /\ Entered.fields = fields /\ Entered.rows = came
      /\ m \in Nat /\ n \in Nat /\ trip.job.enters \in {"python", "rust"}
  BY <1>1, EnteredIs DEF Schemas
<1>3. ASSUME NEW i \in 1..n
      PROVE  /\ cells[i] \in Seq(LibraryCells) /\ Len(cells[i]) = m
             /\ \A j \in 1..m : cells[i][j] = CellOf(rows[i], j)
  <2> DEFINE line == [j \in 1..m |-> CellOf(rows[i], j)]
  <2>1. rows[i] \in Seq(LibraryCells)
    BY <1>1
  <2>2. \A j \in 1..m : CellOf(rows[i], j) \in LibraryCells
    <3>1. <<"Null", 0>> \in LibraryCells
      BY DEF LibraryCells
    <3> QED
      BY <1>2, <2>1, <3>1 DEF CellOf
  <2> HIDE DEF rows, fields, m, n
  <2>3. line \in Seq(LibraryCells) /\ Len(line) = m /\ \A j \in 1..m : line[j] = CellOf(rows[i], j)
    BY <1>2, <2>2
  <2>4. cells[i] = line
    OBVIOUS
  <2> HIDE DEF line, cells
  <2> QED
    BY <2>3, <2>4
<1>4. Len(cells) = n /\ cells \in Seq(Seq(LibraryCells))
  <2> HIDE DEF n, m, rows, fields
  <2>1. cells = [i \in 1..n |-> cells[i]] /\ Len(cells) = n
    BY <1>2
  <2>2. \A i \in 1..n : cells[i] \in Seq(LibraryCells)
    BY <1>3
  <2> HIDE DEF cells
  <2> QED
    BY <1>2, <2>1, <2>2, Lines
<1>5. ASSUME NEW i \in 1..n, NEW j \in 1..m
      PROVE  cells[i][j] = InLibrary(CellOf(came[i], j))
  <2>1. cells[i][j] = CellOf(rows[i], j) /\ Len(rows[i]) = Len(came[i]) /\ Len(rows[i]) \in Nat
    BY <1>1, <1>3
  <2>2. CASE j <= Len(rows[i])
    <3>1. j \in 1..Len(rows[i]) /\ CellOf(rows[i], j) = rows[i][j] /\ CellOf(came[i], j) = came[i][j]
      BY <1>2, <2>1, <2>2 DEF CellOf
    <3> QED
      BY <1>1, <2>1, <3>1
  <2>3. CASE ~(j <= Len(rows[i]))
    <3>1. CASE trip.job.enters = "python"
      <4>1. Len(came[i]) = m
        BY <1>1, <3>1 DEF Admitted
      <4> QED
        BY <1>2, <2>1, <2>3, <4>1
    <3>2. CASE trip.job.enters # "python"
      BY <2>1, <2>3, <3>2 DEF InLibrary, CellOf
    <3> QED
      BY <3>1, <3>2
  <2> QED
    BY <2>2, <2>3
<1>6. CASE bad
  <2>1. FailsWith("ParseError")
    BY <1>6, SMTT(30) DEF dataset_to_record_batch
  <2>2. ASSUME trip.job.enters = "python" PROVE Reasons
    <3>1. PICK i \in 1..n, j \in 1..m : ~Fits(cells[i][j], fields[j].type)
      BY <1>4, <1>6
    <3>2. Len(came[i]) = m
      BY <1>1, <2>2 DEF Admitted
    <3>3. cells[i][j] = value_from_py(came[i][j])
      <4>1. CellOf(came[i], j) = came[i][j]
        BY <1>2, <3>2 DEF CellOf
      <4>2. \A o : InLibrary(o) = value_from_py(o)
        BY <2>2 DEF InLibrary
      <4> QED
        BY <1>5, <4>1, <4>2
    <3>4. fields[j].type \in LibraryTypes
      BY <1>2, FieldIs
    <3> HIDE DEF cells
    <3>5. came[i][j][1] \notin {"None", PythonType[fields[j].type]}
      BY <3>1, <3>3, <3>4, FitsInPython
    <3> QED
      BY <1>1, <1>2, <3>5, Zenon DEF Reasons
  <2> QED
    BY <1>1, <2>1, <2>2, TripFails
<1>7. CASE ~bad /\ fields = <<>>
  <2>1. FailsWith("Engine")
    BY <1>7 DEF dataset_to_record_batch
  <2>2. Reasons
    BY <1>2, <1>7 DEF Reasons
  <2> QED
    BY <1>1, <2>1, <2>2, TripFails
<1>8. CASE ~bad /\ fields # <<>>
  <2>1. trip' = [trip EXCEPT !.at = "batches", !.batches = <<batch>>]
    BY <1>8 DEF dataset_to_record_batch
  <2> HIDE DEF cells, bad
  <2>2. batch \in RecordBatches
    <3>1. fields \in Schemas(ArrowTypes)
      BY <1>2, SchemaIsArrows
    <3> QED
      BY <1>4, <3>1 DEF RecordBatches
  <2>3. batch.fields = fields /\ batch.rows = cells
    OBVIOUS
  <2> HIDE DEF batch
  <2>4. trip'.job = trip.job /\ trip'.at = "batches" /\ trip'.batches = <<batch>>
    BY <1>1, <2>1 DEF TripTypeOK
  <2>5. TripTypeOK'
    <3>1. <<batch>> \in Seq(RecordBatches)
      BY <2>2
    <3> QED
      BY <1>1, <2>1, <3>1 DEF TripTypeOK, Phases
  <2>6. BatchRows' = cells
    <3>1. /\ Len(trip'.batches) = 1
          /\ [b \in 1..Len(trip'.batches) |-> trip'.batches[b].rows] = [b \in 1..1 |-> cells]
      BY <2>3, <2>4
    <3> QED
      BY <1>4, <3>1, FlattenOne DEF BatchRows
  <2>7. Entered' = Entered /\ (\A o : InLibrary(o)' = InLibrary(o)) /\ Admitted'
    BY <1>1, <2>4, SameJob
  <2>8. \A i \in 1..n : BatchRow(i)'
    <3> SUFFICES ASSUME NEW i \in 1..n PROVE BatchRow(i)'
      OBVIOUS
    <3>1. Len(cells[i]) = Len(Entered.fields)
      BY <1>2, <1>3
    <3>2. \A j \in 1..Len(Entered.fields) : cells[i][j] = InLibrary(CellOf(Entered.rows[i], j))
      BY <1>2, <1>5
    <3> QED
      BY <2>6, <2>7, <3>1, <3>2 DEF BatchRow
  <2>9. BatchesAre'
    <3>1. /\ Len(trip'.batches) = 1 /\ trip'.batches # <<>> /\ trip'.batches[1].fields = Entered.fields
      BY <1>2, <2>3, <2>4
    <3>2. BatchRows' \in Seq(Seq(LibraryCells)) /\ Len(BatchRows') = Len(Entered'.rows) /\ Len(BatchRows') = n
      BY <1>1, <1>2, <1>4, <2>6, <2>7
    <3> QED
      BY <2>7, <2>8, <3>1, <3>2 DEF BatchesAre
  <2>10. Begins' /\ DatasetIs' /\ FieldsAre' /\ ReadIs' /\ InterchangeKeepsCells'
    BY <2>4 DEF Begins, DatasetIs, FieldsAre, ReadIs, InterchangeKeepsCells
  <2> QED
    BY <2>5, <2>9, <2>10 DEF TripIInv
<1> QED
  BY <1>6, <1>7, <1>8

LEMMA TakeBatchesStep == TripIInv /\ TakeBatches => TripIInv'
<1> SUFFICES ASSUME TripIInv, TakeBatches PROVE TripIInv'
  OBVIOUS
<1> DEFINE bs == trip.job.rows
           s == [b \in 1..Len(bs) |-> bs[b].rows]
<1>1. /\ TripTypeOK /\ trip.job \in Trips /\ trip.job.enters = "arrow"
      /\ trip' = [trip EXCEPT !.at = "batches", !.batches = bs]
  BY DEF TripIInv, TripTypeOK, Begins, TakeBatches
<1>2. /\ bs \in Seq(RecordBatches) /\ \A b \in 1..Len(bs) : RowsFit(bs[b])
      /\ Entered.fields = IF bs = <<>> THEN <<>> ELSE bs[1].fields
      /\ Entered.rows = FlattenSeq(s)
  BY <1>1, EnteredIs
<1>3. trip'.job = trip.job /\ trip'.at = "batches" /\ trip'.batches = bs
  BY <1>1 DEF TripTypeOK
<1>4. TripTypeOK'
  BY <1>1, <1>2 DEF TripTypeOK, Phases
<1>5. Len(bs) \in Nat /\ Len(s) = Len(bs) /\ s \in Seq(Seq(Seq(LibraryCells)))
  <2>1. ASSUME NEW b \in 1..Len(bs) PROVE s[b] \in Seq(Seq(LibraryCells))
    <3>1. bs[b] \in RecordBatches /\ s[b] = bs[b].rows
      BY <1>2
    <3> HIDE DEF s, bs
    <3> QED
      BY <3>1 DEF RecordBatches
  <2>2. Len(bs) \in Nat /\ Len(s) = Len(bs) /\ s = [b \in 1..Len(bs) |-> s[b]]
    BY <1>2
  <2> HIDE DEF s, bs
  <2> QED
    BY <2>1, <2>2, Lines
<1>6. /\ FlattenSeq(s) \in Seq(Seq(LibraryCells))
      /\ \A k \in 1..Len(FlattenSeq(s)) :
              \E c \in 1..Len(s) : \E j \in 1..Len(s[c]) : FlattenSeq(s)[k] = s[c][j]
  <2> HIDE DEF s
  <2> QED
    BY <1>5, FlattenFrom
<1> DEFINE flat == FlattenSeq(s)
<1>7. BatchRows' = flat
  BY <1>3 DEF BatchRows
<1>8. Entered' = Entered /\ (\A o : InLibrary(o)' = o) /\ Admitted'
  BY <1>1, <1>3, SameJob DEF InLibrary, Admitted
<1>9. ASSUME bs # <<>>, Alike', NEW i \in 1..Len(flat) PROVE BatchRow(i)'
  <2>1. PICK c \in 1..Len(bs) : \E j \in 1..Len(s[c]) : flat[i] = s[c][j]
    BY <1>5, <1>6
  <2>2. s[c] = bs[c].rows
    OBVIOUS
  <2> HIDE DEF s, flat
  <2>3. Len(flat[i]) = Len(bs[c].fields)
    BY <1>2, <2>1, <2>2, ZenonT(60) DEF RowsFit
  <2>4. bs[c].fields = Entered.fields
    BY <1>2, <1>3, <1>9 DEF Alike
  <2>5. \A k \in 1..Len(Entered.fields) : CellOf(flat[i], k) = flat[i][k]
    BY <1>1, <2>3, <2>4, EnteredFields DEF CellOf
  <2>6. Entered.rows = flat
    BY <1>2 DEF flat
  <2> QED
    BY <1>7, <1>8, <2>3, <2>4, <2>5, <2>6 DEF BatchRow
<1>10. BatchesAre'
  <2>1. bs = <<>> => flat = <<>>
    BY <1>5 DEF FlattenSeq
  <2> HIDE DEF flat
  <2>2. Entered.rows = flat
    BY <1>2 DEF flat
  <2>3. flat \in Seq(Seq(LibraryCells))
    BY <1>6 DEF flat
  <2>4. bs # <<>> /\ Alike' => \A i \in 1..Len(flat) : BatchRow(i)'
    BY <1>9
  <2> QED
    BY <1>1, <1>2, <1>3, <1>7, <1>8, <2>1, <2>2, <2>3, <2>4 DEF BatchesAre
<1>11. Begins' /\ DatasetIs' /\ FieldsAre' /\ ReadIs' /\ InterchangeKeepsCells'
  BY <1>3 DEF Begins, DatasetIs, FieldsAre, ReadIs, InterchangeKeepsCells
<1> QED
  BY <1>4, <1>10, <1>11 DEF TripIInv

LEMMA SchemaStep == TripIInv /\ schema_from_record_batch => TripIInv'
<1> SUFFICES ASSUME TripIInv, schema_from_record_batch PROVE TripIInv'
  OBVIOUS
<1> DEFINE own == trip.batches[1].fields
           target == trip.job.target
           utf8 == [j \in 1..Len(own) |->
                      [own[j] EXCEPT !.type = IF @ = "LargeUtf8" THEN "Utf8" ELSE @]]
           none == target # <<>> \/ trip.batches = <<>>
           bad == \E j \in 1..Len(own) : own[j].type \notin Supported
<1>1. TripTypeOK /\ trip.job \in Trips /\ trip.at = "batches" /\ BatchesAre
  BY DEF TripIInv, TripTypeOK, schema_from_record_batch
<1>2. target \in Schemas(LibraryTypes)
  BY <1>1, EnteredIs
\* What reading the schema leaves as it was.
<1>3. ASSUME NEW fields \in Schemas(ArrowTypes), Goes("to read", fields, <<>>),
             none => fields = target,
             ~none => /\ Len(fields) = Len(Entered.fields)
                      /\ \A k \in 1..Len(fields) :
                           /\ fields[k].name = Entered.fields[k].name
                           /\ trip.job.enters = "python" => fields[k].type = Entered.fields[k].type
      PROVE  TripIInv'
  <2>1. trip' = [trip EXCEPT !.at = "to read", !.fields = fields, !.rows = <<>>]
    BY <1>3 DEF Goes
  <2>2. /\ trip'.job = trip.job /\ trip'.at = "to read" /\ trip'.fields = fields
        /\ trip'.batches = trip.batches
    BY <1>1, <2>1 DEF TripTypeOK
  <2>3. TripTypeOK'
    <3>1. <<>> \in Seq(Seq(Kinds \X Nat))
      OBVIOUS
    <3> QED
      BY <1>1, <1>3, <2>1, <3>1 DEF TripTypeOK, Phases
  <2>4. /\ Entered' = Entered /\ (\A o : InLibrary(o)' = InLibrary(o)) /\ (Admitted <=> Admitted')
    BY <2>2, SameJob
  <2>5. BatchRows' = BatchRows /\ (Alike' <=> Alike)
    BY <2>2 DEF BatchRows, Alike
  <2>6. \A i : BatchRow(i)' <=> BatchRow(i)
    BY <2>4, <2>5 DEF BatchRow
  <2>7. BatchesAre'
    BY <1>1, <2>2, <2>4, <2>5, <2>6 DEF BatchesAre
  <2>8. FieldsAre'
    BY <1>3, <2>2, <2>4 DEF FieldsAre
  <2>9. Begins' /\ DatasetIs' /\ ReadIs' /\ InterchangeKeepsCells'
    BY <2>2 DEF Begins, DatasetIs, ReadIs, InterchangeKeepsCells
  <2> QED
    BY <2>3, <2>7, <2>8, <2>9 DEF TripIInv
<1>4. CASE none
  <2>1. Goes("to read", target, <<>>)
    BY <1>4 DEF schema_from_record_batch
  <2>2. target \in Schemas(ArrowTypes)
    BY <1>2, SchemaIsArrows
  <2> QED
    BY <1>3, <1>4, <2>1, <2>2
<1>5. CASE ~none
  <2>1. own = Entered.fields /\ own \in Schemas(ArrowTypes) /\ Len(own) \in Nat
    BY <1>1, <1>5, EnteredFields DEF BatchesAre
  <2>2. trip.job.enters = "python" => \A j \in 1..Len(own) : own[j].type \in LibraryTypes
    <3>1. trip.job.enters = "python" => own \in Schemas(LibraryTypes)
      BY <1>1, <2>1, EnteredIs
    <3> HIDE DEF own
    <3> QED
      BY <3>1, FieldIs
  <2>3. CASE bad
    <3>1. FailsWith("SchemaMismatch")
      BY <1>5, <2>3 DEF schema_from_record_batch
    <3>2. trip.job.enters # "python"
      BY <2>2, <2>3 DEF LibraryTypes, Supported
    <3> QED
      BY <1>1, <3>1, <3>2, TripFails
  <2>4. CASE ~bad
    <3>1. Goes("to read", utf8, <<>>)
      BY <1>5, <2>4 DEF schema_from_record_batch
    <3> DEFINE F == [name: STRING, type: ArrowTypes]
    <3>2. own \in Seq(F)
      BY <2>1 DEF Schemas
    <3> HIDE DEF own
    <3>3. ASSUME NEW j \in 1..Len(own)
          PROVE  /\ utf8[j] \in F /\ utf8[j].name = own[j].name
                 /\ own[j].type \in LibraryTypes => utf8[j].type = own[j].type
      <4>1. own[j] \in F
        <5> HIDE DEF F
        <5> QED
          BY <3>2
      <4>2. utf8[j] = [own[j] EXCEPT !.type = IF own[j].type = "LargeUtf8" THEN "Utf8" ELSE own[j].type]
        BY <4>1
      <4>3. "Utf8" \in ArrowTypes /\ "LargeUtf8" \notin LibraryTypes
        BY DEF ArrowTypes, LibraryTypes
      <4> HIDE DEF utf8
      <4> QED
        BY <4>1, <4>2, <4>3
    <3>4. utf8 = [j \in 1..Len(own) |-> utf8[j]] /\ Len(utf8) = Len(own)
      BY <2>1
    <3>5. utf8 \in Schemas(ArrowTypes)
      <4>1. \A j \in 1..Len(own) : utf8[j] \in F
        BY <3>3
      <4> HIDE DEF utf8, F
      <4>2. utf8 \in Seq(F)
        BY <2>1, <3>4, <4>1, Lines
      <4> QED
        BY <4>2 DEF Schemas, F
    <3> HIDE DEF utf8, F
    <3>6. /\ Len(utf8) = Len(Entered.fields)
          /\ \A k \in 1..Len(utf8) :
               /\ utf8[k].name = Entered.fields[k].name
               /\ trip.job.enters = "python" => utf8[k].type = Entered.fields[k].type
      BY <2>1, <2>2, <3>3, <3>4
    <3> QED
      BY <1>3, <1>5, <3>1, <3>5, <3>6
  <2> QED
    BY <2>3, <2>4
<1> QED
  BY <1>4, <1>5

\* Schema::index_of finds the column that the property speaks of, or none.
LEMMA IndexIs ==
  ASSUME trip.job \in Trips, NEW target, NEW k
  PROVE  LET index == IndexOf(Entered.fields, target, k)
         IN  /\ index \in 1..Len(Entered.fields) => index = FirstNamed(target[k].name)
             /\ index \notin 1..Len(Entered.fields) =>
                  ~\E j \in 1..Len(Entered.fields) : Entered.fields[j].name = target[k].name
<1> DEFINE fields == Entered.fields
           n == Len(fields)
           name == target[k].name
           S == {j \in 1..n : fields[j].name = name}
           index == IndexOf(fields, target, k)
           First(j) == fields[j].name = name /\ \A i \in 1..(j - 1) : fields[i].name # name
<1>1. n \in Nat
  BY EnteredFields
<1>2. index = IF S # {} THEN Min(S) ELSE 0
  BY DEF IndexOf, SelectInSeq
<1>3. S \in SUBSET (1..n) /\ (S # {} <=> \E j \in 1..n : fields[j].name = name)
  OBVIOUS
<1>4. S # {} => Min(S) \in S /\ \A x \in S : Min(S) <= x
  <2> HIDE DEF S, n
  <2> QED
    BY <1>1, <1>3, LeastIs
<1>5. ASSUME S # {} PROVE index \in 1..n /\ First(index)
  <2> HIDE DEF index
  <2>1. index \in S /\ \A x \in S : index <= x
    BY <1>2, <1>4, <1>5
  <2>2. index \in 1..n /\ fields[index].name = name
    BY <2>1
  <2>3. ASSUME NEW i \in 1..(index - 1) PROVE fields[i].name # name
    <3>1. i \in 1..n /\ ~(index <= i)
      BY <1>1, <2>2
    <3>2. i \notin S
      <4> HIDE DEF S
      <4> QED
        BY <2>1, <3>1
    <3> QED
      BY <3>1, <3>2
  <2> QED
    BY <2>2, <2>3
<1>6. \A i, j \in 1..n : First(i) /\ First(j) => i = j
  <2> SUFFICES ASSUME NEW i \in 1..n, NEW j \in 1..n, First(i), First(j) PROVE i = j
    OBVIOUS
  <2>1. j \notin 1..(i - 1) /\ i \notin 1..(j - 1)
    OBVIOUS
  <2> HIDE DEF First
  <2> QED
    BY <1>1, <2>1
<1>7. FirstNamed(name) = CHOOSE j \in 1..n : First(j)
  BY DEF FirstNamed
<1>8. S # {} => index = FirstNamed(name)
  <2> HIDE DEF First, index, S, n
  <2> QED
    BY <1>5, <1>6, <1>7
<1>9. S = {} => index \notin 1..n
  <2> HIDE DEF S
  <2> QED
    BY <1>1, <1>2
<1> HIDE DEF index, S, n
<1> QED
  BY <1>3, <1>5, <1>8, <1>9 DEF index, n

LEMMA ReadStep == TripIInv /\ record_batches_to_dataset => TripIInv'
<1> SUFFICES ASSUME TripIInv, record_batches_to_dataset PROVE TripIInv'
  OBVIOUS
<1> DEFINE bs == trip.batches
           fields == bs[1].fields
           rows == BatchRows
           wanted == trip.fields
           m == Len(wanted)
           index == [k \in 1..m |-> IndexOf(fields, wanted, k)]
           out == [i \in 1..Len(rows) |-> [k \in 1..Len(index) |-> rows[i][index[k]]]]
           bad == \/ \E b \in 1..Len(bs) : bs[b].fields # fields
                  \/ \E k \in 1..Len(index) : index[k] \notin 1..Len(fields)
                  \/ /\ rows # <<>>
                     /\ \E k \in 1..Len(index) : ~Downcasts(fields[index[k]].type, wanted[k].type)
<1>1. /\ TripTypeOK /\ trip.job \in Trips /\ trip.at = "to read" /\ BatchesAre /\ FieldsAre
      /\ wanted \in Schemas(ArrowTypes)
  BY DEF TripIInv, TripTypeOK, record_batches_to_dataset
<1>2. m \in Nat /\ Len(index) = m
  <2>1. m \in Nat
    <3>1. trip.fields \in Schemas(ArrowTypes)
      BY <1>1
    <3> QED
      BY <3>1 DEF Schemas
  <2> HIDE DEF m
  <2> QED
    BY <2>1
<1>3. /\ Admitted /\ rows \in Seq(Seq(LibraryCells)) /\ Len(rows) = Len(Entered.rows)
      /\ bs = <<>> => Entered.rows = <<>> /\ Entered.fields = <<>>
      /\ bs # <<>> => fields = Entered.fields
      /\ trip.job.enters # "arrow" => Len(bs) = 1
  BY <1>1 DEF BatchesAre
<1>4. trip.job.target = <<>> => m = Len(Entered.fields)
  BY <1>1, <1>3 DEF FieldsAre
\* The rows that are read, however many batches there are.
<1>5. ASSUME NEW read \in Seq(Seq(LibraryCells)), Goes("read", wanted, read),
             Len(read) = Len(Entered.rows),
             \A i \in 1..Len(read) :
               /\ Len(read[i]) = m
               /\ \A k \in 1..m :
                    /\ FirstNamed(wanted[k].name) \in 1..Len(Entered.fields)
                    /\ read[i][k] = InLibrary(CellOf(Entered.rows[i], FirstNamed(wanted[k].name)))
      PROVE  TripIInv'
  <2>1. trip' = [trip EXCEPT !.at = "read", !.fields = wanted, !.rows = read]
    BY <1>5 DEF Goes
  <2>2. trip'.job = trip.job /\ trip'.at = "read" /\ trip'.fields = wanted /\ trip'.rows = read
    BY <1>1, <2>1 DEF TripTypeOK
  <2>3. TripTypeOK'
    <3>1. read \in Seq(Seq(Kinds \X Nat))
      BY <1>5, CellsAreKinds
    <3> QED
      BY <1>1, <2>1, <3>1 DEF TripTypeOK, Phases
  <2>4. /\ Entered' = Entered /\ (\A o : InLibrary(o)' = InLibrary(o)) /\ Admitted'
        /\ (\A name : FirstNamed(name)' = FirstNamed(name))
    BY <1>3, <2>2, SameJob
  <2>5. \A i \in 1..Len(read) : RowRead(i)'
    <3> SUFFICES ASSUME NEW i \in 1..Len(read) PROVE RowRead(i)'
      OBVIOUS
    <3> QED
      BY <1>5, <2>2, <2>4 DEF RowRead
  <2>6. ReadIs'
    BY <1>4, <1>5, <2>2, <2>4, <2>5 DEF ReadIs
  <2>7. Begins' /\ DatasetIs' /\ BatchesAre' /\ FieldsAre' /\ InterchangeKeepsCells'
    BY <2>2 DEF Begins, DatasetIs, BatchesAre, FieldsAre, InterchangeKeepsCells
  <2> QED
    BY <2>3, <2>6, <2>7 DEF TripIInv
<1>6. CASE bs = <<>>
  <2>1. Goes("read", wanted, <<>>)
    BY <1>6 DEF record_batches_to_dataset
  <2>2. <<>> \in Seq(Seq(LibraryCells)) /\ Len(<<>>) = Len(Entered.rows)
    BY <1>3, <1>6
  <2>3. \A i \in 1..Len(<<>>) : FALSE
    OBVIOUS
  <2> HIDE DEF m, wanted
  <2> QED
    BY <1>5, <2>1, <2>2, <2>3
<1>7. CASE bs # <<>> /\ bad
  <2>1. FailsWith("SchemaMismatch")
    BY <1>7, Zenon DEF record_batches_to_dataset, BatchRows
  <2>2. ASSUME trip.job.enters = "python" PROVE Reasons
    <3>1. Len(bs) = 1 /\ fields = Entered.fields
      BY <1>3, <1>7, <2>2
    <3>2. PICK k \in 1..m : \/ index[k] \notin 1..Len(fields)
                            \/ ~Downcasts(fields[index[k]].type, wanted[k].type)
      BY <1>2, <1>7, <3>1, SMTT(30)
    <3>3. /\ Len(Asked) = m /\ Asked[k].name = wanted[k].name /\ Asked[k].type = wanted[k].type
      BY <1>1, <1>7, <2>2, <3>2 DEF FieldsAre, Asked
    <3>4. index[k] = IndexOf(Entered.fields, wanted, k)
      BY <3>1
    <3>5. CASE index[k] \notin 1..Len(fields)
      <4>1. ~\E j \in 1..Len(Entered.fields) : Entered.fields[j].name = wanted[k].name
        BY <1>1, <3>1, <3>4, <3>5, IndexIs
      <4> QED
        BY <3>3, <4>1 DEF Reasons
    <3>6. CASE index[k] \in 1..Len(fields) /\ ~Downcasts(fields[index[k]].type, wanted[k].type)
      <4>1. index[k] = FirstNamed(wanted[k].name)
        BY <1>1, <3>1, <3>4, <3>6, IndexIs
      <4>2. Entered.fields[FirstNamed(Asked[k].name)].type # Asked[k].type
        BY <3>1, <3>3, <3>6, <4>1 DEF Downcasts
      <4> QED
        BY <3>3, <4>2 DEF Reasons
    <3> QED
      BY <3>2, <3>5, <3>6
  <2> QED
    BY <1>1, <2>1, <2>2, TripFails
<1>8. CASE bs # <<>> /\ ~bad
  <2>1. Goes("read", wanted, out)
    BY <1>8, Zenon DEF record_batches_to_dataset, BatchRows
  <2>2. /\ fields = Entered.fields /\ Alike
        /\ \A i \in 1..Len(rows) : BatchRow(i)
    <3>1. Alike
      BY <1>8 DEF Alike
    <3> QED
      BY <1>1, <1>3, <1>8, <3>1 DEF BatchesAre
  <2>3. ASSUME NEW k \in 1..m
        PROVE  index[k] \in 1..Len(Entered.fields) /\ index[k] = FirstNamed(wanted[k].name)
    <3>1. index[k] = IndexOf(Entered.fields, wanted, k) /\ index[k] \in 1..Len(Entered.fields)
      BY <1>2, <1>8, <2>2
    <3> QED
      BY <1>1, <3>1, IndexIs
  <2>4. ASSUME NEW i \in 1..Len(rows)
        PROVE  /\ out[i] \in Seq(LibraryCells) /\ Len(out[i]) = m
               /\ \A k \in 1..m : out[i][k] = InLibrary(CellOf(Entered.rows[i], FirstNamed(wanted[k].name)))
    <3> DEFINE line == [k \in 1..m |-> rows[i][index[k]]]
    <3>1. /\ rows[i] \in Seq(LibraryCells) /\ Len(rows[i]) = Len(Entered.fields)
          /\ \A j \in 1..Len(Entered.fields) : rows[i][j] = InLibrary(CellOf(Entered.rows[i], j))
      BY <1>3, <2>2 DEF BatchRow
    <3>2. out[i] = line
      BY <1>2
    <3> HIDE DEF index, out, rows, m
    <3>3. \A k \in 1..m : /\ rows[i][index[k]] \in LibraryCells
                          /\ rows[i][index[k]] = InLibrary(CellOf(Entered.rows[i], FirstNamed(wanted[k].name)))
      BY <2>3, <3>1
    <3>4. line \in Seq(LibraryCells) /\ Len(line) = m /\ \A k \in 1..m : line[k] = rows[i][index[k]]
      BY <1>2, <3>3
    <3> HIDE DEF line
    <3> QED
      BY <3>2, <3>3, <3>4
  <2>5. out \in Seq(Seq(LibraryCells)) /\ Len(out) = Len(rows)
    <3>1. Len(rows) \in Nat
      BY <1>3
    <3> HIDE DEF rows, index
    <3>2. out = [i \in 1..Len(rows) |-> out[i]] /\ Len(out) = Len(rows)
      BY <3>1
    <3>3. \A i \in 1..Len(rows) : out[i] \in Seq(LibraryCells)
      BY <2>4
    <3> HIDE DEF out
    <3> QED
      BY <3>1, <3>2, <3>3, Lines
  <2> HIDE DEF out, rows, m, wanted
  <2>6. \A i \in 1..Len(out) :
               /\ Len(out[i]) = m
               /\ \A k \in 1..m :
                    /\ FirstNamed(wanted[k].name) \in 1..Len(Entered.fields)
                    /\ out[i][k] = InLibrary(CellOf(Entered.rows[i], FirstNamed(wanted[k].name)))
    <3>1. \A k \in 1..m : FirstNamed(wanted[k].name) \in 1..Len(Entered.fields)
      BY <2>3
    <3> QED
      BY <2>4, <2>5, <3>1
  <2> QED
    BY <1>3, <1>5, <2>1, <2>5, <2>6
<1> QED
  BY <1>6, <1>7, <1>8

LEMMA ToRowsStep == TripIInv /\ ToRows => TripIInv'
<1> SUFFICES ASSUME TripIInv, ToRows PROVE TripIInv'
  OBVIOUS
<1> DEFINE rows == trip.rows
           n == Len(rows)
           m == Len(trip.fields)
           out == [i \in 1..n |-> [j \in 1..Len(rows[i]) |-> value_to_py(rows[i][j])]]
<1>1. /\ TripTypeOK /\ trip.job \in Trips /\ trip.at = "read" /\ Admitted
      /\ rows \in Seq(Seq(LibraryCells)) /\ n = Len(Entered.rows) /\ n \in Nat
      /\ trip.job.target = <<>> => m = Len(Entered.fields)
      /\ \A i \in 1..n : RowRead(i)
      /\ trip' = [trip EXCEPT !.at = "returned", !.fields = trip.fields, !.rows = out]
  BY DEF TripIInv, TripTypeOK, ReadIs, ToRows, Goes
<1>2. m \in Nat
  <2>1. trip.fields \in Schemas(ArrowTypes)
    BY <1>1 DEF TripTypeOK
  <2> QED
    BY <2>1 DEF Schemas
<1>3. ASSUME NEW i \in 1..n, NEW k \in 1..m
      PROVE  value_to_py(rows[i][k]) =
               SameInPython(CellOf(Entered.rows[i], FirstNamed(trip.fields[k].name)))
  <2> DEFINE first == FirstNamed(trip.fields[k].name)
             o == CellOf(Entered.rows[i], first)
  <2>1. rows[i][k] = InLibrary(o) /\ first \in 1..Len(Entered.fields)
    BY <1>1 DEF RowRead
  <2>2. CASE trip.job.enters = "python"
    <3>1. /\ Entered.rows = trip.job.rows /\ Entered.fields = trip.job.fields
          /\ trip.job.rows \in Seq(Seq(PyObjects))
      BY <1>1, <2>2, EnteredIs
    <3>2. /\ Len(trip.job.rows[i]) = Len(trip.job.fields)
          /\ \A j \in 1..Len(trip.job.rows[i]) : IsValue(trip.job.rows[i][j])
          /\ trip.job.rows[i] \in Seq(PyObjects)
      BY <1>1, <2>2, <3>1 DEF Admitted
    <3> HIDE DEF first
    <3>3. first \in 1..Len(trip.job.rows[i]) /\ o = trip.job.rows[i][first]
      BY <2>1, <3>1, <3>2 DEF CellOf
    <3>4. o \in PyObjects /\ IsValue(o)
      BY <3>2, <3>3
    <3> HIDE DEF o
    <3>5. value_to_py(value_from_py(o)) = IF o[1] = "big int" THEN <<"float", 0>> ELSE o
      BY <3>4, ThereAndBack
    <3>6. rows[i][k] = value_from_py(o)
      BY <2>1, <2>2 DEF InLibrary
    <3>7. SameInPython(o) = IF o[1] = "big int" THEN <<"float", 0>> ELSE o
      BY <2>2 DEF SameInPython
    <3> QED
      BY <3>5, <3>6, <3>7 DEF o, first
  <2>3. CASE trip.job.enters # "python"
    BY <2>1, <2>3 DEF InLibrary, SameInPython
  <2> QED
    BY <2>2, <2>3
<1>4. ASSUME NEW i \in 1..n
      PROVE  /\ out[i] \in Seq(Kinds \X Nat) /\ Len(rows[i]) = m
             /\ \A k \in 1..m : out[i][k] = value_to_py(rows[i][k])
  <2>1. rows[i] \in Seq(LibraryCells) /\ Len(rows[i]) = m
    BY <1>1 DEF RowRead
  <2>2. ASSUME NEW c \in LibraryCells PROVE value_to_py(c) \in Kinds \X Nat
    <3>1. /\ c[2] \in Nat
          /\ \/ c[1] = "Null" \/ c[1] = "Int64" \/ c[1] = "Float64" \/ c[1] = "Bool" \/ c[1] = "Utf8"
      BY DEF LibraryCells, LibraryTypes
    <3>2. PythonKind[c[1]] \in {"None", "int", "float", "bool", "str"}
      BY <3>1 DEF PythonKind
    <3>3. PythonKind[c[1]] \in Kinds
      BY <3>2 DEF Kinds
    <3> QED
      BY <3>1, <3>3 DEF value_to_py
  <2> DEFINE line == [j \in 1..m |-> value_to_py(rows[i][j])]
  <2>3. out[i] = line
    BY <2>1
  <2> HIDE DEF rows, m, out
  <2>4. \A j \in 1..m : value_to_py(rows[i][j]) \in Kinds \X Nat
    <3>1. \A j \in 1..m : rows[i][j] \in LibraryCells
      BY <2>1
    <3> QED
      BY <2>2, <3>1
  <2>5. line \in Seq(Kinds \X Nat) /\ \A k \in 1..m : line[k] = value_to_py(rows[i][k])
    <3> DEFINE A == Kinds \X Nat
    <3> HIDE DEF A
    <3>1. \A j \in 1..m : value_to_py(rows[i][j]) \in A
      BY <2>4 DEF A
    <3>2. line \in Seq(A)
      BY <1>2, <3>1
    <3> QED
      BY <3>2 DEF A
  <2> HIDE DEF line
  <2> QED
    BY <2>1, <2>3, <2>5
<1>5. out \in Seq(Seq(Kinds \X Nat)) /\ Len(out) = n
  <2> HIDE DEF rows
  <2>1. n \in Nat
    BY <1>1
  <2> HIDE DEF n
  <2>2. out = [i \in 1..n |-> out[i]] /\ Len(out) = n
    BY <2>1
  <2>3. \A i \in 1..n : out[i] \in Seq(Kinds \X Nat)
    BY <1>4
  <2> HIDE DEF out
  <2> QED
    BY <2>1, <2>2, <2>3, Lines
<1>6. \A i \in 1..n : \A k \in 1..m :
        out[i][k] = SameInPython(CellOf(Entered.rows[i], FirstNamed(trip.fields[k].name)))
  <2> HIDE DEF out, rows
  <2> QED
    BY <1>3, <1>4
<1> HIDE DEF out
<1>7. /\ trip'.job = trip.job /\ trip'.at = "returned" /\ trip'.fields = trip.fields
      /\ trip'.rows = out
  BY <1>1 DEF TripTypeOK
<1>8. TripTypeOK'
  BY <1>1, <1>5 DEF TripTypeOK, Phases
<1>9. InterchangeKeepsCells'
  <2>1. /\ Entered' = Entered /\ (\A o : SameInPython(o)' = SameInPython(o))
        /\ (\A name : FirstNamed(name)' = FirstNamed(name))
    BY <1>7, SameJob
  <2>2. \A o, name : SameInPython(o)' = SameInPython(o) /\ FirstNamed(name)' = FirstNamed(name)
    BY <2>1
  <2> HIDE DEF n, m
  <2>3. Len(trip'.rows) = n /\ Len(trip'.fields) = m
    BY <1>5, <1>7 DEF m
  <2> QED
    BY <1>1, <1>6, <1>7, <2>1, <2>3 DEF InterchangeKeepsCells
<1>10. Begins' /\ DatasetIs' /\ BatchesAre' /\ FieldsAre' /\ ReadIs'
  BY <1>7 DEF Begins, DatasetIs, BatchesAre, FieldsAre, ReadIs
<1> QED
  BY <1>8, <1>9, <1>10 DEF TripIInv

LEMMA TripStarts == TripInit => TripIInv
<1> SUFFICES ASSUME TripInit PROVE TripIInv
  OBVIOUS
<1>1. PICK job \in Trips :
        trip = [job |-> job, at |-> job.enters, fields |-> <<>>, rows |-> <<>>,
                batches |-> <<>>, error |-> "none"]
  BY DEF TripInit
<1>2. job.enters \in {"python", "rust", "arrow"}
  BY TripsAssumption
<1>3. TripTypeOK
  <2>1. /\ <<>> \in Seq(Seq(Kinds \X Nat)) /\ <<>> \in Seq(RecordBatches)
        /\ <<>> \in Schemas(ArrowTypes)
    BY DEF Schemas
  <2> QED
    BY <1>1, <1>2, <2>1 DEF TripTypeOK, Phases
<1>4. trip.at = trip.job.enters /\ trip.at \in {"python", "rust", "arrow"}
  BY <1>1, <1>2
<1>5. Begins /\ DatasetIs /\ BatchesAre /\ FieldsAre /\ ReadIs /\ InterchangeKeepsCells
  BY <1>4 DEF Begins, DatasetIs, BatchesAre, FieldsAre, ReadIs, InterchangeKeepsCells
<1> QED
  BY <1>3, <1>5 DEF TripIInv

LEMMA TripStays == TripIInv /\ [TripNext]_trip => TripIInv'
<1> SUFFICES ASSUME TripIInv, [TripNext]_trip PROVE TripIInv'
  OBVIOUS
<1>1. CASE UNCHANGED trip
  <2>1. /\ Entered' = Entered /\ (\A o : InLibrary(o)' = InLibrary(o))
        /\ (\A name : FirstNamed(name)' = FirstNamed(name)) /\ (Admitted <=> Admitted')
        /\ (\A o : SameInPython(o)' = SameInPython(o)) /\ (Reasons <=> Reasons')
        /\ Asked' = Asked
    BY <1>1, SameJob
  <2>2. TripTypeOK' /\ Begins'
    BY <1>1 DEF TripIInv, TripTypeOK, Begins
  <2>3. DatasetIs'
    BY <1>1, <2>1 DEF TripIInv, DatasetIs
  <2>4. BatchRows' = BatchRows /\ (Alike' <=> Alike)
    BY <1>1 DEF BatchRows, Alike
  <2>5. \A i : BatchRow(i)' <=> BatchRow(i)
    BY <2>1, <2>4 DEF BatchRow
  <2>6. BatchesAre' /\ FieldsAre'
    BY <1>1, <2>1, <2>4, <2>5 DEF TripIInv, BatchesAre, FieldsAre
  <2>7. \A i : RowRead(i)' <=> RowRead(i)
    BY <1>1, <2>1 DEF RowRead
  <2>8. ReadIs'
    BY <1>1, <2>1, <2>7 DEF TripIInv, ReadIs
  <2>9. InterchangeKeepsCells'
    BY <1>1, <2>1 DEF TripIInv, InterchangeKeepsCells
  <2> QED
    BY <2>2, <2>3, <2>6, <2>8, <2>9 DEF TripIInv
<1> QED
  BY <1>1, DatasetFromRowsStep, NewDatasetStep, BatchStep, TakeBatchesStep, SchemaStep, ReadStep,
     ToRowsStep DEF TripNext

\* Python rows, a dataset or Arrow batches, of any schema and size: what
\* comes out is what went in, column by column, or there was a reason
\* (dataset_from_rows_py, dataset_to_record_batch, record_batches_to_dataset).
THEOREM CellsAreKept == TripSpec => []InterchangeKeepsCells
<1>1. TripInit => TripIInv
  BY TripStarts
<1>2. TripIInv /\ [TripNext]_trip => TripIInv'
  BY TripStays
<1>3. TripIInv => InterchangeKeepsCells
  BY DEF TripIInv
<1> QED
  BY <1>1, <1>2, <1>3, PTL DEF TripSpec

-----------------------------------------------------------------------------
(* A plan.                                                                 *)

FrameTypeOK ==
  /\ frame \in [spec: Specs, cols: Seq(PlanColumns), at: Nat, pending: BOOLEAN, lost: BOOLEAN,
                answer: {"none", "rows", "parse error", "schema error", "engine error"}]
  /\ frame.at <= Len(frame.spec.steps)

\* After k steps, a column is the one that its name leads back to.
IsTraced(col, k) ==
  /\ col.done = SourceOf(frame.spec.steps, k, col.name).done
  /\ col.origin = IF SourceOf(frame.spec.steps, k, col.name).literal THEN <<>>
                  ELSE <<SourceOf(frame.spec.steps, k, col.name).name>>

CastsLossily ==
  \E i \in 1..Len(frame.spec.steps) :
    frame.spec.steps[i].op = "cast" /\ frame.spec.steps[i].mode = "lossy"

\* What a cell may be, given the cell of the input that it comes from.
ComesFrom(kind, from, done) ==
  /\ kind = "word" => from = "word"
  /\ kind = "null" => \/ from = "null" /\ ~Contains(done, "fill_null")
                      \/ from = "word" /\ CastsLossily
CellsComeFrom(col) ==
  IF col.origin = <<>>
  THEN \A i \in 1..Len(col.cells) : col.cells[i] \notin {"null", "word"}
  ELSE /\ Len(col.cells) = Height(frame.spec.input)
       /\ \A i \in 1..Len(col.cells) :
            ComesFrom(col.cells[i], ColumnNamed(frame.spec.input, col.origin[1]).cells[i],
                      col.done)

SameHeight(cols) ==
  \/ \A i \in 1..Len(cols) : Len(cols[i].cells) = Height(frame.spec.input)
  \/ \A i \in 1..Len(cols) : Len(cols[i].cells) = 1 /\ cols[i].origin = <<>>

ColumnsHold(cols, k) ==
  /\ \A i \in 1..Len(cols) :
       IsTraced(cols[i], k) /\ CellsComeFrom(cols[i]) /\ WellTyped(cols[i])
  /\ SameHeight(cols)

PlanHolds == frame.answer = "none" /\ ~frame.pending => ColumnsHold(frame.cols, frame.at)

FrameIInv == FrameTypeOK /\ PlanHolds /\ SpecIsApplied

Lineages == [name: STRING, done: Seq(StepOps), literal: BOOLEAN]

\* The pair of a step that has an old name, and the one that has a new name.
OldAt(pairs, name) == SelectInSeq(pairs, LAMBDA p : p[1] = name)
NewAt(pairs, name) == SelectInSeq(pairs, LAMBDA p : p[2] = name)

LEMMA PairAt ==
  ASSUME NEW pairs \in Seq(STRING \X STRING), NEW name
  PROVE  /\ \/ OldAt(pairs, name) = 0 /\ \A i \in 1..Len(pairs) : pairs[i][1] # name
            \/ OldAt(pairs, name) \in 1..Len(pairs) /\ pairs[OldAt(pairs, name)][1] = name
         /\ \/ NewAt(pairs, name) = 0 /\ \A i \in 1..Len(pairs) : pairs[i][2] # name
            \/ NewAt(pairs, name) \in 1..Len(pairs) /\ pairs[NewAt(pairs, name)][2] = name
<1> DEFINE n == Len(pairs)
           Has(k) == {i \in 1..n : pairs[i][k] = name}
<1>1. n \in Nat /\ Has(1) \in SUBSET (1..n) /\ Has(2) \in SUBSET (1..n)
  OBVIOUS
<1>2. /\ OldAt(pairs, name) = IF Has(1) = {} THEN 0 ELSE Min(Has(1))
      /\ NewAt(pairs, name) = IF Has(2) = {} THEN 0 ELSE Min(Has(2))
  BY DEF OldAt, NewAt, SelectInSeq
<1>3. /\ Has(1) # {} => Min(Has(1)) \in Has(1)
      /\ Has(2) # {} => Min(Has(2)) \in Has(2)
  <2> HIDE DEF Has, n
  <2> QED
    BY <1>1, LeastIs
<1> QED
  BY <1>2, <1>3

LEMMA StepIs ==
  ASSUME NEW step \in TransformSteps
  PROVE  /\ step.op \in StepOps
         /\ step.op \in {"select", "drop"} => step.columns \in Seq(STRING)
         /\ step.op = "rename" => step.pairs \in Seq(STRING \X STRING)
         /\ step.op \in {"cast", "fill_null", "with_literal", "derive", "utf8"} =>
              step.column \in STRING
         /\ step.op = "derive" => step.name \in STRING
         /\ step.op = "cast" => step.to \in ColumnTypes /\ step.mode \in {"strict", "lossy"}
BY DEF TransformSteps, StepOps

LEMMA PairNames ==
  ASSUME NEW pairs \in Seq(STRING \X STRING), NEW i \in 1..Len(pairs)
  PROVE  pairs[i][1] \in STRING /\ pairs[i][2] \in STRING
<1>1. pairs[i] \in STRING \X STRING
  OBVIOUS
<1> QED
  BY <1>1

LEMMA BeforeIsLineage ==
  ASSUME NEW step \in TransformSteps, NEW after \in Lineages
  PROVE  /\ Before(step, after) \in Lineages
         /\ after.literal => Before(step, after) = after
<1> DEFINE to == NewAt(step.pairs, after.name)
<1>1. /\ after.name \in STRING /\ after.done \in Seq(StepOps) /\ after.literal \in BOOLEAN
      /\ step.op \in StepOps
  <2>1. after.name \in STRING /\ after.done \in Seq(StepOps) /\ after.literal \in BOOLEAN
    BY DEF Lineages
  <2>2. step.op \in StepOps
    BY StepIs
  <2> QED
    BY <2>1, <2>2
<1>2. <<step.op>> \o after.done \in Seq(StepOps)
  BY <1>1
<1>3. step.op = "rename" => to = 0 \/ step.pairs[to][1] \in STRING
  BY StepIs, PairAt, PairNames
<1>4. step.op = "rename" /\ ~after.literal =>
        Before(step, after) = IF to = 0 THEN after ELSE [after EXCEPT !.name = step.pairs[to][1]]
  BY DEF Before, NewAt
<1>5. step.op # "rename" /\ ~after.literal => Before(step, after) \in Lineages
  <2>1. step.op = "derive" => step.column \in STRING
    BY StepIs
  <2> QED
    BY <1>1, <1>2, <2>1 DEF Before, Lineages
<1>6. after.literal => Before(step, after) = after
  BY DEF Before
<1> HIDE DEF to
<1>7. step.op = "rename" /\ ~after.literal => Before(step, after) \in Lineages
  BY <1>1, <1>3, <1>4 DEF Lineages
<1> QED
  BY <1>5, <1>6, <1>7

\* What is told backwards begins with the end, and goes on step by step.
LEMMA ToldIs ==
  ASSUME NEW steps \in Seq(TransformSteps), NEW k \in 0..Len(steps), NEW after \in Lineages
  PROVE  /\ ToldFrom(steps, k, after)[0] = after
         /\ \A n \in 0..k : ToldFrom(steps, k, after)[n] \in Lineages
         /\ \A n \in 1..k : ToldFrom(steps, k, after)[n] =
              Before(steps[k + 1 - n], ToldFrom(steps, k, after)[n - 1])
<1> DEFINE next1(told, n) == IF n = 0 THEN after ELSE Before(steps[k + 1 - n], told[n - 1])
           IsTold(f) == f = [n \in 0..k |-> next1(f, n)]
           L == CHOOSE f : IsTold(f)
           back == [n \in 1..k |-> [x \in Lineages |-> Before(steps[k + 1 - n], x)]]
<1>1. k \in Nat /\ \A n \in 1..k : steps[k + 1 - n] \in TransformSteps
  <2> SUFFICES ASSUME NEW n \in 1..k PROVE steps[k + 1 - n] \in TransformSteps
    OBVIOUS
  <2>1. k + 1 - n \in 1..Len(steps)
    OBVIOUS
  <2> QED
    BY <2>1
<1>2. back \in [1..k -> [Lineages -> Lineages]]
  BY <1>1, BeforeIsLineage
<1>3. PICK g : g \in Recursive(k, Lineages, after, back)
  <2> HIDE DEF back
  <2> QED
    BY <1>1, <1>2, Recursion
<1>4. g \in [0..k -> Lineages] /\ g[0] = after /\ \A n \in 1..k : g[n] = back[n][g[n - 1]]
  BY <1>3 DEF Recursive
<1>5. \A n \in 0..k : g[n] = next1(g, n)
  <2> SUFFICES ASSUME NEW n \in 0..k, n # 0 PROVE g[n] = next1(g, n)
    BY <1>4
  <2>1. n \in 1..k /\ n - 1 \in 0..k /\ g[n - 1] \in Lineages
    BY <1>1, <1>4
  <2>2. back[n][g[n - 1]] = Before(steps[k + 1 - n], g[n - 1])
    BY <2>1
  <2> QED
    BY <1>4, <2>1, <2>2
<1>6. IsTold(g)
  <2> HIDE DEF next1
  <2> QED
    BY <1>4, <1>5
<1>7. IsTold(L)
  <2> HIDE DEF IsTold
  <2> QED
    BY <1>6
<1>8. ToldFrom(steps, k, after) = L
  BY DEF ToldFrom
<1>9. \A n \in 0..k : L[n] = next1(L, n)
  <2> HIDE DEF L, next1
  <2> QED
    BY <1>7
<1> HIDE DEF L
<1>10. L[0] = after
  BY <1>1, <1>9
<1>11. \A n \in 1..k : L[n] = Before(steps[k + 1 - n], L[n - 1])
  BY <1>1, <1>9
<1>12. \A n \in 0..k : L[n] \in Lineages
  <2> DEFINE T == {n \in 0..k : L[n] \in Lineages}
  <2>1. 0 \in T
    BY <1>1, <1>10
  <2>2. \A n \in 1..k : n - 1 \in T => n \in T
    <3> SUFFICES ASSUME NEW n \in 1..k, n - 1 \in T PROVE L[n] \in Lineages
      BY <1>1
    <3>1. L[n - 1] \in Lineages /\ steps[k + 1 - n] \in TransformSteps
      BY <1>1
    <3>2. Before(steps[k + 1 - n], L[n - 1]) \in Lineages
      BY <3>1, BeforeIsLineage
    <3> QED
      BY <1>11, <3>2
  <2> HIDE DEF T
  <2>3. 0..k \subseteq T
    BY <1>1, <2>1, <2>2, IntervalInduction
  <2> QED
    BY <2>3 DEF T
<1> QED
  BY <1>8, <1>10, <1>11, <1>12

\* Later changes come after the earlier ones.
Later(lineage, done) == [lineage EXCEPT !.done = @ \o done]

LEMMA LaterIsLineage ==
  ASSUME NEW after \in Lineages, NEW done \in Seq(StepOps)
  PROVE  /\ Later(after, done) \in Lineages
         /\ Later(after, done).name = after.name /\ Later(after, done).literal = after.literal
         /\ Later(after, done).done = after.done \o done
<1>1. after.name \in STRING /\ after.done \in Seq(StepOps) /\ after.literal \in BOOLEAN
  BY DEF Lineages
<1>2. after.done \o done \in Seq(StepOps)
  BY <1>1
<1> QED
  BY <1>1, <1>2 DEF Later, Lineages

LEMMA BeforeLater ==
  ASSUME NEW step \in TransformSteps, NEW after \in Lineages, NEW done \in Seq(StepOps)
  PROVE  Before(step, Later(after, done)) = Later(Before(step, after), done)
<1> DEFINE later == Later(after, done)
           to == NewAt(step.pairs, after.name)
<1>1. /\ later \in Lineages /\ later.name = after.name /\ later.literal = after.literal
      /\ later.done = after.done \o done
  BY LaterIsLineage
<1>2. after.done \in Seq(StepOps) /\ after.literal \in BOOLEAN /\ <<step.op>> \in Seq(StepOps)
  <2>1. step.op \in StepOps
    BY StepIs
  <2> QED
    BY <2>1 DEF Lineages
<1>3. (<<step.op>> \o after.done) \o done = <<step.op>> \o (after.done \o done)
  <2> DEFINE x == <<step.op>>
             y == after.done
  <2>1. x \in Seq(StepOps) /\ y \in Seq(StepOps)
    BY <1>2
  <2> HIDE DEF x, y, later, to
  <2>2. (x \o y) \o done = x \o (y \o done)
    BY <2>1, ConcatAssociative
  <2> QED
    BY <2>2 DEF x, y
<1>4. CASE after.literal
  <2>1. Before(step, after) = after /\ Before(step, later) = later
    BY <1>1, <1>4 DEF Before
  <2> QED
    BY <2>1
<1> HIDE DEF later
<1>5. CASE ~after.literal /\ step.op = "rename"
  <2>1. /\ Before(step, after) = IF to = 0 THEN after ELSE [after EXCEPT !.name = step.pairs[to][1]]
        /\ Before(step, later) = IF to = 0 THEN later ELSE [later EXCEPT !.name = step.pairs[to][1]]
    BY <1>1, <1>5 DEF Before, NewAt
  <2> HIDE DEF to
  <2> QED
    BY <2>1, <1>1 DEF Later, Lineages, later
<1>6. CASE ~after.literal /\ step.op # "rename"
  <2>1. CASE step.op = "derive"
    <3>1. /\ Before(step, after) = IF step.name = after.name
               THEN [after EXCEPT !.done = <<step.op>> \o @, !.name = step.column] ELSE after
          /\ Before(step, later) = IF step.name = after.name
               THEN [later EXCEPT !.done = <<step.op>> \o @, !.name = step.column] ELSE later
      BY <1>1, <1>6, <2>1 DEF Before, Lineages
    <3> QED
      BY <1>1, <1>3, <3>1 DEF Later, Lineages, later
  <2>2. CASE step.op # "derive" /\ (step.op \in {"select", "drop"} \/ step.column # after.name)
    <3>1. Before(step, after) = after /\ Before(step, later) = later
      BY <1>1, <1>6, <2>2 DEF Before
    <3> QED
      BY <3>1 DEF later
  <2>3. CASE ~(step.op \in {"select", "drop"} \/ step.column # after.name) /\ step.op = "with_literal"
    <3>1. /\ Before(step, after) = [after EXCEPT !.literal = TRUE]
          /\ Before(step, later) = [later EXCEPT !.literal = TRUE]
      BY <1>1, <1>6, <2>3 DEF Before
    <3> QED
      BY <1>1, <3>1 DEF Later, Lineages, later
  <2>4. CASE /\ step.op # "derive" /\ ~(step.op \in {"select", "drop"} \/ step.column # after.name)
             /\ step.op # "with_literal"
    <3>1. /\ Before(step, after) = [after EXCEPT !.done = <<step.op>> \o @]
          /\ Before(step, later) = [later EXCEPT !.done = <<step.op>> \o @]
      BY <1>1, <1>6, <2>4 DEF Before
    <3> QED
      BY <1>1, <1>3, <3>1 DEF Later, Lineages, later
  <2> QED
    BY <2>1, <2>2, <2>3, <2>4
<1> QED
  BY <1>4, <1>5, <1>6 DEF later

LEMMA StepAt ==
  ASSUME NEW steps \in Seq(TransformSteps), NEW k \in 0..Len(steps), NEW n \in 1..k
  PROVE  steps[k + 1 - n] \in TransformSteps /\ n - 1 \in 0..k /\ n \in 0..k
<1>1. k + 1 - n \in 1..Len(steps)
  OBVIOUS
<1> QED
  BY <1>1

\* What was done after the step from which a story is told, told with it.
LEMMA ToldLater ==
  ASSUME NEW steps \in Seq(TransformSteps), NEW k \in 0..Len(steps), NEW after \in Lineages,
         NEW done \in Seq(StepOps)
  PROVE  \A n \in 0..k :
           ToldFrom(steps, k, Later(after, done))[n] = Later(ToldFrom(steps, k, after)[n], done)
<1> DEFINE f == ToldFrom(steps, k, after)
           g == ToldFrom(steps, k, Later(after, done))
           T == {n \in 0..k : g[n] = Later(f[n], done)}
<1>1. /\ f[0] = after /\ \A n \in 0..k : f[n] \in Lineages
      /\ \A n \in 1..k : f[n] = Before(steps[k + 1 - n], f[n - 1])
  BY ToldIs
<1>2. /\ g[0] = Later(after, done)
      /\ \A n \in 1..k : g[n] = Before(steps[k + 1 - n], g[n - 1])
  BY LaterIsLineage, ToldIs
<1> HIDE DEF f, g
<1>3. k \in Nat /\ 0 \in T
  BY <1>1, <1>2
<1>4. \A n \in 1..k : n - 1 \in T => n \in T
  <2> SUFFICES ASSUME NEW n \in 1..k, n - 1 \in T PROVE n \in T
    OBVIOUS
  <2>1. steps[k + 1 - n] \in TransformSteps /\ n - 1 \in 0..k /\ n \in 0..k
    BY StepAt
  <2>2. g[n - 1] = Later(f[n - 1], done) /\ f[n - 1] \in Lineages
    BY <1>1, <2>1
  <2>3. Before(steps[k + 1 - n], Later(f[n - 1], done)) =
          Later(Before(steps[k + 1 - n], f[n - 1]), done)
    BY <2>1, <2>2, BeforeLater
  <2> QED
    BY <1>1, <1>2, <2>1, <2>2, <2>3
<1> HIDE DEF T
<1>5. 0..k \subseteq T
  BY <1>3, <1>4, IntervalInduction
<1> QED
  BY <1>5 DEF T, f, g

\* A story told from one step on.
LEMMA ToldEarlier ==
  ASSUME NEW steps \in Seq(TransformSteps), NEW k \in 0..(Len(steps) - 1), NEW after \in Lineages
  PROVE  \A n \in 0..k :
           ToldFrom(steps, k + 1, after)[n + 1] = ToldFrom(steps, k, Before(steps[k + 1], after))[n]
<1> DEFINE f == ToldFrom(steps, k + 1, after)
           b == Before(steps[k + 1], after)
           g == ToldFrom(steps, k, b)
           T == {n \in 0..k : f[n + 1] = g[n]}
<1>0. /\ k \in Nat /\ k \in 0..Len(steps) /\ k + 1 \in 0..Len(steps)
      /\ steps[k + 1] \in TransformSteps
  OBVIOUS
<1>1. /\ f[0] = after
      /\ \A n \in 1..(k + 1) : f[n] = Before(steps[(k + 1) + 1 - n], f[n - 1])
  BY <1>0, ToldIs
<1>b. b \in Lineages
  BY <1>0, BeforeIsLineage
<1>2. /\ g[0] = b
      /\ \A n \in 1..k : g[n] = Before(steps[k + 1 - n], g[n - 1])
  <2> HIDE DEF b
  <2> QED
    BY <1>0, <1>b, ToldIs
<1> HIDE DEF f, g
<1>3. 0 \in T
  <2>1. f[1] = Before(steps[(k + 1) + 1 - 1], f[1 - 1]) /\ (k + 1) + 1 - 1 = k + 1 /\ 1 - 1 = 0
    BY <1>0, <1>1
  <2>2. f[1] = b
    BY <1>1, <2>1
  <2> QED
    BY <1>0, <1>2, <2>2
<1>4. \A n \in 1..k : n - 1 \in T => n \in T
  <2> SUFFICES ASSUME NEW n \in 1..k, n - 1 \in T PROVE n \in T
    OBVIOUS
  <2>1. /\ n + 1 \in 1..(k + 1) /\ (k + 1) + 1 - (n + 1) = k + 1 - n /\ (n + 1) - 1 = n
        /\ (n - 1) + 1 = n /\ n \in 0..k
    BY <1>0
  <2>2. f[n + 1] = Before(steps[k + 1 - n], f[n])
    BY <1>1, <2>1
  <2>3. f[n] = g[n - 1]
    BY <2>1
  <2> QED
    BY <1>2, <2>1, <2>2, <2>3
<1> HIDE DEF T
<1>5. 0..k \subseteq T
  BY <1>0, <1>3, <1>4, IntervalInduction
<1> QED
  BY <1>5 DEF T, f, g

LEMMA LiteralIsTold ==
  ASSUME NEW steps \in Seq(TransformSteps), NEW k \in 0..Len(steps), NEW after \in Lineages,
         after.literal
  PROVE  \A n \in 0..k : ToldFrom(steps, k, after)[n] = after
<1> DEFINE f == ToldFrom(steps, k, after)
           T == {n \in 0..k : f[n] = after}
<1>1. f[0] = after /\ \A n \in 1..k : f[n] = Before(steps[k + 1 - n], f[n - 1])
  BY ToldIs
<1> HIDE DEF f
<1>2. k \in Nat /\ 0 \in T
  BY <1>1
<1>3. \A n \in 1..k : n - 1 \in T => n \in T
  <2> SUFFICES ASSUME NEW n \in 1..k, n - 1 \in T PROVE n \in T
    OBVIOUS
  <2>1. steps[k + 1 - n] \in TransformSteps /\ n \in 0..k
    BY StepAt
  <2>2. f[n] = Before(steps[k + 1 - n], after)
    BY <1>1
  <2> QED
    BY <2>1, <2>2, BeforeIsLineage
<1> HIDE DEF T
<1>4. 0..k \subseteq T
  BY <1>2, <1>3, IntervalInduction
<1> QED
  BY <1>4 DEF T, f

\* Where a column comes from after a step, from where it came before the step.
LEMMA SourceAfter ==
  ASSUME NEW steps \in Seq(TransformSteps), NEW k \in 0..(Len(steps) - 1), NEW name \in STRING,
         NEW b, b = Before(steps[k + 1], Called(name))
  PROVE  /\ b \in Lineages
         /\ b.literal => SourceOf(steps, k + 1, name) = b
         /\ ~b.literal => SourceOf(steps, k + 1, name) = Later(SourceOf(steps, k, b.name), b.done)
<1>1. /\ k \in Nat /\ k \in 0..k /\ k \in 0..Len(steps)
      /\ steps[k + 1] \in TransformSteps
  OBVIOUS
<1>2. Called(name) \in Lineages
  BY DEF Called, Lineages
<1>3. b \in Lineages
  BY <1>1, <1>2, BeforeIsLineage
<1>4. SourceOf(steps, k + 1, name) = ToldFrom(steps, k, b)[k]
  BY <1>1, <1>2, ToldEarlier DEF SourceOf
<1>5. b.literal => SourceOf(steps, k + 1, name) = b
  BY <1>1, <1>3, <1>4, LiteralIsTold
<1>6. ASSUME ~b.literal
      PROVE  SourceOf(steps, k + 1, name) = Later(SourceOf(steps, k, b.name), b.done)
  <2>1. b.name \in STRING /\ b.done \in Seq(StepOps) /\ b.literal = FALSE
    BY <1>3, <1>6 DEF Lineages
  <2>2. Called(b.name) \in Lineages
    BY <2>1 DEF Called, Lineages
  <2>3. Later(Called(b.name), b.done) = b
    <3>1. <<>> \o b.done = b.done
      BY <2>1
    <3> DEFINE c == Called(b.name)
               d == Later(c, b.done)
    <3>2. c.name = b.name /\ c.done = <<>> /\ c.literal = FALSE
      BY DEF Called
    <3> HIDE DEF c
    <3>3. d \in Lineages /\ d.name = b.name /\ d.literal = FALSE /\ d.done = b.done
      <4>1. c \in Lineages
        BY <2>2 DEF c
      <4>2. /\ d \in Lineages /\ d.name = c.name /\ d.literal = c.literal
            /\ d.done = c.done \o b.done
        BY <2>1, <4>1, LaterIsLineage
      <4> HIDE DEF d
      <4> QED
        BY <3>1, <3>2, <4>2
    <3> HIDE DEF d
    <3>4. d = b
      BY <1>3, <2>1, <3>3 DEF Lineages
    <3> QED
      BY <3>4 DEF c, d
  <2>4. ToldFrom(steps, k, Later(Called(b.name), b.done))[k] =
          Later(ToldFrom(steps, k, Called(b.name))[k], b.done)
    BY <1>1, <2>1, <2>2, ToldLater
  <2> QED
    BY <1>4, <2>3, <2>4 DEF SourceOf
<1> QED
  BY <1>3, <1>5, <1>6

\* A function on the first naturals is a sequence.
LEMMA ColumnsAreListed ==
  ASSUME NEW n \in Nat, NEW columns \in [1..n -> PlanColumns]
  PROVE  columns \in Seq(PlanColumns) /\ Len(columns) = n
  OBVIOUS

LEMMA FrameIs ==
  ASSUME FrameTypeOK
  PROVE  /\ frame.spec \in Specs /\ frame.cols \in Seq(PlanColumns) /\ frame.at \in Nat
         /\ frame.pending \in BOOLEAN /\ frame.lost \in BOOLEAN
         /\ frame.at \in 0..Len(frame.spec.steps)
         /\ frame.spec.steps \in Seq(TransformSteps)
         /\ frame.spec.output \in Seq([name: STRING, type: ColumnTypes])
         /\ frame.spec.input \in Seq(PlanColumns) /\ frame.spec.input # <<>>
         /\ frame = [spec |-> frame.spec, cols |-> frame.cols, at |-> frame.at,
                     pending |-> frame.pending, lost |-> frame.lost, answer |-> frame.answer]
<1>1. /\ frame.spec \in Specs /\ frame.cols \in Seq(PlanColumns) /\ frame.at \in Nat
      /\ frame.pending \in BOOLEAN /\ frame.lost \in BOOLEAN
      /\ frame = [spec |-> frame.spec, cols |-> frame.cols, at |-> frame.at,
                  pending |-> frame.pending, lost |-> frame.lost, answer |-> frame.answer]
      /\ frame.at <= Len(frame.spec.steps)
  BY DEF FrameTypeOK
<1>2. /\ frame.spec.steps \in Seq(TransformSteps)
      /\ frame.spec.output \in Seq([name: STRING, type: ColumnTypes])
      /\ frame.spec.input \in Seq(PlanColumns) \ {<<>>}
  BY <1>1, SpecsAssumption
<1>3. Len(frame.spec.steps) \in Nat
  BY <1>2
<1> QED
  BY <1>1, <1>2, <1>3

\* The three ways on from a plan.
LEMMA PlanFails ==
  ASSUME FrameIInv, NEW kind \in {"parse error", "schema error", "engine error"},
         ReturnsError(kind)
  PROVE  FrameIInv'
<1>1. frame' = [frame EXCEPT !.answer = kind]
  BY DEF ReturnsError
<1>2. FrameTypeOK' /\ frame'.answer = kind
  BY <1>1 DEF FrameIInv, FrameTypeOK
<1>3. PlanHolds' /\ SpecIsApplied'
  BY <1>2 DEF PlanHolds, SpecIsApplied, EveryStepApplied, NullsAccountedFor
<1> QED
  BY <1>2, <1>3 DEF FrameIInv

LEMMA PlanBreaks ==
  ASSUME FrameIInv, frame.answer = "none", frame.at < Len(frame.spec.steps), Unplannable
  PROVE  FrameIInv'
<1>1. frame' = [frame EXCEPT !.at = @ + 1, !.pending = TRUE]
  BY DEF Unplannable
<1>2. Len(frame.spec.steps) \in Nat /\ frame.at \in Nat /\ frame.at + 1 \in Nat
      /\ frame.at + 1 <= Len(frame.spec.steps)
  BY FrameIs DEF FrameIInv
<1>a. frame' = [spec |-> frame.spec, cols |-> frame.cols, at |-> frame.at + 1,
                pending |-> TRUE, lost |-> frame.lost, answer |-> "none"]
  BY <1>1, FrameIs DEF FrameIInv
<1>3. FrameTypeOK' /\ frame'.answer = "none" /\ frame'.pending
  BY <1>a, <1>2, FrameIs DEF FrameIInv, FrameTypeOK
<1>4. PlanHolds' /\ SpecIsApplied'
  BY <1>3 DEF PlanHolds, SpecIsApplied, EveryStepApplied, NullsAccountedFor
<1> QED
  BY <1>3, <1>4 DEF FrameIInv

LEMMA PlanGoesOn ==
  ASSUME FrameIInv, frame.answer = "none", frame.at < Len(frame.spec.steps),
         NEW cols \in Seq(PlanColumns), NEW lost \in BOOLEAN,
         frame' = [frame EXCEPT !.at = @ + 1, !.cols = cols, !.lost = lost],
         ~frame.pending => ColumnsHold(cols, frame.at + 1)
  PROVE  FrameIInv'
<1>1. Len(frame.spec.steps) \in Nat /\ frame.at \in Nat /\ frame.at + 1 \in Nat
      /\ frame.at + 1 <= Len(frame.spec.steps)
  BY FrameIs DEF FrameIInv
<1>a. frame' = [spec |-> frame.spec, cols |-> cols, at |-> frame.at + 1,
                pending |-> frame.pending, lost |-> lost, answer |-> "none"]
  BY FrameIs DEF FrameIInv
<1>2. /\ FrameTypeOK' /\ frame'.answer = "none" /\ frame'.pending = frame.pending
      /\ frame'.spec = frame.spec /\ frame'.cols = cols /\ frame'.at = frame.at + 1
  BY <1>a, <1>1, FrameIs DEF FrameIInv, FrameTypeOK
<1>3. SpecIsApplied'
  BY <1>2 DEF SpecIsApplied, EveryStepApplied, NullsAccountedFor
<1>4. PlanHolds'
  BY <1>2 DEF PlanHolds, ColumnsHold, SameHeight, IsTraced, CellsComeFrom, ComesFrom,
    CastsLossily, WellTyped
<1> QED
  BY <1>2, <1>3, <1>4 DEF FrameIInv

LEMMA PlanIfHolds ==
  ASSUME FrameIInv, frame.answer = "none", frame.at < Len(frame.spec.steps),
         NEW valid, NEW cols, PlanIf(valid, cols),
         valid /\ ~frame.pending => cols \in Seq(PlanColumns) /\ ColumnsHold(cols, frame.at + 1)
  PROVE  FrameIInv'
<1>1. CASE frame.pending \/ ~valid
  <2>1. Unplannable
    BY <1>1 DEF PlanIf
  <2> QED
    BY <2>1, PlanBreaks
<1>2. CASE ~(frame.pending \/ ~valid)
  <2>1. PICK lost \in BOOLEAN :
          frame' = [frame EXCEPT !.at = @ + 1, !.cols = cols, !.lost = lost]
    <3> DEFINE gone == \E i \in 1..Len(frame.cols) :
                         /\ Broken(frame.cols[i])
                         /\ ~\E j \in 1..Len(cols) : cols[j].cells = frame.cols[i].cells
    <3>1. Planned(cols)
      BY <1>2 DEF PlanIf
    <3>2. frame' = [frame EXCEPT !.at = @ + 1, !.cols = cols, !.lost = @ \/ gone]
      BY <3>1 DEF Planned
    <3>3. frame.lost \in BOOLEAN /\ gone \in BOOLEAN
      BY FrameIs DEF FrameIInv
    <3> HIDE DEF gone
    <3>4. frame' = [frame EXCEPT !.at = @ + 1, !.cols = cols, !.lost = (frame.lost \/ gone)]
      BY <3>2
    <3> QED
      BY <3>3, <3>4
  <2> QED
    BY <1>2, <2>1, PlanGoesOn
<1> QED
  BY <1>1, <1>2

LEMMA NamedIs ==
  ASSUME NEW cols, NEW name, HasColumn(cols, name)
  PROVE  \E j \in 1..Len(cols) : ColumnNamed(cols, name) = cols[j] /\ cols[j].name = name
<1> DEFINE j == CHOOSE i \in 1..Len(cols) : cols[i].name = name
<1>1. j \in 1..Len(cols) /\ cols[j].name = name
  BY DEF HasColumn
<1>2. ColumnNamed(cols, name) = cols[j]
  BY DEF ColumnNamed
<1> HIDE DEF j
<1> QED
  BY <1>1, <1>2

\* A name that the step does not mention, and one whose column it changes.
LEMMA SourceStays ==
  ASSUME NEW steps \in Seq(TransformSteps), NEW k \in 0..(Len(steps) - 1), NEW name \in STRING,
         NEW old \in STRING, Before(steps[k + 1], Called(name)) = Called(old)
  PROVE  SourceOf(steps, k + 1, name) = SourceOf(steps, k, old)
<1> DEFINE b == Called(old)
           x == SourceOf(steps, k, old)
<1>1. b.name = old /\ b.done = <<>> /\ b.literal = FALSE /\ b \in Lineages
  BY DEF Called, Lineages
<1> HIDE DEF b
<1>2. SourceOf(steps, k + 1, name) = Later(x, <<>>)
  <2>1. b = Before(steps[k + 1], Called(name))
    BY DEF b
  <2> HIDE DEF x
  <2>2. SourceOf(steps, k + 1, name) = Later(SourceOf(steps, k, b.name), b.done)
    BY <1>1, <2>1, SourceAfter
  <2> QED
    BY <1>1, <2>2 DEF x
<1>3. x \in Lineages
  <2>1. k \in Nat /\ k \in 0..Len(steps) /\ k \in 0..k
    OBVIOUS
  <2> QED
    BY <1>1, <2>1, ToldIs DEF SourceOf, b
<1> HIDE DEF x
<1>4. <<>> \in Seq(StepOps) /\ x.done \in Seq(StepOps)
  BY <1>3 DEF Lineages
<1>5. Later(x, <<>>) \in Lineages /\ Later(x, <<>>).name = x.name
      /\ Later(x, <<>>).literal = x.literal /\ Later(x, <<>>).done = x.done \o <<>>
  BY <1>3, <1>4, LaterIsLineage
<1>6. x.done \o <<>> = x.done
  BY <1>4
<1> DEFINE y == Later(x, <<>>)
<1>7. y \in Lineages /\ y.name = x.name /\ y.literal = x.literal /\ y.done = x.done
  BY <1>5, <1>6
<1>8. SourceOf(steps, k + 1, name) = y
  BY <1>2
<1> HIDE DEF y
<1>9. y = x
  BY <1>3, <1>7 DEF Lineages
<1> QED
  BY <1>8, <1>9 DEF x

LEMMA SourceChanges ==
  ASSUME NEW steps \in Seq(TransformSteps), NEW k \in 0..(Len(steps) - 1), NEW name \in STRING,
         NEW old \in STRING, NEW what \in StepOps,
         Before(steps[k + 1], Called(name)) = [name |-> old, done |-> <<what>>, literal |-> FALSE]
  PROVE  /\ SourceOf(steps, k + 1, name).name = SourceOf(steps, k, old).name
         /\ SourceOf(steps, k + 1, name).literal = SourceOf(steps, k, old).literal
         /\ SourceOf(steps, k + 1, name).done = Append(SourceOf(steps, k, old).done, what)
<1> DEFINE b == [name |-> old, done |-> <<what>>, literal |-> FALSE]
           x == SourceOf(steps, k, old)
<1>1. b.name = old /\ b.done = <<what>> /\ b.literal = FALSE /\ <<what>> \in Seq(StepOps)
  OBVIOUS
<1> HIDE DEF b
<1>2. SourceOf(steps, k + 1, name) = Later(x, <<what>>)
  BY <1>1, SourceAfter DEF b
<1>3. x \in Lineages
  <2>1. k \in Nat /\ k \in 0..Len(steps) /\ k \in 0..k /\ Called(old) \in Lineages
    BY DEF Called, Lineages
  <2> QED
    BY <2>1, ToldIs DEF SourceOf
<1> HIDE DEF x
<1>4. /\ Later(x, <<what>>).name = x.name /\ Later(x, <<what>>).literal = x.literal
      /\ Later(x, <<what>>).done = x.done \o <<what>>
  BY <1>1, <1>3, LaterIsLineage
<1>5. x.done \o <<what>> = Append(x.done, what)
  BY <1>3, AppendIsConcat DEF Lineages
<1> QED
  BY <1>2, <1>4, <1>5 DEF x

\* What a step does to the columns, when it does something to one of them.
LEMMA WithColumnHolds ==
  ASSUME FrameIInv, frame.answer = "none", frame.at < Len(frame.spec.steps), ~frame.pending,
         NEW col \in PlanColumns, IsTraced(col, frame.at + 1), CellsComeFrom(col), WellTyped(col),
         \A name \in STRING : name # col.name =>
           SourceOf(frame.spec.steps, frame.at + 1, name) = SourceOf(frame.spec.steps, frame.at, name),
         IF frame.cols = <<>>
         THEN \/ Len(col.cells) = Height(frame.spec.input)
              \/ Len(col.cells) = 1 /\ col.origin = <<>>
         ELSE \E j \in 1..Len(frame.cols) : /\ Len(col.cells) = Len(frame.cols[j].cells)
                                            /\ col.origin \in {<<>>, frame.cols[j].origin}
  PROVE  /\ WithColumn(frame.cols, col) \in Seq(PlanColumns)
         /\ ColumnsHold(WithColumn(frame.cols, col), frame.at + 1)
<1> DEFINE cols == WithColumn(frame.cols, col)
           n == Len(frame.cols)
<1>1. frame.cols \in Seq(PlanColumns) /\ ColumnsHold(frame.cols, frame.at)
  BY FrameIs DEF FrameIInv, PlanHolds
<1>2. n \in Nat /\ frame.cols \in [1..n -> PlanColumns]
  BY <1>1
<1>3. /\ cols \in Seq(PlanColumns) /\ Len(cols) \in {n, n + 1} /\ (n = 0 => Len(cols) = 1)
      /\ \A i \in 1..Len(cols) : \/ cols[i] = col
                                 \/ i \in 1..n /\ cols[i] = frame.cols[i] /\ cols[i].name # col.name
  <2>1. CASE HasColumn(frame.cols, col.name)
    <3>1. cols = [i \in 1..n |-> IF frame.cols[i].name = col.name THEN col ELSE frame.cols[i]]
      BY <2>1 DEF WithColumn
    <3> HIDE DEF cols
    <3>2. cols \in [1..n -> PlanColumns]
      BY <1>2, <3>1
    <3>3. cols \in Seq(PlanColumns) /\ Len(cols) = n
      BY <1>2, <3>2
    <3>4. n # 0
      BY <1>2, <2>1 DEF HasColumn
    <3> QED
      BY <3>1, <3>3, <3>4
  <2>2. CASE ~HasColumn(frame.cols, col.name)
    <3>1. cols = Append(frame.cols, col)
      BY <2>2 DEF WithColumn
    <3>2. \A i \in 1..n : frame.cols[i].name # col.name
      BY <2>2 DEF HasColumn
    <3> HIDE DEF cols
    <3> QED
      BY <1>1, <1>2, <3>1, <3>2
  <2> QED
    BY <2>1, <2>2
<1> HIDE DEF cols
<1>4. \A i \in 1..Len(cols) :
        IsTraced(cols[i], frame.at + 1) /\ CellsComeFrom(cols[i]) /\ WellTyped(cols[i])
  <2> SUFFICES ASSUME NEW i \in 1..Len(cols), cols[i] # col
               PROVE  /\ IsTraced(cols[i], frame.at + 1) /\ CellsComeFrom(cols[i])
                      /\ WellTyped(cols[i])
    OBVIOUS
  <2>1. i \in 1..n /\ cols[i] = frame.cols[i] /\ cols[i].name # col.name
    BY <1>3
  <2>2. /\ IsTraced(cols[i], frame.at) /\ CellsComeFrom(cols[i]) /\ WellTyped(cols[i])
        /\ cols[i] \in PlanColumns
    BY <1>1, <1>2, <2>1 DEF ColumnsHold
  <2>3. cols[i].name \in STRING
    BY <2>2 DEF PlanColumns
  <2> QED
    BY <2>1, <2>2, <2>3 DEF IsTraced
<1>5. SameHeight(cols)
  <2>1. CASE n = 0
    <3>1. frame.cols = <<>> /\ Len(cols) = 1
      BY <1>1, <1>2, <1>3, <2>1
    <3>2. \A i \in 1..Len(cols) : cols[i] = col
      BY <1>3, <2>1
    <3> QED
      BY <3>1, <3>2 DEF SameHeight
  <2>2. CASE n # 0
    <3>1. PICK j \in 1..n : /\ Len(col.cells) = Len(frame.cols[j].cells)
                            /\ col.origin \in {<<>>, frame.cols[j].origin}
      BY <1>2, <2>2
    <3>2. SameHeight(frame.cols)
      BY <1>1 DEF ColumnsHold
    <3>3. \A i \in 1..Len(cols) : cols[i] = col \/ (i \in 1..n /\ cols[i] = frame.cols[i])
      BY <1>3
    <3> QED
      BY <3>1, <3>2, <3>3 DEF SameHeight
  <2> QED
    BY <2>1, <2>2
<1> QED
  BY <1>3, <1>4, <1>5 DEF ColumnsHold, cols

\* A column that a step has changed.
LEMMA ChangedIs ==
  ASSUME NEW col \in PlanColumns, NEW what \in StepOps, NEW type \in ColumnTypes,
         NEW cells \in Seq(CellKinds)
  PROVE  /\ Changed(col, what, type, cells) \in PlanColumns
         /\ Changed(col, what, type, cells).name = col.name
         /\ Changed(col, what, type, cells).type = type
         /\ Changed(col, what, type, cells).origin = col.origin
         /\ Changed(col, what, type, cells).done = Append(col.done, what)
         /\ Changed(col, what, type, cells).cells = cells
<1>1. col.done \in Seq(StepOps)
  BY DEF PlanColumns
<1>2. Append(col.done, what) \in Seq(StepOps)
  BY <1>1
<1> DEFINE done == Append(col.done, what)
           new == [col EXCEPT !.done = done, !.type = type, !.cells = cells]
<1>3. Changed(col, what, type, cells) = new
  BY DEF Changed
<1> HIDE DEF done
<1>4. /\ new \in PlanColumns /\ new.name = col.name /\ new.type = type
      /\ new.origin = col.origin /\ new.done = done /\ new.cells = cells
  BY <1>2 DEF PlanColumns, done
<1> HIDE DEF new
<1> QED
  BY <1>3, <1>4 DEF done

LEMMA ChangedComesFrom ==
  ASSUME NEW col \in PlanColumns, CellsComeFrom(col), NEW what \in StepOps,
         NEW new \in PlanColumns, new.origin = col.origin, new.done = Append(col.done, what),
         Len(new.cells) = Len(col.cells),
         \A i \in 1..Len(col.cells) :
           \/ new.cells[i] = col.cells[i] /\ (what = "fill_null" => col.cells[i] # "null")
           \/ new.cells[i] \notin {"null", "word"}
           \/ new.cells[i] = "null" /\ col.cells[i] = "word" /\ CastsLossily
  PROVE  CellsComeFrom(new)
<1>1. col.done \in Seq(StepOps)
  BY DEF PlanColumns
<1>2. what # "fill_null" /\ ~Contains(col.done, "fill_null") => ~Contains(new.done, "fill_null")
  <2> SUFFICES ASSUME what # "fill_null", NEW i \in 1..Len(new.done), new.done[i] = "fill_null"
               PROVE  \E j \in 1..Len(col.done) : col.done[j] = "fill_null"
    BY DEF Contains
  <2> QED
    BY <1>1
<1>3. CASE col.origin = <<>>
  BY <1>3 DEF CellsComeFrom
<1>4. CASE col.origin # <<>>
  <2> DEFINE from(i) == ColumnNamed(frame.spec.input, col.origin[1]).cells[i]
  <2>1. /\ Len(col.cells) = Height(frame.spec.input)
        /\ \A i \in 1..Len(col.cells) : ComesFrom(col.cells[i], from(i), col.done)
    BY <1>4 DEF CellsComeFrom
  <2>2. \A i \in 1..Len(col.cells) : ComesFrom(new.cells[i], from(i), new.done)
    <3> SUFFICES ASSUME NEW i \in 1..Len(col.cells)
                 PROVE  ComesFrom(new.cells[i], from(i), new.done)
      OBVIOUS
    <3> DEFINE f == from(i)
    <3>1. ComesFrom(col.cells[i], f, col.done)
      BY <2>1
    <3> HIDE DEF f
    <3>2. ComesFrom(new.cells[i], f, new.done)
      BY <1>2, <3>1 DEF ComesFrom
    <3> QED
      BY <3>2 DEF f
  <2> HIDE DEF from
  <2> QED
    BY <1>4, <2>1, <2>2 DEF CellsComeFrom, from
<1> QED
  BY <1>3, <1>4

\* The step of the specification, and what it says of names.
LEMMA StepHere ==
  ASSUME FrameTypeOK, frame.at < Len(frame.spec.steps)
  PROVE  /\ frame.at \in 0..(Len(frame.spec.steps) - 1)
         /\ Step \in TransformSteps /\ Step = frame.spec.steps[frame.at + 1]
         /\ frame.spec.steps \in Seq(TransformSteps)
<1>1. /\ frame.at \in Nat /\ frame.spec.steps \in Seq(TransformSteps)
      /\ frame.at \in 0..Len(frame.spec.steps)
  BY FrameIs
<1>2. /\ frame.at \in 0..(Len(frame.spec.steps) - 1)
      /\ frame.at + 1 \in 1..Len(frame.spec.steps)
  BY <1>1
<1> QED
  BY <1>1, <1>2 DEF Step

\* A step that changes the cells of one column and nothing else.
LEMMA ChangeHolds ==
  ASSUME FrameIInv, frame.answer = "none", frame.at < Len(frame.spec.steps), ~frame.pending,
         Step.op \in {"cast", "fill_null", "utf8"}, HasColumn(frame.cols, Step.column),
         NEW type \in ColumnTypes, NEW cells \in Seq(CellKinds),
         NEW col, col = ColumnNamed(frame.cols, Step.column),
         Len(cells) = Len(col.cells),
         \A i \in 1..Len(col.cells) :
           \/ cells[i] = col.cells[i] /\ (Step.op = "fill_null" => col.cells[i] # "null")
           \/ cells[i] \notin {"null", "word"}
           \/ cells[i] = "null" /\ col.cells[i] = "word" /\ CastsLossily,
         type # "Utf8" => \A i \in 1..Len(cells) : cells[i] # "word"
  PROVE  /\ WithColumn(frame.cols, Changed(col, Step.op, type, cells)) \in Seq(PlanColumns)
         /\ ColumnsHold(WithColumn(frame.cols, Changed(col, Step.op, type, cells)), frame.at + 1)
<1> DEFINE new == Changed(col, Step.op, type, cells)
           steps == frame.spec.steps
<1>1. /\ frame.at \in 0..(Len(steps) - 1) /\ Step \in TransformSteps
      /\ Step = steps[frame.at + 1] /\ steps \in Seq(TransformSteps)
  BY StepHere, SMTT(30) DEF FrameIInv
<1>2. Step.column \in STRING /\ Step.op \in StepOps
  BY <1>1, StepIs, Zenon
<1>3. frame.cols \in Seq(PlanColumns) /\ ColumnsHold(frame.cols, frame.at)
  BY FrameIs DEF FrameIInv, PlanHolds
<1>4. PICK j \in 1..Len(frame.cols) : col = frame.cols[j] /\ col.name = Step.column
  BY NamedIs
<1>5. /\ col \in PlanColumns /\ IsTraced(col, frame.at) /\ CellsComeFrom(col)
  BY <1>3, <1>4 DEF ColumnsHold
<1>6. /\ new \in PlanColumns /\ new.name = Step.column /\ new.type = type
      /\ new.origin = col.origin /\ new.done = Append(col.done, Step.op) /\ new.cells = cells
  BY <1>2, <1>4, <1>5, ChangedIs, SMTT(30)
<1> HIDE DEF new
<1>7. CellsComeFrom(new)
  BY <1>2, <1>5, <1>6, ChangedComesFrom
<1>8. WellTyped(new)
  BY <1>6 DEF WellTyped
<1>9. \A name \in STRING : name # Step.column =>
        SourceOf(steps, frame.at + 1, name) = SourceOf(steps, frame.at, name)
  <2> SUFFICES ASSUME NEW name \in STRING, name # Step.column
               PROVE  SourceOf(steps, frame.at + 1, name) = SourceOf(steps, frame.at, name)
    OBVIOUS
  <2>1. Before(Step, Called(name)) = Called(name)
    BY DEF Before, Called
  <2> HIDE DEF steps
  <2> QED
    BY <1>1, <2>1, SourceStays
<1>10. IsTraced(new, frame.at + 1)
  <2>1. Before(Step, Called(Step.column)) =
          [name |-> Step.column, done |-> <<Step.op>>, literal |-> FALSE]
    <3>1. <<Step.op>> \o <<>> = <<Step.op>>
      BY <1>2
    <3>2. Before(Step, Called(Step.column)) =
            [Called(Step.column) EXCEPT !.done = <<Step.op>> \o @]
      BY DEF Before, Called
    <3> QED
      BY <3>1, <3>2 DEF Called
  <2> HIDE DEF steps
  <2>2. /\ SourceOf(steps, frame.at + 1, Step.column).name =
             SourceOf(steps, frame.at, Step.column).name
        /\ SourceOf(steps, frame.at + 1, Step.column).literal =
             SourceOf(steps, frame.at, Step.column).literal
        /\ SourceOf(steps, frame.at + 1, Step.column).done =
             Append(SourceOf(steps, frame.at, Step.column).done, Step.op)
    BY <1>1, <1>2, <2>1, SourceChanges, ZenonT(60)
  <2> QED
    BY <1>4, <1>5, <1>6, <2>2 DEF IsTraced, steps
<1>11. frame.cols # <<>>
  BY <1>3, <1>4
<1> QED
  BY <1>4, <1>6, <1>7, <1>8, <1>9, <1>10, <1>11, WithColumnHolds DEF new

LEMMA CastStepHolds == FrameIInv /\ CastStep => FrameIInv'
<1> SUFFICES ASSUME FrameIInv, CastStep PROVE FrameIInv'
  OBVIOUS
<1> DEFINE col == ColumnNamed(frame.cols, Step.column)
           cells == [i \in 1..Len(col.cells) |->
                       CastKind(col.cells[i], col.type, Step.to, Step.mode)]
           cols == WithColumn(frame.cols, Changed(col, "cast", Step.to, cells))
           valid == HasColumn(frame.cols, Step.column)
<1>1. /\ frame.answer = "none" /\ frame.at < Len(frame.spec.steps) /\ Step.op = "cast"
      /\ PlanIf(valid, cols)
  BY DEF CastStep, Planning
<1>2. valid /\ ~frame.pending => cols \in Seq(PlanColumns) /\ ColumnsHold(cols, frame.at + 1)
  <2> SUFFICES ASSUME valid, ~frame.pending
               PROVE  cols \in Seq(PlanColumns) /\ ColumnsHold(cols, frame.at + 1)
    OBVIOUS
  <2>1. /\ frame.at \in 0..(Len(frame.spec.steps) - 1) /\ Step \in TransformSteps
        /\ Step = frame.spec.steps[frame.at + 1]
    BY <1>1, StepHere, SMTT(30) DEF FrameIInv
  <2>2. Step.to \in ColumnTypes /\ Step.mode \in {"strict", "lossy"}
    BY <1>1, <2>1, StepIs, Zenon
  <2>3. frame.cols \in Seq(PlanColumns)
    BY FrameIs DEF FrameIInv
  <2>4. PICK j \in 1..Len(frame.cols) : col = frame.cols[j]
    BY NamedIs
  <2>5. col \in PlanColumns
    BY <2>3, <2>4
  <2> HIDE DEF col
  <2>6. Len(col.cells) \in Nat /\ \A i \in 1..Len(col.cells) : col.cells[i] \in CellKinds
    <3>1. col.cells \in Seq(CellKinds)
      BY <2>5 DEF PlanColumns
    <3> QED
      BY <3>1
  <2>7. cells \in Seq(CellKinds) /\ Len(cells) = Len(col.cells)
    <3>1. cells \in [1..Len(col.cells) -> CellKinds]
      BY <2>6 DEF CastKind, CellKinds
    <3> QED
      BY <2>6, <3>1
  <2>8. Step.mode = "lossy" => CastsLossily
    <3>1. frame.at + 1 \in 1..Len(frame.spec.steps)
      BY <2>1
    <3> QED
      BY <1>1, <2>1, <3>1 DEF CastsLossily
  <2>9. \A i \in 1..Len(col.cells) :
          \/ cells[i] = col.cells[i]
          \/ cells[i] \notin {"null", "word"}
          \/ cells[i] = "null" /\ col.cells[i] = "word" /\ CastsLossily
    BY <2>2, <2>8 DEF CastKind
  <2>10. Step.to # "Utf8" => \A i \in 1..Len(cells) : cells[i] # "word"
    BY <2>7 DEF CastKind
  <2> HIDE DEF cells
  <2>11. \A i \in 1..Len(col.cells) :
           \/ cells[i] = col.cells[i] /\ (Step.op = "fill_null" => col.cells[i] # "null")
           \/ cells[i] \notin {"null", "word"}
           \/ cells[i] = "null" /\ col.cells[i] = "word" /\ CastsLossily
    BY <1>1, <2>9
  <2>12. col = ColumnNamed(frame.cols, Step.column)
    BY DEF col
  <2> QED
    BY <1>1, <2>2, <2>7, <2>10, <2>11, <2>12, ChangeHolds
<1> HIDE DEF cols, valid
<1> QED
  BY <1>1, <1>2, PlanIfHolds

LEMMA LiteralStepHolds == FrameIInv /\ LiteralStep => FrameIInv'
BY PlanFails DEF LiteralStep

LEMMA FillNullStepHolds == FrameIInv /\ FillNullStep => FrameIInv'
<1> SUFFICES ASSUME FrameIInv, FillNullStep PROVE FrameIInv'
  OBVIOUS
<1> DEFINE col == ColumnNamed(frame.cols, Step.column)
           cells == [i \in 1..Len(col.cells) |->
                       IF col.cells[i] = "null" THEN "fill" ELSE col.cells[i]]
           cols == WithColumn(frame.cols, Changed(col, "fill_null", col.type, cells))
           valid == HasColumn(frame.cols, Step.column)
<1>1. /\ frame.answer = "none" /\ frame.at < Len(frame.spec.steps) /\ Step.op = "fill_null"
      /\ PlanIf(valid, cols)
  BY DEF FillNullStep, Planning
<1>2. valid /\ ~frame.pending => cols \in Seq(PlanColumns) /\ ColumnsHold(cols, frame.at + 1)
  <2> SUFFICES ASSUME valid, ~frame.pending
               PROVE  cols \in Seq(PlanColumns) /\ ColumnsHold(cols, frame.at + 1)
    OBVIOUS
  <2>3. frame.cols \in Seq(PlanColumns) /\ ColumnsHold(frame.cols, frame.at)
    BY <1>1, FrameIs DEF FrameIInv, PlanHolds
  <2>4. PICK j \in 1..Len(frame.cols) : col = frame.cols[j]
    BY NamedIs
  <2>5. col \in PlanColumns /\ WellTyped(col)
    BY <2>3, <2>4 DEF ColumnsHold
  <2> HIDE DEF col
  <2>6. /\ Len(col.cells) \in Nat /\ \A i \in 1..Len(col.cells) : col.cells[i] \in CellKinds
        /\ col.type \in ColumnTypes
    <3>1. col.cells \in Seq(CellKinds) /\ col.type \in ColumnTypes
      BY <2>5 DEF PlanColumns
    <3> QED
      BY <3>1
  <2>7. cells \in Seq(CellKinds) /\ Len(cells) = Len(col.cells)
    <3>1. cells \in [1..Len(col.cells) -> CellKinds]
      BY <2>6 DEF CellKinds
    <3> QED
      BY <2>6, <3>1
  <2>9. \A i \in 1..Len(col.cells) :
          \/ cells[i] = col.cells[i] /\ col.cells[i] # "null"
          \/ cells[i] \notin {"null", "word"}
    OBVIOUS
  <2>10. col.type # "Utf8" => \A i \in 1..Len(cells) : cells[i] # "word"
    BY <2>5, <2>7 DEF WellTyped
  <2> HIDE DEF cells
  <2>12. col = ColumnNamed(frame.cols, Step.column)
    BY DEF col
  <2> QED
    BY <1>1, <2>6, <2>7, <2>9, <2>10, <2>12, ChangeHolds
<1> HIDE DEF cols, valid
<1> QED
  BY <1>1, <1>2, PlanIfHolds

LEMMA HeightIs ==
  ASSUME FrameTypeOK
  PROVE  /\ Height(frame.spec.input) \in Nat
         /\ \A i \in 1..Len(frame.cols) : Len(frame.cols[i].cells) \in Nat
<1>1. \A col \in PlanColumns : Len(col.cells) \in Nat
  <2> SUFFICES ASSUME NEW col \in PlanColumns PROVE Len(col.cells) \in Nat
    OBVIOUS
  <2>1. col.cells \in Seq(CellKinds)
    BY DEF PlanColumns
  <2> QED
    BY <2>1
<1>2. frame.cols \in Seq(PlanColumns) /\ frame.spec.input \in Seq(PlanColumns)
      /\ frame.spec.input # <<>>
  BY FrameIs
<1>3. frame.spec.input[1] \in PlanColumns
  BY <1>2
<1> QED
  BY <1>1, <1>2, <1>3 DEF Height

LEMMA WithLiteralStepHolds == FrameIInv /\ WithLiteralStep => FrameIInv'
<1> SUFFICES ASSUME FrameIInv, WithLiteralStep PROVE FrameIInv'
  OBVIOUS
<1> DEFINE steps == frame.spec.steps
<1>1. /\ frame.answer = "none" /\ frame.at < Len(frame.spec.steps) /\ Step.op = "with_literal"
  BY DEF WithLiteralStep, Planning
<1>2. PICK rows \in Heights : PlanIf(TRUE, WithColumn(frame.cols, Literal(Step.column, rows)))
  BY DEF WithLiteralStep
<1> DEFINE col == Literal(Step.column, rows)
           cols == WithColumn(frame.cols, col)
<1>3. ~frame.pending => cols \in Seq(PlanColumns) /\ ColumnsHold(cols, frame.at + 1)
  <2> SUFFICES ASSUME ~frame.pending
               PROVE  cols \in Seq(PlanColumns) /\ ColumnsHold(cols, frame.at + 1)
    OBVIOUS
  <2>1. /\ frame.at \in 0..(Len(steps) - 1) /\ Step \in TransformSteps
        /\ Step = steps[frame.at + 1] /\ steps \in Seq(TransformSteps)
    BY <1>1, StepHere DEF FrameIInv
  <2>2. Step.column \in STRING
    BY <1>1, <2>1, StepIs
  <2>3. frame.cols \in Seq(PlanColumns)
    BY FrameIs DEF FrameIInv
  <2>4. rows \in Nat
    <3>1. frame.cols # <<>> => 1 \in 1..Len(frame.cols)
      BY <2>3
    <3> QED
      BY <3>1, HeightIs DEF FrameIInv, Heights, Height
  <2>5. /\ col \in PlanColumns /\ col.name = Step.column /\ col.type = "Int64"
        /\ col.origin = <<>> /\ col.done = <<>>
        /\ Len(col.cells) = rows /\ \A i \in 1..Len(col.cells) : col.cells[i] = "fill"
    <3> DEFINE cells == [i \in 1..rows |-> "fill"]
    <3>1. cells \in Seq(CellKinds) /\ Len(cells) = rows /\ \A i \in 1..rows : cells[i] = "fill"
      BY <2>4 DEF CellKinds
    <3>2. /\ <<>> \in {names \in Seq(STRING) : Len(names) <= 1} /\ <<>> \in Seq(StepOps)
          /\ "Int64" \in ColumnTypes
      BY DEF ColumnTypes
    <3>3. col = [name |-> Step.column, type |-> "Int64", origin |-> <<>>, done |-> <<>>,
                 cells |-> cells]
      BY DEF Literal, Column
    <3> HIDE DEF cells, col
    <3> QED
      BY <2>2, <3>1, <3>2, <3>3 DEF PlanColumns
  <2> HIDE DEF col
  <2>6. CellsComeFrom(col) /\ WellTyped(col)
    BY <2>5 DEF CellsComeFrom, WellTyped
  <2>7. IsTraced(col, frame.at + 1)
    <3> DEFINE b == [Called(Step.column) EXCEPT !.literal = TRUE]
    <3>1. Before(Step, Called(Step.column)) = b
      BY <1>1 DEF Before, Called
    <3>2. b.done = <<>> /\ b.literal
      BY DEF Called
    <3> HIDE DEF b, steps
    <3>3. SourceOf(steps, frame.at + 1, Step.column) = b
      <4> DEFINE k == frame.at
                 name == Step.column
      <4>1. b = Before(steps[k + 1], Called(name)) /\ k \in 0..(Len(steps) - 1) /\ name \in STRING
        BY <2>1, <2>2, <3>1
      <4> HIDE DEF k, name
      <4>2. b.literal => SourceOf(steps, k + 1, name) = b
        BY <2>1, <4>1, SourceAfter
      <4> QED
        BY <3>2, <4>2 DEF k, name
    <3> QED
      BY <2>5, <3>2, <3>3 DEF IsTraced, steps
  <2>8. \A name \in STRING : name # col.name =>
          SourceOf(steps, frame.at + 1, name) = SourceOf(steps, frame.at, name)
    <3> SUFFICES ASSUME NEW name \in STRING, name # Step.column
                 PROVE  SourceOf(steps, frame.at + 1, name) = SourceOf(steps, frame.at, name)
      BY <2>5
    <3>1. Before(Step, Called(name)) = Called(name)
      BY <1>1 DEF Before, Called
    <3> HIDE DEF steps
    <3> QED
      BY <2>1, <3>1, SourceStays
  <2>9. IF frame.cols = <<>>
        THEN \/ Len(col.cells) = Height(frame.spec.input)
             \/ Len(col.cells) = 1 /\ col.origin = <<>>
        ELSE \E j \in 1..Len(frame.cols) : /\ Len(col.cells) = Len(frame.cols[j].cells)
                                           /\ col.origin \in {<<>>, frame.cols[j].origin}
    <3>1. CASE frame.cols = <<>>
      BY <2>5, <3>1 DEF Heights
    <3>2. CASE frame.cols # <<>>
      <4>1. 1 \in 1..Len(frame.cols)
        BY <2>3, <3>2
      <4>2. rows = Len(frame.cols[1].cells)
        BY <3>2 DEF Heights, Height
      <4> QED
        BY <2>5, <3>2, <4>1, <4>2
    <3> QED
      BY <3>1, <3>2
  <2> QED
    BY <1>1, <2>5, <2>6, <2>7, <2>8, <2>9, WithColumnHolds
<1> HIDE DEF cols, col
<1>4. PlanIf(TRUE, cols)
  BY <1>2 DEF cols, col
<1> QED
  BY <1>1, <1>3, <1>4, PlanIfHolds

\* Columns that were there before, after a step that changes none of them.
LEMMA PickedHold ==
  ASSUME FrameIInv, frame.answer = "none", frame.at < Len(frame.spec.steps), ~frame.pending,
         Step.op \in {"select", "drop"}, NEW cols, Len(cols) \in Nat,
         \A i \in 1..Len(cols) : \E j \in 1..Len(frame.cols) : cols[i] = frame.cols[j]
  PROVE  ColumnsHold(cols, frame.at + 1)
<1> DEFINE steps == frame.spec.steps
<1>1. /\ frame.at \in 0..(Len(steps) - 1) /\ Step \in TransformSteps
      /\ Step = steps[frame.at + 1] /\ steps \in Seq(TransformSteps)
  BY StepHere DEF FrameIInv
<1>2. frame.cols \in Seq(PlanColumns) /\ ColumnsHold(frame.cols, frame.at)
  BY FrameIs DEF FrameIInv, PlanHolds
<1>3. ASSUME NEW i \in 1..Len(cols)
      PROVE  IsTraced(cols[i], frame.at + 1) /\ CellsComeFrom(cols[i]) /\ WellTyped(cols[i])
  <2>1. PICK j \in 1..Len(frame.cols) : cols[i] = frame.cols[j]
    OBVIOUS
  <2>2. /\ IsTraced(cols[i], frame.at) /\ CellsComeFrom(cols[i]) /\ WellTyped(cols[i])
        /\ cols[i] \in PlanColumns
    BY <1>2, <2>1 DEF ColumnsHold
  <2>3. cols[i].name \in STRING
    BY <2>2 DEF PlanColumns
  <2>4. Before(Step, Called(cols[i].name)) = Called(cols[i].name)
    BY DEF Before, Called
  <2> HIDE DEF steps
  <2>5. SourceOf(steps, frame.at + 1, cols[i].name) = SourceOf(steps, frame.at, cols[i].name)
    BY <1>1, <2>3, <2>4, SourceStays
  <2> QED
    BY <2>2, <2>5 DEF IsTraced, steps
<1>4. SameHeight(cols)
  <2>1. SameHeight(frame.cols)
    BY <1>2 DEF ColumnsHold
  <2> QED
    BY <2>1 DEF SameHeight
<1> QED
  BY <1>3, <1>4 DEF ColumnsHold

LEMMA SelectStepHolds == FrameIInv /\ SelectStep => FrameIInv'
<1> SUFFICES ASSUME FrameIInv, SelectStep PROVE FrameIInv'
  OBVIOUS
<1> DEFINE cols == [i \in 1..Len(Step.columns) |-> ColumnNamed(frame.cols, Step.columns[i])]
           valid == AllKnown(frame.cols, Step.columns) /\ IsInjective(Step.columns)
<1>1. /\ frame.answer = "none" /\ frame.at < Len(frame.spec.steps) /\ Step.op = "select"
      /\ PlanIf(valid, cols)
  BY DEF SelectStep, Planning
<1>2. valid /\ ~frame.pending => cols \in Seq(PlanColumns) /\ ColumnsHold(cols, frame.at + 1)
  <2> SUFFICES ASSUME valid, ~frame.pending
               PROVE  cols \in Seq(PlanColumns) /\ ColumnsHold(cols, frame.at + 1)
    OBVIOUS
  <2>1. Step \in TransformSteps
    BY <1>1, StepHere DEF FrameIInv
  <2>2. Step.columns \in Seq(STRING) /\ Len(Step.columns) \in Nat
    BY <1>1, <2>1, StepIs
  <2>3. frame.cols \in Seq(PlanColumns)
    BY FrameIs DEF FrameIInv
  <2>4. \A i \in 1..Len(Step.columns) : \E j \in 1..Len(frame.cols) : cols[i] = frame.cols[j]
    <3> SUFFICES ASSUME NEW i \in 1..Len(Step.columns)
                 PROVE  \E j \in 1..Len(frame.cols) : cols[i] = frame.cols[j]
      OBVIOUS
    <3>1. HasColumn(frame.cols, Step.columns[i])
      BY DEF AllKnown
    <3>2. cols[i] = ColumnNamed(frame.cols, Step.columns[i])
      OBVIOUS
    <3> HIDE DEF cols
    <3> QED
      BY <3>1, <3>2, NamedIs
  <2>5. DOMAIN cols = 1..Len(Step.columns) /\ cols = [i \in 1..Len(Step.columns) |-> cols[i]]
    OBVIOUS
  <2> HIDE DEF cols
  <2>6. cols \in [1..Len(Step.columns) -> PlanColumns]
    BY <2>3, <2>4, <2>5
  <2>7. cols \in Seq(PlanColumns) /\ Len(cols) = Len(Step.columns)
    BY <2>2, <2>6
  <2> QED
    BY <1>1, <2>2, <2>4, <2>7, PickedHold
<1> HIDE DEF cols, valid
<1> QED
  BY <1>1, <1>2, PlanIfHolds

LEMMA DropStepHolds == FrameIInv /\ DropStep => FrameIInv'
<1> SUFFICES ASSUME FrameIInv, DropStep PROVE FrameIInv'
  OBVIOUS
<1> DEFINE kept == [i \in 1..Len(frame.cols) |->
                      IF Contains(Step.columns, frame.cols[i].name) THEN <<>>
                      ELSE <<frame.cols[i]>>]
           cols == FlattenSeq(kept)
           valid == AllKnown(frame.cols, Step.columns)
<1>1. /\ frame.answer = "none" /\ frame.at < Len(frame.spec.steps) /\ Step.op = "drop"
      /\ PlanIf(valid, cols)
  BY DEF DropStep, Planning
<1>2. ~frame.pending => cols \in Seq(PlanColumns) /\ ColumnsHold(cols, frame.at + 1)
  <2> SUFFICES ASSUME ~frame.pending
               PROVE  cols \in Seq(PlanColumns) /\ ColumnsHold(cols, frame.at + 1)
    OBVIOUS
  <2>3. frame.cols \in Seq(PlanColumns) /\ Len(frame.cols) \in Nat
    BY FrameIs DEF FrameIInv
  <2>4. kept \in [1..Len(frame.cols) -> Seq(PlanColumns)]
    <3>1. \A i \in 1..Len(frame.cols) : <<frame.cols[i]>> \in Seq(PlanColumns)
      BY <2>3
    <3> QED
      BY <3>1
  <2>5. /\ kept \in Seq(Seq(PlanColumns)) /\ Len(kept) = Len(frame.cols)
        /\ \A i \in 1..Len(kept) : kept[i] \in {<<>>, <<frame.cols[i]>>}
    BY <2>3, <2>4
  <2> HIDE DEF kept
  <2>6. /\ cols \in Seq(PlanColumns)
        /\ \A k \in 1..Len(cols) :
             \E c \in 1..Len(kept) : \E j \in 1..Len(kept[c]) : cols[k] = kept[c][j]
    BY <2>5, FlattenFrom
  <2> HIDE DEF cols
  <2>7. \A k \in 1..Len(cols) : \E j \in 1..Len(frame.cols) : cols[k] = frame.cols[j]
    <3> SUFFICES ASSUME NEW k \in 1..Len(cols)
                 PROVE  \E j \in 1..Len(frame.cols) : cols[k] = frame.cols[j]
      OBVIOUS
    <3>1. PICK c \in 1..Len(kept) : \E j \in 1..Len(kept[c]) : cols[k] = kept[c][j]
      BY <2>6
    <3>2. PICK j \in 1..Len(kept[c]) : cols[k] = kept[c][j]
      BY <3>1
    <3>3. kept[c] = <<frame.cols[c]>>
      BY <2>5, <3>2
    <3>4. cols[k] = frame.cols[c]
      BY <3>2, <3>3
    <3> QED
      BY <2>5, <3>4
  <2> QED
    BY <1>1, <2>6, <2>7, PickedHold
<1> HIDE DEF cols, valid
<1> QED
  BY <1>1, <1>2, PlanIfHolds

LEMMA CalledAgain ==
  ASSUME NEW name \in STRING, NEW old \in STRING
  PROVE  [Called(name) EXCEPT !.name = old] = Called(old)
<1> DEFINE c == Called(name)
           new == [c EXCEPT !.name = old]
           d == Called(old)
<1>1. /\ c \in Lineages /\ c.done = <<>> /\ c.literal = FALSE
      /\ d \in Lineages /\ d.name = old /\ d.done = <<>> /\ d.literal = FALSE
  BY DEF Called, Lineages
<1> HIDE DEF c, d
<1>2. new \in Lineages /\ new.name = old /\ new.done = <<>> /\ new.literal = FALSE
  BY <1>1 DEF Lineages
<1> HIDE DEF new
<1>3. new = d
  BY <1>1, <1>2 DEF Lineages
<1> QED
  BY <1>3 DEF new, c, d

\* Back from the new name of a column to its old one.
LEMMA RenamedBack ==
  ASSUME NEW step \in TransformSteps, step.op = "rename",
         \A i, j \in 1..Len(step.pairs) : step.pairs[i][1] = step.pairs[j][1] => i = j,
         NEW cols \in Seq(PlanColumns), NEW renamed \in Seq(PlanColumns),
         Len(renamed) = Len(cols),
         \A i \in 1..Len(cols) : renamed[i].name = RenamedTo(cols[i].name, step.pairs),
         \A i \in 1..Len(step.pairs) : HasColumn(cols, step.pairs[i][1]),
         Distinct(renamed), NEW i \in 1..Len(cols)
  PROVE  Before(step, Called(renamed[i].name)) = Called(cols[i].name)
<1> DEFINE pairs == step.pairs
           name == renamed[i].name
           at == OldAt(pairs, cols[i].name)
           to == NewAt(pairs, name)
<1>1. pairs \in Seq(STRING \X STRING)
  BY StepIs
<1>2. \A old : RenamedTo(old, pairs) = IF OldAt(pairs, old) = 0 THEN old
                                       ELSE pairs[OldAt(pairs, old)][2]
  BY DEF RenamedTo, OldAt
<1>3. Before(step, Called(name)) =
        IF to = 0 THEN Called(name) ELSE [Called(name) EXCEPT !.name = pairs[to][1]]
  BY DEF Before, NewAt, Called
<1>4. name = RenamedTo(cols[i].name, pairs)
  OBVIOUS
<1>5. CASE to = 0
  <2>1. \A m \in 1..Len(pairs) : pairs[m][2] # name
    BY <1>1, <1>5, PairAt
  <2>2. at = 0 \/ at \in 1..Len(pairs)
    BY <1>1, PairAt
  <2>3. name = cols[i].name
    BY <1>2, <1>4, <2>1, <2>2
  <2> QED
    BY <1>3, <1>5, <2>3
<1>6. CASE to # 0
  <2>1. to \in 1..Len(pairs) /\ pairs[to][2] = name
    BY <1>1, <1>6, PairAt
  <2>2. PICK j \in 1..Len(cols) : cols[j].name = pairs[to][1]
    BY <2>1 DEF HasColumn
  <2>3. OldAt(pairs, cols[j].name) = to
    <3>1. \/ OldAt(pairs, cols[j].name) = 0 /\ \A m \in 1..Len(pairs) : pairs[m][1] # cols[j].name
          \/ /\ OldAt(pairs, cols[j].name) \in 1..Len(pairs)
             /\ pairs[OldAt(pairs, cols[j].name)][1] = cols[j].name
      BY <1>1, PairAt
    <3> QED
      BY <2>1, <2>2, <3>1
  <2>4. renamed[j].name = name
    BY <1>2, <1>6, <2>1, <2>3
  <2>5. j = i
    BY <2>4 DEF Distinct
  <2>6. [Called(name) EXCEPT !.name = pairs[to][1]] = Called(cols[i].name)
    <3>1. renamed[i] \in PlanColumns
      OBVIOUS
    <3>4. \A c \in PlanColumns : c.name \in STRING
      BY DEF PlanColumns
    <3>3. name \in STRING /\ pairs[to][1] \in STRING
      BY <1>1, <2>1, <3>1, <3>4, PairNames
    <3> HIDE DEF pairs, name, to
    <3>2. [Called(name) EXCEPT !.name = pairs[to][1]] = Called(pairs[to][1])
      BY <3>3, CalledAgain
    <3> QED
      BY <2>2, <2>5, <3>2
  <2> QED
    BY <1>3, <1>6, <2>6
<1> QED
  BY <1>5, <1>6

LEMMA RenameStepHolds == FrameIInv /\ RenameStep => FrameIInv'
<1> SUFFICES ASSUME FrameIInv, RenameStep PROVE FrameIInv'
  OBVIOUS
<1> DEFINE steps == frame.spec.steps
           cols == [i \in 1..Len(frame.cols) |->
                      [frame.cols[i] EXCEPT !.name = RenamedTo(@, Step.pairs)]]
           olds == [i \in 1..Len(Step.pairs) |-> Step.pairs[i][1]]
           valid == AllKnown(frame.cols, olds) /\ Distinct(cols)
<1>1. /\ frame.answer = "none" /\ frame.at < Len(steps) /\ Step.op = "rename"
      /\ PlanIf(valid, cols)
  BY DEF RenameStep, Planning
<1>2. valid /\ ~frame.pending => cols \in Seq(PlanColumns) /\ ColumnsHold(cols, frame.at + 1)
  <2> SUFFICES ASSUME valid, ~frame.pending
               PROVE  cols \in Seq(PlanColumns) /\ ColumnsHold(cols, frame.at + 1)
    OBVIOUS
  <2>1. /\ frame.at \in 0..(Len(steps) - 1) /\ Step \in TransformSteps
        /\ Step = steps[frame.at + 1] /\ steps \in Seq(TransformSteps)
        /\ frame.at + 1 \in 1..Len(steps)
    BY <1>1, StepHere, SMTT(30) DEF FrameIInv
  <2>2. Step.pairs \in Seq(STRING \X STRING) /\ Len(Step.pairs) \in Nat
    <3>1. Step.pairs \in Seq(STRING \X STRING)
      BY <1>1, <2>1, StepIs, Zenon
    <3> QED
      BY <3>1
  <2>3. /\ frame.cols \in Seq(PlanColumns) /\ Len(frame.cols) \in Nat
        /\ ColumnsHold(frame.cols, frame.at) /\ frame.spec \in Specs
    BY <1>1, FrameIs, SMTT(30) DEF FrameIInv, PlanHolds
  <2>4. \A i, j \in 1..Len(Step.pairs) : Step.pairs[i][1] = Step.pairs[j][1] => i = j
    BY <1>1, <2>1, <2>3, SpecsAssumption, Zenon
  <2>5. \A i \in 1..Len(Step.pairs) : HasColumn(frame.cols, Step.pairs[i][1])
    <3>1. Len(olds) = Len(Step.pairs) /\ \A i \in 1..Len(Step.pairs) : olds[i] = Step.pairs[i][1]
      BY <2>2
    <3> HIDE DEF olds
    <3> QED
      BY <3>1 DEF AllKnown
  <2>6. \A name \in STRING : RenamedTo(name, Step.pairs) \in STRING
    <3> SUFFICES ASSUME NEW name \in STRING PROVE RenamedTo(name, Step.pairs) \in STRING
      OBVIOUS
    <3> DEFINE at == OldAt(Step.pairs, name)
    <3>1. RenamedTo(name, Step.pairs) = IF at = 0 THEN name ELSE Step.pairs[at][2]
      BY DEF RenamedTo, OldAt
    <3>2. at = 0 \/ at \in 1..Len(Step.pairs)
      BY <2>2, PairAt
    <3> HIDE DEF at
    <3> QED
      BY <2>2, <3>1, <3>2, PairNames
  <2>7. \A i \in 1..Len(frame.cols) :
          /\ cols[i] \in PlanColumns
          /\ cols[i].name = RenamedTo(frame.cols[i].name, Step.pairs)
          /\ cols[i].type = frame.cols[i].type /\ cols[i].origin = frame.cols[i].origin
          /\ cols[i].done = frame.cols[i].done /\ cols[i].cells = frame.cols[i].cells
    <3> SUFFICES ASSUME NEW i \in 1..Len(frame.cols)
                 PROVE  /\ cols[i] \in PlanColumns
                        /\ cols[i].name = RenamedTo(frame.cols[i].name, Step.pairs)
                        /\ cols[i].type = frame.cols[i].type
                        /\ cols[i].origin = frame.cols[i].origin
                        /\ cols[i].done = frame.cols[i].done
                        /\ cols[i].cells = frame.cols[i].cells
      OBVIOUS
    <3> DEFINE c == frame.cols[i]
               name == RenamedTo(c.name, Step.pairs)
    <3>1. c \in PlanColumns
      BY <2>3
    <3>2. name \in STRING
      BY <2>6, <3>1 DEF PlanColumns
    <3>3. cols[i] = [c EXCEPT !.name = name]
      OBVIOUS
    <3> HIDE DEF c, name, cols
    <3>4. /\ cols[i] \in PlanColumns /\ cols[i].name = name /\ cols[i].type = c.type
          /\ cols[i].origin = c.origin /\ cols[i].done = c.done /\ cols[i].cells = c.cells
      BY <3>1, <3>2, <3>3 DEF PlanColumns
    <3> QED
      BY <3>4 DEF c, name
  <2>8. cols \in Seq(PlanColumns) /\ Len(cols) = Len(frame.cols)
    <3>1. cols \in [1..Len(frame.cols) -> PlanColumns]
      BY <2>7
    <3>2. Len(frame.cols) \in Nat
      BY <2>3
    <3> HIDE DEF cols
    <3> QED
      BY <3>1, <3>2, ColumnsAreListed
  <2> HIDE DEF cols
  <2>9. \A i \in 1..Len(frame.cols) :
          IsTraced(cols[i], frame.at + 1) /\ CellsComeFrom(cols[i]) /\ WellTyped(cols[i])
    <3> SUFFICES ASSUME NEW i \in 1..Len(frame.cols)
                 PROVE  /\ IsTraced(cols[i], frame.at + 1) /\ CellsComeFrom(cols[i])
                        /\ WellTyped(cols[i])
      OBVIOUS
    <3>1. Before(Step, Called(cols[i].name)) = Called(frame.cols[i].name)
      BY <1>1, <2>1, <2>3, <2>4, <2>5, <2>7, <2>8, RenamedBack, Zenon
    <3>2. cols[i].name \in STRING /\ frame.cols[i].name \in STRING
      <4>1. cols[i] \in PlanColumns /\ frame.cols[i] \in PlanColumns
        BY <2>3, <2>7
      <4>2. \A c \in PlanColumns : c.name \in STRING
        BY DEF PlanColumns
      <4> QED
        BY <4>1, <4>2
    <3>3. /\ IsTraced(frame.cols[i], frame.at) /\ CellsComeFrom(frame.cols[i])
          /\ WellTyped(frame.cols[i])
      BY <2>3 DEF ColumnsHold
    <3> HIDE DEF steps
    <3>4. SourceOf(steps, frame.at + 1, cols[i].name) =
            SourceOf(steps, frame.at, frame.cols[i].name)
      BY <2>1, <3>1, <3>2, SourceStays
    <3>5. IsTraced(cols[i], frame.at + 1)
      BY <2>7, <3>3, <3>4 DEF IsTraced, steps
    <3>6. CellsComeFrom(cols[i]) /\ WellTyped(cols[i])
      BY <2>7, <3>3 DEF CellsComeFrom, WellTyped
    <3> QED
      BY <3>5, <3>6
  <2>10. SameHeight(cols)
    <3>1. SameHeight(frame.cols)
      BY <2>3 DEF ColumnsHold
    <3> QED
      BY <2>7, <2>8, <3>1 DEF SameHeight
  <2> QED
    BY <2>8, <2>9, <2>10 DEF ColumnsHold
<1> HIDE DEF cols, valid
<1> QED
  BY <1>1, <1>2, PlanIfHolds

LEMMA DeriveStepHolds == FrameIInv /\ DeriveStep => FrameIInv'
<1> SUFFICES ASSUME FrameIInv, DeriveStep PROVE FrameIInv'
  OBVIOUS
<1> DEFINE steps == frame.spec.steps
           source == ColumnNamed(frame.cols, Step.column)
           new == [Changed(source, "derive", "Float64", source.cells) EXCEPT !.name = Step.name]
           cols == WithColumn(frame.cols, new)
           valid == HasColumn(frame.cols, Step.column) /\ source.type # "Utf8"
<1>1. /\ frame.answer = "none" /\ frame.at < Len(steps) /\ Step.op = "derive"
      /\ PlanIf(valid, cols)
  BY DEF DeriveStep, Planning
<1>2. valid /\ ~frame.pending => cols \in Seq(PlanColumns) /\ ColumnsHold(cols, frame.at + 1)
  <2> SUFFICES ASSUME valid, ~frame.pending
               PROVE  cols \in Seq(PlanColumns) /\ ColumnsHold(cols, frame.at + 1)
    OBVIOUS
  <2>1. /\ frame.at \in 0..(Len(steps) - 1) /\ Step \in TransformSteps
        /\ Step = steps[frame.at + 1] /\ steps \in Seq(TransformSteps)
    BY <1>1, StepHere, SMTT(30) DEF FrameIInv
  <2>2. Step.column \in STRING /\ Step.name \in STRING /\ Step.op \in StepOps
    BY <1>1, <2>1, StepIs, Zenon
  <2>3. frame.cols \in Seq(PlanColumns) /\ ColumnsHold(frame.cols, frame.at)
    BY <1>1, FrameIs DEF FrameIInv, PlanHolds
  <2>4. PICK j \in 1..Len(frame.cols) : source = frame.cols[j] /\ source.name = Step.column
    BY NamedIs
  <2>5. /\ source \in PlanColumns /\ IsTraced(source, frame.at) /\ CellsComeFrom(source)
        /\ WellTyped(source) /\ source.type # "Utf8"
    BY <2>3, <2>4 DEF ColumnsHold
  <2> HIDE DEF source
  <2>6. "Float64" \in ColumnTypes /\ source.cells \in Seq(CellKinds)
    BY <2>5 DEF ColumnTypes, PlanColumns
  <2>7. /\ new \in PlanColumns /\ new.name = Step.name /\ new.type = "Float64"
        /\ new.origin = source.origin /\ new.done = Append(source.done, Step.op)
        /\ new.cells = source.cells
    <3> DEFINE c == Changed(source, "derive", "Float64", source.cells)
    <3>1. /\ c \in PlanColumns /\ c.type = "Float64" /\ c.origin = source.origin
          /\ c.done = Append(source.done, Step.op) /\ c.cells = source.cells
      BY <1>1, <2>2, <2>5, <2>6, ChangedIs
    <3> HIDE DEF c
    <3>2. new = [c EXCEPT !.name = Step.name]
      BY DEF c
    <3> HIDE DEF new
    <3>3. /\ new \in PlanColumns /\ new.name = Step.name /\ new.type = c.type
          /\ new.origin = c.origin /\ new.done = c.done /\ new.cells = c.cells
      BY <2>2, <3>1, <3>2 DEF PlanColumns
    <3> QED
      BY <3>1, <3>3
  <2> HIDE DEF new
  <2>8. CellsComeFrom(new)
    <3>1. Step.op # "fill_null"
      BY <1>1
    <3> QED
      BY <2>2, <2>5, <2>7, <3>1, ChangedComesFrom
  <2>9. WellTyped(new)
    BY <2>5, <2>7 DEF WellTyped
  <2>10. \A name \in STRING : name # new.name =>
           SourceOf(steps, frame.at + 1, name) = SourceOf(steps, frame.at, name)
    <3> SUFFICES ASSUME NEW name \in STRING, name # Step.name
                 PROVE  SourceOf(steps, frame.at + 1, name) = SourceOf(steps, frame.at, name)
      BY <2>7
    <3>1. Before(Step, Called(name)) = Called(name)
      BY <1>1 DEF Before, Called
    <3> HIDE DEF steps
    <3> QED
      BY <2>1, <3>1, SourceStays
  <2>11. IsTraced(new, frame.at + 1)
    <3>1. Before(Step, Called(Step.name)) =
            [name |-> Step.column, done |-> <<Step.op>>, literal |-> FALSE]
      <4>1. <<Step.op>> \o <<>> = <<Step.op>>
        BY <2>2
      <4>2. Before(Step, Called(Step.name)) =
              [[Called(Step.name) EXCEPT !.done = <<Step.op>> \o @] EXCEPT !.name = Step.column]
        BY <1>1 DEF Before, Called
      <4> QED
        BY <4>1, <4>2 DEF Called
    <3> HIDE DEF steps
    <3>2. /\ SourceOf(steps, frame.at + 1, Step.name).name =
               SourceOf(steps, frame.at, Step.column).name
          /\ SourceOf(steps, frame.at + 1, Step.name).literal =
               SourceOf(steps, frame.at, Step.column).literal
          /\ SourceOf(steps, frame.at + 1, Step.name).done =
               Append(SourceOf(steps, frame.at, Step.column).done, Step.op)
      <4> DEFINE k == frame.at
                 name == Step.name
                 old == Step.column
                 what == Step.op
      <4>1. /\ k \in 0..(Len(steps) - 1) /\ name \in STRING /\ old \in STRING
            /\ what \in StepOps /\ steps \in Seq(TransformSteps)
            /\ Before(steps[k + 1], Called(name)) =
                 [name |-> old, done |-> <<what>>, literal |-> FALSE]
        BY <2>1, <2>2, <3>1
      <4> HIDE DEF k, name, old, what
      <4>2. /\ SourceOf(steps, k + 1, name).name = SourceOf(steps, k, old).name
            /\ SourceOf(steps, k + 1, name).literal = SourceOf(steps, k, old).literal
            /\ SourceOf(steps, k + 1, name).done = Append(SourceOf(steps, k, old).done, what)
        BY <4>1, SourceChanges
      <4> QED
        BY <4>2 DEF k, name, old, what
    <3> QED
      BY <2>4, <2>5, <2>7, <3>2 DEF IsTraced, steps
  <2>12. frame.cols # <<>>
    BY <2>3, <2>4
  <2> HIDE DEF steps
  <2> QED
    BY <1>1, <2>4, <2>7, <2>8, <2>9, <2>10, <2>11, <2>12, WithColumnHolds DEF steps
<1> HIDE DEF cols, valid
<1> QED
  BY <1>1, <1>2, PlanIfHolds

LEMMA Utf8StepHolds == FrameIInv /\ Utf8Step => FrameIInv'
<1> SUFFICES ASSUME FrameIInv, Utf8Step PROVE FrameIInv'
  OBVIOUS
<1> DEFINE col == ColumnNamed(frame.cols, Step.column)
           cols == WithColumn(frame.cols, Changed(col, "utf8", "Utf8", col.cells))
<1>1. frame.answer = "none" /\ frame.at < Len(frame.spec.steps) /\ Step.op = "utf8"
  BY DEF Utf8Step, Planning
<1>2. CASE \E kind \in {"schema error", "engine error"} : ReturnsError(kind)
  BY <1>2, PlanFails
<1>3. CASE /\ ~CollectFails /\ HasColumn(frame.cols, Step.column)
           /\ frame' = [frame EXCEPT !.at = @ + 1, !.lost = FALSE, !.cols = cols]
  <2>1. ~frame.pending
    BY <1>3 DEF CollectFails
  <2>2. frame.cols \in Seq(PlanColumns)
    BY FrameIs DEF FrameIInv
  <2>3. PICK j \in 1..Len(frame.cols) : col = frame.cols[j]
    BY <1>3, NamedIs
  <2>4. "Utf8" \in ColumnTypes /\ col.cells \in Seq(CellKinds)
    <3>1. col \in PlanColumns
      BY <2>2, <2>3
    <3> HIDE DEF col
    <3> QED
      BY <3>1 DEF ColumnTypes, PlanColumns
  <2>5. cols \in Seq(PlanColumns) /\ ColumnsHold(cols, frame.at + 1)
    <3>1. col = ColumnNamed(frame.cols, Step.column)
      OBVIOUS
    <3> HIDE DEF col
    <3> QED
      BY <1>1, <1>3, <2>1, <2>4, <3>1, ChangeHolds DEF col
  <2> HIDE DEF cols
  <2>6. frame' = [frame EXCEPT !.at = @ + 1, !.cols = cols, !.lost = FALSE]
    BY <1>3
  <2> QED
    BY <1>1, <2>5, <2>6, PlanGoesOn
<1>4. \/ \E kind \in {"schema error", "engine error"} : ReturnsError(kind)
      \/ /\ ~CollectFails /\ HasColumn(frame.cols, Step.column)
         /\ frame' = [frame EXCEPT !.at = @ + 1, !.lost = FALSE, !.cols = cols]
  BY DEF Utf8Step
<1> QED
  BY <1>2, <1>3, <1>4

\* A column of the answer is the one of its name, in the type of its field.
LEMMA OutputIs ==
  ASSUME FrameIInv, frame.answer = "none", frame.at = Len(frame.spec.steps), ~CollectFails,
         AllKnown(frame.cols, [k \in 1..Len(frame.spec.output) |-> frame.spec.output[k].name]),
         NEW k \in 1..Len(frame.spec.output)
  PROVE  /\ Output[k] \in PlanColumns
         /\ \E j \in 1..Len(frame.cols) :
              LET f == frame.spec.output[k]
                  col == frame.cols[j]
              IN  /\ col.name = f.name /\ Output[k].type = f.type
                  /\ Output[k].done = col.done /\ Output[k].origin = col.origin
                  /\ Len(Output[k].cells) = Len(col.cells)
                  /\ \A i \in 1..Len(col.cells) :
                       Output[k].cells[i] = CastKind(col.cells[i], col.type, f.type, "lossy")
<1> DEFINE output == frame.spec.output
           names == [m \in 1..Len(output) |-> output[m].name]
           f == output[k]
           col == ColumnNamed(frame.cols, f.name)
           cells == [i \in 1..Len(col.cells) |->
                       CastKind(col.cells[i], col.type, f.type, "lossy")]
<1>1. frame.cols \in Seq(PlanColumns) /\ output \in Seq([name: STRING, type: ColumnTypes])
  BY FrameIs DEF FrameIInv
<1>2. f \in [name: STRING, type: ColumnTypes]
  <2> DEFINE Fields == [name: STRING, type: ColumnTypes]
  <2>1. output \in Seq(Fields)
    BY <1>1
  <2> HIDE DEF Fields, output
  <2>2. output[k] \in Fields
    BY <2>1 DEF output
  <2> QED
    BY <2>2 DEF Fields
<1>3. HasColumn(frame.cols, f.name)
  <2>1. Len(output) \in Nat
    BY <1>1
  <2>2. Len(names) = Len(output) /\ names[k] = f.name
    BY <2>1
  <2> QED
    BY <2>2 DEF AllKnown
<1>4. PICK j \in 1..Len(frame.cols) : col = frame.cols[j] /\ frame.cols[j].name = f.name
  BY <1>3, NamedIs
<1>5. col \in PlanColumns
  BY <1>1, <1>4, SMTT(30)
<1>6. Output[k] = [col EXCEPT !.type = f.type, !.cells = cells]
  <2>1. [i \in DOMAIN col.cells |-> CastKind(col.cells[i], col.type, f.type, "lossy")] = cells
    <3>1. col.cells \in Seq(CellKinds)
      BY <1>5 DEF PlanColumns
    <3> QED
      BY <3>1
  <2>2. Output = [m \in 1..Len(output) |->
                   [ColumnNamed(frame.cols, output[m].name) EXCEPT !.type = output[m].type,
                      !.cells = [i \in 1..Len(@) |->
                                   CastKind(@[i], ColumnNamed(frame.cols, output[m].name).type,
                                            output[m].type, "lossy")]]]
    BY DEF Output
  <2> QED
    BY <2>2, Zenon
<1> HIDE DEF col, f
<1>7. Len(col.cells) \in Nat /\ \A i \in 1..Len(col.cells) : col.cells[i] \in CellKinds
  <2>1. col.cells \in Seq(CellKinds)
    BY <1>5 DEF PlanColumns
  <2> QED
    BY <2>1
<1>8. /\ cells \in Seq(CellKinds) /\ Len(cells) = Len(col.cells)
      /\ \A i \in 1..Len(col.cells) :
           cells[i] = CastKind(col.cells[i], col.type, f.type, "lossy")
  <2>1. cells \in [1..Len(col.cells) -> CellKinds]
    BY <1>7 DEF CastKind, CellKinds
  <2> QED
    BY <1>7, <2>1
<1> HIDE DEF cells
<1>9. /\ Output[k] \in PlanColumns /\ Output[k].type = f.type /\ Output[k].cells = cells
      /\ Output[k].done = col.done /\ Output[k].origin = col.origin
  BY <1>2, <1>5, <1>6, <1>8 DEF PlanColumns
<1> QED
  BY <1>4, <1>8, <1>9 DEF f

LEMMA RowsAreRight ==
  ASSUME FrameIInv, frame.answer = "none", frame.at = Len(frame.spec.steps), ~CollectFails,
         AllKnown(frame.cols, [k \in 1..Len(frame.spec.output) |-> frame.spec.output[k].name]),
         frame' = [frame EXCEPT !.answer = "rows", !.cols = Output]
  PROVE  FrameIInv'
<1> DEFINE output == frame.spec.output
           input == frame.spec.input
           n == Len(output)
<1>1. ~frame.pending /\ \A i \in 1..Len(frame.cols) : ~Broken(frame.cols[i])
  BY DEF CollectFails
<1>2. /\ frame.cols \in Seq(PlanColumns) /\ ColumnsHold(frame.cols, frame.at)
      /\ output \in Seq([name: STRING, type: ColumnTypes]) /\ n \in Nat
  <2>1. output \in Seq([name: STRING, type: ColumnTypes])
    BY FrameIs DEF FrameIInv
  <2>2. frame.cols \in Seq(PlanColumns) /\ ColumnsHold(frame.cols, frame.at)
    BY <1>1, FrameIs DEF FrameIInv, PlanHolds
  <2> QED
    BY <2>1, <2>2
<1>3. Output \in Seq(PlanColumns) /\ Len(Output) = n
  <2>1. DOMAIN Output = 1..n /\ Output = [k \in 1..n |-> Output[k]]
    BY Zenon DEF Output
  <2>2. \A k \in 1..n : Output[k] \in PlanColumns
    BY OutputIs
  <2> HIDE DEF n
  <2>3. Output \in [1..n -> PlanColumns]
    BY <2>1, <2>2
  <2> QED
    BY <1>2, <2>3, SMTT(30)
<1>4. frame' = [spec |-> frame.spec, cols |-> Output, at |-> frame.at,
                pending |-> frame.pending, lost |-> frame.lost, answer |-> "rows"]
  BY FrameIs DEF FrameIInv
<1>5. FrameTypeOK' /\ frame'.answer = "rows" /\ frame'.spec = frame.spec /\ frame'.cols = Output
  BY <1>3, <1>4, FrameIs DEF FrameIInv, FrameTypeOK
<1>6. ASSUME NEW k \in 1..n
      PROVE  LET col == Output[k]
                 source == SourceOf(frame.spec.steps, Len(frame.spec.steps), output[k].name)
             IN  /\ col.type = output[k].type
                 /\ \/ Len(col.cells) = Height(input)
                    \/ Len(col.cells) = 1 /\ \A j \in 1..n : Output[j].origin = <<>>
                 /\ col.done = source.done
                 /\ col.origin = IF source.literal THEN <<>> ELSE <<source.name>>
  <2> DEFINE source == SourceOf(frame.spec.steps, Len(frame.spec.steps), output[k].name)
  <2>1. PICK c \in 1..Len(frame.cols) :
          /\ frame.cols[c].name = output[k].name /\ Output[k].type = output[k].type
          /\ Output[k].done = frame.cols[c].done /\ Output[k].origin = frame.cols[c].origin
          /\ Len(Output[k].cells) = Len(frame.cols[c].cells)
    BY OutputIs
  <2>2. IsTraced(frame.cols[c], Len(frame.spec.steps))
    BY <1>2 DEF ColumnsHold
  <2>3. /\ Output[k].done = source.done
        /\ Output[k].origin = IF source.literal THEN <<>> ELSE <<source.name>>
    BY <2>1, <2>2 DEF IsTraced
  <2>4. \/ Len(Output[k].cells) = Height(input)
        \/ Len(Output[k].cells) = 1 /\ \A j \in 1..n : Output[j].origin = <<>>
    <3>1. CASE \A i \in 1..Len(frame.cols) : Len(frame.cols[i].cells) = Height(input)
      BY <2>1, <3>1
    <3>2. CASE \A i \in 1..Len(frame.cols) :
                 Len(frame.cols[i].cells) = 1 /\ frame.cols[i].origin = <<>>
      <4>1. \A j \in 1..n : Output[j].origin = <<>>
        <5> SUFFICES ASSUME NEW j \in 1..n PROVE Output[j].origin = <<>>
          OBVIOUS
        <5>1. PICK d \in 1..Len(frame.cols) : Output[j].origin = frame.cols[d].origin
          BY OutputIs
        <5> QED
          BY <3>2, <5>1
      <4> QED
        BY <2>1, <3>2, <4>1
    <3>3. SameHeight(frame.cols)
      BY <1>2 DEF ColumnsHold
    <3> QED
      BY <3>1, <3>2, <3>3 DEF SameHeight
  <2> HIDE DEF source
  <2> QED
    BY <2>1, <2>3, <2>4 DEF source
<1>7. ASSUME NEW k \in 1..n
      PROVE  LET col == Output[k]
                 from == ColumnNamed(input, col.origin[1])
                 toSchema == col.type # "Utf8"
             IN  /\ \A i \in 1..Len(col.cells) : col.cells[i] # "fails"
                 /\ \A i \in 1..Len(col.cells) : col.cells[i] = "null" =>
                      /\ col.origin # <<>>
                      /\ \/ from.cells[i] = "null" /\ ~Contains(col.done, "fill_null")
                         \/ from.cells[i] = "word" /\ (CastsLossily \/ toSchema)
                 /\ col.type # "Utf8" => \A i \in 1..Len(col.cells) : col.cells[i] # "word"
  <2>1. PICK c \in 1..Len(frame.cols) :
          /\ Output[k].type = output[k].type
          /\ Output[k].done = frame.cols[c].done /\ Output[k].origin = frame.cols[c].origin
          /\ Len(Output[k].cells) = Len(frame.cols[c].cells)
          /\ \A i \in 1..Len(frame.cols[c].cells) : Output[k].cells[i] =
               CastKind(frame.cols[c].cells[i], frame.cols[c].type, output[k].type, "lossy")
    BY OutputIs
  <2> DEFINE old == frame.cols[c]
             col == Output[k]
             from(i) == ColumnNamed(input, col.origin[1]).cells[i]
  <2>2. ~Broken(old) /\ CellsComeFrom(old)
    BY <1>1, <1>2 DEF ColumnsHold
  <2> HIDE DEF old
  <2>3. /\ Len(col.cells) = Len(old.cells) /\ col.origin = old.origin /\ col.done = old.done
        /\ \A i \in 1..Len(old.cells) :
             col.cells[i] = IF old.cells[i] = "word" /\ col.type # "Utf8" THEN "null"
                            ELSE old.cells[i]
    BY <2>1 DEF old, CastKind
  <2> HIDE DEF col
  <2>4. \A i \in 1..Len(old.cells) : old.cells[i] # "fails"
    BY <2>2 DEF Broken
  <2>5. \A i \in 1..Len(old.cells) : old.cells[i] \in {"null", "word"} =>
          col.origin # <<>> /\ ComesFrom(old.cells[i], from(i), col.done)
    BY <2>2, <2>3 DEF CellsComeFrom
  <2> HIDE DEF from
  <2>6. \A i \in 1..Len(col.cells) : col.cells[i] # "fails"
    BY <2>3, <2>4
  <2>7. \A i \in 1..Len(col.cells) : col.cells[i] = "null" =>
          /\ col.origin # <<>>
          /\ \/ from(i) = "null" /\ ~Contains(col.done, "fill_null")
             \/ from(i) = "word" /\ (CastsLossily \/ col.type # "Utf8")
    BY <2>3, <2>5 DEF ComesFrom
  <2>8. col.type # "Utf8" => \A i \in 1..Len(col.cells) : col.cells[i] # "word"
    BY <2>3
  <2> QED
    BY <2>6, <2>7, <2>8 DEF col, from
<1>8. PlanHolds'
  BY <1>5 DEF PlanHolds
<1>9. EveryStepApplied'
  BY <1>3, <1>5, <1>6 DEF EveryStepApplied
<1>10. NullsAccountedFor'
  BY <1>3, <1>5, <1>7 DEF NullsAccountedFor, CastsLossily
<1> QED
  BY <1>5, <1>8, <1>9, <1>10 DEF FrameIInv, SpecIsApplied

LEMMA CollectHolds == FrameIInv /\ CollectWithSchema => FrameIInv'
<1> SUFFICES ASSUME FrameIInv, CollectWithSchema PROVE FrameIInv'
  OBVIOUS
<1> DEFINE names == [k \in 1..Len(frame.spec.output) |-> frame.spec.output[k].name]
<1>1. \/ \E kind \in {"parse error", "schema error", "engine error"} : ReturnsError(kind)
      \/ /\ ~CollectFails /\ AllKnown(frame.cols, names)
         /\ frame' = [frame EXCEPT !.answer = "rows", !.cols = Output]
  BY DEF CollectWithSchema
<1>2. frame.answer = "none" /\ frame.at = Len(frame.spec.steps)
  BY DEF CollectWithSchema
<1> HIDE DEF names
<1>3. CASE \E kind \in {"parse error", "schema error", "engine error"} : ReturnsError(kind)
  BY <1>3, PlanFails
<1>4. CASE /\ ~CollectFails /\ AllKnown(frame.cols, names)
           /\ frame' = [frame EXCEPT !.answer = "rows", !.cols = Output]
  BY <1>2, <1>4, RowsAreRight DEF names
<1> QED
  BY <1>1, <1>3, <1>4

LEMMA FrameStarts == FrameInit => FrameIInv
<1> SUFFICES ASSUME FrameInit PROVE FrameIInv
  OBVIOUS
<1>1. PICK spec \in Specs :
        frame = [spec |-> spec, cols |-> spec.input, at |-> 0, pending |-> FALSE, lost |-> FALSE,
                 answer |-> IF \E i \in 1..Len(spec.input) : ~WellTyped(spec.input[i])
                            THEN "parse error"
                            ELSE IF Distinct(spec.input) THEN "none" ELSE "engine error"]
  BY DEF FrameInit
<1> DEFINE input == spec.input
           steps == spec.steps
<1>2. /\ frame.spec = spec /\ frame.cols = input /\ frame.at = 0 /\ ~frame.pending
      /\ frame.answer \in {"none", "parse error", "engine error"}
      /\ frame.answer = "none" =>
           Distinct(input) /\ \A i \in 1..Len(input) : WellTyped(input[i])
  BY <1>1
<1>3. /\ input \in Seq(PlanColumns) /\ input # <<>> /\ steps \in Seq(TransformSteps)
      /\ \A i \in 1..Len(input) :
           /\ input[i].origin = <<input[i].name>> /\ input[i].done = <<>>
           /\ Len(input[i].cells) = Len(input[1].cells)
  BY SpecsAssumption
<1>4. FrameTypeOK
  <2> DEFINE kind == IF \E i \in 1..Len(input) : ~WellTyped(input[i])
                     THEN "parse error"
                     ELSE IF Distinct(input) THEN "none" ELSE "engine error"
  <2>1. Len(steps) \in Nat
    BY <1>3
  <2>2. kind \in {"none", "rows", "parse error", "schema error", "engine error"}
    OBVIOUS
  <2>3. frame = [spec |-> spec, cols |-> input, at |-> 0, pending |-> FALSE, lost |-> FALSE,
                 answer |-> kind]
    BY <1>1
  <2>4. input \in Seq(PlanColumns)
    BY <1>3
  <2> HIDE DEF kind, input
  <2>5. /\ frame \in [spec: Specs, cols: Seq(PlanColumns), at: Nat, pending: BOOLEAN,
                       lost: BOOLEAN,
                       answer: {"none", "rows", "parse error", "schema error", "engine error"}]
        /\ frame.at = 0 /\ frame.spec = spec
    BY <2>2, <2>3, <2>4
  <2>6. frame.at = 0 /\ Len(frame.spec.steps) \in Nat
    BY <2>1, <2>5
  <2>7. frame.at <= Len(frame.spec.steps)
    BY <2>6
  <2> QED
    BY <2>5, <2>7 DEF FrameTypeOK
<1>5. SpecIsApplied
  BY <1>2 DEF SpecIsApplied, EveryStepApplied, NullsAccountedFor
<1>6. ASSUME frame.answer = "none", NEW i \in 1..Len(input)
      PROVE  IsTraced(input[i], 0) /\ CellsComeFrom(input[i]) /\ WellTyped(input[i])
  <2> DEFINE col == input[i]
             name == col.name
  <2>1. col \in PlanColumns /\ col.origin = <<name>> /\ col.done = <<>>
        /\ Len(col.cells) = Height(input)
    BY <1>3 DEF Height
  <2>2. name \in STRING
    BY <2>1 DEF PlanColumns
  <2>3. WellTyped(col)
    BY <1>2, <1>6
  <2>4. ColumnNamed(input, name) = col
    <3>1. HasColumn(input, name)
      BY DEF HasColumn
    <3> HIDE DEF input
    <3>2. PICK j \in 1..Len(input) : ColumnNamed(input, name) = input[j] /\ input[j].name = name
      BY <3>1, NamedIs
    <3>3. j = i
      BY <1>2, <1>6, <3>2 DEF Distinct
    <3> QED
      BY <3>2, <3>3
  <2>5. IsTraced(col, 0)
    <3>1. Called(name) \in Lineages /\ 0 \in 0..Len(steps)
      BY <1>3, <2>2 DEF Called, Lineages
    <3> HIDE DEF steps, name
    <3>2. SourceOf(steps, 0, name) = Called(name)
      BY <1>3, <3>1, ToldIs DEF SourceOf
    <3>3. /\ SourceOf(steps, 0, name).name = name /\ SourceOf(steps, 0, name).done = <<>>
          /\ SourceOf(steps, 0, name).literal = FALSE
      BY <3>2 DEF Called
    <3> QED
      BY <1>2, <2>1, <3>3 DEF IsTraced, steps, name
  <2> HIDE DEF col
  <2>6. ASSUME NEW c \in 1..Len(col.cells)
        PROVE  ComesFrom(col.cells[c], ColumnNamed(input, name).cells[c], col.done)
    BY <2>1, <2>4 DEF ComesFrom, Contains
  <2>7. CellsComeFrom(col)
    <3>1. col.origin # <<>> /\ col.origin[1] = name
      BY <2>1
    <3> HIDE DEF name
    <3> QED
      BY <1>2, <2>1, <2>6, <3>1 DEF CellsComeFrom
  <2> QED
    BY <2>3, <2>5, <2>7 DEF col
<1>7. SameHeight(input)
  BY <1>2, <1>3 DEF SameHeight, Height
<1>8. PlanHolds
  BY <1>2, <1>6, <1>7 DEF PlanHolds, ColumnsHold
<1> QED
  BY <1>4, <1>5, <1>8 DEF FrameIInv

LEMMA FrameStays == FrameIInv /\ [FrameNext]_frame => FrameIInv'
<1>1. ASSUME FrameIInv, UNCHANGED frame PROVE FrameIInv'
  <2>1. FrameTypeOK'
    BY <1>1 DEF FrameIInv, FrameTypeOK
  <2>2. PlanHolds'
    BY <1>1, ZenonT(60)
    DEF FrameIInv, PlanHolds, ColumnsHold, SameHeight, IsTraced, CellsComeFrom, ComesFrom,
      CastsLossily, WellTyped
  <2>3. EveryStepApplied' /\ NullsAccountedFor'
    BY <1>1, ZenonT(60) DEF FrameIInv, SpecIsApplied, EveryStepApplied, NullsAccountedFor
  <2> QED
    BY <2>1, <2>2, <2>3 DEF FrameIInv, SpecIsApplied
<1> QED
  BY <1>1, SelectStepHolds, DropStepHolds, RenameStepHolds, CastStepHolds, LiteralStepHolds,
    FillNullStepHolds, WithLiteralStepHolds, DeriveStepHolds, Utf8StepHolds, CollectHolds
    DEF FrameNext

(***************************************************************************)
(* For every specification and every input that TransformSpec::apply can   *)
(* be given, in src/transform.rs: when it succeeds, every field of the     *)
(* output is the column its name leads back to, changed by exactly the     *)
(* steps that named it and in their order, and no cell is Null that the    *)
(* input or a lossy cast does not account for.                             *)
(***************************************************************************)
THEOREM SpecsAreApplied == FrameSpec => []SpecIsApplied
<1>1. FrameIInv => SpecIsApplied
  BY DEF FrameIInv
<1> QED
  BY <1>1, FrameStarts, FrameStays, PTL DEF FrameSpec

(* DataQuality.  What the queries return, as sets of rows.                 *)

\* Where the parts of a sequence of few went: at most one element each.
ThereIn(s) == {i \in 1..Len(s) : s[i] # <<>>}
Few(s) == \A i \in 1..Len(s) : s[i] = <<>> \/ s[i] = <<s[i][1]>>
Placed(s, flat, place) ==
  /\ place \in Bijection(ThereIn(s), 1..Len(flat))
  /\ \A i \in ThereIn(s) : s[i] = <<flat[place[i]]>>

\* A cell is Null or a value.
LEMMA CellShape ==
  ASSUME NEW x \in Seq(Int), Len(x) <= 1
  PROVE  x = <<>> \/ (x[1] \in Int /\ x = <<x[1]>>)
<1> DEFINE l == Len(x)
<1>1. l \in Nat /\ l <= 1
  OBVIOUS
<1> HIDE DEF l
<1>2. l = 0 \/ l = 1
  BY <1>1
<1>3. CASE l = 0
  BY <1>3, EmptySeq DEF l
<1>4. CASE l = 1
  <2>1. Len(x) = 1
    BY <1>4 DEF l
  <2> QED
    BY <2>1
<1> QED
  BY <1>2, <1>3, <1>4

LEMMA CellsShape ==
  ASSUME NEW cells \in ReportCells
  PROVE  /\ cells \in Seq(Seq(Int)) /\ Few(cells) /\ Len(cells) \in Nat
         /\ \A i \in 1..Len(cells) :
              cells[i] = <<>> \/ (cells[i][1] \in Int /\ cells[i] = <<cells[i][1]>>)
<1>1. cells \in Seq(Seq(Int)) /\ \A i \in 1..Len(cells) : Len(cells[i]) <= 1
  BY DEF ReportCells
<1>2. \A i \in 1..Len(cells) : cells[i] \in Seq(Int) /\ Len(cells[i]) <= 1
  BY <1>1
<1>3. \A i \in 1..Len(cells) :
        cells[i] = <<>> \/ (cells[i][1] \in Int /\ cells[i] = <<cells[i][1]>>)
  BY <1>2, CellShape
<1> QED
  BY <1>1, <1>3 DEF Few

LEMMA FlattenFew ==
  ASSUME NEW A, NEW s \in Seq(Seq(A)), Few(s)
  PROVE  \E place : Placed(s, FlattenSeq(s), place)
<1> DEFINE n == Len(s)
<1>a. n \in Nat
  OBVIOUS
<1>1. \A i \in 1..n : s[i] \in Seq(A) /\ (s[i] = <<>> \/ \E x \in A : s[i] = <<x>>)
  <2> SUFFICES ASSUME NEW i \in 1..n
               PROVE  s[i] \in Seq(A) /\ (s[i] = <<>> \/ \E x \in A : s[i] = <<x>>)
    OBVIOUS
  <2>1. s[i] \in Seq(A) /\ (s[i] = <<>> \/ s[i] = <<s[i][1]>>)
    <3>1. s[i] \in Seq(A)
      OBVIOUS
    <3>2. s[i] = <<>> \/ s[i] = <<s[i][1]>>
      BY Zenon DEF Few
    <3> QED
      BY <3>1, <3>2
  <2>2. ASSUME s[i] = <<s[i][1]>> PROVE s[i][1] \in A
    <3> DEFINE y == s[i][1]
    <3>1. s[i] \in Seq(A) /\ s[i] = <<y>>
      BY <2>1, <2>2
    <3> HIDE DEF y
    <3>2. <<y>> \in Seq(A)
      BY <3>1
    <3>3. y \in A
      BY <3>2
    <3> QED
      BY <3>3 DEF y
  <2> QED
    BY <2>1, <2>2
<1>2. PICK g \in [0..n -> Seq(A)] :
        g[0] = <<>> /\ \A i \in 1..n : g[i] = g[i - 1] \o s[i]
  BY FlattenGrows
<1>3. FlattenSeq(s) = g[n]
  BY <1>a, <1>1, <1>2, FlattenIs
<1> DEFINE There(m) == {i \in 1..m : s[i] # <<>>}
           P(m) == /\ \A i \in There(m) :
                        Len(g[i]) \in 1..Len(g[m]) /\ s[i] = <<g[m][Len(g[i])]>>
                   /\ \A k \in 1..Len(g[m]) : \E i \in There(m) : Len(g[i]) = k
                   /\ \A i \in There(m), j \in There(m) : i < j => Len(g[i]) < Len(g[j])
           S == {m \in 0..n : P(m)}
<1> HIDE DEF n
<1>4. 0 \in S
  <2>1. There(0) = {}
    OBVIOUS
  <2>2. 1..Len(g[0]) = {}
    BY <1>2
  <2> QED
    BY <1>a, <1>1, <2>1, <2>2
<1>5. ASSUME NEW m \in 1..n, m - 1 \in S PROVE m \in S
  <2>1. m - 1 \in 0..n /\ m \in 0..n /\ g[m - 1] \in Seq(A) /\ g[m] \in Seq(A)
    BY <1>a, <1>1, <1>2
  <2>2. g[m] = g[m - 1] \o s[m]
    BY <1>2
  <2>3. P(m - 1)
    BY <1>5
  <2>4. \A i \in There(m) : i \in There(m - 1) \/ i = m
    BY <1>a, <1>1
  <2>5. \A i \in There(m - 1) : i \in There(m) /\ i < m
    BY <1>a, <1>1
  <2>6. CASE s[m] = <<>>
    <3>1. g[m] = g[m - 1]
      BY <2>1, <2>2, <2>6
    <3>2. \A i \in There(m) : i \in There(m - 1)
      BY <2>4, <2>6
    <3> HIDE DEF There
    <3> QED
      BY <2>1, <2>3, <2>5, <3>1, <3>2
  <2>7. CASE s[m] # <<>>
    <3>1. PICK x \in A : s[m] = <<x>>
      BY <1>a, <1>1, <2>7
    <3> DEFINE l == Len(g[m - 1])
    <3>2. l \in Nat /\ Len(g[m]) = l + 1 /\ g[m][l + 1] = x
          /\ \A k \in 1..l : g[m][k] = g[m - 1][k]
      BY <2>1, <2>2, <3>1
    <3>3. m \in There(m)
      BY <1>a, <1>1, <2>7
    <3> HIDE DEF There, l
    <3>4. \A i \in There(m) : Len(g[i]) \in 1..Len(g[m]) /\ s[i] = <<g[m][Len(g[i])]>>
      <4> SUFFICES ASSUME NEW i \in There(m)
                   PROVE  Len(g[i]) \in 1..Len(g[m]) /\ s[i] = <<g[m][Len(g[i])]>>
        OBVIOUS
      <4>1. CASE i = m
        BY <3>1, <3>2, <4>1
      <4>2. CASE i \in There(m - 1)
        <5>1. Len(g[i]) \in 1..l /\ s[i] = <<g[m - 1][Len(g[i])]>>
          BY <2>3, <4>2 DEF l
        <5> QED
          BY <3>2, <5>1
      <4> QED
        BY <2>4, <4>1, <4>2
    <3>5. \A k \in 1..Len(g[m]) : \E i \in There(m) : Len(g[i]) = k
      <4> SUFFICES ASSUME NEW k \in 1..Len(g[m]) PROVE \E i \in There(m) : Len(g[i]) = k
        OBVIOUS
      <4>1. CASE k = l + 1
        BY <3>2, <3>3, <4>1
      <4>2. CASE k \in 1..l
        <5>1. \E i \in There(m - 1) : Len(g[i]) = k
          BY <2>3, <4>2 DEF l
        <5> QED
          BY <2>5, <5>1
      <4> QED
        BY <3>2, <4>1, <4>2
    <3>6. \A i \in There(m), j \in There(m) : i < j => Len(g[i]) < Len(g[j])
      <4> SUFFICES ASSUME NEW i \in There(m), NEW j \in There(m), i < j
                   PROVE  Len(g[i]) < Len(g[j])
        OBVIOUS
      <4>1. i \in There(m - 1)
        BY <1>a, <1>1, <2>4 DEF There
      <4>2. CASE j = m
        <5>1. Len(g[i]) \in 1..l
          BY <2>3, <4>1 DEF l
        <5> QED
          BY <3>2, <4>2, <5>1
      <4>3. CASE j \in There(m - 1)
        BY <2>3, <4>1, <4>3
      <4> QED
        BY <2>4, <4>2, <4>3
    <3> QED
      BY <2>1, <3>4, <3>5, <3>6
  <2> QED
    BY <2>6, <2>7
<1>6. n \in S
  <2> HIDE DEF S
  <2>1. 0..n \subseteq S
    BY <1>a, <1>1, <1>4, <1>5, IntervalInduction
  <2> QED
    BY <1>a, <1>1, <2>1
<1> DEFINE place == [i \in There(n) |-> Len(g[i])]
<1>7. P(n)
  BY <1>6
<1>8. There(n) = ThereIn(s)
  BY DEF ThereIn, n
<1> HIDE DEF There
<1>9. place \in [There(n) -> 1..Len(g[n])]
  BY <1>7
<1>10. \A i \in There(n), j \in There(n) : place[i] = place[j] => i = j
  <2>1. There(n) \subseteq 1..n
    BY DEF There
  <2>2. \A i \in There(n) : g[i] \in Seq(A) /\ Len(g[i]) \in Nat
    BY <1>a, <1>1, <1>2, <2>1
  <2> SUFFICES ASSUME NEW i \in There(n), NEW j \in There(n), place[i] = place[j]
               PROVE  i = j
    OBVIOUS
  <2>3. Len(g[i]) = Len(g[j]) /\ Len(g[i]) \in Nat
    BY <2>2
  <2>4. ~(i < j) /\ ~(j < i)
    BY <1>7, <2>3
  <2>5. i \in Int /\ j \in Int
    BY <1>a, <1>1, <2>1
  <2> QED
    BY <2>4, <2>5
<1>11. place \in Bijection(There(n), 1..Len(g[n]))
  BY <1>7, <1>9, <1>10 DEF Bijection, Injection, Surjection, IsInjective
<1> QED
  BY <1>3, <1>7, <1>8, <1>11 DEF Placed

\* The rows at some places: as many, and each is one of them.
OnlyAre(seq, places, only) ==
  /\ Len(only) = Cardinality(places)
  /\ \A k \in 1..Len(only) : \E i \in places : only[k] = seq[i]

LEMMA OnlyIs ==
  ASSUME NEW A, NEW seq \in Seq(A), NEW places \in SUBSET (1..Len(seq))
  PROVE  Only(seq, places) \in Seq(A) /\ OnlyAre(seq, places, Only(seq, places))
<1> DEFINE n == Len(seq)
           s == [i \in 1..n |-> IF i \in places THEN <<seq[i]>> ELSE <<>>]
           only == FlattenSeq(s)
<1>1. n \in Nat
  OBVIOUS
<1>2. s \in Seq(Seq(A)) /\ Len(s) = n
  <2>1. \A i \in 1..n : seq[i] \in A
    OBVIOUS
  <2>2. \A i \in 1..n : (IF i \in places THEN <<seq[i]>> ELSE <<>>) \in Seq(A)
    BY <2>1
  <2> HIDE DEF n
  <2> QED
    BY <1>1, <2>2
<1>3. \A i \in 1..n : s[i] = IF i \in places THEN <<seq[i]>> ELSE <<>>
  OBVIOUS
<1>4. only = Only(seq, places)
  BY DEF Only
<1> HIDE DEF s, n, only
<1>5. ThereIn(s) = places
  <2>1. places \subseteq 1..n
    BY DEF n
  <2>2. \A i \in 1..n : s[i] # <<>> <=> i \in places
    <3>1. \A x : <<x>> # <<>>
      OBVIOUS
    <3> QED
      BY <1>3, <3>1
  <2> QED
    BY <1>2, <2>1, <2>2 DEF ThereIn
<1>6. Few(s)
  <2>1. \A x : <<x>>[1] = x
    OBVIOUS
  <2> QED
    BY <1>2, <1>3, <2>1 DEF Few
<1>7. PICK place : Placed(s, only, place)
  BY <1>2, <1>6, FlattenFew DEF only
<1>8. only \in Seq(A)
  BY <1>2, FlattenFrom DEF only
<1>9. Len(only) \in Nat
  BY <1>8
<1>10. /\ place \in Bijection(places, 1..Len(only))
       /\ \A i \in places : s[i] = <<only[place[i]]>>
  BY <1>5, <1>7 DEF Placed
<1>11. Len(only) = Cardinality(places)
  <2>1. IsFiniteSet(places)
    <3>1. IsFiniteSet(1..n)
      BY <1>1, FS_Interval
    <3> QED
      BY <3>1, FS_Subset DEF n
  <2>2. ExistsBijection(places, 1..Len(only))
    BY <1>10 DEF ExistsBijection
  <2>3. Cardinality(1..Len(only)) = Cardinality(places)
    BY <2>1, <2>2, FS_Bijection
  <2>4. Cardinality(1..Len(only)) = Len(only)
    <3> DEFINE l == Len(only)
    <3>1. l \in Int /\ 1 \in Int /\ l >= 0
      BY <1>9
    <3> HIDE DEF l
    <3>2. Cardinality(1..l) = IF 1 > l THEN 0 ELSE l - 1 + 1
      BY <3>1, FS_Interval
    <3>3. Cardinality(1..l) = l
      BY <3>1, <3>2
    <3> QED
      BY <3>3 DEF l
  <2> QED
    BY <2>3, <2>4
<1>12. ASSUME NEW k \in 1..Len(only) PROVE \E i \in places : only[k] = seq[i]
  <2>1. PICK i \in places : place[i] = k
    BY <1>10 DEF Bijection, Surjection
  <2>2. s[i] = <<only[k]>>
    BY <1>10, <2>1
  <2>3. s[i] = <<seq[i]>>
    BY <1>3, <2>1 DEF n
  <2> QED
    BY <2>2, <2>3
<1> QED
  BY <1>4, <1>8, <1>11, <1>12 DEF OnlyAre

LEMMA LesserOf ==
  ASSUME NEW a \in Int, NEW b \in Int
  PROVE  Min({a, b}) = IF a <= b THEN a ELSE b
<1> DEFINE m == IF a <= b THEN a ELSE b
<1>1. m \in {a, b} /\ \A y \in {a, b} : m <= y
  OBVIOUS
<1>2. \A x \in {a, b} : (\A y \in {a, b} : x <= y) => x = m
  OBVIOUS
<1> HIDE DEF m
<1> QED
  BY <1>1, <1>2 DEF Min, m

LEMMA FirstOfIs ==
  ASSUME NEW A, NEW seq \in Seq(A), NEW n \in Nat
  PROVE  /\ FirstOf(seq, n) \in Seq(A)
         /\ Len(FirstOf(seq, n)) <= Len(seq)
         /\ Len(FirstOf(seq, n)) = Min({n % IdxSize, Len(seq)})
         /\ \A i \in 1..Len(FirstOf(seq, n)) : FirstOf(seq, n)[i] = seq[i]
<1> DEFINE m == Min({n % IdxSize, Len(seq)})
<1>1. Len(seq) \in Nat /\ n % IdxSize \in Nat
  BY QualityAssumption
<1>2. m \in Nat /\ m <= Len(seq)
  BY <1>1, LesserOf
<1> HIDE DEF m
<1>3. /\ SubSeq(seq, 1, m) \in Seq(A) /\ Len(SubSeq(seq, 1, m)) = m
      /\ \A i \in 1..m : SubSeq(seq, 1, m)[i] = seq[i]
  BY <1>1, <1>2
<1> QED
  BY <1>1, <1>2, <1>3 DEF FirstOf, m

\* The values of a column, where they are there.
LEMMA ValuesAre ==
  ASSUME NEW cells \in ReportCells
  PROVE  /\ NonNulls(cells) \in Seq(Int)
         /\ \E place : Placed(cells, NonNulls(cells), place)
<1>1. cells \in Seq(Seq(Int)) /\ Few(cells)
  BY CellsShape
<1> QED
  BY <1>1, FlattenFew, FlattenFrom DEF NonNulls

\* Each value is in a cell, and each cell that is not Null has its value.
LEMMA ValuesAndCells ==
  ASSUME NEW cells \in ReportCells
  PROVE  /\ \A k \in 1..Len(NonNulls(cells)) :
              \E i \in 1..Len(cells) : cells[i] = <<NonNulls(cells)[k]>>
         /\ \A i \in 1..Len(cells) : cells[i] # <<>> =>
              \E k \in 1..Len(NonNulls(cells)) : cells[i] = <<NonNulls(cells)[k]>>
<1> DEFINE values == NonNulls(cells)
<1>1. PICK place : Placed(cells, values, place)
  BY ValuesAre
<1> HIDE DEF values
<1>2. /\ place \in Bijection(ThereIn(cells), 1..Len(values))
      /\ \A i \in ThereIn(cells) : cells[i] = <<values[place[i]]>>
  BY <1>1 DEF Placed
<1>3. \A k \in 1..Len(values) : \E i \in ThereIn(cells) : place[i] = k
  BY <1>2 DEF Bijection, Surjection
<1>4. \A i \in ThereIn(cells) : place[i] \in 1..Len(values)
  BY <1>2 DEF Bijection, Surjection
<1>5. \A i \in ThereIn(cells) : i \in 1..Len(cells)
  BY DEF ThereIn
<1>6. \A i \in 1..Len(cells) : cells[i] # <<>> => i \in ThereIn(cells)
  BY DEF ThereIn
<1>7. \A k \in 1..Len(values) : \E i \in 1..Len(cells) : cells[i] = <<values[k]>>
  BY <1>2, <1>3, <1>5
<1>8. \A i \in 1..Len(cells) : cells[i] # <<>> =>
        \E k \in 1..Len(values) : cells[i] = <<values[k]>>
  BY <1>2, <1>4, <1>6
<1> QED
  BY <1>7, <1>8 DEF values

\* The greatest of some severities, and no less than 0.
LEMMA GreatestIs ==
  ASSUME NEW n \in Nat, NEW f \in [1..n -> Nat], NEW S \in SUBSET (1..n)
  PROVE  LET T == {0} \cup {f[i] : i \in S}
         IN  Max(T) \in T /\ \A x \in T : x <= Max(T)
<1> DEFINE T(m) == {0} \cup {f[i] : i \in {j \in S : j <= m}}
           U == {m \in 0..n : \E x \in T(m) : \A y \in T(m) : x >= y}
<1>1. \A m \in 0..n : T(m) \subseteq Nat
  OBVIOUS
<1>2. 0 \in U
  <2>1. T(0) = {0}
    OBVIOUS
  <2> QED
    BY <2>1
<1>3. ASSUME NEW m \in 1..n, m - 1 \in U PROVE m \in U
  <2>1. m \in 0..n /\ m - 1 \in 0..n
    OBVIOUS
  <2>2. PICK x \in T(m - 1) : \A y \in T(m - 1) : x >= y
    BY <1>3
  <2>3. T(m) = T(m - 1) \cup (IF m \in S THEN {f[m]} ELSE {})
    <3>0. \A j \in S : j <= m <=> j <= m - 1 \/ j = m
      OBVIOUS
    <3>1. {j \in S : j <= m} = {j \in S : j <= m - 1} \cup (IF m \in S THEN {m} ELSE {})
      BY <3>0, Zenon
    <3> QED
      BY <3>1
  <2>4. x \in Nat /\ f[m] \in Nat /\ T(m - 1) \subseteq Nat
    BY <1>1, <2>1
  <2> HIDE DEF T
  <2>5. \E z \in T(m) : \A y \in T(m) : z >= y
    <3>1. CASE m \in S /\ f[m] > x
      <4>1. f[m] \in T(m) /\ \A y \in T(m) : f[m] >= y
        BY <2>2, <2>3, <2>4, <3>1
      <4> QED
        BY <4>1
    <3>2. CASE ~(m \in S /\ f[m] > x)
      <4>1. x \in T(m) /\ \A y \in T(m) : x >= y
        BY <2>2, <2>3, <2>4, <3>2
      <4> QED
        BY <4>1
    <3> QED
      BY <3>1, <3>2
  <2> QED
    BY <2>1, <2>5
<1>4. n \in U
  <2> HIDE DEF U
  <2>1. 0..n \subseteq U
    BY <1>2, <1>3, IntervalInduction
  <2> QED
    BY <2>1
<1>5. T(n) = {0} \cup {f[i] : i \in S}
  OBVIOUS
<1>6. T(n) \subseteq Nat
  BY <1>1
<1>7. \E x \in T(n) : \A y \in T(n) : x >= y
  BY <1>4
<1> HIDE DEF T
<1>8. Max(T(n)) \in T(n) /\ \A y \in T(n) : Max(T(n)) >= y
  BY <1>7 DEF Max
<1>9. \A y \in T(n) : y <= Max(T(n))
  BY <1>6, <1>8
<1> QED
  BY <1>5, <1>8, <1>9

\* Values are distinct where there are as many as there are of them.
LEMMA DistinctAre ==
  ASSUME NEW values \in Seq(Int)
  PROVE  /\ IsFiniteSet(Range(values)) /\ Cardinality(Range(values)) \in Nat
         /\ Cardinality(Range(values)) <= Len(values)
         /\ Cardinality(Range(values)) = Len(values) => IsInjective(values)
<1> DEFINE n == Len(values)
           T == Range(values)
<1>1. n \in Nat /\ values \in [1..n -> Int]
  OBVIOUS
<1> HIDE DEF n
<1>2. values \in Surjection(1..n, T)
  <2>1. DOMAIN values = 1..n
    BY <1>1
  <2>2. values = [i \in 1..n |-> values[i]]
    BY <1>1
  <2>3. \A i \in 1..n : values[i] \in T
    BY <2>1 DEF Range
  <2>4. values \in [1..n -> T]
    BY <2>2, <2>3
  <2>5. \A t \in T : \E i \in 1..n : values[i] = t
    BY <2>1 DEF Range
  <2> QED
    BY <2>4, <2>5 DEF Surjection
<1> HIDE DEF T
<1>3. IsFiniteSet(1..n) /\ Cardinality(1..n) = n
  <2>1. 1 \in Int /\ n \in Int
    BY <1>1
  <2>2. IsFiniteSet(1..n) /\ Cardinality(1..n) = IF 1 > n THEN 0 ELSE n - 1 + 1
    BY <2>1, FS_Interval
  <2> QED
    BY <1>1, <2>2
<1>4. IsFiniteSet(T) /\ Cardinality(T) <= Cardinality(1..n)
      /\ (Cardinality(T) = Cardinality(1..n) <=> values \in Injection(1..n, T))
  BY <1>2, <1>3, FS_Surjection
<1>5. Cardinality(T) \in Nat
  BY <1>4, FS_CardinalityType
<1> QED
  BY <1>3, <1>4, <1>5 DEF T, n, Injection

(* What a validation has found.                                            *)

\* Which cells break a check, and that they can be counted.
LEMMA FailingAre ==
  ASSUME NEW chk, NEW cells \in ReportCells
  PROVE  /\ FailingRows(chk, cells) \in SUBSET (1..Len(cells))
         /\ IsFiniteSet(FailingRows(chk, cells))
         /\ Cardinality(FailingRows(chk, cells)) \in Nat
         /\ Cardinality(FailingRows(chk, cells)) = 0 =>
              \A i \in 1..Len(cells) : ~RowFails(chk, cells[i])
<1> DEFINE S == FailingRows(chk, cells)
<1>1. S \in SUBSET (1..Len(cells))
  BY DEF FailingRows
<1>2. \A i \in 1..Len(cells) : RowFails(chk, cells[i]) => i \in S
  BY DEF FailingRows
<1> HIDE DEF S
<1>3. IsFiniteSet(1..Len(cells))
  <2>1. Len(cells) \in Int /\ 1 \in Int
    BY CellsShape
  <2> QED
    BY <2>1, FS_Interval
<1>4. IsFiniteSet(S)
  BY <1>1, <1>3, FS_Subset
<1>5. Cardinality(S) \in Nat
  BY <1>4, FS_CardinalityType
<1>6. Cardinality(S) = 0 => S = {}
  BY <1>4, FS_EmptySet
<1> QED
  BY <1>1, <1>2, <1>4, <1>5, <1>6 DEF S

LEMMA FailCountIs ==
  ASSUME NEW chk \in ReportChecks, NEW cells \in ReportCells
  PROVE  /\ FailCount(chk, cells) \in Nat
         /\ (chk.kind = "unique" /\ FailCount(chk, cells) = 0) => IsInjective(NonNulls(cells))
         /\ (chk.kind # "unique" /\ FailCount(chk, cells) = 0) =>
              \A i \in 1..Len(cells) : ~RowFails(chk, cells[i])
<1> DEFINE values == NonNulls(cells)
<1>1. values \in Seq(Int) /\ Len(values) \in Nat
  BY ValuesAre
<1> HIDE DEF values
<1>2. /\ Cardinality(Range(values)) \in Nat /\ Cardinality(Range(values)) <= Len(values)
      /\ Cardinality(Range(values)) = Len(values) => IsInjective(values)
  BY <1>1, DistinctAre
<1>3. CASE chk.kind = "unique"
  <2>1. FailCount(chk, cells) = Len(values) - Cardinality(Range(values))
    BY <1>3 DEF FailCount, values
  <2> QED
    BY <1>1, <1>2, <1>3, <2>1 DEF values
<1>4. CASE chk.kind # "unique"
  <2>1. FailCount(chk, cells) = Cardinality(FailingRows(chk, cells))
    BY <1>4 DEF FailCount
  <2> QED
    BY <1>4, <2>1, FailingAre
<1> QED
  BY <1>3, <1>4

\* The examples of a check: rows that break it, and as many as are asked for.
LEMMA ExamplesAre ==
  ASSUME NEW chk, NEW cells \in ReportCells, NEW max \in Nat
  PROVE  /\ Examples(chk, cells, max) \in Seq(Seq(Int))
         /\ max < IdxSize =>
              Len(Examples(chk, cells, max)) = Min({Cardinality(FailingRows(chk, cells)), max})
         /\ \A k \in 1..Len(Examples(chk, cells, max)) :
              \E i \in 1..Len(cells) :
                cells[i] = Examples(chk, cells, max)[k] /\ RowFails(chk, cells[i])
<1> DEFINE S == FailingRows(chk, cells)
           only == Only(cells, S)
           ex == Examples(chk, cells, max)
<1>1. /\ S \in SUBSET (1..Len(cells)) /\ Cardinality(S) \in Nat
      /\ \A i \in S : RowFails(chk, cells[i])
  BY FailingAre DEF FailingRows
<1>2. cells \in Seq(Seq(Int))
  BY CellsShape
<1>3. ex = FirstOf(only, max)
  BY DEF Examples
<1> HIDE DEF S
<1>4. only \in Seq(Seq(Int)) /\ OnlyAre(cells, S, only)
  BY <1>1, <1>2, OnlyIs
<1> HIDE DEF only, ex
<1>5. /\ Len(only) = Cardinality(S) /\ \A k \in 1..Len(only) : \E i \in S : only[k] = cells[i]
  BY <1>4 DEF OnlyAre
<1>6. /\ ex \in Seq(Seq(Int)) /\ Len(ex) <= Len(only)
      /\ Len(ex) = Min({max % IdxSize, Len(only)})
      /\ \A i \in 1..Len(ex) : ex[i] = only[i]
  BY <1>3, <1>4, FirstOfIs
<1>7. ASSUME max < IdxSize PROVE Len(ex) = Min({Cardinality(S), max})
  <2>1. max % IdxSize = max
    BY <1>7, QualityAssumption
  <2>2. {max, Cardinality(S)} = {Cardinality(S), max}
    OBVIOUS
  <2> QED
    BY <1>5, <1>6, <2>1, <2>2
<1>8. ASSUME NEW k \in 1..Len(ex)
      PROVE  \E i \in 1..Len(cells) : cells[i] = ex[k] /\ RowFails(chk, cells[i])
  <2>1. k \in 1..Len(only)
    <3>1. Len(ex) \in Nat /\ Len(only) \in Nat
      BY <1>4, <1>6
    <3> QED
      BY <1>6, <3>1
  <2>2. PICK i \in S : only[k] = cells[i]
    BY <1>5, <2>1
  <2> QED
    BY <1>1, <1>6, <2>2
<1> QED
  BY <1>6, <1>7, <1>8 DEF ex, S

LEMMA ChecksHave ==
  ASSUME NEW chk \in ReportChecks
  PROVE  /\ chk.kind \in {"not_null", "unique", "range", "length", "regex", "in_set"}
         /\ chk.severity \in Nat
         /\ chk.kind \in {"range", "length"} => chk.min \in Int /\ chk.max \in Int
         /\ chk.kind = "in_set" =>
              chk.values \in Seq([type : ReportTypes \cup {"Null"}, n : Int])
BY DEF ReportChecks

\* The values of a set that can be looked for are those of its type.
AllOf(values, type) == \A i \in 1..Len(values) : values[i].type = type
Holds(values, type, v) ==
  v \in InSetValues(values) <=>
    \E i \in 1..Len(values) : values[i].n = v /\ values[i].type = type

LEMMA SetHolds ==
  ASSUME NEW values \in Seq([type : ReportTypes \cup {"Null"}, n : Int]), NEW type,
         SetType(values) = type, AllOf(values, type), NEW v
  PROVE  Holds(values, type, v)
<1>1. CASE values = <<>>
  <2>1. 1..Len(values) = {}
    BY <1>1
  <2> QED
    BY <2>1 DEF InSetValues, Holds
<1>2. CASE values # <<>>
  <2>1. 1 \in 1..Len(values)
    BY <1>2
  <2>2. values[1].type = type
    BY <2>1 DEF AllOf
  <2>3. type \notin {"Float64", "Null"}
    <3>1. SetType(values) \in {"Int64", "Bool", "Utf8"}
      BY DEF SetType
    <3> QED
      BY <3>1
  <2> QED
    BY <2>2, <2>3 DEF InSetValues, Holds, AllOf
<1> QED
  BY <1>1, <1>2

\* A check that says what it does: its set is of one type, its pattern is valid.
Plain(chk, type) ==
  /\ chk.kind = "in_set" => \A i \in 1..Len(chk.values) : chk.values[i].type = type
  /\ chk.kind = "regex" => chk.valid

LEMMA FailsOrObeys ==
  ASSUME NEW chk \in ReportChecks, NEW v \in Int, ~Uncountable(chk), Plain(chk, Job.type)
  PROVE  RowFails(chk, <<v>>) <=> ~Obeys(chk, v)
<1>1. <<v>> # <<>> /\ <<v>>[1] = v
  OBVIOUS
<1>2. CASE chk.kind \in {"not_null", "unique"}
  BY <1>1, <1>2 DEF RowFails, Obeys
<1>3. CASE chk.kind \in {"range", "length"}
  BY <1>1, <1>3, ChecksHave DEF RowFails, Obeys
<1>4. CASE chk.kind = "regex"
  BY <1>1, <1>4 DEF RowFails, Obeys, Plain
<1>5. CASE chk.kind = "in_set"
  <2>1. SetType(chk.values) = Job.type
    BY <1>5 DEF Uncountable
  <2>2. \A i \in 1..Len(chk.values) : chk.values[i].type = Job.type
    BY <1>5 DEF Plain
  <2>3. v \in InSetValues(chk.values) <=>
          \E i \in 1..Len(chk.values) : chk.values[i].n = v /\ chk.values[i].type = Job.type
    <3> DEFINE values == chk.values
               type == Job.type
    <3>1. values \in Seq([type : ReportTypes \cup {"Null"}, n : Int])
      BY <1>5, ChecksHave
    <3>2. SetType(values) = type /\ AllOf(values, type)
      BY <2>1, <2>2 DEF AllOf
    <3> HIDE DEF values, type
    <3>3. Holds(values, type, v)
      BY <3>1, <3>2, SetHolds
    <3> QED
      BY <3>3 DEF Holds, values, type
  <2> QED
    BY <1>1, <1>5, <2>3 DEF RowFails, Obeys
<1> QED
  BY <1>2, <1>3, <1>4, <1>5, ChecksHave

LEMMA NullFails ==
  ASSUME NEW chk \in ReportChecks
  PROVE  /\ RowFails(chk, <<>>) => chk.kind \in {"not_null", "length"}
         /\ chk.kind = "not_null" => RowFails(chk, <<>>)
BY ChecksHave DEF RowFails

\* What is reported of a check.
ResultIs(r, chk, job) ==
  /\ r.check = chk /\ r.failed = FailCount(chk, job.cells)
  /\ r.examples = IF r.failed > 0 /\ job.max > 0 /\ chk.kind # "unique"
                  THEN Examples(chk, job.cells, job.max) ELSE <<>>

\* ... is true of its column.
IsTrue(r) ==
  LET values == Range(NonNulls(Job.cells))
      plain == Plain(r.check, Job.type)
  IN  /\ (r.check.kind # "unique" /\ Job.max < IdxSize) =>
           Len(r.examples) = Min({r.failed, Job.max})
      /\ \A i \in 1..Len(r.examples) :
           /\ Contains(Job.cells, r.examples[i])
           /\ IF r.examples[i] = <<>> THEN r.check.kind \in {"not_null", "length"}
              ELSE plain => ~Obeys(r.check, r.examples[i][1])
      /\ (plain /\ r.failed = 0) =>
           /\ \A v \in values : Obeys(r.check, v)
           /\ r.check.kind = "not_null" => ~Contains(Job.cells, <<>>)
           /\ r.check.kind = "unique" => IsInjective(NonNulls(Job.cells))
      /\ (r.check.kind = "regex" /\ ~r.check.valid) => r.failed = 0

LEMMA ResultsAreTrue ==
  ASSUME Job.cells \in ReportCells, Job.max \in Nat,
         NEW chk \in ReportChecks, ~Uncountable(chk), NEW r, ResultIs(r, chk, Job)
  PROVE  IsTrue(r)
<1> DEFINE cells == Job.cells
           max == Job.max
           ex == Examples(chk, cells, max)
           plain == Plain(r.check, Job.type)
<1>1. /\ cells \in ReportCells /\ max \in Nat
      /\ r.check = chk /\ r.failed = FailCount(chk, cells)
      /\ r.examples = IF r.failed > 0 /\ max > 0 /\ chk.kind # "unique" THEN ex ELSE <<>>
  BY DEF ResultIs
<1>2. plain => Plain(chk, Job.type)
  BY <1>1
<1> HIDE DEF cells, max, ex, plain
<1>3. r.failed \in Nat
  BY <1>1, FailCountIs
<1>4. /\ ex \in Seq(Seq(Int))
      /\ max < IdxSize => Len(ex) = Min({Cardinality(FailingRows(chk, cells)), max})
      /\ \A k \in 1..Len(ex) :
           \E i \in 1..Len(cells) : cells[i] = ex[k] /\ RowFails(chk, cells[i])
  <2>1. cells \in ReportCells /\ max \in Nat
    BY <1>1
  <2> QED
    BY <2>1, ExamplesAre, ZenonT(60) DEF ex
<1>5. \A i \in 1..Len(cells) :
        cells[i] = <<>> \/ (cells[i][1] \in Int /\ cells[i] = <<cells[i][1]>>)
  BY <1>1, CellsShape
<1>6. ASSUME r.check.kind # "unique", max < IdxSize
      PROVE  Len(r.examples) = Min({r.failed, max})
  <2>1. r.failed = Cardinality(FailingRows(chk, cells))
    BY <1>1, <1>6 DEF FailCount
  <2>2. CASE r.failed > 0 /\ max > 0
    BY <1>1, <1>4, <1>6, <2>1, <2>2
  <2>3. CASE ~(r.failed > 0 /\ max > 0)
    <3>1. Min({r.failed, max}) = 0
      <4>1. r.failed = 0 \/ max = 0
        BY <1>1, <1>3, <2>3
      <4> QED
        BY <1>1, <1>3, <4>1, LesserOf
    <3>2. r.examples = <<>> /\ Len(<<>>) = 0
      BY <1>1, <2>3
    <3> QED
      BY <3>1, <3>2
  <2> QED
    BY <2>2, <2>3
<1>7. ASSUME NEW k \in 1..Len(r.examples)
      PROVE  /\ Contains(cells, r.examples[k])
             /\ r.examples[k] = <<>> => r.check.kind \in {"not_null", "length"}
             /\ (r.examples[k] # <<>> /\ plain) => ~Obeys(r.check, r.examples[k][1])
  <2>1. r.examples = ex
    <3>1. r.examples = <<>> => 1..Len(r.examples) = {}
      OBVIOUS
    <3> QED
      BY <1>1, <1>7, <3>1
  <2>2. PICK i \in 1..Len(cells) : cells[i] = r.examples[k] /\ RowFails(chk, cells[i])
    BY <1>4, <1>7, <2>1
  <2>3. Contains(cells, r.examples[k])
    BY <2>2 DEF Contains
  <2>4. r.examples[k] = <<>> => r.check.kind \in {"not_null", "length"}
    BY <1>1, <2>2, NullFails
  <2>5. ASSUME r.examples[k] # <<>>, plain PROVE ~Obeys(r.check, r.examples[k][1])
    <3> DEFINE v == cells[i][1]
    <3>1. v \in Int /\ cells[i] = <<v>>
      BY <1>5, <2>2, <2>5
    <3> HIDE DEF v
    <3>2. RowFails(chk, <<v>>) /\ v = r.examples[k][1]
      BY <2>2, <3>1 DEF v
    <3>3. ~Obeys(chk, v)
      BY <1>2, <2>5, <3>1, <3>2, FailsOrObeys
    <3> QED
      BY <1>1, <3>2, <3>3
  <2> QED
    BY <2>3, <2>4, <2>5
<1>8. ASSUME plain, r.failed = 0
      PROVE  /\ \A v \in Range(NonNulls(cells)) : Obeys(r.check, v)
             /\ r.check.kind = "not_null" => ~Contains(cells, <<>>)
             /\ r.check.kind = "unique" => IsInjective(NonNulls(cells))
  <2>1. FailCount(chk, cells) = 0
    BY <1>1, <1>8
  <2>2. chk.kind = "unique" => IsInjective(NonNulls(cells))
    BY <1>1, <2>1, FailCountIs
  <2>3. chk.kind # "unique" => \A i \in 1..Len(cells) : ~RowFails(chk, cells[i])
    BY <1>1, <2>1, FailCountIs
  <2>4. chk.kind = "not_null" => ~Contains(cells, <<>>)
    BY <2>3, NullFails DEF Contains
  <2>5. ASSUME NEW v \in Range(NonNulls(cells)) PROVE Obeys(chk, v)
    <3> DEFINE values == NonNulls(cells)
    <3>1. values \in Seq(Int) /\ DOMAIN values = 1..Len(values)
      BY <1>1, ValuesAre
    <3>2. PICK k \in 1..Len(values) : values[k] = v
      BY <2>5, <3>1 DEF Range
    <3>3. v \in Int
      BY <3>1, <3>2
    <3>4. PICK i \in 1..Len(cells) : cells[i] = <<v>>
      BY <1>1, <3>2, ValuesAndCells
    <3>5. CASE chk.kind = "unique"
      BY <3>5 DEF Obeys
    <3>6. CASE chk.kind # "unique"
      <4>1. ~RowFails(chk, <<v>>)
        BY <2>3, <3>4, <3>6
      <4> QED
        BY <1>2, <1>8, <3>3, <4>1, FailsOrObeys
    <3> QED
      BY <3>5, <3>6
  <2> QED
    BY <1>1, <2>2, <2>4, <2>5
<1>9. ASSUME r.check.kind = "regex", ~r.check.valid PROVE r.failed = 0
  <2>1. \A cell : ~RowFails(chk, cell)
    BY <1>1, <1>9 DEF RowFails
  <2>2. FailingRows(chk, cells) = {}
    BY <2>1 DEF FailingRows
  <2>3. r.failed = Cardinality(FailingRows(chk, cells))
    BY <1>1, <1>9 DEF FailCount
  <2> QED
    BY <2>2, <2>3, FS_EmptySet
<1> QED
  BY <1>6, <1>7, <1>8, <1>9 DEF IsTrue, plain, cells, max

CheckResults == [check : ReportChecks, failed : Nat, examples : Seq(Seq(Int))]
ValidateStates ==
  [kind : {"validate"}, job : Validations, at : Nat, counts : Seq(Nat),
   results : Seq(CheckResults), answer : {"none", "ok", "engine error"}]
Countable == \A i \in 1..Len(Job.checks) : ~Uncountable(Job.checks[i])
Reported ==
  /\ Countable /\ report.at = Len(report.results) + 1 /\ report.at <= Len(Job.checks) + 1
  /\ \A k \in 1..Len(report.results) : ResultIs(report.results[k], Job.checks[k], Job)
CountedAll ==
  report.counts = [i \in 1..Len(Job.checks) |-> FailCount(Job.checks[i], Job.cells)]
Summed ==
  LET failing == {i \in 1..Len(report.results) : report.results[i].failed > 0}
  IN  report.counts = <<Cardinality(failing),
                        Max({0} \cup {Job.checks[i].severity : i \in failing})>>
Validating ==
  /\ report \in ValidateStates
  /\ report.at = 0 => report.answer # "ok" /\ report.results = <<>>
  /\ report.at > 0 => Reported /\ report.answer # "engine error"
  /\ (report.at > 0 /\ report.answer = "none") => CountedAll
  /\ report.answer = "ok" => report.at = Len(Job.checks) + 1 /\ Summed

LEMMA ValidationShape ==
  ASSUME NEW job \in Validations
  PROVE  /\ job.cells \in ReportCells /\ job.max \in Nat /\ job.checks \in Seq(ReportChecks)
         /\ Len(job.checks) \in Nat
         /\ \A i \in 1..Len(job.checks) : job.checks[i] \in ReportChecks
<1>1. job.cells \in ReportCells /\ job.max \in Nat /\ job.checks \in Seq(ReportChecks)
  BY QualityAssumption
<1> DEFINE cs == job.checks
<1>2. cs \in Seq(ReportChecks)
  BY <1>1
<1> HIDE DEF cs
<1>3. Len(cs) \in Nat /\ \A i \in 1..Len(cs) : cs[i] \in ReportChecks
  BY <1>2
<1> QED
  BY <1>1, <1>3 DEF cs

LEMMA ValidateStarts ==
  ASSUME Requested("validate", Validations)
  PROVE  Validating
<1>1. PICK job \in Validations :
        report = [kind |-> "validate", job |-> job, at |-> 0, counts |-> <<>>,
                  results |-> <<>>, answer |-> "none"]
  BY DEF Requested
<1>2. <<>> \in Seq(Nat) /\ <<>> \in Seq(CheckResults)
  BY EmptySeq
<1>3. report \in ValidateStates
  BY <1>1, <1>2 DEF ValidateStates
<1>4. report.at = 0 /\ report.answer = "none" /\ report.results = <<>>
  BY <1>1
<1> QED
  BY <1>3, <1>4 DEF Validating

GoesOn ==
  /\ report \in ValidateStates /\ report.at > 0 /\ report.answer = "none"
  /\ Reported /\ CountedAll

LEMMA Proceeds == GoesOn => Validating
<1> SUFFICES ASSUME GoesOn PROVE Validating
  OBVIOUS
<1>1. report.at \in Nat
  BY DEF GoesOn, ValidateStates
<1>2. report.at # 0
  BY <1>1 DEF GoesOn
<1> QED
  BY <1>2 DEF Validating, GoesOn

GivenUp ==
  /\ report \in ValidateStates /\ report.at = 0 /\ report.answer = "engine error"
  /\ report.results = <<>>

LEMMA Refuses == GivenUp => Validating
<1> SUFFICES ASSUME GivenUp PROVE Validating
  OBVIOUS
<1>1. report.at = 0 /\ report.answer = "engine error"
  BY Zenon DEF GivenUp
<1>a. report.answer # "ok"
  BY <1>1
<1>b. report.answer # "none"
  BY <1>1
<1>2. ~(0 > 0)
  OBVIOUS
<1>3. ~(report.at > 0)
  BY <1>1, <1>2, Zenon
<1> QED
  BY <1>1, <1>a, <1>b, <1>3, Zenon DEF GivenUp, Validating

LEMMA CountKeeps ==
  ASSUME Validating, CountFailures
  PROVE  Validating'
<1> DEFINE n == Len(Job.checks)
           all == [i \in 1..n |-> FailCount(Job.checks[i], Job.cells)]
<1>1. /\ report \in ValidateStates /\ Job \in Validations
      /\ report.at = 0 /\ report.answer = "none" /\ report.results = <<>>
  BY DEF Validating, CountFailures, Reporting, ValidateStates, Job
<1>2. n \in Nat /\ \A i \in 1..n : FailCount(Job.checks[i], Job.cells) \in Nat
  BY <1>1, ValidationShape, FailCountIs
<1>3. all \in Seq(Nat)
  BY <1>2
<1>4. CASE ReportError("engine error")
  <2>1. /\ report' \in ValidateStates /\ report'.at = 0 /\ report'.answer = "engine error"
        /\ report'.results = <<>>
    BY <1>1, <1>4 DEF ReportError, ValidateStates
  <2>2. GivenUp'
    BY <2>1 DEF GivenUp, ValidateStates
  <2> QED
    BY <2>2, Refuses, PTL
<1>5. CASE /\ ~\E i \in 1..n : Uncountable(Job.checks[i])
           /\ report' = [report EXCEPT !.at = 1, !.counts = all]
  <2>1. Countable
    BY <1>5 DEF Countable
  <2> HIDE DEF all
  <2>2. /\ report' \in ValidateStates /\ report'.at = 1 /\ report'.answer = "none"
        /\ report'.results = <<>> /\ report'.counts = all /\ report'.job = report.job
    BY <1>1, <1>3, <1>5 DEF ValidateStates
  <2>3. Job' = Job
    BY <2>2 DEF Job
  <2>4. Countable'
    BY <2>1, <2>3 DEF Countable, Uncountable
  <2>5. CountedAll'
    BY <2>2, <2>3 DEF CountedAll, all
  <2>6. Len(report.results)' = 0 /\ 1..0 = {}
    BY <2>2
  <2>7. Reported'
    BY <1>2, <2>2, <2>3, <2>4, <2>6 DEF Reported
  <2> QED
    <3>0. report' \in ValidateStates /\ report'.at > 0 /\ report'.answer = "none"
      BY <2>2
    <3>1. GoesOn'
      BY <2>5, <2>7, <3>0 DEF GoesOn, ValidateStates
    <3> QED
      BY <3>1, Proceeds, PTL
<1> QED
  BY <1>4, <1>5 DEF CountFailures

LEMMA ReportKeeps ==
  ASSUME Validating, ReportCheck
  PROVE  Validating'
<1> DEFINE n == Len(Job.checks)
           k == report.at
           chk == Job.checks[k]
           failed == report.counts[k]
           r == [check |-> chk, failed |-> failed,
                 examples |-> IF failed > 0 /\ Job.max > 0 /\ chk.kind # "unique"
                              THEN Examples(chk, Job.cells, Job.max) ELSE <<>>]
<1>1. /\ report \in ValidateStates /\ Job \in Validations /\ k \in 1..n
      /\ report' = [report EXCEPT !.at = @ + 1, !.results = Append(@, r)]
  BY DEF Validating, ReportCheck, ValidateStates, Job
<1>2. /\ n \in Nat /\ chk \in ReportChecks /\ Job.cells \in ReportCells /\ Job.max \in Nat
  BY <1>1, ValidationShape
<1>3. report.answer = "none" /\ Reported /\ CountedAll
  <2>1. report.at > 0 /\ report.at # n + 1
    BY <1>1, <1>2
  <2>2. Reported /\ report.answer # "engine error" /\ report.answer # "ok"
    BY <2>1 DEF Validating
  <2>3. report.answer \in {"none", "ok", "engine error"}
    BY <1>1 DEF ValidateStates
  <2>4. report.answer = "none"
    BY <2>2, <2>3
  <2> QED
    BY <2>1, <2>2, <2>4 DEF Validating
<1>4. failed = FailCount(chk, Job.cells)
  BY <1>1, <1>3 DEF CountedAll
<1>5. failed \in Nat
  BY <1>2, <1>4, FailCountIs
<1>6. r.examples \in Seq(Seq(Int))
  <2>1. Examples(chk, Job.cells, Job.max) \in Seq(Seq(Int))
    BY <1>2, ExamplesAre
  <2>2. <<>> \in Seq(Seq(Int))
    BY EmptySeq
  <2> QED
    BY <2>1, <2>2
<1>7. ResultIs(r, chk, Job)
  BY <1>4 DEF ResultIs
<1>8. r \in CheckResults
  <2> DEFINE ex == r.examples
  <2>1. r = [check |-> chk, failed |-> failed, examples |-> ex]
    OBVIOUS
  <2>2. ex \in Seq(Seq(Int))
    BY <1>6
  <2> HIDE DEF ex
  <2> QED
    BY <1>2, <1>5, <2>1, <2>2 DEF CheckResults
<1> HIDE DEF r, chk, failed, n
<1> DEFINE results == report.results
<1>9. results \in Seq(CheckResults) /\ k = Len(results) + 1 /\ Len(results) \in Nat
  <2>1. results \in Seq(CheckResults)
    BY <1>1 DEF ValidateStates
  <2>2. k = Len(results) + 1
    BY <1>3 DEF Reported
  <2> QED
    BY <2>1, <2>2
<1>a. Append(results, r) \in Seq(CheckResults) /\ k + 1 \in Nat
  BY <1>8, <1>9
<1>10. /\ report' \in ValidateStates /\ report'.at = k + 1 /\ report'.job = report.job
       /\ report'.results = Append(results, r) /\ report'.counts = report.counts
       /\ report'.answer = "none"
  <2> DEFINE more == Append(results, r)
             later == k + 1
  <2>1. more \in Seq(CheckResults) /\ later \in Nat
    BY <1>a
  <2>2. report' = [report EXCEPT !.at = later, !.results = more]
    BY <1>1
  <2> HIDE DEF more, later
  <2>3. /\ report' \in ValidateStates /\ report'.at = later /\ report'.job = report.job
        /\ report'.results = more /\ report'.counts = report.counts
        /\ report'.answer = report.answer
    BY <1>1, <2>1, <2>2 DEF ValidateStates
  <2> QED
    BY <1>3, <2>3 DEF more, later
<1> HIDE DEF results, k
<1>11. Job' = Job
  BY <1>10 DEF Job
<1>12. /\ Len(Append(results, r)) = k /\ Append(results, r)[k] = r
       /\ \A i \in 1..Len(results) : Append(results, r)[i] = results[i]
  BY <1>8, <1>9
<1>13. Countable' /\ CountedAll'
  <2>1. Countable /\ CountedAll
    BY <1>3 DEF Reported
  <2> QED
    BY <1>10, <1>11, <2>1 DEF Countable, Uncountable, CountedAll
<1>14. \A i \in 1..k : ResultIs(Append(results, r)[i], Job.checks[i], Job)
  <2> SUFFICES ASSUME NEW i \in 1..k PROVE ResultIs(Append(results, r)[i], Job.checks[i], Job)
    OBVIOUS
  <2>1. CASE i = k
    BY <1>7, <1>12, <2>1 DEF chk
  <2>2. CASE i # k
    <3>1. i \in 1..Len(results)
      BY <1>9, <2>2
    <3>2. ResultIs(results[i], Job.checks[i], Job)
      BY <1>3, <3>1 DEF Reported, results
    <3> QED
      BY <1>12, <3>1, <3>2
  <2> QED
    BY <2>1, <2>2
<1>15. Reported'
  <2>1. k \in 1..n
    BY <1>1 DEF k
  <2>2. Job.checks' = Job.checks
    BY <1>11
  <2>3. n' = n
    BY <2>2 DEF n
  <2>4. \A i \in 1..k : ResultIs(Append(results, r)[i], Job'.checks[i], Job')
    BY <1>11, <1>14
  <2> QED
    BY <1>2, <1>10, <1>12, <1>13, <2>1, <2>3, <2>4 DEF Reported, n
<1>16. report'.at > 0
  BY <1>9, <1>10
<1>17. GoesOn'
  BY <1>10, <1>13, <1>15, <1>16 DEF GoesOn, ValidateStates
<1> QED
  BY <1>17, Proceeds, PTL

LEMMA SummarizeKeeps ==
  ASSUME Validating, Summarize
  PROVE  Validating'
<1> DEFINE n == Len(Job.checks)
           failing == {i \in 1..Len(report.results) : report.results[i].failed > 0}
           worst == Max({0} \cup {Job.checks[i].severity : i \in failing})
<1>1. /\ report \in ValidateStates /\ Job \in Validations
      /\ report.at = n + 1 /\ report.answer = "none"
      /\ report' = [report EXCEPT !.answer = "ok", !.counts = <<Cardinality(failing), worst>>]
  BY DEF Validating, Summarize, Reporting, ValidateStates, Job
<1>2. n \in Nat /\ \A i \in 1..n : Job.checks[i] \in ReportChecks
  BY <1>1, ValidationShape
<1>3. Reported
  <2>1. report.at > 0
    BY <1>1, <1>2
  <2> QED
    BY <2>1 DEF Validating
<1>4. report.results \in Seq(CheckResults) /\ Len(report.results) = n
  <2>1. report.results \in Seq(CheckResults)
    BY <1>1 DEF ValidateStates
  <2>2. report.at = Len(report.results) + 1
    BY <1>3 DEF Reported
  <2> QED
    BY <1>1, <1>2, <2>1, <2>2
<1>5. Cardinality(failing) \in Nat
  <2>1. failing \in SUBSET (1..n)
    BY <1>4
  <2>2. IsFiniteSet(1..n)
    BY <1>2, FS_Interval
  <2> HIDE DEF failing, n
  <2>3. IsFiniteSet(failing)
    BY <2>1, <2>2, FS_Subset
  <2> QED
    BY <2>3, FS_CardinalityType
<1>6. worst \in Nat
  <2> DEFINE f == [i \in 1..n |-> Job.checks[i].severity]
             T == {0} \cup {f[i] : i \in failing}
  <2>1. f \in [1..n -> Nat]
    BY <1>2, ChecksHave
  <2>2. failing \in SUBSET (1..n)
    BY <1>4
  <2>3. \A i \in failing : f[i] = Job.checks[i].severity /\ f[i] \in Nat
    BY <2>1, <2>2
  <2>4. {f[i] : i \in failing} = {Job.checks[i].severity : i \in failing}
    BY <2>3, Zenon
  <2> HIDE DEF f, failing, n
  <2>5. Max(T) \in T
    BY <1>2, <2>1, <2>2, GreatestIs
  <2>6. T \subseteq Nat
    BY <2>3
  <2>7. worst = Max(T)
    BY <2>4
  <2> QED
    BY <2>5, <2>6, <2>7
<1> DEFINE sums == <<Cardinality(failing), worst>>
<1>7. sums \in Seq(Nat)
  BY <1>5, <1>6
<1>8. report' = [report EXCEPT !.answer = "ok", !.counts = sums]
  BY <1>1
<1> HIDE DEF sums, worst, failing, n
<1>9. /\ report' \in ValidateStates /\ report'.at = report.at /\ report'.job = report.job
      /\ report'.results = report.results /\ report'.counts = sums /\ report'.answer = "ok"
  BY <1>1, <1>7, <1>8 DEF ValidateStates
<1>10. Job' = Job
  BY <1>9 DEF Job
<1>11. Reported'
  BY <1>3, <1>9, <1>10 DEF Reported, Countable, Uncountable
<1>12. Summed'
  BY <1>9, <1>10 DEF Summed, sums, worst, failing
<1>13. (report \in ValidateStates)'
  BY <1>9 DEF ValidateStates
<1>14. (report.at = Len(Job.checks) + 1)' /\ report'.at # 0
  BY <1>1, <1>2, <1>9, <1>10 DEF n
<1> QED
  BY <1>9, <1>11, <1>12, <1>13, <1>14 DEF Validating

LEMMA VerdictsAre ==
  ASSUME Validating
  PROVE  VerdictsHold
<1> SUFFICES ASSUME Over("validate") PROVE VerdictsHold
  BY DEF VerdictsHold
<1> DEFINE n == Len(Job.checks)
           results == report.results
           failing == {i \in 1..Len(results) : results[i].failed > 0}
           f == [i \in 1..n |-> Job.checks[i].severity]
           T == {0} \cup {f[i] : i \in failing}
           worst == Max({0} \cup {Job.checks[i].severity : i \in failing})
<1>1. /\ report \in ValidateStates /\ Job \in Validations
      /\ report.at = n + 1 /\ report.answer = "ok" /\ Summed
  BY DEF Validating, Over, ValidateStates, Job
<1>2. n \in Nat /\ \A i \in 1..n : Job.checks[i] \in ReportChecks
  BY <1>1, ValidationShape
<1>3. Reported
  <2>1. report.at > 0
    BY <1>1, <1>2
  <2> QED
    BY <2>1 DEF Validating
<1>4. results \in Seq(CheckResults) /\ Len(results) = n
  <2>1. results \in Seq(CheckResults)
    BY <1>1 DEF ValidateStates
  <2>2. report.at = Len(results) + 1
    BY <1>3 DEF Reported
  <2> QED
    BY <1>1, <1>2, <2>1, <2>2
<1>5. \A k \in 1..n : ResultIs(results[k], Job.checks[k], Job) /\ ~Uncountable(Job.checks[k])
  BY <1>3, <1>4 DEF Reported, Countable
<1>6. report.counts = <<Cardinality(failing), worst>>
  BY <1>1 DEF Summed
<1>a. report.counts[1] = Cardinality(failing) /\ report.counts[2] = worst
  BY <1>6
<1>7. f \in [1..n -> Nat] /\ failing \in SUBSET (1..n)
  BY <1>2, <1>4, ChecksHave
<1>8. \A i \in failing : f[i] = Job.checks[i].severity
  BY <1>7
<1>9. worst = Max(T)
  <2>1. {f[i] : i \in failing} = {Job.checks[i].severity : i \in failing}
    BY <1>8, Zenon
  <2> QED
    BY <2>1
<1> HIDE DEF n, failing, f, worst, results
<1>10. Max(T) \in T /\ \A x \in T : x <= Max(T)
  BY <1>2, <1>7, GreatestIs
<1>11. \A k \in 1..n : IsTrue(results[k])
  <2>1. Job.cells \in ReportCells /\ Job.max \in Nat
    BY <1>1, ValidationShape
  <2> QED
    BY <1>2, <1>5, <2>1, ResultsAreTrue
<1>12. ASSUME NEW k \in 1..n, results[k].failed > 0
       PROVE  results[k].check.severity <= worst
  <2>1. k \in failing
    BY <1>4, <1>12 DEF failing
  <2>2. f[k] <= worst
    BY <1>9, <1>10, <2>1
  <2>3. results[k].check = Job.checks[k]
    BY <1>5 DEF ResultIs
  <2> QED
    BY <1>8, <2>1, <2>2, <2>3
<1>13. ASSUME worst > 0 PROVE Cardinality(failing) > 0
  <2>1. failing # {}
    BY <1>9, <1>10, <1>13
  <2>2. IsFiniteSet(1..n)
    BY <1>2, FS_Interval
  <2>3. IsFiniteSet(failing)
    BY <1>7, <2>2, FS_Subset
  <2>4. Cardinality(failing) \in Nat
    BY <2>3, FS_CardinalityType
  <2>5. Cardinality(failing) # 0
    BY <2>1, <2>3, FS_EmptySet
  <2> QED
    BY <2>4, <2>5
<1>14. \A k \in 1..Len(report.results) : IsTrue(report.results[k])
  BY <1>4, <1>11 DEF results
<1>15. \A k \in 1..Len(report.results) :
         report.results[k].failed > 0 => report.results[k].check.severity <= report.counts[2]
  BY <1>4, <1>12, <1>a DEF results
<1>16. report.counts[2] > 0 => report.counts[1] > 0
  BY <1>13, <1>a
<1> QED
  BY <1>14, <1>15, <1>16 DEF VerdictsHold, IsTrue, Plain

\* Sorting: the k-th has at most k - 1 values below it, and n - k above it.
Upto(values, i) ==
  {j \in 1..Len(values) : values[j] < values[i] \/ (values[j] = values[i] /\ j <= i)}
Lower(values, x) == {j \in 1..Len(values) : values[j] < x}
Higher(values, x) == {j \in 1..Len(values) : values[j] > x}
Ordered(values, s) ==
  /\ \A k \in 1..Len(values) :
       /\ s[k] \in Int /\ \E i \in 1..Len(values) : s[k] = values[i]
       /\ Cardinality(Lower(values, s[k])) < k
       /\ Cardinality(Higher(values, s[k])) <= Len(values) - k
  /\ \A k \in 1..Len(values), l \in 1..Len(values) : k <= l => s[k] <= s[l]

LEMMA PlacesAreFew ==
  ASSUME NEW n \in Nat, NEW S \in SUBSET (1..n)
  PROVE  IsFiniteSet(S) /\ Cardinality(S) \in Nat /\ Cardinality(S) <= n
<1>1. IsFiniteSet(1..n) /\ Cardinality(1..n) = n
  <2>1. n \in Int /\ 1 \in Int
    OBVIOUS
  <2>2. IsFiniteSet(1..n) /\ Cardinality(1..n) = IF 1 > n THEN 0 ELSE n - 1 + 1
    BY <2>1, FS_Interval
  <2> QED
    BY <2>2
<1>2. IsFiniteSet(S) /\ Cardinality(S) <= Cardinality(1..n)
  BY <1>1, FS_Subset
<1> QED
  BY <1>1, <1>2, FS_CardinalityType

LEMMA FewerPlaces ==
  ASSUME NEW n \in Nat, NEW S \in SUBSET (1..n), NEW T \in SUBSET S
  PROVE  /\ Cardinality(T) \in Nat /\ Cardinality(S) \in Nat
         /\ Cardinality(T) <= Cardinality(S)
         /\ T # S => Cardinality(T) < Cardinality(S)
<1>1. IsFiniteSet(S) /\ Cardinality(S) \in Nat /\ Cardinality(T) \in Nat
  BY PlacesAreFew
<1>2. Cardinality(T) <= Cardinality(S) /\ (Cardinality(S) = Cardinality(T) => S = T)
  BY <1>1, FS_Subset
<1> QED
  BY <1>1, <1>2

LEMMA PlacesApart ==
  ASSUME NEW n \in Nat, NEW S \in SUBSET (1..n), NEW T \in SUBSET (1..n), S \cap T = {}
  PROVE  Cardinality(S) + Cardinality(T) <= n
<1>1. IsFiniteSet(S) /\ IsFiniteSet(T)
  BY PlacesAreFew
<1>2. /\ Cardinality(S \cup T) <= n
  BY PlacesAreFew
<1>3. Cardinality(S \cup T) = Cardinality(S) + Cardinality(T) - Cardinality({})
  BY <1>1, FS_Union
<1>4. Cardinality({}) = 0 /\ Cardinality(S) \in Nat /\ Cardinality(T) \in Nat
  BY FS_EmptySet, PlacesAreFew
<1> QED
  BY <1>2, <1>3, <1>4

LEMMA RanksOrder ==
  ASSUME NEW values \in Seq(Int)
  PROVE  /\ \A i \in 1..Len(values) :
              /\ Rank(values, i) \in 1..Len(values)
              /\ Cardinality(Lower(values, values[i])) < Rank(values, i)
              /\ Cardinality(Higher(values, values[i])) <= Len(values) - Rank(values, i)
         /\ \A i \in 1..Len(values), j \in 1..Len(values) :
              (values[i] < values[j] \/ (values[i] = values[j] /\ i < j)) =>
                Rank(values, i) < Rank(values, j)
<1> DEFINE n == Len(values)
<1>1. n \in Nat /\ \A i \in 1..n : values[i] \in Int
  OBVIOUS
<1> HIDE DEF n
<1>2. \A i \in 1..n : /\ Rank(values, i) = Cardinality(Upto(values, i))
                      /\ Upto(values, i) \in SUBSET (1..n) /\ i \in Upto(values, i)
                      /\ Lower(values, values[i]) \in SUBSET Upto(values, i)
                      /\ i \notin Lower(values, values[i])
                      /\ Higher(values, values[i]) \in SUBSET (1..n)
                      /\ Upto(values, i) \cap Higher(values, values[i]) = {}
  BY <1>1 DEF Rank, Upto, Lower, Higher, n
<1>3. ASSUME NEW i \in 1..n
      PROVE  /\ Rank(values, i) \in 1..n
             /\ Cardinality(Lower(values, values[i])) < Rank(values, i)
             /\ Cardinality(Higher(values, values[i])) <= n - Rank(values, i)
  <2> DEFINE U == Upto(values, i)
             L == Lower(values, values[i])
             H == Higher(values, values[i])
  <2>1. /\ Rank(values, i) = Cardinality(U) /\ U \in SUBSET (1..n) /\ i \in U
        /\ L \in SUBSET U /\ i \notin L /\ H \in SUBSET (1..n) /\ U \cap H = {}
    BY <1>2
  <2> HIDE DEF U, L, H
  <2>2. L # U
    BY <2>1
  <2>3. Cardinality(L) \in Nat /\ Cardinality(U) \in Nat /\ Cardinality(L) < Cardinality(U)
    BY <1>1, <2>1, <2>2, FewerPlaces
  <2>4. Cardinality(U) + Cardinality(H) <= n /\ Cardinality(H) \in Nat
    BY <1>1, <2>1, PlacesApart, PlacesAreFew
  <2> QED
    BY <1>1, <2>1, <2>3, <2>4 DEF L, H
<1>4. ASSUME NEW i \in 1..n, NEW j \in 1..n,
             values[i] < values[j] \/ (values[i] = values[j] /\ i < j)
      PROVE  Rank(values, i) < Rank(values, j)
  <2>1. Upto(values, i) \in SUBSET Upto(values, j) /\ j \notin Upto(values, i)
    BY <1>1, <1>4 DEF Upto, n
  <2>2. Upto(values, i) # Upto(values, j) /\ Upto(values, j) \in SUBSET (1..n)
    BY <1>2, <2>1
  <2> QED
    BY <1>1, <1>2, <2>1, <2>2, FewerPlaces
<1> QED
  BY <1>3, <1>4 DEF n

\* Every rank is some value's.
LEMMA RanksAreAll ==
  ASSUME NEW values \in Seq(Int), NEW k \in 1..Len(values)
  PROVE  \E i \in 1..Len(values) : Rank(values, i) = k
<1> DEFINE n == Len(values)
           rank == [i \in 1..n |-> Rank(values, i)]
<1>1. n \in Nat /\ \A i \in 1..n : values[i] \in Int
  OBVIOUS
<1>2. rank \in [1..n -> 1..n]
  BY RanksOrder
<1>3. \A i \in 1..n, j \in 1..n : rank[i] = rank[j] => i = j
  <2> SUFFICES ASSUME NEW i \in 1..n, NEW j \in 1..n, i # j PROVE rank[i] # rank[j]
    OBVIOUS
  <2>1. \/ values[i] < values[j] \/ (values[i] = values[j] /\ i < j)
        \/ values[j] < values[i] \/ (values[j] = values[i] /\ j < i)
    BY <1>1
  <2>2. rank[i] < rank[j] \/ rank[j] < rank[i]
    BY <2>1, RanksOrder
  <2>3. rank[i] \in Int /\ rank[j] \in Int
    BY <1>1, <1>2
  <2> QED
    BY <2>2, <2>3
<1> HIDE DEF n, rank
<1>4. rank \in Injection(1..n, 1..n)
  BY <1>2, <1>3 DEF Injection, IsInjective
<1>5. IsFiniteSet(1..n)
  BY <1>1, PlacesAreFew
<1>6. rank \in Surjection(1..n, 1..n)
  BY <1>4, <1>5, FS_Injection
<1>7. \E i \in 1..n : rank[i] = k
  BY <1>6 DEF Surjection, n
<1> QED
  BY <1>7 DEF n, rank

LEMMA AscendingIs ==
  ASSUME NEW values \in Seq(Int)
  PROVE  Ordered(values, Ascending(values))
<1> DEFINE n == Len(values)
           s == Ascending(values)
           at == [k \in 1..n |-> CHOOSE i \in 1..n : Rank(values, i) = k]
<1>1. n \in Nat /\ \A i \in 1..n : values[i] \in Int
  OBVIOUS
<1>2. \A k \in 1..n : s[k] = values[at[k]] /\ at[k] \in 1..n /\ Rank(values, at[k]) = k
  <2> SUFFICES ASSUME NEW k \in 1..n
               PROVE  s[k] = values[at[k]] /\ at[k] \in 1..n /\ Rank(values, at[k]) = k
    OBVIOUS
  <2>1. s[k] = values[at[k]]
    BY DEF Ascending
  <2>2. \E i \in 1..n : Rank(values, i) = k
    BY RanksAreAll
  <2> QED
    BY <2>1, <2>2
<1> HIDE DEF s, at
<1>3. ASSUME NEW k \in 1..n
      PROVE  /\ s[k] \in Int /\ \E i \in 1..n : s[k] = values[i]
             /\ Cardinality(Lower(values, s[k])) < k
             /\ Cardinality(Higher(values, s[k])) <= n - k
  <2> DEFINE i == at[k]
  <2>1. i \in 1..n /\ s[k] = values[i] /\ Rank(values, i) = k
    BY <1>2
  <2> HIDE DEF i
  <2>2. /\ Cardinality(Lower(values, values[i])) < Rank(values, i)
        /\ Cardinality(Higher(values, values[i])) <= n - Rank(values, i)
    BY <2>1, RanksOrder
  <2> QED
    BY <1>1, <2>1, <2>2
<1>4. ASSUME NEW k \in 1..n, NEW l \in 1..n, k <= l
      PROVE  s[k] <= s[l]
  <2>1. at[k] \in 1..n /\ at[l] \in 1..n /\ s[k] = values[at[k]] /\ s[l] = values[at[l]]
        /\ Rank(values, at[k]) = k /\ Rank(values, at[l]) = l
    BY <1>2
  <2>2. ~(values[at[l]] < values[at[k]])
    <3>1. values[at[l]] < values[at[k]] => Rank(values, at[l]) < Rank(values, at[k])
      BY <2>1, RanksOrder
    <3>2. k \in Int /\ l \in Int
      BY <1>1
    <3> QED
      BY <1>4, <2>1, <3>1, <3>2
  <2> QED
    BY <1>1, <2>1, <2>2
<1> QED
  BY <1>3, <1>4 DEF Ordered, s

\* The rank of a quantile is where it should be.
IsNearest(n, q, r) ==
  /\ r \in 0..(n - 1)
  /\ 2000 * r <= 2 * (n - 1) * q + 1000
  /\ 2000 * (n - 1 - r) <= 2 * (n - 1) * (1000 - q) + 1000

LEMMA NearestRankIs ==
  ASSUME NEW n \in Nat, n > 0, NEW q \in 0..1000
  PROVE  IsNearest(n, q, NearestRank(n, q))
<1> DEFINE p == (n - 1) * q
           r == (p * 2 + 1000) \div 2000
           lo == 2 * (n - 1) * q
           hi == 2 * (n - 1) * (1000 - q)
<1>1. p \in Nat /\ p <= (n - 1) * 1000
  <2>1. n - 1 \in Nat /\ q \in Nat /\ 1000 - q \in Nat
    OBVIOUS
  <2>2. p \in Nat /\ (n - 1) * (1000 - q) \in Nat
    BY <2>1
  <2>3. (n - 1) * (1000 - q) = (n - 1) * 1000 - p
    BY <2>1
  <2> QED
    BY <2>1, <2>2, <2>3
<1>2. NearestRank(n, q) = r
  BY DEF NearestRank
<1>3. lo = 2 * p /\ hi = 2000 * (n - 1) - 2 * p
  OBVIOUS
<1> HIDE DEF p, lo, hi
<1>4. r \in Int /\ 2000 * r <= p * 2 + 1000 /\ p * 2 + 1000 < 2000 * r + 2000
  BY <1>1
<1> HIDE DEF r
<1>5. r >= 0 /\ r <= n - 1
  BY <1>1, <1>4
<1>6. r \in 0..(n - 1) /\ 2000 * r <= lo + 1000 /\ 2000 * (n - 1 - r) <= hi + 1000
  BY <1>1, <1>3, <1>4, <1>5
<1> QED
  BY <1>2, <1>6 DEF IsNearest, lo, hi

IsQuantile(values, q, v) ==
  IF values = <<>> THEN v = <<>>
  ELSE \E x \in Int :
         /\ v = <<x>> /\ \E i \in 1..Len(values) : x = values[i]
         /\ 2000 * Cardinality(Lower(values, x)) <= 2 * (Len(values) - 1) * q + 1000
         /\ 2000 * Cardinality(Higher(values, x)) <=
              2 * (Len(values) - 1) * (1000 - q) + 1000

LEMMA QuantileIs ==
  ASSUME NEW values \in Seq(Int), NEW q \in 0..1000
  PROVE  IsQuantile(values, q, Quantile(values, q))
<1>1. CASE values = <<>>
  BY <1>1 DEF IsQuantile, Quantile
<1>2. CASE values # <<>>
  <2> DEFINE n == Len(values)
             r == NearestRank(n, q)
             s == Ascending(values)
             x == s[r + 1]
             bound == 2 * (n - 1) * q + 1000
             other == 2 * (n - 1) * (1000 - q) + 1000
  <2>1. n \in Nat /\ n > 0
    BY <1>2, EmptySeq
  <2>b. IsNearest(n, q, NearestRank(n, q))
    <3> HIDE DEF n
    <3> QED
      BY <2>1, NearestRankIs, ZenonT(60)
  <2>2. r \in 0..(n - 1) /\ 2000 * r <= bound /\ 2000 * (n - 1 - r) <= other
    BY <2>b DEF IsNearest
  <2>3. Quantile(values, q) = <<x>>
    BY <1>2 DEF Quantile
  <2>a. bound \in Int /\ other \in Int
    BY <2>1
  <2> HIDE DEF r, s, n, bound, other
  <2>4. r + 1 \in 1..n
    BY <2>1, <2>2
  <2>5. /\ x \in Int /\ \E i \in 1..n : x = values[i]
        /\ Cardinality(Lower(values, x)) < r + 1
        /\ Cardinality(Higher(values, x)) <= n - (r + 1)
    BY <2>4, AscendingIs, Zenon DEF Ordered, s, n
  <2>6. Lower(values, x) \in SUBSET (1..n) /\ Higher(values, x) \in SUBSET (1..n)
    BY DEF Lower, Higher, n
  <2> HIDE DEF x
  <2>7. Cardinality(Lower(values, x)) \in Nat /\ Cardinality(Higher(values, x)) \in Nat
    BY <2>1, <2>6, PlacesAreFew
  <2>8. /\ 2000 * Cardinality(Lower(values, x)) <= bound
        /\ 2000 * Cardinality(Higher(values, x)) <= other
    BY <2>1, <2>2, <2>5, <2>7, <2>a
  <2> QED
    BY <1>2, <2>3, <2>5, <2>8 DEF IsQuantile, n, bound, other
<1> QED
  BY <1>1, <1>2

\* The rows of a sample are the first ones, as many as were asked for.
RowCount(cells, sampling) ==
  IF sampling = <<>> THEN Len(cells) ELSE Min({sampling[1], Len(cells)})
SmallSample(sampling) == sampling = <<>> \/ sampling[1] < IdxSize

LEMMA SampledIs ==
  ASSUME NEW cells \in ReportCells, NEW sampling \in Samplings, SmallSample(sampling)
  PROVE  /\ Sampled(cells, sampling) \in ReportCells
         /\ Len(Sampled(cells, sampling)) = RowCount(cells, sampling)
         /\ RowCount(cells, sampling) \in Nat
         /\ \A i \in 1..RowCount(cells, sampling) :
              i \in 1..Len(cells) /\ Sampled(cells, sampling)[i] = cells[i]
<1>1. cells \in Seq(Seq(Int)) /\ Len(cells) \in Nat
      /\ \A i \in 1..Len(cells) : Len(cells[i]) <= 1
  BY CellsShape DEF ReportCells
<1>2. CASE sampling = <<>>
  BY <1>1, <1>2 DEF Sampled, RowCount
<1>3. CASE sampling # <<>>
  <2> DEFINE m == sampling[1]
             first == FirstOf(cells, m)
             k == Len(first)
  <2>1. m \in Nat /\ m < IdxSize
    <3>1. sampling \in Seq(Nat) /\ sampling # <<>>
      BY <1>3 DEF Samplings
    <3>2. sampling[1] \in Nat
      BY <3>1
    <3> QED
      BY <1>3, <3>2 DEF SmallSample
  <2>2. m % IdxSize = m
    <3> HIDE DEF m
    <3>1. IdxSize \in Nat \ {0}
      BY QualityAssumption
    <3> QED
      BY <2>1, <3>1
  <2>3. Sampled(cells, sampling) = first /\ RowCount(cells, sampling) = Min({m, Len(cells)})
    BY <1>3 DEF Sampled, RowCount
  <2> HIDE DEF m
  <2>4. /\ first \in Seq(Seq(Int)) /\ Len(first) <= Len(cells)
        /\ Len(first) = Min({m, Len(cells)})
        /\ \A i \in 1..Len(first) : first[i] = cells[i]
    BY <1>1, <2>1, <2>2, FirstOfIs
  <2> HIDE DEF first
  <2>5. k \in Nat
    BY <2>4
  <2> HIDE DEF k
  <2>a. k <= Len(cells) /\ \A i \in 1..k : first[i] = cells[i]
    BY <2>4, Zenon DEF k
  <2>6. k <= Len(cells) /\ \A i \in 1..k : first[i] = cells[i] /\ i \in 1..Len(cells)
    <3> DEFINE l == Len(cells)
    <3>1. l \in Nat /\ k <= l
      BY <1>1, <2>a
    <3> HIDE DEF l
    <3>2. \A i \in 1..k : i \in 1..l
      BY <2>5, <3>1
    <3> QED
      BY <2>a, <3>2 DEF l
  <2>7. first \in ReportCells
    BY <1>1, <2>4, <2>6 DEF ReportCells, k
  <2> QED
    BY <2>3, <2>4, <2>5, <2>6, <2>7 DEF k
<1> QED
  BY <1>2, <1>3

\* Cells of values are as many as the values.
LEMMA CellsToValues ==
  ASSUME NEW cells \in ReportCells
  PROVE  /\ Cardinality(ThereIn(cells)) = Len(NonNulls(cells))
         /\ Cardinality({cells[i] : i \in ThereIn(cells)}) =
              Cardinality(Range(NonNulls(cells)))
<1> DEFINE values == NonNulls(cells)
           there == ThereIn(cells)
           n == Len(values)
           T == {cells[i] : i \in there}
           V == Range(values)
           wrap == [v \in V |-> <<v>>]
<1>1. values \in Seq(Int) /\ \E place : Placed(cells, values, place)
  BY ValuesAre
<1> HIDE DEF values
<1>2. PICK place : place \in Bijection(there, 1..n)
                   /\ \A i \in there : cells[i] = <<values[place[i]]>>
  BY <1>1 DEF Placed
<1>3. n \in Nat /\ DOMAIN values = 1..n
  BY <1>1
<1>4. Len(cells) \in Nat /\ there \in SUBSET (1..Len(cells))
  BY CellsShape DEF ThereIn
<1> HIDE DEF n, there
<1>5. IsFiniteSet(1..n) /\ Cardinality(1..n) = n
  <2>1. n \in Int /\ 1 \in Int
    BY <1>3
  <2>2. IsFiniteSet(1..n) /\ Cardinality(1..n) = IF 1 > n THEN 0 ELSE n - 1 + 1
    BY <2>1, FS_Interval
  <2> QED
    BY <1>3, <2>2
<1>6. Cardinality(there) = n
  <2>1. IsFiniteSet(there)
    BY <1>4, PlacesAreFew
  <2>2. ExistsBijection(there, 1..n)
    BY <1>2 DEF ExistsBijection
  <2> QED
    BY <1>5, <2>1, <2>2, FS_Bijection
<1>7. \A i \in there : place[i] \in 1..n
  BY <1>2 DEF Bijection, Surjection
<1>8. \A k \in 1..n : \E i \in there : place[i] = k
  BY <1>2 DEF Bijection, Surjection
<1>9. \A v \in V : <<v>> \in T
  <2> SUFFICES ASSUME NEW v \in V PROVE <<v>> \in T
    OBVIOUS
  <2>1. PICK k \in 1..n : values[k] = v
    BY <1>3 DEF Range
  <2>2. PICK i \in there : place[i] = k
    BY <1>8
  <2>3. cells[i] = <<v>>
    BY <1>2, <2>1, <2>2
  <2> QED
    BY <2>3
<1>10. \A t \in T : \E v \in V : <<v>> = t
  <2> SUFFICES ASSUME NEW i \in there PROVE \E v \in V : <<v>> = cells[i]
    OBVIOUS
  <2>1. values[place[i]] \in V
    BY <1>3, <1>7 DEF Range
  <2> QED
    BY <1>2, <2>1
<1>11. IsFiniteSet(V)
  BY <1>1, DistinctAre
<1> HIDE DEF T, V
<1>12. wrap \in Bijection(V, T)
  <2>1. wrap \in [V -> T]
    BY <1>9
  <2>2. \A t \in T : \E v \in V : wrap[v] = t
    BY <1>10
  <2>3. \A v \in V, w \in V : wrap[v] = wrap[w] => v = w
    OBVIOUS
  <2> HIDE DEF wrap
  <2> QED
    BY <2>1, <2>2, <2>3 DEF Bijection, Injection, Surjection, IsInjective
<1>13. Cardinality(T) = Cardinality(V)
  <2>1. ExistsBijection(V, T)
    BY <1>12 DEF ExistsBijection
  <2> QED
    BY <1>11, <2>1, FS_Bijection
<1> QED
  BY <1>6, <1>13 DEF T, V, n, there, values

\* Some of the cells of values are no more than the values they are at.
LEMMA CellsAmongValues ==
  ASSUME NEW cells \in ReportCells, NEW S \in SUBSET ThereIn(cells),
         NEW T \in SUBSET (1..Len(NonNulls(cells))),
         \A i \in S, k \in 1..Len(NonNulls(cells)) :
           cells[i] = <<NonNulls(cells)[k]>> => k \in T
  PROVE  Cardinality(S) \in Nat /\ Cardinality(S) <= Cardinality(T)
<1> DEFINE values == NonNulls(cells)
           there == ThereIn(cells)
           n == Len(values)
<1>1. values \in Seq(Int) /\ \E place : Placed(cells, values, place)
  BY ValuesAre
<1> HIDE DEF values
<1>2. PICK place : place \in Bijection(there, 1..n)
                   /\ \A i \in there : cells[i] = <<values[place[i]]>>
  BY <1>1 DEF Placed
<1>3. n \in Nat
  BY <1>1
<1>4. Len(cells) \in Nat /\ there \in SUBSET (1..Len(cells))
  BY CellsShape DEF ThereIn
<1>5. \A i \in S, k \in 1..n : cells[i] = <<values[k]>> => k \in T
  BY DEF values
<1>a. S \in SUBSET there /\ T \in SUBSET (1..n)
  BY DEF values
<1> HIDE DEF n, there
<1>6. \A i \in there : place[i] \in 1..n
  BY <1>2 DEF Bijection, Surjection
<1>7. \A i \in there, j \in there : place[i] = place[j] => i = j
  BY <1>2 DEF Bijection, Injection, IsInjective
<1> DEFINE f == [i \in S |-> place[i]]
<1>8. f \in [S -> T]
  BY <1>2, <1>5, <1>6, <1>a
<1>9. \A i \in S, j \in S : f[i] = f[j] => i = j
  BY <1>7, <1>a
<1> HIDE DEF f
<1>10. f \in Injection(S, T)
  BY <1>8, <1>9 DEF Injection, IsInjective
<1>11. IsFiniteSet(T)
  BY <1>3, <1>a, PlacesAreFew
<1>12. Cardinality(S) <= Cardinality(T)
  BY <1>10, <1>11, FS_Injection
<1>13. Cardinality(S) \in Nat
  BY <1>4, <1>a, PlacesAreFew
<1> QED
  BY <1>12, <1>13

\* A quantile, of the cells it was computed from.
IsOwn(cells, there, q, v) ==
  LET n == Cardinality(there)
  IN  IF n = 0 THEN v = <<>>
      ELSE /\ v # <<>> /\ \E i \in there : cells[i] = v
           /\ 2000 * Cardinality({i \in there : cells[i][1] < v[1]}) <= 2 * (n - 1) * q + 1000
           /\ 2000 * Cardinality({i \in there : cells[i][1] > v[1]}) <=
                2 * (n - 1) * (1000 - q) + 1000

LEMMA QuantileIsOwn ==
  ASSUME NEW cells \in ReportCells, NEW q \in 0..1000
  PROVE  IsOwn(cells, ThereIn(cells), q, Quantile(NonNulls(cells), q))
<1> DEFINE values == NonNulls(cells)
           there == ThereIn(cells)
           n == Len(values)
           v == Quantile(values, q)
           lo == 2 * (n - 1) * q + 1000
           hi == 2 * (n - 1) * (1000 - q) + 1000
<1>1. values \in Seq(Int) /\ n \in Nat /\ Cardinality(there) = n
  <2>1. values \in Seq(Int) /\ Cardinality(there) = n
    BY ValuesAre, CellsToValues, ZenonT(60)
  <2> HIDE DEF values
  <2> QED
    BY <2>1
<1>2. lo \in Int /\ hi \in Int
  <2> HIDE DEF n
  <2> QED
    BY <1>1
<1>3. CASE n = 0
  <2>1. values = <<>>
    <3> HIDE DEF values
    <3> QED
      BY <1>1, <1>3, EmptySeq
  <2>2. v = <<>>
    BY <2>1 DEF Quantile
  <2> QED
    BY <1>1, <1>3, <2>2 DEF IsOwn
<1>4. CASE n # 0
  <2>1. IsQuantile(values, q, v)
    BY <1>1, QuantileIs, ZenonT(60)
  <2>2. values # <<>>
    <3>1. Len(<<>>) = 0
      OBVIOUS
    <3> HIDE DEF values
    <3> QED
      BY <1>4, <3>1
  <2> HIDE DEF v
  <2>3. PICK x \in Int :
         /\ v = <<x>> /\ \E i \in 1..n : x = values[i]
         /\ 2000 * Cardinality(Lower(values, x)) <= lo
         /\ 2000 * Cardinality(Higher(values, x)) <= hi
    BY <2>1, <2>2 DEF IsQuantile
  <2>4. v # <<>> /\ v[1] = x
    <3>1. \A y : <<y>> # <<>> /\ <<y>>[1] = y
      OBVIOUS
    <3> QED
      BY <2>3, <3>1
  <2> DEFINE below == {i \in there : cells[i][1] < v[1]}
             above == {i \in there : cells[i][1] > v[1]}
             L == Lower(values, x)
             H == Higher(values, x)
  <2>5. L \in SUBSET (1..n) /\ H \in SUBSET (1..n)
    BY DEF Lower, Higher
  <2>6. \A y : <<y>>[1] = y
    OBVIOUS
  <2>7. \A i \in below, k \in 1..n : cells[i] = <<values[k]>> => k \in L
    <3> SUFFICES ASSUME NEW i \in below, NEW k \in 1..n, cells[i] = <<values[k]>>
                 PROVE  values[k] < x
      BY DEF Lower
    <3>1. cells[i][1] < v[1]
      OBVIOUS
    <3>2. cells[i][1] = values[k]
      BY <2>6, Zenon
    <3> QED
      BY <2>4, <3>1, <3>2, Zenon
  <2>8. \A i \in above, k \in 1..n : cells[i] = <<values[k]>> => k \in H
    <3> SUFFICES ASSUME NEW i \in above, NEW k \in 1..n, cells[i] = <<values[k]>>
                 PROVE  values[k] > x
      BY DEF Higher
    <3>1. cells[i][1] > v[1]
      OBVIOUS
    <3>2. cells[i][1] = values[k]
      BY <2>6, Zenon
    <3> QED
      BY <2>4, <3>1, <3>2, Zenon
  <2>9. below \in SUBSET there /\ above \in SUBSET there
    OBVIOUS
  <2> HIDE DEF below, above, L, H
  <2>10. /\ Cardinality(below) \in Nat /\ Cardinality(below) <= Cardinality(L)
         /\ Cardinality(above) \in Nat /\ Cardinality(above) <= Cardinality(H)
    BY <2>5, <2>7, <2>8, <2>9, CellsAmongValues, Zenon
  <2>11. Cardinality(L) \in Nat /\ Cardinality(H) \in Nat
    BY <1>1, <2>5, PlacesAreFew
  <2>12. 2000 * Cardinality(below) <= lo /\ 2000 * Cardinality(above) <= hi
    <3>1. 2000 * Cardinality(L) <= lo /\ 2000 * Cardinality(H) <= hi
      BY <2>3 DEF L, H
    <3> HIDE DEF lo, hi
    <3> QED
      BY <1>2, <2>10, <2>11, <3>1
  <2>13. \E i \in there : cells[i] = v
    <3>1. PICK k \in 1..n : x = values[k]
      BY <2>3
    <3>2. PICK i \in 1..Len(cells) : cells[i] = <<values[k]>>
      BY ValuesAndCells
    <3>3. cells[i] = v /\ cells[i] # <<>>
      BY <2>3, <2>4, <3>1, <3>2
    <3> QED
      BY <3>3 DEF ThereIn
  <2>14. /\ 2000 * Cardinality(below) <= 2 * (Cardinality(there) - 1) * q + 1000
         /\ 2000 * Cardinality(above) <= 2 * (Cardinality(there) - 1) * (1000 - q) + 1000
    BY <1>1, <2>12
  <2>15. Cardinality(there) # 0
    BY <1>1, <1>4
  <2> HIDE DEF n, values
  <2> QED
    BY <2>4, <2>13, <2>14, <2>15 DEF IsOwn, below, above, v, values
<1> QED
  BY <1>3, <1>4

ProfileStates ==
  [kind : {"profile"}, job : Profiles, at : Nat, counts : Seq(Int),
   results : Seq(Seq(Int)), answer : {"none", "ok", "schema error", "engine error"}]
Profiled ==
  LET sample == Sampled(Job.cells, Job.sampling)
      values == NonNulls(sample)
      qs == Job.quantiles
  IN  /\ report.counts = <<Len(sample), Len(sample) - Len(values), Cardinality(Range(values))>>
      /\ Job.type = "Int64" =>
           /\ \A i \in 1..Len(qs) : qs[i] \in 0..1000
           /\ report.results = [i \in 1..Len(qs) |-> Quantile(values, qs[i])]
      /\ Job.type # "Int64" => report.results = <<>>
Profiling == report \in ProfileStates /\ (report.answer = "ok" => Profiled)

LEMMA ProfileShape ==
  ASSUME NEW job \in Profiles
  PROVE  /\ job.cells \in ReportCells /\ job.sampling \in Samplings
         /\ job.quantiles \in Seq(Nat) /\ Len(job.quantiles) \in Nat
<1>1. job.cells \in ReportCells /\ job.sampling \in Samplings /\ job.quantiles \in Seq(Nat)
  BY QualityAssumption
<1> DEFINE qs == job.quantiles
<1>2. qs \in Seq(Nat)
  BY <1>1
<1> HIDE DEF qs
<1>3. Len(qs) \in Nat
  BY <1>2
<1> QED
  BY <1>1, <1>3 DEF qs

LEMMA ProfileStarts ==
  ASSUME Requested("profile", Profiles)
  PROVE  Profiling
<1>1. PICK job \in Profiles :
        report = [kind |-> "profile", job |-> job, at |-> 0, counts |-> <<>>,
                  results |-> <<>>, answer |-> "none"]
  BY DEF Requested
<1>2. <<>> \in Seq(Int) /\ <<>> \in Seq(Seq(Int))
  BY EmptySeq
<1>3. report \in ProfileStates
  BY <1>1, <1>2 DEF ProfileStates
<1>4. report.answer = "none"
  BY <1>1
<1>5. report.answer # "ok"
  BY <1>4
<1> QED
  BY <1>3, <1>5 DEF Profiling

\* The numbers of a sample.
LEMMA SampleCounts ==
  ASSUME NEW cells \in ReportCells, NEW sampling \in Samplings
  PROVE  LET sample == Sampled(cells, sampling) IN
         /\ sample \in ReportCells /\ Len(sample) \in Nat
         /\ NonNulls(sample) \in Seq(Int) /\ Len(NonNulls(sample)) \in Nat
         /\ Len(sample) - Len(NonNulls(sample)) \in Int
         /\ Cardinality(Range(NonNulls(sample))) \in Nat
<1> DEFINE sample == Sampled(cells, sampling)
           values == NonNulls(sample)
<1>1. sample \in ReportCells
  <2>1. CASE sampling = <<>>
    BY <2>1 DEF Sampled
  <2>2. CASE sampling # <<>>
    <3> DEFINE m == sampling[1]
               first == FirstOf(cells, m)
    <3>1. m \in Nat
      <4>1. sampling \in Seq(Nat)
        BY DEF Samplings
      <4> QED
        BY <2>2, <4>1
    <3>2. sample = first
      BY <2>2 DEF Sampled
    <3>3. cells \in Seq(Seq(Int)) /\ Len(cells) \in Nat
          /\ \A i \in 1..Len(cells) : Len(cells[i]) <= 1
      BY CellsShape DEF ReportCells
    <3> HIDE DEF m
    <3>4. /\ first \in Seq(Seq(Int)) /\ Len(first) <= Len(cells)
          /\ \A i \in 1..Len(first) : first[i] = cells[i]
      BY <3>1, <3>3, FirstOfIs
    <3> HIDE DEF first, sample
    <3>5. Len(first) \in Nat
      BY <3>4
    <3>6. \A i \in 1..Len(first) : i \in 1..Len(cells)
      BY <3>3, <3>4, <3>5
    <3>7. first \in ReportCells
      BY <3>3, <3>4, <3>6 DEF ReportCells
    <3> QED
      BY <3>2, <3>7
  <2> QED
    BY <2>1, <2>2
<1> HIDE DEF sample
<1>2. Len(sample) \in Nat
  BY <1>1, CellsShape
<1>3. values \in Seq(Int)
  BY <1>1, ValuesAre
<1>4. Cardinality(Range(values)) \in Nat
  BY <1>3, DistinctAre
<1> HIDE DEF values
<1>5. Len(values) \in Nat
  BY <1>3, SMTT(30)
<1> QED
  BY <1>1, <1>2, <1>3, <1>4, <1>5 DEF sample, values

LEMMA ProfileKeeps ==
  ASSUME Profiling, ProfileFrame
  PROVE  Profiling'
<1> DEFINE sample == Sampled(Job.cells, Job.sampling)
           values == NonNulls(sample)
           qs == Job.quantiles
           numeric == Job.type = "Int64"
           counted == <<Len(sample), Len(sample) - Len(values), Cardinality(Range(values))>>
           found == [i \in 1..Len(qs) |-> Quantile(values, qs[i])]
           told == IF ~numeric THEN <<>> ELSE found
<1>1. report \in ProfileStates /\ Job \in Profiles
  BY DEF Profiling, ProfileStates, Job
<1>2. /\ sample \in ReportCells /\ values \in Seq(Int)
      /\ Len(sample) \in Nat /\ Len(sample) - Len(values) \in Int
      /\ Cardinality(Range(values)) \in Nat /\ Len(qs) \in Nat
  BY <1>1, ProfileShape, SampleCounts
<1>3. counted \in Seq(Int)
  BY <1>2
<1>4. CASE \/ report' = [report EXCEPT !.answer = "schema error"]
           \/ report' = [report EXCEPT !.answer = "engine error"]
  <2>1. report' \in ProfileStates /\ report'.answer \in {"schema error", "engine error"}
    BY <1>1, <1>4 DEF ProfileStates
  <2>2. report'.answer # "ok"
    BY <2>1
  <2> QED
    BY <2>1, <2>2 DEF Profiling, ProfileStates
<1>5. CASE /\ numeric => \A i \in 1..Len(qs) : qs[i] \in 0..1000
           /\ report' = [report EXCEPT !.at = 1, !.answer = "ok", !.counts = counted,
                                       !.results = told]
  <2>1. told \in Seq(Seq(Int))
    <3>1. CASE ~numeric
      BY <3>1, EmptySeq
    <3>2. CASE numeric
      <4>1. \A i \in 1..Len(qs) : Quantile(values, qs[i]) \in Seq(Int)
        <5> SUFFICES ASSUME NEW i \in 1..Len(qs)
                     PROVE  Quantile(values, qs[i]) \in Seq(Int)
          OBVIOUS
        <5> DEFINE v == Quantile(values, qs[i])
        <5>0. qs[i] \in 0..1000
          BY <1>5, <3>2
        <5>1. IsQuantile(values, qs[i], v)
          BY <1>2, <5>0, QuantileIs, ZenonT(60)
        <5> HIDE DEF v
        <5>2. v = <<>> \/ \E x \in Int : v = <<x>>
          BY <5>1 DEF IsQuantile
        <5>3. <<>> \in Seq(Int) /\ \A x \in Int : <<x>> \in Seq(Int)
          BY EmptySeq
        <5> QED
          BY <5>2, <5>3 DEF v
      <4> DEFINE l == Len(qs)
                 q(i) == Quantile(values, qs[i])
      <4>2. l \in Nat /\ \A i \in 1..l : q(i) \in Seq(Int)
        BY <1>2, <4>1
      <4> HIDE DEF l, q
      <4>3. [i \in 1..l |-> q(i)] \in Seq(Seq(Int))
        BY <4>2
      <4> QED
        BY <3>2, <4>3 DEF l, q
    <3> QED
      BY <3>1, <3>2
  <2>a. report' = [report EXCEPT !.at = 1, !.answer = "ok", !.counts = counted, !.results = told]
    BY <1>5, Zenon
  <2> HIDE DEF counted, told
  <2>2. /\ report' \in ProfileStates /\ report'.job = report.job /\ report'.counts = counted
        /\ report'.results = told
    BY <1>1, <1>3, <2>1, <2>a DEF ProfileStates
  <2>3. Job' = Job
    BY <2>2 DEF Job
  <2>4. told = IF ~numeric THEN <<>> ELSE found
    BY DEF told
  <2>5. Profiled'
    <3>1. Job' = Job /\ report'.counts = counted /\ report'.results = told
      BY <2>2, <2>3
    <3>2. numeric => told = found
      BY <2>4
    <3>3. ~numeric => told = <<>>
      BY <2>4
    <3> QED
      BY <1>5, <3>1, <3>2, <3>3 DEF Profiled, counted
  <2> QED
    BY <2>2, <2>5 DEF Profiling, ProfileStates
<1> QED
  BY <1>4, <1>5, Zenon DEF ProfileFrame, ReportError

LEMMA ProfilesAre ==
  ASSUME Profiling
  PROVE  QuantilesAreOwn
<1> SUFFICES ASSUME Over("profile"), SmallSample(Job.sampling) PROVE QuantilesAreOwn
  BY Zenon DEF QuantilesAreOwn, SmallSample
<1> DEFINE cells == Job.cells
           sample == Sampled(cells, Job.sampling)
           values == NonNulls(sample)
           qs == Job.quantiles
           rows == IF Job.sampling = <<>> THEN Len(Job.cells)
                   ELSE Min({Job.sampling[1], Len(Job.cells)})
           there == {i \in 1..rows : Job.cells[i] # <<>>}
           n == Cardinality(there)
<1>1. report \in ProfileStates /\ Job \in Profiles /\ Profiled
  BY DEF Profiling, ProfileStates, Job, Over
<1>2. /\ cells \in ReportCells /\ Job.sampling \in Samplings
      /\ qs \in Seq(Nat) /\ Len(qs) \in Nat
  BY <1>1, ProfileShape
<1>3. rows = RowCount(cells, Job.sampling)
  BY DEF RowCount
<1> HIDE DEF rows, sample
<1>4. /\ sample \in ReportCells /\ Len(sample) = rows /\ rows \in Nat
      /\ \A i \in 1..rows : sample[i] = cells[i]
  BY <1>2, <1>3, SampledIs DEF sample
<1>5. there = ThereIn(sample)
  BY <1>4 DEF ThereIn
<1>6. \A i \in there : i \in 1..rows /\ sample[i] = cells[i]
  BY <1>4
<1>7. n = Len(values) /\ Cardinality({sample[i] : i \in there}) = Cardinality(Range(values))
  BY <1>4, <1>5, CellsToValues
<1>8. {sample[i] : i \in there} = {cells[i] : i \in there}
  BY <1>6
<1>9. report.counts = <<Len(sample), Len(sample) - Len(values), Cardinality(Range(values))>>
  BY <1>1 DEF Profiled, sample
<1>10. /\ report.counts[1] = rows
       /\ report.counts[2] = rows - n
       /\ report.counts[3] = Cardinality({cells[i] : i \in there})
  <2> HIDE DEF values, there, n
  <2>1. /\ report.counts[1] = Len(sample)
        /\ report.counts[2] = Len(sample) - Len(values)
        /\ report.counts[3] = Cardinality(Range(values))
    BY <1>9
  <2> QED
    BY <1>4, <1>7, <1>8, <2>1, Zenon
<1>11. ASSUME NEW k \in 1..Len(report.results)
       PROVE  /\ qs[k] \in 0..1000 /\ report.results[k] = Quantile(values, qs[k])
  <2>1. CASE Job.type = "Int64"
    <3> DEFINE l == Len(qs)
               found == [i \in 1..l |-> Quantile(values, qs[i])]
    <3>1. report.results = found /\ \A i \in 1..l : qs[i] \in 0..1000
      BY <1>1, <2>1 DEF Profiled, sample
    <3>2. l \in Nat
      BY <1>2
    <3> HIDE DEF l
    <3>3. Len(found) = l
      BY <3>2
    <3>4. k \in 1..l
      BY <3>1, <3>3, ZenonT(60)
    <3>5. found[k] = Quantile(values, qs[k])
      BY <3>4
    <3> HIDE DEF found, values, qs
    <3> QED
      BY <3>1, <3>4, <3>5, ZenonT(60)
  <2>2. CASE Job.type # "Int64"
    <3>1. report.results = <<>>
      BY <1>1, <2>2, Zenon DEF Profiled
    <3>2. 1..Len(<<>>) = {}
      OBVIOUS
    <3> QED
      BY <3>1, <3>2
  <2> QED
    BY <2>1, <2>2
<1>12. ASSUME NEW k \in 1..Len(report.results)
       PROVE  LET v == report.results[k]
                  below == {i \in there : Job.cells[i][1] < v[1]}
                  above == {i \in there : Job.cells[i][1] > v[1]}
                  q == Job.quantiles[k]
              IN  IF n = 0 THEN v = <<>>
                  ELSE /\ v # <<>> /\ \E i \in there : Job.cells[i] = v
                       /\ 2000 * Cardinality(below) <= 2 * (n - 1) * q + 1000
                       /\ 2000 * Cardinality(above) <= 2 * (n - 1) * (1000 - q) + 1000
  <2> DEFINE v == report.results[k]
             q == qs[k]
             below == {i \in there : cells[i][1] < v[1]}
             above == {i \in there : cells[i][1] > v[1]}
             bound == 2 * (n - 1) * q + 1000
             other == 2 * (n - 1) * (1000 - q) + 1000
  <2>1. q \in 0..1000 /\ v = Quantile(values, q)
    BY <1>11
  <2> HIDE DEF q, v
  <2>b. IsOwn(sample, ThereIn(sample), q, v)
    BY <1>4, <2>1, QuantileIsOwn, ZenonT(60)
  <2>2. IsOwn(sample, there, q, v)
    <3> HIDE DEF there
    <3> QED
      BY <1>5, <2>b
  <2>3. below = {i \in there : sample[i][1] < v[1]} /\ above = {i \in there : sample[i][1] > v[1]}
    <3> HIDE DEF there
    <3> QED
      BY <1>6, Zenon
  <2>a. (\E i \in there : sample[i] = v) => \E i \in there : cells[i] = v
    <3> HIDE DEF there
    <3> QED
      BY <1>6, Zenon
  <2>4. CASE n = 0
    <3> HIDE DEF there
    <3>1. v = <<>>
      BY <2>2, <2>4, Zenon DEF IsOwn
    <3> QED
      BY <2>4, <3>1 DEF v
  <2>5. CASE n # 0
    <3>1. /\ v # <<>> /\ \E i \in there : sample[i] = v
          /\ 2000 * Cardinality({i \in there : sample[i][1] < v[1]}) <= bound
          /\ 2000 * Cardinality({i \in there : sample[i][1] > v[1]}) <= other
      <4> HIDE DEF there
      <4> QED
        BY <2>2, <2>5 DEF IsOwn
    <3>2. /\ v # <<>> /\ \E i \in there : cells[i] = v
          /\ 2000 * Cardinality(below) <= bound
          /\ 2000 * Cardinality(above) <= other
      <4> HIDE DEF bound, other, below, above, there
      <4> QED
        BY <2>3, <2>a, <3>1
    <3> HIDE DEF there, n
    <3> QED
      BY <2>5, <3>2 DEF v, q
  <2> QED
    BY <2>4, <2>5
<1> HIDE DEF there, n
<1> QED
  BY <1>10, <1>12, Zenon DEF QuantilesAreOwn, rows, there, n

(* Sums.                                                                   *)

\* The sums of the first values.
Sums(values, g) ==
  /\ g \in [0..Len(values) -> Int] /\ g[0] = 0
  /\ \A i \in 1..Len(values) : g[i] = g[i - 1] + values[i]

LEMMA SumIs ==
  ASSUME NEW values \in Seq(Int)
  PROVE  \E g : Sums(values, g) /\ Sum(values) = g[Len(values)]
<1> DEFINE n == Len(values)
           step == [i \in 1..n |-> [x \in Int |-> x + values[i]]]
           next(f, i) == IF i = 0 THEN 0 ELSE f[i - 1] + values[i]
           IsSum(f) == f = [i \in 0..n |-> next(f, i)]
           F == CHOOSE f : IsSum(f)
<1>1. n \in Nat /\ \A i \in 1..n : values[i] \in Int
  OBVIOUS
<1>2. step \in [1..n -> [Int -> Int]]
  BY <1>1
<1>3. \A i \in 1..n, x \in Int : step[i][x] = x + values[i]
  OBVIOUS
<1>4. Sum(values) = F[n]
  BY DEF Sum
<1> HIDE DEF n, step
<1>5. PICK g : g \in Recursive(n, Int, 0, step)
  <2> DEFINE A == Int
             zero == 0
  <2>1. zero \in A /\ step \in [1..n -> [A -> A]]
    BY <1>2
  <2> HIDE DEF A, zero
  <2>2. \E g : g \in Recursive(n, A, zero, step)
    BY <1>1, <2>1, Recursion
  <2> QED
    BY <2>2 DEF A, zero
<1>6. /\ g \in [0..n -> Int] /\ g[0] = 0
      /\ \A i \in 1..n : g[i] = step[i][g[i - 1]]
  BY <1>5 DEF Recursive
<1>7. \A i \in 1..n : i - 1 \in 0..n /\ g[i] = g[i - 1] + values[i]
  <2> SUFFICES ASSUME NEW i \in 1..n PROVE i - 1 \in 0..n /\ g[i] = g[i - 1] + values[i]
    OBVIOUS
  <2>1. i - 1 \in 0..n
    BY <1>1
  <2>2. g[i - 1] \in Int
    BY <1>6, <2>1
  <2> QED
    BY <1>3, <1>6, <2>1, <2>2
<1>8. IsSum(g)
  <2>1. \A i \in 0..n : g[i] = next(g, i)
    BY <1>1, <1>6, <1>7
  <2>2. g = [i \in 0..n |-> g[i]]
    BY <1>6
  <2>3. [i \in 0..n |-> g[i]] = [i \in 0..n |-> next(g, i)]
    <3> HIDE DEF next
    <3> QED
      BY <2>1
  <2> QED
    BY <2>2, <2>3
<1>9. IsSum(F)
  <2> HIDE DEF IsSum
  <2> QED
    BY <1>8
<1> DEFINE T == {k \in 0..n : F[k] = g[k]}
<1>10. 0 \in T
  <2>1. 0 \in 0..n
    BY <1>1
  <2>2. F[0] = next(F, 0)
    <3> HIDE DEF F, next
    <3> QED
      BY <1>9, <2>1
  <2> HIDE DEF F
  <2> QED
    BY <1>6, <2>1, <2>2
<1>11. ASSUME NEW i \in 1..n, i - 1 \in T PROVE i \in T
  <2>1. i \in 0..n /\ i # 0
    BY <1>1
  <2>2. F[i] = next(F, i)
    <3> HIDE DEF F, next
    <3> QED
      BY <1>9, <2>1
  <2> HIDE DEF F
  <2>3. F[i] = F[i - 1] + values[i]
    BY <2>1, <2>2
  <2> QED
    BY <1>7, <1>11, <2>1, <2>3
<1>12. n \in T
  <2> HIDE DEF T, F
  <2>1. 0..n \subseteq T
    BY <1>1, <1>10, <1>11, IntervalInduction
  <2> QED
    BY <1>1, <2>1
<1>13. F[n] = g[n]
  BY <1>12
<1> HIDE DEF F
<1> QED
  BY <1>4, <1>6, <1>7, <1>13 DEF Sums, n

LEMMA SumType ==
  ASSUME NEW values \in Seq(Int)
  PROVE  Sum(values) \in Int
<1>1. PICK g : Sums(values, g) /\ Sum(values) = g[Len(values)]
  BY SumIs
<1>2. Len(values) \in Nat
  OBVIOUS
<1>3. Len(values) \in 0..Len(values)
  BY <1>2
<1> QED
  BY <1>1, <1>3 DEF Sums

(* One step of each of the sums below, said of plain numbers.              *)

\* (k x - s)^2 is not negative ...
LEMMA SquaresArePositive ==
  ASSUME NEW x \in Int
  PROVE  x * x \in Nat
OBVIOUS

\* The deviations n x - s, squared, of a value more.
LEMMA DeviationStep ==
  ASSUME NEW n \in Int, NEW s \in Int, NEW k \in Int, NEW total \in Int, NEW squares \in Int,
         NEW x \in Int
  PROVE  (n * n * squares - 2 * n * s * total + k * s * s) + (n * x - s) * (n * x - s)
           = n * n * (squares + x * x) - 2 * n * s * (total + x) + (k + 1) * s * s
OBVIOUS

\* ... and those of all of them.
LEMMA DeviationSum ==
  ASSUME NEW n \in Int, NEW s \in Int, NEW squares \in Int
  PROVE  n * n * squares - 2 * n * s * s + n * s * s = n * (n * squares - s * s)
OBVIOUS

LEMMA SumOfSame ==
  ASSUME NEW values \in Seq(Int), NEW c \in Int,
         \A i \in 1..Len(values) : values[i] = c
  PROVE  Sum(values) = Len(values) * c
<1> DEFINE n == Len(values)
           T(g) == {k \in 0..n : g[k] = k * c}
<1>1. n \in Nat
  OBVIOUS
<1>2. PICK g : Sums(values, g) /\ Sum(values) = g[n]
  BY SumIs
<1>3. g[0] = 0 /\ \A i \in 1..n : g[i] = g[i - 1] + c
  BY <1>2 DEF Sums
<1> HIDE DEF n
<1>4. 0 \in T(g)
  <2>1. 0 \in 0..n /\ 0 * c = 0
    BY <1>1
  <2> QED
    BY <1>3, <2>1
<1>5. ASSUME NEW i \in 1..n, i - 1 \in T(g) PROVE i \in T(g)
  <2>1. i \in 0..n /\ i \in Nat
    BY <1>1
  <2>2. g[i] = (i - 1) * c + c
    BY <1>3, <1>5
  <2>3. (i - 1) * c + c = i * c
    BY <2>1
  <2> QED
    BY <2>1, <2>2, <2>3
<1>6. n \in T(g)
  <2> HIDE DEF T
  <2>1. 0..n \subseteq T(g)
    BY <1>1, <1>4, <1>5, IntervalInduction
  <2> QED
    BY <1>1, <2>1
<1> QED
  BY <1>2, <1>6 DEF n

LEMMA CancelPositive ==
  ASSUME NEW a \in Int, NEW b \in Int, NEW w \in Int, w > 0, a * w < b * w
  PROVE  a < b
<1>1. SUFFICES ASSUME a >= b PROVE FALSE
  OBVIOUS
<1>2. (a - b) * w >= 0
  <2>1. a - b \in Nat /\ w \in Nat
    BY <1>1
  <2> DEFINE e == a - b
  <2>2. e \in Nat
    BY <2>1
  <2> HIDE DEF e
  <2>3. e * w >= 0
    BY <2>1, <2>2
  <2> QED
    BY <2>3 DEF e
<1>3. (a - b) * w = a * w - b * w
  OBVIOUS
<1> QED
  BY <1>2, <1>3

\* The squared deviations of the first k values, n^2 times.
Deviations(n, total, k, t, q) == n * n * q - 2 * n * total * t + k * total * total

\* Those that deviate by more than a bound are few, as all of them together
\* deviate by no more than they do.
Deviants(values, total, least) ==
  {i \in 1..Len(values) :
     (Len(values) * values[i] - total) * (Len(values) * values[i] - total)
       * (Len(values) - 1) > least}

LEMMA DeviantsAreFew ==
  ASSUME NEW values \in Seq(Int), Len(values) >= 2, NEW least \in Nat
  PROVE  LET n == Len(values)
             total == Sum(values)
             spread == n * Sum([i \in 1..n |-> values[i] * values[i]]) - total * total
             few == Cardinality(Deviants(values, total, least))
         IN  few > 0 => few * least < (n - 1) * (n * spread)
<1> DEFINE n == Len(values)
           total == Sum(values)
           squared == [i \in 1..n |-> values[i] * values[i]]
           S == Deviants(values, total, least)
           d(i) == n * values[i] - total
           C(k) == Cardinality({i \in S : i <= k})
<1>1. n \in Nat /\ n >= 2 /\ \A i \in 1..n : values[i] \in Int
  OBVIOUS
<1>2. squared \in Seq(Int) /\ Len(squared) = n /\ \A i \in 1..n : squared[i] = values[i] * values[i]
  <2> HIDE DEF n
  <2> QED
    BY <1>1
<1> HIDE DEF squared
<1>3. total \in Int
  BY SumType
<1>4. PICK t : Sums(values, t) /\ total = t[n]
  BY SumIs
<1>5. PICK q : Sums(squared, q) /\ Sum(squared) = q[n]
  BY <1>2, SumIs
<1>6. /\ t[0] = 0 /\ \A i \in 0..n : t[i] \in Int
      /\ \A i \in 1..n : t[i] = t[i - 1] + values[i]
  BY <1>4 DEF Sums
<1>7. /\ q[0] = 0 /\ \A i \in 0..n : q[i] \in Int
      /\ \A i \in 1..n : q[i] = q[i - 1] + values[i] * values[i]
  BY <1>2, <1>5 DEF Sums
<1>8. S = {i \in 1..n : d(i) * d(i) * (n - 1) > least}
  BY DEF Deviants
<1> HIDE DEF n, total, S
<1> DEFINE D(k) == Deviations(n, total, k, t[k], q[k])
           P(k) == /\ D(k) \in Int /\ (n - 1) * D(k) >= C(k) * least
                   /\ C(k) > 0 => (n - 1) * D(k) > C(k) * least
           T == {k \in 0..n : P(k)}
<1>9. \A k \in 0..n : IsFiniteSet({i \in S : i <= k}) /\ C(k) \in Nat
  <2> SUFFICES ASSUME NEW k \in 0..n PROVE IsFiniteSet({i \in S : i <= k}) /\ C(k) \in Nat
    OBVIOUS
  <2>1. {i \in S : i <= k} \in SUBSET (1..n)
    BY <1>8
  <2> QED
    BY <1>1, <2>1, PlacesAreFew
<1>10. 0 \in T
  <2>1. {i \in S : i <= 0} = {}
    BY <1>8
  <2>2. C(0) = 0
    BY <2>1, FS_EmptySet
  <2>3. D(0) = 0
    <3>1. D(0) = n * n * 0 - 2 * n * total * 0 + 0 * total * total
      BY <1>6, <1>7 DEF Deviations
    <3> QED
      BY <1>1, <1>3, <3>1
  <2>4. 0 \in 0..n /\ (n - 1) * 0 = 0 /\ 0 * least = 0
    BY <1>1
  <2> HIDE DEF C, D
  <2>5. P(0)
    BY <2>2, <2>3, <2>4
  <2> HIDE DEF P
  <2> QED
    BY <2>4, <2>5
<1>11. ASSUME NEW k \in 1..n, k - 1 \in T PROVE k \in T
  <2>1. k \in Int /\ k \in 0..n /\ k - 1 \in 0..n
    BY <1>1
  <2>2. P(k - 1)
    BY <1>11
  <2> DEFINE e == d(k) * d(k)
             x == values[k]
  <2>3. x \in Int /\ t[k - 1] \in Int /\ q[k - 1] \in Int
    BY <1>1, <1>6, <1>7, <2>1
  <2>4. D(k) = D(k - 1) + e
    <3> DEFINE a == t[k - 1]
               b == q[k - 1]
               j == k - 1
    <3>1. a \in Int /\ b \in Int /\ j \in Int /\ t[k] = a + x /\ q[k] = b + x * x /\ k = j + 1
      BY <1>6, <1>7, <2>1, <2>3
    <3>2. D(k) = n * n * (b + x * x) - 2 * n * total * (a + x) + (j + 1) * total * total
      <4> HIDE DEF a, b, j, x
      <4> QED
        BY <3>1, Zenon DEF Deviations
    <3>3. D(k - 1) = n * n * b - 2 * n * total * a + j * total * total
      BY DEF Deviations
    <3>4. e = (n * x - total) * (n * x - total)
      OBVIOUS
    <3> HIDE DEF a, b, j, x, D, e
    <3>5. (n * n * b - 2 * n * total * a + j * total * total)
            + (n * x - total) * (n * x - total)
            = n * n * (b + x * x) - 2 * n * total * (a + x) + (j + 1) * total * total
      BY <1>1, <1>3, <2>3, <3>1, DeviationStep
    <3> QED
      BY <3>2, <3>3, <3>4, <3>5
  <2>5. d(k) \in Int /\ e \in Nat
    <3>1. n * x \in Int
      BY <1>1, <2>3
    <3> DEFINE y == d(k)
    <3>2. y \in Int
      BY <1>3, <3>1
    <3> HIDE DEF y
    <3>3. y * y \in Nat
      BY <3>2, SquaresArePositive
    <3> QED
      BY <3>2, <3>3 DEF y
  <2>6. k \in S <=> e * (n - 1) > least
    BY <1>8
  <2>7. C(k - 1) \in Nat /\ C(k) = IF k \in S THEN C(k - 1) + 1 ELSE C(k - 1)
    <3> DEFINE before == {i \in S : i <= k - 1}
    <3>1. IsFiniteSet(before) /\ C(k - 1) \in Nat
      BY <1>9, <2>1
    <3>2. k \notin before
      BY <2>1
    <3>0. \A i \in S : i <= k <=> (i <= k - 1 \/ i = k)
      BY <1>8, <2>1
    <3>3. {i \in S : i <= k} = IF k \in S THEN before \cup {k} ELSE before
      <4> HIDE DEF S
      <4>1. CASE k \in S
        BY <3>0, <4>1
      <4>2. CASE k \notin S
        BY <3>0, <4>2
      <4> QED
        BY <4>1, <4>2
    <3>4. Cardinality(before \cup {k}) = Cardinality(before) + 1
      <4> HIDE DEF before
      <4> QED
        BY <3>1, <3>2, FS_AddElement
    <3> QED
      BY <3>1, <3>3, <3>4
  <2> DEFINE c == C(k - 1)
             m == n - 1
             D0 == D(k - 1)
  <2>8. /\ c \in Nat /\ m \in Nat /\ D0 \in Int /\ m * D0 >= c * least
        /\ c > 0 => m * D0 > c * least
    BY <1>1, <2>2, <2>7
  <2> HIDE DEF c, m, D0, e, D, C
  <2>9. D(k) = D0 + e /\ C(k) = IF k \in S THEN c + 1 ELSE c
    BY <2>4, <2>7 DEF c, D0
  <2>10. k \in S <=> e * m > least
    BY <2>6 DEF m
  <2>11. m * (D0 + e) = m * D0 + e * m /\ (c + 1) * least = c * least + least /\ e * m \in Nat
    <3>1. e \in Nat
      BY <2>5 DEF e
    <3> QED
      BY <2>8, <3>1
  <2>12. D0 + e \in Int /\ m * D0 \in Int /\ c * least \in Nat
    <3>1. e \in Nat
      BY <2>5 DEF e
    <3> QED
      BY <2>8, <3>1
  <2> DEFINE C1 == IF k \in S THEN c + 1 ELSE c
             cl == c * least
             mD == m * D0
             em == e * m
  <2>13. CASE k \in S
    <3>1. m * (D0 + e) > (c + 1) * least
      <4>1. em > least /\ mD >= cl
        BY <2>8, <2>10, <2>13
      <4>2. mD + em > cl + least
        <5>1. mD \in Int /\ em \in Int /\ cl \in Int
          BY <2>11, <2>12
        <5> HIDE DEF cl, mD, em
        <5> QED
          BY <4>1, <5>1
      <4> QED
        BY <2>11, <4>2
    <3>2. C(k) = c + 1 /\ D(k) = D0 + e
      BY <2>9, <2>13
    <3>3. m * D(k) > C(k) * least
      BY <3>1, <3>2
    <3>4. m * D(k) \in Int /\ C(k) * least \in Int
      <4>1. c + 1 \in Int
        BY <2>8
      <4>2. m * D(k) = mD + em /\ C(k) * least = cl + least
        BY <2>11, <3>2
      <4> QED
        BY <2>11, <2>12, <4>2
    <3>5. m * D(k) >= C(k) * least
      BY <3>3, <3>4
    <3> QED
      BY <2>1, <2>12, <3>2, <3>3, <3>5 DEF m
  <2>14. CASE k \notin S
    <3>2. C(k) = c /\ D(k) = D0 + e
      BY <2>9, <2>14
    <3>3. m * D(k) = mD + em
      BY <2>11, <3>2
    <3>4. mD + em >= cl /\ (c > 0 => mD + em > cl)
      <4>1. mD \in Int /\ em \in Nat /\ cl \in Int /\ mD >= cl /\ (c > 0 => mD > cl)
        BY <2>8, <2>11, <2>12
      <4> HIDE DEF cl, mD, em
      <4> QED
        BY <4>1
    <3> QED
      BY <2>1, <2>12, <3>2, <3>3, <3>4 DEF m
  <2> QED
    BY <2>13, <2>14
<1>12. n \in T
  <2> HIDE DEF T
  <2>1. 0..n \subseteq T
    BY <1>1, <1>10, <1>11, IntervalInduction
  <2> QED
    BY <1>1, <2>1
<1>13. P(n)
  BY <1>12
<1>14. {i \in S : i <= n} = S
  BY <1>8, <1>1
<1>15. D(n) = n * (n * q[n] - total * total)
  <2> DEFINE b == q[n]
  <2>1. b \in Int
    BY <1>1, <1>7
  <2>2. D(n) = n * n * b - 2 * n * total * total + n * total * total
    BY <1>4 DEF Deviations
  <2> HIDE DEF b, D
  <2>3. n * n * b - 2 * n * total * total + n * total * total = n * (n * b - total * total)
    BY <1>1, <1>3, <2>1, DeviationSum
  <2> QED
    BY <2>2, <2>3 DEF b
<1> HIDE DEF D
<1>16. Cardinality(S) > 0 => Cardinality(S) * least < (n - 1) * (n * (n * Sum(squared) - total * total))
  <2>1. Cardinality(S) \in Nat
    <3>1. n \in 0..n
      BY <1>1
    <3>2. C(n) \in Nat
      BY <1>9, <3>1
    <3> QED
      BY <1>14, <3>2
  <2>2. Cardinality(S) > 0 => (n - 1) * D(n) > Cardinality(S) * least
    BY <1>13, <1>14
  <2> QED
    BY <1>5, <1>15, <2>2
<1> QED
  BY <1>16 DEF n, total, squared, S

AreQuartiles(n, r1, r3) ==
  /\ r1 \in 0..(n - 1) /\ r3 \in 0..(n - 1) /\ r1 <= r3
  /\ 2 * (r1 + (n - 1 - r3)) <= n

LEMMA QuartilesApart ==
  ASSUME NEW n \in Nat, n > 0
  PROVE  AreQuartiles(n, NearestRank(n, 250), NearestRank(n, 750))
<1> DEFINE a == (n - 1) * 250 * 2 + 1000
           b == (n - 1) * 750 * 2 + 1000
           r1 == a \div 2000
           r3 == b \div 2000
<1>1. NearestRank(n, 250) = r1 /\ NearestRank(n, 750) = r3
  BY DEF NearestRank
<1>2. a \in Nat /\ b \in Nat /\ a = 500 * n + 500 /\ b = 1500 * n - 500
  OBVIOUS
<1> HIDE DEF a, b
<1>3. /\ r1 \in Int /\ 2000 * r1 <= a /\ a < 2000 * r1 + 2000
      /\ r3 \in Int /\ 2000 * r3 <= b /\ b < 2000 * r3 + 2000
  BY <1>2
<1> HIDE DEF r1, r3
<1>4. /\ 4 * r1 <= n + 1 /\ n + 1 < 4 * r1 + 4
      /\ 4 * r3 <= 3 * n - 1 /\ 3 * n - 1 < 4 * r3 + 4
  BY <1>2, <1>3
<1>5. r1 >= 0 /\ r3 <= n - 1 /\ r1 <= r3 /\ 2 * (r1 + (n - 1 - r3)) <= n
  BY <1>3, <1>4
<1>6. r1 \in 0..(n - 1) /\ r3 \in 0..(n - 1)
  BY <1>3, <1>5
<1> QED
  BY <1>1, <1>5, <1>6 DEF AreQuartiles

\* What lies below one value and above another.
LEMMA OutsideAre ==
  ASSUME NEW values \in Seq(Int), NEW x \in Int, NEW y \in Int, NEW S,
         S \subseteq Lower(values, x) \cup Higher(values, y)
  PROVE  /\ Cardinality(S) \in Nat
         /\ Cardinality(S) <= Cardinality(Lower(values, x)) + Cardinality(Higher(values, y))
<1> DEFINE n == Len(values)
           L == Lower(values, x)
           H == Higher(values, y)
<1>1. n \in Nat /\ L \in SUBSET (1..n) /\ H \in SUBSET (1..n)
  BY DEF Lower, Higher
<1> HIDE DEF n, L, H
<1>2. /\ IsFiniteSet(L) /\ Cardinality(L) \in Nat /\ IsFiniteSet(H) /\ Cardinality(H) \in Nat
      /\ L \cap H \in SUBSET (1..n) /\ L \cup H \in SUBSET (1..n)
  BY <1>1, PlacesAreFew
<1>3. Cardinality(L \cap H) \in Nat
  BY <1>1, <1>2, PlacesAreFew
<1>4. Cardinality(L \cup H) = Cardinality(L) + Cardinality(H) - Cardinality(L \cap H)
  BY <1>2, FS_Union
<1>5. S \in SUBSET (L \cup H)
  BY DEF L, H
<1>6. Cardinality(S) \in Nat /\ Cardinality(S) <= Cardinality(L \cup H)
  BY <1>1, <1>2, <1>5, FewerPlaces
<1>7. Cardinality(S) <= Cardinality(L) + Cardinality(H)
  BY <1>2, <1>3, <1>4, <1>6
<1> QED
  BY <1>6, <1>7 DEF L, H

\* Outside the fences, and beyond the quartiles.
Outside(values, q1, q3, bound) ==
  {i \in 1..Len(values) :
     \/ 2 * values[i] < 2 * q1 - bound * (q3 - q1)
     \/ 2 * values[i] > 2 * q3 + bound * (q3 - q1)}

LEMMA BeyondIs ==
  ASSUME NEW x \in Int, NEW q1 \in Int, NEW q3 \in Int, NEW reach \in Int, reach >= 0,
         2 * x < 2 * q1 - reach \/ 2 * x > 2 * q3 + reach
  PROVE  x < q1 \/ x > q3
OBVIOUS

LEMMA FencesHold ==
  ASSUME NEW values \in Seq(Int), Len(values) > 0, NEW bound \in Nat
  PROVE  LET s == Ascending(values)
             q1 == s[NearestRank(Len(values), 250) + 1]
             q3 == s[NearestRank(Len(values), 750) + 1]
         IN  /\ q1 \in Int /\ q3 \in Int
             /\ (\E i \in 1..Len(values) : q1 = values[i])
             /\ (\E i \in 1..Len(values) : q3 = values[i])
             /\ 2 * Cardinality(Outside(values, q1, q3, bound)) <= Len(values)
<1> DEFINE n == Len(values)
           s == Ascending(values)
           r1 == NearestRank(n, 250)
           r3 == NearestRank(n, 750)
           q1 == s[r1 + 1]
           q3 == s[r3 + 1]
           S == Outside(values, q1, q3, bound)
<1>1. n \in Nat /\ n > 0 /\ \A i \in 1..n : values[i] \in Int
  OBVIOUS
<1> HIDE DEF n
<1>2. /\ r1 \in 0..(n - 1) /\ r3 \in 0..(n - 1) /\ r1 <= r3
      /\ 2 * (r1 + (n - 1 - r3)) <= n
  BY <1>1, QuartilesApart, ZenonT(60) DEF AreQuartiles
<1> HIDE DEF r1, r3, s
<1>3. r1 + 1 \in 1..n /\ r3 + 1 \in 1..n /\ r1 + 1 <= r3 + 1
  BY <1>1, <1>2
<1>4. Ordered(values, s)
  BY AscendingIs DEF s
<1>5. /\ q1 \in Int /\ q3 \in Int /\ q1 <= q3
      /\ (\E i \in 1..n : q1 = values[i]) /\ (\E i \in 1..n : q3 = values[i])
      /\ Cardinality(Lower(values, q1)) < r1 + 1
      /\ Cardinality(Higher(values, q3)) <= n - (r3 + 1)
  BY <1>3, <1>4 DEF Ordered, n
<1> HIDE DEF q1, q3
<1>6. bound * (q3 - q1) >= 0
  <2> DEFINE e == q3 - q1
  <2>1. e \in Nat
    BY <1>5
  <2> HIDE DEF e
  <2>2. bound * e >= 0
    BY <2>1
  <2> QED
    BY <2>2 DEF e
<1>7. S \subseteq Lower(values, q1) \cup Higher(values, q3)
  <2> DEFINE reach == bound * (q3 - q1)
  <2>1. reach \in Int
    BY <1>5
  <2>2. S = {i \in 1..n : 2 * values[i] < 2 * q1 - reach \/ 2 * values[i] > 2 * q3 + reach}
    BY DEF Outside, n
  <2>3. reach >= 0
    BY <1>6
  <2> HIDE DEF reach, S
  <2>4. \A i \in S : i \in 1..n /\ (values[i] < q1 \/ values[i] > q3)
    <3> SUFFICES ASSUME NEW i \in S PROVE i \in 1..n /\ (values[i] < q1 \/ values[i] > q3)
      OBVIOUS
    <3> DEFINE x == values[i]
    <3>1. i \in 1..n /\ (2 * x < 2 * q1 - reach \/ 2 * x > 2 * q3 + reach)
      BY <2>2
    <3>2. x \in Int
      BY <1>1, <3>1
    <3> HIDE DEF x
    <3>3. q1 \in Int /\ q3 \in Int /\ (2 * x < 2 * q1 - reach \/ 2 * x > 2 * q3 + reach)
      BY <1>5, <3>1
    <3>6. x < q1 \/ x > q3
      BY <2>1, <2>3, <3>2, <3>3, BeyondIs
    <3> QED
      BY <3>1, <3>6 DEF x
  <2> QED
    BY <2>4 DEF Lower, Higher, n
<1>8. /\ Cardinality(S) \in Nat
      /\ Cardinality(S) <= Cardinality(Lower(values, q1)) + Cardinality(Higher(values, q3))
  <2> HIDE DEF S
  <2> QED
    BY <1>5, <1>7, OutsideAre
<1>9. Cardinality(Lower(values, q1)) \in Nat /\ Cardinality(Higher(values, q3)) \in Nat
  <2>1. Lower(values, q1) \in SUBSET (1..n) /\ Higher(values, q3) \in SUBSET (1..n)
    BY DEF Lower, Higher, n
  <2> QED
    BY <1>1, <2>1, PlacesAreFew
<1>10. 2 * Cardinality(S) <= n
  <2> HIDE DEF S
  <2> QED
    BY <1>1, <1>2, <1>5, <1>8, <1>9
<1> QED
  BY <1>5, <1>10 DEF n, s, r1, r3, q1, q3

LEMMA MedianIs ==
  ASSUME NEW values \in Seq(Int), Len(values) > 0
  PROVE  LET n == Len(values)
             s == Ascending(values)
             a == s[(n + 1) \div 2]
             b == s[(n \div 2) + 1]
         IN  /\ TwiceMedian(values) = a + b /\ a \in Int /\ b \in Int /\ a <= b
             /\ (\E i \in 1..n : a = values[i]) /\ (\E i \in 1..n : b = values[i])
             /\ 2 * Cardinality(Higher(values, a)) <= n
<1> DEFINE n == Len(values)
           s == Ascending(values)
           k == (n + 1) \div 2
           l == (n \div 2) + 1
<1>1. n \in Nat /\ n > 0
  OBVIOUS
<1>2. TwiceMedian(values) = s[k] + s[l]
  BY DEF TwiceMedian
<1>3. Ordered(values, s)
  BY AscendingIs
<1> HIDE DEF n, s
<1>4. k \in 1..n /\ l \in 1..n /\ k <= l /\ 2 * (n - k) <= n
  BY <1>1
<1> HIDE DEF k, l
<1>5. /\ s[k] \in Int /\ s[l] \in Int /\ s[k] <= s[l]
      /\ (\E i \in 1..n : s[k] = values[i]) /\ (\E i \in 1..n : s[l] = values[i])
      /\ Cardinality(Higher(values, s[k])) <= n - k
  BY <1>3, <1>4 DEF Ordered, n
<1>6. Cardinality(Higher(values, s[k])) \in Nat
  <2>1. Higher(values, s[k]) \in SUBSET (1..n)
    BY DEF Higher, n
  <2> QED
    BY <1>1, <2>1, PlacesAreFew
<1>7. 2 * Cardinality(Higher(values, s[k])) <= n
  BY <1>1, <1>4, <1>5, <1>6
<1> QED
  BY <1>2, <1>5, <1>7 DEF n, s, k, l

Offsets(values) ==
  [i \in 1..Len(values) |-> Magnitude(2 * values[i] - TwiceMedian(values))]
\* What the collects of each method compute, all of them together.
AreStatistics(method, values, stats) ==
  /\ method \in {"zscore", "iqr", "mad"}
  /\ (method # "mad" \/ values = <<>>) => stats = FirstStatistics(method, values)
  /\ (method = "mad" /\ values # <<>>) =>
       /\ stats # <<>> /\ stats[1] = TwiceMedian(values)
       /\ stats[2] = TwiceMedian(Offsets(values))
OutlierRows(method, stats, bound, values) ==
  {i \in 1..Len(values) : IsOutlier(method, stats, Len(values), bound, values[i])}

LEMMA PairHas ==
  ASSUME NEW a, NEW b
  PROVE  <<a, b>> # <<>> /\ <<a, b>>[1] = a /\ <<a, b>>[2] = b
OBVIOUS

LEMMA NoRows ==
  ASSUME NEW method, NEW bound, NEW values
  PROVE  OutlierRows(method, <<>>, bound, values) = {}
BY DEF OutlierRows, IsOutlier

LEMMA NoRowsAreNone ==
  ASSUME NEW values \in Seq(Int), NEW bound \in Nat, NEW rows, rows = {}
  PROVE  Cardinality(rows) = 0 /\ 2 * Cardinality(rows) <= Len(values)
<1>1. Cardinality(rows) = 0
  BY FS_EmptySet
<1>2. Len(values) \in Nat
  OBVIOUS
<1> QED
  BY <1>1, <1>2

\* A column of one value.
LEMMA AllTheSame ==
  ASSUME NEW values \in Seq(Int), values # <<>>, Cardinality(Range(values)) <= 1
  PROVE  \E c \in Int : \A i \in 1..Len(values) : values[i] = c
<1> DEFINE n == Len(values)
           T == Range(values)
<1>1. n \in Nat /\ n > 0 /\ DOMAIN values = 1..n /\ \A i \in 1..n : values[i] \in Int
  BY EmptySeq
<1>2. IsFiniteSet(T) /\ Cardinality(T) \in Nat
  BY DistinctAre
<1>3. \A i \in 1..n : values[i] \in T
  BY <1>1 DEF Range
<1> HIDE DEF n, T
<1>4. 1 \in 1..n
  BY <1>1
<1>5. Cardinality(T) # 0
  BY <1>2, <1>3, <1>4, FS_EmptySet
<1>6. Cardinality(T) = 1
  <2>1. Cardinality(T) <= 1
    BY DEF T
  <2> QED
    BY <1>2, <1>5, <2>1
<1>7. PICK x : T = {x}
  BY <1>2, <1>6, FS_Singleton
<1>8. \A i \in 1..n : values[i] = values[1]
  BY <1>3, <1>4, <1>7
<1> QED
  BY <1>1, <1>4, <1>8 DEF n

LEMMA ScoresShape ==
  ASSUME NEW values \in Seq(Int), NEW stats, AreStatistics("zscore", values, stats)
  PROVE  LET n == Len(values)
             spread == n * Sum([i \in 1..n |-> values[i] * values[i]]) - Sum(values) * Sum(values)
         IN  IF n < 2 THEN stats = <<>> ELSE stats = <<Sum(values), spread>>
BY Zenon DEF AreStatistics, FirstStatistics

LEMMA FencesShape ==
  ASSUME NEW values \in Seq(Int), NEW stats, AreStatistics("iqr", values, stats)
  PROVE  stats = Quantile(values, 250) \o Quantile(values, 750)
BY DEF AreStatistics, FirstStatistics

LEMMA NoMedian ==
  ASSUME NEW stats, AreStatistics("mad", <<>>, stats)
  PROVE  stats = <<>>
<1>1. Len(<<>>) = 0
  OBVIOUS
<1> QED
  BY <1>1 DEF AreStatistics, FirstStatistics

LEMMA CaseOf ==
  ASSUME NEW values \in Seq(Int)
  PROVE  values # <<>> <=> Len(values) > 0
BY EmptySeq

\* Z-scores.  Few deviate more than the threshold, and none of equal values.
LEMMA ScoresAreFew ==
  ASSUME NEW values \in Seq(Int), NEW bound \in Nat, NEW stats,
         AreStatistics("zscore", values, stats)
  PROVE  LET rows == OutlierRows("zscore", stats, bound, values)
         IN  /\ Cardinality(rows) > 0 => Cardinality(rows) * bound < Len(values) - 1
             /\ Cardinality(Range(values)) <= 1 => Cardinality(rows) = 0
<1> DEFINE n == Len(values)
           total == Sum(values)
           squared == [i \in 1..n |-> values[i] * values[i]]
           squares == Sum(squared)
           spread == n * squares - total * total
           rows == OutlierRows("zscore", stats, bound, values)
           w == n * spread
           least == bound * w
<1>1. n \in Nat /\ \A i \in 1..n : values[i] \in Int
  OBVIOUS
<1>2. IF n < 2 THEN stats = <<>> ELSE stats = <<total, spread>>
  BY ScoresShape, Zenon
<1>3. total \in Int
  BY SumType
<1>4. squared \in Seq(Int) /\ Len(squared) = n
  <2> HIDE DEF n
  <2> QED
    BY <1>1
<1>5. squares \in Int
  <2> HIDE DEF squared
  <2> QED
    BY <1>4, SumType
<1> HIDE DEF n, total, squares
<1>6. n * squares \in Int /\ total * total \in Int
  BY <1>1, <1>3, <1>5
<1>7. spread \in Int
  BY <1>6
<1> HIDE DEF spread
<1>8. w \in Int /\ (spread > 0 /\ n > 0 => w > 0)
  BY <1>1, <1>7
<1> HIDE DEF w
<1>9. CASE n < 2 \/ ~(spread > 0)
  <2>1. rows = {}
    <3>1. CASE n < 2
      BY <1>2, <3>1, NoRows
    <3>2. CASE ~(n < 2) /\ ~(spread > 0)
      <4>1. stats = <<total, spread>>
        BY <1>2, <3>2
      <4>2. stats[2] = spread
        BY <4>1
      <4> QED
        BY <3>2, <4>2 DEF OutlierRows, IsOutlier, HasSpread
    <3> QED
      BY <1>9, <3>1, <3>2
  <2>2. Cardinality(rows) = 0
    BY <2>1, FS_EmptySet
  <2> QED
    BY <2>2
<1>10. CASE n >= 2 /\ spread > 0
  <2>1. stats = <<total, spread>>
    BY <1>1, <1>2, <1>10
  <2>2. stats # <<>> /\ stats[1] = total /\ stats[2] = spread
    BY <2>1, PairHas
  <2>3. w > 0 /\ w # 0 /\ least \in Nat
    <3>1. w > 0 /\ w # 0
      BY <1>1, <1>8, <1>10
    <3> QED
      BY <1>8, <3>1
  <2>4. \A i \in 1..n : IsOutlier("zscore", stats, n, bound, values[i]) <=>
          (n * values[i] - total) * (n * values[i] - total) * (n - 1) > least
    <3> SUFFICES ASSUME NEW i \in 1..n
                 PROVE  IsOutlier("zscore", stats, n, bound, values[i]) <=>
                          (n * values[i] - total) * (n * values[i] - total) * (n - 1) > least
      OBVIOUS
    <3> DEFINE e == (n * values[i] - total) * (n * values[i] - total) * (n - 1)
    <3>1. Exceeds(e, w, bound) <=> e > least
      <4> HIDE DEF e
      <4> QED
        BY <2>3 DEF Exceeds
    <3>2. HasSpread(stats[2])
      BY <1>10, <2>2 DEF HasSpread
    <3>3. IsOutlier("zscore", stats, n, bound, values[i]) <=> Exceeds(e, w, bound)
      <4>1. n * stats[2] = w /\ (n * values[i] - stats[1]) = (n * values[i] - total)
        BY <2>2 DEF w
      <4> QED
        BY <2>2, <3>2, <4>1 DEF IsOutlier
    <3> QED
      BY <3>1, <3>3
  <2> HIDE DEF least
  <2>5. rows = Deviants(values, total, least)
    BY <2>4 DEF OutlierRows, Deviants, n
  <2>6. Cardinality(rows) > 0 => Cardinality(rows) * least < (n - 1) * w
    <3>1. Len(values) >= 2
      BY <1>10 DEF n
    <3> QED
      BY <2>3, <2>5, <3>1, DeviantsAreFew DEF n, total, squares, spread, w
  <2>7. Cardinality(rows) \in Nat
    <3>1. rows \in SUBSET (1..n)
      BY DEF OutlierRows, n
    <3> HIDE DEF rows
    <3> QED
      BY <1>1, <3>1, PlacesAreFew
  <2>8. Cardinality(rows) > 0 => Cardinality(rows) * bound < n - 1
    <3> DEFINE c == Cardinality(rows)
               cb == c * bound
    <3>1. c \in Nat
      BY <2>7
    <3> HIDE DEF c
    <3>2. c * (bound * w) = cb * w /\ cb \in Int
      BY <1>8, <3>1
    <3>3. c > 0 => cb * w < (n - 1) * w
      BY <2>6, <3>2 DEF c, least
    <3> HIDE DEF cb
    <3>4. c > 0 => cb < n - 1
      BY <1>1, <1>8, <2>3, <3>2, <3>3, CancelPositive
    <3> QED
      BY <3>4 DEF c, cb
  <2>9. ~(Cardinality(Range(values)) <= 1)
    <3>1. SUFFICES ASSUME Cardinality(Range(values)) <= 1 PROVE FALSE
      OBVIOUS
    <3>2. values # <<>>
      <4>1. Len(values) > 0
        BY <1>1, <1>10 DEF n
      <4> QED
        BY <4>1, CaseOf
    <3>3. PICK c \in Int : \A i \in 1..n : values[i] = c
      BY <3>1, <3>2, AllTheSame DEF n
    <3>4. total = n * c
      BY <3>3, SumOfSame DEF n, total
    <3>5. squares = n * (c * c)
      <4>1. c * c \in Int /\ \A i \in 1..n : squared[i] = c * c
        BY <3>3
      <4> DEFINE b == c * c
      <4> HIDE DEF squared, b
      <4>2. b \in Int /\ \A i \in 1..Len(squared) : squared[i] = b
        BY <1>4, <4>1 DEF b
      <4>3. Sum(squared) = Len(squared) * b
        BY <1>4, <4>2, SumOfSame
      <4> QED
        BY <1>4, <4>3 DEF squares, b
    <3>6. n * (n * (c * c)) - (n * c) * (n * c) = 0
      BY <1>1
    <3>7. spread = 0
      BY <3>4, <3>5, <3>6 DEF spread
    <3> QED
      BY <1>10, <3>7
  <2> QED
    BY <2>8, <2>9 DEF n
<1> QED
  BY <1>1, <1>7, <1>9, <1>10

LEMMA JoinedIs ==
  ASSUME NEW A, NEW x \in A, NEW y \in A, NEW one \in Seq(A), NEW two \in Seq(A),
         NEW s \in Seq(A), one = <<x>>, two = <<y>>, s = one \o two
  PROVE  s[1] = x /\ s[2] = y /\ Len(s) = 2
<1>1. s[1] = x
  OBVIOUS
<1>2. s[2] = y
  OBVIOUS
<1>3. Len(s) = 2
  OBVIOUS
<1> QED
  BY <1>1, <1>2, <1>3

LEMMA JoinedHas ==
  ASSUME NEW A, NEW x \in A, NEW y \in A
  PROVE  LET s == <<x>> \o <<y>> IN s # <<>> /\ s[1] = x /\ s[2] = y
<1> DEFINE one == <<x>>
           two == <<y>>
           s == one \o two
<1>1. one \in Seq(A) /\ two \in Seq(A) /\ one = <<x>> /\ two = <<y>>
  OBVIOUS
<1> HIDE DEF one, two
<1>2. s \in Seq(A) /\ s = one \o two
  BY <1>1
<1> HIDE DEF s
<1>3. Len(s) = 2 /\ s[1] = x /\ s[2] = y
  BY <1>1, <1>2, JoinedIs
<1>4. Len(<<>>) = 0
  OBVIOUS
<1>5. s # <<>>
  BY <1>3, <1>4
<1> QED
  BY <1>3, <1>5 DEF one, two, s

\* Fences.  At most half of the values are outside, and none of equal ones.
LEMMA FencesAreWide ==
  ASSUME NEW values \in Seq(Int), NEW bound \in Nat, NEW stats,
         AreStatistics("iqr", values, stats)
  PROVE  LET rows == OutlierRows("iqr", stats, bound, values)
         IN  /\ 2 * Cardinality(rows) <= Len(values)
             /\ Cardinality(Range(values)) <= 1 => Cardinality(rows) = 0
<1> DEFINE n == Len(values)
           s == Ascending(values)
           q1 == s[NearestRank(n, 250) + 1]
           q3 == s[NearestRank(n, 750) + 1]
           rows == OutlierRows("iqr", stats, bound, values)
<1>1. n \in Nat /\ \A i \in 1..n : values[i] \in Int
  OBVIOUS
<1>2. CASE values = <<>>
  <2>1. Quantile(values, 250) = <<>> /\ Quantile(values, 750) = <<>>
    BY <1>2 DEF Quantile
  <2>2. stats = <<>>
    <3>1. <<>> \o <<>> = <<>>
      OBVIOUS
    <3> QED
      BY <2>1, <3>1, FencesShape
  <2>3. rows = {}
    BY <2>2, NoRows
  <2> QED
    BY <2>3, NoRowsAreNone
<1>3. CASE values # <<>>
  <2>3. n > 0
    BY <1>3, CaseOf
  <2>4. /\ q1 \in Int /\ q3 \in Int
        /\ (\E i \in 1..n : q1 = values[i]) /\ (\E i \in 1..n : q3 = values[i])
        /\ 2 * Cardinality(Outside(values, q1, q3, bound)) <= n
    BY <2>3, FencesHold
  <2>2. stats # <<>> /\ stats[1] = q1 /\ stats[2] = q3
    <3>1. Quantile(values, 250) = <<q1>> /\ Quantile(values, 750) = <<q3>>
      BY <1>3 DEF Quantile
    <3>2. stats = Quantile(values, 250) \o Quantile(values, 750)
      BY FencesShape
    <3> HIDE DEF q1, q3
    <3>3. stats = <<q1>> \o <<q3>>
      BY <3>1, <3>2, ZenonT(60)
    <3> QED
      BY <2>4, <3>3, JoinedHas
  <2> HIDE DEF n, q1, q3
  <2>5. rows = Outside(values, q1, q3, bound)
    BY <2>2 DEF OutlierRows, IsOutlier, Outside, n
  <2>6. Cardinality(Range(values)) <= 1 => Cardinality(rows) = 0
    <3> SUFFICES ASSUME Cardinality(Range(values)) <= 1 PROVE Cardinality(rows) = 0
      OBVIOUS
    <3>1. PICK c \in Int : \A i \in 1..n : values[i] = c
      BY <1>3, AllTheSame DEF n
    <3>2. q1 = c /\ q3 = c
      BY <2>4, <3>1
    <3>3. rows = {}
      <4>1. c - c = 0 /\ bound * 0 = 0 /\ 2 * c - 0 = 2 * c /\ 2 * c + 0 = 2 * c
            /\ ~(2 * c < 2 * c) /\ ~(2 * c > 2 * c)
        OBVIOUS
      <4>2. \A i \in 1..n :
              ~(2 * values[i] < 2 * q1 - bound * (q3 - q1))
              /\ ~(2 * values[i] > 2 * q3 + bound * (q3 - q1))
        BY <3>1, <3>2, <4>1
      <4> QED
        BY <2>5, <4>2 DEF Outside, n
    <3> QED
      BY <3>3, FS_EmptySet
  <2> QED
    BY <2>4, <2>5, <2>6 DEF n
<1> QED
  BY <1>2, <1>3

\* Magnitudes.
LEMMA MagnitudeIs ==
  ASSUME NEW x \in Int
  PROVE  Magnitude(x) \in Nat
BY DEF Magnitude

\* One above a score of 1 is above the lower of the two that make the median.
ScoresAbove(off, d, bound) == 6745 * 2 * off > bound * (10000 * d)

LEMMA AboveMedian ==
  ASSUME NEW off \in Nat, NEW a \in Nat, NEW b \in Int, a <= b, NEW bound \in Nat,
         bound >= 1, ScoresAbove(off, a + b, bound)
  PROVE  off > a
<1> DEFINE d == 10000 * (a + b)
<1>1. d \in Nat /\ d >= 20000 * a
  OBVIOUS
<1> HIDE DEF d
<1>2. bound * d >= d
  <2>1. (bound - 1) * d >= 0
    BY <1>1
  <2>2. (bound - 1) * d = bound * d - d /\ bound * d \in Int
    BY <1>1
  <2> QED
    BY <1>1, <2>1, <2>2
<1>3. 6745 * 2 * off > bound * d
  BY DEF d, ScoresAbove
<1>4. bound * d \in Int
  BY <1>1
<1> DEFINE p == bound * d
<1> HIDE DEF p
<1>5. p \in Int /\ p >= d /\ 13490 * off > p
  BY <1>2, <1>3, <1>4 DEF p
<1> QED
  BY <1>1, <1>5

\* Median deviations.  At most half have a score above 1, and none of equal
\* values.
LEMMA DeviationsAreFew ==
  ASSUME NEW values \in Seq(Int), NEW bound \in Nat, NEW stats,
         AreStatistics("mad", values, stats)
  PROVE  LET rows == OutlierRows("mad", stats, bound, values)
         IN  /\ bound >= 1 => 2 * Cardinality(rows) <= Len(values)
             /\ Cardinality(Range(values)) <= 1 => Cardinality(rows) = 0
<1> DEFINE n == Len(values)
           m == TwiceMedian(values)
           off == Offsets(values)
           s == Ascending(off)
           a == s[(n + 1) \div 2]
           b == s[(n \div 2) + 1]
           d == TwiceMedian(off)
           rows == OutlierRows("mad", stats, bound, values)
<1>1. n \in Nat /\ \A i \in 1..n : values[i] \in Int
  OBVIOUS
<1>2. CASE values = <<>>
  <2>1. stats = <<>>
    BY <1>2, NoMedian
  <2>2. rows = {}
    BY <2>1, NoRows
  <2> QED
    BY <2>2, NoRowsAreNone
<1>3. CASE values # <<>>
  <2>2. stats # <<>> /\ stats[1] = m /\ stats[2] = d
    BY <1>3, Zenon DEF AreStatistics
  <2>3. n > 0
    BY <1>3, CaseOf
  <2>4. m \in Int /\ (\A c \in Int : (\A i \in 1..n : values[i] = c) => m = 2 * c)
    <3> DEFINE v == Ascending(values)
               e == v[(n + 1) \div 2]
               f == v[(n \div 2) + 1]
    <3>1. /\ m = e + f /\ e \in Int /\ f \in Int
          /\ (\E i \in 1..n : e = values[i]) /\ (\E i \in 1..n : f = values[i])
      BY <2>3, MedianIs
    <3> HIDE DEF e, f, m, n
    <3> QED
      BY <3>1
  <2>5. /\ off \in Seq(Int) /\ Len(off) = n
        /\ \A i \in 1..n : off[i] = Magnitude(2 * values[i] - m) /\ off[i] \in Nat
    <3>1. \A i \in 1..n : off[i] = Magnitude(2 * values[i] - m)
      BY DEF Offsets
    <3>2. \A i \in 1..n : Magnitude(2 * values[i] - m) \in Nat
      <4> HIDE DEF n, m
      <4>1. \A i \in 1..n : 2 * values[i] - m \in Int
        BY <1>1, <2>4
      <4> QED
        BY <4>1, MagnitudeIs
    <3>3. off = [i \in 1..n |-> Magnitude(2 * values[i] - m)]
      BY DEF Offsets
    <3> HIDE DEF n, m, off
    <3>4. off \in Seq(Int) /\ Len(off) = n
      BY <1>1, <3>2, <3>3
    <3> QED
      BY <3>1, <3>2, <3>4
  <2> HIDE DEF off, m
  <2>6. /\ d = a + b /\ a \in Int /\ b \in Int /\ a <= b
        /\ (\E i \in 1..n : a = off[i]) /\ (\E i \in 1..n : b = off[i])
        /\ 2 * Cardinality(Higher(off, a)) <= n
    <3>1. Len(off) > 0 /\ Len(off) = n
      BY <2>3, <2>5
    <3> HIDE DEF n
    <3>2. LET k == Len(off)
              t == Ascending(off)
              x == t[(k + 1) \div 2]
              y == t[(k \div 2) + 1]
          IN  /\ TwiceMedian(off) = x + y /\ x \in Int /\ y \in Int /\ x <= y
              /\ (\E i \in 1..k : x = off[i]) /\ (\E i \in 1..k : y = off[i])
              /\ 2 * Cardinality(Higher(off, x)) <= k
      BY <2>5, <3>1, MedianIs
    <3> QED
      BY <3>1, <3>2
  <2>7. a \in Nat /\ b \in Nat
    BY <2>5, <2>6
  <2> HIDE DEF n, s, a, b, d
  <2>8. rows = {i \in 1..n : d > 0 /\ Exceeds(6745 * 2 * off[i], 10000 * d, bound)}
    <3>1. \A i \in 1..n : IsOutlier("mad", stats, n, bound, values[i]) <=>
            d > 0 /\ Exceeds(6745 * 2 * off[i], 10000 * d, bound)
      BY <2>2, <2>5 DEF IsOutlier, HasSpread
    <3> QED
      BY <3>1 DEF OutlierRows, n
  <2>9. ASSUME bound >= 1 PROVE 2 * Cardinality(rows) <= n
    <3>1. \A i \in rows : i \in 1..n /\ off[i] > a
      <4> SUFFICES ASSUME NEW i \in rows PROVE i \in 1..n /\ off[i] > a
        OBVIOUS
      <4>1. i \in 1..n /\ d > 0 /\ Exceeds(6745 * 2 * off[i], 10000 * d, bound)
        BY <2>8
      <4>2. d \in Int /\ 10000 * d # 0
        BY <2>6, <4>1, SMTT(30)
      <4>3. ScoresAbove(off[i], d, bound)
        BY <4>1, <4>2 DEF Exceeds, ScoresAbove
      <4>4. off[i] \in Nat
        BY <2>5, <4>1
      <4> DEFINE o == off[i]
      <4> HIDE DEF o, rows
      <4>5. o \in Nat /\ ScoresAbove(o, a + b, bound)
        BY <2>6, <4>3, <4>4 DEF o
      <4>6. o > a
        BY <2>6, <2>7, <2>9, <4>5, AboveMedian
      <4> QED
        BY <4>1, <4>6 DEF o
    <3> HIDE DEF rows
    <3>2. rows \in SUBSET Higher(off, a)
      BY <2>5, <3>1 DEF Higher
    <3>3. Higher(off, a) \in SUBSET (1..n)
      BY <2>5 DEF Higher
    <3>4. /\ Cardinality(rows) \in Nat /\ Cardinality(Higher(off, a)) \in Nat
          /\ Cardinality(rows) <= Cardinality(Higher(off, a))
      BY <1>1, <3>2, <3>3, FewerPlaces DEF n
    <3> QED
      BY <1>1, <2>6, <3>4 DEF n
  <2>10. ASSUME Cardinality(Range(values)) <= 1 PROVE Cardinality(rows) = 0
    <3>1. PICK c \in Int : \A i \in 1..n : values[i] = c
      BY <1>3, <2>10, AllTheSame DEF n
    <3>2. m = 2 * c
      BY <2>4, <3>1 DEF n
    <3>3. \A i \in 1..n : off[i] = 0
      <4>1. Magnitude(2 * c - 2 * c) = 0
        BY DEF Magnitude
      <4> QED
        BY <2>5, <3>1, <3>2, <4>1
    <3>4. a = 0 /\ b = 0 /\ d = 0
      BY <2>6, <3>3
    <3>5. rows = {}
      <4>1. ~(d > 0)
        BY <3>4
      <4> HIDE DEF rows
      <4> QED
        BY <2>8, <4>1
    <3> QED
      BY <3>5, FS_EmptySet
  <2> QED
    BY <2>9, <2>10 DEF n
<1> QED
  BY <1>2, <1>3

DetectStates ==
  [kind : {"outliers"}, job : Detections, at : Nat, counts : Seq(Int), results : Seq(Int),
   answer : {"none", "ok"}]
Found(request, stats, values) ==
  Only(values, OutlierRows(request.method, stats, request.bound, values))
Detected(values) ==
  \E stats :
    LET outliers == Found(Job, stats, values)
    IN  /\ AreStatistics(Job.method, values, stats)
        /\ report.counts = <<Len(Sample), Len(outliers)>>
        /\ report.results = IF Len(outliers) > 0 /\ Job.max > 0
                            THEN FirstOf(outliers, Job.max) ELSE <<>>
Detecting ==
  LET values == NonNulls(Sample)
  IN  /\ report \in DetectStates
      /\ (report.at = 1 /\ report.answer = "none") =>
           report.counts = FirstStatistics(Job.method, values)
      /\ (report.at = 2 /\ report.answer = "none") =>
           AreStatistics(Job.method, values, report.counts)
      /\ report.answer = "ok" => Detected(values)

LEMMA DetectionShape ==
  ASSUME NEW job \in Detections
  PROVE  /\ job.cells \in ReportCells /\ job.sampling \in Samplings
         /\ job.method \in {"zscore", "iqr", "mad"} /\ job.bound \in Nat /\ job.max \in Nat
BY QualityAssumption

LEMMA SampleShape ==
  ASSUME Job \in Detections
  PROVE  /\ Sample \in ReportCells /\ Len(Sample) \in Nat
         /\ NonNulls(Sample) \in Seq(Int) /\ Len(NonNulls(Sample)) \in Nat
BY DetectionShape, SampleCounts DEF Sample

LEMMA DetectionStarts ==
  ASSUME Requested("outliers", Detections)
  PROVE  Detecting
<1>1. PICK job \in Detections :
        report = [kind |-> "outliers", job |-> job, at |-> 0, counts |-> <<>>,
                  results |-> <<>>, answer |-> "none"]
  BY DEF Requested
<1>2. <<>> \in Seq(Int)
  BY EmptySeq
<1>3. report \in DetectStates
  BY <1>1, <1>2 DEF DetectStates
<1>4. report.at = 0 /\ report.answer = "none"
  BY <1>1
<1>5. report.at # 1 /\ report.at # 2 /\ report.answer # "ok"
  BY <1>4
<1> QED
  BY <1>3, <1>5, Zenon DEF Detecting

LEMMA MedianType ==
  ASSUME NEW values \in Seq(Int), values # <<>>
  PROVE  /\ TwiceMedian(values) \in Int /\ Len(values) \in Nat
         /\ Offsets(values) \in Seq(Int) /\ Offsets(values) # <<>>
<1> DEFINE n == Len(values)
           m == TwiceMedian(values)
           off == Offsets(values)
<1>1. n \in Nat /\ n > 0 /\ \A i \in 1..n : values[i] \in Int
  BY EmptySeq
<1>2. m \in Int
  <2> DEFINE v == Ascending(values)
             e == v[(n + 1) \div 2]
             f == v[(n \div 2) + 1]
  <2>1. m = e + f /\ e \in Int /\ f \in Int
    BY <1>1, MedianIs
  <2> HIDE DEF e, f, m
  <2> QED
    BY <2>1
<1>3. off = [i \in 1..n |-> Magnitude(2 * values[i] - m)]
  BY DEF Offsets
<1> HIDE DEF n, m, off
<1>4. \A i \in 1..n : Magnitude(2 * values[i] - m) \in Int
  <2>1. \A i \in 1..n : 2 * values[i] - m \in Int
    BY <1>1, <1>2
  <2>2. \A i \in 1..n : Magnitude(2 * values[i] - m) \in Nat
    BY <2>1, MagnitudeIs
  <2> QED
    BY <2>2
<1>5. off \in Seq(Int) /\ Len(off) = n
  BY <1>1, <1>3, <1>4
<1>6. off # <<>>
  <2>1. Len(<<>>) = 0
    OBVIOUS
  <2> QED
    BY <1>1, <1>5, <2>1
<1> QED
  BY <1>1, <1>2, <1>5, <1>6 DEF n, m, off

LEMMA QuantileType ==
  ASSUME NEW values \in Seq(Int), NEW q \in 0..1000
  PROVE  Quantile(values, q) \in Seq(Int)
<1> DEFINE v == Quantile(values, q)
<1>1. IsQuantile(values, q, v)
  BY QuantileIs, ZenonT(60)
<1> HIDE DEF v
<1>2. v = <<>> \/ \E x \in Int : v = <<x>>
  BY <1>1 DEF IsQuantile
<1>3. <<>> \in Seq(Int) /\ \A x \in Int : <<x>> \in Seq(Int)
  BY EmptySeq
<1>4. CASE v = <<>>
  BY <1>3, <1>4, Zenon DEF v
<1>5. CASE \E x \in Int : v = <<x>>
  <2>1. PICK x \in Int : v = <<x>>
    BY <1>5, Zenon
  <2> QED
    BY <1>3, <2>1, Zenon DEF v
<1> QED
  BY <1>2, <1>4, <1>5, Zenon

LEMMA FirstOfEach ==
  ASSUME NEW values
  PROVE  /\ FirstStatistics("zscore", values) =
              IF Len(values) < 2 THEN <<>>
              ELSE <<Sum(values), Len(values) * Sum([i \in 1..Len(values) |-> values[i] * values[i]])
                       - Sum(values) * Sum(values)>>
         /\ FirstStatistics("iqr", values) = Quantile(values, 250) \o Quantile(values, 750)
         /\ FirstStatistics("mad", values) =
              IF Len(values) = 0 THEN <<>> ELSE <<TwiceMedian(values)>>
<1>1. FirstStatistics("iqr", values) = Quantile(values, 250) \o Quantile(values, 750)
  BY DEF FirstStatistics
<1>2. FirstStatistics("mad", values) = IF Len(values) = 0 THEN <<>> ELSE <<TwiceMedian(values)>>
  BY DEF FirstStatistics
<1> QED
  BY <1>1, <1>2, Zenon DEF FirstStatistics

LEMMA FirstStatisticsType ==
  ASSUME NEW values \in Seq(Int), NEW method \in {"zscore", "iqr", "mad"}
  PROVE  FirstStatistics(method, values) \in Seq(Int)
<1> DEFINE n == Len(values)
           first == FirstStatistics(method, values)
<1>1. n \in Nat /\ \A i \in 1..n : values[i] \in Int
  OBVIOUS
<1>2. <<>> \in Seq(Int) /\ (\A x \in Int : <<x>> \in Seq(Int))
      /\ \A x \in Int, y \in Int : <<x, y>> \in Seq(Int)
  BY EmptySeq
<1>3. CASE method = "zscore"
  <2> DEFINE total == Sum(values)
             squared == [i \in 1..n |-> values[i] * values[i]]
             spread == n * Sum(squared) - total * total
  <2>1. total \in Int
    BY SumType
  <2>2. squared \in Seq(Int)
    <3> HIDE DEF n
    <3> QED
      BY <1>1
  <2>3. Sum(squared) \in Int
    <3> HIDE DEF squared
    <3> QED
      BY <2>2, SumType
  <2>4. first = <<>> \/ first = <<total, spread>>
    BY <1>3, FirstOfEach
  <2> HIDE DEF total, squared
  <2>5. spread \in Int
    BY <1>1, <2>1, <2>3
  <2> HIDE DEF spread
  <2> QED
    BY <1>2, <2>1, <2>4, <2>5
<1>4. CASE method = "iqr"
  <2> DEFINE a == Quantile(values, 250)
             b == Quantile(values, 750)
  <2>1. a \in Seq(Int) /\ b \in Seq(Int)
    BY QuantileType
  <2>a. first = FirstStatistics("iqr", values)
    BY <1>4
  <2>b. FirstStatistics("iqr", values) = a \o b
    BY DEF FirstStatistics
  <2>2. first = a \o b
    BY <2>a, <2>b, Zenon
  <2> HIDE DEF a, b, first
  <2>3. first \in Seq(Int)
    BY <2>1, <2>2
  <2> QED
    BY <2>3 DEF first
<1>5. CASE method = "mad"
  <2>1. first = <<>> \/ (n # 0 /\ first = <<TwiceMedian(values)>>)
    BY <1>5, FirstOfEach, ZenonT(60)
  <2>2. n # 0 => values # <<>>
    OBVIOUS
  <2> HIDE DEF first
  <2>3. first \in Seq(Int)
    BY <1>2, <2>1, <2>2, MedianType
  <2> QED
    BY <2>3 DEF first
<1> QED
  BY <1>3, <1>4, <1>5

LEMMA ComputeKeeps ==
  ASSUME Detecting, ComputeStatistics
  PROVE  Detecting'
<1> DEFINE first == FirstStatistics(Job.method, NonNulls(Sample))
<1>1. report \in DetectStates /\ Job \in Detections /\ report.answer = "none"
      /\ report' = [report EXCEPT !.at = 1, !.counts = first]
  BY DEF Detecting, DetectStates, Job, ComputeStatistics, Reporting
<1>2. first \in Seq(Int)
  BY <1>1, SampleShape, DetectionShape, FirstStatisticsType
<1> HIDE DEF first
<1>3. /\ report' \in DetectStates /\ report'.at = 1 /\ report'.answer = "none"
      /\ report'.counts = first /\ report'.job = report.job
  BY <1>1, <1>2 DEF DetectStates
<1>4. Job' = Job /\ Sample' = Sample
  BY <1>3 DEF Job, Sample
<1>5. report'.at # 2 /\ report'.answer # "ok"
  BY <1>3
<1>6. report'.counts = FirstStatistics(Job'.method, NonNulls(Sample'))
  BY <1>3, <1>4 DEF first
<1> QED
  BY <1>3, <1>5, <1>6, Zenon DEF Detecting, DetectStates

LEMMA MadKeeps ==
  ASSUME Detecting, ComputeMad
  PROVE  Detecting'
<1> DEFINE values == NonNulls(Sample)
           off == [i \in 1..Len(values) |-> Magnitude(2 * values[i] - report.counts[1])]
           d == TwiceMedian(off)
           more == Append(report.counts, d)
<1>1. /\ report \in DetectStates /\ Job \in Detections /\ report.answer = "none"
      /\ report.at = 1 /\ Job.method = "mad" /\ report.counts # <<>>
      /\ report' = [report EXCEPT !.at = 2, !.counts = more]
  BY Zenon DEF Detecting, DetectStates, Job, ComputeMad, Reporting
<1>2. values \in Seq(Int)
  BY <1>1, SampleShape
<1>3. report.counts = FirstStatistics("mad", values)
  BY <1>1, Zenon DEF Detecting
<1>4. values # <<>> /\ report.counts = <<TwiceMedian(values)>>
  <2>1. FirstStatistics("mad", values) =
          IF Len(values) = 0 THEN <<>> ELSE <<TwiceMedian(values)>>
    BY DEF FirstStatistics
  <2>2. Len(values) # 0
    BY <1>1, <1>3, <2>1
  <2>3. Len(<<>>) = 0
    OBVIOUS
  <2> HIDE DEF values
  <2> QED
    BY <1>3, <2>1, <2>2, <2>3
<1>5. report.counts[1] = TwiceMedian(values)
  BY <1>4
<1>6. off = Offsets(values)
  BY <1>5 DEF Offsets
<1> HIDE DEF values, off
<1>7. TwiceMedian(values) \in Int /\ d \in Int
  BY <1>2, <1>4, <1>6, MedianType
<1> HIDE DEF d
<1>8. more \in Seq(Int) /\ more # <<>> /\ more[1] = TwiceMedian(values) /\ more[2] = d
  <2> DEFINE counts == report.counts
             m == TwiceMedian(values)
             l == Len(counts)
  <2>1. counts = <<m>> /\ m \in Int /\ d \in Int
    BY <1>4, <1>7
  <2>2. counts \in Seq(Int) /\ l = 1 /\ counts[1] = m
    <3> HIDE DEF m
    <3> QED
      BY <2>1
  <2> HIDE DEF counts
  <2>3. /\ Append(counts, d) \in Seq(Int) /\ Len(Append(counts, d)) = l + 1
        /\ Append(counts, d)[l + 1] = d /\ \A i \in 1..l : Append(counts, d)[i] = counts[i]
    BY <2>1, <2>2
  <2> DEFINE both == Append(counts, d)
  <2>4. both = more
    BY DEF counts
  <2> HIDE DEF both, m
  <2>5. Len(both) = 2 /\ both[1] = m /\ both[2] = d /\ both \in Seq(Int)
    BY <2>2, <2>3 DEF both
  <2>6. both # <<>>
    <3>1. Len(<<>>) = 0
      OBVIOUS
    <3> QED
      BY <2>5, <3>1
  <2> HIDE DEF more
  <2> QED
    BY <2>4, <2>5, <2>6 DEF m
<1>9. AreStatistics("mad", values, more)
  BY <1>4, <1>6, <1>8 DEF AreStatistics, d
<1> HIDE DEF more
<1>10. /\ report' \in DetectStates /\ report'.at = 2 /\ report'.answer = "none"
       /\ report'.counts = more /\ report'.job = report.job
  <2>1. more \in Seq(Int)
    BY <1>8
  <2> QED
    BY <1>1, <2>1 DEF DetectStates
<1>11. Job' = Job /\ Sample' = Sample
  BY <1>10 DEF Job, Sample
<1>12. report'.at # 1 /\ report'.answer # "ok"
  BY <1>10
<1>13. AreStatistics(Job'.method, NonNulls(Sample'), report'.counts)
  BY <1>1, <1>9, <1>10, <1>11 DEF values
<1> QED
  BY <1>10, <1>12, <1>13, Zenon DEF Detecting, DetectStates

LEMMA OutlierRowsAre ==
  ASSUME NEW values \in Seq(Int), NEW stats
  PROVE  /\ Found(Job, stats, values) \in Seq(Int) /\ Len(Found(Job, stats, values)) \in Nat
         /\ Len(Found(Job, stats, values)) =
              Cardinality(OutlierRows(Job.method, stats, Job.bound, values))
         /\ \A k \in 1..Len(Found(Job, stats, values)) :
              \E i \in 1..Len(values) : Found(Job, stats, values)[k] = values[i]
<1> DEFINE rows == OutlierRows(Job.method, stats, Job.bound, values)
           found == Only(values, rows)
<1>1. rows \in SUBSET (1..Len(values))
  BY DEF OutlierRows
<1> HIDE DEF rows
<1>2. found \in Seq(Int) /\ OnlyAre(values, rows, found)
  BY <1>1, OnlyIs
<1> HIDE DEF found
<1>3. Len(found) \in Nat
  BY <1>2
<1>4. /\ Len(found) = Cardinality(rows)
      /\ \A k \in 1..Len(found) : \E i \in 1..Len(values) : found[k] = values[i]
  BY <1>1, <1>2 DEF OnlyAre
<1> QED
  BY <1>2, <1>3, <1>4 DEF found, rows, Found

LEMMA OutliersKeep ==
  ASSUME Detecting, CountOutliers
  PROVE  Detecting'
<1> DEFINE values == NonNulls(Sample)
           stats == report.counts
           outliers == Only(values, {i \in 1..Len(values) :
             IsOutlier(Job.method, report.counts, Len(values), Job.bound, values[i])})
           counted == <<Len(Sample), Len(outliers)>>
           told == IF Len(outliers) > 0 /\ Job.max > 0 THEN FirstOf(outliers, Job.max) ELSE <<>>
<1>1. /\ report \in DetectStates /\ Job \in Detections /\ report.answer = "none"
      /\ (report.at = 1 /\ (Job.method # "mad" \/ report.counts = <<>>)) \/ report.at = 2
      /\ report' = [report EXCEPT !.at = 3, !.answer = "ok", !.counts = counted, !.results = told]
  BY Zenon DEF Detecting, DetectStates, Job, CountOutliers, Reporting
<1>2. /\ values \in Seq(Int) /\ Len(values) \in Nat /\ Len(Sample) \in Nat
      /\ Job.method \in {"zscore", "iqr", "mad"} /\ Job.max \in Nat
  BY <1>1, SampleShape, DetectionShape
<1>3. AreStatistics(Job.method, values, stats)
  <2>1. CASE report.at = 2
    BY <1>1, <2>1, Zenon DEF Detecting
  <2>2. CASE report.at # 2
    <3>1. report.at = 1 /\ (Job.method # "mad" \/ stats = <<>>)
      BY <1>1, <2>2
    <3>2. stats = FirstStatistics(Job.method, values)
      BY <1>1, <3>1, Zenon DEF Detecting
    <3>3. Job.method # "mad" \/ values = <<>>
      <4> SUFFICES ASSUME Job.method = "mad", stats = <<>> PROVE values = <<>>
        BY <3>1
      <4>1. FirstStatistics("mad", values) =
              IF Len(values) = 0 THEN <<>> ELSE <<TwiceMedian(values)>>
        BY DEF FirstStatistics
      <4>2. \A x : <<x>> # <<>>
        OBVIOUS
      <4>3. Len(values) = 0
        BY <3>2, <4>1, <4>2
      <4> HIDE DEF values
      <4> QED
        BY <1>2, <4>3, EmptySeq
    <3> QED
      BY <1>2, <3>2, <3>3 DEF AreStatistics
  <2> QED
    BY <2>1, <2>2
<1>4. outliers = Found(Job, stats, values)
  BY DEF Found, OutlierRows
<1> HIDE DEF values, stats, outliers
<1>5. outliers \in Seq(Int) /\ Len(outliers) \in Nat
  BY <1>2, <1>4, OutlierRowsAre
<1>6. counted \in Seq(Int)
  BY <1>2, <1>5
<1>7. told \in Seq(Int)
  <2>1. FirstOf(outliers, Job.max) \in Seq(Int)
    BY <1>2, <1>5, FirstOfIs
  <2>2. <<>> \in Seq(Int)
    BY EmptySeq
  <2> QED
    BY <2>1, <2>2
<1> HIDE DEF counted, told
<1>8. /\ report' \in DetectStates /\ report'.at = 3 /\ report'.answer = "ok"
      /\ report'.counts = counted /\ report'.results = told /\ report'.job = report.job
  BY <1>1, <1>6, <1>7 DEF DetectStates
<1>9. Job' = Job /\ Sample' = Sample
  BY <1>8 DEF Job, Sample
<1>10. report'.at # 1 /\ report'.at # 2
  BY <1>8
<1>11. Detected(values)'
  <2>1. values' = values
    BY <1>9 DEF values
  <2>2. AreStatistics(Job'.method, values', stats)
    BY <1>3, <1>9, <2>1
  <2>3. Found(Job', stats, values') = outliers
    BY <1>4, <1>9, <2>1
  <2>4. /\ report'.counts = <<Len(Sample'), Len(Found(Job', stats, values'))>>
        /\ report'.results = IF Len(Found(Job', stats, values')) > 0 /\ Job'.max > 0
                             THEN FirstOf(Found(Job', stats, values'), Job'.max) ELSE <<>>
    BY <1>8, <1>9, <2>3 DEF counted, told
  <2> QED
    BY <2>2, <2>4, Zenon DEF Detected
<1> QED
  BY <1>8, <1>10, <1>11, Zenon DEF Detecting, DetectStates, values

LEMMA OutliersAre ==
  ASSUME Detecting
  PROVE  OutliersAreFew
<1> SUFFICES ASSUME Over("outliers") PROVE OutliersAreFew
  BY DEF OutliersAreFew
<1> DEFINE values == NonNulls(Sample)
           n == Len(values)
           count == report.counts[2]
           kept == report.results
<1>1. report \in DetectStates /\ Job \in Detections /\ report.answer = "ok"
      /\ Detected(values)
  BY Zenon DEF Detecting, DetectStates, Job, Over
<1>2. /\ values \in Seq(Int) /\ n \in Nat /\ Sample \in ReportCells
      /\ Job.method \in {"zscore", "iqr", "mad"} /\ Job.bound \in Nat /\ Job.max \in Nat
  BY <1>1, SampleShape, DetectionShape
<1> HIDE DEF values
<1>3. PICK stats :
        /\ AreStatistics(Job.method, values, stats)
        /\ report.counts = <<Len(Sample), Len(Found(Job, stats, values))>>
        /\ report.results = IF Len(Found(Job, stats, values)) > 0 /\ Job.max > 0
                            THEN FirstOf(Found(Job, stats, values), Job.max) ELSE <<>>
  BY <1>1, Zenon DEF Detected
<1> DEFINE outliers == Found(Job, stats, values)
           rows == OutlierRows(Job.method, stats, Job.bound, values)
<1>4. /\ outliers \in Seq(Int) /\ Len(outliers) \in Nat /\ Len(outliers) = Cardinality(rows)
      /\ \A k \in 1..Len(outliers) : \E i \in 1..Len(values) : outliers[k] = values[i]
  BY <1>2, OutlierRowsAre
<1> HIDE DEF outliers, rows
<1>5. count = Cardinality(rows) /\ count \in Nat /\ count = Len(outliers)
  <2>1. count = Len(outliers)
    BY <1>3 DEF outliers
  <2> QED
    BY <1>4, <2>1
<1>6. /\ Job.method = "iqr" \/ (Job.method = "mad" /\ Job.bound >= 1) => 2 * count <= n
      /\ Job.method = "zscore" /\ count > 0 => count * Job.bound < n - 1
      /\ Cardinality(Range(values)) <= 1 => count = 0
  <2>1. CASE Job.method = "zscore"
    <3>1. AreStatistics("zscore", values, stats)
          /\ rows = OutlierRows("zscore", stats, Job.bound, values)
      BY <1>3, <2>1 DEF rows
    <3>2. /\ Cardinality(rows) > 0 => Cardinality(rows) * Job.bound < n - 1
          /\ Cardinality(Range(values)) <= 1 => Cardinality(rows) = 0
      BY <1>2, <3>1, ScoresAreFew
    <3> QED
      BY <1>5, <2>1, <3>2
  <2>2. CASE Job.method = "iqr"
    <3>1. AreStatistics("iqr", values, stats)
          /\ rows = OutlierRows("iqr", stats, Job.bound, values)
      BY <1>3, <2>2 DEF rows
    <3>2. /\ 2 * Cardinality(rows) <= n
          /\ Cardinality(Range(values)) <= 1 => Cardinality(rows) = 0
      BY <1>2, <3>1, FencesAreWide
    <3> QED
      BY <1>5, <2>2, <3>2
  <2>3. CASE Job.method = "mad"
    <3>1. AreStatistics("mad", values, stats)
          /\ rows = OutlierRows("mad", stats, Job.bound, values)
      BY <1>3, <2>3 DEF rows
    <3>2. /\ Job.bound >= 1 => 2 * Cardinality(rows) <= n
          /\ Cardinality(Range(values)) <= 1 => Cardinality(rows) = 0
      BY <1>2, <3>1, DeviationsAreFew
    <3> QED
      BY <1>5, <2>3, <3>2
  <2> QED
    BY <1>2, <2>1, <2>2, <2>3
<1>7. \/ kept = <<>> /\ (count = 0 \/ Job.max = 0)
      \/ kept = FirstOf(outliers, Job.max) /\ Job.max \in Nat
  <2>1. CASE Len(outliers) > 0 /\ Job.max > 0
    BY <1>2, <1>3, <2>1 DEF outliers
  <2>2. CASE ~(Len(outliers) > 0 /\ Job.max > 0)
    <3>1. count = 0 \/ Job.max = 0
      BY <1>2, <1>5, <2>2
    <3>2. kept = <<>>
      BY <1>3, <2>2 DEF outliers
    <3> QED
      BY <3>1, <3>2
  <2> QED
    BY <2>1, <2>2
<1>8. /\ Job.max < IdxSize => Len(kept) = Min({count, Job.max})
      /\ \A i \in 1..Len(kept) : Contains(Sample, <<kept[i]>>)
  <2>1. CASE kept = <<>> /\ (count = 0 \/ Job.max = 0)
    <3>1. Min({count, Job.max}) = 0
      BY <1>2, <1>5, <2>1, LesserOf
    <3>2. Len(<<>>) = 0 /\ 1..0 = {}
      OBVIOUS
    <3> HIDE DEF count
    <3>3. Len(kept) = 0
      BY <2>1, <3>2
    <3> HIDE DEF kept
    <3> QED
      BY <3>1, <3>2, <3>3
  <2>2. CASE kept = FirstOf(outliers, Job.max) /\ Job.max \in Nat
    <3> DEFINE max == Job.max
    <3> DEFINE first == FirstOf(outliers, max)
    <3>0. kept = first /\ max \in Nat
      BY <2>2
    <3> HIDE DEF max, kept, count
    <3>1. /\ first \in Seq(Int) /\ Len(first) <= Len(outliers)
          /\ Len(first) = Min({max % IdxSize, Len(outliers)})
          /\ \A i \in 1..Len(first) : first[i] = outliers[i]
      BY <1>4, <3>0, FirstOfIs
    <3> HIDE DEF first
    <3>2. /\ kept \in Seq(Int) /\ Len(kept) <= Len(outliers)
          /\ Len(kept) = Min({max % IdxSize, Len(outliers)})
          /\ \A i \in 1..Len(kept) : kept[i] = outliers[i]
      BY <3>0, <3>1
    <3>3. max \in Nat /\ IdxSize \in Nat \ {0}
      BY <3>0, QualityAssumption
    <3>4. max < IdxSize => max % IdxSize = max
      BY <3>3
    <3>5. max < IdxSize => Len(kept) = Min({count, max})
      <4>1. {max, count} = {count, max}
        OBVIOUS
      <4> QED
        BY <1>5, <3>2, <3>4, <4>1
    <3>6. ASSUME NEW i \in 1..Len(kept) PROVE Contains(Sample, <<kept[i]>>)
      <4>1. Len(kept) \in Nat
        BY <3>2
      <4>2. i \in 1..Len(outliers) /\ kept[i] = outliers[i]
        <5> DEFINE l == Len(outliers)
                   k == Len(kept)
        <5>1. k \in Nat /\ l \in Nat /\ k <= l /\ i \in 1..k
          BY <1>4, <3>2, <4>1
        <5> HIDE DEF k, l
        <5>2. i \in 1..l
          BY <5>1
        <5> QED
          BY <3>2, <5>2 DEF l
      <4>3. PICK k \in 1..Len(values) : outliers[i] = values[k]
        BY <1>4, <4>2
      <4>4. PICK c \in 1..Len(Sample) : Sample[c] = <<values[k]>>
        BY <1>2, ValuesAndCells DEF values
      <4> QED
        BY <4>2, <4>3, <4>4 DEF Contains
    <3> QED
      BY <3>5, <3>6 DEF max
  <2> QED
    BY <1>7, <2>1, <2>2
<1> HIDE DEF kept, count
<1> QED
  BY <1>6, <1>8 DEF OutliersAreFew, values, kept, count

(* The invariant: each kind of report is where its request has brought it. *)
QualityIInv == Validating \/ Profiling \/ Detecting

LEMMA QualityIInvStarts == QualityInit => QualityIInv
<1> SUFFICES ASSUME QualityInit PROVE QualityIInv
  OBVIOUS
<1>1. CASE Requested("validate", Validations)
  BY <1>1, ValidateStarts DEF QualityIInv
<1>2. CASE Requested("profile", Profiles)
  BY <1>2, ProfileStarts DEF QualityIInv
<1>3. CASE Requested("outliers", Detections)
  BY <1>3, DetectionStarts DEF QualityIInv
<1> QED
  BY <1>1, <1>2, <1>3 DEF QualityInit

\* A step is one of the kind that was asked for.
LEMMA KindsApart ==
  ASSUME QualityNext
  PROVE  /\ Validating => CountFailures \/ ReportCheck \/ Summarize
         /\ Profiling => ProfileFrame
         /\ Detecting => ComputeStatistics \/ ComputeMad \/ CountOutliers
<1>1. /\ CountFailures \/ ReportCheck \/ Summarize => report.kind = "validate"
      /\ ProfileFrame => report.kind = "profile"
      /\ ComputeStatistics \/ ComputeMad \/ CountOutliers => report.kind = "outliers"
  BY DEF CountFailures, ReportCheck, Summarize, ProfileFrame, ComputeStatistics, ComputeMad,
         CountOutliers, Reporting
<1>2. Validating => report.kind = "validate"
  BY DEF Validating, ValidateStates
<1>3. Profiling => report.kind = "profile"
  BY DEF Profiling, ProfileStates
<1>4. Detecting => report.kind = "outliers"
  <2>1. report \in DetectStates => report.kind = "outliers"
    BY DEF DetectStates
  <2> QED
    BY <2>1, Zenon DEF Detecting
<1> QED
  BY <1>1, <1>2, <1>3, <1>4, SMTT(30) DEF QualityNext

LEMMA QualityIInvKept == QualityIInv /\ [QualityNext]_report => QualityIInv'
<1> SUFFICES ASSUME QualityIInv, [QualityNext]_report PROVE QualityIInv'
  OBVIOUS
<1>1. CASE UNCHANGED report
  <2>1. report' = report /\ Job' = Job /\ Sample' = Sample
    BY <1>1 DEF Job, Sample
  <2>2. Validating => Validating'
    <3>1. (Reported <=> Reported') /\ (CountedAll <=> CountedAll') /\ (Summed <=> Summed')
      BY <2>1 DEF Reported, Countable, Uncountable, CountedAll, Summed
    <3> QED
      BY <2>1, <3>1, Zenon DEF Validating, ValidateStates
  <2>3. Profiling => Profiling'
    <3>1. Profiled <=> Profiled'
      BY <2>1 DEF Profiled
    <3> QED
      BY <2>1, <3>1, Zenon DEF Profiling, ProfileStates
  <2>4. Detecting => Detecting'
    BY <2>1, Zenon DEF Detecting, Detected, DetectStates
  <2> QED
    BY <2>2, <2>3, <2>4 DEF QualityIInv
<1>2. CASE QualityNext
  <2>1. Validating => Validating'
    BY <1>2, KindsApart, CountKeeps, ReportKeeps, SummarizeKeeps
  <2>2. Profiling => Profiling'
    BY <1>2, KindsApart, ProfileKeeps
  <2>3. Detecting => Detecting'
    BY <1>2, KindsApart, ComputeKeeps, MadKeeps, OutliersKeep
  <2> QED
    BY <2>1, <2>2, <2>3 DEF QualityIInv
<1> QED
  BY <1>1, <1>2

LEMMA QualityIInvTells ==
  QualityIInv => VerdictsHold /\ QuantilesAreOwn /\ OutliersAreFew
<1>1. Validating => report.kind = "validate"
  BY DEF Validating, ValidateStates
<1>2. Profiling => report.kind = "profile"
  BY DEF Profiling, ProfileStates
<1>3. Detecting => report.kind = "outliers"
  <2>1. report \in DetectStates => report.kind = "outliers"
    BY DEF DetectStates
  <2> QED
    BY <2>1, Zenon DEF Detecting
<1>4. /\ report.kind # "validate" => VerdictsHold
      /\ report.kind # "profile" => QuantilesAreOwn
      /\ report.kind # "outliers" => OutliersAreFew
  <2>1. report.kind # "validate" => VerdictsHold
    BY DEF VerdictsHold, Over
  <2>2. report.kind # "profile" => QuantilesAreOwn
    BY DEF QuantilesAreOwn, Over
  <2>3. report.kind # "outliers" => OutliersAreFew
    BY DEF OutliersAreFew, Over
  <2> QED
    BY <2>1, <2>2, <2>3
<1>5. CASE Validating
  BY <1>1, <1>4, <1>5, VerdictsAre
<1>6. CASE Profiling
  BY <1>2, <1>4, <1>6, ProfilesAre
<1>7. CASE Detecting
  BY <1>3, <1>4, <1>7, OutliersAre
<1> QED
  BY <1>5, <1>6, <1>7 DEF QualityIInv

LEMMA QualityIInvHolds == QualitySpec => []QualityIInv
BY QualityIInvStarts, QualityIInvKept, PTL DEF QualitySpec

(* VerdictsHold (validate_frame): the counts, the examples and the passes of *)
(* a validation are true of the column that was read.  Of two checks it does *)
(* not say that a pass is obeyed: a set of mixed types, and a regex that is  *)
(* not valid, which no row ever fails (the RegexMatch of fail_count_expr).   *)
THEOREM VerdictsAreTrue == QualitySpec => []VerdictsHold
BY QualityIInvHolds, QualityIInvTells, PTL

(* QuantilesAreOwn (profile_frame): a profile counts the first rows that   *)
(* were asked for, and its quantiles are values of theirs, at their rank.  *)
THEOREM QuantilesDescribe == QualitySpec => []QuantilesAreOwn
BY QualityIInvHolds, QualityIInvTells, PTL

(* OutliersAreFew (detect_outliers_frame): at most half of the values, or  *)
(* fewer than (n - 1) / t^2 of them, and none of equal ones.               *)
THEOREM OutliersAreRare == QualitySpec => []OutliersAreFew
BY QualityIInvHolds, QualityIInvTells, PTL
=============================================================================
