----------------------------- MODULE Watermark -----------------------------
(***************************************************************************)
(* src/ingestion/watermark.rs and the truncation of unified.rs: what they  *)
(* do to a sequence of rows, of which only the watermark cell matters.     *)
(* A cell is null, or a value of the column's type; of an f64 column also  *)
(* the values above every finite one in total_cmp order (infinity, NaN).   *)
(***************************************************************************)
EXTENDS Integers, Sequences, FiniteSets, FiniteSetsExt

Null == [kind |-> "null", v |-> 0]
Finite(n) == [kind |-> "finite", v |-> n]
NonFinite == [kind |-> "nonfinite", v |-> 0]

\* Mutant: "at or above" for "strictly greater than".
AtOrAbove(cell, floor) ==
  \/ cell.kind = "nonfinite"
  \/ cell.kind = "finite" /\ cell.v >= floor

\* row_is_above_watermark; a floor is a finite value.
IsAbove(cell, floor) ==
  \/ cell.kind = "nonfinite"
  \/ cell.kind = "finite" /\ cell.v > floor

\* apply_watermark_filter: its loop has kept kept[i] of the first i rows.
Filtered(rows, floor) ==
  LET kept[i \in 0..Len(rows)] ==
        IF i = 0 THEN <<>>
        ELSE IF IsAbove(rows[i].cell, floor) THEN Append(kept[i - 1], rows[i])
        ELSE kept[i - 1]
  IN  kept[Len(rows)]

\* apply_max_rows, where None and Some(0) both mean no limit.
Truncated(rows, max_rows) ==
  IF max_rows = 0 \/ Len(rows) <= max_rows THEN rows
  ELSE SubSeq(rows, 1, max_rows)

\* max_value_in_column: over finite cells, and `none` when there are none.
FiniteValues(rows) ==
  {rows[i].cell.v : i \in {j \in DOMAIN rows : rows[j].cell.kind = "finite"}}

MaxValue(rows, none) ==
  IF FiniteValues(rows) = {} THEN none ELSE Max(FiniteValues(rows))
=============================================================================
