--------------------------- MODULE TransformPlan ---------------------------
(***************************************************************************)
(* src/transform.rs: TransformSpec::apply over the lazy frame of           *)
(* src/pipeline/mod.rs, a step of the specification per step.  A column    *)
(* is its name, its type, where it comes from, what was done to it, and    *)
(* the kinds of its cells.  What Polars computes is external: this says    *)
(* when an error can be seen, which is when a plan is collected.           *)
(***************************************************************************)
EXTENDS Integers, Sequences, SequencesExt, FiniteSets, Functions

CONSTANT Specs   \* what is applied: [input, steps, output]

\* "word" is a text that is no number, "number" is of any type.
ColumnTypes == {"Int64", "Float64", "Bool", "Utf8"}
CellKinds == {"null", "word", "number", "fill", "fails"}

StepOps == {"select", "drop", "rename", "cast", "fill_null", "with_literal", "derive", "utf8"}

\* origin: the name of a column of the input, or none; done: the operations of
\* the steps that changed it.
PlanColumns ==
  [name: STRING, type: ColumnTypes, origin: {names \in Seq(STRING) : Len(names) <= 1},
   done: Seq(StepOps), cells: Seq(CellKinds)]
TransformSteps ==
  [op: {"select", "drop"}, columns: Seq(STRING)]
    \cup [op: {"rename"}, pairs: Seq(STRING \X STRING)]
    \cup [op: {"cast"}, column: STRING, to: ColumnTypes, mode: {"strict", "lossy"}]
    \cup [op: {"fill_null", "with_literal"}, column: STRING, literal: {"null", "one"}]
    \cup [op: {"derive"}, name: STRING, column: STRING]
    \cup [op: {"utf8"}, column: STRING]

\* The columns of a dataset are of one length and have no history.  What Polars
\* makes of one column with two new names in one step is left out.
ASSUME SpecsAssumption ==
  \A spec \in Specs :
    /\ spec.input \in Seq(PlanColumns) \ {<<>>}
    /\ \A i \in 1..Len(spec.input) :
         /\ spec.input[i].origin = <<spec.input[i].name>> /\ spec.input[i].done = <<>>
         /\ Len(spec.input[i].cells) = Len(spec.input[1].cells)
         /\ \A j \in 1..Len(spec.input[i].cells) : spec.input[i].cells[j] # "fails"
    /\ spec.steps \in Seq(TransformSteps)
    /\ \A k \in 1..Len(spec.steps) : spec.steps[k].op = "rename" =>
         \A i, j \in 1..Len(spec.steps[k].pairs) :
           spec.steps[k].pairs[i][1] = spec.steps[k].pairs[j][1] => i = j
    /\ spec.output \in Seq([name: STRING, type: ColumnTypes])

VARIABLE frame   \* [spec, cols, at, pending, lost, answer]

\* pending: the plan names a column that is not there.  lost: a column that
\* fails was dropped or overwritten before it was computed.
Column(name, type, origin, done, cells) ==
  [name |-> name, type |-> type, origin |-> origin, done |-> done, cells |-> cells]
Broken(col) == \E i \in 1..Len(col.cells) : col.cells[i] = "fails"

HasColumn(cols, name) == \E i \in 1..Len(cols) : cols[i].name = name
ColumnNamed(cols, name) == cols[CHOOSE i \in 1..Len(cols) : cols[i].name = name]
Distinct(cols) == \A i, j \in 1..Len(cols) : cols[i].name = cols[j].name => i = j
AllKnown(cols, names) == \A i \in 1..Len(names) : HasColumn(cols, names[i])

\* from_dataset checks every cell against the type of its field; Polars refuses
\* two columns of one name.
WellTyped(col) == col.type # "Utf8" => \A i \in 1..Len(col.cells) : col.cells[i] # "word"

FrameInit ==
  \E spec \in Specs :
    frame = [spec |-> spec, cols |-> spec.input, at |-> 0, pending |-> FALSE,
             lost |-> FALSE,
             answer |-> IF \E i \in 1..Len(spec.input) : ~WellTyped(spec.input[i])
                        THEN "parse error"
                        ELSE IF Distinct(spec.input) THEN "none" ELSE "engine error"]

Step == frame.spec.steps[frame.at + 1]
Planning(ops) ==
  frame.answer = "none" /\ frame.at < Len(frame.spec.steps) /\ Step.op \in ops

\* The plan with its columns replaced: errors of columns that are gone may
\* never show, since the plan that is collected does not need them.
Planned(cols) ==
  frame' = [frame EXCEPT !.at = @ + 1, !.cols = cols,
     !.lost = @ \/ \E i \in 1..Len(frame.cols) :
                     /\ Broken(frame.cols[i])
                     /\ ~\E j \in 1..Len(cols) : cols[j].cells = frame.cols[i].cells]
Unplannable == frame' = [frame EXCEPT !.at = @ + 1, !.pending = TRUE]
ReturnsError(kind) == frame' = [frame EXCEPT !.answer = kind]

\* An error that is planned hides the later ones, but not those at once.
PlanIf(valid, cols) == IF frame.pending \/ ~valid THEN Unplannable ELSE Planned(cols)

\* Mutant: a column of that name stays as it is.
KeepsExisting(cols, col) == IF HasColumn(cols, col.name) THEN cols ELSE Append(cols, col)

\* with_columns: in place of the column of that name, else at the end.
WithColumn(cols, col) ==
  IF HasColumn(cols, col.name)
  THEN [i \in 1..Len(cols) |-> IF cols[i].name = col.name THEN col ELSE cols[i]]
  ELSE Append(cols, col)

SelectStep ==
  /\ Planning({"select"})
  /\ LET picked == [i \in 1..Len(Step.columns) |-> ColumnNamed(frame.cols, Step.columns[i])]
     IN  PlanIf(AllKnown(frame.cols, Step.columns) /\ IsInjective(Step.columns), picked)

DropStep ==
  /\ Planning({"drop"})
  /\ PlanIf(AllKnown(frame.cols, Step.columns),
            FlattenSeq([i \in 1..Len(frame.cols) |->
              IF Contains(Step.columns, frame.cols[i].name) THEN <<>>
              ELSE <<frame.cols[i]>>]))

\* rename: all the pairs at once, so that two columns can change places.
RenamedTo(name, pairs) ==
  LET own == SelectInSeq(pairs, LAMBDA p : p[1] = name)
  IN  IF own = 0 THEN name ELSE pairs[own][2]

RenameStep ==
  /\ Planning({"rename"})
  /\ LET renamed == [i \in 1..Len(frame.cols) |->
           [frame.cols[i] EXCEPT !.name = RenamedTo(@, Step.pairs)]]
     IN  PlanIf(AllKnown(frame.cols, [i \in 1..Len(Step.pairs) |-> Step.pairs[i][1]])
                  /\ Distinct(renamed), renamed)

\* A strict cast that fails is an error when it is computed, a lossy one Null.
\* Mutant: a strict cast nulls what it cannot convert.
AlwaysLossy(kind, from, to, mode) ==
  IF kind = "word" /\ to # "Utf8" THEN "null" ELSE kind

CastKind(kind, from, to, mode) ==
  IF kind = "word" /\ to # "Utf8"
  THEN IF mode = "strict" THEN "fails" ELSE "null"
  ELSE kind

Changed(col, what, type, cells) ==
  [col EXCEPT !.done = Append(@, what), !.type = type, !.cells = cells]

CastStep ==
  /\ Planning({"cast"})
  /\ LET col == ColumnNamed(frame.cols, Step.column)
         cast == Changed(col, "cast", Step.to,
                   [i \in 1..Len(col.cells) |->
                      CastKind(col.cells[i], col.type, Step.to, Step.mode)])
     IN  PlanIf(HasColumn(frame.cols, Step.column), WithColumn(frame.cols, cast))

\* value_to_lit_expr refuses Null at once, before anything is collected.
LiteralStep ==
  /\ Planning({"fill_null", "with_literal"}) /\ Step.literal = "null"
  /\ ReturnsError("schema error")

FillNullStep ==
  /\ Planning({"fill_null"}) /\ Step.literal # "null"
  /\ LET col == ColumnNamed(frame.cols, Step.column)
         filled == Changed(col, "fill_null", col.type,
                     [i \in 1..Len(col.cells) |->
                        IF col.cells[i] = "null" THEN "fill" ELSE col.cells[i]])
     IN  PlanIf(HasColumn(frame.cols, Step.column), WithColumn(frame.cols, filled))

\* Literals are of the type of the column they fill.
Literal(name, rows) ==
  Column(name, "Int64", <<>>, <<>>, [i \in 1..rows |-> "fill"])

\* External: where every column was dropped, a literal has one row, or as many
\* as there were.
Height(cols) == Len(cols[1].cells)
Heights ==
  IF frame.cols = <<>> THEN {1, Height(frame.spec.input)} ELSE {Height(frame.cols)}

WithLiteralStep ==
  /\ Planning({"with_literal"}) /\ Step.literal # "null"
  /\ \E rows \in Heights :
       PlanIf(TRUE, WithColumn(frame.cols, Literal(Step.column, rows)))

\* with_mul_f64 and with_add_f64: arithmetic on a text fails as a plan.
DeriveStep ==
  /\ Planning({"derive"})
  /\ LET source == ColumnNamed(frame.cols, Step.column)
         derived == [Changed(source, "derive", "Float64", source.cells)
                       EXCEPT !.name = Step.name]
     IN  PlanIf(HasColumn(frame.cols, Step.column) /\ source.type # "Utf8",
                WithColumn(frame.cols, derived))

CollectFails == frame.pending \/ \E i \in 1..Len(frame.cols) : Broken(frame.cols[i])

\* Truncate, SHA-256, redact: they collect, so that every error planned before
\* shows here, and go on from the rows.  Null stays Null.
Utf8Step ==
  /\ Planning({"utf8"})
  /\ \/ /\ CollectFails \/ frame.lost
        /\ ReturnsError("engine error")
     \/ /\ ~CollectFails
        /\ IF ~HasColumn(frame.cols, Step.column) \/ ColumnNamed(frame.cols, Step.column).type # "Utf8"
           THEN ReturnsError("schema error")
           ELSE LET col == ColumnNamed(frame.cols, Step.column)
                IN  frame' = [frame EXCEPT !.at = @ + 1, !.lost = FALSE,
                       !.cols = WithColumn(@, Changed(col, "utf8", "Utf8", col.cells))]

\* collect_with_schema: the fields of the output schema, by name, cast without
\* strictness; only a text is never cast to a Bool.
Output ==
  [k \in 1..Len(frame.spec.output) |->
     LET f == frame.spec.output[k]
         col == ColumnNamed(frame.cols, f.name)
     IN  [col EXCEPT !.type = f.type,
            !.cells = [i \in 1..Len(@) |-> CastKind(@[i], col.type, f.type, "lossy")]]]
Uncastable(f) ==
  LET col == ColumnNamed(frame.cols, f.name)
  IN  /\ f.type = "Bool" /\ col.type = "Utf8"
      /\ \E i \in 1..Len(col.cells) : col.cells[i] # "null"

CollectWithSchema ==
  /\ frame.answer = "none" /\ frame.at = Len(frame.spec.steps)
  /\ \/ (CollectFails \/ frame.lost) /\ ReturnsError("engine error")
     \/ /\ ~CollectFails
        /\ LET fields == frame.spec.output
               names == [k \in 1..Len(fields) |-> fields[k].name]
           IN  IF ~AllKnown(frame.cols, names) THEN ReturnsError("schema error")
               ELSE IF \E k \in 1..Len(fields) : Uncastable(fields[k])
               THEN ReturnsError("parse error")
               ELSE frame' = [frame EXCEPT !.answer = "rows", !.cols = Output]

FrameNext ==
  \/ SelectStep \/ DropStep \/ RenameStep \/ CastStep \/ LiteralStep \/ FillNullStep
  \/ WithLiteralStep \/ DeriveStep \/ Utf8Step \/ CollectWithSchema

FrameSpec == FrameInit /\ [][FrameNext]_frame
-----------------------------------------------------------------------------
\* A column before the step, told from what is known of it after the step: its
\* name, what was done to it later, and whether a later step made it.
Before(step, after) ==
  LET changed == [after EXCEPT !.done = <<step.op>> \o @]
  IN  IF after.literal THEN after
      ELSE IF step.op = "rename"
      THEN LET to == SelectInSeq(step.pairs, LAMBDA p : p[2] = after.name)
           IN  IF to = 0 THEN after ELSE [after EXCEPT !.name = step.pairs[to][1]]
      ELSE IF step.op = "derive"
      THEN IF step.name = after.name THEN [changed EXCEPT !.name = step.column] ELSE after
      ELSE IF step.op \in {"select", "drop"} \/ step.column # after.name THEN after
      ELSE IF step.op = "with_literal" THEN [after EXCEPT !.literal = TRUE]
      ELSE changed

\* Where the column called name comes from after the first k steps, and which
\* of them changed it, told backwards from the names that the steps mention.
Called(name) == [name |-> name, done |-> <<>>, literal |-> FALSE]
ToldFrom(steps, k, after) ==
  LET told[n \in 0..k] == IF n = 0 THEN after ELSE Before(steps[k + 1 - n], told[n - 1])
  IN  told
SourceOf(steps, k, name) == ToldFrom(steps, k, Called(name))[k]

(***************************************************************************)
(* A specification that succeeds did all that it says: the rows are those  *)
(* of the input, in the shape of the output schema, and each field is the  *)
(* column that its name leads back to through renames and derivations,     *)
(* changed by exactly the steps that named it, in their order: no masking  *)
(* is skipped because the column was called something else at the time.    *)
(* Literals in a frame without other columns may be a single row.          *)
(***************************************************************************)
EveryStepApplied == frame.answer = "rows" =>
  /\ Len(frame.cols) = Len(frame.spec.output)
  /\ \A k \in 1..Len(frame.cols) :
       LET col == frame.cols[k]
           source == SourceOf(frame.spec.steps, Len(frame.spec.steps), frame.spec.output[k].name)
       IN  /\ col.type = frame.spec.output[k].type
           /\ \/ Len(col.cells) = Height(frame.spec.input)
              \/ Len(col.cells) = 1 /\ \A j \in 1..Len(frame.cols) : frame.cols[j].origin = <<>>
           /\ col.done = source.done
           /\ col.origin = IF source.literal THEN <<>> ELSE <<source.name>>

(***************************************************************************)
(* What a successful specification leaves Null is Null in the input, or a  *)
(* text that a lossy cast (by a step or to the output schema) cannot read: *)
(* a strict cast never nulls, and a filled column has no Null unless it    *)
(* was made after.  No cell is a text where its type is a number.          *)
(***************************************************************************)
NullsAccountedFor == frame.answer = "rows" =>
  \A k \in 1..Len(frame.cols) :
    LET col == frame.cols[k]
        steps == frame.spec.steps
        input == ColumnNamed(frame.spec.input, col.origin[1])
        lossy == \E i \in 1..Len(steps) : steps[i].op = "cast" /\ steps[i].mode = "lossy"
        toSchema == col.type # "Utf8"
    IN  /\ \A i \in 1..Len(col.cells) : col.cells[i] # "fails"
        /\ \A i \in 1..Len(col.cells) : col.cells[i] = "null" =>
             /\ col.origin # <<>>
             /\ \/ input.cells[i] = "null" /\ ~Contains(col.done, "fill_null")
                \/ input.cells[i] = "word" /\ (lossy \/ toSchema)
        /\ col.type # "Utf8" => \A i \in 1..Len(col.cells) : col.cells[i] # "word"

(***************************************************************************)
(* A specification that succeeds did all that it says, and nothing else:   *)
(* every step where it belongs, and no cell nulled that is not accounted   *)
(* for.                                                                    *)
(***************************************************************************)
SpecIsApplied == EveryStepApplied /\ NullsAccountedFor
=============================================================================
