---------------------------- MODULE MCAlgorithms ----------------------------
(***************************************************************************)
(* The sequential parts, each against its definition: chunk_ranges, the    *)
(* reductions, the specifications of transforms, the reports of the data   *)
(* quality modules, and the trips of datasets.  They share nothing, so one *)
(* runs on all its inputs while the others are over.                       *)
(***************************************************************************)
EXTENDS ChunkRanges, Reductions, TransformPlan, DataQuality, Interchange

Typed(type, n) == [type |-> type, n |-> n]
Blank == Typed("Null", 0)
Upto(S, n) == UNION {[1..m -> S] : m \in 0..n}

\* An i64 of 8 values: -4..3, so that two threes overflow.  One cell of each
\* column does not have the column's type.
Integers64 ==
  {Blank, Typed("Int64", -3), Typed("Int64", 1), Typed("Int64", 3),
   Typed("Float64", 1)}
Floats ==
  {Blank, Typed("Float64", -2), Typed("Float64", -1), Typed("Float64", 2),
   Typed("Float64", 99), Typed("Int64", 2)}
Strings == {Blank, Typed("Utf8", 1), Typed("Utf8", 2), Typed("Utf8", 3)}

EmptyColumn == [type |-> "none", cells |-> <<>>]
SmallColumns ==
  {EmptyColumn}
    \cup {[type |-> "Int64", cells |-> s] : s \in Upto(Integers64, 4)}
    \cup {[type |-> "Float64", cells |-> s] : s \in Upto(Floats, 3)}
    \cup {[type |-> "Utf8", cells |-> s] : s \in Upto(Strings, 3)}

\* Transforms.  Up to two steps on a text and a number column, and three of
\* those that rename, derive, mask and cast.
Input(a, b) ==
  <<Column("a", "Utf8", <<"a">>, <<>>, a), Column("b", "Int64", <<"b">>, <<>>, b)>>
Inputs ==
  {Input(a, <<"null", "number">>) :
     a \in {<<"word", "number">>, <<"number", "null">>, <<"number", "number">>}}
    \cup {Input(<<"word", "word">>, <<"number", "word">>)}
Chained ==
  {[op |-> "drop", columns |-> <<"a">>],
   [op |-> "rename", pairs |-> <<<<"a", "b">>, <<"b", "a">>>>],
   [op |-> "cast", column |-> "a", to |-> "Int64", mode |-> "strict"],
   [op |-> "cast", column |-> "b", to |-> "Utf8", mode |-> "strict"],
   [op |-> "with_literal", column |-> "a", literal |-> "one"],
   [op |-> "utf8", column |-> "a"]}
SmallSteps ==
  Chained \cup
  {[op |-> "select", columns |-> <<"b", "a">>], [op |-> "select", columns |-> <<"a", "a">>],
   [op |-> "drop", columns |-> <<"b", "a">>],
   [op |-> "rename", pairs |-> <<<<"a", "c">>>>],
   [op |-> "cast", column |-> "a", to |-> "Float64", mode |-> "lossy"],
   [op |-> "fill_null", column |-> "b", literal |-> "one"],
   [op |-> "fill_null", column |-> "a", literal |-> "null"],
   [op |-> "derive", name |-> "c", column |-> "b"],
   [op |-> "derive", name |-> "b", column |-> "a"],
   [op |-> "utf8", column |-> "c"]}
Field(name, type) == [name |-> name, type |-> type]
Outputs ==
  {<<Field("b", "Utf8"), Field("a", "Utf8")>>, <<Field("c", "Float64")>>,
   <<Field("a", "Int64"), Field("b", "Int64")>>, <<Field("a", "Bool")>>}
SmallSpecs ==
  [input: Inputs, steps: Upto(SmallSteps, 2) \cup Upto(Chained, 3), output: Outputs]

\* Reports, on columns of up to three, four and five cells.
Cells(values, n) == Upto({<<>>} \cup {<<v>> : v \in values}, n)
Chk(kind, severity) == [kind |-> kind, column |-> "a", severity |-> severity]
Int64s(ns) == [i \in 1..Len(ns) |-> Typed("Int64", ns[i])]
InSet(values, severity) ==
  [kind |-> "in_set", column |-> "a", severity |-> severity, values |-> values]
Regex(matches, valid, strict) ==
  [kind |-> "regex", column |-> "a", severity |-> 2, matches |-> matches,
   valid |-> valid, strict |-> strict]
Between(kind, min, max) ==
  [kind |-> kind, column |-> "a", severity |-> 1, min |-> min, max |-> max]
ColumnChecks ==
  {Chk("not_null", 3), Chk("unique", 2), [Chk("not_null", 1) EXCEPT !.column = "b"],
   Between("range", 1, 2), Between("length", 2, 4), Regex({1, 4}, TRUE, TRUE),
   Regex({1}, FALSE, TRUE), Regex({1}, FALSE, FALSE), InSet(Int64s(<<1, 2>>), 3),
   InSet(<<Typed("Utf8", 2), Typed("Int64", 1)>>, 1), InSet(<<>>, 2),
   InSet(<<Typed("Float64", 1), Typed("Utf8", 2)>>, 1)}
SmallValidations ==
  [column: {"a"}, type: {"Int64", "Utf8"}, cells: Cells({1, 2, 4}, 3),
   checks: Upto(ColumnChecks, 2), max: {0, 2}]
\* A word, and an invalid regex that is not strict.
LenientRegex ==
  [column: {"a"}, type: {"Utf8"}, cells: {<<<<1>>>>}, checks: {<<Regex({1}, FALSE, FALSE)>>},
   max: {0}]
Samples == {<<>>, <<2>>, <<9>>}
SmallProfiles ==
  [type: {"Int64", "Utf8"}, cells: Cells({1, 2, 4}, 4), sampling: Samples,
   quantiles: {<<>>, <<500, 950>>, <<496, 500>>, <<1000, 250, 0>>, <<500, 1001>>}]
SmallDetections ==
  UNION {[cells: Cells({0, 1, 6}, 5), sampling: Samples, method: {m},
          bound: IF m = "iqr" THEN {0, 3} ELSE {1, 2}, max: {0, 1}] :
           m \in {"zscore", "iqr", "mad"}}

\* Trips: two columns, of one name or two, of which one is a number's, and two
\* rows of which one may be short; two batches of a program that knows more types.
Pair(x, y) == <<Field("x", x), Field("y", y)>>
Asks == {<<>>, <<Field("y", "Int64"), Field("x", "Utf8")>>, <<Field("z", "Bool")>>,
         <<Field("x", "Int64")>>}
Objects == {<<"None", 0>>, <<"bool", 1>>, <<"int", 1>>, <<"int", 2>>, <<"big int", 1>>,
            <<"float", 1>>, <<"str", 1>>, <<"list", 1>>}
Named(fields) == {fields, <<fields[1], [fields[2] EXCEPT !.name = "x"]>>}
FromRows ==
  [enters: {"python"}, target: Asks,
   fields: UNION {Named(Pair(x, y)) : x \in {"Utf8", "Bool"}, y \in {"Int64", "Float64"}}
             \cup Named(Pair("Int64", "Int64")),
   rows: {<<>>} \cup {<<<<a, b>>, last>> : a \in Objects, b \in Objects,
                        last \in {<<<<"None", 0>>>>, <<<<"None", 0>>, <<"None", 0>>>>,
                                  <<<<"int", 3>>, <<"int", 2>>>>}}]
    \cup [enters: {"python"}, target: Asks, fields: {<<>>}, rows: {<<>>, <<<<>>>>}]
FromRust ==
  [enters: {"rust"}, target: Asks, fields: Named(Pair("Utf8", "Int64")),
   rows: Upto({<<<<"Utf8", 1>>, <<"Int64", 1>>>>, <<<<"Utf8", 2>>>>, <<>>,
               <<<<"Null", 0>>, <<"Int64", 2>>, <<"Bool", 1>>>>, <<<<"Int64", 1>>>>}, 2)]
Batch(fields, rows) == [fields |-> fields, rows |-> rows]
Batches ==
  UNION {{Batch(Pair(x, "Int64"), <<<<<<"Utf8", 1>>, <<"Int64", 1>>>>>>),
          Batch(Pair(x, "Int64"), <<>>),
          Batch(Pair(x, "Int64"), <<<<<<"Null", 0>>, <<"Int64", 2>>>>,
                                   <<<<"Utf8", 2>>, <<"Null", 0>>>>>>)} :
           x \in {"Utf8", "LargeUtf8"}}
    \cup {Batch(Pair("Utf8", "Int32"), <<>>)}
FromArrow ==
  [enters: {"arrow"}, target: Asks, fields: {<<>>},
   rows: {bs \in Upto(Batches, 2) : bs # <<>>}]
    \cup [enters: {"arrow"}, target: {<<Field("x", "Bool")>>}, fields: {<<>>}, rows: {<<>>}]
SmallTrips == FromRows \cup FromRust \cup FromArrow
-----------------------------------------------------------------------------
NoChunks ==
  row_count = 0 /\ chunk_size = 1 /\ start = 0 /\ ranges = <<>> /\ returned = TRUE
NoReduction ==
  /\ op = "Count" /\ column = EmptyColumn /\ checks = FALSE
  /\ row = 0 /\ acc = Start(op) /\ answer = Missing
NoFrame ==
  frame = [spec |-> [input |-> <<>>, steps |-> <<>>, output |-> <<>>], cols |-> <<>>,
           at |-> 0, pending |-> FALSE, lost |-> FALSE, answer |-> "over"]
NoReport ==
  report = [kind |-> "none", job |-> <<>>, at |-> 0, counts |-> <<>>, results |-> <<>>,
            answer |-> "over"]
NoTrip ==
  trip = [job |-> [enters |-> "arrow", fields |-> <<>>, rows |-> <<>>, target |-> <<>>],
          at |-> "over", fields |-> <<>>, rows |-> <<>>, batches |-> <<>>, error |-> "none"]

AlgorithmsInit ==
  \/ ChunkInit /\ NoReduction /\ NoFrame /\ NoReport /\ NoTrip
  \/ ReduceInit /\ NoChunks /\ NoFrame /\ NoReport /\ NoTrip
  \/ FrameInit /\ NoChunks /\ NoReduction /\ NoReport /\ NoTrip
  \/ QualityInit /\ NoChunks /\ NoReduction /\ NoFrame /\ NoTrip
  \/ TripInit /\ NoChunks /\ NoReduction /\ NoFrame /\ NoReport
AlgorithmsNext ==
  \/ ChunkNext /\ UNCHANGED <<reduceVars, frame, report, trip>>
  \/ ReduceNext /\ UNCHANGED <<chunkVars, frame, report, trip>>
  \/ FrameNext /\ UNCHANGED <<chunkVars, reduceVars, report, trip>>
  \/ QualityNext /\ UNCHANGED <<chunkVars, reduceVars, frame, trip>>
  \/ TripNext /\ UNCHANGED <<chunkVars, reduceVars, frame, report>>
AlgorithmsVars == <<chunkVars, reduceVars, frame, report, trip>>
AlgorithmsSpec == AlgorithmsInit /\ [][AlgorithmsNext]_AlgorithmsVars
=============================================================================
