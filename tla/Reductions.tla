----------------------------- MODULE Reductions -----------------------------
(***************************************************************************)
(* src/processing/reduce.rs and multi.rs: the reductions of one column, a  *)
(* step for each row of their loops.  Floats are exact numbers and NaN:    *)
(* rounding is abstracted, the width of an i64 is not.  Std dev and L2     *)
(* norm are the roots of what "Stats" computes and are left out.           *)
(***************************************************************************)
EXTENDS Integers, Sequences, SequencesExt, FiniteSets

CONSTANTS
  Columns,   \* what may be reduced: see ColumnsAssumption
  I64,       \* an i64 has I64 values
  NaN,       \* codes the float that is not a number
  K          \* the k given to top_k_by_frequency

DataTypes == {"Int64", "Float64", "Utf8"}
Numeric == {"Int64", "Float64"}

\* n is the value of a cell, or the place of a string in the order of the
\* strings.  NaN is an n of its own, above all others as in f64::total_cmp.
Cell == [type: DataTypes \cup {"Null"}, n: Int]

\* A column the schema does not have is of type "none".  Nothing checks that
\* the cells of a DataSet have the type its schema says.
ASSUME ColumnsAssumption ==
  /\ Columns \subseteq [type: DataTypes \cup {"none"}, cells: Seq(Cell)]
  /\ NaN \in Int /\ K \in Nat /\ I64 \in Nat \ {0}
  /\ \A c \in Columns : \A i \in 1..Len(c.cells) : c.cells[i].n <= NaN

Ops == {"Count", "Sum", "Min", "Max", "Stats", "Distinct", "Median",
        "ArgMax", "ArgMin", "TopK"}

VARIABLES
  op,        \* the reduction that was called
  column,    \* its column
  checks,    \* whether the build panics on overflow
  row,       \* the rows read so far
  acc,       \* the accumulator of the loop
  answer     \* [is: "running", "none", "null", "panic" or "value", value]

reduceVars == <<op, column, checks, row, acc, answer>>

Running == [is |-> "running", value |-> <<>>]
Missing == [is |-> "none", value |-> <<>>]
Null == [is |-> "null", value |-> <<>>]
Panic == [is |-> "panic", value |-> <<>>]
Value(v) == [is |-> "value", value |-> v]

\* What Welford needs of the rationals.
Fraction(num, den) == [num |-> num, den |-> den]
Plus(p, q) == Fraction(p.num * q.den + q.num * p.den, p.den * q.den)
Minus(p, q) == Plus(p, Fraction(-q.num, q.den))
Times(p, q) == Fraction(p.num * q.num, p.den * q.den)
DividedBy(p, n) == Fraction(p.num, p.den * n)
Equals(p, q) == p.num * q.den = q.num * p.den

\* An Option is a sequence of at most one element.
None == <<>>
NoWelford == [n |-> 0, mean |-> Fraction(0, 1), m2 |-> Fraction(0, 1),
              squares |-> 0, nan |-> FALSE]
Start(o) == CASE o = "Stats"    -> NoWelford
              [] o = "Distinct" -> {}
              [] o = "TopK"     -> <<>>
              [] OTHER          -> None

ReduceInit ==
  /\ op \in Ops /\ column \in Columns /\ checks \in BOOLEAN
  /\ row = 0 /\ acc = Start(op) /\ answer = Running
-----------------------------------------------------------------------------
(* Before the loop: a column that is not there, a count, a numeric         *)
(* reduction of a column that is not numeric.                              *)

NumericOnly == {"Sum", "Min", "Max", "Stats", "Median"}
NeedsNoLoop ==
  \/ column.type = "none" \/ op = "Count"
  \/ op \in NumericOnly /\ column.type \notin Numeric

AnswerAtOnce ==
  /\ answer = Running /\ NeedsNoLoop
  /\ answer' = IF column.type = "none" THEN Missing
               ELSE IF op = "Count" THEN Value(Len(column.cells)) ELSE Null
  /\ UNCHANGED <<op, column, checks, row, acc>>

(* The loops, a row each.                                                  *)

Here == column.cells[row + 1]
Matches == Here.type = column.type

ReadRow(S) ==
  /\ op \in S /\ answer = Running /\ ~NeedsNoLoop
  /\ row < Len(column.cells)
  /\ row' = row + 1
  /\ UNCHANGED <<op, column, checks>>

I64Min == -(I64 \div 2)
InI64(x) == x \in I64Min..(I64Min + I64 - 1)

\* Mutant: the sum stops at the largest i64.
Saturated(x) == IF InI64(x) THEN x ELSE IF x < 0 THEN I64Min ELSE I64Min + I64 - 1

Wrapped(x) == ((x - I64Min) % I64) + I64Min

FloatSum(a, b) == IF NaN \in {a, b} THEN NaN ELSE a + b
Overflows ==
  column.type = "Int64" /\ acc # None /\ ~InI64(acc[1] + Here.n)

SumRow ==
  /\ ReadRow({"Sum"})
  /\ \/ ~Matches /\ UNCHANGED <<acc, answer>>
     \/ /\ Matches /\ checks /\ Overflows
        /\ answer' = Panic /\ UNCHANGED acc
     \/ /\ Matches /\ ~(checks /\ Overflows)
        /\ acc' = <<CASE acc = None -> Here.n
                      [] acc # None /\ column.type = "Int64"
                           -> Wrapped(acc[1] + Here.n)
                      [] OTHER -> FloatSum(acc[1], Here.n)>>
        /\ UNCHANGED answer

\* f64::min and f64::max return the other operand when one of them is NaN.
Lesser(a, b) == IF a <= b THEN a ELSE b
Greater(a, b) == IF a = NaN THEN b ELSE IF b = NaN \/ b <= a THEN a ELSE b

\* Mutant: the accumulator starts at zero.
FromZero(a, n) == IF op = "Min" THEN Lesser(IF a = None THEN 0 ELSE a[1], n)
                  ELSE Greater(IF a = None THEN 0 ELSE a[1], n)

MoreExtreme(a, n) ==
  IF a = None THEN n
  ELSE IF op = "Min" THEN Lesser(a[1], n) ELSE Greater(a[1], n)

ExtremeRow ==
  /\ ReadRow({"Min", "Max"})
  /\ acc' = IF Matches THEN <<MoreExtreme(acc, Here.n)>> ELSE acc
  /\ UNCHANGED answer

\* Welford::observe.  One NaN makes all of them NaN.
\* Mutant: both factors are deviations from the old mean.
ObservedWithOldMean(w, x) ==
  LET delta == Minus(Fraction(x, 1), w.mean)
  IN  [n |-> w.n + 1, mean |-> Plus(w.mean, DividedBy(delta, w.n + 1)),
       m2 |-> Plus(w.m2, Times(delta, delta)),
       squares |-> w.squares + x * x, nan |-> FALSE]

Observed(w, x) ==
  LET delta == Minus(Fraction(x, 1), w.mean)
      mean == Plus(w.mean, DividedBy(delta, w.n + 1))
      delta2 == Minus(Fraction(x, 1), mean)
  IN  [n |-> w.n + 1, mean |-> mean, m2 |-> Plus(w.m2, Times(delta, delta2)),
       squares |-> w.squares + x * x, nan |-> FALSE]

StatsRow ==
  /\ ReadRow({"Stats"})
  /\ acc' = IF ~Matches THEN acc
            ELSE IF acc.nan \/ Here.n = NaN THEN [acc EXCEPT !.n = @ + 1, !.nan = TRUE]
            ELSE Observed(acc, Here.n)
  /\ UNCHANGED answer

DistinctRow ==
  /\ ReadRow({"Distinct"})
  /\ acc' = IF Matches THEN acc \cup {Here.n} ELSE acc
  /\ UNCHANGED answer

MedianRow ==
  /\ ReadRow({"Median"})
  /\ acc' = IF Matches THEN Append(acc, Here.n) ELSE acc
  /\ UNCHANGED answer

\* cmp_non_null_values has no answer for values of two types.
\* Mutant: a row that equals the best replaces it.
BeatsOrEquals(a, b) ==
  a.type = b.type /\ (IF op = "ArgMax" THEN a.n >= b.n ELSE a.n <= b.n)

Beats(a, b) ==
  a.type = b.type /\ (IF op = "ArgMax" THEN a.n > b.n ELSE a.n < b.n)

ArgRow ==
  /\ ReadRow({"ArgMax", "ArgMin"})
  /\ acc' = IF /\ Here.type # "Null"
               /\ acc # None => Beats(Here, acc[1].cell)
            THEN <<[row |-> row + 1, cell |-> Here]>> ELSE acc
  /\ UNCHANGED answer

\* The buckets of the HashMap: how often each value has occurred.
CountRow ==
  /\ ReadRow({"TopK"})
  /\ acc' = IF Here.type = "Null" THEN acc
            ELSE IF Here \in DOMAIN acc THEN [acc EXCEPT ![Here] = @ + 1]
            ELSE acc @@ (Here :> 1)
  /\ UNCHANGED answer

(* After the loop.                                                         *)

\* sort_by with partial_cmp.unwrap_or(Equal): an order without NaN; with it,
\* the sort may leave the values in any order, or panic.
Reordered(s) ==
  {[i \in 1..Len(s) |-> s[p[i]]] : p \in SetToSeqs(1..Len(s))}
Sorted(s) ==
  IF \E i \in 1..Len(s) : s[i] = NaN THEN Reordered(s)
  ELSE {SortSeq(s, LAMBDA a, b : a < b)}

Middle(s) ==
  LET half == Len(s) \div 2
  IN  IF Len(s) % 2 = 1 THEN Fraction(s[half + 1], 1)
      ELSE Fraction(FloatSum(s[half], s[half + 1]), 2)

\* value_sort_key, compared as text: the sign comes before the digits of an
\* integer; the bits of a negative float are above those of the others.
Prefix == [Float64 |-> 1, Int64 |-> 2, Utf8 |-> 3]
SortKey(c) ==
  LET negative == c.n < 0 /\ c.type # "Utf8"
  IN  <<Prefix[c.type],
        IF negative = (c.type = "Float64") THEN 1 ELSE 0,
        IF negative THEN -c.n ELSE c.n>>
KeyBefore(p, q) ==
  \E i \in 1..3 : p[i] < q[i] /\ \A j \in 1..(i - 1) : p[j] = q[j]

\* Mutant: ties are left in the order of the HashMap.
ByCount(a, b) == acc[a] > acc[b]

MoreFrequent(a, b) ==
  \/ acc[a] > acc[b]
  \/ acc[a] = acc[b] /\ KeyBefore(SortKey(a), SortKey(b))

\* The k first of the buckets, which the HashMap yields in any order.
TopKs ==
  {LET s == SortSeq(order, MoreFrequent)
   IN  [i \in 1..Lesser(K, Len(s)) |->
          [cell |-> s[i], count |-> acc[s[i]]]]
     : order \in SetToSeqs(DOMAIN acc)}

StatsAnswer ==
  IF acc.n = 0 THEN Null
  ELSE Value([n |-> acc.n, nan |-> acc.nan, mean |-> acc.mean,
              squares |-> acc.squares,
              population |-> DividedBy(acc.m2, acc.n),
              sample |-> IF acc.n < 2 THEN None
                         ELSE <<DividedBy(acc.m2, acc.n - 1)>>])

Answers ==
  CASE op \in {"Sum", "Min", "Max"}
         -> {IF acc = None THEN Null ELSE Value(acc[1])}
    [] op = "Stats" -> {StatsAnswer}
    [] op = "Distinct" -> {Value(Cardinality(acc))}
    [] op = "Median"
         -> IF acc = None THEN {Null} ELSE {Value(Middle(s)) : s \in Sorted(acc)}
    [] op \in {"ArgMax", "ArgMin"} -> {Value(acc)}
    [] op = "TopK" -> {Value(t) : t \in TopKs}

Finish ==
  /\ answer = Running /\ ~NeedsNoLoop /\ row = Len(column.cells)
  /\ \/ answer' \in Answers
     \/ /\ op = "Median" /\ \E i \in 1..Len(acc) : acc[i] = NaN
        /\ answer' = Panic
  /\ UNCHANGED <<op, column, checks, row, acc>>
-----------------------------------------------------------------------------
ReduceNext ==
  \/ AnswerAtOnce \/ SumRow \/ ExtremeRow \/ StatsRow \/ DistinctRow
  \/ MedianRow \/ ArgRow \/ CountRow \/ Finish

ReduceSpec == ReduceInit /\ [][ReduceNext]_reduceVars
-----------------------------------------------------------------------------
ReduceTypeOK ==
  /\ op \in Ops /\ column.cells \in Seq(Cell)
  /\ row \in 0..Len(column.cells)
  /\ answer.is \in {"running", "none", "null", "panic", "value"}
  /\ (op = "Sum" /\ column.type = "Int64" /\ acc # None) => InI64(acc[1])

\* The values of a column that a numeric reduction looks at, by row.
Rows == 1..Len(column.cells)
Values == {i \in Rows : column.cells[i].type = column.type}
N(i) == column.cells[i].n
Total(S) == FoldSet(LAMBDA i, sum : sum + N(i), 0, S)
HasNaN == \E i \in Values : N(i) = NaN
Returned(S) == op \in S /\ answer.is = "value"

(***************************************************************************)
(* A sum that fits in an i64 is returned, also when one of its partial     *)
(* sums does not fit, unless the build checks overflow and panics: it      *)
(* panics for a partial sum, so for some orders of the rows only.          *)
(***************************************************************************)
SumIsExact ==
  LET upto(i) == {j \in Values : j <= i}
  IN  /\ Returned({"Sum"}) /\ ~HasNaN =>
           IF column.type = "Int64"
           THEN /\ (answer.value - Total(Values)) % I64 = 0
                /\ InI64(Total(Values)) => answer.value = Total(Values)
           ELSE answer.value = Total(Values)
      /\ op = "Sum" => (answer = Panic <=>
           checks /\ column.type = "Int64" /\ row > 0
             /\ \E i \in Values : i <= row /\ ~InI64(Total(upto(i))))
      /\ op = "Sum" /\ answer = Null /\ column.type \in Numeric => Values = {}

(***************************************************************************)
(* Min and Max are the least and the greatest number of the column (NaN    *)
(* only if there is nothing else), and the median lies in the middle: the  *)
(* mean of the value at half of the column from below and from above       *)
(* (docs/REDUCE_AGG_SEMANTICS.md: "average of the two middle               *)
(* order-statistics").                                                     *)
(***************************************************************************)
OrderStatistics ==
  LET numbers == {N(i) : i \in {j \in Values : N(j) # NaN}}
      below(x) == Cardinality({i \in Values : N(i) < x})
      upto(x) == Cardinality({i \in Values : N(i) <= x})
      at(place) == CHOOSE x \in numbers : below(x) <= place /\ place < upto(x)
      n == Cardinality(Values)
  IN  /\ Returned({"Min", "Max"}) =>
           IF numbers = {} THEN answer.value = NaN
           ELSE /\ answer.value \in numbers
                /\ \A x \in numbers : IF op = "Min" THEN answer.value <= x
                                                    ELSE answer.value >= x
      /\ Returned({"Median"}) /\ ~HasNaN =>
           Equals(answer.value,
                  Fraction(at((n - 1) \div 2) + at(n \div 2), 2))
      /\ op = "Median" /\ answer = Panic => HasNaN

(***************************************************************************)
(* Welford's single pass returns the mean and the variances that their     *)
(* definitions over the whole column give, and the sum of squares.         *)
(***************************************************************************)
StatsAreExact ==
  LET n == Cardinality(Values)
      sum == Total(Values)
      squares == FoldSet(LAMBDA i, s : s + N(i) * N(i), 0, Values)
      v == answer.value
  IN  /\ Returned({"Stats"}) /\ ~HasNaN =>
           /\ v.n = n /\ v.squares = squares
           /\ Equals(v.mean, Fraction(sum, n))
           /\ Equals(v.population, Fraction(n * squares - sum * sum, n * n))
           /\ IF n = 1 THEN v.sample = None
              ELSE Equals(v.sample[1],
                          Fraction(n * squares - sum * sum, n * (n - 1)))
      /\ Returned({"Stats"}) => (v.nan <=> HasNaN)

Better(a, b) == IF op = "ArgMax" THEN a.n > b.n ELSE a.n < b.n
AllNull(n) == \A i \in 1..n : column.cells[i].type = "Null"
IsFirstBest(best, n) ==
  /\ best.row \in 1..n /\ best.cell = column.cells[best.row]
  /\ best.cell.type # "Null"
  /\ \E f \in 1..best.row :
       column.cells[f].type = best.cell.type /\ AllNull(f - 1)
  /\ \A i \in 1..n : column.cells[i].type = best.cell.type =>
       /\ ~Better(column.cells[i], best.cell)
       /\ i < best.row => Better(best.cell, column.cells[i])

(***************************************************************************)
(* arg_max_row and arg_min_row return the first row that attains the       *)
(* maximum or minimum among the values of the type of the first non-null   *)
(* cell ("for the first row attaining the maximum (stable tie-break)").    *)
(***************************************************************************)
FirstBestRow == op \in {"ArgMax", "ArgMin"} =>
  IF acc = None THEN AllNull(row) ELSE IsFirstBest(acc[1], row)

(***************************************************************************)
(* top_k_by_frequency counts each value exactly, leaves out none that is   *)
(* more frequent than one it returns, and returns ties in one order        *)
(* whatever the order of the HashMap: nothing that is left out, or later,  *)
(* comes before.  CountDistinctNonNull counts the values that occur.       *)
(***************************************************************************)
FrequenciesAreExact ==
  LET present == {column.cells[i] : i \in {j \in Rows : column.cells[j].type # "Null"}}
      count(c) == Cardinality({i \in Rows : column.cells[i] = c})
      first(a, b) == \/ count(a) > count(b)
                     \/ count(a) = count(b) /\ KeyBefore(SortKey(a), SortKey(b))
      top == answer.value
      listed == {top[i].cell : i \in 1..Len(top)}
  IN  /\ Returned({"TopK"}) =>
           /\ Len(top) = Lesser(K, Cardinality(present))
           /\ listed \subseteq present
           /\ \A i \in 1..Len(top) :
                /\ top[i].count = count(top[i].cell)
                /\ \A j \in 1..(i - 1) : first(top[j].cell, top[i].cell)
                /\ \A c \in present \ listed : first(top[i].cell, c)
      /\ Returned({"Distinct"}) =>
           answer.value = Cardinality({N(i) : i \in Values})

(***************************************************************************)
(* What a reduction answers is what its definition over the whole column   *)
(* gives: the four properties above, of which each names its reductions.   *)
(***************************************************************************)
ReduceIsExact == SumIsExact /\ OrderStatistics /\ StatsAreExact /\ FrequenciesAreExact
=============================================================================
