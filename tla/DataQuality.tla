---------------------------- MODULE DataQuality ----------------------------
(***************************************************************************)
(* src/validation, src/profiling and src/outliers: reports on one column   *)
(* of a lazy frame, each made by a few collects of it.  A cell is <<>> for *)
(* Null or <<n>>; of a text only its length and its identity matter, and n *)
(* is both.  Polars' aggregates are taken for what they compute; their     *)
(* types are not: a limit is an IdxSize, of IdxSize values.                *)
(***************************************************************************)
EXTENDS Integers, Sequences, SequencesExt, FiniteSets, FiniteSetsExt, Functions

CONSTANTS
  Validations,  \* [column, type, cells, checks, max]
  Profiles,     \* [type, cells, sampling, quantiles], in per mille
  Detections,   \* [cells, sampling, method, bound, max]
  IdxSize       \* row indexes: 2^32 in the build

ReportCells == {cells \in Seq(Seq(Int)) : \A i \in 1..Len(cells) : Len(cells[i]) <= 1}
ReportTypes == {"Int64", "Float64", "Bool", "Utf8"}
ReportChecks ==
  [kind : {"not_null", "unique"}, column : STRING, severity : Nat]
    \cup [kind : {"range", "length"}, column : STRING, severity : Nat, min : Int, max : Int]
    \cup [kind : {"regex"}, column : STRING, severity : Nat, matches : SUBSET Int,
          valid : BOOLEAN, strict : BOOLEAN]
    \cup [kind : {"in_set"}, column : STRING, severity : Nat,
          values : Seq([type : ReportTypes \cup {"Null"}, n : Int])]
Samplings == {s \in Seq(Nat) : Len(s) <= 1}

ASSUME QualityAssumption ==
  /\ IdxSize \in Nat \ {0}
  /\ \A job \in Validations :
       job \in [column : STRING, type : ReportTypes, cells : ReportCells,
               checks : Seq(ReportChecks), max : Nat]
  /\ \A job \in Profiles :
       job \in [type : ReportTypes, cells : ReportCells, sampling : Samplings,
               quantiles : Seq(Nat)]
  /\ \A job \in Detections :
       job \in [cells : ReportCells, sampling : Samplings, method : {"zscore", "iqr", "mad"},
               bound : Nat, max : Nat]

VARIABLE report  \* [kind, job, at, counts, results, answer]

NonNulls(cells) == FlattenSeq(cells)
FirstOf(seq, n) == SubSeq(seq, 1, Min({n % IdxSize, Len(seq)}))

\* filter: the rows at the places where a predicate is true.
Only(seq, places) ==
  FlattenSeq([i \in 1..Len(seq) |-> IF i \in places THEN <<seq[i]>> ELSE <<>>])

\* Sorted by rank.
Rank(values, i) ==
  Cardinality({j \in 1..Len(values) :
    values[j] < values[i] \/ (values[j] = values[i] /\ j <= i)})
Ascending(values) ==
  [k \in 1..Len(values) |-> values[CHOOSE i \in 1..Len(values) : Rank(values, i) = k]]

\* Mutant: Head is not applied.
AllRows(cells, sampling) == cells

\* limit(n as IdxSize); Full is <<>>.
Sampled(cells, sampling) ==
  IF sampling = <<>> THEN cells ELSE FirstOf(cells, sampling[1])

Requested(kind, jobs) ==
  \E job \in jobs :
    report = [kind |-> kind, job |-> job, at |-> 0, counts |-> <<>>, results |-> <<>>,
              answer |-> "none"]
QualityInit ==
  \/ Requested("validate", Validations)
  \/ Requested("profile", Profiles)
  \/ Requested("outliers", Detections)

Job == report.job
Reporting(kind, at) == report.kind = kind /\ report.at = at /\ report.answer = "none"
ReportError(error) == report' = [report EXCEPT !.answer = error]
-----------------------------------------------------------------------------
(* validate_frame.                                                         *)

\* values_to_series: of the first value's type, and only the values of that
\* type; Float64 and Null make an empty set of texts, nothing one of Int64.
SetType(values) ==
  IF values = <<>> THEN "Int64"
  ELSE IF values[1].type \in {"Int64", "Bool"} THEN values[1].type ELSE "Utf8"
InSetValues(values) ==
  {values[i].n : i \in {j \in 1..Len(values) :
     values[j].type = values[1].type /\ values[1].type \notin {"Float64", "Null"}}}

\* What the one select of all the counts cannot compute.
Uncountable(chk) ==
  \/ chk.column # Job.column
  \/ chk.kind = "range" /\ Job.type = "Utf8"
  \/ chk.kind = "regex" /\ ~chk.valid /\ chk.strict
  \/ chk.kind = "in_set" /\ SetType(chk.values) # Job.type

\* Predicates on Null are Null, which neither sum nor filter takes; so is a
\* pattern that is not valid.  The length of Null is 0.
RowFails(chk, cell) ==
  \/ chk.kind = "not_null" /\ cell = <<>>
  \/ chk.kind = "range" /\ cell # <<>> /\ (cell[1] < chk.min \/ cell[1] > chk.max)
  \/ chk.kind = "regex" /\ cell # <<>> /\ chk.valid /\ cell[1] \notin chk.matches
  \/ chk.kind = "in_set" /\ cell # <<>> /\ cell[1] \notin InSetValues(chk.values)
  \/ chk.kind = "length" /\
       LET len == IF cell = <<>> THEN 0 ELSE cell[1] IN len < chk.min \/ len > chk.max
FailingRows(chk, cells) == {i \in 1..Len(cells) : RowFails(chk, cells[i])}

FailCount(chk, cells) ==
  IF chk.kind = "unique" THEN Len(NonNulls(cells)) - Cardinality(Range(NonNulls(cells)))
  ELSE Cardinality(FailingRows(chk, cells))

\* Mutant: the limit is taken before the filter.
LimitedFirst(chk, cells, max) ==
  LET first == FirstOf(cells, max) IN Only(first, FailingRows(chk, first))

\* collect_examples: filter, then limit; none for duplicates.
Examples(chk, cells, max) == FirstOf(Only(cells, FailingRows(chk, cells)), max)

CountFailures ==
  /\ Reporting("validate", 0)
  /\ \/ /\ \E i \in 1..Len(Job.checks) : Uncountable(Job.checks[i])
        /\ ReportError("engine error")
     \/ /\ ~\E i \in 1..Len(Job.checks) : Uncountable(Job.checks[i])
        /\ report' = [report EXCEPT !.at = 1,
             !.counts = [i \in 1..Len(Job.checks) |-> FailCount(Job.checks[i], Job.cells)]]

ReportCheck ==
  /\ report.kind = "validate" /\ report.at \in 1..Len(Job.checks)
  /\ LET chk == Job.checks[report.at]
         failed == report.counts[report.at]
     IN  report' = [report EXCEPT !.at = @ + 1,
           !.results = Append(@,
             [check |-> chk, failed |-> failed,
              examples |-> IF failed > 0 /\ Job.max > 0 /\ chk.kind # "unique"
                           THEN Examples(chk, Job.cells, Job.max) ELSE <<>>])]

Summarize ==
  /\ Reporting("validate", Len(Job.checks) + 1)
  /\ LET failing == {i \in 1..Len(report.results) : report.results[i].failed > 0}
     IN  report' = [report EXCEPT !.answer = "ok",
           !.counts = <<Cardinality(failing),
                        Max({0} \cup {Job.checks[i].severity : i \in failing})>>]
-----------------------------------------------------------------------------
(* profile_frame.                                                          *)

\* The alias of a quantile has its percentage, rounded.
Alias(q) == (q + 5) \div 10

\* QuantileMethod::Nearest, with the rank from 0; halves go up.
NearestRank(n, q) == ((n - 1) * q * 2 + 1000) \div 2000

Quantile(values, q) ==
  IF values = <<>> THEN <<>>
  ELSE <<Ascending(values)[NearestRank(Len(values), q) + 1]>>

\* Polars refuses two columns of one name; a text column has no quantiles, and
\* its options are not looked at.
ProfileFrame ==
  /\ Reporting("profile", 0)
  /\ LET sample == Sampled(Job.cells, Job.sampling)
         values == NonNulls(sample)
         qs == Job.quantiles
         numeric == Job.type = "Int64"
     IN  \/ /\ numeric /\ \E i \in 1..Len(qs) : qs[i] \notin 0..1000
            /\ ReportError("schema error")
         \/ /\ numeric /\ \A i \in 1..Len(qs) : qs[i] \in 0..1000
            /\ \E i, j \in 1..Len(qs) : i # j /\ Alias(qs[i]) = Alias(qs[j])
            /\ ReportError("engine error")
         \/ /\ numeric =>
                 /\ \A i \in 1..Len(qs) : qs[i] \in 0..1000
                 /\ \A i, j \in 1..Len(qs) : Alias(qs[i]) = Alias(qs[j]) => i = j
            /\ report' = [report EXCEPT !.at = 1, !.answer = "ok",
                 !.counts = <<Len(sample), Len(sample) - Len(values),
                              Cardinality(Range(values))>>,
                 !.results = IF ~numeric THEN <<>>
                             ELSE [i \in 1..Len(qs) |-> Quantile(values, qs[i])]]
-----------------------------------------------------------------------------
(* detect_outliers_frame.  Medians are doubled to stay integers.           *)

TwiceMedian(values) ==
  LET s == Ascending(values)
      n == Len(values)
  IN  s[(n + 1) \div 2] + s[(n \div 2) + 1]
Sum(values) ==
  LET upto[i \in 0..Len(values)] == IF i = 0 THEN 0 ELSE upto[i - 1] + values[i]
  IN  upto[Len(values)]
Magnitude(n) == IF n < 0 THEN -n ELSE n

\* What one collect computes: <<>> where Polars answers Null.
FirstStatistics(method, values) ==
  LET n == Len(values)
      total == Sum(values)
  IN  CASE method = "zscore" ->
             IF n < 2 THEN <<>>
             ELSE <<total, n * Sum([i \in 1..n |-> values[i] * values[i]]) - total * total>>
        [] method = "iqr" -> Quantile(values, 250) \o Quantile(values, 750)
        [] method = "mad" -> IF n = 0 THEN <<>> ELSE <<TwiceMedian(values)>>

\* Mutant: `s > 0.0` and `d > 0.0` are not asked.
AnySpread(spread) == TRUE

HasSpread(spread) == spread > 0

\* 0.0 / 0.0 is NaN, and Polars has NaN above every number.
Exceeds(numerator, denominator, bound) ==
  IF denominator = 0 THEN TRUE ELSE numerator > bound * denominator

\* bound: the square of the z-score threshold, 2k of the IQR fences, and the
\* MAD threshold.  0.6745 is 6745 / 10000; counts holds 4 times the MAD.
IsOutlier(method, stats, n, bound, x) ==
  /\ stats # <<>>
  /\ \/ /\ method = "zscore" /\ HasSpread(stats[2])
        /\ LET d == n * x - stats[1]
           IN  Exceeds(d * d * (n - 1), n * stats[2], bound)
     \/ /\ method = "iqr"
        /\ LET reach == bound * (stats[2] - stats[1])
           IN  2 * x < 2 * stats[1] - reach \/ 2 * x > 2 * stats[2] + reach
     \/ /\ method = "mad" /\ HasSpread(stats[2])
        /\ Exceeds(6745 * 2 * Magnitude(2 * x - stats[1]), 10000 * stats[2], bound)

Sample == Sampled(Job.cells, Job.sampling)

ComputeStatistics ==
  /\ Reporting("outliers", 0)
  /\ report' = [report EXCEPT !.at = 1,
       !.counts = FirstStatistics(Job.method, NonNulls(Sample))]

\* The second pass of MAD, over the same sample.
ComputeMad ==
  /\ Reporting("outliers", 1) /\ Job.method = "mad" /\ report.counts # <<>>
  /\ LET values == NonNulls(Sample)
         off == [i \in 1..Len(values) |-> Magnitude(2 * values[i] - report.counts[1])]
     IN  report' = [report EXCEPT !.at = 2, !.counts = Append(@, TwiceMedian(off))]

\* The filter runs twice: for the count, and for the examples.
CountOutliers ==
  /\ \/ Reporting("outliers", 1) /\ (Job.method # "mad" \/ report.counts = <<>>)
     \/ Reporting("outliers", 2)
  /\ LET values == NonNulls(Sample)
         outliers == Only(values, {i \in 1..Len(values) :
           IsOutlier(Job.method, report.counts, Len(values), Job.bound, values[i])})
     IN  report' = [report EXCEPT !.at = 3, !.answer = "ok",
           !.counts = <<Len(Sample), Len(outliers)>>,
           !.results = IF Len(outliers) > 0 /\ Job.max > 0
                       THEN FirstOf(outliers, Job.max) ELSE <<>>]

QualityNext ==
  \/ CountFailures \/ ReportCheck \/ Summarize \/ ProfileFrame
  \/ ComputeStatistics \/ ComputeMad \/ CountOutliers

QualitySpec == QualityInit /\ [][QualityNext]_report
-----------------------------------------------------------------------------
Over(kind) == report.kind = kind /\ report.answer = "ok"

\* A check by its own words, for a value that is there.
Obeys(chk, v) ==
  /\ chk.kind \in {"range", "length"} => v \in chk.min..chk.max
  /\ chk.kind = "regex" => chk.valid /\ v \in chk.matches
  /\ chk.kind = "in_set" =>
       \E i \in 1..Len(chk.values) :
         chk.values[i].n = v /\ chk.values[i].type = Job.type

(***************************************************************************)
(* Counts and examples come from two queries, and agree: the examples of a *)
(* check are rows that break it, as many as fail or as asked for (while    *)
(* that is an IdxSize).  A pass is a fact: the values obey the check, are  *)
(* there where they must be, and do not repeat; the summary has the worst  *)
(* severity of those that failed.  Two checks are not what they say: a set *)
(* mixed of types, of which validate_frame keeps the first, and a regex    *)
(* that is not valid, which no row fails (see InvalidRegexFails).          *)
(***************************************************************************)
VerdictsHold == Over("validate") =>
  /\ \A k \in 1..Len(report.results) :
       LET r == report.results[k]
           values == Range(NonNulls(Job.cells))
           plain ==
             /\ r.check.kind = "in_set" =>
                  \A i \in 1..Len(r.check.values) : r.check.values[i].type = Job.type
             /\ r.check.kind = "regex" => r.check.valid
       IN  /\ (r.check.kind # "unique" /\ Job.max < IdxSize) =>
                Len(r.examples) = Min({r.failed, Job.max})
           /\ \A i \in 1..Len(r.examples) :
                /\ Contains(Job.cells, r.examples[i])
                /\ IF r.examples[i] = <<>> THEN r.check.kind \in {"not_null", "length"}
                   ELSE plain => ~Obeys(r.check, r.examples[i][1])
           /\ (plain /\ r.failed = 0) =>
                /\ \A v \in values : Obeys(r.check, v)
                /\ r.check.kind = "not_null" => ~Contains(Job.cells, <<>>)
                /\ r.check.kind = "unique" => IsInjective(NonNulls(Job.cells))
           /\ (r.check.kind = "regex" /\ ~r.check.valid) => r.failed = 0
  /\ \A k \in 1..Len(report.results) :
       report.results[k].failed > 0 => report.results[k].check.severity <= report.counts[2]
  /\ report.counts[2] > 0 => report.counts[1] > 0

(***************************************************************************)
(* The option `strict` of a regex: "If true, invalid regex patterns become *)
(* errors; if false, invalid regex evaluates to false."                    *)
(* (src/validation/mod.rs:64): every text fails the check.                 *)
(***************************************************************************)
InvalidRegexFails == Over("validate") =>
  \A k \in 1..Len(report.results) :
    LET r == report.results[k]
    IN  (r.check.kind = "regex" /\ ~r.check.valid) => r.failed = Len(NonNulls(Job.cells))

(***************************************************************************)
(* A profile describes the first rows that were asked for, and no others:  *)
(* each quantile it lists is one of their values, with no more of them     *)
(* below it, and no more above it, than its rank says, though the values   *)
(* were read back by an alias that two quantiles may share.  Holds while   *)
(* the sample's size is an IdxSize.                                        *)
(***************************************************************************)
QuantilesAreOwn ==
  Over("profile") /\ (Job.sampling = <<>> \/ Job.sampling[1] < IdxSize) =>
  LET rows == IF Job.sampling = <<>> THEN Len(Job.cells)
              ELSE Min({Job.sampling[1], Len(Job.cells)})
      there == {i \in 1..rows : Job.cells[i] # <<>>}
  IN  /\ report.counts[1] = rows
      /\ report.counts[2] = rows - Cardinality(there)
      /\ report.counts[3] = Cardinality({Job.cells[i] : i \in there})
      /\ \A k \in 1..Len(report.results) :
           LET v == report.results[k]
               below == {i \in there : Job.cells[i][1] < v[1]}
               above == {i \in there : Job.cells[i][1] > v[1]}
               q == Job.quantiles[k]
               n == Cardinality(there)
           IN  IF n = 0 THEN v = <<>>
               ELSE /\ v # <<>> /\ \E i \in there : Job.cells[i] = v
                    /\ 2000 * Cardinality(below) <= 2 * (n - 1) * q + 1000
                    /\ 2000 * Cardinality(above) <= 2 * (n - 1) * (1000 - q) + 1000

(***************************************************************************)
(* Outliers are the exception, whatever the column: outside the fences, or *)
(* above a MAD score of 1, are at most half of its values; of n fewer      *)
(* than (n - 1) / t^2 are more than t standard deviations off; and a       *)
(* column whose values are all the same has none, though its spread is     *)
(* zero.  The examples are the first of them.                              *)
(***************************************************************************)
OutliersAreFew ==
  Over("outliers") /\ (Job.sampling = <<>> \/ Job.sampling[1] < IdxSize) =>
  LET values == NonNulls(Sample)
      n == Len(values)
      count == report.counts[2]
  IN  /\ Job.method = "iqr" \/ (Job.method = "mad" /\ Job.bound >= 1) => 2 * count <= n
      /\ Job.method = "zscore" /\ count > 0 => count * Job.bound < n - 1
      /\ Cardinality(Range(values)) <= 1 => count = 0
      /\ Job.max < IdxSize => Len(report.results) = Min({count, Job.max})
      /\ \A i \in 1..Len(report.results) : Contains(Sample, <<report.results[i]>>)
=============================================================================
