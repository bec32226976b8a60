# TLA+ specifications of rust-data-processing

Specifications of the stateful parts of this repository, checked with TLC on
small instances and, for the core, proved with TLAPS for all of them.
`PROJECT.json` lists the components, the runs, the line of the source each
definition stands for, the hazards the properties are about, the findings and
the theorems. Paths in this file are relative to the repository.

## 1. The system

`rust-data-processing` is a library that loads files, database queries and
Kafka records into an in-memory `DataSet`, processes them (in parallel, with
Polars, with SQL) and writes them out. A Python extension and a JVM library
wrap it. Most of the code is sequential and keeps no state between calls; the
parts below do, or run concurrently, or have effects that outlast a call.

| Component | State | Operations | Hard behaviour |
| --- | --- | --- | --- |
| Semaphore (`src/execution/semaphore.rs`) | a counter under a `Mutex`, a `Condvar` | `acquire`, `release` | lost and spurious wakeups, overtaking |
| Execution engine (`src/execution/mod.rs`) | a rayon pool, shared metrics; per call a semaphore, chunks and outputs | `filter_parallel`, `map_parallel`, `reduce` | stealing, throttling, panics with a permit held, overlapping calls |
| Execution metrics (`src/execution/observer.rs`) | nine atomics | `begin_run`, `on_chunk_start`, `on_chunk_end`, `on_throttle_wait`, `on_row_processed`, `end_run`, `snapshot` | races on the maximum, torn snapshots, resets under running chunks |
| Incremental ingestion (`src/ingestion/unified.rs`, `watermark.rs`, `observability.rs`) | none of its own: the caller's floor, the files, the observer | `ingest_from_path`, `ingest_from_ordered_paths` | failures in a batch, checkpoints, ties, NaN, truncation, repeated calls |
| JVM pipeline run (`bindings/jvm-sys/src/pipeline_run.rs`) | tables, files and objects of its sinks | `rdp_run_pipeline_json` | partial effects, deadlines between stages, retries, crashes |
| Kafka streams (`src/kafka/`) | the producer's queue, a consumer's position | `export_dataset_to_kafka`, `poll_kafka_window`, `elt_load_kafka_records` | lost acknowledgements, uncommitted offsets, discarded and duplicated records |
| Python bindings (`python-wrapper/src/`) | the GIL, one error cell per engine call | `filter_parallel`, `map_parallel`, `reduce`, `DataSet(schema, rows)`, `to_rows` | callbacks and hooks that take the GIL, a mutex taken under it, which of several errors is raised |
| JVM bindings and Java API (`bindings/jvm-sys/src/`, `bindings/java/`) | slices of native memory, temporary files | the ingestion, export and Kafka entries, `fromRdpJsonRoot` | who frees a slice, truncated answers, files shared by clock reading, deletion before or after Spark has the rows |
| File transfer, object store (`src/ingestion/file_transfer.rs`, `object_store.rs`) | temporary files, in a directory all calls share | one download and load, or one export and upload | temporary names from the clock, failures half-way, files left behind |
| Reductions (`src/processing/reduce.rs`, `multi.rs`) | an accumulator per call | `reduce`, `feature_wise_mean_std`, `arg_max_row`, `arg_min_row`, `top_k_by_frequency` | overflow, NaN, ties, empty and null columns, the order of a `HashMap` |
| Readers (`src/ingestion/{csv,json,parquet,excel,xml}.rs`) | a place in the file | with a schema, or with one that is inferred (Excel) | which cell an error names, repeated headers, sheets, casts that lose a value |
| Partition discovery (`src/ingestion/partition.rs`) | a walk | hive, scan, glob, explicit list | directories in any order, entries that cannot be read |
| Transforms (`src/transform.rs`, `src/pipeline/mod.rs`) | a lazy plan | `TransformSpec::apply`, `arrow_interop` | errors seen late, renames that swap, steps that collect in between |
| Validation, profiling, outliers | none | reports made of several queries | queries that disagree, aliases, zero spread |
| Database reads, `filter`, `map`, SQL, privacy, export | none | one query, or a pure function | data only |
| Change data capture (`src/cdc/mod.rs`) | none | an interface only | none |

How they interact: a call of the engine makes a semaphore, updates the
engine's metrics from every chunk, and calls the observer and the caller's
closure. A pipeline run calls the ingestion of ordered paths, object stores,
file transfers and database reads, hands the rows to Polars, and writes sink
after sink. The observers of ingestion are called synchronously.

What makes each of them correct:

* semaphore: permits are conserved, nobody sleeps beside a free permit;
* engine: at most `max_in_flight_chunks` chunks of a call execute, the result
  is that of a sequential loop, a call ends, its report is about itself;
* metrics: `active_chunks` and `max_active_chunks` are exact whatever the
  interleaving of their atomics, a snapshot is about one run;
* ingestion: a saved floor leaves no row behind, no row is returned twice, the
  observer is told what happened;
* pipeline run: the answer says what the sinks hold, loads are whole, nothing
  is written by a request that is over its budget, a retry works;
* Kafka streams: `Ok` accounts for every row, no record is committed that has
  not landed, all of them land;
* temporary files: a call reads back what it fetched, whatever earlier calls
  left under the name it chose, and leaves nothing unless it fails;
* nested calls: one that hangs does so only where a thread buried itself;
* Python: a call answers with what its callbacks made of each row or raises one
  of their errors, and ends;
* JVM: each slice is freed once, each file is deleted or accounted for, a floor
  never makes a host take a row twice, Spark gets the rows that were sent;
* readers, discovery, XML: the rows are those of the file, an error names the
  first bad cell, the sequence of files is one whatever the directory yields;
* transforms: a specification that succeeds has done every step to the column it
  names; a dataset goes through Arrow and Python unchanged;
* reports: verdicts, quantiles and outliers are true of the rows they are about;
* reductions: what a single pass accumulates is what the definition of the
  statistic over the whole column says.

## 2. Modules

| Module | Models | Uses |
| --- | --- | --- |
| `CountingSemaphore` | what a semaphore promises: a caller that wants a permit gets one | |
| `SemaphoreOps` | the semaphore's state as a record, and `acquire` and `release` as operators on it | |
| `Semaphore` | one semaphore and its callers; implements `CountingSemaphore` | `SemaphoreOps` |
| `Chunks` | `chunk_ranges` in closed form | |
| `ChunkRanges` | the loop of `chunk_ranges` in `usize` arithmetic | `Chunks` |
| `ExecutionEngine` | calls on one engine, thread by thread | `SemaphoreOps`, `Chunks` |
| `ExecutionMetrics` | every atomic operation on the metrics | |
| `Watermark` | filter, truncation and maximum over rows | |
| `OrderedIngest` | a caller that loads files incrementally | `Watermark` |
| `PipelineRun` | one pipeline request and its sinks, submitted repeatedly | |
| `KafkaStream` | an export to a topic, and a host that polls and lands its windows | |
| `Reductions` | the loops of the reductions over one column, row by row | |
| `TemporaryFiles` | downloads and exports that share a temporary directory | |
| `NestedCalls` | calls of the engine from its own closures, with the stack of each thread | `SemaphoreOps` |
| `PythonEngine` | calls of the engine from Python | |
| `Readers` | the readers of the formats, row by row or column by column | |
| `XmlRecords` | the XML export and the XML reader, event by event | |
| `PathDiscovery` | the four ways to a list of files | |
| `TransformPlan` | a transform specification over a lazy plan | |
| `DataQuality` | validations, profiles and outlier reports of a column | |
| `Interchange` | a dataset from Python rows or Arrow batches to Python rows | |
| `JvmCalls` | calls of a JVM, their slices and temporary files, and Spark | |
| `MC...` | the instances TLC checks, of several modules side by side where those share nothing | |
| `Induction` | induction over naturals, recursive functions and joined sequences, for the proofs | |
| `...Proofs` | the theorems about the module of that name (`AlgorithmProofs`: about `ChunkRanges`, `Reductions`, `Interchange`, `TransformPlan` and `DataQuality`; `IngestionProofs`: `Readers`, `XmlRecords`, `PathDiscovery` and `OrderedIngest`; `SharedCountersProofs`: `Semaphore` and `ExecutionMetrics`; `CallsProofs`: `TemporaryFiles`, `JvmCalls` and `PythonEngine`) | |

A definition marked *Mutant* is a plausible bug in the one below it and is used
by nothing; `PROJECT.json` lists for each property the mutants it catches. The
parts of `MCParts`, `MCProtocols`, `MCAlgorithms`, `MCExecutionEngine` and
`MCFiles` share no state: an initial state chooses one of them, and the others
stay over.

### Semaphore

A caller's phase is `out`, `entering` (in `acquire`, on its way to the mutex,
for the first time or after a wakeup), `waiting` (in `Condvar::wait`) or
`holding`; `waited` says who has slept.
The body of `acquire` between two releases of the mutex is one step, since the
mutex is held; `Condvar::wait` is where it is split. `release` increments and
notifies one waiter, any of them, if there is one. `SpuriousWakeup` wakes a
waiter for no reason. The same operators are the semaphore of each call in
`ExecutionEngine`, so what is proved of one is about the code of the other.

### Execution engine

A thread of the pool is at one place of the closure of
`filter_parallel_impl`: `acquire`, `start`, `rows`, `release`, or between two
chunks. `map_parallel` has the same control and keeps every row; a mapper's
assertion is a closure that panics. rayon is modelled as it is used: a parallel
iterator is a job that may be split in the middle any number of times, idle
threads take jobs, a thread folds the chunks of its job in order, a panic drops
the rest of that job and is resumed when the other jobs of the call have ended.
A call that is made or ends needs a thread of the pool that is not blocked.
A row is its index; what the closure does with it is part of the input. A
`setup` is an engine with its options, the calls that are made on it, and how
many of them at once.

### Execution metrics

One step for each atomic operation, in the source's order, because the
counters use no lock. `update_max_usize` is a load, a comparison and a
compare-exchange that may fail. The monitor loads the fields of a snapshot one
by one. Calls follow one another here; overlapping calls are in
`ExecutionEngine`, where the resets of `begin_run` are one step.

### Ingestion

The producer, the files and the caller are outside the repository; the caller
does what the documentation tells it to: lists the files that are there, loads
them, uses the rows, saves `max_watermark_value`. A file's rows are watermark
cells: null, finite, or non-finite. The model assumes, and names as
`ProducerAssumption`, that later files have later watermarks; without it a
strict floor cannot be complete.

### Pipeline run

The call's locals are a record, and the sinks' tables a variable of their own
that survives calls and crashes. A statement sent to a database is one step,
which may fail before or after its effect. PostgreSQL's `COPY` and Oracle's
transaction show their rows at the end, SQL Server's inserts show each row.
Delta, Databricks, Snowflake's stage and object stores are one kind (`staged`:
a put that replaces), the Spark handoff and local files another (`handoff` and
`file`, of which the first fails softly and the second fails the call), Iceberg
and cloud Delta warehouses a third (`pending`). Of Snowflake it is the put to
the stage that is modelled, not the `COPY INTO` after it, and of a Delta table
in local files the put, not the staging. The row budget is compared with the
rows of all the sources, as in the code. Validation errors are one flaw
of the request that names the stage. What the transform computes is the number
of rows a sink is given.

### Kafka streams

The broker, librdkafka and the host are outside the repository. A topic is a
set of logs, the messages that librdkafka holds a set, and each delivery, lost
acknowledgement (the message is then delivered again, or given up) and timeout
a step. `Send` is an iteration of the loop of `export_dataset_to_kafka`;
`Answered` is its return, which drops the producer and what it still holds.
A window is polled record by record (`Poll`) and ends at any time
(`EndWindow`), since its 15 seconds may pass before the group has assigned a
partition (`Assign`). A host calls `poll_kafka_window` (`"windows"`: a new
consumer each time, nothing is ever committed), or `poll_window` on a consumer
of its own that it commits after the window has landed (`"consumer"`). Both
start again with a new consumer when a call fails, as `?` does in the
documented loops; a host that kept its consumer after a poll error would skip
the records the error discarded.

### Reductions

A reduction is one loop: `AnswerAtOnce` for what is decided before it (no such
column, a count, a numeric reduction of strings), an action for each loop that
takes the next row, and `Finish`. A cell is a type and a number, which for a
string is its place in the order of the strings; a cell may have another type
than its column, since `DataSet::new` does not compare them. An `i64` has `I64`
values, and a sum that leaves them wraps, or panics if the build checks
overflow. Floats do not round: sums are integers and Welford's mean and `m2`
are fractions. `NaN` is a number above the others, as `total_cmp` has it, that
`f64::min` and `max` step over, and in whose presence `sort_by` may leave any
order, or panic. The mean, both variances, both deviations, the sum of squares
and the norm are one accumulator here (`Stats`); square roots are left out.

### Temporary files

A call chooses a name from a clock reading, fetches, creates the file or
truncates the one of that name, writes piece by piece, reads by name, removes
by name; an export also uploads what it read. Files are known by their creator,
and `dir` says which file a name stands for, so that two calls may write one
file and a call may remove the name of a file another has open. The clock may
read the same twice. Nothing in the code prevents two calls that use one name
at the same time from mixing their files; `AnswersAreOwn` excepts exactly
those (`shared`).

### Nested calls

The pool is that of `ExecutionEngine`, but a thread has a stack: while it waits
for a half of its job that another has stolen it runs other jobs on top of what
it has begun, as rayon's `join` does, and a call from a closure runs on top of
its chunk. Each call has its own semaphore. Nobody is woken for no reason here,
so a state without a next one is a hang, and `NestedHangIsBuried` says which
ones there are: a thread inside a nested call has stolen a chunk of the outer
call and waits for a permit, and the permits are all with chunks whose nested
calls wait for threads that wait like it.

### Python engine

The engine is abstract: any thread takes any row, once. A call detaches from the
GIL, callbacks and hooks attach, an error goes into the call's cell under a
mutex. A callback that fails stands for all its ways to fail (it raises, or what
it returns does not convert). Storing an error drops the one before, and its
destructors may let go of the GIL (`DropSwitches`, which nothing obliges to
happen): then the mutex is held by a thread that waits for the GIL, and
`PythonCallsEnd` excepts exactly the deadlock that this can be.

### Readers, XML, discovery

A table is a header and rows of kinds of cells, and a value that is read is the
place of its cell, so that a property can say which cell it came from. A CSV
record that is malformed or has too many or too few fields, and a JSON row that
is not an object, are no row (`IsRecord`), and their errors name no column. A
sheet may have empty rows on top (`blank`), which calamine leaves out of the
range it gives, so that neither the rows nor their numbers in errors see them.
A JSON field is one by its name: the dotted paths into an object are left out. The CSV
and JSON readers from text and the Excel reader go row by row; CSV, JSON and
Parquet files go through Polars column by column. The schema inference is that
of Excel, column state by column state. XML is the sequence of events that
`quick_xml` writes and reports; an escaped character is an event of its own. A
path is a sequence of names, a directory is read in any order, and an entry may
be unreadable or missing.

### Transforms and interchange

A column is its name, type, origin, history and kinds of cells. A lazy step
replaces the plan's columns; a name that is not there or a cast that fails is
`pending` until the plan is collected, by a masking step or at the end, while a
null literal or a masked column of another type is an error at once. `Interchange`
gives each cell an identity: it goes from Python (through PyO3's conversions, in
the order the code tries them) or from Arrow batches to a dataset, through a
record batch and back. Where nothing is collected Polars may or may not notice a
failing column that was dropped (`lost`). Two input columns of one name are
refused, and a literal in a frame whose columns were all dropped has one row or
as many as there were.

### Data quality

Each report is a few collects over the rows of one column: a count and then
examples for a check, a sample and then quantiles by alias for a profile,
statistics, a predicate, a count and examples for outliers. Numbers are small
integers and comparisons of fractions are cross-multiplied; a standard deviation
is compared squared. `IdxSize` is the number of row indexes, to which limits are
cut.

### JVM calls

A thread of the host goes through its call: the strings are decoded, JSON is
parsed, the library acts, an answer of the kind `dataset` is cut to `max_rows`
or a temporary file named by the clock is written, the slice is written to `out`
(which may be null), read and freed by the host, and Spark may read the file or
a CSV of the dataset, cache it and delete the file. The CSV does not keep what
the dataset says: Spark takes the first line for the header, skips the lines
that are empty (a Null or an empty text alone in its row), reads an empty text
as Null and infers the type of a column, so that texts that all look like
numbers, booleans or times come back as those (`ThroughCsv`, `InferredAs`); quotes and line ends within a cell are left out. A null pointer
where the Excel entry wants a string is undefined behaviour, which
`InvocationsAssumption` rules out; the Java side never passes one. Two threads may choose one
name: `shared` says so, and the properties except exactly those calls.

## 3. Runs

| Run | Instance | What it shows |
| --- | --- | --- |
| `parts` | `chunk_ranges`: all rows to 15, all chunk sizes of a `usize` of 32 values; reductions: every column of up to 3 or 4 cells, an `i64` of 8 values, `K = 2`; specifications of up to 2 of 16 steps or 3 of 6, 4 inputs, 4 output schemas; columns of up to 3 cells with 2 of 12 checks, of 4 with 5 lists of quantiles, of 5 for outliers; trips of 2 columns (of one name or two) and 2 rows, or of 2 batches; 31 pipeline requests (every option of every database; mixed sinks; refused requests), 3 attempts, 2 faults; metrics of 2 threads and a monitor, 2 runs of 2 chunks of 2 rows | each sequential part computes its definition; a pipeline's answers are true, loads are whole, refused requests write nothing, PostgreSQL and SQL Server load on every attempt; the peak is exact, snapshots no reset overlaps are consistent |
| `protocols` | 4 callers, 2 permits; 5 histories of up to 3 files, 2 failing loads, 2 crashes; 2 partitions, 2 exports of up to 3 rows with a queue of 2, windows of 2, 1 fault, 7 setups | permits are conserved, no wakeup is lost, refinement of `CountingSemaphore` with its liveness (more waiters than permits, two of each, are enough for a wakeup to be overtaken or to go to the wrong one); nothing skipped, nothing repeated without a crash, everything taken in the end, the observer follows; `Ok` accounts for each row; whatever is committed has landed; a host with its own consumer lands everything |
| `engine` | 3 threads, 2 permits, 2 calls of up to 3 chunks in turn; 2 threads, 1 permit, 2 calls at once with overflow checks; 7 nestings of up to 4 chunks and 3 threads; 2 calls from Python with up to 3 rows on 3 threads | sequential output, permits accounted for, exact report of calls in turn, calls that hang only once panics took every permit; nested calls that hang only where a thread is buried; true answers in Python, and calls that end |
| `engine_mapper_panic` | 1 permit, a mapper that fails on one or two chunks | violated: the call hangs (finding) |
| `ingest_max_rows` | 2 files, `max_rows = 1` | violated: the batch truncates before it filters (finding) |
| `pipeline_oracle` | every option of every database, no faults | violated: Oracle does not (finding) |
| `pipeline_budget` | a refused request of `parts` with paths and another source, no faults | violated: the budget counts both (finding) |
| `files` | tables of up to 3 rows and 3 columns in 6 formats, 2 sheets; 2 XML rows; trees of up to 4 of 7 entries in every order, lists of up to 3 of them; 3 transfers of 5 kinds, 2 clock readings, sources of up to 2 pieces; 2 JVM threads, 25 invocations, 2 clock readings | rows are those of the file, errors name the first bad cell, an inferred schema reads its file, XML reads back words, discovery is one sequence, leftovers never reach an answer and come from failures only; slices and files do not leak, floors and Spark's rows are true |
| `excel_first_sheet` | the Excel tables of `files` | violated: `First` reads every sheet (finding) |
| `excel_row` | the Excel tables of `files` | violated: the row an error names is not the sheet's (finding) |
| `validation_regex` | the checks of `parts` | violated: an invalid pattern fails no row (finding) |
| `kafka_next_window` | a host of `poll_kafka_window` with the default options, the bounds of `protocols` | violated: the second window is the first again (finding) |

Deadlock is checked except where a system may stop: when the calls of an
engine instance are made and have ended or hang, when a sequential part has
returned, when a file has been read or a transfer or a call of the JVM is over,
when the attempts of a pipeline request are used up.

Bounds: `MaxRuns`, `Chunks`, `Rows` (metrics), `MaxFailures`, `MaxCrashes`
(ingestion), `MaxAttempts`, `MaxFaults`, `MaxRow` (pipeline), `MaxPermits`
(semaphore), `MaxRows`, `Word` (chunk ranges), `MaxThreads`, `Word` (engine), `I64`, `K`
(reductions), `IdxSize` (data quality), `MaxListed` (discovery: how many paths
a caller lists, some twice), `MaxParts`, `Stamps` (temporary files),
`Clock`, `DefaultCap` (JVM), `QueueLimit`,
`MaxRecords`, `MaxExports`, `MaxFaults` (Kafka). Three
attempts are a first load, a load onto its result, and one onto what a failed
or crashed second left. Three calls are one that leaves a file and two that may
share its name; columns of three cells have a partial sum that overflows and a
total that does not, a tie, a NaN between numbers. Nested calls can hang from two
threads on, with fewer permits than chunks: the nestings have both, and each of
them alone. Three rows that fail at once on three threads are one error that is
stored, one that replaces it and one that waits for the mutex. Two faults are a failure and another one in the retry.

Fairness. `Semaphore`: a caller that runs goes on, one that holds a permit
gives it back. `CountingSemaphore` promises only what this gives: `std`'s
mutex is not fair, so a particular waiter may be overtaken for ever, but some
waiter gets each free permit. `ExecutionEngine`: a thread that can take a step
does (the operating system schedules it), and the thread that made the call
does; callers need not call and the condition variable need not wake anybody by
itself. `PythonEngine`: the operating system runs every thread, and one that
waits for the GIL gets it when it is free; no destructor need run Python.
`OrderedIngest`: the caller goes on calling; files need not arrive and
nothing has to fail. `KafkaStream`: the host goes on, and a partition that can
be assigned or polled window after window is (strong fairness: any one window
may time out, not all of them). The other modules have no liveness property.

## 4. Findings

1. A closure that panics, and a mapper that returns a row of the wrong length,
   keep their permit: with all of them gone the call hangs.
2. `ingest_from_ordered_paths` applies `max_rows` to each file before the
   watermark filter: an incremental caller stops making progress.
3. The Oracle sink's `create_table_if_missing` fails when the table is there,
   and `truncate_before_load` drops the table: without
   `create_table_if_missing` nothing creates it again. A `DROP` that fails is
   ignored, and the rows are then added to the old ones while the result says
   `ok` (`AnswerIsTrue` names that case).
4. A loop around `poll_kafka_window` does not get on: each call makes a
   consumer, none is committed, and `build` is not public, so every window
   starts at `auto.offset.reset` again.
5. `ExcelSheetSelection::First`, the default, reads every sheet.
6. `max_ingested_rows` of a pipeline request is documented as a cap on the rows
   of ordered paths; the code counts the rows of every source, so a request
   whose paths stay below it may be refused. `SinksAreSound` speaks of what the
   code counts, `BudgetIsOfPaths` of what is documented.
7. The row in an error of an Excel workbook is called Excel-like, but counts
   from the first row that has a cell: with an empty row above the header it is
   that of another row (`ErrorNamesSheetRow`; `ErrorIsFirst` says which).
8. A regular expression that does not compile passes every row of a check that
   is not strict, which is documented to evaluate to false: every value would
   fail (`InvalidRegexFails`; `VerdictsHold` excepts exactly these checks, and
   says that they have no failing row).

Noted while modelling, without a run of their own:

* `max_in_flight_chunks` bounds each call, not the engine: each call makes a
  semaphore.
* Calls that overlap on one engine share and reset one set of metrics, so a
  `RunFinished` snapshot can be about another call (`ReportIsExact` holds of
  calls in turn only). With overflow checks, `active_chunks` wraps below zero
  and the next chunk panics with its permit held (`PermitsAccountedFor` allows
  for it).
* `export_dataset_to_kafka` returns `Ok` also when messages timed out, although
  its module calls it at-least-once: `flush` waits for the queue to be empty and
  does not tell why it is. It never polls between two sends, so a dataset above
  librdkafka's `queue.buffering.max.messages` always fails, with some of its
  rows delivered. `OkIsSettled` states what an `Ok` does mean.
* A closure that calls its own engine can hang it (`NestedHangIsBuried` says
  when), and so can an error that is dropped under the mutex of the error cell
  while another thread takes the GIL (`DeadlockedByDrop`).
* A character that XML escapes is lost when the file is read, and splits its
  text: the reader skips references, and joins the texts of a field by a space. A
  field called `record` ends its row.
* A CSV, JSON or Parquet file read through Polars is cast without strictness: a
  text in a number column becomes null, where the readers from text refuse it.
  An error about a column of such a file always names the first row.
* `DataFrame::reduce` answers 0 for the sum of a column that is all null,
  as Polars does; its doc comment says null.
* `Head(n)` and the number of examples are cut to 32 bits. Two
  quantiles that round to one percentage share an alias.
* An ordered answer of the JVM that is cut to `max_rows` names the floor of the
  whole batch: a host that saves it never gets the rest, unless it compares
  `returned_row_count` with `total_row_count`.
* `RdpSparkMaterializer` does not know the kinds of the temporary files of
  ordered paths: it throws, and the file stays. It also stays when Spark fails.
  Spark infers types from the CSV it is given of a dataset: texts that look like
  numbers, booleans or times become those, an empty text becomes Null, and of a single
  column the rows that are Null or empty are lost (`SparkGetsItsRows` says what
  is left). A cell with a line break is not one cell of that CSV.
* A dataset with two columns of one name comes back from Arrow with the first of
  them twice. An int past 64 bits becomes a float on its way in from Python.

## 5. Proofs

`SharedCountersProofs` is about two modules. First `Semaphore`, for any number
of callers and permits. The invariant is `SemaphoreTypeOK`, conservation (free
permits plus holders are the total) and `SleepersAreMatched`: if somebody waits, each
free permit has an awake caller. The last is what makes the proof go: `release` gives one permit and one
notification together, and a caller that takes a permit without having been
notified leaves an awake one that will find none and wait again. From it follow
that nobody sleeps beside a free permit unattended (`NoWakeupIsLost`) and that
every step is a step or a stutter of `CountingSemaphore` (`Implementation`).
Assumption: the set of callers is finite.

Then `ExecutionMetrics`, for any number of threads, chunks, rows and runs that
follow one another. `PeakIsRecorded` is not inductive: while a thread is
in `update_max_usize` the maximum may lag. `PeakIsCarried` says that the
maximum is the peak or some thread in the update still carries the peak, and
`CasIsAbove` that a thread exchanges only a smaller value; a thread that fails
its exchange loads again. `ActiveIsCounted` counts threads between two program
points, and `ClearedInOrder` that `begin_run` has reset both counters before a
chunk starts. `UntornSnapshot` compares two loads of one snapshot between which
the threads go on: `ChunksAreCounted` says what is counted and what is still to
come of a run (rows, chunks started, chunks finished), and `SoFar` what each
load bounds of the loads before it, in the order of the source: rows before
chunks, so that the rows seen are never more than the chunks seen can have.

`ExecutionEngineProofs`, for any number of calls, threads, permits, rows and
chunk sizes, at once or in turn, with or without panics. The invariant `IInv`
says that each chunk of a call is in one place (`OnePlace`, `SomePlace`: in a
job, with a thread, done, or dropped by a panic), that its phase in the
semaphore of its call is the one of that place (`PhasesFollow`), that permits
are conserved (`Conserved`, by the lemmas of `SemaphoreOps`), that what a chunk
let through is what a sequential loop adds between its first row and the next
one it looks at (`PartsAreSequential`), and, for calls in turn, that each
counter is the cardinality of a set of chunks or rows (`CountsAreExact`). From
it follow `PermitsAccountedFor`, `OutputIsSequential` (the outputs of the chunks
join to the whole loop since `Chunks` leaves neither gap nor overlap) and
`ReportIsExact`. Assumptions: options are positive (`ExecutionEngine::new`
asserts it), and `usize` has more values than the pool has threads.

`IngestionProofs` is about the way in.

* `Readers`, for tables of any size, every format and every schema. The invariant
  `ReadersIInv` says of each row read so far which row of which sheet it is, and
  of each field which cell of its first column of that name (`ReadSoFar`); where
  the reading stands (`PhasesInOrder`); that a field of a file that is read by
  columns has its column (`ColumnsAreThere`); and of the inference that each type
  holds every cell seen so far (`TypesHold`), which what has been observed keeps
  when another cell comes (`ObservedHolds`), so that a workbook is read with the
  schema inferred from it (`SchemaHolds`). `FirstErrorIsTold` also needs that
  where a row fails no row before it did (`NothingBefore`). It tells the row as the code counts it, in the used
  range of a sheet: that this is not the sheet's own row is finding 7. Assumption:
  a file has the cells of its format, in rows as long as the header but for
  CSV records and JSON rows that are none.
* `XmlRecords`, for any number of rows and fields, fields of one name and
  characters that XML escapes among them, and every schema. The document is one
  flat sequence; the invariant `XmlIInv` cuts it where the reader stands: before
  the root, between two records, between two fields of a record, or between two
  texts of a field (`Located`), and each of the four says what has been collected
  from the document before that place. From the place follows the next event
  (`RowsLayout`, `FieldsLayout` and `TextsLayout` say what lies behind which
  prefix), and from the event what the reader does. The last field of a record
  closed, the texts it has under a name are the words that were written there
  (`WrittenShape`, `CollectedGrows`). Assumption: an element has a name, and no
  event is an empty text.
* `PathDiscovery`, for every tree, in whatever order its entries come. A walk has
  found exactly the wanted paths among the entries that came (`FoundSoFar`). That
  the answer is one sequence is then a fact about sorting: the order on paths is
  total (`BeforeIsTotal`), a finite set of paths has an ordered sequence without
  repetitions (`OrderExists`, by induction on its size) and only one
  (`OrderedOnce`). Assumption: a tree is a finite set of entries with distinct
  paths.
* `OrderedIngest`, for every list of files and rows, every `max_rows`, and any
  number of failures and crashes.

In the last, `NothingSkipped` and `TakenOnce` speak of
the floor a caller saved; what makes them inductive is the batch between the
floor and the answer: it holds every row between the floor and its maximum
(`BatchIsComplete`), none at or below the floor (`BatchIsAbove`), and its maximum
is a row's (`MaximumIsReached`), so that a floor is always the watermark of a row
that has arrived (`FloorIsArrived`), which by `ProducerAssumption` is below
every file that has not. `NothingIsSkipped` is about loads that `max_rows`
cannot cut below their maximum (`Resumable`: without `max_rows`, or of one file
in order); the run `ingest_max_rows` shows that another load does stop.
`ObserverKeepsUp` uses neither assumption.

`PipelineRunProofs`, for every request, any number of attempts, faults and
crashes. `SinksInv` says of each sink what its table is while the call is
before it (`Rest`: as before the call), at it (`Current`: for each statement of
each kind of sink, what the table holds then) and past it (`Done`: what its
result says), and of the rows what stage has read them (`Reading`, by induction
over the sources). `AnswerIsTrue`, `SinksAreSound` and `PostgresAndMssqlLoad`
follow. Assumption: a request is one that parses to the types of the code.

`CallsProofs` is about the calls that share something with other calls.

* `TemporaryFiles`, for any number of calls, names and parts. A name is a reading
  of the clock, so two calls may get one. `NamesStay`: whatever file a name has,
  the call that created it had that name. `SharedIsSeen`: two calls with one name
  know it. `Owns`: the file of a call that shares its name with nobody has what
  that call wrote, and stays until it removes it. Assumption: "no file" is not
  the name of a call.
* `JvmCalls`, for any number of threads, every invocation and every clock. What a
  call has follows from where it is (`StageFollows`, `EnvelopeFollows`,
  `ArgumentsAreRead`); `OneName` and `FileIsThere` are to its temporary files
  what `SharedIsSeen` and `Owns` are to those of transfers. `NothingLeaks` needs
  that the kind of an answer tells the materializer whether there is a file
  (`KindFacts`), and `JvmAnswerIsTrue` that `Floor` is the maximum (`FloorFacts`,
  by induction). `SparkGetsWhatWasRead` follows a dataset through the CSV: which
  rows have a line (`Lines`, a joined sequence of at most one row each), what
  each cell has become, and of which type the column is. Assumption: an invocation has the types of the Java
  declarations, with a mode of its entry.
* `PythonEngine`, for any number of calls and whatever the callbacks do. The
  invariant says of the cell of a call that while it is empty every row made is
  what the callback made of it, and every failure has a thread that waits to
  store it; afterwards the error in it is that of a row that failed, and only
  threads that had looked into the cell before can still fail (`Counts`). So no
  more callbacks fail than there are threads. Assumption: the pool is finite.

`AlgorithmProofs` is about five sequential parts. `LoopIsClosedForm`, for every
row count, chunk size and word: the loop of `chunk_ranges` returns the closed
form used by `ExecutionEngine`. Its only assumption is that a dataset has less
than half as many rows as `usize` has values. `start` is a multiple of the chunk
size or the row count (`AtHead`); past the first chunk the chunk size is
therefore less than the row count, and the addition cannot wrap.
`ArgIsFirstBest`, for every column: `arg_max_row` and `arg_min_row` return the
first of the best rows. The invariant says so of the rows read so far,
which is what the loop keeps: a row that does not beat the best is no better
than it (`BeatsIsBetter`), one that does is better than all before it. A column may hold values of two types, for which `cmp_non_null_values` has
no answer: the best row is the best among the values of the type that the first
non-null cell has, and the invariant says which type that is. Assumption: a
column is a type and a sequence of cells.

`CellsAreKept`, for every schema, any rows and any batches. The invariant
`TripIInv` says of each leg of the trip what has arrived: the dataset is that of
the job (`DatasetIs`), each batch has its columns (`BatchesAre`), the fields are
those of the schema (`FieldsAre`), and what has been read back is what the
batches hold, row by row across them (`ReadIs`). In between are facts about a
single cell: the attempts of PyO3 and of Arrow undo each other
(`ThereAndBack`), and an int of Python's that fits comes back as itself
(`FitsInPython`). Assumption: a job enters with rows or batches of the types the
code can be given.

`SpecsAreApplied`, for every specification, however long, and every input.
`SpecIsApplied` tells the history of an output column backwards, from its name
through the steps that mention it, while the plan goes forwards. What joins them
is `SourceAfter`: the history told after one more step is the history before that
step of the name the column had then, with what the step did at its end. With it
the invariant `PlanHolds` can say that, after any number of steps, each column is
the one its name leads back to (`IsTraced`), that its cells come from those of
the input, Null and texts included (`CellsComeFrom`), and that all columns have
one height. Assumption (`SpecsAssumption`): steps and columns have the types of
the code, an input has at least one column, its columns are of one length, and
no step renames one column twice.

`VerdictsAreTrue`, `QuantilesDescribe` and `OutliersAreRare`, for every column
that a report can be asked of. The invariant `QualityIInv` says of each kind of
report what the queries so far have told: the counts and the results of the
checks before the one at hand (`Validating`), the ranks that were looked up
(`Profiling`), the statistics of the sample (`Detecting`). The rest is about
what the queries mean. Two kinds of checks obey no documented meaning and are
excepted by name: an invalid regex (finding 8), and a set that is mixed of
types, of which `validate_frame` keeps those of the first.

* A filter is a sequence of parts of at most one row (`FlattenFew`), so an example
  has a place in the column where the predicate was true (`OnlyIs`), and a limit
  keeps the first of them (`FirstOfIs`).
* The rank of a value is a bijection on its places (`AscendingIs`): a sorted column
  has every value once, in order. The nearest rank lies in the column
  (`NearestRankIs`), and `QuantileIs` counts the values on either side of it.
* The squares of the deviations add up to the variance; each one beyond `t`
  standard deviations takes its share of the sum, so there cannot be many
  (`DeviantsAreFew`, by induction on prefixes of the sum).
* Below the lower fence there are no more values than below the lower quartile, and
  above the upper one no more than above the upper one (`FencesHold`). A score
  above 1 is a deviation above the median of the deviations, and above a median is
  at most half (`AboveMedian`).

Assumption (`QualityAssumption`): jobs have the types of the code, a cell is
Null or one value, and an `IdxSize` has at least one value.

`KafkaStreamProofs`, for every topic, setup and bound. `CommittedIsLanded` is
not inductive: `GoOn` commits positions. `ReadIsHeld` says that what a living
consumer has read is in its window or has landed; an error or a crash takes the
consumer with the window, so nothing is left that could be committed.
`OkIsSettled` rests on `SentIsKnown`: each message sent is in the queue, in the
topic or expired, and the flush empties the queue. Assumptions: the bounds are
naturals, and each row has a partition.

`Induction` makes induction over data possible with first-order provers: a
property is a set of naturals, a step a function, and what a recursive function
on `0..n` returns follows from `FiniteSetTheorems`. `IngestionProofs`,
`ExecutionEngineProofs`, `PipelineRunProofs`, `CallsProofs` and `AlgorithmProofs`
use it for what `Filtered`, `KeptUpTo`, `RowsOf`, `Floor` and `ToldFrom` return,
and for `FlattenSeq`, of which it says what the parts become.

Only model-checked: `NestedCalls`, and the reductions
but the best row, whose definitions rest on sorting and the
recursive operators of the community modules. Out of the prover's reach: liveness
(`EndsUnlessExhausted`, `PythonCallsEnd`, `EverythingTaken`, `EverythingLanded`,
the liveness half of the semaphore's refinement) and `ENABLED`
(`NestedHangIsBuried`).

## 6. Not modelled

* What Polars, calamine, quick_xml, librdkafka, PyO3 and Spark compute: a parser
  yields cells, an aggregate is taken for what it is. Type inference from CSV,
  JSON and Parquet, `group_by`, `join`, SQL: one expression handed to Polars.
* Database, Snowflake and Delta reads: one query or one staged file, with no
  state between calls.
* The parity entries of the JVM library that run a fixed computation, the
  mirrors of its tests, and the methods of the Python classes that convert their
  arguments and call the library once: no control of their own.
* Dotted paths into the objects of a JSON row: one lookup, of data. Snowflake's
  `COPY INTO`, one more statement after the put that makes it a load, and the
  local staging of a Delta table: what is modelled of both is the put.
* The parsing of specifications and requests, the older request format, and the
  detection of a format from a file name: static validation. A request that is
  refused is refused by one flaw.
* Rebalances of a consumer group, and the order of messages within a partition:
  librdkafka's. What a record's JSON becomes is data: a record parses or not.
* A step that renames one column to two names: what Polars makes of it.
* Rounding: a sum of floats depends on the order of the rows in the code, and
  not in `Reductions`; statistics in `DataQuality` are exact.
* The counters of the metrics in `NestedCalls`: with overflow checks a nested
  call may panic there as overlapping ones do in `ExecutionEngine`.
* URIs, credentials and the protocols of the downloads: a fetch succeeds or
  fails. `filter` and `map` of `src/processing/`: a closure on each row.
* Hashing and redaction (a masking step of `TransformPlan` keeps nulls and marks
  the column), the rendering of reports, the exports of `src/export.rs`.
* Change data capture (types only), examples, benchmarks and scripts.

## 7. Plan

Modelled: everything of section 2; proved: section 5. What is left is a proof:

* `NestedCalls`: a call that ends has run its chunks, and a permit is free, with
  a thread or buried under a nested call.
