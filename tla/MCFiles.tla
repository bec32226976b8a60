------------------------------ MODULE MCFiles ------------------------------
(***************************************************************************)
(* What reads and writes files, each on all its inputs: the readers, XML,  *)
(* the discovery of paths, the temporary files of transfers, and the calls *)
(* of a JVM.  They share nothing: one of them runs while the others are    *)
(* over.                                                                   *)
(***************************************************************************)
EXTENDS Readers, XmlRecords, PathDiscovery, TemporaryFiles, JvmCalls, TLC

\* Readers.  A table of up to n rows below the header h, of these kinds.
Tables(n, h, kinds, blanks) ==
  {[blank |-> b, header |-> h, rows |-> r] : b \in blanks,
     r \in UNION {[1..m -> [1..Len(h) -> kinds]] : m \in 0..n}}
F(type_name, type) == [name |-> type_name, type |-> type]
OneField == {<<F("a", t)>> : t \in CellTypes}
TwoFields == {<<F("b", s), F("a", t)>> : s \in {"Int64", "Utf8"}, t \in CellTypes}
Read(format, tables, schemas) ==
  {[format |-> format, text |-> "rows", tables |-> <<t>>, choice |-> "First",
    listed |-> <<>>, schema |-> s] : t \in tables, s \in schemas}
ab == <<"a", "b">>

CsvSources ==
  Read("csv_reader", Tables(2, ab, {"blank", "one", "frac", "word"}, {0}), TwoFields)
    \cup Read("csv_reader", Tables(2, <<"a">>, {"blank", "int", "yes"}, {0}), OneField)
    \cup Read("csv_file", Tables(2, <<"a", "b", "b">>, {"blank", "one", "frac", "word"}, {0}),
              {<<F("b", "Int64"), F("a", "Float64")>>})
    \cup Read("csv_file", Tables(2, ab, {"blank", "one", "frac", "yes"}, {0}), TwoFields)
    \cup Read("csv_reader",
              {[blank |-> 0, header |-> <<"a">>, rows |-> r] :
                 r \in {<<<<"int">>, <<>>>>, <<<<>>>>, <<<<"word">>, <<>>>>}}, OneField)
    \cup UNION {Read(f, Tables(1, <<"c", "a">>, {"int"}, {0}), TwoFields) :
                  f \in {"csv_reader", "csv_file"}}
ColumnSources ==
  Read("json_file", Tables(2, ab, {"null", "int", "numeral", "word"}, {0}), TwoFields)
    \cup UNION {Read("parquet", Tables(2, <<"a">>, {"null"} \cup k, {0}), OneField) :
                  k \in {{"int", "big"}, {"frac"}, {"word"}, {"bool"}}}
    \cup Read("parquet", Tables(1, ab, {"null", "int", "frac", "word", "big"}, {0}), TwoFields)
JsonSources ==
  Read("json_text", Tables(2, <<"a">>, {"null", "text", "bool", "int", "big", "frac", "object"},
                           {0}), OneField)
    \cup Read("json_text", Tables(1, ab, {"null", "text", "int", "absent"}, {0}), TwoFields)
    \cup {[s EXCEPT !.text = text] : text \in {"rows", "empty", "scalar", "bad line"},
            s \in Read("json_text",
                       {[blank |-> 0, header |-> <<"a">>, rows |-> <<<<"text">>, <<>>>>]},
                       {<<F("a", "Utf8")>>})}

\* A missing schema is inferred; two sheets have their columns the other way.
ExcelKinds == {"empty", "bool", "int", "whole", "frac", "numeral", "word", "date"}
TwoSheets ==
  {[format |-> "excel", text |-> "rows", tables |-> <<t, u>>, choice |-> c[1],
    listed |-> c[2], schema |-> s] :
     t \in Tables(1, ab, {"empty", "int"}, {0, 1}),
     u \in Tables(1, <<"b", "a">>, {"int", "word"}, {0}),
     c \in {<<"First", <<>>>>, <<"AllSheets", <<>>>>}
             \cup {<<"Sheets", l>> : l \in {<<>>, <<1>>, <<2>>, <<2, 1>>, <<1, 2, 1>>}},
     s \in {<<>>, <<F("b", "Int64"), F("a", "Utf8")>>}}
ExcelSources ==
  TwoSheets
    \cup Read("excel", Tables(2, <<"a">>, ExcelKinds, {0, 1}), {<<>>} \cup OneField)
    \cup Read("excel", Tables(3, <<"a">>, {"empty", "bool", "int", "frac", "word"}, {0}), {<<>>})
    \cup Read("excel", Tables(2, <<"a", "a">>, {"bool", "frac"}, {0})
                         \cup Tables(1, <<"", "b">>, {"empty", "int"}, {1})
                         \cup Tables(1, <<"">>, {"int"}, {0}), {<<>>})
AllSources == CsvSources \cup ColumnSources \cup JsonSources \cup ExcelSources

\* XML.  Up to two rows under two fields, read back under the same names, in
\* the other order, or with a field that was not written.
XmlCells == {NullCell, NumberCell("1"), TextCell(<<"x">>), TextCell(<<"x", "&", "y">>)}
SomeRecords ==
  {[fields |-> fs, schema |-> s, rows |-> r] :
     fs \in {<<"a", "b">>, <<"a", "a">>, <<"a">>, <<"a", Record>>},
     s \in {<<F("a", t), F("b", "Utf8")>> : t \in {"Int64", "Utf8"}}
             \cup {<<F("b", "Utf8"), F("a", "Utf8"), F("c", "Utf8")>>},
     r \in UNION {[1..m -> [1..2 -> XmlCells]] : m \in 0..2}}

\* Discovery.  1 and 2 are plain names, 3 and 4 of the form key=value.
Entry(path, is_file, matches, readable) ==
  [path |-> path, file |-> is_file, matches |-> matches, readable |-> readable]
SomeEntries ==
  {Entry(<<3, 1>>, TRUE, TRUE, TRUE), Entry(<<3, 4, 1>>, TRUE, TRUE, TRUE),
   Entry(<<3, 2, 1>>, TRUE, TRUE, TRUE), Entry(<<2>>, TRUE, TRUE, TRUE),
   Entry(<<3>>, FALSE, TRUE, TRUE), Entry(<<4, 1>>, TRUE, FALSE, TRUE),
   Entry(<<4, 2>>, TRUE, TRUE, FALSE)}
SomeTrees == {t \in SUBSET SomeEntries : Cardinality(t) <= 4}

CONSTANTS c1, c2, c3

\* Transfers.  A long and a short download that may bear the same name, an
\* export that may bear the name of an object's download, and a format that is
\* refused.
SomeRequests ==
  {[kind |-> "sftp", format |-> "csv", size |-> 2],
   [kind |-> "ftp", format |-> "csv", size |-> 1],
   [kind |-> "object", format |-> "parquet", size |-> 1],
   [kind |-> "export", format |-> "parquet", size |-> 1],
   [kind |-> "object", format |-> "excel", size |-> 1]}
AnyThread == Permutations(Calls) \cup Permutations(JvmThreads)

\* Calls of a JVM: a batch of three rows, whose watermarks are in no order, as
\* every answer it can have; datasets of one column and of texts that look like
\* numbers; and each entry with an argument that is wrong.
CONSTANTS j1, j2
Row(n, text) == [n |-> n, text |-> text]
Batch == <<Row(2, ""), Row(3, "Null"), Row(1, "word")>>
Native(entry, args, rows, mode, cap, spark) ==
  [entry |-> entry, args |-> args, rows |-> rows, mode |-> mode, cap |-> cap,
   wide |-> TRUE, spark |-> spark, out |-> "given", fails |-> FALSE]
Ordered(rows, mode, cap) == Native("ordered", <<"good">>, rows, mode, cap, TRUE)
Correct ==
  {Ordered(Batch, mode, <<>>) : mode \in {"dataset", "parquet", "arrow", "unknown"}}
    \cup {Ordered(Batch, "dataset", <<cap>>) : cap \in {0, 1, 3}}
    \cup {Ordered(<<>>, "dataset", <<>>)}
    \cup {Native("sample", <<>>, <<Row(n, "word")>>, mode, <<>>, spark) :
             n \in {1, 2}, mode \in {"parquet", "polars"}, spark \in BOOLEAN}
    \cup {Native("path", <<"good", "good", "good">>, Batch, "dataset", <<>>, TRUE),
          Native("excel", <<"good", "good">>, Batch, "dataset", <<>>, TRUE)}
    \cup {[Native("load", <<"good", "good">>, rows, "dataset", <<>>, TRUE) EXCEPT !.wide = FALSE] :
             rows \in {Batch, <<Row(1, ""), Row(2, "number")>>}}
Wrong ==
  {Native("path", args, Batch, "dataset", <<>>, FALSE) :
     args \in {<<"null", "good", "good">>, <<"good", "text", "bytes">>, <<"text", "good", "good">>}}
    \cup {Native("export", args, Batch, "dataset", <<>>, FALSE) :
             args \in {<<"good", "good">>, <<"good", "text">>, <<"good", "bytes">>}}
    \cup {Native("load", <<"text", "good">>, Batch, "dataset", <<>>, TRUE),
          Native("excel", <<"good", "bytes">>, Batch, "dataset", <<>>, FALSE),
          Native("poll", <<"good">>, Batch, "dataset", <<>>, FALSE),
          Native("poll_loaded", <<"text", "good">>, Batch, "dataset", <<>>, FALSE)}
SmallInvocations ==
  Correct \cup Wrong
    \cup {[i EXCEPT !.fails = TRUE] : i \in {Ordered(Batch, "arrow", <<>>)}}
    \cup {[i EXCEPT !.out = "null"] :
            i \in {Ordered(Batch, "dataset", <<>>), Ordered(Batch, "parquet", <<>>)}}
-----------------------------------------------------------------------------
NoReading ==
  reading = [source |-> [format |-> "excel", text |-> "rows", tables |-> <<>>,
                         choice |-> "Sheets", listed |-> <<>>, schema |-> <<>>],
             schema |-> <<>>, sheet |-> 1, at |-> 0, phase |-> "done", types |-> <<>>,
             rows |-> <<>>, error |-> NoError]
NoXml ==
  xml = [set |-> [fields |-> <<>>, schema |-> <<>>, rows |-> <<>>], doc |-> <<>>, at |-> 1,
         in_record |-> FALSE, active |-> "", values |-> <<>>, rows |-> <<>>, error |-> FALSE]
NoWalk ==
  walk = [op |-> "scan", tree |-> {}, order |-> <<>>, at |-> 0, found |-> <<>>,
          answer |-> "error"]
NoTransfers ==
  /\ request = [c \in Calls |-> CHOOSE q \in Requests : TRUE]
  /\ at = [c \in Calls |-> "failed"] /\ name = [c \in Calls |-> NoName]
  /\ copied = [c \in Calls |-> 0] /\ got = [c \in Calls |-> <<>>]
  /\ dir = [p \in Paths |-> NoFile] /\ file = [c \in Calls |-> <<>>]
  /\ open = [c \in Calls |-> NoFile] /\ shared = {}
NoJvm ==
  /\ jvm = [t \in JvmThreads |->
              [call |-> Ordered(<<>>, "dataset", <<>>), at |-> "failed", acted |-> FALSE,
               file |-> NoTemp, shared |-> FALSE, answer |-> Failure,
               data |-> Frame(<<>>, "Utf8")]]
  /\ slices = [t \in JvmThreads |-> [made |-> 1, freed |-> 1]] /\ temps = <<>>

Init ==
  \/ ReadersInit /\ NoXml /\ NoWalk /\ NoTransfers /\ NoJvm
  \/ XmlInit /\ NoReading /\ NoWalk /\ NoTransfers /\ NoJvm
  \/ DiscoveryInit /\ NoReading /\ NoXml /\ NoTransfers /\ NoJvm
  \/ FilesInit /\ NoReading /\ NoXml /\ NoWalk /\ NoJvm
  \/ JvmInit /\ NoReading /\ NoXml /\ NoWalk /\ NoTransfers
Next ==
  \/ ReadersNext /\ UNCHANGED <<xml, walk, filesVars, jvmVars>>
  \/ XmlNext /\ UNCHANGED <<reading, walk, filesVars, jvmVars>>
  \/ DiscoveryNext /\ UNCHANGED <<reading, xml, filesVars, jvmVars>>
  \/ FilesNext /\ UNCHANGED <<reading, xml, walk, jvmVars>>
  \/ JvmNext /\ UNCHANGED <<reading, xml, walk, filesVars>>
Spec == Init /\ [][Next]_<<reading, xml, walk, filesVars, jvmVars>>
=============================================================================
