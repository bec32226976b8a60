--------------------------- MODULE MCPipelineRun ---------------------------
EXTENDS PipelineRun

To(kind, create, truncate, absent, rows) ==
  [kind |-> kind, create |-> create, truncate |-> truncate, absent |-> absent,
   rows |-> rows]
ToFile(kind, rows) == To(kind, FALSE, FALSE, TRUE, rows)
From(from, rows) == [from |-> from, rows |-> rows]
Request(flaw, limit, timeout, sources, sinks) ==
  [flaw |-> flaw, limit |-> limit, timeout |-> timeout, sources |-> sources,
   sinks |-> sinks]

TwoSources == <<From("path", 1), From("other", 1)>>

\* Every option of every database, alone.
OneTable ==
  {Request("none", 0, FALSE, <<From("path", 2)>>, <<To(kind, c, t, a, 2)>>) :
     kind \in Databases, c, t, a \in BOOLEAN}

\* Sinks of several kinds one after the other, under a deadline.
SeveralSinks ==
  {Request("none", 2, TRUE, TwoSources,
     <<ToFile("file", 2), To("postgresql", TRUE, TRUE, TRUE, 2), ToFile("staged", 1)>>),
   Request("none", 0, TRUE, TwoSources,
     <<To("mssql", TRUE, FALSE, TRUE, 2), ToFile("pending", 0), ToFile("file", 1)>>),
   Request("none", 0, FALSE, TwoSources,
     <<ToFile("handoff", 2), To("oracle", TRUE, TRUE, TRUE, 2), To("postgresql", FALSE, FALSE, FALSE, 0)>>)}

\* Requests no sink may see.
NotAdmitted ==
  {Request("parse", 0, FALSE, TwoSources, <<ToFile("file", 1)>>),
   Request("ingest", 0, FALSE, TwoSources, <<ToFile("file", 1)>>),
   Request("none", 0, TRUE, <<From("path", 0), From("other", 0)>>, <<ToFile("file", 1)>>),
   Request("none", 1, TRUE, TwoSources, <<ToFile("staged", 1)>>)}

\* A path and another source that together have more rows than the budget.
OverBoth == {Request("none", 1, FALSE, TwoSources, <<ToFile("file", 1)>>)}

AllRequests == OneTable \cup SeveralSinks \cup NotAdmitted
=============================================================================
