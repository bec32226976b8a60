--------------------------- MODULE MCKafkaStream ---------------------------
EXTENDS KafkaStream, TLC

\* Rows 1 and 3 have keys of the first partition, row 2 of the second.
TwoPartitions == (1 :> "p1") @@ (2 :> "p2") @@ (3 :> "p1")

Setup(h, r, n, b) ==
  [host |-> h, reset |-> r, rows |-> n, bad |-> b]

\* A host with a consumer, whose records all parse, do not all parse, or come
\* from a DataSet that is larger than the queue; and the other host and reset.
Streams ==
  {Setup("consumer", "earliest", 2, {}), Setup("consumer", "earliest", 2, {2}),
   Setup("consumer", "earliest", 3, {}), Setup("consumer", "latest", 2, {}),
   Setup("windows", "earliest", 2, {}), Setup("windows", "latest", 1, {}),
   Setup("windows", "latest", 0, {})}

\* A host of poll_kafka_window with the defaults of KafkaConsumerBuilder.
WindowStream == {Setup("windows", "earliest", 2, {})}
=============================================================================
