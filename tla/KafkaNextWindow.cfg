SPECIFICATION StreamSpec
CONSTANTS
  Partitions = {"p1", "p2"}
  PartitionOf <- TwoPartitions
  Setups <- WindowStream
  QueueLimit = 2
  MaxRecords = 2
  MaxExports = 2
  MaxFaults = 1
INVARIANT WindowIsNext
