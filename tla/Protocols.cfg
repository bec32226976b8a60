SPECIFICATION ProtocolsSpec
CONSTANTS
  Callers = {c1, c2, c3, c4}
  MaxPermits = 2
  Loads <- SafeLoads
  MaxFailures = 2
  MaxCrashes = 2
  Partitions = {"p1", "p2"}
  PartitionOf <- TwoPartitions
  Setups <- Streams
  QueueLimit = 2
  MaxRecords = 2
  MaxExports = 2
  MaxFaults = 1
INVARIANTS
  PermitConservation
  SleepersAreMatched
  NothingSkipped
  TakenOnce
  ObserverFollows
  OkIsSettled
  CommittedIsLanded
PROPERTIES
  ImplementsCountingSemaphore
  EverythingTaken
  EverythingLanded
