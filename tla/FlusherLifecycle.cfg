\* Three handles, the worker and one failing msync; everything ends when the
\* mapping is gone
CONSTANTS
  User = {u1, u2, u3}
  Worker = worker
  MaxFailures = 1
SPECIFICATION FairSpec
CHECK_DEADLOCK FALSE
INVARIANTS
  FlushOnMapped
  FileReturnedAlone
PROPERTIES
  DropReturns
  WorkerStops
  EventuallyDurable
