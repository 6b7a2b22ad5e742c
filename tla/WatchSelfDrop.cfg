\* Two events, and a callback that drops its own handle
CONSTANTS
  NotifyKind = {"Data"}
  MaxEvents = 2
SPECIFICATION FairSpec
\* A live watch waits for events, and a dropped one has nothing left to do
CHECK_DEADLOCK FALSE
PROPERTIES
  NoFurtherCallback
