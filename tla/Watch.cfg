\* Three events of every kind, a drop by either thread, every failure
CONSTANTS
  NotifyKind = {"Create", "Data", "Metadata", "Name", "OtherModify", "Remove", "Access", "Any", "Err"}
  MaxEvents = 3
SPECIFICATION FairSpec
\* A live watch waits for events, and a dropped one has nothing left to do
CHECK_DEADLOCK FALSE
INVARIANTS
  DeliveredInOrder
  NoCallbackAfterDrop
PROPERTIES
  WatchStops
  EventsDelivered
