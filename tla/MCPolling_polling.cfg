\* Ten waits on a resource with a lifecycle of its own.
SPECIFICATION WaitSpec
CONSTANTS
  Gone = "GONE"
  Statuses <- TheStatuses
  Lifecycle <- TheLifecycle
  Waits <- TheWaits
INVARIANTS
  ResultIsEarned
  AtMostOneLatePoll
PROPERTIES
  WaitEnds
  DecidedIsNoticed
