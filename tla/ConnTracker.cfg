CONSTANTS
  Capacity = 2
  MaxAge = 1
  MaxConns = 4
  MaxTime = 3
SPECIFICATION Spec
INVARIANTS RecordedOnce ActiveHasOwner HistoryIsRecent
PROPERTIES ListedIsFresh ImplementsHistory
