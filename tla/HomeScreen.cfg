CONSTANTS
  Ids = {1, 2}
  PageSize = 1
  Loads = {1, 2}
  Posts = {1, 2}
  MaxToasts = 2
SPECIFICATION Spec
INVARIANTS ShownOnce PendingIsInFlight NewestLoadShown
PROPERTIES NothingVanishes NothingLingers
