SPECIFICATION Spec
CONSTANTS
  Kinds <- TimedOutKinds
  MaxRows = 1
  PageSize = 1
  MAX_PAGES = 2
  PageLimit = 4
  FETCH_ATTEMPTS = 2
INVARIANTS
  TimeoutFails
