SPECIFICATION Spec
CONSTANTS
  Kinds <- AllKinds
  MaxRows = 3
  PageSize = 1
  MAX_PAGES = 2
  PageLimit = 4
  FETCH_ATTEMPTS = 2
INVARIANTS
  CompleteOrThrown
  IdsDistinct
  
PROPERTIES
  FetchEnds
