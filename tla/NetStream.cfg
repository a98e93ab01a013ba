SPECIFICATION Spec
CONSTANTS
  RawLayout <- MCRawLayout
  Layouts <- MCLayouts
  AcceptErrors = TRUE
  MaxRead = 5
CHECK_DEADLOCK FALSE
INVARIANTS RightUnlessKept StoredAtRingRate
