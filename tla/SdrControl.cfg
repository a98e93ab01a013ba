SPECIFICATION Spec
CONSTANTS
  Kinds = {"cloud", "sdrip"}
  Main = main
  p = p
  q = q
  Others <- MCOthers
  None = None
CHECK_DEADLOCK FALSE
PROPERTIES CallsReturn ImplementsItems
