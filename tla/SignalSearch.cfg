SPECIFICATION SearchSpec
CONSTANTS
  Inputs <- MCInputs
  NThreads = 4
  MinHz = 150
  MaxHz = 3600
CHECK_DEADLOCK FALSE
INVARIANTS InRange ReportedWhereFound Covered
