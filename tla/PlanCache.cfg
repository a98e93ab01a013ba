SPECIFICATION Spec
CONSTANTS
  d1 = d1  d2 = d2  tx = tx  d3 = d3
  NoThread = NoThread
  Threads = {d1, d2, tx, d3}
  Parents = {d1, d2, tx}
  Transmitters = {tx}
  Builds <- MCBuilds
  Lengths = {33}
  MaxCalls = 1
INVARIANTS PlannerAlone PlannedOnce
PROPERTY PlansReturned
\* every thread stops after MaxCalls calls
CHECK_DEADLOCK FALSE
