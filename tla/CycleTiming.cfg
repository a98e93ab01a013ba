SPECIFICATION Spec
CONSTANTS
  Passes = 3
  Budget <- MCBudget
  Searches <- MCSearches
  Tries <- MCTries
  Rate = 10
  Naps <- MCNaps
  Slow <- MCSlow
  Lags = {0, 1}
  Outages <- MCOutages
  MaxClock = 500
INVARIANTS NoCycleMissed OncePerCycle NominalNear EndsOnTime LaterPassesHaveTime
