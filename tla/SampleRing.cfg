SPECIFICATION Spec
CONSTANTS
  Kinds <- MCKinds
  N = 4
  Requests <- MCRequests
  MaxChunk = 2
  MaxFed = 6
INVARIANTS TypeOK RingInv NothingLost T0ExactWhenQuiet T0Error EveryTurnIsPaid
PROPERTIES ImplementsQueue
