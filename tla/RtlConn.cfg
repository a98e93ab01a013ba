SPECIFICATION Spec
CONSTANTS
  Hosts <- MCHosts
  Hf <- MCHf
  Vhf <- MCVhf
  MaxRetunes = 2
  MaxFaults = 3
INVARIANT TunedAsAsked
PROPERTIES Reconnects DestructorEnds
