SPECIFICATION IqSpec
CONSTANTS
  Kinds = {"hpsdr", "sdrip", "cloud"}
  Latest = {0, 1}
  Requests = {1, 2}
  Size = 2
  MaxSeq = 2
  Word = 16
  Rate <- MCRate
  IqRate <- MCIqRate
  Cap = 4
  MaxSent = 6
INVARIANTS OldestFirst InStep T0Right
