SPECIFICATION Spec
CONSTANTS
  MsgBits = 4  CrcBits = 2  CrcPadding = 1
  Div <- MCDiv  Checks <- MCChecks  GenSys <- MCGenSys
  Costas <- MCCostas  Half = 2
  OsdDepth = 2  OsdLdpcThresh = 3
  OsdThresh <- MCOsdThresh
  Hash <- MCHash
  Texts <- MCTexts  Book <- MCBook  Meant <- MCMeant
  Noises <- MCNoises  Hints <- MCHints
INVARIANTS HeardAsSent TextAsTyped NamesAsMeant OsdFinds
