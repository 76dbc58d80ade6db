SPECIFICATION FairSpec
CONSTANTS
  a = a  b = b  kc = kc  x = x  y = y  z = z
  p1 = p1  p2 = p2  p3 = p3
  Procs = {p1, p2}
  Keys = {a, b, kc}
  Vals = {x, y, z}
  Hash <- MCHash
  KeyLen <- MCKeyLen
  DatLen <- MCDatLen
  NHASH = 2
  PtrMax = 5
  MaxRecs = 4
  MaxCalls <- TwoCalls
  Calls <- ChainCalls
  Preload <- ChainPreload
  CrashAt <- CrashPoints
  NoKey = NoKey  NoVal = NoVal  Nobody = Nobody
INVARIANTS
  TypeOK
  LockDiscipline
  ListsSound
  ChainExclusion
PROPERTIES
  ImplementsKVStore
  CallsReturn
