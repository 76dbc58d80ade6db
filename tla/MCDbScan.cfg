SPECIFICATION SSpec
CONSTANTS
  a = a  b = b  kc = kc  x = x  y = y  z = z
  p1 = p1  p2 = p2  p3 = p3
  Procs = {p1, p2, p3}
  Keys = {a, b, kc}
  Vals = {x, y, z}
  Hash <- MCHash
  KeyLen <- MCKeyLen
  DatLen <- MCDatLen
  NHASH = 2
  PtrMax = 99
  MaxRecs = 4
  MaxCalls <- ScanMax
  Calls <- ScanCalls
  Preload <- ScanPreload
  CrashAt <- NoPoints
  NoKey = NoKey  NoVal = NoVal  Nobody = Nobody
  Scanners = {p1}
INVARIANTS
  FreeListExclusion
  RecordsKept
PROPERTY ScanComplete
