SPECIFICATION FairSpec
CONSTANTS
  Threads = {t1, t2, t3}
  Addrs = {a1, a2, a3}
  MaxOutstanding = 3
  MallocFails = TRUE
  Sig = Sig
  NULL = NULL
INVARIANT EntriesSound
PROPERTY ReturnsWhileAlone
