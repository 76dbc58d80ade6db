SPECIFICATION Spec
CONSTANTS
  Threads = {t1, t2}
  Addrs = {a1, a2}
  MaxOutstanding = 2
  MallocFails = FALSE
  Sig = Sig
  NULL = NULL
INVARIANT KillReachesAll
