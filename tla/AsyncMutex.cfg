\* The lock with four coroutines: the queue holds up to three waiters while a
\* fourth holds the lock (no symmetry: it is unsound for liveness).
CONSTANTS
  c1 = c1
  c2 = c2
  c3 = c3
  c4 = c4
  Clients = {c1, c2, c3, c4}
  None = None

SPECIFICATION FairSpec

INVARIANT LockSafety
PROPERTY ImplementsFifoLock
PROPERTY LockGranted
PROPERTY ShutdownReturns
