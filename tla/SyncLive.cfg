\* Liveness of one coroutine with composed operations on two io threads.
CONSTANTS
  s = s
  t1 = t1
  t2 = t2
  Coros = {s}
  Threads = {t1, t2}
  Secure = {s}
  Interruptible = {s}
  None = None

SPECIFICATION FairSpec

PROPERTY CallReturns
