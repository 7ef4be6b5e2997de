\* Two threads, as in main.cpp: one runs stop() while the other brings two contexts back to it.
CONSTANTS
  Threads = {t1, t2}
  Accepts = {a1, a2}
  Contexts = {c1, c2}
  t1 = t1
  t2 = t2
  a1 = a1
  a2 = a2
  c1 = c1
  c2 = c2

SPECIFICATION Spec
CHECK_DEADLOCK FALSE

INVARIANT NothingIsLost
PROPERTY JoinReturns
