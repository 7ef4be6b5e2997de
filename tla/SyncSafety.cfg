\* Two coroutines, a plain one and one with composed operations, on two io
\* threads: the two handlers of a call run at the same time on both threads.
CONSTANTS
  p = p
  s = s
  t1 = t1
  t2 = t2
  Coros = {p, s}
  Threads = {t1, t2}
  Secure = {s}
  Interruptible = {p, s}
  None = None

SYMMETRY ThreadSymmetry

SPECIFICATION Spec

 
 
 
INVARIANT CancelReaches
 
