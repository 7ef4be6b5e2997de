\* Two contexts, both listeners and the two io threads of main.cpp, one of which
\* runs stop(): both acceptors compete for the pool while it drains, and stop()
\* returns (no symmetry: it is unsound for liveness).
CONSTANTS
  x1 = x1
  x2 = x2
  t1 = t1
  t2 = t2
  Contexts = {x1, x2}
  IoThreads = {t1, t2}
  Stopper = t1
  Listeners = {"plain", "ssl"}
  Logger = TRUE
  None = None

SPECIFICATION FairSpec

INVARIANT PoolSafety
INVARIANT AcceptChainAlive
INVARIANT DrainedIsIdle
INVARIANT StrayAcceptIsLate
PROPERTY StopReturns
