\* A context destroyed between on_ready and suspend(): one context is enough.
CONSTANTS
  x1 = x1
  t1 = t1
  t2 = t2
  Contexts = {x1}
  IoThreads = {t1, t2}
  Stopper = t1
  Listeners = {"plain"}
  Logger = FALSE
  None = None

SPECIFICATION Spec

INVARIANT SuspendOnLiveContext
