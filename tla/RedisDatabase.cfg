\* Four coroutines share the connection, each with up to four commands (sign_in
\* sends four); every connect() ends.
CONSTANTS
  c1 = c1
  c2 = c2
  c3 = c3
  c4 = c4
  Clients = {c1, c2, c3, c4}
  None = None
  MaxCommands = 4

SPECIFICATION FairSpec

INVARIANT SharedSafely
PROPERTY ConnectEnds
