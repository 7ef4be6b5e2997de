CONSTANTS
  B = 4
  UuidSize = 6
  TicksPerMs = 2
  Types <- SomeTypes
  Samples <- Boundaries
  MaxItems = 2
  MaxQueued = 3
  Idle = Idle

SPECIFICATION StoredSpec

\* The archive has read what it was to read.
CHECK_DEADLOCK FALSE

INVARIANT RecordsReadBack
INVARIANT KeysOrdered
INVARIANT RepliesUnderstood
