\* two requests, refused ones among them, on a connection that serves two.
CONSTANTS
  Requests <- SomeRequests
  MaxSent = 2
  MaxParts = 2
  MaximumKeepAlive = 2
  None = None

SPECIFICATION Spec

\* The connection may be closed while the client has nothing more to send.
CHECK_DEADLOCK FALSE

INVARIANT InputInSync
INVARIANT AnsweredInOrder
INVARIANT NoStandoff
PROPERTY EndsInOrder
PROPERTY ConnectionEnds
