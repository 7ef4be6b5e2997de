\* Two browsers, two requests at a time out of four, and time to expire: a
\* session is good for the second it was used in.
CONSTANTS
  b1 = b1
  b2 = b2
  r1 = r1
  r2 = r2
  s1 = s1
  s2 = s2
  t1 = t1
  u1 = u1
  i1 = i1
  i2 = i2
  Browsers = {b1, b2}
  Requests = {r1, r2}
  Sids = {s1, s2}
  Tokens = {t1}
  Users = {u1}
  Ids = {i1, i2}
  None = None
  LifeTime = 0
  MaxTime = 1
  MaxRequests = 4

SYMMETRY SessionSymmetry

SPECIFICATION Spec

\* The clock and the requests are bounded.
CHECK_DEADLOCK FALSE

INVARIANT SessionIsOwn
INVARIANT TokenBegunHere
INVARIANT IdsAgree
PROPERTY TokenOnce
PROPERTY NoLostUpdate
