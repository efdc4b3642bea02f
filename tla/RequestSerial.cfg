SPECIFICATION FairSpec
CONSTANTS
  p1 = p1  p2 = p2  c1 = c1  r1 = r1  r2 = r2  w1 = w1  w2 = w2
  Nobody = Nobody
  Payers = {p1, p2}
  Closers = {c1}
  Workers = {r1, r2}
  Webhooks = {w1}
  Overlap = FALSE
  Faults = {"lost_reply", "error"}
INVARIANTS RequestIsAccounted
PROPERTIES ImplementsRequest CollectedIsCredited
\* Every call is made once and the request is closed in the end.
CHECK_DEADLOCK FALSE
