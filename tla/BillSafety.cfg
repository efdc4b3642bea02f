SPECIFICATION FairSpec
CONSTANTS
  k1 = k1  k2 = k2  k3 = k3  k4 = k4
  t1 = t1  t2 = t2  t3 = t3
  c1 = c1  c2 = c2  w1 = w1  w2 = w2
  Nobody = Nobody
  Tokens = {k1, k2, k3, k4}
  Answer <- MCAnswer
  Txns = {t1, t2}
  Clients = {c1, c2}
  Workers = {w1, w2}
  Crashes = TRUE
INVARIANTS ChargedUnlessFailed
PROPERTIES ImplementsBill HeldIsWatched BillsAreResolved
\* The ids run out and the system stops.
CHECK_DEADLOCK FALSE
