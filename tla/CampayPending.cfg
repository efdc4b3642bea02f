SPECIFICATION FairSpec
CONSTANTS
  r1 = r1  r2 = r2  w1 = w1  a1 = a1
  Nobody = Nobody
  Workers = {r1, r2}
  Webhooks = {w1}
  Admins = {}
  Kinds = {"ADD_MONEY", "WITHDRAW"}
  Faults = {"lost_reply", "no_reference", "crash"}
  SnapshotReads = FALSE
INVARIANTS RefundedIffFailed
PROPERTIES PendingIsSettled
\* A settled payment comes to rest.
CHECK_DEADLOCK FALSE
