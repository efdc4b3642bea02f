SPECIFICATION Spec
CONSTANTS
  r1 = r1  r2 = r2  w1 = w1  a1 = a1
  Nobody = Nobody
  Workers = {r1}
  Webhooks = {w1}
  Admins = {}
  Kinds = {"WITHDRAW"}
  Faults = {}
  SnapshotReads = FALSE
INVARIANTS WithdrawBooksAgree
\* A settled payment comes to rest.
CHECK_DEADLOCK FALSE
