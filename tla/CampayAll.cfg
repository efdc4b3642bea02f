SPECIFICATION Spec
CONSTANTS
  r1 = r1  r2 = r2  w1 = w1  a1 = a1
  Nobody = Nobody
  Workers = {r1, r2}
  Webhooks = {w1}
  Admins = {a1}
  Kinds = {"ADD_MONEY", "WITHDRAW"}
  Faults = {"error"}
  SnapshotReads = FALSE
INVARIANTS DepositBooksAgree OutcomeIsCampays
PROPERTIES ImplementsPayment
SYMMETRY WorkerSymmetry
\* A settled payment comes to rest.
CHECK_DEADLOCK FALSE
