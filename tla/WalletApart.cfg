SPECIFICATION ApartSpec
CONSTANTS
  u1 = u1
  u2 = u2
  u3 = u3
  s1 = s1
  s2 = s2
  k1 = k1
  Users = {u1, u2, u3}
  Sessions = {s1, s2}
  Keys = {k1}
  NoKey = NoKey
  Nobody = Nobody
  NoRequest = NoRequest
  Amounts = {2}
  Fee <- MCFee
  InitialBalance = 5
  MaxRequests = 3
INVARIANTS
  BalanceIsLedgerSum
SYMMETRY
  UserSessionSymmetry
PROPERTIES
  ImplementsBank
CHECK_DEADLOCK FALSE
