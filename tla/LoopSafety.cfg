SPECIFICATION FairSpec
CONSTANTS
  w1 = w1  w2 = w2  user = user
  Nobody = Nobody
  N = 3
  Sweepers = {w1, w2, user}
  RowsOf <- MCRowsOf
  Collects = {1, 2}
INVARIANTS SettledOnce
PROPERTIES AnsweredIsSettled
