SPECIFICATION MCSpec
CONSTANTS
  s1 = s1  s2 = s2  l1 = l1  l2 = l2  d1 = d1  d2 = d2
  Requesters = {s1, s2}
  NoView = NoView
  MaxRequests = 2  MaxTxns = 2
  Amounts = {1, 2}  Caps = {2}
  Default <- MCDefault
  Raised <- MCRaised
  NoCap = NoCap  Nothing = Nothing
  KycDocs = {d1, d2}  Forged = {d2}
  AutoReview = TRUE
  MaxSubmissions = 2
  DisputedTxns = {1}  MaxDisputes = 3
  Labels = {l1, l2}
  FeeConfigs <- MCFeeConfigs
  Parts = 10
  FeeAmounts = {50, 100, 101, 300, 500}
  NoBound = NoBound
  BuiltIn = TRUE
SYMMETRY Symmetry
CONSTRAINT MCBound
INVARIANTS LimitsFollowGrants GrantsAreCharged DailyLimitHolds
INVARIANTS ReviewedAsSubmitted DecisionIsNotified ReviewHasTimer
INVARIANTS DeskFollowsCalls
INVARIANTS CatalogueFitsTogether FeeShownIsCharged
INVARIANTS TypesOK
