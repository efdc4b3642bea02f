SPECIFICATION MCSpec
CONSTANTS
  s1 = s1  s2 = s2  tab1 = tab1  tab2 = tab2  u1 = u1  u2 = u2
  Requesters = {s1, s2}
  NoView = NoView
  MaxCodes = 2  VerifyLimit = 2
  MaxPasswords = 3  MaxTokens = 2  MaxResets = 2
  Apis = {a1, a2}  Workers = {w}
  Tabs = {tab1, tab2}
  Notices = {n1, n2}  Urgent = {n2}
  UseRedis = TRUE
  Users = {u1, u2}
  BrowserTokens = {b1, b2}
  NoToken = NoToken
SYMMETRY Symmetry
INVARIANTS GuessesAreLimited LimiterExpires SentCodeWorksOnce
INVARIANTS TokensFollowPassword ResetUsedOnce
INVARIANTS CountsAreExact NoticeIsDelivered TokenFollowsLastUser
INVARIANTS TypesOK
