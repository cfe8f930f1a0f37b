SPECIFICATION FairSpec
CONSTANTS
  a1 = a1
  a2 = a2
  Accounts = {a1}
  Keys = {k1}
  Requests = {r1, r2}
  Workers = 1
  Limit <- FirstLimited
  Priority <- TwoTiers
  NoAccount = NoAccount
  NoKey = NoKey
INVARIANTS ConcurrencyLimit
PROPERTIES RequestsEnd
