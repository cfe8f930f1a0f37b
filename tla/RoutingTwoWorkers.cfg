SPECIFICATION Spec
CONSTANTS
  a1 = a1
  a2 = a2
  Accounts = {a1}
  Keys = {k1}
  Requests = {r1, r2, r3}
  Workers = 2
  Limit <- FirstLimited
  Priority <- TwoTiers
  NoAccount = NoAccount
  NoKey = NoKey
SYMMETRY RequestSymmetry
INVARIANTS RoutingInv OvershootBounded ReplayBudget
PROPERTIES LeasesArePooled
