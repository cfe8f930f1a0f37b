SPECIFICATION Spec
CONSTANTS
  a1 = a1
  a2 = a2
  Accounts = {a1, a2}
  Keys = {k1}
  Requests = {r1, r2}
  Workers = 2
  Limit <- OneEach
  Priority <- SameTier
  NoAccount = NoAccount
  NoKey = NoKey
PROPERTIES BindingNeverMigrates
