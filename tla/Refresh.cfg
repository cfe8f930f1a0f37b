SPECIFICATION FairSpec
CONSTANTS
  Requests = {r1, r2}
  Logins = {f1, f2}
  FirstLogin = f1
  MaxMinted <- OnceFirst
INVARIANTS RefreshInv SnapshotUsable NoFalseReauth
PROPERTIES RefreshEnds RefreshesInTurn
