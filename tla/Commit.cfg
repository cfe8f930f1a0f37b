SPECIFICATION Spec
CONSTANTS
  Accounts = {a1, a2}
  Handlers = {h1}
  Workers = 1
  Monitored = TRUE
  ManualProbes = TRUE
  Monitor = monitor
  Reloader = reloader
  NoAccount = none
SYMMETRY AccountSymmetry
INVARIANTS CommitInv DecisionsKept OptIn
