SPECIFICATION FairSpec
CONSTANTS
  r1 = r1
  r2 = r2
  Execs = {1, 2}
  NoExec = 0
  MaxEvents = 3
  MaxChanges = 2
  Handlers = {1, 2}
  Tasks = {1, 2}
  Routes = {r1, r2}
  Unsure = Unsure
  d1 = d1
  d2 = d2
  Deadlines = {d1, d2}
INVARIANTS LifeInv Reachable NothingLeftBehind SettingsAgree RowAgrees
PROPERTIES StopIsObeyed
CHECK_DEADLOCK FALSE
