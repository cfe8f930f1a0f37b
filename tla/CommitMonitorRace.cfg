SPECIFICATION Spec
CONSTANTS
  Accounts = {a1}
  Handlers = {h1}
  Workers = 2
  Monitored = TRUE
  ManualProbes = FALSE
  Monitor = monitor
  Reloader = reloader
  NoAccount = none
PROPERTIES MonitorKeepsStandings
