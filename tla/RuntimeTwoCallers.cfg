SPECIFICATION FairSpec
CONSTANTS
  Calls = {c1, c2}
  Conns = {}
  Servers = {t1, t2}
  NoServer = none
CONSTRAINT Undisturbed
PROPERTIES StopReturns
