SPECIFICATION FairSpec
CONSTANTS
  Calls = {c1}
  Conns = {k1}
  Servers = {t1, t2}
  NoServer = none
INVARIANTS RuntimeInv StateIsTruthful StopEndsListening
PROPERTIES StopReturns WorksAsOnePlane
