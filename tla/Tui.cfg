SPECIFICATION MCSpec
CONSTANTS
  Accounts = {1, 2}
  Slots = {1, 2}
  MaxQueue = 2
  MaxEvents = 3
INVARIANTS TuiInv ScreenKeepsEdits LocalDecisionsKept
PROPERTIES EditsHitTarget ScreenFollows
CHECK_DEADLOCK FALSE
