SPECIFICATION Spec
CONSTANTS
  PC = {p1, p2}
  Heroes = {p1}
  NONE = NONE
  Pools = {{w1}, {w1, w2}}
  EXP_BASE = 1
  KILL_XP = 1
  TARGET = 2
  REWARD_XP = 6
  MAX_ITEMS = 1
  MAX_EARNED = 2
  MAX_DEATHS = 1
  MAX_OVERLAPS = 1
CHECK_DEADLOCK FALSE
INVARIANTS
  OnePicker
  
  ClientKnows
  
  
