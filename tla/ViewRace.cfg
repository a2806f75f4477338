SPECIFICATION Spec
CONSTANTS
  WORLD_WIDTH = 4
  WORLD_HEIGHT = 1
  VIEW_RANGE = 1
  Obstacles <- MCObstacles
  PC = {p1, p2}
  NPC = {n1}
  NONE = NONE
  Pools = {{w1}, {w1, w2}}
  MAX_HP = 2
  m_origin <- MCOrigin
  MAX_RESPAWNS = 1
  MAX_OVERLAPS = 1
SYMMETRY MCSymmetry
INVARIANTS
  SerialMirror
  
  OneTick
  DeadReturns
CHECK_DEADLOCK FALSE
