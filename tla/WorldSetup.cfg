SPECIFICATION Spec
CONSTANTS
  WORLD_WIDTH = 5
  WORLD_HEIGHT = 3
  VIEW_RANGE = 1
  MARGIN = 1
  Scripts <- MCScripts
  Files <- MCFiles
  Garbage <- MCGarbage
  BOSS_SPAWN <- MCBoss
  BOSS_SHIFT = 1
  MAX_NPCS = 3
  NPC_ID_START = 10
  MAX_STARTS = 2
CHECK_DEADLOCK FALSE
INVARIANTS
  MapAgrees
  PopulationExact
  ShortestStep
