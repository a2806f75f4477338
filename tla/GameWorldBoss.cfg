SPECIFICATION Spec
CONSTANTS
  WORLD_WIDTH = 7
  WORLD_HEIGHT = 2
  VIEW_RANGE = 1
  Obstacles <- MCObstacles
  PC = {p1, p2}
  PEACE = {}
  AGRO = {}
  BOSS = {n1}
  NONE = NONE
  m_origin <- MCOrigin
  PC_SPAWN <- MCSpawn
  LoginTiles <- MCLogin
  ROAM_RANGE = 2
  RESPAWN_RANGE = 1
  ATTACK_RANGE = 1
  RANGED_ATK_RANGE = 2
  AGRO_DETECT_RANGE = 2
  BOSS_DETECT_RANGE = 5
  BOSS_ATTACK_RANGE = 1
  BOSS_AREA_RANGE = 2
  PC_MAX_HP = 2
  NPC_PEACE_MAX_HP = 2
  NPC_AGRO_MAX_HP = 2
  BOSS_MAX_HP = 3
  HP_PER_LEVEL = 1
  ATK_PER_LEVEL = 0
  SKILL_PER_LEVEL = 1
  PC_ATTACK_DMG = 1
  PC_SKILL_DMG = 2
  NPC_ATTACK_DMG = 2
  BOSS_ATTACK_DMG <- MCBossDmg
  POTION_RESTORE = {1}
  MOVE_COOL_TIME = 1
  ATTACK_COOL_TIME = 1
  HP_REGEN_TIME = 1
  BOSS_MOVE_P2 = 1
  BOSS_ATTACK_COOL <- MCBossCool
  NPC_RESPAWN_TIME = 2
  BOSS_RESPAWN_TIME = 2
  MAX_LEVEL = 1
SYMMETRY MCSymmetry
INVARIANTS
  
  ViewExact
  MoveToken
  RespawnToken
  SeenNpcAwake
  
  RegenToken
