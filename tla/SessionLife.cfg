SPECIFICATION FairSpec
CONSTANTS
  c1 = c1
  c2 = c2
  c3 = c3
  w1 = w1
  w2 = w2
  AccountOf <- MCAccounts
  Bots = {"bot"}
  NPC_ID_START = 3
  MAX_PROGRESS = 2
  NOBODY = NOBODY
  Deployments <- MCOneOrTwo
CHECK_DEADLOCK FALSE

  
PROPERTIES
  
  ClosedIsFreed
  LoginAnswered
