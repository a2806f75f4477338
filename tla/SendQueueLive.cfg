SPECIFICATION FairSpec
CONSTANTS
  Workers = {w1, w2}
  Sizes = {1, 2}
  SEND_BATCH_SIZE = 2
  MaxPacket = 2
  MAX_BYTES = 4
  TransientFailure = TRUE
CHECK_DEADLOCK FALSE
PROPERTIES
  AllDelivered
  BrokenIsClosed
  NoReorder
