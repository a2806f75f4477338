SPECIFICATION Spec
CONSTANTS
  Workers = {w1, w2, w3}
  Sizes = {1, 2}
  SEND_BATCH_SIZE = 3
  MaxPacket = 2
  MAX_BYTES = 7
  TransientFailure = FALSE
SYMMETRY MCSymmetry
CHECK_DEADLOCK FALSE
INVARIANTS
  OneSender
  NoStall
  BatchFits
PROPERTY ImplementsPipe
