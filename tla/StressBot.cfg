SPECIFICATION Spec
CONSTANTS
  MAX_TEST = 2
  MAX_CLIENTS = 3
  MAX_PLAYERS = 3
  DELAY_LIMIT = 0
  DELAY_LIMIT2 = 1
  SLOW = 2
  KEEP = 1
  SHARE = 2
  MAXINT = 9
  MAX_INBOX = 1
  MAX_COUNT = 3
CHECK_DEADLOCK FALSE
INVARIANTS
  NeverUndercounts
  CloudFits
  MapRoundTrip
