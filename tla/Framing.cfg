SPECIFICATION FairSpec
CONSTANTS
  Readers = {"server", "client", "bot"}
  Sizes = {1, 2, 3}
  BufLen <- MCBufLen
  MAX_BYTES = 8
CHECK_DEADLOCK FALSE
INVARIANT RoomToRead
PROPERTIES
  ImplementsStream
  AllHandled
