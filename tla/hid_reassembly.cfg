SPECIFICATION Spec
CONSTANTS
  a = a
  b = b
  BROADCAST = BROADCAST
  Channels <- MCChannels
  InFirst = 2
  InNext = 2
  OutFirst = 2
  OutNext = 3
  SeqLimit = 4
  NonceLength = 2
  INACTIVITY = 2
  MAX_CONNECTIONS = 1
  Initials <- MCInitials
  Subsequents <- MCSubsequents
  ResponseLengths = {14, 15, 27}
  MaxSteps = 5
  MaxOpen = 2
CONSTRAINT
  OneShort
INVARIANTS
  TypeOK
  BytesOfOneChannel
  HostReadsReply
PROPERTIES
  ImplementsHidMessages
CHECK_DEADLOCK FALSE
