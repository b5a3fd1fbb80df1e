\* Numbers for 11 messages; what is smaller in a world is set there.
CONSTANTS
  SEQ_MODULUS = 8
  WINDOW = 2
  WINDOW_MIN = 1
  WINDOW_MIN_LIMIT_MEDIUM = 2
  WINDOW_MIN_LIMIT_FAST = 3
  WINDOW_MAX_SLOW = 2
  WINDOW_MAX_MEDIUM = 3
  WINDOW_MAX_FAST = 4
  WINDOW_FLEXIBILITY = 0
  FAST_RATE_THRESHOLD = 1
  MAX_TRIES = 2
  RttClasses <- AllRtt
  MaxSend = 11
  MaxLead = 10
  EgressMayFail = TRUE
  Network = "any"
SPECIFICATION WorldsSpec
INVARIANTS TypeOK WindowBounds DeliveredInOrder EmptyRingMeansReceived
PROPERTIES ImplementsService EnvelopesEnd
CHECK_DEADLOCK FALSE
