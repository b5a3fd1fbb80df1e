\* The node is left without an interface while an envelope is unproved.
CONSTANTS
  SEQ_MODULUS = 8
  WINDOW = 2
  WINDOW_MIN = 2
  WINDOW_MIN_LIMIT_MEDIUM = 2
  WINDOW_MIN_LIMIT_FAST = 2
  WINDOW_MAX_SLOW = 2
  WINDOW_MAX_MEDIUM = 2
  WINDOW_MAX_FAST = 2
  WINDOW_FLEXIBILITY = 0
  FAST_RATE_THRESHOLD = 1
  MAX_TRIES = 3
  RttClasses <- NoRtt
  MaxSend = 2
  MaxLead = 10
  EgressMayFail = TRUE
  Network = "any"
SPECIFICATION Spec
INVARIANTS TwoEnds
CHECK_DEADLOCK FALSE
