SPECIFICATION SortsSpec
CONSTANTS
  HASHMAP_MAX_LEN = 2
  WINDOW = 2
  WINDOW_MIN = 1
  WINDOW_MAX_SLOW = 3
  WINDOW_MAX_VERY_SLOW = 2
  WINDOW_MAX_FAST = 4
  WINDOW_FLEXIBILITY = 2
  FAST_RATE_THRESHOLD = 1
  VERY_SLOW_RATE_THRESHOLD = 1
  MAX_RETRIES = 2
  MAX_ADV_RETRIES = 2
  PROOF_RETRIES = 1
  REQ_HASHLIST_MAX = 2
  Kinds = {"app", "request", "response"}
  HashMaps <- SomeHashMaps
  Rates = {"very slow", "slow", "fast"}
  Mishaps = {"lose", "repeat", "early", "close"}
  MaxMishaps = 2
INVARIANTS
  TypeOK
  CleanUnlessHashesCollide
  EveryResourceIsReported
PROPERTIES
  ImplementsService
  TransfersEnd
CHECK_DEADLOCK FALSE
