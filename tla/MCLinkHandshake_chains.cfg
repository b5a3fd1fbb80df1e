\* Two relays and one mishap of any kind at any place, beside the shorter chain.
CONSTANTS
  Hops = 3
  PER_HOP = 6
  AIRTIME = 3
  KEEPALIVE = 30
  HANDSHAKE_REPAIR_SLOTS = 1
  MaxDelay = 1
  Mishaps = {"loss", "cull", "forget", "close"}
  MaxMishaps = 1
  MaxData = 0
SPECIFICATION ChainsSpec
INVARIANTS TypesOK RepairsSuffice EstablishedOnce
PROPERTIES EndsSettle ImplementsService
CHECK_DEADLOCK FALSE
