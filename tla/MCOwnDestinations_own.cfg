\* Five inputs in any order, with restarts, against every deadline.
SPECIFICATION FairSpec
CONSTANTS
  RNSD_MAX_OUR_DESTS = 2
  RNSD_OUR_DEST_MAX_PENDING = 1
  RNSD_MAX_PENDING_RECEIPTS = 1
  RATCHET_COUNT = 2
  Handles <- MCHandles
  Sends <- MCSends
  IfaceSlots = {1, 2}
  MaxKeys = 2
  MaxInputs = 5
INVARIANTS
  TypeOK
  SlotsForgetTheirPredecessor
  RetainedWindow
PROPERTIES
  ImplementsService
  NothingTakenIsForgotten
CHECK_DEADLOCK FALSE
