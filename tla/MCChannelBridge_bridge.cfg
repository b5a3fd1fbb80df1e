\* Four inputs in any order, against the loop, the far end and deadlines.
SPECIFICATION BridgeFairSpec
CONSTANTS
  RNSD_MAX_CHAN_CONNS = 2
  RNSD_CHAN_MAX_OUTBOX = 2
  Windows = {1, 2}
  Tags <- TwoConsumers
  Outbound <- UpResources
  Inbound <- DownResources
  alice = alice
  bob = bob
  upload = upload
  download = download
  None = None
  MaxLinks = 3
  MaxInputs = 4
INVARIANTS
  BridgeTypeOK
  StreamIsWhole
  ReceiptUnlessHeldUp
  NothingLeftBehind
PROPERTY ChannelsEnd
CHECK_DEADLOCK FALSE
