\* A message too large for an envelope, handed over before the handshake.
SPECIFICATION BridgeSpec
CONSTANTS
  RNSD_MAX_CHAN_CONNS = 2
  RNSD_CHAN_MAX_OUTBOX = 2
  Windows = {1, 2}
  Tags <- TwoConsumers
  Outbound <- UpResources
  Inbound <- DownResources
  alice = alice
  bob = bob
  upload = upload
  download = download
  None = None
  MaxLinks = 3
  MaxInputs = 2
INVARIANT OutstandingIsAReceipt
CHECK_DEADLOCK FALSE
