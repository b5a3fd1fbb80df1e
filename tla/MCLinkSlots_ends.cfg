\* One request under way while links fail, retry, close and evict each other.
SPECIFICATION FairSpec
CONSTANTS
  alice = alice
  bob = bob
  peer = peer
  r1 = r1
  r2 = r2
  x1 = x1
  x2 = x2
  given = given
  RNSD_MAX_LINK_CONNS = 2
  Tags = {alice, bob}
  InTags = {peer}
  Requests = {r1}
  Outbound = {}
  Inbound = {}
  RNSD_LINK_ATTEMPTS = 2
  MaxInflight = 2
  MaxLinks = 2
  MaxCalls = 3
PROPERTIES
  EveryWaitEnds
CHECK_DEADLOCK FALSE
