\* Two requests, a resource each way; a third open evicts a slot.
SPECIFICATION Spec
CONSTANTS
  alice = alice
  bob = bob
  peer = peer
  r1 = r1
  r2 = r2
  x1 = x1
  x2 = x2
  given = given
  RNSD_MAX_LINK_CONNS = 2
  Tags = {alice, bob}
  InTags = {peer}
  Requests = {r1, r2}
  Outbound = {x1}
  Inbound = {given}
  RNSD_LINK_ATTEMPTS = 2
  MaxInflight = 2
  MaxLinks = 3
  MaxCalls = 3
SYMMETRY Symmetry
INVARIANTS
  TypeOK
  TablesAgree
PROPERTY
  ImplementsService
CHECK_DEADLOCK FALSE
