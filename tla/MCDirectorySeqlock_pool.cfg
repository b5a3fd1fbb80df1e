\* Two destinations that evict each other, a lookup and a walk.
CONSTANTS
  SlotCount = 1
  Dests = {d1, d2}
  NoDest = NoDest
  AnyDest = AnyDest
  Sought = {d1, AnyDest}
  Values <- OneValue
  Readers = {r1}
  SEQ_MODULUS = 4
  RDIR_SEQ_TRIES = 2
  MaxSections = 1
SPECIFICATION FairSpec
INVARIANTS TypeOK NonZeroCopyIsWhole MissIsJustified
PROPERTIES LookupEnds
CHECK_DEADLOCK FALSE
