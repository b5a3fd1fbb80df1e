\* Two events at any time, against the beat.
SPECIFICATION FairSpec
CONSTANTS
  n1 = n1
  n2 = n2
  wired = wired
  router = router
  Nodes <- Pair
  Hears <- PairHears
  Stock = {wired, router}
  Wired = {wired}
  Self = {}
  Named <- PairNamed
  Refused <- PairRefused
  RNSD_GW_NONE = 4
  RNSD_GW_NBRS_MAX = 3
  Horizon = 1
  MaxInputs = 2
INVARIANTS
  TypeOK
  NeverTooNear
PROPERTY QuestionsFindTheirWay
CHECK_DEADLOCK FALSE
