\* Two emissions, two questions, three packets, requests or evictions in any order.
SPECIFICATION Spec
CONSTANTS
  Ifaces <- MCIfaces
  Shared = {"lora"}
  Cheap = {"lan"}
  Limited = {"lora"}
  Mode <- MCMode
  Radius <- MCRadius
  Neighbours <- MCNear
  Distance <- MCDist
  OwnDistance = 2
  DISTANCE_NONE = 8
  PATHFINDER_R = 1
  LOCAL_REBROADCASTS_MAX = 2
  FP_RING = 2
  RDIR_G_RUN_LIMIT = 2
  Tags = {"t1", "t2"}
  MaxEmissions = 2
  MaxHops = 2
  MaxInputs = 3
INVARIANTS
  TypeOK
  NothingMultiplies
PROPERTIES
  NeverLengthenedByACopy
CHECK_DEADLOCK FALSE
