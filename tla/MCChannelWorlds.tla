--------------------------- MODULE MCChannelWorlds ---------------------------
(***************************************************************************)
(* Two worlds for one channel, each with the constants that make its hard  *)
(* case happen: in one the network loses, repeats and reorders, in the     *)
(* other packets only overtake each other but the sequence numbers wrap    *)
(* twice.  The .cfg's constants are the larger of the two throughout.      *)
(***************************************************************************)
EXTENDS MCChannel

VARIABLE world      \* never changes

Lossy == INSTANCE Channel WITH MaxSend <- 2

Wrapping ==
  INSTANCE Channel WITH
    SEQ_MODULUS <- 5, WINDOW_MIN <- 2, WINDOW_MIN_LIMIT_FAST <- 2,
    WINDOW_MAX_MEDIUM <- 2, WINDOW_MAX_FAST <- 2, MAX_TRIES <- 1,
    RttClasses <- NoRtt, MaxLead <- 2, EgressMayFail <- FALSE,
    Network <- "lossless"

InLossy == world = "lossy"

WorldsInit ==
  \/ InLossy /\ Lossy!Init
  \/ world = "wrapping" /\ Wrapping!Init
WorldsNext ==
  /\ UNCHANGED world
  /\ \/ InLossy /\ Lossy!Next
     \/ world = "wrapping" /\ Wrapping!Next

(* The fairness of Channel's FairSpec, in the lossy world.                 *)
WorldsSpec ==
  /\ WorldsInit /\ [][WorldsNext]_<<vars, world>>
  /\ WF_vars(InLossy /\ Lossy!Poll)
  /\ \A m \in Lossy!Message : SF_vars(InLossy /\ Lossy!pollOverdue(m))
  /\ WF_vars(InLossy /\ (receiveEnds \/ \E held \in rxRing : deliver(held)))

(* rnsd.cpp:8263, "exactly two ends", and what the delivery loop is for:   *)
(* every envelope that send() accepted leaves the ring, and what left it   *)
(* proved reaches the consumer, unless an end closes.                      *)
EnvelopesEnd == InLossy => Lossy!EnvelopeEnds /\ Lossy!SettledIsDelivered
=============================================================================
