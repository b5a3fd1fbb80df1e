--------------------------- MODULE MCAnnounceRelay ---------------------------
(***************************************************************************)
(* A radio with two relays in earshot, one of them nearer to a gateway and *)
(* one that says nothing of it, and a point-to-point link with one peer.   *)
(***************************************************************************)
EXTENDS AnnounceRelay

MCIfaces  == {"lora", "lan"}
MCMode    == [lora |-> "gateway", lan |-> "full"]
MCRadius  == [lora |-> 2, lan |-> 1]
MCNear    == [lora |-> {"near", "far"}, lan |-> {"peer"}]
MCDist    == [near |-> 1, far |-> 9, peer |-> 9]
=============================================================================
