--------------------------- MODULE ChannelService ---------------------------
(***************************************************************************)
(* What a Reticulum Channel promises its two consumers, without sequence   *)
(* numbers, windows, proofs or a network: the messages one end sends are   *)
(* handed to the other end in the order they were sent, none twice and     *)
(* none skipped, and a message the sender is told has been received has    *)
(* indeed been received.  The promise is one of safety: the link under the *)
(* channel may close at any time, which simply stops the service.          *)
(***************************************************************************)
EXTENDS Naturals, Sequences

VARIABLES
  sent,       \* how many messages the sender's send() has accepted: 1 .. sent
  arrived,    \* the messages the receiving end holds or has handed on
  delivered,  \* the messages handed to the receiving consumer, in order
  settled     \* the messages the sender has been told were received

vars == <<sent, arrived, delivered, settled>>

Init ==
  /\ sent = 0
  /\ arrived = {}
  /\ delivered = <<>>
  /\ settled = {}

Send ==
  /\ sent' = sent + 1
  /\ UNCHANGED <<arrived, delivered, settled>>

Arrive ==
  /\ \E m \in 1 .. sent : m \notin arrived /\ arrived' = arrived \cup {m}
  /\ UNCHANGED <<sent, delivered, settled>>

Deliver ==
  /\ Len(delivered) + 1 \in arrived
  /\ delivered' = Append(delivered, Len(delivered) + 1)
  /\ UNCHANGED <<sent, arrived, settled>>

Settle ==
  /\ \E m \in arrived : m \notin settled /\ settled' = settled \cup {m}
  /\ UNCHANGED <<sent, arrived, delivered>>

Next == Send \/ Arrive \/ Deliver \/ Settle

Spec == Init /\ [][Next]_vars
=============================================================================
