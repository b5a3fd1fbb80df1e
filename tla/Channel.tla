------------------------------- MODULE Channel -------------------------------
(***************************************************************************)
(* RNS::Channel (components/microreticulum/src/Channel.{h,cpp}): one       *)
(* direction of a reliable message stream inside a Link.                   *)
(*                                                                         *)
(* The sending end keeps every envelope in _tx_ring until the delivery     *)
(* proof of the link packet that last carried it has come back; poll()     *)
(* finds that out by reading the packet's receipt, moves the window, and   *)
(* sends again what is overdue, until MAX_TRIES, when it tears the link    *)
(* down.  The receiving end proves every CHANNEL packet before looking at  *)
(* it, refuses stale and duplicate sequence numbers, keeps the rest in     *)
(* _rx_ring and hands over the contiguous run that starts at               *)
(* _next_rx_sequence.                                                      *)
(*                                                                         *)
(* Each end is one single-threaded task, so poll() is not interrupted by   *)
(* anything at its own end: its loop is a sequence of steps, one per       *)
(* envelope, during which only the other end and the network move.  The    *)
(* same holds of the delivery loop of _receive().  Time is not a number:   *)
(* an envelope's deadline may have passed at any visit.  A message is its  *)
(* number in the order of acceptance; a retransmission is a new link       *)
(* packet (new ciphertext, new hash), told apart by its copy number.       *)
(***************************************************************************)
EXTENDS Naturals, Sequences, FiniteSets

CONSTANTS
  SEQ_MODULUS,              \* 0x10000 in the code
  WINDOW,                   \* the window a channel starts with
  WINDOW_MIN, WINDOW_MIN_LIMIT_MEDIUM, WINDOW_MIN_LIMIT_FAST,
  WINDOW_MAX_SLOW, WINDOW_MAX_MEDIUM, WINDOW_MAX_FAST,
  WINDOW_FLEXIBILITY,
  FAST_RATE_THRESHOLD,
  MAX_TRIES,
  RttClasses,               \* the round trips a window opening may measure
  MaxSend,                  \* bound: messages sent in a behaviour
  MaxLead,                  \* bound: how far send() runs ahead of an unproved one
  EgressMayFail,            \* may the node be left without an interface?
  Network                   \* how the network treats CHANNEL packets, below

(***************************************************************************)
(* "any": packets are lost, duplicated and overtaken without limit.        *)
(* "fifo": packets may be lost, but none overtakes another or is repeated. *)
(* "lossless": packets overtake each other, but each arrives exactly once.   *)
(***************************************************************************)
Networks == {"any", "fifo", "lossless"}

(* The guard span of _receive is the largest window there is.              *)
WINDOW_MAX == WINDOW_MAX_FAST

ASSUME SequenceAssumption ==
  /\ SEQ_MODULUS \in Nat \ {0}
  /\ MAX_TRIES \in Nat \ {0}
  /\ MaxSend \in Nat /\ MaxLead \in Nat
  /\ EgressMayFail \in BOOLEAN
  /\ Network \in Networks

ASSUME WindowAssumption ==
  /\ {WINDOW, WINDOW_MIN, WINDOW_MIN_LIMIT_MEDIUM, WINDOW_MIN_LIMIT_FAST,
      WINDOW_MAX_SLOW, WINDOW_MAX_MEDIUM, WINDOW_MAX_FAST,
      WINDOW_FLEXIBILITY, FAST_RATE_THRESHOLD} \subseteq Nat
  /\ 0 < WINDOW_MIN
  /\ WINDOW_MIN <= WINDOW /\ WINDOW <= WINDOW_MAX_SLOW
  /\ WINDOW_MIN <= WINDOW_MIN_LIMIT_MEDIUM
  /\ WINDOW_MIN_LIMIT_MEDIUM <= WINDOW_MIN_LIMIT_FAST
  /\ WINDOW_MAX_SLOW <= WINDOW_MAX_MEDIUM
  /\ WINDOW_MAX_MEDIUM <= WINDOW_MAX_FAST
  /\ WINDOW_MIN_LIMIT_MEDIUM <= WINDOW_MAX_MEDIUM
  /\ WINDOW_MIN_LIMIT_FAST <= WINDOW_MAX_FAST
  /\ RttClasses \subseteq {"none", "slow", "medium", "fast"}

VARIABLES
  (* the sending end *)
  txStatus,       \* its link: ACTIVE, CLOSED; ABORTED: poll() let an exception out
  egress,         \* has Transport::outbound an interface to transmit on?
  sent,           \* envelopes accepted by send(); message m is the m-th of them
  nextSequence,   \* _next_sequence
  txRing,         \* _tx_ring
  todo,           \* the messages poll() has still to visit; {} outside poll()
  window, windowMax, windowMin, fastRounds, mediumRounds,
  settled,        \* history: messages poll() found DELIVERED
  (* the receiving end *)
  rxStatus,       \* NO_CHANNEL until get_channel(), then OPEN, then CLOSED
  nextRx,         \* _next_rx_sequence
  rxRing,         \* _rx_ring
  rxBusy,         \* inside the delivery loop of _receive()
  delivered,      \* what the receive callback was given
  arrived,        \* history: messages _receive() took into the ring
  (* the network *)
  data,           \* CHANNEL link packets transmitted and still able to arrive
  proofs,         \* delivery proofs on their way back
  txSerial,       \* serial of the latest packet transmitted, kept in "fifo" only
  rxSerial        \* serial of the latest packet received

senderVars   == <<txStatus, egress, sent, nextSequence, txRing, todo, window,
                  windowMax, windowMin, fastRounds, mediumRounds, settled>>
windowVars   == <<window, windowMax, windowMin, fastRounds, mediumRounds>>
receiverVars == <<rxStatus, nextRx, rxRing, rxBusy, delivered, arrived>>
vars         == <<txStatus, egress, sent, nextSequence, txRing, todo, window,
                  windowMax, windowMin, fastRounds, mediumRounds, settled,
                  rxStatus, nextRx, rxRing, rxBusy, delivered, arrived,
                  data, proofs, txSerial, rxSerial>>

Message  == 1 .. MaxSend
Sequence == 0 .. (SEQ_MODULUS - 1)
Receipts == {"NONE", "SENT", "FAILED", "CULLED", "DELIVERED"}

(* receipt is the status of the receipt of the packet's copy-th copy.      *)
Envelope == [msg : Message, sequence : Sequence, tries : 1 .. MAX_TRIES,
             copy : 1 .. MAX_TRIES, receipt : Receipts, packetSent : BOOLEAN]
LinkPacket == [msg : Message, sequence : Sequence, copy : 1 .. MAX_TRIES,
               serial : Nat]

-----------------------------------------------------------------------------
Init ==
  /\ txStatus = "ACTIVE" /\ egress = TRUE
  /\ sent = 0 /\ nextSequence = 0 /\ txRing = {} /\ todo = {}
  /\ window = WINDOW /\ windowMax = WINDOW_MAX_SLOW /\ windowMin = WINDOW_MIN
  /\ fastRounds = 0 /\ mediumRounds = 0 /\ settled = {}
  /\ rxStatus = "NO_CHANNEL" /\ nextRx = 0 /\ rxRing = {} /\ rxBusy = FALSE
  /\ delivered = <<>> /\ arrived = {}
  /\ data = {} /\ proofs = {} /\ txSerial = 0 /\ rxSerial = 0

(* The sequence number after s; a bug would let the 16-bit counter grow.    *)
UnwrappedAfter(s) == s + 1
After(s) == (s + 1) % SEQ_MODULUS

(* The envelopes is_ready_to_send() counts: those not known delivered.     *)
Unproved == {e \in txRing : e.receipt # "DELIVERED"}

isReadyToSend == txStatus = "ACTIVE" /\ Cardinality(Unproved) < window

(* Handing a link packet to Transport::outbound: it reaches the network    *)
(* when there is an interface to transmit on.                              *)
Transmit(m, seq, copy) ==
  IF egress
  THEN /\ txSerial' = IF Network = "fifo" THEN txSerial + 1 ELSE 0
       /\ data' = data \cup {[msg |-> m, sequence |-> seq, copy |-> copy,
                              serial |-> txSerial']}
  ELSE UNCHANGED <<data, txSerial>>

(* Channel::send.  The code bounds how many envelopes are unproved, not    *)
(* how far they are apart: an old one may wait for its deadline while its  *)
(* successors are sent and proved.  MaxLead stands for how many of them    *)
(* fit in that time.  A packet no interface takes is put in the ring all   *)
(* the same, without a receipt and with its "sent" flag down.              *)
send ==
  /\ todo = {} /\ isReadyToSend
  /\ sent < MaxSend /\ \A e \in txRing : sent - e.msg < MaxLead
  /\ sent' = sent + 1
  /\ nextSequence' = After(nextSequence)
  /\ txRing' = txRing \cup
       {[msg |-> sent + 1, sequence |-> nextSequence, tries |-> 1,
         copy |-> 1, receipt |-> IF egress THEN "SENT" ELSE "NONE", packetSent |-> egress]}
  /\ Transmit(sent + 1, nextSequence, 1)
  /\ UNCHANGED <<txStatus, egress, todo, windowVars, settled, receiverVars,
                 proofs, rxSerial>>

-----------------------------------------------------------------------------
(***************************************************************************)
(* Channel::poll, one step per envelope, oldest first.                     *)
(***************************************************************************)

(* A round trip that earns the channel a higher ceiling.                   *)
earnsMedium(rtt) == /\ rtt = "medium" /\ windowMax < WINDOW_MAX_MEDIUM
                    /\ mediumRounds + 1 = FAST_RATE_THRESHOLD
earnsFast(rtt)   == /\ rtt = "fast" /\ windowMax < WINDOW_MAX_FAST
                    /\ fastRounds + 1 = FAST_RATE_THRESHOLD

(* channelWindowOpen.  rtt = 0 ("none") opens the window and no more.      *)
windowOpen(rtt) ==
  /\ window' = IF window < windowMax THEN window + 1 ELSE window
  /\ fastRounds' = CASE rtt = "none" -> fastRounds
                     [] rtt = "fast" -> fastRounds + 1
                     [] OTHER        -> 0
  /\ mediumRounds' = CASE rtt = "slow"   -> 0
                       [] rtt = "medium" -> mediumRounds + 1
                       [] OTHER          -> mediumRounds
  /\ windowMax' = CASE earnsMedium(rtt) -> WINDOW_MAX_MEDIUM
                    [] earnsFast(rtt)   -> WINDOW_MAX_FAST
                    [] OTHER            -> windowMax
  /\ windowMin' = CASE earnsMedium(rtt) -> WINDOW_MIN_LIMIT_MEDIUM
                    [] earnsFast(rtt)   -> WINDOW_MIN_LIMIT_FAST
                    [] OTHER            -> windowMin

(* channelWindowClose, and the same without the test of the floor.         *)
windowCloseUnfloored ==
  /\ window' = window - 1
  /\ UNCHANGED <<windowMax, windowMin, fastRounds, mediumRounds>>
windowClose ==
  /\ window' = IF window <= windowMin THEN window ELSE window - 1
  /\ windowMax' = IF window > windowMin /\ windowMax > windowMin + WINDOW_FLEXIBILITY
                  THEN windowMax - 1 ELSE windowMax
  /\ UNCHANGED <<windowMin, fastRounds, mediumRounds>>

pollBegin ==
  /\ txStatus = "ACTIVE" /\ todo = {} /\ txRing # {}
  /\ todo' = {e.msg : e \in txRing}
  /\ UNCHANGED <<txStatus, egress, sent, nextSequence, txRing, windowVars, settled,
                 receiverVars, data, proofs, txSerial, rxSerial>>

(* e is the envelope the loop of poll() has come to.                       *)
Visited(e) == e.msg \in todo /\ \A m \in todo : e.msg <= m

pollDelivered(e) ==
  /\ Visited(e) /\ e.receipt = "DELIVERED"
  /\ todo' = todo \ {e.msg}
  /\ txRing' = txRing \ {e}
  /\ settled' = settled \cup {e.msg}
  /\ \E rtt \in RttClasses : windowOpen(rtt)
  /\ UNCHANGED <<txStatus, egress, sent, nextSequence, receiverVars, data, proofs,
                 txSerial, rxSerial>>

(* The deadline has not passed, and the receipt was not culled.            *)
pollWaits(e) ==
  /\ Visited(e) /\ e.receipt \notin {"DELIVERED", "CULLED"}
  /\ todo' = todo \ {e.msg}
  /\ UNCHANGED <<txStatus, egress, sent, nextSequence, txRing, windowVars, settled,
                 receiverVars, data, proofs, txSerial, rxSerial>>

(* The deadline has passed or the receipt was culled: Packet::resend.  When *)
(* no interface takes the new packet the old receipt stays, and the packet *)
(* is no longer marked as sent.                                            *)
pollResend(e) ==
  /\ Visited(e) /\ e.receipt # "DELIVERED"
  /\ e.tries < MAX_TRIES /\ e.packetSent
  /\ todo' = todo \ {e.msg}
  /\ windowClose
  /\ txRing' = (txRing \ {e}) \cup
       {[e EXCEPT !.tries = @ + 1,
                  !.copy = IF egress THEN e.tries + 1 ELSE @,
                  !.receipt = IF egress THEN "SENT" ELSE @,
                  !.packetSent = egress]}
  /\ Transmit(e.msg, e.sequence, e.tries + 1)
  /\ UNCHANGED <<txStatus, egress, sent, nextSequence, settled, receiverVars,
                 proofs, rxSerial>>

(* Packet::resend throws std::logic_error on a packet not marked as sent,  *)
(* and nothing between poll() and the daemon's main loop catches it.       *)
pollThrows(e) ==
  /\ Visited(e) /\ e.receipt # "DELIVERED"
  /\ e.tries < MAX_TRIES /\ ~ e.packetSent
  /\ txStatus' = "ABORTED"
  /\ txRing' = {} /\ todo' = {}
  /\ UNCHANGED <<egress, sent, nextSequence, windowVars, settled, receiverVars,
                 data, proofs, txSerial, rxSerial>>

(* The tries are used up: _shutdown() and Link::teardown().  The test       *)
(* includes the last try itself; one try later never comes.                *)
pollExhaustedLate(e) ==
  /\ Visited(e) /\ e.receipt # "DELIVERED"
  /\ e.tries > MAX_TRIES
  /\ txStatus' = "CLOSED"
  /\ txRing' = {} /\ todo' = {}
  /\ UNCHANGED <<egress, sent, nextSequence, windowVars, settled, receiverVars,
                 data, proofs, txSerial, rxSerial>>
pollExhausted(e) ==
  /\ Visited(e) /\ e.receipt # "DELIVERED"
  /\ e.tries >= MAX_TRIES
  /\ txStatus' = "CLOSED"
  /\ txRing' = {} /\ todo' = {}
  /\ UNCHANGED <<egress, sent, nextSequence, windowVars, settled, receiverVars,
                 data, proofs, txSerial, rxSerial>>

-----------------------------------------------------------------------------
(***************************************************************************)
(* What else happens to the sending end, between two calls of poll().      *)
(***************************************************************************)

(* PacketReceipt::validate_link_proof: a proof matches the receipt of the  *)
(* packet whose hash it carries, while Transport still lists the receipt.  *)
proofReceived(e) ==
  /\ todo = {} /\ e.receipt = "SENT"
  /\ [msg |-> e.msg, copy |-> e.copy] \in proofs
  /\ txRing' = (txRing \ {e}) \cup {[e EXCEPT !.receipt = "DELIVERED"]}
  /\ UNCHANGED <<txStatus, egress, sent, nextSequence, todo, windowVars, settled,
                 receiverVars, data, proofs, txSerial, rxSerial>>

(* PacketReceipt::check_timeout from Transport::jobs: the receipt times    *)
(* out, or is culled because MAX_RECEIPTS are outstanding.                 *)
receiptConcluded(e) ==
  /\ todo = {} /\ e.receipt = "SENT"
  /\ \E status \in {"FAILED", "CULLED"} :
       txRing' = (txRing \ {e}) \cup {[e EXCEPT !.receipt = status]}
  /\ UNCHANGED <<txStatus, egress, sent, nextSequence, todo, windowVars, settled,
                 receiverVars, data, proofs, txSerial, rxSerial>>

(* The link closes under the channel: LINKCLOSE, watchdog, consumer gone.  *)
senderShutdown ==
  /\ todo = {} /\ txStatus = "ACTIVE"
  /\ txStatus' = "CLOSED"
  /\ txRing' = {}
  /\ UNCHANGED <<egress, sent, nextSequence, todo, windowVars, settled,
                 receiverVars, data, proofs, txSerial, rxSerial>>

(* The last interface deregisters, or one registers again.                 *)
egressChanges ==
  /\ EgressMayFail /\ todo = {}
  /\ egress' = ~ egress
  /\ UNCHANGED <<txStatus, sent, nextSequence, txRing, todo, windowVars, settled,
                 receiverVars, data, proofs, txSerial, rxSerial>>

-----------------------------------------------------------------------------
(***************************************************************************)
(* The receiving end.                                                      *)
(***************************************************************************)

(* Link::get_channel.  A CHANNEL packet that comes before it is not proved *)
(* and leaves no trace, so it is as good as lost.                          *)
getChannel ==
  /\ rxStatus = "NO_CHANNEL"
  /\ rxStatus' = "OPEN"
  /\ UNCHANGED <<senderVars, nextRx, rxRing, rxBusy, delivered, arrived, data,
                 proofs, txSerial, rxSerial>>

Arrivable(p) == Network = "fifo" => p.serial > rxSerial

(* What may still arrive once p has.                                       *)
Remaining(p) == CASE Network = "any"      -> data
                  [] Network = "fifo"     -> {q \in data : q.serial > p.serial}
                  [] Network = "lossless" -> data \ {p}

(* The out-of-window guard of _receive, and two ways to get it wrong: to    *)
(* forget that the window may reach over the wrap, and to refuse the very  *)
(* number that is due.                                                     *)
StaleIgnoringWrap(seq) == seq < nextRx
StaleWhenDue(seq) == seq <= nextRx
Stale(seq) ==
  LET window_overflow == (nextRx + WINDOW_MAX) % SEQ_MODULUS
  IN seq < nextRx /\ (window_overflow < nextRx => seq > window_overflow)

Duplicate(seq) == \E held \in rxRing : held.sequence = seq

(* The CHANNEL case of Link::receive: the packet is proved first, and      *)
(* _receive() then decides what to do with what it carries.                *)
receive(p) ==
  /\ rxStatus = "OPEN" /\ ~ rxBusy /\ Arrivable(p)
  /\ proofs' = proofs \cup {[msg |-> p.msg, copy |-> p.copy]}
  /\ IF Stale(p.sequence) \/ Duplicate(p.sequence)
     THEN UNCHANGED <<rxRing, rxBusy, arrived>>
     ELSE /\ rxRing' = rxRing \cup {[sequence |-> p.sequence, msg |-> p.msg]}
          /\ rxBusy' = TRUE
          /\ arrived' = arrived \cup {p.msg}
  /\ rxSerial' = p.serial
  /\ data' = Remaining(p)
  /\ UNCHANGED <<senderVars, rxStatus, nextRx, delivered, txSerial>>

(* One round of the delivery loop of _receive, and its end.  The ring is   *)
(* sorted, but its front is not always due; and the loop goes on for as    *)
(* long as something is.                                                   *)
deliverFront(held) ==
  /\ rxBusy /\ \A other \in rxRing : held.sequence <= other.sequence
  /\ rxRing' = rxRing \ {held}
  /\ nextRx' = After(held.sequence)
  /\ delivered' = Append(delivered, held.msg)
  /\ UNCHANGED <<senderVars, rxStatus, rxBusy, arrived, data, proofs, txSerial, rxSerial>>
deliver(held) ==
  /\ rxBusy /\ held.sequence = nextRx
  /\ rxRing' = rxRing \ {held}
  /\ nextRx' = After(nextRx)
  /\ delivered' = Append(delivered, held.msg)
  /\ UNCHANGED <<senderVars, rxStatus, rxBusy, arrived, data, proofs, txSerial, rxSerial>>

receiveEnds ==
  /\ rxBusy /\ ~ Duplicate(nextRx)
  /\ rxBusy' = FALSE
  /\ UNCHANGED <<senderVars, rxStatus, nextRx, rxRing, delivered, arrived, data,
                 proofs, txSerial, rxSerial>>

receiverShutdown ==
  /\ rxStatus = "OPEN" /\ ~ rxBusy
  /\ rxStatus' = "CLOSED"
  /\ rxRing' = {}
  /\ UNCHANGED <<senderVars, nextRx, rxBusy, delivered, arrived, data, proofs,
                 txSerial, rxSerial>>

-----------------------------------------------------------------------------
PollStep(e) == \/ pollDelivered(e) \/ pollWaits(e) \/ pollResend(e)
               \/ pollThrows(e) \/ pollExhausted(e)

Poll == pollBegin \/ \E e \in txRing : PollStep(e)

Next ==
  \/ send \/ Poll
  \/ \E e \in txRing : proofReceived(e) \/ receiptConcluded(e)
  \/ senderShutdown \/ egressChanges
  \/ getChannel \/ (\E p \in data : receive(p))
  \/ (\E held \in rxRing : deliver(held)) \/ receiveEnds \/ receiverShutdown

Spec == Init /\ [][Next]_vars

(***************************************************************************)
(* Fairness.  The daemon polls every open channel on every wake and a      *)
(* wake always comes (nextDeadline is finite), so the loop of poll() goes  *)
(* on; a deadline is a finite time, so an envelope visited again and again *)
(* is overdue at some visit.  The receiving task finishes its loop.        *)
(* Nothing is assumed of the network, nor of the consumers.                *)
(***************************************************************************)
pollOverdue(m) == \E e \in txRing : e.msg = m /\ (pollResend(e) \/ pollThrows(e)
                                                  \/ pollExhausted(e))

Fairness ==
  /\ WF_vars(Poll)
  /\ \A m \in Message : SF_vars(pollOverdue(m))
  /\ WF_vars(receiveEnds \/ \E held \in rxRing : deliver(held))

FairSpec == Spec /\ Fairness

-----------------------------------------------------------------------------
(***************************************************************************)
(* Properties.                                                             *)
(***************************************************************************)

TypeOK ==
  /\ txStatus \in {"ACTIVE", "CLOSED", "ABORTED"}
  /\ egress \in BOOLEAN
  /\ sent \in 0 .. MaxSend /\ nextSequence \in Sequence
  /\ txRing \subseteq Envelope /\ todo \subseteq Message
  /\ window \in Nat /\ windowMax \in Nat /\ windowMin \in Nat
  /\ fastRounds \in Nat /\ mediumRounds \in Nat
  /\ settled \subseteq Message
  /\ rxStatus \in {"NO_CHANNEL", "OPEN", "CLOSED"}
  /\ nextRx \in Sequence
  /\ rxRing \subseteq [sequence : Sequence, msg : Message]
  /\ rxBusy \in BOOLEAN
  /\ delivered \in Seq(Message) /\ arrived \subseteq Message
  /\ data \subseteq LinkPacket
  /\ proofs \subseteq [msg : Message, copy : 1 .. MAX_TRIES]
  /\ txSerial \in Nat /\ rxSerial \in Nat

(* Channel.h:93 "Delivered in strict sequence order": the consumer sees a  *)
(* prefix of what the other consumer sent, whatever was lost, repeated or  *)
(* overtaken and however often poll() sent an envelope again.              *)
DeliveredInOrder == \A i \in 1 .. Len(delivered) : delivered[i] = i

(* rnsd.cpp:8263, INTERNALS 5.6: `outstanding' is a delivery receipt for   *)
(* the whole channel.  While both ends are open, a message that is no      *)
(* longer in the sender's ring has been taken in by the receiver, and when *)
(* the ring is empty the receiving consumer has been given everything.     *)
EmptyRingMeansReceived ==
  txStatus = "ACTIVE" =>
    /\ \A m \in 1 .. sent : m \in arrived \/ \E e \in txRing : e.msg = m
    /\ txRing = {} /\ rxStatus = "OPEN" /\ ~ rxBusy => Len(delivered) = sent

(* channelWindowOpen / channelWindowClose: the window stays between the    *)
(* floor every channel has and its own moving ceiling, so it can neither   *)
(* wrap below zero, nor close for good, nor outgrow the guard span that    *)
(* _receive checks sequence numbers against.                               *)
WindowBounds ==
  /\ WINDOW_MIN <= window /\ window <= windowMax /\ windowMax <= WINDOW_MAX
  /\ WINDOW_MIN <= windowMin /\ windowMin <= windowMax

(* poll(): a failed resend is a retry like any other; an envelope leaves   *)
(* the ring proved or with the link (rnsd.cpp:8263: "exactly two ends").   *)
TwoEnds == txStatus # "ABORTED"

(* Every envelope accepted leaves the ring: proved, or the link closes.    *)
EnvelopeEnds ==
  \A m \in Message : (sent >= m) ~> (m \in settled \/ txStatus # "ACTIVE")

(* A proved message reaches the consumer unless an end closes: a gap in    *)
(* front of it is filled by poll() or ends the link.                       *)
SettledIsDelivered ==
  \A m \in Message :
    (m \in settled) ~> (\/ Len(delivered) >= m
                        \/ txStatus # "ACTIVE" \/ rxStatus = "CLOSED")

(* The channel implements the service it promises.                         *)
Service == INSTANCE ChannelService
ImplementsService == Service!Spec
=============================================================================
