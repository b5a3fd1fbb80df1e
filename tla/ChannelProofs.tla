---------------------------- MODULE ChannelProofs ----------------------------
(***************************************************************************)
(* Proofs about Channel, for every value of its constants: any window      *)
(* profile, any number of tries, any of the networks, with or without      *)
(* interfaces that come and go.  Then proofs about ChannelBridge, rnsd's   *)
(* table of channels above it: any number of slots, Links and Resources,   *)
(* any outbox, any windows.                                                *)
(***************************************************************************)
EXTENDS Channel, ChannelBridge, FiniteSetTheorems, WellFoundedInduction, TLAPS

-----------------------------------------------------------------------------
(***************************************************************************)
(* Type correctness.                                                       *)
(***************************************************************************)

(* Sequence arithmetic stays inside the sequence space.                    *)
LEMMA NextInSequence ==
  ASSUME NEW s \in Sequence
  PROVE  After(s) \in Sequence
BY SequenceAssumption DEF Sequence, After

(* The window operations keep the counters natural numbers.                *)
LEMMA WindowOpenType ==
  ASSUME TypeOK, NEW rtt \in RttClasses, windowOpen(rtt)
  PROVE  /\ window' \in Nat /\ windowMax' \in Nat /\ windowMin' \in Nat
         /\ fastRounds' \in Nat /\ mediumRounds' \in Nat
<1>1. /\ window \in Nat /\ windowMax \in Nat /\ windowMin \in Nat
      /\ fastRounds \in Nat /\ mediumRounds \in Nat
  BY DEF TypeOK
<1>2. window' \in Nat /\ fastRounds' \in Nat /\ mediumRounds' \in Nat
  BY <1>1 DEF windowOpen
<1>3. windowMax' \in Nat /\ windowMin' \in Nat
  BY <1>1, WindowAssumption DEF windowOpen
<1> QED BY <1>2, <1>3

LEMMA WindowCloseType ==
  ASSUME TypeOK, windowClose
  PROVE  /\ window' \in Nat /\ windowMax' \in Nat /\ windowMin' \in Nat
         /\ fastRounds' \in Nat /\ mediumRounds' \in Nat
BY WindowAssumption DEF TypeOK, windowClose

LEMMA TransmitType ==
  ASSUME TypeOK, NEW m \in Message, NEW seq \in Sequence,
         NEW copy \in 1 .. MAX_TRIES, Transmit(m, seq, copy)
  PROVE  /\ data' \subseteq LinkPacket
         /\ txSerial' \in Nat
<1>1. txSerial' \in Nat
  BY DEF TypeOK, Transmit
<1>2. CASE egress
  <2>1. [msg |-> m, sequence |-> seq, copy |-> copy, serial |-> txSerial'] \in LinkPacket
    BY <1>1 DEF LinkPacket
  <2> QED BY <1>1, <1>2, <2>1 DEF TypeOK, Transmit
<1>3. CASE ~ egress
  BY <1>1, <1>3 DEF TypeOK, Transmit
<1> QED BY <1>2, <1>3

(* Every handler of either end keeps every variable in its type.           *)
LEMMA TypeStep == TypeOK /\ [Next]_vars => TypeOK'
<1> SUFFICES ASSUME TypeOK, [Next]_vars PROVE TypeOK'
  OBVIOUS
<1> USE SequenceAssumption
<1>1. CASE send
  <2>1. sent + 1 \in Message /\ nextSequence \in Sequence
    BY <1>1 DEF TypeOK, send, Message
  <2>2. nextSequence' \in Sequence
    BY <1>1, <2>1, NextInSequence DEF send
  <2>3. [msg |-> sent + 1, sequence |-> nextSequence, tries |-> 1, copy |-> 1,
         receipt |-> IF egress THEN "SENT" ELSE "NONE", packetSent |-> egress]
          \in Envelope
    BY <2>1 DEF TypeOK, Envelope, Receipts
  <2>4. txRing' \subseteq Envelope
    BY <1>1, <2>3 DEF TypeOK, send
  <2>5. data' \subseteq LinkPacket /\ txSerial' \in Nat
    BY <1>1, <2>1, TransmitType DEF send
  <2> QED BY <1>1, <2>2, <2>4, <2>5 DEF TypeOK, send, windowVars, receiverVars
<1>2. CASE pollBegin
  BY <1>2 DEF TypeOK, pollBegin, windowVars, receiverVars, Envelope
<1>3. ASSUME NEW e \in txRing, PollStep(e) PROVE TypeOK'
  <2>0. e \in Envelope /\ e.msg \in Message /\ e.sequence \in Sequence
        /\ e.tries \in 1 .. MAX_TRIES
    BY DEF TypeOK, Envelope
  <2>1. CASE pollDelivered(e)
    <3>1. PICK rtt \in RttClasses : windowOpen(rtt)
      BY <2>1 DEF pollDelivered
    <3> QED BY <2>0, <2>1, <3>1, WindowOpenType
            DEF TypeOK, pollDelivered, receiverVars
  <2>2. CASE pollWaits(e)
    BY <2>2 DEF TypeOK, pollWaits, windowVars, receiverVars
  <2>3. CASE pollResend(e)
    <3>1. e.tries + 1 \in 1 .. MAX_TRIES
      BY <2>0, <2>3 DEF pollResend
    <3>2. [e EXCEPT !.tries = @ + 1,
                    !.copy = IF egress THEN e.tries + 1 ELSE @,
                    !.receipt = IF egress THEN "SENT" ELSE @,
                    !.packetSent = egress] \in Envelope
      BY <2>0, <3>1 DEF TypeOK, Envelope, Receipts
    <3>3. txRing' \subseteq Envelope
      BY <2>3, <3>2 DEF TypeOK, pollResend
    <3>4. data' \subseteq LinkPacket /\ txSerial' \in Nat
      BY <2>0, <2>3, <3>1, TransmitType DEF pollResend
    <3> QED BY <2>3, <3>3, <3>4, WindowCloseType
            DEF TypeOK, pollResend, receiverVars
  <2>4. CASE pollThrows(e)
    BY <2>4 DEF TypeOK, pollThrows, windowVars, receiverVars
  <2>5. CASE pollExhausted(e)
    BY <2>5 DEF TypeOK, pollExhausted, windowVars, receiverVars
  <2> QED BY <1>3, <2>1, <2>2, <2>3, <2>4, <2>5 DEF PollStep
<1>4. ASSUME NEW e \in txRing, proofReceived(e) \/ receiptConcluded(e) PROVE TypeOK'
  <2>1. \A status \in Receipts : [e EXCEPT !.receipt = status] \in Envelope
    BY DEF TypeOK, Envelope
  <2>2. txRing' \subseteq Envelope
    <3>1. CASE proofReceived(e)
      BY <2>1, <3>1 DEF TypeOK, proofReceived, Receipts
    <3>2. CASE receiptConcluded(e)
      BY <2>1, <3>2 DEF TypeOK, receiptConcluded, Receipts
    <3> QED BY <1>4, <3>1, <3>2
  <2> QED BY <1>4, <2>2 DEF TypeOK, proofReceived, receiptConcluded, windowVars,
                            receiverVars
<1>5. CASE senderShutdown
  BY <1>5 DEF TypeOK, senderShutdown, windowVars, receiverVars
<1>6. CASE egressChanges
  BY <1>6 DEF TypeOK, egressChanges, windowVars, receiverVars
<1>7. CASE getChannel
  BY <1>7 DEF TypeOK, getChannel, senderVars
<1>8. ASSUME NEW p \in data, receive(p) PROVE TypeOK'
  <2>0. Remaining(p) \subseteq data
    BY DEF Remaining, Networks
  <2>1. p \in LinkPacket
    BY DEF TypeOK
  <2>2. /\ [msg |-> p.msg, copy |-> p.copy] \in [msg : Message, copy : 1 .. MAX_TRIES]
        /\ [sequence |-> p.sequence, msg |-> p.msg] \in [sequence : Sequence, msg : Message]
        /\ p.serial \in Nat /\ p.msg \in Message
    BY <2>1 DEF LinkPacket
  <2>3. rxRing' \subseteq [sequence : Sequence, msg : Message] /\ rxBusy' \in BOOLEAN
        /\ arrived' \subseteq Message
    BY <1>8, <2>2 DEF TypeOK, receive
  <2> QED BY <1>8, <2>0, <2>2, <2>3 DEF TypeOK, receive, senderVars
<1>9. ASSUME NEW held \in rxRing, deliver(held) PROVE TypeOK'
  <2>1. held.msg \in Message /\ nextRx \in Sequence
    BY DEF TypeOK
  <2>2. nextRx' \in Sequence
    BY <1>9, <2>1, NextInSequence DEF deliver
  <2> QED BY <1>9, <2>1, <2>2 DEF TypeOK, deliver, senderVars
<1>10. CASE receiveEnds
  BY <1>10 DEF TypeOK, receiveEnds, senderVars
<1>11. CASE receiverShutdown
  BY <1>11 DEF TypeOK, receiverShutdown, senderVars
<1>12. CASE UNCHANGED vars
  BY <1>12 DEF TypeOK, vars
<1> QED BY <1>1, <1>2, <1>3, <1>4, <1>5, <1>6, <1>7, <1>8, <1>9, <1>10, <1>11, <1>12
        DEF Next, Poll

(* A channel starts with every variable in its type.                       *)
LEMMA TypeInit == Init => TypeOK
<1>1. 0 \in Sequence /\ 0 \in 0 .. MaxSend
  BY SequenceAssumption DEF Sequence
<1>2. WINDOW \in Nat /\ WINDOW_MIN \in Nat /\ WINDOW_MAX_SLOW \in Nat
  BY WindowAssumption
<1>3. <<>> \in Seq(Message)
  OBVIOUS
<1>4. ASSUME NEW S PROVE {} \subseteq S
  OBVIOUS
<1> SUFFICES ASSUME Init PROVE TypeOK
  OBVIOUS
<1>5. /\ txRing \subseteq Envelope /\ todo \subseteq Message /\ settled \subseteq Message
      /\ rxRing \subseteq [sequence : Sequence, msg : Message] /\ arrived \subseteq Message
      /\ data \subseteq LinkPacket
      /\ proofs \subseteq [msg : Message, copy : 1 .. MAX_TRIES]
  BY <1>4 DEF Init
<1>6. delivered \in Seq(Message)
  BY <1>3 DEF Init
<1> QED BY <1>1, <1>2, <1>5, <1>6 DEF Init, TypeOK

(* Both ends of a channel keep every variable in its type.                 *)
THEOREM TypeCorrect == Spec => []TypeOK
BY TypeInit, TypeStep, PTL DEF Spec

-----------------------------------------------------------------------------
(***************************************************************************)
(* The window.  Its bounds are inductive as they stand.                    *)
(***************************************************************************)

LEMMA WindowOpenBounds ==
  ASSUME TypeOK, WindowBounds, NEW rtt \in RttClasses, windowOpen(rtt)
  PROVE  WindowBounds'
<1>1. /\ window \in Nat /\ windowMax \in Nat /\ windowMin \in Nat
  BY DEF TypeOK
<1>2. window' <= windowMax /\ WINDOW_MIN <= window'
  BY <1>1, WindowAssumption DEF windowOpen, WindowBounds
<1>3. windowMax <= windowMax' /\ windowMax' <= WINDOW_MAX
  BY <1>1, WindowAssumption
  DEF windowOpen, WindowBounds, WINDOW_MAX, earnsMedium, earnsFast
<1>4. WINDOW_MIN <= windowMin' /\ windowMin' <= windowMax'
  BY <1>1, WindowAssumption
  DEF windowOpen, WindowBounds, WINDOW_MAX, earnsMedium, earnsFast
<1>5. window' \in Nat /\ windowMax' \in Nat
  BY WindowOpenType
<1> QED BY <1>1, <1>2, <1>3, <1>4, <1>5 DEF WindowBounds, WINDOW_MAX

LEMMA WindowCloseBounds ==
  ASSUME TypeOK, WindowBounds, windowClose
  PROVE  WindowBounds'
<1>1. /\ window \in Nat /\ windowMax \in Nat /\ windowMin \in Nat
      /\ WINDOW_MIN <= window /\ window <= windowMax /\ windowMax <= WINDOW_MAX
      /\ WINDOW_MIN <= windowMin /\ windowMin <= windowMax
  BY DEF TypeOK, WindowBounds
<1>2. WINDOW_MIN \in Nat /\ WINDOW_MAX \in Nat /\ WINDOW_FLEXIBILITY \in Nat
  BY WindowAssumption DEF WINDOW_MAX
<1>3. windowMin' = windowMin /\ window' \in Nat /\ WINDOW_MIN <= window' /\ window' <= window
      /\ (window' # window => window > windowMin)
  BY <1>1, <1>2 DEF windowClose
<1>4. windowMax' \in Nat /\ windowMax' <= windowMax /\ windowMin <= windowMax'
      /\ window' <= windowMax'
  BY <1>1, <1>2 DEF windowClose
<1> QED BY <1>1, <1>2, <1>3, <1>4 DEF WindowBounds, WINDOW_MAX

(* The window of a channel stays between its floor and its ceiling.        *)
THEOREM WindowSafe == Spec => []WindowBounds
<1>1. Init => WindowBounds
  BY WindowAssumption DEF Init, WindowBounds, WINDOW_MAX
<1>2. ASSUME TypeOK, WindowBounds, [Next]_vars PROVE WindowBounds'
  <2>1. ASSUME NEW e \in txRing, PollStep(e) PROVE WindowBounds'
    <3>1. CASE pollDelivered(e)
      <4>1. PICK rtt \in RttClasses : windowOpen(rtt)
        BY <3>1 DEF pollDelivered
      <4> QED BY <1>2, <4>1, WindowOpenBounds
    <3>2. CASE pollResend(e)
      BY <1>2, <3>2, WindowCloseBounds DEF pollResend
    <3>3. CASE pollWaits(e) \/ pollThrows(e) \/ pollExhausted(e)
      BY <1>2, <3>3 DEF pollWaits, pollThrows, pollExhausted, windowVars, WindowBounds
    <3> QED BY <2>1, <3>1, <3>2, <3>3 DEF PollStep
  <2>2. CASE UNCHANGED windowVars
    BY <1>2, <2>2 DEF windowVars, WindowBounds
  <2>3. CASE send \/ pollBegin \/ senderShutdown \/ egressChanges
    BY <2>2, <2>3 DEF send, pollBegin, senderShutdown, egressChanges
  <2>4. ASSUME NEW e \in txRing, proofReceived(e) \/ receiptConcluded(e)
        PROVE  WindowBounds'
    BY <2>2, <2>4 DEF proofReceived, receiptConcluded
  <2>5. CASE getChannel \/ receiveEnds \/ receiverShutdown
    BY <2>2, <2>5 DEF getChannel, receiveEnds, receiverShutdown, senderVars, windowVars
  <2>6. ASSUME NEW p \in data, receive(p) PROVE WindowBounds'
    BY <2>2, <2>6 DEF receive, senderVars, windowVars
  <2>7. ASSUME NEW held \in rxRing, deliver(held) PROVE WindowBounds'
    BY <2>2, <2>7 DEF deliver, senderVars, windowVars
  <2>8. CASE UNCHANGED vars
    BY <2>2, <2>8 DEF vars, windowVars
  <2> QED BY <1>2, <2>1, <2>3, <2>4, <2>5, <2>6, <2>7, <2>8 DEF Next, Poll
<1> QED BY <1>1, <1>2, TypeCorrect, PTL DEF Spec

-----------------------------------------------------------------------------
(***************************************************************************)
(* Delivery.  As long as the sequence numbers have not wrapped, a message  *)
(* and its sequence number determine each other, and everything the        *)
(* channel promises follows from where a message can be.                   *)
(***************************************************************************)
NoWrap == MaxSend < SEQ_MODULUS

(* Wherever a message is carried, its number is the one it was sent with.  *)
SequenceIsMessage ==
  /\ nextSequence = sent
  /\ \A e \in txRing : e.sequence = e.msg - 1 /\ e.msg <= sent
  /\ \A p \in data : p.sequence = p.msg - 1 /\ p.msg <= sent
  /\ \A held \in rxRing : held.sequence = held.msg - 1

(* What arrived is what was delivered and, while the receiver is open, the *)
(* envelopes it holds; outside the delivery loop none of those is due.     *)
ArrivedIsAccounted ==
  /\ nextRx = Len(delivered)
  /\ DeliveredInOrder
  /\ \A m \in arrived : m <= sent
  /\ \A m \in 1 .. Len(delivered) : m \in arrived
  /\ \A held \in rxRing : held.msg \in arrived
  /\ rxStatus # "CLOSED" =>
       \A m \in arrived : m <= Len(delivered) \/ \E held \in rxRing : held.msg = m
  /\ ~ rxBusy => ~ Duplicate(nextRx)

(* A proof, a DELIVERED receipt and a settled message each mean arrival.   *)
ProvedHasArrived ==
  /\ \A q \in proofs : q.msg \in arrived
  /\ \A e \in txRing : e.receipt = "DELIVERED" => e.msg \in arrived
  /\ settled \subseteq arrived

(* An open sender has lost track of nothing.                               *)
SentIsAccounted ==
  txStatus = "ACTIVE" =>
    \A m \in 1 .. sent : m \in settled \/ \E e \in txRing : e.msg = m

IInv == /\ TypeOK
        /\ SequenceIsMessage
        /\ ArrivedIsAccounted
        /\ ProvedHasArrived
        /\ SentIsAccounted

LEMMA IInit == NoWrap /\ Init => IInv
<1> SUFFICES ASSUME Init PROVE IInv
  OBVIOUS
<1>1. SequenceIsMessage
  BY DEF Init, SequenceIsMessage
<1>2. ArrivedIsAccounted
  BY DEF Init, ArrivedIsAccounted, DeliveredInOrder, Duplicate
<1>3. ProvedHasArrived /\ SentIsAccounted
  BY DEF Init, ProvedHasArrived, SentIsAccounted
<1> QED BY TypeInit, <1>1, <1>2, <1>3 DEF IInv

(* What a step of the sending end leaves alone of the receiving end.       *)
LEMMA SenderStep ==
  ASSUME IInv, sent \in Nat, sent' \in Nat, sent <= sent', UNCHANGED receiverVars
  PROVE  ArrivedIsAccounted'
BY DEF IInv, TypeOK, ArrivedIsAccounted, DeliveredInOrder, receiverVars, Duplicate, Message

(* send() gives the next message the next sequence number.                 *)
LEMMA SendStep == ASSUME NoWrap, IInv, send PROVE IInv'
<1> DEFINE new == [msg |-> sent + 1, sequence |-> nextSequence, tries |-> 1, copy |-> 1,
                   receipt |-> IF egress THEN "SENT" ELSE "NONE", packetSent |-> egress]
<1>1. sent \in Nat /\ sent' = sent + 1 /\ sent' <= MaxSend /\ nextSequence = sent
  BY SequenceAssumption DEF IInv, TypeOK, send, SequenceIsMessage
<1>2. txRing' = txRing \cup {new} /\ new.msg = sent + 1 /\ new.sequence = sent
  BY <1>1 DEF send
<1>3. nextSequence' = sent'
  BY <1>1, SequenceAssumption DEF send, After, NoWrap
<1>4. \A p \in data' : p \in data \/ (p.msg = sent + 1 /\ p.sequence = sent)
  BY <1>1 DEF send, Transmit
<1>5. \A e \in txRing : e.msg \in Nat /\ e.sequence \in Nat
  BY DEF IInv, TypeOK, Envelope, Message, Sequence
<1>6. \A p \in data : p.msg \in Nat /\ p.sequence \in Nat
  BY DEF IInv, TypeOK, LinkPacket, Message, Sequence
<1>7. SequenceIsMessage'
  <2>1. \A e \in txRing' : e.sequence = e.msg - 1 /\ e.msg <= sent'
    BY <1>1, <1>2, <1>5 DEF IInv, SequenceIsMessage
  <2>2. \A p \in data' : p.sequence = p.msg - 1 /\ p.msg <= sent'
    BY <1>1, <1>4, <1>6 DEF IInv, SequenceIsMessage
  <2> QED BY <1>3, <2>1, <2>2 DEF IInv, SequenceIsMessage, send, receiverVars
<1>8. ArrivedIsAccounted'
  BY <1>1, SenderStep DEF send
<1>9. ProvedHasArrived'
  BY <1>2 DEF IInv, ProvedHasArrived, send, receiverVars
<1>10. SentIsAccounted'
  <2>1. \A m \in 1 .. sent' : m \in 1 .. sent \/ m = new.msg
    BY <1>1, <1>2
  <2> QED BY <1>2, <2>1 DEF IInv, SentIsAccounted, send
<1> QED BY <1>7, <1>8, <1>9, <1>10, TypeStep DEF IInv, Next

(* An envelope whose receipt, copy or tries change stays the same message. *)
LEMMA RingUpdate ==
  ASSUME NoWrap, IInv, NEW e \in txRing, NEW f,
         f.msg = e.msg, f.sequence = e.sequence,
         f.receipt = "DELIVERED" => e.msg \in arrived,
         txRing' = (txRing \ {e}) \cup {f},
         \A p \in data' : p \in data \/ (p.msg = e.msg /\ p.sequence = e.sequence),
         UNCHANGED <<txStatus, sent, nextSequence, settled, receiverVars, proofs>>
  PROVE  /\ SequenceIsMessage' /\ ArrivedIsAccounted'
         /\ ProvedHasArrived' /\ SentIsAccounted'
<1>1. sent \in Nat /\ sent' = sent
  BY DEF IInv, TypeOK
<1>2. SequenceIsMessage'
  BY DEF IInv, SequenceIsMessage, receiverVars
<1>3. ArrivedIsAccounted'
  BY <1>1, SenderStep
<1>4. ProvedHasArrived'
  BY DEF IInv, ProvedHasArrived, receiverVars
<1>5. SentIsAccounted'
  <2>1. \A m \in 1 .. sent : (\E g \in txRing : g.msg = m) => \E g \in txRing' : g.msg = m
    OBVIOUS
  <2> QED BY <1>1, <2>1 DEF IInv, SentIsAccounted
<1> QED BY <1>2, <1>3, <1>4, <1>5

(* One visit of poll().                                                    *)
LEMMA PollStepStep == ASSUME NoWrap, IInv, NEW e \in txRing, PollStep(e) PROVE IInv'
<1>1. TypeOK'
  BY TypeStep DEF IInv, Next, Poll
<1>2. sent \in Nat /\ sent' = sent /\ e \in Envelope
  BY DEF IInv, TypeOK, PollStep, pollDelivered, pollWaits, pollResend, pollThrows,
         pollExhausted
<1>3. CASE pollDelivered(e)
  <2>1. ArrivedIsAccounted'
    BY <1>2, <1>3, SenderStep DEF pollDelivered
  <2>2. SequenceIsMessage'
    BY <1>3 DEF IInv, SequenceIsMessage, pollDelivered, receiverVars
  <2>3. ProvedHasArrived'
    BY <1>3 DEF IInv, ProvedHasArrived, pollDelivered, receiverVars
  <2>4. SentIsAccounted'
    BY <1>2, <1>3 DEF IInv, SentIsAccounted, pollDelivered
  <2> QED BY <1>1, <2>1, <2>2, <2>3, <2>4 DEF IInv
<1>4. CASE pollResend(e)
  <2> DEFINE f == [e EXCEPT !.tries = @ + 1,
                            !.copy = IF egress THEN e.tries + 1 ELSE @,
                            !.receipt = IF egress THEN "SENT" ELSE @,
                            !.packetSent = egress]
  <2>1. /\ f.msg = e.msg /\ f.sequence = e.sequence
        /\ f.receipt = "DELIVERED" => e.msg \in arrived
    BY <1>2, <1>4 DEF pollResend, Envelope
  <2>2. txRing' = (txRing \ {e}) \cup {f}
    BY <1>4 DEF pollResend
  <2>3. \A p \in data' : p \in data \/ (p.msg = e.msg /\ p.sequence = e.sequence)
    BY <1>4 DEF pollResend, Transmit
  <2>4. UNCHANGED <<txStatus, sent, nextSequence, settled, receiverVars, proofs>>
    BY <1>4 DEF pollResend
  <2> HIDE DEF f
  <2> QED BY <1>1, <2>1, <2>2, <2>3, <2>4, RingUpdate DEF IInv
<1>5. CASE pollWaits(e) \/ pollThrows(e) \/ pollExhausted(e)
  <2>1. ArrivedIsAccounted'
    BY <1>2, <1>5, SenderStep DEF pollWaits, pollThrows, pollExhausted
  <2>2. /\ txRing' \subseteq txRing
        /\ txStatus' = "ACTIVE" => txRing' = txRing /\ txStatus = txStatus'
        /\ UNCHANGED <<sent, nextSequence, settled, receiverVars, data, proofs>>
    BY <1>5 DEF pollWaits, pollThrows, pollExhausted
  <2>3. SequenceIsMessage' /\ ProvedHasArrived'
    BY <2>2 DEF IInv, SequenceIsMessage, ProvedHasArrived, receiverVars
  <2>4. SentIsAccounted'
    BY <2>2 DEF IInv, SentIsAccounted
  <2> QED BY <1>1, <2>1, <2>3, <2>4 DEF IInv
<1> QED BY <1>3, <1>4, <1>5 DEF PollStep

(* A proof, a timeout or a culled receipt between two polls.               *)
LEMMA ReceiptStep ==
  ASSUME NoWrap, IInv, NEW e \in txRing, proofReceived(e) \/ receiptConcluded(e)
  PROVE  IInv'
<1>1. TypeOK'
  BY TypeStep DEF IInv, Next
<1>2. e \in Envelope
  BY DEF IInv, TypeOK
<1>3. \A status \in Receipts : /\ [e EXCEPT !.receipt = status].msg = e.msg
                               /\ [e EXCEPT !.receipt = status].sequence = e.sequence
                               /\ [e EXCEPT !.receipt = status].receipt = status
  BY <1>2 DEF Envelope
<1>4. PICK status \in Receipts :
        /\ txRing' = (txRing \ {e}) \cup {[e EXCEPT !.receipt = status]}
        /\ status = "DELIVERED" => e.msg \in arrived
  <2>1. CASE proofReceived(e)
    BY <2>1 DEF proofReceived, Receipts, IInv, ProvedHasArrived
  <2>2. CASE receiptConcluded(e)
    BY <2>2 DEF receiptConcluded, Receipts
  <2> QED BY <2>1, <2>2
<1>5. /\ data' = data
      /\ UNCHANGED <<txStatus, sent, nextSequence, settled, receiverVars, proofs>>
  BY DEF proofReceived, receiptConcluded
<1> DEFINE f == [e EXCEPT !.receipt = status]
<1>6. /\ f.msg = e.msg /\ f.sequence = e.sequence
      /\ f.receipt = "DELIVERED" => e.msg \in arrived
      /\ txRing' = (txRing \ {e}) \cup {f}
  BY <1>3, <1>4
<1> HIDE DEF f
<1> QED BY <1>1, <1>5, <1>6, RingUpdate DEF IInv

(* A CHANNEL packet is proved, and taken in unless it had arrived before:  *)
(* short of a wrap, what the guard or the ring refuses is known already.   *)
LEMMA ReceiveStep == ASSUME NoWrap, IInv, NEW p \in data, receive(p) PROVE IInv'
<1>1. TypeOK'
  BY TypeStep DEF IInv, Next
<1>2. /\ p.msg \in Nat /\ p.sequence \in Nat /\ p.sequence = p.msg - 1 /\ p.msg <= sent
      /\ 1 <= p.msg /\ sent \in Nat /\ nextRx \in Nat
  BY SequenceAssumption
  DEF IInv, TypeOK, LinkPacket, Message, Sequence, SequenceIsMessage
<1>3. Remaining(p) \subseteq data
  BY SequenceAssumption DEF Remaining, Networks
<1>4. arrived \subseteq arrived' /\ p.msg \in arrived'
  <2>1. CASE Stale(p.sequence)
    BY <1>2, <2>1 DEF receive, Stale, IInv, ArrivedIsAccounted
  <2>2. CASE Duplicate(p.sequence)
    <3>1. PICK held \in rxRing : held.sequence = p.sequence
      BY <2>2 DEF Duplicate
    <3>2. held.msg = p.msg
      BY <1>2, <3>1 DEF IInv, TypeOK, SequenceIsMessage, Message
    <3> QED BY <2>2, <3>2 DEF receive, IInv, ArrivedIsAccounted
  <2>3. CASE ~ Stale(p.sequence) /\ ~ Duplicate(p.sequence)
    BY <2>3 DEF receive
  <2> QED BY <2>1, <2>2, <2>3
<1>5. SequenceIsMessage'
  <2>1. \A held \in rxRing' : held \in rxRing \/ held = [sequence |-> p.sequence, msg |-> p.msg]
    BY DEF receive
  <2>2. \A q \in data' : q \in data
    BY <1>3 DEF receive
  <2> QED BY <1>2, <2>1, <2>2 DEF IInv, SequenceIsMessage, receive, senderVars
<1>6. ArrivedIsAccounted'
  <2>1. CASE Stale(p.sequence) \/ Duplicate(p.sequence)
    BY <2>1 DEF receive, IInv, ArrivedIsAccounted, DeliveredInOrder, Duplicate, senderVars
  <2>2. CASE ~ (Stale(p.sequence) \/ Duplicate(p.sequence))
    <3> DEFINE new == [sequence |-> p.sequence, msg |-> p.msg]
    <3>1. /\ rxRing' = rxRing \cup {new} /\ new.msg = p.msg
          /\ arrived' = arrived \cup {p.msg} /\ rxBusy' = TRUE
      BY <2>2 DEF receive
    <3>2. UNCHANGED <<sent, rxStatus, nextRx, delivered>>
      BY DEF receive, senderVars
    <3> HIDE DEF new
    <3> QED BY <1>2, <3>1, <3>2 DEF IInv, ArrivedIsAccounted, DeliveredInOrder
  <2> QED BY <2>1, <2>2
<1>7. ProvedHasArrived'
  BY <1>4 DEF receive, IInv, ProvedHasArrived, senderVars
<1>8. SentIsAccounted'
  BY DEF receive, IInv, SentIsAccounted, senderVars
<1> QED BY <1>1, <1>5, <1>6, <1>7, <1>8 DEF IInv

(* The envelope that is due carries the message after the last delivered.  *)
LEMMA DueIsNext ==
  ASSUME IInv, NEW held \in rxRing, held.sequence = nextRx
  PROVE  /\ held.msg = Len(delivered) + 1 /\ held.msg \in arrived
         /\ held.msg <= sent /\ Len(delivered) \in Nat
<1>1. held.msg \in Nat /\ Len(delivered) \in Nat
  BY DEF IInv, TypeOK, Message
<1> QED BY <1>1 DEF IInv, SequenceIsMessage, ArrivedIsAccounted

LEMMA DeliverStep == ASSUME NoWrap, IInv, NEW held \in rxRing, deliver(held) PROVE IInv'
<1>1. TypeOK'
  BY TypeStep DEF IInv, Next
<1>2. /\ held.msg = Len(delivered) + 1 /\ held.msg \in arrived
      /\ held.msg <= sent /\ Len(delivered) \in Nat /\ nextRx = Len(delivered)
  BY DueIsNext DEF deliver, IInv, ArrivedIsAccounted
<1>3. sent \in Nat /\ sent <= MaxSend
  BY SequenceAssumption DEF IInv, TypeOK
<1>4. delivered \in Seq(Message) /\ held.msg \in Message
  BY DEF IInv, TypeOK
<1>5. Len(delivered') = Len(delivered) + 1
  BY <1>4 DEF deliver
<1>6. nextRx' = Len(delivered')
  BY <1>2, <1>3, <1>5, SequenceAssumption DEF deliver, After, NoWrap
<1>7. DeliveredInOrder'
  BY <1>2, <1>4, <1>5 DEF deliver, DeliveredInOrder, IInv, ArrivedIsAccounted
<1>8. UNCHANGED <<sent, txStatus, nextSequence, txRing, settled, arrived, data, proofs,
                  rxStatus, rxBusy>>
  BY DEF deliver, senderVars
<1>9. rxRing' = rxRing \ {held} /\ rxBusy'
  BY DEF deliver
<1>10. SequenceIsMessage' /\ ProvedHasArrived' /\ SentIsAccounted'
  BY <1>8, <1>9 DEF IInv, SequenceIsMessage, ProvedHasArrived, SentIsAccounted
<1>11. ArrivedIsAccounted'
  <2>1. \A m \in 1 .. Len(delivered') : m \in arrived'
    BY <1>2, <1>5, <1>8 DEF IInv, ArrivedIsAccounted
  <2>2. rxStatus' # "CLOSED" =>
          \A m \in arrived' : m <= Len(delivered') \/ \E h \in rxRing' : h.msg = m
    <3> SUFFICES ASSUME rxStatus # "CLOSED", NEW m \in arrived
                 PROVE  m <= Len(delivered') \/ \E h \in rxRing' : h.msg = m
      BY <1>8
    <3>1. m \in Nat
      BY DEF IInv, TypeOK, Message
    <3>2. m <= Len(delivered) \/ \E h \in rxRing : h.msg = m
      BY DEF IInv, ArrivedIsAccounted
    <3> QED BY <1>2, <1>5, <1>9, <3>1, <3>2
  <2> QED BY <1>6, <1>7, <1>8, <1>9, <2>1, <2>2 DEF IInv, ArrivedIsAccounted
<1> QED BY <1>1, <1>10, <1>11 DEF IInv

(* The invariant is inductive.                                             *)
LEMMA IStep == NoWrap /\ IInv /\ [Next]_vars => IInv'
<1> SUFFICES ASSUME NoWrap, IInv, [Next]_vars PROVE IInv'
  OBVIOUS
<1>0. TypeOK' /\ sent \in Nat
  BY TypeStep DEF IInv, TypeOK
<1>1. CASE pollBegin \/ egressChanges \/ senderShutdown
  <2>1. /\ UNCHANGED <<sent, nextSequence, settled, data, proofs, receiverVars>>
        /\ txRing' \subseteq txRing
        /\ txStatus' = "ACTIVE" => txRing' = txRing /\ txStatus = txStatus'
    BY <1>1 DEF pollBegin, egressChanges, senderShutdown
  <2>2. ArrivedIsAccounted'
    BY <1>0, <2>1, SenderStep
  <2>3. SequenceIsMessage' /\ ProvedHasArrived' /\ SentIsAccounted'
    BY <2>1 DEF IInv, SequenceIsMessage, ProvedHasArrived, SentIsAccounted, receiverVars
  <2> QED BY <1>0, <2>2, <2>3 DEF IInv
<1>2. CASE getChannel \/ receiveEnds \/ receiverShutdown
  <2>1. /\ UNCHANGED <<txStatus, sent, nextSequence, txRing, settled, data, proofs, nextRx,
                       delivered, arrived>>
        /\ rxRing' \subseteq rxRing
        /\ rxStatus' # "CLOSED" => rxRing' = rxRing /\ rxStatus # "CLOSED"
        /\ ~ rxBusy' => rxRing' = {} \/ ~ Duplicate(nextRx)
    BY <1>2 DEF getChannel, receiveEnds, receiverShutdown, senderVars, IInv,
                ArrivedIsAccounted
  <2>2. ArrivedIsAccounted'
    BY <2>1 DEF IInv, ArrivedIsAccounted, DeliveredInOrder, Duplicate
  <2>3. SequenceIsMessage' /\ ProvedHasArrived' /\ SentIsAccounted'
    BY <2>1 DEF IInv, SequenceIsMessage, ProvedHasArrived, SentIsAccounted
  <2> QED BY <1>0, <2>2, <2>3 DEF IInv
<1>3. CASE UNCHANGED vars
  BY <1>3 DEF vars, IInv, TypeOK, SequenceIsMessage, ArrivedIsAccounted, DeliveredInOrder,
              ProvedHasArrived, SentIsAccounted, Duplicate
<1> QED BY <1>1, <1>2, <1>3, SendStep, PollStepStep, ReceiptStep, ReceiveStep, DeliverStep
        DEF Next, Poll

LEMMA InvariantCorrect == ASSUME NoWrap PROVE Spec => []IInv
BY IInit, IStep, PTL DEF Spec

(* Channel.h:93: as long as fewer messages are sent than there are         *)
(* sequence numbers, they are delivered in the order they were sent, none  *)
(* skipped and none twice, on any network and however often poll() resends.*)
THEOREM InOrder == ASSUME NoWrap PROVE Spec => []DeliveredInOrder
<1>1. IInv => DeliveredInOrder
  BY DEF IInv, ArrivedIsAccounted
<1> QED BY <1>1, InvariantCorrect, PTL

(* rnsd.cpp:8263: as long as fewer messages are sent than there are        *)
(* sequence numbers, an empty ring means that everything was received.     *)
THEOREM EmptyRing == ASSUME NoWrap PROVE Spec => []EmptyRingMeansReceived
<1>1. IInv => EmptyRingMeansReceived
  <2> SUFFICES ASSUME IInv, txStatus = "ACTIVE" PROVE EmptyRingMeansReceived
    BY DEF EmptyRingMeansReceived
  <2>1. \A m \in 1 .. sent : m \in arrived \/ \E e \in txRing : e.msg = m
    BY DEF IInv, SentIsAccounted, ProvedHasArrived
  <2>2. ASSUME txRing = {}, rxStatus = "OPEN", ~ rxBusy
        PROVE  Len(delivered) = sent
    <3>1. sent \in Nat /\ Len(delivered) \in Nat
      BY DEF IInv, TypeOK
    <3>2. Len(delivered) <= sent
      <4>1. CASE Len(delivered) = 0
        BY <3>1, <4>1
      <4>2. CASE Len(delivered) > 0
        BY <3>1, <4>2 DEF IInv, ArrivedIsAccounted
      <4> QED BY <3>1, <4>1, <4>2
    <3>3. CASE Len(delivered) < sent
      <4>1. Len(delivered) + 1 \in arrived
        BY <2>1, <2>2, <3>1, <3>3
      <4>2. PICK held \in rxRing : held.msg = Len(delivered) + 1
        BY <2>2, <3>1, <4>1 DEF IInv, ArrivedIsAccounted
      <4>3. held.sequence = nextRx
        BY <3>1, <4>2 DEF IInv, SequenceIsMessage, ArrivedIsAccounted
      <4> QED BY <2>2, <4>2, <4>3 DEF IInv, ArrivedIsAccounted, Duplicate
    <3> QED BY <3>1, <3>2, <3>3
  <2> QED BY <2>1, <2>2 DEF EmptyRingMeansReceived
<1> QED BY <1>1, InvariantCorrect, PTL

-----------------------------------------------------------------------------
(***************************************************************************)
(* Refinement.                                                             *)
(***************************************************************************)

(* Every step of the channel is a step of the service, or none.            *)
LEMMA ServiceStep ==
  ASSUME NoWrap, IInv, [Next]_vars
  PROVE  [Service!Next]_(Service!vars)
<1> USE DEF Service!vars
<1>1. CASE send
  BY <1>1 DEF send, receiverVars, Service!Next, Service!Send
<1>2. ASSUME NEW e \in txRing, pollDelivered(e) PROVE [Service!Next]_(Service!vars)
  <2>1. e.msg \in arrived /\ settled' = settled \cup {e.msg}
        /\ UNCHANGED <<sent, arrived, delivered>>
    BY <1>2 DEF IInv, ProvedHasArrived, pollDelivered, receiverVars
  <2>2. CASE e.msg \in settled
    BY <2>1, <2>2
  <2>3. CASE e.msg \notin settled
    BY <2>1, <2>3 DEF Service!Next, Service!Settle
  <2> QED BY <2>2, <2>3
<1>3. ASSUME NEW e \in txRing, PollStep(e), ~ pollDelivered(e)
      PROVE  UNCHANGED Service!vars
  BY <1>3 DEF PollStep, pollWaits, pollResend, pollThrows, pollExhausted, receiverVars
<1>4. ASSUME NEW e \in txRing, proofReceived(e) \/ receiptConcluded(e)
      PROVE  UNCHANGED Service!vars
  BY <1>4 DEF proofReceived, receiptConcluded, receiverVars
<1>5. CASE pollBegin \/ senderShutdown \/ egressChanges
  BY <1>5 DEF pollBegin, senderShutdown, egressChanges, receiverVars
<1>6. CASE getChannel \/ receiveEnds \/ receiverShutdown
  BY <1>6 DEF getChannel, receiveEnds, receiverShutdown, senderVars
<1>7. ASSUME NEW p \in data, receive(p) PROVE [Service!Next]_(Service!vars)
  <2>1. UNCHANGED <<sent, delivered, settled>>
    BY <1>7 DEF receive, senderVars
  <2>2. CASE arrived' = arrived
    BY <2>1, <2>2
  <2>3. CASE arrived' # arrived
    <3>1. arrived' = arrived \cup {p.msg} /\ p.msg \notin arrived
      BY <1>7, <2>3 DEF receive
    <3>2. p.msg \in 1 .. sent
      BY DEF IInv, TypeOK, LinkPacket, Message, SequenceIsMessage
    <3> QED BY <2>1, <3>1, <3>2 DEF Service!Next, Service!Arrive
  <2> QED BY <2>2, <2>3
<1>8. ASSUME NEW held \in rxRing, deliver(held) PROVE [Service!Next]_(Service!vars)
  <2>1. held.msg = Len(delivered) + 1 /\ held.msg \in arrived
    BY <1>8, DueIsNext DEF deliver
  <2>2. delivered' = Append(delivered, held.msg) /\ UNCHANGED <<sent, arrived, settled>>
    BY <1>8 DEF deliver, senderVars
  <2> QED BY <2>1, <2>2 DEF Service!Next, Service!Deliver
<1>9. CASE UNCHANGED vars
  BY <1>9 DEF vars
<1> QED BY <1>1, <1>2, <1>3, <1>4, <1>5, <1>6, <1>7, <1>8, <1>9 DEF Next, Poll

(* As long as fewer messages are sent than there are sequence numbers, the *)
(* channel implements the service its two consumers count on.              *)
THEOREM Refines == ASSUME NoWrap PROVE Spec => ImplementsService
<1>1. Init => Service!Init
  BY DEF Init, Service!Init
<1>2. IInv /\ [Next]_vars => [Service!Next]_(Service!vars)
  BY ServiceStep
<1> QED BY <1>1, <1>2, InvariantCorrect, PTL DEF Spec, ImplementsService, Service!Spec

-----------------------------------------------------------------------------
(* Facts about numbers and sequences.                                      *)

(* A set of naturals that is not empty has a least one.                    *)
Less == {ss \in Nat \X Nat : ss[1] < ss[2]}

LEMMA LessIsWellFounded == IsWellFoundedOn(Less, Nat)
BY NatLessThanWellFounded DEF OpToRel, Less

LEMMA Least ==
  ASSUME NEW T, T \subseteq Nat, T # {}
  PROVE  \E x \in T : \A y \in T : x <= y
<1>1. PICK x \in T : \A y \in T : <<y, x>> \notin Less
  BY LessIsWellFounded, WFMin
<1>2. ASSUME NEW y \in T PROVE x <= y
  <2>1. x \in Nat /\ y \in Nat
    OBVIOUS
  <2>2. y < x => <<y, x>> \in Less
    BY <2>1 DEF Less
  <2> QED BY <1>1, <2>1, <2>2
<1> QED BY <1>2

LEMMA MinIsLeast ==
  ASSUME NEW T, T \subseteq Nat, T # {}
  PROVE  Min(T) \in T /\ \A y \in T : Min(T) <= y
BY Least DEF Min

LEMMA Joined ==
  ASSUME NEW S, NEW q \in Seq(S), NEW r \in Seq(S)
  PROVE  /\ q \o r \in Seq(S) /\ Len(q \o r) = Len(q) + Len(r)
         /\ \A k \in 1 .. Len(q) + Len(r) :
              (q \o r)[k] = IF k <= Len(q) THEN q[k] ELSE r[k - Len(q)]
OBVIOUS

LEMMA TakenOut ==
  ASSUME NEW S, NEW q \in Seq(S), NEW i \in 1 .. Len(q)
  PROVE  /\ RemoveAt(q, i) \in Seq(S)
         /\ DOMAIN RemoveAt(q, i) = 1 .. Len(q) - 1
         /\ \A k \in 1 .. Len(q) - 1 : RemoveAt(q, i)[k] = IF k < i THEN q[k] ELSE q[k + 1]
<1>0. Len(q) \in Nat /\ i \in Nat /\ i >= 1 /\ i <= Len(q)
  OBVIOUS
<1> DEFINE a == SubSeq(q, 1, i - 1)
           b == SubSeq(q, i + 1, Len(q))
<1>1. a \in Seq(S) /\ Len(a) = i - 1 /\ \A k \in 1 .. i - 1 : a[k] = q[k]
  OBVIOUS
<1>2. b \in Seq(S) /\ Len(b) = Len(q) - i /\ \A k \in 1 .. Len(q) - i : b[k] = q[i + k]
  OBVIOUS
<1>3. RemoveAt(q, i) = a \o b
  BY DEF RemoveAt
<1> HIDE DEF a, b
<1>4. a \o b \in Seq(S) /\ Len(a \o b) = Len(q) - 1
  <2>1. a \o b \in Seq(S) /\ Len(a \o b) = Len(a) + Len(b)
    BY <1>1, <1>2, Joined
  <2>2. (i - 1) + (Len(q) - i) = Len(q) - 1
    BY <1>0
  <2> QED BY <1>1, <1>2, <2>1, <2>2
<1>5. ASSUME NEW k \in 1 .. Len(q) - 1 PROVE (a \o b)[k] = IF k < i THEN q[k] ELSE q[k + 1]
  <2>1. (a \o b)[k] = IF k <= Len(a) THEN a[k] ELSE b[k - Len(a)]
    <3>1. k \in 1 .. Len(a) + Len(b)
      <4>1. (i - 1) + (Len(q) - i) = Len(q) - 1
        BY <1>0
      <4> QED BY <1>1, <1>2, <4>1
    <3> QED BY <1>1, <1>2, <3>1, Joined
  <2>2. CASE k < i
    <3>1. k <= i - 1 /\ k \in 1 .. i - 1
      BY <1>0, <2>2
    <3> QED BY <1>1, <2>1, <2>2, <3>1
  <2>3. CASE k >= i
    <3>1. k - (i - 1) \in 1 .. Len(q) - i /\ i + (k - (i - 1)) = k + 1 /\ ~(k <= i - 1) /\ ~(k < i)
      BY <1>0, <2>3
    <3>2. b[k - (i - 1)] = q[i + (k - (i - 1))]
      BY <1>2, <3>1
    <3> QED BY <1>1, <2>1, <3>1, <3>2
  <2>4. k \in Nat
    BY <1>0
  <2>5. k < i \/ k >= i
    BY <1>0, <2>4
  <2> QED BY <2>2, <2>3, <2>5
<1>6. DOMAIN (a \o b) = 1 .. Len(q) - 1
  BY <1>4
<1> QED BY <1>3, <1>4, <1>5, <1>6

-----------------------------------------------------------------------------
(***************************************************************************)
(* rnsd's table of channels.                                               *)
(*                                                                         *)
(* A slot: what it is in each state, its numbers, and, before there is a   *)
(* Link, its stream, all of it in the outbox.                              *)
(***************************************************************************)
Entry == [number : Nat, oversize : BOOLEAN]
Slot ==
  [used : BOOLEAN, tag : Tags \cup Links \cup {None}, handle : BOOLEAN,
   state : States, link : Links \cup {NoLink}, channel : BOOLEAN,
   outbox : Seq(Entry), outstanding : {Unpublished} \cup Nat,
   pend : Outbound \cup {None}, res : Resources \cup {None}, dead : BOOLEAN,
   handed : Nat, refused : SUBSET Nat, covered : Nat, heard : BOOLEAN]
LinkRecord ==
  [status : {"NONE", "PENDING", "ACTIVE", "STALE", "CLOSED"}, sent : Seq(Nat),
   proved : SUBSET Nat, settled : SUBSET Nat, carries : SUBSET Resources]

Boxed(c) ==
  /\ Len(c.outbox) <= RNSD_CHAN_MAX_OUTBOX
  /\ \A i \in DOMAIN c.outbox : c.outbox[i].number \in 1 .. c.handed
Counted(c) ==
  c.covered <= c.handed /\ c.refused \subseteq 1 .. c.handed /\ c.outstanding <= c.handed
StreamOf(c, q) == q \o Numbers(c.outbox)
Whole(c, q) ==
  Ascends(StreamOf(c, q)) /\ ToSet(StreamOf(c, q)) = 1 .. c.handed \ c.refused
Has(c) == {c.pend, c.res} \ {None}

Alone(c) ==
  /\ c \in Slot
  /\ ~c.used => c = Free
  /\ c.used => c.tag # None /\ c.state # "FREE"
  /\ c.channel => c.state = "ACTIVE"
  /\ c.link # NoLink <=> c.state \in {"ESTABLISHING", "ACTIVE"}
  /\ c.res # None => c.state = "ACTIVE" /\ c.pend # c.res
  /\ Boxed(c) /\ Counted(c)
  /\ c.state \in {"AWAITING_PATH", "ESTABLISHING"} => c.outstanding = Unpublished /\ Whole(c, <<>>)

(* Two slots have nothing in common.                                       *)
Apart(c, d) ==
  /\ c.tag # None => c.tag # d.tag
  /\ c.link # NoLink => c.link # d.link
  /\ Has(c) \cap Has(d) = {}

(* A slot and its Link: the Link carries the slot's Resource, has taken    *)
(* the first part of its stream, and has all the slot said it has.         *)
Blocked(c) == \E i \in DOMAIN c.outbox : c.outbox[i].oversize
Reached(c, k) == \A n \in 1 .. c.covered \ c.refused : n \in k.proved
Receipted(c, k) == c.channel /\ c.outstanding = 0 /\ c.heard => Blocked(c) \/ Reached(c, k)
Linked(c, k) ==
  \/ c.state = "ESTABLISHING" /\ k = [NewLink EXCEPT !.status = "PENDING"]
  \/ /\ c.state = "ACTIVE" /\ k.status \in {"ACTIVE", "STALE"}
     /\ k.carries = {c.res} \ {None}
     /\ Whole(c, k.sent) /\ Receipted(c, k)

(* A Link by itself, and one that no slot has.                             *)
LinkKept(k) ==
  k \in LinkRecord /\ k.settled \subseteq k.proved /\ k.proved \subseteq ToSet(k.sent)
Loose(k) == k = NewLink \/ (k.status = "CLOSED" /\ k.carries = {})

(* The slots in use, once each.                                            *)
Lists(q, S) ==
  /\ q \in Seq(Slots)
  /\ \A i, k \in DOMAIN q : q[i] = q[k] => i = k
  /\ {q[i] : i \in DOMAIN q} = S

Shaped(n) ==
  /\ n = [slot |-> n.slot, link |-> n.link, idle |-> n.idle, tree |-> n.tree, told |-> n.told]
  /\ n.slot \in [Slots -> Slot]
  /\ n.link \in [Links -> LinkRecord]
  /\ n.told \in [Resources -> Seq(Words)]
SlotsHeld(n) ==
  /\ \A j \in Slots : Alone(n.slot[j])
  /\ \A j, o \in Slots : j # o => Apart(n.slot[j], n.slot[o])
LinksHeld(n) ==
  /\ \A l \in Links : LinkKept(n.link[l])
  /\ \A j \in Slots : n.slot[j].link # NoLink => Linked(n.slot[j], n.link[n.slot[j].link])
  /\ \A l \in Links : (\A j \in Slots : n.slot[j].link # l) => Loose(n.link[l])
  /\ \A j \in Slots : n.slot[j].tag \in Links => n.link[n.slot[j].tag].status # "NONE"
TreesHeld(n) == n.tree = {n.slot[j].tag : j \in Used(n)}
WordsHeld(n) ==
  /\ \A r \in Resources : n.told[r] \in {<<>>, <<"done">>, <<"failed">>}
  /\ \A j \in Slots : \A r \in Has(n.slot[j]) : n.told[r] = <<>>
Core(n) ==
  /\ Shaped(n) /\ SlotsHeld(n) /\ LinksHeld(n) /\ TreesHeld(n) /\ WordsHeld(n)
  /\ Lists(n.idle, Used(n))

HandedUpTo(n, x) == \A j \in Slots : n.slot[j].handed <= x
BridgeIInv == Core(rnsd) /\ HandedUpTo(rnsd, inputs) /\ inputs \in 0 .. MaxInputs

-----------------------------------------------------------------------------
(* The slots by their last activity.                                       *)

LEMMA NoneListed == Lists(<<>>, {})
BY DEF Lists

LEMMA LongestIdle ==
  ASSUME NEW q, NEW S, Lists(q, S), S # {}
  PROVE  Head(q) \in S
BY DEF Lists

LEMMA ListLength ==
  ASSUME NEW q, NEW S, Lists(q, S)
  PROVE  ToSet(q) = S /\ Len(q) = Cardinality(S)
<1>1. q \in Seq(Slots) /\ DOMAIN q = 1 .. Len(q) /\ Len(q) \in Nat
  BY DEF Lists
<1>2. q = [i \in 1 .. Len(q) |-> q[i]]
  BY <1>1
<1>3. q \in Bijection(1 .. Len(q), S)
  <2>1. \A i \in 1 .. Len(q) : q[i] \in S
    BY <1>1 DEF Lists
  <2>2. q \in [1 .. Len(q) -> S]
    BY <1>2, <2>1
  <2>3. \A i, j \in 1 .. Len(q) : q[i] = q[j] => i = j
    BY <1>1 DEF Lists
  <2>4. \A x \in S : \E i \in 1 .. Len(q) : q[i] = x
    BY <1>1 DEF Lists
  <2> QED BY <2>2, <2>3, <2>4 DEF Bijection, Injection, Surjection, IsInjective
<1>4. IsFiniteSet(1 .. Len(q)) /\ Cardinality(1 .. Len(q)) = Len(q)
  <2>1. /\ IsFiniteSet(1 .. Len(q))
        /\ Cardinality(1 .. Len(q)) = IF 1 > Len(q) THEN 0 ELSE Len(q) - 1 + 1
    BY <1>1, FS_Interval
  <2>2. (IF 1 > Len(q) THEN 0 ELSE Len(q) - 1 + 1) = Len(q)
    BY <1>1
  <2> QED BY <2>1, <2>2
<1>5. Cardinality(1 .. Len(q)) = Cardinality(S)
  <2>1. ExistsBijection(1 .. Len(q), S)
    BY <1>3 DEF ExistsBijection
  <2> QED BY <1>4, <2>1, FS_Bijection
<1>6. ToSet(q) = S
  BY DEF ToSet, Lists
<1> QED BY <1>4, <1>5, <1>6

LEMMA ListedLast ==
  ASSUME NEW q, NEW S, Lists(q, S), NEW s \in Slots, s \notin S
  PROVE  Lists(Append(q, s), S \cup {s})
<1> DEFINE t == Append(q, s)
           k == Len(q)
<1>1. q \in Seq(Slots) /\ k \in Nat /\ DOMAIN q = 1 .. k
  BY DEF Lists
<1>2. t \in Seq(Slots) /\ DOMAIN t = (1 .. k) \cup {k + 1} /\ k + 1 \notin 1 .. k
  BY <1>1
<1>3. t[k + 1] = s /\ \A i \in 1 .. k : t[i] = q[i]
  BY <1>1
<1> HIDE DEF t, k
<1>4. \A i, j \in DOMAIN t : t[i] = t[j] => i = j
  BY <1>1, <1>2, <1>3 DEF Lists
<1>5. {t[i] : i \in DOMAIN t} = S \cup {s}
  BY <1>1, <1>2, <1>3 DEF Lists
<1> QED BY <1>2, <1>4, <1>5 DEF Lists, t

LEMMA Unlisted ==
  ASSUME NEW q, NEW S, Lists(q, S), NEW s \in S
  PROVE  Lists(Without(q, s), S \ {s})
<1> DEFINE i == CHOOSE i \in DOMAIN q : q[i] = s
           n == Len(q)
           t == RemoveAt(q, i)
           old(k) == IF k < i THEN k ELSE k + 1
           new(k) == IF k < i THEN k ELSE k - 1
<1>1. q \in Seq(Slots) /\ n \in Nat /\ DOMAIN q = 1 .. n
  BY DEF Lists
<1>2. i \in DOMAIN q /\ q[i] = s
  BY DEF Lists
<1>3. Without(q, s) = t
  <2>1. s \in ToSet(q)
    BY DEF Lists, ToSet
  <2> QED BY <2>1 DEF Without
<1> HIDE DEF i
<1>4. t \in Seq(Slots) /\ DOMAIN t = 1 .. n - 1
  BY <1>1, <1>2, TakenOut
<1>5. ASSUME NEW k \in DOMAIN t
      PROVE  old(k) \in DOMAIN q /\ old(k) # i /\ t[k] = q[old(k)]
  <2>1. k \in 1 .. n - 1
    BY <1>4
  <2>2. t[k] = IF k < i THEN q[k] ELSE q[k + 1]
    BY <1>1, <1>2, <2>1, TakenOut
  <2>3. old(k) \in 1 .. n /\ old(k) # i
    BY <1>1, <1>2, <2>1
  <2> QED BY <1>1, <2>2, <2>3
<1>6. ASSUME NEW k \in DOMAIN q, k # i
      PROVE  new(k) \in DOMAIN t /\ t[new(k)] = q[k]
  <2>1. new(k) \in DOMAIN t /\ old(new(k)) = k
    BY <1>1, <1>2, <1>4, <1>6
  <2> QED BY <1>5, <2>1
<1>7. ASSUME NEW j \in DOMAIN t, NEW k \in DOMAIN t, old(j) = old(k) PROVE j = k
  BY <1>1, <1>2, <1>4, <1>7
<1> HIDE DEF t, old, new
<1>8. ASSUME NEW j \in DOMAIN t, NEW k \in DOMAIN t, t[j] = t[k] PROVE j = k
  <2>1. old(j) = old(k)
    BY <1>5, <1>8 DEF Lists
  <2> QED BY <1>7, <2>1
<1>9. ASSUME NEW k \in DOMAIN t PROVE t[k] \in S \ {s}
  BY <1>2, <1>5 DEF Lists
<1>10. ASSUME NEW x \in S \ {s} PROVE \E k \in DOMAIN t : t[k] = x
  <2>1. PICK k \in DOMAIN q : q[k] = x
    BY DEF Lists
  <2>2. k # i
    BY <1>2, <2>1
  <2> QED BY <1>6, <2>1, <2>2
<1>11. {t[k] : k \in DOMAIN t} = S \ {s}
  BY <1>9, <1>10
<1> QED BY <1>3, <1>4, <1>8, <1>11 DEF Lists

LEMMA Touched ==
  ASSUME NEW q, NEW S, Lists(q, S), S \subseteq Slots, NEW s \in S
  PROVE  Lists(Append(Without(q, s), s), S)
<1>1. Lists(Append(Without(q, s), s), (S \ {s}) \cup {s})
  BY Unlisted, ListedLast
<1>2. (S \ {s}) \cup {s} = S
  OBVIOUS
<1> QED BY <1>1, <1>2

LEMMA NotListed ==
  ASSUME NEW q, NEW S, Lists(q, S), NEW s, s \notin S
  PROVE  Without(q, s) = q
BY DEF Lists, ToSet, Without

-----------------------------------------------------------------------------
(* One slot changes, and what belongs to it.                               *)

SlotTurns(n, m, s, c) ==
  /\ m.slot = [n.slot EXCEPT ![s] = c]
  /\ Alone(c)
  /\ \A o \in Slots \ {s} : Apart(c, n.slot[o])
LinkTurns(n, m, d, c) ==
  /\ \A l \in Links : l # d.link /\ l # c.link => m.link[l] = n.link[l]
  /\ \A l \in Links : LinkKept(m.link[l])
  /\ c.link # NoLink => Linked(c, m.link[c.link])
  /\ d.link # NoLink /\ d.link # c.link =>
       m.link[d.link].status = "CLOSED" /\ m.link[d.link].carries = {}
  /\ c.tag \in Links => m.link[c.tag].status # "NONE"
TreeTurns(n, m, d, c) == m.tree = (n.tree \ {d.tag}) \cup ({c.tag} \ {None})
WordTurns(n, m, s, c) ==
  /\ \A r \in Resources :
       \/ m.told[r] = n.told[r]
       \/ /\ n.told[r] = <<>> /\ m.told[r] \in {<<"done">>, <<"failed">>} /\ r \notin Has(c)
          /\ \A o \in Slots \ {s} : r \notin Has(n.slot[o])
  /\ \A r \in Has(c) : n.told[r] = <<>>
Turns(n, m, s, c) ==
  /\ Shaped(m)
  /\ SlotTurns(n, m, s, c) /\ LinkTurns(n, m, n.slot[s], c) /\ TreeTurns(n, m, n.slot[s], c)
  /\ WordTurns(n, m, s, c)
  /\ Lists(m.idle, Used(m))
Only(n, m, s, c) == m.slot[s] = c /\ \A o \in Slots \ {s} : m.slot[o] = n.slot[o]

LEMMA ApartBoth ==
  ASSUME NEW c, NEW d, Apart(c, d)
  PROVE  Apart(d, c)
BY DEF Apart

LEMMA SlotIs ==
  ASSUME NEW n, Shaped(n), NEW s \in Slots
  PROVE  n.slot[s] \in Slot
BY DEF Shaped

LEMMA HasIs ==
  ASSUME NEW c \in Slot
  PROVE  Has(c) \subseteq Resources
BY DEF Slot, Has, Resources

LEMMA FreeSlot ==
  /\ Free.used = FALSE /\ Free.tag = None /\ Free.link = NoLink /\ Free.state = "FREE"
  /\ Has(Free) = {} /\ Free.handed = 0 /\ Free.res = None /\ Free.pend = None
  /\ Free.outbox = <<>> /\ Free.channel = FALSE /\ Free.outstanding = Unpublished
  /\ Free.refused = {} /\ Free.covered = 0
BY DEF Free, Has

LEMMA SlotsTurn ==
  ASSUME NEW n, NEW m, NEW s \in Slots, NEW c, SlotsHeld(n), Shaped(n), SlotTurns(n, m, s, c)
  PROVE  SlotsHeld(m) /\ Only(n, m, s, c)
<1>1. m.slot[s] = c /\ \A o \in Slots \ {s} : m.slot[o] = n.slot[o]
  BY DEF SlotTurns, Shaped
<1>2. \A o \in Slots : Alone(m.slot[o])
  BY <1>1 DEF SlotTurns, SlotsHeld
<1>3. ASSUME NEW o \in Slots, NEW p \in Slots, o # p PROVE Apart(m.slot[o], m.slot[p])
  <2>1. CASE o = s
    BY <1>1, <1>3, <2>1 DEF SlotTurns
  <2>2. CASE p = s
    <3>1. Apart(c, n.slot[o])
      BY <1>3, <2>2 DEF SlotTurns
    <3> QED BY <1>1, <1>3, <2>2, <3>1, ApartBoth
  <2>3. CASE o # s /\ p # s
    BY <1>1, <1>3, <2>3 DEF SlotsHeld
  <2> QED BY <2>1, <2>2, <2>3
<1> QED BY <1>1, <1>2, <1>3 DEF SlotsHeld, Only

LEMMA LinkedNotNew ==
  ASSUME NEW c, NEW k, Linked(c, k)
  PROVE  k.status \in {"PENDING", "ACTIVE", "STALE"}
BY DEF Linked, NewLink

LEMMA LinksTurn ==
  ASSUME NEW n, NEW m, NEW s \in Slots, NEW c, SlotsHeld(n), Shaped(n), LinksHeld(n),
         SlotTurns(n, m, s, c), LinkTurns(n, m, n.slot[s], c)
  PROVE  LinksHeld(m)
<1>a. Only(n, m, s, c) /\ SlotsHeld(m)
  BY SlotsTurn
<1>1. m.slot[s] = c /\ \A o \in Slots \ {s} : m.slot[o] = n.slot[o]
  BY <1>a DEF Only
<1>2. \A o \in Slots : n.slot[o].link \in Links \cup {NoLink}
  BY SlotIs DEF Slot
<1>3. ASSUME NEW o \in Slots, m.slot[o].link # NoLink
      PROVE  Linked(m.slot[o], m.link[m.slot[o].link])
  <2>1. CASE o = s
    BY <1>1, <1>3, <2>1 DEF LinkTurns
  <2>2. CASE o # s
    <3>1. n.slot[o].link \in Links /\ Linked(n.slot[o], n.link[n.slot[o].link])
      BY <1>1, <1>2, <1>3, <2>2 DEF LinksHeld
    <3>2. n.slot[o].link # n.slot[s].link
      BY <2>2, <3>1, <1>1, <1>3 DEF SlotsHeld, Apart
    <3>3. n.slot[o].link # c.link
      BY <1>1, <1>3, <2>2 DEF SlotTurns, Apart
    <3> QED BY <1>1, <2>2, <3>1, <3>2, <3>3 DEF LinkTurns
  <2> QED BY <2>1, <2>2
<1>4. ASSUME NEW l \in Links, \A o \in Slots : m.slot[o].link # l PROVE Loose(m.link[l])
  <2>1. c.link # l
    BY <1>1, <1>4
  <2>2. CASE n.slot[s].link = l
    <3>1. l # NoLink
      BY BridgeAssumption DEF Links, NoLink
    <3> QED BY <2>1, <2>2, <3>1 DEF LinkTurns, Loose
  <2>3. CASE n.slot[s].link # l
    <3>1. \A o \in Slots : n.slot[o].link # l
      BY <1>1, <1>4, <2>3
    <3>2. Loose(n.link[l])
      BY <3>1 DEF LinksHeld
    <3> QED BY <2>1, <2>3, <3>2 DEF LinkTurns
  <2> QED BY <2>2, <2>3
<1>5. ASSUME NEW o \in Slots, m.slot[o].tag \in Links
      PROVE  m.link[m.slot[o].tag].status # "NONE"
  <2>1. CASE o = s
    BY <1>1, <1>5, <2>1 DEF LinkTurns
  <2>2. CASE o # s
    <3> DEFINE l == n.slot[o].tag
    <3>1. l \in Links /\ n.link[l].status # "NONE" /\ m.slot[o].tag = l
      BY <1>1, <1>5, <2>2 DEF LinksHeld
    <3> HIDE DEF l
    <3>2. CASE l # n.slot[s].link /\ l # c.link
      BY <3>1, <3>2 DEF LinkTurns
    <3>3. CASE l = c.link
      <4>1. Linked(c, m.link[l])
        BY <3>1, <3>3, BridgeAssumption DEF LinkTurns, Links, NoLink
      <4> QED BY <3>1, <4>1, LinkedNotNew
    <3>4. CASE l = n.slot[s].link /\ l # c.link
      <4>1. m.link[l].status = "CLOSED"
        BY <3>1, <3>4, BridgeAssumption DEF LinkTurns, Links, NoLink
      <4> QED BY <3>1, <4>1
    <3> QED BY <3>2, <3>3, <3>4
  <2> QED BY <2>1, <2>2
<1>6. \A l \in Links : LinkKept(m.link[l])
  BY DEF LinkTurns
<1> QED BY <1>3, <1>4, <1>5, <1>6 DEF LinksHeld

LEMMA TreesTurn ==
  ASSUME NEW n, NEW m, NEW s \in Slots, NEW c, SlotsHeld(n), Shaped(n), TreesHeld(n),
         SlotTurns(n, m, s, c), TreeTurns(n, m, n.slot[s], c)
  PROVE  TreesHeld(m)
<1>a. Only(n, m, s, c) /\ SlotsHeld(m)
  BY SlotsTurn
<1>1. m.slot[s] = c /\ \A o \in Slots \ {s} : m.slot[o] = n.slot[o]
  BY <1>a DEF Only
<1>2. ASSUME NEW k, SlotsHeld(k), NEW o \in Slots PROVE o \in Used(k) <=> k.slot[o].tag # None
  <2>1. Alone(k.slot[o])
    BY <1>2 DEF SlotsHeld
  <2>2. k.slot[o].used \in BOOLEAN
    BY <2>1 DEF Alone, Slot
  <2>3. CASE k.slot[o].used
    BY <2>1, <2>3 DEF Alone, Used
  <2>4. CASE ~k.slot[o].used
    BY <2>1, <2>4, FreeSlot DEF Alone, Used
  <2> QED BY <2>2, <2>3, <2>4
<1>3. ASSUME NEW t \in m.tree PROVE \E o \in Used(m) : m.slot[o].tag = t
  <2>1. CASE t = c.tag /\ t # None
    BY <1>a, <1>1, <1>2, <2>1
  <2>2. CASE t \in n.tree /\ t # n.slot[s].tag
    <3>1. PICK o \in Used(n) : n.slot[o].tag = t
      BY <2>2 DEF TreesHeld
    <3>2. o \in Slots \ {s}
      BY <2>2, <3>1 DEF Used
    <3>3. o \in Used(m)
      BY <1>a, <1>1, <1>2, <3>1, <3>2
    <3> QED BY <1>1, <3>1, <3>2, <3>3
  <2> QED BY <1>3, <2>1, <2>2 DEF TreeTurns
<1>4. ASSUME NEW o \in Used(m) PROVE m.slot[o].tag \in m.tree
  <2>1. o \in Slots /\ m.slot[o].tag # None
    BY <1>a, <1>2 DEF Used
  <2>2. CASE o = s
    BY <1>1, <2>1, <2>2 DEF TreeTurns
  <2>3. CASE o # s
    <3>1. m.slot[o].tag = n.slot[o].tag /\ o \in Used(n)
      BY <1>1, <1>2, <2>1, <2>3
    <3>2. n.slot[o].tag # n.slot[s].tag
      BY <2>1, <2>3, <3>1 DEF SlotsHeld, Apart
    <3> QED BY <3>1, <3>2 DEF TreeTurns, TreesHeld
  <2> QED BY <2>2, <2>3
<1> QED BY <1>3, <1>4 DEF TreesHeld

LEMMA WordsTurn ==
  ASSUME NEW n, NEW m, NEW s \in Slots, NEW c, SlotsHeld(n), Shaped(n), WordsHeld(n),
         SlotTurns(n, m, s, c), WordTurns(n, m, s, c)
  PROVE  WordsHeld(m)
<1>a. Only(n, m, s, c) /\ SlotsHeld(m)
  BY SlotsTurn
<1>1. m.slot[s] = c /\ \A o \in Slots \ {s} : m.slot[o] = n.slot[o]
  BY <1>a DEF Only
<1>2. ASSUME NEW r \in Resources PROVE m.told[r] \in {<<>>, <<"done">>, <<"failed">>}
  BY DEF WordTurns, WordsHeld
<1>3. ASSUME NEW o \in Slots, NEW r \in Has(m.slot[o]) PROVE m.told[r] = <<>>
  <2>1. m.slot[o] \in Slot
    BY <1>a DEF SlotsHeld, Alone
  <2>2. r \in Resources
    BY <2>1, HasIs
  <2>3. CASE o = s
    BY <1>1, <1>3, <2>2, <2>3 DEF WordTurns
  <2>4. CASE o # s
    <3>1. r \in Has(n.slot[o]) /\ o \in Slots \ {s}
      BY <1>1, <2>4
    <3>2. n.told[r] = <<>>
      BY <3>1 DEF WordsHeld
    <3>3. m.told[r] = n.told[r]
      BY <2>2, <3>1 DEF WordTurns
    <3> QED BY <3>2, <3>3
  <2> QED BY <2>3, <2>4
<1> QED BY <1>2, <1>3 DEF WordsHeld

(* Nobody's count of messages grows.                                       *)
NoMore(n, m) == \A o \in Slots : m.slot[o].handed <= n.slot[o].handed

LEMMA NoMoreTwice ==
  ASSUME NEW n, Shaped(n), NEW m, Shaped(m), NEW k, Shaped(k), NoMore(n, m), NoMore(m, k)
  PROVE  NoMore(n, k)
<1>1. ASSUME NEW o \in Slots PROVE k.slot[o].handed <= n.slot[o].handed
  <2>1. n.slot[o].handed \in Nat /\ m.slot[o].handed \in Nat /\ k.slot[o].handed \in Nat
    BY SlotIs DEF Slot
  <2>2. m.slot[o].handed <= n.slot[o].handed /\ k.slot[o].handed <= m.slot[o].handed
    BY DEF NoMore
  <2> QED BY <2>1, <2>2
<1> QED BY <1>1 DEF NoMore

LEMMA NoMoreOnly ==
  ASSUME NEW n, Shaped(n), NEW m, NEW s \in Slots, NEW c, Only(n, m, s, c),
         c.handed <= n.slot[s].handed
  PROVE  NoMore(n, m)
<1>1. ASSUME NEW o \in Slots PROVE m.slot[o].handed <= n.slot[o].handed
  <2>1. n.slot[o].handed \in Nat
    BY SlotIs DEF Slot
  <2>2. CASE o = s
    BY <2>2 DEF Only
  <2>3. CASE o # s
    BY <2>1, <2>3 DEF Only
  <2> QED BY <2>2, <2>3
<1> QED BY <1>1 DEF NoMore

LEMMA Turned ==
  ASSUME NEW n, Core(n), NEW m, NEW s \in Slots, NEW c, Turns(n, m, s, c)
  PROVE  /\ Core(m) /\ Only(n, m, s, c)
         /\ c.handed <= n.slot[s].handed => NoMore(n, m)
<1>1. SlotsHeld(m) /\ Only(n, m, s, c)
  BY SlotsTurn DEF Core, Turns
<1>2. LinksHeld(m)
  BY LinksTurn DEF Core, Turns
<1>3. TreesHeld(m)
  BY TreesTurn DEF Core, Turns
<1>4. WordsHeld(m)
  BY WordsTurn DEF Core, Turns
<1>5. c.handed <= n.slot[s].handed => NoMore(n, m)
  BY <1>1, NoMoreOnly DEF Core
<1> QED BY <1>1, <1>2, <1>3, <1>4, <1>5 DEF Core, Turns

-----------------------------------------------------------------------------
(* A record of the state, and one part of it set.                          *)

Recorded(m) ==
  m = [slot |-> m.slot, link |-> m.link, idle |-> m.idle, tree |-> m.tree, told |-> m.told]
Parts(m, a, k, q, t, w) ==
  Recorded(m) /\ m.slot = a /\ m.link = k /\ m.idle = q /\ m.tree = t /\ m.told = w

LEMMA PartSet ==
  ASSUME NEW m, NEW a, NEW k, NEW q, NEW t, NEW w, Parts(m, a, k, q, t, w), NEW i, NEW v
  PROVE  /\ Parts([m EXCEPT !.slot[i] = v], [a EXCEPT ![i] = v], k, q, t, w)
         /\ Parts([m EXCEPT !.link[i] = v], a, [k EXCEPT ![i] = v], q, t, w)
         /\ Parts([m EXCEPT !.idle = v], a, k, v, t, w)
         /\ Parts([m EXCEPT !.tree = v], a, k, q, v, w)
         /\ Parts([m EXCEPT !.told[i] = v], a, k, q, t, [w EXCEPT ![i] = v])
BY DEF Parts, Recorded

LEMMA ShapedParts ==
  ASSUME NEW n, Shaped(n)
  PROVE  /\ Parts(n, n.slot, n.link, n.idle, n.tree, n.told)
         /\ n.slot = [o \in Slots |-> n.slot[o]] /\ n.link = [l \in Links |-> n.link[l]]
         /\ n.told = [r \in Resources |-> n.told[r]]
BY DEF Shaped, Parts, Recorded

LEMMA OnlyOne ==
  ASSUME NEW n, Shaped(n), NEW m, NEW s \in Slots, NEW c, m.slot = [n.slot EXCEPT ![s] = c]
  PROVE  Only(n, m, s, c)
BY DEF Shaped, Only

LEMMA SameUsed ==
  ASSUME NEW n, NEW m, NEW s \in Used(n), NEW c, Only(n, m, s, c), c.used
  PROVE  Used(m) = Used(n)
BY DEF Used, Only

LEMMA InUse ==
  ASSUME NEW n, Core(n), NEW s \in Used(n)
  PROVE  /\ s \in Slots /\ Shaped(n) /\ Alone(n.slot[s]) /\ n.slot[s] \in Slot
         /\ n.slot[s].used /\ n.slot[s].tag # None
         /\ n.slot[s].state # "FREE" /\ n.slot[s].tag \in n.tree
         /\ n.slot[s].link # NoLink => n.slot[s].link \in Links
                                       /\ Linked(n.slot[s], n.link[n.slot[s].link])
                                       /\ LinkKept(n.link[n.slot[s].link])
<1>1. s \in Slots /\ Shaped(n) /\ Alone(n.slot[s]) /\ n.slot[s].used
  BY DEF Core, Used, SlotsHeld
<1>2. n.slot[s] \in Slot
  BY <1>1 DEF Alone
<1>3. n.slot[s].tag # None /\ n.slot[s].state # "FREE"
  BY <1>1 DEF Alone
<1>4. n.slot[s].link # NoLink => Linked(n.slot[s], n.link[n.slot[s].link])
  BY <1>1 DEF Core, LinksHeld
<1>5. n.slot[s].link # NoLink => n.slot[s].link \in Links
  BY <1>2 DEF Slot
<1>6. n.slot[s].link # NoLink => LinkKept(n.link[n.slot[s].link])
  BY <1>5 DEF Core, LinksHeld
<1>7. n.slot[s].tag \in n.tree
  BY DEF Core, TreesHeld
<1> QED BY <1>1, <1>2, <1>3, <1>4, <1>5, <1>6, <1>7

(* A slot that takes nothing new stays apart.                              *)
LEMMA NarrowerApart ==
  ASSUME NEW c, NEW d, c.tag = d.tag, c.link = d.link \/ c.link = NoLink, Has(c) \subseteq Has(d),
         NEW e, Apart(d, e)
  PROVE  Apart(c, e)
BY DEF Apart

(* A slot that is in use, under the same tag and on the same Link.         *)
Backed(n, m, c, k) ==
  \/ m.link = n.link
  \/ c.link # NoLink /\ m.link = [n.link EXCEPT ![c.link] = k] /\ LinkKept(k)
Kept(n, m, s, c) ==
  /\ Recorded(m) /\ m.slot = [n.slot EXCEPT ![s] = c] /\ m.tree = n.tree
  /\ m.idle = n.idle \/ m.idle = Append(Without(n.idle, s), s)
  /\ Alone(c) /\ c.used /\ c.tag = n.slot[s].tag /\ c.link = n.slot[s].link
  /\ c.link # NoLink => Linked(c, m.link[c.link])

LEMMA StaysSpeaking ==
  ASSUME NEW n, Core(n), NEW m, NEW s \in Used(n), NEW c, Kept(n, m, s, c),
         NEW k, Backed(n, m, c, k),
         m.told \in [Resources -> Seq(Words)], WordTurns(n, m, s, c),
         \A o \in Slots \ {s} : Has(c) \cap Has(n.slot[o]) = {}
  PROVE  /\ Core(m) /\ Only(n, m, s, c) /\ Used(m) = Used(n)
         /\ c.handed <= n.slot[s].handed => NoMore(n, m)
<1> DEFINE d == n.slot[s]
<1>0. s \in Slots /\ Shaped(n) /\ Alone(d) /\ d \in Slot /\ d.tag # None /\ d.tag \in n.tree
      /\ (d.link # NoLink => d.link \in Links) /\ SlotsHeld(n) /\ LinksHeld(n)
  BY InUse DEF Core
<1>1. c \in Slot
  BY DEF Kept, Alone
<1>2. m.link \in [Links -> LinkRecord] /\ \A l \in Links : LinkKept(m.link[l])
  <2>1. CASE m.link = n.link
    BY <1>0, <2>1 DEF Shaped, LinksHeld
  <2>2. CASE c.link # NoLink /\ m.link = [n.link EXCEPT ![c.link] = k] /\ LinkKept(k)
    <3>1. c.link \in Links /\ k \in LinkRecord
      BY <1>0, <2>2 DEF Kept, LinkKept
    <3> QED BY <1>0, <2>2, <3>1 DEF Shaped, LinksHeld
  <2> QED BY <2>1, <2>2 DEF Backed
<1>3. Shaped(m)
  BY <1>0, <1>1, <1>2 DEF Shaped, Kept, Recorded
<1>4. SlotTurns(n, m, s, c)
  <2>1. ASSUME NEW o \in Slots \ {s} PROVE Apart(c, n.slot[o])
    <3>1. Apart(d, n.slot[o])
      BY <1>0 DEF SlotsHeld
    <3> QED BY <3>1 DEF Apart, Kept
  <2> QED BY <2>1 DEF SlotTurns, Kept
<1>5. LinkTurns(n, m, d, c)
  <2>1. ASSUME NEW l \in Links, l # d.link PROVE m.link[l] = n.link[l]
    BY <1>0, <2>1 DEF Backed, Kept, Shaped
  <2>2. ASSUME c.tag \in Links PROVE m.link[c.tag].status # "NONE"
    <3>1. n.link[d.tag].status # "NONE" /\ c.tag = d.tag
      BY <1>0, <2>2 DEF LinksHeld, Kept
    <3>2. CASE c.tag = d.link
      <4>1. Linked(c, m.link[c.tag])
        BY <2>2, <3>2, BridgeAssumption DEF Kept, Links, NoLink
      <4> QED BY <4>1, LinkedNotNew
    <3>3. CASE c.tag # d.link
      BY <2>1, <2>2, <3>1, <3>3
    <3> QED BY <3>2, <3>3
  <2>3. c.link = d.link /\ (c.link # NoLink => Linked(c, m.link[c.link]))
    BY DEF Kept
  <2> HIDE DEF d
  <2> QED BY <1>2, <2>1, <2>2, <2>3 DEF LinkTurns
<1>6. TreeTurns(n, m, d, c)
  <2>1. m.tree = n.tree /\ c.tag = d.tag
    BY DEF Kept
  <2> HIDE DEF d
  <2> QED BY <1>0, <2>1 DEF TreeTurns
<1>7. Only(n, m, s, c)
  BY <1>0, OnlyOne DEF Kept
<1>8. Used(m) = Used(n)
  BY <1>7, SameUsed DEF Kept
<1>9. Lists(m.idle, Used(m))
  <2>1. Lists(n.idle, Used(n)) /\ Used(n) \subseteq Slots
    BY DEF Core, Used
  <2>2. Lists(Append(Without(n.idle, s), s), Used(n))
    BY <2>1, Touched
  <2> QED BY <1>8, <2>1, <2>2 DEF Kept
<1>10. Turns(n, m, s, c)
  BY <1>3, <1>4, <1>5, <1>6, <1>9 DEF Turns
<1> QED BY <1>0, <1>7, <1>8, <1>10, Turned

LEMMA Stays ==
  ASSUME NEW n, Core(n), NEW m, NEW s \in Used(n), NEW c, Kept(n, m, s, c),
         NEW k, Backed(n, m, c, k), m.told = n.told, Has(c) \subseteq Has(n.slot[s])
  PROVE  /\ Core(m) /\ Only(n, m, s, c) /\ Used(m) = Used(n)
         /\ c.handed <= n.slot[s].handed => NoMore(n, m)
<1>1. s \in Slots /\ Shaped(n) /\ SlotsHeld(n)
  BY InUse DEF Core
<1>2. m.told \in [Resources -> Seq(Words)]
  BY <1>1 DEF Shaped
<1>3. WordTurns(n, m, s, c)
  BY <1>1 DEF WordTurns, Core, WordsHeld
<1>4. \A o \in Slots \ {s} : Has(c) \cap Has(n.slot[o]) = {}
  BY <1>1 DEF SlotsHeld, Apart
<1> QED BY <1>2, <1>3, <1>4, StaysSpeaking

-----------------------------------------------------------------------------
(* Finding a slot, and the end of a Resource.                              *)

LEMMA TheOne ==
  ASSUME NEW S, NEW s, S = {s}
  PROVE  S # {} /\ (CHOOSE x \in S : TRUE) = s
OBVIOUS

LEMMA SlotSetIs ==
  ASSUME NEW n, Shaped(n), NEW s \in Slots, NEW c
  PROVE  /\ [n.slot EXCEPT ![s] = c][s] = c
         /\ \A e : [[n.slot EXCEPT ![s] = c] EXCEPT ![s] = e] = [n.slot EXCEPT ![s] = e]
         /\ [n.slot EXCEPT ![s] = n.slot[s]] = n.slot
BY DEF Shaped

LEMMA LinkSetIs ==
  ASSUME NEW n, Shaped(n), NEW l \in Links, NEW k
  PROVE  /\ [n.link EXCEPT ![l] = k][l] = k
         /\ \A e : [[n.link EXCEPT ![l] = k] EXCEPT ![l] = e] = [n.link EXCEPT ![l] = e]
         /\ [n.link EXCEPT ![l] = n.link[l]] = n.link
BY DEF Shaped

SameLinks(n, m) ==
  \A o \in Slots : m.slot[o].link = n.slot[o].link /\ m.slot[o].used = n.slot[o].used
LEMMA LinkFound ==
  ASSUME NEW n, Core(n), NEW s \in Slots, NEW l, l # NoLink, n.slot[s].link = l, NEW m,
         SameLinks(n, m)
  PROVE  chanFindByLink(m, l) = {s} /\ s \in Used(n)
<1>1. ASSUME NEW o \in Slots, n.slot[o].link = l PROVE o = s
  BY <1>1 DEF Core, SlotsHeld, Apart
<1>2. s \in Used(n)
  <2>1. Alone(n.slot[s]) /\ n.slot[s] \in Slot
    BY DEF Core, SlotsHeld, Alone
  <2>2. n.slot[s].used
    BY <2>1, FreeSlot DEF Alone, Slot
  <2> QED BY <2>2 DEF Used
<1> QED BY <1>1, <1>2 DEF chanFindByLink, Used, SameLinks

LEMMA ResourceFound ==
  ASSUME NEW n, Core(n), NEW s \in Slots, NEW r, r # None, n.slot[s].res = r, NEW m, m.slot = n.slot
  PROVE  chanFindByResHash(m, r) = {s} /\ s \in Used(n)
<1>1. ASSUME NEW o \in Slots, n.slot[o].res = r PROVE o = s
  <2>1. r \in Has(n.slot[o]) /\ r \in Has(n.slot[s])
    BY <1>1 DEF Has
  <2> QED BY <2>1 DEF Core, SlotsHeld, Apart
<1>2. s \in Used(n)
  <2>1. Alone(n.slot[s]) /\ n.slot[s] \in Slot
    BY DEF Core, SlotsHeld, Alone
  <2>2. n.slot[s].used
    BY <2>1, FreeSlot DEF Alone, Slot
  <2> QED BY <2>2 DEF Used
<1> QED BY <1>1, <1>2 DEF chanFindByResHash, Used

Idled(c) == [c EXCEPT !.res = None]
ToldOf(told, r, word) == IF r = None THEN told ELSE [told EXCEPT ![r] = Append(told[r], word)]

LEMMA Concluding ==
  ASSUME NEW n, Core(n), NEW s \in Slots, NEW r, r # None, n.slot[s].res = r, NEW word,
         NEW m, NEW k, Parts(m, n.slot, k, n.idle, n.tree, n.told)
  PROVE  Parts(chanResConcluded(m, r, word), [n.slot EXCEPT ![s] = Idled(n.slot[s])], k, n.idle,
               n.tree, ToldOf(n.told, r, word))
<1> DEFINE z == [m EXCEPT !.told[r] = Append(m.told[r], word)]
           w == [n.told EXCEPT ![r] = Append(n.told[r], word)]
           c == Idled(n.slot[s])
<1>1. m.slot = n.slot /\ m.told = n.told
  BY DEF Parts
<1>2. chanFindByResHash(m, r) # {} /\ (CHOOSE j \in chanFindByResHash(m, r) : TRUE) = s
  <2>1. chanFindByResHash(m, r) = {s}
    BY <1>1, ResourceFound
  <2> QED BY <2>1, TheOne
<1>3. chanResConcluded(m, r, word) = [z EXCEPT !.slot[s].res = None]
  BY <1>2 DEF chanResConcluded, chanResSendAux
<1>4. Parts(z, n.slot, k, n.idle, n.tree, w)
  BY <1>1, PartSet
<1> HIDE DEF z
<1>5. [z EXCEPT !.slot[s].res = None] = [z EXCEPT !.slot[s] = c]
  BY <1>4 DEF Parts, Recorded, Idled
<1> HIDE DEF c
<1>6. Parts([z EXCEPT !.slot[s] = c], [n.slot EXCEPT ![s] = c], k, n.idle, n.tree, w)
  BY <1>4, PartSet
<1>7. ToldOf(n.told, r, word) = w
  BY DEF ToldOf
<1> QED BY <1>3, <1>5, <1>6, <1>7 DEF c

LEMMA Carried ==
  ASSUME NEW n, Core(n), NEW s \in Slots, n.slot[s].link # NoLink
  PROVE  /\ n.slot[s].link \in Links /\ s \in Used(n)
         /\ n.link[n.slot[s].link].carries = {n.slot[s].res} \ {None}
<1>1. s \in Used(n)
  <2>1. SameLinks(n, n)
    BY DEF SameLinks
  <2> QED BY <2>1, LinkFound
<1> DEFINE d == n.slot[s]
<1>2. Alone(d) /\ d.link \in Links /\ Linked(d, n.link[d.link])
  BY <1>1, InUse
<1>3. d.state = "ESTABLISHING" => d.res = None
  BY <1>2 DEF Alone
<1> HIDE DEF d
<1>4. n.link[d.link].carries = {d.res} \ {None}
  BY <1>2, <1>3 DEF Linked, NewLink
<1> QED BY <1>1, <1>2, <1>4 DEF d

LEMMA Cancelled ==
  ASSUME NEW n, Core(n), NEW s \in Slots, n.slot[s].link # NoLink,
         NEW m, NEW k, Parts(m, n.slot, k, n.idle, n.tree, n.told)
  PROVE  Parts(resources_cancelled(m, n.link[n.slot[s].link].carries),
               [n.slot EXCEPT ![s] = Idled(n.slot[s])], k, n.idle,
               n.tree, ToldOf(n.told, n.slot[s].res, "failed"))
<1> DEFINE d == n.slot[s]
           X == n.link[d.link].carries
           S == {o \in Used(m) : m.slot[o].res \in X}
<1>0. Shaped(n) /\ d \in Slot /\ m.slot = n.slot
  BY SlotIs DEF Core, Parts
<1>1. X = {d.res} \ {None} /\ s \in Used(n)
  BY Carried
<1>2. CASE d.res = None
  <2>1. S = {}
    BY <1>1, <1>2
  <2>2. resources_cancelled(m, X) = m
    BY <2>1 DEF resources_cancelled
  <2>3. [n.slot EXCEPT ![s] = Idled(d)] = n.slot
    <3>1. Idled(d) = d
      BY <1>0, <1>2 DEF Slot, Idled
    <3> QED BY <1>0, <3>1, SlotSetIs
  <2>4. ToldOf(n.told, d.res, "failed") = n.told
    BY <1>2 DEF ToldOf
  <2> QED BY <2>2, <2>3, <2>4
<1>3. CASE d.res # None
  <2> DEFINE r == d.res
  <2>1. S = {s}
    <3>1. chanFindByResHash(m, r) = {s}
      BY <1>0, <1>3, ResourceFound
    <3>2. S = {o \in Used(m) : m.slot[o].res = r}
      BY <1>1, <1>3
    <3> QED BY <3>1, <3>2 DEF chanFindByResHash
  <2>2. S # {} /\ (CHOOSE o \in S : TRUE) = s
    BY <2>1, TheOne
  <2>3. resources_cancelled(m, X) = chanResConcluded(m, r, "failed")
    <3> HIDE DEF X
    <3> QED BY <1>0, <2>2 DEF resources_cancelled
  <2>4. r # None /\ n.slot[s].res = r
    BY <1>3
  <2> HIDE DEF r
  <2>5. Parts(chanResConcluded(m, r, "failed"), [n.slot EXCEPT ![s] = Idled(n.slot[s])], k, n.idle,
              n.tree, ToldOf(n.told, r, "failed"))
    BY <2>4, Concluding
  <2> QED BY <2>3, <2>4, <2>5
<1> QED BY <1>2, <1>3

-----------------------------------------------------------------------------
(* A Link closes.                                                          *)

ClosedSlot(d) == Unlinked(Idled(d))

LEMMA CallbackIs ==
  ASSUME NEW n, Core(n), NEW s \in Slots, NEW l, l # NoLink, n.slot[s].link = l,
         NEW m, NEW k, NEW w,
         Parts(m, [n.slot EXCEPT ![s] = Idled(n.slot[s])], k, n.idle, n.tree, w)
  PROVE  Parts(onChanLinkClosedCb(m, l), [n.slot EXCEPT ![s] = ClosedSlot(n.slot[s])], k, n.idle,
               n.tree, w)
<1> DEFINE d == n.slot[s]
           e == Idled(d)
           a == [n.slot EXCEPT ![s] = e]
           c == Unlinked(e)
           y == [m EXCEPT !.slot[s] = c]
<1>0. Shaped(n) /\ d \in Slot /\ s \in Used(n)
  BY SlotIs, Carried DEF Core
<1>1. e.link = d.link /\ e.used = d.used /\ e.tag = d.tag
  BY <1>0 DEF Slot, Idled
<1> HIDE DEF e
<1>2. m.slot = a /\ m.tree = n.tree
  BY DEF Parts, e
<1>3. a[s] = e /\ \A o \in Slots \ {s} : a[o] = n.slot[o]
  BY <1>0 DEF Shaped
<1>4. SameLinks(n, m)
  <2> SUFFICES ASSUME NEW o \in Slots
               PROVE  m.slot[o].link = n.slot[o].link /\ m.slot[o].used = n.slot[o].used
    BY DEF SameLinks
  <2>1. CASE o = s
    BY <1>1, <1>2, <1>3, <2>1
  <2>2. CASE o # s
    BY <1>2, <1>3, <2>2
  <2> QED BY <2>1, <2>2
<1>5. chanFindByLink(m, l) = {s}
  BY <1>4, LinkFound
<1>6. chanFindByLink(m, l) # {} /\ (CHOOSE j \in chanFindByLink(m, l) : TRUE) = s
  BY <1>5, TheOne
<1>7. onChanLinkClosedCb(m, l) = [m EXCEPT !.slot[s] = Unlinked(@), !.tree = @ \cup {m.slot[s].tag}]
  BY <1>6 DEF onChanLinkClosedCb
<1>8. m.tree \cup {m.slot[s].tag} = n.tree
  <2>1. n.slot[s].tag \in n.tree
    BY <1>0, InUse
  <2> QED BY <1>1, <1>2, <1>3, <2>1
<1>9. Parts(y, [n.slot EXCEPT ![s] = c], k, n.idle, n.tree, w)
  <2>1. Parts(m, a, k, n.idle, n.tree, w)
    BY DEF e
  <2> HIDE DEF a, c
  <2>2. Parts(y, [a EXCEPT ![s] = c], k, n.idle, n.tree, w)
    BY <2>1, PartSet
  <2>3. [a EXCEPT ![s] = c] = [n.slot EXCEPT ![s] = c]
    BY <1>0, SlotSetIs DEF a
  <2> QED BY <2>2, <2>3
<1>10. [m EXCEPT !.slot[s] = Unlinked(@), !.tree = @ \cup {m.slot[s].tag}] = [y EXCEPT !.tree = n.tree]
  <2>1. m.slot[s] = e
    BY <1>2, <1>3
  <2>2. [m EXCEPT !.slot[s] = Unlinked(@), !.tree = @ \cup {m.slot[s].tag}]
           = [m EXCEPT !.slot[s] = c, !.tree = n.tree]
    BY <1>8, <2>1
  <2> HIDE DEF c
  <2>3. [m EXCEPT !.slot[s] = c, !.tree = n.tree] = [y EXCEPT !.tree = n.tree]
    OBVIOUS
  <2> QED BY <2>2, <2>3
<1> HIDE DEF y, c
<1>11. Parts([y EXCEPT !.tree = n.tree], [n.slot EXCEPT ![s] = c], k, n.idle, n.tree, w)
  BY <1>9, PartSet
<1> QED BY <1>7, <1>10, <1>11 DEF c, e, ClosedSlot

LEMMA LinkClosedIs ==
  ASSUME NEW n, Core(n), NEW s \in Slots, NEW l, l # NoLink, n.slot[s].link = l
  PROVE  Parts(link_closed(n, l), [n.slot EXCEPT ![s] = ClosedSlot(n.slot[s])],
               [n.link EXCEPT ![l] = Shut(n.link[l])], n.idle, n.tree,
               ToldOf(n.told, n.slot[s].res, "failed"))
<1> DEFINE k == [n.link EXCEPT ![l] = Shut(n.link[l])]
           z == [n EXCEPT !.link[l] = Shut(n.link[l])]
           y == resources_cancelled(z, n.link[l].carries)
<1>1. Parts(z, n.slot, k, n.idle, n.tree, n.told)
  <2>1. Parts(n, n.slot, n.link, n.idle, n.tree, n.told)
    BY ShapedParts DEF Core
  <2> QED BY <2>1, PartSet
<1>2. link_closed(n, l) = onChanLinkClosedCb(y, l)
  BY DEF link_closed
<1> HIDE DEF z, k
<1>3. Parts(y, [n.slot EXCEPT ![s] = Idled(n.slot[s])], k, n.idle, n.tree,
            ToldOf(n.told, n.slot[s].res, "failed"))
  BY <1>1, Cancelled
<1> HIDE DEF y
<1>4. Parts(onChanLinkClosedCb(y, l), [n.slot EXCEPT ![s] = ClosedSlot(n.slot[s])], k, n.idle,
            n.tree, ToldOf(n.told, n.slot[s].res, "failed"))
  BY <1>3, CallbackIs
<1> QED BY <1>2, <1>4 DEF k

LEMMA LinkHeld ==
  ASSUME NEW d, Alone(d), d.link # NoLink
  PROVE  d \in Slot /\ d.used /\ d.tag # None
<1>1. d \in Slot
  BY DEF Alone
<1>2. d.used
  BY <1>1, FreeSlot DEF Alone, Slot
<1> QED BY <1>1, <1>2 DEF Alone

LEMMA ClosedFields ==
  ASSUME NEW d, Alone(d), d.link # NoLink
  PROVE  LET c == ClosedSlot(d)
         IN  /\ Alone(c) /\ c.used /\ c.state = "CLOSED" /\ c.link = NoLink /\ c.tag = d.tag
             /\ c.channel = FALSE /\ c.handle = d.handle
             /\ c.res = None /\ c.pend = d.pend /\ c.handed = d.handed
<1> DEFINE e == Idled(d)
           c == ClosedSlot(d)
<1>1. d \in Slot /\ d.used /\ d.tag # None
  BY LinkHeld
<1>2. e \in Slot
  BY <1>1 DEF Slot, Idled
<1>3. /\ e.used = d.used /\ e.tag = d.tag /\ e.handle = d.handle /\ e.outbox = d.outbox
      /\ e.outstanding = d.outstanding /\ e.pend = d.pend /\ e.res = None
      /\ e.handed = d.handed /\ e.refused = d.refused
      /\ e.covered = d.covered /\ e.heard = d.heard
  BY <1>1 DEF Slot, Idled
<1> HIDE DEF e
<1>4. c = Unlinked(e)
  BY DEF ClosedSlot, e
<1>5. c \in Slot
  <2> DEFINE f == [e EXCEPT !.state = "CLOSED"]
             g == [f EXCEPT !.dead = TRUE]
             h == [g EXCEPT !.channel = FALSE]
  <2>1. f \in Slot
    BY <1>2 DEF Slot, States
  <2>2. Unlinked(e) = [h EXCEPT !.link = NoLink]
    BY <1>2 DEF Unlinked
  <2> HIDE DEF f
  <2>3. g \in Slot
    BY <2>1, ZenonT(60) DEF Slot
  <2> HIDE DEF g
  <2>4. h \in Slot
    BY <2>3, ZenonT(60) DEF Slot
  <2> HIDE DEF h
  <2>5. [h EXCEPT !.link = NoLink] \in Slot
    BY <2>4 DEF Slot
  <2> QED BY <1>4, <2>2, <2>5
<1>6. /\ c.used = e.used /\ c.tag = e.tag /\ c.handle = e.handle /\ c.outbox = e.outbox
      /\ c.outstanding = e.outstanding /\ c.pend = e.pend /\ c.res = e.res
      /\ c.handed = e.handed /\ c.refused = e.refused
      /\ c.covered = e.covered /\ c.heard = e.heard
      /\ c.state = "CLOSED" /\ c.channel = FALSE /\ c.link = NoLink
  BY <1>2, <1>4 DEF Slot, Unlinked
<1> HIDE DEF c
<1>7. Boxed(c) /\ Counted(c)
  <2>1. Boxed(d) /\ Counted(d)
    BY DEF Alone
  <2> QED BY <1>3, <1>6, <2>1 DEF Boxed, Counted
<1>8. Alone(c)
  BY <1>1, <1>3, <1>5, <1>6, <1>7 DEF Alone
<1> QED BY <1>1, <1>3, <1>6, <1>8 DEF c

LEMMA ShutLink ==
  ASSUME NEW k, LinkKept(k)
  PROVE  LinkKept(Shut(k)) /\ Shut(k).status = "CLOSED" /\ Shut(k).carries = {}
<1>1. k \in LinkRecord
  BY DEF LinkKept
<1>2. Shut(k) \in LinkRecord
  BY <1>1 DEF LinkRecord, Shut
<1>3. /\ Shut(k).sent = k.sent /\ Shut(k).proved = k.proved /\ Shut(k).settled = k.settled
      /\ Shut(k).status = "CLOSED" /\ Shut(k).carries = {}
  BY <1>1 DEF LinkRecord, Shut
<1> QED BY <1>2, <1>3 DEF LinkKept

LEMMA ToldShaped ==
  ASSUME NEW n, Shaped(n), NEW r \in Resources, NEW word \in Words, n.told[r] = <<>>
  PROVE  LET w == [n.told EXCEPT ![r] = Append(n.told[r], word)]
         IN  /\ w \in [Resources -> Seq(Words)]
             /\ w[r] \in {<<"done">>, <<"failed">>}
             /\ \A x \in Resources \ {r} : w[x] = n.told[x]
<1>1. Append(n.told[r], word) \in Seq(Words) /\ Append(n.told[r], word) = <<word>>
  OBVIOUS
<1> QED BY <1>1 DEF Shaped, Words

(* The words after one slot's Resource, if it has one, was spoken of.      *)
LEMMA ToldTurn ==
  ASSUME NEW n, Core(n), NEW s \in Slots, NEW m, NEW word \in Words,
         m.told = ToldOf(n.told, n.slot[s].res, word), NEW c,
         Has(c) \subseteq Has(n.slot[s]) \ {n.slot[s].res}
  PROVE  /\ m.told \in [Resources -> Seq(Words)] /\ WordTurns(n, m, s, c)
         /\ \A o \in Slots \ {s} : Has(c) \cap Has(n.slot[o]) = {}
<1> DEFINE d == n.slot[s]
           r == d.res
<1>0. Shaped(n) /\ SlotsHeld(n) /\ d \in Slot /\ \A x \in Has(d) : n.told[x] = <<>>
  BY SlotIs DEF Core, WordsHeld
<1>1. CASE r = None
  <2>1. m.told = n.told
    BY <1>1 DEF ToldOf
  <2> QED BY <1>0, <2>1 DEF WordTurns, Shaped, SlotsHeld, Apart
<1>2. CASE r # None
  <2>1. r \in Resources /\ r \in Has(d)
    BY <1>0, <1>2 DEF Slot, Has
  <2>2. m.told = [n.told EXCEPT ![r] = Append(n.told[r], word)]
    BY <1>2 DEF ToldOf
  <2>3. n.told[r] = <<>>
    BY <1>0, <2>1
  <2> HIDE DEF r
  <2>4. /\ m.told \in [Resources -> Seq(Words)] /\ m.told[r] \in {<<"done">>, <<"failed">>}
        /\ \A x \in Resources \ {r} : m.told[x] = n.told[x]
    <3> DEFINE w == [n.told EXCEPT ![r] = Append(n.told[r], word)]
    <3>1. /\ w \in [Resources -> Seq(Words)]
          /\ w[r] \in {<<"done">>, <<"failed">>}
          /\ \A x \in Resources \ {r} : w[x] = n.told[x]
      BY <1>0, <2>1, <2>3, ToldShaped
    <3> HIDE DEF w
    <3>2. m.told = w
      BY <2>2 DEF w
    <3> QED BY <3>1, <3>2
  <2>5. \A o \in Slots \ {s} : r \notin Has(n.slot[o])
    BY <1>0, <2>1 DEF SlotsHeld, Apart
  <2>6. r \notin Has(c)
    BY DEF r
  <2>7. WordTurns(n, m, s, c)
    BY <1>0, <2>1, <2>3, <2>4, <2>5, <2>6 DEF WordTurns
  <2> QED BY <1>0, <2>4, <2>7 DEF SlotsHeld, Apart
<1> QED BY <1>1, <1>2

LEMMA LinkCloses ==
  ASSUME NEW n, Core(n), NEW s \in Slots, NEW l, l # NoLink, n.slot[s].link = l
  PROVE  LET m == link_closed(n, l)
         IN  /\ Core(m) /\ Only(n, m, s, ClosedSlot(n.slot[s])) /\ Used(m) = Used(n)
             /\ NoMore(n, m) /\ l \in Links
             /\ m.link = [n.link EXCEPT ![l] = Shut(n.link[l])]
             /\ m.idle = n.idle /\ m.tree = n.tree
<1> DEFINE d == n.slot[s]
           c == ClosedSlot(d)
           m == link_closed(n, l)
<1>1. /\ Recorded(m) /\ m.slot = [n.slot EXCEPT ![s] = c]
      /\ m.link = [n.link EXCEPT ![l] = Shut(n.link[l])]
      /\ m.idle = n.idle /\ m.tree = n.tree
      /\ m.told = ToldOf(n.told, d.res, "failed")
  <2>1. Parts(link_closed(n, l), [n.slot EXCEPT ![s] = ClosedSlot(n.slot[s])],
               [n.link EXCEPT ![l] = Shut(n.link[l])], n.idle, n.tree,
               ToldOf(n.told, n.slot[s].res, "failed"))
    BY LinkClosedIs
  <2> QED BY <2>1 DEF Parts
<1>2. Shaped(n) /\ SlotsHeld(n) /\ l \in Links /\ s \in Used(n)
  BY Carried DEF Core
<1>3. /\ Alone(d) /\ d \in Slot /\ d.tag # None /\ d.tag \in n.tree
      /\ LinkKept(n.link[l]) /\ Linked(d, n.link[l])
  BY <1>2, InUse
<1>4. /\ Alone(c) /\ c.used /\ c.state = "CLOSED" /\ c.link = NoLink /\ c.tag = d.tag
      /\ c.res = None /\ c.pend = d.pend /\ c.handed = d.handed
  BY <1>3, ClosedFields
<1> HIDE DEF m, c
<1>5. Has(c) \subseteq Has(d) \ {d.res}
  <2>1. d.res # None => d.pend # d.res
    BY <1>3 DEF Alone
  <2> HIDE DEF d
  <2> QED BY <1>4, <2>1 DEF Has
<1>6. /\ m.told \in [Resources -> Seq(Words)] /\ WordTurns(n, m, s, c)
      /\ \A o \in Slots \ {s} : Has(c) \cap Has(n.slot[o]) = {}
  <2>1. "failed" \in Words
    BY DEF Words
  <2> QED BY <1>1, <1>5, <2>1, ToldTurn
<1>7. LinkKept(Shut(n.link[l])) /\ Shut(n.link[l]).status = "CLOSED" /\ Shut(n.link[l]).carries = {}
  BY <1>3, ShutLink
<1>8. Shaped(m)
  <2>1. Shut(n.link[l]) \in LinkRecord /\ c \in Slot
    BY <1>4, <1>7 DEF LinkKept, Alone
  <2> QED BY <1>1, <1>2, <1>6, <2>1 DEF Shaped, Recorded
<1>9. SlotTurns(n, m, s, c)
  <2>1. ASSUME NEW o \in Slots \ {s} PROVE Apart(c, n.slot[o])
    <3>1. Apart(d, n.slot[o])
      BY <1>2 DEF SlotsHeld
    <3> HIDE DEF d
    <3> QED BY <1>4, <1>5, <3>1 DEF Apart
  <2> QED BY <1>1, <1>4, <2>1 DEF SlotTurns
<1>10. LinkTurns(n, m, d, c)
  <2>1. \A k \in Links \ {l} : m.link[k] = n.link[k]
    BY <1>1, <1>2 DEF Shaped
  <2>2. m.link[l] = Shut(n.link[l])
    BY <1>1, <1>2 DEF Shaped
  <2>3. \A k \in Links : LinkKept(m.link[k])
    BY <1>7, <2>1, <2>2 DEF Core, LinksHeld
  <2>4. ASSUME d.tag \in Links PROVE m.link[d.tag].status # "NONE"
    <3>1. n.link[d.tag].status # "NONE"
      BY <2>4 DEF Core, LinksHeld
    <3> QED BY <1>7, <2>1, <2>2, <2>4, <3>1
  <2> QED BY <1>4, <1>7, <2>1, <2>2, <2>3, <2>4 DEF LinkTurns
<1>11. TreeTurns(n, m, d, c)
  <2> HIDE DEF d
  <2> QED BY <1>1, <1>3, <1>4 DEF TreeTurns
<1>12. Only(n, m, s, c)
  BY <1>1, <1>2, OnlyOne
<1>13. Used(m) = Used(n)
  BY <1>2, <1>4, <1>12, SameUsed
<1>14. Lists(m.idle, Used(m))
  BY <1>1, <1>13 DEF Core
<1>15. Turns(n, m, s, c)
  BY <1>6, <1>8, <1>9, <1>10, <1>11, <1>14 DEF Turns
<1>16. c.handed <= d.handed
  <2>1. d.handed \in Nat
    BY <1>3 DEF Slot
  <2> QED BY <1>4, <2>1
<1>17. Core(m) /\ NoMore(n, m)
  BY <1>15, <1>16, Turned
<1> QED BY <1>1, <1>2, <1>12, <1>13, <1>17 DEF m, c

-----------------------------------------------------------------------------
(* A slot's Link is torn down, and the slot is freed.                      *)

TornDown(d) == IF d.link = NoLink THEN d ELSE ClosedSlot(d)

LEMMA TornFields ==
  ASSUME NEW d, Alone(d), d.used
  PROVE  LET c == TornDown(d)
         IN  /\ Alone(c) /\ c.used /\ c.link = NoLink /\ c.tag = d.tag
             /\ c.state \in {d.state, "CLOSED"} /\ c.handed = d.handed
BY ClosedFields DEF TornDown

LEMMA TearsDown ==
  ASSUME NEW n, Core(n), NEW s \in Used(n)
  PROVE  LET m == teardown(n, s)
         IN  /\ Core(m) /\ Only(n, m, s, TornDown(n.slot[s])) /\ Used(m) = Used(n)
             /\ NoMore(n, m) /\ m.idle = n.idle /\ m.tree = n.tree
             /\ \A l \in Links : n.link[l] = NewLink => m.link[l] = NewLink
<1> DEFINE d == n.slot[s]
           m == teardown(n, s)
<1>0. /\ s \in Slots /\ Shaped(n) /\ Alone(d) /\ d.used
      /\ d.link # NoLink => Linked(d, n.link[d.link])
  BY InUse
<1>1. CASE d.link = NoLink
  <2>1. m = n
    BY <1>1 DEF teardown
  <2>2. Only(n, n, s, d)
    BY DEF Only
  <2>3. NoMore(n, n)
    <3>1. \A o \in Slots : n.slot[o].handed \in Nat
      BY <1>0, SlotIs DEF Slot
    <3> QED BY <3>1 DEF NoMore
  <2> QED BY <1>1, <2>1, <2>2, <2>3 DEF TornDown
<1>2. CASE d.link # NoLink
  <2> DEFINE l == d.link
  <2>1. m = link_closed(n, l)
    BY <1>2 DEF teardown
  <2>2. l # NoLink /\ n.slot[s].link = l
    BY <1>2
  <2> HIDE DEF l, m
  <2>3. /\ Core(m) /\ Only(n, m, s, ClosedSlot(d)) /\ Used(m) = Used(n)
        /\ NoMore(n, m) /\ l \in Links
        /\ m.link = [n.link EXCEPT ![l] = Shut(n.link[l])]
        /\ m.idle = n.idle /\ m.tree = n.tree
    BY <1>0, <2>1, <2>2, LinkCloses
  <2>4. TornDown(d) = ClosedSlot(d)
    BY <1>2 DEF TornDown
  <2>5. ASSUME NEW k \in Links, n.link[k] = NewLink PROVE m.link[k] = NewLink
    <3>1. k # l
      <4>1. Linked(d, n.link[l])
        BY <1>0, <2>2
      <4>2. n.link[l].status # "NONE" /\ NewLink.status = "NONE"
        BY <4>1, LinkedNotNew DEF NewLink
      <4> QED BY <2>5, <4>2
    <3> QED BY <1>0, <2>3, <2>5, <3>1 DEF Shaped
  <2> QED BY <2>3, <2>4, <2>5 DEF m
<1> QED BY <1>1, <1>2

LEMMA FreeIsAlone ==
  Free \in Slot /\ Alone(Free)
<1>1. Free \in Slot
  BY DEF Free, Slot, States, Unpublished
<1>2. Boxed(Free) /\ Counted(Free)
  <2>1. Len(<<>>) = 0 /\ RNSD_CHAN_MAX_OUTBOX \in Nat
    BY BridgeAssumption
  <2> QED BY <2>1, FreeSlot DEF Boxed, Counted, Unpublished
<1> QED BY <1>1, <1>2, FreeSlot DEF Alone

LEMMA FreeIs ==
  ASSUME NEW n, Core(n), NEW s \in Slots \ Used(n)
  PROVE  n.slot[s] = Free
<1>1. Alone(n.slot[s]) /\ ~n.slot[s].used
  BY DEF Core, SlotsHeld, Used
<1> QED BY <1>1 DEF Alone

LEMMA Frees ==
  ASSUME NEW n, Core(n), NEW s \in Used(n)
  PROVE  LET m == chanFreeSlot(n, s)
         IN  /\ Core(m) /\ Only(n, m, s, Free) /\ Used(m) = Used(n) \ {s} /\ NoMore(n, m)
             /\ \A l \in Links : n.link[l] = NewLink => m.link[l] = NewLink
<1> DEFINE k == teardown(n, s)
           d == k.slot[s]
           t == k.tree \ {n.slot[s].tag}
           q == Without(k.idle, s)
           m == chanFreeSlot(n, s)
<1>0. s \in Slots /\ Shaped(n) /\ Alone(n.slot[s]) /\ n.slot[s].used /\ n.slot[s].tag # None
  BY InUse
<1>1. /\ Core(k) /\ Only(n, k, s, TornDown(n.slot[s])) /\ Used(k) = Used(n)
      /\ NoMore(n, k)
      /\ \A l \in Links : n.link[l] = NewLink => k.link[l] = NewLink
  BY TearsDown
<1>2. d.used /\ d.link = NoLink /\ d.tag = n.slot[s].tag /\ s \in Used(k) /\ Shaped(k)
  BY <1>0, <1>1, TornFields DEF Only, Core
<1>3. m = [k EXCEPT !.tree = t, !.slot[s] = Free, !.idle = q]
  BY DEF chanFreeSlot
<1> HIDE DEF k
<1>4. Parts(m, [k.slot EXCEPT ![s] = Free], k.link, q, t, k.told)
  <2> DEFINE e == Free
             y == [k EXCEPT !.tree = t]
             z == [y EXCEPT !.slot[s] = e]
  <2>1. Parts(k, k.slot, k.link, k.idle, k.tree, k.told)
    BY <1>2, ShapedParts
  <2> HIDE DEF q, t, e
  <2>2. Parts(y, k.slot, k.link, k.idle, t, k.told)
    BY <2>1, PartSet
  <2>3. m = [z EXCEPT !.idle = q]
    BY <1>3 DEF e
  <2> HIDE DEF y
  <2>4. Parts(z, [k.slot EXCEPT ![s] = e], k.link, k.idle, t, k.told)
    BY <2>2, PartSet
  <2> HIDE DEF z
  <2>5. Parts([z EXCEPT !.idle = q], [k.slot EXCEPT ![s] = e], k.link, q, t, k.told)
    BY <2>4, PartSet
  <2> QED BY <2>3, <2>5 DEF e
<1> HIDE DEF m
<1>5. /\ Recorded(m) /\ m.slot = [k.slot EXCEPT ![s] = Free] /\ m.link = k.link
      /\ m.idle = q /\ m.tree = t /\ m.told = k.told
  BY <1>4 DEF Parts
<1>6. Only(k, m, s, Free)
  BY <1>0, <1>2, <1>5, OnlyOne
<1>7. Used(m) = Used(k) \ {s}
  BY <1>6, FreeSlot DEF Used, Only
<1>8. Shaped(m)
  BY <1>2, <1>5, FreeIsAlone DEF Shaped, Recorded
<1>9. SlotTurns(k, m, s, Free)
  BY <1>5, FreeSlot, FreeIsAlone DEF SlotTurns, Apart
<1>10. LinkTurns(k, m, d, Free)
  BY <1>1, <1>2, <1>5, FreeSlot, BridgeAssumption DEF LinkTurns, Core, LinksHeld
<1>11. TreeTurns(k, m, d, Free)
  BY <1>2, <1>5, FreeSlot DEF TreeTurns
<1>12. WordTurns(k, m, s, Free)
  BY <1>5, FreeSlot DEF WordTurns
<1>13. Lists(m.idle, Used(m))
  <2>1. Lists(k.idle, Used(k))
    BY <1>1 DEF Core
  <2> QED BY <1>2, <1>5, <1>7, <2>1, Unlisted
<1>14. Turns(k, m, s, Free)
  BY <1>8, <1>9, <1>10, <1>11, <1>12, <1>13 DEF Turns
<1>15. Free.handed <= d.handed
  <2>1. d \in Slot
    BY <1>0, <1>2, SlotIs
  <2> QED BY <2>1, FreeSlot DEF Slot
<1>16. Core(m) /\ NoMore(k, m)
  BY <1>0, <1>1, <1>14, <1>15, Turned
<1>17. NoMore(n, m)
  BY <1>0, <1>1, <1>2, <1>8, <1>16, NoMoreTwice
<1>18. Only(n, m, s, Free)
  BY <1>1, <1>6 DEF Only
<1> QED BY <1>1, <1>5, <1>7, <1>16, <1>17, <1>18 DEF m

-----------------------------------------------------------------------------
(* A slot for a new channel.                                               *)

LEMMA NoMoreSame ==
  ASSUME NEW n, Shaped(n), NEW m, m.slot = n.slot
  PROVE  NoMore(n, m)
<1>1. \A o \in Slots : n.slot[o].handed \in Nat
  BY SlotIs DEF Slot
<1> QED BY <1>1 DEF NoMore

LEMMA Allocates ==
  ASSUME NEW n, Core(n)
  PROVE  LET a == chanAlloc(n)
         IN  /\ Core(a.state) /\ a.slot \in Slots \ Used(a.state) /\ NoMore(n, a.state)
             /\ \A o \in Slots : a.state.slot[o].tag \in {n.slot[o].tag, None}
             /\ \A l \in Links : n.link[l] = NewLink => a.state.link[l] = NewLink
<1>0. Shaped(n)
  BY DEF Core
<1>1. CASE Used(n) # Slots
  <2> DEFINE T == Slots \ Used(n)
             s == CHOOSE j \in T : \A i \in T : j <= i
  <2>1. T \subseteq Nat /\ T # {}
    BY <1>1, BridgeAssumption DEF Used, Slots
  <2> HIDE DEF T
  <2>2. s \in T
    BY <2>1, Least
  <2>3. chanAlloc(n) = [state |-> n, slot |-> s]
    BY <1>1 DEF chanAlloc, T
  <2> HIDE DEF s
  <2> QED BY <1>0, <2>2, <2>3, NoMoreSame DEF T
<1>2. CASE Used(n) = Slots
  <2> DEFINE s == Head(n.idle)
             m == chanFreeSlot(n, s)
  <2>1. s \in Used(n)
    <3>1. Lists(n.idle, Used(n))
      BY DEF Core
    <3>2. Used(n) # {}
      BY <1>2, BridgeAssumption DEF Slots
    <3> QED BY <3>1, <3>2, LongestIdle
  <2>2. chanAlloc(n) = [state |-> m, slot |-> s]
    BY <1>2 DEF chanAlloc
  <2> HIDE DEF s
  <2>3. /\ Core(m) /\ Only(n, m, s, Free) /\ Used(m) = Used(n) \ {s} /\ NoMore(n, m)
        /\ \A l \in Links : n.link[l] = NewLink => m.link[l] = NewLink
    BY <2>1, Frees
  <2> HIDE DEF m
  <2>4. \A o \in Slots : m.slot[o].tag \in {n.slot[o].tag, None}
    BY <2>3, FreeSlot DEF Only
  <2>5. s \in Slots \ Used(m)
    BY <2>1, <2>3 DEF Used
  <2> QED BY <2>2, <2>3, <2>4, <2>5
<1> QED BY <1>1, <1>2

LEMMA Fresh ==
  ASSUME NEW n, Core(n), NEW l \in Links, n.link[l].status = "NONE"
  PROVE  /\ n.link[l] = NewLink /\ l # NoLink
         /\ \A o \in Slots : n.slot[o].link # l /\ n.slot[o].tag # l
<1>1. l # NoLink
  BY BridgeAssumption DEF Links, NoLink
<1>2. ASSUME NEW o \in Slots PROVE n.slot[o].link # l
  <2>1. n.slot[o].link = l => Linked(n.slot[o], n.link[l])
    BY <1>1 DEF Core, LinksHeld
  <2> QED BY <2>1, LinkedNotNew
<1>3. \A o \in Slots : n.slot[o].tag # l
  BY DEF Core, LinksHeld
<1>4. Loose(n.link[l])
  BY <1>2 DEF Core, LinksHeld
<1> QED BY <1>1, <1>2, <1>3, <1>4 DEF Loose

LEMMA NewLinkKept == LinkKept(NewLink) /\ NewLink.status = "NONE"
BY DEF LinkKept, NewLink, LinkRecord, ToSet

(* A slot opens, without a Link or with a new one.                         *)
Opened(n, m, s, c) ==
  /\ Recorded(m) /\ m.slot = [n.slot EXCEPT ![s] = c] /\ m.told = n.told
  /\ m.tree = n.tree \cup {c.tag} /\ m.idle = Append(n.idle, s)
  /\ Alone(c) /\ c.used /\ c.pend = None /\ c.res = None /\ c.handed = 0
  /\ \A o \in Slots : n.slot[o].tag # c.tag
Connects(n, m, c, k) ==
  \/ c.link = NoLink /\ m.link = n.link /\ c.tag \notin Links
  \/ /\ c.link \in Links /\ n.link[c.link] = NewLink /\ (c.tag \in Links => c.tag = c.link)
     /\ m.link = [n.link EXCEPT ![c.link] = k] /\ Linked(c, k) /\ LinkKept(k)

LEMMA Opens ==
  ASSUME NEW n, Core(n), NEW s \in Slots \ Used(n), NEW m, NEW c, Opened(n, m, s, c),
         NEW k, Connects(n, m, c, k)
  PROVE  Core(m) /\ Only(n, m, s, c) /\ NoMore(n, m) /\ s \in Used(m)
<1>0. Shaped(n) /\ n.slot[s] = Free /\ SlotsHeld(n) /\ LinksHeld(n)
  BY FreeIs DEF Core
<1>1. Has(c) = {} /\ c \in Slot /\ c.tag # None
  BY DEF Opened, Has, Alone
<1>2. c.link # NoLink => c.link \in Links /\ n.link[c.link].status = "NONE"
  BY NewLinkKept DEF Connects
<1>3. SlotTurns(n, m, s, c)
  <2>1. ASSUME NEW o \in Slots \ {s} PROVE Apart(c, n.slot[o])
    <3>1. c.link # NoLink => c.link # n.slot[o].link
      BY <1>2, Fresh
    <3> QED BY <1>1, <3>1 DEF Apart, Opened
  <2> QED BY <2>1 DEF SlotTurns, Opened
<1>4. \A l \in Links : LinkKept(m.link[l]) /\ (l # c.link => m.link[l] = n.link[l])
  BY <1>0 DEF Connects, Shaped, LinksHeld
<1>5. LinkTurns(n, m, Free, c)
  <2>1. c.link # NoLink => Linked(c, m.link[c.link])
    BY <1>0, <1>2 DEF Connects, Shaped
  <2>2. ASSUME c.tag \in Links PROVE m.link[c.tag].status # "NONE"
    <3>1. c.tag = c.link /\ c.link # NoLink
      BY <2>2, BridgeAssumption DEF Connects, Links, NoLink
    <3> QED BY <2>1, <3>1, LinkedNotNew
  <2> QED BY <1>4, <2>1, <2>2, FreeSlot DEF LinkTurns
<1>6. TreeTurns(n, m, Free, c)
  <2>1. None \notin n.tree
    BY <1>0 DEF Core, TreesHeld, Used, SlotsHeld, Alone
  <2> QED BY <1>1, <2>1, FreeSlot DEF TreeTurns, Opened
<1>7. WordTurns(n, m, s, c)
  BY <1>1 DEF WordTurns, Opened
<1>8. Shaped(m)
  <2>1. m.link \in [Links -> LinkRecord]
    BY <1>0, <1>2 DEF Connects, Shaped, LinkKept
  <2> QED BY <1>0, <1>1, <2>1 DEF Shaped, Opened, Recorded
<1>9. Only(n, m, s, c)
  BY <1>0, OnlyOne DEF Opened
<1>10. Used(m) = Used(n) \cup {s}
  BY <1>9 DEF Used, Only, Opened
<1>11. Lists(m.idle, Used(m))
  <2>1. Lists(n.idle, Used(n))
    BY DEF Core
  <2> QED BY <1>10, <2>1, ListedLast DEF Opened
<1>12. Turns(n, m, s, c)
  BY <1>0, <1>3, <1>5, <1>6, <1>7, <1>8, <1>11 DEF Turns
<1>13. c.handed <= n.slot[s].handed
  BY <1>0, FreeSlot DEF Opened
<1> QED BY <1>9, <1>10, <1>12, <1>13, Turned

(* A slot that waited gets a new Link.                                     *)
LEMMA GetsLink ==
  ASSUME NEW n, Core(n), NEW s \in Used(n), NEW m, NEW c, NEW k,
         Recorded(m), m.slot = [n.slot EXCEPT ![s] = c], m.told = n.told, m.tree = n.tree,
         m.idle = n.idle, n.slot[s].link = NoLink, c.tag = n.slot[s].tag, c.link \in Links,
         n.link[c.link] = NewLink, m.link = [n.link EXCEPT ![c.link] = k],
         Alone(c), c.used, Has(c) = Has(n.slot[s]), c.handed = n.slot[s].handed,
         Linked(c, k), LinkKept(k)
  PROVE  Core(m) /\ NoMore(n, m)
<1> DEFINE d == n.slot[s]
<1>0. s \in Slots /\ Shaped(n) /\ SlotsHeld(n) /\ LinksHeld(n) /\ d \in Slot /\ d.tag # None
      /\ d.tag \in n.tree
  BY InUse DEF Core
<1>1. c \in Slot /\ c.link # NoLink /\ n.link[c.link].status = "NONE"
  BY NewLinkKept, BridgeAssumption DEF Alone, Links, NoLink
<1>2. SlotTurns(n, m, s, c)
  <2>1. ASSUME NEW o \in Slots \ {s} PROVE Apart(c, n.slot[o])
    <3>1. c.link # n.slot[o].link
      BY <1>1, Fresh
    <3>2. Apart(d, n.slot[o])
      BY <1>0 DEF SlotsHeld
    <3> QED BY <3>1, <3>2 DEF Apart
  <2> QED BY <2>1 DEF SlotTurns
<1>3. m.link[c.link] = k /\ \A l \in Links : l # c.link => m.link[l] = n.link[l]
  BY <1>0 DEF Shaped
<1>4. LinkTurns(n, m, d, c)
  <2>1. ASSUME c.tag \in Links PROVE m.link[c.tag].status # "NONE"
    <3>1. n.link[c.tag].status # "NONE"
      BY <1>0, <2>1 DEF LinksHeld
    <3> QED BY <1>1, <1>3, <2>1, <3>1
  <2>2. \A l \in Links : LinkKept(m.link[l])
    BY <1>0, <1>3 DEF LinksHeld
  <2> QED BY <1>1, <1>3, <2>1, <2>2 DEF LinkTurns
<1>5. TreeTurns(n, m, d, c)
  <2> HIDE DEF d
  <2> QED BY <1>0 DEF TreeTurns, d
<1>6. WordTurns(n, m, s, c)
  BY <1>0 DEF WordTurns, Core, WordsHeld
<1>7. Shaped(m)
  BY <1>0, <1>1 DEF Shaped, Recorded, LinkKept
<1>8. Only(n, m, s, c)
  BY <1>0, OnlyOne
<1>9. Lists(m.idle, Used(m))
  BY <1>8, SameUsed DEF Core
<1>10. Turns(n, m, s, c)
  BY <1>2, <1>4, <1>5, <1>6, <1>7, <1>9 DEF Turns
<1>11. c.handed <= d.handed
  BY <1>0 DEF Slot
<1> QED BY <1>0, <1>10, <1>11, Turned

-----------------------------------------------------------------------------
(* A stream: what its Channel has, and the outbox.                         *)

LEMMA SameSequence ==
  ASSUME NEW S, NEW p \in Seq(S), NEW q \in Seq(S), Len(p) = Len(q),
         \A i \in 1 .. Len(p) : p[i] = q[i]
  PROVE  p = q
<1>1. p = [i \in 1 .. Len(p) |-> p[i]] /\ q = [i \in 1 .. Len(q) |-> q[i]]
  OBVIOUS
<1> QED BY <1>1

LEMMA NumbersAre ==
  ASSUME NEW box \in Seq(Entry)
  PROVE  /\ Numbers(box) \in Seq(Nat) /\ Len(Numbers(box)) = Len(box)
         /\ DOMAIN Numbers(box) = 1 .. Len(box)
         /\ \A i \in 1 .. Len(box) : Numbers(box)[i] = box[i].number
<1>1. DOMAIN box = 1 .. Len(box) /\ Len(box) \in Nat
  OBVIOUS
<1>2. \A i \in 1 .. Len(box) : box[i].number \in Nat
  <2>1. \A i \in 1 .. Len(box) : box[i] \in Entry
    BY <1>1
  <2> QED BY <2>1 DEF Entry
<1>3. Numbers(box) = [i \in 1 .. Len(box) |-> box[i].number]
  BY <1>1 DEF Numbers
<1> QED BY <1>1, <1>2, <1>3

LEMMA NoNumbers == <<>> \in Seq(Entry) /\ Numbers(<<>>) = <<>>
BY DEF Numbers

LEMMA StreamIsSequence ==
  ASSUME NEW q \in Seq(Nat), NEW box \in Seq(Entry)
  PROVE  q \o Numbers(box) \in Seq(Nat) /\ Len(q \o Numbers(box)) = Len(q) + Len(box)
<1> DEFINE a == Numbers(box)
<1>1. a \in Seq(Nat) /\ Len(a) = Len(box)
  BY NumbersAre
<1> HIDE DEF a
<1>2. q \o a \in Seq(Nat) /\ Len(q \o a) = Len(q) + Len(a)
  BY <1>1, Joined
<1> QED BY <1>1, <1>2 DEF a

LEMMA Appended ==
  ASSUME NEW S, NEW q \in Seq(S), NEW x \in S
  PROVE  /\ Append(q, x) \in Seq(S) /\ Len(Append(q, x)) = Len(q) + 1
         /\ DOMAIN Append(q, x) = 1 .. Len(q) + 1
         /\ Append(q, x)[Len(q) + 1] = x
         /\ \A i \in 1 .. Len(q) : Append(q, x)[i] = q[i]
OBVIOUS

(* A message that waits comes last in the stream.                          *)
LEMMA WaitsLast ==
  ASSUME NEW q \in Seq(Nat), NEW box \in Seq(Entry), NEW x \in Entry
  PROVE  /\ Append(box, x) \in Seq(Entry)
         /\ q \o Numbers(Append(box, x)) = Append(q \o Numbers(box), x.number)
<1> DEFINE y == Append(box, x)
           a == Numbers(box)
           b == Numbers(y)
           v == x.number
<1>1. y \in Seq(Entry) /\ Len(y) = Len(box) + 1 /\ v \in Nat /\ Len(box) \in Nat
  BY DEF Entry
<1>2. y[Len(box) + 1] = x /\ \A i \in 1 .. Len(box) : y[i] = box[i]
  OBVIOUS
<1>3. /\ a \in Seq(Nat) /\ Len(a) = Len(box)
      /\ \A i \in 1 .. Len(box) : a[i] = box[i].number
  BY NumbersAre
<1>4. /\ b \in Seq(Nat) /\ Len(b) = Len(box) + 1
      /\ \A i \in 1 .. Len(box) + 1 : b[i] = y[i].number
  <2> HIDE DEF y
  <2>1. /\ b \in Seq(Nat) /\ Len(b) = Len(y)
        /\ \A i \in 1 .. Len(y) : b[i] = y[i].number
    BY <1>1, NumbersAre
  <2> QED BY <1>1, <2>1
<1> HIDE DEF y, a, b, v
<1>5. b = Append(a, v)
  <2>1. /\ Append(a, v) \in Seq(Nat) /\ Len(Append(a, v)) = Len(box) + 1
        /\ Append(a, v)[Len(box) + 1] = v
        /\ \A i \in 1 .. Len(box) : Append(a, v)[i] = a[i]
    <3>1. v \in Nat /\ a \in Seq(Nat) /\ Len(a) = Len(box)
      BY <1>1, <1>3
    <3> QED BY <3>1, Appended
  <2>2. \A i \in 1 .. Len(box) : b[i] = Append(a, v)[i]
    <3> SUFFICES ASSUME NEW i \in 1 .. Len(box) PROVE b[i] = Append(a, v)[i]
      OBVIOUS
    <3>1. i \in 1 .. Len(box) + 1
      BY <1>1
    <3> QED BY <1>2, <1>3, <1>4, <2>1, <3>1
  <2>3. b[Len(box) + 1] = Append(a, v)[Len(box) + 1]
    <3>1. Len(box) + 1 \in 1 .. Len(box) + 1
      BY <1>1
    <3> QED BY <1>2, <1>4, <2>1, <3>1 DEF v
  <2>4. \A i \in 1 .. Len(b) : i = Len(box) + 1 \/ i \in 1 .. Len(box)
    BY <1>1, <1>4
  <2>5. \A i \in 1 .. Len(b) : b[i] = Append(a, v)[i]
    BY <2>2, <2>3, <2>4
  <2> QED BY <1>4, <2>1, <2>5, SameSequence
<1>6. q \o Append(a, v) = Append(q \o a, v)
  BY <1>1, <1>3
<1> QED BY <1>1, <1>5, <1>6 DEF y, a, b, v

(* One that goes straight out does, too.                                   *)
LEMMA GoesLast ==
  ASSUME NEW q \in Seq(Nat), NEW x \in Nat
  PROVE  Append(q, x) \in Seq(Nat) /\ Append(q, x) \o <<>> = Append(q \o <<>>, x)
OBVIOUS

LEMMA JoinedThrice ==
  ASSUME NEW q \in Seq(Nat), NEW a \in Seq(Nat), NEW b \in Seq(Nat)
  PROVE  (q \o a) \o b = q \o (a \o b)
<1> DEFINE x == (q \o a) \o b
           y == q \o (a \o b)
<1>0. Len(q) \in Nat /\ Len(a) \in Nat /\ Len(b) \in Nat
  OBVIOUS
<1>1. /\ q \o a \in Seq(Nat) /\ Len(q \o a) = Len(q) + Len(a)
      /\ \A i \in 1 .. Len(q) + Len(a) : (q \o a)[i] = IF i <= Len(q) THEN q[i] ELSE a[i - Len(q)]
  BY Joined
<1>2. /\ a \o b \in Seq(Nat) /\ Len(a \o b) = Len(a) + Len(b)
      /\ \A i \in 1 .. Len(a) + Len(b) : (a \o b)[i] = IF i <= Len(a) THEN a[i] ELSE b[i - Len(a)]
  BY Joined
<1>3. /\ x \in Seq(Nat) /\ Len(x) = Len(q \o a) + Len(b)
      /\ \A i \in 1 .. Len(q \o a) + Len(b) :
           x[i] = IF i <= Len(q \o a) THEN (q \o a)[i] ELSE b[i - Len(q \o a)]
  BY <1>1, Joined
<1>4. /\ y \in Seq(Nat) /\ Len(y) = Len(q) + Len(a \o b)
      /\ \A i \in 1 .. Len(q) + Len(a \o b) :
           y[i] = IF i <= Len(q) THEN q[i] ELSE (a \o b)[i - Len(q)]
  BY <1>2, Joined
<1> HIDE DEF x, y
<1>5. ASSUME NEW i \in 1 .. Len(x) PROVE x[i] = y[i]
  <2>0. i \in Nat /\ 1 <= i /\ i <= Len(q) + Len(a) + Len(b)
    BY <1>0, <1>1, <1>3
  <2>1. CASE i <= Len(q)
    <3>1. i \in 1 .. Len(q) + Len(a) /\ i \in 1 .. Len(q) + (Len(a) + Len(b)) /\ i <= Len(q) + Len(a)
      BY <1>0, <2>0, <2>1
    <3> QED BY <1>1, <1>2, <1>3, <1>4, <2>1, <3>1
  <2>2. CASE i > Len(q) /\ i <= Len(q) + Len(a)
    <3>1. /\ i \in 1 .. Len(q) + Len(a) /\ i \in 1 .. Len(q) + (Len(a) + Len(b))
          /\ i - Len(q) \in 1 .. Len(a) + Len(b) /\ i - Len(q) <= Len(a) /\ ~(i <= Len(q))
      BY <1>0, <2>0, <2>2
    <3>2. x[i] = a[i - Len(q)]
      BY <1>1, <1>3, <2>2, <3>1
    <3>3. y[i] = a[i - Len(q)]
      BY <1>2, <1>4, <3>1
    <3> QED BY <3>2, <3>3
  <2>3. CASE i > Len(q) + Len(a)
    <3>1. /\ i \in 1 .. Len(q) + Len(a) + Len(b) /\ i \in 1 .. Len(q) + (Len(a) + Len(b))
          /\ i - Len(q) \in 1 .. Len(a) + Len(b) /\ ~(i - Len(q) <= Len(a)) /\ ~(i <= Len(q))
          /\ ~(i <= Len(q) + Len(a)) /\ i - (Len(q) + Len(a)) = (i - Len(q)) - Len(a)
      BY <1>0, <2>0, <2>3
    <3>2. x[i] = b[i - (Len(q) + Len(a))]
      BY <1>1, <1>3, <3>1
    <3>3. y[i] = b[(i - Len(q)) - Len(a)]
      BY <1>2, <1>4, <3>1
    <3> QED BY <3>1, <3>2, <3>3
  <2> QED BY <1>0, <2>0, <2>1, <2>2, <2>3
<1>6. Len(x) = Len(y)
  BY <1>0, <1>1, <1>2, <1>3, <1>4
<1> QED BY <1>3, <1>4, <1>5, <1>6, SameSequence DEF x, y

(* The outbox moves on into the Channel.                                   *)
LEMMA MovesOn ==
  ASSUME NEW q \in Seq(Nat), NEW box \in Seq(Entry), NEW k \in 0 .. Len(box)
  PROVE  LET a == Numbers(SubSeq(box, 1, k))
             rest == SubSeq(box, k + 1, Len(box))
         IN  /\ q \o a \in Seq(Nat) /\ rest \in Seq(Entry)
             /\ Len(a) = k /\ \A i \in 1 .. k : a[i] = box[i].number
             /\ Len(rest) = Len(box) - k
             /\ \A i \in 1 .. Len(box) - k : rest[i] = box[k + i]
             /\ (q \o a) \o Numbers(rest) = q \o Numbers(box)
<1> DEFINE first == SubSeq(box, 1, k)
           rest == SubSeq(box, k + 1, Len(box))
           a == Numbers(first)
           b == Numbers(rest)
           z == Numbers(box)
           h == Len(box)
<1>0. h \in Nat /\ k \in Nat /\ k <= h /\ Len(q) \in Nat
  OBVIOUS
<1>1. first \in Seq(Entry) /\ Len(first) = k /\ \A i \in 1 .. k : first[i] = box[i]
  OBVIOUS
<1>2. rest \in Seq(Entry) /\ Len(rest) = h - k /\ \A i \in 1 .. h - k : rest[i] = box[k + i]
  OBVIOUS
<1>3. a \in Seq(Nat) /\ Len(a) = k /\ \A i \in 1 .. k : a[i] = box[i].number
  <2> HIDE DEF first
  <2>1. a \in Seq(Nat) /\ Len(a) = Len(first) /\ \A i \in 1 .. Len(first) : a[i] = first[i].number
    BY <1>1, NumbersAre
  <2> QED BY <1>1, <2>1
<1>4. b \in Seq(Nat) /\ Len(b) = h - k /\ \A i \in 1 .. h - k : b[i] = box[k + i].number
  <2> HIDE DEF rest
  <2>1. b \in Seq(Nat) /\ Len(b) = Len(rest) /\ \A i \in 1 .. Len(rest) : b[i] = rest[i].number
    BY <1>2, NumbersAre
  <2> QED BY <1>2, <2>1
<1>5. z \in Seq(Nat) /\ Len(z) = h /\ \A i \in 1 .. h : z[i] = box[i].number
  BY NumbersAre
<1> HIDE DEF first, rest, a, b, z, h
<1>6. a \o b = z
  <2>1. /\ a \o b \in Seq(Nat) /\ Len(a \o b) = Len(a) + Len(b)
        /\ \A i \in 1 .. Len(a) + Len(b) : (a \o b)[i] = IF i <= Len(a) THEN a[i] ELSE b[i - Len(a)]
    BY <1>3, <1>4, Joined
  <2>2. Len(a) + Len(b) = h
    BY <1>0, <1>3, <1>4
  <2>3. ASSUME NEW i \in 1 .. h PROVE (a \o b)[i] = z[i]
    <3>1. (a \o b)[i] = IF i <= k THEN a[i] ELSE b[i - k]
      BY <1>3, <2>1, <2>2
    <3>2. CASE i <= k
      <4>1. i \in 1 .. k
        BY <1>0, <3>2
      <4> QED BY <1>3, <1>5, <3>1, <3>2, <4>1
    <3>3. CASE ~(i <= k)
      <4>1. i - k \in 1 .. h - k /\ k + (i - k) = i
        BY <1>0, <3>3
      <4>2. b[i - k] = box[k + (i - k)].number
        BY <1>4, <4>1
      <4> QED BY <1>5, <3>1, <3>3, <4>1, <4>2
    <3> QED BY <3>2, <3>3
  <2> QED BY <1>5, <2>1, <2>2, <2>3, SameSequence
<1>7. q \o a \in Seq(Nat)
  BY <1>3, Joined
<1>8. (q \o a) \o b = q \o (a \o b)
  BY <1>3, <1>4, JoinedThrice
<1> QED BY <1>2, <1>3, <1>6, <1>7, <1>8 DEF first, rest, a, b, z, h

LEMMA NextInStream ==
  ASSUME NEW z \in Seq(Nat), NEW h \in Nat, NEW R, R \subseteq 1 .. h,
         Ascends(z), ToSet(z) = 1 .. h \ R
  PROVE  Ascends(Append(z, h + 1)) /\ ToSet(Append(z, h + 1)) = 1 .. h + 1 \ R
<1> DEFINE t == Append(z, h + 1)
           n == Len(z)
<1>1. n \in Nat /\ DOMAIN z = 1 .. n /\ DOMAIN t = 1 .. n + 1
  OBVIOUS
<1>2. t[n + 1] = h + 1 /\ \A i \in 1 .. n : t[i] = z[i]
  OBVIOUS
<1>3. \A i \in 1 .. n : z[i] \in 1 .. h
  BY <1>1 DEF ToSet
<1> HIDE DEF t, n
<1>4. Ascends(t)
  <2> SUFFICES ASSUME NEW i \in 1 .. n + 1, NEW k \in 1 .. n + 1, i < k PROVE t[i] < t[k]
    BY <1>1 DEF Ascends
  <2>1. i \in 1 .. n
    BY <1>1
  <2>2. CASE k = n + 1
    <3>1. t[i] \in 1 .. h /\ t[k] = h + 1
      BY <1>2, <1>3, <2>1, <2>2
    <3> QED BY <3>1
  <2>3. CASE k \in 1 .. n
    BY <1>1, <1>2, <2>1, <2>3 DEF Ascends
  <2> QED BY <1>1, <2>2, <2>3
<1>5. ToSet(t) = ToSet(z) \cup {h + 1}
  <2>1. 1 .. n + 1 = (1 .. n) \cup {n + 1}
    BY <1>1
  <2> QED BY <1>1, <1>2, <2>1 DEF ToSet
<1>6. (1 .. h \ R) \cup {h + 1} = 1 .. h + 1 \ R
  OBVIOUS
<1> QED BY <1>4, <1>5, <1>6 DEF t

LEMMA PastInStream ==
  ASSUME NEW h \in Nat, NEW R, R \subseteq 1 .. h
  PROVE  1 .. h + 1 \ (R \cup {h + 1}) = 1 .. h \ R
OBVIOUS

-----------------------------------------------------------------------------
(* What goes out of an outbox.                                             *)

LEMMA FittingIs ==
  ASSUME NEW box \in Seq(Entry)
  PROVE  /\ Fitting(box) \in 0 .. Len(box)
         /\ \A i \in 1 .. Len(box) : box[i].oversize => Fitting(box) < i
         /\ Fitting(box) = 0 => box = <<>> \/ \E i \in DOMAIN box : box[i].oversize
<1> DEFINE I == {i \in DOMAIN box : box[i].oversize}
           T == {Len(box)} \cup {i - 1 : i \in I}
<1>1. DOMAIN box = 1 .. Len(box) /\ Len(box) \in Nat
  OBVIOUS
<1>2. T \subseteq Nat /\ T # {}
  <2>1. \A i \in I : i - 1 \in Nat
    BY <1>1
  <2> QED BY <1>1, <2>1
<1>3. Fitting(box) = Min(T)
  BY DEF Fitting
<1>4. Len(box) \in T /\ \A i \in I : i - 1 \in T
  OBVIOUS
<1>5. \A y \in T : y = Len(box) \/ \E i \in I : y = i - 1
  OBVIOUS
<1>6. \A i \in I : i \in 1 .. Len(box) /\ box[i].oversize
  BY <1>1
<1>7. \A i \in 1 .. Len(box) : box[i].oversize => i \in I
  BY <1>1
<1> HIDE DEF T, I
<1> DEFINE f == Fitting(box)
<1>8. f \in T /\ \A y \in T : f <= y
  BY <1>2, <1>3, MinIsLeast
<1> HIDE DEF f
<1>9. f \in 0 .. Len(box)
  BY <1>1, <1>2, <1>4, <1>8
<1>10. ASSUME NEW i \in 1 .. Len(box), box[i].oversize PROVE f < i
  <2>1. f <= i - 1
    BY <1>4, <1>7, <1>8, <1>10
  <2> QED BY <1>1, <1>9, <2>1
<1>11. ASSUME f = 0 PROVE box = <<>> \/ \E i \in DOMAIN box : box[i].oversize
  <2>1. CASE f = Len(box)
    <3>1. Len(box) = 0
      BY <1>11, <2>1
    <3> QED BY <3>1
  <2>2. CASE \E i \in I : f = i - 1
    BY <1>1, <1>6, <2>2
  <2> QED BY <1>5, <1>8, <2>1, <2>2
<1> QED BY <1>9, <1>10, <1>11 DEF f

LEMMA Within ==
  ASSUME NEW h \in Nat, NEW S, S \subseteq 1 .. h
  PROVE  /\ IsFiniteSet(S) /\ Cardinality(S) \in Nat /\ Cardinality(S) <= h
         /\ Cardinality(S) = 0 <=> S = {}
<1>1. IsFiniteSet(1 .. h) /\ Cardinality(1 .. h) = h
  <2>1. /\ IsFiniteSet(1 .. h)
        /\ Cardinality(1 .. h) = IF 1 > h THEN 0 ELSE h - 1 + 1
    BY FS_Interval
  <2> QED BY <2>1
<1>2. IsFiniteSet(S) /\ Cardinality(S) <= Cardinality(1 .. h)
  BY <1>1, FS_Subset
<1>3. Cardinality(S) \in Nat
  BY <1>2, FS_CardinalityType
<1>4. Cardinality(S) = 0 <=> S = {}
  BY <1>2, FS_EmptySet
<1> QED BY <1>1, <1>2, <1>3, <1>4

LEMMA SentIs ==
  ASSUME NEW c, NEW q \in Seq(Nat), c.outbox \in Seq(Entry), Whole(c, q)
  PROVE  ToSet(q) \subseteq 1 .. c.handed
<1> DEFINE a == Numbers(c.outbox)
           z == q \o a
<1>1. a \in Seq(Nat)
  BY NumbersAre
<1> HIDE DEF a
<1>2. /\ z \in Seq(Nat) /\ Len(z) = Len(q) + Len(a)
      /\ \A k \in 1 .. Len(q) + Len(a) : z[k] = IF k <= Len(q) THEN q[k] ELSE a[k - Len(q)]
  BY <1>1, Joined
<1>3. ASSUME NEW i \in 1 .. Len(q) PROVE q[i] \in ToSet(z)
  <2>1. i \in 1 .. Len(z) /\ i \in 1 .. Len(q) + Len(a) /\ i <= Len(q)
    BY <1>1, <1>2
  <2>2. z[i] = q[i]
    BY <1>2, <2>1
  <2>3. i \in DOMAIN z
    BY <1>2, <2>1
  <2> QED BY <2>2, <2>3 DEF ToSet
<1>4. ToSet(z) \subseteq 1 .. c.handed
  BY DEF Whole, StreamOf, a
<1> HIDE DEF z
<1>5. ToSet(q) \subseteq ToSet(z)
  BY <1>3 DEF ToSet
<1> QED BY <1>4, <1>5

LEMMA JoinedSet ==
  ASSUME NEW q \in Seq(Nat), NEW a \in Seq(Nat)
  PROVE  /\ ToSet(q) \subseteq ToSet(q \o a)
         /\ \A i \in 1 .. Len(a) : a[i] \in ToSet(q \o a)
<1> DEFINE z == q \o a
<1>1. /\ z \in Seq(Nat) /\ Len(z) = Len(q) + Len(a) /\ DOMAIN z = 1 .. Len(q) + Len(a)
      /\ \A k \in 1 .. Len(q) + Len(a) : z[k] = IF k <= Len(q) THEN q[k] ELSE a[k - Len(q)]
  <2>1. /\ z \in Seq(Nat) /\ Len(z) = Len(q) + Len(a)
        /\ \A k \in 1 .. Len(q) + Len(a) : z[k] = IF k <= Len(q) THEN q[k] ELSE a[k - Len(q)]
    BY Joined
  <2> HIDE DEF z
  <2>2. DOMAIN z = 1 .. Len(z)
    BY <2>1
  <2> QED BY <2>1, <2>2
<1>2. Len(q) \in Nat /\ Len(a) \in Nat
  OBVIOUS
<1> HIDE DEF z
<1>3. ASSUME NEW i \in 1 .. Len(q) PROVE q[i] \in ToSet(z)
  <2>1. i \in 1 .. Len(q) + Len(a) /\ i <= Len(q)
    BY <1>2
  <2>2. z[i] = q[i]
    BY <1>1, <2>1
  <2> QED BY <1>1, <2>1, <2>2 DEF ToSet
<1>4. ASSUME NEW i \in 1 .. Len(a) PROVE a[i] \in ToSet(z)
  <2>1. Len(q) + i \in 1 .. Len(q) + Len(a) /\ ~(Len(q) + i <= Len(q)) /\ Len(q) + i - Len(q) = i
    BY <1>2
  <2> DEFINE k == Len(q) + i
  <2>2. k \in 1 .. Len(q) + Len(a) /\ ~(k <= Len(q)) /\ k - Len(q) = i
    BY <2>1
  <2> HIDE DEF k
  <2>3. z[k] = a[k - Len(q)]
    BY <1>1, <2>2
  <2>4. k \in DOMAIN z /\ z[k] = a[i]
    BY <1>1, <2>2, <2>3
  <2> QED BY <2>4 DEF ToSet
<1>5. ToSet(q) \subseteq ToSet(z)
  BY <1>3 DEF ToSet
<1> QED BY <1>4, <1>5 DEF z

(* What the outbox holds, the Channel does not have.                       *)
LEMMA NotSentYet ==
  ASSUME NEW q \in Seq(Nat), NEW box \in Seq(Entry), Ascends(q \o Numbers(box)),
         NEW i \in 1 .. Len(box)
  PROVE  box[i].number \notin ToSet(q)
<1> DEFINE a == Numbers(box)
           z == q \o a
<1>1. a \in Seq(Nat)
  BY NumbersAre
<1>l. Len(a) = Len(box)
  BY NumbersAre
<1>n. a[i] = box[i].number
  BY NumbersAre
<1> HIDE DEF a
<1>2. /\ z \in Seq(Nat) /\ Len(z) = Len(q) + Len(a)
      /\ \A k \in 1 .. Len(q) + Len(a) : z[k] = IF k <= Len(q) THEN q[k] ELSE a[k - Len(q)]
  BY <1>1, Joined
<1>3. Ascends(z)
  BY DEF a
<1>4. Len(q) \in Nat /\ Len(box) \in Nat
  OBVIOUS
<1> HIDE DEF z
<1>5. DOMAIN z = 1 .. Len(z)
  BY <1>2
<1>6. ASSUME NEW k \in 1 .. Len(q) PROVE q[k] # box[i].number
  <2>1. /\ Len(q) + i \in 1 .. Len(q) + Len(a) /\ ~(Len(q) + i <= Len(q))
        /\ Len(q) + i - Len(q) = i /\ k \in 1 .. Len(q) + Len(a) /\ k <= Len(q) /\ k < Len(q) + i
    <3>1. ASSUME NEW x \in Nat, NEW h \in Nat, NEW e \in 1 .. h, NEW f \in 1 .. x
          PROVE  /\ x + e \in 1 .. x + h /\ ~(x + e <= x)
                 /\ x + e - x = e /\ f \in 1 .. x + h /\ f <= x /\ f < x + e
      OBVIOUS
    <3>2. /\ Len(q) + i \in 1 .. Len(q) + Len(box) /\ ~(Len(q) + i <= Len(q))
          /\ Len(q) + i - Len(q) = i /\ k \in 1 .. Len(q) + Len(box) /\ k <= Len(q)
          /\ k < Len(q) + i
      BY <1>4, <3>1
    <3> QED BY <1>l, <3>2
  <2>2. z[Len(q) + i] = a[i]
    <3> DEFINE e == Len(q) + i
    <3>1. e \in 1 .. Len(q) + Len(a) /\ ~(e <= Len(q)) /\ e - Len(q) = i
      BY <2>1
    <3> HIDE DEF e
    <3>2. z[e] = IF e <= Len(q) THEN q[e] ELSE a[e - Len(q)]
      BY <1>2, <3>1
    <3> QED BY <3>1, <3>2 DEF e
  <2>5. z[k] = q[k]
    <3>1. k \in 1 .. Len(q) + Len(a) /\ k <= Len(q)
      BY <2>1
    <3> QED BY <1>2, <3>1
  <2>3. z[k] < z[Len(q) + i]
    <3>1. k \in DOMAIN z /\ Len(q) + i \in DOMAIN z
      BY <1>2, <1>5, <2>1
    <3>2. k < Len(q) + i
      BY <2>1
    <3>3. \A e, f \in DOMAIN z : e < f => z[e] < z[f]
      BY <1>3 DEF Ascends
    <3> QED BY <3>1, <3>2, <3>3
  <2>4. z[k] \in Nat
    BY <2>5
  <2> QED BY <1>n, <2>2, <2>3, <2>4, <2>5
<1> QED BY <1>6 DEF ToSet

(* How many messages a flush lets go.                                      *)
RoomOn(k, w) ==
  IF k.status = "ACTIVE" /\ Cardinality(UnprovedIn(k)) < w
  THEN w - Cardinality(UnprovedIn(k)) ELSE 0
Letting(d, k, w) == Min({Fitting(d.outbox), RoomOn(k, w)})

LEMMA ActiveIs ==
  ASSUME NEW d, Alone(d), d.state = "ACTIVE", NEW k, Linked(d, k), LinkKept(k)
  PROVE  /\ d \in Slot /\ d.used /\ d.link # NoLink /\ d.outbox \in Seq(Entry) /\ d.handed \in Nat
         /\ k \in LinkRecord /\ k.sent \in Seq(Nat) /\ k.status \in {"ACTIVE", "STALE"}
         /\ k.carries = {d.res} \ {None} /\ Whole(d, k.sent) /\ Receipted(d, k)
         /\ ToSet(k.sent) \subseteq 1 .. d.handed /\ Boxed(d) /\ Counted(d)
<1>1. d \in Slot /\ d.link # NoLink
  BY DEF Alone
<1>2. d.outbox \in Seq(Entry) /\ d.handed \in Nat /\ d.used \in BOOLEAN
  BY <1>1 DEF Slot
<1>3. d.used
  BY <1>1, LinkHeld
<1>4. k \in LinkRecord /\ k.sent \in Seq(Nat)
  BY DEF LinkKept, LinkRecord
<1>5. k.status \in {"ACTIVE", "STALE"} /\ k.carries = {d.res} \ {None} /\ Whole(d, k.sent)
      /\ Receipted(d, k)
  BY DEF Linked
<1>6. ToSet(k.sent) \subseteq 1 .. d.handed
  BY <1>2, <1>4, <1>5, SentIs
<1> QED BY <1>1, <1>2, <1>3, <1>4, <1>5, <1>6 DEF Alone

LEMMA LettingIs ==
  ASSUME NEW d, Alone(d), d.state = "ACTIVE", NEW k, Linked(d, k), LinkKept(k), NEW w \in Windows
  PROVE  LET g == Letting(d, k, w)
         IN  /\ g \in 0 .. Len(d.outbox)
             /\ \A i \in 1 .. Len(d.outbox) : d.outbox[i].oversize => g < i
             /\ g = 0 /\ k.status = "ACTIVE" /\ UnprovedIn(k) = {} =>
                  d.outbox = <<>> \/ \E i \in DOMAIN d.outbox : d.outbox[i].oversize
<1> DEFINE g == Letting(d, k, w)
           u == UnprovedIn(k)
           r == RoomOn(k, w)
           box == d.outbox
           f == Fitting(box)
<1>1. box \in Seq(Entry) /\ ToSet(k.sent) \subseteq 1 .. d.handed /\ d.handed \in Nat
  BY ActiveIs
<1>2. w \in Nat \ {0}
  BY BridgeAssumption
<1>3. Cardinality(u) \in Nat /\ (u = {} => Cardinality(u) = 0)
  <2>1. u \subseteq 1 .. d.handed
    BY <1>1 DEF UnprovedIn
  <2> HIDE DEF u
  <2> QED BY <1>1, <2>1, Within
<1>4. r = IF k.status = "ACTIVE" /\ Cardinality(u) < w THEN w - Cardinality(u) ELSE 0
  BY DEF RoomOn
<1> HIDE DEF u, r
<1>5. r \in Nat /\ (k.status = "ACTIVE" /\ u = {} => r # 0)
  BY <1>2, <1>3, <1>4
<1> HIDE DEF box
<1>6. /\ f \in 0 .. Len(box)
      /\ \A i \in 1 .. Len(box) : box[i].oversize => f < i
      /\ f = 0 => box = <<>> \/ \E i \in DOMAIN box : box[i].oversize
  BY <1>1, FittingIs
<1> HIDE DEF f
<1>7. g \in {f, r} /\ g <= f /\ g <= r
  <2>1. {f, r} \subseteq Nat /\ {f, r} # {}
    BY <1>5, <1>6
  <2>2. g = Min({f, r})
    BY DEF Letting, f, r, box
  <2> QED BY <2>1, <2>2, MinIsLeast
<1> HIDE DEF g
<1>8. Len(box) \in Nat
  BY <1>1
<1>9. g \in 0 .. Len(box)
  BY <1>5, <1>6, <1>7, <1>8
<1>10. ASSUME NEW i \in 1 .. Len(box), box[i].oversize PROVE g < i
  <2>1. f < i
    BY <1>6, <1>10
  <2> QED BY <1>6, <1>7, <1>8, <1>9, <2>1
<1>11. ASSUME g = 0, k.status = "ACTIVE", u = {}
       PROVE  box = <<>> \/ \E i \in DOMAIN box : box[i].oversize
  <2>1. f = 0
    BY <1>5, <1>7, <1>11
  <2> QED BY <1>6, <2>1
<1> QED BY <1>9, <1>10, <1>11 DEF g, u, box

(* What a slot keeps when only its outbox changes.                         *)
Alike(c, d) ==
  /\ c.used = d.used /\ c.tag = d.tag /\ c.handle = d.handle /\ c.state = d.state
  /\ c.link = d.link /\ c.channel = d.channel /\ c.pend = d.pend /\ c.res = d.res
  /\ c.handed = d.handed
Emptied(c, k) ==
  k.status = "ACTIVE" /\ ToSet(k.sent) \ k.settled = {} => c.outbox = <<>> \/ Blocked(c)

FlushedSlot(d, g) == [d EXCEPT !.outbox = SubSeq(d.outbox, g + 1, Len(d.outbox))]
FlushedLink(d, k, g) == [k EXCEPT !.sent = k.sent \o Numbers(SubSeq(d.outbox, 1, g))]

LEMMA FlushedFields ==
  ASSUME NEW d, Alone(d), d.state = "ACTIVE", NEW k, Linked(d, k), LinkKept(k), NEW w \in Windows
  PROVE  LET c == FlushedSlot(d, Letting(d, k, w))
             e == FlushedLink(d, k, Letting(d, k, w))
         IN  Alone(c) /\ Alike(c, d) /\ Linked(c, e) /\ LinkKept(e) /\ Emptied(c, e)
<1> DEFINE g == Letting(d, k, w)
           c == FlushedSlot(d, g)
           e == FlushedLink(d, k, g)
           box == d.outbox
           a == Numbers(SubSeq(box, 1, g))
           rest == SubSeq(box, g + 1, Len(box))
           sent2 == k.sent \o a
<1>1. /\ d \in Slot /\ d.used /\ d.link # NoLink /\ box \in Seq(Entry) /\ d.handed \in Nat
      /\ k \in LinkRecord /\ k.sent \in Seq(Nat) /\ k.status \in {"ACTIVE", "STALE"}
      /\ k.carries = {d.res} \ {None} /\ Whole(d, k.sent) /\ Receipted(d, k)
      /\ ToSet(k.sent) \subseteq 1 .. d.handed /\ Boxed(d) /\ Counted(d)
  BY ActiveIs
<1>2. /\ g \in 0 .. Len(box)
      /\ \A i \in 1 .. Len(box) : box[i].oversize => g < i
      /\ g = 0 /\ k.status = "ACTIVE" /\ UnprovedIn(k) = {} =>
           box = <<>> \/ \E i \in DOMAIN box : box[i].oversize
  BY LettingIs
<1> HIDE DEF g
<1>3. /\ sent2 \in Seq(Nat) /\ rest \in Seq(Entry)
      /\ Len(a) = g /\ \A i \in 1 .. g : a[i] = box[i].number
      /\ Len(rest) = Len(box) - g
      /\ \A i \in 1 .. Len(box) - g : rest[i] = box[g + i]
      /\ sent2 \o Numbers(rest) = k.sent \o Numbers(box)
  <2>1. k.sent \in Seq(Nat) /\ box \in Seq(Entry) /\ g \in 0 .. Len(box)
    BY <1>1, <1>2
  <2> HIDE DEF box
  <2> QED BY <2>1, MovesOn
<1>4. c \in Slot /\ c.outbox = rest /\ Alike(c, d)
      /\ c.outstanding = d.outstanding /\ c.refused = d.refused
      /\ c.covered = d.covered /\ c.heard = d.heard
  <2>1. c = [d EXCEPT !.outbox = rest]
    BY DEF FlushedSlot
  <2> HIDE DEF rest, box
  <2> QED BY <1>1, <1>3, <2>1 DEF Slot, Alike
<1>5. e \in LinkRecord /\ e.sent = sent2 /\ e.status = k.status /\ e.carries = k.carries
      /\ e.proved = k.proved /\ e.settled = k.settled
  <2>1. e = [k EXCEPT !.sent = sent2]
    BY DEF FlushedLink
  <2> HIDE DEF sent2
  <2> QED BY <1>1, <1>3, <2>1 DEF LinkRecord
<1>6. ToSet(k.sent) \subseteq ToSet(sent2) /\ \A i \in 1 .. Len(a) : a[i] \in ToSet(sent2)
  <2>1. a \in Seq(Nat)
    <3>1. SubSeq(box, 1, g) \in Seq(Entry)
      BY <1>1, <1>2
    <3> QED BY <3>1, NumbersAre
  <2> HIDE DEF a
  <2> QED BY <1>1, <2>1, JoinedSet
<1>7. Len(box) \in Nat /\ g \in Nat /\ g <= Len(box) /\ DOMAIN box = 1 .. Len(box)
      /\ DOMAIN rest = 1 .. Len(box) - g
  BY <1>1, <1>2, <1>3
<1> HIDE DEF c, e, rest, sent2, a, box
<1>8. ASSUME NEW i \in 1 .. Len(box), box[i].oversize PROVE Blocked(c)
  <2>1. g < i
    BY <1>2, <1>8
  <2>2. i - g \in 1 .. Len(box) - g /\ g + (i - g) = i
    BY <1>7, <2>1
  <2>3. rest[i - g] = box[i]
    BY <1>3, <2>2
  <2> QED BY <1>4, <1>7, <1>8, <2>2, <2>3 DEF Blocked
<1>9. Blocked(d) => Blocked(c)
  BY <1>7, <1>8 DEF Blocked, box
<1>10. Boxed(c) /\ Counted(c)
  <2>1. Len(rest) <= RNSD_CHAN_MAX_OUTBOX
    <3>1. Len(box) <= RNSD_CHAN_MAX_OUTBOX /\ RNSD_CHAN_MAX_OUTBOX \in Nat
      BY <1>1, BridgeAssumption DEF Boxed, box
    <3>2. Len(rest) = Len(box) - g
      BY <1>3
    <3> QED BY <1>7, <3>1, <3>2
  <2>2. ASSUME NEW i \in DOMAIN rest PROVE rest[i].number \in 1 .. d.handed
    <3>1. i \in 1 .. Len(box) - g /\ g + i \in 1 .. Len(box)
      BY <1>7
    <3>2. rest[i] = box[g + i]
      BY <1>3, <3>1
    <3> QED BY <1>1, <1>7, <3>1, <3>2 DEF Boxed, box
  <2> QED BY <1>1, <1>4, <2>1, <2>2 DEF Boxed, Counted, Alike
<1>11. Alone(c)
  BY <1>1, <1>4, <1>10 DEF Alone, Alike
<1>12. LinkKept(e)
  BY <1>5, <1>6 DEF LinkKept
<1>13. Whole(c, e.sent)
  BY <1>1, <1>3, <1>4, <1>5 DEF Whole, StreamOf, Alike, box
<1>14. Receipted(c, e)
  BY <1>1, <1>4, <1>5, <1>9 DEF Receipted, Reached, Alike
<1>15. Linked(c, e)
  BY <1>1, <1>4, <1>5, <1>13, <1>14 DEF Linked, Alike
<1>16. Emptied(c, e)
  <2> SUFFICES ASSUME e.status = "ACTIVE", ToSet(e.sent) \ e.settled = {}
               PROVE  c.outbox = <<>> \/ Blocked(c)
    BY DEF Emptied
  <2>1. ToSet(sent2) \subseteq k.proved /\ ToSet(sent2) \subseteq ToSet(k.sent)
    BY <1>5 DEF LinkKept
  <2>2. UnprovedIn(k) = {}
    BY <1>6, <2>1 DEF UnprovedIn
  <2>3. g = 0
    <3> SUFFICES ASSUME g # 0 PROVE FALSE
      OBVIOUS
    <3>1. 1 \in 1 .. g /\ 1 \in 1 .. Len(box)
      BY <1>7
    <3>2. a[1] = box[1].number /\ a[1] \in ToSet(sent2)
      BY <1>3, <1>6, <3>1
    <3>3. Ascends(k.sent \o Numbers(box))
      BY <1>1 DEF Whole, StreamOf, box
    <3>4. box[1].number \notin ToSet(k.sent)
      BY <1>1, <3>1, <3>3, NotSentYet
    <3> QED BY <2>1, <3>2, <3>4
  <2>4. CASE box = <<>>
    <3>1. Len(rest) = 0
      BY <1>3, <2>3, <2>4
    <3> QED BY <1>3, <1>4, <3>1
  <2>5. CASE \E i \in DOMAIN box : box[i].oversize
    BY <1>7, <1>8, <2>5
  <2>6. k.status = "ACTIVE"
    BY <1>5
  <2> QED BY <1>2, <2>2, <2>3, <2>4, <2>5, <2>6
<1> QED BY <1>4, <1>11, <1>12, <1>15, <1>16 DEF c, e, g

-----------------------------------------------------------------------------
(* A slot changes, or a slot and its Link.                                 *)

InTurn(n, s, q) == q = n.idle \/ q = Append(Without(n.idle, s), s)
Fits(n, s, c) == Alone(c) /\ c.used /\ c.tag = n.slot[s].tag /\ c.link = n.slot[s].link
SlotSet(n, m, s, c, q, w) ==
  InTurn(n, s, q) /\ Parts(m, [n.slot EXCEPT ![s] = c], n.link, q, n.tree, w)
SlotAndLinkSet(n, m, s, c, k, q, w) ==
  /\ InTurn(n, s, q) /\ n.slot[s].link # NoLink
  /\ Parts(m, [n.slot EXCEPT ![s] = c], [n.link EXCEPT ![n.slot[s].link] = k], q, n.tree, w)

LEMMA SlotKept ==
  ASSUME NEW n, Core(n), NEW s \in Used(n), NEW m, NEW c, NEW q, NEW w, SlotSet(n, m, s, c, q, w),
         Fits(n, s, c), c.link # NoLink => Linked(c, n.link[c.link])
  PROVE  Kept(n, m, s, c) /\ Backed(n, m, c, NewLink) /\ m.told = w
BY DEF Kept, Backed, Parts, SlotSet, Fits, InTurn

LEMMA BothKept ==
  ASSUME NEW n, Core(n), NEW s \in Used(n), NEW m, NEW c, NEW k, NEW q, NEW w,
         SlotAndLinkSet(n, m, s, c, k, q, w), Fits(n, s, c), Linked(c, k), LinkKept(k)
  PROVE  Kept(n, m, s, c) /\ Backed(n, m, c, k) /\ m.told = w /\ m.link[n.slot[s].link] = k
<1> DEFINE l == n.slot[s].link
<1>0. m.link = [n.link EXCEPT ![l] = k] /\ l # NoLink /\ c.link = l
  BY DEF SlotAndLinkSet, Parts, Fits
<1>1. l \in Links /\ Shaped(n)
  BY <1>0, InUse
<1> HIDE DEF l
<1>2. [n.link EXCEPT ![l] = k][l] = k
  BY <1>1 DEF Shaped
<1>3. m.link[l] = k /\ c.link = l /\ l # NoLink
  BY <1>0, <1>2
<1> QED BY <1>3 DEF Kept, Backed, Parts, SlotAndLinkSet, Fits, InTurn, l

LEMMA BothSet ==
  ASSUME NEW n, Shaped(n), NEW i, NEW l, NEW c, NEW k
  PROVE  Parts([n EXCEPT !.slot[i] = c, !.link[l] = k], [n.slot EXCEPT ![i] = c],
               [n.link EXCEPT ![l] = k], n.idle, n.tree, n.told)
<1> DEFINE z == [n EXCEPT !.slot[i] = c]
<1>1. Parts(n, n.slot, n.link, n.idle, n.tree, n.told)
  BY ShapedParts
<1>2. Parts(z, [n.slot EXCEPT ![i] = c], n.link, n.idle, n.tree, n.told)
  BY <1>1, PartSet
<1>3. [n EXCEPT !.slot[i] = c, !.link[l] = k] = [z EXCEPT !.link[l] = k]
  OBVIOUS
<1> HIDE DEF z
<1>4. Parts([z EXCEPT !.link[l] = k], [n.slot EXCEPT ![i] = c],
            [n.link EXCEPT ![l] = k], n.idle, n.tree, n.told)
  BY <1>2, PartSet
<1> QED BY <1>3, <1>4

LEMMA SameHandedNoMore ==
  ASSUME NEW c, c \in Slot, NEW d, c.handed = d.handed
  PROVE  c.handed <= d.handed
BY DEF Slot

(* A flush.                                                                *)
LEMMA Flushes ==
  ASSUME NEW n, Core(n), NEW s \in Used(n), n.slot[s].state = "ACTIVE", NEW w \in Windows
  PROVE  LET m == chanFlushOutbox(n, s, w)
         IN  /\ Core(m) /\ Only(n, m, s, m.slot[s]) /\ Used(m) = Used(n) /\ NoMore(n, m)
             /\ Alike(m.slot[s], n.slot[s]) /\ m.told = n.told
             /\ Emptied(m.slot[s], m.link[n.slot[s].link])
<1> DEFINE d == n.slot[s]
           l == d.link
           k == n.link[l]
           g == Letting(d, k, w)
           c == FlushedSlot(d, g)
           e == FlushedLink(d, k, g)
           m == chanFlushOutbox(n, s, w)
<1>1. /\ s \in Slots /\ Shaped(n) /\ Alone(d) /\ d \in Slot /\ d.used
      /\ l # NoLink => l \in Links /\ Linked(d, k) /\ LinkKept(k)
  BY InUse
<1>2. l # NoLink /\ l \in Links /\ Linked(d, k) /\ LinkKept(k)
  BY <1>1 DEF Alone
<1>3. Alone(c) /\ Alike(c, d) /\ Linked(c, e) /\ LinkKept(e) /\ Emptied(c, e)
  BY <1>1, <1>2, FlushedFields
<1>4. m = [n EXCEPT !.slot[s] = c, !.link[l] = e]
  <2>1. Room(n, s, w) = RoomOn(k, w)
    BY DEF Room, RoomOn
  <2>2. g = Min({Fitting(d.outbox), Room(n, s, w)})
    BY <2>1 DEF Letting
  <2> DEFINE h == Min({Fitting(d.outbox), Room(n, s, w)})
  <2>3. m = [n EXCEPT !.link[l].sent = @ \o Numbers(SubSeq(d.outbox, 1, h)),
                      !.slot[s].outbox = SubSeq(d.outbox, h + 1, Len(d.outbox))]
    BY DEF chanFlushOutbox
  <2>4. h = g
    BY <2>2
  <2> HIDE DEF h, g, m
  <2>5. m = [n EXCEPT !.link[l].sent = @ \o Numbers(SubSeq(d.outbox, 1, g)),
                      !.slot[s].outbox = SubSeq(d.outbox, g + 1, Len(d.outbox))]
    BY <2>3, <2>4
  <2> DEFINE a == Numbers(SubSeq(d.outbox, 1, g))
             b == SubSeq(d.outbox, g + 1, Len(d.outbox))
  <2>6. c = [d EXCEPT !.outbox = b] /\ e = [k EXCEPT !.sent = k.sent \o a]
    BY DEF FlushedSlot, FlushedLink
  <2>7. m = [n EXCEPT !.link[l].sent = @ \o a, !.slot[s].outbox = b]
    BY <2>5
  <2> HIDE DEF a, b, c, e
  <2>8. [n EXCEPT !.link[l].sent = @ \o a, !.slot[s].outbox = b]
          = [n EXCEPT !.slot[s] = [d EXCEPT !.outbox = b], !.link[l] = [k EXCEPT !.sent = k.sent \o a]]
    OBVIOUS
  <2> QED BY <2>6, <2>7, <2>8
<1> HIDE DEF c, e, m
<1>5. Parts(m, [n.slot EXCEPT ![s] = c], [n.link EXCEPT ![l] = e], n.idle, n.tree, n.told)
  BY <1>1, <1>4, BothSet
<1>6. c.used /\ c.tag = d.tag /\ c.link = d.link /\ c.handed = d.handed /\ Has(c) = Has(d)
  BY <1>1, <1>3 DEF Alike, Has
<1>7. Kept(n, m, s, c) /\ Backed(n, m, c, e) /\ m.told = n.told /\ m.link[l] = e
  <2>1. SlotAndLinkSet(n, m, s, c, e, n.idle, n.told) /\ Fits(n, s, c)
    BY <1>2, <1>3, <1>5, <1>6 DEF SlotAndLinkSet, Fits, InTurn
  <2> QED BY <1>3, <2>1, BothKept
<1>8. c.handed <= d.handed
  BY <1>3, <1>6, SameHandedNoMore DEF Alone
<1>9. Core(m) /\ Only(n, m, s, c) /\ Used(m) = Used(n) /\ NoMore(n, m)
  BY <1>6, <1>7, <1>8, Stays
<1>10. m.slot[s] = c
  BY <1>9 DEF Only
<1> QED BY <1>3, <1>7, <1>9, <1>10 DEF m

LEMMA LinkSetTo ==
  ASSUME NEW n, Shaped(n), NEW l, NEW k
  PROVE  Parts([n EXCEPT !.link[l] = k], n.slot, [n.link EXCEPT ![l] = k], n.idle, n.tree, n.told)
<1>1. Parts(n, n.slot, n.link, n.idle, n.tree, n.told)
  BY ShapedParts
<1> QED BY <1>1, PartSet

LEMMA SlotSetTo ==
  ASSUME NEW n, Shaped(n), NEW s, NEW c
  PROVE  Parts([n EXCEPT !.slot[s] = c], [n.slot EXCEPT ![s] = c], n.link, n.idle, n.tree, n.told)
<1>1. Parts(n, n.slot, n.link, n.idle, n.tree, n.told)
  BY ShapedParts
<1> QED BY <1>1, PartSet

(* A touch.                                                                *)
LEMMA Touches ==
  ASSUME NEW n, Core(n), NEW s \in Used(n)
  PROVE  LET m == chanTouch(n, s)
         IN  /\ Core(m) /\ Used(m) = Used(n) /\ NoMore(n, m)
             /\ m.slot = n.slot /\ m.link = n.link /\ m.told = n.told
<1> DEFINE d == n.slot[s]
           q == Append(Without(n.idle, s), s)
           m == chanTouch(n, s)
<1>1. /\ s \in Slots /\ Shaped(n) /\ Alone(d) /\ d \in Slot /\ d.used
      /\ d.link # NoLink => Linked(d, n.link[d.link])
  BY InUse
<1>2. Parts(m, n.slot, n.link, q, n.tree, n.told)
  <2>1. Parts(n, n.slot, n.link, n.idle, n.tree, n.told)
    BY <1>1, ShapedParts
  <2>2. m = [n EXCEPT !.idle = q]
    BY DEF chanTouch
  <2> HIDE DEF m, q
  <2> QED BY <2>1, <2>2, PartSet
<1>3. [n.slot EXCEPT ![s] = d] = n.slot
  BY <1>1, SlotSetIs
<1> HIDE DEF m
<1>4. SlotSet(n, m, s, d, q, n.told) /\ Fits(n, s, d)
  BY <1>1, <1>2, <1>3 DEF SlotSet, Fits, InTurn
<1>5. Kept(n, m, s, d) /\ Backed(n, m, d, NewLink) /\ m.told = n.told
  BY <1>1, <1>4, SlotKept
<1>6. Core(m) /\ Used(m) = Used(n)
  BY <1>5, Stays
<1>7. m.slot = n.slot /\ m.link = n.link
  BY <1>2 DEF Parts
<1> QED BY <1>1, <1>5, <1>6, <1>7, NoMoreSame DEF m

(* A turn of the loop: what was proved is settled, the outbox flushed, and *)
(* what is outstanding published.                                          *)
SettledLink(k) == [k EXCEPT !.settled = k.proved]

LEMMA SettledFields ==
  ASSUME NEW d, NEW k, Linked(d, k), LinkKept(k), d.state = "ACTIVE"
  PROVE  Linked(d, SettledLink(k)) /\ LinkKept(SettledLink(k))
<1> DEFINE e == SettledLink(k)
<1>1. k \in LinkRecord
  BY DEF LinkKept
<1>2. /\ e \in LinkRecord /\ e.status = k.status /\ e.sent = k.sent /\ e.proved = k.proved
      /\ e.settled = k.proved /\ e.carries = k.carries
  BY <1>1 DEF LinkRecord, SettledLink
<1> HIDE DEF e
<1>3. LinkKept(e)
  BY <1>2 DEF LinkKept
<1>4. Linked(d, e)
  BY <1>2 DEF Linked, Receipted, Reached
<1> QED BY <1>3, <1>4 DEF e

LEMMA Settles ==
  ASSUME NEW n, Core(n), NEW s \in Used(n), n.slot[s].state = "ACTIVE"
  PROVE  LET l == n.slot[s].link
             m == [n EXCEPT !.link[l].settled = n.link[l].proved]
         IN  Core(m) /\ Used(m) = Used(n) /\ NoMore(n, m) /\ m.slot = n.slot
<1> DEFINE d == n.slot[s]
           l == d.link
           k == n.link[l]
           e == SettledLink(k)
           m == [n EXCEPT !.link[l].settled = k.proved]
<1>1. /\ s \in Slots /\ Shaped(n) /\ Alone(d) /\ d \in Slot /\ d.used
      /\ l # NoLink => l \in Links /\ Linked(d, k) /\ LinkKept(k)
  BY InUse
<1>2. l # NoLink /\ l \in Links /\ Linked(d, k) /\ LinkKept(k)
  BY <1>1 DEF Alone
<1>3. Linked(d, e) /\ LinkKept(e)
  BY <1>2, SettledFields
<1>4. m = [n EXCEPT !.link[l] = e]
  BY DEF SettledLink
<1> HIDE DEF e, m
<1>5. Parts(m, n.slot, [n.link EXCEPT ![l] = e], n.idle, n.tree, n.told)
  BY <1>1, <1>4, LinkSetTo
<1>6. [n.slot EXCEPT ![s] = d] = n.slot
  BY <1>1, SlotSetIs
<1>7. SlotAndLinkSet(n, m, s, d, e, n.idle, n.told) /\ Fits(n, s, d)
  BY <1>1, <1>2, <1>5, <1>6 DEF SlotAndLinkSet, Fits, InTurn
<1>8. Kept(n, m, s, d) /\ Backed(n, m, d, e) /\ m.told = n.told
  BY <1>3, <1>7, BothKept
<1>9. Core(m) /\ Used(m) = Used(n)
  BY <1>8, Stays
<1>10. m.slot = n.slot
  BY <1>5 DEF Parts
<1> QED BY <1>1, <1>9, <1>10, NoMoreSame DEF m

PublishedSlot(d, x, h) == [d EXCEPT !.outstanding = x, !.covered = d.handed, !.heard = h]

LEMMA PublishedFields ==
  ASSUME NEW d, Alone(d), d.state = "ACTIVE", NEW k, Linked(d, k), LinkKept(k), Emptied(d, k)
  PROVE  LET c == PublishedSlot(d, Cardinality(ToSet(k.sent) \ k.settled), k.status = "ACTIVE")
         IN  Alone(c) /\ Alike(c, d) /\ Linked(c, k)
<1> DEFINE S == ToSet(k.sent) \ k.settled
           x == Cardinality(S)
           h == k.status = "ACTIVE"
           c == PublishedSlot(d, x, h)
<1>1. /\ d \in Slot /\ d.used /\ d.link # NoLink /\ d.outbox \in Seq(Entry) /\ d.handed \in Nat
      /\ k \in LinkRecord /\ k.sent \in Seq(Nat) /\ k.status \in {"ACTIVE", "STALE"}
      /\ k.carries = {d.res} \ {None} /\ Whole(d, k.sent)
      /\ ToSet(k.sent) \subseteq 1 .. d.handed /\ Boxed(d) /\ Counted(d)
  BY ActiveIs
<1>2. x \in Nat /\ x <= d.handed /\ (x = 0 <=> S = {})
  <2>1. S \subseteq 1 .. d.handed
    BY <1>1
  <2> HIDE DEF S
  <2> QED BY <1>1, <2>1, Within
<1> HIDE DEF x
<1>0. h \in BOOLEAN
  OBVIOUS
<1> HIDE DEF h
<1>3. /\ c \in Slot /\ Alike(c, d) /\ c.outbox = d.outbox /\ c.refused = d.refused
      /\ c.outstanding = x /\ c.covered = d.handed /\ c.heard = h /\ c.dead = d.dead
  <2> DEFINE z == [d EXCEPT !.outstanding = x]
             y == [z EXCEPT !.covered = d.handed]
  <2>1. z \in Slot /\ z.handed = d.handed
    BY <1>1, <1>2 DEF Slot
  <2>2. c = [y EXCEPT !.heard = h]
    BY DEF PublishedSlot
  <2>3. /\ Alike(z, d) /\ z.outbox = d.outbox /\ z.refused = d.refused
        /\ z.outstanding = x /\ z.dead = d.dead
    BY <1>1 DEF Slot, Alike
  <2> HIDE DEF z, c
  <2>4. y \in Slot
    BY <1>1, <2>1 DEF Slot
  <2>5. /\ Alike(y, z) /\ y.outbox = z.outbox /\ y.refused = z.refused
        /\ y.outstanding = z.outstanding /\ y.dead = z.dead /\ y.covered = d.handed
    BY <2>1 DEF Slot, Alike
  <2> HIDE DEF y
  <2>6. c \in Slot
    BY <1>0, <2>2, <2>4, ZenonT(60) DEF Slot
  <2>7. /\ Alike(c, y) /\ c.outbox = y.outbox /\ c.refused = y.refused
        /\ c.outstanding = y.outstanding /\ c.dead = y.dead /\ c.covered = y.covered
        /\ c.heard = h
    BY <2>2, <2>4 DEF Slot, Alike
  <2> QED BY <2>3, <2>5, <2>6, <2>7 DEF Alike
<1> HIDE DEF c
<1>4. Boxed(c) /\ Counted(c)
  <2>1. c.covered <= c.handed
    BY <1>1, <1>3 DEF Alike
  <2> QED BY <1>1, <1>2, <1>3, <2>1 DEF Boxed, Counted, Alike
<1>5. Alone(c)
  BY <1>1, <1>3, <1>4 DEF Alone, Alike
<1>6. Whole(c, k.sent)
  BY <1>1, <1>3 DEF Whole, StreamOf, Alike
<1>7. Receipted(c, k)
  <2> SUFFICES ASSUME c.outstanding = 0, c.heard, ~Blocked(c) PROVE Reached(c, k)
    BY DEF Receipted
  <2>0. k.status = "ACTIVE"
    BY <1>3 DEF h
  <2>1. S = {}
    BY <1>2, <1>3
  <2>2. d.outbox = <<>>
    BY <1>3, <2>0, <2>1 DEF Emptied, Blocked
  <2>3. StreamOf(c, k.sent) = k.sent
    <3>1. k.sent \o <<>> = k.sent
      BY <1>1
    <3> QED BY <1>3, <2>2, <3>1, NoNumbers DEF StreamOf
  <2>4. ToSet(k.sent) = 1 .. c.handed \ c.refused
    BY <1>6, <2>3 DEF Whole
  <2>5. ToSet(k.sent) \subseteq k.proved
    BY <2>1 DEF LinkKept
  <2> QED BY <1>3, <2>4, <2>5 DEF Reached, Alike
<1>8. Linked(c, k)
  BY <1>1, <1>3, <1>6, <1>7 DEF Linked, Alike
<1> QED BY <1>3, <1>5, <1>8 DEF c, x, h

LEMMA Publishes ==
  ASSUME NEW n, Core(n), NEW s \in Used(n), n.slot[s].state = "ACTIVE",
         Emptied(n.slot[s], n.link[n.slot[s].link])
  PROVE  LET m == Publish(n, s) IN Core(m) /\ NoMore(n, m)
<1> DEFINE d == n.slot[s]
           l == d.link
           k == n.link[l]
           x == Cardinality(ToSet(k.sent) \ k.settled)
           h == k.status = "ACTIVE"
           c == PublishedSlot(d, x, h)
           m == Publish(n, s)
<1>1. /\ s \in Slots /\ Shaped(n) /\ Alone(d) /\ d \in Slot /\ d.used
      /\ l # NoLink => l \in Links /\ Linked(d, k) /\ LinkKept(k)
  BY InUse
<1>2. l # NoLink /\ l \in Links /\ Linked(d, k) /\ LinkKept(k)
  BY <1>1 DEF Alone
<1>3. Alone(c) /\ Alike(c, d) /\ Linked(c, k)
  BY <1>1, <1>2, PublishedFields
<1>4. m = [n EXCEPT !.slot[s] = c]
  <2>1. Cardinality(Ring(n, s)) = x
    BY DEF Ring, Sent
  <2>2. m = [n EXCEPT !.slot[s].outstanding = Cardinality(Ring(n, s)),
                      !.slot[s].covered = d.handed, !.slot[s].heard = h]
    BY DEF Publish
  <2> HIDE DEF x, h, m
  <2>3. m = [n EXCEPT !.slot[s].outstanding = x, !.slot[s].covered = d.handed,
                      !.slot[s].heard = h]
    BY <2>1, <2>2
  <2>4. [n EXCEPT !.slot[s].outstanding = x, !.slot[s].covered = d.handed, !.slot[s].heard = h]
          = [n EXCEPT !.slot[s] = c]
    BY <1>1 DEF PublishedSlot, Shaped
  <2> QED BY <2>3, <2>4
<1> HIDE DEF c, m
<1>5. Parts(m, [n.slot EXCEPT ![s] = c], n.link, n.idle, n.tree, n.told)
  BY <1>1, <1>4, SlotSetTo
<1>6. c.used /\ c.tag = d.tag /\ c.link = d.link /\ c.handed = d.handed /\ Has(c) = Has(d)
  BY <1>1, <1>3 DEF Alike, Has
<1>7. SlotSet(n, m, s, c, n.idle, n.told) /\ Fits(n, s, c)
  BY <1>3, <1>5, <1>6 DEF SlotSet, Fits, InTurn
<1>8. Linked(c, n.link[c.link])
  BY <1>3, <1>6
<1>9. Kept(n, m, s, c) /\ Backed(n, m, c, NewLink) /\ m.told = n.told
  BY <1>7, <1>8, SlotKept
<1>10. c.handed <= d.handed
  BY <1>3, <1>6, SameHandedNoMore DEF Alone
<1>11. Core(m) /\ NoMore(n, m)
  BY <1>6, <1>9, <1>10, Stays
<1> QED BY <1>11 DEF m

LEMMA AttachedIs ==
  ASSUME NEW n, Core(n), NEW s \in Slots, Attached(n, s)
  PROVE  s \in Used(n) /\ n.slot[s].state = "ACTIVE" /\ n.slot[s].channel
         /\ n.slot[s].link # NoLink /\ n.slot[s].link \in Links
<1>1. s \in Used(n) /\ n.slot[s].state = "ACTIVE" /\ n.slot[s].channel
  BY DEF Attached, Used
<1>2. n.slot[s].link # NoLink
  BY <1>1, InUse DEF Alone
<1> QED BY <1>1, <1>2, InUse

LEMMA AfterPollKeeps ==
  ASSUME NEW n, Core(n), NEW s \in Used(n), n.slot[s].state = "ACTIVE", NEW w \in Windows
  PROVE  LET m == afterPoll(n, s, w) IN Core(m) /\ NoMore(n, m)
<1> DEFINE f == chanFlushOutbox(n, s, w)
           m == Publish(f, s)
<1>1. /\ Core(f) /\ Used(f) = Used(n) /\ NoMore(n, f)
      /\ Alike(f.slot[s], n.slot[s]) /\ Emptied(f.slot[s], f.link[n.slot[s].link])
  BY Flushes
<1> HIDE DEF f
<1>2. s \in Used(f) /\ f.slot[s].state = "ACTIVE" /\ Emptied(f.slot[s], f.link[f.slot[s].link])
  BY <1>1 DEF Alike
<1>3. Core(m) /\ NoMore(f, m)
  BY <1>1, <1>2, Publishes
<1>4. NoMore(n, m)
  BY <1>1, <1>3, NoMoreTwice DEF Core
<1>5. m = afterPoll(n, s, w)
  BY DEF afterPoll, f
<1> QED BY <1>3, <1>4, <1>5

LEMMA Polls ==
  ASSUME Core(rnsd), NEW s \in Slots, NEW w \in Windows, channelPollAll(s, w)
  PROVE  Core(rnsd') /\ NoMore(rnsd, rnsd')
<1> DEFINE l == rnsd.slot[s].link
           b1 == [rnsd EXCEPT !.link[l].settled = rnsd.link[l].proved]
           b2 == link_closed(rnsd, l)
<1>1. /\ s \in Used(rnsd) /\ rnsd.slot[s].state = "ACTIVE" /\ rnsd.slot[s].channel
      /\ l # NoLink /\ l \in Links
  BY AttachedIs DEF channelPollAll
<1>2. PICK b \in poll(rnsd, s) : rnsd' = IF b.slot[s].channel THEN afterPoll(b, s, w) ELSE b
  BY DEF channelPollAll
<1>3. b = b1 \/ b = b2
  <2>1. poll(rnsd, s) \subseteq {b1, b2}
    BY DEF poll
  <2> HIDE DEF b1, b2
  <2> QED BY <1>2, <2>1
<1>4. CASE b = b1
  <2>1. Core(b1) /\ Used(b1) = Used(rnsd) /\ NoMore(rnsd, b1) /\ b1.slot = rnsd.slot
    BY <1>1, Settles
  <2> HIDE DEF b1
  <2>2. rnsd' = afterPoll(b1, s, w) /\ s \in Used(b1) /\ b1.slot[s].state = "ACTIVE"
    BY <1>1, <1>2, <1>4, <2>1
  <2>3. Core(rnsd') /\ NoMore(b1, rnsd')
    BY <2>1, <2>2, AfterPollKeeps
  <2> QED BY <2>1, <2>3, NoMoreTwice DEF Core
<1>5. CASE b = b2
  <2> HIDE DEF l, b1, b2
  <2>1. /\ Core(b2) /\ Only(rnsd, b2, s, ClosedSlot(rnsd.slot[s])) /\ NoMore(rnsd, b2)
    BY <1>1, LinkCloses DEF l, b2
  <2>2. Alone(rnsd.slot[s]) /\ rnsd.slot[s].link # NoLink
    BY <1>1, InUse DEF l
  <2>3. b2.slot[s].channel = FALSE
    <3>1. b2.slot[s] = ClosedSlot(rnsd.slot[s])
      BY <2>1 DEF Only
    <3>2. ClosedSlot(rnsd.slot[s]).channel = FALSE
      BY <2>2, ClosedFields
    <3> QED BY <3>1, <3>2
  <2>4. rnsd' = b2
    BY <1>2, <1>5, <2>3
  <2> QED BY <2>1, <2>4
<1> QED BY <1>3, <1>4, <1>5

-----------------------------------------------------------------------------
(* A slot fails, is dated, or gets a Link.                                 *)

Dated(d) == [d EXCEPT !.dead = TRUE]

LEMMA DatedFields ==
  ASSUME NEW d, Alone(d), d.used
  PROVE  LET c == Dated(d) IN Alone(c) /\ Alike(c, d)
<1> DEFINE c == Dated(d)
<1>1. d \in Slot
  BY DEF Alone
<1>2. c \in Slot
  BY <1>1, ZenonT(60) DEF Slot, Dated
<1>3. /\ Alike(c, d) /\ c.outbox = d.outbox /\ c.outstanding = d.outstanding
      /\ c.refused = d.refused /\ c.covered = d.covered /\ c.heard = d.heard
  BY <1>1 DEF Slot, Alike, Dated
<1> HIDE DEF c
<1>4. Boxed(c) /\ Counted(c)
  BY <1>3 DEF Alone, Boxed, Counted, Alike
<1>5. Whole(d, <<>>) => Whole(c, <<>>)
  BY <1>3 DEF Whole, StreamOf, Alike
<1>6. Alone(c)
  BY <1>2, <1>3, <1>4, <1>5 DEF Alone, Alike
<1> QED BY <1>3, <1>6 DEF c

LEMMA FailedFields ==
  ASSUME NEW d, Alone(d), d.used, d.link = NoLink
  PROVE  LET c == Failed(d)
         IN  /\ Alone(c) /\ c.used /\ c.tag = d.tag /\ c.link = NoLink /\ c.handed = d.handed
             /\ Has(c) = Has(d)
<1> DEFINE c == Failed(d)
<1>1. d \in Slot /\ d.tag # None /\ d.state # "ACTIVE" /\ d.channel \in BOOLEAN
  BY DEF Alone, Slot
<1>2. c \in Slot
  BY <1>1 DEF Slot, Failed, States
<1>3. /\ c.used = d.used /\ c.tag = d.tag /\ c.state = "FAILED" /\ c.link = d.link
      /\ c.channel = d.channel /\ c.outbox = d.outbox /\ c.outstanding = d.outstanding
      /\ c.pend = d.pend /\ c.res = d.res /\ c.handed = d.handed
      /\ c.refused = d.refused /\ c.covered = d.covered /\ c.heard = d.heard
  BY <1>1 DEF Slot, Failed
<1> HIDE DEF c
<1>4. Boxed(c) /\ Counted(c)
  BY <1>3 DEF Alone, Boxed, Counted
<1>5. ~d.channel /\ d.res = None
  BY <1>1 DEF Alone
<1>6. Alone(c)
  BY <1>1, <1>2, <1>3, <1>4, <1>5 DEF Alone
<1> QED BY <1>3, <1>6 DEF c, Has

LEMMA Dates ==
  ASSUME NEW n, Core(n), NEW s \in Used(n), n.slot[s].link = NoLink
  PROVE  LET m == [n EXCEPT !.slot[s].dead = TRUE]
         IN  Core(m) /\ Used(m) = Used(n) /\ NoMore(n, m)
<1> DEFINE d == n.slot[s]
           c == Dated(d)
           m == [n EXCEPT !.slot[s].dead = TRUE]
<1>1. s \in Slots /\ Shaped(n) /\ Alone(d) /\ d.used
  BY InUse
<1>2. Alone(c) /\ Alike(c, d)
  BY <1>1, DatedFields
<1>3. m = [n EXCEPT !.slot[s] = c]
  BY DEF Dated
<1> HIDE DEF c, m
<1>4. Parts(m, [n.slot EXCEPT ![s] = c], n.link, n.idle, n.tree, n.told)
  BY <1>1, <1>3, SlotSetTo
<1>5. SlotSet(n, m, s, c, n.idle, n.told) /\ Fits(n, s, c) /\ c.link = NoLink /\ Has(c) = Has(d)
  BY <1>1, <1>2, <1>4 DEF SlotSet, Fits, InTurn, Alike, Has
<1>6. Kept(n, m, s, c) /\ Backed(n, m, c, NewLink) /\ m.told = n.told
  BY <1>5, SlotKept
<1>7. c.handed <= d.handed
  BY <1>2, SameHandedNoMore DEF Alone, Alike
<1>8. Core(m) /\ Used(m) = Used(n) /\ NoMore(n, m)
  BY <1>5, <1>6, <1>7, Stays
<1> QED BY <1>8 DEF m

LEMMA FailsKeeps ==
  ASSUME NEW n, Core(n), NEW s \in Used(n), n.slot[s].link = NoLink
  PROVE  LET m == Fails(n, s)
         IN  /\ Core(m) /\ Used(m) = Used(n) /\ NoMore(n, m)
             /\ m.slot[s].link = NoLink
<1> DEFINE d == n.slot[s]
           c == Failed(d)
           m == Fails(n, s)
           z == [n EXCEPT !.slot[s] = c]
<1>1. s \in Slots /\ Shaped(n) /\ Alone(d) /\ d.used /\ d.tag \in n.tree
  BY InUse
<1>2. /\ Alone(c) /\ c.used /\ c.tag = d.tag /\ c.link = NoLink /\ c.handed = d.handed
      /\ Has(c) = Has(d)
  BY <1>1, FailedFields
<1>3. m = [z EXCEPT !.tree = n.tree \cup {d.tag}]
  BY DEF Fails
<1>4. n.tree \cup {d.tag} = n.tree
  BY <1>1
<1>5. m = [z EXCEPT !.tree = n.tree]
  BY <1>3, <1>4
<1> HIDE DEF c, m
<1>6. Parts(z, [n.slot EXCEPT ![s] = c], n.link, n.idle, n.tree, n.told)
  BY <1>1, SlotSetTo
<1> HIDE DEF z
<1>7. Parts(m, [n.slot EXCEPT ![s] = c], n.link, n.idle, n.tree, n.told)
  BY <1>5, <1>6, PartSet
<1>8. SlotSet(n, m, s, c, n.idle, n.told) /\ Fits(n, s, c)
  BY <1>1, <1>2, <1>7 DEF SlotSet, Fits, InTurn
<1>9. Kept(n, m, s, c) /\ Backed(n, m, c, NewLink) /\ m.told = n.told
  BY <1>2, <1>8, SlotKept
<1>10. c.handed <= d.handed
  BY <1>2, SameHandedNoMore DEF Alone
<1>11. Core(m) /\ Only(n, m, s, c) /\ Used(m) = Used(n) /\ NoMore(n, m)
  BY <1>2, <1>9, <1>10, Stays
<1> QED BY <1>2, <1>11 DEF m, Only

LEMMA Expires ==
  ASSUME NEW n, Core(n), NEW s \in Used(n), n.slot[s].link = NoLink
  PROVE  LET m == Expired(n, s) IN Core(m) /\ NoMore(n, m)
<1> DEFINE f == Fails(n, s)
           m == [f EXCEPT !.slot[s].dead = TRUE]
<1>1. Core(f) /\ Used(f) = Used(n) /\ NoMore(n, f) /\ f.slot[s].link = NoLink
  BY FailsKeeps
<1>2. Expired(n, s) = m
  BY DEF Expired
<1> HIDE DEF f
<1>3. Core(m) /\ NoMore(f, m)
  BY <1>1, Dates
<1> HIDE DEF m
<1>4. NoMore(n, m)
  BY <1>1, <1>3, NoMoreTwice DEF Core
<1> QED BY <1>2, <1>3, <1>4

PendingLink == [NewLink EXCEPT !.status = "PENDING"]
LinkedSlot(d, l) == [d EXCEPT !.state = "ESTABLISHING", !.link = l]

LEMMA LinkedFields ==
  ASSUME NEW d, Alone(d), d.used, d.state = "AWAITING_PATH", NEW l \in Links
  PROVE  LET c == LinkedSlot(d, l)
         IN  /\ Alone(c) /\ c.used /\ c.tag = d.tag /\ c.link = l /\ c.handed = d.handed
             /\ Has(c) = Has(d) /\ Linked(c, PendingLink) /\ LinkKept(PendingLink)
<1> DEFINE c == LinkedSlot(d, l)
           e == [d EXCEPT !.state = "ESTABLISHING"]
<1>1. /\ d \in Slot /\ d.tag # None /\ ~d.channel /\ d.res = None
      /\ d.outstanding = Unpublished /\ Whole(d, <<>>)
  BY DEF Alone, Slot
<1>2. c \in Slot
  <2>1. e \in Slot
    BY <1>1 DEF Slot, States
  <2>2. c = [e EXCEPT !.link = l]
    BY DEF LinkedSlot
  <2> HIDE DEF e
  <2> QED BY <2>1, <2>2 DEF Slot
<1>3. /\ c.used = d.used /\ c.tag = d.tag /\ c.state = "ESTABLISHING" /\ c.link = l
      /\ c.channel = d.channel /\ c.outbox = d.outbox /\ c.outstanding = d.outstanding
      /\ c.pend = d.pend /\ c.res = d.res /\ c.handed = d.handed
      /\ c.refused = d.refused /\ c.covered = d.covered /\ c.heard = d.heard
  BY <1>1 DEF Slot, LinkedSlot
<1> HIDE DEF c
<1>4. Boxed(c) /\ Counted(c) /\ Whole(c, <<>>)
  BY <1>1, <1>3 DEF Alone, Boxed, Counted, Whole, StreamOf
<1>5. l # NoLink
  BY BridgeAssumption DEF Links, NoLink
<1>6. Alone(c)
  BY <1>1, <1>2, <1>3, <1>4, <1>5 DEF Alone
<1>7. Linked(c, PendingLink)
  BY <1>3 DEF Linked, PendingLink
<1>8. LinkKept(PendingLink)
  <2>1. NewLink \in LinkRecord
    BY NewLinkKept DEF LinkKept
  <2>2. /\ PendingLink \in LinkRecord /\ PendingLink.sent = NewLink.sent
        /\ PendingLink.proved = NewLink.proved /\ PendingLink.settled = NewLink.settled
    BY <2>1 DEF PendingLink, LinkRecord
  <2> QED BY <2>2, NewLinkKept DEF LinkKept
<1> QED BY <1>3, <1>6, <1>7, <1>8 DEF c, Has

LEMMA KicksOff ==
  ASSUME NEW n, Core(n), NEW s \in Used(n), n.slot[s].state = "AWAITING_PATH",
         NEW m \in chanKickoff(n, s)
  PROVE  Core(m) /\ NoMore(n, m)
<1> DEFINE d == n.slot[s]
<1>1. s \in Slots /\ Shaped(n) /\ Alone(d) /\ d.used /\ d.link = NoLink
  BY InUse DEF Alone
<1>2. CASE m = Fails(n, s)
  BY <1>1, <1>2, FailsKeeps
<1>3. ASSUME NEW l \in NextLink(n),
             m = [n EXCEPT !.slot[s].state = "ESTABLISHING", !.slot[s].link = l,
                           !.link[l].status = "PENDING"]
      PROVE  Core(m) /\ NoMore(n, m)
  <2> DEFINE c == LinkedSlot(d, l)
  <2>1. l \in Links /\ n.link[l] = NewLink
    <3>1. l \in Links /\ n.link[l].status = "NONE"
      BY DEF NextLink, FreshLinks
    <3> QED BY <3>1, Fresh
  <2>2. /\ Alone(c) /\ c.used /\ c.tag = d.tag /\ c.link = l /\ c.handed = d.handed
        /\ Has(c) = Has(d) /\ Linked(c, PendingLink) /\ LinkKept(PendingLink)
    BY <1>1, <2>1, LinkedFields
  <2>3. m = [n EXCEPT !.slot[s] = c, !.link[l] = PendingLink]
    <3>1. [n.link[l] EXCEPT !.status = "PENDING"] = PendingLink
      BY <2>1 DEF PendingLink
    <3>2. m = [n EXCEPT !.slot[s].state = "ESTABLISHING", !.slot[s].link = l,
                        !.link[l] = [n.link[l] EXCEPT !.status = "PENDING"]]
      BY <1>3
    <3>3. m = [n EXCEPT !.slot[s].state = "ESTABLISHING", !.slot[s].link = l, !.link[l] = PendingLink]
      BY <3>1, <3>2
    <3> DEFINE k == PendingLink
    <3> HIDE DEF k
    <3>4. [n EXCEPT !.slot[s].state = "ESTABLISHING", !.slot[s].link = l, !.link[l] = k]
             = [n EXCEPT !.slot[s] = c, !.link[l] = k]
      BY <1>1 DEF LinkedSlot, Shaped
    <3> QED BY <3>3, <3>4 DEF k
  <2> DEFINE k == PendingLink
  <2> HIDE DEF c, k
  <2>4. Parts(m, [n.slot EXCEPT ![s] = c], [n.link EXCEPT ![l] = k], n.idle, n.tree, n.told)
    BY <1>1, <2>3, BothSet DEF k
  <2>5. /\ Recorded(m) /\ m.slot = [n.slot EXCEPT ![s] = c] /\ m.told = n.told /\ m.tree = n.tree
        /\ m.idle = n.idle /\ m.link = [n.link EXCEPT ![c.link] = k]
    BY <2>2, <2>4 DEF Parts
  <2>6. /\ n.slot[s].link = NoLink /\ c.tag = n.slot[s].tag /\ c.link \in Links
        /\ n.link[c.link] = NewLink
        /\ Alone(c) /\ c.used /\ Has(c) = Has(n.slot[s]) /\ c.handed = n.slot[s].handed
        /\ Linked(c, k) /\ LinkKept(k)
    BY <1>1, <2>1, <2>2 DEF k
  <2> HIDE DEF d
  <2> QED BY <2>5, <2>6, GetsLink
<1> QED BY <1>2, <1>3 DEF chanKickoff

-----------------------------------------------------------------------------
(* The tick.                                                               *)

LEMMA ReclaimedKeeps ==
  ASSUME NEW n, Core(n), NEW s \in Used(n), n.slot[s].state \in {"CLOSED", "FAILED"}
  PROVE  LET m == Reclaimed(n, s) IN Core(m) /\ NoMore(n, m)
<1>1. n.slot[s].link = NoLink
  BY InUse DEF Alone
<1>2. CASE n.slot[s].dead
  BY <1>2, Frees DEF Reclaimed
<1>3. CASE ~n.slot[s].dead
  BY <1>1, <1>3, Dates DEF Reclaimed
<1> QED BY <1>2, <1>3

LEMMA TornExpires ==
  ASSUME NEW n, Core(n), NEW s \in Used(n)
  PROVE  LET m == Expired(teardown(n, s), s) IN Core(m) /\ NoMore(n, m)
<1> DEFINE f == teardown(n, s)
           m == Expired(f, s)
<1>1. Core(f) /\ Only(n, f, s, TornDown(n.slot[s])) /\ Used(f) = Used(n) /\ NoMore(n, f)
  BY TearsDown
<1> HIDE DEF f
<1>2. f.slot[s].link = NoLink
  BY <1>1, InUse, TornFields DEF Only
<1>3. Core(m) /\ NoMore(f, m)
  BY <1>1, <1>2, Expires
<1> HIDE DEF m
<1>4. NoMore(n, m)
  BY <1>1, <1>3, NoMoreTwice DEF Core
<1> QED BY <1>3, <1>4 DEF m, f

LEMMA Ticks ==
  ASSUME Core(rnsd), NEW s \in Slots, channelTick(s)
  PROVE  Core(rnsd') /\ NoMore(rnsd, rnsd')
<1> DEFINE n == rnsd
           st == n.slot[s].state
<1>1. s \in Used(n)
  BY DEF channelTick, Used
<1>2. rnsd' \in Ticked(s)
  BY DEF channelTick
<1>3. CASE st = "AWAITING_PATH"
  <2>1. n.slot[s].link = NoLink
    BY <1>1, <1>3, InUse DEF Alone
  <2>2. rnsd' \in chanKickoff(n, s) \/ rnsd' = Expired(n, s)
    BY <1>2, <1>3 DEF Ticked
  <2> QED BY <1>1, <1>3, <2>1, <2>2, KicksOff, Expires
<1>4. CASE st = "ESTABLISHING"
  <2>1. rnsd' = Expired(teardown(n, s), s)
    BY <1>2, <1>4 DEF Ticked
  <2> QED BY <1>1, <2>1, TornExpires
<1>5. CASE st \in {"CLOSED", "FAILED"}
  <2>1. rnsd' = Reclaimed(n, s)
    BY <1>2, <1>5 DEF Ticked
  <2> QED BY <1>1, <1>5, <2>1, ReclaimedKeeps
<1>6. st \in {"AWAITING_PATH", "ESTABLISHING", "CLOSED", "FAILED"}
  BY <1>2 DEF Ticked
<1> QED BY <1>3, <1>4, <1>5, <1>6

-----------------------------------------------------------------------------
(* Opening.                                                                *)

ActiveLink == [NewLink EXCEPT !.status = "ACTIVE"]
WaitingSlot(tag) ==
  [Free EXCEPT !.used = TRUE, !.tag = tag, !.handle = TRUE, !.state = "AWAITING_PATH"]
IncomingSlot(l) == [Free EXCEPT !.used = TRUE, !.tag = l, !.state = "ACTIVE", !.link = l]

LEMMA NothingIsWhole ==
  ASSUME NEW c, c.outbox = <<>>, c.handed = 0, c.refused = {}
  PROVE  Whole(c, <<>>)
<1>1. StreamOf(c, <<>>) = <<>>
  BY NoNumbers DEF StreamOf
<1>2. Ascends(<<>>) /\ ToSet(<<>>) = {}
  BY DEF Ascends, ToSet
<1>3. 1 .. 0 \ {} = {}
  OBVIOUS
<1> QED BY <1>1, <1>2, <1>3 DEF Whole

LEMMA ActiveLinkIs ==
  /\ LinkKept(ActiveLink) /\ ActiveLink.status = "ACTIVE" /\ ActiveLink.sent = <<>>
  /\ ActiveLink.carries = {} /\ ActiveLink.proved = {}
<1>1. NewLink \in LinkRecord
  BY NewLinkKept DEF LinkKept
<1>2. /\ ActiveLink \in LinkRecord /\ ActiveLink.sent = NewLink.sent
      /\ ActiveLink.proved = NewLink.proved /\ ActiveLink.settled = NewLink.settled
      /\ ActiveLink.carries = NewLink.carries /\ ActiveLink.status = "ACTIVE"
  BY <1>1 DEF ActiveLink, LinkRecord
<1>3. NewLink.sent = <<>> /\ NewLink.carries = {} /\ NewLink.proved = {}
  BY DEF NewLink
<1> QED BY <1>2, <1>3, NewLinkKept DEF LinkKept

(* A slot in which nothing has been handed over.                           *)
Unwritten(c) ==
  /\ c.outbox = <<>> /\ c.handed = 0 /\ c.refused = {} /\ c.covered = 0
  /\ c.outstanding = Unpublished /\ c.pend = None /\ c.res = None

LEMMA UnwrittenIs ==
  ASSUME NEW c \in Slot, Unwritten(c)
  PROVE  Boxed(c) /\ Counted(c) /\ Whole(c, <<>>)
<1>1. Boxed(c) /\ Counted(c)
  <2>1. Len(<<>>) = 0 /\ RNSD_CHAN_MAX_OUTBOX \in Nat
    BY BridgeAssumption
  <2> QED BY <2>1 DEF Boxed, Counted, Unpublished, Unwritten
<1>2. Whole(c, <<>>)
  BY NothingIsWhole DEF Unwritten
<1> QED BY <1>1, <1>2

LEMMA NamedIs ==
  ASSUME NEW tag \in Tags \cup Links
  PROVE  LET c == [[Free EXCEPT !.used = TRUE] EXCEPT !.tag = tag]
         IN  /\ c \in Slot /\ c.used /\ c.tag = tag /\ c.link = NoLink /\ c.channel = FALSE
             /\ Unwritten(c)
<1> DEFINE e == [Free EXCEPT !.used = TRUE]
           c == [e EXCEPT !.tag = tag]
<1>1. Free \in Slot /\ Unwritten(Free) /\ Free.link = NoLink /\ Free.channel = FALSE
  BY FreeIsAlone, FreeSlot DEF Unwritten
<1> DEFINE f == Free
<1> HIDE DEF f
<1>2. f \in Slot /\ e = [f EXCEPT !.used = TRUE]
  BY <1>1 DEF f
<1> HIDE DEF e
<1>3. e \in Slot
  BY <1>2, ZenonT(60) DEF Slot
<1>4. /\ e.used = TRUE /\ e.link = f.link /\ e.channel = f.channel /\ e.outbox = f.outbox
      /\ e.handed = f.handed /\ e.refused = f.refused
      /\ e.covered = f.covered /\ e.heard = f.heard
      /\ e.outstanding = f.outstanding /\ e.pend = f.pend /\ e.res = f.res
  BY <1>2 DEF Slot
<1>5. c \in Slot
  BY <1>3 DEF Slot
<1>6. /\ c.tag = tag /\ c.used = e.used
      /\ c.link = e.link /\ c.channel = e.channel /\ c.outbox = e.outbox
      /\ c.handed = e.handed /\ c.refused = e.refused
      /\ c.covered = e.covered /\ c.heard = e.heard
      /\ c.outstanding = e.outstanding /\ c.pend = e.pend /\ c.res = e.res
  BY <1>3 DEF Slot
<1> HIDE DEF c
<1>7. c.used /\ c.tag = tag /\ c.link = NoLink /\ c.channel = FALSE /\ Unwritten(c)
  BY <1>1, <1>4, <1>6 DEF f, Unwritten
<1> QED BY <1>5, <1>7 DEF c, e

LEMMA WaitingIs ==
  ASSUME NEW tag \in Tags
  PROVE  LET c == WaitingSlot(tag)
         IN  /\ Alone(c) /\ c.used /\ c.tag = tag /\ c.link = NoLink /\ c.state = "AWAITING_PATH"
             /\ Unwritten(c)
<1> DEFINE c == WaitingSlot(tag)
           e == [[Free EXCEPT !.used = TRUE] EXCEPT !.tag = tag]
           f == [e EXCEPT !.handle = TRUE]
<1>1. tag # None
  BY BridgeAssumption
<1>2. e \in Slot /\ e.used /\ e.tag = tag /\ e.link = NoLink /\ e.channel = FALSE /\ Unwritten(e)
  BY NamedIs
<1>3. c = [f EXCEPT !.state = "AWAITING_PATH"]
  BY DEF WaitingSlot
<1> HIDE DEF c, e
<1>4. f \in Slot
  BY <1>2, ZenonT(60) DEF Slot
<1>5. /\ f.used = e.used /\ f.tag = e.tag /\ f.link = e.link /\ f.channel = e.channel
      /\ f.outbox = e.outbox /\ f.handed = e.handed /\ f.refused = e.refused
      /\ f.covered = e.covered /\ f.heard = e.heard
      /\ f.outstanding = e.outstanding /\ f.pend = e.pend
      /\ f.res = e.res
  BY <1>2 DEF Slot
<1> HIDE DEF f
<1>6. c \in Slot
  BY <1>3, <1>4 DEF Slot, States
<1>7. /\ c.state = "AWAITING_PATH"
      /\ c.used = f.used /\ c.tag = f.tag /\ c.link = f.link /\ c.channel = f.channel
      /\ c.outbox = f.outbox /\ c.handed = f.handed /\ c.refused = f.refused
      /\ c.covered = f.covered /\ c.heard = f.heard
      /\ c.outstanding = f.outstanding /\ c.pend = f.pend
      /\ c.res = f.res
  BY <1>3, <1>4 DEF Slot
<1>8. Unwritten(c) /\ c.used /\ c.tag = tag /\ c.link = NoLink /\ c.channel = FALSE
  BY <1>2, <1>5, <1>7 DEF Unwritten
<1>9. Alone(c)
  BY <1>1, <1>6, <1>7, <1>8, UnwrittenIs DEF Alone, Unwritten
<1> QED BY <1>7, <1>8, <1>9 DEF c

LEMMA IncomingIs ==
  ASSUME NEW l \in Links
  PROVE  LET c == IncomingSlot(l)
         IN  /\ Alone(c) /\ c.used /\ c.tag = l /\ c.link = l /\ c.state = "ACTIVE"
             /\ Unwritten(c) /\ Linked(c, ActiveLink)
<1> DEFINE c == IncomingSlot(l)
           e == [[Free EXCEPT !.used = TRUE] EXCEPT !.tag = l]
           f == [e EXCEPT !.state = "ACTIVE"]
<1>1. l # None /\ l # NoLink
  BY BridgeAssumption DEF Links, NoLink
<1>2. e \in Slot /\ e.used /\ e.tag = l /\ e.link = NoLink /\ e.channel = FALSE /\ Unwritten(e)
  BY NamedIs
<1>3. c = [f EXCEPT !.link = l]
  BY DEF IncomingSlot
<1> HIDE DEF c, e
<1>4. f \in Slot
  BY <1>2 DEF Slot, States
<1>5. /\ f.used = e.used /\ f.tag = e.tag /\ f.channel = e.channel /\ f.state = "ACTIVE"
      /\ f.outbox = e.outbox /\ f.handed = e.handed /\ f.refused = e.refused
      /\ f.covered = e.covered /\ f.heard = e.heard
      /\ f.outstanding = e.outstanding /\ f.pend = e.pend
      /\ f.res = e.res
  BY <1>2 DEF Slot
<1> HIDE DEF f
<1>6. c \in Slot
  BY <1>3, <1>4 DEF Slot
<1>7. /\ c.link = l /\ c.state = f.state
      /\ c.used = f.used /\ c.tag = f.tag /\ c.channel = f.channel
      /\ c.outbox = f.outbox /\ c.handed = f.handed /\ c.refused = f.refused
      /\ c.covered = f.covered /\ c.heard = f.heard
      /\ c.outstanding = f.outstanding /\ c.pend = f.pend
      /\ c.res = f.res
  BY <1>3, <1>4 DEF Slot
<1>8. /\ Unwritten(c) /\ c.used /\ c.tag = l /\ c.link = l /\ c.channel = FALSE
      /\ c.state = "ACTIVE"
  BY <1>2, <1>5, <1>7 DEF Unwritten
<1>9. Alone(c)
  BY <1>1, <1>6, <1>8, UnwrittenIs DEF Alone, Unwritten
<1>10. Linked(c, ActiveLink)
  <2>1. Whole(c, ActiveLink.sent)
    BY <1>6, <1>8, UnwrittenIs, ActiveLinkIs
  <2>2. Receipted(c, ActiveLink)
    BY <1>8 DEF Receipted
  <2>3. ActiveLink.carries = {c.res} \ {None}
    BY <1>8, ActiveLinkIs DEF Unwritten
  <2> QED BY <1>8, <2>1, <2>2, <2>3, ActiveLinkIs DEF Linked
<1> QED BY <1>8, <1>9, <1>10 DEF c

(* The slot a channel opens in is touched after it is filled in.           *)
LEMMA OpenedIs ==
  ASSUME NEW n, Core(n), NEW s \in Slots \ Used(n), NEW b, NEW c, NEW k, NEW t,
         Parts(b, [n.slot EXCEPT ![s] = c], k, n.idle, t, n.told)
  PROVE  Parts(chanTouch(b, s), [n.slot EXCEPT ![s] = c], k, Append(n.idle, s), t, n.told)
<1>1. Without(n.idle, s) = n.idle
  <2>1. Lists(n.idle, Used(n)) /\ s \notin Used(n)
    BY DEF Core
  <2> QED BY <2>1, NotListed
<1>2. b.idle = n.idle
  BY DEF Parts
<1> DEFINE q == Append(n.idle, s)
<1>3. chanTouch(b, s) = [b EXCEPT !.idle = q]
  BY <1>1, <1>2 DEF chanTouch
<1> HIDE DEF q
<1> DEFINE a == [n.slot EXCEPT ![s] = c]
           w == n.told
<1>4. Parts(b, a, k, n.idle, t, w)
  OBVIOUS
<1> HIDE DEF a, w
<1>5. Parts([b EXCEPT !.idle = q], a, k, q, t, w)
  BY <1>4, PartSet
<1> QED BY <1>3, <1>5 DEF q, a, w

LEMMA WaitingOpens ==
  ASSUME NEW n, Core(n), NEW s \in Slots \ Used(n), NEW tag \in Tags,
         \A o \in Slots : n.slot[o].tag # tag
  PROVE  LET m == chanTouch([n EXCEPT !.slot[s] = WaitingSlot(tag), !.tree = @ \cup {tag}], s)
         IN  Core(m) /\ NoMore(n, m) /\ s \in Used(m) /\ m.slot[s].state = "AWAITING_PATH"
<1> DEFINE c == WaitingSlot(tag)
           z == [n EXCEPT !.slot[s] = c]
           t == n.tree \cup {tag}
           b == [z EXCEPT !.tree = t]
           m == chanTouch(b, s)
<1>0. Shaped(n)
  BY DEF Core
<1>1. /\ Alone(c) /\ c.used /\ c.tag = tag /\ c.link = NoLink /\ c.state = "AWAITING_PATH"
      /\ Unwritten(c)
  BY WaitingIs
<1>2. [n EXCEPT !.slot[s] = WaitingSlot(tag), !.tree = @ \cup {tag}] = b
  OBVIOUS
<1> HIDE DEF c, t
<1>3. Parts(z, [n.slot EXCEPT ![s] = c], n.link, n.idle, n.tree, n.told)
  BY <1>0, SlotSetTo
<1> HIDE DEF z
<1>4. Parts(b, [n.slot EXCEPT ![s] = c], n.link, n.idle, t, n.told)
  BY <1>3, PartSet
<1> HIDE DEF b
<1>5. Parts(m, [n.slot EXCEPT ![s] = c], n.link, Append(n.idle, s), t, n.told)
  BY <1>4, OpenedIs
<1> HIDE DEF m
<1>6. Opened(n, m, s, c)
  BY <1>1, <1>5 DEF Opened, Parts, Unwritten, t
<1>7. Connects(n, m, c, NewLink)
  <2>1. tag \notin Links
    BY BridgeAssumption
  <2> QED BY <1>1, <1>5, <2>1 DEF Connects, Parts
<1>8. Core(m) /\ Only(n, m, s, c) /\ NoMore(n, m) /\ s \in Used(m)
  BY <1>6, <1>7, Opens
<1>9. m.slot[s].state = "AWAITING_PATH"
  BY <1>1, <1>8 DEF Only
<1> QED BY <1>2, <1>8, <1>9 DEF m

LEMMA ConnectKeeps ==
  ASSUME Core(rnsd), NEW tag \in Tags, onChannelConnect(tag)
  PROVE  Core(rnsd') /\ NoMore(rnsd, rnsd')
<1> DEFINE n == chanAlloc(rnsd).state
           s == chanAlloc(rnsd).slot
           m == chanTouch([n EXCEPT !.slot[s] = WaitingSlot(tag), !.tree = @ \cup {tag}], s)
<1>1. /\ Core(n) /\ s \in Slots \ Used(n) /\ NoMore(rnsd, n)
      /\ \A o \in Slots : n.slot[o].tag \in {rnsd.slot[o].tag, None}
  BY Allocates
<1>2. rnsd' \in {m} \cup chanKickoff(m, s)
  BY DEF onChannelConnect, WaitingSlot
<1>3. \A o \in Slots : n.slot[o].tag # tag
  <2> SUFFICES ASSUME NEW o \in Slots, n.slot[o].tag = tag PROVE FALSE
    OBVIOUS
  <2>1. tag # None
    BY BridgeAssumption
  <2>2. rnsd.slot[o].tag = tag
    BY <1>1, <2>1
  <2>3. o \notin Used(rnsd)
    BY <2>2 DEF onChannelConnect, chanFindByTag
  <2>4. rnsd.slot[o] = Free
    BY <2>3, FreeIs
  <2> QED BY <2>1, <2>2, <2>4, FreeSlot
<1> HIDE DEF n, s
<1>4. Core(m) /\ NoMore(n, m) /\ s \in Used(m) /\ m.slot[s].state = "AWAITING_PATH"
  BY <1>1, <1>3, WaitingOpens
<1> HIDE DEF m
<1>5. NoMore(rnsd, m)
  BY <1>1, <1>4, NoMoreTwice DEF Core
<1>6. CASE rnsd' = m
  BY <1>4, <1>5, <1>6
<1>7. CASE rnsd' \in chanKickoff(m, s)
  <2>1. Core(rnsd') /\ NoMore(m, rnsd')
    BY <1>4, <1>7, KicksOff
  <2> QED BY <1>4, <1>5, <2>1, NoMoreTwice DEF Core
<1> QED BY <1>2, <1>6, <1>7

Comes(n, s, l) ==
  [n EXCEPT !.slot[s] = IncomingSlot(l), !.link[l].status = "ACTIVE", !.tree = @ \cup {l}]

LEMMA IncomingOpens ==
  ASSUME NEW n, Core(n), NEW s \in Slots \ Used(n), NEW l \in Links, n.link[l] = NewLink,
         \A o \in Slots : n.slot[o].tag # l
  PROVE  LET m == chanTouch(Comes(n, s, l), s)
         IN  Core(m) /\ NoMore(n, m) /\ s \in Used(m) /\ m.slot[s] = IncomingSlot(l)
<1> DEFINE c == IncomingSlot(l)
           k == ActiveLink
           z == [n EXCEPT !.slot[s] = c, !.link[l] = k]
           t == n.tree \cup {l}
           b == [z EXCEPT !.tree = t]
           m == chanTouch(b, s)
<1>0. Shaped(n)
  BY DEF Core
<1>1. /\ Alone(c) /\ c.used /\ c.tag = l /\ c.link = l /\ c.state = "ACTIVE"
      /\ Unwritten(c) /\ Linked(c, k)
  BY IncomingIs
<1>2. Comes(n, s, l) = b
  <2>1. [n.link[l] EXCEPT !.status = "ACTIVE"] = k
    BY DEF ActiveLink
  <2> HIDE DEF c, k
  <2>2. [n EXCEPT !.slot[s] = c, !.link[l].status = "ACTIVE", !.tree = @ \cup {l}]
           = [n EXCEPT !.slot[s] = c, !.link[l] = [n.link[l] EXCEPT !.status = "ACTIVE"],
                       !.tree = n.tree \cup {l}]
    OBVIOUS
  <2>3. [n EXCEPT !.slot[s] = c, !.link[l].status = "ACTIVE", !.tree = @ \cup {l}]
           = [n EXCEPT !.slot[s] = c, !.link[l] = k, !.tree = n.tree \cup {l}]
    BY <2>1, <2>2
  <2>4. [n EXCEPT !.slot[s] = c, !.link[l] = k, !.tree = n.tree \cup {l}] = b
    OBVIOUS
  <2> QED BY <2>3, <2>4 DEF c, Comes
<1> HIDE DEF c, t, k
<1>3. Parts(z, [n.slot EXCEPT ![s] = c], [n.link EXCEPT ![l] = k], n.idle, n.tree, n.told)
  BY <1>0, BothSet
<1> HIDE DEF z
<1>4. Parts(b, [n.slot EXCEPT ![s] = c], [n.link EXCEPT ![l] = k], n.idle, t, n.told)
  BY <1>3, PartSet
<1> HIDE DEF b
<1>5. Parts(m, [n.slot EXCEPT ![s] = c], [n.link EXCEPT ![l] = k], Append(n.idle, s), t, n.told)
  BY <1>4, OpenedIs
<1> HIDE DEF m
<1>6. Opened(n, m, s, c)
  BY <1>1, <1>5 DEF Opened, Parts, Unwritten, t
<1>7. Connects(n, m, c, k)
  BY <1>1, <1>5, ActiveLinkIs DEF Connects, Parts, k
<1>8. Core(m) /\ Only(n, m, s, c) /\ NoMore(n, m) /\ s \in Used(m)
  BY <1>6, <1>7, Opens
<1>9. m.slot[s] = c
  BY <1>8 DEF Only
<1> QED BY <1>2, <1>8, <1>9 DEF m, c

(* The Channel of an incoming Link is attached.                            *)
AttachedSlot(d) == [[d EXCEPT !.handle = TRUE] EXCEPT !.channel = TRUE]

LEMMA AttachedFields ==
  ASSUME NEW d, Alone(d), d.used, d.state = "ACTIVE", d.outstanding = Unpublished,
         NEW k, Linked(d, k)
  PROVE  LET c == AttachedSlot(d)
         IN  /\ Alone(c) /\ c.used /\ c.tag = d.tag /\ c.link = d.link /\ c.handed = d.handed
             /\ Has(c) = Has(d) /\ Linked(c, k)
<1> DEFINE e == [d EXCEPT !.handle = TRUE]
           c == [e EXCEPT !.channel = TRUE]
<1>1. d \in Slot
  BY DEF Alone
<1>2. e \in Slot
  BY <1>1, ZenonT(60) DEF Slot
<1>3. /\ e.used = d.used /\ e.tag = d.tag /\ e.state = d.state /\ e.link = d.link
      /\ e.outbox = d.outbox /\ e.outstanding = d.outstanding
      /\ e.pend = d.pend /\ e.res = d.res /\ e.handed = d.handed
      /\ e.refused = d.refused /\ e.covered = d.covered /\ e.heard = d.heard
  BY <1>1 DEF Slot
<1> HIDE DEF e
<1>4. c \in Slot
  BY <1>2, ZenonT(60) DEF Slot
<1>5. /\ c.used = e.used /\ c.tag = e.tag /\ c.state = e.state /\ c.link = e.link
      /\ c.outbox = e.outbox /\ c.outstanding = e.outstanding
      /\ c.pend = e.pend /\ c.res = e.res /\ c.handed = e.handed
      /\ c.refused = e.refused /\ c.covered = e.covered /\ c.heard = e.heard
  BY <1>2 DEF Slot
<1> HIDE DEF c
<1>6. Boxed(c) /\ Counted(c)
  BY <1>3, <1>5 DEF Alone, Boxed, Counted
<1>7. Alone(c)
  BY <1>3, <1>4, <1>5, <1>6 DEF Alone
<1>8. Whole(d, k.sent) => Whole(c, k.sent)
  BY <1>3, <1>5 DEF Whole, StreamOf
<1>9. Receipted(c, k)
  BY <1>3, <1>5 DEF Receipted, Unpublished
<1>10. Linked(c, k)
  BY <1>3, <1>5, <1>8, <1>9 DEF Linked
<1> QED BY <1>3, <1>5, <1>7, <1>10 DEF AttachedSlot, Has, c, e

LEMMA Attaches ==
  ASSUME NEW n, Core(n), NEW s \in Used(n), n.slot[s].state = "ACTIVE",
         n.slot[s].outstanding = Unpublished
  PROVE  LET m == [n EXCEPT !.slot[s].handle = TRUE, !.slot[s].channel = TRUE]
         IN  Core(m) /\ NoMore(n, m)
<1> DEFINE d == n.slot[s]
           c == AttachedSlot(d)
           m == [n EXCEPT !.slot[s].handle = TRUE, !.slot[s].channel = TRUE]
<1>1. /\ s \in Slots /\ Shaped(n) /\ Alone(d) /\ d.used /\ d.link # NoLink
      /\ Linked(d, n.link[d.link])
  BY InUse DEF Alone
<1>2. /\ Alone(c) /\ c.used /\ c.tag = d.tag /\ c.link = d.link /\ c.handed = d.handed
      /\ Has(c) = Has(d) /\ Linked(c, n.link[d.link])
  BY <1>1, AttachedFields
<1>3. m = [n EXCEPT !.slot[s] = c]
  BY <1>1 DEF AttachedSlot, Shaped
<1> HIDE DEF c, m
<1>4. Parts(m, [n.slot EXCEPT ![s] = c], n.link, n.idle, n.tree, n.told)
  BY <1>1, <1>3, SlotSetTo
<1>5. SlotSet(n, m, s, c, n.idle, n.told) /\ Fits(n, s, c)
  BY <1>2, <1>4 DEF SlotSet, Fits, InTurn
<1>6. Linked(c, n.link[c.link])
  BY <1>2
<1>7. Kept(n, m, s, c) /\ Backed(n, m, c, NewLink) /\ m.told = n.told
  BY <1>5, <1>6, SlotKept
<1>8. c.handed <= d.handed
  BY <1>2, SameHandedNoMore DEF Alone
<1>9. Core(m) /\ NoMore(n, m)
  BY <1>2, <1>7, <1>8, Stays
<1> QED BY <1>9 DEF m

LEMMA IncomingKeeps ==
  ASSUME Core(rnsd), NEW l \in Links, onIncomingChannelEstablished(l)
  PROVE  Core(rnsd') /\ NoMore(rnsd, rnsd')
<1> DEFINE n == chanAlloc(rnsd).state
           s == chanAlloc(rnsd).slot
           m == chanTouch(Comes(n, s, l), s)
           x == [m EXCEPT !.slot[s].handle = TRUE, !.slot[s].channel = TRUE]
           y == Expired(teardown(m, s), s)
<1>1. /\ Core(n) /\ s \in Slots \ Used(n) /\ NoMore(rnsd, n)
      /\ \A o \in Slots : n.slot[o].tag \in {rnsd.slot[o].tag, None}
      /\ \A k \in Links : rnsd.link[k] = NewLink => n.link[k] = NewLink
  BY Allocates
<1>2. rnsd' \in {x, y}
  BY DEF onIncomingChannelEstablished, IncomingSlot, Expired, Comes
<1>3. n.link[l] = NewLink /\ \A o \in Slots : n.slot[o].tag # l
  <2>1. rnsd.link[l].status = "NONE"
    BY DEF onIncomingChannelEstablished, NextLink, FreshLinks
  <2>2. rnsd.link[l] = NewLink /\ \A o \in Slots : rnsd.slot[o].tag # l
    BY <2>1, Fresh
  <2>3. l # None
    BY BridgeAssumption
  <2> QED BY <1>1, <2>2, <2>3
<1> HIDE DEF n, s
<1>4. Core(m) /\ NoMore(n, m) /\ s \in Used(m) /\ m.slot[s] = IncomingSlot(l)
  BY <1>1, <1>3, IncomingOpens
<1>5. m.slot[s].state = "ACTIVE" /\ m.slot[s].outstanding = Unpublished
  BY <1>4, IncomingIs DEF Unwritten
<1> HIDE DEF m
<1>6. NoMore(rnsd, m)
  BY <1>1, <1>4, NoMoreTwice DEF Core
<1>7. Core(x) /\ NoMore(m, x)
  BY <1>4, <1>5, Attaches
<1>8. Core(y) /\ NoMore(m, y)
  BY <1>4, TornExpires
<1> HIDE DEF x, y
<1>9. NoMore(rnsd, x) /\ NoMore(rnsd, y)
  BY <1>4, <1>6, <1>7, <1>8, NoMoreTwice DEF Core
<1> QED BY <1>2, <1>7, <1>8, <1>9

-----------------------------------------------------------------------------
(* Resources start.                                                        *)

LEMMA WordSetTo ==
  ASSUME NEW n, Shaped(n), NEW r, NEW v
  PROVE  Parts([n EXCEPT !.told[r] = v], n.slot, n.link, n.idle, n.tree, [n.told EXCEPT ![r] = v])
<1>1. Parts(n, n.slot, n.link, n.idle, n.tree, n.told)
  BY ShapedParts
<1> QED BY <1>1, PartSet

(* A Resource that ends before it starts.                                  *)
LEMMA Denied ==
  ASSUME NEW n, Core(n), NEW s \in Used(n), NEW r \in Resources, n.told[r] = <<>>,
         \A o \in Slots : r \notin Has(n.slot[o])
  PROVE  LET m == chanResSendAux(n, r, "failed") IN Core(m) /\ NoMore(n, m)
<1> DEFINE d == n.slot[s]
           w == [n.told EXCEPT ![r] = Append(n.told[r], "failed")]
           m == chanResSendAux(n, r, "failed")
<1>1. /\ s \in Slots /\ Shaped(n) /\ Alone(d) /\ d \in Slot /\ d.used
      /\ d.link # NoLink => Linked(d, n.link[d.link])
  BY InUse
<1>2. Parts(m, n.slot, n.link, n.idle, n.tree, w)
  <2> DEFINE v == Append(n.told[r], "failed")
  <2>1. m = [n EXCEPT !.told[r] = v]
    BY DEF chanResSendAux
  <2> HIDE DEF m, v
  <2> QED BY <1>1, <2>1, WordSetTo DEF v
<1>3. /\ w \in [Resources -> Seq(Words)] /\ w[r] \in {<<"done">>, <<"failed">>}
      /\ \A x \in Resources \ {r} : w[x] = n.told[x]
  <2>1. "failed" \in Words
    BY DEF Words
  <2> QED BY <1>1, <2>1, ToldShaped
<1>4. [n.slot EXCEPT ![s] = d] = n.slot
  BY <1>1, SlotSetIs
<1> HIDE DEF m, w
<1>5. SlotSet(n, m, s, d, n.idle, w) /\ Fits(n, s, d)
  BY <1>1, <1>2, <1>4 DEF SlotSet, Fits, InTurn
<1>6. Kept(n, m, s, d) /\ Backed(n, m, d, NewLink) /\ m.told = w
  BY <1>1, <1>5, SlotKept
<1>7. WordTurns(n, m, s, d)
  <2>1. \A x \in Has(d) : n.told[x] = <<>>
    BY <1>1 DEF Core, WordsHeld
  <2>2. r \notin Has(d)
    BY <1>1
  <2> HIDE DEF d
  <2> QED BY <1>3, <1>6, <2>1, <2>2 DEF WordTurns
<1>8. \A o \in Slots \ {s} : Has(d) \cap Has(n.slot[o]) = {}
  BY <1>1 DEF Core, SlotsHeld, Apart
<1>9. Core(m)
  BY <1>3, <1>6, <1>7, <1>8, StaysSpeaking
<1>10. m.slot = n.slot
  BY <1>2 DEF Parts
<1> QED BY <1>1, <1>9, <1>10, NoMoreSame DEF m

BusySlot(d, r) == [d EXCEPT !.res = r]
CarryingLink(k, r) == [k EXCEPT !.carries = {r}]

LEMMA BusyFields ==
  ASSUME NEW d, Alone(d), d.used, d.state = "ACTIVE", d.res = None, NEW r \in Resources,
         d.pend # r, NEW k, Linked(d, k), LinkKept(k)
  PROVE  LET c == BusySlot(d, r)
             e == CarryingLink(k, r)
         IN  /\ Alone(c) /\ c.used /\ c.tag = d.tag /\ c.link = d.link /\ c.handed = d.handed
             /\ Has(c) = Has(d) \cup {r} /\ Linked(c, e) /\ LinkKept(e)
<1> DEFINE c == BusySlot(d, r)
           e == CarryingLink(k, r)
<1>1. d \in Slot /\ k \in LinkRecord /\ r # None
  BY BridgeAssumption DEF Alone, LinkKept
<1>2. c \in Slot
  BY <1>1 DEF Slot, BusySlot
<1>3. /\ c.used = d.used /\ c.tag = d.tag /\ c.state = d.state /\ c.link = d.link
      /\ c.channel = d.channel /\ c.outbox = d.outbox /\ c.outstanding = d.outstanding
      /\ c.pend = d.pend /\ c.res = r /\ c.handed = d.handed
      /\ c.refused = d.refused /\ c.covered = d.covered /\ c.heard = d.heard
  BY <1>1 DEF Slot, BusySlot
<1>4. /\ e \in LinkRecord /\ e.status = k.status /\ e.sent = k.sent /\ e.proved = k.proved
      /\ e.settled = k.settled /\ e.carries = {r}
  BY <1>1 DEF LinkRecord, CarryingLink
<1> HIDE DEF c, e
<1>5. Boxed(c) /\ Counted(c)
  BY <1>3 DEF Alone, Boxed, Counted
<1>6. Alone(c)
  BY <1>2, <1>3, <1>5 DEF Alone
<1>7. LinkKept(e)
  BY <1>4 DEF LinkKept
<1>8. Linked(c, e)
  <2>1. Whole(d, k.sent) /\ Receipted(d, k) /\ k.status \in {"ACTIVE", "STALE"}
    BY DEF Linked
  <2>2. Whole(c, e.sent)
    BY <1>3, <1>4, <2>1 DEF Whole, StreamOf
  <2>3. Receipted(c, e)
    BY <1>3, <1>4, <2>1 DEF Receipted, Blocked, Reached
  <2>4. e.carries = {c.res} \ {None}
    BY <1>1, <1>3, <1>4
  <2> QED BY <1>3, <1>4, <2>1, <2>2, <2>3, <2>4 DEF Linked
<1>9. Has(c) = Has(d) \cup {r}
  BY <1>1, <1>3 DEF Has
<1> QED BY <1>3, <1>6, <1>7, <1>8, <1>9 DEF c, e

LEMMA Starts ==
  ASSUME NEW n, Core(n), NEW s \in Used(n), n.slot[s].state = "ACTIVE", n.slot[s].res = None,
         NEW r \in Resources, n.told[r] = <<>>, \A o \in Slots : r \notin Has(n.slot[o])
  PROVE  LET l == n.slot[s].link
             m == [n EXCEPT !.slot[s].res = r, !.link[l].carries = {r}]
         IN  Core(m) /\ NoMore(n, m)
<1> DEFINE d == n.slot[s]
           l == d.link
           k == n.link[l]
           c == BusySlot(d, r)
           e == CarryingLink(k, r)
           m == [n EXCEPT !.slot[s].res = r, !.link[l].carries = {r}]
<1>1. /\ s \in Slots /\ Shaped(n) /\ Alone(d) /\ d.used
      /\ l # NoLink => Linked(d, k) /\ LinkKept(k)
  BY InUse
<1>2. l # NoLink /\ Linked(d, k) /\ LinkKept(k)
  BY <1>1 DEF Alone
<1>3. r # None /\ d.pend # r
  BY <1>1, BridgeAssumption DEF Has
<1>4. /\ Alone(c) /\ c.used /\ c.tag = d.tag /\ c.link = d.link /\ c.handed = d.handed
      /\ Has(c) = Has(d) \cup {r} /\ Linked(c, e) /\ LinkKept(e)
  BY <1>1, <1>2, <1>3, BusyFields
<1>5. m = [n EXCEPT !.slot[s] = c, !.link[l] = e]
  BY DEF BusySlot, CarryingLink
<1> HIDE DEF c, e, m
<1>6. Parts(m, [n.slot EXCEPT ![s] = c], [n.link EXCEPT ![l] = e], n.idle, n.tree, n.told)
  BY <1>1, <1>5, BothSet
<1>7. SlotAndLinkSet(n, m, s, c, e, n.idle, n.told) /\ Fits(n, s, c)
  BY <1>2, <1>4, <1>6 DEF SlotAndLinkSet, Fits, InTurn
<1>8. Kept(n, m, s, c) /\ Backed(n, m, c, e) /\ m.told = n.told
  BY <1>4, <1>7, BothKept
<1>9. m.told \in [Resources -> Seq(Words)]
  BY <1>1, <1>8 DEF Shaped
<1>10. WordTurns(n, m, s, c)
  <2>1. \A x \in Has(d) : n.told[x] = <<>>
    BY <1>1 DEF Core, WordsHeld
  <2> QED BY <1>4, <1>8, <2>1 DEF WordTurns
<1>11. \A o \in Slots \ {s} : Has(c) \cap Has(n.slot[o]) = {}
  <2>1. \A o \in Slots \ {s} : Has(d) \cap Has(n.slot[o]) = {}
    BY <1>1 DEF Core, SlotsHeld, Apart
  <2> QED BY <1>4, <2>1
<1>12. c.handed <= d.handed
  BY <1>4, SameHandedNoMore DEF Alone
<1>13. Core(m) /\ NoMore(n, m)
  BY <1>8, <1>9, <1>10, <1>11, <1>12, StaysSpeaking
<1> QED BY <1>13 DEF m

LEMMA StartsOrNot ==
  ASSUME NEW n, Core(n), NEW s \in Used(n), n.slot[s].state = "ACTIVE", n.slot[s].res = None,
         NEW r \in Resources, n.told[r] = <<>>, \A o \in Slots : r \notin Has(n.slot[o]),
         NEW m \in chanStartOutboundResource(n, s, r)
  PROVE  Core(m) /\ NoMore(n, m)
<1> DEFINE x == [n EXCEPT !.slot[s].res = r, !.link[n.slot[s].link].carries = {r}]
           y == chanResSendAux(n, r, "failed")
<1>1. m \in {x, y}
  BY DEF chanStartOutboundResource
<1>2. Core(x) /\ NoMore(n, x)
  BY Starts
<1>3. Core(y) /\ NoMore(n, y)
  BY Denied
<1> HIDE DEF x, y
<1> QED BY <1>1, <1>2, <1>3

-----------------------------------------------------------------------------
(* The handshake of a channel ends.                                        *)

LEMMA StateIsUsed ==
  ASSUME NEW n, Core(n), NEW s \in Slots, n.slot[s].state # "FREE"
  PROVE  s \in Used(n)
<1>1. Alone(n.slot[s]) /\ n.slot[s] \in Slot
  BY DEF Core, SlotsHeld, Alone
<1> QED BY <1>1, FreeSlot DEF Alone, Slot, Used

EstablishedSlot(d) == [[d EXCEPT !.state = "ACTIVE"] EXCEPT !.channel = TRUE]

LEMMA EstablishedFields ==
  ASSUME NEW d, Alone(d), d.used, d.state = "ESTABLISHING"
  PROVE  LET c == EstablishedSlot(d)
         IN  /\ Alone(c) /\ c.used /\ c.tag = d.tag /\ c.link = d.link /\ c.handed = d.handed
             /\ Has(c) = Has(d) /\ Linked(c, ActiveLink) /\ c.state = "ACTIVE" /\ c.pend = d.pend
             /\ c.res = None
<1> DEFINE e == [d EXCEPT !.state = "ACTIVE"]
           c == [e EXCEPT !.channel = TRUE]
<1>1. d \in Slot /\ d.res = None /\ d.outstanding = Unpublished /\ Whole(d, <<>>)
  BY DEF Alone
<1>2. e \in Slot
  BY <1>1 DEF Slot, States
<1>3. /\ e.used = d.used /\ e.tag = d.tag /\ e.state = "ACTIVE" /\ e.link = d.link
      /\ e.outbox = d.outbox /\ e.outstanding = d.outstanding
      /\ e.pend = d.pend /\ e.res = d.res /\ e.handed = d.handed
      /\ e.refused = d.refused /\ e.covered = d.covered /\ e.heard = d.heard
  BY <1>1 DEF Slot
<1> HIDE DEF e
<1>4. c \in Slot
  BY <1>2, ZenonT(60) DEF Slot
<1>5. /\ c.used = e.used /\ c.tag = e.tag /\ c.state = e.state /\ c.link = e.link
      /\ c.outbox = e.outbox /\ c.outstanding = e.outstanding
      /\ c.pend = e.pend /\ c.res = e.res /\ c.handed = e.handed
      /\ c.refused = e.refused /\ c.covered = e.covered /\ c.heard = e.heard
  BY <1>2 DEF Slot
<1> HIDE DEF c
<1>6. Boxed(c) /\ Counted(c)
  BY <1>3, <1>5 DEF Alone, Boxed, Counted
<1>7. Alone(c)
  BY <1>1, <1>3, <1>4, <1>5, <1>6 DEF Alone
<1>8. Whole(c, <<>>)
  BY <1>1, <1>3, <1>5 DEF Whole, StreamOf
<1>9. Receipted(c, ActiveLink)
  BY <1>1, <1>3, <1>5 DEF Receipted, Unpublished
<1>10. Linked(c, ActiveLink)
  BY <1>1, <1>3, <1>5, <1>8, <1>9, ActiveLinkIs DEF Linked
<1> QED BY <1>1, <1>3, <1>5, <1>7, <1>10 DEF EstablishedSlot, Has, c, e

LEMMA Establishes ==
  ASSUME NEW n, Core(n), NEW s \in Used(n), n.slot[s].state = "ESTABLISHING"
  PROVE  LET l == n.slot[s].link
             m == [n EXCEPT !.slot[s].state = "ACTIVE", !.slot[s].channel = TRUE,
                            !.link[l].status = "ACTIVE"]
         IN  /\ Core(m) /\ Used(m) = Used(n) /\ NoMore(n, m) /\ m.slot[s].state = "ACTIVE"
             /\ m.slot[s].pend = n.slot[s].pend /\ m.slot[s].res = None
<1> DEFINE d == n.slot[s]
           l == d.link
           c == EstablishedSlot(d)
           e == ActiveLink
           m == [n EXCEPT !.slot[s].state = "ACTIVE", !.slot[s].channel = TRUE,
                          !.link[l].status = "ACTIVE"]
<1>1. /\ s \in Slots /\ Shaped(n) /\ Alone(d) /\ d.used
      /\ l # NoLink => Linked(d, n.link[l])
  BY InUse
<1>2. l # NoLink /\ n.link[l] = PendingLink
  BY <1>1 DEF Alone, Linked, PendingLink
<1>3. /\ Alone(c) /\ c.used /\ c.tag = d.tag /\ c.link = l /\ c.handed = d.handed
      /\ Has(c) = Has(d) /\ Linked(c, e) /\ c.state = "ACTIVE" /\ c.pend = d.pend
      /\ c.res = None
  BY <1>1, EstablishedFields
<1>4. m = [n EXCEPT !.slot[s] = c, !.link[l] = e]
  <2>1. [n.link[l] EXCEPT !.status = "ACTIVE"] = e
    BY <1>2 DEF ActiveLink, PendingLink, NewLink
  <2> HIDE DEF e, l
  <2>2. m = [n EXCEPT !.slot[s].state = "ACTIVE", !.slot[s].channel = TRUE, !.link[l] = e]
    BY <2>1
  <2>3. [n EXCEPT !.slot[s].state = "ACTIVE", !.slot[s].channel = TRUE, !.link[l] = e]
           = [n EXCEPT !.slot[s] = c, !.link[l] = e]
    BY <1>1 DEF EstablishedSlot, Shaped
  <2> QED BY <2>2, <2>3
<1> HIDE DEF c, e, m
<1>5. Parts(m, [n.slot EXCEPT ![s] = c], [n.link EXCEPT ![l] = e], n.idle, n.tree, n.told)
  BY <1>1, <1>4, BothSet
<1>6. SlotAndLinkSet(n, m, s, c, e, n.idle, n.told) /\ Fits(n, s, c)
  BY <1>2, <1>3, <1>5 DEF SlotAndLinkSet, Fits, InTurn
<1>7. Kept(n, m, s, c) /\ Backed(n, m, c, e) /\ m.told = n.told
  <2>1. LinkKept(e)
    BY ActiveLinkIs DEF e
  <2> QED BY <1>3, <1>6, <2>1, BothKept
<1>8. c.handed <= d.handed
  BY <1>3, SameHandedNoMore DEF Alone
<1>9. Core(m) /\ Only(n, m, s, c) /\ Used(m) = Used(n) /\ NoMore(n, m)
  BY <1>3, <1>7, <1>8, Stays
<1> QED BY <1>3, <1>9 DEF m, Only

(* A Resource waits for the handshake, or waits no longer.                 *)
PendingSlot(d, x) == [d EXCEPT !.pend = x]

LEMMA PendingFields ==
  ASSUME NEW d, Alone(d), d.used, NEW x \in Outbound \cup {None}, d.res = None
  PROVE  LET c == PendingSlot(d, x)
         IN  /\ Alone(c) /\ c.used /\ c.tag = d.tag /\ c.link = d.link /\ c.handed = d.handed
             /\ Has(c) = {x} \ {None} /\ c.state = d.state /\ c.res = None
             /\ \A k : Linked(d, k) => Linked(c, k)
<1> DEFINE c == PendingSlot(d, x)
<1>1. d \in Slot
  BY DEF Alone
<1>2. c \in Slot
  BY <1>1 DEF Slot, PendingSlot
<1>3. /\ c.used = d.used /\ c.tag = d.tag /\ c.state = d.state /\ c.link = d.link
      /\ c.channel = d.channel /\ c.outbox = d.outbox /\ c.outstanding = d.outstanding
      /\ c.pend = x /\ c.res = d.res /\ c.handed = d.handed
      /\ c.refused = d.refused /\ c.covered = d.covered /\ c.heard = d.heard
  BY <1>1 DEF Slot, PendingSlot
<1> HIDE DEF c
<1>4. Boxed(c) /\ Counted(c)
  BY <1>3 DEF Alone, Boxed, Counted
<1>5. \A q : Whole(d, q) => Whole(c, q)
  BY <1>3 DEF Whole, StreamOf
<1>6. Alone(c)
  BY <1>2, <1>3, <1>4, <1>5 DEF Alone
<1>7. ASSUME NEW k, Linked(d, k) PROVE Linked(c, k)
  <2>1. Receipted(d, k) => Receipted(c, k)
    BY <1>3 DEF Receipted, Blocked, Reached
  <2> QED BY <1>3, <1>5, <1>7, <2>1 DEF Linked
<1>8. Has(c) = {x} \ {None}
  BY <1>3 DEF Has
<1> QED BY <1>3, <1>6, <1>7, <1>8 DEF c

Unspoken(n, x) == n.told[x] = <<>> /\ \A o \in Slots : x \notin Has(n.slot[o])

Waits(n, s, x) == [n EXCEPT !.slot[s].pend = x]

LEMMA Pends ==
  ASSUME NEW n, Core(n), NEW s \in Used(n), n.slot[s].res = None, NEW x \in Outbound \cup {None},
         x = None \/ Unspoken(n, x)
  PROVE  LET m == Waits(n, s, x)
         IN  /\ Core(m) /\ Used(m) = Used(n) /\ NoMore(n, m) /\ m.told = n.told
             /\ m.slot[s].state = n.slot[s].state /\ m.slot[s].res = None
             /\ Has(m.slot[s]) = {x} \ {None} /\ \A o \in Slots \ {s} : m.slot[o] = n.slot[o]
<1> DEFINE d == n.slot[s]
           c == PendingSlot(d, x)
           m == Waits(n, s, x)
<1>1. /\ s \in Slots /\ Shaped(n) /\ Alone(d) /\ d.used
      /\ d.link # NoLink => Linked(d, n.link[d.link])
  BY InUse
<1>2. /\ Alone(c) /\ c.used /\ c.tag = d.tag /\ c.link = d.link /\ c.handed = d.handed
      /\ Has(c) = {x} \ {None} /\ c.state = d.state /\ c.res = None
      /\ \A k : Linked(d, k) => Linked(c, k)
  BY <1>1, PendingFields
<1>3. m = [n EXCEPT !.slot[s] = c]
  BY DEF PendingSlot, Waits
<1> HIDE DEF c, m
<1>4. Parts(m, [n.slot EXCEPT ![s] = c], n.link, n.idle, n.tree, n.told)
  BY <1>1, <1>3, SlotSetTo
<1>5. SlotSet(n, m, s, c, n.idle, n.told) /\ Fits(n, s, c)
  BY <1>2, <1>4 DEF SlotSet, Fits, InTurn
<1>6. c.link # NoLink => Linked(c, n.link[c.link])
  BY <1>1, <1>2
<1>7. Kept(n, m, s, c) /\ Backed(n, m, c, NewLink) /\ m.told = n.told
  BY <1>5, <1>6, SlotKept
<1>8. m.told \in [Resources -> Seq(Words)]
  BY <1>1, <1>7 DEF Shaped
<1>9. WordTurns(n, m, s, c)
  BY <1>2, <1>7 DEF WordTurns, Unspoken
<1>10. \A o \in Slots \ {s} : Has(c) \cap Has(n.slot[o]) = {}
  BY <1>2 DEF Unspoken
<1>11. c.handed <= d.handed
  BY <1>2, SameHandedNoMore DEF Alone
<1>12. Core(m) /\ Only(n, m, s, c) /\ Used(m) = Used(n) /\ NoMore(n, m)
  BY <1>7, <1>8, <1>9, <1>10, <1>11, StaysSpeaking
<1> QED BY <1>2, <1>7, <1>12 DEF m, Only

LEMMA EstablishedKeeps ==
  ASSUME Core(rnsd), NEW s \in Slots, NEW w \in Windows, onChanLinkEstablishedCb(s, w)
  PROVE  Core(rnsd') /\ NoMore(rnsd, rnsd')
<1> DEFINE l == rnsd.slot[s].link
           r == rnsd.slot[s].pend
           a == [rnsd EXCEPT !.slot[s].state = "ACTIVE", !.slot[s].channel = TRUE,
                             !.link[l].status = "ACTIVE"]
           b == chanTouch(a, s)
           u == chanFlushOutbox(b, s, w)
           v == Waits(u, s, None)
<1>1. s \in Used(rnsd) /\ rnsd.slot[s].state = "ESTABLISHING"
  BY StateIsUsed DEF onChanLinkEstablishedCb
<1>2. rnsd' \in IF r = None THEN {u} ELSE chanStartOutboundResource(v, s, r)
  BY DEF onChanLinkEstablishedCb, Waits
<1>3. /\ Core(a) /\ Used(a) = Used(rnsd) /\ NoMore(rnsd, a) /\ a.slot[s].state = "ACTIVE"
      /\ a.slot[s].pend = r /\ a.slot[s].res = None
  BY <1>1, Establishes
<1>4. r \in Outbound \cup {None}
  BY <1>1, InUse DEF Slot
<1> HIDE DEF a, r
<1>5. Core(b) /\ Used(b) = Used(a) /\ NoMore(a, b) /\ b.slot = a.slot
  BY <1>1, <1>3, Touches
<1> HIDE DEF b
<1>6. Core(u) /\ Used(u) = Used(b) /\ NoMore(b, u) /\ Alike(u.slot[s], b.slot[s])
  BY <1>1, <1>3, <1>5, Flushes
<1> HIDE DEF u
<1>7. NoMore(rnsd, u)
  <2>1. NoMore(rnsd, b)
    BY <1>3, <1>5, NoMoreTwice DEF Core
  <2> QED BY <1>5, <1>6, <2>1, NoMoreTwice DEF Core
<1>8. /\ u.slot[s].state = "ACTIVE" /\ u.slot[s].pend = r /\ u.slot[s].res = None
      /\ s \in Used(u) /\ s \in Slots
  BY <1>1, <1>3, <1>5, <1>6 DEF Alike
<1>9. CASE r = None
  BY <1>2, <1>6, <1>7, <1>9
<1>10. CASE r # None
  <2>1. r \in Has(u.slot[s]) /\ r \in Resources
    BY <1>4, <1>8, <1>10 DEF Has, Resources
  <2>2. u.told[r] = <<>> /\ \A o \in Slots \ {s} : r \notin Has(u.slot[o])
    BY <1>6, <1>8, <2>1 DEF Core, WordsHeld, SlotsHeld, Apart
  <2>3. /\ Core(v) /\ Used(v) = Used(u) /\ NoMore(u, v) /\ v.told = u.told
        /\ v.slot[s].state = u.slot[s].state /\ v.slot[s].res = None
        /\ Has(v.slot[s]) = {} /\ \A o \in Slots \ {s} : v.slot[o] = u.slot[o]
    <3> DEFINE x == None
    <3>1. x \in Outbound \cup {None} /\ (x = None \/ Unspoken(u, x)) /\ {x} \ {None} = {}
      OBVIOUS
    <3> HIDE DEF x
    <3>2. LET m == Waits(u, s, x)
          IN  /\ Core(m) /\ Used(m) = Used(u) /\ NoMore(u, m) /\ m.told = u.told
              /\ m.slot[s].state = u.slot[s].state /\ m.slot[s].res = None
              /\ Has(m.slot[s]) = {x} \ {None} /\ \A o \in Slots \ {s} : m.slot[o] = u.slot[o]
      BY <1>6, <1>8, <3>1, Pends
    <3> QED BY <3>1, <3>2 DEF x
  <2> HIDE DEF v
  <2>4. v.told[r] = <<>> /\ \A o \in Slots : r \notin Has(v.slot[o])
    BY <2>2, <2>3
  <2>5. rnsd' \in chanStartOutboundResource(v, s, r)
    BY <1>2, <1>10
  <2>6. Core(rnsd') /\ NoMore(v, rnsd')
    BY <1>8, <2>1, <2>3, <2>4, <2>5, StartsOrNot
  <2>7. NoMore(rnsd, v)
    BY <1>6, <1>7, <2>3, NoMoreTwice DEF Core
  <2> QED BY <2>3, <2>6, <2>7, NoMoreTwice DEF Core
<1> QED BY <1>9, <1>10

-----------------------------------------------------------------------------
(* Resources, and the far end.                                             *)

LEMMA LinkOfSlot ==
  ASSUME NEW n, Core(n), NEW l \in Links, ~Loose(n.link[l])
  PROVE  \E s \in Used(n) : n.slot[s].link = l /\ l # NoLink
<1>1. l # NoLink
  BY BridgeAssumption DEF Links, NoLink
<1>2. PICK s \in Slots : n.slot[s].link = l
  BY DEF Core, LinksHeld
<1>3. s \in Used(n)
  <2>1. SameLinks(n, n)
    BY DEF SameLinks
  <2> QED BY <1>1, <1>2, <2>1, LinkFound
<1> QED BY <1>1, <1>2, <1>3

LEMMA UnheardIs ==
  ASSUME Core(rnsd), NEW r \in Resources, Unheard(r)
  PROVE  Unspoken(rnsd, r)
<1>1. ASSUME NEW o \in Slots, rnsd.slot[o].res = r PROVE FALSE
  <2>1. r # None
    BY BridgeAssumption
  <2>2. Alone(rnsd.slot[o])
    BY DEF Core, SlotsHeld
  <2>3. rnsd.slot[o].link # NoLink
    BY <1>1, <2>1, <2>2 DEF Alone
  <2>4. /\ rnsd.slot[o].link \in Links
        /\ rnsd.link[rnsd.slot[o].link].carries = {rnsd.slot[o].res} \ {None}
    BY <2>3, Carried
  <2>5. r \in rnsd.link[rnsd.slot[o].link].carries
    BY <1>1, <2>1, <2>4
  <2> QED BY <2>4, <2>5 DEF Unheard
<1>2. \A o \in Slots : rnsd.slot[o].pend # r /\ rnsd.slot[o].res # r
  BY <1>1 DEF Unheard
<1> QED BY <1>2 DEF Unspoken, Unheard, Has

LEMMA AuxKeeps ==
  ASSUME Core(rnsd), NEW s \in Slots, NEW r \in Outbound, onChannelAux(s, r)
  PROVE  Core(rnsd') /\ NoMore(rnsd, rnsd')
<1>1. s \in Used(rnsd) /\ rnsd.slot[s].res = None /\ r \in Resources
  BY DEF onChannelAux, Used, Resources
<1>2. Unspoken(rnsd, r)
  BY <1>1, UnheardIs DEF onChannelAux
<1>3. CASE Attached(rnsd, s)
  <2>1. rnsd' \in chanStartOutboundResource(rnsd, s, r)
    BY <1>3 DEF onChannelAux
  <2>2. rnsd.slot[s].state = "ACTIVE"
    BY <1>3 DEF Attached
  <2> QED BY <1>1, <1>2, <2>1, <2>2, StartsOrNot DEF Unspoken
<1>4. CASE ~Attached(rnsd, s)
  <2>1. rnsd' = Waits(rnsd, s, r)
    BY <1>4 DEF onChannelAux, Waits
  <2> QED BY <1>1, <1>2, <2>1, Pends
<1> QED BY <1>3, <1>4

(* A Link falls silent, or is heard again: nothing else changes.           *)
StatusLink(k, x) == [k EXCEPT !.status = x]

LEMMA StatusFields ==
  ASSUME NEW d, NEW k, Linked(d, k), LinkKept(k), Up(k), NEW x, x \in {"ACTIVE", "STALE"}
  PROVE  Linked(d, StatusLink(k, x)) /\ LinkKept(StatusLink(k, x))
<1> DEFINE e == StatusLink(k, x)
<1>1. k \in LinkRecord
  BY DEF LinkKept
<1>2. /\ e \in LinkRecord /\ e.status = x /\ e.sent = k.sent
      /\ e.proved = k.proved /\ e.settled = k.settled /\ e.carries = k.carries
  BY <1>1 DEF LinkRecord, StatusLink
<1> HIDE DEF e
<1>3. LinkKept(e)
  BY <1>2 DEF LinkKept
<1>4. d.state = "ACTIVE" /\ k.carries = {d.res} \ {None} /\ Whole(d, k.sent) /\ Receipted(d, k)
  <2>1. PendingLink.status = "PENDING"
    BY DEF PendingLink, NewLink
  <2> QED BY <2>1 DEF Linked, PendingLink, Up
<1>5. Receipted(d, e)
  BY <1>2, <1>4 DEF Receipted, Reached
<1>6. Linked(d, e)
  BY <1>2, <1>4, <1>5 DEF Linked
<1> QED BY <1>3, <1>6 DEF e

LEMMA StatusKeeps ==
  ASSUME NEW n, Core(n), NEW l \in Links, Up(n.link[l]), NEW x, x \in {"ACTIVE", "STALE"}
  PROVE  LET m == [n EXCEPT !.link[l].status = x]
         IN  /\ Core(m) /\ Used(m) = Used(n) /\ NoMore(n, m)
             /\ m.slot = n.slot /\ m.told = n.told /\ m.link[l].carries = n.link[l].carries
<1> DEFINE k == n.link[l]
           e == StatusLink(k, x)
           m == [n EXCEPT !.link[l].status = x]
<1>1. ~Loose(k)
  BY DEF Loose, NewLink, Up
<1>2. PICK s \in Used(n) : n.slot[s].link = l /\ l # NoLink
  BY <1>1, LinkOfSlot
<1> DEFINE d == n.slot[s]
<1>3. s \in Slots /\ Shaped(n) /\ Alone(d) /\ d.used /\ Linked(d, k) /\ LinkKept(k)
  BY <1>2, InUse
<1>4. Linked(d, e) /\ LinkKept(e) /\ e.carries = k.carries
  <2>1. e.carries = k.carries
    BY <1>3 DEF LinkKept, LinkRecord, StatusLink
  <2> QED BY <1>3, <2>1, StatusFields
<1>5. m = [n EXCEPT !.link[l] = e]
  BY DEF StatusLink
<1> HIDE DEF e, m
<1>6. Parts(m, n.slot, [n.link EXCEPT ![l] = e], n.idle, n.tree, n.told)
  BY <1>3, <1>5, LinkSetTo
<1>7. [n.slot EXCEPT ![s] = d] = n.slot
  BY <1>3, SlotSetIs
<1>8. SlotAndLinkSet(n, m, s, d, e, n.idle, n.told) /\ Fits(n, s, d)
  BY <1>2, <1>3, <1>6, <1>7 DEF SlotAndLinkSet, Fits, InTurn
<1>9. Kept(n, m, s, d) /\ Backed(n, m, d, e) /\ m.told = n.told /\ m.link[l] = e
  BY <1>2, <1>4, <1>8, BothKept
<1>10. Core(m) /\ Used(m) = Used(n)
  BY <1>9, Stays
<1>11. m.slot = n.slot
  BY <1>6 DEF Parts
<1> QED BY <1>3, <1>4, <1>9, <1>10, <1>11, NoMoreSame DEF m

LEMMA Wakes ==
  ASSUME NEW n, Core(n), NEW l \in Links
  PROVE  LET m == link_receive(n, l)
         IN  /\ Core(m) /\ Used(m) = Used(n) /\ NoMore(n, m)
             /\ m.slot = n.slot /\ m.told = n.told /\ m.link[l].carries = n.link[l].carries
<1>1. CASE n.link[l].status = "STALE"
  <2> DEFINE m == [n EXCEPT !.link[l].status = "ACTIVE"]
  <2>1. link_receive(n, l) = m
    BY <1>1 DEF link_receive
  <2>2. Up(n.link[l]) /\ "ACTIVE" \in {"ACTIVE", "STALE"}
    BY <1>1 DEF Up
  <2>3. /\ Core(m) /\ Used(m) = Used(n) /\ NoMore(n, m)
        /\ m.slot = n.slot /\ m.told = n.told /\ m.link[l].carries = n.link[l].carries
    BY <2>2, StatusKeeps
  <2> HIDE DEF m
  <2> QED BY <2>1, <2>3
<1>2. CASE n.link[l].status # "STALE"
  <2>1. link_receive(n, l) = n
    BY <1>2 DEF link_receive
  <2>2. NoMore(n, n)
    BY NoMoreSame DEF Core
  <2> QED BY <2>1, <2>2
<1> QED BY <1>1, <1>2

LEMMA StaleKeeps ==
  ASSUME Core(rnsd), NEW l \in Links, goesStale(l)
  PROVE  Core(rnsd') /\ NoMore(rnsd, rnsd')
<1>1. Up(rnsd.link[l]) /\ "STALE" \in {"ACTIVE", "STALE"}
  BY DEF goesStale, Up
<1>2. rnsd' = [rnsd EXCEPT !.link[l].status = "STALE"]
  BY DEF goesStale
<1> QED BY <1>1, <1>2, StatusKeeps

LEMMA KeepaliveKeeps ==
  ASSUME Core(rnsd), NEW l \in Links, keepaliveHeard(l)
  PROVE  Core(rnsd') /\ NoMore(rnsd, rnsd')
BY Wakes DEF keepaliveHeard

LEMMA GraceKeeps ==
  ASSUME Core(rnsd), NEW l \in Links, graceEnds(l)
  PROVE  Core(rnsd') /\ NoMore(rnsd, rnsd')
<1>1. ~Loose(rnsd.link[l])
  BY DEF graceEnds, Loose, NewLink
<1>2. PICK s \in Used(rnsd) : rnsd.slot[s].link = l /\ l # NoLink
  BY <1>1, LinkOfSlot
<1>3. s \in Slots /\ rnsd' = link_closed(rnsd, l)
  BY DEF Used, graceEnds
<1> QED BY <1>2, <1>3, LinkCloses

LEMMA AdvertisedKeeps ==
  ASSUME Core(rnsd), NEW s \in Slots, NEW r \in Inbound, resourceAdvertised(s, r)
  PROVE  Core(rnsd') /\ NoMore(rnsd, rnsd')
<1> DEFINE l == rnsd.slot[s].link
           n == link_receive(rnsd, l)
<1>1. /\ s \in Used(rnsd) /\ rnsd.slot[s].state = "ACTIVE" /\ rnsd.slot[s].res = None
      /\ l # NoLink /\ l \in Links /\ r \in Resources
  BY AttachedIs DEF resourceAdvertised, chanResAdvertised, Resources
<1>2. Unspoken(rnsd, r)
  BY <1>1, UnheardIs DEF resourceAdvertised
<1>3. rnsd.link[l].carries \cup {r} = {r}
  <2>1. rnsd.link[l].carries = {rnsd.slot[s].res} \ {None}
    BY <1>1, Carried
  <2> QED BY <1>1, <2>1
<1>4. /\ Core(n) /\ Used(n) = Used(rnsd) /\ NoMore(rnsd, n)
      /\ n.slot = rnsd.slot /\ n.told = rnsd.told /\ n.link[l].carries = rnsd.link[l].carries
  BY <1>1, Wakes
<1>5. rnsd' = [n EXCEPT !.slot[s].res = r, !.link[l].carries = n.link[l].carries \cup {r}]
  BY DEF resourceAdvertised
<1> HIDE DEF n
<1>6. rnsd' \in chanStartOutboundResource(n, s, r)
  <2>1. n.slot[s].link = l /\ n.link[l].carries \cup {r} = {r}
    BY <1>3, <1>4
  <2>2. rnsd' = [n EXCEPT !.slot[s].res = r, !.link[n.slot[s].link].carries = {r}]
    BY <1>5, <2>1
  <2> HIDE DEF l
  <2> QED BY <2>2 DEF chanStartOutboundResource
<1>7. Core(rnsd') /\ NoMore(n, rnsd')
  <2>1. s \in Used(n) /\ n.slot[s].state = "ACTIVE" /\ n.slot[s].res = None /\ Unspoken(n, r)
    BY <1>1, <1>2, <1>4 DEF Unspoken
  <2> QED BY <1>1, <1>4, <1>6, <2>1, StartsOrNot DEF Unspoken
<1> QED BY <1>4, <1>7, NoMoreTwice DEF Core

IdleLink(k) == [k EXCEPT !.carries = {}]

LEMMA IdledFields ==
  ASSUME NEW d, Alone(d), d.used, NEW k, Linked(d, k), LinkKept(k), d.state = "ACTIVE"
  PROVE  LET c == Idled(d)
             e == IdleLink(k)
         IN  /\ Alone(c) /\ c.used /\ c.tag = d.tag /\ c.link = d.link /\ c.handed = d.handed
             /\ Has(c) \subseteq Has(d) \ {d.res} /\ Linked(c, e) /\ LinkKept(e)
<1> DEFINE c == Idled(d)
           e == IdleLink(k)
<1>1. d \in Slot /\ k \in LinkRecord
  BY DEF Alone, LinkKept
<1>2. c \in Slot
  BY <1>1 DEF Slot, Idled
<1>3. /\ c.used = d.used /\ c.tag = d.tag /\ c.state = d.state /\ c.link = d.link
      /\ c.channel = d.channel /\ c.outbox = d.outbox /\ c.outstanding = d.outstanding
      /\ c.pend = d.pend /\ c.res = None /\ c.handed = d.handed
      /\ c.refused = d.refused /\ c.covered = d.covered /\ c.heard = d.heard
  BY <1>1 DEF Slot, Idled
<1>4. /\ e \in LinkRecord /\ e.status = k.status /\ e.sent = k.sent /\ e.proved = k.proved
      /\ e.settled = k.settled /\ e.carries = {}
  BY <1>1 DEF LinkRecord, IdleLink
<1> HIDE DEF c, e
<1>5. Boxed(c) /\ Counted(c)
  BY <1>3 DEF Alone, Boxed, Counted
<1>6. Alone(c)
  BY <1>2, <1>3, <1>5 DEF Alone
<1>7. LinkKept(e)
  BY <1>4 DEF LinkKept
<1>8. Linked(c, e)
  <2>1. Whole(d, k.sent) /\ Receipted(d, k) /\ k.status \in {"ACTIVE", "STALE"}
    BY DEF Linked
  <2>2. Whole(c, e.sent)
    BY <1>3, <1>4, <2>1 DEF Whole, StreamOf
  <2>3. Receipted(c, e)
    BY <1>3, <1>4, <2>1 DEF Receipted, Blocked, Reached
  <2>4. e.carries = {c.res} \ {None}
    BY <1>3, <1>4
  <2> QED BY <1>3, <1>4, <2>1, <2>2, <2>3, <2>4 DEF Linked
<1>9. Has(c) \subseteq Has(d) \ {d.res}
  <2>1. d.res # None => d.pend # d.res
    BY DEF Alone
  <2> QED BY <1>3, <2>1 DEF Has
<1> QED BY <1>3, <1>6, <1>7, <1>8, <1>9 DEF c, e

LEMMA Finishes ==
  ASSUME NEW n, Core(n), NEW l \in Links, NEW r \in n.link[l].carries, NEW word \in Words
  PROVE  LET m == finish(n, l, r, word) IN Core(m) /\ NoMore(n, m)
<1> DEFINE k == n.link[l]
           e == IdleLink(k)
           z == finish(n, l, r, word)
<1>1. ~Loose(k)
  BY DEF Loose, NewLink
<1>2. PICK s \in Used(n) : n.slot[s].link = l /\ l # NoLink
  BY <1>1, LinkOfSlot
<1> DEFINE d == n.slot[s]
           c == Idled(d)
<1>3. s \in Slots /\ Shaped(n) /\ Alone(d) /\ d.used /\ Linked(d, k) /\ LinkKept(k)
  BY <1>2, InUse
<1>4. k.carries = {d.res} \ {None}
  BY <1>2, <1>3, Carried
<1>5. r # None /\ d.res = r /\ d.state = "ACTIVE"
  <2>1. d.res = r /\ r # None
    BY <1>4
  <2> QED BY <1>3, <2>1 DEF Alone
<1>6. /\ Alone(c) /\ c.used /\ c.tag = d.tag /\ c.link = d.link /\ c.handed = d.handed
      /\ Has(c) \subseteq Has(d) \ {d.res} /\ Linked(c, e) /\ LinkKept(e)
  BY <1>3, <1>5, IdledFields
<1> DEFINE m == [n EXCEPT !.link[l] = e]
<1>7. z = chanResConcluded(m, r, word)
  <2>1. k.carries \ {r} = {}
    BY <1>4, <1>5
  <2>2. [n EXCEPT !.link[l].carries = @ \ {r}]
          = [n EXCEPT !.link[l] = [k EXCEPT !.carries = k.carries \ {r}]]
    OBVIOUS
  <2>3. [n EXCEPT !.link[l].carries = @ \ {r}] = m
    BY <2>1, <2>2 DEF IdleLink
  <2> QED BY <2>3 DEF finish
<1> HIDE DEF c, e
<1> DEFINE a == [n.slot EXCEPT ![s] = c]
           b == [n.link EXCEPT ![l] = e]
           w == ToldOf(n.told, r, word)
<1>8. Parts(m, n.slot, b, n.idle, n.tree, n.told)
  BY <1>3, LinkSetTo
<1> HIDE DEF m, b, z
<1>9. Parts(z, a, b, n.idle, n.tree, w)
  <2>1. Parts(chanResConcluded(m, r, word), [n.slot EXCEPT ![s] = Idled(n.slot[s])], b, n.idle,
              n.tree, ToldOf(n.told, r, word))
    BY <1>3, <1>5, <1>8, Concluding
  <2> QED BY <1>7, <2>1 DEF c
<1>10. SlotAndLinkSet(n, z, s, c, e, n.idle, w) /\ Fits(n, s, c)
  BY <1>2, <1>6, <1>9 DEF SlotAndLinkSet, Fits, InTurn, b
<1>11. Kept(n, z, s, c) /\ Backed(n, z, c, e) /\ z.told = w
  BY <1>6, <1>10, BothKept
<1>12. /\ z.told \in [Resources -> Seq(Words)] /\ WordTurns(n, z, s, c)
       /\ \A o \in Slots \ {s} : Has(c) \cap Has(n.slot[o]) = {}
  <2>1. z.told = ToldOf(n.told, n.slot[s].res, word)
    BY <1>5, <1>11
  <2> QED BY <1>3, <1>6, <2>1, ToldTurn
<1>13. c.handed <= d.handed
  BY <1>6, SameHandedNoMore DEF Alone
<1> QED BY <1>11, <1>12, <1>13, StaysSpeaking DEF z

LEMMA ConcludedKeeps ==
  ASSUME Core(rnsd), NEW l \in Links, NEW word \in Words, resourceConcluded(l, word)
  PROVE  Core(rnsd') /\ NoMore(rnsd, rnsd')
<1> DEFINE n == link_receive(rnsd, l)
<1>1. PICK r \in rnsd.link[l].carries :
        rnsd' = finish(n, l, r, word) \/ rnsd' = finish(rnsd, l, r, word)
  BY DEF resourceConcluded
<1>2. Core(n) /\ NoMore(rnsd, n) /\ r \in n.link[l].carries
  BY Wakes
<1> HIDE DEF n
<1>3. CASE rnsd' = finish(n, l, r, word)
  <2>1. Core(rnsd') /\ NoMore(n, rnsd')
    BY <1>2, <1>3, Finishes
  <2> QED BY <1>2, <2>1, NoMoreTwice DEF Core
<1>4. CASE rnsd' = finish(rnsd, l, r, word)
  BY <1>4, Finishes
<1> QED BY <1>1, <1>3, <1>4

ProvedLink(k, x) == [k EXCEPT !.proved = k.proved \cup {x}]

LEMMA ProvedFields ==
  ASSUME NEW d, NEW k, Linked(d, k), LinkKept(k), Up(k), NEW x \in ToSet(k.sent)
  PROVE  Linked(d, ProvedLink(k, x)) /\ LinkKept(ProvedLink(k, x))
<1> DEFINE e == ProvedLink(k, x)
<1>1. k \in LinkRecord /\ x \in Nat
  BY DEF LinkKept, LinkRecord, ToSet
<1>2. /\ e \in LinkRecord /\ e.status = k.status /\ e.sent = k.sent
      /\ e.proved = k.proved \cup {x} /\ e.settled = k.settled /\ e.carries = k.carries
  BY <1>1 DEF LinkRecord, ProvedLink
<1> HIDE DEF e
<1>3. LinkKept(e)
  BY <1>2 DEF LinkKept
<1>4. Receipted(d, k) => Receipted(d, e)
  BY <1>2 DEF Receipted, Reached
<1>5. d.state = "ACTIVE" /\ k.carries = {d.res} \ {None} /\ Whole(d, k.sent) /\ Receipted(d, k)
  <2>1. PendingLink.status = "PENDING"
    BY DEF PendingLink, NewLink
  <2> QED BY <2>1 DEF Linked, PendingLink, Up
<1>6. Linked(d, e)
  BY <1>2, <1>4, <1>5 DEF Linked, Up
<1> QED BY <1>3, <1>6 DEF e

LEMMA ProvesKeeps ==
  ASSUME Core(rnsd), NEW l \in Links, Proves(l)
  PROVE  Core(rnsd') /\ NoMore(rnsd, rnsd')
<1> DEFINE n == rnsd
           k == n.link[l]
<1>0. PICK x \in UnprovedIn(k) : rnsd' = [rnsd EXCEPT !.link[l].proved = @ \cup {x}]
  BY DEF Proves
<1>1. Up(k) /\ x \in ToSet(k.sent)
  BY DEF Proves, UnprovedIn
<1>2. ~Loose(k)
  BY <1>1 DEF Loose, NewLink, Up
<1>3. PICK s \in Used(n) : n.slot[s].link = l /\ l # NoLink
  BY <1>2, LinkOfSlot
<1> DEFINE d == n.slot[s]
           e == ProvedLink(k, x)
<1>4. s \in Slots /\ Shaped(n) /\ Alone(d) /\ d.used /\ Linked(d, k) /\ LinkKept(k)
  BY <1>3, InUse
<1>5. Linked(d, e) /\ LinkKept(e)
  BY <1>1, <1>4, ProvedFields
<1>6. rnsd' = [n EXCEPT !.link[l] = e]
  BY <1>0 DEF ProvedLink
<1> HIDE DEF e
<1>7. Parts(rnsd', n.slot, [n.link EXCEPT ![l] = e], n.idle, n.tree, n.told)
  BY <1>4, <1>6, LinkSetTo
<1>8. [n.slot EXCEPT ![s] = d] = n.slot
  BY <1>4, SlotSetIs
<1>9. SlotAndLinkSet(n, rnsd', s, d, e, n.idle, n.told) /\ Fits(n, s, d)
  BY <1>3, <1>4, <1>7, <1>8 DEF SlotAndLinkSet, Fits, InTurn
<1>10. Kept(n, rnsd', s, d) /\ Backed(n, rnsd', d, e) /\ rnsd'.told = n.told
  BY <1>5, <1>9, BothKept
<1>11. Core(rnsd')
  BY <1>10, Stays
<1>12. rnsd'.slot = n.slot
  BY <1>7 DEF Parts
<1> QED BY <1>4, <1>11, <1>12, NoMoreSame

LEMMA EndsKeeps ==
  ASSUME Core(rnsd), NEW l \in Links, linkEnds(l)
  PROVE  Core(rnsd') /\ NoMore(rnsd, rnsd')
<1>1. ~Loose(rnsd.link[l])
  BY DEF linkEnds, Loose, NewLink, Up
<1>2. PICK s \in Used(rnsd) : rnsd.slot[s].link = l /\ l # NoLink
  BY <1>1, LinkOfSlot
<1>3. s \in Slots /\ rnsd' = link_closed(rnsd, l)
  BY DEF Used, linkEnds
<1> QED BY <1>2, <1>3, LinkCloses

LEMMA HeardKeeps ==
  ASSUME Core(rnsd), NEW s \in Slots, onChannelMsgCb(s)
  PROVE  Core(rnsd') /\ NoMore(rnsd, rnsd')
<1> DEFINE l == rnsd.slot[s].link
           n == link_receive(rnsd, l)
<1>1. s \in Used(rnsd) /\ l \in Links /\ rnsd' = chanTouch(n, s)
  BY AttachedIs DEF onChannelMsgCb
<1>2. Core(n) /\ Used(n) = Used(rnsd) /\ NoMore(rnsd, n)
  BY <1>1, Wakes
<1> HIDE DEF n
<1>3. Core(rnsd') /\ NoMore(n, rnsd')
  BY <1>1, <1>2, Touches
<1> QED BY <1>2, <1>3, NoMoreTwice DEF Core

LEMMA DisconnectKeeps ==
  ASSUME Core(rnsd), NEW s \in Slots, onChannelDisconnect(s)
  PROVE  Core(rnsd') /\ NoMore(rnsd, rnsd')
<1>1. s \in Used(rnsd) /\ rnsd' = chanFreeSlot(rnsd, s)
  BY DEF onChannelDisconnect, Used
<1> QED BY <1>1, Frees

-----------------------------------------------------------------------------
(* A message is handed over.                                               *)

(* What all the outcomes have in common: one message more.                 *)
Written(c, d) ==
  /\ c.used = d.used /\ c.tag = d.tag /\ c.state = d.state /\ c.link = d.link
  /\ c.channel = d.channel /\ c.outstanding = d.outstanding /\ c.pend = d.pend /\ c.res = d.res
  /\ c.covered = d.covered /\ c.heard = d.heard /\ c.handed = d.handed + 1

HandedSlot(d) == [d EXCEPT !.handed = d.handed + 1]
RefusedSlot(d) ==
  [[d EXCEPT !.handed = d.handed + 1] EXCEPT !.refused = d.refused \cup {d.handed + 1}]
BufferedSlot(d, x) ==
  [[d EXCEPT !.handed = d.handed + 1] EXCEPT !.outbox = Append(d.outbox, x)]

LEMMA WrittenIs ==
  ASSUME NEW d, Alone(d), NEW x \in Entry
  PROVE  /\ HandedSlot(d) \in Slot /\ Written(HandedSlot(d), d)
         /\ HandedSlot(d).outbox = d.outbox /\ HandedSlot(d).refused = d.refused
         /\ RefusedSlot(d) \in Slot /\ Written(RefusedSlot(d), d)
         /\ RefusedSlot(d).outbox = d.outbox
         /\ RefusedSlot(d).refused = d.refused \cup {d.handed + 1}
         /\ BufferedSlot(d, x) \in Slot /\ Written(BufferedSlot(d, x), d)
         /\ BufferedSlot(d, x).outbox = Append(d.outbox, x)
         /\ BufferedSlot(d, x).refused = d.refused
<1> DEFINE e == HandedSlot(d)
           h == d.handed + 1
           R == d.refused \cup {h}
           box == Append(d.outbox, x)
           f == [e EXCEPT !.refused = R]
           g == [e EXCEPT !.outbox = box]
<1>1. d \in Slot /\ d.handed \in Nat /\ d.refused \subseteq Nat /\ d.outbox \in Seq(Entry)
  BY DEF Alone, Slot
<1>2. h \in Nat /\ R \subseteq Nat /\ box \in Seq(Entry)
  BY <1>1
<1>3. RefusedSlot(d) = f /\ BufferedSlot(d, x) = g
  BY DEF HandedSlot, RefusedSlot, BufferedSlot
<1>4. e = [d EXCEPT !.handed = h]
  BY DEF HandedSlot
<1> HIDE DEF e, R, box
<1>5. e \in Slot /\ Written(e, d) /\ e.outbox = d.outbox /\ e.refused = d.refused
  <2>1. e \in Slot
    BY <1>1, <1>2, <1>4 DEF Slot
  <2>2. Written(e, d) /\ e.outbox = d.outbox /\ e.refused = d.refused
    BY <1>1, <1>4 DEF Slot, Written
  <2> QED BY <2>1, <2>2
<1>6. f \in Slot /\ Written(f, d) /\ f.outbox = d.outbox /\ f.refused = R
  <2>1. f \in Slot
    BY <1>2, <1>5 DEF Slot
  <2>2. f.outbox = e.outbox /\ f.refused = R /\ (Written(e, d) => Written(f, d))
    BY <1>5 DEF Slot, Written
  <2> QED BY <1>5, <2>1, <2>2
<1>7. g \in Slot /\ Written(g, d) /\ g.outbox = box /\ g.refused = d.refused
  <2>1. g \in Slot
    BY <1>2, <1>5 DEF Slot
  <2>2. g.outbox = box /\ g.refused = e.refused /\ (Written(e, d) => Written(g, d))
    BY <1>5 DEF Slot, Written
  <2> QED BY <1>5, <2>1, <2>2
<1> QED BY <1>3, <1>5, <1>6, <1>7 DEF e, R, box

LEMMA WrittenAlone ==
  ASSUME NEW d, Alone(d), d.used, NEW c, c \in Slot, Written(c, d), Boxed(c),
         c.refused \subseteq 1 .. c.handed,
         c.state \in {"AWAITING_PATH", "ESTABLISHING"} => Whole(c, <<>>)
  PROVE  Alone(c) /\ c.used /\ c.tag = d.tag /\ c.link = d.link /\ Has(c) = Has(d)
<1>1. d \in Slot /\ Counted(d)
  BY DEF Alone
<1>2. /\ d.handed \in Nat /\ d.covered \in Nat /\ d.outstanding \in {Unpublished} \cup Nat
      /\ d.covered <= d.handed /\ d.outstanding <= d.handed
  BY <1>1 DEF Slot, Counted
<1>3. Counted(c)
  <2>1. c.covered <= c.handed /\ c.outstanding <= c.handed
    BY <1>2 DEF Written, Unpublished
  <2> QED BY <2>1 DEF Counted
<1>4. Alone(c)
  BY <1>3 DEF Alone, Written
<1> QED BY <1>4 DEF Written, Has

LEMMA WrittenLinked ==
  ASSUME NEW d, Alone(d), NEW c, Written(c, d), d.refused \subseteq c.refused,
         Blocked(d) => Blocked(c), NEW k, Linked(d, k), Up(k),
         NEW e, e.status = k.status, e.carries = k.carries, e.proved = k.proved,
         Whole(c, e.sent)
  PROVE  Linked(c, e)
<1>1. d.state = "ACTIVE" /\ k.carries = {d.res} \ {None} /\ Receipted(d, k)
  <2>1. PendingLink.status = "PENDING"
    BY DEF PendingLink, NewLink
  <2> QED BY <2>1 DEF Linked, PendingLink, Up
<1>2. Receipted(c, e)
  BY <1>1 DEF Receipted, Reached, Written
<1> QED BY <1>1, <1>2 DEF Linked, Written, Up

(* A refused message leaves the stream as it is.                           *)
LEMMA RefusedWhole ==
  ASSUME NEW d, Alone(d), NEW q
  PROVE  Whole(d, q) => Whole(RefusedSlot(d), q)
<1> DEFINE c == RefusedSlot(d)
           R == d.refused \cup {d.handed + 1}
<1>0. [number |-> 0, oversize |-> FALSE] \in Entry
  BY DEF Entry
<1>1. c.outbox = d.outbox /\ c.refused = R /\ c.handed = d.handed + 1
  BY <1>0, WrittenIs DEF Written
<1>2. d.handed \in Nat /\ d.refused \subseteq 1 .. d.handed
  BY DEF Alone, Slot, Counted
<1>3. 1 .. d.handed + 1 \ R = 1 .. d.handed \ d.refused
  BY <1>2, PastInStream
<1> HIDE DEF c, R
<1> QED BY <1>1, <1>3 DEF Whole, StreamOf, c

(* One that waits, or goes straight out, is the next in it.                *)
LEMMA BufferedWhole ==
  ASSUME NEW d, Alone(d), NEW q \in Seq(Nat), NEW x \in Entry, x.number = d.handed + 1,
         Whole(d, q)
  PROVE  Whole(BufferedSlot(d, x), q)
<1> DEFINE c == BufferedSlot(d, x)
           z == q \o Numbers(d.outbox)
<1>1. c.outbox = Append(d.outbox, x) /\ c.refused = d.refused /\ c.handed = d.handed + 1
  BY WrittenIs DEF Written
<1>2. /\ d.handed \in Nat /\ d.refused \subseteq 1 .. d.handed /\ d.outbox \in Seq(Entry)
  BY DEF Alone, Slot, Counted
<1>3. z \in Seq(Nat) /\ Ascends(z) /\ ToSet(z) = 1 .. d.handed \ d.refused
  BY <1>2, StreamIsSequence DEF Whole, StreamOf
<1>4. StreamOf(c, q) = Append(z, d.handed + 1)
  <2>1. q \o Numbers(Append(d.outbox, x)) = Append(z, x.number)
    BY <1>2, WaitsLast
  <2> HIDE DEF z, c
  <2> QED BY <1>1, <2>1 DEF StreamOf
<1> HIDE DEF z, c
<1>5. /\ Ascends(Append(z, d.handed + 1))
      /\ ToSet(Append(z, d.handed + 1)) = 1 .. d.handed + 1 \ d.refused
  <2> DEFINE h == d.handed
             R == d.refused
  <2>1. h \in Nat /\ R \subseteq 1 .. h /\ z \in Seq(Nat) /\ Ascends(z) /\ ToSet(z) = 1 .. h \ R
    BY <1>2, <1>3
  <2> HIDE DEF h, R
  <2>2. Ascends(Append(z, h + 1)) /\ ToSet(Append(z, h + 1)) = 1 .. h + 1 \ R
    BY <2>1, NextInStream
  <2> QED BY <2>2 DEF h, R
<1> QED BY <1>1, <1>4, <1>5 DEF Whole, c

LEMMA SentWhole ==
  ASSUME NEW d, Alone(d), NEW q \in Seq(Nat), d.outbox = <<>>, Whole(d, q)
  PROVE  Whole(HandedSlot(d), Append(q, d.handed + 1))
<1> DEFINE c == HandedSlot(d)
           h == d.handed + 1
<1>0. [number |-> 0, oversize |-> FALSE] \in Entry
  BY DEF Entry
<1>1. c.outbox = <<>> /\ c.refused = d.refused /\ c.handed = h
  BY <1>0, WrittenIs DEF Written
<1>2. d.handed \in Nat /\ d.refused \subseteq 1 .. d.handed
  BY DEF Alone, Slot, Counted
<1>3. q \o <<>> = q /\ Append(q, h) \o <<>> = Append(q, h)
  BY <1>2
<1>4. StreamOf(d, q) = q /\ StreamOf(c, Append(q, h)) = Append(q, h)
  BY <1>1, <1>3, NoNumbers DEF StreamOf
<1>5. Ascends(q) /\ ToSet(q) = 1 .. d.handed \ d.refused
  BY <1>4 DEF Whole
<1>6. Ascends(Append(q, h)) /\ ToSet(Append(q, h)) = 1 .. h \ d.refused
  <2> DEFINE v == d.handed
             R == d.refused
  <2>1. v \in Nat /\ R \subseteq 1 .. v /\ Ascends(q) /\ ToSet(q) = 1 .. v \ R
    BY <1>2, <1>5
  <2> HIDE DEF v, R
  <2>2. Ascends(Append(q, v + 1)) /\ ToSet(Append(q, v + 1)) = 1 .. v + 1 \ R
    BY <2>1, NextInStream
  <2> QED BY <2>2 DEF v, R
<1> HIDE DEF c
<1> QED BY <1>1, <1>4, <1>6 DEF Whole, c

LEMMA WrittenOn ==
  ASSUME NEW d, Alone(d), NEW c, Written(c, d), d.refused \subseteq c.refused,
         Blocked(d) => Blocked(c), \A q \in Seq(Nat) : Whole(d, q) => Whole(c, q),
         NEW k, Linked(d, k), LinkKept(k)
  PROVE  Linked(c, k)
<1>1. CASE Up(k)
  <2>1. k.sent \in Seq(Nat)
    BY DEF LinkKept, LinkRecord
  <2>2. Whole(d, k.sent)
    <3>1. PendingLink.status = "PENDING"
      BY DEF PendingLink, NewLink
    <3> QED BY <1>1, <3>1 DEF Linked, PendingLink, Up
  <2> QED BY <1>1, <2>1, <2>2, WrittenLinked
<1>2. CASE ~Up(k)
  BY <1>2 DEF Linked, Written, Up
<1> QED BY <1>1, <1>2

LEMMA RefusedFields ==
  ASSUME NEW d, Alone(d), d.used
  PROVE  LET c == RefusedSlot(d)
         IN  /\ Alone(c) /\ c.used /\ c.tag = d.tag /\ c.link = d.link /\ Has(c) = Has(d)
             /\ c.handed = d.handed + 1 /\ \A k : Linked(d, k) /\ LinkKept(k) => Linked(c, k)
<1> DEFINE c == RefusedSlot(d)
<1>0. [number |-> 0, oversize |-> FALSE] \in Entry
  BY DEF Entry
<1>1. /\ c \in Slot /\ Written(c, d) /\ c.outbox = d.outbox
      /\ c.refused = d.refused \cup {d.handed + 1}
  BY <1>0, WrittenIs
<1>2. /\ d.handed \in Nat /\ d.refused \subseteq 1 .. d.handed /\ d.outbox \in Seq(Entry) /\ Boxed(d)
  BY DEF Alone, Slot, Counted
<1>3. \A q : Whole(d, q) => Whole(c, q)
  BY RefusedWhole
<1> HIDE DEF c
<1>4. c.handed = d.handed + 1
  BY <1>1 DEF Written
<1>5. Boxed(c)
  <2>1. \A i \in DOMAIN d.outbox : d.outbox[i].number \in 1 .. d.handed + 1
    BY <1>2 DEF Boxed
  <2> QED BY <1>1, <1>2, <1>4, <2>1 DEF Boxed
<1>6. c.refused \subseteq 1 .. c.handed
  BY <1>1, <1>2, <1>4
<1>7. c.state \in {"AWAITING_PATH", "ESTABLISHING"} => Whole(c, <<>>)
  BY <1>1, <1>3 DEF Alone, Written
<1>8. Alone(c) /\ c.used /\ c.tag = d.tag /\ c.link = d.link /\ Has(c) = Has(d)
  BY <1>1, <1>5, <1>6, <1>7, WrittenAlone
<1>9. Blocked(d) => Blocked(c)
  BY <1>1 DEF Blocked
<1>10. ASSUME NEW k, Linked(d, k), LinkKept(k) PROVE Linked(c, k)
  BY <1>1, <1>3, <1>9, <1>10, WrittenOn
<1> QED BY <1>4, <1>8, <1>10 DEF c

LEMMA BufferedFields ==
  ASSUME NEW d, Alone(d), d.used, NEW x \in Entry, x.number = d.handed + 1,
         Len(d.outbox) < RNSD_CHAN_MAX_OUTBOX
  PROVE  LET c == BufferedSlot(d, x)
         IN  /\ Alone(c) /\ c.used /\ c.tag = d.tag /\ c.link = d.link /\ Has(c) = Has(d)
             /\ c.handed = d.handed + 1 /\ \A k : Linked(d, k) /\ LinkKept(k) => Linked(c, k)
<1> DEFINE c == BufferedSlot(d, x)
           box == Append(d.outbox, x)
<1>1. c \in Slot /\ Written(c, d) /\ c.outbox = box /\ c.refused = d.refused
  BY WrittenIs
<1>2. /\ d.handed \in Nat /\ d.refused \subseteq 1 .. d.handed /\ d.outbox \in Seq(Entry) /\ Boxed(d)
  BY DEF Alone, Slot, Counted
<1>3. \A q \in Seq(Nat) : Whole(d, q) => Whole(c, q)
  BY BufferedWhole
<1>4. /\ Len(box) = Len(d.outbox) + 1 /\ DOMAIN box = 1 .. Len(d.outbox) + 1
      /\ box[Len(d.outbox) + 1] = x
      /\ \A i \in 1 .. Len(d.outbox) : box[i] = d.outbox[i]
  BY <1>2, Appended
<1>5. Len(d.outbox) \in Nat /\ DOMAIN d.outbox = 1 .. Len(d.outbox)
  BY <1>2
<1> HIDE DEF c, box
<1>6. c.handed = d.handed + 1
  BY <1>1 DEF Written
<1>7. Boxed(c)
  <2>1. Len(box) <= RNSD_CHAN_MAX_OUTBOX
    BY <1>4, <1>5, BridgeAssumption
  <2>2. ASSUME NEW i \in DOMAIN box PROVE box[i].number \in 1 .. d.handed + 1
    <3>1. CASE i \in 1 .. Len(d.outbox)
      <4>1. d.outbox[i].number \in 1 .. d.handed
        BY <1>2, <1>5, <3>1 DEF Boxed
      <4> QED BY <1>2, <1>4, <3>1, <4>1
    <3>2. CASE i = Len(d.outbox) + 1
      BY <1>2, <1>4, <3>2
    <3> QED BY <1>4, <1>5, <3>1, <3>2
  <2> QED BY <1>1, <1>6, <2>1, <2>2 DEF Boxed
<1>8. c.refused \subseteq 1 .. c.handed
  BY <1>1, <1>2, <1>6
<1>9. c.state \in {"AWAITING_PATH", "ESTABLISHING"} => Whole(c, <<>>)
  <2>1. <<>> \in Seq(Nat)
    OBVIOUS
  <2> QED BY <1>1, <1>3, <2>1 DEF Alone, Written
<1>10. Alone(c) /\ c.used /\ c.tag = d.tag /\ c.link = d.link /\ Has(c) = Has(d)
  BY <1>1, <1>7, <1>8, <1>9, WrittenAlone
<1>11. Blocked(d) => Blocked(c)
  <2> SUFFICES ASSUME NEW i \in DOMAIN d.outbox, d.outbox[i].oversize PROVE Blocked(c)
    BY DEF Blocked
  <2>1. i \in DOMAIN box /\ box[i] = d.outbox[i]
    BY <1>4, <1>5
  <2> QED BY <1>1, <2>1 DEF Blocked
<1>12. ASSUME NEW k, Linked(d, k), LinkKept(k) PROVE Linked(c, k)
  BY <1>1, <1>3, <1>11, <1>12, WrittenOn
<1> QED BY <1>6, <1>10, <1>12 DEF c

LongerLink(k, x) == [k EXCEPT !.sent = Append(k.sent, x)]

LEMMA SentFields ==
  ASSUME NEW d, Alone(d), d.state = "ACTIVE", d.outbox = <<>>, NEW k, Linked(d, k), LinkKept(k)
  PROVE  LET c == HandedSlot(d)
             e == LongerLink(k, d.handed + 1)
         IN  /\ Alone(c) /\ c.used /\ c.tag = d.tag /\ c.link = d.link /\ Has(c) = Has(d)
             /\ c.handed = d.handed + 1 /\ Linked(c, e) /\ LinkKept(e)
<1> DEFINE c == HandedSlot(d)
           h == d.handed + 1
           e == LongerLink(k, h)
           z == Append(k.sent, h)
<1>0. [number |-> 0, oversize |-> FALSE] \in Entry
  BY DEF Entry
<1>1. c \in Slot /\ Written(c, d) /\ c.outbox = <<>> /\ c.refused = d.refused
  BY <1>0, WrittenIs
<1>2. /\ d \in Slot /\ d.used /\ d.handed \in Nat /\ k \in LinkRecord /\ k.sent \in Seq(Nat)
      /\ Up(k) /\ Whole(d, k.sent) /\ d.refused \subseteq 1 .. d.handed
  BY ActiveIs DEF Counted, Up
<1>3. h \in Nat /\ z \in Seq(Nat)
  BY <1>2
<1>4. e \in LinkRecord /\ e.sent = z /\ e.status = k.status /\ e.carries = k.carries
      /\ e.proved = k.proved /\ e.settled = k.settled
  <2>1. e = [k EXCEPT !.sent = z]
    BY DEF LongerLink
  <2> HIDE DEF z
  <2> QED BY <1>2, <1>3, <2>1 DEF LinkRecord
<1>5. Whole(c, z)
  BY <1>2, SentWhole
<1>6. ToSet(k.sent) \subseteq ToSet(z)
  <2>1. /\ DOMAIN z = 1 .. Len(k.sent) + 1 /\ \A i \in 1 .. Len(k.sent) : z[i] = k.sent[i]
    BY <1>2, <1>3, Appended
  <2>2. DOMAIN k.sent = 1 .. Len(k.sent) /\ Len(k.sent) \in Nat
    BY <1>2
  <2> HIDE DEF z
  <2>3. ASSUME NEW i \in DOMAIN k.sent PROVE i \in DOMAIN z /\ z[i] = k.sent[i]
    BY <2>1, <2>2
  <2> QED BY <2>3 DEF ToSet
<1> HIDE DEF c, e, z, h
<1>7. c.handed = d.handed + 1
  BY <1>1 DEF Written
<1>8. Boxed(c)
  <2>1. Len(<<>>) = 0 /\ DOMAIN <<>> = {} /\ RNSD_CHAN_MAX_OUTBOX \in Nat
    BY BridgeAssumption
  <2>2. 0 <= RNSD_CHAN_MAX_OUTBOX
    BY <2>1
  <2> QED BY <1>1, <2>1, <2>2 DEF Boxed
<1>9. c.refused \subseteq 1 .. c.handed
  BY <1>1, <1>2, <1>7
<1>10. c.state = "ACTIVE"
  BY <1>1 DEF Written
<1>11. Alone(c) /\ c.used /\ c.tag = d.tag /\ c.link = d.link /\ Has(c) = Has(d)
  BY <1>1, <1>2, <1>8, <1>9, <1>10, WrittenAlone
<1>12. LinkKept(e)
  BY <1>4, <1>6 DEF LinkKept
<1>13. Linked(c, e)
  <2>1. Blocked(d) => Blocked(c)
    BY <1>1 DEF Blocked
  <2> QED BY <1>1, <1>2, <1>4, <1>5, <2>1, WrittenLinked
<1> QED BY <1>7, <1>11, <1>12, <1>13 DEF c, e, h

(* The state a message is received into.                                   *)
Hands(n, s) == chanTouch([n EXCEPT !.slot[s].handed = n.slot[s].handed + 1], s)

LEMMA HandsIs ==
  ASSUME NEW n, Core(n), NEW s \in Used(n)
  PROVE  Parts(Hands(n, s), [n.slot EXCEPT ![s] = HandedSlot(n.slot[s])], n.link,
               Append(Without(n.idle, s), s), n.tree, n.told)
<1> DEFINE c == HandedSlot(n.slot[s])
           a == [n EXCEPT !.slot[s] = c]
           q == Append(Without(n.idle, s), s)
           t == [n.slot EXCEPT ![s] = c]
<1>1. Shaped(n)
  BY DEF Core
<1>2. [n EXCEPT !.slot[s].handed = n.slot[s].handed + 1] = a
  BY DEF HandedSlot
<1>3. Hands(n, s) = chanTouch(a, s)
  BY <1>2 DEF Hands
<1> HIDE DEF c
<1>4. Parts(a, t, n.link, n.idle, n.tree, n.told)
  BY <1>1, SlotSetTo
<1>5. a.idle = n.idle
  BY <1>4 DEF Parts
<1> HIDE DEF a
<1>6. chanTouch(a, s) = [a EXCEPT !.idle = q]
  BY <1>5 DEF chanTouch
<1> HIDE DEF q, t
<1>7. Parts([a EXCEPT !.idle = q], t, n.link, q, n.tree, n.told)
  BY <1>4, PartSet
<1> QED BY <1>3, <1>6, <1>7 DEF q, t, c

LEMMA HandsOne ==
  ASSUME NEW n, Core(n), NEW s \in Used(n), NEW m, NEW c, NEW q,
         q = Append(Without(n.idle, s), s),
         Parts(m, [n.slot EXCEPT ![s] = c], n.link, q, n.tree, n.told),
         Alone(c), c.used, c.tag = n.slot[s].tag, c.link = n.slot[s].link, Has(c) = Has(n.slot[s]),
         \A k : Linked(n.slot[s], k) /\ LinkKept(k) => Linked(c, k)
  PROVE  Core(m) /\ Only(n, m, s, c)
<1> DEFINE d == n.slot[s]
<1>1. d.link # NoLink => Linked(d, n.link[d.link]) /\ LinkKept(n.link[d.link])
  BY InUse
<1>2. SlotSet(n, m, s, c, q, n.told) /\ Fits(n, s, c)
  BY DEF SlotSet, Fits, InTurn
<1>3. c.link # NoLink => Linked(c, n.link[c.link])
  BY <1>1
<1>4. Kept(n, m, s, c) /\ Backed(n, m, c, NewLink) /\ m.told = n.told
  BY <1>2, <1>3, SlotKept
<1> QED BY <1>4, Stays

Refusing(n, s) ==
  [Hands(n, s) EXCEPT !.slot[s].refused = @ \cup {Hands(n, s).slot[s].handed}]
Buffering(n, s, oversize) ==
  [Hands(n, s) EXCEPT !.slot[s].outbox =
     Append(@, [number |-> Hands(n, s).slot[s].handed, oversize |-> oversize])]

LEMMA HandedIs ==
  ASSUME NEW n, Core(n), NEW s \in Used(n)
  PROVE  /\ Hands(n, s).slot[s] = HandedSlot(n.slot[s])
         /\ Hands(n, s).slot[s].handed = n.slot[s].handed + 1
         /\ Hands(n, s).slot[s].outbox = n.slot[s].outbox
         /\ Hands(n, s).slot[s].refused = n.slot[s].refused
         /\ Hands(n, s).slot[s].link = n.slot[s].link
         /\ n.slot[s].handed \in Nat
         /\ Attached(Hands(n, s), s) = Attached(n, s)
         /\ Hands(n, s).link = n.link
<1> DEFINE d == n.slot[s]
           c == HandedSlot(d)
           b == Hands(n, s)
<1>1. s \in Slots /\ Shaped(n) /\ Alone(d) /\ d \in Slot /\ d.handed \in Nat
  BY InUse DEF Slot
<1>2. b.slot = [n.slot EXCEPT ![s] = c] /\ b.link = n.link
  BY HandsIs DEF Parts
<1> HIDE DEF c, b
<1>3. b.slot[s] = c
  BY <1>1, <1>2 DEF Shaped
<1>4. /\ Written(c, d) /\ c.outbox = d.outbox /\ c.refused = d.refused
  <2>1. [number |-> 0, oversize |-> FALSE] \in Entry
    BY DEF Entry
  <2> QED BY <1>1, <2>1, WrittenIs DEF c
<1>5. c.handed = d.handed + 1 /\ c.link = d.link
  BY <1>4 DEF Written
<1>6. Attached(b, s) = Attached(n, s)
  <2>1. b.slot[s].used = d.used /\ b.slot[s].state = d.state /\ b.slot[s].channel = d.channel
    BY <1>3, <1>4 DEF Written
  <2> QED BY <2>1 DEF Attached
<1> QED BY <1>1, <1>2, <1>3, <1>4, <1>5, <1>6 DEF b, c

LEMMA RefusingKeeps ==
  ASSUME NEW n, Core(n), NEW s \in Used(n)
  PROVE  Core(Refusing(n, s)) /\ Only(n, Refusing(n, s), s, RefusedSlot(n.slot[s]))
<1> DEFINE d == n.slot[s]
           b == Hands(n, s)
           m == Refusing(n, s)
           c == RefusedSlot(d)
           a == [n.slot EXCEPT ![s] = c]
           q == Append(Without(n.idle, s), s)
<1>1. s \in Slots /\ Shaped(n) /\ Alone(d) /\ d.used
  BY InUse
<1>2. b.slot[s] = HandedSlot(d) /\ b.slot[s].handed = d.handed + 1 /\ b.slot[s].refused = d.refused
  BY HandedIs
<1>3. m = [b EXCEPT !.slot[s] = c]
  <2>1. m = [b EXCEPT !.slot[s] = [b.slot[s] EXCEPT !.refused = b.slot[s].refused \cup {b.slot[s].handed}]]
    BY DEF Refusing
  <2>2. [b.slot[s] EXCEPT !.refused = b.slot[s].refused \cup {b.slot[s].handed}] = c
    <3> HIDE DEF b
    <3> QED BY <1>2 DEF RefusedSlot, HandedSlot
  <2> QED BY <2>1, <2>2
<1>4. Parts(b, [n.slot EXCEPT ![s] = HandedSlot(d)], n.link, q, n.tree, n.told)
  BY HandsIs
<1> HIDE DEF b, m, c, q
<1>5. Parts(m, a, n.link, q, n.tree, n.told)
  <2> DEFINE x == [n.slot EXCEPT ![s] = HandedSlot(d)]
  <2>1. [x EXCEPT ![s] = c] = a
    BY <1>1, SlotSetIs
  <2>2. Parts(b, x, n.link, q, n.tree, n.told)
    BY <1>4
  <2> HIDE DEF x, a
  <2>3. Parts([b EXCEPT !.slot[s] = c], [x EXCEPT ![s] = c], n.link, q, n.tree, n.told)
    BY <2>2, PartSet
  <2> QED BY <1>3, <2>1, <2>3
<1>6. /\ Alone(c) /\ c.used /\ c.tag = d.tag /\ c.link = d.link /\ Has(c) = Has(d)
      /\ \A k : Linked(d, k) /\ LinkKept(k) => Linked(c, k)
  BY <1>1, RefusedFields DEF c
<1>7. q = Append(Without(n.idle, s), s)
  BY DEF q
<1>8. Core(m) /\ Only(n, m, s, c)
  BY <1>5, <1>6, <1>7, HandsOne
<1> QED BY <1>8 DEF m, c

LEMMA BufferingKeeps ==
  ASSUME NEW n, Core(n), NEW s \in Used(n), NEW big \in BOOLEAN,
         Len(n.slot[s].outbox) < RNSD_CHAN_MAX_OUTBOX
  PROVE  LET x == [number |-> n.slot[s].handed + 1, oversize |-> big]
         IN  /\ Core(Buffering(n, s, big)) /\ x \in Entry /\ x.number = n.slot[s].handed + 1
             /\ Only(n, Buffering(n, s, big), s, BufferedSlot(n.slot[s], x))
<1> DEFINE d == n.slot[s]
           b == Hands(n, s)
           x == [number |-> d.handed + 1, oversize |-> big]
           m == Buffering(n, s, big)
           c == BufferedSlot(d, x)
           a == [n.slot EXCEPT ![s] = c]
           q == Append(Without(n.idle, s), s)
<1>1. s \in Slots /\ Shaped(n) /\ Alone(d) /\ d.used
  BY InUse
<1>2. b.slot[s] = HandedSlot(d) /\ b.slot[s].handed = d.handed + 1 /\ b.slot[s].outbox = d.outbox
      /\ d.handed \in Nat
  BY HandedIs
<1>x. x \in Entry /\ x.number = d.handed + 1
  BY <1>2 DEF Entry
<1>3. m = [b EXCEPT !.slot[s] = c]
  <2> DEFINE e == b.slot[s]
             y == [number |-> e.handed, oversize |-> big]
  <2>1. m = [b EXCEPT !.slot[s] = [e EXCEPT !.outbox = Append(e.outbox, y)]]
    BY DEF Buffering
  <2>2. y = x /\ e.outbox = d.outbox /\ e = HandedSlot(d)
    BY <1>2
  <2> HIDE DEF e, y, x
  <2>3. [e EXCEPT !.outbox = Append(e.outbox, y)] = c
    BY <2>2 DEF BufferedSlot, HandedSlot
  <2> QED BY <2>1, <2>3
<1>4. Parts(b, [n.slot EXCEPT ![s] = HandedSlot(d)], n.link, q, n.tree, n.told)
  BY HandsIs
<1> HIDE DEF b, m, c, q, x
<1>5. Parts(m, a, n.link, q, n.tree, n.told)
  <2> DEFINE z == [n.slot EXCEPT ![s] = HandedSlot(d)]
  <2>1. [z EXCEPT ![s] = c] = a
    BY <1>1, SlotSetIs
  <2>2. Parts(b, z, n.link, q, n.tree, n.told)
    BY <1>4
  <2> HIDE DEF z, a
  <2>3. Parts([b EXCEPT !.slot[s] = c], [z EXCEPT ![s] = c], n.link, q, n.tree, n.told)
    BY <2>2, PartSet
  <2> QED BY <1>3, <2>1, <2>3
<1>6. /\ Alone(c) /\ c.used /\ c.tag = d.tag /\ c.link = d.link /\ Has(c) = Has(d)
      /\ \A k : Linked(d, k) /\ LinkKept(k) => Linked(c, k)
  BY <1>1, <1>x, BufferedFields DEF c
<1>7. q = Append(Without(n.idle, s), s)
  BY DEF q
<1>8. Core(m) /\ Only(n, m, s, c)
  BY <1>5, <1>6, <1>7, HandsOne
<1> QED BY <1>x, <1>8 DEF m, c, x

Sending(n, s) ==
  LET b == Hands(n, s) IN [b EXCEPT !.link[b.slot[s].link].sent = Append(@, b.slot[s].handed)]

LEMMA SendingKeeps ==
  ASSUME NEW n, Core(n), NEW s \in Used(n), n.slot[s].state = "ACTIVE", n.slot[s].outbox = <<>>
  PROVE  Core(Sending(n, s)) /\ Only(n, Sending(n, s), s, HandedSlot(n.slot[s]))
<1> DEFINE d == n.slot[s]
           l == d.link
           k == n.link[l]
           b == Hands(n, s)
           m == Sending(n, s)
           c == HandedSlot(d)
           e == LongerLink(k, d.handed + 1)
           q == Append(Without(n.idle, s), s)
<1>1. /\ s \in Slots /\ Shaped(n) /\ Alone(d) /\ d.used
      /\ l # NoLink => l \in Links /\ Linked(d, k) /\ LinkKept(k)
  BY InUse
<1>2. l # NoLink /\ Linked(d, k) /\ LinkKept(k)
  BY <1>1 DEF Alone
<1>3. b.slot[s].handed = d.handed + 1 /\ b.slot[s].link = l /\ b.link = n.link
  BY HandedIs
<1>4. m = [b EXCEPT !.link[l] = e]
  <2>1. m = [b EXCEPT !.link[b.slot[s].link].sent = Append(@, b.slot[s].handed)]
    BY DEF Sending
  <2> HIDE DEF b, m
  <2>2. m = [b EXCEPT !.link[l].sent = Append(@, d.handed + 1)]
    BY <1>3, <2>1
  <2>3. m = [b EXCEPT !.link[l] = [b.link[l] EXCEPT !.sent = Append(b.link[l].sent, d.handed + 1)]]
    BY <2>2
  <2> QED BY <1>3, <2>3 DEF LongerLink
<1>5. Parts(b, [n.slot EXCEPT ![s] = c], n.link, q, n.tree, n.told)
  BY HandsIs
<1>6. /\ Alone(c) /\ c.used /\ c.tag = d.tag /\ c.link = d.link /\ Has(c) = Has(d)
      /\ Linked(c, e) /\ LinkKept(e)
  BY <1>1, <1>2, SentFields
<1> DEFINE a == [n.slot EXCEPT ![s] = c]
<1> HIDE DEF b, m, c, e, q
<1>7. Parts(m, a, [n.link EXCEPT ![l] = e], q, n.tree, n.told)
  <2> HIDE DEF a
  <2>1. Parts(b, a, n.link, q, n.tree, n.told)
    BY <1>5 DEF a
  <2> QED BY <1>4, <2>1, PartSet
<1>8. SlotAndLinkSet(n, m, s, c, e, q, n.told) /\ Fits(n, s, c)
  BY <1>2, <1>6, <1>7 DEF SlotAndLinkSet, Fits, InTurn, q
<1>9. Kept(n, m, s, c) /\ Backed(n, m, c, e) /\ m.told = n.told
  BY <1>6, <1>8, BothKept
<1>10. Core(m) /\ Only(n, m, s, c)
  BY <1>6, <1>9, Stays
<1> QED BY <1>10 DEF m, c

LEMMA Receives ==
  ASSUME Core(rnsd), NEW s \in Slots, NEW big \in BOOLEAN, NEW w \in Windows,
         onChannelRecv(s, big, w)
  PROVE  /\ s \in Used(rnsd) /\ Core(rnsd')
         /\ \E c : Only(rnsd, rnsd', s, c) /\ c.handed = rnsd.slot[s].handed + 1
<1> DEFINE n == rnsd
           d == n.slot[s]
           b == Hands(n, s)
           x == [number |-> d.handed + 1, oversize |-> big]
<1>1. s \in Used(n)
  BY DEF onChannelRecv, Used
<1>2. Alone(d) /\ d.used
  BY <1>1, InUse
<1>3. \/ rnsd' = Refusing(n, s)
      \/ Buffers(b.slot[s].outbox) /\ rnsd' = Buffering(n, s, big)
      \/ Attached(b, s) /\ Goes(b.slot[s].outbox) /\ rnsd' = Sending(n, s)
  <2> DEFINE m == [number |-> b.slot[s].handed, oversize |-> big]
             refuse == [b EXCEPT !.slot[s].refused = @ \cup {m.number}]
             goes == chanSend(b, s, m)
             wait == [b EXCEPT !.slot[s].outbox = Append(@, m)]
  <2>1. rnsd' =
           CASE Attached(b, s) /\ big -> refuse
             [] Attached(b, s) /\ ~big /\ Goes(b.slot[s].outbox) /\ Room(b, s, w) > 0 -> goes
             [] OTHER -> IF Buffers(b.slot[s].outbox) THEN wait ELSE refuse
    BY DEF onChannelRecv, Hands
  <2>2. refuse = Refusing(n, s)
    BY DEF Refusing
  <2>3. goes = Sending(n, s)
    BY DEF Sending, chanSend
  <2>4. wait = Buffering(n, s, big)
    BY DEF Buffering
  <2> HIDE DEF b, m, refuse, goes, wait
  <2>5. CASE Attached(b, s) /\ big
    BY <2>1, <2>2, <2>5
  <2>6. CASE Attached(b, s) /\ ~big /\ Goes(b.slot[s].outbox) /\ Room(b, s, w) > 0
    BY <2>1, <2>3, <2>6
  <2>7. CASE /\ ~(Attached(b, s) /\ big)
             /\ ~(Attached(b, s) /\ ~big /\ Goes(b.slot[s].outbox) /\ Room(b, s, w) > 0)
    <3>1. rnsd' = IF Buffers(b.slot[s].outbox) THEN wait ELSE refuse
      BY <2>1, <2>7
    <3> QED BY <2>2, <2>4, <3>1
  <2> QED BY <2>5, <2>6, <2>7
<1>4. b.slot[s].outbox = d.outbox /\ Attached(b, s) = Attached(n, s)
  BY <1>1, HandedIs
<1> HIDE DEF b
<1>5. CASE rnsd' = Refusing(n, s)
  <2>1. RefusedSlot(d).handed = d.handed + 1
    BY <1>2, RefusedFields
  <2> QED BY <1>1, <1>5, <2>1, RefusingKeeps
<1>6. CASE Buffers(b.slot[s].outbox) /\ rnsd' = Buffering(n, s, big)
  <2>1. Len(d.outbox) < RNSD_CHAN_MAX_OUTBOX
    BY <1>4, <1>6 DEF Buffers
  <2>2. /\ Core(Buffering(n, s, big)) /\ x \in Entry /\ x.number = d.handed + 1
        /\ Only(n, Buffering(n, s, big), s, BufferedSlot(d, x))
    BY <1>1, <2>1, BufferingKeeps
  <2> HIDE DEF x
  <2>3. BufferedSlot(d, x).handed = d.handed + 1
    BY <1>2, <2>1, <2>2, BufferedFields
  <2> QED BY <1>1, <1>6, <2>2, <2>3
<1>7. CASE Attached(b, s) /\ Goes(b.slot[s].outbox) /\ rnsd' = Sending(n, s)
  <2>1. d.state = "ACTIVE" /\ d.outbox = <<>>
    BY <1>4, <1>7 DEF Attached, Goes
  <2>2. HandedSlot(d).handed = d.handed + 1
    BY <1>1, HandedIs
  <2> QED BY <1>1, <1>7, <2>1, <2>2, SendingKeeps
<1> QED BY <1>3, <1>5, <1>6, <1>7

-----------------------------------------------------------------------------
(* The invariant holds at first, and every action keeps it.                *)

LEMMA BridgeIInvInit == ASSUME BridgeInit PROVE BridgeIInv
<1> DEFINE n == rnsd
<1>1. /\ n = [slot |-> n.slot, link |-> n.link, idle |-> n.idle, tree |-> n.tree, told |-> n.told]
      /\ n.slot = [j \in Slots |-> Free] /\ n.link = [l \in Links |-> NewLink]
      /\ n.idle = <<>> /\ n.tree = {} /\ n.told = [r \in Resources |-> <<>>] /\ inputs = 0
  BY DEF BridgeInit
<1> HIDE DEF n
<1>2. (\A j \in Slots : n.slot[j] = Free) /\ (\A l \in Links : n.link[l] = NewLink)
      /\ (\A r \in Resources : n.told[r] = <<>>)
  BY <1>1
<1>3. Used(n) = {}
  BY <1>2, FreeSlot DEF Used
<1>4. Shaped(n)
  <2>1. n.slot \in [Slots -> Slot]
    BY <1>1, FreeIsAlone
  <2>2. n.link \in [Links -> LinkRecord]
    BY <1>1, NewLinkKept DEF LinkKept
  <2>3. n.told \in [Resources -> Seq(Words)]
    BY <1>1
  <2> QED BY <1>1, <2>1, <2>2, <2>3 DEF Shaped
<1>5. SlotsHeld(n)
  <2>1. Apart(Free, Free)
    BY FreeSlot DEF Apart
  <2> QED BY <1>2, <2>1, FreeIsAlone DEF SlotsHeld
<1>6. LinksHeld(n)
  <2>1. None \notin Links
    BY BridgeAssumption
  <2>2. \A j \in Slots : n.slot[j].link = NoLink /\ n.slot[j].tag \notin Links
    BY <1>2, <2>1, FreeSlot
  <2>3. \A l \in Links : LinkKept(n.link[l]) /\ Loose(n.link[l])
    BY <1>2, NewLinkKept DEF Loose
  <2> QED BY <2>2, <2>3 DEF LinksHeld
<1>7. TreesHeld(n) /\ Lists(n.idle, Used(n))
  <2>1. {n.slot[j].tag : j \in Used(n)} = {}
    BY <1>3
  <2>2. TreesHeld(n)
    BY <1>1, <2>1 DEF TreesHeld
  <2> QED BY <1>1, <1>3, <2>2, NoneListed
<1>8. WordsHeld(n)
  <2>1. \A j \in Slots : Has(n.slot[j]) = {}
    BY <1>2, FreeSlot
  <2> QED BY <1>2, <2>1 DEF WordsHeld
<1>9. HandedUpTo(n, inputs) /\ inputs \in 0 .. MaxInputs
  <2>1. \A j \in Slots : n.slot[j].handed = 0
    BY <1>2, FreeSlot
  <2> QED BY <1>1, <2>1, BridgeAssumption DEF HandedUpTo
<1>10. Core(n)
  BY <1>3, <1>4, <1>5, <1>6, <1>7, <1>8 DEF Core
<1> QED BY <1>9, <1>10 DEF BridgeIInv, n

(* An action that hands nothing over, with or without an input.            *)
LEMMA NoneHanded ==
  ASSUME BridgeIInv, Core(rnsd'), NoMore(rnsd, rnsd'), Input \/ UNCHANGED inputs
  PROVE  BridgeIInv'
<1>1. inputs \in Nat /\ inputs' \in 0 .. MaxInputs /\ inputs <= inputs' /\ inputs' \in Nat
  BY BridgeAssumption DEF BridgeIInv, Input
<1>2. HandedUpTo(rnsd', inputs')
  <2>1. ASSUME NEW j \in Slots PROVE rnsd'.slot[j].handed <= inputs'
    <3>1. rnsd.slot[j].handed \in Nat /\ rnsd'.slot[j].handed \in Nat
      BY SlotIs DEF BridgeIInv, Core, Slot
    <3>2. rnsd'.slot[j].handed <= rnsd.slot[j].handed /\ rnsd.slot[j].handed <= inputs
      BY DEF BridgeIInv, HandedUpTo, NoMore
    <3> QED BY <1>1, <3>1, <3>2
  <2> QED BY <2>1 DEF HandedUpTo
<1> QED BY <1>1, <1>2 DEF BridgeIInv

LEMMA OneHanded ==
  ASSUME BridgeIInv, NEW s \in Slots, NEW big \in BOOLEAN, NEW w \in Windows,
         onChannelRecv(s, big, w)
  PROVE  BridgeIInv'
<1>1. Core(rnsd) /\ Input
  BY DEF BridgeIInv, onChannelRecv
<1>2. inputs \in Nat /\ inputs' \in 0 .. MaxInputs /\ inputs' = inputs + 1
  BY <1>1, BridgeAssumption DEF BridgeIInv, Input
<1>3. Core(rnsd')
  BY <1>1, Receives
<1>4. PICK c : Only(rnsd, rnsd', s, c) /\ c.handed = rnsd.slot[s].handed + 1
  BY <1>1, Receives
<1>5. HandedUpTo(rnsd', inputs')
  <2>1. ASSUME NEW j \in Slots PROVE rnsd'.slot[j].handed <= inputs'
    <3>1. rnsd.slot[j].handed \in Nat /\ rnsd.slot[j].handed <= inputs
      BY <1>1, SlotIs DEF Core, Slot, BridgeIInv, HandedUpTo
    <3>2. rnsd'.slot[j].handed = IF j = s THEN rnsd.slot[j].handed + 1 ELSE rnsd.slot[j].handed
      BY <1>4 DEF Only
    <3> QED BY <1>2, <3>1, <3>2
  <2> QED BY <2>1 DEF HandedUpTo
<1> QED BY <1>2, <1>3, <1>5 DEF BridgeIInv

LEMMA BridgeIStep == ASSUME BridgeIInv, [BridgeNext]_bridgeVars PROVE BridgeIInv'
<1>1. Core(rnsd)
  BY DEF BridgeIInv
<1>2. ASSUME NEW tag \in Tags, onChannelConnect(tag) PROVE BridgeIInv'
  <2>1. Input
    BY <1>2 DEF onChannelConnect
  <2> QED BY <1>1, <1>2, <2>1, ConnectKeeps, NoneHanded
<1>3. ASSUME NEW s \in Slots, onChannelDisconnect(s) PROVE BridgeIInv'
  <2>1. Input
    BY <1>3 DEF onChannelDisconnect
  <2> QED BY <1>1, <1>3, <2>1, DisconnectKeeps, NoneHanded
<1>4. ASSUME NEW s \in Slots, NEW r \in Outbound, onChannelAux(s, r) PROVE BridgeIInv'
  <2>1. Input
    BY <1>4 DEF onChannelAux
  <2> QED BY <1>1, <1>4, <2>1, AuxKeeps, NoneHanded
<1>5. ASSUME NEW l \in Links, onIncomingChannelEstablished(l) PROVE BridgeIInv'
  <2>1. Input
    BY <1>5 DEF onIncomingChannelEstablished
  <2> QED BY <1>1, <1>5, <2>1, IncomingKeeps, NoneHanded
<1>6. ASSUME NEW s \in Slots, NEW w \in Windows, onChanLinkEstablishedCb(s, w) PROVE BridgeIInv'
  <2>1. UNCHANGED inputs
    BY <1>6 DEF onChanLinkEstablishedCb
  <2> QED BY <1>1, <1>6, <2>1, EstablishedKeeps, NoneHanded
<1>7. ASSUME NEW s \in Slots, onChannelMsgCb(s) PROVE BridgeIInv'
  <2>1. Input
    BY <1>7 DEF onChannelMsgCb
  <2> QED BY <1>1, <1>7, <2>1, HeardKeeps, NoneHanded
<1>8. ASSUME NEW s \in Slots, NEW r \in Inbound, resourceAdvertised(s, r) PROVE BridgeIInv'
  <2>1. Input
    BY <1>8 DEF resourceAdvertised
  <2> QED BY <1>1, <1>8, <2>1, AdvertisedKeeps, NoneHanded
<1>9. ASSUME NEW l \in Links, NEW word \in Words, resourceConcluded(l, word) PROVE BridgeIInv'
  <2>1. UNCHANGED inputs
    BY <1>9 DEF resourceConcluded
  <2> QED BY <1>1, <1>9, <2>1, ConcludedKeeps, NoneHanded
<1>10. ASSUME NEW l \in Links, Proves(l) PROVE BridgeIInv'
  <2>1. UNCHANGED inputs
    BY <1>10 DEF Proves
  <2> QED BY <1>1, <1>10, <2>1, ProvesKeeps, NoneHanded
<1>11. ASSUME NEW l \in Links, linkEnds(l) PROVE BridgeIInv'
  <2>1. Input
    BY <1>11 DEF linkEnds
  <2> QED BY <1>1, <1>11, <2>1, EndsKeeps, NoneHanded
<1>12. ASSUME NEW l \in Links, goesStale(l) PROVE BridgeIInv'
  <2>1. Input
    BY <1>12 DEF goesStale
  <2> QED BY <1>1, <1>12, <2>1, StaleKeeps, NoneHanded
<1>13. ASSUME NEW l \in Links, graceEnds(l) PROVE BridgeIInv'
  <2>1. UNCHANGED inputs
    BY <1>13 DEF graceEnds
  <2> QED BY <1>1, <1>13, <2>1, GraceKeeps, NoneHanded
<1>14. ASSUME NEW l \in Links, keepaliveHeard(l) PROVE BridgeIInv'
  <2>1. UNCHANGED inputs
    BY <1>14 DEF keepaliveHeard
  <2> QED BY <1>1, <1>14, <2>1, KeepaliveKeeps, NoneHanded
<1>15. ASSUME NEW s \in Slots, Loop(s) PROVE BridgeIInv'
  <2>1. ASSUME NEW w \in Windows, channelPollAll(s, w) PROVE BridgeIInv'
    <3>1. UNCHANGED inputs
      BY <2>1 DEF channelPollAll
    <3> QED BY <1>1, <2>1, <3>1, Polls, NoneHanded
  <2>2. ASSUME channelTick(s) PROVE BridgeIInv'
    <3>1. UNCHANGED inputs
      BY <2>2 DEF channelTick
    <3> QED BY <1>1, <2>2, <3>1, Ticks, NoneHanded
  <2> QED BY <1>15, <2>1, <2>2 DEF Loop
<1>16. CASE Consumer
  BY <1>2, <1>3, <1>4, <1>16, OneHanded DEF Consumer
<1>17. CASE BridgeNetwork
  BY <1>5, <1>6, <1>7, <1>8, <1>9, <1>10, <1>11, <1>17, <1>12, <1>13, <1>14 DEF BridgeNetwork
<1>18. CASE UNCHANGED bridgeVars
  <2>1. rnsd' = rnsd /\ inputs' = inputs
    BY <1>18 DEF bridgeVars
  <2>2. Shaped(rnsd)
    BY <1>1 DEF Core
  <2>3. NoMore(rnsd, rnsd)
    BY <2>2, NoMoreSame
  <2> QED BY <1>1, <2>1, <2>3, NoneHanded
<1> QED BY <1>15, <1>16, <1>17, <1>18 DEF BridgeNext

(* What a slot is, what its stream is, and that its Resource is the one    *)
(* its Link carries, holds of the whole table as long as the task runs,    *)
(* whatever evicts, closes or fails a channel (rnsd.cpp:7641-8300).        *)
THEOREM BridgeInvariance == BridgeSpec => []BridgeIInv
<1>1. BridgeInit => BridgeIInv
  BY BridgeIInvInit
<1>2. BridgeIInv /\ [BridgeNext]_bridgeVars => BridgeIInv'
  BY BridgeIStep
<1> QED BY <1>1, <1>2, PTL DEF BridgeSpec

-----------------------------------------------------------------------------
(* What the invariant says of each property.                               *)

LEMMA BoxIsTyped ==
  ASSUME NEW c, Alone(c), c.handed <= MaxInputs
  PROVE  c.outbox \in Seq([number : 1 .. MaxInputs, oversize : BOOLEAN])
<1>1. c.outbox \in Seq(Entry) /\ c.handed \in Nat /\ MaxInputs \in Nat
  BY BridgeAssumption DEF Alone, Slot
<1>2. DOMAIN c.outbox = 1 .. Len(c.outbox) /\ Len(c.outbox) \in Nat
      /\ c.outbox = [i \in 1 .. Len(c.outbox) |-> c.outbox[i]]
  BY <1>1
<1>3. ASSUME NEW i \in 1 .. Len(c.outbox)
      PROVE  c.outbox[i] \in [number : 1 .. MaxInputs, oversize : BOOLEAN]
  <2>1. c.outbox[i] \in Entry
    BY <1>1, <1>2, <1>3
  <2>2. c.outbox[i].number \in 1 .. c.handed
    BY <1>2, <1>3 DEF Alone, Boxed
  <2>3. c.outbox[i].number \in 1 .. MaxInputs
    BY <1>1, <2>2
  <2> QED BY <2>1, <2>3 DEF Entry
<1> DEFINE S == [number : 1 .. MaxInputs, oversize : BOOLEAN]
           q == c.outbox
<1>4. q = [i \in 1 .. Len(q) |-> q[i]] /\ Len(q) \in Nat /\ \A i \in 1 .. Len(q) : q[i] \in S
  BY <1>2, <1>3
<1> HIDE DEF q, S
<1>5. q \in [1 .. Len(q) -> S]
  BY <1>4
<1>6. q \in Seq(S)
  BY <1>4, <1>5
<1> QED BY <1>6 DEF q, S

LEMMA SlotIsTyped ==
  ASSUME NEW c, Alone(c), c.handed <= MaxInputs
  PROVE  /\ c \in [used : BOOLEAN, tag : Tags \cup Links \cup {None}, handle : BOOLEAN,
                   state : States, link : Links \cup {NoLink}, channel : BOOLEAN,
                   outbox : Seq([number : 1 .. MaxInputs, oversize : BOOLEAN]),
                   outstanding : {Unpublished} \cup 0 .. MaxInputs,
                   pend : Outbound \cup {None}, res : Resources \cup {None}, dead : BOOLEAN,
                   handed : 0 .. MaxInputs, refused : SUBSET (1 .. MaxInputs),
                   covered : 0 .. MaxInputs, heard : BOOLEAN]
         /\ Len(c.outbox) <= RNSD_CHAN_MAX_OUTBOX
<1>1. c \in Slot /\ Boxed(c) /\ Counted(c) /\ MaxInputs \in Nat
  BY BridgeAssumption DEF Alone
<1>2. /\ c.handed \in Nat /\ c.covered \in Nat /\ c.outstanding \in {Unpublished} \cup Nat
      /\ c.refused \in SUBSET Nat
  BY <1>1 DEF Slot
<1>3. c.handed \in 0 .. MaxInputs /\ c.covered \in 0 .. MaxInputs
  BY <1>1, <1>2 DEF Counted
<1>4. c.outstanding \in {Unpublished} \cup 0 .. MaxInputs
  BY <1>1, <1>2 DEF Counted, Unpublished
<1>5. c.refused \in SUBSET (1 .. MaxInputs)
  BY <1>1, <1>2 DEF Counted
<1>6. c.outbox \in Seq([number : 1 .. MaxInputs, oversize : BOOLEAN])
  BY BoxIsTyped
<1> QED BY <1>1, <1>3, <1>4, <1>5, <1>6 DEF Slot, Boxed

LEMMA InvariantTyped == ASSUME BridgeIInv PROVE BridgeTypeOK
<1>1. Core(rnsd) /\ Shaped(rnsd) /\ inputs \in 0 .. MaxInputs /\ MaxInputs \in Nat
  BY BridgeAssumption DEF BridgeIInv, Core
<1>2. ASSUME NEW j \in Slots PROVE Alone(rnsd.slot[j]) /\ rnsd.slot[j].handed <= MaxInputs
  <2>1. Alone(rnsd.slot[j]) /\ rnsd.slot[j].handed \in Nat
    BY <1>1, SlotIs DEF Core, SlotsHeld, Slot
  <2>2. rnsd.slot[j].handed <= inputs
    BY DEF BridgeIInv, HandedUpTo
  <2> QED BY <1>1, <2>1, <2>2
<1>3. \A l \in Links : LinkKept(rnsd.link[l])
  BY <1>1 DEF Core, LinksHeld
<1>4. ToSet(rnsd.idle) = Used(rnsd) /\ Len(rnsd.idle) = Cardinality(Used(rnsd))
  BY <1>1, ListLength DEF Core
<1> QED BY <1>2, <1>3, <1>4, SlotIsTyped DEF BridgeTypeOK, LinkKept, LinkRecord

LEMMA InvariantWhole == ASSUME BridgeIInv PROVE StreamIsWhole
<1>1. Core(rnsd)
  BY DEF BridgeIInv
<1>2. ASSUME NEW j \in Slots, Live(j) PROVE Whole(rnsd.slot[j], Accepted(j))
  <2> DEFINE c == rnsd.slot[j]
  <2>1. Alone(c)
    BY <1>1 DEF Core, SlotsHeld
  <2>2. CASE c.link = NoLink
    <3>1. c.state = "AWAITING_PATH" /\ Accepted(j) = <<>>
      BY <1>2, <2>1, <2>2 DEF Live, Alone, Accepted
    <3> QED BY <2>1, <3>1 DEF Alone
  <2>3. CASE c.link # NoLink
    <3>1. Accepted(j) = rnsd.link[c.link].sent
      BY <2>3 DEF Accepted, Sent
    <3>2. Linked(c, rnsd.link[c.link])
      BY <1>1, <2>3 DEF Core, LinksHeld
    <3>3. CASE c.state = "ESTABLISHING"
      <4>1. rnsd.link[c.link].sent = <<>>
        BY <3>2, <3>3 DEF Linked, NewLink
      <4> QED BY <2>1, <3>1, <3>3, <4>1 DEF Alone
    <3>4. CASE c.state = "ACTIVE"
      BY <3>1, <3>2, <3>4 DEF Linked
    <3> QED BY <2>1, <2>3, <3>3, <3>4 DEF Alone
  <2> QED BY <2>2, <2>3
<1> QED BY <1>2 DEF StreamIsWhole, Stream, Whole, StreamOf

LEMMA InvariantReceipt == ASSUME BridgeIInv PROVE ReceiptUnlessHeldUp
<1>1. Core(rnsd)
  BY DEF BridgeIInv
<1>2. ASSUME NEW j \in Slots, ReadsZero(j), ~HeldUp(j) PROVE Receipt(j)
  <2> DEFINE c == rnsd.slot[j]
  <2>1. c.state = "ACTIVE" /\ c.channel /\ c.outstanding = 0
    BY <1>2 DEF ReadsZero, Attached
  <2>2. c.link # NoLink
    BY <1>1, <2>1 DEF Core, SlotsHeld, Alone
  <2>3. Linked(c, rnsd.link[c.link])
    BY <1>1, <2>2 DEF Core, LinksHeld
  <2>4. Receipted(c, rnsd.link[c.link])
    BY <2>1, <2>3 DEF Linked
  <2> QED BY <1>2, <2>1, <2>4 DEF Receipted, Receipt, HeldUp, Stuck, Blocked, Reached
<1> QED BY <1>2 DEF ReceiptUnlessHeldUp

LEMMA InvariantLeavesNothing == ASSUME BridgeIInv PROVE NothingLeftBehind
<1>1. Core(rnsd)
  BY DEF BridgeIInv
<1>2. rnsd.tree = {rnsd.slot[j].tag : j \in Used(rnsd)}
  BY <1>1 DEF Core, TreesHeld
<1>3. ASSUME NEW l \in Links, rnsd.link[l].status \in {"PENDING", "ACTIVE", "STALE"}
      PROVE  \E j \in Slots : rnsd.slot[j].link = l
  <2>1. ~Loose(rnsd.link[l])
    BY <1>3, NewLinkKept DEF Loose
  <2> QED BY <1>1, <2>1 DEF Core, LinksHeld
<1>4. ASSUME NEW j \in Slots, NEW r \in Resources, rnsd.slot[j].res = r
      PROVE  rnsd.slot[j].link # NoLink /\ r \in rnsd.link[rnsd.slot[j].link].carries
  <2>1. r # None
    BY BridgeAssumption
  <2>2. rnsd.slot[j].link # NoLink
    BY <1>1, <1>4, <2>1 DEF Core, SlotsHeld, Alone
  <2>3. rnsd.link[rnsd.slot[j].link].carries = {rnsd.slot[j].res} \ {None}
    BY <1>1, <2>2, Carried
  <2> QED BY <1>4, <2>1, <2>2, <2>3
<1>5. ASSUME NEW l \in Links, NEW r \in rnsd.link[l].carries
      PROVE  \E j \in Slots : rnsd.slot[j].link = l /\ rnsd.slot[j].res = r
  <2>1. ~Loose(rnsd.link[l])
    BY <1>5 DEF Loose, NewLink
  <2>2. PICK j \in Used(rnsd) : rnsd.slot[j].link = l /\ l # NoLink
    BY <1>1, <2>1, LinkOfSlot
  <2>3. j \in Slots
    BY <2>2 DEF Used
  <2>4. rnsd.link[l].carries = {rnsd.slot[j].res} \ {None}
    BY <1>1, <2>2, <2>3, Carried
  <2> QED BY <1>5, <2>2, <2>3, <2>4
<1>6. ASSUME NEW r \in Resources PROVE Len(rnsd.told[r]) <= 1
  <2>1. rnsd.told[r] \in {<<>>, <<"done">>, <<"failed">>}
    BY <1>1 DEF Core, WordsHeld
  <2>2. Len(<<>>) = 0 /\ Len(<<"done">>) = 1 /\ Len(<<"failed">>) = 1
    OBVIOUS
  <2>3. CASE rnsd.told[r] = <<>>
    BY <2>2, <2>3
  <2>4. CASE rnsd.told[r] = <<"done">>
    BY <2>2, <2>4
  <2>5. CASE rnsd.told[r] = <<"failed">>
    BY <2>2, <2>5
  <2> QED BY <2>1, <2>3, <2>4, <2>5
<1>7. ResourcesAreReported
  BY <1>4, <1>5, <1>6 DEF ResourcesAreReported
<1> QED BY <1>2, <1>3, <1>7 DEF NothingLeftBehind

(* Slots, links and the list of idle slots stay within their types; no     *)
(* outbox is ever longer than the queue onChannelRecv allows it.           *)
THEOREM BridgeTyped == BridgeSpec => []BridgeTypeOK
<1>1. BridgeIInv => BridgeTypeOK
  BY InvariantTyped
<1> QED BY <1>1, BridgeInvariance, PTL

(* What was handed to a channel's Channel and what its outbox holds are    *)
(* exactly the messages its consumer handed over and was not told of, in   *)
(* their order, whatever was buffered when (onChannelRecv,                 *)
(* chanFlushOutbox): for any number of slots, links and messages.          *)
THEOREM StreamStaysWhole == BridgeSpec => []StreamIsWhole
<1>1. BridgeIInv => StreamIsWhole
  BY InvariantWhole
<1> QED BY <1>1, BridgeInvariance, PTL

(* Where `outstanding' reads zero, no message in the outbox is too large   *)
(* and the Link was ACTIVE when the zero was published, the far end has    *)
(* proved all that was handed over by then (channelPollAll flushes before  *)
(* it publishes, and is_ready_to_send lets an empty ring take a message),  *)
(* however often the Link went STALE and came back before and after.       *)
THEOREM ZeroIsAReceipt == BridgeSpec => []ReceiptUnlessHeldUp
<1>1. BridgeIInv => ReceiptUnlessHeldUp
  BY InvariantReceipt
<1> QED BY <1>1, BridgeInvariance, PTL

(* Each slot in use has its tree and no other tree is left, no open Link   *)
(* is without its slot, and a Resource is reported once, however its       *)
(* channel was lost (chanFreeSlot, onChanLinkClosedCb, chanResConcluded).  *)
THEOREM NothingIsLeftBehind == BridgeSpec => []NothingLeftBehind
<1>1. BridgeIInv => NothingLeftBehind
  BY InvariantLeavesNothing
<1> QED BY <1>1, BridgeInvariance, PTL
=============================================================================
