------------------------ MODULE LinkHandshakeProofs ------------------------
(***************************************************************************)
(* Proofs about LinkHandshake, for a chain of any length, any timeouts,    *)
(* any number of repair slots and any number of mishaps of any kind.       *)
(***************************************************************************)
EXTENDS LinkHandshake, FiniteSetTheorems, WellFoundedInduction, TLAPS

-----------------------------------------------------------------------------
(***************************************************************************)
(* Type correctness.                                                       *)
(***************************************************************************)

LEMMA Constants ==
  /\ Hops \in Nat /\ Hops > 0 /\ PER_HOP \in Nat /\ AIRTIME \in Nat /\ KEEPALIVE \in Nat
  /\ MaxMishaps \in Nat /\ MaxData \in Nat /\ Mishaps \subseteq MishapKinds
  /\ Initiator \in Nodes /\ Destination \in Nodes /\ NoOne \in Nat
  /\ Nodes \subseteq Nat /\ Relays \subseteq Nodes /\ Slots \subseteq Nat
BY HandshakeAssumption DEF Initiator, Destination, Nodes, Relays, NoOne, Slots

(* A transmission makes well-formed copies of one packet.                  *)
LEMMA TransmitType ==
  ASSUME NEW n \in Nodes, NEW pkt \in Packet, NEW hops \in Nat, NEW via \in Nat
  PROVE  /\ Transmit(n, pkt, hops, via) \subseteq Frame
         /\ \A f \in Transmit(n, pkt, hops, via) : f.pkt = pkt
BY DEF Transmit, Frame

LEMMA TimeoutTypes ==
  /\ InitiatorBudget \in Nat /\ ResponderBudget \in Nat
  /\ \A h \in Nat : RepairWait(h) \in Nat
  /\ \A k \in Relays : ProofTimeout(k) \in Nat /\ Hops - k \in Nat
<1> USE Constants
<1>1. FirstHop \in Nat /\ InitiatorBudget \in Nat /\ ResponderBudget \in Nat
  BY DEF FirstHop, InitiatorBudget, ResponderBudget
<1>2. ASSUME NEW h \in Nat PROVE RepairWait(h) \in Nat
  <2>1. Larger(1, h) \in Nat /\ 2 * PER_HOP \in Nat
    BY DEF Larger
  <2>2. 2 * PER_HOP * Larger(1, h) \in Nat
    BY <2>1
  <2> QED BY <1>1, <2>2 DEF RepairWait, Larger
<1>3. ASSUME NEW k \in Relays PROVE ProofTimeout(k) \in Nat /\ Hops - k \in Nat
  <2>1. Hops - k \in Nat
    BY DEF Relays
  <2> QED BY <2>1 DEF ProofTimeout
<1> QED BY <1>1, <1>2, <1>3

LEMMA SlotTypes ==
  /\ NoRepair \in Repair
  /\ \A slots \in [Slots -> Repair], kind \in {"LINKREQUEST", "LINKPROOF"},
        key \in Nat, wait \in Nat : Keep(slots, kind, key, wait) \in [Slots -> Repair]
  /\ \A slots \in [Slots -> Repair], kind \in {"LINKREQUEST", "LINKPROOF"} :
        Answered(slots, kind) \in [Slots -> Repair]
<1>1. NoRepair \in Repair
  BY DEF NoRepair, Repair
<1>2. ASSUME NEW slots \in [Slots -> Repair], NEW kind \in {"LINKREQUEST", "LINKPROOF"},
             NEW key \in Nat, NEW wait \in Nat
      PROVE  Keep(slots, kind, key, wait) \in [Slots -> Repair]
  <2>1. [kind |-> kind, key |-> key, timer |-> wait, resent |-> FALSE] \in Repair
    BY DEF Repair
  <2> QED BY <2>1 DEF Keep
<1>3. ASSUME NEW slots \in [Slots -> Repair], NEW kind \in {"LINKREQUEST", "LINKPROOF"}
      PROVE  Answered(slots, kind) \in [Slots -> Repair]
  BY <1>1, <1>3 DEF Answered
<1> QED BY <1>1, <1>2, <1>3

LEMMA PacketTypes ==
  /\ Request \in Packet
  /\ \A key \in Nat : Proof(key) \in Packet
  /\ \A kind \in {"LRRTT", "DATA", "LINKCLOSE"}, key, id \in Nat : OverLink(kind, key, id) \in Packet
  /\ \A k \in Relays : NextHop(k) \in Nat
<1>1. \A k \in Relays : NextHop(k) \in Nat
  BY Constants DEF NextHop
<1> QED BY <1>1 DEF Request, Proof, OverLink, Packet, Kinds

(* The kinds of the parts of the state, as TypeOK has them.                *)
InitiatorLink == [status : {"NONE", "PENDING", "ACTIVE", "CLOSED"}, key : Nat, timer : Nat]
ResponderLink == [status : {"NONE", "HANDSHAKE", "ACTIVE", "CLOSED"}, key : Nat,
                  timer : Nat, proofTimer : Nat, repaired : BOOLEAN]
Budget  == [mishaps : 0 .. MaxMishaps, data : 0 .. MaxData]
History == [ups : Nat, responderUps : Nat, reaped : SUBSET Nodes,
            mishaps : SUBSET [kind : MishapKinds, packet : Kinds, hops : Nat],
            proofs : [Relays -> Nat]]

LEMMA TypeParts ==
  TypeOK <=> /\ initiator \in InitiatorLink /\ responder \in ResponderLink
             /\ entry \in [Relays -> Entry]
             /\ repairs \in [Relays -> [Slots -> Repair]]
             /\ seen \in [Nodes -> SUBSET Packet]
             /\ air \subseteq Frame /\ serial \in Nat
             /\ budget \in Budget /\ history \in History
BY DEF TypeOK, InitiatorLink, ResponderLink, Budget, History

LEMMA LinkFields ==
  /\ \A o \in InitiatorLink :
       /\ o.key \in Nat /\ o.timer \in Nat
       /\ \A s \in {"PENDING", "ACTIVE", "CLOSED"} : [o EXCEPT !.status = s] \in InitiatorLink
       /\ \A t \in Nat : [o EXCEPT !.timer = t] \in InitiatorLink
       /\ \A s \in {"PENDING", "ACTIVE", "CLOSED"} :
            \A t \in Nat : [o EXCEPT !.status = s, !.timer = t] \in InitiatorLink
  /\ \A o \in ResponderLink :
       /\ o.key \in Nat /\ o.timer \in Nat /\ o.proofTimer \in Nat
       /\ \A t \in Nat : [o EXCEPT !.proofTimer = t] \in ResponderLink
       /\ \A t, u \in Nat : [o EXCEPT !.timer = t, !.proofTimer = u] \in ResponderLink
       /\ \A t \in Nat : [o EXCEPT !.repaired = TRUE, !.proofTimer = t] \in ResponderLink
       /\ [o EXCEPT !.status = "ACTIVE", !.timer = 0, !.proofTimer = 0] \in ResponderLink
  /\ \A key \in Nat : /\ NoLink(key) \in ResponderLink
                      /\ [NoLink(key) EXCEPT !.status = "CLOSED"] \in ResponderLink
BY DEF InitiatorLink, ResponderLink, NoLink

LEMMA TableFields ==
  /\ NoEntry \in Entry
  /\ \A e \in Entry : /\ e.timer \in Nat
                      /\ \A t \in Nat : [e EXCEPT !.timer = t] \in Entry
                      /\ \A t \in Nat : [e EXCEPT !.there = TRUE, !.timer = t] \in Entry
                      /\ [e EXCEPT !.validated = TRUE, !.proofKept = TRUE, !.timer = 0] \in Entry
  /\ \A r \in Repair : /\ r.timer \in Nat /\ r.key \in Nat
                       /\ \A t \in Nat : [r EXCEPT !.timer = t] \in Repair
                       /\ \A t \in Nat : [r EXCEPT !.resent = TRUE, !.key = 0, !.timer = t] \in Repair
BY DEF NoEntry, Entry, Repair

LEMMA BoundFields ==
  /\ \A b \in Budget : /\ b.mishaps > 0 => [b EXCEPT !.mishaps = @ - 1] \in Budget
                       /\ b.data > 0 => [b EXCEPT !.data = @ - 1] \in Budget
  /\ \A h \in History :
       /\ [h EXCEPT !.ups = @ + 1] \in History
       /\ [h EXCEPT !.responderUps = @ + 1] \in History
       /\ [h EXCEPT !.responderUps = 0] \in History
       /\ \A n \in Nodes : [h EXCEPT !.reaped = @ \cup {n}] \in History
       /\ \A k \in Relays : [h EXCEPT !.proofs[k] = @ + 1] \in History
       /\ \A m \in [kind : MishapKinds, packet : Kinds, hops : Nat] :
            [h EXCEPT !.mishaps = @ \cup {m}] \in History
<1> USE Constants
<1>1. ASSUME NEW b \in Budget
      PROVE  /\ b.mishaps > 0 => [b EXCEPT !.mishaps = @ - 1] \in Budget
             /\ b.data > 0 => [b EXCEPT !.data = @ - 1] \in Budget
  <2>1. b.mishaps \in 0 .. MaxMishaps /\ b.data \in 0 .. MaxData
    BY <1>1 DEF Budget
  <2>2. /\ b.mishaps > 0 => b.mishaps - 1 \in 0 .. MaxMishaps
        /\ b.data > 0 => b.data - 1 \in 0 .. MaxData
    BY <2>1
  <2> QED BY <1>1, <2>2 DEF Budget
<1>2. ASSUME NEW h \in History
      PROVE  /\ [h EXCEPT !.ups = @ + 1] \in History
             /\ [h EXCEPT !.responderUps = @ + 1] \in History
             /\ [h EXCEPT !.responderUps = 0] \in History
  BY <1>2 DEF History
<1>3. ASSUME NEW h \in History, NEW n \in Nodes
      PROVE  [h EXCEPT !.reaped = @ \cup {n}] \in History
  BY <1>3 DEF History
<1>4. ASSUME NEW h \in History, NEW k \in Relays
      PROVE  [h EXCEPT !.proofs[k] = @ + 1] \in History
  <2>1. h.proofs \in [Relays -> Nat]
    BY <1>4 DEF History
  <2>2. [h.proofs EXCEPT ![k] = @ + 1] \in [Relays -> Nat]
    BY <2>1
  <2> QED BY <1>4, <2>2 DEF History
<1>5. ASSUME NEW h \in History, NEW m \in [kind : MishapKinds, packet : Kinds, hops : Nat]
      PROVE  [h EXCEPT !.mishaps = @ \cup {m}] \in History
  BY <1>5 DEF History
<1> QED BY <1>1, <1>2, <1>3, <1>4, <1>5

LEMMA FrameFields ==
  ASSUME TypeOK, NEW f \in air
  PROVE  /\ f.pkt \in Packet /\ f.pkt.key \in Nat /\ f.pkt.kind \in Kinds
         /\ f.hops \in Nat /\ Distance(f) \in Nat /\ f.to \in Nodes
         /\ [f EXCEPT !.age = @ + 1] \in Frame
BY DEF TypeOK, Frame, Packet, Distance

LEMMA SendOverType ==
  ASSUME TypeOK, NEW n \in Nodes, NEW kind \in {"LRRTT", "DATA", "LINKCLOSE"}, NEW key \in Nat,
         NEW heard, SendOver(n, kind, key, heard)
  PROVE  serial' \in Nat /\ seen' \in [Nodes -> SUBSET Packet] /\ air' \subseteq Frame
<1>1. serial \in Nat /\ serial + 1 \in Nat /\ seen \in [Nodes -> SUBSET Packet] /\ air \subseteq Frame
  BY DEF TypeOK
<1> DEFINE pkt == OverLink(kind, key, serial + 1)
<1>2. pkt \in Packet
  BY <1>1, PacketTypes
<1>3. NoOne \in Nat /\ 0 \in Nat
  BY Constants
<1>4. Transmit(n, pkt, 0, NoOne) \subseteq Frame
  BY <1>2, <1>3, TransmitType
<1>5. /\ serial' = serial + 1 /\ seen' = Remembering(n, pkt)
      /\ air' = (air \ heard) \cup Transmit(n, pkt, 0, NoOne)
  BY DEF SendOver
<1> HIDE DEF pkt
<1> QED BY <1>1, <1>2, <1>4, <1>5 DEF Remembering

LEMMA ResendType ==
  ASSUME NEW k \in Relays, NEW slot \in Repair
  PROVE  Resend(k, slot) \subseteq Frame
<1>1. k \in Nodes /\ k \in Nat /\ Hops - k \in Nat /\ NextHop(k) \in Nat /\ NoOne \in Nat
  BY Constants, TimeoutTypes, PacketTypes
<1>2. Request \in Packet /\ Proof(slot.key) \in Packet
  BY PacketTypes, TableFields
<1>3. /\ Transmit(k, Request, k, NextHop(k)) \subseteq Frame
      /\ Transmit(k, Proof(slot.key), Hops - k, NoOne) \subseteq Frame
  BY <1>1, <1>2, TransmitType
<1> QED BY <1>3 DEF Resend

LEMMA MishapType ==
  ASSUME TypeOK, NEW kind \in MishapKinds, NEW pkt \in Packet, NEW hops \in Nat,
         Mishap(kind, pkt, hops)
  PROVE  budget' \in Budget /\ history' \in History
<1>1. budget \in Budget /\ history \in History
  BY TypeParts
<1>2. pkt.kind \in Kinds
  BY DEF Packet
<1>3. [kind |-> kind, packet |-> pkt.kind, hops |-> hops]
        \in [kind : MishapKinds, packet : Kinds, hops : Nat]
  BY <1>2
<1>4. /\ budget.mishaps > 0
      /\ budget' = [budget EXCEPT !.mishaps = @ - 1]
      /\ history' = [history EXCEPT !.mishaps =
                       @ \cup {[kind |-> kind, packet |-> pkt.kind, hops |-> hops]}]
  BY DEF Mishap
<1> QED BY <1>1, <1>3, <1>4, BoundFields

LEMMA TypeStep == TypeOK /\ [Next]_vars => TypeOK'
<1> SUFFICES ASSUME TypeOK, [Next]_vars PROVE TypeOK'
  OBVIOUS
<1> DEFINE TypeOKNext ==
      /\ initiator' \in InitiatorLink /\ responder' \in ResponderLink
      /\ entry' \in [Relays -> Entry]
      /\ repairs' \in [Relays -> [Slots -> Repair]]
      /\ seen' \in [Nodes -> SUBSET Packet]
      /\ air' \subseteq Frame /\ serial' \in Nat
      /\ budget' \in Budget /\ history' \in History
<1>0. SUFFICES TypeOKNext
  BY TypeParts DEF TypeOK, InitiatorLink, ResponderLink, Budget, History
<1>p. /\ initiator \in InitiatorLink /\ responder \in ResponderLink
      /\ entry \in [Relays -> Entry]
      /\ repairs \in [Relays -> [Slots -> Repair]]
      /\ seen \in [Nodes -> SUBSET Packet]
      /\ air \subseteq Frame /\ serial \in Nat
      /\ budget \in Budget /\ history \in History
  BY TypeParts
<1>c. /\ Initiator \in Nodes /\ Destination \in Nodes /\ Relays \subseteq Nodes
      /\ Nodes \subseteq Nat /\ NoOne \in Nat /\ Hops \in Nat /\ 0 \in Nat /\ 1 \in Nat
      /\ InitiatorBudget \in Nat /\ ResponderBudget \in Nat
      /\ \A h \in Nat : RepairWait(h) \in Nat
  BY Constants, TimeoutTypes
<1>r. Request \in Packet /\ \A key \in Nat : Proof(key) \in Packet
  BY PacketTypes
<1>1. CASE open
  <2>1. Transmit(Initiator, Request, 0, IF Hops > 1 THEN 1 ELSE NoOne) \subseteq Frame
    BY <1>c, <1>r, TransmitType
  <2>2. [status |-> "PENDING", key |-> 0, timer |-> InitiatorBudget] \in InitiatorLink
    BY <1>c DEF InitiatorLink
  <2> QED BY <1>1, <1>p, <2>1, <2>2 DEF open
<1>2. CASE send
  <2>1. initiator.key \in Nat
    BY <1>p, LinkFields
  <2>2. serial' \in Nat /\ seen' \in [Nodes -> SUBSET Packet] /\ air' \subseteq Frame
    BY <1>2, <1>c, <2>1, SendOverType DEF send
  <2>3. budget' \in Budget
    BY <1>2, <1>p, BoundFields DEF send
  <2> QED BY <1>2, <1>p, <2>2, <2>3 DEF send
<1>3. CASE teardownInitiator
  <2>1. initiator.key \in Nat /\ initiator' \in InitiatorLink
    BY <1>3, <1>p, LinkFields DEF teardownInitiator
  <2>2. serial' \in Nat /\ seen' \in [Nodes -> SUBSET Packet] /\ air' \subseteq Frame
    BY <1>3, <1>p, <1>c, <2>1, SendOverType DEF teardownInitiator
  <2>3. budget' \in Budget /\ history' \in History
    BY <1>3, <1>r, <1>c, MishapType DEF teardownInitiator, MishapKinds
  <2> QED BY <1>3, <1>p, <2>1, <2>2, <2>3 DEF teardownInitiator
<1>4. CASE teardownResponder
  <2>1. responder.key \in Nat /\ responder' \in ResponderLink
    BY <1>4, <1>p, LinkFields DEF teardownResponder
  <2>2. serial' \in Nat /\ seen' \in [Nodes -> SUBSET Packet] /\ air' \subseteq Frame
    BY <1>4, <1>p, <1>c, <2>1, SendOverType DEF teardownResponder
  <2>3. budget' \in Budget /\ history' \in History
    BY <1>4, <1>r, <1>c, MishapType DEF teardownResponder, MishapKinds
  <2> QED BY <1>4, <1>p, <2>1, <2>2, <2>3 DEF teardownResponder
<1>5. ASSUME NEW f \in air, validate_request(f) PROVE TypeOKNext
  <2>1. seen' \in [Nodes -> SUBSET Packet]
    BY <1>5, <1>p, <1>c, <1>r DEF validate_request, Remembering
  <2>2. responder.key \in Nat /\ responder.key + 1 \in Nat /\ RepairWait(Hops) \in Nat
    <3>1. responder.key \in Nat
      BY <1>p, LinkFields
    <3>2. RepairWait(Hops) \in Nat
      BY <1>c
    <3> QED BY <3>1, <3>2
  <2>3. responder' \in ResponderLink
    <3>1. [status |-> "HANDSHAKE", key |-> responder.key + 1, timer |-> ResponderBudget,
           proofTimer |-> RepairWait(Hops), repaired |-> FALSE] \in ResponderLink
      BY <1>c, <2>2 DEF ResponderLink
    <3>2. [responder EXCEPT !.proofTimer = RepairWait(Hops)] \in ResponderLink
      BY <1>p, <2>2, LinkFields
    <3> QED BY <1>5, <1>p, <3>1, <3>2 DEF validate_request
  <2>4. history' \in History
    BY <1>5, <1>p, BoundFields DEF validate_request
  <2>5. air' \subseteq Frame
    <3>1. responder'.key \in Nat
      BY <2>3, LinkFields
    <3>2. /\ Transmit(Destination, Proof(responder'.key), 0, NoOne) \subseteq Frame
          /\ Transmit(Destination, Proof(responder.key), 0, NoOne) \subseteq Frame
      BY <1>c, <1>r, <2>2, <3>1, TransmitType
    <3> QED BY <1>5, <1>p, <3>2 DEF validate_request
  <2> QED BY <1>5, <1>p, <2>1, <2>3, <2>4, <2>5 DEF validate_request
<1>6. ASSUME NEW f \in air, validate_proof(f) PROVE TypeOKNext
  <2>1. f.pkt.key \in Nat
    BY FrameFields
  <2>2. serial' \in Nat /\ seen' \in [Nodes -> SUBSET Packet] /\ air' \subseteq Frame
    BY <1>6, <1>c, <2>1, SendOverType DEF validate_proof
  <2>3. initiator' \in InitiatorLink
    BY <1>6, <1>p, <2>1 DEF validate_proof, InitiatorLink
  <2>4. history' \in History
    BY <1>6, <1>p, BoundFields DEF validate_proof
  <2> QED BY <1>6, <1>p, <2>2, <2>3, <2>4 DEF validate_proof
<1>7. ASSUME NEW f \in air, receiveAtResponder(f) PROVE TypeOKNext
  <2>1. seen' \in [Nodes -> SUBSET Packet]
    BY <1>7, <1>p, <1>c, FrameFields DEF receiveAtResponder, Remembering
  <2>2. responder' \in ResponderLink
    BY <1>7, <1>p, LinkFields DEF receiveAtResponder
  <2>3. history' \in History
    BY <1>7, <1>p, BoundFields DEF receiveAtResponder
  <2> QED BY <1>7, <1>p, <2>1, <2>2, <2>3 DEF receiveAtResponder
<1>8. ASSUME NEW f \in air, receiveAtInitiator(f) PROVE TypeOKNext
  <2>1. seen' \in [Nodes -> SUBSET Packet]
    BY <1>8, <1>p, <1>c, FrameFields DEF receiveAtInitiator, Remembering
  <2>2. initiator' \in InitiatorLink
    BY <1>8, <1>p, LinkFields DEF receiveAtInitiator
  <2> QED BY <1>8, <1>p, <2>1, <2>2 DEF receiveAtInitiator
<1>9. ASSUME NEW k \in Relays, NEW f \in air, forwardRequest(k, f) PROVE TypeOKNext
  <2>1. k \in Nodes /\ Hops - k \in Nat /\ NextHop(k) \in Nat /\ ProofTimeout(k) \in Nat
    BY <1>c, TimeoutTypes, PacketTypes
  <2>2. seen' \in [Nodes -> SUBSET Packet]
    BY <1>9, <1>p, <1>r, <2>1 DEF forwardRequest, Remembering
  <2>3. entry' \in [Relays -> Entry]
    BY <1>9, <1>p, <2>1, TableFields DEF forwardRequest
  <2>4. air' \subseteq Frame
    <3>1. Distance(f) \in Nat
      BY FrameFields
    <3>2. Transmit(k, Request, Distance(f), NextHop(k)) \subseteq Frame
      BY <2>1, <3>1, <1>r, TransmitType
    <3> QED BY <1>9, <1>p, <3>2 DEF forwardRequest
  <2>5. repairs' \in [Relays -> [Slots -> Repair]]
    <3>1. Keep(repairs[k], "LINKREQUEST", 0, RepairWait(Hops - k)) \in [Slots -> Repair]
      BY <1>p, <1>c, <2>1, SlotTypes
    <3> QED BY <1>9, <1>p, <3>1 DEF forwardRequest
  <2> QED BY <1>9, <1>p, <2>2, <2>3, <2>4, <2>5 DEF forwardRequest
<1>10. ASSUME NEW k \in Relays, NEW f \in air, forwardProof(k, f) PROVE TypeOKNext
  <2>1. k \in Nodes /\ k \in Nat /\ f.pkt.key \in Nat
    BY <1>c, FrameFields
  <2>3. entry' \in [Relays -> Entry]
    <3>1. [entry[k] EXCEPT !.validated = TRUE, !.proofKept = TRUE, !.timer = 0] \in Entry
      BY <1>p, TableFields
    <3>2. entry' = [entry EXCEPT ![k] =
                     [entry[k] EXCEPT !.validated = TRUE, !.proofKept = TRUE, !.timer = 0]]
      BY <1>10, <1>p DEF forwardProof, Entry
    <3> QED BY <1>p, <3>1, <3>2
  <2>4. air' \subseteq Frame
    <3>1. Distance(f) \in Nat /\ f.pkt \in Packet
      BY FrameFields
    <3>2. Transmit(k, f.pkt, Distance(f), NoOne) \subseteq Frame
      BY <1>c, <2>1, <3>1, TransmitType
    <3> QED BY <1>10, <1>p, <3>2 DEF forwardProof
  <2>5. repairs' \in [Relays -> [Slots -> Repair]]
    <3>1. Answered(repairs[k], "LINKREQUEST") \in [Slots -> Repair]
      BY <1>p, SlotTypes
    <3>2. Keep(Answered(repairs[k], "LINKREQUEST"), "LINKPROOF", f.pkt.key, RepairWait(k))
            \in [Slots -> Repair]
      BY <3>1, <1>c, <2>1, SlotTypes
    <3> QED BY <1>10, <1>p, <3>1, <3>2 DEF forwardProof
  <2>6. history' \in History
    BY <1>10, <1>p, BoundFields DEF forwardProof
  <2> QED BY <1>10, <1>p, <2>3, <2>4, <2>5, <2>6 DEF forwardProof
<1>11. ASSUME NEW k \in Relays, NEW f \in air, forwardOverLink(k, f) PROVE TypeOKNext
  <2>1. k \in Nodes /\ f.pkt \in Packet /\ Distance(f) \in Nat
    BY <1>c, FrameFields
  <2>2. Transmit(k, f.pkt, Distance(f), NoOne) \subseteq Frame
    BY <1>c, <2>1, TransmitType
  <2>3. Answered(repairs[k], "LINKPROOF") \in [Slots -> Repair]
    BY <1>p, SlotTypes
  <2> QED BY <1>11, <1>p, <2>1, <2>2, <2>3 DEF forwardOverLink, Remembering
<1>12. ASSUME NEW k \in Relays, NEW f \in air, passBy(k, f) PROVE TypeOKNext
  <2>1. k \in Nodes /\ f.pkt \in Packet
    BY <1>c, FrameFields
  <2> QED BY <1>12, <1>p, <2>1 DEF passBy, Remembering
<1>13. ASSUME NEW n, NEW f \in air, ignore(n, f) PROVE TypeOKNext
  BY <1>13, <1>p DEF ignore
<1>14. CASE reapInitiator
  BY <1>14, <1>p, <1>c, LinkFields, BoundFields DEF reapInitiator
<1>15. CASE reapResponder
  <2>1. responder.key \in Nat /\ NoLink(responder.key) \in ResponderLink
    BY <1>p, LinkFields
  <2>2. serial' \in Nat /\ seen' \in [Nodes -> SUBSET Packet] /\ air' \subseteq Frame
    BY <1>15, <1>c, <2>1, SendOverType DEF reapResponder
  <2>3. history' \in History
    BY <1>15, <1>p, <1>c, BoundFields DEF reapResponder
  <2> QED BY <1>15, <1>p, <2>1, <2>2, <2>3 DEF reapResponder
<1>16. CASE eraseResponder
  BY <1>16, <1>p, LinkFields DEF eraseResponder
<1>17. CASE repair_proof
  <2>1. responder.key \in Nat /\ RepairWait(Hops) \in Nat
    BY <1>p, <1>c, LinkFields
  <2>2. Transmit(Destination, Proof(responder.key), 0, NoOne) \subseteq Frame
    BY <1>c, <1>r, <2>1, TransmitType
  <2>3. responder' \in ResponderLink
    BY <1>17, <1>p, <2>1, LinkFields DEF repair_proof
  <2> QED BY <1>17, <1>p, <2>2, <2>3 DEF repair_proof
<1>18. ASSUME NEW k \in Relays, NEW s \in Slots, repair(k, s) PROVE TypeOKNext
  <2>1. k \in Nat /\ Hops - k \in Nat /\ repairs[k] \in [Slots -> Repair] /\ repairs[k][s] \in Repair
    BY <1>c, <1>p, TimeoutTypes
  <2>2. Resend(k, repairs[k][s]) \subseteq Frame
    BY <2>1, ResendType
  <2> DEFINE wait == IF repairs[k][s].kind = "LINKREQUEST" THEN RepairWait(Hops - k) ELSE RepairWait(k)
             kept == [repairs[k][s] EXCEPT !.resent = TRUE, !.key = 0, !.timer = wait]
  <2>3. kept \in Repair
    <3>1. wait \in Nat
      BY <1>c, <2>1
    <3> HIDE DEF wait
    <3> QED BY <2>1, <3>1, TableFields
  <2>4. repairs' = [repairs EXCEPT ![k][s] = kept]
    BY <1>18 DEF repair
  <2>5. history' \in History
    BY <1>18, <1>p, BoundFields DEF repair
  <2>6. air' \subseteq Frame
    BY <1>18, <1>p, <2>2 DEF repair
  <2> HIDE DEF kept
  <2>7. repairs' \in [Relays -> [Slots -> Repair]]
    BY <1>p, <2>1, <2>3, <2>4
  <2> QED BY <1>18, <1>p, <2>5, <2>6, <2>7 DEF repair
<1>19. ASSUME NEW k \in Relays, NEW s \in Slots, freeSlot(k, s) PROVE TypeOKNext
  BY <1>19, <1>p, SlotTypes DEF freeSlot
<1>20. ASSUME NEW f \in air, lose(f) PROVE TypeOKNext
  <2>1. f.pkt \in Packet /\ f.hops \in Nat
    BY FrameFields
  <2>2. budget' \in Budget /\ history' \in History
    BY <1>20, <2>1, MishapType DEF lose, MishapKinds
  <2> QED BY <1>20, <1>p, <2>2 DEF lose
<1>21. ASSUME NEW k \in Relays, cull(k) PROVE TypeOKNext
  <2>1. k \in Nat
    BY <1>c
  <2>2. budget' \in Budget /\ history' \in History
    BY <1>21, <1>r, <2>1, MishapType DEF cull, MishapKinds
  <2>3. entry' \in [Relays -> Entry]
    BY <1>21, <1>p, TableFields DEF cull
  <2> QED BY <1>21, <1>p, <2>2, <2>3 DEF cull
<1>22. ASSUME NEW n \in Nodes, NEW pkt \in seen[n], forget(n, pkt) PROVE TypeOKNext
  <2>1. n \in Nat /\ pkt \in Packet
    BY <1>c, <1>p
  <2>2. budget' \in Budget /\ history' \in History
    BY <1>22, <2>1, MishapType DEF forget, MishapKinds
  <2> QED BY <1>22, <1>p, <2>2 DEF forget
<1>23. CASE tick
  <2>1. \A n \in Nat : Less(n) \in Nat
    BY DEF Less
  <2>2. initiator' \in InitiatorLink /\ responder' \in ResponderLink
    BY <1>23, <1>p, <2>1, LinkFields DEF tick
  <2>3. entry' \in [Relays -> Entry]
    BY <1>23, <1>p, <2>1, TableFields DEF tick
  <2>4. repairs' \in [Relays -> [Slots -> Repair]]
    BY <1>23, <1>p, <2>1, TableFields DEF tick
  <2>5. air' \subseteq Frame
    BY <1>23, FrameFields DEF tick
  <2> QED BY <1>23, <1>p, <2>2, <2>3, <2>4, <2>5 DEF tick
<1>24. CASE UNCHANGED vars
  BY <1>24, <1>p DEF vars
<1> QED
  BY <1>1, <1>2, <1>3, <1>4, <1>5, <1>6, <1>7, <1>8, <1>9, <1>10, <1>11, <1>12, <1>13, <1>14,
     <1>15, <1>16, <1>17, <1>18, <1>19, <1>20, <1>21, <1>22, <1>23, <1>24
     DEF Next, AtEnds, AtRelay, jobs, Medium

LEMMA TypeInit == Init => TypeOK
<1> SUFFICES ASSUME Init PROVE TypeOK
  OBVIOUS
<1>1. NoRepair \in Repair /\ NoEntry \in Entry /\ NoLink(0) \in ResponderLink
  BY SlotTypes, TableFields, LinkFields
<1>2. [status |-> "NONE", key |-> 0, timer |-> 0] \in InitiatorLink
  BY DEF InitiatorLink
<1>3. [mishaps |-> MaxMishaps, data |-> MaxData] \in Budget
  BY Constants DEF Budget
<1>4. [ups |-> 0, responderUps |-> 0, mishaps |-> {}, reaped |-> {},
         proofs |-> [k \in Relays |-> 0]] \in History
  BY DEF History
<1>5. [n \in Nodes |-> {}] \in [Nodes -> SUBSET Packet]
  OBVIOUS
<1> QED BY <1>1, <1>2, <1>3, <1>4, <1>5, TypeParts DEF Init

(* Every variable keeps its kind, whatever the radio, the tables and the   *)
(* consumers do: no timer that Transport::jobs counts down passes zero.    *)
THEOREM TypeCorrect == Spec => []TypeOK
BY TypeInit, TypeStep, PTL DEF Spec

-----------------------------------------------------------------------------
(***************************************************************************)
(* What the responder confirms. The inductive invariant says where the     *)
(* keys can be: nothing moves before the request, every proof under way or *)
(* kept for repair carries a key the responder has offered, and what comes *)
(* over the link was encrypted under the key the initiator took.           *)
(***************************************************************************)
Silent ==
  initiator.status = "NONE" =>
    /\ initiator.key = 0 /\ air = {} /\ responder.status = "NONE"
    /\ \A k \in Relays, s \in Slots : repairs[k][s].kind = "NONE"

ProofsOffered == \A f \in air : f.pkt.kind = "LRPROOF" => f.pkt.key \in 1 .. responder.key

KeepsProof(k, s) == repairs[k][s].kind = "LINKPROOF" /\ ~repairs[k][s].resent
KeptOffered ==
  \A k \in Relays, s \in Slots : KeepsProof(k, s) => repairs[k][s].key \in 1 .. responder.key

LinkKeys ==
  \A f \in air : f.pkt.kind \in {"LRRTT", "DATA"} =>
    initiator.status \in {"ACTIVE", "CLOSED"} /\ f.pkt.key = initiator.key

HasOffered == responder.status \in {"HANDSHAKE", "ACTIVE"} => responder.key >= 1

Once ==
  /\ EstablishedOnce
  /\ initiator.status \in {"NONE", "PENDING"} => history.ups = 0
  /\ responder.status = "HANDSHAKE" => history.responderUps = 0

IInv == TypeOK /\ Silent /\ ProofsOffered /\ KeptOffered /\ LinkKeys /\ HasOffered /\ Once

(* A copy that comes into the air repeats a packet under way, or is the    *)
(* request, an end's own, or a relay's repair.                             *)
FromTheAir(pkt)    == \E g \in air : g.pkt = pkt
FromTheResponder(pkt) == pkt = Proof(responder'.key) /\ responder'.status = "HANDSHAKE"
FromARepair(pkt)   == \E k \in Relays, s \in Slots : KeepsProof(k, s) /\ pkt = Proof(repairs[k][s].key)
FromTheInitiator(pkt) == /\ pkt.kind \in {"LRRTT", "DATA"}
                         /\ initiator'.status = "ACTIVE" /\ pkt.key = initiator'.key
Origin(pkt) == \/ FromTheAir(pkt) \/ pkt.kind \in {"LINKREQUEST", "LINKCLOSE"}
               \/ FromTheResponder(pkt) \/ FromARepair(pkt) \/ FromTheInitiator(pkt)

LEMMA Transmitted ==
  \A n, pkt, hops, via : \A f \in Transmit(n, pkt, hops, via) : f.pkt = pkt
BY DEF Transmit

LEMMA SentOver ==
  ASSUME NEW n, NEW kind \in {"LRRTT", "DATA", "LINKCLOSE"}, NEW key, NEW heard,
         SendOver(n, kind, key, heard), NEW f \in air'
  PROVE  f \in air \/ (f.pkt.kind = kind /\ f.pkt.key = key)
BY Transmitted DEF SendOver, OverLink

LEMMA AirStep ==
  ASSUME TypeOK, [Next]_vars, NEW f \in air'
  PROVE  Origin(f.pkt)
<1>a. ASSUME f \in air PROVE Origin(f.pkt)
  BY <1>a DEF Origin, FromTheAir
<1>b. Request.kind = "LINKREQUEST"
  BY DEF Request
<1>1. CASE open
  BY <1>1, <1>a, <1>b, Transmitted DEF open, Origin
<1>2. CASE send
  BY <1>2, <1>a, SentOver DEF send, Origin, FromTheInitiator
<1>3. CASE teardownInitiator
  <2>1. CASE initiator.status = "ACTIVE"
    BY <1>3, <2>1, <1>a, SentOver DEF teardownInitiator, Origin
  <2>2. CASE initiator.status # "ACTIVE"
    BY <1>3, <2>2, <1>a DEF teardownInitiator
  <2> QED BY <2>1, <2>2
<1>4. CASE teardownResponder
  BY <1>4, <1>a, SentOver DEF teardownResponder, Origin
<1>5. ASSUME NEW g \in air, validate_request(g) PROVE Origin(f.pkt)
  <2>1. \/ air' \subseteq air
        \/ /\ air' \subseteq air \cup Transmit(Destination, Proof(responder'.key), 0, NoOne)
           /\ responder'.status = "HANDSHAKE"
    <3>1. [responder EXCEPT !.proofTimer = RepairWait(Hops)].key = responder.key
      BY DEF TypeOK
    <3>2. [responder EXCEPT !.proofTimer = RepairWait(Hops)].status = responder.status
      BY DEF TypeOK
    <3>3. CASE ~find_active_link
      <4>1. responder'.status = "HANDSHAKE"
        BY <1>5, <3>3 DEF validate_request
      <4>2. air' = (air \ {g}) \cup Transmit(Destination, Proof(responder'.key), 0, NoOne)
        BY <1>5, <3>3 DEF validate_request
      <4> QED BY <4>1, <4>2
    <3>4. CASE find_active_link /\ responder.status = "HANDSHAKE"
      <4>1. responder' = [responder EXCEPT !.proofTimer = RepairWait(Hops)]
        BY <1>5, <3>4 DEF validate_request
      <4>2. air' = (air \ {g}) \cup Transmit(Destination, Proof(responder.key), 0, NoOne)
        BY <1>5, <3>4 DEF validate_request
      <4> QED BY <3>1, <3>2, <3>4, <4>1, <4>2
    <3>5. CASE find_active_link /\ responder.status # "HANDSHAKE"
      BY <1>5, <3>5 DEF validate_request
    <3> QED BY <3>3, <3>4, <3>5
  <2> QED BY <2>1, <1>a, Transmitted DEF Origin, FromTheResponder
<1>6. ASSUME NEW g \in air, validate_proof(g) PROVE Origin(f.pkt)
  <2>1. f \in air \/ (f.pkt.kind = "LRRTT" /\ f.pkt.key = g.pkt.key)
    BY <1>6, SentOver DEF validate_proof
  <2>2. initiator'.status = "ACTIVE" /\ initiator'.key = g.pkt.key
    BY <1>6 DEF validate_proof
  <2> QED BY <1>a, <2>1, <2>2 DEF Origin, FromTheInitiator
<1>7. ASSUME NEW g \in air, receiveAtResponder(g) PROVE Origin(f.pkt)
  BY <1>7, <1>a DEF receiveAtResponder
<1>8. ASSUME NEW g \in air, receiveAtInitiator(g) PROVE Origin(f.pkt)
  BY <1>8, <1>a DEF receiveAtInitiator
<1>9. ASSUME NEW k \in Relays, NEW g \in air, forwardRequest(k, g) PROVE Origin(f.pkt)
  BY <1>9, <1>a, <1>b, Transmitted DEF forwardRequest, Origin
<1>10. ASSUME NEW k \in Relays, NEW g \in air, forwardProof(k, g) PROVE Origin(f.pkt)
  BY <1>10, <1>a, Transmitted DEF forwardProof, Origin, FromTheAir
<1>11. ASSUME NEW k \in Relays, NEW g \in air, forwardOverLink(k, g) PROVE Origin(f.pkt)
  BY <1>11, <1>a, Transmitted DEF forwardOverLink, Origin, FromTheAir
<1>12. ASSUME NEW k \in Relays, NEW g \in air, passBy(k, g) PROVE Origin(f.pkt)
  BY <1>12, <1>a DEF passBy
<1>13. ASSUME NEW n, NEW g \in air, ignore(n, g) PROVE Origin(f.pkt)
  BY <1>13, <1>a DEF ignore
<1>14. CASE reapInitiator
  BY <1>14, <1>a DEF reapInitiator
<1>15. CASE reapResponder
  BY <1>15, <1>a, SentOver DEF reapResponder, Origin
<1>16. CASE eraseResponder
  BY <1>16, <1>a DEF eraseResponder
<1>17. CASE repair_proof
  <2>1. responder'.key = responder.key /\ responder'.status = "HANDSHAKE"
    BY <1>17 DEF repair_proof, ProofRepairDue, TypeOK
  <2> QED BY <1>17, <1>a, <2>1, Transmitted DEF repair_proof, Origin, FromTheResponder
<1>18. ASSUME NEW k \in Relays, NEW s \in Slots, repair(k, s) PROVE Origin(f.pkt)
  <2> DEFINE slot == repairs[k][s]
  <2>1. slot.kind \in {"LINKREQUEST", "LINKPROOF"} /\ ~slot.resent
    <3>1. repairs[k][s] \in Repair
      BY DEF TypeOK
    <3> QED BY <1>18, <3>1 DEF repair, SlotDue, Spent, Repair
  <2>2. f \in air \/ f \in Resend(k, slot)
    BY <1>18 DEF repair
  <2>3. CASE f \in Resend(k, slot) /\ slot.kind = "LINKREQUEST"
    BY <2>3, <1>b, Transmitted DEF Resend, Origin
  <2>4. CASE f \in Resend(k, slot) /\ slot.kind = "LINKPROOF"
    <3>1. f.pkt = Proof(slot.key)
      BY <2>4, Transmitted DEF Resend
    <3> QED BY <2>1, <2>4, <3>1 DEF Origin, FromARepair, KeepsProof
  <2> QED BY <1>a, <2>1, <2>2, <2>3, <2>4
<1>19. ASSUME NEW k \in Relays, NEW s \in Slots, freeSlot(k, s) PROVE Origin(f.pkt)
  BY <1>19, <1>a DEF freeSlot
<1>20. ASSUME NEW g \in air, lose(g) PROVE Origin(f.pkt)
  BY <1>20, <1>a DEF lose
<1>21. ASSUME NEW k \in Relays, cull(k) PROVE Origin(f.pkt)
  BY <1>21, <1>a DEF cull
<1>22. ASSUME NEW n \in Nodes, NEW pkt \in seen[n], forget(n, pkt) PROVE Origin(f.pkt)
  BY <1>22, <1>a DEF forget
<1>23. CASE tick
  <2>1. PICK g \in air : f = [g EXCEPT !.age = @ + 1]
    BY <1>23 DEF tick
  <2>2. g \in Frame
    BY DEF TypeOK
  <2>3. f.pkt = g.pkt
    BY <2>1, <2>2 DEF Frame
  <2> QED BY <2>3 DEF Origin, FromTheAir
<1>24. CASE UNCHANGED vars
  BY <1>24, <1>a DEF vars
<1> QED
  BY <1>1, <1>2, <1>3, <1>4, <1>5, <1>6, <1>7, <1>8, <1>9, <1>10, <1>11, <1>12, <1>13, <1>14,
     <1>15, <1>16, <1>17, <1>18, <1>19, <1>20, <1>21, <1>22, <1>23, <1>24
     DEF Next, AtEnds, AtRelay, jobs, Medium

(* A relay keeps a proof that it heard.                                    *)
LEMMA KeptProof ==
  ASSUME NEW slots \in [Slots -> Repair], NEW kind, NEW key, NEW wait, NEW s \in Slots
  PROVE  \/ Keep(slots, kind, key, wait)[s] = slots[s]
         \/ /\ Keep(slots, kind, key, wait)[s].kind = kind
            /\ Keep(slots, kind, key, wait)[s].key = key
BY DEF Keep

LEMMA SlotStep ==
  ASSUME TypeOK, [Next]_vars, NEW k \in Relays, NEW s \in Slots, KeepsProof(k, s)'
  PROVE  \/ KeepsProof(k, s) /\ repairs'[k][s].key = repairs[k][s].key
         \/ \E g \in air : /\ forwardProof(k, g) /\ ~entry[k].proofKept
                           /\ g.pkt.kind = "LRPROOF" /\ g.pkt.key = repairs'[k][s].key
<1> DEFINE Kept  == KeepsProof(k, s) /\ repairs'[k][s].key = repairs[k][s].key
           Heard1 == \E g \in air : /\ forwardProof(k, g) /\ ~entry[k].proofKept
                                   /\ g.pkt.kind = "LRPROOF" /\ g.pkt.key = repairs'[k][s].key
<1> SUFFICES Kept \/ Heard1
  OBVIOUS
<1>p. repairs \in [Relays -> [Slots -> Repair]]
  BY DEF TypeOK
<1>a. ASSUME repairs'[k][s] = repairs[k][s] PROVE Kept
  BY <1>a DEF KeepsProof
<1>f. ASSUME NEW slots \in [Slots -> Repair], NEW kind PROVE
        Answered(slots, kind)[s] = slots[s] \/ Answered(slots, kind)[s] = NoRepair
  BY DEF Answered
<1>n. repairs'[k][s] # NoRepair
  BY DEF KeepsProof, NoRepair
<1>1. ASSUME NEW j \in Relays, NEW g \in air, forwardRequest(j, g) PROVE Kept
  <2>1. CASE j = k
    <3>1. repairs'[k] = Keep(repairs[k], "LINKREQUEST", 0, RepairWait(Hops - k))
      BY <1>1, <2>1, <1>p DEF forwardRequest
    <3>2. repairs'[k][s] = repairs[k][s] \/ repairs'[k][s].kind = "LINKREQUEST"
      BY <3>1, <1>p, KeptProof
    <3> QED BY <3>2, <1>a DEF KeepsProof
  <2>2. CASE j # k
    BY <1>1, <2>2, <1>p, <1>a DEF forwardRequest
  <2> QED BY <2>1, <2>2
<1>2. ASSUME NEW j \in Relays, NEW g \in air, forwardProof(j, g) PROVE Kept \/ Heard1
  <2>1. CASE j = k
    <3> DEFINE answered == Answered(repairs[k], "LINKREQUEST")
    <3>1. answered \in [Slots -> Repair]
      BY <1>p, SlotTypes
    <3>2. answered[s] = repairs[k][s] \/ answered[s] = NoRepair
      BY <1>p, <1>f
    <3>3. \/ repairs'[k] = answered
          \/ /\ ~entry[k].proofKept
             /\ repairs'[k] = Keep(answered, "LINKPROOF", g.pkt.key, RepairWait(k))
      BY <1>2, <2>1, <1>p DEF forwardProof
    <3> HIDE DEF answered
    <3>4. \/ repairs'[k][s] = answered[s]
          \/ ~entry[k].proofKept /\ repairs'[k][s].key = g.pkt.key
      BY <3>1, <3>3, KeptProof
    <3>5. g.pkt.kind = "LRPROOF"
      BY <1>2 DEF forwardProof
    <3> QED BY <3>2, <3>4, <3>5, <1>a, <1>n, <1>2, <2>1
  <2>2. CASE j # k
    BY <1>2, <2>2, <1>p, <1>a DEF forwardProof
  <2> QED BY <2>1, <2>2
<1>3. ASSUME NEW j \in Relays, NEW g \in air, forwardOverLink(j, g) PROVE Kept
  <2>1. repairs'[k] = repairs[k] \/ repairs'[k] = Answered(repairs[k], "LINKPROOF")
    BY <1>3, <1>p DEF forwardOverLink
  <2> QED BY <2>1, <1>p, <1>f, <1>a, <1>n
<1>4. ASSUME NEW j \in Relays, NEW t \in Slots, repair(j, t) PROVE Kept
  <2>1. CASE j = k /\ t = s
    <3>1. repairs'[k][s].resent = TRUE
      BY <1>4, <2>1, <1>p DEF repair, Repair
    <3> QED BY <3>1 DEF KeepsProof
  <2>2. CASE ~(j = k /\ t = s)
    <3>1. repairs'[k][s] = repairs[k][s]
      BY <1>4, <2>2, <1>p DEF repair
    <3> QED BY <3>1, <1>a
  <2> QED BY <2>1, <2>2
<1>5. ASSUME NEW j \in Relays, NEW t \in Slots, freeSlot(j, t) PROVE Kept
  <2>1. repairs'[k][s] = repairs[k][s] \/ repairs'[k][s] = NoRepair
    BY <1>5, <1>p DEF freeSlot
  <2> QED BY <2>1, <1>a, <1>n
<1>6. CASE tick
  <2>1. repairs'[k][s] = [repairs[k][s] EXCEPT !.timer = Less(@)]
    BY <1>6 DEF tick
  <2>2. repairs[k][s] \in Repair
    BY <1>p
  <2> QED BY <2>1, <2>2 DEF KeepsProof, Repair
<1>7. CASE UNCHANGED repairs
  BY <1>7, <1>a
<1>8. \/ UNCHANGED repairs \/ tick
      \/ \E j \in Relays, g \in air : forwardRequest(j, g) \/ forwardProof(j, g) \/ forwardOverLink(j, g)
      \/ \E j \in Relays, t \in Slots : repair(j, t) \/ freeSlot(j, t)
  <2>1. CASE AtEnds \/ Medium \/ UNCHANGED vars
    BY <2>1 DEF AtEnds, Medium, vars, open, send, teardownInitiator, teardownResponder,
       validate_request, validate_proof, receiveAtResponder, receiveAtInitiator, ignore, lose,
       cull, forget
  <2>2. CASE jobs
    BY <2>2 DEF jobs, reapInitiator, reapResponder, eraseResponder, repair_proof
  <2>3. ASSUME NEW j \in Relays, AtRelay(j)
        PROVE  \/ UNCHANGED repairs
               \/ \E g \in air : forwardRequest(j, g) \/ forwardProof(j, g) \/ forwardOverLink(j, g)
    BY <2>3 DEF AtRelay, passBy
  <2> QED BY <2>1, <2>2, <2>3 DEF Next
<1> QED BY <1>1, <1>2, <1>3, <1>4, <1>5, <1>6, <1>7, <1>8

(* What a step does to the ends.                                           *)
InitiatorSame == initiator'.status = initiator.status /\ initiator'.key = initiator.key
ResponderSame == responder'.status = responder.status /\ responder'.key = responder.key
UpsSame == history'.ups = history.ups /\ history'.responderUps = history.responderUps

Opening == /\ initiator.status = "NONE" /\ initiator'.status = "PENDING" /\ initiator'.key = 0
           /\ ResponderSame /\ UpsSame
Offering == /\ air # {} /\ responder.status = "NONE" /\ responder'.status = "HANDSHAKE"
            /\ responder'.key = responder.key + 1
            /\ history'.ups = history.ups /\ history'.responderUps = 0 /\ InitiatorSame
Accepting == /\ \E f \in air : f.pkt.kind = "LRPROOF" /\ initiator'.key = f.pkt.key
             /\ initiator.status = "PENDING" /\ initiator'.status = "ACTIVE"
             /\ history'.ups = history.ups + 1 /\ history'.responderUps = history.responderUps
             /\ ResponderSame
Confirming == /\ \E f \in air : f.pkt.kind \in {"LRRTT", "DATA"} /\ f.pkt.key = responder.key
              /\ responder.status = "HANDSHAKE" /\ responder'.status = "ACTIVE"
              /\ responder'.key = responder.key
              /\ history'.ups = history.ups /\ history'.responderUps = history.responderUps + 1
              /\ InitiatorSame
InitiatorEnding == /\ initiator.status \in {"PENDING", "ACTIVE"} /\ initiator'.status = "CLOSED"
                   /\ initiator'.key = initiator.key /\ ResponderSame /\ UpsSame
ResponderEnding == /\ responder.status # "NONE" /\ responder'.status \in {"NONE", "CLOSED"}
                   /\ responder'.key = responder.key /\ InitiatorSame /\ UpsSame
EndsSame == InitiatorSame /\ ResponderSame /\ UpsSame

EndsStep == \/ Opening \/ Offering \/ Accepting \/ Confirming
            \/ InitiatorEnding \/ ResponderEnding \/ EndsSame

LEMMA EndFields ==
  /\ \A o \in InitiatorLink : \A s, t :
       /\ [o EXCEPT !.status = s].status = s /\ [o EXCEPT !.status = s].key = o.key
       /\ [o EXCEPT !.status = s, !.timer = t].status = s
       /\ [o EXCEPT !.status = s, !.timer = t].key = o.key
       /\ [o EXCEPT !.timer = t].status = o.status /\ [o EXCEPT !.timer = t].key = o.key
  /\ \A o \in ResponderLink : \A t, u :
       /\ [o EXCEPT !.proofTimer = t].status = o.status /\ [o EXCEPT !.proofTimer = t].key = o.key
       /\ [o EXCEPT !.timer = t, !.proofTimer = u].status = o.status
       /\ [o EXCEPT !.timer = t, !.proofTimer = u].key = o.key
       /\ [o EXCEPT !.repaired = t, !.proofTimer = u].status = o.status
       /\ [o EXCEPT !.repaired = t, !.proofTimer = u].key = o.key
       /\ [o EXCEPT !.status = "ACTIVE", !.timer = t, !.proofTimer = u].status = "ACTIVE"
       /\ [o EXCEPT !.status = "ACTIVE", !.timer = t, !.proofTimer = u].key = o.key
  /\ \A key : /\ NoLink(key).status = "NONE" /\ NoLink(key).key = key
              /\ [NoLink(key) EXCEPT !.status = "CLOSED"].status = "CLOSED"
              /\ [NoLink(key) EXCEPT !.status = "CLOSED"].key = key
BY DEF InitiatorLink, ResponderLink, NoLink

LEMMA HistoryFields ==
  ASSUME NEW h \in History
  PROVE  /\ h.ups \in Nat /\ h.responderUps \in Nat
         /\ [h EXCEPT !.ups = @ + 1].ups = h.ups + 1
         /\ [h EXCEPT !.ups = @ + 1].responderUps = h.responderUps
         /\ [h EXCEPT !.responderUps = @ + 1].ups = h.ups
         /\ [h EXCEPT !.responderUps = @ + 1].responderUps = h.responderUps + 1
         /\ [h EXCEPT !.responderUps = 0].ups = h.ups
         /\ [h EXCEPT !.responderUps = 0].responderUps = 0
         /\ \A x : /\ [h EXCEPT !.reaped = x].ups = h.ups
                   /\ [h EXCEPT !.reaped = x].responderUps = h.responderUps
                   /\ [h EXCEPT !.mishaps = x].ups = h.ups
                   /\ [h EXCEPT !.mishaps = x].responderUps = h.responderUps
                   /\ [h EXCEPT !.proofs[x] = @ + 1].ups = h.ups
                   /\ [h EXCEPT !.proofs[x] = @ + 1].responderUps = h.responderUps
BY DEF History

LEMMA EndStep ==
  ASSUME TypeOK, [Next]_vars
  PROVE  EndsStep
<1>p. initiator \in InitiatorLink /\ responder \in ResponderLink /\ history \in History
  BY TypeParts
<1>m. ASSUME NEW kind, NEW pkt, NEW hops, Mishap(kind, pkt, hops) PROVE UpsSame
  BY <1>m, <1>p, HistoryFields DEF Mishap, UpsSame
<1>s. ASSUME NEW k, NEW x, \/ history' = history
                         \/ history' = [history EXCEPT !.proofs[k] = @ + 1]
                         \/ history' = [history EXCEPT !.reaped = @ \cup {x}]
      PROVE UpsSame
  <2>1. CASE history' = history
    BY <2>1 DEF UpsSame
  <2>2. CASE history' = [history EXCEPT !.proofs[k] = @ + 1]
    BY <2>2, <1>p, HistoryFields DEF UpsSame
  <2>3. CASE history' = [history EXCEPT !.reaped = @ \cup {x}]
    BY <2>3, <1>p, HistoryFields DEF UpsSame
  <2> QED BY <1>s, <2>1, <2>2, <2>3
<1>1. CASE open
  BY <1>1 DEF open, EndsStep, Opening, ResponderSame, UpsSame
<1>3. CASE teardownInitiator
  BY <1>3, <1>m, <1>p, EndFields DEF teardownInitiator, EndsStep, InitiatorEnding, ResponderSame
<1>4. CASE teardownResponder
  BY <1>4, <1>m, <1>p, EndFields DEF teardownResponder, EndsStep, ResponderEnding, InitiatorSame
<1>5. ASSUME NEW f \in air, validate_request(f) PROVE EndsStep
  <2>1. CASE ~find_active_link
    <3>1. responder.status = "NONE" /\ InitiatorSame
      BY <1>5, <2>1 DEF validate_request, find_active_link, InitiatorSame
    <3>2. responder'.status = "HANDSHAKE" /\ responder'.key = responder.key + 1
      BY <1>5, <2>1 DEF validate_request
    <3>3. history'.ups = history.ups /\ history'.responderUps = 0
      BY <1>5, <2>1, <1>p, HistoryFields DEF validate_request
    <3> QED BY <3>1, <3>2, <3>3 DEF EndsStep, Offering
  <2>2. CASE find_active_link
    <3>1. /\ responder' \in {responder, [responder EXCEPT !.proofTimer = RepairWait(Hops)]}
          /\ UNCHANGED <<initiator, history>>
      BY <1>5, <2>2 DEF validate_request
    <3>2. CASE responder' = [responder EXCEPT !.proofTimer = RepairWait(Hops)]
      <4>1. responder'.status = responder.status /\ responder'.key = responder.key
        BY <3>2, <1>p, EndFields
      <4> QED BY <3>1, <4>1 DEF EndsStep, EndsSame, InitiatorSame, ResponderSame, UpsSame
    <3>3. CASE responder' = responder
      BY <3>1, <3>3 DEF EndsStep, EndsSame, InitiatorSame, ResponderSame, UpsSame
    <3> QED BY <3>1, <3>2, <3>3
  <2> QED BY <2>1, <2>2
<1>6. ASSUME NEW f \in air, validate_proof(f) PROVE EndsStep
  <2>1. CASE initiator.status = "PENDING"
    <3>1. f.pkt.kind = "LRPROOF" /\ initiator' = [status |-> "ACTIVE", key |-> f.pkt.key, timer |-> 0]
      BY <1>6, <2>1 DEF validate_proof
    <3>2. history'.ups = history.ups + 1 /\ history'.responderUps = history.responderUps
      BY <1>6, <2>1, <1>p, HistoryFields DEF validate_proof
    <3>3. ResponderSame
      BY <1>6 DEF validate_proof, ResponderSame
    <3> QED BY <2>1, <3>1, <3>2, <3>3 DEF EndsStep, Accepting
  <2>2. CASE initiator.status # "PENDING"
    BY <1>6, <2>2 DEF validate_proof, EndsStep, EndsSame, InitiatorSame, ResponderSame, UpsSame
  <2> QED BY <2>1, <2>2
<1>7. ASSUME NEW f \in air, receiveAtResponder(f) PROVE EndsStep
  <2>1. InitiatorSame
    BY <1>7 DEF receiveAtResponder, InitiatorSame
  <2>2. CASE Opens(f) /\ Activates(f)
    <3>1. /\ responder' = [responder EXCEPT !.status = "ACTIVE", !.timer = 0, !.proofTimer = 0]
          /\ history' = [history EXCEPT !.responderUps = @ + 1]
      BY <1>7, <2>2 DEF receiveAtResponder, Activates, Closes
    <3>2. responder'.status = "ACTIVE" /\ responder'.key = responder.key
      BY <3>1, <1>p, EndFields
    <3>3. history'.ups = history.ups /\ history'.responderUps = history.responderUps + 1
      BY <3>1, <1>p, HistoryFields
    <3> QED BY <2>1, <2>2, <3>2, <3>3 DEF Opens, Activates, EndsStep, Confirming
  <2>3. CASE Opens(f) /\ Closes(f)
    <3>1. responder' = [NoLink(responder.key) EXCEPT !.status = "CLOSED"] /\ history' = history
      BY <1>7, <2>3 DEF receiveAtResponder, Activates, Closes
    <3> QED BY <2>1, <2>3, <3>1, EndFields DEF Closes, EndsStep, ResponderEnding, UpsSame
  <2>4. CASE ~(Opens(f) /\ (Activates(f) \/ Closes(f)))
    BY <1>7, <2>1, <2>4 DEF receiveAtResponder, EndsStep, EndsSame, ResponderSame, UpsSame
  <2> QED BY <2>2, <2>3, <2>4
<1>8. ASSUME NEW f \in air, receiveAtInitiator(f) PROVE EndsStep
  <2>1. ResponderSame /\ UpsSame
    BY <1>8 DEF receiveAtInitiator, ResponderSame, UpsSame
  <2>2. \/ initiator' = initiator
        \/ initiator.status = "ACTIVE" /\ initiator' = [initiator EXCEPT !.status = "CLOSED"]
    BY <1>8 DEF receiveAtInitiator
  <2>3. CASE initiator.status = "ACTIVE" /\ initiator' = [initiator EXCEPT !.status = "CLOSED"]
    <3>1. initiator'.status = "CLOSED" /\ initiator'.key = initiator.key
      BY <2>3, <1>p, EndFields
    <3> QED BY <2>1, <2>3, <3>1 DEF EndsStep, InitiatorEnding
  <2>4. CASE initiator' = initiator
    BY <2>1, <2>4 DEF EndsStep, EndsSame, InitiatorSame
  <2> QED BY <2>2, <2>3, <2>4
<1>14. CASE reapInitiator
  <2>1. initiator.status = "PENDING"
    BY <1>14, <1>p DEF reapInitiator, EstablishmentTimedOut, HalfOpen, InitiatorLink
  <2>2. UpsSame
    BY <1>14, <1>s DEF reapInitiator
  <2>3. initiator'.status = "CLOSED" /\ initiator'.key = initiator.key
    BY <1>14, <1>p, EndFields DEF reapInitiator
  <2> QED BY <1>14, <2>1, <2>2, <2>3 DEF reapInitiator, EndsStep, InitiatorEnding, ResponderSame
<1>15. CASE reapResponder
  <2>1. responder.status # "NONE"
    BY <1>15 DEF reapResponder, EstablishmentTimedOut, HalfOpen
  <2> QED BY <1>15, <2>1, <1>s, EndFields DEF reapResponder, EndsStep, ResponderEnding, InitiatorSame
<1>16. CASE eraseResponder
  BY <1>16, EndFields DEF eraseResponder, EndsStep, ResponderEnding, InitiatorSame, UpsSame
<1>17. CASE repair_proof
  BY <1>17, <1>p, EndFields DEF repair_proof, EndsStep, EndsSame, InitiatorSame, ResponderSame, UpsSame
<1>18. ASSUME NEW k \in Relays, NEW s \in Slots, repair(k, s) PROVE EndsStep
  BY <1>18, <1>s DEF repair, EndsStep, EndsSame, InitiatorSame, ResponderSame
<1>23. CASE tick
  BY <1>23, <1>p, EndFields DEF tick, EndsStep, EndsSame, InitiatorSame, ResponderSame, UpsSame
<1>25. ASSUME UNCHANGED <<initiator, responder>>, UpsSame PROVE EndsStep
  BY <1>25 DEF EndsStep, EndsSame, InitiatorSame, ResponderSame
<1>2. CASE send \/ UNCHANGED vars
  BY <1>2, <1>25, <1>s DEF send, vars
<1>9. ASSUME NEW k \in Relays, AtRelay(k) PROVE EndsStep
  BY <1>9, <1>25, <1>s DEF AtRelay, forwardRequest, forwardProof, forwardOverLink, passBy
<1>10. CASE Medium
  BY <1>10, <1>25, <1>s, <1>m DEF Medium, ignore, lose, cull, forget
<1>11. ASSUME NEW k \in Relays, NEW s \in Slots, freeSlot(k, s) PROVE EndsStep
  BY <1>11, <1>25, <1>s DEF freeSlot
<1> QED
  BY <1>1, <1>2, <1>3, <1>4, <1>5, <1>6, <1>7, <1>8, <1>9, <1>10, <1>11,
     <1>14, <1>15, <1>16, <1>17, <1>18, <1>23 DEF Next, AtEnds, jobs

LEMMA SilentStep == TypeOK /\ Silent /\ [Next]_vars => Silent'
<1> SUFFICES ASSUME TypeOK, Silent, [Next]_vars, initiator'.status = "NONE" PROVE Silent'
  BY DEF Silent
<1>1. initiator.status = "NONE" /\ initiator'.key = initiator.key
  BY EndStep DEF EndsStep, Opening, Offering, Accepting, Confirming, InitiatorEnding,
     ResponderEnding, EndsSame, InitiatorSame
<1>2. /\ initiator.key = 0 /\ air = {} /\ responder.status = "NONE"
      /\ \A k \in Relays, s \in Slots : repairs[k][s].kind = "NONE"
  BY <1>1 DEF Silent
<1>3. responder'.status = "NONE"
  BY <1>1, <1>2, EndStep DEF EndsStep, Opening, Offering, Accepting, Confirming, InitiatorEnding,
     ResponderEnding, EndsSame, ResponderSame
<1>4. CASE tick
  <2>1. air' = {}
    BY <1>2, <1>4 DEF tick
  <2>2. ASSUME NEW k \in Relays, NEW s \in Slots PROVE repairs'[k][s].kind = "NONE"
    <3>1. repairs'[k][s] = [repairs[k][s] EXCEPT !.timer = Less(@)] /\ repairs[k][s] \in Repair
      BY <1>4 DEF tick, TypeOK
    <3> QED BY <1>2, <3>1 DEF Repair
  <2> QED BY <1>1, <1>2, <1>3, <2>1, <2>2 DEF Silent
<1>5. UNCHANGED <<air, repairs>> \/ tick
  <2>1. CASE AtEnds
    BY <1>1, <1>2, <2>1 DEF AtEnds, open, send, teardownInitiator, teardownResponder
  <2>2. CASE jobs
    BY <1>1, <1>2, <2>2 DEF jobs, reapInitiator, reapResponder, eraseResponder, repair_proof,
       repair, freeSlot, SlotDue, EstablishmentTimedOut, HalfOpen, ProofRepairDue
  <2>3. CASE Medium
    BY <1>2, <2>3 DEF Medium, cull, forget
  <2>4. ASSUME NEW k \in Relays, AtRelay(k) PROVE FALSE
    BY <1>2, <2>4 DEF AtRelay
  <2>5. CASE UNCHANGED vars
    BY <2>5 DEF vars
  <2> QED BY <2>1, <2>2, <2>3, <2>4, <2>5 DEF Next
<1> QED BY <1>1, <1>2, <1>3, <1>4, <1>5 DEF Silent

LEMMA IInvInit == Init => IInv
<1> SUFFICES ASSUME Init PROVE IInv
  OBVIOUS
<1>1. TypeOK
  BY TypeInit
<1>2. /\ initiator.status = "NONE" /\ initiator.key = 0 /\ responder.status = "NONE"
      /\ air = {} /\ history.ups = 0 /\ history.responderUps = 0
      /\ \A k \in Relays, s \in Slots : repairs[k][s] = NoRepair
  BY DEF Init, NoLink
<1> QED BY <1>1, <1>2 DEF IInv, Silent, ProofsOffered, KeptOffered, KeepsProof, LinkKeys, HasOffered,
           Once, EstablishedOnce, NoRepair

LEMMA IInvStep == IInv /\ [Next]_vars => IInv'
<1> SUFFICES ASSUME IInv, [Next]_vars PROVE IInv'
  OBVIOUS
<1>0. TypeOK /\ TypeOK' /\ EndsStep
  BY TypeStep, EndStep DEF IInv
<1>p. /\ initiator.key \in Nat /\ responder.key \in Nat /\ history.ups \in Nat
      /\ history.responderUps \in Nat /\ responder'.key \in Nat
  BY <1>0 DEF TypeOK
<1>1. Silent'
  BY <1>0, SilentStep DEF IInv
<1>2. responder'.key >= responder.key
  BY <1>0, <1>p DEF EndsStep, Opening, Offering, Accepting, Confirming, InitiatorEnding,
     ResponderEnding, EndsSame, ResponderSame
<1>3. HasOffered'
  BY <1>0, <1>p DEF IInv, HasOffered, EndsStep, Opening, Offering, Accepting, Confirming,
     InitiatorEnding, ResponderEnding, EndsSame, ResponderSame
<1>4. ProofsOffered'
  <2> SUFFICES ASSUME NEW f \in air', f.pkt.kind = "LRPROOF"
               PROVE  f.pkt.key \in 1 .. responder'.key
    BY DEF ProofsOffered
  <2>1. CASE FromTheAir(f.pkt)
    <3>1. f.pkt.key \in 1 .. responder.key
      BY <2>1 DEF FromTheAir, IInv, ProofsOffered
    <3> QED BY <3>1, <1>p, <1>2
  <2>2. CASE FromTheResponder(f.pkt)
    <3>1. f.pkt.key = responder'.key /\ responder'.key >= 1
      BY <2>2, <1>3 DEF FromTheResponder, Proof, HasOffered
    <3> QED BY <3>1, <1>p
  <2>3. CASE FromARepair(f.pkt)
    <3>1. f.pkt.key \in 1 .. responder.key
      BY <2>3 DEF FromARepair, Proof, IInv, KeptOffered
    <3> QED BY <3>1, <1>p, <1>2
  <2> QED BY <1>0, <2>1, <2>2, <2>3, AirStep DEF Origin, FromTheInitiator
<1>5. KeptOffered'
  <2> SUFFICES ASSUME NEW k \in Relays, NEW s \in Slots, KeepsProof(k, s)'
               PROVE  repairs'[k][s].key \in 1 .. responder'.key
    BY DEF KeptOffered
  <2>1. repairs'[k][s].key \in 1 .. responder.key
    BY <1>0, SlotStep DEF IInv, KeptOffered, ProofsOffered
  <2> QED BY <2>1, <1>p, <1>2
<1>6. LinkKeys'
  <2> SUFFICES ASSUME NEW f \in air', f.pkt.kind \in {"LRRTT", "DATA"}
               PROVE  initiator'.status \in {"ACTIVE", "CLOSED"} /\ f.pkt.key = initiator'.key
    BY DEF LinkKeys
  <2>1. CASE FromTheAir(f.pkt)
    <3>1. initiator.status \in {"ACTIVE", "CLOSED"} /\ f.pkt.key = initiator.key
      BY <2>1 DEF FromTheAir, IInv, LinkKeys
    <3> QED BY <3>1, <1>0 DEF EndsStep, Opening, Offering, Accepting, Confirming,
       InitiatorEnding, ResponderEnding, EndsSame, InitiatorSame
  <2>2. CASE FromTheInitiator(f.pkt)
    BY <2>2 DEF FromTheInitiator
  <2>3. ~FromTheResponder(f.pkt) /\ ~FromARepair(f.pkt)
    <3>1. \A key : f.pkt # Proof(key)
      BY DEF Proof
    <3> QED BY <3>1 DEF FromTheResponder, FromARepair
  <2> QED BY <1>0, <2>1, <2>2, <2>3, AirStep DEF Origin
<1>7. Once'
  BY <1>0, <1>p DEF IInv, Once, EstablishedOnce, EndsStep, Opening, Offering, Accepting, Confirming,
     InitiatorEnding, ResponderEnding, EndsSame, InitiatorSame, ResponderSame, UpsSame
<1> QED BY <1>0, <1>1, <1>3, <1>4, <1>5, <1>6, <1>7 DEF IInv

(* The established callback of either end fires once for a link, however   *)
(* often the proof and the RTT packet are repeated.                        *)
THEOREM OnceEstablished == Spec => []EstablishedOnce
<1>1. IInv => EstablishedOnce
  BY DEF IInv, Once
<1> QED BY <1>1, IInvInit, IInvStep, PTL DEF Spec

-----------------------------------------------------------------------------
(***************************************************************************)
(* The handshake implements the service.                                   *)
(***************************************************************************)
LEMMA ServiceStep == IInv /\ [Next]_vars => [Service!Next]_(Service!svars)
<1> SUFFICES ASSUME IInv, [Next]_vars PROVE [Service!Next]_(Service!svars)
  OBVIOUS
<1>0. TypeOK /\ TypeOK' /\ EndsStep
  BY TypeStep, EndStep DEF IInv
<1>t. /\ initiator.status \in {"NONE", "PENDING", "ACTIVE", "CLOSED"}
      /\ responder.status \in {"NONE", "HANDSHAKE", "ACTIVE", "CLOSED"}
  BY <1>0 DEF TypeOK
<1>i. ASSUME InitiatorSame PROVE CallerState' = CallerState /\ initiator'.key = initiator.key
  BY <1>i DEF InitiatorSame, CallerState
<1>r. ASSUME ResponderSame PROVE CalleeState' = CalleeState /\ responder'.key = responder.key
  BY <1>r DEF ResponderSame, CalleeState
<1>1. CASE Opening
  <2>1. CallerState = "idle" /\ CallerState' = "opening"
    BY <1>1 DEF Opening, CallerState
  <2>2. initiator'.key = initiator.key
    BY <1>1 DEF Opening, IInv, Silent
  <2>3. Service!Call
    BY <1>1, <1>r, <2>1, <2>2 DEF Opening, Service!Call
  <2> QED BY <2>3 DEF Service!Next
<1>2. CASE Offering
  <2>1. CalleeState = "idle" /\ CalleeState' = "opening" /\ responder'.key = responder.key + 1
    BY <1>2 DEF Offering, CalleeState
  <2>2. CallerState # "idle"
    BY <1>2, <1>t DEF Offering, IInv, Silent, CallerState
  <2>3. Service!Offer
    BY <1>2, <1>i, <2>1, <2>2 DEF Offering, Service!Offer
  <2> QED BY <2>3 DEF Service!Next
<1>3. CASE Accepting
  <2>1. CallerState = "opening" /\ CallerState' = "up"
    BY <1>3 DEF Accepting, CallerState
  <2>2. initiator'.key \in 1 .. responder.key
    BY <1>3 DEF Accepting, IInv, ProofsOffered
  <2>3. Service!Accept
    BY <1>3, <1>r, <2>1, <2>2 DEF Accepting, Service!Accept
  <2> QED BY <2>3 DEF Service!Next
<1>4. CASE Confirming
  <2>1. CalleeState = "opening" /\ CalleeState' = "up" /\ responder'.key = responder.key
    BY <1>4 DEF Confirming, CalleeState
  <2>2. initiator.key = responder.key
    BY <1>4 DEF Confirming, IInv, LinkKeys
  <2>3. Service!Confirm
    BY <1>4, <1>i, <2>1, <2>2 DEF Confirming, Service!Confirm
  <2> QED BY <2>3 DEF Service!Next
<1>5. CASE InitiatorEnding
  <2>1. CallerState \in {"opening", "up"} /\ CallerState' = "closed" /\ initiator'.key = initiator.key
    BY <1>5 DEF InitiatorEnding, CallerState
  <2>2. Service!CallerEnds
    BY <1>5, <1>r, <2>1 DEF InitiatorEnding, Service!CallerEnds
  <2> QED BY <2>2 DEF Service!Next
<1>6. CASE ResponderEnding
  <2>1. CalleeState' = "idle" /\ responder'.key = responder.key
    BY <1>6 DEF ResponderEnding, CalleeState
  <2>2. CASE CalleeState \in {"opening", "up"}
    <3>1. Service!CalleeEnds
      BY <1>6, <1>i, <2>1, <2>2 DEF ResponderEnding, Service!CalleeEnds
    <3> QED BY <3>1 DEF Service!Next
  <2>3. CASE CalleeState = "idle"
    BY <1>6, <1>i, <2>1, <2>3 DEF ResponderEnding, Service!svars
  <2> QED BY <1>t, <2>2, <2>3 DEF CalleeState
<1>7. CASE EndsSame
  BY <1>7, <1>i, <1>r DEF EndsSame, Service!svars
<1> QED BY <1>0, <1>1, <1>2, <1>3, <1>4, <1>5, <1>6, <1>7 DEF EndsStep

(* The responder comes up only under the key that the initiator took, the  *)
(* initiator only on a key that the responder offered, whatever is lost,   *)
(* repeated, forgotten, culled or closed on the way.                       *)
THEOREM Refines == Spec => ImplementsService
<1>1. Init => Service!Init
  BY DEF Init, NoLink, Service!Init, CallerState, CalleeState
<1> QED BY <1>1, IInvInit, IInvStep, ServiceStep, PTL DEF Spec, ImplementsService, Service!Spec

-----------------------------------------------------------------------------
(***************************************************************************)
(* How often a proof passes a relay.                                       *)
(*                                                                         *)
(* What a relay passes on is what it awaited: copies that the node beyond  *)
(* it sent, for only those come from the request's distance. A relay may   *)
(* add one as long as it has kept none or keeps one unsent; the            *)
(* destination owes two while it does not remember the request, and one    *)
(* while it has not repaired its proof.                                    *)
(***************************************************************************)
ProofFor(k, f) == f.to = k /\ f.pkt.kind = "LRPROOF" /\ f.hops + k + 1 = Hops
Awaited(a, k) == {f \in a : ProofFor(k, f)}
MayRepair(k) == ~entry[k].proofKept \/ \E s \in Slots : KeepsProof(k, s)
OneIf(b) == IF b THEN 1 ELSE 0
Owed == 2 * OneIf(Request \notin seen[Destination])
          + OneIf(responder.status = "HANDSHAKE" /\ ~responder.repaired)
Passed(k) == history.proofs[k] + Cardinality(Awaited(air, k)) + OneIf(MayRepair(k))

(* A relay keeps one proof, of a link whose entry is validated.            *)
KeepsOne(k) ==
  /\ entry[k].proofKept => entry[k].there /\ entry[k].validated
  /\ \A s \in Slots : KeepsProof(k, s) => entry[k].proofKept
  /\ \A s, t \in Slots : KeepsProof(k, s) /\ KeepsProof(k, t) => s = t
Counted(k) ==
  /\ IsFiniteSet(Awaited(air, k))
  /\ k + 1 < Hops => Passed(k) <= history.proofs[k + 1] + 1
  /\ k + 1 = Hops => Passed(k) + Owed <= 2 * (1 + MishapsSoFar) + 1
Passes == \A k \in Relays : KeepsOne(k) /\ Counted(k)

LEMMA FewerAwaited ==
  ASSUME NEW a, NEW b, NEW k, IsFiniteSet(Awaited(a, k)), \A f \in b : ProofFor(k, f) => f \in a
  PROVE  IsFiniteSet(Awaited(b, k)) /\ Cardinality(Awaited(b, k)) <= Cardinality(Awaited(a, k))
<1>1. Awaited(b, k) \in SUBSET Awaited(a, k)
  BY DEF Awaited
<1> QED BY <1>1, FS_Subset

LEMMA OneMoreAwaited ==
  ASSUME NEW a, NEW b, NEW k, NEW x, IsFiniteSet(Awaited(a, k)),
         \A f \in b : ProofFor(k, f) => f \in a \/ f = x
  PROVE  IsFiniteSet(Awaited(b, k)) /\ Cardinality(Awaited(b, k)) <= Cardinality(Awaited(a, k)) + 1
<1> DEFINE S == Awaited(a, k)
           T == S \cup {x}
<1>1. Awaited(b, k) \in SUBSET T
  BY DEF Awaited
<1>2. IsFiniteSet(T) /\ Cardinality(T) = IF x \in S THEN Cardinality(S) ELSE Cardinality(S) + 1
  BY FS_AddElement
<1>3. IsFiniteSet(Awaited(b, k)) /\ Cardinality(Awaited(b, k)) <= Cardinality(T)
  BY <1>1, <1>2, FS_Subset
<1>4. Cardinality(S) \in Nat /\ Cardinality(Awaited(b, k)) \in Nat
  BY <1>3, FS_CardinalityType
<1> HIDE DEF S, T
<1>5. Cardinality(Awaited(b, k)) <= Cardinality(S) + 1
  BY <1>2, <1>3, <1>4
<1> QED BY <1>3, <1>5 DEF S

LEMMA OneLessAwaited ==
  ASSUME NEW a, NEW b, NEW k, NEW x \in a, ProofFor(k, x), IsFiniteSet(Awaited(a, k)),
         \A f \in b : ProofFor(k, f) => f \in a /\ f # x
  PROVE  IsFiniteSet(Awaited(b, k)) /\ Cardinality(Awaited(b, k)) + 1 <= Cardinality(Awaited(a, k))
<1> DEFINE S == Awaited(a, k)
           T == S \ {x}
<1>1. Awaited(b, k) \in SUBSET T /\ x \in S
  BY DEF Awaited
<1>2. IsFiniteSet(T) /\ Cardinality(T) = Cardinality(S) - 1
  BY <1>1, FS_RemoveElement
<1>3. IsFiniteSet(Awaited(b, k)) /\ Cardinality(Awaited(b, k)) <= Cardinality(T)
  BY <1>1, <1>2, FS_Subset
<1>4. Cardinality(S) \in Nat /\ Cardinality(Awaited(b, k)) \in Nat
  BY <1>3, FS_CardinalityType
<1> HIDE DEF S, T
<1>5. Cardinality(Awaited(b, k)) + 1 <= Cardinality(S)
  BY <1>2, <1>3, <1>4
<1> QED BY <1>3, <1>5 DEF S

LEMMA OlderAwaited ==
  ASSUME NEW a, a \subseteq Frame, NEW k, IsFiniteSet(Awaited(a, k))
  PROVE  LET b == {[f EXCEPT !.age = @ + 1] : f \in a}
         IN  IsFiniteSet(Awaited(b, k)) /\ Cardinality(Awaited(b, k)) <= Cardinality(Awaited(a, k))
<1> DEFINE b == {[f EXCEPT !.age = @ + 1] : f \in a}
           S == Awaited(a, k)
           T == Awaited(b, k)
           older == [f \in S |-> [f EXCEPT !.age = @ + 1]]
<1>1. ASSUME NEW f \in a PROVE ProofFor(k, [f EXCEPT !.age = @ + 1]) <=> ProofFor(k, f)
  <2>1. f \in Frame
    OBVIOUS
  <2> QED BY <2>1 DEF ProofFor, Frame
<1>2. \A f \in S : f \in a /\ ProofFor(k, f)
  BY DEF Awaited
<1>3. \A f \in S : older[f] \in T
  BY <1>1, <1>2 DEF Awaited
<1>4. ASSUME NEW g \in T PROVE \E f \in S : older[f] = g
  <2>1. PICK f \in a : g = [f EXCEPT !.age = @ + 1]
    BY DEF Awaited
  <2>2. f \in S
    BY <1>1, <2>1 DEF Awaited
  <2> QED BY <2>1, <2>2
<1>5. older \in Surjection(S, T)
  BY <1>3, <1>4 DEF Surjection
<1> QED BY <1>5, FS_Surjection

(* A proof that a node sends for the initiator is awaited by the relay     *)
(* before it, and by no other.                                             *)
LEMMA SentBefore ==
  ASSUME NEW n \in Nodes, NEW hops \in Nat, hops + n = Hops, NEW pkt, NEW via, NEW k \in Relays,
         NEW f \in Transmit(n, pkt, hops, via), ProofFor(k, f)
  PROVE  k + 1 = n /\ f = [pkt |-> pkt, hops |-> hops, via |-> via, to |-> k, age |-> 0]
<1>1. k \in Nat /\ n \in Nat /\ Hops \in Nat
  BY Constants
<1>2. f.hops = hops /\ f.to = k
  BY DEF Transmit, ProofFor
<1> QED BY <1>1, <1>2 DEF Transmit, ProofFor

LEMMA ProofSent ==
  ASSUME NEW a, NEW b, NEW n \in Nodes, NEW hops \in Nat, hops + n = Hops, NEW pkt, NEW via,
         b \subseteq a \cup Transmit(n, pkt, hops, via),
         NEW k \in Relays, IsFiniteSet(Awaited(a, k))
  PROVE  /\ IsFiniteSet(Awaited(b, k))
         /\ Cardinality(Awaited(b, k)) <= Cardinality(Awaited(a, k)) + OneIf(k + 1 = n)
<1>0. Cardinality(Awaited(a, k)) \in Nat
  BY FS_CardinalityType
<1>1. CASE k + 1 = n
  <2> DEFINE x == [pkt |-> pkt, hops |-> hops, via |-> via, to |-> k, age |-> 0]
  <2>1. \A f \in b : ProofFor(k, f) => f \in a \/ f = x
    BY SentBefore
  <2> HIDE DEF x
  <2>2. IsFiniteSet(Awaited(b, k)) /\ Cardinality(Awaited(b, k)) <= Cardinality(Awaited(a, k)) + 1
    BY <2>1, OneMoreAwaited
  <2> QED BY <1>1, <2>2 DEF OneIf
<1>2. CASE k + 1 # n
  <2>1. \A f \in b : ProofFor(k, f) => f \in a
    BY <1>2, SentBefore
  <2>2. IsFiniteSet(Awaited(b, k)) /\ Cardinality(Awaited(b, k)) <= Cardinality(Awaited(a, k))
    BY <2>1, FewerAwaited
  <2> QED BY <1>0, <1>2, <2>2 DEF OneIf
<1> QED BY <1>1, <1>2

-----------------------------------------------------------------------------
(* What the destination still owes.                                        *)
Knows == Request \in seen[Destination]
Owes  == responder.status = "HANDSHAKE" /\ ~responder.repaired

LEMMA OwedParts ==
  /\ Owed = (IF Knows THEN 0 ELSE 2) + (IF Owes THEN 1 ELSE 0)
  /\ Owed' = (IF Knows' THEN 0 ELSE 2) + (IF Owes' THEN 1 ELSE 0)
  /\ Owed \in Nat /\ Owed' \in Nat
<1>1. Owed = (IF Knows THEN 0 ELSE 2) + (IF Owes THEN 1 ELSE 0)
  BY DEF Owed, Knows, Owes, OneIf
<1>2. Owed' = (IF Knows' THEN 0 ELSE 2) + (IF Owes' THEN 1 ELSE 0)
  BY DEF Owed, Knows, Owes, OneIf
<1> QED BY <1>1, <1>2

(* The hashlist of a node only loses what the node forgets, and only a     *)
(* request taken as new makes the responder owe a repair.                  *)
LEMMA KnowsStep ==
  ASSUME TypeOK, [Next]_vars, Knows, ~Knows'
  PROVE  \E n \in Nodes : \E pkt \in seen[n] : forget(n, pkt)
<1>0. seen \in [Nodes -> SUBSET Packet] /\ Destination \in Nodes
  BY Constants DEF TypeOK
<1>1. seen' # seen
  BY DEF Knows
<1>2. ASSUME NEW n \in Nodes, NEW pkt, seen' = Remembering(n, pkt) PROVE FALSE
  <2>1. seen[Destination] \subseteq seen'[Destination]
    BY <1>0, <1>2 DEF Remembering
  <2> QED BY <2>1 DEF Knows
<1>3. ASSUME NEW n \in Nodes, NEW kind, NEW key, NEW heard, SendOver(n, kind, key, heard) PROVE FALSE
  BY <1>2, <1>3 DEF SendOver
<1>4. Initiator \in Nodes /\ Relays \subseteq Nodes
  BY Constants
<1>5. ~(open \/ send \/ teardownInitiator \/ teardownResponder)
  BY <1>0, <1>1, <1>3, <1>4 DEF open, send, teardownInitiator, teardownResponder
<1>6. ASSUME NEW f \in air, \/ validate_request(f) \/ validate_proof(f)
                            \/ receiveAtResponder(f) \/ receiveAtInitiator(f)
      PROVE FALSE
  BY <1>0, <1>2, <1>3, <1>4, <1>6 DEF validate_request, validate_proof, receiveAtResponder,
     receiveAtInitiator
<1>7. ASSUME NEW k \in Relays, AtRelay(k) PROVE FALSE
  BY <1>1, <1>2, <1>4, <1>7 DEF AtRelay, forwardRequest, forwardProof, forwardOverLink, passBy
<1>8. ~jobs
  BY <1>0, <1>1, <1>3 DEF jobs, reapInitiator, reapResponder, eraseResponder, repair_proof, repair,
     freeSlot
<1>9. ~tick /\ ~(UNCHANGED vars)
  BY <1>1 DEF tick, vars
<1>10. Medium
  BY <1>5, <1>6, <1>7, <1>8, <1>9 DEF Next, AtEnds
<1> QED BY <1>1, <1>10 DEF Medium, ignore, lose, cull

LEMMA OwesStep ==
  ASSUME TypeOK, [Next]_vars, ~Owes, Owes'
  PROVE  \E f \in air : validate_request(f) /\ ~find_active_link
<1>0. responder \in ResponderLink
  BY TypeParts
<1>1. responder' # responder
  BY DEF Owes
<1>2. ASSUME responder'.status # "HANDSHAKE" PROVE FALSE
  BY <1>2 DEF Owes
<1>3. ASSUME responder'.status = responder.status, responder'.repaired = responder.repaired PROVE FALSE
  BY <1>3 DEF Owes
<1>4. ASSUME NEW key, responder' = NoLink(key) \/ responder' = [NoLink(key) EXCEPT !.status = "CLOSED"]
      PROVE FALSE
  BY <1>2, <1>4, EndFields
<1>5. ~(open \/ send \/ teardownInitiator \/ teardownResponder)
  BY <1>1, <1>4 DEF open, send, teardownInitiator, teardownResponder
<1>6. ASSUME NEW f \in air, receiveAtResponder(f) PROVE FALSE
  <2>1. ASSUME responder' = [responder EXCEPT !.status = "ACTIVE", !.timer = 0, !.proofTimer = 0]
        PROVE FALSE
    BY <1>0, <1>2, <2>1, EndFields
  <2> QED BY <1>1, <1>4, <1>6, <2>1 DEF receiveAtResponder
<1>7. ASSUME NEW t, responder' = [responder EXCEPT !.proofTimer = t] PROVE FALSE
  <2>1. responder'.status = responder.status /\ responder'.repaired = responder.repaired
    BY <1>0, <1>7 DEF ResponderLink
  <2> QED BY <1>3, <2>1
<1>8. ASSUME NEW f \in air, validate_request(f) PROVE ~find_active_link
  BY <1>1, <1>7, <1>8 DEF validate_request
<1>9. ASSUME NEW f \in air, validate_proof(f) \/ receiveAtInitiator(f) PROVE FALSE
  BY <1>1, <1>9 DEF validate_proof, receiveAtInitiator
<1>10. ASSUME NEW k \in Relays, AtRelay(k) PROVE FALSE
  BY <1>1, <1>10 DEF AtRelay, forwardRequest, forwardProof, forwardOverLink, passBy
<1>11. ~repair_proof
  <2>1. SUFFICES ASSUME repair_proof PROVE FALSE
    OBVIOUS
  <2>2. responder'.repaired = TRUE
    BY <1>0, <2>1 DEF repair_proof, ResponderLink
  <2> QED BY <2>2 DEF Owes
<1>12. ~jobs
  BY <1>1, <1>4, <1>11 DEF jobs, reapInitiator, reapResponder, eraseResponder, repair, freeSlot
<1>13. ~tick
  <2>1. SUFFICES ASSUME tick PROVE FALSE
    OBVIOUS
  <2>2. responder'.status = responder.status /\ responder'.repaired = responder.repaired
    BY <1>0, <2>1 DEF tick, ResponderLink
  <2> QED BY <1>3, <2>2
<1>14. ~Medium /\ ~(UNCHANGED vars)
  BY <1>1 DEF Medium, ignore, lose, cull, forget, vars
<1> QED BY <1>5, <1>6, <1>8, <1>9, <1>10, <1>12, <1>13, <1>14 DEF Next, AtEnds

(* The mishaps are counted.                                                *)
LEMMA MishapsStep ==
  ASSUME TypeOK, TypeOK', [Next]_vars
  PROVE  /\ MishapsSoFar \in Nat /\ MishapsSoFar' \in Nat /\ MishapsSoFar <= MishapsSoFar'
         /\ \A n \in Nodes : \A pkt \in seen[n] :
              forget(n, pkt) => MishapsSoFar' = MishapsSoFar + 1
<1>0. /\ budget \in [mishaps : 0 .. MaxMishaps, data : 0 .. MaxData]
      /\ budget' \in [mishaps : 0 .. MaxMishaps, data : 0 .. MaxData]
      /\ MaxMishaps \in Nat
  BY Constants DEF TypeOK
<1>1. ASSUME NEW kind, NEW pkt, NEW hops, Mishap(kind, pkt, hops)
      PROVE  budget'.mishaps = budget.mishaps - 1
  BY <1>0, <1>1 DEF Mishap
<1>2. \/ budget'.mishaps = budget.mishaps
      \/ budget'.mishaps = budget.mishaps - 1
  <2>1. CASE send
    BY <1>0, <2>1 DEF send
  <2>2. CASE teardownInitiator \/ teardownResponder
    BY <1>1, <2>2 DEF teardownInitiator, teardownResponder
  <2>3. CASE Medium
    BY <1>1, <2>3 DEF Medium, ignore, lose, cull, forget
  <2>4. CASE open \/ jobs \/ tick \/ UNCHANGED vars
    BY <2>4 DEF open, jobs, reapInitiator, reapResponder, eraseResponder, repair_proof, repair,
       freeSlot, tick, vars
  <2>5. ASSUME NEW k \in Relays, AtRelay(k) PROVE budget' = budget
    BY <2>5 DEF AtRelay, forwardRequest, forwardProof, forwardOverLink, passBy
  <2>6. ASSUME NEW f \in air, \/ validate_request(f) \/ validate_proof(f)
                              \/ receiveAtResponder(f) \/ receiveAtInitiator(f)
        PROVE budget' = budget
    BY <2>6 DEF validate_request, validate_proof, receiveAtResponder, receiveAtInitiator
  <2> QED BY <2>1, <2>2, <2>3, <2>4, <2>5, <2>6 DEF Next, AtEnds
<1>3. ASSUME NEW n \in Nodes, NEW pkt \in seen[n], forget(n, pkt)
      PROVE  budget'.mishaps = budget.mishaps - 1
  BY <1>1, <1>3 DEF forget
<1> QED BY <1>0, <1>2, <1>3 DEF MishapsSoFar

LEMMA TakenAsNew ==
  ASSUME TypeOK, NEW f \in air, validate_request(f)
  PROVE  ~Knows /\ Knows'
<1>1. seen \in [Nodes -> SUBSET Packet] /\ Destination \in Nodes
  BY Constants DEF TypeOK
<1>2. f.pkt = Request /\ Request.kind = "LINKREQUEST" /\ ~InHashlist(Destination, f)
  BY DEF validate_request, Filtered, Request
<1>3. ~Knows
  BY <1>2 DEF InHashlist, Knows
<1>4. Knows'
  BY <1>1 DEF validate_request, Remembering, Knows
<1> QED BY <1>3, <1>4

(* The steps at which the destination sends a proof.                       *)
Proves == \/ \E f \in air : validate_request(f) /\ responder.status \in {"NONE", "HANDSHAKE"}
          \/ repair_proof

LEMMA OwedStep ==
  ASSUME TypeOK, TypeOK', [Next]_vars
  PROVE  /\ Owed \in Nat /\ Owed' \in Nat
         /\ Owed' + 2 * MishapsSoFar <= Owed + 2 * MishapsSoFar'
         /\ Proves => Owed' + 1 <= Owed
<1>1. CASE Owes' /\ ~Owes
  <2>1. ~Knows /\ Knows'
    BY <1>1, OwesStep, TakenAsNew
  <2>2. Owed = 2 /\ Owed' = 1
    BY <1>1, <2>1, OwedParts
  <2> QED BY <2>2, MishapsStep
<1>2. CASE (Owes' => Owes) /\ Knows /\ ~Knows'
  <2>1. PICK n \in Nodes : \E pkt \in seen[n] : forget(n, pkt)
    BY <1>2, KnowsStep
  <2>2. MishapsSoFar' = MishapsSoFar + 1
    BY <2>1, MishapsStep
  <2>3. Owed' <= Owed + 2
    BY <1>2, OwedParts
  <2>4. ~Proves
    <3>1. ASSUME NEW f \in air, validate_request(f) PROVE FALSE
      BY <3>1, <1>2, TakenAsNew
    <3>2. ASSUME repair_proof PROVE FALSE
      <4>1. seen' = seen
        BY <3>2 DEF repair_proof
      <4> QED BY <4>1, <1>2 DEF Knows
    <3> QED BY <3>1, <3>2 DEF Proves
  <2> QED BY <2>2, <2>3, <2>4, OwedParts, MishapsStep
<1>3. CASE (Owes' => Owes) /\ (Knows => Knows')
  <2>1. Owed' <= Owed
    BY <1>3, OwedParts
  <2>2. ASSUME NEW f \in air, validate_request(f) PROVE Owed' + 1 <= Owed
    <3>1. ~Knows /\ Knows'
      BY <2>2, TakenAsNew
    <3> QED BY <1>3, <3>1, OwedParts
  <2>3. ASSUME repair_proof PROVE Owed' + 1 <= Owed
    <3>1. Owes
      BY <2>3 DEF repair_proof, ProofRepairDue, Owes
    <3>2. responder'.repaired = TRUE
      BY <2>3, TypeParts DEF repair_proof, ResponderLink
    <3>3. ~Owes'
      BY <3>2 DEF Owes
    <3> QED BY <1>3, <3>1, <3>3, OwedParts
  <2>4. Owed' + 2 * MishapsSoFar <= Owed + 2 * MishapsSoFar'
    BY <2>1, OwedParts, MishapsStep
  <2> QED BY <2>2, <2>3, <2>4, OwedParts DEF Proves
<1> QED BY <1>1, <1>2, <1>3

-----------------------------------------------------------------------------
(* A relay's slots and its entry: what it has kept, it keeps once.         *)
LEMMA KeptAlone ==
  ASSUME NEW slots \in [Slots -> Repair], NEW kind, NEW key, NEW wait
  PROVE  \E s \in Slots : \A t \in Slots : t # s => Keep(slots, kind, key, wait)[t] = slots[t]
<1>1. 1 \in Slots
  BY HandshakeAssumption DEF Slots
<1>2. DEFINE free == {s \in Slots : slots[s] = NoRepair}
             s == CHOOSE s \in free : \A t \in free : s <= t
<1>3. CASE free = {}
  BY <1>1, <1>3 DEF Keep
<1>4. CASE free # {}
  <2>1. Keep(slots, kind, key, wait) =
          [slots EXCEPT ![s] = [kind |-> kind, key |-> key, timer |-> wait, resent |-> FALSE]]
    BY <1>4 DEF Keep
  <2> HIDE DEF s
  <2>2. CASE s \in Slots
    BY <2>1, <2>2
  <2>3. CASE s \notin Slots
    BY <1>1, <2>1, <2>3
  <2> QED BY <2>2, <2>3
<1> QED BY <1>3, <1>4

(* A relay remembers that it kept a proof until the end; it keeps one only *)
(* when it has kept none.                                                  *)
LEMMA EntryStep ==
  ASSUME TypeOK, [Next]_vars, NEW k \in Relays, KeepsOne(k)
  PROVE  \/ /\ entry'[k].proofKept = entry[k].proofKept
            /\ entry[k].proofKept => entry'[k].there /\ entry'[k].validated
         \/ /\ \E g \in air : forwardProof(k, g)
            /\ ~entry[k].proofKept
            /\ entry'[k].there /\ entry'[k].validated /\ entry'[k].proofKept
<1> DEFINE Stays == /\ entry'[k].proofKept = entry[k].proofKept
                    /\ entry[k].proofKept => entry'[k].there /\ entry'[k].validated
<1>0. /\ entry \in [Relays -> Entry] /\ entry[k] \in Entry
      /\ entry[k].proofKept => entry[k].there /\ entry[k].validated
      /\ entry[k].proofKept \in BOOLEAN
  BY DEF TypeOK, KeepsOne, Entry
<1>1. ASSUME entry'[k] = entry[k] PROVE Stays
  BY <1>0, <1>1
<1>2. ASSUME NEW j \in Relays, NEW g \in air, forwardRequest(j, g) PROVE Stays
  <2>1. CASE j = k /\ ~entry[k].there
    <3>1. entry'[k] = [NoEntry EXCEPT !.there = TRUE, !.timer = ProofTimeout(k)]
      BY <1>0, <1>2, <2>1 DEF forwardRequest
    <3>2. entry'[k].proofKept = FALSE
      BY <3>1 DEF NoEntry
    <3> QED BY <1>0, <2>1, <3>2
  <2>2. CASE ~(j = k /\ ~entry[k].there)
    <3>1. entry'[k] = entry[k]
      BY <1>0, <1>2, <2>2 DEF forwardRequest
    <3> QED BY <3>1, <1>1
  <2> QED BY <2>1, <2>2
<1>3. ASSUME NEW j \in Relays, cull(j) PROVE Stays
  <2>1. CASE j = k
    <3>1. entry'[k] = NoEntry /\ ~entry[k].validated
      BY <1>0, <1>3, <2>1 DEF cull
    <3>2. entry'[k].proofKept = FALSE
      BY <3>1 DEF NoEntry
    <3> QED BY <1>0, <3>1, <3>2
  <2>2. CASE j # k
    BY <1>0, <1>1, <1>3, <2>2 DEF cull
  <2> QED BY <2>1, <2>2
<1>4. CASE tick
  <2>1. entry'[k] = [entry[k] EXCEPT !.timer = Less(@)]
    BY <1>4 DEF tick
  <2> QED BY <1>0, <2>1 DEF Entry
<1>5. ASSUME NEW j \in Relays, NEW g \in air, forwardProof(j, g)
      PROVE  Stays \/ /\ j = k /\ ~entry[k].proofKept
                      /\ entry'[k].there /\ entry'[k].validated /\ entry'[k].proofKept
  <2>1. CASE j = k
    <3>1. entry'[k] = [entry[k] EXCEPT !.validated = TRUE, !.proofKept = TRUE, !.timer = 0]
      BY <1>0, <1>5, <2>1 DEF forwardProof
    <3>2. entry[k].there = TRUE
      BY <1>0, <1>5, <2>1 DEF forwardProof, Entry
    <3>3. entry'[k].there = TRUE /\ entry'[k].validated = TRUE /\ entry'[k].proofKept = TRUE
      BY <1>0, <3>1, <3>2 DEF Entry
    <3> QED BY <1>0, <2>1, <3>3
  <2>2. CASE j # k
    BY <1>0, <1>1, <1>5, <2>2 DEF forwardProof
  <2> QED BY <2>1, <2>2
<1>6. CASE UNCHANGED entry
  BY <1>6, <1>1
<1>7. \/ UNCHANGED entry \/ tick
      \/ \E j \in Relays : cull(j)
      \/ \E j \in Relays, g \in air : forwardRequest(j, g) \/ forwardProof(j, g)
  <2>1. CASE AtEnds \/ UNCHANGED vars
    BY <2>1 DEF AtEnds, vars, open, send, teardownInitiator, teardownResponder,
       validate_request, validate_proof, receiveAtResponder, receiveAtInitiator
  <2>2. CASE jobs
    BY <2>2 DEF jobs, reapInitiator, reapResponder, eraseResponder, repair_proof, repair, freeSlot
  <2>3. ASSUME NEW j \in Relays, AtRelay(j)
        PROVE  UNCHANGED entry \/ \E g \in air : forwardRequest(j, g) \/ forwardProof(j, g)
    BY <2>3 DEF AtRelay, forwardOverLink, passBy
  <2>4. CASE Medium
    BY <2>4 DEF Medium, ignore, lose, forget
  <2> QED BY <2>1, <2>2, <2>3, <2>4 DEF Next
<1> QED BY <1>2, <1>3, <1>4, <1>5, <1>6, <1>7

LEMMA KeepsStep ==
  ASSUME TypeOK, [Next]_vars, NEW k \in Relays, KeepsOne(k)
  PROVE  KeepsOne(k)' /\ (MayRepair(k)' => MayRepair(k))
<1>k. /\ entry[k].proofKept => entry[k].there /\ entry[k].validated
      /\ \A s \in Slots : KeepsProof(k, s) => entry[k].proofKept
      /\ \A s, t \in Slots : KeepsProof(k, s) /\ KeepsProof(k, t) => s = t
  BY DEF KeepsOne
<1>1. CASE ~entry[k].proofKept /\ \E g \in air : forwardProof(k, g)
  <2>0. PICK g \in air : forwardProof(k, g)
    BY <1>1
  <2> DEFINE answered == Answered(repairs[k], "LINKREQUEST")
  <2>1. repairs[k] \in [Slots -> Repair] /\ answered \in [Slots -> Repair]
    BY SlotTypes DEF TypeOK
  <2>2. repairs'[k] = Keep(answered, "LINKPROOF", g.pkt.key, RepairWait(k))
    BY <1>1, <2>0 DEF forwardProof, TypeOK
  <2>3. ASSUME NEW t \in Slots PROVE ~(answered[t].kind = "LINKPROOF" /\ ~answered[t].resent)
    BY <1>1, <1>k DEF Answered, NoRepair, KeepsProof
  <2> HIDE DEF answered
  <2>4. PICK s \in Slots : \A t \in Slots : repairs'[k][t] = answered[t] \/ t = s
    BY <2>1, <2>2, KeptAlone
  <2>5. ASSUME NEW t \in Slots, KeepsProof(k, t)' PROVE t = s
    BY <2>3, <2>4, <2>5 DEF KeepsProof
  <2>6. entry'[k].there /\ entry'[k].validated /\ entry'[k].proofKept
    <3>1. entry[k] \in Entry /\ entry[k].there
      BY <2>0 DEF forwardProof, TypeOK
    <3>2. entry'[k] = [entry[k] EXCEPT !.validated = TRUE, !.proofKept = TRUE, !.timer = 0]
      BY <2>0 DEF forwardProof, TypeOK
    <3> QED BY <3>1, <3>2 DEF Entry
  <2>7. KeepsOne(k)'
    BY <2>5, <2>6 DEF KeepsOne
  <2> QED BY <1>1, <2>7 DEF MayRepair
<1>2. CASE ~(~entry[k].proofKept /\ \E g \in air : forwardProof(k, g))
  <2>1. /\ entry'[k].proofKept = entry[k].proofKept
        /\ entry[k].proofKept => entry'[k].there /\ entry'[k].validated
    BY <1>2, EntryStep
  <2>2. ASSUME NEW s \in Slots, KeepsProof(k, s)' PROVE KeepsProof(k, s)
    BY <1>2, <2>2, SlotStep
  <2>3. KeepsOne(k)'
    BY <1>k, <2>1, <2>2 DEF KeepsOne
  <2>4. MayRepair(k)' => MayRepair(k)
    BY <2>1, <2>2 DEF MayRepair
  <2> QED BY <2>3, <2>4
<1> QED BY <1>1, <1>2

-----------------------------------------------------------------------------
(* What a step does to the proofs under way: it adds none, the destination *)
(* sends one, a relay passes on one it awaited, or sends again the one it  *)
(* keeps.                                                                  *)
ProofsSame    == history'.proofs = history.proofs
OneMoreAt(j)  == history'.proofs = [history.proofs EXCEPT ![j] = @ + 1]
Quiet         == \A k \in Relays : \A f \in air' : ProofFor(k, f) => f \in air
Ages          == air' = {[f EXCEPT !.age = @ + 1] : f \in air}
Sends(a, n, hops) == \E pkt : air' \subseteq a \cup Transmit(n, pkt, hops, NoOne)

Proving       == Proves /\ ProofsSame /\ Sends(air, Destination, 0)
Passing(j)    == \E g \in air : ProofFor(j, g) /\ OneMoreAt(j) /\ Sends(air \ {g}, j, Hops - j)
Repairing(j)  == /\ MayRepair(j) /\ (KeepsOne(j) => ~MayRepair(j)')
                 /\ OneMoreAt(j) /\ Sends(air, j, Hops - j)
ProofStep == \/ ProofsSame /\ (Quiet \/ Ages)
             \/ Proving \/ \E j \in Relays : Passing(j) \/ Repairing(j)

LEMMA HistoryProofs ==
  ASSUME NEW h \in History
  PROVE  /\ h.proofs \in [Relays -> Nat]
         /\ [h EXCEPT !.ups = @ + 1].proofs = h.proofs
         /\ [h EXCEPT !.responderUps = @ + 1].proofs = h.proofs
         /\ [h EXCEPT !.responderUps = 0].proofs = h.proofs
         /\ \A x : /\ [h EXCEPT !.reaped = x].proofs = h.proofs
                   /\ [h EXCEPT !.mishaps = x].proofs = h.proofs
                   /\ [h EXCEPT !.proofs[x] = @ + 1].proofs = [h.proofs EXCEPT ![x] = @ + 1]
BY DEF History

LEMMA SentQuiet ==
  ASSUME NEW n, NEW pkt, pkt.kind # "LRPROOF", NEW hops, NEW via,
         air' \subseteq air \cup Transmit(n, pkt, hops, via)
  PROVE  Quiet
BY DEF Quiet, ProofFor, Transmit

LEMMA ProofsStep ==
  ASSUME TypeOK, [Next]_vars
  PROVE  ProofStep
<1>0. /\ history \in History /\ repairs \in [Relays -> [Slots -> Repair]] /\ air \subseteq Frame
      /\ responder \in ResponderLink
  BY TypeParts
<1>k. Request.kind = "LINKREQUEST" /\ \A kind, key, id : OverLink(kind, key, id).kind = kind
  BY DEF Request, OverLink
<1>q. ASSUME ProofsSame, Quiet PROVE ProofStep
  BY <1>q DEF ProofStep
<1>a. ASSUME air' \subseteq air PROVE Quiet
  BY <1>a DEF Quiet
<1>m. ASSUME NEW kind, NEW pkt, NEW hops, Mishap(kind, pkt, hops) PROVE ProofsSame
  BY <1>m, <1>0, HistoryProofs DEF Mishap, ProofsSame
<1>h. ASSUME UNCHANGED history PROVE ProofsSame
  BY <1>h DEF ProofsSame
<1>s. ASSUME NEW n, NEW kind \in {"LRRTT", "DATA", "LINKCLOSE"}, NEW key, NEW heard,
             SendOver(n, kind, key, heard)
      PROVE  Quiet
  <2>1. OverLink(kind, key, serial + 1).kind # "LRPROOF"
    BY <1>k
  <2>2. air' \subseteq air \cup Transmit(n, OverLink(kind, key, serial + 1), 0, NoOne)
    BY <1>s DEF SendOver
  <2> QED BY <2>1, <2>2, SentQuiet
<1>1. CASE open
  <2>1. PICK via : air' = air \cup Transmit(Initiator, Request, 0, via)
    BY <1>1 DEF open
  <2>2. Quiet
    BY <1>k, <2>1, SentQuiet
  <2> QED BY <1>1, <1>h, <1>q, <2>2 DEF open
<1>2. CASE send
  BY <1>2, <1>h, <1>q, <1>s DEF send
<1>3. CASE teardownInitiator
  <2>1. ProofsSame
    BY <1>3, <1>m DEF teardownInitiator
  <2>2. Quiet
    BY <1>3, <1>s, <1>a DEF teardownInitiator
  <2> QED BY <1>q, <2>1, <2>2
<1>4. CASE teardownResponder
  <2>1. ProofsSame /\ Quiet
    BY <1>4, <1>m, <1>s DEF teardownResponder
  <2> QED BY <1>q, <2>1
<1>5. ASSUME NEW f \in air, validate_request(f) PROVE ProofStep
  <2>1. ProofsSame
    BY <1>5, <1>0, <1>h, HistoryProofs DEF validate_request, ProofsSame
  <2>2. CASE responder.status \in {"NONE", "HANDSHAKE"}
    <3>1. Sends(air, Destination, 0)
      BY <1>5, <2>2 DEF validate_request, Sends, find_active_link
    <3>2. Proves
      BY <1>5, <2>2 DEF Proves
    <3> QED BY <2>1, <3>1, <3>2 DEF ProofStep, Proving
  <2>3. CASE responder.status \notin {"NONE", "HANDSHAKE"}
    <3>1. air' \subseteq air
      BY <1>5, <2>3 DEF validate_request, find_active_link
    <3> QED BY <1>a, <1>q, <2>1, <3>1
  <2> QED BY <2>2, <2>3
<1>6. ASSUME NEW f \in air, validate_proof(f) PROVE ProofStep
  <2>1. ProofsSame
    BY <1>6, <1>0, <1>h, HistoryProofs DEF validate_proof, ProofsSame
  <2>2. Quiet
    BY <1>6, <1>s DEF validate_proof
  <2> QED BY <1>q, <2>1, <2>2
<1>7. ASSUME NEW f \in air, receiveAtResponder(f) PROVE ProofStep
  <2>1. ProofsSame
    BY <1>7, <1>0, <1>h, HistoryProofs DEF receiveAtResponder, ProofsSame
  <2> QED BY <1>7, <1>a, <1>q, <2>1 DEF receiveAtResponder
<1>8. ASSUME NEW f \in air, receiveAtInitiator(f) PROVE ProofStep
  BY <1>8, <1>a, <1>h, <1>q DEF receiveAtInitiator
<1>9. ASSUME NEW j \in Relays, NEW g \in air, forwardRequest(j, g) PROVE ProofStep
  <2>1. air' \subseteq air \cup Transmit(j, Request, Distance(g), NextHop(j))
    BY <1>9 DEF forwardRequest
  <2>2. Quiet
    BY <1>k, <2>1, SentQuiet
  <2> QED BY <1>9, <1>h, <1>q, <2>2 DEF forwardRequest
<1>10. ASSUME NEW j \in Relays, NEW g \in air, forwardProof(j, g) PROVE ProofStep
  <2>1. j \in Nat /\ Hops \in Nat /\ g.hops \in Nat
    BY <1>0, Constants DEF Frame
  <2>2. Distance(g) = Hops - j /\ g.to = j /\ g.pkt.kind = "LRPROOF"
    BY <1>10 DEF forwardProof, FromRequestDistance, Heard
  <2>3. ProofFor(j, g)
    BY <2>1, <2>2 DEF ProofFor, Distance
  <2>4. OneMoreAt(j)
    BY <1>10, <1>0, HistoryProofs DEF forwardProof, OneMoreAt
  <2>5. air' \subseteq (air \ {g}) \cup Transmit(j, g.pkt, Hops - j, NoOne)
    BY <1>10, <2>2 DEF forwardProof
  <2> QED BY <2>3, <2>4, <2>5 DEF ProofStep, Passing, Sends
<1>11. ASSUME NEW j \in Relays, NEW g \in air, forwardOverLink(j, g) PROVE ProofStep
  <2>1. air' \subseteq air \cup Transmit(j, g.pkt, Distance(g), NoOne) /\ g.pkt.kind # "LRPROOF"
    BY <1>11 DEF forwardOverLink, IsOverLink
  <2>2. Quiet
    BY <2>1, SentQuiet
  <2> QED BY <1>11, <1>h, <1>q, <2>2 DEF forwardOverLink
<1>12. ASSUME NEW j \in Relays, NEW g \in air, passBy(j, g) PROVE ProofStep
  BY <1>12, <1>a, <1>h, <1>q DEF passBy
<1>13. CASE reapInitiator \/ eraseResponder
  <2>1. CASE reapInitiator
    <3>1. ProofsSame
      BY <2>1, <1>0, HistoryProofs DEF reapInitiator, ProofsSame
    <3> QED BY <2>1, <1>a, <1>q, <3>1 DEF reapInitiator
  <2>2. CASE eraseResponder
    BY <2>2, <1>a, <1>h, <1>q DEF eraseResponder
  <2> QED BY <1>13, <2>1, <2>2
<1>14. CASE reapResponder
  <2>1. ProofsSame
    BY <1>14, <1>0, HistoryProofs DEF reapResponder, ProofsSame
  <2>2. Quiet
    BY <1>14, <1>s DEF reapResponder
  <2> QED BY <1>q, <2>1, <2>2
<1>15. CASE repair_proof
  BY <1>15, <1>h DEF repair_proof, ProofStep, Proving, Proves, Sends
<1>16. ASSUME NEW j \in Relays, NEW s \in Slots, repair(j, s) PROVE ProofStep
  <2>0. repairs[j][s] \in Repair /\ repairs[j][s].kind # "NONE" /\ ~repairs[j][s].resent
    BY <1>0, <1>16 DEF repair, SlotDue, Spent
  <2>1. CASE repairs[j][s].kind = "LINKREQUEST"
    <3>1. air' = air \cup Transmit(j, Request, j, NextHop(j)) /\ UNCHANGED history
      BY <1>16, <2>1 DEF repair, Resend
    <3>2. Quiet
      BY <1>k, <3>1, SentQuiet
    <3> QED BY <1>h, <1>q, <3>1, <3>2
  <2>2. CASE repairs[j][s].kind = "LINKPROOF"
    <3>1. /\ air' = air \cup Transmit(j, Proof(repairs[j][s].key), Hops - j, NoOne)
          /\ history' = [history EXCEPT !.proofs[j] = @ + 1]
      BY <1>16, <2>2 DEF repair, Resend
    <3>2. OneMoreAt(j) /\ Sends(air, j, Hops - j)
      BY <1>0, <3>1, HistoryProofs DEF OneMoreAt, Sends
    <3>3. KeepsProof(j, s)
      BY <2>0, <2>2 DEF KeepsProof
    <3>4. repairs'[j][s].resent = TRUE /\ \A t \in Slots \ {s} : repairs'[j][t] = repairs[j][t]
      BY <1>0, <1>16 DEF repair, Repair
    <3>5. ASSUME KeepsOne(j) PROVE ~MayRepair(j)'
      <4>1. \A t \in Slots : ~KeepsProof(j, t)'
        BY <3>3, <3>4, <3>5 DEF KeepsOne, KeepsProof
      <4>2. entry'[j].proofKept
        BY <1>16, <3>3, <3>5 DEF KeepsOne, repair
      <4> QED BY <4>1, <4>2 DEF MayRepair
    <3> QED BY <3>2, <3>3, <3>5 DEF ProofStep, Repairing, MayRepair
  <2> QED BY <2>0, <2>1, <2>2 DEF Repair
<1>17. ASSUME NEW j \in Relays, NEW s \in Slots, freeSlot(j, s) PROVE ProofStep
  BY <1>17, <1>a, <1>h, <1>q DEF freeSlot
<1>18. CASE Medium
  <2>1. air' \subseteq air
    BY <1>18 DEF Medium, ignore, lose, cull, forget
  <2>2. ProofsSame
    BY <1>18, <1>h, <1>m DEF Medium, ignore, lose, cull, forget
  <2> QED BY <1>a, <1>q, <2>1, <2>2
<1>19. CASE tick
  BY <1>19, <1>h DEF tick, ProofStep, Ages
<1>20. CASE UNCHANGED vars
  BY <1>20, <1>a, <1>h, <1>q DEF vars
<1> QED
  BY <1>1, <1>2, <1>3, <1>4, <1>5, <1>6, <1>7, <1>8, <1>9, <1>10, <1>11, <1>12, <1>13, <1>14,
     <1>15, <1>16, <1>17, <1>18, <1>19, <1>20 DEF Next, AtEnds, AtRelay, jobs

LEMMA PassedParts ==
  ASSUME NEW k \in Relays
  PROVE  /\ Passed(k) = history.proofs[k] + Cardinality(Awaited(air, k))
                          + (IF MayRepair(k) THEN 1 ELSE 0)
         /\ Passed(k)' = history'.proofs[k] + Cardinality(Awaited(air', k))
                           + (IF MayRepair(k)' THEN 1 ELSE 0)
<1>1. Passed(k) = history.proofs[k] + Cardinality(Awaited(air, k)) + (IF MayRepair(k) THEN 1 ELSE 0)
  BY DEF Passed, OneIf
<1>2. Passed(k)' = history'.proofs[k] + Cardinality(Awaited(air', k)) + (IF MayRepair(k)' THEN 1 ELSE 0)
  BY DEF Passed, OneIf, Awaited
<1> QED BY <1>1, <1>2

LEMMA SentByRelay ==
  ASSUME NEW a, NEW n \in Nodes, NEW hops \in Nat, hops + n = Hops, Sends(a, n, hops),
         NEW k \in Relays, IsFiniteSet(Awaited(a, k))
  PROVE  /\ IsFiniteSet(Awaited(air', k))
         /\ k + 1 # n => Cardinality(Awaited(air', k)) <= Cardinality(Awaited(a, k))
         /\ k + 1 = n => Cardinality(Awaited(air', k)) <= Cardinality(Awaited(a, k)) + 1
<1>1. PICK pkt : air' \subseteq a \cup Transmit(n, pkt, hops, NoOne)
  BY DEF Sends
<1>2. /\ IsFiniteSet(Awaited(air', k))
      /\ Cardinality(Awaited(air', k)) <= Cardinality(Awaited(a, k)) + OneIf(k + 1 = n)
  BY <1>1, ProofSent
<1>3. Cardinality(Awaited(a, k)) \in Nat /\ Cardinality(Awaited(air', k)) \in Nat
  BY <1>2, FS_CardinalityType
<1> QED BY <1>2, <1>3 DEF OneIf

(* What a relay has passed and may still pass grows only by what the node  *)
(* beyond it sends.                                                        *)
LEMMA PassedStep ==
  ASSUME TypeOK, TypeOK', [Next]_vars, NEW k \in Relays, KeepsOne(k), IsFiniteSet(Awaited(air, k))
  PROVE  /\ IsFiniteSet(Awaited(air', k)) /\ Passed(k) \in Nat /\ Passed(k)' \in Nat
         /\ \/ /\ Passed(k)' <= Passed(k)
               /\ \A j \in Relays : history.proofs[j] <= history'.proofs[j]
            \/ k + 1 = Hops /\ Proves /\ Passed(k)' <= Passed(k) + 1
            \/ /\ k + 1 < Hops /\ Passed(k)' <= Passed(k) + 1
               /\ history'.proofs[k + 1] = history.proofs[k + 1] + 1
<1> DEFINE A == Cardinality(Awaited(air, k))
           B == Cardinality(Awaited(air', k))
           P == history.proofs[k]
           Q == history'.proofs[k]
           m == IF MayRepair(k) THEN 1 ELSE 0
           n == IF MayRepair(k)' THEN 1 ELSE 0
           Mono == \A j \in Relays : history.proofs[j] <= history'.proofs[j]
           Goal == \/ Passed(k)' <= Passed(k) /\ Mono
                   \/ k + 1 = Hops /\ Proves /\ Passed(k)' <= Passed(k) + 1
                   \/ /\ k + 1 < Hops /\ Passed(k)' <= Passed(k) + 1
                      /\ history'.proofs[k + 1] = history.proofs[k + 1] + 1
<1>p. /\ history.proofs \in [Relays -> Nat] /\ history'.proofs \in [Relays -> Nat]
      /\ air \subseteq Frame
  BY DEF TypeOK
<1>c. /\ k \in Nat /\ Hops \in Nat /\ k < Hops /\ Hops > 0 /\ Destination \in Nodes /\ Destination = Hops
      /\ \A j \in Relays : j \in Nodes /\ j \in Nat /\ j < Hops /\ Hops - j \in Nat /\ (Hops - j) + j = Hops
  <2>1. \A j \in Relays : j \in Nat /\ j < Hops
    BY HandshakeAssumption DEF Relays
  <2>2. \A j \in Relays : Hops - j \in Nat /\ (Hops - j) + j = Hops
    BY <2>1, Constants
  <2> QED BY <2>1, <2>2, Constants DEF Destination
<1>a. A \in Nat /\ P \in Nat /\ Q \in Nat /\ m \in Nat /\ n \in Nat
  BY <1>p, FS_CardinalityType
<1>m. n <= m
  BY KeepsStep
<1>x. Passed(k) = P + A + m /\ Passed(k)' = Q + B + n
  BY PassedParts
<1>g. ASSUME IsFiniteSet(Awaited(air', k)), Goal
      PROVE  IsFiniteSet(Awaited(air', k)) /\ Passed(k) \in Nat /\ Passed(k)' \in Nat /\ Goal
  <2>1. B \in Nat
    BY <1>g, FS_CardinalityType
  <2> HIDE DEF A, B, P, Q, m, n, Goal
  <2> QED BY <1>a, <1>g, <1>x, <2>1
<1>s. ASSUME ProofsSame PROVE Q = P /\ Mono
  BY <1>s, <1>p DEF ProofsSame
<1>o. ASSUME NEW j \in Relays, OneMoreAt(j)
      PROVE  /\ Mono /\ (j = k => Q = P + 1) /\ (j # k => Q = P)
             /\ j = k + 1 => history'.proofs[k + 1] = history.proofs[k + 1] + 1
  <2>1. \A i \in Relays : history'.proofs[i] = IF i = j THEN history.proofs[i] + 1 ELSE history.proofs[i]
    BY <1>p, <1>o DEF OneMoreAt
  <2> QED BY <1>p, <2>1
<1>f. ASSUME IsFiniteSet(Awaited(air', k)), Q = P, Mono, B <= A
      PROVE  Goal
  <2>1. B \in Nat
    BY <1>f, FS_CardinalityType
  <2>2. Q + B + n <= P + A + m
    <3> HIDE DEF A, B, P, Q, m, n
    <3> QED BY <1>a, <1>f, <1>m, <2>1
  <2> QED BY <1>f, <1>x, <2>2
<1>1. CASE ProofsSame /\ (Quiet \/ Ages)
  <2>1. CASE Quiet
    <3>1. \A f \in air' : ProofFor(k, f) => f \in air
      BY <2>1 DEF Quiet
    <3> QED BY <3>1, <1>1, <1>f, <1>g, <1>s, FewerAwaited
  <2>2. CASE Ages
    <3>1. IsFiniteSet(Awaited(air', k)) /\ B <= A
      BY <2>2, <1>p, OlderAwaited DEF Ages
    <3> QED BY <3>1, <1>1, <1>f, <1>g, <1>s
  <2> QED BY <1>1, <2>1, <2>2
<1>2. CASE Proving
  <2>1. /\ IsFiniteSet(Awaited(air', k))
        /\ k + 1 # Hops => B <= A
        /\ k + 1 = Hops => B <= A + 1
    BY <1>2, <1>c, SentByRelay DEF Proving
  <2>2. CASE k + 1 # Hops
    BY <1>2, <1>f, <1>g, <1>s, <2>1, <2>2 DEF Proving
  <2>3. CASE k + 1 = Hops
    <3>1. B \in Nat /\ Q = P /\ Proves
      BY <1>2, <1>s, <2>1, FS_CardinalityType DEF Proving
    <3>2. Q + B + n <= P + A + m + 1
      <4> HIDE DEF A, B, P, Q, m, n
      <4> QED BY <1>a, <1>m, <2>1, <2>3, <3>1
    <3>3. Goal
      BY <1>x, <2>3, <3>1, <3>2
    <3> QED BY <1>g, <2>1, <3>3
  <2> QED BY <2>2, <2>3
<1>3. ASSUME NEW j \in Relays, Passing(j) PROVE IsFiniteSet(Awaited(air', k)) /\ Goal
  <2>0. PICK g \in air : ProofFor(j, g) /\ OneMoreAt(j) /\ Sends(air \ {g}, j, Hops - j)
    BY <1>3 DEF Passing
  <2> DEFINE C == Cardinality(Awaited(air \ {g}, k))
  <2>1. IsFiniteSet(Awaited(air \ {g}, k)) /\ C <= A
    BY FewerAwaited
  <2>2. /\ IsFiniteSet(Awaited(air', k))
        /\ k + 1 # j => B <= C
        /\ k + 1 = j => B <= C + 1
    BY <1>c, <2>0, <2>1, SentByRelay
  <2>3. B \in Nat /\ C \in Nat
    BY <2>1, <2>2, FS_CardinalityType
  <2>4. CASE j = k
    <3>1. C + 1 <= A
      BY <2>0, <2>4, OneLessAwaited
    <3>2. Q = P + 1 /\ Mono /\ k + 1 # j
      BY <1>c, <1>o, <2>0, <2>4
    <3>3. Q + B + n <= P + A + m
      <4> HIDE DEF A, B, C, P, Q, m, n
      <4> QED BY <1>a, <1>m, <2>2, <2>3, <3>1, <3>2
    <3> QED BY <1>x, <2>2, <3>2, <3>3
  <2>5. CASE j = k + 1
    <3>1. /\ Q = P /\ Mono /\ k + 1 < Hops /\ B <= C + 1
          /\ history'.proofs[k + 1] = history.proofs[k + 1] + 1
      BY <1>c, <1>o, <2>0, <2>2, <2>5
    <3>2. Q + B + n <= P + A + m + 1
      <4> HIDE DEF A, B, C, P, Q, m, n
      <4> QED BY <1>a, <1>m, <2>1, <2>3, <3>1
    <3> QED BY <1>x, <2>2, <3>1, <3>2
  <2>6. CASE j # k /\ j # k + 1
    <3>1. Q = P /\ Mono /\ B <= C
      BY <1>o, <2>0, <2>2, <2>6
    <3>2. B <= A
      <4> HIDE DEF A, B, C
      <4> QED BY <1>a, <2>1, <2>3, <3>1
    <3> QED BY <1>f, <2>2, <3>1, <3>2
  <2> QED BY <2>4, <2>5, <2>6
<1>4. ASSUME NEW j \in Relays, Repairing(j) PROVE IsFiniteSet(Awaited(air', k)) /\ Goal
  <2>0. MayRepair(j) /\ (KeepsOne(j) => ~MayRepair(j)') /\ OneMoreAt(j) /\ Sends(air, j, Hops - j)
    BY <1>4 DEF Repairing
  <2>1. /\ IsFiniteSet(Awaited(air', k))
        /\ k + 1 # j => B <= A
        /\ k + 1 = j => B <= A + 1
    BY <1>c, <2>0, SentByRelay
  <2>2. B \in Nat
    BY <2>1, FS_CardinalityType
  <2>3. CASE j = k
    <3>0. MayRepair(k) /\ ~MayRepair(k)'
      BY <2>0, <2>3
    <3>1. Q = P + 1 /\ Mono /\ k + 1 # j /\ m = 1 /\ n = 0
      BY <1>c, <1>o, <2>0, <2>3, <3>0
    <3>2. Q + B + n <= P + A + m
      <4> HIDE DEF A, B, P, Q, m, n
      <4> QED BY <1>a, <2>1, <2>2, <3>1
    <3> QED BY <1>x, <2>1, <3>1, <3>2
  <2>4. CASE j = k + 1
    <3>1. /\ Q = P /\ k + 1 < Hops /\ B <= A + 1
          /\ history'.proofs[k + 1] = history.proofs[k + 1] + 1
      BY <1>c, <1>o, <2>0, <2>1, <2>4
    <3>2. Q + B + n <= P + A + m + 1
      <4> HIDE DEF A, B, P, Q, m, n
      <4> QED BY <1>a, <1>m, <2>2, <3>1
    <3> QED BY <1>x, <2>1, <3>1, <3>2
  <2>5. CASE j # k /\ j # k + 1
    <3>1. Q = P /\ Mono /\ B <= A
      BY <1>o, <2>0, <2>1, <2>5
    <3> QED BY <1>f, <2>1, <3>1
  <2> QED BY <2>3, <2>4, <2>5
<1>5. CASE \E j \in Relays : Passing(j) \/ Repairing(j)
  <2>1. IsFiniteSet(Awaited(air', k)) /\ Goal
    <3> HIDE DEF Goal
    <3> QED BY <1>3, <1>4, <1>5
  <2> QED BY <1>g, <2>1
<1> QED BY <1>1, <1>2, <1>5, ProofsStep DEF ProofStep

-----------------------------------------------------------------------------
LEMMA PassesInit == Init => Passes
<1> SUFFICES ASSUME Init, NEW k \in Relays PROVE KeepsOne(k) /\ Counted(k)
  BY DEF Passes
<1>1. /\ history.proofs = [j \in Relays |-> 0] /\ air = {} /\ budget.mishaps = MaxMishaps
      /\ entry[k] = NoEntry /\ repairs[k] = [s \in Slots |-> NoRepair]
      /\ seen = [n \in Nodes |-> {}] /\ responder.status = "NONE"
  BY DEF Init, NoLink
<1>2. KeepsOne(k)
  BY <1>1 DEF KeepsOne, KeepsProof, NoRepair, NoEntry
<1>3. Awaited(air, k) = {} /\ IsFiniteSet({}) /\ Cardinality({}) = 0
  BY <1>1, FS_EmptySet DEF Awaited
<1>4. Passed(k) = 1
  <2>1. MayRepair(k)
    BY <1>1 DEF MayRepair, NoEntry
  <2> QED BY <1>1, <1>3, <2>1 DEF Passed, OneIf
<1>5. Owed = 2
  <2>1. ~Knows /\ ~Owes
    BY <1>1, Constants DEF Knows, Owes
  <2>2. Owed = (IF Knows THEN 0 ELSE 2) + (IF Owes THEN 1 ELSE 0)
    BY DEF Owed, Knows, Owes, OneIf
  <2> QED BY <2>1, <2>2
<1>6. MishapsSoFar = 0
  BY <1>1, Constants DEF MishapsSoFar
<1>7. k + 1 < Hops => history.proofs[k + 1] = 0
  BY <1>1, Constants DEF Relays
<1>8. Counted(k)
  BY <1>3, <1>4, <1>5, <1>6, <1>7 DEF Counted
<1> QED BY <1>2, <1>8

LEMMA PassesStep == TypeOK /\ TypeOK' /\ Passes /\ [Next]_vars => Passes'
<1> SUFFICES ASSUME TypeOK, TypeOK', Passes, [Next]_vars, NEW k \in Relays
             PROVE  KeepsOne(k)' /\ Counted(k)'
  BY DEF Passes
<1>0. KeepsOne(k) /\ Counted(k)
  BY DEF Passes
<1>1. KeepsOne(k)'
  BY <1>0, KeepsStep
<1>2. IsFiniteSet(Awaited(air, k))
  BY <1>0 DEF Counted
<1>3. /\ IsFiniteSet(Awaited(air', k)) /\ Passed(k) \in Nat /\ Passed(k)' \in Nat
      /\ \/ /\ Passed(k)' <= Passed(k)
            /\ \A j \in Relays : history.proofs[j] <= history'.proofs[j]
         \/ k + 1 = Hops /\ Proves /\ Passed(k)' <= Passed(k) + 1
         \/ /\ k + 1 < Hops /\ Passed(k)' <= Passed(k) + 1
            /\ history'.proofs[k + 1] = history.proofs[k + 1] + 1
  BY <1>0, <1>2, PassedStep
<1>4. k + 1 < Hops => Passed(k)' <= history'.proofs[k + 1] + 1
  <2> SUFFICES ASSUME k + 1 < Hops PROVE Passed(k)' <= history'.proofs[k + 1] + 1
    OBVIOUS
  <2>1. k + 1 \in Relays /\ k + 1 # Hops
    BY Constants DEF Relays
  <2>2. history.proofs[k + 1] \in Nat /\ history'.proofs[k + 1] \in Nat
    BY <2>1 DEF TypeOK
  <2>3. Passed(k) <= history.proofs[k + 1] + 1
    BY <1>0 DEF Counted
  <2>4. \/ Passed(k)' <= Passed(k) /\ history.proofs[k + 1] <= history'.proofs[k + 1]
        \/ /\ Passed(k)' <= Passed(k) + 1
           /\ history'.proofs[k + 1] = history.proofs[k + 1] + 1
    BY <1>3, <2>1
  <2> QED BY <1>3, <2>2, <2>3, <2>4
<1>5. k + 1 = Hops => Passed(k)' + Owed' <= 2 * (1 + MishapsSoFar') + 1
  <2> SUFFICES ASSUME k + 1 = Hops PROVE Passed(k)' + Owed' <= 2 * (1 + MishapsSoFar') + 1
    OBVIOUS
  <2>1. Passed(k) + Owed <= 2 * (1 + MishapsSoFar) + 1
    BY <1>0 DEF Counted
  <2>2. /\ Owed \in Nat /\ Owed' \in Nat
        /\ Owed' + 2 * MishapsSoFar <= Owed + 2 * MishapsSoFar'
        /\ Proves => Owed' + 1 <= Owed
    BY OwedStep
  <2>3. MishapsSoFar \in Nat /\ MishapsSoFar' \in Nat /\ MishapsSoFar <= MishapsSoFar'
    BY MishapsStep
  <2>4. ~(k + 1 < Hops)
    BY Constants
  <2>5. Passed(k)' <= Passed(k) \/ (Proves /\ Passed(k)' <= Passed(k) + 1)
    BY <1>3, <2>4
  <2>6. Passed(k) \in Nat /\ Passed(k)' \in Nat
    BY <1>3
  <2> DEFINE p == Passed(k)
             q == Passed(k)'
             o == Owed
             r == Owed'
             m == MishapsSoFar
             n == MishapsSoFar'
  <2>7. /\ p \in Nat /\ q \in Nat /\ o \in Nat /\ r \in Nat /\ m \in Nat /\ n \in Nat
        /\ p + o <= 2 * (1 + m) + 1 /\ r + 2 * m <= o + 2 * n /\ m <= n
        /\ q <= p \/ (r + 1 <= o /\ q <= p + 1)
    BY <2>1, <2>2, <2>3, <2>5, <2>6
  <2> HIDE DEF p, q, o, r, m, n
  <2>8. q + r <= 2 * (1 + n) + 1
    BY <2>7
  <2> QED BY <2>8 DEF q, r, n
<1>6. Counted(k)'
  <2>1. Awaited(air, k)' = Awaited(air', k)
    BY DEF Awaited
  <2> QED BY <1>3, <1>4, <1>5, <2>1 DEF Counted
<1> QED BY <1>1, <1>6

Below == {ss \in Nat \X Nat : ss[1] < ss[2]}

LEMMA Least ==
  ASSUME NEW T, T \subseteq Nat, T # {}
  PROVE  \E x \in T : \A y \in T : x <= y
<1>1. IsWellFoundedOn(Below, Nat)
  BY NatLessThanWellFounded DEF OpToRel, Below
<1>2. PICK x \in T : \A y \in T : <<y, x>> \notin Below
  BY <1>1, WFMin
<1>3. ASSUME NEW y \in T PROVE x <= y
  <2>1. x \in Nat /\ y \in Nat
    OBVIOUS
  <2>2. y < x => <<y, x>> \in Below
    BY <2>1 DEF Below
  <2> QED BY <1>2, <2>1, <2>2
<1> QED BY <1>3

(* From relay to relay, back from the destination's neighbour.             *)
LEMMA PassesBound == TypeOK /\ Passes => ProofsBounded
<1> SUFFICES ASSUME TypeOK, Passes, ~ProofsBounded PROVE FALSE
  OBVIOUS
<1> DEFINE Bound(k) == 2 * (1 + MishapsSoFar) + Hops - k
           T == {d \in Nat : \E k \in Relays : d = Hops - k /\ ~(history.proofs[k] <= Bound(k))}
<1>0. MishapsSoFar \in Nat /\ Hops \in Nat /\ \A k \in Relays : k \in Nat /\ k < Hops /\ Hops - k \in Nat
  <2>1. budget.mishaps \in 0 .. MaxMishaps
    BY DEF TypeOK
  <2>2. MishapsSoFar \in Nat
    BY <2>1, Constants DEF MishapsSoFar
  <2> QED BY <2>2, Constants DEF Relays
<1>1. T # {}
  BY <1>0 DEF ProofsBounded
<1>2. PICK d \in T : \A e \in T : d <= e
  <2> HIDE DEF T
  <2>1. T \subseteq Nat
    BY DEF T
  <2> QED BY <1>1, <2>1, Least
<1>3. PICK k \in Relays : d = Hops - k /\ ~(history.proofs[k] <= Bound(k))
  BY <1>2
<1>4. history.proofs[k] \in Nat /\ history.proofs[k] <= Passed(k) /\ Passed(k) \in Nat
  <2>1. history.proofs[k] \in Nat
    BY DEF TypeOK
  <2>2. Cardinality(Awaited(air, k)) \in Nat
    BY FS_CardinalityType DEF Passes, Counted
  <2>3. Passed(k) = history.proofs[k] + Cardinality(Awaited(air, k)) + (IF MayRepair(k) THEN 1 ELSE 0)
    BY DEF Passed, OneIf
  <2> QED BY <2>1, <2>2, <2>3
<1>5. CASE k + 1 = Hops
  <2>1. Passed(k) + Owed <= 2 * (1 + MishapsSoFar) + 1
    BY <1>5 DEF Passes, Counted
  <2>2. Owed \in Nat
    BY DEF Owed, OneIf
  <2> QED BY <1>0, <1>3, <1>4, <1>5, <2>1, <2>2
<1>6. CASE k + 1 < Hops
  <2>1. k + 1 \in Relays /\ history.proofs[k + 1] \in Nat
    <3>1. k + 1 \in Relays
      BY <1>0, <1>6 DEF Relays
    <3> QED BY <3>1 DEF TypeOK
  <2>2. Passed(k) <= history.proofs[k + 1] + 1
    BY <1>6 DEF Passes, Counted
  <2>3. Hops - (k + 1) \in Nat /\ Hops - (k + 1) < d
    BY <1>0, <1>3, <2>1
  <2>4. Hops - (k + 1) \notin T
    <3>1. d \in Nat
      BY <1>0, <1>3
    <3> HIDE DEF T
    <3> QED BY <1>2, <2>3, <3>1
  <2>5. history.proofs[k + 1] <= Bound(k + 1)
    BY <2>1, <2>3, <2>4
  <2> QED BY <1>0, <1>3, <1>4, <2>1, <2>2, <2>5
<1> QED BY <1>0, <1>5, <1>6

(* A proof is not echoed along the chain (link_proof_transport): however   *)
(* many copies are lost, forgotten or repeated, a relay has passed two for *)
(* each request that the destination may have taken as new, and one repair *)
(* of its own and of each relay beyond it (jobs).                          *)
THEOREM NotEchoed == Spec => []ProofsBounded
<1>1. Init => TypeOK /\ Passes
  BY TypeInit, PassesInit
<1>2. TypeOK /\ Passes /\ [Next]_vars => (TypeOK /\ Passes)'
  BY TypeStep, PassesStep
<1>3. TypeOK /\ Passes => ProofsBounded
  BY PassesBound
<1> QED BY <1>1, <1>2, <1>3, PTL DEF Spec
=============================================================================
