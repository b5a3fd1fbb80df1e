--------------------------- MODULE LinkHandshake ---------------------------
(***************************************************************************)
(* The establishment of one link over a chain of radio nodes:              *)
(*                                                                         *)
(*   0 (initiator) - 1 - ... - Hops-1 (relays) - Hops (destination)        *)
(*                                                                         *)
(* Link.cpp at both ends and Transport.cpp at the relays: the link         *)
(* request, the proof, the RTT packet that answers it, the repair that     *)
(* each party sends once when its answer is overdue, and the reaping of    *)
(* what never got answered. A transmission is heard by both neighbours,    *)
(* each copy travels or is lost on its own, and nodes act at any moment.   *)
(*                                                                         *)
(* Time is counted in seconds. A copy arrives within MaxDelay of them, a   *)
(* jobs pass runs within the second in which something falls due (the      *)
(* links check interval). Frames arrive intact or not at all; every node   *)
(* has the route to the destination and runs one radio, so that the tests  *)
(* of the receiving interface pass and only the hop counts tell. A link    *)
(* goes STALE minutes after its last packet, when its handshake is over;   *)
(* LINKIDENTIFY brings a responder up as data does.                        *)
(***************************************************************************)
EXTENDS Naturals, FiniteSets

CONSTANTS
  Hops,                    \* hops_to(destination) at the initiator
  PER_HOP,                 \* ESTABLISHMENT_TIMEOUT_PER_HOP, seconds
  AIRTIME,                 \* extra_link_proof_timeout: an MTU at the bitrate
  KEEPALIVE,               \* what the responder grants beyond PER_HOP a hop
  HANDSHAKE_REPAIR_SLOTS,
  MaxDelay,                \* seconds a copy is under way, at most
  Mishaps,                 \* what may come between: see MishapKinds
  MaxMishaps,              \* bound: how many of them
  MaxData                  \* bound: packets of the initiator's consumer

(* A copy is lost; a link table drops an entry whose proof has not passed  *)
(* in time; a packet hashlist evicts a hash; a consumer closes the link.   *)
MishapKinds == {"loss", "cull", "forget", "close"}

ASSUME HandshakeAssumption ==
  /\ Hops \in Nat \ {0} /\ PER_HOP \in Nat \ {0}
  /\ {AIRTIME, KEEPALIVE, MaxDelay, MaxMishaps, MaxData} \subseteq Nat
  /\ HANDSHAKE_REPAIR_SLOTS \in Nat \ {0}
  /\ Mishaps \subseteq MishapKinds

VARIABLES
  initiator,   \* the initiator's Link: status, key, seconds left, in a set of Transport's
  responder,   \* the destination's Link under this id
  entry,       \* the relays' _link_table
  repairs,     \* the relays' _handshake_repairs
  seen,        \* the nodes' _packet_hashlist
  air,         \* copies under way
  serial,      \* packets encrypted so far: each has a hash of its own
  budget,      \* what is left of the bounds
  history      \* what has happened, for the properties
vars == <<initiator, responder, entry, repairs, seen, air, serial, budget, history>>

Initiator   == 0
Destination == Hops
Nodes       == 0 .. Hops
Relays      == 1 .. Hops - 1
Slots       == 1 .. HANDSHAKE_REPAIR_SLOTS
NoOne       == Hops + 1                   \* no transport id in the header

Larger(a, b)    == IF a > b THEN a ELSE b
FirstHop        == PER_HOP + AIRTIME
RepairWait(h)   == Larger(2 * PER_HOP * Larger(1, h), FirstHop)
InitiatorBudget == FirstHop + 2 * PER_HOP * Hops
ResponderBudget == PER_HOP * Hops + KEEPALIVE
ProofTimeout(k) == AIRTIME + PER_HOP * (Hops - k)

-----------------------------------------------------------------------------
(* Packets. A key is that of the responder's link; what travels over the   *)
(* link carries the key it was encrypted under and a serial number, which  *)
(* stands for its hash. The request and the proof are always the same      *)
(* bytes.                                                                  *)
Request        == [kind |-> "LINKREQUEST", key |-> 0, id |-> 0]
Proof(key)     == [kind |-> "LRPROOF", key |-> key, id |-> 0]
OverLink(kind, key, id) == [kind |-> kind, key |-> key, id |-> id]
IsOverLink(pkt) == pkt.kind \in {"LRRTT", "DATA", "LINKCLOSE"}

(* What n transmits reaches both its neighbours.                           *)
Transmit(n, pkt, hops, via) ==
  {[pkt |-> pkt, hops |-> hops, via |-> via, to |-> m, age |-> 0]
     : m \in {m \in Nodes : m = n + 1 \/ m + 1 = n}}

Heard(n, f)  == f \in air /\ f.to = n
Distance(f)  == f.hops + 1                \* inbound counts the hop just made
InHashlist(n, f) == f.pkt.kind # "LRPROOF" /\ f.pkt \in seen[n]
Filtered(n, f) == (f.via # NoOne /\ f.via # n) \/ InHashlist(n, f)
Remembering(n, pkt) == [seen EXCEPT ![n] = @ \cup {pkt}]

-----------------------------------------------------------------------------
(* The repair slots of a relay.                                            *)
NoRepair == [kind |-> "NONE", key |-> 0, timer |-> 0, resent |-> FALSE]

(* keep_for_repair: the first free slot, if there is one.                  *)
Keep(slots, kind, key, wait) ==
  LET free == {s \in Slots : slots[s] = NoRepair}
  IN  IF free = {} THEN slots
      ELSE [slots EXCEPT ![CHOOSE s \in free : \A t \in free : s <= t] =
             [kind |-> kind, key |-> key, timer |-> wait, resent |-> FALSE]]

(* repair_answered.                                                        *)
Answered(slots, kind) ==
  [s \in Slots |-> IF slots[s].kind = kind THEN NoRepair ELSE slots[s]]

(* The raw bytes of a slot, sent again at relay k: they name the hops made *)
(* so far, and a request its next hop unless that is the destination.      *)
NextHop(k) == IF Hops - k > 1 THEN k + 1 ELSE NoOne
Resend(k, slot) ==
  IF slot.kind = "LINKREQUEST" THEN Transmit(k, Request, k, NextHop(k))
                               ELSE Transmit(k, Proof(slot.key), Hops - k, NoOne)

NoEntry == [there |-> FALSE, validated |-> FALSE, proofKept |-> FALSE, timer |-> 0]
NoLink(key) == [status |-> "NONE", key |-> key, timer |-> 0, proofTimer |-> 0,
                repaired |-> FALSE]

Init ==
  /\ initiator = [status |-> "NONE", key |-> 0, timer |-> 0]
  /\ responder = NoLink(0)
  /\ entry = [k \in Relays |-> NoEntry]
  /\ repairs = [k \in Relays |-> [s \in Slots |-> NoRepair]]
  /\ seen = [n \in Nodes |-> {}]
  /\ air = {}
  /\ serial = 0
  /\ budget = [mishaps |-> MaxMishaps, data |-> MaxData]
  /\ history = [ups |-> 0, responderUps |-> 0, mishaps |-> {}, reaped |-> {},
                proofs |-> [k \in Relays |-> 0]]

(* A mishap of this kind, to this packet on its hop to that node.          *)
Mishap(kind, pkt, hops) ==
  /\ kind \in Mishaps /\ budget.mishaps > 0
  /\ budget' = [budget EXCEPT !.mishaps = @ - 1]
  /\ history' = [history EXCEPT !.mishaps =
                   @ \cup {[kind |-> kind, packet |-> pkt.kind, hops |-> hops]}]

-----------------------------------------------------------------------------
(* The ends.                                                               *)

(* The link's constructor: the request goes out, once.                     *)
open ==
  /\ initiator.status = "NONE"
  /\ initiator' = [status |-> "PENDING", key |-> 0, timer |-> InitiatorBudget]
  /\ air' = air \cup Transmit(Initiator, Request, 0, IF Hops > 1 THEN 1 ELSE NoOne)
  /\ UNCHANGED <<responder, entry, repairs, seen, serial, budget, history>>

(* An end sends a packet over the link: fresh ciphertext, remembered as    *)
(* seen by its sender.                                                     *)
SendOver(n, kind, key, heard) ==
  LET pkt == OverLink(kind, key, serial + 1)
  IN  /\ serial' = serial + 1
      /\ seen' = Remembering(n, pkt)
      /\ air' = (air \ heard) \cup Transmit(n, pkt, 0, NoOne)

(* validate_request, on a request that passed the filter: a new link is    *)
(* proved, one that has not heard the RTT packet proves itself again with  *)
(* the same key, an active one ignores it, and on one closed but not yet   *)
(* erased the send fails.                                                  *)
FindsProvenOnly  == responder.status \notin {"NONE", "HANDSHAKE"}
find_active_link == responder.status # "NONE"

validate_request(f) ==
  /\ Heard(Destination, f) /\ ~Filtered(Destination, f) /\ f.pkt = Request
  /\ seen' = Remembering(Destination, Request)
  /\ \/ /\ ~find_active_link
        /\ responder' = [status |-> "HANDSHAKE", key |-> responder.key + 1,
                         timer |-> ResponderBudget, proofTimer |-> RepairWait(Hops),
                         repaired |-> FALSE]
        /\ history' = [history EXCEPT !.responderUps = 0]
        /\ air' = (air \ {f}) \cup Transmit(Destination, Proof(responder'.key), 0, NoOne)
     \/ /\ find_active_link /\ responder.status = "HANDSHAKE"
        /\ responder' = [responder EXCEPT !.proofTimer = RepairWait(Hops)]
        /\ air' = (air \ {f}) \cup Transmit(Destination, Proof(responder.key), 0, NoOne)
        /\ UNCHANGED history
     \/ /\ find_active_link /\ responder.status \in {"ACTIVE", "CLOSED"}
        /\ air' = air \ {f}
        /\ UNCHANGED <<responder, history>>
  /\ UNCHANGED <<initiator, entry, repairs, serial, budget>>

(* validate_proof, on a proof from the right distance: the first brings    *)
(* the link up, a repeat of the same one is answered again.                *)
validate_proof(f) ==
  /\ Heard(Initiator, f) /\ f.pkt.kind = "LRPROOF" /\ Distance(f) = Hops
  /\ \/ /\ initiator.status = "PENDING"
        /\ initiator' = [status |-> "ACTIVE", key |-> f.pkt.key, timer |-> 0]
        /\ history' = [history EXCEPT !.ups = @ + 1]
     \/ /\ initiator.status = "ACTIVE" /\ initiator.key = f.pkt.key
        /\ UNCHANGED <<initiator, history>>
  /\ SendOver(Initiator, "LRRTT", f.pkt.key, {f})
  /\ UNCHANGED <<responder, entry, repairs, budget>>

(* It decrypts under the responder's key.                                  *)
Opens(f) == f.pkt.key = responder.key
(* Only the first of them activates: rtt_packet and activate_without_rtt   *)
(* are reached from HANDSHAKE alone.                                       *)
ActivatesAgain(f) == f.pkt.kind \in {"LRRTT", "DATA"} /\ responder.status \in {"HANDSHAKE", "ACTIVE"}
Activates(f) == f.pkt.kind \in {"LRRTT", "DATA"} /\ responder.status = "HANDSHAKE"
ClosesUpOnly(f) == f.pkt.kind = "LINKCLOSE" /\ responder.status = "ACTIVE"
Closes(f)    == f.pkt.kind = "LINKCLOSE" /\ responder.status \in {"HANDSHAKE", "ACTIVE"}

(* Link::receive at the destination: the RTT packet, or the data that      *)
(* stands in for it (activate_without_rtt), brings the link up; LINKCLOSE  *)
(* closes it. What does not decrypt under the link's key does nothing.     *)
receiveAtResponder(f) ==
  /\ Heard(Destination, f) /\ ~Filtered(Destination, f) /\ IsOverLink(f.pkt)
  /\ seen' = Remembering(Destination, f.pkt)
  /\ air' = air \ {f}
  /\ \/ /\ Opens(f) /\ Activates(f)
        /\ responder' = [responder EXCEPT !.status = "ACTIVE", !.timer = 0, !.proofTimer = 0]
        /\ history' = [history EXCEPT !.responderUps = @ + 1]
     \/ /\ Opens(f) /\ Closes(f)
        /\ responder' = [NoLink(responder.key) EXCEPT !.status = "CLOSED"]
        /\ UNCHANGED history
     \/ /\ ~(Opens(f) /\ (Activates(f) \/ Closes(f)))
        /\ UNCHANGED <<responder, history>>
  /\ UNCHANGED <<initiator, entry, repairs, serial, budget>>

(* The initiator takes LINKCLOSE, on an active link only.                  *)
receiveAtInitiator(f) ==
  /\ Heard(Initiator, f) /\ ~Filtered(Initiator, f) /\ f.pkt.kind # "LRPROOF"
  /\ seen' = Remembering(Initiator, f.pkt)
  /\ air' = air \ {f}
  /\ initiator' = IF /\ initiator.status = "ACTIVE" /\ f.pkt.kind = "LINKCLOSE"
                     /\ f.pkt.key = initiator.key
                  THEN [initiator EXCEPT !.status = "CLOSED"] ELSE initiator
  /\ UNCHANGED <<responder, entry, repairs, serial, budget, history>>

(* The initiator's consumer sends data over an active link.                *)
send ==
  /\ initiator.status = "ACTIVE" /\ budget.data > 0
  /\ SendOver(Initiator, "DATA", initiator.key, {})
  /\ budget' = [budget EXCEPT !.data = @ - 1]
  /\ UNCHANGED <<initiator, responder, entry, repairs, history>>

(* Link::teardown by a consumer. A link that is still PENDING has no key   *)
(* to say LINKCLOSE with.                                                  *)
teardownInitiator ==
  /\ initiator.status \in {"PENDING", "ACTIVE"}
  /\ Mishap("close", Request, 0)
  /\ initiator' = [initiator EXCEPT !.status = "CLOSED", !.timer = 0]
  /\ IF initiator.status = "ACTIVE"
     THEN SendOver(Initiator, "LINKCLOSE", initiator.key, {})
     ELSE UNCHANGED <<seen, air, serial>>
  /\ UNCHANGED <<responder, entry, repairs>>

teardownResponder ==
  /\ responder.status = "ACTIVE"
  /\ Mishap("close", Request, Hops)
  /\ responder' = [NoLink(responder.key) EXCEPT !.status = "CLOSED"]
  /\ SendOver(Destination, "LINKCLOSE", responder.key, {})
  /\ UNCHANGED <<initiator, entry, repairs>>

-----------------------------------------------------------------------------
(* The relays.                                                             *)

(* The next hop of a request enters it in its link table, unless it is     *)
(* there, forwards it and keeps it.                                        *)
forwardRequest(k, f) ==
  /\ Heard(k, f) /\ ~Filtered(k, f) /\ f.pkt = Request /\ f.via = k
  /\ seen' = Remembering(k, Request)
  /\ entry' = IF entry[k].there THEN entry
              ELSE [entry EXCEPT ![k] = [NoEntry EXCEPT !.there = TRUE,
                                                        !.timer = ProofTimeout(k)]]
  /\ air' = (air \ {f}) \cup Transmit(k, Request, Distance(f), NextHop(k))
  /\ repairs' = [repairs EXCEPT ![k] = Keep(@, "LINKREQUEST", 0, RepairWait(Hops - k))]
  /\ UNCHANGED <<initiator, responder, serial, budget, history>>

(* A proof is forwarded from the distance the request went, and from no    *)
(* other; the first one to pass is kept.                                   *)
FromAnywhere(k, f) == f.pkt.kind = "LRPROOF"
FromRequestDistance(k, f) == Distance(f) = Hops - k
forwardProof(k, f) ==
  /\ Heard(k, f) /\ f.pkt.kind = "LRPROOF" /\ entry[k].there /\ FromRequestDistance(k, f)
  /\ air' = (air \ {f}) \cup Transmit(k, f.pkt, Distance(f), NoOne)
  /\ entry' = [entry EXCEPT ![k].validated = TRUE, ![k].proofKept = TRUE, ![k].timer = 0]
  /\ LET answered == Answered(repairs[k], "LINKREQUEST")
     IN  repairs' = [repairs EXCEPT ![k] =
                       IF entry[k].proofKept THEN answered
                       ELSE Keep(answered, "LINKPROOF", f.pkt.key, RepairWait(k))]
  /\ history' = [history EXCEPT !.proofs[k] = @ + 1]
  /\ UNCHANGED <<initiator, responder, seen, serial, budget>>

(* Link transport: a packet over the link passes in either direction, at   *)
(* the hop count of that direction, and answers the kept proof.            *)
forwardOverLink(k, f) ==
  /\ Heard(k, f) /\ ~Filtered(k, f) /\ IsOverLink(f.pkt)
  /\ entry[k].there /\ Distance(f) \in {k, Hops - k}
  /\ air' = (air \ {f}) \cup Transmit(k, f.pkt, Distance(f), NoOne)
  /\ seen' = Remembering(k, f.pkt)
  /\ repairs' = [repairs EXCEPT ![k] = Answered(@, "LINKPROOF")]
  /\ UNCHANGED <<initiator, responder, entry, serial, budget, history>>

(* What passes a relay by. It is remembered as seen, except a proof and    *)
(* what names a link in the link table.                                    *)
passBy(k, f) ==
  /\ Heard(k, f) /\ ~Filtered(k, f)
  /\ \/ f.pkt = Request /\ f.via = NoOne
     \/ IsOverLink(f.pkt) /\ ~entry[k].there
  /\ seen' = Remembering(k, f.pkt)
  /\ air' = air \ {f}
  /\ UNCHANGED <<initiator, responder, entry, repairs, serial, budget, history>>

(* What a node hears and has no use for: a duplicate, a request for        *)
(* another next hop, a proof or a packet from the wrong distance, a proof  *)
(* of no link that waits for it.                                           *)
Useless(n, f) ==
  \/ Filtered(n, f)
  \/ f.pkt.kind = "LRPROOF" /\
       \/ n \in Relays /\ ~(entry[n].there /\ FromRequestDistance(n, f))
       \/ n = Destination
       \/ n = Initiator /\ ~(/\ Distance(f) = Hops
                             /\ \/ initiator.status = "PENDING"
                                \/ initiator.status = "ACTIVE" /\ initiator.key = f.pkt.key)
  \/ n \in Relays /\ IsOverLink(f.pkt) /\ entry[n].there /\ Distance(f) \notin {n, Hops - n}

ignore(n, f) ==
  /\ Heard(n, f) /\ Useless(n, f)
  /\ air' = air \ {f}
  /\ UNCHANGED <<initiator, responder, entry, repairs, seen, serial, budget, history>>

-----------------------------------------------------------------------------
(* Transport::jobs, once a second at every node.                           *)

(* A half-open link is reaped when its time is up: torn down, and erased   *)
(* from the set it was in.                                                 *)
HalfOpen(link)    == link.status \in {"PENDING", "HANDSHAKE"}
EstablishmentTimedOut(link) == HalfOpen(link) /\ link.timer = 0

reapInitiator ==
  /\ EstablishmentTimedOut(initiator)
  /\ initiator' = [initiator EXCEPT !.status = "CLOSED"]
  /\ history' = [history EXCEPT !.reaped = @ \cup {Initiator}]
  /\ UNCHANGED <<responder, entry, repairs, seen, air, serial, budget>>

reapResponder ==
  /\ EstablishmentTimedOut(responder)
  /\ responder' = NoLink(responder.key)
  /\ SendOver(Destination, "LINKCLOSE", responder.key, {})
  /\ history' = [history EXCEPT !.reaped = @ \cup {Destination}]
  /\ UNCHANGED <<initiator, entry, repairs, budget>>

(* A closed link is erased from the set.                                   *)
eraseResponder ==
  /\ responder.status = "CLOSED"
  /\ responder' = NoLink(responder.key)
  /\ UNCHANGED <<initiator, entry, repairs, seen, air, serial, budget, history>>

(* repair_proof: the responder proves once more.                           *)
ProofRepairDue ==
  /\ responder.status = "HANDSHAKE" /\ ~responder.repaired
  /\ responder.proofTimer = 0 /\ responder.timer > 0

repair_proof ==
  /\ ProofRepairDue
  /\ responder' = [responder EXCEPT !.repaired = TRUE, !.proofTimer = RepairWait(Hops)]
  /\ air' = air \cup Transmit(Destination, Proof(responder.key), 0, NoOne)
  /\ UNCHANGED <<initiator, entry, repairs, seen, serial, budget, history>>

(* A relay's overdue slots: the kept packet is sent again, once; a slot    *)
(* that was, or whose link has left the link table, is freed.              *)
SlotDue(k, s) == repairs[k][s].kind # "NONE" /\ repairs[k][s].timer = 0
Spent(k, s)   == repairs[k][s].resent \/ ~entry[k].there

repair(k, s) ==
  /\ SlotDue(k, s) /\ ~Spent(k, s)
  /\ LET slot == repairs[k][s]
     IN  /\ air' = air \cup Resend(k, slot)
         /\ repairs' = [repairs EXCEPT ![k][s] =
              [slot EXCEPT !.resent = TRUE, !.key = 0,
                           !.timer = IF slot.kind = "LINKREQUEST" THEN RepairWait(Hops - k)
                                                                  ELSE RepairWait(k)]]
         /\ history' = IF slot.kind = "LINKPROOF"
                       THEN [history EXCEPT !.proofs[k] = @ + 1] ELSE history
  /\ UNCHANGED <<initiator, responder, entry, seen, serial, budget>>

freeSlot(k, s) ==
  /\ SlotDue(k, s) /\ Spent(k, s)
  /\ repairs' = [repairs EXCEPT ![k][s] = NoRepair]
  /\ UNCHANGED <<initiator, responder, entry, seen, air, serial, budget, history>>

(* The tables are culled at an interval of their own: an entry whose       *)
(* proof has not passed in time goes.                                      *)
cull(k) ==
  /\ entry[k].there /\ ~entry[k].validated /\ entry[k].timer = 0
  /\ Mishap("cull", Request, k)
  /\ entry' = [entry EXCEPT ![k] = NoEntry]
  /\ UNCHANGED <<initiator, responder, repairs, seen, air, serial>>

(* The hashlist drops its oldest entries when it is full.                  *)
forget(n, pkt) ==
  /\ pkt \in seen[n]
  /\ Mishap("forget", pkt, n)
  /\ seen' = [seen EXCEPT ![n] = @ \ {pkt}]
  /\ UNCHANGED <<initiator, responder, entry, repairs, air, serial>>

-----------------------------------------------------------------------------
(* The medium and the clock.                                               *)
lose(f) ==
  /\ f \in air /\ ~Useless(f.to, f)
  /\ Mishap("loss", f.pkt, f.hops)
  /\ air' = air \ {f}
  /\ UNCHANGED <<initiator, responder, entry, repairs, seen, serial>>

(* Nothing that is due within this second is left to do.                   *)
NothingDue ==
  /\ \A f \in air : f.age < MaxDelay
  /\ ~EstablishmentTimedOut(initiator) /\ ~EstablishmentTimedOut(responder)
  /\ responder.status # "CLOSED" /\ ~ProofRepairDue
  /\ \A k \in Relays, s \in Slots : ~SlotDue(k, s)

Ticking ==
  \/ air # {}
  \/ initiator.status = "PENDING" \/ responder.status = "HANDSHAKE"
  \/ \E k \in Relays : entry[k].timer > 0 \/ \E s \in Slots : repairs[k][s].kind # "NONE"

LessUnchecked(n) == n - 1
Less(n) == IF n > 0 THEN n - 1 ELSE 0

tick ==
  /\ Ticking /\ NothingDue
  /\ initiator' = [initiator EXCEPT !.timer = Less(@)]
  /\ responder' = [responder EXCEPT !.timer = Less(@), !.proofTimer = Less(@)]
  /\ entry' = [k \in Relays |-> [entry[k] EXCEPT !.timer = Less(@)]]
  /\ repairs' = [k \in Relays |-> [s \in Slots |-> [repairs[k][s] EXCEPT !.timer = Less(@)]]]
  /\ air' = {[f EXCEPT !.age = @ + 1] : f \in air}
  /\ UNCHANGED <<seen, serial, budget, history>>

-----------------------------------------------------------------------------
AtEnds == \/ open \/ send \/ teardownInitiator \/ teardownResponder
          \/ \E f \in air : \/ validate_request(f) \/ validate_proof(f)
                            \/ receiveAtResponder(f) \/ receiveAtInitiator(f)
AtRelay(k) == \E f \in air : \/ forwardRequest(k, f) \/ forwardProof(k, f)
                             \/ forwardOverLink(k, f) \/ passBy(k, f)
jobs == \/ reapInitiator \/ reapResponder \/ eraseResponder \/ repair_proof
        \/ \E k \in Relays, s \in Slots : repair(k, s) \/ freeSlot(k, s)
Medium == \/ \E f \in air : ignore(f.to, f) \/ lose(f)
          \/ \E k \in Relays : cull(k)
          \/ \E n \in Nodes : \E pkt \in seen[n] : forget(n, pkt)

Next == AtEnds \/ (\E k \in Relays : AtRelay(k)) \/ jobs \/ Medium \/ tick

Spec == Init /\ [][Next]_vars

(* Time passes, and a jobs pass falls into every second of it.             *)
FairSpec == Spec /\ WF_vars(jobs) /\ WF_vars(tick)
                 /\ WF_vars(\E f \in air : \/ validate_request(f) \/ validate_proof(f)
                              \/ receiveAtResponder(f) \/ receiveAtInitiator(f)
                              \/ ignore(f.to, f) \/ \E k \in Relays : AtRelay(k))

-----------------------------------------------------------------------------
Kinds  == {"LINKREQUEST", "LRPROOF", "LRRTT", "DATA", "LINKCLOSE"}
Packet == [kind : Kinds, key : Nat, id : Nat]
Frame  == [pkt : Packet, hops : Nat, via : Nat, to : Nodes, age : Nat]
Entry  == [there : BOOLEAN, validated : BOOLEAN, proofKept : BOOLEAN, timer : Nat]
Repair == [kind : {"NONE", "LINKREQUEST", "LINKPROOF"}, key : Nat, timer : Nat,
           resent : BOOLEAN]
TypeOK ==
  /\ initiator \in [status : {"NONE", "PENDING", "ACTIVE", "CLOSED"}, key : Nat, timer : Nat]
  /\ responder \in [status : {"NONE", "HANDSHAKE", "ACTIVE", "CLOSED"}, key : Nat,
                    timer : Nat, proofTimer : Nat, repaired : BOOLEAN]
  /\ entry \in [Relays -> Entry]
  /\ repairs \in [Relays -> [Slots -> Repair]]
  /\ seen \in [Nodes -> SUBSET Packet]
  /\ air \subseteq Frame
  /\ serial \in Nat
  /\ budget \in [mishaps : 0 .. MaxMishaps, data : 0 .. MaxData]
  /\ history \in [ups : Nat, responderUps : Nat, reaped : SUBSET Nodes,
                  mishaps : SUBSET [kind : MishapKinds, packet : Kinds, hops : Nat],
                  proofs : [Relays -> Nat]]

(* The detailed handshake implements the service: in particular the        *)
(* responder is up only on the initiator's word and under the key the      *)
(* initiator took, for rtt_packet and activate_without_rtt bring it up on  *)
(* what was encrypted under that key and on nothing else.                  *)
CallerState == CASE initiator.status = "NONE"    -> "idle"
                 [] initiator.status = "PENDING" -> "opening"
                 [] initiator.status = "ACTIVE"  -> "up"
                 [] initiator.status = "CLOSED"  -> "closed"
CalleeState == CASE responder.status \in {"NONE", "CLOSED"} -> "idle"
                 [] responder.status = "HANDSHAKE" -> "opening"
                 [] responder.status = "ACTIVE"    -> "up"
Service == INSTANCE LinkService WITH
             caller <- CallerState, callerKey <- initiator.key,
             callee <- CalleeState, calleeKey <- responder.key
ImplementsService == Service!Spec

(* The established callback of either end fires once for a link, however   *)
(* often the proof and the RTT packet are repeated.                        *)
EstablishedOnce == history.ups <= 1 /\ history.responderUps <= 1

(* A proof is not echoed between relays: of the destination's two for each *)
(* request it takes as new, a relay passes what reached it and adds one    *)
(* repair of its own.                                                      *)
MishapsSoFar == MaxMishaps - budget.mishaps
ProofsBounded ==
  \A k \in Relays : history.proofs[k] <= 2 * (1 + MishapsSoFar) + Hops - k

(* The repairs bring a handshake through that lost one copy anywhere but   *)
(* on the request's first hop, for which nobody keeps it.                  *)
Repairable(m) == m.kind = "loss" /\ ~(m.packet = "LINKREQUEST" /\ m.hops = 0)
SingleLossRepaired ==
  (MishapsSoFar <= 1 /\ \A m \in history.mishaps : Repairable(m))
     => history.reaped = {}

(* Neither end stays half open.                                            *)
HalfOpenEnds ==
  /\ initiator.status = "PENDING" ~> initiator.status # "PENDING"
  /\ responder.status = "HANDSHAKE" ~> responder.status # "HANDSHAKE"

(* After one mishap at most, both ends come to agree whether they have a   *)
(* link, although LINKCLOSE and the RTT packet may overtake each other.    *)
EndsAgree ==
  <>[](MishapsSoFar <= 1 => (initiator.status = "ACTIVE" <=> responder.status = "ACTIVE"))
=============================================================================
