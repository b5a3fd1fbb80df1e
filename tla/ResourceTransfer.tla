------------------------- MODULE ResourceTransfer -------------------------
(***************************************************************************)
(* One resource carried over one link: Resource.cpp at both ends, the      *)
(* RESOURCE_* cases of Link::receive, the watchdogs that Transport::jobs   *)
(* polls, and the consumer behind them.                                    *)
(*                                                                         *)
(*   sender    ADV ->            -> PART .. PART  [HMU ->]        COMPLETE *)
(*   receiver      -> REQ (window)               -> REQ ..  PRF ->         *)
(*                                                                         *)
(* The receiver pulls: it asks for the parts of a window by their map      *)
(* hashes, and for the next segment of the hashmap when it has run out of  *)
(* hashes. Packets are lost, repeated and reordered.                       *)
(*                                                                         *)
(* A part is its position. What a packet of data is, is known by its map   *)
(* hash alone, four bytes of it, and hashOf says which positions share     *)
(* one. The encryption, the compression and the resource hash are          *)
(* abstracted to what they detect: an assembly in which some position does *)
(* not hold its own part.                                                  *)
(*                                                                         *)
(* A watchdog's deadline is either due, because nothing more can come, or  *)
(* it falls early, which is a mishap.                                      *)
(***************************************************************************)
EXTENDS Naturals, FiniteSets, Bags, SequencesExt

CONSTANTS
  HASHMAP_MAX_LEN,           \* map hashes that one packet has room for
  WINDOW, WINDOW_MIN, WINDOW_MAX_SLOW, WINDOW_MAX_VERY_SLOW, WINDOW_MAX_FAST,
  WINDOW_FLEXIBILITY, FAST_RATE_THRESHOLD, VERY_SLOW_RATE_THRESHOLD,
  MAX_RETRIES, MAX_ADV_RETRIES,
  PROOF_RETRIES,             \* the 3 of Resource::request
  REQ_HASHLIST_MAX,
  Kinds,                     \* what the resource may be: see AllKinds
  HashMaps,                  \* what the map hashes of its parts may be
  Rates,                     \* rates the receiver may measure
  Mishaps,                   \* see AllMishaps
  MaxMishaps                 \* bound: how many of them

(* A resource of the application's, which rnsd accepts one at a time; a    *)
(* request, and a response, too large for a packet.                        *)
AllKinds   == {"app", "request", "response"}
AllRates   == {"very slow", "slow", "fast"}
(* A packet is lost, or arrives and arrives again later; a watchdog's      *)
(* deadline falls while an answer is under way; a consumer closes the link *)
AllMishaps == {"lose", "repeat", "early", "close"}

ASSUME TransferAssumption ==
  /\ HASHMAP_MAX_LEN \in Nat \ {0}
  /\ {WINDOW, WINDOW_MIN, WINDOW_MAX_SLOW, WINDOW_MAX_VERY_SLOW, WINDOW_MAX_FAST,
      WINDOW_FLEXIBILITY, FAST_RATE_THRESHOLD, VERY_SLOW_RATE_THRESHOLD} \subseteq Nat \ {0}
  /\ WINDOW_MIN <= WINDOW
  /\ {MAX_RETRIES, MAX_ADV_RETRIES, PROOF_RETRIES, MaxMishaps} \subseteq Nat
  /\ REQ_HASHLIST_MAX \in Nat \ {0}
  /\ Kinds \subseteq AllKinds /\ \A h \in HashMaps : h \in Seq(Nat) /\ h # <<>>
  /\ Rates \subseteq AllRates /\ Mishaps \subseteq AllMishaps

VARIABLES
  kind,        \* what is carried
  hashOf,      \* the map hash of each position; it has _total_parts of them
  tx,          \* the sender's ResourceData, and whether the link holds it
  rx,          \* the receiver: its _incoming_resources and what gates them
  link,        \* the Link at each end
  net,         \* packets under way, a bag
  budget,      \* mishaps left
  history      \* what has happened, for the properties
vars == <<kind, hashOf, tx, rx, link, net, budget, history>>

Parts     == Len(hashOf)
Positions == 1 .. Parts

-----------------------------------------------------------------------------
(* Packets.                                                                *)
Adv         == [to |-> "rx", type |-> "ADV"]
Part(p)     == [to |-> "rx", type |-> "PART", part |-> p]
Hmu(seg)    == [to |-> "rx", type |-> "HMU", segment |-> seg]
Icl         == [to |-> "rx", type |-> "ICL"]
Close(end)  == [to |-> end, type |-> "LINKCLOSE"]
Prf         == [to |-> "tx", type |-> "PRF"]
(* The parts asked for, the last position whose hash is known if the next  *)
(* segment is wanted (else 0), and a packet hash of its own.               *)
Req(id, wanted, last) ==
  [to |-> "tx", type |-> "REQ", id |-> id, wanted |-> wanted, last |-> last]

Nothing == EmptyBag
One(m)  == SetToBag({m})
(* m is taken from the network, and what comes of it is put there.         *)
Exchange(m, sent) == net' = (net (-) One(m)) (+) sent
Emit(sent)        == net' = net (+) sent

-----------------------------------------------------------------------------
(* The receiver's ResourceData. A position holds the part that was filed   *)
(* under its map hash, or 0.                                               *)
Missing(c)  == {p \in Positions : c.parts[p] = 0}
Received(c) == Missing(c) = {}
Exact(c)    == \A p \in Positions : c.parts[p] = p
Height(c)   == Max(c.known \cup {0})                   \* _hashmap_height
ShortSegment(s) == {p \in Positions : s * HASHMAP_MAX_LEN < p /\ p < (s + 1) * HASHMAP_MAX_LEN}
Segment(s)  == {p \in Positions : s * HASHMAP_MAX_LEN < p /\ p <= (s + 1) * HASHMAP_MAX_LEN}

NewCopy ==
  [parts |-> [p \in Positions |-> 0], known |-> Segment(0), outstanding |-> 0,
   waiting |-> FALSE, answered |-> FALSE, retries |-> MAX_RETRIES,
   window |-> WINDOW, windowMin |-> WINDOW_MIN, windowMax |-> WINDOW_MAX_SLOW,
   fast |-> 0, slow |-> 0]

(* _request_window: what the window from the first missing position asks   *)
(* for, up to the first position whose hash is not known.                  *)
InWindow(c) ==
  LET first == Min(Missing(c))
  IN  {p \in Missing(c) : p < first + c.window}
Unknown(c)  == InWindow(c) \ c.known
Wanted(c)   == {p \in InWindow(c) : \A u \in Unknown(c) : p < u}
Exhausted(c) == Unknown(c) # {}

IdsInUse == {m.id : m \in {q \in DOMAIN net : q.type = "REQ"}} \cup {tx.seen[i] : i \in DOMAIN tx.seen}
FreshId  == Min(1 .. Cardinality(IdsInUse) + 1 \ IdsInUse)

Asking(c) == ~c.waiting /\ Missing(c) # {}
AfterAsking(c) ==
  IF Asking(c) THEN [c EXCEPT !.outstanding = Cardinality(Wanted(c)),
                              !.waiting = Exhausted(c), !.answered = FALSE]
               ELSE c
Question(c) ==
  IF Asking(c) THEN One(Req(FreshId, Wanted(c), IF Exhausted(c) THEN Height(c) ELSE 0))
               ELSE Nothing

-----------------------------------------------------------------------------
(* receive_part, piece by piece. The rates measured move the window's      *)
(* upper bound.                                                            *)
CountFast(c, rate) ==
  IF rate = "fast" /\ c.fast < FAST_RATE_THRESHOLD
  THEN [c EXCEPT !.fast = @ + 1,
                 !.windowMax = IF c.fast + 1 = FAST_RATE_THRESHOLD THEN WINDOW_MAX_FAST ELSE @]
  ELSE c
CountSlow(c, rate) ==
  IF rate = "very slow" /\ c.fast = 0 /\ c.slow < VERY_SLOW_RATE_THRESHOLD
  THEN [c EXCEPT !.slow = @ + 1,
                 !.windowMax = IF c.slow + 1 = VERY_SLOW_RATE_THRESHOLD
                               THEN WINDOW_MAX_VERY_SLOW ELSE @]
  ELSE c

(* Any part at all shows that the sender is alive.                         *)
Refreshed(c, rate) ==
  LET sampled == IF c.answered THEN c ELSE CountFast(c, rate)
  IN  [sampled EXCEPT !.retries = MAX_RETRIES, !.answered = TRUE]

(* Where a part belongs: the first missing position of its map hash.       *)
PlacesFor(c, p) == {q \in Missing(c) \cap c.known : hashOf[q] = hashOf[p]}
Filed(c, p) ==
  [c EXCEPT !.parts[Min(PlacesFor(c, p))] = p,
            !.outstanding = IF @ > 0 THEN @ - 1 ELSE 0]

Drained(c) == ~Received(c) /\ ~c.waiting /\ c.outstanding = 0
Grown(c) ==
  IF c.window < c.windowMax
  THEN [c EXCEPT !.window = @ + 1,
                 !.windowMin = IF (c.window + 1) - @ > WINDOW_FLEXIBILITY - 1 THEN @ + 1 ELSE @]
  ELSE c
(* The window once a part is filed: grown, and its bound adapted, when all *)
(* that was asked for has come.                                            *)
Adapted(c, rate) ==
  IF Drained(c) THEN CountSlow(CountFast(Grown(c), rate), rate) ELSE c
Continued(c)   == IF Drained(c) THEN AfterAsking(c) ELSE c
NextQuestion(c) == IF Drained(c) THEN Question(c) ELSE Nothing

(* The watchdog shrinks the window before it asks again. The difference is *)
(* taken between size_t: below zero it is huge.                            *)
ShrunkUnguarded(c) == [c EXCEPT !.window = IF @ > 0 THEN @ - 1 ELSE @]
Shrunk(c) ==
  IF c.window > c.windowMin
  THEN LET w == c.window - 1
           top == c.windowMax - 1
       IN  [c EXCEPT !.window = w,
                     !.windowMax = IF @ > c.windowMin
                                   THEN IF top < w \/ top - w > WINDOW_FLEXIBILITY - 1
                                        THEN top - 1 ELSE top
                                   ELSE @]
  ELSE c

-----------------------------------------------------------------------------
(* The consumers. rnsd lets one resource of the application through at a   *)
(* time (onResAdvertised), and hears of its end (onResConcluded); the      *)
(* concluded callback of a request or a response is empty, and the link    *)
(* acts on them when their last part arrives, whole or corrupt.            *)
AdmitsAny == kind = "response" => rx.pending
Admits == CASE kind = "app" -> ~rx.busy
            [] kind = "response" -> rx.pending
            [] kind = "request" -> TRUE

(* What a copy's end changes at the receiver, besides removing it.         *)
Concluded(r, outcome) ==
  CASE kind = "app" ->
         [r EXCEPT !.busy = FALSE,
                   !.done = IF outcome = "complete" THEN @ + 1 ELSE @,
                   !.failed = IF outcome = "complete" THEN @ ELSE @ + 1]
    [] kind = "request" /\ outcome = "complete" -> [r EXCEPT !.done = @ + 1]
    [] kind = "response" /\ outcome \in {"complete", "corrupt"} /\ r.pending ->
         [r EXCEPT !.pending = FALSE,
                   !.done = IF outcome = "complete" THEN @ + 1 ELSE @,
                   !.failed = IF outcome = "complete" THEN @ ELSE @ + 1]
    [] OTHER -> r

(* The sender's: rnsd is told through the slot that holds the resource's   *)
(* hash, once.                                                             *)
Told(t, status) ==
  [t EXCEPT !.status = status, !.held = FALSE, !.busy = FALSE,
            !.told = IF kind = "app" /\ t.busy THEN Append(@, status) ELSE @]

Remember(field) == history' = [history EXCEPT ![field] = @ + 1]

Spend(mishap) ==
  /\ mishap \in Mishaps /\ budget > 0
  /\ budget' = budget - 1

Up(end) == link[end] = "ACTIVE"

-----------------------------------------------------------------------------
Init ==
  /\ kind \in Kinds /\ hashOf \in HashMaps
  /\ tx = [status |-> "NONE", retries |-> 0, sent |-> {}, seen |-> <<>>,
           held |-> FALSE, busy |-> FALSE, told |-> <<>>]
  /\ rx = [copies |-> <<>>, busy |-> FALSE, pending |-> kind = "response",
           done |-> 0, failed |-> 0]
  /\ link = [tx |-> "ACTIVE", rx |-> "ACTIVE"]
  /\ net = EmptyBag
  /\ budget = MaxMishaps
  /\ history = [accepted |-> 0, completed |-> 0, corrupt |-> 0,
                proofsLost |-> 0, early |-> 0, outOfSequence |-> 0]

-----------------------------------------------------------------------------
(* The sender.                                                             *)

(* The constructor on an active link: registered, and advertised.          *)
init_outbound ==
  /\ tx.status = "NONE" /\ Up("tx")
  /\ tx' = [tx EXCEPT !.status = "ADVERTISED", !.retries = MAX_ADV_RETRIES,
                      !.held = TRUE, !.busy = kind = "app"]
  /\ Emit(One(Adv))
  /\ UNCHANGED <<kind, hashOf, rx, link, budget, history>>

FirstWith(p) == Min({q \in Positions : hashOf[q] = hashOf[p]})
PartsFor(wanted) ==
  [m \in {Part(FirstWith(p)) : p \in wanted} |->
     Cardinality({p \in wanted : Part(FirstWith(p)) = m})]

Noted(seen, id) ==
  Append(IF Len(seen) >= REQ_HASHLIST_MAX THEN Tail(seen) ELSE seen, id)
SeenBefore(id) == \E i \in DOMAIN tx.seen : tx.seen[i] = id

(* A request not answered before, for a resource that has not failed.      *)
Answers(m) == m.type = "REQ" /\ tx.held /\ ~SeenBefore(m.id)
InSequence(m) == m.last # 0 => FirstWith(m.last) % HASHMAP_MAX_LEN = 0

request(m) ==
  /\ BagIn(m, net) /\ Up("tx") /\ Answers(m) /\ tx.status # "FAILED" /\ InSequence(m)
  /\ LET sent == tx.sent \cup {FirstWith(p) : p \in m.wanted}
         all  == sent = Positions
         hmu  == IF m.last = 0 THEN Nothing
                 ELSE One(Hmu(FirstWith(m.last) \div HASHMAP_MAX_LEN))
     IN  /\ tx' = [tx EXCEPT !.seen = Noted(@, m.id), !.sent = sent,
                             !.status = IF all THEN "AWAITING_PROOF" ELSE "TRANSFERRING",
                             !.retries = IF all THEN PROOF_RETRIES ELSE MAX_RETRIES]
         /\ Exchange(m, PartsFor(m.wanted) (+) hmu)
  /\ UNCHANGED <<kind, hashOf, rx, link, budget, history>>

(* The hashmap cannot be continued from there: the parts go out, and the   *)
(* transfer is cancelled. The link holds it until the next sweep.          *)
requestOutOfSequence(m) ==
  /\ BagIn(m, net) /\ Up("tx") /\ Answers(m) /\ tx.status # "FAILED" /\ ~InSequence(m)
  /\ LET sent == tx.sent \cup {FirstWith(p) : p \in m.wanted}
         noted == [tx EXCEPT !.seen = Noted(@, m.id), !.sent = sent, !.retries = MAX_RETRIES]
     IN  tx' = [Told(noted, "FAILED") EXCEPT !.held = TRUE]
  /\ Exchange(m, PartsFor(m.wanted) (+) One(Icl))
  /\ Remember("outOfSequence")
  /\ UNCHANGED <<kind, hashOf, rx, link, budget>>

(* validate_proof: only a receiver that holds the data can have made it.   *)
validate_proof(m) ==
  /\ BagIn(m, net) /\ m.type = "PRF" /\ Up("tx") /\ tx.held
  /\ tx' = Told(tx, "COMPLETE")
  /\ Exchange(m, Nothing)
  /\ UNCHANGED <<kind, hashOf, rx, link, budget, history>>

-----------------------------------------------------------------------------
(* The receiver.                                                           *)

(* accept: the copy goes into a std::set ordered by its address.           *)
accept(m) ==
  /\ BagIn(m, net) /\ m.type = "ADV" /\ Up("rx") /\ Admits
  /\ \E i \in 1 .. Len(rx.copies) + 1 :
       rx' = [rx EXCEPT !.copies = InsertAt(@, i, AfterAsking(NewCopy)),
                        !.busy = kind = "app"]
  /\ Exchange(m, Question(NewCopy))
  /\ Remember("accepted")
  /\ UNCHANGED <<kind, hashOf, tx, link, budget>>

(* The copies a part is offered to, in order, until one has a place for    *)
(* it.                                                                     *)
Taker(p) ==
  Min({i \in DOMAIN rx.copies : PlacesFor(rx.copies[i], p) # {}} \cup {Len(rx.copies) + 1})
Offered(p, rate) ==
  [i \in DOMAIN rx.copies |->
     IF i <= Taker(p) THEN Refreshed(rx.copies[i], rate) ELSE rx.copies[i]]

receivePartInVain(m) ==
  /\ BagIn(m, net) /\ m.type = "PART" /\ Up("rx") /\ Taker(m.part) = Len(rx.copies) + 1
  /\ \E rate \in Rates : rx' = [rx EXCEPT !.copies = Offered(m.part, rate)]
  /\ Exchange(m, Nothing)
  /\ UNCHANGED <<kind, hashOf, tx, link, budget, history>>

receivePart(m) ==
  /\ BagIn(m, net) /\ m.type = "PART" /\ Up("rx") /\ Taker(m.part) <= Len(rx.copies)
  /\ \E rate, rate2 \in Rates :
       LET k == Taker(m.part)
           offered == Offered(m.part, rate)
       IN \E c \in {Adapted(Filed(offered[k], m.part), rate2)} :
           /\ ~Received(c)
           /\ rx' = [rx EXCEPT !.copies = [offered EXCEPT ![k] = Continued(c)]]
           /\ Exchange(m, NextQuestion(c))
  /\ UNCHANGED <<kind, hashOf, tx, link, budget, history>>

(* The last part: assembled, proved if it is what was sent, concluded and  *)
(* erased.                                                                 *)
AssemblesUnchecked(m, c, offered, k) ==
  /\ Received(c)
  /\ LET outcome == IF Exact(c) THEN "complete" ELSE "corrupt"
     IN  /\ rx' = Concluded([rx EXCEPT !.copies = RemoveAt(offered, k)], outcome)
         /\ Exchange(m, One(Prf))
         /\ Remember(IF Exact(c) THEN "completed" ELSE "corrupt")
Assembles(m, c, offered, k) ==
  /\ Received(c)
  /\ LET outcome == IF Exact(c) THEN "complete" ELSE "corrupt"
     IN  /\ rx' = Concluded([rx EXCEPT !.copies = RemoveAt(offered, k)], outcome)
         /\ Exchange(m, IF Exact(c) THEN One(Prf) ELSE Nothing)
         /\ Remember(IF Exact(c) THEN "completed" ELSE "corrupt")
receiveLastPart(m) ==
  /\ BagIn(m, net) /\ m.type = "PART" /\ Up("rx") /\ Taker(m.part) <= Len(rx.copies)
  /\ \E rate \in Rates :
       LET k == Taker(m.part)
           offered == Offered(m.part, rate)
       IN  Assembles(m, Filed(offered[k], m.part), offered, k)
  /\ UNCHANGED <<kind, hashOf, tx, link, budget>>

(* hashmap_update_packet, at the first copy that has the hash: they all    *)
(* have. It asks again at once.                                            *)
hashmap_update(m) ==
  /\ BagIn(m, net) /\ m.type = "HMU" /\ Up("rx") /\ rx.copies # <<>>
  /\ LET c == [rx.copies[1] EXCEPT !.known = @ \cup Segment(m.segment), !.waiting = FALSE]
     IN  /\ rx' = [rx EXCEPT !.copies[1] = AfterAsking(c)]
         /\ Exchange(m, Question(c))
  /\ UNCHANGED <<kind, hashOf, tx, link, budget, history>>

(* RESOURCE_ICL cancels the first copy.                                    *)
receiveCancel(m) ==
  /\ BagIn(m, net) /\ m.type = "ICL" /\ Up("rx") /\ rx.copies # <<>>
  /\ rx' = Concluded([rx EXCEPT !.copies = Tail(@)], "failed")
  /\ Exchange(m, Nothing)
  /\ UNCHANGED <<kind, hashOf, tx, link, budget, history>>

(* What finds nobody to take it: a closed link, a resource that the link   *)
(* no longer holds, a request answered already, an advertisement refused.  *)
ignore(m) ==
  /\ BagIn(m, net) /\ m.type # "LINKCLOSE"
  /\ \/ ~Up(m.to)
     \/ m.type = "ADV" /\ ~Admits
     \/ m.type \in {"HMU", "ICL"} /\ rx.copies = <<>>
     \/ m.type = "PRF" /\ ~tx.held
     \/ m.type = "REQ" /\ ~Answers(m)
  /\ Exchange(m, Nothing)
  /\ UNCHANGED <<kind, hashOf, tx, rx, link, budget, history>>

(* A request for a resource that was cancelled and not yet swept is noted. *)
requestAfterCancel(m) ==
  /\ BagIn(m, net) /\ Up("tx") /\ Answers(m) /\ tx.status = "FAILED"
  /\ tx' = [tx EXCEPT !.seen = Noted(@, m.id)]
  /\ Exchange(m, Nothing)
  /\ UNCHANGED <<kind, hashOf, rx, link, budget, history>>

-----------------------------------------------------------------------------
(* The watchdogs, once each way that Resource::watchdog can go. A deadline *)
(* is due when nothing is under way; the sender's, which are longer than   *)
(* the receiver's, when that has no retries left besides. Any deadline may *)
(* also fall early: the answer is on its way.                              *)
Quiet == net = EmptyBag
ReceiverIsTrying == Up("rx") /\ \E i \in DOMAIN rx.copies : rx.copies[i].retries > 0

Falls(due) ==
  \/ due /\ UNCHANGED <<budget, history>>
  \/ ~due /\ Spend("early") /\ Remember("early")

(* cancel at the sender: the peer is told, and the sweep that follows in   *)
(* resource_watchdogs erases.                                              *)
CancelSending == /\ tx' = Told(tx, "FAILED")
                 /\ Emit(One(Icl))

Watched(status) == Up("tx") /\ tx.held /\ tx.status = status

adv_timeout ==
  /\ Watched("ADVERTISED") /\ Falls(Quiet /\ ~ReceiverIsTrying)
  /\ \/ tx.retries = 0 /\ CancelSending
     \/ tx.retries > 0 /\ tx' = [tx EXCEPT !.retries = @ - 1] /\ Emit(One(Adv))
  /\ UNCHANGED <<kind, hashOf, rx, link>>

request_timeout ==
  /\ Watched("TRANSFERRING") /\ Falls(Quiet /\ ~ReceiverIsTrying)
  /\ CancelSending
  /\ UNCHANGED <<kind, hashOf, rx, link>>

proof_timeout ==
  /\ Watched("AWAITING_PROOF") /\ Falls(Quiet /\ ~ReceiverIsTrying)
  /\ \/ tx.retries = 0 /\ CancelSending
     \/ tx.retries > 0 /\ tx' = [tx EXCEPT !.retries = @ - 1] /\ UNCHANGED net
  /\ UNCHANGED <<kind, hashOf, rx, link>>

(* What requestOutOfSequence left behind is erased.                        *)
sweep ==
  /\ Watched("FAILED")
  /\ tx' = [tx EXCEPT !.held = FALSE]
  /\ UNCHANGED <<kind, hashOf, rx, link, net, budget, history>>

KeepsWaiting(c) == [Shrunk(c) EXCEPT !.retries = @ - 1]
AsksAfresh(c)   == [Shrunk(c) EXCEPT !.retries = @ - 1, !.waiting = FALSE]
part_timeout(i) ==
  /\ Up("rx") /\ i \in DOMAIN rx.copies /\ Falls(Quiet)
  /\ \/ /\ rx.copies[i].retries > 0
        /\ LET c == AsksAfresh(rx.copies[i])
           IN  /\ rx' = [rx EXCEPT !.copies[i] = AfterAsking(c)]
               /\ Emit(Question(c))
     \/ /\ rx.copies[i].retries = 0
        /\ rx' = Concluded([rx EXCEPT !.copies = RemoveAt(@, i)], "failed")
        /\ UNCHANGED net
  /\ UNCHANGED <<kind, hashOf, tx, link>>

-----------------------------------------------------------------------------
(* The link closes under the transfer. link_closed cancels what the link   *)
(* holds, and no packet can be sent any more.                              *)
Other(end) == IF end = "tx" THEN "rx" ELSE "tx"
Closed(end) ==
  /\ link' = [link EXCEPT ![end] = "CLOSED"]
  /\ IF end = "tx"
     THEN /\ tx' = IF tx.held THEN Told(tx, "FAILED") ELSE tx
          /\ UNCHANGED rx
     ELSE /\ rx' = [(IF rx.copies # <<>> THEN Concluded(rx, "failed") ELSE rx)
                      EXCEPT !.copies = <<>>]
          /\ UNCHANGED tx

teardown(end) ==
  /\ Up(end) /\ Spend("close")
  /\ Closed(end)
  /\ Emit(One(Close(Other(end))))
  /\ UNCHANGED <<kind, hashOf, history>>

teardown_packet(m) ==
  /\ BagIn(m, net) /\ m.type = "LINKCLOSE"
  /\ IF Up(m.to) THEN Closed(m.to) ELSE UNCHANGED <<tx, rx, link>>
  /\ Exchange(m, Nothing)
  /\ UNCHANGED <<kind, hashOf, budget, history>>

(* The close was lost: the link goes stale, and its watchdog closes it.    *)
link_watchdog(end) ==
  /\ Up(end) /\ ~Up(Other(end)) /\ Quiet
  /\ Closed(end)
  /\ UNCHANGED <<kind, hashOf, net, budget, history>>

lose(m) ==
  /\ BagIn(m, net) /\ Spend("lose")
  /\ Exchange(m, Nothing)
  /\ IF m.type = "PRF" THEN Remember("proofsLost") ELSE UNCHANGED history
  /\ UNCHANGED <<kind, hashOf, tx, rx, link>>

(* packet_filter lets these through though their hash is known.            *)
repeat(m) ==
  /\ BagIn(m, net) /\ m.type \in {"REQ", "PART", "PRF"} /\ Spend("repeat")
  /\ Emit(One(m))
  /\ UNCHANGED <<kind, hashOf, tx, rx, link, history>>

-----------------------------------------------------------------------------
Handle(m) ==
  \/ request(m) \/ requestOutOfSequence(m) \/ requestAfterCancel(m) \/ validate_proof(m)
  \/ accept(m) \/ receivePartInVain(m) \/ receivePart(m) \/ receiveLastPart(m)
  \/ hashmap_update(m) \/ receiveCancel(m) \/ teardown_packet(m) \/ ignore(m)

Watchdogs ==
  \/ adv_timeout \/ request_timeout \/ proof_timeout \/ sweep
  \/ \E i \in DOMAIN rx.copies : part_timeout(i)
  \/ \E end \in {"tx", "rx"} : link_watchdog(end)

Fault ==
  \/ \E end \in {"tx", "rx"} : teardown(end)
  \/ \E m \in DOMAIN net : lose(m) \/ repeat(m)

Next ==
  \/ init_outbound
  \/ \E m \in DOMAIN net : Handle(m)
  \/ Watchdogs
  \/ Fault

Spec == Init /\ [][Next]_vars

(* Packets that are not lost arrive, and Transport::jobs calls the         *)
(* watchdogs of every active link for as long as the program runs. A       *)
(* deadline that falls early is no part of it: budget bounds those.        *)
FairSpec ==
  /\ Spec
  /\ WF_vars(\E m \in DOMAIN net : Handle(m))
  /\ WF_vars(Watchdogs)

-----------------------------------------------------------------------------
(* Properties.                                                             *)

Status == {"NONE", "ADVERTISED", "TRANSFERRING", "AWAITING_PROOF", "COMPLETE", "FAILED"}
Copy ==
  [parts : [Positions -> 0 .. Parts], known : SUBSET Positions, outstanding : 0 .. Parts,
   waiting : BOOLEAN, answered : BOOLEAN, retries : 0 .. MAX_RETRIES,
   window : Nat, windowMin : Nat, windowMax : Nat,
   fast : 0 .. FAST_RATE_THRESHOLD, slow : 0 .. VERY_SLOW_RATE_THRESHOLD]
Message ==
  [to : {"rx"}, type : {"ADV", "ICL"}] \cup [to : {"rx"}, type : {"PART"}, part : Positions]
  \cup [to : {"rx"}, type : {"HMU"}, segment : Nat] \cup [to : {"tx"}, type : {"PRF"}]
  \cup [to : {"tx", "rx"}, type : {"LINKCLOSE"}]
  \cup [to : {"tx"}, type : {"REQ"}, id : Nat, wanted : SUBSET Positions,
       last : Positions \cup {0}]

(* Every value has its type, and the window never falls below its lower    *)
(* bound: the difference receive_part takes of the two is unsigned.        *)
WindowAboveMin(c) == WINDOW_MIN <= c.windowMin /\ c.windowMin <= c.window
TypeOK ==
  /\ kind \in Kinds /\ hashOf \in HashMaps
  /\ tx \in [status : Status, retries : Nat, sent : SUBSET Positions, seen : Seq(Nat),
             held : BOOLEAN, busy : BOOLEAN, told : Seq({"COMPLETE", "FAILED"})]
  /\ rx \in [copies : Seq(Copy), busy : BOOLEAN, pending : BOOLEAN, done : Nat, failed : Nat]
  /\ \A i \in DOMAIN rx.copies : WindowAboveMin(rx.copies[i])
  /\ link \in [{"tx", "rx"} -> {"ACTIVE", "CLOSED"}]
  /\ DOMAIN net \subseteq Message
  /\ budget \in 0 .. MaxMishaps
  /\ history \in [{"accepted", "completed", "corrupt", "proofsLost", "early",
                  "outOfSequence"} -> Nat]

Injective == \A p, q \in Positions : hashOf[p] = hashOf[q] => p = q

(* However the packets of a transfer and its retries mix, nothing is       *)
(* assembled wrongly and no request for a hashmap segment is refused,      *)
(* unless two parts share a map hash: a part has one place, and the hashes *)
(* known are whole segments without a gap.  A second advertisement that is *)
(* accepted leaves such gaps, for a segment that the first copy asked for  *)
(* goes to the second: that one then asks from the end of the resource.    *)
CleanUnlessHashesCollide ==
  Injective => /\ history.corrupt = 0
               /\ history.outOfSequence > 0 => history.accepted > 1

(* rnsd: while the consumer's slot is busy the link really holds the one   *)
(* resource it accepted, and every resource it accepted is reported to it  *)
(* once, however the transfer or the link ended.                           *)
EveryResourceIsReported ==
  kind = "app" =>
    /\ Up("rx") => (rx.busy <=> rx.copies # <<>>)
    /\ Len(rx.copies) <= 1
    /\ history.accepted = rx.done + rx.failed + Len(rx.copies)

(* The resource as its sender sees it, over what the receiver assembled.   *)
SenderStage ==
  CASE tx.status = "NONE" -> "idle"
    [] tx.status \in {"ADVERTISED", "TRANSFERRING", "AWAITING_PROOF"} -> "offering"
    [] tx.status = "COMPLETE" -> "done"
    [] tx.status = "FAILED" -> IF tx.held THEN "cancelled" ELSE "failed"
Service == INSTANCE ResourceService WITH sender <- SenderStage, delivered <- history.completed
(* COMPLETE at the sender means that the receiver has the data, whole.     *)
ImplementsService == Service!Spec

(* Both ends come to an end, whatever was lost and whoever closed: no      *)
(* resource stays in a link's set for good.                                *)
Ended == tx.status \in {"COMPLETE", "FAILED"} /\ ~tx.held /\ rx.copies = <<>>
Settles == tx.status # "NONE" ~> Ended

(* The retries are enough for what they are there for: a transfer that     *)
(* loses no more packets than it has retries completes, unless it is the   *)
(* proof that is lost, which is not sent twice, a deadline falls early, a  *)
(* link closes or two parts share a map hash.                              *)
Harmed ==
  \/ ~Injective \/ history.proofsLost > 0 \/ history.early > 0
  \/ ~Up("tx") \/ ~Up("rx")
CompletesUnlessHarmed == tx.status # "NONE" ~> tx.status = "COMPLETE" \/ Harmed
=============================================================================
