---------------------------- MODULE ChannelBridge ----------------------------
(***************************************************************************)
(* rnsd's table of channels (rnsd.cpp, RNSD_PORT_CHANNEL): each slot holds *)
(* a consumer's handle, a hidden Link, the Channel in it, an outbox for    *)
(* what the Channel does not take yet, and at most one Resource beside it. *)
(*                                                                         *)
(* What a Channel does is taken from ChannelService: what send() accepted  *)
(* is proved only when the far end has it, and poll() settles what was     *)
(* proved.  All of it is one task, and its functions call each other while *)
(* they run (an open evicts, eviction tears a link down, the link's        *)
(* callbacks fail a resource and change the slot), so each is an operator  *)
(* from one state of the task to the next.  Deadlines pass at some moment; *)
(* whether there is a path, and the Channel's window, are chosen anew      *)
(* each time.  A message is its number among those its consumer handed     *)
(* over, and whether it fits into an envelope.                             *)
(*                                                                         *)
(* A Link from which nothing was heard for long goes STALE: its slot is    *)
(* not told and stays attached, its Channel takes nothing, and after a     *)
(* grace it closes, unless a packet brings it back.  The proof of an       *)
(* envelope is no such packet: it goes to its receipt, not to the Link.    *)
(***************************************************************************)
EXTENDS Integers, FiniteSets, SequencesExt

CONSTANTS
  RNSD_MAX_CHAN_CONNS,
  RNSD_CHAN_MAX_OUTBOX,
  Windows,                  \* windows a Channel may have
  Tags,                     \* the consumers, by the tag they open with
  Outbound, Inbound,        \* resources
  None,
  MaxLinks,                 \* bound: links that are ever made
  MaxInputs                 \* bound: opens, messages, resources, peer's doings

Slots == 1 .. RNSD_MAX_CHAN_CONNS
Resources == Outbound \cup Inbound
States == {"FREE", "AWAITING_PATH", "ESTABLISHING", "ACTIVE", "CLOSED", "FAILED"}
Words == {"done", "failed"}
Links == 1 .. MaxLinks      \* an inbound channel's tag is made of its link's id
NoLink == 0
Unpublished == -1

ASSUME BridgeAssumption ==
  /\ {RNSD_MAX_CHAN_CONNS, RNSD_CHAN_MAX_OUTBOX} \subseteq Nat \ {0}
  /\ Windows \subseteq Nat \ {0}
  /\ None \notin Resources \cup Tags \cup Links
  /\ Outbound \cap Inbound = {} /\ Tags \cap Links = {}
  /\ {MaxLinks, MaxInputs} \subseteq Nat

VARIABLES
  rnsd,       \* the task's state: slot, link, idle, tree, told
  inputs
bridgeVars == <<rnsd, inputs>>

(* `handed', `refused', `covered' and `heard' are history: how many        *)
(* messages the consumer has handed over, which of them last_error spoke   *)
(* of, how many there were when `outstanding' was last compared, and       *)
(* whether the Link was ACTIVE then.                                       *)
Free ==
  [used |-> FALSE, tag |-> None, handle |-> FALSE, state |-> "FREE", link |-> NoLink,
   channel |-> FALSE, outbox |-> <<>>, outstanding |-> Unpublished, pend |-> None, res |-> None,
   dead |-> FALSE, handed |-> 0, refused |-> {}, covered |-> 0,
   heard |-> FALSE]

(* `sent' is what the Channel accepted, `proved' what the far end has and  *)
(* has proved, `settled' what poll() has taken out of the ring.            *)
NewLink == [status |-> "NONE", sent |-> <<>>, proved |-> {}, settled |-> {}, carries |-> {}]

BridgeInit ==
  /\ rnsd = [slot |-> [j \in Slots |-> Free], link |-> [l \in Links |-> NewLink],
             idle |-> <<>>, tree |-> {}, told |-> [r \in Resources |-> <<>>]]
  /\ inputs = 0

Input == inputs < MaxInputs /\ inputs' = inputs + 1

Used(b) == {j \in Slots : b.slot[j].used}
chanFindByLink(b, l) == {j \in Used(b) : b.slot[j].link = l}
chanFindByTag(b, tag) == {j \in Used(b) : b.slot[j].tag = tag}

(* The slots by last_activity, the longest idle first.                     *)
Without(q, j) ==
  IF j \in ToSet(q) THEN RemoveAt(q, CHOOSE i \in DOMAIN q : q[i] = j) ELSE q
chanTouch(b, j) == [b EXCEPT !.idle = Append(Without(@, j), j)]

Sent(b, j) == b.link[b.slot[j].link].sent
Ring(b, j) == ToSet(Sent(b, j)) \ b.link[b.slot[j].link].settled
UnprovedIn(k) == ToSet(k.sent) \ k.proved
Up(k) == k.status \in {"ACTIVE", "STALE"}
Attached(b, j) == b.slot[j].used /\ b.slot[j].state = "ACTIVE" /\ b.slot[j].channel

-----------------------------------------------------------------------------
(* Resources.                                                              *)
chanResSendAux(b, r, word) == [b EXCEPT !.told[r] = Append(@, word)]

chanStartOutboundResource(b, j, r) ==
  {[b EXCEPT !.slot[j].res = r, !.link[b.slot[j].link].carries = {r}],
   chanResSendAux(b, r, "failed")}

chanFindByResHash(b, r) == {j \in Used(b) : b.slot[j].res = r}
chanResConcluded(b, r, word) ==
  LET S == chanFindByResHash(b, r)
  IN  IF S = {} THEN b
      ELSE [chanResSendAux(b, r, word) EXCEPT !.slot[CHOOSE j \in S : TRUE].res = None]

-----------------------------------------------------------------------------
(* Links going down.                                                       *)
Unlinked(c) ==
  [c EXCEPT !.state = "CLOSED", !.dead = TRUE, !.channel = FALSE, !.link = NoLink]
onChanLinkClosedCb(b, l) ==
  LET S == chanFindByLink(b, l)
      j == CHOOSE j \in S : TRUE
  IN  IF S = {} THEN b
      ELSE [b EXCEPT !.slot[j] = Unlinked(@), !.tree = @ \cup {b.slot[j].tag}]

(* The resources of a Link that closes are cancelled one by one; at most   *)
(* one of them has a slot, the Link's, and the others end unheard.         *)
resources_cancelled(b, X) ==
  LET S == {j \in Used(b) : b.slot[j].res \in X}
  IN  IF S = {} THEN b ELSE chanResConcluded(b, b.slot[CHOOSE j \in S : TRUE].res, "failed")

(* Link::link_closed: its resources are cancelled, then the callback runs. *)
Shut(k) == [k EXCEPT !.status = "CLOSED", !.carries = {}]
link_closed(b, l) ==
  onChanLinkClosedCb(
    resources_cancelled([b EXCEPT !.link[l] = Shut(@)], b.link[l].carries), l)

(* Link::receive: any packet for the Link ends its silence.                *)
link_receive(b, l) ==
  IF b.link[l].status = "STALE" THEN [b EXCEPT !.link[l].status = "ACTIVE"] ELSE b

teardown(b, j) == IF b.slot[j].link = NoLink THEN b ELSE link_closed(b, b.slot[j].link)

chanFreeSlot_early(b, j) ==
  [teardown([b EXCEPT !.tree = @ \ {b.slot[j].tag}], j)
     EXCEPT !.slot[j] = Free, !.idle = Without(@, j)]
chanFreeSlot(b, j) ==
  [teardown(b, j) EXCEPT !.tree = @ \ {b.slot[j].tag}, !.slot[j] = Free, !.idle = Without(@, j)]

chanAlloc(b) ==
  IF Used(b) # Slots THEN [state |-> b, slot |-> CHOOSE j \in Slots \ Used(b) :
                                             \A i \in Slots \ Used(b) : j <= i]
  ELSE [state |-> chanFreeSlot(b, Head(b.idle)), slot |-> Head(b.idle)]

-----------------------------------------------------------------------------
(* Opening.                                                                *)
FreshLinks(b) == {l \in Links : b.link[l].status = "NONE"}
NextLink(b) == {l \in FreshLinks(b) : \A k \in FreshLinks(b) : l <= k}

Failed(c) == [c EXCEPT !.state = "FAILED"]
Fails(b, j) == [b EXCEPT !.slot[j] = Failed(@), !.tree = @ \cup {b.slot[j].tag}]

(* The link goes out; or the consumer's identity, the aspect or the        *)
(* constructor fails it.                                                   *)
chanKickoff(b, j) ==
  {Fails(b, j)} \cup
  {[b EXCEPT !.slot[j].state = "ESTABLISHING", !.slot[j].link = l, !.link[l].status = "PENDING"]
     : l \in NextLink(b)}

(* A tag that is in use is refused.                                        *)
onChannelConnect(tag) ==
  /\ Input
  /\ chanFindByTag(rnsd, tag) = {}
  /\ LET a == chanAlloc(rnsd)
         j == a.slot
         opened == chanTouch([a.state EXCEPT
                     !.slot[j] = [Free EXCEPT !.used = TRUE, !.tag = tag, !.handle = TRUE,
                                              !.state = "AWAITING_PATH"],
                     !.tree = @ \cup {tag}], j)
     IN  rnsd' \in {opened} \cup chanKickoff(opened, j)

(* A Link to a destination that listens for channels.                      *)
onIncomingChannelEstablished(l) ==
  /\ Input
  /\ l \in NextLink(rnsd)
  /\ LET a == chanAlloc(rnsd)
         j == a.slot
         up == chanTouch([a.state EXCEPT
                 !.slot[j] = [Free EXCEPT !.used = TRUE, !.tag = l, !.state = "ACTIVE",
                                          !.link = l],
                 !.link[l].status = "ACTIVE", !.tree = @ \cup {l}], j)
         attached == [up EXCEPT !.slot[j].handle = TRUE, !.slot[j].channel = TRUE]
         unreachable == [Fails(teardown(up, j), j) EXCEPT !.slot[j].dead = TRUE]
     IN  rnsd' \in {attached, unreachable}

chanSend(b, j, m) == [b EXCEPT !.link[b.slot[j].link].sent = Append(@, m.number)]

Numbers(box) == [i \in DOMAIN box |-> box[i].number]

(* As many as the window allows, up to the first that does not fit into an *)
(* envelope: send() refuses it, and the loop ends.                         *)
Fitting(box) == Min({Len(box)} \cup {i - 1 : i \in {i \in DOMAIN box : box[i].oversize}})

(* is_ready_to_send: not on a Link that is STALE, nor past the window.     *)
Room(b, j, window) ==
  LET k == b.link[b.slot[j].link]
      unproved == Cardinality(UnprovedIn(k))
  IN  IF k.status = "ACTIVE" /\ unproved < window THEN window - unproved ELSE 0
chanFlushOutbox(b, j, window) ==
  LET box == b.slot[j].outbox
      k == Min({Fitting(box), Room(b, j, window)})
  IN  [b EXCEPT !.link[b.slot[j].link].sent = @ \o Numbers(SubSeq(box, 1, k)),
                !.slot[j].outbox = SubSeq(box, k + 1, Len(box))]

(* A resource that was handed over before starts after the outbox.         *)
onChanLinkEstablishedCb(j, window) ==
  /\ rnsd.slot[j].state = "ESTABLISHING" /\ rnsd.slot[j].link # NoLink
  /\ LET l == rnsd.slot[j].link
         r == rnsd.slot[j].pend
         up == chanFlushOutbox(
                 chanTouch([rnsd EXCEPT !.slot[j].state = "ACTIVE", !.slot[j].channel = TRUE,
                                        !.link[l].status = "ACTIVE"], j), j, window)
     IN  rnsd' \in IF r = None THEN {up}
                   ELSE chanStartOutboundResource([up EXCEPT !.slot[j].pend = None], j, r)
  /\ UNCHANGED inputs

-----------------------------------------------------------------------------
(* Messages.                                                               *)
Goes_past(box) == TRUE
Goes(box) == box = <<>>
Buffers_overfull(box) == Len(box) <= RNSD_CHAN_MAX_OUTBOX
Buffers(box) == Len(box) < RNSD_CHAN_MAX_OUTBOX

onChannelRecv(j, oversize, window) ==
  /\ Input
  /\ rnsd.slot[j].used /\ rnsd.slot[j].handle
  /\ LET b == chanTouch([rnsd EXCEPT !.slot[j].handed = @ + 1], j)
         c == b.slot[j]
         m == [number |-> c.handed, oversize |-> oversize]
         refuse == [b EXCEPT !.slot[j].refused = @ \cup {m.number}]
     IN  rnsd' =
           CASE Attached(b, j) /\ oversize -> refuse
             [] Attached(b, j) /\ ~oversize /\ Goes(c.outbox) /\ Room(b, j, window) > 0
                  -> chanSend(b, j, m)
             [] OTHER -> IF Buffers(c.outbox)
                         THEN [b EXCEPT !.slot[j].outbox = Append(@, m)] ELSE refuse

(* A message from the far end goes to the consumer.                        *)
onChannelMsgCb(j) ==
  /\ Input /\ Attached(rnsd, j)
  /\ rnsd' = chanTouch(link_receive(rnsd, rnsd.slot[j].link), j)

onChannelDisconnect(j) ==
  /\ Input /\ rnsd.slot[j].used /\ rnsd.slot[j].handle
  /\ rnsd' = chanFreeSlot(rnsd, j)

Unheard(r) ==                                \* a resource not seen yet
  /\ rnsd.told[r] = <<>>
  /\ \A j \in Slots : r # rnsd.slot[j].pend
  /\ \A l \in Links : r \notin rnsd.link[l].carries

onChannelAux(j, r) ==
  /\ Input /\ rnsd.slot[j].used /\ Unheard(r)
  /\ rnsd.slot[j].res = None /\ rnsd.slot[j].pend = None
  /\ rnsd' \in IF Attached(rnsd, j) THEN chanStartOutboundResource(rnsd, j, r)
               ELSE {[rnsd EXCEPT !.slot[j].pend = r]}

chanResAdvertised(b, j) == b.slot[j].res = None
resourceAdvertised(j, r) ==
  /\ Input /\ Attached(rnsd, j) /\ Unheard(r)
  /\ chanResAdvertised(rnsd, j)
  /\ LET l == rnsd.slot[j].link
     IN  rnsd' = [link_receive(rnsd, l) EXCEPT !.slot[j].res = r, !.link[l].carries = @ \cup {r}]

finish(b, l, r, word) == chanResConcluded([b EXCEPT !.link[l].carries = @ \ {r}], r, word)

(* A Link finishes every Resource it carries: on its last packet, or       *)
(* without one when it gives up.                                           *)
resourceConcluded(l, word) ==
  \E r \in rnsd.link[l].carries :
    /\ \/ rnsd' = finish(link_receive(rnsd, l), l, r, word)
       \/ word = "failed" /\ rnsd' = finish(rnsd, l, r, word)
    /\ UNCHANGED inputs

-----------------------------------------------------------------------------
(* The far end, and the Link.                                              *)
Proves(l) ==
  LET unproved == UnprovedIn(rnsd.link[l])
  IN  /\ Up(rnsd.link[l]) /\ unproved # {}
      /\ \E n \in unproved : rnsd' = [rnsd EXCEPT !.link[l].proved = @ \cup {n}]
      /\ UNCHANGED inputs

(* LINKCLOSE from the peer, a request without proof.                       *)
linkEnds(l) ==
  /\ Input
  /\ rnsd.link[l].status = "PENDING" \/ Up(rnsd.link[l])
  /\ rnsd' = link_closed(rnsd, l)

(* link_watchdog: nothing was heard for long, and no callback tells of it; *)
(* then the Link closes, unless a packet, an answered keepalive, comes.    *)
goesStale(l) ==
  /\ Input /\ rnsd.link[l].status = "ACTIVE"
  /\ rnsd' = [rnsd EXCEPT !.link[l].status = "STALE"]
graceEnds(l) ==
  /\ rnsd.link[l].status = "STALE"
  /\ rnsd' = link_closed(rnsd, l)
  /\ UNCHANGED inputs
keepaliveHeard(l) ==
  /\ rnsd.link[l].status = "STALE"
  /\ rnsd' = link_receive(rnsd, l)
  /\ UNCHANGED inputs

-----------------------------------------------------------------------------
(* The loop.                                                               *)

(* Channel::poll takes out what was proved, or finds an envelope without   *)
(* retries left and tears the link down.                                   *)
poll(b, j) ==
  LET l == b.slot[j].link
  IN  {[b EXCEPT !.link[l].settled = b.link[l].proved]} \cup
      IF UnprovedIn(b.link[l]) = {} THEN {} ELSE {link_closed(b, l)}

Publish(b, j) ==
  [b EXCEPT !.slot[j].outstanding = Cardinality(Ring(b, j)), !.slot[j].covered = b.slot[j].handed,
            !.slot[j].heard = (b.link[b.slot[j].link].status = "ACTIVE")]

afterPoll_unflushed(b, j, window) == chanFlushOutbox(Publish(b, j), j, window)
afterPoll(b, j, window) == Publish(chanFlushOutbox(b, j, window), j)
channelPollAll(j, window) ==
  /\ Attached(rnsd, j)
  /\ \E b \in poll(rnsd, j) :
       rnsd' = IF b.slot[j].channel THEN afterPoll(b, j, window) ELSE b
  /\ UNCHANGED inputs

(* Each case of the tick; a wait for a path also ends by asking again.     *)
Expired(b, j) == [Fails(b, j) EXCEPT !.slot[j].dead = TRUE]
Reclaimed_ifDated(b, j) == IF b.slot[j].dead THEN chanFreeSlot(b, j) ELSE b
Reclaimed(b, j) ==
  IF b.slot[j].dead THEN chanFreeSlot(b, j) ELSE [b EXCEPT !.slot[j].dead = TRUE]
Ticked(j) ==
  CASE rnsd.slot[j].state = "AWAITING_PATH" -> chanKickoff(rnsd, j) \cup {Expired(rnsd, j)}
    [] rnsd.slot[j].state = "ESTABLISHING" -> {Expired(teardown(rnsd, j), j)}
    [] rnsd.slot[j].state \in {"CLOSED", "FAILED"} -> {Reclaimed(rnsd, j)}
    [] OTHER -> {}
channelTick(j) ==
  /\ rnsd.slot[j].used
  /\ rnsd' \in Ticked(j)
  /\ UNCHANGED inputs

Loop(j) == (\E w \in Windows : channelPollAll(j, w)) \/ channelTick(j)

Consumer ==
  \/ \E tag \in Tags : onChannelConnect(tag)
  \/ \E j \in Slots, oversize \in BOOLEAN, w \in Windows : onChannelRecv(j, oversize, w)
  \/ \E j \in Slots : onChannelDisconnect(j)
  \/ \E j \in Slots, r \in Outbound : onChannelAux(j, r)
BridgeNetwork ==
  \/ \E l \in Links : onIncomingChannelEstablished(l)
  \/ \E j \in Slots, w \in Windows : onChanLinkEstablishedCb(j, w)
  \/ \E j \in Slots : onChannelMsgCb(j)
  \/ \E j \in Slots, r \in Inbound : resourceAdvertised(j, r)
  \/ \E l \in Links, word \in Words : resourceConcluded(l, word)
  \/ \E l \in Links : Proves(l)
  \/ \E l \in Links : linkEnds(l) \/ goesStale(l) \/ graceEnds(l) \/ keepaliveHeard(l)
BridgeNext == Consumer \/ BridgeNetwork \/ \E j \in Slots : Loop(j)

BridgeSpec == BridgeInit /\ [][BridgeNext]_bridgeVars

(* The loop polls on every turn and ticks every second.  A Channel proves  *)
(* or runs out of retries, a Link finishes the Resources it carries, and   *)
(* the watchdog, called each second, closes one that stays silent.         *)
BridgeFairSpec ==
  /\ BridgeSpec
  /\ \A j \in Slots : WF_bridgeVars(Loop(j))
  /\ \A l \in Links :
       /\ WF_bridgeVars(Proves(l))
       /\ WF_bridgeVars(\E word \in Words : resourceConcluded(l, word))
       /\ WF_bridgeVars(graceEnds(l))

-----------------------------------------------------------------------------
(* Properties.                                                             *)

BridgeTypeOK ==
  /\ \A j \in Slots :
       /\ rnsd.slot[j] \in
            [used : BOOLEAN, tag : Tags \cup Links \cup {None}, handle : BOOLEAN,
             state : States, link : Links \cup {NoLink}, channel : BOOLEAN,
             outbox : Seq([number : 1 .. MaxInputs, oversize : BOOLEAN]),
             outstanding : {Unpublished} \cup 0 .. MaxInputs,
             pend : Outbound \cup {None}, res : Resources \cup {None}, dead : BOOLEAN,
             handed : 0 .. MaxInputs, refused : SUBSET (1 .. MaxInputs), covered : 0 .. MaxInputs,
             heard : BOOLEAN]
       /\ Len(rnsd.slot[j].outbox) <= RNSD_CHAN_MAX_OUTBOX
  /\ \A l \in Links :
       /\ rnsd.link[l].status \in {"NONE", "PENDING", "ACTIVE", "STALE", "CLOSED"}
       /\ rnsd.link[l].settled \subseteq rnsd.link[l].proved
       /\ rnsd.link[l].proved \subseteq ToSet(rnsd.link[l].sent)
  /\ ToSet(rnsd.idle) = Used(rnsd) /\ Len(rnsd.idle) = Cardinality(Used(rnsd))

Live(j) == rnsd.slot[j].state \in {"AWAITING_PATH", "ESTABLISHING", "ACTIVE"}
Accepted(j) == IF rnsd.slot[j].link = NoLink THEN <<>> ELSE Sent(rnsd, j)
Stream(j) == Accepted(j) \o Numbers(rnsd.slot[j].outbox)
Ascends(q) == \A i, k \in DOMAIN q : i < k => q[i] < q[k]

(* From a channel's opening to its end, what was handed to its Channel and *)
(* what waits in the outbox are, in this order, exactly the messages its   *)
(* consumer handed over and was not told of in last_error: messages from   *)
(* before the handshake, from a full window and from an open one form one  *)
(* stream (onChannelRecv, chanFlushOutbox).                                *)
StreamIsWhole ==
  \A j \in Slots : Live(j) =>
    /\ Ascends(Stream(j))
    /\ ToSet(Stream(j)) = 1 .. rnsd.slot[j].handed \ rnsd.slot[j].refused

(* `outstanding' read as zero: all that was handed over when it was        *)
(* published, and not refused, is with the far end.                        *)
Receipt(j) ==
  \A n \in 1 .. rnsd.slot[j].covered \ rnsd.slot[j].refused :
    n \in rnsd.link[rnsd.slot[j].link].proved
ReadsZero(j) == Attached(rnsd, j) /\ rnsd.slot[j].outstanding = 0
Stuck(j) == \E i \in DOMAIN rnsd.slot[j].outbox : rnsd.slot[j].outbox[i].oversize

(* "ZERO HERE MEANS EVERYTHING SENT SO FAR HAS BEEN RECEIVED"              *)
(* (rnsd.cpp:8266, channelPollAll).                                        *)
OutstandingIsAReceipt == \A j \in Slots : ReadsZero(j) => Receipt(j)

(* It does unless the outbox was held up: a message in it that no envelope *)
(* holds, or a Link that was STALE when the zero was published, though it  *)
(* may have been heard from since.  Otherwise, whatever the window, a poll *)
(* that publishes zero has emptied the outbox (channelPollAll,             *)
(* chanFlushOutbox, is_ready_to_send).                                     *)
HeldUp(j) == Stuck(j) \/ ~rnsd.slot[j].heard
ReceiptUnlessHeldUp == \A j \in Slots : ReadsZero(j) /\ ~HeldUp(j) => Receipt(j)

(* Every Resource a Link carries is the one its slot is busy with, and is  *)
(* reported once: not twice, and not lost to a second one that took its    *)
(* slot or to a Link that closed (chanResAdvertised, chanResConcluded,     *)
(* chanFreeSlot).                                                          *)
ResourcesAreReported ==
  /\ \A j \in Slots, r \in Resources : rnsd.slot[j].res = r =>
       rnsd.slot[j].link # NoLink /\ r \in rnsd.link[rnsd.slot[j].link].carries
  /\ \A l \in Links : \A r \in rnsd.link[l].carries :
       \E j \in Slots : rnsd.slot[j].link = l /\ rnsd.slot[j].res = r
  /\ \A r \in Resources : Len(rnsd.told[r]) <= 1

(* What is left of a channel in storage, and of its Link: a tree for each  *)
(* slot in use and no other, however the slot was lost, no open Link       *)
(* without a slot, and no Resource that nobody will hear of                *)
(* (chanFreeSlot, onChanLinkClosedCb).                                     *)
NothingLeftBehind ==
  /\ rnsd.tree = {rnsd.slot[j].tag : j \in Used(rnsd)}
  /\ \A l \in Links : rnsd.link[l].status \in {"PENDING", "ACTIVE", "STALE"}
       => \E j \in Slots : rnsd.slot[j].link = l
  /\ ResourcesAreReported

(* A slot comes to rest again and again: free, or active with its outbox   *)
(* sent (or behind a message no envelope holds), all of it proved and      *)
(* published as such, and no Resource under way.  So opens end, terminal   *)
(* slots are reclaimed, and buffered messages go (channelTick,             *)
(* channelPollAll).                                                        *)
Rests(j) ==
  \/ ~rnsd.slot[j].used
  \/ /\ Attached(rnsd, j)
     /\ Fitting(rnsd.slot[j].outbox) = 0
     /\ rnsd.slot[j].outstanding = 0 /\ Ring(rnsd, j) = {}
     /\ rnsd.slot[j].res = None /\ rnsd.slot[j].pend = None
ChannelsEnd == \A j \in Slots : []<>Rests(j)
=============================================================================
