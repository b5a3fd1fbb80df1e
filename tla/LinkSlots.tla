------------------------------ MODULE LinkSlots ------------------------------
(***************************************************************************)
(* rnsd's table of link slots (rnsd.cpp, RNSD_PORT_LINK): each consumer's  *)
(* handle on one side, a Link of the stack on the other, and what is held  *)
(* between them: the outboxes of a link that is not up yet, the packet     *)
(* whose proof is awaited, one resource, one request.                      *)
(*                                                                         *)
(* Everything here runs on rnsd's task, handler by handler; what           *)
(* interleaves is the order in which consumers call, peers answer, links   *)
(* come up and close, and deadlines pass. An action is one handler with    *)
(* all it calls. A handler that frees or evicts a slot runs the callbacks  *)
(* of the link it tears down on the way, so the handlers are written as    *)
(* operators on the daemon's state, n, one composed with the next.         *)
(*                                                                         *)
(* Time is left out: a deadline passes at some moment after it was set.    *)
(* The order of the slots' last activity is kept, since eviction goes by   *)
(* it. Exceptions of the stack and of the allocator are left out.          *)
(***************************************************************************)
EXTENDS Naturals, FiniteSets, SequencesExt

CONSTANTS
  RNSD_MAX_LINK_CONNS,   \* slots
  Tags,                  \* names consumers open links under
  InTags,                \* names rnsd makes for links opened by peers
  Requests, Outbound,    \* requests, and resources consumers send
  Inbound,               \* resources peers offer
  RNSD_LINK_ATTEMPTS,
  MaxInflight,           \* s.rnsd.link.max_inbound_resources_total
  MaxLinks,              \* bound: Link objects at a time
  MaxCalls               \* bound: calls of consumers

Resources == Outbound \cup Inbound
None == 0
Slots == 1 .. RNSD_MAX_LINK_CONNS
Links == 1 .. MaxLinks

ASSUME SlotAssumption ==
  /\ RNSD_MAX_LINK_CONNS \in Nat \ {0}
  /\ Tags \cap InTags = {} /\ None \notin Tags \cup InTags
  /\ None \notin Requests \cup Resources
  /\ Requests \cap Resources = {} /\ Outbound \cap Inbound = {}
  /\ RNSD_LINK_ATTEMPTS \in Nat \ {0}
  /\ MaxInflight \in Nat /\ MaxLinks \in Nat /\ MaxCalls \in Nat

VARIABLES
  rnsd,        \* the daemon's state, below
  route,       \* is there a path to the destination, and its key?
  replied,     \* requests the remote end has answered
  calls        \* calls made so far, and the packets among them
vars == <<rnsd, route, replied, calls>>

(* The daemon's state:                                                     *)
(*   slot     each link_conn_t                                             *)
(*   idle     slots in use, the longest idle first (last_activity)         *)
(*   link     each Link: its status, _pending_requests, its resources      *)
(*   handles  consumers' handles that ITS holds open, by tag               *)
(*   told     what each requester, and each resource's consumer, was told  *)
Empty ==
  [state |-> "FREE", tag |-> None, handle |-> FALSE, link |-> None, attempts |-> 0,
   packet |-> FALSE, identify |-> FALSE, pendRes |-> None, pendReq |-> None,
   res |-> None, req |-> None, receipt |-> FALSE, proofs |-> TRUE,
   sent |-> 0, proven |-> 0, unproven |-> 0, ident |-> "none"]
NoLink == [status |-> "NONE", asked |-> {}, carries |-> {}]

Init ==
  /\ rnsd = [slot |-> [s \in Slots |-> Empty], idle |-> <<>>,
             link |-> [l \in Links |-> NoLink], handles |-> {},
             told |-> [x \in Requests \cup Resources |-> <<>>]]
  /\ route = FALSE
  /\ replied = {}
  /\ calls = 0

-----------------------------------------------------------------------------
(* Finding a slot.                                                         *)
Used(n)        == {s \in Slots : n.slot[s].state # "FREE"}
Tagged(n, t)   == {s \in Used(n) : n.slot[s].tag = t}
Of(n, l)       == {s \in Used(n) : l # None /\ n.slot[s].link = l}
Holding(n, x)  == {s \in Used(n) : n.slot[s].res = x}
Asking(n, r)   == {s \in Used(n) : n.slot[s].req = r}

(* The consumer's aux port: resSendAux, reqSendAux, reqFailDirect.         *)
Tell(n, x, outcome) ==
  IF x = None THEN n ELSE [n EXCEPT !.told[x] = Append(@, outcome)]

Without(q, s) == RemoveAt(q, CHOOSE i \in DOMAIN q : q[i] = s)
linkTouch(n, s) == [n EXCEPT !.idle = Append(Without(@, s), s)]

-----------------------------------------------------------------------------
(* The end of a resource, whoever ended it.                                *)
onResConcluded(n, x, outcome) ==
  LET S == Holding(n, x)
  IN  IF S = {} THEN n
      ELSE Tell([n EXCEPT !.slot[CHOOSE s \in S : TRUE].res = None], x, outcome)

(* The resources of a link that closes are cancelled one by one; at most   *)
(* one of them has a slot, the link's, and the others end unheard.         *)
resources_cancelled(n, X) ==
  LET S == {s \in Used(n) : n.slot[s].res \in X}
  IN  IF S = {} THEN n ELSE onResConcluded(n, n.slot[CHOOSE s \in S : TRUE].res, "FAILED")

(* An open that fails is retried by the tick.                              *)
Unlinked(c) ==
  [c EXCEPT !.link = None, !.state = IF c.state = "ESTABLISHING" THEN c.state ELSE "CLOSED"]
onLinkClosedCb(n, l) ==
  LET S == Of(n, l)
  IN  IF S = {} THEN n ELSE [n EXCEPT !.slot[CHOOSE s \in S : TRUE] = Unlinked(@)]

link_closed_bare(n, l) ==
  onLinkClosedCb([n EXCEPT !.link[l] = NoLink], l)
link_closed(n, l) ==
  onLinkClosedCb([resources_cancelled(n, n.link[l].carries) EXCEPT !.link[l] = NoLink], l)

teardown(n, l) == IF l = None THEN n ELSE link_closed(n, l)

linkFreeSlot(n, s) ==
  LET c == n.slot[s]
      answered == Tell(Tell(n, c.req, "FAILED"), c.pendReq, "FAILED")
  IN  [answered EXCEPT !.handles = IF c.handle THEN @ \ {c.tag} ELSE @,
                       !.slot[s] = Empty,
                       !.idle = Without(@, s)]

(* The slot a new link gets, and the state once it is free for it.         *)
FreeSlots(n) == Slots \ Used(n)
linkAlloc(n) ==
  IF FreeSlots(n) # {} THEN n
  ELSE LET v == Head(n.idle)
       IN  linkFreeSlot([teardown(n, n.slot[v].link) EXCEPT !.slot[v].link = None], v)
NewSlot(n) == Min(FreeSlots(linkAlloc(n)))

-----------------------------------------------------------------------------
(* Starting things on a link that is up.                                   *)
linkStartRequest(n, s, r) ==
  IF n.slot[s].req # None THEN Tell(n, r, "FAILED")
  ELSE linkTouch([n EXCEPT !.slot[s].req = r,
                           !.link[n.slot[s].link].asked = @ \cup {r}], s)

linkStartOutboundResource(n, s, x) ==
  IF n.slot[s].res # None THEN n
  ELSE [n EXCEPT !.slot[s].res = x, !.link[n.slot[s].link].carries = @ \cup {x}]

(* A packet out: its receipt takes the place of one that is not settled.   *)
linkTrackTxReceipt(n, s) ==
  LET c == n.slot[s]
  IN  IF ~c.proofs THEN n
      ELSE [n EXCEPT !.slot[s] = [c EXCEPT !.receipt = TRUE, !.sent = @ + 1,
                                           !.unproven = IF c.receipt THEN @ + 1 ELSE @]]

linkIdentifyNow(n, s) == [n EXCEPT !.slot[s].ident = "first"]

(* A link that is closed lets go of everything, and its number is used     *)
(* again.                                                                  *)
Unmade(n)  == {l \in Links : n.link[l].status = "NONE"}
linkKickoff(n, s) ==
  LET l == Min(Unmade(n))
  IN  [n EXCEPT !.slot[s].state = "ESTABLISHING", !.slot[s].link = l,
                !.slot[s].attempts = @ + 1, !.link[l].status = "PENDING"]
(* No identity to sign with, or an aspect that is not the destination's.   *)
kickoffRefused(n, s) == [n EXCEPT !.slot[s].state = "FAILED"]

Kickoff(n, s) ==
  \/ Unmade(n) # {} /\ rnsd' = linkKickoff(n, s)
  \/ rnsd' = kickoffRefused(n, s)

-----------------------------------------------------------------------------
(* Calls of consumers. A call to a tag that no slot has comes from a       *)
(* consumer who does not know yet that rnsd has freed it.                  *)
Call == calls < MaxCalls /\ calls' = calls + 1

(* A tag that a consumer still holds is refused. The branch that reclaims  *)
(* a slot without a handle is met by no tag of a consumer's: such a slot   *)
(* is freed with its handle.                                               *)
onLinkConnect(t) ==
  /\ Call /\ Tagged(rnsd, t) = {}
  /\ LET s == NewSlot(rnsd)
         a == linkAlloc(rnsd)
         n == [a EXCEPT !.slot[s] = [Empty EXCEPT !.tag = t, !.handle = TRUE,
                                                  !.state = "AWAITING_PATH"],
                        !.idle = Append(@, s), !.handles = @ \cup {t}]
     IN  \/ route /\ Kickoff(n, s)
         \/ ~route /\ rnsd' = n
  /\ UNCHANGED <<route, replied>>

linkConsumerSend(s) ==
  /\ Call /\ rnsd.slot[s].handle
  /\ \/ /\ rnsd.slot[s].state = "ACTIVE"
        /\ rnsd' = linkTouch(linkTrackTxReceipt(rnsd, s), s)
     \/ /\ rnsd.slot[s].state # "ACTIVE" /\ ~rnsd.slot[s].packet
        /\ rnsd' = [rnsd EXCEPT !.slot[s].packet = TRUE]
  /\ UNCHANGED <<route, replied>>

onLinkDisconnect(s) ==
  /\ Call /\ rnsd.slot[s].handle
  /\ LET n == [rnsd EXCEPT !.slot[s].handle = FALSE, !.handles = @ \ {rnsd.slot[s].tag}]
     IN  rnsd' = linkFreeSlot([teardown(n, n.slot[s].link) EXCEPT !.slot[s].link = None], s)
  /\ UNCHANGED <<route, replied>>

Started(n, x) == n.told[x] # <<>> \/ \E s \in Used(n) : x \in {n.slot[s].res, n.slot[s].pendRes}
Issued(n, r)  == n.told[r] # <<>> \/ \E s \in Used(n) : r \in {n.slot[s].req, n.slot[s].pendReq}

(* Unknown, pending or in flight: dropped without a word.                  *)
auxSendResource(s, x) ==
  /\ Call /\ ~Started(rnsd, x)
  /\ rnsd.slot[s].pendRes = None /\ rnsd.slot[s].res = None
  /\ rnsd' = IF rnsd.slot[s].state = "ACTIVE"
             THEN linkStartOutboundResource(rnsd, s, x)
             ELSE [rnsd EXCEPT !.slot[s].pendRes = x]
  /\ UNCHANGED <<route, replied>>

(* On a link that the peer opened there is nothing to do.                 *)
auxIdentify(s) ==
  /\ Call
  /\ \/ /\ rnsd.slot[s].state = "ACTIVE" /\ rnsd.slot[s].tag \in Tags
        /\ rnsd' = linkIdentifyNow(rnsd, s)
     \/ /\ rnsd.slot[s].state \in {"AWAITING_PATH", "ESTABLISHING"}
        /\ rnsd' = [rnsd EXCEPT !.slot[s].identify = TRUE]
  /\ UNCHANGED <<route, replied>>

(* The peer proves nothing, for the life of the link.                      *)
auxProofs(s) ==
  /\ Call /\ rnsd.slot[s].proofs
  /\ rnsd' = [rnsd EXCEPT !.slot[s].proofs = FALSE, !.slot[s].receipt = FALSE]
  /\ UNCHANGED <<route, replied>>

auxRequest(s, r) ==
  /\ Call /\ ~Issued(rnsd, r)
  /\ LET c == rnsd.slot[s]
     IN  rnsd' = IF c.state = "ACTIVE" THEN linkStartRequest(rnsd, s, r)
                 ELSE IF c.pendReq # None \/ c.req # None THEN Tell(rnsd, r, "FAILED")
                 ELSE [rnsd EXCEPT !.slot[s].pendReq = r]
  /\ UNCHANGED <<route, replied>>

auxRequestUnknown(r) ==
  /\ Call /\ ~Issued(rnsd, r)
  /\ \E t \in Tags : Tagged(rnsd, t) = {}
  /\ rnsd' = Tell(rnsd, r, "FAILED")
  /\ UNCHANGED <<route, replied>>

Calls ==
  \/ \E t \in Tags : onLinkConnect(t)
  \/ \E r \in Requests : auxRequestUnknown(r)
  \/ \E s \in Used(rnsd) :
       \/ linkConsumerSend(s) \/ onLinkDisconnect(s) \/ auxIdentify(s) \/ auxProofs(s)
       \/ \E x \in Outbound : auxSendResource(s, x)
       \/ \E r \in Requests : auxRequest(s, r)

-----------------------------------------------------------------------------
(* The stack's callbacks. A link that comes up sends what was held for it: *)
(* the identify first, the packet, the resource, the request.              *)
FlushIdentify(n, s) ==
  IF n.slot[s].identify THEN [linkIdentifyNow(n, s) EXCEPT !.slot[s].identify = FALSE] ELSE n
FlushPacket(n, s) ==
  IF n.slot[s].packet THEN [linkTrackTxReceipt(n, s) EXCEPT !.slot[s].packet = FALSE] ELSE n
FlushResource(n, s) ==
  LET x == n.slot[s].pendRes
  IN  IF x = None THEN n
      ELSE linkStartOutboundResource([n EXCEPT !.slot[s].pendRes = None], s, x)
FlushRequest(n, s) ==
  LET r == n.slot[s].pendReq
  IN  IF r = None THEN n
      ELSE linkStartRequest([n EXCEPT !.slot[s].pendReq = None], s, r)

onLinkEstablishedCb(s) ==
  /\ rnsd.slot[s].state = "ESTABLISHING" /\ rnsd.slot[s].link # None
  /\ LET up == linkTouch([rnsd EXCEPT !.link[rnsd.slot[s].link].status = "ACTIVE",
                                      !.slot[s].state = "ACTIVE"], s)
     IN  rnsd' = FlushRequest(FlushResource(FlushPacket(FlushIdentify(up, s), s), s), s)
  /\ UNCHANGED <<route, replied, calls>>

(* A link that a peer opened to one of our destinations. Its consumer may  *)
(* be out of reach; without a listener the link is torn down at once.      *)
onIncomingLinkEstablished(t) ==
  /\ Unmade(rnsd) # {} /\ Tagged(rnsd, t) = {}
  /\ LET l == Min(Unmade(rnsd))
         s == NewSlot(rnsd)
         a == linkAlloc(rnsd)
         n == [a EXCEPT !.slot[s] = [Empty EXCEPT !.tag = t, !.link = l, !.state = "ACTIVE"],
                        !.link[l].status = "ACTIVE", !.idle = Append(@, s)]
     IN  \/ rnsd' = [n EXCEPT !.slot[s].handle = TRUE, !.handles = @ \cup {t}]
         \/ rnsd' = [teardown(n, l) EXCEPT !.slot[s].link = None, !.slot[s].state = "FAILED"]
  /\ UNCHANGED <<route, replied, calls>>

(* The peer, or the watchdog, ends a link.                                 *)
linkEnds(l) ==
  /\ rnsd.link[l].status \in {"PENDING", "ACTIVE"}
  /\ rnsd' = link_closed(rnsd, l)
  /\ UNCHANGED <<route, replied, calls>>

(* Whether or not the consumer's inbox has room, the link is not idle.     *)
onLinkPacketCb(s) ==
  /\ rnsd.slot[s].state = "ACTIVE"
  /\ rnsd' = linkTouch(rnsd, s)
  /\ UNCHANGED <<route, replied, calls>>

(* One resource at a time and link, and so many on all links.              *)
onResAdvertised(s, x) ==
  /\ rnsd.slot[s].state = "ACTIVE" /\ ~Started(rnsd, x)
  /\ rnsd.slot[s].res = None
  /\ Cardinality({o \in Used(rnsd) : rnsd.slot[o].res # None}) < MaxInflight
  /\ rnsd' = [rnsd EXCEPT !.slot[s].res = x, !.link[rnsd.slot[s].link].carries = @ \cup {x}]
  /\ UNCHANGED <<route, replied, calls>>

resourceEnds(l, x) ==
  /\ x \in rnsd.link[l].carries
  /\ \E outcome \in {"DONE", "FAILED"} :
       rnsd' = onResConcluded([rnsd EXCEPT !.link[l].carries = @ \ {x}], x, outcome)
  /\ UNCHANGED <<route, replied, calls>>

(* The remote end has a handler for the path and lets us use it.           *)
handle_request(l, r) ==
  /\ r \in rnsd.link[l].asked \ replied
  /\ replied' = replied \cup {r}
  /\ UNCHANGED <<rnsd, route, calls>>

(* The answer is matched by the request's id, in the link's list and then  *)
(* among the slots, which may have given it up.                            *)
AnsweredBusy(n, r, outcome) ==
  LET S == {s \in Used(n) : n.slot[s].req # None}
  IN  IF S = {} THEN n
      ELSE LET s == CHOOSE s \in S : TRUE
           IN  Tell([n EXCEPT !.slot[s].req = None], n.slot[s].req, outcome)
Answered(n, r, outcome) ==
  LET S == Asking(n, r)
  IN  IF S = {} THEN n
      ELSE LET s == CHOOSE s \in S : TRUE
           IN  Tell([n EXCEPT !.slot[s].req = None], r, outcome)
onReqResponseCb(n, r) ==
  LET S == Asking(n, r)
  IN  IF S = {} THEN n ELSE linkTouch(Answered(n, r, "RESPONSE"), CHOOSE s \in S : TRUE)
onReqFailedCb(n, r) == Answered(n, r, "FAILED")

handle_response(l, r) ==
  /\ r \in rnsd.link[l].asked /\ r \in replied
  /\ rnsd' = onReqResponseCb([rnsd EXCEPT !.link[l].asked = @ \ {r}], r)
  /\ UNCHANGED <<route, replied, calls>>

(* The response came as a resource, and came corrupt.                      *)
response_resource_concluded(l, r) ==
  /\ r \in rnsd.link[l].asked /\ r \in replied
  /\ rnsd' = onReqFailedCb([rnsd EXCEPT !.link[l].asked = @ \ {r}], r)
  /\ UNCHANGED <<route, replied, calls>>

(* An announce brings a path; it expires.                                  *)
routeChanges ==
  /\ route' = ~route
  /\ UNCHANGED <<rnsd, replied, calls>>

Callbacks ==
  \/ \E s \in Used(rnsd) :
       \/ onLinkEstablishedCb(s) \/ onLinkPacketCb(s)
       \/ \E x \in Inbound : onResAdvertised(s, x)
  \/ \E t \in InTags : onIncomingLinkEstablished(t)
  \/ \E l \in Links :
       \/ linkEnds(l)
       \/ \E x \in Resources : resourceEnds(l, x)
       \/ \E r \in Requests :
            handle_request(l, r) \/ handle_response(l, r) \/ response_resource_concluded(l, r)
  \/ routeChanges

-----------------------------------------------------------------------------
(* linkTick, once a second, slot by slot. What is due in a slot at the     *)
(* same tick does not depend on its order, so each kind of deadline is an  *)
(* action.                                                                 *)
receiptSettles(s) ==
  /\ rnsd.slot[s].receipt
  /\ \E outcome \in {"proven", "unproven"} :
       rnsd' = [rnsd EXCEPT !.slot[s].receipt = FALSE,
                            !.slot[s].proven = IF outcome = "proven" THEN @ + 1 ELSE @,
                            !.slot[s].unproven = IF outcome = "unproven" THEN @ + 1 ELSE @]
  /\ UNCHANGED <<route, replied, calls>>

(* Proven, or not proven in time: once more, if there is a link.           *)
linkIdentifyTick(s) ==
  LET c == rnsd.slot[s]
  IN  /\ c.ident # "none"
      /\ \/ rnsd' = [rnsd EXCEPT !.slot[s].ident = "none"]
         \/ /\ c.ident = "first" /\ c.proofs /\ c.state = "ACTIVE"
            /\ rnsd' = [rnsd EXCEPT !.slot[s].ident = "second"]
      /\ UNCHANGED <<route, replied, calls>>

requestTimeout(s) ==
  /\ rnsd.slot[s].req # None
  /\ rnsd' = Tell([rnsd EXCEPT !.slot[s].req = None], rnsd.slot[s].req, "FAILED")
  /\ UNCHANGED <<route, replied, calls>>

(* While the path has not come it is asked for again, unseen here.         *)
pathTick(s) ==
  /\ rnsd.slot[s].state = "AWAITING_PATH"
  /\ \/ route /\ Kickoff(rnsd, s)
     \/ ~route /\ rnsd' = [rnsd EXCEPT !.slot[s].state = "FAILED"]
  /\ UNCHANGED <<route, replied, calls>>

(* The wrapper leaves the slot, then the link is torn down and its path    *)
(* forgotten; a peer heard of lately gets another attempt, which waits for *)
(* a path first.                                                           *)
establishTimeout_always(s) ==
  /\ rnsd.slot[s].state = "ESTABLISHING"
  /\ rnsd' = [teardown([rnsd EXCEPT !.slot[s].link = None], rnsd.slot[s].link)
                EXCEPT !.slot[s].state = "AWAITING_PATH"]
  /\ route' = FALSE
  /\ UNCHANGED <<replied, calls>>
establishTimeout(s) ==
  /\ rnsd.slot[s].state = "ESTABLISHING"
  /\ LET n == teardown([rnsd EXCEPT !.slot[s].link = None], rnsd.slot[s].link)
     IN  \/ /\ rnsd.slot[s].attempts < RNSD_LINK_ATTEMPTS
            /\ rnsd' = [n EXCEPT !.slot[s].state = "AWAITING_PATH"]
         \/ rnsd' = [n EXCEPT !.slot[s].state = "FAILED"]
  /\ route' = FALSE
  /\ UNCHANGED <<replied, calls>>

reclaim_failed(s) ==
  /\ rnsd.slot[s].state = "FAILED"
  /\ rnsd' = linkFreeSlot(rnsd, s)
  /\ UNCHANGED <<route, replied, calls>>
reclaim(s) ==
  /\ rnsd.slot[s].state \in {"CLOSED", "FAILED"}
  /\ rnsd' = linkFreeSlot(rnsd, s)
  /\ UNCHANGED <<route, replied, calls>>

linkTick(s) ==
  \/ receiptSettles(s) \/ linkIdentifyTick(s) \/ requestTimeout(s)
  \/ pathTick(s) \/ establishTimeout(s) \/ reclaim(s)

Next == Calls \/ Callbacks \/ \E s \in Slots : linkTick(s)

Spec == Init /\ [][Next]_vars

(* linkTick runs every second and a deadline is finite. Nothing is assumed *)
(* of consumers, of peers or of the network.                               *)
FairSpec == Spec /\ \A s \in Slots : WF_vars(linkTick(s))

-----------------------------------------------------------------------------
(* Properties.                                                             *)

States == {"FREE", "AWAITING_PATH", "ESTABLISHING", "ACTIVE", "CLOSED", "FAILED"}
Slot ==
  [state : States, tag : Tags \cup InTags \cup {None}, handle : BOOLEAN,
   link : Links \cup {None}, attempts : 0 .. RNSD_LINK_ATTEMPTS,
   packet : BOOLEAN, identify : BOOLEAN, pendRes : Outbound \cup {None},
   pendReq : Requests \cup {None}, res : Resources \cup {None}, req : Requests \cup {None},
   receipt : BOOLEAN, proofs : BOOLEAN, sent : Nat, proven : Nat, unproven : Nat,
   ident : {"none", "first", "second"}]

(* Every value has its type; a link is dialled RNSD_LINK_ATTEMPTS times at *)
(* most for one open, through the path wait and past it.                   *)
TypeOK ==
  /\ rnsd \in [slot : [Slots -> Slot], idle : Seq(Slots),
                link : [Links -> [status : {"NONE", "PENDING", "ACTIVE"},
                                  asked : SUBSET Requests, carries : SUBSET Resources]],
                handles : SUBSET (Tags \cup InTags),
                told : [Requests \cup Resources -> Seq({"DONE", "RESPONSE", "FAILED"})]]
  /\ ToSet(rnsd.idle) = Used(rnsd) /\ Len(rnsd.idle) = Cardinality(Used(rnsd))
  /\ route \in BOOLEAN /\ replied \subseteq Requests /\ calls \in 0 .. MaxCalls

(* INTERNALS 5.2, "ITS handle == Link": whatever evicts, retries, closes   *)
(* and reopens, no Link of the stack lives without its slot, no slot holds *)
(* one that is gone, and no two slots the same.                            *)
Stage == [PENDING |-> "ESTABLISHING", ACTIVE |-> "ACTIVE"]
SlotsMatchLinks ==
  /\ \A l \in Links :
       rnsd.link[l].status \in DOMAIN Stage =>
         \E s \in Of(rnsd, l) : /\ Of(rnsd, l) = {s}
                                /\ rnsd.slot[s].state = Stage[rnsd.link[l].status]
  /\ \A s \in Slots :
       rnsd.slot[s].link # None => rnsd.link[rnsd.slot[s].link].status \in DOMAIN Stage

(* A consumer's handle is open exactly while a slot serves it, and a tag   *)
(* names one slot, since calls find theirs by it.                          *)
HandlesMatchSlots ==
  /\ rnsd.handles = {rnsd.slot[s].tag : s \in {s \in Slots : rnsd.slot[s].handle}}
  /\ \A s, o \in Used(rnsd) : rnsd.slot[s].tag = rnsd.slot[o].tag => s = o

(* A resource that was started is reported once, when it ends and however  *)
(* it ends; a slot is busy with one only while its link carries it, or     *)
(* nothing would ever clear it and the link take no other.                 *)
ResourcesAreReported ==
  /\ \A x \in Resources :
       Len(rnsd.told[x]) + Cardinality(Holding(rnsd, x)) <= 1
  /\ \A l \in Links : \A x \in rnsd.link[l].carries :
       \E s \in Of(rnsd, l) : rnsd.slot[s].res = x
  /\ \A s \in Slots : rnsd.slot[s].res # None =>
       rnsd.slot[s].link # None /\ rnsd.slot[s].res \in rnsd.link[rnsd.slot[s].link].carries

(* linkTrackTxReceipt: "so the counters always account for every tracked   *)
(* send", while the consumer does not turn proofs off.                     *)
CountersAccount ==
  \A s \in Slots :
    LET c == rnsd.slot[s]
    IN  c.proofs => c.sent = c.proven + c.unproven + (IF c.receipt THEN 1 ELSE 0)

(* rnsd's tables agree with the stack's, with what consumers hold and with *)
(* what they were sent, whichever of the seven places frees a slot.        *)
TablesAgree ==
  SlotsMatchLinks /\ HandlesMatchSlots /\ ResourcesAreReported /\ CountersAccount

(* reqFailDirect: "we still owe the requester a REQUEST_FAILED so it       *)
(* doesn't hang". Each request is answered once, with what the remote end  *)
(* answered to it or as failed: not twice when the answer comes after the  *)
(* deadline, not by the answer to another, not when its slot is evicted.   *)
stage ==
  [r \in Requests |->
     CASE rnsd.told[r] = <<>> -> IF Issued(rnsd, r) THEN "open" ELSE "none"
       [] rnsd.told[r] = <<"RESPONSE">> -> "responded"
       [] rnsd.told[r] = <<"FAILED">> -> "failed"
       [] OTHER -> "answered twice"]
Service == INSTANCE RequestService
ImplementsService == Service!Spec

(* No requester waits for ever, on whatever its link waits.                *)
RequestsEnd ==
  \A r \in Requests : stage[r] = "open" ~> stage[r] \in {"responded", "failed"}

(* An open is decided: the link comes up or its consumer's handle is       *)
(* closed, and a consumer does not keep the handle of a dead link.         *)
OpensAreDecided ==
  \A t \in Tags \cup InTags :
    t \in rnsd.handles ~>
      t \notin rnsd.handles \/ \E s \in Tagged(rnsd, t) : rnsd.slot[s].state = "ACTIVE"

(* Nothing that waits for a link waits for ever.                           *)
EveryWaitEnds == RequestsEnd /\ OpensAreDecided
=============================================================================
