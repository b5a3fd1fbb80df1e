--------------------------- MODULE OwnDestinations ---------------------------
(***************************************************************************)
(* rnsd's connections for own destinations (rnsd.cpp, RNSD_PORT_DEST): the *)
(* table of connections, the sends that wait for a path or for a proof,    *)
(* the stored announces and what airs them, and the ratchets that the      *)
(* announces carry, which outlive the connection and the process.          *)
(*                                                                         *)
(* All consumers of the model want the same destination, so that only one  *)
(* of them hosts it and the others are outbound-only.  Everything runs on  *)
(* rnsd's task, a handler to an action.  A handle may be that of a         *)
(* connection closed before.  Whether there is a path is asked anew each   *)
(* time, and what is due at a moment happens at some moment.               *)
(***************************************************************************)
EXTENDS Naturals, FiniteSets, SequencesExt

CONSTANTS
  RNSD_MAX_OUR_DESTS,           \* connections
  RNSD_OUR_DEST_MAX_PENDING,    \* sends of a connection that wait for a path
  RNSD_MAX_PENDING_RECEIPTS,    \* sends that wait for a proof
  RATCHET_COUNT,
  Handles, Sends, IfaceSlots,
  MaxKeys,                      \* bound: ratchets after which no interval passes
  MaxInputs                     \* bound: calls, registrations, beats, restarts

Slots == 1 .. RNSD_MAX_OUR_DESTS
NoConn == 0
None == "none"

ASSUME OwnAssumption ==
  /\ {RNSD_MAX_OUR_DESTS, RNSD_OUR_DEST_MAX_PENDING, RNSD_MAX_PENDING_RECEIPTS,
      RATCHET_COUNT} \subseteq Nat \ {0}
  /\ MaxKeys \in Nat /\ MaxInputs \in Nat
  /\ None \notin Handles
  /\ IsFiniteSet(Sends)   \* a send_id is 16 bits wide

VARIABLES
  conn,       \* s_our_dests
  receipts,   \* s_our_dest_receipts, the slots in use
  mr,         \* each send's PacketReceipt in the stack
  asked,      \* the connection a send was made on while it is open
  gone,       \* sends whose connection has closed
  told,       \* the OUT_RESULTs of each send
  cancelled,  \* sends that were cancelled
  iface,      \* is the slot's interface registered?
  replay,     \* s_dest_replay_pending
  replayDue, sweepDue,   \* is s_dest_replay_due_tick, s_dest_announce_due_tick set?
  enabled,    \* s_ratchets_enabled
  ring,       \* the hosted Destination's ratchets, and when it last rotated
  disk,       \* secrets.rnsd.ratchets.<dest>
  clock,      \* sys.time.valid
  upLong,     \* has the process been up for a RATCHET_INTERVAL?
  inputs,
  \* history, for the properties
  said,       \* connections whose consumer stored an announce, gated itself
  unaired,    \* interfaces that have not heard the stored announce
  newest      \* the newest ratchet: its number, its clock, its age; is any too early?

sendVars == <<receipts, mr, asked, gone, told, cancelled>>
airVars  == <<iface, replay, replayDue, sweepDue, unaired>>
keyVars  == <<enabled, ring, disk, clock, upLong, newest>>
vars == <<conn, said, sendVars, airVars, keyVars, inputs>>

Closed == [used |-> FALSE, handle |-> None, hosts |-> FALSE, want |-> FALSE,
           accept |-> TRUE, pending |-> {}]

(* When the last rotation was: by a clock that was right, by the uptime,   *)
(* or 0, which stands for the boot.                                        *)
NoRing == [keys |-> <<>>, at |-> "boot"]

Init ==
  /\ conn = [c \in Slots |-> Closed]
  /\ receipts = {}
  /\ mr = [s \in Sends |-> None] /\ asked = [s \in Sends |-> NoConn] /\ gone = {}
  /\ told = [s \in Sends |-> <<>>] /\ cancelled = {}
  /\ iface = [i \in IfaceSlots |-> FALSE]
  /\ replay = {} /\ replayDue = FALSE /\ sweepDue = FALSE
  /\ enabled = TRUE /\ ring = NoRing /\ disk = NoRing
  /\ clock \in BOOLEAN /\ upLong = FALSE
  /\ inputs = 0
  /\ said = [announce |-> {}, gate |-> {}] /\ unaired = {}
  /\ newest = [key |-> 0, dated |-> FALSE, aged |-> FALSE, hurried |-> FALSE]

Input == inputs < MaxInputs /\ inputs' = inputs + 1

Used == {c \in Slots : conn[c].used}
Hosting == {c \in Used : conn[c].hosts}
Registered == {i \in IfaceSlots : iface[i]}

-----------------------------------------------------------------------------
(* Ratchets.                                                               *)
ourDestRatchetsLoad_untimed == [disk EXCEPT !.at = "boot"]
ourDestRatchetsLoad == disk
enable_ratchets == [ourDestRatchetsLoad EXCEPT !.keys = SubSeq(@, 1, Min({Len(@), RATCHET_COUNT}))]

IntervalOver ==
  CASE ring.at = "clock"  -> clock /\ newest.aged
    [] ring.at = "uptime" -> clock \/ newest.aged
    [] OTHER              -> clock \/ upLong
Rotates == enabled /\ (ring.keys = <<>> \/ IntervalOver)

(* Retained newest first, and stored before the announce goes out; a time  *)
(* that is no more than the uptime is not stored.                          *)
rotate_ratchets ==
  IF ~Rotates THEN UNCHANGED <<ring, disk, newest>>
  ELSE LET kept == SubSeq(<<newest.key + 1>> \o ring.keys, 1,
                          Min({Len(ring.keys) + 1, RATCHET_COUNT}))
       IN  /\ ring' = [keys |-> kept, at |-> IF clock THEN "clock" ELSE "uptime"]
           /\ disk' = [keys |-> kept, at |-> IF clock THEN "clock" ELSE "boot"]
           /\ newest' = [key |-> newest.key + 1, dated |-> clock, aged |-> FALSE,
                         hurried |-> newest.hurried \/ (newest.dated /\ ~newest.aged)]

ratchetsSwitched ==
  /\ Input
  /\ enabled' = ~enabled
  /\ ring' = IF enabled' /\ Hosting # {} THEN enable_ratchets ELSE NoRing
  /\ UNCHANGED <<conn, said, sendVars, airVars, disk, clock, upLong, newest>>

intervalPasses ==
  /\ newest.key < MaxKeys /\ ~(newest.aged /\ upLong)
  /\ newest' = [newest EXCEPT !.aged = TRUE] /\ upLong' = TRUE
  /\ UNCHANGED <<conn, said, sendVars, airVars, enabled, ring, disk, clock, inputs>>

clockSet ==
  /\ ~clock /\ clock' = TRUE
  /\ UNCHANGED <<conn, said, sendVars, airVars, enabled, ring, disk, upLong, newest, inputs>>

-----------------------------------------------------------------------------
(* Connections.                                                            *)
ourDestAlloc_asis(c) == conn[c]
ourDestAlloc(c) == [conn[c] EXCEPT !.want = FALSE, !.accept = TRUE]

(* `identity': is one stored that can be loaded?                           *)
onOurDestConnect(h, identity) ==
  /\ Input
  /\ \A c \in Used : conn[c].handle # h
  /\ \E c \in Slots \ Used :
       LET hosts == identity /\ Hosting = {}
       IN  /\ \A d \in Slots \ Used : c <= d
           /\ conn' = [conn EXCEPT ![c] = [ourDestAlloc(c) EXCEPT
                         !.used = TRUE, !.handle = h, !.hosts = hosts, !.pending = {}]]
           /\ ring' = IF hosts /\ enabled THEN enable_ratchets ELSE ring
  /\ UNCHANGED <<said, sendVars, airVars, enabled, disk, clock, upLong, newest>>

Made(c) == {s \in Sends : asked[s] = c}
ourDestReceiptPurgeConn_never(c) == receipts
ourDestReceiptPurgeConn(c) == {r \in receipts : r.conn # c}

onOurDestDisconnect(c) ==
  /\ Input /\ c \in Used
  /\ receipts' = ourDestReceiptPurgeConn(c)
  /\ asked' = [s \in Sends |-> IF s \in Made(c) THEN NoConn ELSE asked[s]]
  /\ gone' = gone \cup Made(c)
  /\ conn' = [conn EXCEPT ![c] = [@ EXCEPT !.used = FALSE, !.handle = None,
                                          !.hosts = FALSE, !.pending = {}]]
  /\ ring' = IF conn[c].hosts THEN NoRing ELSE ring
  /\ said' = [announce |-> said.announce \ {c}, gate |-> said.gate \ {c}]
  /\ unaired' = IF conn[c].hosts THEN {} ELSE unaired
  /\ UNCHANGED <<mr, told, cancelled, iface, replay, replayDue, sweepDue,
                 enabled, disk, clock, upLong, newest>>

-----------------------------------------------------------------------------
(* Sends.                                                                  *)
OutResult(t, s, word) == [t EXCEPT ![s] = Append(@, word)]

(* Told only if the connection is still the one the send was made on.      *)
ourDestReceiptSettle(t, r, word) ==
  IF conn[r.conn].used /\ conn[r.conn].handle = r.handle THEN OutResult(t, r.send, word) ELSE t

Full_by_one == Cardinality(receipts) > RNSD_MAX_PENDING_RECEIPTS
Full == Cardinality(receipts) >= RNSD_MAX_PENDING_RECEIPTS
Tracks(left, t, c, s) ==
  /\ told' = OutResult(t, s, "sent")
  /\ receipts' = left \cup {[conn |-> c, handle |-> conn[c].handle, send |-> s]}

(* A full table evicts the nearest deadline.  The window is a live setting *)
(* and the clock may step, so that it may be any slot's.                   *)
ourDestReceiptTrack(c, s) ==
  /\ mr' = [mr EXCEPT ![s] = "SENT"]
  /\ \/ ~Full /\ Tracks(receipts, told, c, s)
     \/ /\ Full
        /\ \E r \in receipts :
             Tracks(receipts \ {r}, ourDestReceiptSettle(told, r, "no proof"), c, s)

(* With a path; without one the send is parked. `refused' stands for       *)
(* EVICTED and TOO_LARGE.                                                  *)
ourDestTrySend(c, s) ==
  \/ ourDestReceiptTrack(c, s)
  \/ told' = OutResult(told, s, "refused") /\ UNCHANGED <<receipts, mr>>

outPacket(c, s) ==
  /\ Input /\ c \in Used /\ asked[s] = NoConn /\ s \notin gone
  /\ asked' = [asked EXCEPT ![s] = c]
  /\ ourDestTrySend(c, s)
  /\ UNCHANGED <<conn, said, gone, cancelled, airVars, keyVars>>

(* A full table leaves the send with its consumer (QUEUE_FULL).            *)
park(c, s) ==
  /\ Input /\ c \in Used /\ asked[s] = NoConn /\ s \notin gone
  /\ Cardinality(conn[c].pending) < RNSD_OUR_DEST_MAX_PENDING
  /\ asked' = [asked EXCEPT ![s] = c]
  /\ conn' = [conn EXCEPT ![c].pending = @ \cup {s}]
  /\ UNCHANGED <<said, receipts, mr, gone, told, cancelled, airVars, keyVars>>

outCancel(c, s) ==
  /\ Input /\ c \in Used /\ asked[s] = c
  /\ conn' = [conn EXCEPT ![c].pending = @ \ {s}]
  /\ told' = OutResult(told, s, "cancelled")
  /\ cancelled' = cancelled \cup {s}
  /\ UNCHANGED <<said, receipts, mr, asked, gone, airVars, keyVars>>

(* 1 Hz: a path has come, or the search has lasted RNSD_OUR_DEST_PATH_     *)
(* GIVEUP_S.  Requests sent again in between change nothing here.          *)
ourDestTickPending(s) ==
  /\ asked[s] # NoConn /\ s \in conn[asked[s]].pending
  /\ conn' = [conn EXCEPT ![asked[s]].pending = @ \ {s}]
  /\ \/ ourDestTrySend(asked[s], s)
     \/ told' = OutResult(told, s, "failed") /\ UNCHANGED <<receipts, mr>>
  /\ UNCHANGED <<said, asked, gone, cancelled, airVars, keyVars, inputs>>

Tracked(s) == {r \in receipts : r.send = s}
Settles(s, word) ==
  \E r \in Tracked(s) :
    receipts' = receipts \ {r} /\ told' = ourDestReceiptSettle(told, r, word)

(* A slot that was freed took its callback with it.                        *)
onOurDestReceiptDelivery(s) ==
  /\ mr[s] = "SENT" /\ mr' = [mr EXCEPT ![s] = "DELIVERED"]
  /\ IF Tracked(s) = {} THEN UNCHANGED <<receipts, told>> ELSE Settles(s, "delivered")
  /\ UNCHANGED <<conn, said, asked, gone, cancelled, airVars, keyVars, inputs>>

(* The stack's receipt times out or is pushed out, without a callback.     *)
receiptCulled(s) ==
  /\ mr[s] = "SENT" /\ mr' = [mr EXCEPT ![s] = "CULLED"]
  /\ UNCHANGED <<conn, said, receipts, asked, gone, told, cancelled, airVars, keyVars, inputs>>

(* It was culled, or its deadline has passed.                              *)
ourDestReceiptTick(s) ==
  /\ Settles(s, "no proof")
  /\ UNCHANGED <<conn, said, mr, asked, gone, cancelled, airVars, keyVars, inputs>>

-----------------------------------------------------------------------------
(* Announces.                                                              *)
Wanted == \E c \in Hosting : conn[c].want

armDestReplay_anew(I) == replay' = I /\ replayDue' = (replayDue \/ I # {})
armDestReplay(I) == replay' = replay \cup I /\ replayDue' = (replayDue \/ I # {})

destAnnounce(c) ==
  /\ Input /\ c \in Hosting
  /\ conn' = [conn EXCEPT ![c].want = TRUE]
  /\ sweepDue' = (sweepDue \/ Registered # {})
  /\ said' = [said EXCEPT !.announce = @ \cup {c}]
  /\ unaired' = Registered
  /\ UNCHANGED <<sendVars, iface, replay, replayDue, keyVars>>

destSetAccept(c) ==
  /\ Input /\ c \in Used
  /\ conn' = [conn EXCEPT ![c].accept = ~@]
  /\ said' = [said EXCEPT !.gate = @ \cup {c}]
  /\ UNCHANGED <<sendVars, airVars, keyVars>>

onTransportConnect(i) ==
  /\ Input /\ ~iface[i]
  /\ iface' = [iface EXCEPT ![i] = TRUE]
  /\ armDestReplay({i})
  /\ unaired' = IF Wanted THEN unaired \cup {i} ELSE unaired
  /\ UNCHANGED <<conn, said, sendVars, sweepDue, keyVars>>

(* Its bit stays, for whoever takes the slot next.                         *)
onTransportDisconnect(i) ==
  /\ Input /\ iface[i]
  /\ iface' = [iface EXCEPT ![i] = FALSE]
  /\ unaired' = unaired \ {i}
  /\ UNCHANGED <<conn, said, sendVars, replay, replayDue, sweepDue, keyVars>>

(* An interface's beat, by the prefix of the names it goes by.             *)
onIfaceAux(I) ==
  /\ Input /\ I # {} /\ I \subseteq Registered
  /\ armDestReplay(I)
  /\ UNCHANGED <<conn, said, sendVars, iface, sweepDue, unaired, keyVars>>

announceDue ==
  /\ sweepDue /\ sweepDue' = FALSE
  /\ armDestReplay(Registered)
  /\ UNCHANGED <<conn, said, sendVars, iface, unaired, keyVars, inputs>>

replayOurDestAnnounces ==
  /\ replayDue /\ replayDue' = FALSE
  /\ replay' = {}
  /\ IF Wanted /\ replay \cap Registered # {}
     THEN rotate_ratchets /\ unaired' = unaired \ replay
     ELSE UNCHANGED <<ring, disk, newest, unaired>>
  /\ UNCHANGED <<conn, said, sendVars, iface, sweepDue, enabled, clock, upLong, inputs>>

(* A question for the path to it is answered with an announce of its own.  *)
answerPathRequest ==
  /\ Input /\ Hosting # {}
  /\ rotate_ratchets
  /\ UNCHANGED <<conn, said, sendVars, airVars, enabled, clock, upLong>>

-----------------------------------------------------------------------------
(* Only what is stored lives through a restart.                            *)
restart ==
  /\ Input
  /\ conn' = [c \in Slots |-> Closed]
  /\ receipts' = {}
  /\ mr' = [s \in Sends |-> IF mr[s] = "SENT" THEN None ELSE mr[s]]
  /\ asked' = [s \in Sends |-> NoConn]
  /\ gone' = gone \cup UNION {Made(c) : c \in Slots}
  /\ iface' = [i \in IfaceSlots |-> FALSE]
  /\ replay' = {} /\ replayDue' = FALSE /\ sweepDue' = FALSE /\ unaired' = {}
  /\ said' = [announce |-> {}, gate |-> {}]
  /\ ring' = NoRing /\ upLong' = FALSE
  /\ clock' \in BOOLEAN
  /\ UNCHANGED <<told, cancelled, enabled, disk, newest>>

Next ==
  \/ ratchetsSwitched \/ intervalPasses \/ clockSet
  \/ \E h \in Handles, identity \in BOOLEAN : onOurDestConnect(h, identity)
  \/ \E c \in Slots : onOurDestDisconnect(c) \/ destAnnounce(c) \/ destSetAccept(c)
  \/ \E c \in Slots, s \in Sends : outPacket(c, s) \/ park(c, s) \/ outCancel(c, s)
  \/ \E s \in Sends : \/ ourDestTickPending(s) \/ onOurDestReceiptDelivery(s)
                      \/ receiptCulled(s) \/ ourDestReceiptTick(s)
  \/ \E i \in IfaceSlots : onTransportConnect(i) \/ onTransportDisconnect(i)
  \/ \E I \in SUBSET IfaceSlots : onIfaceAux(I)
  \/ announceDue \/ replayOurDestAnnounces \/ answerPathRequest \/ restart

Spec == Init /\ [][Next]_vars

(* The loop looks at both announce deadlines on every wake and the ticks   *)
(* run every second while a send is waiting; each deadline is finite.      *)
FairSpec ==
  /\ Spec
  /\ WF_vars(announceDue) /\ WF_vars(replayOurDestAnnounces)
  /\ \A s \in Sends : WF_vars(ourDestTickPending(s)) /\ WF_vars(ourDestReceiptTick(s))

-----------------------------------------------------------------------------
Conn == [used : BOOLEAN, handle : Handles \cup {None}, hosts : BOOLEAN, want : BOOLEAN,
         accept : BOOLEAN, pending : SUBSET Sends]
Ring == [keys : Seq(1 .. newest.key), at : {"clock", "uptime", "boot"}]

(* Every value has its type; no table is filled past its size.             *)
TypeOK ==
  /\ conn \in [Slots -> Conn]
  /\ \A c \in Slots : Cardinality(conn[c].pending) <= RNSD_OUR_DEST_MAX_PENDING
  /\ receipts \subseteq [conn : Slots, handle : Handles, send : Sends]
  /\ Cardinality(receipts) <= RNSD_MAX_PENDING_RECEIPTS
  /\ mr \in [Sends -> {None, "SENT", "DELIVERED", "CULLED"}]
  /\ asked \in [Sends -> Slots \cup {NoConn}] /\ gone \subseteq Sends
  /\ iface \in [IfaceSlots -> BOOLEAN] /\ replay \cup unaired \subseteq IfaceSlots
  /\ ring \in Ring /\ disk \in Ring
  /\ Len(ring.keys) <= RATCHET_COUNT /\ Len(disk.keys) <= RATCHET_COUNT

(* ourDestAlloc: "A recycled slot must not inherit its predecessor's       *)
(* announce - nor its accept gate", which a disconnect leaves in it.       *)
SlotsForgetTheirPredecessor ==
  \A c \in Used : /\ conn[c].want => c \in said.announce
                  /\ ~conn[c].accept => c \in said.gate

(* INTERNALS.md 4.2: "the retained window is RATCHET_COUNT x               *)
(* RATCHET_INTERVAL of wall clock, not RATCHET_COUNT boots".  While the    *)
(* destination is hosted with ratchets on, mail to any of the last         *)
(* RATCHET_COUNT ratchets opens, and a ratchet made by a clock that was    *)
(* right is not retired within the interval, through reconnects, restarts  *)
(* before the clock is set, and ratchets turned off and on.                *)
RetainedWindow ==
  /\ Hosting # {} /\ enabled =>
       \A k \in 1 .. newest.key : k + RATCHET_COUNT > newest.key => Contains(ring.keys, k)
  /\ ~newest.hurried

(* ports.h, RNSD_DEST_STATUS: one outcome for each send and one word on    *)
(* its proof, though the receipt is evicted, the proof comes late, the     *)
(* consumer cancels, or leaves and another takes its slot and its handle.  *)
Service ==
  INSTANCE SendService WITH
    owner <- [s \in Sends |-> IF s \in gone THEN "gone"
                              ELSE IF asked[s] = NoConn THEN "none" ELSE "open"],
    proved <- {s \in Sends : mr[s] = "DELIVERED"}
ImplementsService == Service!Spec

(* "so the consumer's outbox resolves instead of waiting on a result that  *)
(* will never come" (rnsd.cpp:1517): a send that was taken ends, whatever  *)
(* fills the tables meanwhile.                                             *)
SendsAreAnswered ==
  \A s \in Sends :
    asked[s] # NoConn ~> s \in gone \/ \E k \in DOMAIN told[s] : told[s][k] # "sent"

(* An announce that was stored is heard on every interface that stays, and *)
(* on one that comes later, though two deadlines and one mask of pending   *)
(* interfaces serve them all.                                              *)
StoredAnnounceIsAired ==
  \A i \in IfaceSlots : i \in unaired ~> i \notin unaired

(* Neither a send nor an announce that rnsd has taken on is forgotten.     *)
NothingTakenIsForgotten == SendsAreAnswered /\ StoredAnnounceIsAired
=============================================================================
