------------------------- MODULE OwnDestinationsProofs -------------------------
(***************************************************************************)
(* Proofs about OwnDestinations, for every value of its constants: any     *)
(* number of connections, sends, receipts, interfaces, ratchets retained   *)
(* and inputs.                                                             *)
(***************************************************************************)
EXTENDS OwnDestinations, FiniteSetTheorems, TLAPS

-----------------------------------------------------------------------------
(* The inductive invariant, in parts.                                      *)

(* A connection that is not in use hosts nothing and holds nothing, and    *)
(* one connection at the most hosts the destination.                       *)
OneHosts ==
  /\ \A c \in Slots : ~conn[c].used => ~conn[c].hosts /\ conn[c].pending = {}
  /\ \A c \in Used : conn[c].handle # None
  /\ \A c, d \in Hosting : c = d

(* Of n ratchets the newest first, without a gap, all there are or as many *)
(* as are retained.                                                        *)
AsMany(n, len) == len <= n /\ len <= RATCHET_COUNT /\ (len = n \/ len = RATCHET_COUNT)
NewestFirst(n, keys) ==
  /\ keys \in Seq(1 .. n)
  /\ \A k \in 1 .. Len(keys) : keys[k] = n + 1 - k
  /\ AsMany(n, Len(keys))

Hosts == Hosting # {} /\ enabled
Dated(r) == newest.dated => r.keys # <<>> /\ r.at = "clock"

(* What is stored is always the window; what the Destination holds is the  *)
(* window while it is hosted with ratchets on.  Both know of a rotation by *)
(* a right clock that it was one.                                          *)
WindowHeld ==
  /\ NewestFirst(newest.key, disk.keys) /\ Dated(disk)
  /\ Hosts => NewestFirst(newest.key, ring.keys) /\ Dated(ring)
  /\ ~Hosts => ring = NoRing
  /\ ~newest.hurried

Words == {"sent", "refused", "failed", "delivered", "no proof", "cancelled"}
Proofs == {"delivered", "no proof"}
HasSaid(s, word) == Contains(told[s], word)

(* A send that has not been made was not told of.  One that is open has a  *)
(* connection in use; one that reached the stack was told of.              *)
SendHeld(s) ==
  /\ asked[s] = NoConn /\ s \notin gone => told[s] = <<>>
  /\ s \in gone => asked[s] = NoConn
  /\ asked[s] # NoConn => conn[asked[s]].used
  /\ mr[s] # None => told[s] # <<>>

(* One that waits for a path is its connection's and was not told of.      *)
PendingHeld ==
  \A c \in Slots : \A s \in conn[c].pending : asked[s] = c /\ told[s] = <<>>

(* One that waits for a proof belongs to the connection its receipt names, *)
(* still under the handle it had, and has heard "sent" and no more of it.  *)
ReceiptHeld(r) ==
  /\ asked[r.send] = r.conn /\ conn[r.conn].handle = r.handle
  /\ HasSaid(r.send, "sent") /\ \A word \in Proofs : ~HasSaid(r.send, word)

SendsHeld ==
  /\ told \in [Sends -> Seq(Words)] /\ cancelled \subseteq Sends
  /\ \A s \in Sends : SendHeld(s)
  /\ PendingHeld
  /\ \A r \in receipts : ReceiptHeld(r)
  /\ \A r, q \in receipts : r.send = q.send => r = q

(* What the type invariant needs besides.                                  *)
Typed ==
  /\ TypeOK
  /\ iface \in [IfaceSlots -> BOOLEAN] /\ unaired \subseteq Registered
  /\ IsFiniteSet(receipts)
  /\ newest \in [key : Nat, dated : BOOLEAN, aged : BOOLEAN, hurried : BOOLEAN]
  /\ enabled \in BOOLEAN /\ clock \in BOOLEAN /\ upLong \in BOOLEAN
  /\ said \in [announce : SUBSET Slots, gate : SUBSET Slots]

IInv == Typed /\ OneHosts /\ WindowHeld /\ SendsHeld /\ SlotsForgetTheirPredecessor

-----------------------------------------------------------------------------
(* Facts about the operators.                                              *)

(* What a sequence holds after one more value is put at its end.           *)
LEMMA ContainsAppend ==
  ASSUME NEW S, NEW q \in Seq(S), NEW w \in S, NEW x
  PROVE  /\ Append(q, w) \in Seq(S)
         /\ Append(q, w) # <<>>
         /\ Contains(Append(q, w), x) <=> Contains(q, x) \/ w = x
BY DEF Contains

LEMMA AppendSome ==
  ASSUME NEW q \in Seq(Words), NEW w \in Words
  PROVE  Append(q, w) # <<>>
<1>1. Len(Append(q, w)) = Len(q) + 1 /\ Len(q) \in Nat
  OBVIOUS
<1> QED BY <1>1

LEMMA OneWord ==
  ASSUME NEW w
  PROVE  <<w>> # <<>> /\ \A x : Contains(<<w>>, x) <=> x = w
BY DEF Contains

LEMMA NoWord == \A x : ~Contains(<<>>, x)
BY DEF Contains

(* A telling is heard by the send it is about and by no other.             *)
LEMMA ToldOne ==
  ASSUME NEW t \in [Sends -> Seq(Words)], NEW s \in Sends, NEW word \in Words
  PROVE  /\ OutResult(t, s, word) \in [Sends -> Seq(Words)]
         /\ OutResult(t, s, word)[s] = Append(t[s], word)
         /\ t[s] = <<>> => OutResult(t, s, word)[s] = <<word>>
         /\ \A z \in Sends \ {s} : OutResult(t, s, word)[z] = t[z]
<1>1. Append(<<>>, word) = <<word>>
  OBVIOUS
<1>2. t[s] \in Seq(Words) /\ Append(t[s], word) \in Seq(Words)
  OBVIOUS
<1> QED BY <1>1, <1>2 DEF OutResult

LEMMA MinOfTwo ==
  ASSUME NEW a \in Nat, NEW b \in Nat
  PROVE  Min({a, b}) = IF a <= b THEN a ELSE b
<1>1. CASE a <= b
  <2>1. \A y \in {a, b} : a <= y
    BY <1>1
  <2>2. \A x \in {a, b} : (\A y \in {a, b} : x <= y) => x = a
    BY <1>1
  <2> QED BY <1>1, <2>1, <2>2 DEF Min
<1>2. CASE ~ (a <= b)
  <2>1. \A y \in {a, b} : b <= y
    BY <1>2
  <2>2. \A x \in {a, b} : (\A y \in {a, b} : x <= y) => x = b
    BY <1>2
  <2> QED BY <1>2, <2>1, <2>2 DEF Min
<1> QED BY <1>1, <1>2

(* The first values of a sequence.                                         *)
LEMMA FirstOf ==
  ASSUME NEW S, NEW q \in Seq(S), NEW m \in Nat, m <= Len(q)
  PROVE  /\ SubSeq(q, 1, m) \in Seq(S)
         /\ Len(SubSeq(q, 1, m)) = m
         /\ \A k \in 1 .. m : SubSeq(q, 1, m)[k] = q[k]
OBVIOUS

LEMMA PrependNewest ==
  ASSUME NEW n \in Nat, NEW q \in Seq(1 .. n), \A k \in 1 .. Len(q) : q[k] = n + 1 - k
  PROVE  /\ <<n + 1>> \o q \in Seq(1 .. n + 1)
         /\ Len(<<n + 1>> \o q) = Len(q) + 1
         /\ \A k \in 1 .. Len(q) + 1 : (<<n + 1>> \o q)[k] = n + 2 - k
OBVIOUS

(* The window after a rotation is again the newest ratchets, now one more: *)
(* the new one and as many of the old ones as are retained.                *)
Rotated(n, q) == SubSeq(<<n + 1>> \o q, 1, Min({Len(q) + 1, RATCHET_COUNT}))

LEMMA RotatedKeys ==
  ASSUME NEW n \in Nat, NEW q, NewestFirst(n, q)
  PROVE  NewestFirst(n + 1, Rotated(n, q)) /\ Rotated(n, q) # <<>>
<1>1. RATCHET_COUNT \in Nat \ {0}
  BY OwnAssumption
<1>2. q \in Seq(1 .. n) /\ \A k \in 1 .. Len(q) : q[k] = n + 1 - k
  BY DEF NewestFirst
<1>3. Len(q) \in Nat /\ AsMany(n, Len(q))
  BY <1>2 DEF NewestFirst
<1> DEFINE m == Min({Len(q) + 1, RATCHET_COUNT})
<1>4. m \in Nat /\ 1 <= m /\ m <= Len(q) + 1 /\ AsMany(n + 1, m)
  BY <1>1, <1>3, MinOfTwo DEF AsMany
<1> DEFINE all == <<n + 1>> \o q
<1>5. /\ all \in Seq(1 .. n + 1) /\ Len(all) = Len(q) + 1
      /\ \A k \in 1 .. Len(q) + 1 : all[k] = n + 2 - k
  BY <1>2, PrependNewest
<1> DEFINE kept == Rotated(n, q)
<1>6. kept = SubSeq(all, 1, m)
  BY DEF Rotated
<1> HIDE DEF m, all, kept
<1>7. kept \in Seq(1 .. n + 1) /\ Len(kept) = m /\ \A k \in 1 .. m : kept[k] = all[k]
  BY <1>4, <1>5, <1>6, FirstOf
<1>8. \A k \in 1 .. m : kept[k] = n + 2 - k
  BY <1>3, <1>4, <1>5, <1>7
<1>9. kept # <<>>
  BY <1>4, <1>7
<1> QED BY <1>4, <1>7, <1>8, <1>9 DEF NewestFirst, kept

(* Turning ratchets on again takes all that is stored.                     *)
LEMMA EnabledKeys ==
  ASSUME NEW n \in Nat, NewestFirst(n, disk.keys), disk \in [keys : Seq(1 .. n), at : {"clock", "uptime", "boot"}]
  PROVE  enable_ratchets = disk
<1>1. Len(disk.keys) \in Nat /\ Len(disk.keys) <= RATCHET_COUNT /\ RATCHET_COUNT \in Nat
  BY OwnAssumption DEF NewestFirst, AsMany
<1>2. Min({Len(disk.keys), RATCHET_COUNT}) = Len(disk.keys)
  BY <1>1, MinOfTwo
<1>3. SubSeq(disk.keys, 1, Len(disk.keys)) = disk.keys
  BY DEF NewestFirst
<1> QED BY <1>2, <1>3 DEF enable_ratchets, ourDestRatchetsLoad

(* Only a consumer that comes or goes, and a restart, change who hosts and *)
(* whose the slots are.                                                    *)
Owners == [c \in Slots |-> [used |-> conn[c].used, handle |-> conn[c].handle,
                            hosts |-> conn[c].hosts]]

LEMMA OwnersStay ==
  ASSUME conn \in [Slots -> Conn],
         NEW c \in Slots, NEW s,
         \/ destAnnounce(c) \/ destSetAccept(c)
         \/ outPacket(c, s) \/ park(c, s) \/ outCancel(c, s) \/ ourDestTickPending(s)
  PROVE  Owners' = Owners
<1>1. CASE destAnnounce(c) \/ destSetAccept(c)
  BY <1>1 DEF Owners, Conn, destAnnounce, destSetAccept
<1>2. CASE outPacket(c, s) \/ park(c, s) \/ outCancel(c, s)
  BY <1>2 DEF Owners, Conn, outPacket, park, outCancel
<1>3. CASE ourDestTickPending(s)
  BY <1>3 DEF Owners, Conn, ourDestTickPending
<1> QED BY <1>1, <1>2, <1>3

LEMMA SameOwners ==
  ASSUME Owners' = Owners
  PROVE  Used' = Used /\ Hosting' = Hosting /\ (\A c \in Slots : conn'[c].handle = conn[c].handle)
<1>1. \A c \in Slots : /\ conn'[c].used = conn[c].used /\ conn'[c].hosts = conn[c].hosts
                       /\ conn'[c].handle = conn[c].handle
  <2> SUFFICES ASSUME NEW c \in Slots
               PROVE  /\ conn'[c].used = conn[c].used /\ conn'[c].hosts = conn[c].hosts
                      /\ conn'[c].handle = conn[c].handle
    OBVIOUS
  <2>1. Owners'[c] = Owners[c]
    OBVIOUS
  <2> QED BY <2>1 DEF Owners
<1> QED BY <1>1 DEF Used, Hosting

-----------------------------------------------------------------------------
(* Each part of the invariant is kept by every step.                       *)

LEMMA HostsStep == IInv /\ [Next]_vars => OneHosts'
<1> SUFFICES ASSUME IInv, [Next]_vars PROVE OneHosts'
  OBVIOUS
<1>0. conn \in [Slots -> Conn] /\ OneHosts /\ None \notin Handles
  BY OwnAssumption DEF IInv, Typed, TypeOK
<1>1. CASE UNCHANGED conn
  BY <1>0, <1>1 DEF OneHosts, Used, Hosting
<1>2. ASSUME NEW h \in Handles, NEW identity \in BOOLEAN, onOurDestConnect(h, identity)
      PROVE  OneHosts'
  <2>1. PICK c \in Slots \ Used :
          conn' = [conn EXCEPT ![c] = [ourDestAlloc(c) EXCEPT
                     !.used = TRUE, !.handle = h, !.hosts = identity /\ Hosting = {},
                     !.pending = {}]]
    BY <1>2 DEF onOurDestConnect
  <2>2. /\ conn'[c].used /\ conn'[c].handle = h /\ conn'[c].hosts = (identity /\ Hosting = {})
        /\ \A d \in Slots \ {c} : conn'[d] = conn[d]
    BY <1>0, <2>1 DEF Conn, ourDestAlloc
  <2>3. Used' = Used \cup {c}
    BY <2>1, <2>2 DEF Used
  <2>4. Hosting' = IF identity /\ Hosting = {} THEN {c} ELSE Hosting
    BY <2>1, <2>2, <2>3 DEF Hosting, Used
  <2> QED BY <1>0, <2>2, <2>3, <2>4 DEF OneHosts, Used
<1>3. ASSUME NEW c \in Slots, onOurDestDisconnect(c) PROVE OneHosts'
  <2>1. /\ ~conn'[c].used /\ ~conn'[c].hosts /\ conn'[c].pending = {}
        /\ \A d \in Slots \ {c} : conn'[d] = conn[d]
    BY <1>0, <1>3 DEF Conn, onOurDestDisconnect
  <2> QED BY <1>0, <2>1 DEF OneHosts, Used, Hosting
<1>4. CASE restart
  BY <1>4 DEF restart, OneHosts, Used, Hosting, Closed
<1>5. ASSUME NEW c \in Slots, destAnnounce(c) \/ destSetAccept(c) PROVE OneHosts'
  <2>1. Used' = Used /\ Hosting' = Hosting /\ \A d \in Slots : conn'[d].handle = conn[d].handle
    BY <1>0, <1>5, OwnersStay, SameOwners
  <2>2. \A d \in Slots : conn'[d].pending = conn[d].pending /\ conn'[d].hosts = conn[d].hosts
    BY <1>0, <1>5 DEF Conn, destAnnounce, destSetAccept
  <2> QED BY <1>0, <2>1, <2>2 DEF OneHosts, Used
<1>6. ASSUME NEW c \in Slots, NEW s \in Sends,
             outPacket(c, s) \/ park(c, s) \/ outCancel(c, s) \/ ourDestTickPending(s)
      PROVE  OneHosts'
  <2>1. Used' = Used /\ Hosting' = Hosting /\ \A d \in Slots : conn'[d].handle = conn[d].handle
    BY <1>0, <1>6, OwnersStay, SameOwners
  <2>2. \A d \in Slots \ Used : conn'[d].pending \subseteq conn[d].pending /\ conn'[d].hosts = conn[d].hosts
    BY <1>0, <1>6 DEF Conn, Used, outPacket, park, outCancel, ourDestTickPending
  <2> QED BY <1>0, <2>1, <2>2 DEF OneHosts, Used
<1>7. ASSUME NEW s \in Sends, ourDestTickPending(s) PROVE OneHosts'
  BY <1>0, <1>6, <1>7 DEF ourDestTickPending, IInv, Typed, TypeOK
<1> QED
  BY <1>1, <1>2, <1>3, <1>4, <1>5, <1>6, <1>7
  DEF Next, vars, ratchetsSwitched, intervalPasses, clockSet, onOurDestReceiptDelivery,
      receiptCulled, ourDestReceiptTick, onTransportConnect, onTransportDisconnect,
      onIfaceAux, announceDue, replayOurDestAnnounces, answerPathRequest

(* A rotation moves the window on by one ratchet, and knows that the last  *)
(* one was made by a right clock not an interval ago.                      *)
LEMMA RotationKeepsWindow ==
  ASSUME IInv, Hosting # {}, rotate_ratchets, Hosting' = Hosting, enabled' = enabled
  PROVE  WindowHeld'
<1>0. /\ WindowHeld /\ newest.key \in Nat /\ newest.key + 1 \in Nat /\ Hosts' = Hosts
      /\ newest \in [key : Nat, dated : BOOLEAN, aged : BOOLEAN, hurried : BOOLEAN]
      /\ clock \in BOOLEAN
  BY DEF IInv, Typed, Hosts
<1>1. CASE ~Rotates
  BY <1>0, <1>1 DEF rotate_ratchets, WindowHeld, Dated
<1>2. CASE Rotates
  <2>1. /\ Hosts /\ NewestFirst(newest.key, ring.keys) /\ Dated(ring) /\ ~newest.hurried
    BY <1>0, <1>2 DEF Rotates, Hosts, WindowHeld
  <2> DEFINE kept == Rotated(newest.key, ring.keys)
  <2>2. NewestFirst(newest.key + 1, kept) /\ kept # <<>>
    BY <1>0, <2>1, RotatedKeys
  <2>3. /\ ring' = [keys |-> kept, at |-> IF clock THEN "clock" ELSE "uptime"]
        /\ disk' = [keys |-> kept, at |-> IF clock THEN "clock" ELSE "boot"]
        /\ newest' = [key |-> newest.key + 1, dated |-> clock, aged |-> FALSE,
                      hurried |-> newest.hurried \/ (newest.dated /\ ~newest.aged)]
    BY <1>2 DEF rotate_ratchets, Rotated
  <2>4. ~ (newest.dated /\ ~newest.aged)
    BY <1>2, <2>1 DEF Rotates, IntervalOver, Dated
  <2> HIDE DEF kept
  <2>5. NewestFirst(newest'.key, ring'.keys) /\ NewestFirst(newest'.key, disk'.keys)
    BY <2>2, <2>3
  <2>6. Dated(ring)' /\ Dated(disk)' /\ ~newest'.hurried
    BY <2>1, <2>2, <2>3, <2>4 DEF Dated
  <2> QED BY <1>0, <2>1, <2>5, <2>6 DEF WindowHeld
<1> QED BY <1>1, <1>2

LEMMA WindowStep == IInv /\ [Next]_vars => WindowHeld'
<1> SUFFICES ASSUME IInv, [Next]_vars PROVE WindowHeld'
  OBVIOUS
<1>0. /\ conn \in [Slots -> Conn] /\ OneHosts /\ WindowHeld
      /\ newest \in [key : Nat, dated : BOOLEAN, aged : BOOLEAN, hurried : BOOLEAN]
      /\ enabled \in BOOLEAN
  BY DEF IInv, Typed, TypeOK
<1>1. CASE Hosting' = Hosting /\ UNCHANGED <<enabled, ring, disk, newest>>
  BY <1>0, <1>1 DEF WindowHeld, Hosts, Dated
<1>2. CASE ratchetsSwitched
  <2>1. Hosting' = Hosting /\ disk' = disk /\ newest' = newest /\ enabled' = ~enabled
    BY <1>2 DEF ratchetsSwitched, Hosting, Used
  <2>2. ring' = IF enabled' /\ Hosting # {} THEN disk ELSE NoRing
    BY <1>0, <1>2, EnabledKeys DEF ratchetsSwitched, WindowHeld, IInv, Typed, TypeOK, Ring
  <2> QED BY <1>0, <2>1, <2>2 DEF WindowHeld, Hosts, Dated
<1>3. CASE intervalPasses
  <2>1. Hosting' = Hosting /\ UNCHANGED <<enabled, ring, disk>>
    BY <1>3 DEF intervalPasses, Hosting, Used
  <2>2. newest'.key = newest.key /\ newest'.dated = newest.dated /\ newest'.hurried = newest.hurried
    BY <1>0, <1>3 DEF intervalPasses
  <2> QED BY <1>0, <2>1, <2>2 DEF WindowHeld, Hosts, Dated
<1>4. ASSUME NEW h \in Handles, NEW identity \in BOOLEAN, onOurDestConnect(h, identity)
      PROVE  WindowHeld'
  <2>1. PICK c \in Slots \ Used :
          LET hosts == identity /\ Hosting = {}
          IN  /\ conn' = [conn EXCEPT ![c] = [ourDestAlloc(c) EXCEPT
                            !.used = TRUE, !.handle = h, !.hosts = hosts, !.pending = {}]]
              /\ ring' = IF hosts /\ enabled THEN enable_ratchets ELSE ring
    BY <1>4 DEF onOurDestConnect
  <2>2. /\ conn'[c].used /\ conn'[c].hosts = (identity /\ Hosting = {})
        /\ \A d \in Slots \ {c} : conn'[d] = conn[d]
    BY <1>0, <2>1 DEF Conn, ourDestAlloc
  <2>3. Hosting' = IF identity /\ Hosting = {} THEN {c} ELSE Hosting
    BY <2>1, <2>2 DEF Hosting, Used
  <2>4. UNCHANGED <<enabled, disk, newest>>
    BY <1>4 DEF onOurDestConnect
  <2>5. ring' = IF identity /\ Hosting = {} /\ enabled THEN disk ELSE ring
    BY <1>0, <2>1, EnabledKeys DEF WindowHeld, IInv, Typed, TypeOK, Ring
  <2>6. CASE identity /\ Hosting = {}
    BY <1>0, <2>3, <2>4, <2>5, <2>6 DEF WindowHeld, Hosts, Dated
  <2>7. CASE ~ (identity /\ Hosting = {})
    BY <1>1, <2>3, <2>4, <2>5, <2>7
  <2> QED BY <2>6, <2>7
<1>5. ASSUME NEW c \in Slots, onOurDestDisconnect(c) PROVE WindowHeld'
  <2>1. /\ ~conn'[c].used /\ \A d \in Slots \ {c} : conn'[d] = conn[d]
    BY <1>0, <1>5 DEF Conn, onOurDestDisconnect
  <2>2. Hosting' = Hosting \ {c}
    BY <2>1 DEF Hosting, Used
  <2>3. UNCHANGED <<enabled, disk, newest>> /\ ring' = IF conn[c].hosts THEN NoRing ELSE ring
    BY <1>5 DEF onOurDestDisconnect
  <2>4. CASE conn[c].hosts
    <3>1. c \in Hosting
      BY <1>5, <2>4 DEF onOurDestDisconnect, Hosting
    <3>2. Hosting' = {}
      BY <1>0, <2>2, <3>1 DEF OneHosts
    <3> QED BY <1>0, <2>3, <2>4, <3>2 DEF WindowHeld, Hosts, Dated
  <2>5. CASE ~conn[c].hosts
    <3>1. Hosting' = Hosting
      BY <2>2, <2>5 DEF Hosting
    <3> QED BY <1>1, <2>3, <2>5, <3>1
  <2> QED BY <2>4, <2>5
<1>6. CASE restart
  <2>1. Hosting' = {}
    BY <1>6 DEF restart, Closed, Hosting, Used
  <2> QED BY <1>0, <1>6, <2>1 DEF restart, WindowHeld, Hosts, Dated
<1>7. ASSUME NEW c \in Slots, destAnnounce(c) \/ destSetAccept(c) PROVE WindowHeld'
  <2>1. Hosting' = Hosting
    BY <1>0, <1>7, OwnersStay, SameOwners
  <2> QED BY <1>1, <1>7, <2>1 DEF destAnnounce, destSetAccept, airVars, keyVars
<1>8. ASSUME NEW c \in Slots, NEW s \in Sends,
             outPacket(c, s) \/ park(c, s) \/ outCancel(c, s) \/ ourDestTickPending(s)
      PROVE  WindowHeld'
  <2>1. Hosting' = Hosting
    BY <1>0, <1>8, OwnersStay, SameOwners
  <2> QED BY <1>1, <1>8, <2>1 DEF outPacket, park, outCancel, ourDestTickPending, keyVars
<1>9. ASSUME NEW s \in Sends, ourDestTickPending(s) PROVE WindowHeld'
  BY <1>0, <1>8, <1>9 DEF ourDestTickPending, IInv, Typed, TypeOK
<1>10. CASE replayOurDestAnnounces \/ answerPathRequest
  <2>1. Hosting' = Hosting /\ enabled' = enabled
    BY <1>10 DEF replayOurDestAnnounces, answerPathRequest, Hosting, Used
  <2>2. UNCHANGED <<ring, disk, newest>> \/ (Hosting # {} /\ rotate_ratchets)
    BY <1>10 DEF replayOurDestAnnounces, answerPathRequest, Wanted
  <2> QED BY <1>1, <2>1, <2>2, RotationKeepsWindow
<1>11. CASE UNCHANGED <<conn, enabled, ring, disk, newest>>
  BY <1>1, <1>11 DEF Hosting, Used
<1> QED
  BY <1>2, <1>3, <1>4, <1>5, <1>6, <1>7, <1>8, <1>9, <1>10, <1>11
  DEF Next, vars, keyVars, clockSet, onOurDestReceiptDelivery,
      receiptCulled, ourDestReceiptTick, onTransportConnect, onTransportDisconnect,
      onIfaceAux, announceDue

LEMMA SlotsStep == IInv /\ [Next]_vars => SlotsForgetTheirPredecessor'
<1> SUFFICES ASSUME IInv, [Next]_vars PROVE SlotsForgetTheirPredecessor'
  OBVIOUS
<1>0. /\ conn \in [Slots -> Conn] /\ SlotsForgetTheirPredecessor
      /\ said \in [announce : SUBSET Slots, gate : SUBSET Slots]
  BY DEF IInv, Typed, TypeOK
<1>1. CASE UNCHANGED <<conn, said>>
  BY <1>0, <1>1 DEF SlotsForgetTheirPredecessor, Used
<1>2. ASSUME NEW h \in Handles, NEW identity \in BOOLEAN, onOurDestConnect(h, identity)
      PROVE  SlotsForgetTheirPredecessor'
  <2>1. PICK c \in Slots \ Used :
          conn' = [conn EXCEPT ![c] = [ourDestAlloc(c) EXCEPT
                     !.used = TRUE, !.handle = h, !.hosts = identity /\ Hosting = {},
                     !.pending = {}]]
    BY <1>2 DEF onOurDestConnect
  <2>2. /\ ~conn'[c].want /\ conn'[c].accept
        /\ \A d \in Slots \ {c} : conn'[d] = conn[d]
    BY <1>0, <2>1 DEF Conn, ourDestAlloc
  <2> QED BY <1>0, <1>2, <2>2 DEF onOurDestConnect, SlotsForgetTheirPredecessor, Used
<1>3. ASSUME NEW c \in Slots, onOurDestDisconnect(c) PROVE SlotsForgetTheirPredecessor'
  <2>1. /\ ~conn'[c].used /\ \A d \in Slots \ {c} : conn'[d] = conn[d]
    BY <1>0, <1>3 DEF Conn, onOurDestDisconnect
  <2> QED BY <1>0, <1>3, <2>1 DEF onOurDestDisconnect, SlotsForgetTheirPredecessor, Used
<1>4. CASE restart
  BY <1>4 DEF restart, SlotsForgetTheirPredecessor, Used, Closed
<1>5. ASSUME NEW c \in Slots, destAnnounce(c) \/ destSetAccept(c)
      PROVE  SlotsForgetTheirPredecessor'
  <2>1. CASE destAnnounce(c)
    BY <1>0, <2>1 DEF destAnnounce, SlotsForgetTheirPredecessor, Used, Conn
  <2>2. CASE destSetAccept(c)
    BY <1>0, <2>2 DEF destSetAccept, SlotsForgetTheirPredecessor, Used, Conn
  <2> QED BY <1>5, <2>1, <2>2
<1>6. ASSUME NEW c \in Slots, NEW s \in Sends,
             outPacket(c, s) \/ park(c, s) \/ outCancel(c, s) \/ ourDestTickPending(s)
      PROVE  SlotsForgetTheirPredecessor'
  <2>1. \A d \in Slots : /\ conn'[d].used = conn[d].used /\ conn'[d].want = conn[d].want
                         /\ conn'[d].accept = conn[d].accept
    BY <1>0, <1>6 DEF Conn, outPacket, park, outCancel, ourDestTickPending
  <2>2. said' = said
    BY <1>6 DEF outPacket, park, outCancel, ourDestTickPending
  <2> QED BY <1>0, <2>1, <2>2 DEF SlotsForgetTheirPredecessor, Used
<1>7. ASSUME NEW s \in Sends, ourDestTickPending(s) PROVE SlotsForgetTheirPredecessor'
  BY <1>0, <1>6, <1>7 DEF ourDestTickPending, IInv, Typed, TypeOK
<1> QED
  BY <1>1, <1>2, <1>3, <1>4, <1>5, <1>6, <1>7
  DEF Next, vars, ratchetsSwitched, intervalPasses, clockSet, onOurDestReceiptDelivery,
      receiptCulled, ourDestReceiptTick, onTransportConnect, onTransportDisconnect,
      onIfaceAux, announceDue, replayOurDestAnnounces, answerPathRequest

-----------------------------------------------------------------------------
(* What the consumers are told.                                            *)

(* The connection a receipt names is still the one it was made on, so that *)
(* a receipt that settles always tells.                                    *)
LEMMA SettleTells ==
  ASSUME IInv, NEW r \in receipts, NEW word
  PROVE  /\ r.send \in Sends /\ r.conn \in Used
         /\ ourDestReceiptSettle(told, r, word) = OutResult(told, r.send, word)
<1>1. r \in [conn : Slots, handle : Handles, send : Sends]
  BY DEF IInv, Typed, TypeOK
<1>2. asked[r.send] = r.conn /\ conn[r.conn].handle = r.handle
  BY DEF IInv, SendsHeld, ReceiptHeld
<1>3. r.conn \in Slots /\ NoConn \notin Slots
  BY <1>1 DEF NoConn, Slots
<1>4. conn[r.conn].used
  BY <1>1, <1>2, <1>3 DEF IInv, SendsHeld, SendHeld
<1> QED BY <1>1, <1>2, <1>3, <1>4 DEF ourDestReceiptSettle, Used

NewReceipt(c, s) == [conn |-> c, handle |-> conn[c].handle, send |-> s]

(* A send goes out or is refused.  When it goes out it has a receipt, for  *)
(* which one other may have been settled without its proof.                *)
LEMMA TrySend ==
  ASSUME IInv, NEW c \in Used, NEW s \in Sends, told[s] = <<>>, ourDestTrySend(c, s)
  PROVE  /\ told' \in [Sends -> Seq(Words)]
         /\ told'[s] \in {<<"sent">>, <<"refused">>}
         /\ \A z \in Sends \ {s} :
              \/ told'[z] = told[z]
              \/ /\ told'[z] = Append(told[z], "no proof")
                 /\ \E r \in receipts : r.send = z
         /\ \A r \in receipts' :
              \/ r \in receipts /\ r.send # s /\ told'[r.send] = told[r.send]
              \/ r = NewReceipt(c, s) /\ told'[s] = <<"sent">>
         /\ mr' \in [Sends -> {None, "SENT", "DELIVERED", "CULLED"}]
         /\ \A z \in Sends \ {s} : mr'[z] = mr[z]
<1>0. /\ told \in [Sends -> Seq(Words)]
      /\ "sent" \in Words /\ "refused" \in Words /\ "no proof" \in Words
  BY DEF IInv, SendsHeld, Words
<1>1. \A r \in receipts : r.send \in Sends /\ r.send # s
  <2> SUFFICES ASSUME NEW r \in receipts PROVE r.send \in Sends /\ r.send # s
    OBVIOUS
  <2>1. HasSaid(r.send, "sent")
    BY DEF IInv, SendsHeld, ReceiptHeld
  <2>2. told[r.send] # <<>>
    BY <2>1 DEF HasSaid, Contains
  <2> QED BY <2>2, SettleTells
<1>2. \A r, q \in receipts : r.send = q.send => r = q
  BY DEF IInv, SendsHeld
<1>3. mr \in [Sends -> {None, "SENT", "DELIVERED", "CULLED"}]
  BY DEF IInv, Typed, TypeOK
<1>4. CASE told' = OutResult(told, s, "refused") /\ UNCHANGED <<receipts, mr>>
  <2>1. /\ OutResult(told, s, "refused") \in [Sends -> Seq(Words)]
        /\ OutResult(told, s, "refused")[s] = <<"refused">>
        /\ \A z \in Sends \ {s} : OutResult(told, s, "refused")[z] = told[z]
    BY <1>0, ToldOne
  <2> QED BY <1>1, <1>3, <1>4, <2>1
<1>5. CASE ourDestReceiptTrack(c, s)
  <2>0. /\ mr' \in [Sends -> {None, "SENT", "DELIVERED", "CULLED"}]
        /\ \A z \in Sends \ {s} : mr'[z] = mr[z]
    BY <1>3, <1>5 DEF ourDestReceiptTrack
  <2>1. CASE Tracks(receipts, told, c, s)
    <3>1. /\ told' = OutResult(told, s, "sent")
          /\ receipts' = receipts \cup {NewReceipt(c, s)}
      BY <2>1 DEF Tracks, NewReceipt
    <3>2. /\ OutResult(told, s, "sent") \in [Sends -> Seq(Words)]
          /\ OutResult(told, s, "sent")[s] = <<"sent">>
          /\ \A z \in Sends \ {s} : OutResult(told, s, "sent")[z] = told[z]
      BY <1>0, ToldOne
    <3> QED BY <1>1, <2>0, <3>1, <3>2
  <2>2. CASE \E r \in receipts :
               Tracks(receipts \ {r}, ourDestReceiptSettle(told, r, "no proof"), c, s)
    <3>0. PICK r \in receipts :
            Tracks(receipts \ {r}, ourDestReceiptSettle(told, r, "no proof"), c, s)
      BY <2>2
    <3> DEFINE t == OutResult(told, r.send, "no proof")
    <3>1. told' = OutResult(t, s, "sent")
      BY <3>0, SettleTells DEF Tracks
    <3>2. receipts' = (receipts \ {r}) \cup {NewReceipt(c, s)}
      BY <3>0 DEF Tracks, NewReceipt
    <3>3. r.send \in Sends /\ r.send # s
      BY <1>1
    <3>4. /\ t \in [Sends -> Seq(Words)]
          /\ t[r.send] = Append(told[r.send], "no proof")
          /\ \A z \in Sends \ {r.send} : t[z] = told[z]
      BY <1>0, <3>3, ToldOne
    <3> HIDE DEF t
    <3>5. t[s] = <<>>
      BY <3>3, <3>4
    <3>6. /\ OutResult(t, s, "sent") \in [Sends -> Seq(Words)]
          /\ OutResult(t, s, "sent")[s] = <<"sent">>
          /\ \A z \in Sends \ {s} : OutResult(t, s, "sent")[z] = t[z]
      BY <1>0, <3>4, <3>5, ToldOne
    <3>7. ASSUME NEW q \in receipts \ {r}
          PROVE  q.send # s /\ told'[q.send] = told[q.send]
      <4>1. q.send \in Sends \ {s, r.send}
        BY <1>1, <1>2
      <4> QED BY <3>1, <3>4, <3>6, <4>1
    <3>8. ASSUME NEW z \in Sends \ {s}
          PROVE  told'[z] = told[z] \/ (told'[z] = Append(told[z], "no proof") /\ r.send = z)
      <4>1. CASE z = r.send
        BY <3>1, <3>3, <3>4, <3>6, <4>1
      <4>2. CASE z # r.send
        BY <3>1, <3>4, <3>6, <4>2
      <4> QED BY <4>1, <4>2
    <3>9. \A q \in receipts' : \/ q \in receipts /\ q.send # s /\ told'[q.send] = told[q.send]
                               \/ q = NewReceipt(c, s) /\ told'[s] = <<"sent">>
      BY <3>1, <3>2, <3>6, <3>7
    <3> QED BY <2>0, <3>0, <3>1, <3>6, <3>8, <3>9
  <2> QED BY <1>5, <2>1, <2>2 DEF ourDestReceiptTrack
<1> QED BY <1>4, <1>5 DEF ourDestTrySend

(* A receipt that settles was the only one of its send.                    *)
LEMMA SettleOne ==
  ASSUME IInv, NEW s \in Sends, NEW word \in Proofs, Settles(s, word)
  PROVE  /\ asked[s] # NoConn /\ HasSaid(s, "sent")
         /\ ~HasSaid(s, "delivered") /\ ~HasSaid(s, "no proof")
         /\ told' \in [Sends -> Seq(Words)]
         /\ told'[s] = Append(told[s], word)
         /\ \A z \in Sends \ {s} : told'[z] = told[z]
         /\ \A r \in receipts' : r \in receipts /\ r.send # s
<1>1. PICK r \in receipts : /\ r.send = s /\ receipts' = receipts \ {r}
                            /\ told' = ourDestReceiptSettle(told, r, word)
  BY DEF Settles, Tracked
<1>2. told' = OutResult(told, s, word)
  BY <1>1, SettleTells
<1>3. told \in [Sends -> Seq(Words)] /\ word \in Words
  BY DEF IInv, SendsHeld, Words, Proofs
<1>4. /\ OutResult(told, s, word) \in [Sends -> Seq(Words)]
      /\ OutResult(told, s, word)[s] = Append(told[s], word)
      /\ \A z \in Sends \ {s} : OutResult(told, s, word)[z] = told[z]
  BY <1>3, ToldOne
<1>5. /\ asked[s] = r.conn /\ HasSaid(s, "sent")
      /\ ~HasSaid(s, "delivered") /\ ~HasSaid(s, "no proof")
      /\ \A q \in receipts : q.send = s => q = r
  BY <1>1 DEF IInv, SendsHeld, ReceiptHeld, Proofs
<1>6. r.conn # NoConn
  BY <1>1, SettleTells DEF Used, Slots, NoConn
<1> QED BY <1>1, <1>2, <1>4, <1>5, <1>6

(* A send that goes out, with or without a wait before, is held as its     *)
(* receipt says; the others are held as before.                            *)
LEMMA TrySendHeld ==
  ASSUME IInv, NEW c \in Used, NEW s \in Sends, told[s] = <<>>, s \notin gone,
         ourDestTrySend(c, s), asked'[s] = c, \A z \in Sends \ {s} : asked'[z] = asked[z],
         UNCHANGED <<gone, cancelled>>,
         \A d \in Slots : /\ conn'[d].used = conn[d].used /\ conn'[d].handle = conn[d].handle
                          /\ conn'[d].pending \subseteq conn[d].pending \ {s}
  PROVE  SendsHeld'
<1>0. /\ c \in Slots /\ conn[c].used /\ asked \in [Sends -> Slots \cup {NoConn}]
      /\ conn \in [Slots -> Conn] /\ NoConn \notin Slots
  BY DEF IInv, Typed, TypeOK, NoConn, Slots, Used
<1>a. /\ told \in [Sends -> Seq(Words)] /\ cancelled \subseteq Sends
      /\ \A z \in Sends : SendHeld(z)
      /\ PendingHeld
      /\ \A r \in receipts : ReceiptHeld(r) /\ r.send \in Sends /\ r.conn \in Used
      /\ \A r, q \in receipts : r.send = q.send => r = q
  BY SettleTells DEF IInv, SendsHeld
<1>1. /\ told' \in [Sends -> Seq(Words)]
      /\ told'[s] \in {<<"sent">>, <<"refused">>}
      /\ \A z \in Sends \ {s} :
           \/ told'[z] = told[z]
           \/ told'[z] = Append(told[z], "no proof") /\ \E r \in receipts : r.send = z
      /\ \A z \in Sends \ {s} : mr'[z] = mr[z]
  BY TrySend
<1>2. \A r \in receipts' :
        \/ r \in receipts /\ r.send # s /\ told'[r.send] = told[r.send]
        \/ r = NewReceipt(c, s) /\ told'[s] = <<"sent">>
  BY TrySend
<1>3. \A z \in Sends : SendHeld(z)'
  <2> SUFFICES ASSUME NEW z \in Sends PROVE SendHeld(z)'
    OBVIOUS
  <2>1. CASE z = s
    <3>1. told'[s] # <<>>
      BY <1>1, OneWord
    <3> QED BY <1>0, <2>1, <3>1 DEF SendHeld
  <2>2. CASE z # s
    <3>1. /\ asked'[z] = asked[z] /\ mr'[z] = mr[z] /\ SendHeld(z)
      BY <1>1, <1>a, <2>2
    <3>2. told'[z] = <<>> <=> told[z] = <<>>
      <4>1. CASE told'[z] = told[z]
        BY <4>1
      <4>2. CASE \E r \in receipts : told'[z] = Append(told[z], "no proof") /\ r.send = z
        <5>1. HasSaid(z, "sent") /\ told'[z] = Append(told[z], "no proof")
          BY <1>a, <4>2 DEF ReceiptHeld
        <5>2. told[z] # <<>>
          BY <5>1, NoWord DEF HasSaid
        <5>3. told[z] \in Seq(Words)
          BY <1>a
        <5>4. Append(told[z], "no proof") # <<>>
          <6>1. "no proof" \in Words
            BY DEF Words
          <6> QED BY <5>3, <6>1, AppendSome
        <5> QED BY <5>1, <5>2, <5>4
      <4> QED BY <1>1, <2>2, <4>1, <4>2
    <3> QED BY <1>0, <3>1, <3>2 DEF SendHeld
  <2> QED BY <2>1, <2>2
<1>4. PendingHeld'
  <2> SUFFICES ASSUME NEW d \in Slots, NEW z \in conn'[d].pending
               PROVE  asked'[z] = d /\ told'[z] = <<>>
    BY DEF PendingHeld
  <2>1. z \in conn[d].pending /\ z # s /\ z \in Sends
    BY <1>0 DEF Conn
  <2>2. asked[z] = d /\ told[z] = <<>> /\ asked'[z] = d
    BY <1>a, <2>1 DEF PendingHeld
  <2>3. \A r \in receipts : r.send # z
    BY <1>a, <2>2 DEF ReceiptHeld, HasSaid, Contains
  <2> QED BY <1>1, <2>1, <2>2, <2>3
<1>5. ASSUME NEW r \in receipts' PROVE ReceiptHeld(r)'
  <2>1. CASE r \in receipts /\ r.send # s /\ told'[r.send] = told[r.send]
    <3>1. r.conn \in Slots /\ r.send \in Sends \ {s} /\ ReceiptHeld(r)
      BY <1>a, <2>1 DEF Used
    <3> QED BY <2>1, <3>1 DEF ReceiptHeld, HasSaid
  <2>2. CASE r = NewReceipt(c, s) /\ told'[s] = <<"sent">>
    <3>1. r.send = s /\ r.conn = c /\ r.handle = conn[c].handle
      BY <2>2 DEF NewReceipt
    <3>2. HasSaid(s, "sent")' /\ \A word \in Proofs : ~HasSaid(s, word)'
      BY <2>2, OneWord DEF HasSaid, Proofs
    <3> QED BY <1>0, <3>1, <3>2 DEF ReceiptHeld
  <2> QED BY <1>2, <2>1, <2>2
<1>6. \A r, q \in receipts' : r.send = q.send => r = q
  BY <1>2, <1>a DEF NewReceipt
<1> QED BY <1>1, <1>3, <1>4, <1>5, <1>6, <1>a DEF SendsHeld

LEMMA SendsStep == IInv /\ [Next]_vars => SendsHeld'
<1> SUFFICES ASSUME IInv, [Next]_vars PROVE SendsHeld'
  OBVIOUS
<1>0. /\ conn \in [Slots -> Conn] /\ asked \in [Sends -> Slots \cup {NoConn}]
      /\ mr \in [Sends -> {None, "SENT", "DELIVERED", "CULLED"}]
      /\ NoConn \notin Slots
  BY DEF IInv, Typed, TypeOK, NoConn, Slots
<1>a. /\ told \in [Sends -> Seq(Words)] /\ cancelled \subseteq Sends
      /\ \A s \in Sends : SendHeld(s)
      /\ PendingHeld
      /\ \A r \in receipts : ReceiptHeld(r) /\ r.send \in Sends /\ r.conn \in Used
      /\ \A r, q \in receipts : r.send = q.send => r = q
  BY SettleTells DEF IInv, SendsHeld
<1>1. CASE UNCHANGED <<conn, sendVars>>
  BY <1>a, <1>1 DEF sendVars, SendsHeld, SendHeld, PendingHeld, ReceiptHeld, HasSaid
<1>2. ASSUME NEW h \in Handles, NEW identity \in BOOLEAN, onOurDestConnect(h, identity)
      PROVE  SendsHeld'
  <2>1. PICK c \in Slots \ Used :
          conn' = [conn EXCEPT ![c] = [ourDestAlloc(c) EXCEPT
                     !.used = TRUE, !.handle = h, !.hosts = identity /\ Hosting = {},
                     !.pending = {}]]
    BY <1>2 DEF onOurDestConnect
  <2>2. /\ conn'[c].used /\ conn'[c].pending = {}
        /\ \A d \in Slots \ {c} : conn'[d] = conn[d]
    BY <1>0, <2>1 DEF Conn, ourDestAlloc
  <2>3. UNCHANGED sendVars
    BY <1>2 DEF onOurDestConnect
  <2>4. \A s \in Sends : SendHeld(s)'
    BY <1>0, <1>a, <2>2, <2>3 DEF sendVars, SendHeld
  <2>5. PendingHeld'
    BY <1>a, <2>2, <2>3 DEF sendVars, PendingHeld
  <2>6. \A r \in receipts' : ReceiptHeld(r)'
    <3> SUFFICES ASSUME NEW r \in receipts PROVE ReceiptHeld(r)'
      BY <2>3 DEF sendVars
    <3>1. r.conn \in Slots \ {c}
      BY <1>a, <2>1 DEF Used
    <3>2. conn'[r.conn] = conn[r.conn]
      BY <2>2, <3>1
    <3> QED BY <1>a, <2>3, <3>2 DEF sendVars, ReceiptHeld, HasSaid
  <2> QED BY <1>a, <2>3, <2>4, <2>5, <2>6 DEF sendVars, SendsHeld
<1>3. ASSUME NEW c \in Slots, onOurDestDisconnect(c) PROVE SendsHeld'
  <2>1. /\ conn'[c].pending = {}
        /\ \A d \in Slots \ {c} : conn'[d] = conn[d]
    BY <1>0, <1>3 DEF Conn, onOurDestDisconnect
  <2>2. /\ receipts' = {r \in receipts : r.conn # c}
        /\ asked' = [s \in Sends |-> IF asked[s] = c THEN NoConn ELSE asked[s]]
        /\ gone' = gone \cup {s \in Sends : asked[s] = c}
        /\ UNCHANGED <<mr, told, cancelled>>
    BY <1>3 DEF onOurDestDisconnect, ourDestReceiptPurgeConn, Made
  <2>3. \A s \in Sends : SendHeld(s)'
    BY <1>0, <1>a, <2>1, <2>2 DEF SendHeld
  <2>4. PendingHeld'
    BY <1>0, <1>a, <2>1, <2>2 DEF PendingHeld, Conn
  <2>5. \A r \in receipts' : ReceiptHeld(r)'
    <3> SUFFICES ASSUME NEW r \in receipts, r.conn # c PROVE ReceiptHeld(r)'
      BY <2>2
    <3>1. r.conn \in Slots \ {c} /\ r.send \in Sends
      BY <1>a DEF Used
    <3>2. conn'[r.conn] = conn[r.conn] /\ asked'[r.send] = asked[r.send]
      BY <1>a, <2>1, <2>2, <3>1 DEF ReceiptHeld
    <3> QED BY <1>a, <2>2, <3>2 DEF ReceiptHeld, HasSaid
  <2> QED BY <1>a, <2>2, <2>3, <2>4, <2>5 DEF SendsHeld
<1>4. CASE restart
  <2>1. /\ receipts' = {} /\ UNCHANGED <<told, cancelled>>
        /\ \A s \in Sends : /\ asked'[s] = NoConn /\ mr'[s] \in {None, mr[s]}
                            /\ asked[s] \in Slots => s \in gone'
        /\ gone \subseteq gone'
        /\ \A c \in Slots : conn'[c].pending = {}
    BY <1>4 DEF restart, Closed, Made
  <2>2. \A s \in Sends : SendHeld(s)'
    BY <1>0, <1>a, <2>1 DEF SendHeld
  <2> QED BY <1>a, <2>1, <2>2 DEF SendsHeld, PendingHeld
<1>5. ASSUME NEW c \in Slots, destAnnounce(c) \/ destSetAccept(c) PROVE SendsHeld'
  <2>1. \A d \in Slots : /\ conn'[d].used = conn[d].used /\ conn'[d].handle = conn[d].handle
                         /\ conn'[d].pending = conn[d].pending
    BY <1>0, <1>5 DEF Conn, destAnnounce, destSetAccept
  <2>2. UNCHANGED sendVars
    BY <1>5 DEF destAnnounce, destSetAccept
  <2>3. \A s \in Sends : SendHeld(s)'
    BY <1>0, <1>a, <2>1, <2>2 DEF sendVars, SendHeld
  <2>4. PendingHeld'
    BY <1>a, <2>1, <2>2 DEF sendVars, PendingHeld
  <2>5. ASSUME NEW r \in receipts PROVE ReceiptHeld(r)'
    <3>1. r.conn \in Slots /\ ReceiptHeld(r)
      BY <1>a DEF Used
    <3> QED BY <2>1, <2>2, <3>1 DEF sendVars, ReceiptHeld, HasSaid
  <2> QED BY <1>a, <2>2, <2>3, <2>4, <2>5 DEF sendVars, SendsHeld
<1>6. ASSUME NEW c \in Slots, NEW s \in Sends, outPacket(c, s) PROVE SendsHeld'
  <2>1. /\ c \in Used /\ asked[s] = NoConn /\ s \notin gone /\ told[s] = <<>>
        /\ asked' = [asked EXCEPT ![s] = c] /\ ourDestTrySend(c, s)
        /\ UNCHANGED <<conn, gone, cancelled>>
    BY <1>6, <1>a DEF outPacket, SendHeld
  <2>2. \A d \in Slots : s \notin conn[d].pending
    BY <1>0, <1>a, <2>1 DEF PendingHeld
  <2> QED BY <1>0, <2>1, <2>2, TrySendHeld
<1>7. ASSUME NEW c \in Slots, NEW s \in Sends, park(c, s) PROVE SendsHeld'
  <2>1. /\ conn[c].used /\ asked[s] = NoConn /\ s \notin gone /\ told[s] = <<>>
        /\ asked' = [asked EXCEPT ![s] = c]
        /\ UNCHANGED <<receipts, mr, gone, told, cancelled>>
    BY <1>7, <1>a DEF park, SendHeld, Used
  <2>2. \A d \in Slots : /\ conn'[d].used = conn[d].used /\ conn'[d].handle = conn[d].handle
                         /\ conn'[d].pending \subseteq conn[d].pending \cup (IF d = c THEN {s} ELSE {})
    BY <1>0, <1>7 DEF Conn, park
  <2>3. \A z \in Sends : SendHeld(z)'
    BY <1>0, <1>a, <2>1, <2>2 DEF SendHeld
  <2>4. PendingHeld'
    BY <1>0, <1>a, <2>1, <2>2 DEF PendingHeld, Conn
  <2>5. \A r \in receipts' : ReceiptHeld(r)'
    <3> SUFFICES ASSUME NEW r \in receipts PROVE ReceiptHeld(r)'
      BY <2>1
    <3>1. r.conn \in Slots /\ r.send \in Sends /\ r.send # s
      BY <1>0, <1>a, <2>1 DEF Used, ReceiptHeld
    <3> QED BY <1>0, <1>a, <2>1, <2>2, <3>1 DEF ReceiptHeld, HasSaid
  <2> QED BY <1>a, <2>1, <2>3, <2>4, <2>5 DEF SendsHeld
<1>8. ASSUME NEW c \in Slots, NEW s \in Sends, outCancel(c, s) PROVE SendsHeld'
  <2>1. /\ asked[s] = c /\ told' = OutResult(told, s, "cancelled")
        /\ cancelled' = cancelled \cup {s}
        /\ UNCHANGED <<receipts, mr, asked, gone>>
    BY <1>8 DEF outCancel
  <2>2. \A d \in Slots : /\ conn'[d].used = conn[d].used /\ conn'[d].handle = conn[d].handle
                         /\ conn'[d].pending = IF d = c THEN conn[d].pending \ {s} ELSE conn[d].pending
    <3>1. conn' = [conn EXCEPT ![c].pending = @ \ {s}]
      BY <1>8 DEF outCancel
    <3> QED BY <1>0, <3>1 DEF Conn
  <2>3. "cancelled" \in Words /\ told[s] \in Seq(Words)
    BY <1>a DEF Words
  <2>4. /\ told' \in [Sends -> Seq(Words)] /\ told'[s] = Append(told[s], "cancelled")
        /\ \A z \in Sends \ {s} : told'[z] = told[z]
    BY <1>a, <2>1, <2>3, ToldOne
  <2>5. told'[s] # <<>> /\ \A word : HasSaid(s, word)' <=> HasSaid(s, word) \/ word = "cancelled"
    <3>1. told'[s] # <<>>
      BY <2>3, <2>4
    <3>2. ASSUME NEW word
          PROVE  Contains(Append(told[s], "cancelled"), word)
                   <=> Contains(told[s], word) \/ word = "cancelled"
      BY <2>3, ContainsAppend
    <3>3. ASSUME NEW word
          PROVE  Contains(told'[s], word) <=> Contains(told[s], word) \/ word = "cancelled"
      BY <2>4, <3>2
    <3> QED BY <3>1, <3>3 DEF HasSaid
  <2>6. ASSUME NEW z \in Sends PROVE SendHeld(z)'
    <3>1. SendHeld(z) /\ asked[z] \in Slots \cup {NoConn} /\ asked'[z] = asked[z]
          /\ mr'[z] = mr[z] /\ gone' = gone
      BY <1>0, <1>a, <2>1
    <3>2. CASE z = s
      BY <1>0, <2>1, <2>2, <2>5, <3>1, <3>2 DEF SendHeld
    <3>3. CASE z # s
      BY <2>2, <2>4, <3>1, <3>3 DEF SendHeld
    <3> QED BY <3>2, <3>3
  <2>7. PendingHeld'
    <3> SUFFICES ASSUME NEW d \in Slots, NEW z \in conn'[d].pending
                 PROVE  asked'[z] = d /\ told'[z] = <<>>
      BY DEF PendingHeld
    <3>1. z \in conn[d].pending /\ z \in Sends /\ asked[z] = d /\ told[z] = <<>>
      BY <1>0, <1>a, <2>2 DEF PendingHeld, Conn
    <3>2. z # s
      BY <2>1, <2>2, <3>1
    <3> QED BY <2>1, <2>4, <3>1, <3>2
  <2>8. ASSUME NEW r \in receipts PROVE ReceiptHeld(r)'
    <3>1. r.conn \in Slots /\ r.send \in Sends /\ ReceiptHeld(r)
      BY <1>a DEF Used
    <3>2. \A word : HasSaid(r.send, word)' <=>
                      HasSaid(r.send, word) \/ (r.send = s /\ word = "cancelled")
      BY <2>4, <2>5, <3>1 DEF HasSaid
    <3> QED BY <2>1, <2>2, <3>1, <3>2 DEF ReceiptHeld, Proofs
  <2> QED BY <1>a, <2>1, <2>4, <2>6, <2>7, <2>8 DEF SendsHeld
<1>9. ASSUME NEW s \in Sends, ourDestTickPending(s) PROVE SendsHeld'
  <2> DEFINE c == asked[s]
  <2>1. /\ c \in Slots /\ s \in conn[c].pending /\ c \in Used /\ told[s] = <<>> /\ s \notin gone
        /\ UNCHANGED <<asked, gone, cancelled>>
    BY <1>0, <1>9, <1>a DEF ourDestTickPending, PendingHeld, SendHeld, Used
  <2>2. \A d \in Slots : /\ conn'[d].used = conn[d].used /\ conn'[d].handle = conn[d].handle
                         /\ conn'[d].pending = IF d = c THEN conn[d].pending \ {s} ELSE conn[d].pending
    <3>1. conn' = [conn EXCEPT ![c].pending = @ \ {s}]
      BY <1>9 DEF ourDestTickPending
    <3> HIDE DEF c
    <3> QED BY <1>0, <2>1, <3>1 DEF Conn
  <2>3. ASSUME NEW d \in Slots PROVE conn'[d].pending \subseteq conn[d].pending \ {s}
    <3>1. CASE d = c
      BY <2>2, <3>1
    <3>2. CASE d # c
      <4>1. s \notin conn[d].pending
        BY <1>a, <3>2 DEF PendingHeld
      <4> QED BY <2>2, <3>2, <4>1
    <3> QED BY <3>1, <3>2
  <2>4. CASE ourDestTrySend(c, s)
    BY <2>1, <2>2, <2>3, <2>4, TrySendHeld
  <2>5. CASE told' = OutResult(told, s, "failed") /\ UNCHANGED <<receipts, mr>>
    <3>1. "failed" \in Words
      BY DEF Words
    <3>2. /\ OutResult(told, s, "failed") \in [Sends -> Seq(Words)]
          /\ OutResult(told, s, "failed")[s] = <<"failed">>
          /\ \A z \in Sends \ {s} : OutResult(told, s, "failed")[z] = told[z]
      BY <1>a, <2>1, <3>1, ToldOne
    <3>3. /\ told' \in [Sends -> Seq(Words)] /\ told'[s] # <<>>
          /\ \A z \in Sends \ {s} : told'[z] = told[z]
      BY <2>5, <3>2, OneWord
    <3>4. ASSUME NEW z \in Sends PROVE SendHeld(z)'
      <4>1. CASE z = s
        BY <1>0, <2>1, <2>2, <3>3, <4>1 DEF SendHeld, Used
      <4>2. CASE z # s
        <5>1. told'[z] = told[z] /\ mr'[z] = mr[z] /\ asked'[z] = asked[z] /\ gone' = gone
              /\ SendHeld(z) /\ asked[z] \in Slots \cup {NoConn}
          BY <1>0, <1>a, <2>1, <2>5, <3>3, <4>2
        <5> QED BY <2>2, <5>1 DEF SendHeld
      <4> QED BY <4>1, <4>2
    <3>5. PendingHeld'
      BY <1>0, <1>a, <2>1, <2>2, <2>3, <3>3 DEF PendingHeld, Conn
    <3>6. ASSUME NEW r \in receipts PROVE ReceiptHeld(r)'
      <4>1. r.conn \in Slots /\ r.send \in Sends /\ ReceiptHeld(r)
        BY <1>a DEF Used
      <4>2. r.send # s
        BY <2>1, <4>1 DEF ReceiptHeld, HasSaid, Contains
      <4> QED BY <2>1, <2>2, <3>3, <4>1, <4>2 DEF ReceiptHeld, HasSaid
    <3> QED BY <1>a, <2>1, <2>5, <3>3, <3>4, <3>5, <3>6 DEF SendsHeld
  <2> QED BY <1>9, <2>4, <2>5 DEF ourDestTickPending
<1>10. ASSUME NEW s \in Sends, NEW word \in Proofs, Settles(s, word),
              mr' = mr \/ mr' = [mr EXCEPT ![s] = "DELIVERED"],
              UNCHANGED <<conn, asked, gone, cancelled>>
       PROVE  SendsHeld'
  <2>1. /\ asked[s] # NoConn /\ HasSaid(s, "sent")
        /\ told' \in [Sends -> Seq(Words)]
        /\ told'[s] = Append(told[s], word)
        /\ \A z \in Sends \ {s} : told'[z] = told[z]
        /\ \A r \in receipts' : r \in receipts /\ r.send # s
    BY <1>10, SettleOne
  <2>2. told[s] # <<>> /\ told'[s] # <<>>
    <3>1. told[s] \in Seq(Words) /\ word \in Words
      BY <1>a DEF Words, Proofs
    <3> QED BY <2>1, <3>1, ContainsAppend DEF HasSaid, Contains
  <2>3. \A z \in Sends : SendHeld(z)'
    BY <1>0, <1>10, <1>a, <2>1, <2>2 DEF SendHeld
  <2>4. PendingHeld'
    BY <1>0, <1>10, <1>a, <2>1, <2>2 DEF PendingHeld, Conn
  <2>5. ASSUME NEW r \in receipts' PROVE ReceiptHeld(r)'
    BY <1>10, <1>a, <2>1 DEF ReceiptHeld, HasSaid
  <2> QED BY <1>10, <1>a, <2>1, <2>3, <2>4, <2>5 DEF SendsHeld
<1>11. ASSUME NEW s \in Sends, onOurDestReceiptDelivery(s) PROVE SendsHeld'
  <2>1. CASE UNCHANGED <<receipts, told>>
    <3>1. /\ UNCHANGED <<conn, asked, gone, cancelled, receipts, told>> /\ mr[s] # None
          /\ \A z \in Sends \ {s} : mr'[z] = mr[z]
      BY <1>0, <1>11, <2>1 DEF onOurDestReceiptDelivery, None
    <3>2. \A z \in Sends : SendHeld(z)'
      BY <1>a, <3>1 DEF SendHeld
    <3>3. PendingHeld' /\ \A r \in receipts : ReceiptHeld(r)'
      BY <1>a, <3>1 DEF PendingHeld, ReceiptHeld, HasSaid
    <3> QED BY <1>a, <3>1, <3>2, <3>3 DEF SendsHeld
  <2>2. CASE Settles(s, "delivered")
    BY <1>10, <1>11, <2>2 DEF onOurDestReceiptDelivery, Proofs
  <2>3. UNCHANGED <<receipts, told>> \/ Settles(s, "delivered")
    BY <1>11 DEF onOurDestReceiptDelivery
  <2> QED BY <2>1, <2>2, <2>3
<1>12. ASSUME NEW s \in Sends, receiptCulled(s) PROVE SendsHeld'
  <2>1. /\ UNCHANGED <<conn, asked, gone, cancelled, receipts, told>> /\ mr[s] # None
        /\ \A z \in Sends \ {s} : mr'[z] = mr[z]
    BY <1>0, <1>12 DEF receiptCulled, None
  <2>2. \A z \in Sends : SendHeld(z)'
    BY <1>a, <2>1 DEF SendHeld
  <2>3. PendingHeld' /\ \A r \in receipts : ReceiptHeld(r)'
    BY <1>a, <2>1 DEF PendingHeld, ReceiptHeld, HasSaid
  <2> QED BY <1>a, <2>1, <2>2, <2>3 DEF SendsHeld
<1>13. ASSUME NEW s \in Sends, ourDestReceiptTick(s) PROVE SendsHeld'
  BY <1>10, <1>13 DEF ourDestReceiptTick, Proofs
<1> QED
  BY <1>1, <1>2, <1>3, <1>4, <1>5, <1>6, <1>7, <1>8, <1>9, <1>11, <1>12, <1>13
  DEF Next, vars, ratchetsSwitched, intervalPasses, clockSet, onTransportConnect,
      onTransportDisconnect, onIfaceAux, announceDue, replayOurDestAnnounces, answerPathRequest

-----------------------------------------------------------------------------
(* Types.                                                                  *)

PendingBound == \A c \in Slots : Cardinality(conn[c].pending) <= RNSD_OUR_DEST_MAX_PENDING
Said == [announce : SUBSET Slots, gate : SUBSET Slots]

(* Sends are finitely many, and so are those of any set of them.           *)
LEMMA OneMoreSend ==
  ASSUME NEW P \in SUBSET Sends, NEW z
  PROVE  /\ IsFiniteSet(P) /\ Cardinality(P) \in Nat
         /\ Cardinality(P \ {z}) \in Nat /\ Cardinality(P \ {z}) <= Cardinality(P)
         /\ Cardinality(P \cup {z}) \in Nat /\ Cardinality(P \cup {z}) <= Cardinality(P) + 1
<1>1. IsFiniteSet(P) /\ Cardinality(P) \in Nat
  BY OwnAssumption, FS_Subset, FS_CardinalityType
<1>2. IsFiniteSet(P \ {z}) /\ Cardinality(P \ {z}) <= Cardinality(P)
  BY <1>1, FS_Subset
<1>3. /\ IsFiniteSet(P \cup {z})
      /\ Cardinality(P \cup {z}) = IF z \in P THEN Cardinality(P) ELSE Cardinality(P) + 1
  BY <1>1, FS_AddElement
<1>4. Cardinality(P \ {z}) \in Nat /\ Cardinality(P \cup {z}) \in Nat
  BY <1>2, <1>3, FS_CardinalityType
<1>5. Cardinality(P \cup {z}) <= Cardinality(P) + 1
  BY <1>1, <1>3
<1> QED BY <1>1, <1>2, <1>4, <1>5

(* A connection is given a new value, whose sends fit its table.           *)
LEMMA SlotGiven ==
  ASSUME conn \in [Slots -> Conn], PendingBound, NEW c \in Slots, NEW k \in Conn,
         Cardinality(k.pending) <= RNSD_OUR_DEST_MAX_PENDING, conn' = [conn EXCEPT ![c] = k]
  PROVE  conn' \in [Slots -> Conn] /\ PendingBound'
<1>1. conn' \in [Slots -> Conn]
  OBVIOUS
<1>2. ASSUME NEW d \in Slots
      PROVE  Cardinality(conn'[d].pending) <= RNSD_OUR_DEST_MAX_PENDING
  <2>1. CASE d = c
    <3>1. conn'[d] = k
      BY <2>1
    <3> QED BY <3>1
  <2>2. CASE d # c
    <3>1. conn'[d] = conn[d]
      BY <2>2
    <3> QED BY <3>1 DEF PendingBound
  <2> QED BY <2>1, <2>2
<1> QED BY <1>1, <1>2 DEF PendingBound

LEMMA ConnType ==
  IInv /\ [Next]_vars => conn' \in [Slots -> Conn] /\ PendingBound' /\ said' \in Said
<1> SUFFICES ASSUME IInv, [Next]_vars
             PROVE  conn' \in [Slots -> Conn] /\ PendingBound' /\ said' \in Said
  OBVIOUS
<1> DEFINE Good == conn' \in [Slots -> Conn] /\ PendingBound' /\ said' \in Said
<1>0. conn \in [Slots -> Conn] /\ PendingBound /\ said \in Said
  BY DEF IInv, Typed, TypeOK, PendingBound, Said
<1>a. Cardinality({}) <= RNSD_OUR_DEST_MAX_PENDING /\ RNSD_OUR_DEST_MAX_PENDING \in Nat
  BY OwnAssumption, FS_EmptySet
<1>b. asked \in [Sends -> Slots \cup {NoConn}]
  BY DEF IInv, Typed, TypeOK
<1>c. ASSUME NEW c \in Slots
      PROVE  /\ conn[c] \in Conn /\ conn[c].pending \in SUBSET Sends
             /\ Cardinality(conn[c].pending) <= RNSD_OUR_DEST_MAX_PENDING
  BY <1>0 DEF Conn, PendingBound
<1>1. CASE UNCHANGED <<conn, said>>
  BY <1>0, <1>1 DEF PendingBound
<1>2. ASSUME NEW h \in Handles, NEW identity \in BOOLEAN, onOurDestConnect(h, identity)
      PROVE  Good
  <2> DEFINE k(c) == [ourDestAlloc(c) EXCEPT !.used = TRUE, !.handle = h,
                        !.hosts = identity /\ Hosting = {}, !.pending = {}]
  <2>1. PICK c \in Slots \ Used : conn' = [conn EXCEPT ![c] = k(c)]
    BY <1>2 DEF onOurDestConnect
  <2>2. k(c) \in Conn /\ k(c).pending = {}
    BY <1>c DEF Conn, ourDestAlloc
  <2>3. said' = said
    BY <1>2 DEF onOurDestConnect
  <2> HIDE DEF k
  <2> QED BY <1>0, <1>a, <2>1, <2>2, <2>3, SlotGiven
<1>3. ASSUME NEW c \in Slots, onOurDestDisconnect(c) PROVE Good
  <2> DEFINE k == [conn[c] EXCEPT !.used = FALSE, !.handle = None, !.hosts = FALSE,
                                  !.pending = {}]
  <2>1. conn' = [conn EXCEPT ![c] = k]
    BY <1>3 DEF onOurDestDisconnect
  <2>2. k \in Conn /\ k.pending = {}
    BY <1>c DEF Conn
  <2>3. said' \in Said
    BY <1>0, <1>3 DEF onOurDestDisconnect, Said
  <2> HIDE DEF k
  <2> QED BY <1>0, <1>a, <2>1, <2>2, <2>3, SlotGiven
<1>4. CASE restart
  <2>1. conn' = [c \in Slots |-> Closed] /\ said' = [announce |-> {}, gate |-> {}]
    BY <1>4 DEF restart
  <2>2. Closed \in Conn /\ Closed.pending = {}
    BY DEF Closed, Conn
  <2>3. said' \in Said
    BY <2>1 DEF Said
  <2> QED BY <1>a, <2>1, <2>2, <2>3 DEF PendingBound
<1>5. ASSUME NEW c \in Slots, destAnnounce(c) PROVE Good
  <2> DEFINE k == [conn[c] EXCEPT !.want = TRUE]
  <2>1. conn' = [conn EXCEPT ![c] = k]
    BY <1>5 DEF destAnnounce
  <2>2. k \in Conn /\ k.pending = conn[c].pending
    BY <1>c DEF Conn
  <2>3. said' \in Said
    BY <1>0, <1>5 DEF destAnnounce, Said
  <2> HIDE DEF k
  <2> QED BY <1>0, <1>c, <2>1, <2>2, <2>3, SlotGiven
<1>6. ASSUME NEW c \in Slots, destSetAccept(c) PROVE Good
  <2> DEFINE k == [conn[c] EXCEPT !.accept = ~@]
  <2>1. conn' = [conn EXCEPT ![c] = k]
    BY <1>6 DEF destSetAccept
  <2>2. k \in Conn /\ k.pending = conn[c].pending
    BY <1>c DEF Conn
  <2>3. said' \in Said
    BY <1>0, <1>6 DEF destSetAccept, Said
  <2> HIDE DEF k
  <2> QED BY <1>0, <1>c, <2>1, <2>2, <2>3, SlotGiven
<1>7. ASSUME NEW c \in Slots, NEW s \in Sends, park(c, s) PROVE Good
  <2> DEFINE k == [conn[c] EXCEPT !.pending = @ \cup {s}]
  <2>1. conn' = [conn EXCEPT ![c] = k] /\ said' = said
    BY <1>7 DEF park
  <2>2. k \in Conn /\ k.pending = conn[c].pending \cup {s}
    BY <1>c DEF Conn
  <2>3. Cardinality(conn[c].pending) < RNSD_OUR_DEST_MAX_PENDING
    BY <1>7 DEF park
  <2>4. Cardinality(k.pending) <= RNSD_OUR_DEST_MAX_PENDING
    <3>1. /\ Cardinality(conn[c].pending) \in Nat
          /\ Cardinality(conn[c].pending \cup {s}) \in Nat
          /\ Cardinality(conn[c].pending \cup {s}) <= Cardinality(conn[c].pending) + 1
      BY <1>c, OneMoreSend
    <3> QED BY <1>a, <2>2, <2>3, <3>1
  <2> HIDE DEF k
  <2> QED BY <1>0, <2>1, <2>2, <2>4, SlotGiven
<1>8. ASSUME NEW c \in Slots, NEW s \in Sends, said' = said,
             conn' = [conn EXCEPT ![c].pending = @ \ {s}]
      PROVE  Good
  <2> DEFINE k == [conn[c] EXCEPT !.pending = @ \ {s}]
  <2>1. conn' = [conn EXCEPT ![c] = k] /\ said' = said
    BY <1>8
  <2>2. k \in Conn /\ k.pending = conn[c].pending \ {s}
    BY <1>c DEF Conn
  <2>3. Cardinality(k.pending) <= RNSD_OUR_DEST_MAX_PENDING
    <3>1. /\ Cardinality(conn[c].pending) \in Nat
          /\ Cardinality(conn[c].pending \ {s}) \in Nat
          /\ Cardinality(conn[c].pending \ {s}) <= Cardinality(conn[c].pending)
      BY <1>c, OneMoreSend
    <3> QED BY <1>a, <1>c, <2>2, <3>1
  <2> HIDE DEF k
  <2> QED BY <1>0, <2>1, <2>2, <2>3, SlotGiven
<1>9. ASSUME NEW c \in Slots, NEW s \in Sends, outCancel(c, s) PROVE Good
  BY <1>8, <1>9 DEF outCancel
<1>10. ASSUME NEW s \in Sends, ourDestTickPending(s) PROVE Good
  BY <1>b, <1>8, <1>10 DEF ourDestTickPending
<1> QED
  BY <1>1, <1>2, <1>3, <1>4, <1>5, <1>6, <1>7, <1>9, <1>10
  DEF Next, vars, ratchetsSwitched, intervalPasses, clockSet, onOurDestReceiptDelivery,
      receiptCulled, ourDestReceiptTick, onTransportConnect, onTransportDisconnect, outPacket,
      onIfaceAux, announceDue, replayOurDestAnnounces, answerPathRequest

Receipt == [conn : Slots, handle : Handles, send : Sends]
Fits(R) == R \subseteq Receipt /\ IsFiniteSet(R) /\ Cardinality(R) <= RNSD_MAX_PENDING_RECEIPTS
Stages == {None, "SENT", "DELIVERED", "CULLED"}

(* The table of receipts with fewer of them, and with one more.            *)
LEMMA FewerFit ==
  ASSUME NEW R, NEW Q, Fits(R), Q \subseteq R
  PROVE  Fits(Q)
<1>1. /\ IsFiniteSet(R) /\ R \subseteq Receipt
      /\ Cardinality(R) \in Nat /\ Cardinality(R) <= RNSD_MAX_PENDING_RECEIPTS
  BY FS_CardinalityType DEF Fits
<1>2. IsFiniteSet(Q) /\ Cardinality(Q) <= Cardinality(R)
  BY <1>1, FS_Subset
<1>3. Cardinality(Q) \in Nat /\ RNSD_MAX_PENDING_RECEIPTS \in Nat
  BY <1>2, FS_CardinalityType, OwnAssumption
<1>4. Cardinality(Q) <= RNSD_MAX_PENDING_RECEIPTS
  BY <1>1, <1>2, <1>3
<1> QED BY <1>1, <1>2, <1>4 DEF Fits

LEMMA OneMoreFits ==
  ASSUME NEW R, NEW r \in Receipt, Fits(R), Cardinality(R) < RNSD_MAX_PENDING_RECEIPTS
  PROVE  Fits(R \cup {r})
<1>1. /\ IsFiniteSet(R) /\ R \subseteq Receipt
      /\ Cardinality(R) \in Nat /\ RNSD_MAX_PENDING_RECEIPTS \in Nat
  BY FS_CardinalityType, OwnAssumption DEF Fits
<1>2. /\ IsFiniteSet(R \cup {r})
      /\ Cardinality(R \cup {r}) = IF r \in R THEN Cardinality(R) ELSE Cardinality(R) + 1
  BY <1>1, FS_AddElement
<1>3. Cardinality(R \cup {r}) <= RNSD_MAX_PENDING_RECEIPTS
  BY <1>1, <1>2
<1> QED BY <1>1, <1>2, <1>3 DEF Fits

(* A full table makes room for the receipt it takes.                       *)
LEMMA TrySendFits ==
  ASSUME NEW c \in Slots, NEW s \in Sends, conn[c].handle \in Handles, Fits(receipts),
         mr \in [Sends -> Stages], ourDestTrySend(c, s)
  PROVE  Fits(receipts') /\ mr' \in [Sends -> Stages]
<1>0. /\ IsFiniteSet(receipts) /\ Cardinality(receipts) <= RNSD_MAX_PENDING_RECEIPTS
      /\ Cardinality(receipts) \in Nat /\ RNSD_MAX_PENDING_RECEIPTS \in Nat \ {0}
  BY FS_CardinalityType, OwnAssumption DEF Fits
<1>1. NewReceipt(c, s) \in Receipt
  BY DEF NewReceipt, Receipt
<1>2. CASE UNCHANGED <<receipts, mr>>
  BY <1>2
<1>3. CASE ourDestReceiptTrack(c, s)
  <2>1. mr' \in [Sends -> Stages]
    BY <1>3 DEF ourDestReceiptTrack, Stages
  <2>2. CASE ~Full /\ Tracks(receipts, told, c, s)
    <3>1. receipts' = receipts \cup {NewReceipt(c, s)}
      BY <2>2 DEF Tracks, NewReceipt
    <3>2. Cardinality(receipts) < RNSD_MAX_PENDING_RECEIPTS
      BY <1>0, <2>2 DEF Full
    <3> QED BY <1>1, <2>1, <3>1, <3>2, OneMoreFits
  <2>3. CASE \E r \in receipts :
               Tracks(receipts \ {r}, ourDestReceiptSettle(told, r, "no proof"), c, s)
    <3>1. PICK r \in receipts : receipts' = (receipts \ {r}) \cup {NewReceipt(c, s)}
      BY <2>3 DEF Tracks, NewReceipt
    <3>2. Cardinality(receipts \ {r}) = Cardinality(receipts) - 1
      BY <1>0, FS_RemoveElement
    <3>3. Cardinality(receipts \ {r}) < RNSD_MAX_PENDING_RECEIPTS
      BY <1>0, <3>2
    <3>4. Fits(receipts \ {r})
      BY FewerFit
    <3> QED BY <1>1, <2>1, <3>1, <3>3, <3>4, OneMoreFits
  <2> QED BY <1>3, <2>2, <2>3 DEF ourDestReceiptTrack
<1> QED BY <1>2, <1>3 DEF ourDestTrySend

LEMMA ReceiptsType ==
  IInv /\ [Next]_vars =>
    /\ Fits(receipts') /\ mr' \in [Sends -> Stages]
    /\ asked' \in [Sends -> Slots \cup {NoConn}] /\ gone' \subseteq Sends
<1> SUFFICES ASSUME IInv, [Next]_vars
             PROVE  /\ Fits(receipts') /\ mr' \in [Sends -> Stages]
                    /\ asked' \in [Sends -> Slots \cup {NoConn}] /\ gone' \subseteq Sends
  OBVIOUS
<1> DEFINE Good == /\ Fits(receipts') /\ mr' \in [Sends -> Stages]
                   /\ asked' \in [Sends -> Slots \cup {NoConn}] /\ gone' \subseteq Sends
<1>0. /\ Fits(receipts) /\ mr \in [Sends -> Stages]
      /\ asked \in [Sends -> Slots \cup {NoConn}] /\ gone \subseteq Sends
  BY DEF IInv, Typed, TypeOK, Fits, Receipt, Stages
<1>a. \A c \in Used : c \in Slots /\ conn[c].handle \in Handles
  BY DEF IInv, Typed, TypeOK, Conn, Used, OneHosts
<1>b. ASSUME NEW s \in Sends, NEW word, Settles(s, word) PROVE Fits(receipts')
  <2>1. receipts' \subseteq receipts
    BY <1>b DEF Settles
  <2> QED BY <1>0, <2>1, FewerFit
<1>1. CASE UNCHANGED <<receipts, mr, asked, gone>>
  BY <1>0, <1>1
<1>2. ASSUME NEW c \in Slots, onOurDestDisconnect(c) PROVE Good
  <2>1. Fits(ourDestReceiptPurgeConn(c))
    BY <1>0, FewerFit DEF ourDestReceiptPurgeConn
  <2> QED BY <1>0, <1>2, <2>1 DEF onOurDestDisconnect, Made
<1>3. ASSUME NEW c \in Slots, NEW s \in Sends, outPacket(c, s) PROVE Good
  <2>1. /\ ourDestTrySend(c, s) /\ c \in Used /\ asked' = [asked EXCEPT ![s] = c]
        /\ gone' = gone
    BY <1>3 DEF outPacket
  <2>2. Fits(receipts') /\ mr' \in [Sends -> Stages]
    BY <1>0, <1>a, <2>1, TrySendFits
  <2> QED BY <1>0, <2>1, <2>2
<1>4. ASSUME NEW c \in Slots, NEW s \in Sends, park(c, s) PROVE Good
  BY <1>0, <1>4 DEF park
<1>5. ASSUME NEW c \in Slots, NEW s \in Sends, outCancel(c, s) PROVE Good
  BY <1>0, <1>5 DEF outCancel
<1>6. ASSUME NEW s \in Sends, ourDestTickPending(s) PROVE Good
  <2>1. asked[s] \in Used /\ UNCHANGED <<asked, gone>>
    BY <1>0, <1>6 DEF ourDestTickPending, IInv, SendsHeld, SendHeld, Used
  <2>2. Fits(receipts') /\ mr' \in [Sends -> Stages]
    BY <1>0, <1>6, <1>a, <2>1, TrySendFits DEF ourDestTickPending
  <2> QED BY <1>0, <2>1, <2>2
<1>7. ASSUME NEW s \in Sends, onOurDestReceiptDelivery(s) PROVE Good
  BY <1>0, <1>7, <1>b DEF onOurDestReceiptDelivery, Stages
<1>8. ASSUME NEW s \in Sends, receiptCulled(s) PROVE Good
  BY <1>0, <1>8 DEF receiptCulled, Stages
<1>9. ASSUME NEW s \in Sends, ourDestReceiptTick(s) PROVE Good
  BY <1>0, <1>9, <1>b DEF ourDestReceiptTick
<1>10. CASE restart
  <2>1. /\ receipts' = {} /\ mr' = [s \in Sends |-> IF mr[s] = "SENT" THEN None ELSE mr[s]]
        /\ asked' = [s \in Sends |-> NoConn]
        /\ gone' = gone \cup UNION {Made(c) : c \in Slots}
    BY <1>10 DEF restart
  <2>2. Fits({})
    BY <1>0, FewerFit
  <2>3. mr' \in [Sends -> Stages]
    BY <1>0, <2>1 DEF Stages
  <2>4. gone' \subseteq Sends
    BY <1>0, <2>1 DEF Made
  <2> QED BY <2>1, <2>2, <2>3, <2>4
<1> QED
  BY <1>1, <1>2, <1>3, <1>4, <1>5, <1>6, <1>7, <1>8, <1>9, <1>10
  DEF Next, vars, ratchetsSwitched, intervalPasses, clockSet, onOurDestConnect,
      destAnnounce, destSetAccept, sendVars, onTransportConnect, onTransportDisconnect,
      onIfaceAux, announceDue, replayOurDestAnnounces, answerPathRequest

AirTyped == iface \in [IfaceSlots -> BOOLEAN] /\ replay \subseteq IfaceSlots /\ unaired \subseteq Registered

LEMMA AirType == IInv /\ [Next]_vars => AirTyped'
<1> SUFFICES ASSUME IInv, [Next]_vars PROVE AirTyped'
  OBVIOUS
<1>0. AirTyped
  BY DEF IInv, Typed, TypeOK, AirTyped
<1>1. CASE UNCHANGED <<iface, replay, unaired>>
  BY <1>0, <1>1 DEF AirTyped, Registered
<1>2. CASE \E c \in Slots : onOurDestDisconnect(c) \/ destAnnounce(c)
  BY <1>0, <1>2 DEF AirTyped, Registered, onOurDestDisconnect, destAnnounce
<1>3. ASSUME NEW i \in IfaceSlots, onTransportConnect(i) PROVE AirTyped'
  <2>1. /\ iface' = [iface EXCEPT ![i] = TRUE] /\ replay' = replay \cup {i}
        /\ unaired' \subseteq unaired \cup {i}
    BY <1>3 DEF onTransportConnect, armDestReplay
  <2>2. Registered' = Registered \cup {i}
    BY <1>0, <2>1 DEF AirTyped, Registered
  <2> QED BY <1>0, <2>1, <2>2 DEF AirTyped
<1>4. ASSUME NEW i \in IfaceSlots, onTransportDisconnect(i) PROVE AirTyped'
  <2>1. /\ iface' = [iface EXCEPT ![i] = FALSE] /\ replay' = replay
        /\ unaired' = unaired \ {i}
    BY <1>4 DEF onTransportDisconnect
  <2>2. Registered' = Registered \ {i}
    BY <1>0, <2>1 DEF AirTyped, Registered
  <2> QED BY <1>0, <2>1, <2>2 DEF AirTyped
<1>5. ASSUME NEW I \in SUBSET IfaceSlots, onIfaceAux(I) PROVE AirTyped'
  BY <1>0, <1>5 DEF AirTyped, Registered, onIfaceAux, armDestReplay
<1>6. CASE announceDue
  BY <1>0, <1>6 DEF AirTyped, Registered, announceDue, armDestReplay
<1>7. CASE replayOurDestAnnounces
  BY <1>0, <1>7 DEF AirTyped, Registered, replayOurDestAnnounces
<1>8. CASE restart
  BY <1>8 DEF AirTyped, restart
<1> QED
  BY <1>1, <1>2, <1>3, <1>4, <1>5, <1>6, <1>7, <1>8
  DEF Next, vars, airVars, ratchetsSwitched, intervalPasses, clockSet, onOurDestConnect,
      destSetAccept, outPacket, park, outCancel, ourDestTickPending,
      onOurDestReceiptDelivery, receiptCulled, ourDestReceiptTick, answerPathRequest

Stamps == {"clock", "uptime", "boot"}
Dates == [key : Nat, dated : BOOLEAN, aged : BOOLEAN, hurried : BOOLEAN]
IsRing(r) == r = [keys |-> r.keys, at |-> r.at] /\ r.at \in Stamps
KeysTyped ==
  /\ IsRing(ring) /\ IsRing(disk) /\ newest \in Dates
  /\ enabled \in BOOLEAN /\ clock \in BOOLEAN /\ upLong \in BOOLEAN

LEMMA KeysType == IInv /\ [Next]_vars => KeysTyped'
<1> SUFFICES ASSUME IInv, [Next]_vars PROVE KeysTyped'
  OBVIOUS
<1>0. KeysTyped
  BY DEF IInv, Typed, TypeOK, KeysTyped, Ring, IsRing, Stamps, Dates
<1>a. IsRing(NoRing) /\ IsRing(enable_ratchets)
  <2>1. IsRing(NoRing)
    BY DEF IsRing, NoRing, Stamps
  <2>2. enable_ratchets = disk
    BY EnabledKeys DEF IInv, Typed, TypeOK, WindowHeld, Ring
  <2> QED BY <1>0, <2>1, <2>2 DEF KeysTyped
<1>b. ASSUME rotate_ratchets PROVE IsRing(ring') /\ IsRing(disk') /\ newest' \in Dates
  <2>1. CASE ~Rotates
    BY <1>0, <1>b, <2>1 DEF rotate_ratchets, KeysTyped
  <2>2. CASE Rotates
    <3> DEFINE kept == SubSeq(<<newest.key + 1>> \o ring.keys, 1,
                              Min({Len(ring.keys) + 1, RATCHET_COUNT}))
    <3>1. /\ ring' = [keys |-> kept, at |-> IF clock THEN "clock" ELSE "uptime"]
          /\ disk' = [keys |-> kept, at |-> IF clock THEN "clock" ELSE "boot"]
          /\ newest' = [key |-> newest.key + 1, dated |-> clock, aged |-> FALSE,
                         hurried |-> newest.hurried \/ (newest.dated /\ ~newest.aged)]
      BY <1>b, <2>2 DEF rotate_ratchets
    <3> HIDE DEF kept
    <3>2. newest.hurried \in BOOLEAN /\ newest.dated \in BOOLEAN /\ newest.aged \in BOOLEAN
          /\ newest.key + 1 \in Nat /\ clock \in BOOLEAN
      BY <1>0 DEF KeysTyped, Dates
    <3>3. newest' \in Dates
      BY <3>1, <3>2 DEF Dates
    <3>4. IsRing(ring') /\ IsRing(disk')
      BY <3>1 DEF IsRing, Stamps
    <3> QED BY <3>3, <3>4
  <2> QED BY <2>1, <2>2
<1>1. CASE UNCHANGED keyVars
  BY <1>0, <1>1 DEF KeysTyped, keyVars, IsRing
<1>2. CASE ratchetsSwitched
  BY <1>0, <1>2, <1>a DEF KeysTyped, ratchetsSwitched
<1>3. CASE intervalPasses
  <2>1. newest' \in Dates
    BY <1>0, <1>3 DEF KeysTyped, intervalPasses, Dates
  <2> QED BY <1>0, <1>3, <2>1 DEF KeysTyped, intervalPasses
<1>4. CASE clockSet
  BY <1>0, <1>4 DEF KeysTyped, clockSet
<1>5. ASSUME NEW h \in Handles, NEW identity \in BOOLEAN, onOurDestConnect(h, identity)
      PROVE  KeysTyped'
  BY <1>0, <1>5, <1>a DEF KeysTyped, onOurDestConnect
<1>6. ASSUME NEW c \in Slots, onOurDestDisconnect(c) PROVE KeysTyped'
  BY <1>0, <1>6, <1>a DEF KeysTyped, onOurDestDisconnect
<1>7. CASE replayOurDestAnnounces
  BY <1>0, <1>7, <1>b DEF KeysTyped, replayOurDestAnnounces
<1>8. CASE answerPathRequest
  BY <1>0, <1>8, <1>b DEF KeysTyped, answerPathRequest
<1>9. CASE restart
  BY <1>0, <1>9, <1>a DEF KeysTyped, restart
<1> QED
  BY <1>1, <1>2, <1>3, <1>4, <1>5, <1>6, <1>7, <1>8, <1>9
  DEF Next, vars, destAnnounce, destSetAccept, outPacket, park, outCancel,
      ourDestTickPending, onOurDestReceiptDelivery, receiptCulled, ourDestReceiptTick,
      onTransportConnect, onTransportDisconnect, onIfaceAux, announceDue

LEMMA RingType ==
  ASSUME NEW r, IsRing(r), NEW n, r.keys \in Seq(1 .. n)
  PROVE  r \in [keys : Seq(1 .. n), at : {"clock", "uptime", "boot"}]
BY DEF IsRing, Stamps

LEMMA TypedStep == IInv /\ [Next]_vars => Typed'
<1> SUFFICES ASSUME IInv, [Next]_vars PROVE Typed'
  OBVIOUS
<1>1. conn' \in [Slots -> Conn] /\ PendingBound' /\ said' \in Said
  BY ConnType
<1>2. /\ Fits(receipts') /\ mr' \in [Sends -> Stages]
      /\ asked' \in [Sends -> Slots \cup {NoConn}] /\ gone' \subseteq Sends
  BY ReceiptsType
<1>3. AirTyped'
  BY AirType
<1>4. KeysTyped'
  BY KeysType
<1>5. WindowHeld'
  BY WindowStep
<1>6. disk' \in Ring' /\ Len(disk'.keys) <= RATCHET_COUNT
  <2>1. disk'.keys \in Seq(1 .. newest'.key) /\ Len(disk'.keys) <= RATCHET_COUNT
    BY <1>5 DEF WindowHeld, NewestFirst, AsMany
  <2> QED BY <1>4, <2>1, RingType DEF KeysTyped, Ring
<1>7. ring' \in Ring' /\ Len(ring'.keys) <= RATCHET_COUNT
  <2>1. CASE Hosts'
    <3>1. ring'.keys \in Seq(1 .. newest'.key) /\ Len(ring'.keys) <= RATCHET_COUNT
      BY <1>5, <2>1 DEF WindowHeld, NewestFirst, AsMany
    <3> QED BY <1>4, <3>1, RingType DEF KeysTyped, Ring
  <2>2. CASE ~Hosts'
    <3>1. ring' = NoRing
      BY <1>5, <2>2 DEF WindowHeld
    <3>2. NoRing.keys \in Seq(1 .. newest'.key) /\ Len(NoRing.keys) = 0 /\ 0 <= RATCHET_COUNT
      BY OwnAssumption DEF NoRing
    <3> QED BY <1>4, <3>1, <3>2, RingType DEF KeysTyped, Ring
  <2> QED BY <2>1, <2>2
<1>8. TypeOK'
  BY <1>1, <1>2, <1>3, <1>6, <1>7
  DEF TypeOK, PendingBound, Fits, Receipt, Stages, AirTyped, Registered
<1> QED
  BY <1>1, <1>2, <1>3, <1>4, <1>8 DEF Typed, Said, Fits, AirTyped, KeysTyped, Dates

-----------------------------------------------------------------------------
LEMMA InvInit == Init => IInv
<1> SUFFICES ASSUME Init PROVE IInv
  OBVIOUS
<1>0. /\ RNSD_OUR_DEST_MAX_PENDING \in Nat /\ RNSD_MAX_PENDING_RECEIPTS \in Nat
      /\ RATCHET_COUNT \in Nat /\ IsFiniteSet({}) /\ Cardinality({}) = 0
  BY OwnAssumption, FS_EmptySet
<1>1. conn \in [Slots -> Conn] /\ \A c \in Slots : conn[c] = Closed
  BY DEF Init, Closed, Conn
<1>2. Used = {} /\ Hosting = {}
  BY <1>1 DEF Used, Hosting, Closed
<1>3. \A c \in Slots : conn[c].pending = {} /\ ~conn[c].hosts
  BY <1>1 DEF Closed
<1>4. ring = NoRing /\ disk = NoRing /\ newest = [key |-> 0, dated |-> FALSE, aged |-> FALSE,
                                                  hurried |-> FALSE]
  BY DEF Init
<1>5. NoRing \in Ring /\ Len(NoRing.keys) = 0 /\ NewestFirst(0, NoRing.keys)
  <2>1. <<>> \in Seq(1 .. 0) /\ Len(<<>>) = 0
    OBVIOUS
  <2>2. NoRing.keys = <<>> /\ NoRing \in [keys : Seq(1 .. 0), at : {"clock", "uptime", "boot"}]
    BY <2>1 DEF NoRing
  <2>3. newest.key = 0
    BY <1>4
  <2>4. NewestFirst(0, <<>>)
    BY <1>0, <2>1 DEF NewestFirst, AsMany
  <2> QED BY <2>1, <2>2, <2>3, <2>4 DEF Ring
<1>6. TypeOK
  <2>1. ring \in Ring /\ disk \in Ring /\ Len(ring.keys) <= RATCHET_COUNT /\ Len(disk.keys) <= RATCHET_COUNT
    <3>1. ring = NoRing /\ disk = NoRing
      BY <1>4
    <3>2. 0 <= RATCHET_COUNT
      BY <1>0
    <3>3. Len(NoRing.keys) <= RATCHET_COUNT
      BY <1>5, <3>2
    <3> QED BY <1>5, <3>1, <3>3
  <2>2. \A c \in Slots : Cardinality(conn[c].pending) <= RNSD_OUR_DEST_MAX_PENDING
    <3>1. Cardinality({}) <= RNSD_OUR_DEST_MAX_PENDING
      BY <1>0
    <3> QED BY <1>3, <3>1
  <2>3. Cardinality(receipts) <= RNSD_MAX_PENDING_RECEIPTS
    BY <1>0 DEF Init
  <2>4. /\ receipts = {} /\ mr = [s \in Sends |-> None] /\ asked = [s \in Sends |-> NoConn]
        /\ gone = {} /\ iface = [i \in IfaceSlots |-> FALSE] /\ replay = {} /\ unaired = {}
    BY DEF Init
  <2>5. /\ mr \in [Sends -> {None, "SENT", "DELIVERED", "CULLED"}]
        /\ asked \in [Sends -> Slots \cup {NoConn}] /\ iface \in [IfaceSlots -> BOOLEAN]
    BY <2>4
  <2> HIDE DEF Conn, Ring
  <2> QED BY <1>1, <2>1, <2>2, <2>3, <2>4, <2>5 DEF TypeOK
<1>7. Typed
  <2>1. newest \in [key : Nat, dated : BOOLEAN, aged : BOOLEAN, hurried : BOOLEAN]
    BY <1>4
  <2>2. said \in [announce : SUBSET Slots, gate : SUBSET Slots]
    BY DEF Init
  <2>3. iface \in [IfaceSlots -> BOOLEAN] /\ unaired \subseteq Registered
    BY DEF Init
  <2>4. /\ IsFiniteSet(receipts)
        /\ enabled \in BOOLEAN /\ clock \in BOOLEAN /\ upLong \in BOOLEAN
    BY <1>0 DEF Init
  <2> QED BY <1>6, <2>1, <2>2, <2>3, <2>4 DEF Typed
<1>8. OneHosts
  BY <1>2, <1>3 DEF OneHosts
<1>9. WindowHeld
  BY <1>2, <1>4, <1>5 DEF WindowHeld, Dated, Hosts
<1>10. SendsHeld
  BY <1>3 DEF Init, SendsHeld, SendHeld, PendingHeld
<1>11. SlotsForgetTheirPredecessor
  BY <1>2 DEF SlotsForgetTheirPredecessor
<1> QED BY <1>7, <1>8, <1>9, <1>10, <1>11 DEF IInv

LEMMA InvStep == IInv /\ [Next]_vars => IInv'
<1>1. IInv /\ [Next]_vars => Typed' /\ OneHosts'
  BY TypedStep, HostsStep
<1>2. IInv /\ [Next]_vars => WindowHeld' /\ SendsHeld' /\ SlotsForgetTheirPredecessor'
  BY WindowStep, SendsStep, SlotsStep
<1> QED BY <1>1, <1>2 DEF IInv

(* The parts of the invariant hold together in every state: who hosts,     *)
(* what is retained and stored, and what each consumer has been told.      *)
THEOREM Invariance == Spec => []IInv
<1>1. Init => IInv
  BY InvInit
<1>2. IInv /\ [Next]_vars => IInv'
  BY InvStep
<1> QED BY <1>1, <1>2, PTL DEF Spec

(* No table of rnsd's own destinations is ever filled past its size: the   *)
(* connections' waiting sends, the receipts (the slot is freed before it   *)
(* is taken, ourDestReceiptTrack), and the ratchets in memory and in store.*)
THEOREM OwnTypes == Spec => []TypeOK
<1>1. IInv => TypeOK
  BY DEF IInv, Typed
<1> QED BY <1>1, Invariance, PTL

(* A consumer that takes over a slot gets none of the announce or the gate *)
(* that was left in it (ourDestAlloc resets them, a disconnect does not).  *)
THEOREM SlotsForget == Spec => []SlotsForgetTheirPredecessor
<1>1. IInv => SlotsForgetTheirPredecessor
  BY DEF IInv
<1> QED BY <1>1, Invariance, PTL

(* Whenever ratchets are in use, the last RATCHET_COUNT of them all open   *)
(* mail, and none that a right clock dated is retired early: what is       *)
(* stored is the same window, whatever reconnects, switches and restarts   *)
(* come between two rotations (rotate_ratchets, enable_ratchets).          *)
THEOREM WindowRetained == Spec => []RetainedWindow
<1>1. IInv => RetainedWindow
  <2> SUFFICES ASSUME IInv PROVE RetainedWindow
    OBVIOUS
  <2>0. newest.key \in Nat /\ RATCHET_COUNT \in Nat /\ WindowHeld
    BY OwnAssumption DEF IInv, Typed
  <2>1. ~newest.hurried
    BY <2>0 DEF WindowHeld
  <2>2. ASSUME Hosting # {}, enabled, NEW k \in 1 .. newest.key, k + RATCHET_COUNT > newest.key
        PROVE  Contains(ring.keys, k)
    <3>1. /\ \A i \in 1 .. Len(ring.keys) : ring.keys[i] = newest.key + 1 - i
          /\ Len(ring.keys) \in Nat
          /\ Len(ring.keys) = newest.key \/ Len(ring.keys) = RATCHET_COUNT
      BY <2>0, <2>2 DEF WindowHeld, Hosts, NewestFirst, AsMany
    <3>2. newest.key + 1 - k \in 1 .. Len(ring.keys)
      BY <2>0, <2>2, <3>1
    <3>3. ring.keys[newest.key + 1 - k] = k
      BY <2>0, <3>1, <3>2
    <3> QED BY <3>2, <3>3 DEF Contains
  <2> QED BY <2>1, <2>2 DEF RetainedWindow
<1> QED BY <1>1, Invariance, PTL

-----------------------------------------------------------------------------
(* The sends, as their consumers see them, are what SendService promises.  *)

Owner(s) == IF s \in gone THEN "gone" ELSE IF asked[s] = NoConn THEN "none" ELSE "open"
ServiceStep(s) == Service!Asks(s) \/ (Service!Owned(s) /\ Service!Told(s))
Proved == {s \in Sends : mr[s] = "DELIVERED"}

(* What can become of one send in a step: nothing, its consumer goes, it   *)
(* is asked for, or its consumer is told one word more.                    *)
SameOwner(s) == asked'[s] = asked[s] /\ (s \in gone' <=> s \in gone)
Rests(s) == SameOwner(s) /\ told'[s] = told[s]
Left(s) ==
  /\ asked[s] # NoConn /\ s \notin gone /\ s \in gone'
  /\ told'[s] = told[s]
IsMade(s) ==
  /\ asked[s] = NoConn /\ s \notin gone /\ asked'[s] # NoConn /\ s \notin gone'
  /\ told'[s] \in {<<>>, <<"sent">>, <<"refused">>}
Hears(s, word) ==
  /\ SameOwner(s) /\ asked[s] # NoConn /\ s \notin gone
  /\ told'[s] = Append(told[s], word)
  /\ \/ word \in {"sent", "refused", "failed"} /\ told[s] = <<>>
     \/ /\ word \in Proofs /\ HasSaid(s, "sent")
        /\ ~HasSaid(s, "delivered") /\ ~HasSaid(s, "no proof")
        /\ word = "delivered" => s \in Proved'
     \/ word = "cancelled" /\ s \in cancelled'

LEMMA RestsIs == ASSUME NEW s \in Sends, Rests(s) PROVE ServiceStep(s)
BY DEF Rests, SameOwner, ServiceStep, Service!Owned, Service!Told

LEMMA LeftIs == ASSUME NEW s \in Sends, Left(s) PROVE ServiceStep(s)
BY DEF Left, ServiceStep, Service!Owned, Service!Told

LEMMA MadeIs == ASSUME NEW s \in Sends, IsMade(s) PROVE ServiceStep(s)
BY DEF IsMade, ServiceStep, Service!Asks, Service!Refusals

LEMMA HearsIs == ASSUME NEW s \in Sends, NEW word, Hears(s, word) PROVE ServiceStep(s)
<1>1. Service!Owned(s)
  BY DEF Hears, SameOwner, Service!Owned
<1>2. Service!May(s, word)
  <2>1. s \notin gone /\ asked[s] # NoConn
    BY DEF Hears
  <2>2. CASE word \in {"sent", "refused", "failed"} /\ told[s] = <<>>
    BY <2>1, <2>2 DEF Service!May, Service!Refusals
  <2>3. CASE /\ word \in Proofs /\ HasSaid(s, "sent")
             /\ ~HasSaid(s, "delivered") /\ ~HasSaid(s, "no proof")
             /\ word = "delivered" => s \in Proved'
    <3>1. /\ Service!Says(s, "sent") /\ ~Service!Says(s, "delivered")
          /\ ~Service!Says(s, "no proof")
      BY <2>3 DEF Service!Says, Service!Contains, HasSaid, Contains
    <3>2. CASE word = "no proof"
      BY <2>1, <3>1, <3>2 DEF Service!May
    <3>3. CASE word = "delivered"
      <4>1. s \in Proved'
        BY <2>3, <3>3
      <4> QED BY <2>1, <3>1, <3>3, <4>1 DEF Service!May, Proved
    <3> QED BY <2>3, <3>2, <3>3 DEF Proofs
  <2>4. CASE word = "cancelled" /\ s \in cancelled'
    BY <2>1, <2>4 DEF Service!May
  <2> QED BY <2>2, <2>3, <2>4 DEF Hears
<1>3. word \in {"sent", "refused", "failed", "delivered", "no proof", "cancelled"}
  BY DEF Hears, Proofs
<1>4. Service!Told(s)
  BY <1>2, <1>3 DEF Hears, Service!Told, Service!Refusals
<1> QED BY <1>1, <1>4 DEF ServiceStep

(* The others, when one send goes out or is refused.                       *)
LEMMA TrySendOthers ==
  ASSUME IInv, NEW c \in Used, NEW s \in Sends, told[s] = <<>>, ourDestTrySend(c, s),
         NEW z \in Sends \ {s}, SameOwner(z)
  PROVE  ServiceStep(z)
<1>1. CASE told'[z] = told[z]
  BY <1>1, RestsIs DEF Rests
<1>2. ASSUME NEW r \in receipts, r.send = z, told'[z] = Append(told[z], "no proof")
      PROVE  ServiceStep(z)
  <2>0. ReceiptHeld(r) /\ SendHeld(z)
    BY DEF IInv, SendsHeld
  <2>1. /\ asked[z] = r.conn /\ HasSaid(z, "sent")
        /\ ~HasSaid(z, "delivered") /\ ~HasSaid(z, "no proof")
    BY <1>2, <2>0 DEF ReceiptHeld, Proofs
  <2>2. asked[z] # NoConn /\ z \notin gone
    <3>1. r.conn # NoConn
      BY SettleTells DEF Used, Slots, NoConn
    <3>2. asked[z] # NoConn
      BY <2>1, <3>1
    <3> QED BY <2>0, <3>2 DEF SendHeld
  <2>3. Hears(z, "no proof")
    BY <1>2, <2>1, <2>2 DEF Hears, Proofs
  <2> QED BY <2>3, HearsIs
<1>3. \/ told'[z] = told[z]
      \/ told'[z] = Append(told[z], "no proof") /\ \E r \in receipts : r.send = z
  BY TrySend
<1> QED BY <1>1, <1>2, <1>3

LEMMA ToldStep ==
  ASSUME IInv, [Next]_vars
  PROVE  \A s \in Sends : ServiceStep(s)
<1>0. /\ told \in [Sends -> Seq(Words)] /\ \A s \in Sends : SendHeld(s)
      /\ asked \in [Sends -> Slots \cup {NoConn}] /\ mr \in [Sends -> Stages]
      /\ NoConn \notin Slots
  BY DEF IInv, Typed, TypeOK, SendsHeld, Stages, NoConn, Slots
<1>1. CASE UNCHANGED <<told, asked, gone>>
  BY <1>1, RestsIs DEF Rests, SameOwner
<1>2. ASSUME NEW c \in Slots, onOurDestDisconnect(c) PROVE \A s \in Sends : ServiceStep(s)
  <2> SUFFICES ASSUME NEW s \in Sends PROVE ServiceStep(s)
    OBVIOUS
  <2>1. CASE asked[s] = c
    <3>1. Left(s)
      BY <1>0, <1>2, <2>1 DEF onOurDestDisconnect, Made, Left, SendHeld
    <3> QED BY <3>1, LeftIs
  <2>2. CASE asked[s] # c
    <3>1. Rests(s)
      BY <1>0, <1>2, <2>2 DEF onOurDestDisconnect, Made, Rests, SameOwner
    <3> QED BY <3>1, RestsIs
  <2> QED BY <2>1, <2>2
<1>3. CASE restart
  <2> SUFFICES ASSUME NEW s \in Sends PROVE ServiceStep(s)
    OBVIOUS
  <2>1. CASE asked[s] \in Slots
    <3>1. Left(s)
      BY <1>0, <1>3, <2>1 DEF restart, Made, Left, SendHeld
    <3> QED BY <3>1, LeftIs
  <2>2. CASE asked[s] \notin Slots
    <3>1. Rests(s)
      BY <1>0, <1>3, <2>2 DEF restart, Made, Rests, SameOwner
    <3> QED BY <3>1, RestsIs
  <2> QED BY <2>1, <2>2
<1>4. ASSUME NEW c \in Slots, NEW s \in Sends, outPacket(c, s) PROVE \A z \in Sends : ServiceStep(z)
  <2>1. /\ c \in Used /\ asked[s] = NoConn /\ s \notin gone /\ told[s] = <<>> /\ gone' = gone
        /\ asked' = [asked EXCEPT ![s] = c] /\ ourDestTrySend(c, s)
    BY <1>0, <1>4 DEF outPacket, SendHeld
  <2>2. told'[s] \in {<<"sent">>, <<"refused">>}
    BY <2>1, TrySend
  <2>3. IsMade(s)
    BY <1>0, <2>1, <2>2 DEF IsMade
  <2>4. ASSUME NEW z \in Sends \ {s} PROVE ServiceStep(z)
    <3>1. SameOwner(z)
      BY <1>0, <2>1 DEF SameOwner
    <3> QED BY <2>1, <3>1, TrySendOthers
  <2> QED BY <2>3, <2>4, MadeIs
<1>5. ASSUME NEW c \in Slots, NEW s \in Sends, park(c, s) PROVE \A z \in Sends : ServiceStep(z)
  <2>1. /\ asked[s] = NoConn /\ s \notin gone /\ told[s] = <<>> /\ gone' = gone /\ told' = told
        /\ asked' = [asked EXCEPT ![s] = c]
    BY <1>0, <1>5 DEF park, SendHeld
  <2>2. IsMade(s)
    BY <1>0, <2>1 DEF IsMade
  <2>3. \A z \in Sends \ {s} : Rests(z)
    BY <1>0, <2>1 DEF Rests, SameOwner
  <2> QED BY <2>2, <2>3, MadeIs, RestsIs
<1>6. ASSUME NEW s \in Sends, NEW word \in Words, told' = OutResult(told, s, word),
             UNCHANGED <<asked, gone>>, asked[s] # NoConn,
             \/ word = "failed" /\ told[s] = <<>>
             \/ word = "cancelled" /\ s \in cancelled'
      PROVE  \A z \in Sends : ServiceStep(z)
  <2>1. /\ OutResult(told, s, word)[s] = Append(told[s], word)
        /\ \A z \in Sends \ {s} : OutResult(told, s, word)[z] = told[z]
    BY <1>0, ToldOne
  <2>2. Hears(s, word)
    BY <1>0, <1>6, <2>1 DEF Hears, SameOwner, SendHeld
  <2>3. \A z \in Sends \ {s} : Rests(z)
    BY <1>6, <2>1 DEF Rests, SameOwner
  <2> QED BY <2>2, <2>3, HearsIs, RestsIs
<1>7. ASSUME NEW c \in Slots, NEW s \in Sends, outCancel(c, s) PROVE \A z \in Sends : ServiceStep(z)
  BY <1>0, <1>6, <1>7 DEF outCancel, Words
<1>8. ASSUME NEW s \in Sends, ourDestTickPending(s) PROVE \A z \in Sends : ServiceStep(z)
  <2>1. /\ asked[s] \in Used /\ told[s] = <<>> /\ s \notin gone /\ UNCHANGED <<asked, gone>>
    BY <1>0, <1>8 DEF ourDestTickPending, IInv, SendsHeld, SendHeld, PendingHeld, Used
  <2>2. CASE ourDestTrySend(asked[s], s)
    <3>1. told'[s] \in {<<"sent">>, <<"refused">>}
      BY <2>1, <2>2, TrySend
    <3>2. Append(<<>>, "sent") = <<"sent">> /\ Append(<<>>, "refused") = <<"refused">>
      OBVIOUS
    <3>3. Hears(s, "sent") \/ Hears(s, "refused")
      BY <1>8, <2>1, <3>1, <3>2 DEF Hears, SameOwner, ourDestTickPending
    <3>4. \A z \in Sends \ {s} : SameOwner(z)
      BY <2>1 DEF SameOwner
    <3>5. \A z \in Sends \ {s} : ServiceStep(z)
      BY <2>1, <2>2, <3>4, TrySendOthers
    <3> QED BY <3>3, <3>5, HearsIs
  <2>3. CASE told' = OutResult(told, s, "failed")
    BY <1>6, <1>8, <2>1, <2>3 DEF ourDestTickPending, Words
  <2> QED BY <1>8, <2>2, <2>3 DEF ourDestTickPending
<1>9. ASSUME NEW s \in Sends, NEW word \in Proofs, Settles(s, word), UNCHANGED <<asked, gone>>,
             word = "delivered" => s \in Proved'
      PROVE  \A z \in Sends : ServiceStep(z)
  <2>1. /\ asked[s] # NoConn /\ HasSaid(s, "sent")
        /\ ~HasSaid(s, "delivered") /\ ~HasSaid(s, "no proof")
        /\ told'[s] = Append(told[s], word)
        /\ \A z \in Sends \ {s} : told'[z] = told[z]
    BY <1>9, SettleOne
  <2>2. Hears(s, word)
    BY <1>0, <1>9, <2>1 DEF Hears, SameOwner, SendHeld
  <2>3. \A z \in Sends \ {s} : Rests(z)
    BY <1>9, <2>1 DEF Rests, SameOwner
  <2> QED BY <2>2, <2>3, HearsIs, RestsIs
<1>10. ASSUME NEW s \in Sends, onOurDestReceiptDelivery(s) PROVE \A z \in Sends : ServiceStep(z)
  <2>1. s \in Proved' /\ UNCHANGED <<asked, gone>>
    BY <1>0, <1>10 DEF onOurDestReceiptDelivery, Proved
  <2>2. "delivered" \in Proofs
    BY DEF Proofs
  <2>3. told' = told \/ Settles(s, "delivered")
    BY <1>10 DEF onOurDestReceiptDelivery
  <2> QED BY <1>1, <1>9, <2>1, <2>2, <2>3
<1>11. ASSUME NEW s \in Sends, ourDestReceiptTick(s) PROVE \A z \in Sends : ServiceStep(z)
  BY <1>9, <1>11 DEF ourDestReceiptTick, Proofs
<1> QED
  BY <1>1, <1>2, <1>3, <1>4, <1>5, <1>7, <1>8, <1>10, <1>11
  DEF Next, vars, sendVars, ratchetsSwitched, intervalPasses, clockSet, onOurDestConnect,
      destAnnounce, destSetAccept, receiptCulled, onTransportConnect, onTransportDisconnect,
      onIfaceAux, announceDue, replayOurDestAnnounces, answerPathRequest

(* Nobody takes back a cancel or a proof.                                  *)
LEMMA KeptStep ==
  ASSUME IInv, [Next]_vars
  PROVE  cancelled \subseteq cancelled' /\ Proved \subseteq Proved'
<1>0. mr \in [Sends -> Stages]
  BY DEF IInv, Typed, TypeOK, Stages
<1>1. CASE UNCHANGED <<mr, cancelled>>
  BY <1>1 DEF Proved
<1>2. ASSUME NEW c \in Used, NEW s \in Sends, ourDestTrySend(c, s), told[s] = <<>>,
             cancelled' = cancelled
      PROVE  cancelled \subseteq cancelled' /\ Proved \subseteq Proved'
  <2>1. \A z \in Sends \ {s} : mr'[z] = mr[z]
    BY <1>2, TrySend
  <2>2. s \notin Proved
    BY <1>2 DEF IInv, SendsHeld, SendHeld, Proved, None
  <2> QED BY <1>2, <2>1, <2>2 DEF Proved
<1>3. ASSUME NEW c \in Slots, NEW s \in Sends, outPacket(c, s) \/ park(c, s) \/ outCancel(c, s)
      PROVE  cancelled \subseteq cancelled' /\ Proved \subseteq Proved'
  <2>1. CASE outPacket(c, s)
    BY <1>2, <2>1 DEF outPacket, IInv, SendsHeld, SendHeld
  <2> QED BY <1>3, <2>1 DEF park, outCancel, Proved
<1>4. ASSUME NEW s \in Sends, ourDestTickPending(s)
      PROVE  cancelled \subseteq cancelled' /\ Proved \subseteq Proved'
  <2>1. asked[s] \in Used /\ told[s] = <<>> /\ cancelled' = cancelled
    BY <1>4 DEF ourDestTickPending, IInv, Typed, TypeOK, SendsHeld, SendHeld, PendingHeld, Used
  <2> QED BY <1>1, <1>2, <1>4, <2>1 DEF ourDestTickPending
<1>5. ASSUME NEW s \in Sends, onOurDestReceiptDelivery(s) \/ receiptCulled(s)
      PROVE  cancelled \subseteq cancelled' /\ Proved \subseteq Proved'
  BY <1>0, <1>5 DEF onOurDestReceiptDelivery, receiptCulled, Proved
<1>6. CASE restart
  BY <1>0, <1>6 DEF restart, Proved
<1> QED
  BY <1>1, <1>3, <1>4, <1>5, <1>6
  DEF Next, vars, sendVars, ratchetsSwitched, intervalPasses, clockSet, onOurDestConnect,
      onOurDestDisconnect, destAnnounce, destSetAccept, ourDestReceiptTick, onTransportConnect,
      onTransportDisconnect, onIfaceAux, announceDue, replayOurDestAnnounces, answerPathRequest

(* Each send has one outcome and one word on its proof, told to whoever    *)
(* made it and to nobody else, though receipts are evicted and proofs come *)
(* late, and though a successor takes the slot and the handle.             *)
THEOREM SendsRefine == Spec => ImplementsService
<1>1. Init => Service!Init
  BY DEF Init, Service!Init, NoConn, None
<1>2. IInv /\ [Next]_vars => [Service!Next]_(Service!svars)
  BY ToldStep, KeptStep DEF ServiceStep, Service!Next, Proved
<1> QED BY <1>1, <1>2, Invariance, PTL DEF Spec, ImplementsService, Service!Spec
=============================================================================
