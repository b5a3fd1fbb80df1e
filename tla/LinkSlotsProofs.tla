--------------------------- MODULE LinkSlotsProofs ---------------------------
(***************************************************************************)
(* rnsd's tables agree, for any number of slots, links and attempts, and   *)
(* each request is answered once.  A handler is a chain of operators on    *)
(* the daemon's state, of which each changes one slot and what belongs to  *)
(* it: Turns says what such a change has to keep for the tables to agree   *)
(* after it, and each operator has a lemma that it does.                   *)
(***************************************************************************)
EXTENDS LinkSlots, FiniteSetTheorems, WellFoundedInduction, TLAPS

-----------------------------------------------------------------------------
(* Facts about numbers and sequences.                                      *)

(* A set of naturals that is not empty has a least one.                    *)
Less == {ss \in Nat \X Nat : ss[1] < ss[2]}

LEMMA LessIsWellFounded == IsWellFoundedOn(Less, Nat)
BY NatLessThanWellFounded DEF OpToRel, Less

LEMMA Least ==
  ASSUME NEW T, T \subseteq Nat, T # {}
  PROVE  \E x \in T : \A y \in T : x <= y
<1>1. PICK x \in T : \A y \in T : <<y, x>> \notin Less
  BY LessIsWellFounded, WFMin
<1>2. ASSUME NEW y \in T PROVE x <= y
  <2>1. x \in Nat /\ y \in Nat
    OBVIOUS
  <2>2. y < x => <<y, x>> \in Less
    BY <2>1 DEF Less
  <2> QED BY <1>1, <2>1, <2>2
<1> QED BY <1>2

LEMMA MinIsLeast ==
  ASSUME NEW T, T \subseteq Nat, T # {}
  PROVE  Min(T) \in T /\ \A y \in T : Min(T) <= y
BY Least DEF Min

LEMMA Joined ==
  ASSUME NEW S, NEW q \in Seq(S), NEW r \in Seq(S)
  PROVE  /\ q \o r \in Seq(S) /\ Len(q \o r) = Len(q) + Len(r)
         /\ \A k \in 1 .. Len(q) + Len(r) :
              (q \o r)[k] = IF k <= Len(q) THEN q[k] ELSE r[k - Len(q)]
OBVIOUS

LEMMA TakenOut ==
  ASSUME NEW S, NEW q \in Seq(S), NEW i \in 1 .. Len(q)
  PROVE  /\ RemoveAt(q, i) \in Seq(S)
         /\ DOMAIN RemoveAt(q, i) = 1 .. Len(q) - 1
         /\ \A k \in 1 .. Len(q) - 1 : RemoveAt(q, i)[k] = IF k < i THEN q[k] ELSE q[k + 1]
<1>0. Len(q) \in Nat /\ i \in Nat /\ i >= 1 /\ i <= Len(q)
  OBVIOUS
<1> DEFINE a == SubSeq(q, 1, i - 1)
           b == SubSeq(q, i + 1, Len(q))
<1>1. a \in Seq(S) /\ Len(a) = i - 1 /\ \A k \in 1 .. i - 1 : a[k] = q[k]
  OBVIOUS
<1>2. b \in Seq(S) /\ Len(b) = Len(q) - i /\ \A k \in 1 .. Len(q) - i : b[k] = q[i + k]
  OBVIOUS
<1>3. RemoveAt(q, i) = a \o b
  BY DEF RemoveAt
<1> HIDE DEF a, b
<1>4. a \o b \in Seq(S) /\ Len(a \o b) = Len(q) - 1
  <2>1. a \o b \in Seq(S) /\ Len(a \o b) = Len(a) + Len(b)
    BY <1>1, <1>2, Joined
  <2>2. (i - 1) + (Len(q) - i) = Len(q) - 1
    BY <1>0
  <2> QED BY <1>1, <1>2, <2>1, <2>2
<1>5. ASSUME NEW k \in 1 .. Len(q) - 1 PROVE (a \o b)[k] = IF k < i THEN q[k] ELSE q[k + 1]
  <2>1. (a \o b)[k] = IF k <= Len(a) THEN a[k] ELSE b[k - Len(a)]
    <3>1. k \in 1 .. Len(a) + Len(b)
      <4>1. (i - 1) + (Len(q) - i) = Len(q) - 1
        BY <1>0
      <4> QED BY <1>1, <1>2, <4>1
    <3> QED BY <1>1, <1>2, <3>1, Joined
  <2>2. CASE k < i
    <3>1. k <= i - 1 /\ k \in 1 .. i - 1
      BY <1>0, <2>2
    <3> QED BY <1>1, <2>1, <2>2, <3>1
  <2>3. CASE k >= i
    <3>1. k - (i - 1) \in 1 .. Len(q) - i /\ i + (k - (i - 1)) = k + 1 /\ ~(k <= i - 1) /\ ~(k < i)
      BY <1>0, <2>3
    <3>2. b[k - (i - 1)] = q[i + (k - (i - 1))]
      BY <1>2, <3>1
    <3> QED BY <1>1, <2>1, <3>1, <3>2
  <2>4. k \in Nat
    BY <1>0
  <2>5. k < i \/ k >= i
    BY <1>0, <2>4
  <2> QED BY <2>2, <2>3, <2>5
<1>6. DOMAIN (a \o b) = 1 .. Len(q) - 1
  BY <1>4
<1> QED BY <1>3, <1>4, <1>5, <1>6

-----------------------------------------------------------------------------
(***************************************************************************)
(* The daemon's state, part by part.                                       *)
(***************************************************************************)
Names == Requests \cup Resources
Outcomes == {"DONE", "RESPONSE", "FAILED"}
LinkRecord ==
  [status : {"NONE", "PENDING", "ACTIVE"}, asked : SUBSET Requests, carries : SUBSET Resources]
Shaped(n) ==
  /\ n = [slot |-> n.slot, idle |-> n.idle, link |-> n.link,
          handles |-> n.handles, told |-> n.told]
  /\ n.slot \in [Slots -> Slot]
  /\ n.link \in [Links -> LinkRecord]
  /\ n.told \in [Names -> Seq(Outcomes)]

(* What a slot has asked for or is to ask for, and what it has or is to    *)
(* send.                                                                   *)
Asks(c) == {c.req, c.pendReq} \ {None}
Has(c)  == {c.res, c.pendRes} \ {None}

(* One slot: a link that is coming up or is up; one resource and one       *)
(* request, on a link that is up; packets accounted for.                   *)
Alone(c) ==
  /\ c \in Slot
  /\ c.state = "FREE" => c = Empty
  /\ c.tag = None => c.state = "FREE"
  /\ c.link # None => c.state \in {"ESTABLISHING", "ACTIVE"}
  /\ c.state = "ACTIVE" => c.link # None
  /\ c.res # None => c.state = "ACTIVE" /\ c.pendRes # c.res
  /\ c.req # None => c.state \in {"ACTIVE", "CLOSED"} /\ c.pendReq = None
  /\ c.state = "AWAITING_PATH" => c.attempts < RNSD_LINK_ATTEMPTS
  /\ c.proofs => c.sent = c.proven + c.unproven + (IF c.receipt THEN 1 ELSE 0)

(* Two slots have nothing in common.                                       *)
Apart(c, d) ==
  /\ c.tag # None => c.tag # d.tag
  /\ c.link # None => c.link # d.link
  /\ Asks(c) \cap Asks(d) = {}
  /\ Has(c) \cap Has(d) = {}

(* A slot and its link.                                                    *)
Linked(c, k) ==
  \/ /\ c.state = "ESTABLISHING" /\ k.status = "PENDING"
     /\ k.asked = {} /\ k.carries = {}
  \/ /\ c.state = "ACTIVE" /\ k.status = "ACTIVE"
     /\ k.carries = {c.res} \ {None}

(* The slots in use, once each.                                            *)
Lists(q, S) ==
  /\ q \in Seq(Slots)
  /\ \A i, j \in DOMAIN q : q[i] = q[j] => i = j
  /\ {q[i] : i \in DOMAIN q} = S

Said(x) == IF x \in Requests THEN {<<"RESPONSE">>, <<"FAILED">>} ELSE {<<"DONE">>, <<"FAILED">>}

SlotsHeld(n) ==
  /\ \A s \in Slots : Alone(n.slot[s])
  /\ \A s, o \in Slots : s # o => Apart(n.slot[s], n.slot[o])
LinksHeld(n) ==
  /\ \A s \in Slots : n.slot[s].link # None => Linked(n.slot[s], n.link[n.slot[s].link])
  /\ \A l \in Links : (\A s \in Slots : n.slot[s].link # l) => n.link[l] = NoLink
HandlesHeld(n) ==
  /\ n.handles = {t \in Tags \cup InTags : \E s \in Slots : n.slot[s].handle /\ n.slot[s].tag = t}
WordsHeld(n) ==
  /\ \A x \in Names : n.told[x] = <<>> \/ n.told[x] \in Said(x)
  /\ \A s \in Slots : \A x \in Asks(n.slot[s]) \cup Has(n.slot[s]) : n.told[x] = <<>>
AskedHeld(n) ==
  \A l \in Links : \A r \in n.link[l].asked : Issued(n, r)
Core(n) ==
  /\ Shaped(n) /\ SlotsHeld(n) /\ LinksHeld(n) /\ HandlesHeld(n) /\ WordsHeld(n)
  /\ AskedHeld(n) /\ Lists(n.idle, Used(n))
(* What waited for a link that is up was sent.                             *)
Flushed(n) == \A s \in Slots : n.slot[s].state = "ACTIVE" => n.slot[s].pendReq = None

IInv ==
  /\ Core(rnsd) /\ Flushed(rnsd)
  /\ route \in BOOLEAN /\ replied \subseteq Requests /\ calls \in 0 .. MaxCalls
  /\ \A r \in replied : Issued(rnsd, r)

-----------------------------------------------------------------------------
(* The slots by their last activity.                                       *)

LEMMA NoneListed == Lists(<<>>, {})
BY DEF Lists

LEMMA LongestIdle ==
  ASSUME NEW q, NEW S, Lists(q, S), S # {}
  PROVE  Head(q) \in S
BY DEF Lists

LEMMA ListLength ==
  ASSUME NEW q, NEW S, Lists(q, S)
  PROVE  ToSet(q) = S /\ Len(q) = Cardinality(S)
<1>1. q \in Seq(Slots) /\ DOMAIN q = 1 .. Len(q) /\ Len(q) \in Nat
  BY DEF Lists
<1>2. q = [i \in 1 .. Len(q) |-> q[i]]
  BY <1>1
<1>3. q \in Bijection(1 .. Len(q), S)
  <2>1. \A i \in 1 .. Len(q) : q[i] \in S
    BY <1>1 DEF Lists
  <2>2. q \in [1 .. Len(q) -> S]
    BY <1>2, <2>1
  <2>3. \A i, j \in 1 .. Len(q) : q[i] = q[j] => i = j
    BY <1>1 DEF Lists
  <2>4. \A x \in S : \E i \in 1 .. Len(q) : q[i] = x
    BY <1>1 DEF Lists
  <2> QED BY <2>2, <2>3, <2>4 DEF Bijection, Injection, Surjection, IsInjective
<1>4. IsFiniteSet(1 .. Len(q)) /\ Cardinality(1 .. Len(q)) = Len(q)
  <2>1. /\ IsFiniteSet(1 .. Len(q))
        /\ Cardinality(1 .. Len(q)) = IF 1 > Len(q) THEN 0 ELSE Len(q) - 1 + 1
    BY <1>1, FS_Interval
  <2>2. (IF 1 > Len(q) THEN 0 ELSE Len(q) - 1 + 1) = Len(q)
    BY <1>1
  <2> QED BY <2>1, <2>2
<1>5. Cardinality(1 .. Len(q)) = Cardinality(S)
  <2>1. ExistsBijection(1 .. Len(q), S)
    BY <1>3 DEF ExistsBijection
  <2> QED BY <1>4, <2>1, FS_Bijection
<1>6. ToSet(q) = S
  BY DEF ToSet, Lists
<1> QED BY <1>4, <1>5, <1>6

LEMMA ListedLast ==
  ASSUME NEW q, NEW S, Lists(q, S), NEW s \in Slots, s \notin S
  PROVE  Lists(Append(q, s), S \cup {s})
<1> DEFINE t == Append(q, s)
           k == Len(q)
<1>1. q \in Seq(Slots) /\ k \in Nat /\ DOMAIN q = 1 .. k
  BY DEF Lists
<1>2. t \in Seq(Slots) /\ DOMAIN t = (1 .. k) \cup {k + 1} /\ k + 1 \notin 1 .. k
  BY <1>1
<1>3. t[k + 1] = s /\ \A i \in 1 .. k : t[i] = q[i]
  BY <1>1
<1> HIDE DEF t, k
<1>4. \A i, j \in DOMAIN t : t[i] = t[j] => i = j
  BY <1>1, <1>2, <1>3 DEF Lists
<1>5. {t[i] : i \in DOMAIN t} = S \cup {s}
  BY <1>1, <1>2, <1>3 DEF Lists
<1> QED BY <1>2, <1>4, <1>5 DEF Lists, t

LEMMA Unlisted ==
  ASSUME NEW q, NEW S, Lists(q, S), NEW s \in S
  PROVE  Lists(Without(q, s), S \ {s})
<1> DEFINE i == CHOOSE i \in DOMAIN q : q[i] = s
           n == Len(q)
           t == RemoveAt(q, i)
           old(k) == IF k < i THEN k ELSE k + 1
           new(k) == IF k < i THEN k ELSE k - 1
<1>1. q \in Seq(Slots) /\ n \in Nat /\ DOMAIN q = 1 .. n
  BY DEF Lists
<1>2. i \in DOMAIN q /\ q[i] = s
  BY DEF Lists
<1>3. Without(q, s) = t
  BY DEF Without
<1> HIDE DEF i
<1>4. t \in Seq(Slots) /\ DOMAIN t = 1 .. n - 1
  BY <1>1, <1>2, TakenOut
<1>5. ASSUME NEW k \in DOMAIN t
      PROVE  old(k) \in DOMAIN q /\ old(k) # i /\ t[k] = q[old(k)]
  <2>1. k \in 1 .. n - 1
    BY <1>4
  <2>2. t[k] = IF k < i THEN q[k] ELSE q[k + 1]
    BY <1>1, <1>2, <2>1, TakenOut
  <2>3. old(k) \in 1 .. n /\ old(k) # i
    BY <1>1, <1>2, <2>1
  <2> QED BY <1>1, <2>2, <2>3
<1>6. ASSUME NEW k \in DOMAIN q, k # i
      PROVE  new(k) \in DOMAIN t /\ t[new(k)] = q[k]
  <2>1. new(k) \in DOMAIN t /\ old(new(k)) = k
    BY <1>1, <1>2, <1>4, <1>6
  <2> QED BY <1>5, <2>1
<1>7. ASSUME NEW j \in DOMAIN t, NEW k \in DOMAIN t, old(j) = old(k) PROVE j = k
  BY <1>1, <1>2, <1>4, <1>7
<1> HIDE DEF t, old, new
<1>8. ASSUME NEW j \in DOMAIN t, NEW k \in DOMAIN t, t[j] = t[k] PROVE j = k
  <2>1. old(j) = old(k)
    BY <1>5, <1>8 DEF Lists
  <2> QED BY <1>7, <2>1
<1>9. ASSUME NEW k \in DOMAIN t PROVE t[k] \in S \ {s}
  BY <1>2, <1>5 DEF Lists
<1>10. ASSUME NEW x \in S \ {s} PROVE \E k \in DOMAIN t : t[k] = x
  <2>1. PICK k \in DOMAIN q : q[k] = x
    BY DEF Lists
  <2>2. k # i
    BY <1>2, <2>1
  <2> QED BY <1>6, <2>1, <2>2
<1>11. {t[k] : k \in DOMAIN t} = S \ {s}
  BY <1>9, <1>10
<1> QED BY <1>3, <1>4, <1>8, <1>11 DEF Lists

LEMMA Touched ==
  ASSUME NEW q, NEW S, Lists(q, S), S \subseteq Slots, NEW s \in S
  PROVE  Lists(Append(Without(q, s), s), S)
<1>1. Lists(Append(Without(q, s), s), (S \ {s}) \cup {s})
  BY Unlisted, ListedLast
<1>2. (S \ {s}) \cup {s} = S
  OBVIOUS
<1> QED BY <1>1, <1>2

-----------------------------------------------------------------------------
(* One slot changes.                                                       *)

SlotTurns(n, m, s, c) ==
  /\ m.slot = [n.slot EXCEPT ![s] = c]
  /\ Alone(c)
  /\ \A o \in Slots \ {s} : Apart(c, n.slot[o])
LinkTurns(n, m, d, c) ==
  /\ \A l \in Links : l # d.link /\ l # c.link => m.link[l] = n.link[l]
  /\ c.link # None => Linked(c, m.link[c.link])
  /\ d.link # None /\ d.link # c.link => m.link[d.link] = NoLink
HandleTurns(n, m, d, c) ==
  m.handles = (n.handles \ (IF d.handle THEN {d.tag} ELSE {}))
                \cup (IF c.handle THEN {c.tag} ELSE {})
WordTurns(n, m, s, c) ==
  /\ \A x \in Names :
       \/ m.told[x] = n.told[x]
       \/ /\ n.told[x] = <<>> /\ m.told[x] \in Said(x) /\ x \notin Asks(c) \cup Has(c)
          /\ \A o \in Slots \ {s} : x \notin Asks(n.slot[o]) \cup Has(n.slot[o])
  /\ \A x \in Asks(c) \cup Has(c) : n.told[x] = <<>>
AskTurns(n, m, d, c) ==
  /\ \A l \in Links : m.link[l].asked \subseteq n.link[l].asked \cup Asks(c)
  /\ \A r \in Asks(d) \ Asks(c) : m.told[r] # <<>>
Turns(n, m, s, c) ==
  /\ Shaped(m)
  /\ SlotTurns(n, m, s, c) /\ LinkTurns(n, m, n.slot[s], c) /\ HandleTurns(n, m, n.slot[s], c)
  /\ WordTurns(n, m, s, c) /\ AskTurns(n, m, n.slot[s], c)
  /\ Lists(m.idle, Used(m))

LEMMA ApartBoth ==
  ASSUME NEW c, NEW d, Apart(c, d)
  PROVE  Apart(d, c)
BY DEF Apart

(* A slot that takes nothing new stays apart.                              *)
Narrower(c, d) ==
  /\ c.tag = d.tag \/ c.tag = None
  /\ c.link = d.link \/ c.link = None
  /\ Asks(c) \subseteq Asks(d) /\ Has(c) \subseteq Has(d)
LEMMA NarrowerApart ==
  ASSUME NEW c, NEW d, Narrower(c, d), NEW e, Apart(d, e)
  PROVE  Apart(c, e)
BY DEF Narrower, Apart

LEMMA SlotNames ==
  ASSUME NEW c \in Slot
  PROVE  Asks(c) \subseteq Requests /\ Has(c) \subseteq Resources /\ Asks(c) \cup Has(c) \subseteq Names
BY DEF Slot, Asks, Has, Names, Resources

LEMMA SlotIs ==
  ASSUME NEW n, Shaped(n), NEW s \in Slots
  PROVE  n.slot[s] \in Slot
BY DEF Shaped

LEMMA IssuedIs ==
  ASSUME NEW n, Shaped(n), SlotsHeld(n), NEW r \in Requests
  PROVE  Issued(n, r) <=> n.told[r] # <<>> \/ \E s \in Slots : r \in Asks(n.slot[s])
<1>1. r # None
  BY SlotAssumption
<1>2. ASSUME NEW s \in Slots, r \in Asks(n.slot[s]) PROVE s \in Used(n)
  <2>1. CASE n.slot[s].state = "FREE"
    <3>1. n.slot[s] = Empty
      BY <2>1 DEF SlotsHeld, Alone
    <3> QED BY <1>1, <1>2, <3>1 DEF Asks, Empty
  <2> QED BY <2>1 DEF Used
<1> QED BY <1>1, <1>2 DEF Issued, Asks, Used

Only(n, m, s, c) == m.slot[s] = c /\ \A o \in Slots \ {s} : m.slot[o] = n.slot[o]
LEMMA SlotsTurn ==
  ASSUME NEW n, NEW m, NEW s \in Slots, NEW c, SlotsHeld(n), Shaped(n), SlotTurns(n, m, s, c)
  PROVE  SlotsHeld(m) /\ Only(n, m, s, c)
<1>1. m.slot[s] = c /\ \A o \in Slots \ {s} : m.slot[o] = n.slot[o]
  BY DEF SlotTurns, Shaped
<1>2. \A o \in Slots : Alone(m.slot[o])
  BY <1>1 DEF SlotTurns, SlotsHeld
<1>3. ASSUME NEW o \in Slots, NEW p \in Slots, o # p PROVE Apart(m.slot[o], m.slot[p])
  <2>1. CASE o = s
    BY <1>1, <1>3, <2>1 DEF SlotTurns
  <2>2. CASE p = s
    <3>1. Apart(c, n.slot[o])
      BY <1>3, <2>2 DEF SlotTurns
    <3> QED BY <1>1, <1>3, <2>2, <3>1, ApartBoth
  <2>3. CASE o # s /\ p # s
    BY <1>1, <1>3, <2>3 DEF SlotsHeld
  <2> QED BY <2>1, <2>2, <2>3
<1> QED BY <1>1, <1>2, <1>3 DEF SlotsHeld, Only

LEMMA LinksTurn ==
  ASSUME NEW n, NEW m, NEW s \in Slots, NEW c, SlotsHeld(n), Shaped(n), LinksHeld(n),
         SlotTurns(n, m, s, c), LinkTurns(n, m, n.slot[s], c)
  PROVE  LinksHeld(m)
<1>a. Only(n, m, s, c) /\ SlotsHeld(m)
  BY SlotsTurn
<1>1. m.slot[s] = c /\ \A o \in Slots \ {s} : m.slot[o] = n.slot[o]
  BY <1>a DEF Only
<1>2. \A o \in Slots : n.slot[o].link \in Links \cup {None}
  BY SlotIs DEF Slot
<1>3. ASSUME NEW o \in Slots, m.slot[o].link # None
      PROVE  Linked(m.slot[o], m.link[m.slot[o].link])
  <2>1. CASE o = s
    BY <1>1, <1>3, <2>1 DEF LinkTurns
  <2>2. CASE o # s
    <3>1. n.slot[o].link \in Links /\ Linked(n.slot[o], n.link[n.slot[o].link])
      BY <1>1, <1>2, <1>3, <2>2 DEF LinksHeld
    <3>2. n.slot[o].link # n.slot[s].link
      BY <2>2, <3>1, <1>1, <1>3 DEF SlotsHeld, Apart
    <3>3. n.slot[o].link # c.link
      BY <1>1, <1>3, <2>2 DEF SlotTurns, Apart
    <3> QED BY <1>1, <2>2, <3>1, <3>2, <3>3 DEF LinkTurns
  <2> QED BY <2>1, <2>2
<1>4. ASSUME NEW l \in Links, \A o \in Slots : m.slot[o].link # l PROVE m.link[l] = NoLink
  <2>1. c.link # l
    BY <1>1, <1>4
  <2>2. CASE n.slot[s].link = l
    <3>1. l # None
      BY DEF Links, None
    <3> QED BY <2>1, <2>2, <3>1 DEF LinkTurns
  <2>3. CASE n.slot[s].link # l
    <3>1. \A o \in Slots : n.slot[o].link # l
      BY <1>1, <1>4, <2>3
    <3>2. n.link[l] = NoLink
      BY <3>1 DEF LinksHeld
    <3> QED BY <2>1, <2>3, <3>2 DEF LinkTurns
  <2> QED BY <2>2, <2>3
<1> QED BY <1>3, <1>4 DEF LinksHeld

LEMMA HandlesTurn ==
  ASSUME NEW n, NEW m, NEW s \in Slots, NEW c, SlotsHeld(n), Shaped(n), HandlesHeld(n),
         SlotTurns(n, m, s, c), HandleTurns(n, m, n.slot[s], c)
  PROVE  HandlesHeld(m)
<1>a. Only(n, m, s, c) /\ SlotsHeld(m)
  BY SlotsTurn
<1>1. m.slot[s] = c /\ \A o \in Slots \ {s} : m.slot[o] = n.slot[o]
  BY <1>a DEF Only
<1> DEFINE d == n.slot[s]
<1>2. ASSUME NEW e, Alone(e), e.handle PROVE e.tag \in Tags \cup InTags /\ e.tag # None
  BY <1>2, SlotAssumption DEF Alone, Slot, Empty
<1>3. ASSUME NEW t \in Tags \cup InTags
      PROVE  t \in m.handles <=> \E o \in Slots : m.slot[o].handle /\ m.slot[o].tag = t
  <2>1. ASSUME t \in m.handles PROVE \E o \in Slots : m.slot[o].handle /\ m.slot[o].tag = t
    <3>1. CASE c.handle /\ t = c.tag
      BY <1>1, <3>1
    <3>2. CASE t \in n.handles /\ ~(d.handle /\ t = d.tag)
      <4>1. PICK o \in Slots : n.slot[o].handle /\ n.slot[o].tag = t
        BY <3>2 DEF HandlesHeld
      <4>2. o # s
        BY <3>2, <4>1
      <4> QED BY <1>1, <4>1, <4>2
    <3> QED BY <2>1, <3>1, <3>2 DEF HandleTurns
  <2>2. ASSUME NEW o \in Slots, m.slot[o].handle, m.slot[o].tag = t PROVE t \in m.handles
    <3>1. CASE o = s
      BY <1>1, <2>2, <3>1 DEF HandleTurns
    <3>2. CASE o # s
      <4>1. n.slot[o].handle /\ n.slot[o].tag = t /\ t \in n.handles
        BY <1>1, <2>2, <3>2 DEF HandlesHeld
      <4>2. t # None
        BY SlotAssumption
      <4>3. Apart(n.slot[o], d)
        BY <3>2 DEF SlotsHeld
      <4>4. t # d.tag
        BY <4>1, <4>2, <4>3 DEF Apart
      <4> HIDE DEF d
      <4> QED BY <4>1, <4>4 DEF HandleTurns, d
    <3> QED BY <3>1, <3>2
  <2> QED BY <2>1, <2>2
<1>4. m.handles \subseteq Tags \cup InTags
  <2>1. Alone(c)
    BY DEF SlotTurns
  <2> QED BY <1>2, <2>1 DEF HandleTurns, HandlesHeld
<1> QED BY <1>3, <1>4 DEF HandlesHeld

LEMMA WordsTurn ==
  ASSUME NEW n, NEW m, NEW s \in Slots, NEW c, SlotsHeld(n), Shaped(n), WordsHeld(n),
         SlotTurns(n, m, s, c), WordTurns(n, m, s, c)
  PROVE  WordsHeld(m)
<1>a. Only(n, m, s, c) /\ SlotsHeld(m)
  BY SlotsTurn
<1>1. m.slot[s] = c /\ \A o \in Slots \ {s} : m.slot[o] = n.slot[o]
  BY <1>a DEF Only
<1>2. ASSUME NEW x \in Names PROVE m.told[x] = <<>> \/ m.told[x] \in Said(x)
  BY DEF WordTurns, WordsHeld
<1>3. ASSUME NEW o \in Slots, NEW x \in Asks(m.slot[o]) \cup Has(m.slot[o])
      PROVE  m.told[x] = <<>>
  <2>1. m.slot[o] \in Slot
    BY SlotsTurn DEF SlotsHeld, Alone
  <2>2. x \in Names
    BY <2>1, SlotNames
  <2>3. CASE o = s
    BY <1>1, <1>3, <2>2, <2>3 DEF WordTurns
  <2>4. CASE o # s
    <3>1. x \in Asks(n.slot[o]) \cup Has(n.slot[o]) /\ o \in Slots \ {s}
      BY <1>1, <2>4
    <3>2. n.told[x] = <<>>
      BY <3>1 DEF WordsHeld
    <3>3. m.told[x] = n.told[x]
      BY <2>2, <3>1 DEF WordTurns
    <3> QED BY <3>2, <3>3
  <2> QED BY <2>3, <2>4
<1> QED BY <1>2, <1>3 DEF WordsHeld

LEMMA SaidIsSomething ==
  ASSUME NEW x
  PROVE  <<>> \notin Said(x)
BY DEF Said

LEMMA AskedTurn ==
  ASSUME NEW n, NEW m, NEW s \in Slots, NEW c, SlotsHeld(n), Shaped(n), Shaped(m), AskedHeld(n),
         SlotTurns(n, m, s, c), WordTurns(n, m, s, c), AskTurns(n, m, n.slot[s], c)
  PROVE  /\ AskedHeld(m)
         /\ \A r \in Requests : Issued(n, r) => Issued(m, r)
<1>a. Only(n, m, s, c) /\ SlotsHeld(m)
  BY SlotsTurn
<1>1. m.slot[s] = c /\ (\A o \in Slots \ {s} : m.slot[o] = n.slot[o]) /\ SlotsHeld(m)
  BY <1>a DEF Only
<1>2. ASSUME NEW r \in Requests, Issued(n, r) PROVE Issued(m, r)
  <2>1. CASE n.told[r] # <<>>
    <3>1. m.told[r] # <<>>
      BY <2>1, SaidIsSomething DEF WordTurns, Names
    <3> QED BY <1>1, <3>1, IssuedIs
  <2>2. CASE \E o \in Slots : r \in Asks(n.slot[o])
    <3>1. PICK o \in Slots : r \in Asks(n.slot[o])
      BY <2>2
    <3>2. CASE o # s \/ r \in Asks(c)
      <4>1. r \in Asks(m.slot[o])
        BY <1>1, <3>1, <3>2
      <4> QED BY <1>1, <4>1, IssuedIs
    <3>3. CASE o = s /\ r \notin Asks(c)
      <4>1. m.told[r] # <<>>
        BY <3>1, <3>3 DEF AskTurns
      <4> QED BY <1>1, <4>1, IssuedIs
    <3> QED BY <3>2, <3>3
  <2> QED BY <1>2, <2>1, <2>2, IssuedIs
<1>3. ASSUME NEW l \in Links, NEW r \in m.link[l].asked PROVE Issued(m, r)
  <2>1. r \in Requests
    BY DEF Shaped, LinkRecord
  <2>2. CASE r \in Asks(c)
    BY <1>1, <2>1, <2>2, IssuedIs
  <2>3. CASE r \in n.link[l].asked
    BY <1>2, <2>1, <2>3 DEF AskedHeld
  <2> QED BY <2>2, <2>3 DEF AskTurns
<1> QED BY <1>2, <1>3 DEF AskedHeld

LEMMA Turned ==
  ASSUME NEW n, Core(n), NEW m, NEW s \in Slots, NEW c, Turns(n, m, s, c)
  PROVE  /\ Core(m) /\ Only(n, m, s, c)
         /\ \A r \in Requests : Issued(n, r) => Issued(m, r)
         /\ Flushed(n) /\ (c.state = "ACTIVE" => c.pendReq = None) => Flushed(m)
<1>1. SlotsHeld(m) /\ Only(n, m, s, c)
  BY SlotsTurn DEF Core, Turns
<1>2. LinksHeld(m)
  BY LinksTurn DEF Core, Turns
<1>3. HandlesHeld(m)
  BY HandlesTurn DEF Core, Turns
<1>4. WordsHeld(m)
  BY WordsTurn DEF Core, Turns
<1>5. AskedHeld(m) /\ \A r \in Requests : Issued(n, r) => Issued(m, r)
  BY AskedTurn DEF Core, Turns
<1>6. ASSUME Flushed(n), c.state = "ACTIVE" => c.pendReq = None PROVE Flushed(m)
  BY <1>1, <1>6 DEF Flushed, Only
<1> QED BY <1>1, <1>2, <1>3, <1>4, <1>5, <1>6 DEF Core, Turns

-----------------------------------------------------------------------------
(* What a change of state is to the requests.                              *)

Quietly(n, m, r) == m.told[r] = n.told[r] /\ (Issued(m, r) <=> Issued(n, r))
Quiet(n, m) == \A r \in Requests : Quietly(n, m, r)
Opens(n, m, q) ==
  /\ ~Issued(n, q) /\ m.told[q] = <<>> /\ Issued(m, q)
  /\ \A r \in Requests \ {q} : Quietly(n, m, r)
Refuses(n, m, q) ==
  /\ ~Issued(n, q) /\ m.told[q] = <<"FAILED">>
  /\ \A r \in Requests \ {q} : Quietly(n, m, r)
Ends(n, m, q, word) ==
  /\ Issued(n, q) /\ n.told[q] = <<>> /\ m.told[q] = <<word>>
  /\ \A r \in Requests \ {q} : Quietly(n, m, r)

LEMMA QuietTwice ==
  ASSUME NEW n, NEW m, NEW k, Quiet(n, m), Quiet(m, k)
  PROVE  Quiet(n, k)
BY DEF Quiet, Quietly

LEMMA QuietTurn ==
  ASSUME NEW n, Core(n), NEW m, NEW s \in Slots, NEW c, Turns(n, m, s, c), NEW r \in Requests,
         m.told[r] = n.told[r], r \in Asks(c) <=> r \in Asks(n.slot[s])
  PROVE  Quietly(n, m, r)
<1>1. Core(m) /\ Only(n, m, s, c)
  BY Turned
<1>2. \A o \in Slots : r \in Asks(m.slot[o]) <=> r \in Asks(n.slot[o])
  BY <1>1 DEF Only
<1>3. Issued(n, r) <=> n.told[r] # <<>> \/ \E o \in Slots : r \in Asks(n.slot[o])
  BY IssuedIs DEF Core
<1>4. Issued(m, r) <=> m.told[r] # <<>> \/ \E o \in Slots : r \in Asks(m.slot[o])
  BY <1>1, IssuedIs DEF Core
<1> QED BY <1>2, <1>3, <1>4 DEF Quietly

-----------------------------------------------------------------------------
(* Changes that leave alone what a slot shares.                            *)

Recorded(m) ==
  m = [slot |-> m.slot, idle |-> m.idle, link |-> m.link, handles |-> m.handles, told |-> m.told]

SlotOnly(n, m, s, c) ==
  /\ Recorded(m) /\ m.slot = [n.slot EXCEPT ![s] = c]
  /\ m.idle = n.idle /\ m.link = n.link /\ m.handles = n.handles /\ m.told = n.told
LEMMA SlotSet ==
  ASSUME NEW n, Recorded(n), NEW s \in Slots, NEW c
  PROVE  SlotOnly(n, [n EXCEPT !.slot[s] = c], s, c)
BY DEF Recorded, SlotOnly

LEMMA ShapedRecord ==
  ASSUME NEW n, Shaped(n)
  PROVE  Recorded(n) /\ n.slot = [o \in Slots |-> n.slot[o]]
BY DEF Shaped, Recorded

LEMMA IdleSet ==
  ASSUME NEW n, Shaped(n), NEW q
  PROVE  LET m == [n EXCEPT !.idle = q]
         IN  /\ Recorded(m) /\ m.idle = q /\ m.slot = n.slot
             /\ m.link = n.link /\ m.handles = n.handles /\ m.told = n.told
BY DEF Shaped, Recorded

LEMMA StillShaped ==
  ASSUME NEW n, Shaped(n), NEW m, Recorded(m), NEW s \in Slots, NEW c \in Slot,
         m.slot = [n.slot EXCEPT ![s] = c], m.link = n.link, m.told = n.told
  PROVE  Shaped(m)
BY DEF Shaped, Recorded

LEMMA UsedAre ==
  ASSUME NEW n, NEW m, NEW s \in Slots, NEW c, Only(n, m, s, c)
  PROVE  Used(m) = IF c.state = "FREE" THEN Used(n) \ {s} ELSE Used(n) \cup {s}
BY DEF Used, Only

LEMMA OnlyOne ==
  ASSUME NEW n, Shaped(n), NEW m, NEW s \in Slots, NEW c, m.slot = [n.slot EXCEPT ![s] = c]
  PROVE  Only(n, m, s, c)
BY DEF Shaped, Only

(* What others see of a slot.                                              *)
SameOutside(c, d) ==
  /\ c.tag = d.tag /\ c.handle = d.handle /\ c.link = d.link
  /\ Asks(c) = Asks(d) /\ Has(c) \subseteq Has(d)

LEMMA SameUsed ==
  ASSUME NEW n, NEW m, NEW s \in Used(n), NEW c, Only(n, m, s, c), c.state # "FREE"
  PROVE  Used(m) = Used(n)
BY DEF Used, Only

(* A slot changes state or what it keeps for itself.                       *)
LEMMA Inwardly ==
  ASSUME NEW n, Core(n), NEW m, Recorded(m), NEW s \in Used(n), NEW c,
         m.slot = [n.slot EXCEPT ![s] = c], m.link = n.link, m.handles = n.handles, m.told = n.told,
         m.idle = n.idle \/ m.idle = Append(Without(n.idle, s), s),
         Alone(c), c.state # "FREE", SameOutside(c, n.slot[s]),
         c.link # None => Linked(c, n.link[c.link])
  PROVE  Core(m) /\ Only(n, m, s, c) /\ Quiet(n, m)
<1> DEFINE d == n.slot[s]
<1>0. s \in Slots /\ Shaped(n) /\ SlotsHeld(n) /\ c \in Slot
  BY DEF Core, Used, Alone
<1>1. Shaped(m)
  BY <1>0, StillShaped
<1>2. SlotTurns(n, m, s, c)
  <2>1. ASSUME NEW o \in Slots \ {s} PROVE Apart(c, n.slot[o])
    <3>1. Apart(d, n.slot[o])
      BY <1>0 DEF SlotsHeld
    <3>2. Narrower(c, d)
      BY DEF Narrower, SameOutside
    <3> HIDE DEF d
    <3> QED BY <3>1, <3>2, NarrowerApart
  <2> QED BY <2>1 DEF SlotTurns
<1>3. LinkTurns(n, m, d, c)
  BY DEF LinkTurns, SameOutside
<1>4. HandleTurns(n, m, d, c)
  <2>1. d.handle => d.tag \in n.handles
    <3>1. Alone(d)
      BY <1>0 DEF SlotsHeld
    <3>2. d.handle => d.tag \in Tags \cup InTags
      BY <3>1 DEF Alone, Slot, Empty
    <3> QED BY <1>0, <3>2 DEF Core, HandlesHeld
  <2> HIDE DEF d
  <2> QED BY <2>1 DEF HandleTurns, SameOutside, d
<1>5. WordTurns(n, m, s, c)
  BY <1>0 DEF WordTurns, SameOutside, Core, WordsHeld
<1>6. AskTurns(n, m, d, c)
  BY DEF AskTurns, SameOutside
<1>7. Only(n, m, s, c)
  BY <1>0, OnlyOne
<1>8. Lists(m.idle, Used(m))
  <2>1. Used(m) = Used(n) \cup {s}
    BY <1>0, <1>7, UsedAre
  <2>2. Used(m) = Used(n)
    BY <2>1
  <2>3. Lists(n.idle, Used(n)) /\ Used(n) \subseteq Slots
    BY DEF Core, Used
  <2>4. Lists(Append(Without(n.idle, s), s), Used(n))
    BY <2>3, Touched
  <2>5. Lists(m.idle, Used(n))
    BY <2>3, <2>4
  <2> QED BY <2>2, <2>5
<1>9. Turns(n, m, s, c)
  BY <1>1, <1>2, <1>3, <1>4, <1>5, <1>6, <1>8 DEF Turns
<1>10. Core(m)
  BY <1>0, <1>9, Turned
<1>11. Quiet(n, m)
  BY <1>0, <1>9, QuietTurn DEF Quiet, SameOutside
<1> QED BY <1>7, <1>10, <1>11

(* One that keeps its state, and counts its packets.                       *)
Counts(c) == c.proofs => c.sent = c.proven + c.unproven + (IF c.receipt THEN 1 ELSE 0)
Privately(c, d) ==
  /\ c \in Slot /\ Counts(c)
  /\ c.state = d.state /\ c.tag = d.tag /\ c.handle = d.handle /\ c.link = d.link
  /\ c.attempts = d.attempts /\ c.res = d.res /\ c.pendRes = d.pendRes
  /\ c.req = d.req /\ c.pendReq = d.pendReq

LEMMA InUse ==
  ASSUME NEW n, Core(n), NEW s \in Used(n)
  PROVE  /\ s \in Slots /\ Shaped(n) /\ Alone(n.slot[s]) /\ n.slot[s] \in Slot
         /\ n.slot[s].state # "FREE" /\ n.slot[s].tag # None
         /\ n.slot[s].link # None => n.slot[s].link \in Links
                                     /\ Linked(n.slot[s], n.link[n.slot[s].link])
<1>1. s \in Slots /\ Shaped(n) /\ Alone(n.slot[s]) /\ n.slot[s].state # "FREE"
  BY DEF Core, Used, SlotsHeld
<1>2. n.slot[s] \in Slot
  BY <1>1 DEF Alone
<1>3. n.slot[s].tag # None
  BY <1>1 DEF Alone
<1>4. n.slot[s].link # None => Linked(n.slot[s], n.link[n.slot[s].link])
  BY <1>1 DEF Core, LinksHeld
<1>5. n.slot[s].link # None => n.slot[s].link \in Links
  BY <1>2 DEF Slot
<1> QED BY <1>1, <1>2, <1>3, <1>4, <1>5

LEMMA PrivateIsInward ==
  ASSUME NEW d, Alone(d), d.state # "FREE", NEW c, Privately(c, d)
  PROVE  /\ Alone(c) /\ c.state # "FREE" /\ SameOutside(c, d)
         /\ \A k : Linked(d, k) => Linked(c, k)
<1>1. Alone(c)
  BY DEF Privately, Alone, Counts
<1>2. SameOutside(c, d)
  BY DEF Privately, SameOutside, Asks, Has
<1>3. \A k : Linked(d, k) => Linked(c, k)
  BY DEF Privately, Linked
<1> QED BY <1>1, <1>2, <1>3 DEF Privately

LEMMA PrivateChange ==
  ASSUME NEW n, Core(n), NEW s \in Used(n), NEW c, Privately(c, n.slot[s])
  PROVE  LET m == [n EXCEPT !.slot[s] = c]
         IN  Core(m) /\ Only(n, m, s, c) /\ Quiet(n, m)
<1> DEFINE d == n.slot[s]
           m == [n EXCEPT !.slot[s] = c]
<1>1. /\ s \in Slots /\ Shaped(n) /\ Alone(d) /\ d.state # "FREE"
      /\ d.link # None => Linked(d, n.link[d.link])
  BY InUse
<1>2. /\ Recorded(m) /\ m.slot = [n.slot EXCEPT ![s] = c]
      /\ m.idle = n.idle /\ m.link = n.link /\ m.handles = n.handles /\ m.told = n.told
  <2>1. Recorded(n)
    BY <1>1, ShapedRecord
  <2>2. SlotOnly(n, m, s, c)
    BY <1>1, <2>1, SlotSet
  <2> QED BY <2>2 DEF SlotOnly
<1>3. /\ Alone(c) /\ c.state # "FREE" /\ SameOutside(c, d)
      /\ \A k : Linked(d, k) => Linked(c, k)
  <2> HIDE DEF d
  <2> QED BY <1>1, PrivateIsInward DEF d
<1>4. c.link # None => Linked(c, n.link[c.link])
  BY <1>1, <1>3 DEF Privately
<1> HIDE DEF m
<1>5. Core(m) /\ Only(n, m, s, c) /\ Quiet(n, m)
  BY <1>2, <1>3, <1>4, Inwardly
<1> QED BY <1>5 DEF m

LEMMA TouchKeeps ==
  ASSUME NEW n, Core(n), NEW s \in Used(n)
  PROVE  /\ Core(linkTouch(n, s)) /\ Quiet(n, linkTouch(n, s))
         /\ linkTouch(n, s).slot = n.slot
<1> DEFINE m == linkTouch(n, s)
           c == n.slot[s]
<1>1. /\ s \in Slots /\ Shaped(n) /\ Alone(c) /\ c.state # "FREE"
      /\ c.link # None => Linked(c, n.link[c.link])
  BY InUse
<1>2. /\ Recorded(m) /\ m.idle = Append(Without(n.idle, s), s) /\ m.slot = n.slot
      /\ m.link = n.link /\ m.handles = n.handles /\ m.told = n.told
  BY <1>1, IdleSet DEF linkTouch
<1>3. m.slot = [n.slot EXCEPT ![s] = c]
  BY <1>1, <1>2 DEF Shaped
<1>4. SameOutside(c, n.slot[s])
  BY DEF SameOutside
<1> HIDE DEF m
<1>5. Core(m) /\ Only(n, m, s, c) /\ Quiet(n, m)
  BY <1>1, <1>2, <1>3, <1>4, Inwardly
<1> QED BY <1>2, <1>5 DEF m

LEMMA ReceiptKeeps ==
  ASSUME NEW n, Core(n), NEW s \in Used(n)
  PROVE  LET m == linkTrackTxReceipt(n, s)
         IN  /\ Core(m) /\ Quiet(n, m)
             /\ \E c : Privately(c, n.slot[s]) /\ Only(n, m, s, c)
<1> DEFINE d == n.slot[s]
           c == [d EXCEPT !.receipt = TRUE, !.sent = @ + 1,
                          !.unproven = IF d.receipt THEN @ + 1 ELSE @]
           m == linkTrackTxReceipt(n, s)
<1>1. s \in Slots /\ Shaped(n) /\ Alone(d) /\ d \in Slot /\ d.state # "FREE"
  BY InUse
<1>2. CASE d.proofs
  <2>1. m = [n EXCEPT !.slot[s] = c]
    BY <1>2 DEF linkTrackTxReceipt
  <2>2. Privately(c, d)
    <3>1. d \in Slot /\ (d.proofs => d.sent = d.proven + d.unproven + (IF d.receipt THEN 1 ELSE 0))
      BY <1>1 DEF Alone
    <3> HIDE DEF d
    <3>2. d.sent \in Nat /\ d.proven \in Nat /\ d.unproven \in Nat /\ d.receipt \in BOOLEAN
      BY <3>1 DEF Slot
    <3>3. c \in Slot
      <4> DEFINE u == IF d.receipt THEN d.unproven + 1 ELSE d.unproven
                 v == d.sent + 1
      <4>1. u \in Nat /\ v \in Nat
        BY <3>2
      <4>2. c = [d EXCEPT !.receipt = TRUE, !.sent = v, !.unproven = u]
        OBVIOUS
      <4> HIDE DEF u, v, c
      <4> QED BY <3>1, <4>1, <4>2 DEF Slot
    <3>4. Counts(c)
      <4>1. /\ c.sent = d.sent + 1 /\ c.proven = d.proven /\ c.receipt = TRUE
            /\ c.unproven = IF d.receipt THEN d.unproven + 1 ELSE d.unproven
        BY <3>1 DEF Slot
      <4> HIDE DEF c
      <4> QED BY <1>2, <3>1, <3>2, <4>1 DEF Counts
    <3>5. /\ c.state = d.state /\ c.tag = d.tag /\ c.handle = d.handle /\ c.link = d.link
          /\ c.attempts = d.attempts /\ c.res = d.res /\ c.pendRes = d.pendRes
          /\ c.req = d.req /\ c.pendReq = d.pendReq
      BY <3>1 DEF Slot
    <3> QED BY <3>3, <3>4, <3>5 DEF Privately
  <2> HIDE DEF m, c
  <2>3. Core(m) /\ Only(n, m, s, c) /\ Quiet(n, m)
    BY <2>1, <2>2, PrivateChange
  <2> QED BY <2>2, <2>3 DEF m
<1>3. CASE ~d.proofs
  <2>1. m = n
    BY <1>3 DEF linkTrackTxReceipt
  <2>2. Only(n, n, s, d) /\ Quiet(n, n)
    BY DEF Only, Quiet, Quietly
  <2>3. Privately(d, d)
    BY <1>1 DEF Privately, Alone, Counts
  <2> QED BY <2>1, <2>2, <2>3
<1> QED BY <1>2, <1>3

LEMMA IdentifyKeeps ==
  ASSUME NEW n, Core(n), NEW s \in Used(n)
  PROVE  LET m == linkIdentifyNow(n, s)
         IN  /\ Core(m) /\ Quiet(n, m)
             /\ \E c : Privately(c, n.slot[s]) /\ Only(n, m, s, c)
<1> DEFINE d == n.slot[s]
           c == [d EXCEPT !.ident = "first"]
           m == linkIdentifyNow(n, s)
<1>1. Alone(d) /\ d \in Slot
  BY InUse
<1>2. m = [n EXCEPT !.slot[s] = c]
  BY DEF linkIdentifyNow
<1>3. Privately(c, d)
  BY <1>1 DEF Privately, Slot, Counts, Alone
<1> HIDE DEF m, c
<1>4. Core(m) /\ Only(n, m, s, c) /\ Quiet(n, m)
  BY <1>2, <1>3, PrivateChange
<1> QED BY <1>3, <1>4 DEF m

-----------------------------------------------------------------------------
(* Finding a slot.                                                         *)

LEMMA OfIs ==
  ASSUME NEW n, SlotsHeld(n), NEW s \in Slots, NEW l, l # None, n.slot[s].link = l
  PROVE  Of(n, l) = {s}
<1>1. ASSUME NEW o \in Slots, n.slot[o].link = l PROVE o = s
  BY <1>1 DEF SlotsHeld, Apart
<1>2. s \in Used(n)
  BY DEF SlotsHeld, Alone, Empty, Used
<1> QED BY <1>1, <1>2 DEF Of, Used

LEMMA HoldingIs ==
  ASSUME NEW n, SlotsHeld(n), NEW s \in Slots, NEW x, x # None, n.slot[s].res = x
  PROVE  Holding(n, x) = {s}
<1>1. ASSUME NEW o \in Slots, n.slot[o].res = x PROVE o = s
  <2>1. x \in Has(n.slot[o]) /\ x \in Has(n.slot[s])
    BY <1>1 DEF Has
  <2> QED BY <2>1 DEF SlotsHeld, Apart
<1>2. s \in Used(n)
  BY DEF SlotsHeld, Alone, Empty, Used
<1> QED BY <1>1, <1>2 DEF Holding, Used

LEMMA AskingIs ==
  ASSUME NEW n, SlotsHeld(n), NEW s \in Slots, NEW r, r # None, n.slot[s].req = r
  PROVE  Asking(n, r) = {s}
<1>1. ASSUME NEW o \in Slots, n.slot[o].req = r PROVE o = s
  <2>1. r \in Asks(n.slot[o]) /\ r \in Asks(n.slot[s])
    BY <1>1 DEF Asks
  <2> QED BY <2>1 DEF SlotsHeld, Apart
<1>2. s \in Used(n)
  BY DEF SlotsHeld, Alone, Empty, Used
<1> QED BY <1>1, <1>2 DEF Asking, Used

LEMMA TheOne ==
  ASSUME NEW S, NEW s, S = {s}
  PROVE  S # {} /\ (CHOOSE x \in S : TRUE) = s
OBVIOUS

-----------------------------------------------------------------------------
(* Telling.                                                                *)

LEMMA Telling ==
  ASSUME NEW n, Shaped(n), NEW x, x # None, NEW word
  PROVE  LET m == Tell(n, x, word)
         IN  /\ Recorded(m) /\ m.told = [n.told EXCEPT ![x] = Append(n.told[x], word)]
             /\ m.slot = n.slot /\ m.idle = n.idle /\ m.link = n.link /\ m.handles = n.handles
BY DEF Shaped, Recorded, Tell

Says(n, m, q, word) == m.told = [n.told EXCEPT ![q] = Append(n.told[q], word)]
Concluded(n, m, s, x, word) ==
  /\ Recorded(m) /\ m.slot = [n.slot EXCEPT ![s] = [n.slot[s] EXCEPT !.res = None]]
  /\ Says(n, m, x, word)
  /\ m.idle = n.idle /\ m.link = n.link /\ m.handles = n.handles
SaidOnly(n, m, q, word) ==
  /\ Recorded(m) /\ Says(n, m, q, word)
  /\ m.slot = n.slot /\ m.idle = n.idle /\ m.link = n.link /\ m.handles = n.handles
LEMMA TellingOnly ==
  ASSUME NEW n, Shaped(n), NEW x, x # None, NEW word
  PROVE  SaidOnly(n, Tell(n, x, word), x, word)
<1> DEFINE m == Tell(n, x, word)
<1>1. /\ Recorded(m) /\ m.told = [n.told EXCEPT ![x] = Append(n.told[x], word)]
      /\ m.slot = n.slot /\ m.idle = n.idle /\ m.link = n.link /\ m.handles = n.handles
  BY DEF Shaped, Recorded, Tell
<1> HIDE DEF m
<1>2. SaidOnly(n, m, x, word)
  BY <1>1 DEF SaidOnly, Says
<1> QED BY <1>2 DEF m

LEMMA Concluding ==
  ASSUME NEW n, Shaped(n), NEW s \in Slots, NEW x, x # None, Holding(n, x) = {s}, NEW word
  PROVE  Concluded(n, onResConcluded(n, x, word), s, x, word)
<1> DEFINE k == [n EXCEPT !.slot[s].res = None]
           m == onResConcluded(n, x, word)
<1>1. m = Tell(k, x, word)
  <2>1. Holding(n, x) # {} /\ (CHOOSE o \in Holding(n, x) : TRUE) = s
    BY TheOne
  <2> QED BY <2>1 DEF onResConcluded
<1>2. /\ Recorded(k) /\ k.slot = [n.slot EXCEPT ![s] = [n.slot[s] EXCEPT !.res = None]]
      /\ k.told = n.told /\ k.idle = n.idle /\ k.link = n.link /\ k.handles = n.handles
  <2>1. k = [n EXCEPT !.slot[s] = [n.slot[s] EXCEPT !.res = None]]
    BY ShapedRecord
  <2>2. Recorded(n)
    BY ShapedRecord
  <2>3. SlotOnly(n, k, s, [n.slot[s] EXCEPT !.res = None])
    <3> DEFINE e == [n.slot[s] EXCEPT !.res = None]
    <3> HIDE DEF e
    <3> SUFFICES SlotOnly(n, [n EXCEPT !.slot[s] = e], s, e)
      BY <2>1 DEF e
    <3> QED BY <2>2, SlotSet
  <2> HIDE DEF k
  <2> QED BY <2>3 DEF SlotOnly
<1>3. Shaped(k)
  <2>1. n.slot[s] \in Slot
    BY SlotIs
  <2>2. [n.slot[s] EXCEPT !.res = None] \in Slot
    BY <2>1 DEF Slot
  <2> HIDE DEF k
  <2> QED BY <1>2, <2>2, StillShaped
<1> HIDE DEF k, m
<1>4. /\ Recorded(m) /\ m.told = [k.told EXCEPT ![x] = Append(k.told[x], word)]
      /\ m.slot = k.slot /\ m.idle = k.idle /\ m.link = k.link /\ m.handles = k.handles
  BY <1>1, <1>3, Telling
<1>5. Concluded(n, m, s, x, word)
  BY <1>2, <1>4 DEF Concluded, Says
<1> QED BY <1>5 DEF m

LEMMA ToldShaped ==
  ASSUME NEW n, Shaped(n), NEW x \in Names, NEW word \in Outcomes
  PROVE  [n.told EXCEPT ![x] = Append(n.told[x], word)] \in [Names -> Seq(Outcomes)]
<1>1. n.told[x] \in Seq(Outcomes)
  BY DEF Shaped
<1>2. Append(n.told[x], word) \in Seq(Outcomes)
  BY <1>1
<1> QED BY <1>2 DEF Shaped

-----------------------------------------------------------------------------
(* A link closes.                                                          *)

ClosedSlot(d) == Unlinked([d EXCEPT !.res = None])
ToldOf(told, x, word) == IF x = None THEN told ELSE [told EXCEPT ![x] = Append(told[x], word)]

LEMMA Carried ==
  ASSUME NEW n, Core(n), NEW s \in Slots, n.slot[s].link # None
  PROVE  /\ n.slot[s].link \in Links /\ s \in Used(n)
         /\ n.link[n.slot[s].link].carries = {n.slot[s].res} \ {None}
<1>1. s \in Used(n)
  BY DEF Core, SlotsHeld, Alone, Empty, Used
<1> DEFINE d == n.slot[s]
<1>2. Alone(d) /\ d.link \in Links /\ Linked(d, n.link[d.link])
  BY <1>1, InUse
<1>3. d.state = "ESTABLISHING" => d.res = None
  BY <1>2 DEF Alone
<1> HIDE DEF d
<1>4. n.link[d.link].carries = {d.res} \ {None}
  BY <1>2, <1>3 DEF Linked
<1> QED BY <1>1, <1>2, <1>4 DEF d

LEMMA Cancelled ==
  ASSUME NEW n, Core(n), NEW s \in Slots, n.slot[s].link # None
  PROVE  LET m == resources_cancelled(n, n.link[n.slot[s].link].carries)
         IN  /\ Recorded(m) /\ m.slot = [n.slot EXCEPT ![s] = [n.slot[s] EXCEPT !.res = None]]
             /\ m.told = ToldOf(n.told, n.slot[s].res, "FAILED")
             /\ m.idle = n.idle /\ m.link = n.link /\ m.handles = n.handles
<1> DEFINE d == n.slot[s]
           X == n.link[d.link].carries
           S == {o \in Used(n) : n.slot[o].res \in X}
<1>0. Shaped(n) /\ SlotsHeld(n) /\ d \in Slot
  BY SlotIs DEF Core
<1>1. X = {d.res} \ {None} /\ s \in Used(n)
  BY Carried
<1>2. CASE d.res = None
  <2>1. S = {}
    BY <1>1, <1>2
  <2>2. resources_cancelled(n, X) = n
    BY <2>1 DEF resources_cancelled
  <2>3. n.slot = [n.slot EXCEPT ![s] = [d EXCEPT !.res = None]]
    <3>1. [d EXCEPT !.res = None] = d
      BY <1>0, <1>2 DEF Slot
    <3> HIDE DEF d
    <3> QED BY <1>0, <3>1 DEF Shaped, d
  <2> QED BY <1>0, <1>2, <2>2, <2>3 DEF Shaped, Recorded, ToldOf
<1>3. CASE d.res # None
  <2>1. Holding(n, d.res) = {s}
    BY <1>0, <1>3, HoldingIs
  <2>2. S = {s}
    BY <1>1, <1>3, <2>1 DEF Holding
  <2>3. S # {} /\ (CHOOSE o \in S : TRUE) = s
    BY <2>2, TheOne
  <2>4. resources_cancelled(n, X) = onResConcluded(n, d.res, "FAILED")
    <3> HIDE DEF X
    <3> QED BY <2>3 DEF resources_cancelled
  <2>5. Concluded(n, resources_cancelled(n, X), s, d.res, "FAILED")
    <3> DEFINE x == d.res
    <3>1. x # None /\ Holding(n, x) = {s} /\ Shaped(n)
      BY <1>0, <1>3, <2>1
    <3> HIDE DEF x
    <3>2. Concluded(n, onResConcluded(n, x, "FAILED"), s, x, "FAILED")
      BY <3>1, Concluding
    <3> QED BY <2>4, <3>2 DEF x
  <2> DEFINE m == resources_cancelled(n, X)
  <2> HIDE DEF m
  <2>6. ToldOf(n.told, d.res, "FAILED") = [n.told EXCEPT ![d.res] = Append(n.told[d.res], "FAILED")]
    BY <1>3 DEF ToldOf
  <2>7. Concluded(n, m, s, d.res, "FAILED")
    BY <2>5 DEF m
  <2>8. /\ Recorded(m) /\ m.slot = [n.slot EXCEPT ![s] = [n.slot[s] EXCEPT !.res = None]]
        /\ m.told = ToldOf(n.told, n.slot[s].res, "FAILED")
        /\ m.idle = n.idle /\ m.link = n.link /\ m.handles = n.handles
    BY <2>6, <2>7 DEF Concluded, Says
  <2> QED BY <2>8 DEF m
<1> QED BY <1>2, <1>3

LEMMA LinkClosedIs ==
  ASSUME NEW n, Core(n), NEW s \in Slots, NEW l, l # None, n.slot[s].link = l
  PROVE  LET m == link_closed(n, l)
         IN  /\ Recorded(m) /\ m.slot = [n.slot EXCEPT ![s] = ClosedSlot(n.slot[s])]
             /\ m.told = ToldOf(n.told, n.slot[s].res, "FAILED")
             /\ m.link = [n.link EXCEPT ![l] = NoLink]
             /\ m.idle = n.idle /\ m.handles = n.handles
<1> DEFINE d == n.slot[s]
           k == resources_cancelled(n, n.link[l].carries)
           e == [d EXCEPT !.res = None]
           j == [k EXCEPT !.link[l] = NoLink]
           m == link_closed(n, l)
<1>0. Shaped(n) /\ SlotsHeld(n) /\ d \in Slot /\ l \in Links /\ s \in Used(n)
  BY SlotIs, Carried DEF Core
<1>1. /\ Recorded(k) /\ k.slot = [n.slot EXCEPT ![s] = e]
      /\ k.told = ToldOf(n.told, d.res, "FAILED")
      /\ k.idle = n.idle /\ k.link = n.link /\ k.handles = n.handles
  BY Cancelled
<1> HIDE DEF k
<1>2. /\ Recorded(j) /\ j.slot = k.slot /\ j.told = k.told /\ j.idle = k.idle
      /\ j.link = [k.link EXCEPT ![l] = NoLink] /\ j.handles = k.handles
  BY <1>1 DEF Recorded
<1>3. m = onLinkClosedCb(j, l)
  BY DEF link_closed, k
<1> HIDE DEF j, m
<1>4. e.link = d.link /\ e.state = d.state /\ d.state # "FREE"
  BY <1>0 DEF Slot, Used
<1>5. Of(j, l) = {s}
  <2>1. Of(n, l) = {s}
    BY <1>0, OfIs
  <2>2. \A o \in Slots : j.slot[o].link = n.slot[o].link /\ j.slot[o].state = n.slot[o].state
    BY <1>0, <1>1, <1>2, <1>4 DEF Shaped
  <2> QED BY <2>1, <2>2 DEF Of, Used
<1>6. m = [j EXCEPT !.slot[s] = Unlinked(j.slot[s])]
  <2>1. Of(j, l) # {} /\ (CHOOSE o \in Of(j, l) : TRUE) = s
    BY <1>5, TheOne
  <2> QED BY <1>3, <2>1 DEF onLinkClosedCb
<1>7. j.slot[s] = e
  BY <1>0, <1>1, <1>2 DEF Shaped
<1> HIDE DEF e
<1>8. Unlinked(e) = ClosedSlot(d)
  BY DEF ClosedSlot, e
<1>9. SlotOnly(j, m, s, ClosedSlot(d))
  <2>1. m = [j EXCEPT !.slot[s] = ClosedSlot(d)]
    BY <1>6, <1>7, <1>8
  <2> QED BY <1>2, <2>1, SlotSet
<1>10. m.slot = [n.slot EXCEPT ![s] = ClosedSlot(d)]
  BY <1>0, <1>1, <1>2, <1>9 DEF Shaped, SlotOnly
<1> QED BY <1>1, <1>2, <1>9, <1>10 DEF SlotOnly, m

LEMMA ClosedFields ==
  ASSUME NEW d, Alone(d), d.link # None
  PROVE  LET c == ClosedSlot(d)
         IN  /\ Alone(c) /\ c.state # "FREE" /\ c.link = None /\ c.tag = d.tag /\ c.handle = d.handle
             /\ Asks(c) = Asks(d) /\ Has(c) = {c.pendRes} \ {None} /\ c.pendRes = d.pendRes
             /\ c.state = IF d.state = "ESTABLISHING" THEN "ESTABLISHING" ELSE "CLOSED"
             /\ c.res = None
<1> DEFINE c == ClosedSlot(d)
<1>1. d \in Slot
  BY DEF Alone
<1>2. c \in Slot
  <2> DEFINE e == [d EXCEPT !.res = None]
             f == [e EXCEPT !.link = None]
             t == IF d.state = "ESTABLISHING" THEN d.state ELSE "CLOSED"
  <2>1. e \in Slot /\ e.state = d.state
    BY <1>1 DEF Slot
  <2>2. Unlinked(e) = [f EXCEPT !.state = t]
    BY <2>1 DEF Unlinked
  <2> HIDE DEF e
  <2>3. f \in Slot
    BY <2>1 DEF Slot
  <2>4. t \in States
    BY <1>1 DEF Slot, States
  <2> HIDE DEF f, t
  <2>5. [f EXCEPT !.state = t] \in Slot
    BY <2>3, <2>4 DEF Slot
  <2> QED BY <2>2, <2>5 DEF ClosedSlot, e
<1>3. /\ c.link = None /\ c.res = None /\ c.tag = d.tag /\ c.handle = d.handle
      /\ c.state = IF d.state = "ESTABLISHING" THEN "ESTABLISHING" ELSE "CLOSED"
      /\ c.req = d.req /\ c.pendReq = d.pendReq /\ c.pendRes = d.pendRes
      /\ c.attempts = d.attempts /\ c.proofs = d.proofs /\ c.receipt = d.receipt
      /\ c.sent = d.sent /\ c.proven = d.proven /\ c.unproven = d.unproven
  BY <1>1 DEF ClosedSlot, Unlinked, Slot
<1> HIDE DEF c
<1>4. Alone(c)
  BY <1>2, <1>3 DEF Alone
<1>5. Asks(c) = Asks(d) /\ Has(c) = {c.pendRes} \ {None}
  BY <1>3 DEF Asks, Has
<1> QED BY <1>3, <1>4, <1>5 DEF c

LEMMA SaidFailed ==
  ASSUME NEW x, NEW told, told[x] = <<>>
  PROVE  Append(told[x], "FAILED") = <<"FAILED">> /\ <<"FAILED">> \in Said(x)
BY DEF Said

LEMMA LinkCloses ==
  ASSUME NEW n, Core(n), NEW s \in Slots, NEW l, l # None, n.slot[s].link = l
  PROVE  LET m == link_closed(n, l)
         IN  /\ Core(m) /\ Only(n, m, s, ClosedSlot(n.slot[s])) /\ Quiet(n, m)
             /\ m.link = [n.link EXCEPT ![l] = NoLink]
<1> DEFINE d == n.slot[s]
           c == ClosedSlot(d)
           m == link_closed(n, l)
<1>1. /\ Recorded(m) /\ m.slot = [n.slot EXCEPT ![s] = c]
      /\ m.told = ToldOf(n.told, d.res, "FAILED")
      /\ m.link = [n.link EXCEPT ![l] = NoLink]
      /\ m.idle = n.idle /\ m.handles = n.handles
  BY LinkClosedIs
<1>2. Shaped(n) /\ SlotsHeld(n) /\ l \in Links /\ s \in Used(n)
  BY Carried DEF Core
<1>a. Alone(d) /\ d \in Slot
  BY <1>2, SlotIs DEF SlotsHeld
<1>3. /\ Alone(c) /\ c.state # "FREE" /\ c.link = None /\ c.tag = d.tag /\ c.handle = d.handle
      /\ Asks(c) = Asks(d) /\ Has(c) = {c.pendRes} \ {None} /\ c.pendRes = d.pendRes
  BY <1>a, ClosedFields
<1>b. \A r \in Requests : r # d.res
  BY <1>a, SlotAssumption DEF Slot
<1> HIDE DEF m, c
<1>4. Shaped(m)
  <2>1. NoLink \in LinkRecord
    BY DEF NoLink, LinkRecord
  <2>2. m.link \in [Links -> LinkRecord]
    BY <1>1, <1>2, <2>1 DEF Shaped
  <2>3. m.slot \in [Slots -> Slot]
    BY <1>1, <1>2, <1>3 DEF Shaped, Alone
  <2>4. m.told \in [Names -> Seq(Outcomes)]
    <3>1. CASE d.res = None
      BY <1>1, <1>2, <3>1 DEF ToldOf, Shaped
    <3>2. CASE d.res # None
      <4>1. d.res \in Names /\ "FAILED" \in Outcomes
        BY <1>a, <3>2 DEF Slot, Names, Outcomes
      <4> QED BY <1>1, <1>2, <3>2, <4>1, ToldShaped DEF ToldOf
    <3> QED BY <3>1, <3>2
  <2> QED BY <1>1, <2>2, <2>3, <2>4 DEF Shaped, Recorded
<1>5. SlotTurns(n, m, s, c)
  <2>1. Narrower(c, d)
    BY <1>3 DEF Narrower, Has
  <2>2. ASSUME NEW o \in Slots \ {s} PROVE Apart(c, n.slot[o])
    <3>1. Apart(d, n.slot[o])
      BY <1>2 DEF SlotsHeld
    <3> HIDE DEF d
    <3> QED BY <2>1, <3>1, NarrowerApart
  <2> QED BY <1>1, <1>3, <2>2 DEF SlotTurns
<1>6. LinkTurns(n, m, d, c)
  BY <1>1, <1>2, <1>3 DEF LinkTurns, Shaped
<1>7. HandleTurns(n, m, d, c)
  <2>1. d.handle => d.tag \in n.handles
    <3>1. d.handle => d.tag \in Tags \cup InTags
      BY <1>a DEF Alone, Slot, Empty
    <3> QED BY <1>2, <3>1 DEF Core, HandlesHeld
  <2> HIDE DEF d
  <2> QED BY <1>1, <1>3, <2>1 DEF HandleTurns
<1>8. WordTurns(n, m, s, c)
  <2>1. ASSUME NEW x \in Asks(c) \cup Has(c) PROVE n.told[x] = <<>>
    <3>1. x \in Asks(d) \cup Has(d)
      BY <1>3 DEF Has
    <3> QED BY <3>1 DEF Core, WordsHeld
  <2>2. ASSUME NEW x \in Names, m.told[x] # n.told[x]
        PROVE  /\ n.told[x] = <<>> /\ m.told[x] \in Said(x) /\ x \notin Asks(c) \cup Has(c)
               /\ \A o \in Slots \ {s} : x \notin Asks(n.slot[o]) \cup Has(n.slot[o])
    <3>1. x = d.res /\ x # None
      BY <1>1, <1>2, <2>2 DEF ToldOf, Shaped
    <3>2. x \in Has(d) /\ n.told[x] = <<>>
      BY <3>1 DEF Has, Core, WordsHeld
    <3>3. m.told[x] = Append(n.told[x], "FAILED")
      BY <1>1, <1>2, <2>2, <3>1 DEF ToldOf, Shaped
    <3>4. m.told[x] \in Said(x)
      BY <3>2, <3>3, SaidFailed
    <3>5. x \in Resources /\ x \notin Requests
      BY <1>a, <3>1, SlotAssumption DEF Slot
    <3>6. ASSUME NEW o \in Slots PROVE x \notin Asks(n.slot[o])
      BY <1>2, <3>5, SlotIs, SlotNames
    <3>7. x \notin Asks(c) /\ x \notin Has(c)
      BY <1>3, <1>a, <3>1, <3>6 DEF Alone
    <3>8. \A o \in Slots \ {s} : x \notin Has(n.slot[o])
      BY <1>2, <3>2 DEF SlotsHeld, Apart
    <3> QED BY <3>2, <3>4, <3>6, <3>7, <3>8
  <2> QED BY <2>1, <2>2 DEF WordTurns
<1>9. AskTurns(n, m, d, c)
  BY <1>1, <1>2, <1>3 DEF AskTurns, Shaped, NoLink
<1>10. Only(n, m, s, c)
  BY <1>1, <1>2, OnlyOne
<1>11. Lists(m.idle, Used(m))
  <2>1. Used(m) = Used(n) \cup {s}
    BY <1>3, <1>10, UsedAre
  <2>2. Used(m) = Used(n)
    BY <1>2, <2>1
  <2> QED BY <1>1, <2>2 DEF Core
<1>12. Turns(n, m, s, c)
  BY <1>4, <1>5, <1>6, <1>7, <1>8, <1>9, <1>11 DEF Turns
<1>13. Core(m)
  BY <1>12, Turned
<1>14. ASSUME NEW r \in Requests PROVE Quietly(n, m, r)
  <2>1. m.told[r] = n.told[r]
    BY <1>1, <1>2, <1>b DEF ToldOf, Shaped, Names
  <2> QED BY <1>3, <1>12, <2>1, QuietTurn
<1> QED BY <1>1, <1>10, <1>13, <1>14 DEF Quiet, m, c

LEMMA NobodysLink ==
  ASSUME NEW n, Core(n), NEW l \in Links, \A s \in Slots : n.slot[s].link # l
  PROVE  link_closed(n, l) = n
<1>1. n.link[l] = NoLink /\ Shaped(n)
  BY DEF Core, LinksHeld
<1>2. resources_cancelled(n, n.link[l].carries) = n
  BY <1>1 DEF resources_cancelled, NoLink
<1>3. [n EXCEPT !.link[l] = NoLink] = n
  <2>1. [n.link EXCEPT ![l] = NoLink] = n.link
    BY <1>1 DEF Shaped
  <2> QED BY <1>1, <2>1 DEF Shaped
<1>4. Of(n, l) = {}
  BY DEF Of, Used
<1>5. onLinkClosedCb(n, l) = n
  BY <1>4 DEF onLinkClosedCb
<1> QED BY <1>2, <1>3, <1>5 DEF link_closed

LEMMA SlotSame ==
  ASSUME NEW n, Shaped(n), NEW s \in Slots, n.slot[s].link = None
  PROVE  [n EXCEPT !.slot[s].link = None] = n
<1>1. [n.slot[s] EXCEPT !.link = None] = n.slot[s]
  <2>1. n.slot[s] \in Slot
    BY SlotIs
  <2> QED BY <2>1 DEF Slot
<1>2. [n.slot EXCEPT ![s] = n.slot[s]] = n.slot
  BY DEF Shaped
<1>3. [n EXCEPT !.slot[s].link = None] = [n EXCEPT !.slot = [n.slot EXCEPT ![s] = [n.slot[s] EXCEPT !.link = None]]]
  BY DEF Shaped
<1>4. [n EXCEPT !.slot = n.slot] = n
  BY DEF Shaped
<1> QED BY <1>1, <1>2, <1>3, <1>4

(* A slot after its link was torn down.                                    *)
TornDown(d) == IF d.link = None THEN d ELSE ClosedSlot(d)

LEMMA TornFields ==
  ASSUME NEW d, Alone(d), d.state # "FREE"
  PROVE  LET c == TornDown(d)
         IN  /\ Alone(c) /\ c.state # "FREE" /\ c.link = None /\ c.tag = d.tag /\ c.handle = d.handle
             /\ Asks(c) = Asks(d)
             /\ c.state \in {d.state, "CLOSED"}
BY ClosedFields DEF TornDown

LEMMA TearsDown ==
  ASSUME NEW n, Core(n), NEW s \in Used(n)
  PROVE  LET m == [teardown(n, n.slot[s].link) EXCEPT !.slot[s].link = None]
         IN  /\ m = teardown(n, n.slot[s].link)
             /\ Core(m) /\ Only(n, m, s, TornDown(n.slot[s])) /\ Quiet(n, m)
             /\ Used(m) = Used(n)
             /\ \A l \in Links : n.link[l] = NoLink => m.link[l] = NoLink
<1> DEFINE d == n.slot[s]
           m == teardown(n, d.link)
<1>0. s \in Slots /\ Shaped(n) /\ Alone(d) /\ d.state # "FREE"
  BY InUse
<1>1. /\ Core(m) /\ Only(n, m, s, TornDown(d)) /\ Quiet(n, m)
      /\ \A l \in Links : n.link[l] = NoLink => m.link[l] = NoLink
  <2>1. CASE d.link = None
    <3>1. m = n
      BY <2>1 DEF teardown
    <3>2. Only(n, n, s, d) /\ Quiet(n, n)
      BY DEF Only, Quiet, Quietly
    <3> QED BY <2>1, <3>1, <3>2 DEF TornDown
  <2>2. CASE d.link # None
    <3>1. m = link_closed(n, d.link)
      BY <2>2 DEF teardown
    <3>2. /\ Core(m) /\ Only(n, m, s, ClosedSlot(d)) /\ Quiet(n, m)
          /\ m.link = [n.link EXCEPT ![d.link] = NoLink]
      BY <1>0, <2>2, <3>1, LinkCloses
    <3> QED BY <1>0, <2>2, <3>2 DEF TornDown, Shaped
  <2> QED BY <2>1, <2>2
<1> HIDE DEF m, d
<1>2. TornDown(d).link = None /\ TornDown(d).state # "FREE"
  BY <1>0, TornFields
<1>3. m.slot[s].link = None /\ Shaped(m)
  BY <1>1, <1>2 DEF Only, Core
<1>4. [m EXCEPT !.slot[s].link = None] = m
  BY <1>0, <1>3, SlotSame
<1>5. Used(m) = Used(n) \cup {s}
  BY <1>0, <1>1, <1>2, UsedAre
<1>6. Used(m) = Used(n)
  BY <1>5
<1> QED BY <1>1, <1>4, <1>6 DEF m, d

-----------------------------------------------------------------------------
(* A slot is freed.                                                        *)

(* Its requester, if there is one, hears of it.                            *)
FailsOne(n, m) == Quiet(n, m) \/ \E q \in Requests : Ends(n, m, q, "FAILED")

Filled(n, m, s, c, q, h) ==
  /\ Recorded(m) /\ m.slot = [n.slot EXCEPT ![s] = c] /\ m.idle = q /\ m.handles = h
  /\ m.link = n.link /\ m.told = n.told

(* A record of the daemon's state, and one part of it set.                 *)
Parts(m, a, q, k, h, t) ==
  Recorded(m) /\ m.slot = a /\ m.idle = q /\ m.link = k /\ m.handles = h /\ m.told = t
LEMMA PartSet ==
  ASSUME NEW m, NEW a, NEW q, NEW k, NEW h, NEW t, Parts(m, a, q, k, h, t), NEW i, NEW v
  PROVE  /\ Parts([m EXCEPT !.slot[i] = v], [a EXCEPT ![i] = v], q, k, h, t)
         /\ Parts([m EXCEPT !.link[i] = v], a, q, [k EXCEPT ![i] = v], h, t)
         /\ Parts([m EXCEPT !.idle = v], a, v, k, h, t)
         /\ Parts([m EXCEPT !.handles = v], a, q, k, v, t)
BY DEF Parts, Recorded

LEMMA Filling ==
  ASSUME NEW n, Recorded(n), NEW s, NEW c, NEW q, NEW h
  PROVE  /\ Filled(n, [n EXCEPT !.handles = h, !.slot[s] = c, !.idle = q], s, c, q, h)
         /\ Filled(n, [n EXCEPT !.slot[s] = c, !.idle = q, !.handles = h], s, c, q, h)
<1> DEFINE e == [n.slot EXCEPT ![s] = c]
<1>2. Parts(n, n.slot, n.idle, n.link, n.handles, n.told)
  BY DEF Parts
<1>3. Parts([n EXCEPT !.handles = h, !.slot[s] = c, !.idle = q], e, q, n.link, h, n.told)
  <2> DEFINE j == [n EXCEPT !.handles = h]
             k == [j EXCEPT !.slot[s] = c]
  <2>1. Parts(j, n.slot, n.idle, n.link, h, n.told)
    BY <1>2, PartSet
  <2> HIDE DEF j
  <2>2. Parts(k, e, n.idle, n.link, h, n.told)
    BY <2>1, PartSet
  <2> HIDE DEF k
  <2>3. Parts([k EXCEPT !.idle = q], e, q, n.link, h, n.told)
    BY <2>2, PartSet
  <2>4. [k EXCEPT !.idle = q] = [n EXCEPT !.handles = h, !.slot[s] = c, !.idle = q]
    BY DEF j, k
  <2> QED BY <2>3, <2>4
<1>4. Parts([n EXCEPT !.slot[s] = c, !.idle = q, !.handles = h], e, q, n.link, h, n.told)
  <2> DEFINE j == [n EXCEPT !.slot[s] = c]
             k == [j EXCEPT !.idle = q]
  <2>1. Parts(j, e, n.idle, n.link, n.handles, n.told)
    BY <1>2, PartSet
  <2> HIDE DEF j
  <2>2. Parts(k, e, q, n.link, n.handles, n.told)
    BY <2>1, PartSet
  <2> HIDE DEF k
  <2>3. Parts([k EXCEPT !.handles = h], e, q, n.link, h, n.told)
    BY <2>2, PartSet
  <2>4. [k EXCEPT !.handles = h] = [n EXCEPT !.slot[s] = c, !.idle = q, !.handles = h]
    BY DEF j, k
  <2> QED BY <2>3, <2>4
<1> QED BY <1>3, <1>4 DEF Parts, Filled

LEMMA FreeingIs ==
  ASSUME NEW n, Core(n), NEW s \in Used(n)
  PROVE  LET d == n.slot[s]
             m == linkFreeSlot(n, s)
         IN  /\ Recorded(m) /\ m.slot = [n.slot EXCEPT ![s] = Empty] /\ m.link = n.link
             /\ m.idle = Without(n.idle, s)
             /\ m.handles = IF d.handle THEN n.handles \ {d.tag} ELSE n.handles
             /\ m.told = ToldOf(ToldOf(n.told, d.req, "FAILED"), d.pendReq, "FAILED")
<1> DEFINE d == n.slot[s]
           k == Tell(n, d.req, "FAILED")
           j == Tell(k, d.pendReq, "FAILED")
<1>0. s \in Slots /\ Recorded(n)
  BY InUse, ShapedRecord
<1>1. ASSUME NEW i, Recorded(i), NEW x, NEW word
      PROVE  /\ Recorded(Tell(i, x, word)) /\ Tell(i, x, word).told = ToldOf(i.told, x, word)
             /\ Tell(i, x, word).slot = i.slot /\ Tell(i, x, word).idle = i.idle
             /\ Tell(i, x, word).link = i.link /\ Tell(i, x, word).handles = i.handles
  BY <1>1 DEF Recorded, Tell, ToldOf
<1>2. /\ Recorded(k) /\ k.told = ToldOf(n.told, d.req, "FAILED") /\ k.slot = n.slot
      /\ k.idle = n.idle /\ k.link = n.link /\ k.handles = n.handles
  BY <1>0, <1>1
<1> HIDE DEF k
<1>3. /\ Recorded(j) /\ j.told = ToldOf(k.told, d.pendReq, "FAILED") /\ j.slot = k.slot
      /\ j.idle = k.idle /\ j.link = k.link /\ j.handles = k.handles
  BY <1>1, <1>2
<1>4. linkFreeSlot(n, s) = [j EXCEPT !.handles = IF d.handle THEN j.handles \ {d.tag} ELSE j.handles,
                                     !.slot[s] = Empty, !.idle = Without(j.idle, s)]
  BY DEF linkFreeSlot, j, k
<1> DEFINE h == IF d.handle THEN j.handles \ {d.tag} ELSE j.handles
           q == Without(j.idle, s)
           m == linkFreeSlot(n, s)
<1>5. Filled(j, m, s, Empty, q, h)
  <2> DEFINE e == Empty
  <2> HIDE DEF j, d, q, h, e
  <2>1. m = [j EXCEPT !.handles = h, !.slot[s] = e, !.idle = q]
    BY <1>4 DEF h, q, e
  <2>2. Filled(j, [j EXCEPT !.handles = h, !.slot[s] = e, !.idle = q], s, e, q, h)
    BY <1>3, Filling
  <2> HIDE DEF m
  <2>3. Filled(j, m, s, e, q, h)
    BY <2>1, <2>2
  <2> QED BY <2>3 DEF e
<1> HIDE DEF j, m
<1>6. h = IF d.handle THEN n.handles \ {d.tag} ELSE n.handles
  BY <1>2, <1>3
<1>7. q = Without(n.idle, s)
  BY <1>2, <1>3
<1> QED BY <1>2, <1>3, <1>5, <1>6, <1>7 DEF Filled, m

LEMMA EmptySlot ==
  /\ Empty \in Slot /\ Alone(Empty) /\ Asks(Empty) = {} /\ Has(Empty) = {}
  /\ Empty.tag = None /\ Empty.link = None /\ Empty.handle = FALSE /\ Empty.state = "FREE"
<1>1. Empty \in Slot
  BY SlotAssumption DEF Empty, Slot, States
<1> QED BY <1>1 DEF Empty, Alone, Asks, Has

-----------------------------------------------------------------------------
(* A request is answered, and its slot has it no more.                     *)

LEMMA Spoken ==
  ASSUME NEW n, Core(n), NEW m, Recorded(m), NEW s \in Slots, NEW c,
         SlotTurns(n, m, s, c), LinkTurns(n, m, n.slot[s], c), HandleTurns(n, m, n.slot[s], c),
         Lists(m.idle, Used(m)), m.link \in [Links -> LinkRecord],
         \A l \in Links : m.link[l].asked \subseteq n.link[l].asked,
         NEW q \in Requests, NEW word \in {"RESPONSE", "FAILED"},
         Says(n, m, q, word), n.told[q] = <<>>,
         Asks(c) = Asks(n.slot[s]) \ {q}, Has(c) \subseteq Has(n.slot[s]),
         \A o \in Slots \ {s} : q \notin Asks(n.slot[o])
  PROVE  /\ Core(m) /\ Only(n, m, s, c) /\ m.told[q] = <<word>> /\ Issued(m, q)
         /\ \A r \in Requests \ {q} : Quietly(n, m, r)
<1> DEFINE d == n.slot[s]
<1>1. Shaped(n) /\ SlotsHeld(n) /\ q \in Names /\ word \in Outcomes
  BY DEF Core, Names, Outcomes
<1>2. m.told[q] = <<word>> /\ \A x \in Names \ {q} : m.told[x] = n.told[x]
  BY <1>1 DEF Shaped, Says
<1>3. Shaped(m)
  <2>1. m.told \in [Names -> Seq(Outcomes)]
    BY <1>1, ToldShaped DEF Says
  <2>2. c \in Slot
    BY DEF SlotTurns, Alone
  <2>3. m.slot \in [Slots -> Slot]
    BY <1>1, <2>2 DEF SlotTurns, Shaped
  <2> QED BY <2>1, <2>3 DEF Shaped, Recorded
<1>4. \A o \in Slots : q \notin Has(n.slot[o])
  <2>1. q \notin Resources
    BY SlotAssumption
  <2> QED BY <1>1, <2>1, SlotIs, SlotNames
<1>5. WordTurns(n, m, s, c)
  <2>1. <<word>> \in Said(q)
    BY DEF Said
  <2>2. \A o \in Slots \ {s} : q \notin Asks(n.slot[o]) \cup Has(n.slot[o])
    BY <1>4
  <2>3. q \notin Asks(c) \cup Has(c)
    BY <1>4
  <2>4. \A x \in Asks(c) \cup Has(c) : n.told[x] = <<>>
    BY DEF Core, WordsHeld
  <2> QED BY <1>2, <2>1, <2>2, <2>3, <2>4 DEF WordTurns
<1>6. AskTurns(n, m, d, c)
  <2>1. m.told[q] # <<>>
    BY <1>2
  <2> QED BY <2>1 DEF AskTurns
<1>7. Turns(n, m, s, c)
  BY <1>3, <1>5, <1>6 DEF Turns
<1>8. Core(m) /\ Only(n, m, s, c)
  BY <1>7, Turned
<1>9. Issued(m, q)
  BY <1>2 DEF Issued
<1>10. ASSUME NEW r \in Requests \ {q} PROVE Quietly(n, m, r)
  <2>1. m.told[r] = n.told[r]
    BY <1>2 DEF Names
  <2> QED BY <1>7, <2>1, QuietTurn
<1> QED BY <1>2, <1>8, <1>9, <1>10

LEMMA AskedIsIssued ==
  ASSUME NEW n, Core(n), NEW s \in Slots, NEW q \in Asks(n.slot[s])
  PROVE  /\ q \in Requests /\ Issued(n, q) /\ n.told[q] = <<>>
         /\ \A o \in Slots \ {s} : q \notin Asks(n.slot[o])
<1>1. Shaped(n) /\ SlotsHeld(n)
  BY DEF Core
<1>2. q \in Requests
  BY <1>1, SlotIs, SlotNames
<1>3. n.told[q] = <<>>
  BY DEF Core, WordsHeld
<1>4. Issued(n, q)
  BY <1>1, <1>2, IssuedIs
<1>5. \A o \in Slots \ {s} : q \notin Asks(n.slot[o])
  BY <1>1 DEF SlotsHeld, Apart
<1> QED BY <1>2, <1>3, <1>4, <1>5

(* A slot without a link is freed.                                         *)
FreedSlot(n, m, s) ==
  /\ Core(m) /\ Only(n, m, s, Empty) /\ FailsOne(n, m) /\ m.link = n.link
  /\ m.idle = Without(n.idle, s)

LEMMA Frees ==
  ASSUME NEW n, Core(n), NEW s \in Used(n), n.slot[s].link = None
  PROVE  FreedSlot(n, linkFreeSlot(n, s), s)
<1> DEFINE d == n.slot[s]
           m == linkFreeSlot(n, s)
<1>1. /\ s \in Slots /\ Shaped(n) /\ SlotsHeld(n) /\ Alone(d) /\ d \in Slot /\ d.tag # None
  BY InUse DEF Core
<1>2. /\ Recorded(m) /\ m.slot = [n.slot EXCEPT ![s] = Empty] /\ m.link = n.link
      /\ m.idle = Without(n.idle, s)
      /\ m.handles = IF d.handle THEN n.handles \ {d.tag} ELSE n.handles
      /\ m.told = ToldOf(ToldOf(n.told, d.req, "FAILED"), d.pendReq, "FAILED")
  BY FreeingIs
<1> HIDE DEF m
<1>3. SlotTurns(n, m, s, Empty)
  BY <1>2, EmptySlot DEF SlotTurns, Apart
<1>4. LinkTurns(n, m, d, Empty)
  BY <1>2, EmptySlot DEF LinkTurns
<1>5. HandleTurns(n, m, d, Empty)
  BY <1>2, EmptySlot DEF HandleTurns
<1>6. Lists(m.idle, Used(m))
  <2>1. Only(n, m, s, Empty)
    BY <1>1, <1>2, OnlyOne
  <2>2. Used(m) = Used(n) \ {s}
    BY <1>1, <2>1, EmptySlot, UsedAre
  <2> QED BY <1>2, <2>2, Unlisted DEF Core
<1>7. m.link \in [Links -> LinkRecord] /\ \A l \in Links : m.link[l].asked \subseteq n.link[l].asked
  BY <1>1, <1>2 DEF Shaped
<1>8. CASE d.req = None /\ d.pendReq = None
  <2>1. m.told = n.told
    BY <1>2, <1>8 DEF ToldOf
  <2>2. Asks(d) = {}
    BY <1>8 DEF Asks
  <2>3. Shaped(m)
    BY <1>1, <1>2, <2>1, EmptySlot, StillShaped
  <2>4. WordTurns(n, m, s, Empty) /\ AskTurns(n, m, d, Empty)
    BY <1>2, <2>1, <2>2, EmptySlot DEF WordTurns, AskTurns
  <2>5. Turns(n, m, s, Empty)
    BY <1>3, <1>4, <1>5, <1>6, <2>3, <2>4 DEF Turns
  <2>6. Core(m) /\ Only(n, m, s, Empty)
    BY <1>1, <2>5, Turned
  <2>7. Quiet(n, m)
    BY <1>1, <2>1, <2>2, <2>5, EmptySlot, QuietTurn DEF Quiet
  <2> QED BY <1>2, <2>6, <2>7 DEF FreedSlot, FailsOne, m
<1>9. CASE d.req # None \/ d.pendReq # None
  <2> DEFINE q == IF d.req # None THEN d.req ELSE d.pendReq
  <2>1. q # None /\ Asks(d) = {q} /\ m.told = ToldOf(n.told, q, "FAILED")
    BY <1>1, <1>2, <1>9 DEF Alone, Asks, ToldOf
  <2> HIDE DEF q
  <2>2. /\ q \in Requests /\ Issued(n, q) /\ n.told[q] = <<>>
        /\ \A o \in Slots \ {s} : q \notin Asks(n.slot[o])
    BY <1>1, <2>1, AskedIsIssued
  <2>3. m.told = [n.told EXCEPT ![q] = Append(n.told[q], "FAILED")]
    BY <2>1 DEF ToldOf
  <2>4. Asks(Empty) = Asks(d) \ {q} /\ Has(Empty) \subseteq Has(d)
    BY <2>1, EmptySlot
  <2>5. /\ Core(m) /\ Only(n, m, s, Empty) /\ m.told[q] = <<"FAILED">> /\ Issued(m, q)
        /\ \A r \in Requests \ {q} : Quietly(n, m, r)
    <3> DEFINE word == "FAILED"
    <3>1. word \in {"RESPONSE", "FAILED"}
      OBVIOUS
    <3> HIDE DEF word
    <3>2. Says(n, m, q, word)
      BY <2>3 DEF word, Says
    <3>3. /\ Core(m) /\ Only(n, m, s, Empty) /\ m.told[q] = <<word>> /\ Issued(m, q)
          /\ \A r \in Requests \ {q} : Quietly(n, m, r)
      <4> DEFINE e == Empty
      <4>1. /\ SlotTurns(n, m, s, e) /\ LinkTurns(n, m, n.slot[s], e)
            /\ HandleTurns(n, m, n.slot[s], e)
        BY <1>3, <1>4, <1>5
      <4>2. Asks(e) = Asks(n.slot[s]) \ {q} /\ Has(e) \subseteq Has(n.slot[s])
        BY <2>4
      <4>3. Recorded(m)
        BY <1>2
      <4> HIDE DEF d, e
      <4>4. /\ Core(m) /\ Only(n, m, s, e) /\ m.told[q] = <<word>> /\ Issued(m, q)
            /\ \A r \in Requests \ {q} : Quietly(n, m, r)
        BY <1>1, <1>6, <1>7, <2>2, <3>1, <3>2, <4>1, <4>2, <4>3, Spoken
      <4> QED BY <4>4 DEF e
    <3> QED BY <3>3 DEF word
  <2>6. Ends(n, m, q, "FAILED")
    BY <2>2, <2>5 DEF Ends
  <2> QED BY <1>2, <2>2, <2>5, <2>6 DEF FreedSlot, FailsOne, m
<1> QED BY <1>8, <1>9

-----------------------------------------------------------------------------
(* Nobody is told anything.                                                *)

LEMMA Silent ==
  ASSUME NEW n, Core(n), NEW m, Recorded(m), NEW s \in Slots, NEW c,
         SlotTurns(n, m, s, c), LinkTurns(n, m, n.slot[s], c), HandleTurns(n, m, n.slot[s], c),
         Lists(m.idle, Used(m)), m.link \in [Links -> LinkRecord],
         \A l \in Links : m.link[l].asked \subseteq n.link[l].asked \cup Asks(c),
         m.told = n.told, Asks(n.slot[s]) \subseteq Asks(c),
         \A x \in Asks(c) \cup Has(c) : n.told[x] = <<>>
  PROVE  /\ Core(m) /\ Only(n, m, s, c)
         /\ \A r \in Requests : r \notin Asks(c) \ Asks(n.slot[s]) => Quietly(n, m, r)
<1> DEFINE d == n.slot[s]
<1>1. Shaped(n) /\ SlotsHeld(n)
  BY DEF Core
<1>2. Shaped(m)
  <2>1. m.slot \in [Slots -> Slot]
    BY <1>1 DEF SlotTurns, Shaped, Alone
  <2> QED BY <1>1, <2>1 DEF Shaped, Recorded
<1>3. WordTurns(n, m, s, c)
  BY DEF WordTurns
<1>4. AskTurns(n, m, d, c)
  BY DEF AskTurns
<1>5. Turns(n, m, s, c)
  BY <1>2, <1>3, <1>4 DEF Turns
<1>6. Core(m) /\ Only(n, m, s, c)
  BY <1>5, Turned
<1>7. ASSUME NEW r \in Requests, r \notin Asks(c) \ Asks(d) PROVE Quietly(n, m, r)
  <2>1. r \in Asks(c) <=> r \in Asks(d)
    BY <1>7
  <2>2. m.told[r] = n.told[r]
    OBVIOUS
  <2> QED BY <1>5, <2>1, <2>2, QuietTurn
<1> QED BY <1>6, <1>7

LEMMA SameHandle ==
  ASSUME NEW n, Core(n), NEW m, m.handles = n.handles, NEW s \in Slots,
         NEW c, c.tag = n.slot[s].tag, c.handle = n.slot[s].handle
  PROVE  HandleTurns(n, m, n.slot[s], c)
<1> DEFINE d == n.slot[s]
<1>1. d.handle => d.tag \in n.handles
  <2>1. Alone(d)
    BY DEF Core, SlotsHeld
  <2>2. d.handle => d.tag \in Tags \cup InTags
    BY <2>1 DEF Alone, Slot, Empty
  <2> QED BY <2>2 DEF Core, HandlesHeld
<1> HIDE DEF d
<1> QED BY <1>1 DEF HandleTurns, d

LEMMA StaysListed ==
  ASSUME NEW n, Core(n), NEW m, NEW s \in Used(n), NEW c, Only(n, m, s, c), c.state # "FREE",
         m.idle = n.idle \/ m.idle = Append(Without(n.idle, s), s)
  PROVE  Lists(m.idle, Used(m)) /\ Used(m) = Used(n)
<1>1. Used(m) = Used(n)
  <2>1. s \in Slots /\ Used(m) = Used(n) \cup {s}
    BY InUse, UsedAre
  <2> QED BY <2>1
<1>2. Lists(n.idle, Used(n)) /\ Used(n) \subseteq Slots
  BY DEF Core, Used
<1>3. Lists(Append(Without(n.idle, s), s), Used(n))
  BY <1>2, Touched
<1> QED BY <1>1, <1>2, <1>3

(* A slot that keeps its tag, its handle and its link takes on more.       *)
LEMMA TakesOn ==
  ASSUME NEW n, Core(n), NEW m, Recorded(m), NEW s \in Used(n), NEW c,
         m.slot = [n.slot EXCEPT ![s] = c], m.handles = n.handles, m.told = n.told,
         m.idle = n.idle \/ m.idle = Append(Without(n.idle, s), s),
         Alone(c), c.state # "FREE",
         c.tag = n.slot[s].tag, c.handle = n.slot[s].handle, c.link = n.slot[s].link,
         Asks(n.slot[s]) \subseteq Asks(c),
         \A x \in Asks(c) \ Asks(n.slot[s]) :
           n.told[x] = <<>> /\ \A o \in Slots : x \notin Asks(n.slot[o]),
         \A x \in Has(c) \ Has(n.slot[s]) :
           n.told[x] = <<>> /\ \A o \in Slots : x \notin Has(n.slot[o]),
         m.link \in [Links -> LinkRecord],
         \A l \in Links : l # c.link => m.link[l] = n.link[l],
         c.link # None => /\ Linked(c, m.link[c.link])
                          /\ m.link[c.link].asked \subseteq n.link[c.link].asked \cup Asks(c)
  PROVE  /\ Core(m) /\ Only(n, m, s, c)
         /\ \A r \in Requests : r \notin Asks(c) \ Asks(n.slot[s]) => Quietly(n, m, r)
<1> DEFINE d == n.slot[s]
<1>1. s \in Slots /\ Shaped(n) /\ SlotsHeld(n)
  BY InUse DEF Core
<1>2. SlotTurns(n, m, s, c)
  <2>1. ASSUME NEW o \in Slots \ {s} PROVE Apart(c, n.slot[o])
    <3>1. Apart(d, n.slot[o])
      BY <1>1 DEF SlotsHeld
    <3> HIDE DEF d
    <3>2. Asks(c) \cap Asks(n.slot[o]) = {}
      BY <3>1 DEF Apart, d
    <3>3. Has(c) \cap Has(n.slot[o]) = {}
      BY <3>1 DEF Apart, d
    <3> QED BY <3>1, <3>2, <3>3 DEF Apart, d
  <2> QED BY <2>1 DEF SlotTurns
<1>3. LinkTurns(n, m, d, c)
  BY DEF LinkTurns
<1>4. HandleTurns(n, m, d, c)
  BY <1>1, SameHandle
<1>5. Lists(m.idle, Used(m))
  <2>1. Only(n, m, s, c)
    BY <1>1, OnlyOne
  <2> QED BY <2>1, StaysListed
<1>6. \A l \in Links : m.link[l].asked \subseteq n.link[l].asked \cup Asks(c)
  BY DEF Links, None
<1>7. \A x \in Asks(c) \cup Has(c) : n.told[x] = <<>>
  <2>1. \A x \in Asks(d) \cup Has(d) : n.told[x] = <<>>
    BY <1>1 DEF Core, WordsHeld
  <2> QED BY <2>1
<1> QED BY <1>1, <1>2, <1>3, <1>4, <1>5, <1>6, <1>7, Silent

-----------------------------------------------------------------------------
(* What is started on a link.                                              *)

AskedToo(v, r) == [v EXCEPT !.asked = @ \cup {r}]
CarriesToo(v, x) == [v EXCEPT !.carries = @ \cup {x}]

LEMMA StartingIs ==
  ASSUME NEW n, Shaped(n), NEW s \in Slots, n.slot[s].req = None, NEW r, n.slot[s].link \in Links
  PROVE  LET l == n.slot[s].link
         IN  Parts(linkStartRequest(n, s, r),
                   [n.slot EXCEPT ![s] = [n.slot[s] EXCEPT !.req = r]],
                   Append(Without(n.idle, s), s),
                   [n.link EXCEPT ![l] = AskedToo(n.link[l], r)], n.handles, n.told)
<1> DEFINE d == n.slot[s]
           l == d.link
           c == [d EXCEPT !.req = r]
           v == AskedToo(n.link[l], r)
           j == [n EXCEPT !.slot[s] = c]
           k == [j EXCEPT !.link[l] = v]
<1>1. Parts(n, n.slot, n.idle, n.link, n.handles, n.told)
  BY DEF Parts, Shaped, Recorded
<1>2. [n EXCEPT !.slot[s].req = r, !.link[n.slot[s].link].asked = @ \cup {r}] = k
  <2>1. [n EXCEPT !.slot[s].req = r, !.link[l].asked = @ \cup {r}]
          = [[n EXCEPT !.slot[s].req = r] EXCEPT !.link[l].asked = @ \cup {r}]
    OBVIOUS
  <2>2. [n EXCEPT !.slot[s].req = r] = j
    BY DEF Shaped
  <2>3. [j EXCEPT !.link[l].asked = @ \cup {r}] = k
    BY DEF Shaped, AskedToo
  <2> QED BY <2>1, <2>2, <2>3
<1> HIDE DEF c, v
<1>3. Parts(j, [n.slot EXCEPT ![s] = c], n.idle, n.link, n.handles, n.told)
  BY <1>1, PartSet
<1> HIDE DEF j
<1>4. Parts(k, [n.slot EXCEPT ![s] = c], n.idle, [n.link EXCEPT ![l] = v], n.handles, n.told)
  BY <1>3, PartSet
<1> HIDE DEF k
<1>5. Parts([k EXCEPT !.idle = Append(Without(n.idle, s), s)],
            [n.slot EXCEPT ![s] = c], Append(Without(n.idle, s), s),
            [n.link EXCEPT ![l] = v], n.handles, n.told)
  BY <1>4, PartSet
<1>6. linkStartRequest(n, s, r) = linkTouch(k, s)
  BY <1>2 DEF linkStartRequest
<1>7. linkTouch(k, s) = [k EXCEPT !.idle = Append(Without(n.idle, s), s)]
  BY <1>4 DEF Parts, linkTouch
<1> QED BY <1>5, <1>6, <1>7 DEF c, v

LEMMA CarryingIs ==
  ASSUME NEW n, Shaped(n), NEW s \in Slots, n.slot[s].res = None, NEW x, n.slot[s].link \in Links
  PROVE  LET l == n.slot[s].link
         IN  Parts([n EXCEPT !.slot[s].res = x, !.link[n.slot[s].link].carries = @ \cup {x}],
                   [n.slot EXCEPT ![s] = [n.slot[s] EXCEPT !.res = x]], n.idle,
                   [n.link EXCEPT ![l] = CarriesToo(n.link[l], x)], n.handles, n.told)
<1> DEFINE d == n.slot[s]
           l == d.link
           c == [d EXCEPT !.res = x]
           v == CarriesToo(n.link[l], x)
           j == [n EXCEPT !.slot[s] = c]
           k == [j EXCEPT !.link[l] = v]
<1>1. Parts(n, n.slot, n.idle, n.link, n.handles, n.told)
  BY DEF Parts, Shaped, Recorded
<1>2. [n EXCEPT !.slot[s].res = x, !.link[n.slot[s].link].carries = @ \cup {x}] = k
  <2>1. [n EXCEPT !.slot[s].res = x, !.link[l].carries = @ \cup {x}]
          = [[n EXCEPT !.slot[s].res = x] EXCEPT !.link[l].carries = @ \cup {x}]
    OBVIOUS
  <2>2. [n EXCEPT !.slot[s].res = x] = j
    BY DEF Shaped
  <2>3. [j EXCEPT !.link[l].carries = @ \cup {x}] = k
    BY DEF Shaped, CarriesToo
  <2> QED BY <2>1, <2>2, <2>3
<1> HIDE DEF c, v
<1>3. Parts(j, [n.slot EXCEPT ![s] = c], n.idle, n.link, n.handles, n.told)
  BY <1>1, PartSet
<1> HIDE DEF j
<1>4. Parts(k, [n.slot EXCEPT ![s] = c], n.idle, [n.link EXCEPT ![l] = v], n.handles, n.told)
  BY <1>3, PartSet
<1> QED BY <1>2, <1>4 DEF c, v

LEMMA NotIssued ==
  ASSUME NEW n, Core(n), NEW r \in Requests, ~Issued(n, r)
  PROVE  n.told[r] = <<>> /\ \A o \in Slots : r \notin Asks(n.slot[o])
BY IssuedIs DEF Core

LEMMA NewlyIssued ==
  ASSUME NEW n, Core(n), NEW m, Core(m), NEW s \in Slots, NEW c, Only(n, m, s, c), m.told = n.told,
         NEW q \in Requests, ~Issued(n, q), Asks(c) \ Asks(n.slot[s]) = {q},
         \A r \in Requests : r \notin Asks(c) \ Asks(n.slot[s]) => Quietly(n, m, r)
  PROVE  Opens(n, m, q)
<1>1. n.told[q] = <<>>
  BY NotIssued
<1>2. Issued(m, q)
  <2>1. q \in Asks(m.slot[s])
    BY DEF Only
  <2> QED BY <2>1, IssuedIs DEF Core
<1> QED BY <1>1, <1>2 DEF Opens

LEMMA StartsRequest ==
  ASSUME NEW n, Core(n), NEW s \in Used(n), n.slot[s].state = "ACTIVE",
         n.slot[s].req = None, n.slot[s].pendReq = None, NEW r \in Requests, ~Issued(n, r)
  PROVE  LET m == linkStartRequest(n, s, r)
         IN  /\ Core(m) /\ Only(n, m, s, [n.slot[s] EXCEPT !.req = r]) /\ Opens(n, m, r)
<1> DEFINE d == n.slot[s]
           c == [d EXCEPT !.req = r]
           l == d.link
           m == linkStartRequest(n, s, r)
<1>1. /\ s \in Slots /\ Shaped(n) /\ Alone(d) /\ d \in Slot
      /\ l \in Links /\ Linked(d, n.link[l]) /\ l # None
  BY InUse DEF Alone
<1>2. Parts(m, [n.slot EXCEPT ![s] = c], Append(Without(n.idle, s), s),
            [n.link EXCEPT ![l] = AskedToo(n.link[l], r)], n.handles, n.told)
  BY <1>1, StartingIs
<1> HIDE DEF m
<1>3. r # None
  BY SlotAssumption
<1>4. /\ Alone(c) /\ c.state = "ACTIVE" /\ c.tag = d.tag /\ c.handle = d.handle /\ c.link = l
      /\ Asks(d) = {} /\ Asks(c) = {r} /\ Has(c) = Has(d) /\ c.res = d.res
  <2>1. c \in Slot
    BY <1>1 DEF Slot
  <2>2. /\ c.state = d.state /\ c.tag = d.tag /\ c.handle = d.handle /\ c.link = d.link
        /\ c.attempts = d.attempts /\ c.res = d.res /\ c.pendRes = d.pendRes
        /\ c.req = r /\ c.pendReq = None /\ c.proofs = d.proofs /\ c.receipt = d.receipt
        /\ c.sent = d.sent /\ c.proven = d.proven /\ c.unproven = d.unproven
    BY <1>1 DEF Slot
  <2> HIDE DEF c
  <2>3. Alone(c)
    BY <1>1, <2>1, <2>2 DEF Alone
  <2> QED BY <1>3, <2>2, <2>3 DEF Asks, Has
<1> HIDE DEF c
<1>5. n.link[l] \in LinkRecord
  BY <1>1 DEF Shaped
<1>6. /\ m.link \in [Links -> LinkRecord] /\ \A k \in Links : k # l => m.link[k] = n.link[k]
      /\ m.link[l] = AskedToo(n.link[l], r)
  <2>1. AskedToo(n.link[l], r) \in LinkRecord
    BY <1>5 DEF AskedToo, LinkRecord
  <2> QED BY <1>1, <1>2, <2>1 DEF Parts, Shaped
<1>7. m.link[l].asked = n.link[l].asked \cup {r} /\ Linked(c, m.link[l])
  <2>1. m.link[l].asked = n.link[l].asked \cup {r} /\ m.link[l].status = n.link[l].status
        /\ m.link[l].carries = n.link[l].carries
    BY <1>5, <1>6 DEF AskedToo, LinkRecord
  <2> HIDE DEF d, l
  <2>2. d.state = "ACTIVE"
    BY DEF d
  <2> QED BY <1>1, <1>4, <2>1, <2>2 DEF Linked
<1>8. n.told[r] = <<>> /\ \A o \in Slots : r \notin Asks(n.slot[o])
  BY NotIssued
<1>9. /\ Core(m) /\ Only(n, m, s, c)
      /\ \A q \in Requests : q \notin Asks(c) \ Asks(d) => Quietly(n, m, q)
  <2>1. /\ Recorded(m) /\ m.slot = [n.slot EXCEPT ![s] = c] /\ m.handles = n.handles
        /\ m.told = n.told /\ m.idle = Append(Without(n.idle, s), s)
    BY <1>2 DEF Parts
  <2>2. c.state # "FREE"
    BY <1>4
  <2>3. /\ m.slot = [n.slot EXCEPT ![s] = c] /\ m.handles = n.handles /\ m.told = n.told
        /\ m.idle = n.idle \/ m.idle = Append(Without(n.idle, s), s)
        /\ Alone(c) /\ c.tag = d.tag /\ c.handle = d.handle /\ c.link = l /\ d.link = l
    BY <2>1, <1>4
  <2>4. Asks(d) \subseteq Asks(c)
    BY <1>4
  <2>5. \A x \in Asks(c) \ Asks(d) : n.told[x] = <<>> /\ \A o \in Slots : x \notin Asks(n.slot[o])
    BY <1>4, <1>8
  <2>6. \A x \in Has(c) \ Has(d) : n.told[x] = <<>> /\ \A o \in Slots : x \notin Has(n.slot[o])
    BY <1>4
  <2>7. /\ m.link \in [Links -> LinkRecord] /\ \A k \in Links : k # c.link => m.link[k] = n.link[k]
        /\ c.link # None => /\ Linked(c, m.link[c.link])
                             /\ m.link[c.link].asked \subseteq n.link[c.link].asked \cup Asks(c)
    BY <2>3, <1>4, <1>6, <1>7
  <2> HIDE DEF l
  <2> QED BY <2>1, <2>2, <2>3, <2>4, <2>5, <2>6, <2>7, TakesOn
<1>10. Opens(n, m, r)
  <2>1. Asks(c) \ Asks(d) = {r} /\ m.told = n.told
    BY <1>2, <1>4 DEF Parts
  <2> QED BY <1>1, <1>9, <2>1, NewlyIssued
<1> QED BY <1>9, <1>10 DEF m, c

LEMMA StartsResource ==
  ASSUME NEW n, Core(n), NEW s \in Used(n), n.slot[s].state = "ACTIVE", n.slot[s].res = None,
         NEW x \in Resources, n.told[x] = <<>>, \A o \in Slots : x \notin Has(n.slot[o]),
         NEW m,
         m = [n EXCEPT !.slot[s].res = x, !.link[n.slot[s].link].carries = @ \cup {x}]
  PROVE  Core(m) /\ Only(n, m, s, [n.slot[s] EXCEPT !.res = x]) /\ Quiet(n, m)
<1> DEFINE d == n.slot[s]
           c == [d EXCEPT !.res = x]
           l == d.link
<1>1. /\ s \in Slots /\ Shaped(n) /\ Alone(d) /\ d \in Slot
      /\ l \in Links /\ Linked(d, n.link[l]) /\ l # None
  BY InUse DEF Alone
<1>2. Parts(m, [n.slot EXCEPT ![s] = c], n.idle,
            [n.link EXCEPT ![l] = CarriesToo(n.link[l], x)], n.handles, n.told)
  BY <1>1, CarryingIs
<1>3. x # None
  BY SlotAssumption
<1>4. /\ Alone(c) /\ c.state = "ACTIVE" /\ c.tag = d.tag /\ c.handle = d.handle /\ c.link = l
      /\ Asks(c) = Asks(d) /\ Has(c) = Has(d) \cup {x} /\ c.res = x
  <2>1. c \in Slot
    BY <1>1 DEF Slot
  <2>2. /\ c.state = d.state /\ c.tag = d.tag /\ c.handle = d.handle /\ c.link = d.link
        /\ c.attempts = d.attempts /\ c.res = x /\ c.pendRes = d.pendRes
        /\ c.req = d.req /\ c.pendReq = d.pendReq /\ c.proofs = d.proofs /\ c.receipt = d.receipt
        /\ c.sent = d.sent /\ c.proven = d.proven /\ c.unproven = d.unproven
    BY <1>1 DEF Slot
  <2>3. c.pendRes # x
    <3>1. x \notin Has(d)
      BY <1>1
    <3> QED BY <1>3, <2>2, <3>1 DEF Has
  <2> HIDE DEF c
  <2>4. Alone(c)
    BY <1>1, <2>1, <2>2, <2>3 DEF Alone
  <2> QED BY <1>3, <2>2, <2>4 DEF Asks, Has
<1> HIDE DEF c
<1>5. n.link[l] \in LinkRecord
  BY <1>1 DEF Shaped
<1>6. /\ m.link \in [Links -> LinkRecord] /\ \A k \in Links : k # l => m.link[k] = n.link[k]
      /\ m.link[l] = CarriesToo(n.link[l], x)
  <2>1. CarriesToo(n.link[l], x) \in LinkRecord
    BY <1>5 DEF CarriesToo, LinkRecord
  <2> QED BY <1>1, <1>2, <2>1 DEF Parts, Shaped
<1>7. m.link[l].asked = n.link[l].asked /\ Linked(c, m.link[l])
  <2>1. m.link[l].asked = n.link[l].asked /\ m.link[l].status = n.link[l].status
        /\ m.link[l].carries = n.link[l].carries \cup {x}
    <3> DEFINE v == n.link[l]
    <3>1. v \in LinkRecord /\ m.link[l] = CarriesToo(v, x)
      BY <1>5, <1>6
    <3> HIDE DEF v
    <3>2. /\ CarriesToo(v, x).asked = v.asked /\ CarriesToo(v, x).status = v.status
          /\ CarriesToo(v, x).carries = v.carries \cup {x}
      BY <3>1 DEF CarriesToo, LinkRecord
    <3> QED BY <3>1, <3>2 DEF v
  <2> HIDE DEF d, l
  <2>2. d.state = "ACTIVE" /\ d.res = None
    BY DEF d
  <2>3. n.link[l].carries = {} /\ n.link[l].status = "ACTIVE"
    BY <1>1, <2>2 DEF Linked
  <2> QED BY <1>3, <1>4, <2>1, <2>3 DEF Linked
<1>8. /\ Core(m) /\ Only(n, m, s, c)
      /\ \A q \in Requests : q \notin Asks(c) \ Asks(d) => Quietly(n, m, q)
  <2>1. /\ Recorded(m) /\ m.slot = [n.slot EXCEPT ![s] = c] /\ m.handles = n.handles
        /\ m.told = n.told /\ m.idle = n.idle
    BY <1>2 DEF Parts
  <2>2. c.state # "FREE"
    BY <1>4
  <2>3. \A y \in Has(c) \ Has(d) : n.told[y] = <<>> /\ \A o \in Slots : y \notin Has(n.slot[o])
    BY <1>4
  <2>4. Asks(d) \subseteq Asks(c) /\ Asks(c) \ Asks(d) = {}
    BY <1>4
  <2>5. \A k \in Links : k # c.link => m.link[k] = n.link[k]
    BY <1>4, <1>6
  <2>6. Linked(c, m.link[c.link]) /\ m.link[c.link].asked \subseteq n.link[c.link].asked \cup Asks(c)
    BY <1>4, <1>7
  <2>7. Alone(c) /\ c.tag = d.tag /\ c.handle = d.handle /\ c.link = d.link
    BY <1>4
  <2> QED BY <2>1, <2>2, <2>3, <2>4, <2>5, <2>6, <2>7, <1>6, TakesOn
<1>9. Quiet(n, m)
  BY <1>4, <1>8 DEF Quiet
<1> QED BY <1>8, <1>9 DEF c

(* A link that comes up sends what was held for it.                        *)
Fresh(c) == c.state = "ACTIVE" /\ c.res = None /\ c.req = None
StillFresh(n, m, s) ==
  /\ Core(m) /\ Quiet(n, m) /\ Used(m) = Used(n) /\ Only(n, m, s, m.slot[s])
  /\ Fresh(m.slot[s])

(* A mark that is cleared, or any change of what a slot keeps to itself.   *)
LEMMA PrivateFresh ==
  ASSUME NEW n, Core(n), NEW s \in Used(n), Fresh(n.slot[s]), NEW m, Core(m), Quiet(n, m),
         NEW c, Privately(c, n.slot[s]), Only(n, m, s, c)
  PROVE  StillFresh(n, m, s)
<1>1. s \in Slots /\ n.slot[s].state # "FREE"
  BY InUse
<1>2. c.state = n.slot[s].state /\ Fresh(c)
  BY DEF Privately, Fresh
<1>3. Used(m) = Used(n) \cup {s}
  BY <1>1, <1>2, UsedAre
<1>4. Used(m) = Used(n) /\ m.slot[s] = c
  BY <1>3 DEF Only
<1> QED BY <1>2, <1>4 DEF StillFresh

LEMMA FlushesIdentify ==
  ASSUME NEW n, Core(n), NEW s \in Used(n), Fresh(n.slot[s])
  PROVE  StillFresh(n, FlushIdentify(n, s), s)
<1> DEFINE d == n.slot[s]
           c == [d EXCEPT !.ident = "first", !.identify = FALSE]
           m == [n EXCEPT !.slot[s] = c]
<1>1. Alone(d) /\ d \in Slot /\ Shaped(n) /\ s \in Slots
  BY InUse
<1>2. Privately(c, d)
  <2> DEFINE e == [d EXCEPT !.ident = "first"]
  <2>1. e \in Slot /\ Privately(e, d)
    BY <1>1 DEF Privately, Slot, Counts, Alone
  <2> HIDE DEF e
  <2>2. Privately([e EXCEPT !.identify = FALSE], e)
    <3> DEFINE f == [e EXCEPT !.identify = FALSE]
    <3>1. f \in Slot
      BY <2>1 DEF Slot
    <3>2. /\ f.state = e.state /\ f.tag = e.tag /\ f.handle = e.handle /\ f.link = e.link
          /\ f.attempts = e.attempts /\ f.res = e.res /\ f.pendRes = e.pendRes
          /\ f.req = e.req /\ f.pendReq = e.pendReq /\ f.proofs = e.proofs /\ f.sent = e.sent
          /\ f.proven = e.proven /\ f.unproven = e.unproven /\ f.receipt = e.receipt
      BY <2>1 DEF Slot
    <3> HIDE DEF f
    <3>3. Counts(f)
      BY <2>1, <3>2 DEF Privately, Counts
    <3> QED BY <3>1, <3>2, <3>3 DEF Privately, f
  <2>3. [e EXCEPT !.identify = FALSE] = c
    BY DEF e
  <2> HIDE DEF c
  <2>4. Privately(c, e)
    BY <2>2, <2>3
  <2> QED BY <2>1, <2>4 DEF Privately
<1>3. CASE d.identify
  <2>1. FlushIdentify(n, s) = m
    BY <1>1, <1>3 DEF FlushIdentify, linkIdentifyNow, Shaped
  <2> HIDE DEF c
  <2>2. Core(m) /\ Only(n, m, s, c) /\ Quiet(n, m)
    BY <1>2, PrivateChange
  <2> HIDE DEF m
  <2>3. StillFresh(n, m, s)
    BY <1>2, <2>2, PrivateFresh
  <2> QED BY <2>1, <2>3
<1>4. CASE ~d.identify
  <2>1. FlushIdentify(n, s) = n
    BY <1>4 DEF FlushIdentify
  <2> QED BY <2>1 DEF StillFresh, Quiet, Quietly, Only
<1> QED BY <1>3, <1>4

LEMMA FreshTwice ==
  ASSUME NEW n, NEW k, NEW m, NEW s \in Slots, StillFresh(n, k, s), StillFresh(k, m, s)
  PROVE  StillFresh(n, m, s)
BY DEF StillFresh, Quiet, Quietly, Only

LEMMA FlushesPacket ==
  ASSUME NEW n, Core(n), NEW s \in Used(n), Fresh(n.slot[s])
  PROVE  StillFresh(n, FlushPacket(n, s), s)
<1> DEFINE k == linkTrackTxReceipt(n, s)
<1>1. s \in Slots
  BY InUse
<1>2. StillFresh(n, k, s)
  <2>1. Core(k) /\ Quiet(n, k) /\ \E c : Privately(c, n.slot[s]) /\ Only(n, k, s, c)
    BY ReceiptKeeps
  <2> HIDE DEF k
  <2> QED BY <2>1, PrivateFresh
<1>3. CASE n.slot[s].packet
  <2> DEFINE e == k.slot[s]
             c == [e EXCEPT !.packet = FALSE]
             m == [k EXCEPT !.slot[s] = c]
  <2>0. FlushPacket(n, s) = [k EXCEPT !.slot[s].packet = FALSE]
    BY <1>3 DEF FlushPacket
  <2> HIDE DEF k
  <2>1. Core(k) /\ s \in Used(k) /\ Fresh(e)
    BY <1>2 DEF StillFresh
  <2>2. Alone(e) /\ e \in Slot /\ Shaped(k)
    BY <2>1, InUse
  <2>3. FlushPacket(n, s) = m
    BY <1>1, <2>0, <2>2 DEF Shaped
  <2>4. Privately(c, e)
    <3>1. c \in Slot
      BY <2>2 DEF Slot
    <3>2. /\ c.state = e.state /\ c.tag = e.tag /\ c.handle = e.handle /\ c.link = e.link
          /\ c.attempts = e.attempts /\ c.res = e.res /\ c.pendRes = e.pendRes
          /\ c.req = e.req /\ c.pendReq = e.pendReq /\ c.proofs = e.proofs /\ c.sent = e.sent
          /\ c.proven = e.proven /\ c.unproven = e.unproven /\ c.receipt = e.receipt
      BY <2>2 DEF Slot
    <3> HIDE DEF c, e
    <3>3. Counts(c)
      BY <2>2, <3>2 DEF Alone, Counts
    <3> QED BY <3>1, <3>2, <3>3 DEF Privately
  <2> HIDE DEF c
  <2>5. Core(m) /\ Only(k, m, s, c) /\ Quiet(k, m)
    BY <2>1, <2>4, PrivateChange
  <2> HIDE DEF m
  <2>6. StillFresh(k, m, s)
    BY <2>1, <2>4, <2>5, PrivateFresh
  <2> QED BY <1>1, <1>2, <2>3, <2>6, FreshTwice
<1>4. CASE ~n.slot[s].packet
  <2>1. FlushPacket(n, s) = n
    BY <1>4 DEF FlushPacket
  <2> QED BY <2>1 DEF StillFresh, Quiet, Quietly, Only
<1> QED BY <1>3, <1>4

(* It may carry a resource now.                                            *)
StillUp(n, m, s) ==
  /\ Core(m) /\ Quiet(n, m) /\ Used(m) = Used(n) /\ Only(n, m, s, m.slot[s])
  /\ m.slot[s].state = "ACTIVE" /\ m.slot[s].req = None

LEMMA FlushesResource ==
  ASSUME NEW n, Core(n), NEW s \in Used(n), Fresh(n.slot[s])
  PROVE  StillUp(n, FlushResource(n, s), s)
<1> DEFINE d == n.slot[s]
           x == d.pendRes
           c == [d EXCEPT !.pendRes = None]
           k == [n EXCEPT !.slot[s] = c]
           m == linkStartOutboundResource(k, s, x)
<1>1. /\ s \in Slots /\ Alone(d) /\ d \in Slot /\ Shaped(n) /\ SlotsHeld(n)
      /\ d.link # None /\ Linked(d, n.link[d.link])
  BY InUse DEF Core, Fresh, Alone
<1>2. CASE x = None
  <2>1. FlushResource(n, s) = n
    BY <1>2 DEF FlushResource
  <2> QED BY <2>1 DEF StillUp, Fresh, Quiet, Quietly, Only
<1>3. CASE x # None
  <2>1. FlushResource(n, s) = m
    <3>1. [n EXCEPT !.slot[s].pendRes = None] = k
      BY <1>1 DEF Shaped
    <3> QED BY <1>3, <3>1 DEF FlushResource
  <2>2. /\ c.state = "ACTIVE" /\ c.tag = d.tag /\ c.handle = d.handle /\ c.link = d.link
        /\ c.attempts = d.attempts /\ c.res = None /\ c.pendRes = None
        /\ c.req = None /\ c.pendReq = d.pendReq /\ c.proofs = d.proofs /\ c.receipt = d.receipt
        /\ c.sent = d.sent /\ c.proven = d.proven /\ c.unproven = d.unproven /\ c \in Slot
    BY <1>1, SlotAssumption DEF Slot, Fresh
  <2>3. /\ Recorded(k) /\ k.slot = [n.slot EXCEPT ![s] = c] /\ k.idle = n.idle
        /\ k.link = n.link /\ k.handles = n.handles /\ k.told = n.told
    <3> HIDE DEF c
    <3>1. SlotOnly(n, k, s, c)
      BY <1>1, ShapedRecord, SlotSet
    <3> QED BY <3>1 DEF SlotOnly
  <2>4. d.state = "ACTIVE" /\ d.res = None /\ d.req = None
    BY DEF Fresh
  <2>x. x \in Has(d) /\ x \in Resources
    BY <1>1, <1>3 DEF Has, Slot, Resources
  <2> HIDE DEF c, k
  <2>5. Alone(c) /\ SameOutside(c, d) /\ Has(c) = {}
    BY <1>1, <2>2, <2>4 DEF Alone, SameOutside, Asks, Has
  <2>6. Linked(c, n.link[c.link])
    BY <1>1, <2>2, <2>4 DEF Linked
  <2>7. Core(k) /\ Only(n, k, s, c) /\ Quiet(n, k)
    BY <2>2, <2>3, <2>5, <2>6, Inwardly
  <2>8. Used(k) = Used(n) /\ k.slot[s] = c
    <3>1. c.state # "FREE"
      BY <2>2
    <3> QED BY <2>7, <3>1, SameUsed DEF Only
  <2>9. m = [k EXCEPT !.slot[s].res = x, !.link[k.slot[s].link].carries = @ \cup {x}]
    BY <2>2, <2>8 DEF linkStartOutboundResource
  <2>10. k.told[x] = <<>> /\ \A o \in Slots : x \notin Has(k.slot[o])
    <3>1. n.told[x] = <<>>
      BY <1>1, <2>x DEF Core, WordsHeld
    <3>2. \A o \in Slots \ {s} : x \notin Has(n.slot[o])
      BY <1>1, <2>x DEF SlotsHeld, Apart
    <3> QED BY <2>3, <2>5, <2>7, <3>1, <3>2 DEF Only
  <2> DEFINE e == [c EXCEPT !.res = x]
  <2>11. Core(m) /\ Only(k, m, s, e) /\ Quiet(k, m)
    <3> HIDE DEF m, x
    <3> QED BY <2>x, <2>2, <2>7, <2>8, <2>9, <2>10, StartsResource
  <2>12. e.state = "ACTIVE" /\ e.req = None /\ e.pendReq = d.pendReq
    BY <2>2 DEF Slot
  <2> HIDE DEF m, e
  <2>13. Used(m) = Used(k)
    <3>1. e.state # "FREE" /\ s \in Used(k)
      BY <2>8, <2>12
    <3> QED BY <2>11, <3>1, SameUsed
  <2>14. Only(n, m, s, m.slot[s]) /\ m.slot[s] = e
    BY <2>7, <2>11 DEF Only
  <2>15. Quiet(n, m)
    BY <2>7, <2>11, QuietTwice
  <2>16. StillUp(n, m, s)
    BY <2>8, <2>11, <2>12, <2>13, <2>14, <2>15 DEF StillUp
  <2> QED BY <2>1, <2>16 DEF m
<1> QED BY <1>2, <1>3

LEMMA FlushesRequest ==
  ASSUME NEW n, Core(n), NEW s \in Used(n), n.slot[s].state = "ACTIVE", n.slot[s].req = None
  PROVE  LET m == FlushRequest(n, s)
         IN  /\ Core(m) /\ Quiet(n, m) /\ Only(n, m, s, m.slot[s])
             /\ m.slot[s].pendReq = None
<1> DEFINE d == n.slot[s]
           r == d.pendReq
           e == [d EXCEPT !.pendReq = None]
           c == [e EXCEPT !.req = r]
           l == d.link
           k == [n EXCEPT !.slot[s] = e]
           m == linkStartRequest(k, s, r)
<1>1. /\ s \in Slots /\ Alone(d) /\ d \in Slot /\ Shaped(n) /\ SlotsHeld(n)
      /\ l \in Links /\ l # None /\ Linked(d, n.link[l])
  BY InUse DEF Core, Alone
<1>2. CASE r = None
  <2>1. FlushRequest(n, s) = n
    BY <1>2 DEF FlushRequest
  <2> QED BY <1>2, <2>1 DEF Quiet, Quietly, Only
<1>3. CASE r # None
  <2>1. FlushRequest(n, s) = m
    <3>1. [n EXCEPT !.slot[s].pendReq = None] = k
      BY <1>1 DEF Shaped
    <3> QED BY <1>3, <3>1 DEF FlushRequest
  <2>2. /\ e \in Slot /\ e.link = l /\ e.req = None
    BY <1>1, SlotAssumption DEF Slot
  <2>3. /\ Recorded(k) /\ k.slot = [n.slot EXCEPT ![s] = e] /\ k.idle = n.idle
        /\ k.link = n.link /\ k.handles = n.handles /\ k.told = n.told
    <3> HIDE DEF e
    <3>1. SlotOnly(n, k, s, e)
      BY <1>1, ShapedRecord, SlotSet
    <3> QED BY <3>1 DEF SlotOnly
  <2>4. /\ c \in Slot /\ c.state = "ACTIVE" /\ c.tag = d.tag /\ c.handle = d.handle /\ c.link = d.link
        /\ c.attempts = d.attempts /\ c.res = d.res /\ c.pendRes = d.pendRes
        /\ c.req = r /\ c.pendReq = None /\ c.proofs = d.proofs /\ c.receipt = d.receipt
        /\ c.sent = d.sent /\ c.proven = d.proven /\ c.unproven = d.unproven
    <3>1. /\ e.state = "ACTIVE" /\ e.tag = d.tag /\ e.handle = d.handle /\ e.link = d.link
          /\ e.attempts = d.attempts /\ e.res = d.res /\ e.pendRes = d.pendRes
          /\ e.pendReq = None /\ e.proofs = d.proofs /\ e.receipt = d.receipt
          /\ e.sent = d.sent /\ e.proven = d.proven /\ e.unproven = d.unproven
      BY <1>1 DEF Slot
    <3>2. r \in Requests \cup {None}
      BY <1>1 DEF Slot
    <3>3. e \in Slot
      BY <2>2
    <3> HIDE DEF e, r, d
    <3>4. c \in Slot
      BY <3>2, <3>3 DEF Slot
    <3>5. /\ c.state = e.state /\ c.tag = e.tag /\ c.handle = e.handle /\ c.link = e.link
          /\ c.attempts = e.attempts /\ c.res = e.res /\ c.pendRes = e.pendRes
          /\ c.req = r /\ c.pendReq = e.pendReq /\ c.proofs = e.proofs /\ c.receipt = e.receipt
          /\ c.sent = e.sent /\ c.proven = e.proven /\ c.unproven = e.unproven
      BY <3>3 DEF Slot
    <3> QED BY <3>1, <3>4, <3>5
  <2> HIDE DEF k, c, e
  <2>5. Shaped(k) /\ k.slot[s] = e
    BY <1>1, <2>2, <2>3, StillShaped DEF Shaped
  <2> HIDE DEF m
  <2>6. Parts(m, [n.slot EXCEPT ![s] = c], Append(Without(n.idle, s), s),
              [n.link EXCEPT ![l] = AskedToo(n.link[l], r)], n.handles, n.told)
    <3> HIDE DEF r, l, d
    <3>1. Parts(m, [k.slot EXCEPT ![s] = [k.slot[s] EXCEPT !.req = r]], Append(Without(k.idle, s), s),
                [k.link EXCEPT ![l] = AskedToo(k.link[l], r)], k.handles, k.told)
      BY <1>1, <2>2, <2>5, StartingIs DEF m
    <3>2. [k.slot EXCEPT ![s] = [k.slot[s] EXCEPT !.req = r]] = [k.slot EXCEPT ![s] = c]
      BY <2>5 DEF c
    <3>3. [k.slot EXCEPT ![s] = c] = [n.slot EXCEPT ![s] = c]
      BY <1>1, <2>3 DEF Shaped
    <3> QED BY <2>3, <3>1, <3>2, <3>3
  <2>7. r \in Requests
    BY <1>1, <1>3 DEF Slot
  <2>8. Alone(c) /\ Asks(c) = Asks(d) /\ Has(c) = Has(d)
    <3>1. d.state = "ACTIVE" /\ d.req = None
      OBVIOUS
    <3> HIDE DEF d
    <3> QED BY <1>1, <2>4, <3>1 DEF Alone, Asks, Has, r
  <2>9. n.link[l] \in LinkRecord
    BY <1>1 DEF Shaped
  <2>10. /\ m.link \in [Links -> LinkRecord] /\ \A i \in Links : i # l => m.link[i] = n.link[i]
         /\ m.link[l] = AskedToo(n.link[l], r)
    <3>1. AskedToo(n.link[l], r) \in LinkRecord
      BY <2>7, <2>9 DEF AskedToo, LinkRecord
    <3> QED BY <1>1, <2>6, <3>1 DEF Parts, Shaped
  <2>11. m.link[l].asked = n.link[l].asked \cup {r} /\ Linked(c, m.link[l])
    <3>1. m.link[l].asked = n.link[l].asked \cup {r} /\ m.link[l].status = n.link[l].status
          /\ m.link[l].carries = n.link[l].carries
      BY <2>9, <2>10 DEF AskedToo, LinkRecord
    <3>2. d.state = "ACTIVE"
      OBVIOUS
    <3> HIDE DEF d, l
    <3> QED BY <1>1, <2>4, <3>1, <3>2 DEF Linked
  <2>12. /\ Core(m) /\ Only(n, m, s, c)
         /\ \A q \in Requests : q \notin Asks(c) \ Asks(d) => Quietly(n, m, q)
    <3>1. /\ Recorded(m) /\ m.slot = [n.slot EXCEPT ![s] = c] /\ m.handles = n.handles
          /\ m.told = n.told /\ m.idle = Append(Without(n.idle, s), s)
      BY <2>6 DEF Parts
    <3>2. c.state # "FREE" /\ Asks(d) \subseteq Asks(c) /\ Asks(c) \ Asks(d) = {} /\ Has(c) \ Has(d) = {}
      BY <2>4, <2>8
    <3>3. r \in Asks(c)
      BY <1>3, <2>4 DEF Asks
    <3>4. Linked(c, m.link[c.link]) /\ m.link[c.link].asked \subseteq n.link[c.link].asked \cup Asks(c)
      BY <2>4, <2>11, <3>3
    <3>5. \A i \in Links : i # c.link => m.link[i] = n.link[i]
      BY <2>4, <2>10
    <3> QED BY <2>4, <2>8, <2>10, <3>1, <3>2, <3>4, <3>5, TakesOn
  <2>13. Quiet(n, m)
    BY <2>8, <2>12 DEF Quiet
  <2>14. m.slot[s] = c /\ c.pendReq = None
    BY <2>4, <2>12 DEF Only
  <2> QED BY <2>1, <2>12, <2>13, <2>14 DEF m
<1> QED BY <1>2, <1>3

Up(n, s) ==
  linkTouch([n EXCEPT !.link[n.slot[s].link].status = "ACTIVE", !.slot[s].state = "ACTIVE"], s)
Established(n, s) == FlushRequest(FlushResource(FlushPacket(FlushIdentify(Up(n, s), s), s), s), s)

LEMMA ComesUp ==
  ASSUME NEW n, Core(n), NEW s \in Used(n), n.slot[s].state = "ESTABLISHING", n.slot[s].link # None
  PROVE  StillFresh(n, Up(n, s), s) /\ Up(n, s).slot[s].res = None
<1> DEFINE d == n.slot[s]
           c == [d EXCEPT !.state = "ACTIVE"]
           l == d.link
           v == [n.link[l] EXCEPT !.status = "ACTIVE"]
           j == [n EXCEPT !.link[l] = v]
           k == [j EXCEPT !.slot[s] = c]
           m == linkTouch(k, s)
<1>1. /\ s \in Slots /\ Alone(d) /\ d \in Slot /\ Shaped(n)
      /\ l \in Links /\ l # None /\ Linked(d, n.link[l]) /\ n.link[l] \in LinkRecord
  BY InUse DEF Core, Shaped
<1>2. Up(n, s) = m
  <2>1. [n EXCEPT !.link[l].status = "ACTIVE", !.slot[s].state = "ACTIVE"]
          = [[n EXCEPT !.link[l].status = "ACTIVE"] EXCEPT !.slot[s].state = "ACTIVE"]
    OBVIOUS
  <2>2. [n EXCEPT !.link[l].status = "ACTIVE"] = j
    BY <1>1 DEF Shaped
  <2>3. [j EXCEPT !.slot[s].state = "ACTIVE"] = k
    BY <1>1 DEF Shaped
  <2> QED BY <2>1, <2>2, <2>3 DEF Up
<1>3. Parts(k, [n.slot EXCEPT ![s] = c], n.idle, [n.link EXCEPT ![l] = v], n.handles, n.told)
  <2>1. Parts(n, n.slot, n.idle, n.link, n.handles, n.told)
    BY <1>1, ShapedRecord DEF Parts
  <2> HIDE DEF v, c
  <2>2. Parts(j, n.slot, n.idle, [n.link EXCEPT ![l] = v], n.handles, n.told)
    BY <2>1, PartSet
  <2> HIDE DEF j
  <2> QED BY <2>2, PartSet
<1>4. /\ c \in Slot /\ c.state = "ACTIVE" /\ c.tag = d.tag /\ c.handle = d.handle /\ c.link = d.link
      /\ c.attempts = d.attempts /\ c.res = d.res /\ c.pendRes = d.pendRes
      /\ c.req = d.req /\ c.pendReq = d.pendReq /\ c.proofs = d.proofs /\ c.receipt = d.receipt
      /\ c.sent = d.sent /\ c.proven = d.proven /\ c.unproven = d.unproven
  BY <1>1 DEF Slot, States
<1>5. v \in LinkRecord /\ v.status = "ACTIVE" /\ v.asked = n.link[l].asked /\ v.carries = n.link[l].carries
  BY <1>1 DEF LinkRecord
<1> HIDE DEF v, c
<1>6. d.state = "ESTABLISHING" /\ d.res = None /\ d.req = None
  BY <1>1 DEF Alone
<1> HIDE DEF d
<1>7. Alone(c) /\ Asks(c) = Asks(d) /\ Has(c) = Has(d)
  BY <1>1, <1>4, <1>6 DEF Alone, Asks, Has
<1>8. Linked(c, v)
  <2>1. v.carries = {}
    BY <1>1, <1>5, <1>6 DEF Linked
  <2> QED BY <1>4, <1>5, <1>6, <2>1 DEF Linked
<1> HIDE DEF k
<1>9. Core(k) /\ Only(n, k, s, c) /\ \A q \in Requests : q \notin Asks(c) \ Asks(d) => Quietly(n, k, q)
  <2>1. /\ Recorded(k) /\ k.slot = [n.slot EXCEPT ![s] = c] /\ k.handles = n.handles
        /\ k.told = n.told /\ k.idle = n.idle
    BY <1>3 DEF Parts
  <2>2. /\ k.link \in [Links -> LinkRecord] /\ \A i \in Links : i # c.link => k.link[i] = n.link[i]
        /\ k.link[c.link] = v
    BY <1>1, <1>3, <1>4, <1>5 DEF Parts, Shaped
  <2>3. c.state # "FREE" /\ Asks(d) \subseteq Asks(c) /\ Asks(c) \ Asks(d) = {} /\ Has(c) \ Has(d) = {}
    BY <1>4, <1>7
  <2>4. Linked(c, k.link[c.link]) /\ k.link[c.link].asked \subseteq n.link[c.link].asked \cup Asks(c)
    BY <1>4, <1>5, <1>8, <2>2
  <2> QED BY <1>4, <1>7, <2>1, <2>2, <2>3, <2>4, TakesOn DEF d
<1>10. Quiet(n, k)
  BY <1>7, <1>9 DEF Quiet
<1>11. s \in Used(k) /\ Used(k) = Used(n)
  <2>1. c.state # "FREE"
    BY <1>4
  <2> QED BY <1>9, <2>1, SameUsed
<1>12. Core(m) /\ Quiet(k, m) /\ m.slot = k.slot
  BY <1>9, <1>11, TouchKeeps
<1>13. Quiet(n, m)
  BY <1>10, <1>12, QuietTwice
<1>14. Only(n, m, s, m.slot[s]) /\ m.slot[s] = c /\ Used(m) = Used(n)
  BY <1>9, <1>11, <1>12 DEF Only, Used
<1> QED BY <1>2, <1>4, <1>6, <1>12, <1>13, <1>14 DEF StillFresh, Fresh

LEMMA EstablishedKeeps ==
  ASSUME NEW n, Core(n), NEW s \in Used(n), n.slot[s].state = "ESTABLISHING", n.slot[s].link # None
  PROVE  LET m == Established(n, s)
         IN  Core(m) /\ Quiet(n, m) /\ Only(n, m, s, m.slot[s]) /\ m.slot[s].pendReq = None
<1> DEFINE a == Up(n, s)
           b == FlushIdentify(a, s)
           c == FlushPacket(b, s)
           d == FlushResource(c, s)
           m == FlushRequest(d, s)
<1>1. s \in Slots
  BY InUse
<1>2. StillFresh(n, a, s)
  BY ComesUp
<1>3. Core(a) /\ s \in Used(a) /\ Fresh(a.slot[s])
  BY <1>2 DEF StillFresh
<1> HIDE DEF a
<1>4. StillFresh(a, b, s)
  BY <1>3, FlushesIdentify
<1>5. Core(b) /\ s \in Used(b) /\ Fresh(b.slot[s])
  BY <1>3, <1>4 DEF StillFresh
<1> HIDE DEF b
<1>6. StillFresh(b, c, s)
  BY <1>5, FlushesPacket
<1>7. Core(c) /\ s \in Used(c) /\ Fresh(c.slot[s])
  BY <1>5, <1>6 DEF StillFresh
<1> HIDE DEF c
<1>8. StillUp(c, d, s)
  BY <1>7, FlushesResource
<1>9. Core(d) /\ s \in Used(d) /\ d.slot[s].state = "ACTIVE" /\ d.slot[s].req = None
  BY <1>7, <1>8 DEF StillUp
<1> HIDE DEF d
<1>10. Core(m) /\ Quiet(d, m) /\ Only(d, m, s, m.slot[s]) /\ m.slot[s].pendReq = None
  BY <1>9, FlushesRequest
<1> HIDE DEF m
<1>11. StillFresh(n, c, s)
  BY <1>1, <1>2, <1>4, <1>6, FreshTwice
<1>12. Quiet(n, m) /\ Only(n, m, s, m.slot[s])
  <2>1. Quiet(n, c) /\ Quiet(c, d)
    BY <1>8, <1>11 DEF StillFresh, StillUp
  <2>2. Quiet(n, m)
    BY <1>10, <2>1, QuietTwice
  <2>3. Only(n, m, s, m.slot[s])
    BY <1>8, <1>10, <1>11 DEF StillFresh, StillUp, Only
  <2> QED BY <2>2, <2>3
<1>13. Established(n, s) = m
  BY DEF Established, m, d, c, b, a
<1> QED BY <1>10, <1>12, <1>13

-----------------------------------------------------------------------------
(* A slot is torn down and freed: for a new link, or at its consumer's     *)
(* word.                                                                   *)

LEMMA QuietThen ==
  ASSUME NEW n, NEW k, NEW m, Quiet(n, k)
  PROVE  /\ FailsOne(k, m) => FailsOne(n, m)
         /\ \A q \in Requests : \A word : Ends(k, m, q, word) => Ends(n, m, q, word)
         /\ \A q \in Requests : Opens(k, m, q) => Opens(n, m, q)
         /\ \A q \in Requests : Refuses(k, m, q) => Refuses(n, m, q)
<1>1. \A q \in Requests : \A word : Ends(k, m, q, word) => Ends(n, m, q, word)
  BY DEF Ends, Quiet, Quietly
<1>2. \A q \in Requests : Opens(k, m, q) => Opens(n, m, q)
  BY DEF Opens, Quiet, Quietly
<1>3. \A q \in Requests : Refuses(k, m, q) => Refuses(n, m, q)
  BY DEF Refuses, Quiet, Quietly
<1>4. FailsOne(k, m) => FailsOne(n, m)
  BY <1>1, QuietTwice DEF FailsOne
<1> QED BY <1>1, <1>2, <1>3, <1>4

LEMMA ThenQuiet ==
  ASSUME NEW n, NEW k, NEW m, Quiet(k, m)
  PROVE  /\ FailsOne(n, k) => FailsOne(n, m)
         /\ \A q \in Requests : \A word : Ends(n, k, q, word) => Ends(n, m, q, word)
<1>1. \A q \in Requests : \A word : Ends(n, k, q, word) => Ends(n, m, q, word)
  BY DEF Ends, Quiet, Quietly
<1>2. FailsOne(n, k) => FailsOne(n, m)
  BY <1>1, QuietTwice DEF FailsOne
<1> QED BY <1>1, <1>2

Evicted(n, s) == linkFreeSlot([teardown(n, n.slot[s].link) EXCEPT !.slot[s].link = None], s)

LEMMA Evicts ==
  ASSUME NEW n, Core(n), NEW s \in Used(n)
  PROVE  LET m == Evicted(n, s)
         IN  /\ Core(m) /\ Only(n, m, s, Empty) /\ FailsOne(n, m)
             /\ \A l \in Links : n.link[l] = NoLink => m.link[l] = NoLink
<1> DEFINE k == [teardown(n, n.slot[s].link) EXCEPT !.slot[s].link = None]
           m == linkFreeSlot(k, s)
<1>1. s \in Slots /\ Alone(n.slot[s]) /\ n.slot[s].state # "FREE"
  BY InUse
<1>2. /\ Core(k) /\ Only(n, k, s, TornDown(n.slot[s])) /\ Quiet(n, k) /\ Used(k) = Used(n)
      /\ \A l \in Links : n.link[l] = NoLink => k.link[l] = NoLink
  BY TearsDown
<1>3. TornDown(n.slot[s]).link = None
  BY <1>1, TornFields
<1> HIDE DEF k
<1>4. FreedSlot(k, m, s)
  <2>1. k.slot[s].link = None
    BY <1>2, <1>3 DEF Only
  <2> QED BY <1>2, <2>1, Frees
<1>5. Evicted(n, s) = m
  BY DEF Evicted, k
<1> HIDE DEF m
<1>6. Core(m) /\ Only(n, m, s, Empty) /\ m.link = k.link
  BY <1>2, <1>4 DEF FreedSlot, Only
<1>7. FailsOne(n, m)
  BY <1>2, <1>4, QuietThen DEF FreedSlot
<1> QED BY <1>2, <1>5, <1>6, <1>7

LEMMA LetsGo ==
  ASSUME NEW n, Core(n), NEW s \in Used(n), n.slot[s].handle
  PROVE  LET m == [n EXCEPT !.slot[s].handle = FALSE, !.handles = @ \ {n.slot[s].tag}]
         IN  Core(m) /\ Only(n, m, s, m.slot[s]) /\ Quiet(n, m) /\ Used(m) = Used(n)
<1> DEFINE d == n.slot[s]
           c == [d EXCEPT !.handle = FALSE]
           h == n.handles \ {d.tag}
           j == [n EXCEPT !.slot[s] = c]
           m == [j EXCEPT !.handles = h]
<1>1. /\ s \in Slots /\ Alone(d) /\ d \in Slot /\ Shaped(n) /\ SlotsHeld(n) /\ d.state # "FREE"
      /\ d.link # None => Linked(d, n.link[d.link])
  BY InUse DEF Core
<1>2. [n EXCEPT !.slot[s].handle = FALSE, !.handles = @ \ {n.slot[s].tag}] = m
  <2>1. [n EXCEPT !.slot[s].handle = FALSE] = j
    BY <1>1 DEF Shaped
  <2>2. [n EXCEPT !.slot[s].handle = FALSE, !.handles = @ \ {n.slot[s].tag}]
          = [[n EXCEPT !.slot[s].handle = FALSE] EXCEPT !.handles = n.handles \ {n.slot[s].tag}]
    BY <1>1 DEF Shaped
  <2> QED BY <2>1, <2>2
<1>3. Parts(m, [n.slot EXCEPT ![s] = c], n.idle, n.link, h, n.told)
  <2>1. Parts(n, n.slot, n.idle, n.link, n.handles, n.told)
    BY <1>1, ShapedRecord DEF Parts
  <2> HIDE DEF c
  <2>2. Parts(j, [n.slot EXCEPT ![s] = c], n.idle, n.link, n.handles, n.told)
    BY <2>1, PartSet
  <2> HIDE DEF j, h
  <2> QED BY <2>2, PartSet
<1> HIDE DEF m
<1>4. /\ c \in Slot /\ c.state = d.state /\ c.tag = d.tag /\ c.handle = FALSE /\ c.link = d.link
      /\ c.attempts = d.attempts /\ c.res = d.res /\ c.pendRes = d.pendRes
      /\ c.req = d.req /\ c.pendReq = d.pendReq /\ c.proofs = d.proofs /\ c.receipt = d.receipt
      /\ c.sent = d.sent /\ c.proven = d.proven /\ c.unproven = d.unproven
  <2>1. c \in Slot
    BY <1>1 DEF Slot
  <2>2. /\ c.state = d.state /\ c.tag = d.tag /\ c.handle = FALSE /\ c.link = d.link
        /\ c.attempts = d.attempts /\ c.res = d.res /\ c.pendRes = d.pendRes
    BY <1>1 DEF Slot
  <2>3. /\ c.req = d.req /\ c.pendReq = d.pendReq /\ c.proofs = d.proofs /\ c.receipt = d.receipt
        /\ c.sent = d.sent /\ c.proven = d.proven /\ c.unproven = d.unproven
    BY <1>1 DEF Slot
  <2> QED BY <2>1, <2>2, <2>3
<1> HIDE DEF c
<1>5. Alone(c) /\ Asks(c) = Asks(d) /\ Has(c) = Has(d) /\ c.state # "FREE"
  <2>1. c.state # "FREE"
    BY <1>1, <1>4
  <2> HIDE DEF d
  <2> QED BY <1>1, <1>4, <2>1 DEF Alone, Asks, Has
<1>6. Only(n, m, s, c)
  BY <1>1, <1>3, OnlyOne DEF Parts
<1>7. SlotTurns(n, m, s, c)
  <2>1. ASSUME NEW o \in Slots \ {s} PROVE Apart(c, n.slot[o])
    <3>1. Apart(d, n.slot[o])
      BY <1>1 DEF SlotsHeld
    <3>2. Narrower(c, d)
      BY <1>4, <1>5 DEF Narrower
    <3> HIDE DEF d
    <3> QED BY <3>1, <3>2, NarrowerApart
  <2> QED BY <1>3, <1>5, <2>1 DEF SlotTurns, Parts
<1>8. LinkTurns(n, m, d, c)
  <2>1. c.link # None => Linked(c, n.link[c.link])
    <3> HIDE DEF d
    <3> QED BY <1>1, <1>4 DEF Linked
  <2> QED BY <1>3, <1>4, <2>1 DEF LinkTurns, Parts
<1>9. HandleTurns(n, m, d, c)
  BY <1>3, <1>4 DEF HandleTurns, Parts
<1>10. Lists(m.idle, Used(m)) /\ Used(m) = Used(n)
  BY <1>3, <1>5, <1>6, StaysListed DEF Parts
<1>11. /\ Recorded(m) /\ m.link = n.link /\ m.told = n.told
  BY <1>3 DEF Parts
<1>12. \A x \in Asks(c) \cup Has(c) : n.told[x] = <<>>
  BY <1>1, <1>5 DEF Core, WordsHeld
<1>13. /\ Core(m)
       /\ \A r \in Requests : r \notin Asks(c) \ Asks(d) => Quietly(n, m, r)
  <2>1. Asks(d) \subseteq Asks(c)
    BY <1>5
  <2>2. m.link \in [Links -> LinkRecord] /\ \A l \in Links : m.link[l].asked \subseteq n.link[l].asked \cup Asks(c)
    BY <1>1, <1>11 DEF Shaped
  <2> QED BY <1>1, <1>7, <1>8, <1>9, <1>10, <1>11, <1>12, <2>1, <2>2, Silent
<1>14. Quiet(n, m)
  BY <1>5, <1>13 DEF Quiet
<1>15. Only(n, m, s, m.slot[s])
  BY <1>6 DEF Only
<1> QED BY <1>2, <1>10, <1>13, <1>14, <1>15

LEMMA Disconnects ==
  ASSUME NEW n, Core(n), NEW s \in Used(n), n.slot[s].handle, NEW k,
         k = [n EXCEPT !.slot[s].handle = FALSE, !.handles = @ \ {n.slot[s].tag}]
  PROVE  Core(Evicted(k, s)) /\ Only(n, Evicted(k, s), s, Empty) /\ FailsOne(n, Evicted(k, s))
<1>1. Core(k) /\ Only(n, k, s, k.slot[s]) /\ Quiet(n, k) /\ Used(k) = Used(n)
  BY LetsGo
<1>2. Core(Evicted(k, s)) /\ Only(k, Evicted(k, s), s, Empty) /\ FailsOne(k, Evicted(k, s))
  BY <1>1, Evicts
<1>3. FailsOne(n, Evicted(k, s))
  BY <1>1, <1>2, QuietThen
<1>4. Only(n, Evicted(k, s), s, Empty)
  BY <1>1, <1>2 DEF Only
<1> QED BY <1>2, <1>3, <1>4

-----------------------------------------------------------------------------
(* The slot of a new link.                                                 *)

LEMMA NoSlotIsLost ==
  ASSUME NEW n, Core(n), FreeSlots(n) = {}
  PROVE  Head(n.idle) \in Used(n)
<1>1. 1 \in Slots
  BY SlotAssumption DEF Slots
<1>2. Used(n) # {}
  BY <1>1 DEF FreeSlots
<1> QED BY <1>2, LongestIdle DEF Core

Allocated(n, m, s) ==
  /\ Core(m) /\ FailsOne(n, m) /\ s \in Slots /\ m.slot[s] = Empty
  /\ \A o \in Slots : m.slot[o] \in {n.slot[o], Empty}
  /\ \A l \in Links : n.link[l] = NoLink => m.link[l] = NoLink

LEMMA Allocates ==
  ASSUME NEW n, Core(n)
  PROVE  Allocated(n, linkAlloc(n), NewSlot(n))
<1> DEFINE m == linkAlloc(n)
           s == NewSlot(n)
<1>1. CASE FreeSlots(n) # {}
  <2>1. m = n
    BY <1>1 DEF linkAlloc
  <2>2. s \in FreeSlots(n)
    BY <1>1, <2>1, MinIsLeast DEF NewSlot, FreeSlots, Slots
  <2>3. s \in Slots /\ n.slot[s] = Empty
    BY <2>2 DEF FreeSlots, Used, Core, SlotsHeld, Alone
  <2>4. Quiet(n, n)
    BY DEF Quiet, Quietly
  <2> QED BY <2>1, <2>3, <2>4 DEF Allocated, FailsOne
<1>2. CASE FreeSlots(n) = {}
  <2> DEFINE v == Head(n.idle)
  <2>1. v \in Used(n)
    BY <1>2, NoSlotIsLost
  <2>2. m = Evicted(n, v)
    BY <1>2 DEF linkAlloc, Evicted
  <2>3. s = Min(FreeSlots(m))
    BY DEF NewSlot
  <2> HIDE DEF m, s, v
  <2>4. /\ Core(m) /\ Only(n, m, v, Empty) /\ FailsOne(n, m)
        /\ \A l \in Links : n.link[l] = NoLink => m.link[l] = NoLink
    BY <2>1, <2>2, Evicts
  <2>5. v \in Slots /\ v \in FreeSlots(m)
    BY <2>1, <2>4, InUse, EmptySlot DEF Only, FreeSlots, Used
  <2>6. s \in FreeSlots(m)
    BY <2>3, <2>5, MinIsLeast DEF FreeSlots, Slots
  <2>7. s \in Slots /\ m.slot[s] = Empty
    BY <2>4, <2>6 DEF FreeSlots, Used, Core, SlotsHeld, Alone
  <2>8. \A o \in Slots : m.slot[o] \in {n.slot[o], Empty}
    BY <2>4, <2>5 DEF Only
  <2> QED BY <2>4, <2>7, <2>8 DEF Allocated, m, s
<1> QED BY <1>1, <1>2

(* It is filled in for a tag that has none.                                *)
LEMMA Fills ==
  ASSUME NEW n, Core(n), NEW s \in Slots, n.slot[s] = Empty,
         NEW c, Alone(c), c.state # "FREE", Asks(c) = {}, Has(c) = {},
         \A o \in Slots : n.slot[o].tag # c.tag,
         NEW m, Recorded(m), m.slot = [n.slot EXCEPT ![s] = c], m.idle = Append(n.idle, s),
         m.handles = n.handles \cup (IF c.handle THEN {c.tag} ELSE {}), m.told = n.told,
         m.link \in [Links -> LinkRecord],
         \A l \in Links : l # c.link => m.link[l] = n.link[l],
         c.link # None => /\ c.link \in Links /\ n.link[c.link] = NoLink
                          /\ Linked(c, m.link[c.link]) /\ m.link[c.link].asked = {}
  PROVE  Core(m) /\ Only(n, m, s, c) /\ Quiet(n, m)
<1>1. Shaped(n) /\ SlotsHeld(n)
  BY DEF Core
<1>2. Only(n, m, s, c)
  BY <1>1, OnlyOne
<1>3. ASSUME NEW o \in Slots, c.link # None PROVE n.slot[o].link # c.link
  <2>1. CASE n.slot[o].link = c.link
    <3>1. Linked(n.slot[o], NoLink)
      BY <1>3, <2>1 DEF Core, LinksHeld
    <3> QED BY <3>1 DEF Linked, NoLink
  <2> QED BY <2>1
<1>4. SlotTurns(n, m, s, c)
  BY <1>3 DEF SlotTurns, Apart
<1>5. LinkTurns(n, m, Empty, c)
  BY EmptySlot DEF LinkTurns
<1>6. HandleTurns(n, m, Empty, c)
  BY EmptySlot DEF HandleTurns
<1>7. Lists(m.idle, Used(m))
  <2>1. Used(m) = Used(n) \cup {s}
    BY <1>2, UsedAre
  <2>2. s \notin Used(n)
    BY EmptySlot DEF Used
  <2> QED BY <2>1, <2>2, ListedLast DEF Core
<1>8. \A l \in Links : m.link[l].asked \subseteq n.link[l].asked \cup Asks(c)
  <2>1. ASSUME NEW l \in Links PROVE m.link[l].asked \subseteq n.link[l].asked
    <3>1. l # None
      BY DEF Links, None
    <3>2. CASE l = c.link
      BY <3>1, <3>2
    <3>3. CASE l # c.link
      BY <3>3
    <3> QED BY <3>2, <3>3
  <2> QED BY <2>1
<1>9. /\ Core(m)
      /\ \A r \in Requests : r \notin Asks(c) \ Asks(Empty) => Quietly(n, m, r)
  <2>1. Asks(Empty) \subseteq Asks(c)
    BY EmptySlot
  <2> QED BY <1>4, <1>5, <1>6, <1>7, <1>8, <2>1, Silent
<1>10. Quiet(n, m)
  BY <1>9 DEF Quiet
<1> QED BY <1>2, <1>9, <1>10

-----------------------------------------------------------------------------
(* A link is dialled, or a slot without one changes its state.             *)

Into(n, s, st) == [n EXCEPT !.slot[s].state = st]
LEMMA StateSet ==
  ASSUME NEW n, Core(n), NEW s \in Used(n), n.slot[s].link = None, n.slot[s].req = None,
         NEW st \in {"FAILED", "AWAITING_PATH"},
         st = "AWAITING_PATH" => n.slot[s].attempts < RNSD_LINK_ATTEMPTS
  PROVE  LET m == Into(n, s, st)
         IN  Core(m) /\ Only(n, m, s, m.slot[s]) /\ Quiet(n, m) /\ m.slot[s].state = st
<1> DEFINE d == n.slot[s]
           c == [d EXCEPT !.state = st]
           m == [n EXCEPT !.slot[s] = c]
<1>1. s \in Slots /\ Alone(d) /\ d \in Slot /\ Shaped(n) /\ d.state # "FREE" /\ d.tag # None
  BY InUse
<1>2. Into(n, s, st) = m
  BY <1>1 DEF Shaped, Into
<1>3. /\ c \in Slot /\ c.state = st /\ c.tag = d.tag /\ c.handle = d.handle /\ c.link = d.link
      /\ c.attempts = d.attempts /\ c.res = d.res /\ c.pendRes = d.pendRes
      /\ c.req = d.req /\ c.pendReq = d.pendReq /\ c.proofs = d.proofs /\ c.receipt = d.receipt
      /\ c.sent = d.sent /\ c.proven = d.proven /\ c.unproven = d.unproven
  BY <1>1 DEF Slot, States
<1>4. SlotOnly(n, m, s, c)
  <2> HIDE DEF c
  <2> QED BY <1>1, ShapedRecord, SlotSet
<1> HIDE DEF c, m
<1>5. d.link = None /\ d.req = None /\ d.res = None /\ (st = "AWAITING_PATH" => d.attempts < RNSD_LINK_ATTEMPTS)
  BY <1>1 DEF Alone
<1> HIDE DEF d
<1>6. Alone(c) /\ SameOutside(c, d)
  BY <1>1, <1>3, <1>5 DEF Alone, SameOutside, Asks, Has
<1>7. Core(m) /\ Only(n, m, s, c) /\ Quiet(n, m)
  <2>1. c.state # "FREE" /\ c.link = None
    BY <1>3, <1>5
  <2>2. SameOutside(c, n.slot[s])
    BY <1>6 DEF d
  <2> QED BY <1>4, <1>6, <2>1, <2>2, Inwardly DEF SlotOnly
<1>8. m.slot[s] = c
  BY <1>7 DEF Only
<1> QED BY <1>2, <1>3, <1>7, <1>8

LEMMA UnmadeIs ==
  ASSUME NEW n, Core(n), NEW l \in Unmade(n)
  PROVE  l \in Links /\ l # None /\ n.link[l] = NoLink /\ \A s \in Slots : n.slot[s].link # l
<1>1. l \in Links /\ l # None /\ n.link[l].status = "NONE"
  BY DEF Unmade, Links, None
<1>2. ASSUME NEW s \in Slots, n.slot[s].link = l PROVE FALSE
  <2>1. Linked(n.slot[s], n.link[l])
    BY <1>1, <1>2 DEF Core, LinksHeld
  <2> QED BY <1>1, <2>1 DEF Linked
<1>3. n.link[l] = NoLink
  BY <1>1, <1>2 DEF Core, LinksHeld
<1> QED BY <1>1, <1>2, <1>3

LEMMA FirstUnmade ==
  ASSUME NEW n, Unmade(n) # {}
  PROVE  Min(Unmade(n)) \in Unmade(n)
BY MinIsLeast DEF Unmade, Links

Dialled(d, l) ==
  [d EXCEPT !.state = "ESTABLISHING", !.link = l, !.attempts = @ + 1]
LEMMA DialledIs ==
  ASSUME NEW d, Alone(d), d.state = "AWAITING_PATH", NEW l \in Links
  PROVE  LET c == Dialled(d, l)
         IN  /\ Alone(c) /\ c.state = "ESTABLISHING" /\ c.link = l
             /\ c.tag = d.tag /\ c.handle = d.handle /\ c.pendReq = d.pendReq
             /\ Asks(c) = Asks(d) /\ Has(c) = Has(d)
<1> DEFINE k == d.attempts + 1
           e == [d EXCEPT !.state = "ESTABLISHING"]
           f == [e EXCEPT !.link = l]
           c == [f EXCEPT !.attempts = k]
<1>1. d \in Slot /\ d.attempts < RNSD_LINK_ATTEMPTS /\ d.attempts \in 0 .. RNSD_LINK_ATTEMPTS
  BY DEF Alone, Slot
<1>2. k \in 0 .. RNSD_LINK_ATTEMPTS
  BY <1>1, SlotAssumption
<1>3. Dialled(d, l) = c
  BY <1>1 DEF Dialled, Slot
<1> HIDE DEF k
<1>4. /\ e \in Slot /\ e.state = "ESTABLISHING" /\ e.tag = d.tag /\ e.handle = d.handle
      /\ e.res = d.res /\ e.pendRes = d.pendRes
      /\ e.req = d.req /\ e.pendReq = d.pendReq /\ e.proofs = d.proofs /\ e.receipt = d.receipt
      /\ e.sent = d.sent /\ e.proven = d.proven /\ e.unproven = d.unproven
  BY <1>1 DEF Slot, States
<1> HIDE DEF e
<1>5. /\ f \in Slot /\ f.state = e.state /\ f.tag = e.tag /\ f.handle = e.handle /\ f.link = l
      /\ f.res = e.res /\ f.pendRes = e.pendRes
      /\ f.req = e.req /\ f.pendReq = e.pendReq /\ f.proofs = e.proofs /\ f.receipt = e.receipt
      /\ f.sent = e.sent /\ f.proven = e.proven /\ f.unproven = e.unproven
  BY <1>4 DEF Slot
<1> HIDE DEF f
<1>6. /\ c \in Slot /\ c.state = f.state /\ c.tag = f.tag /\ c.handle = f.handle /\ c.link = f.link
      /\ c.res = f.res /\ c.pendRes = f.pendRes
      /\ c.req = f.req /\ c.pendReq = f.pendReq /\ c.proofs = f.proofs /\ c.receipt = f.receipt
      /\ c.sent = f.sent /\ c.proven = f.proven /\ c.unproven = f.unproven
  BY <1>2, <1>5 DEF Slot
<1> HIDE DEF c
<1>7. Alone(c)
  BY <1>4, <1>5, <1>6 DEF Alone
<1>8. Asks(c) = Asks(d) /\ Has(c) = Has(d)
  BY <1>4, <1>5, <1>6 DEF Asks, Has
<1> QED BY <1>3, <1>4, <1>5, <1>6, <1>7, <1>8

LEMMA KickoffIs ==
  ASSUME NEW n, Shaped(n), NEW s \in Slots, NEW l, l = Min(Unmade(n)), l \in Links
  PROVE  Parts(linkKickoff(n, s), [n.slot EXCEPT ![s] = Dialled(n.slot[s], l)], n.idle,
               [n.link EXCEPT ![l] = [n.link[l] EXCEPT !.status = "PENDING"]], n.handles, n.told)
<1> DEFINE d == n.slot[s]
           c == Dialled(d, l)
           v == [n.link[l] EXCEPT !.status = "PENDING"]
           a == [n EXCEPT !.slot[s].state = "ESTABLISHING"]
           b == [a EXCEPT !.slot[s].link = l]
           e == [b EXCEPT !.slot[s].attempts = @ + 1]
           j == [n EXCEPT !.slot[s] = c]
           k == [j EXCEPT !.link[l] = v]
<1>1. linkKickoff(n, s) = [e EXCEPT !.link[l].status = "PENDING"]
  <2>1. linkKickoff(n, s) =
          [n EXCEPT !.slot[s].state = "ESTABLISHING", !.slot[s].link = l,
                    !.slot[s].attempts = @ + 1, !.link[l].status = "PENDING"]
    BY Zenon DEF linkKickoff
  <2>2. [n EXCEPT !.slot[s].state = "ESTABLISHING", !.slot[s].link = l,
                  !.slot[s].attempts = @ + 1, !.link[l].status = "PENDING"]
          = [[n EXCEPT !.slot[s].state = "ESTABLISHING", !.slot[s].link = l,
                       !.slot[s].attempts = @ + 1] EXCEPT !.link[l].status = "PENDING"]
    OBVIOUS
  <2>3. [n EXCEPT !.slot[s].state = "ESTABLISHING", !.slot[s].link = l, !.slot[s].attempts = @ + 1]
          = [[n EXCEPT !.slot[s].state = "ESTABLISHING", !.slot[s].link = l]
               EXCEPT !.slot[s].attempts = @ + 1]
    BY ZenonT(60)
  <2>4. [n EXCEPT !.slot[s].state = "ESTABLISHING", !.slot[s].link = l] = b
    OBVIOUS
  <2> QED BY <2>1, <2>2, <2>3, <2>4
<1>2. e = j
  <2> DEFINE d1 == [d EXCEPT !.state = "ESTABLISHING"]
             d2 == [d1 EXCEPT !.link = l]
  <2>1. a = [n EXCEPT !.slot[s] = d1]
    BY DEF Shaped
  <2> HIDE DEF a, d1
  <2>2. b = [n EXCEPT !.slot[s] = d2]
    BY <2>1 DEF Shaped
  <2> HIDE DEF b, d2
  <2>3. e = [n EXCEPT !.slot[s] = [d2 EXCEPT !.attempts = @ + 1]]
    BY <2>2 DEF Shaped
  <2>4. [d2 EXCEPT !.attempts = @ + 1] = c
    BY DEF d2, d1, Dialled
  <2> QED BY <2>3, <2>4
<1> HIDE DEF e, c
<1>3. [j EXCEPT !.link[l].status = "PENDING"] = k
  BY DEF Shaped
<1>4. Parts(n, n.slot, n.idle, n.link, n.handles, n.told)
  BY ShapedRecord DEF Parts
<1> HIDE DEF v
<1>5. Parts(j, [n.slot EXCEPT ![s] = c], n.idle, n.link, n.handles, n.told)
  BY <1>4, PartSet
<1>6. linkKickoff(n, s) = k
  BY <1>1, <1>2, <1>3
<1> HIDE DEF j
<1>7. Parts(k, [n.slot EXCEPT ![s] = c], n.idle, [n.link EXCEPT ![l] = v], n.handles, n.told)
  BY <1>5, PartSet
<1> QED BY <1>6, <1>7 DEF c, v

Kicked(n, m, s) == Core(m) /\ Only(n, m, s, m.slot[s]) /\ Quiet(n, m) /\ m.slot[s].state # "ACTIVE"

LEMMA Kicks ==
  ASSUME NEW n, Core(n), NEW s \in Used(n), n.slot[s].state = "AWAITING_PATH", Unmade(n) # {}
  PROVE  Kicked(n, linkKickoff(n, s), s)
<1> DEFINE d == n.slot[s]
           l == Min(Unmade(n))
           c == Dialled(d, l)
           v == [n.link[l] EXCEPT !.status = "PENDING"]
           m == linkKickoff(n, s)
<1>1. /\ s \in Slots /\ Alone(d) /\ Shaped(n) /\ SlotsHeld(n)
  BY InUse DEF Core
<1>2. l \in Links /\ l # None /\ n.link[l] = NoLink /\ \A o \in Slots : n.slot[o].link # l
  BY FirstUnmade, UnmadeIs
<1> HIDE DEF l
<1>3. Parts(m, [n.slot EXCEPT ![s] = c], n.idle, [n.link EXCEPT ![l] = v], n.handles, n.told)
  BY <1>1, <1>2, KickoffIs DEF l
<1> HIDE DEF m
<1>4. /\ v \in LinkRecord /\ v.status = "PENDING" /\ v.asked = {} /\ v.carries = {}
  BY <1>2 DEF NoLink, LinkRecord
<1>5. /\ Alone(c) /\ c.state = "ESTABLISHING" /\ c.link = l
      /\ c.tag = d.tag /\ c.handle = d.handle /\ Asks(c) = Asks(d) /\ Has(c) = Has(d)
  BY <1>1, <1>2, DialledIs
<1> HIDE DEF c, v
<1>6. d.link = None
  <2>1. d.state = "AWAITING_PATH"
    OBVIOUS
  <2> QED BY <1>1, <2>1 DEF Alone
<1>7. Only(n, m, s, c)
  BY <1>1, <1>3, OnlyOne DEF Parts
<1>8. SlotTurns(n, m, s, c)
  <2>1. ASSUME NEW o \in Slots \ {s} PROVE Apart(c, n.slot[o])
    <3>1. Apart(d, n.slot[o])
      BY <1>1 DEF SlotsHeld
    <3>2. n.slot[o].link # l
      BY <1>2
    <3> HIDE DEF d
    <3> QED BY <1>5, <3>1, <3>2 DEF Apart
  <2> QED BY <1>3, <1>5, <2>1 DEF SlotTurns, Parts
<1>9. m.link \in [Links -> LinkRecord] /\ m.link[l] = v /\ \A i \in Links : i # l => m.link[i] = n.link[i]
  BY <1>1, <1>2, <1>3, <1>4 DEF Parts, Shaped
<1>10. LinkTurns(n, m, d, c)
  <2>1. Linked(c, v)
    BY <1>4, <1>5 DEF Linked
  <2> QED BY <1>5, <1>6, <1>9, <2>1 DEF LinkTurns
<1>11. HandleTurns(n, m, d, c)
  BY <1>1, <1>3, <1>5, SameHandle DEF Parts
<1>12. Lists(m.idle, Used(m))
  <2>1. c.state # "FREE" /\ m.idle = n.idle
    BY <1>3, <1>5 DEF Parts
  <2> QED BY <1>7, <2>1, StaysListed
<1>13. \A i \in Links : m.link[i].asked \subseteq n.link[i].asked \cup Asks(c)
  BY <1>4, <1>9
<1>14. \A x \in Asks(c) \cup Has(c) : n.told[x] = <<>>
  BY <1>1, <1>5 DEF Core, WordsHeld
<1>15. Core(m) /\ \A r \in Requests : r \notin Asks(c) \ Asks(d) => Quietly(n, m, r)
  <2>1. Asks(d) \subseteq Asks(c) /\ Recorded(m) /\ m.told = n.told
    BY <1>3, <1>5 DEF Parts
  <2> QED BY <1>1, <1>8, <1>9, <1>10, <1>11, <1>12, <1>13, <1>14, <2>1, Silent
<1>16. Quiet(n, m)
  BY <1>5, <1>15 DEF Quiet
<1>17. Only(n, m, s, m.slot[s]) /\ m.slot[s] = c
  BY <1>7 DEF Only
<1> QED BY <1>5, <1>15, <1>16, <1>17 DEF Kicked, m

LEMMA Refused ==
  ASSUME NEW n, Core(n), NEW s \in Used(n), n.slot[s].state = "AWAITING_PATH"
  PROVE  Kicked(n, kickoffRefused(n, s), s)
<1> DEFINE m == kickoffRefused(n, s)
<1>1. Alone(n.slot[s])
  BY InUse
<1>2. n.slot[s].link = None /\ n.slot[s].req = None
  BY <1>1 DEF Alone
<1>3. Core(m) /\ Only(n, m, s, m.slot[s]) /\ Quiet(n, m) /\ m.slot[s].state = "FAILED"
  <2> DEFINE st == "FAILED"
  <2>1. st \in {"FAILED", "AWAITING_PATH"} /\ st # "AWAITING_PATH"
    OBVIOUS
  <2>2. m = Into(n, s, st)
    BY DEF kickoffRefused, Into
  <2> HIDE DEF st, m
  <2>3. Core(m) /\ Only(n, m, s, m.slot[s]) /\ Quiet(n, m) /\ m.slot[s].state = st
    BY <1>2, <2>1, <2>2, StateSet
  <2> QED BY <2>3 DEF st
<1> QED BY <1>3 DEF Kicked

-----------------------------------------------------------------------------
(* The handlers, one by one: the tables agree after it, and it does to     *)
(* the requests what a step of the service does.                           *)

Serves(n, m) ==
  \/ Quiet(n, m)
  \/ \E q \in Requests :
       \/ Opens(n, m, q) \/ Refuses(n, m, q) \/ Ends(n, m, q, "FAILED")
       \/ q \in replied /\ Ends(n, m, q, "RESPONSE")
Steps(n, m) == Core(m) /\ (Flushed(n) => Flushed(m)) /\ Serves(n, m)

LEMMA FailsServes ==
  ASSUME NEW n, NEW m, FailsOne(n, m)
  PROVE  Serves(n, m)
BY DEF FailsOne, Serves

LEMMA FlushedStill ==
  ASSUME NEW n, NEW m, NEW s \in Slots, NEW c, Flushed(n), Only(n, m, s, c),
         c.state = "ACTIVE" => c.pendReq = None
  PROVE  Flushed(m)
BY DEF Flushed, Only

LEMMA AllocatedFlushed ==
  ASSUME NEW n, NEW m, NEW s, Allocated(n, m, s), Flushed(n)
  PROVE  Flushed(m)
BY EmptySlot DEF Allocated, Flushed

LEMMA KickoffKicks ==
  ASSUME NEW n, Core(n), NEW s \in Used(n), n.slot[s].state = "AWAITING_PATH", Kickoff(n, s)
  PROVE  Kicked(n, rnsd', s)
BY Kicks, Refused DEF Kickoff

(* The tag of a slot that is new is no other slot's.                       *)
LEMMA TagIsFree ==
  ASSUME NEW n, Core(n), NEW m, NEW s, Allocated(n, m, s), NEW t, t # None, Tagged(n, t) = {}
  PROVE  \A o \in Slots : m.slot[o].tag # t
<1>1. ASSUME NEW o \in Slots PROVE n.slot[o].tag # t
  BY EmptySlot DEF Tagged, Used, Core, SlotsHeld, Alone
<1> QED BY <1>1, EmptySlot DEF Allocated

Opened(t) == [Empty EXCEPT !.tag = t, !.handle = TRUE, !.state = "AWAITING_PATH"]
LEMMA OpenedIs ==
  ASSUME NEW t \in Tags
  PROVE  LET c == Opened(t)
         IN  /\ Alone(c) /\ c.state = "AWAITING_PATH" /\ c.tag = t /\ c.handle = TRUE
             /\ c.link = None /\ Asks(c) = {} /\ Has(c) = {}
<1> DEFINE c == Opened(t)
           e == [Empty EXCEPT !.tag = t]
           f == [e EXCEPT !.handle = TRUE]
<1>1. c = [f EXCEPT !.state = "AWAITING_PATH"]
  BY DEF Opened
<1>2. t # None /\ 0 < RNSD_LINK_ATTEMPTS /\ t \in Tags \cup InTags \cup {None}
  BY SlotAssumption
<1>3. /\ e \in Slot /\ e.tag = t /\ e.link = None /\ e.attempts = 0 /\ e.pendRes = None
      /\ e.pendReq = None /\ e.res = None /\ e.req = None /\ e.receipt = FALSE
      /\ e.sent = 0 /\ e.proven = 0 /\ e.unproven = 0
  <2> DEFINE d == Empty
  <2>1. /\ d \in Slot /\ d.link = None /\ d.attempts = 0 /\ d.pendRes = None
        /\ d.pendReq = None /\ d.res = None /\ d.req = None /\ d.receipt = FALSE
        /\ d.sent = 0 /\ d.proven = 0 /\ d.unproven = 0
    BY EmptySlot DEF Empty
  <2>2. e = [d EXCEPT !.tag = t]
    OBVIOUS
  <2> HIDE DEF d, e
  <2> QED BY <1>2, <2>1, <2>2 DEF Slot
<1> HIDE DEF e
<1>4. /\ f \in Slot /\ f.handle = TRUE /\ f.tag = e.tag /\ f.link = e.link
      /\ f.attempts = e.attempts /\ f.pendRes = e.pendRes /\ f.pendReq = e.pendReq
      /\ f.res = e.res /\ f.req = e.req /\ f.receipt = e.receipt
      /\ f.sent = e.sent /\ f.proven = e.proven /\ f.unproven = e.unproven
  BY <1>3 DEF Slot
<1> HIDE DEF f, c
<1>5. /\ c \in Slot /\ c.state = "AWAITING_PATH" /\ c.handle = TRUE /\ c.tag = f.tag
      /\ c.link = f.link /\ c.attempts = f.attempts /\ c.pendRes = f.pendRes
      /\ c.pendReq = f.pendReq /\ c.res = f.res /\ c.req = f.req /\ c.receipt = f.receipt
      /\ c.sent = f.sent /\ c.proven = f.proven /\ c.unproven = f.unproven
  BY <1>1, <1>4 DEF Slot, States
<1>6. Alone(c)
  BY <1>2, <1>3, <1>4, <1>5 DEF Alone
<1> QED BY <1>3, <1>4, <1>5, <1>6 DEF Asks, Has, c

LEMMA onLinkConnectKeeps ==
  ASSUME Core(rnsd), NEW t \in Tags, onLinkConnect(t)
  PROVE  Steps(rnsd, rnsd')
<1> DEFINE a == linkAlloc(rnsd)
           s == NewSlot(rnsd)
           c == Opened(t)
           q == Append(a.idle, s)
           h == a.handles \cup {t}
           n == [a EXCEPT !.slot[s] = c, !.idle = q, !.handles = h]
<1>1. Allocated(rnsd, a, s) /\ t # None /\ Tagged(rnsd, t) = {}
  BY Allocates, SlotAssumption DEF onLinkConnect
<1>2. (route /\ Kickoff(n, s)) \/ (~route /\ rnsd' = n)
  BY DEF onLinkConnect, Opened
<1> HIDE DEF a, s
<1>3. /\ Alone(c) /\ c.state = "AWAITING_PATH" /\ c.tag = t /\ c.handle = TRUE
      /\ c.link = None /\ Asks(c) = {} /\ Has(c) = {}
  BY OpenedIs
<1> HIDE DEF c
<1>4. Core(a) /\ FailsOne(rnsd, a) /\ s \in Slots /\ a.slot[s] = Empty /\ Shaped(a)
  BY <1>1 DEF Allocated, Core
<1>5. Filled(a, n, s, c, q, h)
  <2>1. Recorded(a)
    BY <1>4, ShapedRecord
  <2> HIDE DEF q, h
  <2> QED BY <2>1, Filling
<1> HIDE DEF n
<1>6. Core(n) /\ Only(a, n, s, c) /\ Quiet(a, n)
  <2>1. /\ Recorded(n) /\ n.slot = [a.slot EXCEPT ![s] = c] /\ n.idle = Append(a.idle, s)
        /\ n.handles = a.handles \cup (IF c.handle THEN {c.tag} ELSE {}) /\ n.told = a.told
        /\ n.link = a.link
    BY <1>3, <1>5 DEF Filled
  <2>2. n.link \in [Links -> LinkRecord]
    BY <1>4, <2>1 DEF Shaped
  <2>3. \A o \in Slots : a.slot[o].tag # c.tag
    BY <1>1, <1>3, TagIsFree
  <2>4. c.state # "FREE"
    BY <1>3
  <2> QED BY <1>3, <1>4, <2>1, <2>2, <2>3, <2>4, Fills
<1>7. FailsOne(rnsd, n)
  BY <1>4, <1>6, ThenQuiet
<1>8. Flushed(rnsd) => Flushed(n)
  BY <1>1, <1>3, <1>4, <1>6, AllocatedFlushed, FlushedStill
<1>9. CASE rnsd' = n
  BY <1>6, <1>7, <1>8, <1>9, FailsServes DEF Steps
<1>10. CASE Kickoff(n, s)
  <2>1. s \in Used(n) /\ n.slot[s].state = "AWAITING_PATH"
    BY <1>3, <1>4, <1>6 DEF Used, Only
  <2>2. Kicked(n, rnsd', s)
    BY <1>6, <1>10, <2>1, KickoffKicks
  <2>3. Core(rnsd') /\ FailsOne(rnsd, rnsd')
    BY <1>7, <2>2, ThenQuiet DEF Kicked
  <2>4. Flushed(rnsd) => Flushed(rnsd')
    BY <1>4, <1>8, <2>2, FlushedStill DEF Kicked
  <2> QED BY <2>3, <2>4, FailsServes DEF Steps
<1> QED BY <1>2, <1>9, <1>10

(* What a slot keeps to itself.                                            *)
LEMMA PrivateSteps ==
  ASSUME NEW n, Core(n), NEW s \in Used(n), NEW m, Core(m), Quiet(n, m),
         NEW c, Privately(c, n.slot[s]), Only(n, m, s, c)
  PROVE  Steps(n, m)
<1>1. s \in Slots /\ (Flushed(n) => (c.state = "ACTIVE" => c.pendReq = None))
  BY InUse DEF Privately, Flushed
<1>2. Flushed(n) => Flushed(m)
  BY <1>1, FlushedStill
<1> QED BY <1>2 DEF Steps, Serves

SetTo(n, s, c) == [n EXCEPT !.slot[s] = c]
LEMMA SetToSteps ==
  ASSUME NEW n, Core(n), NEW s \in Used(n), NEW c, Privately(c, n.slot[s])
  PROVE  Steps(n, SetTo(n, s, c))
<1> DEFINE m == SetTo(n, s, c)
<1>1. Core(m) /\ Only(n, m, s, c) /\ Quiet(n, m)
  BY PrivateChange DEF SetTo
<1> HIDE DEF m
<1>2. Steps(n, m)
  BY <1>1, PrivateSteps
<1> QED BY <1>2 DEF m

(* The fields of a slot that others, or its state, depend on.              *)
SameFields(c, d) ==
  /\ c.state = d.state /\ c.tag = d.tag /\ c.handle = d.handle /\ c.link = d.link
  /\ c.attempts = d.attempts /\ c.res = d.res /\ c.pendRes = d.pendRes
  /\ c.req = d.req /\ c.pendReq = d.pendReq
SameCounts(c, d) ==
  /\ c.proofs = d.proofs /\ c.receipt = d.receipt
  /\ c.sent = d.sent /\ c.proven = d.proven /\ c.unproven = d.unproven
LEMMA SamePrivately ==
  ASSUME NEW d, Alone(d), NEW c \in Slot, SameFields(c, d), SameCounts(c, d)
  PROVE  Privately(c, d)
<1>1. Counts(c)
  BY DEF Alone, Counts, SameCounts
<1> QED BY <1>1 DEF Privately, SameFields

LEMMA Marks ==
  ASSUME NEW d, Alone(d)
  PROVE  /\ Privately([d EXCEPT !.packet = TRUE], d)
         /\ Privately([d EXCEPT !.identify = TRUE], d)
         /\ \A i \in {"none", "first", "second"} : Privately([d EXCEPT !.ident = i], d)
<1>1. d \in Slot
  BY DEF Alone
<1>2. Privately([d EXCEPT !.packet = TRUE], d)
  <2> DEFINE c == [d EXCEPT !.packet = TRUE]
  <2>1. c \in Slot /\ SameFields(c, d) /\ SameCounts(c, d)
    BY <1>1 DEF Slot, SameFields, SameCounts
  <2> HIDE DEF c
  <2>2. Privately(c, d)
    BY <2>1, SamePrivately
  <2> QED BY <2>2 DEF c
<1>3. Privately([d EXCEPT !.identify = TRUE], d)
  <2> DEFINE c == [d EXCEPT !.identify = TRUE]
  <2>1. c \in Slot /\ SameFields(c, d) /\ SameCounts(c, d)
    BY <1>1 DEF Slot, SameFields, SameCounts
  <2> HIDE DEF c
  <2>2. Privately(c, d)
    BY <2>1, SamePrivately
  <2> QED BY <2>2 DEF c
<1>4. ASSUME NEW i \in {"none", "first", "second"} PROVE Privately([d EXCEPT !.ident = i], d)
  <2> DEFINE c == [d EXCEPT !.ident = i]
  <2>1. c \in Slot /\ SameFields(c, d) /\ SameCounts(c, d)
    BY <1>1 DEF Slot, SameFields, SameCounts
  <2> HIDE DEF c
  <2>2. Privately(c, d)
    BY <2>1, SamePrivately
  <2> QED BY <2>2 DEF c
<1> QED BY <1>2, <1>3, <1>4

LEMMA linkConsumerSendKeeps ==
  ASSUME Core(rnsd), NEW s \in Used(rnsd), linkConsumerSend(s)
  PROVE  Steps(rnsd, rnsd')
<1> DEFINE d == rnsd.slot[s]
           k == linkTrackTxReceipt(rnsd, s)
           m == linkTouch(k, s)
           c == [d EXCEPT !.packet = TRUE]
<1>1. s \in Slots /\ Alone(d) /\ Shaped(rnsd) /\ d.state # "FREE"
  BY InUse
<1>2. CASE rnsd' = m
  <2>1. Core(k) /\ Quiet(rnsd, k) /\ \E e : Privately(e, d) /\ Only(rnsd, k, s, e)
    BY ReceiptKeeps
  <2>2. PICK e : Privately(e, d) /\ Only(rnsd, k, s, e)
    BY <2>1
  <2> HIDE DEF k
  <2>3. s \in Used(k)
    BY <1>1, <2>2 DEF Privately, Only, Used
  <2>4. Core(m) /\ Quiet(k, m) /\ m.slot = k.slot
    BY <2>1, <2>3, TouchKeeps
  <2> HIDE DEF m
  <2>5. Quiet(rnsd, m) /\ Only(rnsd, m, s, e)
    BY <2>1, <2>2, <2>4, QuietTwice DEF Only
  <2>6. Steps(rnsd, m)
    BY <2>2, <2>4, <2>5, PrivateSteps
  <2> QED BY <1>2, <2>6
<1>3. CASE rnsd' = [rnsd EXCEPT !.slot[s].packet = TRUE]
  <2>1. rnsd' = SetTo(rnsd, s, c)
    BY <1>1, <1>3 DEF SetTo, Shaped
  <2>2. Privately(c, d)
    <3> HIDE DEF d
    <3> QED BY <1>1, Marks
  <2> HIDE DEF c
  <2> QED BY <2>1, <2>2, SetToSteps
<1> QED BY <1>2, <1>3 DEF linkConsumerSend

LEMMA auxIdentifyKeeps ==
  ASSUME Core(rnsd), NEW s \in Used(rnsd), auxIdentify(s)
  PROVE  Steps(rnsd, rnsd')
<1> DEFINE d == rnsd.slot[s]
           c == [d EXCEPT !.identify = TRUE]
           e == [d EXCEPT !.ident = "first"]
<1>1. s \in Slots /\ Alone(d) /\ Shaped(rnsd)
  BY InUse
<1>2. Privately(c, d) /\ Privately(e, d)
  <2> HIDE DEF d
  <2> QED BY <1>1, Marks
<1>3. rnsd' = SetTo(rnsd, s, c) \/ rnsd' = SetTo(rnsd, s, e)
  BY <1>1 DEF auxIdentify, linkIdentifyNow, SetTo, Shaped
<1> HIDE DEF c, e
<1> QED BY <1>2, <1>3, SetToSteps

LEMMA linkIdentifyTickKeeps ==
  ASSUME Core(rnsd), NEW s \in Used(rnsd), linkIdentifyTick(s)
  PROVE  Steps(rnsd, rnsd')
<1> DEFINE d == rnsd.slot[s]
           c == [d EXCEPT !.ident = "none"]
           e == [d EXCEPT !.ident = "second"]
<1>1. s \in Slots /\ Alone(d) /\ Shaped(rnsd)
  BY InUse
<1>2. Privately(c, d) /\ Privately(e, d)
  <2> HIDE DEF d
  <2> QED BY <1>1, Marks
<1>3. rnsd' = SetTo(rnsd, s, c) \/ rnsd' = SetTo(rnsd, s, e)
  BY <1>1 DEF linkIdentifyTick, SetTo, Shaped
<1> HIDE DEF c, e
<1> QED BY <1>2, <1>3, SetToSteps

LEMMA auxProofsKeeps ==
  ASSUME Core(rnsd), NEW s \in Used(rnsd), auxProofs(s)
  PROVE  Steps(rnsd, rnsd')
<1> DEFINE d == rnsd.slot[s]
           e == [d EXCEPT !.proofs = FALSE]
           c == [e EXCEPT !.receipt = FALSE]
           k == SetTo(rnsd, s, e)
<1>1. s \in Slots /\ Alone(d) /\ d \in Slot /\ Shaped(rnsd)
  BY InUse
<1>2. /\ e \in Slot /\ SameFields(e, d) /\ e.proofs = FALSE
  BY <1>1 DEF Slot, SameFields
<1>3. rnsd' = SetTo(rnsd, s, c)
  <2>1. rnsd' = [[rnsd EXCEPT !.slot[s].proofs = FALSE] EXCEPT !.slot[s].receipt = FALSE]
    BY DEF auxProofs
  <2>2. [rnsd EXCEPT !.slot[s].proofs = FALSE] = k
    BY <1>1 DEF SetTo, Shaped
  <2>3. [k EXCEPT !.slot[s].receipt = FALSE] = SetTo(rnsd, s, c)
    BY <1>1 DEF SetTo, Shaped
  <2> QED BY <2>1, <2>2, <2>3
<1> HIDE DEF e
<1>4. c \in Slot /\ SameFields(c, e) /\ c.proofs = FALSE
  <2>1. c \in Slot /\ c.proofs = FALSE
    BY <1>2, ZenonT(60) DEF Slot
  <2>2. SameFields(c, e)
    BY <1>2 DEF Slot, SameFields
  <2> QED BY <2>1, <2>2
<1> HIDE DEF c
<1>5. Privately(c, d)
  BY <1>2, <1>4 DEF Privately, Counts, SameFields
<1> QED BY <1>3, <1>5, SetToSteps

(* One receipt settled, one way or the other.                              *)
Settled(d, p, u) == [d EXCEPT !.receipt = FALSE, !.proven = p, !.unproven = u]
LEMMA SettledPrivately ==
  ASSUME NEW d, Alone(d), d.receipt, NEW p \in Nat, NEW u \in Nat,
         p + u = d.proven + d.unproven + 1
  PROVE  Privately(Settled(d, p, u), d)
<1> DEFINE e == [d EXCEPT !.receipt = FALSE]
           f == [e EXCEPT !.proven = p]
           c == [f EXCEPT !.unproven = u]
<1>1. d \in Slot
  BY DEF Alone
<1>2. Settled(d, p, u) = c
  BY DEF Settled
<1>3. e \in Slot /\ SameFields(e, d) /\ e.receipt = FALSE /\ e.proofs = d.proofs /\ e.sent = d.sent
  <2>1. e \in Slot /\ e.receipt = FALSE /\ e.proofs = d.proofs /\ e.sent = d.sent
    BY <1>1, ZenonT(60) DEF Slot
  <2>2. SameFields(e, d)
    BY <1>1 DEF Slot, SameFields
  <2> QED BY <2>1, <2>2
<1> HIDE DEF e
<1>4. /\ f \in Slot /\ SameFields(f, e) /\ f.receipt = FALSE /\ f.proofs = e.proofs
      /\ f.sent = e.sent /\ f.proven = p
  <2>1. /\ f \in Slot /\ f.receipt = FALSE /\ f.proofs = e.proofs
        /\ f.sent = e.sent /\ f.proven = p
    BY <1>3 DEF Slot
  <2>2. SameFields(f, e)
    BY <1>3 DEF Slot, SameFields
  <2> QED BY <2>1, <2>2
<1> HIDE DEF f
<1>5. /\ c \in Slot /\ SameFields(c, f) /\ c.receipt = FALSE /\ c.proofs = f.proofs
      /\ c.sent = f.sent /\ c.proven = p /\ c.unproven = u
  <2>1. /\ c \in Slot /\ c.receipt = FALSE /\ c.proofs = f.proofs
        /\ c.sent = f.sent /\ c.proven = p /\ c.unproven = u
    BY <1>4 DEF Slot
  <2>2. SameFields(c, f)
    BY <1>4 DEF Slot, SameFields
  <2> QED BY <2>1, <2>2
<1> HIDE DEF c
<1>6. d.proofs => d.sent = d.proven + d.unproven + 1
  BY DEF Alone
<1>7. d.sent \in Nat /\ d.proven \in Nat /\ d.unproven \in Nat
  BY <1>1 DEF Slot
<1>8. Counts(c)
  <2>1. c.proofs => c.sent = p + u
    BY <1>3, <1>4, <1>5, <1>6
  <2> QED BY <1>5, <2>1 DEF Counts
<1>9. SameFields(c, d)
  BY <1>3, <1>4, <1>5 DEF SameFields
<1> QED BY <1>2, <1>5, <1>8, <1>9 DEF Privately, SameFields

LEMMA receiptSettlesKeeps ==
  ASSUME Core(rnsd), NEW s \in Used(rnsd), receiptSettles(s)
  PROVE  Steps(rnsd, rnsd')
<1> DEFINE d == rnsd.slot[s]
<1>1. s \in Slots /\ Alone(d) /\ d \in Slot /\ Shaped(rnsd) /\ d.receipt
  BY InUse DEF receiptSettles
<1>2. d.proven \in Nat /\ d.unproven \in Nat
  BY <1>1 DEF Slot
<1>3. PICK outcome \in {"proven", "unproven"} :
        rnsd' = [rnsd EXCEPT !.slot[s].receipt = FALSE,
                             !.slot[s].proven = IF outcome = "proven" THEN @ + 1 ELSE @,
                             !.slot[s].unproven = IF outcome = "unproven" THEN @ + 1 ELSE @]
  BY DEF receiptSettles
<1> DEFINE p == IF outcome = "proven" THEN d.proven + 1 ELSE d.proven
           u == IF outcome = "unproven" THEN d.unproven + 1 ELSE d.unproven
<1>4. rnsd' = SetTo(rnsd, s, Settled(d, p, u))
  <2> DEFINE A == [rnsd EXCEPT !.slot[s].receipt = FALSE]
             B(n) == [n EXCEPT !.slot[s].proven = IF outcome = "proven" THEN @ + 1 ELSE @]
             C(n) == [n EXCEPT !.slot[s].unproven = IF outcome = "unproven" THEN @ + 1 ELSE @]
             e == [d EXCEPT !.receipt = FALSE]
             f == [e EXCEPT !.proven = p]
             j == SetTo(rnsd, s, e)
             k == SetTo(rnsd, s, f)
  <2>0. rnsd' = [rnsd EXCEPT !.slot[s].receipt = FALSE,
                             !.slot[s].proven = IF outcome = "proven" THEN @ + 1 ELSE @,
                             !.slot[s].unproven = IF outcome = "unproven" THEN @ + 1 ELSE @]
    BY <1>3
  <2>1. rnsd' = C(B(A))
    BY <2>0, ZenonT(60)
  <2>2. A = j
    BY <1>1 DEF SetTo, Shaped
  <2>3. e.proven = d.proven
    BY <1>1 DEF Slot
  <2> HIDE DEF e
  <2>4. B(j) = k
    BY <1>1, <2>3 DEF SetTo, Shaped
  <2>5. f.unproven = d.unproven
    BY <1>1 DEF Slot, e
  <2> HIDE DEF f
  <2>6. C(k) = SetTo(rnsd, s, [f EXCEPT !.unproven = u])
    BY <1>1, <2>5 DEF SetTo, Shaped
  <2>7. [f EXCEPT !.unproven = u] = Settled(d, p, u)
    BY DEF f, e, Settled
  <2> DEFINE g == [f EXCEPT !.unproven = u]
             h == Settled(d, p, u)
  <2> HIDE DEF A, B, C, j, k, g, h
  <2>8. g = h
    BY <2>7 DEF g, h
  <2>9. C(k) = SetTo(rnsd, s, g)
    BY <2>6 DEF g
  <2>10. rnsd' = SetTo(rnsd, s, h)
    BY <2>1, <2>2, <2>4, <2>8, <2>9
  <2> QED BY <2>10 DEF h
<1>5. p \in Nat /\ u \in Nat /\ p + u = d.proven + d.unproven + 1
  BY <1>2
<1> HIDE DEF p, u
<1>6. Privately(Settled(d, p, u), d)
  BY <1>1, <1>5, SettledPrivately
<1> QED BY <1>4, <1>6, SetToSteps

LEMMA onLinkDisconnectKeeps ==
  ASSUME Core(rnsd), NEW s \in Used(rnsd), onLinkDisconnect(s)
  PROVE  Steps(rnsd, rnsd')
<1> DEFINE n == [rnsd EXCEPT !.slot[s].handle = FALSE, !.handles = @ \ {rnsd.slot[s].tag}]
           m == Evicted(n, s)
<1>1. s \in Slots /\ rnsd.slot[s].handle
  BY InUse DEF onLinkDisconnect
<1>2. rnsd' = m
  BY DEF onLinkDisconnect, Evicted
<1>3. Core(m) /\ Only(rnsd, m, s, Empty) /\ FailsOne(rnsd, m)
  <2> DEFINE k == n
  <2>1. k = [rnsd EXCEPT !.slot[s].handle = FALSE, !.handles = @ \ {rnsd.slot[s].tag}]
    OBVIOUS
  <2> HIDE DEF k
  <2>2. Core(Evicted(k, s)) /\ Only(rnsd, Evicted(k, s), s, Empty) /\ FailsOne(rnsd, Evicted(k, s))
    BY <1>1, <2>1, Disconnects
  <2> QED BY <2>2 DEF k
<1> HIDE DEF m
<1>4. Flushed(rnsd) => Flushed(m)
  BY <1>1, <1>3, EmptySlot, FlushedStill
<1> QED BY <1>2, <1>3, <1>4, FailsServes DEF Steps

LEMMA reclaimKeeps ==
  ASSUME Core(rnsd), NEW s \in Used(rnsd), reclaim(s)
  PROVE  Steps(rnsd, rnsd')
<1> DEFINE m == linkFreeSlot(rnsd, s)
<1>1. s \in Slots /\ Alone(rnsd.slot[s])
  BY InUse
<1>2. rnsd.slot[s].link = None
  BY <1>1 DEF reclaim, Alone
<1>3. FreedSlot(rnsd, m, s)
  BY <1>2, Frees
<1>4. rnsd' = m
  BY DEF reclaim
<1> HIDE DEF m
<1>5. Flushed(rnsd) => Flushed(m)
  BY <1>1, <1>3, EmptySlot, FlushedStill DEF FreedSlot
<1> QED BY <1>3, <1>4, <1>5, FailsServes DEF Steps, FreedSlot

(* A state with the slots of another.                                      *)
LEMMA Unturned ==
  ASSUME NEW n, Core(n), NEW m, Recorded(m), m.slot = n.slot, m.handles = n.handles, m.idle = n.idle,
         NEW s \in Slots
  PROVE  /\ SlotTurns(n, m, s, n.slot[s]) /\ HandleTurns(n, m, n.slot[s], n.slot[s])
         /\ Lists(m.idle, Used(m))
<1>1. SlotTurns(n, m, s, n.slot[s])
  <2>1. m.slot = [n.slot EXCEPT ![s] = n.slot[s]]
    BY DEF Core, Shaped
  <2> QED BY <2>1 DEF SlotTurns, Core, SlotsHeld
<1>2. HandleTurns(n, m, n.slot[s], n.slot[s])
  BY SameHandle
<1>3. Lists(m.idle, Used(m))
  BY DEF Core, Used
<1> QED BY <1>1, <1>2, <1>3

LEMMA TellRefuses ==
  ASSUME NEW n, Core(n), NEW r \in Requests, ~Issued(n, r)
  PROVE  Steps(n, Tell(n, r, "FAILED"))
<1> DEFINE word == "FAILED"
           m == Tell(n, r, word)
           s == 1
           c == n.slot[s]
<1>1. s \in Slots /\ r # None /\ Shaped(n)
  BY SlotAssumption DEF Slots, Core
<1>2. n.told[r] = <<>> /\ \A o \in Slots : r \notin Asks(n.slot[o])
  BY NotIssued
<1>3. /\ Recorded(m) /\ Says(n, m, r, word)
      /\ m.slot = n.slot /\ m.idle = n.idle /\ m.link = n.link /\ m.handles = n.handles
  <2>1. SaidOnly(n, m, r, word)
    BY <1>1, TellingOnly
  <2> HIDE DEF m, word
  <2> QED BY <2>1 DEF SaidOnly
<1>w. word \in {"RESPONSE", "FAILED"}
  OBVIOUS
<1> HIDE DEF s, m, word
<1>4. /\ SlotTurns(n, m, s, c) /\ HandleTurns(n, m, c, c) /\ Lists(m.idle, Used(m))
  BY <1>1, <1>3, Unturned
<1>5. LinkTurns(n, m, c, c)
  BY <1>1, <1>3 DEF LinkTurns, Core, LinksHeld
<1>6. m.link \in [Links -> LinkRecord] /\ \A l \in Links : m.link[l].asked \subseteq n.link[l].asked
  BY <1>1, <1>3 DEF Shaped
<1>7. Asks(c) = Asks(n.slot[s]) \ {r}
  BY <1>1, <1>2
<1>8. /\ Core(m) /\ m.told[r] = <<word>> /\ \A q \in Requests \ {r} : Quietly(n, m, q)
  BY <1>1, <1>2, <1>3, <1>4, <1>5, <1>6, <1>7, <1>w, Spoken
<1>9. Refuses(n, m, r)
  BY <1>8 DEF Refuses, word
<1>10. Flushed(n) => Flushed(m)
  BY <1>3 DEF Flushed
<1> QED BY <1>8, <1>9, <1>10 DEF Steps, Serves, m, word

LEMMA auxRequestUnknownKeeps ==
  ASSUME Core(rnsd), NEW r \in Requests, auxRequestUnknown(r)
  PROVE  Steps(rnsd, rnsd')
BY TellRefuses DEF auxRequestUnknown

(* A request waits in the slot of a link that is not up.                   *)
LEMMA Waits ==
  ASSUME NEW n, Core(n), NEW s \in Used(n), n.slot[s].state # "ACTIVE",
         n.slot[s].req = None, n.slot[s].pendReq = None, NEW r \in Requests, ~Issued(n, r)
  PROVE  Steps(n, SetTo(n, s, [n.slot[s] EXCEPT !.pendReq = r]))
<1> DEFINE d == n.slot[s]
           c == [d EXCEPT !.pendReq = r]
           m == SetTo(n, s, c)
<1>1. /\ s \in Slots /\ Alone(d) /\ d \in Slot /\ Shaped(n) /\ r # None /\ d.state # "FREE"
      /\ d.link # None => d.link \in Links /\ Linked(d, n.link[d.link])
  BY InUse, SlotAssumption
<1>2. SlotOnly(n, m, s, c)
  <2> HIDE DEF c
  <2> QED BY <1>1, ShapedRecord, SlotSet DEF SetTo
<1>3. /\ c \in Slot /\ c.state = d.state /\ c.tag = d.tag /\ c.handle = d.handle /\ c.link = d.link
      /\ c.attempts = d.attempts /\ c.res = d.res /\ c.pendRes = d.pendRes
      /\ c.req = d.req /\ c.pendReq = r /\ c.proofs = d.proofs /\ c.receipt = d.receipt
      /\ c.sent = d.sent /\ c.proven = d.proven /\ c.unproven = d.unproven
  BY <1>1 DEF Slot
<1> HIDE DEF c, m
<1>4. d.req = None /\ d.pendReq = None /\ d.state # "ACTIVE"
  OBVIOUS
<1>5. Alone(c) /\ Asks(c) = {r} /\ Asks(d) = {} /\ Has(c) = Has(d)
  <2> HIDE DEF d
  <2> QED BY <1>1, <1>3, <1>4 DEF Alone, Asks, Has
<1>6. c.link # None => Linked(c, n.link[c.link])
  <2> HIDE DEF d
  <2> QED BY <1>1, <1>3 DEF Linked
<1>7. n.told[r] = <<>> /\ \A o \in Slots : r \notin Asks(n.slot[o])
  BY NotIssued
<1>8. /\ Core(m) /\ Only(n, m, s, c)
      /\ \A q \in Requests : q \notin Asks(c) \ Asks(d) => Quietly(n, m, q)
  <2>1. /\ Recorded(m) /\ m.slot = [n.slot EXCEPT ![s] = c] /\ m.handles = n.handles
        /\ m.told = n.told /\ m.idle = n.idle /\ m.link = n.link
    BY <1>2 DEF SlotOnly
  <2>2. c.state # "FREE" /\ m.link \in [Links -> LinkRecord]
    BY <1>1, <1>3, <2>1 DEF Shaped
  <2>3. c.link # None => Linked(c, m.link[c.link])
    BY <1>6, <2>1
  <2>4. \A x \in Asks(c) \ Asks(d) : n.told[x] = <<>> /\ \A o \in Slots : x \notin Asks(n.slot[o])
    BY <1>5, <1>7
  <2>5. Asks(d) \subseteq Asks(c) /\ Has(c) \ Has(d) = {}
    BY <1>5
  <2> HIDE DEF d
  <2> QED BY <1>3, <1>5, <2>1, <2>2, <2>3, <2>4, <2>5, TakesOn DEF d
<1>9. Opens(n, m, r)
  <2>1. Asks(c) \ Asks(d) = {r} /\ m.told = n.told
    BY <1>2, <1>5 DEF SlotOnly
  <2> QED BY <1>1, <1>8, <2>1, NewlyIssued
<1>10. Flushed(n) => Flushed(m)
  <2>1. c.state # "ACTIVE"
    BY <1>3, <1>4
  <2> QED BY <1>1, <1>8, <2>1, FlushedStill
<1> QED BY <1>8, <1>9, <1>10 DEF Steps, Serves, m, c

LEMMA auxRequestKeeps ==
  ASSUME Core(rnsd), Flushed(rnsd), NEW s \in Used(rnsd), NEW r \in Requests, auxRequest(s, r)
  PROVE  Steps(rnsd, rnsd')
<1> DEFINE d == rnsd.slot[s]
<1>1. s \in Slots /\ Alone(d) /\ d \in Slot /\ Shaped(rnsd) /\ ~Issued(rnsd, r)
  BY InUse DEF auxRequest
<1>2. CASE d.state = "ACTIVE"
  <2>1. rnsd' = linkStartRequest(rnsd, s, r)
    BY <1>2 DEF auxRequest
  <2>2. CASE d.req # None
    <3>1. rnsd' = Tell(rnsd, r, "FAILED")
      BY <2>1, <2>2 DEF linkStartRequest
    <3> QED BY <1>1, <3>1, TellRefuses
  <2>3. CASE d.req = None
    <3>1. d.pendReq = None
      BY <1>1, <1>2 DEF Flushed
    <3> DEFINE c == [d EXCEPT !.req = r]
    <3>2. Core(rnsd') /\ Only(rnsd, rnsd', s, c) /\ Opens(rnsd, rnsd', r)
      BY <1>1, <1>2, <2>1, <2>3, <3>1, StartsRequest
    <3>3. c.pendReq = None
      BY <1>1, <3>1 DEF Slot
    <3> HIDE DEF c
    <3>4. Flushed(rnsd')
      BY <1>1, <3>2, <3>3, FlushedStill
    <3> QED BY <3>2, <3>4 DEF Steps, Serves
  <2> QED BY <2>2, <2>3
<1>3. CASE d.state # "ACTIVE" /\ (d.pendReq # None \/ d.req # None)
  <2>1. rnsd' = Tell(rnsd, r, "FAILED")
    BY <1>3 DEF auxRequest
  <2> QED BY <1>1, <2>1, TellRefuses
<1>4. CASE d.state # "ACTIVE" /\ d.pendReq = None /\ d.req = None
  <2>1. rnsd' = SetTo(rnsd, s, [d EXCEPT !.pendReq = r])
    <3>1. rnsd' = [rnsd EXCEPT !.slot[s].pendReq = r]
      BY <1>4 DEF auxRequest
    <3> QED BY <1>1, <3>1 DEF SetTo, Shaped
  <2> QED BY <1>1, <1>4, <2>1, Waits
<1> QED BY <1>2, <1>3, <1>4

LEMMA NotStarted ==
  ASSUME NEW n, Core(n), NEW x \in Resources, ~Started(n, x)
  PROVE  n.told[x] = <<>> /\ \A o \in Slots : x \notin Has(n.slot[o])
<1>1. ASSUME NEW o \in Slots, x \in Has(n.slot[o]) PROVE o \in Used(n)
  BY <1>1, EmptySlot DEF Used, Core, SlotsHeld, Alone
<1> QED BY <1>1 DEF Started, Has

LEMMA ResourceSteps ==
  ASSUME NEW n, Core(n), NEW s \in Used(n), n.slot[s].state = "ACTIVE", n.slot[s].res = None,
         NEW x \in Resources, ~Started(n, x), NEW m,
         m = [n EXCEPT !.slot[s].res = x, !.link[n.slot[s].link].carries = @ \cup {x}]
  PROVE  Steps(n, m)
<1>1. s \in Slots /\ n.slot[s] \in Slot
  BY InUse
<1>2. Core(m) /\ Only(n, m, s, [n.slot[s] EXCEPT !.res = x]) /\ Quiet(n, m)
  BY NotStarted, StartsResource
<1>3. ASSUME Flushed(n) PROVE Flushed(m)
  <2> DEFINE c == [n.slot[s] EXCEPT !.res = x]
  <2>1. c.pendReq = None
    BY <1>1, <1>3 DEF Slot, Flushed
  <2>2. Only(n, m, s, c)
    BY <1>2
  <2> HIDE DEF c
  <2> QED BY <1>1, <1>3, <2>1, <2>2, FlushedStill
<1> QED BY <1>2, <1>3 DEF Steps, Serves

LEMMA onResAdvertisedKeeps ==
  ASSUME Core(rnsd), NEW s \in Used(rnsd), NEW x \in Inbound, onResAdvertised(s, x)
  PROVE  Steps(rnsd, rnsd')
BY ResourceSteps DEF onResAdvertised, Resources

LEMMA Pends ==
  ASSUME NEW n, Core(n), NEW s \in Used(n), n.slot[s].state # "ACTIVE", n.slot[s].res = None,
         n.slot[s].pendRes = None, NEW x \in Outbound, ~Started(n, x)
  PROVE  Steps(n, SetTo(n, s, [n.slot[s] EXCEPT !.pendRes = x]))
<1> DEFINE d == n.slot[s]
           c == [d EXCEPT !.pendRes = x]
           m == SetTo(n, s, c)
<1>1. /\ s \in Slots /\ Alone(d) /\ d \in Slot /\ Shaped(n) /\ d.state # "FREE"
      /\ d.link # None => d.link \in Links /\ Linked(d, n.link[d.link])
  BY InUse
<1>r. x \in Resources /\ x # None
  BY SlotAssumption DEF Resources
<1>2. SlotOnly(n, m, s, c)
  <2> HIDE DEF c
  <2> QED BY <1>1, ShapedRecord, SlotSet DEF SetTo
<1>3. /\ c \in Slot /\ c.state = d.state /\ c.tag = d.tag /\ c.handle = d.handle /\ c.link = d.link
      /\ c.attempts = d.attempts /\ c.res = d.res /\ c.pendRes = x
      /\ c.req = d.req /\ c.pendReq = d.pendReq /\ c.proofs = d.proofs /\ c.receipt = d.receipt
      /\ c.sent = d.sent /\ c.proven = d.proven /\ c.unproven = d.unproven
  BY <1>1 DEF Slot
<1> HIDE DEF c, m
<1>4. d.res = None /\ d.pendRes = None /\ d.state # "ACTIVE"
  OBVIOUS
<1>5. Alone(c) /\ Asks(c) = Asks(d) /\ Has(c) = {x} /\ Has(d) = {}
  <2> HIDE DEF d
  <2> QED BY <1>1, <1>r, <1>3, <1>4 DEF Alone, Asks, Has
<1>6. c.link # None => Linked(c, n.link[c.link])
  <2> HIDE DEF d
  <2> QED BY <1>1, <1>3 DEF Linked
<1>7. n.told[x] = <<>> /\ \A o \in Slots : x \notin Has(n.slot[o])
  BY <1>r, NotStarted
<1>8. /\ Core(m) /\ Only(n, m, s, c)
      /\ \A q \in Requests : q \notin Asks(c) \ Asks(d) => Quietly(n, m, q)
  <2>1. /\ Recorded(m) /\ m.slot = [n.slot EXCEPT ![s] = c] /\ m.handles = n.handles
        /\ m.told = n.told /\ m.idle = n.idle /\ m.link = n.link
    BY <1>2 DEF SlotOnly
  <2>2. c.state # "FREE" /\ m.link \in [Links -> LinkRecord]
    BY <1>1, <1>3, <2>1 DEF Shaped
  <2>3. c.link # None => Linked(c, m.link[c.link])
    BY <1>6, <2>1
  <2>4. \A y \in Has(c) \ Has(d) : n.told[y] = <<>> /\ \A o \in Slots : y \notin Has(n.slot[o])
    BY <1>5, <1>7
  <2>5. Asks(d) \subseteq Asks(c) /\ Asks(c) \ Asks(d) = {}
    BY <1>5
  <2> HIDE DEF d
  <2> QED BY <1>3, <1>5, <2>1, <2>2, <2>3, <2>4, <2>5, TakesOn DEF d
<1>9. Quiet(n, m)
  BY <1>5, <1>8 DEF Quiet
<1>10. Flushed(n) => Flushed(m)
  <2>1. c.state # "ACTIVE"
    BY <1>3, <1>4
  <2> QED BY <1>1, <1>8, <2>1, FlushedStill
<1> QED BY <1>8, <1>9, <1>10 DEF Steps, Serves, m, c

LEMMA auxSendResourceKeeps ==
  ASSUME Core(rnsd), NEW s \in Used(rnsd), NEW x \in Outbound, auxSendResource(s, x)
  PROVE  Steps(rnsd, rnsd')
<1>1. s \in Slots /\ Shaped(rnsd) /\ x \in Resources
  BY InUse DEF Resources
<1>2. CASE rnsd.slot[s].state = "ACTIVE"
  <2>1. rnsd' = [rnsd EXCEPT !.slot[s].res = x, !.link[rnsd.slot[s].link].carries = @ \cup {x}]
    BY <1>2 DEF auxSendResource, linkStartOutboundResource
  <2>2. rnsd.slot[s].res = None /\ ~Started(rnsd, x)
    BY DEF auxSendResource
  <2> QED BY <1>1, <1>2, <2>1, <2>2, ResourceSteps
<1>3. CASE rnsd.slot[s].state # "ACTIVE"
  <2>1. rnsd' = [rnsd EXCEPT !.slot[s].pendRes = x]
    BY <1>3 DEF auxSendResource
  <2>2. rnsd' = SetTo(rnsd, s, [rnsd.slot[s] EXCEPT !.pendRes = x])
    BY <1>1, <2>1 DEF SetTo, Shaped
  <2>3. rnsd.slot[s].res = None /\ rnsd.slot[s].pendRes = None /\ ~Started(rnsd, x)
    BY DEF auxSendResource
  <2> QED BY <1>3, <2>2, <2>3, Pends
<1> QED BY <1>2, <1>3

LEMMA onLinkPacketCbKeeps ==
  ASSUME Core(rnsd), NEW s \in Used(rnsd), onLinkPacketCb(s)
  PROVE  Steps(rnsd, rnsd')
<1>1. rnsd' = linkTouch(rnsd, s)
  BY DEF onLinkPacketCb
<1>2. Core(rnsd') /\ Quiet(rnsd, rnsd') /\ rnsd'.slot = rnsd.slot
  BY <1>1, TouchKeeps
<1>3. Flushed(rnsd) => Flushed(rnsd')
  BY <1>2 DEF Flushed
<1> QED BY <1>2, <1>3 DEF Steps, Serves

LEMMA onLinkEstablishedCbKeeps ==
  ASSUME Core(rnsd), NEW s \in Used(rnsd), onLinkEstablishedCb(s)
  PROVE  Steps(rnsd, rnsd')
<1> DEFINE m == Established(rnsd, s)
<1>1. rnsd' = m
  BY DEF onLinkEstablishedCb, Established, Up
<1>2. s \in Slots /\ rnsd.slot[s].state = "ESTABLISHING" /\ rnsd.slot[s].link # None
  BY InUse DEF onLinkEstablishedCb
<1>3. Core(m) /\ Quiet(rnsd, m) /\ Only(rnsd, m, s, m.slot[s]) /\ m.slot[s].pendReq = None
  BY <1>2, EstablishedKeeps
<1> HIDE DEF m
<1>4. Flushed(rnsd) => Flushed(m)
  BY <1>2, <1>3, FlushedStill
<1> QED BY <1>1, <1>3, <1>4 DEF Steps, Serves

LEMMA linkEndsKeeps ==
  ASSUME Core(rnsd), NEW l \in Links, linkEnds(l)
  PROVE  Steps(rnsd, rnsd')
<1> DEFINE m == link_closed(rnsd, l)
<1>1. rnsd' = m /\ rnsd.link[l].status # "NONE" /\ l # None
  BY DEF linkEnds, Links, None
<1>2. PICK s \in Slots : rnsd.slot[s].link = l
  BY <1>1 DEF Core, LinksHeld, NoLink
<1>3. Core(m) /\ Only(rnsd, m, s, ClosedSlot(rnsd.slot[s])) /\ Quiet(rnsd, m)
  BY <1>1, <1>2, LinkCloses
<1>4. ClosedSlot(rnsd.slot[s]).state # "ACTIVE"
  <2>1. Alone(rnsd.slot[s])
    BY DEF Core, SlotsHeld
  <2> QED BY <1>1, <1>2, <2>1, ClosedFields
<1> HIDE DEF m
<1>5. Flushed(rnsd) => Flushed(m)
  BY <1>3, <1>4, FlushedStill
<1> QED BY <1>1, <1>3, <1>5 DEF Steps, Serves

(* A request that a slot has is answered.                                  *)
Answers(n, s, q, word) == Tell([n EXCEPT !.slot[s].req = None], q, word)
LEMMA AnswersIs ==
  ASSUME NEW n, Core(n), NEW s \in Used(n), NEW q, q # None, n.slot[s].req = q,
         NEW word \in {"RESPONSE", "FAILED"}
  PROVE  LET m == Answers(n, s, q, word)
         IN  /\ Core(m) /\ Ends(n, m, q, word) /\ Used(m) = Used(n)
             /\ Flushed(n) => Flushed(m)
<1> DEFINE d == n.slot[s]
           c == [d EXCEPT !.req = None]
           k == [n EXCEPT !.slot[s] = c]
           m == Tell(k, q, word)
<1>1. /\ s \in Slots /\ Alone(d) /\ d \in Slot /\ Shaped(n) /\ SlotsHeld(n) /\ d.state # "FREE"
      /\ d.link # None => d.link \in Links /\ Linked(d, n.link[d.link])
  BY InUse DEF Core
<1>2. Answers(n, s, q, word) = m
  <2>1. [n EXCEPT !.slot[s].req = None] = k
    BY <1>1 DEF Shaped
  <2> QED BY <2>1 DEF Answers
<1>3. /\ c \in Slot /\ c.state = d.state /\ c.tag = d.tag /\ c.handle = d.handle /\ c.link = d.link
      /\ c.attempts = d.attempts /\ c.res = d.res /\ c.pendRes = d.pendRes
      /\ c.req = None /\ c.pendReq = d.pendReq /\ c.proofs = d.proofs /\ c.receipt = d.receipt
      /\ c.sent = d.sent /\ c.proven = d.proven /\ c.unproven = d.unproven
  <2>1. c \in Slot
    BY <1>1 DEF Slot
  <2>2. /\ c.state = d.state /\ c.tag = d.tag /\ c.handle = d.handle /\ c.link = d.link
        /\ c.attempts = d.attempts /\ c.res = d.res /\ c.pendRes = d.pendRes
    BY <1>1 DEF Slot
  <2>3. /\ c.req = None /\ c.pendReq = d.pendReq /\ c.proofs = d.proofs /\ c.receipt = d.receipt
        /\ c.sent = d.sent /\ c.proven = d.proven /\ c.unproven = d.unproven
    BY <1>1 DEF Slot
  <2> QED BY <2>1, <2>2, <2>3
<1> HIDE DEF c
<1>4. SlotOnly(n, k, s, c)
  BY <1>1, ShapedRecord, SlotSet
<1> HIDE DEF k
<1>5. Shaped(k)
  BY <1>1, <1>3, <1>4, StillShaped DEF SlotOnly
<1>6. /\ Recorded(m) /\ m.slot = [n.slot EXCEPT ![s] = c] /\ m.idle = n.idle /\ m.link = n.link
      /\ m.handles = n.handles /\ Says(n, m, q, word)
  <2>0. q # None
    OBVIOUS
  <2>1. SaidOnly(k, m, q, word)
    BY <2>0, <1>5, TellingOnly
  <2> HIDE DEF m
  <2>2. /\ Recorded(m) /\ m.slot = k.slot /\ m.idle = k.idle /\ m.link = k.link
        /\ m.handles = k.handles /\ m.told = [k.told EXCEPT ![q] = Append(k.told[q], word)]
    BY <2>1 DEF SaidOnly, Says
  <2>3. /\ k.slot = [n.slot EXCEPT ![s] = c] /\ k.idle = n.idle /\ k.link = n.link
        /\ k.handles = n.handles /\ k.told = n.told
    BY <1>4 DEF SlotOnly
  <2> QED BY <2>2, <2>3 DEF Says
<1> HIDE DEF m
<1>7. d.req = q /\ d.pendReq = None
  BY <1>1 DEF Alone
<1>8. q \in Asks(d) /\ Asks(d) = {q} /\ Asks(c) = {} /\ Has(c) = Has(d) /\ Alone(c)
  <2>1. d.req = q
    BY <1>7
  <2> HIDE DEF d
  <2> QED BY <1>1, <1>3, <1>7 DEF Asks, Has, Alone
<1>9. /\ q \in Requests /\ Issued(n, q) /\ n.told[q] = <<>>
      /\ \A o \in Slots \ {s} : q \notin Asks(n.slot[o])
  BY <1>1, <1>8, AskedIsIssued
<1>10. Only(n, m, s, c)
  BY <1>1, <1>6, OnlyOne
<1>11. SlotTurns(n, m, s, c)
  <2>1. ASSUME NEW o \in Slots \ {s} PROVE Apart(c, n.slot[o])
    <3>1. Apart(d, n.slot[o])
      BY <1>1 DEF SlotsHeld
    <3>2. Narrower(c, d)
      BY <1>3, <1>8 DEF Narrower
    <3> HIDE DEF d
    <3> QED BY <3>1, <3>2, NarrowerApart
  <2> QED BY <1>6, <1>8, <2>1 DEF SlotTurns
<1>12. LinkTurns(n, m, d, c)
  <2>1. c.link # None => Linked(c, n.link[c.link])
    <3> HIDE DEF d
    <3> QED BY <1>1, <1>3 DEF Linked
  <2> QED BY <1>3, <1>6, <2>1 DEF LinkTurns
<1>13. HandleTurns(n, m, d, c)
  BY <1>1, <1>3, <1>6, SameHandle
<1>14. Lists(m.idle, Used(m)) /\ Used(m) = Used(n)
  <2>1. c.state # "FREE"
    BY <1>1, <1>3
  <2> QED BY <1>6, <1>10, <2>1, StaysListed
<1>15. m.link \in [Links -> LinkRecord] /\ \A l \in Links : m.link[l].asked \subseteq n.link[l].asked
  BY <1>1, <1>6 DEF Shaped
<1>16. /\ Core(m) /\ m.told[q] = <<word>> /\ Issued(m, q) /\ \A r \in Requests \ {q} : Quietly(n, m, r)
  <2>1. Asks(c) = Asks(n.slot[s]) \ {q} /\ Has(c) \subseteq Has(n.slot[s])
    BY <1>8
  <2> QED BY <1>1, <1>6, <1>9, <1>11, <1>12, <1>13, <1>14, <1>15, <2>1, Spoken
<1>17. Ends(n, m, q, word)
  BY <1>9, <1>16 DEF Ends
<1>18. Flushed(n) => Flushed(m)
  <2>1. c.pendReq = None
    BY <1>3, <1>7
  <2> QED BY <1>1, <1>10, <2>1, FlushedStill
<1> QED BY <1>2, <1>14, <1>16, <1>17, <1>18 DEF m

LEMMA requestTimeoutKeeps ==
  ASSUME Core(rnsd), NEW s \in Used(rnsd), requestTimeout(s)
  PROVE  Steps(rnsd, rnsd')
<1> DEFINE q == rnsd.slot[s].req
           word == "FAILED"
           m == Answers(rnsd, s, q, word)
<1>1. rnsd' = m /\ q # None
  BY DEF requestTimeout, Answers
<1>2. word \in {"RESPONSE", "FAILED"}
  OBVIOUS
<1> HIDE DEF word, m
<1>3. /\ Core(m) /\ Ends(rnsd, m, q, word) /\ (Flushed(rnsd) => Flushed(m))
  BY <1>1, <1>2, AnswersIs DEF m
<1>4. q \in Requests
  BY <1>1, InUse DEF Slot
<1> QED BY <1>1, <1>3, <1>4 DEF Steps, Serves, word

LEMMA AnsweredIs ==
  ASSUME NEW n, Core(n), NEW r \in Requests, NEW word \in {"RESPONSE", "FAILED"}
  PROVE  \/ Asking(n, r) = {} /\ Answered(n, r, word) = n
         \/ \E s \in Used(n) : /\ Asking(n, r) = {s} /\ n.slot[s].req = r
                               /\ Answered(n, r, word) = Answers(n, s, r, word)
<1>1. CASE Asking(n, r) = {}
  BY <1>1 DEF Answered
<1>2. CASE Asking(n, r) # {}
  <2>1. PICK s \in Used(n) : n.slot[s].req = r
    BY <1>2 DEF Asking
  <2>2. Asking(n, r) = {s}
    <3>1. s \in Slots /\ r # None /\ SlotsHeld(n)
      BY InUse, SlotAssumption DEF Core
    <3> QED BY <2>1, <3>1, AskingIs
  <2>3. (CHOOSE o \in Asking(n, r) : TRUE) = s
    BY <2>2, TheOne
  <2>4. Answered(n, r, word) = Answers(n, s, r, word)
    BY <1>2, <2>3 DEF Answered, Answers
  <2> QED BY <2>1, <2>2, <2>4
<1> QED BY <1>1, <1>2

(* A request leaves the list of its link.                                  *)
LEMMA Forgets ==
  ASSUME NEW n, Core(n), NEW l \in Links, NEW r \in n.link[l].asked, NEW k,
         k = [n EXCEPT !.link[l].asked = @ \ {r}]
  PROVE  Core(k) /\ Quiet(n, k) /\ k.slot = n.slot /\ r \in Requests
<1> DEFINE v == [n.link[l] EXCEPT !.asked = @ \ {r}]
<1>1. Shaped(n) /\ n.link[l] \in LinkRecord
  BY DEF Core, Shaped
<1>2. Parts(k, n.slot, n.idle, [n.link EXCEPT ![l] = v], n.handles, n.told)
  <2>1. Parts(n, n.slot, n.idle, n.link, n.handles, n.told)
    BY <1>1, ShapedRecord DEF Parts
  <2>2. [n EXCEPT !.link[l].asked = @ \ {r}] = [n EXCEPT !.link[l] = v]
    BY <1>1 DEF Shaped
  <2>3. k = [n EXCEPT !.link[l] = v]
    BY <2>2
  <2> HIDE DEF v
  <2>4. Parts([n EXCEPT !.link[l] = v], n.slot, n.idle, [n.link EXCEPT ![l] = v], n.handles, n.told)
    BY <2>1, PartSet
  <2> QED BY <2>3, <2>4
<1>3. /\ v \in LinkRecord /\ v.status = n.link[l].status /\ v.carries = n.link[l].carries
      /\ v.asked = n.link[l].asked \ {r} /\ r \in Requests
  BY <1>1 DEF LinkRecord
<1> HIDE DEF v
<1>4. PICK s \in Slots : n.slot[s].link = l
  BY DEF Core, LinksHeld, NoLink
<1> DEFINE c == n.slot[s]
<1>5. /\ SlotTurns(n, k, s, c) /\ HandleTurns(n, k, c, c) /\ Lists(k.idle, Used(k))
  BY <1>2, Unturned DEF Parts
<1>6. /\ k.link \in [Links -> LinkRecord] /\ k.link[l] = v
      /\ \A i \in Links : i # l => k.link[i] = n.link[i]
  BY <1>1, <1>2, <1>3 DEF Parts, Shaped
<1>7. LinkTurns(n, k, c, c)
  <2>1. l # None /\ Linked(c, n.link[l])
    BY <1>4 DEF Links, None, Core, LinksHeld
  <2>2. Linked(c, v)
    <3> HIDE DEF c
    <3> QED BY <1>3, <2>1 DEF Linked
  <2> QED BY <1>4, <1>6, <2>2 DEF LinkTurns
<1>8. \A i \in Links : k.link[i].asked \subseteq n.link[i].asked \cup Asks(c)
  BY <1>3, <1>6
<1>9. \A x \in Asks(c) \cup Has(c) : n.told[x] = <<>>
  BY DEF Core, WordsHeld
<1>10. Core(k) /\ \A q \in Requests : q \notin Asks(c) \ Asks(c) => Quietly(n, k, q)
  <2>1. Recorded(k) /\ k.told = n.told /\ Asks(n.slot[s]) \subseteq Asks(c)
    BY <1>2 DEF Parts
  <2>2. \A q \in Requests : q \notin Asks(c) \ Asks(n.slot[s]) => Quietly(n, k, q)
    BY <1>5, <1>6, <1>7, <1>8, <1>9, <2>1, Silent
  <2>3. Core(k)
    BY <1>5, <1>6, <1>7, <1>8, <1>9, <2>1, Silent
  <2> QED BY <2>2, <2>3
<1>11. Quiet(n, k) /\ k.slot = n.slot
  BY <1>2, <1>10 DEF Quiet, Parts
<1> QED BY <1>3, <1>10, <1>11

LEMMA handle_responseKeeps ==
  ASSUME Core(rnsd), NEW l \in Links, NEW r \in Requests, handle_response(l, r)
  PROVE  Steps(rnsd, rnsd')
<1> DEFINE k == [rnsd EXCEPT !.link[l].asked = @ \ {r}]
           word == "RESPONSE"
<1>1. r \in rnsd.link[l].asked /\ r \in replied /\ rnsd' = onReqResponseCb(k, r)
  BY DEF handle_response
<1>2. Core(k) /\ Quiet(rnsd, k) /\ k.slot = rnsd.slot
  BY <1>1, Forgets
<1> HIDE DEF k
<1>f. Flushed(rnsd) => Flushed(k)
  BY <1>2 DEF Flushed
<1>3. CASE Asking(k, r) = {}
  <2>1. rnsd' = k
    BY <1>1, <1>3 DEF onReqResponseCb
  <2> QED BY <1>2, <1>f, <2>1 DEF Steps, Serves
<1>4. ASSUME NEW s \in Used(k), Asking(k, r) = {s}, k.slot[s].req = r,
             Answered(k, r, "RESPONSE") = Answers(k, s, r, "RESPONSE")
      PROVE  Steps(rnsd, rnsd')
  <2> DEFINE a == Answers(k, s, r, word)
             m == linkTouch(a, s)
  <2>1. Asking(k, r) # {} /\ (CHOOSE o \in Asking(k, r) : TRUE) = s
    BY <1>4, TheOne
  <2>2. rnsd' = m
    BY <1>1, <1>4, <2>1 DEF onReqResponseCb
  <2>3. r # None
    BY SlotAssumption
  <2>w. word \in {"RESPONSE", "FAILED"}
    OBVIOUS
  <2> HIDE DEF word
  <2>4. Core(a) /\ Ends(k, a, r, word) /\ Used(a) = Used(k) /\ (Flushed(k) => Flushed(a))
    BY <1>2, <1>4, <2>3, <2>w, AnswersIs
  <2> HIDE DEF a
  <2>5. Core(m) /\ Quiet(a, m) /\ m.slot = a.slot
    BY <1>4, <2>4, TouchKeeps
  <2> HIDE DEF m
  <2>6. Ends(rnsd, m, r, word)
    <3>1. Ends(rnsd, a, r, word)
      BY <1>2, <2>4, QuietThen
    <3> QED BY <2>5, <3>1, ThenQuiet
  <2>7. Flushed(rnsd) => Flushed(m)
    BY <1>f, <2>4, <2>5 DEF Flushed
  <2> QED BY <1>1, <2>2, <2>5, <2>6, <2>7 DEF Steps, Serves, word
<1>5. "RESPONSE" \in {"RESPONSE", "FAILED"}
  OBVIOUS
<1> QED BY <1>2, <1>3, <1>4, <1>5, AnsweredIs

LEMMA response_resource_concludedKeeps ==
  ASSUME Core(rnsd), NEW l \in Links, NEW r \in Requests, response_resource_concluded(l, r)
  PROVE  Steps(rnsd, rnsd')
<1> DEFINE k == [rnsd EXCEPT !.link[l].asked = @ \ {r}]
           word == "FAILED"
<1>1. r \in rnsd.link[l].asked /\ rnsd' = Answered(k, r, word)
  BY DEF response_resource_concluded, onReqFailedCb
<1>2. Core(k) /\ Quiet(rnsd, k) /\ k.slot = rnsd.slot
  BY <1>1, Forgets
<1> HIDE DEF k
<1>f. Flushed(rnsd) => Flushed(k)
  BY <1>2 DEF Flushed
<1>w. word \in {"RESPONSE", "FAILED"}
  OBVIOUS
<1> HIDE DEF word
<1>3. CASE rnsd' = k
  BY <1>2, <1>f, <1>3 DEF Steps, Serves
<1>4. ASSUME NEW s \in Used(k), k.slot[s].req = r, rnsd' = Answers(k, s, r, word)
      PROVE  Steps(rnsd, rnsd')
  <2> DEFINE m == Answers(k, s, r, word)
  <2>3. r # None
    BY SlotAssumption
  <2>4. Core(m) /\ Ends(k, m, r, word) /\ (Flushed(k) => Flushed(m))
    BY <1>2, <1>4, <2>3, <1>w, AnswersIs
  <2> HIDE DEF m
  <2>5. Ends(rnsd, m, r, word)
    BY <1>2, <2>4, QuietThen
  <2>6. rnsd' = m
    BY <1>4 DEF m
  <2> QED BY <1>f, <2>4, <2>5, <2>6 DEF Steps, Serves, word
<1> QED BY <1>1, <1>2, <1>3, <1>4, <1>w, AnsweredIs

(* A resource ends: its link carries it no more, and its slot is free for  *)
(* another.                                                                *)
Lifted(n, l, x) == [n EXCEPT !.link[l].carries = @ \ {x}]
LEMMA LiftedIs ==
  ASSUME NEW n, Core(n), NEW l \in Links, NEW x
  PROVE  LET v == [n.link[l] EXCEPT !.carries = @ \ {x}]
         IN  /\ Parts(Lifted(n, l, x), n.slot, n.idle, [n.link EXCEPT ![l] = v], n.handles, n.told)
             /\ v \in LinkRecord /\ v.status = n.link[l].status /\ v.asked = n.link[l].asked
             /\ v.carries = n.link[l].carries \ {x}
<1> DEFINE v == [n.link[l] EXCEPT !.carries = @ \ {x}]
<1>1. Shaped(n) /\ n.link[l] \in LinkRecord
  BY DEF Core, Shaped
<1>2. Parts(n, n.slot, n.idle, n.link, n.handles, n.told)
  BY <1>1, ShapedRecord DEF Parts
<1>3. Lifted(n, l, x) = [n EXCEPT !.link[l] = v]
  BY <1>1 DEF Shaped, Lifted
<1>4. /\ v \in LinkRecord /\ v.status = n.link[l].status /\ v.asked = n.link[l].asked
      /\ v.carries = n.link[l].carries \ {x}
  BY <1>1 DEF LinkRecord
<1> HIDE DEF v
<1>5. Parts([n EXCEPT !.link[l] = v], n.slot, n.idle, [n.link EXCEPT ![l] = v], n.handles, n.told)
  BY <1>2, PartSet
<1> QED BY <1>3, <1>4, <1>5 DEF v

LEMMA ResourceConcludes ==
  ASSUME NEW n, Core(n), NEW s \in Slots, NEW l \in Links, n.slot[s].link = l,
         NEW x \in Resources, n.slot[s].res = x, NEW word \in {"DONE", "FAILED"}
  PROVE  LET m == onResConcluded(Lifted(n, l, x), x, word)
         IN  /\ Core(m) /\ Quiet(n, m)
             /\ \E c : Only(n, m, s, c) /\ c.pendReq = n.slot[s].pendReq /\ c.state = n.slot[s].state
<1> DEFINE d == n.slot[s]
           c == [d EXCEPT !.res = None]
           v == [n.link[l] EXCEPT !.carries = @ \ {x}]
           k == Lifted(n, l, x)
           m == onResConcluded(k, x, word)
<1>1. x # None /\ x \notin Requests /\ l # None
  BY SlotAssumption DEF Links, None
<1>2. s \in Used(n)
  BY <1>1, Carried
<1>3. /\ Alone(d) /\ d \in Slot /\ Shaped(n) /\ SlotsHeld(n) /\ d.state # "FREE"
      /\ Linked(d, n.link[l])
  BY <1>1, <1>2, InUse DEF Core
<1>4. /\ Parts(k, n.slot, n.idle, [n.link EXCEPT ![l] = v], n.handles, n.told)
      /\ v \in LinkRecord /\ v.status = n.link[l].status /\ v.asked = n.link[l].asked
      /\ v.carries = n.link[l].carries \ {x}
  BY LiftedIs
<1>5. /\ c \in Slot /\ c.state = d.state /\ c.tag = d.tag /\ c.handle = d.handle /\ c.link = d.link
      /\ c.attempts = d.attempts /\ c.res = None /\ c.pendRes = d.pendRes
      /\ c.req = d.req /\ c.pendReq = d.pendReq /\ c.proofs = d.proofs /\ c.receipt = d.receipt
      /\ c.sent = d.sent /\ c.proven = d.proven /\ c.unproven = d.unproven
  BY <1>3 DEF Slot
<1> HIDE DEF v, k
<1>6. Shaped(k)
  BY <1>3, <1>4 DEF Shaped, Parts, Recorded
<1>7. Holding(k, x) = {s}
  <2>1. Holding(n, x) = {s}
    BY <1>1, <1>3, HoldingIs
  <2> QED BY <1>4, <2>1 DEF Parts, Holding, Used
<1>8. /\ Recorded(m) /\ m.slot = [n.slot EXCEPT ![s] = c] /\ Says(n, m, x, word)
      /\ m.idle = n.idle /\ m.link = [n.link EXCEPT ![l] = v] /\ m.handles = n.handles
  <2>1. Concluded(k, m, s, x, word)
    BY <1>1, <1>6, <1>7, Concluding
  <2>2. k.slot[s] = d
    BY <1>4 DEF Parts
  <2> HIDE DEF m, d
  <2> QED BY <1>4, <2>1, <2>2 DEF Parts, Says, Concluded, c
<1> HIDE DEF m, c
<1>9. d.res = x
  OBVIOUS
<1>10. Alone(c) /\ Asks(c) = Asks(d) /\ Has(c) = Has(d) \ {x} /\ x \in Has(d) /\ d.state = "ACTIVE"
  <2> HIDE DEF d
  <2>1. d.state = "ACTIVE" /\ d.pendRes # x
    BY <1>1, <1>3, <1>9 DEF Alone
  <2>2. Alone(c)
    BY <1>3, <1>5 DEF Alone
  <2> QED BY <1>1, <1>5, <1>9, <2>1, <2>2 DEF Asks, Has
<1>11. Only(n, m, s, c)
  BY <1>3, <1>8, OnlyOne
<1>12. SlotTurns(n, m, s, c)
  <2>1. ASSUME NEW o \in Slots \ {s} PROVE Apart(c, n.slot[o])
    <3>1. Apart(d, n.slot[o])
      BY <1>3 DEF SlotsHeld
    <3>2. Narrower(c, d)
      BY <1>5, <1>10 DEF Narrower
    <3> HIDE DEF d
    <3> QED BY <3>1, <3>2, NarrowerApart
  <2> QED BY <1>8, <1>10, <2>1 DEF SlotTurns
<1>13. m.link \in [Links -> LinkRecord] /\ m.link[l] = v /\ \A i \in Links : i # l => m.link[i] = n.link[i]
  BY <1>3, <1>4, <1>8 DEF Shaped
<1>14. LinkTurns(n, m, d, c)
  <2>1. d.link = l
    OBVIOUS
  <2>2. Linked(c, v)
    <3>1. c.state = "ACTIVE" /\ c.res = None
      BY <1>5, <1>10
    <3>2. n.link[l].status = "ACTIVE" /\ n.link[l].carries \subseteq {x}
      <4> HIDE DEF d
      <4> QED BY <1>3, <1>9, <1>10 DEF Linked
    <3> QED BY <1>4, <3>1, <3>2 DEF Linked
  <2> HIDE DEF d
  <2> QED BY <1>5, <1>13, <2>1, <2>2 DEF LinkTurns
<1>15. HandleTurns(n, m, d, c)
  BY <1>5, <1>8, SameHandle
<1>16. Lists(m.idle, Used(m))
  <2>1. c.state # "FREE"
    BY <1>3, <1>5
  <2> QED BY <1>2, <1>8, <1>11, <2>1, StaysListed
<1>17. x \in Names /\ n.told[x] = <<>> /\ \A o \in Slots : x \notin Asks(n.slot[o])
  <2>1. n.told[x] = <<>>
    BY <1>10 DEF Core, WordsHeld
  <2>2. \A o \in Slots : x \notin Asks(n.slot[o])
    BY <1>1, <1>3, SlotIs, SlotNames
  <2> QED BY <2>1, <2>2 DEF Names
<1>18. m.told[x] = <<word>> /\ \A y \in Names \ {x} : m.told[y] = n.told[y]
  BY <1>3, <1>8, <1>17 DEF Shaped, Says
<1>19. Shaped(m)
  <2>1. m.told \in [Names -> Seq(Outcomes)]
    <3>1. word \in Outcomes
      BY DEF Outcomes
    <3> QED BY <1>3, <1>8, <1>17, <3>1, ToldShaped DEF Says
  <2>2. m.slot \in [Slots -> Slot]
    BY <1>3, <1>5, <1>8 DEF Shaped
  <2> QED BY <1>8, <1>13, <2>1, <2>2 DEF Shaped, Recorded
<1>20. WordTurns(n, m, s, c)
  <2>1. <<word>> \in Said(x)
    BY <1>1 DEF Said
  <2>2. \A o \in Slots \ {s} : x \notin Has(n.slot[o])
    BY <1>3, <1>10 DEF SlotsHeld, Apart
  <2>3. x \notin Asks(c) \cup Has(c)
    BY <1>10, <1>17
  <2>4. \A y \in Asks(c) \cup Has(c) : n.told[y] = <<>>
    BY <1>10 DEF Core, WordsHeld
  <2> QED BY <1>17, <1>18, <2>1, <2>2, <2>3, <2>4 DEF WordTurns
<1>21. AskTurns(n, m, d, c)
  BY <1>4, <1>10, <1>13 DEF AskTurns
<1>22. Turns(n, m, s, c)
  BY <1>12, <1>14, <1>15, <1>16, <1>19, <1>20, <1>21 DEF Turns
<1>23. Core(m)
  BY <1>22, Turned
<1>24. ASSUME NEW r \in Requests PROVE Quietly(n, m, r)
  <2>1. m.told[r] = n.told[r]
    BY <1>1, <1>18 DEF Names
  <2> QED BY <1>10, <1>22, <2>1, QuietTurn
<1> QED BY <1>5, <1>11, <1>23, <1>24 DEF Quiet, m, k

LEMMA resourceEndsKeeps ==
  ASSUME Core(rnsd), NEW l \in Links, NEW x \in Resources, resourceEnds(l, x)
  PROVE  Steps(rnsd, rnsd')
<1>1. PICK word \in {"DONE", "FAILED"} : rnsd' = onResConcluded(Lifted(rnsd, l, x), x, word)
  BY DEF resourceEnds, Lifted
<1>2. x \in rnsd.link[l].carries /\ l # None
  BY DEF resourceEnds, Links, None
<1>3. PICK s \in Slots : rnsd.slot[s].link = l
  BY <1>2 DEF Core, LinksHeld, NoLink
<1>4. rnsd.slot[s].res = x
  BY <1>2, <1>3, Carried
<1>5. /\ Core(rnsd') /\ Quiet(rnsd, rnsd')
      /\ \E c : /\ Only(rnsd, rnsd', s, c) /\ c.pendReq = rnsd.slot[s].pendReq
                /\ c.state = rnsd.slot[s].state
  BY <1>1, <1>3, <1>4, ResourceConcludes
<1>6. ASSUME Flushed(rnsd) PROVE Flushed(rnsd')
  BY <1>3, <1>5, <1>6, FlushedStill DEF Flushed
<1> QED BY <1>5, <1>6 DEF Steps, Serves

LEMMA pathTickKeeps ==
  ASSUME Core(rnsd), NEW s \in Used(rnsd), pathTick(s)
  PROVE  Steps(rnsd, rnsd')
<1>1. s \in Slots /\ Alone(rnsd.slot[s]) /\ rnsd.slot[s].state = "AWAITING_PATH"
  BY InUse DEF pathTick
<1>2. CASE Kickoff(rnsd, s)
  <2>1. Kicked(rnsd, rnsd', s)
    BY <1>1, <1>2, KickoffKicks
  <2>2. Flushed(rnsd) => Flushed(rnsd')
    BY <1>1, <2>1, FlushedStill DEF Kicked
  <2> QED BY <2>1, <2>2 DEF Kicked, Steps, Serves
<1>3. CASE rnsd' = [rnsd EXCEPT !.slot[s].state = "FAILED"]
  <2>1. rnsd' = kickoffRefused(rnsd, s)
    BY <1>3 DEF kickoffRefused
  <2>2. Kicked(rnsd, rnsd', s)
    BY <1>1, <2>1, Refused
  <2>3. Flushed(rnsd) => Flushed(rnsd')
    BY <1>1, <2>2, FlushedStill DEF Kicked
  <2> QED BY <2>2, <2>3 DEF Kicked, Steps, Serves
<1> QED BY <1>2, <1>3 DEF pathTick

(* The slot leaves its link, and then the link is torn down, which finds   *)
(* no slot and nothing to cancel.                                          *)
Left(n, s) == [n EXCEPT !.slot[s].link = None]
Abandoned(n, s) == teardown(Left(n, s), n.slot[s].link)
Unhooked(d) == [d EXCEPT !.link = None]

LEMMA LeftIs ==
  ASSUME NEW n, Core(n), NEW s \in Slots
  PROVE  /\ Parts(Left(n, s), [n.slot EXCEPT ![s] = Unhooked(n.slot[s])], n.idle, n.link,
                  n.handles, n.told)
<1> DEFINE c == Unhooked(n.slot[s])
<1>1. Shaped(n)
  BY DEF Core
<1>2. Left(n, s) = [n EXCEPT !.slot[s] = c]
  BY <1>1 DEF Shaped, Left, Unhooked
<1>3. Parts(n, n.slot, n.idle, n.link, n.handles, n.told)
  BY <1>1, ShapedRecord DEF Parts
<1> HIDE DEF c
<1>4. Parts([n EXCEPT !.slot[s] = c], [n.slot EXCEPT ![s] = c], n.idle, n.link, n.handles, n.told)
  BY <1>3, PartSet
<1> QED BY <1>2, <1>4 DEF c

LEMMA AbandonedIs ==
  ASSUME NEW n, Core(n), NEW s \in Slots, n.slot[s].state = "ESTABLISHING", n.slot[s].link # None
  PROVE  LET l == n.slot[s].link
         IN  Parts(Abandoned(n, s), [n.slot EXCEPT ![s] = Unhooked(n.slot[s])], n.idle,
                   [n.link EXCEPT ![l] = NoLink], n.handles, n.told)
<1> DEFINE d == n.slot[s]
           l == d.link
           c == Unhooked(d)
           k == Left(n, s)
           j == [k EXCEPT !.link[l] = NoLink]
<1>0. s \in Used(n)
  BY DEF Used
<1>1. /\ Shaped(n) /\ SlotsHeld(n) /\ d \in Slot /\ l \in Links /\ l # None /\ Linked(d, n.link[l])
  BY <1>0, InUse DEF Core
<1>2. Parts(k, [n.slot EXCEPT ![s] = c], n.idle, n.link, n.handles, n.told)
  BY LeftIs
<1>3. c.link = None
  BY <1>1 DEF Slot, Unhooked
<1>4. n.link[l].carries = {}
  <2>1. d.state = "ESTABLISHING"
    OBVIOUS
  <2> HIDE DEF d, l
  <2> QED BY <1>1, <2>1 DEF Linked
<1> HIDE DEF k, c
<1>5. resources_cancelled(k, k.link[l].carries) = k
  <2>1. k.link[l].carries = {}
    BY <1>2, <1>4 DEF Parts
  <2> QED BY <2>1 DEF resources_cancelled
<1>6. Parts(j, [n.slot EXCEPT ![s] = c], n.idle, [n.link EXCEPT ![l] = NoLink], n.handles, n.told)
  <2> DEFINE v == NoLink
  <2> HIDE DEF v
  <2>1. Parts([k EXCEPT !.link[l] = v], [n.slot EXCEPT ![s] = c], n.idle,
              [n.link EXCEPT ![l] = v], n.handles, n.told)
    BY <1>2, PartSet
  <2> QED BY <2>1 DEF v
<1> HIDE DEF j
<1>7. Of(j, l) = {}
  <2>1. ASSUME NEW o \in Slots PROVE j.slot[o].link # l
    <3>1. CASE o = s
      BY <1>1, <1>3, <1>6, <3>1 DEF Parts, Shaped
    <3>2. CASE o # s
      <4>1. j.slot[o] = n.slot[o]
        BY <1>1, <1>6, <3>2 DEF Parts, Shaped
      <4> QED BY <1>1, <3>2, <4>1 DEF SlotsHeld, Apart
    <3> QED BY <3>1, <3>2
  <2> QED BY <2>1 DEF Of, Used
<1>8. Abandoned(n, s) = j
  <2>1. onLinkClosedCb(j, l) = j
    BY <1>7 DEF onLinkClosedCb
  <2>2. link_closed(k, l) = onLinkClosedCb(j, l)
    BY <1>5 DEF link_closed, j
  <2>3. Abandoned(n, s) = link_closed(k, l)
    BY <1>1 DEF Abandoned, teardown, k
  <2> QED BY <2>1, <2>2, <2>3
<1> QED BY <1>6, <1>8 DEF c

Abandons(n, m, s) ==
  /\ Core(m) /\ Quiet(n, m) /\ Used(m) = Used(n) /\ Only(n, m, s, m.slot[s])
  /\ m.slot[s].link = None /\ m.slot[s].req = None /\ m.slot[s].attempts = n.slot[s].attempts
LEMMA AbandonsIt ==
  ASSUME NEW n, Core(n), NEW s \in Used(n), n.slot[s].state = "ESTABLISHING"
  PROVE  Abandons(n, Abandoned(n, s), s)
<1> DEFINE d == n.slot[s]
           l == d.link
           c == Unhooked(d)
           m == Abandoned(n, s)
<1>1. /\ s \in Slots /\ Alone(d) /\ d \in Slot /\ Shaped(n) /\ SlotsHeld(n) /\ d.state = "ESTABLISHING"
      /\ l # None => l \in Links
  BY InUse DEF Core
<1>2. d.req = None
  <2> HIDE DEF d
  <2> QED BY <1>1 DEF Alone
<1>3. CASE l = None
  <2>1. Left(n, s) = n
    BY <1>1, <1>3, SlotSame DEF Left
  <2>2. m = n
    BY <1>3, <2>1 DEF Abandoned, teardown
  <2> HIDE DEF m
  <2> QED BY <1>2, <1>3, <2>2 DEF Abandons, Quiet, Quietly, Only, m
<1>4. CASE l # None
  <2>1. Parts(m, [n.slot EXCEPT ![s] = c], n.idle, [n.link EXCEPT ![l] = NoLink], n.handles, n.told)
    BY <1>1, <1>4, AbandonedIs
  <2>2. /\ c \in Slot /\ c.state = d.state /\ c.tag = d.tag /\ c.handle = d.handle /\ c.link = None
        /\ c.attempts = d.attempts /\ c.res = d.res /\ c.pendRes = d.pendRes
        /\ c.req = d.req /\ c.pendReq = d.pendReq /\ c.proofs = d.proofs /\ c.receipt = d.receipt
        /\ c.sent = d.sent /\ c.proven = d.proven /\ c.unproven = d.unproven
    BY <1>1 DEF Slot, Unhooked
  <2> HIDE DEF m, c
  <2>3. Alone(c) /\ Asks(c) = Asks(d) /\ Has(c) = Has(d)
    <3> HIDE DEF d
    <3> QED BY <1>1, <2>2 DEF Alone, Asks, Has
  <2>4. Only(n, m, s, c)
    BY <1>1, <2>1, OnlyOne DEF Parts
  <2>5. SlotTurns(n, m, s, c)
    <3>1. ASSUME NEW o \in Slots \ {s} PROVE Apart(c, n.slot[o])
      <4>1. Apart(d, n.slot[o])
        BY <1>1 DEF SlotsHeld
      <4>2. Narrower(c, d)
        BY <2>2, <2>3 DEF Narrower
      <4> HIDE DEF d
      <4> QED BY <4>1, <4>2, NarrowerApart
    <3> QED BY <2>1, <2>3, <3>1 DEF SlotTurns, Parts
  <2>6. NoLink \in LinkRecord /\ NoLink.asked = {}
    BY DEF NoLink, LinkRecord
  <2>7. /\ m.link \in [Links -> LinkRecord] /\ m.link[l] = NoLink
        /\ \A i \in Links : i # l => m.link[i] = n.link[i]
    BY <1>1, <1>4, <2>1, <2>6 DEF Parts, Shaped
  <2>8. LinkTurns(n, m, d, c)
    BY <2>2, <2>7 DEF LinkTurns
  <2>9. HandleTurns(n, m, d, c)
    BY <1>1, <2>1, <2>2, SameHandle DEF Parts
  <2>10. Lists(m.idle, Used(m)) /\ Used(m) = Used(n)
    <3>1. c.state # "FREE" /\ m.idle = n.idle
      BY <1>1, <2>1, <2>2 DEF Parts
    <3> QED BY <2>4, <3>1, StaysListed
  <2>11. \A i \in Links : m.link[i].asked \subseteq n.link[i].asked \cup Asks(c)
    BY <2>6, <2>7
  <2>12. \A x \in Asks(c) \cup Has(c) : n.told[x] = <<>>
    BY <1>1, <2>3 DEF Core, WordsHeld
  <2>13. Core(m) /\ \A r \in Requests : r \notin Asks(c) \ Asks(d) => Quietly(n, m, r)
    <3>1. Asks(d) \subseteq Asks(c) /\ Recorded(m) /\ m.told = n.told
      BY <2>1, <2>3 DEF Parts
    <3> QED BY <1>1, <2>5, <2>7, <2>8, <2>9, <2>10, <2>11, <2>12, <3>1, Silent
  <2>14. Quiet(n, m)
    BY <2>3, <2>13 DEF Quiet
  <2>15. Only(n, m, s, m.slot[s]) /\ m.slot[s] = c
    BY <2>4 DEF Only
  <2> QED BY <1>2, <2>2, <2>10, <2>13, <2>14, <2>15 DEF Abandons, m
<1> QED BY <1>3, <1>4

LEMMA establishTimeoutKeeps ==
  ASSUME Core(rnsd), NEW s \in Used(rnsd), establishTimeout(s)
  PROVE  Steps(rnsd, rnsd')
<1> DEFINE n == Abandoned(rnsd, s)
<1>1. /\ s \in Slots /\ rnsd.slot[s].state = "ESTABLISHING"
  BY InUse DEF establishTimeout
<1>2. \E st \in {"FAILED", "AWAITING_PATH"} :
        /\ st = "AWAITING_PATH" => rnsd.slot[s].attempts < RNSD_LINK_ATTEMPTS
        /\ rnsd' = Into(n, s, st)
  BY DEF establishTimeout, Abandoned, Left, Into
<1>3. PICK st \in {"FAILED", "AWAITING_PATH"} :
        /\ st = "AWAITING_PATH" => rnsd.slot[s].attempts < RNSD_LINK_ATTEMPTS
        /\ rnsd' = Into(n, s, st)
  BY <1>2
<1>4. Abandons(rnsd, n, s)
  BY <1>1, AbandonsIt
<1> HIDE DEF n
<1>5. /\ Core(rnsd') /\ Only(n, rnsd', s, rnsd'.slot[s]) /\ Quiet(n, rnsd')
      /\ rnsd'.slot[s].state = st
  BY <1>3, <1>4, StateSet DEF Abandons
<1>6. Quiet(rnsd, rnsd') /\ Only(rnsd, rnsd', s, rnsd'.slot[s])
  <2>1. Quiet(rnsd, rnsd')
    BY <1>4, <1>5, QuietTwice DEF Abandons
  <2> QED BY <1>4, <1>5, <2>1 DEF Abandons, Only
<1>7. Flushed(rnsd) => Flushed(rnsd')
  BY <1>1, <1>5, <1>6, FlushedStill
<1> QED BY <1>5, <1>6, <1>7 DEF Steps, Serves

(* A link that a peer opened.                                              *)
Incoming(t, l) == [Empty EXCEPT !.tag = t, !.link = l, !.state = "ACTIVE"]
TakesSlot(c, t, l, h) ==
  /\ Alone(c) /\ c.state = "ACTIVE" /\ c.tag = t /\ c.handle = h /\ c.link = l /\ c.res = None
  /\ Asks(c) = {} /\ Has(c) = {}
Handed(c) == [c EXCEPT !.handle = TRUE]

LEMMA IncomingIs ==
  ASSUME NEW t \in InTags, NEW l \in Links
  PROVE  TakesSlot(Incoming(t, l), t, l, FALSE) /\ TakesSlot(Handed(Incoming(t, l)), t, l, TRUE)
<1> DEFINE c == Incoming(t, l)
           e == [Empty EXCEPT !.tag = t]
           f == [e EXCEPT !.link = l]
           g == Handed(c)
<1>1. c = [f EXCEPT !.state = "ACTIVE"]
  BY DEF Incoming
<1>2. t # None /\ l # None /\ t \in Tags \cup InTags \cup {None}
  BY SlotAssumption DEF Links, None
<1>3. /\ e \in Slot /\ e.tag = t /\ e.handle = FALSE /\ e.attempts = 0 /\ e.pendRes = None
      /\ e.pendReq = None /\ e.res = None /\ e.req = None /\ e.receipt = FALSE
      /\ e.sent = 0 /\ e.proven = 0 /\ e.unproven = 0
  <2> DEFINE d == Empty
  <2>1. /\ d \in Slot /\ d.handle = FALSE /\ d.attempts = 0 /\ d.pendRes = None
        /\ d.pendReq = None /\ d.res = None /\ d.req = None /\ d.receipt = FALSE
        /\ d.sent = 0 /\ d.proven = 0 /\ d.unproven = 0
    BY EmptySlot DEF Empty
  <2>2. e = [d EXCEPT !.tag = t]
    OBVIOUS
  <2> HIDE DEF d, e
  <2> QED BY <1>2, <2>1, <2>2 DEF Slot
<1> HIDE DEF e
<1>4. /\ f \in Slot /\ f.link = l /\ f.handle = e.handle /\ f.tag = e.tag
      /\ f.attempts = e.attempts /\ f.pendRes = e.pendRes /\ f.pendReq = e.pendReq
      /\ f.res = e.res /\ f.req = e.req /\ f.receipt = e.receipt
      /\ f.sent = e.sent /\ f.proven = e.proven /\ f.unproven = e.unproven
  BY <1>3 DEF Slot
<1> HIDE DEF f, c
<1>5. /\ c \in Slot /\ c.state = "ACTIVE" /\ c.handle = f.handle /\ c.tag = f.tag
      /\ c.link = f.link /\ c.attempts = f.attempts /\ c.pendRes = f.pendRes
      /\ c.pendReq = f.pendReq /\ c.res = f.res /\ c.req = f.req /\ c.receipt = f.receipt
      /\ c.sent = f.sent /\ c.proven = f.proven /\ c.unproven = f.unproven
  BY <1>1, <1>4 DEF Slot, States
<1>6. Alone(c)
  BY <1>2, <1>3, <1>4, <1>5 DEF Alone
<1>7. TakesSlot(c, t, l, FALSE)
  BY <1>3, <1>4, <1>5, <1>6 DEF Asks, Has, TakesSlot
<1>8. /\ g \in Slot /\ g.state = "ACTIVE" /\ g.handle = TRUE /\ g.tag = c.tag
      /\ g.link = c.link /\ g.attempts = c.attempts /\ g.pendRes = c.pendRes
      /\ g.pendReq = c.pendReq /\ g.res = c.res /\ g.req = c.req /\ g.receipt = c.receipt
      /\ g.sent = c.sent /\ g.proven = c.proven /\ g.unproven = c.unproven
  BY <1>5 DEF Slot, Handed
<1> HIDE DEF g
<1>9. Alone(g)
  BY <1>2, <1>3, <1>4, <1>5, <1>8 DEF Alone
<1>10. TakesSlot(g, t, l, TRUE)
  BY <1>3, <1>4, <1>5, <1>8, <1>9 DEF Asks, Has, TakesSlot
<1> QED BY <1>7, <1>10 DEF c, g

Arrives(a, s, t, l) ==
  [a EXCEPT !.slot[s] = Incoming(t, l), !.link[l].status = "ACTIVE", !.idle = Append(@, s)]
HandsOver(n, s, t) == [n EXCEPT !.slot[s].handle = TRUE, !.handles = @ \cup {t}]
UpLink == [status |-> "ACTIVE", asked |-> {}, carries |-> {}]

LEMMA ArrivesIs ==
  ASSUME NEW a, Shaped(a), NEW s \in Slots, NEW t, NEW l \in Links, a.link[l] = NoLink
  PROVE  /\ Parts(Arrives(a, s, t, l), [a.slot EXCEPT ![s] = Incoming(t, l)], Append(a.idle, s),
                  [a.link EXCEPT ![l] = UpLink], a.handles, a.told)
         /\ Parts(HandsOver(Arrives(a, s, t, l), s, t),
                  [a.slot EXCEPT ![s] = Handed(Incoming(t, l))], Append(a.idle, s),
                  [a.link EXCEPT ![l] = UpLink], a.handles \cup {t}, a.told)
<1> DEFINE c == Incoming(t, l)
           v == UpLink
           q == Append(a.idle, s)
           i == [a EXCEPT !.slot[s] = c]
           j == [i EXCEPT !.link[l] = v]
           n == [j EXCEPT !.idle = q]
<1>1. Parts(a, a.slot, a.idle, a.link, a.handles, a.told)
  BY ShapedRecord DEF Parts
<1> HIDE DEF c
<1>2. Parts(i, [a.slot EXCEPT ![s] = c], a.idle, a.link, a.handles, a.told)
  BY <1>1, PartSet
<1>3. Arrives(a, s, t, l) = [[i EXCEPT !.link[l].status = "ACTIVE"] EXCEPT !.idle = Append(@, s)]
  BY DEF Arrives, c
<1> HIDE DEF i
<1>4. [i EXCEPT !.link[l].status = "ACTIVE"] = j
  <2>1. i.link[l] = NoLink
    BY <1>2 DEF Parts
  <2>2. [NoLink EXCEPT !.status = "ACTIVE"] = v
    BY DEF NoLink, UpLink
  <2>3. [i EXCEPT !.link[l].status = "ACTIVE"]
          = [i EXCEPT !.link = [i.link EXCEPT ![l] = [i.link[l] EXCEPT !.status = "ACTIVE"]]]
    BY <1>2 DEF Parts, Recorded
  <2>4. [i EXCEPT !.link[l].status = "ACTIVE"] = [i EXCEPT !.link = [i.link EXCEPT ![l] = v]]
    BY <2>1, <2>2, <2>3
  <2> HIDE DEF v
  <2> QED BY <2>4
<1> HIDE DEF v
<1>5. Parts(j, [a.slot EXCEPT ![s] = c], a.idle, [a.link EXCEPT ![l] = v], a.handles, a.told)
  BY <1>2, PartSet
<1> HIDE DEF j
<1>6. Parts([j EXCEPT !.idle = q], [a.slot EXCEPT ![s] = c], q, [a.link EXCEPT ![l] = v], a.handles, a.told)
  <2> HIDE DEF q
  <2> QED BY <1>5, PartSet
<1>7. Arrives(a, s, t, l) = n
  <2>1. j.idle = a.idle
    BY <1>5 DEF Parts
  <2> QED BY <1>3, <1>4, <2>1
<1> DEFINE f == Handed(c)
           h == a.handles \cup {t}
           k == [n EXCEPT !.slot[s] = f]
<1>8. Parts(n, [a.slot EXCEPT ![s] = c], q, [a.link EXCEPT ![l] = v], a.handles, a.told)
  BY <1>6
<1> HIDE DEF n, q
<1>9. n.slot[s] = c /\ n.handles = a.handles
  BY <1>8 DEF Parts, Shaped
<1>10. [n EXCEPT !.slot[s].handle = TRUE] = k
  BY <1>8, <1>9 DEF Parts, Recorded, Handed
<1> HIDE DEF f
<1>11. Parts(k, [a.slot EXCEPT ![s] = f], q, [a.link EXCEPT ![l] = v], a.handles, a.told)
  <2>1. Parts(k, [[a.slot EXCEPT ![s] = c] EXCEPT ![s] = f], q, [a.link EXCEPT ![l] = v], a.handles, a.told)
    BY <1>8, PartSet
  <2>2. [[a.slot EXCEPT ![s] = c] EXCEPT ![s] = f] = [a.slot EXCEPT ![s] = f]
    OBVIOUS
  <2> QED BY <2>1, <2>2
<1>12. HandsOver(n, s, t) = [k EXCEPT !.handles = h]
  <2>1. HandsOver(n, s, t) = [[n EXCEPT !.slot[s].handle = TRUE] EXCEPT !.handles = @ \cup {t}]
    BY DEF HandsOver
  <2>2. k.handles = a.handles
    BY <1>11 DEF Parts
  <2> HIDE DEF k
  <2> QED BY <1>10, <2>1, <2>2
<1> HIDE DEF k, h
<1>13. Parts([k EXCEPT !.handles = h], [a.slot EXCEPT ![s] = f], q, [a.link EXCEPT ![l] = v], h, a.told)
  BY <1>11, PartSet
<1> QED BY <1>7, <1>8, <1>12, <1>13 DEF c, v, q, f, h

LEMMA TakesTheLink ==
  ASSUME NEW a, Core(a), NEW s \in Slots, a.slot[s] = Empty, NEW t, NEW l \in Links,
         a.link[l] = NoLink, \A o \in Slots : a.slot[o].tag # t,
         NEW h \in BOOLEAN, NEW c, TakesSlot(c, t, l, h), NEW m,
         Parts(m, [a.slot EXCEPT ![s] = c], Append(a.idle, s), [a.link EXCEPT ![l] = UpLink],
               a.handles \cup (IF h THEN {t} ELSE {}), a.told)
  PROVE  Core(m) /\ Only(a, m, s, c) /\ Quiet(a, m) /\ (Flushed(a) => Flushed(m))
<1>1. /\ Alone(c) /\ c.state = "ACTIVE" /\ c.tag = t /\ c.handle = h /\ c.link = l /\ c.res = None
      /\ Asks(c) = {} /\ Has(c) = {}
  BY DEF TakesSlot
<1>2. Shaped(a) /\ l # None
  BY DEF Core, Links, None
<1>3. /\ Recorded(m) /\ m.slot = [a.slot EXCEPT ![s] = c] /\ m.idle = Append(a.idle, s)
      /\ m.handles = a.handles \cup (IF c.handle THEN {c.tag} ELSE {}) /\ m.told = a.told
      /\ m.link = [a.link EXCEPT ![l] = UpLink]
  BY <1>1 DEF Parts
<1>4. /\ m.link \in [Links -> LinkRecord] /\ m.link[l] = UpLink
      /\ \A i \in Links : i # l => m.link[i] = a.link[i]
  <2>1. UpLink \in LinkRecord
    BY DEF UpLink, LinkRecord
  <2> QED BY <1>2, <1>3, <2>1 DEF Shaped
<1>5. Linked(c, UpLink) /\ UpLink.asked = {}
  BY <1>1 DEF Linked, UpLink
<1>6. Core(m) /\ Only(a, m, s, c) /\ Quiet(a, m)
  <2>1. c.state # "FREE" /\ \A o \in Slots : a.slot[o].tag # c.tag
    BY <1>1
  <2>2. \A i \in Links : i # c.link => m.link[i] = a.link[i]
    BY <1>1, <1>4
  <2>3. /\ c.link \in Links /\ a.link[c.link] = NoLink
        /\ Linked(c, m.link[c.link]) /\ m.link[c.link].asked = {}
    BY <1>1, <1>4, <1>5
  <2> QED BY <1>1, <1>3, <1>4, <2>1, <2>2, <2>3, Fills
<1>7. c.pendReq = None
  BY <1>1 DEF Asks
<1> QED BY <1>6, <1>7, FlushedStill

(* Nobody listens: the link that just came is torn down.                   *)
LEMMA NobodyListens ==
  ASSUME NEW n, Core(n), NEW s \in Used(n), Asks(n.slot[s]) = {}, n.slot[s].link # None
  PROVE  LET k == teardown(n, n.slot[s].link)
             m == [k EXCEPT !.slot[s].link = None, !.slot[s].state = "FAILED"]
         IN  Core(m) /\ Quiet(n, m) /\ (Flushed(n) => Flushed(m))
<1> DEFINE d == n.slot[s]
           k == teardown(n, d.link)
           j == [k EXCEPT !.slot[s].link = None]
           m == [k EXCEPT !.slot[s].link = None, !.slot[s].state = "FAILED"]
           st == "FAILED"
<1>1. s \in Slots /\ Alone(d) /\ d.state # "FREE"
  BY InUse
<1>2. m = Into(j, s, st)
  BY DEF Into
<1>3. j = k /\ Core(j) /\ Only(n, j, s, TornDown(d)) /\ Quiet(n, j) /\ Used(j) = Used(n)
  BY TearsDown
<1>4. st \in {"FAILED", "AWAITING_PATH"} /\ st # "AWAITING_PATH" /\ st # "ACTIVE"
  OBVIOUS
<1> DEFINE c == TornDown(d)
<1>5. c.link = None /\ Asks(c) = {}
  <2>1. Asks(d) = {}
    OBVIOUS
  <2> HIDE DEF d
  <2> QED BY <1>1, <2>1, TornFields
<1> HIDE DEF c, st, j, m
<1>6. j.slot[s] = c /\ c.req = None
  BY <1>3, <1>5 DEF Only, Asks, c
<1>7. Core(m) /\ Only(j, m, s, m.slot[s]) /\ Quiet(j, m) /\ m.slot[s].state = st
  BY <1>2, <1>3, <1>4, <1>5, <1>6, StateSet
<1>8. Quiet(n, m) /\ Only(n, m, s, m.slot[s])
  <2>1. Quiet(n, m)
    BY <1>3, <1>7, QuietTwice
  <2> QED BY <1>3, <1>7, <2>1 DEF Only
<1>9. Flushed(n) => Flushed(m)
  BY <1>1, <1>4, <1>7, <1>8, FlushedStill
<1> QED BY <1>7, <1>8, <1>9 DEF m

LEMMA onIncomingLinkEstablishedKeeps ==
  ASSUME Core(rnsd), NEW t \in InTags, onIncomingLinkEstablished(t)
  PROVE  Steps(rnsd, rnsd')
<1> DEFINE l == Min(Unmade(rnsd))
           s == NewSlot(rnsd)
           a == linkAlloc(rnsd)
           n == Arrives(a, s, t, l)
           c == Incoming(t, l)
           m == HandsOver(n, s, t)
           w == [teardown(n, l) EXCEPT !.slot[s].link = None, !.slot[s].state = "FAILED"]
<1>1. Unmade(rnsd) # {} /\ Tagged(rnsd, t) = {}
  BY DEF onIncomingLinkEstablished
<1>2. rnsd' = m \/ rnsd' = w
  BY DEF onIncomingLinkEstablished, HandsOver, Arrives, Incoming
<1>3. l \in Links /\ l # None /\ rnsd.link[l] = NoLink
  BY <1>1, FirstUnmade, UnmadeIs
<1>4. Allocated(rnsd, a, s) /\ t # None
  BY Allocates, SlotAssumption
<1> HIDE DEF a, s, l
<1>5. /\ Core(a) /\ FailsOne(rnsd, a) /\ s \in Slots /\ a.slot[s] = Empty /\ Shaped(a)
      /\ a.link[l] = NoLink
  BY <1>3, <1>4 DEF Allocated, Core
<1>6. \A o \in Slots : a.slot[o].tag # t
  BY <1>1, <1>4, TagIsFree
<1>7. Flushed(rnsd) => Flushed(a)
  BY <1>4, AllocatedFlushed
<1>8. /\ Parts(n, [a.slot EXCEPT ![s] = c], Append(a.idle, s), [a.link EXCEPT ![l] = UpLink],
               a.handles, a.told)
      /\ Parts(m, [a.slot EXCEPT ![s] = Handed(c)], Append(a.idle, s),
               [a.link EXCEPT ![l] = UpLink], a.handles \cup {t}, a.told)
  BY <1>3, <1>5, ArrivesIs
<1>9. TakesSlot(c, t, l, FALSE) /\ TakesSlot(Handed(c), t, l, TRUE)
  BY <1>3, IncomingIs
<1> HIDE DEF n, m, c
<1>10. CASE rnsd' = m
  <2> DEFINE e == Handed(c)
             h == TRUE
  <2>1. TakesSlot(e, t, l, h) /\ h \in BOOLEAN
    BY <1>9
  <2>2. Parts(m, [a.slot EXCEPT ![s] = e], Append(a.idle, s), [a.link EXCEPT ![l] = UpLink],
              a.handles \cup (IF h THEN {t} ELSE {}), a.told)
    BY <1>8
  <2> HIDE DEF e, h
  <2>3. Core(m) /\ Quiet(a, m) /\ (Flushed(a) => Flushed(m))
    BY <1>3, <1>5, <1>6, <2>1, <2>2, TakesTheLink
  <2>4. FailsOne(rnsd, m)
    BY <1>5, <2>3, ThenQuiet
  <2> QED BY <1>7, <1>10, <2>3, <2>4, FailsServes DEF Steps
<1>11. CASE rnsd' = w
  <2> DEFINE h == FALSE
  <2>1. TakesSlot(c, t, l, h) /\ h \in BOOLEAN
    BY <1>9
  <2>2. Parts(n, [a.slot EXCEPT ![s] = c], Append(a.idle, s), [a.link EXCEPT ![l] = UpLink],
              a.handles \cup (IF h THEN {t} ELSE {}), a.told)
    <3>1. a.handles \cup (IF h THEN {t} ELSE {}) = a.handles
      OBVIOUS
    <3> QED BY <1>8, <3>1
  <2> HIDE DEF h
  <2>3. Core(n) /\ Only(a, n, s, c) /\ Quiet(a, n) /\ (Flushed(a) => Flushed(n))
    BY <1>3, <1>5, <1>6, <2>1, <2>2, TakesTheLink
  <2>4. n.slot[s] = c /\ c.link = l /\ Asks(c) = {} /\ s \in Used(n)
    <3>1. n.slot[s] = c
      BY <2>3 DEF Only
    <3> QED BY <1>5, <2>1, <3>1 DEF TakesSlot, Used
  <2>5. w = [teardown(n, n.slot[s].link) EXCEPT !.slot[s].link = None, !.slot[s].state = "FAILED"]
    BY <2>4
  <2> HIDE DEF w
  <2>6. Core(w) /\ Quiet(n, w) /\ (Flushed(n) => Flushed(w))
    BY <1>3, <2>3, <2>4, <2>5, NobodyListens
  <2>7. FailsOne(rnsd, w)
    <3>1. FailsOne(rnsd, n)
      BY <1>5, <2>3, ThenQuiet
    <3> QED BY <2>6, <3>1, ThenQuiet
  <2>8. Flushed(rnsd) => Flushed(w)
    BY <1>7, <2>3, <2>6
  <2> QED BY <1>11, <2>6, <2>7, <2>8, FailsServes DEF Steps
<1> QED BY <1>2, <1>10, <1>11

-----------------------------------------------------------------------------
(* The invariant.                                                          *)

LEMMA InitHolds == Init => IInv
<1> SUFFICES ASSUME Init PROVE IInv
  OBVIOUS
<1>1. /\ rnsd = [slot |-> rnsd.slot, idle |-> rnsd.idle, link |-> rnsd.link,
                 handles |-> rnsd.handles, told |-> rnsd.told]
      /\ rnsd.slot = [s \in Slots |-> Empty] /\ rnsd.idle = <<>>
      /\ rnsd.link = [l \in Links |-> NoLink] /\ rnsd.handles = {}
      /\ rnsd.told = [x \in Names |-> <<>>]
  BY DEF Init, Names
<1>2. \A s \in Slots : rnsd.slot[s] = Empty
  BY <1>1
<1>3. Shaped(rnsd)
  <2>1. NoLink \in LinkRecord
    BY DEF NoLink, LinkRecord
  <2>2. <<>> \in Seq(Outcomes)
    OBVIOUS
  <2> QED BY <1>1, <2>1, <2>2, EmptySlot DEF Shaped
<1>4. SlotsHeld(rnsd)
  <2>1. Apart(Empty, Empty)
    BY EmptySlot DEF Apart
  <2> QED BY <1>2, <2>1, EmptySlot DEF SlotsHeld
<1>5. LinksHeld(rnsd)
  BY <1>1, <1>2, EmptySlot DEF LinksHeld
<1>6. HandlesHeld(rnsd)
  BY <1>1, <1>2, EmptySlot DEF HandlesHeld
<1>7. WordsHeld(rnsd)
  BY <1>1, <1>2, EmptySlot DEF WordsHeld
<1>8. AskedHeld(rnsd)
  BY <1>1 DEF AskedHeld, NoLink
<1>9. Lists(rnsd.idle, Used(rnsd))
  <2>1. Used(rnsd) = {}
    BY <1>2, EmptySlot DEF Used
  <2> QED BY <1>1, <2>1, NoneListed
<1>10. Flushed(rnsd)
  BY <1>2, EmptySlot DEF Flushed
<1>11. route \in BOOLEAN /\ replied = {} /\ calls \in 0 .. MaxCalls
  <2>1. MaxCalls \in Nat
    BY SlotAssumption
  <2>2. calls = 0 /\ replied = {}
    BY DEF Init
  <2>3. route \in BOOLEAN
    BY Zenon DEF Init
  <2> QED BY <2>1, <2>2, <2>3
<1> QED BY <1>3, <1>4, <1>5, <1>6, <1>7, <1>8, <1>9, <1>10, <1>11 DEF IInv, Core

(* A request that was issued stays issued.                                 *)
LEMMA StaysIssued ==
  ASSUME NEW n, NEW m, Serves(n, m), NEW r \in Requests, Issued(n, r)
  PROVE  Issued(m, r)
<1>1. CASE Quietly(n, m, r)
  BY <1>1 DEF Quietly
<1>2. ASSUME NEW word, Ends(n, m, r, word) PROVE Issued(m, r)
  <2>1. m.told[r] # <<>>
    BY <1>2 DEF Ends
  <2> QED BY <2>1 DEF Issued
<1> QED BY <1>1, <1>2 DEF Serves, Quiet, Opens, Refuses, Ends

(* One step, whoever takes it.                                             *)
Replies(r) ==
  /\ r \in Requests \ replied /\ Issued(rnsd, r)
  /\ rnsd' = rnsd /\ replied' = replied \cup {r}

LEMMA StayedSteps ==
  ASSUME Core(rnsd), rnsd' = rnsd
  PROVE  Steps(rnsd, rnsd')
BY DEF Steps, Serves, Quiet, Quietly

LEMMA CallsStep ==
  ASSUME IInv, Calls
  PROVE  Steps(rnsd, rnsd') /\ replied' = replied /\ route' = route /\ calls' \in 0 .. MaxCalls
<1>1. Core(rnsd) /\ Flushed(rnsd) /\ calls \in 0 .. MaxCalls
  BY DEF IInv
<1>c. ASSUME Call PROVE calls' \in 0 .. MaxCalls
  BY <1>1, <1>c, SlotAssumption DEF Call
<1>2. ASSUME NEW t \in Tags, onLinkConnect(t)
      PROVE  Steps(rnsd, rnsd') /\ Call /\ UNCHANGED <<route, replied>>
  BY <1>1, <1>2, onLinkConnectKeeps DEF onLinkConnect
<1>3. ASSUME NEW r \in Requests, auxRequestUnknown(r)
      PROVE  Steps(rnsd, rnsd') /\ Call /\ UNCHANGED <<route, replied>>
  BY <1>1, <1>3, auxRequestUnknownKeeps DEF auxRequestUnknown
<1>4. ASSUME NEW s \in Used(rnsd), linkConsumerSend(s)
      PROVE  Steps(rnsd, rnsd') /\ Call /\ UNCHANGED <<route, replied>>
  BY <1>1, <1>4, linkConsumerSendKeeps DEF linkConsumerSend
<1>5. ASSUME NEW s \in Used(rnsd), onLinkDisconnect(s)
      PROVE  Steps(rnsd, rnsd') /\ Call /\ UNCHANGED <<route, replied>>
  BY <1>1, <1>5, onLinkDisconnectKeeps DEF onLinkDisconnect
<1>6. ASSUME NEW s \in Used(rnsd), auxIdentify(s)
      PROVE  Steps(rnsd, rnsd') /\ Call /\ UNCHANGED <<route, replied>>
  BY <1>1, <1>6, auxIdentifyKeeps DEF auxIdentify
<1>7. ASSUME NEW s \in Used(rnsd), auxProofs(s)
      PROVE  Steps(rnsd, rnsd') /\ Call /\ UNCHANGED <<route, replied>>
  BY <1>1, <1>7, auxProofsKeeps DEF auxProofs
<1>8. ASSUME NEW s \in Used(rnsd), NEW x \in Outbound, auxSendResource(s, x)
      PROVE  Steps(rnsd, rnsd') /\ Call /\ UNCHANGED <<route, replied>>
  BY <1>1, <1>8, auxSendResourceKeeps DEF auxSendResource
<1>9. ASSUME NEW s \in Used(rnsd), NEW r \in Requests, auxRequest(s, r)
      PROVE  Steps(rnsd, rnsd') /\ Call /\ UNCHANGED <<route, replied>>
  BY <1>1, <1>9, auxRequestKeeps DEF auxRequest
<1> QED BY <1>c, <1>2, <1>3, <1>4, <1>5, <1>6, <1>7, <1>8, <1>9 DEF Calls

LEMMA CallbacksStep ==
  ASSUME IInv, Callbacks
  PROVE  /\ calls' = calls /\ route' \in BOOLEAN
         /\ \/ Steps(rnsd, rnsd') /\ replied' = replied
            \/ \E r \in Requests : Replies(r)
<1>1. Core(rnsd) /\ Flushed(rnsd) /\ route \in BOOLEAN
  BY DEF IInv
<1>2. ASSUME NEW s \in Used(rnsd), onLinkEstablishedCb(s)
      PROVE  Steps(rnsd, rnsd') /\ UNCHANGED <<route, replied, calls>>
  BY <1>1, <1>2, onLinkEstablishedCbKeeps DEF onLinkEstablishedCb
<1>3. ASSUME NEW s \in Used(rnsd), onLinkPacketCb(s)
      PROVE  Steps(rnsd, rnsd') /\ UNCHANGED <<route, replied, calls>>
  BY <1>1, <1>3, onLinkPacketCbKeeps DEF onLinkPacketCb
<1>4. ASSUME NEW s \in Used(rnsd), NEW x \in Inbound, onResAdvertised(s, x)
      PROVE  Steps(rnsd, rnsd') /\ UNCHANGED <<route, replied, calls>>
  BY <1>1, <1>4, onResAdvertisedKeeps DEF onResAdvertised
<1>5. ASSUME NEW t \in InTags, onIncomingLinkEstablished(t)
      PROVE  Steps(rnsd, rnsd') /\ UNCHANGED <<route, replied, calls>>
  BY <1>1, <1>5, onIncomingLinkEstablishedKeeps DEF onIncomingLinkEstablished
<1>6. ASSUME NEW l \in Links, linkEnds(l)
      PROVE  Steps(rnsd, rnsd') /\ UNCHANGED <<route, replied, calls>>
  BY <1>1, <1>6, linkEndsKeeps DEF linkEnds
<1>7. ASSUME NEW l \in Links, NEW x \in Resources, resourceEnds(l, x)
      PROVE  Steps(rnsd, rnsd') /\ UNCHANGED <<route, replied, calls>>
  BY <1>1, <1>7, resourceEndsKeeps DEF resourceEnds
<1>8. ASSUME NEW l \in Links, NEW r \in Requests, handle_request(l, r)
      PROVE  Replies(r) /\ UNCHANGED <<route, calls>>
  BY <1>1, <1>8 DEF handle_request, Replies, Core, AskedHeld
<1>9. ASSUME NEW l \in Links, NEW r \in Requests, handle_response(l, r)
      PROVE  Steps(rnsd, rnsd') /\ UNCHANGED <<route, replied, calls>>
  BY <1>1, <1>9, handle_responseKeeps DEF handle_response
<1>10. ASSUME NEW l \in Links, NEW r \in Requests, response_resource_concluded(l, r)
       PROVE  Steps(rnsd, rnsd') /\ UNCHANGED <<route, replied, calls>>
  BY <1>1, <1>10, response_resource_concludedKeeps DEF response_resource_concluded
<1>11. CASE routeChanges
  BY <1>1, <1>11, StayedSteps DEF routeChanges
<1> QED
  BY <1>1, <1>2, <1>3, <1>4, <1>5, <1>6, <1>7, <1>8, <1>9, <1>10, <1>11 DEF Callbacks

LEMMA TickSteps ==
  ASSUME IInv, NEW s \in Slots, linkTick(s)
  PROVE  Steps(rnsd, rnsd') /\ calls' = calls /\ replied' = replied /\ route' \in BOOLEAN
<1>1. Core(rnsd) /\ route \in BOOLEAN
  BY DEF IInv
<1>2. s \in Used(rnsd)
  <2>1. CASE rnsd.slot[s] = Empty
    BY <2>1 DEF linkTick, receiptSettles, linkIdentifyTick, requestTimeout, pathTick,
                establishTimeout, reclaim, Empty
  <2>2. CASE rnsd.slot[s] # Empty
    BY <1>1, <2>2 DEF Core, SlotsHeld, Alone, Used
  <2> QED BY <2>1, <2>2
<1>3. CASE receiptSettles(s)
  BY <1>1, <1>2, <1>3, receiptSettlesKeeps DEF receiptSettles
<1>4. CASE linkIdentifyTick(s)
  BY <1>1, <1>2, <1>4, linkIdentifyTickKeeps DEF linkIdentifyTick
<1>5. CASE requestTimeout(s)
  BY <1>1, <1>2, <1>5, requestTimeoutKeeps DEF requestTimeout
<1>6. CASE pathTick(s)
  BY <1>1, <1>2, <1>6, pathTickKeeps DEF pathTick
<1>7. CASE establishTimeout(s)
  BY <1>1, <1>2, <1>7, establishTimeoutKeeps DEF establishTimeout
<1>8. CASE reclaim(s)
  BY <1>1, <1>2, <1>8, reclaimKeeps DEF reclaim
<1> QED BY <1>3, <1>4, <1>5, <1>6, <1>7, <1>8 DEF linkTick

LEMMA NextSteps ==
  ASSUME IInv, [Next]_vars
  PROVE  /\ route' \in BOOLEAN /\ calls' \in 0 .. MaxCalls
         /\ \/ Steps(rnsd, rnsd') /\ replied' = replied
            \/ \E r \in Requests : Replies(r)
<1>1. Core(rnsd) /\ route \in BOOLEAN /\ calls \in 0 .. MaxCalls
  BY DEF IInv
<1>2. CASE Calls
  BY <1>1, <1>2, CallsStep
<1>3. CASE Callbacks
  BY <1>1, <1>3, CallbacksStep
<1>4. CASE \E s \in Slots : linkTick(s)
  BY <1>1, <1>4, TickSteps
<1>5. CASE UNCHANGED vars
  BY <1>1, <1>5, StayedSteps DEF vars
<1> QED BY <1>2, <1>3, <1>4, <1>5 DEF Next

LEMMA NextHolds == IInv /\ [Next]_vars => IInv'
<1> SUFFICES ASSUME IInv, [Next]_vars PROVE IInv'
  OBVIOUS
<1>1. route' \in BOOLEAN /\ calls' \in 0 .. MaxCalls
  BY NextSteps
<1>2. Core(rnsd) /\ Flushed(rnsd) /\ replied \subseteq Requests /\ \A r \in replied : Issued(rnsd, r)
  BY DEF IInv
<1>3. CASE Steps(rnsd, rnsd') /\ replied' = replied
  <2>1. \A r \in replied : Issued(rnsd', r)
    BY <1>2, <1>3, StaysIssued DEF Steps
  <2>2. Core(rnsd') /\ Flushed(rnsd')
    BY <1>2, <1>3 DEF Steps
  <2> QED BY <1>1, <1>2, <1>3, <2>1, <2>2 DEF IInv
<1>4. CASE \E r \in Requests : Replies(r)
  <2>1. /\ rnsd' = rnsd /\ replied' \subseteq Requests
        /\ \A r \in replied' : Issued(rnsd, r)
    BY <1>2, <1>4 DEF Replies
  <2>2. Core(rnsd') /\ Flushed(rnsd') /\ \A r \in replied' : Issued(rnsd', r)
    BY <1>2, <2>1
  <2> QED BY <1>1, <2>1, <2>2 DEF IInv
<1> QED BY <1>3, <1>4, NextSteps

(* Whatever the consumers call, the links and the remote end do and the    *)
(* clock decides, every handler of rnsd leaves its tables matched: each    *)
(* open slot its link and its handle, nothing shared by two slots, every   *)
(* word said once.                                                         *)
THEOREM Invariance == Spec => []IInv
BY InitHolds, NextHolds, PTL DEF Spec

-----------------------------------------------------------------------------
(* What the invariant says of the tables.                                  *)

LEMMA HandledTag ==
  ASSUME NEW c, Alone(c), c.handle
  PROVE  c.tag \in Tags \cup InTags
BY DEF Alone, Slot, Empty

LEMMA ThenTyped == IInv => TypeOK
<1> SUFFICES ASSUME IInv PROVE TypeOK
  OBVIOUS
<1>1. Core(rnsd) /\ Shaped(rnsd) /\ Lists(rnsd.idle, Used(rnsd)) /\ HandlesHeld(rnsd)
  BY DEF IInv, Core
<1>2. rnsd \in [slot : [Slots -> Slot], idle : Seq(Slots), link : [Links -> LinkRecord],
                handles : SUBSET (Tags \cup InTags), told : [Names -> Seq(Outcomes)]]
  <2>1. rnsd.idle \in Seq(Slots) /\ rnsd.handles \in SUBSET (Tags \cup InTags)
    BY <1>1 DEF Lists, HandlesHeld
  <2> QED BY <1>1, <2>1 DEF Shaped
<1>3. ToSet(rnsd.idle) = Used(rnsd) /\ Len(rnsd.idle) = Cardinality(Used(rnsd))
  BY <1>1, ListLength
<1> QED BY <1>2, <1>3 DEF IInv, TypeOK, LinkRecord, Names, Outcomes

LEMMA ThenMatched == IInv => SlotsMatchLinks
<1> SUFFICES ASSUME IInv PROVE SlotsMatchLinks
  OBVIOUS
<1>1. Core(rnsd) /\ Shaped(rnsd) /\ SlotsHeld(rnsd) /\ LinksHeld(rnsd)
  BY DEF IInv, Core
<1>2. DOMAIN Stage = {"PENDING", "ACTIVE"} /\ Stage["PENDING"] = "ESTABLISHING" /\ Stage["ACTIVE"] = "ACTIVE"
  BY DEF Stage
<1>3. ASSUME NEW l \in Links, rnsd.link[l].status \in DOMAIN Stage
      PROVE  \E s \in Of(rnsd, l) : /\ Of(rnsd, l) = {s}
                                    /\ rnsd.slot[s].state = Stage[rnsd.link[l].status]
  <2>1. rnsd.link[l] # NoLink /\ l # None
    BY <1>2, <1>3 DEF NoLink, Links, None
  <2>2. PICK s \in Slots : rnsd.slot[s].link = l
    BY <1>1, <2>1 DEF LinksHeld
  <2>3. Of(rnsd, l) = {s}
    BY <1>1, <2>1, <2>2, OfIs
  <2>4. Linked(rnsd.slot[s], rnsd.link[l])
    BY <1>1, <2>1, <2>2 DEF LinksHeld
  <2> QED BY <1>2, <2>3, <2>4 DEF Linked
<1>4. ASSUME NEW s \in Slots, rnsd.slot[s].link # None
      PROVE  rnsd.link[rnsd.slot[s].link].status \in DOMAIN Stage
  <2>1. Linked(rnsd.slot[s], rnsd.link[rnsd.slot[s].link])
    BY <1>1, <1>4 DEF LinksHeld
  <2> QED BY <1>2, <2>1 DEF Linked
<1> QED BY <1>3, <1>4 DEF SlotsMatchLinks

LEMMA ThenHandled == IInv => HandlesMatchSlots
<1> SUFFICES ASSUME IInv PROVE HandlesMatchSlots
  OBVIOUS
<1>1. SlotsHeld(rnsd) /\ HandlesHeld(rnsd)
  BY DEF IInv, Core
<1>2. \A s \in Slots : rnsd.slot[s].handle => rnsd.slot[s].tag \in Tags \cup InTags
  BY <1>1, HandledTag DEF SlotsHeld
<1>3. rnsd.handles = {rnsd.slot[s].tag : s \in {s \in Slots : rnsd.slot[s].handle}}
  BY <1>1, <1>2 DEF HandlesHeld
<1>4. ASSUME NEW s \in Used(rnsd), NEW o \in Used(rnsd), rnsd.slot[s].tag = rnsd.slot[o].tag
      PROVE  s = o
  BY <1>1, <1>4 DEF Used, SlotsHeld, Alone, Apart
<1> QED BY <1>3, <1>4 DEF HandlesMatchSlots

LEMMA ThenReported == IInv => ResourcesAreReported
<1> SUFFICES ASSUME IInv PROVE ResourcesAreReported
  OBVIOUS
<1>1. Core(rnsd) /\ SlotsHeld(rnsd) /\ LinksHeld(rnsd) /\ WordsHeld(rnsd)
  BY DEF IInv, Core
<1>2. ASSUME NEW x \in Resources
      PROVE  Len(rnsd.told[x]) + Cardinality(Holding(rnsd, x)) <= 1
  <2>1. x # None /\ x \in Names
    BY SlotAssumption DEF Names
  <2>2. CASE Holding(rnsd, x) = {}
    <3>1. rnsd.told[x] \in {<<>>, <<"DONE">>, <<"FAILED">>, <<"RESPONSE">>}
      BY <1>1, <2>1 DEF WordsHeld, Said
    <3>2. Len(<<>>) = 0 /\ Len(<<"DONE">>) = 1 /\ Len(<<"FAILED">>) = 1 /\ Len(<<"RESPONSE">>) = 1
      OBVIOUS
    <3>3. Len(rnsd.told[x]) = 0 \/ Len(rnsd.told[x]) = 1
      BY <3>1, <3>2
    <3>4. Cardinality(Holding(rnsd, x)) = 0
      BY <2>2, FS_EmptySet
    <3>5. ASSUME NEW m, NEW n, m = 0 \/ m = 1, n = 0 PROVE m + n <= 1
      BY <3>5
    <3> QED BY <3>3, <3>4, <3>5
  <2>3. ASSUME NEW s \in Holding(rnsd, x) PROVE Len(rnsd.told[x]) + Cardinality(Holding(rnsd, x)) <= 1
    <3>1. s \in Slots /\ rnsd.slot[s].res = x
      BY DEF Holding, Used
    <3>2. Holding(rnsd, x) = {s}
      BY <1>1, <2>1, <3>1, HoldingIs
    <3>3. Cardinality({s}) = 1
      BY FS_Singleton
    <3>4. rnsd.told[x] = <<>>
      BY <1>1, <2>1, <3>1 DEF WordsHeld, Has
    <3>5. Len(<<>>) = 0
      OBVIOUS
    <3> QED BY <3>2, <3>3, <3>4, <3>5
  <2> QED BY <2>2, <2>3
<1>3. ASSUME NEW l \in Links, NEW x \in rnsd.link[l].carries
      PROVE  \E s \in Of(rnsd, l) : rnsd.slot[s].res = x
  <2>1. l # None
    BY DEF Links, None
  <2>2. PICK s \in Slots : rnsd.slot[s].link = l
    BY <1>1, <1>3 DEF LinksHeld, NoLink
  <2>3. Of(rnsd, l) = {s}
    BY <1>1, <2>1, <2>2, OfIs
  <2>4. rnsd.link[l].carries = {rnsd.slot[s].res} \ {None}
    BY <1>1, <2>1, <2>2, Carried
  <2> QED BY <2>3, <2>4
<1>4. ASSUME NEW s \in Slots, rnsd.slot[s].res # None
      PROVE  /\ rnsd.slot[s].link # None
             /\ rnsd.slot[s].res \in rnsd.link[rnsd.slot[s].link].carries
  <2>1. rnsd.slot[s].link # None
    BY <1>1, <1>4 DEF SlotsHeld, Alone
  <2> QED BY <1>1, <1>4, <2>1, Carried
<1> QED BY <1>2, <1>3, <1>4 DEF ResourcesAreReported

LEMMA ThenCounted == IInv => CountersAccount
BY DEF IInv, Core, SlotsHeld, Alone, CountersAccount

(* Every value of the daemon's state has its type, the list of idle slots  *)
(* names each slot in use once, and a link is dialled RNSD_LINK_ATTEMPTS   *)
(* times at most, through linkTick's retries and the waits for a path.     *)
THEOREM Types == Spec => []TypeOK
BY Invariance, ThenTyped, PTL

(* rnsd's slots agree with the stack's links, with the handles consumers   *)
(* hold, with the resources they were told of and with the packets they    *)
(* sent, whether a slot is freed by an eviction, a disconnect, a refusal,  *)
(* a deadline or the tick.                                                 *)
THEOREM Agree == Spec => []TablesAgree
<1>1. IInv => TablesAgree
  BY ThenMatched, ThenHandled, ThenReported, ThenCounted DEF TablesAgree
<1> QED BY <1>1, Invariance, PTL

-----------------------------------------------------------------------------
(* A request is answered once.                                             *)

StageOf(n, r) ==
  CASE n.told[r] = <<>> -> IF Issued(n, r) THEN "open" ELSE "none"
    [] n.told[r] = <<"RESPONSE">> -> "responded"
    [] n.told[r] = <<"FAILED">> -> "failed"
    [] OTHER -> "answered twice"

LEMMA Words ==
  /\ <<>> # <<"RESPONSE">> /\ <<>> # <<"FAILED">> /\ <<"RESPONSE">> # <<"FAILED">>
<1>1. "RESPONSE" # "FAILED"
  OBVIOUS
<1>2. <<"RESPONSE">>[1] = "RESPONSE" /\ <<"FAILED">>[1] = "FAILED"
  OBVIOUS
<1>3. Len(<<>>) = 0 /\ Len(<<"RESPONSE">>) = 1 /\ Len(<<"FAILED">>) = 1
  OBVIOUS
<1> QED BY <1>1, <1>2, <1>3

LEMMA Staged ==
  ASSUME NEW n, NEW r
  PROVE  /\ ~Issued(n, r) => StageOf(n, r) = "none"
         /\ Issued(n, r) /\ n.told[r] = <<>> => StageOf(n, r) = "open"
         /\ n.told[r] = <<"RESPONSE">> => StageOf(n, r) = "responded"
         /\ n.told[r] = <<"FAILED">> => StageOf(n, r) = "failed"
         /\ Issued(n, r) => StageOf(n, r) # "none"
<1>1. ~Issued(n, r) => n.told[r] = <<>>
  BY DEF Issued
<1>2. n.told[r] = <<>> => StageOf(n, r) = IF Issued(n, r) THEN "open" ELSE "none"
  BY Words DEF StageOf
<1>3. n.told[r] = <<"RESPONSE">> => StageOf(n, r) = "responded"
  BY Words DEF StageOf
<1>4. n.told[r] = <<"FAILED">> => StageOf(n, r) = "failed"
  BY Words DEF StageOf
<1>5. n.told[r] # <<>> => StageOf(n, r) # "none"
  BY DEF StageOf
<1> QED BY <1>1, <1>2, <1>3, <1>4, <1>5

LEMMA QuietStage ==
  ASSUME NEW n, NEW m, NEW r, Quietly(n, m, r)
  PROVE  StageOf(m, r) = StageOf(n, r)
BY DEF Quietly, StageOf

StageMap(n) == [r \in Requests |-> StageOf(n, r)]
LEMMA StageIs == stage = StageMap(rnsd) /\ stage' = StageMap(rnsd')
BY DEF stage, StageMap, StageOf, Issued, Used

LEMMA OneStage ==
  ASSUME NEW n, NEW m, NEW q \in Requests, \A r \in Requests \ {q} : Quietly(n, m, r)
  PROVE  StageMap(m) = [StageMap(n) EXCEPT ![q] = StageOf(m, q)]
<1>1. \A r \in Requests \ {q} : StageOf(m, r) = StageOf(n, r)
  BY QuietStage
<1> QED BY <1>1 DEF StageMap

LEMMA ServedStep ==
  ASSUME Serves(rnsd, rnsd'), replied' = replied
  PROVE  [Service!Next]_(Service!svars)
<1> DEFINE a == StageMap(rnsd)
           b == StageMap(rnsd')
<1>0. stage = a /\ stage' = b /\ \A r \in Requests : a[r] = StageOf(rnsd, r) /\ b[r] = StageOf(rnsd', r)
  BY StageIs DEF StageMap
<1>1. CASE Quiet(rnsd, rnsd')
  <2>1. a = b
    BY <1>1, QuietStage DEF Quiet, StageMap
  <2> QED BY <1>0, <2>1 DEF Service!svars
<1>2. ASSUME NEW q \in Requests, Opens(rnsd, rnsd', q) \/ Refuses(rnsd, rnsd', q)
      PROVE  Service!Next
  <2>1. StageOf(rnsd, q) = "none" /\ StageOf(rnsd', q) \in {"open", "failed"}
    BY <1>2, Staged DEF Opens, Refuses
  <2>2. b = [a EXCEPT ![q] = StageOf(rnsd', q)]
    BY <1>2, OneStage DEF Opens, Refuses
  <2> HIDE DEF a, b
  <2>3. Service!Issue(q)
    BY <1>0, <2>1, <2>2 DEF Service!Issue
  <2> QED BY <2>3 DEF Service!Next
<1>3. ASSUME NEW q \in Requests, Ends(rnsd, rnsd', q, "FAILED") PROVE Service!Next
  <2>1. StageOf(rnsd, q) = "open" /\ StageOf(rnsd', q) = "failed"
    BY <1>3, Staged DEF Ends
  <2>2. b = [a EXCEPT ![q] = StageOf(rnsd', q)]
    BY <1>3, OneStage DEF Ends
  <2> HIDE DEF a, b
  <2>3. Service!Fail(q)
    BY <1>0, <2>1, <2>2 DEF Service!Fail
  <2> QED BY <2>3 DEF Service!Next
<1>4. ASSUME NEW q \in Requests, q \in replied, Ends(rnsd, rnsd', q, "RESPONSE") PROVE Service!Next
  <2>1. StageOf(rnsd, q) = "open" /\ StageOf(rnsd', q) = "responded"
    BY <1>4, Staged DEF Ends
  <2>2. b = [a EXCEPT ![q] = StageOf(rnsd', q)]
    BY <1>4, OneStage DEF Ends
  <2> HIDE DEF a, b
  <2>3. Service!Respond(q)
    BY <1>0, <1>4, <2>1, <2>2 DEF Service!Respond
  <2> QED BY <2>3 DEF Service!Next
<1> QED BY <1>1, <1>2, <1>3, <1>4 DEF Serves

LEMMA RepliedStep ==
  ASSUME NEW r \in Requests, Replies(r)
  PROVE  Service!Next
<1>1. stage = StageMap(rnsd) /\ stage' = StageMap(rnsd)
  BY StageIs DEF Replies
<1>2. stage[r] # "none"
  BY <1>1, Staged DEF Replies, StageMap
<1>3. Service!Reply(r)
  BY <1>1, <1>2 DEF Service!Reply, Replies
<1> QED BY <1>3 DEF Service!Next

(* Each request is answered once, with what the remote end replied or as   *)
(* failed, by auxRequest's refusal, by the response or its failure, by the *)
(* deadline, or when linkFreeSlot gives its slot away; never by two of     *)
(* them, and never by what was said to another.                            *)
THEOREM RequestsRefine == Spec => ImplementsService
<1>1. Init => Service!Init
  <2> SUFFICES ASSUME Init PROVE Service!Init
    OBVIOUS
  <2>1. IInv /\ replied = {} /\ rnsd.told = [x \in Names |-> <<>>] /\ \A s \in Slots : rnsd.slot[s] = Empty
    BY InitHolds DEF Init, Names
  <2>2. ASSUME NEW r \in Requests PROVE StageOf(rnsd, r) = "none"
    <3>1. rnsd.told[r] = <<>> /\ Used(rnsd) = {}
      BY <2>1, EmptySlot DEF Names, Used
    <3>2. ~Issued(rnsd, r)
      BY <3>1 DEF Issued
    <3> QED BY <3>2, Staged
  <2>3. stage = [r \in Requests |-> "none"]
    BY <2>2, StageIs DEF StageMap
  <2> QED BY <2>1, <2>3 DEF Service!Init
<1>2. IInv /\ [Next]_vars => [Service!Next]_(Service!svars)
  BY NextSteps, ServedStep, RepliedStep DEF Steps
<1> QED BY <1>1, <1>2, Invariance, PTL DEF Spec, ImplementsService, Service!Spec
=============================================================================
