------------------------- MODULE AnnounceRelayProofs -------------------------
(***************************************************************************)
(* Proofs about AnnounceRelay, for every value of its constants: any       *)
(* interfaces, modes, radii and neighbours, any number of emissions,       *)
(* questions and inputs, any guard and any number of rebroadcasts.         *)
(***************************************************************************)
EXTENDS AnnounceRelay, FiniteSetTheorems, TLAPS

-----------------------------------------------------------------------------
(* The ring, as the set of its queued records and the set of its held      *)
(* ones; neither ever has two.                                             *)

Those(R, held) == {R[k] : k \in Which(R, held)}
Ringed(R) ==
  /\ R \in Seq(Record)
  /\ \A held \in BOOLEAN : \A j, k \in Which(R, held) : j = k

LEMMA Constants ==
  /\ PATHFINDER_R \in Nat /\ LOCAL_REBROADCASTS_MAX \in Nat
  /\ MaxEmissions \in Nat /\ MaxHops \in Nat
  /\ FP_RING \in Nat /\ FP_RING > 0 /\ RDIR_G_RUN_LIMIT \in Nat /\ RDIR_G_RUN_LIMIT > 0
  /\ None \notin Ifaces /\ None \notin Tags
BY RelayAssumption

LEMMA FindsTheOne ==
  ASSUME NEW R, Ringed(R), NEW held \in BOOLEAN, NEW k \in Which(R, held)
  PROVE  announce_find(R, held) = k
<1>1. Which(R, held) = {k}
  BY DEF Ringed
<1>2. k \in Nat
  BY DEF Which, Ringed
<1>3. Min({k}) = k
  BY <1>2 DEF Min
<1> QED BY <1>1, <1>3 DEF announce_find

LEMMA Find ==
  ASSUME NEW R, Ringed(R), NEW held \in BOOLEAN, Which(R, held) # {}
  PROVE  /\ announce_find(R, held) \in Which(R, held)
         /\ announce_find(R, held) \in DOMAIN R
         /\ R[announce_find(R, held)] \in Record
         /\ R[announce_find(R, held)].held = held
         /\ Those(R, held) = {R[announce_find(R, held)]}
<1>1. PICK k \in Which(R, held) : TRUE
  OBVIOUS
<1>2. announce_find(R, held) = k
  BY <1>1, FindsTheOne
<1>3. k \in DOMAIN R /\ R[k].held = held /\ R[k] \in Record
  BY DEF Which, Ringed
<1>4. Those(R, held) = {R[k]}
  BY DEF Those, Ringed
<1> QED BY <1>2, <1>3, <1>4

LEMMA NoneThere ==
  ASSUME NEW R, NEW held
  PROVE  Which(R, held) = {} <=> Those(R, held) = {}
BY DEF Those

LEMMA AtMostOneThere ==
  ASSUME NEW R, Ringed(R), NEW held \in BOOLEAN, NEW r \in Those(R, held)
  PROVE  r \in Record /\ r.held = held /\ Those(R, held) = {r}
BY DEF Those, Ringed, Which

LEMMA Joined ==
  ASSUME NEW S, NEW q \in Seq(S), NEW r \in Seq(S)
  PROVE  /\ q \o r \in Seq(S) /\ Len(q \o r) = Len(q) + Len(r)
         /\ \A k \in 1 .. Len(q) + Len(r) :
              (q \o r)[k] = IF k <= Len(q) THEN q[k] ELSE r[k - Len(q)]
OBVIOUS

LEMMA RecordsHeld ==
  ASSUME NEW R, Ringed(R), NEW i \in DOMAIN R
  PROVE  R[i] \in Record /\ R[i].held \in BOOLEAN /\ i \in Which(R, R[i].held)
<1>1. R[i] \in Record
  BY DEF Ringed
<1> QED BY <1>1 DEF Record, Which

LEMMA TakenOut ==
  ASSUME NEW S, NEW q \in Seq(S), NEW i \in 1 .. Len(q)
  PROVE  /\ RemoveAt(q, i) \in Seq(S)
         /\ DOMAIN RemoveAt(q, i) = 1 .. Len(q) - 1
         /\ \A k \in 1 .. Len(q) - 1 : RemoveAt(q, i)[k] = IF k < i THEN q[k] ELSE q[k + 1]
<1>0. Len(q) \in Nat /\ i \in Nat /\ i >= 1 /\ i <= Len(q)
  OBVIOUS
<1> DEFINE a == SubSeq(q, 1, i - 1)
           b == SubSeq(q, i + 1, Len(q))
<1>1. a \in Seq(S) /\ Len(a) = i - 1 /\ \A k \in 1 .. i - 1 : a[k] = q[k]
  OBVIOUS
<1>2. b \in Seq(S) /\ Len(b) = Len(q) - i /\ \A k \in 1 .. Len(q) - i : b[k] = q[i + k]
  OBVIOUS
<1>3. RemoveAt(q, i) = a \o b
  BY DEF RemoveAt
<1> HIDE DEF a, b
<1>4. a \o b \in Seq(S) /\ Len(a \o b) = Len(q) - 1
  <2>1. a \o b \in Seq(S) /\ Len(a \o b) = Len(a) + Len(b)
    BY <1>1, <1>2, Joined
  <2>2. (i - 1) + (Len(q) - i) = Len(q) - 1
    BY <1>0
  <2> QED BY <1>1, <1>2, <2>1, <2>2
<1>5. ASSUME NEW k \in 1 .. Len(q) - 1 PROVE (a \o b)[k] = IF k < i THEN q[k] ELSE q[k + 1]
  <2>1. (a \o b)[k] = IF k <= Len(a) THEN a[k] ELSE b[k - Len(a)]
    <3>1. k \in 1 .. Len(a) + Len(b)
      <4>1. (i - 1) + (Len(q) - i) = Len(q) - 1
        BY <1>0
      <4> QED BY <1>1, <1>2, <4>1
    <3> QED BY <1>1, <1>2, <3>1, Joined
  <2>2. CASE k < i
    <3>1. k <= i - 1 /\ k \in 1 .. i - 1
      BY <1>0, <2>2
    <3> QED BY <1>1, <2>1, <2>2, <3>1
  <2>3. CASE k >= i
    <3>1. k - (i - 1) \in 1 .. Len(q) - i /\ i + (k - (i - 1)) = k + 1 /\ ~(k <= i - 1) /\ ~(k < i)
      BY <1>0, <2>3
    <3>2. b[k - (i - 1)] = q[i + (k - (i - 1))]
      BY <1>2, <3>1
    <3> QED BY <1>1, <2>1, <3>1, <3>2
  <2>4. k \in Nat
    BY <1>0
  <2>5. k < i \/ k >= i
    BY <1>0, <2>4
  <2> QED BY <2>2, <2>3, <2>5
<1>6. DOMAIN (a \o b) = 1 .. Len(q) - 1
  BY <1>4
<1> QED BY <1>3, <1>4, <1>5, <1>6

LEMMA OneGone ==
  ASSUME NEW R, Ringed(R), NEW i \in DOMAIN R
  PROVE  /\ Ringed(RemoveAt(R, i))
         /\ Those(RemoveAt(R, i), R[i].held) = {}
         /\ Those(RemoveAt(R, i), ~R[i].held) = Those(R, ~R[i].held)
<1> DEFINE T == RemoveAt(R, i)
           n == Len(R)
           old(k) == IF k < i THEN k ELSE k + 1
           new(k) == IF k < i THEN k ELSE k - 1
<1>1. R \in Seq(Record) /\ n \in Nat /\ i \in 1 .. n /\ DOMAIN R = 1 .. n
  BY DEF Ringed
<1>2. T \in Seq(Record) /\ DOMAIN T = 1 .. n - 1
  BY <1>1, TakenOut
<1>3. ASSUME NEW k \in DOMAIN T
      PROVE  old(k) \in DOMAIN R /\ old(k) # i /\ T[k] = R[old(k)]
  <2>1. k \in 1 .. n - 1
    BY <1>2
  <2>2. T[k] = IF k < i THEN R[k] ELSE R[k + 1]
    BY <1>1, <2>1, TakenOut
  <2>3. old(k) \in 1 .. n /\ old(k) # i
    BY <1>1, <2>1
  <2> QED BY <1>1, <2>2, <2>3
<1>4. ASSUME NEW k \in DOMAIN R, k # i
      PROVE  new(k) \in DOMAIN T /\ T[new(k)] = R[k]
  <2>1. new(k) \in DOMAIN T /\ old(new(k)) = k
    BY <1>1, <1>2, <1>4
  <2> QED BY <1>3, <2>1
<1>5. ASSUME NEW j \in DOMAIN T, NEW k \in DOMAIN T, old(j) = old(k) PROVE j = k
  BY <1>1, <1>2, <1>5
<1> HIDE DEF T, old, new
<1>6. ASSUME NEW held \in BOOLEAN, NEW j \in Which(T, held), NEW k \in Which(T, held)
      PROVE  j = k
  <2>1. old(j) \in Which(R, held) /\ old(k) \in Which(R, held)
    BY <1>3 DEF Which
  <2> QED BY <1>5, <2>1 DEF Ringed, Which
<1>7. R[i].held \in BOOLEAN /\ i \in Which(R, R[i].held)
  BY RecordsHeld
<1>8. Which(T, R[i].held) = {}
  <2>1. ASSUME NEW k \in Which(T, R[i].held) PROVE FALSE
    <3>1. old(k) \in Which(R, R[i].held) /\ old(k) # i
      BY <1>3 DEF Which
    <3> QED BY <1>7, <3>1 DEF Ringed
  <2> QED BY <2>1
<1>9. Those(T, ~R[i].held) = Those(R, ~R[i].held)
  <2>1. ASSUME NEW k \in Which(T, ~R[i].held) PROVE T[k] \in Those(R, ~R[i].held)
    BY <1>3 DEF Which, Those
  <2>2. ASSUME NEW k \in Which(R, ~R[i].held) PROVE R[k] \in Those(T, ~R[i].held)
    <3>1. k \in DOMAIN R /\ k # i
      BY <1>7 DEF Which
    <3> QED BY <1>4, <3>1 DEF Which, Those
  <2> QED BY <2>1, <2>2 DEF Those
<1> QED BY <1>2, <1>6, <1>8, <1>9 DEF Ringed, Those, T

LEMMA OneReplaced ==
  ASSUME NEW R, Ringed(R), NEW i \in DOMAIN R, NEW r \in Record,
         r.held = R[i].held \/ Those(R, r.held) = {}
  PROVE  /\ Ringed([R EXCEPT ![i] = r])
         /\ Those([R EXCEPT ![i] = r], r.held) = {r}
         /\ Those([R EXCEPT ![i] = r], ~r.held) =
              IF r.held = R[i].held THEN Those(R, ~r.held) ELSE {}
<1> DEFINE T == [R EXCEPT ![i] = r]
<1>1. T \in Seq(Record) /\ DOMAIN T = DOMAIN R
  BY DEF Ringed
<1>2. T[i] = r /\ \A k \in DOMAIN R : k # i => T[k] = R[k]
  BY DEF Ringed
<1>3. r.held \in BOOLEAN /\ R[i].held \in BOOLEAN /\ i \in Which(R, R[i].held)
  BY RecordsHeld DEF Record
<1> HIDE DEF T
<1>4. Which(T, r.held) = {i}
  BY <1>1, <1>2, <1>3 DEF Which, Ringed, Those
<1>5. Which(T, ~r.held) = IF r.held = R[i].held THEN Which(R, ~r.held) ELSE {}
  <2>1. CASE r.held = R[i].held
    BY <1>1, <1>2, <1>3, <2>1 DEF Which
  <2>2. CASE r.held # R[i].held
    BY <1>1, <1>2, <1>3, <2>2 DEF Which, Ringed
  <2> QED BY <2>1, <2>2
<1>6. Ringed(T)
  BY <1>1, <1>3, <1>4, <1>5 DEF Ringed
<1>7. Those(T, r.held) = {r}
  BY <1>2, <1>4 DEF Those
<1>8. Those(T, ~r.held) = IF r.held = R[i].held THEN Those(R, ~r.held) ELSE {}
  <2>1. ASSUME r.held = R[i].held, NEW k \in Which(R, ~r.held) PROVE T[k] = R[k]
    BY <1>2, <1>3, <2>1 DEF Which
  <2> QED BY <1>5, <2>1 DEF Those
<1> QED BY <1>6, <1>7, <1>8 DEF T

LEMMA OneAdded ==
  ASSUME NEW R, Ringed(R), NEW r \in Record, Those(R, r.held) = {}
  PROVE  /\ Ringed(Append(R, r))
         /\ Those(Append(R, r), r.held) = {r}
         /\ Those(Append(R, r), ~r.held) = Those(R, ~r.held)
<1> DEFINE T == Append(R, r)
           n == Len(R) + 1
<1>1. T \in Seq(Record) /\ DOMAIN T = DOMAIN R \cup {n} /\ n \notin DOMAIN R
  BY DEF Ringed
<1>2. T[n] = r /\ \A k \in DOMAIN R : T[k] = R[k]
  BY DEF Ringed
<1>3. r.held \in BOOLEAN
  BY DEF Record
<1> HIDE DEF T, n
<1>4. Which(T, r.held) = {n}
  BY <1>1, <1>2 DEF Which, Those
<1>5. Which(T, ~r.held) = Which(R, ~r.held)
  BY <1>1, <1>2, <1>3 DEF Which
<1>6. Ringed(T)
  BY <1>1, <1>3, <1>4, <1>5 DEF Ringed
<1>7. Those(T, r.held) = {r}
  BY <1>2, <1>4 DEF Those
<1>8. Those(T, ~r.held) = Those(R, ~r.held)
  BY <1>2, <1>5 DEF Those, Which
<1> QED BY <1>6, <1>7, <1>8 DEF T

-----------------------------------------------------------------------------
(* What each operation on the ring leaves queued and held.                 *)

LEMMA Dropped ==
  ASSUME NEW R, Ringed(R), NEW held \in BOOLEAN
  PROVE  /\ Ringed(Drop(R, held))
         /\ Those(Drop(R, held), held) = {}
         /\ Those(Drop(R, held), ~held) = Those(R, ~held)
<1>1. CASE Which(R, held) = {}
  BY <1>1, NoneThere DEF Drop
<1>2. CASE Which(R, held) # {}
  BY <1>2, Find, OneGone DEF Drop
<1> QED BY <1>1, <1>2

LEMMA Rearmed ==
  ASSUME NEW R, Ringed(R), Those(R, FALSE) = {}
  PROVE  /\ Ringed(Rearm(R))
         /\ Those(Rearm(R), TRUE) = {}
         /\ Those(Rearm(R), FALSE) = {[h EXCEPT !.held = FALSE] : h \in Those(R, TRUE)}
<1>1. CASE Which(R, TRUE) = {}
  BY <1>1, NoneThere DEF Rearm
<1>2. CASE Which(R, TRUE) # {}
  <2> DEFINE k == announce_find(R, TRUE)
             r == [R[k] EXCEPT !.held = FALSE]
  <2>1. k \in DOMAIN R /\ R[k] \in Record /\ R[k].held = TRUE /\ Those(R, TRUE) = {R[k]}
    BY <1>2, Find
  <2>2. r \in Record /\ r.held = FALSE
    BY <2>1 DEF Record
  <2>3. Rearm(R) = [R EXCEPT ![k] = r]
    BY <1>2 DEF Rearm
  <2> HIDE DEF k, r
  <2>a. Those(R, r.held) = {}
    BY <2>2, Zenon
  <2>4. /\ Ringed([R EXCEPT ![k] = r])
        /\ Those([R EXCEPT ![k] = r], r.held) = {r}
        /\ Those([R EXCEPT ![k] = r], ~r.held) =
             IF r.held = R[k].held THEN Those(R, ~r.held) ELSE {}
    BY <2>1, <2>2, <2>a, OneReplaced, ZenonT(30)
  <2>5. {[h EXCEPT !.held = FALSE] : h \in Those(R, TRUE)} = {r}
    BY <2>1 DEF r
  <2> QED BY <2>1, <2>2, <2>3, <2>4, <2>5
<1> QED BY <1>1, <1>2

LEMMA HeldBack ==
  ASSUME NEW R, Ringed(R)
  PROVE  /\ Ringed(Hold(R))
         /\ Those(Hold(R), FALSE) = {}
         /\ Those(R, FALSE) = {} => Those(Hold(R), TRUE) = Those(R, TRUE)
         /\ Those(R, FALSE) # {} =>
              Those(Hold(R), TRUE) = {[q EXCEPT !.held = TRUE] : q \in Those(R, FALSE)}
<1>1. CASE Which(R, FALSE) = {}
  BY <1>1, NoneThere DEF Hold
<1>2. CASE Which(R, FALSE) # {}
  <2> DEFINE one == Drop(R, TRUE)
             k == announce_find(one, FALSE)
             r == [one[k] EXCEPT !.held = TRUE]
  <2>1. Ringed(one) /\ Those(one, TRUE) = {} /\ Those(one, FALSE) = Those(R, FALSE)
    BY Dropped
  <2>2. Hold(R) = [one EXCEPT ![k] = r]
    BY <1>2 DEF Hold
  <2>3. Which(one, FALSE) # {}
    <3>1. Those(R, FALSE) # {}
      BY <1>2, NoneThere
    <3>2. Those(one, FALSE) # {}
      BY <2>1, <3>1
    <3> HIDE DEF one
    <3> QED BY <3>2, NoneThere
  <2> HIDE DEF one
  <2>4. k \in DOMAIN one /\ one[k] \in Record /\ one[k].held = FALSE /\ Those(one, FALSE) = {one[k]}
    BY <2>1, <2>3, Find
  <2>5. r \in Record /\ r.held = TRUE
    BY <2>4 DEF Record
  <2> HIDE DEF k, r
  <2>a. Those(one, r.held) = {}
    BY <2>1, <2>5, Zenon
  <2>6. /\ Ringed([one EXCEPT ![k] = r])
        /\ Those([one EXCEPT ![k] = r], r.held) = {r}
        /\ Those([one EXCEPT ![k] = r], ~r.held) =
             IF r.held = one[k].held THEN Those(one, ~r.held) ELSE {}
    BY <2>1, <2>4, <2>5, <2>a, OneReplaced, ZenonT(30)
  <2>7. {[q EXCEPT !.held = TRUE] : q \in Those(R, FALSE)} = {r}
    BY <2>1, <2>4 DEF r
  <2> QED BY <2>1, <2>2, <2>4, <2>5, <2>6, <2>7
<1> QED BY <1>1, <1>2

(* The oldest is evicted.                                                  *)
LEMMA OldestGone ==
  ASSUME NEW R, Ringed(R), R # <<>>
  PROVE  /\ Ringed(Tail(R))
         /\ \A held \in BOOLEAN : Those(Tail(R), held) \subseteq Those(R, held)
<1>1. /\ Tail(R) \in Seq(Record)
      /\ \A k \in DOMAIN Tail(R) : k + 1 \in DOMAIN R /\ Tail(R)[k] = R[k + 1] /\ k \in Nat
  BY DEF Ringed
<1> DEFINE T == Tail(R)
<1> HIDE DEF T
<1>2. ASSUME NEW held \in BOOLEAN, NEW k \in Which(T, held)
      PROVE  k + 1 \in Which(R, held) /\ T[k] = R[k + 1] /\ k \in Nat
  BY <1>1 DEF Which, T
<1>3. ASSUME NEW held \in BOOLEAN, NEW j \in Which(T, held), NEW k \in Which(T, held)
      PROVE  j = k
  <2>1. j + 1 = k + 1 /\ j \in Nat /\ k \in Nat
    BY <1>2 DEF Ringed
  <2> QED BY <2>1
<1>4. ASSUME NEW held \in BOOLEAN PROVE Those(T, held) \subseteq Those(R, held)
  BY <1>2 DEF Those
<1> QED BY <1>1, <1>3, <1>4 DEF Ringed, T

(* What is held in T is held in R, what is queued is queued in R, but for  *)
(* what it has heard since.                                                *)
Lighter(T, R) ==
  /\ Those(T, TRUE) \subseteq Those(R, TRUE)
  /\ \A q \in Those(T, FALSE) :
       \E r \in Those(R, FALSE) : q.e = r.e /\ q.to = r.to /\ q.retries = r.retries

LEMMA StoodDown ==
  ASSUME NEW R, Ringed(R), NEW p
  PROVE  Ringed(StandDown(R, p)) /\ Lighter(StandDown(R, p), R)
<1> DEFINE k == announce_find(R, FALSE)
<1>4. \/ StandDown(R, p) = R
      \/ Which(R, FALSE) # {} /\ StandDown(R, p) = RemoveAt(R, k)
      \/ Which(R, FALSE) # {} /\ StandDown(R, p) = [R EXCEPT ![k].heard = @ + 1]
  BY DEF StandDown
<1>5. ASSUME Which(R, FALSE) # {}
      PROVE  k \in DOMAIN R /\ R[k] \in Record /\ R[k].held = FALSE /\ Those(R, FALSE) = {R[k]}
  BY <1>5, Find
<1> HIDE DEF k
<1>1. CASE StandDown(R, p) = R
  BY <1>1 DEF Lighter
<1>2. ASSUME Which(R, FALSE) # {}, StandDown(R, p) = RemoveAt(R, k)
      PROVE  Ringed(StandDown(R, p)) /\ Those(StandDown(R, p), TRUE) = Those(R, TRUE)
             /\ Those(StandDown(R, p), FALSE) = {}
  <2>1. k \in DOMAIN R /\ R[k].held = FALSE
    BY <1>2, <1>5
  <2>2. /\ Ringed(RemoveAt(R, k))
        /\ Those(RemoveAt(R, k), R[k].held) = {}
        /\ Those(RemoveAt(R, k), ~R[k].held) = Those(R, ~R[k].held)
    BY <2>1, OneGone
  <2> QED BY <1>2, <2>1, <2>2
<1>3. ASSUME Which(R, FALSE) # {}, StandDown(R, p) = [R EXCEPT ![k].heard = @ + 1]
      PROVE  Ringed(StandDown(R, p)) /\ Lighter(StandDown(R, p), R)
  <2> DEFINE r == [R[k] EXCEPT !.heard = @ + 1]
  <2>1. k \in DOMAIN R /\ R[k] \in Record /\ R[k].held = FALSE /\ Those(R, FALSE) = {R[k]}
    BY <1>3, <1>5
  <2>2. r \in Record /\ r.held = FALSE /\ r.e = R[k].e /\ r.to = R[k].to /\ r.retries = R[k].retries
    BY <2>1 DEF Record
  <2>3. StandDown(R, p) = [R EXCEPT ![k] = r]
    BY <1>3
  <2> HIDE DEF r
  <2>4. /\ Ringed([R EXCEPT ![k] = r])
        /\ Those([R EXCEPT ![k] = r], r.held) = {r}
        /\ Those([R EXCEPT ![k] = r], ~r.held) =
             IF r.held = R[k].held THEN Those(R, ~r.held) ELSE {}
    BY <2>1, <2>2, OneReplaced
  <2> QED BY <2>1, <2>2, <2>3, <2>4 DEF Lighter
<1> QED BY <1>1, <1>2, <1>3, <1>4 DEF Lighter

-----------------------------------------------------------------------------
(* How often an emission is rebroadcast on an interface.  n counts the     *)
(* times it was, and the copy that waits for the cap; a record has         *)
(* attempts left, but a queued one leaves the ring with its first while    *)
(* another is held.                                                        *)

Most == PATHFINDER_R + 3
Left(r, e) == IF r.e = e /\ r.to = None THEN PATHFINDER_R + 1 - r.retries ELSE 0
Once(r, e) == IF r.e = e /\ r.to = None THEN 1 ELSE 0
Sums(R, e, n) ==
  /\ n <= Most
  /\ \A q \in Those(R, FALSE) : Those(R, TRUE) = {} => n + Left(q, e) <= Most
  /\ \A h \in Those(R, TRUE) :
       /\ n + Left(h, e) <= Most
       /\ \A q \in Those(R, FALSE) :
            n + Left(h, e) + Once(q, e) <= Most /\ (Once(q, e) = 1 => n <= 1)

LEMMA LeftIs ==
  ASSUME NEW r \in Record, NEW e
  PROVE  Left(r, e) \in Nat /\ Left(r, e) <= PATHFINDER_R + 1
         /\ Once(r, e) \in Nat /\ Once(r, e) \in {0, 1}
         /\ (Once(r, e) = 0 => Left(r, e) = 0)
BY Constants DEF Left, Once, Record

LEMMA MostIs == PATHFINDER_R \in Nat /\ Most \in Nat /\ Most = PATHFINDER_R + 3
BY Constants DEF Most

LEMMA AllRecords ==
  ASSUME NEW R, Ringed(R)
  PROVE  /\ \A q \in Those(R, FALSE) : q \in Record /\ q.held = FALSE
         /\ \A h \in Those(R, TRUE) : h \in Record /\ h.held = TRUE
BY DEF Those, Ringed, Which

LEMMA FewerSum ==
  ASSUME NEW R, Ringed(R), NEW e, NEW n \in Nat, NEW m \in Nat, m <= n, Sums(R, e, n)
  PROVE  Sums(R, e, m)
<1>1. m <= Most
  BY MostIs DEF Sums
<1>2. ASSUME NEW q \in Those(R, FALSE), Those(R, TRUE) = {} PROVE m + Left(q, e) <= Most
  <2>1. Left(q, e) \in Nat
    BY LeftIs, AllRecords
  <2>2. n + Left(q, e) <= Most
    BY <1>2 DEF Sums
  <2> QED BY <2>1, <2>2, MostIs
<1>3. ASSUME NEW h \in Those(R, TRUE)
      PROVE  /\ m + Left(h, e) <= Most
             /\ \A q \in Those(R, FALSE) :
                  m + Left(h, e) + Once(q, e) <= Most /\ (Once(q, e) = 1 => m <= 1)
  <2>1. Left(h, e) \in Nat
    BY LeftIs, AllRecords
  <2>2. m + Left(h, e) <= Most
    <3>1. n + Left(h, e) <= Most
      BY DEF Sums
    <3> QED BY <2>1, <3>1, MostIs
  <2>3. ASSUME NEW q \in Those(R, FALSE)
        PROVE  m + Left(h, e) + Once(q, e) <= Most /\ (Once(q, e) = 1 => m <= 1)
    <3>1. Once(q, e) \in Nat
      BY LeftIs, AllRecords
    <3>2. n + Left(h, e) + Once(q, e) <= Most /\ (Once(q, e) = 1 => n <= 1)
      BY DEF Sums
    <3> QED BY <2>1, <3>1, <3>2, MostIs
  <2> QED BY <2>2, <2>3
<1> QED BY <1>1, <1>2, <1>3 DEF Sums

(* Records go, and none comes.                                             *)
LEMMA LighterSums ==
  ASSUME NEW R, Ringed(R), NEW T, Ringed(T), Lighter(T, R), NEW e, NEW n \in Nat, Sums(R, e, n)
  PROVE  Sums(T, e, n)
<1>1. ASSUME NEW q \in Those(T, FALSE)
      PROVE  \E r \in Those(R, FALSE) : Left(q, e) = Left(r, e) /\ Once(q, e) = Once(r, e)
  BY DEF Left, Once, Lighter
<1>2. ASSUME NEW q \in Those(T, FALSE), Those(T, TRUE) = {} PROVE n + Left(q, e) <= Most
  <2>1. PICK r \in Those(R, FALSE) : Left(q, e) = Left(r, e) /\ Once(q, e) = Once(r, e)
    BY <1>1
  <2>2. Left(q, e) \in Nat /\ Left(q, e) <= PATHFINDER_R + 1 /\ Once(q, e) \in {0, 1}
        /\ (Once(q, e) = 0 => Left(q, e) = 0)
    BY LeftIs, AllRecords
  <2>3. CASE Those(R, TRUE) = {}
    BY <2>1, <2>3 DEF Sums
  <2>4. CASE Those(R, TRUE) # {}
    <3>1. Once(q, e) = 1 => n <= 1
      BY <2>1, <2>4 DEF Sums
    <3>2. n <= Most
      BY DEF Sums
    <3> QED BY <2>2, <3>1, <3>2, MostIs
  <2> QED BY <2>3, <2>4
<1>3. ASSUME NEW h \in Those(T, TRUE)
      PROVE  /\ n + Left(h, e) <= Most
             /\ \A q \in Those(T, FALSE) :
                  n + Left(h, e) + Once(q, e) <= Most /\ (Once(q, e) = 1 => n <= 1)
  <2>1. h \in Those(R, TRUE)
    BY DEF Lighter
  <2>2. ASSUME NEW q \in Those(T, FALSE)
        PROVE  n + Left(h, e) + Once(q, e) <= Most /\ (Once(q, e) = 1 => n <= 1)
    <3>1. PICK r \in Those(R, FALSE) : Left(q, e) = Left(r, e) /\ Once(q, e) = Once(r, e)
      BY <1>1
    <3> QED BY <2>1, <3>1 DEF Sums
  <2> QED BY <2>1, <2>2 DEF Sums
<1> QED BY <1>2, <1>3 DEF Sums

LEMMA DropSums ==
  ASSUME NEW R, Ringed(R), NEW held \in BOOLEAN, NEW e, NEW n \in Nat, Sums(R, e, n)
  PROVE  Sums(Drop(R, held), e, n)
<1>1. Ringed(Drop(R, held)) /\ \A b \in BOOLEAN : Those(Drop(R, held), b) \subseteq Those(R, b)
  BY Dropped
<1>2. Lighter(Drop(R, held), R)
  BY <1>1 DEF Lighter
<1> QED BY <1>1, <1>2, LighterSums

(* The held record becomes the queued one.                                 *)
LEMMA RearmSums ==
  ASSUME NEW R, Ringed(R), Those(R, FALSE) = {}, NEW e, NEW n \in Nat, Sums(R, e, n)
  PROVE  Sums(Rearm(R), e, n)
<1>1. /\ Those(Rearm(R), TRUE) = {}
      /\ Those(Rearm(R), FALSE) = {[h EXCEPT !.held = FALSE] : h \in Those(R, TRUE)}
  BY Rearmed
<1>2. ASSUME NEW h \in Those(R, TRUE) PROVE n + Left([h EXCEPT !.held = FALSE], e) <= Most
  <2>1. h \in Record
    BY AtMostOneThere
  <2>2. Left([h EXCEPT !.held = FALSE], e) = Left(h, e)
    BY <2>1 DEF Left, Record
  <2> QED BY <2>2 DEF Sums
<1> QED BY <1>1, <1>2 DEF Sums

(* The queued record is held, and an answer queued before it.              *)
LEMMA AnswerSums ==
  ASSUME NEW R, Ringed(R), NEW a \in Record, a.held = FALSE, a.to # None,
         NEW e, NEW n \in Nat, Sums(R, e, n)
  PROVE  Ringed(Append(Hold(R), a)) /\ Sums(Append(Hold(R), a), e, n)
<1> DEFINE T == Append(Hold(R), a)
<1>1. Ringed(Hold(R)) /\ Those(Hold(R), FALSE) = {}
  BY HeldBack
<1>2. Ringed(T) /\ Those(T, FALSE) = {a} /\ Those(T, TRUE) = Those(Hold(R), TRUE)
  <2>1. Those(Hold(R), a.held) = {}
    BY <1>1
  <2>2. /\ Ringed(T) /\ Those(T, a.held) = {a} /\ Those(T, ~a.held) = Those(Hold(R), ~a.held)
    BY <1>1, <2>1, OneAdded
  <2> QED BY <2>2
<1> HIDE DEF T
<1>3. Left(a, e) = 0 /\ Once(a, e) = 0
  BY DEF Left, Once
<1>4. ASSUME NEW h \in Those(T, TRUE) PROVE n + Left(h, e) <= Most /\ Left(h, e) \in Nat
  <2>1. CASE Those(R, FALSE) = {}
    <3>1. h \in Those(R, TRUE)
      BY <1>2, <2>1, HeldBack
    <3>2. Left(h, e) \in Nat
      BY <3>1, AllRecords, LeftIs
    <3> QED BY <3>1, <3>2 DEF Sums
  <2>2. CASE Those(R, FALSE) # {}
    <3>1. PICK q \in Those(R, FALSE) : h = [q EXCEPT !.held = TRUE]
      <4>1. Those(T, TRUE) = {[q EXCEPT !.held = TRUE] : q \in Those(R, FALSE)}
        BY <1>2, <2>2, HeldBack
      <4> QED BY <4>1
    <3>2. q \in Record
      BY AllRecords
    <3>3. Left(h, e) = Left(q, e)
      BY <3>1, <3>2 DEF Left, Record
    <3>4. Left(q, e) \in Nat /\ Left(q, e) <= PATHFINDER_R + 1 /\ Once(q, e) \in {0, 1}
          /\ (Once(q, e) = 0 => Left(q, e) = 0)
      BY <3>2, LeftIs
    <3>5. CASE Those(R, TRUE) = {}
      <4>1. n + Left(q, e) <= Most
        BY <3>5 DEF Sums
      <4> QED BY <3>3, <3>4, <4>1
    <3>6. CASE Those(R, TRUE) # {}
      <4>1. Once(q, e) = 1 => n <= 1
        BY <3>6 DEF Sums
      <4>2. n <= Most
        BY DEF Sums
      <4> QED BY <3>3, <3>4, <4>1, <4>2, MostIs
    <3> QED BY <3>5, <3>6
  <2> QED BY <2>1, <2>2
<1>5. Sums(T, e, n)
  <2>1. n <= Most
    BY DEF Sums
  <2>2. ASSUME NEW h \in Those(T, TRUE)
        PROVE  n + Left(h, e) + Once(a, e) <= Most /\ (Once(a, e) = 1 => n <= 1)
    <3>1. Left(h, e) \in Nat /\ n + Left(h, e) <= Most
      BY <1>4
    <3>2. n + Left(h, e) + 0 = n + Left(h, e)
      BY <3>1
    <3> QED BY <1>3, <3>1, <3>2
  <2>3. n + Left(a, e) <= Most
    <3>1. n + 0 = n
      OBVIOUS
    <3> QED BY <1>3, <2>1, <3>1
  <2> QED BY <1>2, <1>4, <2>1, <2>2, <2>3 DEF Sums
<1> QED BY <1>2, <1>5 DEF T

(* A new record takes the place of the queued one.                         *)
LEMMA StoreSums ==
  ASSUME NEW R, Ringed(R), NEW r \in Record, r.held = FALSE, r.retries = 0, NEW e, NEW n \in Nat,
         IF r.e = e THEN n <= 1 ELSE Sums(R, e, n)
  PROVE  Ringed(announce_store(R, r)) /\ Sums(announce_store(R, r), e, n)
<1> DEFINE one == Drop(R, FALSE)
           T == Append(one, r)
<1>1. Ringed(one) /\ Those(one, FALSE) = {} /\ Those(one, TRUE) = Those(R, TRUE)
  BY Dropped
<1>2. Ringed(T) /\ Those(T, FALSE) = {r} /\ Those(T, TRUE) = Those(R, TRUE)
  <2>1. Those(one, r.held) = {}
    BY <1>1
  <2>2. /\ Ringed(T) /\ Those(T, r.held) = {r} /\ Those(T, ~r.held) = Those(one, ~r.held)
    BY <1>1, <2>1, OneAdded
  <2> QED BY <1>1, <2>2
<1>3. T = announce_store(R, r)
  BY DEF announce_store
<1> HIDE DEF T, one
<1>4. Left(r, e) \in Nat /\ Left(r, e) <= PATHFINDER_R + 1 /\ Once(r, e) \in {0, 1}
      /\ (Once(r, e) = 0 => Left(r, e) = 0)
  BY LeftIs
<1>5. ASSUME NEW h \in Those(T, TRUE)
      PROVE  h \in Those(R, TRUE) /\ Left(h, e) \in Nat /\ Left(h, e) <= PATHFINDER_R + 1
  <2>1. h \in Those(R, TRUE) /\ h \in Record
    BY <1>2, AllRecords
  <2> QED BY <2>1, LeftIs
<1>6. CASE r.e = e
  <2>1. n <= 1 /\ n <= Most
    BY <1>6, MostIs
  <2>2. n + Left(r, e) <= Most
    BY <1>4, <2>1, MostIs
  <2>3. ASSUME NEW h \in Those(T, TRUE)
        PROVE  n + Left(h, e) <= Most /\ n + Left(h, e) + Once(r, e) <= Most
    <3>1. Left(h, e) \in Nat /\ Left(h, e) <= PATHFINDER_R + 1
      BY <1>5
    <3>2. Once(r, e) \in Nat /\ Once(r, e) <= 1
      BY <1>4
    <3> QED BY <2>1, <3>1, <3>2, MostIs
  <2> QED BY <1>2, <1>3, <2>1, <2>2, <2>3 DEF Sums
<1>7. CASE r.e # e
  <2>1. Once(r, e) = 0 /\ Left(r, e) = 0 /\ n <= Most
    BY <1>7 DEF Once, Left, Sums
  <2>2. n + Left(r, e) <= Most
    BY <2>1
  <2>3. ASSUME NEW h \in Those(T, TRUE)
        PROVE  n + Left(h, e) <= Most /\ n + Left(h, e) + Once(r, e) <= Most
    <3>1. Sums(R, e, n) /\ h \in Those(R, TRUE) /\ Left(h, e) \in Nat
      BY <1>5, <1>7
    <3>2. n + Left(h, e) <= Most
      BY <3>1 DEF Sums
    <3>3. n + Left(h, e) + 0 = n + Left(h, e)
      BY <3>1
    <3> QED BY <2>1, <3>2, <3>3
  <2>4. ~(Once(r, e) = 1)
    BY <2>1
  <2>5. Sums(T, e, n)
    BY <1>2, <2>1, <2>2, <2>3, <2>4 DEF Sums
  <2> QED BY <1>2, <1>3, <2>5
<1> QED BY <1>6, <1>7

(* The queued record is emitted.                                           *)
Tried(r) == [r EXCEPT !.retries = r.retries + 1]

LEMMA OneLessLeft ==
  ASSUME NEW r \in Record, ~Finished(r), NEW e
  PROVE  /\ Tried(r) \in Record /\ Tried(r).held = r.held
         /\ Left(Tried(r), e) + Once(r, e) = Left(r, e)
<1>1. r.retries \in 0 .. PATHFINDER_R + 1 /\ ~(r.retries > PATHFINDER_R)
  BY DEF Finished, Record
<1>2. r.retries \in Nat /\ r.retries <= PATHFINDER_R /\ r.retries + 1 \in 0 .. PATHFINDER_R + 1
  BY <1>1, MostIs
<1>3. Tried(r) \in Record /\ Tried(r).held = r.held /\ Tried(r).e = r.e /\ Tried(r).to = r.to
      /\ Tried(r).retries = r.retries + 1
  BY <1>2 DEF Record, Tried
<1>4. Left(Tried(r), e) + Once(r, e) = Left(r, e)
  BY <1>2, <1>3, MostIs DEF Left, Once
<1> QED BY <1>3, <1>4

LEMMA SumMoves ==
  ASSUME NEW n \in Nat, NEW m \in Nat, NEW o \in Nat, NEW l \in Nat, m <= n + o,
         n + l + o <= Most
  PROVE  m + l <= Most /\ m <= Most
BY MostIs

LEMMA SumStays ==
  ASSUME NEW n \in Nat, NEW m \in Nat, NEW o \in Nat, NEW l \in Nat, NEW k, m <= n + o,
         l + o = k, n + k <= Most
  PROVE  m + l <= Most /\ m <= Most
BY MostIs

LEMMA EmitSums ==
  ASSUME NEW R, Ringed(R), Which(R, FALSE) # {}, NEW r, r = R[announce_find(R, FALSE)],
         ~Finished(r), NEW e, NEW n \in Nat, NEW m \in Nat, m <= n + Once(r, e), Sums(R, e, n)
  PROVE  Ringed(Emitted(R)) /\ Sums(Emitted(R), e, m)
<1> DEFINE k == announce_find(R, FALSE)
<1>1. k \in DOMAIN R /\ R[k] = r /\ r \in Record /\ r.held = FALSE /\ Those(R, FALSE) = {r}
  BY Find
<1>2. Once(r, e) \in Nat /\ Left(r, e) \in Nat
  BY <1>1, LeftIs
<1>3. CASE Which(R, TRUE) = {}
  <2> DEFINE t == Tried(r)
             T == [R EXCEPT ![k] = t]
  <2>1. Emitted(R) = T
    BY <1>1, <1>3 DEF Emitted, Tried
  <2>2. t \in Record /\ t.held = FALSE /\ Left(t, e) + Once(r, e) = Left(r, e)
    BY <1>1, OneLessLeft
  <2> HIDE DEF t, k
  <2>3. /\ Ringed(T) /\ Those(T, t.held) = {t}
        /\ Those(T, ~t.held) = IF t.held = R[k].held THEN Those(R, ~t.held) ELSE {}
    BY <1>1, <2>2, OneReplaced
  <2>4. Those(R, TRUE) = {}
    BY <1>3, NoneThere
  <2>5. Those(T, FALSE) = {t} /\ Those(T, TRUE) = {}
    BY <1>1, <2>2, <2>3, <2>4
  <2> HIDE DEF T
  <2>6. n + Left(r, e) <= Most
    BY <1>1, <2>4 DEF Sums
  <2>7. Left(t, e) \in Nat
    BY <2>2, LeftIs
  <2>8. m + Left(t, e) <= Most /\ m <= Most
    BY <1>2, <2>2, <2>6, <2>7, SumStays
  <2> QED BY <2>1, <2>3, <2>5, <2>8 DEF Sums
<1>4. CASE Which(R, TRUE) # {}
  <2> DEFINE T == Drop(R, FALSE)
  <2>1. Emitted(R) = Rearm(T)
    BY <1>4 DEF Emitted
  <2>2. Ringed(T) /\ Those(T, FALSE) = {} /\ Those(T, TRUE) = Those(R, TRUE)
    BY Dropped
  <2>3. PICK h \in Those(R, TRUE) : TRUE
    BY <1>4, NoneThere
  <2>4. Those(R, TRUE) = {h} /\ h \in Record
    BY AtMostOneThere
  <2>5. n + Left(h, e) + Once(r, e) <= Most
    BY <1>1, <2>4 DEF Sums
  <2>6. Left(h, e) \in Nat
    BY <2>4, LeftIs
  <2>7. m + Left(h, e) <= Most /\ m <= Most
    BY <1>2, <2>5, <2>6, SumMoves
  <2> HIDE DEF T
  <2>8. Sums(T, e, m)
    BY <2>2, <2>4, <2>7 DEF Sums
  <2>9. Ringed(Rearm(T)) /\ Sums(Rearm(T), e, m)
    BY <2>2, <2>8, RearmSums, Rearmed
  <2> QED BY <2>1, <2>9
<1> QED BY <1>3, <1>4

-----------------------------------------------------------------------------
(* The inductive invariant, in parts.                                      *)

(* A copy that waits, or that is stored, is whole; a route is in a record. *)
Copy == {NoBlob} \cup [e : Emissions, hops : 1 .. MaxHops]
Route == [record : BOOLEAN, route : Ifaces \cup {None}, hops : 0 .. MaxHops,
          via : Nodes \cup {None}, expired : BOOLEAN]
Filed(d) ==
  /\ d \in [known : Route, blob : Copy]
  /\ d.known.route # None => d.known.record
Shapes ==
  /\ deferred \in [Ifaces -> Copy] /\ capped \in [Ifaces -> BOOLEAN]
  /\ Filed(dir)
  /\ requested \in BOOLEAN /\ escalation \in BOOLEAN

(* The ring and what it and the caps' queues have still to send.           *)
Waits(c, e) == IF c.e = e THEN 1 ELSE 0
Relayed ==
  /\ Ringed(ring)
  /\ aired \in [Ifaces -> [Emissions -> Nat]]
  /\ \A i \in Ifaces, e \in Emissions : Sums(ring, e, aired[i][e] + Waits(deferred[i], e))

(* The guard remembers each emission once, none that was not heard, and    *)
(* the newest unless more were heard than it has room for.                 *)
Remembers(g, H) ==
  /\ g \in [seen : Seq(Emissions), newest : 0 .. MaxEmissions, run : 0 .. RDIR_G_RUN_LIMIT - 1]
  /\ Len(g.seen) <= FP_RING
  /\ \A j, k \in DOMAIN g.seen : g.seen[j] = g.seen[k] => j = k
  /\ \A k \in DOMAIN g.seen : g.seen[k] \in H
  /\ H \subseteq Emissions
  /\ \A e \in H : e <= g.newest
  /\ g = NoGuard => H = {}
  /\ g # NoGuard /\ Cardinality(H) <= FP_RING => Seen(g, g.newest)

(* A question that was carried on has been heard, and the repeat that is   *)
(* pending has not been made.                                              *)
Asks ==
  /\ tags \subseteq Tags
  /\ carried \subseteq tags \X Ifaces
  /\ repeat # NoRepeat =>
       repeat.tag \in tags /\ repeat.on \in Ifaces /\ <<repeat.tag, repeat.on>> \notin carried
  /\ ~twice

IInv == Shapes /\ Relayed /\ Remembers(guard, heard) /\ Asks

-----------------------------------------------------------------------------
(* The ring, the caps' queues and what went out.                           *)

LEMMA WaitsIs ==
  ASSUME NEW e \in Emissions
  PROVE  /\ \A c : Waits(c, e) \in Nat /\ Waits(c, e) <= 1
         /\ Waits(NoBlob, e) = 0
BY DEF Waits, NoBlob, Emissions

LEMMA NoFewer ==
  ASSUME Relayed, NEW i \in Ifaces, NEW e \in Emissions
  PROVE  aired[i][e] \in Nat /\ aired[i][e] + Waits(deferred[i], e) \in Nat
         /\ Sums(ring, e, aired[i][e] + Waits(deferred[i], e))
<1>1. aired[i][e] \in Nat
  BY DEF Relayed
<1> QED BY <1>1, WaitsIs DEF Relayed

(* The ring moves and each sum falls or stays.                             *)
LEMMA RelayedOn ==
  ASSUME Relayed, Ringed(ring'), aired' = aired,
         \A i \in Ifaces : deferred'[i] \in {deferred[i], NoBlob},
         \A e \in Emissions, n \in Nat : Sums(ring, e, n) => Sums(ring', e, n)
  PROVE  Relayed'
<1>1. ASSUME NEW i \in Ifaces, NEW e \in Emissions
      PROVE  Sums(ring', e, aired'[i][e] + Waits(deferred'[i], e))
  <2> DEFINE n == aired[i][e] + Waits(deferred[i], e)
             m == aired[i][e] + Waits(deferred'[i], e)
  <2>1. aired[i][e] \in Nat /\ n \in Nat /\ Sums(ring, e, n)
    BY NoFewer
  <2>2. Waits(deferred'[i], e) \in Nat /\ Waits(deferred'[i], e) <= Waits(deferred[i], e)
        /\ Waits(deferred[i], e) \in Nat
    BY WaitsIs
  <2>3. m \in Nat /\ m <= n
    BY <2>1, <2>2
  <2> HIDE DEF m, n
  <2>4. Sums(ring', e, m)
    BY <2>1, <2>3, FewerSum
  <2> QED BY <2>4 DEF m
<1> QED BY <1>1 DEF Relayed

LEMMA AnsweredSums ==
  ASSUME NEW R, Ringed(R), NEW p
  PROVE  /\ Ringed(AnotherAnswers(R, p))
         /\ \A e, n : n \in Nat /\ Sums(R, e, n) => Sums(AnotherAnswers(R, p), e, n)
<1> DEFINE T == Drop(R, FALSE)
<1>1. Ringed(T) /\ Those(T, FALSE) = {}
  BY Dropped
<1>2. Ringed(Rearm(T))
  BY <1>1, Rearmed
<1>3. ASSUME NEW e, NEW n \in Nat, Sums(R, e, n) PROVE Sums(Rearm(T), e, n)
  <2>1. Sums(T, e, n)
    BY <1>3, DropSums
  <2> HIDE DEF T
  <2> QED BY <1>1, <2>1, RearmSums
<1>4. AnotherAnswers(R, p) \in {R, Rearm(T)}
  BY DEF AnotherAnswers
<1> HIDE DEF T
<1> QED BY <1>2, <1>3, <1>4

LEMMA StoodDownSums ==
  ASSUME NEW R, Ringed(R), NEW p
  PROVE  /\ Ringed(StandDown(R, p))
         /\ \A e, n : n \in Nat /\ Sums(R, e, n) => Sums(StandDown(R, p), e, n)
<1>1. PICK T : T = StandDown(R, p)
  OBVIOUS
<1>3. Ringed(T) /\ Lighter(T, R)
  BY <1>1, StoodDown
<1>2. ASSUME NEW e, NEW n \in Nat, Sums(R, e, n) PROVE Sums(T, e, n)
  BY <1>2, <1>3, LighterSums
<1> QED BY <1>1, <1>2, <1>3

LEMMA ToRelayIs ==
  ASSUME NEW p \in Announce
  PROVE  /\ ToRelay(p) \in Record /\ ToRelay(p).held = FALSE /\ ToRelay(p).retries = 0
         /\ ToRelay(p).e = p.e /\ p.e \in Emissions
BY Constants DEF ToRelay, Record, Announce

LEMMA AnnounceRelayed ==
  ASSUME IInv, NEW p \in Announce, NEW blocked, inboundAnnounce(p, blocked)
  PROVE  Relayed'
<1> DEFINE A == AnotherAnswers(ring, p)
           S == StandDown(A, p)
<1>0. Relayed
  BY DEF IInv
<1>1. Ringed(A) /\ \A e, n : n \in Nat /\ Sums(ring, e, n) => Sums(A, e, n)
  BY <1>0, AnsweredSums DEF Relayed
<1> HIDE DEF A
<1>2. Ringed(S) /\ \A e, n : n \in Nat /\ Sums(A, e, n) => Sums(S, e, n)
  BY <1>1, StoodDownSums
<1>3. ring' = IF Relays(p, blocked) THEN announce_store(S, ToRelay(p)) ELSE S
  BY DEF inboundAnnounce, S, A
<1> HIDE DEF S
<1>4. \A i \in Ifaces : deferred'[i] \in {deferred[i], NoBlob}
  BY DEF inboundAnnounce, IInv, Shapes
<1>5. CASE ~Relays(p, blocked)
  <2>1. aired' = aired /\ ring' = S
    BY <1>3, <1>5 DEF inboundAnnounce
  <2> QED BY <1>0, <1>1, <1>2, <1>4, <2>1, RelayedOn
<1>6. CASE Relays(p, blocked)
  <2>1. /\ ring' = announce_store(S, ToRelay(p))
        /\ aired' = [i \in Ifaces |-> [aired[i] EXCEPT ![p.e] = 0]]
    BY <1>3, <1>6 DEF inboundAnnounce
  <2>2. aired' \in [Ifaces -> [Emissions -> Nat]]
    BY <1>0, <2>1 DEF Relayed
  <2>3. ASSUME NEW i \in Ifaces, NEW e \in Emissions
        PROVE  /\ Ringed(announce_store(S, ToRelay(p)))
               /\ Sums(announce_store(S, ToRelay(p)), e, aired'[i][e] + Waits(deferred'[i], e))
    <3> DEFINE m == aired'[i][e] + Waits(deferred'[i], e)
    <3>1. aired'[i][e] = IF e = p.e THEN 0 ELSE aired[i][e]
      BY <1>0, <2>1 DEF Relayed
    <3>2. Waits(deferred'[i], e) \in Nat /\ Waits(deferred'[i], e) <= 1
          /\ Waits(deferred'[i], e) <= Waits(deferred[i], e) /\ Waits(deferred[i], e) \in Nat
      BY <1>4, WaitsIs
    <3>3. aired[i][e] \in Nat /\ aired[i][e] + Waits(deferred[i], e) \in Nat
          /\ Sums(ring, e, aired[i][e] + Waits(deferred[i], e))
      BY <1>0, NoFewer
    <3>4. m \in Nat /\ IF e = p.e THEN m <= 1 ELSE m <= aired[i][e] + Waits(deferred[i], e)
      BY <3>1, <3>2, <3>3
    <3>5. Sums(S, e, aired[i][e] + Waits(deferred[i], e))
      BY <1>1, <1>2, <3>3
    <3> HIDE DEF m
    <3>6. IF e = p.e THEN m <= 1 ELSE Sums(S, e, m)
      BY <1>2, <3>3, <3>4, <3>5, FewerSum
    <3>7. IF ToRelay(p).e = e THEN m <= 1 ELSE Sums(S, e, m)
      BY <3>6, ToRelayIs
    <3>8. Ringed(announce_store(S, ToRelay(p))) /\ Sums(announce_store(S, ToRelay(p)), e, m)
      BY <1>2, <3>4, <3>7, ToRelayIs, StoreSums
    <3> QED BY <3>8 DEF m
  <2>4. Ringed(ring')
    <3> DEFINE one == Drop(S, FALSE)
    <3>1. Ringed(one) /\ Those(one, FALSE) = {}
      BY <1>2, Dropped
    <3>2. ring' = Append(one, ToRelay(p))
      BY <2>1 DEF announce_store
    <3> HIDE DEF one
    <3>3. Those(one, ToRelay(p).held) = {}
      BY <3>1, ToRelayIs
    <3> QED BY <3>1, <3>2, <3>3, ToRelayIs, OneAdded
  <2> QED BY <2>1, <2>2, <2>3, <2>4 DEF Relayed
<1> QED BY <1>5, <1>6

LEMMA OutboundAdds ==
  ASSUME IInv, NEW r \in Record, NEW full, outbound(r, full), r.to = None
  PROVE  /\ deferred' \in [Ifaces -> Copy] /\ aired' \in [Ifaces -> [Emissions -> Nat]]
         /\ \A i \in Ifaces, e \in Emissions :
              aired'[i][e] + Waits(deferred'[i], e)
                <= aired[i][e] + Waits(deferred[i], e) + Once(r, e)
<1>1. r.e \in Emissions /\ r.hops \in 1 .. MaxHops
  BY DEF Record
<1>2. \A i \in Ifaces, e \in Emissions : aired[i][e] \in Nat
  BY DEF IInv, Relayed
<1>3. deferred' \in [Ifaces -> Copy]
  BY <1>1 DEF outbound, Folded, Copy, IInv, Shapes
<1>4. aired' \in [Ifaces -> [Emissions -> Nat]]
  BY <1>1, <1>2 DEF outbound, IInv, Relayed
<1>5. ASSUME NEW i \in Ifaces, NEW e \in Emissions
      PROVE  aired'[i][e] + Waits(deferred'[i], e)
               <= aired[i][e] + Waits(deferred[i], e) + Once(r, e)
  <2>1. Waits(deferred[i], e) \in Nat /\ Waits(deferred[i], e) <= 1 /\ aired[i][e] \in Nat
    BY <1>2, WaitsIs
  <2>2. Once(r, e) = IF r.e = e THEN 1 ELSE 0
    BY DEF Once
  <2>3. CASE Airs(i, r)
    <3>1. ~Defers(i, r)
      BY <2>3 DEF Airs, Defers
    <3>2. deferred'[i] = deferred[i]
      BY <3>1 DEF outbound
    <3>3. aired'[i][e] = IF r.e = e THEN aired[i][e] + 1 ELSE aired[i][e]
      BY <2>3, <1>1 DEF outbound, IInv, Relayed
    <3> QED BY <2>1, <2>2, <3>2, <3>3
  <2>4. CASE ~Airs(i, r)
    <3>1. aired'[i][e] = aired[i][e]
      BY <2>4 DEF outbound
    <3>2. deferred'[i] = deferred[i] \/ deferred'[i].e = r.e
      BY DEF outbound, Folded
    <3>3. CASE deferred'[i] = deferred[i]
      BY <2>1, <2>2, <3>1, <3>3
    <3>4. CASE deferred'[i].e = r.e
      <4>1. Waits(deferred'[i], e) = Once(r, e)
        BY <2>2, <3>4 DEF Waits
      <4> QED BY <2>1, <2>2, <3>1, <4>1
    <3> QED BY <3>2, <3>3, <3>4
  <2> QED BY <2>3, <2>4
<1> QED BY <1>3, <1>4, <1>5

LEMMA EmitRelayed ==
  ASSUME IInv, announce_rec_emit
  PROVE  Relayed' /\ deferred' \in [Ifaces -> Copy]
<1> DEFINE r == ring[announce_find(ring, FALSE)]
<1>1. Ringed(ring) /\ Which(ring, FALSE) # {} /\ ~Finished(r) /\ ring' = Emitted(ring)
  BY DEF IInv, Relayed, announce_rec_emit
<1>2. r \in Record
  BY <1>1, Find
<1>3. \/ r.to # None /\ UNCHANGED <<deferred, aired>>
      \/ r.to = None /\ \E full \in BOOLEAN : outbound(r, full)
  BY DEF announce_rec_emit
<1>4. PICK x : x = r
  OBVIOUS
<1>5. x = ring[announce_find(ring, FALSE)]
  BY <1>4
<1> HIDE DEF r
<1>6. /\ deferred' \in [Ifaces -> Copy] /\ aired' \in [Ifaces -> [Emissions -> Nat]]
      /\ \A i \in Ifaces, e \in Emissions :
           aired'[i][e] + Waits(deferred'[i], e)
             <= aired[i][e] + Waits(deferred[i], e) + Once(x, e)
  <2>1. CASE x.to # None /\ UNCHANGED <<deferred, aired>>
    <3>1. ASSUME NEW i \in Ifaces, NEW e \in Emissions
          PROVE  aired'[i][e] + Waits(deferred'[i], e)
                   <= aired[i][e] + Waits(deferred[i], e) + Once(x, e)
      <4>1. aired[i][e] + Waits(deferred[i], e) \in Nat
        BY NoFewer DEF IInv
      <4>2. Once(x, e) = 0
        BY <2>1 DEF Once
      <4>3. aired'[i][e] + Waits(deferred'[i], e) = aired[i][e] + Waits(deferred[i], e)
        BY <2>1
      <4> QED BY <4>1, <4>2, <4>3
    <3> QED BY <2>1, <3>1 DEF IInv, Shapes, Relayed
  <2>2. CASE x.to = None /\ \E full \in BOOLEAN : outbound(x, full)
    BY <1>2, <1>4, <2>2, OutboundAdds
  <2> QED BY <1>3, <1>4, <2>1, <2>2
<1>7. ASSUME NEW i \in Ifaces, NEW e \in Emissions
      PROVE  Ringed(Emitted(ring))
             /\ Sums(Emitted(ring), e, aired'[i][e] + Waits(deferred'[i], e))
  <2> DEFINE n == aired[i][e] + Waits(deferred[i], e)
             m == aired'[i][e] + Waits(deferred'[i], e)
  <2>1. n \in Nat /\ Sums(ring, e, n)
    BY NoFewer DEF IInv
  <2>2. m \in Nat /\ m <= n + Once(x, e)
    <3>1. aired'[i][e] \in Nat /\ Waits(deferred'[i], e) \in Nat
      BY <1>6, WaitsIs
    <3> QED BY <1>6, <3>1
  <2>3. ~Finished(x)
    BY <1>1, <1>4
  <2> HIDE DEF n, m
  <2>4. Ringed(Emitted(ring)) /\ Sums(Emitted(ring), e, m)
    BY <1>1, <1>5, <2>1, <2>2, <2>3, EmitSums
  <2> QED BY <2>4 DEF m
<1>8. Ringed(ring')
  <2>1. Ringed(Rearm(Drop(ring, FALSE)))
    BY <1>1, Dropped, Rearmed
  <2>2. ASSUME Which(ring, TRUE) = {} PROVE Ringed(Emitted(ring))
    <3> DEFINE k == announce_find(ring, FALSE)
    <3>1. k \in DOMAIN ring /\ ring[k] = x /\ x.held = FALSE
      BY <1>1, <1>5, Find
    <3>2. Emitted(ring) = [ring EXCEPT ![k] = Tried(x)]
      BY <2>2, <3>1 DEF Emitted, Tried
    <3>3. Tried(x) \in Record /\ Tried(x).held = ring[k].held
      BY <1>1, <1>2, <1>4, <3>1, OneLessLeft
    <3> HIDE DEF k
    <3>4. Ringed([ring EXCEPT ![k] = Tried(x)])
      BY <1>1, <3>1, <3>3, OneReplaced
    <3> QED BY <3>2, <3>4
  <2> QED BY <1>1, <2>1, <2>2 DEF Emitted
<1> QED BY <1>1, <1>6, <1>7, <1>8 DEF Relayed

LEMMA QueueRelayed ==
  ASSUME IInv, NEW i \in Ifaces, process_announce_queue(i)
  PROVE  Relayed'
<1> DEFINE d == deferred[i].e
<1>1. /\ d \in Emissions /\ ring' = ring
      /\ deferred' = [deferred EXCEPT ![i] = NoBlob]
      /\ aired' = [aired EXCEPT ![i][d] = aired[i][d] + 1]
  BY DEF process_announce_queue, IInv, Shapes, Relayed, Copy
<1>2. aired \in [Ifaces -> [Emissions -> Nat]] /\ deferred \in [Ifaces -> Copy]
  BY DEF IInv, Relayed, Shapes
<1>3. aired' \in [Ifaces -> [Emissions -> Nat]]
  BY <1>1, <1>2
<1>4. ASSUME NEW j \in Ifaces, NEW e \in Emissions
      PROVE  Sums(ring', e, aired'[j][e] + Waits(deferred'[j], e))
  <2>1. aired[j][e] \in Nat /\ aired[j][e] + Waits(deferred[j], e) \in Nat
        /\ Sums(ring, e, aired[j][e] + Waits(deferred[j], e))
    BY NoFewer DEF IInv
  <2>2. aired'[j][e] + Waits(deferred'[j], e) = aired[j][e] + Waits(deferred[j], e)
    <3>1. CASE j # i
      BY <1>1, <1>2, <3>1
    <3>2. CASE j = i
      <4>1. Waits(deferred'[j], e) = 0
        BY <1>1, <1>2, <3>2, WaitsIs
      <4>2. aired'[j][e] = IF e = d THEN aired[j][e] + 1 ELSE aired[j][e]
        BY <1>1, <1>2, <3>2
      <4>3. Waits(deferred[j], e) = IF e = d THEN 1 ELSE 0
        BY <3>2 DEF Waits
      <4> QED BY <2>1, <4>1, <4>2, <4>3
    <3> QED BY <3>1, <3>2
  <2> QED BY <1>1, <2>1, <2>2
<1> QED BY <1>1, <1>3, <1>4 DEF Relayed, IInv

LEMMA AnswerRelayed ==
  ASSUME IInv, NEW q \in Question, answerQuestion(q)
  PROVE  Relayed'
<1> DEFINE a == ToAnswer(q)
<1>1. a \in Record /\ a.held = FALSE /\ a.to # None
  <2>1. dir.blob \in [e : Emissions, hops : 1 .. MaxHops]
    BY DEF IInv, Shapes, Filed, Copy, answerQuestion, Answerable
  <2>2. q.on \in Ifaces
    BY DEF Question
  <2> QED BY <2>1, <2>2, Constants DEF ToAnswer, Record
<1>2. ring' \in {ring, Append(Hold(ring), a)}
  BY DEF answerQuestion
<1>3. Relayed /\ aired' = aired /\ \A i \in Ifaces : deferred'[i] = deferred[i]
  BY DEF IInv, answerQuestion, history
<1> HIDE DEF a
<1>4. Ringed(ring')
  <2>1. Ringed(Hold(ring)) /\ Those(Hold(ring), a.held) = {}
    BY <1>1, <1>3, HeldBack DEF Relayed
  <2>2. Ringed(Append(Hold(ring), a))
    BY <1>1, <2>1, OneAdded
  <2> QED BY <1>2, <1>3, <2>2 DEF Relayed
<1>5. ASSUME NEW e \in Emissions, NEW n \in Nat, Sums(ring, e, n) PROVE Sums(ring', e, n)
  BY <1>1, <1>2, <1>3, <1>5, AnswerSums DEF Relayed
<1> QED BY <1>3, <1>4, <1>5, RelayedOn

LEMMA EvictRelayed ==
  ASSUME IInv, tableEvicts
  PROVE  Relayed'
<1>1. Relayed /\ aired' = aired /\ \A i \in Ifaces : deferred'[i] = deferred[i]
  BY DEF IInv, tableEvicts, inner
<1>2. \/ ring' = ring
      \/ ring # <<>> /\ ring' = Tail(ring)
  BY DEF tableEvicts, inner
<1>3. CASE ring' = ring
  BY <1>1, <1>3, RelayedOn DEF Relayed
<1>4. CASE ring # <<>> /\ ring' = Tail(ring)
  <2>1. Ringed(ring) /\ Ringed(ring')
        /\ \A held \in BOOLEAN : Those(ring', held) \subseteq Those(ring, held)
    BY <1>1, <1>4, OldestGone DEF Relayed
  <2>2. Lighter(ring', ring)
    BY <2>1 DEF Lighter
  <2>3. ASSUME NEW e \in Emissions, NEW n \in Nat, Sums(ring, e, n) PROVE Sums(ring', e, n)
    BY <2>1, <2>2, <2>3, LighterSums
  <2> QED BY <1>1, <2>1, <2>3, RelayedOn
<1> QED BY <1>2, <1>3, <1>4

LEMMA DoneRelayed ==
  ASSUME IInv, announceDone
  PROVE  Relayed'
<1>1. Relayed /\ aired' = aired /\ \A i \in Ifaces : deferred'[i] = deferred[i]
  BY DEF IInv, announceDone, history
<1>2. Ringed(ring) /\ ring' = Drop(ring, FALSE) /\ Ringed(ring')
  BY Dropped DEF IInv, Relayed, announceDone
<1>3. ASSUME NEW e \in Emissions, NEW n \in Nat, Sums(ring, e, n) PROVE Sums(ring', e, n)
  BY <1>2, <1>3, DropSums
<1> QED BY <1>1, <1>2, <1>3, RelayedOn

LEMMA RelayedSame ==
  ASSUME IInv, ring' = ring, aired' = aired,
         \A i \in Ifaces : deferred'[i] \in {deferred[i], NoBlob}
  PROVE  Relayed'
BY RelayedOn DEF IInv, Relayed

-----------------------------------------------------------------------------
(* The guard.                                                              *)

LEMMA HeardIsFinite ==
  ASSUME NEW H, H \subseteq Emissions, NEW e \in Emissions
  PROVE  /\ IsFiniteSet(H) /\ IsFiniteSet(H \cup {e})
         /\ Cardinality(H) \in Nat /\ Cardinality(H \cup {e}) \in Nat
         /\ Cardinality(H) <= Cardinality(H \cup {e})
<1>1. IsFiniteSet(Emissions)
  BY Constants, FS_Interval DEF Emissions
<1>2. IsFiniteSet(H) /\ IsFiniteSet(H \cup {e})
  BY <1>1, FS_Subset
<1>3. H \in SUBSET (H \cup {e})
  OBVIOUS
<1>4. Cardinality(H) <= Cardinality(H \cup {e})
  BY <1>2, <1>3, FS_Subset
<1> QED BY <1>2, <1>4, FS_CardinalityType

LEMMA IsAppended ==
  ASSUME NEW s \in Seq(Emissions), NEW e \in Emissions
  PROVE  /\ Append(s, e) \in Seq(Emissions) /\ Len(Append(s, e)) = Len(s) + 1
         /\ DOMAIN Append(s, e) = 1 .. Len(s) + 1 /\ Len(s) \in Nat
         /\ \A k \in 1 .. Len(s) : Append(s, e)[k] = s[k]
         /\ Append(s, e)[Len(s) + 1] = e
OBVIOUS

LEMMA SeenIs ==
  ASSUME NEW g, g.seen \in Seq(Emissions), NEW e
  PROVE  Seen(g, e) <=> \E k \in DOMAIN g.seen : g.seen[k] = e
BY DEF Seen, Contains

(* A ring of different fingerprints that were all heard, and another that  *)
(* was.                                                                    *)
LEMMA MoreThanTheRing ==
  ASSUME NEW s \in Seq(Emissions), \A j, k \in DOMAIN s : s[j] = s[k] => j = k,
         NEW H, H \subseteq Emissions, \A k \in DOMAIN s : s[k] \in H,
         NEW e \in H, \A k \in DOMAIN s : s[k] # e
  PROVE  Cardinality(H) > Len(s)
<1> DEFINE f == Append(s, e)
           n == Len(s) + 1
<1>1. DOMAIN f = 1 .. n /\ n \in Nat /\ n - 1 = Len(s) /\ Len(s) \in Nat /\ DOMAIN s = 1 .. Len(s)
      /\ f[n] = e /\ (\A k \in 1 .. Len(s) : f[k] = s[k])
      /\ f \in Seq(Emissions)
  BY IsAppended
<1>2. \A k \in 1 .. n : k = n \/ k \in 1 .. Len(s)
  BY <1>1
<1> HIDE DEF f, n
<1>3. \A k \in 1 .. n : f[k] \in H
  BY <1>1, <1>2
<1>4. \A j, k \in 1 .. n : f[j] = f[k] => j = k
  BY <1>1, <1>2
<1>5. f = [k \in 1 .. n |-> f[k]]
  BY <1>1
<1>6. f \in [1 .. n -> H]
  BY <1>3, <1>5
<1>7. f \in Injection(1 .. n, H)
  BY <1>1, <1>4, <1>6 DEF Injection, IsInjective
<1>8. IsFiniteSet(H) /\ Cardinality(H) \in Nat
  BY HeardIsFinite
<1>9. Cardinality(1 .. n) <= Cardinality(H)
  BY <1>7, <1>8, FS_Injection
<1>10. Cardinality(1 .. n) = n
  <2>1. 1 \in Int /\ n \in Int /\ ~(1 > n)
    BY <1>1
  <2>2. n - 1 + 1 = n
    BY <1>1
  <2> QED BY <2>1, <2>2, FS_Interval
<1> QED BY <1>1, <1>8, <1>9, <1>10

(* A fingerprint is pushed: the others are kept while there is room.       *)
LEMMA Pushed ==
  ASSUME NEW s \in Seq(Emissions), \A j, k \in DOMAIN s : s[j] = s[k] => j = k,
         Len(s) <= FP_RING, NEW e \in Emissions, \A k \in DOMAIN s : s[k] # e
  PROVE  LET t == ringPush(s, e)
         IN  /\ t \in Seq(Emissions) /\ Len(t) <= FP_RING
             /\ \A j, k \in DOMAIN t : t[j] = t[k] => j = k
             /\ \E k \in DOMAIN t : t[k] = e
             /\ \A k \in DOMAIN t : t[k] = e \/ \E j \in DOMAIN s : t[k] = s[j]
             /\ Len(s) < FP_RING => \A k \in DOMAIN s : \E j \in DOMAIN t : t[j] = s[k]
<1> DEFINE u == Append(s, e)
           v == Append(Tail(s), e)
<1>0. Len(s) \in Nat /\ DOMAIN s = 1 .. Len(s) /\ FP_RING \in Nat /\ FP_RING > 0
  BY Constants
<1>1. CASE Len(s) < FP_RING
  <2>1. /\ u \in Seq(Emissions) /\ Len(u) = Len(s) + 1 /\ DOMAIN u = 1 .. Len(s) + 1
        /\ \A k \in 1 .. Len(s) : u[k] = s[k]
        /\ u[Len(s) + 1] = e
    BY IsAppended
  <2>2. /\ Len(s) + 1 \in DOMAIN u /\ Len(u) <= FP_RING
        /\ \A k \in DOMAIN u : k = Len(s) + 1 \/ k \in 1 .. Len(s)
        /\ \A k \in 1 .. Len(s) : k \in DOMAIN u
    BY <1>0, <1>1, <2>1
  <2>3. ringPush(s, e) = u
    BY <1>1 DEF ringPush
  <2> HIDE DEF u
  <2> QED BY <1>0, <2>1, <2>2, <2>3
<1>2. CASE Len(s) >= FP_RING
  <2> DEFINE m == Len(s)
             w == Tail(s)
  <2>1. w \in Seq(Emissions) /\ Len(w) = m - 1 /\ \A k \in 1 .. m - 1 : w[k] = s[k + 1]
    BY <1>0, <1>2
  <2>2. \A k \in 1 .. m - 1 : k + 1 \in DOMAIN s
    BY <1>0
  <2>3. ringPush(s, e) = v /\ v = Append(w, e)
    BY <1>0, <1>2 DEF ringPush
  <2> HIDE DEF w, v
  <2>4. /\ v \in Seq(Emissions) /\ Len(v) = m /\ DOMAIN v = 1 .. m
        /\ \A k \in 1 .. m - 1 : v[k] = w[k]
        /\ v[m] = e
    <3>1. /\ v \in Seq(Emissions) /\ Len(v) = Len(w) + 1 /\ DOMAIN v = 1 .. Len(w) + 1
          /\ \A k \in 1 .. Len(w) : v[k] = w[k]
          /\ v[Len(w) + 1] = e
      BY <2>1, <2>3, IsAppended
    <3>2. (m - 1) + 1 = m
      BY <1>0
    <3> QED BY <2>1, <3>1, <3>2
  <2>5. m \in DOMAIN v /\ m <= FP_RING /\ ~(m < FP_RING)
        /\ \A k \in DOMAIN v : k = m \/ k \in 1 .. m - 1
    BY <1>0, <1>2, <2>4
  <2>6. \A k \in 1 .. m - 1 : v[k] = s[k + 1]
    BY <2>1, <2>4
  <2> HIDE DEF m
  <2>7. ASSUME NEW j \in DOMAIN v, NEW k \in DOMAIN v, v[j] = v[k] PROVE j = k
    <3>1. CASE j = m /\ k = m
      BY <3>1
    <3>2. CASE j = m /\ k \in 1 .. m - 1
      BY <2>2, <2>4, <2>6, <2>7, <3>2
    <3>3. CASE k = m /\ j \in 1 .. m - 1
      BY <2>2, <2>4, <2>6, <2>7, <3>3
    <3>4. CASE j \in 1 .. m - 1 /\ k \in 1 .. m - 1
      <4>1. j + 1 = k + 1
        BY <2>2, <2>6, <2>7, <3>4
      <4> QED BY <3>4, <4>1
    <3> QED BY <2>5, <3>1, <3>2, <3>3, <3>4
  <2>8. \A k \in DOMAIN v : v[k] = e \/ \E j \in DOMAIN s : v[k] = s[j]
    BY <2>2, <2>4, <2>5, <2>6
  <2>9. ~(Len(s) < FP_RING)
    BY <2>5 DEF m
  <2> QED BY <2>3, <2>4, <2>5, <2>7, <2>8, <2>9
<1> QED BY <1>0, <1>1, <1>2

(* What a guard g that heard H becomes by emission e, h that heard G.       *)
WithSeen(g, e) == IF Seen(g, e) THEN g.seen ELSE ringPush(g.seen, e)
GuardMoves(g, H, e, h, G) ==
  \/ h = Afresh(e) /\ G = {e}
  \/ /\ g # NoGuard /\ G = H \cup {e}
     /\ \E new \in {e, g.newest} :
          /\ e <= new /\ g.newest <= new
          /\ h = [seen |-> WithSeen(g, e), newest |-> new, run |-> 0]
  \/ g # NoGuard /\ G = H \cup {e} /\ Seen(g, e) /\ h = [g EXCEPT !.run = 0]
  \/ /\ g # NoGuard /\ G = H \cup {e} /\ e < g.newest
     /\ g.run + 1 < RDIR_G_RUN_LIMIT /\ h = [g EXCEPT !.run = g.run + 1]

LEMMA BeginsAnew ==
  ASSUME NEW e \in Emissions
  PROVE  Remembers(Afresh(e), {e})
<1> DEFINE g == Afresh(e)
<1>1. g.seen = <<e>> /\ g.newest = e /\ g.run = 0
      /\ g \in [seen : Seq(Emissions), newest : 0 .. MaxEmissions, run : 0 .. RDIR_G_RUN_LIMIT - 1]
  BY Constants DEF Afresh, Emissions
<1>2. e \in Nat /\ e > 0 /\ g # NoGuard /\ DOMAIN g.seen = {1} /\ g.seen[1] = e /\ Len(g.seen) = 1
  BY <1>1 DEF NoGuard, Emissions
<1>3. Seen(g, g.newest)
  BY <1>1, <1>2, SeenIs
<1> HIDE DEF g
<1>4. Remembers(g, {e})
  BY <1>1, <1>2, <1>3, Constants DEF Remembers
<1> QED BY <1>4 DEF g

LEMMA GuardRemembers ==
  ASSUME NEW g, NEW H, Remembers(g, H), NEW e \in Emissions,
         NEW h, NEW I, GuardMoves(g, H, e, h, I)
  PROVE  Remembers(h, I)
<1> DEFINE G == H \cup {e}
           pushed == WithSeen(g, e)
<1>0. /\ g.seen \in Seq(Emissions) /\ g.newest \in 0 .. MaxEmissions
      /\ g.run \in 0 .. RDIR_G_RUN_LIMIT - 1 /\ Len(g.seen) <= FP_RING
      /\ g = [seen |-> g.seen, newest |-> g.newest, run |-> g.run]
      /\ \A j, k \in DOMAIN g.seen : g.seen[j] = g.seen[k] => j = k
      /\ \A k \in DOMAIN g.seen : g.seen[k] \in H
      /\ H \subseteq Emissions /\ \A x \in H : x <= g.newest
  BY DEF Remembers
<1>1. /\ e \in Nat /\ e > 0 /\ e <= MaxEmissions /\ g.newest \in Nat /\ g.newest <= MaxEmissions
      /\ g.run \in Nat /\ \A x \in H : x \in Nat
      /\ 0 \in 0 .. RDIR_G_RUN_LIMIT - 1 /\ e \in 0 .. MaxEmissions
  BY <1>0, Constants DEF Emissions
<1>2. IsFiniteSet(H) /\ Cardinality(H) \in Nat /\ Cardinality(G) \in Nat
      /\ Cardinality(H) <= Cardinality(G) /\ G \subseteq Emissions /\ e \in G
  BY <1>0, HeardIsFinite
<1>3. g # NoGuard /\ Cardinality(G) <= FP_RING => \E k \in DOMAIN g.seen : g.seen[k] = g.newest
  <2>1. ASSUME Cardinality(G) <= FP_RING PROVE Cardinality(H) <= FP_RING
    BY <1>2, <2>1, Constants
  <2> QED BY <1>0, <2>1, SeenIs DEF Remembers
<1>4. Seen(g, e) <=> \E k \in DOMAIN g.seen : g.seen[k] = e
  BY <1>0, SeenIs
<1>5. /\ pushed \in Seq(Emissions) /\ Len(pushed) <= FP_RING
      /\ \A j, k \in DOMAIN pushed : pushed[j] = pushed[k] => j = k
      /\ \E k \in DOMAIN pushed : pushed[k] = e
      /\ \A k \in DOMAIN pushed : pushed[k] \in G
      /\ Cardinality(G) <= FP_RING =>
           \A k \in DOMAIN g.seen : \E j \in DOMAIN pushed : pushed[j] = g.seen[k]
  <2>1. CASE Seen(g, e)
    BY <1>0, <1>4, <2>1 DEF WithSeen
  <2>2. CASE ~Seen(g, e)
    <3> DEFINE s == g.seen
               t == ringPush(s, e)
    <3>1. s \in Seq(Emissions) /\ (\A j, k \in DOMAIN s : s[j] = s[k] => j = k)
          /\ Len(s) <= FP_RING /\ \A k \in DOMAIN s : s[k] # e
      BY <1>0, <1>4, <2>2
    <3>2. pushed = t /\ \A k \in DOMAIN s : s[k] \in G
      BY <1>0, <2>2 DEF WithSeen
    <3> HIDE DEF s
    <3>3. /\ t \in Seq(Emissions) /\ Len(t) <= FP_RING
          /\ \A j, k \in DOMAIN t : t[j] = t[k] => j = k
          /\ \E k \in DOMAIN t : t[k] = e
          /\ \A k \in DOMAIN t : t[k] = e \/ \E j \in DOMAIN s : t[k] = s[j]
          /\ Len(s) < FP_RING => \A k \in DOMAIN s : \E j \in DOMAIN t : t[j] = s[k]
      BY <3>1, Pushed
    <3> HIDE DEF t, G
    <3>4. Cardinality(G) > Len(s)
      BY <1>2, <3>1, <3>2, MoreThanTheRing
    <3>5. Cardinality(G) <= FP_RING => Len(s) < FP_RING
      <4>1. Len(s) \in Nat
        BY <3>1
      <4> QED BY <1>2, <3>4, <4>1, Constants
    <3>6. \A k \in DOMAIN t : t[k] \in G
      BY <1>2, <3>2, <3>3
    <3> HIDE DEF pushed
    <3>7. g.seen = s
      BY DEF s
    <3> QED BY <3>2, <3>3, <3>5, <3>6, <3>7
  <2> QED BY <2>1, <2>2
<1> HIDE DEF pushed
(* What was pushed is remembered, and the newest of all. *)
<1>6. ASSUME NEW new \in Nat, new = e \/ new = g.newest, e <= new, g.newest <= new, g # NoGuard
      PROVE  Remembers([seen |-> pushed, newest |-> new, run |-> 0], G)
  <2> DEFINE r == [seen |-> pushed, newest |-> new, run |-> 0]
  <2>1. /\ r \in [seen : Seq(Emissions), newest : 0 .. MaxEmissions, run : 0 .. RDIR_G_RUN_LIMIT - 1]
        /\ r.seen = pushed /\ r.newest = new
    BY <1>1, <1>5, <1>6
  <2>2. \A x \in G : x <= new
    BY <1>0, <1>1, <1>6
  <2>3. r # NoGuard
    <3>1. new > 0
      BY <1>1, <1>6
    <3> QED BY <2>1, <3>1 DEF NoGuard
  <2> HIDE DEF r
  <2>4. Cardinality(G) <= FP_RING => Seen(r, new)
    <3> HIDE DEF G
    <3>1. Cardinality(G) <= FP_RING => \E j \in DOMAIN pushed : pushed[j] = new
      BY <1>3, <1>5, <1>6
    <3> QED BY <1>5, <2>1, <3>1, SeenIs
  <2>5. Remembers(r, G)
    <3> HIDE DEF G
    <3> QED BY <1>2, <1>5, <2>1, <2>2, <2>3, <2>4 DEF Remembers
  <2> QED BY <2>5 DEF r
<1>7. CASE h = Afresh(e) /\ I = {e}
  BY <1>7, BeginsAnew
<1>8. CASE g # NoGuard /\ I = G
           /\ \E new \in {e, g.newest} :
                /\ e <= new /\ g.newest <= new
                /\ h = [seen |-> pushed, newest |-> new, run |-> 0]
  <2> HIDE DEF G
  <2> QED BY <1>1, <1>6, <1>8
<1>9. CASE g # NoGuard /\ I = G /\ Seen(g, e) /\ h = [g EXCEPT !.run = 0]
  <2>1. e \in H
    BY <1>0, <1>4, <1>9
  <2>2. I = H
    BY <1>9, <2>1
  <2>3. /\ h \in [seen : Seq(Emissions), newest : 0 .. MaxEmissions, run : 0 .. RDIR_G_RUN_LIMIT - 1]
        /\ h.seen = g.seen /\ h.newest = g.newest
    BY <1>0, <1>1, <1>9
  <2>4. h # NoGuard
    <3>1. g.newest > 0
      BY <1>0, <1>1, <2>1
    <3> QED BY <2>3, <3>1 DEF NoGuard
  <2>5. Cardinality(H) <= FP_RING => Seen(h, h.newest)
    <3>1. Cardinality(H) <= FP_RING => Seen(g, g.newest)
      BY <1>9 DEF Remembers
    <3> QED BY <2>3, <3>1 DEF Seen
  <2>6. Remembers(h, H)
    BY <1>0, <2>3, <2>4, <2>5 DEF Remembers
  <2> QED BY <2>2, <2>6
<1>10. CASE /\ g # NoGuard /\ I = G /\ e < g.newest
            /\ g.run + 1 < RDIR_G_RUN_LIMIT /\ h = [g EXCEPT !.run = g.run + 1]
  <2>1. g.run + 1 \in 0 .. RDIR_G_RUN_LIMIT - 1
    BY <1>1, <1>10, Constants
  <2>2. /\ h \in [seen : Seq(Emissions), newest : 0 .. MaxEmissions, run : 0 .. RDIR_G_RUN_LIMIT - 1]
        /\ h.seen = g.seen /\ h.newest = g.newest
    BY <1>0, <1>10, <2>1
  <2>3. h # NoGuard
    <3>1. g.newest > 0
      BY <1>1, <1>10
    <3> QED BY <2>2, <3>1 DEF NoGuard
  <2>4. \A x \in G : x <= g.newest
    BY <1>0, <1>1, <1>10
  <2>5. \A k \in DOMAIN g.seen : g.seen[k] \in G
    BY <1>0
  <2> HIDE DEF G
  <2>6. Cardinality(G) <= FP_RING => Seen(h, h.newest)
    BY <1>0, <1>3, <1>10, <2>2, SeenIs
  <2>7. Remembers(h, G)
    BY <1>0, <1>2, <2>2, <2>3, <2>4, <2>5, <2>6 DEF Remembers
  <2> QED BY <1>10, <2>7
<1> QED BY <1>7, <1>8, <1>9, <1>10 DEF GuardMoves, pushed

LEMMA GuardIsFresh ==
  ASSUME IInv, NEW p \in Announce, NEW blocked, inboundAnnounce(p, blocked)
  PROVE  Remembers(guard', heard')
<1> DEFINE e == p.e
           B == Bypass(p)
<1>0. /\ Remembers(guard, heard) /\ e \in Emissions /\ e \in Nat /\ e > 0
      /\ guard.newest \in Nat /\ guard.run \in Nat
  BY DEF IInv, Remembers, Announce, Emissions
<1>1. heard' = IF Resets(guard, e) /\ ~B THEN {e} ELSE heard \cup {e}
  BY DEF inboundAnnounce
<1>2. guard' =
        IF guard = NoGuard THEN Afresh(e)
        ELSE IF B THEN [seen   |-> WithSeen(guard, e),
                        newest |-> IF e > guard.newest THEN e ELSE guard.newest, run |-> 0]
        ELSE IF Seen(guard, e) THEN [guard EXCEPT !.run = 0]
        ELSE IF Resets(guard, e) THEN Afresh(e)
        ELSE IF e < guard.newest THEN [guard EXCEPT !.run = guard.run + 1]
        ELSE [seen |-> WithSeen(guard, e), newest |-> e, run |-> 0]
  BY DEF inboundAnnounce, rdirGuardFresh, WithSeen
<1> HIDE DEF e, B
<1>3. CASE guard = NoGuard
  <2>1. heard = {} /\ ~Resets(guard, e)
    <3>1. ~(e < 0)
      BY <1>0
    <3> QED BY <1>0, <1>3, <3>1 DEF Remembers, Resets, NoGuard
  <2>2. heard' = {e}
    BY <1>1, <2>1
  <2>3. guard' = Afresh(e)
    BY <1>2, <1>3
  <2> QED BY <1>0, <2>2, <2>3, BeginsAnew
<1>4. CASE guard # NoGuard /\ B
  <2> DEFINE new == IF e > guard.newest THEN e ELSE guard.newest
  <2>1. new \in {e, guard.newest} /\ e <= new /\ guard.newest <= new
    BY <1>0
  <2>2. heard' = heard \cup {e}
    BY <1>1, <1>4
  <2>3. guard' = [seen |-> WithSeen(guard, e), newest |-> new, run |-> 0]
    BY <1>2, <1>4
  <2> HIDE DEF new
  <2>4. GuardMoves(guard, heard, e, guard', heard')
    BY <1>4, <2>1, <2>2, <2>3 DEF GuardMoves
  <2> QED BY <1>0, <2>4, GuardRemembers
<1>5. CASE guard # NoGuard /\ ~B /\ Seen(guard, e)
  <2>1. heard' = heard \cup {e} /\ guard' = [guard EXCEPT !.run = 0]
    BY <1>1, <1>2, <1>5 DEF Resets
  <2>2. GuardMoves(guard, heard, e, guard', heard')
    BY <1>5, <2>1 DEF GuardMoves
  <2> QED BY <1>0, <2>2, GuardRemembers
<1>6. CASE guard # NoGuard /\ ~B /\ ~Seen(guard, e) /\ Resets(guard, e)
  <2>1. heard' = {e} /\ guard' = Afresh(e)
    BY <1>1, <1>2, <1>6
  <2> QED BY <1>0, <2>1, BeginsAnew
<1>7. CASE guard # NoGuard /\ ~B /\ ~Seen(guard, e) /\ ~Resets(guard, e) /\ e < guard.newest
  <2>1. heard' = heard \cup {e} /\ guard' = [guard EXCEPT !.run = guard.run + 1]
    BY <1>1, <1>2, <1>7
  <2>2. guard.run + 1 < RDIR_G_RUN_LIMIT
    BY <1>0, <1>7, Constants DEF Resets
  <2>3. GuardMoves(guard, heard, e, guard', heard')
    BY <1>7, <2>1, <2>2 DEF GuardMoves
  <2> QED BY <1>0, <2>3, GuardRemembers
<1>8. CASE guard # NoGuard /\ ~B /\ ~Seen(guard, e) /\ ~(e < guard.newest)
  <2>1. heard' = heard \cup {e}
        /\ guard' = [seen |-> WithSeen(guard, e), newest |-> e, run |-> 0]
    BY <1>1, <1>2, <1>8 DEF Resets
  <2>2. guard.newest <= e /\ e <= e
    BY <1>0, <1>8
  <2>3. GuardMoves(guard, heard, e, guard', heard')
    BY <1>8, <2>1, <2>2 DEF GuardMoves
  <2> QED BY <1>0, <2>3, GuardRemembers
<1> QED BY <1>3, <1>4, <1>5, <1>6, <1>7, <1>8

-----------------------------------------------------------------------------
(* What is stored.                                                         *)

LEMMA StillFiled ==
  ASSUME Filed(dir)
  PROVE  /\ Filed(WithoutRoute) /\ Filed(Peeked)
         /\ Filed([dir EXCEPT !.known.expired = TRUE])
         /\ Filed([dir EXCEPT !.known = NoRecord]) /\ Filed([dir EXCEPT !.blob = NoBlob])
<1>1. dir = [known |-> dir.known, blob |-> dir.blob] /\ dir.known \in Route /\ dir.blob \in Copy
      /\ dir.known.record \in BOOLEAN
  BY DEF Filed, Route
<1>2. NoRecord \in Route /\ [NoRecord EXCEPT !.record = dir.known.record] \in Route
      /\ NoBlob \in Copy /\ [dir.known EXCEPT !.expired = TRUE] \in Route
  <2>1. 0 \in 0 .. MaxHops
    BY Constants
  <2>2. NoRecord \in Route
    BY <2>1 DEF NoRecord, Route
  <2>3. \A r \in Route, b \in BOOLEAN :
          [r EXCEPT !.record = b] \in Route /\ [r EXCEPT !.expired = TRUE] \in Route
    BY DEF Route
  <2> QED BY <1>1, <2>2, <2>3 DEF Copy
<1>3. Filed(WithoutRoute)
  BY <1>1, <1>2 DEF WithoutRoute, Filed, NoRecord
<1>4. Filed(Peeked)
  BY <1>3 DEF Peeked
<1>5. Filed([dir EXCEPT !.known.expired = TRUE])
  BY <1>1, <1>2 DEF Filed, Route
<1>6. Filed([dir EXCEPT !.known = NoRecord]) /\ Filed([dir EXCEPT !.blob = NoBlob])
  BY <1>1, <1>2 DEF Filed, NoRecord
<1> QED BY <1>3, <1>4, <1>5, <1>6

LEMMA StoredFiled ==
  ASSUME Filed(dir), NEW p \in Announce, NEW d \in Stored(p)
  PROVE  Filed(d)
<1>1. CASE d = dir
  BY <1>1
<1>2. CASE \E fits \in BOOLEAN : d = rdirIngest(p, fits)
  <2>1. p.e \in Emissions /\ p.hops \in 1 .. MaxHops /\ p.on \in Ifaces
        /\ p.via \in Nodes \cup {None} /\ p.hops \in 0 .. MaxHops
    BY Constants DEF Announce, Direct
  <2>2. [record |-> TRUE, route |-> p.on, hops |-> p.hops, via |-> p.via, expired |-> FALSE] \in Route
    BY <2>1 DEF Route
  <2>3. [e |-> p.e, hops |-> p.hops] \in Copy /\ dir.blob \in Copy
    BY <2>1 DEF Copy, Filed
  <2>4. d \in [known : Route, blob : Copy] /\ d.known.record
    BY <1>2, <2>2, <2>3 DEF rdirIngest
  <2> QED BY <2>4 DEF Filed
<1> QED BY <1>1, <1>2 DEF Stored

LEMMA ShapesKept ==
  ASSUME IInv, [Next]_vars
  PROVE  Shapes'
<1>1. /\ deferred \in [Ifaces -> Copy] /\ capped \in [Ifaces -> BOOLEAN] /\ Filed(dir)
      /\ requested \in BOOLEAN /\ escalation \in BOOLEAN /\ NoBlob \in Copy
  BY DEF IInv, Shapes, Copy
<1>2. ASSUME NEW p \in Announce, NEW blocked, inboundAnnounce(p, blocked) PROVE Shapes'
  <2>1. Filed(dir')
    BY <1>1, <1>2, StoredFiled DEF inboundAnnounce
  <2>2. deferred' \in [Ifaces -> Copy]
    BY <1>1, <1>2 DEF inboundAnnounce
  <2>3. UNCHANGED <<capped, requested, escalation>>
    BY <1>2 DEF inboundAnnounce
  <2> QED BY <1>1, <2>1, <2>2, <2>3 DEF Shapes
<1>3. CASE announceDone
  BY <1>1, <1>3 DEF announceDone, inner, Shapes, Filed
<1>4. CASE announce_rec_emit
  <2>1. deferred' \in [Ifaces -> Copy]
    BY <1>4, EmitRelayed
  <2>2. UNCHANGED <<requested, escalation>>
    BY <1>4 DEF announce_rec_emit
  <2>3. /\ dir' \in {dir, Peeked}
        /\ capped' \in [Ifaces -> BOOLEAN]
    BY <1>1, <1>4 DEF announce_rec_emit, outbound
  <2> QED BY <1>1, <2>1, <2>2, <2>3, StillFiled DEF Shapes, Filed
<1>5. ASSUME NEW i \in Ifaces, process_announce_queue(i) \/ queuedTooLong(i) \/ capMoves(i)
      PROVE  Shapes'
  <2>1. UNCHANGED <<dir, requested, escalation>>
    BY <1>5 DEF process_announce_queue, queuedTooLong, capMoves, inner
  <2>2. deferred' \in {deferred, [deferred EXCEPT ![i] = NoBlob]}
    BY <1>5 DEF process_announce_queue, queuedTooLong, capMoves
  <2>3. capped' \in [Ifaces -> BOOLEAN]
    <3>1. CASE process_announce_queue(i)
      BY <1>1, <3>1 DEF process_announce_queue
    <3>2. CASE queuedTooLong(i)
      BY <1>1, <3>2 DEF queuedTooLong
    <3>3. CASE capMoves(i)
      BY <1>1, <3>3 DEF capMoves
    <3> QED BY <1>5, <3>1, <3>2, <3>3
  <2>4. deferred' \in [Ifaces -> Copy]
    BY <1>1, <2>2
  <2> QED BY <1>1, <2>1, <2>3, <2>4 DEF Shapes, Filed
<1>6. ASSUME NEW q \in Question,
             repeat_heard(q) \/ answerQuestion(q) \/ searchFor(q) \/ ignoreQuestion(q)
      PROVE  Shapes'
  <2>1. UNCHANGED <<deferred, requested, escalation>>
    BY <1>6 DEF repeat_heard, answerQuestion, searchFor, ignoreQuestion
  <2>2. dir' \in {dir, Peeked}
    BY <1>6 DEF repeat_heard, answerQuestion, searchFor, ignoreQuestion, inner
  <2>3. capped' \in [Ifaces -> BOOLEAN]
    BY <1>1, <1>6 DEF repeat_heard, answerQuestion, searchFor, ignoreQuestion
  <2> QED BY <1>1, <2>1, <2>2, <2>3, StillFiled DEF Shapes, Filed
<1>7. CASE repeatDue
  <2>1. UNCHANGED <<deferred, capped, requested, escalation>> /\ dir' = Peeked
    BY <1>7 DEF repeatDue
  <2> QED BY <1>1, <2>1, StillFiled DEF Shapes, Filed
<1>8. CASE askPath
  <2>1. UNCHANGED <<deferred, capped>> /\ dir' \in {dir, Peeked}
    BY <1>8 DEF askPath
  <2>2. requested' \in BOOLEAN
    BY <1>8 DEF askPath
  <2>3. escalation' \in BOOLEAN
    BY <1>8 DEF askPath, request_path
  <2> QED BY <1>1, <2>1, <2>2, <2>3, StillFiled DEF Shapes, Filed
<1>9. CASE escalate_path_requests
  <2>1. UNCHANGED <<deferred, capped>> /\ dir' = Peeked
        /\ requested' \in BOOLEAN /\ escalation' \in BOOLEAN
    BY <1>9 DEF escalate_path_requests
  <2> QED BY <1>1, <2>1, StillFiled DEF Shapes, Filed
<1>10. CASE searchAges
  BY <1>1, <1>10 DEF searchAges, inner, Shapes, Filed
<1>11. CASE pathExpires
  <2>1. UNCHANGED <<deferred, capped, requested, escalation>>
        /\ dir' \in {[dir EXCEPT !.known.expired = TRUE], WithoutRoute}
    BY <1>11 DEF pathExpires
  <2> QED BY <1>1, <2>1, StillFiled DEF Shapes, Filed
<1>12. CASE tableEvicts
  <2>1. UNCHANGED <<deferred, capped, requested, escalation>>
        /\ dir' \in {dir, [dir EXCEPT !.known = NoRecord], [dir EXCEPT !.blob = NoBlob]}
    BY <1>12 DEF tableEvicts, inner
  <2> QED BY <1>1, <2>1, StillFiled DEF Shapes, Filed
<1>13. CASE UNCHANGED vars
  BY <1>1, <1>13 DEF vars, inner, Shapes, Filed
<1> QED BY <1>2, <1>3, <1>4, <1>5, <1>6, <1>7, <1>8, <1>9, <1>10, <1>11, <1>12, <1>13 DEF Next

-----------------------------------------------------------------------------
(* Questions.                                                              *)

LEMMA AsksOn ==
  ASSUME Asks, tags \subseteq tags', tags' \subseteq Tags, UNCHANGED <<carried, twice>>,
         repeat' \in {repeat, NoRepeat}
  PROVE  Asks'
BY DEF Asks

LEMMA SearchAsks ==
  ASSUME Asks, NEW q \in Question, searchFor(q)
  PROVE  Asks'
<1>1. q.tag \in Tags /\ q.on \in Ifaces /\ q.tag \notin tags /\ tags' = tags \cup {q.tag}
  BY DEF Question, searchFor, NewQuestion
<1>2. \/ repeat' = [tag |-> q.tag, on |-> q.on, asker |-> q.asker]
      \/ repeat' = repeat
  BY DEF searchFor, repeat_schedule
<1>3. \/ UNCHANGED <<carried, twice>>
      \/ Carry(q.tag, Onward(q))
  BY DEF searchFor
<1>4. Onward(q) \subseteq Ifaces /\ q.on \notin Onward(q)
  BY DEF Onward
<1>5. \A i : <<q.tag, i>> \notin carried
  BY <1>1 DEF Asks
<1>6. /\ carried' \subseteq tags' \X Ifaces /\ ~twice'
      /\ <<q.tag, q.on>> \notin carried'
      /\ \A t \in tags, i \in Ifaces : <<t, i>> \in carried' => <<t, i>> \in carried
  <2>1. CASE UNCHANGED <<carried, twice>>
    BY <1>1, <1>5, <2>1 DEF Asks
  <2>2. CASE Carry(q.tag, Onward(q))
    BY <1>1, <1>4, <1>5, <2>2 DEF Asks, Carry
  <2> QED BY <1>3, <2>1, <2>2
<1>7. repeat' # NoRepeat =>
        repeat'.tag \in tags' /\ repeat'.on \in Ifaces /\ <<repeat'.tag, repeat'.on>> \notin carried'
  <2>1. CASE repeat' = repeat
    BY <1>1, <1>6, <2>1 DEF Asks
  <2>2. CASE repeat' = [tag |-> q.tag, on |-> q.on, asker |-> q.asker]
    BY <1>1, <1>6, <2>2
  <2> QED BY <1>2, <2>1, <2>2
<1> QED BY <1>1, <1>6, <1>7 DEF Asks

LEMMA RepeatAsks ==
  ASSUME Asks, repeatDue
  PROVE  Asks'
<1>1. repeat # NoRepeat /\ repeat' = NoRepeat /\ tags' = tags
  BY DEF repeatDue
<1>2. repeat.tag \in tags /\ repeat.on \in Ifaces /\ <<repeat.tag, repeat.on>> \notin carried
  BY <1>1 DEF Asks
<1>3. UNCHANGED <<carried, twice>> \/ Carry(repeat.tag, {repeat.on})
  BY DEF repeatDue
<1>4. carried' \subseteq tags \X Ifaces /\ ~twice'
  <2>1. CASE UNCHANGED <<carried, twice>>
    BY <2>1 DEF Asks
  <2>2. CASE Carry(repeat.tag, {repeat.on})
    <3>1. carried' = carried \cup ({repeat.tag} \X {repeat.on})
      BY <2>2 DEF Carry
    <3>2. ~twice'
      BY <1>2, <2>2 DEF Asks, Carry
    <3> QED BY <1>2, <3>1, <3>2 DEF Asks
  <2> QED BY <1>3, <2>1, <2>2
<1> QED BY <1>1, <1>4 DEF Asks

LEMMA AsksKept ==
  ASSUME IInv, [Next]_vars
  PROVE  Asks'
<1>0. Asks /\ tags \subseteq Tags
  BY DEF IInv, Asks
<1>1. ASSUME NEW p \in Announce, NEW blocked, inboundAnnounce(p, blocked) PROVE Asks'
  BY <1>0, <1>1, AsksOn DEF inboundAnnounce
<1>2. CASE announceDone \/ announce_rec_emit
  BY <1>0, <1>2, AsksOn DEF announceDone, announce_rec_emit, history
<1>3. ASSUME NEW i \in Ifaces, process_announce_queue(i) \/ queuedTooLong(i) \/ capMoves(i)
      PROVE  Asks'
  BY <1>0, <1>3, AsksOn DEF process_announce_queue, queuedTooLong, capMoves, history
<1>4. ASSUME NEW q \in Question, repeat_heard(q) \/ answerQuestion(q) \/ ignoreQuestion(q)
      PROVE  Asks'
  <2>1. q.tag \in Tags
    BY DEF Question
  <2>2. UNCHANGED <<carried, twice>> /\ tags \subseteq tags' /\ tags' \subseteq Tags
    BY <1>0, <1>4, <2>1 DEF repeat_heard, answerQuestion, ignoreQuestion, NewQuestion, history
  <2>3. repeat' \in {repeat, NoRepeat}
    BY <1>4 DEF repeat_heard, answerQuestion, ignoreQuestion
  <2> QED BY <1>0, <2>2, <2>3, AsksOn
<1>5. ASSUME NEW q \in Question, searchFor(q) PROVE Asks'
  BY <1>0, <1>5, SearchAsks
<1>6. CASE repeatDue
  BY <1>0, <1>6, RepeatAsks
<1>7. CASE askPath \/ escalate_path_requests \/ searchAges \/ pathExpires
  BY <1>0, <1>7, AsksOn DEF askPath, escalate_path_requests, searchAges, pathExpires, history
<1>8. CASE tableEvicts
  BY <1>0, <1>8, AsksOn DEF tableEvicts
<1>9. CASE UNCHANGED vars
  BY <1>0, <1>9, AsksOn DEF vars, history
<1> QED BY <1>1, <1>2, <1>3, <1>4, <1>5, <1>6, <1>7, <1>8, <1>9 DEF Next

-----------------------------------------------------------------------------
(* The invariant is one.                                                   *)

LEMMA ForgetsAll == Remembers(NoGuard, {})
<1>1. <<>> \in Seq(Emissions) /\ Len(<<>>) = 0 /\ DOMAIN <<>> = {}
  OBVIOUS
<1>2. 0 \in 0 .. MaxEmissions /\ 0 \in 0 .. RDIR_G_RUN_LIMIT - 1 /\ 0 <= FP_RING
  BY Constants
<1>3. NoGuard \in [seen : Seq(Emissions), newest : 0 .. MaxEmissions, run : 0 .. RDIR_G_RUN_LIMIT - 1]
      /\ NoGuard.seen = <<>>
  BY <1>1, <1>2 DEF NoGuard
<1> QED BY <1>1, <1>2, <1>3 DEF Remembers

LEMMA Initially == Init => IInv
<1> SUFFICES ASSUME Init PROVE IInv
  OBVIOUS
<1>1. Shapes
  <2>1. NoRecord \in Route
    <3>1. 0 \in 0 .. MaxHops
      BY Constants
    <3> QED BY <3>1 DEF NoRecord, Route
  <2>2. dir = [known |-> NoRecord, blob |-> NoBlob] /\ NoRecord.route = None /\ NoBlob \in Copy
    BY DEF Init, NoRecord, Copy
  <2>3. Filed(dir)
    BY <2>1, <2>2 DEF Filed
  <2> QED BY <2>2, <2>3 DEF Init, Shapes
<1>2. Relayed
  <2>1. Ringed(<<>>) /\ Those(<<>>, TRUE) = {} /\ Those(<<>>, FALSE) = {}
    BY DEF Ringed, Those, Which
  <2>2. ASSUME NEW i \in Ifaces, NEW e \in Emissions
        PROVE  aired[i][e] + Waits(deferred[i], e) = 0
    <3>1. aired[i][e] = 0 /\ deferred[i] = NoBlob
      BY DEF Init
    <3> QED BY <3>1, WaitsIs
  <2>3. ASSUME NEW e PROVE Sums(<<>>, e, 0)
    <3>1. 0 <= Most
      BY MostIs
    <3> QED BY <2>1, <3>1 DEF Sums
  <2>4. ring = <<>> /\ aired \in [Ifaces -> [Emissions -> Nat]]
    BY DEF Init
  <2> QED BY <2>1, <2>2, <2>3, <2>4 DEF Relayed
<1>3. Remembers(guard, heard)
  BY ForgetsAll DEF Init
<1>4. Asks
  BY DEF Init, Asks
<1> QED BY <1>1, <1>2, <1>3, <1>4 DEF IInv

LEMMA RelayedKept ==
  ASSUME IInv, [Next]_vars
  PROVE  Relayed'
<1>0. \A i \in Ifaces : deferred[i] \in {deferred[i], NoBlob}
  OBVIOUS
<1>1. ASSUME NEW p \in Announce, NEW blocked, inboundAnnounce(p, blocked) PROVE Relayed'
  BY <1>1, AnnounceRelayed
<1>2. CASE announceDone
  BY <1>2, DoneRelayed
<1>3. CASE announce_rec_emit
  BY <1>3, EmitRelayed
<1>4. ASSUME NEW i \in Ifaces, process_announce_queue(i) PROVE Relayed'
  BY <1>4, QueueRelayed
<1>5. ASSUME NEW i \in Ifaces, queuedTooLong(i) \/ capMoves(i) PROVE Relayed'
  <2>1. ring' = ring /\ aired' = aired
    BY <1>5 DEF queuedTooLong, capMoves, history
  <2>2. \A j \in Ifaces : deferred'[j] \in {deferred[j], NoBlob}
    BY <1>5 DEF queuedTooLong, capMoves, IInv, Shapes
  <2> QED BY <2>1, <2>2, RelayedSame
<1>6. ASSUME NEW q \in Question, answerQuestion(q) PROVE Relayed'
  BY <1>6, AnswerRelayed
<1>7. ASSUME NEW q \in Question, repeat_heard(q) \/ searchFor(q) \/ ignoreQuestion(q)
      PROVE  Relayed'
  <2>1. ring' = ring /\ aired' = aired /\ deferred' = deferred
    BY <1>7 DEF repeat_heard, searchFor, ignoreQuestion, history
  <2> QED BY <1>0, <2>1, RelayedSame
<1>8. CASE repeatDue \/ askPath \/ escalate_path_requests \/ searchAges \/ pathExpires
  <2>1. ring' = ring /\ aired' = aired /\ deferred' = deferred
    BY <1>8 DEF repeatDue, askPath, escalate_path_requests, searchAges, pathExpires, history
  <2> QED BY <1>0, <2>1, RelayedSame
<1>9. CASE tableEvicts
  BY <1>9, EvictRelayed
<1>10. CASE UNCHANGED vars
  <2>1. ring' = ring /\ aired' = aired /\ deferred' = deferred
    BY <1>10 DEF vars, history
  <2> QED BY <1>0, <2>1, RelayedSame
<1> QED BY <1>1, <1>2, <1>3, <1>4, <1>5, <1>6, <1>7, <1>8, <1>9, <1>10 DEF Next

(* Whatever else happens leaves the guard alone, or takes its slot.        *)
LEMMA RemembersKept ==
  ASSUME IInv, [Next]_vars
  PROVE  Remembers(guard', heard')
<1>0. ASSUME guard' = guard, heard' = heard PROVE Remembers(guard', heard')
  BY <1>0 DEF IInv
<1>1. ASSUME NEW p \in Announce, NEW blocked, inboundAnnounce(p, blocked)
      PROVE  Remembers(guard', heard')
  BY <1>1, GuardIsFresh
<1>2. CASE tableEvicts
  <2>1. \/ guard' = guard /\ heard' = heard
        \/ guard' = NoGuard /\ heard' = {}
    BY <1>2 DEF tableEvicts, inner
  <2> QED BY <1>0, <2>1, ForgetsAll
<1>3. CASE announceDone \/ announce_rec_emit \/ repeatDue \/ askPath \/ escalate_path_requests
           \/ searchAges \/ pathExpires \/ UNCHANGED vars
  <2>1. guard' = guard /\ heard' = heard
    BY <1>3 DEF announceDone, announce_rec_emit, repeatDue, askPath, escalate_path_requests,
                searchAges, pathExpires, vars, inner, history
  <2> QED BY <1>0, <2>1
<1>4. ASSUME NEW i \in Ifaces, process_announce_queue(i) \/ queuedTooLong(i) \/ capMoves(i)
      PROVE  Remembers(guard', heard')
  <2>1. guard' = guard /\ heard' = heard
    BY <1>4 DEF process_announce_queue, queuedTooLong, capMoves, inner, history
  <2> QED BY <1>0, <2>1
<1>5. ASSUME NEW q \in Question,
             repeat_heard(q) \/ answerQuestion(q) \/ searchFor(q) \/ ignoreQuestion(q)
      PROVE  Remembers(guard', heard')
  <2>1. guard' = guard /\ heard' = heard
    BY <1>5 DEF repeat_heard, answerQuestion, searchFor, ignoreQuestion, inner, history
  <2> QED BY <1>0, <2>1
<1> QED BY <1>1, <1>2, <1>3, <1>4, <1>5 DEF Next

(* The inductive invariant holds in every state: the ring has at most one  *)
(* queued and one held record of the destination, what was rebroadcast and *)
(* what is still to be adds up to no more than it may, the guard remembers *)
(* what was heard, and a question carried on is known.                     *)
THEOREM Invariance == Spec => []IInv
<1>1. IInv /\ [Next]_vars => IInv'
  <2> SUFFICES ASSUME IInv, [Next]_vars PROVE IInv'
    OBVIOUS
  <2>1. Shapes' /\ Relayed' /\ Remembers(guard', heard') /\ Asks'
    BY ShapesKept, RelayedKept, RemembersKept, AsksKept
  <2> QED BY <2>1 DEF IInv
<1> QED BY Initially, <1>1, PTL DEF Spec

-----------------------------------------------------------------------------
(* TypeOK, of every state.                                                 *)
THEOREM Types == Spec => []TypeOK
<1>1. IInv => TypeOK
  <2> SUFFICES ASSUME IInv PROVE TypeOK
    OBVIOUS
  <2>1. ring \in Seq(Record)
    BY DEF IInv, Relayed, Ringed
  <2>2. NoBlob \in [e : 0 .. MaxEmissions, hops : 0 .. MaxHops]
        /\ [e : Emissions, hops : 1 .. MaxHops] \subseteq [e : 0 .. MaxEmissions, hops : 0 .. MaxHops]
    BY Constants DEF NoBlob, Emissions
  <2>3. deferred \in [Ifaces -> [e : 0 .. MaxEmissions, hops : 0 .. MaxHops]]
        /\ capped \in [Ifaces -> BOOLEAN]
    BY <2>2 DEF IInv, Shapes, Copy
  <2>4. Len(guard.seen) <= FP_RING /\ guard.newest \in 0 .. MaxEmissions
    BY DEF IInv, Remembers
  <2>5. guard.run < RDIR_G_RUN_LIMIT
    <3>1. guard.run \in 0 .. RDIR_G_RUN_LIMIT - 1
      BY DEF IInv, Remembers
    <3> QED BY <3>1, Constants
  <2>6. dir.known.route \in Ifaces \cup {None} /\ dir.known.hops \in 0 .. MaxHops
        /\ dir.blob \in [e : 0 .. MaxEmissions, hops : 0 .. MaxHops]
    BY <2>2 DEF IInv, Shapes, Filed, Route, Copy
  <2>7. tags \subseteq Tags /\ requested \in BOOLEAN /\ escalation \in BOOLEAN
    BY DEF IInv, Shapes, Asks
  <2> QED BY <2>1, <2>3, <2>4, <2>5, <2>6, <2>7 DEF TypeOK
<1> QED BY Invariance, <1>1, PTL

(* A destination's records do not pile up in the ring, its rebroadcasts do *)
(* not exceed PATHFINDER_R + 3 on an interface for each time an emission   *)
(* is new, and no question is carried on twice: whatever announces,        *)
(* questions, answers and evictions follow each other, for any number of   *)
(* interfaces, neighbours, emissions and rebroadcasts.                     *)
THEOREM NothingAddsUp == Spec => []NothingMultiplies
<1>1. IInv => NothingMultiplies
  <2> SUFFICES ASSUME IInv PROVE NothingMultiplies
    OBVIOUS
  <2>1. ASSUME NEW held \in BOOLEAN PROVE Cardinality(Which(ring, held)) <= 1
    <3> DEFINE W == Which(ring, held)
    <3>1. \A j, k \in W : j = k
      BY DEF IInv, Relayed, Ringed
    <3> HIDE DEF W
    <3>2. ASSUME W = {} PROVE Cardinality(W) <= 1
      BY <3>2, FS_EmptySet
    <3>3. ASSUME W # {} PROVE Cardinality(W) <= 1
      <4>1. PICK k : W = {k}
        BY <3>1, <3>3
      <4>2. Cardinality({k}) = 1
        BY FS_Singleton
      <4> QED BY <4>1, <4>2
    <3>4. Cardinality(W) <= 1
      BY <3>2, <3>3
    <3> QED BY <3>4 DEF W
  <2>2. ASSUME NEW i \in Ifaces, NEW e \in Emissions PROVE aired[i][e] <= PATHFINDER_R + 3
    <3>1. aired[i][e] \in Nat /\ Sums(ring, e, aired[i][e] + Waits(deferred[i], e))
      BY NoFewer DEF IInv
    <3>2. Waits(deferred[i], e) \in Nat
      BY WaitsIs
    <3>3. aired[i][e] + Waits(deferred[i], e) <= Most
      BY <3>1 DEF Sums
    <3> QED BY <3>1, <3>2, <3>3, MostIs
  <2>3. ~twice
    BY DEF IInv, Asks
  <2> QED BY <2>1, <2>2, <2>3
       DEF NothingMultiplies, OneQueuedOneHeld, RelaysBounded, QuestionsCarriedOnce
<1> QED BY Invariance, <1>1, PTL

-----------------------------------------------------------------------------
(* Only an announce makes a route longer, and only if no rule keeps the    *)
(* route that there is.                                                    *)
Lengthens ==
  dir.known.route # None /\ ~dir.known.expired /\ dir'.known.route # None
  /\ dir'.known.hops > dir.known.hops

LEMMA OthersDoNotLengthen ==
  ASSUME dir' \in {dir, Peeked, WithoutRoute, [dir EXCEPT !.known.expired = TRUE],
                   [dir EXCEPT !.known = NoRecord], [dir EXCEPT !.blob = NoBlob]},
         IInv
  PROVE  ~Lengthens
<1>1. dir.known.hops \in Nat /\ dir \in [known : Route, blob : Copy]
  BY Constants DEF IInv, Shapes, Filed, Route
<1>2. dir'.known.route = None \/ dir'.known.hops = dir.known.hops
  BY <1>1 DEF Peeked, WithoutRoute, NoRecord, Route
<1> QED BY <1>1, <1>2 DEF Lengthens

LEMMA AnnounceLengthens ==
  ASSUME IInv, NEW p \in Announce, NEW blocked, inboundAnnounce(p, blocked), Lengthens,
         ~(Cardinality(heard) > FP_RING)
  PROVE  p.e \in Emissions \ heard /\ heard' = heard \cup {p.e}
<1>1. p.e \in Emissions /\ p.e \in Nat /\ p.hops \in Nat /\ dir.known.hops \in Nat
      /\ guard.newest \in Nat
  BY Constants DEF Announce, Emissions, IInv, Shapes, Filed, Route, Remembers
<1>2. dir' # dir
  BY <1>1 DEF Lengthens
<1>3. RouteBetter(p) /\ dir'.known.hops = p.hops
  BY <1>2 DEF inboundAnnounce, Stored, Retain, rdirIngest
<1>4. Known /\ ~(p.hops <= dir.known.hops) /\ ~dir.known.expired
  BY <1>1, <1>3 DEF Lengthens, Known
<1>5. Novel(guard, p.e)
  BY <1>3, <1>4 DEF RouteBetter
<1>6. ~Seen(guard, p.e) /\ p.e >= guard.newest /\ ~Resets(guard, p.e)
  BY <1>1, <1>5 DEF Novel, Resets
<1>7. heard' = heard \cup {p.e}
  BY <1>6 DEF inboundAnnounce
<1>8. ASSUME p.e \in heard PROVE FALSE
  <2>1. guard # NoGuard /\ p.e <= guard.newest
    BY <1>8 DEF IInv, Remembers
  <2>2. p.e = guard.newest
    BY <1>1, <1>6, <2>1
  <2>3. Cardinality(heard) <= FP_RING
    <3>1. Cardinality(heard) \in Nat
      BY <1>1, HeardIsFinite DEF IInv, Remembers
    <3> QED BY <3>1, Constants
  <2> QED BY <1>6, <2>1, <2>2, <2>3 DEF IInv, Remembers
<1> QED BY <1>1, <1>7, <1>8

LEMMA StepLengthens ==
  ASSUME IInv, [Next]_vars, Lengthens
  PROVE  \/ \E e \in Emissions \ heard : heard' = heard \cup {e}
         \/ Cardinality(heard) > FP_RING
<1> DEFINE Others == {dir, Peeked, WithoutRoute, [dir EXCEPT !.known.expired = TRUE],
                      [dir EXCEPT !.known = NoRecord], [dir EXCEPT !.blob = NoBlob]}
<1>1. ASSUME NEW p \in Announce, NEW blocked, inboundAnnounce(p, blocked)
      PROVE  \/ \E e \in Emissions \ heard : heard' = heard \cup {e}
             \/ Cardinality(heard) > FP_RING
  BY <1>1, AnnounceLengthens
<1>2. CASE announceDone \/ announce_rec_emit \/ repeatDue \/ askPath \/ escalate_path_requests
           \/ searchAges \/ pathExpires \/ tableEvicts \/ UNCHANGED vars
  <2>1. dir' \in Others
    BY <1>2 DEF announceDone, announce_rec_emit, outbound, repeatDue, askPath,
                escalate_path_requests, searchAges, pathExpires, tableEvicts, vars, inner
  <2> QED BY <2>1, OthersDoNotLengthen
<1>3. ASSUME NEW i \in Ifaces, process_announce_queue(i) \/ queuedTooLong(i) \/ capMoves(i)
      PROVE  FALSE
  <2>1. dir' \in Others
    BY <1>3 DEF process_announce_queue, queuedTooLong, capMoves, inner
  <2> QED BY <2>1, OthersDoNotLengthen
<1>4. ASSUME NEW q \in Question,
             repeat_heard(q) \/ answerQuestion(q) \/ searchFor(q) \/ ignoreQuestion(q)
      PROVE  FALSE
  <2>1. dir' \in Others
    BY <1>4 DEF repeat_heard, answerQuestion, searchFor, ignoreQuestion, inner
  <2> QED BY <2>1, OthersDoNotLengthen
<1> QED BY <1>1, <1>2, <1>3, <1>4 DEF Next

(* A relayed or looped copy of an emission that was heard does not         *)
(* lengthen a live route, as long as the guard remembers the destination   *)
(* and no more of its emissions were heard than there is room for.         *)
THEOREM CopiesDoNotLengthen == Spec => NeverLengthenedByACopy
<1>1. IInv /\ [Next]_vars =>
        [LET before == dir.known
             after  == dir'.known
         IN  before.route # None /\ ~before.expired /\ after.route # None /\ after.hops > before.hops
             => \/ \E e \in Emissions \ heard : heard' = heard \cup {e}
                \/ Cardinality(heard) > FP_RING]_vars
  BY StepLengthens DEF Lengthens
<1> QED BY Invariance, <1>1, PTL DEF Spec, NeverLengthenedByACopy
=============================================================================
