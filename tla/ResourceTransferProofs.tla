----------------------- MODULE ResourceTransferProofs -----------------------
(***************************************************************************)
(* Proofs about ResourceTransfer, for every value of its constants: any    *)
(* number of parts and hashmap segments, any map hashes, windows, retries  *)
(* and mishaps.                                                            *)
(***************************************************************************)
EXTENDS ResourceTransfer, FiniteSetTheorems, WellFoundedInduction, TLAPS

-----------------------------------------------------------------------------
(* Facts about numbers, sets and sequences.                                *)

(* A set of naturals that is not empty has a least one.                    *)
Less == {ss \in Nat \X Nat : ss[1] < ss[2]}

LEMMA LessIsWellFounded == IsWellFoundedOn(Less, Nat)
BY NatLessThanWellFounded DEF OpToRel, Less

LEMMA Least ==
  ASSUME NEW T, T \subseteq Nat, T # {}
  PROVE  \E x \in T : \A y \in T : x <= y
<1>1. PICK x \in T : \A y \in T : <<y, x>> \notin Less
  BY LessIsWellFounded, WFMin
<1>2. ASSUME NEW y \in T PROVE x <= y
  <2>1. x \in Nat /\ y \in Nat
    OBVIOUS
  <2>2. y < x => <<y, x>> \in Less
    BY <2>1 DEF Less
  <2> QED BY <1>1, <2>1, <2>2
<1> QED BY <1>2

LEMMA MinIsLeast ==
  ASSUME NEW T, T \subseteq Nat, T # {}
  PROVE  Min(T) \in T /\ \A y \in T : Min(T) <= y
BY Least DEF Min

LEMMA MinOfOne ==
  ASSUME NEW x \in Nat
  PROVE  Min({x}) = x
BY DEF Min

(* The largest of the first naturals.                                      *)
LEMMA MaxOfFirst ==
  ASSUME NEW k \in Nat
  PROVE  Max((1 .. k) \cup {0}) = k
<1>1. k \in (1 .. k) \cup {0} /\ \A y \in (1 .. k) \cup {0} : k >= y
  OBVIOUS
<1>2. \A x \in (1 .. k) \cup {0} : (\A y \in (1 .. k) \cup {0} : x >= y) => x = k
  BY <1>1
<1> QED BY <1>1, <1>2 DEF Max

LEMMA Multiples ==
  ASSUME NEW h \in Nat \ {0}, NEW q \in Nat
  PROVE  (q * h) % h = 0 /\ (q * h) \div h = q /\ q * h \in Nat
OBVIOUS

(* Of the numbers up to one more than there are in a finite set, one is    *)
(* not in it.                                                              *)
LEMMA SomeUnused ==
  ASSUME NEW U, IsFiniteSet(U)
  PROVE  (1 .. Cardinality(U) + 1) \ U # {}
<1>1. Cardinality(U) \in Nat
  BY FS_CardinalityType
<1>2. Cardinality(1 .. Cardinality(U) + 1) = Cardinality(U) + 1
  BY <1>1, FS_Interval
<1>3. CASE 1 .. Cardinality(U) + 1 \subseteq U
  <2>1. Cardinality(1 .. Cardinality(U) + 1) <= Cardinality(U)
    BY <1>3, FS_Subset
  <2> QED BY <1>1, <1>2, <2>1
<1> QED BY <1>3

(* Sequences with a value put in, taken out, replaced.                     *)
LEMMA PartOf ==
  ASSUME NEW S, NEW q \in Seq(S), NEW a \in Nat \ {0}, NEW b \in Nat, b <= Len(q)
  PROVE  /\ SubSeq(q, a, b) \in Seq(S)
         /\ Len(SubSeq(q, a, b)) = IF a <= b THEN b - a + 1 ELSE 0
OBVIOUS

LEMMA Joined ==
  ASSUME NEW S, NEW q \in Seq(S), NEW r \in Seq(S)
  PROVE  q \o r \in Seq(S) /\ Len(q \o r) = Len(q) + Len(r)
OBVIOUS

LEMMA Inserted ==
  ASSUME NEW S, NEW q \in Seq(S), NEW x \in S, NEW i \in 1 .. Len(q) + 1
  PROVE  InsertAt(q, i, x) \in Seq(S) /\ Len(InsertAt(q, i, x)) = Len(q) + 1
<1>0. Len(q) \in Nat
  OBVIOUS
<1> DEFINE a == SubSeq(q, 1, i - 1)
           b == SubSeq(q, i, Len(q))
<1>1. a \in Seq(S) /\ Len(a) = i - 1
  <2>1. i - 1 \in Nat /\ i - 1 <= Len(q)
    BY <1>0
  <2>2. a \in Seq(S) /\ Len(a) = IF 1 <= i - 1 THEN i - 1 - 1 + 1 ELSE 0
    BY <2>1, PartOf
  <2> QED BY <2>1, <2>2
<1>2. b \in Seq(S) /\ Len(b) = Len(q) + 1 - i
  <2>1. i \in Nat \ {0}
    BY <1>0
  <2>2. b \in Seq(S) /\ Len(b) = IF i <= Len(q) THEN Len(q) - i + 1 ELSE 0
    BY <1>0, <2>1, PartOf
  <2> QED BY <1>0, <2>1, <2>2
<1>3. <<x>> \in Seq(S) /\ Len(<<x>>) = 1
  OBVIOUS
<1> HIDE DEF a, b
<1>4. a \o <<x>> \in Seq(S) /\ Len(a \o <<x>>) = i
  <2>1. a \o <<x>> \in Seq(S) /\ Len(a \o <<x>>) = Len(a) + Len(<<x>>)
    BY <1>1, <1>3, Joined
  <2> QED BY <1>0, <1>1, <1>3, <2>1
<1>5. a \o <<x>> \o b \in Seq(S) /\ Len(a \o <<x>> \o b) = Len(a \o <<x>>) + Len(b)
  BY <1>2, <1>4, Joined
<1>6. Len(a \o <<x>> \o b) = Len(q) + 1
  BY <1>0, <1>2, <1>4, <1>5
<1>7. InsertAt(q, i, x) = a \o <<x>> \o b
  BY DEF InsertAt, a, b
<1> QED BY <1>5, <1>6, <1>7

LEMMA Removed ==
  ASSUME NEW S, NEW q \in Seq(S), NEW i \in 1 .. Len(q)
  PROVE  RemoveAt(q, i) \in Seq(S) /\ Len(RemoveAt(q, i)) = Len(q) - 1
<1>0. Len(q) \in Nat /\ i \in Nat /\ i >= 1 /\ i <= Len(q)
  OBVIOUS
<1> DEFINE a == SubSeq(q, 1, i - 1)
           b == SubSeq(q, i + 1, Len(q))
<1>1. a \in Seq(S) /\ Len(a) = i - 1
  <2>1. i - 1 \in Nat /\ i - 1 <= Len(q)
    BY <1>0
  <2>2. a \in Seq(S) /\ Len(a) = IF 1 <= i - 1 THEN i - 1 - 1 + 1 ELSE 0
    BY <2>1, PartOf
  <2> QED BY <2>1, <2>2
<1>2. b \in Seq(S) /\ Len(b) = Len(q) - i
  <2>1. i + 1 \in Nat \ {0}
    BY <1>0
  <2>2. b \in Seq(S) /\ Len(b) = IF i + 1 <= Len(q) THEN Len(q) - (i + 1) + 1 ELSE 0
    BY <1>0, <2>1, PartOf
  <2> QED BY <1>0, <2>2
<1> HIDE DEF a, b
<1>3. a \o b \in Seq(S) /\ Len(a \o b) = Len(a) + Len(b)
  BY <1>1, <1>2, Joined
<1>4. Len(a \o b) = Len(q) - 1
  BY <1>0, <1>1, <1>2, <1>3
<1>5. RemoveAt(q, i) = a \o b
  BY DEF RemoveAt, a, b
<1> QED BY <1>3, <1>4, <1>5

LEMMA OneInserted ==
  ASSUME NEW S, NEW q \in Seq(S), q = <<>>, NEW x \in S, NEW i \in 1 .. Len(q) + 1
  PROVE  InsertAt(q, i, x)[1] = x
<1>1. i = 1 /\ Len(q) = 0
  OBVIOUS
<1>2. SubSeq(q, 1, 0) = <<>> /\ <<>> \o <<x>> = <<x>>
  OBVIOUS
<1>3. InsertAt(q, i, x) = <<x>> \o SubSeq(q, 1, 0)
  BY <1>1, <1>2 DEF InsertAt
<1>4. <<x>> \o <<>> = <<x>> /\ <<x>>[1] = x
  OBVIOUS
<1> QED BY <1>2, <1>3, <1>4

-----------------------------------------------------------------------------
(* What is on the network.                                                 *)
LEMMA BagsHold ==
  ASSUME NEW B, NEW C, NEW m
  PROVE  /\ DOMAIN (B (+) C) = DOMAIN B \cup DOMAIN C
         /\ DOMAIN (B (-) C) \subseteq DOMAIN B
         /\ DOMAIN One(m) = {m} /\ DOMAIN Nothing = {}
BY DEF (+), (-), One, Nothing, SetToBag, EmptyBag

-----------------------------------------------------------------------------
(* The receiver's copies: what changes of one is typed, and keeps its      *)
(* parts and its hashes.                                                   *)
CopyOK == {c \in Copy : WindowAboveMin(c)}
SameData(c, d) == d.parts = c.parts /\ d.known = c.known
Keeps(c, d) == d \in CopyOK /\ SameData(c, d)

LEMMA CopyFields ==
  ASSUME NEW c \in CopyOK
  PROVE  /\ c.parts \in [Positions -> 0 .. Parts] /\ c.known \in SUBSET Positions
         /\ c.outstanding \in 0 .. Parts /\ c.waiting \in BOOLEAN /\ c.answered \in BOOLEAN
         /\ c.retries \in 0 .. MAX_RETRIES
         /\ c.window \in Nat /\ c.windowMin \in Nat /\ c.windowMax \in Nat
         /\ c.fast \in 0 .. FAST_RATE_THRESHOLD /\ c.slow \in 0 .. VERY_SLOW_RATE_THRESHOLD
         /\ WINDOW_MIN <= c.windowMin /\ c.windowMin <= c.window
BY DEF CopyOK, Copy, WindowAboveMin

LEMMA SomeParts ==
  ASSUME hashOf \in HashMaps
  PROVE  Parts \in Nat
BY TransferAssumption DEF Parts

LEMMA PartsAreFinite ==
  ASSUME hashOf \in HashMaps, NEW P \in SUBSET Positions
  PROVE  Parts \in Nat /\ IsFiniteSet(P) /\ Cardinality(P) \in 0 .. Parts
<1>1. Parts \in Nat
  BY TransferAssumption DEF Parts
<1>2. IsFiniteSet(Positions) /\ Cardinality(Positions) = Parts
  BY <1>1, FS_Interval DEF Positions
<1>3. IsFiniteSet(P) /\ Cardinality(P) <= Parts /\ Cardinality(P) \in Nat
  BY <1>2, FS_Subset, FS_CardinalityType
<1> QED BY <1>1, <1>3

LEMMA KeepsKeeps ==
  ASSUME NEW c, NEW d, NEW e, Keeps(c, d), Keeps(d, e)
  PROVE  Keeps(c, e)
BY DEF Keeps, SameData

LEMMA AsksKeeps ==
  ASSUME hashOf \in HashMaps, NEW c \in CopyOK
  PROVE  Keeps(c, AfterAsking(c))
<1>1. Cardinality(Wanted(c)) \in 0 .. Parts
  <2>1. Wanted(c) \in SUBSET Positions
    BY DEF Wanted, InWindow, Missing
  <2> QED BY <2>1, PartsAreFinite
<1>2. Exhausted(c) \in BOOLEAN
  BY DEF Exhausted
<1> DEFINE n == Cardinality(Wanted(c))
           x == Exhausted(c)
<1>3. AfterAsking(c) = IF Asking(c) THEN [c EXCEPT !.outstanding = n, !.waiting = x, !.answered = FALSE]
                                    ELSE c
  BY DEF AfterAsking
<1> HIDE DEF n, x
<1> QED BY <1>1, <1>2, <1>3 DEF Keeps, SameData, CopyOK, Copy, WindowAboveMin, n, x

LEMMA CountsKeep ==
  ASSUME NEW c \in CopyOK, NEW rate
  PROVE  Keeps(c, CountFast(c, rate)) /\ Keeps(c, CountSlow(c, rate))
<1>1. /\ WINDOW_MAX_FAST \in Nat /\ WINDOW_MAX_VERY_SLOW \in Nat
      /\ FAST_RATE_THRESHOLD \in Nat /\ VERY_SLOW_RATE_THRESHOLD \in Nat
  BY TransferAssumption
<1>2. Keeps(c, CountFast(c, rate))
  <2>1. CASE rate = "fast" /\ c.fast < FAST_RATE_THRESHOLD
    <3> DEFINE n == c.fast + 1
               m == IF n = FAST_RATE_THRESHOLD THEN WINDOW_MAX_FAST ELSE c.windowMax
    <3>1. n \in 0 .. FAST_RATE_THRESHOLD /\ m \in Nat
      BY <1>1, <2>1 DEF CopyOK, Copy
    <3>2. CountFast(c, rate) = [c EXCEPT !.fast = n, !.windowMax = m]
      BY <2>1 DEF CountFast
    <3> HIDE DEF n, m
    <3> QED BY <3>1, <3>2 DEF Keeps, SameData, CopyOK, Copy, WindowAboveMin
  <2>2. CASE ~ (rate = "fast" /\ c.fast < FAST_RATE_THRESHOLD)
    BY <2>2 DEF Keeps, SameData, CountFast
  <2> QED BY <2>1, <2>2
<1>3. Keeps(c, CountSlow(c, rate))
  <2>1. CASE rate = "very slow" /\ c.fast = 0 /\ c.slow < VERY_SLOW_RATE_THRESHOLD
    <3> DEFINE n == c.slow + 1
               m == IF n = VERY_SLOW_RATE_THRESHOLD THEN WINDOW_MAX_VERY_SLOW ELSE c.windowMax
    <3>1. n \in 0 .. VERY_SLOW_RATE_THRESHOLD
      <4>1. c.slow \in 0 .. VERY_SLOW_RATE_THRESHOLD
        BY CopyFields
      <4>2. c.slow < VERY_SLOW_RATE_THRESHOLD
        BY <2>1
      <4> HIDE <2>1
      <4> QED BY <1>1, <4>1, <4>2
    <3>3. m \in Nat
      BY <1>1, CopyFields
    <3>2. CountSlow(c, rate) = [c EXCEPT !.slow = n, !.windowMax = m]
      BY <2>1 DEF CountSlow
    <3> HIDE DEF n, m
    <3> QED BY <3>1, <3>2, <3>3 DEF Keeps, SameData, CopyOK, Copy, WindowAboveMin
  <2>2. CASE ~ (rate = "very slow" /\ c.fast = 0 /\ c.slow < VERY_SLOW_RATE_THRESHOLD)
    BY <2>2 DEF Keeps, SameData, CountSlow
  <2> QED BY <2>1, <2>2
<1> QED BY <1>2, <1>3

LEMMA RefreshKeeps ==
  ASSUME NEW c \in CopyOK, NEW rate
  PROVE  Keeps(c, Refreshed(c, rate))
<1> DEFINE d == IF c.answered THEN c ELSE CountFast(c, rate)
<1>1. Keeps(c, d)
  BY CountsKeep DEF Keeps, SameData
<1>2. Refreshed(c, rate) = [d EXCEPT !.retries = MAX_RETRIES, !.answered = TRUE]
  BY DEF Refreshed
<1>3. MAX_RETRIES \in 0 .. MAX_RETRIES
  BY TransferAssumption
<1>4. d \in CopyOK /\ SameData(c, d)
  BY <1>1 DEF Keeps
<1> HIDE DEF d
<1>5. Keeps(d, [d EXCEPT !.retries = MAX_RETRIES, !.answered = TRUE])
  BY <1>3, <1>4 DEF Keeps, SameData, CopyOK, Copy, WindowAboveMin
<1> QED BY <1>1, <1>2, <1>5, KeepsKeeps

LEMMA GrowthKeeps ==
  ASSUME NEW c \in CopyOK
  PROVE  Keeps(c, Grown(c))
<1>1. WINDOW_FLEXIBILITY \in Nat \ {0} /\ WINDOW_MIN \in Nat
  BY TransferAssumption
<1>2. c.window \in Nat /\ c.windowMin \in Nat /\ c.windowMin <= c.window /\ WINDOW_MIN <= c.windowMin
  BY DEF CopyOK, Copy, WindowAboveMin
<1> DEFINE w == c.window + 1
           m == IF w - c.windowMin > WINDOW_FLEXIBILITY - 1 THEN c.windowMin + 1 ELSE c.windowMin
<1>3. w \in Nat /\ m \in Nat /\ m <= w /\ WINDOW_MIN <= m
  BY <1>1, <1>2
<1>4. Grown(c) = IF c.window < c.windowMax THEN [c EXCEPT !.window = w, !.windowMin = m] ELSE c
  BY DEF Grown
<1> HIDE DEF w, m
<1> QED BY <1>3, <1>4 DEF Keeps, SameData, CopyOK, Copy, WindowAboveMin

LEMMA AdaptedKeeps ==
  ASSUME NEW c \in CopyOK, NEW rate
  PROVE  Keeps(c, Adapted(c, rate))
<1>1. Keeps(c, Grown(c)) /\ Grown(c) \in CopyOK
  BY GrowthKeeps DEF Keeps
<1>2. Keeps(Grown(c), CountFast(Grown(c), rate)) /\ CountFast(Grown(c), rate) \in CopyOK
  BY <1>1, CountsKeep DEF Keeps
<1>3. Keeps(CountFast(Grown(c), rate), CountSlow(CountFast(Grown(c), rate), rate))
  BY <1>2, CountsKeep
<1> QED BY <1>1, <1>2, <1>3 DEF Adapted, Keeps, SameData

LEMMA ShrinkKeeps ==
  ASSUME NEW c \in CopyOK
  PROVE  Keeps(c, Shrunk(c)) /\ Shrunk(c).retries = c.retries
<1>1. WINDOW_FLEXIBILITY \in Nat \ {0} /\ WINDOW_MIN \in Nat \ {0}
  BY TransferAssumption
<1>2. c.window \in Nat /\ c.windowMin \in Nat /\ c.windowMax \in Nat
      /\ c.windowMin <= c.window /\ WINDOW_MIN <= c.windowMin
  BY DEF CopyOK, Copy, WindowAboveMin
<1>3. CASE c.window > c.windowMin
  <2> DEFINE w == c.window - 1
             top == c.windowMax - 1
             m == IF c.windowMax > c.windowMin
                  THEN IF top < w \/ top - w > WINDOW_FLEXIBILITY - 1 THEN top - 1 ELSE top
                  ELSE c.windowMax
  <2>1. w \in Nat /\ c.windowMin <= w /\ m \in Nat
    BY <1>1, <1>2, <1>3
  <2>2. Shrunk(c) = [c EXCEPT !.window = w, !.windowMax = m]
    BY <1>3 DEF Shrunk
  <2> HIDE DEF w, m, top
  <2> QED BY <1>2, <2>1, <2>2 DEF Keeps, SameData, CopyOK, Copy, WindowAboveMin
<1>4. CASE ~ (c.window > c.windowMin)
  BY <1>4 DEF Shrunk, Keeps, SameData
<1> QED BY <1>3, <1>4

LEMMA AfreshKeeps ==
  ASSUME NEW c \in CopyOK, c.retries > 0
  PROVE  Keeps(c, AsksAfresh(c))
<1>1. Keeps(c, Shrunk(c)) /\ Shrunk(c).retries = c.retries
  BY ShrinkKeeps
<1>2. c.retries \in 0 .. MAX_RETRIES /\ MAX_RETRIES \in Nat
  BY TransferAssumption DEF CopyOK, Copy
<1>3. c.retries - 1 \in 0 .. MAX_RETRIES
  BY <1>2
<1> DEFINE d == Shrunk(c)
<1>4. AsksAfresh(c) = [d EXCEPT !.retries = @ - 1, !.waiting = FALSE]
  BY DEF AsksAfresh
<1>5. d \in CopyOK /\ d.retries - 1 \in 0 .. MAX_RETRIES
  BY <1>1, <1>3 DEF Keeps
<1>6. Keeps(c, d)
  BY <1>1
<1> HIDE DEF d
<1>7. Keeps(d, [d EXCEPT !.retries = @ - 1, !.waiting = FALSE])
  BY <1>5 DEF Keeps, SameData, CopyOK, Copy, WindowAboveMin
<1> QED BY <1>4, <1>6, <1>7, KeepsKeeps

(* What is filed in a copy: where no two parts share a map hash, a         *)
(* position holds its own part or none.                                    *)
OwnParts(c) == \A p \in Positions : c.parts[p] \in {0, p}
Good == {c \in CopyOK : Injective => OwnParts(c)}

LEMMA GoodIsOK == Good \subseteq CopyOK
BY DEF Good

LEMMA KeepsGood ==
  ASSUME NEW c \in Good, NEW d, Keeps(c, d)
  PROVE  d \in Good /\ d.known = c.known
BY DEF Good, OwnParts, Keeps, SameData

LEMMA NewIsGood ==
  ASSUME hashOf \in HashMaps
  PROVE  NewCopy \in Good
<1>1. /\ WINDOW \in Nat /\ WINDOW_MIN \in Nat /\ WINDOW_MAX_SLOW \in Nat /\ WINDOW_MIN <= WINDOW
      /\ MAX_RETRIES \in 0 .. MAX_RETRIES
      /\ 0 \in 0 .. FAST_RATE_THRESHOLD /\ 0 \in 0 .. VERY_SLOW_RATE_THRESHOLD
  BY TransferAssumption
<1>2. Parts \in Nat /\ 0 \in 0 .. Parts
  BY PartsAreFinite
<1>3. Segment(0) \in SUBSET Positions
  BY DEF Segment
<1>4. NewCopy \in CopyOK
  BY <1>1, <1>2, <1>3 DEF NewCopy, CopyOK, Copy, WindowAboveMin
<1>5. \A p \in Positions : NewCopy.parts[p] = 0
  BY DEF NewCopy
<1> QED BY <1>4, <1>5 DEF Good, OwnParts

LEMMA Place ==
  ASSUME hashOf \in HashMaps, NEW c, NEW p, PlacesFor(c, p) # {}
  PROVE  Min(PlacesFor(c, p)) \in PlacesFor(c, p)
<1>1. PlacesFor(c, p) \subseteq Nat
  BY DEF PlacesFor, Missing, Positions
<1> QED BY <1>1, MinIsLeast

LEMMA FiledIsGood ==
  ASSUME hashOf \in HashMaps, NEW c \in Good, NEW p \in Positions, PlacesFor(c, p) # {}
  PROVE  Filed(c, p) \in Good /\ Filed(c, p).known = c.known
<1> DEFINE q == Min(PlacesFor(c, p))
           n == IF c.outstanding > 0 THEN c.outstanding - 1 ELSE 0
<1>0. q \in PlacesFor(c, p)
  BY Place
<1>1. q \in Positions /\ hashOf[q] = hashOf[p]
  <2> HIDE DEF q
  <2> QED BY <1>0 DEF PlacesFor, Missing
<1>2. Parts \in Nat /\ p \in 0 .. Parts
  <2>1. Parts \in Nat
    BY SomeParts
  <2> QED BY <2>1 DEF Positions
<1>3. c \in CopyOK /\ c.outstanding \in 0 .. Parts /\ c.parts \in [Positions -> 0 .. Parts]
  BY CopyFields, GoodIsOK
<1>4. n \in 0 .. Parts
  BY <1>2, <1>3
<1>5. Filed(c, p) = [c EXCEPT !.parts[q] = p, !.outstanding = n]
  BY DEF Filed
<1> HIDE DEF q, n
<1> DEFINE P == [c.parts EXCEPT ![q] = p]
<1>6. P \in [Positions -> 0 .. Parts]
  BY <1>1, <1>2, <1>3
<1>7. Filed(c, p) = [c EXCEPT !.parts = P, !.outstanding = n]
  BY <1>5
<1>8. Injective => \A r \in Positions : P[r] \in {0, r}
  <2>1. SUFFICES ASSUME Injective, NEW r \in Positions
                 PROVE  P[r] \in {0, r}
    OBVIOUS
  <2>2. q = p
    BY <1>1, <2>1 DEF Injective
  <2>3. c.parts[r] \in {0, r}
    BY <2>1 DEF Good, OwnParts
  <2> QED BY <1>3, <2>2, <2>3
<1> HIDE DEF P
<1>9. /\ [c EXCEPT !.parts = P, !.outstanding = n] \in CopyOK
      /\ [c EXCEPT !.parts = P, !.outstanding = n].known = c.known
      /\ [c EXCEPT !.parts = P, !.outstanding = n].parts = P
  BY <1>3, <1>4, <1>6 DEF CopyOK, Copy, WindowAboveMin
<1> QED BY <1>7, <1>8, <1>9 DEF Good, OwnParts

LEMMA WholeIsExact ==
  ASSUME hashOf \in HashMaps, Injective, NEW c \in Good, Received(c)
  PROVE  Exact(c)
BY DEF Good, OwnParts, Received, Missing, Exact

(* The copy that takes a part has a place for it.                          *)
LEMMA Takes ==
  ASSUME hashOf \in HashMaps, rx.copies \in Seq(Good), NEW p
  PROVE  /\ Taker(p) \in 1 .. Len(rx.copies) + 1
         /\ Taker(p) <= Len(rx.copies) => PlacesFor(rx.copies[Taker(p)], p) # {}
<1> DEFINE T == {i \in DOMAIN rx.copies : PlacesFor(rx.copies[i], p) # {}} \cup {Len(rx.copies) + 1}
<1>1. Len(rx.copies) \in Nat /\ DOMAIN rx.copies = 1 .. Len(rx.copies)
  OBVIOUS
<1>2. T \subseteq Nat /\ T # {}
  BY <1>1
<1>3. Taker(p) \in T
  BY <1>2, MinIsLeast DEF Taker
<1> QED BY <1>1, <1>3

LEMMA OfferedIsGood ==
  ASSUME hashOf \in HashMaps, rx.copies \in Seq(Good), NEW p, NEW rate
  PROVE  /\ Offered(p, rate) \in Seq(Good) /\ Len(Offered(p, rate)) = Len(rx.copies)
         /\ \A i \in 1 .. Len(rx.copies) : SameData(rx.copies[i], Offered(p, rate)[i])
<1>1. Len(rx.copies) \in Nat /\ DOMAIN rx.copies = 1 .. Len(rx.copies)
  OBVIOUS
<1>2. ASSUME NEW i \in 1 .. Len(rx.copies)
      PROVE  Offered(p, rate)[i] \in Good /\ SameData(rx.copies[i], Offered(p, rate)[i])
  <2>1. rx.copies[i] \in Good /\ rx.copies[i] \in CopyOK
    BY <1>1, GoodIsOK
  <2>2. Keeps(rx.copies[i], Refreshed(rx.copies[i], rate))
    BY <2>1, RefreshKeeps
  <2>3. Refreshed(rx.copies[i], rate) \in Good
    BY <2>1, <2>2, KeepsGood
  <2>4. Offered(p, rate)[i] = Refreshed(rx.copies[i], rate) \/ Offered(p, rate)[i] = rx.copies[i]
    BY <1>1 DEF Offered
  <2> QED BY <2>1, <2>2, <2>3, <2>4 DEF Keeps, SameData
<1>3. DOMAIN Offered(p, rate) = 1 .. Len(rx.copies)
  BY <1>1 DEF Offered
<1>4. Offered(p, rate) \in [1 .. Len(rx.copies) -> Good]
  BY <1>2, <1>1 DEF Offered
<1> QED BY <1>1, <1>2, <1>4

LEMMA MaxIsGreatest ==
  ASSUME NEW k \in Nat, NEW T, T \subseteq 0 .. k, T # {}
  PROVE  Max(T) \in T
<1> DEFINE D == {k - x : x \in T}
<1>1. D \subseteq Nat /\ D # {}
  <2>1. ASSUME NEW x \in T PROVE k - x \in Nat
    <3>1. x \in 0 .. k
      OBVIOUS
    <3> QED BY <3>1
  <2>2. PICK x : x \in T
    OBVIOUS
  <2>3. k - x \in D
    BY <2>2
  <2> QED BY <2>1, <2>3
<1>2. PICK d \in D : \A y \in D : d <= y
  BY <1>1, Least
<1>3. PICK x \in T : d = k - x
  OBVIOUS
<1>4. ASSUME NEW y \in T PROVE x >= y
  <2>1. k - x <= k - y
    BY <1>2, <1>3
  <2>2. x \in 0 .. k /\ y \in 0 .. k
    OBVIOUS
  <2> HIDE DEF D
  <2>3. x \in Nat /\ y \in Nat
    BY <2>2
  <2> QED BY <2>1, <2>3
<1> QED BY <1>4 DEF Max

LEMMA FiniteValues ==
  ASSUME NEW f, IsFiniteSet(DOMAIN f)
  PROVE  IsFiniteSet({f[x] : x \in DOMAIN f})
<1> DEFINE T == {f[x] : x \in DOMAIN f}
           g == [x \in DOMAIN f |-> f[x]]
<1>1. g \in Surjection(DOMAIN f, T)
  BY DEF Surjection
<1> QED BY <1>1, FS_Surjection

-----------------------------------------------------------------------------
(* What a step puts on the network.                                        *)
Adds(S) == DOMAIN net' \subseteq DOMAIN net \cup S

LEMMA Delivered ==
  ASSUME NEW m, NEW sent, Exchange(m, sent)
  PROVE  Adds(DOMAIN sent)
<1>1. DOMAIN net' = DOMAIN (net (-) One(m)) \cup DOMAIN sent
  BY BagsHold DEF Exchange
<1> QED BY <1>1, BagsHold DEF Adds

LEMMA BothDelivered ==
  ASSUME NEW m, NEW A, NEW B, Exchange(m, A (+) B)
  PROVE  Adds(DOMAIN A \cup DOMAIN B)
<1>1. DOMAIN (A (+) B) = DOMAIN A \cup DOMAIN B
  BY BagsHold
<1>2. Adds(DOMAIN (A (+) B))
  BY Delivered
<1> QED BY <1>1, <1>2 DEF Adds

LEMMA Emitted ==
  ASSUME NEW sent, Emit(sent)
  PROVE  Adds(DOMAIN sent)
<1>1. DOMAIN net' = DOMAIN net \cup DOMAIN sent
  BY BagsHold DEF Emit
<1> QED BY <1>1 DEF Adds

LEMMA TypedMessages ==
  /\ Adv \in Message /\ Icl \in Message /\ Prf \in Message
  /\ \A p \in Positions : Part(p) \in Message
  /\ \A s \in Nat : Hmu(s) \in Message
  /\ \A end \in {"tx", "rx"} : Close(end) \in Message
  /\ \A i \in Nat, w \in SUBSET Positions, l \in Positions \cup {0} : Req(i, w, l) \in Message
<1>1. Adv \in Message /\ Icl \in Message
  BY DEF Adv, Icl, Message
<1>2. Prf \in Message
  BY DEF Prf, Message
<1>3. ASSUME NEW p \in Positions PROVE Part(p) \in Message
  BY DEF Part, Message
<1>4. ASSUME NEW s \in Nat PROVE Hmu(s) \in Message
  BY DEF Hmu, Message
<1>5. ASSUME NEW end \in {"tx", "rx"} PROVE Close(end) \in Message
  BY DEF Close, Message
<1>6. ASSUME NEW i \in Nat, NEW w \in SUBSET Positions, NEW l \in Positions \cup {0}
      PROVE  Req(i, w, l) \in Message
  BY DEF Req, Message
<1> QED BY <1>1, <1>2, <1>3, <1>4, <1>5, <1>6

LEMMA MessageFields ==
  ASSUME NEW m \in Message
  PROVE  /\ m.type = "PART" => m.part \in Positions
         /\ m.type = "HMU" => m.segment \in Nat
         /\ m.type = "REQ" => m.id \in Nat /\ m.wanted \in SUBSET Positions
                              /\ m.last \in Positions \cup {0}
         /\ m.type = "LINKCLOSE" => m.to \in {"tx", "rx"}
BY DEF Message

(* Where a part is sent from, and what answers a request.                  *)
LEMMA FirstIsFirst ==
  ASSUME hashOf \in HashMaps, NEW p \in Positions
  PROVE  FirstWith(p) \in Positions /\ (Injective => FirstWith(p) = p)
<1> DEFINE T == {q \in Positions : hashOf[q] = hashOf[p]}
<1>1. T \subseteq Nat /\ T # {} /\ p \in Nat
  BY DEF Positions
<1>2. FirstWith(p) \in T
  BY <1>1, MinIsLeast DEF FirstWith
<1> QED BY <1>2 DEF Injective

LEMMA PartsAnswer ==
  ASSUME hashOf \in HashMaps, NEW w \in SUBSET Positions
  PROVE  /\ IsFiniteSet(DOMAIN PartsFor(w))
         /\ \A m \in DOMAIN PartsFor(w) : m \in Message /\ m.type = "PART"
<1>1. DOMAIN PartsFor(w) = {Part(FirstWith(p)) : p \in w}
  BY DEF PartsFor
<1>2. IsFiniteSet({Part(FirstWith(p)) : p \in w})
  <2> DEFINE f == [p \in w |-> Part(FirstWith(p))]
  <2>1. IsFiniteSet(DOMAIN f)
    BY PartsAreFinite
  <2>2. {f[p] : p \in DOMAIN f} = {Part(FirstWith(p)) : p \in w}
    OBVIOUS
  <2> HIDE DEF f
  <2> QED BY <2>1, <2>2, FiniteValues
<1>3. ASSUME NEW p \in w PROVE Part(FirstWith(p)) \in Message /\ Part(FirstWith(p)).type = "PART"
  <2>1. Part(FirstWith(p)) \in Message
    BY FirstIsFirst, TypedMessages
  <2> QED BY <2>1 DEF Part
<1> QED BY <1>1, <1>2, <1>3

LEMMA FreshIsNumber ==
  ASSUME IsFiniteSet(DOMAIN net), tx.seen \in Seq(Nat)
  PROVE  FreshId \in Nat
<1> DEFINE Q == {q \in DOMAIN net : q.type = "REQ"}
           A == {m.id : m \in Q}
           B == {tx.seen[i] : i \in DOMAIN tx.seen}
<1>1. IsFiniteSet(Q)
  BY FS_Subset
<1>2. IsFiniteSet(A)
  <2> HIDE DEF Q
  <2> DEFINE f == [m \in Q |-> m.id]
  <2>1. IsFiniteSet(DOMAIN f)
    BY <1>1
  <2>2. {f[m] : m \in DOMAIN f} = A
    OBVIOUS
  <2> HIDE DEF f
  <2> QED BY <2>1, <2>2, FiniteValues
<1>3. IsFiniteSet(B)
  <2>1. DOMAIN tx.seen = 1 .. Len(tx.seen) /\ Len(tx.seen) \in Nat
    OBVIOUS
  <2>2. IsFiniteSet(1 .. Len(tx.seen))
    BY <2>1, FS_Interval
  <2>3. IsFiniteSet(DOMAIN tx.seen)
    BY <2>1, <2>2
  <2> QED BY <2>3, FiniteValues
<1>4. IdsInUse = A \cup B
  BY DEF IdsInUse
<1>5. IsFiniteSet(IdsInUse)
  <2> HIDE DEF A, B
  <2> QED BY <1>2, <1>3, <1>4, FS_Union
<1> DEFINE T == 1 .. Cardinality(IdsInUse) + 1 \ IdsInUse
<1>6. T # {} /\ T \subseteq Nat
  BY <1>5, SomeUnused, FS_CardinalityType
<1>7. Min(T) \in T
  BY <1>6, MinIsLeast
<1>8. FreshId = Min(T)
  BY DEF FreshId
<1> QED BY <1>6, <1>7, <1>8

(* A request comes of a copy: it names the end of the hashes known only if *)
(* some are not.                                                           *)
LEMMA Asked ==
  ASSUME hashOf \in HashMaps, IsFiniteSet(DOMAIN net), tx.seen \in Seq(Nat), NEW c \in Good
  PROVE  /\ IsFiniteSet(DOMAIN Question(c))
         /\ \A m \in DOMAIN Question(c) :
              /\ m \in Message /\ m.type = "REQ"
              /\ m.last # 0 => m.last = Height(c) /\ ~(Positions \subseteq c.known)
<1> DEFINE l == IF Exhausted(c) THEN Height(c) ELSE 0
           r == Req(FreshId, Wanted(c), l)
<1>1. DOMAIN Question(c) \subseteq {r}
  <2>1. Question(c) = IF Asking(c) THEN One(r) ELSE Nothing
    BY DEF Question
  <2> HIDE DEF r
  <2>2. DOMAIN One(r) = {r} /\ DOMAIN Nothing = {}
    BY BagsHold
  <2>3. DOMAIN Question(c) = DOMAIN One(r) \/ DOMAIN Question(c) = DOMAIN Nothing
    BY <2>1
  <2> QED BY <2>2, <2>3
<1>2. IsFiniteSet({r})
  BY FS_Singleton
<1>3. Wanted(c) \in SUBSET Positions
  BY DEF Wanted, InWindow, Missing
<1>4. l \in Positions \cup {0}
  <2>1. Parts \in Nat
    BY SomeParts
  <2>2. c.known \in SUBSET Positions
    BY CopyFields, GoodIsOK
  <2>3. c.known \cup {0} \subseteq 0 .. Parts
    BY <2>1, <2>2 DEF Positions
  <2>4. Max(c.known \cup {0}) \in c.known \cup {0}
    BY <2>1, <2>3, MaxIsGreatest
  <2>5. Height(c) \in Positions \cup {0}
    BY <2>2, <2>4 DEF Height
  <2> QED BY <2>5
<1>5. Exhausted(c) => ~(Positions \subseteq c.known)
  BY DEF Exhausted, Unknown, InWindow, Missing
<1>6. r \in Message
  <2> HIDE DEF l
  <2> QED BY <1>3, <1>4, FreshIsNumber, TypedMessages
<1>7. r.type = "REQ" /\ r.last = l
  BY DEF Req
<1>8. l # 0 => l = Height(c) /\ ~(Positions \subseteq c.known)
  BY <1>5
<1> HIDE DEF l, r
<1> QED BY <1>1, <1>2, <1>6, <1>7, <1>8, FS_Subset

-----------------------------------------------------------------------------
(* The inductive invariant.                                                *)

Sender ==
  [status : Status, retries : Nat, sent : SUBSET Positions, seen : Seq(Nat),
   held : BOOLEAN, busy : BOOLEAN, told : Seq({"COMPLETE", "FAILED"})]
Receiver ==
  [copies : Seq(Good), busy : BOOLEAN, pending : BOOLEAN, done : Nat, failed : Nat]
History ==
  [{"accepted", "completed", "corrupt", "proofsLost", "early", "outOfSequence"} -> Nat]

Typed ==
  /\ kind \in Kinds /\ hashOf \in HashMaps
  /\ tx \in Sender /\ rx \in Receiver
  /\ link \in [{"tx", "rx"} -> {"ACTIVE", "CLOSED"}]
  /\ DOMAIN net \subseteq Message /\ IsFiniteSet(DOMAIN net)
  /\ budget \in 0 .. MaxMishaps
  /\ history \in History

(* The link holds what has not ended, and until the sender starts there is *)
(* nothing; a proof is of data that was assembled.                         *)
Held ==
  /\ tx.held => tx.status \in {"ADVERTISED", "TRANSFERRING", "AWAITING_PROOF", "FAILED"}
  /\ tx.status = "NONE" => /\ rx.copies = <<>>
                           /\ \A m \in DOMAIN net : m.type = "LINKCLOSE"
  /\ \A m \in DOMAIN net : m.type = "PRF" => history.completed > 0

(* EveryResourceIsReported, and a closed link has no copies.               *)
Reported ==
  /\ EveryResourceIsReported
  /\ ~Up("rx") => rx.copies = <<>>

(* The hashes known to a copy are the first ones, up to the end of a       *)
(* segment or of the resource, and what is under way does not reach        *)
(* beyond them.                                                            *)
Aligned(c) ==
  /\ c.known = 1 .. Height(c)
  /\ Height(c) = Parts \/ Height(c) % HASHMAP_MAX_LEN = 0
Within(m, c) ==
  /\ m.type = "REQ" => m.last <= Height(c)
  /\ m.type = "HMU" => m.segment * HASHMAP_MAX_LEN <= Height(c)

(* A resource that was accepted once, or not yet.                          *)
OneCopy ==
  /\ history.outOfSequence = 0
  /\ Len(rx.copies) <= history.accepted
  /\ history.accepted = 0 => \A m \in DOMAIN net : m.type \notin {"REQ", "HMU"}
  /\ \A m \in DOMAIN net : m.type = "REQ" => m.last % HASHMAP_MAX_LEN = 0
  /\ \A i \in 1 .. Len(rx.copies) :
       /\ Aligned(rx.copies[i])
       /\ \A m \in DOMAIN net : Within(m, rx.copies[i])
Ordered ==
  Injective => /\ history.corrupt = 0
               /\ history.accepted <= 1 => OneCopy

IInv == Typed /\ Held /\ Reported /\ Ordered

-----------------------------------------------------------------------------
(* The segments of the hashmap.                                            *)
LEMMA HeightOfFirst ==
  ASSUME NEW c, NEW k \in Nat, c.known = 1 .. k
  PROVE  Height(c) = k
BY MaxOfFirst DEF Height

LEMMA SameHeight ==
  ASSUME NEW c, NEW d, d.known = c.known
  PROVE  Height(d) = Height(c) /\ (Aligned(c) => Aligned(d))
BY DEF Height, Aligned

(* A multiple that lies in a segment is where it begins.                   *)
LEMMA BeginsSegment ==
  ASSUME NEW h \in Nat \ {0}, NEW s \in Nat, NEW k \in Nat,
         k % h = 0, s * h <= k, k < (s + 1) * h
  PROVE  k = s * h
<1>1. k = h * (k \div h) + (k % h) /\ k \div h \in Nat
  OBVIOUS
<1> DEFINE q == k \div h
<1>2. q \in Nat /\ k = h * q
  BY <1>1
<1> HIDE DEF q
<1>3. (s + 1) * h = s * h + h /\ s * h \in Nat
  OBVIOUS
<1>4. CASE q < s
  <2>1. PICK j \in Nat : s = q + 1 + j
    <3>1. s - (q + 1) \in Nat /\ s = q + 1 + (s - (q + 1))
      BY <1>2, <1>4
    <3> QED BY <3>1
  <2>2. s * h = q * h + h + j * h /\ j * h \in Nat
    BY <1>2, <2>1
  <2> QED BY <1>2, <1>3, <2>2
<1>5. CASE q > s
  <2>1. PICK j \in Nat : q = s + 1 + j
    <3>1. q - (s + 1) \in Nat /\ q = s + 1 + (q - (s + 1))
      BY <1>2, <1>5
    <3> QED BY <3>1
  <2>2. q * h = s * h + h + j * h /\ j * h \in Nat
    BY <1>2, <2>1
  <2> QED BY <1>2, <1>3, <2>2
<1> QED BY <1>2, <1>4, <1>5

(* The first segment, and one more where the hashes known reach, are the   *)
(* hashes up to some position.                                             *)
LEMMA SegmentExtends ==
  ASSUME hashOf \in HashMaps, NEW k \in Nat, k <= Parts, NEW s \in Nat,
         k = Parts \/ k % HASHMAP_MAX_LEN = 0, s * HASHMAP_MAX_LEN <= k
  PROVE  \E j \in Nat : /\ (1 .. k) \cup Segment(s) = 1 .. j
                        /\ k <= j /\ j <= Parts
                        /\ j = Parts \/ j % HASHMAP_MAX_LEN = 0
<1>1. Parts \in Nat /\ HASHMAP_MAX_LEN \in Nat \ {0}
  BY SomeParts, TransferAssumption
<1> DEFINE b == s * HASHMAP_MAX_LEN
           e == (s + 1) * HASHMAP_MAX_LEN
<1>2. b \in Nat /\ e \in Nat /\ e = b + HASHMAP_MAX_LEN /\ e % HASHMAP_MAX_LEN = 0
  BY <1>1, Multiples
<1>3. Segment(s) = {p \in 1 .. Parts : b < p /\ p <= e}
  BY DEF Segment, Positions
<1>4. b <= k
  OBVIOUS
<1>5. k < e => k = Parts \/ k = b
  BY <1>1, BeginsSegment
<1> HIDE DEF b, e
<1>6. CASE k >= e \/ k = Parts
  <2>1. (1 .. k) \cup Segment(s) = 1 .. k
    BY <1>1, <1>2, <1>3, <1>6
  <2> QED BY <1>1, <2>1
<1>7. CASE k = b /\ e <= Parts
  <2>1. (1 .. k) \cup Segment(s) = 1 .. e
    BY <1>1, <1>2, <1>3, <1>7
  <2> QED BY <1>1, <1>2, <1>7, <2>1
<1>8. CASE k = b /\ e > Parts
  <2>1. (1 .. k) \cup Segment(s) = 1 .. Parts
    BY <1>1, <1>2, <1>3, <1>8
  <2> QED BY <1>1, <2>1
<1> QED BY <1>1, <1>2, <1>5, <1>6, <1>7, <1>8

LEMMA NewIsAligned ==
  ASSUME hashOf \in HashMaps, NEW c, c.known = NewCopy.known
  PROVE  Aligned(c)
<1>1. HASHMAP_MAX_LEN \in Nat \ {0} /\ Parts \in Nat
  BY SomeParts, TransferAssumption
<1>2. 0 * HASHMAP_MAX_LEN <= 0 /\ 0 % HASHMAP_MAX_LEN = 0 /\ 0 <= Parts
  BY <1>1
<1>3. \E j \in Nat : /\ (1 .. 0) \cup Segment(0) = 1 .. j
                     /\ 0 <= j /\ j <= Parts
                     /\ j = Parts \/ j % HASHMAP_MAX_LEN = 0
  <2> DEFINE z == 0
  <2>1. z \in Nat /\ z <= Parts /\ z * HASHMAP_MAX_LEN <= z /\ z % HASHMAP_MAX_LEN = 0
    BY <1>2
  <2> HIDE DEF z
  <2>2. \E j \in Nat : /\ (1 .. z) \cup Segment(z) = 1 .. j
                       /\ z <= j /\ j <= Parts
                       /\ j = Parts \/ j % HASHMAP_MAX_LEN = 0
    BY <2>1, SegmentExtends
  <2> QED BY <2>2 DEF z
<1>4. PICK j \in Nat : c.known = 1 .. j /\ (j = Parts \/ j % HASHMAP_MAX_LEN = 0)
  <2>1. 1 .. 0 = {}
    OBVIOUS
  <2> QED BY <1>3, <2>1 DEF NewCopy
<1> QED BY <1>4, HeightOfFirst DEF Aligned

LEMMA StaysAligned ==
  ASSUME hashOf \in HashMaps, NEW c \in Good, NEW s \in Nat, NEW d,
         Aligned(c), s * HASHMAP_MAX_LEN <= Height(c), d.known = c.known \cup Segment(s)
  PROVE  Aligned(d) /\ Height(c) \in Nat /\ Height(d) \in Nat /\ Height(c) <= Height(d)
<1>1. Parts \in Nat
  BY SomeParts
<1>2. c.known \in SUBSET Positions
  BY CopyFields, GoodIsOK
<1>3. Height(c) \in Nat /\ Height(c) <= Parts
  <2>1. c.known \cup {0} \subseteq 0 .. Parts
    BY <1>1, <1>2 DEF Positions
  <2>2. Height(c) \in c.known \cup {0}
    BY <1>1, <2>1, MaxIsGreatest DEF Height
  <2>3. Height(c) \in 0 .. Parts
    BY <2>1, <2>2
  <2> QED BY <1>1, <2>3
<1>4. c.known = 1 .. Height(c) /\ (Height(c) = Parts \/ Height(c) % HASHMAP_MAX_LEN = 0)
  BY DEF Aligned
<1> DEFINE k == Height(c)
<1>5. k \in Nat /\ k <= Parts /\ (k = Parts \/ k % HASHMAP_MAX_LEN = 0) /\ s * HASHMAP_MAX_LEN <= k
  BY <1>3, <1>4
<1>6. d.known = (1 .. k) \cup Segment(s)
  BY <1>4
<1> HIDE DEF k
<1>7. PICK j \in Nat : /\ (1 .. k) \cup Segment(s) = 1 .. j
                       /\ k <= j /\ (j = Parts \/ j % HASHMAP_MAX_LEN = 0)
  BY <1>5, SegmentExtends
<1>8. Height(d) = j
  BY <1>6, <1>7, HeightOfFirst
<1>9. Aligned(d)
  BY <1>6, <1>7, <1>8 DEF Aligned
<1> QED BY <1>3, <1>7, <1>8, <1>9 DEF k

(* Where some hash is not known, the hashes known end with a segment.      *)
LEMMA EndsSegment ==
  ASSUME NEW c, Aligned(c), ~(Positions \subseteq c.known)
  PROVE  Height(c) % HASHMAP_MAX_LEN = 0
BY DEF Aligned, Positions

-----------------------------------------------------------------------------
(* What every step keeps.                                                  *)
NetOK == IsFiniteSet(DOMAIN net') /\ DOMAIN net' \subseteq Message

LEMMA Puts ==
  ASSUME Typed, NEW S, IsFiniteSet(S), S \subseteq Message, Adds(S)
  PROVE  NetOK /\ \A m \in DOMAIN net' : m \in DOMAIN net \/ m \in S
<1>1. IsFiniteSet(DOMAIN net \cup S)
  BY FS_Union DEF Typed
<1> QED BY <1>1, FS_Subset DEF Adds, Typed, NetOK

LEMMA PutsNothing ==
  ASSUME Typed, UNCHANGED net
  PROVE  NetOK /\ \A m \in DOMAIN net' : m \in DOMAIN net
BY DEF Typed, NetOK

LEMMA PutsOne ==
  ASSUME Typed, NEW m \in Message, Adds(DOMAIN One(m))
  PROVE  NetOK /\ \A x \in DOMAIN net' : x \in DOMAIN net \/ x = m
<1>1. IsFiniteSet({m}) /\ {m} \subseteq Message
  BY FS_Singleton
<1>2. Adds({m})
  <2>1. DOMAIN One(m) = {m}
    BY BagsHold
  <2> QED BY <2>1 DEF Adds
<1>3. NetOK /\ \A x \in DOMAIN net' : x \in DOMAIN net \/ x \in {m}
  BY <1>1, <1>2, Puts
<1> QED BY <1>3

LEMMA TakesOnly ==
  ASSUME Typed, NEW m, Exchange(m, Nothing)
  PROVE  NetOK /\ \A x \in DOMAIN net' : x \in DOMAIN net
<1>1. Adds({})
  <2>1. DOMAIN Nothing = {}
    BY BagsHold
  <2>2. Adds(DOMAIN Nothing)
    BY Delivered
  <2> QED BY <2>1, <2>2 DEF Adds
<1>2. NetOK /\ \A x \in DOMAIN net' : x \in DOMAIN net \/ x \in {}
  BY <1>1, FS_EmptySet, Puts
<1> QED BY <1>2

LEMMA CountsOne ==
  ASSUME history \in History, NEW f \in {"accepted", "completed", "corrupt", "proofsLost",
                                         "early", "outOfSequence"},
         Remember(f)
  PROVE  /\ history' \in History /\ history'[f] = history[f] + 1
         /\ \A g \in {"accepted", "completed", "corrupt", "proofsLost", "early",
                      "outOfSequence"} \ {f} : history'[g] = history[g]
<1>1. history[f] + 1 \in Nat
  BY DEF History
<1> QED BY <1>1 DEF Remember, History

(* A mishap may be spent, and counted; what the transfers have come to is  *)
(* not touched.                                                            *)
Quietly ==
  /\ budget' \in 0 .. MaxMishaps /\ history' \in History
  /\ \A f \in {"accepted", "completed", "corrupt", "outOfSequence"} : history'[f] = history[f]

LEMMA Unspent ==
  ASSUME Typed, UNCHANGED <<budget, history>>
  PROVE  Quietly
BY DEF Typed, Quietly

LEMMA Spent ==
  ASSUME Typed, NEW mishap, Spend(mishap),
         UNCHANGED history \/ Remember("early") \/ Remember("proofsLost")
  PROVE  Quietly
<1>1. budget' \in 0 .. MaxMishaps
  <2>1. budget \in 0 .. MaxMishaps /\ MaxMishaps \in Nat /\ budget > 0 /\ budget' = budget - 1
    BY TransferAssumption DEF Typed, Spend
  <2> QED BY <2>1
<1>2. CASE UNCHANGED history
  BY <1>1, <1>2 DEF Typed, Quietly
<1>3. CASE Remember("early")
  BY <1>1, <1>3, CountsOne DEF Typed, Quietly
<1>4. CASE Remember("proofsLost")
  BY <1>1, <1>4, CountsOne DEF Typed, Quietly
<1> QED BY <1>2, <1>3, <1>4

LEMMA Fell ==
  ASSUME Typed, NEW due \in BOOLEAN, Falls(due)
  PROVE  Quietly
<1>1. CASE UNCHANGED <<budget, history>>
  BY <1>1, Unspent
<1>2. CASE Spend("early") /\ Remember("early")
  BY <1>2, Spent
<1> QED BY <1>1, <1>2 DEF Falls

LEMMA SenderFields ==
  ASSUME tx \in Sender
  PROVE  /\ tx.status \in Status /\ tx.retries \in Nat /\ tx.sent \in SUBSET Positions
         /\ tx.seen \in Seq(Nat) /\ tx.held \in BOOLEAN /\ tx.busy \in BOOLEAN
         /\ tx.told \in Seq({"COMPLETE", "FAILED"})
BY DEF Sender

LEMMA ToldIs ==
  ASSUME NEW t \in Sender, NEW status \in {"COMPLETE", "FAILED"}
  PROVE  /\ Told(t, status) \in Sender /\ Told(t, status).status = status
         /\ Told(t, status).held = FALSE
<1> DEFINE told == IF kind = "app" /\ t.busy THEN Append(t.told, status) ELSE t.told
<1>1. told \in Seq({"COMPLETE", "FAILED"})
  <2>1. t.told \in Seq({"COMPLETE", "FAILED"})
    BY DEF Sender
  <2> QED BY <2>1
<1>2. Told(t, status) = [t EXCEPT !.status = status, !.held = FALSE, !.busy = FALSE, !.told = told]
  BY DEF Told
<1>3. status \in Status
  BY DEF Status
<1> HIDE DEF told
<1> QED BY <1>1, <1>2, <1>3 DEF Sender

LEMMA NotedIs ==
  ASSUME NEW seen \in Seq(Nat), NEW id \in Nat
  PROVE  Noted(seen, id) \in Seq(Nat)
<1>1. REQ_HASHLIST_MAX \in Nat \ {0}
  BY TransferAssumption
<1>2. CASE Len(seen) >= REQ_HASHLIST_MAX
  <2>1. seen # <<>>
    BY <1>1, <1>2
  <2>2. Tail(seen) \in Seq(Nat)
    BY <2>1
  <2>3. Append(Tail(seen), id) \in Seq(Nat)
    BY <2>2
  <2> QED BY <1>2, <2>3 DEF Noted
<1>3. CASE ~ (Len(seen) >= REQ_HASHLIST_MAX)
  BY <1>3 DEF Noted
<1> QED BY <1>2, <1>3

-----------------------------------------------------------------------------
(* The steps of the sender.                                                *)
Holds(t) == /\ t \in Sender /\ t.status # "NONE"
            /\ t.held => t.status \in {"ADVERTISED", "TRANSFERRING", "AWAITING_PROOF", "FAILED"}

(* A hashmap segment that a request under way asks for; a request whose    *)
(* hashes end within a segment.                                            *)
Fitted(m) ==
  \E r \in DOMAIN net : /\ r.type = "REQ" /\ r.last # 0
                        /\ m.segment = FirstWith(r.last) \div HASHMAP_MAX_LEN
Misfit == \E r \in DOMAIN net : r.type = "REQ" /\ ~InSequence(r)

SenderStep ==
  /\ UNCHANGED <<kind, hashOf, rx, link>>
  /\ Holds(tx') /\ NetOK
  /\ \A m \in DOMAIN net' : \/ m \in DOMAIN net \/ m.type \in {"ADV", "PART", "ICL"}
                            \/ m.type = "HMU" /\ Fitted(m)
  /\ budget' \in 0 .. MaxMishaps /\ history' \in History
  /\ \A f \in {"accepted", "completed", "corrupt"} : history'[f] = history[f]
  /\ history'.outOfSequence = history.outOfSequence \/ Misfit

LEMMA HeldHolds ==
  ASSUME Typed, Held, tx.status # "NONE"
  PROVE  Holds(tx)
BY DEF Typed, Held, Holds

LEMMA ToldHolds ==
  ASSUME NEW t \in Sender, NEW status \in {"COMPLETE", "FAILED"}
  PROVE  Holds(Told(t, status))
<1>1. Told(t, status) \in Sender /\ Told(t, status).status = status /\ Told(t, status).held = FALSE
  BY ToldIs
<1> QED BY <1>1 DEF Holds

LEMMA Started ==
  ASSUME Typed, init_outbound
  PROVE  SenderStep
<1> DEFINE b == kind = "app"
<1>1. tx \in Sender /\ MAX_ADV_RETRIES \in Nat /\ b \in BOOLEAN
  BY TransferAssumption DEF Typed
<1>2. tx' = [tx EXCEPT !.status = "ADVERTISED", !.retries = MAX_ADV_RETRIES,
                       !.held = TRUE, !.busy = b]
  BY DEF init_outbound
<1>3. Holds(tx')
  <2> HIDE DEF b
  <2> QED BY <1>1, <1>2 DEF Holds, Sender, Status
<1>4. NetOK /\ \A m \in DOMAIN net' : m \in DOMAIN net \/ m = Adv
  <2>1. Adds(DOMAIN One(Adv))
    BY Emitted DEF init_outbound
  <2> QED BY <2>1, PutsOne, TypedMessages
<1>5. Quietly
  BY Unspent DEF init_outbound
<1>6. Adv.type = "ADV"
  BY DEF Adv
<1>7. UNCHANGED <<kind, hashOf, rx, link>>
  BY DEF init_outbound
<1> QED BY <1>3, <1>4, <1>5, <1>6, <1>7 DEF SenderStep, Quietly

(* What a request asks for is sent, and is within the resource.            *)
LEMMA SentIsTyped ==
  ASSUME Typed, NEW m \in DOMAIN net, m.type = "REQ"
  PROVE  /\ m \in Message /\ m.id \in Nat /\ m.wanted \in SUBSET Positions
         /\ m.last \in Positions \cup {0}
         /\ tx.sent \cup {FirstWith(p) : p \in m.wanted} \in SUBSET Positions
         /\ Noted(tx.seen, m.id) \in Seq(Nat)
<1>1. m \in Message
  BY DEF Typed
<1>2. m.id \in Nat /\ m.wanted \in SUBSET Positions /\ m.last \in Positions \cup {0}
  BY <1>1, MessageFields
<1>3. tx.sent \in SUBSET Positions /\ tx.seen \in Seq(Nat)
  BY SenderFields DEF Typed
<1>4. \A p \in m.wanted : FirstWith(p) \in Positions
  BY <1>2, FirstIsFirst DEF Typed
<1> QED BY <1>1, <1>2, <1>3, <1>4, NotedIs

LEMMA Requested ==
  ASSUME Typed, Held, NEW m \in DOMAIN net, request(m)
  PROVE  SenderStep
<1>1. m.type = "REQ" /\ tx \in Sender /\ MAX_RETRIES \in Nat /\ PROOF_RETRIES \in Nat
  BY TransferAssumption DEF Typed, request, Answers
<1> DEFINE sent == tx.sent \cup {FirstWith(p) : p \in m.wanted}
           all == sent = Positions
           seen == Noted(tx.seen, m.id)
           status == IF all THEN "AWAITING_PROOF" ELSE "TRANSFERRING"
           retries == IF all THEN PROOF_RETRIES ELSE MAX_RETRIES
           segment == FirstWith(m.last) \div HASHMAP_MAX_LEN
           hmu == IF m.last = 0 THEN Nothing ELSE One(Hmu(segment))
<1>2. sent \in SUBSET Positions /\ seen \in Seq(Nat)
  BY <1>1, SentIsTyped
<1>3. Holds(tx')
  <2>1. tx' = [tx EXCEPT !.seen = seen, !.sent = sent, !.status = status, !.retries = retries]
    BY DEF request
  <2>2. status \in {"AWAITING_PROOF", "TRANSFERRING"} /\ retries \in Nat
    BY <1>1
  <2> HIDE DEF sent, seen, status, retries
  <2> QED BY <1>1, <1>2, <2>1, <2>2 DEF Holds, Sender, Status
<1>4. /\ IsFiniteSet(DOMAIN PartsFor(m.wanted))
      /\ \A x \in DOMAIN PartsFor(m.wanted) : x \in Message /\ x.type = "PART"
  BY <1>1, SentIsTyped, PartsAnswer DEF Typed
<1>5. IsFiniteSet(DOMAIN hmu) /\ \A x \in DOMAIN hmu : x \in Message /\ x.type = "HMU" /\ Fitted(x)
  <2>1. CASE m.last = 0
    <3>1. DOMAIN hmu = {}
      BY <2>1, BagsHold
    <3> QED BY <3>1, FS_EmptySet
  <2>2. CASE m.last # 0
    <3>1. DOMAIN hmu = {Hmu(segment)}
      BY <2>2, BagsHold
    <3>2. m.last \in Positions
      BY <1>1, <2>2, SentIsTyped
    <3>3. FirstWith(m.last) \in Nat /\ HASHMAP_MAX_LEN \in Nat \ {0}
      <4>1. hashOf \in HashMaps
        BY DEF Typed
      <4>2. FirstWith(m.last) \in Positions
        BY <3>2, <4>1, FirstIsFirst
      <4> QED BY <4>2, TransferAssumption DEF Positions
    <3>4. segment \in Nat
      <4> DEFINE f == FirstWith(m.last)
      <4>1. f \in Nat
        BY <3>3
      <4> HIDE DEF f
      <4>2. f \div HASHMAP_MAX_LEN \in Nat
        BY <3>3, <4>1
      <4> QED BY <4>2 DEF f
    <3> HIDE DEF hmu
    <3>5. Hmu(segment) \in Message /\ Hmu(segment).type = "HMU" /\ Hmu(segment).segment = segment
      BY <3>4, TypedMessages DEF Hmu
    <3>6. Fitted(Hmu(segment))
      BY <1>1, <2>2, <3>5 DEF Fitted
    <3> QED BY <3>1, <3>5, <3>6, FS_Singleton
  <2> QED BY <2>1, <2>2
<1>6. Adds(DOMAIN PartsFor(m.wanted) \cup DOMAIN hmu)
  <2>1. Exchange(m, PartsFor(m.wanted) (+) hmu)
    BY DEF request
  <2> HIDE DEF hmu
  <2> QED BY <2>1, BothDelivered
<1> HIDE DEF hmu
<1>7. /\ NetOK
      /\ \A x \in DOMAIN net' : x \in DOMAIN net \/ x.type = "PART" \/ (x.type = "HMU" /\ Fitted(x))
  <2> DEFINE S == DOMAIN PartsFor(m.wanted) \cup DOMAIN hmu
  <2>1. IsFiniteSet(S) /\ S \subseteq Message
    BY <1>4, <1>5, FS_Union
  <2>2. NetOK /\ \A x \in DOMAIN net' : x \in DOMAIN net \/ x \in S
    <3> HIDE DEF S
    <3>1. Adds(S)
      BY <1>6 DEF S
    <3> QED BY <2>1, <3>1, Puts
  <2> QED BY <1>4, <1>5, <2>2
<1>8. Quietly /\ UNCHANGED <<kind, hashOf, rx, link>>
  BY Unspent DEF request
<1> QED BY <1>3, <1>7, <1>8 DEF SenderStep, Quietly

LEMMA RequestedOutOfSequence ==
  ASSUME Typed, NEW m \in DOMAIN net, requestOutOfSequence(m)
  PROVE  SenderStep
<1>1. m.type = "REQ" /\ tx \in Sender /\ MAX_RETRIES \in Nat
  BY TransferAssumption DEF Typed, requestOutOfSequence, Answers
<1> DEFINE sent == tx.sent \cup {FirstWith(p) : p \in m.wanted}
           seen == Noted(tx.seen, m.id)
           noted == [tx EXCEPT !.seen = seen, !.sent = sent, !.retries = MAX_RETRIES]
<1>2. sent \in SUBSET Positions /\ seen \in Seq(Nat)
  BY <1>1, SentIsTyped
<1>3. tx' = [Told(noted, "FAILED") EXCEPT !.held = TRUE]
  BY DEF requestOutOfSequence
<1>4. noted \in Sender
  <2> HIDE DEF sent, seen
  <2> QED BY <1>1, <1>2 DEF Sender
<1>5. Holds(tx')
  <2> HIDE DEF noted
  <2> DEFINE t == Told(noted, "FAILED")
  <2>1. t \in Sender /\ t.status = "FAILED"
    BY <1>4, ToldIs
  <2>2. tx' = [t EXCEPT !.held = TRUE]
    BY <1>3
  <2> HIDE DEF t
  <2> QED BY <2>1, <2>2 DEF Holds, Sender, Status
<1>6. /\ IsFiniteSet(DOMAIN PartsFor(m.wanted))
      /\ \A x \in DOMAIN PartsFor(m.wanted) : x \in Message /\ x.type = "PART"
  BY <1>1, SentIsTyped, PartsAnswer DEF Typed
<1>7. Adds(DOMAIN PartsFor(m.wanted) \cup {Icl})
  <2>1. Exchange(m, PartsFor(m.wanted) (+) One(Icl))
    BY DEF requestOutOfSequence
  <2>2. Adds(DOMAIN PartsFor(m.wanted) \cup DOMAIN One(Icl))
    BY <2>1, BothDelivered
  <2>3. DOMAIN One(Icl) = {Icl}
    BY BagsHold
  <2> QED BY <2>2, <2>3
<1>8. NetOK /\ \A x \in DOMAIN net' : x \in DOMAIN net \/ x.type \in {"PART", "ICL"}
  <2> DEFINE S == DOMAIN PartsFor(m.wanted) \cup {Icl}
  <2>1. IsFiniteSet({Icl}) /\ Icl \in Message /\ Icl.type = "ICL"
    BY FS_Singleton, TypedMessages DEF Icl
  <2>2. IsFiniteSet(S) /\ S \subseteq Message
    BY <1>6, <2>1, FS_Union
  <2>3. NetOK /\ \A x \in DOMAIN net' : x \in DOMAIN net \/ x \in S
    <3> HIDE DEF S
    <3>1. Adds(S)
      BY <1>7 DEF S
    <3> QED BY <2>2, <3>1, Puts
  <2> QED BY <1>6, <2>1, <2>3
<1>9. /\ history' \in History /\ Misfit
      /\ \A f \in {"accepted", "completed", "corrupt"} : history'[f] = history[f]
  <2>1. Remember("outOfSequence") /\ history \in History
    BY DEF requestOutOfSequence, Typed
  <2>2. Misfit
    BY <1>1 DEF requestOutOfSequence, Misfit
  <2> QED BY <2>1, <2>2, CountsOne
<1>10. budget' \in 0 .. MaxMishaps /\ UNCHANGED <<kind, hashOf, rx, link>>
  BY DEF requestOutOfSequence, Typed
<1> QED BY <1>5, <1>8, <1>9, <1>10 DEF SenderStep

LEMMA RequestedTooLate ==
  ASSUME Typed, Held, NEW m \in DOMAIN net, requestAfterCancel(m)
  PROVE  SenderStep
<1>1. m.type = "REQ" /\ tx \in Sender
  BY DEF Typed, requestAfterCancel, Answers
<1> DEFINE seen == Noted(tx.seen, m.id)
<1>2. seen \in Seq(Nat)
  BY <1>1, SentIsTyped
<1>3. Holds(tx')
  <2>1. tx' = [tx EXCEPT !.seen = seen] /\ tx.status = "FAILED"
    BY DEF requestAfterCancel
  <2> HIDE DEF seen
  <2> QED BY <1>1, <1>2, <2>1 DEF Holds, Sender
<1>4. NetOK /\ \A x \in DOMAIN net' : x \in DOMAIN net
  BY TakesOnly DEF requestAfterCancel
<1>5. Quietly /\ UNCHANGED <<kind, hashOf, rx, link>>
  BY Unspent DEF requestAfterCancel
<1> QED BY <1>3, <1>4, <1>5 DEF SenderStep, Quietly

LEMMA ProofValidated ==
  ASSUME Typed, NEW m \in DOMAIN net, validate_proof(m)
  PROVE  SenderStep
<1>1. Holds(tx')
  <2>1. tx' = Told(tx, "COMPLETE") /\ tx \in Sender
    BY DEF validate_proof, Typed
  <2> QED BY <2>1, ToldHolds
<1>2. NetOK /\ \A x \in DOMAIN net' : x \in DOMAIN net
  BY TakesOnly DEF validate_proof
<1>3. Quietly /\ UNCHANGED <<kind, hashOf, rx, link>>
  BY Unspent DEF validate_proof
<1> QED BY <1>1, <1>2, <1>3 DEF SenderStep, Quietly

LEMMA SendingCancelled ==
  ASSUME Typed, CancelSending
  PROVE  /\ Holds(tx') /\ NetOK
         /\ \A x \in DOMAIN net' : x \in DOMAIN net \/ x.type = "ICL"
<1>1. Holds(tx')
  <2>1. tx' = Told(tx, "FAILED") /\ tx \in Sender
    BY DEF CancelSending, Typed
  <2> QED BY <2>1, ToldHolds
<1>2. NetOK /\ \A x \in DOMAIN net' : x \in DOMAIN net \/ x = Icl
  <2>1. Adds(DOMAIN One(Icl))
    BY Emitted DEF CancelSending
  <2> QED BY <2>1, PutsOne, TypedMessages
<1>3. Icl.type = "ICL"
  BY DEF Icl
<1> QED BY <1>1, <1>2, <1>3

(* A retry is used up.                                                     *)
LEMMA Retried ==
  ASSUME Typed, Held, tx.status # "NONE", tx.retries > 0,
         tx' = [tx EXCEPT !.retries = @ - 1]
  PROVE  Holds(tx')
<1>1. Holds(tx)
  BY HeldHolds
<1>2. tx.retries - 1 \in Nat
  BY <1>1, SenderFields DEF Holds
<1> QED BY <1>1, <1>2 DEF Holds, Sender

LEMMA WatchedBySender ==
  ASSUME Typed, Held, adv_timeout \/ request_timeout \/ proof_timeout
  PROVE  SenderStep
<1>1. Quietly /\ UNCHANGED <<kind, hashOf, rx, link>> /\ tx.status # "NONE"
  <2>1. Falls(Quiet /\ ~ReceiverIsTrying)
    BY DEF adv_timeout, request_timeout, proof_timeout
  <2>2. (Quiet /\ ~ReceiverIsTrying) \in BOOLEAN
    OBVIOUS
  <2>3. Quietly
    BY <2>1, <2>2, Fell
  <2> QED BY <2>3 DEF adv_timeout, request_timeout, proof_timeout, Watched
<1>2. CASE CancelSending
  BY <1>1, <1>2, SendingCancelled DEF SenderStep, Quietly
<1>3. CASE tx.retries > 0 /\ tx' = [tx EXCEPT !.retries = @ - 1] /\ Emit(One(Adv))
  <2>1. Holds(tx')
    BY <1>1, <1>3, Retried
  <2>2. NetOK /\ \A x \in DOMAIN net' : x \in DOMAIN net \/ x = Adv
    <3>1. Adds(DOMAIN One(Adv))
      BY <1>3, Emitted
    <3> QED BY <3>1, PutsOne, TypedMessages
  <2>3. Adv.type = "ADV"
    BY DEF Adv
  <2> QED BY <1>1, <2>1, <2>2, <2>3 DEF SenderStep, Quietly
<1>4. CASE tx.retries > 0 /\ tx' = [tx EXCEPT !.retries = @ - 1] /\ UNCHANGED net
  <2>1. Holds(tx')
    BY <1>1, <1>4, Retried
  <2>2. NetOK /\ \A x \in DOMAIN net' : x \in DOMAIN net
    BY <1>4, PutsNothing
  <2> QED BY <1>1, <2>1, <2>2 DEF SenderStep, Quietly
<1> QED BY <1>2, <1>3, <1>4 DEF adv_timeout, request_timeout, proof_timeout

LEMMA Swept ==
  ASSUME Typed, sweep
  PROVE  SenderStep
<1>1. Holds(tx')
  <2>1. tx' = [tx EXCEPT !.held = FALSE] /\ tx.status = "FAILED" /\ tx \in Sender
    BY DEF sweep, Watched, Typed
  <2> QED BY <2>1 DEF Holds, Sender
<1>2. NetOK /\ \A x \in DOMAIN net' : x \in DOMAIN net
  BY PutsNothing DEF sweep
<1>3. Quietly /\ UNCHANGED <<kind, hashOf, rx, link>>
  BY Unspent DEF sweep
<1> QED BY <1>1, <1>2, <1>3 DEF SenderStep, Quietly

(* They keep the invariant.                                                *)
LEMMA TypesFixed ==
  ASSUME UNCHANGED <<kind, hashOf>>
  PROVE  /\ Positions' = Positions /\ Parts' = Parts /\ (Injective' <=> Injective)
         /\ Message' = Message /\ Good' = Good /\ Sender' = Sender /\ Receiver' = Receiver
<1>1. Positions' = Positions /\ Parts' = Parts
  BY DEF Positions, Parts
<1>2. Injective' <=> Injective
  BY <1>1 DEF Injective
<1>3. Message' = Message
  BY <1>1 DEF Message
<1>4. Good' = Good
  BY <1>1, <1>2 DEF Good, CopyOK, Copy, OwnParts, WindowAboveMin
<1>5. Sender' = Sender /\ Receiver' = Receiver
  BY <1>1, <1>4 DEF Sender, Receiver
<1> QED BY <1>1, <1>2, <1>3, <1>4, <1>5

LEMMA TypedStays ==
  ASSUME Typed, UNCHANGED <<kind, hashOf>>, tx' \in Sender, rx' \in Receiver,
         link' \in [{"tx", "rx"} -> {"ACTIVE", "CLOSED"}], NetOK,
         budget' \in 0 .. MaxMishaps, history' \in History
  PROVE  Typed'
<1>1. Message' = Message /\ Sender' = Sender /\ Receiver' = Receiver
  BY TypesFixed
<1>2. kind' \in Kinds /\ hashOf' \in HashMaps
  BY DEF Typed
<1> QED BY <1>1, <1>2 DEF Typed, NetOK, History

(* A segment that a request asks for begins where the request says that    *)
(* the hashes end, if it says so rightly.                                  *)
LEMMA FitsWithin ==
  ASSUME Typed, Injective, NEW r \in DOMAIN net, r.type = "REQ", r.last # 0,
         r.last % HASHMAP_MAX_LEN = 0
  PROVE  /\ (FirstWith(r.last) \div HASHMAP_MAX_LEN) * HASHMAP_MAX_LEN = r.last
         /\ InSequence(r)
<1>1. HASHMAP_MAX_LEN \in Nat \ {0} /\ hashOf \in HashMaps
  BY TransferAssumption DEF Typed
<1>2. r.last \in Positions
  BY SentIsTyped
<1>3. FirstWith(r.last) = r.last /\ r.last \in Nat
  BY <1>1, <1>2, FirstIsFirst DEF Positions
<1> DEFINE l == r.last
<1>4. l \in Nat /\ l % HASHMAP_MAX_LEN = 0
  BY <1>3
<1> HIDE DEF l
<1>5. (l \div HASHMAP_MAX_LEN) * HASHMAP_MAX_LEN = l
  <2>1. l = HASHMAP_MAX_LEN * (l \div HASHMAP_MAX_LEN) + (l % HASHMAP_MAX_LEN)
        /\ l \div HASHMAP_MAX_LEN \in Nat
    BY <1>1, <1>4
  <2> QED BY <1>1, <1>4, <2>1
<1>6. (FirstWith(r.last) \div HASHMAP_MAX_LEN) * HASHMAP_MAX_LEN = r.last
  BY <1>3, <1>5 DEF l
<1>7. InSequence(r)
  BY <1>3 DEF InSequence
<1> QED BY <1>6, <1>7

LEMMA SenderKeepsOrder ==
  ASSUME Typed, Ordered, SenderStep
  PROVE  Ordered'
<1>1. /\ UNCHANGED <<kind, hashOf, rx>> /\ history'.accepted = history.accepted
      /\ history'.corrupt = history.corrupt
      /\ Injective' <=> Injective
      /\ Parts' = Parts
  <2>1. UNCHANGED <<kind, hashOf>> /\ UNCHANGED rx
    BY DEF SenderStep
  <2>2. (Injective' <=> Injective) /\ Parts' = Parts
    BY <2>1, TypesFixed
  <2> QED BY <2>1, <2>2 DEF SenderStep
<1>2. CASE ~Injective \/ ~(history.accepted <= 1)
  BY <1>1, <1>2 DEF Ordered
<1>3. CASE Injective /\ history.accepted <= 1
  <2>1. OneCopy
    BY <1>3 DEF Ordered
  <2>2. ASSUME NEW r \in DOMAIN net, r.type = "REQ", r.last # 0
        PROVE  /\ (FirstWith(r.last) \div HASHMAP_MAX_LEN) * HASHMAP_MAX_LEN = r.last
               /\ InSequence(r)
    <3>1. r.last % HASHMAP_MAX_LEN = 0
      BY <2>1, <2>2 DEF OneCopy
    <3> QED BY <1>3, <2>2, <3>1, FitsWithin
  <2>3. history'.outOfSequence = 0
    <3>1. ~Misfit
      BY <2>2 DEF Misfit, InSequence
    <3> QED BY <2>1, <3>1 DEF SenderStep, OneCopy
  <2>4. ASSUME NEW m \in DOMAIN net', m \notin DOMAIN net
        PROVE  /\ m.type # "REQ"
               /\ m.type = "HMU" => /\ history.accepted # 0
                                    /\ \A i \in 1 .. Len(rx.copies) :
                                         m.segment * HASHMAP_MAX_LEN <= Height(rx.copies[i])
    <3>1. m.type \in {"ADV", "PART", "ICL"} \/ (m.type = "HMU" /\ Fitted(m))
      BY <2>4 DEF SenderStep
    <3>2. CASE m.type = "HMU" /\ Fitted(m)
      <4>1. PICK r \in DOMAIN net : /\ r.type = "REQ" /\ r.last # 0
                                    /\ m.segment = FirstWith(r.last) \div HASHMAP_MAX_LEN
        BY <3>2 DEF Fitted
      <4>2. m.segment * HASHMAP_MAX_LEN = r.last
        BY <2>2, <4>1
      <4>3. history.accepted # 0
        BY <2>1, <4>1 DEF OneCopy
      <4>4. \A i \in 1 .. Len(rx.copies) : r.last <= Height(rx.copies[i])
        BY <2>1, <4>1 DEF OneCopy, Within
      <4> QED BY <3>2, <4>2, <4>3, <4>4
    <3> QED BY <3>1, <3>2
  <2>5. \A i \in 1 .. Len(rx.copies) : Aligned(rx.copies[i])'
    BY <1>1, <2>1 DEF OneCopy, Aligned, Height
  <2>6. \A i \in 1 .. Len(rx.copies), m \in DOMAIN net' : Within(m, rx.copies[i])
    BY <2>1, <2>4 DEF OneCopy, Within
  <2>7. \A m \in DOMAIN net' : m.type = "REQ" => m.last % HASHMAP_MAX_LEN = 0
    BY <2>1, <2>4 DEF OneCopy
  <2>8. history.accepted = 0 => \A m \in DOMAIN net' : m.type \notin {"REQ", "HMU"}
    BY <2>1, <2>4 DEF OneCopy
  <2>9. OneCopy'
    <3>1. \A i \in 1 .. Len(rx.copies) : Aligned(rx.copies[i])' /\ \A m \in DOMAIN net' : Within(m, rx.copies[i])'
      BY <1>1, <2>5, <2>6 DEF Within, Height
    <3>2. Len(rx.copies) <= history.accepted
      BY <2>1 DEF OneCopy
    <3> QED BY <1>1, <2>3, <2>7, <2>8, <3>1, <3>2 DEF OneCopy
  <2> QED BY <1>1, <1>3, <2>9 DEF Ordered
<1> QED BY <1>2, <1>3

LEMMA SenderKeeps ==
  ASSUME IInv, SenderStep
  PROVE  IInv'
<1>1. Typed'
  <2>1. rx' \in Receiver /\ link' \in [{"tx", "rx"} -> {"ACTIVE", "CLOSED"}]
    BY DEF IInv, Typed, SenderStep
  <2> QED BY <2>1, TypedStays DEF IInv, SenderStep, Holds
<1>2. Held'
  <2>1. /\ tx'.status # "NONE"
        /\ tx'.held => tx'.status \in {"ADVERTISED", "TRANSFERRING", "AWAITING_PROOF", "FAILED"}
    BY DEF SenderStep, Holds
  <2>2. ASSUME NEW m \in DOMAIN net', m.type = "PRF" PROVE history'.completed > 0
    <3>1. m \in DOMAIN net
      BY <2>2 DEF SenderStep
    <3> QED BY <2>2, <3>1 DEF IInv, Held, SenderStep
  <2> QED BY <2>1, <2>2 DEF Held
<1>3. Reported'
  <2>1. /\ UNCHANGED <<kind, rx, link>> /\ history'.accepted = history.accepted
    BY DEF SenderStep
  <2> QED BY <2>1 DEF IInv, Reported, EveryResourceIsReported, Up
<1>4. Ordered'
  BY SenderKeepsOrder DEF IInv
<1> QED BY <1>1, <1>2, <1>3, <1>4 DEF IInv

-----------------------------------------------------------------------------
(* The steps of the receiver that leave it as many copies as it had.       *)

(* A request that a copy made.                                             *)
AskedOf(m, c) ==
  m.type = "REQ" /\ (m.last # 0 => m.last = Height(c) /\ ~(Positions \subseteq c.known))

(* A copy learns no hashes, or those of a segment that came.               *)
Learns(c, d) ==
  \/ d.known = c.known
  \/ \E m \in DOMAIN net : m.type = "HMU" /\ d.known = c.known \cup Segment(m.segment)

TouchesTo(q) ==
  /\ q \in Seq(Good) /\ Len(q) = Len(rx.copies) /\ rx' = [rx EXCEPT !.copies = q]
  /\ \A i \in 1 .. Len(q) : Learns(rx.copies[i], q[i])
  /\ \A m \in DOMAIN net' : m \in DOMAIN net \/ \E i \in 1 .. Len(q) : AskedOf(m, q[i])
Touches ==
  /\ UNCHANGED <<kind, hashOf, tx, link>> /\ NetOK /\ Quietly
  /\ \E q \in Seq(Good) : TouchesTo(q)

LEMMA ReceiverFields ==
  ASSUME Typed
  PROVE  /\ hashOf \in HashMaps /\ IsFiniteSet(DOMAIN net) /\ tx.seen \in Seq(Nat)
         /\ rx.copies \in Seq(Good) /\ Len(rx.copies) \in Nat
         /\ DOMAIN rx.copies = 1 .. Len(rx.copies)
<1>1. rx.copies \in Seq(Good)
  BY DEF Typed, Receiver
<1> QED BY <1>1, SenderFields DEF Typed

LEMMA Replaced ==
  ASSUME NEW S, NEW q \in Seq(S), NEW k \in 1 .. Len(q), NEW d \in S
  PROVE  /\ [q EXCEPT ![k] = d] \in Seq(S) /\ Len([q EXCEPT ![k] = d]) = Len(q)
         /\ [q EXCEPT ![k] = d][k] = d
         /\ \A i \in 1 .. Len(q) : i # k => [q EXCEPT ![k] = d][i] = q[i]
OBVIOUS

(* Whoever asks puts a request of its own on the network.                  *)
LEMMA Questions ==
  ASSUME Typed, NEW c \in Good, Adds(DOMAIN Question(c)) \/ Adds({})
  PROVE  NetOK /\ \A m \in DOMAIN net' : m \in DOMAIN net \/ AskedOf(m, c)
<1>1. /\ IsFiniteSet(DOMAIN Question(c))
      /\ \A m \in DOMAIN Question(c) : m \in Message /\ AskedOf(m, c)
  BY ReceiverFields, Asked DEF AskedOf
<1>2. CASE Adds(DOMAIN Question(c))
  BY <1>1, <1>2, Puts
<1>3. CASE Adds({})
  BY <1>3, FS_EmptySet, Puts
<1> QED BY <1>2, <1>3

LEMMA AskedOfSame ==
  ASSUME NEW m, NEW c, NEW d, d.known = c.known, AskedOf(m, c)
  PROVE  AskedOf(m, d)
BY SameHeight DEF AskedOf

LEMMA PartCameInVain ==
  ASSUME Typed, NEW m \in DOMAIN net, receivePartInVain(m)
  PROVE  Touches
<1>1. PICK rate \in Rates : rx' = [rx EXCEPT !.copies = Offered(m.part, rate)]
  BY DEF receivePartInVain
<1> DEFINE q == Offered(m.part, rate)
<1>2. /\ q \in Seq(Good) /\ Len(q) = Len(rx.copies)
      /\ \A i \in 1 .. Len(rx.copies) : SameData(rx.copies[i], q[i])
  BY ReceiverFields, OfferedIsGood
<1>3. NetOK /\ \A x \in DOMAIN net' : x \in DOMAIN net
  BY TakesOnly DEF receivePartInVain
<1>4. Quietly /\ UNCHANGED <<kind, hashOf, tx, link>>
  BY Unspent DEF receivePartInVain
<1>5. rx' = [rx EXCEPT !.copies = q]
  BY <1>1
<1> HIDE DEF q
<1>6. TouchesTo(q)
  BY <1>2, <1>3, <1>5 DEF TouchesTo, Learns, SameData
<1> QED BY <1>2, <1>3, <1>4, <1>6 DEF Touches

(* A part is filed with the copy that takes it.                            *)
LEMMA FiledOne ==
  ASSUME Typed, NEW m \in DOMAIN net, m.type = "PART", NEW rate,
         Taker(m.part) <= Len(rx.copies)
  PROVE  LET k == Taker(m.part)
             offered == Offered(m.part, rate)
             c == Filed(offered[k], m.part)
         IN  /\ k \in 1 .. Len(rx.copies)
             /\ offered \in Seq(Good) /\ Len(offered) = Len(rx.copies)
             /\ \A i \in 1 .. Len(rx.copies) : offered[i].known = rx.copies[i].known
             /\ c \in Good /\ c.known = rx.copies[k].known
<1> DEFINE k == Taker(m.part)
           offered == Offered(m.part, rate)
<1>1. m.part \in Positions
  BY MessageFields DEF Typed
<1>2. k \in 1 .. Len(rx.copies) /\ PlacesFor(rx.copies[k], m.part) # {}
  BY ReceiverFields, Takes
<1>3. /\ offered \in Seq(Good) /\ Len(offered) = Len(rx.copies)
      /\ \A i \in 1 .. Len(rx.copies) : SameData(rx.copies[i], offered[i])
  BY ReceiverFields, OfferedIsGood
<1> HIDE DEF k, offered
<1>4. offered[k] \in Good
  BY <1>2, <1>3
<1>5. PlacesFor(offered[k], m.part) # {}
  <2>1. SameData(rx.copies[k], offered[k])
    BY <1>2, <1>3
  <2> QED BY <1>2, <2>1 DEF PlacesFor, Missing, SameData
<1>6. /\ Filed(offered[k], m.part) \in Good
      /\ Filed(offered[k], m.part).known = offered[k].known
  BY <1>1, <1>4, <1>5, ReceiverFields, FiledIsGood
<1> QED BY <1>2, <1>3, <1>6 DEF SameData, k, offered

LEMMA ContinuedIsGood ==
  ASSUME Typed, NEW c \in Good
  PROVE  Continued(c) \in Good /\ Continued(c).known = c.known
<1>1. Keeps(c, AfterAsking(c))
  BY ReceiverFields, GoodIsOK, AsksKeeps
<1>2. AfterAsking(c) \in Good /\ AfterAsking(c).known = c.known
  BY <1>1, KeepsGood
<1> QED BY <1>2 DEF Continued

LEMMA PartCame ==
  ASSUME Typed, NEW m \in DOMAIN net, receivePart(m)
  PROVE  Touches
<1> DEFINE k == Taker(m.part)
           offered(rate) == Offered(m.part, rate)
<1>1. m.type = "PART" /\ k <= Len(rx.copies)
  BY DEF receivePart
<1>2. PICK rate, rate2 \in Rates :
        \E c \in {Adapted(Filed(offered(rate)[k], m.part), rate2)} :
          /\ rx' = [rx EXCEPT !.copies = [offered(rate) EXCEPT ![k] = Continued(c)]]
          /\ Exchange(m, NextQuestion(c))
  BY DEF receivePart
<1> DEFINE o == Offered(m.part, rate)
           f == Filed(o[k], m.part)
           c == Adapted(f, rate2)
           d == Continued(c)
           q == [o EXCEPT ![k] = d]
<1>3. rx' = [rx EXCEPT !.copies = q] /\ Exchange(m, NextQuestion(c))
  BY <1>2
<1>4. /\ k \in 1 .. Len(rx.copies)
      /\ o \in Seq(Good) /\ Len(o) = Len(rx.copies)
      /\ \A i \in 1 .. Len(rx.copies) : o[i].known = rx.copies[i].known
      /\ f \in Good /\ f.known = rx.copies[k].known
  BY <1>1, FiledOne
<1> HIDE DEF k, o, f
<1>5. c \in Good /\ c.known = rx.copies[k].known
  <2>1. Keeps(f, c)
    BY <1>4, GoodIsOK, AdaptedKeeps
  <2> HIDE DEF c
  <2> QED BY <1>4, <2>1, KeepsGood
<1> HIDE DEF c
<1>6. d \in Good /\ d.known = rx.copies[k].known
  BY <1>5, ContinuedIsGood
<1> HIDE DEF d
<1>7. /\ q \in Seq(Good) /\ Len(q) = Len(rx.copies) /\ q[k] = d
      /\ \A i \in 1 .. Len(rx.copies) : q[i].known = rx.copies[i].known
  <2>1. /\ q \in Seq(Good) /\ Len(q) = Len(o) /\ q[k] = d
        /\ \A i \in 1 .. Len(o) : i # k => q[i] = o[i]
    BY <1>4, <1>6, Replaced
  <2> HIDE DEF q
  <2> QED BY <1>4, <1>6, <2>1
<1> HIDE DEF q
<1>8. NetOK /\ \A x \in DOMAIN net' : x \in DOMAIN net \/ AskedOf(x, q[k])
  <2>1. Adds(DOMAIN Question(c)) \/ Adds({})
    <3>1. NextQuestion(c) = Question(c) \/ NextQuestion(c) = Nothing
      BY DEF NextQuestion
    <3>2. DOMAIN Nothing = {}
      BY BagsHold
    <3>3. Adds(DOMAIN NextQuestion(c))
      BY <1>3, Delivered
    <3>4. CASE NextQuestion(c) = Question(c)
      BY <3>3, <3>4 DEF Adds
    <3>5. CASE NextQuestion(c) = Nothing
      BY <3>2, <3>3, <3>5 DEF Adds
    <3> QED BY <3>1, <3>4, <3>5
  <2>2. NetOK /\ \A x \in DOMAIN net' : x \in DOMAIN net \/ AskedOf(x, c)
    BY <1>5, <2>1, Questions
  <2>3. q[k].known = c.known
    BY <1>5, <1>6, <1>7
  <2> QED BY <2>2, <2>3, AskedOfSame
<1>9. Quietly /\ UNCHANGED <<kind, hashOf, tx, link>>
  BY Unspent DEF receivePart
<1>10. TouchesTo(q)
  BY <1>3, <1>4, <1>7, <1>8 DEF TouchesTo, Learns
<1> QED BY <1>7, <1>8, <1>9, <1>10 DEF Touches

(* One copy changes, and asks.                                             *)
LEMMA OneAsks ==
  ASSUME Typed, NEW i \in 1 .. Len(rx.copies), NEW c \in Good, Learns(rx.copies[i], c),
         rx' = [rx EXCEPT !.copies[i] = AfterAsking(c)],
         Adds(DOMAIN Question(c)), Quietly, UNCHANGED <<kind, hashOf, tx, link>>
  PROVE  Touches
<1> DEFINE d == AfterAsking(c)
           q == [rx.copies EXCEPT ![i] = d]
<1>1. d \in Good /\ d.known = c.known
  <2>1. Keeps(c, d)
    BY ReceiverFields, GoodIsOK, AsksKeeps
  <2> QED BY <2>1, KeepsGood
<1>2. rx' = [rx EXCEPT !.copies = q]
  OBVIOUS
<1> HIDE DEF d
<1>3. /\ q \in Seq(Good) /\ Len(q) = Len(rx.copies) /\ q[i] = d
      /\ \A j \in 1 .. Len(rx.copies) : j # i => q[j] = rx.copies[j]
  BY <1>1, ReceiverFields, Replaced
<1> HIDE DEF q
<1>4. NetOK /\ \A x \in DOMAIN net' : x \in DOMAIN net \/ AskedOf(x, q[i])
  <2>1. NetOK /\ \A x \in DOMAIN net' : x \in DOMAIN net \/ AskedOf(x, c)
    BY Questions
  <2>2. q[i].known = c.known
    BY <1>1, <1>3
  <2> QED BY <2>1, <2>2, AskedOfSame
<1>5. \A j \in 1 .. Len(q) : Learns(rx.copies[j], q[j])
  <2>1. Learns(rx.copies[i], q[i])
    BY <1>1, <1>3 DEF Learns
  <2>2. ASSUME NEW j \in 1 .. Len(q), j # i PROVE Learns(rx.copies[j], q[j])
    BY <1>3, <2>2 DEF Learns
  <2> QED BY <2>1, <2>2
<1>6. TouchesTo(q)
  BY <1>2, <1>3, <1>4, <1>5 DEF TouchesTo
<1> QED BY <1>3, <1>4, <1>6 DEF Touches

LEMMA HashmapUpdated ==
  ASSUME Typed, NEW m \in DOMAIN net, hashmap_update(m)
  PROVE  Touches
<1> DEFINE known == rx.copies[1].known \cup Segment(m.segment)
           c == [rx.copies[1] EXCEPT !.known = known, !.waiting = FALSE]
<1>1. /\ rx' = [rx EXCEPT !.copies[1] = AfterAsking(c)]
      /\ Exchange(m, Question(c)) /\ m.type = "HMU" /\ rx.copies # <<>>
  BY DEF hashmap_update
<1>2. 1 \in 1 .. Len(rx.copies)
  <2>1. rx.copies \in Seq(Good)
    BY ReceiverFields
  <2> QED BY <1>1, <2>1
<1>3. rx.copies[1] \in Good
  BY <1>2, ReceiverFields
<1>4. known \in SUBSET Positions
  <2>1. rx.copies[1].known \in SUBSET Positions
    BY <1>3, CopyFields, GoodIsOK
  <2> QED BY <2>1 DEF Segment
<1>5. c.known = known
  <2>1. rx.copies[1] \in Copy
    BY <1>3, GoodIsOK DEF CopyOK
  <2> HIDE DEF known
  <2> QED BY <2>1 DEF Copy
<1>6. c \in Good
  <2> DEFINE e == rx.copies[1]
  <2>1. e \in Good
    BY <1>3
  <2> HIDE DEF e, known
  <2>2. [e EXCEPT !.known = known, !.waiting = FALSE] \in Good
    BY <1>4, <2>1 DEF Good, CopyOK, Copy, WindowAboveMin, OwnParts
  <2> QED BY <2>2 DEF e
<1>7. Learns(rx.copies[1], c)
  BY <1>1, <1>5 DEF Learns
<1>8. Adds(DOMAIN Question(c)) /\ Quietly /\ UNCHANGED <<kind, hashOf, tx, link>>
  <2> HIDE DEF c
  <2> QED BY <1>1, Delivered, Unspent DEF hashmap_update
<1> HIDE DEF c
<1> QED BY <1>1, <1>2, <1>6, <1>7, <1>8, OneAsks

LEMMA AskedAgain ==
  ASSUME Typed, NEW i \in DOMAIN rx.copies, part_timeout(i), rx.copies[i].retries > 0
  PROVE  Touches
<1> DEFINE c == AsksAfresh(rx.copies[i])
<1>1. rx' = [rx EXCEPT !.copies[i] = AfterAsking(c)] /\ Emit(Question(c))
  BY DEF part_timeout
<1>2. i \in 1 .. Len(rx.copies) /\ rx.copies[i] \in Good
  BY ReceiverFields
<1>3. Keeps(rx.copies[i], c)
  BY <1>2, GoodIsOK, AfreshKeeps
<1>4. c \in Good /\ c.known = rx.copies[i].known
  <2> HIDE DEF c
  <2> QED BY <1>2, <1>3, KeepsGood
<1>5. Quietly /\ UNCHANGED <<kind, hashOf, tx, link>>
  <2>1. Falls(Quiet) /\ Quiet \in BOOLEAN
    BY DEF part_timeout, Quiet
  <2> QED BY <2>1, Fell DEF part_timeout
<1> HIDE DEF c
<1>6. Adds(DOMAIN Question(c))
  BY <1>1, Emitted
<1> QED BY <1>1, <1>2, <1>4, <1>5, <1>6, OneAsks DEF Learns

LEMMA TouchesKeepsOrder ==
  ASSUME Typed, Ordered, NEW q \in Seq(Good), TouchesTo(q), Quietly, NetOK,
         UNCHANGED <<kind, hashOf, tx, link>>
  PROVE  Ordered'
<1>1. /\ history'.accepted = history.accepted /\ history'.corrupt = history.corrupt
      /\ history'.outOfSequence = history.outOfSequence
  BY DEF Quietly
<1>2. (Injective' <=> Injective) /\ Parts' = Parts
  BY TypesFixed
<1>3. rx'.copies = q /\ Len(q) = Len(rx.copies) /\ Len(q) \in Nat
  BY DEF TouchesTo, Typed, Receiver
<1>4. CASE ~Injective \/ ~(history.accepted <= 1)
  BY <1>1, <1>2, <1>4 DEF Ordered
<1>5. CASE Injective /\ history.accepted <= 1
  <2>1. OneCopy
    BY <1>5 DEF Ordered
  <2>2. ASSUME NEW i \in 1 .. Len(q)
        PROVE  /\ Aligned(q[i]) /\ Height(rx.copies[i]) \in Nat /\ Height(q[i]) \in Nat
               /\ Height(rx.copies[i]) <= Height(q[i])
    <3>1. rx.copies[i] \in Good /\ Aligned(rx.copies[i])
      BY <1>3, <2>1, ReceiverFields DEF OneCopy
    <3>2. Learns(rx.copies[i], q[i])
      BY DEF TouchesTo
    <3>3. HASHMAP_MAX_LEN \in Nat \ {0} /\ hashOf \in HashMaps
      BY TransferAssumption, ReceiverFields
    <3>4. CASE q[i].known = rx.copies[i].known
      <4>1. Aligned(q[i]) /\ Height(q[i]) = Height(rx.copies[i])
        BY <3>1, <3>4, SameHeight
      <4>2. Height(rx.copies[i]) \in Nat
        <5>1. Parts \in Nat
          BY <3>3, SomeParts
        <5>2. rx.copies[i].known \cup {0} \subseteq 0 .. Parts
          BY <3>1, <5>1, CopyFields, GoodIsOK DEF Positions
        <5>3. Height(rx.copies[i]) \in rx.copies[i].known \cup {0}
          BY <5>1, <5>2, MaxIsGreatest DEF Height
        <5> QED BY <5>2, <5>3
      <4> QED BY <4>1, <4>2
    <3>5. CASE \E m \in DOMAIN net : /\ m.type = "HMU"
                                     /\ q[i].known = rx.copies[i].known \cup Segment(m.segment)
      <4>1. PICK m \in DOMAIN net : /\ m.type = "HMU"
                                    /\ q[i].known = rx.copies[i].known \cup Segment(m.segment)
        BY <3>5
      <4>2. m.segment \in Nat
        BY <4>1, MessageFields DEF Typed
      <4>3. m.segment * HASHMAP_MAX_LEN <= Height(rx.copies[i])
        BY <1>3, <2>1, <4>1 DEF OneCopy, Within
      <4> QED BY <3>1, <3>3, <4>1, <4>2, <4>3, StaysAligned
    <3> QED BY <3>2, <3>4, <3>5 DEF Learns
  <2>3. ASSUME NEW m \in DOMAIN net', m \notin DOMAIN net
        PROVE  m.type = "REQ" /\ \E i \in 1 .. Len(q) : AskedOf(m, q[i])
    BY <2>3 DEF TouchesTo, AskedOf
  <2>4. \A m \in DOMAIN net' : m.type = "REQ" => m.last % HASHMAP_MAX_LEN = 0
    <3>1. ASSUME NEW m \in DOMAIN net', m \notin DOMAIN net
          PROVE  m.last % HASHMAP_MAX_LEN = 0
      <4>1. PICK i \in 1 .. Len(q) : AskedOf(m, q[i])
        BY <2>3, <3>1
      <4>2. CASE m.last = 0
        BY <4>2, TransferAssumption
      <4>3. CASE m.last # 0
        BY <2>2, <4>1, <4>3, EndsSegment DEF AskedOf
      <4> QED BY <4>2, <4>3
    <3> QED BY <2>1, <3>1 DEF OneCopy
  <2>5. history.accepted = 0 => \A m \in DOMAIN net' : m.type \notin {"REQ", "HMU"}
    <3>1. history.accepted = 0 => Len(q) = 0
      BY <1>3, <2>1 DEF OneCopy
    <3>2. history.accepted = 0 => \A m \in DOMAIN net' : m \in DOMAIN net
      BY <1>3, <2>3, <3>1
    <3> QED BY <2>1, <3>2 DEF OneCopy
  <2>6. Len(q) <= 1
    <3>1. history.accepted \in Nat /\ Len(rx.copies) <= history.accepted
      BY <2>1 DEF OneCopy, Typed, History
    <3> QED BY <1>3, <1>5, <3>1
  <2>7. ASSUME NEW i \in 1 .. Len(q), NEW m \in DOMAIN net'
        PROVE  Within(m, q[i])
    <3>1. CASE m \in DOMAIN net
      <4>1. Within(m, rx.copies[i])
        BY <1>3, <2>1, <3>1 DEF OneCopy
      <4>2. /\ m.type = "REQ" => m.last \in Nat
            /\ m.type = "HMU" => m.segment * HASHMAP_MAX_LEN \in Nat
        <5>1. m \in Message
          BY <3>1 DEF Typed
        <5>2. /\ m.type = "REQ" => m.last \in Positions \cup {0}
              /\ m.type = "HMU" => m.segment \in Nat
          BY <5>1, MessageFields
        <5>3. HASHMAP_MAX_LEN \in Nat /\ Positions \cup {0} \subseteq Nat
          BY TransferAssumption DEF Positions
        <5>4. \A s \in Nat : s * HASHMAP_MAX_LEN \in Nat
          BY <5>3
        <5> QED BY <5>2, <5>3, <5>4
      <4> QED BY <2>2, <4>1, <4>2 DEF Within
    <3>2. CASE m \notin DOMAIN net
      <4>1. PICK j \in 1 .. Len(q) : AskedOf(m, q[j])
        BY <2>3, <3>2
      <4>2. j = i
        BY <1>3, <2>6
      <4>3. m.type = "REQ" /\ (m.last = 0 \/ m.last = Height(q[i]))
        BY <4>1, <4>2 DEF AskedOf
      <4> QED BY <2>2, <4>3 DEF Within
    <3> QED BY <3>1, <3>2
  <2>8. OneCopy'
    <3>1. \A i \in 1 .. Len(q) : Aligned(q[i])' /\ \A m \in DOMAIN net' : Within(m, q[i])'
      BY <1>2, <2>2, <2>7 DEF Aligned, Within, Height
    <3>2. Len(q) <= history.accepted /\ history.outOfSequence = 0
      BY <1>3, <2>1 DEF OneCopy
    <3> QED BY <1>1, <1>3, <2>4, <2>5, <3>1, <3>2 DEF OneCopy, Aligned, Within, Height
  <2> QED BY <1>1, <1>2, <1>5, <2>8 DEF Ordered
<1> QED BY <1>4, <1>5

LEMMA TouchesKeeps ==
  ASSUME IInv, Touches
  PROVE  IInv'
<1>1. PICK q \in Seq(Good) : TouchesTo(q)
  BY DEF Touches
<1>2. /\ UNCHANGED <<kind, hashOf, tx, link>> /\ NetOK /\ Quietly /\ Typed
      /\ rx \in Receiver /\ rx' = [rx EXCEPT !.copies = q] /\ Len(q) = Len(rx.copies)
  BY <1>1 DEF Touches, TouchesTo, IInv, Typed
<1>3. rx' \in Receiver /\ rx'.copies = q
      /\ rx'.busy = rx.busy /\ rx'.done = rx.done /\ rx'.failed = rx.failed
  BY <1>2 DEF Receiver
<1>4. Typed'
  BY <1>2, <1>3, TypedStays DEF Typed, Quietly
<1>5. q = <<>> <=> rx.copies = <<>>
  <2>1. rx.copies \in Seq(Good)
    BY <1>2, ReceiverFields
  <2> QED BY <1>2, <2>1
<1>6. Held'
  <2>1. tx' = tx /\ Held /\ history'.completed = history.completed
    BY <1>2 DEF IInv, Touches, Quietly, TouchesTo
  <2> QED BY <1>1, <1>2, <1>3, <1>5, <2>1 DEF Held, TouchesTo, AskedOf
<1>7. Reported'
  <2>1. history'.accepted = history.accepted /\ kind' = kind /\ link' = link
    BY <1>2 DEF Quietly
  <2>2. Reported
    BY DEF IInv
  <2> QED BY <1>2, <1>3, <1>5, <2>1, <2>2 DEF Reported, EveryResourceIsReported, Up
<1>8. Ordered'
  BY <1>1, <1>2, TouchesKeepsOrder DEF IInv
<1> QED BY <1>4, <1>6, <1>7, <1>8 DEF IInv

-----------------------------------------------------------------------------
(* A copy begins, and a copy ends.                                         *)
LEMMA Accepts ==
  ASSUME IInv, NEW m \in DOMAIN net, accept(m)
  PROVE  IInv'
<1>1. Typed /\ Held /\ Reported /\ Ordered /\ rx \in Receiver /\ hashOf \in HashMaps
  BY DEF IInv, Typed
<1>a. PICK c : c = AfterAsking(NewCopy)
  OBVIOUS
<1> DEFINE b == kind = "app"
<1>2. PICK i \in 1 .. Len(rx.copies) + 1 :
        rx' = [rx EXCEPT !.copies = InsertAt(rx.copies, i, c), !.busy = b]
  BY <1>a DEF accept
<1>3. /\ UNCHANGED <<kind, hashOf, tx, link, budget>> /\ Up("rx") /\ Admits /\ m.type = "ADV"
      /\ Exchange(m, Question(NewCopy)) /\ Remember("accepted")
  BY DEF accept
<1>4. c \in Good /\ c.known = NewCopy.known
  <2>1. NewCopy \in Good
    BY <1>1, NewIsGood
  <2>2. Keeps(NewCopy, c)
    BY <1>1, <1>a, <2>1, GoodIsOK, AsksKeeps
  <2> QED BY <2>1, <2>2, KeepsGood
<1>b. PICK q : q = InsertAt(rx.copies, i, c)
  OBVIOUS
<1>5. q \in Seq(Good) /\ Len(q) = Len(rx.copies) + 1 /\ (rx.copies = <<>> => q[1] = c)
  BY <1>1, <1>4, <1>b, ReceiverFields, Inserted, OneInserted
<1>6. rx' \in Receiver /\ rx'.copies = q /\ rx'.busy = b
      /\ rx'.done = rx.done /\ rx'.failed = rx.failed
  <2> HIDE DEF b
  <2>1. rx' = [rx EXCEPT !.copies = q, !.busy = b]
    BY <1>2, <1>b
  <2>2. b \in BOOLEAN
    BY DEF b
  <2> QED BY <1>1, <1>5, <2>1, <2>2 DEF Receiver
<1>7. NetOK /\ \A x \in DOMAIN net' : x \in DOMAIN net \/ AskedOf(x, c)
  <2>1. NewCopy \in Good
    BY <1>1, NewIsGood
  <2>2. Adds(DOMAIN Question(NewCopy))
    BY <1>3, Delivered
  <2>3. NetOK /\ \A x \in DOMAIN net' : x \in DOMAIN net \/ AskedOf(x, NewCopy)
    BY <1>1, <2>1, <2>2, Questions
  <2> QED BY <1>4, <2>3, AskedOfSame
<1>8. /\ history' \in History /\ history'.accepted = history.accepted + 1
      /\ \A f \in {"completed", "corrupt", "outOfSequence"} : history'[f] = history[f]
      /\ history.accepted \in Nat
  <2>1. history \in History
    BY <1>1 DEF Typed
  <2> QED BY <1>3, <2>1, CountsOne DEF History
<1>9. Typed'
  BY <1>1, <1>3, <1>6, <1>7, <1>8, TypedStays DEF Typed
<1>10. Held'
  <2>1. tx.status # "NONE"
    BY <1>1, <1>3 DEF Held
  <2>2. tx' = tx /\ history'.completed = history.completed
    BY <1>3, <1>8
  <2>3. ASSUME NEW x \in DOMAIN net', x.type = "PRF" PROVE x \in DOMAIN net
    BY <1>7, <2>3 DEF AskedOf
  <2> QED BY <1>1, <2>1, <2>2, <2>3 DEF Held
<1>11. Reported'
  <2>1. kind' = kind /\ link' = link
    BY <1>3
  <2>2. CASE kind = "app"
    <3>1. ~rx.busy
      BY <1>3, <2>2 DEF Admits
    <3>2. rx.copies = <<>> /\ history.accepted = rx.done + rx.failed + Len(rx.copies)
      BY <1>1, <1>3, <2>2, <3>1 DEF Reported, EveryResourceIsReported
    <3>3. Len(q) = 1 /\ q # <<>>
      <4>1. Len(q) = 1
        BY <1>5, <3>2
      <4> QED BY <4>1
    <3>4. rx.done \in Nat /\ rx.failed \in Nat /\ Len(rx.copies) = 0
      BY <1>1, <3>2 DEF Receiver
    <3>5. history'.accepted = rx.done + rx.failed + 1
      BY <1>8, <3>2, <3>4
    <3>6. rx'.busy = TRUE
      BY <1>6, <2>2
    <3>7. EveryResourceIsReported'
      BY <1>6, <3>3, <3>5, <3>6 DEF EveryResourceIsReported
    <3> QED BY <1>3, <2>1, <3>7 DEF Reported, Up
  <2>3. CASE kind # "app"
    BY <1>3, <2>1, <2>3 DEF Reported, EveryResourceIsReported, Up
  <2> QED BY <2>2, <2>3
<1>12. Ordered'
  <2>1. (Injective' <=> Injective) /\ Parts' = Parts
    BY <1>3, TypesFixed
  <2>2. CASE ~Injective \/ history.accepted # 0
    BY <1>1, <1>8, <2>1, <2>2 DEF Ordered
  <2>3. CASE Injective /\ history.accepted = 0
    <3>1. OneCopy
      BY <1>1, <2>3 DEF Ordered
    <3>2. rx.copies = <<>> /\ Len(q) = 1
      <4>1. Len(rx.copies) = 0
        BY <1>1, <2>3, <3>1, ReceiverFields DEF OneCopy
      <4>2. rx.copies \in Seq(Good)
        BY <1>1, ReceiverFields
      <4> QED BY <1>5, <4>1, <4>2
    <3>3. q[1] = c /\ Aligned(c)
      BY <1>1, <1>4, <1>5, <3>2, NewIsAligned
    <3>4. Height(c) \in Nat
      <4>1. Parts \in Nat
        BY <1>1, SomeParts
      <4>2. c.known \cup {0} \subseteq 0 .. Parts
        BY <1>4, <4>1, CopyFields, GoodIsOK DEF Positions
      <4>3. Height(c) \in c.known \cup {0}
        BY <4>1, <4>2, MaxIsGreatest DEF Height
      <4> QED BY <4>2, <4>3
    <3>5. ASSUME NEW x \in DOMAIN net'
          PROVE  /\ x.type = "REQ" => x.last % HASHMAP_MAX_LEN = 0
                 /\ Within(x, c)
      <4>1. CASE x \in DOMAIN net
        BY <2>3, <3>1, <4>1 DEF OneCopy, Within
      <4>2. CASE AskedOf(x, c)
        <5>1. x.last = 0 => x.last % HASHMAP_MAX_LEN = 0 /\ x.last <= Height(c)
          BY <3>4, TransferAssumption
        <5>2. x.last # 0 => x.last % HASHMAP_MAX_LEN = 0 /\ x.last <= Height(c)
          BY <3>3, <3>4, <4>2, EndsSegment DEF AskedOf
        <5> QED BY <4>2, <5>1, <5>2 DEF AskedOf, Within
      <4> QED BY <1>7, <4>1, <4>2
    <3>6. OneCopy'
      <4>1. Aligned(c)' /\ \A x \in DOMAIN net' : Within(x, c)'
        BY <2>1, <3>3, <3>5 DEF Aligned, Within, Height
      <4>2. \A j \in 1 .. Len(q) : q[j] = c
        BY <3>2, <3>3
      <4>3. /\ history'.outOfSequence = 0 /\ history'.accepted = 1
            /\ Len(rx'.copies) <= history'.accepted
        BY <1>6, <1>8, <2>3, <3>1, <3>2 DEF OneCopy
      <4>4. \A j \in 1 .. Len(q) : Aligned(q[j])' /\ \A x \in DOMAIN net' : Within(x, q[j])'
        BY <4>1, <4>2 DEF Aligned, Within, Height
      <4> QED BY <1>6, <3>5, <4>3, <4>4 DEF OneCopy, Aligned, Within, Height
    <3> QED BY <1>1, <1>8, <2>1, <3>6 DEF Ordered
  <2> QED BY <2>2, <2>3
<1> QED BY <1>9, <1>10, <1>11, <1>12 DEF IInv

LEMMA ConcludedIs ==
  ASSUME NEW r \in Receiver, NEW outcome
  PROVE  /\ Concluded(r, outcome) \in Receiver
         /\ Concluded(r, outcome).copies = r.copies
         /\ kind = "app" =>
              /\ Concluded(r, outcome).busy = FALSE
              /\ Concluded(r, outcome).done + Concluded(r, outcome).failed = r.done + r.failed + 1
<1> DEFINE x == outcome = "complete"
           done == IF x THEN r.done + 1 ELSE r.done
           failed == IF x THEN r.failed ELSE r.failed + 1
<1>1. r.done \in Nat /\ r.failed \in Nat
  BY DEF Receiver
<1>2. done \in Nat /\ failed \in Nat /\ done + failed = r.done + r.failed + 1 /\ r.done + 1 \in Nat
  BY <1>1
<1>3. CASE kind = "app"
  <2>1. Concluded(r, outcome) = [r EXCEPT !.busy = FALSE, !.done = done, !.failed = failed]
    BY <1>3 DEF Concluded
  <2> HIDE DEF done, failed
  <2> QED BY <1>2, <2>1 DEF Receiver
<1>4. CASE kind = "request" /\ x
  <2>1. Concluded(r, outcome) = [r EXCEPT !.done = r.done + 1]
    BY <1>4 DEF Concluded
  <2> QED BY <1>2, <1>4, <2>1 DEF Receiver
<1>5. CASE kind = "response" /\ outcome \in {"complete", "corrupt"} /\ r.pending
  <2>1. Concluded(r, outcome) = [r EXCEPT !.pending = FALSE, !.done = done, !.failed = failed]
    BY <1>5 DEF Concluded
  <2> HIDE DEF done, failed
  <2> QED BY <1>2, <1>5, <2>1 DEF Receiver
<1>6. CASE /\ kind # "app" /\ ~(kind = "request" /\ x)
           /\ ~(kind = "response" /\ outcome \in {"complete", "corrupt"} /\ r.pending)
  <2>1. Concluded(r, outcome) = r
    BY <1>6 DEF Concluded
  <2> QED BY <1>6, <2>1
<1> QED BY <1>3, <1>4, <1>5, <1>6

Ends ==
  \E q \in Seq(Good), outcome \in {"complete", "corrupt", "failed"} :
    /\ Len(q) = Len(rx.copies) - 1
    /\ rx' = Concluded([rx EXCEPT !.copies = q], outcome)
Concludes ==
  /\ Ends
  /\ UNCHANGED <<kind, hashOf, tx, link>> /\ NetOK
  /\ budget' \in 0 .. MaxMishaps /\ history' \in History
  /\ \A f \in {"accepted", "outOfSequence"} : history'[f] = history[f]
  /\ Injective => history'.corrupt = history.corrupt
  /\ history'.completed >= history.completed
  /\ \A m \in DOMAIN net' : m \in DOMAIN net \/ (m.type = "PRF" /\ history'.completed > 0)

LEMMA LastPartCame ==
  ASSUME Typed, NEW m \in DOMAIN net, receiveLastPart(m)
  PROVE  Concludes
<1>1. m.type = "PART" /\ Taker(m.part) <= Len(rx.copies)
  BY DEF receiveLastPart
<1>2. PICK rate \in Rates :
        Assembles(m, Filed(Offered(m.part, rate)[Taker(m.part)], m.part), Offered(m.part, rate),
                  Taker(m.part))
  BY DEF receiveLastPart
<1> DEFINE k == Taker(m.part)
           o == Offered(m.part, rate)
           c == Filed(o[k], m.part)
           q == RemoveAt(o, k)
           outcome == IF Exact(c) THEN "complete" ELSE "corrupt"
<1>3. /\ Received(c) /\ rx' = Concluded([rx EXCEPT !.copies = q], outcome)
      /\ Exchange(m, IF Exact(c) THEN One(Prf) ELSE Nothing)
      /\ Remember(IF Exact(c) THEN "completed" ELSE "corrupt")
  BY <1>2 DEF Assembles
<1>4. k \in 1 .. Len(rx.copies) /\ o \in Seq(Good) /\ Len(o) = Len(rx.copies) /\ c \in Good
  BY <1>1, FiledOne
<1> HIDE DEF k, o, c
<1>5. q \in Seq(Good) /\ Len(q) = Len(rx.copies) - 1
  BY <1>4, Removed
<1>6. outcome \in {"complete", "corrupt", "failed"}
  OBVIOUS
<1>7. history \in History /\ history.completed \in Nat
  BY DEF Typed, History
<1>8. CASE Exact(c)
  <2>1. Exchange(m, One(Prf)) /\ Remember("completed")
    BY <1>3, <1>8
  <2>2. /\ history' \in History /\ history'.completed = history.completed + 1
        /\ \A f \in {"accepted", "outOfSequence", "corrupt"} : history'[f] = history[f]
    BY <1>7, <2>1, CountsOne
  <2>3. NetOK /\ \A x \in DOMAIN net' : x \in DOMAIN net \/ x = Prf
    <3>1. Adds(DOMAIN One(Prf))
      BY <2>1, Delivered
    <3> QED BY <3>1, PutsOne, TypedMessages
  <2>4. Prf.type = "PRF"
    BY DEF Prf
  <2>5. UNCHANGED <<kind, hashOf, tx, link>> /\ budget' \in 0 .. MaxMishaps
    BY DEF receiveLastPart, Typed
  <2> HIDE DEF q, outcome
  <2>6. Ends
    BY <1>3, <1>5, <1>6 DEF Ends
  <2> QED BY <1>7, <2>2, <2>3, <2>4, <2>5, <2>6 DEF Concludes
<1>9. CASE ~Exact(c)
  <2>1. Exchange(m, Nothing) /\ Remember("corrupt")
    BY <1>3, <1>9
  <2>2. /\ history' \in History
        /\ \A f \in {"accepted", "outOfSequence", "completed"} : history'[f] = history[f]
    BY <1>7, <2>1, CountsOne
  <2>3. ~Injective
    BY <1>3, <1>4, <1>9, WholeIsExact DEF Typed
  <2>4. NetOK /\ \A x \in DOMAIN net' : x \in DOMAIN net
    BY <2>1, TakesOnly
  <2>5. UNCHANGED <<kind, hashOf, tx, link>> /\ budget' \in 0 .. MaxMishaps
    BY DEF receiveLastPart, Typed
  <2> HIDE DEF q, outcome
  <2>6. Ends
    BY <1>3, <1>5, <1>6 DEF Ends
  <2> QED BY <1>7, <2>2, <2>3, <2>4, <2>5, <2>6 DEF Concludes
<1> QED BY <1>8, <1>9

(* A copy that failed is concluded, and nothing is sent.                   *)
LEMMA OneFails ==
  ASSUME Typed, NEW q \in Seq(Good), Len(q) = Len(rx.copies) - 1,
         rx' = Concluded([rx EXCEPT !.copies = q], "failed"),
         UNCHANGED <<kind, hashOf, tx, link>>, NetOK, Quietly,
         \A m \in DOMAIN net' : m \in DOMAIN net
  PROVE  Concludes
<1>1. history.completed \in Nat
  BY DEF Typed, History
<1>2. Ends
  BY DEF Ends
<1> QED BY <1>1, <1>2 DEF Concludes, Quietly

LEMMA CancelCame ==
  ASSUME Typed, NEW m \in DOMAIN net, receiveCancel(m)
  PROVE  Concludes
<1>1. /\ rx' = Concluded([rx EXCEPT !.copies = Tail(rx.copies)], "failed") /\ rx.copies # <<>>
  BY DEF receiveCancel
<1>2. Tail(rx.copies) \in Seq(Good) /\ Len(Tail(rx.copies)) = Len(rx.copies) - 1
  <2>1. rx.copies \in Seq(Good)
    BY ReceiverFields
  <2> QED BY <1>1, <2>1
<1>3. NetOK /\ \A x \in DOMAIN net' : x \in DOMAIN net
  BY TakesOnly DEF receiveCancel
<1>4. Quietly /\ UNCHANGED <<kind, hashOf, tx, link>>
  BY Unspent DEF receiveCancel
<1> QED BY <1>1, <1>2, <1>3, <1>4, OneFails

LEMMA GaveUp ==
  ASSUME Typed, NEW i \in DOMAIN rx.copies, part_timeout(i), ~(rx.copies[i].retries > 0)
  PROVE  Concludes
<1>1. /\ rx' = Concluded([rx EXCEPT !.copies = RemoveAt(rx.copies, i)], "failed")
      /\ UNCHANGED net
  BY DEF part_timeout
<1>2. RemoveAt(rx.copies, i) \in Seq(Good) /\ Len(RemoveAt(rx.copies, i)) = Len(rx.copies) - 1
  BY ReceiverFields, Removed
<1>3. NetOK /\ \A x \in DOMAIN net' : x \in DOMAIN net
  BY <1>1, PutsNothing
<1>4. Quietly /\ UNCHANGED <<kind, hashOf, tx, link>>
  <2>1. Falls(Quiet) /\ Quiet \in BOOLEAN
    BY DEF part_timeout, Quiet
  <2> QED BY <2>1, Fell DEF part_timeout
<1> QED BY <1>1, <1>2, <1>3, <1>4, OneFails

LEMMA OneBeforeNone ==
  ASSUME NEW n \in Nat, NEW k \in Nat, NEW a \in Nat, n = k - 1, k <= a, a <= 1
  PROVE  n = 0 /\ k = 1 /\ a = 1
OBVIOUS

LEMMA ConcludesKeeps ==
  ASSUME IInv, Concludes
  PROVE  IInv'
<1>1. PICK q \in Seq(Good), outcome \in {"complete", "corrupt", "failed"} :
        /\ Len(q) = Len(rx.copies) - 1
        /\ rx' = Concluded([rx EXCEPT !.copies = q], outcome)
  BY DEF Concludes, Ends
<1>2. /\ UNCHANGED <<kind, hashOf, tx, link>> /\ NetOK /\ history' \in History
      /\ Typed /\ Held /\ Reported /\ Ordered /\ rx \in Receiver
      /\ \A f \in {"accepted", "outOfSequence"} : history'[f] = history[f]
  BY DEF Concludes, IInv, Typed
<1>3. [rx EXCEPT !.copies = q] \in Receiver
      /\ [rx EXCEPT !.copies = q].copies = q
      /\ [rx EXCEPT !.copies = q].done = rx.done
      /\ [rx EXCEPT !.copies = q].failed = rx.failed
  BY <1>2 DEF Receiver
<1>4. rx' \in Receiver /\ rx'.copies = q
      /\ (kind = "app" => rx'.busy = FALSE /\ rx'.done + rx'.failed = rx.done + rx.failed + 1)
  BY <1>1, <1>3, ConcludedIs
<1>5. /\ Len(rx.copies) \in Nat /\ Len(q) \in Nat /\ rx.copies # <<>>
      /\ Len(q) = Len(rx.copies) - 1
  <2>1. Len(rx.copies) \in Nat /\ Len(q) \in Nat
    BY <1>2, ReceiverFields
  <2>2. Len(rx.copies) # 0
    BY <1>1, <2>1
  <2>3. rx.copies # <<>>
    BY <2>2
  <2> QED BY <1>1, <2>1, <2>3
<1>6. Typed'
  <2>1. budget' \in 0 .. MaxMishaps
    BY DEF Concludes
  <2> QED BY <1>2, <1>4, <2>1, TypedStays DEF Typed
<1>7. Held'
  <2>1. tx.status # "NONE"
    BY <1>2, <1>5 DEF Held
  <2>2. ASSUME NEW m \in DOMAIN net', m.type = "PRF" PROVE history'.completed > 0
    <3>1. CASE m \in DOMAIN net
      <4>1. history.completed > 0 /\ history.completed \in Nat /\ history'.completed \in Nat
        BY <1>2, <2>2, <3>1 DEF Held, Typed, History
      <4>2. history'.completed >= history.completed
        BY DEF Concludes
      <4> QED BY <4>1, <4>2
    <3>2. CASE m \notin DOMAIN net
      BY <3>2 DEF Concludes
    <3> QED BY <3>1, <3>2
  <2>3. tx' = tx
    BY <1>2
  <2> QED BY <1>2, <2>1, <2>2, <2>3 DEF Held
<1>8. Reported'
  <2>1. kind' = kind /\ link' = link /\ history'.accepted = history.accepted
    BY <1>2
  <2>2. ~Up("rx") => FALSE
    BY <1>2, <1>5 DEF Reported
  <2>3. CASE kind = "app"
    <3>1. Len(rx.copies) <= 1 /\ history.accepted = rx.done + rx.failed + Len(rx.copies)
      BY <1>2, <2>3 DEF Reported, EveryResourceIsReported
    <3>2. Len(q) = 0 /\ Len(rx.copies) = 1
      <4>1. Len(rx.copies) <= 1 /\ 1 \in Nat /\ 1 <= 1
        BY <3>1
      <4> HIDE <3>1
      <4> QED BY <1>5, <4>1, OneBeforeNone
    <3>3. q = <<>>
      BY <3>2
    <3>4. rx'.busy = FALSE /\ rx'.done + rx'.failed = rx.done + rx.failed + 1
      BY <1>4, <2>3
    <3>5. rx.done \in Nat /\ rx.failed \in Nat /\ rx'.done \in Nat /\ rx'.failed \in Nat
      BY <1>2, <1>4 DEF Receiver
    <3>6. history'.accepted = rx'.done + rx'.failed + Len(q)
      BY <2>1, <3>1, <3>2, <3>4, <3>5
    <3>7. Len(q) <= 1
      BY <3>2
    <3> HIDE <3>1
    <3>8. EveryResourceIsReported'
      BY <1>4, <3>3, <3>4, <3>6, <3>7 DEF EveryResourceIsReported
    <3> QED BY <2>1, <2>2, <3>8 DEF Reported, Up
  <2>4. CASE kind # "app"
    BY <2>1, <2>2, <2>4 DEF Reported, EveryResourceIsReported, Up
  <2> QED BY <2>3, <2>4
<1>9. Ordered'
  <2>1. (Injective' <=> Injective) /\ Parts' = Parts
    BY <1>2, TypesFixed
  <2>2. CASE ~Injective
    BY <2>1, <2>2 DEF Ordered
  <2>3. CASE Injective /\ ~(history.accepted <= 1)
    BY <1>2, <2>1, <2>3 DEF Ordered, Concludes
  <2>4. CASE Injective /\ history.accepted <= 1
    <3>1. OneCopy /\ history.corrupt = 0
      BY <1>2, <2>4 DEF Ordered
    <3>2. Len(q) = 0 /\ history.accepted = 1
      <4>1. history.accepted \in Nat /\ Len(rx.copies) <= history.accepted
        BY <1>2, <3>1 DEF OneCopy, Typed, History
      <4> QED BY <1>5, <2>4, <4>1, OneBeforeNone
    <3>3. \A m \in DOMAIN net' : m.type = "REQ" => m \in DOMAIN net
      BY DEF Concludes
    <3>4. OneCopy'
      BY <1>2, <1>4, <3>1, <3>2, <3>3 DEF OneCopy
    <3>5. history'.corrupt = 0
      BY <2>4, <3>1 DEF Concludes
    <3> QED BY <3>4, <3>5 DEF Ordered
  <2> QED BY <2>2, <2>3, <2>4
<1> QED BY <1>6, <1>7, <1>8, <1>9 DEF IInv

-----------------------------------------------------------------------------
(* The link closes at one end; and the steps of the network alone.         *)
Closes(end) ==
  /\ Closed(end) /\ UNCHANGED <<kind, hashOf>> /\ NetOK /\ Quietly
  /\ \A m \in DOMAIN net' : m \in DOMAIN net \/ m.type = "LINKCLOSE"
Drops ==
  /\ UNCHANGED <<kind, hashOf, tx, rx, link>> /\ NetOK /\ Quietly
  /\ \A m \in DOMAIN net' : m \in DOMAIN net

LEMMA TornDown ==
  ASSUME Typed, NEW end \in {"tx", "rx"}, teardown(end)
  PROVE  Closes(end)
<1>1. Quietly
  BY Spent DEF teardown
<1>2. Close(Other(end)) \in Message /\ Close(Other(end)).type = "LINKCLOSE"
  BY TypedMessages DEF Other, Close
<1>3. NetOK /\ \A x \in DOMAIN net' : x \in DOMAIN net \/ x = Close(Other(end))
  <2>1. Adds(DOMAIN One(Close(Other(end))))
    BY Emitted DEF teardown
  <2> QED BY <1>2, <2>1, PutsOne
<1> QED BY <1>1, <1>2, <1>3 DEF Closes, teardown

LEMMA TornDownByPeer ==
  ASSUME Typed, NEW m \in DOMAIN net, teardown_packet(m)
  PROVE  Drops \/ \E end \in {"tx", "rx"} : Closes(end)
<1>1. NetOK /\ \A x \in DOMAIN net' : x \in DOMAIN net
  BY TakesOnly DEF teardown_packet
<1>2. Quietly
  <2>1. UNCHANGED budget /\ UNCHANGED history
    BY DEF teardown_packet
  <2> QED BY <2>1, Unspent
<1>3. m.to \in {"tx", "rx"}
  BY MessageFields DEF Typed, teardown_packet
<1>4. CASE Up(m.to)
  <2>1. Closes(m.to)
    BY <1>1, <1>2, <1>4 DEF Closes, teardown_packet
  <2> QED BY <1>3, <2>1
<1>5. CASE ~Up(m.to)
  BY <1>1, <1>2, <1>5 DEF Drops, teardown_packet
<1> QED BY <1>4, <1>5

LEMMA WentStale ==
  ASSUME Typed, NEW end \in {"tx", "rx"}, link_watchdog(end)
  PROVE  Closes(end)
<1>1. NetOK /\ \A x \in DOMAIN net' : x \in DOMAIN net
  BY PutsNothing DEF link_watchdog
<1>2. Quietly
  BY Unspent DEF link_watchdog
<1> QED BY <1>1, <1>2 DEF Closes, link_watchdog

LEMMA Dropped ==
  ASSUME Typed, NEW m \in DOMAIN net, ignore(m) \/ lose(m) \/ repeat(m)
  PROVE  Drops
<1>1. CASE ignore(m)
  <2>1. NetOK /\ \A x \in DOMAIN net' : x \in DOMAIN net
    BY <1>1, TakesOnly DEF ignore
  <2>2. Quietly
    BY <1>1, Unspent DEF ignore
  <2> QED BY <1>1, <2>1, <2>2 DEF Drops, ignore
<1>2. CASE lose(m)
  <2>1. NetOK /\ \A x \in DOMAIN net' : x \in DOMAIN net
    BY <1>2, TakesOnly DEF lose
  <2>2. Quietly
    BY <1>2, Spent DEF lose
  <2> QED BY <1>2, <2>1, <2>2 DEF Drops, lose
<1>3. CASE repeat(m)
  <2>1. NetOK /\ \A x \in DOMAIN net' : x \in DOMAIN net
    <3>1. Adds(DOMAIN One(m)) /\ m \in Message
      BY <1>3, Emitted DEF repeat, Typed
    <3> QED BY <3>1, PutsOne
  <2>2. Quietly
    BY <1>3, Spent DEF repeat
  <2> QED BY <1>3, <2>1, <2>2 DEF Drops, repeat
<1> QED BY <1>1, <1>2, <1>3

LEMMA DropsKeeps ==
  ASSUME IInv, Drops
  PROVE  IInv'
<1>1. /\ UNCHANGED <<kind, hashOf, tx, rx, link>> /\ NetOK /\ Quietly
      /\ Typed /\ Held /\ Reported /\ Ordered
      /\ \A m \in DOMAIN net' : m \in DOMAIN net
  BY DEF Drops, IInv
<1>2. Typed'
  BY <1>1, TypedStays DEF Typed, Quietly
<1>3. Held'
  BY <1>1 DEF Held, Quietly
<1>4. Reported'
  BY <1>1 DEF Reported, EveryResourceIsReported, Up, Quietly
<1>5. Ordered'
  <2>1. (Injective' <=> Injective) /\ Parts' = Parts
    BY <1>1, TypesFixed
  <2>2. OneCopy => OneCopy'
    BY <1>1, <2>1 DEF OneCopy, Aligned, Within, Height, Quietly
  <2> QED BY <1>1, <2>1, <2>2 DEF Ordered, Quietly
<1> QED BY <1>2, <1>3, <1>4, <1>5 DEF IInv

LEMMA SenderCloses ==
  ASSUME IInv, Closes("tx")
  PROVE  IInv'
<1>1. /\ UNCHANGED <<kind, hashOf, rx>> /\ NetOK /\ Quietly
      /\ link' = [link EXCEPT !["tx"] = "CLOSED"]
      /\ tx' = IF tx.held THEN Told(tx, "FAILED") ELSE tx
      /\ Typed /\ Held /\ Reported /\ Ordered /\ tx \in Sender
      /\ \A m \in DOMAIN net' : m \in DOMAIN net \/ m.type = "LINKCLOSE"
  BY DEF Closes, Closed, IInv, Typed
<1>2. /\ tx' \in Sender /\ (tx'.status = "NONE" => tx.status = "NONE")
      /\ tx'.held => tx'.status \in {"ADVERTISED", "TRANSFERRING", "AWAITING_PROOF", "FAILED"}
  BY <1>1, ToldIs DEF Held
<1>3. link' \in [{"tx", "rx"} -> {"ACTIVE", "CLOSED"}] /\ link'["rx"] = link["rx"]
  BY <1>1 DEF Typed
<1>4. Typed'
  BY <1>1, <1>2, <1>3, TypedStays DEF Typed, Quietly
<1>5. Held'
  BY <1>1, <1>2 DEF Held, Quietly
<1>6. Reported'
  BY <1>1, <1>3 DEF Reported, EveryResourceIsReported, Up, Quietly
<1>7. Ordered'
  <2>1. (Injective' <=> Injective) /\ Parts' = Parts
    BY <1>1, TypesFixed
  <2>2. OneCopy => OneCopy'
    BY <1>1, <2>1 DEF OneCopy, Aligned, Within, Height, Quietly
  <2> QED BY <1>1, <2>1, <2>2 DEF Ordered, Quietly
<1> QED BY <1>4, <1>5, <1>6, <1>7 DEF IInv

LEMMA ReceiverCloses ==
  ASSUME IInv, Closes("rx")
  PROVE  IInv'
<1>1. /\ UNCHANGED <<kind, hashOf, tx>> /\ NetOK /\ Quietly
      /\ link' = [link EXCEPT !["rx"] = "CLOSED"]
      /\ rx' = [(IF rx.copies # <<>> THEN Concluded(rx, "failed") ELSE rx) EXCEPT !.copies = <<>>]
      /\ Typed /\ Held /\ Reported /\ Ordered /\ rx \in Receiver
      /\ \A m \in DOMAIN net' : m \in DOMAIN net \/ m.type = "LINKCLOSE"
  BY DEF Closes, Closed, IInv, Typed
<1>2. PICK r : r = IF rx.copies # <<>> THEN Concluded(rx, "failed") ELSE rx
  OBVIOUS
<1>3. r \in Receiver
  BY <1>1, <1>2, ConcludedIs
<1>4. rx' = [r EXCEPT !.copies = <<>>] /\ <<>> \in Seq(Good)
  BY <1>1, <1>2
<1>5. rx' \in Receiver /\ rx'.copies = <<>> /\ rx'.done = r.done /\ rx'.failed = r.failed
  BY <1>3, <1>4 DEF Receiver
<1>6. link' \in [{"tx", "rx"} -> {"ACTIVE", "CLOSED"}] /\ link'["rx"] = "CLOSED"
  BY <1>1 DEF Typed
<1>7. Typed'
  BY <1>1, <1>5, <1>6, TypedStays DEF Typed, Quietly
<1>8. Held'
  BY <1>1, <1>5 DEF Held, Quietly
<1>9. Reported'
  <2>1. ~Up("rx")'
    BY <1>6 DEF Up
  <2>2. CASE kind = "app"
    <3>1. Len(rx.copies) <= 1 /\ history.accepted = rx.done + rx.failed + Len(rx.copies)
      BY <1>1, <2>2 DEF Reported, EveryResourceIsReported
    <3>2. rx.done \in Nat /\ rx.failed \in Nat /\ r.done \in Nat /\ r.failed \in Nat
      BY <1>1, <1>3 DEF Receiver
    <3>3. rx.done + rx.failed + Len(rx.copies) = r.done + r.failed
      <4>1. CASE rx.copies = <<>>
        <5>1. Len(rx.copies) = 0
          BY <4>1
        <5> QED BY <1>2, <3>2, <4>1, <5>1
      <4>2. CASE rx.copies # <<>>
        <5>1. Len(rx.copies) = 1
          <6>1. rx.copies \in Seq(Good) /\ Len(rx.copies) \in Nat
            BY <1>1, ReceiverFields
          <6>2. Len(rx.copies) # 0
            BY <4>2, <6>1
          <6>3. Len(rx.copies) <= 1
            BY <3>1
          <6> DEFINE n == Len(rx.copies)
          <6>4. n \in Nat /\ n # 0 /\ n <= 1
            BY <6>1, <6>2, <6>3
          <6> HIDE DEF n
          <6> HIDE <3>1, <6>1
          <6>5. n = 1
            BY <6>4
          <6> QED BY <6>5 DEF n
        <5>2. r.done + r.failed = rx.done + rx.failed + 1
          BY <1>1, <1>2, <2>2, <4>2, ConcludedIs
        <5> QED BY <5>1, <5>2
      <4> QED BY <4>1, <4>2
    <3>4. history'.accepted = rx'.done + rx'.failed + 0
      BY <1>1, <1>5, <3>1, <3>2, <3>3 DEF Quietly
    <3>5. Len(rx'.copies) = 0
      BY <1>5
    <3>6. EveryResourceIsReported'
      BY <2>1, <3>4, <3>5 DEF EveryResourceIsReported
    <3> QED BY <1>5, <3>6 DEF Reported
  <2>3. CASE kind # "app"
    BY <1>1, <1>5, <2>3 DEF Reported, EveryResourceIsReported
  <2> QED BY <2>2, <2>3
<1>10. Ordered'
  <2>1. (Injective' <=> Injective) /\ Parts' = Parts
    BY <1>1, TypesFixed
  <2>2. ASSUME OneCopy PROVE OneCopy'
    <3>1. Len(rx'.copies) = 0
      BY <1>5
    <3>2. history.accepted \in Nat
      BY <1>1 DEF Typed, History
    <3>3. /\ history'.accepted = history.accepted /\ history'.outOfSequence = history.outOfSequence
      BY <1>1 DEF Quietly
    <3> QED BY <1>1, <2>2, <3>1, <3>2, <3>3 DEF OneCopy
  <2> QED BY <1>1, <2>1, <2>2 DEF Ordered, Quietly
<1> QED BY <1>7, <1>8, <1>9, <1>10 DEF IInv

-----------------------------------------------------------------------------
(* The invariant holds at the start, and every step keeps it.              *)
LEMMA Starts ==
  ASSUME Init
  PROVE  IInv
<1>1. kind \in Kinds /\ hashOf \in HashMaps /\ MaxMishaps \in Nat
  BY TransferAssumption DEF Init
<1>2. tx \in Sender /\ tx.held = FALSE
  <2>1. <<>> \in Seq(Nat) /\ <<>> \in Seq({"COMPLETE", "FAILED"})
    OBVIOUS
  <2> QED BY <2>1 DEF Init, Sender, Status
<1>3. rx \in Receiver /\ rx.copies = <<>> /\ rx.busy = FALSE /\ rx.done = 0 /\ rx.failed = 0
  <2>1. <<>> \in Seq(Good) /\ (kind = "response") \in BOOLEAN
    OBVIOUS
  <2> QED BY <2>1 DEF Init, Receiver
<1>4. DOMAIN net = {} /\ IsFiniteSet(DOMAIN net)
  <2>1. DOMAIN net = {}
    BY BagsHold DEF Init, Nothing
  <2> QED BY <2>1, FS_EmptySet
<1>5. /\ history \in History /\ history.accepted = 0 /\ history.corrupt = 0
      /\ history.outOfSequence = 0
  BY DEF Init, History
<1>6. Typed
  BY <1>1, <1>2, <1>3, <1>4, <1>5 DEF Init, Typed
<1>7. Held
  BY <1>2, <1>3, <1>4 DEF Held
<1>8. Len(rx.copies) = 0
  BY <1>3
<1>9. Reported
  BY <1>3, <1>5, <1>8 DEF Reported, EveryResourceIsReported
<1>10. Ordered
  BY <1>4, <1>5, <1>8 DEF Ordered, OneCopy
<1> QED BY <1>6, <1>7, <1>9, <1>10 DEF IInv

LEMMA Steps ==
  ASSUME IInv, [Next]_vars
  PROVE  IInv'
<1> USE DEF IInv
<1>1. CASE init_outbound
  BY <1>1, Started, SenderKeeps
<1>2. ASSUME NEW m \in DOMAIN net, Handle(m) PROVE IInv'
  <2>1. CASE request(m)
    BY <2>1, Requested, SenderKeeps
  <2>2. CASE requestOutOfSequence(m)
    BY <2>2, RequestedOutOfSequence, SenderKeeps
  <2>3. CASE requestAfterCancel(m)
    BY <2>3, RequestedTooLate, SenderKeeps
  <2>4. CASE validate_proof(m)
    BY <2>4, ProofValidated, SenderKeeps
  <2>5. CASE accept(m)
    BY <2>5, Accepts
  <2>6. CASE receivePartInVain(m)
    BY <2>6, PartCameInVain, TouchesKeeps
  <2>7. CASE receivePart(m)
    BY <2>7, PartCame, TouchesKeeps
  <2>8. CASE receiveLastPart(m)
    BY <2>8, LastPartCame, ConcludesKeeps
  <2>9. CASE hashmap_update(m)
    BY <2>9, HashmapUpdated, TouchesKeeps
  <2>10. CASE receiveCancel(m)
    BY <2>10, CancelCame, ConcludesKeeps
  <2>11. CASE teardown_packet(m)
    BY <2>11, TornDownByPeer, DropsKeeps, SenderCloses, ReceiverCloses
  <2>12. CASE ignore(m)
    BY <2>12, Dropped, DropsKeeps
  <2> QED BY <1>2, <2>1, <2>2, <2>3, <2>4, <2>5, <2>6, <2>7, <2>8, <2>9, <2>10, <2>11, <2>12
          DEF Handle
<1>3. CASE Watchdogs
  <2>1. CASE adv_timeout \/ request_timeout \/ proof_timeout
    BY <2>1, WatchedBySender, SenderKeeps
  <2>2. CASE sweep
    BY <2>2, Swept, SenderKeeps
  <2>3. ASSUME NEW i \in DOMAIN rx.copies, part_timeout(i) PROVE IInv'
    BY <2>3, AskedAgain, GaveUp, TouchesKeeps, ConcludesKeeps
  <2>4. ASSUME NEW end \in {"tx", "rx"}, link_watchdog(end) PROVE IInv'
    BY <2>4, WentStale, SenderCloses, ReceiverCloses
  <2> QED BY <1>3, <2>1, <2>2, <2>3, <2>4 DEF Watchdogs
<1>4. CASE Fault
  <2>1. ASSUME NEW end \in {"tx", "rx"}, teardown(end) PROVE IInv'
    BY <2>1, TornDown, SenderCloses, ReceiverCloses
  <2>2. ASSUME NEW m \in DOMAIN net, lose(m) \/ repeat(m) PROVE IInv'
    BY <2>2, Dropped, DropsKeeps
  <2> QED BY <1>4, <2>1, <2>2 DEF Fault
<1>5. CASE UNCHANGED vars
  <2>1. Drops
    <3>1. UNCHANGED net /\ UNCHANGED <<budget, history>> /\ UNCHANGED <<kind, hashOf, tx, rx, link>>
      BY <1>5 DEF vars
    <3> QED BY <3>1, PutsNothing, Unspent DEF Drops
  <2> QED BY <2>1, DropsKeeps
<1> QED BY <1>1, <1>2, <1>3, <1>4, <1>5 DEF Next

-----------------------------------------------------------------------------
(* The inductive invariant holds throughout.                               *)
THEOREM Invariance == Spec => []IInv
<1>1. Init => IInv
  BY Starts
<1>2. IInv /\ [Next]_vars => IInv'
  BY Steps
<1> QED BY <1>1, <1>2, PTL DEF Spec

(* Every value has its type, and no copy's window falls below its lower    *)
(* bound, of which receive_part takes an unsigned difference.              *)
THEOREM Types == Spec => []TypeOK
<1>1. IInv => TypeOK
  <2>1. SUFFICES ASSUME IInv PROVE TypeOK
    OBVIOUS
  <2>2. Typed /\ rx \in Receiver
    BY <2>1 DEF IInv, Typed
  <2>3. ASSUME NEW i \in DOMAIN rx.copies
        PROVE  rx.copies[i] \in Copy /\ WindowAboveMin(rx.copies[i])
    <3>1. rx.copies[i] \in CopyOK
      BY <2>2, ReceiverFields, GoodIsOK
    <3> QED BY <3>1 DEF CopyOK
  <2>4. rx.copies \in Seq(Copy)
    <3>1. rx.copies \in Seq(Good)
      BY <2>2, ReceiverFields
    <3>2. Good \subseteq Copy
      BY DEF Good, CopyOK
    <3> QED BY <3>1, <3>2
  <2>5. rx \in [copies : Seq(Copy), busy : BOOLEAN, pending : BOOLEAN, done : Nat, failed : Nat]
    BY <2>2, <2>4 DEF Receiver
  <2> QED BY <2>2, <2>3, <2>5 DEF TypeOK, Typed, Sender, History
<1> QED BY <1>1, Invariance, PTL

(* onResAdvertised and onResConcluded: what rnsd accepts is reported to it *)
(* once, and its slot is busy while the link holds the resource.           *)
THEOREM Reports == Spec => []EveryResourceIsReported
<1>1. IInv => EveryResourceIsReported
  BY DEF IInv, Reported
<1> QED BY <1>1, Invariance, PTL

(* receive_part, hashmap_update and request: no assembly is corrupt and no *)
(* request is out of sequence unless two parts share a map hash, or two    *)
(* advertisements of the resource were accepted.                           *)
THEOREM Clean == Spec => []CleanUnlessHashesCollide
<1>1. IInv => CleanUnlessHashesCollide
  <2>1. SUFFICES ASSUME IInv, Injective
                 PROVE  history.corrupt = 0 /\ (history.outOfSequence > 0 => history.accepted > 1)
    BY DEF CleanUnlessHashesCollide
  <2>2. history.accepted \in Nat /\ history.outOfSequence \in Nat
    BY <2>1 DEF IInv, Typed, History
  <2>3. history.corrupt = 0 /\ (history.accepted <= 1 => history.outOfSequence = 0)
    BY <2>1 DEF IInv, Ordered, OneCopy
  <2> QED BY <2>2, <2>3
<1> QED BY <1>1, Invariance, PTL

-----------------------------------------------------------------------------
(* The transfer implements the service.                                    *)
Offering(t) == t.status \in {"ADVERTISED", "TRANSFERRING", "AWAITING_PROOF"}

LEMMA Stages ==
  /\ tx.status = "NONE" => SenderStage = "idle"
  /\ Offering(tx) => SenderStage = "offering"
  /\ tx.status = "COMPLETE" => SenderStage = "done"
  /\ tx.status = "FAILED" /\ tx.held => SenderStage = "cancelled"
  /\ tx.status = "FAILED" /\ ~tx.held => SenderStage = "failed"
BY DEF SenderStage, Offering

LEMMA StagesNext ==
  /\ tx'.status = "NONE" => SenderStage' = "idle"
  /\ Offering(tx') => SenderStage' = "offering"
  /\ tx'.status = "COMPLETE" => SenderStage' = "done"
  /\ tx'.status = "FAILED" /\ tx'.held => SenderStage' = "cancelled"
  /\ tx'.status = "FAILED" /\ ~tx'.held => SenderStage' = "failed"
BY DEF SenderStage, Offering

LEMMA Rests ==
  ASSUME tx'.status = tx.status, tx'.held = tx.held, history'.completed = history.completed
  PROVE  [Service!Next]_Service!svars
<1>1. SenderStage' = SenderStage
  BY DEF SenderStage
<1> QED BY <1>1 DEF Service!svars

(* What the link holds has not ended.                                      *)
LEMMA HeldIs ==
  ASSUME Held, tx.held
  PROVE  Offering(tx) \/ tx.status = "FAILED"
BY DEF Held, Offering

LEMMA Ceases ==
  ASSUME Typed, Held, tx.held, tx' = Told(tx, "FAILED"), history'.completed = history.completed
  PROVE  [Service!Next]_Service!svars
<1>1. tx'.status = "FAILED" /\ tx'.held = FALSE
  BY ToldIs DEF Typed
<1>2. SenderStage \in {"offering", "cancelled"}
  BY HeldIs, Stages
<1>3. SenderStage' = "failed"
  BY <1>1, StagesNext
<1> QED BY <1>2, <1>3 DEF Service!Next, Service!GiveUp

LEMMA SenderServes ==
  ASSUME IInv, NEW m \in DOMAIN net,
         request(m) \/ requestOutOfSequence(m) \/ requestAfterCancel(m) \/ validate_proof(m)
  PROVE  [Service!Next]_Service!svars
<1>1. Typed /\ Held /\ tx \in Sender
  BY DEF IInv, Typed
<1>2. CASE request(m)
  <2>1. tx.held /\ tx.status # "FAILED"
    BY <1>2 DEF request, Answers
  <2>2. Offering(tx')
    <3>1. tx'.status \in {"AWAITING_PROOF", "TRANSFERRING"}
      BY <1>1, <1>2 DEF request, Sender
    <3> QED BY <3>1 DEF Offering
  <2>3. SenderStage = "offering" /\ SenderStage' = "offering"
    BY <1>1, <2>1, <2>2, HeldIs, Stages, StagesNext
  <2>4. history' = history
    BY <1>2 DEF request
  <2> QED BY <2>3, <2>4 DEF Service!svars
<1>3. CASE requestOutOfSequence(m)
  <2>1. tx.held /\ tx.status # "FAILED"
    BY <1>3 DEF requestOutOfSequence, Answers
  <2>2. tx'.status = "FAILED" /\ tx'.held
    <3> DEFINE sent == tx.sent \cup {FirstWith(p) : p \in m.wanted}
               seen == Noted(tx.seen, m.id)
               noted == [tx EXCEPT !.seen = seen, !.sent = sent, !.retries = MAX_RETRIES]
               t == Told(noted, "FAILED")
    <3>1. m.type = "REQ" /\ MAX_RETRIES \in Nat
      BY <1>3, TransferAssumption DEF requestOutOfSequence, Answers
    <3>2. sent \in SUBSET Positions /\ seen \in Seq(Nat)
      BY <1>1, <3>1, SentIsTyped
    <3>3. tx' = [t EXCEPT !.held = TRUE]
      BY <1>3 DEF requestOutOfSequence
    <3>4. noted \in Sender
      <4> HIDE DEF sent, seen
      <4> QED BY <1>1, <3>1, <3>2 DEF Sender
    <3>5. t \in Sender /\ t.status = "FAILED"
      <4> HIDE DEF noted
      <4> QED BY <3>4, ToldIs
    <3> HIDE DEF t
    <3> QED BY <3>3, <3>5 DEF Sender
  <2>3. SenderStage = "offering" /\ SenderStage' = "cancelled"
    BY <1>1, <2>1, <2>2, HeldIs, Stages, StagesNext
  <2>4. history'.completed = history.completed
    <3>1. Remember("outOfSequence") /\ history \in History
      BY <1>1, <1>3 DEF requestOutOfSequence, Typed
    <3> QED BY <3>1, CountsOne
  <2> QED BY <2>3, <2>4 DEF Service!Next, Service!Cancel
<1>4. CASE requestAfterCancel(m)
  <2>1. tx'.status = tx.status /\ tx'.held = tx.held /\ history' = history
    BY <1>1, <1>4 DEF requestAfterCancel, Sender
  <2> QED BY <2>1, Rests
<1>5. CASE validate_proof(m)
  <2>1. tx.held /\ m.type = "PRF" /\ tx' = Told(tx, "COMPLETE") /\ history' = history
    BY <1>5 DEF validate_proof
  <2>2. history.completed > 0
    BY <1>1, <2>1 DEF Held
  <2>3. tx'.status = "COMPLETE"
    BY <1>1, <2>1, ToldIs
  <2>4. SenderStage \in {"offering", "cancelled"} /\ SenderStage' = "done"
    BY <1>1, <2>1, <2>3, HeldIs, Stages, StagesNext
  <2> QED BY <2>1, <2>2, <2>4 DEF Service!Next, Service!Confirm
<1> QED BY <1>2, <1>3, <1>4, <1>5

LEMMA WatchdogsServe ==
  ASSUME IInv, adv_timeout \/ request_timeout \/ proof_timeout \/ sweep
  PROVE  [Service!Next]_Service!svars
<1>1. Typed /\ Held /\ tx \in Sender
  BY DEF IInv, Typed
<1>2. history'.completed = history.completed
  <2>1. CASE sweep
    BY <2>1 DEF sweep
  <2>2. CASE adv_timeout \/ request_timeout \/ proof_timeout
    <3>1. SenderStep
      BY <1>1, <2>2, WatchedBySender
    <3> QED BY <3>1 DEF SenderStep
  <2> QED BY <2>1, <2>2
<1>3. tx.held
  BY DEF adv_timeout, request_timeout, proof_timeout, sweep, Watched
<1>4. CASE CancelSending
  BY <1>1, <1>2, <1>3, <1>4, Ceases DEF CancelSending
<1>5. CASE tx' = [tx EXCEPT !.retries = @ - 1]
  <2>1. tx'.status = tx.status /\ tx'.held = tx.held
    BY <1>1, <1>5 DEF Sender
  <2> QED BY <1>2, <2>1, Rests
<1>6. CASE sweep
  <2>1. tx.status = "FAILED" /\ tx'.status = "FAILED" /\ tx'.held = FALSE
    BY <1>1, <1>6 DEF sweep, Watched, Sender
  <2>2. SenderStage = "cancelled" /\ SenderStage' = "failed"
    BY <1>3, <2>1, Stages, StagesNext
  <2> QED BY <1>2, <2>2 DEF Service!Next, Service!GiveUp
<1> QED BY <1>4, <1>5, <1>6 DEF adv_timeout, request_timeout, proof_timeout

(* The receiver delivers when it assembles what was sent.                  *)
LEMMA ReceiverServes ==
  ASSUME IInv, NEW m \in DOMAIN net, receiveLastPart(m)
  PROVE  [Service!Next]_Service!svars
<1>1. Typed /\ Held /\ history \in History
  BY DEF IInv, Typed
<1>2. tx' = tx /\ m.type = "PART" /\ (Remember("completed") \/ Remember("corrupt"))
  BY DEF receiveLastPart, Assembles
<1>3. SenderStage' = SenderStage
  BY <1>2 DEF SenderStage
<1>4. CASE Remember("corrupt")
  <2>1. history'.completed = history.completed
    BY <1>1, <1>4, CountsOne
  <2> QED BY <1>3, <2>1 DEF Service!svars
<1>5. CASE Remember("completed")
  <2>1. history'.completed = history.completed + 1
    BY <1>1, <1>5, CountsOne
  <2>2. tx.status # "NONE" /\ tx \in Sender
    BY <1>1, <1>2 DEF Held, Typed
  <2>3. tx.status \in Status
    BY <2>2 DEF Sender
  <2>4. SenderStage # "idle"
    BY <2>2, <2>3, Stages DEF Status, Offering
  <2> QED BY <1>3, <2>1, <2>4 DEF Service!Next, Service!Deliver
<1> QED BY <1>2, <1>4, <1>5

LEMMA ClosingServes ==
  ASSUME IInv, NEW end \in {"tx", "rx"}, Closes(end)
  PROVE  [Service!Next]_Service!svars
<1>1. Typed /\ Held /\ history'.completed = history.completed
  BY DEF IInv, Closes, Quietly
<1>2. CASE end = "tx" /\ tx.held
  BY <1>1, <1>2, Ceases DEF Closes, Closed
<1>3. CASE ~(end = "tx" /\ tx.held)
  <2>1. tx' = tx
    BY <1>3 DEF Closes, Closed
  <2> QED BY <1>1, <2>1, Rests
<1> QED BY <1>2, <1>3

LEMMA StepsServe ==
  ASSUME IInv, [Next]_vars
  PROVE  [Service!Next]_Service!svars
<1>1. Typed /\ Held /\ history \in History
  BY DEF IInv, Typed
<1>2. CASE init_outbound
  <2>1. tx.status = "NONE" /\ tx'.status = "ADVERTISED" /\ history' = history
    BY <1>1, <1>2 DEF init_outbound, Typed, Sender
  <2>2. SenderStage = "idle" /\ SenderStage' = "offering"
    BY <2>1, Stages, StagesNext DEF Offering
  <2> QED BY <2>1, <2>2 DEF Service!Next, Service!Offer
<1>3. CASE Touches \/ Drops
  <2>1. tx' = tx /\ history'.completed = history.completed
    BY <1>3 DEF Touches, Drops, Quietly
  <2> QED BY <2>1, Rests
<1>4. ASSUME NEW m \in DOMAIN net, Handle(m) PROVE [Service!Next]_Service!svars
  <2>1. CASE request(m) \/ requestOutOfSequence(m) \/ requestAfterCancel(m) \/ validate_proof(m)
    BY <2>1, SenderServes
  <2>2. CASE accept(m)
    <3>1. tx' = tx /\ Remember("accepted")
      BY <2>2 DEF accept
    <3>2. history'.completed = history.completed
      BY <1>1, <3>1, CountsOne
    <3> QED BY <3>1, <3>2, Rests
  <2>3. CASE receivePartInVain(m) \/ receivePart(m) \/ hashmap_update(m)
    BY <1>1, <1>3, <2>3, PartCameInVain, PartCame, HashmapUpdated
  <2>4. CASE receiveLastPart(m)
    BY <2>4, ReceiverServes
  <2>5. CASE receiveCancel(m)
    <3>1. tx' = tx /\ history' = history
      BY <2>5 DEF receiveCancel
    <3> QED BY <3>1, Rests
  <2>6. CASE teardown_packet(m)
    BY <1>1, <1>3, <2>6, TornDownByPeer, ClosingServes
  <2>7. CASE ignore(m)
    BY <1>1, <1>3, <2>7, Dropped
  <2> QED BY <1>4, <2>1, <2>2, <2>3, <2>4, <2>5, <2>6, <2>7 DEF Handle
<1>5. CASE Watchdogs
  <2>1. CASE adv_timeout \/ request_timeout \/ proof_timeout \/ sweep
    BY <2>1, WatchdogsServe
  <2>2. ASSUME NEW i \in DOMAIN rx.copies, part_timeout(i) PROVE [Service!Next]_Service!svars
    <3>1. Falls(Quiet) /\ Quiet \in BOOLEAN /\ tx' = tx
      BY <2>2 DEF part_timeout, Quiet
    <3>2. Quietly
      BY <1>1, <3>1, Fell
    <3> QED BY <3>1, <3>2, Rests DEF Quietly
  <2>3. ASSUME NEW end \in {"tx", "rx"}, link_watchdog(end) PROVE [Service!Next]_Service!svars
    BY <1>1, <2>3, WentStale, ClosingServes
  <2> QED BY <1>5, <2>1, <2>2, <2>3 DEF Watchdogs
<1>6. CASE Fault
  <2>1. ASSUME NEW end \in {"tx", "rx"}, teardown(end) PROVE [Service!Next]_Service!svars
    BY <1>1, <2>1, TornDown, ClosingServes
  <2>2. ASSUME NEW m \in DOMAIN net, lose(m) \/ repeat(m) PROVE [Service!Next]_Service!svars
    BY <1>1, <1>3, <2>2, Dropped
  <2> QED BY <1>6, <2>1, <2>2 DEF Fault
<1>7. CASE UNCHANGED vars
  <2>1. tx' = tx /\ history' = history
    BY <1>7 DEF vars
  <2> QED BY <2>1, Rests
<1> QED BY <1>2, <1>4, <1>5, <1>6, <1>7 DEF Next

(* validate_proof: the sender is told COMPLETE only of a resource that the *)
(* receiver assembled whole, and told once; each step is one of the        *)
(* service's or changes nothing of it.                                     *)
THEOREM TransferRefines == Spec => ImplementsService
<1>1. Init => Service!Init
  <2>1. SUFFICES ASSUME Init PROVE SenderStage = "idle" /\ history.completed = 0
    BY DEF Service!Init
  <2>2. tx.status = "NONE" /\ history.completed = 0
    BY <2>1 DEF Init
  <2> QED BY <2>2, Stages
<1>2. IInv /\ [Next]_vars => [Service!Next]_Service!svars
  BY StepsServe
<1> QED BY <1>1, <1>2, Invariance, PTL DEF Spec, ImplementsService, Service!Spec
=============================================================================
