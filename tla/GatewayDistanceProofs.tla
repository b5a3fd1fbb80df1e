------------------------ MODULE GatewayDistanceProofs ------------------------
(***************************************************************************)
(* Proofs about GatewayDistance, for every value of its constants: any     *)
(* community, whoever hears whom, any ceiling and horizon, any number of   *)
(* losses, restarts and departures.                                        *)
(***************************************************************************)
EXTENDS GatewayDistance, WellFoundedInduction, TLAPS

-----------------------------------------------------------------------------
(* A set of naturals that is not empty has a least one.                    *)
Less == {ss \in Nat \X Nat : ss[1] < ss[2]}

LEMMA LessIsWellFounded == IsWellFoundedOn(Less, Nat)
BY NatLessThanWellFounded DEF OpToRel, Less

LEMMA Least ==
  ASSUME NEW T, T \subseteq Nat, T # {}
  PROVE  \E x \in T : \A y \in T : x <= y
<1>1. PICK x \in T : \A y \in T : <<y, x>> \notin Less
  BY LessIsWellFounded, WFMin
<1>2. ASSUME NEW y \in T PROVE x <= y
  <2>1. x \in Nat /\ y \in Nat
    OBVIOUS
  <2>2. y < x => <<y, x>> \in Less
    BY <2>1 DEF Less
  <2> QED BY <1>1, <2>1, <2>2
<1> QED BY <1>2

LEMMA MinIsLeast ==
  ASSUME NEW T, T \subseteq Nat, T # {}
  PROVE  Min(T) \in T /\ \A y \in T : Min(T) <= y
BY Least DEF Min

-----------------------------------------------------------------------------
(* The nodes within k hops of a way out in e: Within, for a set in place   *)
(* of the history variable.                                                *)

Nearby(S) == S \cup {n \in Members : Hears[n] \cap (S \cup Named[n]) # {}}
Reach(e) == CHOOSE g : g = [k \in Nat |-> IF k = 0 THEN e ELSE Nearby(g[k - 1])]

LEMMA WithinIsReach == Within = Reach(ever)
BY DEF Within, Reach, Nearby

(* The first hops of it, up to n.                                          *)
First(e, n, g) == g = [k \in 0 .. n |-> IF k = 0 THEN e ELSE Nearby(g[k - 1])]

LEMMA FirstExists ==
  ASSUME NEW e, NEW n \in Nat
  PROVE  \E g : First(e, n, g)
<1> DEFINE Bad == {k \in Nat : ~ \E g : First(e, k, g)}
<1>1. SUFFICES Bad = {}
  OBVIOUS
<1>2. SUFFICES ASSUME Bad # {} PROVE FALSE
  OBVIOUS
<1>3. PICK b \in Bad : \A k \in Bad : b <= k
  BY <1>2, Least
<1>4. b \in Nat /\ ~ \E g : First(e, b, g)
  OBVIOUS
<1>5. CASE b = 0
  <2>1. First(e, 0, [k \in 0 .. 0 |-> e])
    BY DEF First
  <2> QED BY <1>4, <1>5, <2>1
<1>6. CASE b # 0
  <2>1. b - 1 \in Nat /\ b - 1 \notin Bad
    BY <1>3, <1>4, <1>6
  <2>2. PICK g : First(e, b - 1, g)
    BY <2>1
  <2> DEFINE h == [k \in 0 .. b |-> IF k = b THEN Nearby(g[b - 1]) ELSE g[k]]
  <2>3. ASSUME NEW k \in 0 .. b PROVE h[k] = IF k = 0 THEN e ELSE Nearby(h[k - 1])
    <3>1. CASE k = b
      BY <1>6, <1>4, <3>1
    <3>2. CASE k # b
      <4>1. k \in 0 .. b - 1 /\ g[k] = IF k = 0 THEN e ELSE Nearby(g[k - 1])
        BY <1>4, <2>2, <3>2 DEF First
      <4>2. k # 0 => k - 1 \in 0 .. b /\ k - 1 # b /\ h[k - 1] = g[k - 1]
        BY <1>4, <4>1
      <4> QED BY <3>2, <4>1, <4>2
    <3> QED BY <3>1, <3>2
  <2>4. h = [k \in 0 .. b |-> IF k = 0 THEN e ELSE Nearby(h[k - 1])]
    <3>1. h = [k \in 0 .. b |-> h[k]]
      OBVIOUS
    <3> HIDE DEF h
    <3> QED BY <2>3, <3>1
  <2> HIDE DEF h
  <2>5. First(e, b, h)
    BY <2>4 DEF First
  <2> QED BY <1>4, <2>5
<1> QED BY <1>5, <1>6

(* Two of them agree where both are defined.                               *)
LEMMA FirstAgree ==
  ASSUME NEW e, NEW n \in Nat, NEW m \in Nat, NEW g, NEW h,
         First(e, n, g), First(e, m, h), m <= n
  PROVE  g[m] = h[m]
<1> DEFINE Bad == {k \in Nat : k <= n /\ k <= m /\ g[k] # h[k]}
<1>1. SUFFICES Bad = {}
  OBVIOUS
<1>2. SUFFICES ASSUME Bad # {} PROVE FALSE
  OBVIOUS
<1>3. PICK b \in Bad : \A k \in Bad : b <= k
  BY <1>2, Least
<1>4. b \in Nat /\ b <= n /\ b <= m /\ g[b] # h[b]
  OBVIOUS
<1>5. /\ g[b] = IF b = 0 THEN e ELSE Nearby(g[b - 1])
      /\ h[b] = IF b = 0 THEN e ELSE Nearby(h[b - 1])
  BY <1>4 DEF First
<1>6. b # 0
  BY <1>4, <1>5
<1>7. b - 1 \in Nat /\ b - 1 \notin Bad
  BY <1>3, <1>4, <1>6
<1>8. g[b - 1] = h[b - 1]
  BY <1>4, <1>7
<1> QED BY <1>4, <1>5, <1>6, <1>8

(* The definition by recursion defines what it says.                       *)
LEMMA ReachUnfolds ==
  ASSUME NEW e
  PROVE  /\ Reach(e)[0] = e
         /\ \A k \in Nat : Reach(e)[k + 1] = Nearby(Reach(e)[k])
<1> DEFINE f == [n \in Nat |-> CHOOSE g : First(e, n, g)]
           w == [n \in Nat |-> f[n][n]]
<1>1. ASSUME NEW n \in Nat PROVE First(e, n, f[n])
  BY FirstExists
<1> HIDE DEF f
<1>2. ASSUME NEW n \in Nat PROVE w[n] = IF n = 0 THEN e ELSE Nearby(w[n - 1])
  <2>1. f[n][n] = IF n = 0 THEN e ELSE Nearby(f[n][n - 1])
    <3>1. n \in 0 .. n /\ First(e, n, f[n])
      BY <1>1
    <3> QED BY <3>1 DEF First
  <2>2. n # 0 => f[n][n - 1] = f[n - 1][n - 1]
    <3>1. SUFFICES ASSUME n # 0 PROVE f[n][n - 1] = f[n - 1][n - 1]
      OBVIOUS
    <3>2. PICK p \in Nat : p = n - 1 /\ p <= n
      BY <3>1
    <3>3. First(e, n, f[n]) /\ First(e, p, f[p])
      BY <1>1
    <3>4. f[n][p] = f[p][p]
      BY <3>2, <3>3, FirstAgree
    <3> QED BY <3>2, <3>4
  <2> QED BY <2>1, <2>2
<1>3. w = [n \in Nat |-> IF n = 0 THEN e ELSE Nearby(w[n - 1])]
  <2>1. w = [n \in Nat |-> w[n]]
    OBVIOUS
  <2> HIDE DEF w
  <2> QED BY <1>2, <2>1
<1> HIDE DEF w
<1>4. Reach(e) = [k \in Nat |-> IF k = 0 THEN e ELSE Nearby(Reach(e)[k - 1])]
  BY <1>3 DEF Reach
<1>5. Reach(e)[0] = e
  BY <1>4
<1>6. ASSUME NEW k \in Nat PROVE Reach(e)[k + 1] = Nearby(Reach(e)[k])
  BY <1>4
<1> QED BY <1>5, <1>6

(* More ways out bring nobody farther from one.                            *)
LEMMA ReachGrows ==
  ASSUME NEW e, NEW f, e \subseteq f, NEW k \in Nat
  PROVE  Reach(e)[k] \subseteq Reach(f)[k]
<1> DEFINE Bad == {i \in Nat : ~ (Reach(e)[i] \subseteq Reach(f)[i])}
<1>1. SUFFICES Bad = {}
  OBVIOUS
<1>2. SUFFICES ASSUME Bad # {} PROVE FALSE
  OBVIOUS
<1>3. PICK b \in Bad : \A i \in Bad : b <= i
  BY <1>2, Least
<1>4. b \in Nat /\ ~ (Reach(e)[b] \subseteq Reach(f)[b])
  OBVIOUS
<1>5. b # 0
  BY <1>4, ReachUnfolds
<1>6. b - 1 \in Nat /\ b - 1 \notin Bad /\ b = (b - 1) + 1
  BY <1>3, <1>4, <1>5
<1>7. PICK c \in Nat : b = c + 1 /\ Reach(e)[c] \subseteq Reach(f)[c]
  BY <1>6
<1>8. Nearby(Reach(e)[c]) \subseteq Nearby(Reach(f)[c])
  BY <1>7 DEF Nearby
<1> QED BY <1>4, <1>7, <1>8, ReachUnfolds

-----------------------------------------------------------------------------
(* The inductive invariant.  What a node says of itself, and what its      *)
(* table says of a neighbour, was never said by a node that is farther     *)
(* from a way out; what was once right stays so, because `ever' only       *)
(* grows.                                                                  *)

Distances == (0 .. RNSD_GW_NONE) \cup {RNSD_GW_UNKNOWN}
Row == [used : BOOLEAN, declared : Distances, discovery : BOOLEAN, age : 0 .. Horizon + 1]
State(n) ==
  [uplink : BOOLEAN, own : 0 .. RNSD_GW_NONE, published : BOOLEAN, rows : [Hears[n] -> Row],
   data : Distances, due : BOOLEAN, quiet : BOOLEAN]

Honest(e, n, d) == d < RNSD_GW_NONE => n \in Reach(e)[d]
SoundRow(e, m, row) ==
  /\ row \in Row
  /\ Honest(e, m, row.declared)
  /\ row.discovery => m \in Wired
Sound(e, n, x) ==
  /\ x \in State(n)
  /\ x.uplink => n \in e
  /\ Honest(e, n, x.own) /\ Honest(e, n, x.data)
  /\ \A m \in Hears[n] : SoundRow(e, m, x.rows[m])

Standings == {"declares", "announces", "gone"}
IInv ==
  /\ node = [n \in Members |-> node[n]]
  /\ standing \in [Nodes -> Standings]
  /\ Wired \cup Self \subseteq ever
  /\ \A n \in Members : Sound(ever, n, node[n])

-----------------------------------------------------------------------------
(* One node.                                                               *)

LEMMA Ceiling ==
  /\ RNSD_GW_NONE \in Nat /\ RNSD_GW_NONE > 0 /\ RNSD_GW_NONE < RNSD_GW_UNKNOWN
  /\ RNSD_GW_UNKNOWN \in Nat /\ Horizon \in Nat
  /\ Distances \subseteq Nat /\ RNSD_GW_UNKNOWN \in Distances
BY GatewayAssumption DEF Distances, RNSD_GW_UNKNOWN

LEMMA Neighbours ==
  ASSUME NEW n \in Nodes
  PROVE  Hears[n] \subseteq Nodes /\ n \notin Hears[n]
BY GatewayAssumption

LEMMA TheOnly ==
  ASSUME NEW a
  PROVE  The({a}) = a
BY DEF The

LEMMA NoRowIsSound ==
  ASSUME NEW e, NEW m
  PROVE  SoundRow(e, m, NoRow)
BY Ceiling DEF SoundRow, NoRow, Row, Honest

(* One more than the nearest neighbour is no nearer than it is.            *)
LEMMA BestIsHonest ==
  ASSUME NEW e, Wired \subseteq e, NEW n \in Members, NEW rows,
         \A m \in Hears[n] : SoundRow(e, m, rows[m])
  PROVE  Best(n, rows) \in 0 .. RNSD_GW_NONE /\ Honest(e, n, Best(n, rows))
<1> DEFINE counted == {m \in Hears[n] : rows[m].used}
           T == {RNSD_GW_NONE} \cup {Step(effectiveOf(n, m, rows[m])) : m \in counted}
<1>1. ASSUME NEW m \in Hears[n] PROVE effectiveOf(n, m, rows[m]) \in Nat
  BY Ceiling DEF SoundRow, Row, effectiveOf
<1>2. T \subseteq Nat /\ RNSD_GW_NONE \in T
  BY <1>1, Ceiling DEF Step
<1> HIDE DEF T
<1>3. Best(n, rows) = Min(T)
  BY DEF Best, T
<1>4. Min(T) \in T /\ Min(T) <= RNSD_GW_NONE
  BY <1>2, MinIsLeast
<1>5. Min(T) \in 0 .. RNSD_GW_NONE
  <2>1. Min(T) \in Nat /\ RNSD_GW_NONE \in Nat
    BY <1>2, <1>4
  <2> QED BY <1>4, <2>1
<1>6. ASSUME Min(T) < RNSD_GW_NONE PROVE n \in Reach(e)[Min(T)]
  <2>1. PICK m \in Hears[n] : Min(T) = effectiveOf(n, m, rows[m]) + 1
    BY <1>4, <1>5, <1>6, Ceiling DEF T, Step
  <2>2. PICK d \in Nat : d = effectiveOf(n, m, rows[m]) /\ d + 1 < RNSD_GW_NONE
    BY <1>1, <1>6, <2>1
  <2>3. Hears[n] \cap (Reach(e)[d] \cup Named[n]) # {}
    <3>1. CASE m \in Named[n]
      BY <3>1
    <3>2. CASE m \notin Named[n] /\ m \in Refused[n]
      BY <2>2, <3>2, Ceiling DEF effectiveOf
    <3>3. CASE m \notin Named[n] \cup Refused[n] /\ rows[m].discovery
      BY <2>2, <3>3, ReachUnfolds DEF effectiveOf, SoundRow
    <3>4. CASE m \notin Named[n] \cup Refused[n] /\ ~rows[m].discovery
      <4>1. d = rows[m].declared /\ d < RNSD_GW_NONE
        BY <2>2, <3>4, Ceiling DEF effectiveOf
      <4> QED BY <4>1 DEF SoundRow, Honest
    <3> QED BY <3>1, <3>2, <3>3, <3>4
  <2>4. n \in Nearby(Reach(e)[d])
    BY <2>3 DEF Nearby
  <2> QED BY <2>1, <2>2, <2>4, ReachUnfolds
<1> QED BY <1>3, <1>5, <1>6 DEF Honest

LEMMA RecomputeIsSound ==
  ASSUME NEW e, Wired \cup Self \subseteq e, NEW n \in Members, NEW x, Sound(e, n, x)
  PROVE  Sound(e, n, recompute(n, x))
<1> DEFINE r == Swept(n, x.rows)
           o == IF x.uplink \/ n \in Self THEN 0 ELSE Best(n, r)
<1>1. r \in [Hears[n] -> Row] /\ \A m \in Hears[n] : SoundRow(e, m, r[m])
  <2>1. /\ x.rows \in [Hears[n] -> Row]
        /\ \A m \in Hears[n] : SoundRow(e, m, x.rows[m])
    BY DEF Sound, State
  <2> QED BY <2>1, NoRowIsSound DEF Swept, SoundRow
<1> HIDE DEF r
<1>2. recompute(n, x) = [x EXCEPT !.rows = r, !.published = TRUE, !.own = o]
  <2> DEFINE y == [x EXCEPT !.rows = r, !.published = TRUE, !.own = o]
             S == {[z EXCEPT !.rows = rows, !.published = TRUE,
                             !.own = IF z.uplink \/ n \in Self THEN 0 ELSE Best(n, rows)]
                   : z \in {x}, rows \in {r}}
  <2>1. S = {y}
    OBVIOUS
  <2>2. recompute(n, x) = The(S)
    BY DEF recompute, r
  <2> HIDE DEF S, y
  <2>3. recompute(n, x) = y
    BY <2>1, <2>2, TheOnly
  <2> QED BY <2>3 DEF y
<1>3. o \in 0 .. RNSD_GW_NONE /\ Honest(e, n, o)
  <2>1. CASE x.uplink \/ n \in Self
    BY <2>1, ReachUnfolds, Ceiling DEF Honest, Sound
  <2>2. CASE ~(x.uplink \/ n \in Self)
    BY <2>2, <1>1, BestIsHonest
  <2> QED BY <2>1, <2>2
<1> HIDE DEF o
<1> QED BY <1>1, <1>2, <1>3 DEF Sound, State

LEMMA BootedIsSound ==
  ASSUME NEW e, NEW n \in Members
  PROVE  Sound(e, n, Booted(n))
<1>1. Booted(n) \in State(n)
  BY NoRowIsSound, Ceiling DEF Booted, State, SoundRow
<1>2. \A m \in Hears[n] : SoundRow(e, m, Booted(n).rows[m])
  BY NoRowIsSound DEF Booted
<1> QED BY <1>1, <1>2, Ceiling DEF Sound, Honest, Booted

(* A row that is put in the table as its neighbour is heard.               *)
LEMMA RefreshedIsSound ==
  ASSUME NEW e, NEW n \in Members, NEW x, Sound(e, n, x),
         NEW m \in Hears[n], NEW row, SoundRow(e, m, row)
  PROVE  Sound(e, n, Refreshed(x, m, row))
<1> DEFINE r == [row EXCEPT !.used = TRUE, !.age = 0]
<1>1. SoundRow(e, m, r)
  <2>1. 0 \in 0 .. Horizon + 1
    BY Ceiling
  <2>2. row \in Row
    BY DEF SoundRow
  <2>3. r \in Row /\ r.declared = row.declared /\ r.discovery = row.discovery
    BY <2>1, <2>2 DEF Row
  <2> QED BY <2>3 DEF SoundRow
<1> HIDE DEF r
<1>2. Refreshed(x, m, row) = [x EXCEPT !.rows[m] = r]
  BY DEF Refreshed, r
<1>3. x.rows \in [Hears[n] -> Row] /\ r \in Row
  BY <1>1 DEF Sound, State, SoundRow
<1> QED BY <1>1, <1>2, <1>3 DEF Sound, State

LEMMA NoteIsSound ==
  ASSUME NEW e, Wired \cup Self \subseteq e, NEW n \in Members, NEW x, Sound(e, n, x),
         NEW m \in Hears[n], NEW d \in Distances, Honest(e, m, d)
  PROVE  Sound(e, n, rnsdGatewayNote(n, x, m, d))
<1> DEFINE noted == Refreshed(x, m, [x.rows[m] EXCEPT !.declared = d])
           reair == IF EvidentlyMissed(x, d)
                    THEN [noted EXCEPT !.quiet = FALSE, !.due = TRUE] ELSE noted
<1>1. SoundRow(e, m, [x.rows[m] EXCEPT !.declared = d])
  BY DEF Sound, SoundRow, Row
<1>2. Sound(e, n, noted)
  BY <1>1, RefreshedIsSound
<1> HIDE DEF noted
<1>3. Sound(e, n, reair)
  BY <1>2 DEF Sound, State
<1>4. rnsdGatewayNote(n, x, m, d) = IF x.rows[m].declared # d THEN recompute(n, reair) ELSE reair
  BY DEF rnsdGatewayNote, noted
<1> HIDE DEF reair
<1> QED BY <1>3, <1>4, RecomputeIsSound

LEMMA DiscoveryNoteIsSound ==
  ASSUME NEW e, Wired \cup Self \subseteq e, NEW n \in Members, NEW x, Sound(e, n, x),
         NEW m \in Hears[n], m \in Wired
  PROVE  Sound(e, n, rnsdGatewayDiscoveryNote(n, x, m))
<1>1. SoundRow(e, m, [x.rows[m] EXCEPT !.discovery = TRUE])
  BY DEF Sound, SoundRow, Row
<1>2. Sound(e, n, Refreshed(x, m, [x.rows[m] EXCEPT !.discovery = TRUE]))
  BY <1>1, RefreshedIsSound
<1> QED BY <1>2, RecomputeIsSound DEF rnsdGatewayDiscoveryNote

LEMMA HeardIsSound ==
  ASSUME NEW e, Wired \cup Self \subseteq e, NEW n \in Members, NEW x, Sound(e, n, x),
         NEW m \in Hears[n]
  PROVE  Sound(e, n, rnsdGatewayHeard(n, x, m))
<1>1. Sound(e, n, Refreshed(x, m, x.rows[m]))
  BY RefreshedIsSound DEF Sound
<1>2. Sound(e, n, Refreshed(x, m, NoRow))
  BY RefreshedIsSound, NoRowIsSound
<1>3. Sound(e, n, recompute(n, Refreshed(x, m, NoRow)))
  BY <1>2, RecomputeIsSound
<1> QED BY <1>1, <1>3 DEF rnsdGatewayHeard

LEMMA OlderIsSound ==
  ASSUME NEW e, NEW n \in Members, NEW x, Sound(e, n, x), NEW m
  PROVE  Sound(e, n, Older(n, x, m))
<1>1. CASE n = m
  BY <1>1 DEF Older, Sound, State
<1>2. CASE n # m /\ m \in Hears[n] /\ x.rows[m].used /\ x.rows[m].age <= Horizon
  <2> DEFINE r == [x.rows[m] EXCEPT !.age = x.rows[m].age + 1]
  <2>1. SoundRow(e, m, x.rows[m]) /\ x.rows \in [Hears[n] -> Row]
    BY <1>2 DEF Sound, State
  <2>2. SoundRow(e, m, r)
    BY <1>2, <2>1, Ceiling DEF SoundRow, Row
  <2>3. Older(n, x, m) = [x EXCEPT !.rows[m] = r]
    BY <1>2 DEF Older
  <2> HIDE DEF r
  <2>4. r \in Row
    BY <2>2 DEF SoundRow
  <2> QED BY <1>2, <2>1, <2>2, <2>3, <2>4 DEF Sound, State
<1>3. CASE n # m /\ ~(m \in Hears[n] /\ x.rows[m].used /\ x.rows[m].age <= Horizon)
  BY <1>3 DEF Older
<1> QED BY <1>1, <1>2, <1>3

(* What was no lie stays none when a way out appears.                      *)
LEMMA SoundForMore ==
  ASSUME NEW e, NEW f, e \subseteq f, NEW n \in Members, NEW x, Sound(e, n, x)
  PROVE  Sound(f, n, x)
<1>1. ASSUME NEW m, NEW d \in Distances, Honest(e, m, d) PROVE Honest(f, m, d)
  BY <1>1, ReachGrows, Ceiling DEF Honest
<1>2. x.own \in Distances /\ x.data \in Distances
  BY DEF Sound, State, Distances
<1>3. ASSUME NEW m \in Hears[n] PROVE SoundRow(f, m, x.rows[m])
  BY <1>1 DEF Sound, SoundRow, Row
<1> QED BY <1>1, <1>2, <1>3 DEF Sound

-----------------------------------------------------------------------------
(* All nodes.                                                              *)

AllSound(e, f) ==
  /\ f = [n \in Members |-> f[n]]
  /\ \A n \in Members : Sound(e, n, f[n])

LEMMA OneChanges ==
  ASSUME NEW e, NEW f, AllSound(e, f), NEW n \in Members, NEW x, Sound(e, n, x)
  PROVE  AllSound(e, [f EXCEPT ![n] = x])
BY DEF AllSound

LEMMA HearsIsSound ==
  ASSUME IInv, NEW n \in Nodes, NEW m \in Members, n \in Hears[m], NEW x, Sound(ever, m, x),
         NEW reaches
  PROVE  Sound(ever, m, hears(m, x, n, reaches))
<1> DEFINE kept == rnsdGatewayHeard(m, x, n)
           h == IF n \in Wired THEN rnsdGatewayDiscoveryNote(m, kept, n)
                ELSE IF reaches /\ n \in Members /\ node[n].data # RNSD_GW_UNKNOWN
                     THEN rnsdGatewayNote(m, kept, n, node[n].data) ELSE kept
<1>1. Wired \cup Self \subseteq ever
  BY DEF IInv
<1>2. Sound(ever, m, kept)
  BY <1>1, HeardIsSound
<1> HIDE DEF kept
<1>3. Sound(ever, m, h)
  <2>1. CASE n \in Wired
    BY <1>1, <1>2, <2>1, DiscoveryNoteIsSound
  <2>2. CASE n \notin Wired /\ reaches /\ n \in Members /\ node[n].data # RNSD_GW_UNKNOWN
    <3>1. node[n].data \in Distances /\ Honest(ever, n, node[n].data)
      BY <2>2 DEF IInv, Sound, State
    <3> QED BY <1>1, <1>2, <2>2, <3>1, NoteIsSound
  <2>3. CASE n \notin Wired /\ ~(reaches /\ n \in Members /\ node[n].data # RNSD_GW_UNKNOWN)
    BY <1>2, <2>3
  <2> QED BY <2>1, <2>2, <2>3
<1>4. hears(m, x, n, reaches) = h
  <2>1. hears(m, x, n, reaches) = The({h})
    BY DEF hears, kept
  <2> HIDE DEF h
  <2> QED BY <2>1, TheOnly
<1> HIDE DEF h
<1> QED BY <1>3, <1>4

LEMMA AnnouncesKeepSound ==
  ASSUME IInv, NEW n \in Nodes, NEW was, AllSound(ever, was), announces(n, was)
  PROVE  AllSound(ever, node')
<1> DEFINE everyone ==
             [m \in Members |-> IF m \in Hears[n] THEN hears(m, was[m], n, TRUE) ELSE was[m]]
<1>1. ASSUME NEW m \in Members, m \in Hears[n]
      PROVE  n \in Hears[m]
  BY <1>1, GatewayAssumption
<1>2. ASSUME NEW m \in Members, m \in Hears[n], NEW reaches
      PROVE  Sound(ever, m, hears(m, was[m], n, reaches))
  BY <1>1, <1>2, HearsIsSound DEF AllSound
<1>3. AllSound(ever, everyone)
  BY <1>2 DEF AllSound
<1> HIDE DEF everyone
<1>4. CASE node' = everyone
  BY <1>3, <1>4
<1>5. ASSUME NEW m \in Hears[n] \cap Members, node' = [everyone EXCEPT ![m] = was[m]]
      PROVE  AllSound(ever, node')
  BY <1>3, <1>5, OneChanges DEF AllSound
<1>6. ASSUME NEW m \in Hears[n] \cap Members,
             node' = [everyone EXCEPT ![m] = hears(m, was[m], n, FALSE)]
      PROVE  AllSound(ever, node')
  BY <1>2, <1>3, <1>6, OneChanges
<1> QED BY <1>4, <1>5, <1>6 DEF announces, everyone

-----------------------------------------------------------------------------
(* The steps.                                                              *)

LEMMA Starts == Init => IInv
<1> SUFFICES ASSUME Init PROVE IInv
  OBVIOUS
<1>1. standing \in [Nodes -> Standings]
  BY DEF Init, Standings
<1>2. \A n \in Members : Sound(ever, n, node[n])
  BY BootedIsSound DEF Init
<1> QED BY <1>1, <1>2 DEF Init, IInv

LEMMA Kept ==
  ASSUME IInv, AllSound(ever, node'), standing' \in [Nodes -> Standings], ever \subseteq ever'
  PROVE  IInv'
<1>1. \A n \in Members : Sound(ever', n, node'[n])
  BY SoundForMore DEF AllSound
<1> QED BY <1>1 DEF IInv, AllSound

LEMMA HalfHour ==
  ASSUME IInv, NEW n \in Nodes, halfHourPasses(n)
  PROVE  IInv'
<1> DEFINE older == [m \in Members |-> Older(m, node[m], n)]
<1>1. AllSound(ever, older)
  BY OlderIsSound DEF IInv, AllSound
<1>2. node' = older \/ announces(n, older)
  BY DEF halfHourPasses
<1> HIDE DEF older
<1>3. AllSound(ever, node')
  BY <1>1, <1>2, AnnouncesKeepSound
<1> QED BY <1>3, Kept DEF halfHourPasses, IInv

LEMMA Early ==
  ASSUME IInv, NEW n \in Members, earlyAnnounce(n)
  PROVE  IInv'
<1>1. Sound(ever, n, [node[n] EXCEPT !.due = FALSE])
  BY DEF IInv, Sound, State
<1>2. AllSound(ever, [node EXCEPT ![n] = [node[n] EXCEPT !.due = FALSE]])
  BY <1>1, OneChanges DEF IInv, AllSound
<1>3. n \in Nodes
  BY DEF Members
<1>4. announces(n, [node EXCEPT ![n] = [node[n] EXCEPT !.due = FALSE]])
  BY DEF earlyAnnounce
<1>5. AllSound(ever, node')
  BY <1>2, <1>3, <1>4, AnnouncesKeepSound
<1> QED BY <1>5, Kept DEF earlyAnnounce, IInv

LEMMA Composed ==
  ASSUME IInv, NEW n \in Members, rnsdRemoteManagementAnnounceData(n)
  PROVE  IInv'
<1>1. Sound(ever, n, [node[n] EXCEPT !.data = node[n].own, !.due = TRUE])
  BY DEF IInv, Sound, State, Distances
<1>2. node' = [node EXCEPT ![n] = [node[n] EXCEPT !.data = node[n].own, !.due = TRUE]]
  BY DEF rnsdRemoteManagementAnnounceData, IInv
<1>3. AllSound(ever, node')
  BY <1>1, <1>2, OneChanges DEF IInv, AllSound
<1> QED BY <1>3, Kept DEF rnsdRemoteManagementAnnounceData, IInv

LEMMA Tick ==
  ASSUME IInv, NEW n \in Members, rnsdGatewayTick(n)
  PROVE  IInv'
<1>1. Sound(ever, n, recompute(n, node[n]))
  BY RecomputeIsSound DEF IInv
<1>2. AllSound(ever, node')
  BY <1>1, OneChanges DEF IInv, AllSound, rnsdGatewayTick
<1> QED BY <1>2, Kept DEF rnsdGatewayTick, IInv

LEMMA SetUplink ==
  ASSUME IInv, NEW n \in Members, NEW up \in BOOLEAN, rnsdGatewaySetUplink(n, up)
  PROVE  IInv'
<1> DEFINE x == [node[n] EXCEPT !.uplink = up]
<1>1. ever \subseteq ever' /\ (up => n \in ever')
  BY DEF rnsdGatewaySetUplink
<1>2. Wired \cup Self \subseteq ever' /\ AllSound(ever', node)
  BY <1>1, SoundForMore DEF IInv, AllSound
<1>3. Sound(ever', n, x)
  BY <1>1, <1>2 DEF AllSound, Sound, State
<1>4. node' = [node EXCEPT ![n] = recompute(n, x)]
  BY DEF rnsdGatewaySetUplink
<1> HIDE DEF x
<1>5. Sound(ever', n, recompute(n, x))
  BY <1>2, <1>3, RecomputeIsSound
<1>6. AllSound(ever', node')
  BY <1>2, <1>4, <1>5, OneChanges
<1> QED BY <1>2, <1>6 DEF rnsdGatewaySetUplink, IInv, AllSound

LEMMA StandingChanges ==
  ASSUME IInv, NEW n \in Nodes, NEW how \in Standings, standingChanges(n, how)
  PROVE  IInv'
<1>1. CASE n \in Members
  <2>1. Sound(ever, n, [node[n] EXCEPT !.data = RNSD_GW_UNKNOWN])
    BY <1>1, Ceiling DEF IInv, Sound, State, Honest
  <2>2. node' = [node EXCEPT ![n] = [node[n] EXCEPT !.data = RNSD_GW_UNKNOWN]]
    BY <1>1 DEF standingChanges
  <2>3. AllSound(ever, node')
    BY <1>1, <2>1, <2>2, OneChanges DEF IInv, AllSound
  <2> QED BY <2>3, Kept DEF standingChanges, IInv
<1>2. CASE n \notin Members
  BY <1>2 DEF standingChanges, IInv
<1> QED BY <1>1, <1>2

LEMMA Restart ==
  ASSUME IInv, NEW n \in Members, restart(n)
  PROVE  IInv'
<1>1. AllSound(ever, node')
  BY BootedIsSound, OneChanges DEF IInv, AllSound, restart
<1> QED BY <1>1, Kept DEF restart, IInv

LEMMA Keeps == IInv /\ [Next]_vars => IInv'
<1> SUFFICES ASSUME IInv, [Next]_vars PROVE IInv'
  OBVIOUS
<1>1. CASE UNCHANGED vars
  BY <1>1 DEF vars, IInv
<1>2. CASE Next
  <2>1. ASSUME NEW n \in Members, Own(n) PROVE IInv'
    BY <2>1, Composed, Tick, Early DEF Own
  <2>2. ASSUME NEW n \in Nodes, NEW how \in {"declares", "announces", "gone"},
               standingChanges(n, how)
        PROVE  IInv'
    BY <2>2, StandingChanges DEF Standings
  <2> QED BY <1>2, <2>1, <2>2, HalfHour, SetUplink, Restart DEF Next
<1> QED BY <1>1, <1>2

-----------------------------------------------------------------------------
(* Every reachable state is sound.                                         *)
THEOREM Invariance == Spec => []IInv
BY Starts, Keeps, PTL DEF Spec

(* Distances stay below the ceiling or are unknown, in the node, in its    *)
(* table and in its announces, and no row ages without bound.              *)
THEOREM Types == Spec => []TypeOK
<1>1. IInv => TypeOK
  BY DEF IInv, Sound, State, SoundRow, Row, Distances, Standings, TypeOK
<1> QED BY <1>1, Invariance, PTL

(* A distance is never invented: however declarations are lost, grow old   *)
(* or are counted up, no node is nearer to a way out than there has ever   *)
(* been one (recompute, rnsdGatewayNote).                                  *)
THEOREM NothingInvented == Spec => []NeverTooNear
<1>1. IInv => NeverTooNear
  BY WithinIsReach DEF IInv, Sound, Honest, NeverTooNear
<1> QED BY <1>1, Invariance, PTL
=============================================================================
