--------------------------- MODULE GatewayDistance ---------------------------
(***************************************************************************)
(* How far each node of a community is from a way out of it                *)
(* (rnsd_gateway.cpp): its table of what direct neighbours declared in     *)
(* their management announces, its own distance, and the announces that    *)
(* carry it.  Nothing but these numbers tells the nodes of a radio which   *)
(* way a question walks, and a node knows of a neighbour's departure only  *)
(* because its declaration grows old.                                      *)
(*                                                                         *)
(* `netgraph', which composes and reads management announces, is not part  *)
(* of the repository: here it hands over the distance whenever it has      *)
(* moved and passes on what neighbours declare.  An announce is heard at   *)
(* once by all neighbours, except where one loses it, or loses what it     *)
(* declares on the way to netgraph.  Time passes by a node's half hours: a *)
(* row ages with each half hour of the node it is about, the horizon is a  *)
(* number of them, and the minute between two announces for a neighbour's  *)
(* sake has passed when the half hour has.  No table is full, and their    *)
(* publication in storage is left out.                                     *)
(***************************************************************************)
EXTENDS Integers, FiniteSets, FiniteSetsExt

CONSTANTS
  Nodes,
  Hears,                  \* [Nodes -> SUBSET Nodes], who hears whom directly
  Stock, Wired,           \* nodes that are no members; those with a wired interface
  Self,                   \* nodes with s.rnsd.gateway.self
  Named, Refused,         \* [Nodes -> SUBSET Nodes], s.rnsd.gateway.peer.* = 1, 0
  RNSD_GW_NONE,           \* the ceiling, no gateway reachable
  RNSD_GW_NBRS_MAX,
  Horizon,                \* s.rnsd.gateway.horizon_s, in half hours
  MaxInputs               \* bound: uplinks, losses, restarts, changes of standing

RNSD_GW_UNKNOWN == 255
Members == Nodes \ Stock

ASSUME GatewayAssumption ==
  /\ Hears \in [Nodes -> SUBSET Nodes]
  /\ \A n \in Nodes : n \notin Hears[n] /\ \A m \in Hears[n] : n \in Hears[m]
  /\ Stock \subseteq Nodes /\ Wired \subseteq Stock /\ Self \subseteq Members
  /\ Named \in [Nodes -> SUBSET Nodes] /\ Refused \in [Nodes -> SUBSET Nodes]
  /\ RNSD_GW_NONE \in 1 .. RNSD_GW_UNKNOWN - 1
  /\ \A n \in Nodes : Cardinality(Hears[n]) <= RNSD_GW_NBRS_MAX
  /\ {RNSD_GW_NBRS_MAX, Horizon, MaxInputs} \subseteq Nat

VARIABLES
  node,       \* a node's table and distance, and the announce it owes
  standing,   \* whether it declares, only announces, or is gone
  ever,       \* history: nodes that have been a way out
  inputs
vars == <<node, standing, ever, inputs>>

(* `data' is what the management announce declares, `due' that it is aired *)
(* within seconds, `quiet' that a minute has passed since the last for a   *)
(* neighbour's sake.                                                       *)
NoRow == [used |-> FALSE, declared |-> RNSD_GW_UNKNOWN, discovery |-> FALSE, age |-> 0]
Booted(n) ==
  [uplink |-> FALSE, own |-> RNSD_GW_NONE, published |-> FALSE,
   rows |-> [m \in Hears[n] |-> NoRow], data |-> RNSD_GW_UNKNOWN, due |-> FALSE, quiet |-> TRUE]

Init ==
  /\ node = [n \in Members |-> Booted(n)]
  /\ standing = [n \in Nodes |-> IF n \in Members THEN "declares" ELSE "announces"]
  /\ ever = Wired \cup Self
  /\ inputs = 0

Input == inputs < MaxInputs /\ inputs' = inputs + 1

-----------------------------------------------------------------------------
(* One node.  `x' is its state.                                            *)

Fresh(row) == row.used /\ row.age <= Horizon

effectiveOf(n, id, row) ==
  IF id \in Named[n] THEN 0
  ELSE IF id \in Refused[n] THEN RNSD_GW_UNKNOWN
  ELSE IF row.discovery THEN 0 ELSE row.declared

(* One more than the nearest neighbour, if that is below the ceiling.      *)
Step_none(distance) == distance
Step(distance) == distance + 1
Best_uncapped(n, rows) ==
  Min({RNSD_GW_UNKNOWN} \cup {Step(rows[m].declared) : m \in {m \in Hears[n] : rows[m].used}})
Best(n, rows) ==
  Min({RNSD_GW_NONE} \cup {Step(effectiveOf(n, m, rows[m])) : m \in {m \in Hears[n] : rows[m].used}})

Swept(n, rows) ==
  IF \A m \in Hears[n] : rows[m].used => Fresh(rows[m]) THEN rows
  ELSE [m \in Hears[n] |-> IF Fresh(rows[m]) THEN rows[m] ELSE NoRow]

(* The member of a singleton.  A result on the way is bound by it, so that *)
(* it is computed once.                                                    *)
The(S) == CHOOSE y \in S : TRUE

recompute(n, x) ==
  The({[y EXCEPT !.rows = rows, !.published = TRUE,
                 !.own = IF y.uplink \/ n \in Self THEN 0 ELSE Best(n, rows)]
       : y \in {x}, rows \in {Swept(n, x.rows)}})

Refreshed(x, id, row) == [x EXCEPT !.rows[id] = [row EXCEPT !.used = TRUE, !.age = 0]]

(* A neighbour that declares more than ours plus one has not heard us.     *)
EvidentlyMissed(x, distance) ==
  x.own < RNSD_GW_NONE /\ distance > x.own + 1 /\ x.quiet

rnsdGatewayNote(n, x, id, distance) ==
  LET noted == Refreshed(x, id, [x.rows[id] EXCEPT !.declared = distance])
      reair == IF EvidentlyMissed(x, distance)
               THEN [noted EXCEPT !.quiet = FALSE, !.due = TRUE] ELSE noted
  IN  IF x.rows[id].declared # distance THEN recompute(n, reair) ELSE reair

rnsdGatewayDiscoveryNote(n, x, id) ==
  LET noted == Refreshed(x, id, [x.rows[id] EXCEPT !.discovery = TRUE])
  IN  IF x.rows[id].discovery THEN noted ELSE recompute(n, noted)

(* A declaration lives as long as the announce that carried it: any other  *)
(* announce keeps only a row that holds nothing but the operator's word.   *)
KeptByAny_all(row) == row.used
KeptByAny(row) == row.used /\ row.declared = RNSD_GW_UNKNOWN /\ ~row.discovery

rnsdGatewayHeard(n, x, id) ==
  IF KeptByAny(x.rows[id]) THEN Refreshed(x, id, x.rows[id])
  ELSE IF ~x.rows[id].used /\ id \in Named[n] \cup Refused[n]
       THEN recompute(n, Refreshed(x, id, NoRow)) ELSE x

rnsdGatewayDistanceOf(n, x, id) ==
  IF x.rows[id].used
  THEN IF Fresh(x.rows[id]) THEN effectiveOf(n, id, x.rows[id]) ELSE RNSD_GW_UNKNOWN
  ELSE IF id \in Named[n] THEN 0 ELSE RNSD_GW_UNKNOWN

-----------------------------------------------------------------------------
(* Announces.                                                              *)

(* What hearing an announce of n does at m; that it is heard by all        *)
(* neighbours, and they have its declaration, but for one that lost it, or *)
(* of which netgraph lost the frame.                                       *)
hears(m, x, n, reaches) ==
  The({IF n \in Wired THEN rnsdGatewayDiscoveryNote(m, kept, n)
       ELSE IF reaches /\ n \in Members /\ node[n].data # RNSD_GW_UNKNOWN
            THEN rnsdGatewayNote(m, kept, n, node[n].data) ELSE kept
       : kept \in {rnsdGatewayHeard(m, x, n)}})

announces(n, was) ==
  LET everyone == [m \in Members |-> IF m \in Hears[n] THEN hears(m, was[m], n, TRUE) ELSE was[m]]
  IN  \/ node' = everyone /\ UNCHANGED inputs
      \/ /\ Input
         /\ \E m \in Hears[n] \cap Members :
              \/ node' = [everyone EXCEPT ![m] = was[m]]
              \/ node' = [everyone EXCEPT ![m] = hears(m, was[m], n, FALSE)]

Older(m, x, n) ==
  IF m = n THEN [x EXCEPT !.quiet = TRUE]
  ELSE IF n \in Hears[m] /\ x.rows[n].used /\ x.rows[n].age <= Horizon
       THEN [x EXCEPT !.rows[n].age = x.rows[n].age + 1] ELSE x

(* What takes a node seconds, and its tick, are done within a half hour.   *)
Idle(n) ==
  standing[n] # "gone" =>
    /\ ~node[n].due
    /\ standing[n] = "declares" /\ node[n].published => node[n].data = node[n].own
    /\ recompute(n, node[n]) = node[n]

(* The beat, or its silence.                                               *)
halfHourPasses(n) ==
  LET older == [m \in Members |-> Older(m, node[m], n)]
  IN  /\ n \in Members => Idle(n)
      /\ IF standing[n] = "gone" THEN node' = older /\ UNCHANGED inputs ELSE announces(n, older)
      /\ UNCHANGED <<standing, ever>>

(* The management announce by itself, two to eight seconds after a move or *)
(* after a neighbour that missed the last.                                 *)
earlyAnnounce(n) ==
  /\ standing[n] # "gone" /\ node[n].due
  /\ announces(n, [node EXCEPT ![n].due = FALSE])
  /\ UNCHANGED <<standing, ever>>

(* netgraph composes the announce of a distance that has moved.            *)
rnsdRemoteManagementAnnounceData(n) ==
  /\ standing[n] = "declares"
  /\ node[n].published /\ node[n].data # node[n].own
  /\ node' = [node EXCEPT ![n].data = node[n].own, ![n].due = TRUE]
  /\ UNCHANGED <<standing, ever, inputs>>

-----------------------------------------------------------------------------
rnsdGatewayTick(n) ==
  /\ standing[n] # "gone"
  /\ node' = [node EXCEPT ![n] = recompute(n, @)]
  /\ UNCHANGED <<standing, ever, inputs>>

rnsdGatewaySetUplink(n, up) ==
  /\ Input /\ standing[n] # "gone"
  /\ node[n].uplink # up \/ ~node[n].published
  /\ node' = [node EXCEPT ![n] = recompute(n, [@ EXCEPT !.uplink = up])]
  /\ ever' = IF up THEN ever \cup {n} ELSE ever
  /\ UNCHANGED standing

(* A node loses the community's key, comes into the community, or leaves   *)
(* for good.                                                               *)
standingChanges(n, how) ==
  /\ Input /\ standing[n] \notin {how, "gone"}
  /\ n \in Members \/ how = "gone"
  /\ standing' = [standing EXCEPT ![n] = how]
  /\ node' = IF n \in Members THEN [node EXCEPT ![n].data = RNSD_GW_UNKNOWN] ELSE node
  /\ UNCHANGED ever

restart(n) ==
  /\ Input /\ standing[n] # "gone"
  /\ node' = [node EXCEPT ![n] = Booted(n)]
  /\ UNCHANGED <<standing, ever>>

Own(n) ==
  \/ rnsdRemoteManagementAnnounceData(n)
  \/ rnsdGatewayTick(n)
  \/ earlyAnnounce(n)

Next ==
  \/ \E n \in Nodes : halfHourPasses(n)
  \/ \E n \in Members : Own(n)
  \/ \E n \in Members, up \in BOOLEAN : rnsdGatewaySetUplink(n, up)
  \/ \E n \in Nodes, how \in {"declares", "announces", "gone"} : standingChanges(n, how)
  \/ \E n \in Members : restart(n)

Spec == Init /\ [][Next]_vars

(* Beats and ticks go on, and netgraph follows the distance.               *)
FairSpec ==
  /\ Spec
  /\ \A n \in Nodes : WF_vars(halfHourPasses(n))
  /\ \A n \in Members : WF_vars(Own(n))

-----------------------------------------------------------------------------
(* Properties.                                                             *)

TypeOK ==
  /\ \A n \in Members :
       /\ node[n].own \in 0 .. RNSD_GW_NONE
       /\ node[n].data \in 0 .. RNSD_GW_NONE \cup {RNSD_GW_UNKNOWN}
       /\ \A m \in Hears[n] :
            /\ node[n].rows[m].declared \in 0 .. RNSD_GW_NONE \cup {RNSD_GW_UNKNOWN}
            /\ node[n].rows[m].age \in 0 .. Horizon + 1
  /\ standing \in [Nodes -> {"declares", "announces", "gone"}]

(* The nodes within k hops of one that has ever been a way out, or that n  *)
(* counts as one on its operator's word.                                   *)
Within[k \in Nat] ==
  IF k = 0 THEN ever
  ELSE Within[k - 1]
       \cup {n \in Members : Hears[n] \cap (Within[k - 1] \cup Named[n]) # {}}

(* However declarations are lost, grow old, come back or are counted up    *)
(* between nodes that lost their gateway, nobody is nearer to a way out    *)
(* than there has ever been one: a distance is never invented (recompute,  *)
(* rnsdGatewayNote).                                                       *)
NeverTooNear ==
  \A n \in Members : node[n].own < RNSD_GW_NONE => n \in Within[node[n].own]

Alive == {n \in Members : standing[n] # "gone"}

(* What a neighbour is worth now.                                          *)
Worth(n, m) ==
  CASE standing[m] = "gone" -> RNSD_GW_UNKNOWN
    [] standing[m] # "gone" /\ m \in Named[n] -> 0
    [] standing[m] # "gone" /\ m \notin Named[n] ->
         IF m \in Refused[n] THEN RNSD_GW_UNKNOWN
         ELSE IF m \in Wired THEN 0
         ELSE IF standing[m] = "declares" THEN node[m].own ELSE RNSD_GW_UNKNOWN

IsGateway(n) == node[n].uplink \/ n \in Self
Nearest(n) ==
  IF IsGateway(n) THEN 0
  ELSE Min({RNSD_GW_NONE} \cup {Worth(n, m) + 1 : m \in Hears[n]})

(* A neighbour that would repeat n's request, or is a way out itself       *)
(* (Transport::path_request).                                              *)
Downhill(n) ==
  \E m \in Hears[n] \ Refused[n] :
    \/ m \in Wired \cup Named[n] /\ standing[m] # "gone"
    \/ m \in Alive /\ node[m].own < Min({RNSD_GW_NONE, rnsdGatewayDistanceOf(m, node[m], n)})

(* Once nothing changes any more, each node's distance becomes and stays   *)
(* one more than its nearest neighbour's, so the hops to a way out that    *)
(* is there: news of a nearer one spreads, and a lost one is counted up to *)
(* the ceiling and not for ever.  And then a question finds its way: a     *)
(* node that is no gateway and not cut off from one has a neighbour that   *)
(* will carry its question on (recompute, rnsdGatewayNote,                 *)
(* rnsdGatewayHeard).                                                      *)
QuestionsFindTheirWay ==
  <>[](\A n \in Alive :
         /\ node[n].own = Nearest(n)
         /\ node[n].own \in 1 .. RNSD_GW_NONE - 1 => Downhill(n))
=============================================================================
