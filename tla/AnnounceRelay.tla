---------------------------- MODULE AnnounceRelay ----------------------------
(***************************************************************************)
(* A transport node between two networks, and one destination of somebody  *)
(* else's: its announces as they come in and are passed on (Transport::    *)
(* inbound, the announce ring, the announce cap, outbound), and questions  *)
(* for the path to it (path_request, pending repeats, searches, the tiers  *)
(* of the node's own request).                                             *)
(*                                                                         *)
(* The tables are shared with destinations that are not in the model:      *)
(* where one is full, something of this destination's is evicted, or       *)
(* refused, at any time. So is time: what is due at a moment happens at    *)
(* some moment. All of this runs on one task, a handler to an action; the  *)
(* network repeats, delays and reorders what it likes.                     *)
(*                                                                         *)
(* An announce is known by its emission: the blob and the time in it. The  *)
(* ring is a sequence in the order of the records' timestamps.             *)
(***************************************************************************)
EXTENDS Naturals, FiniteSets, Sequences, SequencesExt

CONSTANTS
  Ifaces, Shared,          \* interfaces; those that are not point to point
  Cheap, Limited,          \* fast enough to be asked first; with an announce cap
  Mode, Radius,            \* per interface; the radius of its community
  Neighbours,              \* transport nodes heard on an interface
  Distance, OwnDistance,   \* hops to a gateway
  DISTANCE_NONE,
  PATHFINDER_R, LOCAL_REBROADCASTS_MAX,
  FP_RING, RDIR_G_RUN_LIMIT,
  Tags,                    \* bound: questions heard
  MaxEmissions, MaxHops,   \* bounds: of the destination's announces
  MaxInputs                \* bound: packets heard, requests made and evictions

None == "none"
Nodes == UNION {Neighbours[i] : i \in Ifaces}
Emissions == 1 .. MaxEmissions

ASSUME RelayAssumption ==
  /\ Shared \subseteq Ifaces /\ Cheap \subseteq Ifaces /\ Limited \subseteq Ifaces
  /\ None \notin Ifaces \cup Nodes \cup Tags
  /\ {PATHFINDER_R, LOCAL_REBROADCASTS_MAX, OwnDistance, DISTANCE_NONE,
      MaxEmissions, MaxHops, MaxInputs} \subseteq Nat
  /\ FP_RING \in Nat \ {0} /\ RDIR_G_RUN_LIMIT \in Nat \ {0}

VARIABLES
  ring,        \* AnnounceRec's of the destination, oldest first
  deferred,    \* its entry in each interface's announce queue
  capped,      \* is announce_allowed_at ahead, or another's entry queued?
  guard,       \* its rdir_guard_rec_t
  dir,         \* its directory record, route and blob
  search,      \* its entry in _discovery_path_requests
  tags,        \* _discovery_pr_tags
  repeat,      \* its PendingRepeat
  requested,   \* is it in _path_requests?
  escalation,  \* its PathEscalation
  inputs,      \* inputs so far
  \* history, for the properties
  heard,       \* emissions heard since the guard began anew
  aired,       \* times each was rebroadcast on each interface since it was fresh
  carried,     \* questions passed on, <<tag, interface>>
  twice        \* was one passed on again?

inner    == <<guard, dir>>
history  == <<heard, aired, carried, twice>>
vars == <<ring, deferred, capped, inner, search, tags, repeat, requested, escalation,
          inputs, history>>

Direct == None
Announce ==
  {p \in [e : Emissions, hops : 1 .. MaxHops, via : Nodes \cup {Direct}, on : Ifaces,
          response : BOOLEAN] :
     IF p.hops = 1 THEN p.via = Direct ELSE p.via \in Neighbours[p.on]}
Question == {q \in [tag : Tags, on : Ifaces, asker : Nodes \cup {None}] :
               q.asker \in Neighbours[q.on] \cup {None}}

NoGuard  == [seen |-> <<>>, newest |-> 0, run |-> 0]
NoRecord == [record |-> FALSE, route |-> None, hops |-> 0, via |-> None, expired |-> FALSE]
NoBlob   == [e |-> 0, hops |-> 0]
NoSearch == [on |-> None, asker |-> None, answered |-> FALSE, old |-> FALSE]
NoRepeat == [tag |-> None, on |-> None, asker |-> None]

Init ==
  /\ ring = <<>>
  /\ deferred = [i \in Ifaces |-> NoBlob] /\ capped = [i \in Ifaces |-> FALSE]
  /\ guard = NoGuard
  /\ dir = [known |-> NoRecord, blob |-> NoBlob]
  /\ search = NoSearch /\ tags = {} /\ repeat = NoRepeat
  /\ requested = FALSE /\ escalation = FALSE
  /\ inputs = 0
  /\ heard = {} /\ aired = [i \in Ifaces |-> [e \in Emissions |-> 0]]
  /\ carried = {} /\ twice = FALSE

Input == inputs < MaxInputs /\ inputs' = inputs + 1

-----------------------------------------------------------------------------
(* The announce ring.                                                      *)
Which(R, held) == {k \in DOMAIN R : R[k].held = held}
announce_find(R, held) == Min(Which(R, held))
Drop(R, held)  == IF Which(R, held) = {} THEN R ELSE RemoveAt(R, announce_find(R, held))
Rearm(R)       == IF Which(R, TRUE) = {} THEN R
                  ELSE [R EXCEPT ![announce_find(R, TRUE)].held = FALSE]
Hold_both(R)   == IF Which(R, FALSE) = {} THEN R
                  ELSE [R EXCEPT ![announce_find(R, FALSE)].held = TRUE]
Hold(R)        == IF Which(R, FALSE) = {} THEN R
                  ELSE LET one == Drop(R, TRUE)
                       IN  [one EXCEPT ![announce_find(one, FALSE)].held = TRUE]

(* A PATH_RESPONSE of another node's on the medium ours was to go out on.  *)
AnotherAnswers(R, p) ==
  LET mine == R[announce_find(R, FALSE)]
  IN  IF /\ p.response /\ Which(R, FALSE) # {}
         /\ mine.block /\ mine.retries = PATHFINDER_R
         /\ p.hops <= mine.hops + 1 /\ mine.to \in {None, p.on}
      THEN Rearm(Drop(R, FALSE)) ELSE R

(* A neighbour's rebroadcast of what this node has queued.                 *)
Enough(r) == IF r.radio THEN 1 ELSE LOCAL_REBROADCASTS_MAX
StandDown(R, p) ==
  LET k == announce_find(R, FALSE)
  IN  IF p.via = Direct \/ Which(R, FALSE) = {} THEN R
      ELSE IF p.hops - 1 # R[k].hops THEN R
      ELSE IF R[k].heard + 1 >= Enough(R[k]) THEN RemoveAt(R, k)
      ELSE [R EXCEPT ![k].heard = @ + 1]

announce_store(R, r) == Append(Drop(R, FALSE), r)

-----------------------------------------------------------------------------
(* The guard: what was heard of the destination's emissions.               *)
Seen(g, e) == Contains(g.seen, e)
ringPush(s, e) == IF Len(s) < FP_RING THEN Append(s, e) ELSE Append(Tail(s), e)
Afresh(e) == [seen |-> <<e>>, newest |-> e, run |-> 0]

Resets_late(g, e) == ~Seen(g, e) /\ e < g.newest /\ g.run + 1 > RDIR_G_RUN_LIMIT
Resets(g, e) == ~Seen(g, e) /\ e < g.newest /\ g.run + 1 >= RDIR_G_RUN_LIMIT
Novel(g, e) == ~Seen(g, e) /\ e >= g.newest
Fresh(g, e, bypass) == bypass \/ Novel(g, e) \/ Resets(g, e)

rdirGuardFresh_forgets(g, e, bypass) ==
  IF g = NoGuard THEN Afresh(e)
  ELSE IF bypass THEN [g EXCEPT !.newest = IF e > @ THEN e ELSE @, !.run = 0]
  ELSE IF Seen(g, e) THEN [g EXCEPT !.run = 0]
  ELSE IF Resets(g, e) THEN Afresh(e)
  ELSE IF e < g.newest THEN [g EXCEPT !.run = @ + 1]
  ELSE [seen |-> ringPush(g.seen, e), newest |-> e, run |-> 0]
rdirGuardFresh(g, e, bypass) ==
  LET pushed == IF Seen(g, e) THEN g.seen ELSE ringPush(g.seen, e)
  IN  IF g = NoGuard THEN Afresh(e)
      ELSE IF bypass
           THEN [seen |-> pushed, newest |-> IF e > g.newest THEN e ELSE g.newest, run |-> 0]
      ELSE IF Seen(g, e) THEN [g EXCEPT !.run = 0]
      ELSE IF Resets(g, e) THEN Afresh(e)
      ELSE IF e < g.newest THEN [g EXCEPT !.run = @ + 1]
      ELSE [seen |-> pushed, newest |-> e, run |-> 0]

-----------------------------------------------------------------------------
(* The route.  One that has expired is dropped when it is looked up.       *)
Known        == dir.known.route # None
Live         == Known /\ ~dir.known.expired
WithoutRoute == [dir EXCEPT !.known = [NoRecord EXCEPT !.record = dir.known.record]]
Peeked       == IF Known /\ ~Live THEN WithoutRoute ELSE dir

PointToPoint(i) == i \notin Shared
LearnedOn(i)    == Live /\ dir.known.route = i

(* request_path on one interface: is it sent?                              *)
Askable(i) == ~(PointToPoint(i) /\ LearnedOn(i))
CapAllows(i) == ~capped[i] /\ deferred[i] = NoBlob

-----------------------------------------------------------------------------
(* An announce comes in.                                                   *)
Asked(p)        == p.response /\ requested
Waiting         == search # NoSearch /\ ~search.answered
RelayWaiting(p) == p.response /\ Waiting
Shorter(p)      == Known /\ p.hops < dir.known.hops /\ p.e >= dir.blob.e
Bypass(p) ==
  \/ Shorter(p) /\ p.response
  \/ (Asked(p) \/ RelayWaiting(p)) /\ (Known => p.hops <= dir.known.hops)
IsFresh(p) == Fresh(guard, p.e, Bypass(p))

RouteBetter(p) == Known => \/ p.hops <= dir.known.hops
                           \/ Novel(guard, p.e)
                           \/ dir.known.expired
(* `wanted': a claim on the destination, or an open link to it.            *)
Retain(p, wanted) ==
  /\ RouteBetter(p)
  /\ IsFresh(p) \/ ~dir.known.record \/ Shorter(p)
  /\ Asked(p) \/ RelayWaiting(p) \/ Shorter(p) \/ p.hops = 1 \/ p.hops <= Radius[p.on] \/ wanted

announce_relay_possible(p) ==
  \E i \in Ifaces : p.hops <= Radius[i] /\ ~(PointToPoint(i) /\ p.on = i)

ToRelay(p) ==
  [e |-> p.e, hops |-> p.hops, on |-> p.on, block |-> FALSE, to |-> None, held |-> FALSE,
   radio |-> p.on \in Shared, retries |-> 0, heard |-> 0]

Relays(p, blocked) == IsFresh(p) /\ ~p.response /\ ~blocked /\ announce_relay_possible(p)

(* An answer that the asker itself sent is on its side already.            *)
AnswersSearch(p) ==
  /\ IsFresh(p) /\ Waiting
  /\ ~(search.asker # None /\ search.asker = p.via)

(* A rebroadcast covers the copy that waits for the interface's cap.       *)
Covers(p) ==
  /\ p.via # Direct /\ deferred[p.on] # NoBlob
  /\ p.e >= deferred[p.on].e /\ p.hops >= deferred[p.on].hops + 1

rdirIngest(p, fits) ==
  [known |-> [record |-> TRUE, route |-> p.on, hops |-> p.hops, via |-> p.via, expired |-> FALSE],
   blob  |-> IF fits THEN [e |-> p.e, hops |-> p.hops] ELSE dir.blob]

(* `wanted' and `fits' are not this node's routing's to decide.            *)
Stored(p) ==
  (IF Retain(p, TRUE) THEN {rdirIngest(p, fits) : fits \in BOOLEAN} ELSE {})
    \cup (IF Retain(p, FALSE) THEN {} ELSE {dir})

(* `blocked': the rate limit, which counts new announces.                  *)
MayBlock(p) == IF IsFresh(p) /\ ~p.response THEN BOOLEAN ELSE {FALSE}

inboundAnnounce(p, blocked) ==
  /\ Input
  /\ repeat' = NoRepeat
  /\ LET stood == StandDown(AnotherAnswers(ring, p), p)
     IN  ring' = IF Relays(p, blocked) THEN announce_store(stood, ToRelay(p)) ELSE stood
  /\ deferred' = IF Covers(p) THEN [deferred EXCEPT ![p.on] = NoBlob] ELSE deferred
  /\ guard' = rdirGuardFresh(guard, p.e, Bypass(p))
  /\ search' = IF AnswersSearch(p) THEN [search EXCEPT !.answered = TRUE] ELSE search
  /\ dir' \in Stored(p)
  /\ heard' = IF Resets(guard, p.e) /\ ~Bypass(p) THEN {p.e} ELSE heard \cup {p.e}
  /\ aired' = IF Relays(p, blocked) THEN [i \in Ifaces |-> [aired[i] EXCEPT ![p.e] = 0]] ELSE aired
  /\ UNCHANGED <<capped, tags, requested, escalation, carried, twice>>

-----------------------------------------------------------------------------
(* An announce goes out.                                                   *)
Passes(i, r) ==
  /\ r.hops <= Radius[i]
  /\ Mode[i] = "roaming" => Live /\ Mode[dir.known.route] \notin {"roaming", "boundary"}
  /\ Mode[i] = "boundary" => Live /\ Mode[dir.known.route] # "roaming"
Gated(i)   == Mode[i] \notin {"roaming", "boundary"}
Echo(i, r) == PointToPoint(i) /\ r.on = i
Airs(i, r) == Passes(i, r) /\ (Gated(i) => ~Echo(i, r) /\ CapAllows(i))
Defers(i, r) == Passes(i, r) /\ Gated(i) /\ ~Echo(i, r) /\ ~CapAllows(i)

(* What waits for the cap: one entry for the destination, its newest.      *)
Folded(i, r, full) ==
  IF (deferred[i] = NoBlob /\ full) \/ r.e <= deferred[i].e THEN deferred[i]
  ELSE [e |-> r.e, hops |-> r.hops]

LooksUpRoute == \E i \in Ifaces : ~Gated(i)

outbound(r, full) ==
  /\ deferred' = [i \in Ifaces |-> IF Defers(i, r) THEN Folded(i, r, full) ELSE deferred[i]]
  /\ capped' = [i \in Ifaces |-> capped[i] \/ (i \in Limited /\ Gated(i) /\ Airs(i, r))]
  /\ aired' = [i \in Ifaces |-> IF Airs(i, r) THEN [aired[i] EXCEPT ![r.e] = @ + 1] ELSE aired[i]]
  /\ dir' = IF LooksUpRoute THEN Peeked ELSE dir

Finished(r) == r.retries >= LOCAL_REBROADCASTS_MAX \/ r.retries > PATHFINDER_R

announceDone ==
  /\ Which(ring, FALSE) # {} /\ Finished(ring[announce_find(ring, FALSE)])
  /\ ring' = Drop(ring, FALSE)
  /\ UNCHANGED <<deferred, capped, inner, search, tags, repeat, requested, escalation,
                 inputs, history>>

Emitted(R) ==
  IF Which(R, TRUE) # {} THEN Rearm(Drop(R, FALSE))
  ELSE [R EXCEPT ![announce_find(R, FALSE)].retries = @ + 1]

(* From jobs(), or from timers() where the moment matters.                 *)
announce_rec_emit ==
  /\ Which(ring, FALSE) # {} /\ ~Finished(ring[announce_find(ring, FALSE)])
  /\ ring' = Emitted(ring)
  /\ LET r == ring[announce_find(ring, FALSE)]
     IN  IF r.to # None THEN UNCHANGED <<deferred, capped, dir, aired>>
         ELSE \E full \in BOOLEAN : outbound(r, full)
  /\ UNCHANGED <<guard, search, tags, repeat, requested, escalation, inputs,
                 heard, carried, twice>>

process_announce_queue(i) ==
  /\ deferred[i] # NoBlob /\ ~capped[i]
  /\ deferred' = [deferred EXCEPT ![i] = NoBlob]
  /\ capped' = [capped EXCEPT ![i] = i \in Limited]
  /\ aired' = [aired EXCEPT ![i][deferred[i].e] = @ + 1]
  /\ UNCHANGED <<ring, inner, search, tags, repeat, requested, escalation, inputs,
                 heard, carried, twice>>

queuedTooLong(i) ==
  /\ deferred[i] # NoBlob
  /\ deferred' = [deferred EXCEPT ![i] = NoBlob]
  /\ UNCHANGED <<ring, capped, inner, search, tags, repeat, requested, escalation,
                 inputs, history>>

-----------------------------------------------------------------------------
(* A question is heard. A tag known already is a repeat of the question by *)
(* somebody else, and ours is dropped if that somebody is no further from  *)
(* a gateway than we are.                                                  *)
distance_of(n) == IF n = None THEN DISTANCE_NONE + 1 ELSE Distance[n]

repeat_heard(q) ==
  /\ Input /\ q.tag \in tags
  /\ repeat' = IF repeat # NoRepeat /\ repeat.tag = q.tag /\ distance_of(q.asker) <= OwnDistance
               THEN NoRepeat ELSE repeat
  /\ UNCHANGED <<ring, deferred, capped, inner, search, tags, requested, escalation,
                 history>>

NewQuestion(q) == Input /\ q.tag \notin tags /\ tags' = tags \cup {q.tag}
Answerable == Live /\ dir.blob # NoBlob

Refused(q) ==
  \/ Mode[q.on] = "roaming" /\ LearnedOn(q.on)
  \/ q.asker # None /\ dir.known.via = q.asker
  \/ PointToPoint(q.on) /\ LearnedOn(q.on) /\ dir.known.hops > 1

ToAnswer(q) ==
  [e |-> dir.blob.e, hops |-> dir.blob.hops, on |-> None, block |-> TRUE, to |-> q.on,
   held |-> FALSE, radio |-> FALSE, retries |-> PATHFINDER_R, heard |-> 0]

answerQuestion(q) ==
  /\ NewQuestion(q) /\ Answerable
  /\ ring' = IF Refused(q) THEN ring ELSE Append(Hold(ring), ToAnswer(q))
  /\ UNCHANGED <<deferred, capped, inner, search, repeat, requested, escalation,
                 history>>

Discovers(i) == Mode[i] \in {"ap", "gateway"}

repeat_schedule(q) ==
  IF /\ q.on \in Shared /\ Radius[q.on] > 0
     /\ 0 < OwnDistance /\ OwnDistance < DISTANCE_NONE /\ OwnDistance < distance_of(q.asker)
     /\ repeat = NoRepeat
  THEN [tag |-> q.tag, on |-> q.on, asker |-> q.asker] ELSE repeat

path_search_possible(i) == Radius[i] > 0 /\ Ifaces \ {i} # {}
Searching == search # NoSearch /\ ~search.old
NewSearch(i, asker) == [on |-> i, asker |-> asker, answered |-> FALSE, old |-> FALSE]

Carry(tag, I) ==
  /\ carried' = carried \cup ({tag} \X I)
  /\ twice' = (twice \/ \E i \in I : <<tag, i>> \in carried)

Onward(q) == {i \in Ifaces \ {q.on} : Askable(i) /\ CapAllows(i)}

searchFor(q) ==
  /\ NewQuestion(q) /\ ~Answerable /\ Discovers(q.on)
  /\ repeat' = repeat_schedule(q)
  /\ dir' = Peeked
  /\ IF Searching \/ ~path_search_possible(q.on)
     THEN UNCHANGED <<search, capped, carried, twice>>
     ELSE /\ search' = NewSearch(q.on, q.asker)
          /\ Carry(q.tag, Onward(q))
          /\ capped' = [i \in Ifaces |-> capped[i] \/ i \in Limited \cap Onward(q)]
  /\ UNCHANGED <<ring, deferred, guard, requested, escalation, heard, aired>>

ignoreQuestion(q) ==
  /\ NewQuestion(q) /\ ~Answerable /\ ~Discovers(q.on)
  /\ dir' = Peeked
  /\ UNCHANGED <<ring, deferred, capped, guard, search, repeat, requested, escalation,
                 history>>

(* timers(): nobody nearer to a gateway carried the question on.           *)
repeatDue ==
  /\ repeat # NoRepeat /\ repeat' = NoRepeat
  /\ dir' = Peeked
  /\ IF Live THEN UNCHANGED <<search, carried, twice>>
     ELSE /\ search' = IF search = NoSearch THEN NewSearch(repeat.on, repeat.asker) ELSE search
          /\ Carry(repeat.tag, {repeat.on})
  /\ UNCHANGED <<ring, deferred, capped, guard, tags, requested, escalation, inputs,
                 heard, aired>>

-----------------------------------------------------------------------------
(* This node asks: the cheap interfaces first, the others once the grace   *)
(* is over, or at once if there is no slot to wait in.                     *)
Slow == Ifaces \ Cheap

request_path(full) == escalation' = (escalation \/ (~full /\ Slow # {} /\ Cheap # {}))

askPath ==
  /\ Input
  /\ \E full \in BOOLEAN : request_path(full) /\ requested' =
       (\/ requested \/ Cheap = {} \/ \E i \in Cheap : Askable(i)
        \/ ~escalation' /\ \E i \in Slow : Askable(i))
  /\ dir' = IF \E i \in Ifaces : PointToPoint(i) THEN Peeked ELSE dir
  /\ UNCHANGED <<ring, deferred, capped, guard, search, tags, repeat, heard,
                 aired, carried, twice>>

escalate_path_requests ==
  /\ escalation /\ escalation' = FALSE
  /\ requested' = (requested \/ ~Live)
  /\ dir' = Peeked
  /\ UNCHANGED <<ring, deferred, capped, guard, search, tags, repeat, inputs,
                 heard, aired, carried, twice>>

-----------------------------------------------------------------------------
(* Time, the other destinations, and the consumers of the directory.       *)
searchAges ==
  /\ search # NoSearch
  /\ search' = IF search.old THEN NoSearch ELSE [search EXCEPT !.old = TRUE]
  /\ UNCHANGED <<ring, deferred, capped, inner, tags, repeat, requested, escalation,
                 inputs, history>>

pathExpires ==
  /\ Input /\ Live
  /\ \E d \in {[dir EXCEPT !.known.expired = TRUE], WithoutRoute} : dir' = d
  /\ UNCHANGED <<ring, deferred, capped, guard, search, tags, repeat, requested,
                 escalation, history>>

tableEvicts ==
  /\ Input
  /\ \/ /\ dir' = [dir EXCEPT !.known = NoRecord]
        /\ UNCHANGED <<ring, guard, repeat, heard>>
     \/ /\ dir' = [dir EXCEPT !.blob = NoBlob]
        /\ UNCHANGED <<ring, guard, repeat, heard>>
     \/ /\ guard' = NoGuard /\ heard' = {}
        /\ UNCHANGED <<ring, dir, repeat>>
     \/ /\ ring # <<>> /\ ring' = Tail(ring)
        /\ UNCHANGED <<inner, repeat, heard>>
     \/ /\ repeat # NoRepeat /\ repeat' = NoRepeat
        /\ UNCHANGED <<ring, inner, heard>>
  /\ UNCHANGED <<deferred, capped, search, tags, requested, escalation,
                 aired, carried, twice>>

capMoves(i) ==
  /\ i \in Limited /\ capped' = [capped EXCEPT ![i] = ~@]
  /\ UNCHANGED <<ring, deferred, inner, search, tags, repeat, requested, escalation,
                 inputs, history>>

-----------------------------------------------------------------------------
Next ==
  \/ \E p \in Announce : \E blocked \in MayBlock(p) : inboundAnnounce(p, blocked)
  \/ announceDone \/ announce_rec_emit
  \/ \E i \in Ifaces : process_announce_queue(i) \/ queuedTooLong(i) \/ capMoves(i)
  \/ \E q \in Question : repeat_heard(q) \/ answerQuestion(q) \/ searchFor(q) \/ ignoreQuestion(q)
  \/ repeatDue \/ askPath \/ escalate_path_requests
  \/ searchAges \/ pathExpires \/ tableEvicts

Spec == Init /\ [][Next]_vars

-----------------------------------------------------------------------------
Record == [e : Emissions, hops : 1 .. MaxHops, on : Ifaces \cup {None}, block : BOOLEAN,
           to : Ifaces \cup {None}, held : BOOLEAN, radio : BOOLEAN,
           retries : 0 .. PATHFINDER_R + 1, heard : Nat]

TypeOK ==
  /\ ring \in Seq(Record)
  /\ deferred \in [Ifaces -> [e : 0 .. MaxEmissions, hops : 0 .. MaxHops]]
  /\ capped \in [Ifaces -> BOOLEAN]
  /\ Len(guard.seen) <= FP_RING /\ guard.newest \in 0 .. MaxEmissions
  /\ guard.run < RDIR_G_RUN_LIMIT
  /\ dir.known.route \in Ifaces \cup {None} /\ dir.known.hops \in 0 .. MaxHops
  /\ dir.blob \in [e : 0 .. MaxEmissions, hops : 0 .. MaxHops]
  /\ tags \subseteq Tags
  /\ requested \in BOOLEAN /\ escalation \in BOOLEAN

(* announce_find takes the first match (Transport.cpp:5389), and what      *)
(* path_request holds, announce_rec_emit re-arms: at most one record of a  *)
(* destination is queued and at most one is held, however announces,       *)
(* questions, answers heard and evictions follow each other.               *)
OneQueuedOneHeld ==
  \A held \in BOOLEAN : Cardinality(Which(ring, held)) <= 1

(* An announce is rebroadcast PATHFINDER_R + 1 times each time it is taken *)
(* for a new one (Transport.cpp:587), whatever is held, re-armed, deferred *)
(* by the cap or heard from neighbours.  Records from before add two at    *)
(* most: a copy that waits for the cap, and one emission that a held       *)
(* record takes the place of.                                              *)
RelaysBounded ==
  \A i \in Ifaces, e \in Emissions : aired[i][e] <= PATHFINDER_R + 3

(* A question is passed on at most once on an interface, so that relays    *)
(* cannot keep one alive between them (Transport.cpp:635): neither by the  *)
(* search and the repeat together, nor when copies of it are heard.        *)
QuestionsCarriedOnce == ~twice

(* What would let relays keep announces or questions alive between them    *)
(* does not happen: records do not pile up, nor rebroadcasts, nor copies   *)
(* of a question.                                                          *)
NothingMultiplies == OneQueuedOneHeld /\ RelaysBounded /\ QuestionsCarriedOnce

(* "A looped or relayed copy of an emission we already had never lengthens *)
(* the route" (Transport.cpp:2486): while a path has not expired, a longer *)
(* one takes its place only by an emission not heard before.  So it is for *)
(* as long as the guard remembers the destination and no more emissions    *)
(* were heard than it has room for: an answer that was asked for is        *)
(* remembered however old it is (rdirGuardFresh), and enough of them drive *)
(* out the newest.                                                         *)
NeverLengthenedByACopy ==
  [][LET before == dir.known
         after  == dir'.known
     IN  before.route # None /\ ~before.expired /\ after.route # None /\ after.hops > before.hops
         => \/ \E e \in Emissions \ heard : heard' = heard \cup {e}
            \/ Cardinality(heard) > FP_RING]_vars
=============================================================================
