# A verification development for the Reticulum daemon (rns)

This directory models parts of this repository in TLA+, checks the models with
TLC, and proves theorems about them with TLAPS. The code is an ESP32 port of
Reticulum: the protocol stack in `esp-idf/components/microreticulum`
("microReticulum", C++) and the daemon around it in `esp-idf/src` (`rnsd`),
which runs the stack in one task and serves other tasks over the ITS bus.

Every definition is translated from the source; `PROJECT.json` ("map") gives the
lines of each. Line numbers below are of the same commit. `MR` stands for
`src/esp-idf/components/microreticulum/src`.

## 1. The system

### 1.1 Components

| Component | State | Operations | Interacts with |
|---|---|---|---|
| **Channel** (`MR/Channel`) | `_tx_ring`, `_rx_ring`, `_next_sequence`, `_next_rx_sequence`, the window and its limits | `send`, `poll`, `_receive`, `_shutdown` | Link (packets, proofs, teardown), Packet receipts, rnsd's channel bridge |
| **Link** (`MR/Link`) | status, keys, times of last traffic, request and resource lists, one Channel | request, `validate_request`, `prove`, `validate_proof`, `rtt_packet`, watchdog, `receive`, `teardown` | Transport (registration, routing), Channel, Resource, Destination callbacks |
| **Handshake repair** (`MR/Link`, `MR/Transport`) | per relay 8 kept packets; per link one repair flag | keep, resend once, forget when answered | Link, link table |
| **Transport: packets** | hashlist, link table, reverse table, receipts | `inbound`, `outbound`, `packet_filter`, `jobs` | everything |
| **Transport: announces** | announce records, ring, per-interface queues | receive, queue, rebroadcast, stand down | Directory, Interface |
| **Transport: paths** | path requests, pending repeats, escalations | `request_path`, `path_request`, answer, `expire_path` | Directory, Link, rnsd |
| **Directory** (`MR/Directory`) | guard, directory and blob pools in one arena | ingest, claim, route upkeep, lookups, eviction, snapshot | Transport and rnsd (writer), any task (readers) |
| **Resource** (`MR/Resource`) | parts, hashmap, window, retries | advertise, request, receive part, hashmap update, prove, cancel | Link |
| **Packet, PacketReceipt** | sent flag, receipt status | `send`, `resend`, proof validation, timeout | Transport, Channel, rnsd |
| **Destination, Identity** | ratchets, announce state, handlers | announce, encrypt, decrypt, recall | Directory, Transport |
| **Interface** | mode, announce queue and cap, bitrate | queue and send announces | Transport |
| **rnsd channel and link slots** (`src/esp-idf/src/rnsd.cpp`) | per consumer: slot state, outbox, receive backlog, deadlines | connect, kickoff, receive, disconnect, tick, poll | Link, Channel, consumer tasks |
| **rnsd destinations, announces, lifecycle** | own destinations, schedule, boot barrier | announce tick, fan-out, start and stop | Transport, storage |
| **rnsd_peers, rnsd_gateway** | peer table, gateway state | bookkeeping | rnsd |
| microStore, MsgPack, cryptography, bzip2, tlsf, OS, browser, LCD | | support, vendored code, displays | |

### 1.2 What is hard about it

The stack runs in one task, so its operations do not interleave with each
other; what interleaves is (a) the two ends of a protocol and the relays, with a
network that loses, repeats and reorders; (b) the writer of the directory and
its lock-free readers; (c) the steps of a consumer task with the daemon's;
(d) timers with late answers. `PROJECT.json` ("hazards") lists each place with
the properties that watch it.

### 1.3 What makes each component correct

- Channel: in order, once each, none skipped; an empty ring is a receipt for
  everything; every envelope ends; the window stays within its limits.
- Directory pool: no reader accepts a torn record; a destination that stays is
  found unless races were lost; a destination has one slot; lookups end.
- Link handshake: both ends agree on keys, half-open links are reaped, repairs
  neither establish a second link nor go on for ever.
- Link lifecycle: an end that closed is noticed by the other within the
  watchdog's time; closing runs its callbacks once.
- Resource: what is assembled is what was offered; every transfer concludes.
- Announces and paths: no announce loops, none is repeated after it was heard
  often enough, a better path is not replaced by a worse one, request state is
  released.
- Slots of rnsd: each slot is freed, its consumer is told, nothing accepted is
  dropped silently.

## 2. Modules

| Module | Models |
|---|---|
| `ChannelService` | What a channel promises: messages in order, once each; told "received" only of what was. |
| `Channel` | Both ends of one direction of a channel, Link's CHANNEL case, receipts, and the network. |
| `ChannelProofs` | `Channel`: type correctness, the window, order, the empty ring, refinement of `ChannelService`. `ChannelBridge`: type correctness, whole streams, the published receipt, nothing left behind. |
| `DirectorySeqlock` | The directory pool store by store, its writer's operations and its readers. |
| `DirectorySeqlockProofs` | Type correctness, one slot per destination, whole copies, justified misses. |
| `LinkService` | What establishing a link promises: fresh keys offered, one taken, and the callee up under that one only. |
| `LinkHandshake` | One link's establishment over a chain: both ends, the relays between them, the repairs, the clock. |
| `LinkHandshakeProofs` | Type correctness, callbacks once, refinement of `LinkService`, how often a proof passes a relay. |
| `ResourceService` | What a resource promises its sender: COMPLETE only when it was delivered, one end; a transfer cancelled for a bad request is not over until its link sweeps it. |
| `ResourceTransfer` | One resource over one link: both ends, their watchdogs and consumers, the network, the close. |
| `ResourceTransferProofs` | Type correctness, one report, whole data unless hashes collide, refinement of `ResourceService`. |
| `RequestService` | What rnsd promises who issues a request: one answer, a response only of what the remote end answered. |
| `LinkSlots` | rnsd's table of links: consumers' handles, outboxes, path wait, attempts, deadlines, eviction, receipts, resources, requests. |
| `LinkSlotsProofs` | Type correctness, slots, links and handles matched, refinement of `RequestService`. |
| `AnnounceRelay` | One destination as a transport node sees it: guard, route, announce ring and cap, questions, searches, repeats, its own requests. |
| `AnnounceRelayProofs` | Type correctness, one record queued and one held, bounded rebroadcasts, no copy lengthens a route. |
| `SendService` | What rnsd promises who sends an opportunistic packet: one outcome, and one word on the proof of what was sent. |
| `OwnDestinations` | rnsd's connections for own destinations: sends with path wait and receipts, the stored announces and what airs them, the ratchets over reconnects and restarts. |
| `OwnDestinationsProofs` | Type correctness, slots, ratchets, refinement of `SendService`. |
| `ChannelBridge` | rnsd's table of channels: consumers' opens and inbound links, outbox, the published receipt, Resources beside the stream, the tick; Channel and Link by what they promise. |
| `GatewayDistance` | The nodes of a community and how far each is from a way out: declarations in announces, expiry, early announces. |
| `GatewayDistanceProofs` | Type correctness, no distance is invented. |
| `MCChannelWorlds`, `MCLinkHandshake`, `MCResourceTransfer` | Several instances in one run: a variable that never changes says which of them a behaviour is of (3.1). |
| `MCChannel`, `MCDirectorySeqlock`, `MCLinkSlots`, `MCAnnounceRelay`, `MCOwnDestinations`, `MCChannelBridge`, `MCGatewayDistance` | Values of constants for TLC. |

### 2.1 Channel

Sending end: `txRing` is `_tx_ring` as a set of envelopes (the message number
gives their order), `nextSequence`, `window` with its two limits and the two
rate counters are the fields of `ChannelData`; `todo` is the rest of the loop of
`poll()`, visited one envelope per step. An envelope's receipt is the status of
the receipt of its latest copy: `resend()` packs a new ciphertext with a new
hash, so the proof of an earlier copy no longer matches (Packet.cpp:889).
Receiving end: `rxRing`, `nextRx`, and `rxBusy` while the delivery loop of
`_receive()` runs. The CHANNEL case of `Link::receive` proves a packet before
`_receive()` judges it; that order is part of `receive`.

Time is abstracted: an envelope may be overdue at any visit. A message is its
number; `settled` and `arrived` are history variables that only properties
read. The network is one of three: "any" keeps every packet for ever (loss,
duplication and overtaking without limit), "fifo" loses but does not reorder,
"lossless" reorders but delivers each packet once. `MaxSend` bounds the messages
of a behaviour, `MaxLead` how far the sender gets ahead of its oldest unproved
envelope (how many round trips fit into one retry deadline); the theorems hold
for all of them.

Not in the model: the size check of `send` against the link's MDU and payloads;
the second direction (an independent copy); Link encryption. While its link is
STALE a channel takes no message (Channel.cpp:137) but polls and retries as before:
`send` is an action that need not be taken, so a refusal is no step of its own; what
it means for the consumer is in `ChannelBridge`.

### 2.2 DirectorySeqlock

Each record is four words plus its counter, each store and load of which is a
step. The writer opens a slot with `writeBegin`, wipes it word by word with
`recClear` where the code does (address order, the counter among them),
stores its fields in any order, and closes it with `writeEnd`. A reader scans
without protection, loads the counter, copies word by word and checks. The
history fields of a reader record which payloads the slot was given since the
copy began and whether the destination it asked for has been in the pool all
along.

Assumed: a store is seen by the other core in program order, except that stores
to the fields may be reordered among themselves between the two counter stores;
nothing in the code forbids a later payload store to pass the release store of
`writeBegin`, the in-order cores this runs on do not do it.

`MaxSections` bounds how often one slot is opened during one copy of it.

### 2.3 LinkHandshake

Nodes are numbered along the chain: 0 opens the link, `Hops` is the destination,
those between are relays with a route each. `initiator` and `responder` are the
`Link` objects of the two ends (status, key, seconds left), `entry` and
`repairs` each relay's `_link_table` entry and `_handshake_repairs`, `seen` each
node's `_packet_hashlist`. A key is the number of the link object the
destination built for the request, so that a second object under the same link
id would show. What goes over the link carries the key it was encrypted under
and a serial number that stands for its hash; the request and the proof are
always the same bytes.

A transmission puts one copy into the air for each neighbour, so a relay hears
its own packet come back from the next one; header (`via`), hashlist and hop
counts decide, as in `inbound`, who takes a copy. `tick` counts every timer
down by a second, only when nothing that is due is left to do: a copy arrives
within `MaxDelay`, and the jobs pass runs every second
(`_links_check_interval`). What may go wrong in a behaviour is a *mishap*, of
which there are at most `MaxMishaps`: a copy is lost, a relay culls an entry
whose proof has not passed in time, a hashlist evicts a hash, a consumer closes
the link.

Not in the model: damaged frames, hence the branches for bad signatures, other
modes and unknown identities; a second radio on a relay; changing routes; other
links that take up repair slots; statistics; the path rediscovery that follows
a failed attempt; STALE, which a link reaches minutes after its handshake.

### 2.4 ResourceTransfer

`tx` is the sender's `ResourceData` and whether the link still holds it, `rx` the
list of `_incoming_resources` with what gates them (rnsd's one at a time, the
pending request of a response). A part is its position; its packet carries only
its map hash, and `hashOf`, a function on the `_total_parts` positions, says which
of them share one, as four bytes may.
`net` is a bag, so a repeated packet is a second copy. `receive_part` is taken
apart into the operators `Refreshed`, `Filed`, `Grown`, `Adapted`, `Continued`,
applied in the code's order; which of three actions it is depends on how it
ends: the part has no place, more parts are wanted, or it was the last. A request
that does not fit the hashes the sender gave out (`requestOutOfSequence`) is refused
after the parts it names went out: the transfer is FAILED, and the link holds it
until the watchdogs are swept.

A watchdog's deadline is due when nothing that could still come is under way
(and, for the sender's longer ones, when the receiver has no retries left); it
may also fall early, which is a mishap. The other mishaps are a lost packet, a
repeated one and a consumer that closes the link. `MaxMishaps` bounds them.
Three kinds of consumer: the application's behind rnsd, which accepts one
resource at a time; a large request; the response to one.

Not in the model: bytes (compression, encryption, the advertisement's fields);
several resources at once over a link; rnsd's limits on size.

### 2.5 LinkSlots

All of it is one task's state, the record `rnsd`: the `link_conn_t` table
(`slot`), the `Link` objects behind it (`link`), the handles the ITS bus holds
open (`handles`), what each requester and each resource's consumer was told
(`told`), and the slots in the order of their last activity (`idle`), which is
what eviction goes by. The handlers call each other while they run: an open
evicts, eviction tears a link down, its callbacks fail a resource, freeing the
slot fails a request and closes a handle. So each function of the code is an
operator from one state to the next, and an action applies the handler's to
`rnsd`. `linkTick` looks at each slot once a second; each deadline that may
have passed is a disjunct of it.

A request and a resource have names that are used once. `replied` is what the
remote end has answered; the answer may come before or after rnsd's backstop,
which leaves the request in the `Link`'s list. `route` stands for a path and a
recallable identity of the destination. `told` is read only by properties and by
the guards that keep names from being used twice. A link that is closed lets
go of all it had, and its number is used again (`MaxLinks` at a time). This table
nowhere asks whether a link is ACTIVE or STALE, so both are "ACTIVE" here.

Not in the model: exceptions of the stack and of the allocator, and a request
that `Link::request` declines to send; aux frames lost at a full consumer;
proofs of inbound packets; what is published to storage; turning proofs on again
after they were off; the destination's switch that refuses inbound resources.
Two limits are silent in the code and no property speaks of them: `SEND_RESOURCE`
to a link that is unknown or busy (rnsd.cpp:7308, 7313) and a deferred one whose
slot is freed (rnsd.cpp:6822) end without a word to the consumer.

### 2.6 AnnounceRelay

One transport node and one destination of somebody else's. `ring` holds the
destination's records of the announce ring in the order of their timestamps
(`announce_find` takes the first that matches); `deferred` and `capped` are its
entry in each interface's announce queue and whether `announce_allowed_at` lies
ahead or another's entry waits there; `guard` is its `rdir_guard_rec_t`, `dir` its
record and blob in the directory; `search`, `tags`, `repeat`, `requested` and
`escalation` are its places in the tables of `path_request` and `request_path`.
An announce is known by its emission, which stands for the blob and the time in
it. A handler is an action: `inboundAnnounce` applies, in the code's order, what
another's answer and a neighbour's rebroadcast do to the ring, the guard, the
retention rules and the queueing of the relay copy.

The tables are shared with destinations outside the model, and so is time. A full
table shows as an eviction or a refusal at any moment, the rate limit as a
choice, a deadline as an action that may happen at any moment. `MaxInputs` bounds
what comes from outside: packets heard, the node's own requests, evictions.

Not in the model: clients attached to a shared instance (nothing in this
repository fills `_local_client_interfaces`), the node's own destinations,
switching transport at run time, the emission budget of a jobs pass, questions
with a short label, the first-in first-out cull of the tags, announce handlers,
and damaged or forged announces.

### 2.7 OwnDestinations

`conn` is `s_our_dests`, `receipts` is the set of the slots of `s_our_dest_receipts`
(the proof window is a live setting and the clock may be stepped, so that any of
them may have the nearest deadline and be the one evicted), `mr`
the status of the `PacketReceipt` the stack keeps for each send; the two tables
are emptied by different hands and need not agree. `replay` is the mask of
interfaces that wait for the stored announce, `replayDue` and `sweepDue` the two
deadlines behind it, `ring` what the hosted `Destination` has in memory, and `disk`
what was stored of it. All consumers of the model want the same destination: the
first hosts it, the others are outbound-only, as `onOurDestConnect` decides. A
handle may be that of a connection closed before. Whether there is a path is
asked anew at each send and each tick.

When a ratchet was made is stored by a clock that is right, or else by the uptime,
which a reboot makes worthless; `at` keeps which of the three cases holds, and
`newest` remembers, for the property alone, whether an interval has passed since.
Storage is external: it keeps what it was given. `refused` is the outcome of a
send that does not fit or finds no slot (`EVICTED`, `TOO_LARGE`). `MaxKeys` bounds
the ratchets after which an interval may pass, `MaxInputs` the calls, beats and
restarts.

Not in the model: the hand-off of inbound packets and frames lost at a full
consumer, listening for links and channels, the probe and management
destinations, the management announce brought forward, a ratchet record that
does not parse.

### 2.8 ChannelBridge

All of it is one task's state, the record `rnsd`, and its handlers are operators
as in `LinkSlots`. `slot` is the `chan_conn_t` table, `link` the Links with the
Channel on them, `tree` the channels that have something in storage, `told` what
each consumer was told of a Resource. A Link is known by the order in which it is
made. Of a Channel the model keeps what `ChannelService` promises and the slots
depend on: the messages it accepted, those that were proved, the window; `poll`
has its outcomes: a proof taken, a retry, the last retry, which closes the Link. A
message of a consumer is its number; one of them may be larger than an envelope.

A Link that hears nothing for `_stale_time` goes STALE (`goesStale`, Link.cpp:1038).
No callback tells of it: the slot stays `LST_ACTIVE` with its Channel attached, and
`channelPollAll` goes on polling and publishing, but `is_ready_to_send` refuses
(Channel.cpp:137), so that messages go to the outbox and a flush takes none (`Room`).
The grace then closes the Link (`graceEnds`, Link.cpp:1045), unless a packet for it
comes first: a message or retry of the peer, a Resource's packet, an answered
keepalive, all through `Link::receive` (`link_receive`, Link.cpp:1451). The proof
of an envelope is not among them: it goes to its receipt (Packet.cpp:881-915),
which takes it on a STALE Link too (`Proves`). `heard` is history, read by a
property alone: whether the Link was ACTIVE when `outstanding` was last compared.

Names that `Channel` has too carry a prefix (`BridgeInit`, `BridgeNext`, `BridgeSpec`,
`BridgeTypeOK`), so that `ChannelProofs` can extend both.

Not in the model: exceptions of the stack; frames of a Channel's other direction
(delivery to the consumer is `onChannelMsgCb`, which only touches the slot); the
path wait of an open, which is that of `LinkSlots`; the bytes of a frame.

### 2.9 GatewayDistance

`node` is what one node's `rnsd_gateway.cpp` holds: uplink, own distance, a row for
each neighbour with what it declared, whether it was discovered, and its age in
half hours; `standing` says whether a node declares its distance, only announces,
or is gone. Two things are outside this repository and modelled from their use:
netgraph, which composes and reads the management announce, and stock nodes,
which announce. `hears` is what an announce does at one neighbour, in the order of
the announce handler: `rnsdGatewayHeard`, then what it declares. `halfHourPasses`
is a node's beat: rows about it age everywhere and its announce refreshes them;
what takes seconds (a tick, a composition, an announce brought forward) is done
within it (`Idle`), while other nodes' beats come in any order. `MaxInputs` bounds
losses, restarts, uplinks and changes of standing.

Not in the model: a full table, publication in storage, the printed table. The
other half of the story, the relay that repeats a question because it is closer
than the asker, is `AnnounceRelay`'s `repeat`; `Downhill` is its condition.

## 3. Runs

| Run | Instance | Shows |
|---|---|---|
| `channel_worlds` | two worlds. *Faulty*: network "any", 2 messages, 2 tries, interfaces come and go, all round-trip classes, scaled window table. *Wrapping*: network "lossless", modulus 5, 11 messages, lead 2 | `ChannelService` is implemented; window bounds; every envelope ends; what is proved is delivered. 2 tries and 2 messages give retries, culled receipts, late proofs of earlier copies, duplicates and overtaking; 8 sequence numbers keep the wrap out of their way. In the wrapping world order and the empty ring hold across two wraps as long as the lead is at most the window and nothing is sent twice. Both conditions are needed: see 5. |
| `channel_egress` | 3 tries, interfaces come and go | Violation: see findings. |
| `directory_pool` | 1 slot, 2 destinations, a lookup and a walk, 2 tries, modulus 4, 1 section per copy | No torn copy from a counter that is not 0; misses justified; lookups end. One slot makes every insertion evict, so a record changes hands under the reader; modulus 4 makes the counter wrap. |
| `handshake_chains` | two chains. *Long*: 2 relays, 1 mishap of any kind at any place and moment, 3 s of airtime (an MTU at about 1200 bit/s). *Short*: 1 relay, 2 mishaps, 1 data packet | Long: one lost copy beyond the first hop is repaired and proofs do not multiply (`RepairsSuffice`); no end stays half open and the ends come to agree (`EndsSettle`). Short: `LinkService` is implemented, callbacks fire once. Two relays are what it takes for a proof to be heard back, and for the three waits (responder, near relay, far relay) to differ; two mishaps let a request be repeated after its hash was forgotten while the proof of the first is under way. |
| `resource_sorts` | three sorts of link. *Steady*: 3 parts, 2 hashmap segments, any 2 mishaps, an application's resource or a request, parts that share a map hash. *Changing*: 1 mishap, very slow and fast links, an application's or a response. *Long*: 5 parts, 3 segments, one early deadline, a request | COMPLETE means delivered (`ResourceService`); nothing is assembled wrongly unless hashes collide; the receiver's consumer hears of each resource once; on changing links every transfer ends at both ends, and one that lost a packet other than the proof completes (`TransfersEnd`). 3 parts over segments of 2 give a window that runs out of hashes; 2 mishaps give a retry whose answer is lost or repeated, and a close during either. 5 parts and an early retry give two accepted copies of which one asks out of sequence. |
| `bridge_slots` | 2 slots, 2 consumers and inbound links, 3 links in all, outbox of 2, windows of 1 and 2, 4 calls and events in any order (a Link's going STALE is one) | Each stream reaches its Channel whole and in order; a zero published on an ACTIVE Link is a receipt but for a message too large; a tree in storage, an open link and a Resource each belong to a slot (`NothingLeftBehind`); every slot comes to rest. A third open evicts; 4 inputs are two opens, a message behind a full window and a close, or an inbound link, its going STALE and two messages that wait while 0 is published and go when it is heard again, or an open that evicts a slot whose Resource is under way. |
| `bridge_oversize` | 1 message that is too large | Violation: see findings. |
| `gateway_pair` | 2 members in earshot of each other, a stock node with a wired interface (refused by one of them) and a router named by the other, ceiling 4, horizon 1, 2 inputs in any order | No distance is invented; distances settle at the hops to a way out that is there; a question then finds its way. Two inputs take both ways out away, so that the two count each other up to the ceiling, or take one away while the other's announce is lost. |
| `slots_faults` | 2 slots, 2 consumers and a peer, 3 calls, 2 requests, a resource each way, 2 attempts | Links, slots, handles and counters agree and each resource is reported once (`TablesAgree`); `RequestService` is implemented. A third open evicts; 3 calls are an open and two requests, of which the first answer may come late, or an open with two things deferred. |
| `slots_ends` | the same with 1 request and no resources | Every request ends, and every open comes up or is given back (`EveryWaitEnds`). |
| `announce_relay` | a radio with two relays in earshot and a point-to-point link, 2 emissions, 2 questions, 3 inputs in any order, a guard that remembers 2 emissions | One record queued and one held, rebroadcasts bounded, a question carried once (`NothingMultiplies`); no copy lengthens a route while the guard has room for what was heard. 3 inputs are an announce, the question that holds it and a neighbour's answer or rebroadcast that re-arms it; or two emissions and a late copy of the first. |
| `own_destinations` | 2 connections, 2 sends, 1 send that waits for a path, 1 receipt, 2 interfaces, 2 ratchets retained, 5 inputs in any order with restarts | `SendService` is implemented; a slot forgets who had it; the last ratchets open mail and none is retired early; sends end and a stored announce reaches every interface (`NothingTakenIsForgotten`). With one receipt the second send evicts the first; 5 inputs are an announce, two rotations and a restart between them. |

### 3.1 Instances, bounds, fairness

Where one bound is enough for one question and another for a second, a run has
both instances: `world`, `chain` or `sort` is chosen initially and never changes, a
step of the run is a step of the chosen instance, and the properties of each are
stated of it. The instances are the component's module itself, with its constants
given by an INSTANCE.

`KEEPALIVE` (360 s in the code) is scaled down to 20 and 30 s; it only has to
exceed every repair's time, which it does. The request's first hop is left out
of `SingleLossRepaired` because no one keeps the request there; the initiator's
retry is the daemon's, a new link.

`CHECK_DEADLOCK FALSE` is set where a closed link, a finished handshake, or the
bound on messages or sections lets the system stop.

Fairness (`FairSpec`). Channel: the daemon wakes at least at its next deadline
and polls every open channel each time (rnsd.cpp:9118-9124), so `poll` goes on
(weak fairness); a deadline is finite, so an envelope visited again and again is
overdue at some visit (strong fairness per message); the receiving task finishes
its delivery loop. Nothing is assumed of the network or of the consumers.
Directory: a reading task takes its next step; nothing is assumed of the writer.
Handshake: a frame that arrived is handled (the daemon drains its inbox), the
jobs pass happens (rnsd calls it on its loop), time passes; no consumer has to
do anything and no copy has to be lost. Resource: a packet that is not lost
arrives, and `Transport::jobs` polls the watchdogs of every active link; no
deadline has to fall early. Slots: `linkTick` runs every second
(rnsd.cpp:6957) and a deadline is finite; nothing is assumed of consumers,
peers or paths. Own destinations: the loop looks at both announce deadlines on every
wake (rnsd.cpp:9126-9160), the two ticks run each second while a send waits, and
each deadline is finite; nothing is assumed of consumers, interfaces or proofs.
Bridge: the loop polls each channel and its tick runs
(rnsd.cpp:9113-9124, 9242), deadlines are finite, an envelope's retries are, and
a Resource concludes (`ResourceService`, `TransfersEnd`); a STALE Link that is not
heard from is closed, since `Transport::jobs` calls the watchdog of every active link
each second (Transport.cpp:420, 493, 953) and the grace is finite. Without this last
one `ChannelsEnd` fails. Gateway: beats and ticks
go on, netgraph composes an announce when the distance it declares has moved.
`announce_relay` has no liveness property and needs no fairness.

## 4. Findings

1. `channel_egress` — `Packet.cpp:519`. A resend no interface takes makes the
   next one throw out of `poll()`, which nothing catches.
2. `bridge_oversize` — `rnsd.cpp:7757`. A message larger than an envelope that is
   handed over before the handshake is buffered unchecked; `Channel::send` refuses
   it at each flush, nothing behind it is sent, and `outstanding` reads zero, which
   the comment at 8266 calls a receipt for everything. The same sentence fails
   without such a message on a STALE Link: with an exception for the message alone
   TLC refutes it by an inbound link, `goesStale`, `onChannelRecv` (the message waits)
   and `channelPollAll`, which finds the ring empty and publishes 0; when the grace
   ends, that message is lost. `ReceiptUnlessHeldUp` makes just these two
   exceptions, and each is needed.

Noticed beside the runs.

Directory. `Directory.cpp:201`: `recClear` wipes the counter with the record and
puts it back; a reader that loads the 0 in between takes it for an even counter
of a slot at rest, and if the counter, which has 16 bits, is at 0 again when it
checks, accepts a torn copy. The comment at 195-198 says why it is put back, not
that it is 0 for a moment. `NonZeroCopyIsWhole` says what does hold.

Links and resources. `Link.cpp:1735`: an advertisement is accepted without
asking whether the link already has the resource, so the retry of one whose first
request is still under way is accepted again; `Link::receive` then hands a part
to the first copy that has room for it, where its comment says that a part maps
to at most one resource. rnsd's consumers are spared: they accept one resource
at a time. A second copy also takes the hashmap update that the first asked for and
then asks from the end of hashes it does not have; the sender refuses that as out
of sequence and cancels a transfer that could have gone on. `Resource.cpp:854`:
`validate_proof` does not ask whether the transfer is FAILED, so the proof of the
other copy makes a cancelled one COMPLETE. `rnsd.cpp:6422`: the cap on inbound resources that INTERNALS.md 5.5
describes counts outbound ones too. `Link.cpp:586`: the `failed_callback` that
`Link::request` documents is not called when a request times out or its link
closes; rnsd makes up for it with a deadline of its own (`LinkSlots`).

Channel bridge. `rnsd.cpp:7912`: `SEND_RESOURCE` for a channel that is busy or
unknown is dropped without an answer, as is a Resource kept for a slot that is
freed. `rnsd.cpp:7798`: when the Resource's constructor throws, the consumer is
told of a failure of resource 0, since the number is stored only afterwards. An
inbound link whose request is replayed while the old slot is in its 3 s of grace
gets the same tag, so that freeing the old one removes the new one's tree from
storage. An open with a tag that is in its grace is refused.

Gateway distance. `rnsd_gateway.cpp:145`: `recompute` returns before it publishes
`rnsd.gateway.uplink` when the distance does not move, so a node that is a gateway
by hand does not show an uplink that comes up later. The distance is computed
under the lock and published after it, from two tasks; the older value may be
written last.

Own destinations. `Transport.cpp:4460`: a question for an own destination is
answered with an announce that carries no application data, since nothing sets
`default_app_data` (Destination.h:328). `rnsd.cpp:2211`: a parked send leaves its
slot before it is tried, and what the attempt returns is not looked at.
`rnsd.cpp:1945`: a consumer that opens again before its old connection was reaped
becomes outbound-only and stays so. Turning ratchets off clears them in memory;
they come back from storage when it is turned on again. A node whose clock was
never set and that has been up for longer than an interval rotates at each
reconnect, since it stored 0 for the time. `rnsd.cpp:1094`: `hostedDestsRefresh`
collects one destination more than the array it copies to holds.

Handshake repair. `Transport.cpp:500`: a relay keeps a request for repair longer
than its link table keeps the link. The entry's time is the airtime of an MTU and
6 s a hop (Transport.cpp:2150), the repair is due after 12 s a hop
(Transport.cpp:3751); the pass over the tables runs every 60 s, and one that falls
in between erases the entry, with which the repair is dropped unsent, where
INTERNALS.md:36 promises one retransmission at that hop. `Transport.cpp:3767`: when
eight other links hold the repair slots the newest handshake goes without repair.

Announces. `Transport.cpp:2396`: an answer that waits in the ring is dropped like
a relay copy when two neighbours' rebroadcasts are heard, on whatever interface;
the announce it held back is then not re-armed, though the comment at 4534 says a
held one is once the answer was served, until a newer announce is emitted, after
which the older goes out and the newer record is erased. `Transport.cpp:2402`: the
stand-down for an announce that was "passed on to another node" compares the
present with the record's own timestamp, which is past, so that it never happens.
`Directory.cpp:529`: two late copies in a row begin the guard anew, and so does an
eviction; from then on a copy of an emission that was heard before counts as new,
and may lengthen the route. Emissions taken because they were asked for push the
newest out of the guard's ring in the same way: an announce is heard, the node
asks, and `FP_RING` (4) older emissions come as answers, which the guard lets by;
a longer copy of the newest is then novel (Directory.cpp:503-512) and lengthens the
route against the comment at Transport.cpp:2486. `NeverLengthenedByACopy` is stated
for as many emissions as the ring holds. A stored answer carries the
hops of the blob, which are old when a newer announce did not fit the blob slot.
`Transport.cpp:3981`: when sixteen escalations are under way a further request
goes out once, without the second tier.

## 5. Proofs

`ChannelProofs`, for every modulus, window table, number of tries and network:

- `TypeCorrect`, `WindowSafe`: by invariants that are inductive with the types.
- `InOrder`, `EmptyRing`, `Refines`, all under `NoWrap` (`MaxSend < SEQ_MODULUS`):
  the inductive invariant `IInv` relates each sequence number in flight, in a
  ring or proved to its message (`sequence = msg - 1`), says that what was
  delivered is a prefix, that what arrived is delivered or held, and that a
  proof is only under way for what arrived. `NoWrap` is tight: with
  `MaxSend = SEQ_MODULUS` a late copy of the first message passes for the next
  one. Beyond it two things go wrong that TLC shows on `Network = "fifo"`, without
  a run of their own here. `Channel.cpp:258` (modulus 4, 9 messages, lead 1): a
  late copy with a high number is taken for one ahead of its time after the
  receiver's number wrapped, and is delivered one cycle later in place of the
  right message. `Channel.cpp:261` (modulus 5, 10 messages, lead 3): the guard
  refuses what lies more than `WINDOW_MAX` beyond a gap once that span crosses
  the wrap, after the link has proved it, so the sender's ring can empty
  without delivery.

`DirectorySeqlockProofs`, for any pool, destinations, readers and even modulus:

- `PoolTypeCorrect` and `OneSlotForEach`: `OneSlotEach` follows a destination
  through eviction and reuse, including the half-made records.
- `CopiesWhole`, under `NoLap` (`2 * MaxSections < SEQ_MODULUS`): the invariant
  `AllCounted` says that the counter of the slot a reader copies is ahead of what
  the reader loaded by exactly the sections opened since, modulo the counter's
  width; while `recClear` has the counter at 0 the value it will restore
  (`Number`) takes its place. Equal counters then mean no section was opened.
  With `2 * MaxSections = SEQ_MODULUS` TLC finds a torn copy.
- `MissesAreRaces`: a destination that stays in the pool is always ahead of the
  reader's scan (`Found`), which needs `OneSlotEach` and that a record in place
  keeps its key (`Identified`).

`LinkHandshakeProofs`, for a chain of any length, any timeouts and delays, any
number of repair slots, and mishaps of every kind in any number:

- `TypeCorrect`; in particular no timer passes zero.
- `OnceEstablished` and `Refines`. The service's steps are not inductive by
  themselves: that the responder comes up under the key the initiator took rests
  on where keys can be. `IInv` adds that nothing moves before the request
  (`Silent`), that every proof in the air or kept unsent at a relay carries a key
  already offered (`ProofsOffered`, `KeptOffered`), and that RTT packets and data
  carry the key the initiator took (`LinkKeys`). Three lemmas carry the proof:
  `AirStep` names the origin of every new copy, `SlotStep` that of every kept
  proof, `EndStep` the seven things a step can do to the two ends.
- `NotEchoed`: `ProofsBounded`, the part of `RepairsSuffice` that does not depend on
  the waits. A relay's count says nothing by itself; `Passes` counts with it the
  copies it awaits and the repair it may still make (`Passed`). For the relay next
  to the destination that sum and what the destination still owes (`Owed`: two
  proofs while it does not remember the request, one while it has not repaired) stay
  within the bound, since only an evicted hash makes it owe again; for any other the
  sum is at most one more than the relay beyond it has passed, because the hop test
  takes no copy from elsewhere. That a relay's repair is one rests on `KeepsOne`:
  one unsent proof in its slots, of an entry that can no longer be culled. The bound
  then follows from relay to relay, from the destination's neighbour back.

`ResourceTransferProofs`, for any number of parts, size of segment, kind of
consumer, map of hashes, mishaps and retries:

- `Types`, `Reports`, `Clean`, `TransferRefines`. `IInv` has four parts. `Typed`: what
  each end holds; where hashes are injective (`Good`) a copy holds its own parts in
  its own places. `Held`: a proof is under way only for data that was completed, and
  nothing moves before the sender starts. `Reported`: what the consumer was told of
  a copy follows from where the copy is. `Ordered`: as long as the resource was
  accepted once at most (`OneCopy`) the hashes known are a prefix that ends at a
  segment, requests fit it, and nothing is under way beyond what was asked for. The
  last is what makes a request out of sequence a matter of two copies.

`AnnounceRelayProofs`, for any interfaces, emissions and sizes of the tables:

- `Types`, `NothingAddsUp` (`NothingMultiplies`). At most one record is queued and
  one held (`Ringed`). That rebroadcasts are bounded rests on a sum (`Sums`): those
  aired of an emission, the copy that waits for the cap and the attempts its record
  has left are together at most `PATHFINDER_R + 3`, and a queued record goes out
  with its first attempt while another is held. The bound counts a copy that waits
  for the cap and one emission that a held record displaced.
- `CopiesDoNotLengthen`. `Remembers` says that the guard's ring holds distinct
  emissions that were heard, and the newest of them unless more were heard than it
  has places (a pigeonhole argument).

`OwnDestinationsProofs`, for any numbers of connections, sends, receipts, ratchets:

- `Types`, `SlotsForget`, `WindowRetained`, `SendsRefine`. `IInv`: what is stored is the
  newest ratchets without a gap, and what is in memory the same while the
  destination is hosted (`WindowHeld`); one connection hosts it (`OneHosts`); for each
  send the word told, the owner of its slot and the handle agree (`SendsHeld`), which is
  what makes the outcome of a reused slot the outcome of the new send.

`LinkSlotsProofs`, for any tags, requests, resources and sizes of the tables:

- `Types`, `Agree` (`TablesAgree`), `RequestsRefine`. `IInv` has three layers. Each slot
  by itself (`Alone`): what its state, link, attempts, resource, request and receipt may
  be together. Slots and the rest of the tables: two slots share nothing (`Apart`), a
  slot and its link are in the same stage and a link without a slot holds nothing
  (`LinksHeld`), handles are of slots that have one, what a slot still owes was not
  answered (`WordsHeld`), a link lists only requests that were issued, and `idle` names
  each slot in use once. Last, a slot whose link is up has nothing left to flush
  (`Flushed`), which fails within `onLinkEstablishedCb` and is kept apart for that.
- A handler is a chain of operators, of which each changes one slot and what is its
  own. `Only` says which slot, `Turns` what such a change has to keep, and each
  operator (`linkFreeSlot`, `link_closed`, `linkAlloc`, `linkKickoff`, ...) has a lemma
  that it does, so an action's proof follows the handler's calls.
- For the refinement each of those lemmas says also what became of requests: nothing
  (`Quiet`), one failed (`FailsOne`), one issued (`Opens`) or one ended (`Ends`). That an
  answer which comes after the backstop says nothing to a later request rests on `Apart`
  and `WordsHeld`: only the slot that still asks for a request hears of it.

`ChannelProofs` also, of `ChannelBridge`, for any tags, links, resources, windows and
sizes of the table and of an outbox:

- `BridgeTyped`, `StreamStaysWhole`, `ZeroIsAReceipt`, `NothingIsLeftBehind`. None of
  `StreamIsWhole`, `ReceiptUnlessHeldUp` and `NothingLeftBehind` is inductive. `BridgeIInv`
  says of each slot what its state allows it to hold (`Alone`), that two slots share no
  tag, link or resource (`Apart`), what a slot's link has of it (`Linked`): nothing while
  it is being established, and once it is up exactly the slot's resource, the front of
  its stream (`Whole`) and all it was said to have (`Receipted`); that a link
  without a slot is new, or closed and empty (`Loose`); one tree for each slot in use
  (`TreesHeld`); no word yet about a resource that a slot still has (`WordsHeld`).
- `Whole` speaks of the stream alone: it ascends, and its numbers are those handed over
  less those refused. Ascending is what the order of the three ways into the stream
  keeps: a message handed over carries the highest number yet, and a flush moves the
  front of the outbox to the end of what the Channel accepted (`MovesOn`, `NextInStream`).
- `ZeroIsAReceipt` rests on the order within a poll. After a flush on an ACTIVE Link
  either the outbox is empty, or a message no envelope holds is at its head, or the
  window is used up (`Emptied`); in the last case an envelope is unproved, so what is
  published is not zero (`PublishedFields`). On a STALE one nothing is flushed, and the
  theorem says nothing of what is published then (`heard`). A receipt once given stays
  true: later messages are not `covered`, and neither going STALE nor coming back
  (`StatusKeeps`, `Wakes`) takes a proof away.
- `NothingIsLeftBehind` follows the calls: each operator (`link_closed`, `teardown`,
  `chanFreeSlot`, `chanAlloc`, `chanKickoff`, `chanFlushOutbox`, `Publish`, ...) changes one
  slot and what is its own (`Only`), and has a lemma that it keeps the invariant. Eviction
  within an open and a teardown within an inbound link's establishment are then
  chains of these.

`GatewayDistanceProofs`, for any nodes, links, ceiling and horizon:

- `Types`, `NothingInvented` (`NeverTooNear`). For every distance a node holds as its
  own, announces or has in its table there is, or was, a way out within that many
  hops (`Sound`). What is `d` hops from a way out is a recursive function; that it
  satisfies its defining equation is proved too.

Induction over numbers, there and in the pigeonhole, is by the least counterexample
(`NatLessThanWellFounded`, `WFMin`), not by a theorem with an operator parameter.

The attempts corrected the models. `rdirGuardFresh` was a CASE whose arms overlap,
which TLA+ leaves open and TLC decides by order; it is a chain of conditions now, as
in the code. The bound of `NothingMultiplies` was one too small for the caps the code
allows, and `NeverLengthenedByACopy` was true of few emissions only (see 4). In
`ResourceTransfer` the refusal of a request out of sequence was missing.
`LinkSlots` and `ChannelBridge` walked a set of resources that has one member at most
with a fold; they now say what happens to that one, which `LinksHeld` shows to be all.

Only model-checked: the liveness properties (ENABLED and fairness are out of the
provers' reach), the other half of `RepairsSuffice` (`SingleLossRepaired` depends on
the waits), `TypesOK`, which only says of which of its two instances `TypeOK` is
checked, and everything beyond `NoWrap` and `NoLap`.

## 6. Plan

In this order; each with its runs, and proofs for its safety where marked (P).

1. Directory store: claims and eviction order, blobs, snapshot and restart (P).
2. The link's lifecycle: watchdog, keepalives, STALE, teardown (P).
3. Packet hashlist, reverse table; peers.

## 7. Not modelled

Cryptography (taken as perfect), encodings, storage drivers, vendored code (bzip2,
tlsf, donna, microStore, none of which keeps state of the protocols), commands and
what is published for display, user interfaces. Tests, headers and these parts are
more than half of the lines under `src/`.
