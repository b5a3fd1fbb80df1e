-------------------------- MODULE DirectorySeqlock --------------------------
(***************************************************************************)
(* The directory pool of components/microreticulum/src/Directory.{h,cpp}   *)
(* as its readers see it: one writer (the rnsd task), readers on any task, *)
(* no lock, and in every record a sequence counter that is odd while the   *)
(* writer is at work on it.                                                *)
(*                                                                         *)
(* The writer's operations are sequences of stores: the counter made odd   *)
(* (writeBegin), for a record put to a new use everything wiped            *)
(* (recClear), the fields written, the counter made even (writeEnd).  A    *)
(* reader scans the pool without any protection, and for the slot that     *)
(* seems to match copies the record out between two loads of the counter   *)
(* (recCopy).  All these steps interleave one by one, in program order, as *)
(* on the in-order cores this runs on; only the stores to the fields may   *)
(* be reordered among themselves.                                          *)
(*                                                                         *)
(* A record is four words, in the order of their addresses: the key it is  *)
(* found by, what lies between that and the counter (public key, claims,   *)
(* route: "body"), the flags byte, and what lies behind the counter (prio, *)
(* claim times, last_alive: "tail").  The flags byte really lies inside    *)
(* the body; what matters is that it comes before the counter.             *)
(***************************************************************************)
EXTENDS Naturals, Sequences

CONSTANTS
  SlotCount,        \* s_dir_slots
  Dests,            \* destination hashes
  NoDest,           \* the key of a wiped record
  AnyDest,          \* what rdirForEach looks for
  Sought,           \* what the readers look for
  Values,           \* what body and tail may be given
  Readers,          \* the tasks that look records up
  SEQ_MODULUS,      \* 0x10000: the counter is a uint16_t
  RDIR_SEQ_TRIES,
  MaxSections       \* bound: how often a slot is opened during one copy of it

ASSUME PoolAssumption ==
  /\ SlotCount \in Nat \ {0}
  /\ Sought \subseteq Dests \cup {AnyDest}
  /\ NoDest \notin Dests /\ AnyDest \notin Dests /\ AnyDest # NoDest
  /\ Values \subseteq Nat
  /\ RDIR_SEQ_TRIES \in Nat \ {0}

ASSUME CounterAssumption ==
  /\ SEQ_MODULUS \in Nat \ {0} /\ SEQ_MODULUS % 2 = 0
  /\ MaxSections \in Nat

Slots   == 1 .. SlotCount
NoSlot  == 0
Counter == 0 .. (SEQ_MODULUS - 1)
Record  == [dest : Dests \cup {NoDest}, body : Values \cup {0}, flags : {0, 1},
            tail : Values \cup {0}]
Wiped   == [dest |-> NoDest, body |-> 0, flags |-> 0, tail |-> 0]

(* What there is to store or load in a record, in the order of the         *)
(* addresses; flags holds the RDIR_F_USED bit alone.                       *)
Words      == {"dest", "body", "flags", "tail"}
CopyOrder  == <<"dest", "body", "flags", "tail">>
(* recClear saves the counter, wipes the whole record, the counter with    *)
(* it, and puts the counter back.                                          *)
ClearOrder == <<"dest", "body", "flags", "seq", "tail", "restore">>
Cleared    == 7

VARIABLES
  rec,       \* the payload of each slot
  seq,       \* and its counter
  slot,      \* writer: the slot it has open, or NoSlot
  clearing,  \* writer: its place in ClearOrder, or Cleared
  saved,     \* writer: the counter recClear saved
  fields,    \* writer: the words it has still to store, with their values
  pending,   \* writer: the insertion that waits for an eviction, or NoInsertion
  reader,    \* what each reader is doing
  whole      \* history: the payload of each slot at its last writeEnd

writerVars == <<slot, clearing, saved, fields, pending>>
vars       == <<rec, seq, slot, clearing, saved, fields, pending, reader, whole>>

(* One reader.  versions, sections and present are history: the payloads   *)
(* the slot at hand has had since s1 was loaded, how often it was opened   *)
(* since then, and whether the destination asked for has been in the pool  *)
(* ever since the lookup began.                                            *)
ReaderState ==
  [pc : {"idle", "scan", "load", "copy", "hit", "miss"},
   asked : Dests \cup {NoDest, AnyDest}, at : 1 .. (SlotCount + 1), s1 : Counter,
   next : 1 .. 5, copy : Record, tries : 0 .. RDIR_SEQ_TRIES,
   versions : SUBSET Record, sections : Nat, present : BOOLEAN]

Resting == [pc |-> "idle", asked |-> NoDest, at |-> 1, s1 |-> 0, next |-> 1,
            copy |-> Wiped, tries |-> 0, versions |-> {}, sections |-> 0,
            present |-> FALSE]

NoFields    == [w \in {} |-> 0]
NoInsertion == NoFields

-----------------------------------------------------------------------------
(* rdirInit with an empty pool.  A counter is never put back, so it may    *)
(* stand anywhere when the behaviour of interest begins.                   *)
Init ==
  /\ seq \in [Slots -> {n \in Counter : n % 2 = 0}]
  /\ rec = [s \in Slots |-> Wiped]
  /\ slot = NoSlot /\ clearing = Cleared /\ saved = 0
  /\ fields = NoFields /\ pending = NoInsertion
  /\ reader = [r \in Readers |-> Resting]
  /\ whole = rec

Used(s)   == rec[s].flags = 1
Held(d)   == {s \in Slots : Used(s) /\ rec[s].dest = d}
FirstFit(s) == \A t \in Slots : t < s => Used(t)
Copying(r, s) == reader[r].pc = "copy" /\ reader[r].at = s

-----------------------------------------------------------------------------
(***************************************************************************)
(* The writer.                                                             *)
(***************************************************************************)

(* writeBegin's s | 1 and writeEnd's (s + 1) & ~1, in sixteen bits; and    *)
(* writeEnd with the carry lost, and with its addition forgotten.          *)
MadeOdd(n)  == IF n % 2 = 0 THEN n + 1 ELSE n
MadeEvenCarried(n)   == IF n % 2 = 0 THEN n ELSE n + 1
MadeEvenForgotten(n) == IF n % 2 = 0 THEN n ELSE n - 1
MadeEven(n) == (IF n % 2 = 0 THEN n ELSE n + 1) % SEQ_MODULUS

(* dropped is the destination that is leaving the pool with this section.  *)
writeBegin(s, dropped) ==
  /\ slot = NoSlot /\ slot' = s
  /\ \A r \in Readers : Copying(r, s) => reader[r].sections < MaxSections
  /\ seq' = [seq EXCEPT ![s] = MadeOdd(@)]
  /\ reader' = [r \in Readers |->
                  [reader[r] EXCEPT
                     !.sections = IF Copying(r, s) THEN @ + 1 ELSE @,
                     !.present  = @ /\ reader[r].asked # dropped]]
  /\ UNCHANGED <<rec, saved, whole>>

(* A record in place is written over; a slot put to a new use is wiped.    *)
rewrite(s, new) ==
  writeBegin(s, NoDest) /\ fields' = new /\ clearing' = Cleared /\ UNCHANGED pending
reuse(s, new) ==
  writeBegin(s, rec[s].dest) /\ fields' = new /\ clearing' = 1

recClear ==
  /\ clearing # Cleared
  /\ clearing' = clearing + 1
  /\ LET what == ClearOrder[clearing]
     IN /\ saved' = IF clearing = 1 THEN seq[slot] ELSE saved
        /\ rec' = IF what \in Words THEN [rec EXCEPT ![slot][what] = Wiped[what]] ELSE rec
        /\ seq' = CASE what = "seq"     -> [seq EXCEPT ![slot] = 0]
                    [] what = "restore" -> [seq EXCEPT ![slot] = saved]
                    [] OTHER            -> seq
  /\ UNCHANGED <<slot, fields, pending, reader, whole>>

(* One store to the payload, by an operation that has the slot open.       *)
storeField(w) ==
  /\ slot # NoSlot /\ clearing = Cleared /\ w \in DOMAIN fields
  /\ rec' = [rec EXCEPT ![slot][w] = fields[w]]
  /\ fields' = [v \in DOMAIN fields \ {w} |-> fields[v]]
  /\ UNCHANGED <<seq, slot, clearing, saved, pending, reader, whole>>

writeEnd ==
  /\ slot # NoSlot /\ clearing = Cleared /\ DOMAIN fields = {}
  /\ slot' = NoSlot
  /\ seq' = [seq EXCEPT ![slot] = MadeEven(@)]
  /\ whole' = [whole EXCEPT ![slot] = rec[slot]]
  /\ reader' = [r \in Readers |->
                  IF Copying(r, slot)
                  THEN [reader[r] EXCEPT !.versions = @ \cup {rec[slot]}]
                  ELSE reader[r]]
  /\ saved' = 0
  /\ UNCHANGED <<rec, clearing, fields, pending>>

(* dirAlloc, and the wipe that follows it: the first free slot; in a full  *)
(* pool some record is evicted first (evictOneDir: the one of the lowest   *)
(* category, which may be any), in a section of its own.                   *)
dirAlloc(new) ==
  \/ /\ \E s \in Slots : ~ Used(s) /\ FirstFit(s) /\ reuse(s, new)
     /\ pending' = NoInsertion
  \/ /\ \A s \in Slots : Used(s)
     /\ \E s \in Slots : reuse(s, NoFields)
     /\ pending' = new
insertAfterEviction == slot = NoSlot /\ pending # NoInsertion /\ dirAlloc(pending)

(* What an operation stores over a record it found, and in one it made.    *)
put(d, found, made) ==
  /\ pending = NoInsertion
  /\ IF Held(d) # {} THEN \E s \in Held(d) : rewrite(s, found) ELSE dirAlloc(made)
update(d, found) ==
  pending = NoInsertion /\ \E s \in Held(d) : rewrite(s, found)

rdirIngest(d) == \E v \in Values, prio \in Values \cup {0} :
  LET new == [dest |-> d, body |-> v, flags |-> 1, tail |-> prio] IN put(d, new, new)
rdirSeedPubkey(d) == \E v \in Values, prio \in Values \cup {0} :
  put(d, [body |-> v, flags |-> 1], [dest |-> d, body |-> v, flags |-> 1, tail |-> prio])
rdirClaim(d) == \E v, t \in Values :
  put(d, [body |-> v, tail |-> t],
      [dest |-> d, body |-> v, flags |-> 1, tail |-> t])
(* Route use, loss of the route, release of a claim: all before the counter.*)
rdirTouchUsed(d)  == \E v \in Values : update(d, [body |-> v])
rdirClearRoute(d) == \E v \in Values : update(d, [body |-> v, flags |-> 1])
rdirClaimDrop(d)  == \E v, t \in Values : update(d, [body |-> v, tail |-> t])
(* last_alive and claim_touch lie behind it.                               *)
rdirMarkAlive(d)  == \E t \in Values : update(d, [tail |-> t])
rdirClaimTouch(d) == \E t \in Values : update(d, [tail |-> t])

rdirEvictTo ==
  /\ pending = NoInsertion
  /\ \E s \in Slots : Used(s) /\ reuse(s, NoFields)
  /\ UNCHANGED pending

-----------------------------------------------------------------------------
(***************************************************************************)
(* A reader: dirLookup for a destination, rdirForEach for AnyDest.  A      *)
(* lookup takes the first slot that seems to match for its answer; the     *)
(* walk goes on to the next slot whatever comes of this one.               *)
(***************************************************************************)
step(r, new) ==
  /\ reader' = [reader EXCEPT ![r] = new]
  /\ UNCHANGED <<rec, seq, writerVars, whole>>

me(r) == reader[r]

(* The destination is in the pool and not about to leave it.               *)
Present(d) == \E s \in Held(d) : slot = s => clearing = Cleared

begin(r, d) ==
  /\ me(r).pc = "idle"
  /\ step(r, [Resting EXCEPT !.pc = "scan", !.asked = d, !.present = Present(d)])

Matches(r, record) ==
  record.flags = 1 /\ me(r).asked \in {record.dest, AnyDest}

(* The scan reads the flags and the key with no protection at all.         *)
scan(r) ==
  /\ me(r).pc = "scan"
  /\ IF me(r).at > SlotCount
     THEN step(r, [me(r) EXCEPT !.pc = "miss"])
     ELSE IF Matches(r, rec[me(r).at])
          THEN step(r, [me(r) EXCEPT !.pc = "load"])
          ELSE step(r, [me(r) EXCEPT !.at = @ + 1])

(* What was copied is forgotten.                                           *)
Clean(state) == [state EXCEPT !.s1 = 0, !.next = 1, !.copy = Wiped, !.versions = {},
                              !.sections = 0]

(* A slot that yields nothing.                                             *)
PassOver(state) ==
  IF state.asked = AnyDest
  THEN [Clean(state) EXCEPT !.pc = "scan", !.at = @ + 1, !.tries = 0]
  ELSE [Clean(state) EXCEPT !.pc = "miss"]

(* A race with the writer is lost; and two ways of getting that wrong, to  *)
(* give up at once and to try for ever.                                    *)
LostGivingUp(state) == PassOver([state EXCEPT !.tries = @ + 1])
LostForever(state)  == [Clean(state) EXCEPT !.pc = "load"]
Lost(state) ==
  LET tries == state.tries + 1
  IN IF tries < RDIR_SEQ_TRIES
     THEN [Clean(state) EXCEPT !.pc = "load", !.tries = tries]
     ELSE PassOver([state EXCEPT !.tries = tries])

(* recCopy: s1, the copy word by word, s2; then dirLookup's confirmation.  *)
load(r) ==
  /\ me(r).pc = "load"
  /\ LET s1 == seq[me(r).at]
     IN IF s1 % 2 = 1
        THEN step(r, Lost(me(r)))
        ELSE step(r, [me(r) EXCEPT !.pc = "copy", !.s1 = s1, !.next = 1,
                                   !.versions = {whole[me(r).at]}, !.sections = 0])
copyWord(r) ==
  /\ me(r).pc = "copy" /\ me(r).next <= 4
  /\ LET w == CopyOrder[me(r).next]
     IN step(r, [me(r) EXCEPT !.copy[w] = rec[me(r).at][w], !.next = @ + 1])
check(r) ==
  /\ me(r).pc = "copy" /\ me(r).next = 5
  /\ step(r, IF seq[me(r).at] # me(r).s1        THEN Lost(me(r))
             ELSE IF Matches(r, me(r).copy) THEN [me(r) EXCEPT !.pc = "hit"]
                                            ELSE PassOver(me(r)))

(* The caller, or the callback of the walk, has the record.                *)
finish(r) ==
  /\ me(r).pc \in {"hit", "miss"}
  /\ step(r, IF me(r).pc = "hit" /\ me(r).asked = AnyDest THEN PassOver(me(r))
                                                        ELSE Resting)

-----------------------------------------------------------------------------
Writer ==
  \/ recClear \/ (\E w \in DOMAIN fields : storeField(w)) \/ writeEnd
  \/ insertAfterEviction \/ rdirEvictTo
  \/ \E d \in Dests : \/ rdirIngest(d) \/ rdirSeedPubkey(d) \/ rdirClaim(d)
                      \/ rdirTouchUsed(d) \/ rdirClearRoute(d) \/ rdirClaimDrop(d)
                      \/ rdirMarkAlive(d) \/ rdirClaimTouch(d)

ReaderStep(r) == scan(r) \/ load(r) \/ copyWord(r) \/ check(r) \/ finish(r)

Next == \/ Writer
        \/ \E r \in Readers : ReaderStep(r) \/ \E d \in Sought : begin(r, d)

Spec == Init /\ [][Next]_vars

(* A reading task goes on, whatever the writer does meanwhile.             *)
FairSpec == Spec /\ \A r \in Readers : WF_vars(ReaderStep(r))

-----------------------------------------------------------------------------
TypeOK ==
  /\ rec \in [Slots -> Record] /\ whole \in [Slots -> Record]
  /\ seq \in [Slots -> Counter] /\ saved \in Counter
  /\ slot \in Slots \cup {NoSlot}
  /\ clearing \in 1 .. Cleared
  /\ reader \in [Readers -> ReaderState]

(* INTERNALS 1.1.2: a reader never accepts a torn record: what recCopy     *)
(* hands over is one of the values the record had while it was copied.     *)
(* True of the copies whose counter was not 0, the value that recClear's   *)
(* memset leaves in it for a moment (Directory.cpp:201).                   *)
NonZeroCopyIsWhole ==
  \A r \in Readers : reader[r].pc = "hit" /\ reader[r].s1 # 0
                        => reader[r].copy \in reader[r].versions

(* Directory.cpp:205 "a reader racing a reuse retries": a destination that *)
(* stays in the pool is missed only by a reader that lost all its races.   *)
MissIsJustified ==
  \A r \in Readers : reader[r].pc = "miss" /\ reader[r].present
                        => reader[r].tries = RDIR_SEQ_TRIES

(* RDIR_SEQ_TRIES: a reader ends however often the writer gets in its way. *)
LookupEnds == \A r \in Readers : (reader[r].pc # "idle") ~> (reader[r].pc = "idle")
=============================================================================
