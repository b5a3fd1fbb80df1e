----------------------- MODULE DirectorySeqlockProofs -----------------------
(***************************************************************************)
(* Proofs about DirectorySeqlock: any pool, any number of destinations and *)
(* of readers, any width of the counter.                                   *)
(***************************************************************************)
EXTENDS DirectorySeqlock, TLAPS

-----------------------------------------------------------------------------
(***************************************************************************)
(* What the writer has in hand.                                            *)
(***************************************************************************)

Kind(w) == CASE w = "dest"  -> Dests
             [] w = "flags" -> {1}
             [] OTHER       -> Values \cup {0}

IsStore(f) == DOMAIN f \subseteq Words /\ \A w \in DOMAIN f : f[w] \in Kind(w)

(* A store that makes a record makes all of its identity, or none of it.   *)
Makes(f) == IsStore(f) /\ ("dest" \in DOMAIN f <=> "flags" \in DOMAIN f)

(* Its destination is not in the pool.                                     *)
Absent(f) == "dest" \in DOMAIN f => \A t \in Slots : rec[t].dest # f["dest"]

(* A store over a record leaves it its identity.                           *)
Keeps(s, f) == /\ IsStore(f) /\ Used(s)
               /\ "dest" \in DOMAIN f => f["dest"] = rec[s].dest

PcOK(r) == /\ reader[r].pc \in {"scan", "load", "copy"} => reader[r].tries < RDIR_SEQ_TRIES
           /\ reader[r].pc \in {"load", "copy", "hit"} => reader[r].at \in Slots

Typed ==
  /\ TypeOK
  /\ IsStore(fields) /\ Makes(pending)
  /\ slot = NoSlot => clearing = Cleared
  /\ \A r \in Readers : PcOK(r)

(***************************************************************************)
(* The pool: a destination has one slot, a free slot has none.             *)
(***************************************************************************)
OneSlotEach ==
  /\ \A s, t \in Slots : rec[s].dest = rec[t].dest /\ rec[s].dest # NoDest => s = t
  /\ \A s \in Slots \ {slot} : rec[s].flags = 1 <=> rec[s].dest # NoDest
  /\ Absent(pending)
  /\ slot # NoSlot =>
       /\ "dest" \in DOMAIN fields => "dest" \notin DOMAIN pending
       /\ "dest" \in DOMAIN fields =>
            \A t \in Slots \ {slot} : rec[t].dest # fields["dest"]
       /\ clearing = Cleared =>
            (("dest" \in DOMAIN fields \/ rec[slot].dest # NoDest)
               <=> ("flags" \in DOMAIN fields \/ rec[slot].flags = 1))
       /\ clearing # Cleared => ("dest" \in DOMAIN fields <=> "flags" \in DOMAIN fields)
       /\ 1 < clearing /\ clearing < Cleared => rec[slot].dest = NoDest
       /\ 3 < clearing /\ clearing < Cleared => rec[slot].flags = 0

-----------------------------------------------------------------------------
(* A slot is put to a new use, now or for the insertion that waits.        *)
Reuses(s, f) == /\ reuse(s, f) /\ Makes(f) /\ Absent(f)
                /\ Makes(pending') /\ Absent(pending')
                /\ f = NoFields \/ pending' = NoInsertion

(* The five things the writer's operations are made of.                    *)
LEMMA WriterShapes ==
  ASSUME Typed, OneSlotEach, Writer
  PROVE  \/ recClear \/ (\E w \in DOMAIN fields : storeField(w)) \/ writeEnd
         \/ \E s \in Slots : \E f : rewrite(s, f) /\ Keeps(s, f) /\ pending = NoInsertion
         \/ \E s \in Slots : \E f : Reuses(s, f)
<1> DEFINE Goal == \/ \E s \in Slots : \E f : /\ rewrite(s, f) /\ Keeps(s, f)
                                              /\ pending = NoInsertion
                   \/ \E s \in Slots : \E f : Reuses(s, f)
<1> USE DEF Reuses
<1>0. /\ Makes(NoFields) /\ Absent(NoFields)
  BY DEF Makes, IsStore, NoFields, Absent
<1>1. ASSUME NEW f, Makes(f), Absent(f), dirAlloc(f) PROVE Goal
  <2>1. CASE \E s \in Slots : ~ Used(s) /\ FirstFit(s) /\ reuse(s, f) /\ pending' = NoInsertion
    BY <1>0, <1>1, <2>1 DEF NoInsertion
  <2>2. CASE \E s \in Slots : reuse(s, NoFields) /\ pending' = f
    BY <1>0, <1>1, <2>2
  <2> QED BY <1>1, <2>1, <2>2 DEF dirAlloc
<1>2. ASSUME NEW d \in Dests, NEW f, update(d, f), IsStore(f),
             "dest" \in DOMAIN f => f["dest"] = d
      PROVE  Goal
  BY <1>2 DEF update, Held, Keeps
<1>3. ASSUME NEW d \in Dests, NEW f, NEW g, put(d, f, g), IsStore(f),
             "dest" \in DOMAIN f => f["dest"] = d,
             Makes(g), "dest" \in DOMAIN g => g["dest"] = d
      PROVE  Goal
  <2>1. CASE Held(d) # {}
    BY <1>3, <2>1 DEF put, Held, Keeps
  <2>2. CASE Held(d) = {}
    <3>1. dirAlloc(g)
      BY <1>3, <2>2 DEF put
    <3>2. slot = NoSlot
      BY <3>1 DEF dirAlloc, reuse, writeBegin
    <3>3. \A t \in Slots : rec[t].dest # d
      BY <2>2, <3>2, PoolAssumption DEF Held, Used, OneSlotEach, Slots, NoSlot
    <3> QED BY <1>1, <1>3, <3>1, <3>3 DEF Absent
  <2> QED BY <2>1, <2>2
<1>4. ASSUME NEW d \in Dests, rdirIngest(d) PROVE Goal
  <2>1. PICK v \in Values, p \in Values \cup {0} :
          put(d, [dest |-> d, body |-> v, flags |-> 1, tail |-> p],
                 [dest |-> d, body |-> v, flags |-> 1, tail |-> p])
    BY <1>4 DEF rdirIngest
  <2>2. Makes([dest |-> d, body |-> v, flags |-> 1, tail |-> p])
    BY DEF Makes, IsStore, Kind, Words
  <2> QED BY <1>3, <2>1, <2>2 DEF Makes
<1>5. ASSUME NEW d \in Dests, rdirSeedPubkey(d) PROVE Goal
  <2>1. PICK v \in Values, p \in Values \cup {0} :
          put(d, [body |-> v, flags |-> 1],
                 [dest |-> d, body |-> v, flags |-> 1, tail |-> p])
    BY <1>5 DEF rdirSeedPubkey
  <2>2. /\ Makes([dest |-> d, body |-> v, flags |-> 1, tail |-> p])
        /\ IsStore([body |-> v, flags |-> 1])
    BY DEF Makes, IsStore, Kind, Words
  <2> QED BY <1>3, <2>1, <2>2
<1>6. ASSUME NEW d \in Dests, rdirClaim(d) PROVE Goal
  <2>1. PICK v \in Values, t \in Values :
          put(d, [body |-> v, tail |-> t],
                 [dest |-> d, body |-> v, flags |-> 1, tail |-> t])
    BY <1>6 DEF rdirClaim
  <2>2. /\ Makes([dest |-> d, body |-> v, flags |-> 1, tail |-> t])
        /\ IsStore([body |-> v, tail |-> t])
    BY DEF Makes, IsStore, Kind, Words
  <2> QED BY <1>3, <2>1, <2>2
<1>7. ASSUME NEW d \in Dests, \/ rdirTouchUsed(d) \/ rdirClearRoute(d) \/ rdirClaimDrop(d)
                              \/ rdirMarkAlive(d) \/ rdirClaimTouch(d)
      PROVE  Goal
  <2>1. \A v, t \in Values :
          /\ IsStore([body |-> v]) /\ IsStore([body |-> v, flags |-> 1])
          /\ IsStore([body |-> v, tail |-> t]) /\ IsStore([tail |-> t])
    BY DEF IsStore, Kind, Words
  <2>2. CASE rdirTouchUsed(d)
    BY <1>2, <2>1, <2>2 DEF rdirTouchUsed
  <2>3. CASE rdirClearRoute(d)
    BY <1>2, <2>1, <2>3 DEF rdirClearRoute
  <2>4. CASE rdirClaimDrop(d)
    BY <1>2, <2>1, <2>4 DEF rdirClaimDrop
  <2>5. CASE rdirMarkAlive(d) \/ rdirClaimTouch(d)
    BY <1>2, <2>1, <2>5 DEF rdirMarkAlive, rdirClaimTouch
  <2> QED BY <1>7, <2>2, <2>3, <2>4, <2>5
<1>8. CASE rdirEvictTo
  BY <1>0, <1>8 DEF rdirEvictTo, Typed, OneSlotEach
<1>9. CASE insertAfterEviction
  BY <1>1, <1>9 DEF insertAfterEviction, Typed, OneSlotEach
<1> QED BY <1>4, <1>5, <1>6, <1>7, <1>8, <1>9 DEF Writer

-----------------------------------------------------------------------------
(***************************************************************************)
(* Type correctness.                                                       *)
(***************************************************************************)

LEMMA CounterType ==
  ASSUME NEW n \in Counter
  PROVE  /\ n % 2 = 0 => MadeOdd(n) = n + 1 /\ MadeOdd(n) \in Counter
         /\ MadeOdd(n) \in Counter /\ MadeEven(n) \in Counter
BY CounterAssumption DEF Counter, MadeOdd, MadeEven

LEMMA TypedInit == Init => Typed
<1> SUFFICES ASSUME Init PROVE Typed
  OBVIOUS
<1>1. Wiped \in Record
  BY DEF Wiped, Record
<1>2. Resting \in ReaderState
  BY <1>1, PoolAssumption, CounterAssumption DEF Resting, ReaderState, Counter
<1>3. TypeOK
  BY <1>1, <1>2, CounterAssumption DEF Init, TypeOK, Cleared, Counter
<1> QED BY <1>3 DEF Init, Typed, IsStore, Makes, NoFields, NoInsertion, PcOK, Resting

(***************************************************************************)
(* The states a reader goes to.                                            *)
(***************************************************************************)

LEMMA RestingType == Wiped \in Record /\ Resting \in ReaderState
<1>1. Wiped \in Record
  BY DEF Wiped, Record
<1> QED BY <1>1, PoolAssumption, CounterAssumption DEF Resting, ReaderState, Counter

LEMMA CleanType ==
  ASSUME NEW state \in ReaderState
  PROVE  /\ Clean(state) \in ReaderState
         /\ Clean(state).pc = state.pc /\ Clean(state).asked = state.asked
         /\ Clean(state).at = state.at /\ Clean(state).tries = state.tries
         /\ Clean(state).present = state.present
<1>1. /\ Wiped \in Record /\ 0 \in Counter /\ 1 \in 1 .. 5 /\ {} \in SUBSET Record
      /\ 0 \in Nat
  BY RestingType, CounterAssumption DEF Counter
<1> HIDE DEF Wiped
<1> QED BY <1>1 DEF Clean, ReaderState

LEMMA PassOverType ==
  ASSUME NEW state \in ReaderState, state.at \in Slots
  PROVE  /\ PassOver(state) \in ReaderState
         /\ PassOver(state).asked = state.asked /\ PassOver(state).present = state.present
         /\ \/ /\ PassOver(state).pc = "scan" /\ state.asked = AnyDest
               /\ PassOver(state).tries = 0
            \/ PassOver(state).pc = "miss" /\ PassOver(state).tries = state.tries
<1> DEFINE c == Clean(state)
<1>1. /\ c \in ReaderState /\ c.at = state.at /\ c.asked = state.asked
      /\ c.present = state.present /\ c.tries = state.tries
  BY CleanType
<1>2. PassOver(state) = IF state.asked = AnyDest
                        THEN [c EXCEPT !.pc = "scan", !.at = c.at + 1, !.tries = 0]
                        ELSE [c EXCEPT !.pc = "miss"]
  BY DEF PassOver
<1> HIDE DEF c
<1>3. c.at + 1 \in 1 .. (SlotCount + 1) /\ 0 \in 0 .. RDIR_SEQ_TRIES
  BY <1>1, PoolAssumption DEF Slots
<1>4. CASE state.asked = AnyDest
  <2> DEFINE new == [c EXCEPT !.pc = "scan", !.at = c.at + 1, !.tries = 0]
  <2>1. new \in ReaderState
    BY <1>1, <1>3 DEF ReaderState
  <2>2. /\ new.pc = "scan" /\ new.tries = 0 /\ new.asked = c.asked
        /\ new.present = c.present
    BY <1>1 DEF ReaderState
  <2>3. PassOver(state) = new
    BY <1>2, <1>4
  <2> HIDE DEF new
  <2> QED BY <1>1, <1>4, <2>1, <2>2, <2>3
<1>5. CASE state.asked # AnyDest
  BY <1>1, <1>2, <1>5 DEF ReaderState
<1> QED BY <1>4, <1>5

LEMMA LostType ==
  ASSUME NEW state \in ReaderState, state.at \in Slots, state.tries < RDIR_SEQ_TRIES
  PROVE  /\ Lost(state) \in ReaderState
         /\ Lost(state).asked = state.asked /\ Lost(state).present = state.present
         /\ \/ /\ Lost(state).pc = "load" /\ Lost(state).at = state.at
               /\ Lost(state).tries < RDIR_SEQ_TRIES
            \/ /\ Lost(state).pc = "scan" /\ state.asked = AnyDest
               /\ Lost(state).tries < RDIR_SEQ_TRIES
            \/ Lost(state).pc = "miss" /\ Lost(state).tries = RDIR_SEQ_TRIES
<1>1. state.tries \in Nat /\ state.tries + 1 \in 0 .. RDIR_SEQ_TRIES
  BY PoolAssumption DEF ReaderState
<1>2. CASE state.tries + 1 < RDIR_SEQ_TRIES
  <2>1. [Clean(state) EXCEPT !.pc = "load", !.tries = state.tries + 1] \in ReaderState
    BY <1>1, CleanType DEF ReaderState
  <2> QED BY <1>2, <2>1, CleanType DEF Lost, ReaderState
<1>3. CASE state.tries + 1 = RDIR_SEQ_TRIES
  <2> DEFINE last == [state EXCEPT !.tries = state.tries + 1]
  <2>1. /\ last \in ReaderState /\ last.at = state.at /\ last.asked = state.asked
        /\ last.present = state.present /\ last.tries = state.tries + 1
    BY <1>1 DEF ReaderState
  <2>2. Lost(state) = PassOver(last)
    BY <1>1, <1>3 DEF Lost
  <2>3. last.at \in Slots
    BY <2>1
  <2> HIDE DEF last
  <2> QED BY <1>3, <2>1, <2>2, PassOverType, PoolAssumption
<1> QED BY <1>1, <1>2, <1>3, PoolAssumption

(***************************************************************************)
(* One step of a reader: nothing else changes, and this is where it goes.  *)
(***************************************************************************)
Moves(r, new) ==
  /\ reader'[r] = new
  /\ \A o \in Readers \ {r} : reader'[o] = reader[o]
  /\ reader' \in [Readers -> ReaderState]
  /\ UNCHANGED <<rec, seq, slot, clearing, saved, fields, pending, whole>>

Same(new, old) == new.asked = old.asked /\ new.present = old.present

LEMMA StepMoves ==
  ASSUME Typed, NEW r \in Readers, NEW new \in ReaderState, step(r, new)
  PROVE  Moves(r, new)
BY DEF Typed, TypeOK, step, Moves, writerVars

LEMMA BeginMoves ==
  ASSUME Typed, NEW r \in Readers, NEW d \in Sought, begin(r, d)
  PROVE  \E new \in ReaderState :
           /\ Moves(r, new)
           /\ new.pc = "scan" /\ new.at = 1 /\ new.tries = 0
           /\ new.asked = d /\ new.present = Present(d)
<1> DEFINE new == [Resting EXCEPT !.pc = "scan", !.asked = d, !.present = Present(d)]
<1>1. Resting \in ReaderState /\ Resting.at = 1 /\ Resting.tries = 0
  BY RestingType DEF Resting
<1> HIDE DEF Resting
<1>2. /\ new \in ReaderState /\ new.pc = "scan" /\ new.at = 1 /\ new.tries = 0
      /\ new.asked = d /\ new.present = Present(d)
  BY <1>1, PoolAssumption DEF ReaderState, Present
<1>3. step(r, new)
  BY DEF begin
<1> HIDE DEF new
<1> QED BY <1>2, <1>3, StepMoves

LEMMA ScanMoves ==
  ASSUME Typed, NEW r \in Readers, scan(r), NEW old, old = reader[r]
  PROVE  \E new \in ReaderState :
           /\ Moves(r, new) /\ Same(new, old) /\ new.tries = old.tries
           /\ old.pc = "scan" /\ old.tries < RDIR_SEQ_TRIES
           /\ \/ old.at > SlotCount /\ new.pc = "miss"
              \/ /\ old.at \in Slots /\ Matches(r, rec[old.at])
                 /\ new.pc = "load" /\ new.at = old.at
              \/ /\ old.at \in Slots /\ ~ Matches(r, rec[old.at])
                 /\ new.pc = "scan" /\ new.at = old.at + 1
<1>1. old \in ReaderState /\ old.pc = "scan" /\ old.tries < RDIR_SEQ_TRIES
  BY DEF Typed, TypeOK, PcOK, scan, me
<1>2. old.at \in 1 .. (SlotCount + 1) /\ SlotCount \in Nat
  BY <1>1, PoolAssumption DEF ReaderState
<1>3. CASE old.at > SlotCount
  <2> DEFINE new == [old EXCEPT !.pc = "miss"]
  <2>1. new \in ReaderState /\ Same(new, old) /\ new.tries = old.tries /\ new.pc = "miss"
    BY <1>1 DEF ReaderState, Same
  <2>2. step(r, new)
    BY <1>3 DEF scan, me
  <2> HIDE DEF new
  <2> QED BY <1>1, <1>3, <2>1, <2>2, StepMoves
<1>4. CASE old.at \in Slots /\ Matches(r, rec[old.at])
  <2> DEFINE new == [old EXCEPT !.pc = "load"]
  <2>1. /\ new \in ReaderState /\ Same(new, old) /\ new.tries = old.tries
        /\ new.pc = "load" /\ new.at = old.at
    BY <1>1 DEF ReaderState, Same
  <2>2. step(r, new)
    BY <1>2, <1>4 DEF scan, me, Slots
  <2> HIDE DEF new
  <2> QED BY <1>1, <1>4, <2>1, <2>2, StepMoves
<1>5. CASE old.at \in Slots /\ ~ Matches(r, rec[old.at])
  <2> DEFINE new == [old EXCEPT !.at = old.at + 1]
  <2>0. old.at + 1 \in 1 .. (SlotCount + 1)
    BY <1>2, <1>5 DEF Slots
  <2>1. /\ new \in ReaderState /\ Same(new, old) /\ new.tries = old.tries
        /\ new.pc = "scan" /\ new.at = old.at + 1
    BY <1>1, <2>0 DEF ReaderState, Same
  <2>2. step(r, new)
    BY <1>2, <1>5 DEF scan, me, Slots
  <2> HIDE DEF new
  <2> QED BY <1>1, <1>5, <2>1, <2>2, StepMoves
<1> QED BY <1>2, <1>3, <1>4, <1>5 DEF Slots

LEMMA LoadMoves ==
  ASSUME Typed, NEW r \in Readers, load(r), NEW old, old = reader[r]
  PROVE  \E new \in ReaderState :
           /\ Moves(r, new)
           /\ old \in ReaderState /\ old.pc = "load" /\ old.at \in Slots
           /\ old.tries < RDIR_SEQ_TRIES
           /\ \/ seq[old.at] % 2 = 1 /\ new = Lost(old)
              \/ /\ seq[old.at] % 2 # 1 /\ Same(new, old) /\ new.tries = old.tries
                 /\ new.pc = "copy" /\ new.at = old.at /\ new.s1 = seq[old.at]
                 /\ new.next = 1 /\ new.versions = {whole[old.at]} /\ new.sections = 0
<1>1. /\ old \in ReaderState /\ old.pc = "load" /\ old.at \in Slots
      /\ old.tries < RDIR_SEQ_TRIES
  BY DEF Typed, TypeOK, PcOK, load, me
<1>2. CASE seq[old.at] % 2 = 1
  <2>1. step(r, Lost(old)) /\ Lost(old) \in ReaderState
    BY <1>1, <1>2, LostType DEF load, me
  <2> QED BY <1>1, <1>2, <2>1, StepMoves
<1>3. CASE seq[old.at] % 2 # 1
  <2> DEFINE new == [old EXCEPT !.pc = "copy", !.s1 = seq[old.at], !.next = 1,
                                !.versions = {whole[old.at]}, !.sections = 0]
  <2>1. step(r, new)
    BY <1>3 DEF load, me
  <2>2. seq[old.at] \in Counter /\ {whole[old.at]} \in SUBSET Record
    BY <1>1 DEF Typed, TypeOK
  <2>3. new \in ReaderState
    <3>1. [old EXCEPT !.pc = "copy"] \in ReaderState
      BY <1>1 DEF ReaderState
    <3>2. \A o \in ReaderState : [o EXCEPT !.s1 = seq[old.at]] \in ReaderState
      BY <2>2 DEF ReaderState
    <3>3. \A o \in ReaderState : [o EXCEPT !.next = 1] \in ReaderState
      BY DEF ReaderState
    <3>4. \A o \in ReaderState :
            [o EXCEPT !.versions = {whole[old.at]}, !.sections = 0] \in ReaderState
      BY <2>2 DEF ReaderState
    <3> QED BY <3>1, <3>2, <3>3, <3>4
  <2>4. /\ Same(new, old) /\ new.tries = old.tries
        /\ new.pc = "copy" /\ new.at = old.at /\ new.s1 = seq[old.at]
        /\ new.next = 1 /\ new.versions = {whole[old.at]} /\ new.sections = 0
    BY <1>1 DEF ReaderState, Same
  <2> HIDE DEF new
  <2> QED BY <1>1, <1>3, <2>1, <2>3, <2>4, StepMoves
<1> QED BY <1>2, <1>3

LEMMA CopyMoves ==
  ASSUME Typed, NEW r \in Readers, copyWord(r), NEW old, old = reader[r]
  PROVE  \E new \in ReaderState :
           /\ Moves(r, new)
           /\ old \in ReaderState /\ old.pc = "copy" /\ old.at \in Slots
           /\ old.next \in 1 .. 4
           /\ Same(new, old) /\ new.tries = old.tries /\ new.pc = "copy"
           /\ new.at = old.at /\ new.s1 = old.s1 /\ new.next = old.next + 1
           /\ new.versions = old.versions /\ new.sections = old.sections
           /\ new.copy = [old.copy EXCEPT ![CopyOrder[old.next]] =
                                            rec[old.at][CopyOrder[old.next]]]
<1> DEFINE w == CopyOrder[old.next]
           word == [old.copy EXCEPT ![w] = rec[old.at][w]]
           new == [old EXCEPT !.copy = word, !.next = old.next + 1]
<1>1. /\ old \in ReaderState /\ old.pc = "copy" /\ old.at \in Slots
      /\ old.next \in 1 .. 4
  BY DEF Typed, TypeOK, PcOK, copyWord, me, ReaderState
<1>2. word \in Record
  <2>1. old.copy \in Record /\ rec[old.at] \in Record
    BY <1>1 DEF Typed, TypeOK, ReaderState
  <2>2. w \in Words /\ w \in {"dest", "body", "flags", "tail"}
    BY <1>1 DEF CopyOrder, Words
  <2> HIDE DEF w
  <2>3. \/ word = [old.copy EXCEPT !.dest = rec[old.at].dest]
        \/ word = [old.copy EXCEPT !.body = rec[old.at].body]
        \/ word = [old.copy EXCEPT !.flags = rec[old.at].flags]
        \/ word = [old.copy EXCEPT !.tail = rec[old.at].tail]
    BY <2>2
  <2> HIDE DEF word
  <2> QED BY <2>1, <2>3 DEF Record
<1>3. step(r, [old EXCEPT !.copy[w] = rec[old.at][w], !.next = @ + 1])
  BY DEF copyWord, me
<1>4. [old EXCEPT !.copy[w] = rec[old.at][w], !.next = @ + 1] = new
  <2> DEFINE half == [old EXCEPT !.copy = word]
  <2>1. half.next = old.next
    BY <1>1 DEF ReaderState
  <2>2. [old EXCEPT !.copy[w] = rec[old.at][w]] = half
    OBVIOUS
  <2> QED BY <2>1, <2>2
<1> HIDE DEF word, w
<1>5. new \in ReaderState
  <2>1. old.next + 1 \in 1 .. 5
    BY <1>1
  <2>2. [old EXCEPT !.copy = word] \in ReaderState
    BY <1>1, <1>2 DEF ReaderState
  <2>3. \A o \in ReaderState : [o EXCEPT !.next = old.next + 1] \in ReaderState
    BY <2>1 DEF ReaderState
  <2> QED BY <2>2, <2>3
<1>6. /\ Same(new, old) /\ new.tries = old.tries /\ new.pc = "copy"
      /\ new.at = old.at /\ new.s1 = old.s1 /\ new.next = old.next + 1
      /\ new.versions = old.versions /\ new.sections = old.sections
      /\ new.copy = word
  BY <1>1 DEF ReaderState, Same
<1> HIDE DEF new
<1>7. Moves(r, new)
  BY <1>3, <1>4, <1>5, StepMoves
<1> QED BY <1>1, <1>5, <1>6, <1>7 DEF word, w

LEMMA CheckMoves ==
  ASSUME Typed, NEW r \in Readers, check(r), NEW old, old = reader[r]
  PROVE  \E new \in ReaderState :
           /\ Moves(r, new)
           /\ old \in ReaderState /\ old.pc = "copy" /\ old.at \in Slots
           /\ old.next = 5 /\ old.tries < RDIR_SEQ_TRIES
           /\ \/ seq[old.at] # old.s1 /\ new = Lost(old)
              \/ /\ seq[old.at] = old.s1 /\ Matches(r, old.copy)
                 /\ Same(new, old) /\ new.pc = "hit" /\ new.s1 = old.s1
                 /\ new.at = old.at /\ new.copy = old.copy /\ new.versions = old.versions
              \/ /\ seq[old.at] = old.s1 /\ ~ Matches(r, old.copy)
                 /\ new = PassOver(old)
<1>1. /\ old \in ReaderState /\ old.pc = "copy" /\ old.at \in Slots
      /\ old.next = 5 /\ old.tries < RDIR_SEQ_TRIES
  BY DEF Typed, TypeOK, PcOK, check, me
<1>2. CASE seq[old.at] # old.s1
  <2>1. step(r, Lost(old)) /\ Lost(old) \in ReaderState
    BY <1>1, <1>2, LostType DEF check, me
  <2> QED BY <1>1, <1>2, <2>1, StepMoves
<1>3. CASE seq[old.at] = old.s1 /\ Matches(r, old.copy)
  <2> DEFINE new == [old EXCEPT !.pc = "hit"]
  <2>1. step(r, new)
    BY <1>3 DEF check, me
  <2>2. /\ new \in ReaderState /\ Same(new, old) /\ new.pc = "hit" /\ new.s1 = old.s1
        /\ new.at = old.at /\ new.copy = old.copy /\ new.versions = old.versions
    BY <1>1 DEF ReaderState, Same
  <2> HIDE DEF new
  <2> QED BY <1>1, <1>3, <2>1, <2>2, StepMoves
<1>4. CASE seq[old.at] = old.s1 /\ ~ Matches(r, old.copy)
  <2>1. step(r, PassOver(old)) /\ PassOver(old) \in ReaderState
    BY <1>1, <1>4, PassOverType DEF check, me
  <2> QED BY <1>1, <1>4, <2>1, StepMoves
<1> QED BY <1>2, <1>3, <1>4

LEMMA FinishMoves ==
  ASSUME Typed, NEW r \in Readers, finish(r), NEW old, old = reader[r]
  PROVE  \E new \in ReaderState :
           /\ Moves(r, new) /\ old \in ReaderState
           /\ \/ old.asked = AnyDest /\ old.at \in Slots /\ new = PassOver(old)
              \/ new = Resting
<1>1. old \in ReaderState /\ (old.pc = "hit" => old.at \in Slots)
  BY DEF Typed, TypeOK, PcOK
<1>2. CASE old.pc = "hit" /\ old.asked = AnyDest
  <2>1. step(r, PassOver(old)) /\ PassOver(old) \in ReaderState
    BY <1>1, <1>2, PassOverType DEF finish, me
  <2> QED BY <1>1, <1>2, <2>1, StepMoves
<1>3. CASE ~ (old.pc = "hit" /\ old.asked = AnyDest)
  <2>1. step(r, Resting)
    BY <1>3 DEF finish, me
  <2> QED BY <1>1, <2>1, RestingType, StepMoves
<1> QED BY <1>2, <1>3

(***************************************************************************)
(* What the writer's steps do to the readers' histories.                   *)
(***************************************************************************)
Fixed(new, old) ==
  /\ new.pc = old.pc /\ new.asked = old.asked /\ new.at = old.at
  /\ new.s1 = old.s1 /\ new.next = old.next /\ new.copy = old.copy
  /\ new.tries = old.tries

LEMMA BeginSection ==
  ASSUME Typed, NEW s \in Slots, NEW dropped, writeBegin(s, dropped)
  PROVE  /\ reader' \in [Readers -> ReaderState]
         /\ \A r \in Readers :
              /\ Fixed(reader'[r], reader[r])
              /\ reader'[r].versions = reader[r].versions
              /\ reader'[r].sections = IF Copying(r, s) THEN reader[r].sections + 1
                                                        ELSE reader[r].sections
              /\ reader'[r].present <=> reader[r].present /\ reader[r].asked # dropped
<1> DEFINE more(r) == IF Copying(r, s) THEN reader[r].sections + 1 ELSE reader[r].sections
           still(r) == reader[r].present /\ reader[r].asked # dropped
<1>1. \A r \in Readers : /\ reader[r] \in ReaderState /\ more(r) \in Nat
                         /\ still(r) \in BOOLEAN
  BY DEF Typed, TypeOK, ReaderState
<1>2. \A r \in Readers :
        reader'[r] = [reader[r] EXCEPT !.sections = more(r), !.present = still(r)]
  <2>1. \A r \in Readers : [reader[r] EXCEPT !.sections = more(r)].present = reader[r].present
    BY <1>1 DEF ReaderState
  <2> QED BY <2>1 DEF writeBegin
<1>3. reader' = [r \in Readers |-> reader'[r]]
  BY DEF writeBegin
<1> HIDE DEF more, still
<1>4. \A r \in Readers : reader'[r] \in ReaderState
  <2> SUFFICES ASSUME NEW r \in Readers PROVE reader'[r] \in ReaderState
    OBVIOUS
  <2>1. [reader[r] EXCEPT !.sections = more(r)] \in ReaderState
    BY <1>1 DEF ReaderState
  <2>2. \A o \in ReaderState : [o EXCEPT !.present = still(r)] \in ReaderState
    BY <1>1 DEF ReaderState
  <2> QED BY <1>2, <2>1, <2>2
<1>5. \A r \in Readers :
        /\ Fixed(reader'[r], reader[r]) /\ reader'[r].versions = reader[r].versions
        /\ reader'[r].sections = more(r) /\ reader'[r].present = still(r)
  BY <1>1, <1>2 DEF ReaderState, Fixed
<1> QED BY <1>3, <1>4, <1>5 DEF more, still

LEMMA EndSection ==
  ASSUME Typed, writeEnd
  PROVE  /\ reader' \in [Readers -> ReaderState]
         /\ \A r \in Readers :
              /\ Fixed(reader'[r], reader[r])
              /\ reader'[r].present = reader[r].present
              /\ reader'[r].sections = reader[r].sections
              /\ reader'[r].versions = IF Copying(r, slot)
                                       THEN reader[r].versions \cup {rec[slot]}
                                       ELSE reader[r].versions
<1>1. \A r \in Readers : reader[r] \in ReaderState
  BY DEF Typed, TypeOK
<1>2. slot \in Slots /\ rec[slot] \in Record
  BY DEF Typed, TypeOK, writeEnd
<1>3. \A r \in Readers : reader[r].versions \cup {rec[slot]} \in SUBSET Record
  BY <1>1, <1>2 DEF ReaderState
<1>4. \A r \in Readers :
        reader'[r] = IF Copying(r, slot)
                     THEN [reader[r] EXCEPT !.versions = reader[r].versions \cup {rec[slot]}]
                     ELSE reader[r]
  BY DEF writeEnd
<1>5. reader' = [r \in Readers |-> reader'[r]]
  BY DEF writeEnd
<1>6. \A r \in Readers :
        /\ reader'[r] \in ReaderState
        /\ Fixed(reader'[r], reader[r])
        /\ reader'[r].present = reader[r].present
        /\ reader'[r].sections = reader[r].sections
        /\ reader'[r].versions = IF Copying(r, slot)
                                 THEN reader[r].versions \cup {rec[slot]}
                                 ELSE reader[r].versions
  <2> SUFFICES ASSUME NEW r \in Readers
               PROVE  /\ reader'[r] \in ReaderState
                      /\ Fixed(reader'[r], reader[r])
                      /\ reader'[r].present = reader[r].present
                      /\ reader'[r].sections = reader[r].sections
                      /\ reader'[r].versions = IF Copying(r, slot)
                                               THEN reader[r].versions \cup {rec[slot]}
                                               ELSE reader[r].versions
    OBVIOUS
  <2>1. CASE Copying(r, slot)
    <3> DEFINE more == reader[r].versions \cup {rec[slot]}
    <3>1. reader'[r] = [reader[r] EXCEPT !.versions = more] /\ more \in SUBSET Record
      BY <1>3, <1>4, <2>1
    <3>2. more = IF Copying(r, slot) THEN reader[r].versions \cup {rec[slot]}
                                     ELSE reader[r].versions
      BY <2>1
    <3> HIDE DEF more
    <3> QED BY <1>1, <3>1, <3>2 DEF ReaderState, Fixed
  <2>2. CASE ~ Copying(r, slot)
    BY <1>1, <1>4, <2>2 DEF Fixed
  <2> QED BY <2>1, <2>2
<1> QED BY <1>5, <1>6

(* One word of the open record is replaced by another.                     *)
Stored(w, x) ==
  /\ \A t \in Slots \ {slot} : rec'[t] = rec[t]
  /\ \A v \in Words : rec'[slot][v] = IF v = w THEN x ELSE rec[slot][v]

LEMMA StoreType ==
  ASSUME Typed, slot \in Slots, NEW w \in Words,
         NEW x \in Kind(w) \cup {Wiped[w]}, rec' = [rec EXCEPT ![slot][w] = x]
  PROVE  rec' \in [Slots -> Record] /\ Stored(w, x)
<1>1. rec \in [Slots -> Record] /\ rec[slot] \in Record
  BY DEF Typed, TypeOK
<1> DEFINE new == [rec[slot] EXCEPT ![w] = x]
<1>2. /\ \A t \in Slots \ {slot} : rec'[t] = rec[t]
      /\ rec'[slot] = new
      /\ rec' = [rec EXCEPT ![slot] = new]
  BY <1>1
<1>3. new \in Record
  <2>1. \/ w = "dest" /\ x \in Dests \cup {NoDest}
        \/ w = "body" /\ x \in Values \cup {0}
        \/ w = "flags" /\ x \in {0, 1}
        \/ w = "tail" /\ x \in Values \cup {0}
    BY DEF Words, Kind, Wiped
  <2>2. CASE w = "dest" /\ x \in Dests \cup {NoDest}
    BY <1>1, <2>2 DEF Record
  <2>3. CASE w = "body" /\ x \in Values \cup {0}
    BY <1>1, <2>3 DEF Record
  <2>4. CASE w = "flags" /\ x \in {0, 1}
    BY <1>1, <2>4 DEF Record
  <2>5. CASE w = "tail" /\ x \in Values \cup {0}
    BY <1>1, <2>5 DEF Record
  <2> QED BY <2>1, <2>2, <2>3, <2>4, <2>5
<1>4. \A v \in Words : new[v] = IF v = w THEN x ELSE rec[slot][v]
  BY <1>1 DEF Record, Words
<1> HIDE DEF new
<1> QED BY <1>1, <1>2, <1>3, <1>4 DEF Stored

-----------------------------------------------------------------------------
(***************************************************************************)
(* The counter counts.  Number is what the counter of a slot stands for:   *)
(* while recClear has it at 0, the value it is about to put back.          *)
(***************************************************************************)
Number(s) == IF s = slot /\ clearing \in {5, 6} THEN saved ELSE seq[s]

Coherent ==
  /\ \A s \in Slots \ {slot} : seq[s] % 2 = 0 /\ rec[s] = whole[s]
  /\ slot # NoSlot => Number(slot) % 2 = 1
  /\ clearing \in {2, 3, 4} => saved = seq[slot]
  /\ clearing \in {5, 6} => seq[slot] = 0

(* A reader that is copying has seen its slot opened `sections' times, and *)
(* the counter has moved by as much; before the first of them, the copy is *)
(* the record.                                                             *)
CopiedSoFar(state) ==
  \A i \in 1 .. 4 : i < state.next =>
    state.copy[CopyOrder[i]] = rec[state.at][CopyOrder[i]]

Steps(state) == state.s1 + 2 * state.sections - (IF state.at = slot THEN 1 ELSE 0)

Counted(state) ==
  state.pc = "copy" /\ state.s1 # 0 =>
    /\ state.s1 % 2 = 0 /\ state.sections <= MaxSections
    /\ Number(state.at) \in {Steps(state), Steps(state) - SEQ_MODULUS}
    /\ state.sections = 0 => /\ state.at # slot /\ CopiedSoFar(state)
                             /\ whole[state.at] \in state.versions

(***************************************************************************)
(* A destination that stays in the pool is in front of the reader.         *)
(***************************************************************************)
Stays(s, d) ==
  /\ rec[s].flags = 1 /\ rec[s].dest = d
  /\ slot = s => /\ clearing = Cleared
                 /\ "dest" \in DOMAIN fields => fields["dest"] = d
                 /\ "flags" \in DOMAIN fields => fields["flags"] = 1

Ahead(state, s) ==
  /\ state.pc = "scan" => state.at <= s
  /\ state.pc \in {"load", "copy"} => state.at = s
  /\ state.pc = "copy" /\ 1 < state.next => state.copy.dest = state.asked
  /\ state.pc = "copy" /\ 3 < state.next => state.copy.flags = 1
  /\ state.pc = "miss" => state.tries = RDIR_SEQ_TRIES

Found(state) ==
  state.present => /\ state.asked \in Dests
                   /\ \E s \in Slots : Stays(s, state.asked) /\ Ahead(state, s)

AllFound == \A r \in Readers : Found(reader[r])

(* A store over a record in place leaves it its key.                       *)
Identified ==
  slot # NoSlot /\ clearing = Cleared /\ "dest" \in DOMAIN fields
    => rec[slot].dest \in {NoDest, fields["dest"]}

-----------------------------------------------------------------------------
(***************************************************************************)
(* The types, step by step.                                                *)
(***************************************************************************)

(* Where a reader may be after any of its steps.                           *)
LEMMA ReaderTyped ==
  ASSUME Typed, NEW r \in Readers, ReaderStep(r) \/ \E d \in Sought : begin(r, d)
  PROVE  Typed'
<1> DEFINE old == reader[r]
<1>0. /\ old \in ReaderState /\ 0 < RDIR_SEQ_TRIES
      /\ old.pc \in {"scan", "load", "copy"} => old.tries < RDIR_SEQ_TRIES
  BY PoolAssumption DEF Typed, TypeOK, PcOK
<1>1. ASSUME NEW new \in ReaderState, Moves(r, new),
             new.pc \in {"scan", "load", "copy"} => new.tries < RDIR_SEQ_TRIES,
             new.pc \in {"load", "copy", "hit"} => new.at \in Slots
      PROVE  Typed'
  <2>1. \A o \in Readers : PcOK(o)'
    BY <1>1 DEF Moves, Typed, PcOK
  <2> QED BY <1>1, <2>1 DEF Moves, Typed, TypeOK, IsStore, Makes
<1>2. ASSUME NEW state \in ReaderState, state.at \in Slots,
             Moves(r, PassOver(state)), PassOver(state) \in ReaderState
      PROVE  Typed'
  <2>1. \/ PassOver(state).pc = "scan" /\ PassOver(state).tries = 0
        \/ PassOver(state).pc = "miss"
    BY <1>2, PassOverType
  <2> QED BY <1>0, <1>1, <1>2, <2>1
<1>3. CASE \E d \in Sought : begin(r, d)
  BY <1>0, <1>1, <1>3, BeginMoves
<1>4. CASE scan(r)
  BY <1>1, <1>4, ScanMoves
<1>5. CASE load(r)
  <2>1. PICK new \in ReaderState :
          /\ Moves(r, new)
          /\ old.pc = "load" /\ old.at \in Slots
          /\ old.tries < RDIR_SEQ_TRIES
          /\ \/ new = Lost(old)
             \/ new.pc = "copy" /\ new.at = old.at /\ new.tries = old.tries
    BY <1>5, LoadMoves
  <2>2. CASE new = Lost(old)
    BY <1>0, <1>1, <2>1, <2>2, LostType
  <2>3. CASE new.pc = "copy" /\ new.at = old.at /\ new.tries = old.tries
    BY <1>1, <2>1, <2>3
  <2> QED BY <2>1, <2>2, <2>3
<1>6. CASE copyWord(r)
  BY <1>0, <1>1, <1>6, CopyMoves
<1>7. CASE check(r)
  <2>1. PICK new \in ReaderState :
          /\ Moves(r, new) /\ old.at \in Slots /\ old.tries < RDIR_SEQ_TRIES
          /\ \/ new = Lost(old)
             \/ new.pc = "hit" /\ new.at = old.at
             \/ new = PassOver(old)
    BY <1>7, CheckMoves
  <2>2. CASE new = Lost(old)
    BY <1>0, <1>1, <2>1, <2>2, LostType
  <2>3. CASE new.pc = "hit" /\ new.at = old.at
    BY <1>1, <2>1, <2>3
  <2>4. CASE new = PassOver(old)
    BY <1>0, <1>2, <2>1, <2>4
  <2> QED BY <2>1, <2>2, <2>3, <2>4
<1>8. CASE finish(r)
  <2>1. PICK new \in ReaderState :
          Moves(r, new) /\ ((old.at \in Slots /\ new = PassOver(old)) \/ new = Resting)
    BY <1>8, FinishMoves
  <2>2. Resting.pc = "idle"
    BY DEF Resting
  <2> QED BY <1>0, <1>1, <1>2, <2>1, <2>2
<1> QED BY <1>3, <1>4, <1>5, <1>6, <1>7, <1>8 DEF ReaderStep

LEMMA WriterTyped == Typed /\ OneSlotEach /\ Writer => Typed'
<1> SUFFICES ASSUME Typed, OneSlotEach, Writer PROVE Typed'
  OBVIOUS
<1>0. /\ seq \in [Slots -> Counter] /\ saved \in Counter /\ 0 \in Counter
      /\ 0 \notin Slots
  BY CounterAssumption DEF Typed, TypeOK, Counter, Slots
<1>1. CASE recClear
  <2>1. slot \in Slots /\ clearing \in 1 .. 6
    BY <1>1 DEF recClear, Typed, TypeOK, Cleared
  <2>2. ClearOrder[clearing] \in Words \/ ClearOrder[clearing] \in {"seq", "restore"}
    BY <2>1 DEF ClearOrder, Words
  <2>3. rec' \in [Slots -> Record]
    <3>1. CASE ClearOrder[clearing] \in Words
      BY <1>1, <2>1, <3>1, StoreType DEF recClear
    <3>2. CASE ClearOrder[clearing] \notin Words
      BY <1>1, <3>2 DEF recClear, Typed, TypeOK
    <3> QED BY <3>1, <3>2
  <2>4. seq' \in [Slots -> Counter] /\ saved' \in Counter
    BY <1>0, <1>1, <2>1 DEF recClear
  <2>5. clearing' \in 1 .. Cleared
    BY <1>1, <2>1 DEF recClear, Cleared
  <2>6. \A r \in Readers : PcOK(r)'
    BY <1>1 DEF recClear, Typed, PcOK
  <2> QED BY <1>0, <1>1, <2>1, <2>3, <2>4, <2>5, <2>6
          DEF recClear, Typed, TypeOK, IsStore, Makes, NoSlot
<1>2. ASSUME NEW w \in DOMAIN fields, storeField(w) PROVE Typed'
  <2>1. w \in Words /\ fields[w] \in Kind(w) /\ slot \in Slots
    BY <1>2 DEF Typed, TypeOK, IsStore, storeField, NoSlot
  <2>2. rec' \in [Slots -> Record]
    BY <1>2, <2>1, StoreType DEF storeField
  <2>3. IsStore(fields')
    BY <1>2 DEF Typed, IsStore, storeField
  <2>4. \A r \in Readers : PcOK(r)'
    BY <1>2 DEF storeField, Typed, PcOK
  <2> QED BY <1>2, <2>2, <2>3, <2>4 DEF storeField, Typed, TypeOK, IsStore, Makes
<1>3. CASE writeEnd
  <2>1. slot \in Slots /\ rec[slot] \in Record
    BY <1>3 DEF writeEnd, Typed, TypeOK
  <2>2. seq' \in [Slots -> Counter] /\ saved' \in Counter
    BY <1>0, <1>3, <2>1, CounterType DEF writeEnd
  <2>3. whole' \in [Slots -> Record]
    BY <1>3, <2>1 DEF writeEnd, Typed, TypeOK
  <2>4. \A r \in Readers : PcOK(r)'
    BY <1>3, EndSection DEF Typed, PcOK, Fixed
  <2> QED BY <1>3, <2>2, <2>3, <2>4, EndSection
          DEF writeEnd, Typed, TypeOK, IsStore, Makes, NoSlot
<1>4. ASSUME NEW s \in Slots, NEW dropped, writeBegin(s, dropped),
             IsStore(fields'), Makes(pending'), clearing' \in {1, Cleared}
      PROVE  Typed'
  <2>1. seq' \in [Slots -> Counter] /\ slot' \in Slots /\ saved' \in Counter
    BY <1>0, <1>4, CounterType DEF writeBegin
  <2>2. \A r \in Readers : PcOK(r)'
    BY <1>4, BeginSection DEF Typed, PcOK, Fixed
  <2>3. clearing' \in 1 .. Cleared
    BY <1>4 DEF Cleared
  <2>4. slot' # NoSlot
    BY <1>0, <2>1 DEF NoSlot
  <2> QED BY <1>4, <2>1, <2>2, <2>3, <2>4, BeginSection
          DEF writeBegin, Typed, TypeOK
<1>5. ASSUME NEW s \in Slots, NEW f, rewrite(s, f), Keeps(s, f) PROVE Typed'
  BY <1>4, <1>5 DEF rewrite, Keeps, Typed
<1>6. ASSUME NEW s \in Slots, NEW f, Reuses(s, f) PROVE Typed'
  BY <1>4, <1>6 DEF Reuses, reuse, Makes
<1> QED BY <1>1, <1>2, <1>3, <1>5, <1>6, WriterShapes

LEMMA TypedStep == Typed /\ OneSlotEach /\ [Next]_vars => Typed'
<1> SUFFICES ASSUME Typed, OneSlotEach, [Next]_vars PROVE Typed'
  OBVIOUS
<1>1. CASE UNCHANGED vars
  BY <1>1 DEF vars, Typed, TypeOK, IsStore, Makes, PcOK
<1> QED BY <1>1, ReaderTyped, WriterTyped DEF Next

-----------------------------------------------------------------------------
(***************************************************************************)
(* The identities in the pool, step by step.                               *)
(***************************************************************************)
poolVars == <<rec, slot, clearing, fields, pending>>

LEMMA OneSlotEachKept == OneSlotEach /\ UNCHANGED poolVars => OneSlotEach'
BY DEF OneSlotEach, Absent, poolVars

LEMMA ReadersLeavePool ==
  ASSUME Typed, NEW r \in Readers, ReaderStep(r) \/ \E d \in Sought : begin(r, d)
  PROVE  UNCHANGED <<rec, seq, slot, clearing, saved, fields, pending, whole>>
BY BeginMoves, ScanMoves, LoadMoves, CopyMoves, CheckMoves, FinishMoves
   DEF ReaderStep, Moves

LEMMA OneSlotEachStep == Typed /\ OneSlotEach /\ [Next]_vars => OneSlotEach'
<1> SUFFICES ASSUME Typed, OneSlotEach, [Next]_vars PROVE OneSlotEach'
  OBVIOUS
<1>0. /\ rec \in [Slots -> Record] /\ 0 \notin Slots /\ NoDest \notin Dests
      /\ \A t \in Slots : rec[t].dest \in Dests \cup {NoDest} /\ rec[t].flags \in {0, 1}
  BY PoolAssumption DEF Typed, TypeOK, Slots, Record
<1>1. CASE UNCHANGED vars
  BY <1>1, OneSlotEachKept DEF vars, poolVars
<1>2. ASSUME NEW r \in Readers, ReaderStep(r) \/ \E d \in Sought : begin(r, d)
      PROVE  OneSlotEach'
  BY <1>2, ReadersLeavePool, OneSlotEachKept DEF poolVars
<1>3. CASE recClear
  <2>1. slot \in Slots /\ slot' = slot /\ clearing \in 1 .. 6 /\ clearing' = clearing + 1
        /\ UNCHANGED <<fields, pending>>
    BY <1>3 DEF recClear, Typed, TypeOK, Cleared
  <2> DEFINE w == ClearOrder[clearing]
  <2>2. /\ \A t \in Slots \ {slot} : rec'[t] = rec[t]
        /\ rec'[slot].dest = IF w = "dest" THEN NoDest ELSE rec[slot].dest
        /\ rec'[slot].flags = IF w = "flags" THEN 0 ELSE rec[slot].flags
    <3>1. CASE w \in Words
      <4>0. rec' = [rec EXCEPT ![slot][w] = Wiped[w]]
        BY <1>3, <3>1 DEF recClear
      <4>1. /\ \A t \in Slots \ {slot} : rec'[t] = rec[t]
            /\ \A v \in Words : rec'[slot][v] = IF v = w THEN Wiped[w] ELSE rec[slot][v]
        <5> HIDE DEF w
        <5>1. Stored(w, Wiped[w])
          BY <2>1, <3>1, <4>0, StoreType
        <5> QED BY <5>1 DEF Stored
      <4> QED BY <4>1 DEF Words, Wiped
    <3>2. CASE w \notin Words
      BY <1>3, <3>2 DEF recClear, Words
    <3> QED BY <3>1, <3>2
  <2>3. /\ w = "dest" <=> clearing = 1
        /\ w = "flags" <=> clearing = 3
    BY <2>1 DEF ClearOrder
  <2>4. \A t \in Slots : rec'[t].dest = rec[t].dest \/ rec'[t].dest = NoDest
    BY <2>2
  <2>5. clearing' > 1 /\ rec'[slot].dest = NoDest
    BY <2>1, <2>2, <2>3 DEF OneSlotEach, NoSlot, Cleared, Slots
  <2>6. clearing' > 3 => rec'[slot].flags = 0
    BY <2>1, <2>2, <2>3, <1>0 DEF OneSlotEach, NoSlot, Cleared
  <2> HIDE DEF w
  <2>7. \A s, t \in Slots : rec'[s].dest = rec'[t].dest /\ rec'[s].dest # NoDest => s = t
    BY <2>4 DEF OneSlotEach
  <2>8. \A s \in Slots \ {slot} : rec'[s].flags = 1 <=> rec'[s].dest # NoDest
    BY <2>2 DEF OneSlotEach
  <2>9. Absent(pending)'
    <3>1. "dest" \in DOMAIN pending => pending["dest"] # NoDest
      BY <1>0 DEF Typed, Makes, IsStore, Kind
    <3> QED BY <2>1, <2>4, <3>1 DEF OneSlotEach, Absent
  <2>10. "dest" \in DOMAIN fields =>
           \A t \in Slots \ {slot} : rec'[t].dest # fields["dest"]
    BY <2>1, <2>2, <1>0 DEF OneSlotEach, NoSlot
  <2>11. "dest" \in DOMAIN fields <=> "flags" \in DOMAIN fields
    BY <1>0, <2>1 DEF OneSlotEach, NoSlot, Cleared
  <2>12. clearing' = Cleared => rec'[slot].flags = 0
    BY <2>6 DEF Cleared
  <2> QED BY <2>1, <2>5, <2>6, <2>7, <2>8, <2>9, <2>10, <2>11, <2>12 DEF OneSlotEach
<1>4. ASSUME NEW w \in DOMAIN fields, storeField(w) PROVE OneSlotEach'
  <2>1. /\ slot \in Slots /\ slot' = slot /\ clearing = Cleared /\ clearing' = Cleared
        /\ pending' = pending /\ w \in Words /\ fields[w] \in Kind(w)
        /\ DOMAIN fields' = DOMAIN fields \ {w}
        /\ \A v \in DOMAIN fields' : fields'[v] = fields[v]
    BY <1>4 DEF storeField, Typed, TypeOK, IsStore
  <2>0. rec' = [rec EXCEPT ![slot][w] = fields[w]]
    BY <1>4 DEF storeField
  <2>2. /\ \A t \in Slots \ {slot} : rec'[t] = rec[t]
        /\ \A v \in Words : rec'[slot][v] = IF v = w THEN fields[w] ELSE rec[slot][v]
    <3>1. Stored(w, fields[w])
      BY <2>0, <2>1, StoreType
    <3> QED BY <3>1 DEF Stored
  <2>3. /\ rec'[slot].dest = IF w = "dest" THEN fields["dest"] ELSE rec[slot].dest
        /\ rec'[slot].flags = IF w = "flags" THEN fields["flags"] ELSE rec[slot].flags
    BY <2>2 DEF Words
  <2>4. /\ "dest" \in DOMAIN fields => fields["dest"] \in Dests
        /\ "flags" \in DOMAIN fields => fields["flags"] = 1
    BY DEF Typed, IsStore, Kind
  <2>5. \A s, t \in Slots : rec'[s].dest = rec'[t].dest /\ rec'[s].dest # NoDest => s = t
    BY <1>0, <2>1, <2>2, <2>3 DEF OneSlotEach, NoSlot
  <2>6. Absent(pending)'
    <3>1. CASE w = "dest"
      BY <1>0, <2>1, <3>1 DEF OneSlotEach, Absent, NoSlot
    <3>2. CASE w # "dest"
      BY <2>1, <2>2, <2>3, <3>2 DEF OneSlotEach, Absent
    <3> QED BY <3>1, <3>2
  <2>7. \A s \in Slots \ {slot} : rec'[s].flags = 1 <=> rec'[s].dest # NoDest
    BY <2>2 DEF OneSlotEach
  <2>8. "dest" \in DOMAIN fields' =>
          /\ "dest" \notin DOMAIN pending
          /\ \A t \in Slots \ {slot} : rec'[t].dest # fields'["dest"]
    BY <1>0, <2>1, <2>2 DEF OneSlotEach, NoSlot
  <2>9. ("dest" \in DOMAIN fields' \/ rec'[slot].dest # NoDest)
          <=> ("dest" \in DOMAIN fields \/ rec[slot].dest # NoDest)
    BY <1>0, <2>1, <2>3, <2>4
  <2>10. ("flags" \in DOMAIN fields' \/ rec'[slot].flags = 1)
          <=> ("flags" \in DOMAIN fields \/ rec[slot].flags = 1)
    BY <1>0, <2>1, <2>3, <2>4
  <2>11. ("dest" \in DOMAIN fields' \/ rec'[slot].dest # NoDest)
          <=> ("flags" \in DOMAIN fields' \/ rec'[slot].flags = 1)
    BY <1>0, <2>1, <2>9, <2>10 DEF OneSlotEach, NoSlot
  <2> QED BY <2>1, <2>5, <2>6, <2>7, <2>8, <2>11 DEF OneSlotEach, Cleared
<1>5. CASE writeEnd
  BY <1>0, <1>5 DEF writeEnd, OneSlotEach, Absent, NoSlot
<1>6. ASSUME NEW s \in Slots, NEW f, rewrite(s, f), Keeps(s, f), pending = NoInsertion
      PROVE  OneSlotEach'
  <2>0. DOMAIN pending = {}
    BY <1>6 DEF NoInsertion, NoFields
  <2>1. slot = NoSlot /\ slot' = s /\ rec' = rec /\ fields' = f /\ clearing' = Cleared
        /\ pending' = pending
    BY <1>6 DEF rewrite, writeBegin
  <2>2. rec[s].flags = 1 /\ rec[s].dest # NoDest
    BY <1>0, <1>6, <2>1 DEF Keeps, Used, OneSlotEach, NoSlot
  <2>3. "dest" \in DOMAIN f => \A t \in Slots \ {s} : rec[t].dest # f["dest"]
    BY <1>6, <2>2 DEF OneSlotEach, Keeps
  <2>4. \A t \in Slots : rec[t].flags = 1 <=> rec[t].dest # NoDest
    BY <1>0, <2>1 DEF OneSlotEach, NoSlot
  <2> QED BY <2>0, <2>1, <2>2, <2>3, <2>4 DEF OneSlotEach, Absent, Cleared
<1>7. ASSUME NEW s \in Slots, NEW f, Reuses(s, f) PROVE OneSlotEach'
  <2>1. /\ reuse(s, f) /\ Makes(f) /\ Absent(f) /\ Absent(pending')
        /\ "dest" \in DOMAIN f => "dest" \notin DOMAIN pending'
    BY <1>7 DEF Reuses, NoFields, NoInsertion
  <2>2. slot = NoSlot /\ slot' = s /\ rec' = rec /\ fields' = f /\ clearing' = 1
    BY <2>1 DEF reuse, writeBegin
  <2> QED BY <1>0, <2>1, <2>2 DEF OneSlotEach, Makes, Absent, NoSlot, Cleared
<1> QED BY <1>1, <1>2, <1>3, <1>4, <1>5, <1>6, <1>7, WriterShapes DEF Next

-----------------------------------------------------------------------------
(***************************************************************************)
(* The counter, step by step.                                              *)
(***************************************************************************)

LEMMA CounterCounts ==
  ASSUME NEW n \in Counter
  PROVE  /\ n % 2 = 0 => MadeOdd(n) = n + 1 /\ MadeOdd(n) % 2 = 1
         /\ n % 2 = 1 => /\ MadeEven(n) \in {n + 1, n + 1 - SEQ_MODULUS}
                         /\ MadeEven(n) % 2 = 0
<1>1. n \in Nat /\ n < SEQ_MODULUS /\ SEQ_MODULUS \in Nat \ {0} /\ SEQ_MODULUS % 2 = 0
  BY CounterAssumption DEF Counter
<1>2. CASE n % 2 = 0
  BY <1>1, <1>2 DEF MadeOdd
<1>3. CASE n % 2 = 1
  <2>1. MadeEven(n) = (n + 1) % SEQ_MODULUS
    BY <1>3 DEF MadeEven
  <2>2. CASE n + 1 = SEQ_MODULUS
    <3>1. MadeEven(n) = 0
      BY <1>1, <2>1, <2>2
    <3> QED BY <1>1, <1>3, <2>2, <3>1
  <2>3. CASE n + 1 < SEQ_MODULUS
    <3>1. MadeEven(n) = n + 1
      BY <1>1, <2>1, <2>3
    <3> QED BY <1>1, <1>3, <3>1
  <2> QED BY <1>1, <2>2, <2>3
<1> QED BY <1>1, <1>2, <1>3

LEMMA CoherentStep == Typed /\ OneSlotEach /\ Coherent /\ [Next]_vars => Coherent'
<1> SUFFICES ASSUME Typed, OneSlotEach, Coherent, [Next]_vars PROVE Coherent'
  OBVIOUS
<1>0. /\ seq \in [Slots -> Counter] /\ rec \in [Slots -> Record] /\ 0 \notin Slots
      /\ whole \in [Slots -> Record] /\ clearing \in 1 .. Cleared
  BY DEF Typed, TypeOK, Slots
<1>1. CASE UNCHANGED <<rec, seq, slot, clearing, saved, fields, pending, whole>>
  BY <1>1 DEF Coherent, Number
<1>2. CASE recClear
  <2>1. slot \in Slots /\ slot' = slot /\ clearing \in 1 .. 6 /\ clearing' = clearing + 1
        /\ whole' = whole
    BY <1>2 DEF recClear, Typed, TypeOK, Cleared
  <2>2. \A s \in Slots \ {slot} : rec'[s] = rec[s] /\ seq'[s] = seq[s]
    BY <1>0, <1>2 DEF recClear
  <2>3. CASE clearing = 1
    <3>1. seq' = seq /\ saved' = seq[slot]
      BY <1>2, <2>3 DEF recClear, ClearOrder
    <3> QED BY <2>1, <2>2, <2>3, <3>1 DEF Coherent, Number, NoSlot
  <2>4. CASE clearing \in {2, 3}
    <3>1. seq' = seq /\ saved' = saved
      BY <1>2, <2>4 DEF recClear, ClearOrder
    <3> QED BY <2>1, <2>2, <2>4, <3>1 DEF Coherent, Number, NoSlot
  <2>5. CASE clearing = 4
    <3>1. seq'[slot] = 0 /\ saved' = saved
      BY <1>0, <1>2, <2>1, <2>5 DEF recClear, ClearOrder
    <3> QED BY <2>1, <2>2, <2>5, <3>1 DEF Coherent, Number, NoSlot
  <2>6. CASE clearing = 5
    <3>1. seq' = seq /\ saved' = saved
      BY <1>2, <2>6 DEF recClear, ClearOrder
    <3> QED BY <2>1, <2>2, <2>6, <3>1 DEF Coherent, Number, NoSlot
  <2>7. CASE clearing = 6
    <3>1. seq'[slot] = saved
      BY <1>0, <1>2, <2>1, <2>7 DEF recClear, ClearOrder
    <3> QED BY <2>1, <2>2, <2>7, <3>1 DEF Coherent, Number, NoSlot
  <2> QED BY <2>1, <2>3, <2>4, <2>5, <2>6, <2>7
<1>3. ASSUME NEW w \in DOMAIN fields, storeField(w) PROVE Coherent'
  BY <1>0, <1>3 DEF storeField, Coherent, Number, Cleared
<1>4. CASE writeEnd
  <2>1. slot \in Slots /\ slot' = NoSlot /\ clearing' = Cleared /\ clearing = Cleared
        /\ rec' = rec /\ whole' = [whole EXCEPT ![slot] = rec[slot]]
        /\ seq' = [seq EXCEPT ![slot] = MadeEven(seq[slot])]
    BY <1>4 DEF writeEnd, Typed, TypeOK
  <2>2. seq[slot] % 2 = 1
    BY <1>0, <2>1 DEF Coherent, Number, Cleared, NoSlot
  <2>3. MadeEven(seq[slot]) % 2 = 0
    BY <1>0, <2>1, <2>2, CounterCounts
  <2> QED BY <1>0, <2>1, <2>3 DEF Coherent, Number, Cleared
<1>5. ASSUME NEW s \in Slots, NEW dropped, writeBegin(s, dropped), clearing' \in {1, Cleared}
      PROVE  Coherent'
  <2>1. slot = NoSlot /\ slot' = s /\ rec' = rec /\ whole' = whole
        /\ seq' = [seq EXCEPT ![s] = MadeOdd(seq[s])]
    BY <1>5 DEF writeBegin
  <2>2. seq[s] % 2 = 0
    BY <1>0, <2>1 DEF Coherent, NoSlot
  <2>3. MadeOdd(seq[s]) % 2 = 1
    BY <1>0, <2>2, CounterCounts
  <2> QED BY <1>0, <1>5, <2>1, <2>3 DEF Coherent, Number, Cleared, NoSlot
<1>6. CASE Writer
  BY <1>2, <1>3, <1>4, <1>5, <1>6, WriterShapes DEF Reuses, rewrite, reuse
<1>7. CASE UNCHANGED vars
  BY <1>1, <1>7 DEF vars
<1> QED BY <1>1, <1>6, <1>7, ReadersLeavePool DEF Next

-----------------------------------------------------------------------------
(***************************************************************************)
(* What a reader has copied, step by step.  The counter must not come full *)
(* circle during one copy.                                                 *)
(***************************************************************************)
NoLap == 2 * MaxSections < SEQ_MODULUS

AllCounted == \A r \in Readers : Counted(reader[r])

LEMMA ReaderCounted ==
  ASSUME Typed, Coherent, AllCounted, NEW r \in Readers,
         ReaderStep(r) \/ \E d \in Sought : begin(r, d)
  PROVE  AllCounted'
<1> DEFINE old == reader[r]
<1>0. /\ old \in ReaderState /\ seq \in [Slots -> Counter] /\ 0 \notin Slots
      /\ rec \in [Slots -> Record] /\ Counted(old)
  BY DEF Typed, TypeOK, Slots, AllCounted
<1>1. ASSUME NEW new \in ReaderState, Moves(r, new), Counted(new) PROVE AllCounted'
  BY <1>1 DEF AllCounted, Moves, Counted, Number, Steps, CopiedSoFar
<1>2. ASSUME NEW new \in ReaderState, Moves(r, new), new.pc # "copy" PROVE AllCounted'
  BY <1>1, <1>2 DEF Counted
<1>3. CASE \E d \in Sought : begin(r, d)
  <2>1. PICK new \in ReaderState : Moves(r, new) /\ new.pc = "scan"
    BY <1>3, BeginMoves
  <2> QED BY <1>2, <2>1
<1>4. CASE scan(r)
  <2>1. PICK new \in ReaderState : Moves(r, new) /\ new.pc \in {"miss", "load", "scan"}
    BY <1>4, ScanMoves
  <2> QED BY <1>2, <2>1
<1>5. CASE load(r)
  <2>1. PICK new \in ReaderState :
          /\ Moves(r, new) /\ old.at \in Slots /\ old.tries < RDIR_SEQ_TRIES
          /\ \/ new = Lost(old)
             \/ /\ seq[old.at] % 2 # 1 /\ new.pc = "copy" /\ new.at = old.at
                /\ new.s1 = seq[old.at] /\ new.next = 1 /\ new.versions = {whole[old.at]}
                /\ new.sections = 0
    BY <1>5, LoadMoves
  <2>2. CASE new = Lost(old)
    BY <1>0, <1>2, <2>1, <2>2, LostType
  <2>3. CASE new # Lost(old)
    <3>1. CASE new.s1 = 0
      BY <1>1, <2>1, <3>1 DEF Counted
    <3>2. CASE new.s1 # 0
      <4>1. seq[old.at] \in Nat /\ seq[old.at] % 2 = 0
        BY <1>0, <2>1, <2>3 DEF Counter
      <4>2. old.at # slot
        BY <1>0, <2>1, <2>3, <3>2, <4>1 DEF Coherent, Number, NoSlot
      <4>3. Steps(new) = new.s1 /\ Number(new.at) = new.s1
        BY <2>1, <2>3, <4>1, <4>2 DEF Steps, Number
      <4>4. CopiedSoFar(new) /\ whole[new.at] \in new.versions
        BY <2>1, <2>3 DEF CopiedSoFar
      <4>5. new.sections <= MaxSections
        BY <2>1, <2>3, CounterAssumption
      <4> QED BY <1>1, <2>1, <2>3, <4>1, <4>2, <4>3, <4>4, <4>5 DEF Counted
    <3> QED BY <3>1, <3>2
  <2> QED BY <2>2, <2>3
<1>6. CASE copyWord(r)
  <2> DEFINE w == CopyOrder[old.next]
  <2>1. PICK new \in ReaderState :
          /\ Moves(r, new) /\ old.pc = "copy" /\ old.at \in Slots /\ old.next \in 1 .. 4
          /\ new.pc = "copy" /\ new.at = old.at /\ new.s1 = old.s1
          /\ new.next = old.next + 1 /\ new.versions = old.versions
          /\ new.sections = old.sections
          /\ new.copy = [old.copy EXCEPT ![w] = rec[old.at][w]]
    BY <1>6, CopyMoves
  <2>2. old.copy \in Record /\ w \in Words
    BY <1>0, <2>1 DEF ReaderState, CopyOrder, Words
  <2>3. \A i \in 1 .. 4 : i < old.next => CopyOrder[i] # w
    BY <2>1 DEF CopyOrder
  <2>4. CopiedSoFar(old) => CopiedSoFar(new)
    <3>1. new.copy[w] = rec[old.at][w]
      BY <2>1, <2>2 DEF Record, Words
    <3>2. \A i \in 1 .. 4 : i < old.next => new.copy[CopyOrder[i]] = old.copy[CopyOrder[i]]
      <4>1. \A i \in 1 .. 4 : CopyOrder[i] \in Words
        BY DEF CopyOrder, Words
      <4>2. \A v \in Words : v # w => new.copy[v] = old.copy[v]
        BY <2>1, <2>2 DEF Record, Words
      <4> QED BY <2>3, <4>1, <4>2
    <3>3. \A i \in 1 .. 4 : i < new.next => i < old.next \/ i = old.next
      BY <2>1
    <3> HIDE DEF w
    <3> QED BY <2>1, <3>1, <3>2, <3>3 DEF CopiedSoFar, w
  <2>5. Counted(new)
    BY <1>0, <2>1, <2>4 DEF Counted, Steps
  <2> QED BY <1>1, <2>1, <2>5
<1>7. CASE check(r)
  <2>1. PICK new \in ReaderState :
          /\ Moves(r, new) /\ old.at \in Slots /\ old.tries < RDIR_SEQ_TRIES
          /\ new = Lost(old) \/ new.pc = "hit" \/ new = PassOver(old)
    BY <1>7, CheckMoves
  <2>2. Lost(old).pc # "copy" /\ PassOver(old).pc # "copy"
    BY <1>0, <2>1, LostType, PassOverType
  <2> QED BY <1>2, <2>1, <2>2
<1>8. CASE finish(r)
  <2>1. PICK new \in ReaderState :
          Moves(r, new) /\ ((old.at \in Slots /\ new = PassOver(old)) \/ new = Resting)
    BY <1>8, FinishMoves
  <2>2. Resting.pc # "copy" /\ (old.at \in Slots => PassOver(old).pc # "copy")
    BY <1>0, PassOverType DEF Resting
  <2> QED BY <1>2, <2>1, <2>2
<1> QED BY <1>3, <1>4, <1>5, <1>6, <1>7, <1>8 DEF ReaderStep

(* The writer's steps inside a section count for nothing.                  *)
LEMMA InsideSection ==
  ASSUME Typed, Coherent, AllCounted, UNCHANGED <<slot, whole, reader>>,
         \A s \in Slots : Number(s)' = Number(s),
         \A s \in Slots \ {slot} : rec'[s] = rec[s]
  PROVE  AllCounted'
<1> SUFFICES ASSUME NEW r \in Readers PROVE Counted(reader[r])'
  BY DEF AllCounted
<1>1. Counted(reader[r]) /\ (reader[r].pc = "copy" => reader[r].at \in Slots)
  BY DEF Typed, PcOK, AllCounted
<1> QED BY <1>1 DEF Counted, Steps, CopiedSoFar

LEMMA WriterCounted ==
  ASSUME NoLap, Typed, OneSlotEach, Coherent, AllCounted, Writer
  PROVE  AllCounted'
<1>0. /\ seq \in [Slots -> Counter] /\ rec \in [Slots -> Record] /\ 0 \notin Slots
      /\ whole \in [Slots -> Record] /\ clearing \in 1 .. Cleared
      /\ \A n \in Counter : n \in Nat /\ n < SEQ_MODULUS
      /\ MaxSections \in Nat /\ SEQ_MODULUS \in Nat
  BY CounterAssumption DEF Typed, TypeOK, Slots, Counter
<1>1. CASE recClear
  <2>1. slot \in Slots /\ slot' = slot /\ clearing \in 1 .. 6 /\ clearing' = clearing + 1
        /\ whole' = whole /\ reader' = reader
    BY <1>1 DEF recClear, Typed, TypeOK, Cleared
  <2>2. \A s \in Slots \ {slot} : rec'[s] = rec[s] /\ seq'[s] = seq[s]
    BY <1>0, <1>1 DEF recClear
  <2>3. Number(slot)' = Number(slot)
    <3>1. CASE clearing \in {1, 2, 3, 5}
      <4>1. seq' = seq /\ (clearing = 5 => saved' = saved)
        BY <1>1, <3>1 DEF recClear, ClearOrder
      <4> QED BY <2>1, <3>1, <4>1 DEF Number
    <3>2. CASE clearing = 4
      <4>1. saved' = saved
        BY <1>1, <3>2 DEF recClear
      <4> QED BY <2>1, <3>2, <4>1 DEF Number, Coherent
    <3>3. CASE clearing = 6
      <4>1. seq'[slot] = saved
        BY <1>0, <1>1, <2>1, <3>3 DEF recClear, ClearOrder
      <4> QED BY <2>1, <3>3, <4>1 DEF Number
    <3> QED BY <2>1, <3>1, <3>2, <3>3
  <2>4. \A s \in Slots : Number(s)' = Number(s)
    BY <2>1, <2>2, <2>3 DEF Number
  <2> QED BY <2>1, <2>2, <2>4, InsideSection
<1>2. ASSUME NEW w \in DOMAIN fields, storeField(w) PROVE AllCounted'
  <2>1. /\ UNCHANGED <<slot, whole, reader, seq, saved, clearing>>
        /\ \A s \in Slots \ {slot} : rec'[s] = rec[s]
    BY <1>0, <1>2 DEF storeField
  <2>2. \A s \in Slots : Number(s)' = Number(s)
    BY <2>1 DEF Number
  <2> QED BY <2>1, <2>2, InsideSection
<1>3. CASE writeEnd
  <2>1. slot \in Slots /\ slot' = NoSlot /\ clearing' = Cleared /\ clearing = Cleared
        /\ rec' = rec /\ whole' = [whole EXCEPT ![slot] = rec[slot]]
        /\ seq' = [seq EXCEPT ![slot] = MadeEven(seq[slot])]
    BY <1>3 DEF writeEnd, Typed, TypeOK
  <2>2. seq[slot] % 2 = 1 /\ seq[slot] \in Counter
    BY <1>0, <2>1 DEF Coherent, Number, Cleared, NoSlot
  <2>3. /\ seq'[slot] \in {seq[slot] + 1, seq[slot] + 1 - SEQ_MODULUS}
        /\ seq'[slot] \in Nat
        /\ \A s \in Slots \ {slot} : seq'[s] = seq[s] /\ whole'[s] = whole[s]
    BY <1>0, <2>1, <2>2, CounterCounts, CounterType
  <2> SUFFICES ASSUME NEW r \in Readers, reader'[r].pc = "copy", reader'[r].s1 # 0
               PROVE  Counted(reader[r])'
    BY DEF AllCounted, Counted
  <2> DEFINE old == reader[r]
             new == reader'[r]
  <2>4. /\ new.pc = old.pc /\ new.at = old.at /\ new.s1 = old.s1 /\ new.next = old.next
        /\ new.copy = old.copy /\ new.sections = old.sections
        /\ new.versions = IF Copying(r, slot) THEN old.versions \cup {rec[slot]}
                                              ELSE old.versions
    BY <1>3, EndSection DEF Fixed
  <2>5. /\ old.pc = "copy" /\ old.at \in Slots /\ old.s1 # 0
        /\ old.s1 \in Nat /\ old.s1 < SEQ_MODULUS /\ old.sections \in Nat
    BY <1>0, <2>4 DEF Typed, TypeOK, PcOK, ReaderState
  <2>6. /\ old.s1 % 2 = 0 /\ old.sections <= MaxSections
        /\ Number(old.at) \in {Steps(old), Steps(old) - SEQ_MODULUS}
        /\ old.sections = 0 => /\ old.at # slot /\ CopiedSoFar(old)
                               /\ whole[old.at] \in old.versions
    BY <2>5 DEF AllCounted, Counted
  <2>7. Number(old.at) = seq[old.at] /\ Number(old.at)' = seq'[old.at]
    BY <2>1, <2>4, <2>5 DEF Number, Cleared
  <2>8. Steps(old)' = old.s1 + 2 * old.sections
    BY <1>0, <2>1, <2>4, <2>5 DEF Steps, NoSlot
  <2>9. seq'[old.at] \in {Steps(old)', Steps(old)' - SEQ_MODULUS}
    <3>1. CASE old.at = slot
      <4>1. Steps(old) = old.s1 + 2 * old.sections - 1
        BY <2>5, <3>1 DEF Steps
      <4>2. old.s1 + 2 * old.sections < 2 * SEQ_MODULUS
        BY <1>0, <2>5, <2>6 DEF NoLap
      <4> QED BY <1>0, <2>2, <2>3, <2>5, <2>6, <2>7, <2>8, <3>1, <4>1, <4>2
    <3>2. CASE old.at # slot
      <4>1. Steps(old) = old.s1 + 2 * old.sections
        BY <2>5, <3>2 DEF Steps
      <4> QED BY <2>3, <2>5, <2>6, <2>7, <2>8, <3>2, <4>1
    <3> QED BY <3>1, <3>2
  <2>10. old.sections = 0 => /\ old.at # slot' /\ CopiedSoFar(old)'
                             /\ whole'[old.at] \in new.versions
    <3> SUFFICES ASSUME old.sections = 0
                 PROVE  /\ old.at # slot' /\ CopiedSoFar(old)'
                        /\ whole'[old.at] \in new.versions
      OBVIOUS
    <3>1. CopiedSoFar(old)'
      BY <2>1, <2>4, <2>6 DEF CopiedSoFar
    <3> QED BY <1>0, <2>1, <2>3, <2>4, <2>5, <2>6, <3>1 DEF NoSlot
  <2>11. Number(old.at)' \in {Steps(old)', Steps(old)' - SEQ_MODULUS}
    BY <2>4, <2>7, <2>9 DEF Steps
  <2> QED BY <2>4, <2>6, <2>10, <2>11 DEF Counted
<1>4. ASSUME NEW s \in Slots, NEW dropped, writeBegin(s, dropped), clearing' \in {1, Cleared}
      PROVE  AllCounted'
  <2>1. slot = NoSlot /\ slot' = s /\ rec' = rec /\ whole' = whole
        /\ seq' = [seq EXCEPT ![s] = MadeOdd(seq[s])]
    BY <1>4 DEF writeBegin
  <2>2. seq[s] % 2 = 0 /\ seq[s] \in Counter /\ clearing = Cleared
    BY <1>0, <2>1 DEF Coherent, NoSlot, Typed
  <2>3. /\ seq'[s] = seq[s] + 1
        /\ \A t \in Slots \ {s} : seq'[t] = seq[t]
    BY <1>0, <2>1, <2>2, CounterCounts
  <2> SUFFICES ASSUME NEW r \in Readers, reader'[r].pc = "copy", reader'[r].s1 # 0
               PROVE  Counted(reader[r])'
    BY DEF AllCounted, Counted
  <2> DEFINE old == reader[r]
             new == reader'[r]
  <2>4. /\ new.pc = old.pc /\ new.at = old.at /\ new.s1 = old.s1 /\ new.next = old.next
        /\ new.copy = old.copy /\ new.versions = old.versions
        /\ new.sections = IF Copying(r, s) THEN old.sections + 1 ELSE old.sections
    BY <1>4, BeginSection DEF Fixed
  <2>5. /\ old.pc = "copy" /\ old.at \in Slots /\ old.s1 # 0
        /\ old.s1 \in Nat /\ old.s1 < SEQ_MODULUS /\ old.sections \in Nat
    BY <1>0, <2>4 DEF Typed, TypeOK, PcOK, ReaderState
  <2>6. /\ old.s1 % 2 = 0 /\ old.sections <= MaxSections
        /\ Number(old.at) \in {Steps(old), Steps(old) - SEQ_MODULUS}
        /\ old.sections = 0 => /\ old.at # slot /\ CopiedSoFar(old)
                               /\ whole[old.at] \in old.versions
    BY <2>5 DEF AllCounted, Counted
  <2>7. Number(old.at) = seq[old.at] /\ Number(old.at)' = seq'[old.at]
    BY <1>4, <2>2, <2>4 DEF Number, Cleared
  <2>8. Steps(old) = old.s1 + 2 * old.sections
    BY <1>0, <2>1, <2>5 DEF Steps, NoSlot
  <2>9. CASE old.at = s
    <3>1. new.sections = old.sections + 1 /\ new.sections <= MaxSections
      <4>1. Copying(r, s) /\ old.sections < MaxSections
        BY <1>4, <2>5, <2>9 DEF Copying, writeBegin
      <4> QED BY <1>0, <2>4, <2>5, <4>1
    <3>2. Steps(old)' = old.s1 + 2 * (old.sections + 1) - 1
      BY <2>1, <2>4, <2>9, <3>1 DEF Steps
    <3>3. Number(old.at)' \in {Steps(old)', Steps(old)' - SEQ_MODULUS}
      BY <1>0, <2>2, <2>3, <2>4, <2>5, <2>6, <2>7, <2>8, <2>9, <3>2
    <3>4. new.sections # 0
      BY <2>5, <3>1
    <3> QED BY <2>4, <2>6, <3>1, <3>3, <3>4 DEF Counted
  <2>10. CASE old.at # s
    <3>1. new.sections = old.sections
      BY <2>4, <2>10 DEF Copying
    <3>2. Steps(old)' = old.s1 + 2 * old.sections
      BY <2>1, <2>4, <2>5, <2>10, <3>1 DEF Steps
    <3>3. Number(old.at)' \in {Steps(old)', Steps(old)' - SEQ_MODULUS}
      BY <2>3, <2>4, <2>5, <2>6, <2>7, <2>8, <2>10, <3>2
    <3>4. old.sections = 0 => CopiedSoFar(old)'
      BY <2>1, <2>4, <2>6 DEF CopiedSoFar
    <3> QED BY <2>1, <2>4, <2>6, <2>10, <3>1, <3>3, <3>4 DEF Counted
  <2> QED BY <2>9, <2>10
<1> QED BY <1>1, <1>2, <1>3, <1>4, WriterShapes DEF Reuses, rewrite, reuse

-----------------------------------------------------------------------------
(***************************************************************************)
(* What a reader is given.                                                 *)
(***************************************************************************)
LEMMA PoolInit == Init => OneSlotEach /\ Coherent /\ AllCounted /\ NonZeroCopyIsWhole
BY DEF Init, OneSlotEach, Absent, NoFields, NoInsertion, Wiped, Coherent, NoSlot, Cleared,
       AllCounted, Counted, Resting, NonZeroCopyIsWhole

(* The writer moves no reader, and takes no version of a record back.      *)
LEMMA WriterLeavesReaders ==
  ASSUME Typed, OneSlotEach, Writer, NEW r \in Readers
  PROVE  /\ Fixed(reader'[r], reader[r])
         /\ reader[r].versions \subseteq reader'[r].versions
<1>1. CASE recClear \/ \E w \in DOMAIN fields : storeField(w)
  BY <1>1 DEF recClear, storeField, Fixed
<1>2. CASE writeEnd
  BY <1>2, EndSection
<1>3. CASE \E s \in Slots : \E dropped : writeBegin(s, dropped)
  BY <1>3, BeginSection
<1> QED BY <1>1, <1>2, <1>3, WriterShapes DEF Reuses, rewrite, reuse

(* A copy that check lets through.                                         *)
LEMMA CheckedIsWhole ==
  ASSUME NoLap, Typed, Coherent, AllCounted, NEW r \in Readers, NEW old, old = reader[r],
         old.pc = "copy", old.at \in Slots, old.next = 5,
         seq[old.at] = old.s1, old.s1 # 0
  PROVE  old.copy \in old.versions
<1>1. /\ old \in ReaderState /\ Counted(old) /\ rec[old.at] \in Record
      /\ old.s1 \in Nat /\ old.sections \in Nat
      /\ MaxSections \in Nat /\ SEQ_MODULUS \in Nat
  BY CounterAssumption DEF Typed, TypeOK, ReaderState, Counter, AllCounted
<1>2. /\ old.s1 % 2 = 0 /\ old.sections <= MaxSections
      /\ Number(old.at) \in {Steps(old), Steps(old) - SEQ_MODULUS}
      /\ old.sections = 0 => CopiedSoFar(old) /\ whole[old.at] \in old.versions
                             /\ old.at # slot
  BY <1>1 DEF Counted
<1>3. Number(old.at) = old.s1
  BY DEF Number, Coherent
<1>4. old.at # slot
  BY <1>2, <1>3 DEF Coherent, NoSlot, Slots
<1>5. Steps(old) = old.s1 + 2 * old.sections
  BY <1>1, <1>4 DEF Steps
<1>6. old.sections = 0
  BY <1>1, <1>2, <1>3, <1>5 DEF NoLap
<1>7. \A i \in 1 .. 4 : old.copy[CopyOrder[i]] = rec[old.at][CopyOrder[i]]
  BY <1>2, <1>6 DEF CopiedSoFar
<1>8. old.copy = rec[old.at]
  <2>1. /\ old.copy.dest = rec[old.at].dest /\ old.copy.body = rec[old.at].body
        /\ old.copy.flags = rec[old.at].flags /\ old.copy.tail = rec[old.at].tail
    BY <1>7 DEF CopyOrder
  <2>2. old.copy \in Record
    BY <1>1 DEF ReaderState
  <2> QED BY <1>1, <2>1, <2>2 DEF Record
<1> QED BY <1>2, <1>4, <1>6, <1>8 DEF Coherent

LEMMA WholeStep ==
  NoLap /\ Typed /\ OneSlotEach /\ Coherent /\ AllCounted /\ NonZeroCopyIsWhole
    /\ [Next]_vars => AllCounted' /\ NonZeroCopyIsWhole'
<1> SUFFICES ASSUME NoLap, Typed, OneSlotEach, Coherent, AllCounted, NonZeroCopyIsWhole,
                    [Next]_vars
             PROVE  AllCounted' /\ NonZeroCopyIsWhole'
  OBVIOUS
<1>1. CASE UNCHANGED vars
  BY <1>1 DEF vars, AllCounted, Counted, Number, Steps, CopiedSoFar, NonZeroCopyIsWhole
<1>2. CASE Writer
  <2>1. NonZeroCopyIsWhole'
    BY <1>2, WriterLeavesReaders DEF NonZeroCopyIsWhole, Fixed
  <2> QED BY <1>2, <2>1, WriterCounted
<1>3. ASSUME NEW r \in Readers, ReaderStep(r) \/ \E d \in Sought : begin(r, d)
      PROVE  NonZeroCopyIsWhole'
  <2> DEFINE old == reader[r]
  <2>0. old \in ReaderState
    BY DEF Typed, TypeOK
  <2>1. ASSUME NEW new, Moves(r, new),
               new.pc = "hit" /\ new.s1 # 0 => new.copy \in new.versions
        PROVE  NonZeroCopyIsWhole'
    BY <2>1 DEF Moves, NonZeroCopyIsWhole
  <2>2. CASE \E d \in Sought : begin(r, d)
    BY <2>1, <2>2, BeginMoves
  <2>3. CASE scan(r)
    BY <2>1, <2>3, ScanMoves
  <2>4. CASE load(r)
    <3>1. PICK new \in ReaderState :
            /\ Moves(r, new) /\ old.at \in Slots /\ old.tries < RDIR_SEQ_TRIES
            /\ new = Lost(old) \/ new.pc = "copy"
      BY <2>4, LoadMoves
    <3>2. Lost(old).pc # "hit"
      BY <2>0, <3>1, LostType
    <3> QED BY <2>1, <3>1, <3>2
  <2>5. CASE copyWord(r)
    BY <2>1, <2>5, CopyMoves
  <2>6. CASE check(r)
    <3>1. PICK new \in ReaderState :
            /\ Moves(r, new) /\ old.at \in Slots /\ old.tries < RDIR_SEQ_TRIES
            /\ old.pc = "copy" /\ old.next = 5
            /\ \/ new = Lost(old) \/ new = PassOver(old)
               \/ /\ seq[old.at] = old.s1 /\ new.s1 = old.s1
                  /\ new.copy = old.copy /\ new.versions = old.versions
      BY <2>6, CheckMoves
    <3>2. Lost(old).pc # "hit" /\ PassOver(old).pc # "hit"
      BY <2>0, <3>1, LostType, PassOverType
    <3>3. seq[old.at] = old.s1 /\ old.s1 # 0 => old.copy \in old.versions
      BY <3>1, CheckedIsWhole
    <3> QED BY <2>1, <3>1, <3>2, <3>3
  <2>7. CASE finish(r)
    <3>1. PICK new \in ReaderState :
            Moves(r, new) /\ ((old.at \in Slots /\ new = PassOver(old)) \/ new = Resting)
      BY <2>7, FinishMoves
    <3>2. Resting.pc # "hit" /\ (old.at \in Slots => PassOver(old).pc # "hit")
      BY <2>0, PassOverType DEF Resting
    <3> QED BY <2>1, <3>1, <3>2
  <2> QED BY <1>3, <2>2, <2>3, <2>4, <2>5, <2>6, <2>7 DEF ReaderStep
<1> QED BY <1>1, <1>2, <1>3, ReaderCounted DEF Next

-----------------------------------------------------------------------------
(***************************************************************************)
(* A destination that stays in the pool, step by step.                     *)
(***************************************************************************)
LEMMA IdentifiedStep == Typed /\ OneSlotEach /\ Identified /\ [Next]_vars => Identified'
<1> SUFFICES ASSUME Typed, OneSlotEach, Identified, [Next]_vars PROVE Identified'
  OBVIOUS
<1>1. CASE UNCHANGED <<rec, slot, clearing, fields>>
  BY <1>1 DEF Identified
<1>2. CASE recClear
  <2>1. slot \in Slots /\ slot' = slot /\ clearing \in 1 .. 6 /\ clearing' = clearing + 1
    BY <1>2 DEF recClear, Typed, TypeOK, Cleared
  <2>2. CASE clearing = 6
    <3>1. rec[slot].dest = NoDest /\ rec' = rec
      BY <1>2, <2>1, <2>2 DEF OneSlotEach, recClear, ClearOrder, Words, NoSlot, Slots, Cleared
    <3> QED BY <2>1, <3>1 DEF Identified
  <2>3. CASE clearing # 6
    BY <2>1, <2>3 DEF Identified, Cleared
  <2> QED BY <2>2, <2>3
<1>3. ASSUME NEW w \in DOMAIN fields, storeField(w) PROVE Identified'
  <2>1. /\ slot \in Slots /\ slot' = slot /\ w \in Words /\ clearing = Cleared
        /\ rec' = [rec EXCEPT ![slot][w] = fields[w]]
        /\ fields' = [v \in DOMAIN fields \ {w} |-> fields[v]]
        /\ rec[slot] \in Record /\ rec \in [Slots -> Record]
    BY <1>3 DEF storeField, Typed, TypeOK, IsStore
  <2>2. w # "dest" => rec'[slot].dest = rec[slot].dest
    BY <2>1 DEF Record, Words
  <2>3. "dest" \in DOMAIN fields' => /\ w # "dest" /\ "dest" \in DOMAIN fields
                                     /\ fields'["dest"] = fields["dest"]
    BY <2>1
  <2> QED BY <2>1, <2>2, <2>3 DEF Identified
<1>4. CASE writeEnd
  BY <1>4 DEF writeEnd, Identified
<1>5. ASSUME NEW s \in Slots, NEW f, rewrite(s, f), Keeps(s, f) PROVE Identified'
  BY <1>5 DEF rewrite, writeBegin, Keeps, Identified
<1>6. ASSUME NEW s \in Slots, NEW f, reuse(s, f) PROVE Identified'
  BY <1>6 DEF reuse, Identified, Cleared
<1>7. CASE Writer
  BY <1>2, <1>3, <1>4, <1>5, <1>6, <1>7, WriterShapes DEF Reuses
<1> QED BY <1>1, <1>7, ReadersLeavePool DEF Next, vars

(* A record that is there stays there, unless its slot is put to a new use.*)
LEMMA StaysKept ==
  ASSUME Typed, OneSlotEach, Identified, Writer, NEW s \in Slots, NEW d \in Dests,
         Stays(s, d), NEW r \in Readers, reader[r].asked = d, reader'[r].present
  PROVE  Stays(s, d)'
<1>0. rec \in [Slots -> Record] /\ rec[s] \in Record /\ NoDest \notin Dests
  BY PoolAssumption DEF Typed, TypeOK
<1>1. CASE recClear
  <2>1. slot' = slot /\ slot # s /\ rec'[s] = rec[s]
    BY <1>0, <1>1 DEF recClear, Stays
  <2> QED BY <2>1 DEF Stays
<1>2. ASSUME NEW w \in DOMAIN fields, storeField(w) PROVE Stays(s, d)'
  <2>1. /\ slot \in Slots /\ slot' = slot /\ w \in Words /\ clearing = Cleared
        /\ clearing' = clearing
        /\ rec' = [rec EXCEPT ![slot][w] = fields[w]]
        /\ fields' = [v \in DOMAIN fields \ {w} |-> fields[v]]
    BY <1>2 DEF storeField, Typed, TypeOK, IsStore
  <2>2. CASE slot # s
    BY <1>0, <2>1, <2>2 DEF Stays
  <2>3. CASE slot = s
    <3>1. rec'[s] = [rec[s] EXCEPT ![w] = fields[w]]
      BY <1>0, <2>1, <2>3
    <3>2. /\ rec'[s].flags = IF w = "flags" THEN fields[w] ELSE rec[s].flags
          /\ rec'[s].dest = IF w = "dest" THEN fields[w] ELSE rec[s].dest
      BY <1>0, <2>1, <3>1 DEF Record, Words
    <3>3. \A v \in DOMAIN fields' : v \in DOMAIN fields /\ fields'[v] = fields[v]
      BY <2>1
    <3> QED BY <2>1, <2>3, <3>2, <3>3 DEF Stays
  <2> QED BY <2>2, <2>3
<1>3. CASE writeEnd
  BY <1>0, <1>3 DEF writeEnd, Stays, NoSlot, Slots
<1>4. ASSUME NEW t \in Slots, NEW f, rewrite(t, f), Keeps(t, f) PROVE Stays(s, d)'
  <2>1. slot' = t /\ rec' = rec /\ fields' = f /\ clearing' = Cleared
    BY <1>4 DEF rewrite, writeBegin
  <2>2. "flags" \in DOMAIN f => f["flags"] = 1
    BY <1>4 DEF Keeps, IsStore, Kind
  <2> QED BY <1>4, <2>1, <2>2 DEF Stays, Keeps
<1>5. ASSUME NEW t \in Slots, NEW f, reuse(t, f) PROVE Stays(s, d)'
  <2>1. /\ slot' = t /\ rec' = rec
        /\ reader'[r].present => reader[r].asked # rec[t].dest
    BY <1>5, BeginSection DEF reuse, writeBegin
  <2> QED BY <2>1 DEF Stays
<1> QED BY <1>1, <1>2, <1>3, <1>4, <1>5, WriterShapes DEF Reuses

LEMMA WriterFound ==
  ASSUME Typed, OneSlotEach, Identified, AllFound, Writer
  PROVE  AllFound'
<1> SUFFICES ASSUME NEW r \in Readers, reader'[r].present PROVE Found(reader[r])'
  BY DEF AllFound, Found
<1>1. Fixed(reader'[r], reader[r])
  BY WriterLeavesReaders
<1>2. reader[r].present
  <2>1. CASE recClear \/ \E w \in DOMAIN fields : storeField(w)
    BY <2>1 DEF recClear, storeField
  <2>2. CASE writeEnd
    BY <2>2, EndSection
  <2>3. CASE \E s \in Slots : \E dropped : writeBegin(s, dropped)
    BY <2>3, BeginSection
  <2> QED BY <2>1, <2>2, <2>3, WriterShapes DEF Reuses, rewrite, reuse
<1>3. PICK s \in Slots : Stays(s, reader[r].asked) /\ Ahead(reader[r], s)
  BY <1>2 DEF AllFound, Found
<1>4. reader[r].asked \in Dests
  BY <1>2 DEF AllFound, Found
<1>5. PICK d \in Dests : d = reader[r].asked
  BY <1>4
<1>6. Stays(s, d)'
  BY <1>3, <1>5, StaysKept
<1>7. Stays(s, reader[r].asked)'
  BY <1>1, <1>5, <1>6 DEF Stays, Fixed
<1>8. Ahead(reader[r], s)'
  BY <1>1, <1>3 DEF Ahead, Fixed
<1> QED BY <1>1, <1>4, <1>7, <1>8 DEF Found, Fixed

LEMMA ReaderFound ==
  ASSUME Typed, OneSlotEach, Identified, AllFound, NEW r \in Readers,
         ReaderStep(r) \/ \E d \in Sought : begin(r, d)
  PROVE  AllFound'
<1> DEFINE old == reader[r]
<1>0. /\ old \in ReaderState /\ Found(old) /\ NoDest \notin Dests /\ AnyDest \notin Dests
      /\ \A s \in Slots : rec[s] \in Record /\ s \in Nat /\ s <= SlotCount
      /\ SlotCount \in Nat
  BY PoolAssumption DEF Typed, TypeOK, AllFound, Slots
<1>1. ASSUME NEW new \in ReaderState, Moves(r, new), Found(new) PROVE AllFound'
  BY <1>1 DEF AllFound, Moves, Found, Stays, Ahead
<1>2. ASSUME NEW new \in ReaderState, Moves(r, new), Same(new, old),
             NEW s \in Slots, old.present => Ahead(new, s),
             old.present => Stays(s, old.asked)
      PROVE  AllFound'
  <2>1. Found(new)
    BY <1>0, <1>2 DEF Found, Same
  <2> QED BY <1>1, <1>2, <2>1
<1>3. ASSUME NEW new \in ReaderState, Moves(r, new), ~ new.present PROVE AllFound'
  BY <1>1, <1>3 DEF Found
<1>4. CASE \E d \in Sought : begin(r, d)
  <2>1. PICK d \in Sought : begin(r, d)
    BY <1>4
  <2>2. PICK new \in ReaderState :
          /\ Moves(r, new) /\ new.pc = "scan" /\ new.at = 1
          /\ new.asked = d /\ new.present = Present(d)
    BY <2>1, BeginMoves
  <2>3. CASE ~ Present(d)
    BY <1>3, <2>2, <2>3
  <2>4. CASE Present(d)
    <3>1. PICK s \in Slots : /\ rec[s].flags = 1 /\ rec[s].dest = d
                             /\ slot = s => clearing = Cleared
      BY <2>4 DEF Present, Held, Used
    <3>2. d \in Dests
      BY <1>0, <3>1, PoolAssumption DEF Record
    <3>3. Stays(s, d)
      <4>1. ASSUME slot = s
            PROVE  /\ "dest" \in DOMAIN fields => fields["dest"] = d
                   /\ "flags" \in DOMAIN fields => fields["flags"] = 1
        <5>1. "dest" \in DOMAIN fields => fields["dest"] = d
          BY <1>0, <3>1, <3>2, <4>1 DEF Identified, NoSlot, Slots
        <5>2. "flags" \in DOMAIN fields => fields["flags"] = 1
          BY DEF Typed, IsStore, Kind
        <5> QED BY <5>1, <5>2
      <4> QED BY <3>1, <4>1 DEF Stays
    <3>4. Found(new)
      BY <2>2, <3>2, <3>3 DEF Found, Ahead, Slots
    <3> QED BY <1>1, <2>2, <3>4
  <2> QED BY <2>3, <2>4
<1>5. CASE ReaderStep(r) /\ old.present
  <2>1. /\ old.asked \in Dests
        /\ \E s \in Slots : Stays(s, old.asked) /\ Ahead(old, s)
    BY <1>0, <1>5 DEF Found
  <2>2. PICK s \in Slots : Stays(s, old.asked) /\ Ahead(old, s)
    BY <2>1
  <2>3. rec[s].flags = 1 /\ rec[s].dest = old.asked
    BY <2>2 DEF Stays
  <2>4. ASSUME NEW new, new = Lost(old), Moves(r, new), old.at = s,
               old.tries < RDIR_SEQ_TRIES
        PROVE  AllFound'
    <3>1. /\ new \in ReaderState /\ Same(new, old)
          /\ \/ new.pc = "load" /\ new.at = s
             \/ new.pc = "miss" /\ new.tries = RDIR_SEQ_TRIES
      BY <1>0, <2>1, <2>4, LostType DEF Same
    <3>2. Ahead(new, s)
      BY <3>1 DEF Ahead
    <3> QED BY <1>2, <2>2, <2>4, <3>1, <3>2
  <2>5. CASE scan(r)
    <3>1. PICK new \in ReaderState :
            /\ Moves(r, new) /\ Same(new, old) /\ old.pc = "scan"
            /\ \/ old.at > SlotCount /\ new.pc = "miss"
               \/ /\ old.at \in Slots /\ Matches(r, rec[old.at])
                  /\ new.pc = "load" /\ new.at = old.at
               \/ /\ old.at \in Slots /\ ~ Matches(r, rec[old.at])
                  /\ new.pc = "scan" /\ new.at = old.at + 1
      BY <2>5, ScanMoves
    <3>2. old.at <= s /\ old.at \in Nat
      BY <1>0, <2>2, <3>1 DEF Ahead, ReaderState
    <3>3. Matches(r, rec[s])
      BY <2>3 DEF Matches, me
    <3>4. old.at \in Slots /\ Matches(r, rec[old.at]) => old.at = s
      BY <1>0, <2>1, <2>3 DEF Matches, me, OneSlotEach
    <3>5. Ahead(new, s)
      BY <1>0, <3>1, <3>2, <3>3, <3>4 DEF Ahead
    <3> QED BY <1>2, <2>2, <3>1, <3>5
  <2>6. CASE load(r)
    <3>1. PICK new \in ReaderState :
            /\ Moves(r, new) /\ old.pc = "load" /\ old.tries < RDIR_SEQ_TRIES
            /\ \/ new = Lost(old)
               \/ /\ Same(new, old) /\ new.pc = "copy" /\ new.at = old.at
                  /\ new.next = 1
      BY <2>6, LoadMoves
    <3>2. old.at = s
      BY <2>2, <3>1 DEF Ahead
    <3>3. new.pc = "copy" /\ new.at = old.at /\ new.next = 1 => Ahead(new, s)
      BY <3>2 DEF Ahead
    <3> QED BY <1>2, <2>2, <2>4, <3>1, <3>2, <3>3
  <2>7. CASE copyWord(r)
    <3> DEFINE w == CopyOrder[old.next]
    <3>1. PICK new \in ReaderState :
            /\ Moves(r, new) /\ Same(new, old) /\ old.pc = "copy" /\ old.next \in 1 .. 4
            /\ new.pc = "copy" /\ new.at = old.at /\ new.next = old.next + 1
            /\ new.copy = [old.copy EXCEPT ![w] = rec[old.at][w]]
      BY <2>7, CopyMoves
    <3>2. old.at = s /\ old.copy \in Record
      BY <1>0, <2>2, <3>1 DEF Ahead, ReaderState
    <3>3. /\ new.copy.dest = IF old.next = 1 THEN rec[s].dest ELSE old.copy.dest
          /\ new.copy.flags = IF old.next = 3 THEN rec[s].flags ELSE old.copy.flags
      BY <3>1, <3>2 DEF Record, CopyOrder
    <3>4. Ahead(new, s)
      BY <2>2, <2>3, <3>1, <3>2, <3>3 DEF Ahead, Same
    <3> QED BY <1>2, <2>2, <3>1, <3>4
  <2>8. CASE check(r)
    <3>1. PICK new \in ReaderState :
            /\ Moves(r, new) /\ old.pc = "copy" /\ old.next = 5
            /\ old.tries < RDIR_SEQ_TRIES
            /\ \/ new = Lost(old)
               \/ Matches(r, old.copy) /\ Same(new, old) /\ new.pc = "hit"
               \/ ~ Matches(r, old.copy)
      BY <2>8, CheckMoves
    <3>2. old.at = s /\ Matches(r, old.copy)
      BY <2>2, <3>1 DEF Ahead, Matches, me
    <3>3. new.pc = "hit" => Ahead(new, s)
      BY DEF Ahead
    <3> QED BY <1>2, <2>2, <2>4, <3>1, <3>2, <3>3
  <2>9. CASE finish(r)
    <3>1. PICK new \in ReaderState :
            Moves(r, new) /\ (old.asked = AnyDest \/ new = Resting)
      BY <2>9, FinishMoves
    <3>2. ~ new.present
      BY <1>0, <2>1, <3>1 DEF Resting
    <3> QED BY <1>3, <3>1, <3>2
  <2> QED BY <1>5, <2>5, <2>6, <2>7, <2>8, <2>9 DEF ReaderStep
<1>6. CASE ReaderStep(r) /\ ~ old.present
  <2>1. ASSUME NEW new \in ReaderState, Moves(r, new), Same(new, old) PROVE AllFound'
    BY <1>3, <1>6, <2>1 DEF Same
  <2>2. CASE scan(r)
    BY <2>1, <2>2, ScanMoves
  <2>3. CASE load(r)
    <3>1. PICK new \in ReaderState :
            /\ Moves(r, new) /\ old.at \in Slots /\ old.tries < RDIR_SEQ_TRIES
            /\ new = Lost(old) \/ Same(new, old)
      BY <2>3, LoadMoves
    <3>2. Same(Lost(old), old)
      BY <1>0, <3>1, LostType DEF Same
    <3> QED BY <2>1, <3>1, <3>2
  <2>4. CASE copyWord(r)
    BY <2>1, <2>4, CopyMoves
  <2>5. CASE check(r)
    <3>1. PICK new \in ReaderState :
            /\ Moves(r, new) /\ old.at \in Slots /\ old.tries < RDIR_SEQ_TRIES
            /\ new = Lost(old) \/ new = PassOver(old) \/ Same(new, old)
      BY <2>5, CheckMoves
    <3>2. Same(Lost(old), old) /\ Same(PassOver(old), old)
      BY <1>0, <3>1, LostType, PassOverType DEF Same
    <3> QED BY <2>1, <3>1, <3>2
  <2>6. CASE finish(r)
    <3>1. PICK new \in ReaderState :
            Moves(r, new) /\ ((old.at \in Slots /\ new = PassOver(old)) \/ new = Resting)
      BY <2>6, FinishMoves
    <3>2. ~ Resting.present /\ (old.at \in Slots => Same(PassOver(old), old))
      BY <1>0, PassOverType DEF Resting, Same
    <3> QED BY <1>3, <2>1, <3>1, <3>2
  <2> QED BY <1>6, <2>2, <2>3, <2>4, <2>5, <2>6 DEF ReaderStep
<1> QED BY <1>4, <1>5, <1>6, <1>0 DEF ReaderState

LEMMA FoundStep ==
  Typed /\ OneSlotEach /\ Identified /\ AllFound /\ [Next]_vars => AllFound'
<1>1. AllFound /\ UNCHANGED vars => AllFound'
  BY DEF vars, AllFound, Found, Stays, Ahead
<1> QED BY <1>1, ReaderFound, WriterFound DEF Next

-----------------------------------------------------------------------------
(***************************************************************************)
(* The theorems.                                                           *)
(***************************************************************************)

(* The writer's program keeps the pool's words, the counters and the       *)
(* readers' local state within their types, and with that every slot index *)
(* in the pool (Directory.cpp, writeBegin to writeEnd, recCopy, dirLookup).*)
THEOREM PoolTypeCorrect == Spec => []TypeOK
<1>1. Init => Typed /\ OneSlotEach
  BY TypedInit, PoolInit
<1>2. Typed /\ OneSlotEach /\ [Next]_vars => Typed' /\ OneSlotEach'
  BY TypedStep, OneSlotEachStep
<1>3. Typed => TypeOK
  BY DEF Typed
<1> QED BY <1>1, <1>2, <1>3, PTL DEF Spec

(* dirAlloc, evictOneDir and the writers' dirFind keep one slot for a      *)
(* destination, through every eviction and reuse.                          *)
THEOREM OneSlotForEach == Spec => []OneSlotEach
<1>1. Init => Typed /\ OneSlotEach
  BY TypedInit, PoolInit
<1>2. Typed /\ OneSlotEach /\ [Next]_vars => Typed' /\ OneSlotEach'
  BY TypedStep, OneSlotEachStep
<1> QED BY <1>1, <1>2, PTL DEF Spec

(* recCopy: while a slot is opened fewer than SEQ_MODULUS / 2 times during *)
(* one copy of it, a copy between two equal, even counters that are not 0  *)
(* is one the writer completed, and the slot's last when the copy began.   *)
THEOREM CopiesWhole == ASSUME NoLap PROVE Spec => []NonZeroCopyIsWhole
<1> DEFINE Inv == Typed /\ OneSlotEach /\ Coherent /\ AllCounted /\ NonZeroCopyIsWhole
<1>1. Init => Inv
  BY TypedInit, PoolInit
<1>2. Inv /\ [Next]_vars => Inv'
  BY TypedStep, OneSlotEachStep, CoherentStep, WholeStep
<1>3. Inv => NonZeroCopyIsWhole
  OBVIOUS
<1> QED BY <1>1, <1>2, <1>3, PTL DEF Spec

(* dirLookup and its racy scan: who stays in the pool during a lookup is   *)
(* not found only if the reader lost RDIR_SEQ_TRIES races for its slot.    *)
THEOREM MissesAreRaces == Spec => []MissIsJustified
<1> DEFINE Inv == Typed /\ OneSlotEach /\ Identified /\ AllFound
<1>1. Init => Inv
  BY TypedInit, PoolInit DEF Init, Identified, AllFound, Found, Resting
<1>2. Inv /\ [Next]_vars => Inv'
  BY TypedStep, OneSlotEachStep, IdentifiedStep, FoundStep
<1>3. Inv => MissIsJustified
  BY DEF MissIsJustified, AllFound, Found, Ahead
<1> QED BY <1>1, <1>2, <1>3, PTL DEF Spec
=============================================================================
