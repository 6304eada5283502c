---------------------------- MODULE StoreProofs ----------------------------
(***************************************************************************)
(* The bounded event store implements the log that never forgets           *)
(* (StoreLifecycle refines EventLog), for every cap, bound and event set;  *)
(* its byte counter and its tail are bounded (TailWithinCap) and so is its *)
(* dedup window (DedupWindowSound).                                        *)
(***************************************************************************)
EXTENDS StoreLifecycle, MemoryStoreProofs, Integers

(***************************************************************************)
(* The write cursors never run ahead of the events persisted.              *)
(***************************************************************************)
CursorsBounded ==
    /\ store.nextSequence <= persisted
    /\ store.streamSeq <= persisted
    /\ snapshot # None => /\ snapshot.nextSequence <= persisted
                          /\ snapshot.streamSeq <= persisted

IInv == TypeOK /\ CursorsBounded

LEMMA PersistType ==
  ASSUME TypeOK, NEW e \in Inputs, NEW bytes \in ByteSizes, NEW seq \in Nat
  PROVE  /\ Persist(e, bytes, seq) \in PersistedEvent
         /\ Persist(e, bytes, seq).event = e
         /\ Persist(e, bytes, seq).sequence = seq
         /\ Persist(e, bytes, seq).hash = persisted + 1
<1>1. persisted + 1 \in Nat /\ ChainTip(store) \in Hash
  BY FullTypes, BoundAssumption DEF TypeOK, SnapshotOf, SnapshotType
<1> QED BY <1>1, InputAssumption DEF Persist, PersistedEvent

(***************************************************************************)
(* The view of the store after one more event e, numbered seq: what the    *)
(* two writers do once eviction has been shown invisible.                  *)
(***************************************************************************)
ViewExtended(e, seq, next, strm) ==
    /\ store' \in StoreType
    /\ FullMarking(store)' = ApplyEvent(FullMarking(store), e)
    /\ FullDedup(store)' =
          Remember(FullDedup(store), [event |-> e, sequence |-> seq])
    /\ ChainTip(store)' = persisted + 1
    /\ StoreLen(store)' = StoreLen(store) + 1
    /\ (store.nextSequence)' = next
    /\ (store.streamSeq)' = strm

\* Remember looks at an event and its number only.
LEMMA RememberReads ==
  ASSUME NEW ring, NEW pe, NEW e, NEW seq, pe.event = e, pe.sequence = seq
  PROVE  Remember(ring, pe) = Remember(ring, [event |-> e, sequence |-> seq])
BY DEF Remember

LEMMA AppendLiveView ==
  ASSUME IInv, NEW e \in Inputs, NEW bytes \in ByteSizes, AppendLive(e, bytes)
  PROVE  ViewExtended(e, store.nextSequence, store.nextSequence + 1, store.streamSeq)
<1> DEFINE pe == Persist(e, bytes, store.nextSequence)
           k  == [store EXCEPT !.nextSequence = store.nextSequence + 1,
                               !.streamSeq = store.streamSeq]
<1>1. store \in StoreType /\ store.nextSequence \in Nat /\ store.streamSeq \in Nat
  BY DEF IInv, TypeOK, StoreType
<1>2. pe \in PersistedEvent /\ pe.event = e /\ pe.sequence = store.nextSequence
      /\ pe.hash = persisted + 1
  BY <1>1, PersistType DEF IInv
<1>3. store' = PushTail(k, pe)
  <2>1. [store EXCEPT !.nextSequence = @ + 1] = k
    BY <1>1 DEF StoreType
  <2> QED BY <2>1 DEF AppendLive, AppendTo
<1>4. /\ k \in StoreType
      /\ FullMarking(k) = FullMarking(store)
      /\ FullDedup(k) = FullDedup(store)
      /\ StoreLen(k) = StoreLen(store)
      /\ k.nextSequence = store.nextSequence + 1
      /\ k.streamSeq = store.streamSeq
  <2> DEFINE n == store.nextSequence + 1
             s == store.streamSeq
  <2>1. n \in Nat /\ s \in Nat
    BY <1>1
  <2>2. k = [store EXCEPT !.nextSequence = n, !.streamSeq = s]
    OBVIOUS
  <2>3. n = store.nextSequence + 1 /\ s = store.streamSeq
    OBVIOUS
  <2> HIDE DEF k, n, s
  <2> QED BY <1>1, <2>1, <2>2, <2>3 DEF StoreType, FullMarking, FullDedup, StoreLen
<1> HIDE DEF pe, k
<1>5. Remember(FullDedup(store), pe) =
        Remember(FullDedup(store), [event |-> e, sequence |-> store.nextSequence])
  BY <1>2, RememberReads
<1> QED BY ZenonT(60), <1>2, <1>3, <1>4, <1>5, PushTailExtends DEF ViewExtended, SnapshotOf

LEMMA LoadExistingView ==
  ASSUME IInv, NEW e \in Inputs, NEW bytes \in ByteSizes, NEW seq \in Nat,
         NEW strm \in Nat, LoadExisting(e, bytes, seq, strm)
  PROVE  ViewExtended(e, seq, Larger(store.nextSequence, seq + 1),
                      Larger(store.streamSeq, strm))
<1> DEFINE pe == Persist(e, bytes, seq)
           next == Larger(store.nextSequence, seq + 1)
           pos  == Larger(store.streamSeq, strm)
           k  == [store EXCEPT !.nextSequence = next, !.streamSeq = pos]
<1>1. store \in StoreType /\ next \in Nat /\ pos \in Nat
  BY DEF IInv, TypeOK, StoreType, Larger
<1>2. pe \in PersistedEvent /\ pe.event = e /\ pe.sequence = seq
      /\ pe.hash = persisted + 1
  BY PersistType DEF IInv
<1>3. store' = PushTail(k, pe)
  BY <1>1, <1>2 DEF LoadExisting, LoadInto, StoreType
<1>4. /\ k \in StoreType
      /\ FullMarking(k) = FullMarking(store)
      /\ FullDedup(k) = FullDedup(store)
      /\ StoreLen(k) = StoreLen(store)
      /\ k.nextSequence = next
      /\ k.streamSeq = pos
  <2>1. k = [store EXCEPT !.nextSequence = next, !.streamSeq = pos]
    OBVIOUS
  <2> HIDE DEF k, next, pos
  <2> QED BY <1>1, <2>1 DEF StoreType, FullMarking, FullDedup, StoreLen
<1> HIDE DEF pe, k
<1>5. Remember(FullDedup(store), pe) =
        Remember(FullDedup(store), [event |-> e, sequence |-> seq])
  BY <1>2, RememberReads
<1> QED BY ZenonT(60), <1>2, <1>3, <1>4, <1>5, PushTailExtends DEF ViewExtended, SnapshotOf

LEMMA InitIInv == Init => IInv
BY EmptyStoreType, BoundAssumption DEF Init, IInv, TypeOK, CursorsBounded, EmptyStore

LEMMA NextIInv == IInv /\ [Next]_vars => IInv'
<1> SUFFICES ASSUME IInv, [Next]_vars PROVE IInv'
  OBVIOUS
<1> USE BoundAssumption
<1>0. /\ store \in StoreType /\ store.nextSequence \in Nat /\ store.streamSeq \in Nat
      /\ persisted \in Nat /\ persisted <= MaxEvents
      /\ snapshot \in SnapshotType \cup {None}
  BY DEF IInv, TypeOK, StoreType
<1>1. ASSUME NEW e \in Inputs, NEW bytes \in ByteSizes, AppendLive(e, bytes) PROVE IInv'
  <2>1. /\ store' \in StoreType
        /\ store'.nextSequence = store.nextSequence + 1
        /\ store'.streamSeq = store.streamSeq
    BY <1>1, AppendLiveView DEF ViewExtended
  <2>3. persisted' = persisted + 1 /\ persisted' \in 0..MaxEvents /\ snapshot' = snapshot
    BY <1>0, <1>1 DEF AppendLive
  <2>4. ASSUME snapshot # None
        PROVE snapshot.nextSequence \in Nat /\ snapshot.streamSeq \in Nat
    BY <1>0, <2>4 DEF SnapshotType
  <2> QED BY <1>0, <2>1, <2>3, <2>4 DEF IInv, TypeOK, CursorsBounded
<1>2. ASSUME NEW e \in Inputs, NEW bytes \in ByteSizes, NEW seq \in 0..persisted,
             NEW strm \in 1..(persisted + 1), LoadExisting(e, bytes, seq, strm)
      PROVE  IInv'
  <2>0. seq \in Nat /\ strm \in Nat
    BY <1>0
  <2>1. /\ store' \in StoreType
        /\ store'.nextSequence = Larger(store.nextSequence, seq + 1)
        /\ store'.streamSeq = Larger(store.streamSeq, strm)
    BY <1>2, <2>0, LoadExistingView DEF ViewExtended
  <2>3. persisted' = persisted + 1 /\ persisted' \in 0..MaxEvents /\ snapshot' = snapshot
    BY <1>0, <1>2 DEF LoadExisting
  <2>4. ASSUME snapshot # None
        PROVE snapshot.nextSequence \in Nat /\ snapshot.streamSeq \in Nat
    BY <1>0, <2>4 DEF SnapshotType
  <2>5. store'.nextSequence <= persisted' /\ store'.streamSeq <= persisted'
    BY <1>0, <2>0, <2>1, <2>3 DEF IInv, CursorsBounded, Larger
  <2> QED BY <1>0, <2>1, <2>3, <2>4, <2>5 DEF IInv, TypeOK, CursorsBounded
<1>3. CASE Reset
  BY <1>0, <1>3, EmptyStoreType DEF Reset, IInv, TypeOK, CursorsBounded, EmptyStore
<1>4. CASE Hibernate
  <2>1. SnapshotOf(store) \in SnapshotType
    BY <1>0, FullTypes
  <2>2. snapshot'.nextSequence = store.nextSequence /\ snapshot'.streamSeq = store.streamSeq
    BY <1>4 DEF Hibernate, SnapshotOf
  <2> QED BY <1>0, <1>4, <2>1, <2>2 DEF Hibernate, IInv, TypeOK, CursorsBounded
<1>5. CASE Wake
  <2>1. snapshot \in SnapshotType /\ snapshot.dedup \in Seq(RingEntry)
    BY <1>0, <1>5 DEF Wake, SnapshotType
  <2>2. PICK ring \in Reorderings(snapshot.dedup) : store' = SeededFrom(snapshot, ring)
    BY <1>5 DEF Wake
  <2>3. ring \in Seq(RingEntry)
    BY <2>1, ReorderingsType
  <2>4. store' \in StoreType
    BY <2>1, <2>2, <2>3, SeededType
  <2>5. store'.nextSequence = snapshot.nextSequence /\ store'.streamSeq = snapshot.streamSeq
    BY <2>2 DEF SeededFrom, EmptyStore
  <2> QED BY <1>0, <1>5, <2>1, <2>4, <2>5 DEF Wake, IInv, TypeOK, CursorsBounded
<1>6. CASE UNCHANGED vars
  BY <1>6 DEF vars, IInv, TypeOK, CursorsBounded
<1> QED BY <1>1, <1>2, <1>3, <1>4, <1>5, <1>6 DEF Next

(***************************************************************************)
(* Type correctness of the store's life, for every instance.               *)
(***************************************************************************)
THEOREM StoreTypeCorrect == Spec => []TypeOK
<1>1. IInv => TypeOK
  BY DEF IInv
<1> QED BY <1>1, InitIInv, NextIInv, PTL DEF Spec

-----------------------------------------------------------------------------
(***************************************************************************)
(* One event more in the bounded store is one event more in the log.       *)
(***************************************************************************)
LEMMA ExtendStep ==
  ASSUME IInv, persisted < MaxEvents, NEW e \in Inputs,
         NEW seq \in 0..persisted, NEW strm \in 0..MaxEvents,
         ViewExtended(e, seq, Larger(store.nextSequence, seq + 1),
                      Larger(store.streamSeq, strm)),
         snapshot' = snapshot
  PROVE  Log!Extend
<1>1. seq \in 0..MaxEvents /\ persisted + 1 \in 1..MaxEvents
  BY BoundAssumption DEF IInv, TypeOK
<1>2. \E s \in 0..MaxEvents :
         (store.streamSeq)' = Log!Larger(store.streamSeq, s)
  BY DEF ViewExtended, Larger, Log!Larger
<1>3. \E s \in 0..MaxEvents :
         /\ (store.nextSequence)' = Log!Larger(store.nextSequence, s + 1)
         /\ \E x \in Inputs :
               /\ FullMarking(store)' = ApplyEvent(FullMarking(store), x)
               /\ FullDedup(store)' =
                     Remember(FullDedup(store), [event |-> x, sequence |-> s])
  BY <1>1 DEF ViewExtended, Larger, Log!Larger
<1> QED BY <1>1, <1>2, <1>3 DEF ViewExtended, Log!Extend

(***************************************************************************)
(* Every step of the bounded store is a step of the log that never         *)
(* forgets, or no step of it at all.                                       *)
(***************************************************************************)
LEMMA StepImplementsLog == IInv /\ [Next]_vars => [Log!LNext]_<<Log!view, snapshot>>
<1> SUFFICES ASSUME IInv, [Next]_vars PROVE [Log!LNext]_<<Log!view, snapshot>>
  OBVIOUS
<1>0. /\ store \in StoreType /\ store.nextSequence \in Nat /\ store.streamSeq \in Nat
      /\ persisted \in Nat /\ persisted <= MaxEvents /\ store.nextSequence <= persisted
      /\ snapshot \in SnapshotType \cup {None}
  BY BoundAssumption DEF IInv, TypeOK, StoreType, CursorsBounded
<1>1. ASSUME NEW e \in Inputs, NEW bytes \in ByteSizes, AppendLive(e, bytes)
      PROVE  Log!Extend
  <2>1. ViewExtended(e, store.nextSequence, store.nextSequence + 1, store.streamSeq)
    BY <1>1, AppendLiveView
  <2>2. /\ Larger(store.nextSequence, store.nextSequence + 1) = store.nextSequence + 1
        /\ Larger(store.streamSeq, 0) = store.streamSeq
        /\ store.nextSequence \in 0..persisted /\ 0 \in 0..MaxEvents
    BY <1>0, BoundAssumption DEF Larger
  <2>3. persisted < MaxEvents /\ snapshot' = snapshot
    BY <1>1 DEF AppendLive
  <2> QED BY <2>1, <2>2, <2>3, ExtendStep
<1>2. ASSUME NEW e \in Inputs, NEW bytes \in ByteSizes, NEW seq \in 0..persisted,
             NEW strm \in 1..(persisted + 1), LoadExisting(e, bytes, seq, strm)
      PROVE  Log!Extend
  <2>1. persisted < MaxEvents /\ snapshot' = snapshot
    BY <1>2 DEF LoadExisting
  <2>2. seq \in Nat /\ strm \in Nat /\ strm \in 0..MaxEvents
    BY <1>0, <2>1, BoundAssumption
  <2>3. ViewExtended(e, seq, Larger(store.nextSequence, seq + 1),
                     Larger(store.streamSeq, strm))
    BY <1>2, <2>2, LoadExistingView
  <2> QED BY <2>1, <2>2, <2>3, ExtendStep
<1>3. CASE Reset
  <2>1. Log!Forget
    BY <1>3, EmptyView DEF Reset, Log!Forget, Log!Empty
  <2> QED BY <2>1 DEF Log!LNext
<1>4. CASE Hibernate
  <2>1. Log!Save
    BY <1>4 DEF Hibernate, SnapshotOf, Log!Save, Log!view
  <2> QED BY <2>1 DEF Log!LNext
<1>5. CASE Wake
  <2>1. snapshot \in SnapshotType /\ snapshot.dedup \in Seq(RingEntry) /\ snapshot # None
    BY <1>0, <1>5 DEF Wake, SnapshotType
  <2>2. PICK ring \in Reorderings(snapshot.dedup) : store' = SeededFrom(snapshot, ring)
    BY <1>5 DEF Wake
  <2>3. ring \in Seq(RingEntry)
    BY <2>1, ReorderingsType
  <2>4. SnapshotOf(store') = [snapshot EXCEPT !.dedup = ring]
    BY <2>1, <2>2, <2>3, SeededType
  <2>5. /\ FullMarking(store') = snapshot.marking
        /\ FullDedup(store') = ring
        /\ ChainTip(store') = snapshot.lastHash
        /\ StoreLen(store') = snapshot.eventCount
        /\ store'.nextSequence = snapshot.nextSequence
        /\ store'.streamSeq = snapshot.streamSeq
    BY <2>1, <2>4 DEF SnapshotOf, SnapshotType
  <2>6. Log!Restore
    BY <1>5, <2>1, <2>2, <2>5 DEF Wake, Log!Restore
  <2> QED BY <2>6 DEF Log!LNext
<1>6. CASE UNCHANGED vars
  BY <1>6 DEF vars, Log!view, FullMarking, FullDedup, ChainTip, StoreLen
<1> QED BY <1>1, <1>2, <1>3, <1>4, <1>5, <1>6 DEF Next, Log!LNext

(***************************************************************************)
(* The memory-bounded store, with eviction, hibernation and reseeding,     *)
(* implements the log that keeps every event.                              *)
(***************************************************************************)
THEOREM StoreImplementsLog == Spec => ImplementsLog
<1>1. Init => Log!LInit
  BY EmptyView DEF Init, Log!LInit, Log!Empty
<1> QED BY <1>1, InitIInv, NextIInv, StepImplementsLog, PTL DEF Spec, ImplementsLog, Log!LSpec

-----------------------------------------------------------------------------
(***************************************************************************)
(* The bounds: the ring of the dedup window, the byte counter and the      *)
(* tail.                                                                   *)
(***************************************************************************)
\* The dedup window of a ring: what DedupWindowSound says of the store's.
WindowSound(ring) ==
    /\ Len(ring) <= RingCap
    /\ \A i, j \in DOMAIN ring :
          ring[i].place = ring[j].place /\ ring[i].dedup = ring[j].dedup => i = j

LEMMA EmptyWindow == WindowSound(<< >>)
<1>1. RingCap \in Nat
  BY CapAssumption DEF RingCap
<1>2. Len(<< >>) = 0 /\ DOMAIN << >> = {}
  OBVIOUS
<1> QED BY <1>1, <1>2 DEF WindowSound

(***************************************************************************)
(* BoundedDedup::insert keeps the window: a present key is replaced in its *)
(* place, a new one evicts the front when the ring is full.                *)
(***************************************************************************)
LEMMA RingInsertSound ==
  ASSUME NEW ring \in Seq(RingEntry), NEW entry \in RingEntry, WindowSound(ring)
  PROVE  WindowSound(RingInsert(ring, entry))
<1>0. RingCap \in Nat /\ RingCap >= 1
  BY CapAssumption DEF RingCap
<1>1. Len(ring) \in Nat /\ DOMAIN ring = 1..Len(ring) /\ Len(ring) <= RingCap
  BY DEF WindowSound
<1>2. CASE <<entry.place, entry.dedup>> \in RingKeys(ring)
  <2> DEFINE swap == [i \in DOMAIN ring |->
                        IF ring[i].place = entry.place /\ ring[i].dedup = entry.dedup
                        THEN entry ELSE ring[i]]
  <2>1. RingInsert(ring, entry) = swap
    BY <1>2 DEF RingInsert
  <2>2. /\ DOMAIN swap = DOMAIN ring
        /\ \A i \in DOMAIN ring : /\ swap[i].place = ring[i].place
                                  /\ swap[i].dedup = ring[i].dedup
    OBVIOUS
  <2>3. Len(swap) = Len(ring)
    <3>1. swap \in Seq(RingEntry)
      BY <2>1, RingInsertType
    <3> HIDE DEF swap
    <3> QED BY <1>1, <2>2, <3>1
  <2> HIDE DEF swap
  <2> QED BY <1>1, <2>1, <2>2, <2>3 DEF WindowSound
<1>3. ASSUME NEW old \in Seq(RingEntry), WindowSound(old), Len(old) < RingCap,
             \A i \in DOMAIN old :
                ~(old[i].place = entry.place /\ old[i].dedup = entry.dedup)
      PROVE  WindowSound(Append(old, entry))
  <2> DEFINE new == Append(old, entry)
             n   == Len(old)
  <2>1. /\ n \in Nat /\ DOMAIN old = 1..n
        /\ new \in Seq(RingEntry) /\ Len(new) = n + 1 /\ DOMAIN new = 1..(n + 1)
        /\ new[n + 1] = entry
        /\ \A i \in 1..n : new[i] = old[i]
    OBVIOUS
  <2>2. n < RingCap
    BY <1>3
  <2> HIDE DEF new, n
  <2>3. Len(new) <= RingCap
    BY <1>0, <2>1, <2>2
  <2>4. ASSUME NEW i \in 1..(n + 1), NEW j \in 1..(n + 1),
               new[i].place = new[j].place, new[i].dedup = new[j].dedup
        PROVE  i = j
    <3>1. (i \in 1..n \/ i = n + 1) /\ (j \in 1..n \/ j = n + 1)
      BY <2>1
    <3>2. CASE i \in 1..n /\ j \in 1..n
      BY <1>3, <2>1, <2>4, <3>2 DEF WindowSound
    <3>3. CASE i \in 1..n /\ j = n + 1
      BY <1>3, <2>1, <2>4, <3>3
    <3>4. CASE i = n + 1 /\ j \in 1..n
      BY <1>3, <2>1, <2>4, <3>4
    <3> QED BY <3>1, <3>2, <3>3, <3>4
  <2> QED BY <2>1, <2>3, <2>4 DEF WindowSound, new
<1>4. CASE <<entry.place, entry.dedup>> \notin RingKeys(ring)
  <2>1. \A i \in DOMAIN ring : ~(ring[i].place = entry.place /\ ring[i].dedup = entry.dedup)
    BY <1>4 DEF RingKeys
  <2>2. CASE Len(ring) >= RingCap
    <3> DEFINE rest == Tail(ring)
    <3>1. ring # << >>
      BY <1>0, <2>2
    <3>2. /\ rest \in Seq(RingEntry) /\ Len(rest) = Len(ring) - 1
          /\ DOMAIN rest = 1..(Len(ring) - 1)
          /\ \A i \in 1..(Len(ring) - 1) : rest[i] = ring[i + 1]
      BY <3>1
    <3> HIDE DEF rest
    <3>3. \A i \in 1..(Len(ring) - 1) : i + 1 \in DOMAIN ring
      BY <1>1
    <3>4. WindowSound(rest)
      <4>1. Len(rest) <= RingCap
        BY <1>0, <1>1, <3>2
      <4>2. ASSUME NEW i \in DOMAIN rest, NEW j \in DOMAIN rest,
                   rest[i].place = rest[j].place, rest[i].dedup = rest[j].dedup
            PROVE  i = j
        <5>1. i + 1 = j + 1
          BY SMTT(30), <3>2, <3>3, <4>2 DEF WindowSound
        <5>2. i \in Nat /\ j \in Nat
          BY <1>1, <3>2
        <5> QED BY <5>1, <5>2
      <4> QED BY <4>1, <4>2 DEF WindowSound
    <3>5. Len(rest) < RingCap
      BY <1>0, <1>1, <3>2
    <3>6. \A i \in DOMAIN rest : ~(rest[i].place = entry.place /\ rest[i].dedup = entry.dedup)
      BY <2>1, <3>2, <3>3
    <3>7. RingInsert(ring, entry) = Append(rest, entry)
      BY <1>4, <2>2 DEF RingInsert, rest
    <3> QED BY <1>3, <3>2, <3>4, <3>5, <3>6, <3>7
  <2>3. CASE ~(Len(ring) >= RingCap)
    <3>1. Len(ring) < RingCap
      BY <1>0, <1>1, <2>3
    <3>2. RingInsert(ring, entry) = Append(ring, entry)
      BY <1>4, <2>3 DEF RingInsert
    <3> QED BY <1>3, <2>1, <3>1, <3>2
  <2> QED BY <2>2, <2>3
<1> QED BY <1>2, <1>4

LEMMA RememberSound ==
  ASSUME NEW ring \in Seq(RingEntry), NEW pe, pe.event \in DomainEvent,
         pe.sequence \in Nat, WindowSound(ring)
  PROVE  WindowSound(Remember(ring, pe))
<1>1. CASE pe.event.kind = "TokenCreated" /\ pe.event.dedup # NoDedup
  <2>1. pe.event \in TokenCreatedEvent
    BY <1>1 DEF DomainEvent, FiringEvent, FiringKind, TokenGoneEvent, TokenUpdatedEvent,
                EffectFailedEvent, AuditEvent
  <2>2. [place |-> pe.event.place, dedup |-> pe.event.dedup,
         sequence |-> pe.sequence] \in RingEntry
    BY <1>1, <2>1 DEF TokenCreatedEvent, RingEntry
  <2> QED BY <1>1, <2>2, RingInsertSound DEF Remember
<1>2. CASE ~(pe.event.kind = "TokenCreated" /\ pe.event.dedup # NoDedup)
  BY <1>2 DEF Remember
<1> QED BY <1>1, <1>2

(***************************************************************************)
(* The HashMap order of a snapshot loses no key and repeats none.          *)
(***************************************************************************)
LEMMA ReorderingSound ==
  ASSUME NEW ring \in Seq(RingEntry), NEW other \in Reorderings(ring), WindowSound(ring)
  PROVE  WindowSound(other)
<1>1. PICK q \in [DOMAIN ring -> DOMAIN ring] :
         /\ other = [i \in DOMAIN ring |-> ring[q[i]]]
         /\ \A i, j \in DOMAIN ring : i # j => q[i] # q[j]
  BY DEF Reorderings
<1>2. other \in Seq(RingEntry) /\ DOMAIN other = DOMAIN ring
  BY <1>1, ReorderingsType
<1>3. Len(other) = Len(ring)
  BY <1>2
<1>4. ASSUME NEW i \in DOMAIN ring, NEW j \in DOMAIN ring,
             other[i].place = other[j].place, other[i].dedup = other[j].dedup
      PROVE  i = j
  <2>1. q[i] = q[j]
    BY <1>1, <1>4 DEF WindowSound
  <2> QED BY <1>1, <2>1
<1> QED BY <1>2, <1>3, <1>4 DEF WindowSound

-----------------------------------------------------------------------------
(***************************************************************************)
(* The window of the snapshot has to be carried along: a wake makes it the *)
(* store's.                                                                *)
(***************************************************************************)
WInv ==
    /\ WindowSound(FullDedup(store))
    /\ snapshot # None => WindowSound(snapshot.dedup)

LEMMA InitWInv == Init => WInv
<1> SUFFICES ASSUME Init PROVE WInv
  OBVIOUS
<1>1. FullDedup(store) = << >> /\ snapshot = None
  BY EmptyView DEF Init
<1> QED BY <1>1, EmptyWindow DEF WInv

LEMMA NextWInv == IInv /\ WInv /\ [Next]_vars => WInv'
<1> SUFFICES ASSUME IInv, WInv, [Next]_vars PROVE WInv'
  OBVIOUS
<1>0. /\ store \in StoreType /\ store.nextSequence \in Nat
      /\ persisted \in Nat /\ snapshot \in SnapshotType \cup {None}
      /\ FullDedup(store) \in Seq(RingEntry)
  BY FullTypes, BoundAssumption DEF IInv, TypeOK, StoreType, SnapshotOf, SnapshotType
<1>1. ASSUME NEW e \in Inputs, NEW seq \in Nat, NEW next, NEW strm,
             ViewExtended(e, seq, next, strm), snapshot' = snapshot
      PROVE  WInv'
  <2> DEFINE pe == [event |-> e, sequence |-> seq]
  <2>1. pe.event \in DomainEvent /\ pe.sequence \in Nat
    BY InputAssumption
  <2>2. FullDedup(store)' = Remember(FullDedup(store), pe)
    BY <1>1 DEF ViewExtended
  <2> HIDE DEF pe
  <2>3. WindowSound(Remember(FullDedup(store), pe))
    BY <1>0, <2>1, RememberSound DEF WInv
  <2> QED BY <1>1, <2>2, <2>3 DEF WInv
<1>2. ASSUME NEW e \in Inputs, NEW bytes \in ByteSizes, AppendLive(e, bytes) PROVE WInv'
  <2>1. ViewExtended(e, store.nextSequence, store.nextSequence + 1, store.streamSeq)
    BY <1>2, AppendLiveView
  <2>2. snapshot' = snapshot
    BY <1>2 DEF AppendLive
  <2> QED BY <1>0, <1>1, <2>1, <2>2
<1>3. ASSUME NEW e \in Inputs, NEW bytes \in ByteSizes, NEW seq \in 0..persisted,
             NEW strm \in 1..(persisted + 1), LoadExisting(e, bytes, seq, strm)
      PROVE  WInv'
  <2>1. seq \in Nat /\ strm \in Nat
    BY <1>0
  <2>2. ViewExtended(e, seq, Larger(store.nextSequence, seq + 1),
                     Larger(store.streamSeq, strm))
    BY <1>3, <2>1, LoadExistingView
  <2>3. snapshot' = snapshot
    BY <1>3 DEF LoadExisting
  <2> QED BY <1>1, <2>1, <2>2, <2>3
<1>4. CASE Reset
  <2>1. FullDedup(store)' = << >> /\ snapshot' = snapshot
    BY <1>4, EmptyView DEF Reset
  <2> QED BY <2>1, EmptyWindow DEF WInv
<1>5. CASE Hibernate
  <2>1. snapshot'.dedup = FullDedup(store) /\ store' = store
    BY <1>5 DEF Hibernate, SnapshotOf
  <2> QED BY <2>1 DEF WInv
<1>6. CASE Wake
  <2>1. snapshot \in SnapshotType /\ snapshot.dedup \in Seq(RingEntry) /\ snapshot # None
        /\ snapshot' = snapshot
    BY <1>0, <1>6 DEF Wake, SnapshotType
  <2>2. PICK ring \in Reorderings(snapshot.dedup) : store' = SeededFrom(snapshot, ring)
    BY <1>6 DEF Wake
  <2>3. ring \in Seq(RingEntry)
    BY <2>1, ReorderingsType
  <2>4. FullDedup(store') = ring
    <3>1. SnapshotOf(store') = [snapshot EXCEPT !.dedup = ring]
      BY <2>1, <2>2, <2>3, SeededType
    <3> QED BY <2>1, <3>1 DEF SnapshotOf, SnapshotType
  <2>5. WindowSound(ring)
    BY <2>1, ReorderingSound DEF WInv
  <2> QED BY <2>1, <2>4, <2>5 DEF WInv
<1>7. CASE UNCHANGED vars
  BY <1>7 DEF vars, WInv
<1> QED BY <1>2, <1>3, <1>4, <1>5, <1>6, <1>7 DEF Next

(***************************************************************************)
(* Through evictions into the base, snapshots and reseeding in any order,  *)
(* the dedup ring stays a window of distinct keys no longer than its cap.  *)
(***************************************************************************)
THEOREM DedupWindowAlwaysSound == Spec => []DedupWindowSound
<1>1. WInv => DedupWindowSound
  BY DEF WInv, WindowSound, DedupWindowSound
<1> QED BY <1>1, InitIInv, NextIInv, InitWInv, NextWInv, PTL DEF Spec

-----------------------------------------------------------------------------
ByteStep(events) == [a \in (1..Len(events)) \X Int |-> a[2] + events[a[1]].bytes]

(***************************************************************************)
(* The size of a run of events is a run of additions.                      *)
(***************************************************************************)
LEMMA TailBytesRun ==
  ASSUME NEW events \in Seq(PersistedEvent)
  PROVE  \E h : /\ IsRun(h, Int, 0, Len(events), ByteStep(events))
                /\ TailBytes(events) = h[Len(events)]
<1> DEFINE n == Len(events)
           Step(x, i) == x + events[i].bytes
           Unfold(f) == [i \in 0..n |-> IF i = 0 THEN 0 ELSE Step(f[i - 1], i)]
           F == CHOOSE f : f = Unfold(f)
<1>1. n \in Nat /\ \A i \in 1..n : events[i] \in PersistedEvent
  OBVIOUS
<1>2. ASSUME NEW x \in Int, NEW i \in 1..n PROVE Step(x, i) \in Int
  <2>1. events[i].bytes \in Nat
    BY <1>1, SizesAreNumbers
  <2> QED BY <2>1
<1>3. ByteStep(events) = [a \in (1..n) \X Int |-> Step(a[2], a[1])]
  BY DEF ByteStep
<1> HIDE DEF Step, n
<1>4. ByteStep(events) \in [(1..n) \X Int -> Int]
  BY <1>1, <1>2, <1>3
<1>5. PICK h : IsRun(h, Int, 0, n, ByteStep(events))
  <2>1. 0 \in Int
    OBVIOUS
  <2> QED BY <1>1, <1>4, <2>1, RunExists
<1>6. ASSUME NEW i \in 1..n PROVE i - 1 \in 0..n /\ h[i] = Step(h[i - 1], i)
  <2>1. i - 1 \in 0..n
    BY <1>1
  <2>2. h[i - 1] \in Int /\ h[i] = ByteStep(events)[<<i, h[i - 1]>>]
    BY <1>5, <2>1 DEF IsRun
  <2>3. <<i, h[i - 1]>> \in (1..n) \X Int
    BY <2>2
  <2> QED BY <1>3, <2>1, <2>2, <2>3
<1>7. h = Unfold(h)
  BY <1>1, <1>5, <1>6 DEF IsRun
<1>8. F = Unfold(F)
  <2> HIDE DEF Unfold
  <2> QED BY <1>7
<1>9. \A i \in 0..n : F[i] = h[i]
  <2> DEFINE S == {i \in 0..n : F[i] = h[i]}
  <2> HIDE DEF F
  <2>1. 0 \in S
    BY <1>1, <1>5, <1>8 DEF IsRun
  <2>2. ASSUME NEW i \in S, i < n PROVE i + 1 \in S
    <3>1. i + 1 \in 1..n /\ i + 1 \in 0..n /\ (i + 1) - 1 = i /\ i + 1 # 0
      BY <1>1, <2>2
    <3>2. F[i + 1] = Step(F[i], i + 1)
      BY <3>1, <1>8
    <3>3. h[i + 1] = Step(h[i], i + 1)
      BY <3>1, <1>6
    <3> QED BY <3>1, <3>2, <3>3
  <2>3. S \subseteq 0..n
    OBVIOUS
  <2> HIDE DEF S
  <2>4. S = 0..n
    BY <1>1, <2>1, <2>2, <2>3, IntervalInduction
  <2> QED BY <2>4 DEF S
<1>10. TailBytes(events) = F[n]
  BY DEF TailBytes, n, Step
<1>11. n \in 0..n
  BY <1>1
<1> HIDE DEF F
<1> QED BY <1>5, <1>9, <1>10, <1>11 DEF n

LEMMA TailBytesIs ==
  ASSUME NEW events \in Seq(PersistedEvent),
         NEW h, IsRun(h, Int, 0, Len(events), ByteStep(events))
  PROVE  TailBytes(events) = h[Len(events)]
<1>1. PICK k : /\ IsRun(k, Int, 0, Len(events), ByteStep(events))
              /\ TailBytes(events) = k[Len(events)]
  BY TailBytesRun
<1>2. Len(events) \in Nat
  OBVIOUS
<1>3. h = k
  BY <1>1, <1>2, RunUnique
<1> QED BY <1>1, <1>3

LEMMA TailBytesEmpty == TailBytes(<< >>) = 0
<1> DEFINE h == [i \in 0..0 |-> 0]
<1>1. << >> \in Seq(PersistedEvent) /\ Len(<< >>) = 0
  OBVIOUS
<1>2. IsRun(h, Int, 0, Len(<< >>), ByteStep(<< >>))
  BY <1>1 DEF IsRun
<1>3. TailBytes(<< >>) = h[Len(<< >>)]
  <2> HIDE DEF h
  <2> QED BY <1>1, <1>2, TailBytesIs
<1> QED BY <1>1, <1>3

LEMMA TailBytesAppend ==
  ASSUME NEW events \in Seq(PersistedEvent), NEW pe \in PersistedEvent
  PROVE  TailBytes(Append(events, pe)) = TailBytes(events) + pe.bytes
<1> DEFINE n == Len(events)
           more == Append(events, pe)
<1>1. PICK h : /\ IsRun(h, Int, 0, n, ByteStep(events))
              /\ TailBytes(events) = h[n]
  BY TailBytesRun
<1>2. n \in Nat /\ more \in Seq(PersistedEvent) /\ Len(more) = n + 1 /\ more[n + 1] = pe
      /\ \A i \in 1..n : more[i] = events[i]
  OBVIOUS
<1>3. pe.bytes \in Nat
  BY SizesAreNumbers
<1> DEFINE g == [i \in 0..(n + 1) |-> IF i <= n THEN h[i] ELSE h[n] + pe.bytes]
<1> HIDE DEF n, more
<1>4. \A i \in 0..n : h[i] \in Int
  BY <1>1 DEF IsRun
<1>5. g \in [0..(n + 1) -> Int] /\ g[0] = 0
  BY <1>1, <1>2, <1>3, <1>4 DEF IsRun
<1>6. ASSUME NEW i \in 1..(n + 1) PROVE g[i] = ByteStep(more)[<<i, g[i - 1]>>]
  <2>1. i - 1 \in 0..n /\ g[i - 1] = h[i - 1] /\ h[i - 1] \in Int
    BY <1>2, <1>4
  <2>2. <<i, h[i - 1]>> \in (1..(n + 1)) \X Int
    BY <2>1
  <2>3. ByteStep(more)[<<i, h[i - 1]>>] = h[i - 1] + more[i].bytes
    BY <1>2, <2>2 DEF ByteStep
  <2>4. CASE i <= n
    <3>1. i \in 1..n /\ i \in 0..(n + 1)
      BY <1>2, <2>4
    <3>2. <<i, h[i - 1]>> \in (1..n) \X Int
      BY <2>1, <3>1
    <3>3. ByteStep(events)[<<i, h[i - 1]>>] = h[i - 1] + events[i].bytes
      BY <3>2 DEF ByteStep, n
    <3>4. h[i] = ByteStep(events)[<<i, h[i - 1]>>]
      BY <1>1, <3>1 DEF IsRun
    <3>5. g[i] = h[i]
      BY <3>1, <2>4
    <3>6. more[i] = events[i]
      BY <1>2, <3>1
    <3> QED BY <2>1, <2>3, <3>3, <3>4, <3>5, <3>6
  <2>5. CASE i = n + 1
    <3>1. i - 1 = n /\ i \in 0..(n + 1) /\ ~(i <= n)
      BY <1>2, <2>5
    <3>2. g[i] = h[n] + pe.bytes
      BY <3>1
    <3>3. more[i] = pe
      BY <1>2, <2>5
    <3>4. ByteStep(more)[<<i, g[i - 1]>>] = h[n] + pe.bytes
      BY <2>1, <2>3, <3>1, <3>3
    <3> QED BY <3>2, <3>4
  <2> QED BY <1>2, <2>4, <2>5
<1>7. IsRun(g, Int, 0, Len(more), ByteStep(more))
  BY <1>2, <1>5, <1>6 DEF IsRun
<1>8. TailBytes(more) = g[n + 1]
  <2> HIDE DEF g
  <2> QED BY <1>2, <1>7, TailBytesIs
<1>9. g[n + 1] = h[n] + pe.bytes
  BY <1>2
<1> QED BY <1>1, <1>8, <1>9 DEF more

(***************************************************************************)
(* The oldest event leaves with exactly its own bytes, and those are part  *)
(* of the total: push_tail's saturating subtraction never saturates.       *)
(***************************************************************************)
LEMMA TailBytesCons ==
  ASSUME NEW events \in Seq(PersistedEvent), events # << >>
  PROVE  /\ TailBytes(Tail(events)) = TailBytes(events) - Head(events).bytes
         /\ TailBytes(events) >= Head(events).bytes
<1> DEFINE n == Len(events)
           less == Tail(events)
           b == Head(events).bytes
<1>1. PICK h : /\ IsRun(h, Int, 0, n, ByteStep(events))
              /\ TailBytes(events) = h[n]
  BY TailBytesRun
<1>2. n \in Nat /\ n >= 1 /\ less \in Seq(PersistedEvent) /\ Len(less) = n - 1
      /\ Head(events) = events[1] /\ \A i \in 1..n : events[i] \in PersistedEvent
  OBVIOUS
<1>3. \A i \in 1..(n - 1) : less[i] = events[i + 1]
  OBVIOUS
<1>4. \A i \in 1..n : events[i].bytes \in Nat
  BY <1>2, SizesAreNumbers
<1>5. b \in Nat /\ b = events[1].bytes
  BY <1>2, SizesAreNumbers
<1> DEFINE g == [i \in 0..(n - 1) |-> h[i + 1] - b]
<1> HIDE DEF n, less, b
<1>6. ASSUME NEW i \in 1..n
      PROVE  i - 1 \in 0..n /\ h[i - 1] \in Int /\ h[i] = h[i - 1] + events[i].bytes
  <2>1. i - 1 \in 0..n
    BY <1>2
  <2>2. h[i - 1] \in Int /\ h[i] = ByteStep(events)[<<i, h[i - 1]>>]
    BY <1>1, <2>1 DEF IsRun
  <2>3. <<i, h[i - 1]>> \in (1..n) \X Int
    BY <2>2
  <2>4. ByteStep(events)[<<i, h[i - 1]>>] = h[i - 1] + events[i].bytes
    BY <2>3 DEF ByteStep, n
  <2> QED BY <2>1, <2>2, <2>4
<1>7. h[1] = b /\ h[0] = 0
  <2>1. 1 \in 1..n /\ 1 - 1 = 0
    BY <1>2
  <2>2. h[0] = 0
    BY <1>1 DEF IsRun
  <2>3. h[1] = h[0] + events[1].bytes
    BY <1>6, <2>1
  <2> QED BY <1>5, <2>2, <2>3
<1>8. g \in [0..(n - 1) -> Int] /\ g[0] = 0
  <2>1. \A i \in 0..(n - 1) : i + 1 \in 0..n /\ h[i + 1] \in Int
    BY <1>1, <1>2 DEF IsRun
  <2>2. 0 \in 0..(n - 1) /\ 0 + 1 = 1
    BY <1>2
  <2> QED BY <1>5, <1>7, <2>1, <2>2
<1>9. ASSUME NEW i \in 1..(n - 1) PROVE g[i] = ByteStep(less)[<<i, g[i - 1]>>]
  <2>1. i + 1 \in 1..n /\ (i + 1) - 1 = i /\ i - 1 \in 0..(n - 1) /\ i \in 0..(n - 1)
        /\ (i - 1) + 1 = i
    BY <1>2
  <2>2. g[i] = h[i + 1] - b /\ g[i - 1] = h[i] - b
    BY <2>1
  <2>3. h[i] \in Int /\ h[i + 1] = h[i] + events[i + 1].bytes /\ events[i + 1].bytes \in Nat
    BY <1>4, <1>6, <2>1
  <2>4. <<i, g[i - 1]>> \in (1..(n - 1)) \X Int
    BY <1>5, <2>2, <2>3
  <2>5. ByteStep(less)[<<i, g[i - 1]>>] = g[i - 1] + less[i].bytes
    BY <1>2, <2>4 DEF ByteStep
  <2>6. less[i] = events[i + 1]
    BY <1>3
  <2> HIDE DEF g
  <2> QED BY <1>5, <2>2, <2>3, <2>5, <2>6
<1>10. IsRun(g, Int, 0, Len(less), ByteStep(less))
  BY <1>2, <1>8, <1>9 DEF IsRun
<1>11. TailBytes(less) = g[n - 1]
  <2> HIDE DEF g
  <2> QED BY <1>2, <1>10, TailBytesIs
<1>12. g[n - 1] = h[n] - b
  BY <1>2
<1>13. h[n] >= b
  <2> DEFINE S == {i \in 0..(n - 1) : h[i + 1] \in Int /\ h[i + 1] >= b}
  <2>1. 0 \in S
    BY <1>2, <1>5, <1>7
  <2>2. ASSUME NEW i \in S, i < n - 1 PROVE i + 1 \in S
    <3>1. i + 2 \in 1..n /\ (i + 2) - 1 = i + 1 /\ i + 1 \in 0..(n - 1) /\ (i + 1) + 1 = i + 2
      BY <1>2, <2>2
    <3>2. h[i + 2] = h[i + 1] + events[i + 2].bytes /\ events[i + 2].bytes \in Nat
      BY <1>4, <1>6, <3>1
    <3> QED BY <1>5, <3>1, <3>2
  <2>3. S \subseteq 0..(n - 1) /\ n - 1 \in Nat
    BY <1>2
  <2> HIDE DEF S
  <2>4. S = 0..(n - 1)
    BY <2>1, <2>2, <2>3, IntervalInduction
  <2>5. n - 1 \in S /\ (n - 1) + 1 = n
    BY <1>2, <2>4
  <2> QED BY <2>5 DEF S
<1> QED BY <1>1, <1>11, <1>12, <1>13 DEF less, b

-----------------------------------------------------------------------------
\* The running byte counter is the size of the resident tail.
Counted(g) == g.tailBytes = TailBytes(g.tail)

LEMMA EvictOneCounts ==
  ASSUME NEW g \in StoreType, Len(g.tail) > 1, Counted(g)
  PROVE  Counted(EvictOne(g)) /\ Len(EvictOne(g).tail) = Len(g.tail) - 1
<1> DEFINE old == Head(g.tail)
<1>1. g.tail \in Seq(PersistedEvent) /\ g.tailBytes \in Nat
  BY DEF StoreType
<1>2. g.tail # << >> /\ old \in PersistedEvent /\ Len(Tail(g.tail)) = Len(g.tail) - 1
  BY <1>1
<1>3. old.bytes \in Nat
  BY <1>2, SizesAreNumbers
<1>4. /\ EvictOne(g).tail = Tail(g.tail)
      /\ EvictOne(g).tailBytes = IF g.tailBytes >= old.bytes
                                 THEN g.tailBytes - old.bytes ELSE 0
  BY DEF EvictOne, StoreType
<1>5. /\ TailBytes(Tail(g.tail)) = TailBytes(g.tail) - old.bytes
      /\ TailBytes(g.tail) >= old.bytes
  BY <1>1, <1>2, TailBytesCons
<1> HIDE DEF old
<1> QED BY <1>1, <1>2, <1>3, <1>4, <1>5 DEF Counted

(***************************************************************************)
(* The eviction loop ends within the cap: each turn that is over the cap   *)
(* drops an event, and a tail of one event is never over it.               *)
(***************************************************************************)
LEMMA EvictToCapBounds ==
  ASSUME NEW g \in StoreType, Counted(g)
  PROVE  Counted(EvictToCap(g)) /\ ~OverCap(EvictToCap(g))
<1> DEFINE n == Len(g.tail)
           Unfold(f) == [i \in 0..n |-> IF i = 0 THEN g ELSE EvictIfOver(f[i - 1])]
           F == CHOOSE f : f = Unfold(f)
           Fits(x, i) == /\ x \in StoreType
                         /\ Counted(x)
                         /\ ~OverCap(x) \/ Len(x.tail) = n - i
<1>1. n \in Nat
  BY DEF StoreType
<1>2. ASSUME NEW x, NEW i \in 0..n, i < n, Fits(x, i) PROVE Fits(EvictIfOver(x), i + 1)
  <2>1. CASE OverCap(x)
    <3>1. Len(x.tail) > 1 /\ Len(x.tail) = n - i
      BY <1>2, <2>1 DEF OverCap
    <3>2. EvictOne(x) \in StoreType
      BY <1>2, <3>1, EvictOneInvisible
    <3>3. Counted(EvictOne(x)) /\ Len(EvictOne(x).tail) = Len(x.tail) - 1
      BY <1>2, <3>1, EvictOneCounts
    <3>4. (n - i) - 1 = n - (i + 1)
      BY <1>1
    <3> HIDE DEF n
    <3> QED BY <2>1, <3>1, <3>2, <3>3, <3>4 DEF EvictIfOver
  <2>2. CASE ~OverCap(x)
    BY <1>2, <2>2 DEF EvictIfOver
  <2> QED BY <2>1, <2>2
<1>3. Fits(g, 0)
  BY <1>1
<1>4. EvictStep(n, StoreType) \in [(1..n) \X StoreType -> StoreType]
  BY EvictOneInvisible DEF EvictStep, EvictIfOver, OverCap
<1> HIDE DEF Fits, n
<1>5. PICK h : IsRun(h, StoreType, g, n, EvictStep(n, StoreType))
  BY <1>1, <1>4, RunExists
<1>6. ASSUME NEW i \in 1..n PROVE i - 1 \in 0..n /\ h[i] = EvictIfOver(h[i - 1])
  <2>1. i - 1 \in 0..n
    BY <1>1
  <2>2. h[i - 1] \in StoreType /\ h[i] = EvictStep(n, StoreType)[<<i, h[i - 1]>>]
    BY <1>5, <2>1 DEF IsRun
  <2>3. <<i, h[i - 1]>> \in (1..n) \X StoreType
    BY <2>2
  <2> QED BY <2>1, <2>2, <2>3 DEF EvictStep
<1>7. h = Unfold(h)
  BY <1>1, <1>5, <1>6 DEF IsRun
<1>8. F = Unfold(F)
  <2> HIDE DEF Unfold
  <2> QED BY <1>7
<1>9. \A i \in 0..n : Fits(F[i], i)
  <2> DEFINE S == {i \in 0..n : Fits(F[i], i)}
  <2> HIDE DEF F
  <2>1. 0 \in S
    BY <1>1, <1>3, <1>8
  <2>2. ASSUME NEW i \in S, i < n PROVE i + 1 \in S
    <3>1. i + 1 \in 0..n /\ (i + 1) - 1 = i /\ i + 1 # 0
      BY <1>1, <2>2
    <3>2. F[i + 1] = EvictIfOver(F[i])
      BY <3>1, <1>8
    <3> QED BY <1>2, <2>2, <3>1, <3>2
  <2>3. S \subseteq 0..n
    OBVIOUS
  <2> HIDE DEF S
  <2>4. S = 0..n
    BY <1>1, <2>1, <2>2, <2>3, IntervalInduction
  <2> QED BY <2>4 DEF S
<1>10. EvictToCap(g) = F[n]
  BY DEF EvictToCap, n
<1>11. Fits(EvictToCap(g), n)
  <2> HIDE DEF F
  <2> QED BY <1>1, <1>9, <1>10
<1>12. n - n = 0
  BY <1>1
<1> QED BY <1>11, <1>12 DEF Fits, OverCap

(***************************************************************************)
(* Pushing an event leaves a counted tail within its cap.                  *)
(***************************************************************************)
LEMMA PushTailBounds ==
  ASSUME NEW g \in StoreType, NEW pe \in PersistedEvent, Counted(g)
  PROVE  Counted(PushTail(g, pe)) /\ ~OverCap(PushTail(g, pe))
<1> DEFINE k == [g EXCEPT !.tail = Append(g.tail, pe), !.tailBytes = g.tailBytes + pe.bytes]
<1>1. g.tail \in Seq(PersistedEvent) /\ g.tailBytes \in Nat
  BY DEF StoreType
<1>2. PushTail(g, pe) = EvictToCap(k)
  BY DEF PushTail, StoreType
<1>3. pe.bytes \in Nat
  BY SizesAreNumbers
<1>4. k \in StoreType
  <2>1. Append(g.tail, pe) \in Seq(PersistedEvent) /\ g.tailBytes + pe.bytes \in Nat
    BY <1>1, <1>3
  <2> QED BY <2>1, StoreWithTail
<1>5. k.tail = Append(g.tail, pe) /\ k.tailBytes = g.tailBytes + pe.bytes
  BY DEF StoreType
<1> HIDE DEF k
<1>6. Counted(k)
  BY <1>1, <1>5, TailBytesAppend DEF Counted
<1> QED BY <1>2, <1>4, <1>6, EvictToCapBounds

-----------------------------------------------------------------------------
BInv == Counted(store) /\ ~OverCap(store)

LEMMA NoTailBounds ==
  ASSUME NEW g, g.tail = << >>, g.tailBytes = 0
  PROVE  Counted(g) /\ ~OverCap(g)
<1>1. Len(<< >>) = 0
  OBVIOUS
<1> QED BY <1>1, TailBytesEmpty DEF Counted, OverCap

LEMMA NextBInv == IInv /\ BInv /\ [Next]_vars => BInv'
<1> SUFFICES ASSUME IInv, BInv, [Next]_vars PROVE BInv'
  OBVIOUS
<1>0. /\ store \in StoreType /\ store.nextSequence \in Nat /\ store.streamSeq \in Nat
      /\ persisted \in Nat
  BY BoundAssumption DEF IInv, TypeOK, StoreType
<1>1. ASSUME NEW next \in Nat, NEW strm \in Nat, NEW pe \in PersistedEvent, NEW k,
             k = [store EXCEPT !.nextSequence = next, !.streamSeq = strm],
             store' = PushTail(k, pe)
      PROVE  BInv'
  <2>1. k \in StoreType /\ k.tail = store.tail /\ k.tailBytes = store.tailBytes
    BY <1>0, <1>1 DEF StoreType
  <2>2. Counted(k)
    BY <2>1 DEF Counted, BInv
  <2> QED BY <1>1, <2>1, <2>2, PushTailBounds DEF BInv
<1>2. ASSUME NEW e \in Inputs, NEW bytes \in ByteSizes, AppendLive(e, bytes) PROVE BInv'
  <2> DEFINE pe == Persist(e, bytes, store.nextSequence)
             next == store.nextSequence + 1
             k == [store EXCEPT !.nextSequence = next, !.streamSeq = store.streamSeq]
  <2>1. pe \in PersistedEvent
    BY <1>0, PersistType DEF IInv
  <2>2. store' = PushTail(k, pe)
    <3>1. [store EXCEPT !.nextSequence = @ + 1] = k
      BY <1>0 DEF StoreType
    <3> QED BY <1>2, <3>1 DEF AppendLive, AppendTo
  <2>3. next \in Nat /\ k = [store EXCEPT !.nextSequence = next, !.streamSeq = store.streamSeq]
    BY <1>0
  <2> HIDE DEF pe, k, next
  <2> QED BY <1>0, <1>1, <2>1, <2>2, <2>3
<1>3. ASSUME NEW e \in Inputs, NEW bytes \in ByteSizes, NEW seq \in 0..persisted,
             NEW strm \in 1..(persisted + 1), LoadExisting(e, bytes, seq, strm)
      PROVE  BInv'
  <2> DEFINE pe == Persist(e, bytes, seq)
             next == Larger(store.nextSequence, seq + 1)
             pos == Larger(store.streamSeq, strm)
             k == [store EXCEPT !.nextSequence = next, !.streamSeq = pos]
  <2>1. seq \in Nat /\ strm \in Nat /\ next \in Nat /\ pos \in Nat
    BY <1>0 DEF Larger
  <2>2. pe \in PersistedEvent /\ pe.sequence = seq
    BY <2>1, PersistType DEF IInv
  <2>3. store' = PushTail(k, pe)
    BY <1>0, <1>3, <2>1, <2>2 DEF LoadExisting, LoadInto, StoreType
  <2>4. k = [store EXCEPT !.nextSequence = next, !.streamSeq = pos]
    OBVIOUS
  <2> HIDE DEF pe, k, next, pos
  <2> QED BY <1>1, <2>1, <2>2, <2>3, <2>4
<1>4. CASE Reset
  BY <1>4, NoTailBounds DEF Reset, EmptyStore, BInv
<1>5. CASE Hibernate
  BY <1>5 DEF Hibernate, BInv
<1>6. CASE Wake
  <2>1. PICK ring \in Reorderings(snapshot.dedup) : store' = SeededFrom(snapshot, ring)
    BY <1>6 DEF Wake
  <2>2. store'.tail = << >> /\ store'.tailBytes = 0
    BY <2>1 DEF SeededFrom, EmptyStore
  <2> QED BY <2>2, NoTailBounds DEF BInv
<1>7. CASE UNCHANGED vars
  BY <1>7 DEF vars, BInv
<1> QED BY <1>2, <1>3, <1>4, <1>5, <1>6, <1>7 DEF Next

(***************************************************************************)
(* The memory bound of the event cache, for every cap and every mix of     *)
(* event sizes: the counter is exact, and the tail is within the cap       *)
(* unless it is a single event.                                            *)
(***************************************************************************)
THEOREM TailAlwaysWithinCap == Spec => []TailWithinCap
<1>1. Init => BInv
  BY NoTailBounds DEF Init, EmptyStore, BInv
<1>2. IInv /\ BInv => TailWithinCap
  <2> SUFFICES ASSUME IInv, BInv PROVE TailWithinCap
    OBVIOUS
  <2>1. store.tail \in Seq(PersistedEvent) /\ store.tailBytes \in Nat
    BY DEF IInv, TypeOK, StoreType
  <2>2. Len(store.tail) \in Nat /\ TailCap \in Nat
    BY <2>1, CapAssumption
  <2>3. store.tailBytes = TailBytes(store.tail) /\ ~OverCap(store)
    BY DEF BInv, Counted
  <2>4. CASE store.tail = << >>
    <3>1. store.tailBytes = 0
      BY <2>3, <2>4, TailBytesEmpty
    <3> QED BY <2>2, <2>3, <3>1 DEF TailWithinCap
  <2>5. CASE store.tail # << >>
    <3>1. Len(store.tail) # 0
      BY <2>1, <2>5
    <3> DEFINE n == Len(store.tail)
               b == store.tailBytes
    <3>2. b \in Nat /\ n \in Nat /\ n # 0 /\ ~(b > TailCap /\ n > 1)
      BY <2>1, <2>2, <2>3, <3>1 DEF OverCap
    <3> HIDE DEF n, b
    <3>3. b > TailCap => n = 1
      BY <2>2, <3>2
    <3> QED BY <2>3, <3>3 DEF TailWithinCap, n, b
  <2> QED BY <2>4, <2>5
<1> QED BY <1>1, <1>2, InitIInv, NextIInv, NextBInv, PTL DEF Spec
=============================================================================
