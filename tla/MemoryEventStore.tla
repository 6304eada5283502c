-------------------------- MODULE MemoryEventStore --------------------------
(***************************************************************************)
(* The per-net event cache                                                 *)
(* (engine/core-engine/crates/infrastructure/src/memory_event_store.rs):   *)
(* a folded BASE (marking, dedup ring, count, chain tip) standing for the  *)
(* events already dropped from memory, and a TAIL of recent events whose   *)
(* serialized size is bounded.  Every operation of the store runs under    *)
(* one RwLock, so each is one operator on the record `store' and one step. *)
(***************************************************************************)
EXTENDS Projection

CONSTANTS TailCap,    \* tail_cap_bytes
          DedupCap,   \* dedup_cap, before the clamp of BoundedDedup::with_cap
          ByteSizes,  \* the serialized sizes an event may have
          MaxEvents,  \* bound: events persisted in one behaviour
          None        \* the absent value of an Option

ASSUME CapAssumption == TailCap \in Nat /\ DedupCap \in Nat
ASSUME SizeAssumption == ByteSizes \subseteq Nat
ASSUME BoundAssumption == MaxEvents \in Nat
ASSUME NoneAssumption == None \notin Nat

(***************************************************************************)
(* A persisted event.  A hash is collision-free, so it is the number of    *)
(* the event among all the events ever persisted.                          *)
(***************************************************************************)
Hash == Nat \cup {None}

PersistedEvent ==
    [sequence : Nat, event : DomainEvent, bytes : ByteSizes, hash : Nat,
     previousHash : Hash]

(***************************************************************************)
(* BoundedDedup: a FIFO ring of (place, dedup_id) keys, each with the      *)
(* sequence of the TokenCreated that put it there.                         *)
(***************************************************************************)
RingCap == IF DedupCap = 0 THEN 1 ELSE DedupCap

RingEntry == [place : Place, dedup : DedupId, sequence : Nat]

RingKeys(ring) == {<<ring[i].place, ring[i].dedup>> : i \in DOMAIN ring}

\* Mutant: the insert never looks for the key.
RingInsertBlind(ring, entry) ==
    IF Len(ring) >= RingCap THEN Append(Tail(ring), entry) ELSE Append(ring, entry)

\* A key already present keeps its place in the order and takes the new value.
RingInsert(ring, entry) ==
    IF <<entry.place, entry.dedup>> \in RingKeys(ring)
    THEN [i \in DOMAIN ring |->
            IF ring[i].place = entry.place /\ ring[i].dedup = entry.dedup
            THEN entry ELSE ring[i]]
    ELSE IF Len(ring) >= RingCap THEN Append(Tail(ring), entry) ELSE Append(ring, entry)

\* The dedup contribution of one event: only a TokenCreated with a dedup_id has one.
Remember(ring, pe) ==
    IF pe.event.kind = "TokenCreated" /\ pe.event.dedup # NoDedup
    THEN RingInsert(ring, [place |-> pe.event.place, dedup |-> pe.event.dedup,
                           sequence |-> pe.sequence])
    ELSE ring

RememberAll(ring, events) ==
    LET f[i \in 0..Len(events)] ==
            IF i = 0 THEN ring ELSE Remember(f[i - 1], events[i])
    IN  f[Len(events)]

-----------------------------------------------------------------------------
(***************************************************************************)
(* struct Inner and the operations on it.                                  *)
(***************************************************************************)
EmptyStore ==
    [baseCount    |-> 0,
     baseMarking  |-> EmptyMarking,
     baseDedup    |-> << >>,
     baseHash     |-> None,
     tail         |-> << >>,
     tailBytes    |-> 0,
     nextSequence |-> 0,
     streamSeq    |-> 0]

StoreType ==
    [baseCount : Nat, baseMarking : Marking, baseDedup : Seq(RingEntry),
     baseHash : Hash, tail : Seq(PersistedEvent), tailBytes : Nat,
     nextSequence : Nat, streamSeq : Nat]

Larger(a, b) == IF a > b THEN a ELSE b

StoreLen(g) == g.baseCount + Len(g.tail)

\* chain_tip_hash
ChainTip(g) == IF g.tail = << >> THEN g.baseHash ELSE g.tail[Len(g.tail)].hash

\* Mutant: the floor of the tail is two events.
OverCapFloorTwo(g) == g.tailBytes > TailCap /\ Len(g.tail) > 2

OverCap(g) == g.tailBytes > TailCap /\ Len(g.tail) > 1

\* Mutant: an evicted event takes its dedup key with it.
EvictOneForgetful(g) ==
    LET old == Head(g.tail)
    IN  [g EXCEPT !.tail        = Tail(@),
                  !.tailBytes   = IF @ >= old.bytes THEN @ - old.bytes ELSE 0,
                  !.baseMarking = ApplyEvent(@, old.event),
                  !.baseCount   = @ + 1,
                  !.baseHash    = old.hash]

\* One turn of push_tail's loop: the oldest tail event is folded into the base.
EvictOne(g) ==
    LET old == Head(g.tail)
    IN  [g EXCEPT !.tail        = Tail(@),
                  !.tailBytes   = IF @ >= old.bytes THEN @ - old.bytes ELSE 0,
                  !.baseMarking = ApplyEvent(@, old.event),
                  !.baseDedup   = Remember(@, old),
                  !.baseCount   = @ + 1,
                  !.baseHash    = old.hash]

EvictIfOver(g) == IF OverCap(g) THEN EvictOne(g) ELSE g

EvictToCap(g) ==
    LET f[i \in 0..Len(g.tail)] == IF i = 0 THEN g ELSE EvictIfOver(f[i - 1])
    IN  f[Len(g.tail)]

PushTail(g, pe) ==
    EvictToCap([g EXCEPT !.tail = Append(@, pe), !.tailBytes = @ + pe.bytes])

\* append: the live write of a store that is its own log.
AppendTo(g, pe) == PushTail([g EXCEPT !.nextSequence = @ + 1], pe)

\* load_existing_event_with_stream_seq: an event of the durable log is applied.
LoadInto(g, pe, streamSeq) ==
    PushTail([g EXCEPT !.nextSequence = Larger(@, pe.sequence + 1),
                       !.streamSeq    = Larger(@, streamSeq)],
             pe)

\* events_from clamps a cursor that lies below the base; events_from_checked
\* answers None instead.
EventsFrom(g, idx) ==
    LET start == IF idx > g.baseCount THEN idx - g.baseCount ELSE 0
    IN  SubSeq(g.tail, start + 1, Len(g.tail))

\* Mutant: the floor check is missing.
EventsFromUnchecked(g, idx) == EventsFrom(g, idx)

EventsFromChecked(g, idx) == IF idx < g.baseCount THEN None ELSE EventsFrom(g, idx)

\* marking_base followed by project_onto, and the extent both stand for.
FullMarking(g) == ProjectOnto(g.baseMarking, g.tail)

\* dedup_seed_full
FullDedup(g) == RememberAll(g.baseDedup, g.tail)

SnapshotType ==
    [marking : Marking, dedup : Seq(RingEntry), lastHash : Hash, eventCount : Nat,
     nextSequence : Nat, streamSeq : Nat]

\* snapshot_inputs_now: everything under one read lock.
SnapshotOf(g) ==
    [marking      |-> FullMarking(g),
     dedup        |-> FullDedup(g),
     lastHash     |-> ChainTip(g),
     eventCount   |-> StoreLen(g),
     nextSequence |-> g.nextSequence,
     streamSeq    |-> g.streamSeq]

(***************************************************************************)
(* The snapshot keeps its dedup entries as a list taken from a HashMap:    *)
(* any order may come out, and the ring is rebuilt in that order.          *)
(***************************************************************************)
Reorderings(ring) ==
    {[i \in DOMAIN ring |-> ring[p[i]]] :
        p \in {q \in [DOMAIN ring -> DOMAIN ring] :
                  \A i, j \in DOMAIN ring : i # j => q[i] # q[j]}}

\* seed_from_snapshot on a freshly built store.
SeededFrom(snap, dedup) ==
    [EmptyStore EXCEPT !.baseCount    = snap.eventCount,
                       !.baseMarking  = snap.marking,
                       !.baseDedup    = dedup,
                       !.baseHash     = snap.lastHash,
                       !.nextSequence = snap.nextSequence,
                       !.streamSeq    = snap.streamSeq]
=============================================================================
