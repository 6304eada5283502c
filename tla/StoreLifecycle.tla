--------------------------- MODULE StoreLifecycle ---------------------------
(***************************************************************************)
(* The life of one event cache: live appends, replay of durable events,    *)
(* reset, hibernation snapshots and the two ways a new process rebuilds    *)
(* the cache (from the snapshot, or from nothing).                         *)
(***************************************************************************)
EXTENDS MemoryEventStore

CONSTANT Inputs     \* the domain events that occur
ASSUME InputAssumption == Inputs \subseteq DomainEvent

VARIABLES
    store,      \* the cache
    snapshot,   \* the NetSnapshot in the snapshot store, or None
    persisted   \* events persisted so far: the last hash given out

vars == <<store, snapshot, persisted>>

Init ==
    /\ store = EmptyStore
    /\ snapshot = None
    /\ persisted = 0

\* Mutant: the event takes the last sequence, not the next.
PersistLastSeq(e, bytes, seq) ==
    [sequence |-> seq - 1, event |-> e, bytes |-> bytes, hash |-> persisted + 1,
     previousHash |-> ChainTip(store)]

Persist(e, bytes, seq) ==
    [sequence |-> seq, event |-> e, bytes |-> bytes, hash |-> persisted + 1,
     previousHash |-> ChainTip(store)]

\* EventRepository::append
AppendLive(e, bytes) ==
    /\ persisted < MaxEvents
    /\ store' = AppendTo(store, Persist(e, bytes, store.nextSequence))
    /\ persisted' = persisted + 1
    /\ UNCHANGED snapshot

\* load_existing_event_with_stream_seq.  The numbering of a durable log restarts
\* in every session, so the event's own sequence is unrelated to the store's.
LoadExisting(e, bytes, seq, streamSeq) ==
    /\ persisted < MaxEvents
    /\ store' = LoadInto(store, Persist(e, bytes, seq), streamSeq)
    /\ persisted' = persisted + 1
    /\ UNCHANGED snapshot

Reset ==
    /\ store' = EmptyStore
    /\ UNCHANGED <<snapshot, persisted>>

Hibernate ==
    /\ snapshot' = SnapshotOf(store)
    /\ UNCHANGED <<store, persisted>>

Wake ==
    /\ snapshot # None
    /\ \E ring \in Reorderings(snapshot.dedup) : store' = SeededFrom(snapshot, ring)
    /\ UNCHANGED <<snapshot, persisted>>

Next ==
    \/ \E e \in Inputs, bytes \in ByteSizes :
          \/ AppendLive(e, bytes)
          \/ \E seq \in 0..persisted, streamSeq \in 1..(persisted + 1) :
                LoadExisting(e, bytes, seq, streamSeq)
    \/ Reset
    \/ Hibernate
    \/ Wake

Spec == Init /\ [][Next]_vars

-----------------------------------------------------------------------------
TailBytes(events) ==
    LET f[i \in 0..Len(events)] == IF i = 0 THEN 0 ELSE f[i - 1] + events[i].bytes
    IN  f[Len(events)]

TypeOK ==
    /\ store \in StoreType
    /\ snapshot \in SnapshotType \cup {None}
    /\ persisted \in 0..MaxEvents

(***************************************************************************)
(* The memory bound of the cache: whatever mix of sizes arrives, and       *)
(* however often the store is reseeded, the resident tail stays within the *)
(* byte cap unless a single event exceeds it, and the running byte counter *)
(* is the size of what is resident (push_tail's saturating arithmetic      *)
(* never loses a byte).                                                    *)
(***************************************************************************)
TailWithinCap ==
    /\ store.tailBytes = TailBytes(store.tail)
    /\ store.tailBytes > TailCap => Len(store.tail) = 1

(***************************************************************************)
(* The dedup ring is a window of distinct keys no longer than its cap,     *)
(* through evictions into the base, snapshots and reordered reseeding:     *)
(* BoundedDedup's map and order never disagree.                            *)
(***************************************************************************)
DedupWindowSound ==
    LET ring == FullDedup(store)
    IN  /\ Len(ring) <= RingCap
        /\ \A i, j \in DOMAIN ring :
              ring[i].place = ring[j].place /\ ring[i].dedup = ring[j].dedup => i = j

(***************************************************************************)
(* Dropping the raw prefix, snapshotting and reseeding are invisible: the  *)
(* bounded store implements the log that never forgets.                    *)
(***************************************************************************)
Log == INSTANCE EventLog
       WITH marking <- FullMarking(store), dedup <- FullDedup(store),
            lastHash <- ChainTip(store), eventCount <- StoreLen(store),
            nextSequence <- store.nextSequence, streamSeq <- store.streamSeq,
            saved <- snapshot
ImplementsLog == Log!LSpec
=============================================================================
