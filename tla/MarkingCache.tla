---------------------------- MODULE MarkingCache ----------------------------
(***************************************************************************)
(* The marking cache of one net: advance_marking                           *)
(* (engine/core-engine/crates/application/src/evaluation.rs).              *)
(*                                                                         *)
(* The evaluation loop and any number of API readers call advance_marking  *)
(* on the same cache while tokens are injected and the store evicts.  A    *)
(* call takes the store's lock and the cache's lock several times and      *)
(* holds neither in between, so it is modelled one lock at a time.         *)
(***************************************************************************)
EXTENDS MemoryEventStore

CONSTANTS Inputs,   \* the domain events that occur
          Caller    \* the tasks that call advance_marking
ASSUME InputAssumption == Inputs \subseteq DomainEvent

VARIABLES
    store,      \* the event cache
    cache,      \* cached_state: None, or the marking of the first idx events
    call,       \* the call each task is in
    log,        \* history variable: every event since the last reset
    resetting   \* "store": a clear has emptied the store and not yet the cache;
                \* "raced": the last clear overtook a call of advance_marking

cvars == <<store, cache, call, log, resetting>>

CacheEntry == [idx : Nat, marking : Marking]

(***************************************************************************)
(* The locals of a call.  `len' is current_idx; `snap' is the cache        *)
(* snapshot of the Stale arm, then the rebuilt pair of the Miss arm, then  *)
(* the result; `events' is the slice fetched; `delta' is the MarkingDelta. *)
(***************************************************************************)
CallState ==
    [pc : {"idle", "lookup", "slice", "rebuild", "install", "fold", "done"},
     len : Nat, snap : CacheEntry \cup {None}, events : Seq(PersistedEvent),
     delta : {"Unchanged", "Applied", "Rebuilt"}]

NoCall == [pc |-> "idle", len |-> 0, snap |-> None, events |-> << >>, delta |-> "Unchanged"]

CInit ==
    /\ store = EmptyStore
    /\ cache = None
    /\ call = [c \in Caller |-> NoCall]
    /\ log = << >>
    /\ resetting = "no"

\* Mutant: the event takes the last sequence, not the next.
AppendEventLastSeq(e, bytes) ==
    LET pe == [sequence |-> store.nextSequence - 1, event |-> e, bytes |-> bytes,
               hash |-> Len(log) + 1, previousHash |-> ChainTip(store)]
    IN  /\ Len(log) < MaxEvents
        /\ store' = AppendTo(store, pe)
        /\ log' = Append(log, pe)
        /\ UNCHANGED <<cache, call, resetting>>

\* Any writer: the store's own lock makes an append, eviction included, one step.
AppendEvent(e, bytes) ==
    LET pe == [sequence |-> store.nextSequence, event |-> e, bytes |-> bytes,
               hash |-> Len(log) + 1, previousHash |-> ChainTip(store)]
    IN  /\ Len(log) < MaxEvents
        /\ store' = AppendTo(store, pe)
        /\ log' = Append(log, pe)
        /\ UNCHANGED <<cache, call, resetting>>

\* current_idx = events.len()
Begin(c) ==
    /\ call[c].pc = "idle"
    /\ call' = [call EXCEPT ![c] = [NoCall EXCEPT !.pc = "lookup", !.len = StoreLen(store)]]
    /\ UNCHANGED <<store, cache, log, resetting>>

\* Under the cache's read lock: Hit, Stale or Miss.
LookUp(c) ==
    /\ call[c].pc = "lookup"
    /\ call' = [call EXCEPT ![c] =
         IF cache = None THEN [@ EXCEPT !.pc = "rebuild"]
         ELSE IF cache.idx = @.len THEN [@ EXCEPT !.pc = "done", !.snap = cache]
         ELSE [@ EXCEPT !.pc = "slice", !.snap = cache]]
    /\ UNCHANGED <<store, cache, log, resetting>>

\* events_from_checked: the floor check and the slice under one store lock.
Slice(c) ==
    LET new == EventsFromChecked(store, call[c].snap.idx)
    IN  /\ call[c].pc = "slice"
        /\ call' = [call EXCEPT ![c] =
             IF new = None THEN [@ EXCEPT !.pc = "rebuild", !.snap = None]
             ELSE [@ EXCEPT !.pc = "fold", !.events = new]]
        /\ UNCHANGED <<store, cache, log, resetting>>

\* marking_base and project_onto: base, tail and extent under one store lock.
Rebuild(c) ==
    /\ call[c].pc = "rebuild"
    /\ call' = [call EXCEPT ![c].pc = "install",
                            ![c].snap = [idx |-> StoreLen(store),
                                         marking |-> FullMarking(store)]]
    /\ UNCHANGED <<store, cache, log, resetting>>

Install(c) ==
    /\ call[c].pc = "install"
    /\ cache' = call[c].snap
    /\ call' = [call EXCEPT ![c].pc = "done", ![c].delta = "Rebuilt"]
    /\ UNCHANGED <<store, log, resetting>>

\* Under the cache's write lock.  When the cache still sits at the cursor the
\* slice was taken from, the slice is folded into the cached marking; otherwise
\* into the call's own snapshot, and the last writer wins.
Folded(entry, events) ==
    [idx |-> entry.idx + Len(events), marking |-> ProjectOnto(entry.marking, events)]

\* Mutant: the slice is folded into the cache wherever its cursor is.
InPlaceAlways(c) == cache # None

InPlace(c) == cache # None /\ cache.idx = call[c].snap.idx

Fold(c) ==
    LET entry == Folded(IF InPlace(c) THEN cache ELSE call[c].snap, call[c].events)
    IN  /\ call[c].pc = "fold"
        /\ cache' = entry
        /\ call' = [call EXCEPT ![c].pc = "done", ![c].snap = entry, ![c].delta = "Applied"]
        /\ UNCHANGED <<store, log, resetting>>

Return(c) ==
    /\ call[c].pc = "done"
    /\ call' = [call EXCEPT ![c] = NoCall]
    /\ UNCHANGED <<store, cache, log, resetting>>

\* The steps of advance_marking after its first.
Advance(c) ==
    \/ LookUp(c)
    \/ Slice(c)
    \/ Rebuild(c)
    \/ Install(c)
    \/ Fold(c)

CNext ==
    \/ \E e \in Inputs, bytes \in ByteSizes : AppendEvent(e, bytes)
    \/ \E c \in Caller : Begin(c) \/ Advance(c) \/ Return(c)

CSpec == CInit /\ [][CNext]_cvars

\* service.clear: the store is emptied, then the cache; calls are under way.
ResetStore ==
    /\ resetting # "store"
    /\ store' = EmptyStore
    /\ log' = << >>
    /\ resetting' = "store"
    /\ UNCHANGED <<cache, call>>

InvalidateCache ==
    /\ resetting = "store"
    /\ cache' = None
    /\ resetting' = IF \A c \in Caller : call[c] = NoCall THEN "no" ELSE "raced"
    /\ UNCHANGED <<store, call, log>>

-----------------------------------------------------------------------------
CTypeOK ==
    /\ store \in StoreType
    /\ cache \in CacheEntry \cup {None}
    /\ call \in [Caller -> CallState]
    /\ log \in Seq(PersistedEvent)
    /\ resetting \in {"no", "store", "raced"}

\* The marking of the first n events, by a full replay of the log.
MarkingAt(n) == ProjectMarking(SubSeq(log, 1, n))

(***************************************************************************)
(* The cached marking is the projection of exactly the prefix its cursor   *)
(* names, whatever calls race on it and however far eviction has overtaken *)
(* the cursor: the cache never "drifts away from f(events)"                *)
(* (evaluation.rs, advance_marking).  A clear that overtakes a call is the *)
(* exception: the call may install the old marking after the clear.        *)
(***************************************************************************)
CacheCoherent ==
    resetting = "no" /\ cache # None =>
        cache.idx <= Len(log) /\ cache.marking = MarkingAt(cache.idx)

(***************************************************************************)
(* A call returns a marking at least as new as the log was when the call   *)
(* began, and a true one, even when its cache write lost a race: an API    *)
(* caller sees its own earlier write.                                      *)
(***************************************************************************)
ReadsFresh ==
    \A c \in Caller :
        resetting = "no" /\ call[c].pc = "done" =>
            /\ call[c].len <= call[c].snap.idx
            /\ call[c].snap.marking = MarkingAt(call[c].snap.idx)
=============================================================================
