---------------------------- MODULE SseBroadcast ----------------------------
(***************************************************************************)
(* The other reader of a net's event cache: the evaluation loop feeds the  *)
(* SSE clients from a positional cursor (spawn_net_evaluation_loop,        *)
(* engine/core-engine/crates/api/src/net_registry.rs), while calls of      *)
(* advance_marking, writers and clears go on.                              *)
(***************************************************************************)
EXTENDS MarkingCache

CONSTANT MaxClears  \* bound: how often the net is cleared
ASSUME ClearAssumption == MaxClears \in Nat

VARIABLES
    cursor,     \* broadcast_cursor
    clears,     \* clears so far
    sent,       \* history variable: how many events of the log the clients have had
    skipped     \* history variable: whether a clear left the cursor behind or a
                \* pass found that events beyond it had been evicted

sse == <<cursor, clears, sent, skipped>>
bvars == <<cvars, sse>>

\* The cursor starts at event_count(): nothing is there to broadcast.
BInit ==
    /\ CInit
    /\ cursor = StoreLen(store)
    /\ clears = 0 /\ sent = 0 /\ skipped = FALSE

\* Mutant: the cursor is set to the length of the slice.
BroadcastResident ==
    LET new == EventsFrom(store, cursor)
    IN  /\ new # << >>
        /\ cursor' = Len(new)
        /\ sent' = Len(log)
        /\ skipped' = (skipped \/ cursor < store.baseCount)
        /\ UNCHANGED <<cvars, clears>>

\* The end of a pass of the loop: events_from, then cursor += len, then send.
Broadcast ==
    LET new == EventsFrom(store, cursor)
    IN  /\ new # << >>
        /\ cursor' = cursor + Len(new)
        /\ sent' = Len(log)
        /\ skipped' = (skipped \/ cursor < store.baseCount)
        /\ UNCHANGED <<cvars, clears>>

\* service.clear does not tell the loop.
Clear ==
    \/ /\ clears < MaxClears
       /\ ResetStore
       /\ clears' = clears + 1
       /\ sent' = 0
       /\ skipped' = (skipped \/ cursor > 0)
       /\ UNCHANGED cursor
    \/ InvalidateCache /\ UNCHANGED sse

BNext ==
    \/ CNext /\ UNCHANGED sse
    \/ Broadcast
    \/ Clear

BSpec == BInit /\ [][BNext]_bvars

-----------------------------------------------------------------------------
(***************************************************************************)
(* "It marks how many events we have already broadcast; each tick we fetch *)
(* ONLY the delta [broadcast_cursor, len)" (net_registry.rs): the next     *)
(* pass sends exactly the events the clients have not had.  An eviction    *)
(* past the cursor, or a clear, breaks this for good: events_from clamps.  *)
(***************************************************************************)
BroadcastsDelta ==
    skipped \/ cursor < store.baseCount
        \/ EventsFrom(store, cursor) = SubSeq(log, sent + 1, Len(log))
=============================================================================
