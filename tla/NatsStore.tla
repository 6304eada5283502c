------------------------------ MODULE NatsStore ------------------------------
(***************************************************************************)
(* The durable event store of a net                                        *)
(* (engine/core-engine/crates/nats/src/{event_store,event_consumer}.rs,    *)
(* api/src/net_registry.rs).                                               *)
(*                                                                         *)
(* An append publishes an event to the net's JetStream subject and waits   *)
(* until the net's own consumer has applied it to the cache.  The cache is *)
(* taken at its promise (module EventLog): it is the sequence of stream    *)
(* positions applied to it, in order.  A hash is collision-free, so it is  *)
(* the stream position of its event.                                       *)
(*                                                                         *)
(* The operators here are the steps of the store; module BridgeTransfer    *)
(* gives them their callers.                                               *)
(***************************************************************************)
EXTENDS Naturals, Sequences, FiniteSets

CONSTANTS
    Net,        \* the nets
    Token,      \* what an event is about, as far as the transfer tells apart
    RequestId,  \* idempotency keys other than the ones made from a sequence number
    NoId,       \* an event without one
    None        \* the absent value of an Option

\* An idempotency key: bridge:{net}:{sequence}, or that of a request.
DedupId == Nat \cup RequestId

ASSUME NoneAssumption == None \notin Nat
ASSUME NoIdAssumption == NoId \notin DedupId

VARIABLES
    stream,     \* the events of each net on JetStream
    window,     \* the Nats-Msg-Ids inside JetStream's duplicate window
    write,      \* WriteState, behind write_lock
    applied,    \* the watch channel: next sequence after the last applied event
    cursor,     \* the position JetStream delivers from to the net's consumer
    lastSeq,    \* last_stream_seq of the consumer
    cache,      \* stream positions in the order the cache applied them
    up,         \* whether an instance of the net is in memory
    snapshot,   \* the hibernation snapshot in the KV store, or None
    doubt       \* history variable: what may have put the writer off the log's end

memory == <<write, applied, cursor, lastSeq, cache, up>>
svars == <<stream, window, memory, snapshot, doubt>>

Kind == {"Created", "Fired", "BridgedOut"}

\* sound is a history field: nothing had put the writer in doubt.
Event ==
    [kind : Kind, token : Token, id : DedupId \cup {NoId}, sequence : Nat,
     previousHash : Nat \cup {None}, sound : BOOLEAN]

Snapshot == [cache : Seq(Nat), upTo : Nat]

Doubts == {"AckLost", "Replayed", "Reset", "Redelivered"}

StoreTypeOK ==
    /\ stream \in [Net -> Seq(Event)]
    /\ window \in [Net -> SUBSET DedupId]
    /\ write \in [Net -> [next : Nat, last : Nat \cup {None}]]
    /\ applied \in [Net -> Nat]
    /\ cursor \in [Net -> Nat]
    /\ lastSeq \in [Net -> Nat]
    /\ cache \in [Net -> Seq(Nat)]
    /\ up \in [Net -> BOOLEAN]
    /\ snapshot \in [Net -> Snapshot \cup {None}]
    /\ doubt \in [Net -> SUBSET Doubts]

-----------------------------------------------------------------------------
InCache(n) == {cache[n][i] : i \in DOMAIN cache[n]}

\* The events of one kind that a net's cache has applied, and its stream holds.
Seen(n, kind) == {stream[n][p].token : p \in {q \in InCache(n) : stream[n][q].kind = kind}}
Stored(n, kind) ==
    {stream[n][p].token : p \in {q \in DOMAIN stream[n] : stream[n][q].kind = kind}}

\* write_cursor: the highest sequence of the log plus one, and its chain tip.
NextAfter(n, log) ==
    CHOOSE m \in 0..(Len(stream[n]) + 1) :
        /\ \A i \in DOMAIN log : stream[n][log[i]].sequence < m
        /\ m = 0 \/ \E i \in DOMAIN log : stream[n][log[i]].sequence + 1 = m

\* last_stream_seq of the cache, which never goes back.
StreamSeq(log) ==
    CHOOSE m \in {0} \cup {log[i] : i \in DOMAIN log} : \A i \in DOMAIN log : log[i] <= m

TipOf(log) == IF log = << >> THEN None ELSE log[Len(log)]

\* dedup_seed of a cache: the dedup ids of its events (within the ring's cap).
DedupSeed(n) ==
    {stream[n][p].id : p \in {q \in InCache(n) : stream[n][q].id # NoId}}

StoreInit ==
    /\ stream = [n \in Net |-> << >>]
    /\ window = [n \in Net |-> {}]
    /\ write = [n \in Net |-> [next |-> 0, last |-> None]]
    /\ applied = [n \in Net |-> 0]
    /\ cursor = [n \in Net |-> 0]
    /\ lastSeq = [n \in Net |-> 0]
    /\ cache = [n \in Net |-> << >>]
    /\ up = [n \in Net |-> TRUE]
    /\ snapshot = [n \in Net |-> None]
    /\ doubt = [n \in Net |-> {}]

-----------------------------------------------------------------------------
(***************************************************************************)
(* append, up to the release of write_lock.                                *)
(***************************************************************************)
\* The lazy recovery: a writer that has a sequence but no hash asks the cache.
TipFor(n) ==
    IF write[n].next > 0 /\ write[n].last = None THEN TipOf(cache[n]) ELSE write[n].last

Mint(n, kind, t, id) ==
    [kind |-> kind, token |-> t, id |-> id, sequence |-> write[n].next,
     previousHash |-> TipFor(n), sound |-> doubt[n] = {}]

\* Mutant: the message id is not stamped.
MsgIdsUnstamped(id) == {}

\* Mutant: every event is stamped, one without a dedup_id with the empty id.
MsgIdsEmpty(id) == {id}

\* dedup_msg_id: only a TokenCreated with a dedup_id carries a Nats-Msg-Id.
MsgIds(id) == IF id = NoId THEN {} ELSE {id}

\* JetStream drops a message whose id is in the window.
IsDuplicate(n, id) == MsgIds(id) \cap window[n] # {}

StoreEvent(n, kind, t, id) ==
    /\ stream' = [stream EXCEPT ![n] = Append(@, Mint(n, kind, t, id))]
    /\ window' = [window EXCEPT ![n] = @ \cup MsgIds(id)]

\* The event is stored and its ack arrives: the write state moves on.
PublishStored(n, kind, t, id) ==
    /\ ~IsDuplicate(n, id)
    /\ StoreEvent(n, kind, t, id)
    /\ write' = [write EXCEPT ![n] = [next |-> @.next + 1, last |-> Len(stream[n]) + 1]]
    /\ UNCHANGED <<applied, cursor, lastSeq, cache, up, snapshot, doubt>>

\* The recovered tip stays in the write state whatever becomes of the publish.
KeepTip(n) == write' = [write EXCEPT ![n] = [@ EXCEPT !.last = TipFor(n)]]

\* ack.duplicate: the original is on the stream, the write state stays.
PublishDuplicate(n, id) ==
    /\ IsDuplicate(n, id)
    /\ KeepTip(n)
    /\ UNCHANGED <<stream, window, applied, cursor, lastSeq, cache, up, snapshot, doubt>>

\* The publish fails and nothing is stored.
PublishLost(n) ==
    /\ KeepTip(n)
    /\ UNCHANGED <<stream, window, applied, cursor, lastSeq, cache, up, snapshot, doubt>>

\* The event is stored, but its ack is lost: the caller gets PersistFailed and
\* the next event is minted with the same sequence and predecessor.
PublishAckLost(n, kind, t, id) ==
    /\ ~IsDuplicate(n, id)
    /\ StoreEvent(n, kind, t, id)
    /\ KeepTip(n)
    /\ doubt' = [doubt EXCEPT ![n] = @ \cup {"AckLost"}]
    /\ UNCHANGED <<applied, cursor, lastSeq, cache, up, snapshot>>

\* Mutant: the wait ends one event early.
IsAppliedEarly(n, seq) == applied[n] >= seq

\* The wait of append on the watch channel.
IsApplied(n, seq) == applied[n] > seq

-----------------------------------------------------------------------------
(***************************************************************************)
(* The consumer.                                                           *)
(***************************************************************************)
Apply(n, pos) ==
    /\ cache' = [cache EXCEPT ![n] = Append(@, pos)]
    /\ applied' = [applied EXCEPT ![n] = stream[n][pos].sequence + 1]
    /\ lastSeq' = [lastSeq EXCEPT ![n] = pos]

Consume(n) ==
    /\ up[n]
    /\ cursor[n] < Len(stream[n])
    /\ cursor' = [cursor EXCEPT ![n] = @ + 1]
    /\ Apply(n, cursor[n] + 1)
    /\ UNCHANGED <<stream, window, write, up, snapshot, doubt>>

\* Mutant: a reconnect resumes with new messages only (DeliverPolicy::New).
ReconnectNew(n) ==
    /\ up[n]
    /\ cursor' = [cursor EXCEPT ![n] = Len(stream[n])]
    /\ UNCHANGED <<stream, window, write, applied, lastSeq, cache, up, snapshot, doubt>>

\* The connection breaks; the new ephemeral consumer starts at the last
\* delivered position plus one.
Reconnect(n) ==
    /\ up[n]
    /\ cursor' = [cursor EXCEPT ![n] = lastSeq[n]]
    /\ UNCHANGED <<stream, window, write, applied, lastSeq, cache, up, snapshot, doubt>>

\* The ack of an applied message failed: JetStream delivers it again, and the
\* consumer applies it again.
Redeliver(n, pos) ==
    /\ up[n]
    /\ pos \in InCache(n)
    /\ Apply(n, pos)
    /\ doubt' = [doubt EXCEPT ![n] = @ \cup {"Redelivered"}]
    /\ UNCHANGED <<stream, window, write, cursor, up, snapshot>>

-----------------------------------------------------------------------------
(***************************************************************************)
(* Reset, hibernation, crash and wake.                                     *)
(***************************************************************************)
\* NatsEventStore::reset, called by service.clear: the watch channel is
\* left as it is.
ResetStore(n) ==
    /\ cache' = [cache EXCEPT ![n] = << >>]
    /\ write' = [write EXCEPT ![n] = [next |-> 0, last |-> None]]
    /\ doubt' = [doubt EXCEPT ![n] = IF cursor[n] = 0 /\ stream[n] = << >> THEN @
                                     ELSE @ \cup {"Reset"}]
    /\ UNCHANGED <<stream, window, applied, cursor, lastSeq, up, snapshot>>

\* What is in memory is gone; the stores of the next instance start empty.
Forgotten(nets) ==
    /\ write' = [n \in Net |-> IF n \in nets THEN [next |-> 0, last |-> None] ELSE write[n]]
    /\ applied' = [n \in Net |-> IF n \in nets THEN 0 ELSE applied[n]]
    /\ cursor' = [n \in Net |-> IF n \in nets THEN 0 ELSE cursor[n]]
    /\ lastSeq' = [n \in Net |-> IF n \in nets THEN 0 ELSE lastSeq[n]]
    /\ cache' = [n \in Net |-> IF n \in nets THEN << >> ELSE cache[n]]
    /\ up' = [n \in Net |-> up[n] /\ n \notin nets]
    /\ UNCHANGED <<stream, window, doubt>>

\* hibernate: the snapshot is written first (best effort), then the net goes.
\* (Hibernation that overtakes a caller of the net is in module NetLifecycle.)
HibernateStore(n, written) ==
    /\ up[n]
    /\ snapshot' =
          IF written
          THEN [snapshot EXCEPT ![n] = [cache |-> cache[n], upTo |-> StreamSeq(cache[n])]]
          ELSE snapshot
    /\ Forgotten({n})

\* get_or_create of a net with history: the store is built, seeded from the
\* snapshot if there is one, and hydrated to the end of the stream before
\* anybody uses it.  Only a snapshot wake seeds the write state again.
Hydrated(n) ==
    LET from == IF snapshot[n] = None THEN 0 ELSE snapshot[n].upTo
        base == IF snapshot[n] = None THEN << >> ELSE snapshot[n].cache
    IN  base \o [i \in 1..(Len(stream[n]) - from) |-> from + i]

\* Mutant: the write state is seeded from the snapshot and not again.
WriteAfterWakeBaseline(n) ==
    IF snapshot[n] = None THEN [next |-> 0, last |-> None]
    ELSE [next |-> NextAfter(n, snapshot[n].cache), last |-> TipOf(snapshot[n].cache)]

WriteAfterWake(n) ==
    IF snapshot[n] = None THEN [next |-> 0, last |-> None]
    ELSE [next |-> NextAfter(n, Hydrated(n)), last |-> TipOf(Hydrated(n))]

Wake(n) ==
    /\ ~up[n]
    /\ up' = [up EXCEPT ![n] = TRUE]
    /\ cache' = [cache EXCEPT ![n] = Hydrated(n)]
    /\ cursor' = [cursor EXCEPT ![n] = Len(stream[n])]
    /\ lastSeq' = [lastSeq EXCEPT ![n] = Len(stream[n])]
    /\ applied' =
          LET from == IF snapshot[n] = None THEN 0 ELSE snapshot[n].upTo
          IN  [applied EXCEPT ![n] = IF from = Len(stream[n]) THEN 0
                                     ELSE stream[n][Len(stream[n])].sequence + 1]
    /\ write' = [write EXCEPT ![n] = WriteAfterWake(n)]
    /\ doubt' = [doubt EXCEPT ![n] = IF snapshot[n] # None THEN @ \ {"AckLost"}
                                     ELSE IF stream[n] = << >> THEN @
                                     ELSE @ \cup {"Replayed"}]
    /\ UNCHANGED <<stream, window, snapshot>>
=============================================================================
