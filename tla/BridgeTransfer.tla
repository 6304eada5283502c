--------------------------- MODULE BridgeTransfer ---------------------------
(***************************************************************************)
(* A token crosses from one net to another: the source net's loop fires a  *)
(* bridging transition and journals TokenBridgedOut, its store publishes   *)
(* the transfer, and the global bridge listener injects it into the target *)
(* net, both nets keeping their events in a NatsStore.  HTTP terminations  *)
(* of the target inject their cancel request concurrently.                 *)
(* (application/src/{firing,service,idempotency_index}.rs,                 *)
(* nats/src/{event_store,global_bridge_listener,message_loop,dlq}.rs,      *)
(* src/main.rs)                                                            *)
(***************************************************************************)
EXTENDS NatsStore

CONSTANTS
    Source, Target,     \* the two nets
    Loop,               \* the evaluation loop of the source net
    Listener,           \* the global bridge listener, one message at a time
    Canceller,          \* HTTP terminations, each injecting the same cancel request
    CancelId,           \* its dedup_id, terminate-cancel:{execution}
    Cancel,             \* its token
    Work,               \* tokens the source has to fire on
    Unseeded,           \* a DedupIndex whose OnceCell is still empty
    Faults,             \* the faults that may happen
    MaxFaults,          \* bound: faults in one behaviour
    Prompt              \* whether every retry comes within the duplicate window

ASSUME NetAssumption == Net = {Source, Target} /\ Source # Target
ASSUME TokenAssumption == Token = Work \cup {Cancel} /\ Cancel \notin Work
ASSUME CancelAssumption == CancelId \in RequestId /\ RequestId \cap Nat = {}
ASSUME WriterAssumption == Loop # Listener /\ {Loop, Listener} \cap Canceller = {}
ASSUME UnseededAssumption == Unseeded \notin SUBSET DedupId
ASSUME FaultAssumption ==
    /\ Faults \subseteq {"Lost", "AckLost", "Timeout", "Redelivered", "Reconnect", "Reset",
                         "Crash", "Hibernate", "SnapshotLost", "BridgeLost", "MsgAckLost",
                         "DlqLost", "WindowEnds"}
    /\ MaxFaults \in Nat /\ Prompt \in BOOLEAN

Writer == {Loop, Listener} \cup Canceller

VARIABLES
    job,        \* where each writer is in its call
    index,      \* DedupIndex of the target's service
    inbox,      \* transfers on the bridge subject that nobody has acked
    dlq,        \* transfers in the dead-letter stream
    faults,     \* faults so far
    cut         \* history variable: tokens whose firing ended half way

bvars == <<job, index, inbox, dlq, faults, cut>>
vars == <<svars, bvars>>

Transfer == [id : DedupId, token : Work]

Idle == [at |-> "idle", kind |-> "Created", token |-> Cancel, id |-> NoId,
         seq |-> 0, pos |-> None]

Gone == [Idle EXCEPT !.at = "gone"]

Job == [at : {"idle", "append", "wait", "ok", "timeout", "failed", "gone"},
        kind : Kind, token : Token, id : DedupId \cup {NoId}, seq : Nat,
        pos : Nat \cup {None}]

TypeOK ==
    /\ StoreTypeOK
    /\ job \in [Writer -> Job]
    /\ index \in (SUBSET DedupId) \cup {Unseeded}
    /\ inbox \subseteq Transfer
    /\ dlq \subseteq Transfer
    /\ faults \in 0..MaxFaults
    /\ cut \subseteq Work

NetOf(w) == IF w = Loop THEN Source ELSE Target

Init ==
    /\ StoreInit
    /\ job = [w \in Writer |-> Idle]
    /\ index = Unseeded
    /\ inbox = {}
    /\ dlq = {}
    /\ faults = 0
    /\ cut = {}

Fault(f) == f \in Faults /\ faults < MaxFaults /\ faults' = faults + 1

-----------------------------------------------------------------------------
(***************************************************************************)
(* What each caller does with the answer of append.                        *)
(***************************************************************************)
\* The index, seeded from the log the first time it is used.
Known == IF index = Unseeded THEN DedupSeed(Target) ELSE index

\* dedup_id of the transfer: bridge:{net}:{sequence}
TransferId(seq) == seq

\* emit_bridge_out_events follows a firing; a TokenBridgedOut is then published
\* to the target's bridge subject (best effort: a failure is only logged).
LoopReturnsOk ==
    \/ /\ job[Loop].kind = "Fired"
       /\ job' = [job EXCEPT ![Loop] = [Idle EXCEPT !.at = "append", !.kind = "BridgedOut",
                                                    !.token = job[Loop].token]]
       /\ UNCHANGED <<inbox, faults, cut>>
    \/ /\ job[Loop].kind = "BridgedOut"
       /\ job' = [job EXCEPT ![Loop] = Idle]
       /\ \/ /\ inbox' = inbox \cup {[id |-> TransferId(job[Loop].seq),
                                      token |-> job[Loop].token]}
             /\ UNCHANGED <<faults, cut>>
          \/ /\ Fault("BridgeLost")
             /\ cut' = cut \cup {job[Loop].token}
             /\ UNCHANGED inbox

\* A firing that stops once its firing event is stored is cut: nothing takes it
\* up again.  Before that its token is still where it was.
CutWith(log) ==
    IF job[Loop].kind = "BridgedOut" \/ \E i \in DOMAIN log : log[i].token = job[Loop].token
    THEN cut \cup {job[Loop].token} ELSE cut

\* An error ends the evaluation of the loop; terminate only logs it; the
\* listener classifies it.
ReturnsError(w, result) ==
    /\ job' = [job EXCEPT ![w] = IF w = Loop THEN Idle
                                 ELSE IF w = Listener THEN [@ EXCEPT !.at = result]
                                 ELSE Gone]
    /\ cut' = IF w = Loop THEN CutWith(stream'[Source]) ELSE cut
    /\ UNCHANGED <<index, inbox, dlq>>

\* Ok: create_token_with_meta puts the id into the index and returns.
ReturnsOk(w) ==
    \/ w = Loop /\ LoopReturnsOk /\ UNCHANGED <<index, dlq>>
    \/ /\ w # Loop
       /\ index' = Known \cup {job[w].id}
       /\ job' = [job EXCEPT ![w] = IF w = Listener THEN [@ EXCEPT !.at = "ok"] ELSE Gone]
       /\ UNCHANGED <<inbox, dlq, faults, cut>>

-----------------------------------------------------------------------------
(***************************************************************************)
(* append, for whoever calls it.                                           *)
(***************************************************************************)
AtAppend(w) == up[NetOf(w)] /\ job[w].at = "append"

AppendStored(w) ==
    /\ AtAppend(w)
    /\ PublishStored(NetOf(w), job[w].kind, job[w].token, job[w].id)
    /\ job' = [job EXCEPT ![w].at = "wait", ![w].seq = write[NetOf(w)].next,
                          ![w].pos = Len(stream[NetOf(w)]) + 1]
    /\ UNCHANGED <<index, inbox, dlq, faults, cut>>

AppendDuplicate(w) ==
    /\ AtAppend(w)
    /\ PublishDuplicate(NetOf(w), job[w].id)
    /\ ReturnsOk(w)

AppendFails(w) ==
    /\ AtAppend(w)
    /\ \/ Fault("Lost") /\ PublishLost(NetOf(w))
       \/ /\ Fault("AckLost")
          /\ PublishAckLost(NetOf(w), job[w].kind, job[w].token, job[w].id)
    /\ ReturnsError(w, "failed")

AppendApplied(w) ==
    /\ up[NetOf(w)]
    /\ job[w].at = "wait"
    /\ IsApplied(NetOf(w), job[w].seq)
    /\ ReturnsOk(w)
    /\ UNCHANGED svars

\* The five seconds pass: while the consumer lags, or because it has nothing
\* left to apply that could end the wait.
AppendTimesOut(w) ==
    /\ up[NetOf(w)]
    /\ job[w].at = "wait"
    /\ ~IsApplied(NetOf(w), job[w].seq)
    /\ \/ Fault("Timeout")
       \/ cursor[NetOf(w)] = Len(stream[NetOf(w)]) /\ UNCHANGED faults
    /\ UNCHANGED svars
    /\ ReturnsError(w, "timeout")

-----------------------------------------------------------------------------
(***************************************************************************)
(* The callers: the loop of the source, create_token_with_meta on the      *)
(* target.                                                                 *)
(***************************************************************************)
\* The loop fires on a token that its marking still has.
Fire(t) ==
    /\ up[Source]
    /\ job[Loop].at = "idle"
    /\ t \in Work \ Seen(Source, "Fired")
    /\ job' = [job EXCEPT ![Loop] = [Idle EXCEPT !.at = "append", !.kind = "Fired",
                                                 !.token = t]]
    /\ UNCHANGED <<svars, index, inbox, dlq, faults, cut>>

\* The lookup: an id that is known returns the existing event.
CheckIndex(w, t, id, known, unknown) ==
    /\ index' = Known
    /\ job' = [job EXCEPT ![w] = IF id \in Known THEN known ELSE unknown]

Injecting(at, t, id) == [Idle EXCEPT !.at = at, !.token = t, !.id = id]

\* A message is delivered and its net is resolved (woken first: WakeNet).
Receive(m) ==
    /\ up[Target]
    /\ job[Listener].at = "idle"
    /\ m \in inbox
    /\ CheckIndex(Listener, m.token, m.id, Injecting("ok", m.token, m.id),
                  Injecting("append", m.token, m.id))
    /\ UNCHANGED <<svars, inbox, dlq, faults, cut>>

\* terminate injects the cancel request once.
RequestCancel(c) ==
    /\ up[Target]
    /\ job[c].at = "idle"
    /\ CheckIndex(c, Cancel, CancelId, Gone, Injecting("append", Cancel, CancelId))
    /\ UNCHANGED <<svars, inbox, dlq, faults, cut>>

-----------------------------------------------------------------------------
(***************************************************************************)
(* The message loop of the listener.                                       *)
(***************************************************************************)
Delivery == [id |-> job[Listener].id, token |-> job[Listener].token]

Finish(at) == job[Listener].at = at /\ job' = [job EXCEPT ![Listener] = Idle]

\* Mutant: an injected message is not acked.
SettleUnacked ==
    /\ Finish("ok")
    /\ UNCHANGED <<svars, index, inbox, dlq, faults, cut>>

\* Ok: the message is acked; an ack that is lost leaves it to be redelivered.
Settle ==
    /\ Finish("ok")
    /\ \/ inbox' = inbox \ {Delivery} /\ UNCHANGED faults
       \/ Fault("MsgAckLost") /\ UNCHANGED inbox
    /\ UNCHANGED <<svars, index, dlq, cut>>

\* Timeout is Transient: the message is NAKed and comes again.
Nak ==
    /\ Finish("timeout")
    /\ UNCHANGED <<svars, index, inbox, dlq, faults, cut>>

\* Mutant: a failed injection is acked and dropped.
DeadLetterDrops ==
    /\ Finish("failed")
    /\ inbox' = inbox \ {Delivery}
    /\ UNCHANGED <<svars, index, dlq, faults, cut>>

\* Any other error is Business: dead-lettered and acked, or NAKed when the
\* dead-letter stream cannot be reached.
DeadLetter ==
    /\ Finish("failed")
    /\ \/ /\ dlq' = dlq \cup {Delivery}
          /\ inbox' = inbox \ {Delivery}
          /\ UNCHANGED faults
       \/ Fault("DlqLost") /\ UNCHANGED <<dlq, inbox>>
    /\ UNCHANGED <<svars, index, cut>>

-----------------------------------------------------------------------------
(***************************************************************************)
(* The environment.                                                        *)
(***************************************************************************)
NoCaller(n) == \A w \in Writer : NetOf(w) = n => job[w].at \in {"idle", "gone"}

\* The duplicate window (120 s) is longer than any one call.  With Prompt it
\* is longer than any retry too: an id leaves it only when the index has it or
\* will be seeded with it.
EndWindow(id) ==
    /\ Fault("WindowEnds")
    /\ id \in window[Target]
    /\ \A w \in Writer : job[w].id # id
    /\ Prompt => id \in Known
    /\ window' = [window EXCEPT ![Target] = @ \ {id}]
    /\ UNCHANGED <<stream, memory, snapshot, doubt, job, index, inbox, dlq, cut>>

ConsumeNext(n) == Consume(n) /\ UNCHANGED bvars

ConsumerReconnects(n) ==
    /\ Fault("Reconnect")
    /\ Reconnect(n)
    /\ UNCHANGED <<job, index, inbox, dlq, cut>>

ConsumerRedelivers(n) ==
    /\ Fault("Redelivered")
    /\ \E pos \in InCache(n) : Redeliver(n, pos)
    /\ UNCHANGED <<job, index, inbox, dlq, cut>>

Reset(n) ==
    /\ Fault("Reset")
    /\ up[n] /\ NoCaller(n)
    /\ ResetStore(n)
    /\ UNCHANGED <<job, index, inbox, dlq, cut>>

IndexWithout(nets) == index' = IF Target \in nets THEN Unseeded ELSE index

Hibernate(n) ==
    /\ NoCaller(n)
    /\ \/ Fault("Hibernate") /\ HibernateStore(n, TRUE)
       \/ Fault("SnapshotLost") /\ HibernateStore(n, FALSE)
    /\ IndexWithout({n})
    /\ UNCHANGED <<job, inbox, dlq, cut>>

\* The engine process dies with every net and every call in it.
Crash ==
    /\ Fault("Crash")
    /\ Forgotten(Net)
    /\ IndexWithout(Net)
    /\ cut' = IF job[Loop].at = "idle" THEN cut ELSE CutWith(stream[Source])
    /\ job' = [w \in Writer |-> IF w \in Canceller /\ job[w].at # "idle" THEN Gone ELSE Idle]
    /\ UNCHANGED <<snapshot, inbox, dlq>>

WakeNet(n) == Wake(n) /\ UNCHANGED bvars

\* What the engine does when no fault happens.
Progress ==
    \/ \E t \in Work : Fire(t)
    \/ \E m \in inbox : Receive(m)
    \/ Settle \/ Nak \/ DeadLetter
    \/ \E c \in Canceller : RequestCancel(c)
    \/ \E w \in Writer : AppendStored(w) \/ AppendDuplicate(w) \/ AppendApplied(w)
                            \/ AppendTimesOut(w)
    \/ \E n \in Net : ConsumeNext(n) \/ WakeNet(n)

Failure ==
    \/ \E w \in Writer : AppendFails(w)
    \/ \E n \in Net :
          ConsumerReconnects(n) \/ ConsumerRedelivers(n) \/ Reset(n) \/ Hibernate(n)
    \/ \E id \in window[Target] : EndWindow(id)
    \/ Crash

Next == Progress \/ Failure

Spec == Init /\ [][Next]_vars

\* The tasks of the engine are scheduled by tokio and never stay put; a net
\* that is down is woken by the delivery that needs it.
FairSpec == Spec /\ WF_vars(Progress)

-----------------------------------------------------------------------------
(***************************************************************************)
(* Properties                                                              *)
(***************************************************************************)
AppendReturned(w) ==
    /\ job[w].at = "wait"
    /\ job'[w].at # "wait"
    /\ up'[NetOf(w)]
    /\ IsApplied(NetOf(w), job[w].seq)

\* An append that returns Ok after storing its event returns when the event is
\* in the cache, unless the writer's numbering was put off the log's end by a
\* lost ack, a full replay or a reset (NatsEventStore::append).
ReadYourWrites ==
    [][\A w \in Writer :
          AppendReturned(w) /\ doubt[NetOf(w)] \cap {"AckLost", "Replayed", "Reset"} = {}
          => job[w].pos \in InCache(NetOf(w))]_vars

\* The cache holds each event of the stream once and in order, up to the
\* consumer's position ("no double-fold, no loss"), through reconnects, crashes,
\* snapshot wakes and replays; only a redelivered event or a reset breaks it
\* (EventConsumer::start, seed_from_snapshot).
CacheIsLog ==
    \A n \in Net :
        up[n] /\ doubt[n] \cap {"Redelivered", "Reset"} = {}
        => cache[n] = [i \in 1..cursor[n] |-> i]

\* Every event minted by a writer that knew the log's end has the next sequence
\* and the hash of the event before it (append, seed_write_state).
ChainSound ==
    \A n \in Net : \A i \in DOMAIN stream[n] :
        stream[n][i].sound =>
            IF i = 1 THEN stream[n][i].sequence = 0 /\ stream[n][i].previousHash = None
            ELSE /\ stream[n][i].sequence = stream[n][i - 1].sequence + 1
                 /\ stream[n][i].previousHash = i - 1

\* One injection makes one token: redeliveries after a timeout, a lost ack, a
\* crash or the end of the duplicate window, and two terminations at once, never
\* create a second TokenCreated with the same dedup_id, unless a clear of the
\* target emptied the log that the index is seeded from (create_token_with_meta).
OneTokenPerId ==
    "Reset" \notin doubt[Target] =>
        \A i, j \in DOMAIN stream[Target] :
            stream[Target][i].id = stream[Target][j].id => i = j

TokensOf(transfers) == {m.token : m \in transfers}

\* A token that the source has consumed to send it is under way, has arrived, or
\* is in the dead-letter stream.  Only a firing that was cut half way (a crash or
\* an error between the firing event and the transfer), or a source that reuses
\* sequence numbers, loses one (emit_bridge_out_events, publish_bridge_out).
NothingLost ==
    doubt[Source] \cap {"Replayed", "Reset"} = {} =>
        \A t \in Stored(Source, "Fired") :
            \/ job[Loop].at # "idle" /\ job[Loop].token = t
            \/ t \in cut
            \/ t \in TokensOf(inbox) \cup TokensOf(dlq) \cup Stored(Target, "Created")

\* Every transfer is acked in the end, once the faults stop
\* (run_message_loop_cancellable).
EveryTransferSettles == inbox # {} ~> inbox = {}
=============================================================================
