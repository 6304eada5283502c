---------------------------- MODULE NetLifecycle ----------------------------
(***************************************************************************)
(* The instances of one net in the registry: created on demand by the      *)
(* listeners, hibernated by the idle timer, terminated over HTTP, ended by *)
(* their own loop (api/src/net_registry.rs, nats/src/{hibernation,         *)
(* net_metadata,global_bridge_listener,global_signal_listener,             *)
(* message_loop}.rs, src/main.rs).                                         *)
(*                                                                         *)
(* The durable log is a sequence of events about messages; an instance has *)
(* applied a prefix of it.  Sequence numbers and the duplicate window are  *)
(* module BridgeTransfer's: here JetStream drops every second copy.        *)
(***************************************************************************)
EXTENDS Naturals, Sequences, FiniteSets

CONSTANTS
    Message,        \* bridge and signal messages for the net, each from another listener
    Instance,       \* NetInstances in memory at one time (a dead one is reused)
    Timer, Http,    \* who closes an instance: the idle timer, terminate
    None,           \* the absent value of an Option
    Load,           \* bound: the messages that come, how many hibernations and
                    \* terminations, how many failures of the net and crashes
    MaxFirings,     \* bound: how often a token is fired
    MaxPending      \* bound: messages not yet fired when terminate is called

ASSUME ActorAssumption == Timer # Http
ASSUME NoneAssumption == None \notin Instance /\ None \notin Nat
ASSUME BoundAssumption == 
    /\ Load \subseteq [messages : SUBSET Message, closings : Nat, faults : Nat]
    /\ MaxPending \in Nat /\ MaxFirings \in Nat

Closer == {Timer, Http}

VARIABLES
    log,        \* the net's events on JetStream
    meta,       \* the net's status in the metadata KV
    snapshot,   \* last_stream_seq of the hibernation snapshot, or None
    nets,       \* the net's entry in NetRegistry::nets, or None
    inst,       \* the instances
    task,       \* where each message's listener is in process_message
    closing,    \* where each closer is
    queue,      \* messages nobody has acked
    dlq,        \* dead-lettered messages
    touched,    \* a refresh of the activity entry the hibernation master has not seen
    closings, faults,   \* how many more of each there will be
    crashed,    \* history variable: whether the engine has crashed
    abandoned,  \* history variable: instances whose hibernation was aborted
    overlap     \* history variable: whether an instance was published while another
                \* could fire or had fired unseen, or evaluated after its cancellation

durable == <<log, meta, snapshot, queue, dlq>>
vars == <<durable, nets, inst, task, closing, touched, closings, faults, crashed, abandoned, overlap>>

LogEvent == [kind : {"Created", "Fired", "Failed"}, about : Message]
                \cup [kind : {"Cancelled"}, about : {None}]

Dead == [status |-> "none", applied |-> 0, loop |-> "ended", about |-> None, at |-> 0,
         kick |-> FALSE]

NoTask == [at |-> "idle", inst |-> None, pos |-> 0]

NotClosing == [at |-> "off", inst |-> None]

Armed == [at |-> "armed", inst |-> None]

TypeOK ==
    /\ log \in Seq(LogEvent)
    /\ meta \in {"Running", "Failed", "Cancelled"}
    /\ snapshot \in Nat \cup {None}
    /\ nets \in Instance \cup {None}
    /\ inst \in [Instance ->
                   [status : {"none", "building", "live", "cancelled"}, applied : Nat,
                    loop : {"rest", "fire", "wait", "ended"},
                    about : Message \cup {None}, at : Nat, kick : BOOLEAN]]
    /\ task \in [Message -> [at : {"idle", "insert", "inject", "wait"},
                             inst : Instance \cup {None}, pos : Nat]]
    /\ closing \in [Closer -> [at : {"off", "armed", "remove", "wait", "snapshot", "cancel"},
                               inst : Instance \cup {None}]]
    /\ queue \subseteq Message /\ dlq \subseteq Message
    /\ touched \in BOOLEAN /\ crashed \in BOOLEAN /\ overlap \in BOOLEAN
    /\ closings \in Nat /\ faults \in Nat
    /\ abandoned \subseteq Instance

-----------------------------------------------------------------------------
Prefix(i) == SubSeq(log, 1, inst[i].applied)

\* The messages that events of some kinds are about.
Had(events, kinds) == {events[k].about : k \in {j \in DOMAIN events : events[j].kind \in kinds}}

\* The events that consume the token of a message.
Fired(m) == {k \in DOMAIN log : log[k].kind \in {"Fired", "Failed"} /\ log[k].about = m}

\* The tokens an instance's marking holds: created, and not yet consumed.  The
\* bound stops two instances that fire the same token from going on.
Enabled(i) ==
    {m \in Had(Prefix(i), {"Created"}) \ Had(Prefix(i), {"Fired", "Failed"}) :
        Cardinality(Fired(m)) < MaxFirings}

\* Somebody holds the Arc of an instance.
Held(i) ==
    \/ nets = i
    \/ \E m \in Message : task[m].inst = i
    \/ \E c \in Closer : closing[c].inst = i

\* An instance that is not there, or that nothing refers to any more.
Free(i) ==
    /\ inst[i].status \in {"none", "cancelled"}
    /\ inst[i].loop = "ended"
    /\ ~Held(i)

\* A refresh of the activity entry, until no more sleep task will be followed.
Touch == touched' = (closings > 0 \/ closing[Timer].at \notin {"off", "armed"})

\* notify_one: of a loop that is still there.
Notified(i) == inst[i].loop # "ended" \/ inst[i].status = "building"

\* Another instance can still fire, or has fired what this one has not applied.
Overlaps(i) ==
    \/ \E j \in Instance \ {i} : inst[j].loop # "ended"
    \/ \E k \in (inst[i].applied + 1)..Len(log) : log[k].kind \in {"Fired", "Failed"}

Init ==
    /\ log = << >>
    /\ meta = "Running"
    /\ snapshot = None
    /\ nets = None
    /\ inst = [i \in Instance |-> Dead]
    /\ task = [m \in Message |-> NoTask]
    /\ closing = [c \in Closer |-> NotClosing]
    /\ \E load \in Load :
          queue = load.messages /\ closings = load.closings /\ faults = load.faults
    /\ dlq = {}
    /\ touched = FALSE
    /\ crashed = FALSE
    /\ abandoned = {}
    /\ overlap = FALSE

Closing == closings > 0 /\ closings' = closings - 1 /\ UNCHANGED faults
Fault == faults > 0 /\ faults' = faults - 1 /\ UNCHANGED closings

-----------------------------------------------------------------------------
(***************************************************************************)
(* The listeners: resolve_net (the metadata gate, get_or_create, touch),   *)
(* then the injection.                                                     *)
(***************************************************************************)
\* A message of a net that is Completed or Cancelled is dead-lettered.
Gated == meta = "Cancelled"

Reject(m) ==
    /\ Gated
    /\ m \in queue
    /\ task[m].at = "idle"
    /\ queue' = queue \ {m}
    /\ dlq' = dlq \cup {m}
    /\ UNCHANGED <<log, meta, snapshot, nets, inst, task, closing, touched, closings, faults, crashed,
                   abandoned, overlap>>

Takes(m) == ~Gated /\ m \in queue /\ task[m].at = "idle"

\* The fast path of get_or_create.
Resolve(m) ==
    /\ Takes(m)
    /\ nets # None
    /\ task' = [task EXCEPT ![m] = [NoTask EXCEPT !.at = "inject", !.inst = nets]]
    /\ Touch
    /\ UNCHANGED <<durable, nets, inst, closing, closings, faults, crashed, abandoned, overlap>>

\* Its slow path: the stores are built and hydrated outside the registry lock.
\* Replaying at least one event leaves the watch channel changed, which will
\* kick the loop.
Build(m) ==
    /\ Takes(m)
    /\ nets = None
    /\ \E i \in Instance :
          /\ Free(i)
          /\ \A j \in Instance : Free(j) => i <= j
          /\ inst' = [inst EXCEPT ![i] =
                [Dead EXCEPT !.status = "building", !.applied = Len(log),
                             !.kick = Len(log) > (IF snapshot = None THEN 0 ELSE snapshot)]]
          /\ task' = [task EXCEPT ![m] = [NoTask EXCEPT !.at = "insert", !.inst = i]]
          /\ abandoned' = abandoned \ {i}
    /\ UNCHANGED <<durable, nets, closing, touched, closings, faults, crashed, overlap>>

\* Mutant: the loser of the race keeps its consumer and its stores.
InsertKeepsLoser(m) ==
    /\ task[m].at = "insert"
    /\ Touch
    /\ IF nets # None
       THEN /\ task' = [task EXCEPT ![m].at = "inject", ![m].inst = nets]
            /\ UNCHANGED <<inst, nets, overlap>>
       ELSE /\ nets' = task[m].inst
            /\ inst' = [inst EXCEPT ![task[m].inst].status = "live", ![task[m].inst].loop = "rest"]
            /\ task' = [task EXCEPT ![m].at = "inject"]
            /\ overlap' = (overlap \/ Overlaps(task[m].inst))
    /\ UNCHANGED <<durable, closing, closings, faults, crashed, abandoned>>

\* Under the registry lock: another call may have been faster, and then this
\* one's token is cancelled; otherwise the instance is published and its loop
\* spawned, Running since a woken net has its topology.
Insert(m) ==
    /\ task[m].at = "insert"
    /\ Touch
    /\ IF nets # None
       THEN /\ inst' = [inst EXCEPT ![task[m].inst] = Dead]
            /\ task' = [task EXCEPT ![m].at = "inject", ![m].inst = nets]
            /\ UNCHANGED <<nets, overlap>>
       ELSE /\ nets' = task[m].inst
            /\ inst' = [inst EXCEPT ![task[m].inst].status = "live", ![task[m].inst].loop = "rest"]
            /\ task' = [task EXCEPT ![m].at = "inject"]
            /\ overlap' = (overlap \/ Overlaps(task[m].inst))
    /\ UNCHANGED <<durable, closing, closings, faults, crashed, abandoned>>

\* Ok: the message is acked.
Ack(m) ==
    /\ queue' = queue \ {m}
    /\ task' = [task EXCEPT ![m] = NoTask]
    /\ Touch

\* The ids the idempotency index of an instance knows: the ones it has applied.
Known(i) == Had(Prefix(i), {"Created"})

\* create_token_with_meta with an id its index knows: Ok; the listener wakes the
\* loop all the same.
InjectKnown(m) ==
    LET i == task[m].inst
    IN  /\ task[m].at = "inject"
        /\ m \in Known(i)
        /\ inst' = [inst EXCEPT ![i].kick = Notified(i)]
        /\ Ack(m)
        /\ UNCHANGED <<log, meta, snapshot, dlq, nets, closing, closings, faults, crashed, abandoned, overlap>>

\* The append: stored, or dropped by JetStream as a duplicate and then Ok.
InjectNew(m) ==
    LET i == task[m].inst
    IN  /\ task[m].at = "inject"
        /\ m \notin Known(i)
        /\ IF m \in Had(log, {"Created"})
           THEN /\ inst' = [inst EXCEPT ![i].kick = Notified(i)]
                /\ Ack(m)
                /\ UNCHANGED log
           ELSE /\ log' = Append(log, [kind |-> "Created", about |-> m])
                /\ task' = [task EXCEPT ![m].at = "wait", ![m].pos = Len(log) + 1]
                /\ UNCHANGED <<queue, inst, touched>>
        /\ UNCHANGED <<meta, snapshot, dlq, nets, closing, closings, faults, crashed, abandoned, overlap>>

\* The consumer has applied the event: the loop is notified.
InjectApplied(m) ==
    LET i == task[m].inst
    IN  /\ task[m].at = "wait"
        /\ inst[i].applied >= task[m].pos
        /\ inst' = [inst EXCEPT ![i].kick = Notified(i)]
        /\ Ack(m)
        /\ UNCHANGED <<log, meta, snapshot, dlq, nets, closing, closings, faults, crashed, abandoned, overlap>>

\* Mutant: the wait has no timeout.
InjectWaitsForever(m) ==
    /\ task[m].at = "wait"
    /\ inst[task[m].inst].status = "none"
    /\ UNCHANGED vars

\* The instance's consumer is gone: the wait times out, the message is NAKed
\* and comes again.
InjectTimesOut(m) ==
    LET i == task[m].inst
    IN  /\ task[m].at = "wait"
        /\ inst[i].status = "cancelled"
        /\ inst[i].applied < task[m].pos
        /\ inst' = [inst EXCEPT ![i].kick = Notified(i)]
        /\ task' = [task EXCEPT ![m] = NoTask]
        /\ Touch
        /\ UNCHANGED <<durable, nets, closing, closings, faults, crashed, abandoned, overlap>>

-----------------------------------------------------------------------------
(***************************************************************************)
(* The tasks of an instance: its consumer, the bridge from the consumer to *)
(* the loop, and the loop.                                                 *)
(***************************************************************************)
Consume(i) ==
    /\ inst[i].status \in {"building", "live"}
    /\ inst[i].applied < Len(log)
    /\ inst' = [inst EXCEPT ![i].applied = @ + 1, ![i].kick = Notified(i)]
    /\ UNCHANGED <<durable, nets, task, closing, touched, closings, faults, crashed, abandoned, overlap>>

\* The loop fires one of the enabled tokens, or has none left and goes to sleep.
Step(i, from) ==
    IF Enabled(i) = {}
    THEN inst' = [inst EXCEPT ![i] = [from EXCEPT !.loop = "rest", !.about = None, !.at = 0]]
    ELSE \E m \in Enabled(i) :
            inst' = [inst EXCEPT ![i] = [from EXCEPT !.loop = "fire", !.about = m, !.at = 0]]

\* A notified loop evaluates; select! may let even a cancelled one do so.
Evaluate(i) ==
    /\ inst[i].loop = "rest"
    /\ inst[i].kick
    /\ Step(i, [inst[i] EXCEPT !.kick = FALSE])
    /\ overlap' = (overlap \/ inst[i].status = "cancelled")
    /\ UNCHANGED <<durable, nets, task, closing, touched, closings, faults, crashed, abandoned>>

\* Mutant: the step is cleared before it is journalled.
FireCleared(i) ==
    /\ inst[i].loop = "fire"
    /\ log' = Append(log, [kind |-> "Fired", about |-> None])
    /\ inst' = [inst EXCEPT ![i].loop = "wait", ![i].at = Len(log) + 1]
    /\ UNCHANGED <<meta, snapshot, queue, dlq, nets, task, closing, touched, closings, faults, crashed,
                   abandoned, overlap>>

\* The firing's event is published, whether or not the token was cancelled in
\* the meantime: the loop looks at it only between two evaluations.
Fire(i) ==
    /\ inst[i].loop = "fire"
    /\ log' = Append(log, [kind |-> "Fired", about |-> inst[i].about])
    /\ inst' = [inst EXCEPT ![i].loop = "wait", ![i].at = Len(log) + 1]
    /\ UNCHANGED <<meta, snapshot, queue, dlq, nets, task, closing, touched, closings, faults, crashed,
                   abandoned, overlap>>

\* Mutant: the evaluation goes on before its event is applied.
FireReturnsEarly(i) ==
    /\ inst[i].loop = "wait"
    /\ Step(i, inst[i])
    /\ UNCHANGED <<durable, nets, task, closing, touched, closings, faults, crashed, abandoned, overlap>>

\* The append returns and the evaluation goes on with its next step; or it
\* times out because the consumer is gone, which ends the evaluation.
FireReturns(i) ==
    /\ inst[i].loop = "wait"
    /\ IF inst[i].applied >= inst[i].at
       THEN Step(i, inst[i])
       ELSE /\ inst[i].status = "cancelled"
            /\ inst' = [inst EXCEPT ![i].loop = "rest", ![i].about = None, ![i].at = 0]
    /\ UNCHANGED <<durable, nets, task, closing, touched, closings, faults, crashed, abandoned, overlap>>

\* A permanent failure: the token is consumed, NetFailed is journalled, the
\* loop cancels the token and ends.  The instance stays in the registry.
Fail(i) ==
    /\ Fault
    /\ inst[i].loop = "fire"
    /\ log' = Append(log, [kind |-> "Failed", about |-> inst[i].about])
    /\ inst' = [inst EXCEPT ![i].loop = "ended", ![i].status = "cancelled", ![i].about = None]
    /\ UNCHANGED <<meta, snapshot, queue, dlq, nets, task, closing, touched, crashed, abandoned, overlap>>

LoopEnds(i) ==
    /\ inst[i].loop = "rest"
    /\ inst[i].status = "cancelled"
    /\ inst' = [inst EXCEPT ![i] = IF Held(i) THEN [@ EXCEPT !.loop = "ended", !.kick = FALSE]
                                            ELSE Dead]
    /\ UNCHANGED <<durable, nets, task, closing, touched, closings, faults, crashed, abandoned, overlap>>

-----------------------------------------------------------------------------
(***************************************************************************)
(* hibernate: remove, write the snapshot, cancel.  The idle timer calls it *)
(* when the activity entry is old; terminate calls it after NetCancelled.  *)
(***************************************************************************)
\* Calls and evaluations are shorter than the idle timeout, so those that began
\* before the last refresh have ended: the loop rests, no delivery holds the instance or still builds another one.
AtRest(i) ==
    /\ inst[i].loop \in {"rest", "ended"}
    /\ inst[i].kick => inst[i].loop = "ended"
    /\ \A m \in Message : task[m].inst # i /\ task[m].at # "insert"

\* The sleep task has slept and read an activity entry that is old.
IdleTimeout ==
    /\ closing[Timer].at = "armed"
    /\ ~touched
    /\ nets # None
    /\ AtRest(nets)
    /\ Closing
    /\ closing' = [closing EXCEPT ![Timer].at = "remove"]
    /\ UNCHANGED <<durable, nets, inst, task, touched, crashed, abandoned, overlap>>

\* hibernate removes whatever instance is registered now.
RemoveIdle ==
    /\ closing[Timer].at = "remove"
    /\ closing' = [closing EXCEPT ![Timer] =
          IF nets = None THEN NotClosing ELSE [at |-> "snapshot", inst |-> nets]]
    /\ nets' = None
    /\ UNCHANGED <<durable, inst, task, touched, closings, faults, crashed, abandoned, overlap>>

\* Best effort: a snapshot that cannot be written leaves the old one.  (That
\* of a terminated net is deleted at once, and left out.)
WriteSnapshot ==
    /\ closing[Timer].at = "snapshot"
    /\ snapshot' \in {snapshot, inst[closing[Timer].inst].applied}
    /\ closing' = [closing EXCEPT ![Timer].at = "cancel"]
    /\ UNCHANGED <<log, meta, queue, dlq, nets, inst, task, touched, closings, faults, crashed, abandoned, overlap>>

\* terminate then deletes the snapshot.
CancelToken(c) ==
    /\ closing[c].at = "cancel"
    /\ inst' = [inst EXCEPT ![closing[c].inst].status = "cancelled"]
    /\ closing' = [closing EXCEPT ![c] = NotClosing]
    /\ snapshot' = IF c = Http THEN None ELSE snapshot
    /\ UNCHANGED <<log, meta, queue, dlq, nets, task, touched, closings, faults, crashed, abandoned, overlap>>

\* The hibernation master sees the refreshed activity entry and spawns a new
\* sleep task; the old one is aborted wherever it waits, also inside hibernate.
Rearm ==
    /\ touched
    /\ touched' = FALSE
    /\ abandoned' = abandoned \cup ({closing[Timer].inst} \ {None})
    /\ closing' = [closing EXCEPT ![Timer] = Armed]
    /\ UNCHANGED <<durable, nets, inst, task, closings, faults, crashed, overlap>>

\* terminate publishes NetCancelled through the instance it found; the in-net
\* cancellation and the finalizers before it are module EvalLoop's.
Terminate ==
    /\ closing[Http].at = "off"
    /\ nets # None
    /\ Cardinality({m \in Message : Fired(m) = {}}) <= MaxPending
    /\ Closing
    /\ log' = Append(log, [kind |-> "Cancelled", about |-> None])
    /\ closing' = [closing EXCEPT ![Http] = [at |-> "wait", inst |-> nets]]
    /\ UNCHANGED <<meta, snapshot, queue, dlq, nets, inst, task, touched, crashed, abandoned, overlap>>

\* The append returns and hibernate removes whatever instance is registered
\* now; or the append timed out, or there is none, and terminate returns an error.
RemoveTerminated ==
    LET i == closing[Http].inst
        applied == Had(Prefix(i), {"Cancelled"}) # {}
    IN  /\ closing[Http].at = "wait"
        /\ applied \/ inst[i].status = "cancelled"
        /\ IF applied /\ nets # None
           THEN /\ closing' = [closing EXCEPT ![Http] = [at |-> "cancel", inst |-> nets]]
                /\ nets' = None
                /\ UNCHANGED snapshot
           ELSE /\ closing' = [closing EXCEPT ![Http] = NotClosing]
                /\ snapshot' = IF applied THEN None ELSE snapshot
                /\ UNCHANGED nets
        /\ UNCHANGED <<log, meta, queue, dlq, inst, task, touched, closings, faults, crashed, abandoned, overlap>>

-----------------------------------------------------------------------------
\* The metadata projection, a durable consumer of its own, reaches a terminal event.
Project ==
    \E status \in {"Failed", "Cancelled"} :
        /\ meta # status
        /\ \E k \in DOMAIN log :
              /\ log[k].kind = status
              /\ \A j \in (k + 1)..Len(log) : log[j].kind \notin {"Failed", "Cancelled"}
        /\ meta' = status
        /\ UNCHANGED <<log, snapshot, queue, dlq, nets, inst, task, closing, touched, closings, faults, crashed,
                       abandoned, overlap>>

\* The process dies; the hibernation master of the next one starts a sleep task
\* for every activity entry.
Crash ==
    /\ Fault
    /\ nets' = None
    /\ inst' = [i \in Instance |-> Dead]
    /\ task' = [m \in Message |-> NoTask]
    /\ closing' = [c \in Closer |-> IF c = Timer THEN Armed ELSE NotClosing]
    /\ touched' = FALSE
    /\ abandoned' = {}
    /\ crashed' = TRUE
    /\ UNCHANGED <<durable, overlap>>

Progress ==
    \/ \E m \in Message :
          \/ Reject(m) \/ Resolve(m) \/ Build(m) \/ Insert(m) \/ InjectKnown(m) \/ InjectNew(m)
          \/ InjectApplied(m) \/ InjectTimesOut(m)
    \/ \E i \in Instance : Consume(i) \/ Evaluate(i) \/ Fire(i) \/ FireReturns(i) \/ LoopEnds(i)
    \/ \E c \in Closer : CancelToken(c)
    \/ RemoveIdle \/ WriteSnapshot \/ RemoveTerminated \/ Rearm \/ Project

Next ==
    \/ Progress
    \/ \E i \in Instance : Fail(i)
    \/ IdleTimeout \/ Terminate \/ Crash

Spec == Init /\ [][Next]_vars

\* Every task of the engine that can run does run in the end.
FairSpec == Spec /\ WF_vars(Progress)
-----------------------------------------------------------------------------
(***************************************************************************)
(* Properties                                                              *)
(***************************************************************************)
\* No instance is left behind: one whose token was never cancelled is in the
\* registry, is being built or closed by some call, or lost its hibernation to
\* an abort of the sleep task (get_or_create, hibernate, terminate).
NoOrphan ==
    \A i \in Instance :
        inst[i].status \in {"building", "live"} =>
            \/ nets = i
            \/ i \in abandoned
            \/ \E m \in Message : task[m].at = "insert" /\ task[m].inst = i
            \/ \E c \in Closer : closing[c].inst = i

\* A token is fired twice only if two instances of the net could fire at one
\* time: racing creations, redeliveries, failures and crashes never fire one
\* again (get_or_create, spawn_net_evaluation_loop).
FiredOnceUnlessOverlap == overlap \/ \A m \in Message : Cardinality(Fired(m)) <= 1

\* A message is acked or dead-lettered in the end, whatever closes under it.
EveryMessageSettles == \A m \in Message : m \in queue ~> m \notin queue

\* A token that was injected is fired in the end, unless the net ends or its
\* engine dies: no hibernation strands it without a wake-up.
EveryTokenFires ==
    \A m \in Message :
        m \in Had(log, {"Created"}) ~>
            (Fired(m) # {} \/ crashed \/ Had(log, {"Failed", "Cancelled"}) # {})
=============================================================================
