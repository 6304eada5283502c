---------------------------- MODULE ExecutorJob ----------------------------
(***************************************************************************)
(* One automated step, from its net to the workers and back: the executor  *)
(* lifecycle and retry topology of the step (engine/sdk/src/components/    *)
(* executor_lifecycle.rs, service/src/compiler/rhai_gen.rs), the job queue *)
(* (engine/core-engine/crates/executor/src/client.rs and the vendored      *)
(* apalis-nats), the worker (executor/crates/executor-worker) and the      *)
(* watcher that turns status updates into signals (engine/core-engine/     *)
(* crates/executor/src/watcher.rs).                                        *)
(*                                                                         *)
(* Failed and timed-out attempts are normalised into the failure place at  *)
(* once, the backoff timer of a retry is a delay, and what a job produces  *)
(* is left out.  A status reaches its signal place at most once: the       *)
(* message ids are deterministic (module BridgeTransfer).  The time it     *)
(* takes there is the time until the net looks into the place.             *)
(***************************************************************************)
EXTENDS Naturals, Sequences

CONSTANTS
    Slot,           \* concurrent job slots of the workers; one stands for its
                    \* process and for its host
    None,
    Layout,         \* bound: where the slots are, the CleanupPolicy, the retry
                    \* policy and the faults that may occur, once each
    MaxDeliver      \* max_deliver of the queue's consumer

Fault == {"submit lost", "submit unacked", "cancel failed", "lost status", "disk",
          "lost ack", "stall", "crash", "crash in run"}

ASSUME LayoutAssumption ==
    Layout \subseteq [proc : [Slot -> Slot], host : [Slot -> Slot],
                      cleanup : {"immediate", "on_success", "retain"},
                      retries : Nat, faults : SUBSET Fault]
ASSUME HostAssumption ==    \* a process runs on one host
    \A l \in Layout, s, t \in Slot : l.proc[s] = l.proc[t] => l.host[s] = l.host[t]
ASSUME NoneAssumption == None \notin Slot
ASSUME MaxDeliverAssumption == MaxDeliver \in Nat \ {0}

VARIABLES
    layout,     \* see Layout
    net,        \* the job token of the step: its place, execution_id, retries
    execs,      \* execution ids handed out so far
    asked,      \* execution_id of the token in cancel_request, or 0
    sigs,       \* tokens in the signal places
    seen,       \* status updates published: each became one token
    msgs,       \* the work queue: every message published to it
    run,        \* what each slot does
    locks,      \* run directories that exist: <<host, execution_id>>
    registry,   \* each process's CancellationRegistry
    fired,      \* slots whose cancellation token is cancelled
    cancels,    \* cancel messages under way: <<process, execution_id>>
    faults      \* faults so far

netVars == <<net, execs, asked>>
bus == <<sigs, seen>>
worker == <<run, locks, registry, fired>>
vars == <<layout, netVars, bus, msgs, worker, cancels, faults>>

\* A retry takes a new execution_id; an effect error may dispatch one again.
MaxExecs == 1 + layout.retries

Exec == 1..MaxExecs

Status == {"accepted", "running", "completed", "failed", "timed_out", "cancelled"}

Update == Exec \X Status

Message == [exec : Exec, state : {"ready", "flight", "acked", "spent"}, delivered : 0..MaxDeliver]

Idle == [pc |-> "idle", msg |-> 0, outcome |-> "none"]

Settled == net.at \in {"completed", "cancelled", "error", "dead_letter"}

TypeOK ==
    /\ layout \in Layout
    /\ net \in [at : {"inbox", "submitted", "accepted", "running", "cancelling", "failure",
                      "effect_errors", "completed", "cancelled", "error", "dead_letter"},
                exec : 0..MaxExecs, retries : 0..layout.retries]
    /\ execs \in 0..MaxExecs /\ asked \in 0..MaxExecs
    /\ seen \subseteq Update /\ sigs \subseteq seen
    /\ msgs \in Seq(Message)
    /\ run \in [Slot -> [pc : {"idle", "accept", "lock", "stage", "body", "running", "report",
                               "unstage", "deregister", "cleanup", "ack"},
                         msg : 0..Len(msgs), outcome : Status \cup {"none"}]]
    /\ locks \subseteq Slot \X Exec
    /\ registry \in [Slot -> [Exec -> Slot \cup {None}]]
    /\ fired \subseteq Slot /\ cancels \subseteq Slot \X Exec
    /\ faults \subseteq layout.faults

Init ==
    /\ layout \in Layout
    /\ net = [at |-> "inbox", exec |-> 0, retries |-> 0]
    /\ execs = 0 /\ asked = 0 /\ sigs = {} /\ seen = {}
    /\ msgs = << >>
    /\ run = [s \in Slot |-> Idle]
    /\ locks = {} /\ fired = {} /\ cancels = {}
    /\ registry = [p \in Slot |-> [e \in Exec |-> None]]
    /\ faults = {}

Faulty(kind) ==
    /\ kind \in layout.faults \ faults
    /\ faults' = faults \cup {kind}

-----------------------------------------------------------------------------
(***************************************************************************)
(* The step's net.                                                         *)
(***************************************************************************)
\* submit: executor_submit honours an execution_id on the token and otherwise
\* makes one.  Nats-Msg-Id is the execution_id, so inside the stream's duplicate
\* window a second publish of one is acknowledged and dropped.
Enqueue(e) == msgs' = Append(msgs, [exec |-> e, state |-> "ready", delivered |-> 0])

Submit ==
    LET e == IF net.exec = 0 THEN execs + 1 ELSE net.exec
        Failed == net' = [net EXCEPT !.at = "effect_errors"]
    IN  /\ net.at = "inbox"
        /\ execs' = IF net.exec = 0 THEN execs + 1 ELSE execs
        /\ \/ /\ \/ Enqueue(e)
                 \/ net.exec # 0 /\ UNCHANGED msgs
              /\ net' = [net EXCEPT !.at = "submitted", !.exec = e]
              /\ UNCHANGED faults
           \/ Failed /\ Faulty("submit lost") /\ UNCHANGED msgs
           \/ Failed /\ Faulty("submit unacked") /\ Enqueue(e)
        /\ UNCHANGED <<layout, asked, bus, worker, cancels>>

\* A Fatal error of the handler, then dlq_effect_err.
SubmitRefused ==
    /\ net.at = "inbox"
    /\ net' = [net EXCEPT !.at = "dead_letter"]
    /\ UNCHANGED <<layout, execs, asked, bus, msgs, worker, cancels, faults>>

\* retry_effect_err and dlq_effect_err: one place takes the errors of submit and
\* of cancel, and the job goes back to the inbox with what is on its token.
RecoverEffectError ==
    /\ net.at = "effect_errors"
    /\ net' = IF net.retries < layout.retries
              THEN [net EXCEPT !.at = "inbox", !.retries = @ + 1]
              ELSE [net EXCEPT !.at = "dead_letter"]
    /\ UNCHANGED <<layout, execs, asked, bus, msgs, worker, cancels, faults>>

\* A transition that joins the job with a signal of the same execution_id.
Correlate(from, signal, to) ==
    /\ net.at = from /\ <<net.exec, signal>> \in sigs
    /\ net' = [net EXCEPT !.at = to]
    /\ sigs' = sigs \ {<<net.exec, signal>>}
    /\ UNCHANGED <<layout, execs, asked, seen, msgs, worker, cancels, faults>>

\* t_accepted, t_running, t_success
Track ==
    \/ Correlate("submitted", "accepted", "accepted")
    \/ Correlate("accepted", "running", "running")
    \/ Correlate("running", "completed", "completed")

\* Mutant: the pre_run siblings are missing.
AttemptFailsRunning == \E st \in {"failed", "timed_out"} : Correlate("running", st, "failure")

\* t_failed, t_timeout and their pre_run siblings
AttemptFails ==
    \E st \in {"failed", "timed_out"}, from \in {"accepted", "running"} :
        Correlate(from, st, "failure")

\* Mutant: the guard of retry is lost.
RetryAlways ==
    /\ net.at = "failure"
    /\ net' = [at |-> "inbox", exec |-> 0, retries |-> net.retries + 1]
    /\ UNCHANGED <<layout, execs, asked, bus, msgs, worker, cancels, faults>>

\* retry: the execution_id is not carried over.
Retry ==
    /\ net.at = "failure" /\ net.retries < layout.retries
    /\ net' = [at |-> "inbox", exec |-> 0, retries |-> net.retries + 1]
    /\ UNCHANGED <<layout, execs, asked, bus, msgs, worker, cancels, faults>>

\* exhausted and exhausted_deadend
Exhausted ==
    /\ net.at = "failure" /\ net.retries >= layout.retries
    /\ net' = [net EXCEPT !.at = "error"]
    /\ UNCHANGED <<layout, execs, asked, bus, msgs, worker, cancels, faults>>

\* A cancel request arrives for the execution under way.
AskCancel ==
    /\ asked = 0 /\ net.at \in {"submitted", "accepted", "running"}
    /\ asked' = net.exec
    /\ UNCHANGED <<layout, net, execs, bus, msgs, worker, cancels, faults>>

\* cancel: only a running job.  Every process has its own consumer.
Cancel ==
    /\ net.at = "running" /\ asked = net.exec
    /\ asked' = 0
    /\ \/ /\ net' = [net EXCEPT !.at = "cancelling"]
          /\ cancels' = cancels \cup {<<layout.proc[s], net.exec>> : s \in Slot}
          /\ UNCHANGED faults
       \/ /\ net' = [net EXCEPT !.at = "effect_errors"]
          /\ Faulty("cancel failed") /\ UNCHANGED cancels
    /\ UNCHANGED <<layout, execs, bus, msgs, worker>>

Cancelled == Correlate("cancelling", "cancelled", "cancelled")

-----------------------------------------------------------------------------
(***************************************************************************)
(* The worker.                                                             *)
(***************************************************************************)
ExecOf(s) == msgs[run[s].msg].exec

\* The watcher relays an update, and the listener makes a token of it.
Signal(u) ==
    /\ seen' = seen \cup {u}
    /\ sigs' = sigs \cup ({u} \ seen)

\* report: a publish that fails is logged and forgotten.
Report(s, st) ==
    \/ Signal(<<ExecOf(s), st>>) /\ UNCHANGED faults
    \/ Faulty("lost status") /\ UNCHANGED bus

\* The queue hands a message to a free slot.
Receive(s, i) ==
    /\ run[s].pc = "idle" /\ msgs[i].state = "ready"
    /\ msgs' = [msgs EXCEPT ![i].state = "flight", ![i].delivered = @ + 1]
    /\ run' = [run EXCEPT ![s] = [Idle EXCEPT !.pc = "accept", !.msg = i]]
    /\ UNCHANGED <<layout, netVars, bus, locks, registry, fired, cancels, faults>>

Accept(s) ==
    /\ run[s].pc = "accept"
    /\ Report(s, "accepted")
    /\ run' = [run EXCEPT ![s].pc = "lock"]
    /\ UNCHANGED <<layout, netVars, msgs, locks, registry, fired, cancels>>

\* No backend supports the spec.
Unsupported(s) ==
    /\ run[s].pc = "lock"
    /\ Report(s, "failed")
    /\ run' = [run EXCEPT ![s].pc = "ack"]
    /\ UNCHANGED <<layout, netVars, msgs, locks, registry, fired, cancels>>

RunDir(s) == <<layout.host[s], ExecOf(s)>>

\* Mutant: the lock file is opened without create_new.
TakeLockShared(s) ==
    /\ run[s].pc = "lock"
    /\ locks' = locks \cup {RunDir(s)}
    /\ registry' = [registry EXCEPT ![layout.proc[s]][ExecOf(s)] = s]
    /\ run' = [run EXCEPT ![s].pc = "stage"]
    /\ UNCHANGED <<layout, netVars, bus, msgs, fired, cancels, faults>>

\* The winner of the run directory's lock registers its cancellation token.
TakeLock(s) ==
    /\ run[s].pc = "lock" /\ RunDir(s) \notin locks
    /\ locks' = locks \cup {RunDir(s)}
    /\ registry' = [registry EXCEPT ![layout.proc[s]][ExecOf(s)] = s]
    /\ run' = [run EXCEPT ![s].pc = "stage"]
    /\ UNCHANGED <<layout, netVars, bus, msgs, fired, cancels, faults>>

\* Mutant: a skipped duplicate registers before it tries the lock.
SkipDuplicateRegistered(s) ==
    /\ run[s].pc = "lock" /\ RunDir(s) \in locks
    /\ registry' = [registry EXCEPT ![layout.proc[s]][ExecOf(s)] = None]
    /\ run' = [run EXCEPT ![s].pc = "ack"]
    /\ UNCHANGED <<layout, netVars, bus, msgs, locks, fired, cancels, faults>>

\* The loser returns Failed and reports nothing.
SkipDuplicate(s) ==
    /\ run[s].pc = "lock" /\ RunDir(s) \in locks
    /\ run' = [run EXCEPT ![s].pc = "ack"]
    /\ UNCHANGED <<layout, netVars, bus, msgs, locks, registry, fired, cancels, faults>>

\* create_dir_all fails: nothing is reported either.
NoRunDir(s) ==
    /\ run[s].pc = "lock" /\ Faulty("disk")
    /\ run' = [run EXCEPT ![s].pc = "ack"]
    /\ UNCHANGED <<layout, netVars, bus, msgs, locks, registry, fired, cancels>>

\* The staging pipeline; when it fails the run directory stays.
Stage(s) ==
    /\ run[s].pc = "stage"
    /\ \/ run' = [run EXCEPT ![s].pc = "body"] /\ UNCHANGED <<bus, faults>>
       \/ run' = [run EXCEPT ![s].pc = "unstage"] /\ Report(s, "failed")
    /\ UNCHANGED <<layout, netVars, msgs, locks, registry, fired, cancels>>

\* The backend's status callback.
Running(s) ==
    /\ run[s].pc = "body"
    /\ Report(s, "running")
    /\ run' = [run EXCEPT ![s].pc = "running"]
    /\ UNCHANGED <<layout, netVars, msgs, locks, registry, fired, cancels>>

\* Mutant: a timeout is reported while the child goes on.
BodyEndsOrLingers(s, o) ==
    /\ run[s].pc \in {"body", "running"}
    /\ o = "completed" => run[s].pc = "running"
    /\ o = "cancelled" => s \in fired
    /\ IF o = "timed_out" /\ run[s].pc = "running"
       THEN Report(s, o) /\ UNCHANGED run
       ELSE run' = [run EXCEPT ![s].pc = "report", ![s].outcome = o] /\ UNCHANGED <<bus, faults>>
    /\ UNCHANGED <<layout, netVars, msgs, locks, registry, fired, cancels>>

\* backend.execute returns: it selects on the child's exit, the timeout and the
\* cancellation token.
BodyEnds(s, o) ==
    /\ run[s].pc \in {"body", "running"}
    /\ o = "completed" => run[s].pc = "running"
    /\ o = "cancelled" => s \in fired
    /\ run' = [run EXCEPT ![s].pc = "report", ![s].outcome = o]
    /\ UNCHANGED <<layout, netVars, bus, msgs, locks, registry, fired, cancels, faults>>

ReportTerminal(s) ==
    /\ run[s].pc = "report"
    /\ Report(s, run[s].outcome)
    /\ run' = [run EXCEPT ![s].pc = "deregister"]
    /\ UNCHANGED <<layout, netVars, msgs, locks, registry, fired, cancels>>

Deregister(s) ==
    /\ run[s].pc \in {"unstage", "deregister"}
    /\ registry' = [registry EXCEPT ![layout.proc[s]][ExecOf(s)] = None]
    /\ run' = [run EXCEPT ![s].pc = IF @ = "unstage" THEN "ack" ELSE "cleanup"]
    /\ UNCHANGED <<layout, netVars, bus, msgs, locks, fired, cancels, faults>>

\* The run directory goes, and the lock file with it.
CleanUp(s) ==
    /\ run[s].pc = "cleanup"
    /\ locks' = IF \/ layout.cleanup = "immediate"
                   \/ layout.cleanup = "on_success" /\ run[s].outcome = "completed"
                THEN locks \ {RunDir(s)} ELSE locks
    /\ run' = [run EXCEPT ![s].pc = "ack"]
    /\ UNCHANGED <<layout, netVars, bus, msgs, registry, fired, cancels, faults>>

\* handle_execution returns Ok whatever happened, so the message is acknowledged.
Ack(s) ==
    /\ run[s].pc = "ack"
    /\ \/ msgs' = [msgs EXCEPT ![run[s].msg].state = "acked"] /\ UNCHANGED faults
       \/ Faulty("lost ack") /\ UNCHANGED msgs
    /\ run' = [run EXCEPT ![s] = Idle]
    /\ fired' = fired \ {s}
    /\ UNCHANGED <<layout, netVars, bus, locks, registry, cancels>>

\* ack_wait ends.  A slot's progress heartbeats prevent it unless they stall.
AckWaitEnds(i) ==
    /\ msgs[i].state = "flight"
    /\ IF \E s \in Slot : run[s].msg = i THEN Faulty("stall") ELSE UNCHANGED faults
    /\ msgs' = [msgs EXCEPT ![i].state = IF @ = "flight" /\ msgs[i].delivered < MaxDeliver
                                         THEN "ready" ELSE "spent"]
    /\ UNCHANGED <<layout, netVars, bus, worker, cancels>>

\* The cancel listener of a process: an unknown execution is ignored.
Listen(p, e) ==
    /\ <<p, e>> \in cancels
    /\ cancels' = cancels \ {<<p, e>>}
    /\ fired' = fired \cup ({registry[p][e]} \ {None})
    /\ UNCHANGED <<layout, netVars, bus, msgs, run, locks, registry, faults>>

HasLock(s) == run[s].pc \in {"stage", "body", "running", "report", "unstage", "deregister", "cleanup"}

\* A process dies: a crash, or a drain whose idle timeout and 30 s of grace a
\* longer job outlives.  Its run directories stay.
Die(p) ==
    LET gone == {s \in Slot : layout.proc[s] = p}
    IN  /\ \E s \in gone : run[s] # Idle
        /\ Faulty(IF \E s \in gone : HasLock(s) THEN "crash in run" ELSE "crash")
        /\ run' = [s \in Slot |-> IF s \in gone THEN Idle ELSE run[s]]
        /\ registry' = [registry EXCEPT ![p] = [e \in Exec |-> None]]
        /\ fired' = fired \ gone
        /\ cancels' = {c \in cancels : c[1] # p}
        /\ UNCHANGED <<layout, netVars, bus, msgs, locks>>

-----------------------------------------------------------------------------
NetStep ==
    \/ Submit \/ SubmitRefused \/ RecoverEffectError \/ Track \/ AttemptFails
    \/ Retry \/ Exhausted \/ Cancel \/ Cancelled

SlotStep(s) ==
    \/ Accept(s) \/ Unsupported(s) \/ TakeLock(s) \/ SkipDuplicate(s) \/ NoRunDir(s)
    \/ Stage(s) \/ Running(s) \/ (\E o \in Status \ {"accepted", "running"} : BodyEnds(s, o))
    \/ ReportTerminal(s) \/ Deregister(s) \/ CleanUp(s) \/ Ack(s)

Next ==
    \/ NetStep \/ AskCancel
    \/ \E s \in Slot : SlotStep(s)
    \/ \E s \in Slot, i \in DOMAIN msgs : Receive(s, i)
    \/ \E i \in DOMAIN msgs : AckWaitEnds(i)
    \/ \E c \in cancels : Listen(c[1], c[2])
    \/ \E s \in Slot : Die(layout.proc[s])

Spec == Init /\ [][Next]_vars

\* The engine fires what is enabled, consumers pull, bodies end or time out and
\* a delivery nobody works on is handed out again.
FairSpec ==
    /\ Spec
    /\ WF_vars(NetStep)
    /\ \A s \in Slot : WF_vars(SlotStep(s))
    /\ WF_vars(\E s \in Slot, i \in DOMAIN msgs : Receive(s, i))
    /\ WF_vars(\E i \in DOMAIN msgs : AckWaitEnds(i))
    /\ WF_vars(\E c \in cancels : Listen(c[1], c[2]))

-----------------------------------------------------------------------------
(***************************************************************************)
(* A run is in its process's registry from its lock to its last status, so *)
(* a cancel finds it, whatever duplicates come and go: "a duplicate        *)
(* delivery that loses the lock must NOT touch the registry" (executor.rs).*)
(***************************************************************************)
LiveRunRegistered ==
    \A s \in Slot :
        run[s].pc \in {"stage", "body", "running", "report", "unstage", "deregister"} =>
            registry[layout.proc[s]][ExecOf(s)] = s

(***************************************************************************)
(* No two runs of an execution use one run directory at a time, through    *)
(* redeliveries, crashes and second dispatches: without the lock "they     *)
(* race on the run directory and IPC socket" (executor.rs).                *)
(***************************************************************************)
OneRunPerHost ==
    \A s, t \in Slot : s # t /\ HasLock(s) /\ HasLock(t) => RunDir(s) # RunDir(t)

Repeats == {"lost ack", "stall", "crash", "crash in run", "submit unacked", "cancel failed"}

InBody(s) == run[s].pc \in {"stage", "body", "running"}

(***************************************************************************)
(* As long as no message is delivered or dispatched twice, the step runs   *)
(* one body at a time, and none once the net has gone on to a retry or to  *)
(* an end: a status that ends an attempt is reported after its body.       *)
(***************************************************************************)
OneBody ==
    faults \cap Repeats = {} =>
        /\ \A s, t \in Slot : InBody(s) /\ InBody(t) => s = t
        /\ Settled \/ net.at \in {"inbox", "failure"} => \A s \in Slot : ~InBody(s)

\* The kinds of fault after which the net may wait for ever.
Fatal == {"lost status", "disk", "crash in run", "cancel failed"}

\* A cancel that the end of the run overtook: nothing joins cancelling with
\* another status than cancelled.
CancelCrossed ==
    net.at = "cancelling"
        /\ \E st \in {"completed", "failed", "timed_out"} : <<net.exec, st>> \in seen

(***************************************************************************)
(* The step ends: retries are bounded, and queue losses, stalled           *)
(* heartbeats, lost acknowledgements and crashes outside a run are         *)
(* survived.  The exceptions are the faults the code does not recover from *)
(* and a cancel that crosses the end of the run.                           *)
(***************************************************************************)
EveryStepSettles == <>(Settled \/ faults \cap Fatal # {} \/ CancelCrossed)
=============================================================================
