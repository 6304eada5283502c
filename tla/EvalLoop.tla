------------------------------ MODULE EvalLoop ------------------------------
(***************************************************************************)
(* The evaluation of one net: the background loop of the net registry and  *)
(* HTTP `evaluate' calls, both behind eval_lock; HTTP marking reads and    *)
(* HTTP `fire' calls, which take no lock; token injection and the wake-ups *)
(* that follow it (application/src/{service,evaluation,firing,             *)
(* binding_memo}.rs, api/src/{net_registry,handlers}.rs).                  *)
(*                                                                         *)
(* A token's identity is the order of its creation: ids are taken in turn  *)
(* from 1, so the id also stands for created_at.                           *)
(***************************************************************************)
EXTENDS MarkingCache, FiniteSets

CONSTANTS
    Transition, Pre, Post,  \* the topology: input and output places of a transition
    Finalizer,              \* transitions that fire only in a teardown
    Effect,                 \* transitions that run an effect handler
    Hooked,                 \* effects that a chain of pre-dispatch hooks decides on
    Bridging,               \* transitions that also send a token to another net
    Terminal,               \* places whose token completes the net
    Loop,                   \* the background loop of the net
    HttpEval,               \* HTTP calls of evaluate
    Reader,                 \* HTTP calls that read the marking
    Firer,                  \* HTTP calls that fire one named transition
    Injected,               \* places where tokens are injected from outside
    Outcomes,               \* how a firing may end
    MaxSteps,               \* max_steps of one evaluation (1000 in the loop)
    MaxFinalizerSteps,      \* MAX_FINALIZER_STEPS, the backstop of a drain (64)
    MaxDefers,              \* budget of deferrals of one transition
    MaxInjections           \* bound: tokens injected in one behaviour

ASSUME ActorAssumption ==
    /\ Caller = {Loop} \cup HttpEval \cup Reader \cup Firer /\ None \notin Caller
    /\ ({Loop} \cup HttpEval) \cap (Reader \cup Firer) = {}
ASSUME TopologyAssumption ==
    /\ Pre \in [Transition -> SUBSET Place]
    /\ Post \in [Transition -> SUBSET Place]
    /\ \A t \in Transition : Pre[t] # {} /\ IsFiniteSet(Pre[t]) /\ IsFiniteSet(Post[t])
    /\ Hooked \subseteq Effect
    /\ Injected \subseteq Place
ASSUME ChoiceAssumption == None \notin Transition /\ None \notin {"Terminal", "Failed"}
ASSUME TokenOrder == TokenId \subseteq Nat
ASSUME PayloadAssumption == Color # {} /\ 1 \in ByteSizes
ASSUME BudgetAssumption == MaxDefers \in Nat
ASSUME DrainAssumption == Finalizer \subseteq Transition /\ MaxFinalizerSteps \in Nat
ASSUME OutcomeAssumption ==
    Outcomes \subseteq {"ok", "fail", "reject", "defer", "transient"}

VARIABLES
    job,        \* where each actor is in its handler
    memo,       \* BindingMemo: transitions proven empty, and whether it is built
    lock,       \* the holder of eval_lock, or None
    permit,     \* the stored permit of eval_notify
    kicks,      \* wake-ups under way to eval_notify
    mode,       \* RunMode
    defers,     \* DeferBudgets
    minted,     \* tokens created so far
    verdict,    \* the lifecycle event the loop ended with, or None
    runs,       \* history variable: how often an effect ran on each token
    failures    \* history variable: permanent failures outside a drain, and in one

evars == <<job, memo, lock, permit, kicks, mode, defers, minted, verdict, runs, failures>>
vars == <<cvars, evars>>

Evaluator == {Loop} \cup HttpEval

NoJob(at) ==
    [at |-> at, phase |-> "Normal", steps |-> 0, marking |-> EmptyMarking,
     chosen |-> None, newly |-> {}, outcome |-> "ok", result |-> "Quiescent"]

-----------------------------------------------------------------------------
(***************************************************************************)
(* Bindings.  Without guards the first combination in marking order is the *)
(* first token of every input place.                                       *)
(***************************************************************************)
HasBinding(t, m) == \A p \in Pre[t] : m[p] # << >>

SeqOf(S) == CHOOSE s \in [1..Cardinality(S) -> S] : \A x \in S : \E i \in DOMAIN s : s[i] = x

Consumed(t, m) == [i \in DOMAIN SeqOf(Pre[t]) |->
                     <<SeqOf(Pre[t])[i], Head(m[SeqOf(Pre[t])[i]]).id>>]

Produced(t) == [i \in DOMAIN SeqOf(Post[t]) |->
                  <<SeqOf(Post[t])[i],
                    [id |-> minted + i, color |-> CHOOSE c \in Color : TRUE]>>]

ConsumedIds(t, m) == {Head(m[p]).id : p \in Pre[t]}

EnablingTime(t, m) == CHOOSE x \in ConsumedIds(t, m) : \A y \in ConsumedIds(t, m) : y <= x

\* Mutant: more input arcs first, then the earlier enabling time.
PreferredArcsFirst(t, u, m) ==
    \/ Cardinality(Pre[t]) > Cardinality(Pre[u])
    \/ /\ Cardinality(Pre[t]) = Cardinality(Pre[u])
       /\ EnablingTime(t, m) <= EnablingTime(u, m)

\* Earliest enabling time, then more input arcs.  Ties go on to priority and id.
Preferred(t, u, m) ==
    \/ EnablingTime(t, m) < EnablingTime(u, m)
    \/ /\ EnablingTime(t, m) = EnablingTime(u, m)
       /\ Cardinality(Pre[t]) >= Cardinality(Pre[u])

Best(bound, m) ==
    IF bound = {} THEN {None} ELSE {t \in bound : \A u \in bound : Preferred(t, u, m)}

\* Mutant: the places a firing produces into are not touched.
TouchedConsumedOnly(e) ==
    CASE e.kind \in {"TokenCreated", "TokenConsumed", "TokenRemoved", "TokenUpdated"} -> {e.place}
      [] e.kind \in FiringKind \/ (e.kind = "EffectFailed" /\ e.tokensConsumed) ->
            {e.consumed[i][1] : i \in DOMAIN e.consumed}
      [] OTHER -> {}

\* touched_places
TouchedPlaces(e) ==
    CASE e.kind \in {"TokenCreated", "TokenConsumed", "TokenRemoved", "TokenUpdated"} -> {e.place}
      [] e.kind \in FiringKind \/ (e.kind = "EffectFailed" /\ e.tokensConsumed) ->
            {e.consumed[i][1] : i \in DOMAIN e.consumed}
                \cup {e.produced[i][1] : i \in DOMAIN e.produced}
      [] OTHER -> {}

-----------------------------------------------------------------------------
\* A net whose scenario is loaded and whose first tokens are still to come.
Init ==
    /\ CInit
    /\ job = [c \in Caller |-> NoJob(IF c = Loop THEN "wait" ELSE "idle")]
    /\ memo = [empty |-> {}, built |-> FALSE]
    /\ lock = None
    /\ permit = FALSE
    /\ kicks = {}
    /\ mode = "Running"
    /\ defers = [t \in Transition |-> 0]
    /\ minted = 0
    /\ verdict = None
    /\ runs = [i \in TokenId |-> 0]
    /\ failures = {}

Emit(e) == AppendEvent(e, 1)

\* New ids for n tokens; the bound is that TokenId has them.
Mints(n) ==
    /\ 1..(minted + n) \subseteq TokenId
    /\ minted' = minted + n

Audit == [kind |-> "Audit"]

-----------------------------------------------------------------------------
(***************************************************************************)
(* Waking the loop.                                                        *)
(***************************************************************************)
\* create_token_with_meta at a place of the net, by a listener or an API call.
\* Like every event applied, it wakes the consumer-to-eval bridge task; its own
\* notify_one follows too.
CreateToken(p) ==
    /\ Cardinality({i \in DOMAIN log : log[i].event.kind = "TokenCreated"}) < MaxInjections
    /\ Emit([kind |-> "TokenCreated", place |-> p,
             token |-> [id |-> minted + 1, color |-> CHOOSE c \in Color : TRUE],
             dedup |-> NoDedup])
    /\ Mints(1)
    /\ kicks' = {"bridge", "create"}
    /\ UNCHANGED <<job, memo, lock, permit, mode, defers, verdict, runs, failures>>

\* Mutant: notify_waiters for notify_one, which stores no permit.
KickWaiters(k) ==
    /\ k \in kicks
    /\ kicks' = kicks \ {k}
    /\ permit' = (permit \/ job[Loop].at = "wait")
    /\ UNCHANGED <<cvars, job, memo, lock, mode, defers, minted, verdict, runs, failures>>

\* The bridge task sees applied_rx change, or create_token reaches its notify.
Kick(k) ==
    /\ k \in kicks
    /\ kicks' = kicks \ {k}
    /\ permit' = TRUE
    /\ UNCHANGED <<cvars, job, memo, lock, mode, defers, minted, verdict, runs, failures>>

\* Mutant: a net that is set running is not woken.
SetRunModeQuietly(m) ==
    /\ mode # m
    /\ mode' = m
    /\ UNCHANGED <<cvars, job, memo, lock, permit, kicks, defers, minted, verdict, runs, failures>>

\* PUT /api/run-mode
SetRunMode(m) ==
    /\ mode # m
    /\ mode' = m
    /\ permit' = (permit \/ m = "Running")
    /\ UNCHANGED <<cvars, job, memo, lock, kicks, defers, minted, verdict, runs, failures>>

\* eval_notify.notified(), then the run mode decides whether to evaluate.
Wake ==
    /\ job[Loop].at = "wait"
    /\ permit
    /\ permit' = FALSE
    /\ job' = [job EXCEPT ![Loop].at = IF mode = "Running" THEN "lock" ELSE "wait"]
    /\ UNCHANGED <<cvars, memo, lock, kicks, mode, defers, minted, verdict, runs, failures>>

\* An HTTP evaluate, marking read or fire request arrives.
Request(c) ==
    /\ c # Loop
    /\ job[c].at = "idle"
    /\ \E t \in IF c \in Firer THEN Transition ELSE {None} :
          job' = [job EXCEPT ![c] =
                    [NoJob(IF c \in HttpEval THEN "lock" ELSE "advance") EXCEPT !.chosen = t]]
    /\ UNCHANGED <<cvars, memo, lock, permit, kicks, mode, defers, minted, verdict, runs, failures>>

-----------------------------------------------------------------------------
(***************************************************************************)
(* evaluate_until_quiescent.                                               *)
(***************************************************************************)
\* The end of an evaluation: the guard is dropped and the caller has a result.
\* HTTP callers do nothing with it.
Finish(c, result) ==
    /\ lock' = None
    /\ job' = [job EXCEPT ![c] =
                 IF c = Loop THEN [NoJob("driver") EXCEPT !.result = result] ELSE NoJob("idle")]

\* Mutant: the evaluation goes on when the lock is busy.
TryLockIgnored(c) ==
    /\ job[c].at = "lock"
    /\ lock' = c
    /\ job' = [job EXCEPT ![c] = NoJob("advance")]
    /\ UNCHANGED <<cvars, memo, permit, kicks, mode, defers, minted, verdict, runs, failures>>

\* eval_lock.try_lock: a busy lock is an evaluation of zero steps.
TryLock(c) ==
    /\ job[c].at = "lock"
    /\ IF lock = None
       THEN lock' = c /\ job' = [job EXCEPT ![c] = NoJob("advance")]
       ELSE /\ UNCHANGED lock
            /\ job' = [job EXCEPT ![c] = NoJob(IF c = Loop THEN "driver" ELSE "idle")]
    /\ UNCHANGED <<cvars, memo, permit, kicks, mode, defers, minted, verdict, runs, failures>>

StartAdvance(c) ==
    /\ job[c].at = "advance"
    /\ Begin(c)
    /\ UNCHANGED evars

StepAdvance(c) == Advance(c) /\ UNCHANGED evars

\* reconcile_binding_memo, from the delta of the call that just advanced.
Reconciled(delta, events) ==
    CASE delta = "Unchanged" -> memo
      [] delta = "Rebuilt" \/ (delta = "Applied" /\ ~memo.built) ->
            [empty |-> {}, built |-> TRUE]
      [] OTHER -> [memo EXCEPT !.empty =
                     {t \in @ : \A i \in DOMAIN events :
                                   Pre[t] \cap TouchedPlaces(events[i].event) = {}}]

Reconcile(c) ==
    /\ call[c].pc = "done"
    /\ memo' = Reconciled(call[c].delta, call[c].events)
    /\ job' = [job EXCEPT ![c] =
                 IF c \in Reader THEN NoJob("idle")
                 ELSE [@ EXCEPT !.at = IF c \in Firer THEN "fire" ELSE "select",
                                !.marking = call[c].snap.marking]]
    /\ Return(c)
    /\ UNCHANGED <<lock, permit, kicks, mode, defers, minted, verdict, runs, failures>>

\* select_next_transition on a snapshot of the memo; a drain bypasses the memo.
SelectNext(c) ==
    LET j == job[c]
        normal == j.phase = "Normal"
        known == IF normal THEN memo.empty ELSE {}
        eligible == {t \in Transition : (t \in Finalizer) # normal} \ known
        bound == {t \in eligible : HasBinding(t, j.marking)}
    IN  /\ j.at = "select"
        /\ \E t \in Best(bound, j.marking) :
              job' = [job EXCEPT ![c].at = "mark", ![c].chosen = t,
                                 ![c].newly = IF normal THEN eligible \ bound ELSE {}]
        /\ UNCHANGED <<cvars, memo, lock, permit, kicks, mode, defers, minted, verdict, runs,
                       failures>>

\* The buffered empties are written back; nothing to fire ends the evaluation
\* (or the drain, and with it the evaluation that failed).
MarkEmpty(c) ==
    LET j == job[c]
        done == \E p \in Terminal : j.marking[p] # << >>
    IN  /\ j.at = "mark"
        /\ memo' = [memo EXCEPT !.empty = @ \cup j.newly]
        /\ IF j.chosen # None
           THEN job' = [job EXCEPT ![c].at = "fire"] /\ UNCHANGED lock
           ELSE Finish(c, CASE j.phase = "Finalizing" -> "Failed"
                            [] j.phase = "Normal" /\ done -> "Terminal"
                            [] OTHER -> "Quiescent")
        /\ UNCHANGED <<cvars, permit, kicks, mode, defers, minted, verdict, runs, failures>>

-----------------------------------------------------------------------------
(***************************************************************************)
(* fire_transition on the marking the caller advanced to.                  *)
(***************************************************************************)
\* The hooks decide, and say so in the log; Continue clears the budget and the
\* script or handler runs.  A "transient" error (unknown handler, secrets) comes
\* before all that.  "ok" covers every firing that yields a firing event: a
\* script, a handler, a skip, an error routed to an `_error' port.
RunTransition(c, t) ==
    \E o \in Outcomes :
        /\ o \in {"reject", "defer"} => t \in Hooked
        /\ job' = [job EXCEPT ![c].at = "commit", ![c].outcome = o]
        /\ IF t \in Hooked /\ o # "transient"
           THEN Emit(Audit) /\ kicks' = kicks \cup {"bridge"}
           ELSE UNCHANGED <<cvars, kicks>>
        /\ defers' = IF t \in Hooked /\ o \in {"ok", "fail"}
                     THEN [defers EXCEPT ![t] = 0] ELSE defers
        /\ runs' = IF t \in Effect /\ o \in {"ok", "fail"}
                   THEN [i \in DOMAIN runs |->
                           IF i \in ConsumedIds(t, job[c].marking) THEN runs[i] + 1 ELSE runs[i]]
                   ELSE runs

\* Only an HTTP fire can name a transition without a binding (GuardNotSatisfied).
Fire(c) ==
    /\ job[c].at = "fire"
    /\ IF HasBinding(job[c].chosen, job[c].marking)
       THEN RunTransition(c, job[c].chosen)
       ELSE /\ job' = [job EXCEPT ![c] = NoJob("idle")]
            /\ UNCHANGED <<cvars, kicks, defers, runs>>
    /\ UNCHANGED <<memo, lock, permit, mode, minted, verdict, failures>>

\* What follows a firing: the next round of the evaluation or of the drain,
\* until its step limit.
NextRound(c) ==
    LET j == job[c]
        normal == j.phase = "Normal"
    IN  IF c \in Firer THEN job' = [job EXCEPT ![c] = NoJob("idle")] /\ UNCHANGED lock
        ELSE IF j.steps + 1 < (IF normal THEN MaxSteps ELSE MaxFinalizerSteps)
        THEN /\ job' = [job EXCEPT ![c] = [NoJob("advance") EXCEPT !.phase = j.phase,
                                                                   !.steps = j.steps + 1]]
             /\ UNCHANGED lock
        ELSE Finish(c, IF normal THEN "LimitReached" ELSE "Failed")

\* drain_finalizers: rounds of the evaluation that select finalizers only.
StartDrain(c) ==
    /\ job' = [job EXCEPT ![c] = [NoJob("advance") EXCEPT !.phase = "Finalizing"]]
    /\ UNCHANGED lock

\* Mutant: a permanent failure ends the evaluation without the drain.
GiveUpAtOnce(c) ==
    /\ failures' = failures \cup {IF c \in Firer THEN "fired" ELSE job[c].phase}
    /\ IF c \in Firer THEN job' = [job EXCEPT ![c] = NoJob("idle")] /\ UNCHANGED lock
       ELSE Finish(c, "Failed")

\* A permanent failure starts the finalizer drain; in the drain it ends it.
GiveUp(c) ==
    LET j == job[c]
    IN  /\ failures' = failures \cup {IF c \in Firer THEN "fired" ELSE j.phase}
        /\ IF c \in Firer THEN job' = [job EXCEPT ![c] = NoJob("idle")] /\ UNCHANGED lock
           ELSE IF j.phase = "Normal" THEN StartDrain(c)
           ELSE Finish(c, "Failed")

\* TransitionFired, EffectCompleted, TransitionSkipped: the marking changes.
CommitOk(c) ==
    LET j == job[c]
    IN  /\ j.at = "commit" /\ j.outcome = "ok"
        /\ Emit([kind |-> IF j.chosen \in Effect THEN "EffectCompleted" ELSE "TransitionFired",
                 consumed |-> Consumed(j.chosen, j.marking), produced |-> Produced(j.chosen)])
        /\ Mints(Cardinality(Post[j.chosen]))
        /\ kicks' = kicks \cup {"bridge"}
        /\ IF j.chosen \in Bridging
           THEN job' = [job EXCEPT ![c].at = "bridgeOut"] /\ UNCHANGED lock
           ELSE NextRound(c)
        /\ UNCHANGED <<memo, permit, mode, defers, verdict, runs, failures>>

\* emit_bridge_out_events, after the firing event.
BridgeOut(c) ==
    /\ job[c].at = "bridgeOut"
    /\ Emit(Audit)
    /\ kicks' = kicks \cup {"bridge"}
    /\ NextRound(c)
    /\ UNCHANGED <<memo, permit, mode, defers, minted, verdict, runs, failures>>

\* EffectFailed consumes the bound tokens of an effect.  A failed script logs
\* ErrorOccurred first and then removes them one by one.
CommitFail(c) ==
    LET j == job[c]
    IN  /\ j.at = "commit" /\ j.outcome = "fail"
        /\ kicks' = kicks \cup {"bridge"}
        /\ IF j.chosen \in Effect
           THEN /\ Emit([kind |-> "EffectFailed", consumed |-> Consumed(j.chosen, j.marking),
                         produced |-> << >>, tokensConsumed |-> TRUE])
                /\ GiveUp(c)
           ELSE /\ Emit(Audit)
                /\ job' = [job EXCEPT ![c].at = "remove", ![c].newly = Pre[j.chosen]]
                /\ UNCHANGED <<lock, failures>>
        /\ UNCHANGED <<memo, permit, mode, defers, minted, verdict, runs>>

\* consume_bound_tokens_on_permanent_failure, one bound token at a time.
RemoveBound(c) ==
    LET j == job[c]
    IN  /\ j.at = "remove"
        /\ \E p \in j.newly :
              /\ Emit([kind |-> "TokenRemoved", place |-> p, id |-> Head(j.marking[p]).id])
              /\ IF j.newly = {p} THEN GiveUp(c)
                 ELSE /\ job' = [job EXCEPT ![c].newly = @ \ {p}]
                      /\ UNCHANGED <<lock, failures>>
        /\ kicks' = kicks \cup {"bridge"}
        /\ UNCHANGED <<memo, permit, mode, defers, minted, verdict, runs>>

\* A rejecting hook fails the net and consumes nothing.
CommitReject(c) ==
    LET j == job[c]
    IN  /\ j.at = "commit" /\ j.outcome = "reject"
        /\ Emit(Audit)
        /\ defers' = [defers EXCEPT ![j.chosen] = 0]
        /\ kicks' = kicks \cup {"bridge"}
        /\ GiveUp(c)
        /\ UNCHANGED <<memo, permit, mode, minted, verdict, runs>>

\* Ends an evaluation early, with every token where it was; a drain just stops.
Abandon(c) ==
    /\ failures' = failures \cup ({job[c].phase} \ {"Normal"})
    /\ IF c \in Firer THEN job' = [job EXCEPT ![c] = NoJob("idle")] /\ UNCHANGED lock
       ELSE Finish(c, IF job[c].phase = "Normal" THEN "Quiescent" ELSE "Failed")

\* Mutant: no budget.
CommitDeferForever(c) ==
    LET j == job[c]
    IN  /\ j.at = "commit" /\ j.outcome = "defer"
        /\ Emit(Audit)
        /\ defers' = [defers EXCEPT ![j.chosen] = @ + 1]
        /\ kicks' = kicks \cup {"bridge"}
        /\ Abandon(c)
        /\ UNCHANGED <<memo, permit, mode, minted, verdict, runs>>

\* A deferral past the budget becomes a rejection.
CommitDefer(c) ==
    LET j == job[c]
    IN  /\ j.at = "commit" /\ j.outcome = "defer"
        /\ Emit(Audit)
        /\ defers' = [defers EXCEPT ![j.chosen] = @ + 1]
        /\ kicks' = kicks \cup {"bridge"}
        /\ IF defers'[j.chosen] > MaxDefers
           THEN job' = [job EXCEPT ![c].outcome = "reject"] /\ UNCHANGED <<lock, failures>>
           ELSE Abandon(c)
        /\ UNCHANGED <<memo, permit, mode, minted, verdict, runs>>

\* A non-permanent error before the handler runs (unknown handler, secrets).
CommitTransient(c) ==
    LET j == job[c]
    IN  /\ j.at = "commit" /\ j.outcome = "transient"
        /\ Abandon(c)
        /\ UNCHANGED <<cvars, memo, permit, kicks, mode, defers, minted, verdict, runs>>

-----------------------------------------------------------------------------
\* Mutant: only completion ends the loop.
DriveOnFailure ==
    LET r == job[Loop].result
    IN  /\ job[Loop].at = "driver"
        /\ IF r = "Terminal"
           THEN /\ Emit(Audit)
                /\ verdict' = r
                /\ job' = [job EXCEPT ![Loop] = NoJob("stopped")]
           ELSE job' = [job EXCEPT ![Loop] = NoJob("wait")] /\ UNCHANGED <<cvars, verdict>>
        /\ UNCHANGED <<memo, lock, permit, kicks, mode, defers, minted, runs, failures>>

\* What the loop does with a result: NetCompleted or NetFailed, then cancel.
Drive ==
    LET r == job[Loop].result
    IN  /\ job[Loop].at = "driver"
        /\ IF r \in {"Terminal", "Failed"}
           THEN /\ Emit(Audit)
                /\ verdict' = r
                /\ job' = [job EXCEPT ![Loop] = NoJob("stopped")]
           ELSE job' = [job EXCEPT ![Loop] = NoJob("wait")] /\ UNCHANGED <<cvars, verdict>>
        /\ UNCHANGED <<memo, lock, permit, kicks, mode, defers, minted, runs, failures>>

Work(c) ==
    \/ TryLock(c)
    \/ StartAdvance(c)
    \/ StepAdvance(c)
    \/ Reconcile(c)
    \/ SelectNext(c)
    \/ MarkEmpty(c)
    \/ Fire(c)
    \/ CommitOk(c)
    \/ BridgeOut(c)
    \/ CommitFail(c)
    \/ RemoveBound(c)
    \/ CommitReject(c)
    \/ CommitDefer(c)
    \/ CommitTransient(c)

\* One tokio task per actor.
Task(c) == Work(c) \/ (c = Loop /\ (Wake \/ Drive))

Next ==
    \/ \E p \in Injected : CreateToken(p)
    \/ \E k \in kicks : Kick(k)
    \/ \E m \in {"Running", "Stopped"} : SetRunMode(m)
    \/ \E c \in Caller : Request(c) \/ Task(c)

(***************************************************************************)
(* The runtime schedules every ready task: a task that can take a step     *)
(* takes it eventually.  Nothing outside the engine is obliged to act.     *)
(***************************************************************************)
Fairness ==
    /\ WF_vars(\E k \in kicks : Kick(k))
    /\ \A c \in Caller : WF_vars(Task(c))

Spec == Init /\ [][Next]_vars /\ Fairness

-----------------------------------------------------------------------------
TypeOK ==
    /\ CTypeOK
    /\ job \in [Caller ->
          [at : {"idle", "wait", "lock", "advance", "select", "mark", "fire", "commit",
                 "bridgeOut", "remove", "driver", "stopped"},
           phase : {"Normal", "Finalizing"}, steps : Nat, marking : Marking,
           chosen : Transition \cup {None}, newly : SUBSET (Transition \cup Place),
           outcome : Outcomes \cup {"ok", "reject"},
           result : {"Quiescent", "LimitReached", "Terminal", "Failed"}]]
    /\ memo \in [empty : SUBSET Transition, built : BOOLEAN]
    /\ lock \in Evaluator \cup {None}
    /\ permit \in BOOLEAN
    /\ kicks \subseteq {"bridge", "create"}
    /\ mode \in {"Running", "Stopped"}
    /\ defers \in [Transition -> 0..(MaxDefers + 1)]
    /\ minted \in Nat
    /\ verdict \in {None, "Terminal", "Failed"}
    /\ runs \in [TokenId -> Nat]
    /\ failures \subseteq {"Normal", "Finalizing", "fired"}

(***************************************************************************)
(* binding_memo.rs: the memo "can never lag the marking the loop evaluates *)
(* against": a transition it suppresses has no binding in that marking.    *)
(***************************************************************************)
MemoNeverLags ==
    \A c \in Evaluator :
        job[c].at = "select" /\ job[c].phase = "Normal" =>
            \A t \in memo.empty : ~HasBinding(t, job[c].marking)

(***************************************************************************)
(* service.rs: eval_lock "prevents the eval loop and HTTP handler from     *)
(* racing on the same marking and double-firing effect transitions": no    *)
(* token is handed to an effect handler twice.                             *)
(***************************************************************************)
EffectOnce == \A i \in DOMAIN runs : runs[i] <= 1

(***************************************************************************)
(* When the loop declares the net failed, everything a finalizer would     *)
(* release has been released, unless a finalizer itself failed: a leased   *)
(* net that fails does not strand its lease (evaluation.rs,                *)
(* drain_finalizers).                                                      *)
(***************************************************************************)
ReleasedBeforeFailed ==
    verdict = "Failed" /\ "Finalizing" \notin failures =>
        \A t \in Finalizer : ~HasBinding(t, FullMarking(store))

(***************************************************************************)
(* The marking as the token game has it: the tokens of a failed script     *)
(* leave the log one by one, and the game's marking all at once.           *)
(***************************************************************************)
Restored(m, j) ==
    [p \in Place |-> IF j.at = "remove" /\ p \in Pre[j.chosen] \ j.newly
                     THEN <<Head(j.marking[p])>> \o m[p] ELSE m[p]]

Played ==
    IF lock = None THEN FullMarking(store) ELSE Restored(FullMarking(store), job[lock])

Game == INSTANCE TokenGame
            WITH marking <- Played, used <- 1..minted, failed <- "Normal" \in failures

(***************************************************************************)
(* Evaluating the net plays its token game, though the marking it works on *)
(* is a snapshot, taken before handlers run and while tokens arrive: each  *)
(* firing takes the tokens that are at the head of its places when its     *)
(* event is appended, ids are never given twice, finalizers move only      *)
(* after a failure, and the transition that moves is then still the one    *)
(* that was enabled first (select_next_transition, "earliest enabling      *)
(* time").                                                                 *)
(***************************************************************************)
PlaysTokenGame == Game!OldestFirst

\* A transition that should fire now.
Ready ==
    /\ mode = "Running"
    /\ verdict = None
    /\ \E t \in Transition \ Finalizer : HasBinding(t, FullMarking(store))

(***************************************************************************)
(* The loop sleeps only on an idle net: when it waits and no wake-up is on *)
(* its way, no transition is enabled, however tokens arrived while it      *)
(* evaluated on a snapshot, and no permanent failure is still to be raised *)
(* (net_registry.rs, the evaluation loop and the consumer-to-eval bridge). *)
(***************************************************************************)
SleepsOnlyIdle ==
    job[Loop].at = "wait" /\ ~permit /\ kicks = {} => ~Ready /\ "Normal" \notin failures

(***************************************************************************)
(* No wake-up is lost: while the net is running, an enabled transition     *)
(* does not stay enabled for ever with the loop asleep.  In evaluate's     *)
(* words, "the active evaluation will pick up any new tokens".             *)
(***************************************************************************)
NoLostWakeup == []<>~Ready

(***************************************************************************)
(* A transition that fails permanently ends the net: the loop raises       *)
(* NetFailed "so the instance is unmistakably dead, not silently idle"     *)
(* (net_registry.rs).                                                      *)
(***************************************************************************)
FailureRaised == "Normal" \in failures ~> verdict = "Failed"
=============================================================================
