---------------------------- MODULE ResourcePool ----------------------------
(***************************************************************************)
(* A resource pool: its admission net (service/src/petri/pool_net.rs), the *)
(* handshake the compiler lowers into every pooled step                    *)
(* (service/src/compiler/lower/automated_step.rs), the presence controller *)
(* that admits and expires runners (service/src/presence) and pool repair  *)
(* (service/src/handlers/resources.rs).                                    *)
(*                                                                         *)
(* A message to the pool and the token it becomes in its inbox place are   *)
(* one: cross-net messages arrive in any order (module BridgeTransfer), so *)
(* the transition that takes the token may fire at any later time.         *)
(***************************************************************************)
EXTENDS Naturals, FiniteSets

CONSTANTS
    Claimant,       \* pooled steps, one per workflow instance; also the grant ids
    Runner,         \* runners, or members of a consent pool
    None,           \* the owner of a seeded unit; no heartbeat being handled
    Capacity,       \* units of a seeded pool
    Concurrency,    \* C, the slots each runner reports
    Satisfies,      \* the <<claimant, runner>> pairs satisfies() accepts
    Fault,          \* the kinds of fault considered
    Load,           \* bound: the capacity source, how often each step is entered,
                    \* how many faults
    MaxMints        \* bound: units ever minted for one runner

ASSUME LoadAssumption ==
    Load \subseteq [source : {"seeded", "auto", "consent"}, laps : [Claimant -> Nat],
                   faults : Nat]
ASSUME NoneAssumption == None \notin Runner
ASSUME NumberAssumption ==
    Capacity \in Nat /\ Concurrency \in Nat /\ MaxMints \in Nat
ASSUME SatisfiesAssumption == Satisfies \subseteq Claimant \X Runner

VARIABLES
    load,       \* the pool's CapacitySource and what will happen to it
    mark,       \* the pool net's marking
    mail,       \* its replies under way to the claimants: grants and loss notices
    net,        \* where each claimant's step is
    present,    \* runners the controller's map has as present
    handler,    \* the heartbeat being handled, or None
    alive,      \* runners that send heartbeats
    minted,     \* units minted so far for each runner
    bounced,    \* history variable: units whose grant no claimant was left to take
    untracked,  \* history variable: runners dropped from the map unexpired, or
                \* minted more than C units
    faults      \* faults so far

poolVars == <<mark, mail>>
controller == <<present, handler, minted>>
history == <<bounced, untracked>>
vars == <<load, poolVars, net, controller, alive, history, faults>>

\* unit_id is runner, slot and epoch: never minted twice.
Unit == [owner : Runner, n : Nat] \cup [owner : {None}, n : Nat]

Seeds == [owner : {None}, n : 1..Capacity]

Hold == [by : Claimant, unit : Unit]

UnitsOf(holds) == {h.unit : h \in holds}

TypeOK ==
    /\ load \in Load
    /\ mark \in [pool : SUBSET Unit, claims : SUBSET Claimant, offers : SUBSET Claimant,
                 bids : SUBSET (Claimant \X Runner), regs : SUBSET Hold,
                 inUse : SUBSET Hold, releases : [Claimant -> Nat],
                 withdraws : SUBSET Claimant, acquires : SUBSET Unit,
                 expires : [Runner -> Nat]]
    /\ mail \in [grants : SUBSET Hold, notices : SUBSET Claimant]
    /\ net \in [Claimant -> [at : {"idle", "pending", "held", "dead"},
                             unit : Unit \cup {None}, lost : BOOLEAN, lap : Nat]]
    /\ present \subseteq Runner /\ alive \subseteq Runner
    /\ handler \in [runner : Runner, need : Nat, edge : BOOLEAN] \cup {None}
    /\ minted \in [Runner -> Nat]
    /\ bounced \subseteq Unit /\ untracked \subseteq Runner
    /\ faults \in Nat

Init ==
    /\ load \in Load
    /\ mark = [pool |-> IF load.source = "seeded" THEN Seeds ELSE {},
               claims |-> {}, offers |-> {}, bids |-> {}, regs |-> {}, inUse |-> {},
               releases |-> [c \in Claimant |-> 0], withdraws |-> {},
               acquires |-> {}, expires |-> [r \in Runner |-> 0]]
    /\ mail = [grants |-> {}, notices |-> {}]
    /\ net = [c \in Claimant |-> [at |-> "idle", unit |-> None, lost |-> FALSE, lap |-> 0]]
    /\ present = {} /\ handler = None
    /\ alive = IF load.source = "seeded" THEN {} ELSE Runner
    /\ minted = [r \in Runner |-> 0]
    /\ bounced = {} /\ untracked = {} /\ faults = 0

Faulty(kind) ==
    /\ kind \in Fault
    /\ faults < load.faults
    /\ faults' = faults + 1

FaultUnless(normal, kind) ==
    \/ normal /\ UNCHANGED faults
    \/ ~normal /\ Faulty(kind)

-----------------------------------------------------------------------------
(***************************************************************************)
(* The pooled step.  Its grant id is the instance and the node: every lap  *)
(* of a loop claims under the same one.                                    *)
(***************************************************************************)
\* t_<id>_claim
Claim(c) ==
    /\ net[c].at = "idle" /\ net[c].lap < load.laps[c]
    /\ net' = [net EXCEPT ![c].at = "pending", ![c].lap = @ + 1]
    /\ mark' = [mark EXCEPT !.claims = @ \cup {c}]
    /\ UNCHANGED <<load, mail, controller, alive, history, faults>>

\* t_<id>_acquire: the job is submitted and the hold registered.
Acquire(g) ==
    /\ g \in mail.grants /\ net[g.by].at = "pending"
    /\ net' = [net EXCEPT ![g.by].at = "held", ![g.by].unit = g.unit]
    /\ mail' = [mail EXCEPT !.grants = @ \ {g}]
    /\ mark' = [mark EXCEPT !.regs = @ \cup {g}]
    /\ UNCHANGED <<load, controller, alive, history, faults>>

\* A grant to a net that was torn down is dead-lettered.
Bounce(g) ==
    /\ g \in mail.grants /\ net[g.by].at = "dead"
    /\ mail' = [mail EXCEPT !.grants = @ \ {g}]
    /\ bounced' = bounced \cup {g.unit}
    /\ UNCHANGED <<load, mark, net, controller, alive, untracked, faults>>

\* Mutant: the exhausted path forgets the release.
FinishKeepsUnit(c) ==
    /\ net[c].at = "held" /\ ~net[c].lost
    /\ net[c].unit.owner \in alive \cup {None}
    /\ net' = [net EXCEPT ![c].at = "idle", ![c].unit = None]
    /\ UNCHANGED <<load, mark, mail, controller, alive, history, faults>>

\* t_<id>_to_output or t_<id>_to_error: the body ended on its runner.  Once the
\* loss is parked the abort is the older transition and goes first.
Finish(c) ==
    /\ net[c].at = "held" /\ ~net[c].lost
    /\ net[c].unit.owner \in alive \cup {None}
    /\ net' = [net EXCEPT ![c].at = "idle", ![c].unit = None]
    /\ mark' = [mark EXCEPT !.releases[c] = @ + 1]
    /\ UNCHANGED <<load, mail, controller, alive, history, faults>>

\* The instance is cancelled or fails elsewhere: its finalizers withdraw the
\* claim or release the hold, whichever is parked.
Teardown(c) ==
    /\ Faulty("teardown")
    /\ net[c].at \in {"pending", "held"}
    /\ net' = [net EXCEPT ![c].at = "dead", ![c].unit = None]
    /\ mark' = IF net[c].at = "held" THEN [mark EXCEPT !.releases[c] = @ + 1]
                                     ELSE [mark EXCEPT !.withdraws = @ \cup {c}]
    /\ UNCHANGED <<load, mail, controller, alive, history>>

\* t_<id>_lease_failed_register
LeaseFailed(c) ==
    /\ c \in mail.notices
    /\ mail' = [mail EXCEPT !.notices = @ \ {c}]
    /\ net' = [net EXCEPT ![c].lost = TRUE]
    /\ UNCHANGED <<load, mark, controller, alive, history, faults>>

\* t_<id>_lease_abort throws: the failure removes p_held, so nothing is released.
LeaseAbort(c) ==
    /\ net[c].at = "held" /\ net[c].lost
    /\ net' = [net EXCEPT ![c].at = "dead", ![c].unit = None]
    /\ UNCHANGED <<load, mark, mail, controller, alive, history, faults>>

-----------------------------------------------------------------------------
(***************************************************************************)
(* The pool net.                                                           *)
(***************************************************************************)
\* Mutant: the unit granted stays in the pool (a read arc for an input arc).
GrantKeepsUnit(c, u) ==
    /\ load.source # "consent"
    /\ c \in mark.claims /\ u \in mark.pool
    /\ u.owner # None => <<c, u.owner>> \in Satisfies
    /\ mark' = [mark EXCEPT !.claims = @ \ {c}]
    /\ mail' = [mail EXCEPT !.grants = @ \cup {[by |-> c, unit |-> u]}]
    /\ UNCHANGED <<load, net, controller, alive, history, faults>>

\* t_grant, guarded by satisfies() in a presence pool only.
Grant(c, u) ==
    /\ load.source # "consent"
    /\ c \in mark.claims /\ u \in mark.pool
    /\ u.owner # None => <<c, u.owner>> \in Satisfies
    /\ mark' = [mark EXCEPT !.claims = @ \ {c}, !.pool = @ \ {u}]
    /\ mail' = [mail EXCEPT !.grants = @ \cup {[by |-> c, unit |-> u]}]
    /\ UNCHANGED <<load, net, controller, alive, history, faults>>

\* t_post_offer
PostOffer(c) ==
    /\ load.source = "consent" /\ c \in mark.claims
    /\ mark' = [mark EXCEPT !.claims = @ \ {c}, !.offers = @ \cup {c}]
    /\ UNCHANGED <<load, mail, net, controller, alive, history, faults>>

\* claim_task: a member bids for an offer; the engine drops another bid for it.
ClaimTask(c, r) ==
    /\ c \in mark.offers /\ r \in alive
    /\ ~\E b \in mark.bids : b[1] = c
    /\ mark' = [mark EXCEPT !.bids = @ \cup {<<c, r>>}]
    /\ UNCHANGED <<load, mail, net, controller, alive, history, faults>>

\* t_claim: any free slot of the member that bid.
ClaimOffer(b, u) ==
    /\ b \in mark.bids /\ b[1] \in mark.offers /\ u \in mark.pool
    /\ u.owner = b[2] /\ b \in Satisfies
    /\ mark' = [mark EXCEPT !.offers = @ \ {b[1]}, !.bids = @ \ {b}, !.pool = @ \ {u}]
    /\ mail' = [mail EXCEPT !.grants = @ \cup {[by |-> b[1], unit |-> u]}]
    /\ UNCHANGED <<load, net, controller, alive, history, faults>>

\* t_withdraw: a claim that is still queued.  An offer already parked is not one.
Withdraw(c) ==
    /\ c \in mark.withdraws \cap mark.claims
    /\ mark' = [mark EXCEPT !.withdraws = @ \ {c}, !.claims = @ \ {c}]
    /\ UNCHANGED <<load, mail, net, controller, alive, history, faults>>

\* t_register
Register(h) ==
    /\ h \in mark.regs
    /\ mark' = [mark EXCEPT !.regs = @ \ {h}, !.inUse = @ \cup {h}]
    /\ UNCHANGED <<load, mail, net, controller, alive, history, faults>>

\* Mutant: the release is not correlated on the grant id.
ReleaseAny(c, h) ==
    /\ mark.releases[c] > 0 /\ h \in mark.inUse
    /\ mark' = [mark EXCEPT !.releases[c] = @ - 1, !.inUse = @ \ {h},
                            !.pool = @ \cup {h.unit}]
    /\ UNCHANGED <<load, mail, net, controller, alive, history, faults>>

\* Mutant: the unit is dropped, as a reap does.
ReleaseDropsUnit(c, h) ==
    /\ mark.releases[c] > 0 /\ h \in mark.inUse /\ h.by = c
    /\ mark' = [mark EXCEPT !.releases[c] = @ - 1, !.inUse = @ \ {h}]
    /\ UNCHANGED <<load, mail, net, controller, alive, history, faults>>

\* Mutant: fires without a request.
ReleaseUnasked(c, h) ==
    /\ h \in mark.inUse /\ h.by = c
    /\ mark' = [mark EXCEPT !.releases[c] = @ - 1, !.inUse = @ \ {h},
                            !.pool = @ \cup {h.unit}]
    /\ UNCHANGED <<load, mail, net, controller, alive, history, faults>>

\* t_release: a hold of the same grant id, whichever lap's.
Release(c, h) ==
    /\ mark.releases[c] > 0 /\ h \in mark.inUse /\ h.by = c
    /\ mark' = [mark EXCEPT !.releases[c] = @ - 1, !.inUse = @ \ {h},
                            !.pool = @ \cup {h.unit}]
    /\ UNCHANGED <<load, mail, net, controller, alive, history, faults>>

\* t_presence_acquire
AdmitUnit(u) ==
    /\ u \in mark.acquires
    /\ mark' = [mark EXCEPT !.acquires = @ \ {u}, !.pool = @ \cup {u}]
    /\ UNCHANGED <<load, mail, net, controller, alive, history, faults>>

\* t_reap_free
ReapFree(r, u) ==
    /\ mark.expires[r] > 0 /\ u \in mark.pool /\ u.owner = r
    /\ mark' = [mark EXCEPT !.expires[r] = @ - 1, !.pool = @ \ {u}]
    /\ UNCHANGED <<load, mail, net, controller, alive, history, faults>>

\* Mutant: the hold carries no fail channel, so nobody is told.
ReapHeldSilently(r, h) ==
    /\ mark.expires[r] > 0 /\ h \in mark.inUse /\ h.unit.owner = r
    /\ mark' = [mark EXCEPT !.expires[r] = @ - 1, !.inUse = @ \ {h}]
    /\ UNCHANGED <<load, mail, net, controller, alive, history, faults>>

\* t_reap_held
ReapHeld(r, h) ==
    /\ mark.expires[r] > 0 /\ h \in mark.inUse /\ h.unit.owner = r
    /\ mark' = [mark EXCEPT !.expires[r] = @ - 1, !.inUse = @ \ {h}]
    /\ mail' = [mail EXCEPT !.notices = @ \cup {h.by}]
    /\ UNCHANGED <<load, net, controller, alive, history, faults>>

-----------------------------------------------------------------------------
(***************************************************************************)
(* The presence controller: one subscriber task, one sweep task, one map.  *)
(***************************************************************************)
\* count_runner_units: free and registered units only.
CountUnits(r) ==
    Cardinality({u \in mark.pool \cup UnitsOf(mark.inUse) : u.owner = r})

\* All its units, the ones in messages under way included.
LiveUnits(r) ==
    {u \in mark.acquires \cup mark.pool
               \cup UnitsOf(mail.grants \cup mark.regs \cup mark.inUse) : u.owner = r}

\* slots_to_reconcile
SlotsToReconcile(existing) ==
    IF existing < Concurrency THEN Concurrency - existing ELSE 0

\* handle_presence up to the engine read, an error of which counts as C.  With
\* nothing to inject an absent runner is marked present at once.
Heartbeat(r) ==
    /\ handler = None /\ r \in alive
    /\ \E need \in {SlotsToReconcile(CountUnits(r)), 0} :
         /\ FaultUnless(need = SlotsToReconcile(CountUnits(r)), "error")
         /\ minted[r] + need <= MaxMints
         /\ IF need > 0
              THEN /\ handler' = [runner |-> r, need |-> need, edge |-> r \notin present]
                   /\ UNCHANGED present
              ELSE /\ present' = present \cup {r}
                   /\ UNCHANGED handler
    /\ UNCHANGED <<load, poolVars, net, alive, minted, history>>

\* The rest of handle_presence: mint the missing slots under a new epoch, then
\* commit the absent-to-present edge.  A failed publish is only logged.
Inject ==
    /\ handler # None
    /\ LET r == handler.runner
           fresh == [owner : {r}, n : minted[r] + 1 .. minted[r] + handler.need]
       IN /\ minted' = [minted EXCEPT ![r] = @ + handler.need]
          /\ \E published \in {fresh, {}} :
               /\ FaultUnless(published = fresh, "lost acquire")
               /\ mark' = [mark EXCEPT !.acquires = @ \cup published]
          /\ present' = IF handler.edge THEN present \cup {r} ELSE present
          /\ untracked' = IF Cardinality(LiveUnits(r)) + handler.need > Concurrency
                            THEN untracked \cup {r} ELSE untracked
    /\ handler' = None
    /\ UNCHANGED <<load, mail, net, alive, bounced>>

\* The sweep: no heartbeat for a TTL, of a dead runner or lost on the way.  One
\* expire signal per slot, and a failed publish is only logged.
Sweep(r) ==
    /\ r \in present /\ (handler # None => handler.runner # r)
    /\ present' = present \ {r}
    /\ \/ /\ FaultUnless(r \notin alive, "missed")
          /\ mark' = [mark EXCEPT !.expires[r] = @ + Concurrency]
          /\ UNCHANGED untracked
       \/ /\ r \notin alive /\ Faulty("lost expire")
          /\ untracked' = untracked \cup {r}
          /\ UNCHANGED mark
    /\ UNCHANGED <<load, mail, net, handler, alive, minted, bounced>>

\* The control plane restarts: its map is gone, and so is the handler.
Restart ==
    /\ Faulty("restart")
    /\ present' = {} /\ handler' = None
    /\ untracked' = untracked \cup present
    /\ UNCHANGED <<load, poolVars, net, alive, minted, bounced>>

\* Mutant: a live holder's lease is reclaimed too.
GoneOrLive(c) == net[c].at \in {"idle", "pending", "held", "dead"}

\* holder_is_dead
Gone(c) == net[c].at = "dead" \/ (net[c].at = "idle" /\ net[c].lap = load.laps[c])

\* repair_pool: a release for every hold whose holder is gone, then rearm_pool.
Repair ==
    /\ Faulty("repair")
    /\ mark' = [mark EXCEPT !.releases =
                  [c \in Claimant |->
                     IF Gone(c) /\ \E h \in mark.inUse : h.by = c
                     THEN @[c] + 1 ELSE @[c]]]
    /\ present' = {}
    /\ untracked' = untracked \cup present
    /\ UNCHANGED <<load, mail, net, handler, alive, minted, bounced>>

RunnerDies(r) ==
    /\ Faulty("death")
    /\ r \in alive
    /\ alive' = alive \ {r}
    /\ UNCHANGED <<load, poolVars, net, controller, history>>

-----------------------------------------------------------------------------
StepNext ==
    \/ \E c \in Claimant : Finish(c) \/ Teardown(c) \/ LeaseFailed(c) \/ LeaseAbort(c)
    \/ \E g \in mail.grants : Acquire(g) \/ Bounce(g)

PoolNext ==
    \/ \E c \in Claimant : \/ PostOffer(c) \/ Withdraw(c)
                           \/ \E u \in mark.pool : Grant(c, u)
                           \/ \E h \in mark.inUse : Release(c, h)
    \/ \E b \in mark.bids, u \in mark.pool : ClaimOffer(b, u)
    \/ \E h \in mark.regs : Register(h)
    \/ \E u \in mark.acquires : AdmitUnit(u)
    \/ \E r \in Runner : \/ \E u \in mark.pool : ReapFree(r, u)
                         \/ \E h \in mark.inUse : ReapHeld(r, h)

ControllerNext ==
    \/ \E r \in Runner : Heartbeat(r) \/ Sweep(r) \/ RunnerDies(r)
    \/ Inject \/ Restart \/ Repair

\* Steps nobody is obliged to take.
Request == \E c \in Claimant : Claim(c) \/ \E r \in Runner : ClaimTask(c, r)

System == StepNext \/ PoolNext \/ ControllerNext

Next == System \/ Request

Spec == Init /\ [][Next]_vars

\* Every part acts while it can without a fault: the nets' evaluation loops, the
\* bridge's deliveries, the bodies' executors, the runners' heartbeats, the
\* subscriber and the sweep.
FairSpec == Spec /\ WF_vars(System /\ UNCHANGED faults)

-----------------------------------------------------------------------------
(***************************************************************************)
(* Properties.                                                             *)
(***************************************************************************)
AtMostOnce(holds) == \A g, h \in holds : g.unit = h.unit => g = h

\* A unit is in one place of the pool net, under way in one message, or lost:
\* no release, reap, admission or grant ever makes a second copy of it, whatever
\* the order the messages arrive in.
UnitInOnePlace ==
    LET place == <<mark.acquires, mark.pool, UnitsOf(mail.grants), UnitsOf(mark.regs),
                   UnitsOf(mark.inUse), bounced>>
    IN /\ \A i, j \in DOMAIN place : i # j => place[i] \cap place[j] = {}
       /\ AtMostOnce(mail.grants) /\ AtMostOnce(mark.regs) /\ AtMostOnce(mark.inUse)

\* Every unit of a seeded pool is accounted for.  Only a grant that crosses its
\* claimant's withdrawal is lost, and no release finalizer ever returns it.
NoUnitLost ==
    load.source = "seeded" =>
        Seeds = mark.pool \cup UnitsOf(mail.grants) \cup UnitsOf(mark.regs)
                     \cup UnitsOf(mark.inUse) \cup bounced

\* No more bodies run at once than a seeded pool has units, though the laps of
\* a step share a grant id and a release may free the hold of another lap.
WithinCapacity ==
    load.source = "seeded" => Cardinality({c \in Claimant : net[c].at = "held"}) <= Capacity

\* Two bodies never run on one unit, unless one of them re-entered its step: a
\* release that outlives its reaped hold then frees the next lap's.
UnitExclusive ==
    \A c, d \in Claimant :
        (/\ net[c].at = "held" /\ net[d].at = "held" /\ net[c].unit = net[d].unit
         /\ net[c].lap = 1 /\ net[d].lap = 1) => c = d

\* A body whose hold the pool has dropped is told: the notice is under way or
\* parked, so the body cannot go on on a unit that is nobody's.
LossNotified ==
    \A c \in Claimant : net[c].at = "held" /\ net[c].lap = 1 =>
        \/ [by |-> c, unit |-> net[c].unit] \in mark.regs \cup mark.inUse
        \/ c \in mail.notices \/ net[c].lost

\* A queued claim is granted whatever the order of messages, sweeps, restarts,
\* lost injections and torn down nets, while some runner that satisfies it
\* stays alive (a seeded pool: while some unit is left).
EveryClaimServed ==
    \A c \in Claimant :
        net[c].at = "pending" ~>
            \/ net[c].at # "pending"
            \/ load.source = "consent"
            \/ load.source = "auto" /\ ~\E r \in alive : <<c, r>> \in Satisfies
            \/ load.source = "seeded" /\ bounced = Seeds

\* A body on a runner that died stops: the sweep's expire signals reap its hold,
\* a registration that was late included, and the notice aborts it, unless the
\* controller lost track of the runner or minted it more than C units.
DeadRunnerFreesHolder ==
    \A c \in Claimant, r \in Runner :
        (net[c].at = "held" /\ net[c].unit.owner = r /\ r \notin alive) ~>
            (net[c].at # "held" \/ r \in untracked)

\* handle_presence: a present runner has "exactly C units accounted in the
\* engine", and the top-up "can never DOUBLE-admit".
AtMostConcurrency == \A r \in Runner : CountUnits(r) <= Concurrency
=============================================================================
