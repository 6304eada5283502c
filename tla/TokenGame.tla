------------------------------ MODULE TokenGame ------------------------------
(***************************************************************************)
(* What evaluating a net promises: it plays the token game of the net's    *)
(* topology.  Every move is made on the marking as it is: tokens arrive    *)
(* from outside, and a transition takes the oldest token of each of its    *)
(* input places and gives a new one to each of its output places, or fails *)
(* and takes its tokens with it, or is rejected and takes nothing.  No     *)
(* caches, locks, snapshots, logs or half-done steps.                      *)
(***************************************************************************)
EXTENDS Naturals, Sequences, FiniteSets

CONSTANTS
    Place, Transition, Pre, Post,   \* the topology
    Finalizer,                      \* transitions that only clean up after a failure
    Injected,                       \* places where tokens arrive from outside
    Token                           \* tokens, each with an id

VARIABLES
    marking,    \* the tokens of each place, in the order of their arrival
    used,       \* the ids that tokens have had
    failed      \* whether a transition has failed permanently

gvars == <<marking, used, failed>>

GInit ==
    /\ marking = [p \in Place |-> << >>]
    /\ used = {}
    /\ failed = FALSE

Bound(t, m) == \A p \in Pre[t] : m[p] # << >>

BoundIds(t, m) == {Head(m[p]).id : p \in Pre[t]}

Without(m, S) == [p \in Place |-> IF p \in S THEN Tail(m[p]) ELSE m[p]]

With(m, new) == [p \in Place |-> IF p \in DOMAIN new THEN Append(m[p], new[p]) ELSE m[p]]

\* Every new token has an id of its own that no token ever had.
Fresh(new) ==
    /\ used' = used \cup {new[p].id : p \in DOMAIN new}
    /\ \A p \in DOMAIN new : new[p].id \notin used
    /\ \A p, q \in DOMAIN new : new[p].id = new[q].id => p = q

Inject(p) ==
    /\ \E new \in [{p} -> Token] : Fresh(new) /\ marking' = With(marking, new)
    /\ UNCHANGED failed

Fire(t, m) ==
    /\ \E new \in [Post[t] -> Token] : Fresh(new) /\ marking' = With(Without(m, Pre[t]), new)
    /\ UNCHANGED failed

Fail(t, m) ==
    /\ failed'
    /\ UNCHANGED used
    /\ marking' = Without(m, Pre[t])

Reject(m) ==
    /\ failed'
    /\ UNCHANGED used
    /\ marking' = m

\* A finalizer moves only after a permanent failure.
Move(t, m) ==
    /\ Bound(t, m)
    /\ t \in Finalizer => failed
    /\ Fire(t, m) \/ Fail(t, m) \/ Reject(m)

\* t was enabled before u: u still waited for a token when t had all of its own.
EnabledBefore(t, u, m) == \E x \in BoundIds(u, m) : \A y \in BoundIds(t, m) : y < x

\* The finalizers, and the other transitions, each take their turns in the order
\* in which they were enabled, the one with more inputs first.
Oldest(t, m) ==
    \A u \in Transition :
        (u \in Finalizer <=> t \in Finalizer) /\ Bound(u, m) =>
            \/ EnabledBefore(t, u, m)
            \/ ~EnabledBefore(u, t, m) /\ Cardinality(Pre[t]) >= Cardinality(Pre[u])

GNext == (\E p \in Injected : Inject(p)) \/ (\E t \in Transition : Move(t, marking))

GSpec == GInit /\ [][GNext]_gvars

OldestNext ==
    \/ \E p \in Injected : Inject(p)
    \/ \E t \in Transition : Move(t, marking) /\ Oldest(t, marking)

OldestFirst == GInit /\ [][OldestNext]_gvars
=============================================================================
