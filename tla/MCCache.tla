------------------------------ MODULE MCCache ------------------------------
(* A small instance of SseBroadcast for TLC. *)
EXTENDS SseBroadcast, TLC

CONSTANTS p, q, t1, t2, c1, r1, r2

\* A token arrives, and a firing moves it.
MCInputs ==
    {[kind |-> "TokenCreated", place |-> p, token |-> [id |-> t1, color |-> c1],
      dedup |-> NoDedup],
     [kind |-> "TransitionFired", consumed |-> << <<p, t1>> >>,
      produced |-> << <<q, [id |-> t2, color |-> c1]>> >>]}

\* Bounds: nothing is claimed of a net after a clear overtook a call, and a
\* cleared net is given one event.
AfterClear == clears > 0 => resetting # "raced" /\ Len(log) <= 1

Symmetry == Permutations({r1, r2})
=============================================================================
