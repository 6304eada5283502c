------------------------------ MODULE MCStore ------------------------------
(* A small instance of StoreLifecycle for TLC. *)
EXTENDS StoreLifecycle, TLC

CONSTANTS p, q, t1, t2, c1, c2, d1, d2

Created(pl, id, d) ==
    [kind |-> "TokenCreated", place |-> pl, token |-> [id |-> id, color |-> c1], dedup |-> d]

\* One event of every shape that a marking or a dedup ring can tell apart.
MCInputs ==
    {Created(p, t1, d1), Created(p, t2, d2), Created(q, t2, d1),
     [kind |-> "TransitionFired", consumed |-> << <<p, t1>> >>,
      produced |-> << <<q, [id |-> t2, color |-> c2]>> >>],
     [kind |-> "TokenUpdated", place |-> p, id |-> t1, color |-> c2],
     [kind |-> "EffectFailed", consumed |-> << <<p, t2>> >>, produced |-> << >>,
      tokensConsumed |-> FALSE]}
=============================================================================
