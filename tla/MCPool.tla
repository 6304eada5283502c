------------------------------- MODULE MCPool -------------------------------
(***************************************************************************)
(* ResourcePool for TLC: three pooled steps and a runner they all may use. *)
(***************************************************************************)
EXTENDS ResourcePool, TLC

CONSTANTS c1, c2, c3

Laps(i, j, k) == c1 :> i @@ c2 :> j @@ c3 :> k

AnyRunner == Claimant \X Runner

\* A seeded pool of two units for three steps, one in a loop; a presence pool
\* of one runner for two, in a loop or with one more fault.
Loads == {[source |-> "seeded", laps |-> Laps(2, 1, 1), faults |-> 2],
          [source |-> "auto", laps |-> Laps(1, 1, 0), faults |-> 2],
          [source |-> "auto", laps |-> Laps(2, 1, 0), faults |-> 1],
          [source |-> "consent", laps |-> Laps(1, 1, 0), faults |-> 1]}

Quiet == {[source |-> "auto", laps |-> Laps(1, 1, 0), faults |-> 0]}

AllFaults == {"teardown", "error", "missed", "lost acquire", "lost expire", "restart",
              "repair", "death"}
=============================================================================
