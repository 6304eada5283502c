----------------------------- MODULE MCExecutor -----------------------------
(***************************************************************************)
(* ExecutorJob for TLC: two job slots, of one process, of two processes    *)
(* that share a base_dir, or on two hosts.                                 *)
(***************************************************************************)
EXTENDS ExecutorJob

CONSTANTS s1, s2

Both == [s \in Slot |-> s1]
Apart == [s \in Slot |-> s]

Place(proc, host, cleanup, retries, kinds) ==
    [proc |-> proc, host |-> host, cleanup |-> cleanup, retries |-> retries, faults |-> kinds]

\* The faults of the dispatch and a stalled worker, with a retry; those of the
\* queue and of the workers, several in a row, without one.
Layouts ==
    {Place(Both, Both, "immediate", 1, {f}) :
        f \in {"submit lost", "submit unacked", "cancel failed", "stall"}}
    \cup {Place(Both, Both, "immediate", 0, {"lost ack", "stall", "crash"}),
          Place(Apart, Both, "on_success", 0, {"lost ack", "stall", "crash", "crash in run"}),
          Place(Apart, Apart, "immediate", 0, {"stall", "crash"}),
          Place(Both, Both, "retain", 0, {"lost status", "disk", "lost ack"})}
=============================================================================
