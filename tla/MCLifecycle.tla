---------------------------- MODULE MCLifecycle ----------------------------
(***************************************************************************)
(* NetLifecycle for TLC: two messages, the idle timer and terminate.       *)
(***************************************************************************)
EXTENDS NetLifecycle

CONSTANTS m1, m2, timer, http

OneClosing == [messages |-> {m1, m2}, closings |-> 1, faults |-> 0]

\* Two messages race with a closing or with two faults, or one message meets
\* two of each.
Loads == {OneClosing,
          [messages |-> {m1, m2}, closings |-> 0, faults |-> 2],
          [messages |-> {m1}, closings |-> 2, faults |-> 2]}

ClosingLoad == {OneClosing}
=============================================================================
