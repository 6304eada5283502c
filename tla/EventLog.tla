------------------------------ MODULE EventLog ------------------------------
(***************************************************************************)
(* What an event store promises its readers: it behaves like a log that    *)
(* never forgets.  The state is what a reader of the whole log would       *)
(* compute: its projected marking, its dedup ring, its length, its chain   *)
(* tip and the two write cursors.  No base, no tail, no byte cap.          *)
(***************************************************************************)
EXTENDS Naturals

CONSTANTS
    Inputs,             \* the domain events that occur
    MaxEvents,          \* bound: events persisted in one behaviour
    None,               \* the absent value of an Option
    EmptyMarking,       \* the marking of the empty log
    ApplyEvent(_, _),   \* what one event does to a marking
    Remember(_, _),     \* what one event does to the dedup ring
    Reorderings(_)      \* the rings with the same entries as a ring

Larger(a, b) == IF a > b THEN a ELSE b

VARIABLES
    marking,        \* the projection of the whole log
    dedup,          \* the dedup ring of the whole log
    lastHash,       \* the chain tip
    eventCount,     \* the length of the log
    nextSequence,   \* the sequence of the next live append
    streamSeq,      \* the last durable position applied
    saved           \* the last hibernation snapshot, or None

view == <<marking, dedup, lastHash, eventCount, nextSequence, streamSeq>>

Empty ==
    /\ marking = EmptyMarking
    /\ dedup = << >>
    /\ lastHash = None
    /\ eventCount = 0
    /\ nextSequence = 0
    /\ streamSeq = 0

LInit == Empty /\ saved = None

\* One more event: a live append takes the next sequence and moves no durable
\* position; an event of the durable log brings its own of both.
Extend ==
    /\ eventCount' = eventCount + 1
    /\ lastHash' \in 1..MaxEvents
    /\ \E strm \in 0..MaxEvents : streamSeq' = Larger(streamSeq, strm)
    /\ \E seq \in 0..MaxEvents :
          /\ nextSequence' = Larger(nextSequence, seq + 1)
          /\ \E e \in Inputs :
                /\ marking' = ApplyEvent(marking, e)
                /\ dedup' = Remember(dedup, [event |-> e, sequence |-> seq])
    /\ UNCHANGED saved

Forget == Empty' /\ UNCHANGED saved

Save ==
    /\ saved' = [marking |-> marking, dedup |-> dedup, lastHash |-> lastHash,
                 eventCount |-> eventCount, nextSequence |-> nextSequence,
                 streamSeq |-> streamSeq]
    /\ UNCHANGED view

\* The snapshot holds every part of the view, but the ring only as a set.
Restore ==
    /\ saved # None
    /\ marking' = saved.marking
    /\ dedup' \in Reorderings(saved.dedup)
    /\ lastHash' = saved.lastHash
    /\ eventCount' = saved.eventCount
    /\ nextSequence' = saved.nextSequence
    /\ streamSeq' = saved.streamSeq
    /\ UNCHANGED saved

LNext == Extend \/ Forget \/ Save \/ Restore

LSpec == LInit /\ [][LNext]_<<view, saved>>
=============================================================================
