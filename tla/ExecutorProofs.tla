--------------------------- MODULE ExecutorProofs ---------------------------
(***************************************************************************)
(* The runs of a step (module ExecutorJob): one at a time in a run         *)
(* directory, each where a cancel finds it, and one body at a time as long *)
(* as nothing is repeated; for every number of slots, processes and hosts, *)
(* every retry policy, delivery limit and combination of faults.           *)
(***************************************************************************)
EXTENDS ExecutorJob, TLAPS

Terminal == {"completed", "failed", "timed_out", "cancelled"}

Pc == {"idle", "accept", "lock", "stage", "body", "running", "report", "unstage",
       "deregister", "cleanup", "ack"}

Place == {"inbox", "submitted", "accepted", "running", "cancelling", "failure",
          "effect_errors", "completed", "cancelled", "error", "dead_letter"}

NetType == [at : Place, exec : 0..MaxExecs, retries : 0..layout.retries]

Work(n) == [pc : Pc, msg : 0..n, outcome : Status \cup {"none"}]

\* The execution ids in use were handed out, and never more than one for each
\* attempt that the retries allow.
IdsBounded ==
    /\ execs <= net.retries + 1
    /\ net.at = "inbox" /\ net.exec = 0 => execs <= net.retries
    /\ net.exec <= execs
    /\ net.at \in {"submitted", "accepted", "running", "cancelling", "failure"} => net.exec # 0
    /\ \A i \in DOMAIN msgs : msgs[i].exec <= execs
    /\ \A u \in seen : u[1] <= execs

\* A message that can be delivered has deliveries left.
DeliveriesLeft ==
    \A i \in DOMAIN msgs : msgs[i].state = "ready" => msgs[i].delivered < MaxDeliver

\* A slot has a message while it is at work, and one that reports has an outcome.
Equipped(w) ==
    /\ w.pc = "idle" <=> w.msg = 0
    /\ w.pc = "report" => w.outcome \in Terminal

Busy == \A s \in Slot : Equipped(run[s])

TInv == TypeOK /\ IdsBounded /\ DeliveriesLeft /\ Busy

-----------------------------------------------------------------------------
(***************************************************************************)
(* Types.                                                                  *)
(***************************************************************************)
LEMMA Shapes ==
  ASSUME TypeOK
  PROVE  /\ layout.proc \in [Slot -> Slot] /\ layout.host \in [Slot -> Slot]
         /\ layout.retries \in Nat /\ layout.faults \subseteq Fault
         /\ MaxExecs \in Nat /\ MaxExecs = 1 + layout.retries /\ Exec = 1..MaxExecs
         /\ net \in NetType /\ execs \in Nat
         /\ run \in [Slot -> Work(Len(msgs))] /\ Len(msgs) \in Nat
         /\ \A i \in DOMAIN msgs : msgs[i] \in Message /\ msgs[i].exec \in Exec
<1>1. layout \in [proc : [Slot -> Slot], host : [Slot -> Slot],
                  cleanup : {"immediate", "on_success", "retain"},
                  retries : Nat, faults : SUBSET Fault]
  BY LayoutAssumption DEF TypeOK
<1>2. layout.retries \in Nat
  BY <1>1
<1>3. MaxExecs \in Nat /\ MaxExecs = 1 + layout.retries /\ Exec = 1..MaxExecs
  BY <1>2 DEF MaxExecs, Exec
<1>4. \A i \in DOMAIN msgs : msgs[i] \in Message
  BY DEF TypeOK
<1>5. \A m \in Message : m.exec \in Exec
  BY DEF Message
<1> QED BY <1>1, <1>2, <1>3, <1>4, <1>5 DEF TypeOK, NetType, Work, Pc, Place

\* The layout does not change, and the types that depend on it neither.
LEMMA SameTypes ==
  ASSUME layout' = layout
  PROVE  /\ MaxExecs' = MaxExecs /\ Exec' = Exec /\ Message' = Message /\ Update' = Update
         /\ NetType' = NetType
BY DEF MaxExecs, Exec, Message, Update, NetType

\* A slot at work has a message of the queue, so an execution id.
LEMMA Working ==
  ASSUME TInv, NEW s \in Slot, run[s].pc # "idle"
  PROVE  run[s].msg \in DOMAIN msgs /\ ExecOf(s) \in Exec /\ ExecOf(s) <= execs
<1>1. run[s].msg \in DOMAIN msgs
  <2>1. run[s].msg \in 0..Len(msgs) /\ run[s].msg # 0 /\ Len(msgs) \in Nat
    BY Shapes DEF TInv, Work, Busy, Equipped
  <2> QED BY <2>1 DEF TInv, TypeOK
<1>2. ExecOf(s) \in Exec
  BY <1>1, Shapes DEF TInv, ExecOf
<1> QED BY <1>1, <1>2 DEF TInv, IdsBounded, ExecOf

\* A message's state and deliveries change, never its execution id.
LEMMA MessageChanged ==
  ASSUME msgs \in Seq(Message), NEW i \in DOMAIN msgs, NEW m \in Message,
         m.exec = msgs[i].exec, msgs' = [msgs EXCEPT ![i] = m]
  PROVE  /\ msgs' \in Seq(Message) /\ Len(msgs') = Len(msgs) /\ DOMAIN msgs' = DOMAIN msgs
         /\ msgs'[i] = m
         /\ \A j \in DOMAIN msgs : msgs'[j].exec = msgs[j].exec
         /\ \A j \in DOMAIN msgs : j # i => msgs'[j] = msgs[j]
OBVIOUS

LEMMA Enqueued ==
  ASSUME msgs \in Seq(Message), NEW e \in Exec, Enqueue(e)
  PROVE  /\ msgs' \in Seq(Message) /\ Len(msgs') = Len(msgs) + 1
         /\ DOMAIN msgs' = DOMAIN msgs \cup {Len(msgs) + 1}
         /\ \A j \in DOMAIN msgs : msgs'[j] = msgs[j]
         /\ msgs'[Len(msgs) + 1] = [exec |-> e, state |-> "ready", delivered |-> 0]
<1> DEFINE m == [exec |-> e, state |-> "ready", delivered |-> 0]
<1>1. m \in Message
  BY MaxDeliverAssumption DEF Message
<1>2. msgs' = Append(msgs, m)
  BY DEF Enqueue
<1> HIDE DEF m
<1>3. /\ msgs' \in Seq(Message) /\ Len(msgs') = Len(msgs) + 1
      /\ DOMAIN msgs' = DOMAIN msgs \cup {Len(msgs) + 1}
      /\ \A j \in DOMAIN msgs : msgs'[j] = msgs[j]
      /\ msgs'[Len(msgs) + 1] = m
  BY <1>1, <1>2
<1> QED BY <1>3 DEF m

-----------------------------------------------------------------------------
(***************************************************************************)
(* Every step keeps the types and the bounds.                              *)
(***************************************************************************)
\* The conjuncts of TypeOK about the queue and the workers.
WorkType ==
    /\ msgs \in Seq(Message) /\ run \in [Slot -> Work(Len(msgs))]
    /\ locks \subseteq Slot \X Exec /\ registry \in [Slot -> [Exec -> Slot \cup {None}]]
    /\ fired \subseteq Slot /\ cancels \subseteq Slot \X Exec

\* The conjuncts about the net and the signals.
StepType ==
    /\ net \in NetType /\ execs \in 0..MaxExecs /\ asked \in 0..MaxExecs
    /\ seen \subseteq Update /\ sigs \subseteq seen /\ faults \subseteq layout.faults

LEMMA TypeSplit == TypeOK <=> layout \in Layout /\ WorkType /\ StepType
BY DEF TypeOK, WorkType, StepType, Work, NetType, Pc, Place

LEMMA TypeSplitNext == TypeOK' <=> (layout \in Layout)' /\ WorkType' /\ StepType'
BY DEF TypeOK, WorkType, StepType, Work, NetType, Pc, Place

\* What a step of the net that only moves the job token has to show.
LEMMA TokenMoves ==
  ASSUME TInv, net' \in NetType, layout' = layout, execs' = execs, seen' = seen,
         asked' \in 0..MaxExecs, sigs' \subseteq sigs, UNCHANGED <<msgs, worker>>,
         cancels' \subseteq Slot \X Exec, faults' \subseteq layout.faults,
         net'.exec = net.exec \/ net'.exec = 0,
         net'.at \in {"submitted", "accepted", "running", "cancelling", "failure"} =>
             net'.exec # 0,
         \/ net'.retries = net.retries /\ net'.at # "inbox"
         \/ net'.retries = net.retries + 1
  PROVE  TInv'
<1> USE Shapes, SameTypes
<1>1. WorkType'
  BY TypeSplit DEF TInv, WorkType, worker
<1>2. StepType'
  BY TypeSplit DEF TInv, StepType
<1>3. TypeOK'
  BY <1>1, <1>2, TypeSplit, TypeSplitNext DEF TInv
<1>4. IdsBounded'
  <2>1. net.retries \in Nat /\ net.exec \in Nat /\ net'.retries \in Nat /\ net'.exec \in Nat
    BY DEF TInv, NetType
  <2>2. \A i \in DOMAIN msgs' : msgs'[i].exec <= execs'
    BY DEF TInv, IdsBounded
  <2> QED BY <2>1, <2>2 DEF TInv, IdsBounded
<1>5. DeliveriesLeft'
  BY DEF TInv, DeliveriesLeft
<1>6. Busy'
  BY DEF TInv, Busy, Equipped, worker
<1> QED BY <1>3, <1>4, <1>5, <1>6 DEF TInv

\* Correlate, for the transitions that use it.
LEMMA CorrelateTyped ==
  ASSUME TInv, NEW from \in {"submitted", "accepted", "running", "cancelling"}, NEW st,
         NEW to \in Place \ {"inbox"}, Correlate(from, st, to)
  PROVE  TInv'
<1>1. net' = [net EXCEPT !.at = to] /\ net.at = from
  BY DEF Correlate
<1>2. net \in NetType /\ to \in Place
  BY Shapes DEF TInv
<1>3. net' \in NetType /\ net'.at = to /\ net'.exec = net.exec /\ net'.retries = net.retries
  BY <1>1, <1>2 DEF NetType
<1>4. net.exec # 0
  BY <1>1 DEF TInv, IdsBounded
<1>5. /\ UNCHANGED <<layout, execs, asked, seen, msgs, worker, cancels, faults>>
      /\ sigs' \subseteq sigs
  BY DEF Correlate
<1>6. asked \in 0..MaxExecs /\ cancels \subseteq Slot \X Exec /\ faults \subseteq layout.faults
  BY TypeSplit DEF TInv, WorkType, StepType
<1> QED BY <1>3, <1>4, <1>5, <1>6, TokenMoves

LEMMA SubmitTyped == TInv /\ Submit => TInv'
<1> SUFFICES ASSUME TInv, Submit PROVE TInv'
  OBVIOUS
<1> DEFINE e == IF net.exec = 0 THEN execs + 1 ELSE net.exec
<1> USE Shapes, SameTypes
<1>1. net \in NetType /\ execs \in Nat /\ layout.retries \in Nat /\ net.at = "inbox"
  BY DEF TInv, Submit
<1>2. net.exec \in Nat /\ net.retries \in 0..layout.retries /\ MaxExecs = 1 + layout.retries
  BY <1>1 DEF TInv, NetType
<1>3. e \in Exec /\ execs' \in 0..MaxExecs /\ e <= execs' /\ execs <= execs'
      /\ execs' <= net.retries + 1
  <2>1. execs' = (IF net.exec = 0 THEN execs + 1 ELSE execs) /\ Exec = 1..MaxExecs
    BY DEF Submit, TInv
  <2>2. execs <= net.retries + 1 /\ net.exec <= execs /\ (net.exec = 0 => execs <= net.retries)
    BY <1>1 DEF TInv, IdsBounded
  <2> QED BY <1>1, <1>2, <2>1, <2>2
<1>4. /\ layout' = layout /\ UNCHANGED <<asked, bus, worker, cancels>>
      /\ Enqueue(e) \/ msgs' = msgs
      /\ \/ net' = [net EXCEPT !.at = "submitted", !.exec = e]
         \/ net' = [net EXCEPT !.at = "effect_errors"]
      /\ faults' = faults \/ faults' \subseteq layout.faults
  BY DEF Submit, Faulty, TInv, TypeOK
<1> HIDE DEF e
<1>5. net' \in NetType /\ net'.retries = net.retries /\ net'.at \in {"submitted", "effect_errors"}
      /\ (net'.exec = e \/ (net'.exec = net.exec /\ net'.at = "effect_errors"))
  <2>1. e \in 0..MaxExecs /\ "submitted" \in Place /\ "effect_errors" \in Place
    BY <1>3, <1>1 DEF Place, TInv
  <2> QED BY <1>1, <1>2, <1>4, <2>1 DEF NetType
<1>6. /\ msgs' \in Seq(Message) /\ Len(msgs) \in Nat /\ Len(msgs') \in Nat /\ Len(msgs) <= Len(msgs')
      /\ \A i \in DOMAIN msgs' : msgs'[i].exec <= execs'
      /\ \A i \in DOMAIN msgs' : msgs'[i].state = "ready" => msgs'[i].delivered < MaxDeliver
  <2>1. msgs \in Seq(Message)
    BY DEF TInv, TypeOK
  <2>2. CASE msgs' = msgs
    <3>1. \A i \in DOMAIN msgs : msgs[i].exec \in Nat /\ msgs[i].exec <= execs
      BY DEF TInv, IdsBounded
    <3> QED BY <2>1, <2>2, <3>1, <1>3, <1>1 DEF TInv, DeliveriesLeft
  <2>3. CASE Enqueue(e)
    <3>1. \A i \in DOMAIN msgs : msgs[i].exec \in Nat /\ msgs[i].exec <= execs
      BY DEF TInv, IdsBounded
    <3>2. /\ msgs' \in Seq(Message) /\ Len(msgs') = Len(msgs) + 1
          /\ DOMAIN msgs' = DOMAIN msgs \cup {Len(msgs) + 1}
          /\ \A j \in DOMAIN msgs : msgs'[j] = msgs[j]
          /\ msgs'[Len(msgs) + 1] = [exec |-> e, state |-> "ready", delivered |-> 0]
      BY <2>1, <2>3, <1>3, Enqueued
    <3>3. e \in Nat /\ execs' \in Nat /\ 0 < MaxDeliver /\ Len(msgs) \in Nat
      BY <1>3, MaxDeliverAssumption DEF Exec, TInv
    <3> QED BY <3>1, <3>2, <3>3, <1>3, <1>1 DEF TInv, DeliveriesLeft
  <2> QED BY <1>4, <2>2, <2>3
<1>7. run' = run /\ run' \in [Slot -> Work(Len(msgs'))]
  <2>1. run' = run /\ run \in [Slot -> Work(Len(msgs))]
    BY <1>4 DEF TInv, worker
  <2>2. \A w \in Work(Len(msgs)) : w \in Work(Len(msgs'))
    BY <1>6 DEF Work
  <2> QED BY <2>1, <2>2
<1>8. WorkType'
  BY <1>4, <1>6, <1>7, TypeSplit DEF TInv, WorkType, worker
<1>9. StepType'
  BY <1>3, <1>4, <1>5, TypeSplit DEF TInv, StepType, bus
<1>10. TypeOK'
  BY <1>4, <1>8, <1>9, TypeSplit, TypeSplitNext DEF TInv
<1>11. IdsBounded'
  <2>1. \A u \in seen' : u[1] <= execs'
    <3>1. \A u \in seen : u[1] \in Nat /\ u[1] <= execs
      BY DEF TInv, TypeOK, Update, IdsBounded
    <3> QED BY <3>1, <1>1, <1>3, <1>4 DEF bus
  <2>2. net'.exec \in Nat /\ net'.exec <= execs' /\ (net'.at = "submitted" => net'.exec # 0)
    BY <1>1, <1>2, <1>3, <1>5 DEF TInv, IdsBounded
  <2> QED BY <1>3, <1>5, <1>6, <2>1, <2>2 DEF IdsBounded
<1>12. DeliveriesLeft' /\ Busy'
  BY <1>6, <1>7 DEF TInv, DeliveriesLeft, Busy, Equipped
<1> QED BY <1>10, <1>11, <1>12 DEF TInv

LEMMA NetStepTyped == TInv /\ (NetStep \/ AskCancel) => TInv'
<1> SUFFICES ASSUME TInv, NetStep \/ AskCancel PROVE TInv'
  OBVIOUS
<1> USE Shapes
<1>1. net \in NetType /\ net.retries \in 0..layout.retries /\ layout.retries \in Nat
      /\ asked \in 0..MaxExecs /\ cancels \subseteq Slot \X Exec /\ faults \subseteq layout.faults
      /\ net.exec \in 0..MaxExecs /\ MaxExecs \in Nat /\ 0 \in 0..MaxExecs
  BY TypeSplit DEF TInv, NetType, StepType, WorkType
<1>2. \A at \in Place : [net EXCEPT !.at = at] \in NetType
  BY <1>1 DEF NetType
<1>3. CASE SubmitRefused
  <2>1. net' \in NetType
    BY <1>2, <1>3 DEF SubmitRefused, Place
  <2> QED BY <1>1, <1>3, <2>1, TokenMoves DEF SubmitRefused, bus, NetType
<1>4. CASE RecoverEffectError
  <2>1. CASE net.retries < layout.retries
    <3>1. net' = [net EXCEPT !.at = "inbox", !.retries = net.retries + 1]
      BY <1>4, <2>1 DEF RecoverEffectError
    <3>2. net' \in NetType /\ net'.exec = net.exec /\ net'.retries = net.retries + 1
          /\ net'.at = "inbox"
      <4>1. net.retries + 1 \in 0..layout.retries
        BY <1>1, <2>1
      <4> QED BY <1>1, <3>1, <4>1 DEF NetType, Place
    <3> QED BY <1>1, <1>4, <3>2, TokenMoves DEF RecoverEffectError, bus
  <2>2. CASE ~(net.retries < layout.retries)
    <3>1. net' = [net EXCEPT !.at = "dead_letter"]
      BY <1>4, <2>2 DEF RecoverEffectError
    <3>2. net' \in NetType /\ net'.exec = net.exec /\ net'.retries = net.retries
          /\ net'.at = "dead_letter"
      BY <1>1, <3>1 DEF NetType, Place
    <3> QED BY <1>1, <1>4, <3>2, TokenMoves DEF RecoverEffectError, bus
  <2> QED BY <2>1, <2>2
<1>5. CASE Track
  BY <1>5, CorrelateTyped DEF Track, Place
<1>6. CASE AttemptFails
  BY <1>6, CorrelateTyped DEF AttemptFails, Place
<1>7. CASE Cancelled
  BY <1>7, CorrelateTyped DEF Cancelled, Place
<1>8. CASE Retry
  <2>1. net' \in NetType
    BY <1>1, <1>8 DEF Retry, Place, NetType
  <2> QED BY <1>1, <1>8, <2>1, TokenMoves DEF Retry, bus
<1>9. CASE Exhausted
  <2>1. net' \in NetType
    BY <1>2, <1>9 DEF Exhausted, Place
  <2> QED BY <1>1, <1>9, <2>1, TokenMoves DEF Exhausted, bus, NetType
<1>10. CASE AskCancel
  <2>1. TypeOK'
    BY <1>1, <1>10, SameTypes, TypeSplit, TypeSplitNext
    DEF AskCancel, TInv, WorkType, StepType, bus, worker
  <2> QED BY <1>10, <2>1 DEF AskCancel, TInv, IdsBounded, DeliveriesLeft, Busy, Equipped, bus, worker
<1>11. CASE Cancel
  <2>1. net' \in NetType /\ net'.exec = net.exec /\ net'.retries = net.retries
        /\ net'.at \in {"cancelling", "effect_errors"}
    <3>1. net' = [net EXCEPT !.at = "cancelling"] \/ net' = [net EXCEPT !.at = "effect_errors"]
      BY <1>11 DEF Cancel
    <3> QED BY <1>1, <3>1 DEF NetType, Place
  <2>2. net.exec \in Exec
    <3>1. net.exec # 0 /\ Exec = 1..MaxExecs
      BY <1>11 DEF Cancel, TInv, IdsBounded
    <3> QED BY <1>1, <3>1
  <2>3. cancels' \subseteq Slot \X Exec
    <3>1. \A s \in Slot : layout.proc[s] \in Slot
      BY DEF TInv
    <3>2. \/ cancels' = cancels
          \/ cancels' = cancels \cup {<<layout.proc[s], net.exec>> : s \in Slot}
      BY <1>11 DEF Cancel
    <3> QED BY <1>1, <2>2, <3>1, <3>2
  <2>4. faults' \subseteq layout.faults
    BY <1>1, <1>11 DEF Cancel, Faulty
  <2>5. asked' \in 0..MaxExecs /\ UNCHANGED <<layout, execs, bus, msgs, worker>>
    BY <1>1, <1>11 DEF Cancel
  <2>6. net.exec # 0
    BY <1>11 DEF Cancel, TInv, IdsBounded
  <2> QED BY <2>1, <2>3, <2>4, <2>5, <2>6, TokenMoves DEF bus
<1> QED BY <1>3, <1>4, <1>5, <1>6, <1>7, <1>8, <1>9, <1>10, <1>11, SubmitTyped DEF NetStep

\* What a step of the queue or of a worker has to show.
LEMMA WorkMoves ==
  ASSUME TInv, layout' = layout, UNCHANGED netVars,
         msgs' \in Seq(Message), DOMAIN msgs' = DOMAIN msgs, Len(msgs') = Len(msgs),
         \A i \in DOMAIN msgs : msgs'[i].exec = msgs[i].exec,
         DeliveriesLeft',
         run' \in [Slot -> Work(Len(msgs))],
         \A s \in Slot : Equipped(run'[s]),
         locks' \subseteq Slot \X Exec, registry' \in [Slot -> [Exec -> Slot \cup {None}]],
         fired' \subseteq Slot, cancels' \subseteq Slot \X Exec,
         seen' \subseteq Update, sigs' \subseteq seen', \A u \in seen' : u[1] <= execs,
         faults' \subseteq layout.faults
  PROVE  TInv'
<1> USE Shapes, SameTypes
<1>1. WorkType'
  BY TypeSplit DEF TInv, WorkType
<1>2. StepType'
  BY TypeSplit DEF TInv, StepType, netVars
<1>3. TypeOK'
  BY <1>1, <1>2, TypeSplit, TypeSplitNext DEF TInv
<1>4. IdsBounded'
  BY DEF TInv, IdsBounded, netVars
<1>5. Busy'
  BY DEF Busy, Equipped
<1> QED BY <1>3, <1>4, <1>5 DEF TInv

\* An update of one slot.
LEMMA SlotWork ==
  ASSUME TInv, NEW s \in Slot
  PROVE  /\ run \in [Slot -> Work(Len(msgs))] /\ run[s] \in Work(Len(msgs))
         /\ Idle \in Work(Len(msgs)) /\ Idle.pc = "idle"
         /\ \A pc \in Pc : /\ [run[s] EXCEPT !.pc = pc] \in Work(Len(msgs))
                           /\ [run[s] EXCEPT !.pc = pc].pc = pc
                           /\ [run[s] EXCEPT !.pc = pc].msg = run[s].msg
                           /\ [run[s] EXCEPT !.pc = pc].outcome = run[s].outcome
<1>1. run \in [Slot -> Work(Len(msgs))] /\ Len(msgs) \in Nat
  BY Shapes DEF TInv
<1>2. run[s] \in Work(Len(msgs))
  BY <1>1
<1>3. Idle \in Work(Len(msgs)) /\ Idle.pc = "idle"
  BY <1>1 DEF Idle, Work, Pc
<1> QED BY <1>1, <1>2, <1>3 DEF Work

LEMMA ReportTyped ==
  ASSUME TInv, NEW s \in Slot, run[s].pc # "idle", NEW st \in Status, Report(s, st)
  PROVE  /\ seen' \subseteq Update /\ sigs' \subseteq seen'
         /\ \A u \in seen' : u[1] <= execs
         /\ faults' \subseteq layout.faults
         /\ seen' = seen \/ seen' = seen \cup {<<ExecOf(s), st>>}
<1> DEFINE u == <<ExecOf(s), st>>
<1>1. ExecOf(s) \in Exec /\ ExecOf(s) <= execs
  BY Working
<1>2. \/ Signal(u) /\ faults' = faults
      \/ Faulty("lost status") /\ UNCHANGED bus
  BY DEF Report
<1>3. seen \subseteq Update /\ sigs \subseteq seen /\ faults \subseteq layout.faults
      /\ \A v \in seen : v[1] <= execs
  BY DEF TInv, TypeOK, IdsBounded
<1>4. u \in Update /\ u[1] <= execs
  BY <1>1 DEF Update
<1> HIDE DEF u
<1>5. /\ seen' \subseteq Update /\ sigs' \subseteq seen'
      /\ \A v \in seen' : v[1] <= execs
      /\ faults' \subseteq layout.faults
      /\ seen' = seen \/ seen' = seen \cup {u}
  BY <1>2, <1>3, <1>4 DEF Signal, Faulty, bus
<1> QED BY <1>5 DEF u

\* A slot step that moves its pc and may report a status.
LEMMA PcMoves ==
  ASSUME TInv, NEW s \in Slot, run[s].pc # "idle", NEW pc \in Pc \ {"idle", "report"},
         run' = [run EXCEPT ![s] = [run[s] EXCEPT !.pc = pc]],
         UNCHANGED <<layout, netVars, msgs, fired, cancels>>,
         locks' \subseteq Slot \X Exec, registry' \in [Slot -> [Exec -> Slot \cup {None}]],
         \/ UNCHANGED <<bus, faults>>
         \/ UNCHANGED bus /\ faults' \subseteq layout.faults
         \/ \E st \in Status : Report(s, st)
  PROVE  TInv'
<1>1. run[s].msg # 0
  BY DEF TInv, Busy, Equipped
<1>2. /\ run' \in [Slot -> Work(Len(msgs))]
      /\ \A t \in Slot : Equipped(run'[t])
  BY <1>1, SlotWork DEF TInv, Busy, Equipped
<1>3. /\ seen' \subseteq Update /\ sigs' \subseteq seen'
      /\ \A u \in seen' : u[1] <= execs
      /\ faults' \subseteq layout.faults
  <2>1. CASE \E st \in Status : Report(s, st)
    BY <2>1, ReportTyped
  <2>2. CASE ~\E st \in Status : Report(s, st)
    BY <2>2 DEF bus, TInv, TypeOK, IdsBounded
  <2> QED BY <2>1, <2>2
<1>4. DeliveriesLeft' /\ msgs' = msgs /\ msgs \in Seq(Message)
      /\ fired' \subseteq Slot /\ cancels' \subseteq Slot \X Exec
  BY DEF TInv, DeliveriesLeft, TypeOK
<1> QED BY <1>2, <1>3, <1>4, WorkMoves

LEMMA WorkerTypes ==
  ASSUME TInv
  PROVE  /\ locks \subseteq Slot \X Exec /\ registry \in [Slot -> [Exec -> Slot \cup {None}]]
         /\ fired \subseteq Slot /\ cancels \subseteq Slot \X Exec
         /\ seen \subseteq Update /\ sigs \subseteq seen /\ \A u \in seen : u[1] <= execs
         /\ faults \subseteq layout.faults /\ msgs \in Seq(Message)
BY DEF TInv, TypeOK, IdsBounded

LEMMA SlotStepTyped ==
  ASSUME TInv, NEW s \in Slot, SlotStep(s)
  PROVE  TInv'
<1> USE WorkerTypes
<1>0. /\ layout.proc[s] \in Slot /\ layout.host[s] \in Slot
      /\ (run[s].pc # "idle" => ExecOf(s) \in Exec /\ RunDir(s) \in Slot \X Exec)
  BY Shapes, Working DEF TInv, RunDir
<1>a. \A pc \in {"lock", "ack", "stage", "body", "running", "unstage", "deregister",
                 "cleanup"} : pc \in Pc \ {"idle", "report"}
  BY DEF Pc
<1>b. \A st \in {"accepted", "failed", "running"} : st \in Status
  BY DEF Status
<1>1. CASE Accept(s)
  BY <1>1, <1>a, <1>b, PcMoves DEF Accept
<1>2. CASE Unsupported(s)
  BY <1>2, <1>a, <1>b, PcMoves DEF Unsupported
<1>3. CASE TakeLock(s)
  <2>1. registry' \in [Slot -> [Exec -> Slot \cup {None}]] /\ locks' \subseteq Slot \X Exec
    BY <1>0, <1>3 DEF TakeLock
  <2> QED BY <1>3, <1>a, <2>1, PcMoves DEF TakeLock
<1>4. CASE SkipDuplicate(s)
  BY <1>4, <1>a, PcMoves DEF SkipDuplicate
<1>5. CASE NoRunDir(s)
  <2>1. faults' \subseteq layout.faults
    BY <1>5 DEF NoRunDir, Faulty
  <2> QED BY <1>5, <1>a, <2>1, PcMoves DEF NoRunDir
<1>6. CASE Stage(s)
  BY <1>6, <1>a, <1>b, PcMoves DEF Stage
<1>7. CASE Running(s)
  BY <1>7, <1>a, <1>b, PcMoves DEF Running
<1>8. ASSUME NEW o \in Status \ {"accepted", "running"}, BodyEnds(s, o)
      PROVE  TInv'
  <2> DEFINE w == [run[s] EXCEPT !.pc = "report", !.outcome = o]
  <2>1. run' = [run EXCEPT ![s] = w] /\ run[s].pc \in {"body", "running"}
    BY <1>8 DEF BodyEnds
  <2>2. w \in Work(Len(msgs)) /\ w.msg = run[s].msg /\ w.outcome \in Terminal
        /\ run[s].msg # 0
    <3>1. run[s] \in Work(Len(msgs)) /\ "report" \in Pc /\ o \in Status
      BY <1>8, SlotWork DEF Pc
    <3>2. w.outcome = o /\ o \in Terminal
      BY <3>1, <1>8 DEF Work, Status, Terminal
    <3>3. run[s].msg # 0
      BY <2>1 DEF TInv, Busy, Equipped
    <3> QED BY <3>1, <3>2, <3>3 DEF Work
  <2> HIDE DEF w
  <2>3. /\ run' \in [Slot -> Work(Len(msgs))]
        /\ \A t \in Slot : Equipped(run'[t])
    <3>1. Equipped(w)
      BY <2>2 DEF Equipped, w
    <3> QED BY <2>1, <2>2, <3>1, SlotWork DEF TInv, Busy
  <2>4. DeliveriesLeft'
    BY <1>8 DEF BodyEnds, TInv, DeliveriesLeft
  <2> QED BY <1>8, <2>3, <2>4, WorkMoves DEF BodyEnds, bus
<1>9. CASE ReportTerminal(s)
  <2>1. run[s].outcome \in Status
    BY <1>9 DEF ReportTerminal, TInv, Busy, Equipped, Terminal, Status
  <2> QED BY <1>9, <1>a, <2>1, PcMoves DEF ReportTerminal
<1>10. CASE Deregister(s)
  <2>1. registry' \in [Slot -> [Exec -> Slot \cup {None}]] /\ locks' \subseteq Slot \X Exec
    BY <1>0, <1>10 DEF Deregister
  <2>2. run' = [run EXCEPT ![s] = [run[s] EXCEPT !.pc = IF run[s].pc = "unstage"
                                                        THEN "ack" ELSE "cleanup"]]
    BY <1>10 DEF Deregister
  <2> QED BY <1>10, <1>a, <2>1, <2>2, PcMoves DEF Deregister
<1>11. CASE CleanUp(s)
  <2>1. locks' \subseteq Slot \X Exec
    BY <1>11 DEF CleanUp
  <2> QED BY <1>11, <1>a, <2>1, PcMoves DEF CleanUp
<1>12. CASE Ack(s)
  <2> DEFINE i == run[s].msg
             m == [msgs[i] EXCEPT !.state = "acked"]
  <2>1. i \in DOMAIN msgs
    BY <1>12, Working DEF Ack
  <2>2. m \in Message /\ m.exec = msgs[i].exec /\ m.state = "acked"
    BY <2>1, Shapes DEF TInv, Message
  <2>3. msgs' = msgs \/ msgs' = [msgs EXCEPT ![i] = m]
    BY <1>12 DEF Ack
  <2> HIDE DEF m, i
  <2>4. /\ msgs' \in Seq(Message) /\ DOMAIN msgs' = DOMAIN msgs /\ Len(msgs') = Len(msgs)
        /\ \A j \in DOMAIN msgs : msgs'[j].exec = msgs[j].exec
        /\ \A j \in DOMAIN msgs : msgs'[j].state = "ready" => msgs'[j] = msgs[j]
    BY <2>1, <2>2, <2>3, MessageChanged
  <2>5. DeliveriesLeft'
    BY <2>4 DEF TInv, DeliveriesLeft
  <2>6. /\ run' \in [Slot -> Work(Len(msgs))]
        /\ \A t \in Slot : Equipped(run'[t])
    <3>1. Equipped(Idle)
      BY DEF Equipped, Idle
    <3> QED BY <1>12, <3>1, SlotWork DEF Ack, TInv, Busy
  <2>7. faults' \subseteq layout.faults /\ fired' \subseteq Slot
    BY <1>12 DEF Ack, Faulty
  <2> QED BY <1>12, <2>4, <2>5, <2>6, <2>7, WorkMoves DEF Ack, bus
<1> QED BY <1>1, <1>2, <1>3, <1>4, <1>5, <1>6, <1>7, <1>8, <1>9, <1>10, <1>11, <1>12 DEF SlotStep

\* A delivery changes its message's state and count.
LEMMA Delivered ==
  ASSUME TInv, NEW i \in DOMAIN msgs, NEW m, m \in Message, m.exec = msgs[i].exec,
         m.state = "ready" => m.delivered < MaxDeliver, msgs' = [msgs EXCEPT ![i] = m]
  PROVE  /\ msgs' \in Seq(Message) /\ DOMAIN msgs' = DOMAIN msgs /\ Len(msgs') = Len(msgs)
         /\ \A j \in DOMAIN msgs : msgs'[j].exec = msgs[j].exec
         /\ DeliveriesLeft'
<1>1. /\ msgs' \in Seq(Message) /\ Len(msgs') = Len(msgs) /\ DOMAIN msgs' = DOMAIN msgs
      /\ msgs'[i] = m
      /\ \A j \in DOMAIN msgs : msgs'[j].exec = msgs[j].exec
      /\ \A j \in DOMAIN msgs : j # i => msgs'[j] = msgs[j]
  BY WorkerTypes, MessageChanged
<1>2. DeliveriesLeft'
  BY <1>1 DEF DeliveriesLeft, TInv
<1> QED BY <1>1, <1>2

LEMMA ReceiveTyped ==
  ASSUME TInv, NEW s \in Slot, NEW i \in DOMAIN msgs, Receive(s, i)
  PROVE  TInv'
<1> DEFINE m == [msgs[i] EXCEPT !.state = "flight", !.delivered = msgs[i].delivered + 1]
           w == [Idle EXCEPT !.pc = "accept", !.msg = i]
<1>1. msgs' = [msgs EXCEPT ![i] = m] /\ run' = [run EXCEPT ![s] = w] /\ msgs[i].state = "ready"
  BY DEF Receive
<1>2. m \in Message /\ m.exec = msgs[i].exec /\ m.state = "flight"
  <2>1. msgs[i] \in Message /\ msgs[i].delivered < MaxDeliver /\ MaxDeliver \in Nat
    BY <1>1, Shapes, MaxDeliverAssumption DEF TInv, DeliveriesLeft
  <2>2. msgs[i].delivered + 1 \in 0..MaxDeliver
    BY <2>1 DEF Message
  <2> QED BY <2>1, <2>2 DEF Message
<1>3. w \in Work(Len(msgs)) /\ Equipped(w)
  <2>1. i \in 0..Len(msgs) /\ i # 0
    BY WorkerTypes
  <2> QED BY <2>1 DEF Idle, Work, Pc, Equipped
<1> HIDE DEF m, w
<1>4. run' \in [Slot -> Work(Len(msgs))] /\ \A t \in Slot : Equipped(run'[t])
  BY <1>1, <1>3, Shapes DEF TInv, Busy
<1>5. /\ msgs' \in Seq(Message) /\ DOMAIN msgs' = DOMAIN msgs /\ Len(msgs') = Len(msgs)
      /\ \A j \in DOMAIN msgs : msgs'[j].exec = msgs[j].exec
      /\ DeliveriesLeft'
  BY <1>1, <1>2, Delivered
<1> QED BY <1>4, <1>5, WorkerTypes, WorkMoves DEF Receive, bus

LEMMA AckWaitTyped ==
  ASSUME TInv, NEW i \in DOMAIN msgs, AckWaitEnds(i)
  PROVE  TInv'
<1> DEFINE m == [msgs[i] EXCEPT !.state = IF msgs[i].delivered < MaxDeliver
                                          THEN "ready" ELSE "spent"]
<1>1. msgs' = [msgs EXCEPT ![i] = m]
  BY DEF AckWaitEnds
<1>2. m \in Message /\ m.exec = msgs[i].exec /\ (m.state = "ready" => m.delivered < MaxDeliver)
  <2>1. msgs[i] \in Message
    BY Shapes DEF TInv
  <2> QED BY <2>1 DEF Message
<1> HIDE DEF m
<1>3. /\ msgs' \in Seq(Message) /\ DOMAIN msgs' = DOMAIN msgs /\ Len(msgs') = Len(msgs)
      /\ \A j \in DOMAIN msgs : msgs'[j].exec = msgs[j].exec
      /\ DeliveriesLeft'
  BY <1>1, <1>2, Delivered
<1>4. faults' \subseteq layout.faults
  BY WorkerTypes DEF AckWaitEnds, Faulty
<1>5. run' \in [Slot -> Work(Len(msgs))] /\ \A t \in Slot : Equipped(run'[t])
  BY Shapes DEF TInv, Busy, AckWaitEnds, worker
<1> QED BY <1>3, <1>4, <1>5, WorkerTypes, WorkMoves DEF AckWaitEnds, bus, worker

LEMMA ListenTyped ==
  ASSUME TInv, NEW p, NEW e, Listen(p, e)
  PROVE  TInv'
<1>1. p \in Slot /\ e \in Exec
  BY WorkerTypes DEF Listen
<1>2. fired' \subseteq Slot /\ cancels' \subseteq Slot \X Exec
  BY <1>1, WorkerTypes DEF Listen
<1>3. DeliveriesLeft' /\ run' \in [Slot -> Work(Len(msgs))] /\ \A t \in Slot : Equipped(run'[t])
  BY Shapes DEF TInv, Busy, Listen, DeliveriesLeft
<1> QED BY <1>2, <1>3, WorkerTypes, WorkMoves DEF Listen, bus

LEMMA DieTyped ==
  ASSUME TInv, NEW p \in Slot, Die(p)
  PROVE  TInv'
<1>1. registry' \in [Slot -> [Exec -> Slot \cup {None}]]
  BY WorkerTypes DEF Die
<1>2. fired' \subseteq Slot /\ cancels' \subseteq Slot \X Exec /\ faults' \subseteq layout.faults
  BY WorkerTypes DEF Die, Faulty
<1>3. \A t \in Slot : run'[t] = Idle \/ run'[t] = run[t]
  BY DEF Die
<1>4. Equipped(Idle)
  BY DEF Equipped, Idle
<1>5. run' \in [Slot -> Work(Len(msgs))]
  BY Shapes, SlotWork DEF TInv, Die
<1>6. \A t \in Slot : Equipped(run'[t])
  BY <1>3, <1>4 DEF TInv, Busy
<1>7. DeliveriesLeft'
  BY DEF TInv, Die, DeliveriesLeft
<1> QED BY <1>1, <1>2, <1>5, <1>6, <1>7, WorkerTypes, WorkMoves DEF Die, bus

LEMMA StepTyped == TInv /\ [Next]_vars => TInv'
<1> SUFFICES ASSUME TInv, [Next]_vars PROVE TInv'
  OBVIOUS
<1>1. CASE NetStep \/ AskCancel
  BY <1>1, NetStepTyped
<1>2. ASSUME NEW s \in Slot, SlotStep(s) PROVE TInv'
  BY <1>2, SlotStepTyped
<1>3. ASSUME NEW s \in Slot, NEW i \in DOMAIN msgs, Receive(s, i) PROVE TInv'
  BY <1>3, ReceiveTyped
<1>4. ASSUME NEW i \in DOMAIN msgs, AckWaitEnds(i) PROVE TInv'
  BY <1>4, AckWaitTyped
<1>5. ASSUME NEW c \in cancels, Listen(c[1], c[2]) PROVE TInv'
  BY <1>5, ListenTyped
<1>6. ASSUME NEW s \in Slot, Die(layout.proc[s]) PROVE TInv'
  BY <1>6, DieTyped, Shapes DEF TInv
<1>7. CASE UNCHANGED vars
  <2>1. TypeOK'
    BY <1>7, SameTypes, TypeSplit, TypeSplitNext
    DEF vars, netVars, bus, worker, TInv, WorkType, StepType
  <2>2. IdsBounded' /\ DeliveriesLeft'
    BY <1>7 DEF vars, netVars, bus, worker, TInv, IdsBounded, DeliveriesLeft
  <2>3. Busy'
    BY <1>7 DEF vars, worker, TInv, Busy, Equipped
  <2> QED BY <2>1, <2>2, <2>3 DEF TInv
<1> QED BY <1>1, <1>2, <1>3, <1>4, <1>5, <1>6, <1>7 DEF Next

LEMMA InitTyped == Init => TInv
<1> SUFFICES ASSUME Init PROVE TInv
  OBVIOUS
<1>1. layout.retries \in Nat
  BY LayoutAssumption DEF Init
<1>2. MaxExecs \in Nat
  BY <1>1 DEF MaxExecs
<1>3. Len(<< >>) = 0 /\ DOMAIN << >> = {}
  OBVIOUS
<1>4. TypeOK
  BY <1>1, <1>2, <1>3 DEF Init, TypeOK, Idle
<1>5. IdsBounded /\ DeliveriesLeft /\ Busy
  BY <1>1, <1>3 DEF Init, IdsBounded, DeliveriesLeft, Busy, Equipped, Idle
<1> QED BY <1>4, <1>5 DEF TInv

(***************************************************************************)
(* The workers, the queue and the step's net keep their types: execution   *)
(* ids stay within the attempts the retry policy allows and a message is   *)
(* never delivered more than max_deliver times.                            *)
(***************************************************************************)
THEOREM ExecutorTypeCorrect == Spec => []TypeOK
<1>1. TInv => TypeOK
  BY DEF TInv
<1> QED BY <1>1, InitTyped, StepTyped, PTL DEF Spec

-----------------------------------------------------------------------------
(***************************************************************************)
(* Run directories and registries.                                         *)
(***************************************************************************)
Live(s) == run[s].pc \in {"stage", "body", "running", "report", "unstage", "deregister"}

\* Whoever has the lock of a run directory: the lock file is there.
LocksHeld == \A s \in Slot : HasLock(s) => RunDir(s) \in locks

LInv == LocksHeld /\ OneRunPerHost /\ LiveRunRegistered

\* The queue only grows, and a message's execution id stays.
ExecsKept ==
    /\ layout' = layout
    /\ \A i \in DOMAIN msgs : i \in DOMAIN msgs' /\ msgs'[i].exec = msgs[i].exec

LEMMA SubmitKeepsExecs == TInv /\ Submit => ExecsKept
<1> SUFFICES ASSUME TInv, Submit PROVE ExecsKept
  OBVIOUS
<1> DEFINE e == IF net.exec = 0 THEN execs + 1 ELSE net.exec
<1>1. msgs' = msgs \/ Enqueue(e)
  BY DEF Submit
<1> HIDE DEF e
<1>2. CASE Enqueue(e)
  <2> DEFINE m == [exec |-> e, state |-> "ready", delivered |-> 0]
  <2>1. msgs' = Append(msgs, m) /\ msgs \in Seq(Message)
    BY <1>2, WorkerTypes DEF Enqueue
  <2> HIDE DEF m
  <2>2. \A i \in DOMAIN msgs : i \in DOMAIN msgs' /\ msgs'[i] = msgs[i]
    BY <2>1
  <2> QED BY <2>2 DEF ExecsKept, Submit
<1> QED BY <1>1, <1>2 DEF ExecsKept, Submit

LEMMA AckKeepsExecs ==
  ASSUME TInv, NEW s \in Slot, Ack(s)
  PROVE  ExecsKept
<1> DEFINE i == run[s].msg
           m == [msgs[i] EXCEPT !.state = "acked"]
<1>1. i \in DOMAIN msgs
  BY Working DEF Ack
<1>2. m \in Message /\ m.exec = msgs[i].exec
  BY <1>1, Shapes DEF TInv, Message
<1>3. msgs' = msgs \/ msgs' = [msgs EXCEPT ![i] = m]
  BY DEF Ack
<1> HIDE DEF m, i
<1> QED BY <1>1, <1>2, <1>3, WorkerTypes, MessageChanged DEF ExecsKept, Ack

LEMMA ReceiveKeepsExecs ==
  ASSUME TInv, NEW s, NEW i \in DOMAIN msgs, Receive(s, i)
  PROVE  ExecsKept
<1>1. msgs[i] \in Message
  BY Shapes DEF TInv
<1>2. [msgs[i] EXCEPT !.state = "flight", !.delivered = msgs[i].delivered + 1].exec = msgs[i].exec
  BY <1>1 DEF Message
<1>3. msgs' = [msgs EXCEPT ![i] = [msgs[i] EXCEPT !.state = "flight",
                                                  !.delivered = msgs[i].delivered + 1]]
  BY DEF Receive
<1> QED BY <1>2, <1>3, WorkerTypes DEF ExecsKept, Receive

LEMMA AckWaitKeepsExecs ==
  ASSUME TInv, NEW i \in DOMAIN msgs, AckWaitEnds(i)
  PROVE  ExecsKept
<1> DEFINE m == [msgs[i] EXCEPT !.state = IF msgs[i].delivered < MaxDeliver
                                          THEN "ready" ELSE "spent"]
<1>1. msgs[i] \in Message
  BY Shapes DEF TInv
<1>2. m.exec = msgs[i].exec
  BY <1>1 DEF Message
<1>3. msgs' = [msgs EXCEPT ![i] = m]
  BY DEF AckWaitEnds
<1> HIDE DEF m
<1> QED BY <1>2, <1>3, WorkerTypes DEF ExecsKept, AckWaitEnds

\* The execution of a slot that keeps its message.
LEMMA SameExec ==
  ASSUME TInv, ExecsKept, NEW t \in Slot, run[t].pc # "idle", run'[t].msg = run[t].msg
  PROVE  ExecOf(t)' = ExecOf(t) /\ RunDir(t)' = RunDir(t)
BY Working DEF ExecsKept, ExecOf, RunDir

\* A step that takes and gives no lock and registers nothing.
LEMMA LocksKept ==
  ASSUME TInv, LInv, ExecsKept, locks' = locks, registry' = registry,
         \A t \in Slot : HasLock(t)' => HasLock(t) /\ run'[t].msg = run[t].msg,
         \A t \in Slot : Live(t)' => Live(t)
  PROVE  LInv'
<1>1. \A t \in Slot : Live(t) => HasLock(t)
  BY DEF Live, HasLock
<1>2. \A t \in Slot : Live(t)' => HasLock(t)'
  BY DEF Live, HasLock
<1>3. \A t \in Slot : HasLock(t)' => RunDir(t)' = RunDir(t) /\ ExecOf(t)' = ExecOf(t)
  <2> SUFFICES ASSUME NEW t \in Slot, HasLock(t)'
               PROVE  RunDir(t)' = RunDir(t) /\ ExecOf(t)' = ExecOf(t)
    OBVIOUS
  <2>1. run[t].pc # "idle" /\ run'[t].msg = run[t].msg
    BY DEF HasLock
  <2> QED BY <2>1, SameExec
<1>4. LocksHeld'
  BY <1>3 DEF LInv, LocksHeld
<1>5. OneRunPerHost'
  BY <1>3 DEF LInv, OneRunPerHost
<1>6. LiveRunRegistered'
  BY <1>1, <1>2, <1>3 DEF LInv, LiveRunRegistered, Live, ExecsKept
<1> QED BY <1>4, <1>5, <1>6 DEF LInv

\* The slot that moves, and the others.
LEMMA OnePcMoves ==
  ASSUME TInv, NEW s \in Slot, NEW pc, run' = [run EXCEPT ![s].pc = pc]
  PROVE  /\ run'[s].pc = pc /\ run'[s].msg = run[s].msg
         /\ \A t \in Slot : t # s => run'[t] = run[t]
         /\ \A t \in Slot : run'[t].msg = run[t].msg
<1>1. run \in [Slot -> Work(Len(msgs))]
  BY Shapes DEF TInv
<1> QED BY <1>1 DEF Work

\* Two slots of one process that run one execution use one run directory.
LEMMA OneProcessOneDir ==
  ASSUME TInv, NEW s \in Slot, NEW t \in Slot, layout.proc[s] = layout.proc[t],
         ExecOf(s) = ExecOf(t)
  PROVE  RunDir(s) = RunDir(t)
BY HostAssumption DEF TInv, TypeOK, RunDir

LEMMA TakeLockKeeps ==
  ASSUME TInv, LInv, NEW s \in Slot, TakeLock(s)
  PROVE  LInv'
<1>1. run'[s].pc = "stage" /\ run'[s].msg = run[s].msg /\ \A t \in Slot : t # s => run'[t] = run[t]
  BY OnePcMoves DEF TakeLock
<1>2. ExecsKept
  BY DEF TakeLock, ExecsKept
<1>3. RunDir(s)' = RunDir(s) /\ ExecOf(s)' = ExecOf(s) /\ ExecOf(s) \in Exec
  BY <1>1, <1>2, SameExec, Working DEF TakeLock
<1>4. \A t \in Slot : t # s /\ HasLock(t)' => HasLock(t) /\ RunDir(t)' = RunDir(t) /\ ExecOf(t)' = ExecOf(t)
  BY <1>1, <1>2, SameExec DEF HasLock
<1>5. LocksHeld'
  BY <1>3, <1>4 DEF TakeLock, LInv, LocksHeld
<1>6. \A t \in Slot : t # s /\ HasLock(t)' => RunDir(t)' # RunDir(s)'
  BY <1>3, <1>4 DEF TakeLock, LInv, LocksHeld
<1>7. OneRunPerHost'
  <2> SUFFICES ASSUME NEW a \in Slot, NEW b \in Slot, a # b, HasLock(a)', HasLock(b)'
               PROVE  RunDir(a)' # RunDir(b)'
    BY DEF OneRunPerHost
  <2> QED BY <1>4, <1>6 DEF LInv, OneRunPerHost
<1>8. LiveRunRegistered'
  <2> SUFFICES ASSUME NEW t \in Slot, Live(t)'
               PROVE  registry'[layout'.proc[t]][ExecOf(t)'] = t
    BY DEF LiveRunRegistered, Live
  <2>1. registry \in [Slot -> [Exec -> Slot \cup {None}]] /\ layout.proc \in [Slot -> Slot]
        /\ layout' = layout
    BY WorkerTypes, Shapes DEF TInv, TakeLock
  <2>2. CASE t = s
    BY <1>3, <2>1, <2>2 DEF TakeLock
  <2>3. CASE t # s
    <3>1. HasLock(t) /\ Live(t) /\ RunDir(t) # RunDir(s) /\ ExecOf(t)' = ExecOf(t) /\ ExecOf(t) \in Exec
      BY <1>1, <1>3, <1>4, <1>6, <2>3, Working DEF Live, HasLock
    <3>2. layout.proc[t] # layout.proc[s] \/ ExecOf(t) # ExecOf(s)
      BY <3>1, OneProcessOneDir
    <3>3. registry[layout.proc[t]][ExecOf(t)] = t
      BY <3>1 DEF LInv, LiveRunRegistered, Live
    <3> QED BY <1>3, <2>1, <3>1, <3>2, <3>3 DEF TakeLock
  <2> QED BY <2>2, <2>3
<1> QED BY <1>5, <1>7, <1>8 DEF LInv

LEMMA DeregisterKeeps ==
  ASSUME TInv, LInv, NEW s \in Slot, Deregister(s)
  PROVE  LInv'
<1>1. /\ run'[s].pc \in {"ack", "cleanup"} /\ run'[s].msg = run[s].msg
      /\ \A t \in Slot : t # s => run'[t] = run[t]
  <2>1. run' = [run EXCEPT ![s].pc = IF run[s].pc = "unstage" THEN "ack" ELSE "cleanup"]
    BY DEF Deregister
  <2> QED BY <2>1, OnePcMoves
<1>2. ExecsKept
  BY DEF Deregister, ExecsKept
<1>3. HasLock(s) /\ ExecOf(s) \in Exec
  BY Working DEF Deregister, HasLock
<1>4. \A t \in Slot : HasLock(t)' => HasLock(t) /\ RunDir(t)' = RunDir(t) /\ ExecOf(t)' = ExecOf(t)
  BY <1>1, <1>2, <1>3, SameExec DEF HasLock
<1>5. LocksHeld' /\ OneRunPerHost'
  BY <1>4 DEF Deregister, LInv, LocksHeld, OneRunPerHost
<1>6. LiveRunRegistered'
  <2> SUFFICES ASSUME NEW t \in Slot, Live(t)'
               PROVE  registry'[layout'.proc[t]][ExecOf(t)'] = t
    BY DEF LiveRunRegistered, Live
  <2>1. registry \in [Slot -> [Exec -> Slot \cup {None}]] /\ layout.proc \in [Slot -> Slot]
        /\ layout' = layout
    BY WorkerTypes, Shapes DEF TInv, Deregister
  <2>2. t # s
    BY <1>1 DEF Live
  <2>3. Live(t) /\ HasLock(t) /\ ExecOf(t)' = ExecOf(t) /\ ExecOf(t) \in Exec
    BY <1>1, <1>4, <2>2, Working DEF Live, HasLock
  <2>4. layout.proc[t] # layout.proc[s] \/ ExecOf(t) # ExecOf(s)
    BY <1>3, <2>2, <2>3, OneProcessOneDir DEF LInv, OneRunPerHost
  <2>5. registry[layout.proc[t]][ExecOf(t)] = t
    BY <2>3 DEF LInv, LiveRunRegistered, Live
  <2> QED BY <1>3, <2>1, <2>3, <2>4, <2>5 DEF Deregister
<1> QED BY <1>5, <1>6 DEF LInv

LEMMA CleanUpKeeps ==
  ASSUME TInv, LInv, NEW s \in Slot, CleanUp(s)
  PROVE  LInv'
<1>1. run'[s].pc = "ack" /\ run'[s].msg = run[s].msg /\ \A t \in Slot : t # s => run'[t] = run[t]
  BY OnePcMoves DEF CleanUp
<1>2. ExecsKept
  BY DEF CleanUp, ExecsKept
<1>3. HasLock(s)
  BY DEF CleanUp, HasLock
<1>4. \A t \in Slot : HasLock(t)' => /\ t # s /\ HasLock(t) /\ run'[t] = run[t]
                                     /\ RunDir(t)' = RunDir(t) /\ ExecOf(t)' = ExecOf(t)
  BY <1>1, <1>2, SameExec DEF HasLock
<1>5. locks \ {RunDir(s)} \subseteq locks'
  BY DEF CleanUp
<1>6. LocksHeld' /\ OneRunPerHost'
  BY <1>3, <1>4, <1>5 DEF LInv, LocksHeld, OneRunPerHost
<1>7. LiveRunRegistered'
  BY <1>4 DEF CleanUp, LInv, LiveRunRegistered, HasLock
<1> QED BY <1>6, <1>7 DEF LInv

LEMMA DieKeeps ==
  ASSUME TInv, LInv, NEW p \in Slot, Die(p)
  PROVE  LInv'
<1>1. \A t \in Slot : run'[t] = IF layout.proc[t] = p THEN Idle ELSE run[t]
  BY DEF Die
<1>2. ExecsKept /\ layout' = layout
  BY DEF Die, ExecsKept
<1>3. \A t \in Slot : HasLock(t)' => /\ layout.proc[t] # p /\ HasLock(t) /\ run'[t] = run[t]
                                     /\ RunDir(t)' = RunDir(t) /\ ExecOf(t)' = ExecOf(t)
  <2> SUFFICES ASSUME NEW t \in Slot, HasLock(t)'
               PROVE  /\ layout.proc[t] # p /\ HasLock(t) /\ run'[t] = run[t]
                      /\ RunDir(t)' = RunDir(t) /\ ExecOf(t)' = ExecOf(t)
    OBVIOUS
  <2>1. layout.proc[t] # p /\ run'[t] = run[t]
    BY <1>1 DEF HasLock, Idle
  <2> QED BY <1>2, <2>1, SameExec DEF HasLock
<1>4. LocksHeld' /\ OneRunPerHost'
  <2>1. LocksHeld'
    BY <1>3 DEF Die, LInv, LocksHeld
  <2>2. OneRunPerHost'
    BY <1>3 DEF LInv, OneRunPerHost
  <2> QED BY <2>1, <2>2
<1>5. LiveRunRegistered'
  <2> SUFFICES ASSUME NEW t \in Slot, Live(t)'
               PROVE  registry'[layout'.proc[t]][ExecOf(t)'] = t
    BY DEF LiveRunRegistered, Live
  <2>1. HasLock(t)'
    BY DEF Live, HasLock
  <2>2. layout.proc[t] # p /\ Live(t) /\ ExecOf(t)' = ExecOf(t)
    BY <1>3, <2>1 DEF Live
  <2>3. registry' = [registry EXCEPT ![p] = [e \in Exec |-> None]]
        /\ registry \in [Slot -> [Exec -> Slot \cup {None}]] /\ layout.proc[t] \in Slot
    BY WorkerTypes, Shapes DEF Die, TInv
  <2> QED BY <1>2, <2>2, <2>3 DEF LInv, LiveRunRegistered, Live
<1> QED BY <1>4, <1>5 DEF LInv

LEMMA SlotStepKeepsLocks ==
  ASSUME TInv, LInv, NEW s \in Slot, SlotStep(s)
  PROVE  LInv'
<1>1. ASSUME NEW pc, run' = [run EXCEPT ![s].pc = pc], UNCHANGED <<layout, msgs, locks, registry>>,
             \/ pc \in {"lock", "ack"}
             \/ pc \in {"body", "running", "unstage", "deregister"} /\ Live(s)
      PROVE  LInv'
  <2>1. /\ run'[s].pc = pc /\ \A t \in Slot : t # s => run'[t] = run[t]
        /\ \A t \in Slot : run'[t].msg = run[t].msg
    BY <1>1, OnePcMoves
  <2>2. \A t \in Slot : (HasLock(t)' => HasLock(t)) /\ (Live(t)' => Live(t))
    BY <1>1, <2>1 DEF HasLock, Live
  <2>3. ExecsKept
    BY <1>1 DEF ExecsKept
  <2> QED BY <1>1, <2>1, <2>2, <2>3, LocksKept
<1>2. CASE Accept(s) \/ Unsupported(s) \/ SkipDuplicate(s) \/ NoRunDir(s)
  BY <1>1, <1>2 DEF Accept, Unsupported, SkipDuplicate, NoRunDir
<1>3. CASE Stage(s) \/ Running(s) \/ ReportTerminal(s)
  BY <1>1, <1>3 DEF Stage, Running, ReportTerminal, Live
<1>4. ASSUME NEW o, BodyEnds(s, o) PROVE LInv'
  <2>1. run \in [Slot -> Work(Len(msgs))]
    BY Shapes DEF TInv
  <2>2. /\ run'[s].pc = "report" /\ \A t \in Slot : t # s => run'[t] = run[t]
        /\ \A t \in Slot : run'[t].msg = run[t].msg
    BY <1>4, <2>1 DEF BodyEnds, Work
  <2>3. \A t \in Slot : (HasLock(t)' => HasLock(t)) /\ (Live(t)' => Live(t))
    BY <1>4, <2>2 DEF HasLock, Live, BodyEnds
  <2>4. ExecsKept
    BY <1>4 DEF ExecsKept, BodyEnds
  <2> QED BY <1>4, <2>2, <2>3, <2>4, LocksKept DEF BodyEnds
<1>5. CASE Ack(s)
  <2>1. \A t \in Slot : run'[t] = IF t = s THEN Idle ELSE run[t]
    BY <1>5, Shapes DEF Ack, TInv
  <2>2. \A t \in Slot : (HasLock(t)' => HasLock(t) /\ run'[t].msg = run[t].msg)
                        /\ (Live(t)' => Live(t))
    BY <2>1 DEF HasLock, Live, Idle
  <2> QED BY <1>5, <2>2, AckKeepsExecs, LocksKept DEF Ack
<1> QED
  BY <1>2, <1>3, <1>4, <1>5, TakeLockKeeps, DeregisterKeeps, CleanUpKeeps DEF SlotStep

LEMMA StepKeepsLocks == TInv /\ LInv /\ [Next]_vars => LInv'
<1> SUFFICES ASSUME TInv, LInv, [Next]_vars PROVE LInv'
  OBVIOUS
<1>1. ASSUME ExecsKept, UNCHANGED worker PROVE LInv'
  BY <1>1, LocksKept DEF worker, HasLock, Live
<1>2. CASE NetStep \/ AskCancel
  <2>1. Submit \/ UNCHANGED <<layout, msgs>>
    BY <1>2 DEF NetStep, AskCancel, SubmitRefused, RecoverEffectError, Track, AttemptFails,
                Retry, Exhausted, Cancel, Cancelled, Correlate
  <2>2. ExecsKept
    BY <2>1, SubmitKeepsExecs DEF ExecsKept
  <2>3. UNCHANGED worker
    BY <1>2 DEF NetStep, AskCancel, Submit, SubmitRefused, RecoverEffectError, Track,
                AttemptFails, Retry, Exhausted, Cancel, Cancelled, Correlate
  <2> QED BY <1>1, <2>2, <2>3
<1>3. ASSUME NEW s \in Slot, SlotStep(s) PROVE LInv'
  BY <1>3, SlotStepKeepsLocks
<1>4. ASSUME NEW s \in Slot, NEW i \in DOMAIN msgs, Receive(s, i) PROVE LInv'
  <2>1. /\ \A t \in Slot : t # s => run'[t] = run[t]
        /\ run'[s].pc = "accept"
    BY <1>4, Shapes DEF Receive, TInv, Idle
  <2>2. \A t \in Slot : (HasLock(t)' => HasLock(t) /\ run'[t].msg = run[t].msg)
                        /\ (Live(t)' => Live(t))
    BY <2>1 DEF HasLock, Live
  <2> QED BY <1>4, <2>2, ReceiveKeepsExecs, LocksKept DEF Receive
<1>5. ASSUME NEW i \in DOMAIN msgs, AckWaitEnds(i) PROVE LInv'
  BY <1>1, <1>5, AckWaitKeepsExecs DEF AckWaitEnds
<1>6. ASSUME NEW c \in cancels, Listen(c[1], c[2]) PROVE LInv'
  <2>1. ExecsKept
    BY <1>6 DEF Listen, ExecsKept
  <2> QED BY <1>6, <2>1, LocksKept DEF Listen, HasLock, Live
<1>7. ASSUME NEW s \in Slot, Die(layout.proc[s]) PROVE LInv'
  BY <1>7, DieKeeps, Shapes DEF TInv
<1>8. CASE UNCHANGED vars
  BY <1>1, <1>8 DEF vars, ExecsKept
<1> QED BY <1>2, <1>3, <1>4, <1>5, <1>6, <1>7, <1>8 DEF Next

LEMMA InitLocks == Init => LInv
BY DEF Init, LInv, LocksHeld, OneRunPerHost, LiveRunRegistered, HasLock, Idle

(***************************************************************************)
(* No two runs of an execution use one run directory at a time, whatever   *)
(* is redelivered, dispatched again or crashes.                            *)
(***************************************************************************)
THEOREM RunDirNeverShared == Spec => []OneRunPerHost
<1>1. LInv => OneRunPerHost
  BY DEF LInv
<1> QED BY <1>1, InitTyped, StepTyped, InitLocks, StepKeepsLocks, PTL DEF Spec

(***************************************************************************)
(* From its lock to its last status a run is in its process's registry, so *)
(* a cancel reaches it and no duplicate delivery takes its entry.          *)
(***************************************************************************)
THEOREM LiveRunAlwaysRegistered == Spec => []LiveRunRegistered
<1>1. LInv => LiveRunRegistered
  BY DEF LInv
<1> QED BY <1>1, InitTyped, StepTyped, InitLocks, StepKeepsLocks, PTL DEF Spec

-----------------------------------------------------------------------------
(***************************************************************************)
(* One body at a time while nothing is repeated.                           *)
(***************************************************************************)
Clean == faults \cap Repeats = {}

\* The executions of which an end was published.
Ends == {u[1] : u \in {v \in seen : v[2] \in Terminal}}

Attempt == net.at \in {"submitted", "accepted", "running", "cancelling"}

\* The net works on the execution whose end it has not heard of, or on none.
OneAttempt ==
    /\ net.at \in {"inbox", "effect_errors", "dead_letter"} => net.exec = 0
    /\ net.at \in {"failure", "completed", "cancelled", "error"} => net.exec \in Ends
    /\ \A i \in DOMAIN msgs : msgs[i].exec \in Ends \/ (Attempt /\ msgs[i].exec = net.exec)

\* The slot has not reported the end of its run.
Unreported(s) == run[s].pc \in {"accept", "lock", "stage", "body", "running", "report"}

\* Every execution is one message, and every message is with one slot, once.
OneDelivery ==
    /\ \A i, j \in DOMAIN msgs : msgs[i].exec = msgs[j].exec => i = j
    /\ \A i \in DOMAIN msgs : msgs[i].state = "flight" => \E s \in Slot : run[s].msg = i
    /\ \A s \in Slot : run[s].pc # "idle" => msgs[run[s].msg].state = "flight"
    /\ \A s, t \in Slot : run[s].pc # "idle" /\ run[s].msg = run[t].msg => s = t

\* The end of an execution is reported after its one run.
ReportedLast ==
    /\ \A i \in DOMAIN msgs : msgs[i].state = "ready" => msgs[i].exec \notin Ends
    /\ \A s \in Slot : Unreported(s) => ExecOf(s) \notin Ends

CInv == Clean => OneAttempt /\ OneDelivery /\ ReportedLast

LEMMA EndsKept == seen' = seen => Ends' = Ends
BY DEF Ends

LEMMA EndsGrow ==
  ASSUME NEW x, NEW st, seen' = seen \cup {<<x, st>>}
  PROVE  /\ Ends \subseteq Ends' /\ Ends' \subseteq Ends \cup {x}
         /\ st \notin Terminal => Ends' = Ends
BY DEF Ends

LEMMA OneBodyHolds == TInv /\ CInv => OneBody
<1> SUFFICES ASSUME TInv, CInv, Clean
             PROVE  /\ \A s, t \in Slot : InBody(s) /\ InBody(t) => s = t
                    /\ Settled \/ net.at \in {"inbox", "failure"} => \A s \in Slot : ~InBody(s)
  BY DEF OneBody, Clean
<1>1. OneAttempt /\ OneDelivery /\ ReportedLast
  BY DEF CInv
<1>2. \A s \in Slot : InBody(s) => /\ run[s].pc # "idle" /\ run[s].msg \in DOMAIN msgs
                                   /\ Attempt /\ ExecOf(s) = net.exec
  <2> SUFFICES ASSUME NEW s \in Slot, InBody(s)
               PROVE  /\ run[s].pc # "idle" /\ run[s].msg \in DOMAIN msgs
                      /\ Attempt /\ ExecOf(s) = net.exec
    OBVIOUS
  <2>1. run[s].pc # "idle" /\ run[s].msg \in DOMAIN msgs /\ ExecOf(s) \notin Ends
    BY <1>1, Working DEF InBody, ReportedLast, Unreported
  <2> QED BY <1>1, <2>1 DEF OneAttempt, ExecOf
<1>3. \A s, t \in Slot : InBody(s) /\ InBody(t) => s = t
  BY <1>1, <1>2 DEF OneDelivery, ExecOf
<1>4. Settled \/ net.at \in {"inbox", "failure"} => ~Attempt
  BY DEF Settled, Attempt
<1> QED BY <1>2, <1>3, <1>4

\* Faults are never forgotten.
LEMMA CleanBefore == TInv /\ [Next]_vars /\ Clean' => Clean
<1>1. [Next]_vars => faults \subseteq faults'
  BY DEF Next, vars, NetStep, SlotStep, AskCancel, Submit, SubmitRefused, RecoverEffectError,
         Track, AttemptFails, Retry, Exhausted, Cancel, Cancelled, Correlate, Faulty, Receive,
         AckWaitEnds, Listen, Die, Accept, Unsupported, TakeLock, SkipDuplicate, NoRunDir,
         Stage, Running, BodyEnds, ReportTerminal, Deregister, CleanUp, Ack, Report
<1> QED BY <1>1 DEF Clean

\* A step of the net that publishes nothing.
LEMMA NetMovesClean ==
  ASSUME TInv, CInv, Clean, UNCHANGED <<msgs, run, seen>>, OneAttempt'
  PROVE  CInv'
<1>1. OneDelivery /\ ReportedLast
  BY DEF CInv
<1>2. OneDelivery'
  BY <1>1 DEF OneDelivery
<1>3. ReportedLast'
  BY <1>1, EndsKept DEF ReportedLast, Unreported, ExecOf
<1> QED BY <1>2, <1>3 DEF CInv

LEMMA CorrelateClean ==
  ASSUME TInv, CInv, Clean, NEW from \in {"submitted", "accepted", "running", "cancelling"}, NEW st,
         NEW to, Correlate(from, st, to),
         \/ to \in {"accepted", "running"}
         \/ to \in {"completed", "failure", "cancelled"} /\ st \in Terminal
  PROVE  CInv'
<1>1. net' = [net EXCEPT !.at = to] /\ net.at = from /\ seen' = seen /\ msgs' = msgs /\ run' = run
      /\ <<net.exec, st>> \in seen
  BY WorkerTypes DEF Correlate, worker
<1>2. net'.at = to /\ net'.exec = net.exec
  BY <1>1, Shapes DEF TInv, NetType
<1>3. OneAttempt
  BY DEF CInv
<1>4. OneAttempt'
  <2>1. st \in Terminal => net.exec \in Ends
    BY <1>1 DEF Ends
  <2> QED BY <1>1, <1>2, <1>3, <2>1, EndsKept DEF OneAttempt, Attempt
<1> QED BY <1>1, <1>4, NetMovesClean

LEMMA SubmitClean ==
  ASSUME TInv, CInv, Clean, Clean', Submit
  PROVE  CInv'
<1> DEFINE e == execs + 1
           n == Len(msgs) + 1
<1>1. net.at = "inbox" /\ net.exec = 0 /\ OneAttempt /\ OneDelivery /\ ReportedLast
  BY DEF Submit, CInv, OneAttempt
<1>2. "submit unacked" \notin faults'
  BY DEF Clean, Repeats
<1>3. /\ UNCHANGED <<seen, run>>
      /\ \/ Enqueue(e) /\ net' = [net EXCEPT !.at = "submitted", !.exec = e]
         \/ msgs' = msgs /\ net' = [net EXCEPT !.at = "effect_errors"]
  BY <1>1, <1>2 DEF Submit, Faulty, bus, worker
<1>4. Ends' = Ends /\ \A i \in DOMAIN msgs : msgs[i].exec \in Ends
  BY <1>1, <1>3, EndsKept DEF OneAttempt, Attempt
<1>5. CASE msgs' = msgs /\ net' = [net EXCEPT !.at = "effect_errors"]
  <2>1. net'.at = "effect_errors" /\ net'.exec = 0
    BY <1>1, <1>5, Shapes DEF TInv, NetType
  <2>2. OneAttempt'
    BY <1>3, <1>4, <1>5, <2>1 DEF OneAttempt
  <2> QED BY <1>3, <1>5, <2>2, NetMovesClean
<1>6. CASE Enqueue(e) /\ net' = [net EXCEPT !.at = "submitted", !.exec = e]
  <2>1. net'.at = "submitted" /\ net'.exec = e
    BY <1>6, Shapes DEF TInv, NetType
  <2>2. e \in Exec
    <3>1. execs \in Nat /\ net.retries \in 0..layout.retries /\ layout.retries \in Nat
      BY Shapes DEF TInv, NetType
    <3>2. execs <= net.retries /\ Exec = 1..(1 + layout.retries)
      BY <1>1, Shapes DEF TInv, IdsBounded
    <3> QED BY <3>1, <3>2
  <2>3. /\ DOMAIN msgs' = DOMAIN msgs \cup {n} /\ n \notin DOMAIN msgs
        /\ \A j \in DOMAIN msgs : msgs'[j] = msgs[j]
        /\ msgs'[n].exec = e /\ msgs'[n].state = "ready"
    <3>1. /\ DOMAIN msgs' = DOMAIN msgs \cup {n}
          /\ \A j \in DOMAIN msgs : msgs'[j] = msgs[j]
          /\ msgs'[n] = [exec |-> e, state |-> "ready", delivered |-> 0]
      BY <1>6, <2>2, Enqueued, WorkerTypes
    <3>2. n \notin DOMAIN msgs
      BY WorkerTypes
    <3> QED BY <3>1, <3>2
  <2>4. /\ \A i \in DOMAIN msgs : msgs[i].exec # e
        /\ e \notin Ends
    <3>1. \A i \in DOMAIN msgs : msgs[i].exec <= execs /\ msgs[i].exec \in Nat
      BY Shapes DEF TInv, IdsBounded
    <3>2. \A u \in seen : u[1] <= execs /\ u[1] \in Nat
      BY WorkerTypes DEF Update, Exec
    <3>3. execs \in Nat
      BY Shapes DEF TInv
    <3>4. ~(e <= execs)
      BY <3>3
    <3> HIDE DEF e
    <3> QED BY <3>1, <3>2, <3>4 DEF Ends
  <2>5. \A s \in Slot : run[s].pc # "idle" => run[s].msg \in DOMAIN msgs
    BY Working
  <2> HIDE DEF e, n
  <2>6. OneAttempt'
    BY <1>3, <1>4, <2>1, <2>3 DEF OneAttempt, Attempt
  <2>7. OneDelivery'
    BY <1>1, <1>3, <2>3, <2>4, <2>5 DEF OneDelivery
  <2>8. ReportedLast'
    BY <1>1, <1>3, <1>4, <2>3, <2>4, <2>5 DEF ReportedLast, Unreported, ExecOf
  <2> QED BY <2>6, <2>7, <2>8 DEF CInv
<1> QED BY <1>3, <1>5, <1>6

LEMMA NetStepClean ==
  ASSUME TInv, CInv, Clean, Clean', NetStep \/ AskCancel
  PROVE  CInv'
<1>1. OneAttempt /\ net \in NetType
  BY Shapes DEF TInv, CInv
<1>2. ASSUME UNCHANGED <<msgs, run, seen>>,
             net' = net \/ (net'.at \in {"inbox", "dead_letter"} /\ net'.exec = 0)
                 \/ (net.at = "failure" /\ net'.at = "error" /\ net'.exec = net.exec)
                 \/ (net.at = "running" /\ net'.at = "cancelling" /\ net'.exec = net.exec),
             net' # net => net.at \in {"inbox", "effect_errors", "failure", "running"},
             net.at = "running" => net'.at \in {"running", "cancelling"}
      PROVE  CInv'
  <2>1. OneAttempt'
    BY <1>1, <1>2, EndsKept DEF OneAttempt, Attempt
  <2> QED BY <1>2, <2>1, NetMovesClean
<1>3. CASE SubmitRefused
  <2>1. net'.at = "dead_letter" /\ net'.exec = 0 /\ net.at = "inbox"
    BY <1>1, <1>3 DEF SubmitRefused, OneAttempt, NetType
  <2> QED BY <1>2, <1>3, <2>1 DEF SubmitRefused, bus, worker
<1>4. CASE RecoverEffectError
  <2>1. net'.at \in {"inbox", "dead_letter"} /\ net'.exec = 0 /\ net.at = "effect_errors"
    BY <1>1, <1>4 DEF RecoverEffectError, OneAttempt, NetType
  <2> QED BY <1>2, <1>4, <2>1 DEF RecoverEffectError, bus, worker
<1>5. CASE Track
  BY <1>5, CorrelateClean DEF Track, Terminal
<1>6. CASE AttemptFails
  BY <1>6, CorrelateClean DEF AttemptFails, Terminal
<1>7. CASE Cancelled
  BY <1>7, CorrelateClean DEF Cancelled, Terminal
<1>8. CASE Retry
  <2>1. net'.at = "inbox" /\ net'.exec = 0 /\ net.at = "failure"
    BY <1>8 DEF Retry
  <2> QED BY <1>2, <1>8, <2>1 DEF Retry, bus, worker
<1>9. CASE Exhausted
  <2>1. net'.at = "error" /\ net'.exec = net.exec /\ net.at = "failure"
    BY <1>1, <1>9 DEF Exhausted, NetType
  <2> QED BY <1>2, <1>9, <2>1 DEF Exhausted, bus, worker
<1>10. CASE AskCancel
  BY <1>2, <1>10 DEF AskCancel, bus, worker
<1>11. CASE Cancel
  <2>1. net' = [net EXCEPT !.at = "cancelling"] /\ net.at = "running"
    BY <1>11 DEF Cancel, Faulty, Clean, Repeats
  <2>2. net'.at = "cancelling" /\ net'.exec = net.exec
    BY <1>1, <2>1 DEF NetType
  <2> QED BY <1>2, <1>11, <2>1, <2>2 DEF Cancel, bus, worker
<1> QED BY <1>3, <1>4, <1>5, <1>6, <1>7, <1>8, <1>9, <1>10, <1>11, SubmitClean DEF NetStep

\* A slot moves on and publishes nothing, or no end, or the end and is done.
LEMMA SlotMovesClean ==
  ASSUME TInv, CInv, Clean, NEW s \in Slot, run[s].pc # "idle", UNCHANGED <<net, msgs>>,
         \A t \in Slot : t # s => run'[t] = run[t],
         run'[s].msg = run[s].msg, run'[s].pc # "idle",
         \/ seen' = seen /\ (Unreported(s)' => Unreported(s))
         \/ \E st \in Status : /\ seen' = seen \cup {<<ExecOf(s), st>>}
                               /\ st \notin Terminal /\ (Unreported(s)' => Unreported(s))
         \/ \E st \in Status : seen' = seen \cup {<<ExecOf(s), st>>} /\ ~Unreported(s)'
  PROVE  CInv'
<1>1. OneAttempt /\ OneDelivery /\ ReportedLast
  BY DEF CInv
<1>2. Ends \subseteq Ends'
  BY EndsKept, EndsGrow
<1>3. OneAttempt'
  BY <1>1, <1>2 DEF OneAttempt, Attempt
<1>4. \A t \in Slot : run'[t].msg = run[t].msg /\ (run'[t].pc # "idle" <=> run[t].pc # "idle")
  OBVIOUS
<1>5. OneDelivery'
  BY <1>1, <1>4 DEF OneDelivery
<1>6. \A t \in Slot : run[t].pc # "idle" => ExecOf(t)' = ExecOf(t) /\ run[t].msg \in DOMAIN msgs
  BY <1>4, Working DEF ExecOf
<1>7. \A t \in Slot : t # s => (Unreported(t)' <=> Unreported(t))
  BY DEF Unreported
<1>8. \A t \in Slot : Unreported(t) => run[t].pc # "idle"
  BY DEF Unreported
<1>9. CASE Ends' = Ends /\ (Unreported(s)' => Unreported(s))
  <2>1. \A t \in Slot : Unreported(t)' => Unreported(t)
    BY <1>7, <1>9
  <2>2. ReportedLast'
    BY <1>1, <1>6, <1>8, <1>9, <2>1 DEF ReportedLast
  <2> QED BY <1>3, <1>5, <2>2 DEF CInv
<1>10. CASE ~Unreported(s)' /\ Ends' \subseteq Ends \cup {ExecOf(s)}
  <2>1. \A t \in Slot : Unreported(t)' => t # s /\ Unreported(t)
    BY <1>7, <1>10
  <2>2. \A t \in Slot : t # s /\ run[t].pc # "idle" => ExecOf(t) # ExecOf(s)
    BY <1>1, <1>6 DEF OneDelivery, ExecOf
  <2>3. \A i \in DOMAIN msgs : msgs[i].state = "ready" => msgs[i].exec # ExecOf(s)
    BY <1>1, <1>6 DEF OneDelivery, ExecOf
  <2>4. ReportedLast'
    BY <1>1, <1>6, <1>8, <1>10, <2>1, <2>2, <2>3 DEF ReportedLast
  <2> QED BY <1>3, <1>5, <2>4 DEF CInv
<1> QED BY <1>9, <1>10, EndsKept, EndsGrow

LEMMA SlotStepClean ==
  ASSUME TInv, CInv, Clean, Clean', NEW s \in Slot, SlotStep(s)
  PROVE  CInv'
<1>1. ASSUME NEW pc, run' = [run EXCEPT ![s].pc = pc], pc # "idle", run[s].pc # "idle",
             UNCHANGED <<netVars, msgs>>,
             \/ UNCHANGED bus /\ (Unreported(s)' => Unreported(s))
             \/ \E st \in Status : /\ Report(s, st)
                                   /\ st \notin Terminal /\ (Unreported(s)' => Unreported(s))
             \/ \E st \in Status : Report(s, st) /\ ~Unreported(s)'
      PROVE  CInv'
  <2>1. run'[s].msg = run[s].msg /\ run'[s].pc = pc /\ \A t \in Slot : t # s => run'[t] = run[t]
    BY <1>1, OnePcMoves
  <2>2. \A st \in Status : Report(s, st) =>
            seen' = seen \/ seen' = seen \cup {<<ExecOf(s), st>>}
    BY DEF Report, Signal, bus
  <2>3. \/ seen' = seen /\ (Unreported(s)' => Unreported(s))
        \/ \E st \in Status : /\ seen' = seen \cup {<<ExecOf(s), st>>}
                              /\ st \notin Terminal /\ (Unreported(s)' => Unreported(s))
        \/ \E st \in Status : seen' = seen \cup {<<ExecOf(s), st>>} /\ ~Unreported(s)'
    BY <1>1, <2>2 DEF bus
  <2> QED BY <1>1, <2>1, <2>3, SlotMovesClean DEF netVars
<1>12. \A st \in Terminal \cup {"accepted", "running"} : st \in Status
  BY DEF Status, Terminal
<1>2. CASE Accept(s)
  <2>1. Report(s, "accepted") /\ Unreported(s) /\ "accepted" \notin Terminal
    BY <1>2 DEF Accept, Unreported, Terminal
  <2> QED BY <1>1, <1>2, <1>12, <2>1 DEF Accept
<1>3. CASE Unsupported(s)
  <2>1. ~Unreported(s)' /\ Report(s, "failed")
    <3>1. run'[s].pc = "ack"
      BY <1>3, OnePcMoves DEF Unsupported
    <3> QED BY <1>3, <3>1 DEF Unsupported, Unreported
  <2> QED BY <1>1, <1>3, <1>12, <2>1 DEF Unsupported, Terminal
<1>4. CASE TakeLock(s) \/ SkipDuplicate(s) \/ NoRunDir(s)
  BY <1>1, <1>4 DEF TakeLock, SkipDuplicate, NoRunDir, Unreported
<1>5. CASE Stage(s)
  <2>1. CASE run' = [run EXCEPT ![s].pc = "body"] /\ UNCHANGED <<bus, faults>>
    BY <1>1, <1>5, <2>1 DEF Stage, Unreported
  <2>2. CASE run' = [run EXCEPT ![s].pc = "unstage"] /\ Report(s, "failed")
    <3>1. ~Unreported(s)'
      <4>1. run'[s].pc = "unstage"
        BY <2>2, OnePcMoves
      <4> QED BY <4>1 DEF Unreported
    <3> QED BY <1>1, <1>5, <1>12, <2>2, <3>1 DEF Stage, Terminal
  <2> QED BY <1>5, <2>1, <2>2 DEF Stage
<1>6. CASE Running(s)
  <2>1. Report(s, "running") /\ Unreported(s) /\ "running" \notin Terminal
    BY <1>6 DEF Running, Unreported, Terminal
  <2> QED BY <1>1, <1>6, <1>12, <2>1 DEF Running
<1>7. ASSUME NEW o \in Status, BodyEnds(s, o) PROVE CInv'
  <2>1. run \in [Slot -> Work(Len(msgs))]
    BY Shapes DEF TInv
  <2>2. /\ run'[s].pc = "report" /\ \A t \in Slot : t # s => run'[t] = run[t]
        /\ run'[s].msg = run[s].msg /\ run[s].pc \in {"body", "running"}
    BY <1>7, <2>1 DEF BodyEnds, Work
  <2>3. UNCHANGED <<net, msgs, seen>> /\ Unreported(s)
    BY <1>7, <2>2 DEF BodyEnds, netVars, bus, Unreported
  <2> QED BY <2>2, <2>3, SlotMovesClean
<1>8. CASE ReportTerminal(s)
  <2>1. run[s].outcome \in Status
    BY <1>8, <1>12 DEF ReportTerminal, TInv, Busy, Equipped
  <2>2. ~Unreported(s)' /\ Report(s, run[s].outcome)
    <3>1. run'[s].pc = "deregister"
      BY <1>8, OnePcMoves DEF ReportTerminal
    <3> QED BY <1>8, <3>1 DEF ReportTerminal, Unreported
  <2> QED BY <1>1, <1>8, <2>1, <2>2 DEF ReportTerminal
<1>9. CASE Deregister(s)
  <2>1. run' = [run EXCEPT ![s].pc = IF run[s].pc = "unstage" THEN "ack" ELSE "cleanup"]
    BY <1>9 DEF Deregister
  <2>2. ~Unreported(s)'
    <3>1. run'[s].pc \in {"ack", "cleanup"}
      BY <2>1, OnePcMoves
    <3> QED BY <3>1 DEF Unreported
  <2> QED BY <1>1, <1>9, <2>1, <2>2 DEF Deregister
<1>10. CASE CleanUp(s)
  <2>1. ~Unreported(s)'
    <3>1. run'[s].pc = "ack"
      BY <1>10, OnePcMoves DEF CleanUp
    <3> QED BY <3>1 DEF Unreported
  <2> QED BY <1>1, <1>10, <2>1 DEF CleanUp
<1>11. CASE Ack(s)
  <2> DEFINE i == run[s].msg
             m == [msgs[i] EXCEPT !.state = "acked"]
  <2>1. run[s].pc # "idle" /\ i \in DOMAIN msgs
    BY <1>11, Working DEF Ack
  <2>2. m \in Message /\ m.exec = msgs[i].exec /\ m.state = "acked"
    BY <2>1, Shapes DEF TInv, Message
  <2>3. msgs' = [msgs EXCEPT ![i] = m]
    BY <1>11 DEF Ack, Faulty, Clean, Repeats
  <2> HIDE DEF m
  <2>4. /\ DOMAIN msgs' = DOMAIN msgs /\ msgs'[i].state = "acked"
        /\ \A j \in DOMAIN msgs : msgs'[j].exec = msgs[j].exec
        /\ \A j \in DOMAIN msgs : j # i => msgs'[j] = msgs[j]
    BY <2>1, <2>2, <2>3, MessageChanged, WorkerTypes
  <2>5. /\ run'[s].pc = "idle" /\ run'[s].msg = 0 /\ \A t \in Slot : t # s => run'[t] = run[t]
        /\ UNCHANGED <<net, seen>>
    BY <1>11, Shapes DEF Ack, TInv, Idle, netVars, bus
  <2>6. OneAttempt /\ OneDelivery /\ ReportedLast
    BY DEF CInv
  <2>7. \A t \in Slot : run[t].pc # "idle" => run[t].msg \in DOMAIN msgs
    BY Working
  <2>8. \A t \in Slot : t # s => run[t].msg # i
    BY <2>1, <2>6 DEF OneDelivery
  <2>9. 0 \notin DOMAIN msgs /\ \A t \in Slot : run[t].pc = "idle" => run[t].msg = 0
    BY WorkerTypes DEF TInv, Busy, Equipped
  <2> HIDE DEF i
  <2>10. OneAttempt'
    BY <2>4, <2>5, <2>6, EndsKept DEF OneAttempt, Attempt
  <2>11. OneDelivery'
    <3>1. \A j, k \in DOMAIN msgs' : msgs'[j].exec = msgs'[k].exec => j = k
      BY <2>4, <2>6 DEF OneDelivery
    <3>2. \A j \in DOMAIN msgs' : msgs'[j].state = "flight" => \E t \in Slot : run'[t].msg = j
      <4> SUFFICES ASSUME NEW j \in DOMAIN msgs, msgs'[j].state = "flight"
                   PROVE  \E t \in Slot : run'[t].msg = j
        BY <2>4
      <4>1. j # i /\ msgs[j].state = "flight"
        BY <2>4
      <4>2. PICK t \in Slot : run[t].msg = j
        BY <2>6, <4>1 DEF OneDelivery
      <4>3. t # s
        BY <4>1, <4>2 DEF i
      <4> QED BY <2>5, <4>2, <4>3
    <3>3. \A t \in Slot : run'[t].pc # "idle" => msgs'[run'[t].msg].state = "flight"
      BY <2>4, <2>5, <2>6, <2>7, <2>8 DEF OneDelivery
    <3>4. \A t, u \in Slot : run'[t].pc # "idle" /\ run'[t].msg = run'[u].msg => t = u
      BY <2>5, <2>6, <2>7, <2>9 DEF OneDelivery
    <3> QED BY <3>1, <3>2, <3>3, <3>4 DEF OneDelivery
  <2>12. ReportedLast'
    <3>1. Ends' = Ends
      BY <2>5, EndsKept
    <3>2. \A j \in DOMAIN msgs' : msgs'[j].state = "ready" => msgs'[j].exec \notin Ends'
      BY <2>4, <2>6, <3>1 DEF ReportedLast
    <3>3. \A t \in Slot : Unreported(t)' => ExecOf(t)' \notin Ends'
      BY <2>4, <2>5, <2>6, <2>7, <3>1 DEF ReportedLast, Unreported, ExecOf
    <3> QED BY <3>2, <3>3 DEF ReportedLast
  <2> QED BY <2>10, <2>11, <2>12 DEF CInv
<1> QED BY <1>2, <1>3, <1>4, <1>5, <1>6, <1>7, <1>8, <1>9, <1>10, <1>11 DEF SlotStep

LEMMA ReceiveClean ==
  ASSUME TInv, CInv, Clean, NEW s \in Slot, NEW i \in DOMAIN msgs, Receive(s, i)
  PROVE  CInv'
<1> DEFINE m == [msgs[i] EXCEPT !.state = "flight", !.delivered = msgs[i].delivered + 1]
<1>1. msgs' = [msgs EXCEPT ![i] = m] /\ msgs[i].state = "ready" /\ run[s].pc = "idle"
  BY DEF Receive
<1>2. m.exec = msgs[i].exec /\ m.state = "flight"
  BY Shapes DEF TInv, Message
<1> HIDE DEF m
<1>3. /\ DOMAIN msgs' = DOMAIN msgs /\ msgs'[i].state = "flight"
      /\ \A j \in DOMAIN msgs : msgs'[j].exec = msgs[j].exec
      /\ \A j \in DOMAIN msgs : j # i => msgs'[j] = msgs[j]
  BY <1>1, <1>2, WorkerTypes
<1>4. /\ run'[s].pc = "accept" /\ run'[s].msg = i /\ \A t \in Slot : t # s => run'[t] = run[t]
      /\ UNCHANGED <<net, seen>>
  BY Shapes DEF Receive, TInv, Idle, netVars, bus
<1>5. OneAttempt /\ OneDelivery /\ ReportedLast
  BY DEF CInv
<1>6. \A t \in Slot : run[t].pc # "idle" => run[t].msg \in DOMAIN msgs
  BY Working
<1>7. 0 \notin DOMAIN msgs /\ \A t \in Slot : run[t].pc = "idle" => run[t].msg = 0
  BY WorkerTypes DEF TInv, Busy, Equipped
<1>8. \A t \in Slot : t # s => run[t].msg # i
  BY <1>1, <1>5, <1>6, <1>7 DEF OneDelivery
<1>9. OneAttempt'
  BY <1>3, <1>4, <1>5, EndsKept DEF OneAttempt, Attempt
<1>10. OneDelivery'
  <2>1. \A j, k \in DOMAIN msgs' : msgs'[j].exec = msgs'[k].exec => j = k
    BY <1>3, <1>5 DEF OneDelivery
  <2>2. \A j \in DOMAIN msgs' : msgs'[j].state = "flight" => \E t \in Slot : run'[t].msg = j
    <3> SUFFICES ASSUME NEW j \in DOMAIN msgs, msgs'[j].state = "flight", j # i
                 PROVE  \E t \in Slot : run'[t].msg = j
      BY <1>3, <1>4
    <3>1. PICK t \in Slot : run[t].msg = j
      BY <1>3, <1>5 DEF OneDelivery
    <3>2. t # s
      BY <1>1, <1>7, <3>1
    <3> QED BY <1>4, <3>1, <3>2
  <2>3. \A t \in Slot : run'[t].pc # "idle" => msgs'[run'[t].msg].state = "flight"
    BY <1>3, <1>4, <1>5, <1>6, <1>8 DEF OneDelivery
  <2>4. \A t, u \in Slot : run'[t].pc # "idle" /\ run'[t].msg = run'[u].msg => t = u
    BY <1>4, <1>5, <1>8 DEF OneDelivery
  <2> QED BY <2>1, <2>2, <2>3, <2>4 DEF OneDelivery
<1>11. ReportedLast'
  <2>1. Ends' = Ends /\ msgs[i].exec \notin Ends
    BY <1>1, <1>4, <1>5, EndsKept DEF ReportedLast
  <2>2. \A j \in DOMAIN msgs' : msgs'[j].state = "ready" => msgs'[j].exec \notin Ends'
    BY <1>3, <1>5, <2>1 DEF ReportedLast
  <2>3. \A t \in Slot : Unreported(t)' => ExecOf(t)' \notin Ends'
    BY <1>3, <1>4, <1>5, <1>6, <2>1 DEF ReportedLast, Unreported, ExecOf
  <2> QED BY <2>2, <2>3 DEF ReportedLast
<1> QED BY <1>9, <1>10, <1>11 DEF CInv

LEMMA StepClean == TInv /\ CInv /\ [Next]_vars => CInv'
<1> SUFFICES ASSUME TInv, CInv, [Next]_vars, Clean' PROVE CInv'
  BY DEF CInv
<1>0. Clean
  BY CleanBefore
<1>1. CASE NetStep \/ AskCancel
  BY <1>0, <1>1, NetStepClean
<1>2. ASSUME NEW s \in Slot, SlotStep(s) PROVE CInv'
  BY <1>0, <1>2, SlotStepClean
<1>3. ASSUME NEW s \in Slot, NEW i \in DOMAIN msgs, Receive(s, i) PROVE CInv'
  BY <1>0, <1>3, ReceiveClean
<1>4. ASSUME NEW i \in DOMAIN msgs, AckWaitEnds(i) PROVE CInv'
  <2>1. \E s \in Slot : run[s].msg = i
    BY <1>0, <1>4 DEF AckWaitEnds, CInv, OneDelivery
  <2>2. "stall" \in faults'
    BY <1>4, <2>1 DEF AckWaitEnds, Faulty
  <2> QED BY <2>2 DEF Clean, Repeats
<1>5. ASSUME NEW c \in cancels, Listen(c[1], c[2]) PROVE CInv'
  <2>1. OneAttempt'
    BY <1>0, <1>5 DEF Listen, CInv, OneAttempt, Attempt, Ends, netVars, bus
  <2> QED BY <1>0, <1>5, <2>1, NetMovesClean DEF Listen, bus
<1>6. ASSUME NEW s \in Slot, Die(layout.proc[s]) PROVE CInv'
  BY <1>6 DEF Die, Faulty, Clean, Repeats
<1>7. CASE UNCHANGED vars
  <2>1. OneAttempt'
    BY <1>0, <1>7 DEF vars, CInv, OneAttempt, Attempt, Ends, netVars, bus
  <2> QED BY <1>0, <1>7, <2>1, NetMovesClean DEF vars, bus, worker
<1> QED BY <1>1, <1>2, <1>3, <1>4, <1>5, <1>6, <1>7 DEF Next

LEMMA InitClean == Init => CInv
<1>1. DOMAIN << >> = {}
  OBVIOUS
<1> QED BY <1>1 DEF Init, CInv, OneAttempt, OneDelivery, ReportedLast, Unreported, Idle

(***************************************************************************)
(* As long as nothing is delivered or dispatched twice, the step runs one  *)
(* body at a time, and none once its net has gone on: whatever statuses    *)
(* are lost and whichever disk fails.                                      *)
(***************************************************************************)
THEOREM OneBodyAtATime == Spec => []OneBody
<1> QED BY OneBodyHolds, InitTyped, StepTyped, InitClean, StepClean, PTL DEF Spec
=============================================================================
