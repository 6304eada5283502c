--------------------------- MODULE LifecycleProofs ---------------------------
(***************************************************************************)
(* Proofs about NetLifecycle, for every set of messages and instances and  *)
(* every load: its types, that no instance is left behind, and that a      *)
(* token is fired once while no two instances overlap.                     *)
(***************************************************************************)
EXTENDS NetLifecycle, FiniteSetTheorems, TLAPS

InstRec ==
    [status : {"none", "building", "live", "cancelled"}, applied : Nat,
     loop : {"rest", "fire", "wait", "ended"},
     about : Message \cup {None}, at : Nat, kick : BOOLEAN]

TaskRec == [at : {"idle", "insert", "inject", "wait"}, inst : Instance \cup {None}, pos : Nat]

ClosingRec ==
    [at : {"off", "armed", "remove", "wait", "snapshot", "cancel"}, inst : Instance \cup {None}]

\* A loop that fires knows what it fires.
Aimed == \A i \in Instance : inst[i].loop = "fire" => inst[i].about \in Message

\* A listener that is past the metadata gate holds an instance.
Holding == \A m \in Message : task[m].at # "idle" => task[m].inst \in Instance

\* A closer holds an instance exactly while it closes one.
Grasping ==
    \A c \in Closer :
        closing[c].inst \in Instance <=> closing[c].at \in {"wait", "snapshot", "cancel"}

\* An instance has applied a prefix of the log.
Within == \A i \in Instance : inst[i].applied <= Len(log)

\* TypeOK, its records by name.
Types ==
    /\ log \in Seq(LogEvent)
    /\ meta \in {"Running", "Failed", "Cancelled"}
    /\ snapshot \in Nat \cup {None}
    /\ nets \in Instance \cup {None}
    /\ inst \in [Instance -> InstRec]
    /\ task \in [Message -> TaskRec]
    /\ closing \in [Closer -> ClosingRec]
    /\ queue \subseteq Message /\ dlq \subseteq Message
    /\ touched \in BOOLEAN /\ crashed \in BOOLEAN /\ overlap \in BOOLEAN
    /\ closings \in Nat /\ faults \in Nat
    /\ abandoned \subseteq Instance

TInv == Types /\ Aimed /\ Holding /\ Grasping /\ Within

-----------------------------------------------------------------------------
(***************************************************************************)
(* The log.                                                                *)
(***************************************************************************)
\* What appending an event does to the log.
LEMMA Appended ==
    ASSUME log \in Seq(LogEvent), NEW e \in LogEvent, log' = Append(log, e)
    PROVE  /\ log' \in Seq(LogEvent)
           /\ Len(log) \in Nat /\ Len(log') = Len(log) + 1
           /\ DOMAIN log = 1..Len(log) /\ DOMAIN log' = 1..(Len(log) + 1)
           /\ log'[Len(log) + 1] = e
           /\ \A k \in 1..Len(log) : log'[k] = log[k]
OBVIOUS

\* An event about a message that is not a cancellation.
LEMMA EventOf ==
    ASSUME NEW m \in Message, NEW kind \in {"Created", "Fired", "Failed"}
    PROVE  [kind |-> kind, about |-> m] \in LogEvent
BY DEF LogEvent

LEMMA CancelEvent == [kind |-> "Cancelled", about |-> None] \in LogEvent
BY DEF LogEvent

\* An enabled token is the token of a message.
LEMMA EnabledTokens ==
    ASSUME TInv, NEW i \in Instance, NEW m \in Enabled(i)
    PROVE  /\ m \in Message
           /\ \A k \in 1..inst[i].applied :
                 log[k].kind \in {"Fired", "Failed"} => log[k].about # m
<1>1. log \in Seq(LogEvent) /\ Len(log) \in Nat /\ inst[i].applied \in Nat
    BY DEF TInv, Types, InstRec
<1>2. inst[i].applied <= Len(log)
    BY DEF TInv, Within
<1> DEFINE s == Prefix(i)
<1>3. /\ Len(s) = inst[i].applied /\ DOMAIN s = 1..inst[i].applied
      /\ \A k \in 1..inst[i].applied : s[k] = log[k]
    BY <1>1, <1>2 DEF Prefix
<1>4. m \in Had(s, {"Created"}) /\ m \notin Had(s, {"Fired", "Failed"})
    BY DEF Enabled
<1> HIDE DEF s
<1>5. PICK k \in DOMAIN s : s[k].kind \in {"Created"} /\ m = s[k].about
    BY <1>4 DEF Had
<1>6. log[k] \in LogEvent /\ log[k].kind = "Created" /\ log[k].about = m
    BY <1>1, <1>2, <1>3, <1>5
<1>7. m \in Message
    BY <1>6 DEF LogEvent
<1>8. ASSUME NEW l \in 1..inst[i].applied, log[l].kind \in {"Fired", "Failed"}
      PROVE  log[l].about # m
    BY <1>3, <1>4, <1>8 DEF Had
<1> QED BY <1>7, <1>8

-----------------------------------------------------------------------------
(***************************************************************************)
(* Records.                                                                *)
(***************************************************************************)
LEMMA InstFields ==
    ASSUME TInv, NEW i \in Instance
    PROVE  /\ inst[i] \in InstRec
           /\ inst[i].status \in {"none", "building", "live", "cancelled"}
           /\ inst[i].applied \in Nat /\ inst[i].applied <= Len(log)
           /\ inst[i].loop \in {"rest", "fire", "wait", "ended"}
           /\ inst[i].about \in Message \cup {None} /\ inst[i].at \in Nat
           /\ inst[i].kick \in BOOLEAN
           /\ inst[i].loop = "fire" => inst[i].about \in Message
BY DEF TInv, Types, InstRec, Within, Aimed

LEMMA TaskFields ==
    ASSUME TInv, NEW m \in Message
    PROVE  /\ task[m] \in TaskRec
           /\ task[m].at \in {"idle", "insert", "inject", "wait"}
           /\ task[m].inst \in Instance \cup {None} /\ task[m].pos \in Nat
           /\ task[m].at # "idle" => task[m].inst \in Instance
BY DEF TInv, Types, TaskRec, Holding

LEMMA ClosingFields ==
    ASSUME TInv, NEW c \in Closer
    PROVE  /\ closing[c] \in ClosingRec
           /\ closing[c].at \in {"off", "armed", "remove", "wait", "snapshot", "cancel"}
           /\ closing[c].inst \in Instance \cup {None}
           /\ closing[c].inst \in Instance <=> closing[c].at \in {"wait", "snapshot", "cancel"}
BY DEF TInv, Types, ClosingRec, Grasping

LEMMA LogFields ==
    ASSUME TInv
    PROVE  log \in Seq(LogEvent) /\ Len(log) \in Nat /\ DOMAIN log = 1..Len(log)
BY DEF TInv, Types

LEMMA Constants ==
    /\ Dead \in InstRec /\ Dead.status = "none" /\ Dead.loop = "ended" /\ Dead.applied = 0
    /\ NoTask \in TaskRec /\ NoTask.at = "idle" /\ NoTask.inst = None
    /\ NotClosing \in ClosingRec /\ NotClosing.at = "off" /\ NotClosing.inst = None
    /\ Armed \in ClosingRec /\ Armed.at = "armed" /\ Armed.inst = None
    /\ None \notin Instance
    /\ Timer \in Closer /\ Http \in Closer /\ Timer # Http /\ Closer = {Timer, Http}
BY NoneAssumption, ActorAssumption DEF Dead, InstRec, NoTask, TaskRec, NotClosing, Armed, ClosingRec, Closer

\* A step that changes one instance leaves its types right.
LEMMA InstChanges ==
    ASSUME TInv, NEW i \in Instance, NEW r \in InstRec, inst' = [inst EXCEPT ![i] = r],
           r.loop = "fire" => r.about \in Message,
           r.applied <= Len(log), Len(log)' \in Nat, Len(log) <= Len(log)'
    PROVE  /\ inst' \in [Instance -> InstRec]
           /\ inst'[i] = r
           /\ \A j \in Instance \ {i} : inst'[j] = inst[j]
           /\ Aimed' /\ Within'
<1>1. /\ inst' \in [Instance -> InstRec] /\ inst'[i] = r
      /\ \A j \in Instance \ {i} : inst'[j] = inst[j]
    BY DEF TInv, Types
<1>2. r.applied \in Nat
    BY DEF InstRec
<1>3. \A j \in Instance : inst'[j].applied <= Len(log)'
    <2> SUFFICES ASSUME NEW j \in Instance PROVE inst'[j].applied <= Len(log)'
        OBVIOUS
    <2>1. inst[j].applied \in Nat /\ inst[j].applied <= Len(log) /\ Len(log) \in Nat
        BY InstFields, LogFields
    <2> QED BY <2>1, <1>1, <1>2
<1>4. \A j \in Instance : inst'[j].loop = "fire" => inst'[j].about \in Message
    BY <1>1, InstFields
<1> QED BY <1>1, <1>3, <1>4 DEF Aimed, Within

\* A notification changes nothing but the permit.
LEMMA Kicked ==
    ASSUME TInv, NEW i \in Instance, inst' = [inst EXCEPT ![i].kick = Notified(i)], UNCHANGED log
    PROVE  /\ inst' \in [Instance -> InstRec] /\ Aimed' /\ Within'
           /\ \A j \in Instance :
                 /\ inst'[j].status = inst[j].status /\ inst'[j].applied = inst[j].applied
                 /\ inst'[j].loop = inst[j].loop /\ inst'[j].about = inst[j].about
                 /\ inst'[j].at = inst[j].at
<1> DEFINE r == [inst[i] EXCEPT !.kick = Notified(i)]
<1>1. Notified(i) \in BOOLEAN
    BY DEF Notified
<1>2. inst[i] \in InstRec
    BY InstFields
<1>3. /\ r \in InstRec /\ r.status = inst[i].status /\ r.applied = inst[i].applied
      /\ r.loop = inst[i].loop /\ r.about = inst[i].about /\ r.at = inst[i].at
    BY <1>1, <1>2 DEF InstRec
<1>4. inst' = [inst EXCEPT ![i] = r]
    OBVIOUS
<1> HIDE DEF r
<1>5. /\ r.loop = "fire" => r.about \in Message
      /\ r.applied <= Len(log) /\ Len(log)' \in Nat /\ Len(log) <= Len(log)'
    BY <1>3, InstFields, LogFields
<1>6. /\ inst' \in [Instance -> InstRec] /\ inst'[i] = r /\ Aimed' /\ Within'
      /\ \A j \in Instance \ {i} : inst'[j] = inst[j]
    BY <1>3, <1>4, <1>5, InstChanges
<1> QED BY <1>3, <1>6

\* A step that changes one task leaves its types right.
LEMMA TaskChanges ==
    ASSUME TInv, NEW m \in Message, NEW r \in TaskRec, task' = [task EXCEPT ![m] = r],
           r.at # "idle" => r.inst \in Instance
    PROVE  /\ task' \in [Message -> TaskRec] /\ Holding'
           /\ task'[m] = r /\ \A n \in Message \ {m} : task'[n] = task[n]
BY TaskFields DEF TInv, Types, Holding

\* A step that changes one closer leaves its types right.
LEMMA ClosingChanges ==
    ASSUME TInv, NEW c \in Closer, NEW r \in ClosingRec, closing' = [closing EXCEPT ![c] = r],
           r.inst \in Instance <=> r.at \in {"wait", "snapshot", "cancel"}
    PROVE  /\ closing' \in [Closer -> ClosingRec] /\ Grasping'
           /\ closing'[c] = r /\ \A d \in Closer \ {c} : closing'[d] = closing[d]
BY ClosingFields DEF TInv, Types, Grasping

LEMMA TouchType ==
    ASSUME Touch
    PROVE  touched' \in BOOLEAN
BY DEF Touch

-----------------------------------------------------------------------------
(***************************************************************************)
(* The inductive invariant.                                                *)
(***************************************************************************)
\* NoOrphan, without the hold that terminate has on the instance it found: that
\* one is still registered, or somebody else's.
Accounted ==
    \A i \in Instance :
        inst[i].status \in {"building", "live"} =>
            \/ nets = i
            \/ i \in abandoned
            \/ \E m \in Message : task[m].at = "insert" /\ task[m].inst = i
            \/ \E c \in Closer : closing[c].at # "wait" /\ closing[c].inst = i

\* An instance that is being built has no loop, and nobody but its builder has it.
Builders ==
    \A m \in Message :
        task[m].at = "insert" =>
            /\ inst[task[m].inst].status = "building"
            /\ inst[task[m].inst].loop = "ended"
            /\ nets # task[m].inst
            /\ \A n \in Message \ {m} : task[n].inst # task[m].inst
            /\ \A c \in Closer : closing[c].inst # task[m].inst

\* The events that consume a token.
Consumed == {k \in DOMAIN log : log[k].kind \in {"Fired", "Failed"}}

\* At most one loop runs.
Alone == \A i, j \in Instance : inst[i].loop # "ended" /\ inst[j].loop # "ended" => i = j

\* A firing the loop at this record has not applied is the one it waits for, or
\* it was cancelled and will see overlap if it evaluates again.
Caught(r, k) ==
    \/ k <= r.applied
    \/ r.loop = "ended"
    \/ r.loop = "wait" /\ k = r.at
    \/ r.loop = "rest" /\ r.status = "cancelled"

CaughtUp == \A i \in Instance : \A k \in Consumed : Caught(inst[i], k)

\* What a loop is about to fire was never fired.
Fresh == \A i \in Instance : inst[i].loop = "fire" => Fired(inst[i].about) = {}

Once == \A m \in Message : \A k, l \in Fired(m) : k = l

Single == overlap \/ (Alone /\ CaughtUp /\ Fresh /\ Once)

LInv == TInv /\ Accounted /\ Builders /\ Single

-----------------------------------------------------------------------------
(***************************************************************************)
(* What a step that leaves most alone keeps.                               *)
(***************************************************************************)
\* No new builder, no hold but on what is registered: Builders stays.
LEMMA BuildersKeep ==
    ASSUME TInv, Builders,
           \A m \in Message :
              /\ task'[m].at = "insert" =>
                    /\ task'[m] = task[m]
                    /\ inst'[task[m].inst].status = "building"
                    /\ inst'[task[m].inst].loop = "ended"
              /\ task'[m].inst \in {task[m].inst, nets, None},
           nets' \in {nets, None},
           \A c \in Closer : closing'[c].inst \in {closing[c].inst, nets, None}
    PROVE  Builders'
<1> SUFFICES ASSUME NEW m \in Message, task'[m].at = "insert"
             PROVE  /\ inst'[task'[m].inst].status = "building"
                    /\ inst'[task'[m].inst].loop = "ended"
                    /\ nets' # task'[m].inst
                    /\ \A n \in Message \ {m} : task'[n].inst # task'[m].inst
                    /\ \A c \in Closer : closing'[c].inst # task'[m].inst
    BY DEF Builders
<1>1. task'[m] = task[m] /\ task[m].at = "insert"
    OBVIOUS
<1>2. task[m].inst \in Instance /\ task[m].inst # None
    BY <1>1, TaskFields, Constants
<1>3. /\ nets # task[m].inst
      /\ \A n \in Message \ {m} : task[n].inst # task[m].inst
      /\ \A c \in Closer : closing[c].inst # task[m].inst
    BY <1>1 DEF Builders
<1> QED BY <1>1, <1>2, <1>3

\* Nothing comes to life, and nobody lets go of an instance: Accounted stays.
LEMMA AccountedKeep ==
    ASSUME TInv, Accounted,
           \A i \in Instance :
              inst'[i].status \in {"building", "live"} => inst[i].status \in {"building", "live"},
           nets' = nets, abandoned \subseteq abandoned', closing' = closing,
           \A m \in Message : task[m].at = "insert" => task'[m] = task[m]
    PROVE  Accounted'
<1> SUFFICES ASSUME NEW i \in Instance, inst'[i].status \in {"building", "live"}
             PROVE  \/ nets' = i
                    \/ i \in abandoned'
                    \/ \E m \in Message : task'[m].at = "insert" /\ task'[m].inst = i
                    \/ \E c \in Closer : closing'[c].at # "wait" /\ closing'[c].inst = i
    BY DEF Accounted
<1>1. \/ nets = i
      \/ i \in abandoned
      \/ \E m \in Message : task[m].at = "insert" /\ task[m].inst = i
      \/ \E c \in Closer : closing[c].at # "wait" /\ closing[c].inst = i
    BY DEF Accounted
<1> QED BY <1>1

\* The loops do nothing and nothing is published: Single stays.
LEMMA SingleKeep ==
    ASSUME TInv, Single, UNCHANGED <<log, overlap>>,
           \A j \in Instance :
              /\ inst'[j].status = inst[j].status /\ inst'[j].applied = inst[j].applied
              /\ inst'[j].loop = inst[j].loop /\ inst'[j].about = inst[j].about
              /\ inst'[j].at = inst[j].at
    PROVE  Single'
<1>1. Consumed' = Consumed /\ \A m : Fired(m)' = Fired(m)
    BY DEF Consumed, Fired
<1>2. Alone => Alone'
    BY DEF Alone
<1>3. CaughtUp => CaughtUp'
    BY <1>1 DEF CaughtUp, Caught
<1>4. Fresh => Fresh'
    <2> SUFFICES ASSUME Fresh, NEW i \in Instance, inst'[i].loop = "fire"
                 PROVE  Fired(inst[i].about)' = {}
        BY <1>1 DEF Fresh, Fired
    <2> QED BY <1>1 DEF Fresh
<1>5. Once => Once'
    BY <1>1 DEF Once
<1> QED BY <1>2, <1>3, <1>4, <1>5 DEF Single

\* One instance moves, to a record that keeps what Single asks of it.
LEMMA OneMoves ==
    ASSUME TInv, Single, UNCHANGED log, NEW i \in Instance, NEW r,
           inst'[i] = r, \A j \in Instance \ {i} : inst'[j] = inst[j],
           overlap => overlap',
           ~overlap' =>
              \/ r.loop = "ended"
              \/ /\ \A j \in Instance \ {i} : inst[j].loop = "ended"
                 /\ \A k \in Consumed : Caught(r, k)
                 /\ r.loop = "fire" => Fired(r.about) = {}
    PROVE  Single'
<1>1. CASE overlap'
    BY <1>1 DEF Single
<1>2. CASE ~overlap'
    <2>1. Alone /\ CaughtUp /\ Fresh /\ Once
        BY <1>2 DEF Single
    <2>2. Consumed' = Consumed /\ \A m : Fired(m)' = Fired(m)
        BY DEF Consumed, Fired
    <2>3. Alone'
        BY <1>2, <2>1 DEF Alone
    <2>4. CaughtUp'
        <3> SUFFICES ASSUME NEW j \in Instance, NEW k \in Consumed PROVE Caught(inst'[j], k)
            BY <2>2 DEF CaughtUp, Caught
        <3>1. CASE j = i
            <4>1. r.loop = "ended" => Caught(r, k)
                BY DEF Caught
            <4> QED BY <1>2, <3>1, <4>1
        <3>2. CASE j # i
            BY <2>1, <3>2 DEF CaughtUp
        <3> QED BY <3>1, <3>2
    <2>5. Fresh'
        <3> SUFFICES ASSUME NEW j \in Instance, inst'[j].loop = "fire"
                     PROVE  Fired(inst'[j].about) = {}
            BY <2>2 DEF Fresh, Fired
        <3>1. CASE j = i
            BY <1>2, <3>1
        <3>2. CASE j # i
            BY <2>1, <3>2 DEF Fresh
        <3> QED BY <3>1, <3>2
    <2>6. Once'
        BY <2>1, <2>2 DEF Once
    <2> QED BY <2>3, <2>4, <2>5, <2>6 DEF Single
<1> QED BY <1>1, <1>2

\* An event that consumes no token is appended: Single stays.
LEMMA SingleAppend ==
    ASSUME TInv, Single, NEW e \in LogEvent, log' = Append(log, e),
           e.kind \notin {"Fired", "Failed"}, UNCHANGED <<inst, overlap>>
    PROVE  Single'
<1>1. /\ Len(log) \in Nat /\ DOMAIN log = 1..Len(log) /\ DOMAIN log' = 1..(Len(log) + 1)
      /\ log'[Len(log) + 1] = e /\ \A k \in 1..Len(log) : log'[k] = log[k]
    BY LogFields, Appended
<1>2. Consumed' = Consumed
    BY <1>1 DEF Consumed
<1>3. \A m : Fired(m)' = Fired(m)
    BY <1>1 DEF Fired
<1>4. Alone => Alone'
    BY DEF Alone
<1>5. CaughtUp => CaughtUp'
    BY <1>2 DEF CaughtUp, Caught
<1>6. Fresh => Fresh'
    <2> SUFFICES ASSUME Fresh, NEW i \in Instance, inst[i].loop = "fire"
                 PROVE  Fired(inst[i].about)' = {}
        BY DEF Fresh, Fired
    <2> QED BY <1>3 DEF Fresh
<1>7. Once => Once'
    BY <1>3 DEF Once
<1> QED BY <1>4, <1>5, <1>6, <1>7 DEF Single

\* An append only lengthens the log.
LEMMA Longer ==
    ASSUME TInv, NEW e \in LogEvent, log' = Append(log, e), UNCHANGED inst
    PROVE  log' \in Seq(LogEvent) /\ Aimed' /\ Within'
<1>1. log' \in Seq(LogEvent) /\ Len(log) \in Nat /\ Len(log') = Len(log) + 1
    BY LogFields, Appended
<1>2. \A i \in Instance : inst[i].applied \in Nat /\ inst[i].applied <= Len(log)
    BY InstFields
<1>3. Within'
    BY <1>1, <1>2 DEF Within
<1>4. Aimed'
    BY DEF TInv, Aimed
<1> QED BY <1>1, <1>3, <1>4

-----------------------------------------------------------------------------
(***************************************************************************)
(* The listeners.                                                          *)
(***************************************************************************)
LEMMA RejectStep ==
    ASSUME LInv, NEW m \in Message, Reject(m)
    PROVE  LInv'
<1>1. TInv /\ Accounted /\ Builders /\ Single
    BY DEF LInv
<1>2. UNCHANGED <<log, meta, snapshot, nets, inst, task, closing, touched, closings, faults, crashed,
                  abandoned, overlap>> /\ queue' = queue \ {m} /\ dlq' = dlq \cup {m}
    BY DEF Reject
<1>3. TInv'
    BY <1>1, <1>2 DEF TInv, Types, Aimed, Holding, Grasping, Within
<1>4. Accounted'
    BY <1>1, <1>2, AccountedKeep
<1>5. Builders'
    BY <1>1, <1>2 DEF Builders
<1>6. Single'
    BY <1>1, <1>2, SingleKeep
<1> QED BY <1>3, <1>4, <1>5, <1>6 DEF LInv

LEMMA ResolveStep ==
    ASSUME LInv, NEW m \in Message, Resolve(m)
    PROVE  LInv'
<1> DEFINE r == [NoTask EXCEPT !.at = "inject", !.inst = nets]
<1>1. TInv /\ Accounted /\ Builders /\ Single
    BY DEF LInv
<1>2. /\ UNCHANGED <<durable, nets, inst, closing, closings, faults, crashed, abandoned, overlap>>
      /\ task[m].at = "idle" /\ nets # None /\ Touch
      /\ task' = [task EXCEPT ![m] = r]
    BY DEF Resolve, Takes
<1>3. nets \in Instance
    BY <1>1, <1>2 DEF TInv, Types
<1>4. r \in TaskRec /\ r.at = "inject" /\ r.inst = nets
    BY <1>3 DEF NoTask, TaskRec
<1> HIDE DEF r
<1>5. /\ task' \in [Message -> TaskRec] /\ Holding'
      /\ task'[m] = r /\ \A n \in Message \ {m} : task'[n] = task[n]
    BY <1>1, <1>2, <1>3, <1>4, TaskChanges
<1>6. TInv'
    BY <1>1, <1>2, <1>5, TouchType DEF TInv, Types, Aimed, Grasping, Within, durable
<1>7. Accounted'
    BY <1>1, <1>2, <1>5, AccountedKeep
<1>8. Builders'
    <2>1. \A n \in Message :
             /\ task'[n].at = "insert" => task'[n] = task[n] /\ task[n].at = "insert"
             /\ task'[n].inst \in {task[n].inst, nets, None}
        BY <1>4, <1>5
    <2>2. \A n \in Message : task[n].at = "insert" =>
             inst'[task[n].inst].status = "building" /\ inst'[task[n].inst].loop = "ended"
        BY <1>1, <1>2 DEF Builders
    <2> QED BY <1>1, <1>2, <2>1, <2>2, BuildersKeep
<1>9. Single'
    BY <1>1, <1>2, SingleKeep DEF durable
<1> QED BY <1>6, <1>7, <1>8, <1>9 DEF LInv

LEMMA BuildStep ==
    ASSUME LInv, NEW m \in Message, Build(m)
    PROVE  LInv'
<1>1. TInv /\ Accounted /\ Builders /\ Single
    BY DEF LInv
<1>2. /\ UNCHANGED <<durable, nets, closing, touched, closings, faults, crashed, overlap>>
      /\ task[m].at = "idle"
    BY DEF Build, Takes
<1>3. PICK i \in Instance :
          /\ Free(i)
          /\ inst' = [inst EXCEPT ![i] =
                [Dead EXCEPT !.status = "building", !.applied = Len(log),
                             !.kick = Len(log) > (IF snapshot = None THEN 0 ELSE snapshot)]]
          /\ task' = [task EXCEPT ![m] = [NoTask EXCEPT !.at = "insert", !.inst = i]]
          /\ abandoned' = abandoned \ {i}
    BY DEF Build
<1> DEFINE kick == Len(log) > (IF snapshot = None THEN 0 ELSE snapshot)
           r == [Dead EXCEPT !.status = "building", !.applied = Len(log), !.kick = kick]
           t == [NoTask EXCEPT !.at = "insert", !.inst = i]
<1>4. kick \in BOOLEAN
    OBVIOUS
<1>5. inst' = [inst EXCEPT ![i] = r] /\ task' = [task EXCEPT ![m] = t]
    BY <1>3
<1> HIDE DEF kick
<1>6. r \in InstRec /\ r.status = "building" /\ r.loop = "ended" /\ r.applied = Len(log)
    BY <1>1, <1>4, LogFields DEF Dead, InstRec
<1>7. t \in TaskRec /\ t.at = "insert" /\ t.inst = i
    BY DEF NoTask, TaskRec
<1> HIDE DEF r, t
<1>8. /\ inst' \in [Instance -> InstRec] /\ Aimed' /\ Within'
      /\ inst'[i] = r /\ \A j \in Instance \ {i} : inst'[j] = inst[j]
    <2>1. Len(log) \in Nat /\ Len(log)' = Len(log)
        BY <1>1, <1>2, LogFields DEF durable
    <2>2. /\ r.loop = "fire" => r.about \in Message
          /\ r.applied <= Len(log) /\ Len(log)' \in Nat /\ Len(log) <= Len(log)'
        BY <1>6, <2>1
    <2> QED BY <1>1, <1>5, <1>6, <2>2, InstChanges
<1>9. /\ task' \in [Message -> TaskRec] /\ Holding'
      /\ task'[m] = t /\ \A n \in Message \ {m} : task'[n] = task[n]
    BY <1>1, <1>5, <1>7, TaskChanges
<1>10. /\ nets # i /\ \A n \in Message : task[n].inst # i
       /\ \A c \in Closer : closing[c].inst # i
    BY <1>3 DEF Free, Held
<1>11. TInv'
    BY <1>1, <1>2, <1>3, <1>8, <1>9 DEF TInv, Types, Grasping, durable
<1>12. Accounted'
    <2> SUFFICES ASSUME NEW j \in Instance, inst'[j].status \in {"building", "live"}
                 PROVE  \/ nets' = j
                        \/ j \in abandoned'
                        \/ \E n \in Message : task'[n].at = "insert" /\ task'[n].inst = j
                        \/ \E c \in Closer : closing'[c].at # "wait" /\ closing'[c].inst = j
        BY DEF Accounted
    <2>1. CASE j = i
        BY <2>1, <1>7, <1>9
    <2>2. CASE j # i
        <3>1. \/ nets = j
              \/ j \in abandoned
              \/ \E n \in Message : task[n].at = "insert" /\ task[n].inst = j
              \/ \E c \in Closer : closing[c].at # "wait" /\ closing[c].inst = j
            BY <1>1, <1>8, <2>2 DEF Accounted
        <3> QED BY <3>1, <2>2, <1>2, <1>3, <1>9
    <2> QED BY <2>1, <2>2
<1>13. Builders'
    <2> SUFFICES ASSUME NEW n \in Message, task'[n].at = "insert"
                 PROVE  /\ inst'[task'[n].inst].status = "building"
                        /\ inst'[task'[n].inst].loop = "ended"
                        /\ nets' # task'[n].inst
                        /\ \A o \in Message \ {n} : task'[o].inst # task'[n].inst
                        /\ \A c \in Closer : closing'[c].inst # task'[n].inst
        BY DEF Builders
    <2>1. CASE n = m
        BY <2>1, <1>2, <1>6, <1>7, <1>8, <1>9, <1>10
    <2>2. CASE n # m
        <3>1. task'[n] = task[n] /\ task[n].inst \in Instance \ {i}
            BY <1>1, <1>9, <1>10, <2>2, TaskFields
        <3>2. /\ inst[task[n].inst].status = "building"
              /\ inst[task[n].inst].loop = "ended"
              /\ nets # task[n].inst
              /\ \A o \in Message \ {n} : task[o].inst # task[n].inst
              /\ \A c \in Closer : closing[c].inst # task[n].inst
            BY <1>1, <3>1 DEF Builders
        <3> QED BY <3>1, <3>2, <1>2, <1>7, <1>8, <1>9
    <2> QED BY <2>1, <2>2
<1>14. Single'
    BY <1>1, <1>2, <1>6, <1>8, OneMoves DEF durable
<1> QED BY <1>11, <1>12, <1>13, <1>14 DEF LInv

\* The call that lost the race cancels what it built.
LEMMA InsertLoses ==
    ASSUME LInv, NEW m \in Message, Insert(m), nets # None
    PROVE  LInv'
<1> DEFINE b == task[m].inst
           t == [task[m] EXCEPT !.at = "inject", !.inst = nets]
<1>1. TInv /\ Accounted /\ Builders /\ Single
    BY DEF LInv
<1>2. /\ UNCHANGED <<durable, nets, closing, closings, faults, crashed, abandoned, overlap>>
      /\ task[m].at = "insert" /\ Touch
      /\ inst' = [inst EXCEPT ![b] = Dead]
      /\ task' = [task EXCEPT ![m] = t]
    BY DEF Insert
<1>3. nets \in Instance /\ b \in Instance
    BY <1>1, <1>2, TaskFields DEF TInv, Types
<1>4. t \in TaskRec /\ t.at = "inject" /\ t.inst = nets
    BY <1>1, <1>3, TaskFields DEF TaskRec
<1> HIDE DEF t
<1>5. /\ task' \in [Message -> TaskRec] /\ Holding'
      /\ task'[m] = t /\ \A n \in Message \ {m} : task'[n] = task[n]
    BY <1>1, <1>2, <1>3, <1>4, TaskChanges
<1>6. /\ inst' \in [Instance -> InstRec] /\ Aimed' /\ Within'
      /\ inst'[b] = Dead /\ \A j \in Instance \ {b} : inst'[j] = inst[j]
    <2>1. Len(log) \in Nat /\ Len(log)' = Len(log)
        BY <1>1, <1>2, LogFields DEF durable
    <2>2. /\ Dead \in InstRec /\ (Dead.loop = "fire" => Dead.about \in Message)
          /\ Dead.applied <= Len(log) /\ Len(log)' \in Nat /\ Len(log) <= Len(log)'
        BY <2>1, Constants
    <2> QED BY <1>1, <1>2, <1>3, <2>2, InstChanges
<1>7. TInv'
    BY <1>1, <1>2, <1>5, <1>6, TouchType DEF TInv, Types, Grasping, durable
<1>8. Accounted'
    <2> SUFFICES ASSUME NEW j \in Instance, inst'[j].status \in {"building", "live"}
                 PROVE  \/ nets' = j
                        \/ j \in abandoned'
                        \/ \E n \in Message : task'[n].at = "insert" /\ task'[n].inst = j
                        \/ \E c \in Closer : closing'[c].at # "wait" /\ closing'[c].inst = j
        BY DEF Accounted
    <2>1. j # b /\ inst'[j] = inst[j]
        BY <1>6, Constants
    <2>2. \/ nets = j
          \/ j \in abandoned
          \/ \E n \in Message : task[n].at = "insert" /\ task[n].inst = j
          \/ \E c \in Closer : closing[c].at # "wait" /\ closing[c].inst = j
        BY <1>1, <2>1 DEF Accounted
    <2> QED BY <1>2, <1>5, <2>1, <2>2
<1>9. Builders'
    <2>1. \A n \in Message :
             /\ task'[n].at = "insert" => task'[n] = task[n] /\ task[n].at = "insert" /\ n # m
             /\ task'[n].inst \in {task[n].inst, nets, None}
        BY <1>4, <1>5
    <2>2. \A n \in Message \ {m} : task[n].at = "insert" =>
             inst'[task[n].inst].status = "building" /\ inst'[task[n].inst].loop = "ended"
        BY <1>1, <1>2, <1>6, TaskFields DEF Builders
    <2> QED BY <1>1, <1>2, <2>1, <2>2, BuildersKeep
<1>10. Single'
    BY <1>1, <1>2, <1>3, <1>6, Constants, OneMoves DEF durable
<1> QED BY <1>7, <1>8, <1>9, <1>10 DEF LInv

\* The call that won publishes its instance and spawns the loop.
LEMMA InsertWins ==
    ASSUME LInv, NEW m \in Message, Insert(m), nets = None
    PROVE  LInv'
<1> DEFINE b == task[m].inst
           r == [inst[b] EXCEPT !.status = "live", !.loop = "rest"]
           t == [task[m] EXCEPT !.at = "inject"]
<1>1. TInv /\ Accounted /\ Builders /\ Single
    BY DEF LInv
<1>2. /\ UNCHANGED <<durable, closing, closings, faults, crashed, abandoned>>
      /\ task[m].at = "insert" /\ Touch
      /\ nets' = b
      /\ overlap' = (overlap \/ Overlaps(b))
      /\ inst' = [inst EXCEPT ![b] = r]
      /\ task' = [task EXCEPT ![m] = t]
    BY DEF Insert
<1>3. b \in Instance
    BY <1>1, <1>2, TaskFields
<1>4. t \in TaskRec /\ t.at = "inject" /\ t.inst = b
    BY <1>1, <1>3, TaskFields DEF TaskRec
<1>5. /\ r \in InstRec /\ r.status = "live" /\ r.loop = "rest"
      /\ r.applied = inst[b].applied
    BY <1>1, <1>3, InstFields DEF InstRec
<1> HIDE DEF t, r
<1>6. /\ task' \in [Message -> TaskRec] /\ Holding'
      /\ task'[m] = t /\ \A n \in Message \ {m} : task'[n] = task[n]
    BY <1>1, <1>2, <1>3, <1>4, TaskChanges
<1>7. /\ inst' \in [Instance -> InstRec] /\ Aimed' /\ Within'
      /\ inst'[b] = r /\ \A j \in Instance \ {b} : inst'[j] = inst[j]
    <2>1. Len(log) \in Nat /\ Len(log)' = Len(log)
        BY <1>1, <1>2, LogFields DEF durable
    <2>2. /\ r.loop = "fire" => r.about \in Message
          /\ r.applied <= Len(log) /\ Len(log)' \in Nat /\ Len(log) <= Len(log)'
        BY <1>1, <1>3, <1>5, <2>1, InstFields
    <2> QED BY <1>1, <1>2, <1>3, <1>5, <2>2, InstChanges
<1>8. TInv'
    <2>1. overlap' \in BOOLEAN
        BY <1>1, <1>2 DEF TInv, Types, Overlaps
    <2> QED BY <1>1, <1>2, <1>3, <1>6, <1>7, <2>1, TouchType DEF TInv, Types, Grasping, durable
<1>9. Accounted'
    <2> SUFFICES ASSUME NEW j \in Instance, inst'[j].status \in {"building", "live"}
                 PROVE  \/ nets' = j
                        \/ j \in abandoned'
                        \/ \E n \in Message : task'[n].at = "insert" /\ task'[n].inst = j
                        \/ \E c \in Closer : closing'[c].at # "wait" /\ closing'[c].inst = j
        BY DEF Accounted
    <2>1. CASE j = b
        BY <2>1, <1>2
    <2>2. CASE j # b
        <3>1. \/ nets = j
              \/ j \in abandoned
              \/ \E n \in Message : task[n].at = "insert" /\ task[n].inst = j
              \/ \E c \in Closer : closing[c].at # "wait" /\ closing[c].inst = j
            BY <1>1, <1>7, <2>2 DEF Accounted
        <3> QED BY <1>2, <1>6, <2>2, <3>1, Constants
    <2> QED BY <2>1, <2>2
<1>10. Builders'
    <2> SUFFICES ASSUME NEW n \in Message, task'[n].at = "insert"
                 PROVE  /\ inst'[task'[n].inst].status = "building"
                        /\ inst'[task'[n].inst].loop = "ended"
                        /\ nets' # task'[n].inst
                        /\ \A o \in Message \ {n} : task'[o].inst # task'[n].inst
                        /\ \A c \in Closer : closing'[c].inst # task'[n].inst
        BY DEF Builders
    <2>1. n # m /\ task'[n] = task[n] /\ task[n].inst \in Instance
        BY <1>1, <1>4, <1>6, TaskFields
    <2>2. /\ inst[task[n].inst].status = "building"
          /\ inst[task[n].inst].loop = "ended"
          /\ \A o \in Message \ {n} : task[o].inst # task[n].inst
          /\ \A c \in Closer : closing[c].inst # task[n].inst
        BY <1>1, <2>1 DEF Builders
    <2>3. task[n].inst # b
        BY <2>1, <2>2
    <2> QED BY <1>2, <1>4, <1>6, <1>7, <2>1, <2>2, <2>3
<1>11. Single'
    <2>1. ASSUME ~overlap'
          PROVE  /\ \A j \in Instance \ {b} : inst[j].loop = "ended"
                 /\ \A k \in Consumed : Caught(r, k)
        <3>1. ~Overlaps(b)
            BY <2>1, <1>2
        <3>2. \A j \in Instance \ {b} : inst[j].loop = "ended"
            BY <3>1 DEF Overlaps
        <3>3. ASSUME NEW k \in Consumed PROVE k <= r.applied
            <4>1. k \in 1..Len(log) /\ log[k].kind \in {"Fired", "Failed"} /\ Len(log) \in Nat
                BY <1>1, LogFields DEF Consumed
            <4>2. inst[b].applied \in Nat
                BY <1>1, <1>3, InstFields
            <4>3. k \notin (inst[b].applied + 1)..Len(log)
                BY <3>1, <4>1 DEF Overlaps
            <4> QED BY <1>5, <4>1, <4>2, <4>3
        <3> QED BY <3>2, <3>3 DEF Caught
    <2> QED BY <1>1, <1>2, <1>3, <1>5, <1>7, <2>1, OneMoves DEF durable
<1> QED BY <1>8, <1>9, <1>10, <1>11 DEF LInv

\* A delivery ends: the loop is notified, the listener lets go of the instance.
LEMMA Delivered ==
    ASSUME LInv, NEW m \in Message, task[m].at \in {"inject", "wait"},
           inst' = [inst EXCEPT ![task[m].inst].kick = Notified(task[m].inst)],
           task' = [task EXCEPT ![m] = NoTask], Touch, queue' \subseteq queue,
           UNCHANGED <<log, meta, snapshot, dlq, nets, closing, closings, faults, crashed, abandoned,
                       overlap>>
    PROVE  LInv'
<1>1. TInv /\ Accounted /\ Builders /\ Single
    BY DEF LInv
<1>2. task[m].inst \in Instance
    BY <1>1, TaskFields
<1>3. /\ inst' \in [Instance -> InstRec] /\ Aimed' /\ Within'
      /\ \A j \in Instance :
            /\ inst'[j].status = inst[j].status /\ inst'[j].applied = inst[j].applied
            /\ inst'[j].loop = inst[j].loop /\ inst'[j].about = inst[j].about
            /\ inst'[j].at = inst[j].at
    BY <1>1, <1>2, Kicked
<1>4. /\ task' \in [Message -> TaskRec] /\ Holding'
      /\ task'[m] = NoTask /\ \A n \in Message \ {m} : task'[n] = task[n]
    BY <1>1, TaskChanges, Constants
<1>5. TInv'
    BY <1>1, <1>3, <1>4, TouchType DEF TInv, Types, Grasping
<1>6. Accounted'
    BY <1>1, <1>3, <1>4, AccountedKeep
<1>7. Builders'
    <2>1. \A n \in Message :
             /\ task'[n].at = "insert" => task'[n] = task[n] /\ task[n].at = "insert"
             /\ task'[n].inst \in {task[n].inst, nets, None}
        BY <1>4, Constants
    <2>2. \A n \in Message : task[n].at = "insert" =>
             inst'[task[n].inst].status = "building" /\ inst'[task[n].inst].loop = "ended"
        BY <1>1, <1>3, TaskFields DEF Builders
    <2> QED BY <1>1, <2>1, <2>2, BuildersKeep
<1>8. Single'
    BY <1>1, <1>3, SingleKeep
<1> QED BY <1>5, <1>6, <1>7, <1>8 DEF LInv

LEMMA InjectKnownStep ==
    ASSUME LInv, NEW m \in Message, InjectKnown(m)
    PROVE  LInv'
BY Delivered DEF InjectKnown, Ack

LEMMA InjectAppliedStep ==
    ASSUME LInv, NEW m \in Message, InjectApplied(m)
    PROVE  LInv'
BY Delivered DEF InjectApplied, Ack

LEMMA InjectTimesOutStep ==
    ASSUME LInv, NEW m \in Message, InjectTimesOut(m)
    PROVE  LInv'
BY Delivered DEF InjectTimesOut, durable

LEMMA InjectNewStep ==
    ASSUME LInv, NEW m \in Message, InjectNew(m)
    PROVE  LInv'
<1>1. TInv /\ Accounted /\ Builders /\ Single
    BY DEF LInv
<1>2. CASE m \in Had(log, {"Created"})
    BY <1>2, Delivered DEF InjectNew, Ack
<1>3. CASE m \notin Had(log, {"Created"})
    <2> DEFINE e == [kind |-> "Created", about |-> m]
               t == [task[m] EXCEPT !.at = "wait", !.pos = Len(log) + 1]
    <2>1. /\ log' = Append(log, e) /\ task' = [task EXCEPT ![m] = t]
          /\ task[m].at = "inject"
          /\ UNCHANGED <<meta, snapshot, dlq, queue, nets, inst, closing, touched, closings, faults,
                         crashed, abandoned, overlap>>
        BY <1>3 DEF InjectNew
    <2>2. e \in LogEvent /\ e.kind \notin {"Fired", "Failed"}
        BY EventOf
    <2>3. Len(log) + 1 \in Nat
        BY <1>1, LogFields
    <2>4. t \in TaskRec /\ t.at = "wait" /\ t.inst = task[m].inst /\ t.inst \in Instance
        BY <1>1, <2>1, <2>3, TaskFields DEF TaskRec
    <2> HIDE DEF e, t
    <2>5. /\ task' \in [Message -> TaskRec] /\ Holding'
          /\ task'[m] = t /\ \A n \in Message \ {m} : task'[n] = task[n]
        BY <1>1, <2>1, <2>4, TaskChanges
    <2>6. log' \in Seq(LogEvent) /\ Aimed' /\ Within'
        BY <1>1, <2>1, <2>2, Longer
    <2>7. TInv'
        BY <1>1, <2>1, <2>5, <2>6 DEF TInv, Types, Grasping
    <2>8. Accounted'
        BY <1>1, <2>1, <2>5, AccountedKeep
    <2>9. Builders'
        <3>1. \A n \in Message :
                 /\ task'[n].at = "insert" => task'[n] = task[n] /\ task[n].at = "insert"
                 /\ task'[n].inst \in {task[n].inst, nets, None}
            BY <2>4, <2>5
        <3>2. \A n \in Message : task[n].at = "insert" =>
                 inst'[task[n].inst].status = "building" /\ inst'[task[n].inst].loop = "ended"
            BY <1>1, <2>1 DEF Builders
        <3> QED BY <1>1, <2>1, <3>1, <3>2, BuildersKeep
    <2>10. Single'
        BY <1>1, <2>1, <2>2, SingleAppend
    <2> QED BY <2>7, <2>8, <2>9, <2>10 DEF LInv
<1> QED BY <1>2, <1>3

-----------------------------------------------------------------------------
(***************************************************************************)
(* The tasks of an instance.                                               *)
(***************************************************************************)
\* One instance moves, and nothing else but overlap: what there is to show.
LEMMA InstanceMoves ==
    ASSUME LInv, NEW i \in Instance, NEW r \in InstRec, inst' = [inst EXCEPT ![i] = r],
           UNCHANGED <<durable, nets, task, closing, touched, closings, faults, crashed, abandoned>>,
           overlap' \in BOOLEAN, overlap => overlap',
           r.applied <= Len(log), r.loop = "fire" => r.about \in Message,
           r.status \in {"building", "live"} => inst[i].status \in {"building", "live"},
           inst[i].status = "building" /\ inst[i].loop = "ended" =>
              r.status = "building" /\ r.loop = "ended",
           ~overlap' =>
              \/ r.loop = "ended"
              \/ /\ \A j \in Instance \ {i} : inst[j].loop = "ended"
                 /\ \A k \in Consumed : Caught(r, k)
                 /\ r.loop = "fire" => Fired(r.about) = {}
    PROVE  LInv'
<1>1. TInv /\ Accounted /\ Builders /\ Single
    BY DEF LInv
<1>2. Len(log)' \in Nat /\ Len(log) <= Len(log)'
    BY <1>1, LogFields DEF durable
<1>3. /\ inst' \in [Instance -> InstRec] /\ Aimed' /\ Within'
      /\ inst'[i] = r /\ \A j \in Instance \ {i} : inst'[j] = inst[j]
    BY <1>1, <1>2, InstChanges
<1>4. TInv'
    BY <1>1, <1>3 DEF TInv, Types, Holding, Grasping, durable
<1>5. Accounted'
    BY <1>1, <1>3, AccountedKeep
<1>6. Builders'
    <2>1. \A n \in Message : task[n].at = "insert" =>
             inst'[task[n].inst].status = "building" /\ inst'[task[n].inst].loop = "ended"
        BY <1>1, <1>3, TaskFields DEF Builders
    <2> QED BY <1>1, <2>1, BuildersKeep
<1>7. Single'
    BY <1>1, <1>3, OneMoves DEF durable
<1> QED BY <1>4, <1>5, <1>6, <1>7 DEF LInv

\* A running loop is the only one, and has applied what it must have.
LEMMA Running ==
    ASSUME LInv, ~overlap, NEW i \in Instance, inst[i].loop # "ended"
    PROVE  /\ \A j \in Instance \ {i} : inst[j].loop = "ended"
           /\ \A k \in Consumed : Caught(inst[i], k)
           /\ inst[i].loop = "fire" => Fired(inst[i].about) = {}
           /\ Once
BY DEF LInv, Single, Alone, CaughtUp, Fresh

LEMMA ConsumeStep ==
    ASSUME LInv, NEW i \in Instance, Consume(i)
    PROVE  LInv'
<1> DEFINE a == inst[i].applied + 1
           p == Notified(i)
           r == [inst[i] EXCEPT !.applied = a, !.kick = p]
<1>1. TInv
    BY DEF LInv
<1>2. /\ inst[i].status \in {"building", "live"} /\ inst[i].applied < Len(log)
      /\ inst' = [inst EXCEPT ![i] = r]
      /\ UNCHANGED <<durable, nets, task, closing, touched, closings, faults, crashed, abandoned,
                     overlap>>
    BY DEF Consume
<1>3. p \in BOOLEAN
    BY DEF Notified
<1>4. inst[i] \in InstRec /\ inst[i].applied \in Nat /\ a \in Nat /\ Len(log) \in Nat
    BY <1>1, InstFields, LogFields
<1> HIDE DEF a, p
<1>5. /\ r \in InstRec /\ r.status = inst[i].status /\ r.applied = a
      /\ r.loop = inst[i].loop /\ r.about = inst[i].about /\ r.at = inst[i].at
    BY <1>3, <1>4 DEF InstRec
<1> HIDE DEF r
<1> USE DEF a
<1>6. r.applied <= Len(log) /\ (r.loop = "fire" => r.about \in Message)
    BY <1>1, <1>2, <1>4, <1>5, InstFields
<1>7. ASSUME ~overlap, r.loop # "ended"
      PROVE  /\ \A j \in Instance \ {i} : inst[j].loop = "ended"
             /\ \A k \in Consumed : Caught(r, k)
             /\ r.loop = "fire" => Fired(r.about) = {}
    <2>1. /\ \A j \in Instance \ {i} : inst[j].loop = "ended"
          /\ \A k \in Consumed : Caught(inst[i], k)
          /\ inst[i].loop = "fire" => Fired(inst[i].about) = {}
        BY <1>5, <1>7, Running
    <2>2. ASSUME NEW k \in Consumed PROVE Caught(r, k)
        <3>1. k \in Nat
            BY <1>1, LogFields DEF Consumed
        <3>2. Caught(inst[i], k)
            BY <2>1
        <3> QED BY <3>1, <3>2, <1>4, <1>5 DEF Caught
    <2> QED BY <1>5, <2>1, <2>2
<1>8. overlap \in BOOLEAN
    BY <1>1 DEF TInv, Types
<1> QED BY <1>2, <1>5, <1>6, <1>7, <1>8, InstanceMoves

\* The loop steps with every firing applied: it rests, or fires a fresh token.
LEMMA StepMoves ==
    ASSUME LInv, NEW i \in Instance, inst[i].loop \in {"rest", "wait"},
           NEW from \in InstRec, from.status = inst[i].status, from.applied = inst[i].applied,
           Step(i, from),
           UNCHANGED <<durable, nets, task, closing, touched, closings, faults, crashed, abandoned>>,
           overlap' \in BOOLEAN, overlap => overlap',
           ~overlap' => \A k \in Consumed : k <= inst[i].applied
    PROVE  LInv'
<1>1. TInv
    BY DEF LInv
<1>2. inst[i].applied \in Nat /\ inst[i].applied <= Len(log)
    BY <1>1, InstFields
<1>3. ASSUME ~overlap'
      PROVE  \A j \in Instance \ {i} : inst[j].loop = "ended"
    BY <1>3, Running
<1>4. CASE Enabled(i) = {}
    <2> DEFINE r == [from EXCEPT !.loop = "rest", !.about = None, !.at = 0]
    <2>1. inst' = [inst EXCEPT ![i] = r]
        BY <1>4 DEF Step
    <2>2. /\ r \in InstRec /\ r.status = inst[i].status /\ r.applied = inst[i].applied
          /\ r.loop = "rest"
        BY DEF InstRec
    <2> HIDE DEF r
    <2>3. ~overlap' => \A k \in Consumed : Caught(r, k)
        BY <2>2 DEF Caught
    <2> QED BY <1>2, <1>3, <2>1, <2>2, <2>3, InstanceMoves
<1>5. CASE Enabled(i) # {}
    <2>1. PICK m \in Enabled(i) :
             inst' = [inst EXCEPT ![i] = [from EXCEPT !.loop = "fire", !.about = m, !.at = 0]]
        BY <1>5 DEF Step
    <2>2. /\ m \in Message
          /\ \A k \in 1..inst[i].applied :
                log[k].kind \in {"Fired", "Failed"} => log[k].about # m
        BY <1>1, EnabledTokens
    <2> DEFINE r == [from EXCEPT !.loop = "fire", !.about = m, !.at = 0]
    <2>3. inst' = [inst EXCEPT ![i] = r]
        BY <2>1
    <2>4. /\ r \in InstRec /\ r.status = inst[i].status /\ r.applied = inst[i].applied
          /\ r.loop = "fire" /\ r.about = m
        BY <2>2 DEF InstRec
    <2> HIDE DEF r
    <2>5. ~overlap' => \A k \in Consumed : Caught(r, k)
        BY <2>4 DEF Caught
    <2>6. ASSUME ~overlap' PROVE Fired(m) = {}
        <3> SUFFICES ASSUME NEW k \in Fired(m) PROVE FALSE
            OBVIOUS
        <3>1. k \in 1..Len(log) /\ log[k].kind \in {"Fired", "Failed"} /\ log[k].about = m
            BY <1>1, LogFields DEF Fired
        <3>2. k \in Consumed /\ Len(log) \in Nat
            BY <1>1, <3>1, LogFields DEF Consumed
        <3>3. k <= inst[i].applied
            BY <2>6, <3>2
        <3> QED BY <1>2, <2>2, <3>1, <3>2, <3>3
    <2> QED BY <1>2, <1>3, <2>2, <2>3, <2>4, <2>5, <2>6, InstanceMoves
<1> QED BY <1>4, <1>5

LEMMA EvaluateStep ==
    ASSUME LInv, NEW i \in Instance, Evaluate(i)
    PROVE  LInv'
<1> DEFINE from == [inst[i] EXCEPT !.kick = FALSE]
<1>1. TInv
    BY DEF LInv
<1>2. /\ inst[i].loop = "rest" /\ Step(i, from)
      /\ overlap' = (overlap \/ inst[i].status = "cancelled")
      /\ UNCHANGED <<durable, nets, task, closing, touched, closings, faults, crashed, abandoned>>
    BY DEF Evaluate
<1>3. from \in InstRec /\ from.status = inst[i].status /\ from.applied = inst[i].applied
    BY <1>1, InstFields DEF InstRec
<1> HIDE DEF from
<1>4. overlap' \in BOOLEAN /\ (overlap => overlap')
    BY <1>1, <1>2 DEF TInv, Types
<1>5. ASSUME ~overlap', NEW k \in Consumed PROVE k <= inst[i].applied
    <2>1. ~overlap /\ inst[i].status # "cancelled"
        BY <1>2, <1>5
    <2>2. Caught(inst[i], k)
        BY <1>2, <2>1, Running
    <2> QED BY <1>2, <2>1, <2>2 DEF Caught
<1> QED BY <1>2, <1>3, <1>4, <1>5, StepMoves

LEMMA FireReturnsStep ==
    ASSUME LInv, NEW i \in Instance, FireReturns(i)
    PROVE  LInv'
<1>1. TInv
    BY DEF LInv
<1>2. /\ inst[i].loop = "wait"
      /\ UNCHANGED <<durable, nets, task, closing, touched, closings, faults, crashed, abandoned,
                     overlap>>
    BY DEF FireReturns
<1>3. overlap' \in BOOLEAN /\ (overlap => overlap') /\ inst[i] \in InstRec
    BY <1>1, <1>2, InstFields DEF TInv, Types
<1>4. inst[i].applied \in Nat /\ inst[i].at \in Nat /\ inst[i].applied <= Len(log)
    BY <1>1, InstFields
<1>5. CASE inst[i].applied >= inst[i].at
    <2>1. Step(i, inst[i])
        BY <1>5 DEF FireReturns
    <2>2. ASSUME ~overlap', NEW k \in Consumed PROVE k <= inst[i].applied
        <3>1. Caught(inst[i], k)
            BY <1>2, <2>2, Running
        <3> QED BY <1>2, <1>4, <1>5, <3>1 DEF Caught
    <2> QED BY <1>2, <1>3, <2>1, <2>2, StepMoves
<1>6. CASE ~(inst[i].applied >= inst[i].at)
    <2> DEFINE r == [inst[i] EXCEPT !.loop = "rest", !.about = None, !.at = 0]
    <2>1. inst[i].status = "cancelled" /\ inst' = [inst EXCEPT ![i] = r]
        BY <1>6 DEF FireReturns
    <2>2. /\ r \in InstRec /\ r.status = "cancelled" /\ r.applied = inst[i].applied
          /\ r.loop = "rest"
        BY <1>3, <2>1 DEF InstRec
    <2> HIDE DEF r
    <2>3. \A k \in Consumed : Caught(r, k)
        BY <2>2 DEF Caught
    <2>4. ~overlap' => \A j \in Instance \ {i} : inst[j].loop = "ended"
        BY <1>2, Running
    <2> QED BY <1>2, <1>3, <1>4, <2>1, <2>2, <2>3, <2>4, InstanceMoves
<1> QED BY <1>5, <1>6

LEMMA LoopEndsStep ==
    ASSUME LInv, NEW i \in Instance, LoopEnds(i)
    PROVE  LInv'
<1> DEFINE ended == [inst[i] EXCEPT !.loop = "ended", !.kick = FALSE]
           r == IF Held(i) THEN ended ELSE Dead
<1>1. TInv
    BY DEF LInv
<1>2. /\ inst[i].loop = "rest" /\ inst[i].status = "cancelled"
      /\ inst' = [inst EXCEPT ![i] = r]
      /\ UNCHANGED <<durable, nets, task, closing, touched, closings, faults, crashed, abandoned,
                     overlap>>
    BY DEF LoopEnds
<1>3. inst[i] \in InstRec /\ inst[i].applied <= Len(log) /\ Len(log) \in Nat /\ overlap \in BOOLEAN
    BY <1>1, InstFields, LogFields DEF TInv, Types
<1>4. /\ ended \in InstRec /\ ended.status = "cancelled" /\ ended.loop = "ended"
      /\ ended.applied = inst[i].applied
    BY <1>2, <1>3 DEF InstRec
<1> HIDE DEF ended
<1>5. /\ r \in InstRec /\ r.status \in {"none", "cancelled"} /\ r.loop = "ended"
      /\ r.applied <= Len(log)
    BY <1>3, <1>4, Constants
<1> HIDE DEF r
<1> QED BY <1>2, <1>3, <1>5, InstanceMoves

\* A firing, successful or not, is published by the one loop that runs: no
\* event consumed this token before.
LEMMA Fires ==
    ASSUME LInv, NEW i \in Instance, inst[i].loop = "fire", NEW kind \in {"Fired", "Failed"},
           log' = Append(log, [kind |-> kind, about |-> inst[i].about]),
           NEW r \in InstRec, inst' = [inst EXCEPT ![i] = r],
           r.loop \in {"wait", "ended"}, r.loop = "wait" => r.at = Len(log) + 1,
           r.applied = inst[i].applied, r.status \in {inst[i].status, "cancelled"},
           closings' \in Nat, faults' \in Nat,
           UNCHANGED <<meta, snapshot, queue, dlq, nets, task, closing, touched, crashed, abandoned,
                       overlap>>
    PROVE  LInv'
<1> DEFINE e == [kind |-> kind, about |-> inst[i].about]
<1>1. TInv /\ Accounted /\ Builders /\ Single
    BY DEF LInv
<1>2. inst[i].about \in Message /\ inst[i].applied \in Nat /\ inst[i].applied <= Len(log)
    BY <1>1, InstFields
<1>3. e \in LogEvent /\ e.kind \in {"Fired", "Failed"} /\ e.about = inst[i].about
    BY <1>2, EventOf
<1> HIDE DEF e
<1>4. log' = Append(log, e)
    BY DEF e
<1>5. /\ log' \in Seq(LogEvent) /\ Len(log) \in Nat /\ Len(log') = Len(log) + 1
      /\ DOMAIN log = 1..Len(log) /\ DOMAIN log' = 1..(Len(log) + 1)
      /\ log'[Len(log) + 1] = e /\ \A k \in 1..Len(log) : log'[k] = log[k]
    BY <1>1, <1>3, <1>4, LogFields, Appended
<1>6. Len(log)' \in Nat /\ Len(log) <= Len(log)'
    BY <1>5
<1>7. /\ inst' \in [Instance -> InstRec] /\ Aimed' /\ Within'
      /\ inst'[i] = r /\ \A j \in Instance \ {i} : inst'[j] = inst[j]
    BY <1>1, <1>2, <1>6, InstChanges
<1>8. TInv'
    BY <1>1, <1>5, <1>7 DEF TInv, Types, Holding, Grasping
<1>9. Accounted'
    BY <1>1, <1>7, AccountedKeep
<1>10. Builders'
    <2>1. \A n \in Message : task[n].at = "insert" =>
             inst'[task[n].inst].status = "building" /\ inst'[task[n].inst].loop = "ended"
        BY <1>1, <1>7, TaskFields DEF Builders
    <2> QED BY <1>1, <2>1, BuildersKeep
<1>11. Single'
    <2>1. CASE overlap
        BY <2>1 DEF Single
    <2>2. CASE ~overlap
        <3>1. /\ \A j \in Instance \ {i} : inst[j].loop = "ended"
              /\ \A k \in Consumed : Caught(inst[i], k)
              /\ Fired(inst[i].about) = {}
              /\ Once
            BY <2>2, Running
        <3>2. Consumed' = Consumed \cup {Len(log) + 1}
            BY <1>3, <1>5 DEF Consumed
        <3>3. \A m \in Message : m # inst[i].about => Fired(m)' = Fired(m)
            BY <1>3, <1>5 DEF Fired
        <3>4. ASSUME NEW m \in Message, m = inst[i].about
              PROVE  Fired(m)' = {Len(log) + 1}
            <4>1. \A k \in 1..Len(log) : ~(log[k].kind \in {"Fired", "Failed"} /\ log[k].about = m)
                BY <1>5, <3>1, <3>4 DEF Fired
            <4> QED BY <1>3, <1>5, <3>4, <4>1 DEF Fired
        <3>5. Alone'
            BY <1>7, <3>1 DEF Alone
        <3>6. CaughtUp'
            <4> SUFFICES ASSUME NEW j \in Instance, NEW k \in Consumed' PROVE Caught(inst'[j], k)
                BY DEF CaughtUp, Caught
            <4>1. CASE j # i
                BY <1>7, <3>1, <4>1 DEF Caught
            <4>2. CASE j = i /\ k = Len(log) + 1
                BY <1>7, <4>2 DEF Caught
            <4>3. CASE j = i /\ k \in Consumed
                <5>1. Caught(inst[i], k)
                    BY <3>1, <4>3
                <5>2. k <= inst[i].applied
                    BY <5>1 DEF Caught
                <5> QED BY <1>7, <4>3, <5>2 DEF Caught
            <4> QED BY <3>2, <4>1, <4>2, <4>3
        <3>7. Fresh'
            <4> SUFFICES ASSUME NEW j \in Instance PROVE inst'[j].loop # "fire"
                BY DEF Fresh
            <4> QED BY <1>7, <3>1
        <3>8. Once'
            <4> SUFFICES ASSUME NEW m \in Message, NEW k \in Fired(m)', NEW l \in Fired(m)'
                         PROVE  k = l
                BY DEF Once
            <4>1. CASE m = inst[i].about
                <5>1. Fired(m)' = {Len(log) + 1}
                    BY <3>4, <4>1
                <5> QED BY <5>1
            <4>2. CASE m # inst[i].about
                BY <3>1, <3>3, <4>2 DEF Once
            <4> QED BY <4>1, <4>2
        <3> QED BY <3>5, <3>6, <3>7, <3>8 DEF Single
    <2> QED BY <2>1, <2>2
<1> QED BY <1>8, <1>9, <1>10, <1>11 DEF LInv

LEMMA FireStep ==
    ASSUME LInv, NEW i \in Instance, Fire(i)
    PROVE  LInv'
<1> DEFINE at == Len(log) + 1
           r == [inst[i] EXCEPT !.loop = "wait", !.at = at]
<1>1. TInv
    BY DEF LInv
<1>2. /\ inst[i].loop = "fire" /\ log' = Append(log, [kind |-> "Fired", about |-> inst[i].about])
      /\ inst' = [inst EXCEPT ![i] = r]
      /\ UNCHANGED <<meta, snapshot, queue, dlq, nets, task, closing, touched, closings, faults, crashed,
                     abandoned, overlap>>
    BY DEF Fire
<1>3. inst[i] \in InstRec /\ at \in Nat /\ closings \in Nat /\ faults \in Nat
    BY <1>1, InstFields, LogFields DEF TInv, Types
<1>4. at = Len(log) + 1
    OBVIOUS
<1> HIDE DEF at
<1>5. /\ r \in InstRec /\ r.loop = "wait" /\ r.at = at
      /\ r.applied = inst[i].applied /\ r.status = inst[i].status
    BY <1>3 DEF InstRec
<1> HIDE DEF r
<1> QED BY <1>2, <1>3, <1>4, <1>5, Fires

LEMMA FailStep ==
    ASSUME LInv, NEW i \in Instance, Fail(i)
    PROVE  LInv'
<1> DEFINE r == [inst[i] EXCEPT !.loop = "ended", !.status = "cancelled", !.about = None]
<1>1. TInv
    BY DEF LInv
<1>2. /\ inst[i].loop = "fire" /\ log' = Append(log, [kind |-> "Failed", about |-> inst[i].about])
      /\ inst' = [inst EXCEPT ![i] = r]
      /\ UNCHANGED <<meta, snapshot, queue, dlq, nets, task, closing, touched, closings, crashed,
                     abandoned, overlap>>
      /\ faults > 0 /\ faults' = faults - 1
    BY DEF Fail, Fault
<1>3. inst[i] \in InstRec /\ closings \in Nat /\ faults' \in Nat
    BY <1>1, <1>2, InstFields DEF TInv, Types
<1>4. /\ r \in InstRec /\ r.loop = "ended" /\ r.status = "cancelled"
      /\ r.applied = inst[i].applied
    BY <1>3 DEF InstRec
<1> HIDE DEF r
<1> QED BY <1>2, <1>3, <1>4, Fires

-----------------------------------------------------------------------------
(***************************************************************************)
(* The closers.                                                            *)
(***************************************************************************)
\* A closer moves, and nothing happens to the loops: what there is to show.
LEMMA CloserMoves ==
    ASSUME LInv, NEW c \in Closer, NEW r \in ClosingRec, closing' = [closing EXCEPT ![c] = r],
           r.inst \in Instance <=> r.at \in {"wait", "snapshot", "cancel"},
           r.inst \in {closing[c].inst, nets, None},
           UNCHANGED <<meta, queue, dlq, inst, task, crashed, overlap>>,
           snapshot' \in Nat \cup {None}, touched' \in BOOLEAN, closings' \in Nat, faults' \in Nat,
           \/ UNCHANGED log
           \/ log' = Append(log, [kind |-> "Cancelled", about |-> None]),
           \/ nets' = nets
           \/ nets' = None /\ (nets \in Instance => r.inst = nets /\ r.at # "wait"),
           abandoned \subseteq abandoned', abandoned' \subseteq Instance,
           closing[c].inst \in Instance /\ closing[c].at # "wait" =>
              \/ closing[c].inst \in abandoned'
              \/ r.inst = closing[c].inst /\ r.at # "wait"
    PROVE  LInv'
<1>1. TInv /\ Accounted /\ Builders /\ Single
    BY DEF LInv
<1>2. /\ closing' \in [Closer -> ClosingRec] /\ Grasping'
      /\ closing'[c] = r /\ \A d \in Closer \ {c} : closing'[d] = closing[d]
    BY <1>1, ClosingChanges
<1>3. log' \in Seq(LogEvent) /\ Aimed' /\ Within' /\ Single'
    <2>1. CASE UNCHANGED log
        BY <1>1, <2>1, SingleKeep DEF TInv, Types, Aimed, Within
    <2>2. CASE log' = Append(log, [kind |-> "Cancelled", about |-> None])
        <3> DEFINE e == [kind |-> "Cancelled", about |-> None]
        <3>1. e \in LogEvent /\ e.kind \notin {"Fired", "Failed"} /\ log' = Append(log, e)
            BY <2>2, CancelEvent
        <3> HIDE DEF e
        <3> QED BY <1>1, <3>1, Longer, SingleAppend
    <2> QED BY <2>1, <2>2
<1>4. TInv'
    BY <1>1, <1>2, <1>3 DEF TInv, Types, Holding
<1>5. Accounted'
    <2> SUFFICES ASSUME NEW j \in Instance, inst'[j].status \in {"building", "live"}
                 PROVE  \/ nets' = j
                        \/ j \in abandoned'
                        \/ \E n \in Message : task'[n].at = "insert" /\ task'[n].inst = j
                        \/ \E d \in Closer : closing'[d].at # "wait" /\ closing'[d].inst = j
        BY DEF Accounted
    <2>1. \/ nets = j
          \/ j \in abandoned
          \/ \E n \in Message : task[n].at = "insert" /\ task[n].inst = j
          \/ \E d \in Closer : closing[d].at # "wait" /\ closing[d].inst = j
        BY <1>1 DEF Accounted
    <2>2. CASE nets = j
        BY <1>2, <2>2
    <2>3. CASE \E d \in Closer : closing[d].at # "wait" /\ closing[d].inst = j
        <3>1. PICK d \in Closer : closing[d].at # "wait" /\ closing[d].inst = j
            BY <2>3
        <3>2. CASE d = c
            BY <1>2, <3>1, <3>2
        <3>3. CASE d # c
            BY <1>2, <3>1, <3>3
        <3> QED BY <3>2, <3>3
    <2> QED BY <2>1, <2>2, <2>3
<1>6. Builders'
    <2>1. \A n \in Message : task[n].at = "insert" =>
             inst'[task[n].inst].status = "building" /\ inst'[task[n].inst].loop = "ended"
        BY <1>1 DEF Builders
    <2>2. \A d \in Closer : closing'[d].inst \in {closing[d].inst, nets, None}
        BY <1>2
    <2>3. nets' \in {nets, None}
        OBVIOUS
    <2> QED BY <1>1, <2>1, <2>2, <2>3, BuildersKeep
<1> QED BY <1>3, <1>4, <1>5, <1>6 DEF LInv

\* The types of what a closer's step leaves alone.
LEMMA CloserTypes ==
    ASSUME LInv
    PROVE  /\ TInv /\ snapshot \in Nat \cup {None} /\ nets \in Instance \cup {None}
           /\ touched \in BOOLEAN /\ closings \in Nat /\ faults \in Nat /\ abandoned \subseteq Instance
           /\ Timer \in Closer /\ Http \in Closer /\ None \notin Instance
BY Constants DEF LInv, TInv, Types

LEMMA IdleTimeoutStep ==
    ASSUME LInv, IdleTimeout
    PROVE  LInv'
<1> DEFINE r == [closing[Timer] EXCEPT !.at = "remove"]
<1>1. /\ closing[Timer].at = "armed" /\ closing' = [closing EXCEPT ![Timer] = r]
      /\ UNCHANGED <<durable, nets, inst, task, touched, crashed, abandoned, overlap, faults>>
      /\ closings > 0 /\ closings' = closings - 1
    BY DEF IdleTimeout, Closing
<1>2. closing[Timer] \in ClosingRec /\ closing[Timer].inst \notin Instance
    BY <1>1, CloserTypes, ClosingFields
<1>3. r \in ClosingRec /\ r.at = "remove" /\ r.inst = closing[Timer].inst
    BY <1>2 DEF ClosingRec
<1> HIDE DEF r
<1>4. closings' \in Nat
    BY <1>1, CloserTypes
<1> QED BY <1>1, <1>2, <1>3, <1>4, CloserTypes, CloserMoves DEF durable

LEMMA RemoveIdleStep ==
    ASSUME LInv, RemoveIdle
    PROVE  LInv'
<1> DEFINE r == IF nets = None THEN NotClosing ELSE [at |-> "snapshot", inst |-> nets]
<1>1. /\ closing[Timer].at = "remove" /\ closing' = [closing EXCEPT ![Timer] = r] /\ nets' = None
      /\ UNCHANGED <<durable, inst, task, touched, closings, faults, crashed, abandoned, overlap>>
    BY DEF RemoveIdle
<1>2. closing[Timer].inst \notin Instance
    BY <1>1, CloserTypes, ClosingFields
<1>3. /\ r \in ClosingRec /\ (r.inst \in Instance <=> r.at \in {"wait", "snapshot", "cancel"})
      /\ r.inst = nets /\ r.at # "wait"
    BY CloserTypes, Constants DEF ClosingRec
<1> HIDE DEF r
<1> QED BY <1>1, <1>2, <1>3, CloserTypes, CloserMoves DEF durable

LEMMA WriteSnapshotStep ==
    ASSUME LInv, WriteSnapshot
    PROVE  LInv'
<1> DEFINE r == [closing[Timer] EXCEPT !.at = "cancel"]
<1>1. /\ closing[Timer].at = "snapshot" /\ closing' = [closing EXCEPT ![Timer] = r]
      /\ snapshot' \in {snapshot, inst[closing[Timer].inst].applied}
      /\ UNCHANGED <<log, meta, queue, dlq, nets, inst, task, touched, closings, faults, crashed,
                     abandoned, overlap>>
    BY DEF WriteSnapshot
<1>2. closing[Timer] \in ClosingRec /\ closing[Timer].inst \in Instance
    BY <1>1, CloserTypes, ClosingFields
<1>3. r \in ClosingRec /\ r.at = "cancel" /\ r.inst = closing[Timer].inst
    BY <1>2 DEF ClosingRec
<1> HIDE DEF r
<1>4. snapshot' \in Nat \cup {None}
    BY <1>1, <1>2, CloserTypes, InstFields
<1> QED BY <1>1, <1>2, <1>3, <1>4, CloserTypes, CloserMoves

LEMMA RearmStep ==
    ASSUME LInv, Rearm
    PROVE  LInv'
<1>1. /\ touched' = FALSE /\ closing' = [closing EXCEPT ![Timer] = Armed]
      /\ abandoned' = abandoned \cup ({closing[Timer].inst} \ {None})
      /\ UNCHANGED <<durable, nets, inst, task, closings, faults, crashed, overlap>>
    BY DEF Rearm
<1>2. /\ closing[Timer].inst \in Instance \cup {None}
    BY CloserTypes, ClosingFields
<1>3. abandoned \subseteq abandoned' /\ abandoned' \subseteq Instance
    BY <1>1, <1>2, CloserTypes
<1>4. closing[Timer].inst \in Instance => closing[Timer].inst \in abandoned'
    BY <1>1, CloserTypes
<1> QED BY <1>1, <1>2, <1>3, <1>4, CloserTypes, Constants, CloserMoves DEF durable

LEMMA TerminateStep ==
    ASSUME LInv, Terminate
    PROVE  LInv'
<1> DEFINE r == [at |-> "wait", inst |-> nets]
<1>1. /\ closing[Http].at = "off" /\ nets # None
      /\ log' = Append(log, [kind |-> "Cancelled", about |-> None])
      /\ closing' = [closing EXCEPT ![Http] = r]
      /\ closings > 0 /\ closings' = closings - 1
      /\ UNCHANGED <<meta, snapshot, queue, dlq, nets, inst, task, touched, crashed, abandoned, overlap,
                     faults>>
    BY DEF Terminate, Closing
<1>2. closing[Http].inst \notin Instance
    BY <1>1, CloserTypes, ClosingFields
<1>3. r \in ClosingRec /\ r.at = "wait" /\ r.inst = nets /\ nets \in Instance
    BY <1>1, CloserTypes DEF ClosingRec
<1> HIDE DEF r
<1>4. closings' \in Nat
    BY <1>1, CloserTypes
<1> QED BY <1>1, <1>2, <1>3, <1>4, CloserTypes, CloserMoves

LEMMA RemoveTerminatedStep ==
    ASSUME LInv, RemoveTerminated
    PROVE  LInv'
<1> DEFINE applied == Had(Prefix(closing[Http].inst), {"Cancelled"}) # {}
<1>1. /\ closing[Http].at = "wait"
      /\ UNCHANGED <<log, meta, queue, dlq, inst, task, touched, closings, faults, crashed, abandoned,
                     overlap>>
    BY DEF RemoveTerminated
<1>2. CASE applied /\ nets # None
    <2> DEFINE r == [at |-> "cancel", inst |-> nets]
    <2>1. closing' = [closing EXCEPT ![Http] = r] /\ nets' = None /\ snapshot' = snapshot
        BY <1>2 DEF RemoveTerminated
    <2>2. r \in ClosingRec /\ r.at = "cancel" /\ r.inst = nets /\ nets \in Instance
        BY <1>2, CloserTypes DEF ClosingRec
    <2> HIDE DEF r
    <2> QED BY <1>1, <2>1, <2>2, CloserTypes, CloserMoves
<1>3. CASE ~(applied /\ nets # None)
    <2>1. /\ closing' = [closing EXCEPT ![Http] = NotClosing] /\ nets' = nets
          /\ snapshot' \in {snapshot, None}
        BY <1>3 DEF RemoveTerminated
    <2> QED BY <1>1, <2>1, CloserTypes, Constants, CloserMoves
<1> QED BY <1>2, <1>3

LEMMA CancelTokenStep ==
    ASSUME LInv, NEW c \in Closer, CancelToken(c)
    PROVE  LInv'
<1> DEFINE i == closing[c].inst
           r == [inst[i] EXCEPT !.status = "cancelled"]
<1>1. TInv /\ Accounted /\ Builders /\ Single
    BY DEF LInv
<1>2. /\ closing[c].at = "cancel"
      /\ inst' = [inst EXCEPT ![i] = r]
      /\ closing' = [closing EXCEPT ![c] = NotClosing]
      /\ snapshot' \in {snapshot, None}
      /\ UNCHANGED <<log, meta, queue, dlq, nets, task, touched, closings, faults, crashed, abandoned,
                     overlap>>
    BY DEF CancelToken
<1>3. i \in Instance
    BY <1>1, <1>2, ClosingFields
<1>4. /\ r \in InstRec /\ r.status = "cancelled" /\ r.applied = inst[i].applied
      /\ r.loop = inst[i].loop /\ r.about = inst[i].about /\ r.at = inst[i].at
    BY <1>1, <1>3, InstFields DEF InstRec
<1> HIDE DEF r
<1>5. /\ inst' \in [Instance -> InstRec] /\ Aimed' /\ Within'
      /\ inst'[i] = r /\ \A j \in Instance \ {i} : inst'[j] = inst[j]
    <2>1. Len(log) \in Nat /\ Len(log)' = Len(log)
        BY <1>1, <1>2, LogFields
    <2>2. /\ r.loop = "fire" => r.about \in Message
          /\ r.applied <= Len(log) /\ Len(log)' \in Nat /\ Len(log) <= Len(log)'
        BY <1>1, <1>3, <1>4, <2>1, InstFields
    <2> QED BY <1>1, <1>2, <1>3, <1>4, <2>2, InstChanges
<1>6. /\ closing' \in [Closer -> ClosingRec] /\ Grasping'
      /\ closing'[c] = NotClosing /\ \A d \in Closer \ {c} : closing'[d] = closing[d]
    BY <1>1, <1>2, ClosingChanges, Constants
<1>7. TInv'
    BY <1>1, <1>2, <1>5, <1>6 DEF TInv, Types, Holding
<1>8. Accounted'
    <2> SUFFICES ASSUME NEW j \in Instance, inst'[j].status \in {"building", "live"}
                 PROVE  \/ nets' = j
                        \/ j \in abandoned'
                        \/ \E n \in Message : task'[n].at = "insert" /\ task'[n].inst = j
                        \/ \E d \in Closer : closing'[d].at # "wait" /\ closing'[d].inst = j
        BY DEF Accounted
    <2>1. j # i /\ inst'[j] = inst[j]
        BY <1>4, <1>5
    <2>2. \/ nets = j
          \/ j \in abandoned
          \/ \E n \in Message : task[n].at = "insert" /\ task[n].inst = j
          \/ \E d \in Closer : closing[d].at # "wait" /\ closing[d].inst = j
        BY <1>1, <2>1 DEF Accounted
    <2> QED BY <1>2, <1>6, <2>1, <2>2
<1>9. Builders'
    <2>1. \A n \in Message : task[n].at = "insert" =>
             inst'[task[n].inst].status = "building" /\ inst'[task[n].inst].loop = "ended"
        BY <1>1, <1>5, TaskFields DEF Builders
    <2>2. \A d \in Closer : closing'[d].inst \in {closing[d].inst, nets, None}
        BY <1>6, Constants
    <2> QED BY <1>1, <1>2, <2>1, <2>2, BuildersKeep
<1>10. Single'
    <2>1. ASSUME ~overlap', r.loop # "ended"
          PROVE  /\ \A j \in Instance \ {i} : inst[j].loop = "ended"
                 /\ \A k \in Consumed : Caught(r, k)
                 /\ r.loop = "fire" => Fired(r.about) = {}
        <3>1. /\ \A j \in Instance \ {i} : inst[j].loop = "ended"
              /\ \A k \in Consumed : Caught(inst[i], k)
              /\ inst[i].loop = "fire" => Fired(inst[i].about) = {}
            BY <1>2, <1>3, <1>4, <2>1, Running
        <3>2. \A k \in Consumed : Caught(r, k)
            BY <1>4, <3>1 DEF Caught
        <3> QED BY <1>4, <3>1, <3>2
    <2> QED BY <1>1, <1>2, <1>3, <1>5, <2>1, OneMoves
<1> QED BY <1>7, <1>8, <1>9, <1>10 DEF LInv

-----------------------------------------------------------------------------
(***************************************************************************)
(* The projection, the crash, the initial state.                           *)
(***************************************************************************)
\* What LInv says depends on no more than this.
LEMMA Untouched ==
    ASSUME LInv, meta' \in {"Running", "Failed", "Cancelled"},
           UNCHANGED <<log, snapshot, queue, dlq, nets, inst, task, closing, touched, closings, faults,
                       crashed, abandoned, overlap>>
    PROVE  LInv'
<1>1. TInv /\ Accounted /\ Builders /\ Single
    BY DEF LInv
<1>2. TInv'
    BY <1>1 DEF TInv, Types, Aimed, Holding, Grasping, Within
<1>3. Accounted'
    BY <1>1, AccountedKeep
<1>4. Builders'
    BY <1>1 DEF Builders
<1>5. Single'
    BY <1>1, SingleKeep
<1> QED BY <1>2, <1>3, <1>4, <1>5 DEF LInv

LEMMA ProjectStep ==
    ASSUME LInv, Project
    PROVE  LInv'
BY Untouched DEF Project

LEMMA CrashStep ==
    ASSUME LInv, Crash
    PROVE  LInv'
<1>1. TInv /\ Single
    BY DEF LInv
<1>2. /\ nets' = None /\ inst' = [i \in Instance |-> Dead] /\ task' = [m \in Message |-> NoTask]
      /\ closing' = [c \in Closer |-> IF c = Timer THEN Armed ELSE NotClosing]
      /\ touched' = FALSE /\ abandoned' = {} /\ crashed' = TRUE
      /\ faults > 0 /\ faults' = faults - 1
      /\ UNCHANGED <<log, meta, snapshot, queue, dlq, closings, overlap>>
    BY DEF Crash, Fault, durable
<1>3. /\ inst' \in [Instance -> InstRec]
      /\ \A i \in Instance : inst'[i].loop = "ended" /\ inst'[i].status = "none" /\ inst'[i].applied = 0
    BY <1>2, Constants
<1>4. /\ task' \in [Message -> TaskRec] /\ \A m \in Message : task'[m].at = "idle"
    BY <1>2, Constants
<1>5. /\ closing' \in [Closer -> ClosingRec]
      /\ \A c \in Closer : closing'[c].inst = None /\ closing'[c].at \in {"armed", "off"}
    BY <1>2, Constants
<1>6. Aimed' /\ Holding' /\ Grasping' /\ Within'
    <2>1. Len(log)' \in Nat
        BY <1>1, <1>2, LogFields
    <2> QED BY <1>3, <1>4, <1>5, <2>1, Constants DEF Aimed, Holding, Grasping, Within
<1>7. TInv'
    <2>1. /\ log' \in Seq(LogEvent) /\ meta' \in {"Running", "Failed", "Cancelled"}
          /\ snapshot' \in Nat \cup {None} /\ nets' \in Instance \cup {None}
          /\ queue' \subseteq Message /\ dlq' \subseteq Message
        BY <1>1, <1>2 DEF TInv, Types
    <2>2. touched' \in BOOLEAN /\ crashed' \in BOOLEAN
        BY <1>2
    <2>3. overlap' \in BOOLEAN
        BY <1>1, <1>2 DEF TInv, Types
    <2>4. closings' \in Nat /\ faults' \in Nat /\ abandoned' \subseteq Instance
        BY <1>1, <1>2 DEF TInv, Types
    <2> QED BY <1>3, <1>4, <1>5, <1>6, <2>1, <2>2, <2>3, <2>4 DEF TInv, Types
<1>8. Accounted' /\ Builders'
    BY <1>3, <1>4 DEF Accounted, Builders
<1>9. Single'
    <2>1. Alone' /\ CaughtUp' /\ Fresh'
        BY <1>3 DEF Alone, CaughtUp, Caught, Fresh
    <2>2. Once => Once'
        BY <1>2 DEF Once, Fired
    <2> QED BY <1>1, <1>2, <2>1, <2>2 DEF Single
<1> QED BY <1>7, <1>8, <1>9 DEF LInv

LEMMA InitL == Init => LInv
<1> SUFFICES ASSUME Init PROVE LInv
    OBVIOUS
<1>1. /\ log = << >> /\ meta = "Running" /\ snapshot = None /\ nets = None
      /\ inst = [i \in Instance |-> Dead] /\ task = [m \in Message |-> NoTask]
      /\ closing = [c \in Closer |-> NotClosing] /\ dlq = {} /\ touched = FALSE /\ crashed = FALSE
      /\ abandoned = {} /\ overlap = FALSE
    BY DEF Init
<1>2. queue \subseteq Message /\ closings \in Nat /\ faults \in Nat
    BY BoundAssumption DEF Init
<1>3. /\ inst \in [Instance -> InstRec]
      /\ \A i \in Instance : inst[i].loop = "ended" /\ inst[i].status = "none" /\ inst[i].applied = 0
    BY <1>1, Constants
<1>4. /\ task \in [Message -> TaskRec] /\ \A m \in Message : task[m].at = "idle"
    BY <1>1, Constants
<1>5. /\ closing \in [Closer -> ClosingRec]
      /\ \A c \in Closer : closing[c].inst = None /\ closing[c].at = "off"
    BY <1>1, Constants
<1>6. log \in Seq(LogEvent) /\ Len(log) = 0 /\ DOMAIN log = {}
    BY <1>1
<1>7. Aimed /\ Holding /\ Grasping /\ Within
    BY <1>3, <1>4, <1>5, <1>6, Constants DEF Aimed, Holding, Grasping, Within
<1>8. TInv
    BY <1>1, <1>2, <1>3, <1>4, <1>5, <1>6, <1>7 DEF TInv, Types
<1>9. Accounted /\ Builders
    BY <1>3, <1>4 DEF Accounted, Builders
<1>10. Single
    <2>1. \A m \in Message : Fired(m) = {}
        BY <1>6 DEF Fired
    <2> QED BY <1>3, <2>1 DEF Single, Alone, CaughtUp, Caught, Fresh, Once
<1> QED BY <1>8, <1>9, <1>10 DEF LInv

-----------------------------------------------------------------------------
LEMMA NextL == LInv /\ [Next]_vars => LInv'
<1> SUFFICES ASSUME LInv, [Next]_vars PROVE LInv'
    OBVIOUS
<1>1. ASSUME NEW m \in Message,
             \/ Reject(m) \/ Resolve(m) \/ Build(m) \/ Insert(m) \/ InjectKnown(m) \/ InjectNew(m)
             \/ InjectApplied(m) \/ InjectTimesOut(m)
      PROVE  LInv'
    BY <1>1, RejectStep, ResolveStep, BuildStep, InsertLoses, InsertWins, InjectKnownStep,
       InjectNewStep, InjectAppliedStep, InjectTimesOutStep
<1>2. ASSUME NEW i \in Instance,
             Consume(i) \/ Evaluate(i) \/ Fire(i) \/ FireReturns(i) \/ LoopEnds(i) \/ Fail(i)
      PROVE  LInv'
    BY <1>2, ConsumeStep, EvaluateStep, FireStep, FireReturnsStep, LoopEndsStep, FailStep
<1>3. ASSUME NEW c \in Closer, CancelToken(c)
      PROVE  LInv'
    BY <1>3, CancelTokenStep
<1>4. CASE RemoveIdle \/ WriteSnapshot \/ RemoveTerminated \/ Rearm \/ Project
    BY <1>4, RemoveIdleStep, WriteSnapshotStep, RemoveTerminatedStep, RearmStep, ProjectStep
<1>5. CASE IdleTimeout \/ Terminate \/ Crash
    BY <1>5, IdleTimeoutStep, TerminateStep, CrashStep
<1>6. CASE UNCHANGED vars
    <2>1. meta \in {"Running", "Failed", "Cancelled"}
        BY DEF LInv, TInv, Types
    <2> QED BY <1>6, <2>1, Untouched DEF vars, durable
<1>7. CASE Progress
    BY <1>7, <1>1, <1>2, <1>3, <1>4 DEF Progress
<1> QED BY <1>2, <1>5, <1>6, <1>7 DEF Next

LEMMA AlwaysL == Spec => []LInv
BY InitL, NextL, PTL DEF Spec

\* Type correctness of the lifecycle model.
THEOREM LifecycleTypeCorrect == Spec => []TypeOK
<1>1. LInv => TypeOK
    BY DEF LInv, TInv, Types, TypeOK, InstRec, TaskRec, ClosingRec
<1> QED BY <1>1, AlwaysL, PTL

\* No instance is left behind, whatever races and however many messages, closers
\* and failures there are: get_or_create's loser cancels what it built, hibernate
\* and terminate hold what they removed until they cancel it.
THEOREM NeverOrphaned == Spec => []NoOrphan
<1>1. LInv => NoOrphan
    BY DEF LInv, Accounted, NoOrphan
<1> QED BY <1>1, AlwaysL, PTL

\* Racing creations, redeliveries, failures and crashes never fire a token a
\* second time: for that two instances of the net must have overlapped.
THEOREM FiredTwiceOnlyByOverlap == Spec => []FiredOnceUnlessOverlap
<1>1. LInv => FiredOnceUnlessOverlap
    <2> SUFFICES ASSUME LInv, ~overlap, NEW m \in Message PROVE Cardinality(Fired(m)) <= 1
        BY DEF FiredOnceUnlessOverlap
    <2>1. \A k, l \in Fired(m) : k = l
        BY DEF LInv, Single, Once
    <2>2. CASE Fired(m) = {}
        BY <2>2, FS_EmptySet
    <2>3. CASE Fired(m) # {}
        <3>1. PICK k : Fired(m) = {k}
            BY <2>1, <2>3
        <3> QED BY <3>1, FS_Singleton
    <2> QED BY <2>2, <2>3
<1> QED BY <1>1, AlwaysL, PTL
=============================================================================
