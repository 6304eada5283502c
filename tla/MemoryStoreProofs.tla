------------------------- MODULE MemoryStoreProofs -------------------------
(***************************************************************************)
(* Lemmas about the event log and its bounded store.  The first part is    *)
(* about any function defined by iterating a step: it exists and is        *)
(* unique, by an induction over the naturals stated with sets.  Every fold *)
(* of the event store is an instance.  The second says what the fold over  *)
(* the event log preserves and how it splits.  The third says what the     *)
(* operations of the store do to what its readers see: eviction does       *)
(* nothing, an event pushed is an event more, and a store seeded from a    *)
(* snapshot shows that snapshot.                                           *)
(***************************************************************************)
EXTENDS MemoryEventStore, WellFoundedInduction, TLAPS

(***************************************************************************)
(* A set of naturals with 0 that is closed under successor is Nat.         *)
(***************************************************************************)
LEMMA SetInduction ==
  ASSUME NEW S, S \subseteq Nat, 0 \in S, \A n \in S : n + 1 \in S
  PROVE  S = Nat
<1> DEFINE Less == {ss \in Nat \X Nat : ss[1] < ss[2]}
           Out  == Nat \ S
<1>1. SUFFICES ASSUME Out # {} PROVE FALSE
  OBVIOUS
<1>2. PICK x \in Out : \A y \in Out : ~ (<<y, x>> \in Less)
  <2>1. IsWellFoundedOn(Less, Nat)
    BY NatLessThanWellFounded DEF OpToRel
  <2>2. Out \subseteq Nat
    OBVIOUS
  <2> HIDE DEF Less, Out
  <2> QED BY <2>1, <2>2, <1>1, WFMin
<1>3. x \in Nat /\ x # 0 /\ x - 1 \in Nat
  OBVIOUS
<1>4. x - 1 \in S
  <2>1. SUFFICES ASSUME x - 1 \in Out PROVE FALSE
    BY <1>3
  <2>2. <<x - 1, x>> \in Less
    BY <1>3
  <2> QED BY <2>1, <2>2, <1>2
<1>5. x \in S
  <2>1. (x - 1) + 1 = x
    BY <1>3
  <2> QED BY <1>4, <2>1
<1> QED BY <1>5

(***************************************************************************)
(* A non-empty set of naturals has a least element.                        *)
(***************************************************************************)
LEMMA LeastElement ==
  ASSUME NEW S, S \subseteq Nat, S # {}
  PROVE  \E x \in S : \A y \in S : x <= y
<1> DEFINE Less == {ss \in Nat \X Nat : ss[1] < ss[2]}
<1>1. PICK x \in S : \A y \in S : ~ (<<y, x>> \in Less)
  <2>1. IsWellFoundedOn(Less, Nat)
    BY NatLessThanWellFounded DEF OpToRel
  <2> HIDE DEF Less
  <2> QED BY <2>1, WFMin
<1>2. ASSUME NEW y \in S PROVE x <= y
  <2>1. <<y, x>> \notin Less
    BY <1>1
  <2> QED BY <2>1
<1> QED BY <1>2

(***************************************************************************)
(* A property that holds of 0 and passes from i to i + 1 below n holds on  *)
(* all of 0..n.                                                            *)
(***************************************************************************)
LEMMA IntervalInduction ==
  ASSUME NEW n \in Nat, NEW S, S \subseteq 0..n, 0 \in S,
         \A i \in S : i < n => i + 1 \in S
  PROVE  S = 0..n
<1> DEFINE T == {i \in Nat : i <= n => i \in S}
<1>1. T = Nat
  <2>1. T \subseteq Nat /\ 0 \in T
    OBVIOUS
  <2>2. ASSUME NEW i \in T PROVE i + 1 \in T
    <3>1. i \in Nat /\ (i <= n => i \in S)
      OBVIOUS
    <3>2. ASSUME i + 1 <= n PROVE i + 1 \in S
      BY <3>1, <3>2
    <3> QED BY <3>1, <3>2
  <2> HIDE DEF T
  <2> QED BY <2>1, <2>2, SetInduction
<1>2. ASSUME NEW i \in 0..n PROVE i \in S
  <2>1. i \in T
    BY <1>1
  <2> QED BY <2>1
<1> QED BY <1>2

(***************************************************************************)
(* h is the run of `step' from `init': h[0] = init, h[i] = step of h[i-1]. *)
(***************************************************************************)
IsRun(h, X, init, n, step) ==
    /\ h \in [0..n -> X]
    /\ h[0] = init
    /\ \A i \in 1..n : h[i] = step[<<i, h[i - 1]>>]

(***************************************************************************)
(* Two runs of the same step function are equal.                           *)
(***************************************************************************)
LEMMA RunUnique ==
  ASSUME NEW X, NEW init, NEW n \in Nat, NEW step, NEW h, NEW k,
         IsRun(h, X, init, n, step), IsRun(k, X, init, n, step)
  PROVE  h = k
<1> DEFINE S == {i \in 0..n : h[i] = k[i]}
<1>1. S \subseteq 0..n /\ 0 \in S
  BY DEF IsRun
<1>2. ASSUME NEW i \in S, i < n PROVE i + 1 \in S
  <2>1. i + 1 \in 1..n /\ (i + 1) - 1 = i
    BY <1>2
  <2>2. h[i + 1] = step[<<i + 1, h[i]>>] /\ k[i + 1] = step[<<i + 1, k[i]>>]
    BY <2>1 DEF IsRun
  <2>3. h[i] = k[i] /\ i + 1 \in 0..n
    BY <2>1
  <2> QED BY <2>2, <2>3
<1>3. S = 0..n
  <2> HIDE DEF S
  <2> QED BY <1>1, <1>2, IntervalInduction
<1> QED BY <1>3 DEF IsRun

(***************************************************************************)
(* Every step function on X has a run of every length.                     *)
(***************************************************************************)
LEMMA RunExists ==
  ASSUME NEW X, NEW init \in X, NEW n \in Nat, NEW step \in [(1..n) \X X -> X]
  PROVE  \E h : IsRun(h, X, init, n, step)
<1> DEFINE Partial(h, m) == /\ h \in [0..m -> X]
                            /\ h[0] = init
                            /\ \A i \in 1..m : h[i] = step[<<i, h[i - 1]>>]
           S == {m \in 0..n : \E h : Partial(h, m)}
<1>1. 0 \in S
  <2>1. 0 \in 0..n
    OBVIOUS
  <2>2. Partial([i \in 0..0 |-> init], 0)
    OBVIOUS
  <2>3. \E h : Partial(h, 0)
    <3> HIDE DEF Partial
    <3> QED BY <2>2
  <2> QED BY <2>1, <2>3
<1>2. ASSUME NEW m \in S, m < n PROVE m + 1 \in S
  <2>1. PICK h : Partial(h, m)
    OBVIOUS
  <2>2. m \in Nat /\ m + 1 \in 1..n
    BY <1>2
  <2> DEFINE g == [i \in 0..(m + 1) |-> IF i <= m THEN h[i] ELSE step[<<m + 1, h[m]>>]]
  <2>3. h[m] \in X /\ step[<<m + 1, h[m]>>] \in X
    BY <2>1, <2>2
  <2>4. g \in [0..(m + 1) -> X]
    BY <2>1, <2>2, <2>3
  <2>5. g[0] = init
    BY <2>1, <2>2
  <2>6. ASSUME NEW i \in 1..(m + 1) PROVE g[i] = step[<<i, g[i - 1]>>]
    <3>1. CASE i <= m
      BY <3>1, <2>1, <2>2
    <3>2. CASE i = m + 1
      <4>1. m + 1 \in 0..(m + 1) /\ ~(m + 1 <= m) /\ m \in 0..(m + 1) /\ i - 1 = m
        BY <3>2, <2>2
      <4>2. g[m + 1] = step[<<m + 1, h[m]>>] /\ g[m] = h[m]
        BY <4>1
      <4> QED BY <3>2, <4>1, <4>2
    <3> QED BY <3>1, <3>2, <2>2
  <2>7. Partial(g, m + 1)
    BY <2>4, <2>5, <2>6
  <2> HIDE DEF g
  <2> QED BY <2>2, <2>7
<1>3. S = 0..n
  <2>1. S \subseteq 0..n
    OBVIOUS
  <2> HIDE DEF S
  <2> QED BY <1>1, <1>2, <2>1, IntervalInduction
<1>4. n \in S
  BY <1>3
<1> QED BY <1>4 DEF IsRun

-----------------------------------------------------------------------------
(***************************************************************************)
(* The projection's fold.                                                  *)
(***************************************************************************)
(***************************************************************************)
(* remove_token / update_token look up a real position, or find nothing.   *)
(***************************************************************************)
LEMMA FirstWithIdType ==
  ASSUME NEW tokens \in Seq(Token), NEW id
  PROVE  FirstWithId(tokens, id) \in 0..Len(tokens)
<1> DEFINE hits == {i \in DOMAIN tokens : tokens[i].id = id}
<1>1. hits \subseteq 1..Len(tokens)
  OBVIOUS
<1>2. CASE hits = {}
  BY <1>2 DEF FirstWithId
<1>3. CASE hits # {}
  <2>1. \E i \in hits : \A j \in hits : i <= j
    <3>1. hits \subseteq Nat
      BY <1>1
    <3> HIDE DEF hits
    <3> QED BY <3>1, <1>3, LeastElement
  <2>2. (CHOOSE i \in hits : \A j \in hits : i <= j) \in hits
    <3> HIDE DEF hits
    <3> QED BY <2>1
  <2>3. FirstWithId(tokens, id) = CHOOSE i \in hits : \A j \in hits : i <= j
    BY <1>3 DEF FirstWithId
  <2>4. FirstWithId(tokens, id) \in hits
    BY <2>2, <2>3
  <2>5. Len(tokens) \in Nat
    OBVIOUS
  <2>6. FirstWithId(tokens, id) \in 1..Len(tokens)
    BY <2>4, <1>1
  <2> QED BY <2>5, <2>6
<1> QED BY <1>2, <1>3

LEMMA AddTokenType ==
  ASSUME NEW m \in Marking, NEW p \in Place, NEW t \in Token
  PROVE  AddToken(m, p, t) \in Marking
BY DEF AddToken, Marking

LEMMA RemoveTokenType ==
  ASSUME NEW m \in Marking, NEW p \in Place, NEW id \in TokenId
  PROVE  RemoveToken(m, p, id) \in Marking
<1> DEFINE i == FirstWithId(m[p], id)
<1>1. m[p] \in Seq(Token)
  BY DEF Marking
<1>2. i \in 0..Len(m[p])
  BY <1>1, FirstWithIdType
<1>3. CASE i = 0
  BY <1>1, <1>3 DEF RemoveToken, DropId, Marking
<1>4. CASE i # 0
  <2> DEFINE rest == SubSeq(m[p], 1, i - 1) \o SubSeq(m[p], i + 1, Len(m[p]))
  <2>1. rest \in Seq(Token)
    <3> HIDE DEF i
    <3>1. SubSeq(m[p], 1, i - 1) \in Seq(Token)
      BY <1>1, <1>2, <1>4
    <3>2. SubSeq(m[p], i + 1, Len(m[p])) \in Seq(Token)
      BY <1>1, <1>2, <1>4
    <3> QED BY <3>1, <3>2
  <2>2. RemoveToken(m, p, id) = [m EXCEPT ![p] = rest]
    BY <1>4 DEF RemoveToken, DropId
  <2> HIDE DEF rest
  <2> QED BY <2>1, <2>2 DEF Marking
<1> QED BY <1>3, <1>4

LEMMA UpdateTokenType ==
  ASSUME NEW m \in Marking, NEW p \in Place, NEW id \in TokenId, NEW c \in Color
  PROVE  UpdateToken(m, p, id, c) \in Marking
<1> DEFINE i == FirstWithId(m[p], id)
           t == [id |-> id, color |-> c]
<1>1. m[p] \in Seq(Token) /\ t \in Token
  BY DEF Marking, Token
<1>2. i \in 0..Len(m[p])
  BY <1>1, FirstWithIdType
<1>3. CASE i = 0
  BY <1>1, <1>3 DEF UpdateToken, RecolorId, Marking
<1>4. CASE i # 0
  <2>1. [m[p] EXCEPT ![i] = t] \in Seq(Token)
    <3> HIDE DEF i, t
    <3> QED BY <1>1, <1>2, <1>4
  <2>2. UpdateToken(m, p, id, c) = [m EXCEPT ![p] = [m[p] EXCEPT ![i] = t]]
    BY <1>4 DEF UpdateToken, RecolorId
  <2> HIDE DEF i, t
  <2> QED BY <2>1, <2>2 DEF Marking
<1> QED BY <1>3, <1>4

\* The steps of the folds, as functions of the position and the value so far.
RemoveStep(consumed) ==
    [a \in (1..Len(consumed)) \X Marking |->
        RemoveToken(a[2], consumed[a[1]][1], consumed[a[1]][2])]

AddStep(produced) ==
    [a \in (1..Len(produced)) \X Marking |->
        AddToken(a[2], produced[a[1]][1], produced[a[1]][2])]

ProjectStep(events) ==
    [a \in (1..Len(events)) \X Marking |-> ApplyEvent(a[2], events[a[1]].event)]

(***************************************************************************)
(* The consuming loop of a firing event is a run of its step.              *)
(***************************************************************************)
LEMMA RemoveAllRun ==
  ASSUME NEW m \in Marking, NEW consumed \in ConsumedList
  PROVE  \E h : /\ IsRun(h, Marking, m, Len(consumed), RemoveStep(consumed))
                /\ RemoveAll(m, consumed) = h[Len(consumed)]
<1> DEFINE n == Len(consumed)
           Step(x, i) == RemoveToken(x, consumed[i][1], consumed[i][2])
           Unfold(f) == [i \in 0..n |-> IF i = 0 THEN m ELSE Step(f[i - 1], i)]
           F == CHOOSE f : f = Unfold(f)
<1>1. n \in Nat /\ \A i \in 1..n : consumed[i] \in Place \X TokenId
  BY DEF ConsumedList
<1>2. ASSUME NEW x \in Marking, NEW i \in 1..n PROVE Step(x, i) \in Marking
  BY <1>1, RemoveTokenType
<1>3. RemoveStep(consumed) = [a \in (1..n) \X Marking |-> Step(a[2], a[1])]
  BY DEF RemoveStep
<1> HIDE DEF Step, n
<1>4. RemoveStep(consumed) \in [(1..n) \X Marking -> Marking]
  BY <1>1, <1>2, <1>3
<1>5. PICK h : IsRun(h, Marking, m, n, RemoveStep(consumed))
  BY <1>1, <1>4, RunExists
<1>6. ASSUME NEW i \in 1..n PROVE i - 1 \in 0..n /\ h[i] = Step(h[i - 1], i)
  <2>1. i - 1 \in 0..n
    BY <1>1
  <2>2. h[i - 1] \in Marking /\ h[i] = RemoveStep(consumed)[<<i, h[i - 1]>>]
    BY <1>5, <2>1 DEF IsRun
  <2>3. <<i, h[i - 1]>> \in (1..n) \X Marking
    BY <2>2
  <2> QED BY <1>3, <2>1, <2>2, <2>3
<1>7. h = Unfold(h)
  BY <1>1, <1>5, <1>6 DEF IsRun
<1>8. F = Unfold(F)
  <2> HIDE DEF Unfold
  <2> QED BY <1>7
<1>9. \A i \in 0..n : F[i] = h[i]
  <2> DEFINE S == {i \in 0..n : F[i] = h[i]}
  <2> HIDE DEF F
  <2>1. 0 \in S
    BY <1>1, <1>5, <1>8 DEF IsRun
  <2>2. ASSUME NEW i \in S, i < n PROVE i + 1 \in S
    <3>1. i + 1 \in 1..n /\ i + 1 \in 0..n /\ (i + 1) - 1 = i /\ i + 1 # 0
      BY <1>1, <2>2
    <3>2. F[i + 1] = Step(F[i], i + 1)
      BY <3>1, <1>8
    <3>3. h[i + 1] = Step(h[i], i + 1)
      BY <3>1, <1>6
    <3> QED BY <3>1, <3>2, <3>3
  <2>3. S \subseteq 0..n
    OBVIOUS
  <2> HIDE DEF S
  <2>4. S = 0..n
    BY <1>1, <2>1, <2>2, <2>3, IntervalInduction
  <2> QED BY <2>4 DEF S
<1>10. RemoveAll(m, consumed) = F[n]
  BY DEF RemoveAll, n, Step
<1>11. n \in 0..n
  BY <1>1
<1> HIDE DEF F
<1> QED BY <1>5, <1>9, <1>10, <1>11 DEF n

(***************************************************************************)
(* The producing loop of a firing event is a run of its step.              *)
(***************************************************************************)
LEMMA AddAllRun ==
  ASSUME NEW m \in Marking, NEW produced \in ProducedList
  PROVE  \E h : /\ IsRun(h, Marking, m, Len(produced), AddStep(produced))
                /\ AddAll(m, produced) = h[Len(produced)]
<1> DEFINE n == Len(produced)
           Step(x, i) == AddToken(x, produced[i][1], produced[i][2])
           Unfold(f) == [i \in 0..n |-> IF i = 0 THEN m ELSE Step(f[i - 1], i)]
           F == CHOOSE f : f = Unfold(f)
<1>1. n \in Nat /\ \A i \in 1..n : produced[i] \in Place \X Token
  BY DEF ProducedList
<1>2. ASSUME NEW x \in Marking, NEW i \in 1..n PROVE Step(x, i) \in Marking
  BY <1>1, AddTokenType
<1>3. AddStep(produced) = [a \in (1..n) \X Marking |-> Step(a[2], a[1])]
  BY DEF AddStep
<1> HIDE DEF Step, n
<1>4. AddStep(produced) \in [(1..n) \X Marking -> Marking]
  BY <1>1, <1>2, <1>3
<1>5. PICK h : IsRun(h, Marking, m, n, AddStep(produced))
  BY <1>1, <1>4, RunExists
<1>6. ASSUME NEW i \in 1..n PROVE i - 1 \in 0..n /\ h[i] = Step(h[i - 1], i)
  <2>1. i - 1 \in 0..n
    BY <1>1
  <2>2. h[i - 1] \in Marking /\ h[i] = AddStep(produced)[<<i, h[i - 1]>>]
    BY <1>5, <2>1 DEF IsRun
  <2>3. <<i, h[i - 1]>> \in (1..n) \X Marking
    BY <2>2
  <2> QED BY <1>3, <2>1, <2>2, <2>3
<1>7. h = Unfold(h)
  BY <1>1, <1>5, <1>6 DEF IsRun
<1>8. F = Unfold(F)
  <2> HIDE DEF Unfold
  <2> QED BY <1>7
<1>9. \A i \in 0..n : F[i] = h[i]
  <2> DEFINE S == {i \in 0..n : F[i] = h[i]}
  <2> HIDE DEF F
  <2>1. 0 \in S
    BY <1>1, <1>5, <1>8 DEF IsRun
  <2>2. ASSUME NEW i \in S, i < n PROVE i + 1 \in S
    <3>1. i + 1 \in 1..n /\ i + 1 \in 0..n /\ (i + 1) - 1 = i /\ i + 1 # 0
      BY <1>1, <2>2
    <3>2. F[i + 1] = Step(F[i], i + 1)
      BY <3>1, <1>8
    <3>3. h[i + 1] = Step(h[i], i + 1)
      BY <3>1, <1>6
    <3> QED BY <3>1, <3>2, <3>3
  <2>3. S \subseteq 0..n
    OBVIOUS
  <2> HIDE DEF S
  <2>4. S = 0..n
    BY <1>1, <2>1, <2>2, <2>3, IntervalInduction
  <2> QED BY <2>4 DEF S
<1>10. AddAll(m, produced) = F[n]
  BY DEF AddAll, n, Step
<1>11. n \in 0..n
  BY <1>1
<1> HIDE DEF F
<1> QED BY <1>5, <1>9, <1>10, <1>11 DEF n

LEMMA RemoveAllType ==
  ASSUME NEW m \in Marking, NEW consumed \in ConsumedList
  PROVE  RemoveAll(m, consumed) \in Marking
<1>1. PICK h : /\ IsRun(h, Marking, m, Len(consumed), RemoveStep(consumed))
              /\ RemoveAll(m, consumed) = h[Len(consumed)]
  BY RemoveAllRun
<1>2. Len(consumed) \in 0..Len(consumed)
  BY DEF ConsumedList
<1> QED BY <1>1, <1>2 DEF IsRun

LEMMA AddAllType ==
  ASSUME NEW m \in Marking, NEW produced \in ProducedList
  PROVE  AddAll(m, produced) \in Marking
<1>1. PICK h : /\ IsRun(h, Marking, m, Len(produced), AddStep(produced))
              /\ AddAll(m, produced) = h[Len(produced)]
  BY AddAllRun
<1>2. Len(produced) \in 0..Len(produced)
  BY DEF ProducedList
<1> QED BY <1>1, <1>2 DEF IsRun

(***************************************************************************)
(* Every domain event takes a marking to a marking.                        *)
(***************************************************************************)
LEMMA ApplyEventType ==
  ASSUME NEW m \in Marking, NEW e \in DomainEvent
  PROVE  ApplyEvent(m, e) \in Marking
<1>1. CASE e \in TokenCreatedEvent
  BY <1>1, AddTokenType DEF ApplyEvent, TokenCreatedEvent, FiringKind
<1>2. CASE e \in FiringEvent
  BY <1>2, AddAllType, RemoveAllType DEF ApplyEvent, FiringEvent, FiringKind
<1>3. CASE e \in TokenGoneEvent
  BY <1>3, RemoveTokenType DEF ApplyEvent, TokenGoneEvent, FiringKind
<1>4. CASE e \in TokenUpdatedEvent
  BY <1>4, UpdateTokenType DEF ApplyEvent, TokenUpdatedEvent, FiringKind
<1>5. CASE e \in EffectFailedEvent
  BY <1>5, AddAllType, RemoveAllType DEF ApplyEvent, EffectFailedEvent, FiringKind
<1>6. CASE e \in AuditEvent
  BY <1>6 DEF ApplyEvent, AuditEvent, FiringKind
<1> QED BY <1>1, <1>2, <1>3, <1>4, <1>5, <1>6 DEF DomainEvent

(***************************************************************************)
(* project_onto is a run of ApplyEvent.                                    *)
(***************************************************************************)
LEMMA ProjectOntoRun ==
  ASSUME NEW m \in Marking, NEW events, NEW PE, events \in Seq(PE),
         \A pe \in PE : pe.event \in DomainEvent
  PROVE  \E h : /\ IsRun(h, Marking, m, Len(events), ProjectStep(events))
                /\ ProjectOnto(m, events) = h[Len(events)]
<1> DEFINE n == Len(events)
           Step(x, i) == ApplyEvent(x, events[i].event)
           Unfold(f) == [i \in 0..n |-> IF i = 0 THEN m ELSE Step(f[i - 1], i)]
           F == CHOOSE f : f = Unfold(f)
<1>1. n \in Nat /\ \A i \in 1..n : events[i].event \in DomainEvent
  OBVIOUS
<1>2. ASSUME NEW x \in Marking, NEW i \in 1..n PROVE Step(x, i) \in Marking
  BY <1>1, ApplyEventType
<1>3. ProjectStep(events) = [a \in (1..n) \X Marking |-> Step(a[2], a[1])]
  BY DEF ProjectStep
<1> HIDE DEF Step, n
<1>4. ProjectStep(events) \in [(1..n) \X Marking -> Marking]
  BY <1>1, <1>2, <1>3
<1>5. PICK h : IsRun(h, Marking, m, n, ProjectStep(events))
  BY <1>1, <1>4, RunExists
<1>6. ASSUME NEW i \in 1..n PROVE i - 1 \in 0..n /\ h[i] = Step(h[i - 1], i)
  <2>1. i - 1 \in 0..n
    BY <1>1
  <2>2. h[i - 1] \in Marking /\ h[i] = ProjectStep(events)[<<i, h[i - 1]>>]
    BY <1>5, <2>1 DEF IsRun
  <2>3. <<i, h[i - 1]>> \in (1..n) \X Marking
    BY <2>2
  <2> QED BY <1>3, <2>1, <2>2, <2>3
<1>7. h = Unfold(h)
  BY <1>1, <1>5, <1>6 DEF IsRun
<1>8. F = Unfold(F)
  <2> HIDE DEF Unfold
  <2> QED BY <1>7
<1>9. \A i \in 0..n : F[i] = h[i]
  <2> DEFINE S == {i \in 0..n : F[i] = h[i]}
  <2> HIDE DEF F
  <2>1. 0 \in S
    BY <1>1, <1>5, <1>8 DEF IsRun
  <2>2. ASSUME NEW i \in S, i < n PROVE i + 1 \in S
    <3>1. i + 1 \in 1..n /\ i + 1 \in 0..n /\ (i + 1) - 1 = i /\ i + 1 # 0
      BY <1>1, <2>2
    <3>2. F[i + 1] = Step(F[i], i + 1)
      BY <3>1, <1>8
    <3>3. h[i + 1] = Step(h[i], i + 1)
      BY <3>1, <1>6
    <3> QED BY <3>1, <3>2, <3>3
  <2>3. S \subseteq 0..n
    OBVIOUS
  <2> HIDE DEF S
  <2>4. S = 0..n
    BY <1>1, <2>1, <2>2, <2>3, IntervalInduction
  <2> QED BY <2>4 DEF S
<1>10. ProjectOnto(m, events) = F[n]
  BY DEF ProjectOnto, n, Step
<1>11. n \in 0..n
  BY <1>1
<1> HIDE DEF F
<1> QED BY <1>5, <1>9, <1>10, <1>11 DEF n

(***************************************************************************)
(* The value of the fold is the last value of any run of its step.         *)
(***************************************************************************)
LEMMA ProjectOntoIs ==
  ASSUME NEW m \in Marking, NEW events, NEW PE, events \in Seq(PE),
         \A ev \in PE : ev.event \in DomainEvent,
         NEW h, IsRun(h, Marking, m, Len(events), ProjectStep(events))
  PROVE  ProjectOnto(m, events) = h[Len(events)]
<1>1. PICK k : /\ IsRun(k, Marking, m, Len(events), ProjectStep(events))
              /\ ProjectOnto(m, events) = k[Len(events)]
  BY ProjectOntoRun
<1>2. Len(events) \in Nat
  OBVIOUS
<1>3. h = k
  BY <1>1, <1>2, RunUnique
<1> QED BY <1>1, <1>3

LEMMA ProjectOntoType ==
  ASSUME NEW m \in Marking, NEW events, NEW PE, events \in Seq(PE),
         \A ev \in PE : ev.event \in DomainEvent
  PROVE  ProjectOnto(m, events) \in Marking
<1>1. PICK h : /\ IsRun(h, Marking, m, Len(events), ProjectStep(events))
              /\ ProjectOnto(m, events) = h[Len(events)]
  BY ProjectOntoRun
<1>2. Len(events) \in 0..Len(events)
  OBVIOUS
<1> QED BY <1>1, <1>2 DEF IsRun

LEMMA ProjectOntoEmpty ==
  ASSUME NEW m \in Marking
  PROVE  ProjectOnto(m, << >>) = m
<1> DEFINE h == [i \in 0..0 |-> m]
<1> DEFINE none == {}
<1>1. << >> \in Seq(none) /\ Len(<< >>) = 0 /\ \A ev \in none : ev.event \in DomainEvent
  OBVIOUS
<1>2. IsRun(h, Marking, m, Len(<< >>), ProjectStep(<< >>))
  BY <1>1 DEF IsRun
<1>3. ProjectOnto(m, << >>) = h[Len(<< >>)]
  <2> HIDE DEF h, none
  <2> QED BY <1>1, <1>2, ProjectOntoIs
<1> QED BY <1>1, <1>3

(***************************************************************************)
(* One more event at the end of the log is one more step of the fold.      *)
(***************************************************************************)
LEMMA ProjectOntoAppend ==
  ASSUME NEW m \in Marking, NEW events, NEW PE, events \in Seq(PE),
         \A ev \in PE : ev.event \in DomainEvent, NEW pe \in PE
  PROVE  ProjectOnto(m, Append(events, pe)) = ApplyEvent(ProjectOnto(m, events), pe.event)
<1> DEFINE n == Len(events)
           more == Append(events, pe)
<1>1. PICK h : /\ IsRun(h, Marking, m, n, ProjectStep(events))
              /\ ProjectOnto(m, events) = h[n]
  BY ProjectOntoRun
<1>2. n \in Nat /\ more \in Seq(PE) /\ Len(more) = n + 1 /\ more[n + 1] = pe
      /\ \A i \in 1..n : more[i] = events[i]
  OBVIOUS
<1> DEFINE g == [i \in 0..(n + 1) |-> IF i <= n THEN h[i] ELSE ApplyEvent(h[n], pe.event)]
<1> HIDE DEF n, more
<1>3. \A i \in 0..n : h[i] \in Marking
  BY <1>1 DEF IsRun
<1>4. ApplyEvent(h[n], pe.event) \in Marking
  BY <1>2, <1>3, ApplyEventType
<1>5. g \in [0..(n + 1) -> Marking] /\ g[0] = m
  BY <1>1, <1>2, <1>3, <1>4 DEF IsRun
<1>6. ASSUME NEW i \in 1..(n + 1) PROVE g[i] = ProjectStep(more)[<<i, g[i - 1]>>]
  <2>1. i - 1 \in 0..n /\ g[i - 1] = h[i - 1] /\ h[i - 1] \in Marking
    BY <1>2, <1>3
  <2>2. <<i, h[i - 1]>> \in (1..(n + 1)) \X Marking
    BY <2>1
  <2>3. ProjectStep(more)[<<i, h[i - 1]>>] = ApplyEvent(h[i - 1], more[i].event)
    BY <1>2, <2>2 DEF ProjectStep
  <2>4. CASE i <= n
    <3>1. i \in 1..n /\ i \in 0..(n + 1)
      BY <1>2, <2>4
    <3>2. <<i, h[i - 1]>> \in (1..n) \X Marking
      BY <2>1, <3>1
    <3>3. ProjectStep(events)[<<i, h[i - 1]>>] = ApplyEvent(h[i - 1], events[i].event)
      BY <3>2 DEF ProjectStep, n
    <3>4. h[i] = ProjectStep(events)[<<i, h[i - 1]>>]
      BY <1>1, <3>1 DEF IsRun
    <3>5. g[i] = h[i]
      BY <3>1, <2>4
    <3>6. more[i] = events[i]
      BY <1>2, <3>1
    <3> QED BY <2>1, <2>3, <3>3, <3>4, <3>5, <3>6
  <2>5. CASE i = n + 1
    <3>1. i - 1 = n /\ i \in 0..(n + 1) /\ ~(i <= n)
      BY <1>2, <2>5
    <3>2. g[i] = ApplyEvent(h[n], pe.event)
      BY <3>1
    <3> QED BY <1>2, <2>1, <2>3, <2>5, <3>1, <3>2
  <2> QED BY <1>2, <2>4, <2>5
<1>7. IsRun(g, Marking, m, Len(more), ProjectStep(more))
  BY <1>2, <1>5, <1>6 DEF IsRun
<1>8. ProjectOnto(m, more) = g[n + 1]
  <2> HIDE DEF g
  <2> QED BY <1>2, <1>7, ProjectOntoIs
<1>9. g[n + 1] = ApplyEvent(h[n], pe.event)
  BY <1>2
<1> QED BY <1>1, <1>8, <1>9 DEF more

(***************************************************************************)
(* Folding the oldest event into the base first changes nothing.           *)
(***************************************************************************)
LEMMA ProjectOntoCons ==
  ASSUME NEW m \in Marking, NEW events, NEW PE, events \in Seq(PE),
         \A ev \in PE : ev.event \in DomainEvent, events # << >>
  PROVE  ProjectOnto(ApplyEvent(m, Head(events).event), Tail(events)) = ProjectOnto(m, events)
<1> DEFINE n == Len(events)
           less == Tail(events)
           first == ApplyEvent(m, Head(events).event)
<1>1. PICK h : /\ IsRun(h, Marking, m, n, ProjectStep(events))
              /\ ProjectOnto(m, events) = h[n]
  BY ProjectOntoRun
<1>2. n \in Nat /\ n >= 1 /\ less \in Seq(PE) /\ Len(less) = n - 1
      /\ Head(events) = events[1] /\ Head(events) \in PE
  OBVIOUS
<1>3. \A i \in 1..(n - 1) : less[i] = events[i + 1]
  OBVIOUS
<1> DEFINE g == [i \in 0..(n - 1) |-> h[i + 1]]
<1> HIDE DEF n, less
<1>4. ASSUME NEW i \in 1..n
      PROVE  i - 1 \in 0..n /\ h[i - 1] \in Marking /\ h[i] = ApplyEvent(h[i - 1], events[i].event)
  <2>1. i - 1 \in 0..n
    BY <1>2
  <2>2. h[i - 1] \in Marking /\ h[i] = ProjectStep(events)[<<i, h[i - 1]>>]
    BY <1>1, <2>1 DEF IsRun
  <2>3. <<i, h[i - 1]>> \in (1..n) \X Marking
    BY <2>2
  <2>4. ProjectStep(events)[<<i, h[i - 1]>>] = ApplyEvent(h[i - 1], events[i].event)
    BY <2>3 DEF ProjectStep, n
  <2> QED BY <2>1, <2>2, <2>4
<1>5. first \in Marking
  BY <1>2, ApplyEventType
<1>6. h[1] = first /\ h[0] = m
  <2>1. 1 \in 1..n /\ 1 - 1 = 0
    BY <1>2
  <2>2. h[0] = m
    BY <1>1 DEF IsRun
  <2> QED BY <1>2, <1>4, <2>1, <2>2
<1> HIDE DEF first
<1>7. g \in [0..(n - 1) -> Marking] /\ g[0] = first
  <2>1. \A i \in 0..(n - 1) : i + 1 \in 0..n /\ h[i + 1] \in Marking
    BY <1>1, <1>2 DEF IsRun
  <2>2. 0 \in 0..(n - 1) /\ 0 + 1 = 1
    BY <1>2
  <2> QED BY <1>6, <2>1, <2>2
<1>8. ASSUME NEW i \in 1..(n - 1) PROVE g[i] = ProjectStep(less)[<<i, g[i - 1]>>]
  <2>1. i + 1 \in 1..n /\ (i + 1) - 1 = i /\ i - 1 \in 0..(n - 1) /\ i \in 0..(n - 1)
        /\ (i - 1) + 1 = i
    BY <1>2
  <2>2. g[i] = h[i + 1] /\ g[i - 1] = h[i]
    BY <2>1
  <2>3. h[i] \in Marking /\ h[i + 1] = ApplyEvent(h[i], events[i + 1].event)
    BY <1>4, <2>1
  <2>4. <<i, h[i]>> \in (1..(n - 1)) \X Marking
    BY <2>3
  <2>5. ProjectStep(less)[<<i, h[i]>>] = ApplyEvent(h[i], less[i].event)
    BY <1>2, <2>4 DEF ProjectStep
  <2>6. less[i] = events[i + 1]
    BY <1>3
  <2> QED BY <2>2, <2>3, <2>5, <2>6
<1>9. IsRun(g, Marking, first, Len(less), ProjectStep(less))
  BY <1>2, <1>7, <1>8 DEF IsRun
<1>10. ProjectOnto(first, less) = g[n - 1]
  <2> HIDE DEF g
  <2> QED BY <1>2, <1>5, <1>9, ProjectOntoIs
<1>11. g[n - 1] = h[n]
  BY <1>2
<1> QED BY <1>1, <1>10, <1>11 DEF less, first

-----------------------------------------------------------------------------
(***************************************************************************)
(* The dedup ring stays a sequence of entries under every insertion.       *)
(***************************************************************************)
LEMMA RingInsertType ==
  ASSUME NEW ring \in Seq(RingEntry), NEW entry \in RingEntry
  PROVE  RingInsert(ring, entry) \in Seq(RingEntry)
<1> DEFINE swap == [i \in DOMAIN ring |->
                      IF ring[i].place = entry.place /\ ring[i].dedup = entry.dedup
                      THEN entry ELSE ring[i]]
<1>1. swap \in Seq(RingEntry)
  <2>1. Len(ring) \in Nat /\ DOMAIN ring = 1..Len(ring)
    OBVIOUS
  <2>2. swap \in [1..Len(ring) -> RingEntry]
    BY <2>1
  <2> HIDE DEF swap
  <2> QED BY <2>1, <2>2
<1>2. Append(ring, entry) \in Seq(RingEntry)
  OBVIOUS
<1>3. ASSUME Len(ring) >= RingCap PROVE Append(Tail(ring), entry) \in Seq(RingEntry)
  <2>1. RingCap \in Nat /\ RingCap >= 1
    BY CapAssumption DEF RingCap
  <2>2. ring # << >>
    BY <1>3, <2>1
  <2> QED BY <2>2
<1> HIDE DEF swap
<1>4. RingInsert(ring, entry) \in {swap, Append(ring, entry), Append(Tail(ring), entry)}
      /\ (RingInsert(ring, entry) = Append(Tail(ring), entry) => 
            \/ Len(ring) >= RingCap
            \/ RingInsert(ring, entry) \in {swap, Append(ring, entry)})
  BY DEF RingInsert, swap
<1> QED BY <1>1, <1>2, <1>3, <1>4

LEMMA RememberType ==
  ASSUME NEW ring \in Seq(RingEntry), NEW pe, pe.event \in DomainEvent,
         pe.sequence \in Nat
  PROVE  Remember(ring, pe) \in Seq(RingEntry)
<1>1. CASE pe.event.kind = "TokenCreated" /\ pe.event.dedup # NoDedup
  <2>1. pe.event \in TokenCreatedEvent
    BY <1>1 DEF DomainEvent, FiringEvent, FiringKind, TokenGoneEvent, TokenUpdatedEvent,
                EffectFailedEvent, AuditEvent
  <2>2. [place |-> pe.event.place, dedup |-> pe.event.dedup,
         sequence |-> pe.sequence] \in RingEntry
    BY <1>1, <2>1 DEF TokenCreatedEvent, RingEntry
  <2> QED BY <1>1, <2>2, RingInsertType DEF Remember
<1>2. CASE ~(pe.event.kind = "TokenCreated" /\ pe.event.dedup # NoDedup)
  BY <1>2 DEF Remember
<1> QED BY <1>1, <1>2

RememberStep(events) ==
    [a \in (1..Len(events)) \X Seq(RingEntry) |-> Remember(a[2], events[a[1]])]

(***************************************************************************)
(* The dedup scan of a run of events is a run of Remember.                 *)
(***************************************************************************)
LEMMA RememberAllRun ==
  ASSUME NEW m \in Seq(RingEntry), NEW events, NEW PE, events \in Seq(PE),
         \A ev \in PE : ev.event \in DomainEvent /\ ev.sequence \in Nat
  PROVE  \E h : /\ IsRun(h, Seq(RingEntry), m, Len(events), RememberStep(events))
                /\ RememberAll(m, events) = h[Len(events)]
<1> DEFINE n == Len(events)
           Step(x, i) == Remember(x, events[i])
           Unfold(f) == [i \in 0..n |-> IF i = 0 THEN m ELSE Step(f[i - 1], i)]
           F == CHOOSE f : f = Unfold(f)
<1>1. n \in Nat /\ \A i \in 1..n : events[i] \in PE
  OBVIOUS
<1>2. ASSUME NEW x \in Seq(RingEntry), NEW i \in 1..n PROVE Step(x, i) \in Seq(RingEntry)
  BY <1>1, RememberType
<1>3. RememberStep(events) = [a \in (1..n) \X Seq(RingEntry) |-> Step(a[2], a[1])]
  BY DEF RememberStep
<1> HIDE DEF Step, n
<1>4. RememberStep(events) \in [(1..n) \X Seq(RingEntry) -> Seq(RingEntry)]
  BY <1>1, <1>2, <1>3
<1>5. PICK h : IsRun(h, Seq(RingEntry), m, n, RememberStep(events))
  BY <1>1, <1>4, RunExists
<1>6. ASSUME NEW i \in 1..n PROVE i - 1 \in 0..n /\ h[i] = Step(h[i - 1], i)
  <2>1. i - 1 \in 0..n
    BY <1>1
  <2>2. h[i - 1] \in Seq(RingEntry) /\ h[i] = RememberStep(events)[<<i, h[i - 1]>>]
    BY <1>5, <2>1 DEF IsRun
  <2>3. <<i, h[i - 1]>> \in (1..n) \X Seq(RingEntry)
    BY <2>2
  <2> QED BY <1>3, <2>1, <2>2, <2>3
<1>7. h = Unfold(h)
  BY <1>1, <1>5, <1>6 DEF IsRun
<1>8. F = Unfold(F)
  <2> HIDE DEF Unfold
  <2> QED BY <1>7
<1>9. \A i \in 0..n : F[i] = h[i]
  <2> DEFINE S == {i \in 0..n : F[i] = h[i]}
  <2> HIDE DEF F
  <2>1. 0 \in S
    BY <1>1, <1>5, <1>8 DEF IsRun
  <2>2. ASSUME NEW i \in S, i < n PROVE i + 1 \in S
    <3>1. i + 1 \in 1..n /\ i + 1 \in 0..n /\ (i + 1) - 1 = i /\ i + 1 # 0
      BY <1>1, <2>2
    <3>2. F[i + 1] = Step(F[i], i + 1)
      BY <3>1, <1>8
    <3>3. h[i + 1] = Step(h[i], i + 1)
      BY <3>1, <1>6
    <3> QED BY <3>1, <3>2, <3>3
  <2>3. S \subseteq 0..n
    OBVIOUS
  <2> HIDE DEF S
  <2>4. S = 0..n
    BY <1>1, <2>1, <2>2, <2>3, IntervalInduction
  <2> QED BY <2>4 DEF S
<1>10. RememberAll(m, events) = F[n]
  BY DEF RememberAll, n, Step
<1>11. n \in 0..n
  BY <1>1
<1> HIDE DEF F
<1> QED BY <1>5, <1>9, <1>10, <1>11 DEF n

(***************************************************************************)
(* The value of the fold is the last value of any run of its step.         *)
(***************************************************************************)
LEMMA RememberAllIs ==
  ASSUME NEW m \in Seq(RingEntry), NEW events, NEW PE, events \in Seq(PE),
         \A ev \in PE : ev.event \in DomainEvent /\ ev.sequence \in Nat,
         NEW h, IsRun(h, Seq(RingEntry), m, Len(events), RememberStep(events))
  PROVE  RememberAll(m, events) = h[Len(events)]
<1>1. PICK k : /\ IsRun(k, Seq(RingEntry), m, Len(events), RememberStep(events))
              /\ RememberAll(m, events) = k[Len(events)]
  BY RememberAllRun
<1>2. Len(events) \in Nat
  OBVIOUS
<1>3. h = k
  BY <1>1, <1>2, RunUnique
<1> QED BY <1>1, <1>3

LEMMA RememberAllType ==
  ASSUME NEW m \in Seq(RingEntry), NEW events, NEW PE, events \in Seq(PE),
         \A ev \in PE : ev.event \in DomainEvent /\ ev.sequence \in Nat
  PROVE  RememberAll(m, events) \in Seq(RingEntry)
<1>1. PICK h : /\ IsRun(h, Seq(RingEntry), m, Len(events), RememberStep(events))
              /\ RememberAll(m, events) = h[Len(events)]
  BY RememberAllRun
<1>2. Len(events) \in 0..Len(events)
  OBVIOUS
<1> QED BY <1>1, <1>2 DEF IsRun

LEMMA RememberAllEmpty ==
  ASSUME NEW m \in Seq(RingEntry)
  PROVE  RememberAll(m, << >>) = m
<1> DEFINE h == [i \in 0..0 |-> m]
<1> DEFINE none == {}
<1>1. << >> \in Seq(none) /\ Len(<< >>) = 0 /\ \A ev \in none : ev.event \in DomainEvent /\ ev.sequence \in Nat
  OBVIOUS
<1>2. IsRun(h, Seq(RingEntry), m, Len(<< >>), RememberStep(<< >>))
  BY <1>1 DEF IsRun
<1>3. RememberAll(m, << >>) = h[Len(<< >>)]
  <2> HIDE DEF h, none
  <2> QED BY <1>1, <1>2, RememberAllIs
<1> QED BY <1>1, <1>3

(***************************************************************************)
(* One more event at the end of the log is one more step of the fold.      *)
(***************************************************************************)
LEMMA RememberAllAppend ==
  ASSUME NEW m \in Seq(RingEntry), NEW events, NEW PE, events \in Seq(PE),
         \A ev \in PE : ev.event \in DomainEvent /\ ev.sequence \in Nat, NEW pe \in PE
  PROVE  RememberAll(m, Append(events, pe)) = Remember(RememberAll(m, events), pe)
<1> DEFINE n == Len(events)
           more == Append(events, pe)
<1>1. PICK h : /\ IsRun(h, Seq(RingEntry), m, n, RememberStep(events))
              /\ RememberAll(m, events) = h[n]
  BY RememberAllRun
<1>2. n \in Nat /\ more \in Seq(PE) /\ Len(more) = n + 1 /\ more[n + 1] = pe
      /\ \A i \in 1..n : more[i] = events[i]
  OBVIOUS
<1> DEFINE g == [i \in 0..(n + 1) |-> IF i <= n THEN h[i] ELSE Remember(h[n], pe)]
<1> HIDE DEF n, more
<1>3. \A i \in 0..n : h[i] \in Seq(RingEntry)
  BY <1>1 DEF IsRun
<1>4. Remember(h[n], pe) \in Seq(RingEntry)
  BY <1>2, <1>3, RememberType
<1>5. g \in [0..(n + 1) -> Seq(RingEntry)] /\ g[0] = m
  BY <1>1, <1>2, <1>3, <1>4 DEF IsRun
<1>6. ASSUME NEW i \in 1..(n + 1) PROVE g[i] = RememberStep(more)[<<i, g[i - 1]>>]
  <2>1. i - 1 \in 0..n /\ g[i - 1] = h[i - 1] /\ h[i - 1] \in Seq(RingEntry)
    BY <1>2, <1>3
  <2>2. <<i, h[i - 1]>> \in (1..(n + 1)) \X Seq(RingEntry)
    BY <2>1
  <2>3. RememberStep(more)[<<i, h[i - 1]>>] = Remember(h[i - 1], more[i])
    BY <1>2, <2>2 DEF RememberStep
  <2>4. CASE i <= n
    <3>1. i \in 1..n /\ i \in 0..(n + 1)
      BY <1>2, <2>4
    <3>2. <<i, h[i - 1]>> \in (1..n) \X Seq(RingEntry)
      BY <2>1, <3>1
    <3>3. RememberStep(events)[<<i, h[i - 1]>>] = Remember(h[i - 1], events[i])
      BY <3>2 DEF RememberStep, n
    <3>4. h[i] = RememberStep(events)[<<i, h[i - 1]>>]
      BY <1>1, <3>1 DEF IsRun
    <3>5. g[i] = h[i]
      BY <3>1, <2>4
    <3>6. more[i] = events[i]
      BY <1>2, <3>1
    <3> QED BY <2>1, <2>3, <3>3, <3>4, <3>5, <3>6
  <2>5. CASE i = n + 1
    <3>1. i - 1 = n /\ i \in 0..(n + 1) /\ ~(i <= n)
      BY <1>2, <2>5
    <3>2. g[i] = Remember(h[n], pe)
      BY <3>1
    <3> QED BY <1>2, <2>1, <2>3, <2>5, <3>1, <3>2
  <2> QED BY <1>2, <2>4, <2>5
<1>7. IsRun(g, Seq(RingEntry), m, Len(more), RememberStep(more))
  BY <1>2, <1>5, <1>6 DEF IsRun
<1>8. RememberAll(m, more) = g[n + 1]
  <2> HIDE DEF g
  <2> QED BY <1>2, <1>7, RememberAllIs
<1>9. g[n + 1] = Remember(h[n], pe)
  BY <1>2
<1> QED BY <1>1, <1>8, <1>9 DEF more

(***************************************************************************)
(* Folding the oldest event into the base first changes nothing.           *)
(***************************************************************************)
LEMMA RememberAllCons ==
  ASSUME NEW m \in Seq(RingEntry), NEW events, NEW PE, events \in Seq(PE),
         \A ev \in PE : ev.event \in DomainEvent /\ ev.sequence \in Nat, events # << >>
  PROVE  RememberAll(Remember(m, Head(events)), Tail(events)) = RememberAll(m, events)
<1> DEFINE n == Len(events)
           less == Tail(events)
           first == Remember(m, Head(events))
<1>1. PICK h : /\ IsRun(h, Seq(RingEntry), m, n, RememberStep(events))
              /\ RememberAll(m, events) = h[n]
  BY RememberAllRun
<1>2. n \in Nat /\ n >= 1 /\ less \in Seq(PE) /\ Len(less) = n - 1
      /\ Head(events) = events[1] /\ Head(events) \in PE
  OBVIOUS
<1>3. \A i \in 1..(n - 1) : less[i] = events[i + 1]
  OBVIOUS
<1> DEFINE g == [i \in 0..(n - 1) |-> h[i + 1]]
<1> HIDE DEF n, less
<1>4. ASSUME NEW i \in 1..n
      PROVE  i - 1 \in 0..n /\ h[i - 1] \in Seq(RingEntry) /\ h[i] = Remember(h[i - 1], events[i])
  <2>1. i - 1 \in 0..n
    BY <1>2
  <2>2. h[i - 1] \in Seq(RingEntry) /\ h[i] = RememberStep(events)[<<i, h[i - 1]>>]
    BY <1>1, <2>1 DEF IsRun
  <2>3. <<i, h[i - 1]>> \in (1..n) \X Seq(RingEntry)
    BY <2>2
  <2>4. RememberStep(events)[<<i, h[i - 1]>>] = Remember(h[i - 1], events[i])
    BY <2>3 DEF RememberStep, n
  <2> QED BY <2>1, <2>2, <2>4
<1>5. first \in Seq(RingEntry)
  BY <1>2, RememberType
<1>6. h[1] = first /\ h[0] = m
  <2>1. 1 \in 1..n /\ 1 - 1 = 0
    BY <1>2
  <2>2. h[0] = m
    BY <1>1 DEF IsRun
  <2> QED BY <1>2, <1>4, <2>1, <2>2
<1> HIDE DEF first
<1>7. g \in [0..(n - 1) -> Seq(RingEntry)] /\ g[0] = first
  <2>1. \A i \in 0..(n - 1) : i + 1 \in 0..n /\ h[i + 1] \in Seq(RingEntry)
    BY <1>1, <1>2 DEF IsRun
  <2>2. 0 \in 0..(n - 1) /\ 0 + 1 = 1
    BY <1>2
  <2> QED BY <1>6, <2>1, <2>2
<1>8. ASSUME NEW i \in 1..(n - 1) PROVE g[i] = RememberStep(less)[<<i, g[i - 1]>>]
  <2>1. i + 1 \in 1..n /\ (i + 1) - 1 = i /\ i - 1 \in 0..(n - 1) /\ i \in 0..(n - 1)
        /\ (i - 1) + 1 = i
    BY <1>2
  <2>2. g[i] = h[i + 1] /\ g[i - 1] = h[i]
    BY <2>1
  <2>3. h[i] \in Seq(RingEntry) /\ h[i + 1] = Remember(h[i], events[i + 1])
    BY <1>4, <2>1
  <2>4. <<i, h[i]>> \in (1..(n - 1)) \X Seq(RingEntry)
    BY <2>3
  <2>5. RememberStep(less)[<<i, h[i]>>] = Remember(h[i], less[i])
    BY <1>2, <2>4 DEF RememberStep
  <2>6. less[i] = events[i + 1]
    BY <1>3
  <2> QED BY <2>2, <2>3, <2>5, <2>6
<1>9. IsRun(g, Seq(RingEntry), first, Len(less), RememberStep(less))
  BY <1>2, <1>7, <1>8 DEF IsRun
<1>10. RememberAll(first, less) = g[n - 1]
  <2> HIDE DEF g
  <2> QED BY <1>2, <1>5, <1>9, RememberAllIs
<1>11. g[n - 1] = h[n]
  BY <1>2
<1> QED BY <1>1, <1>10, <1>11 DEF less, first

-----------------------------------------------------------------------------
LEMMA PersistedEvents ==
  \A ev \in PersistedEvent : ev.event \in DomainEvent /\ ev.sequence \in Nat
BY DEF PersistedEvent

LEMMA EmptyMarkingType == EmptyMarking \in Marking
BY DEF EmptyMarking, Marking

LEMMA SizesAreNumbers == ASSUME NEW pe \in PersistedEvent PROVE pe.bytes \in Nat
BY SizeAssumption DEF PersistedEvent

LEMMA StoreWithTail ==
  ASSUME NEW g \in StoreType, NEW t \in Seq(PersistedEvent), NEW b \in Nat
  PROVE  [g EXCEPT !.tail = t, !.tailBytes = b] \in StoreType
BY DEF StoreType

LEMMA StoreWithBase ==
  ASSUME NEW g \in StoreType, NEW t \in Seq(PersistedEvent), NEW b \in Nat,
         NEW m \in Marking, NEW d \in Seq(RingEntry), NEW c \in Nat, NEW h \in Hash
  PROVE  [g EXCEPT !.tail = t, !.tailBytes = b, !.baseMarking = m, !.baseDedup = d,
                   !.baseCount = c, !.baseHash = h] \in StoreType
BY DEF StoreType

(***************************************************************************)
(* One eviction keeps the store well-typed and shows no reader anything:   *)
(* the folded marking, the dedup ring, the chain tip, the length and the   *)
(* write cursors are what they were.                                       *)
(***************************************************************************)
LEMMA EvictOneInvisible ==
  ASSUME NEW g \in StoreType, Len(g.tail) > 1
  PROVE  /\ EvictOne(g) \in StoreType
         /\ SnapshotOf(EvictOne(g)) = SnapshotOf(g)
<1> DEFINE old == Head(g.tail)
           k == EvictOne(g)
<1>1. /\ g.tail \in Seq(PersistedEvent)
      /\ g.baseMarking \in Marking
      /\ g.baseDedup \in Seq(RingEntry)
      /\ g.baseCount \in Nat
      /\ g.tailBytes \in Nat
  BY DEF StoreType
<1>2. g.tail # << >> /\ old \in PersistedEvent /\ Tail(g.tail) \in Seq(PersistedEvent)
      /\ Len(Tail(g.tail)) = Len(g.tail) - 1
  BY <1>1
<1>3. old.event \in DomainEvent /\ old.sequence \in Nat /\ old.bytes \in Nat
      /\ old.hash \in Nat
  BY <1>2, PersistedEvents, SizesAreNumbers DEF PersistedEvent
<1>4. /\ ApplyEvent(g.baseMarking, old.event) \in Marking
      /\ Remember(g.baseDedup, old) \in Seq(RingEntry)
  BY <1>1, <1>3, ApplyEventType, RememberType
<1>5. /\ k = [g EXCEPT !.tail        = Tail(g.tail),
                       !.tailBytes   = IF g.tailBytes >= old.bytes
                                       THEN g.tailBytes - old.bytes ELSE 0,
                       !.baseMarking = ApplyEvent(g.baseMarking, old.event),
                       !.baseDedup   = Remember(g.baseDedup, old),
                       !.baseCount   = g.baseCount + 1,
                       !.baseHash    = old.hash]
  BY DEF EvictOne, StoreType
<1>6. /\ k.tail = Tail(g.tail)
      /\ k.baseMarking = ApplyEvent(g.baseMarking, old.event)
      /\ k.baseDedup = Remember(g.baseDedup, old)
      /\ k.baseCount = g.baseCount + 1
      /\ k.nextSequence = g.nextSequence
      /\ k.streamSeq = g.streamSeq
  BY <1>5 DEF StoreType
<1>7. k \in StoreType
  <2>1. (IF g.tailBytes >= old.bytes THEN g.tailBytes - old.bytes ELSE 0) \in Nat
    BY <1>1, <1>3
  <2>2. old.hash \in Hash
    BY <1>3 DEF Hash
  <2>3. g.baseCount + 1 \in Nat
    BY <1>1
  <2> HIDE DEF old, k
  <2> QED BY <1>2, <1>4, <1>5, <2>1, <2>2, <2>3, StoreWithBase
<1> HIDE DEF k, old
<1>8. FullMarking(k) = FullMarking(g)
  BY <1>1, <1>2, <1>6, PersistedEvents, ProjectOntoCons DEF FullMarking, old
<1>9. FullDedup(k) = FullDedup(g)
  BY <1>1, <1>2, <1>6, PersistedEvents, RememberAllCons DEF FullDedup, old
<1>10. ChainTip(k) = ChainTip(g)
  <2>1. Tail(g.tail) # << >>
    <3> DEFINE rest == Tail(g.tail)
               len  == Len(g.tail)
    <3>1. Len(rest) # 0
      <4>1. len \in Nat /\ len > 1 /\ Len(rest) = len - 1
        BY <1>1, <1>2
      <4> HIDE DEF rest, len
      <4> QED BY <4>1
    <3>2. Len(<< >>) = 0
      OBVIOUS
    <3> QED BY <3>1, <3>2
  <2>2. Tail(g.tail)[Len(g.tail) - 1] = g.tail[Len(g.tail)]
    BY <1>1, <1>2
  <2> QED BY <1>2, <1>6, <2>1, <2>2 DEF ChainTip
<1>11. StoreLen(k) = StoreLen(g)
  <2> DEFINE len  == Len(g.tail)
             base == g.baseCount
  <2>1. len \in Nat /\ base \in Nat
    BY <1>1
  <2>2. StoreLen(k) = (base + 1) + (len - 1) /\ StoreLen(g) = base + len
    BY <1>2, <1>6 DEF StoreLen
  <2> HIDE DEF len, base
  <2> QED BY <2>1, <2>2
<1> QED BY <1>6, <1>7, <1>8, <1>9, <1>10, <1>11 DEF SnapshotOf, k

EvictStep(n, S) == [a \in (1..n) \X S |-> EvictIfOver(a[2])]

(***************************************************************************)
(* A set of stores that no single eviction leaves is not left by the       *)
(* eviction loop of push_tail either.                                      *)
(***************************************************************************)
LEMMA EvictToCapStays ==
  ASSUME NEW S, NEW g \in S, Len(g.tail) \in Nat, \A x \in S : EvictIfOver(x) \in S
  PROVE  EvictToCap(g) \in S
<1> DEFINE n == Len(g.tail)
           Unfold(f) == [i \in 0..n |-> IF i = 0 THEN g ELSE EvictIfOver(f[i - 1])]
           F == CHOOSE f : f = Unfold(f)
<1>1. n \in Nat
  OBVIOUS
<1> HIDE DEF n
<1>2. EvictStep(n, S) \in [(1..n) \X S -> S]
  BY DEF EvictStep
<1>3. PICK h : IsRun(h, S, g, n, EvictStep(n, S))
  BY <1>1, <1>2, RunExists
<1>4. ASSUME NEW i \in 1..n PROVE i - 1 \in 0..n /\ h[i] = EvictIfOver(h[i - 1])
  <2>1. i - 1 \in 0..n
    BY <1>1
  <2>2. h[i - 1] \in S /\ h[i] = EvictStep(n, S)[<<i, h[i - 1]>>]
    BY <1>3, <2>1 DEF IsRun
  <2>3. <<i, h[i - 1]>> \in (1..n) \X S
    BY <2>2
  <2> QED BY <2>1, <2>2, <2>3 DEF EvictStep
<1>5. h = Unfold(h)
  BY <1>1, <1>3, <1>4 DEF IsRun
<1>6. F = Unfold(F)
  <2> HIDE DEF Unfold
  <2> QED BY <1>5
<1>7. \A i \in 0..n : F[i] \in S
  <2> DEFINE R == {i \in 0..n : F[i] \in S}
  <2> HIDE DEF F
  <2>1. 0 \in R
    BY <1>1, <1>6
  <2>2. ASSUME NEW i \in R, i < n PROVE i + 1 \in R
    <3>1. i + 1 \in 0..n /\ (i + 1) - 1 = i /\ i + 1 # 0
      BY <1>1, <2>2
    <3>2. F[i + 1] = EvictIfOver(F[i])
      BY <3>1, <1>6
    <3> QED BY <3>1, <3>2
  <2>3. R \subseteq 0..n
    OBVIOUS
  <2> HIDE DEF R
  <2>4. R = 0..n
    BY <1>1, <2>1, <2>2, <2>3, IntervalInduction
  <2> QED BY <2>4 DEF R
<1>8. EvictToCap(g) = F[n]
  BY DEF EvictToCap, n
<1>9. n \in 0..n
  BY <1>1
<1> HIDE DEF F
<1> QED BY <1>7, <1>8, <1>9

(***************************************************************************)
(* The whole eviction loop of push_tail is invisible as well.              *)
(***************************************************************************)
LEMMA EvictToCapInvisible ==
  ASSUME NEW g \in StoreType
  PROVE  /\ EvictToCap(g) \in StoreType
         /\ SnapshotOf(EvictToCap(g)) = SnapshotOf(g)
<1> DEFINE S == {x \in StoreType : SnapshotOf(x) = SnapshotOf(g)}
<1>1. g \in S /\ Len(g.tail) \in Nat
  BY DEF StoreType
<1>2. ASSUME NEW x \in S PROVE EvictIfOver(x) \in S
  BY EvictOneInvisible DEF EvictIfOver, OverCap
<1>3. EvictToCap(g) \in S
  <2> HIDE DEF S
  <2> QED BY <1>1, <1>2, EvictToCapStays
<1> QED BY <1>3

(***************************************************************************)
(* Pushing an event extends the log the store stands for by that event,    *)
(* whatever is evicted on the way.                                         *)
(***************************************************************************)
LEMMA PushTailExtends ==
  ASSUME NEW g \in StoreType, NEW pe \in PersistedEvent
  PROVE  /\ PushTail(g, pe) \in StoreType
         /\ SnapshotOf(PushTail(g, pe)) =
              [marking      |-> ApplyEvent(FullMarking(g), pe.event),
               dedup        |-> Remember(FullDedup(g), pe),
               lastHash     |-> pe.hash,
               eventCount   |-> StoreLen(g) + 1,
               nextSequence |-> g.nextSequence,
               streamSeq    |-> g.streamSeq]
<1> DEFINE k == [g EXCEPT !.tail = Append(g.tail, pe), !.tailBytes = g.tailBytes + pe.bytes]
<1>1. /\ g.tail \in Seq(PersistedEvent)
      /\ g.baseMarking \in Marking
      /\ g.baseDedup \in Seq(RingEntry)
      /\ g.baseCount \in Nat
      /\ g.tailBytes \in Nat
  BY DEF StoreType
<1>2. PushTail(g, pe) = EvictToCap(k)
  BY DEF PushTail, StoreType
<1>3. pe.bytes \in Nat
  BY SizesAreNumbers
<1>4. k \in StoreType
  <2>1. Append(g.tail, pe) \in Seq(PersistedEvent) /\ g.tailBytes + pe.bytes \in Nat
    BY <1>1, <1>3
  <2> QED BY <2>1, StoreWithTail
<1>5. /\ k.tail = Append(g.tail, pe)
      /\ k.baseMarking = g.baseMarking
      /\ k.baseDedup = g.baseDedup
      /\ k.baseCount = g.baseCount
      /\ k.nextSequence = g.nextSequence
      /\ k.streamSeq = g.streamSeq
  BY DEF StoreType
<1> HIDE DEF k
<1>6. FullMarking(k) = ApplyEvent(FullMarking(g), pe.event)
  BY <1>1, <1>5, PersistedEvents, ProjectOntoAppend DEF FullMarking
<1>7. FullDedup(k) = Remember(FullDedup(g), pe)
  BY <1>1, <1>5, PersistedEvents, RememberAllAppend DEF FullDedup
<1>8. ChainTip(k) = pe.hash /\ StoreLen(k) = StoreLen(g) + 1
  <2> DEFINE longer == Append(g.tail, pe)
  <2>1. longer # << >> /\ Len(longer) = Len(g.tail) + 1 /\ longer[Len(longer)] = pe
        /\ Len(g.tail) \in Nat
    BY <1>1
  <2>2. k.tail = longer
    BY <1>5
  <2> HIDE DEF longer
  <2> QED BY <1>1, <1>5, <2>1, <2>2 DEF ChainTip, StoreLen
<1>9. SnapshotOf(EvictToCap(k)) = SnapshotOf(k) /\ EvictToCap(k) \in StoreType
  BY <1>4, EvictToCapInvisible
<1> QED BY <1>2, <1>5, <1>6, <1>7, <1>8, <1>9 DEF SnapshotOf

LEMMA FullTypes ==
  ASSUME NEW g \in StoreType
  PROVE  SnapshotOf(g) \in SnapshotType
<1>1. /\ g.tail \in Seq(PersistedEvent)
      /\ g.baseMarking \in Marking
      /\ g.baseDedup \in Seq(RingEntry)
      /\ g.baseCount \in Nat
      /\ g.baseHash \in Hash
      /\ g.nextSequence \in Nat
      /\ g.streamSeq \in Nat
  BY DEF StoreType
<1>2. FullMarking(g) \in Marking
  BY <1>1, PersistedEvents, ProjectOntoType DEF FullMarking
<1>3. FullDedup(g) \in Seq(RingEntry)
  BY <1>1, PersistedEvents, RememberAllType DEF FullDedup
<1>4. ChainTip(g) \in Hash
  <2>1. CASE g.tail = << >>
    BY <1>1, <2>1 DEF ChainTip
  <2>2. CASE g.tail # << >>
    <3>1. g.tail[Len(g.tail)] \in PersistedEvent
      BY <1>1, <2>2
    <3> QED BY <2>2, <3>1 DEF ChainTip, PersistedEvent, Hash
  <2> QED BY <2>1, <2>2
<1>5. StoreLen(g) \in Nat
  BY <1>1 DEF StoreLen
<1> QED BY <1>1, <1>2, <1>3, <1>4, <1>5 DEF SnapshotOf, SnapshotType

LEMMA EmptyStoreType == EmptyStore \in StoreType
BY EmptyMarkingType DEF EmptyStore, StoreType, Hash

LEMMA EmptyView ==
  /\ FullMarking(EmptyStore) = EmptyMarking
  /\ FullDedup(EmptyStore) = << >>
  /\ ChainTip(EmptyStore) = None
  /\ StoreLen(EmptyStore) = 0
  /\ EmptyStore.nextSequence = 0
  /\ EmptyStore.streamSeq = 0
<1>1. /\ EmptyStore.tail = << >> /\ EmptyStore.baseMarking = EmptyMarking
      /\ EmptyStore.baseDedup = << >> /\ EmptyStore.baseHash = None
      /\ EmptyStore.baseCount = 0 /\ EmptyStore.nextSequence = 0
      /\ EmptyStore.streamSeq = 0
  BY DEF EmptyStore
<1>2. FullMarking(EmptyStore) = EmptyMarking
  BY <1>1, EmptyMarkingType, ProjectOntoEmpty DEF FullMarking
<1>3. FullDedup(EmptyStore) = << >>
  <2>1. << >> \in Seq(RingEntry)
    OBVIOUS
  <2> QED BY <1>1, <2>1, RememberAllEmpty DEF FullDedup
<1>4. StoreLen(EmptyStore) = 0
  <2>1. Len(<< >>) = 0
    OBVIOUS
  <2> QED BY <1>1, <2>1 DEF StoreLen
<1> QED BY <1>1, <1>2, <1>3, <1>4 DEF ChainTip

LEMMA ReorderingsType ==
  ASSUME NEW ring \in Seq(RingEntry), NEW other \in Reorderings(ring)
  PROVE  other \in Seq(RingEntry)
<1>1. PICK q \in [DOMAIN ring -> DOMAIN ring] : other = [i \in DOMAIN ring |-> ring[q[i]]]
  BY DEF Reorderings
<1>2. Len(ring) \in Nat /\ DOMAIN ring = 1..Len(ring)
  OBVIOUS
<1>3. other \in [1..Len(ring) -> RingEntry]
  BY <1>1, <1>2
<1> QED BY <1>2, <1>3

LEMMA SeededType ==
  ASSUME NEW snap \in SnapshotType, NEW ring \in Seq(RingEntry)
  PROVE  /\ SeededFrom(snap, ring) \in StoreType
         /\ SnapshotOf(SeededFrom(snap, ring)) = [snap EXCEPT !.dedup = ring]
<1> DEFINE g == SeededFrom(snap, ring)
<1>1. g \in StoreType
  BY EmptyStoreType DEF SeededFrom, EmptyStore, StoreType, SnapshotType
<1>2. /\ g.tail = << >>
      /\ g.baseMarking = snap.marking
      /\ g.baseDedup = ring
      /\ g.baseHash = snap.lastHash
      /\ g.baseCount = snap.eventCount
      /\ g.nextSequence = snap.nextSequence
      /\ g.streamSeq = snap.streamSeq
  BY DEF SeededFrom, EmptyStore
<1> HIDE DEF g
<1>3. FullMarking(g) = snap.marking
  BY <1>2, ProjectOntoEmpty DEF FullMarking, SnapshotType
<1>4. FullDedup(g) = ring
  BY <1>2, RememberAllEmpty DEF FullDedup
<1>5. ChainTip(g) = snap.lastHash
  BY <1>2 DEF ChainTip
<1>6. StoreLen(g) = snap.eventCount
  <2>1. Len(<< >>) = 0 /\ snap.eventCount \in Nat
    BY DEF SnapshotType
  <2> QED BY <1>2, <2>1 DEF StoreLen
<1> QED BY <1>1, <1>2, <1>3, <1>4, <1>5, <1>6 DEF SnapshotOf, SnapshotType, g
=============================================================================
