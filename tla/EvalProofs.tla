----------------------------- MODULE EvalProofs -----------------------------
(***************************************************************************)
(* The evaluation of a net under its lock (module EvalLoop): for every     *)
(* topology, every number of HTTP evaluations and marking reads and every  *)
(* outcome of the firings, as long as no unlocked HTTP fire runs beside    *)
(* it; for the memo, no marking read either.                               *)
(***************************************************************************)
EXTENDS EvalLoop, CacheProofs, FiniteSetTheorems

IdsAt(m, p) == {m[p][i].id : i \in DOMAIN m[p]}

Ids(m) == UNION {IdsAt(m, p) : p \in Place}

Apart(m) ==
    /\ \A p \in Place : \A i, j \in DOMAIN m[p] : m[p][i].id = m[p][j].id => i = j
    /\ \A p, q \in Place : p # q => IdsAt(m, p) \cap IdsAt(m, q) = {}

-----------------------------------------------------------------------------
(***************************************************************************)
(* What a firing takes and gives.                                          *)
(***************************************************************************)
LEMMA SeqOfLists ==
  ASSUME NEW S, IsFiniteSet(S)
  PROVE  /\ Cardinality(S) \in Nat
         /\ SeqOf(S) \in [1..Cardinality(S) -> S]
         /\ DOMAIN SeqOf(S) = 1..Cardinality(S)
         /\ \A x \in S : \E i \in DOMAIN SeqOf(S) : SeqOf(S)[i] = x
<1> DEFINE n == Cardinality(S)
           Lists(s) == \A x \in S : \E i \in DOMAIN s : s[i] = x
<1>1. n \in Nat /\ ExistsBijection(1..n, S)
  BY FS_CardinalityType
<1>2. PICK f : f \in Bijection(1..n, S)
  BY <1>1 DEF ExistsBijection
<1>3. f \in [1..n -> S] /\ \A x \in S : \E i \in 1..n : f[i] = x
  BY <1>2 DEF Bijection, Surjection
<1>4. Lists(f)
  BY <1>3
<1>5. SeqOf(S) = CHOOSE s \in [1..n -> S] : Lists(s)
  BY DEF SeqOf
<1> HIDE DEF Lists, n
<1>6. SeqOf(S) \in [1..n -> S] /\ Lists(SeqOf(S))
  BY <1>3, <1>4, <1>5
<1> QED BY <1>1, <1>6 DEF Lists, n

LEMMA ConsumedType ==
  ASSUME NEW t \in Transition, NEW m \in Marking, HasBinding(t, m)
  PROVE  /\ Consumed(t, m) \in ConsumedList
         /\ \A i \in DOMAIN Consumed(t, m) :
               \E p \in Pre[t] : Consumed(t, m)[i] = <<p, Head(m[p]).id>>
         /\ \A p \in Pre[t] :
               \E i \in DOMAIN Consumed(t, m) : Consumed(t, m)[i] = <<p, Head(m[p]).id>>
         /\ \A p \in Pre[t] : p \in Place /\ m[p] \in Seq(Token) /\ m[p] # << >>
                                /\ Head(m[p]) \in Token
<1> DEFINE P == Pre[t]
           s == SeqOf(P)
           n == Cardinality(P)
<1>1. P \subseteq Place /\ IsFiniteSet(P)
  BY TopologyAssumption
<1>2. n \in Nat /\ s \in [1..n -> P] /\ \A p \in P : \E i \in 1..n : s[i] = p
  <2> HIDE DEF P
  <2> QED BY <1>1, SeqOfLists
<1>3. \A p \in P : p \in Place /\ m[p] \in Seq(Token) /\ m[p] # << >> /\ Head(m[p]) \in Token
  BY <1>1 DEF HasBinding, Marking
<1>4. Consumed(t, m) = [i \in 1..n |-> <<s[i], Head(m[s[i]]).id>>]
  BY <1>2 DEF Consumed
<1> HIDE DEF P, s, n
<1>5. \A i \in 1..n : <<s[i], Head(m[s[i]]).id>> \in Place \X TokenId
  BY <1>2, <1>3 DEF Token
<1>6. Consumed(t, m) \in Seq(Place \X TokenId) /\ DOMAIN Consumed(t, m) = 1..n
  BY <1>2, <1>4, <1>5
<1>7. \A i \in 1..n : s[i] \in P /\ Consumed(t, m)[i] = <<s[i], Head(m[s[i]]).id>>
  BY <1>2, <1>4
<1>8. \A i \in 1..n : \E p \in P : Consumed(t, m)[i] = <<p, Head(m[p]).id>>
  BY <1>7
<1>9. \A p \in P : \E i \in 1..n : Consumed(t, m)[i] = <<p, Head(m[p]).id>>
  BY <1>2, <1>7
<1> QED BY <1>3, <1>6, <1>8, <1>9 DEF ConsumedList, P

LEMMA ProducedType ==
  ASSUME NEW t \in Transition, minted \in Nat, Mints(Cardinality(Post[t]))
  PROVE  /\ Produced(t) \in ProducedList
         /\ Len(Produced(t)) = Cardinality(Post[t])
         /\ \A i \in 1..Len(Produced(t)) : Produced(t)[i][2].id = minted + i
         /\ Cardinality(Post[t]) \in Nat
         /\ minted' = minted + Cardinality(Post[t])
<1> DEFINE P == Post[t]
           s == SeqOf(P)
           n == Cardinality(P)
           k == CHOOSE x \in Color : TRUE
<1>1. P \subseteq Place /\ IsFiniteSet(P)
  BY TopologyAssumption
<1>2. n \in Nat /\ s \in [1..n -> P]
  <2> HIDE DEF P
  <2> QED BY <1>1, SeqOfLists
<1>3. k \in Color
  BY PayloadAssumption
<1>4. Produced(t) = [i \in 1..n |-> <<s[i], [id |-> minted + i, color |-> k]>>]
  BY <1>2 DEF Produced
<1>5. 1..(minted + n) \subseteq TokenId /\ minted' = minted + n
  BY DEF Mints
<1> HIDE DEF P, s, n, k
<1>6. \A i \in 1..n : minted + i \in TokenId
  BY <1>2, <1>5
<1>7. \A i \in 1..n : <<s[i], [id |-> minted + i, color |-> k]>> \in Place \X Token
  BY <1>1, <1>2, <1>3, <1>6 DEF Token
<1>8. Produced(t) \in Seq(Place \X Token) /\ Len(Produced(t)) = n
  BY <1>2, <1>4, <1>7
<1>9. \A i \in 1..n : Produced(t)[i][2].id = minted + i
  BY <1>4
<1> QED BY <1>2, <1>5, <1>8, <1>9 DEF ProducedList, n, P

LEMMA HeadIds ==
  ASSUME NEW t \in Transition, NEW m \in Marking, HasBinding(t, m)
  PROVE  /\ ConsumedIds(t, m) \subseteq TokenId
         /\ \A p \in Pre[t] : Head(m[p]).id \in IdsAt(m, p)
<1>1. ASSUME NEW p \in Pre[t] PROVE Head(m[p]).id \in IdsAt(m, p) /\ Head(m[p]).id \in TokenId
  <2>1. m[p] \in Seq(Token) /\ m[p] # << >>
    BY TopologyAssumption DEF HasBinding, Marking
  <2>2. 1 \in DOMAIN m[p] /\ Head(m[p]) = m[p][1] /\ m[p][1] \in Token
    BY <2>1
  <2> QED BY <2>2 DEF IdsAt, Token
<1> QED BY <1>1 DEF ConsumedIds

-----------------------------------------------------------------------------
(***************************************************************************)
(* An event changes the places it touches, and no others.                  *)
(***************************************************************************)
LEMMA RemoveTokenFrame ==
  ASSUME NEW m \in Marking, NEW p \in Place, NEW id, NEW q \in Place, q # p
  PROVE  RemoveToken(m, p, id)[q] = m[q]
BY DEF RemoveToken, Marking

LEMMA RemoveAllFrame ==
  ASSUME NEW m \in Marking, NEW consumed \in ConsumedList, NEW q \in Place,
         \A i \in DOMAIN consumed : consumed[i][1] # q
  PROVE  RemoveAll(m, consumed)[q] = m[q]
<1> DEFINE n == Len(consumed)
<1>1. PICK h : IsRun(h, Marking, m, n, RemoveStep(consumed)) /\ RemoveAll(m, consumed) = h[n]
  BY RemoveAllRun
<1>2. n \in Nat /\ DOMAIN consumed = 1..n /\ \A i \in 1..n : consumed[i] \in Place \X TokenId
  BY DEF ConsumedList
<1> DEFINE S == {i \in 0..n : h[i][q] = m[q]}
<1>3. 0 \in S /\ S \subseteq 0..n
  BY <1>1, <1>2 DEF IsRun
<1>4. ASSUME NEW i \in S, i < n PROVE i + 1 \in S
  <2> DEFINE k == i + 1
  <2>1. k \in 1..n /\ k \in 0..n /\ k - 1 = i /\ i \in 0..n
    BY <1>2, <1>4
  <2> HIDE DEF k
  <2>2. h[i] \in Marking /\ h[k] = RemoveStep(consumed)[<<k, h[i]>>]
    BY <1>1, <2>1 DEF IsRun
  <2>3. h[k] = RemoveToken(h[i], consumed[k][1], consumed[k][2])
    BY <2>1, <2>2 DEF RemoveStep
  <2>4. consumed[k][1] \in Place /\ consumed[k][1] # q
    BY <1>2, <2>1
  <2>5. h[k][q] = h[i][q]
    BY <2>2, <2>3, <2>4, RemoveTokenFrame
  <2> QED BY <2>1, <2>5 DEF k
<1> HIDE DEF S
<1>5. S = 0..n
  BY <1>2, <1>3, <1>4, IntervalInduction
<1> QED BY <1>1, <1>2, <1>5 DEF S

LEMMA AddAllFrame ==
  ASSUME NEW m \in Marking, NEW produced \in ProducedList, NEW q \in Place,
         \A i \in DOMAIN produced : produced[i][1] # q
  PROVE  AddAll(m, produced)[q] = m[q]
<1> DEFINE n == Len(produced)
<1>1. PICK h : IsRun(h, Marking, m, n, AddStep(produced)) /\ AddAll(m, produced) = h[n]
  BY AddAllRun
<1>2. n \in Nat /\ DOMAIN produced = 1..n /\ \A i \in 1..n : produced[i] \in Place \X Token
  BY DEF ProducedList
<1> DEFINE S == {i \in 0..n : h[i][q] = m[q]}
<1>3. 0 \in S /\ S \subseteq 0..n
  BY <1>1, <1>2 DEF IsRun
<1>4. ASSUME NEW i \in S, i < n PROVE i + 1 \in S
  <2> DEFINE k == i + 1
  <2>1. k \in 1..n /\ k \in 0..n /\ k - 1 = i /\ i \in 0..n
    BY <1>2, <1>4
  <2> HIDE DEF k
  <2>2. h[i] \in Marking /\ h[k] = AddStep(produced)[<<k, h[i]>>]
    BY <1>1, <2>1 DEF IsRun
  <2>3. h[k] = AddToken(h[i], produced[k][1], produced[k][2])
    BY <2>1, <2>2 DEF AddStep
  <2>4. produced[k][1] \in Place /\ produced[k][1] # q
    BY <1>2, <2>1
  <2>5. h[k][q] = h[i][q]
    BY <2>2, <2>3, <2>4 DEF AddToken, Marking
  <2> QED BY <2>1, <2>5 DEF k
<1> HIDE DEF S
<1>5. S = 0..n
  BY <1>2, <1>3, <1>4, IntervalInduction
<1> QED BY <1>1, <1>2, <1>5 DEF S

LEMMA FiringFrame ==
  ASSUME NEW m \in Marking, NEW consumed \in ConsumedList, NEW produced \in ProducedList,
         NEW q \in Place, q \notin {consumed[i][1] : i \in DOMAIN consumed},
         q \notin {produced[i][1] : i \in DOMAIN produced}
  PROVE  AddAll(RemoveAll(m, consumed), produced)[q] = m[q]
<1>1. RemoveAll(m, consumed) \in Marking
  BY RemoveAllType
<1>2. RemoveAll(m, consumed)[q] = m[q]
  BY RemoveAllFrame
<1>3. AddAll(RemoveAll(m, consumed), produced)[q] = RemoveAll(m, consumed)[q]
  BY <1>1, AddAllFrame
<1> QED BY <1>2, <1>3

LEMMA ApplyEventFrame ==
  ASSUME NEW m \in Marking, NEW e \in DomainEvent, NEW q \in Place, q \notin TouchedPlaces(e)
  PROVE  ApplyEvent(m, e)[q] = m[q]
<1>1. CASE e \in TokenCreatedEvent
  <2>1. e.place \in Place /\ ApplyEvent(m, e) = AddToken(m, e.place, e.token)
        /\ TouchedPlaces(e) = {e.place}
    BY <1>1 DEF ApplyEvent, TouchedPlaces, TokenCreatedEvent, FiringKind
  <2> QED BY <2>1 DEF AddToken, Marking
<1>2. CASE e \in FiringEvent
  <2>1. /\ e.consumed \in ConsumedList /\ e.produced \in ProducedList
        /\ ApplyEvent(m, e) = AddAll(RemoveAll(m, e.consumed), e.produced)
        /\ TouchedPlaces(e) = {e.consumed[i][1] : i \in DOMAIN e.consumed}
                                 \cup {e.produced[i][1] : i \in DOMAIN e.produced}
    BY <1>2 DEF ApplyEvent, TouchedPlaces, FiringEvent, FiringKind
  <2> QED BY <2>1, FiringFrame
<1>3. CASE e \in TokenGoneEvent
  <2>1. e.place \in Place /\ ApplyEvent(m, e) = RemoveToken(m, e.place, e.id)
        /\ TouchedPlaces(e) = {e.place}
    BY <1>3 DEF ApplyEvent, TouchedPlaces, TokenGoneEvent, FiringKind
  <2> QED BY <2>1, RemoveTokenFrame
<1>4. CASE e \in TokenUpdatedEvent
  <2>1. e.place \in Place /\ ApplyEvent(m, e) = UpdateToken(m, e.place, e.id, e.color)
        /\ TouchedPlaces(e) = {e.place}
    BY <1>4 DEF ApplyEvent, TouchedPlaces, TokenUpdatedEvent, FiringKind
  <2> QED BY <2>1 DEF UpdateToken, Marking
<1>5. CASE e \in EffectFailedEvent
  <2>1. e.consumed \in ConsumedList /\ e.produced \in ProducedList /\ e.kind = "EffectFailed"
        /\ e.tokensConsumed \in BOOLEAN
    BY <1>5 DEF EffectFailedEvent
  <2>2. CASE e.tokensConsumed
    <3>1. /\ ApplyEvent(m, e) = AddAll(RemoveAll(m, e.consumed), e.produced)
          /\ TouchedPlaces(e) = {e.consumed[i][1] : i \in DOMAIN e.consumed}
                                   \cup {e.produced[i][1] : i \in DOMAIN e.produced}
      BY <2>1, <2>2 DEF ApplyEvent, TouchedPlaces, FiringKind
    <3> QED BY <2>1, <3>1, FiringFrame
  <2>3. CASE ~e.tokensConsumed
    BY <2>1, <2>3 DEF ApplyEvent, FiringKind
  <2> QED BY <2>2, <2>3
<1>6. CASE e \in AuditEvent
  BY <1>6 DEF ApplyEvent, AuditEvent, FiringKind
<1> QED BY <1>1, <1>2, <1>3, <1>4, <1>5, <1>6 DEF DomainEvent

(***************************************************************************)
(* Nor does a run of events.                                               *)
(***************************************************************************)
LEMMA ProjectOntoFrame ==
  ASSUME NEW m \in Marking, NEW events \in Seq(PersistedEvent), NEW q \in Place,
         \A i \in DOMAIN events : q \notin TouchedPlaces(events[i].event)
  PROVE  ProjectOnto(m, events)[q] = m[q]
<1> DEFINE n == Len(events)
<1>1. PICK h : IsRun(h, Marking, m, n, ProjectStep(events)) /\ ProjectOnto(m, events) = h[n]
  BY PersistedEvents, ProjectOntoRun
<1>2. n \in Nat /\ DOMAIN events = 1..n /\ \A i \in 1..n : events[i].event \in DomainEvent
  BY PersistedEvents
<1> DEFINE S == {i \in 0..n : h[i][q] = m[q]}
<1>3. 0 \in S /\ S \subseteq 0..n
  BY <1>1, <1>2 DEF IsRun
<1>4. ASSUME NEW i \in S, i < n PROVE i + 1 \in S
  <2> DEFINE k == i + 1
  <2>1. k \in 1..n /\ k \in 0..n /\ k - 1 = i /\ i \in 0..n
    BY <1>2, <1>4
  <2> HIDE DEF k
  <2>2. h[i] \in Marking /\ h[k] = ProjectStep(events)[<<k, h[i]>>]
    BY <1>1, <2>1 DEF IsRun
  <2>3. h[k] = ApplyEvent(h[i], events[k].event)
    BY <2>1, <2>2 DEF ProjectStep
  <2>4. h[k][q] = h[i][q]
    BY <1>2, <2>1, <2>2, <2>3, ApplyEventFrame
  <2> QED BY <2>1, <2>4 DEF k
<1> HIDE DEF S
<1>5. S = 0..n
  BY <1>2, <1>3, <1>4, IntervalInduction
<1> QED BY <1>1, <1>2, <1>5 DEF S

-----------------------------------------------------------------------------
(***************************************************************************)
(* Ids of tokens.                                                          *)
(***************************************************************************)
\* A sequence of tokens with no id twice, and the ids in it.
Single(s) == \A i, j \in DOMAIN s : s[i].id = s[j].id => i = j

IdsIn(s) == {s[i].id : i \in DOMAIN s}

LEMMA SingleAppend ==
  ASSUME NEW s \in Seq(Token), Single(s), NEW t \in Token, t.id \notin IdsIn(s)
  PROVE  Single(Append(s, t)) /\ IdsIn(Append(s, t)) = IdsIn(s) \cup {t.id}
<1> DEFINE n == Len(s)
           a == Append(s, t)
<1>1. /\ n \in Nat /\ DOMAIN s = 1..n /\ DOMAIN a = 1..(n + 1)
      /\ a[n + 1] = t /\ \A i \in 1..n : a[i] = s[i]
  OBVIOUS
<1> HIDE DEF n, a
<1>2. \A i \in 1..(n + 1) : i \in 1..n \/ i = n + 1
  BY <1>1
<1>3. 1..n \subseteq 1..(n + 1) /\ n + 1 \in 1..(n + 1)
  BY <1>1
<1>4. Single(a)
  BY <1>1, <1>2 DEF Single, IdsIn
<1>5. IdsIn(a) = IdsIn(s) \cup {t.id}
  BY <1>1, <1>2, <1>3 DEF IdsIn
<1> QED BY <1>4, <1>5 DEF a

\* The sequence without its element at i.
LEMMA SingleWithout ==
  ASSUME NEW s \in Seq(Token), Single(s), NEW i \in 1..Len(s), NEW r,
         r = SubSeq(s, 1, i - 1) \o SubSeq(s, i + 1, Len(s))
  PROVE  Single(r) /\ IdsIn(r) = IdsIn(s) \ {s[i].id}
<1> DEFINE n == Len(s)
           a == SubSeq(s, 1, i - 1)
           b == SubSeq(s, i + 1, n)
<1>1. n \in Nat /\ DOMAIN s = 1..n /\ i \in Nat /\ 1 <= i /\ i <= n
  OBVIOUS
<1>2. a \in Seq(Token) /\ Len(a) = i - 1 /\ \A j \in 1..(i - 1) : a[j] = s[j]
  BY <1>1
<1>3. b \in Seq(Token) /\ Len(b) = n - i /\ \A j \in 1..(n - i) : b[j] = s[i + j]
  <2> DEFINE k == i + 1
  <2>1. k \in Nat /\ 1 <= k /\ k <= n + 1 /\ n - k + 1 = n - i /\ n \in Int /\ k \in Int
        /\ \A j \in k..n : j \in 1..Len(s)
    BY <1>1
  <2>2. \A j \in 1..(n - i) : k + j - 1 = i + j
    BY <1>1
  <2> HIDE DEF k
  <2>3. \A j \in k..n : s[j] \in Token
    BY <2>1, ElementOfSeq
  <2>4. /\ SubSeq(s, k, n) \in Seq(Token)
        /\ Len(SubSeq(s, k, n)) = IF k <= n THEN n - k + 1 ELSE 0
        /\ \A j \in 1..n - k + 1 : SubSeq(s, k, n)[j] = s[k + j - 1]
    BY <2>1, <2>3, SubSeqProperties, SMTT(30)
  <2>5. b = SubSeq(s, k, n)
    BY DEF k
  <2> HIDE DEF b, n
  <2>6. Len(b) = n - i
    BY <1>1, <2>1, <2>4, <2>5
  <2> QED BY <2>1, <2>2, <2>4, <2>5, <2>6
<1> HIDE DEF a, b, n
<1>4. r = a \o b
  BY DEF a, b, n
<1>5. /\ DOMAIN r = 1..(n - 1)
      /\ \A j \in 1..(i - 1) : r[j] = a[j]
      /\ \A j \in 1..(n - i) : r[(i - 1) + j] = b[j]
  <2>1. /\ r \in Seq(Token) /\ Len(r) = (i - 1) + (n - i)
        /\ \A j \in 1..((i - 1) + (n - i)) : r[j] = IF j <= i - 1 THEN a[j] ELSE b[j - (i - 1)]
    <3>1. /\ a \o b \in Seq(Token) /\ Len(a \o b) = Len(a) + Len(b)
          /\ \A j \in 1..Len(a) + Len(b) :
                (a \o b)[j] = IF j <= Len(a) THEN a[j] ELSE b[j - Len(a)]
      BY <1>2, <1>3, ConcatProperties
    <3>2. Len(a) = i - 1 /\ Len(b) = n - i
      BY <1>2, <1>3
    <3> QED BY ZenonT(60), <1>4, <3>1, <3>2
  <2>2. (i - 1) + (n - i) = n - 1
    BY <1>1
  <2>3. \A j \in 1..(i - 1) : j \in 1..(n - 1) /\ j <= i - 1
    BY <1>1
  <2>4. \A j \in 1..(n - i) : (i - 1) + j \in 1..(n - 1) /\ ~((i - 1) + j <= i - 1)
                               /\ ((i - 1) + j) - (i - 1) = j
    BY <1>1
  <2>5. DOMAIN r = 1..(n - 1)
    BY <2>1, <2>2, LenProperties
  <2> QED BY <2>1, <2>2, <2>3, <2>4, <2>5
<1>6. \A j \in 1..(n - 1) : r[j] = IF j < i THEN s[j] ELSE s[j + 1]
  <2> SUFFICES ASSUME NEW j \in 1..(n - 1) PROVE r[j] = IF j < i THEN s[j] ELSE s[j + 1]
    OBVIOUS
  <2>1. CASE j < i
    <3>1. j \in 1..(i - 1)
      BY <1>1, <2>1
    <3> QED BY <1>2, <1>5, <2>1, <3>1
  <2>2. CASE ~(j < i)
    <3> DEFINE k == j - (i - 1)
    <3>1. k \in 1..(n - i) /\ (i - 1) + k = j /\ i + k = j + 1
      BY <1>1, <2>2
    <3> HIDE DEF k
    <3>2. r[(i - 1) + k] = b[k] /\ b[k] = s[i + k]
      BY <1>3, <1>5, <3>1
    <3> QED BY <2>2, <3>1, <3>2
  <2> QED BY <2>1, <2>2
<1>7. Single(r)
  <2> SUFFICES ASSUME NEW j \in 1..(n - 1), NEW k \in 1..(n - 1), r[j].id = r[k].id PROVE j = k
    BY <1>5 DEF Single
  <2> DEFINE u == IF j < i THEN j ELSE j + 1
             v == IF k < i THEN k ELSE k + 1
  <2>1. u \in 1..n /\ v \in 1..n /\ (u = v => j = k)
    BY <1>1
  <2>2. r[j] = s[u] /\ r[k] = s[v]
    BY <1>6
  <2> HIDE DEF u, v
  <2> QED BY <1>1, <2>1, <2>2 DEF Single
<1>8. IdsIn(r) \subseteq IdsIn(s) \ {s[i].id}
  <2> SUFFICES ASSUME NEW j \in 1..(n - 1) PROVE r[j].id \in IdsIn(s) \ {s[i].id}
    BY <1>5 DEF IdsIn
  <2> DEFINE u == IF j < i THEN j ELSE j + 1
  <2>1. u \in 1..n /\ u # i
    BY <1>1
  <2>2. r[j] = s[u]
    BY <1>6
  <2> HIDE DEF u
  <2>3. u \in DOMAIN s /\ i \in DOMAIN s
    BY <1>1, <2>1
  <2>4. s[u].id # s[i].id
    BY <2>1, <2>3 DEF Single
  <2> QED BY <2>2, <2>3, <2>4 DEF IdsIn
<1>9. IdsIn(s) \ {s[i].id} \subseteq IdsIn(r)
  <2> SUFFICES ASSUME NEW u \in 1..n, s[u].id # s[i].id PROVE s[u].id \in IdsIn(r)
    BY <1>1 DEF IdsIn
  <2> DEFINE j == IF u < i THEN u ELSE u - 1
  <2>1. u # i
    OBVIOUS
  <2>2. j \in 1..(n - 1) /\ (j < i <=> u < i) /\ (~(u < i) => j + 1 = u) /\ (u < i => j = u)
    BY <1>1, <2>1
  <2> HIDE DEF j
  <2>3. r[j] = s[u]
    BY <1>6, <2>2
  <2> QED BY <1>5, <2>2, <2>3 DEF IdsIn
<1> QED BY <1>7, <1>8, <1>9

LEMMA FirstWithIdFinds ==
  ASSUME NEW s \in Seq(Token), NEW id
  PROVE  LET i == FirstWithId(s, id) IN
         /\ i = 0 => id \notin IdsIn(s)
         /\ i # 0 => i \in 1..Len(s) /\ s[i].id = id
<1> DEFINE hits == {i \in DOMAIN s : s[i].id = id}
<1>1. hits \subseteq 1..Len(s) /\ hits \subseteq Nat
  OBVIOUS
<1>2. CASE hits = {}
  <2>1. FirstWithId(s, id) = 0
    BY <1>2 DEF FirstWithId
  <2>2. id \notin IdsIn(s)
    BY <1>2 DEF IdsIn
  <2> QED BY <2>1, <2>2
<1>3. CASE hits # {}
  <2>1. \E i \in hits : \A j \in hits : i <= j
    <3> HIDE DEF hits
    <3> QED BY <1>1, <1>3, LeastElement
  <2>2. (CHOOSE i \in hits : \A j \in hits : i <= j) \in hits
    <3> HIDE DEF hits
    <3> QED BY <2>1
  <2>3. FirstWithId(s, id) = CHOOSE i \in hits : \A j \in hits : i <= j
    BY <1>3 DEF FirstWithId
  <2>4. FirstWithId(s, id) \in hits
    BY <2>2, <2>3
  <2>5. FirstWithId(s, id) \in 1..Len(s) /\ s[FirstWithId(s, id)].id = id
    BY <1>1, <2>4
  <2>6. FirstWithId(s, id) # 0
    BY <2>5
  <2> QED BY <2>5, <2>6
<1> QED BY <1>2, <1>3

LEMMA ApartPlaces ==
  ASSUME NEW m
  PROVE  Apart(m) <=> /\ \A p \in Place : Single(m[p])
                      /\ \A p, q \in Place : p # q => IdsIn(m[p]) \cap IdsIn(m[q]) = {}
BY DEF Apart, Single, IdsAt, IdsIn

(***************************************************************************)
(* Removing a token removes its id from its place; adding one with a new   *)
(* id adds it to its place.                                                *)
(***************************************************************************)
LEMMA RemoveTokenIds ==
  ASSUME NEW m \in Marking, Apart(m), NEW p \in Place, NEW id \in TokenId
  PROVE  /\ Apart(RemoveToken(m, p, id))
         /\ IdsAt(RemoveToken(m, p, id), p) = IdsAt(m, p) \ {id}
         /\ \A q \in Place : q # p => IdsAt(RemoveToken(m, p, id), q) = IdsAt(m, q)
<1> DEFINE s == m[p]
           i == FirstWithId(s, id)
           r == RemoveToken(m, p, id)
<1>1. s \in Seq(Token) /\ Single(s)
  BY ApartPlaces DEF Marking
<1>2. /\ i = 0 => id \notin IdsIn(s)
      /\ i # 0 => i \in 1..Len(s) /\ s[i].id = id
  BY <1>1, FirstWithIdFinds
<1>3. Single(r[p]) /\ IdsIn(r[p]) = IdsIn(s) \ {id}
  <2>1. CASE i = 0
    <3>1. r[p] = s
      BY <2>1 DEF RemoveToken, DropId, Marking
    <3> QED BY <1>1, <1>2, <2>1, <3>1
  <2>2. CASE i # 0
    <3>1. r = [m EXCEPT ![p] = SubSeq(s, 1, i - 1) \o SubSeq(s, i + 1, Len(s))]
      BY <2>2 DEF RemoveToken, DropId
    <3>2. r[p] = SubSeq(s, 1, i - 1) \o SubSeq(s, i + 1, Len(s))
      BY <3>1 DEF Marking
    <3> HIDE DEF r, i, s
    <3> QED BY <1>1, <1>2, <2>2, <3>2, SingleWithout
  <2> QED BY <2>1, <2>2
<1>4. \A q \in Place : q # p => r[q] = m[q]
  BY RemoveTokenFrame
<1> HIDE DEF r, i
<1>5. Apart(r)
  BY <1>3, <1>4, ApartPlaces
<1> QED BY <1>3, <1>4, <1>5 DEF r, IdsAt, IdsIn

LEMMA AddTokenIds ==
  ASSUME NEW m \in Marking, Apart(m), NEW p \in Place, NEW t \in Token, t.id \notin Ids(m)
  PROVE  /\ Apart(AddToken(m, p, t))
         /\ IdsAt(AddToken(m, p, t), p) = IdsAt(m, p) \cup {t.id}
         /\ \A q \in Place : q # p => IdsAt(AddToken(m, p, t), q) = IdsAt(m, q)
<1> DEFINE r == AddToken(m, p, t)
<1>1. m[p] \in Seq(Token) /\ Single(m[p])
  BY ApartPlaces DEF Marking
<1>2. \A q \in Place : t.id \notin IdsIn(m[q])
  BY DEF Ids, IdsAt, IdsIn
<1>3. r[p] = Append(m[p], t) /\ \A q \in Place : q # p => r[q] = m[q]
  BY DEF AddToken, Marking
<1> HIDE DEF r
<1>4. Single(r[p]) /\ IdsIn(r[p]) = IdsIn(m[p]) \cup {t.id}
  BY <1>1, <1>2, <1>3, SingleAppend
<1>5. Apart(r)
  <2>1. \A q, u \in Place : q # u => IdsIn(m[q]) \cap IdsIn(m[u]) = {}
    BY ApartPlaces
  <2>2. \A q \in Place : Single(r[q])
    BY <1>3, <1>4, ApartPlaces
  <2>3. \A q \in Place : q # p => IdsIn(r[q]) = IdsIn(m[q])
    BY <1>3
  <2>4. \A q, u \in Place : q # u => IdsIn(r[q]) \cap IdsIn(r[u]) = {}
    <3> SUFFICES ASSUME NEW q \in Place, NEW u \in Place, q # u
                 PROVE  IdsIn(r[q]) \cap IdsIn(r[u]) = {}
      OBVIOUS
    <3>1. CASE q = p
      BY <1>2, <1>4, <2>1, <2>3, <3>1
    <3>2. CASE u = p
      BY <1>2, <1>4, <2>1, <2>3, <3>2
    <3>3. CASE q # p /\ u # p
      BY <2>1, <2>3, <3>3
    <3> QED BY <3>1, <3>2, <3>3
  <2> QED BY <2>2, <2>4, ApartPlaces
<1> QED BY <1>3, <1>4, <1>5 DEF r, IdsAt, IdsIn

(***************************************************************************)
(* The consuming loop takes the ids it names from their places.            *)
(***************************************************************************)
LEMMA RemoveAllIds ==
  ASSUME NEW m \in Marking, Apart(m), NEW consumed \in ConsumedList
  PROVE  /\ Apart(RemoveAll(m, consumed))
         /\ \A q \in Place : IdsAt(RemoveAll(m, consumed), q) \subseteq IdsAt(m, q)
         /\ \A i \in DOMAIN consumed :
               consumed[i][2] \notin IdsAt(RemoveAll(m, consumed), consumed[i][1])
<1> DEFINE n == Len(consumed)
<1>1. PICK h : IsRun(h, Marking, m, n, RemoveStep(consumed)) /\ RemoveAll(m, consumed) = h[n]
  BY RemoveAllRun
<1>2. n \in Nat /\ DOMAIN consumed = 1..n /\ \A i \in 1..n : consumed[i] \in Place \X TokenId
  BY DEF ConsumedList
<1> DEFINE Good(k) == /\ Apart(h[k])
                      /\ \A q \in Place : IdsAt(h[k], q) \subseteq IdsAt(m, q)
                      /\ \A i \in 1..k : consumed[i][2] \notin IdsAt(h[k], consumed[i][1])
           S == {k \in 0..n : Good(k)}
<1>3. 0 \in S /\ S \subseteq 0..n
  BY <1>1, <1>2 DEF IsRun
<1>4. ASSUME NEW i \in S, i < n PROVE i + 1 \in S
  <2> DEFINE k == i + 1
  <2>1. k \in 1..n /\ k \in 0..n /\ k - 1 = i /\ i \in 0..n
        /\ \A j \in 1..k : j \in 1..n /\ (j \in 1..i \/ j = k)
    BY <1>2, <1>4
  <2> HIDE DEF k
  <2>2. h[i] \in Marking /\ h[k] = RemoveStep(consumed)[<<k, h[i]>>]
    BY <1>1, <2>1 DEF IsRun
  <2>3. h[k] = RemoveToken(h[i], consumed[k][1], consumed[k][2])
    BY <2>1, <2>2 DEF RemoveStep
  <2>4. Good(i)
    OBVIOUS
  <2>5. /\ consumed[k][1] \in Place /\ consumed[k][2] \in TokenId
        /\ \A j \in 1..k : consumed[j][1] \in Place
    BY <1>2, <2>1
  <2>6. /\ Apart(h[k])
        /\ IdsAt(h[k], consumed[k][1]) = IdsAt(h[i], consumed[k][1]) \ {consumed[k][2]}
        /\ \A q \in Place : q # consumed[k][1] => IdsAt(h[k], q) = IdsAt(h[i], q)
    BY <2>2, <2>3, <2>4, <2>5, RemoveTokenIds
  <2>7. \A q \in Place : IdsAt(h[k], q) \subseteq IdsAt(h[i], q)
    BY <2>6
  <2>8. Good(k)
    BY <2>1, <2>4, <2>5, <2>6, <2>7
  <2> HIDE DEF Good
  <2> QED BY <2>1, <2>8 DEF k
<1> HIDE DEF S, Good
<1>5. S = 0..n
  BY <1>2, <1>3, <1>4, IntervalInduction
<1>6. Good(n)
  BY <1>2, <1>5 DEF S
<1> QED BY <1>1, <1>2, <1>6 DEF Good

(***************************************************************************)
(* The producing loop adds new ids, the i-th of them base + i.             *)
(***************************************************************************)
LEMMA AddAllIds ==
  ASSUME NEW m \in Marking, Apart(m), NEW produced \in ProducedList, NEW base \in Nat,
         Ids(m) \subseteq 1..base, \A i \in 1..Len(produced) : produced[i][2].id = base + i
  PROVE  /\ Apart(AddAll(m, produced))
         /\ Ids(AddAll(m, produced)) \subseteq Ids(m) \cup ((base + 1)..(base + Len(produced)))
<1> DEFINE n == Len(produced)
<1>1. PICK h : IsRun(h, Marking, m, n, AddStep(produced)) /\ AddAll(m, produced) = h[n]
  BY AddAllRun
<1>2. n \in Nat /\ \A i \in 1..n : produced[i] \in Place \X Token /\ produced[i][2].id = base + i
  BY DEF ProducedList
<1> DEFINE Good(k) == Apart(h[k]) /\ Ids(h[k]) \subseteq Ids(m) \cup ((base + 1)..(base + k))
           S == {k \in 0..n : Good(k)}
<1>3. 0 \in S /\ S \subseteq 0..n
  BY <1>1, <1>2 DEF IsRun
<1>4. ASSUME NEW i \in S, i < n PROVE i + 1 \in S
  <2> DEFINE k == i + 1
             p == produced[k][1]
             t == produced[k][2]
  <2>1. k \in 1..n /\ k \in 0..n /\ k - 1 = i /\ i \in 0..n /\ k = i + 1 /\ i \in Nat
    BY <1>2, <1>4
  <2> HIDE DEF k
  <2>2. h[i] \in Marking /\ h[k] = AddStep(produced)[<<k, h[i]>>]
    BY <1>1, <2>1 DEF IsRun
  <2>3. h[k] = AddToken(h[i], p, t)
    BY <2>1, <2>2 DEF AddStep
  <2>4. Good(i)
    OBVIOUS
  <2>5. p \in Place /\ t \in Token /\ t.id = base + k
    BY <1>2, <2>1
  <2> HIDE DEF p, t
  <2>6. t.id \notin Ids(h[i])
    <3>1. base + k \notin 1..base /\ base + k \notin (base + 1)..(base + i)
      BY <2>1
    <3> QED BY <2>4, <2>5, <3>1
  <2>7. /\ Apart(h[k])
        /\ IdsAt(h[k], p) = IdsAt(h[i], p) \cup {t.id}
        /\ \A q \in Place : q # p => IdsAt(h[k], q) = IdsAt(h[i], q)
    BY <2>2, <2>3, <2>4, <2>5, <2>6, AddTokenIds
  <2>8. Ids(h[k]) \subseteq Ids(h[i]) \cup {t.id}
    BY <2>7 DEF Ids
  <2>9. (base + 1)..(base + i) \subseteq (base + 1)..(base + k) /\ base + k \in (base + 1)..(base + k)
    BY <2>1
  <2>10. Good(k)
    BY <2>4, <2>5, <2>7, <2>8, <2>9
  <2> HIDE DEF Good
  <2> QED BY <2>1, <2>10
<1> HIDE DEF S, Good
<1>5. S = 0..n
  BY <1>2, <1>3, <1>4, IntervalInduction
<1>6. Good(n)
  BY <1>2, <1>5 DEF S
<1> QED BY <1>1, <1>6 DEF Good

-----------------------------------------------------------------------------
(***************************************************************************)
(* The inductive invariant, first what it says of the lock: whoever is in  *)
(* an evaluation has it, and calls advance_marking nowhere else; readers   *)
(* only advance.                                                           *)
(***************************************************************************)
Busy(j) == j.at \in {"advance", "select", "mark", "fire", "commit", "bridgeOut", "remove"}

Working == {"select", "mark", "fire", "commit", "bridgeOut", "remove"}

Locked ==
    \A c \in Caller :
        /\ c \in Evaluator /\ Busy(job[c]) => lock = c
        /\ c \notin Evaluator => job[c].at \in {"idle", "advance"}
        /\ call[c].pc # "idle" => job[c].at = "advance"

\* A transition that was selected is bound in the marking it was selected on.
Aimed(j) ==
    /\ j.at \in {"fire", "commit", "remove"} =>
          j.chosen \in Transition /\ HasBinding(j.chosen, j.marking)
    /\ j.at = "mark" =>
          /\ j.chosen # None => j.chosen \in Transition /\ HasBinding(j.chosen, j.marking)
          /\ j.newly \subseteq Transition
    /\ j.at = "remove" => j.newly \subseteq Pre[j.chosen]

\* A budget is exceeded only while the deferral that did it becomes a rejection.
WithinBudget ==
    \A t \in Transition :
        defers[t] > MaxDefers =>
            \E c \in Caller : job[c].at = "commit" /\ job[c].outcome = "reject" /\ job[c].chosen = t

JInv == TypeOK /\ CIInv /\ Locked /\ (\A c \in Caller : Aimed(job[c])) /\ WithinBudget

Unbound(S, m) == \A t \in S : ~HasBinding(t, m)

\* What an evaluation works on is the cache: nobody else moves it.
OnCache ==
    \A c \in Caller :
        /\ call[c].pc = "lookup" => call[c].delta = "Unchanged"
        /\ call[c].pc \in {"slice", "fold", "done"} => call[c].snap = cache
        /\ job[c].at \in {"select", "mark"} => job[c].marking = cache.marking

\* reconcile_binding_memo on the memo b.
ReconciledOf(b, delta, events) ==
    CASE delta = "Unchanged" -> b
      [] delta = "Rebuilt" \/ (delta = "Applied" /\ ~b.built) -> [empty |-> {}, built |-> TRUE]
      [] OTHER -> [b EXCEPT !.empty =
                     {t \in @ : \A i \in DOMAIN events :
                                   Pre[t] \cap TouchedPlaces(events[i].event) = {}}]

\* The memo suppresses nothing that is bound in the cached marking, once what a
\* call folded in has been reconciled.
MemoSound ==
    /\ (\E c \in Caller : call[c].pc = "done") \/ Unbound(memo.empty, cache.marking)
    /\ \A c \in Caller :
          call[c].pc = "done" =>
              Unbound(ReconciledOf(memo, call[c].delta, call[c].events).empty, cache.marking)
    /\ \A c \in Caller : job[c].at = "mark" => Unbound(job[c].newly, job[c].marking)

MInv == OnCache /\ MemoSound

\* The marking the log has come to.
Now == Upto(log, Len(log))

\* From the marking m to n no place lost its first token, and what came to an empty
\* place is younger than every first token of m.
HeadsKept(m, n) ==
    \A p \in Place :
        /\ m[p] # << >> => n[p] # << >> /\ Head(n[p]) = Head(m[p])
        /\ m[p] = << >> /\ n[p] # << >> =>
              \A q \in Place : m[q] # << >> => Head(m[q]).id < Head(n[p]).id

\* What happens during an evaluation takes nothing from the marking it works on.
Steady ==
    \A c \in Caller :
        /\ c \in Evaluator /\ call[c].pc # "idle" =>
              \A n \in call[c].len..Len(log) : HeadsKept(Upto(log, n), Now)
        /\ job[c].at \in {"select", "mark", "fire", "commit"} => HeadsKept(job[c].marking, Now)

\* An effect has run on the token and its event is still to come.
Committing(j, x) ==
    /\ j.at = "commit" /\ j.outcome \in {"ok", "fail"} /\ j.chosen \in Effect
    /\ x \in ConsumedIds(j.chosen, j.marking)

Spent ==
    \A x \in TokenId :
        runs[x] > 0 =>
            /\ x <= minted
            /\ x \in Ids(Now) => \E c \in Caller : Committing(job[c], x)

EInv == Steady /\ Apart(Now) /\ Ids(Now) \subseteq 1..minted /\ Spent /\ EffectOnce

-----------------------------------------------------------------------------
(***************************************************************************)
(* Without HTTP fires, whoever fires has the lock.  Without marking reads  *)
(* either, whoever moves the marking cache has it too.                     *)
(***************************************************************************)
FiresLocked == Firer = {}

AllLocked == FiresLocked /\ Reader = {}

LEMMA Actors ==
  /\ Evaluator \subseteq Caller /\ Loop \in Evaluator /\ None \notin Caller
  /\ \A c \in Evaluator : c \notin Reader /\ c \notin Firer
  /\ FiresLocked => \A c \in Caller : c \in Evaluator \/ c \in Reader
  /\ FiresLocked /\ Reader = {} => Caller = Evaluator
BY ActorAssumption DEF FiresLocked, Evaluator

At == {"idle", "wait", "lock", "advance", "select", "mark", "fire", "commit",
       "bridgeOut", "remove", "driver", "stopped"}

JobRec ==
    [at : At, phase : {"Normal", "Finalizing"}, steps : Nat, marking : Marking,
     chosen : Transition \cup {None}, newly : SUBSET (Transition \cup Place),
     outcome : Outcomes \cup {"ok", "reject"},
     result : {"Quiescent", "LimitReached", "Terminal", "Failed"}]

\* The types of what is neither the cache's, nor the jobs, the lock and the budgets.
RestOK ==
    /\ memo \in [empty : SUBSET Transition, built : BOOLEAN]
    /\ permit \in BOOLEAN
    /\ kicks \subseteq {"bridge", "create"}
    /\ mode \in {"Running", "Stopped"}
    /\ minted \in Nat
    /\ verdict \in {None, "Terminal", "Failed"}
    /\ runs \in [TokenId -> Nat]
    /\ failures \subseteq {"Normal", "Finalizing", "fired"}

LEMMA Types ==
  TypeOK <=> /\ CTypeOK /\ RestOK
             /\ job \in [Caller -> JobRec]
             /\ lock \in Evaluator \cup {None}
             /\ defers \in [Transition -> 0..(MaxDefers + 1)]
BY DEF TypeOK, RestOK, JobRec, At

LEMMA NoJobType ==
  ASSUME NEW at \in At
  PROVE  /\ NoJob(at) \in JobRec
         /\ NoJob(at).at = at /\ NoJob(at).phase = "Normal" /\ NoJob(at).steps = 0
<1>1. EmptyMarking \in Marking
  BY EmptyMarkingType
<1> QED BY <1>1 DEF NoJob, JobRec

Rejecting(j, t) == j.at = "commit" /\ j.outcome = "reject" /\ j.chosen = t

(***************************************************************************)
(* Whoever is in an evaluation is alone in it.                             *)
(***************************************************************************)
LEMMA Alone ==
  ASSUME Locked, NEW c \in Evaluator, Busy(job[c])
  PROVE  /\ lock = c
         /\ \A d \in Evaluator : d # c => ~Busy(job[d]) /\ call[d].pc = "idle"
         /\ \A d \in Caller : d # c => job[d].at \notin Working
<1>1. lock = c
  BY Actors DEF Locked
<1>2. ASSUME NEW d \in Evaluator, d # c PROVE ~Busy(job[d]) /\ call[d].pc = "idle"
  BY <1>1, <1>2, Actors DEF Locked, Busy
<1>3. ASSUME NEW d \in Caller, d # c PROVE job[d].at \notin Working
  BY <1>2, <1>3 DEF Locked, Busy, Working
<1> QED BY <1>1, <1>2, <1>3

\* Whoever is past advance_marking is no reader.
LEMMA PastAdvance ==
  ASSUME Locked, NEW c \in Caller, job[c].at \in Working \/ (Busy(job[c]) /\ job[c].at # "advance")
  PROVE  c \in Evaluator
BY DEF Locked, Busy, Working

(***************************************************************************)
(* A step that moves one job.                                              *)
(***************************************************************************)
LEMMA JobMoves ==
  ASSUME JInv, NEW c \in Caller, NEW r \in JobRec, job' = [job EXCEPT ![c] = r], Aimed(r),
         CIInv', RestOK',
         \A d \in Caller : d # c => call'[d] = call[d],
         call'[c].pc # "idle" => r.at = "advance",
         lock' \in Evaluator \cup {None},
         c \in Evaluator /\ Busy(r) => lock' = c,
         c \notin Evaluator => r.at \in {"idle", "advance"},
         \A d \in Evaluator : d # c /\ Busy(job[d]) => lock' = d,
         defers' \in [Transition -> 0..(MaxDefers + 1)],
         \A t \in Transition :
            defers'[t] > MaxDefers =>
                Rejecting(r, t) \/ (defers[t] > MaxDefers /\ ~Rejecting(job[c], t))
  PROVE  JInv'
<1>1. job \in [Caller -> JobRec] /\ Locked /\ WithinBudget /\ \A d \in Caller : Aimed(job[d])
  BY Types DEF JInv
<1>2. job' \in [Caller -> JobRec] /\ job'[c] = r /\ \A d \in Caller : d # c => job'[d] = job[d]
  BY <1>1
<1>3. TypeOK'
  BY <1>2 DEF TypeOK, JobRec, At, RestOK, CIInv
<1>4. \A d \in Caller : Aimed(job'[d])
  BY <1>1, <1>2
<1>5. Locked'
  <2> SUFFICES ASSUME NEW d \in Caller
               PROVE  /\ d \in Evaluator /\ Busy(job'[d]) => lock' = d
                      /\ d \notin Evaluator => job'[d].at \in {"idle", "advance"}
                      /\ call'[d].pc # "idle" => job'[d].at = "advance"
    BY DEF Locked
  <2>1. CASE d = c
    BY <1>2, <2>1
  <2>2. CASE d # c
    BY <1>1, <1>2, <2>2 DEF Locked
  <2> QED BY <2>1, <2>2
<1>6. WithinBudget'
  <2> SUFFICES ASSUME NEW t \in Transition, defers'[t] > MaxDefers
               PROVE  \E d \in Caller : Rejecting(job'[d], t)
    BY DEF WithinBudget, Rejecting
  <2>1. CASE Rejecting(r, t)
    BY <1>2, <2>1
  <2>2. CASE defers[t] > MaxDefers /\ ~Rejecting(job[c], t)
    <3>1. PICK d \in Caller : Rejecting(job[d], t)
      BY <1>1, <2>2 DEF WithinBudget, Rejecting
    <3> QED BY <1>2, <2>2, <3>1
  <2> QED BY <2>1, <2>2
<1> QED BY <1>3, <1>4, <1>5, <1>6 DEF JInv

(***************************************************************************)
(* The lock's holder moves on, or ends its evaluation.                     *)
(***************************************************************************)
LEMMA HolderMoves ==
  ASSUME JInv, NEW c \in Evaluator, Busy(job[c]),
         NEW r \in JobRec, job' = [job EXCEPT ![c] = r], Aimed(r),
         CIInv', RestOK',
         \A d \in Caller : d # c => call'[d] = call[d],
         call'[c].pc # "idle" => r.at = "advance",
         (Busy(r) /\ lock' = lock) \/ (~Busy(r) /\ lock' = None),
         defers' \in [Transition -> 0..(MaxDefers + 1)],
         \A t \in Transition :
            defers'[t] > MaxDefers =>
                Rejecting(r, t) \/ (defers[t] > MaxDefers /\ ~Rejecting(job[c], t))
  PROVE  JInv'
<1>1. lock = c /\ \A d \in Evaluator : d # c => ~Busy(job[d])
  BY Alone DEF JInv
<1>2. c \in Caller
  BY Actors
<1>3. lock' \in Evaluator \cup {None} /\ (Busy(r) => lock' = c)
  BY <1>1, <1>2
<1> QED BY <1>1, <1>2, <1>3, JobMoves

-----------------------------------------------------------------------------
(***************************************************************************)
(* What an emitted event does to the log and to the marking.               *)
(***************************************************************************)
LEMMA NowType ==
  ASSUME CIInv
  PROVE  log \in Seq(PersistedEvent) /\ Len(log) \in Nat /\ Now \in Marking
<1>1. log \in Seq(PersistedEvent) /\ Len(log) \in 0..Len(log)
  BY DEF CIInv, CTypeOK
<1> QED BY <1>1, UptoType DEF Now

LEMMA EmitKeeps ==
  ASSUME CIInv, NEW e \in DomainEvent, Emit(e)
  PROVE  /\ CIInv'
         /\ UNCHANGED <<cache, call, resetting>>
         /\ Len(log') = Len(log) + 1
         /\ Now' = ApplyEvent(Now, e)
         /\ \A n \in 0..Len(log) : Upto(log', n) = Upto(log, n)
<1>1. 1 \in ByteSizes /\ AppendEvent(e, 1)
  BY PayloadAssumption DEF Emit
<1>2. CIInv'
  BY <1>1, AppendKeeps
<1>3. /\ CTypeOK /\ Represents(store, log) /\ log \in Seq(PersistedEvent) /\ Len(log) \in Nat
  BY DEF CIInv, CTypeOK
<1>4. /\ UNCHANGED <<cache, call, resetting>>
      /\ \E pe \in PersistedEvent : pe.event = e /\ log' = Append(log, pe)
  BY <1>1, <1>3, AppendStores
<1>5. PICK pe \in PersistedEvent : pe.event = e /\ log' = Append(log, pe)
  BY <1>4
<1>6. /\ log' \in Seq(PersistedEvent) /\ Len(log') = Len(log) + 1
      /\ log'[Len(log) + 1] = pe
  BY <1>3, <1>5
<1>7. \A n \in 0..Len(log) : Upto(log', n) = Upto(log, n)
  BY <1>3, <1>5, UptoAppend
<1>8. Upto(log', Len(log) + 1) = ApplyEvent(Upto(log', Len(log)), pe.event)
  <2> DEFINE l == log'
             n == Len(log)
  <2>1. l \in Seq(PersistedEvent) /\ n \in Nat /\ n + 1 <= Len(l) /\ l[n + 1] = pe
    BY <1>3, <1>6
  <2> HIDE DEF l, n
  <2>2. Upto(l, n + 1) = ApplyEvent(Upto(l, n), pe.event)
    BY <2>1, UptoNext
  <2> QED BY <2>2 DEF l, n
<1>9. Len(log) \in 0..Len(log)
  BY <1>3
<1>10. Upto(log', Len(log)) = Now /\ Upto(log', Len(log) + 1) = Now'
  BY <1>6, <1>7, <1>9 DEF Now
<1> QED BY <1>2, <1>4, <1>5, <1>6, <1>7, <1>8, <1>10

LEMMA AuditDoesNothing ==
  /\ Audit \in DomainEvent
  /\ \A m : ApplyEvent(m, Audit) = m
BY DEF Audit, DomainEvent, AuditEvent, ApplyEvent, FiringKind

Created(p) ==
    [kind |-> "TokenCreated", place |-> p,
     token |-> [id |-> minted + 1, color |-> CHOOSE c \in Color : TRUE], dedup |-> NoDedup]

LEMMA CreatedType ==
  ASSUME NEW p \in Place, minted \in Nat, Mints(1)
  PROVE  /\ Created(p) \in DomainEvent
         /\ Created(p).token \in Token /\ Created(p).token.id = minted + 1
         /\ \A m : ApplyEvent(m, Created(p)) = AddToken(m, p, Created(p).token)
         /\ minted' = minted + 1
<1> DEFINE k == CHOOSE x \in Color : TRUE
           i == minted + 1
           t == [id |-> i, color |-> k]
<1>1. k \in Color
  BY PayloadAssumption
<1>2. 1..i \subseteq TokenId /\ minted' = i
  BY DEF Mints
<1>3. i \in 1..i
  OBVIOUS
<1>4. Created(p) = [kind |-> "TokenCreated", place |-> p, token |-> t, dedup |-> NoDedup]
  BY DEF Created
<1> HIDE DEF i, k
<1>5. t \in Token /\ t.id = i
  BY <1>1, <1>2, <1>3 DEF Token
<1> HIDE DEF t
<1>6. Created(p) \in TokenCreatedEvent /\ Created(p).token = t
  BY <1>4, <1>5 DEF TokenCreatedEvent
<1>7. \A m : ApplyEvent(m, Created(p)) = AddToken(m, p, t)
  <2>1. Created(p).kind = "TokenCreated" /\ Created(p).place = p /\ Created(p).token = t
    BY <1>4
  <2> QED BY <2>1 DEF ApplyEvent, FiringKind
<1> QED BY <1>2, <1>5, <1>6, <1>7 DEF DomainEvent, i

\* The events of a firing of t on the marking m.
Fired(t, m) ==
    [kind |-> IF t \in Effect THEN "EffectCompleted" ELSE "TransitionFired",
     consumed |-> Consumed(t, m), produced |-> Produced(t)]

FailedOn(t, m) ==
    [kind |-> "EffectFailed", consumed |-> Consumed(t, m), produced |-> << >>,
     tokensConsumed |-> TRUE]

RemovedAt(p, m) == [kind |-> "TokenRemoved", place |-> p, id |-> Head(m[p]).id]

LEMMA FiredType ==
  ASSUME NEW t \in Transition, NEW m \in Marking, HasBinding(t, m), minted \in Nat,
         Mints(Cardinality(Post[t]))
  PROVE  /\ Fired(t, m) \in DomainEvent
         /\ \A n : ApplyEvent(n, Fired(t, m)) = AddAll(RemoveAll(n, Consumed(t, m)), Produced(t))
<1>1. Consumed(t, m) \in ConsumedList /\ Produced(t) \in ProducedList
  BY ConsumedType, ProducedType
<1>2. Fired(t, m) \in FiringEvent
  BY <1>1 DEF Fired, FiringEvent, FiringKind
<1>3. /\ Fired(t, m).kind \in {"EffectCompleted", "TransitionFired"}
      /\ Fired(t, m).consumed = Consumed(t, m) /\ Fired(t, m).produced = Produced(t)
  BY DEF Fired
<1>4. \A n : ApplyEvent(n, Fired(t, m)) = AddAll(RemoveAll(n, Consumed(t, m)), Produced(t))
  BY <1>3 DEF ApplyEvent, FiringKind
<1> QED BY <1>2, <1>4 DEF DomainEvent

LEMMA FailedType ==
  ASSUME NEW t \in Transition, NEW m \in Marking, HasBinding(t, m)
  PROVE  /\ FailedOn(t, m) \in DomainEvent
         /\ \A n : ApplyEvent(n, FailedOn(t, m)) = AddAll(RemoveAll(n, Consumed(t, m)), << >>)
<1>1. Consumed(t, m) \in ConsumedList /\ << >> \in ProducedList
  BY ConsumedType DEF ProducedList
<1>2. FailedOn(t, m) \in EffectFailedEvent
  BY <1>1 DEF FailedOn, EffectFailedEvent
<1>3. /\ FailedOn(t, m).kind = "EffectFailed" /\ FailedOn(t, m).tokensConsumed = TRUE
      /\ FailedOn(t, m).consumed = Consumed(t, m) /\ FailedOn(t, m).produced = << >>
  BY DEF FailedOn
<1>4. \A n : ApplyEvent(n, FailedOn(t, m)) = AddAll(RemoveAll(n, Consumed(t, m)), << >>)
  BY <1>3 DEF ApplyEvent, FiringKind
<1> QED BY <1>2, <1>4 DEF DomainEvent

LEMMA RemovedType ==
  ASSUME NEW t \in Transition, NEW m \in Marking, HasBinding(t, m), NEW p \in Pre[t]
  PROVE  /\ RemovedAt(p, m) \in DomainEvent
         /\ p \in Place /\ Head(m[p]).id \in TokenId
         /\ \A n : ApplyEvent(n, RemovedAt(p, m)) = RemoveToken(n, p, Head(m[p]).id)
<1>1. p \in Place /\ Head(m[p]) \in Token
  BY ConsumedType
<1>2. Head(m[p]).id \in TokenId
  BY <1>1 DEF Token
<1>3. RemovedAt(p, m) \in TokenGoneEvent
  BY <1>1, <1>2 DEF RemovedAt, TokenGoneEvent
<1>4. /\ RemovedAt(p, m).kind = "TokenRemoved" /\ RemovedAt(p, m).place = p
      /\ RemovedAt(p, m).id = Head(m[p]).id
  BY DEF RemovedAt
<1>5. \A n : ApplyEvent(n, RemovedAt(p, m)) = RemoveToken(n, p, Head(m[p]).id)
  BY <1>4 DEF ApplyEvent, FiringKind
<1> QED BY <1>1, <1>2, <1>3, <1>5 DEF DomainEvent

-----------------------------------------------------------------------------
(***************************************************************************)
(* The end of a firing: the next round, still under the lock, or the end   *)
(* of the evaluation.                                                      *)
(***************************************************************************)
Rounds(c, r) ==
    /\ job' = [job EXCEPT ![c] = r]
    /\ \/ r.at = "advance" /\ lock' = lock
       \/ r.at \in {"idle", "driver"} /\ lock' = None

LEMMA FinishRounds ==
  ASSUME NEW c \in Caller, NEW result \in {"Quiescent", "LimitReached", "Terminal", "Failed"},
         Finish(c, result)
  PROVE  \E r \in JobRec : Rounds(c, r)
<1> DEFINE r == IF c = Loop THEN [NoJob("driver") EXCEPT !.result = result] ELSE NoJob("idle")
<1>1. NoJob("driver") \in JobRec /\ NoJob("idle") \in JobRec
      /\ NoJob("driver").at = "driver" /\ NoJob("idle").at = "idle"
  BY NoJobType DEF At
<1>2. r \in JobRec /\ r.at \in {"idle", "driver"}
  BY <1>1 DEF JobRec
<1>3. job' = [job EXCEPT ![c] = r] /\ lock' = None
  BY DEF Finish
<1> HIDE DEF r
<1> QED BY <1>2, <1>3 DEF Rounds

LEMMA RoundEnds ==
  ASSUME job \in [Caller -> JobRec], FiresLocked, NEW c \in Caller,
         NextRound(c) \/ GiveUp(c) \/ Abandon(c)
  PROVE  \E r \in JobRec : Rounds(c, r)
<1>1. c \notin Firer
  BY DEF FiresLocked
<1>2. job[c].phase \in {"Normal", "Finalizing"} /\ job[c].steps \in Nat
  BY DEF JobRec
<1>3. NoJob("advance") \in JobRec /\ NoJob("advance").at = "advance"
  BY NoJobType DEF At
<1>4. CASE NextRound(c)
  <2> DEFINE n == job[c].steps + 1
             r == [NoJob("advance") EXCEPT !.phase = job[c].phase, !.steps = n]
  <2>1. n \in Nat
    BY <1>2
  <2>2. \/ job' = [job EXCEPT ![c] = r] /\ lock' = lock
        \/ Finish(c, "LimitReached") \/ Finish(c, "Failed")
    BY <1>1, <1>4 DEF NextRound
  <2> HIDE DEF n
  <2>3. r \in JobRec /\ r.at = "advance"
    BY <1>2, <1>3, <2>1 DEF JobRec
  <2> HIDE DEF r
  <2>4. CASE job' = [job EXCEPT ![c] = r] /\ lock' = lock
    BY <2>3, <2>4 DEF Rounds
  <2>5. CASE Finish(c, "LimitReached") \/ Finish(c, "Failed")
    BY <2>5, FinishRounds
  <2> QED BY <2>2, <2>4, <2>5
<1>5. CASE GiveUp(c)
  <2> DEFINE r == [NoJob("advance") EXCEPT !.phase = "Finalizing"]
  <2>1. \/ job' = [job EXCEPT ![c] = r] /\ lock' = lock
        \/ Finish(c, "Failed")
    BY <1>1, <1>5 DEF GiveUp, StartDrain
  <2>2. r \in JobRec /\ r.at = "advance"
    BY <1>3 DEF JobRec
  <2> HIDE DEF r
  <2>3. CASE job' = [job EXCEPT ![c] = r] /\ lock' = lock
    BY <2>2, <2>3 DEF Rounds
  <2>4. CASE Finish(c, "Failed")
    BY <2>4, FinishRounds
  <2> QED BY <2>1, <2>3, <2>4
<1>6. CASE Abandon(c)
  <2>1. Finish(c, "Quiescent") \/ Finish(c, "Failed")
    BY <1>1, <1>6 DEF Abandon
  <2> QED BY <2>1, FinishRounds
<1> QED BY <1>4, <1>5, <1>6

LEMMA FailuresType ==
  ASSUME job \in [Caller -> JobRec], RestOK, NEW c \in Caller, GiveUp(c) \/ Abandon(c)
  PROVE  failures' \subseteq {"Normal", "Finalizing", "fired"}
<1>1. job[c].phase \in {"Normal", "Finalizing"} /\ failures \subseteq {"Normal", "Finalizing", "fired"}
  BY DEF JobRec, RestOK
<1> QED BY <1>1 DEF GiveUp, Abandon

(***************************************************************************)
(* A round that ends keeps the invariant.                                  *)
(***************************************************************************)
LEMMA RoundKeeps ==
  ASSUME JInv, NEW c \in Caller, Busy(job[c]), job[c].at # "advance",
         NEW r \in JobRec, Rounds(c, r), CIInv', RestOK', UNCHANGED call,
         defers' \in [Transition -> 0..(MaxDefers + 1)],
         \A t \in Transition :
            defers'[t] > MaxDefers => defers[t] > MaxDefers /\ ~Rejecting(job[c], t)
  PROVE  JInv'
<1>1. call[c].pc = "idle"
  BY DEF JInv, Locked
<1>2. Aimed(r)
  BY DEF Rounds, Aimed
<1>3. job' = [job EXCEPT ![c] = r]
  BY DEF Rounds
<1>4. (Busy(r) /\ lock' = lock) \/ (~Busy(r) /\ lock' = None)
  BY DEF Rounds, Busy
<1>5. c \in Evaluator
  BY PastAdvance DEF JInv
<1> QED BY <1>1, <1>2, <1>3, <1>4, <1>5, HolderMoves

(***************************************************************************)
(* A step of the lock's holder inside its evaluation keeps it too.         *)
(***************************************************************************)
LEMMA StayKeeps ==
  ASSUME JInv, NEW c \in Caller, Busy(job[c]), job[c].at # "advance",
         NEW r \in JobRec, job' = [job EXCEPT ![c] = r], Busy(r), Aimed(r),
         CIInv', RestOK', UNCHANGED <<call, lock>>,
         defers' \in [Transition -> 0..(MaxDefers + 1)],
         \A t \in Transition :
            defers'[t] > MaxDefers =>
                Rejecting(r, t) \/ (defers[t] > MaxDefers /\ ~Rejecting(job[c], t))
  PROVE  JInv'
<1>1. call[c].pc = "idle"
  BY DEF JInv, Locked
<1>2. c \in Evaluator
  BY PastAdvance DEF JInv
<1> QED BY <1>1, <1>2, HolderMoves

LEMMA JFacts ==
  ASSUME JInv
  PROVE  /\ CIInv /\ Locked /\ WithinBudget /\ RestOK
         /\ job \in [Caller -> JobRec]
         /\ lock \in Evaluator \cup {None}
         /\ defers \in [Transition -> 0..(MaxDefers + 1)]
         /\ \A c \in Caller : job[c] \in JobRec /\ Aimed(job[c])
BY Types DEF JInv

LEMMA CacheIdle ==
  ASSUME CIInv, UNCHANGED cvars
  PROVE  CIInv'
BY DEF cvars, CIInv, CTypeOK

\* A step that moves no job.
LEMMA JobsStay ==
  ASSUME JInv, CIInv', RestOK', UNCHANGED <<job, lock, defers>>,
         \A c \in Caller : call'[c].pc # "idle" => call[c].pc # "idle" \/ job[c].at = "advance"
  PROVE  JInv'
<1>1. TypeOK'
  BY JFacts DEF TypeOK, JobRec, At, RestOK, CIInv
<1>2. \A c \in Caller : Aimed(job'[c])
  BY JFacts
<1>3. Locked'
  BY JFacts DEF Locked
<1>4. WithinBudget'
  BY JFacts DEF WithinBudget
<1> QED BY <1>1, <1>2, <1>3, <1>4 DEF JInv

\* A step of an actor outside an evaluation that leaves it outside.
LEMMA OutsideMoves ==
  ASSUME JInv, NEW c \in Evaluator, ~Busy(job[c]), NEW r \in JobRec, ~Busy(r),
         job' = [job EXCEPT ![c] = r], CIInv', RestOK', UNCHANGED <<call, lock, defers>>
  PROVE  JInv'
<1>1. Aimed(r) /\ \A t : ~Rejecting(job[c], t)
  BY DEF Aimed, Busy, Rejecting
<1>2. c \in Caller /\ call[c].pc = "idle"
  BY JFacts, Actors DEF Locked, Busy
<1>3. /\ lock' \in Evaluator \cup {None}
      /\ \A d \in Evaluator : d # c /\ Busy(job[d]) => lock' = d
      /\ defers' \in [Transition -> 0..(MaxDefers + 1)]
  BY JFacts, Actors DEF Locked
<1> QED BY <1>1, <1>2, <1>3, JobMoves

LEMMA CreateTokenJ ==
  ASSUME JInv, NEW p \in Injected, CreateToken(p)
  PROVE  JInv' /\ UNCHANGED <<cache, call, memo, job>>
<1>1. p \in Place /\ CIInv /\ RestOK /\ minted \in Nat
  BY JFacts, TopologyAssumption DEF RestOK
<1>2. Emit(Created(p)) /\ Mints(1) /\ kicks' = {"bridge", "create"}
      /\ UNCHANGED <<job, memo, lock, permit, mode, defers, verdict, runs, failures>>
  BY DEF CreateToken, Created
<1>3. Created(p) \in DomainEvent /\ minted' \in Nat
  BY <1>1, <1>2, CreatedType
<1>4. CIInv' /\ UNCHANGED <<cache, call>>
  BY <1>1, <1>2, <1>3, EmitKeeps
<1>5. RestOK'
  BY <1>1, <1>2, <1>3 DEF RestOK
<1> QED BY <1>2, <1>4, <1>5, JobsStay

LEMMA KickJ ==
  ASSUME JInv, NEW k, Kick(k)
  PROVE  JInv' /\ UNCHANGED <<cvars, job, memo, minted, runs>>
<1>1. CIInv' /\ UNCHANGED <<cvars, job, lock, defers, memo, minted, runs>>
  BY JFacts, CacheIdle DEF Kick
<1>2. RestOK'
  BY JFacts DEF Kick, RestOK
<1> QED BY <1>1, <1>2, JobsStay DEF cvars

LEMMA SetRunModeJ ==
  ASSUME JInv, NEW m \in {"Running", "Stopped"}, SetRunMode(m)
  PROVE  JInv' /\ UNCHANGED <<cvars, job, memo, minted, runs>>
<1>1. CIInv' /\ UNCHANGED <<cvars, job, lock, defers, memo, minted, runs>>
  BY JFacts, CacheIdle DEF SetRunMode
<1>2. RestOK'
  BY JFacts DEF SetRunMode, RestOK
<1> QED BY <1>1, <1>2, JobsStay DEF cvars

\* The steps outside an evaluation: what they have in common.
Outside(c) ==
    /\ ~Busy(job[c])
    /\ \E r \in JobRec : r.at \notin {"select", "mark", "fire", "commit"}
                            /\ job' = [job EXCEPT ![c] = r]
    /\ UNCHANGED <<cache, call, memo, minted, runs>>

LEMMA WakeJ ==
  ASSUME JInv, FiresLocked, Wake
  PROVE  JInv' /\ Loop \in Caller /\ Outside(Loop) /\ UNCHANGED cvars
<1> DEFINE a == IF mode = "Running" THEN "lock" ELSE "wait"
           r == [job[Loop] EXCEPT !.at = a]
<1>1. Loop \in Caller /\ Loop \in Evaluator /\ job \in [Caller -> JobRec]
  BY JFacts, Actors
<1>2. job' = [job EXCEPT ![Loop] = r] /\ job[Loop].at = "wait"
  BY <1>1 DEF Wake
<1>3. a \in {"lock", "wait"} /\ a \in At
  BY DEF At
<1> HIDE DEF a
<1>4. r \in JobRec /\ r.at = a
  BY <1>1, <1>3 DEF JobRec
<1> HIDE DEF r
<1>5. ~Busy(r) /\ ~Busy(job[Loop])
  BY <1>2, <1>3, <1>4 DEF Busy
<1>6. CIInv' /\ UNCHANGED <<cvars, call, cache, memo, minted, runs, lock, defers>>
  BY JFacts, CacheIdle DEF Wake, cvars
<1>7. RestOK'
  BY JFacts DEF Wake, RestOK
<1>8. JInv'
  BY <1>1, <1>2, <1>4, <1>5, <1>6, <1>7, OutsideMoves
<1> QED BY <1>1, <1>2, <1>3, <1>4, <1>5, <1>6, <1>8 DEF Outside

LEMMA RequestJ ==
  ASSUME JInv, FiresLocked, NEW c \in Caller, Request(c)
  PROVE  JInv' /\ Outside(c) /\ UNCHANGED cvars
<1> DEFINE a == IF c \in HttpEval THEN "lock" ELSE "advance"
           r == [NoJob(a) EXCEPT !.chosen = None]
<1>1. c \notin Firer /\ (a = "advance" => c \notin Evaluator) /\ (a = "lock" => c \in Evaluator)
  BY Actors DEF Request, FiresLocked, Evaluator
<1>2. job' = [job EXCEPT ![c] = r] /\ job[c].at = "idle"
  BY <1>1 DEF Request
<1>3. a \in {"lock", "advance"}
  OBVIOUS
<1> HIDE DEF a
<1>4. r \in JobRec /\ r.at = a
  <2>1. NoJob(a) \in JobRec /\ NoJob(a).at = a
    BY <1>3, NoJobType DEF At
  <2> QED BY <2>1 DEF JobRec
<1> HIDE DEF r
<1>5. ~Busy(job[c]) /\ (a = "lock" => ~Busy(r)) /\ Aimed(r) /\ \A t : ~Rejecting(job[c], t)
  BY <1>2, <1>3, <1>4 DEF Busy, Aimed, Rejecting
<1>6. CIInv' /\ UNCHANGED <<cvars, call, cache, memo, minted, runs, lock, defers>>
  BY JFacts, CacheIdle DEF Request, cvars
<1>7. RestOK'
  BY JFacts DEF Request, RestOK
<1>8. call[c].pc = "idle" /\ \A d \in Evaluator : Busy(job[d]) => lock = d
  BY <1>2, JFacts, Actors DEF Locked
<1>9. lock' \in Evaluator \cup {None} /\ defers' \in [Transition -> 0..(MaxDefers + 1)]
  BY <1>6, JFacts
<1>10. JInv'
  BY <1>1, <1>2, <1>3, <1>4, <1>5, <1>6, <1>7, <1>8, <1>9, JobMoves
<1> QED BY <1>2, <1>3, <1>4, <1>5, <1>6, <1>10 DEF Outside

LEMMA DriveJ ==
  ASSUME JInv, FiresLocked, Drive
  PROVE  JInv' /\ Loop \in Caller /\ Outside(Loop) /\ (UNCHANGED cvars \/ Emit(Audit))
<1>1. Loop \in Caller /\ Loop \in Evaluator /\ job[Loop].at = "driver"
  BY Actors DEF Drive
<1>2. PICK a \in {"wait", "stopped"} : job' = [job EXCEPT ![Loop] = NoJob(a)]
  BY DEF Drive
<1>3. NoJob(a) \in JobRec /\ NoJob(a).at = a
  BY NoJobType DEF At
<1>4. ~Busy(NoJob(a)) /\ ~Busy(job[Loop])
  BY <1>1, <1>3 DEF Busy
<1>5. (UNCHANGED cvars \/ Emit(Audit)) /\ UNCHANGED <<memo, minted, runs, lock, defers>>
  BY DEF Drive
<1>6. CIInv' /\ UNCHANGED <<call, cache>>
  BY <1>5, JFacts, CacheIdle, EmitKeeps, AuditDoesNothing DEF cvars
<1>7. RestOK'
  BY JFacts DEF Drive, RestOK
<1>8. JInv'
  BY <1>1, <1>2, <1>3, <1>4, <1>5, <1>6, <1>7, OutsideMoves
<1> QED BY <1>1, <1>2, <1>3, <1>4, <1>5, <1>6, <1>8 DEF Outside

LEMMA TryLockJ ==
  ASSUME JInv, FiresLocked, NEW c \in Caller, TryLock(c)
  PROVE  JInv' /\ Outside(c) /\ UNCHANGED cvars
<1>1. job[c].at = "lock" /\ UNCHANGED <<cvars, call, cache, memo, minted, runs, defers>>
  BY DEF TryLock, cvars
<1>2. CIInv' /\ RestOK'
  BY <1>1, JFacts, CacheIdle DEF TryLock, RestOK
<1>3. ~Busy(job[c]) /\ c \in Evaluator
  BY <1>1, JFacts DEF Busy, Locked
<1>4. CASE lock = None
  <2>1. lock' = c /\ job' = [job EXCEPT ![c] = NoJob("advance")]
    BY <1>4 DEF TryLock
  <2>2. NoJob("advance") \in JobRec /\ NoJob("advance").at = "advance"
    BY NoJobType DEF At
  <2>3. Aimed(NoJob("advance"))
    BY <2>2 DEF Aimed
  <2>4. \A d \in Evaluator : ~Busy(job[d])
    BY <1>4, JFacts, Actors DEF Locked
  <2>5. lock' \in Evaluator \cup {None}
    BY <1>3, <2>1
  <2>6. \A t : ~Rejecting(job[c], t)
    BY <1>1 DEF Rejecting
  <2>7. defers' \in [Transition -> 0..(MaxDefers + 1)]
    BY <1>1, JFacts
  <2>8. JInv'
    BY <1>1, <1>2, <1>3, <2>1, <2>2, <2>3, <2>4, <2>5, <2>6, <2>7, JobMoves
  <2> QED BY <1>1, <1>3, <2>1, <2>2, <2>8 DEF Outside
<1>5. CASE lock # None
  <2>1. PICK a \in {"driver", "idle"} : job' = [job EXCEPT ![c] = NoJob(a)]
    BY <1>5 DEF TryLock
  <2>2. UNCHANGED lock
    BY <1>5 DEF TryLock
  <2>3. NoJob(a) \in JobRec /\ NoJob(a).at = a
    BY NoJobType DEF At
  <2>4. ~Busy(NoJob(a))
    BY <2>3 DEF Busy
  <2>5. JInv'
    BY <1>1, <1>2, <1>3, <2>1, <2>2, <2>3, <2>4, OutsideMoves
  <2> QED BY <1>1, <1>3, <2>1, <2>3, <2>5 DEF Outside
<1> QED BY <1>4, <1>5

-----------------------------------------------------------------------------
(***************************************************************************)
(* The steps of an evaluation: advance_marking, the memo, the selection.   *)
(***************************************************************************)
LEMMA OneCall ==
  ASSUME CIInv, NEW c \in Caller, Begin(c) \/ Advance(c) \/ Return(c)
  PROVE  /\ CIInv'
         /\ \A d \in Caller : d # c => call'[d] = call[d]
         /\ UNCHANGED <<store, log, resetting>>
<1>1. CIInv'
  BY BeginKeeps, LookUpKeeps, SliceKeeps, RebuildKeeps, InstallKeeps, FoldKeeps, ReturnKeeps
     DEF Advance
<1>2. call \in [Caller -> CallState]
  BY DEF CIInv, CTypeOK
<1>3. \A d \in Caller : d # c => call'[d] = call[d]
  BY <1>2 DEF Advance, Begin, LookUp, Slice, Rebuild, Install, Fold, Return
<1>4. UNCHANGED <<store, log, resetting>>
  BY DEF Advance, Begin, LookUp, Slice, Rebuild, Install, Fold, Return
<1> QED BY <1>1, <1>3, <1>4

\* A step of advance_marking, by the lock's holder or by a reader.
Calling(c) ==
    /\ job[c].at = "advance"
    /\ \A d \in Caller : d # c => call'[d] = call[d]
    /\ UNCHANGED <<store, log, resetting, evars>>

LEMMA AdvanceJ ==
  ASSUME JInv, NEW c \in Caller, StartAdvance(c) \/ StepAdvance(c)
  PROVE  JInv' /\ Calling(c)
<1>1. job[c].at = "advance"
  BY JFacts DEF StartAdvance, StepAdvance, Advance, LookUp, Slice, Rebuild, Install, Fold,
                Locked
<1>2. Begin(c) \/ Advance(c)
  BY DEF StartAdvance, StepAdvance
<1>3. CIInv' /\ UNCHANGED <<store, log, resetting, evars>>
      /\ \A d \in Caller : d # c => call'[d] = call[d]
  BY <1>2, JFacts, OneCall DEF StartAdvance, StepAdvance
<1>4. RestOK'
  BY <1>3, JFacts DEF evars, RestOK
<1>5. JInv'
  BY <1>1, <1>3, <1>4, JobsStay DEF evars
<1> QED BY <1>1, <1>3, <1>5 DEF Calling

LEMMA ReconcileJ ==
  ASSUME JInv, FiresLocked, NEW c \in Caller, Reconcile(c)
  PROVE  /\ JInv'
         /\ call[c].pc = "done" /\ job[c].at = "advance" /\ call[c].snap \in CacheEntry
         /\ c \in Evaluator =>
               job' = [job EXCEPT ![c] = [job[c] EXCEPT !.at = "select",
                                                        !.marking = call[c].snap.marking]]
         /\ c \notin Evaluator => job' = [job EXCEPT ![c] = NoJob("idle")]
         /\ call' = [call EXCEPT ![c] = NoCall]
         /\ UNCHANGED <<store, cache, log, resetting, minted, runs>>
<1> DEFINE m == call[c].snap.marking
           r == [job[c] EXCEPT !.at = "select", !.marking = m]
<1>1. job \in [Caller -> JobRec] /\ CIInv /\ Locked
  BY JFacts
<1>2. call[c].pc = "done" /\ job[c].at = "advance" /\ Busy(job[c])
  BY <1>1 DEF Reconcile, Locked, Busy
<1>3. /\ c \in Evaluator => job' = [job EXCEPT ![c] = r]
      /\ c \notin Evaluator => job' = [job EXCEPT ![c] = NoJob("idle")]
  BY <1>1, Actors DEF Reconcile
<1>4. Coherent(call[c].snap, log)
  BY <1>1, <1>2 DEF CIInv, CallSound
<1>5. call[c].snap \in CacheEntry /\ m \in Marking
  BY <1>4 DEF Coherent, CacheEntry
<1>6. call' = [call EXCEPT ![c] = NoCall] /\ UNCHANGED <<store, cache, log, resetting>>
  BY DEF Reconcile, Return
<1>7. CIInv' /\ \A d \in Caller : d # c => call'[d] = call[d]
  BY <1>1, OneCall DEF Reconcile
<1>8. call'[c].pc = "idle"
  BY <1>1, <1>6 DEF CIInv, CTypeOK, NoCall
<1> HIDE DEF m
<1>9. r \in JobRec /\ r.at = "select"
  BY <1>1, <1>5, ZenonT(60) DEF JobRec, At
<1>10. memo' \in [empty : SUBSET Transition, built : BOOLEAN]
  <2>1. memo \in [empty : SUBSET Transition, built : BOOLEAN]
    BY JFacts DEF RestOK
  <2>2. memo' = Reconciled(call[c].delta, call[c].events)
    BY DEF Reconcile
  <2> QED BY <2>1, <2>2 DEF Reconciled
<1>11. RestOK' /\ UNCHANGED <<lock, defers, minted, runs>>
  BY <1>10, JFacts DEF Reconcile, RestOK
<1>12. defers' \in [Transition -> 0..(MaxDefers + 1)] /\ lock' \in Evaluator \cup {None}
  BY <1>11, JFacts
<1>13. Busy(r) /\ Aimed(r) /\ \A t : ~Rejecting(job[c], t)
  BY <1>2, <1>9 DEF Busy, Aimed, Rejecting
<1> HIDE DEF r
<1>14. CASE c \in Evaluator
  <2>1. JInv'
    BY <1>2, <1>3, <1>7, <1>8, <1>9, <1>11, <1>12, <1>13, <1>14, HolderMoves
  <2> QED BY <1>2, <1>3, <1>5, <1>6, <1>11, <1>14, <2>1 DEF m, r
<1>15. CASE c \notin Evaluator
  <2>1. NoJob("idle") \in JobRec /\ NoJob("idle").at = "idle"
    BY NoJobType DEF At
  <2>2. Aimed(NoJob("idle"))
    BY <2>1 DEF Aimed
  <2>3. \A d \in Evaluator : Busy(job[d]) => lock' = d
    BY <1>1, <1>11, Actors DEF Locked
  <2>4. JInv'
    BY <1>3, <1>7, <1>8, <1>11, <1>12, <1>13, <1>15, <2>1, <2>2, <2>3, JobMoves
  <2> QED BY <1>2, <1>3, <1>5, <1>6, <1>11, <1>15, <2>4
<1> QED BY <1>14, <1>15

Eligible(j) ==
    {t \in Transition : (t \in Finalizer) # (j.phase = "Normal")}
        \ (IF j.phase = "Normal" THEN memo.empty ELSE {})

BoundIn(j) == {t \in Eligible(j) : HasBinding(t, j.marking)}

NewlyIn(j) == IF j.phase = "Normal" THEN Eligible(j) \ BoundIn(j) ELSE {}

LEMMA SelectNextJ ==
  ASSUME JInv, FiresLocked, NEW c \in Caller, SelectNext(c)
  PROVE  /\ JInv'
         /\ job[c].at = "select"
         /\ \E t : job' = [job EXCEPT ![c] = [job[c] EXCEPT !.at = "mark", !.chosen = t,
                                                            !.newly = NewlyIn(job[c])]]
         /\ UNCHANGED <<cvars, memo, minted, runs>>
<1>1. job \in [Caller -> JobRec] /\ job[c] \in JobRec
  BY JFacts
<1>2. job[c].at = "select" /\ UNCHANGED <<cvars, memo, minted, runs, lock, defers>>
  BY DEF SelectNext
<1>3. PICK t \in Best(BoundIn(job[c]), job[c].marking) :
         job' = [job EXCEPT ![c].at = "mark", ![c].chosen = t, ![c].newly = NewlyIn(job[c])]
  BY DEF SelectNext, BoundIn, NewlyIn, Eligible
<1> DEFINE N == NewlyIn(job[c])
           r == [job[c] EXCEPT !.at = "mark", !.chosen = t, !.newly = N]
<1>4. job' = [job EXCEPT ![c] = r]
  BY <1>1, <1>3
<1>5. t = None \/ (t \in Transition /\ HasBinding(t, job[c].marking))
  BY <1>3 DEF Best, BoundIn, Eligible
<1>6. N \subseteq Transition
  BY DEF NewlyIn, Eligible
<1> HIDE DEF N
<1>7. /\ r \in JobRec /\ r.at = "mark" /\ r.chosen = t /\ r.newly = N
      /\ r.marking = job[c].marking
  BY <1>1, <1>5, <1>6 DEF JobRec, At
<1> HIDE DEF r
<1>8. Busy(r) /\ Aimed(r) /\ Busy(job[c]) /\ \A u : ~Rejecting(job[c], u)
  BY <1>2, <1>5, <1>6, <1>7 DEF Busy, Aimed, Rejecting
<1>9. CIInv' /\ RestOK' /\ UNCHANGED call
  BY <1>2, JFacts, CacheIdle DEF SelectNext, RestOK, cvars
<1>10. defers' \in [Transition -> 0..(MaxDefers + 1)]
  BY <1>2, JFacts
<1>11. JInv'
  BY <1>2, <1>4, <1>7, <1>8, <1>9, <1>10, StayKeeps
<1> QED BY <1>2, <1>4, <1>11 DEF r, N

\* The steps after the selection: what they have in common.
Firing(c) ==
    /\ Busy(job[c]) /\ job[c].at \notin {"advance", "select"}
    /\ \E r \in JobRec : r.at \notin {"select", "mark"} /\ job' = [job EXCEPT ![c] = r]
    /\ UNCHANGED <<cache, call>>

LEMMA RoundFires ==
  ASSUME NEW c \in Caller, Busy(job[c]), job[c].at \notin {"advance", "select"},
         NEW r \in JobRec, Rounds(c, r), UNCHANGED <<cache, call>>
  PROVE  Firing(c)
BY DEF Firing, Rounds

\* The next job is in an evaluation's marking only if this one is, and in the same.
Quiet(c) ==
    \E r \in JobRec :
        /\ job' = [job EXCEPT ![c] = r]
        /\ r.at \in {"select", "mark", "fire", "commit"} =>
              r.marking = job[c].marking /\ job[c].at \in {"select", "mark", "fire", "commit"}

LEMMA RoundQuiet ==
  ASSUME NEW c \in Caller, NEW r \in JobRec, Rounds(c, r)
  PROVE  Quiet(c)
BY DEF Quiet, Rounds

LEMMA MarkEmptyJ ==
  ASSUME JInv, FiresLocked, NEW c \in Caller, MarkEmpty(c)
  PROVE  /\ JInv' /\ Firing(c) /\ Quiet(c)
         /\ job[c].at = "mark"
         /\ memo' = [memo EXCEPT !.empty = @ \cup job[c].newly]
         /\ UNCHANGED <<cvars, minted, runs>>
<1>1. job \in [Caller -> JobRec] /\ job[c] \in JobRec /\ Aimed(job[c])
  BY JFacts
<1>2. /\ job[c].at = "mark" /\ UNCHANGED <<cvars, minted, runs, defers>>
      /\ memo' = [memo EXCEPT !.empty = @ \cup job[c].newly]
  BY DEF MarkEmpty
<1>3. Busy(job[c]) /\ \A u : ~Rejecting(job[c], u)
  BY <1>2 DEF Busy, Rejecting
<1>4. job[c].newly \subseteq Transition
  BY <1>1, <1>2 DEF Aimed
<1>5. CIInv' /\ RestOK' /\ UNCHANGED <<cache, call>>
  BY <1>2, <1>4, JFacts, CacheIdle DEF MarkEmpty, RestOK, cvars
<1>6. defers' \in [Transition -> 0..(MaxDefers + 1)]
  BY <1>2, JFacts
<1>7. CASE job[c].chosen # None
  <2> DEFINE r == [job[c] EXCEPT !.at = "fire"]
  <2>1. job' = [job EXCEPT ![c] = r] /\ UNCHANGED lock
    BY <1>1, <1>7 DEF MarkEmpty
  <2>2. /\ r \in JobRec /\ r.at = "fire" /\ r.chosen = job[c].chosen
        /\ r.marking = job[c].marking
    BY <1>1 DEF JobRec, At
  <2> HIDE DEF r
  <2>3. Aimed(r) /\ Busy(r)
    BY <1>1, <1>2, <1>7, <2>2 DEF Aimed, Busy
  <2>4. JInv'
    BY <1>2, <1>3, <1>5, <1>6, <2>1, <2>2, <2>3, StayKeeps
  <2>5. Quiet(c)
    BY <1>2, <2>1, <2>2 DEF Quiet
  <2> QED BY <1>2, <1>3, <1>5, <2>1, <2>2, <2>4, <2>5 DEF Firing
<1>8. CASE job[c].chosen = None
  <2>1. \E result \in {"Failed", "Terminal", "Quiescent"} : Finish(c, result)
    BY <1>8 DEF MarkEmpty
  <2>2. PICK r \in JobRec : Rounds(c, r)
    BY <2>1, FinishRounds
  <2>3. JInv'
    BY <1>2, <1>3, <1>5, <1>6, <2>2, RoundKeeps
  <2> QED BY <1>2, <1>3, <1>5, <2>2, <2>3, RoundFires, RoundQuiet
<1> QED BY <1>7, <1>8

-----------------------------------------------------------------------------
(***************************************************************************)
(* Firing and its outcomes.                                                *)
(***************************************************************************)
LEMMA FireJ ==
  ASSUME JInv, FiresLocked, NEW c \in Caller, Fire(c)
  PROVE  /\ JInv' /\ Firing(c)
         /\ job[c].at = "fire" /\ job[c].chosen \in Transition
         /\ HasBinding(job[c].chosen, job[c].marking)
         /\ \E o \in Outcomes :
               /\ job' = [job EXCEPT ![c] = [job[c] EXCEPT !.at = "commit", !.outcome = o]]
               /\ runs' = IF job[c].chosen \in Effect /\ o \in {"ok", "fail"}
                          THEN [i \in DOMAIN runs |->
                                  IF i \in ConsumedIds(job[c].chosen, job[c].marking)
                                  THEN runs[i] + 1 ELSE runs[i]]
                          ELSE runs
         /\ UNCHANGED cvars \/ Emit(Audit)
         /\ UNCHANGED <<memo, minted>>
<1> DEFINE t == job[c].chosen
           m == job[c].marking
<1>1. job \in [Caller -> JobRec] /\ job[c] \in JobRec /\ Aimed(job[c])
  BY JFacts
<1>2. job[c].at = "fire" /\ UNCHANGED <<memo, lock, permit, mode, minted, verdict, failures>>
  BY DEF Fire
<1>3. t \in Transition /\ HasBinding(t, m)
  BY <1>1, <1>2 DEF Aimed
<1>4. RunTransition(c, t)
  BY <1>3 DEF Fire
<1>5. PICK o \in Outcomes :
        /\ job' = [job EXCEPT ![c].at = "commit", ![c].outcome = o]
        /\ IF t \in Hooked /\ o # "transient"
           THEN Emit(Audit) /\ kicks' = kicks \cup {"bridge"}
           ELSE UNCHANGED <<cvars, kicks>>
        /\ defers' = IF t \in Hooked /\ o \in {"ok", "fail"}
                     THEN [defers EXCEPT ![t] = 0] ELSE defers
        /\ runs' = IF t \in Effect /\ o \in {"ok", "fail"}
                   THEN [i \in DOMAIN runs |->
                           IF i \in ConsumedIds(t, m) THEN runs[i] + 1 ELSE runs[i]]
                   ELSE runs
  BY <1>4 DEF RunTransition
<1> DEFINE r == [job[c] EXCEPT !.at = "commit", !.outcome = o]
<1>6. job' = [job EXCEPT ![c] = r]
  BY <1>1, <1>5
<1>7. /\ r \in JobRec /\ r.at = "commit" /\ r.outcome = o /\ r.chosen = t /\ r.marking = m
      /\ r.newly = job[c].newly
  BY <1>1 DEF JobRec, At
<1> HIDE DEF r
<1>8. UNCHANGED cvars \/ Emit(Audit)
  BY <1>5
<1>9. CIInv' /\ UNCHANGED <<cache, call>>
  BY <1>8, JFacts, CacheIdle, EmitKeeps, AuditDoesNothing DEF cvars
<1>10. runs' \in [TokenId -> Nat]
  <2>1. runs \in [TokenId -> Nat]
    BY JFacts DEF RestOK
  <2> HIDE DEF t, m
  <2> QED BY <1>5, <2>1
<1>11. kicks' \subseteq {"bridge", "create"}
  BY <1>5, JFacts DEF RestOK
<1>12. RestOK'
  BY <1>2, <1>10, <1>11, JFacts DEF RestOK
<1>13. /\ defers' \in [Transition -> 0..(MaxDefers + 1)]
       /\ \A u \in Transition : defers'[u] > MaxDefers => defers[u] > MaxDefers
  <2>1. defers \in [Transition -> 0..(MaxDefers + 1)] /\ MaxDefers \in Nat
    BY JFacts, BudgetAssumption
  <2>2. defers' = defers \/ defers' = [defers EXCEPT ![t] = 0]
    BY <1>5
  <2> HIDE DEF t
  <2> QED BY <1>3, <2>1, <2>2
<1>14. Busy(r) /\ Aimed(r) /\ Busy(job[c]) /\ \A u : ~Rejecting(job[c], u)
  BY <1>2, <1>3, <1>7 DEF Busy, Aimed, Rejecting
<1>15. JInv'
  BY <1>2, <1>6, <1>7, <1>9, <1>12, <1>13, <1>14, StayKeeps
<1>16. Firing(c)
  BY <1>2, <1>6, <1>7, <1>9, <1>14 DEF Firing
<1> QED BY <1>2, <1>3, <1>5, <1>6, <1>8, <1>15, <1>16 DEF r

LEMMA CommitOkJ ==
  ASSUME JInv, FiresLocked, NEW c \in Caller, CommitOk(c)
  PROVE  /\ JInv' /\ Firing(c)
         /\ job[c].at = "commit" /\ job[c].outcome = "ok" /\ job[c].chosen \in Transition
         /\ HasBinding(job[c].chosen, job[c].marking)
         /\ \E r \in JobRec : job' = [job EXCEPT ![c] = r]
                                /\ r.at \notin {"select", "mark", "fire", "commit"}
         /\ Emit(Fired(job[c].chosen, job[c].marking))
         /\ Mints(Cardinality(Post[job[c].chosen]))
         /\ UNCHANGED <<memo, runs>>
<1> DEFINE t == job[c].chosen
           m == job[c].marking
<1>1. job \in [Caller -> JobRec] /\ job[c] \in JobRec /\ Aimed(job[c])
  BY JFacts
<1>2. /\ job[c].at = "commit" /\ job[c].outcome = "ok"
      /\ Emit(Fired(t, m)) /\ Mints(Cardinality(Post[t])) /\ kicks' = kicks \cup {"bridge"}
      /\ UNCHANGED <<memo, permit, mode, defers, verdict, runs, failures>>
  BY DEF CommitOk, Fired
<1>3. t \in Transition /\ HasBinding(t, m) /\ m \in Marking /\ minted \in Nat
  BY <1>1, <1>2, JFacts DEF Aimed, JobRec, RestOK
<1>4. Fired(t, m) \in DomainEvent /\ minted' \in Nat
  BY <1>2, <1>3, FiredType, ProducedType
<1>5. CIInv' /\ UNCHANGED <<cache, call>>
  BY <1>2, <1>4, JFacts, EmitKeeps
<1>6. RestOK'
  BY <1>2, <1>4, JFacts DEF RestOK
<1>7. Busy(job[c]) /\ \A u : ~Rejecting(job[c], u)
  BY <1>2 DEF Busy, Rejecting
<1>8. defers' \in [Transition -> 0..(MaxDefers + 1)]
  BY <1>2, JFacts
<1>9. \/ job' = [job EXCEPT ![c].at = "bridgeOut"] /\ UNCHANGED lock
      \/ NextRound(c)
  BY DEF CommitOk
<1>10. CASE job' = [job EXCEPT ![c].at = "bridgeOut"] /\ UNCHANGED lock
  <2> DEFINE r == [job[c] EXCEPT !.at = "bridgeOut"]
  <2>1. job' = [job EXCEPT ![c] = r] /\ UNCHANGED lock
    BY <1>1, <1>10
  <2>2. r \in JobRec /\ r.at = "bridgeOut"
    BY <1>1 DEF JobRec, At
  <2> HIDE DEF r
  <2>3. Aimed(r) /\ Busy(r)
    BY <2>2 DEF Aimed, Busy
  <2>4. JInv'
    BY <1>2, <1>5, <1>6, <1>7, <1>8, <2>1, <2>2, <2>3, StayKeeps
  <2>5. Firing(c)
    BY <1>2, <1>5, <1>7, <2>1, <2>2 DEF Firing
  <2> QED BY <1>2, <1>3, <2>1, <2>2, <2>4, <2>5
<1>11. CASE NextRound(c)
  <2>1. PICK r \in JobRec : Rounds(c, r)
    BY <1>1, <1>11, RoundEnds
  <2>2. JInv'
    BY <1>2, <1>5, <1>6, <1>7, <1>8, <2>1, RoundKeeps
  <2>3. Firing(c)
    BY <1>2, <1>5, <1>7, <2>1, RoundFires
  <2>4. job' = [job EXCEPT ![c] = r] /\ r.at \notin {"select", "mark", "fire", "commit"}
    BY <2>1 DEF Rounds
  <2> QED BY <1>2, <1>3, <2>2, <2>3, <2>4
<1> QED BY <1>9, <1>10, <1>11

LEMMA BridgeOutJ ==
  ASSUME JInv, FiresLocked, NEW c \in Caller, BridgeOut(c)
  PROVE  /\ JInv' /\ Firing(c) /\ Quiet(c)
         /\ job[c].at = "bridgeOut"
         /\ Emit(Audit)
         /\ UNCHANGED <<memo, minted, runs>>
<1>1. /\ job[c].at = "bridgeOut" /\ Emit(Audit) /\ kicks' = kicks \cup {"bridge"}
      /\ NextRound(c)
      /\ UNCHANGED <<memo, permit, mode, defers, minted, verdict, runs, failures>>
  BY DEF BridgeOut
<1>2. CIInv' /\ UNCHANGED <<cache, call>>
  BY <1>1, JFacts, EmitKeeps, AuditDoesNothing
<1>3. RestOK'
  BY <1>1, JFacts DEF RestOK
<1>4. Busy(job[c]) /\ \A u : ~Rejecting(job[c], u)
  BY <1>1 DEF Busy, Rejecting
<1>5. PICK r \in JobRec : Rounds(c, r)
  BY <1>1, JFacts, RoundEnds
<1>6. defers' \in [Transition -> 0..(MaxDefers + 1)]
  BY <1>1, JFacts
<1>7. JInv'
  BY <1>1, <1>2, <1>3, <1>4, <1>5, <1>6, RoundKeeps
<1> QED BY <1>1, <1>2, <1>4, <1>5, <1>7, RoundFires, RoundQuiet

LEMMA CommitFailJ ==
  ASSUME JInv, FiresLocked, NEW c \in Caller, CommitFail(c)
  PROVE  /\ JInv' /\ Firing(c)
         /\ job[c].at = "commit" /\ job[c].outcome = "fail" /\ job[c].chosen \in Transition
         /\ HasBinding(job[c].chosen, job[c].marking)
         /\ \E r \in JobRec : job' = [job EXCEPT ![c] = r]
                                /\ r.at \notin {"select", "mark", "fire", "commit"}
         /\ IF job[c].chosen \in Effect THEN Emit(FailedOn(job[c].chosen, job[c].marking))
            ELSE Emit(Audit)
         /\ UNCHANGED <<memo, minted, runs>>
<1> DEFINE t == job[c].chosen
           m == job[c].marking
<1>1. job \in [Caller -> JobRec] /\ job[c] \in JobRec /\ Aimed(job[c])
  BY JFacts
<1>2. /\ job[c].at = "commit" /\ job[c].outcome = "fail" /\ kicks' = kicks \cup {"bridge"}
      /\ UNCHANGED <<memo, permit, mode, defers, minted, verdict, runs>>
  BY DEF CommitFail
<1>3. t \in Transition /\ HasBinding(t, m) /\ m \in Marking
  BY <1>1, <1>2 DEF Aimed, JobRec
<1>4. Busy(job[c]) /\ \A u : ~Rejecting(job[c], u)
  BY <1>2 DEF Busy, Rejecting
<1>5. defers' \in [Transition -> 0..(MaxDefers + 1)]
  BY <1>2, JFacts
<1>6. CASE t \in Effect
  <2>1. Emit(FailedOn(t, m)) /\ GiveUp(c)
    BY <1>6 DEF CommitFail, FailedOn
  <2>2. CIInv' /\ UNCHANGED <<cache, call>>
    BY <1>3, <2>1, JFacts, EmitKeeps, FailedType
  <2>3. RestOK'
    BY <1>2, <2>1, JFacts, FailuresType DEF RestOK
  <2>4. PICK r \in JobRec : Rounds(c, r)
    BY <1>1, <2>1, RoundEnds
  <2>5. JInv'
    BY <1>2, <1>4, <1>5, <2>2, <2>3, <2>4, RoundKeeps
  <2>6. Firing(c)
    BY <1>2, <1>4, <2>2, <2>4, RoundFires
  <2>7. job' = [job EXCEPT ![c] = r] /\ r.at \notin {"select", "mark", "fire", "commit"}
    BY <2>4 DEF Rounds
  <2> QED BY <1>2, <1>3, <1>6, <2>1, <2>5, <2>6, <2>7
<1>7. CASE t \notin Effect
  <2> DEFINE P == Pre[t]
             r == [job[c] EXCEPT !.at = "remove", !.newly = P]
  <2>1. Emit(Audit) /\ UNCHANGED <<lock, failures>> /\ job' = [job EXCEPT ![c] = r]
    BY <1>1, <1>7 DEF CommitFail
  <2>2. P \subseteq Place
    BY <1>3, TopologyAssumption
  <2> HIDE DEF P
  <2>3. /\ r \in JobRec /\ r.at = "remove" /\ r.chosen = t /\ r.marking = m /\ r.newly = P
    BY <1>1, <2>2 DEF JobRec, At
  <2> HIDE DEF r
  <2>4. Aimed(r) /\ Busy(r)
    BY <1>3, <2>3 DEF Aimed, Busy, P
  <2>5. CIInv' /\ UNCHANGED <<cache, call>>
    BY <2>1, JFacts, EmitKeeps, AuditDoesNothing
  <2>6. RestOK'
    BY <1>2, <2>1, JFacts DEF RestOK
  <2>7. JInv'
    BY <1>2, <1>4, <1>5, <2>1, <2>3, <2>4, <2>5, <2>6, StayKeeps
  <2>8. Firing(c)
    BY <1>2, <1>4, <2>1, <2>3, <2>5 DEF Firing
  <2> QED BY <1>2, <1>3, <1>7, <2>1, <2>3, <2>7, <2>8
<1> QED BY <1>6, <1>7

LEMMA RemoveBoundJ ==
  ASSUME JInv, FiresLocked, NEW c \in Caller, RemoveBound(c)
  PROVE  /\ JInv' /\ Firing(c)
         /\ job[c].at = "remove" /\ job[c].chosen \in Transition
         /\ HasBinding(job[c].chosen, job[c].marking)
         /\ \E r \in JobRec : job' = [job EXCEPT ![c] = r]
                                /\ r.at \notin {"select", "mark", "fire", "commit"}
         /\ \E p \in Pre[job[c].chosen] : Emit(RemovedAt(p, job[c].marking))
         /\ UNCHANGED <<memo, minted, runs>>
<1> DEFINE t == job[c].chosen
           m == job[c].marking
<1>1. job \in [Caller -> JobRec] /\ job[c] \in JobRec /\ Aimed(job[c])
  BY JFacts
<1>2. /\ job[c].at = "remove" /\ kicks' = kicks \cup {"bridge"}
      /\ UNCHANGED <<memo, permit, mode, defers, minted, verdict, runs>>
  BY DEF RemoveBound
<1>3. PICK p \in job[c].newly :
        /\ Emit(RemovedAt(p, m))
        /\ IF job[c].newly = {p} THEN GiveUp(c)
           ELSE job' = [job EXCEPT ![c].newly = @ \ {p}] /\ UNCHANGED <<lock, failures>>
  BY DEF RemoveBound, RemovedAt
<1>4. t \in Transition /\ HasBinding(t, m) /\ m \in Marking /\ job[c].newly \subseteq Pre[t]
  BY <1>1, <1>2 DEF Aimed, JobRec
<1>5. p \in Pre[t]
  BY <1>3, <1>4
<1>6. CIInv' /\ UNCHANGED <<cache, call>>
  BY <1>3, <1>4, <1>5, JFacts, EmitKeeps, RemovedType
<1>7. Busy(job[c]) /\ \A u : ~Rejecting(job[c], u)
  BY <1>2 DEF Busy, Rejecting
<1>8. defers' \in [Transition -> 0..(MaxDefers + 1)]
  BY <1>2, JFacts
<1>9. CASE GiveUp(c)
  <2>1. RestOK'
    BY <1>2, <1>9, JFacts, FailuresType DEF RestOK
  <2>2. PICK r \in JobRec : Rounds(c, r)
    BY <1>1, <1>9, RoundEnds
  <2>3. JInv'
    BY <1>2, <1>6, <1>7, <1>8, <2>1, <2>2, RoundKeeps
  <2>4. Firing(c)
    BY <1>2, <1>6, <1>7, <2>2, RoundFires
  <2>5. job' = [job EXCEPT ![c] = r] /\ r.at \notin {"select", "mark", "fire", "commit"}
    BY <2>2 DEF Rounds
  <2> QED BY <1>2, <1>3, <1>4, <1>5, <2>3, <2>4, <2>5
<1>10. CASE job' = [job EXCEPT ![c].newly = @ \ {p}] /\ UNCHANGED <<lock, failures>>
  <2> DEFINE N == job[c].newly \ {p}
             r == [job[c] EXCEPT !.newly = N]
  <2>1. job' = [job EXCEPT ![c] = r]
    BY <1>1, <1>10
  <2>2. N \subseteq Pre[t] /\ N \subseteq Transition \cup Place
    BY <1>1, <1>4 DEF JobRec
  <2> HIDE DEF N
  <2>3. r \in JobRec /\ r.at = "remove" /\ r.chosen = t /\ r.marking = m /\ r.newly = N
    BY <1>1, <1>2, <2>2 DEF JobRec
  <2> HIDE DEF r
  <2>4. Aimed(r) /\ Busy(r)
    BY <1>4, <2>2, <2>3 DEF Aimed, Busy
  <2>5. RestOK'
    BY <1>2, <1>10, JFacts DEF RestOK
  <2>6. JInv'
    BY <1>2, <1>6, <1>7, <1>8, <1>10, <2>1, <2>3, <2>4, <2>5, StayKeeps
  <2>7. Firing(c)
    BY <1>2, <1>6, <1>7, <2>1, <2>3 DEF Firing
  <2> QED BY <1>2, <1>3, <1>4, <1>5, <2>1, <2>3, <2>6, <2>7
<1> QED BY <1>3, <1>9, <1>10

LEMMA CommitRejectJ ==
  ASSUME JInv, FiresLocked, NEW c \in Caller, CommitReject(c)
  PROVE  /\ JInv' /\ Firing(c) /\ Quiet(c)
         /\ job[c].at = "commit" /\ job[c].outcome = "reject"
         /\ Emit(Audit)
         /\ UNCHANGED <<memo, minted, runs>>
<1> DEFINE t == job[c].chosen
<1>1. /\ job[c].at = "commit" /\ job[c].outcome = "reject" /\ Emit(Audit)
      /\ kicks' = kicks \cup {"bridge"} /\ defers' = [defers EXCEPT ![t] = 0] /\ GiveUp(c)
      /\ UNCHANGED <<memo, permit, mode, minted, verdict, runs>>
  BY DEF CommitReject
<1>2. CIInv' /\ UNCHANGED <<cache, call>>
  BY <1>1, JFacts, EmitKeeps, AuditDoesNothing
<1>3. RestOK'
  BY <1>1, JFacts, FailuresType DEF RestOK
<1>4. Busy(job[c]) /\ \A u : Rejecting(job[c], u) => u = t
  BY <1>1 DEF Busy, Rejecting
<1>5. PICK r \in JobRec : Rounds(c, r)
  BY <1>1, JFacts, RoundEnds
<1>6. /\ defers' \in [Transition -> 0..(MaxDefers + 1)]
      /\ \A u \in Transition : defers'[u] > MaxDefers => defers[u] > MaxDefers /\ u # t
  <2>1. defers \in [Transition -> 0..(MaxDefers + 1)] /\ MaxDefers \in Nat
    BY JFacts, BudgetAssumption
  <2>2. t \in Transition
    BY <1>1, JFacts DEF Aimed
  <2> HIDE DEF t
  <2> QED BY <1>1, <2>1, <2>2
<1>7. JInv'
  BY <1>1, <1>2, <1>3, <1>4, <1>5, <1>6, RoundKeeps
<1> QED BY <1>1, <1>2, <1>4, <1>5, <1>7, RoundFires, RoundQuiet

LEMMA CommitDeferJ ==
  ASSUME JInv, FiresLocked, NEW c \in Caller, CommitDefer(c)
  PROVE  /\ JInv' /\ Firing(c) /\ Quiet(c)
         /\ job[c].at = "commit" /\ job[c].outcome = "defer"
         /\ Emit(Audit)
         /\ UNCHANGED <<memo, minted, runs>>
<1> DEFINE t == job[c].chosen
<1>1. /\ job[c].at = "commit" /\ job[c].outcome = "defer" /\ Emit(Audit)
      /\ kicks' = kicks \cup {"bridge"} /\ defers' = [defers EXCEPT ![t] = @ + 1]
      /\ UNCHANGED <<memo, permit, mode, minted, verdict, runs>>
      /\ IF defers'[t] > MaxDefers
         THEN job' = [job EXCEPT ![c].outcome = "reject"] /\ UNCHANGED <<lock, failures>>
         ELSE Abandon(c)
  BY DEF CommitDefer
<1>2. job \in [Caller -> JobRec] /\ job[c] \in JobRec /\ Aimed(job[c])
  BY JFacts
<1>3. t \in Transition /\ HasBinding(t, job[c].marking)
  BY <1>1, <1>2 DEF Aimed
<1>4. CIInv' /\ UNCHANGED <<cache, call>>
  BY <1>1, JFacts, EmitKeeps, AuditDoesNothing
<1>5. Busy(job[c]) /\ \A u : ~Rejecting(job[c], u)
  BY <1>1 DEF Busy, Rejecting
<1>6. \A d \in Caller : d # c => job[d].at \notin Working
  BY <1>1, <1>5, JFacts, PastAdvance, Alone
<1>7. \A u \in Transition : ~(defers[u] > MaxDefers)
  <2> SUFFICES ASSUME NEW u \in Transition, defers[u] > MaxDefers PROVE FALSE
    OBVIOUS
  <2>1. PICK d \in Caller : Rejecting(job[d], u)
    BY JFacts DEF WithinBudget, Rejecting
  <2>2. job[d].at \in Working
    BY <2>1 DEF Rejecting, Working
  <2> QED BY <1>5, <1>6, <2>1, <2>2
<1>8. /\ defers' \in [Transition -> 0..(MaxDefers + 1)]
      /\ \A u \in Transition : defers'[u] > MaxDefers => u = t
  <2>1. defers \in [Transition -> 0..(MaxDefers + 1)] /\ MaxDefers \in Nat
    BY JFacts, BudgetAssumption
  <2> HIDE DEF t
  <2> QED BY <1>1, <1>3, <1>7, <2>1
<1>9. CASE defers'[t] > MaxDefers
  <2> DEFINE r == [job[c] EXCEPT !.outcome = "reject"]
  <2>1. job' = [job EXCEPT ![c] = r] /\ UNCHANGED <<lock, failures>>
    BY <1>1, <1>2, <1>9
  <2>2. /\ r \in JobRec /\ r.at = "commit" /\ r.outcome = "reject" /\ r.chosen = t
        /\ r.marking = job[c].marking
    BY <1>1, <1>2 DEF JobRec
  <2> HIDE DEF r
  <2>3. Aimed(r) /\ Busy(r) /\ Rejecting(r, t)
    BY <1>3, <2>2 DEF Aimed, Busy, Rejecting
  <2>4. RestOK'
    BY <1>1, <2>1, JFacts DEF RestOK
  <2>5. JInv'
    BY <1>1, <1>4, <1>5, <1>8, <2>1, <2>2, <2>3, <2>4, StayKeeps, ZenonT(60)
  <2>6. Quiet(c) /\ Firing(c)
    BY <1>1, <1>4, <1>5, <2>1, <2>2 DEF Quiet, Firing
  <2> QED BY <1>1, <2>5, <2>6
<1>10. CASE ~(defers'[t] > MaxDefers)
  <2>1. Abandon(c)
    BY <1>1, <1>10
  <2>2. RestOK'
    BY <1>1, <2>1, JFacts, FailuresType DEF RestOK
  <2>3. PICK r \in JobRec : Rounds(c, r)
    BY <1>2, <2>1, RoundEnds
  <2>4. JInv'
    BY <1>1, <1>4, <1>5, <1>8, <1>10, <2>2, <2>3, RoundKeeps
  <2> QED BY <1>1, <1>4, <1>5, <2>3, <2>4, RoundFires, RoundQuiet
<1> QED BY <1>9, <1>10

LEMMA CommitTransientJ ==
  ASSUME JInv, FiresLocked, NEW c \in Caller, CommitTransient(c)
  PROVE  /\ JInv' /\ Firing(c) /\ Quiet(c)
         /\ job[c].at = "commit" /\ job[c].outcome = "transient"
         /\ UNCHANGED <<cvars, memo, minted, runs>>
<1>1. /\ job[c].at = "commit" /\ job[c].outcome = "transient" /\ Abandon(c)
      /\ UNCHANGED <<cvars, memo, permit, kicks, mode, defers, minted, verdict, runs>>
  BY DEF CommitTransient
<1>2. CIInv' /\ UNCHANGED <<cache, call>>
  BY <1>1, JFacts, CacheIdle DEF cvars
<1>3. RestOK'
  BY <1>1, JFacts, FailuresType DEF RestOK
<1>4. Busy(job[c]) /\ \A u : ~Rejecting(job[c], u)
  BY <1>1 DEF Busy, Rejecting
<1>5. PICK r \in JobRec : Rounds(c, r)
  BY <1>1, JFacts, RoundEnds
<1>6. defers' \in [Transition -> 0..(MaxDefers + 1)]
  BY <1>1, JFacts
<1>7. JInv'
  BY <1>1, <1>2, <1>3, <1>4, <1>5, <1>6, RoundKeeps
<1> QED BY <1>1, <1>2, <1>4, <1>5, <1>7, RoundFires, RoundQuiet

LEMMA InitJ == Init => JInv
<1> SUFFICES ASSUME Init PROVE JInv
  OBVIOUS
<1>1. CIInv
  BY CInitInv DEF Init
<1> DEFINE J(c) == NoJob(IF c = Loop THEN "wait" ELSE "idle")
<1>2. \A c \in Caller : J(c) \in JobRec /\ J(c).at \in {"wait", "idle"}
  BY NoJobType DEF At
<1>3. job = [c \in Caller |-> J(c)]
  BY DEF Init
<1> HIDE DEF J
<1>4. job \in [Caller -> JobRec] /\ \A c \in Caller : ~Busy(job[c]) /\ Aimed(job[c])
  BY <1>2, <1>3 DEF Busy, Aimed
<1>5. \A c \in Caller : call[c].pc = "idle"
  BY DEF Init, CInit, NoCall
<1>6. RestOK
  BY DEF Init, RestOK
<1>7. defers \in [Transition -> 0..(MaxDefers + 1)] /\ \A t \in Transition : ~(defers[t] > MaxDefers)
  BY BudgetAssumption DEF Init
<1>8. TypeOK
  BY <1>1, <1>4, <1>6, <1>7, Types DEF CIInv, Init
<1>9. \A c \in Caller : c \notin Evaluator => job[c].at = "idle"
  BY <1>3, Actors, NoJobType DEF J, At
<1>10. Locked
  BY <1>4, <1>5, <1>9 DEF Locked
<1> QED BY <1>1, <1>4, <1>7, <1>8, <1>10 DEF JInv, WithinBudget

LEMMA StutterJ ==
  ASSUME JInv, UNCHANGED vars
  PROVE  JInv'
<1>1. CIInv' /\ UNCHANGED <<call, job, lock, defers>>
  BY JFacts, CacheIdle DEF vars, cvars, evars
<1>2. RestOK'
  BY JFacts DEF vars, evars, RestOK
<1> QED BY <1>1, <1>2, JobsStay

LEMMA NextJ == FiresLocked /\ JInv /\ [Next]_vars => JInv'
<1> SUFFICES ASSUME FiresLocked, JInv, [Next]_vars PROVE JInv'
  OBVIOUS
<1>1. ASSUME NEW p \in Injected, CreateToken(p) PROVE JInv'
  BY <1>1, CreateTokenJ
<1>2. ASSUME NEW k \in kicks, Kick(k) PROVE JInv'
  BY <1>2, KickJ
<1>3. ASSUME NEW m \in {"Running", "Stopped"}, SetRunMode(m) PROVE JInv'
  BY <1>3, SetRunModeJ
<1>4. ASSUME NEW c \in Caller, Request(c) PROVE JInv'
  BY <1>4, RequestJ
<1>5. ASSUME NEW c \in Caller, Task(c) PROVE JInv'
  <2>1. CASE Wake \/ Drive
    BY <2>1, WakeJ, DriveJ
  <2>2. CASE Work(c)
    BY <2>2, TryLockJ, AdvanceJ, ReconcileJ, SelectNextJ, MarkEmptyJ, FireJ, CommitOkJ,
       BridgeOutJ, CommitFailJ, RemoveBoundJ, CommitRejectJ, CommitDeferJ, CommitTransientJ
       DEF Work
  <2> QED BY <1>5, <2>1, <2>2 DEF Task
<1>6. CASE UNCHANGED vars
  BY <1>6, StutterJ
<1> QED BY <1>1, <1>2, <1>3, <1>4, <1>5, <1>6 DEF Next

(***************************************************************************)
(* Every job, the lock, the memo, the budgets and the cache under them     *)
(* stay well typed, for any topology and any number of HTTP evaluations    *)
(* and marking reads (evaluation.rs, firing.rs, pre_dispatch.rs).          *)
(* In particular a deferral budget is never exceeded by more than the one  *)
(* deferral that turns into a rejection, and what fires is a transition.   *)
(***************************************************************************)
THEOREM EvalTypeCorrect == FiresLocked => (Spec => []TypeOK)
<1>1. JInv => TypeOK
  BY DEF JInv
<1> SUFFICES ASSUME FiresLocked PROVE Spec => []TypeOK
  OBVIOUS
<1>2. Init => JInv
  BY InitJ
<1>3. JInv /\ [Next]_vars => JInv'
  BY NextJ
<1> QED BY <1>1, <1>2, <1>3, PTL DEF Spec

-----------------------------------------------------------------------------
(***************************************************************************)
(* The binding memo.                                                       *)
(***************************************************************************)
\* A step that leaves the cache, the calls and the memo alone.
LEMMA MemoKept ==
  ASSUME MInv, job \in [Caller -> JobRec], NEW c \in Caller, NEW r \in JobRec,
         job' = [job EXCEPT ![c] = r], r.at \notin {"select", "mark"},
         UNCHANGED <<cache, call, memo>>
  PROVE  MInv'
<1>1. job'[c] = r /\ \A d \in Caller : d # c => job'[d] = job[d]
  OBVIOUS
<1>2. \A d \in Caller : job'[d].at \in {"select", "mark"} => job'[d] = job[d]
  BY <1>1
<1>3. OnCache'
  BY <1>2 DEF MInv, OnCache
<1>4. \A d \in Caller : job'[d].at = "mark" => Unbound(job'[d].newly, job'[d].marking)
  BY <1>2 DEF MInv, MemoSound
<1>5. \A d \in Caller :
         call'[d].pc = "done" =>
             Unbound(ReconciledOf(memo', call'[d].delta, call'[d].events).empty, cache'.marking)
  BY DEF MInv, MemoSound
<1>6. (\E d \in Caller : call'[d].pc = "done") \/ Unbound(memo'.empty, cache'.marking)
  BY DEF MInv, MemoSound
<1>7. MemoSound'
  BY <1>4, <1>5, <1>6 DEF MemoSound
<1> QED BY <1>3, <1>7 DEF MInv

LEMMA MemoStays ==
  ASSUME MInv, UNCHANGED <<cache, call, memo, job>>
  PROVE  MInv'
BY DEF MInv, OnCache, MemoSound

LEMMA OutsideM ==
  ASSUME JInv, MInv, NEW c \in Caller, Outside(c)
  PROVE  MInv'
BY JFacts, MemoKept DEF Outside

LEMMA FiringM ==
  ASSUME JInv, MInv, NEW c \in Caller, Firing(c), UNCHANGED memo
  PROVE  MInv'
BY JFacts, MemoKept DEF Firing

\* Nobody but readers is in advance_marking while the lock's holder is past it.
LEMMA NoCalls ==
  ASSUME JInv, NEW c \in Caller, Busy(job[c]), job[c].at # "advance"
  PROVE  \A d \in Evaluator : call[d].pc = "idle"
<1>1. call[c].pc = "idle" /\ c \in Evaluator
  BY JFacts, PastAdvance DEF Locked
<1>2. \A d \in Evaluator : d # c => call[d].pc = "idle"
  BY <1>1, JFacts, Alone
<1> QED BY <1>1, <1>2

LEMMA SelectNextM ==
  ASSUME JInv, MInv, FiresLocked, Reader = {}, NEW c \in Caller, SelectNext(c)
  PROVE  MInv'
<1> DEFINE N == NewlyIn(job[c])
<1>1. /\ job[c].at = "select" /\ UNCHANGED <<cvars, memo, minted, runs>>
      /\ \E t : job' = [job EXCEPT ![c] = [job[c] EXCEPT !.at = "mark", !.chosen = t, !.newly = N]]
  BY SelectNextJ
<1>2. PICK t : job' = [job EXCEPT ![c] = [job[c] EXCEPT !.at = "mark", !.chosen = t, !.newly = N]]
  BY <1>1
<1>3. Unbound(N, job[c].marking)
  BY DEF NewlyIn, BoundIn, Unbound
<1> DEFINE r == [job[c] EXCEPT !.at = "mark", !.chosen = t, !.newly = N]
<1> HIDE DEF N
<1>4. job \in [Caller -> JobRec] /\ job[c] \in JobRec
  BY JFacts
<1>5. r.at = "mark" /\ r.newly = N /\ r.marking = job[c].marking
  BY <1>4 DEF JobRec
<1> HIDE DEF r
<1>6. job' = [job EXCEPT ![c] = r]
  BY <1>2 DEF r
<1>7. job'[c] = r /\ \A d \in Caller : d # c => job'[d] = job[d]
  BY <1>4, <1>6
<1>8. UNCHANGED <<cache, call, memo>>
  BY <1>1 DEF cvars
<1>9. OnCache'
  <2> SUFFICES ASSUME NEW d \in Caller
               PROVE  /\ call'[d].pc = "lookup" => call'[d].delta = "Unchanged"
                      /\ call'[d].pc \in {"slice", "fold", "done"} => call'[d].snap = cache'
                      /\ job'[d].at \in {"select", "mark"} => job'[d].marking = cache'.marking
    BY DEF OnCache
  <2>1. CASE d = c
    BY <1>1, <1>5, <1>7, <1>8, <2>1 DEF MInv, OnCache
  <2>2. CASE d # c
    BY <1>7, <1>8, <2>2 DEF MInv, OnCache
  <2> QED BY <2>1, <2>2
<1>10. \A d \in Caller : job'[d].at = "mark" => Unbound(job'[d].newly, job'[d].marking)
  BY <1>3, <1>5, <1>7 DEF MInv, MemoSound
<1>11. MemoSound'
  BY <1>8, <1>10 DEF MInv, MemoSound
<1> QED BY <1>9, <1>11 DEF MInv

LEMMA MarkEmptyM ==
  ASSUME JInv, MInv, FiresLocked, Reader = {}, NEW c \in Caller, MarkEmpty(c)
  PROVE  MInv'
<1>1. /\ job[c].at = "mark" /\ Firing(c) /\ UNCHANGED <<cache, call>>
      /\ memo' = [memo EXCEPT !.empty = @ \cup job[c].newly]
  BY MarkEmptyJ DEF cvars
<1>2. Busy(job[c]) /\ job[c].at # "advance"
  BY <1>1 DEF Busy
<1>3. \A d \in Caller : call[d].pc = "idle"
  BY <1>2, NoCalls, Actors
<1>4. memo'.empty = memo.empty \cup job[c].newly
  BY <1>1, JFacts DEF RestOK
<1>5. Unbound(memo.empty, cache.marking) /\ Unbound(job[c].newly, cache.marking)
  BY <1>1, <1>3 DEF MInv, MemoSound, OnCache
<1>6. Unbound(memo'.empty, cache'.marking)
  BY <1>1, <1>4, <1>5 DEF Unbound
<1>7. PICK r \in JobRec : r.at \notin {"select", "mark"} /\ job' = [job EXCEPT ![c] = r]
  BY <1>1 DEF Firing
<1>8. \A d \in Caller : job'[d].at \in {"select", "mark"} => job'[d] = job[d]
  BY <1>7, JFacts
<1>9. OnCache'
  BY <1>1, <1>8 DEF MInv, OnCache
<1>10. \A d \in Caller : call'[d].pc # "done"
  BY <1>1, <1>3
<1>11. \A d \in Caller : job'[d].at = "mark" => Unbound(job'[d].newly, job'[d].marking)
  BY <1>8 DEF MInv, MemoSound
<1>12. MemoSound'
  BY <1>6, <1>10, <1>11 DEF MemoSound
<1> QED BY <1>9, <1>12 DEF MInv

LEMMA AloneInCall ==
  ASSUME JInv, FiresLocked, Reader = {}, NEW c \in Caller, job[c].at = "advance"
  PROVE  /\ c \in Evaluator
         /\ \A d \in Caller : d # c => ~Busy(job[d]) /\ call[d].pc = "idle"
<1>1. Caller = Evaluator /\ Busy(job[c])
  BY Actors DEF Busy
<1> QED BY <1>1, JFacts, Alone

LEMMA ReconcileM ==
  ASSUME JInv, MInv, FiresLocked, Reader = {}, NEW c \in Caller, Reconcile(c)
  PROVE  MInv'
<1> DEFINE m == call[c].snap.marking
           r == [job[c] EXCEPT !.at = "select", !.marking = m]
<1>1. /\ call[c].pc = "done" /\ job[c].at = "advance"
      /\ job' = [job EXCEPT ![c] = r] /\ call' = [call EXCEPT ![c] = NoCall] /\ UNCHANGED cache
  BY ReconcileJ, Actors
<1>2. job \in [Caller -> JobRec] /\ job[c] \in JobRec /\ call \in [Caller -> CallState]
  BY JFacts DEF CIInv, CTypeOK
<1>3. \A d \in Caller : d # c => ~Busy(job[d]) /\ call[d].pc = "idle"
  BY <1>1, AloneInCall
<1>4. \A d \in Caller : call'[d].pc = "idle"
  BY <1>1, <1>2, <1>3 DEF NoCall
<1> HIDE DEF m
<1>5. r.at = "select" /\ r.marking = m
  BY <1>2 DEF JobRec
<1> HIDE DEF r
<1>6. job'[c] = r /\ \A d \in Caller : d # c => job'[d] = job[d]
  BY <1>1, <1>2
<1>7. m = cache.marking
  BY <1>1 DEF MInv, OnCache, m
<1>8. memo' = ReconciledOf(memo, call[c].delta, call[c].events)
  BY DEF Reconcile, Reconciled, ReconciledOf
<1>9. Unbound(memo'.empty, cache'.marking)
  BY <1>1, <1>8 DEF MInv, MemoSound
<1>10. \A d \in Caller : job'[d].at \in {"select", "mark"} => d = c
  BY <1>3, <1>6 DEF Busy
<1>11. OnCache'
  BY <1>1, <1>4, <1>5, <1>6, <1>7, <1>10 DEF OnCache
<1>12. MemoSound'
  BY <1>4, <1>5, <1>6, <1>9, <1>10 DEF MemoSound
<1> QED BY <1>11, <1>12 DEF MInv

(***************************************************************************)
(* A step of advance_marking: c's call becomes k; the memo and the jobs    *)
(* stay, and nobody else is in a call.                                     *)
(***************************************************************************)
LEMMA CallM ==
  ASSUME JInv, MInv, FiresLocked, Reader = {}, NEW c \in Caller, Calling(c), NEW k, call' = [call EXCEPT ![c] = k],
         k.pc = "lookup" => k.delta = "Unchanged",
         k.pc \in {"slice", "fold", "done"} => k.snap = cache',
         k.pc = "done" => Unbound(ReconciledOf(memo, k.delta, k.events).empty, cache'.marking),
         k.pc = "done" \/ UNCHANGED cache,
         call[c].pc # "done"
  PROVE  MInv'
<1>1. call \in [Caller -> CallState]
  BY JFacts DEF CIInv, CTypeOK
<1>2. call'[c] = k /\ \A d \in Caller : d # c => call[d].pc = "idle" /\ call'[d].pc = "idle"
  BY <1>1, AloneInCall DEF Calling
<1>3. UNCHANGED <<job, memo>>
  BY DEF Calling, evars
<1>4. \A d \in Caller : call[d].pc # "done"
  BY <1>2
<1>5. \A d \in Caller : job'[d].at \notin {"select", "mark"}
  BY <1>3, AloneInCall DEF Calling, Busy
<1>6. OnCache'
  BY <1>2, <1>5 DEF OnCache
<1>7. k.pc = "done" \/ Unbound(memo'.empty, cache'.marking)
  BY <1>3, <1>4 DEF MInv, MemoSound
<1>8. \A d \in Caller :
         call'[d].pc = "done" =>
             Unbound(ReconciledOf(memo', call'[d].delta, call'[d].events).empty, cache'.marking)
  <2> SUFFICES ASSUME NEW d \in Caller, call'[d].pc = "done"
               PROVE  Unbound(ReconciledOf(memo', call'[d].delta, call'[d].events).empty,
                              cache'.marking)
    OBVIOUS
  <2>1. d = c /\ call'[d] = k
    BY <1>2
  <2> QED BY <1>3, <2>1
<1>9. MemoSound'
  BY <1>2, <1>5, <1>7, <1>8 DEF MemoSound
<1> QED BY <1>6, <1>9 DEF MInv

(***************************************************************************)
(* An empty input place that no event of the slice touches stays empty, so *)
(* what the memo still suppresses after the slice is still unbound.        *)
(***************************************************************************)
LEMMA FoldUnbound ==
  ASSUME memo \in [empty : SUBSET Transition, built : BOOLEAN], NEW m \in Marking,
         NEW events \in Seq(PersistedEvent), Unbound(memo.empty, m)
  PROVE  Unbound(ReconciledOf(memo, "Applied", events).empty, ProjectOnto(m, events))
<1>1. CASE ~memo.built
  BY <1>1 DEF ReconciledOf, Unbound
<1>2. CASE memo.built
  <2> SUFFICES ASSUME NEW t \in ReconciledOf(memo, "Applied", events).empty
               PROVE  ~HasBinding(t, ProjectOnto(m, events))
    BY DEF Unbound
  <2>1. ReconciledOf(memo, "Applied", events) =
          [memo EXCEPT !.empty = {u \in memo.empty : \A i \in DOMAIN events :
                                     Pre[u] \cap TouchedPlaces(events[i].event) = {}}]
    BY <1>2 DEF ReconciledOf
  <2>2. /\ t \in memo.empty /\ t \in Transition
        /\ \A i \in DOMAIN events : Pre[t] \cap TouchedPlaces(events[i].event) = {}
    BY <2>1
  <2>3. PICK p \in Pre[t] : m[p] = << >>
    BY <2>2 DEF Unbound, HasBinding
  <2>4. p \in Place
    BY <2>2, TopologyAssumption
  <2>5. \A i \in DOMAIN events : p \notin TouchedPlaces(events[i].event)
    BY <2>2
  <2>6. ProjectOnto(m, events)[p] = << >>
    BY <2>3, <2>4, <2>5, ProjectOntoFrame
  <2> QED BY <2>6 DEF HasBinding
<1> QED BY <1>1, <1>2

LEMMA AdvanceM ==
  ASSUME JInv, MInv, FiresLocked, Reader = {}, NEW c \in Caller, StartAdvance(c) \/ StepAdvance(c)
  PROVE  MInv'
<1> DEFINE o == call[c]
<1>1. Calling(c)
  BY AdvanceJ
<1>2. o \in CallState /\ call \in [Caller -> CallState] /\ CallSound(o, log)
  BY JFacts DEF CIInv, CTypeOK
<1>3. memo \in [empty : SUBSET Transition, built : BOOLEAN]
  BY JFacts DEF RestOK
<1>4. o.pc # "done" => Unbound(memo.empty, cache.marking)
  BY <1>1, AloneInCall DEF Calling, MInv, MemoSound
<1>5. /\ o.pc = "lookup" => o.delta = "Unchanged"
      /\ o.pc \in {"slice", "fold"} => o.snap = cache
  BY DEF MInv, OnCache
<1>6. CASE StartAdvance(c)
  <2> DEFINE k == [NoCall EXCEPT !.pc = "lookup", !.len = StoreLen(store)]
  <2>1. call' = [call EXCEPT ![c] = k] /\ UNCHANGED cache /\ o.pc = "idle"
    BY <1>6 DEF StartAdvance, Begin
  <2>2. k.pc = "lookup" /\ k.delta = "Unchanged"
    BY DEF NoCall
  <2> HIDE DEF k
  <2> QED BY <1>1, <2>1, <2>2, CallM
<1>7. CASE LookUp(c)
  <2> DEFINE k == IF cache = None THEN [o EXCEPT !.pc = "rebuild"]
                  ELSE IF cache.idx = o.len THEN [o EXCEPT !.pc = "done", !.snap = cache]
                  ELSE [o EXCEPT !.pc = "slice", !.snap = cache]
  <2>1. call' = [call EXCEPT ![c] = k] /\ UNCHANGED cache /\ o.pc = "lookup"
    BY <1>2, <1>7 DEF LookUp
  <2> HIDE DEF o
  <2>2. /\ k.pc \in {"rebuild", "done", "slice"} /\ k.delta = o.delta /\ k.events = o.events
        /\ k.pc \in {"done", "slice"} => k.snap = cache
    BY <1>2 DEF CallState
  <2> HIDE DEF k
  <2>3. ReconciledOf(memo, k.delta, k.events) = memo
    BY <1>5, <2>1, <2>2 DEF ReconciledOf
  <2>4. Unbound(ReconciledOf(memo, k.delta, k.events).empty, cache'.marking)
    BY <1>4, <2>1, <2>3
  <2> QED BY <1>1, <2>1, <2>2, <2>4, CallM DEF o
<1>8. CASE Slice(c)
  <2> DEFINE new == EventsFromChecked(store, o.snap.idx)
             k == IF new = None THEN [o EXCEPT !.pc = "rebuild", !.snap = None]
                  ELSE [o EXCEPT !.pc = "fold", !.events = new]
  <2>1. call' = [call EXCEPT ![c] = k] /\ UNCHANGED cache /\ o.pc = "slice"
    BY <1>2, <1>8 DEF Slice
  <2> HIDE DEF o, new
  <2>2. k.pc \in {"rebuild", "fold"} /\ (k.pc = "fold" => k.snap = o.snap)
    BY <1>2 DEF CallState
  <2> HIDE DEF k
  <2> QED BY <1>1, <1>5, <2>1, <2>2, CallM DEF o
<1>9. CASE Rebuild(c)
  <2> DEFINE s == [idx |-> StoreLen(store), marking |-> FullMarking(store)]
             k == [o EXCEPT !.pc = "install", !.snap = s]
  <2>1. call' = [call EXCEPT ![c] = k] /\ UNCHANGED cache /\ o.pc = "rebuild"
    BY <1>2, <1>9 DEF Rebuild
  <2> HIDE DEF o, s
  <2>2. k.pc = "install"
    BY <1>2 DEF CallState
  <2> HIDE DEF k
  <2> QED BY <1>1, <2>1, <2>2, CallM DEF o
<1>10. CASE Install(c)
  <2> DEFINE k == [o EXCEPT !.pc = "done", !.delta = "Rebuilt"]
  <2>1. call' = [call EXCEPT ![c] = k] /\ cache' = o.snap /\ o.pc = "install"
    BY <1>2, <1>10 DEF Install
  <2> HIDE DEF o
  <2>2. k.pc = "done" /\ k.delta = "Rebuilt" /\ k.snap = o.snap
    BY <1>2 DEF CallState
  <2> HIDE DEF k
  <2>3. Unbound(ReconciledOf(memo, k.delta, k.events).empty, cache'.marking)
    BY <2>2 DEF ReconciledOf, Unbound
  <2> QED BY <1>1, <2>1, <2>2, <2>3, CallM DEF o
<1>11. CASE Fold(c)
  <2> DEFINE entry == Folded(o.snap, o.events)
             k == [o EXCEPT !.pc = "done", !.snap = entry, !.delta = "Applied"]
  <2>1. call' = [call EXCEPT ![c] = k] /\ cache' = entry /\ o.pc = "fold"
    BY <1>2, <1>5, <1>11 DEF Fold
  <2>2. Coherent(o.snap, log) /\ o.events \in Seq(PersistedEvent)
    BY <1>2, <2>1 DEF CallSound, CallState
  <2>3. o.snap.marking \in Marking /\ o.snap.marking = cache.marking
    BY <1>5, <2>1, <2>2 DEF Coherent, CacheEntry
  <2>4. entry.marking = ProjectOnto(o.snap.marking, o.events)
    BY DEF Folded
  <2> HIDE DEF o, entry
  <2>5. k.pc = "done" /\ k.delta = "Applied" /\ k.snap = entry /\ k.events = o.events
    BY <1>2 DEF CallState
  <2> HIDE DEF k
  <2>6. Unbound(memo.empty, o.snap.marking)
    BY <1>4, <2>1, <2>3
  <2>7. Unbound(ReconciledOf(memo, k.delta, k.events).empty, cache'.marking)
    BY <1>3, <2>1, <2>2, <2>3, <2>4, <2>5, <2>6, FoldUnbound
  <2> QED BY <1>1, <2>1, <2>5, <2>7, CallM DEF o
<1> QED BY <1>6, <1>7, <1>8, <1>9, <1>10, <1>11 DEF StepAdvance, Advance

LEMMA InitM == Init => MInv
<1> SUFFICES ASSUME Init PROVE MInv
  OBVIOUS
<1>1. \A c \in Caller : call[c].pc = "idle"
  BY DEF Init, CInit, NoCall
<1>2. \A c \in Caller : job[c].at \in {"wait", "idle"}
  BY DEF Init, NoJob
<1>3. memo.empty = {}
  BY DEF Init
<1> QED BY <1>1, <1>2, <1>3 DEF MInv, OnCache, MemoSound, Unbound

LEMMA NextM == FiresLocked /\ Reader = {} /\ JInv /\ MInv /\ [Next]_vars => MInv'
<1> SUFFICES ASSUME FiresLocked, Reader = {}, JInv, MInv, [Next]_vars PROVE MInv'
  OBVIOUS
<1>1. ASSUME NEW p \in Injected, CreateToken(p) PROVE MInv'
  BY <1>1, CreateTokenJ, MemoStays
<1>2. ASSUME NEW k \in kicks, Kick(k) PROVE MInv'
  BY <1>2, KickJ, MemoStays DEF cvars
<1>3. ASSUME NEW m \in {"Running", "Stopped"}, SetRunMode(m) PROVE MInv'
  BY <1>3, SetRunModeJ, MemoStays DEF cvars
<1>4. ASSUME NEW c \in Caller, Request(c) PROVE MInv'
  BY <1>4, RequestJ, OutsideM
<1>5. ASSUME NEW c \in Caller, Task(c) PROVE MInv'
  <2>1. CASE Wake \/ Drive
    BY <2>1, WakeJ, DriveJ, OutsideM
  <2>2. CASE TryLock(c)
    BY <2>2, TryLockJ, OutsideM
  <2>3. CASE StartAdvance(c) \/ StepAdvance(c)
    BY <2>3, AdvanceM
  <2>4. CASE Reconcile(c) \/ SelectNext(c) \/ MarkEmpty(c)
    BY <2>4, ReconcileM, SelectNextM, MarkEmptyM
  <2>5. CASE Fire(c) \/ CommitOk(c) \/ BridgeOut(c) \/ CommitFail(c)
    BY <2>5, FireJ, CommitOkJ, BridgeOutJ, CommitFailJ, FiringM
  <2>6. CASE RemoveBound(c) \/ CommitReject(c) \/ CommitDefer(c) \/ CommitTransient(c)
    BY <2>6, RemoveBoundJ, CommitRejectJ, CommitDeferJ, CommitTransientJ, FiringM
  <2> QED BY <1>5, <2>1, <2>2, <2>3, <2>4, <2>5, <2>6 DEF Task, Work
<1>6. CASE UNCHANGED vars
  BY <1>6, MemoStays DEF vars, cvars, evars
<1> QED BY <1>1, <1>2, <1>3, <1>4, <1>5, <1>6 DEF Next

LEMMA MemoSuppresses == AllLocked /\ JInv /\ MInv => MemoNeverLags
<1> SUFFICES ASSUME FiresLocked, Reader = {}, JInv, MInv, NEW c \in Evaluator, job[c].at = "select"
             PROVE  \A t \in memo.empty : ~HasBinding(t, job[c].marking)
  BY DEF MemoNeverLags, AllLocked
<1>1. c \in Caller
  BY Actors
<1>2. Busy(job[c]) /\ job[c].at # "advance"
  BY DEF Busy
<1>3. \A d \in Caller : call[d].pc = "idle"
  BY <1>1, <1>2, NoCalls, Actors
<1>4. Unbound(memo.empty, cache.marking) /\ job[c].marking = cache.marking
  BY <1>1, <1>3 DEF MInv, MemoSound, OnCache
<1> QED BY <1>4 DEF Unbound

(***************************************************************************)
(* The binding memo never suppresses a transition that is bound in the     *)
(* marking the loop selects on: for every topology, however injections and *)
(* HTTP evaluations interleave with the loop, and however far the store    *)
(* has evicted behind the cached marking.                                  *)
(***************************************************************************)
THEOREM MemoIsNeverStale == AllLocked => (Spec => []MemoNeverLags)
<1> SUFFICES ASSUME AllLocked PROVE Spec => []MemoNeverLags
  OBVIOUS
<1>1. Init => JInv /\ MInv
  BY InitJ, InitM DEF AllLocked
<1>2. JInv /\ MInv /\ [Next]_vars => (JInv /\ MInv)'
  BY NextJ, NextM DEF AllLocked
<1>3. JInv /\ MInv => MemoNeverLags
  BY MemoSuppresses
<1> QED BY <1>1, <1>2, <1>3, PTL DEF Spec

-----------------------------------------------------------------------------
(***************************************************************************)
(* No token is handed to an effect twice.  The marking an evaluation       *)
(* selected on keeps its heads until the evaluation itself consumes them,  *)
(* so what an effect runs on is still there when its event is applied, and *)
(* gone afterwards; ids are never used again.                              *)
(***************************************************************************)
InMarking == {"select", "mark", "fire", "commit"}

LEMMA HeadsTransitive ==
  ASSUME NEW k, NEW m, NEW n, HeadsKept(k, m), HeadsKept(m, n)
  PROVE  HeadsKept(k, n)
BY DEF HeadsKept

LEMMA HeadsReflexive == \A m : HeadsKept(m, m)
BY DEF HeadsKept

LEMMA HeadsAdd ==
  ASSUME NEW m \in Marking, NEW p \in Place, NEW t \in Token,
         \A q \in Place : m[q] # << >> => Head(m[q]).id < t.id
  PROVE  HeadsKept(m, AddToken(m, p, t))
<1>1. \A s \in Seq(Token) : s # << >> => Append(s, t) # << >> /\ Head(Append(s, t)) = Head(s)
  OBVIOUS
<1>2. Append(<< >>, t) # << >> /\ Head(Append(<< >>, t)) = t
  OBVIOUS
<1> DEFINE n == AddToken(m, p, t)
<1>3. n[p] = Append(m[p], t) /\ m[p] \in Seq(Token) /\ \A q \in Place : q # p => n[q] = m[q]
  BY DEF AddToken, Marking
<1> HIDE DEF n
<1>4. ASSUME NEW q \in Place, m[q] # << >> PROVE n[q] # << >> /\ Head(n[q]) = Head(m[q])
  BY <1>1, <1>3, <1>4
<1>5. ASSUME NEW q \in Place, m[q] = << >>, n[q] # << >> PROVE q = p /\ Head(n[q]) = t
  BY <1>2, <1>3, <1>5
<1>6. HeadsKept(m, n)
  BY <1>4, <1>5 DEF HeadsKept
<1> QED BY <1>6 DEF n

\* The first token of a place is one of its tokens.
LEMMA HeadAmong ==
  ASSUME NEW m \in Marking, NEW p \in Place, m[p] # << >>
  PROVE  Head(m[p]) \in Token /\ Head(m[p]).id \in IdsAt(m, p) /\ Head(m[p]).id \in Ids(m)
<1>1. m[p] \in Seq(Token)
  BY DEF Marking
<1>2. 1 \in DOMAIN m[p] /\ Head(m[p]) = m[p][1] /\ Head(m[p]) \in Token
  BY <1>1
<1> QED BY <1>2 DEF IdsAt, Ids

\* A head kept is still a token of its place.
LEMMA HeadStays ==
  ASSUME NEW m \in Marking, NEW n \in Marking, HeadsKept(m, n), NEW p \in Place, m[p] # << >>
  PROVE  Head(m[p]).id \in IdsAt(n, p)
<1>1. n[p] \in Seq(Token) /\ n[p] # << >> /\ Head(n[p]) = Head(m[p])
  BY DEF HeadsKept, Marking
<1>2. 1 \in DOMAIN n[p] /\ Head(n[p]) = n[p][1]
  BY <1>1
<1> QED BY <1>1, <1>2 DEF IdsAt

\* The log grows by at most one event.
LogGrows ==
    /\ Len(log') \in {Len(log), Len(log) + 1}
    /\ \A n \in 0..Len(log) : Upto(log', n) = Upto(log, n)

LEMMA EmitGrows ==
  ASSUME CIInv, NEW e \in DomainEvent, Emit(e)
  PROVE  LogGrows /\ Now' = ApplyEvent(Now, e) /\ UNCHANGED call
BY EmitKeeps DEF LogGrows

LEMMA AuditGrows ==
  ASSUME CIInv, UNCHANGED cvars \/ Emit(Audit)
  PROVE  LogGrows /\ Now' = Now /\ UNCHANGED call
<1>1. CASE UNCHANGED cvars
  BY <1>1 DEF cvars, LogGrows, Now
<1>2. CASE Emit(Audit)
  BY <1>2, EmitGrows, AuditDoesNothing
<1> QED BY <1>1, <1>2

LEMMA SteadyKept ==
  ASSUME CIInv, Steady, LogGrows, HeadsKept(Now, Now'), UNCHANGED call,
         \A d \in Caller : job'[d].at \in InMarking => HeadsKept(job'[d].marking, Now)
  PROVE  Steady'
<1>1. ASSUME NEW d \in Caller, job'[d].at \in InMarking PROVE HeadsKept(job'[d].marking, Now')
  BY <1>1, HeadsTransitive
<1>2. ASSUME NEW d \in Evaluator, call'[d].pc # "idle", NEW n \in call'[d].len..Len(log')
      PROVE  HeadsKept(Upto(log', n), Now')
  <2>1. d \in Caller /\ call[d].len \in Nat /\ Len(log) \in Nat
    BY NowType, Actors DEF CIInv, CTypeOK, CallState
  <2>2. CASE n = Len(log')
    BY <2>2, HeadsReflexive DEF Now
  <2>3. CASE n # Len(log')
    <3>1. n \in 0..Len(log) /\ n \in call[d].len..Len(log)
      BY <1>2, <2>1, <2>3 DEF LogGrows
    <3>2. HeadsKept(Upto(log, n), Now)
      BY <1>2, <2>1, <3>1 DEF Steady
    <3>3. Upto(log', n) = Upto(log, n)
      BY <3>1 DEF LogGrows
    <3> QED BY <3>2, <3>3, HeadsTransitive
  <2> QED BY <2>2, <2>3
<1> QED BY <1>1, <1>2 DEF Steady, InMarking

\* No call is under way afterwards, and no job is on a marking it must not be.
LEMMA SteadyIdle ==
  ASSUME \A d \in Evaluator : call'[d].pc = "idle",
         \A d \in Caller : job'[d].at \in InMarking => HeadsKept(job'[d].marking, Now')
  PROVE  Steady'
BY DEF Steady, InMarking

LEMMA EStays ==
  ASSUME EInv, UNCHANGED <<log, call, job, minted, runs>>
  PROVE  EInv'
<1>1. Now' = Now
  BY DEF Now
<1>2. Steady'
  BY <1>1 DEF EInv, Steady
<1>3. Spent'
  BY <1>1 DEF EInv, Spent
<1> QED BY <1>1, <1>2, <1>3 DEF EInv, EffectOnce

\* While the lock's holder has run no effect, no token in the marking is spent.
LEMMA Calm ==
  ASSUME JInv, EInv, NEW c \in Evaluator, Busy(job[c]), \A x : ~Committing(job[c], x)
  PROVE  \A x \in TokenId : x \in Ids(Now) => ~(runs[x] > 0)
<1> SUFFICES ASSUME NEW x \in TokenId, x \in Ids(Now), runs[x] > 0 PROVE FALSE
  OBVIOUS
<1>1. PICK d \in Caller : Committing(job[d], x)
  BY DEF EInv, Spent
<1>2. job[d].at \in Working
  BY <1>1 DEF Committing, Working
<1>3. d = c
  BY <1>2, JFacts, Alone
<1> QED BY <1>1, <1>3

LEMMA CreateTokenE ==
  ASSUME JInv, EInv, NEW p \in Injected, CreateToken(p)
  PROVE  EInv'
<1> DEFINE t == Created(p).token
<1>1. p \in Place /\ CIInv /\ minted \in Nat
  BY JFacts, TopologyAssumption DEF RestOK
<1>2. Emit(Created(p)) /\ Mints(1) /\ UNCHANGED <<job, runs>>
  BY DEF CreateToken, Created
<1>3. /\ Created(p) \in DomainEvent /\ minted' = minted + 1
      /\ t \in Token /\ t.id = minted + 1
      /\ \A m : ApplyEvent(m, Created(p)) = AddToken(m, p, t)
  BY <1>1, <1>2, CreatedType
<1> HIDE DEF t
<1>4. LogGrows /\ Now' = AddToken(Now, p, t) /\ UNCHANGED call
  BY <1>1, <1>2, <1>3, EmitGrows
<1>5. Now \in Marking /\ Apart(Now) /\ Ids(Now) \subseteq 1..minted
  BY <1>1, NowType DEF EInv
<1>6. t.id \notin Ids(Now)
  BY <1>1, <1>3, <1>5
<1>7. /\ Apart(AddToken(Now, p, t))
      /\ IdsAt(AddToken(Now, p, t), p) = IdsAt(Now, p) \cup {t.id}
      /\ \A q \in Place : q # p => IdsAt(AddToken(Now, p, t), q) = IdsAt(Now, q)
  BY <1>1, <1>3, <1>5, <1>6, AddTokenIds
<1>8. Apart(Now') /\ Ids(Now') \subseteq Ids(Now) \cup {minted + 1}
  BY <1>3, <1>4, <1>7 DEF Ids
<1>9. Ids(Now') \subseteq 1..minted'
  BY <1>1, <1>3, <1>5, <1>8
<1>10. HeadsKept(Now, Now')
  <2>1. ASSUME NEW q \in Place, Now[q] # << >> PROVE Head(Now[q]).id < t.id
    <3>1. Head(Now[q]).id \in 1..minted
      BY <1>5, <2>1, HeadAmong
    <3> QED BY <1>1, <1>3, <3>1
  <2> QED BY <1>1, <1>3, <1>4, <1>5, <2>1, HeadsAdd
<1>11. Steady'
  BY <1>1, <1>2, <1>4, <1>10, SteadyKept DEF EInv, Steady, InMarking
<1>12. Spent'
  <2> SUFFICES ASSUME NEW x \in TokenId, runs'[x] > 0
               PROVE  /\ x <= minted'
                      /\ x \in Ids(Now') => \E c \in Caller : Committing(job'[c], x)
    BY DEF Spent
  <2>1. x <= minted /\ x \in Nat
    BY <1>2, TokenOrder DEF EInv, Spent
  <2>2. x <= minted' /\ x # minted + 1
    BY <1>1, <1>3, <2>1
  <2>3. ASSUME x \in Ids(Now') PROVE \E c \in Caller : Committing(job[c], x)
    BY <1>2, <1>8, <2>2, <2>3 DEF EInv, Spent
  <2> QED BY <1>2, <2>2, <2>3
<1> QED BY <1>2, <1>8, <1>9, <1>11, <1>12 DEF EInv, EffectOnce

LEMMA OutsideE ==
  ASSUME JInv, EInv, NEW c \in Caller, Outside(c), UNCHANGED cvars \/ Emit(Audit)
  PROVE  EInv'
<1>1. PICK r \in JobRec : r.at \notin InMarking /\ job' = [job EXCEPT ![c] = r]
  BY DEF Outside, InMarking
<1>2. job'[c] = r /\ \A d \in Caller : d # c => job'[d] = job[d]
  BY <1>1, JFacts
<1>3. LogGrows /\ Now' = Now /\ UNCHANGED <<call, minted, runs>>
  BY JFacts, AuditGrows DEF Outside
<1>4. HeadsKept(Now, Now')
  BY <1>3, HeadsReflexive
<1>5. \A d \in Caller : job'[d].at \in InMarking => HeadsKept(job'[d].marking, Now)
  BY <1>1, <1>2 DEF EInv, Steady, InMarking
<1>6. Steady'
  BY <1>3, <1>4, <1>5, JFacts, SteadyKept DEF EInv
<1>7. ASSUME NEW d \in Caller, NEW x, Committing(job[d], x) PROVE Committing(job'[d], x)
  BY <1>2, <1>7 DEF Outside, Committing, Busy
<1>8. Spent'
  BY <1>3, <1>7 DEF EInv, Spent
<1> QED BY <1>3, <1>6, <1>8 DEF EInv, EffectOnce

\* A call folds at least the events that the log had when it began.
LEMMA CallExtent ==
  ASSUME JInv, NEW c \in Caller, StartAdvance(c) \/ StepAdvance(c)
  PROVE  call'[c].len = Len(log) \/ (call'[c].len = call[c].len /\ call[c].pc # "idle")
<1>1. call \in [Caller -> CallState]
  BY JFacts DEF CIInv, CTypeOK
<1>2. CASE StartAdvance(c)
  <2>1. StoreLen(store) = Len(log)
    BY JFacts, StoreExtent DEF CIInv, CTypeOK
  <2>2. call' = [call EXCEPT ![c] = [NoCall EXCEPT !.pc = "lookup", !.len = StoreLen(store)]]
    BY <1>2 DEF StartAdvance, Begin
  <2> QED BY <1>1, <2>1, <2>2 DEF NoCall
<1>3. CASE StepAdvance(c)
  <2>1. CASE LookUp(c)
    BY <1>1, <2>1 DEF LookUp, CallState
  <2>2. CASE Slice(c)
    BY <1>1, <2>2 DEF Slice, CallState
  <2>3. CASE Rebuild(c)
    BY <1>1, <2>3 DEF Rebuild, CallState
  <2>4. CASE Install(c)
    BY <1>1, <2>4 DEF Install, CallState
  <2>5. CASE Fold(c)
    BY <1>1, <2>5 DEF Fold, CallState
  <2> QED BY <1>3, <2>1, <2>2, <2>3, <2>4, <2>5 DEF StepAdvance, Advance
<1> QED BY <1>2, <1>3

LEMMA AdvanceE ==
  ASSUME JInv, EInv, NEW c \in Caller, StartAdvance(c) \/ StepAdvance(c)
  PROVE  EInv'
<1>1. Calling(c) /\ UNCHANGED <<log, job, minted, runs>>
  BY AdvanceJ DEF Calling, evars
<1>2. Now' = Now
  BY <1>1 DEF Now
<1>3. call \in [Caller -> CallState] /\ Len(log) \in Nat
  BY JFacts, NowType DEF CIInv, CTypeOK
<1>4. call'[c].len = Len(log) \/ (call'[c].len = call[c].len /\ call[c].pc # "idle")
  BY CallExtent
<1>5. ASSUME c \in Evaluator, NEW n \in call'[c].len..Len(log)
      PROVE  HeadsKept(Upto(log, n), Now)
  <2>1. CASE call'[c].len = Len(log)
    <3>1. n = Len(log)
      BY <1>3, <1>5, <2>1
    <3> QED BY <3>1, HeadsReflexive DEF Now
  <2>2. CASE call'[c].len = call[c].len /\ call[c].pc # "idle"
    BY <1>5, <2>2 DEF EInv, Steady
  <2> QED BY <1>4, <2>1, <2>2
<1>6. \A d \in Caller : d # c => call'[d] = call[d]
  BY <1>1 DEF Calling
<1>7. Steady'
  BY <1>1, <1>2, <1>5, <1>6 DEF EInv, Steady
<1>8. Spent'
  BY <1>1, <1>2 DEF EInv, Spent
<1> QED BY <1>1, <1>2, <1>7, <1>8 DEF EInv, EffectOnce

LEMMA ReconcileE ==
  ASSUME JInv, EInv, FiresLocked, NEW c \in Caller, Reconcile(c)
  PROVE  EInv'
<1> DEFINE k == call[c]
           m == k.snap.marking
           r == IF c \in Evaluator THEN [job[c] EXCEPT !.at = "select", !.marking = m]
                ELSE NoJob("idle")
<1>1. /\ k.pc = "done" /\ job[c].at = "advance"
      /\ job' = [job EXCEPT ![c] = r] /\ call' = [call EXCEPT ![c] = NoCall]
      /\ UNCHANGED <<log, minted, runs>>
  BY ReconcileJ
<1>2. /\ job \in [Caller -> JobRec] /\ job[c] \in JobRec /\ call \in [Caller -> CallState]
      /\ CallSound(k, log) /\ k.len \in Nat /\ Len(log) \in Nat
  BY JFacts, NowType DEF CIInv, CTypeOK, CallState
<1>3. call'[c].pc = "idle" /\ \A d \in Caller : d # c => call'[d] = call[d]
  BY <1>1, <1>2 DEF NoCall
<1>4. Now' = Now
  BY <1>1 DEF Now
<1>5. k.snap.idx \in k.len..Len(log) /\ m = Upto(log, k.snap.idx)
  BY <1>1, <1>2 DEF CallSound, Coherent, CacheEntry
<1>6. c \in Evaluator => HeadsKept(m, Now)
  BY <1>1, <1>5 DEF EInv, Steady
<1> HIDE DEF m
<1>7. r.at \in InMarking => c \in Evaluator /\ r.marking = m
  BY <1>2 DEF JobRec, NoJob, InMarking
<1> HIDE DEF r
<1>8. job'[c] = r /\ \A d \in Caller : d # c => job'[d] = job[d]
  BY <1>1, <1>2
<1>9. Steady'
  <2>1. ASSUME NEW d \in Caller, job'[d].at \in InMarking PROVE HeadsKept(job'[d].marking, Now')
    BY <1>4, <1>6, <1>7, <1>8, <2>1 DEF EInv, Steady, InMarking
  <2>2. ASSUME NEW d \in Caller, d \in Evaluator, call'[d].pc # "idle",
               NEW n \in call'[d].len..Len(log')
        PROVE  HeadsKept(Upto(log', n), Now')
    BY <1>1, <1>3, <1>4, <2>2 DEF EInv, Steady
  <2> QED BY <2>1, <2>2 DEF Steady, InMarking
<1>10. ASSUME NEW d \in Caller, NEW x, Committing(job[d], x) PROVE Committing(job'[d], x)
  BY <1>1, <1>8, <1>10 DEF Committing
<1>11. Spent'
  BY <1>1, <1>4, <1>10 DEF EInv, Spent
<1> QED BY <1>1, <1>4, <1>9, <1>11 DEF EInv, EffectOnce

(***************************************************************************)
(* The lock's holder takes a step that leaves the marking and the history  *)
(* of the effects alone, and was not about to commit an effect.            *)
(***************************************************************************)
LEMMA QuietE ==
  ASSUME JInv, EInv, NEW c \in Caller, Busy(job[c]), job[c].at # "advance", Quiet(c),
         \A x : ~Committing(job[c], x), UNCHANGED cvars \/ Emit(Audit), UNCHANGED <<minted, runs>>
  PROVE  EInv'
<1>1. PICK r \in JobRec :
        /\ job' = [job EXCEPT ![c] = r]
        /\ r.at \in InMarking => r.marking = job[c].marking /\ job[c].at \in InMarking
  BY DEF Quiet, InMarking
<1>2. /\ c \in Evaluator /\ job'[c] = r
      /\ \A d \in Caller : d # c => job'[d] = job[d] /\ job[d].at \notin Working
  BY <1>1, JFacts, PastAdvance, Alone
<1>3. Now' = Now /\ UNCHANGED call
  BY JFacts, AuditGrows
<1>4. \A d \in Evaluator : call'[d].pc = "idle"
  BY <1>3, NoCalls
<1>5. \A d \in Caller : job'[d].at \in InMarking => HeadsKept(job'[d].marking, Now')
  BY <1>1, <1>2, <1>3 DEF EInv, Steady, InMarking, Working
<1>6. Steady'
  BY <1>4, <1>5, SteadyIdle
<1>7. \A x \in TokenId : x \in Ids(Now) => ~(runs[x] > 0)
  BY <1>2, Calm
<1>8. Spent'
  BY <1>3, <1>7 DEF EInv, Spent
<1> QED BY <1>3, <1>6, <1>8 DEF EInv, EffectOnce

LEMMA SelectNextE ==
  ASSUME JInv, EInv, FiresLocked, NEW c \in Caller, SelectNext(c)
  PROVE  EInv'
<1> DEFINE N == NewlyIn(job[c])
<1>1. /\ job[c].at = "select" /\ UNCHANGED <<cvars, memo, minted, runs>> /\ JInv'
      /\ \E t : job' = [job EXCEPT ![c] = [job[c] EXCEPT !.at = "mark", !.chosen = t, !.newly = N]]
  BY SelectNextJ
<1> HIDE DEF N
<1>2. PICK t : job' = [job EXCEPT ![c] = [job[c] EXCEPT !.at = "mark", !.chosen = t, !.newly = N]]
  BY <1>1
<1> DEFINE r == [job[c] EXCEPT !.at = "mark", !.chosen = t, !.newly = N]
<1>3. job \in [Caller -> JobRec] /\ job[c] \in JobRec
  BY JFacts
<1>4. r.at = "mark" /\ r.marking = job[c].marking
  BY <1>3 DEF JobRec
<1>5. job' \in [Caller -> JobRec] /\ job'[c] = r
  <2>1. job' \in [Caller -> JobRec]
    BY <1>1 DEF JInv, TypeOK, JobRec, At
  <2> QED BY <1>2, <1>3, <2>1
<1> HIDE DEF r
<1>6. Quiet(c)
  <2>1. r \in JobRec
    BY <1>5
  <2>2. job' = [job EXCEPT ![c] = r]
    BY <1>2 DEF r
  <2> QED BY <1>1, <1>4, <2>1, <2>2 DEF Quiet
<1>7. Busy(job[c]) /\ \A x : ~Committing(job[c], x)
  BY <1>1 DEF Busy, Committing
<1> QED BY <1>1, <1>6, <1>7, QuietE

LEMMA FireE ==
  ASSUME JInv, EInv, FiresLocked, NEW c \in Caller, Fire(c)
  PROVE  EInv'
<1> DEFINE t == job[c].chosen
           m == job[c].marking
<1>1. /\ job[c].at = "fire" /\ t \in Transition /\ HasBinding(t, m) /\ UNCHANGED minted
      /\ UNCHANGED cvars \/ Emit(Audit)
      /\ \E o \in Outcomes :
            /\ job' = [job EXCEPT ![c] = [job[c] EXCEPT !.at = "commit", !.outcome = o]]
            /\ runs' = IF t \in Effect /\ o \in {"ok", "fail"}
                       THEN [i \in DOMAIN runs |->
                               IF i \in ConsumedIds(t, m) THEN runs[i] + 1 ELSE runs[i]]
                       ELSE runs
  BY FireJ
<1>2. PICK o \in Outcomes :
         /\ job' = [job EXCEPT ![c] = [job[c] EXCEPT !.at = "commit", !.outcome = o]]
         /\ runs' = IF t \in Effect /\ o \in {"ok", "fail"}
                    THEN [i \in DOMAIN runs |->
                            IF i \in ConsumedIds(t, m) THEN runs[i] + 1 ELSE runs[i]]
                    ELSE runs
  BY <1>1
<1> DEFINE r == [job[c] EXCEPT !.at = "commit", !.outcome = o]
<1>3. /\ job \in [Caller -> JobRec] /\ job[c] \in JobRec /\ m \in Marking
      /\ runs \in [TokenId -> Nat] /\ CIInv
  BY JFacts DEF JobRec, RestOK
<1>4. r \in JobRec /\ r.at = "commit" /\ r.outcome = o /\ r.chosen = t /\ r.marking = m
  BY <1>3 DEF JobRec, At
<1>5. job' = [job EXCEPT ![c] = r]
  BY <1>2
<1>6. /\ Busy(job[c]) /\ job[c].at # "advance" /\ \A x : ~Committing(job[c], x)
      /\ c \in Evaluator
  BY <1>1, JFacts, PastAdvance DEF Busy, Committing
<1>7. Now' = Now /\ UNCHANGED call /\ Now \in Marking
  BY <1>1, <1>3, AuditGrows, NowType
<1>8. \A x \in TokenId : x \in Ids(Now) => ~(runs[x] > 0)
  BY <1>6, Calm
<1>9. HeadsKept(m, Now)
  BY <1>1 DEF EInv, Steady
<1>10. ConsumedIds(t, m) \subseteq Ids(Now) /\ ConsumedIds(t, m) \subseteq TokenId
  <2> SUFFICES ASSUME NEW p \in Pre[t] PROVE Head(m[p]).id \in Ids(Now)
    BY <1>1, <1>3, HeadIds DEF ConsumedIds
  <2>1. p \in Place /\ m[p] # << >>
    BY <1>1, TopologyAssumption DEF HasBinding
  <2>2. Head(m[p]).id \in IdsAt(Now, p)
    BY <1>3, <1>7, <1>9, <2>1, HeadStays
  <2> QED BY <2>1, <2>2 DEF Ids
<1> HIDE DEF r, t, m
<1>11. job'[c] = r /\ \A d \in Caller : d # c => job'[d] = job[d] /\ job[d].at \notin Working
  BY <1>3, <1>5, <1>6, JFacts, Alone
<1>12. Steady'
  <2>1. \A d \in Evaluator : call'[d].pc = "idle"
    BY <1>6, <1>7, NoCalls
  <2>2. \A d \in Caller : job'[d].at \in InMarking => HeadsKept(job'[d].marking, Now')
    BY <1>4, <1>7, <1>9, <1>11 DEF Working, InMarking
  <2> QED BY <2>1, <2>2, SteadyIdle
<1>13. CASE t \in Effect /\ o \in {"ok", "fail"}
  <2>1. \A x \in TokenId : runs'[x] = IF x \in ConsumedIds(t, m) THEN runs[x] + 1 ELSE runs[x]
    BY <1>2, <1>3, <1>13
  <2>2. \A x \in ConsumedIds(t, m) : runs[x] = 0
    BY <1>3, <1>8, <1>10
  <2>3. EffectOnce'
    <3>1. DOMAIN runs' = TokenId /\ DOMAIN runs = TokenId
      BY <1>2, <1>3, <1>13
    <3>2. \A x \in TokenId : runs'[x] <= 1
      BY <2>1, <2>2, <3>1 DEF EInv, EffectOnce
    <3> QED BY <3>1, <3>2 DEF EffectOnce
  <2>4. Spent'
    <3> SUFFICES ASSUME NEW x \in TokenId, runs'[x] > 0
                 PROVE  /\ x <= minted'
                        /\ x \in Ids(Now') => \E d \in Caller : Committing(job'[d], x)
      BY DEF Spent
    <3>1. CASE x \in ConsumedIds(t, m)
      <4>1. x \in 1..minted
        BY <1>10, <3>1 DEF EInv
      <4>2. minted \in Nat
        BY JFacts DEF RestOK
      <4>3. x <= minted'
        BY <1>1, <4>1, <4>2
      <4>4. Committing(job'[c], x)
        BY <1>4, <1>11, <1>13, <3>1 DEF Committing
      <4> QED BY <4>3, <4>4
    <3>2. CASE x \notin ConsumedIds(t, m)
      BY <1>1, <1>7, <1>8, <2>1, <3>2 DEF EInv, Spent
    <3> QED BY <3>1, <3>2
  <2> QED BY <1>1, <1>7, <1>12, <2>3, <2>4 DEF EInv
<1>14. CASE ~(t \in Effect /\ o \in {"ok", "fail"})
  <2>1. runs' = runs
    BY <1>2, <1>14
  <2>2. Spent'
    BY <1>1, <1>7, <1>8, <2>1 DEF EInv, Spent
  <2> QED BY <1>1, <1>7, <1>12, <2>1, <2>2 DEF EInv, EffectOnce
<1> QED BY <1>13, <1>14

(***************************************************************************)
(* A firing event consumes exactly what the effect ran on, and mints ids   *)
(* that no token ever had.                                                 *)
(***************************************************************************)
LEMMA FiresE ==
  ASSUME JInv, EInv, NEW c \in Caller, job[c].at = "commit",
         NEW t, t = job[c].chosen, NEW m, m = job[c].marking, t \in Transition, HasBinding(t, m),
         NEW produced \in ProducedList,
         \A i \in 1..Len(produced) : produced[i][2].id = minted + i,
         Now' = AddAll(RemoveAll(Now, Consumed(t, m)), produced),
         minted' = minted + Len(produced), UNCHANGED <<call, runs>>,
         NEW r \in JobRec, job' = [job EXCEPT ![c] = r], r.at \notin InMarking
  PROVE  EInv'
<1> DEFINE R == RemoveAll(Now, Consumed(t, m))
<1>1. /\ job \in [Caller -> JobRec] /\ m \in Marking /\ minted \in Nat /\ Now \in Marking
      /\ Len(produced) \in Nat
  BY JFacts, NowType DEF JobRec, RestOK, ProducedList
<1>2. Busy(job[c]) /\ job[c].at # "advance" /\ c \in Evaluator
  BY JFacts, PastAdvance DEF Busy
<1>3. job'[c] = r /\ \A d \in Caller : d # c => job'[d] = job[d] /\ job[d].at \notin Working
  BY <1>1, <1>2, JFacts, Alone
<1>4. Steady'
  <2>1. \A d \in Evaluator : call'[d].pc = "idle"
    BY <1>2, NoCalls
  <2>2. \A d \in Caller : job'[d].at \notin InMarking
    BY <1>3 DEF Working, InMarking
  <2> QED BY <2>1, <2>2, SteadyIdle
<1>5. HeadsKept(m, Now) /\ Apart(Now) /\ Ids(Now) \subseteq 1..minted
  BY DEF EInv, Steady
<1>6. /\ Consumed(t, m) \in ConsumedList
      /\ \A p \in Pre[t] : /\ p \in Place /\ m[p] # << >>
                           /\ \E i \in DOMAIN Consumed(t, m) : Consumed(t, m)[i] = <<p, Head(m[p]).id>>
  BY <1>1, ConsumedType
<1>7. /\ R \in Marking /\ Apart(R)
      /\ \A q \in Place : IdsAt(R, q) \subseteq IdsAt(Now, q)
      /\ \A i \in DOMAIN Consumed(t, m) : Consumed(t, m)[i][2] \notin IdsAt(R, Consumed(t, m)[i][1])
  BY <1>1, <1>5, <1>6, RemoveAllIds, RemoveAllType
<1> HIDE DEF R
<1>8. Ids(R) \subseteq Ids(Now) /\ Ids(R) \subseteq 1..minted
  BY <1>5, <1>7 DEF Ids
<1>9. ASSUME NEW x \in ConsumedIds(t, m) PROVE x \notin Ids(R)
  <2>1. PICK p \in Pre[t] : x = Head(m[p]).id
    BY <1>9 DEF ConsumedIds
  <2>2. p \in Place /\ m[p] # << >>
    BY <1>6
  <2>3. x \notin IdsAt(R, p)
    <3>1. PICK i \in DOMAIN Consumed(t, m) : Consumed(t, m)[i] = <<p, x>>
      BY <1>6, <2>1
    <3>2. Consumed(t, m)[i][1] = p /\ Consumed(t, m)[i][2] = x
      BY <3>1
    <3> QED BY <1>7, <3>2
  <2>4. x \in IdsAt(Now, p)
    BY <1>1, <1>5, <2>1, <2>2, HeadStays
  <2>5. \A q \in Place : q # p => x \notin IdsAt(Now, q)
    BY <1>5, <2>2, <2>4 DEF Apart
  <2> QED BY <1>7, <2>3, <2>5 DEF Ids
<1>10. Now' = AddAll(R, produced)
  BY DEF R
<1>11. /\ Apart(Now')
       /\ Ids(Now') \subseteq Ids(R) \cup ((minted + 1)..(minted + Len(produced)))
  BY <1>1, <1>7, <1>8, <1>10, AddAllIds
<1>12. Ids(Now') \subseteq 1..minted'
  <2>1. 1..minted \subseteq 1..minted' /\ (minted + 1)..(minted + Len(produced)) \subseteq 1..minted'
    BY <1>1
  <2> QED BY <1>8, <1>11, <2>1
<1>13. Spent'
  <2> SUFFICES ASSUME NEW x \in TokenId, runs[x] > 0
               PROVE  x <= minted' /\ x \notin Ids(Now')
    BY DEF Spent
  <2>1. x <= minted /\ x \in Nat
    BY TokenOrder DEF EInv, Spent
  <2>2. x <= minted' /\ x \notin (minted + 1)..(minted + Len(produced))
    BY <1>1, <2>1
  <2>3. ASSUME x \in Ids(R) PROVE FALSE
    <3>1. PICK d \in Caller : Committing(job[d], x)
      BY <1>8, <2>3 DEF EInv, Spent
    <3>2. job[d].at \in Working
      BY <3>1 DEF Committing, Working
    <3>3. d = c
      BY <1>3, <3>2
    <3>4. x \in ConsumedIds(t, m)
      BY <3>1, <3>3 DEF Committing
    <3> QED BY <1>9, <2>3, <3>4
  <2> QED BY <1>11, <2>2, <2>3
<1> QED BY <1>4, <1>11, <1>12, <1>13 DEF EInv, EffectOnce

LEMMA CommitOkE ==
  ASSUME JInv, EInv, FiresLocked, NEW c \in Caller, CommitOk(c)
  PROVE  EInv'
<1> DEFINE t == job[c].chosen
           m == job[c].marking
<1>1. /\ job[c].at = "commit" /\ t \in Transition /\ HasBinding(t, m)
      /\ \E r \in JobRec : job' = [job EXCEPT ![c] = r] /\ r.at \notin InMarking
      /\ Emit(Fired(t, m)) /\ Mints(Cardinality(Post[t])) /\ UNCHANGED runs
  BY CommitOkJ DEF InMarking
<1>2. PICK r \in JobRec : job' = [job EXCEPT ![c] = r] /\ r.at \notin InMarking
  BY <1>1
<1>3. m \in Marking /\ minted \in Nat /\ CIInv
  BY JFacts DEF JobRec, RestOK
<1> HIDE DEF t, m
<1>4. /\ Fired(t, m) \in DomainEvent
      /\ \A n : ApplyEvent(n, Fired(t, m)) = AddAll(RemoveAll(n, Consumed(t, m)), Produced(t))
  BY <1>1, <1>3, FiredType
<1>5. /\ Produced(t) \in ProducedList
      /\ \A i \in 1..Len(Produced(t)) : Produced(t)[i][2].id = minted + i
      /\ minted' = minted + Len(Produced(t))
  BY <1>1, <1>3, ProducedType
<1>6. Now' = AddAll(RemoveAll(Now, Consumed(t, m)), Produced(t)) /\ UNCHANGED call
  BY <1>1, <1>3, <1>4, EmitGrows
<1>7. t = job[c].chosen /\ m = job[c].marking
  BY DEF t, m
<1> QED BY <1>1, <1>2, <1>5, <1>6, <1>7, FiresE

LEMMA CommitFailE ==
  ASSUME JInv, EInv, FiresLocked, NEW c \in Caller, CommitFail(c)
  PROVE  EInv'
<1> DEFINE t == job[c].chosen
           m == job[c].marking
<1>1. /\ job[c].at = "commit" /\ t \in Transition /\ HasBinding(t, m)
      /\ \E r \in JobRec : job' = [job EXCEPT ![c] = r] /\ r.at \notin InMarking
      /\ IF t \in Effect THEN Emit(FailedOn(t, m)) ELSE Emit(Audit)
      /\ UNCHANGED <<minted, runs>>
  BY CommitFailJ DEF InMarking
<1>2. PICK r \in JobRec : job' = [job EXCEPT ![c] = r] /\ r.at \notin InMarking
  BY <1>1
<1>3. m \in Marking /\ minted \in Nat /\ CIInv
  BY JFacts DEF JobRec, RestOK
<1>4. CASE t \in Effect
  <2> HIDE DEF t, m
  <2>1. /\ FailedOn(t, m) \in DomainEvent
        /\ \A n : ApplyEvent(n, FailedOn(t, m)) = AddAll(RemoveAll(n, Consumed(t, m)), << >>)
    BY <1>1, <1>3, FailedType
  <2>2. Now' = AddAll(RemoveAll(Now, Consumed(t, m)), << >>) /\ UNCHANGED call
    BY <1>1, <1>3, <1>4, <2>1, EmitGrows
  <2>3. /\ << >> \in ProducedList /\ Len(<< >>) = 0 /\ 1..Len(<< >>) = {}
        /\ minted' = minted + Len(<< >>)
    BY <1>1, <1>3 DEF ProducedList
  <2>4. t = job[c].chosen /\ m = job[c].marking
    BY DEF t, m
  <2> QED BY <1>1, <1>2, <2>2, <2>3, <2>4, FiresE
<1>5. CASE t \notin Effect
  <2>1. Quiet(c)
    BY <1>2 DEF Quiet, InMarking
  <2>2. Busy(job[c]) /\ job[c].at # "advance" /\ \A x : ~Committing(job[c], x)
    BY <1>1, <1>5 DEF Busy, Committing
  <2> QED BY <1>1, <1>5, <2>1, <2>2, QuietE
<1> QED BY <1>4, <1>5

LEMMA RemoveBoundE ==
  ASSUME JInv, EInv, FiresLocked, NEW c \in Caller, RemoveBound(c)
  PROVE  EInv'
<1> DEFINE t == job[c].chosen
           m == job[c].marking
<1>1. /\ job[c].at = "remove" /\ t \in Transition /\ HasBinding(t, m)
      /\ \E r \in JobRec : job' = [job EXCEPT ![c] = r] /\ r.at \notin InMarking
      /\ \E p \in Pre[t] : Emit(RemovedAt(p, m))
      /\ UNCHANGED <<minted, runs>>
  BY RemoveBoundJ DEF InMarking
<1>2. PICK r \in JobRec : job' = [job EXCEPT ![c] = r] /\ r.at \notin InMarking
  BY <1>1
<1>3. m \in Marking /\ minted \in Nat /\ CIInv /\ Now \in Marking /\ job \in [Caller -> JobRec]
  BY JFacts, NowType DEF JobRec, RestOK
<1>4. PICK p \in Pre[t] : Emit(RemovedAt(p, m))
  BY <1>1
<1> DEFINE id == Head(m[p]).id
<1>5. /\ RemovedAt(p, m) \in DomainEvent /\ p \in Place /\ id \in TokenId
      /\ \A n : ApplyEvent(n, RemovedAt(p, m)) = RemoveToken(n, p, id)
  BY <1>1, <1>3, RemovedType
<1>6. Now' = RemoveToken(Now, p, id) /\ UNCHANGED call
  BY <1>3, <1>4, <1>5, EmitGrows
<1> HIDE DEF t, m, id
<1>7. /\ Apart(RemoveToken(Now, p, id))
      /\ IdsAt(RemoveToken(Now, p, id), p) = IdsAt(Now, p) \ {id}
      /\ \A q \in Place : q # p => IdsAt(RemoveToken(Now, p, id), q) = IdsAt(Now, q)
  BY <1>3, <1>5, RemoveTokenIds DEF EInv
<1>8. Apart(Now') /\ Ids(Now') \subseteq Ids(Now)
  BY <1>6, <1>7 DEF Ids
<1>9. /\ Busy(job[c]) /\ job[c].at # "advance" /\ \A x : ~Committing(job[c], x)
      /\ c \in Evaluator
  BY <1>1, JFacts, PastAdvance DEF Busy, Committing
<1>10. \A x \in TokenId : x \in Ids(Now) => ~(runs[x] > 0)
  BY <1>9, Calm
<1>11. job'[c] = r /\ \A d \in Caller : d # c => job'[d] = job[d] /\ job[d].at \notin Working
  BY <1>2, <1>3, <1>9, JFacts, Alone
<1>12. Steady'
  <2>1. \A d \in Evaluator : call'[d].pc = "idle"
    BY <1>6, <1>9, NoCalls
  <2>2. \A d \in Caller : job'[d].at \notin InMarking
    BY <1>2, <1>11 DEF Working, InMarking
  <2> QED BY <2>1, <2>2, SteadyIdle
<1>13. Spent'
  BY <1>1, <1>8, <1>10 DEF EInv, Spent
<1> QED BY <1>1, <1>8, <1>12, <1>13 DEF EInv, EffectOnce

LEMMA NoneYet == Init => Now = EmptyMarking
<1> SUFFICES ASSUME Init PROVE Now = EmptyMarking
  OBVIOUS
<1>1. log = << >> /\ Len(log) = 0 /\ SubSeq(log, 1, 0) = << >>
  BY DEF Init, CInit
<1> QED BY <1>1, EmptyMarkingType, ProjectOntoEmpty DEF Now, Upto, ProjectMarking

LEMMA InitE == Init => EInv
<1> SUFFICES ASSUME Init PROVE EInv
  OBVIOUS
<1>1. \A c \in Caller : call[c].pc = "idle" /\ job[c].at \in {"wait", "idle"}
  BY DEF Init, CInit, NoCall, NoJob
<1>2. Now = EmptyMarking
  BY NoneYet
<1>3. \A p \in Place : DOMAIN Now[p] = {}
  <2>1. DOMAIN << >> = 1..0 /\ 1..0 = {}
    OBVIOUS
  <2>2. \A p \in Place : Now[p] = << >>
    BY <1>2 DEF EmptyMarking
  <2> QED BY <2>1, <2>2
<1>4. Apart(Now) /\ Ids(Now) = {}
  BY <1>3 DEF Apart, Ids, IdsAt
<1>5. runs = [i \in TokenId |-> 0]
  BY DEF Init
<1> QED BY <1>1, <1>4, <1>5 DEF EInv, Steady, Spent, EffectOnce

LEMMA NextE == FiresLocked /\ JInv /\ EInv /\ [Next]_vars => EInv'
<1> SUFFICES ASSUME FiresLocked, JInv, EInv, [Next]_vars PROVE EInv'
  OBVIOUS
<1>1. ASSUME NEW p \in Injected, CreateToken(p) PROVE EInv'
  BY <1>1, CreateTokenE
<1>2. ASSUME NEW k \in kicks, Kick(k) PROVE EInv'
  BY <1>2, KickJ, EStays DEF cvars
<1>3. ASSUME NEW m \in {"Running", "Stopped"}, SetRunMode(m) PROVE EInv'
  BY <1>3, SetRunModeJ, EStays DEF cvars
<1>4. ASSUME NEW c \in Caller, Request(c) PROVE EInv'
  BY <1>4, RequestJ, OutsideE
<1>5. ASSUME NEW c \in Caller, Task(c) PROVE EInv'
  <2>1. CASE Wake \/ Drive
    BY <2>1, WakeJ, DriveJ, OutsideE
  <2>2. CASE TryLock(c)
    BY <2>2, TryLockJ, OutsideE
  <2>3. CASE StartAdvance(c) \/ StepAdvance(c)
    BY <2>3, AdvanceE
  <2>4. CASE Reconcile(c) \/ SelectNext(c)
    BY <2>4, ReconcileE, SelectNextE
  <2>5. CASE Fire(c) \/ CommitOk(c) \/ CommitFail(c) \/ RemoveBound(c)
    BY <2>5, FireE, CommitOkE, CommitFailE, RemoveBoundE
  <2>6. CASE MarkEmpty(c)
    BY <2>6, MarkEmptyJ, QuietE DEF Busy, Committing
  <2>7. CASE BridgeOut(c)
    BY <2>7, BridgeOutJ, QuietE DEF Busy, Committing
  <2>8. CASE CommitReject(c)
    BY <2>8, CommitRejectJ, QuietE DEF Busy, Committing
  <2>9. CASE CommitDefer(c)
    BY <2>9, CommitDeferJ, QuietE DEF Busy, Committing
  <2>10. CASE CommitTransient(c)
    BY <2>10, CommitTransientJ, QuietE DEF Busy, Committing
  <2> QED BY <1>5, <2>1, <2>2, <2>3, <2>4, <2>5, <2>6, <2>7, <2>8, <2>9, <2>10 DEF Task, Work
<1>6. CASE UNCHANGED vars
  BY <1>6, EStays DEF vars, cvars, evars
<1> QED BY <1>1, <1>2, <1>3, <1>4, <1>5, <1>6 DEF Next

(***************************************************************************)
(* With eval_lock taken by everyone who fires, no token is handed to an    *)
(* effect handler twice: whatever the loop, HTTP evaluations, unlocked     *)
(* marking reads, injections, deferrals, failures and drains do            *)
(* (service.rs, eval_lock).                                                *)
(***************************************************************************)
THEOREM EffectsRunOnce == FiresLocked => (Spec => []EffectOnce)
<1>1. EInv => EffectOnce
  BY DEF EInv
<1> SUFFICES ASSUME FiresLocked PROVE Spec => []EffectOnce
  OBVIOUS
<1>2. Init => JInv /\ EInv
  BY InitJ, InitE
<1>3. JInv /\ EInv /\ [Next]_vars => (JInv /\ EInv)'
  BY NextJ, NextE
<1> QED BY <1>1, <1>2, <1>3, PTL DEF Spec

-----------------------------------------------------------------------------
(***************************************************************************)
(* The token game.  First what the projection's loops do to a marking, in  *)
(* the game's words.                                                       *)
(***************************************************************************)
LEMMA SeqOfOnce ==
  ASSUME NEW S, IsFiniteSet(S), NEW i \in 1..Cardinality(S), NEW j \in 1..Cardinality(S),
         SeqOf(S)[i] = SeqOf(S)[j]
  PROVE  i = j
<1> DEFINE n == Cardinality(S)
           s == SeqOf(S)
<1>1. n \in Nat /\ s \in [1..n -> S] /\ \A x \in S : \E k \in 1..n : s[k] = x
  BY SeqOfLists
<1>2. s \in Surjection(1..n, S)
  BY <1>1 DEF Surjection
<1>3. IsFiniteSet(1..n) /\ Cardinality(1..n) = n
  <2>1. n = 0 \/ 1 <= n
    BY <1>1
  <2> QED BY <1>1, FS_Interval
<1>4. s \in Injection(1..n, S)
  BY <1>2, <1>3, FS_SurjSameCardinalityImpliesInj
<1> HIDE DEF n, s
<1>5. \A a, b \in 1..n : s[a] = s[b] => a = b
  BY <1>4, Zenon DEF Injection, IsInjective
<1>6. i \in 1..n /\ j \in 1..n /\ s[i] = s[j]
  BY DEF n, s
<1> QED BY <1>5, <1>6

\* The first token of a place is found first.
LEMMA DropHead ==
  ASSUME NEW s \in Seq(Token), s # << >>
  PROVE  DropId(s, Head(s).id) = Tail(s)
<1> DEFINE id == Head(s).id
           hits == {i \in DOMAIN s : s[i].id = id}
<1>1. Len(s) \in Nat /\ Len(s) >= 1 /\ DOMAIN s = 1..Len(s) /\ Head(s) = s[1]
  OBVIOUS
<1>2. 1 \in hits /\ \A j \in hits : 1 <= j
  BY <1>1
<1>3. \A i \in hits : (\A j \in hits : i <= j) => i = 1
  BY <1>1, <1>2
<1>4. FirstWithId(s, id) = CHOOSE i \in hits : \A j \in hits : i <= j
  BY <1>2 DEF FirstWithId
<1> HIDE DEF hits
<1>5. FirstWithId(s, id) = 1
  BY <1>2, <1>3, <1>4
<1>6. DropId(s, id) = SubSeq(s, 1, 0) \o SubSeq(s, 2, Len(s))
  <2> HIDE DEF id
  <2>1. FirstWithId(s, id) # 0 /\ 1 - 1 = 0 /\ 1 + 1 = 2
    BY <1>5
  <2> QED BY <1>5, <2>1, Zenon DEF DropId
<1>7. SubSeq(s, 1, 0) = << >>
  BY <1>1
<1>8. SubSeq(s, 2, Len(s)) = Tail(s)
  BY <1>1
<1>9. Tail(s) \in Seq(Token) /\ << >> \o Tail(s) = Tail(s)
  BY <1>1
<1> QED BY <1>6, <1>7, <1>8, <1>9

LEMMA RemoveHead ==
  ASSUME NEW m \in Marking, NEW p \in Place, m[p] # << >>, NEW id, id = Head(m[p]).id
  PROVE  RemoveToken(m, p, id) = Game!Without(m, {p})
<1>1. m[p] \in Seq(Token) /\ m \in [Place -> Seq(Token)]
  BY DEF Marking
<1>2. DropId(m[p], id) = Tail(m[p])
  BY <1>1, DropHead
<1>3. RemoveToken(m, p, id) = [m EXCEPT ![p] = Tail(m[p])]
  BY <1>2 DEF RemoveToken
<1> QED BY <1>1, <1>3 DEF Game!Without

LEMMA WithoutType ==
  ASSUME NEW m \in Marking, NEW S, \A p \in S : p \in Place /\ m[p] # << >>
  PROVE  Game!Without(m, S) \in Marking
<1>1. \A p \in Place : m[p] \in Seq(Token) /\ (p \in S => Tail(m[p]) \in Seq(Token))
  BY DEF Marking
<1> QED BY <1>1 DEF Game!Without, Marking

LEMMA WithoutTwice ==
  ASSUME NEW m \in Marking, NEW S, NEW p, p \notin S
  PROVE  Game!Without(Game!Without(m, S), {p}) = Game!Without(m, S \cup {p})
BY DEF Game!Without, Marking

(***************************************************************************)
(* The consuming loop takes the first token of every input place, when     *)
(* those are still the ones that were bound.                               *)
(***************************************************************************)
LEMMA RemoveAllHeads ==
  ASSUME NEW t \in Transition, NEW m \in Marking, NEW n \in Marking, HasBinding(t, m),
         HeadsKept(m, n)
  PROVE  RemoveAll(n, Consumed(t, m)) = Game!Without(n, Pre[t])
<1> DEFINE P == Pre[t]
           s == SeqOf(P)
           k == Cardinality(P)
           C == Consumed(t, m)
<1>1. P \subseteq Place /\ IsFiniteSet(P)
  BY TopologyAssumption
<1>2. k \in Nat /\ s \in [1..k -> P] /\ DOMAIN s = 1..k /\ \A p \in P : \E i \in 1..k : s[i] = p
  <2> HIDE DEF P
  <2> QED BY <1>1, SeqOfLists
<1>3. \A i, j \in 1..k : s[i] = s[j] => i = j
  <2> HIDE DEF P
  <2> QED BY <1>1, SeqOfOnce
<1>4. C \in ConsumedList /\ C = [i \in 1..k |-> <<s[i], Head(m[s[i]]).id>>]
  <2>1. C \in ConsumedList
    BY ConsumedType
  <2> QED BY <1>2, <2>1 DEF Consumed
<1>5. \A p \in P : p \in Place /\ n[p] # << >> /\ Head(n[p]) = Head(m[p])
  BY <1>1 DEF HasBinding, HeadsKept
<1>6. PICK h : IsRun(h, Marking, n, Len(C), RemoveStep(C)) /\ RemoveAll(n, C) = h[Len(C)]
  BY <1>4, RemoveAllRun
<1> HIDE DEF s, k, C, P
<1>7. Len(C) = k
  BY <1>2, <1>4
<1> DEFINE Gone(i) == {s[j] : j \in 1..i}
           S == {i \in 0..k : h[i] = Game!Without(n, Gone(i))}
<1>8. 0 \in S /\ S \subseteq 0..k
  <2>1. Gone(0) = {}
    OBVIOUS
  <2>2. Game!Without(n, {}) = n
    BY DEF Game!Without, Marking
  <2>3. h[0] = n
    BY <1>6 DEF IsRun
  <2>4. 0 \in 0..k
    BY <1>2
  <2> QED BY <2>1, <2>2, <2>3, <2>4
<1>9. ASSUME NEW i \in S, i < k PROVE i + 1 \in S
  <2> DEFINE j == i + 1
             M == Game!Without(n, Gone(i))
  <2>1. j \in 1..k /\ j \in 0..k /\ j - 1 = i /\ i \in 0..k
        /\ (\A l \in 1..j : l \in 1..i \/ l = j) /\ (\A l \in 1..i : l \in 1..j /\ l \in 1..k /\ l # j)
    BY <1>2, <1>9
  <2> HIDE DEF j
  <2>2. h[i] \in Marking /\ h[j] = RemoveStep(C)[<<j, h[i]>>]
    BY <1>6, <1>7, <2>1 DEF IsRun
  <2>3. h[i] = M
    BY <1>9
  <2>4. h[j] = RemoveToken(M, C[j][1], C[j][2])
    BY <1>7, <2>1, <2>2, <2>3 DEF RemoveStep
  <2>5. C[j][1] = s[j] /\ C[j][2] = Head(m[s[j]]).id /\ s[j] \in P /\ s[j] \in Place
    BY <1>1, <1>2, <1>4, <2>1
  <2>6. Gone(j) = Gone(i) \cup {s[j]} /\ s[j] \notin Gone(i)
    BY <1>3, <2>1
  <2> HIDE DEF Gone
  <2>7. M[s[j]] = n[s[j]]
    BY <2>5, <2>6 DEF Game!Without
  <2>8. M[s[j]] # << >> /\ Head(M[s[j]]).id = Head(m[s[j]]).id /\ M \in Marking
    BY <1>5, <2>2, <2>3, <2>5, <2>7
  <2> HIDE DEF M
  <2>9. h[j] = Game!Without(M, {s[j]})
    BY <2>4, <2>5, <2>8, RemoveHead
  <2>10. h[j] = Game!Without(n, Gone(j))
    BY <2>6, <2>9, WithoutTwice DEF M
  <2> QED BY <2>1, <2>10 DEF j
<1> HIDE DEF S
<1>10. S = 0..k
  BY <1>2, <1>8, <1>9, IntervalInduction
<1>11. h[k] = Game!Without(n, Gone(k))
  <2>1. k \in S
    BY <1>2, <1>10
  <2> HIDE DEF Gone
  <2> QED BY <2>1 DEF S
<1>12. Gone(k) = P
  BY <1>2
<1> QED BY <1>6, <1>7, <1>11, <1>12 DEF C, P

LEMMA WithOne ==
  ASSUME NEW m \in Marking, NEW p \in Place, NEW t \in Token
  PROVE  AddToken(m, p, t) = Game!With(m, [q \in {p} |-> t])
BY DEF AddToken, Game!With, Marking

\* Adding the token of one more place.
LEMMA WithMore ==
  ASSUME NEW m \in Marking, NEW a, NEW b, NEW p \in Place, p \notin DOMAIN a,
         DOMAIN a \subseteq Place, DOMAIN b = DOMAIN a \cup {p}, \A q \in DOMAIN a : a[q] = b[q]
  PROVE  AddToken(Game!With(m, a), p, b[p]) = Game!With(m, b)
<1> DEFINE M == Game!With(m, a)
           S == DOMAIN a
<1>1. M = [q \in Place |-> IF q \in S THEN Append(m[q], b[q]) ELSE m[q]]
  BY DEF Game!With
<1>2. Game!With(m, b) = [q \in Place |-> IF q \in S \cup {p} THEN Append(m[q], b[q]) ELSE m[q]]
  BY DEF Game!With
<1> HIDE DEF M
<1>3. AddToken(M, p, b[p]) = [M EXCEPT ![p] = Append(M[p], b[p])]
  BY DEF AddToken
<1>4. AddToken(M, p, b[p]) = Game!With(m, b)
  BY <1>1, <1>2, <1>3
<1> QED BY <1>4 DEF M

(***************************************************************************)
(* The producing loop gives every output place one new token.              *)
(***************************************************************************)
LEMMA AddAllNew ==
  ASSUME NEW t \in Transition, minted \in Nat, Mints(Cardinality(Post[t])), NEW m \in Marking
  PROVE  \E new \in [Post[t] -> Token] :
            Game!Fresh(new) /\ AddAll(m, Produced(t)) = Game!With(m, new)
<1> DEFINE P == Post[t]
           s == SeqOf(P)
           k == Cardinality(P)
           C == Produced(t)
           I(p) == CHOOSE i \in 1..k : s[i] = p
           new == [p \in P |-> C[I(p)][2]]
<1>1. P \subseteq Place /\ IsFiniteSet(P)
  BY TopologyAssumption
<1>2. k \in Nat /\ s \in [1..k -> P] /\ DOMAIN s = 1..k /\ \A p \in P : \E i \in 1..k : s[i] = p
  <2> HIDE DEF P
  <2> QED BY <1>1, SeqOfLists
<1>3. \A i, j \in 1..k : s[i] = s[j] => i = j
  <2> HIDE DEF P
  <2> QED BY <1>1, SeqOfOnce
<1>4. /\ C \in ProducedList /\ Len(C) = k /\ \A i \in 1..k : C[i][2].id = minted + i
      /\ minted' = minted + k
  BY ProducedType
<1>5. \A i \in 1..k : C[i][1] = s[i]
  <2>1. C = [i \in 1..k |-> <<s[i], [id |-> minted + i, color |-> CHOOSE c \in Color : TRUE]>>]
    BY <1>2 DEF Produced
  <2> QED BY <2>1
<1>6. \A i \in 1..k : C[i] \in Place \X Token
  BY <1>2, <1>4 DEF ProducedList
<1>7. PICK h : IsRun(h, Marking, m, Len(C), AddStep(C)) /\ AddAll(m, C) = h[Len(C)]
  BY <1>4, AddAllRun
<1> HIDE DEF s, k, C, P
<1>8. \A p \in P : I(p) \in 1..k /\ s[I(p)] = p
  BY <1>2
<1>9. \A i \in 1..k : s[i] \in P /\ I(s[i]) = i
  BY <1>2, <1>3, <1>8
<1> HIDE DEF I
<1>10. new \in [P -> Token] /\ DOMAIN new = P
  BY <1>6, <1>8
<1>11. \A p \in P : new[p].id = minted + I(p)
  BY <1>4, <1>8
<1>12. \A i \in 1..k : C[i][2] = new[s[i]]
  BY <1>9
<1> HIDE DEF new
<1>13. Game!Fresh(new)
  <2>1. \A p \in P : new[p].id \notin 1..minted /\ new[p].id \in 1..(minted + k)
    BY <1>2, <1>8, <1>11
  <2>2. \A p, q \in P : new[p].id = new[q].id => p = q
    <3> SUFFICES ASSUME NEW p \in P, NEW q \in P, new[p].id = new[q].id PROVE p = q
      OBVIOUS
    <3>1. I(p) = I(q)
      BY <1>2, <1>8, <1>11
    <3> QED BY <1>8, <3>1
  <2>3. 1..(minted + k) \subseteq 1..minted \cup {new[p].id : p \in P}
    <3> SUFFICES ASSUME NEW x \in 1..(minted + k), x \notin 1..minted
                 PROVE  \E p \in P : x = new[p].id
      OBVIOUS
    <3> DEFINE i == x - minted
    <3>1. i \in 1..k /\ x = minted + i
      BY <1>2
    <3> HIDE DEF i
    <3>2. s[i] \in P /\ new[s[i]].id = minted + i
      BY <1>9, <1>11, <3>1
    <3> QED BY <3>1, <3>2
  <2>4. 1..minted \subseteq 1..(minted + k)
    BY <1>2
  <2>5. 1..minted' = 1..minted \cup {new[p].id : p \in P}
    BY <1>4, <2>1, <2>3, <2>4
  <2> QED BY <1>10, <2>1, <2>2, <2>5 DEF Game!Fresh
<1> DEFINE Got(i) == {s[j] : j \in 1..i}
           W(i) == Game!With(m, [p \in Got(i) |-> new[p]])
           S == {i \in 0..k : h[i] = W(i)}
<1>14. 0 \in S /\ S \subseteq 0..k
  <2>1. Got(0) = {}
    OBVIOUS
  <2>2. W(0) = m
    <3>1. DOMAIN [p \in {} |-> new[p]] = {}
      OBVIOUS
    <3> QED BY <2>1, <3>1 DEF Game!With, Marking
  <2>3. h[0] = m /\ 0 \in 0..k
    BY <1>2, <1>7 DEF IsRun
  <2> QED BY <2>2, <2>3
<1>15. ASSUME NEW i \in S, i < k PROVE i + 1 \in S
  <2> DEFINE j == i + 1
  <2>1. j \in 1..k /\ j \in 0..k /\ j - 1 = i /\ i \in 0..k
        /\ (\A l \in 1..j : l \in 1..k /\ (l \in 1..i \/ l = j))
        /\ (\A l \in 1..i : l \in 1..j /\ l \in 1..k /\ l # j)
    BY <1>2, <1>15
  <2> HIDE DEF j
  <2>2. h[i] \in Marking /\ h[j] = AddStep(C)[<<j, h[i]>>]
    BY <1>4, <1>7, <2>1 DEF IsRun, k
  <2>3. h[j] = AddToken(h[i], s[j], new[s[j]])
    BY <1>4, <1>5, <1>12, <2>1, <2>2 DEF AddStep
  <2>4. Got(j) = Got(i) \cup {s[j]} /\ s[j] \notin Got(i) /\ s[j] \in Place /\ Got(i) \subseteq Place
    BY <1>1, <1>2, <1>3, <2>1
  <2>5. h[i] = W(i)
    BY <1>15
  <2> HIDE DEF Got
  <2>6. h[j] = W(j)
    <3> DEFINE x == [q \in Got(i) |-> new[q]]
               y == [q \in Got(j) |-> new[q]]
    <3>1. /\ DOMAIN x = Got(i) /\ DOMAIN y = Got(i) \cup {s[j]}
          /\ \A q \in Got(i) : x[q] = y[q]
          /\ y[s[j]] = new[s[j]]
      BY <2>4
    <3>2. W(i) = Game!With(m, x) /\ W(j) = Game!With(m, y)
      OBVIOUS
    <3> HIDE DEF x, y, W
    <3>3. AddToken(Game!With(m, x), s[j], y[s[j]]) = Game!With(m, y)
      BY <2>4, <3>1, WithMore
    <3> QED BY <2>3, <2>5, <3>1, <3>2, <3>3
  <2> HIDE DEF W
  <2> QED BY <2>1, <2>6 DEF j
<1> HIDE DEF S
<1>16. S = 0..k
  BY <1>2, <1>14, <1>15, IntervalInduction
<1>17. h[k] = W(k)
  <2>1. k \in S
    BY <1>2, <1>16
  <2> HIDE DEF W
  <2> QED BY <2>1 DEF S
<1>18. Got(k) = P
  BY <1>2
<1> HIDE DEF Got
<1>19. [p \in P |-> new[p]] = new
  BY <1>10
<1>20. AddAll(m, C) = Game!With(m, new)
  BY <1>4, <1>7, <1>17, <1>18, <1>19
<1> QED BY <1>10, <1>13, <1>20 DEF C, P

-----------------------------------------------------------------------------
(***************************************************************************)
(* The marking with the tokens of a failed script put back.                *)
(***************************************************************************)
LEMMA RestoredElsewhere ==
  ASSUME NEW m \in Marking, NEW j, j.at # "remove" \/ j.newly = Pre[j.chosen]
  PROVE  Restored(m, j) = m
BY DEF Restored, Marking

LEMMA PutBack ==
  ASSUME NEW h \in Token, NEW s \in Seq(Token)
  PROVE  /\ <<h>> \o s \in Seq(Token) /\ <<h>> \o s # << >>
         /\ Head(<<h>> \o s) = h /\ Tail(<<h>> \o s) = s
         /\ \A t \in Token : Append(<<h>> \o s, t) = <<h>> \o Append(s, t)
<1>1. <<h>> \in Seq(Token) /\ Len(<<h>>) = 1 /\ <<h>>[1] = h
  OBVIOUS
<1> DEFINE r == <<h>> \o s
<1>2. r \in Seq(Token) /\ Len(r) = Len(s) + 1 /\ r[1] = h /\ \A i \in 1..Len(s) : r[i + 1] = s[i]
  BY <1>1
<1>3. r # << >> /\ Head(r) = h
  BY <1>2
<1>4. Tail(r) = s
  <2>1. Tail(r) \in Seq(Token) /\ Len(Tail(r)) = Len(s)
    BY <1>2, <1>3
  <2>2. \A i \in 1..Len(s) : Tail(r)[i] = s[i]
    BY <1>2, <1>3
  <2> HIDE DEF r
  <2> QED BY <2>1, <2>2, SeqEqual
<1>5. ASSUME NEW t \in Token PROVE Append(r, t) = <<h>> \o Append(s, t)
  OBVIOUS
<1> QED BY <1>2, <1>3, <1>4, <1>5

LEMMA HeadBack ==
  ASSUME NEW s \in Seq(Token), s # << >>
  PROVE  <<Head(s)>> \o Tail(s) = s /\ Head(s) \in Token /\ Tail(s) \in Seq(Token)
OBVIOUS

\* The job has failed a script and removes its tokens.
Removing(j) == j \in JobRec /\ Aimed(j) /\ j.at = "remove"

LEMMA RemovingFacts ==
  ASSUME NEW j, Removing(j)
  PROVE  /\ j.chosen \in Transition /\ Pre[j.chosen] \subseteq Place
         /\ j.newly \subseteq Pre[j.chosen] /\ j.marking \in Marking
         /\ \A p \in Pre[j.chosen] : j.marking[p] # << >> /\ Head(j.marking[p]) \in Token
<1>1. j.chosen \in Transition /\ HasBinding(j.chosen, j.marking) /\ j.newly \subseteq Pre[j.chosen]
      /\ j.marking \in Marking
  BY DEF Removing, Aimed, JobRec
<1>2. Pre[j.chosen] \subseteq Place
  BY <1>1, TopologyAssumption
<1>3. \A p \in Pre[j.chosen] : j.marking[p] # << >> /\ Head(j.marking[p]) \in Token
  BY <1>1, ConsumedType
<1> QED BY <1>1, <1>2, <1>3

LEMMA RestoredType ==
  ASSUME NEW m \in Marking, NEW j, Removing(j)
  PROVE  Restored(m, j) \in Marking
<1>1. \A p \in Place : m[p] \in Seq(Token)
  BY DEF Marking
<1>2. \A p \in Pre[j.chosen] : p \in Place => <<Head(j.marking[p])>> \o m[p] \in Seq(Token)
  BY <1>1, RemovingFacts, PutBack
<1> QED BY <1>1, <1>2 DEF Restored, Marking

LEMMA RestoredAdd ==
  ASSUME NEW m \in Marking, NEW j, Removing(j), NEW p \in Place, NEW t \in Token
  PROVE  Restored(AddToken(m, p, t), j) = AddToken(Restored(m, j), p, t)
<1> DEFINE G == Pre[j.chosen] \ j.newly
           n == AddToken(m, p, t)
           R == Restored(m, j)
<1>1. \A q \in Place : m[q] \in Seq(Token)
  BY DEF Marking
<1>2. n = [m EXCEPT ![p] = Append(m[p], t)] /\ m \in [Place -> Seq(Token)]
  BY DEF AddToken, Marking
<1>3. \A q \in G : Head(j.marking[q]) \in Token
  BY RemovingFacts
<1>4. R = [q \in Place |-> IF q \in G THEN <<Head(j.marking[q])>> \o m[q] ELSE m[q]]
  BY DEF Restored, Removing
<1>5. Restored(n, j) = [q \in Place |-> IF q \in G THEN <<Head(j.marking[q])>> \o n[q] ELSE n[q]]
  BY DEF Restored, Removing
<1>6. AddToken(R, p, t) = [R EXCEPT ![p] = Append(R[p], t)]
  BY DEF AddToken
<1> HIDE DEF G, n, R
<1>7. p \in G => Append(<<Head(j.marking[p])>> \o m[p], t) = <<Head(j.marking[p])>> \o Append(m[p], t)
  BY <1>1, <1>3, PutBack
<1>8. Restored(n, j) = AddToken(R, p, t)
  <2>1. \A q \in Place : Restored(n, j)[q] = AddToken(R, p, t)[q]
    <3> SUFFICES ASSUME NEW q \in Place PROVE Restored(n, j)[q] = AddToken(R, p, t)[q]
      OBVIOUS
    <3>1. CASE q = p
      <4>1. n[p] = Append(m[p], t) /\ AddToken(R, p, t)[p] = Append(R[p], t)
        BY <1>2, <1>4, <1>6
      <4> QED BY <1>4, <1>5, <1>7, <3>1, <4>1
    <3>2. CASE q # p
      <4>1. n[q] = m[q] /\ AddToken(R, p, t)[q] = R[q]
        BY <1>2, <1>4, <1>6, <3>2
      <4> QED BY <1>4, <1>5, <4>1
    <3> QED BY <3>1, <3>2
  <2> QED BY <1>4, <1>5, <1>6, <2>1
<1> QED BY <1>8 DEF n, R

\* One more token leaves the log, and is put back.
LEMMA RestoredDrop ==
  ASSUME NEW m \in Marking, NEW j, Removing(j), NEW p \in j.newly,
         m[p] # << >>, Head(m[p]) = Head(j.marking[p]),
         NEW r, r.at = "remove", r.chosen = j.chosen, r.marking = j.marking,
         r.newly = j.newly \ {p}
  PROVE  Restored(Game!Without(m, {p}), r) = Restored(m, j)
<1>1. p \in Pre[j.chosen] /\ p \in Place
  BY RemovingFacts
<1>2. m[p] \in Seq(Token)
  BY <1>1 DEF Marking
<1>3. <<Head(j.marking[p])>> \o Tail(m[p]) = m[p]
  BY <1>2, HeadBack
<1> DEFINE n == Game!Without(m, {p})
<1>4. n[p] = Tail(m[p]) /\ \A q \in Place : q # p => n[q] = m[q]
  BY <1>1 DEF Game!Without
<1> HIDE DEF n
<1>5. \A q \in Place : Restored(n, r)[q] = Restored(m, j)[q]
  BY <1>1, <1>3, <1>4 DEF Restored, Removing
<1>6. Restored(n, r) = Restored(m, j)
  BY <1>5 DEF Restored
<1> QED BY <1>6 DEF n

\* The last one leaves: now all are gone.
LEMMA RestoredLast ==
  ASSUME NEW m \in Marking, NEW j, Removing(j), NEW p, j.newly = {p}
  PROVE  Game!Without(m, {p}) = Game!Without(Restored(m, j), Pre[j.chosen])
<1>1. p \in Pre[j.chosen] /\ \A q \in Pre[j.chosen] : q \in Place /\ Head(j.marking[q]) \in Token
  BY RemovingFacts
<1>2. \A q \in Place : m[q] \in Seq(Token)
  BY DEF Marking
<1> DEFINE R == Restored(m, j)
<1>3. \A q \in Place : q \notin Pre[j.chosen] \/ q = p => R[q] = m[q]
  BY DEF Restored
<1>4. \A q \in Pre[j.chosen] : q # p => R[q] = <<Head(j.marking[q])>> \o m[q]
  BY <1>1 DEF Restored, Removing
<1> HIDE DEF R
<1>5. ASSUME NEW q \in Pre[j.chosen], q # p PROVE Tail(R[q]) = m[q]
  <2>1. R[q] = <<Head(j.marking[q])>> \o m[q] /\ Head(j.marking[q]) \in Token /\ m[q] \in Seq(Token)
    BY <1>1, <1>2, <1>4, <1>5
  <2> QED BY <2>1, PutBack
<1>6. \A q \in Place : (IF q \in {p} THEN Tail(m[q]) ELSE m[q])
                          = (IF q \in Pre[j.chosen] THEN Tail(R[q]) ELSE R[q])
  BY <1>1, <1>3, <1>5
<1>7. Game!Without(m, {p}) = Game!Without(R, Pre[j.chosen])
  BY <1>6 DEF Game!Without
<1> QED BY <1>7 DEF R

-----------------------------------------------------------------------------
(***************************************************************************)
(* How a step moves one job: what is chosen stays chosen, on the marking   *)
(* and in the phase it was chosen in, and a drain follows a failure.       *)
(***************************************************************************)
Chosen == {"mark", "fire", "commit", "remove"}

Same(j, r) ==
    j.at \in Chosen /\ r.chosen = j.chosen /\ r.marking = j.marking /\ r.phase = j.phase

Goes(c, r) ==
    /\ r \in JobRec /\ job' = [job EXCEPT ![c] = r]
    /\ r.at \in Chosen => SelectNext(c) \/ Same(job[c], r)
    /\ Busy(r) /\ r.phase = "Finalizing" =>
          "Normal" \in failures' \/ (Busy(job[c]) /\ job[c].phase = "Finalizing")
    /\ failures \subseteq failures'

\* The steps that are none of the game's.
Idles(c, r) ==
    /\ Goes(c, r)
    /\ Now' = Now /\ UNCHANGED minted
    /\ "Normal" \in failures' => "Normal" \in failures
    /\ job[c].at # "remove"
    /\ r.at = "remove" => job[c].at = "commit" /\ r.newly = Pre[r.chosen]

LEMMA FinishGoes ==
  ASSUME NEW c \in Caller, NEW result \in {"Quiescent", "LimitReached", "Terminal", "Failed"},
         Finish(c, result), failures \subseteq failures'
  PROVE  \E r : Goes(c, r) /\ r.at \in {"idle", "driver"}
<1>1. PICK r \in JobRec : r.at \in {"idle", "driver"} /\ job' = [job EXCEPT ![c] = r]
  <2> DEFINE r == IF c = Loop THEN [NoJob("driver") EXCEPT !.result = result] ELSE NoJob("idle")
  <2>1. NoJob("driver") \in JobRec /\ NoJob("idle") \in JobRec
        /\ NoJob("driver").at = "driver" /\ NoJob("idle").at = "idle"
    BY NoJobType DEF At
  <2>2. r \in JobRec /\ r.at \in {"idle", "driver"}
    BY <2>1 DEF JobRec
  <2>3. job' = [job EXCEPT ![c] = r]
    BY DEF Finish
  <2> HIDE DEF r
  <2> QED BY <2>2, <2>3
<1> QED BY <1>1 DEF Goes, Chosen, Busy

LEMMA RoundGoes ==
  ASSUME JInv, FiresLocked, NEW c \in Caller, Busy(job[c]),
         (NextRound(c) /\ UNCHANGED failures) \/ GiveUp(c) \/ Abandon(c)
  PROVE  \E r : Goes(c, r) /\ r.at \in {"advance", "idle", "driver"}
<1>1. c \notin Firer
  BY DEF FiresLocked
<1>2. job[c].phase \in {"Normal", "Finalizing"} /\ job[c].steps \in Nat
  BY JFacts DEF JobRec
<1>3. NoJob("advance") \in JobRec /\ NoJob("advance").at = "advance"
  BY NoJobType DEF At
<1>4. CASE NextRound(c) /\ UNCHANGED failures
  <2> DEFINE n == job[c].steps + 1
             r == [NoJob("advance") EXCEPT !.phase = job[c].phase, !.steps = n]
  <2>1. n \in Nat
    BY <1>2
  <2>2. job' = [job EXCEPT ![c] = r] \/ Finish(c, "LimitReached") \/ Finish(c, "Failed")
    BY <1>1, <1>4 DEF NextRound
  <2> HIDE DEF n
  <2>3. r \in JobRec /\ r.at = "advance" /\ r.phase = job[c].phase
    BY <1>2, <1>3, <2>1 DEF JobRec
  <2> HIDE DEF r
  <2>4. CASE job' = [job EXCEPT ![c] = r]
    <3>1. Goes(c, r)
      BY <1>4, <2>3, <2>4 DEF Goes, Chosen
    <3> QED BY <2>3, <3>1
  <2>5. CASE Finish(c, "LimitReached") \/ Finish(c, "Failed")
    BY <1>4, <2>5, FinishGoes
  <2> QED BY <2>2, <2>4, <2>5
<1>5. CASE GiveUp(c)
  <2> DEFINE r == [NoJob("advance") EXCEPT !.phase = "Finalizing"]
  <2>1. /\ failures' = failures \cup {job[c].phase}
        /\ (job[c].phase = "Normal" /\ job' = [job EXCEPT ![c] = r]) \/ Finish(c, "Failed")
    BY <1>1, <1>5 DEF GiveUp, StartDrain
  <2>2. r \in JobRec /\ r.at = "advance"
    BY <1>3 DEF JobRec
  <2> HIDE DEF r
  <2>3. CASE job[c].phase = "Normal" /\ job' = [job EXCEPT ![c] = r]
    <3>1. Goes(c, r)
      BY <2>1, <2>2, <2>3 DEF Goes, Chosen
    <3> QED BY <2>2, <3>1
  <2>4. CASE Finish(c, "Failed")
    BY <2>1, <2>4, FinishGoes
  <2> QED BY <2>1, <2>3, <2>4
<1>6. CASE Abandon(c)
  <2>1. (Finish(c, "Quiescent") \/ Finish(c, "Failed")) /\ failures \subseteq failures'
    BY <1>1, <1>6 DEF Abandon
  <2> QED BY <2>1, FinishGoes
<1> QED BY <1>4, <1>5, <1>6

LEMMA WakeG ==
  ASSUME JInv, Wake
  PROVE  \E r : Idles(Loop, r)
<1> DEFINE a == IF mode = "Running" THEN "lock" ELSE "wait"
           r == [job[Loop] EXCEPT !.at = a]
<1>1. Loop \in Caller /\ job \in [Caller -> JobRec] /\ CIInv
  BY JFacts, Actors
<1>2. /\ job' = [job EXCEPT ![Loop] = r] /\ job[Loop].at = "wait"
      /\ UNCHANGED <<cvars, minted, failures>>
  BY <1>1 DEF Wake
<1>3. r \in JobRec /\ r.at \in {"lock", "wait"}
  BY <1>1 DEF JobRec, At
<1> HIDE DEF r
<1>4. Now' = Now
  BY <1>1, <1>2, AuditGrows
<1> QED BY <1>2, <1>3, <1>4 DEF Idles, Goes, Chosen, Busy

LEMMA RequestG ==
  ASSUME JInv, FiresLocked, NEW c \in Caller, Request(c)
  PROVE  \E r : Idles(c, r)
<1> DEFINE a == IF c \in HttpEval THEN "lock" ELSE "advance"
           r == [NoJob(a) EXCEPT !.chosen = None]
<1>1. /\ job' = [job EXCEPT ![c] = r] /\ job[c].at = "idle"
      /\ UNCHANGED <<cvars, minted, failures>>
  BY DEF Request, FiresLocked
<1>2. a \in {"lock", "advance"}
  OBVIOUS
<1> HIDE DEF a
<1>3. NoJob(a) \in JobRec /\ NoJob(a).at = a /\ NoJob(a).phase = "Normal"
  BY <1>2, NoJobType DEF At
<1>4. r \in JobRec /\ r.at = a /\ r.phase = "Normal"
  BY <1>3 DEF JobRec
<1> HIDE DEF r
<1>5. Now' = Now
  BY <1>1, JFacts, AuditGrows
<1> QED BY <1>1, <1>2, <1>4, <1>5 DEF Idles, Goes, Chosen, Busy

LEMMA DriveG ==
  ASSUME JInv, Drive
  PROVE  \E r : Idles(Loop, r)
<1>1. PICK a \in {"wait", "stopped"} : job' = [job EXCEPT ![Loop] = NoJob(a)]
  BY DEF Drive
<1>2. /\ job[Loop].at = "driver" /\ (UNCHANGED cvars \/ Emit(Audit))
      /\ UNCHANGED <<minted, failures>>
  BY DEF Drive
<1>3. NoJob(a) \in JobRec /\ NoJob(a).at = a
  BY NoJobType DEF At
<1>4. Now' = Now
  BY <1>2, JFacts, AuditGrows
<1>5. Idles(Loop, NoJob(a))
  BY <1>1, <1>2, <1>3, <1>4 DEF Idles, Goes, Chosen, Busy
<1> QED BY <1>5

LEMMA TryLockG ==
  ASSUME JInv, NEW c \in Caller, TryLock(c)
  PROVE  \E r : Idles(c, r)
<1>1. PICK a \in {"advance", "driver", "idle"} : job' = [job EXCEPT ![c] = NoJob(a)]
  BY DEF TryLock
<1>2. job[c].at = "lock" /\ UNCHANGED <<cvars, minted, failures>>
  BY DEF TryLock
<1>3. NoJob(a) \in JobRec /\ NoJob(a).at = a /\ NoJob(a).phase = "Normal"
  BY NoJobType DEF At
<1>4. Now' = Now
  BY <1>2, JFacts, AuditGrows
<1>5. Idles(c, NoJob(a))
  BY <1>1, <1>2, <1>3, <1>4 DEF Idles, Goes, Chosen
<1> QED BY <1>5

LEMMA ReconcileG ==
  ASSUME JInv, FiresLocked, NEW c \in Caller, Reconcile(c)
  PROVE  \E r : Idles(c, r)
<1> DEFINE m == call[c].snap.marking
           r == [job[c] EXCEPT !.at = "select", !.marking = m]
<1>1. /\ job[c].at = "advance" /\ call[c].snap \in CacheEntry
      /\ c \in Evaluator => job' = [job EXCEPT ![c] = r]
      /\ c \notin Evaluator => job' = [job EXCEPT ![c] = NoJob("idle")]
      /\ UNCHANGED <<log, minted>>
  BY ReconcileJ
<1>2. UNCHANGED failures
  BY DEF Reconcile
<1>3. Now' = Now
  BY <1>1 DEF Now
<1>4. CASE c \in Evaluator
  <2>1. job[c] \in JobRec /\ m \in Marking
    BY <1>1, JFacts DEF CacheEntry
  <2> HIDE DEF m
  <2>2. r \in JobRec /\ r.at = "select" /\ r.phase = job[c].phase
    BY <2>1, ZenonT(60) DEF JobRec, At
  <2> HIDE DEF r
  <2>3. Busy(job[c])
    BY <1>1 DEF Busy
  <2>4. Idles(c, r)
    BY <1>1, <1>2, <1>3, <1>4, <2>2, <2>3 DEF Idles, Goes, Chosen
  <2> QED BY <2>4
<1>5. CASE c \notin Evaluator
  <2>1. NoJob("idle") \in JobRec /\ NoJob("idle").at = "idle"
    BY NoJobType DEF At
  <2>2. Idles(c, NoJob("idle"))
    BY <1>1, <1>2, <1>3, <1>5, <2>1 DEF Idles, Goes, Chosen, Busy
  <2> QED BY <2>2
<1> QED BY <1>4, <1>5

LEMMA SelectNextG ==
  ASSUME JInv, FiresLocked, NEW c \in Caller, SelectNext(c)
  PROVE  \E r : Idles(c, r)
<1> DEFINE N == NewlyIn(job[c])
<1>1. /\ job[c].at = "select" /\ UNCHANGED <<cvars, minted>> /\ JInv'
      /\ \E t : job' = [job EXCEPT ![c] = [job[c] EXCEPT !.at = "mark", !.chosen = t, !.newly = N]]
  BY SelectNextJ
<1>2. PICK t : job' = [job EXCEPT ![c] = [job[c] EXCEPT !.at = "mark", !.chosen = t, !.newly = N]]
  BY <1>1
<1> HIDE DEF N
<1> DEFINE r == [job[c] EXCEPT !.at = "mark", !.chosen = t, !.newly = N]
<1>3. job \in [Caller -> JobRec] /\ job[c] \in JobRec /\ job' \in [Caller -> JobRec]
  BY <1>1, JFacts DEF JInv, TypeOK, JobRec, At
<1>4. r.at = "mark" /\ r.phase = job[c].phase
  BY <1>3 DEF JobRec
<1> HIDE DEF r
<1>5. job' = [job EXCEPT ![c] = r]
  BY <1>2 DEF r
<1>6. r \in JobRec
  BY <1>3, <1>5
<1>7. Now' = Now
  BY <1>1, JFacts, AuditGrows
<1>8. UNCHANGED failures /\ Busy(job[c])
  BY <1>1 DEF SelectNext, Busy
<1>9. Idles(c, r)
  BY <1>1, <1>4, <1>5, <1>6, <1>7, <1>8 DEF Idles, Goes
<1> QED BY <1>9

LEMMA MarkEmptyG ==
  ASSUME JInv, FiresLocked, NEW c \in Caller, MarkEmpty(c)
  PROVE  \E r : Idles(c, r)
<1>1. job[c].at = "mark" /\ UNCHANGED <<cvars, minted, failures>>
  BY DEF MarkEmpty
<1>2. Now' = Now
  BY <1>1, JFacts, AuditGrows
<1>3. CASE job[c].chosen # None
  <2> DEFINE r == [job[c] EXCEPT !.at = "fire"]
  <2>1. job' = [job EXCEPT ![c] = r] /\ job[c] \in JobRec
    BY <1>3, JFacts DEF MarkEmpty
  <2>2. /\ r \in JobRec /\ r.at = "fire" /\ r.chosen = job[c].chosen
        /\ r.marking = job[c].marking /\ r.phase = job[c].phase
    BY <2>1 DEF JobRec, At
  <2> HIDE DEF r
  <2>3. Idles(c, r)
    BY <1>1, <1>2, <2>1, <2>2 DEF Idles, Goes, Chosen, Same, Busy
  <2> QED BY <2>3
<1>4. CASE job[c].chosen = None
  <2>1. \E result \in {"Failed", "Terminal", "Quiescent"} : Finish(c, result)
    BY <1>4 DEF MarkEmpty
  <2>2. PICK r : Goes(c, r) /\ r.at \in {"idle", "driver"}
    BY <1>1, <2>1, FinishGoes
  <2>3. Idles(c, r)
    BY <1>1, <1>2, <2>2 DEF Idles
  <2> QED BY <2>3
<1> QED BY <1>3, <1>4

LEMMA FireG ==
  ASSUME JInv, FiresLocked, NEW c \in Caller, Fire(c)
  PROVE  \E r : Idles(c, r)
<1>1. /\ job[c].at = "fire" /\ (UNCHANGED cvars \/ Emit(Audit)) /\ UNCHANGED minted
      /\ \E o \in Outcomes :
            job' = [job EXCEPT ![c] = [job[c] EXCEPT !.at = "commit", !.outcome = o]]
  BY FireJ
<1>2. PICK o \in Outcomes :
            job' = [job EXCEPT ![c] = [job[c] EXCEPT !.at = "commit", !.outcome = o]]
  BY <1>1
<1> DEFINE r == [job[c] EXCEPT !.at = "commit", !.outcome = o]
<1>3. job[c] \in JobRec
  BY JFacts
<1>4. /\ r \in JobRec /\ r.at = "commit" /\ r.chosen = job[c].chosen
      /\ r.marking = job[c].marking /\ r.phase = job[c].phase
  BY <1>3 DEF JobRec, At
<1> HIDE DEF r
<1>5. job' = [job EXCEPT ![c] = r]
  BY <1>2 DEF r
<1>6. Now' = Now /\ UNCHANGED failures
  BY <1>1, JFacts, AuditGrows DEF Fire
<1>7. Idles(c, r)
  BY <1>1, <1>4, <1>5, <1>6 DEF Idles, Goes, Chosen, Same, Busy
<1> QED BY <1>7

LEMMA BridgeOutG ==
  ASSUME JInv, FiresLocked, NEW c \in Caller, BridgeOut(c)
  PROVE  \E r : Idles(c, r)
<1>1. job[c].at = "bridgeOut" /\ Emit(Audit) /\ NextRound(c) /\ UNCHANGED <<minted, failures>>
  BY DEF BridgeOut
<1>2. Now' = Now
  BY <1>1, JFacts, AuditGrows
<1>3. PICK r : Goes(c, r) /\ r.at \in {"advance", "idle", "driver"}
  BY <1>1, RoundGoes DEF Busy
<1>4. Idles(c, r)
  BY <1>1, <1>2, <1>3 DEF Idles
<1> QED BY <1>4

LEMMA AbandonIdles ==
  ASSUME JInv, FiresLocked, NEW c \in Caller, job[c].at = "commit", Abandon(c), Now' = Now,
         UNCHANGED minted
  PROVE  \E r : Idles(c, r)
<1>1. PICK r : Goes(c, r) /\ r.at \in {"advance", "idle", "driver"}
  BY RoundGoes DEF Busy
<1>2. "Normal" \in failures' => "Normal" \in failures
  BY DEF Abandon
<1>3. Idles(c, r)
  BY <1>1, <1>2 DEF Idles
<1> QED BY <1>3

LEMMA CommitDeferG ==
  ASSUME JInv, FiresLocked, NEW c \in Caller, CommitDefer(c)
  PROVE  \E r : Idles(c, r)
<1>1. /\ job[c].at = "commit" /\ Emit(Audit) /\ UNCHANGED minted
      /\ \/ job' = [job EXCEPT ![c].outcome = "reject"] /\ UNCHANGED failures
         \/ Abandon(c)
  BY DEF CommitDefer
<1>2. Now' = Now
  BY <1>1, JFacts, AuditGrows
<1>3. CASE job' = [job EXCEPT ![c].outcome = "reject"] /\ UNCHANGED failures
  <2> DEFINE r == [job[c] EXCEPT !.outcome = "reject"]
  <2>1. job' = [job EXCEPT ![c] = r] /\ job[c] \in JobRec
    BY <1>3, JFacts
  <2>2. /\ r \in JobRec /\ r.at = "commit" /\ r.chosen = job[c].chosen
        /\ r.marking = job[c].marking /\ r.phase = job[c].phase
    BY <1>1, <2>1 DEF JobRec
  <2> HIDE DEF r
  <2>3. Idles(c, r)
    BY <1>1, <1>2, <1>3, <2>1, <2>2 DEF Idles, Goes, Chosen, Same, Busy
  <2> QED BY <2>3
<1>4. CASE Abandon(c)
  BY <1>1, <1>2, <1>4, AbandonIdles
<1> QED BY <1>1, <1>3, <1>4

LEMMA CommitTransientG ==
  ASSUME JInv, FiresLocked, NEW c \in Caller, CommitTransient(c)
  PROVE  \E r : Idles(c, r)
<1>1. job[c].at = "commit" /\ Abandon(c) /\ UNCHANGED <<cvars, minted>>
  BY DEF CommitTransient
<1>2. Now' = Now
  BY <1>1, JFacts, AuditGrows
<1> QED BY <1>1, <1>2, AbandonIdles

-----------------------------------------------------------------------------
(***************************************************************************)
(* The invariant of the game.  A transition was chosen in its phase, a     *)
(* drain follows a permanent failure, and the marking that a failed script *)
(* works on still has its first tokens, with those put back that are gone. *)
(***************************************************************************)
Turn(j) ==
    j.at \in Chosen /\ j.chosen # None => (j.chosen \in Finalizer <=> j.phase = "Finalizing")

Failing ==
    \A c \in Caller : Busy(job[c]) /\ job[c].phase = "Finalizing" => "Normal" \in failures

Backed(R, m, k) ==
    HeadsKept(m, R) /\ \A p \in Place : R[p] # << >> => Head(R[p]).id \in 1..k

Removals ==
    \A c \in Caller :
        job[c].at = "remove" => Backed(Restored(Now, job[c]), job[c].marking, minted)

PlayInv == (\A c \in Caller : Turn(job[c])) /\ Failing /\ Removals

\* The chosen transition is preferred to every other one of its kind.
First(j) ==
    j.at \in Chosen /\ j.chosen # None =>
        \A u \in Transition :
            (u \in Finalizer <=> j.chosen \in Finalizer) /\ HasBinding(u, j.marking) =>
                Preferred(j.chosen, u, j.marking)

Firsts == \A c \in Caller : First(job[c])

LEMMA Selection ==
  ASSUME JInv, NEW c \in Caller, SelectNext(c)
  PROVE  /\ job'[c].chosen \in Best(BoundIn(job[c]), job[c].marking)
         /\ job'[c].marking = job[c].marking /\ job'[c].phase = job[c].phase
         /\ job[c].at = "select" /\ job[c].phase \in {"Normal", "Finalizing"}
<1>1. job \in [Caller -> JobRec] /\ job[c] \in JobRec
  BY JFacts
<1>2. PICK t \in Best(BoundIn(job[c]), job[c].marking) :
         job' = [job EXCEPT ![c].at = "mark", ![c].chosen = t, ![c].newly = NewlyIn(job[c])]
  BY DEF SelectNext, BoundIn, NewlyIn, Eligible
<1>3. job[c].at = "select"
  BY DEF SelectNext
<1> DEFINE N == NewlyIn(job[c])
           r == [job[c] EXCEPT !.at = "mark", !.chosen = t, !.newly = N]
<1> HIDE DEF N
<1>4. job' = [job EXCEPT ![c] = r]
  BY <1>1, <1>2 DEF N
<1>5. r.chosen = t /\ r.marking = job[c].marking /\ r.phase = job[c].phase
  BY <1>1 DEF JobRec
<1> HIDE DEF r
<1>6. job'[c] = r
  BY <1>1, <1>4
<1> QED BY <1>1, <1>2, <1>3, <1>5, <1>6 DEF JobRec

LEMMA GoesTurns ==
  ASSUME JInv, \A d \in Caller : Turn(job[d]), Failing, NEW c \in Caller, NEW r, Goes(c, r)
  PROVE  (\A d \in Caller : Turn(job'[d])) /\ Failing'
<1>1. job'[c] = r /\ \A d \in Caller : d # c => job'[d] = job[d]
  BY JFacts DEF Goes
<1>2. Turn(r)
  <2> SUFFICES ASSUME r.at \in Chosen, r.chosen # None
               PROVE  r.chosen \in Finalizer <=> r.phase = "Finalizing"
    BY DEF Turn
  <2>1. CASE SelectNext(c)
    <3>1. /\ r.chosen \in BoundIn(job[c]) /\ r.phase = job[c].phase
          /\ job[c].phase \in {"Normal", "Finalizing"}
      BY <1>1, <2>1, Selection DEF Best
    <3>2. (r.chosen \in Finalizer) # (job[c].phase = "Normal")
      BY <3>1 DEF BoundIn, Eligible
    <3> QED BY <3>1, <3>2
  <2>2. CASE Same(job[c], r)
    BY <2>2 DEF Same, Turn
  <2> QED BY <2>1, <2>2 DEF Goes
<1>3. Failing'
  <2> SUFFICES ASSUME NEW d \in Caller, Busy(job'[d]), job'[d].phase = "Finalizing"
               PROVE  "Normal" \in failures'
    BY DEF Failing
  <2>1. CASE d = c
    BY <1>1, <2>1 DEF Goes, Failing
  <2>2. CASE d # c
    BY <1>1, <2>2 DEF Goes, Failing
  <2> QED BY <2>1, <2>2
<1> QED BY <1>1, <1>2, <1>3

LEMMA GoesFirst ==
  ASSUME JInv, MInv, Firsts, AllLocked, NEW c \in Caller, NEW r, Goes(c, r)
  PROVE  Firsts'
<1>1. job'[c] = r /\ \A d \in Caller : d # c => job'[d] = job[d]
  BY JFacts DEF Goes
<1>2. First(r)
  <2> SUFFICES ASSUME r.at \in Chosen, r.chosen # None,
                      NEW u \in Transition, u \in Finalizer <=> r.chosen \in Finalizer,
                      HasBinding(u, r.marking)
               PROVE  Preferred(r.chosen, u, r.marking)
    BY DEF First
  <2>1. CASE SelectNext(c)
    <3> DEFINE m == job[c].marking
               B == BoundIn(job[c])
    <3>1. /\ r.chosen \in B /\ r.phase = job[c].phase /\ r.marking = m
          /\ job[c].phase \in {"Normal", "Finalizing"} /\ job[c].at = "select"
          /\ \A v \in B : Preferred(r.chosen, v, m)
      BY <1>1, <2>1, Selection DEF Best
    <3>2. (r.chosen \in Finalizer) # (job[c].phase = "Normal")
      BY <3>1 DEF BoundIn, Eligible
    <3>3. (u \in Finalizer) # (job[c].phase = "Normal")
      BY <3>2
    <3>4. u \notin memo.empty
      <4>1. \A d \in Caller : call[d].pc # "done"
        <5>1. Busy(job[c]) /\ job[c].at # "advance"
          BY <3>1 DEF Busy
        <5> QED BY <5>1, NoCalls, Actors DEF AllLocked
      <4>2. Unbound(memo.empty, cache.marking) /\ m = cache.marking
        BY <3>1, <4>1 DEF MInv, MemoSound, OnCache
      <4> QED BY <3>1, <4>2 DEF Unbound
    <3>5. u \in B
      BY <3>1, <3>3, <3>4 DEF BoundIn, Eligible
    <3> QED BY <3>1, <3>5
  <2>2. CASE Same(job[c], r)
    BY <2>2 DEF Same, First, Firsts
  <2> QED BY <2>1, <2>2 DEF Goes
<1> QED BY <1>1, <1>2 DEF Firsts

-----------------------------------------------------------------------------
(***************************************************************************)
(* The game's marking.                                                     *)
(***************************************************************************)
Plays(n, l, jobs) == IF l = None THEN n ELSE Restored(n, jobs[l])

\* Only the lock's holder removes tokens.
Sole(l, jobs) == \A c \in Caller : jobs[c].at = "remove" => l = c

LEMMA PlaysIs ==
  ASSUME NEW n \in Marking, NEW l \in Evaluator \cup {None}, NEW jobs, Sole(l, jobs)
  PROVE  /\ \A c \in Caller : jobs[c].at = "remove" => Plays(n, l, jobs) = Restored(n, jobs[c])
         /\ (\A c \in Caller : jobs[c].at # "remove") => Plays(n, l, jobs) = n
<1>1. ASSUME NEW c \in Caller, jobs[c].at = "remove"
      PROVE  Plays(n, l, jobs) = Restored(n, jobs[c])
  BY <1>1, Actors DEF Sole, Plays
<1>2. ASSUME \A c \in Caller : jobs[c].at # "remove" PROVE Plays(n, l, jobs) = n
  <2>1. CASE l = None
    BY <2>1 DEF Plays
  <2>2. CASE l # None
    <3>1. l \in Caller
      BY <2>2, Actors
    <3>2. Restored(n, jobs[l]) = n
      BY <1>2, <3>1, RestoredElsewhere
    <3> QED BY <2>2, <3>2 DEF Plays
  <2> QED BY <2>1, <2>2
<1> QED BY <1>1, <1>2

LEMMA PlayedIs ==
  ASSUME JInv, JInv'
  PROVE  /\ Played = Plays(Now, lock, job) /\ Sole(lock, job)
         /\ Played' = Plays(Now', lock', job') /\ Sole(lock', job')
         /\ Now \in Marking /\ lock \in Evaluator \cup {None}
         /\ Now' \in Marking /\ lock' \in Evaluator \cup {None}
<1>1. /\ store \in StoreType /\ log \in Seq(PersistedEvent) /\ Represents(store, log)
      /\ lock \in Evaluator \cup {None} /\ Sole(lock, job)
  BY PastAdvance, JFacts DEF JInv, CIInv, CTypeOK, Locked, Sole, Busy, Working
<1>2. /\ store' \in StoreType /\ log' \in Seq(PersistedEvent) /\ Represents(store', log')
      /\ lock' \in Evaluator \cup {None}
  BY DEF JInv, TypeOK, CIInv, CTypeOK
<1>3. Sole(lock', job')
  BY DEF JInv, Locked, Sole, Busy
<1>4. FullMarking(store) = Now /\ FullMarking(store') = Now'
  BY <1>1, <1>2, StoreExtent DEF Now
<1>5. Now \in Marking /\ Now' \in Marking
  <2>1. Len(log) \in 0..Len(log) /\ Len(log') \in 0..Len(log')
    BY <1>1, <1>2
  <2> QED BY <1>1, <1>2, <2>1, UptoType DEF Now
<1>6. Played = Plays(Now, lock, job) /\ Played' = Plays(Now', lock', job')
  BY <1>4 DEF Played, Plays
<1> QED BY <1>1, <1>2, <1>3, <1>5, <1>6

LEMMA NobodyRemoves ==
  ASSUME JInv, JInv', \A c \in Caller : job'[c].at # "remove"
  PROVE  Played' = Now'
<1>1. /\ Played' = Plays(Now', lock', job') /\ Sole(lock', job')
      /\ Now' \in Marking /\ lock' \in Evaluator \cup {None}
  BY PlayedIs
<1>2. PICK n, l, jobs : n = Now' /\ l = lock' /\ jobs = job'
  OBVIOUS
<1>3. Plays(n, l, jobs) = n
  BY <1>1, <1>2, PlaysIs
<1> QED BY <1>1, <1>2, <1>3

\* A step that is none of the game's leaves its marking alone.
LEMMA IdlesPlayed ==
  ASSUME JInv, JInv', NEW c \in Caller, NEW r, Idles(c, r)
  PROVE  Played' = Played
<1>1. /\ Played = Plays(Now, lock, job) /\ Sole(lock, job)
      /\ Played' = Plays(Now, lock', job') /\ Sole(lock', job')
      /\ Now \in Marking /\ lock \in Evaluator \cup {None} /\ lock' \in Evaluator \cup {None}
  BY PlayedIs DEF Idles
<1>2. job'[c] = r /\ (\A d \in Caller : d # c => job'[d] = job[d]) /\ job[c].at # "remove"
  BY JFacts DEF Idles, Goes
<1>3. PICK n, l, jobs : n = Now /\ l = lock' /\ jobs = job'
  OBVIOUS
<1>4. CASE \E d \in Caller : d # c /\ job[d].at = "remove"
  <2>1. PICK d \in Caller : d # c /\ job[d].at = "remove"
    BY <1>4
  <2>2. Plays(Now, lock, job) = Restored(Now, job[d])
    BY <1>1, <2>1, PlaysIs
  <2>3. jobs[d] = job[d] /\ Plays(n, l, jobs) = Restored(n, jobs[d])
    BY <1>1, <1>2, <1>3, <2>1, PlaysIs
  <2> QED BY <1>1, <1>3, <2>2, <2>3
<1>5. CASE \A d \in Caller : d # c => job[d].at # "remove"
  <2>1. Played = Now
    BY <1>1, <1>2, <1>5, PlaysIs
  <2>2. CASE r.at = "remove"
    <3>1. Restored(n, jobs[c]) = n
      BY <1>1, <1>2, <1>3, <2>2, RestoredElsewhere DEF Idles
    <3>2. Plays(n, l, jobs) = Restored(n, jobs[c])
      BY <1>1, <1>2, <1>3, <2>2, PlaysIs
    <3> QED BY <1>1, <1>3, <2>1, <3>1, <3>2
  <2>3. CASE r.at # "remove"
    <3>1. \A d \in Caller : jobs[d].at # "remove"
      BY <1>2, <1>3, <1>5, <2>3
    <3>2. Plays(n, l, jobs) = n
      BY <1>1, <1>3, <3>1, PlaysIs
    <3> QED BY <1>1, <1>3, <2>1, <3>2
  <2> QED BY <2>2, <2>3
<1> QED BY <1>4, <1>5

LEMMA IdlesG ==
  ASSUME JInv, JInv', EInv, PlayInv, NEW c \in Caller, NEW r, Idles(c, r)
  PROVE  PlayInv' /\ UNCHANGED Game!gvars
<1>1. Goes(c, r) /\ Now' = Now /\ minted' = minted
  BY DEF Idles
<1>2. (\A d \in Caller : Turn(job'[d])) /\ Failing'
  BY <1>1, GoesTurns DEF PlayInv
<1>3. job'[c] = r /\ (\A d \in Caller : d # c => job'[d] = job[d])
  BY <1>1, JFacts DEF Goes
<1>4. ASSUME r.at = "remove" PROVE Backed(Restored(Now, r), r.marking, minted)
  <2>1. /\ job[c].at = "commit" /\ r.newly = Pre[r.chosen] /\ r.marking = job[c].marking
    <3>1. ~SelectNext(c)
      BY <1>4 DEF Idles, SelectNext
    <3> QED BY <1>1, <1>4, <3>1 DEF Idles, Goes, Chosen, Same
  <2>2. Now \in Marking
    BY PlayedIs
  <2>3. Restored(Now, r) = Now
    BY <2>1, <2>2, RestoredElsewhere
  <2>4. HeadsKept(r.marking, Now) /\ Ids(Now) \subseteq 1..minted
    BY <2>1 DEF EInv, Steady
  <2>5. \A p \in Place : Now[p] # << >> => Head(Now[p]).id \in 1..minted
    BY <2>2, <2>4, HeadAmong
  <2> QED BY <2>3, <2>4, <2>5 DEF Backed
<1>5. Removals'
  <2> SUFFICES ASSUME NEW d \in Caller, job'[d].at = "remove"
               PROVE  Backed(Restored(Now', job'[d]), job'[d].marking, minted')
    BY DEF Removals
  <2>1. CASE d = c
    BY <1>1, <1>3, <1>4, <2>1
  <2>2. CASE d # c
    BY <1>1, <1>3, <2>2 DEF PlayInv, Removals
  <2> QED BY <2>1, <2>2
<1>6. Played' = Played
  BY IdlesPlayed
<1>7. ("Normal" \in failures)' = ("Normal" \in failures)
  BY <1>1 DEF Idles, Goes
<1> QED BY <1>1, <1>2, <1>5, <1>6, <1>7 DEF PlayInv, Game!gvars

-----------------------------------------------------------------------------
(***************************************************************************)
(* The moves of the game.                                                  *)
(***************************************************************************)
LEMMA AddNone ==
  ASSUME NEW m \in Marking
  PROVE  AddAll(m, << >>) = m
<1>1. << >> \in ProducedList /\ Len(<< >>) = 0
  BY DEF ProducedList
<1>2. PICK h : IsRun(h, Marking, m, Len(<< >>), AddStep(<< >>)) /\ AddAll(m, << >>) = h[Len(<< >>)]
  BY <1>1, AddAllRun
<1> QED BY <1>1, <1>2 DEF IsRun

\* Whoever is past the selection moves on alone.
LEMMA HolderGoes ==
  ASSUME JInv, JInv', PlayInv, NEW c \in Caller, job[c].at \in Working,
         NEW r, Goes(c, r), r.at # "remove"
  PROVE  PlayInv' /\ Played' = Now'
<1>1. job'[c] = r /\ (\A d \in Caller : d # c => job'[d] = job[d])
  BY JFacts DEF Goes
<1>2. \A d \in Caller : d # c => job[d].at \notin Working
  BY JFacts, PastAdvance, Alone DEF Working, Busy
<1>3. \A d \in Caller : job'[d].at # "remove"
  BY <1>1, <1>2 DEF Working
<1>4. Removals'
  BY <1>3 DEF Removals
<1>5. (\A d \in Caller : Turn(job'[d])) /\ Failing'
  BY GoesTurns DEF PlayInv
<1> QED BY <1>3, <1>4, <1>5, NobodyRemoves DEF PlayInv

\* What is bound in the marking worked on is bound in the game's.
LEMMA MayMove ==
  ASSUME JInv, EInv, PlayInv, JInv', NEW c \in Caller, job[c].at \in {"commit", "remove"}
  PROVE  /\ job[c].chosen \in Transition /\ job[c].marking \in Marking
         /\ HasBinding(job[c].chosen, job[c].marking)
         /\ Played \in Marking /\ HeadsKept(job[c].marking, Played)
         /\ job[c].at = "commit" => Played = Now
         /\ job[c].at = "remove" => Played = Restored(Now, job[c]) /\ Removing(job[c])
         /\ Game!Bound(job[c].chosen, Played)
         /\ job[c].chosen \in Finalizer => "Normal" \in failures
<1> DEFINE t == job[c].chosen
           m == job[c].marking
<1>1. job[c] \in JobRec /\ Aimed(job[c])
  BY JFacts
<1>2. t \in Transition /\ m \in Marking /\ HasBinding(t, m)
  BY <1>1 DEF Aimed, JobRec
<1>3. /\ Played = Plays(Now, lock, job) /\ Sole(lock, job)
      /\ Now \in Marking /\ lock \in Evaluator \cup {None}
  BY PlayedIs
<1>4. \A d \in Caller : d # c => job[d].at \notin Working
  BY JFacts, PastAdvance, Alone DEF Working, Busy
<1>5. /\ Played \in Marking /\ HeadsKept(m, Played)
      /\ job[c].at = "commit" => Played = Now
      /\ job[c].at = "remove" => Played = Restored(Now, job[c]) /\ Removing(job[c])
  <2>1. CASE job[c].at = "commit"
    <3>1. \A d \in Caller : job[d].at # "remove"
      BY <1>4, <2>1 DEF Working
    <3>2. Played = Now
      BY <1>3, <3>1, PlaysIs
    <3>3. HeadsKept(m, Now)
      BY <2>1 DEF EInv, Steady
    <3> QED BY <1>3, <2>1, <3>2, <3>3
  <2>2. CASE job[c].at = "remove"
    <3>1. Removing(job[c])
      BY <1>1, <2>2 DEF Removing
    <3>2. Played = Restored(Now, job[c])
      BY <1>3, <2>2, PlaysIs
    <3>3. Restored(Now, job[c]) \in Marking
      BY <1>3, <3>1, RestoredType
    <3>4. HeadsKept(m, Restored(Now, job[c]))
      BY <2>2 DEF PlayInv, Removals, Backed
    <3> QED BY <2>2, <3>1, <3>2, <3>3, <3>4
  <2> QED BY <2>1, <2>2
<1>6. Game!Bound(t, Played)
  BY <1>2, <1>5, TopologyAssumption DEF Game!Bound, HasBinding, HeadsKept
<1>7. t \in Finalizer => "Normal" \in failures
  <2>1. t # None
    BY <1>2, ChoiceAssumption
  <2>2. t \in Finalizer => job[c].phase = "Finalizing"
    BY <2>1 DEF PlayInv, Turn, Chosen
  <2> QED BY <2>2 DEF PlayInv, Failing, Busy
<1> QED BY <1>2, <1>5, <1>6, <1>7

\* A permanent failure is one after it.
LEMMA GaveUp ==
  ASSUME JInv, PlayInv, FiresLocked, NEW c \in Caller, Busy(job[c]), GiveUp(c)
  PROVE  ("Normal" \in failures)'
<1>1. failures' = failures \cup {job[c].phase}
  BY DEF GiveUp, FiresLocked
<1>2. job[c].phase \in {"Normal", "Finalizing"}
  BY JFacts DEF JobRec
<1>3. job[c].phase = "Finalizing" => "Normal" \in failures
  BY DEF PlayInv, Failing
<1> QED BY <1>1, <1>2, <1>3

\* A move of the game by the transition that c has chosen.
Moves(c) == job[c].at \in {"commit", "remove"} /\ Game!Move(job[c].chosen, Played)

LEMMA CommitOkG ==
  ASSUME JInv, EInv, PlayInv, FiresLocked, NEW c \in Caller, CommitOk(c)
  PROVE  PlayInv' /\ Moves(c) /\ \E r : Goes(c, r)
<1> DEFINE t == job[c].chosen
           m == job[c].marking
<1>1. JInv' /\ job[c].at = "commit" /\ Emit(Fired(t, m)) /\ Mints(Cardinality(Post[t]))
  BY CommitOkJ
<1>2. /\ t \in Transition /\ m \in Marking /\ HasBinding(t, m) /\ Played \in Marking
      /\ HeadsKept(m, Played) /\ Played = Now /\ Game!Bound(t, Played)
      /\ t \in Finalizer => "Normal" \in failures
  BY <1>1, MayMove
<1>3. UNCHANGED failures /\ (NextRound(c) \/ job' = [job EXCEPT ![c].at = "bridgeOut"])
  BY DEF CommitOk
<1>4. PICK r : Goes(c, r) /\ r.at # "remove"
  <2>1. CASE NextRound(c)
    BY <1>1, <1>3, <2>1, RoundGoes DEF Busy
  <2>2. CASE job' = [job EXCEPT ![c].at = "bridgeOut"]
    <3> DEFINE r == [job[c] EXCEPT !.at = "bridgeOut"]
    <3>1. job' = [job EXCEPT ![c] = r] /\ job[c] \in JobRec
      BY <2>2, JFacts
    <3>2. r \in JobRec /\ r.at = "bridgeOut" /\ r.phase = job[c].phase
      BY <3>1 DEF JobRec, At
    <3> HIDE DEF r
    <3>3. Goes(c, r)
      BY <1>1, <1>3, <3>1, <3>2 DEF Goes, Chosen, Busy
    <3> QED BY <3>2, <3>3
  <2> QED BY <1>3, <2>1, <2>2
<1>5. PlayInv' /\ Played' = Now'
  BY <1>1, <1>4, HolderGoes DEF Working
<1>6. minted \in Nat /\ CIInv
  BY JFacts DEF RestOK
<1> HIDE DEF t, m
<1>7. Now' = AddAll(RemoveAll(Now, Consumed(t, m)), Produced(t))
  <2>1. /\ Fired(t, m) \in DomainEvent
        /\ \A n : ApplyEvent(n, Fired(t, m)) = AddAll(RemoveAll(n, Consumed(t, m)), Produced(t))
    BY <1>1, <1>2, <1>6, FiredType
  <2> QED BY <1>1, <1>6, <2>1, EmitGrows
<1>8. RemoveAll(Now, Consumed(t, m)) = Game!Without(Played, Pre[t])
  BY <1>2, RemoveAllHeads
<1>9. Game!Without(Played, Pre[t]) \in Marking
  <2>1. \A p \in Pre[t] : p \in Place /\ Played[p] # << >>
    BY <1>2, TopologyAssumption DEF Game!Bound
  <2> QED BY <1>2, <2>1, WithoutType
<1>10. \E new \in [Post[t] -> Token] :
          Game!Fresh(new) /\ Played' = Game!With(Game!Without(Played, Pre[t]), new)
  BY <1>1, <1>2, <1>5, <1>6, <1>7, <1>8, <1>9, AddAllNew
<1>11. Game!Fire(t, Played)
  BY <1>3, <1>10 DEF Game!Fire
<1>12. Game!Move(t, Played)
  BY <1>2, <1>11 DEF Game!Move
<1> QED BY <1>1, <1>4, <1>5, <1>12 DEF Moves, t

LEMMA CommitFailG ==
  ASSUME JInv, EInv, PlayInv, FiresLocked, NEW c \in Caller, CommitFail(c)
  PROVE  PlayInv' /\ (Moves(c) \/ UNCHANGED Game!gvars) /\ \E r : Goes(c, r)
<1> DEFINE t == job[c].chosen
           m == job[c].marking
<1>1. JInv' /\ job[c].at = "commit" /\ UNCHANGED minted
  BY CommitFailJ
<1>2. /\ t \in Transition /\ m \in Marking /\ HasBinding(t, m) /\ Played \in Marking
      /\ HeadsKept(m, Played) /\ Played = Now /\ Game!Bound(t, Played)
      /\ t \in Finalizer => "Normal" \in failures
  BY <1>1, MayMove
<1>3. CASE t \in Effect
  <2>1. Emit(FailedOn(t, m)) /\ GiveUp(c)
    BY <1>3 DEF CommitFail, FailedOn
  <2>2. PICK r : Goes(c, r) /\ r.at # "remove"
    BY <1>1, <2>1, RoundGoes DEF Busy
  <2>3. PlayInv' /\ Played' = Now'
    BY <1>1, <2>2, HolderGoes DEF Working
  <2>4. ("Normal" \in failures)'
    BY <1>1, <2>1, GaveUp DEF Busy
  <2> HIDE DEF t, m
  <2>5. Now' = AddAll(RemoveAll(Now, Consumed(t, m)), << >>)
    <3>1. /\ FailedOn(t, m) \in DomainEvent
          /\ \A n : ApplyEvent(n, FailedOn(t, m)) = AddAll(RemoveAll(n, Consumed(t, m)), << >>)
      BY <1>2, FailedType
    <3> QED BY <2>1, <3>1, JFacts, EmitGrows
  <2>6. RemoveAll(Now, Consumed(t, m)) = Game!Without(Played, Pre[t])
    BY <1>2, RemoveAllHeads
  <2>7. Game!Without(Played, Pre[t]) \in Marking
    <3>1. \A p \in Pre[t] : p \in Place /\ Played[p] # << >>
      BY <1>2, TopologyAssumption DEF Game!Bound
    <3> QED BY <1>2, <3>1, WithoutType
  <2>8. Played' = Game!Without(Played, Pre[t])
    BY <2>3, <2>5, <2>6, <2>7, AddNone
  <2>9. Game!Move(t, Played)
    BY <1>1, <1>2, <2>4, <2>8 DEF Game!Move, Game!Fail
  <2> QED BY <1>1, <2>2, <2>3, <2>9 DEF Moves, t
<1>4. CASE t \notin Effect
  <2> DEFINE P == Pre[t]
             r == [job[c] EXCEPT !.at = "remove", !.newly = P]
  <2>1. /\ Emit(Audit) /\ UNCHANGED failures /\ job' = [job EXCEPT ![c] = r]
        /\ job[c] \in JobRec
    BY <1>4, JFacts DEF CommitFail
  <2>2. P \subseteq Place
    BY <1>2, TopologyAssumption
  <2> HIDE DEF P
  <2>3. /\ r \in JobRec /\ r.at = "remove" /\ r.chosen = t /\ r.marking = m /\ r.newly = P
        /\ r.phase = job[c].phase
    BY <2>1, <2>2 DEF JobRec, At
  <2> HIDE DEF r
  <2>4. Now' = Now
    BY <2>1, JFacts, AuditGrows
  <2>5. Idles(c, r)
    BY <1>1, <2>1, <2>3, <2>4 DEF Idles, Goes, Chosen, Same, Busy, P
  <2>6. PlayInv' /\ UNCHANGED Game!gvars
    BY <1>1, <2>5, IdlesG
  <2> QED BY <2>5, <2>6 DEF Idles
<1> QED BY <1>3, <1>4

LEMMA CommitRejectG ==
  ASSUME JInv, EInv, PlayInv, FiresLocked, NEW c \in Caller, CommitReject(c)
  PROVE  PlayInv' /\ Moves(c) /\ \E r : Goes(c, r)
<1> DEFINE t == job[c].chosen
<1>1. JInv' /\ job[c].at = "commit" /\ UNCHANGED minted /\ Emit(Audit)
  BY CommitRejectJ
<1>2. /\ Played = Now /\ Game!Bound(t, Played)
      /\ t \in Finalizer => "Normal" \in failures
  BY <1>1, MayMove
<1>3. GiveUp(c)
  BY DEF CommitReject
<1>4. PICK r : Goes(c, r) /\ r.at # "remove"
  BY <1>1, <1>3, RoundGoes DEF Busy
<1>5. PlayInv' /\ Played' = Now'
  BY <1>1, <1>4, HolderGoes DEF Working
<1>6. ("Normal" \in failures)'
  BY <1>1, <1>3, GaveUp DEF Busy
<1>7. Played' = Played
  BY <1>1, <1>2, <1>5, JFacts, AuditGrows
<1>8. Game!Move(t, Played)
  BY <1>1, <1>2, <1>6, <1>7 DEF Game!Move, Game!Reject
<1> QED BY <1>1, <1>4, <1>5, <1>8 DEF Moves

LEMMA RemoveBoundG ==
  ASSUME JInv, EInv, PlayInv, FiresLocked, NEW c \in Caller, RemoveBound(c)
  PROVE  PlayInv' /\ (Moves(c) \/ UNCHANGED Game!gvars) /\ \E r : Goes(c, r)
<1> DEFINE j == job[c]
           t == j.chosen
           m == j.marking
<1>1. JInv' /\ job[c].at = "remove" /\ UNCHANGED minted
  BY RemoveBoundJ
<1>2. /\ t \in Transition /\ m \in Marking /\ HasBinding(t, m) /\ Played \in Marking
      /\ HeadsKept(m, Played) /\ Played = Restored(Now, j) /\ Removing(j) /\ Game!Bound(t, Played)
      /\ t \in Finalizer => "Normal" \in failures
  BY <1>1, MayMove
<1>3. PICK p \in j.newly :
        /\ Emit(RemovedAt(p, m))
        /\ IF j.newly = {p} THEN GiveUp(c)
           ELSE job' = [job EXCEPT ![c].newly = @ \ {p}] /\ UNCHANGED <<lock, failures>>
  BY DEF RemoveBound, RemovedAt
<1>4. p \in Pre[t] /\ p \in Place
  BY <1>2, <1>3, RemovingFacts
<1>5. Now \in Marking /\ CIInv /\ job \in [Caller -> JobRec] /\ j \in JobRec
  BY JFacts, NowType
<1>6. Now[p] # << >> /\ Head(Now[p]) = Head(m[p])
  <2>1. Played[p] = Now[p]
    BY <1>2, <1>3, <1>4 DEF Restored
  <2>2. m[p] # << >>
    BY <1>2, <1>4 DEF HasBinding
  <2> QED BY <1>2, <1>4, <2>1, <2>2 DEF HeadsKept
<1>7. Now' = Game!Without(Now, {p})
  <2>1. /\ RemovedAt(p, m) \in DomainEvent
        /\ \A n : ApplyEvent(n, RemovedAt(p, m)) = RemoveToken(n, p, Head(m[p]).id)
    BY <1>2, <1>4, RemovedType
  <2>2. Now' = RemoveToken(Now, p, Head(m[p]).id)
    BY <1>3, <1>5, <2>1, EmitGrows
  <2>3. PICK id : id = Head(m[p]).id
    OBVIOUS
  <2>4. RemoveToken(Now, p, id) = Game!Without(Now, {p})
    BY <1>4, <1>5, <1>6, <2>3, RemoveHead
  <2> QED BY <2>2, <2>3, <2>4
<1>8. CASE j.newly = {p}
  <2>1. GiveUp(c)
    BY <1>3, <1>8
  <2>2. PICK r : Goes(c, r) /\ r.at # "remove"
    BY <1>1, <2>1, RoundGoes DEF Busy
  <2>3. PlayInv' /\ Played' = Now'
    BY <1>1, <2>2, HolderGoes DEF Working
  <2>4. ("Normal" \in failures)'
    BY <1>1, <2>1, GaveUp DEF Busy
  <2>5. Played' = Game!Without(Played, Pre[t])
    BY <1>2, <1>5, <1>7, <1>8, <2>3, RestoredLast
  <2>6. Game!Move(t, Played)
    BY <1>1, <1>2, <2>4, <2>5 DEF Game!Move, Game!Fail
  <2> QED BY <1>1, <2>2, <2>3, <2>6 DEF Moves
<1>9. CASE j.newly # {p}
  <2> DEFINE N == j.newly \ {p}
             r == [j EXCEPT !.newly = N]
  <2>1. job' = [job EXCEPT ![c] = r] /\ UNCHANGED failures
    BY <1>3, <1>5, <1>9
  <2>2. N \subseteq Transition \cup Place
    BY <1>5 DEF JobRec
  <2> HIDE DEF N
  <2>3. /\ r \in JobRec /\ r.at = "remove" /\ r.chosen = t /\ r.marking = m /\ r.newly = N
        /\ r.phase = j.phase
    BY <1>1, <1>5, <2>2 DEF JobRec
  <2> HIDE DEF r
  <2>4. Goes(c, r)
    BY <1>1, <2>1, <2>3 DEF Goes, Chosen, Same, Busy
  <2>5. (\A d \in Caller : Turn(job'[d])) /\ Failing'
    BY <2>4, GoesTurns DEF PlayInv
  <2>6. job'[c] = r /\ \A d \in Caller : d # c => job'[d] = job[d] /\ job[d].at \notin Working
    BY <1>1, <1>5, <2>1, JFacts, PastAdvance, Alone DEF Working, Busy
  <2>7. Restored(Now', r) = Played
    <3> HIDE DEF j
    <3>1. PICK n : n = Game!Without(Now, {p})
      OBVIOUS
    <3>2. r.chosen = j.chosen /\ r.marking = j.marking /\ r.newly = j.newly \ {p} /\ r.at = "remove"
      BY <2>3 DEF N
    <3>3. Restored(Game!Without(Now, {p}), r) = Restored(Now, j)
      BY <1>2, <1>3, <1>5, <1>6, <3>2, RestoredDrop
    <3> QED BY <1>2, <1>7, <3>3
  <2>8. Backed(Restored(Now', r), r.marking, minted')
    BY <1>1, <1>2, <2>3, <2>7 DEF PlayInv, Removals
  <2>9. Removals'
    <3> SUFFICES ASSUME NEW d \in Caller, job'[d].at = "remove"
                 PROVE  Backed(Restored(Now', job'[d]), job'[d].marking, minted')
      BY DEF Removals
    <3>1. d = c
      BY <2>6 DEF Working
    <3> QED BY <2>6, <2>8, <3>1
  <2>10. Played' = Restored(Now', r)
    <3>1. /\ Played' = Plays(Now', lock', job') /\ Sole(lock', job')
          /\ Now' \in Marking /\ lock' \in Evaluator \cup {None}
      BY <1>1, PlayedIs
    <3>2. PICK n, l, jobs : n = Now' /\ l = lock' /\ jobs = job'
      OBVIOUS
    <3>3. Plays(n, l, jobs) = Restored(n, jobs[c])
      BY <2>3, <2>6, <3>1, <3>2, PlaysIs
    <3> QED BY <2>6, <3>1, <3>2, <3>3
  <2>11. UNCHANGED Game!gvars
    BY <1>1, <2>1, <2>7, <2>10 DEF Game!gvars
  <2> QED BY <2>4, <2>5, <2>9, <2>11 DEF PlayInv
<1> QED BY <1>8, <1>9

-----------------------------------------------------------------------------
(***************************************************************************)
(* The other steps: tokens that arrive, and steps that move no job.        *)
(***************************************************************************)
LEMMA CreateTokenG ==
  ASSUME JInv, EInv, PlayInv, NEW p \in Injected, CreateToken(p)
  PROVE  PlayInv' /\ Game!Inject(p) /\ UNCHANGED job
<1> DEFINE t == Created(p).token
<1>1. p \in Place /\ CIInv /\ minted \in Nat /\ JInv'
  BY JFacts, CreateTokenJ, TopologyAssumption DEF RestOK
<1>2. Emit(Created(p)) /\ Mints(1) /\ UNCHANGED <<job, lock, failures>>
  BY DEF CreateToken, Created
<1>3. /\ Created(p) \in DomainEvent /\ minted' = minted + 1
      /\ t \in Token /\ t.id = minted + 1
      /\ \A m : ApplyEvent(m, Created(p)) = AddToken(m, p, t)
  BY <1>1, <1>2, CreatedType
<1> HIDE DEF t
<1>4. Now' = AddToken(Now, p, t)
  BY <1>1, <1>2, <1>3, EmitGrows
<1>5. /\ Played = Plays(Now, lock, job) /\ Sole(lock, job)
      /\ Played' = Plays(Now', lock, job)
      /\ Now \in Marking /\ Now' \in Marking /\ lock \in Evaluator \cup {None}
  BY <1>1, <1>2, PlayedIs
<1>6. PICK n : n = AddToken(Now, p, t)
  OBVIOUS
<1>7. n = Now' /\ n \in Marking
  BY <1>4, <1>5, <1>6
<1>8. ASSUME NEW c \in Caller, job[c].at = "remove"
      PROVE  /\ Restored(Now, job[c]) \in Marking
             /\ Restored(n, job[c]) = AddToken(Restored(Now, job[c]), p, t)
             /\ Backed(Restored(n, job[c]), job[c].marking, minted + 1)
  <2> DEFINE R == Restored(Now, job[c])
             S == AddToken(R, p, t)
  <2>1. job[c] \in JobRec /\ Aimed(job[c])
    BY JFacts
  <2>2. Removing(job[c])
    BY <1>8, <2>1 DEF Removing, Aimed, JobRec
  <2>3. R \in Marking
    BY <1>5, <2>2, RestoredType
  <2>4. Restored(n, job[c]) = S
    BY <1>1, <1>3, <1>5, <1>6, <2>2, RestoredAdd
  <2>5. Backed(R, job[c].marking, minted)
    BY <1>8 DEF PlayInv, Removals
  <2> HIDE DEF R
  <2>6. \A q \in Place : R[q] # << >> => Head(R[q]).id < t.id
    BY <1>1, <1>3, <2>5 DEF Backed
  <2>7. HeadsKept(R, S)
    BY <1>1, <1>3, <2>3, <2>6, HeadsAdd
  <2>8. ASSUME NEW q \in Place, S[q] # << >> PROVE Head(S[q]).id \in 1..(minted + 1)
    <3>1. CASE R[q] # << >>
      <4>1. Head(S[q]) = Head(R[q]) /\ Head(R[q]).id \in 1..minted
        BY <2>5, <2>7, <3>1 DEF HeadsKept, Backed
      <4> QED BY <1>1, <4>1
    <3>2. CASE R[q] = << >>
      <4>1. q = p /\ S[q] = Append(<< >>, t)
        BY <1>1, <2>3, <2>8, <3>2 DEF AddToken, Marking
      <4>2. Head(S[q]) = t
        BY <4>1
      <4> QED BY <1>1, <1>3, <4>2
    <3> QED BY <3>1, <3>2
  <2> HIDE DEF S
  <2>9. Backed(S, job[c].marking, minted + 1)
    BY <2>5, <2>7, <2>8, HeadsTransitive DEF Backed
  <2> QED BY <2>3, <2>4, <2>9 DEF R, S
<1>9. Removals'
  BY <1>2, <1>3, <1>7, <1>8 DEF Removals
<1>10. PlayInv'
  BY <1>2, <1>9 DEF PlayInv, Failing
<1>11. Played \in Marking /\ Played' = AddToken(Played, p, t)
  <2>1. CASE \E c \in Caller : job[c].at = "remove"
    <3>1. PICK c \in Caller : job[c].at = "remove"
      BY <2>1
    <3>2. Plays(Now, lock, job) = Restored(Now, job[c]) /\ Plays(n, lock, job) = Restored(n, job[c])
      BY <1>5, <1>7, <3>1, PlaysIs
    <3> QED BY <1>5, <1>7, <1>8, <3>1, <3>2
  <2>2. CASE \A c \in Caller : job[c].at # "remove"
    <3>1. Plays(Now, lock, job) = Now /\ Plays(n, lock, job) = n
      BY <1>5, <1>7, <2>2, PlaysIs
    <3> QED BY <1>5, <1>6, <1>7, <3>1
  <2> QED BY <2>1, <2>2
<1> DEFINE new == [q \in {p} |-> t]
<1>12. new \in [{p} -> Token] /\ DOMAIN new = {p} /\ new[p] = t
  BY <1>3
<1>13. Played' = Game!With(Played, new)
  BY <1>1, <1>3, <1>11, WithOne
<1> HIDE DEF new
<1>14. Game!Fresh(new)
  <2>1. {new[q].id : q \in DOMAIN new} = {minted + 1}
    BY <1>3, <1>12
  <2>2. (1..minted)' = 1..minted \cup {minted + 1}
    BY <1>1, <1>3
  <2> QED BY <1>1, <1>3, <1>12, <2>1, <2>2 DEF Game!Fresh
<1> QED BY <1>2, <1>10, <1>12, <1>13, <1>14 DEF Game!Inject

\* A step that moves no job and adds no event.
LEMMA StaysG ==
  ASSUME JInv, JInv', PlayInv, UNCHANGED <<log, job, lock, minted, failures>>
  PROVE  PlayInv' /\ UNCHANGED Game!gvars
<1>1. Now' = Now
  BY DEF Now
<1>2. Removals'
  BY <1>1 DEF PlayInv, Removals
<1>3. PlayInv'
  BY <1>2 DEF PlayInv, Failing
<1>4. Played = Plays(Now, lock, job) /\ Played' = Plays(Now', lock', job')
  BY PlayedIs
<1>5. Played' = Played
  BY <1>1, <1>4
<1> QED BY <1>3, <1>5 DEF Game!gvars

LEMMA InitG == Init => PlayInv /\ Firsts /\ Game!GInit
<1> SUFFICES ASSUME Init PROVE PlayInv /\ Firsts /\ Game!GInit
  OBVIOUS
<1>1. \A c \in Caller : job[c].at \in {"wait", "idle"}
  BY DEF Init, NoJob
<1>2. PlayInv /\ Firsts
  BY <1>1 DEF PlayInv, Turn, Failing, Removals, Firsts, First, Chosen, Busy
<1>3. FullMarking(store) = EmptyMarking
  <2>1. CIInv /\ store \in StoreType /\ log \in Seq(PersistedEvent) /\ Represents(store, log)
    BY InitJ DEF JInv, CIInv, CTypeOK
  <2>2. FullMarking(store) = Now
    BY <2>1, StoreExtent DEF Now
  <2> QED BY <2>2, NoneYet
<1>4. Played = [p \in Place |-> << >>]
  BY <1>3 DEF Played, Init, EmptyMarking
<1>5. 1..minted = {} /\ "Normal" \notin failures
  BY DEF Init
<1> QED BY <1>2, <1>4, <1>5 DEF Game!GInit

-----------------------------------------------------------------------------
(***************************************************************************)
(* Every step is a step of the game, or none of the game's.                *)
(***************************************************************************)
\* What a step of the evaluation is to the game, and how it moves a job.
Step ==
    /\ PlayInv'
    /\ \/ UNCHANGED Game!gvars
       \/ \E p \in Injected : Game!Inject(p)
       \/ \E c \in Caller : Moves(c)
    /\ UNCHANGED job \/ \E c \in Caller : \E r : Goes(c, r)

LEMMA IdleStep ==
  ASSUME JInv, JInv', EInv, PlayInv, NEW c \in Caller, \E r : Idles(c, r)
  PROVE  Step
<1>1. PICK r : Idles(c, r)
  OBVIOUS
<1>2. PlayInv' /\ UNCHANGED Game!gvars
  BY <1>1, IdlesG
<1>3. Goes(c, r)
  BY <1>1 DEF Idles
<1> QED BY <1>2, <1>3 DEF Step

LEMMA StayStep ==
  ASSUME JInv, JInv', PlayInv, UNCHANGED <<log, job, lock, minted, failures>>
  PROVE  Step
BY StaysG DEF Step

LEMMA NextG == FiresLocked /\ JInv /\ EInv /\ PlayInv /\ [Next]_vars => Step
<1> SUFFICES ASSUME FiresLocked, JInv, EInv, PlayInv, [Next]_vars PROVE Step
  OBVIOUS
<1> USE NextJ
<1>0. JInv'
  OBVIOUS
<1>1. ASSUME NEW p \in Injected, CreateToken(p) PROVE Step
  BY <1>1, CreateTokenG DEF Step
<1>2. ASSUME NEW k \in kicks, Kick(k) PROVE Step
  BY <1>0, <1>2, StayStep DEF Kick, cvars
<1>3. ASSUME NEW m \in {"Running", "Stopped"}, SetRunMode(m) PROVE Step
  BY <1>0, <1>3, StayStep DEF SetRunMode, cvars
<1>4. ASSUME NEW c \in Caller, Request(c) PROVE Step
  BY <1>0, <1>4, RequestG, IdleStep
<1>5. ASSUME NEW c \in Caller, Task(c) PROVE Step
  <2>1. CASE Wake \/ Drive
    BY <1>0, <2>1, WakeG, DriveG, IdleStep, Actors
  <2>2. CASE TryLock(c)
    BY <1>0, <2>2, TryLockG, IdleStep
  <2>3. CASE StartAdvance(c) \/ StepAdvance(c)
    BY <1>0, <2>3, AdvanceJ, StayStep DEF Calling, evars
  <2>4. CASE Reconcile(c)
    BY <1>0, <2>4, ReconcileG, IdleStep
  <2>5. CASE SelectNext(c)
    BY <1>0, <2>5, SelectNextG, IdleStep
  <2>6. CASE MarkEmpty(c)
    BY <1>0, <2>6, MarkEmptyG, IdleStep
  <2>7. CASE Fire(c)
    BY <1>0, <2>7, FireG, IdleStep
  <2>8. CASE CommitOk(c)
    BY <2>8, CommitOkG DEF Step
  <2>9. CASE BridgeOut(c)
    BY <1>0, <2>9, BridgeOutG, IdleStep
  <2>10. CASE CommitFail(c)
    BY <2>10, CommitFailG DEF Step
  <2>11. CASE RemoveBound(c)
    BY <2>11, RemoveBoundG DEF Step
  <2>12. CASE CommitReject(c)
    BY <2>12, CommitRejectG DEF Step
  <2>13. CASE CommitDefer(c)
    BY <1>0, <2>13, CommitDeferG, IdleStep
  <2>14. CASE CommitTransient(c)
    BY <1>0, <2>14, CommitTransientG, IdleStep
  <2> QED BY <1>5, <2>1, <2>2, <2>3, <2>4, <2>5, <2>6, <2>7, <2>8, <2>9, <2>10, <2>11, <2>12,
             <2>13, <2>14 DEF Task, Work
<1>6. CASE UNCHANGED vars
  BY <1>0, <1>6, StayStep DEF vars, cvars, evars
<1> QED BY <1>1, <1>2, <1>3, <1>4, <1>5, <1>6 DEF Next

LEMMA NextFirst ==
  ASSUME AllLocked, JInv, MInv, Firsts, Step
  PROVE  Firsts'
<1>1. CASE UNCHANGED job
  BY <1>1 DEF Firsts
<1>2. CASE \E c \in Caller : \E r : Goes(c, r)
  BY <1>2, GoesFirst
<1> QED BY <1>1, <1>2 DEF Step

-----------------------------------------------------------------------------
(***************************************************************************)
(* The transition that moves is the one that was enabled first.            *)
(***************************************************************************)
LEMMA GreatestElement ==
  ASSUME NEW k \in Nat, NEW S, S \subseteq 0..k, S # {}
  PROVE  \E x \in S : \A y \in S : y <= x
<1> DEFINE D == {n \in Nat : k - n \in S}
<1>1. D \subseteq Nat /\ D # {}
  <2>1. PICK y \in S : TRUE
    OBVIOUS
  <2>2. k - y \in Nat /\ k - (k - y) = y
    BY <2>1
  <2> QED BY <2>1, <2>2
<1>2. PICK n \in D : \A i \in D : n <= i
  BY <1>1, LeastElement
<1>3. ASSUME NEW y \in S PROVE y <= k - n
  <2>1. k - y \in Nat /\ k - (k - y) = y /\ y \in Nat /\ n \in Nat
    BY <1>3
  <2>2. k - y \in D
    BY <2>1
  <2>3. n <= k - y
    BY <1>2, <2>2
  <2> QED BY <2>1, <2>3
<1>4. k - n \in S
  OBVIOUS
<1> QED BY <1>3, <1>4

\* The enabling time is the youngest of the bound tokens.
LEMMA Youngest ==
  ASSUME NEW t \in Transition, NEW m, HasBinding(t, m), NEW k \in Nat,
         \A p \in Place : m[p] # << >> => Head(m[p]).id \in 1..k
  PROVE  /\ EnablingTime(t, m) \in ConsumedIds(t, m)
         /\ \A y \in ConsumedIds(t, m) : y \in Nat /\ y <= EnablingTime(t, m)
<1> DEFINE S == ConsumedIds(t, m)
<1>1. Pre[t] # {} /\ Pre[t] \subseteq Place
  BY TopologyAssumption
<1>2. S # {} /\ S \subseteq 0..k
  BY <1>1 DEF ConsumedIds, HasBinding
<1>3. \E x \in S : \A y \in S : y <= x
  BY <1>2, GreatestElement
<1> QED BY <1>2, <1>3 DEF EnablingTime

\* The game's sizes are the evaluation's.
LEMMA SameSize == \A S : Game!Cardinality(S) = Cardinality(S)
BY DEF Game!Cardinality, Cardinality

\* What was preferred when it was selected still has its turn when it moves.
LEMMA StillOldest ==
  ASSUME NEW t \in Transition, NEW m, NEW R, HasBinding(t, m), HeadsKept(m, R), NEW k \in Nat,
         \A p \in Place : R[p] # << >> => Head(R[p]).id \in 1..k,
         \A u \in Transition :
            (u \in Finalizer <=> t \in Finalizer) /\ HasBinding(u, m) => Preferred(t, u, m)
  PROVE  Game!Oldest(t, R)
<1>1. \A p \in Place : m[p] # << >> => Head(m[p]).id \in 1..k
  BY DEF HeadsKept
<1>2. ASSUME NEW u \in Transition, HasBinding(u, m)
      PROVE  Game!BoundIds(u, R) = ConsumedIds(u, m)
  <2>1. \A p \in Pre[u] : Head(R[p]) = Head(m[p])
    BY <1>2, TopologyAssumption DEF HasBinding, HeadsKept
  <2> QED BY <2>1 DEF Game!BoundIds, ConsumedIds
<1>3. /\ EnablingTime(t, m) \in ConsumedIds(t, m)
      /\ \A y \in ConsumedIds(t, m) : y \in Nat /\ y <= EnablingTime(t, m)
  BY <1>1, Youngest
<1> SUFFICES ASSUME NEW u \in Transition, u \in Finalizer <=> t \in Finalizer, Game!Bound(u, R)
             PROVE  \/ Game!EnabledBefore(t, u, R)
                    \/ /\ ~Game!EnabledBefore(u, t, R)
                       /\ Cardinality(Pre[t]) >= Cardinality(Pre[u])
  BY SameSize DEF Game!Oldest
<1>4. CASE HasBinding(u, m)
  <2>1. /\ EnablingTime(u, m) \in ConsumedIds(u, m)
        /\ \A y \in ConsumedIds(u, m) : y \in Nat /\ y <= EnablingTime(u, m)
    BY <1>1, <1>4, Youngest
  <2>2. Game!BoundIds(u, R) = ConsumedIds(u, m) /\ Game!BoundIds(t, R) = ConsumedIds(t, m)
    BY <1>2, <1>4
  <2>3. CASE EnablingTime(t, m) < EnablingTime(u, m)
    BY <1>3, <2>1, <2>2, <2>3 DEF Game!EnabledBefore
  <2>4. CASE EnablingTime(t, m) = EnablingTime(u, m) /\ Cardinality(Pre[t]) >= Cardinality(Pre[u])
    BY <1>3, <2>1, <2>2, <2>4 DEF Game!EnabledBefore
  <2> QED BY <1>4, <2>3, <2>4 DEF Preferred
<1>5. CASE ~HasBinding(u, m)
  <2>1. PICK p \in Pre[u] : m[p] = << >>
    BY <1>5 DEF HasBinding
  <2>2. p \in Place /\ R[p] # << >>
    BY <2>1, TopologyAssumption DEF Game!Bound
  <2>3. \A q \in Pre[t] : Head(m[q]).id < Head(R[p]).id
    BY <2>1, <2>2, TopologyAssumption DEF HeadsKept, HasBinding
  <2>4. \A y \in Game!BoundIds(t, R) : y < Head(R[p]).id
    BY <1>2, <2>3 DEF ConsumedIds
  <2>5. Head(R[p]).id \in Game!BoundIds(u, R)
    BY <2>1 DEF Game!BoundIds
  <2> QED BY <2>4, <2>5 DEF Game!EnabledBefore
<1> QED BY <1>4, <1>5

LEMMA MovesOldest ==
  ASSUME JInv, JInv', EInv, PlayInv, Firsts, NEW c \in Caller, job[c].at \in {"commit", "remove"}
  PROVE  job[c].chosen \in Transition /\ Game!Oldest(job[c].chosen, Played)
<1> DEFINE t == job[c].chosen
           m == job[c].marking
<1>1. /\ t \in Transition /\ m \in Marking /\ HasBinding(t, m)
      /\ Played \in Marking /\ HeadsKept(m, Played)
      /\ job[c].at = "commit" => Played = Now
      /\ job[c].at = "remove" => Played = Restored(Now, job[c])
  BY MayMove
<1>2. minted \in Nat
  BY JFacts DEF RestOK
<1>3. \A p \in Place : Played[p] # << >> => Head(Played[p]).id \in 1..minted
  <2>1. CASE job[c].at = "commit"
    BY <1>1, <2>1, HeadAmong DEF EInv
  <2>2. CASE job[c].at = "remove"
    BY <1>1, <2>2 DEF PlayInv, Removals, Backed
  <2> QED BY <2>1, <2>2
<1>4. \A u \in Transition :
         (u \in Finalizer <=> t \in Finalizer) /\ HasBinding(u, m) => Preferred(t, u, m)
  <2>1. t # None /\ job[c].at \in Chosen
    BY <1>1, ChoiceAssumption DEF Chosen
  <2> QED BY <2>1 DEF Firsts, First
<1> HIDE DEF t, m
<1>5. PICK R : R = Played
  OBVIOUS
<1>6. Game!Oldest(t, R)
  BY <1>1, <1>2, <1>3, <1>4, <1>5, StillOldest
<1> QED BY <1>1, <1>5, <1>6 DEF t

-----------------------------------------------------------------------------
(***************************************************************************)
(* Evaluating a net plays its token game, for every topology and whatever  *)
(* the loop, HTTP evaluations, unlocked marking reads, injections,         *)
(* deferrals, failures and drains do between the selection of a transition *)
(* and its event: what the event takes is at the head of its places then,  *)
(* new tokens have new ids, and a finalizer moves only after a permanent   *)
(* failure (evaluation.rs, firing.rs, service.rs).                         *)
(***************************************************************************)
THEOREM EvalPlaysGame == FiresLocked => (Spec => Game!GSpec)
<1> SUFFICES ASSUME FiresLocked PROVE Spec => Game!GSpec
  OBVIOUS
<1> DEFINE I == JInv /\ EInv /\ PlayInv
<1>1. Init => I /\ Game!GInit
  BY InitJ, InitE, InitG
<1>2. I /\ [Next]_vars => I' /\ [Game!GNext]_Game!gvars
  <2> SUFFICES ASSUME I, [Next]_vars PROVE I' /\ [Game!GNext]_Game!gvars
    OBVIOUS
  <2>1. JInv' /\ EInv' /\ Step
    BY NextJ, NextE, NextG
  <2>2. ASSUME NEW c \in Caller, Moves(c) PROVE Game!GNext
    <3>1. job[c].chosen \in Transition
      BY <2>1, <2>2, MayMove DEF Moves
    <3> QED BY <2>2, <3>1 DEF Moves, Game!GNext
  <2>3. ASSUME NEW p \in Injected, Game!Inject(p) PROVE Game!GNext
    BY <2>3 DEF Game!GNext
  <2> QED BY <2>1, <2>2, <2>3 DEF Step
<1> QED BY <1>1, <1>2, PTL DEF Spec, Game!GSpec

(***************************************************************************)
(* When marking reads are excluded as well, the transition that moves is   *)
(* the one that was enabled first in the marking it moves on, though it    *)
(* was selected on an older one and with the help of the binding memo      *)
(* (select_next_transition, "earliest enabling time").                     *)
(***************************************************************************)
THEOREM EvalPlaysOldestFirst == AllLocked => (Spec => PlaysTokenGame)
<1> SUFFICES ASSUME AllLocked PROVE Spec => PlaysTokenGame
  OBVIOUS
<1>0. FiresLocked /\ Reader = {}
  BY DEF AllLocked
<1> DEFINE I == JInv /\ MInv /\ EInv /\ PlayInv /\ Firsts
<1>1. Init => I /\ Game!GInit
  BY InitJ, InitM, InitE, InitG
<1>2. I /\ [Next]_vars => I' /\ [Game!OldestNext]_Game!gvars
  <2> SUFFICES ASSUME I, [Next]_vars PROVE I' /\ [Game!OldestNext]_Game!gvars
    OBVIOUS
  <2>1. JInv' /\ MInv' /\ EInv' /\ Step
    BY <1>0, NextJ, NextM, NextE, NextG
  <2>2. PlayInv' /\ Firsts'
    BY <2>1, NextFirst DEF Step
  <2>3. ASSUME NEW c \in Caller, Moves(c) PROVE Game!OldestNext
    <3>1. job[c].chosen \in Transition /\ Game!Oldest(job[c].chosen, Played)
      BY <2>1, <2>3, MovesOldest DEF Moves
    <3> QED BY <2>3, <3>1 DEF Moves, Game!OldestNext
  <2>4. ASSUME NEW p \in Injected, Game!Inject(p) PROVE Game!OldestNext
    BY <2>4 DEF Game!OldestNext
  <2> QED BY <2>1, <2>2, <2>3, <2>4 DEF Step
<1> QED BY <1>1, <1>2, PTL DEF Spec, PlaysTokenGame, Game!OldestFirst

-----------------------------------------------------------------------------
(***************************************************************************)
(* The finalizer drain.  A lease is a token that only a finalizer, or the  *)
(* exit of its scope, takes: finalizers give none back, and none comes     *)
(* from outside.                                                           *)
(***************************************************************************)
LeasePlace == UNION {Pre[t] : t \in Finalizer}

Leases(m) == UNION {IdsAt(m, p) : p \in LeasePlace}

Held(m) == Cardinality(Leases(m))

LoopAlone == HttpEval = {} /\ Firer = {}

FinalizersRelease ==
    /\ LeasePlace \cap Injected = {}
    /\ \A t \in Finalizer : Post[t] \cap LeasePlace = {}

\* MAX_FINALIZER_STEPS is "far above any real net's held-resource count".
LeasesWithinDrain == Held(FullMarking(store)) <= MaxFinalizerSteps

Released(m) == \A t \in Finalizer : ~HasBinding(t, m)

\* No lease place filled up between the markings m and n.
Emptied(m, n) == \A p \in LeasePlace : m[p] = << >> => n[p] = << >>

SameLeases(m, n) == \A p \in LeasePlace : n[p] = m[p]

LEMMA LeasePlaces ==
  /\ LeasePlace \subseteq Place
  /\ \A t \in Finalizer : Pre[t] \subseteq LeasePlace /\ Pre[t] # {} /\ t \in Transition
BY TopologyAssumption, DrainAssumption DEF LeasePlace

LEMMA LeasesFinite ==
  ASSUME NEW m, NEW k \in Nat, Ids(m) \subseteq 1..k
  PROVE  IsFiniteSet(Leases(m)) /\ Held(m) \in Nat
<1>1. Leases(m) \subseteq 1..k
  BY LeasePlaces DEF Leases, Ids
<1>2. IsFiniteSet(1..k)
  BY FS_Interval
<1>3. IsFiniteSet(Leases(m))
  BY <1>1, <1>2, FS_Subset
<1> QED BY <1>3, FS_CardinalityType DEF Held

LEMMA FewerHeld ==
  ASSUME NEW m, NEW n, IsFiniteSet(Leases(m)), NEW x \in Leases(m), Leases(n) \subseteq Leases(m) \ {x}
  PROVE  Held(m) \in Nat /\ Held(n) \in Nat /\ Held(n) + 1 <= Held(m)
<1> DEFINE S == Leases(m) \ {x}
<1>1. IsFiniteSet(S) /\ Cardinality(S) = Cardinality(Leases(m)) - 1
  BY FS_RemoveElement
<1>2. IsFiniteSet(Leases(n)) /\ Cardinality(Leases(n)) <= Cardinality(S)
  BY <1>1, FS_Subset
<1>3. Cardinality(Leases(n)) \in Nat /\ Cardinality(S) \in Nat /\ Cardinality(Leases(m)) \in Nat
  BY <1>1, <1>2, FS_CardinalityType
<1> QED BY <1>1, <1>2, <1>3 DEF Held

LEMMA NoneHeld ==
  ASSUME NEW m \in Marking, IsFiniteSet(Leases(m)), Held(m) = 0
  PROVE  Released(m)
<1>1. Leases(m) = {}
  BY FS_EmptySet DEF Held
<1>2. \A p \in LeasePlace : m[p] = << >>
  BY <1>1, LeasePlaces, HeadAmong DEF Leases
<1> QED BY <1>2, LeasePlaces DEF Released, HasBinding

LEMMA EmptiedReleased ==
  ASSUME NEW m, NEW n, Emptied(m, n), Released(m)
  PROVE  Released(n)
BY LeasePlaces DEF Emptied, Released, HasBinding

LEMMA LeasesKept ==
  ASSUME NEW m, NEW n, SameLeases(m, n)
  PROVE  Held(n) = Held(m) /\ Emptied(m, n) /\ (Released(m) => Released(n))
<1>1. Leases(n) = Leases(m)
  BY DEF SameLeases, Leases, IdsAt
<1>2. Emptied(m, n)
  BY DEF SameLeases, Emptied
<1> QED BY <1>1, <1>2, EmptiedReleased DEF Held

\* A finalizer that fires on the first tokens takes a lease and gives none.
LEMMA FinalizerTakes ==
  ASSUME FinalizersRelease, NEW t \in Finalizer, NEW m \in Marking, NEW n \in Marking,
         HasBinding(t, m), HeadsKept(m, n), Apart(n), IsFiniteSet(Leases(n)),
         NEW produced \in ProducedList, \A i \in DOMAIN produced : produced[i][1] \in Post[t]
  PROVE  Held(AddAll(RemoveAll(n, Consumed(t, m)), produced)) + 1 <= Held(n)
<1> DEFINE R == RemoveAll(n, Consumed(t, m))
           A == AddAll(R, produced)
<1>1. t \in Transition /\ Pre[t] \subseteq LeasePlace /\ Pre[t] # {} /\ LeasePlace \subseteq Place
  BY LeasePlaces
<1>2. /\ Consumed(t, m) \in ConsumedList
      /\ \A p \in Pre[t] : /\ p \in Place /\ m[p] # << >>
                           /\ \E i \in DOMAIN Consumed(t, m) : Consumed(t, m)[i] = <<p, Head(m[p]).id>>
  BY <1>1, ConsumedType
<1>3. /\ R \in Marking
      /\ \A q \in Place : IdsAt(R, q) \subseteq IdsAt(n, q)
      /\ \A i \in DOMAIN Consumed(t, m) : Consumed(t, m)[i][2] \notin IdsAt(R, Consumed(t, m)[i][1])
  BY <1>2, RemoveAllIds, RemoveAllType
<1> HIDE DEF R
<1>4. \A q \in LeasePlace : A[q] = R[q]
  <2> SUFFICES ASSUME NEW q \in LeasePlace PROVE A[q] = R[q]
    OBVIOUS
  <2>1. \A i \in DOMAIN produced : produced[i][1] # q
    BY DEF FinalizersRelease
  <2> QED BY <1>1, <1>3, <2>1, AddAllFrame
<1> HIDE DEF A
<1>5. PICK p \in Pre[t] : TRUE
  BY <1>1
<1> DEFINE x == Head(m[p]).id
<1>6. x \in IdsAt(n, p)
  BY <1>2, <1>5, HeadStays
<1>7. x \notin IdsAt(R, p)
  <2>1. PICK i \in DOMAIN Consumed(t, m) : Consumed(t, m)[i] = <<p, x>>
    BY <1>2, <1>5
  <2>2. Consumed(t, m)[i][1] = p /\ Consumed(t, m)[i][2] = x
    BY <2>1
  <2> QED BY <1>3, <2>2
<1> HIDE DEF x
<1>8. \A q \in Place : q # p => x \notin IdsAt(n, q)
  BY <1>2, <1>5, <1>6 DEF Apart
<1>9. x \in Leases(n)
  BY <1>1, <1>5, <1>6 DEF Leases
<1>10. \A q \in LeasePlace : IdsAt(A, q) \subseteq IdsAt(n, q) \ {x}
  <2> SUFFICES ASSUME NEW q \in LeasePlace PROVE IdsAt(A, q) \subseteq IdsAt(n, q) \ {x}
    OBVIOUS
  <2>1. IdsAt(A, q) = IdsAt(R, q)
    BY <1>4 DEF IdsAt
  <2> QED BY <1>1, <1>3, <1>7, <1>8, <2>1
<1>11. Leases(A) \subseteq Leases(n) \ {x}
  BY <1>10 DEF Leases
<1>12. Held(A) + 1 <= Held(n)
  BY <1>9, <1>11, FewerHeld
<1> QED BY <1>12 DEF A, R

-----------------------------------------------------------------------------
(***************************************************************************)
(* The invariant of the drain: it has a step left for every lease that is  *)
(* still held, finds nothing to fire only when nothing is held, and what   *)
(* the loop ends with as a failure has been released.                      *)
(***************************************************************************)
Drains(j, n) ==
    j.phase = "Finalizing" =>
        /\ j.at \in {"advance", "select", "mark", "fire", "commit"} =>
              Held(n) + j.steps <= MaxFinalizerSteps
        /\ j.at = "bridgeOut" => Held(n) + j.steps + 1 <= MaxFinalizerSteps
        /\ j.at = "mark" /\ j.chosen = None => Released(j.marking)

Failed(j) == j.at = "driver" /\ j.result = "Failed"

Done(f, n) == "Finalizing" \in f \/ Released(n)

Judged ==
    /\ Failed(job[Loop]) \/ verdict = "Failed" => Done(failures, Now)
    /\ verdict # None => job[Loop].at = "stopped"

\* While the loop works on a marking nothing fills up the lease places.
Settled ==
    /\ call[Loop].pc # "idle" => \A n \in call[Loop].len..Len(log) : Emptied(Upto(log, n), Now)
    /\ job[Loop].at \in {"select", "mark"} => Emptied(job[Loop].marking, Now)

DrainInv == Drains(job[Loop], Now) /\ Judged /\ Settled

LEMMA LoopOnly ==
  ASSUME LoopAlone
  PROVE  /\ FiresLocked /\ Evaluator = {Loop} /\ Loop \in Caller
         /\ \A c \in Caller : c # Loop => c \in Reader /\ c \notin Evaluator
BY Actors DEF LoopAlone, FiresLocked, Evaluator

LEMMA NowHeld ==
  ASSUME JInv, EInv
  PROVE  Now \in Marking /\ IsFiniteSet(Leases(Now)) /\ Held(Now) \in Nat
<1>1. Now \in Marking /\ minted \in Nat /\ Ids(Now) \subseteq 1..minted
  BY JFacts, NowType DEF RestOK, EInv
<1> QED BY <1>1, LeasesFinite

LEMMA NextHeld ==
  ASSUME JInv', EInv'
  PROVE  Now' \in Marking /\ IsFiniteSet(Leases(Now')) /\ Held(Now') \in Nat
<1>1. log' \in Seq(PersistedEvent) /\ minted' \in Nat /\ Ids(Now') \subseteq 1..minted'
  BY DEF JInv, TypeOK, CTypeOK, EInv
<1>2. Len(log') \in 0..Len(log')
  BY <1>1
<1>3. Now' \in Marking
  BY <1>1, <1>2, UptoType DEF Now
<1>4. PICK n, k : n = Now' /\ k = minted'
  OBVIOUS
<1>5. IsFiniteSet(Leases(n)) /\ Held(n) \in Nat
  BY <1>1, <1>4, LeasesFinite
<1> QED BY <1>3, <1>4, <1>5

LEMMA DrainFits ==
  ASSUME JInv', LeasesWithinDrain'
  PROVE  Held(Now') <= MaxFinalizerSteps
<1>1. store' \in StoreType /\ log' \in Seq(PersistedEvent) /\ Represents(store', log')
  BY DEF JInv, TypeOK, CIInv, CTypeOK
<1>2. FullMarking(store') = Now'
  BY <1>1, StoreExtent DEF Now
<1> QED BY <1>2 DEF LeasesWithinDrain

\* The loop's job stays and no lease comes or goes.
LEMMA LoopStays ==
  ASSUME CIInv, DrainInv, job'[Loop] = job[Loop], call'[Loop] = call[Loop], LoopAlone,
         LogGrows, SameLeases(Now, Now'), UNCHANGED verdict, failures \subseteq failures'
  PROVE  DrainInv'
<1>1. Held(Now') = Held(Now) /\ Emptied(Now, Now') /\ (Released(Now) => Released(Now'))
  <2>1. PICK m, n : m = Now /\ n = Now'
    OBVIOUS
  <2>2. Held(n) = Held(m) /\ Emptied(m, n) /\ (Released(m) => Released(n))
    BY <2>1, LeasesKept
  <2> QED BY <2>1, <2>2
<1>2. Drains(job'[Loop], Now')
  BY <1>1 DEF DrainInv, Drains
<1>3. Judged'
  BY <1>1 DEF DrainInv, Judged, Done
<1>4. job'[Loop].at \in {"select", "mark"} => Emptied(job'[Loop].marking, Now')
  BY <1>1 DEF DrainInv, Settled, Emptied
<1>5. ASSUME call'[Loop].pc # "idle", NEW n \in call'[Loop].len..Len(log')
      PROVE  Emptied(Upto(log', n), Now')
  <2>1. call[Loop].len \in Nat /\ Len(log) \in Nat
    BY NowType, LoopOnly DEF CIInv, CTypeOK, CallState
  <2>2. CASE n = Len(log')
    BY <2>2 DEF Now, Emptied
  <2>3. CASE n # Len(log')
    <3>1. n \in 0..Len(log) /\ n \in call[Loop].len..Len(log)
      BY <1>5, <2>1, <2>3 DEF LogGrows
    <3>2. Emptied(Upto(log, n), Now) /\ Upto(log', n) = Upto(log, n)
      BY <1>5, <3>1 DEF DrainInv, Settled, LogGrows
    <3> QED BY <1>1, <3>2 DEF Emptied
  <2> QED BY <2>2, <2>3
<1> QED BY <1>2, <1>3, <1>4, <1>5 DEF DrainInv, Settled

\* The loop goes on, or ends a failed evaluation with everything released.
Lands ==
    /\ Drains(job'[Loop], Now')
    /\ Failed(job'[Loop]) => Done(failures', Now')
    /\ job'[Loop].at \in {"select", "mark"} => Emptied(job'[Loop].marking, Now')

LEMMA LoopMoves ==
  ASSUME DrainInv, job[Loop].at # "stopped", call'[Loop].pc = "idle", UNCHANGED verdict, Lands
  PROVE  DrainInv'
<1>1. verdict' = None /\ verdict' # "Failed"
  BY ChoiceAssumption DEF DrainInv, Judged
<1>2. Judged'
  BY <1>1 DEF Judged, Lands
<1>3. Settled'
  BY DEF Settled, Lands
<1> QED BY <1>2, <1>3 DEF DrainInv, Lands

-----------------------------------------------------------------------------
LEMMA FinishLands ==
  ASSUME JInv, LoopAlone, NEW result \in {"Quiescent", "LimitReached", "Terminal", "Failed"},
         Finish(Loop, result), result = "Failed" => Done(failures', Now')
  PROVE  Lands
<1> DEFINE r == [NoJob("driver") EXCEPT !.result = result]
<1>1. job' = [job EXCEPT ![Loop] = r]
  BY DEF Finish
<1>2. job'[Loop] = r
  BY <1>1, JFacts, LoopOnly
<1>3. r.at = "driver" /\ r.result = result
  BY DEF NoJob
<1> HIDE DEF r
<1> QED BY <1>2, <1>3 DEF Lands, Drains, Failed

LEMMA AdvanceLands ==
  ASSUME JInv, LoopAlone, NEW r, job' = [job EXCEPT ![Loop] = r], r.at = "advance",
         r.phase = "Finalizing" => Held(Now') + r.steps <= MaxFinalizerSteps
  PROVE  Lands
<1>1. job'[Loop] = r
  BY JFacts, LoopOnly
<1> QED BY <1>1 DEF Lands, Drains, Failed

LEMMA RoundLands ==
  ASSUME JInv, JInv', EInv', LoopAlone, NextRound(Loop),
         job[Loop].phase = "Finalizing" => Held(Now') + job[Loop].steps + 1 <= MaxFinalizerSteps
  PROVE  Lands
<1> DEFINE k == job[Loop].steps + 1
           phase == job[Loop].phase
<1>1. phase \in {"Normal", "Finalizing"} /\ job[Loop].steps \in Nat /\ k \in Nat /\ Loop \notin Firer
  BY JFacts, LoopOnly DEF JobRec, FiresLocked
<1>2. Now' \in Marking /\ IsFiniteSet(Leases(Now')) /\ Held(Now') \in Nat
  BY NextHeld
<1>3. phase = "Finalizing" => Held(Now') + k <= MaxFinalizerSteps
  BY <1>1, <1>2
<1>4. CASE job' = [job EXCEPT ![Loop] = [NoJob("advance") EXCEPT !.phase = phase, !.steps = k]]
  <2> HIDE DEF phase, k
  <2> DEFINE r == [NoJob("advance") EXCEPT !.phase = phase, !.steps = k]
  <2>1. r.at = "advance" /\ r.phase = phase /\ r.steps = k
    BY DEF NoJob
  <2>2. job' = [job EXCEPT ![Loop] = r]
    BY <1>4
  <2> HIDE DEF r
  <2> QED BY <1>3, <2>1, <2>2, AdvanceLands
<1>5. CASE Finish(Loop, "LimitReached")
  BY <1>5, FinishLands
<1>6. CASE phase # "Normal" /\ Finish(Loop, "Failed") /\ ~(k < MaxFinalizerSteps)
  <2>1. Held(Now') = 0
    BY <1>1, <1>2, <1>3, <1>6, DrainAssumption
  <2>2. PICK n : n = Now'
    OBVIOUS
  <2>3. Released(n)
    BY <1>2, <2>1, <2>2, NoneHeld
  <2>4. Done(failures', Now')
    BY <2>2, <2>3 DEF Done
  <2> QED BY <1>6, <2>4, FinishLands
<1> QED BY <1>1, <1>4, <1>5, <1>6 DEF NextRound

LEMMA GiveUpLands ==
  ASSUME JInv, JInv', EInv', LoopAlone, LeasesWithinDrain', GiveUp(Loop)
  PROVE  Lands
<1>1. job[Loop].phase \in {"Normal", "Finalizing"} /\ Loop \notin Firer
  BY JFacts, LoopOnly DEF JobRec, FiresLocked
<1>2. failures' = failures \cup {job[Loop].phase}
  BY <1>1 DEF GiveUp
<1>3. CASE job[Loop].phase = "Normal"
  <2> DEFINE r == [NoJob("advance") EXCEPT !.phase = "Finalizing"]
  <2>1. job' = [job EXCEPT ![Loop] = r]
    BY <1>1, <1>3 DEF GiveUp, StartDrain
  <2>2. r.at = "advance" /\ r.steps = 0
    BY DEF NoJob
  <2> HIDE DEF r
  <2>3. Held(Now') + 0 <= MaxFinalizerSteps
    BY DrainFits, NextHeld, DrainAssumption
  <2> QED BY <2>1, <2>2, <2>3, AdvanceLands
<1>4. CASE job[Loop].phase = "Finalizing"
  <2>1. Finish(Loop, "Failed") /\ Done(failures', Now')
    BY <1>1, <1>2, <1>4 DEF GiveUp, Done
  <2> QED BY <2>1, FinishLands
<1> QED BY <1>1, <1>3, <1>4

LEMMA AbandonLands ==
  ASSUME JInv, LoopAlone, Abandon(Loop)
  PROVE  Lands
<1>1. job[Loop].phase \in {"Normal", "Finalizing"} /\ Loop \notin Firer
  BY JFacts, LoopOnly DEF JobRec, FiresLocked
<1>2. CASE job[Loop].phase = "Normal"
  <2>1. Finish(Loop, "Quiescent")
    BY <1>1, <1>2 DEF Abandon
  <2> QED BY <2>1, FinishLands
<1>3. CASE job[Loop].phase = "Finalizing"
  <2>1. Finish(Loop, "Failed") /\ "Finalizing" \in failures'
    BY <1>1, <1>3 DEF Abandon
  <2>2. Done(failures', Now')
    BY <2>1 DEF Done
  <2> QED BY <2>1, <2>2, FinishLands
<1> QED BY <1>1, <1>2, <1>3

\* Past advance_marking the loop calls nothing.
LEMMA LoopIdle ==
  ASSUME JInv, LoopAlone, job[Loop].at # "advance"
  PROVE  call[Loop].pc = "idle"
BY JFacts, LoopOnly DEF Locked

LEMMA CommitOkD ==
  ASSUME JInv, EInv, JInv', EInv', PlayInv, DrainInv, LoopAlone, FinalizersRelease, CommitOk(Loop)
  PROVE  DrainInv'
<1> DEFINE j == job[Loop]
           t == j.chosen
           m == j.marking
<1>1. FiresLocked /\ Loop \in Caller /\ j \in JobRec /\ CIInv /\ minted \in Nat
  BY LoopOnly, JFacts DEF RestOK
<1>2. /\ j.at = "commit" /\ t \in Transition /\ HasBinding(t, m)
      /\ Emit(Fired(t, m)) /\ Mints(Cardinality(Post[t]))
  BY <1>1, CommitOkJ
<1>3. m \in Marking /\ j.steps \in Nat /\ j.phase \in {"Normal", "Finalizing"}
  BY <1>1 DEF JobRec
<1>4. /\ Fired(t, m) \in DomainEvent
      /\ \A n : ApplyEvent(n, Fired(t, m)) = AddAll(RemoveAll(n, Consumed(t, m)), Produced(t))
  <2> HIDE DEF t, m, j
  <2> QED BY <1>1, <1>2, <1>3, FiredType
<1>5. Now' = AddAll(RemoveAll(Now, Consumed(t, m)), Produced(t)) /\ UNCHANGED call
  BY <1>1, <1>2, <1>4, EmitGrows
<1>6. j.phase = "Finalizing" => Held(Now') + j.steps + 1 <= MaxFinalizerSteps
  <2> SUFFICES ASSUME j.phase = "Finalizing" PROVE Held(Now') + j.steps + 1 <= MaxFinalizerSteps
    OBVIOUS
  <2>1. t \in Finalizer
    BY <1>1, <1>2, ChoiceAssumption DEF PlayInv, Turn, Chosen
  <2>2. HeadsKept(m, Now) /\ Apart(Now)
    BY <1>1, <1>2 DEF EInv, Steady
  <2>3. Now \in Marking /\ IsFiniteSet(Leases(Now)) /\ Held(Now) \in Nat /\ Held(Now') \in Nat
    BY NowHeld, NextHeld
  <2>4. Held(Now) + j.steps <= MaxFinalizerSteps
    BY <1>2 DEF DrainInv, Drains
  <2>5. /\ Produced(t) \in ProducedList
        /\ \A i \in DOMAIN Produced(t) : Produced(t)[i][1] \in Post[t]
    <3> HIDE DEF t
    <3>1. Produced(t) \in ProducedList
      BY <1>1, <1>2, ProducedType
    <3>2. \A i \in DOMAIN Produced(t) : Produced(t)[i][1] \in Post[t]
      <4>1. SeqOf(Post[t]) \in [1..Cardinality(Post[t]) -> Post[t]]
        BY <1>2, TopologyAssumption, SeqOfLists
      <4> QED BY <4>1 DEF Produced
    <3> QED BY <3>1, <3>2
  <2> HIDE DEF t, m
  <2>6. Held(AddAll(RemoveAll(Now, Consumed(t, m)), Produced(t))) + 1 <= Held(Now)
    BY <1>2, <1>3, <2>1, <2>2, <2>3, <2>5, FinalizerTakes
  <2>7. Held(Now') + 1 <= Held(Now)
    BY <1>5, <2>6
  <2> HIDE DEF j
  <2> QED BY <1>3, <2>3, <2>4, <2>7, DrainAssumption
<1>7. Lands
  <2>1. CASE NextRound(Loop)
    BY <1>6, <2>1, RoundLands
  <2>2. CASE job' = [job EXCEPT ![Loop].at = "bridgeOut"]
    <3> DEFINE r == [j EXCEPT !.at = "bridgeOut"]
    <3>1. job'[Loop] = r
      BY <1>1, <2>2, JFacts
    <3>2. r.at = "bridgeOut" /\ r.phase = j.phase /\ r.steps = j.steps
      BY <1>1 DEF JobRec
    <3> HIDE DEF r
    <3> QED BY <1>6, <3>1, <3>2 DEF Lands, Drains, Failed
  <2> QED BY <2>1, <2>2 DEF CommitOk
<1>8. UNCHANGED verdict /\ call'[Loop].pc = "idle"
  BY <1>2, <1>5, LoopIdle DEF CommitOk
<1> QED BY <1>2, <1>7, <1>8, LoopMoves

LEMMA BridgeOutD ==
  ASSUME JInv, JInv', EInv', DrainInv, LoopAlone, BridgeOut(Loop)
  PROVE  DrainInv'
<1>1. job[Loop].at = "bridgeOut" /\ Emit(Audit) /\ NextRound(Loop) /\ UNCHANGED verdict
  BY DEF BridgeOut
<1>2. Now' = Now /\ UNCHANGED call
  BY <1>1, JFacts, AuditGrows
<1>3. job[Loop].phase = "Finalizing" => Held(Now') + job[Loop].steps + 1 <= MaxFinalizerSteps
  BY <1>1, <1>2 DEF DrainInv, Drains
<1>4. Lands
  BY <1>1, <1>3, RoundLands
<1>5. call'[Loop].pc = "idle"
  BY <1>1, <1>2, LoopIdle
<1> QED BY <1>1, <1>4, <1>5, LoopMoves

\* A permanent failure: the drain starts with every lease to release, or ends.
LEMMA GiveUpD ==
  ASSUME JInv, JInv', EInv', DrainInv, LoopAlone, LeasesWithinDrain', GiveUp(Loop),
         job[Loop].at \in {"commit", "remove"}, UNCHANGED <<call, verdict>>
  PROVE  DrainInv'
<1>1. Lands
  BY GiveUpLands
<1>2. call'[Loop].pc = "idle"
  BY LoopIdle
<1> QED BY <1>1, <1>2, LoopMoves

LEMMA AbandonD ==
  ASSUME JInv, DrainInv, LoopAlone, Abandon(Loop), job[Loop].at = "commit",
         UNCHANGED <<call, verdict>>
  PROVE  DrainInv'
<1>1. Lands
  BY AbandonLands
<1>2. call'[Loop].pc = "idle"
  BY LoopIdle
<1> QED BY <1>1, <1>2, LoopMoves

\* The loop is at another point of the same round.
LEMMA GoesOnD ==
  ASSUME JInv, DrainInv, LoopAlone, job[Loop].at \in {"mark", "fire", "commit", "remove"},
         NEW r, job' = [job EXCEPT ![Loop] = r], r.at \in {"fire", "commit", "remove"},
         r.phase = job[Loop].phase /\ r.steps = job[Loop].steps,
         Now' = Now \/ r.at = "remove", UNCHANGED <<call, verdict>>,
         job[Loop].at = "remove" => r.at = "remove"
  PROVE  DrainInv'
<1>1. job'[Loop] = r
  BY JFacts, LoopOnly
<1>2. Drains(r, Now')
  BY DEF DrainInv, Drains
<1>3. Lands
  BY <1>1, <1>2 DEF Lands, Failed
<1>4. call'[Loop].pc = "idle"
  BY LoopIdle
<1> QED BY <1>3, <1>4, LoopMoves

LEMMA CommitFailD ==
  ASSUME JInv, JInv', EInv', DrainInv, LoopAlone, LeasesWithinDrain', CommitFail(Loop)
  PROVE  DrainInv'
<1> DEFINE j == job[Loop]
           t == j.chosen
           m == j.marking
           P == Pre[t]
<1>1. /\ FiresLocked /\ Loop \in Caller /\ j \in JobRec /\ CIInv /\ job \in [Caller -> JobRec]
      /\ j.at = "commit" /\ t \in Transition /\ HasBinding(t, m) /\ UNCHANGED verdict
  BY LoopOnly, JFacts, CommitFailJ DEF CommitFail
<1>2. CASE t \in Effect
  <2>1. Emit(FailedOn(t, m)) /\ GiveUp(Loop)
    BY <1>2 DEF CommitFail, FailedOn
  <2>2. m \in Marking
    BY <1>1 DEF JobRec
  <2>3. UNCHANGED call
    <3> HIDE DEF j, t, m
    <3>1. FailedOn(t, m) \in DomainEvent
      BY <1>1, <2>2, FailedType
    <3> QED BY <1>1, <2>1, <3>1, EmitGrows
  <2> QED BY <1>1, <2>1, <2>3, GiveUpD
<1>3. CASE t \notin Effect
  <2> DEFINE r == [j EXCEPT !.at = "remove", !.newly = P]
  <2>1. Emit(Audit) /\ job' = [job EXCEPT ![Loop] = r]
    BY <1>1, <1>3 DEF CommitFail
  <2>2. UNCHANGED call
    BY <1>1, <2>1, AuditGrows
  <2> HIDE DEF P
  <2>3. r.at = "remove" /\ r.phase = j.phase /\ r.steps = j.steps
    BY <1>1 DEF JobRec
  <2> HIDE DEF r
  <2> QED BY <1>1, <2>1, <2>2, <2>3, GoesOnD
<1> QED BY <1>2, <1>3

LEMMA RemoveBoundD ==
  ASSUME JInv, JInv', EInv', DrainInv, LoopAlone, LeasesWithinDrain', RemoveBound(Loop)
  PROVE  DrainInv'
<1> DEFINE j == job[Loop]
           m == j.marking
<1>1. /\ FiresLocked /\ Loop \in Caller /\ j \in JobRec /\ CIInv /\ job \in [Caller -> JobRec]
      /\ j.at = "remove" /\ j.chosen \in Transition /\ HasBinding(j.chosen, m)
      /\ j.newly \subseteq Pre[j.chosen] /\ UNCHANGED verdict
  BY LoopOnly, JFacts, RemoveBoundJ DEF RemoveBound, Aimed
<1>2. PICK p \in j.newly :
        /\ Emit(RemovedAt(p, m))
        /\ IF j.newly = {p} THEN GiveUp(Loop)
           ELSE job' = [job EXCEPT ![Loop].newly = @ \ {p}]
  BY DEF RemoveBound, RemovedAt
<1>3. UNCHANGED call
  <2> DEFINE t == j.chosen
  <2>1. t \in Transition /\ HasBinding(t, m) /\ p \in Pre[t] /\ m \in Marking
    BY <1>1, <1>2 DEF JobRec
  <2> HIDE DEF m, t, j
  <2>2. RemovedAt(p, m) \in DomainEvent
    BY <2>1, RemovedType
  <2> QED BY <1>1, <1>2, <2>2, EmitGrows
<1>4. CASE j.newly = {p}
  BY <1>1, <1>2, <1>3, <1>4, GiveUpD
<1>5. CASE j.newly # {p}
  <2> DEFINE N == j.newly \ {p}
             r == [j EXCEPT !.newly = N]
  <2>1. job' = [job EXCEPT ![Loop] = r]
    BY <1>1, <1>2, <1>5
  <2> HIDE DEF N
  <2>2. r.at = "remove" /\ r.phase = j.phase /\ r.steps = j.steps
    BY <1>1 DEF JobRec
  <2> HIDE DEF r
  <2> QED BY <1>1, <1>3, <2>1, <2>2, GoesOnD
<1> QED BY <1>4, <1>5

LEMMA CommitRejectD ==
  ASSUME JInv, JInv', EInv', DrainInv, LoopAlone, LeasesWithinDrain', CommitReject(Loop)
  PROVE  DrainInv'
<1>1. job[Loop].at = "commit" /\ Emit(Audit) /\ GiveUp(Loop) /\ UNCHANGED verdict
  BY DEF CommitReject
<1>2. UNCHANGED call
  BY <1>1, JFacts, AuditGrows
<1> QED BY <1>1, <1>2, GiveUpD

LEMMA CommitDeferD ==
  ASSUME JInv, DrainInv, LoopAlone, CommitDefer(Loop)
  PROVE  DrainInv'
<1>1. /\ job[Loop].at = "commit" /\ Emit(Audit) /\ UNCHANGED verdict
      /\ job' = [job EXCEPT ![Loop].outcome = "reject"] \/ Abandon(Loop)
  BY DEF CommitDefer
<1>2. Now' = Now /\ UNCHANGED call
  BY <1>1, JFacts, AuditGrows
<1>3. CASE job' = [job EXCEPT ![Loop].outcome = "reject"]
  <2> DEFINE r == [job[Loop] EXCEPT !.outcome = "reject"]
  <2>1. job' = [job EXCEPT ![Loop] = r] /\ job[Loop] \in JobRec
    BY <1>3, JFacts, LoopOnly
  <2>2. r.at = "commit" /\ r.phase = job[Loop].phase /\ r.steps = job[Loop].steps
    BY <1>1, <2>1 DEF JobRec
  <2> HIDE DEF r
  <2> QED BY <1>1, <1>2, <2>1, <2>2, GoesOnD
<1>4. CASE Abandon(Loop)
  BY <1>1, <1>2, <1>4, AbandonD
<1> QED BY <1>1, <1>3, <1>4

LEMMA CommitTransientD ==
  ASSUME JInv, DrainInv, LoopAlone, CommitTransient(Loop)
  PROVE  DrainInv'
BY AbandonD DEF CommitTransient, cvars

LEMMA FireD ==
  ASSUME JInv, DrainInv, LoopAlone, Fire(Loop)
  PROVE  DrainInv'
<1>1. /\ job[Loop].at = "fire" /\ (UNCHANGED cvars \/ Emit(Audit))
      /\ \E o \in Outcomes :
            job' = [job EXCEPT ![Loop] = [job[Loop] EXCEPT !.at = "commit", !.outcome = o]]
  BY FireJ, LoopOnly
<1>2. PICK o \in Outcomes :
            job' = [job EXCEPT ![Loop] = [job[Loop] EXCEPT !.at = "commit", !.outcome = o]]
  BY <1>1
<1>3. Now' = Now /\ UNCHANGED <<call, verdict>>
  BY <1>1, JFacts, AuditGrows DEF Fire
<1> DEFINE r == [job[Loop] EXCEPT !.at = "commit", !.outcome = o]
<1>4. job[Loop] \in JobRec
  BY JFacts, LoopOnly
<1>5. r.at = "commit" /\ r.phase = job[Loop].phase /\ r.steps = job[Loop].steps
  BY <1>4 DEF JobRec
<1>6. job' = [job EXCEPT ![Loop] = r]
  BY <1>2
<1> HIDE DEF r
<1> QED BY <1>1, <1>3, <1>5, <1>6, GoesOnD

LEMMA MarkEmptyD ==
  ASSUME JInv, DrainInv, LoopAlone, MarkEmpty(Loop)
  PROVE  DrainInv'
<1>1. job[Loop].at = "mark" /\ UNCHANGED <<cvars, verdict>>
  BY DEF MarkEmpty
<1>2. Now' = Now /\ UNCHANGED call
  BY <1>1, JFacts, AuditGrows
<1>3. CASE job[Loop].chosen # None
  <2> DEFINE r == [job[Loop] EXCEPT !.at = "fire"]
  <2>1. job' = [job EXCEPT ![Loop] = r] /\ job[Loop] \in JobRec
    BY <1>3, JFacts, LoopOnly DEF MarkEmpty
  <2>2. r.at = "fire" /\ r.phase = job[Loop].phase /\ r.steps = job[Loop].steps
    BY <2>1 DEF JobRec
  <2> HIDE DEF r
  <2> QED BY <1>1, <1>2, <2>1, <2>2, GoesOnD
<1>4. CASE job[Loop].chosen = None
  <2>1. job[Loop].phase \in {"Normal", "Finalizing"}
    BY JFacts, LoopOnly DEF JobRec
  <2>2. CASE job[Loop].phase = "Finalizing"
    <3>1. Finish(Loop, "Failed")
      BY <1>4, <2>2 DEF MarkEmpty
    <3>2. Released(job[Loop].marking) /\ Emptied(job[Loop].marking, Now)
      BY <1>1, <1>4, <2>2 DEF DrainInv, Drains, Settled
    <3>3. Released(Now)
      BY <3>2, EmptiedReleased
    <3>4. Done(failures', Now')
      BY <1>2, <3>3 DEF Done
    <3>5. Lands
      BY <3>1, <3>4, FinishLands
    <3> QED BY <1>1, <1>2, <3>5, LoopIdle, LoopMoves
  <2>3. CASE job[Loop].phase = "Normal"
    <3>1. \E result \in {"Terminal", "Quiescent"} : Finish(Loop, result)
      BY <1>4, <2>3 DEF MarkEmpty
    <3>2. Lands
      BY <3>1, FinishLands
    <3> QED BY <1>1, <1>2, <3>2, LoopIdle, LoopMoves
  <2> QED BY <2>1, <2>2, <2>3
<1> QED BY <1>3, <1>4

LEMMA SelectNextD ==
  ASSUME JInv, DrainInv, LoopAlone, SelectNext(Loop)
  PROVE  DrainInv'
<1> DEFINE j == job[Loop]
           N == NewlyIn(j)
<1>1. /\ FiresLocked /\ Loop \in Caller /\ j \in JobRec /\ CIInv /\ job \in [Caller -> JobRec]
      /\ j.at = "select" /\ UNCHANGED cvars
      /\ \E t : job' = [job EXCEPT ![Loop] = [j EXCEPT !.at = "mark", !.chosen = t, !.newly = N]]
  BY LoopOnly, JFacts, SelectNextJ
<1>2. PICK t : job' = [job EXCEPT ![Loop] = [j EXCEPT !.at = "mark", !.chosen = t, !.newly = N]]
  BY <1>1
<1> HIDE DEF N
<1> DEFINE r == [j EXCEPT !.at = "mark", !.chosen = t, !.newly = N]
<1>3. job'[Loop] = r
  BY <1>1, <1>2
<1>4. /\ r.at = "mark" /\ r.chosen = t /\ r.phase = j.phase /\ r.steps = j.steps
      /\ r.marking = j.marking
  BY <1>1 DEF JobRec
<1> HIDE DEF r
<1>5. Now' = Now /\ UNCHANGED call /\ UNCHANGED verdict
  BY <1>1, AuditGrows DEF SelectNext
<1>6. ASSUME j.phase = "Finalizing", t = None PROVE Released(j.marking)
  <2>1. t \in Best(BoundIn(j), j.marking)
    BY <1>1, <1>3, <1>4, Selection
  <2>2. BoundIn(j) = {}
    BY <1>6, <2>1, ChoiceAssumption DEF Best, BoundIn, Eligible
  <2>3. \A u \in Finalizer : u \in Transition /\ u \in Eligible(j)
    BY <1>6, DrainAssumption DEF Eligible
  <2> QED BY <2>2, <2>3 DEF BoundIn, Released
<1>7. Drains(r, Now')
  BY <1>1, <1>4, <1>5, <1>6 DEF DrainInv, Drains
<1>8. Lands
  BY <1>1, <1>3, <1>4, <1>5, <1>7 DEF Lands, Failed, DrainInv, Settled
<1> QED BY <1>1, <1>5, <1>8, LoopIdle, LoopMoves

LEMMA WakeD ==
  ASSUME JInv, DrainInv, LoopAlone, Wake
  PROVE  DrainInv'
<1> DEFINE a == IF mode = "Running" THEN "lock" ELSE "wait"
           r == [job[Loop] EXCEPT !.at = a]
<1>1. Loop \in Caller /\ job \in [Caller -> JobRec]
  BY JFacts, LoopOnly
<1>2. job' = [job EXCEPT ![Loop] = r] /\ job[Loop].at = "wait" /\ UNCHANGED <<cvars, verdict>>
  BY <1>1 DEF Wake
<1>3. r.at \in {"lock", "wait"}
  BY <1>1 DEF JobRec
<1>4. job'[Loop] = r
  BY <1>1, <1>2
<1> HIDE DEF r
<1>5. Lands
  BY <1>3, <1>4 DEF Lands, Drains, Failed
<1>6. call'[Loop].pc = "idle"
  BY <1>2, LoopIdle DEF cvars
<1> QED BY <1>2, <1>5, <1>6, LoopMoves

LEMMA TryLockD ==
  ASSUME JInv, DrainInv, LoopAlone, TryLock(Loop)
  PROVE  DrainInv'
<1>1. PICK a \in {"advance", "driver"} : job' = [job EXCEPT ![Loop] = NoJob(a)]
  BY DEF TryLock
<1>2. job[Loop].at = "lock" /\ UNCHANGED <<cvars, verdict>>
  BY DEF TryLock
<1>3. job'[Loop] = NoJob(a)
  BY <1>1, JFacts, LoopOnly
<1>4. NoJob(a).at = a /\ NoJob(a).phase = "Normal" /\ NoJob(a).result = "Quiescent"
  BY DEF NoJob
<1>5. Lands
  BY <1>3, <1>4 DEF Lands, Drains, Failed
<1>6. call'[Loop].pc = "idle"
  BY <1>2, LoopIdle DEF cvars
<1> QED BY <1>2, <1>5, <1>6, LoopMoves

LEMMA DriveD ==
  ASSUME JInv, DrainInv, LoopAlone, Drive
  PROVE  DrainInv'
<1>1. PICK a \in {"wait", "stopped"} :
         /\ job' = [job EXCEPT ![Loop] = NoJob(a)]
         /\ \/ UNCHANGED verdict
            \/ a = "stopped" /\ verdict' = job[Loop].result
  BY DEF Drive
<1>2. job[Loop].at = "driver" /\ (UNCHANGED cvars \/ Emit(Audit)) /\ UNCHANGED failures
  BY DEF Drive
<1>3. Now' = Now /\ UNCHANGED call /\ call'[Loop].pc = "idle"
  BY <1>2, JFacts, AuditGrows, LoopIdle
<1>4. job'[Loop] = NoJob(a) /\ NoJob(a).at = a
  BY <1>1, JFacts, LoopOnly DEF NoJob
<1>5. verdict = None /\ verdict # "Failed"
  BY <1>2, ChoiceAssumption DEF DrainInv, Judged
<1>6. Judged'
  BY <1>1, <1>2, <1>3, <1>4, <1>5 DEF DrainInv, Judged, Failed
<1>7. Drains(job'[Loop], Now') /\ Settled'
  BY <1>3, <1>4 DEF Drains, Settled
<1> QED BY <1>6, <1>7 DEF DrainInv

LEMMA CreateTokenD ==
  ASSUME JInv, DrainInv, LoopAlone, FinalizersRelease, NEW p \in Injected, CreateToken(p)
  PROVE  DrainInv'
<1> DEFINE t == Created(p).token
<1>1. p \in Place /\ CIInv /\ minted \in Nat
  BY JFacts, TopologyAssumption DEF RestOK
<1>2. Emit(Created(p)) /\ Mints(1) /\ UNCHANGED <<job, verdict, failures>>
  BY DEF CreateToken, Created
<1>3. /\ Created(p) \in DomainEvent /\ t \in Token
      /\ \A m : ApplyEvent(m, Created(p)) = AddToken(m, p, t)
  BY <1>1, <1>2, CreatedType
<1> HIDE DEF t
<1>4. LogGrows /\ Now' = AddToken(Now, p, t) /\ UNCHANGED call
  BY <1>1, <1>2, <1>3, EmitGrows
<1>5. Now \in Marking /\ p \notin LeasePlace /\ LeasePlace \subseteq Place
  BY <1>1, NowType, LeasePlaces DEF FinalizersRelease
<1>6. SameLeases(Now, Now')
  BY <1>1, <1>4, <1>5 DEF SameLeases, AddToken, Marking
<1> QED BY <1>1, <1>2, <1>4, <1>6, LoopStays

LEMMA RequestD ==
  ASSUME JInv, DrainInv, LoopAlone, NEW c \in Caller, Request(c)
  PROVE  DrainInv'
<1>1. c # Loop /\ UNCHANGED <<cvars, verdict, failures>> /\ \E r : job' = [job EXCEPT ![c] = r]
  BY DEF Request
<1>2. job'[Loop] = job[Loop] /\ CIInv
  BY <1>1, JFacts, LoopOnly
<1>3. LogGrows /\ Now' = Now /\ UNCHANGED call
  BY <1>1, <1>2, AuditGrows
<1>4. SameLeases(Now, Now')
  BY <1>3 DEF SameLeases
<1> QED BY <1>1, <1>2, <1>3, <1>4, LoopStays

LEMMA AdvanceD ==
  ASSUME JInv, DrainInv, LoopAlone, NEW c \in Caller, StartAdvance(c) \/ StepAdvance(c)
  PROVE  DrainInv'
<1>1. Calling(c) /\ UNCHANGED <<log, job, verdict, failures>>
  BY AdvanceJ DEF Calling, evars
<1>2. Now' = Now
  BY <1>1 DEF Now
<1>3. call \in [Caller -> CallState] /\ Len(log) \in Nat /\ CIInv
  BY JFacts, NowType DEF CIInv, CTypeOK
<1>4. CASE c # Loop
  <2>1. call'[Loop] = call[Loop]
    BY <1>1, <1>4, LoopOnly DEF Calling
  <2>2. LogGrows /\ SameLeases(Now, Now')
    BY <1>1, <1>2 DEF LogGrows, SameLeases
  <2> QED BY <1>1, <1>3, <2>1, <2>2, LoopStays
<1>5. CASE c = Loop
  <2>1. call'[c].len = Len(log) \/ (call'[c].len = call[c].len /\ call[c].pc # "idle")
    BY CallExtent
  <2>2. ASSUME NEW n \in call'[Loop].len..Len(log) PROVE Emptied(Upto(log, n), Now)
    <3>1. CASE call'[Loop].len = Len(log)
      <4>1. n = Len(log)
        BY <1>3, <2>2, <3>1
      <4> QED BY <4>1 DEF Now, Emptied
    <3>2. CASE call'[Loop].len = call[Loop].len /\ call[Loop].pc # "idle"
      BY <2>2, <3>2 DEF DrainInv, Settled
    <3> QED BY <1>5, <2>1, <3>1, <3>2
  <2>3. Settled'
    BY <1>1, <1>2, <2>2 DEF DrainInv, Settled
  <2>4. Judged'
    BY <1>1, <1>2 DEF DrainInv, Judged
  <2> QED BY <1>1, <1>2, <2>3, <2>4 DEF DrainInv
<1> QED BY <1>4, <1>5

LEMMA ReconcileD ==
  ASSUME JInv, DrainInv, LoopAlone, NEW c \in Caller, Reconcile(c)
  PROVE  DrainInv'
<1> DEFINE k == call[c]
           m == k.snap.marking
<1>1. /\ k.pc = "done" /\ job[c].at = "advance" /\ FiresLocked
      /\ c = Loop => job' = [job EXCEPT ![c] = [job[c] EXCEPT !.at = "select", !.marking = m]]
      /\ c # Loop => job' = [job EXCEPT ![c] = NoJob("idle")]
      /\ call' = [call EXCEPT ![c] = NoCall]
      /\ UNCHANGED log
  BY ReconcileJ, LoopOnly
<1>2. /\ job \in [Caller -> JobRec] /\ job[c] \in JobRec /\ call \in [Caller -> CallState]
      /\ CIInv /\ CallSound(k, log) /\ k.len \in Nat /\ Len(log) \in Nat /\ Loop \in Caller
  BY JFacts, NowType, LoopOnly DEF CIInv, CTypeOK, CallState
<1>3. Now' = Now /\ UNCHANGED <<verdict, failures>>
  BY <1>1 DEF Now, Reconcile
<1>4. CASE c # Loop
  <2>1. job'[Loop] = job[Loop] /\ call'[Loop] = call[Loop]
    BY <1>1, <1>2, <1>4
  <2>2. LogGrows /\ SameLeases(Now, Now')
    BY <1>1, <1>3 DEF LogGrows, SameLeases
  <2> QED BY <1>2, <1>3, <2>1, <2>2, LoopStays
<1>5. CASE c = Loop
  <2>1. k.snap.idx \in k.len..Len(log) /\ m = Upto(log, k.snap.idx)
    BY <1>1, <1>2 DEF CallSound, Coherent, CacheEntry
  <2>2. Emptied(m, Now)
    BY <1>1, <1>5, <2>1 DEF DrainInv, Settled
  <2> HIDE DEF m
  <2> DEFINE r == [job[c] EXCEPT !.at = "select", !.marking = m]
  <2>3. job'[Loop] = r /\ call'[Loop].pc = "idle"
    BY <1>1, <1>2, <1>5 DEF NoCall
  <2>4. r.at = "select" /\ r.marking = m /\ r.phase = job[c].phase /\ r.steps = job[c].steps
    BY <1>2 DEF JobRec
  <2> HIDE DEF r
  <2>5. Drains(r, Now')
    BY <1>1, <1>3, <1>5, <2>4 DEF DrainInv, Drains
  <2>6. Lands
    BY <1>3, <2>2, <2>3, <2>4, <2>5 DEF Lands, Failed
  <2> QED BY <1>1, <1>3, <1>5, <2>3, <2>6, LoopMoves
<1> QED BY <1>4, <1>5

LEMMA InitD == LoopAlone /\ Init => DrainInv
<1> SUFFICES ASSUME LoopAlone, Init PROVE DrainInv
  OBVIOUS
<1>1. job[Loop].at = "wait" /\ call[Loop].pc = "idle" /\ verdict = None /\ verdict # "Failed"
  BY LoopOnly, ChoiceAssumption DEF Init, CInit, NoCall, NoJob
<1> QED BY <1>1 DEF DrainInv, Drains, Judged, Failed, Settled

LEMMA NextD ==
  ASSUME LoopAlone, FinalizersRelease, JInv, JInv', EInv, EInv', PlayInv, DrainInv,
         LeasesWithinDrain', [Next]_vars
  PROVE  DrainInv'
<1>0. FiresLocked /\ CIInv
  BY LoopOnly, JFacts
<1>1. ASSUME NEW p \in Injected, CreateToken(p) PROVE DrainInv'
  BY <1>1, CreateTokenD
<1>2. ASSUME UNCHANGED <<cvars, job, verdict, failures>> PROVE DrainInv'
  <2>1. LogGrows /\ Now' = Now /\ UNCHANGED call
    BY <1>0, <1>2, AuditGrows
  <2>2. SameLeases(Now, Now')
    BY <2>1 DEF SameLeases
  <2> QED BY <1>0, <1>2, <2>1, <2>2, LoopStays
<1>3. ASSUME NEW k \in kicks, Kick(k) PROVE DrainInv'
  BY <1>2, <1>3 DEF Kick
<1>4. ASSUME NEW m \in {"Running", "Stopped"}, SetRunMode(m) PROVE DrainInv'
  BY <1>2, <1>4 DEF SetRunMode
<1>5. ASSUME NEW c \in Caller, Request(c) PROVE DrainInv'
  BY <1>5, RequestD
<1>6. ASSUME NEW c \in Caller, Task(c) PROVE DrainInv'
  <2>1. CASE Wake \/ Drive
    BY <2>1, WakeD, DriveD
  <2>2. CASE StartAdvance(c) \/ StepAdvance(c) \/ Reconcile(c)
    BY <2>2, AdvanceD, ReconcileD
  <2>3. CASE c = Loop
    <3>1. CASE TryLock(Loop) \/ SelectNext(Loop) \/ MarkEmpty(Loop) \/ Fire(Loop)
      BY <3>1, TryLockD, SelectNextD, MarkEmptyD, FireD
    <3>2. CASE CommitOk(Loop) \/ BridgeOut(Loop)
      BY <3>2, CommitOkD, BridgeOutD
    <3>3. CASE CommitFail(Loop) \/ RemoveBound(Loop) \/ CommitReject(Loop)
      BY <3>3, CommitFailD, RemoveBoundD, CommitRejectD
    <3>4. CASE CommitDefer(Loop) \/ CommitTransient(Loop)
      BY <3>4, CommitDeferD, CommitTransientD
    <3> QED BY <1>6, <2>1, <2>2, <2>3, <3>1, <3>2, <3>3, <3>4 DEF Task, Work
  <2>4. CASE c # Loop
    <3>1. job[c].at \in {"idle", "advance"}
      BY <2>4, JFacts, LoopOnly DEF Locked
    <3>2. StartAdvance(c) \/ StepAdvance(c) \/ Reconcile(c)
      BY <1>6, <2>4, <3>1 DEF Task, Work, TryLock, SelectNext, MarkEmpty, Fire, CommitOk,
         BridgeOut, CommitFail, RemoveBound, CommitReject, CommitDefer, CommitTransient
    <3> QED BY <2>2, <3>2
  <2> QED BY <2>3, <2>4
<1>7. CASE UNCHANGED vars
  BY <1>2, <1>7 DEF vars, evars
<1> QED BY <1>1, <1>3, <1>4, <1>5, <1>6, <1>7 DEF Next

(***************************************************************************)
(* When the loop evaluates the net alone and never holds more leases than  *)
(* a drain has steps, a net that it declares failed holds none, unless a   *)
(* finalizer failed: for every topology in which leases come from inside   *)
(* the net and finalizers give none back, with tokens arriving and         *)
(* markings being read at any time (evaluation.rs, drain_finalizers).      *)
(***************************************************************************)
THEOREM FailedNetHasReleased ==
  LoopAlone /\ FinalizersRelease => (Spec /\ []LeasesWithinDrain => []ReleasedBeforeFailed)
<1> SUFFICES ASSUME LoopAlone, FinalizersRelease
             PROVE  Spec /\ []LeasesWithinDrain => []ReleasedBeforeFailed
  OBVIOUS
<1> DEFINE I == JInv /\ EInv /\ PlayInv /\ DrainInv
<1>0. FiresLocked
  BY LoopOnly
<1>1. Init => I
  BY InitJ, InitE, InitG, InitD
<1>2. I /\ LeasesWithinDrain' /\ [Next]_vars => I'
  <2> SUFFICES ASSUME I, LeasesWithinDrain', [Next]_vars PROVE I'
    OBVIOUS
  <2>1. JInv' /\ EInv' /\ PlayInv'
    BY <1>0, NextJ, NextE, NextG DEF Step
  <2> QED BY <2>1, NextD
<1>3. I => ReleasedBeforeFailed
  <2> SUFFICES ASSUME I, verdict = "Failed", "Finalizing" \notin failures
               PROVE  \A t \in Finalizer : ~HasBinding(t, FullMarking(store))
    BY DEF ReleasedBeforeFailed
  <2>1. store \in StoreType /\ log \in Seq(PersistedEvent) /\ Represents(store, log)
    BY JFacts DEF CIInv, CTypeOK
  <2>2. FullMarking(store) = Now
    BY <2>1, StoreExtent DEF Now
  <2>3. Released(Now)
    BY DEF DrainInv, Judged, Done
  <2> QED BY <2>2, <2>3 DEF Released
<1> QED BY <1>1, <1>2, <1>3, PTL DEF Spec

-----------------------------------------------------------------------------
(***************************************************************************)
(* The loop asleep.  Nobody else evaluates, fires or reads, and an error   *)
(* before the handler runs, which leaves no event, does not happen.        *)
(***************************************************************************)
Undisturbed == LoopAlone /\ Reader = {} /\ "transient" \notin Outcomes

\* A wake-up has come, or is on its way.
Cued == permit \/ kicks # {}

NothingToFire(m) == Unbound(Transition \ Finalizer, m)

\* The loop has seen the whole log, or will be woken for what it has not seen.
InSight ==
    /\ call[Loop].pc # "idle" => Cued \/ call[Loop].len = Len(log)
    /\ job[Loop].at \in {"select", "mark"} => Cued \/ job[Loop].marking = Now

Searched(j) ==
    j.at = "mark" /\ j.phase = "Normal" /\ j.chosen = None => NothingToFire(j.marking)

\* The evaluation is over and the loop sleeps, or is about to.
Resting(j, m) ==
    \/ j.at = "driver" /\ j.result \notin {"Terminal", "Failed"}
    \/ j.at = "wait" /\ m = "Running"

Rested == Resting(job[Loop], mode) => Cued \/ NothingToFire(Now)

Raised(j, f) ==
    "Normal" \in f => j.at = "stopped" \/ Failed(j) \/ (Busy(j) /\ j.phase = "Finalizing")

LoopLocks == lock # None => Busy(job[Loop])

WakeInv ==
    InSight /\ Searched(job[Loop]) /\ Rested /\ Raised(job[Loop], failures) /\ LoopLocks

LEMMA OnlyLoop ==
  ASSUME Undisturbed
  PROVE  LoopAlone /\ AllLocked /\ FiresLocked /\ Caller = {Loop} /\ Loop \notin Firer
BY Actors DEF Undisturbed, LoopAlone, AllLocked, FiresLocked, Evaluator

LEMMA LoopTurns ==
  ASSUME JInv, Undisturbed, NEW r, job' = [job EXCEPT ![Loop] = r], call'[Loop].pc = "idle",
         r.at \in {"select", "mark"} => Cued' \/ r.marking = Now', Searched(r),
         Resting(r, mode') => Cued' \/ NothingToFire(Now'),
         Raised(r, failures'), lock' # None => Busy(r)
  PROVE  WakeInv'
<1>1. job'[Loop] = r
  BY JFacts, OnlyLoop
<1> QED BY <1>1 DEF WakeInv, InSight, Rested, LoopLocks

\* The loop leaves the marking it worked on.
TurnsAway ==
    \E r : /\ job' = [job EXCEPT ![Loop] = r] /\ r.at \notin {"select", "mark"}
           /\ Raised(r, failures') /\ (lock' # None => Busy(r))

LEMMA Rings ==
  ASSUME JInv, Undisturbed, TurnsAway, kicks' # {}, job[Loop].at # "advance", UNCHANGED call
  PROVE  WakeInv'
<1>1. PICK r : /\ job' = [job EXCEPT ![Loop] = r] /\ r.at \notin {"select", "mark"}
               /\ Raised(r, failures') /\ (lock' # None => Busy(r))
  BY DEF TurnsAway
<1>2. Cued' /\ Searched(r)
  BY <1>1 DEF Cued, Searched
<1>3. call'[Loop].pc = "idle"
  BY LoopIdle, OnlyLoop
<1> QED BY <1>1, <1>2, <1>3, LoopTurns

LEMMA FinishTurns ==
  ASSUME JInv, Undisturbed, NEW result, Finish(Loop, result),
         "Normal" \in failures' => result = "Failed"
  PROVE  TurnsAway
<1> DEFINE r == [NoJob("driver") EXCEPT !.result = result]
<1>1. job' = [job EXCEPT ![Loop] = r] /\ lock' = None
  BY DEF Finish
<1>2. r.at = "driver" /\ r.result = result
  BY DEF NoJob
<1> HIDE DEF r
<1> QED BY <1>1, <1>2 DEF TurnsAway, Raised, Failed

LEMMA AdvanceTurns ==
  ASSUME JInv, Undisturbed, NEW r, job' = [job EXCEPT ![Loop] = r], Busy(r),
         r.at \notin {"select", "mark"}, "Normal" \in failures' => r.phase = "Finalizing"
  PROVE  TurnsAway
BY DEF TurnsAway, Raised

\* An evaluation goes on after a permanent failure only as a drain.
LEMMA DrainsAfter ==
  ASSUME JInv, Undisturbed, WakeInv, Busy(job[Loop])
  PROVE  /\ job[Loop] \in JobRec /\ job[Loop].phase \in {"Normal", "Finalizing"}
         /\ "Normal" \in failures => job[Loop].phase = "Finalizing"
<1>1. job[Loop] \in JobRec /\ job[Loop].phase \in {"Normal", "Finalizing"}
  BY JFacts, OnlyLoop DEF JobRec
<1> QED BY <1>1 DEF WakeInv, Raised, Failed, Busy

LEMMA RoundTurns ==
  ASSUME JInv, Undisturbed, WakeInv, Busy(job[Loop]), NextRound(Loop), UNCHANGED failures
  PROVE  TurnsAway
<1> DEFINE k == job[Loop].steps + 1
           phase == job[Loop].phase
<1>1. phase \in {"Normal", "Finalizing"} /\ ("Normal" \in failures' => phase = "Finalizing")
  BY DrainsAfter
<1>2. \/ job' = [job EXCEPT ![Loop] = [NoJob("advance") EXCEPT !.phase = phase, !.steps = k]]
      \/ phase = "Normal" /\ Finish(Loop, "LimitReached")
      \/ phase # "Normal" /\ Finish(Loop, "Failed")
  BY OnlyLoop DEF NextRound
<1> HIDE DEF phase, k
<1>3. CASE job' = [job EXCEPT ![Loop] = [NoJob("advance") EXCEPT !.phase = phase, !.steps = k]]
  <2> DEFINE r == [NoJob("advance") EXCEPT !.phase = phase, !.steps = k]
  <2>1. r.at = "advance" /\ r.phase = phase
    BY DEF NoJob
  <2>2. job' = [job EXCEPT ![Loop] = r]
    BY <1>3
  <2> HIDE DEF r
  <2> QED BY <1>1, <2>1, <2>2, AdvanceTurns DEF Busy
<1>4. CASE phase = "Normal" /\ Finish(Loop, "LimitReached")
  BY <1>1, <1>4, FinishTurns
<1>5. CASE phase # "Normal" /\ Finish(Loop, "Failed")
  BY <1>5, FinishTurns
<1> QED BY <1>2, <1>3, <1>4, <1>5

LEMMA GiveUpTurns ==
  ASSUME JInv, Undisturbed, WakeInv, Busy(job[Loop]), GiveUp(Loop)
  PROVE  TurnsAway
<1>1. job[Loop].phase \in {"Normal", "Finalizing"} /\ Loop \notin Firer
  BY DrainsAfter, OnlyLoop
<1>2. CASE job[Loop].phase = "Normal"
  <2> DEFINE r == [NoJob("advance") EXCEPT !.phase = "Finalizing"]
  <2>1. job' = [job EXCEPT ![Loop] = r]
    BY <1>1, <1>2 DEF GiveUp, StartDrain
  <2>2. r.at = "advance" /\ r.phase = "Finalizing"
    BY DEF NoJob
  <2> HIDE DEF r
  <2> QED BY <2>1, <2>2, AdvanceTurns DEF Busy
<1>3. CASE job[Loop].phase # "Normal"
  <2>1. Finish(Loop, "Failed")
    BY <1>1, <1>3 DEF GiveUp
  <2> QED BY <2>1, FinishTurns
<1> QED BY <1>2, <1>3

LEMMA AbandonTurns ==
  ASSUME JInv, Undisturbed, WakeInv, Busy(job[Loop]), Abandon(Loop)
  PROVE  TurnsAway
<1>1. /\ job[Loop].phase \in {"Normal", "Finalizing"} /\ Loop \notin Firer
      /\ "Normal" \in failures => job[Loop].phase = "Finalizing"
  BY DrainsAfter, OnlyLoop
<1>2. CASE job[Loop].phase = "Normal"
  <2>1. Finish(Loop, "Quiescent") /\ "Normal" \notin failures'
    BY <1>1, <1>2 DEF Abandon
  <2> QED BY <2>1, FinishTurns
<1>3. CASE job[Loop].phase # "Normal"
  <2>1. Finish(Loop, "Failed")
    BY <1>1, <1>3 DEF Abandon
  <2> QED BY <2>1, FinishTurns
<1> QED BY <1>2, <1>3

\* The loop is at another point of the same firing.
LEMMA SameFiring ==
  ASSUME JInv, Undisturbed, WakeInv, Busy(job[Loop]), NEW r, job' = [job EXCEPT ![Loop] = r],
         r.at \in {"fire", "commit", "bridgeOut", "remove"}, r.phase = job[Loop].phase,
         UNCHANGED failures
  PROVE  TurnsAway
BY DrainsAfter, AdvanceTurns DEF Busy

-----------------------------------------------------------------------------
LEMMA CommitOkW ==
  ASSUME JInv, Undisturbed, WakeInv, CommitOk(Loop)
  PROVE  WakeInv'
<1>1. /\ job[Loop].at = "commit" /\ kicks' # {} /\ UNCHANGED <<call, failures>>
      /\ job' = [job EXCEPT ![Loop].at = "bridgeOut"] \/ NextRound(Loop)
  BY DEF CommitOk, Emit, AppendEvent
<1>2. Busy(job[Loop])
  BY <1>1 DEF Busy
<1>3. CASE job' = [job EXCEPT ![Loop].at = "bridgeOut"]
  <2> DEFINE r == [job[Loop] EXCEPT !.at = "bridgeOut"]
  <2>1. job' = [job EXCEPT ![Loop] = r] /\ r.at = "bridgeOut" /\ r.phase = job[Loop].phase
    BY <1>2, <1>3, JFacts, DrainsAfter, OnlyLoop DEF JobRec
  <2> HIDE DEF r
  <2>2. TurnsAway
    BY <1>1, <1>2, <2>1, SameFiring
  <2> QED BY <1>1, <2>2, Rings
<1>4. CASE NextRound(Loop)
  <2>1. TurnsAway
    BY <1>1, <1>2, <1>4, RoundTurns
  <2> QED BY <1>1, <2>1, Rings
<1> QED BY <1>1, <1>3, <1>4

LEMMA BridgeOutW ==
  ASSUME JInv, Undisturbed, WakeInv, BridgeOut(Loop)
  PROVE  WakeInv'
<1>1. /\ job[Loop].at = "bridgeOut" /\ kicks' # {} /\ UNCHANGED <<call, failures>>
      /\ NextRound(Loop)
  BY DEF BridgeOut, Emit, AppendEvent
<1>2. TurnsAway
  BY <1>1, RoundTurns DEF Busy
<1> QED BY <1>1, <1>2, Rings

LEMMA CommitFailW ==
  ASSUME JInv, Undisturbed, WakeInv, CommitFail(Loop)
  PROVE  WakeInv'
<1> DEFINE P == Pre[job[Loop].chosen]
           r == [job[Loop] EXCEPT !.at = "remove", !.newly = P]
<1>1. job[Loop].at = "commit" /\ kicks' # {} /\ UNCHANGED call
  BY DEF CommitFail, Emit, AppendEvent
<1>2. Busy(job[Loop])
  BY <1>1 DEF Busy
<1>3. GiveUp(Loop) \/ (job' = [job EXCEPT ![Loop] = r] /\ UNCHANGED failures)
  BY JFacts, OnlyLoop DEF CommitFail
<1> HIDE DEF P
<1>4. r.at = "remove" /\ r.phase = job[Loop].phase
  BY <1>2, DrainsAfter DEF JobRec
<1> HIDE DEF r
<1>5. TurnsAway
  BY <1>2, <1>3, <1>4, GiveUpTurns, SameFiring
<1> QED BY <1>1, <1>5, Rings

LEMMA RemoveBoundW ==
  ASSUME JInv, Undisturbed, WakeInv, RemoveBound(Loop)
  PROVE  WakeInv'
<1>1. job[Loop].at = "remove" /\ kicks' # {} /\ UNCHANGED call
  BY DEF RemoveBound, Emit, AppendEvent
<1>2. Busy(job[Loop])
  BY <1>1 DEF Busy
<1>3. PICK p : GiveUp(Loop) \/ (job' = [job EXCEPT ![Loop].newly = @ \ {p}] /\ UNCHANGED failures)
  BY DEF RemoveBound
<1> DEFINE N == job[Loop].newly \ {p}
           r == [job[Loop] EXCEPT !.newly = N]
<1>4. GiveUp(Loop) \/ (job' = [job EXCEPT ![Loop] = r] /\ UNCHANGED failures)
  BY <1>3, JFacts, OnlyLoop
<1> HIDE DEF N
<1>5. r.at = "remove" /\ r.phase = job[Loop].phase
  BY <1>1, <1>2, DrainsAfter DEF JobRec
<1> HIDE DEF r
<1>6. TurnsAway
  BY <1>2, <1>4, <1>5, GiveUpTurns, SameFiring
<1> QED BY <1>1, <1>6, Rings

LEMMA CommitRejectW ==
  ASSUME JInv, Undisturbed, WakeInv, CommitReject(Loop)
  PROVE  WakeInv'
<1>1. job[Loop].at = "commit" /\ kicks' # {} /\ UNCHANGED call /\ GiveUp(Loop)
  BY DEF CommitReject, Emit, AppendEvent
<1>2. TurnsAway
  BY <1>1, GiveUpTurns DEF Busy
<1> QED BY <1>1, <1>2, Rings

LEMMA CommitDeferW ==
  ASSUME JInv, Undisturbed, WakeInv, CommitDefer(Loop)
  PROVE  WakeInv'
<1> DEFINE r == [job[Loop] EXCEPT !.outcome = "reject"]
<1>1. job[Loop].at = "commit" /\ kicks' # {} /\ UNCHANGED call
  BY DEF CommitDefer, Emit, AppendEvent
<1>2. Abandon(Loop) \/ (job' = [job EXCEPT ![Loop] = r] /\ UNCHANGED failures)
  BY JFacts, OnlyLoop DEF CommitDefer
<1>3. Busy(job[Loop])
  BY <1>1 DEF Busy
<1>4. r.at = "commit" /\ r.phase = job[Loop].phase
  BY <1>1, <1>3, DrainsAfter DEF JobRec
<1> HIDE DEF r
<1>5. TurnsAway
  BY <1>2, <1>3, <1>4, AbandonTurns, SameFiring
<1> QED BY <1>1, <1>5, Rings

LEMMA CommitTransientW ==
  ASSUME JInv, Undisturbed, CommitTransient(Loop)
  PROVE  FALSE
<1>1. job[Loop].outcome \in Outcomes \cup {"ok", "reject"}
  BY JFacts, OnlyLoop DEF JobRec
<1> QED BY <1>1 DEF CommitTransient, Undisturbed

\* A wake-up is on its way and the loop has not moved.
LEMMA CuedStays ==
  ASSUME WakeInv, Cued', UNCHANGED <<job, call, failures, lock>>
  PROVE  WakeInv'
BY DEF WakeInv, InSight, Rested, LoopLocks

LEMMA CreateTokenW ==
  ASSUME WakeInv, NEW p \in Injected, CreateToken(p)
  PROVE  WakeInv'
<1>1. kicks' # {} /\ UNCHANGED <<job, call, failures, lock>>
  BY DEF CreateToken, Emit, AppendEvent
<1> QED BY <1>1, CuedStays DEF Cued

LEMMA KickW ==
  ASSUME WakeInv, NEW k, Kick(k)
  PROVE  WakeInv'
<1>1. permit' /\ UNCHANGED <<job, call, failures, lock>>
  BY DEF Kick, cvars
<1> QED BY <1>1, CuedStays DEF Cued

\* A net that is set running is evaluated at once.
LEMMA SetRunModeW ==
  ASSUME WakeInv, NEW m \in {"Running", "Stopped"}, SetRunMode(m)
  PROVE  WakeInv'
<1>1. UNCHANGED <<job, call, log, failures, lock, kicks>> /\ mode' = m
  BY DEF SetRunMode, cvars
<1>2. CASE m = "Running"
  <2>1. permit'
    BY <1>2 DEF SetRunMode
  <2> QED BY <1>1, <2>1, CuedStays DEF Cued
<1>3. CASE m = "Stopped"
  <2>1. Cued' <=> Cued
    BY <1>1, <1>3 DEF SetRunMode, Cued
  <2>2. Now' = Now
    BY <1>1 DEF Now
  <2>3. Resting(job'[Loop], mode') => Resting(job[Loop], mode)
    BY <1>1, <1>3 DEF Resting
  <2> QED BY <1>1, <2>1, <2>2, <2>3 DEF WakeInv, InSight, Rested, LoopLocks
<1> QED BY <1>2, <1>3

LEMMA WakeW ==
  ASSUME JInv, Undisturbed, WakeInv, Wake
  PROVE  WakeInv'
<1> DEFINE a == IF mode = "Running" THEN "lock" ELSE "wait"
           r == [job[Loop] EXCEPT !.at = a]
<1>1. Loop \in Caller /\ job \in [Caller -> JobRec]
  BY JFacts, OnlyLoop
<1>2. /\ job' = [job EXCEPT ![Loop] = r] /\ job[Loop].at = "wait"
      /\ UNCHANGED <<cvars, lock, failures, mode>>
  BY <1>1 DEF Wake
<1>3. r.at \in {"lock", "wait"} /\ (r.at = "wait" => mode' # "Running")
  BY <1>1, <1>2 DEF JobRec
<1> HIDE DEF r
<1>4. call'[Loop].pc = "idle"
  BY <1>2, LoopIdle, OnlyLoop DEF cvars
<1>5. lock' = None /\ "Normal" \notin failures'
  BY <1>2 DEF WakeInv, LoopLocks, Raised, Failed, Busy
<1> QED BY <1>2, <1>3, <1>4, <1>5, LoopTurns DEF Searched, Resting, Raised

LEMMA TryLockW ==
  ASSUME JInv, Undisturbed, WakeInv, TryLock(Loop)
  PROVE  WakeInv'
<1>1. job[Loop].at = "lock" /\ UNCHANGED <<cvars, failures>>
  BY DEF TryLock
<1>2. lock = None /\ "Normal" \notin failures
  BY <1>1 DEF WakeInv, LoopLocks, Raised, Failed, Busy
<1>3. job' = [job EXCEPT ![Loop] = NoJob("advance")]
  BY <1>2 DEF TryLock
<1>4. NoJob("advance").at = "advance"
  BY DEF NoJob
<1>5. call'[Loop].pc = "idle"
  BY <1>1, LoopIdle, OnlyLoop DEF cvars
<1> QED BY <1>1, <1>2, <1>3, <1>4, <1>5, LoopTurns DEF Searched, Resting, Raised, Busy

\* The loop goes back to sleep unless the net is done or has failed.
LEMMA DriveW ==
  ASSUME JInv, Undisturbed, WakeInv, Drive
  PROVE  WakeInv'
<1>1. job[Loop].at = "driver" /\ UNCHANGED <<failures, permit, kicks, lock, mode>>
  BY DEF Drive
<1>2. /\ lock' = None
      /\ "Normal" \in failures' => job[Loop].result = "Failed"
      /\ job[Loop].result \notin {"Terminal", "Failed"} => Cued \/ NothingToFire(Now)
  BY <1>1 DEF WakeInv, LoopLocks, Raised, Failed, Busy, Rested, Resting
<1>3. CASE job[Loop].result \in {"Terminal", "Failed"}
  <2>1. job' = [job EXCEPT ![Loop] = NoJob("stopped")] /\ UNCHANGED call
    BY <1>3 DEF Drive, Emit, AppendEvent
  <2>2. NoJob("stopped").at = "stopped"
    BY DEF NoJob
  <2>3. call'[Loop].pc = "idle"
    BY <1>1, <2>1, LoopIdle, OnlyLoop
  <2> QED BY <1>2, <2>1, <2>2, <2>3, LoopTurns DEF Searched, Resting, Raised
<1>4. CASE job[Loop].result \notin {"Terminal", "Failed"}
  <2>1. job' = [job EXCEPT ![Loop] = NoJob("wait")] /\ UNCHANGED cvars
    BY <1>4 DEF Drive
  <2>2. NoJob("wait").at = "wait"
    BY DEF NoJob
  <2>3. call'[Loop].pc = "idle"
    BY <1>1, <2>1, LoopIdle, OnlyLoop DEF cvars
  <2>4. Cued' \/ NothingToFire(Now')
    BY <1>1, <1>2, <1>4, <2>1 DEF Cued, Now, cvars
  <2>5. Raised(NoJob("wait"), failures')
    BY <1>2, <1>4 DEF Raised
  <2> QED BY <1>2, <2>1, <2>2, <2>3, <2>4, <2>5, LoopTurns DEF Searched
<1> QED BY <1>3, <1>4

LEMMA AdvanceW ==
  ASSUME JInv, Undisturbed, WakeInv, StartAdvance(Loop) \/ StepAdvance(Loop)
  PROVE  WakeInv'
<1>1. job[Loop].at = "advance" /\ UNCHANGED <<log, job, failures, permit, kicks, lock, mode>>
  BY AdvanceJ, OnlyLoop DEF Calling, evars
<1>2. call'[Loop].len = Len(log) \/ (call'[Loop].len = call[Loop].len /\ call[Loop].pc # "idle")
  BY CallExtent, OnlyLoop
<1>3. (Cued' <=> Cued) /\ Now' = Now
  BY <1>1 DEF Cued, Now
<1>4. call'[Loop].pc # "idle" => Cued' \/ call'[Loop].len = Len(log')
  BY <1>1, <1>2, <1>3 DEF WakeInv, InSight
<1> QED BY <1>1, <1>3, <1>4 DEF WakeInv, InSight, Rested, LoopLocks

\* What the loop evaluates on is all there is, or there is a wake-up for the rest.
LEMMA ReconcileW ==
  ASSUME JInv, Undisturbed, WakeInv, Reconcile(Loop)
  PROVE  WakeInv'
<1> DEFINE k == call[Loop]
           m == k.snap.marking
           r == [job[Loop] EXCEPT !.at = "select", !.marking = m]
<1>1. /\ k.pc = "done" /\ job[Loop].at = "advance"
      /\ job' = [job EXCEPT ![Loop] = r]
      /\ call' = [call EXCEPT ![Loop] = NoCall]
      /\ UNCHANGED log
  BY ReconcileJ, LoopOnly, OnlyLoop
<1>2. UNCHANGED <<failures, permit, kicks, lock, mode>>
  BY DEF Reconcile
<1>3. /\ job[Loop] \in JobRec /\ call \in [Caller -> CallState] /\ Loop \in Caller
      /\ CallSound(k, log) /\ k.len \in Nat /\ Len(log) \in Nat
  BY JFacts, NowType, OnlyLoop DEF CIInv, CTypeOK, CallState
<1>4. k.snap.idx \in k.len..Len(log) /\ m = Upto(log, k.snap.idx)
  BY <1>1, <1>3 DEF CallSound, Coherent, CacheEntry
<1>5. Cued \/ k.len = Len(log)
  BY <1>1 DEF WakeInv, InSight
<1>6. Cued' \/ m = Now'
  BY <1>1, <1>2, <1>3, <1>4, <1>5 DEF Cued, Now
<1>7. call'[Loop].pc = "idle"
  BY <1>1, <1>3 DEF NoCall
<1> HIDE DEF m
<1>8. r.at = "select" /\ r.marking = m /\ r.phase = job[Loop].phase
  BY <1>3 DEF JobRec
<1> HIDE DEF r
<1>9. Raised(r, failures') /\ Busy(r)
  BY <1>1, <1>2, <1>8, DrainsAfter DEF Raised, Busy
<1> QED BY <1>1, <1>6, <1>7, <1>8, <1>9, LoopTurns DEF Searched, Resting

\* The memo hides nothing: what select_next_transition leaves is not enabled.
LEMMA SelectNextW ==
  ASSUME JInv, MInv, Undisturbed, WakeInv, SelectNext(Loop)
  PROVE  WakeInv'
<1> DEFINE j == job[Loop]
           N == NewlyIn(j)
<1>1. /\ FiresLocked /\ Loop \in Caller /\ j \in JobRec /\ CIInv /\ job \in [Caller -> JobRec]
      /\ j.at = "select" /\ UNCHANGED cvars
      /\ \E t : job' = [job EXCEPT ![Loop] = [j EXCEPT !.at = "mark", !.chosen = t, !.newly = N]]
  BY OnlyLoop, JFacts, SelectNextJ
<1>2. PICK t : job' = [job EXCEPT ![Loop] = [j EXCEPT !.at = "mark", !.chosen = t, !.newly = N]]
  BY <1>1
<1> HIDE DEF N
<1> DEFINE r == [j EXCEPT !.at = "mark", !.chosen = t, !.newly = N]
<1>3. job'[Loop] = r
  BY <1>1, <1>2
<1>4. r.at = "mark" /\ r.chosen = t /\ r.phase = j.phase /\ r.marking = j.marking
  BY <1>1 DEF JobRec
<1>5. job' = [job EXCEPT ![Loop] = r]
  BY <1>2
<1> HIDE DEF r
<1>6. Now' = Now /\ UNCHANGED <<call, failures, permit, kicks, lock, mode>>
  BY <1>1, AuditGrows DEF SelectNext
<1>7. ASSUME j.phase = "Normal", t = None PROVE NothingToFire(j.marking)
  <2>1. t \in Best(BoundIn(j), j.marking)
    BY <1>1, <1>3, <1>4, Selection
  <2>2. BoundIn(j) = {}
    BY <1>7, <2>1, ChoiceAssumption DEF Best, BoundIn, Eligible
  <2>3. \A u \in memo.empty : ~HasBinding(u, j.marking)
    BY <1>1, <1>7, MemoSuppresses, OnlyLoop, Actors DEF MemoNeverLags
  <2>4. \A u \in Transition \ Finalizer : u \in Eligible(j) \/ u \in memo.empty
    BY <1>7 DEF Eligible
  <2> QED BY <2>2, <2>3, <2>4 DEF BoundIn, NothingToFire, Unbound
<1>8. Searched(r)
  BY <1>4, <1>7 DEF Searched
<1>9. Cued' \/ r.marking = Now'
  BY <1>1, <1>4, <1>6 DEF WakeInv, InSight, Cued
<1>10. Busy(r) /\ Raised(r, failures')
  BY <1>1, <1>4, <1>6, DrainsAfter DEF Busy, Raised
<1>11. call'[Loop].pc = "idle"
  BY <1>1, <1>6, LoopIdle, OnlyLoop
<1> QED BY <1>4, <1>5, <1>8, <1>9, <1>10, <1>11, LoopTurns DEF Resting

\* Nothing to fire in the marking: nothing to fire now, unless a wake-up is coming.
LEMMA MarkEmptyW ==
  ASSUME JInv, Undisturbed, WakeInv, MarkEmpty(Loop)
  PROVE  WakeInv'
<1>1. job[Loop].at = "mark" /\ UNCHANGED <<cvars, failures, permit, kicks, mode>>
  BY DEF MarkEmpty
<1>2. Now' = Now /\ call'[Loop].pc = "idle" /\ (Cued' <=> Cued)
  BY <1>1, JFacts, AuditGrows, LoopIdle, OnlyLoop DEF Cued
<1>3. /\ job[Loop] \in JobRec /\ job[Loop].phase \in {"Normal", "Finalizing"}
      /\ "Normal" \in failures => job[Loop].phase = "Finalizing"
  BY <1>1, DrainsAfter DEF Busy
<1>4. CASE job[Loop].chosen # None
  <2> DEFINE r == [job[Loop] EXCEPT !.at = "fire"]
  <2>1. job' = [job EXCEPT ![Loop] = r]
    BY <1>4, JFacts, OnlyLoop DEF MarkEmpty
  <2>2. r.at = "fire" /\ r.phase = job[Loop].phase
    BY <1>3 DEF JobRec
  <2> HIDE DEF r
  <2> QED BY <1>1, <1>2, <1>3, <2>1, <2>2, LoopTurns DEF Searched, Resting, Raised, Busy
<1>5. CASE job[Loop].chosen = None
  <2>1. PICK result \in {"Terminal", "Quiescent", "Failed"} :
          /\ Finish(Loop, result)
          /\ job[Loop].phase = "Finalizing" => result = "Failed"
          /\ job[Loop].phase # "Finalizing" => result # "Failed"
    BY <1>3, <1>5 DEF MarkEmpty
  <2> DEFINE r == [NoJob("driver") EXCEPT !.result = result]
  <2>2. job' = [job EXCEPT ![Loop] = r] /\ lock' = None
    BY <2>1 DEF Finish
  <2>3. r.at = "driver" /\ r.result = result
    BY DEF NoJob
  <2> HIDE DEF r
  <2>4. result = "Quiescent" => Cued' \/ NothingToFire(Now')
    BY <1>1, <1>2, <1>3, <1>5, <2>1 DEF WakeInv, InSight, Searched
  <2>5. Raised(r, failures')
    BY <1>1, <1>3, <2>1, <2>3 DEF Raised, Failed
  <2> QED BY <1>2, <2>1, <2>2, <2>3, <2>4, <2>5, LoopTurns DEF Searched, Resting
<1> QED BY <1>4, <1>5

LEMMA FireW ==
  ASSUME JInv, Undisturbed, WakeInv, Fire(Loop)
  PROVE  WakeInv'
<1>1. /\ job[Loop].at = "fire" /\ (UNCHANGED cvars \/ Emit(Audit)) /\ UNCHANGED failures
      /\ \E o \in Outcomes :
            job' = [job EXCEPT ![Loop] = [job[Loop] EXCEPT !.at = "commit", !.outcome = o]]
  BY FireJ, OnlyLoop DEF Fire
<1>2. PICK o \in Outcomes :
            job' = [job EXCEPT ![Loop] = [job[Loop] EXCEPT !.at = "commit", !.outcome = o]]
  BY <1>1
<1> DEFINE r == [job[Loop] EXCEPT !.at = "commit", !.outcome = o]
<1>3. /\ job[Loop] \in JobRec
      /\ "Normal" \in failures => job[Loop].phase = "Finalizing"
  BY <1>1, DrainsAfter DEF Busy
<1>4. r.at = "commit" /\ r.phase = job[Loop].phase
  BY <1>3 DEF JobRec
<1>5. job' = [job EXCEPT ![Loop] = r]
  BY <1>2
<1> HIDE DEF r
<1>6. call'[Loop].pc = "idle"
  BY <1>1, JFacts, AuditGrows, LoopIdle, OnlyLoop
<1> QED BY <1>1, <1>3, <1>4, <1>5, <1>6, LoopTurns DEF Searched, Resting, Raised, Busy

LEMMA InitW == Undisturbed /\ Init => WakeInv
<1> SUFFICES ASSUME Undisturbed, Init PROVE WakeInv
  OBVIOUS
<1>1. /\ job[Loop].at = "wait" /\ call[Loop].pc = "idle" /\ failures = {} /\ lock = None
      /\ log = << >>
  BY OnlyLoop DEF Init, CInit, NoCall, NoJob
<1>2. Now = EmptyMarking
  BY NoneYet
<1>3. NothingToFire(Now)
  BY <1>2, TopologyAssumption DEF NothingToFire, Unbound, HasBinding, EmptyMarking
<1> QED BY <1>1, <1>3 DEF WakeInv, InSight, Searched, Rested, Raised, LoopLocks

LEMMA NextW ==
  ASSUME Undisturbed, JInv, MInv, WakeInv, [Next]_vars
  PROVE  WakeInv'
<1>1. ASSUME NEW p \in Injected, CreateToken(p) PROVE WakeInv'
  BY <1>1, CreateTokenW
<1>2. ASSUME NEW k \in kicks, Kick(k) PROVE WakeInv'
  BY <1>2, KickW
<1>3. ASSUME NEW m \in {"Running", "Stopped"}, SetRunMode(m) PROVE WakeInv'
  BY <1>3, SetRunModeW
<1>4. ASSUME NEW c \in Caller, Request(c) \/ Task(c) PROVE WakeInv'
  <2>1. c = Loop /\ ~Request(Loop)
    BY <1>4, OnlyLoop DEF Request
  <2>2. CASE Wake \/ Drive
    BY <2>2, WakeW, DriveW
  <2>3. CASE TryLock(Loop) \/ StartAdvance(Loop) \/ StepAdvance(Loop) \/ Reconcile(Loop)
    BY <2>3, TryLockW, AdvanceW, ReconcileW
  <2>4. CASE SelectNext(Loop) \/ MarkEmpty(Loop) \/ Fire(Loop)
    BY <2>4, SelectNextW, MarkEmptyW, FireW
  <2>5. CASE CommitOk(Loop) \/ BridgeOut(Loop) \/ CommitFail(Loop) \/ RemoveBound(Loop)
    BY <2>5, CommitOkW, BridgeOutW, CommitFailW, RemoveBoundW
  <2>6. CASE CommitReject(Loop) \/ CommitDefer(Loop) \/ CommitTransient(Loop)
    BY <2>6, CommitRejectW, CommitDeferW, CommitTransientW
  <2> QED BY <1>4, <2>1, <2>2, <2>3, <2>4, <2>5, <2>6 DEF Task, Work
<1>5. CASE UNCHANGED vars
  <2>1. UNCHANGED <<job, call, log, failures, permit, kicks, lock, mode>>
    BY <1>5 DEF vars, evars, cvars
  <2>2. Now' = Now /\ (Cued' <=> Cued)
    BY <2>1 DEF Now, Cued
  <2> QED BY <2>1, <2>2 DEF WakeInv, InSight, Rested, LoopLocks
<1> QED BY <1>1, <1>2, <1>3, <1>4, <1>5 DEF Next

(***************************************************************************)
(* An undisturbed loop sleeps only on an idle net, for every topology and  *)
(* every step limit: whatever arrives while it evaluates on a snapshot,    *)
(* defers, fails or drains, it does not wait with a transition enabled, or *)
(* with a failure not raised, unless a wake-up is still to reach it        *)
(* (net_registry.rs, the evaluation loop).                                 *)
(***************************************************************************)
THEOREM LoopSleepsOnlyIdle == Undisturbed => (Spec => []SleepsOnlyIdle)
<1> SUFFICES ASSUME Undisturbed PROVE Spec => []SleepsOnlyIdle
  OBVIOUS
<1>0. FiresLocked /\ Reader = {}
  BY OnlyLoop DEF Undisturbed
<1>1. Init => JInv /\ MInv /\ WakeInv
  BY InitJ, InitM, InitW
<1>2. JInv /\ MInv /\ WakeInv /\ [Next]_vars => (JInv /\ MInv /\ WakeInv)'
  BY <1>0, NextJ, NextM, NextW
<1>3. JInv /\ WakeInv => SleepsOnlyIdle
  <2> SUFFICES ASSUME JInv, WakeInv, job[Loop].at = "wait", ~permit, kicks = {}
               PROVE  ~Ready /\ "Normal" \notin failures
    BY DEF SleepsOnlyIdle
  <2>1. store \in StoreType /\ log \in Seq(PersistedEvent) /\ Represents(store, log)
    BY JFacts DEF CIInv, CTypeOK
  <2>2. FullMarking(store) = Now
    BY <2>1, StoreExtent DEF Now
  <2>3. mode = "Running" => NothingToFire(Now)
    BY DEF WakeInv, Rested, Resting, Cued
  <2>4. ~Ready
    BY <2>2, <2>3 DEF Ready, NothingToFire, Unbound
  <2>5. "Normal" \notin failures
    BY DEF WakeInv, Raised, Failed, Busy
  <2> QED BY <2>4, <2>5
<1> QED BY <1>1, <1>2, <1>3, PTL DEF Spec
=============================================================================
