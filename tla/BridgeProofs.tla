---------------------------- MODULE BridgeProofs ----------------------------
(***************************************************************************)
(* The durable store and the transfer between two nets (modules NatsStore  *)
(* and BridgeTransfer), for every number of tokens, terminations and       *)
(* faults.                                                                 *)
(***************************************************************************)
EXTENDS BridgeTransfer, WellFoundedInduction, TLAPS

\* The stream positions in a log.
Positions(log) == {log[i] : i \in DOMAIN log}

\* The first k positions, in order.
Whole(k) == [i \in 1..k |-> i]

Closed(S) == \A p \in S : 1..p \subseteq S

-----------------------------------------------------------------------------
(***************************************************************************)
(* Logs as sequences of positions.                                         *)
(***************************************************************************)
LEMMA Least ==
  ASSUME NEW S, S \subseteq Nat, S # {}
  PROVE  \E x \in S : \A y \in S : x <= y
<1> DEFINE Less == {ss \in Nat \X Nat : ss[1] < ss[2]}
<1>1. IsWellFoundedOn(Less, Nat)
  BY NatLessThanWellFounded DEF OpToRel
<1>2. PICK x \in S : \A y \in S : ~ (<<y, x>> \in Less)
  BY <1>1, WFMin
<1>3. \A y \in S : ~ (y < x)
  BY <1>2
<1> QED BY <1>2, <1>3

LEMMA PositionsAppend ==
  ASSUME NEW s \in Seq(Nat), NEW p \in Nat
  PROVE  Positions(Append(s, p)) = Positions(s) \cup {p}
<1> DEFINE t == Append(s, p)
<1>1. /\ Len(t) = Len(s) + 1 /\ DOMAIN t = 1..Len(t) /\ DOMAIN s = 1..Len(s)
      /\ Len(s) \in Nat /\ t[Len(s) + 1] = p
      /\ \A i \in 1..Len(s) : t[i] = s[i]
  OBVIOUS
<1> HIDE DEF t
<1>2. ASSUME NEW i \in DOMAIN t PROVE t[i] \in Positions(s) \cup {p}
  <2>1. CASE i = Len(s) + 1
    BY <1>1, <2>1
  <2>2. CASE i # Len(s) + 1
    BY <1>1, <2>2 DEF Positions
  <2> QED BY <2>1, <2>2
<1>3. ASSUME NEW i \in DOMAIN s PROVE s[i] \in Positions(t)
  BY <1>1 DEF Positions
<1>4. p \in Positions(t)
  BY <1>1 DEF Positions
<1>5. Positions(t) = Positions(s) \cup {p}
  BY <1>2, <1>3, <1>4 DEF Positions
<1> QED BY <1>5 DEF t

LEMMA PositionsType ==
  ASSUME NEW s \in Seq(Nat)
  PROVE  Positions(s) \subseteq Nat
BY DEF Positions

LEMMA WholeFacts ==
  ASSUME NEW k \in Nat
  PROVE  /\ Whole(k) \in Seq(Nat) /\ Len(Whole(k)) = k
         /\ Positions(Whole(k)) = 1..k
         /\ DOMAIN Whole(k) = 1..k /\ \A i \in 1..k : Whole(k)[i] = i
<1>1. DOMAIN Whole(k) = 1..k /\ \A i \in 1..k : Whole(k)[i] = i
  BY DEF Whole
<1>2. Whole(k) \in [1..k -> Nat]
  BY DEF Whole
<1>3. Whole(k) \in Seq(Nat) /\ Len(Whole(k)) = k
  BY <1>2
<1>4. Positions(Whole(k)) = 1..k
  BY <1>1 DEF Positions
<1> QED BY <1>1, <1>3, <1>4

LEMMA WholeAppend ==
  ASSUME NEW k \in Nat
  PROVE  Append(Whole(k), k + 1) = Whole(k + 1)
<1> DEFINE s == Whole(k)
           t == Append(s, k + 1)
           u == Whole(k + 1)
<1>1. s \in Seq(Nat) /\ Len(s) = k /\ \A i \in 1..k : s[i] = i
  BY WholeFacts
<1>2. u \in Seq(Nat) /\ Len(u) = k + 1 /\ DOMAIN u = 1..(k + 1) /\ \A i \in 1..(k + 1) : u[i] = i
  BY WholeFacts
<1> HIDE DEF s, u
<1>3. /\ t \in Seq(Nat) /\ Len(t) = k + 1 /\ DOMAIN t = 1..(k + 1) /\ t[k + 1] = k + 1
      /\ \A i \in 1..k : t[i] = s[i]
  BY <1>1
<1> HIDE DEF t
<1>4. \A i \in 1..(k + 1) : t[i] = u[i]
  <2> SUFFICES ASSUME NEW i \in 1..(k + 1) PROVE t[i] = i
    BY <1>2
  <2>1. CASE i = k + 1
    BY <1>3, <2>1
  <2>2. CASE i # k + 1
    BY <1>1, <1>3, <2>2
  <2> QED BY <2>1, <2>2
<1>5. t = u
  BY <1>2, <1>3, <1>4
<1> QED BY <1>5 DEF s, t, u

\* The events that come after position k, up to m.
After(k, m) == [i \in 1..(m - k) |-> k + i]

LEMMA AfterFacts ==
  ASSUME NEW k \in Nat, NEW m \in Nat, k <= m
  PROVE  /\ After(k, m) \in Seq(Nat) /\ Len(After(k, m)) = m - k
         /\ \A i \in 1..(m - k) : After(k, m)[i] = k + i
         /\ Positions(After(k, m)) = (k + 1)..m
<1>1. m - k \in Nat
  OBVIOUS
<1>2. After(k, m) \in [1..(m - k) -> Nat] /\ \A i \in 1..(m - k) : After(k, m)[i] = k + i
  BY DEF After
<1>3. After(k, m) \in Seq(Nat) /\ Len(After(k, m)) = m - k /\ DOMAIN After(k, m) = 1..(m - k)
  BY <1>1, <1>2
<1>4. ASSUME NEW p \in (k + 1)..m PROVE p \in Positions(After(k, m))
  <2>1. p - k \in 1..(m - k) /\ k + (p - k) = p
    OBVIOUS
  <2> QED BY <1>2, <1>3, <2>1 DEF Positions
<1>5. Positions(After(k, m)) \subseteq (k + 1)..m
  BY <1>2, <1>3 DEF Positions
<1> QED BY <1>2, <1>3, <1>4, <1>5

LEMMA ConcatFacts ==
  ASSUME NEW s \in Seq(Nat), NEW t \in Seq(Nat)
  PROVE  /\ s \o t \in Seq(Nat) /\ Len(s \o t) = Len(s) + Len(t)
         /\ \A i \in 1..Len(s) : (s \o t)[i] = s[i]
         /\ \A i \in 1..Len(t) : (s \o t)[Len(s) + i] = t[i]
         /\ Positions(s \o t) = Positions(s) \cup Positions(t)
<1> DEFINE u == s \o t
<1>1. u \in Seq(Nat) /\ Len(u) = Len(s) + Len(t)
  OBVIOUS
<1>2. \A i \in 1..Len(s) : u[i] = s[i]
  OBVIOUS
<1>3. \A i \in 1..Len(t) : u[Len(s) + i] = t[i]
  OBVIOUS
<1>4. Len(s) \in Nat /\ Len(t) \in Nat /\ DOMAIN s = 1..Len(s) /\ DOMAIN t = 1..Len(t)
         /\ DOMAIN u = 1..Len(u)
  BY <1>1
<1> HIDE DEF u
<1>5. ASSUME NEW i \in DOMAIN u PROVE u[i] \in Positions(s) \cup Positions(t)
  <2>1. CASE i <= Len(s)
    BY <1>1, <1>2, <1>4, <2>1 DEF Positions
  <2>2. CASE i > Len(s)
    <3>1. i - Len(s) \in 1..Len(t) /\ Len(s) + (i - Len(s)) = i
      BY <1>1, <1>4, <2>2
    <3>2. u[i] = t[i - Len(s)]
      BY <1>3, <3>1
    <3> QED BY <1>4, <3>1, <3>2 DEF Positions
  <2> QED BY <1>1, <1>4, <2>1, <2>2
<1>6. ASSUME NEW i \in DOMAIN s PROVE s[i] \in Positions(u)
  <2>1. i \in DOMAIN u /\ u[i] = s[i]
    BY <1>1, <1>2, <1>4
  <2> QED BY <2>1 DEF Positions
<1>7. ASSUME NEW i \in DOMAIN t PROVE t[i] \in Positions(u)
  <2>1. Len(s) + i \in DOMAIN u /\ u[Len(s) + i] = t[i]
    BY <1>1, <1>3, <1>4
  <2> QED BY <2>1 DEF Positions
<1>8. Positions(u) = Positions(s) \cup Positions(t)
  BY <1>5, <1>6, <1>7 DEF Positions
<1> QED BY <1>1, <1>2, <1>3, <1>8 DEF u

LEMMA WholeAfter ==
  ASSUME NEW k \in Nat, NEW m \in Nat, k <= m
  PROVE  Whole(k) \o After(k, m) = Whole(m)
<1> DEFINE s == Whole(k)
           t == After(k, m)
           u == s \o t
           v == Whole(m)
<1>1. s \in Seq(Nat) /\ Len(s) = k /\ \A i \in 1..k : s[i] = i
  BY WholeFacts
<1>2. t \in Seq(Nat) /\ Len(t) = m - k /\ \A i \in 1..(m - k) : t[i] = k + i
  BY AfterFacts
<1>3. v \in Seq(Nat) /\ Len(v) = m /\ \A i \in 1..m : v[i] = i
  BY WholeFacts
<1> HIDE DEF s, t, v
<1>4. /\ u \in Seq(Nat) /\ Len(u) = Len(s) + Len(t)
      /\ \A i \in 1..Len(s) : u[i] = s[i]
      /\ \A i \in 1..Len(t) : u[Len(s) + i] = t[i]
  BY <1>1, <1>2, ConcatFacts
<1> HIDE DEF u
<1>5. Len(u) = m
  BY <1>1, <1>2, <1>4
<1>6. ASSUME NEW i \in 1..m PROVE u[i] = v[i]
  <2>1. CASE i <= k
    BY <1>1, <1>3, <1>4, <2>1
  <2>2. CASE i > k
    <3>1. i - k \in 1..(m - k) /\ k + (i - k) = i
      BY <2>2
    <3> QED BY ZenonT(60), <1>1, <1>2, <1>3, <1>4, <3>1
  <2> QED BY <2>1, <2>2
<1>7. DOMAIN u = 1..m /\ DOMAIN v = 1..m
  BY <1>3, <1>4, <1>5
<1>8. u = v
  BY <1>3, <1>4, <1>6, <1>7
<1> QED BY <1>8 DEF s, t, u, v

\* last_stream_seq of a log is the highest position in it.
LEMMA StreamSeqFacts ==
  ASSUME NEW s \in Seq(Nat), NEW m \in Nat, \A p \in Positions(s) : p <= m
  PROVE  /\ StreamSeq(s) \in Positions(s) \cup {0}
         /\ StreamSeq(s) \in Nat
         /\ \A p \in Positions(s) : p <= StreamSeq(s)
<1> DEFINE U == {k \in Nat : \A p \in Positions(s) : p <= k}
           R == {0} \cup {s[i] : i \in DOMAIN s}
<1>1. Positions(s) \subseteq Nat
  BY PositionsType
<1>2. PICK x \in U : \A y \in U : x <= y
  <2>1. m \in U /\ U \subseteq Nat
    OBVIOUS
  <2> HIDE DEF U
  <2> QED BY <2>1, Least
<1>3. x \in Positions(s) \cup {0}
  <2> SUFFICES ASSUME x # 0, x \notin Positions(s) PROVE FALSE
    OBVIOUS
  <2>1. x - 1 \in Nat /\ ~ (x <= x - 1)
    OBVIOUS
  <2>2. \A p \in Positions(s) : p <= x - 1
    BY <1>1
  <2>3. x - 1 \in U
    BY <2>1, <2>2
  <2> QED BY <1>2, <2>1, <2>3
<1>4. x \in R /\ \A i \in DOMAIN s : s[i] <= x
  BY <1>3 DEF Positions
<1>5. StreamSeq(s) = CHOOSE k \in R : \A i \in DOMAIN s : s[i] <= k
  BY DEF StreamSeq
<1> HIDE DEF R
<1>6. StreamSeq(s) \in R /\ \A i \in DOMAIN s : s[i] <= StreamSeq(s)
  BY <1>4, <1>5
<1> QED BY <1>1, <1>6 DEF Positions, R

LEMMA StreamSeqWhole ==
  ASSUME NEW k \in Nat
  PROVE  StreamSeq(Whole(k)) = k
<1>1. Whole(k) \in Seq(Nat) /\ Positions(Whole(k)) = 1..k
  BY WholeFacts
<1>2. /\ StreamSeq(Whole(k)) \in (1..k) \cup {0}
      /\ \A p \in 1..k : p <= StreamSeq(Whole(k))
  <2>1. \A p \in Positions(Whole(k)) : p <= k
    BY <1>1
  <2> QED BY <1>1, <2>1, StreamSeqFacts
<1>3. CASE k = 0
  BY <1>2, <1>3
<1>4. CASE k # 0
  <2>1. k \in 1..k
    BY <1>4
  <2> QED BY <1>2, <2>1
<1> QED BY <1>3, <1>4

-----------------------------------------------------------------------------
(***************************************************************************)
(* The invariant of one net's store.                                       *)
(***************************************************************************)
Bounded(n) ==
    /\ write[n].next <= Len(stream[n])
    /\ \A i \in DOMAIN stream[n] : stream[n][i].sequence < i
    /\ \A p \in Positions(cache[n]) : 1 <= p /\ p <= Len(stream[n])
    /\ cursor[n] <= Len(stream[n]) /\ lastSeq[n] <= Len(stream[n])
    /\ snapshot[n] # None =>
          /\ \A p \in Positions(snapshot[n].cache) : 1 <= p /\ p <= Len(stream[n])
          /\ snapshot[n].upTo <= Len(stream[n])

\* Nothing is in memory of a net that is down.
Empty(n) ==
    ~up[n] => /\ cache[n] = << >> /\ cursor[n] = 0 /\ lastSeq[n] = 0 /\ applied[n] = 0
              /\ write[n] = [next |-> 0, last |-> None]

\* Whatever is redelivered or reconnected, a cache that was never reset has all
\* that comes before an event it has; so has its snapshot.
Covered(n) ==
    "Reset" \notin doubt[n] =>
        /\ Closed(Positions(cache[n]))
        /\ cursor[n] # 0 => cursor[n] \in Positions(cache[n])
        /\ lastSeq[n] # 0 => lastSeq[n] \in Positions(cache[n])
        /\ snapshot[n] # None =>
              /\ Closed(Positions(snapshot[n].cache))
              /\ \A p \in Positions(snapshot[n].cache) : p <= snapshot[n].upTo
              /\ snapshot[n].upTo # 0 => snapshot[n].upTo \in Positions(snapshot[n].cache)
        /\ applied[n] # 0 => \E p \in Positions(cache[n]) : stream[n][p].sequence + 1 = applied[n]

InOrder(n) ==
    doubt[n] \cap {"Redelivered", "Reset"} = {} =>
        /\ cache[n] = Whole(cursor[n]) /\ lastSeq[n] = cursor[n]
        /\ snapshot[n] # None => snapshot[n].cache = Whole(snapshot[n].upTo)

\* The sequences never go back, nor does the writer.
Rising(n) ==
    doubt[n] \cap {"Replayed", "Reset"} = {} =>
        /\ \A p, q \in DOMAIN stream[n] :
              p <= q => stream[n][p].sequence <= stream[n][q].sequence
        /\ up[n] => \A p \in DOMAIN stream[n] : stream[n][p].sequence <= write[n].next

\* No ack was lost either: the writer's next sequence is new.
Ahead(n) ==
    up[n] /\ doubt[n] \cap {"AckLost", "Replayed", "Reset"} = {} =>
        \A p \in DOMAIN stream[n] : stream[n][p].sequence < write[n].next

AtTip(n) ==
    up[n] /\ doubt[n] = {} =>
        IF stream[n] = << >> THEN write[n] = [next |-> 0, last |-> None]
        ELSE write[n] = [next |-> stream[n][Len(stream[n])].sequence + 1,
                         last |-> Len(stream[n])]

Chained(n) ==
    \A i \in DOMAIN stream[n] :
        stream[n][i].sound =>
            IF i = 1 THEN stream[n][i].sequence = 0 /\ stream[n][i].previousHash = None
            ELSE /\ stream[n][i].sequence = stream[n][i - 1].sequence + 1
                 /\ stream[n][i].previousHash = i - 1

Logged(n) ==
    Empty(n) /\ Covered(n) /\ InOrder(n) /\ Rising(n) /\ Ahead(n) /\ AtTip(n) /\ Chained(n)

LEMMA StoreTypes ==
  ASSUME StoreTypeOK, NEW n \in Net
  PROVE  /\ stream[n] \in Seq(Event) /\ Len(stream[n]) \in Nat
         /\ DOMAIN stream[n] = 1..Len(stream[n])
         /\ \A i \in DOMAIN stream[n] : stream[n][i] \in Event /\ stream[n][i].sequence \in Nat
         /\ write[n].next \in Nat /\ write[n].last \in Nat \cup {None}
         /\ write[n] = [next |-> write[n].next, last |-> write[n].last]
         /\ applied[n] \in Nat /\ cursor[n] \in Nat /\ lastSeq[n] \in Nat
         /\ cache[n] \in Seq(Nat) /\ up[n] \in BOOLEAN
         /\ snapshot[n] # None => snapshot[n].cache \in Seq(Nat) /\ snapshot[n].upTo \in Nat
         /\ doubt[n] \subseteq Doubts
<1>1. stream[n] \in Seq(Event)
  BY DEF StoreTypeOK
<1>2. \A e \in Event : e.sequence \in Nat
  BY DEF Event
<1>3. /\ Len(stream[n]) \in Nat /\ DOMAIN stream[n] = 1..Len(stream[n])
      /\ \A i \in DOMAIN stream[n] : stream[n][i] \in Event
  BY <1>1
<1>4. write[n] \in [next : Nat, last : Nat \cup {None}]
  BY DEF StoreTypeOK
<1>5. /\ write[n].next \in Nat /\ write[n].last \in Nat \cup {None}
      /\ write[n] = [next |-> write[n].next, last |-> write[n].last]
  BY <1>4
<1>6. snapshot[n] \in Snapshot \cup {None}
  BY DEF StoreTypeOK
<1>7. snapshot[n] # None => snapshot[n].cache \in Seq(Nat) /\ snapshot[n].upTo \in Nat
  BY <1>6 DEF Snapshot
<1> QED BY <1>1, <1>2, <1>3, <1>5, <1>7 DEF StoreTypeOK

\* write_cursor of a log is one beyond its highest sequence.
LEMMA NextAfterFacts ==
  ASSUME StoreTypeOK, NEW n \in Net, Bounded(n), NEW log \in Seq(Nat),
         \A p \in Positions(log) : 1 <= p /\ p <= Len(stream[n])
  PROVE  /\ NextAfter(n, log) \in Nat /\ NextAfter(n, log) <= Len(stream[n])
         /\ \A p \in Positions(log) : stream[n][p].sequence < NextAfter(n, log)
         /\ \/ NextAfter(n, log) = 0
            \/ \E p \in Positions(log) : stream[n][p].sequence + 1 = NextAfter(n, log)
<1> DEFINE sq(p) == stream[n][p].sequence
           U == {k \in Nat : \A p \in Positions(log) : sq(p) < k}
           R == 0..(Len(stream[n]) + 1)
           Q(m) == /\ \A i \in DOMAIN log : stream[n][log[i]].sequence < m
                   /\ m = 0 \/ \E i \in DOMAIN log : stream[n][log[i]].sequence + 1 = m
<1>1. Len(stream[n]) \in Nat /\ Positions(log) \subseteq Nat
  BY StoreTypes, PositionsType
<1>2. ASSUME NEW p \in Positions(log)
      PROVE sq(p) \in Nat /\ sq(p) + 1 <= Len(stream[n])
  <2>1. p \in Nat /\ 1 <= p /\ p <= Len(stream[n])
    BY <1>1
  <2>2. p \in DOMAIN stream[n]
    BY <2>1, StoreTypes
  <2>3. sq(p) \in Nat /\ sq(p) < p
    BY <2>2, StoreTypes DEF Bounded
  <2> QED BY <1>1, <2>1, <2>3
<1> HIDE DEF sq
<1>3. PICK x \in U : \A y \in U : x <= y
  <2>1. Len(stream[n]) \in U /\ U \subseteq Nat
    BY <1>1, <1>2
  <2> HIDE DEF U
  <2> QED BY <2>1, Least
<1>4. x <= Len(stream[n])
  <2>1. Len(stream[n]) \in U
    BY <1>1, <1>2
  <2> HIDE DEF U
  <2> QED BY <1>3, <2>1
<1>5. x = 0 \/ \E p \in Positions(log) : sq(p) + 1 = x
  <2> SUFFICES ASSUME x # 0, \A p \in Positions(log) : sq(p) + 1 # x PROVE FALSE
    OBVIOUS
  <2>1. x \in Nat /\ x - 1 \in Nat /\ ~ (x <= x - 1)
    OBVIOUS
  <2>2. \A p \in Positions(log) : sq(p) < x - 1
    BY <1>2, <2>1
  <2>3. x - 1 \in U
    BY <2>1, <2>2
  <2> HIDE DEF U
  <2> QED BY <1>3, <2>1, <2>3
<1>6. Q(x) /\ x \in R
  BY <1>1, <1>4, <1>5 DEF Positions, sq
<1>7. NextAfter(n, log) = CHOOSE m \in R : Q(m)
  BY DEF NextAfter
<1>8. NextAfter(n, log) \in R /\ Q(NextAfter(n, log))
  <2> HIDE DEF Q, R
  <2> QED BY <1>6, <1>7
<1>9. NextAfter(n, log) \in Nat
  BY <1>1, <1>8
<1>10. /\ \A p \in Positions(log) : sq(p) < NextAfter(n, log)
       /\ NextAfter(n, log) = 0 \/ \E p \in Positions(log) : sq(p) + 1 = NextAfter(n, log)
  BY <1>8 DEF Positions, sq
<1>11. NextAfter(n, log) <= Len(stream[n])
  BY <1>1, <1>2, <1>9, <1>10
<1> QED BY <1>9, <1>10, <1>11 DEF sq

\* A wake finds a log to hydrate from, up to the end of the stream.
LEMMA HydratedFacts ==
  ASSUME StoreTypeOK, NEW n \in Net, Bounded(n)
  PROVE  /\ Hydrated(n) \in Seq(Nat)
         /\ \A p \in Positions(Hydrated(n)) : 1 <= p /\ p <= Len(stream[n])
         /\ Covered(n) /\ "Reset" \notin doubt[n] =>
               Positions(Hydrated(n)) = 1..Len(stream[n])
         /\ InOrder(n) /\ doubt[n] \cap {"Redelivered", "Reset"} = {} =>
               Hydrated(n) = Whole(Len(stream[n]))
<1> DEFINE from == IF snapshot[n] = None THEN 0 ELSE snapshot[n].upTo
           base == IF snapshot[n] = None THEN << >> ELSE snapshot[n].cache
           len == Len(stream[n])
<1>1. len \in Nat
  BY StoreTypes
<1>2. from \in Nat /\ from <= len /\ base \in Seq(Nat)
         /\ \A p \in Positions(base) : p \in Nat /\ 1 <= p /\ p <= len
  <2>1. CASE snapshot[n] = None
    <3>1. Positions(<< >>) = {}
      BY DEF Positions
    <3> QED BY <1>1, <2>1, <3>1
  <2>2. CASE snapshot[n] # None
    BY <2>2, StoreTypes, PositionsType DEF Bounded
  <2> QED BY <2>1, <2>2
<1>3. Hydrated(n) = base \o After(from, len)
  BY DEF Hydrated, After
<1>4. Covered(n) /\ "Reset" \notin doubt[n] => 1..from \subseteq Positions(base)
  <2>1. CASE snapshot[n] = None
    BY <2>1
  <2>2. CASE snapshot[n] # None
    BY <1>2, <2>2 DEF Covered, Closed
  <2> QED BY <2>1, <2>2
<1>5. InOrder(n) /\ doubt[n] \cap {"Redelivered", "Reset"} = {} => base = Whole(from)
  <2>1. CASE snapshot[n] = None
    <3>1. Whole(0) = << >>
      BY WholeFacts
    <3> QED BY <2>1, <3>1
  <2>2. CASE snapshot[n] # None
    BY <2>2 DEF InOrder
  <2> QED BY <2>1, <2>2
<1> HIDE DEF from, base, len
<1>6. After(from, len) \in Seq(Nat) /\ Positions(After(from, len)) = (from + 1)..len
  BY <1>1, <1>2, AfterFacts
<1>7. /\ Hydrated(n) \in Seq(Nat)
      /\ Positions(Hydrated(n)) = Positions(base) \cup ((from + 1)..len)
  BY <1>2, <1>3, <1>6, ConcatFacts
<1>8. \A p \in Positions(Hydrated(n)) : 1 <= p /\ p <= len
  BY <1>1, <1>2, <1>7
<1>9. ASSUME 1..from \subseteq Positions(base) PROVE Positions(Hydrated(n)) = 1..len
  <2>1. Positions(Hydrated(n)) \subseteq 1..len
    BY <1>1, <1>2, <1>7
  <2>2. \A p \in 1..len : p \in 1..from \/ p \in (from + 1)..len
    BY <1>1, <1>2
  <2> QED BY <1>7, <1>9, <2>1, <2>2
<1>10. base = Whole(from) => Hydrated(n) = Whole(len)
  BY <1>1, <1>2, <1>3, WholeAfter
<1> QED BY <1>4, <1>5, <1>7, <1>8, <1>9, <1>10 DEF len

-----------------------------------------------------------------------------
(***************************************************************************)
(* The steps of the store keep its types and bounds.                       *)
(***************************************************************************)
\* Action: the store of a net is left alone.
Alone(m) ==
    /\ stream'[m] = stream[m] /\ write'[m] = write[m] /\ applied'[m] = applied[m]
    /\ cursor'[m] = cursor[m] /\ lastSeq'[m] = lastSeq[m] /\ cache'[m] = cache[m]
    /\ up'[m] = up[m] /\ snapshot'[m] = snapshot[m] /\ doubt'[m] = doubt[m]

StoreInv == StoreTypeOK /\ \A n \in Net : Bounded(n)

LEMMA AloneBounded ==
  ASSUME NEW m \in Net, Bounded(m), Alone(m)
  PROVE  Bounded(m)'
BY DEF Bounded, Alone, Positions

LEMMA AloneLogged ==
  ASSUME NEW m \in Net, Logged(m), Alone(m)
  PROVE  Logged(m)'
<1>1. Empty(m)'
  BY DEF Logged, Empty, Alone
<1>2. Covered(m)'
  BY DEF Logged, Covered, Alone, Positions, Closed
<1>3. InOrder(m)'
  BY DEF Logged, InOrder, Alone, Whole
<1>4. Rising(m)' /\ Ahead(m)' /\ AtTip(m)' /\ Chained(m)'
  BY DEF Logged, Rising, Ahead, AtTip, Chained, Alone
<1> QED BY <1>1, <1>2, <1>3, <1>4 DEF Logged

LEMMA TipTypes ==
  ASSUME StoreTypeOK, NEW n \in Net
  PROVE  TipFor(n) \in Nat \cup {None} /\ \A s \in Seq(Nat) : TipOf(s) \in Nat \cup {None}
<1>1. \A s \in Seq(Nat) : TipOf(s) \in Nat \cup {None}
  <2> SUFFICES ASSUME NEW s \in Seq(Nat), s # << >> PROVE s[Len(s)] \in Nat
    BY DEF TipOf
  <2>1. Len(s) \in DOMAIN s
    OBVIOUS
  <2> QED BY <2>1
<1>2. TipOf(cache[n]) \in Nat \cup {None}
  BY <1>1, StoreTypes
<1> QED BY <1>1, <1>2, StoreTypes DEF TipFor

\* An event is stored at the end of the stream of n, acked or not.
LEMMA StoreEventInv ==
  ASSUME StoreInv, NEW n \in Net, NEW kind \in Kind, NEW t \in Token,
         NEW id \in DedupId \cup {NoId},
         \/ PublishStored(n, kind, t, id)
         \/ PublishAckLost(n, kind, t, id)
  PROVE  StoreInv'
<1> DEFINE e == Mint(n, kind, t, id)
           s == stream[n]
<1>0. StoreTypeOK /\ \A m \in Net : Bounded(m)
  BY DEF StoreInv
<1>1. e \in Event /\ e.sequence = write[n].next
  <2>1. (doubt[n] = {}) \in BOOLEAN
    OBVIOUS
  <2>2. TipFor(n) \in Nat \cup {None} /\ write[n].next \in Nat
    BY <1>0, TipTypes, StoreTypes
  <2> QED BY <2>1, <2>2 DEF Mint, Event
<1>2. /\ stream' = [stream EXCEPT ![n] = Append(s, e)]
      /\ window' = [window EXCEPT ![n] = @ \cup MsgIds(id)]
  BY DEF PublishStored, PublishAckLost, StoreEvent
<1> HIDE DEF e
<1>3. s \in Seq(Event) /\ Len(s) \in Nat /\ DOMAIN s = 1..Len(s)
  BY <1>0, StoreTypes
<1> DEFINE s2 == Append(s, e)
<1>4. /\ s2 \in Seq(Event) /\ Len(s2) = Len(s) + 1 /\ DOMAIN s2 = 1..(Len(s) + 1)
      /\ s2[Len(s) + 1] = e /\ \A i \in 1..Len(s) : s2[i] = s[i]
  BY <1>1, <1>3
<1> HIDE DEF s2
<1>5. stream' = [stream EXCEPT ![n] = s2]
  BY <1>2 DEF s2
<1>6. stream'[n] = s2 /\ \A m \in Net : m # n => stream'[m] = stream[m]
  BY <1>0, <1>5 DEF StoreTypeOK
<1>7. /\ \A m \in Net : m # n => write'[m] = write[m]
      /\ write'[n] \in [next : Nat, last : Nat \cup {None}]
      /\ write'[n].next <= write[n].next + 1
      /\ write' \in [Net -> [next : Nat, last : Nat \cup {None}]]
  <2> DEFINE w2 == IF PublishStored(n, kind, t, id)
                   THEN [next |-> write[n].next + 1, last |-> Len(s) + 1]
                   ELSE [write[n] EXCEPT !.last = TipFor(n)]
  <2>0. write[n].next \in Nat /\ TipFor(n) \in Nat \cup {None}
            /\ write[n] \in [next : Nat, last : Nat \cup {None}]
    BY <1>0, TipTypes, StoreTypes DEF StoreTypeOK
  <2>1. w2 \in [next : Nat, last : Nat \cup {None}] /\ w2.next <= write[n].next + 1
    BY <1>3, <2>0
  <2>2. write' = [write EXCEPT ![n] = w2]
    BY DEF PublishStored, PublishAckLost, KeepTip
  <2> HIDE DEF w2
  <2> QED BY <1>0, <2>1, <2>2 DEF StoreTypeOK
<1>8. /\ UNCHANGED <<applied, cursor, lastSeq, cache, up, snapshot>>
      /\ doubt' = doubt \/ doubt' = [doubt EXCEPT ![n] = @ \cup {"AckLost"}]
  BY DEF PublishStored, PublishAckLost
<1>9. doubt' \in [Net -> SUBSET Doubts] /\ \A m \in Net : m # n => doubt'[m] = doubt[m]
  BY <1>0, <1>8 DEF StoreTypeOK, Doubts
<1>10. stream' \in [Net -> Seq(Event)]
  BY <1>0, <1>4, <1>5 DEF StoreTypeOK
<1>11. window' \in [Net -> SUBSET DedupId]
  <2>1. MsgIds(id) \subseteq DedupId
    BY DEF MsgIds
  <2> QED BY <1>0, <1>2, <2>1 DEF StoreTypeOK
<1>12. StoreTypeOK'
  BY <1>0, <1>7, <1>8, <1>9, <1>10, <1>11 DEF StoreTypeOK
<1>13. ASSUME NEW m \in Net, m # n PROVE Bounded(m)'
  BY <1>0, <1>6, <1>7, <1>8, <1>9, <1>13, AloneBounded DEF Alone
<1>14. Bounded(n)'
  <2>0. /\ write[n].next \in Nat /\ write[n].next <= Len(s) /\ write'[n].next \in Nat
        /\ \A i \in 1..Len(s) : s[i].sequence < i
        /\ \A p \in Positions(cache[n]) : p \in Nat /\ 1 <= p /\ p <= Len(s)
        /\ cursor[n] \in Nat /\ lastSeq[n] \in Nat
        /\ cursor[n] <= Len(s) /\ lastSeq[n] <= Len(s)
    BY <1>0, <1>3, <1>7, StoreTypes, PositionsType DEF Bounded
  <2>1. write'[n].next <= Len(stream'[n])
    BY <1>3, <1>4, <1>6, <1>7, <2>0
  <2>2. \A i \in DOMAIN stream'[n] : stream'[n][i].sequence < i
    <3> SUFFICES ASSUME NEW i \in 1..(Len(s) + 1) PROVE s2[i].sequence < i
      BY <1>4, <1>6
    <3>1. CASE i = Len(s) + 1
      BY <1>1, <1>3, <1>4, <2>0, <3>1
    <3>2. CASE i # Len(s) + 1
      BY <1>3, <1>4, <2>0, <3>2
    <3> QED BY <3>1, <3>2
  <2>3. \A p \in Positions(cache[n]) : 1 <= p /\ p <= Len(s2)
    BY <1>3, <1>4, <2>0
  <2>4. cursor[n] <= Len(s2) /\ lastSeq[n] <= Len(s2)
    BY <1>3, <1>4, <2>0
  <2>5. ASSUME snapshot[n] # None
        PROVE  /\ \A p \in Positions(snapshot[n].cache) : 1 <= p /\ p <= Len(s2)
               /\ snapshot[n].upTo <= Len(s2)
    <3>1. snapshot[n].cache \in Seq(Nat) /\ snapshot[n].upTo \in Nat
      BY <1>0, <2>5, StoreTypes
    <3>2. \A p \in Positions(snapshot[n].cache) : p \in Nat
      BY <3>1, PositionsType
    <3>3. /\ \A p \in Positions(snapshot[n].cache) : 1 <= p /\ p <= Len(stream[n])
          /\ snapshot[n].upTo <= Len(stream[n])
      BY <1>0, <2>5 DEF Bounded
    <3> QED BY <1>3, <1>4, <3>1, <3>2, <3>3
  <2>6. cache' = cache /\ cursor' = cursor /\ lastSeq' = lastSeq /\ snapshot' = snapshot
    BY <1>8
  <2> QED BY <1>6, <2>1, <2>2, <2>3, <2>4, <2>5, <2>6 DEF Bounded
<1> QED BY <1>12, <1>13, <1>14 DEF StoreInv

\* The publish failed or was a duplicate.
LEMMA KeepTipInv ==
  ASSUME StoreInv, NEW n \in Net, KeepTip(n),
         UNCHANGED <<stream, window, applied, cursor, lastSeq, cache, up, snapshot, doubt>>
  PROVE  StoreInv'
<1>0. StoreTypeOK /\ \A m \in Net : Bounded(m)
  BY DEF StoreInv
<1> DEFINE w2 == [write[n] EXCEPT !.last = TipFor(n)]
<1>1. /\ w2 \in [next : Nat, last : Nat \cup {None}] /\ w2.next = write[n].next
      /\ write' = [write EXCEPT ![n] = w2]
  BY <1>0, TipTypes DEF StoreTypeOK, KeepTip
<1> HIDE DEF w2
<1>2. /\ write' \in [Net -> [next : Nat, last : Nat \cup {None}]]
      /\ \A m \in Net : write'[m].next = write[m].next
  BY <1>0, <1>1 DEF StoreTypeOK
<1>3. StoreTypeOK'
  BY <1>0, <1>2 DEF StoreTypeOK
<1>4. \A m \in Net : Bounded(m)'
  BY <1>0, <1>2 DEF Bounded
<1> QED BY <1>3, <1>4 DEF StoreInv

\* The consumer applies an event: the next one, or one again.
LEMMA ApplyInv ==
  ASSUME StoreInv, NEW n \in Net, NEW pos \in Nat, 1 <= pos, pos <= Len(stream[n]),
         Apply(n, pos),
         \/ cursor' = [cursor EXCEPT ![n] = pos] /\ doubt' = doubt
         \/ cursor' = cursor /\ doubt' = [doubt EXCEPT ![n] = @ \cup {"Redelivered"}],
         UNCHANGED <<stream, window, write, up, snapshot>>
  PROVE  StoreInv'
<1>0. StoreTypeOK /\ \A m \in Net : Bounded(m)
  BY DEF StoreInv
<1>1. cache[n] \in Seq(Nat) /\ stream[n][pos].sequence \in Nat /\ Len(stream[n]) \in Nat
  <2>1. pos \in DOMAIN stream[n]
    BY <1>0, StoreTypes
  <2> QED BY <1>0, <2>1, StoreTypes
<1> DEFINE c2 == Append(cache[n], pos)
           a2 == stream[n][pos].sequence + 1
<1>2. c2 \in Seq(Nat) /\ a2 \in Nat /\ Positions(c2) = Positions(cache[n]) \cup {pos}
  BY <1>1, PositionsAppend
<1>3. /\ cache' = [cache EXCEPT ![n] = c2] /\ applied' = [applied EXCEPT ![n] = a2]
      /\ lastSeq' = [lastSeq EXCEPT ![n] = pos]
  BY DEF Apply
<1> HIDE DEF c2, a2
<1>4. StoreTypeOK'
  <2>1. /\ cache' \in [Net -> Seq(Nat)] /\ applied' \in [Net -> Nat]
        /\ lastSeq' \in [Net -> Nat] /\ cursor' \in [Net -> Nat]
    BY <1>0, <1>2, <1>3 DEF StoreTypeOK
  <2>2. doubt' \in [Net -> SUBSET Doubts]
    BY ZenonT(60), <1>0 DEF StoreTypeOK, Doubts
  <2> QED BY <1>0, <2>1, <2>2 DEF StoreTypeOK
<1>5. ASSUME NEW m \in Net, m # n PROVE Bounded(m)'
  <2>1. Alone(m)
    BY <1>0, <1>3, <1>5 DEF Alone, StoreTypeOK
  <2> QED BY <1>0, <2>1, AloneBounded
<1>6. Bounded(n)'
  <2>1. cache'[n] = c2 /\ lastSeq'[n] = pos /\ (cursor'[n] = pos \/ cursor'[n] = cursor[n])
    BY <1>0, <1>3 DEF StoreTypeOK
  <2> QED BY <1>0, <1>2, <2>1 DEF Bounded
<1> QED BY <1>4, <1>5, <1>6 DEF StoreInv

LEMMA ReconnectInv ==
  ASSUME StoreInv, NEW n \in Net, Reconnect(n)
  PROVE  StoreInv'
<1>0. StoreTypeOK /\ \A m \in Net : Bounded(m)
  BY DEF StoreInv
<1>1. StoreTypeOK'
  BY <1>0 DEF StoreTypeOK, Reconnect
<1>2. \A m \in Net : cursor'[m] = cursor[m] \/ cursor'[m] = lastSeq[m]
  BY <1>0 DEF StoreTypeOK, Reconnect
<1>3. \A m \in Net : Bounded(m)'
  BY <1>0, <1>2 DEF Bounded, Reconnect
<1> QED BY <1>1, <1>3 DEF StoreInv

LEMMA ResetInv ==
  ASSUME StoreInv, NEW n \in Net, ResetStore(n)
  PROVE  StoreInv'
<1>0. StoreTypeOK /\ \A m \in Net : Bounded(m)
  BY DEF StoreInv
<1> DEFINE w2 == [next |-> 0, last |-> None]
           d2 == IF cursor[n] = 0 /\ stream[n] = << >> THEN doubt[n] ELSE doubt[n] \cup {"Reset"}
<1>1. w2 \in [next : Nat, last : Nat \cup {None}] /\ d2 \in SUBSET Doubts /\ w2.next = 0
  BY <1>0 DEF StoreTypeOK, Doubts
<1>2. /\ cache' = [cache EXCEPT ![n] = << >>] /\ write' = [write EXCEPT ![n] = w2]
      /\ doubt' = [doubt EXCEPT ![n] = d2]
      /\ UNCHANGED <<stream, window, applied, cursor, lastSeq, up, snapshot>>
  BY DEF ResetStore
<1> HIDE DEF w2, d2
<1>3. << >> \in Seq(Nat) /\ Positions(<< >>) = {}
  BY DEF Positions
<1>4. StoreTypeOK'
  BY <1>0, <1>1, <1>2, <1>3 DEF StoreTypeOK
<1>5. ASSUME NEW m \in Net, m # n PROVE Bounded(m)'
  <2>1. Alone(m)
    BY <1>0, <1>2, <1>5 DEF Alone, StoreTypeOK
  <2> QED BY <1>0, <2>1, AloneBounded
<1>6. Bounded(n)'
  <2>1. cache'[n] = << >> /\ write'[n].next = 0 /\ Len(stream[n]) \in Nat
    BY <1>0, <1>1, <1>2, StoreTypes DEF StoreTypeOK
  <2> QED BY <1>0, <1>2, <1>3, <2>1 DEF Bounded
<1> QED BY <1>4, <1>5, <1>6 DEF StoreInv

\* Nets leave the memory, one of them with a snapshot.
LEMMA ForgottenInv ==
  ASSUME StoreInv, NEW nets \in SUBSET Net, Forgotten(nets),
         \/ snapshot' = snapshot
         \/ \E n \in Net : snapshot' = [snapshot EXCEPT ![n] =
                              [cache |-> cache[n], upTo |-> StreamSeq(cache[n])]]
  PROVE  StoreInv'
<1>0. StoreTypeOK /\ \A m \in Net : Bounded(m)
  BY DEF StoreInv
<1>1. /\ write' \in [Net -> [next : Nat, last : Nat \cup {None}]]
      /\ applied' \in [Net -> Nat] /\ cursor' \in [Net -> Nat]
      /\ lastSeq' \in [Net -> Nat] /\ cache' \in [Net -> Seq(Nat)]
      /\ up' \in [Net -> BOOLEAN]
  <2>0. << >> \in Seq(Nat) /\ [next |-> 0, last |-> None] \in [next : Nat, last : Nat \cup {None}]
    OBVIOUS
  <2>1. /\ write' \in [Net -> [next : Nat, last : Nat \cup {None}]]
        /\ applied' \in [Net -> Nat] /\ cursor' \in [Net -> Nat]
        /\ lastSeq' \in [Net -> Nat]
    BY <1>0, <2>0 DEF StoreTypeOK, Forgotten
  <2>2. cache' \in [Net -> Seq(Nat)]
    BY <1>0, <2>0 DEF StoreTypeOK, Forgotten
  <2>3. up' \in [Net -> BOOLEAN]
    BY DEF Forgotten
  <2> QED BY <2>1, <2>2, <2>3
<1>2. ASSUME NEW m \in Net
      PROVE  /\ StreamSeq(cache[m]) \in Nat /\ StreamSeq(cache[m]) <= Len(stream[m])
             /\ [cache |-> cache[m], upTo |-> StreamSeq(cache[m])] \in Snapshot
  <2>1. cache[m] \in Seq(Nat) /\ Len(stream[m]) \in Nat
    BY <1>0, StoreTypes
  <2>2. \A p \in Positions(cache[m]) : p <= Len(stream[m])
    BY <1>0 DEF Bounded
  <2>3. StreamSeq(cache[m]) \in Positions(cache[m]) \cup {0} /\ StreamSeq(cache[m]) \in Nat
    BY <2>1, <2>2, StreamSeqFacts
  <2> QED BY <2>1, <2>2, <2>3 DEF Snapshot
<1>3. snapshot' \in [Net -> Snapshot \cup {None}]
  <2>1. ASSUME NEW n \in Net, snapshot' = [snapshot EXCEPT ![n] =
                              [cache |-> cache[n], upTo |-> StreamSeq(cache[n])]]
        PROVE  snapshot' \in [Net -> Snapshot \cup {None}]
    BY <1>0, <1>2, <2>1 DEF StoreTypeOK
  <2> QED BY <1>0, <2>1 DEF StoreTypeOK
<1>4. StoreTypeOK'
  BY <1>0, <1>1, <1>3 DEF StoreTypeOK, Forgotten
<1>5. ASSUME NEW m \in Net PROVE Bounded(m)'
  <2>1. /\ write'[m].next = write[m].next \/ write'[m].next = 0
        /\ cursor'[m] = cursor[m] \/ cursor'[m] = 0
        /\ lastSeq'[m] = lastSeq[m] \/ lastSeq'[m] = 0
        /\ cache'[m] = cache[m] \/ cache'[m] = << >>
        /\ stream'[m] = stream[m] /\ Len(stream[m]) \in Nat
    BY <1>0, StoreTypes DEF Forgotten
  <2>2. \A p \in Positions(cache'[m]) : p \in Positions(cache[m])
    BY <2>1 DEF Positions
  <2>3. \/ snapshot'[m] = snapshot[m]
        \/ snapshot'[m].cache = cache[m] /\ snapshot'[m].upTo = StreamSeq(cache[m])
    BY <1>0 DEF StoreTypeOK
  <2>4. snapshot'[m] # None =>
          /\ \A p \in Positions(snapshot'[m].cache) : 1 <= p /\ p <= Len(stream[m])
          /\ snapshot'[m].upTo <= Len(stream[m])
    BY <1>0, <1>2, <2>3 DEF Bounded
  <2> QED BY <1>0, <2>1, <2>2, <2>4 DEF Bounded
<1> QED BY <1>4, <1>5 DEF StoreInv

LEMMA WakeInv ==
  ASSUME StoreInv, NEW n \in Net, Wake(n)
  PROVE  StoreInv'
<1>0. StoreTypeOK /\ \A m \in Net : Bounded(m)
  BY DEF StoreInv
<1> DEFINE w2 == WriteAfterWake(n)
           c2 == Hydrated(n)
           from == IF snapshot[n] = None THEN 0 ELSE snapshot[n].upTo
           a2 == IF from = Len(stream[n]) THEN 0 ELSE stream[n][Len(stream[n])].sequence + 1
           d2 == IF snapshot[n] # None THEN doubt[n] \ {"AckLost"}
                 ELSE IF stream[n] = << >> THEN doubt[n] ELSE doubt[n] \cup {"Replayed"}
           len == Len(stream[n])
<1>1. /\ up' = [up EXCEPT ![n] = TRUE] /\ cache' = [cache EXCEPT ![n] = c2]
      /\ cursor' = [cursor EXCEPT ![n] = len] /\ lastSeq' = [lastSeq EXCEPT ![n] = len]
      /\ applied' = [applied EXCEPT ![n] = a2] /\ write' = [write EXCEPT ![n] = w2]
      /\ doubt' = [doubt EXCEPT ![n] = d2] /\ UNCHANGED <<stream, window, snapshot>>
  BY DEF Wake
<1>2. /\ c2 \in Seq(Nat) /\ \A p \in Positions(c2) : 1 <= p /\ p <= len
      /\ len \in Nat /\ d2 \in SUBSET Doubts
  BY <1>0, HydratedFacts, StoreTypes DEF Doubts
<1>3. w2 \in [next : Nat, last : Nat \cup {None}] /\ w2.next <= len
  <2>1. NextAfter(n, c2) \in Nat /\ NextAfter(n, c2) <= len /\ TipOf(c2) \in Nat \cup {None}
    BY <1>0, <1>2, NextAfterFacts, TipTypes
  <2> QED BY <1>2, <2>1 DEF WriteAfterWake
<1>4. a2 \in Nat
  <2>1. from \in Nat /\ from <= len
    <3>1. CASE snapshot[n] = None
      BY <1>2, <3>1
    <3>2. CASE snapshot[n] # None
      <4>1. snapshot[n].upTo \in Nat
        BY <1>0, <3>2, StoreTypes
      <4>2. snapshot[n].upTo <= Len(stream[n])
        BY <1>0, <3>2 DEF Bounded
      <4> QED BY <3>2, <4>1, <4>2
    <3> QED BY <3>1, <3>2
  <2>2. CASE from # len
    <3>1. len \in DOMAIN stream[n]
      BY <1>0, <1>2, <2>1, <2>2, StoreTypes
    <3>2. stream[n][len].sequence \in Nat
      BY <1>0, <3>1, StoreTypes
    <3> QED BY <2>2, <3>2
  <2> QED BY <2>2
<1> HIDE DEF w2, c2, a2, d2, len, from
<1>5. StoreTypeOK'
  BY <1>0, <1>1, <1>2, <1>3, <1>4 DEF StoreTypeOK
<1>6. ASSUME NEW m \in Net, m # n PROVE Bounded(m)'
  <2>1. Alone(m)
    BY <1>0, <1>1, <1>6 DEF Alone, StoreTypeOK
  <2> QED BY <1>0, <2>1, AloneBounded
<1>7. Bounded(n)'
  <2>1. /\ cache'[n] = c2 /\ write'[n] = w2 /\ cursor'[n] = len /\ lastSeq'[n] = len
        /\ len = Len(stream[n]) /\ len <= len
    BY <1>0, <1>1, <1>2 DEF StoreTypeOK, len
  <2> QED BY <1>0, <1>1, <1>2, <1>3, <2>1 DEF Bounded
<1> QED BY <1>5, <1>6, <1>7 DEF StoreInv

-----------------------------------------------------------------------------
(***************************************************************************)
(* The calls: what each writer can be doing.                               *)
(***************************************************************************)
Call(ats, kinds, tokens, ids) ==
    [at : ats, kind : kinds, token : tokens, id : ids, seq : Nat, pos : Nat \cup {None}]

LoopJobs == {Idle} \cup Call({"append", "wait"}, {"Fired", "BridgedOut"}, Work, {NoId})

ListenerJobs ==
    {Idle} \cup Call({"append", "wait", "ok", "timeout", "failed"}, {"Created"}, Work, DedupId)

CancelJobs == {Idle, Gone} \cup Call({"append", "wait"}, {"Created"}, {Cancel}, {CancelId})

JobsOK ==
    /\ job[Loop] \in LoopJobs /\ job[Listener] \in ListenerJobs
    /\ \A c \in Canceller : job[c] \in CancelJobs

\* TypeOK without the store's.
CallTypeOK ==
    /\ job \in [Writer -> Job]
    /\ index \in (SUBSET DedupId) \cup {Unseeded}
    /\ inbox \subseteq Transfer /\ dlq \subseteq Transfer
    /\ faults \in 0..MaxFaults
    /\ cut \subseteq Work

TInv == StoreInv /\ CallTypeOK /\ JobsOK

LEMMA IdleFacts ==
  /\ Idle.at = "idle" /\ Idle.id = NoId /\ Idle.kind = "Created" /\ Idle.token = Cancel
  /\ Gone.at = "gone" /\ Gone.id = NoId /\ Gone.kind = "Created" /\ Gone.token = Cancel
  /\ Idle \in Job /\ Gone \in Job
<1>1. Cancel \in Token
  BY TokenAssumption
<1> QED BY <1>1 DEF Idle, Gone, Job, Kind

LEMMA JobTypes ==
  LoopJobs \subseteq Job /\ ListenerJobs \subseteq Job /\ CancelJobs \subseteq Job
<1>1. Work \subseteq Token /\ Cancel \in Token /\ CancelId \in DedupId
  BY TokenAssumption, CancelAssumption DEF DedupId
<1>2. Call({"append", "wait"}, {"Fired", "BridgedOut"}, Work, {NoId}) \subseteq Job
  BY <1>1 DEF Call, Job, Kind
<1>3. Call({"append", "wait", "ok", "timeout", "failed"}, {"Created"}, Work, DedupId) \subseteq Job
  BY <1>1 DEF Call, Job, Kind
<1>4. Call({"append", "wait"}, {"Created"}, {Cancel}, {CancelId}) \subseteq Job
  BY <1>1 DEF Call, Job, Kind
<1> QED BY <1>2, <1>3, <1>4, IdleFacts DEF LoopJobs, ListenerJobs, CancelJobs

\* The jobs a writer may have.
JobsOf(w) == IF w = Loop THEN LoopJobs ELSE IF w = Listener THEN ListenerJobs ELSE CancelJobs

LEMMA JobsOfFacts ==
  /\ \A w \in Writer : JobsOf(w) \subseteq Job /\ Idle \in JobsOf(w)
  /\ JobsOf(Loop) = LoopJobs /\ JobsOf(Listener) = ListenerJobs
  /\ \A c \in Canceller : JobsOf(c) = CancelJobs
  /\ {Loop, Listener} \cup Canceller = Writer
BY JobTypes, WriterAssumption DEF JobsOf, Writer, LoopJobs, ListenerJobs, CancelJobs

\* One writer's call moves.
LEMMA JobMoves ==
  ASSUME CallTypeOK, JobsOK, NEW w \in Writer, NEW r \in JobsOf(w),
         job' = [job EXCEPT ![w] = r]
  PROVE  /\ job' \in [Writer -> Job] /\ JobsOK'
         /\ job'[w] = r /\ \A v \in Writer : v # w => job'[v] = job[v]
<1>1. job'[w] = r /\ \A v \in Writer : v # w => job'[v] = job[v]
  BY DEF CallTypeOK
<1>2. \A v \in Writer : job[v] \in JobsOf(v)
  BY JobsOfFacts DEF JobsOK
<1>3. \A v \in Writer : job'[v] \in JobsOf(v)
  BY <1>1, <1>2
<1>4. job' \in [Writer -> Job]
  BY JobsOfFacts DEF CallTypeOK
<1>5. JobsOK'
  BY <1>3, JobsOfFacts DEF JobsOK
<1> QED BY <1>1, <1>4, <1>5

LEMMA KnownType ==
  ASSUME StoreInv, CallTypeOK
  PROVE  Known \in SUBSET DedupId
<1>0. StoreTypeOK /\ Target \in Net /\ Bounded(Target)
  BY NetAssumption DEF StoreInv
<1>1. DedupSeed(Target) \subseteq DedupId
  <2> SUFFICES ASSUME NEW p \in InCache(Target), stream[Target][p].id # NoId
               PROVE  stream[Target][p].id \in DedupId
    BY DEF DedupSeed
  <2>1. p \in Nat /\ 1 <= p /\ p <= Len(stream[Target])
    BY <1>0, StoreTypes, PositionsType DEF Bounded, InCache, Positions
  <2>2. p \in DOMAIN stream[Target]
    BY <1>0, <2>1, StoreTypes
  <2>3. stream[Target][p] \in Event
    BY <1>0, <2>2, StoreTypes
  <2> QED BY <2>3 DEF Event
<1> QED BY <1>1 DEF Known, CallTypeOK

LEMMA NetOfType == \A w \in Writer : NetOf(w) \in Net
BY NetAssumption DEF NetOf

\* A call in append has a net, a kind, a token and an id.
LEMMA AppendTypes ==
  ASSUME CallTypeOK, JobsOK, NEW w \in Writer
  PROVE  /\ job[w] \in Job /\ job[w].kind \in Kind /\ job[w].token \in Token
         /\ job[w].id \in DedupId \cup {NoId} /\ job[w].seq \in Nat
         /\ w = Loop => job[w].id = NoId /\ (job[w].at # "idle" => job[w].token \in Work)
         /\ w # Loop /\ job[w].at \in {"append", "wait"} => job[w].id \in DedupId
         /\ w = Listener /\ job[w].at # "idle" => job[w].id \in DedupId /\ job[w].token \in Work
<1>1. job[w] \in Job
  BY DEF CallTypeOK
<1>2. job[w].kind \in Kind /\ job[w].token \in Token /\ job[w].id \in DedupId \cup {NoId}
         /\ job[w].seq \in Nat
  BY <1>1 DEF Job
<1>3. w = Loop => job[w].id = NoId /\ (job[w].at # "idle" => job[w].token \in Work)
  BY IdleFacts DEF JobsOK, LoopJobs, Call
<1>4. w = Listener /\ job[w].at # "idle" => job[w].id \in DedupId /\ job[w].token \in Work
  BY IdleFacts DEF JobsOK, ListenerJobs, Call
<1>5. w \in Canceller /\ job[w].at \in {"append", "wait"} => job[w].id \in DedupId
  BY IdleFacts, CancelAssumption DEF JobsOK, CancelJobs, Call, DedupId
<1> QED BY <1>1, <1>2, <1>3, <1>4, <1>5 DEF Writer

LEMMA ReturnsOkTypes ==
  ASSUME TInv, NEW w \in Writer, job[w].at \in {"append", "wait"}, ReturnsOk(w)
  PROVE  CallTypeOK' /\ JobsOK'
<1>0. StoreInv /\ CallTypeOK /\ JobsOK
  BY DEF TInv
<1>1. CASE w = Loop
  <2>0. LoopReturnsOk /\ UNCHANGED <<index, dlq>>
    BY <1>1 DEF ReturnsOk
  <2>1. job[Loop].token \in Work /\ job[Loop].seq \in Nat
    BY <1>0, <1>1, AppendTypes
  <2>2. CASE job[Loop].kind = "Fired"
    <3> DEFINE r == [Idle EXCEPT !.at = "append", !.kind = "BridgedOut", !.token = job[Loop].token]
    <3>1. r \in LoopJobs
      BY <2>1 DEF Idle, LoopJobs, Call
    <3>2. job' = [job EXCEPT ![Loop] = r] /\ UNCHANGED <<inbox, faults, cut>>
      BY <2>0, <2>2 DEF LoopReturnsOk
    <3> HIDE DEF r
    <3>3. job' \in [Writer -> Job] /\ JobsOK'
      BY <1>0, <1>1, <3>1, <3>2, JobMoves, JobsOfFacts
    <3> QED BY <1>0, <2>0, <3>2, <3>3 DEF CallTypeOK
  <2>3. CASE job[Loop].kind # "Fired"
    <3> DEFINE m == [id |-> TransferId(job[Loop].seq), token |-> job[Loop].token]
    <3>1. m \in Transfer
      BY <2>1 DEF Transfer, TransferId, DedupId
    <3>2. job' = [job EXCEPT ![Loop] = Idle]
      BY <2>0, <2>3 DEF LoopReturnsOk
    <3>3. \/ inbox' = inbox \cup {m} /\ UNCHANGED <<faults, cut>>
          \/ Fault("BridgeLost") /\ cut' = cut \cup {job[Loop].token} /\ UNCHANGED inbox
      BY <2>0, <2>3 DEF LoopReturnsOk
    <3> HIDE DEF m
    <3>4. faults' \in 0..MaxFaults
      BY <1>0, <3>3, FaultAssumption DEF Fault, CallTypeOK
    <3>5. job' \in [Writer -> Job] /\ JobsOK'
      BY <1>0, <1>1, <3>2, JobMoves, JobsOfFacts
    <3> QED BY <1>0, <2>0, <2>1, <3>1, <3>3, <3>4, <3>5 DEF CallTypeOK
  <2> QED BY <2>2, <2>3
<1>2. CASE w # Loop
  <2>1. /\ index' = Known \cup {job[w].id} /\ UNCHANGED <<inbox, dlq, faults, cut>>
        /\ job' = [job EXCEPT ![w] = IF w = Listener THEN [job[w] EXCEPT !.at = "ok"] ELSE Gone]
    BY <1>2 DEF ReturnsOk
  <2>2. index' \in SUBSET DedupId
    BY <1>0, <1>2, <2>1, KnownType, AppendTypes
  <2>3. (IF w = Listener THEN [job[w] EXCEPT !.at = "ok"] ELSE Gone) \in JobsOf(w)
    <3>1. CASE w = Listener
      <4>1. job[w] \in ListenerJobs /\ job[w] # Idle
        BY <1>0, <3>1, IdleFacts DEF JobsOK
      <4>2. [job[w] EXCEPT !.at = "ok"] \in ListenerJobs
        BY <4>1 DEF ListenerJobs, Call
      <4> QED BY <3>1, <4>2, JobsOfFacts
    <3>2. CASE w # Listener
      BY <1>2, <3>2, JobsOfFacts DEF CancelJobs, Writer
    <3> QED BY <3>1, <3>2
  <2>4. job' \in [Writer -> Job] /\ JobsOK'
    BY <1>0, <2>1, <2>3, JobMoves
  <2> QED BY <1>0, <2>1, <2>2, <2>4 DEF CallTypeOK
<1> QED BY <1>1, <1>2

LEMMA ReturnsErrorTypes ==
  ASSUME TInv, NEW w \in Writer, job[w].at \in {"append", "wait"},
         NEW result \in {"failed", "timeout"}, ReturnsError(w, result), faults' \in 0..MaxFaults
  PROVE  CallTypeOK' /\ JobsOK'
<1>0. StoreInv /\ CallTypeOK /\ JobsOK
  BY DEF TInv
<1> DEFINE r == IF w = Loop THEN Idle
                ELSE IF w = Listener THEN [job[w] EXCEPT !.at = result] ELSE Gone
<1>1. r \in JobsOf(w)
  <2>1. CASE w = Loop
    BY <2>1, JobsOfFacts
  <2>2. CASE w = Listener
    <3>1. job[w] \in ListenerJobs /\ job[w] # Idle
      BY <1>0, <2>2, IdleFacts DEF JobsOK
    <3>2. [job[w] EXCEPT !.at = result] \in ListenerJobs
      BY <3>1 DEF ListenerJobs, Call
    <3> QED BY <2>2, <3>2, JobsOfFacts, WriterAssumption
  <2>3. CASE w # Loop /\ w # Listener
    BY <2>3, JobsOfFacts DEF CancelJobs, Writer
  <2> QED BY <2>1, <2>2, <2>3
<1>2. job' = [job EXCEPT ![w] = r] /\ UNCHANGED <<index, inbox, dlq>>
         /\ (cut' = cut \/ (w = Loop /\ cut' = cut \cup {job[Loop].token}))
  BY DEF ReturnsError, CutWith
<1> HIDE DEF r
<1>3. job' \in [Writer -> Job] /\ JobsOK'
  BY <1>0, <1>1, <1>2, JobMoves
<1>4. cut' \subseteq Work
  BY <1>0, <1>2, AppendTypes, IdleFacts DEF CallTypeOK
<1> QED BY <1>0, <1>2, <1>3, <1>4 DEF CallTypeOK

-----------------------------------------------------------------------------
(***************************************************************************)
(* Every step keeps the types.                                             *)
(***************************************************************************)
LEMMA WindowInv ==
  ASSUME StoreInv, window' \in [Net -> SUBSET DedupId], UNCHANGED <<stream, memory, snapshot, doubt>>
  PROVE  StoreInv' /\ \A m \in Net : Alone(m)
<1>1. /\ stream' = stream /\ write' = write /\ applied' = applied /\ cursor' = cursor
      /\ lastSeq' = lastSeq /\ cache' = cache /\ up' = up /\ snapshot' = snapshot
      /\ doubt' = doubt
  BY DEF memory
<1>2. StoreTypeOK'
  BY <1>1 DEF StoreInv, StoreTypeOK
<1>3. \A m \in Net : Alone(m)
  BY <1>1 DEF Alone
<1>4. \A m \in Net : Bounded(m)'
  BY <1>3, AloneBounded DEF StoreInv
<1> QED BY <1>2, <1>3, <1>4 DEF StoreInv

LEMMA NextStoreInv ==
  ASSUME TInv, [Next]_vars
  PROVE  StoreInv'
<1>0. StoreInv /\ StoreTypeOK /\ CallTypeOK /\ JobsOK /\ \A n \in Net : Bounded(n)
  BY DEF TInv, StoreInv
<1>1. ASSUME UNCHANGED svars PROVE StoreInv'
  <2>1. window' \in [Net -> SUBSET DedupId] /\ UNCHANGED <<stream, memory, snapshot, doubt>>
    BY <1>0, <1>1 DEF svars, StoreTypeOK
  <2> QED BY <1>0, <2>1, WindowInv
<1>2. ASSUME NEW w \in Writer, AppendStored(w) PROVE StoreInv'
  BY <1>0, <1>2, AppendTypes, NetOfType, StoreEventInv DEF AppendStored
<1>3. ASSUME NEW w \in Writer, AppendDuplicate(w) PROVE StoreInv'
  BY <1>0, <1>3, NetOfType, KeepTipInv DEF AppendDuplicate, PublishDuplicate
<1>4. ASSUME NEW w \in Writer, AppendFails(w) PROVE StoreInv'
  <2>1. CASE PublishLost(NetOf(w))
    BY <1>0, <2>1, NetOfType, KeepTipInv DEF PublishLost
  <2>2. CASE PublishAckLost(NetOf(w), job[w].kind, job[w].token, job[w].id)
    BY <1>0, <2>2, AppendTypes, NetOfType, StoreEventInv
  <2> QED BY <1>4, <2>1, <2>2 DEF AppendFails
<1>5. ASSUME NEW n \in Net, Consume(n) PROVE StoreInv'
  <2>1. cursor[n] \in Nat /\ Len(stream[n]) \in Nat /\ cursor[n] < Len(stream[n])
    BY <1>0, <1>5, StoreTypes DEF Consume
  <2>2. cursor[n] + 1 \in Nat /\ 1 <= cursor[n] + 1 /\ cursor[n] + 1 <= Len(stream[n])
    BY <2>1
  <2>3. /\ Apply(n, cursor[n] + 1) /\ cursor' = [cursor EXCEPT ![n] = cursor[n] + 1]
        /\ doubt' = doubt /\ UNCHANGED <<stream, window, write, up, snapshot>>
    BY <1>5 DEF Consume
  <2> QED BY <1>0, <2>2, <2>3, ApplyInv
<1>6. ASSUME NEW n \in Net, NEW pos \in InCache(n), Redeliver(n, pos) PROVE StoreInv'
  <2>1. pos \in Nat /\ 1 <= pos /\ pos <= Len(stream[n])
    BY <1>0, StoreTypes, PositionsType DEF Bounded, InCache, Positions
  <2>2. /\ Apply(n, pos) /\ doubt' = [doubt EXCEPT ![n] = @ \cup {"Redelivered"}]
        /\ cursor' = cursor /\ UNCHANGED <<stream, window, write, up, snapshot>>
    BY <1>6 DEF Redeliver
  <2> QED BY <1>0, <2>1, <2>2, ApplyInv
<1>7. ASSUME NEW n \in Net, Hibernate(n) PROVE StoreInv'
  <2>1. /\ Forgotten({n}) /\ {n} \in SUBSET Net
        /\ \/ snapshot' = snapshot
           \/ snapshot' = [snapshot EXCEPT ![n] =
                              [cache |-> cache[n], upTo |-> StreamSeq(cache[n])]]
    BY <1>7 DEF Hibernate, HibernateStore
  <2> QED BY <1>0, <2>1, ForgottenInv
<1>8. ASSUME Crash PROVE StoreInv'
  <2>1. Forgotten(Net) /\ snapshot' = snapshot /\ Net \in SUBSET Net
    BY <1>8 DEF Crash
  <2> QED BY <1>0, <2>1, ForgottenInv
<1>9. ASSUME NEW id, EndWindow(id) PROVE StoreInv'
  <2>1. window' \in [Net -> SUBSET DedupId] /\ UNCHANGED <<stream, memory, snapshot, doubt>>
    BY <1>0, <1>9 DEF EndWindow, StoreTypeOK
  <2> QED BY <1>0, <2>1, WindowInv
<1>10. CASE Progress
  <2>1. ASSUME NEW n \in Net, ConsumeNext(n) \/ WakeNet(n) PROVE StoreInv'
    BY <1>0, <1>5, <2>1, WakeInv DEF ConsumeNext, WakeNet
  <2>2. ASSUME NEW w \in Writer, AppendApplied(w) \/ AppendTimesOut(w) PROVE StoreInv'
    BY <1>1, <2>2 DEF AppendApplied, AppendTimesOut
  <2>3. ASSUME \/ \E t \in Work : Fire(t)
               \/ \E m \in inbox : Receive(m)
               \/ Settle \/ Nak \/ DeadLetter
               \/ \E c \in Canceller : RequestCancel(c)
        PROVE  StoreInv'
    BY <1>1, <2>3 DEF Fire, Receive, Settle, Nak, DeadLetter, RequestCancel
  <2> QED BY <1>2, <1>3, <1>10, <2>1, <2>2, <2>3 DEF Progress
<1>11. CASE Failure
  <2>1. ASSUME NEW n \in Net, ConsumerReconnects(n) \/ ConsumerRedelivers(n) \/ Reset(n)
        PROVE  StoreInv'
    BY <1>0, <1>6, <2>1, ReconnectInv, ResetInv DEF ConsumerReconnects, ConsumerRedelivers, Reset
  <2> QED BY <1>4, <1>7, <1>8, <1>9, <1>11, <2>1 DEF Failure
<1>12. CASE UNCHANGED vars
  BY <1>1, <1>12 DEF vars
<1> QED BY <1>10, <1>11, <1>12 DEF Next

LEMMA NextCallTypes ==
  ASSUME TInv, [Next]_vars
  PROVE  CallTypeOK' /\ JobsOK'
<1>0. StoreInv /\ StoreTypeOK /\ CallTypeOK /\ JobsOK
  BY DEF TInv, StoreInv
<1>1. ASSUME UNCHANGED <<job, index, inbox, dlq, cut>>, faults' \in 0..MaxFaults
      PROVE  CallTypeOK' /\ JobsOK'
  BY <1>0, <1>1 DEF CallTypeOK, JobsOK
<1>2. \A f \in {"Lost", "AckLost", "Timeout", "Redelivered", "Reconnect", "Reset",
                "Crash", "Hibernate", "SnapshotLost", "MsgAckLost", "DlqLost", "WindowEnds"} :
         Fault(f) => faults' \in 0..MaxFaults
  BY <1>0, FaultAssumption DEF Fault, CallTypeOK
<1>3. faults \in 0..MaxFaults
  BY <1>0 DEF CallTypeOK
<1>4. ASSUME NEW w \in Writer, NEW r \in JobsOf(w), job' = [job EXCEPT ![w] = r],
             index' \in (SUBSET DedupId) \cup {Unseeded}, inbox' \subseteq inbox,
             dlq' \subseteq Transfer, faults' \in 0..MaxFaults, cut' \subseteq Work
      PROVE  CallTypeOK' /\ JobsOK'
  <2>1. job' \in [Writer -> Job] /\ JobsOK'
    BY <1>0, <1>4, JobMoves
  <2> QED BY <1>0, <1>4, <2>1 DEF CallTypeOK
<1>5. ASSUME NEW w \in Writer, AppendStored(w) PROVE CallTypeOK' /\ JobsOK'
  <2> DEFINE r == [job[w] EXCEPT !.at = "wait", !.seq = write[NetOf(w)].next,
                                 !.pos = Len(stream[NetOf(w)]) + 1]
  <2>1. job[w].at = "append" /\ job[w] \in JobsOf(w)
    BY <1>0, <1>5, JobsOfFacts DEF AppendStored, AtAppend, JobsOK
  <2>2. write[NetOf(w)].next \in Nat /\ Len(stream[NetOf(w)]) + 1 \in Nat
    <3>1. NetOf(w) \in Net
      BY NetOfType
    <3>2. write[NetOf(w)].next \in Nat /\ Len(stream[NetOf(w)]) \in Nat
      BY <1>0, <3>1, StoreTypes
    <3> QED BY <3>2
  <2>3. r \in JobsOf(w)
    <3> HIDE DEF r
    <3>1. CASE w = Loop
      <4>1. job[w] \in Call({"append", "wait"}, {"Fired", "BridgedOut"}, Work, {NoId})
        BY <2>1, <3>1, IdleFacts, JobsOfFacts DEF LoopJobs
      <4>2. r \in Call({"append", "wait"}, {"Fired", "BridgedOut"}, Work, {NoId})
        BY <2>2, <4>1 DEF Call, r
      <4> QED BY <3>1, <4>2, JobsOfFacts DEF LoopJobs
    <3>2. CASE w = Listener
      <4> DEFINE C == Call({"append", "wait", "ok", "timeout", "failed"}, {"Created"}, Work, DedupId)
      <4>1. job[w] \in C
        BY <2>1, <3>2, IdleFacts, JobsOfFacts DEF ListenerJobs
      <4>2. r \in C
        BY <2>2, <4>1 DEF Call, r
      <4> QED BY <3>2, <4>2, JobsOfFacts DEF ListenerJobs
    <3>3. CASE w \in Canceller
      <4>1. job[w] \in Call({"append", "wait"}, {"Created"}, {Cancel}, {CancelId})
        BY <2>1, <3>3, IdleFacts, JobsOfFacts DEF CancelJobs
      <4>2. r \in Call({"append", "wait"}, {"Created"}, {Cancel}, {CancelId})
        BY <2>2, <4>1 DEF Call, r
      <4> QED BY <3>3, <4>2, JobsOfFacts DEF CancelJobs
    <3> QED BY <3>1, <3>2, <3>3 DEF Writer
  <2>4. job' = [job EXCEPT ![w] = r] /\ UNCHANGED <<index, inbox, dlq, faults, cut>>
    BY <1>5 DEF AppendStored
  <2> HIDE DEF r
  <2> QED BY <1>0, <1>4, <2>3, <2>4 DEF CallTypeOK
<1>6. ASSUME NEW w \in Writer, AppendDuplicate(w) \/ AppendApplied(w) PROVE CallTypeOK' /\ JobsOK'
  BY <1>6, ReturnsOkTypes DEF AppendDuplicate, AppendApplied, AtAppend
<1>7. ASSUME NEW w \in Writer, AppendFails(w) PROVE CallTypeOK' /\ JobsOK'
  <2>1. /\ ReturnsError(w, "failed") /\ job[w].at \in {"append", "wait"}
        /\ Fault("Lost") \/ Fault("AckLost")
    BY <1>7 DEF AppendFails, AtAppend
  <2> QED BY <1>2, <2>1, ReturnsErrorTypes
<1>8. ASSUME NEW w \in Writer, AppendTimesOut(w) PROVE CallTypeOK' /\ JobsOK'
  <2>1. /\ ReturnsError(w, "timeout") /\ job[w].at \in {"append", "wait"}
        /\ Fault("Timeout") \/ faults' = faults
    BY <1>8 DEF AppendTimesOut
  <2>2. faults' \in 0..MaxFaults
    BY <1>2, <1>3, <2>1
  <2> QED BY <2>1, <2>2, ReturnsErrorTypes
<1>9. ASSUME NEW t \in Work, Fire(t) PROVE CallTypeOK' /\ JobsOK'
  <2> DEFINE r == [Idle EXCEPT !.at = "append", !.kind = "Fired", !.token = t]
  <2>1. r \in JobsOf(Loop) /\ Loop \in Writer
    BY JobsOfFacts DEF Idle, LoopJobs, Call
  <2>2. job' = [job EXCEPT ![Loop] = r] /\ UNCHANGED <<index, inbox, dlq, faults, cut>>
    BY <1>9 DEF Fire
  <2> HIDE DEF r
  <2> QED BY <1>0, <1>4, <2>1, <2>2 DEF CallTypeOK
<1>10. ASSUME NEW m \in inbox, Receive(m) PROVE CallTypeOK' /\ JobsOK'
  <2> DEFINE r == IF m.id \in Known THEN Injecting("ok", m.token, m.id)
                  ELSE Injecting("append", m.token, m.id)
  <2>1. m.id \in DedupId /\ m.token \in Work
    BY <1>0 DEF CallTypeOK, Transfer
  <2>2. r \in JobsOf(Listener) /\ Listener \in Writer
    BY <2>1, JobsOfFacts DEF Injecting, Idle, ListenerJobs, Call
  <2>3. job' = [job EXCEPT ![Listener] = r] /\ index' = Known
           /\ UNCHANGED <<inbox, dlq, faults, cut>>
    BY <1>10 DEF Receive, CheckIndex
  <2> HIDE DEF r
  <2> QED BY <1>0, <1>4, <2>2, <2>3, KnownType DEF CallTypeOK
<1>11. ASSUME NEW c \in Canceller, RequestCancel(c) PROVE CallTypeOK' /\ JobsOK'
  <2> DEFINE r == IF CancelId \in Known THEN Gone ELSE Injecting("append", Cancel, CancelId)
  <2>1. r \in JobsOf(c) /\ c \in Writer
    BY JobsOfFacts DEF Injecting, Idle, CancelJobs, Call
  <2>2. job' = [job EXCEPT ![c] = r] /\ index' = Known /\ UNCHANGED <<inbox, dlq, faults, cut>>
    BY <1>11 DEF RequestCancel, CheckIndex
  <2> HIDE DEF r
  <2> QED BY <1>0, <1>4, <2>1, <2>2, KnownType DEF CallTypeOK
<1>12. ASSUME Settle \/ Nak \/ DeadLetter PROVE CallTypeOK' /\ JobsOK'
  <2>1. Idle \in JobsOf(Listener) /\ Listener \in Writer
    BY JobsOfFacts
  <2>2. job[Listener].at # "idle" /\ job' = [job EXCEPT ![Listener] = Idle]
    BY <1>12 DEF Settle, Nak, DeadLetter, Finish
  <2>3. Delivery \in Transfer
    BY <1>0, <2>1, <2>2, AppendTypes DEF Delivery, Transfer
  <2>4. inbox' \subseteq inbox /\ (dlq' = dlq \/ dlq' = dlq \cup {Delivery})
           /\ index' = index /\ cut' = cut
           /\ (faults' = faults \/ Fault("MsgAckLost") \/ Fault("DlqLost"))
    BY <1>12 DEF Settle, Nak, DeadLetter
  <2>5. faults' \in 0..MaxFaults
    BY <1>2, <1>3, <2>4
  <2>6. dlq' \subseteq Transfer /\ cut' \subseteq Work /\ index' \in (SUBSET DedupId) \cup {Unseeded}
    BY <1>0, <2>3, <2>4 DEF CallTypeOK
  <2> QED BY <1>4, <2>1, <2>2, <2>4, <2>5, <2>6
<1>13. ASSUME NEW n \in Net, ConsumeNext(n) \/ WakeNet(n) PROVE CallTypeOK' /\ JobsOK'
  BY <1>1, <1>3, <1>13 DEF ConsumeNext, WakeNet, bvars
<1>14. ASSUME NEW n \in Net, ConsumerReconnects(n) \/ ConsumerRedelivers(n) \/ Reset(n)
       PROVE  CallTypeOK' /\ JobsOK'
  BY <1>1, <1>2, <1>14 DEF ConsumerReconnects, ConsumerRedelivers, Reset
<1>15. ASSUME NEW n \in Net, Hibernate(n) PROVE CallTypeOK' /\ JobsOK'
  <2>1. /\ UNCHANGED <<job, inbox, dlq, cut>> /\ (index' = index \/ index' = Unseeded)
        /\ Fault("Hibernate") \/ Fault("SnapshotLost")
    BY <1>15 DEF Hibernate, IndexWithout
  <2>2. faults' \in 0..MaxFaults
    BY <1>2, <2>1
  <2> QED BY <1>0, <2>1, <2>2 DEF CallTypeOK, JobsOK
<1>16. ASSUME NEW id, EndWindow(id) PROVE CallTypeOK' /\ JobsOK'
  BY <1>1, <1>2, <1>16 DEF EndWindow
<1>17. ASSUME Crash PROVE CallTypeOK' /\ JobsOK'
  <2>1. /\ job' = [w \in Writer |-> IF w \in Canceller /\ job[w].at # "idle" THEN Gone ELSE Idle]
        /\ UNCHANGED <<inbox, dlq>> /\ index' \in {index, Unseeded} /\ Fault("Crash")
        /\ cut' = cut \/ (job[Loop].at # "idle" /\ cut' = cut \cup {job[Loop].token})
    BY <1>17 DEF Crash, IndexWithout, CutWith
  <2>2. \A w \in Writer : job'[w] \in JobsOf(w)
    BY <2>1, JobsOfFacts DEF CancelJobs
  <2>3. job' \in [Writer -> Job]
    BY <2>1, IdleFacts
  <2>4. JobsOK'
    BY <2>2, JobsOfFacts DEF JobsOK
  <2>5. cut' \subseteq Work
    BY <1>0, <2>1, AppendTypes, JobsOfFacts DEF CallTypeOK
  <2>6. faults' \in 0..MaxFaults
    BY <1>2, <2>1
  <2> QED BY <1>0, <2>1, <2>3, <2>4, <2>5, <2>6 DEF CallTypeOK
<1>18. CASE UNCHANGED vars
  BY <1>1, <1>3, <1>18 DEF vars, bvars
<1>19. CASE Progress
  BY <1>5, <1>6, <1>8, <1>9, <1>10, <1>11, <1>12, <1>13, <1>19 DEF Progress
<1>20. CASE Failure
  BY <1>7, <1>14, <1>15, <1>16, <1>17, <1>20 DEF Failure
<1> QED BY <1>18, <1>19, <1>20 DEF Next

LEMMA InitTInv == Init => TInv
<1> SUFFICES ASSUME Init PROVE TInv
  OBVIOUS
<1>1. << >> \in Seq(Event) /\ << >> \in Seq(Nat) /\ Len(<< >>) = 0 /\ DOMAIN << >> = {}
  OBVIOUS
<1>2. StoreTypeOK
  <2>1. [next |-> 0, last |-> None] \in [next : Nat, last : Nat \cup {None}]
    OBVIOUS
  <2> QED BY <1>1, <2>1 DEF Init, StoreInit, StoreTypeOK
<1>3. \A n \in Net : Bounded(n)
  BY <1>1 DEF Init, StoreInit, Bounded, Positions
<1>4. CallTypeOK /\ JobsOK
  <2>1. job \in [Writer -> Job] /\ \A w \in Writer : job[w] = Idle
    BY IdleFacts DEF Init
  <2>2. JobsOK
    BY <2>1, JobsOfFacts DEF JobsOK, LoopJobs, ListenerJobs, CancelJobs
  <2> QED BY <2>1, <2>2, FaultAssumption DEF Init, CallTypeOK
<1> QED BY <1>2, <1>3, <1>4 DEF TInv, StoreInv

LEMMA NextTInv == TInv /\ [Next]_vars => TInv'
BY NextStoreInv, NextCallTypes DEF TInv

(***************************************************************************)
(* Type correctness of the stores, the calls and the messages between two  *)
(* nets: a wake always finds the sequence and the tip it seeds the writer  *)
(* with.                                                                   *)
(***************************************************************************)
THEOREM BridgeTypeCorrect == Spec => []TypeOK
<1>1. TInv => TypeOK
  BY DEF TInv, StoreInv, CallTypeOK, TypeOK
<1> QED BY <1>1, InitTInv, NextTInv, PTL DEF Spec
-----------------------------------------------------------------------------
(***************************************************************************)
(* The steps of the store keep its log.                                    *)
(***************************************************************************)
\* Where the writer knows the log's end, the lazy recovery changes nothing.
LEMMA TipKnown ==
  ASSUME StoreTypeOK, NEW n \in Net, AtTip(n), up[n], doubt[n] = {}
  PROVE  TipFor(n) = write[n].last
<1>1. CASE stream[n] = << >>
  BY <1>1, StoreTypes DEF AtTip, TipFor
<1>2. CASE stream[n] # << >>
  <2>1. write[n].last = Len(stream[n]) /\ Len(stream[n]) \in Nat
    BY <1>2, StoreTypes DEF AtTip
  <2> QED BY <2>1, NoneAssumption DEF TipFor
<1> QED BY <1>1, <1>2

LEMMA StoreEventLogged ==
  ASSUME StoreInv, NEW n \in Net, up[n], Logged(n), NEW kind \in Kind, NEW t \in Token,
         NEW id \in DedupId \cup {NoId},
         \/ PublishStored(n, kind, t, id)
         \/ PublishAckLost(n, kind, t, id)
  PROVE  Logged(n)'
<1> DEFINE e == Mint(n, kind, t, id)
           s == stream[n]
           k == write[n].next
<1>0. StoreTypeOK /\ Bounded(n)
  BY DEF StoreInv
<1>1. /\ e \in Event /\ e.sequence = k /\ e.previousHash = TipFor(n) /\ k \in Nat
      /\ e.sound = (doubt[n] = {})
  <2>1. (doubt[n] = {}) \in BOOLEAN
    OBVIOUS
  <2>2. TipFor(n) \in Nat \cup {None} /\ k \in Nat
    BY <1>0, TipTypes, StoreTypes
  <2> QED BY <2>1, <2>2 DEF Mint, Event
<1> HIDE DEF e
<1>2. s \in Seq(Event) /\ Len(s) \in Nat /\ DOMAIN s = 1..Len(s)
         /\ \A i \in 1..Len(s) : s[i].sequence \in Nat
  BY <1>0, StoreTypes
<1> DEFINE s2 == Append(s, e)
<1>3. /\ s2 \in Seq(Event) /\ Len(s2) = Len(s) + 1 /\ DOMAIN s2 = 1..(Len(s) + 1)
      /\ s2[Len(s) + 1] = e /\ \A i \in 1..Len(s) : s2[i] = s[i]
  BY <1>1, <1>2
<1>4. stream' = [stream EXCEPT ![n] = s2]
  BY DEF PublishStored, PublishAckLost, StoreEvent, e
<1> HIDE DEF s2
<1>5. stream'[n] = s2
  BY <1>0, <1>4 DEF StoreTypeOK
<1>6. UNCHANGED <<applied, cursor, lastSeq, cache, up, snapshot>>
  BY DEF PublishStored, PublishAckLost
<1>7. \/ /\ doubt'[n] = doubt[n]
         /\ write'[n] = [next |-> k + 1, last |-> Len(s) + 1] /\ write'[n].next = k + 1
      \/ doubt'[n] = doubt[n] \cup {"AckLost"} /\ write'[n].next = k
  <2>1. CASE PublishStored(n, kind, t, id)
    BY <1>0, <2>1 DEF PublishStored, StoreTypeOK
  <2>2. CASE PublishAckLost(n, kind, t, id)
    BY <1>0, <2>2 DEF PublishAckLost, KeepTip, StoreTypeOK
  <2> QED BY <2>1, <2>2
<1>8. ASSUME NEW i \in 1..(Len(s) + 1) PROVE i = Len(s) + 1 \/ i \in 1..Len(s)
  BY <1>2
<1>9. Empty(n)'
  BY <1>6 DEF Empty
<1>10. Covered(n)'
  <2> SUFFICES ASSUME "Reset" \notin doubt'[n]
               PROVE  applied[n] # 0 => \E p \in Positions(cache[n]) :
                                           stream'[n][p].sequence + 1 = applied[n]
    BY <1>6, <1>7 DEF Logged, Covered
  <2>1. \A p \in Positions(cache[n]) : p \in 1..Len(s)
    <3>1. Positions(cache[n]) \subseteq Nat
      BY <1>0, StoreTypes, PositionsType
    <3>2. \A p \in Positions(cache[n]) : 1 <= p /\ p <= Len(s)
      BY <1>0 DEF Bounded
    <3> QED BY <1>2, <3>1, <3>2
  <2>2. applied[n] # 0 => \E p \in Positions(cache[n]) : s[p].sequence + 1 = applied[n]
    BY <1>7 DEF Logged, Covered
  <2> QED BY <1>3, <1>5, <2>1, <2>2
<1>11. InOrder(n)'
  BY <1>6, <1>7 DEF Logged, InOrder
<1>12. Rising(n)'
  <2> SUFFICES ASSUME doubt'[n] \cap {"Replayed", "Reset"} = {}
               PROVE  /\ \A p, q \in 1..(Len(s) + 1) : p <= q => s2[p].sequence <= s2[q].sequence
                      /\ \A p \in 1..(Len(s) + 1) : s2[p].sequence <= write'[n].next
    BY <1>3, <1>5 DEF Rising
  <2>1. /\ \A p, q \in 1..Len(s) : p <= q => s[p].sequence <= s[q].sequence
        /\ \A p \in 1..Len(s) : s[p].sequence <= k
    BY <1>2, <1>7 DEF Logged, Rising
  <2>2. ASSUME NEW p \in 1..(Len(s) + 1) PROVE s2[p].sequence <= k /\ s2[p].sequence \in Nat
    BY <1>1, <1>2, <1>3, <1>8, <2>1
  <2>3. ASSUME NEW p \in 1..(Len(s) + 1), NEW q \in 1..(Len(s) + 1), p <= q
        PROVE  s2[p].sequence <= s2[q].sequence
    <3>1. CASE q = Len(s) + 1
      BY <1>1, <1>3, <2>2, <3>1
    <3>2. CASE q # Len(s) + 1
      <4>1. p \in 1..Len(s) /\ q \in 1..Len(s)
        BY <1>2, <2>3, <3>2
      <4> QED BY <1>3, <2>1, <2>3, <4>1
    <3> QED BY <3>1, <3>2
  <2>4. k <= write'[n].next
    BY <1>1, <1>7
  <2>5. \A p \in 1..(Len(s) + 1) : s2[p].sequence <= write'[n].next
    BY <1>1, <1>7, <2>2
  <2> QED BY <2>3, <2>5
<1>13. Ahead(n)'
  <2> SUFFICES ASSUME doubt'[n] \cap {"AckLost", "Replayed", "Reset"} = {},
                      NEW p \in 1..(Len(s) + 1)
               PROVE  s2[p].sequence < write'[n].next
    BY <1>3, <1>5 DEF Ahead
  <2>1. doubt'[n] = doubt[n] /\ write'[n].next = k + 1
    BY <1>7
  <2>2. \A q \in 1..Len(s) : s[q].sequence < k
    BY <1>2, <2>1 DEF Logged, Ahead
  <2>3. CASE p = Len(s) + 1
    BY <1>1, <1>3, <2>1, <2>3
  <2>4. CASE p \in 1..Len(s)
    BY <1>1, <1>2, <1>3, <2>1, <2>2, <2>4
  <2> QED BY <1>8, <2>3, <2>4
<1>14. AtTip(n)'
  <2> SUFFICES ASSUME doubt'[n] = {}
               PROVE  s2 # << >> /\ write'[n] = [next |-> s2[Len(s2)].sequence + 1, last |-> Len(s2)]
    BY <1>5 DEF AtTip
  <2>1. write'[n] = [next |-> k + 1, last |-> Len(s) + 1]
    BY <1>7
  <2> QED BY <1>1, <1>2, <1>3, <2>1
<1>15. Chained(n)'
  <2> SUFFICES ASSUME NEW i \in 1..(Len(s) + 1), s2[i].sound
               PROVE  IF i = 1 THEN s2[i].sequence = 0 /\ s2[i].previousHash = None
                      ELSE /\ s2[i].sequence = s2[i - 1].sequence + 1
                           /\ s2[i].previousHash = i - 1
    BY <1>3, <1>5 DEF Chained
  <2>1. CASE i \in 1..Len(s)
    <3>1. s2[i] = s[i] /\ (i # 1 => i - 1 \in 1..Len(s) /\ s2[i - 1] = s[i - 1])
      BY <1>2, <1>3, <2>1
    <3> QED BY <1>2, <2>1, <3>1 DEF Logged, Chained
  <2>2. CASE i = Len(s) + 1
    <3>1. doubt[n] = {}
      BY <1>1, <1>3, <2>2
    <3>2. s2[i].sequence = k /\ s2[i].previousHash = write[n].last
      BY <1>0, <1>1, <1>3, <2>2, <3>1, TipKnown DEF Logged
    <3>3. CASE s = << >>
      <4>1. i = 1 /\ write[n] = [next |-> 0, last |-> None]
        BY <2>2, <3>1, <3>3 DEF Logged, AtTip
      <4> QED BY <3>2, <4>1
    <3>4. CASE s # << >>
      <4>1. write[n] = [next |-> s[Len(s)].sequence + 1, last |-> Len(s)]
        BY <3>1, <3>4 DEF Logged, AtTip
      <4>2. i - 1 = Len(s) /\ Len(s) \in 1..Len(s) /\ i # 1
        BY <1>2, <2>2, <3>4
      <4> QED BY <1>3, <3>2, <4>1, <4>2
    <3> QED BY <3>3, <3>4
  <2> QED BY <1>8, <2>1, <2>2
<1> QED BY <1>9, <1>10, <1>11, <1>12, <1>13, <1>14, <1>15 DEF Logged

LEMMA KeepTipLogged ==
  ASSUME StoreInv, NEW n \in Net, up[n], Logged(n), KeepTip(n),
         UNCHANGED <<stream, window, applied, cursor, lastSeq, cache, up, snapshot, doubt>>
  PROVE  Logged(n)'
<1>0. StoreTypeOK /\ Bounded(n)
  BY DEF StoreInv
<1>1. write'[n] = [next |-> write[n].next, last |-> TipFor(n)] /\ write'[n].next = write[n].next
  BY <1>0, StoreTypes DEF KeepTip, StoreTypeOK
<1>2. doubt[n] = {} => write'[n] = write[n]
  BY <1>0, <1>1, StoreTypes, TipKnown DEF Logged
<1>3. Empty(n)'
  BY DEF Empty
<1>4. Covered(n)' /\ InOrder(n)' /\ Chained(n)'
  BY DEF Logged, Covered, InOrder, Chained
<1>5. Rising(n)' /\ Ahead(n)'
  BY <1>1 DEF Logged, Rising, Ahead
<1>6. AtTip(n)'
  BY <1>2 DEF Logged, AtTip
<1> QED BY <1>3, <1>4, <1>5, <1>6 DEF Logged

LEMMA ConsumeLogged ==
  ASSUME StoreInv, NEW n \in Net, Logged(n), Consume(n)
  PROVE  Logged(n)'
<1>0. StoreTypeOK /\ Bounded(n)
  BY DEF StoreInv
<1> DEFINE c == cursor[n] + 1
           c2 == Append(cache[n], c)
<1>1. cursor[n] \in Nat /\ c \in Nat /\ 1 <= c /\ c <= Len(stream[n]) /\ cache[n] \in Seq(Nat)
         /\ Len(stream[n]) \in Nat
  <2>1. cursor[n] \in Nat /\ Len(stream[n]) \in Nat /\ cache[n] \in Seq(Nat)
    BY <1>0, StoreTypes
  <2>2. cursor[n] < Len(stream[n])
    BY DEF Consume
  <2> QED BY <2>1, <2>2
<1>2. /\ cursor'[n] = c /\ cache'[n] = c2 /\ lastSeq'[n] = c
      /\ applied'[n] = stream[n][c].sequence + 1
      /\ UNCHANGED <<stream, window, write, up, snapshot, doubt>>
  BY <1>0 DEF Consume, Apply, StoreTypeOK
<1>3. Positions(c2) = Positions(cache[n]) \cup {c}
  BY <1>1, PositionsAppend
<1>4. cache[n] = Whole(cursor[n]) => c2 = Whole(c)
  BY <1>1, WholeAppend
<1> HIDE DEF c2
<1>5. Empty(n)'
  BY <1>2 DEF Empty, Consume
<1>6. Covered(n)'
  <2> SUFFICES ASSUME "Reset" \notin doubt[n] PROVE Closed(Positions(c2))
    BY <1>1, <1>2, <1>3 DEF Logged, Covered
  <2>1. Closed(Positions(cache[n])) /\ (cursor[n] # 0 => cursor[n] \in Positions(cache[n]))
    BY DEF Logged, Covered
  <2>2. 1..c \subseteq Positions(c2)
    <3> SUFFICES ASSUME NEW p \in 1..c, p # c PROVE p \in Positions(cache[n])
      BY <1>3
    <3>1. cursor[n] # 0 /\ p \in 1..cursor[n]
      BY <1>1
    <3> QED BY <2>1, <3>1 DEF Closed
  <2> QED BY <1>3, <2>1, <2>2 DEF Closed
<1>7. InOrder(n)'
  BY <1>2, <1>4 DEF Logged, InOrder
<1>8. Rising(n)' /\ Ahead(n)' /\ AtTip(n)' /\ Chained(n)'
  BY <1>2 DEF Logged, Rising, Ahead, AtTip, Chained
<1> QED BY <1>5, <1>6, <1>7, <1>8 DEF Logged

LEMMA RedeliverLogged ==
  ASSUME StoreInv, NEW n \in Net, Logged(n), NEW pos \in InCache(n), Redeliver(n, pos)
  PROVE  Logged(n)'
<1>0. StoreTypeOK /\ Bounded(n)
  BY DEF StoreInv
<1> DEFINE c2 == Append(cache[n], pos)
<1>1. pos \in Positions(cache[n]) /\ pos \in Nat /\ cache[n] \in Seq(Nat)
  BY <1>0, StoreTypes, PositionsType DEF InCache, Positions
<1>2. /\ cache'[n] = c2 /\ lastSeq'[n] = pos /\ applied'[n] = stream[n][pos].sequence + 1
      /\ doubt'[n] = doubt[n] \cup {"Redelivered"}
      /\ UNCHANGED <<stream, window, write, cursor, up, snapshot>>
  BY <1>0 DEF Redeliver, Apply, StoreTypeOK
<1>3. Positions(c2) = Positions(cache[n])
  <2>1. Positions(c2) = Positions(cache[n]) \cup {pos}
    BY <1>1, PositionsAppend
  <2> QED BY <1>1, <2>1
<1> HIDE DEF c2
<1>4. Empty(n)'
  BY <1>2 DEF Empty, Redeliver
<1>5. Covered(n)'
  BY <1>1, <1>2, <1>3 DEF Logged, Covered
<1>6. InOrder(n)' /\ AtTip(n)'
  BY <1>2 DEF InOrder, AtTip
<1>7. Rising(n)' /\ Ahead(n)' /\ Chained(n)'
  BY <1>2 DEF Logged, Rising, Ahead, Chained
<1> QED BY <1>4, <1>5, <1>6, <1>7 DEF Logged

LEMMA ReconnectLogged ==
  ASSUME StoreInv, NEW n \in Net, Logged(n), Reconnect(n)
  PROVE  Logged(n)'
<1>0. StoreTypeOK /\ Bounded(n)
  BY DEF StoreInv
<1>1. cursor'[n] = lastSeq[n] /\ UNCHANGED <<stream, window, write, applied, lastSeq, cache, up, snapshot, doubt>>
  BY <1>0 DEF Reconnect, StoreTypeOK
<1>2. Empty(n)'
  BY <1>1 DEF Empty, Reconnect
<1>3. Covered(n)' /\ InOrder(n)'
  BY <1>1 DEF Logged, Covered, InOrder
<1>4. Rising(n)' /\ Ahead(n)' /\ AtTip(n)' /\ Chained(n)'
  BY <1>1 DEF Logged, Rising, Ahead, AtTip, Chained
<1> QED BY <1>2, <1>3, <1>4 DEF Logged

LEMMA EmptyLog ==
  /\ << >> \in Seq(Nat) /\ Positions(<< >>) = {} /\ << >> = Whole(0) /\ Closed({})
<1>1. << >> = Whole(0)
  BY WholeFacts
<1> QED BY <1>1 DEF Positions, Closed

LEMMA ResetLogged ==
  ASSUME StoreInv, NEW n \in Net, up[n], Logged(n), ResetStore(n)
  PROVE  Logged(n)'
<1>0. StoreTypeOK /\ Bounded(n)
  BY DEF StoreInv
<1>1. /\ cache'[n] = << >> /\ write'[n] = [next |-> 0, last |-> None]
      /\ UNCHANGED <<stream, window, applied, cursor, lastSeq, up, snapshot>>
      /\ doubt'[n] = IF cursor[n] = 0 /\ stream[n] = << >> THEN doubt[n]
                     ELSE doubt[n] \cup {"Reset"}
  BY <1>0 DEF ResetStore, StoreTypeOK
<1>2. Empty(n)' /\ Chained(n)'
  BY <1>1 DEF Logged, Empty, Chained
<1>3. CASE "Reset" \in doubt'[n]
  <2>1. Covered(n)' /\ InOrder(n)' /\ Rising(n)' /\ Ahead(n)' /\ AtTip(n)'
    BY <1>3 DEF Covered, InOrder, Rising, Ahead, AtTip
  <2> QED BY <1>2, <2>1 DEF Logged
<1>4. CASE "Reset" \notin doubt'[n]
  <2>1. cursor[n] = 0 /\ stream[n] = << >> /\ doubt'[n] = doubt[n] /\ "Reset" \notin doubt[n]
    BY <1>1, <1>4
  <2>2. Len(stream[n]) = 0 /\ DOMAIN stream[n] = {}
    BY <2>1
  <2>3. lastSeq[n] = 0 /\ \A p \in Positions(cache[n]) : FALSE
    <3>1. lastSeq[n] \in Nat /\ Positions(cache[n]) \subseteq Nat
      BY <1>0, StoreTypes, PositionsType
    <3>2. lastSeq[n] <= 0 /\ \A p \in Positions(cache[n]) : 1 <= p /\ p <= 0
      BY <1>0, <2>2 DEF Bounded
    <3> QED BY <3>1, <3>2
  <2>4. applied[n] = 0
    BY <2>1, <2>3 DEF Logged, Covered
  <2>5. Covered(n)'
    BY <1>1, <2>1, <2>3, <2>4, EmptyLog DEF Logged, Covered
  <2>6. InOrder(n)'
    BY <1>1, <2>1, <2>3, EmptyLog DEF Logged, InOrder
  <2>7. Rising(n)' /\ Ahead(n)' /\ AtTip(n)'
    BY <1>1, <2>1, <2>2 DEF Rising, Ahead, AtTip
  <2> QED BY <1>2, <2>5, <2>6, <2>7 DEF Logged
<1> QED BY <1>3, <1>4

\* A net leaves the memory, with or without a snapshot.
LEMMA ForgottenLogged ==
  ASSUME StoreInv, NEW n \in Net, Logged(n), NEW nets \in SUBSET Net, n \in nets,
         Forgotten(nets),
         \/ snapshot'[n] = snapshot[n]
         \/ snapshot'[n] = [cache |-> cache[n], upTo |-> StreamSeq(cache[n])]
  PROVE  Logged(n)'
<1>0. StoreTypeOK /\ Bounded(n)
  BY DEF StoreInv
<1>1. /\ write'[n] = [next |-> 0, last |-> None] /\ applied'[n] = 0 /\ cursor'[n] = 0
      /\ lastSeq'[n] = 0 /\ cache'[n] = << >> /\ ~ up'[n]
      /\ UNCHANGED <<stream, window, doubt>>
  BY DEF Forgotten
<1>2. cache[n] \in Seq(Nat) /\ cursor[n] \in Nat /\ Len(stream[n]) \in Nat
         /\ \A p \in Positions(cache[n]) : p <= Len(stream[n])
  BY <1>0, StoreTypes DEF Bounded
<1>3. /\ StreamSeq(cache[n]) \in Positions(cache[n]) \cup {0}
      /\ \A p \in Positions(cache[n]) : p <= StreamSeq(cache[n])
  BY <1>2, StreamSeqFacts
<1>4. cache[n] = Whole(cursor[n]) => StreamSeq(cache[n]) = cursor[n]
  BY <1>2, StreamSeqWhole
<1>5. \/ snapshot'[n] = snapshot[n]
      \/ snapshot'[n].cache = cache[n] /\ snapshot'[n].upTo = StreamSeq(cache[n])
  OBVIOUS
<1>6. Empty(n)'
  BY <1>1 DEF Empty
<1>7. Covered(n)'
  <2> SUFFICES ASSUME "Reset" \notin doubt[n], snapshot'[n] # None
               PROVE  /\ Closed(Positions(snapshot'[n].cache))
                      /\ \A p \in Positions(snapshot'[n].cache) : p <= snapshot'[n].upTo
                      /\ snapshot'[n].upTo # 0 =>
                            snapshot'[n].upTo \in Positions(snapshot'[n].cache)
    BY <1>1, EmptyLog DEF Covered
  <2>1. CASE snapshot'[n] = snapshot[n]
    BY <2>1 DEF Logged, Covered
  <2>2. CASE snapshot'[n].cache = cache[n] /\ snapshot'[n].upTo = StreamSeq(cache[n])
    BY <1>3, <2>2 DEF Logged, Covered
  <2> QED BY <1>5, <2>1, <2>2
<1>8. InOrder(n)'
  <2> SUFFICES ASSUME doubt[n] \cap {"Redelivered", "Reset"} = {}, snapshot'[n] # None
               PROVE  snapshot'[n].cache = Whole(snapshot'[n].upTo)
    BY <1>1, EmptyLog DEF InOrder
  <2> QED BY <1>4, <1>5 DEF Logged, InOrder
<1>9. Rising(n)' /\ Ahead(n)' /\ AtTip(n)' /\ Chained(n)'
  BY <1>1 DEF Logged, Rising, Ahead, AtTip, Chained
<1> QED BY <1>6, <1>7, <1>8, <1>9 DEF Logged

LEMMA WakeLogged ==
  ASSUME StoreInv, NEW n \in Net, Logged(n), Wake(n)
  PROVE  Logged(n)'
<1>0. StoreTypeOK /\ Bounded(n)
  BY DEF StoreInv
<1> DEFINE h == Hydrated(n)
           len == Len(stream[n])
           from == IF snapshot[n] = None THEN 0 ELSE snapshot[n].upTo
<1>1. /\ up'[n] /\ cache'[n] = h /\ cursor'[n] = len /\ lastSeq'[n] = len
      /\ applied'[n] = (IF from = len THEN 0 ELSE stream[n][len].sequence + 1)
      /\ write'[n] = WriteAfterWake(n)
      /\ doubt'[n] = IF snapshot[n] # None THEN doubt[n] \ {"AckLost"}
                     ELSE IF stream[n] = << >> THEN doubt[n] ELSE doubt[n] \cup {"Replayed"}
      /\ UNCHANGED <<stream, window, snapshot>>
  BY <1>0 DEF Wake, StoreTypeOK
<1>2. /\ h \in Seq(Nat) /\ len \in Nat
      /\ \A p \in Positions(h) : 1 <= p /\ p <= len
      /\ "Reset" \notin doubt[n] => Positions(h) = 1..len
      /\ doubt[n] \cap {"Redelivered", "Reset"} = {} => h = Whole(len)
  BY <1>0, HydratedFacts, StoreTypes DEF Logged
<1>3. /\ NextAfter(n, h) \in Nat
      /\ \A p \in Positions(h) : stream[n][p].sequence < NextAfter(n, h)
      /\ NextAfter(n, h) = 0 \/ \E p \in Positions(h) : stream[n][p].sequence + 1 = NextAfter(n, h)
  BY <1>0, <1>2, NextAfterFacts
<1>4. snapshot[n] # None => write'[n] = [next |-> NextAfter(n, h), last |-> TipOf(h)]
  BY <1>1 DEF WriteAfterWake
<1>5. snapshot[n] = None => write'[n] = [next |-> 0, last |-> None]
  BY <1>1 DEF WriteAfterWake
<1>6. from \in Nat /\ from <= len
  <2>1. CASE snapshot[n] = None
    BY <1>2, <2>1
  <2>2. CASE snapshot[n] # None
    <3>1. snapshot[n].upTo \in Nat
      BY <1>0, <2>2, StoreTypes
    <3>2. snapshot[n].upTo <= Len(stream[n])
      BY <1>0, <2>2 DEF Bounded
    <3> QED BY <2>2, <3>1, <3>2
  <2> QED BY <2>1, <2>2
<1>7. DOMAIN stream[n] = 1..len /\ \A p \in 1..len : stream[n][p].sequence \in Nat
  BY <1>0, StoreTypes
<1>8. stream[n] = << >> <=> len = 0
  BY <1>0, StoreTypes
<1> HIDE DEF h, len, from
<1>9. doubt'[n] \cap {"Replayed", "Reset"} = {} =>
         doubt[n] \cap {"Replayed", "Reset"} = {} /\ (snapshot[n] # None \/ len = 0)
  BY <1>1, <1>8
<1>10. Empty(n)'
  BY <1>1 DEF Empty
<1>11. Covered(n)'
  <2> SUFFICES ASSUME "Reset" \notin doubt'[n]
               PROVE  /\ Closed(Positions(h)) /\ (len # 0 => len \in Positions(h))
                      /\ snapshot[n] # None =>
                            /\ Closed(Positions(snapshot[n].cache))
                            /\ \A p \in Positions(snapshot[n].cache) : p <= snapshot[n].upTo
                            /\ snapshot[n].upTo # 0 =>
                                  snapshot[n].upTo \in Positions(snapshot[n].cache)
                      /\ from # len => \E p \in Positions(h) :
                            stream[n][p].sequence + 1 = stream[n][len].sequence + 1
    BY <1>1 DEF Covered
  <2>1. "Reset" \notin doubt[n]
    BY <1>1
  <2>2. Positions(h) = 1..len
    BY <1>2, <2>1
  <2>3. Closed(Positions(h)) /\ (len # 0 => len \in Positions(h))
    BY <1>2, <2>2 DEF Closed
  <2>4. from # len => len # 0
    BY <1>2, <1>6
  <2> QED BY <2>1, <2>3, <2>4 DEF Logged, Covered
<1>12. InOrder(n)'
  <2>1. doubt'[n] \cap {"Redelivered", "Reset"} = {} => doubt[n] \cap {"Redelivered", "Reset"} = {}
    BY <1>1
  <2> QED BY <1>1, <1>2, <2>1 DEF Logged, InOrder
<1>13. doubt'[n] \cap {"Replayed", "Reset"} = {} =>
          \A p \in 1..len : stream[n][p].sequence < write'[n].next
  <2> SUFFICES ASSUME doubt'[n] \cap {"Replayed", "Reset"} = {}, NEW p \in 1..len
               PROVE  stream[n][p].sequence < write'[n].next
    OBVIOUS
  <2>1. snapshot[n] # None /\ Positions(h) = 1..len
    BY <1>2, <1>9
  <2> QED BY <1>3, <1>4, <2>1
<1>14. Rising(n)'
  <2> SUFFICES ASSUME doubt'[n] \cap {"Replayed", "Reset"} = {}
               PROVE  /\ \A p, q \in 1..len : p <= q => stream[n][p].sequence <= stream[n][q].sequence
                      /\ \A p \in 1..len : stream[n][p].sequence <= write'[n].next
    BY <1>1, <1>7 DEF Rising
  <2>1. \A p, q \in 1..len : p <= q => stream[n][p].sequence <= stream[n][q].sequence
    BY <1>7, <1>9 DEF Logged, Rising
  <2>2. write'[n].next \in Nat
    BY <1>3, <1>4, <1>5
  <2> QED BY <1>7, <1>13, <2>1, <2>2
<1>15. Ahead(n)'
  BY <1>1, <1>7, <1>13 DEF Ahead
<1>16. AtTip(n)'
  <2> SUFFICES ASSUME doubt'[n] = {}
               PROVE  IF len = 0 THEN write'[n] = [next |-> 0, last |-> None]
                      ELSE write'[n] = [next |-> stream[n][len].sequence + 1, last |-> len]
    BY <1>1, <1>8 DEF AtTip, len
  <2>1. CASE snapshot[n] = None
    BY <1>5, <1>9, <2>1
  <2>2. CASE snapshot[n] # None
    <3>1. doubt[n] \cap {"Redelivered", "Reset"} = {} /\ doubt[n] \cap {"Replayed", "Reset"} = {}
      BY <1>1, <2>2
    <3>2. h = Whole(len) /\ Positions(h) = 1..len /\ Len(h) = len
      BY <1>2, <3>1, WholeFacts
    <3>3. CASE len = 0
      <4>1. h = << >> /\ Positions(h) = {}
        BY <3>2, <3>3, EmptyLog
      <4>2. NextAfter(n, h) = 0 /\ TipOf(h) = None
        BY <1>3, <4>1 DEF TipOf
      <4> QED BY <1>4, <2>2, <3>3, <4>2
    <3>4. CASE len # 0
      <4>1. len \in 1..len
        BY <1>2, <3>4
      <4>2. h # << >> /\ h[len] = len
        BY <1>2, <3>2, <3>4, <4>1, WholeFacts
      <4>3. TipOf(h) = len
        BY <3>2, <4>2 DEF TipOf
      <4>4. stream[n][len].sequence < NextAfter(n, h)
        BY <1>3, <3>2, <4>1
      <4>5. PICK p \in 1..len : stream[n][p].sequence + 1 = NextAfter(n, h)
        BY <1>3, <1>7, <3>2, <4>1, <4>4
      <4>6. stream[n][p].sequence <= stream[n][len].sequence
        BY <1>2, <1>7, <3>1, <4>1 DEF Logged, Rising
      <4>7. NextAfter(n, h) = stream[n][len].sequence + 1
        BY <1>7, <4>1, <4>4, <4>5, <4>6
      <4> QED BY <1>4, <2>2, <3>4, <4>3, <4>7
    <3> QED BY <3>3, <3>4
  <2> QED BY <2>1, <2>2
<1>17. Chained(n)'
  BY <1>1 DEF Logged, Chained
<1> QED BY <1>10, <1>11, <1>12, <1>14, <1>15, <1>16, <1>17 DEF Logged

LInv == TInv /\ \A n \in Net : Logged(n)

LEMMA InitLInv == Init => LInv
<1> SUFFICES ASSUME Init, NEW n \in Net PROVE Logged(n)
  BY InitTInv DEF LInv
<1>1. /\ stream[n] = << >> /\ write[n] = [next |-> 0, last |-> None] /\ applied[n] = 0
      /\ cursor[n] = 0 /\ lastSeq[n] = 0 /\ cache[n] = << >> /\ snapshot[n] = None
      /\ doubt[n] = {}
  BY DEF Init, StoreInit
<1>2. DOMAIN stream[n] = {}
  BY <1>1
<1>3. Empty(n) /\ AtTip(n)
  BY <1>1 DEF Empty, AtTip
<1>4. Covered(n) /\ InOrder(n)
  BY <1>1, EmptyLog DEF Covered, InOrder
<1>5. Rising(n) /\ Ahead(n) /\ Chained(n)
  BY <1>2 DEF Rising, Ahead, Chained
<1> QED BY <1>3, <1>4, <1>5 DEF Logged

LEMMA NextLInv == LInv /\ [Next]_vars => LInv'
<1> SUFFICES ASSUME LInv, [Next]_vars PROVE \A m \in Net : Logged(m)'
  BY NextTInv DEF LInv
<1>0. TInv /\ StoreInv /\ StoreTypeOK /\ CallTypeOK /\ JobsOK /\ \A m \in Net : Logged(m)
  BY DEF LInv, TInv, StoreInv
<1>1. ASSUME UNCHANGED <<stream, memory, snapshot, doubt>> PROVE \A m \in Net : Logged(m)'
  <2>1. \A m \in Net : Alone(m)
    BY <1>1 DEF Alone, memory
  <2> QED BY <1>0, <2>1, AloneLogged
<1>2. ASSUME NEW n \in Net, Logged(n)', \A m \in Net : m # n => Alone(m)
      PROVE  \A m \in Net : Logged(m)'
  BY <1>0, <1>2, AloneLogged
<1>3. ASSUME NEW w \in Writer, NEW kind \in Kind, NEW t \in Token, NEW id \in DedupId \cup {NoId},
             up[NetOf(w)],
             \/ PublishStored(NetOf(w), kind, t, id)
             \/ PublishAckLost(NetOf(w), kind, t, id)
      PROVE  \A m \in Net : Logged(m)'
  <2>1. NetOf(w) \in Net
    BY NetOfType
  <2>2. Logged(NetOf(w))'
    BY <1>0, <1>3, <2>1, StoreEventLogged
  <2>3. \A m \in Net : m # NetOf(w) => Alone(m)
    <3>1. CASE PublishStored(NetOf(w), kind, t, id)
      BY <1>0, <3>1 DEF PublishStored, StoreEvent, Alone, StoreTypeOK
    <3>2. CASE PublishAckLost(NetOf(w), kind, t, id)
      BY <1>0, <3>2 DEF PublishAckLost, StoreEvent, KeepTip, Alone, StoreTypeOK
    <3> QED BY <1>3, <3>1, <3>2
  <2> QED BY <1>2, <2>1, <2>2, <2>3
<1>4. ASSUME NEW w \in Writer, up[NetOf(w)], KeepTip(NetOf(w)),
             UNCHANGED <<stream, window, applied, cursor, lastSeq, cache, up, snapshot, doubt>>
      PROVE  \A m \in Net : Logged(m)'
  <2>1. NetOf(w) \in Net
    BY NetOfType
  <2>2. Logged(NetOf(w))'
    BY <1>0, <1>4, <2>1, KeepTipLogged
  <2>3. \A m \in Net : m # NetOf(w) => Alone(m)
    BY <1>0, <1>4 DEF KeepTip, Alone, StoreTypeOK
  <2> QED BY <1>2, <2>1, <2>2, <2>3
<1>5. ASSUME NEW w \in Writer, AppendStored(w) PROVE \A m \in Net : Logged(m)'
  BY <1>0, <1>3, <1>5, AppendTypes DEF AppendStored, AtAppend
<1>6. ASSUME NEW w \in Writer, AppendDuplicate(w) PROVE \A m \in Net : Logged(m)'
  BY <1>4, <1>6 DEF AppendDuplicate, AtAppend, PublishDuplicate
<1>7. ASSUME NEW w \in Writer, AppendFails(w) PROVE \A m \in Net : Logged(m)'
  <2>1. CASE PublishLost(NetOf(w))
    BY <1>4, <1>7, <2>1 DEF AppendFails, AtAppend, PublishLost
  <2>2. CASE PublishAckLost(NetOf(w), job[w].kind, job[w].token, job[w].id)
    BY <1>0, <1>3, <1>7, <2>2, AppendTypes DEF AppendFails, AtAppend
  <2> QED BY <1>7, <2>1, <2>2 DEF AppendFails
<1>8. ASSUME NEW n \in Net, Consume(n) PROVE \A m \in Net : Logged(m)'
  <2>1. Logged(n)'
    BY <1>0, <1>8, ConsumeLogged
  <2>2. \A m \in Net : m # n => Alone(m)
    BY <1>0, <1>8 DEF Consume, Apply, Alone, StoreTypeOK
  <2> QED BY <1>2, <2>1, <2>2
<1>9. ASSUME NEW n \in Net, NEW pos \in InCache(n), Redeliver(n, pos)
      PROVE  \A m \in Net : Logged(m)'
  <2>1. Logged(n)'
    BY <1>0, <1>9, RedeliverLogged
  <2>2. \A m \in Net : m # n => Alone(m)
    BY <1>0, <1>9 DEF Redeliver, Apply, Alone, StoreTypeOK
  <2> QED BY <1>2, <2>1, <2>2
<1>10. ASSUME NEW n \in Net, Reconnect(n) PROVE \A m \in Net : Logged(m)'
  <2>1. Logged(n)'
    BY <1>0, <1>10, ReconnectLogged
  <2>2. \A m \in Net : m # n => Alone(m)
    BY <1>0, <1>10 DEF Reconnect, Alone, StoreTypeOK
  <2> QED BY <1>2, <2>1, <2>2
<1>11. ASSUME NEW n \in Net, Reset(n) PROVE \A m \in Net : Logged(m)'
  <2>1. Logged(n)'
    BY <1>0, <1>11, ResetLogged DEF Reset
  <2>2. \A m \in Net : m # n => Alone(m)
    BY <1>0, <1>11 DEF Reset, ResetStore, Alone, StoreTypeOK
  <2> QED BY <1>2, <2>1, <2>2
<1>12. ASSUME NEW n \in Net, Hibernate(n) PROVE \A m \in Net : Logged(m)'
  <2>1. Forgotten({n}) /\ {n} \in SUBSET Net
    BY <1>12 DEF Hibernate, HibernateStore
  <2>2. \/ snapshot' = snapshot
        \/ snapshot' = [snapshot EXCEPT ![n] = [cache |-> cache[n], upTo |-> StreamSeq(cache[n])]]
    BY <1>12 DEF Hibernate, HibernateStore
  <2>3. \/ snapshot'[n] = snapshot[n]
        \/ snapshot'[n] = [cache |-> cache[n], upTo |-> StreamSeq(cache[n])]
    BY <1>0, <2>2 DEF StoreTypeOK
  <2>4. Logged(n)'
    BY <1>0, <2>1, <2>3, ForgottenLogged
  <2>5. \A m \in Net : m # n => snapshot'[m] = snapshot[m]
    BY <1>0, <2>2 DEF StoreTypeOK
  <2>6. ASSUME NEW m \in Net, m # n PROVE up'[m] = up[m]
    <3>1. up'[m] = (up[m] /\ m \notin {n}) /\ up[m] \in BOOLEAN
      BY <1>0, <2>1, StoreTypes DEF Forgotten
    <3> QED BY <2>6, <3>1
  <2>7. \A m \in Net : m # n => Alone(m)
    BY <2>1, <2>5, <2>6 DEF Forgotten, Alone
  <2> QED BY <1>2, <2>4, <2>7
<1>13. ASSUME Crash PROVE \A m \in Net : Logged(m)'
  <2>1. Forgotten(Net) /\ snapshot' = snapshot /\ Net \in SUBSET Net
    BY <1>13 DEF Crash
  <2> QED BY <1>0, <2>1, ForgottenLogged
<1>14. ASSUME NEW n \in Net, Wake(n) PROVE \A m \in Net : Logged(m)'
  <2>1. Logged(n)'
    BY <1>0, <1>14, WakeLogged
  <2>2. \A m \in Net : m # n => Alone(m)
    BY <1>0, <1>14 DEF Wake, Alone, StoreTypeOK
  <2> QED BY <1>2, <2>1, <2>2
<1>15. ASSUME UNCHANGED svars PROVE \A m \in Net : Logged(m)'
  BY <1>1, <1>15 DEF svars
<1>16. CASE Progress
  <2>1. ASSUME NEW n \in Net, ConsumeNext(n) \/ WakeNet(n) PROVE \A m \in Net : Logged(m)'
    BY <1>8, <1>14, <2>1 DEF ConsumeNext, WakeNet
  <2>2. ASSUME NEW w \in Writer, AppendApplied(w) \/ AppendTimesOut(w)
        PROVE  \A m \in Net : Logged(m)'
    BY <1>15, <2>2 DEF AppendApplied, AppendTimesOut
  <2>3. ASSUME \/ \E t \in Work : Fire(t)
               \/ \E m \in inbox : Receive(m)
               \/ Settle \/ Nak \/ DeadLetter
               \/ \E c \in Canceller : RequestCancel(c)
        PROVE  \A m \in Net : Logged(m)'
    BY <1>15, <2>3 DEF Fire, Receive, Settle, Nak, DeadLetter, RequestCancel
  <2> QED BY <1>5, <1>6, <1>16, <2>1, <2>2, <2>3 DEF Progress
<1>17. CASE Failure
  <2>1. ASSUME NEW n \in Net, ConsumerReconnects(n) \/ ConsumerRedelivers(n)
        PROVE  \A m \in Net : Logged(m)'
    BY <1>9, <1>10, <2>1 DEF ConsumerReconnects, ConsumerRedelivers
  <2>2. ASSUME NEW id, EndWindow(id) PROVE \A m \in Net : Logged(m)'
    BY <1>1, <2>2 DEF EndWindow
  <2> QED BY <1>7, <1>11, <1>12, <1>13, <1>17, <2>1, <2>2 DEF Failure
<1>18. CASE UNCHANGED vars
  BY <1>15, <1>18 DEF vars
<1> QED BY <1>16, <1>17, <1>18 DEF Next

(***************************************************************************)
(* "No double-fold, no loss": the cache of a net that runs is the log up to *)
(* the consumer's position, in order, unless an event was redelivered or   *)
(* the store was reset.                                                    *)
(***************************************************************************)
THEOREM CacheAlwaysLog == Spec => []CacheIsLog
<1>1. LInv => CacheIsLog
  BY DEF LInv, Logged, InOrder, CacheIsLog, Whole
<1> QED BY <1>1, InitLInv, NextLInv, PTL DEF Spec

(***************************************************************************)
(* The hash chain and the numbering are sound for every event minted by a  *)
(* writer that nothing had put in doubt.                                   *)
(***************************************************************************)
THEOREM ChainAlwaysSound == Spec => []ChainSound
<1>1. LInv => ChainSound
  BY DEF LInv, Logged, Chained, ChainSound
<1> QED BY <1>1, InitLInv, NextLInv, PTL DEF Spec

-----------------------------------------------------------------------------
(***************************************************************************)
(* Read your writes.                                                       *)
(***************************************************************************)
\* A call is under way in a net that is up only.
Calls == \A w \in Writer : job[w].at \notin {"idle", "gone"} => up[NetOf(w)]

\* An append that waits for a sequence nobody minted before waits for its event.
Waits(w) ==
    job[w].at = "wait" /\ doubt[NetOf(w)] \cap {"AckLost", "Replayed", "Reset"} = {} =>
        /\ job[w].pos \in DOMAIN stream[NetOf(w)]
        /\ stream[NetOf(w)][job[w].pos].sequence = job[w].seq
        /\ \A p \in DOMAIN stream[NetOf(w)] :
              p < job[w].pos => stream[NetOf(w)][p].sequence < job[w].seq

RInv == LInv /\ Calls /\ \A w \in Writer : Waits(w)

\* Actions: a stream only grows, and only a wake clears a doubt, that of a lost ack.
Grows(m) == \A p \in DOMAIN stream[m] : p \in DOMAIN stream'[m] /\ stream'[m][p] = stream[m][p]
Doubting(m) ==
    /\ up[m] => doubt[m] \subseteq doubt'[m]
    /\ doubt[m] \ {"AckLost"} \subseteq doubt'[m]

LEMMA EventGrows ==
  ASSUME StoreInv, NEW n \in Net, NEW kind \in Kind, NEW t \in Token,
         NEW id \in DedupId \cup {NoId}, StoreEvent(n, kind, t, id)
  PROVE  /\ Grows(n) /\ \A m \in Net : m # n => stream'[m] = stream[m]
         /\ Len(stream'[n]) = Len(stream[n]) + 1
         /\ DOMAIN stream'[n] = DOMAIN stream[n] \cup {Len(stream[n]) + 1}
         /\ stream'[n][Len(stream[n]) + 1] = Mint(n, kind, t, id)
<1> DEFINE e == Mint(n, kind, t, id)
           s == stream[n]
           s2 == Append(s, e)
<1>0. StoreTypeOK
  BY DEF StoreInv
<1>1. e \in Event
  <2>1. (doubt[n] = {}) \in BOOLEAN
    OBVIOUS
  <2>2. TipFor(n) \in Nat \cup {None} /\ write[n].next \in Nat
    BY <1>0, TipTypes, StoreTypes
  <2> QED BY <2>1, <2>2 DEF Mint, Event
<1> HIDE DEF e
<1>2. s \in Seq(Event) /\ Len(s) \in Nat /\ DOMAIN s = 1..Len(s)
  BY <1>0, StoreTypes
<1>3. /\ Len(s2) = Len(s) + 1 /\ DOMAIN s2 = 1..(Len(s) + 1)
      /\ s2[Len(s) + 1] = e /\ \A i \in 1..Len(s) : s2[i] = s[i]
  BY <1>1, <1>2
<1>4. stream' = [stream EXCEPT ![n] = s2]
  BY DEF StoreEvent, e
<1> HIDE DEF s2
<1>5. stream'[n] = s2 /\ \A m \in Net : m # n => stream'[m] = stream[m]
  BY <1>0, <1>4 DEF StoreTypeOK
<1>6. 1..(Len(s) + 1) = (1..Len(s)) \cup {Len(s) + 1}
  BY <1>2
<1>7. Grows(n)
  BY <1>2, <1>3, <1>5, <1>6 DEF Grows
<1> QED BY <1>2, <1>3, <1>5, <1>6, <1>7 DEF e

LEMMA NextGrows ==
  ASSUME TInv, [Next]_vars
  PROVE  \A m \in Net : Grows(m) /\ Doubting(m)
<1>0. StoreInv /\ StoreTypeOK /\ CallTypeOK /\ JobsOK
  BY DEF TInv, StoreInv
<1>1. ASSUME UNCHANGED stream, \A m \in Net : Doubting(m)
      PROVE  \A m \in Net : Grows(m) /\ Doubting(m)
  BY <1>1 DEF Grows
<1>2. ASSUME UNCHANGED <<stream, doubt>> PROVE \A m \in Net : Grows(m) /\ Doubting(m)
  BY <1>2 DEF Grows, Doubting
<1>3. ASSUME NEW w \in Writer, StoreEvent(NetOf(w), job[w].kind, job[w].token, job[w].id),
             doubt' = doubt \/ doubt' = [doubt EXCEPT ![NetOf(w)] = @ \cup {"AckLost"}]
      PROVE  \A m \in Net : Grows(m) /\ Doubting(m)
  <2>1. NetOf(w) \in Net
    BY NetOfType
  <2>2. Grows(NetOf(w)) /\ \A m \in Net : m # NetOf(w) => stream'[m] = stream[m]
    BY <1>0, <1>3, <2>1, AppendTypes, EventGrows
  <2>3. \A m \in Net : doubt[m] \subseteq doubt'[m]
    BY <1>0, <1>3, <2>1 DEF StoreTypeOK
  <2> QED BY <2>2, <2>3 DEF Grows, Doubting
<1>4. ASSUME NEW w \in Writer, AppendStored(w) \/ AppendFails(w)
      PROVE  \A m \in Net : Grows(m) /\ Doubting(m)
  <2>1. CASE AppendStored(w)
    BY <1>3, <2>1 DEF AppendStored, PublishStored
  <2>2. CASE AppendFails(w)
    <3>1. CASE PublishLost(NetOf(w))
      BY <1>2, <3>1 DEF PublishLost
    <3>2. CASE PublishAckLost(NetOf(w), job[w].kind, job[w].token, job[w].id)
      BY <1>3, <3>2 DEF PublishAckLost
    <3> QED BY <2>2, <3>1, <3>2 DEF AppendFails
  <2> QED BY <1>4, <2>1, <2>2
<1>5. ASSUME NEW n \in Net, WakeNet(n) \/ Reset(n) \/ ConsumerRedelivers(n)
      PROVE  \A m \in Net : Grows(m) /\ Doubting(m)
  <2>1. CASE WakeNet(n)
    <3>1. ~ up[n] /\ stream' = stream /\ \A m \in Net : m # n => doubt'[m] = doubt[m]
      BY <1>0, <2>1 DEF WakeNet, Wake, StoreTypeOK
    <3>2. doubt[n] \ {"AckLost"} \subseteq doubt'[n]
      BY <1>0, <2>1 DEF WakeNet, Wake, StoreTypeOK
    <3> QED BY <1>1, <3>1, <3>2 DEF Doubting
  <2>2. CASE Reset(n)
    <3>1. stream' = stream /\ \A m \in Net : doubt[m] \subseteq doubt'[m]
      BY <1>0, <2>2 DEF Reset, ResetStore, StoreTypeOK
    <3> QED BY <1>1, <3>1 DEF Doubting
  <2>3. CASE ConsumerRedelivers(n)
    <3>1. stream' = stream /\ \A m \in Net : doubt[m] \subseteq doubt'[m]
      BY <1>0, <2>3 DEF ConsumerRedelivers, Redeliver, StoreTypeOK
    <3> QED BY <1>1, <3>1 DEF Doubting
  <2> QED BY <1>5, <2>1, <2>2, <2>3
<1>6. CASE Progress
  <2>1. ASSUME NEW n \in Net, ConsumeNext(n) PROVE UNCHANGED <<stream, doubt>>
    BY <2>1 DEF ConsumeNext, Consume
  <2>2. ASSUME NEW w \in Writer, AppendDuplicate(w) \/ AppendApplied(w) \/ AppendTimesOut(w)
        PROVE  UNCHANGED <<stream, doubt>>
    BY <2>2 DEF AppendDuplicate, PublishDuplicate, AppendApplied, AppendTimesOut, svars
  <2>3. ASSUME \/ \E t \in Work : Fire(t)
               \/ \E m \in inbox : Receive(m)
               \/ Settle \/ Nak \/ DeadLetter
               \/ \E c \in Canceller : RequestCancel(c)
        PROVE  UNCHANGED <<stream, doubt>>
    BY <2>3 DEF Fire, Receive, Settle, Nak, DeadLetter, RequestCancel, svars
  <2> QED BY <1>2, <1>4, <1>5, <1>6, <2>1, <2>2, <2>3 DEF Progress
<1>7. CASE Failure
  <2>1. ASSUME NEW n \in Net, ConsumerReconnects(n) \/ Hibernate(n) PROVE UNCHANGED <<stream, doubt>>
    BY <2>1 DEF ConsumerReconnects, Reconnect, Hibernate, HibernateStore, Forgotten
  <2>2. ASSUME NEW id, EndWindow(id) \/ Crash PROVE UNCHANGED <<stream, doubt>>
    BY <2>2 DEF EndWindow, Crash, Forgotten
  <2> QED BY <1>2, <1>4, <1>5, <1>7, <2>1, <2>2 DEF Failure
<1>8. CASE UNCHANGED vars
  BY <1>2, <1>8 DEF vars, svars
<1> QED BY <1>6, <1>7, <1>8 DEF Next

\* What a step does to a call: nothing, end it, or move it in a net that stays
\* up; only an append that is stored begins to wait.
CallStep(w) ==
    /\ job'[w].at \in {"idle", "gone"} \/ up'[NetOf(w)] \/ (job'[w] = job[w] /\ up'[NetOf(w)] = up[NetOf(w)])
    /\ job'[w].at = "wait" => job'[w] = job[w] \/ AppendStored(w)

LEMMA NextCallStep ==
  ASSUME TInv, [Next]_vars, NEW w \in Writer
  PROVE  CallStep(w)
<1>0. /\ StoreInv /\ StoreTypeOK /\ CallTypeOK /\ JobsOK
      /\ job \in [Writer -> Job] /\ up \in [Net -> BOOLEAN] /\ NetOf(w) \in Net
  BY NetOfType DEF TInv, StoreInv, CallTypeOK, StoreTypeOK
<1>1. ASSUME UNCHANGED <<job, up>> PROVE CallStep(w)
  BY <1>1 DEF CallStep
<1>2. ASSUME NEW v \in Writer, NEW r, job' = [job EXCEPT ![v] = r], r.at # "wait",
             r.at \in {"idle", "gone"} \/ up[NetOf(v)], up' = up
      PROVE  CallStep(w)
  BY <1>0, <1>2 DEF CallStep
<1>3. ASSUME NEW v \in Writer, AppendStored(v) PROVE CallStep(w)
  <2>1. up' = up /\ up[NetOf(v)] /\ (v # w => job'[w] = job[w])
    BY <1>0, <1>3 DEF AppendStored, AtAppend, PublishStored
  <2> QED BY <1>3, <2>1 DEF CallStep
<1>4. ASSUME NEW v \in Writer, job[v].at \in {"append", "wait"}, ReturnsOk(v), up' = up, up[NetOf(v)]
      PROVE  CallStep(w)
  <2>1. CASE v = Loop
    <3>1. CASE job[Loop].kind = "Fired"
      <4> DEFINE r == [Idle EXCEPT !.at = "append", !.kind = "BridgedOut", !.token = job[Loop].token]
      <4>1. job' = [job EXCEPT ![Loop] = r] /\ r.at = "append"
        BY <1>4, <2>1, <3>1 DEF ReturnsOk, LoopReturnsOk, Idle
      <4> HIDE DEF r
      <4> QED BY <1>2, <1>4, <2>1, <4>1
    <3>2. CASE job[Loop].kind # "Fired"
      <4>1. job' = [job EXCEPT ![Loop] = Idle]
        BY <1>4, <2>1, <3>2 DEF ReturnsOk, LoopReturnsOk
      <4> QED BY <1>2, <1>4, <2>1, <4>1, IdleFacts
    <3> QED BY <3>1, <3>2
  <2>2. CASE v # Loop
    <3> DEFINE r == IF v = Listener THEN [job[v] EXCEPT !.at = "ok"] ELSE Gone
    <3>1. job' = [job EXCEPT ![v] = r]
      BY <1>4, <2>2 DEF ReturnsOk
    <3>2. job[v] \in Job
      BY <1>0
    <3>3. r.at # "wait"
      BY <3>2, IdleFacts DEF Job
    <3> HIDE DEF r
    <3> QED BY <1>2, <1>4, <3>1, <3>3
  <2> QED BY <2>1, <2>2
<1>5. ASSUME NEW v \in Writer, NEW res \in {"failed", "timeout"}, ReturnsError(v, res), up' = up,
             up[NetOf(v)]
      PROVE  CallStep(w)
  <2> DEFINE r == IF v = Loop THEN Idle
                  ELSE IF v = Listener THEN [job[v] EXCEPT !.at = res] ELSE Gone
  <2>1. job' = [job EXCEPT ![v] = r]
    BY <1>5 DEF ReturnsError
  <2>2. job[v] \in Job
    BY <1>0
  <2>3. r.at # "wait"
    BY <2>2, IdleFacts DEF Job
  <2> HIDE DEF r
  <2> QED BY <1>2, <1>5, <2>1, <2>3
<1>6. ASSUME NEW v \in Writer, AppendDuplicate(v) \/ AppendApplied(v) PROVE CallStep(w)
  BY <1>4, <1>6 DEF AppendDuplicate, AppendApplied, AtAppend, PublishDuplicate, svars, memory
<1>7. ASSUME NEW v \in Writer, AppendFails(v) \/ AppendTimesOut(v) PROVE CallStep(w)
  <2>1. CASE AppendFails(v)
    BY <1>5, <2>1 DEF AppendFails, AtAppend, PublishLost, PublishAckLost
  <2>2. CASE AppendTimesOut(v)
    BY <1>5, <2>2 DEF AppendTimesOut, svars, memory
  <2> QED BY <1>7, <2>1, <2>2
<1>8. ASSUME NEW t \in Work, Fire(t) PROVE CallStep(w)
  <2> DEFINE r == [Idle EXCEPT !.at = "append", !.kind = "Fired", !.token = t]
  <2>1. job' = [job EXCEPT ![Loop] = r] /\ r.at = "append" /\ up' = up /\ up[NetOf(Loop)]
    BY <1>8 DEF Fire, Idle, NetOf, svars, memory
  <2> HIDE DEF r
  <2> QED BY <1>2, <2>1, JobsOfFacts
<1>9. ASSUME NEW m \in inbox, Receive(m) PROVE CallStep(w)
  <2> DEFINE r == IF m.id \in Known THEN Injecting("ok", m.token, m.id)
                  ELSE Injecting("append", m.token, m.id)
  <2>1. job' = [job EXCEPT ![Listener] = r] /\ r.at # "wait" /\ up' = up /\ up[NetOf(Listener)]
    BY <1>9, WriterAssumption DEF Receive, CheckIndex, Injecting, Idle, NetOf, svars, memory
  <2> HIDE DEF r
  <2> QED BY <1>2, <2>1, JobsOfFacts
<1>10. ASSUME NEW c \in Canceller, RequestCancel(c) PROVE CallStep(w)
  <2> DEFINE r == IF CancelId \in Known THEN Gone ELSE Injecting("append", Cancel, CancelId)
  <2>1. c \in Writer /\ c # Loop
    BY WriterAssumption DEF Writer
  <2>2. job' = [job EXCEPT ![c] = r] /\ r.at # "wait" /\ up' = up /\ up[NetOf(c)]
    BY <1>10, <2>1 DEF RequestCancel, CheckIndex, Injecting, Idle, Gone, NetOf, svars, memory
  <2> HIDE DEF r
  <2> QED BY <1>2, <2>1, <2>2
<1>11. ASSUME Settle \/ Nak \/ DeadLetter PROVE CallStep(w)
  <2>1. job' = [job EXCEPT ![Listener] = Idle] /\ up' = up
    BY <1>11 DEF Settle, Nak, DeadLetter, Finish, svars, memory
  <2> QED BY <1>2, <2>1, IdleFacts, JobsOfFacts
<1>12. ASSUME NEW n \in Net, ConsumeNext(n) \/ ConsumerReconnects(n) \/ ConsumerRedelivers(n) \/ Reset(n)
       PROVE  CallStep(w)
  <2>1. UNCHANGED <<job, up>>
    BY <1>12 DEF ConsumeNext, Consume, ConsumerReconnects, Reconnect, ConsumerRedelivers,
                 Redeliver, Reset, ResetStore, bvars
  <2> QED BY <1>1, <2>1
<1>13. ASSUME NEW n \in Net, WakeNet(n) PROVE CallStep(w)
  <2>1. job' = job /\ up' = [up EXCEPT ![n] = TRUE]
    BY <1>13 DEF WakeNet, Wake, bvars
  <2> QED BY <1>0, <2>1 DEF CallStep
<1>14. ASSUME NEW n \in Net, Hibernate(n) PROVE CallStep(w)
  <2>1. job' = job /\ NoCaller(n) /\ up'[NetOf(w)] = (up[NetOf(w)] /\ NetOf(w) \notin {n})
    BY <1>0, <1>14 DEF Hibernate, HibernateStore, Forgotten
  <2>2. CASE NetOf(w) = n
    BY <2>1, <2>2 DEF NoCaller, CallStep
  <2>3. CASE NetOf(w) # n
    <3>1. up'[NetOf(w)] = up[NetOf(w)]
      BY <1>0, <2>1, <2>3
    <3> QED BY <2>1, <3>1 DEF CallStep
  <2> QED BY <2>2, <2>3
<1>15. ASSUME Crash PROVE CallStep(w)
  BY <1>15, IdleFacts DEF Crash, CallStep
<1>16. ASSUME NEW id, EndWindow(id) PROVE CallStep(w)
  BY <1>1, <1>16 DEF EndWindow, memory
<1>17. CASE Progress
  BY <1>3, <1>6, <1>7, <1>8, <1>9, <1>10, <1>11, <1>12, <1>13, <1>17 DEF Progress
<1>18. CASE Failure
  BY <1>7, <1>12, <1>14, <1>15, <1>16, <1>18 DEF Failure
<1>19. CASE UNCHANGED vars
  BY <1>1, <1>19 DEF vars, svars, bvars, memory
<1> QED BY <1>17, <1>18, <1>19 DEF Next

LEMMA InitRInv == Init => RInv
<1> SUFFICES ASSUME Init PROVE Calls /\ \A w \in Writer : Waits(w)
  BY InitLInv DEF RInv
<1>1. \A w \in Writer : job[w].at = "idle"
  BY IdleFacts DEF Init
<1> QED BY <1>1 DEF Calls, Waits

LEMMA NextRInv == RInv /\ [Next]_vars => RInv'
<1> SUFFICES ASSUME RInv, [Next]_vars PROVE Calls' /\ \A w \in Writer : Waits(w)'
  BY NextLInv DEF RInv
<1>0. /\ TInv /\ StoreInv /\ StoreTypeOK /\ CallTypeOK /\ JobsOK /\ Calls
      /\ \A n \in Net : Logged(n)
  BY DEF RInv, LInv, TInv, StoreInv
<1>1. \A w \in Writer : CallStep(w)
  BY <1>0, NextCallStep
<1>2. Calls'
  BY <1>0, <1>1 DEF Calls, CallStep
<1>3. ASSUME NEW w \in Writer PROVE Waits(w)'
  <2> DEFINE n == NetOf(w)
  <2> SUFFICES ASSUME job'[w].at = "wait", doubt'[n] \cap {"AckLost", "Replayed", "Reset"} = {}
               PROVE  /\ job'[w].pos \in DOMAIN stream'[n]
                      /\ stream'[n][job'[w].pos].sequence = job'[w].seq
                      /\ \A p \in DOMAIN stream'[n] :
                            p < job'[w].pos => stream'[n][p].sequence < job'[w].seq
    BY DEF Waits, NetOf
  <2>0. n \in Net /\ job[w] \in Job /\ job \in [Writer -> Job]
    BY <1>0, NetOfType DEF CallTypeOK
  <2>1. Len(stream[n]) \in Nat /\ DOMAIN stream[n] = 1..Len(stream[n])
           /\ \A p \in DOMAIN stream[n] : stream[n][p].sequence \in Nat
    BY <1>0, <2>0, StoreTypes
  <2>2. Grows(n) /\ Doubting(n)
    BY <1>0, <2>0, NextGrows
  <2>3. CASE AppendStored(w)
    <3> DEFINE l == Len(stream[n]) + 1
    <3>1. /\ StoreEvent(n, job[w].kind, job[w].token, job[w].id) /\ doubt' = doubt /\ up[n]
      BY <2>3 DEF AppendStored, PublishStored, AtAppend
    <3>2. /\ DOMAIN stream'[n] = DOMAIN stream[n] \cup {l}
          /\ stream'[n][l] = Mint(n, job[w].kind, job[w].token, job[w].id)
      BY <1>0, <2>0, <3>1, AppendTypes, EventGrows
    <3>3. stream'[n][l].sequence = write[n].next
      BY <3>2 DEF Mint
    <3>4. job'[w].pos = l /\ job'[w].seq = write[n].next
      <4> DEFINE r == [job[w] EXCEPT !.at = "wait", !.seq = write[n].next, !.pos = l]
      <4>1. job' = [job EXCEPT ![w] = r]
        BY <2>3 DEF AppendStored
      <4>2. r.pos = l /\ r.seq = write[n].next
        BY <2>0 DEF Job
      <4> HIDE DEF r
      <4> QED BY <2>0, <4>1, <4>2
    <3>5. \A p \in DOMAIN stream[n] : stream[n][p].sequence < write[n].next
      BY <1>0, <2>0, <3>1 DEF Logged, Ahead
    <3>6. ASSUME NEW p \in DOMAIN stream'[n], p < l PROVE stream'[n][p].sequence < write[n].next
      <4>1. p \in DOMAIN stream[n]
        BY <2>1, <3>2, <3>6
      <4> QED BY <2>2, <3>5, <4>1 DEF Grows
    <3> QED BY <3>2, <3>3, <3>4, <3>6
  <2>4. CASE ~ AppendStored(w)
    <3>1. job'[w] = job[w]
      BY <1>1, <2>4 DEF CallStep
    <3>2. up[n]
      BY <1>0, <3>1 DEF Calls
    <3>3. doubt[n] \cap {"AckLost", "Replayed", "Reset"} = {}
      BY <2>2, <3>2 DEF Doubting
    <3>4. /\ job[w].pos \in DOMAIN stream[n]
          /\ stream[n][job[w].pos].sequence = job[w].seq
          /\ \A p \in DOMAIN stream[n] : p < job[w].pos => stream[n][p].sequence < job[w].seq
      BY <3>1, <3>3 DEF RInv, Waits
    <3>5. DOMAIN stream'[n] = 1..Len(stream'[n]) /\ Len(stream'[n]) \in Nat
      <4>1. StoreTypeOK'
        BY <1>0, NextTInv DEF TInv, StoreInv
      <4>2. stream'[n] \in Seq(Event')
        BY <2>0, <4>1 DEF StoreTypeOK
      <4> QED BY <4>2
    <3>6. ASSUME NEW p \in DOMAIN stream'[n], p < job[w].pos PROVE p \in DOMAIN stream[n]
      BY <2>1, <3>4, <3>5, <3>6
    <3> QED BY <2>2, <3>1, <3>4, <3>6 DEF Grows
  <2> QED BY <2>3, <2>4
<1> QED BY <1>2, <1>3

(***************************************************************************)
(* Read your writes: when append returns Ok after storing its event, the   *)
(* event is in the cache, as long as no lost ack, replay or reset made the *)
(* net mint a sequence twice.                                              *)
(***************************************************************************)
THEOREM AlwaysReadsItsWrites == Spec => ReadYourWrites
<1> DEFINE A == \A w \in Writer :
                   AppendReturned(w) /\ doubt[NetOf(w)] \cap {"AckLost", "Replayed", "Reset"} = {}
                   => job[w].pos \in InCache(NetOf(w))
<1>1. RInv => A
  <2> SUFFICES ASSUME RInv, NEW w \in Writer, AppendReturned(w),
                      doubt[NetOf(w)] \cap {"AckLost", "Replayed", "Reset"} = {}
               PROVE  job[w].pos \in InCache(NetOf(w))
    OBVIOUS
  <2> DEFINE n == NetOf(w)
  <2>0. StoreTypeOK /\ Bounded(n) /\ CallTypeOK /\ JobsOK /\ n \in Net /\ Logged(n)
    BY NetOfType DEF RInv, LInv, TInv, StoreInv
  <2>1. /\ job[w].pos \in DOMAIN stream[n]
        /\ \A p \in DOMAIN stream[n] : p < job[w].pos => stream[n][p].sequence < job[w].seq
    BY DEF RInv, Waits, AppendReturned
  <2>2. applied[n] > job[w].seq /\ applied[n] \in Nat /\ job[w].seq \in Nat
    BY <2>0, StoreTypes, AppendTypes DEF AppendReturned, IsApplied
  <2>3. applied[n] # 0
    BY <2>2
  <2>4. PICK p \in Positions(cache[n]) : stream[n][p].sequence + 1 = applied[n]
    BY <2>0, <2>3 DEF Logged, Covered
  <2>5. Closed(Positions(cache[n]))
    BY <2>0 DEF Logged, Covered
  <2>6. p \in DOMAIN stream[n] /\ DOMAIN stream[n] = 1..Len(stream[n]) /\ Len(stream[n]) \in Nat
    <3>1. p \in Nat
      BY <2>0, StoreTypes, PositionsType
    <3>2. 1 <= p /\ p <= Len(stream[n])
      BY <2>0 DEF Bounded
    <3> QED BY <2>0, <3>1, <3>2, StoreTypes
  <2>7. stream[n][p].sequence \in Nat
    BY <2>0, <2>6, StoreTypes
  <2>8. ~ (p < job[w].pos)
    BY <2>1, <2>2, <2>4, <2>6, <2>7
  <2>9. job[w].pos \in 1..p
    BY <2>1, <2>6, <2>8
  <2>10. job[w].pos \in Positions(cache[n])
    BY <2>5, <2>9 DEF Closed
  <2> QED BY <2>10 DEF Positions, InCache
<1> QED BY <1>1, InitRInv, NextRInv, PTL DEF Spec, ReadYourWrites

-----------------------------------------------------------------------------
(***************************************************************************)
(* One token per id.                                                       *)
(***************************************************************************)
Ids == {stream[Target][i].id : i \in DOMAIN stream[Target]}

\* The index of a net that is down is gone with it.
IndexDown == ~ up[Target] => index = Unseeded

\* What is on the stream is in the duplicate window or in the index.
Remembered ==
    up[Target] /\ "Reset" \notin doubt[Target] => Ids \subseteq window[Target] \cup Known

\* An id that was looked up in vain, and stored since, is in the window.
InFlight ==
    "Reset" \notin doubt[Target] =>
        \A w \in Writer : w # Loop /\ job[w].at = "append" /\ job[w].id \in Ids
                             => job[w].id \in window[Target]

OInv == LInv /\ Ids \subseteq DedupId /\ IndexDown /\ Remembered /\ InFlight /\ OneTokenPerId

\* The target's log is left alone by a step; the index and the window too.
LEMMA SeedGrows ==
  ASSUME StoreInv, Grows(Target), Positions(cache[Target]) \subseteq Positions(cache'[Target])
  PROVE  DedupSeed(Target) \subseteq DedupSeed(Target)'
<1>0. StoreTypeOK /\ Bounded(Target) /\ Target \in Net
  BY NetAssumption DEF StoreInv
<1>1. ASSUME NEW p \in Positions(cache[Target]) PROVE p \in DOMAIN stream[Target]
  <2>1. p \in Nat
    BY <1>0, StoreTypes, PositionsType
  <2>2. 1 <= p /\ p <= Len(stream[Target])
    BY <1>0 DEF Bounded
  <2> QED BY <1>0, <2>1, <2>2, StoreTypes
<1>2. \A p \in InCache(Target) : p \in InCache(Target)' /\ stream'[Target][p] = stream[Target][p]
  BY <1>1 DEF InCache, Positions, Grows
<1> QED BY <1>2 DEF DedupSeed

\* A step that leaves the target's stream, window and doubt alone keeps what is
\* remembered, if the index forgets nothing.
LEMMA QuietOInv ==
  ASSUME OInv, LInv', stream'[Target] = stream[Target], window'[Target] = window[Target],
         "Reset" \in doubt[Target] => "Reset" \in doubt'[Target],
         ~ up'[Target] => index' = Unseeded,
         up'[Target] => (up[Target] /\ Known \subseteq Known'),
         \A w \in Writer : w # Loop /\ job'[w].at = "append" =>
            \/ job'[w] = job[w]
            \/ up[Target] /\ job'[w].id \notin Known
  PROVE  OInv'
<1>1. Ids' = Ids
  BY DEF Ids
<1>2. IndexDown'
  BY DEF IndexDown
<1>3. Remembered'
  BY <1>1 DEF OInv, Remembered
<1>4. InFlight'
  <2> SUFFICES ASSUME "Reset" \notin doubt'[Target], NEW w \in Writer, w # Loop,
                      job'[w].at = "append", job'[w].id \in Ids
               PROVE  job'[w].id \in window[Target]
    BY <1>1 DEF InFlight
  <2>1. CASE job'[w] = job[w]
    BY <2>1 DEF OInv, InFlight
  <2>2. CASE up[Target] /\ job'[w].id \notin Known
    BY <2>2 DEF OInv, Remembered
  <2> QED BY <2>1, <2>2
<1>5. OneTokenPerId'
  BY DEF OInv, OneTokenPerId
<1> QED BY <1>1, <1>2, <1>3, <1>4, <1>5 DEF OInv

\* An event is stored in the target: its id is new there.
LEMMA StoreEventOInv ==
  ASSUME OInv, LInv', NEW w \in Writer, w # Loop, job[w].at = "append", up[Target],
         ~ IsDuplicate(Target, job[w].id),
         StoreEvent(Target, job[w].kind, job[w].token, job[w].id),
         UNCHANGED <<index, cache, up>>, "Reset" \in doubt[Target] => "Reset" \in doubt'[Target],
         \A v \in Writer : v # w => job'[v] = job[v], job'[w].at # "append"
  PROVE  OInv'
<1> DEFINE x == job[w].id
           l == Len(stream[Target]) + 1
<1>0. StoreInv /\ StoreTypeOK /\ CallTypeOK /\ JobsOK /\ Target \in Net
  BY NetAssumption DEF OInv, LInv, TInv, StoreInv
<1>1. x \in DedupId /\ x # NoId
  BY <1>0, AppendTypes, NoIdAssumption
<1>2. /\ Grows(Target) /\ DOMAIN stream'[Target] = DOMAIN stream[Target] \cup {l}
      /\ stream'[Target][l] = Mint(Target, job[w].kind, job[w].token, job[w].id)
  BY <1>0, AppendTypes, EventGrows
<1>3. stream'[Target][l].id = x
  BY <1>2 DEF Mint
<1>4. Ids' = Ids \cup {x}
  BY <1>2, <1>3 DEF Ids, Grows
<1>5. x \notin window[Target] /\ window'[Target] = window[Target] \cup {x}
  BY <1>0, <1>1 DEF IsDuplicate, MsgIds, StoreEvent, StoreTypeOK
<1>6. IndexDown'
  BY DEF IndexDown
<1>7. Known \subseteq Known'
  <2>1. DedupSeed(Target) \subseteq DedupSeed(Target)'
    BY <1>0, <1>2, SeedGrows
  <2> QED BY <2>1 DEF Known
<1>8. Remembered'
  BY <1>4, <1>5, <1>7 DEF OInv, Remembered
<1>9. InFlight'
  BY <1>4, <1>5 DEF OInv, InFlight
<1>10. OneTokenPerId'
  <2> SUFFICES ASSUME "Reset" \notin doubt'[Target],
                      NEW i \in DOMAIN stream'[Target], NEW j \in DOMAIN stream'[Target],
                      stream'[Target][i].id = stream'[Target][j].id
               PROVE  i = j
    BY DEF OneTokenPerId
  <2>1. x \notin Ids
    BY <1>5 DEF OInv, InFlight
  <2>2. \A k \in DOMAIN stream[Target] : stream'[Target][k] = stream[Target][k]
                                            /\ stream[Target][k].id # x
    BY <1>2, <2>1 DEF Ids, Grows
  <2>3. CASE i \in DOMAIN stream[Target] /\ j \in DOMAIN stream[Target]
    BY <2>2, <2>3 DEF OInv, OneTokenPerId
  <2> QED BY <1>2, <1>3, <2>2, <2>3
<1> QED BY <1>1, <1>4, <1>6, <1>8, <1>9, <1>10 DEF OInv

LEMMA InitOInv == Init => OInv
<1> SUFFICES ASSUME Init PROVE OInv
  OBVIOUS
<1>1. stream[Target] = << >> /\ index = Unseeded
  BY NetAssumption DEF Init, StoreInit
<1>2. DOMAIN stream[Target] = {}
  BY <1>1
<1> QED BY <1>1, <1>2, InitLInv DEF OInv, Ids, IndexDown, Remembered, InFlight, OneTokenPerId

LEMMA NextOInv == Prompt /\ OInv /\ [Next]_vars => OInv'
<1> SUFFICES ASSUME Prompt, OInv, [Next]_vars PROVE OInv'
  OBVIOUS
<1>0. /\ LInv /\ TInv /\ StoreInv /\ StoreTypeOK /\ CallTypeOK /\ JobsOK /\ Target \in Net
      /\ Source \in Net /\ Source # Target /\ Logged(Target) /\ Bounded(Target)
      /\ Loop \in Writer /\ Listener \in Writer /\ Loop # Listener
      /\ job \in [Writer -> Job] /\ Known \in SUBSET DedupId /\ up[Target] \in BOOLEAN
  BY NetAssumption, WriterAssumption, KnownType, StoreTypes
     DEF OInv, LInv, TInv, StoreInv, CallTypeOK, Writer
<1>1. LInv' /\ Grows(Target)
  BY <1>0, NextLInv, NextGrows
<1>2. ASSUME UNCHANGED <<stream, window, doubt>>, UNCHANGED <<up, cache, index>>
      PROVE  Known' = Known
  BY <1>2 DEF Known, DedupSeed, InCache
<1>3. ASSUME NEW w \in Writer, UNCHANGED <<stream, window, doubt, up, cache>>,
             up[Target], index' = index \/ (index' \in SUBSET DedupId /\ Known \subseteq index'),
             \A v \in Writer : v # w => job'[v] = job[v],
             w = Loop \/ job'[w].at # "append" \/ job'[w].id \notin Known
      PROVE  OInv'
  <2>1. Known \subseteq Known'
    <3>1. CASE index' = index
      BY <1>2, <1>3, <3>1
    <3>2. CASE index' \in SUBSET DedupId /\ Known \subseteq index'
      BY <3>2, UnseededAssumption DEF Known
    <3> QED BY <1>3, <3>1, <3>2
  <2>2. stream'[Target] = stream[Target] /\ window'[Target] = window[Target]
           /\ doubt'[Target] = doubt[Target] /\ up'[Target] = up[Target]
    BY <1>3
  <2>3. \A v \in Writer : v # Loop /\ job'[v].at = "append" =>
            \/ job'[v] = job[v]
            \/ up[Target] /\ job'[v].id \notin Known
    BY <1>3
  <2> QED BY <1>1, <1>3, <2>1, <2>2, <2>3, QuietOInv
<1>4. ASSUME UNCHANGED <<job, index>>, UNCHANGED <<up, window>>,
             stream'[Target] = stream[Target], "Reset" \in doubt[Target] => "Reset" \in doubt'[Target],
             Positions(cache[Target]) \subseteq Positions(cache'[Target])
      PROVE  OInv'
  <2>1. DedupSeed(Target) \subseteq DedupSeed(Target)'
    BY <1>0, <1>1, <1>4, SeedGrows
  <2>2. Known \subseteq Known'
    BY <1>4, <2>1 DEF Known
  <2>3. ~ up'[Target] => index' = Unseeded
    BY <1>4 DEF OInv, IndexDown
  <2> QED BY <1>1, <1>4, <2>2, <2>3, QuietOInv
<1>5. ASSUME \* a step of the source's store, whatever its loop does
             stream'[Target] = stream[Target], window'[Target] = window[Target],
             cache'[Target] = cache[Target], up'[Target] = up[Target],
             doubt'[Target] = doubt[Target], index' = index,
             \A v \in Writer : v # Loop => job'[v] = job[v]
      PROVE  OInv'
  <2>1. DedupSeed(Target) \subseteq DedupSeed(Target)'
    BY <1>0, <1>1, <1>5, SeedGrows
  <2>2. Known \subseteq Known'
    BY <1>5, <2>1 DEF Known
  <2>3. ~ up'[Target] => index' = Unseeded
    BY <1>5 DEF OInv, IndexDown
  <2> QED BY <1>1, <1>5, <2>2, <2>3, QuietOInv
<1>6. ASSUME NEW w \in Writer, job[w].at = "append", up[NetOf(w)],
             ~ IsDuplicate(NetOf(w), job[w].id),
             StoreEvent(NetOf(w), job[w].kind, job[w].token, job[w].id),
             UNCHANGED <<index, cache, up>>,
             doubt' = doubt \/ doubt' = [doubt EXCEPT ![NetOf(w)] = @ \cup {"AckLost"}],
             \A v \in Writer : v # w => job'[v] = job[v], job'[w].at # "append"
      PROVE  OInv'
  <2>1. CASE w = Loop
    <3>1. NetOf(w) = Source
      BY <2>1 DEF NetOf
    <3>2. /\ stream'[Target] = stream[Target] /\ window'[Target] = window[Target]
          /\ doubt'[Target] = doubt[Target]
      BY <1>0, <1>6, <3>1 DEF StoreEvent, StoreTypeOK
    <3> QED BY <1>5, <1>6, <2>1, <3>2
  <2>2. CASE w # Loop
    <3>1. NetOf(w) = Target
      BY <2>2 DEF NetOf
    <3>2. "Reset" \in doubt[Target] => "Reset" \in doubt'[Target]
      BY <1>0, <1>6, <3>1 DEF StoreTypeOK
    <3> QED BY <1>1, <1>6, <2>2, <3>1, <3>2, StoreEventOInv
  <2> QED BY <2>1, <2>2
<1>7. ASSUME NEW w \in Writer, AppendStored(w) PROVE OInv'
  <2> DEFINE r == [job[w] EXCEPT !.at = "wait", !.seq = write[NetOf(w)].next,
                                 !.pos = Len(stream[NetOf(w)]) + 1]
  <2>1. job' = [job EXCEPT ![w] = r] /\ job[w] \in Job
    BY <1>0, <1>7 DEF AppendStored
  <2>2. r.at = "wait"
    BY <2>1 DEF Job
  <2> HIDE DEF r
  <2>3. job'[w].at # "append" /\ \A v \in Writer : v # w => job'[v] = job[v]
    BY <1>0, <2>1, <2>2
  <2> QED BY <1>6, <1>7, <2>3 DEF AppendStored, AtAppend, PublishStored
<1>8. ASSUME NEW w \in Writer, NEW res \in {"failed", "timeout"}, ReturnsError(w, res)
      PROVE  job'[w].at # "append" /\ \A v \in Writer : v # w => job'[v] = job[v]
  <2> DEFINE r == IF w = Loop THEN Idle
                  ELSE IF w = Listener THEN [job[w] EXCEPT !.at = res] ELSE Gone
  <2>1. job' = [job EXCEPT ![w] = r] /\ job[w] \in Job
    BY <1>0, <1>8 DEF ReturnsError
  <2>2. r.at # "append"
    BY <2>1, IdleFacts DEF Job
  <2> HIDE DEF r
  <2> QED BY <1>0, <2>1, <2>2
<1>9. ASSUME NEW w \in Writer, AppendFails(w) PROVE OInv'
  <2>1. /\ job'[w].at # "append" /\ \A v \in Writer : v # w => job'[v] = job[v]
        /\ index' = index /\ up[NetOf(w)] /\ job[w].at = "append"
    BY <1>8, <1>9 DEF AppendFails, AtAppend, ReturnsError
  <2>2. CASE PublishLost(NetOf(w))
    <3>1. UNCHANGED <<stream, window, doubt, up, cache>>
      BY <2>2 DEF PublishLost
    <3>2. CASE w = Loop
      BY <1>5, <2>1, <3>1, <3>2
    <3>3. CASE w # Loop
      BY <1>3, <2>1, <3>1, <3>3 DEF NetOf
    <3> QED BY <3>2, <3>3
  <2>3. CASE PublishAckLost(NetOf(w), job[w].kind, job[w].token, job[w].id)
    BY <1>6, <2>1, <2>3 DEF PublishAckLost
  <2> QED BY <1>9, <2>2, <2>3 DEF AppendFails
<1>10. ASSUME NEW w \in Writer, AppendTimesOut(w) PROVE OInv'
  <2>1. /\ job'[w].at # "append" /\ \A v \in Writer : v # w => job'[v] = job[v]
        /\ index' = index /\ up[NetOf(w)] /\ UNCHANGED <<stream, window, doubt, up, cache>>
    BY <1>8, <1>10 DEF AppendTimesOut, ReturnsError, svars, memory
  <2>2. CASE w = Loop
    BY <1>5, <2>1, <2>2
  <2>3. CASE w # Loop
    BY <1>3, <2>1, <2>3 DEF NetOf
  <2> QED BY <2>2, <2>3
<1>11. ASSUME NEW w \in Writer, job[w].at \in {"append", "wait"}, ReturnsOk(w), up[NetOf(w)],
              UNCHANGED <<stream, window, doubt, up, cache>>
       PROVE  OInv'
  <2>1. CASE w = Loop
    <3>1. index' = index /\ \A v \in Writer : v # Loop => job'[v] = job[v]
      BY <1>0, <1>11, <2>1 DEF ReturnsOk, LoopReturnsOk
    <3> QED BY <1>5, <1>11, <3>1
  <2>2. CASE w # Loop
    <3> DEFINE r == IF w = Listener THEN [job[w] EXCEPT !.at = "ok"] ELSE Gone
    <3>1. job' = [job EXCEPT ![w] = r] /\ index' = Known \cup {job[w].id} /\ job[w] \in Job
      BY <1>0, <1>11, <2>2 DEF ReturnsOk
    <3>2. r.at # "append"
      BY <3>1, IdleFacts DEF Job
    <3> HIDE DEF r
    <3>3. job'[w].at # "append" /\ \A v \in Writer : v # w => job'[v] = job[v]
      BY <1>0, <3>1, <3>2
    <3>4. job[w].id \in DedupId /\ up[Target]
      BY <1>0, <1>11, <2>2, AppendTypes DEF NetOf
    <3>5. index' \in SUBSET DedupId /\ Known \subseteq index'
      BY <1>0, <3>1, <3>4
    <3> QED BY <1>3, <1>11, <3>3, <3>4, <3>5
  <2> QED BY <2>1, <2>2
<1>12. ASSUME NEW w \in Writer, AppendDuplicate(w) \/ AppendApplied(w) PROVE OInv'
  BY <1>11, <1>12 DEF AppendDuplicate, AppendApplied, AtAppend, PublishDuplicate, svars, memory
<1>13. ASSUME NEW t \in Work, Fire(t) PROVE OInv'
  <2>1. UNCHANGED <<stream, window, doubt, up, cache, index>>
           /\ \A v \in Writer : v # Loop => job'[v] = job[v]
    BY <1>0, <1>13 DEF Fire, svars, memory
  <2> QED BY <1>5, <2>1
<1>14. ASSUME NEW m \in inbox, Receive(m) PROVE OInv'
  <2> DEFINE r == IF m.id \in Known THEN Injecting("ok", m.token, m.id)
                  ELSE Injecting("append", m.token, m.id)
  <2>1. job' = [job EXCEPT ![Listener] = r] /\ index' = Known /\ up[Target]
           /\ UNCHANGED <<stream, window, doubt, up, cache>>
    BY <1>14 DEF Receive, CheckIndex, svars, memory
  <2>2. r.at # "append" \/ r.id \notin Known
    BY DEF Injecting, Idle
  <2> HIDE DEF r
  <2>3. /\ job'[Listener].at # "append" \/ job'[Listener].id \notin Known
        /\ \A v \in Writer : v # Listener => job'[v] = job[v]
    BY <1>0, <2>1, <2>2
  <2> QED BY <1>0, <1>3, <2>1, <2>3
<1>15. ASSUME NEW c \in Canceller, RequestCancel(c) PROVE OInv'
  <2> DEFINE r == IF CancelId \in Known THEN Gone ELSE Injecting("append", Cancel, CancelId)
  <2>1. job' = [job EXCEPT ![c] = r] /\ index' = Known /\ up[Target] /\ c \in Writer
           /\ UNCHANGED <<stream, window, doubt, up, cache>>
    BY <1>15 DEF RequestCancel, CheckIndex, svars, memory, Writer
  <2>2. r.at # "append" \/ r.id \notin Known
    BY DEF Injecting, Idle, Gone
  <2> HIDE DEF r
  <2>3. /\ job'[c].at # "append" \/ job'[c].id \notin Known
        /\ \A v \in Writer : v # c => job'[v] = job[v]
    BY <1>0, <2>1, <2>2
  <2> QED BY <1>0, <1>3, <2>1, <2>3
<1>16. ASSUME Settle \/ Nak \/ DeadLetter PROVE OInv'
  <2>1. job' = [job EXCEPT ![Listener] = Idle] /\ index' = index
           /\ UNCHANGED <<stream, window, doubt, up, cache>>
    BY <1>16 DEF Settle, Nak, DeadLetter, Finish, svars, memory
  <2>2. \A v \in Writer : v # Loop /\ job'[v].at = "append" => job'[v] = job[v]
    BY <1>0, <2>1, IdleFacts
  <2>3. Known' = Known
    BY <1>2, <2>1
  <2>4. ~ up'[Target] => index' = Unseeded
    BY <2>1 DEF OInv, IndexDown
  <2> QED BY <1>1, <2>1, <2>2, <2>3, <2>4, QuietOInv
<1>17. ASSUME NEW n \in Net, NEW pos \in Nat, Apply(n, pos), UNCHANGED <<job, index>>,
              UNCHANGED <<up, window>>, stream' = stream,
              doubt' = doubt \/ doubt' = [doubt EXCEPT ![n] = @ \cup {"Redelivered"}]
       PROVE  OInv'
  <2>1. Positions(cache[Target]) \subseteq Positions(cache'[Target])
    <3>1. CASE n = Target
      <4>1. cache[Target] \in Seq(Nat) /\ cache'[Target] = Append(cache[Target], pos)
        BY <1>0, <1>17, <3>1, StoreTypes DEF Apply, StoreTypeOK
      <4>2. Positions(Append(cache[Target], pos)) = Positions(cache[Target]) \cup {pos}
        BY <4>1, PositionsAppend
      <4> QED BY <4>1, <4>2
    <3>2. CASE n # Target
      <4>1. cache'[Target] = cache[Target]
        BY <1>0, <1>17, <3>2 DEF Apply, StoreTypeOK
      <4> QED BY <4>1
    <3> QED BY <3>1, <3>2
  <2>2. "Reset" \in doubt[Target] => "Reset" \in doubt'[Target]
    BY <1>0, <1>17 DEF StoreTypeOK
  <2> QED BY <1>4, <1>17, <2>1, <2>2
<1>18. ASSUME NEW n \in Net, ConsumeNext(n) PROVE OInv'
  <2>1. cursor[n] + 1 \in Nat
    <3>1. cursor[n] \in Nat
      BY <1>0, StoreTypes
    <3> QED BY <3>1
  <2> QED BY <1>17, <1>18, <2>1 DEF ConsumeNext, Consume, bvars
<1>19. ASSUME NEW n \in Net, ConsumerRedelivers(n) PROVE OInv'
  <2>1. PICK pos \in InCache(n) : Redeliver(n, pos)
    BY <1>19 DEF ConsumerRedelivers
  <2>2. pos \in Nat
    BY <1>0, StoreTypes, PositionsType DEF InCache, Positions
  <2> QED BY <1>17, <1>19, <2>1, <2>2 DEF ConsumerRedelivers, Redeliver
<1>20. ASSUME NEW n \in Net, ConsumerReconnects(n) PROVE OInv'
  <2>1. UNCHANGED <<job, index>> /\ UNCHANGED <<stream, window, doubt, up, cache>>
    BY <1>20 DEF ConsumerReconnects, Reconnect
  <2> QED BY <1>4, <2>1
<1>21. ASSUME NEW n \in Net, Reset(n) PROVE OInv'
  <2>1. /\ UNCHANGED <<job, index, stream, window, up>> /\ up[n]
        /\ cache' = [cache EXCEPT ![n] = << >>]
        /\ doubt' = [doubt EXCEPT ![n] = IF cursor[n] = 0 /\ stream[n] = << >> THEN @
                                         ELSE @ \cup {"Reset"}]
    BY <1>21 DEF Reset, ResetStore
  <2>2. CASE n # Target
    <3>1. cache'[Target] = cache[Target] /\ doubt'[Target] = doubt[Target]
      BY <1>0, <2>1, <2>2 DEF StoreTypeOK
    <3> QED BY <1>5, <2>1, <3>1
  <2>3. CASE n = Target
    <3>1. Ids' = Ids /\ IndexDown'
      BY <2>1, <2>3 DEF Ids, IndexDown
    <3>2. CASE "Reset" \in doubt'[Target]
      BY <1>1, <3>1, <3>2 DEF OInv, Remembered, InFlight, OneTokenPerId
    <3>3. CASE "Reset" \notin doubt'[Target]
      <4>1. stream[Target] = << >>
        BY <1>0, <2>1, <2>3, <3>3 DEF StoreTypeOK
      <4>2. DOMAIN stream'[Target] = {} /\ Ids = {}
        BY <2>1, <4>1 DEF Ids
      <4> QED BY <1>1, <3>1, <4>2 DEF OInv, Remembered, InFlight, OneTokenPerId
    <3> QED BY <3>2, <3>3
  <2> QED BY <2>2, <2>3
<1>22. ASSUME NEW n \in Net, Hibernate(n) PROVE OInv'
  <2>1. /\ UNCHANGED <<job, stream, window, doubt>> /\ Forgotten({n})
        /\ index' = IF Target \in {n} THEN Unseeded ELSE index
    BY <1>22 DEF Hibernate, HibernateStore, IndexWithout, Forgotten
  <2>2. CASE n = Target
    <3>1. ~ up'[Target] /\ index' = Unseeded
      BY <1>0, <2>1, <2>2 DEF Forgotten
    <3> QED BY <1>1, <2>1, <3>1, QuietOInv
  <2>3. CASE n # Target
    <3>1. cache'[Target] = cache[Target] /\ index' = index /\ up'[Target] = (up[Target] /\ TRUE)
      BY <1>0, <2>1, <2>3 DEF Forgotten
    <3>2. up'[Target] = up[Target]
      BY <1>0, <3>1
    <3> QED BY <1>5, <2>1, <3>1, <3>2
  <2> QED BY <2>2, <2>3
<1>23. ASSUME Crash PROVE OInv'
  <2>1. /\ UNCHANGED <<stream, window, doubt>> /\ ~ up'[Target] /\ index' = Unseeded
        /\ \A w \in Writer : job'[w] \in {Idle, Gone}
    BY <1>0, <1>23 DEF Crash, Forgotten, IndexWithout
  <2>2. \A w \in Writer : job'[w].at # "append"
    BY <2>1, IdleFacts
  <2> QED BY <1>1, <2>1, <2>2, QuietOInv
<1>24. ASSUME NEW id, EndWindow(id) PROVE OInv'
  <2>1. /\ UNCHANGED <<stream, cache, up, doubt, job, index>> /\ id \in Known
        /\ window'[Target] = window[Target] \ {id} /\ \A w \in Writer : job[w].id # id
    BY <1>0, <1>24 DEF EndWindow, memory, StoreTypeOK
  <2>2. Known' = Known /\ Ids' = Ids
    BY <2>1 DEF Known, DedupSeed, InCache, Ids
  <2>3. IndexDown' /\ OneTokenPerId'
    BY <2>1 DEF OInv, IndexDown, OneTokenPerId
  <2>4. Remembered'
    BY <2>1, <2>2 DEF OInv, Remembered
  <2>5. InFlight'
    BY <2>1, <2>2 DEF OInv, InFlight
  <2> QED BY <1>1, <2>2, <2>3, <2>4, <2>5 DEF OInv
<1>25. ASSUME NEW n \in Net, WakeNet(n) PROVE OInv'
  <2>1. /\ UNCHANGED <<job, index, stream, window>> /\ ~ up[n]
        /\ up' = [up EXCEPT ![n] = TRUE] /\ cache' = [cache EXCEPT ![n] = Hydrated(n)]
    BY <1>25 DEF WakeNet, Wake, bvars
  <2>2. /\ \A m \in Net : m # n => doubt'[m] = doubt[m]
        /\ "Reset" \in doubt[n] => "Reset" \in doubt'[n]
    BY <1>0, <1>25 DEF WakeNet, Wake, StoreTypeOK
  <2>3. CASE n # Target
    <3>1. cache'[Target] = cache[Target] /\ up'[Target] = up[Target] /\ doubt'[Target] = doubt[Target]
      BY <1>0, <2>1, <2>2, <2>3 DEF StoreTypeOK
    <3> QED BY <1>5, <2>1, <3>1
  <2>4. CASE n = Target
    <3>1. up'[Target] /\ index' = Unseeded /\ cache'[Target] = Hydrated(Target) /\ Ids' = Ids
      BY <1>0, <2>1, <2>4 DEF StoreTypeOK, OInv, IndexDown, Ids
    <3>2. IndexDown'
      BY <3>1 DEF IndexDown
    <3>3. Remembered'
      <4> SUFFICES ASSUME "Reset" \notin doubt'[Target], NEW i \in DOMAIN stream[Target]
                   PROVE  stream[Target][i].id \in DedupSeed(Target)'
        BY <2>1, <3>1 DEF Remembered, Known, Ids
      <4>1. Positions(Hydrated(Target)) = 1..Len(stream[Target])
        BY <1>0, <2>2, <2>4, HydratedFacts DEF Logged
      <4>2. i \in InCache(Target)'
        <5>1. i \in Positions(Hydrated(Target))
          BY <1>0, <4>1, StoreTypes
        <5>2. PICK k \in DOMAIN Hydrated(Target) : i = Hydrated(Target)[k]
          BY <5>1 DEF Positions
        <5> QED BY <3>1, <5>2 DEF InCache
      <4>3. stream[Target][i].id # NoId
        BY NoIdAssumption DEF OInv, Ids
      <4> QED BY <2>1, <4>2, <4>3 DEF DedupSeed
    <3>4. InFlight' /\ OneTokenPerId'
      BY <2>1, <2>2, <2>4, <3>1 DEF OInv, InFlight, OneTokenPerId
    <3> QED BY <1>1, <3>1, <3>2, <3>3, <3>4 DEF OInv
  <2> QED BY <2>3, <2>4
<1>26. CASE Progress
  BY <1>7, <1>10, <1>12, <1>13, <1>14, <1>15, <1>16, <1>18, <1>25, <1>26 DEF Progress
<1>27. CASE Failure
  BY <1>9, <1>19, <1>20, <1>21, <1>22, <1>23, <1>24, <1>27 DEF Failure
<1>28. CASE UNCHANGED vars
  BY <1>5, <1>28 DEF vars, svars, bvars, memory
<1> QED BY <1>26, <1>27, <1>28 DEF Next

(***************************************************************************)
(* Redeliveries, retries and concurrent terminations create one token per  *)
(* id, while every retry comes within the duplicate window and the target  *)
(* is not cleared: until then the window and the index together remember   *)
(* every id on the stream.                                                 *)
(***************************************************************************)
THEOREM AlwaysOneTokenPerId == Prompt => (Spec => []OneTokenPerId)
<1> SUFFICES ASSUME Prompt PROVE Spec => []OneTokenPerId
  OBVIOUS
<1>1. OInv /\ [Next]_vars => OInv'
  BY NextOInv
<1>2. OInv => OneTokenPerId
  BY DEF OInv
<1> QED BY <1>1, <1>2, InitOInv, PTL DEF Spec

-----------------------------------------------------------------------------
(***************************************************************************)
(* Nothing is lost.                                                        *)
(***************************************************************************)
Arrivals == \A i \in DOMAIN stream[Target] : stream[Target][i].kind = "Created"

\* The window and the index hold ids of the stream only.
Stocked == window[Target] \subseteq Ids /\ (index # Unseeded => index \subseteq Ids)

\* The message in hand is not acked yet.
InHand == job[Listener].at # "idle" => Delivery \in inbox

\* An injection that waits, or succeeded, is on the stream.
Landed == \A w \in Writer : w # Loop /\ job[w].at \in {"wait", "ok"} => job[w].id \in Ids

AInv == RInv /\ Arrivals /\ Stocked /\ InHand /\ Landed

LEMMA KnownIds ==
  ASSUME StoreInv, Stocked
  PROVE  Known \subseteq Ids
<1>0. StoreTypeOK /\ Bounded(Target) /\ Target \in Net
  BY NetAssumption DEF StoreInv
<1>1. ASSUME NEW p \in InCache(Target) PROVE p \in DOMAIN stream[Target]
  <2>1. p \in Nat /\ 1 <= p /\ p <= Len(stream[Target])
    BY <1>0, StoreTypes, PositionsType DEF Bounded, InCache, Positions
  <2> QED BY <1>0, <2>1, StoreTypes
<1>2. DedupSeed(Target) \subseteq Ids
  BY <1>1 DEF DedupSeed, Ids
<1> QED BY <1>2 DEF Known, Stocked

LEMMA QuietAInv ==
  ASSUME AInv, RInv', stream'[Target] = stream[Target],
         window'[Target] \subseteq window[Target],
         index' = Unseeded \/ index' \subseteq Ids,
         job'[Listener].at # "idle" => Delivery' \in inbox',
         \A w \in Writer : w # Loop /\ job'[w].at \in {"wait", "ok"} => job'[w].id \in Ids
  PROVE  AInv'
<1>1. Ids' = Ids
  BY DEF Ids
<1> QED BY <1>1 DEF AInv, Arrivals, Stocked, InHand, Landed

\* An event is stored in the target.
LEMMA StoreEventAInv ==
  ASSUME AInv, RInv', NEW w \in Writer, w # Loop, job[w].at = "append",
         StoreEvent(Target, job[w].kind, job[w].token, job[w].id),
         UNCHANGED <<index, inbox>>,
         \A v \in Writer : v # w => job'[v] = job[v],
         job'[w].id = job[w].id \/ job'[w] = Gone, w = Listener => job'[w].token = job[w].token,
         w = Listener => job'[w].id = job[w].id
  PROVE  AInv'
<1> DEFINE x == job[w].id
           l == Len(stream[Target]) + 1
<1>0. StoreInv /\ StoreTypeOK /\ CallTypeOK /\ JobsOK /\ Target \in Net /\ Listener \in Writer
         /\ Listener # Loop
  BY NetAssumption, WriterAssumption DEF AInv, RInv, LInv, TInv, StoreInv, Writer
<1>1. x \in DedupId /\ x # NoId
  BY <1>0, AppendTypes, NoIdAssumption
<1>2. /\ Grows(Target) /\ DOMAIN stream'[Target] = DOMAIN stream[Target] \cup {l}
      /\ stream'[Target][l] = Mint(Target, job[w].kind, job[w].token, job[w].id)
  BY <1>0, AppendTypes, EventGrows
<1>3. stream'[Target][l].id = x /\ stream'[Target][l].kind = job[w].kind
  BY <1>2 DEF Mint
<1>4. Ids' = Ids \cup {x}
  BY <1>2, <1>3 DEF Ids, Grows
<1>5. window'[Target] = window[Target] \cup {x}
  BY <1>0, <1>1 DEF MsgIds, StoreEvent, StoreTypeOK
<1>6. job[w].kind = "Created"
  <2>1. CASE w = Listener
    BY <1>0, <2>1, IdleFacts DEF JobsOK, ListenerJobs, Call
  <2>2. CASE w # Listener
    <3>1. w \in Canceller
      BY <2>2 DEF Writer
    <3> QED BY <1>0, <3>1, IdleFacts DEF JobsOK, CancelJobs, Call
  <2> QED BY <2>1, <2>2
<1>7. Arrivals'
  BY <1>2, <1>3, <1>6 DEF AInv, Arrivals, Grows
<1>8. Stocked'
  BY <1>4, <1>5 DEF AInv, Stocked
<1>9. InHand'
  <2>1. CASE w = Listener
    BY <2>1 DEF AInv, InHand, Delivery
  <2>2. CASE w # Listener
    BY <1>0, <2>2 DEF AInv, InHand, Delivery
  <2> QED BY <2>1, <2>2
<1>10. Landed'
  BY <1>4, IdleFacts DEF AInv, Landed
<1> QED BY <1>7, <1>8, <1>9, <1>10 DEF AInv

LEMMA InitAInv == Init => AInv
<1> SUFFICES ASSUME Init PROVE AInv
  OBVIOUS
<1>1. /\ stream[Target] = << >> /\ index = Unseeded /\ window[Target] = {}
      /\ Listener \in Writer /\ \A w \in Writer : job[w].at = "idle"
  BY NetAssumption, IdleFacts DEF Init, StoreInit, Writer
<1>2. DOMAIN stream[Target] = {}
  BY <1>1
<1> QED BY <1>1, <1>2, InitRInv DEF AInv, Arrivals, Stocked, InHand, Landed

LEMMA NextAInv == AInv /\ [Next]_vars => AInv'
<1> SUFFICES ASSUME AInv, [Next]_vars PROVE AInv'
  OBVIOUS
<1>0. /\ RInv /\ LInv /\ TInv /\ StoreInv /\ StoreTypeOK /\ CallTypeOK /\ JobsOK /\ Target \in Net
      /\ Source \in Net /\ Source # Target /\ job \in [Writer -> Job]
      /\ Loop \in Writer /\ Listener \in Writer /\ Loop # Listener
  BY NetAssumption, WriterAssumption DEF AInv, RInv, LInv, TInv, StoreInv, CallTypeOK, Writer
<1>1. RInv'
  BY <1>0, NextRInv
<1>2. Known \subseteq Ids /\ (index = Unseeded \/ index \subseteq Ids)
  BY <1>0, KnownIds DEF AInv, Stocked
<1>3. \* the calls into the target move on only where they are
      ASSUME stream'[Target] = stream[Target], window'[Target] \subseteq window[Target],
             index' = index \/ index' = Unseeded, inbox \subseteq inbox',
             \A v \in Writer : v # Loop => job'[v] = job[v] \/ job'[v] \in {Idle, Gone},
             job'[Listener] # Gone
      PROVE  AInv'
  <2>1. job'[Listener].at # "idle" => Delivery' \in inbox'
    BY <1>0, <1>3, IdleFacts DEF AInv, InHand, Delivery
  <2>2. \A w \in Writer : w # Loop /\ job'[w].at \in {"wait", "ok"} => job'[w].id \in Ids
    BY <1>3, IdleFacts DEF AInv, Landed
  <2> QED BY <1>1, <1>2, <1>3, <2>1, <2>2, QuietAInv
<1>4. job[Listener] # Gone
  BY <1>0, IdleFacts DEF JobsOK, ListenerJobs, Call
<1>5. \* the listener's call moves, its message stays in hand
      ASSUME NEW r, job' = [job EXCEPT ![Listener] = r], inbox' = inbox,
             UNCHANGED <<stream, window>>, index' \subseteq Ids \/ index' = index,
             [id |-> r.id, token |-> r.token] \in inbox,
             r.at \in {"wait", "ok"} => r.id \in Ids
      PROVE  AInv'
  <2>1. job'[Listener] = r /\ \A v \in Writer : v # Listener => job'[v] = job[v]
    BY <1>0, <1>5
  <2>2. Delivery' \in inbox'
    BY <1>5, <2>1 DEF Delivery
  <2>3. \A w \in Writer : w # Loop /\ job'[w].at \in {"wait", "ok"} => job'[w].id \in Ids
    BY <1>5, <2>1 DEF AInv, Landed
  <2>4. index' = Unseeded \/ index' \subseteq Ids
    BY <1>2, <1>5
  <2> QED BY <1>1, <1>5, <2>2, <2>3, <2>4, QuietAInv
<1>6. \* a termination moves on
      ASSUME NEW c \in Canceller, NEW r, job' = [job EXCEPT ![c] = r], inbox' = inbox,
             UNCHANGED <<stream, window>>, index' \subseteq Ids \/ index' = index,
             r.at \notin {"wait", "ok"}
      PROVE  AInv'
  <2>1. c \in Writer /\ c # Listener
    BY WriterAssumption DEF Writer
  <2>2. job'[c] = r /\ \A v \in Writer : v # c => job'[v] = job[v]
    BY <1>0, <1>6, <2>1
  <2>3. job'[Listener].at # "idle" => Delivery' \in inbox'
    BY <1>0, <1>6, <2>1, <2>2 DEF AInv, InHand, Delivery
  <2>4. \A w \in Writer : w # Loop /\ job'[w].at \in {"wait", "ok"} => job'[w].id \in Ids
    BY <1>6, <2>2 DEF AInv, Landed
  <2>5. index' = Unseeded \/ index' \subseteq Ids
    BY <1>2, <1>6
  <2> QED BY <1>1, <1>6, <2>3, <2>4, <2>5, QuietAInv
<1>7. ASSUME NEW w \in Writer, AppendStored(w) PROVE AInv'
  <2> DEFINE r == [job[w] EXCEPT !.at = "wait", !.seq = write[NetOf(w)].next,
                                 !.pos = Len(stream[NetOf(w)]) + 1]
  <2>1. job' = [job EXCEPT ![w] = r] /\ job[w] \in Job
    BY <1>0, <1>7 DEF AppendStored
  <2>2. r.id = job[w].id /\ r.token = job[w].token
    BY <2>1 DEF Job
  <2> HIDE DEF r
  <2>3. job'[w] = r /\ \A v \in Writer : v # w => job'[v] = job[v]
    BY <1>0, <2>1
  <2>4. StoreEvent(NetOf(w), job[w].kind, job[w].token, job[w].id) /\ job[w].at = "append"
            /\ UNCHANGED <<index, inbox>>
    BY <1>7 DEF AppendStored, PublishStored, AtAppend
  <2>5. CASE w = Loop
    <3>1. stream'[Target] = stream[Target] /\ window'[Target] = window[Target]
      BY <1>0, <2>4, <2>5 DEF StoreEvent, StoreTypeOK, NetOf
    <3> QED BY <1>0, <1>3, <1>4, <2>3, <2>4, <2>5, <3>1
  <2>6. CASE w # Loop
    <3>1. NetOf(w) = Target
      BY <2>6 DEF NetOf
    <3> QED BY <1>1, <2>2, <2>3, <2>4, <2>6, <3>1, StoreEventAInv
  <2> QED BY <2>5, <2>6
<1>8. ASSUME NEW w \in Writer, NEW res \in {"failed", "timeout"}, ReturnsError(w, res),
             job[w].at \in {"append", "wait"}
      PROVE  /\ \A v \in Writer : v # w => job'[v] = job[v]
             /\ UNCHANGED <<index, inbox>>
             /\ w = Listener => /\ job'[w].id = job[w].id /\ job'[w].token = job[w].token
                                /\ job'[w].at = res /\ job' = [job EXCEPT ![w] = job'[w]]
             /\ w # Listener /\ w # Loop => job'[w] = Gone
  <2> DEFINE r == IF w = Loop THEN Idle
                  ELSE IF w = Listener THEN [job[w] EXCEPT !.at = res] ELSE Gone
  <2>1. job' = [job EXCEPT ![w] = r] /\ job[w] \in Job /\ UNCHANGED <<index, inbox>>
    BY <1>0, <1>8 DEF ReturnsError
  <2>2. w = Listener => r.id = job[w].id /\ r.token = job[w].token /\ r.at = res
    BY <1>0, <2>1 DEF Job
  <2>3. w # Listener /\ w # Loop => r = Gone
    OBVIOUS
  <2> HIDE DEF r
  <2> QED BY <1>0, <2>1, <2>2, <2>3
<1>9. ASSUME NEW w \in Writer, NEW res \in {"failed", "timeout"}, ReturnsError(w, res),
             job[w].at \in {"append", "wait"}, UNCHANGED <<stream, window>>
      PROVE  AInv'
  <2>1. CASE w = Listener
    <3>1. /\ job' = [job EXCEPT ![Listener] = job'[Listener]] /\ job'[Listener].id = job[Listener].id
          /\ job'[Listener].token = job[Listener].token /\ job'[Listener].at = res
          /\ UNCHANGED <<index, inbox>>
      BY <1>8, <1>9, <2>1
    <3>2. [id |-> job[Listener].id, token |-> job[Listener].token] \in inbox
      BY <1>9, <2>1 DEF AInv, InHand, Delivery
    <3> DEFINE r == job'[Listener]
    <3>3. [id |-> r.id, token |-> r.token] \in inbox /\ r.at \notin {"wait", "ok"}
      BY <1>9, <3>1, <3>2
    <3> HIDE DEF r
    <3>4. job' = [job EXCEPT ![Listener] = r]
      BY <3>1 DEF r
    <3> QED BY <1>5, <1>9, <3>1, <3>3, <3>4
  <2>2. CASE w # Listener
    <3>1. /\ \A v \in Writer : v # w => job'[v] = job[v] /\ UNCHANGED <<index, inbox>>
          /\ w # Loop => job'[w] = Gone
      BY <1>8, <1>9, <2>2
    <3>2. UNCHANGED <<index, inbox>>
      BY <1>8, <1>9
    <3> QED BY <1>0, <1>3, <1>4, <1>9, <2>2, <3>1, <3>2
  <2> QED BY <2>1, <2>2
<1>10. ASSUME NEW w \in Writer, AppendFails(w) PROVE AInv'
  <2>0. ReturnsError(w, "failed") /\ job[w].at = "append"
    BY <1>10 DEF AppendFails, AtAppend
  <2>1. CASE PublishLost(NetOf(w))
    BY <1>9, <2>0, <2>1 DEF PublishLost
  <2>2. CASE PublishAckLost(NetOf(w), job[w].kind, job[w].token, job[w].id)
    <3>1. StoreEvent(NetOf(w), job[w].kind, job[w].token, job[w].id)
      BY <2>2 DEF PublishAckLost
    <3>2. /\ \A v \in Writer : v # w => job'[v] = job[v]
          /\ UNCHANGED <<index, inbox>>
          /\ w = Listener => job'[w].id = job[w].id /\ job'[w].token = job[w].token
          /\ w # Listener /\ w # Loop => job'[w] = Gone
      BY <1>8, <2>0
    <3>3. CASE w = Loop
      <4>1. stream'[Target] = stream[Target] /\ window'[Target] = window[Target]
        BY <1>0, <3>1, <3>3 DEF StoreEvent, StoreTypeOK, NetOf
      <4> QED BY <1>0, <1>3, <1>4, <3>2, <3>3, <4>1
    <3>4. CASE w # Loop
      <4>1. NetOf(w) = Target
        BY <3>4 DEF NetOf
      <4> QED BY <1>1, <2>0, <3>1, <3>2, <3>4, <4>1, StoreEventAInv
    <3> QED BY <3>3, <3>4
  <2> QED BY <1>10, <2>1, <2>2 DEF AppendFails
<1>11. ASSUME NEW w \in Writer, AppendTimesOut(w) PROVE AInv'
  BY <1>9, <1>11 DEF AppendTimesOut, svars
<1>12. ASSUME NEW w \in Writer, job[w].at \in {"append", "wait"}, ReturnsOk(w),
              UNCHANGED <<stream, window>>, w # Loop => job[w].id \in Ids
       PROVE  AInv'
  <2>1. CASE w = Loop
    <3>1. index' = index /\ \A v \in Writer : v # Loop => job'[v] = job[v]
      BY <1>0, <1>12, <2>1 DEF ReturnsOk, LoopReturnsOk
    <3>2. inbox \subseteq inbox'
      BY <1>12, <2>1 DEF ReturnsOk, LoopReturnsOk
    <3> QED BY <1>0, <1>3, <1>4, <1>12, <3>1, <3>2
  <2>2. CASE w = Listener
    <3> DEFINE r == [job[w] EXCEPT !.at = "ok"]
    <3>1. job' = [job EXCEPT ![Listener] = r] /\ index' = Known \cup {job[w].id} /\ job[w] \in Job
             /\ inbox' = inbox
      BY <1>0, <1>12, <2>2 DEF ReturnsOk
    <3>2. r.id = job[w].id /\ r.token = job[w].token
      BY <3>1 DEF Job
    <3> HIDE DEF r
    <3>3. [id |-> r.id, token |-> r.token] \in inbox
      BY <1>12, <2>2, <3>2 DEF AInv, InHand, Delivery
    <3>4. index' \subseteq Ids /\ r.id \in Ids
      BY <1>0, <1>2, <1>12, <2>2, <3>1, <3>2
    <3> QED BY <1>5, <1>12, <3>1, <3>3, <3>4
  <2>3. CASE w # Loop /\ w # Listener
    <3>1. w \in Canceller /\ job' = [job EXCEPT ![w] = Gone] /\ index' = Known \cup {job[w].id}
             /\ inbox' = inbox
      BY <1>12, <2>3 DEF ReturnsOk, Writer
    <3>2. index' \subseteq Ids
      BY <1>2, <1>12, <2>3, <3>1
    <3> QED BY <1>6, <1>12, <3>1, <3>2, IdleFacts
  <2> QED BY <2>1, <2>2, <2>3
<1>13. ASSUME NEW w \in Writer, AppendDuplicate(w) PROVE AInv'
  <2>1. job[w].at = "append" /\ ReturnsOk(w) /\ UNCHANGED <<stream, window>>
           /\ IsDuplicate(NetOf(w), job[w].id)
    BY <1>13 DEF AppendDuplicate, AtAppend, PublishDuplicate
  <2>2. w # Loop => job[w].id \in Ids
    BY <2>1 DEF IsDuplicate, MsgIds, NetOf, AInv, Stocked
  <2> QED BY <1>12, <2>1, <2>2
<1>14. ASSUME NEW w \in Writer, AppendApplied(w) PROVE AInv'
  <2>1. job[w].at = "wait" /\ ReturnsOk(w) /\ UNCHANGED <<stream, window>>
    BY <1>14 DEF AppendApplied, svars
  <2>2. w # Loop => job[w].id \in Ids
    BY <2>1 DEF AInv, Landed
  <2> QED BY <1>12, <2>1, <2>2
<1>15. ASSUME NEW t \in Work, Fire(t) PROVE AInv'
  <2>1. UNCHANGED <<stream, window, index, inbox>> /\ \A v \in Writer : v # Loop => job'[v] = job[v]
    BY <1>0, <1>15 DEF Fire, svars
  <2> QED BY <1>0, <1>3, <1>4, <2>1
<1>16. ASSUME NEW m \in inbox, Receive(m) PROVE AInv'
  <2> DEFINE r == IF m.id \in Known THEN Injecting("ok", m.token, m.id)
                  ELSE Injecting("append", m.token, m.id)
  <2>1. job' = [job EXCEPT ![Listener] = r] /\ index' = Known /\ inbox' = inbox
           /\ UNCHANGED <<stream, window>>
    BY <1>16 DEF Receive, CheckIndex, svars
  <2>2. r.id = m.id /\ r.token = m.token /\ (r.at \in {"wait", "ok"} => m.id \in Known)
    BY DEF Injecting, Idle
  <2> HIDE DEF r
  <2>3. m = [id |-> m.id, token |-> m.token]
    BY <1>0 DEF CallTypeOK, Transfer
  <2>4. [id |-> r.id, token |-> r.token] \in inbox
    BY <2>2, <2>3
  <2> QED BY <1>2, <1>5, <2>1, <2>2, <2>4
<1>17. ASSUME NEW c \in Canceller, RequestCancel(c) PROVE AInv'
  <2> DEFINE r == IF CancelId \in Known THEN Gone ELSE Injecting("append", Cancel, CancelId)
  <2>1. job' = [job EXCEPT ![c] = r] /\ index' = Known /\ inbox' = inbox
           /\ UNCHANGED <<stream, window>>
    BY <1>17 DEF RequestCancel, CheckIndex, svars
  <2>2. r.at \notin {"wait", "ok"}
    BY DEF Injecting, Idle, Gone
  <2> HIDE DEF r
  <2> QED BY <1>2, <1>6, <2>1, <2>2
<1>18. ASSUME Settle \/ Nak \/ DeadLetter PROVE AInv'
  <2>1. job' = [job EXCEPT ![Listener] = Idle] /\ index' = index /\ UNCHANGED <<stream, window>>
    BY <1>18 DEF Settle, Nak, DeadLetter, Finish, svars
  <2>2. job'[Listener].at = "idle" /\ \A v \in Writer : v # Listener => job'[v] = job[v]
    BY <1>0, <2>1, IdleFacts
  <2>3. \A w \in Writer : w # Loop /\ job'[w].at \in {"wait", "ok"} => job'[w].id \in Ids
    BY <2>2 DEF AInv, Landed
  <2> QED BY <1>1, <1>2, <2>1, <2>2, <2>3, QuietAInv
<1>19. ASSUME UNCHANGED <<stream, window, inbox, job>>, index' = index \/ index' = Unseeded
       PROVE  AInv'
  BY <1>3, <1>4, <1>19
<1>20. ASSUME NEW n \in Net,
              ConsumeNext(n) \/ WakeNet(n) \/ ConsumerReconnects(n) \/ ConsumerRedelivers(n) \/ Reset(n)
       PROVE  AInv'
  <2>1. UNCHANGED <<stream, window, inbox, job, index>>
    BY <1>20 DEF ConsumeNext, Consume, WakeNet, Wake, ConsumerReconnects, Reconnect,
                 ConsumerRedelivers, Redeliver, Reset, ResetStore, bvars
  <2> QED BY <1>19, <2>1
<1>21. ASSUME NEW n \in Net, Hibernate(n) PROVE AInv'
  BY <1>19, <1>21 DEF Hibernate, HibernateStore, Forgotten, IndexWithout
<1>22. ASSUME Crash PROVE AInv'
  <2>1. /\ UNCHANGED <<stream, window, inbox>> /\ index' \in {index, Unseeded}
        /\ job' = [w \in Writer |-> IF w \in Canceller /\ job[w].at # "idle" THEN Gone ELSE Idle]
    BY <1>22 DEF Crash, Forgotten, IndexWithout
  <2>2. job'[Listener] = Idle /\ \A w \in Writer : job'[w] \in {Idle, Gone}
    BY <1>0, <2>1, WriterAssumption
  <2> QED BY <1>3, <2>1, <2>2, IdleFacts
<1>23. ASSUME NEW id, EndWindow(id) PROVE AInv'
  <2>1. /\ UNCHANGED <<stream, job, index, inbox>> /\ window'[Target] \subseteq window[Target]
    BY <1>0, <1>23 DEF EndWindow, StoreTypeOK
  <2> QED BY <1>3, <1>4, <2>1
<1>24. CASE Progress
  BY <1>7, <1>11, <1>13, <1>14, <1>15, <1>16, <1>17, <1>18, <1>20, <1>24 DEF Progress
<1>25. CASE Failure
  BY <1>10, <1>20, <1>21, <1>22, <1>23, <1>25 DEF Failure
<1>26. CASE UNCHANGED vars
  BY <1>19, <1>26 DEF vars, svars, bvars
<1> QED BY <1>24, <1>25, <1>26 DEF Next

\* The source has not gone back to sequences it used: Replayed or Reset would.
Honest == doubt[Source] \cap {"Replayed", "Reset"} = {}

Sequences == {stream[Source][p].sequence : p \in DOMAIN stream[Source]}

\* The sequences that transfers have made ids of.
Used == {m.id : m \in inbox} \cup (Ids \cap Nat)

\* The ids of the transfers are the source's own: each names one transfer, and the
\* event that it was injected as.
OwnIds ==
    Honest =>
        /\ Used \subseteq Sequences
        /\ up[Source] => \A x \in Used : x < write[Source].next
        /\ job[Loop].at = "wait" =>
              /\ job[Loop].seq \notin Used /\ job[Loop].seq < write[Source].next
              /\ job[Loop].seq \in Sequences
        /\ \A m, k \in inbox : m.id = k.id => m = k
        /\ \A m \in inbox, i \in DOMAIN stream[Target] :
              m.id = stream[Target][i].id => stream[Target][i].token = m.token

BInv == AInv /\ OwnIds

LEMMA SequencesType ==
  ASSUME StoreTypeOK
  PROVE  Sequences \subseteq Nat
<1>1. Source \in Net
  BY NetAssumption
<1> QED BY <1>1, StoreTypes DEF Sequences

LEMMA QuietOwnIds ==
  ASSUME BInv, Grows(Source), Honest' => Honest, inbox' \subseteq inbox,
         stream'[Target] = stream[Target],
         up'[Source] => up[Source] /\ write'[Source].next = write[Source].next,
         job'[Loop].at = "wait" =>
            job'[Loop] = job[Loop] /\ write'[Source].next = write[Source].next
  PROVE  OwnIds'
<1> SUFFICES ASSUME Honest' PROVE OwnIds'
  BY DEF OwnIds
<1>1. Used' \subseteq Used /\ Sequences \subseteq Sequences'
  BY DEF Used, Ids, Sequences, Grows
<1> QED BY <1>1 DEF BInv, OwnIds

\* The transfer of an event nobody has an id of yet.
LEMMA SendOwnIds ==
  ASSUME BInv, Grows(Source), Honest' => Honest, stream'[Target] = stream[Target],
         job[Loop].at = "wait", job'[Loop].at # "wait", UNCHANGED <<up, write>>,
         inbox' = inbox \cup {[id |-> job[Loop].seq, token |-> job[Loop].token]}
  PROVE  OwnIds'
<1> DEFINE q == job[Loop].seq
           m == [id |-> job[Loop].seq, token |-> job[Loop].token]
<1> SUFFICES ASSUME Honest' PROVE OwnIds'
  BY DEF OwnIds
<1>1. Used' = Used \cup {q} /\ Sequences \subseteq Sequences' /\ Ids' = Ids
  <2>1. Ids' = Ids /\ Sequences \subseteq Sequences'
    BY DEF Ids, Sequences, Grows
  <2>2. inbox' = inbox \cup {m} /\ m.id = q
    OBVIOUS
  <2> HIDE DEF m, q
  <2> QED BY <2>1, <2>2 DEF Used
<1>2. q \notin Used /\ q < write[Source].next /\ q \in Sequences
  BY DEF BInv, OwnIds
<1>3. q \in Nat
  BY <1>2, SequencesType DEF BInv, AInv, RInv, LInv, TInv, StoreInv
<1>4. q \notin Ids /\ \A k \in inbox : k.id # q
  BY <1>2, <1>3 DEF Used
<1>5. \A k1, k2 \in inbox' : k1.id = k2.id => k1 = k2
  <2>1. \A k1, k2 \in inbox : k1.id = k2.id => k1 = k2
    BY DEF BInv, OwnIds
  <2>2. m.id = q
    OBVIOUS
  <2>3. inbox' = inbox \cup {m}
    OBVIOUS
  <2> HIDE DEF m, q
  <2> QED BY <1>4, <2>1, <2>2, <2>3
<1>6. \A k \in inbox', i \in DOMAIN stream'[Target] :
         k.id = stream'[Target][i].id => stream'[Target][i].token = k.token
  <2>1. \A i \in DOMAIN stream[Target] : stream[Target][i].id # q
    BY <1>4 DEF Ids
  <2>2. m.id = q
    OBVIOUS
  <2>3. inbox' = inbox \cup {m}
    OBVIOUS
  <2>4. \A k \in inbox, i \in DOMAIN stream[Target] :
           k.id = stream[Target][i].id => stream[Target][i].token = k.token
    BY DEF BInv, OwnIds
  <2> HIDE DEF m, q
  <2> QED BY <2>1, <2>2, <2>3, <2>4
<1>7. Used' \subseteq Sequences'
  BY <1>1, <1>2 DEF BInv, OwnIds
<1>8. up'[Source] => \A x \in Used' : x < write'[Source].next
  BY <1>1, <1>2 DEF BInv, OwnIds
<1> QED BY <1>5, <1>6, <1>7, <1>8 DEF OwnIds

\* A call stores its event in the target.
LEMMA InjectOwnIds ==
  ASSUME BInv, NEW w \in Writer, w # Loop, job[w].at = "append",
         StoreEvent(Target, job[w].kind, job[w].token, job[w].id), Honest' => Honest,
         UNCHANGED <<inbox, up>>, write'[Source] = write[Source], job'[Loop] = job[Loop]
  PROVE  OwnIds'
<1> DEFINE l == Len(stream[Target]) + 1
<1> SUFFICES ASSUME Honest' PROVE OwnIds'
  BY DEF OwnIds
<1>0. /\ StoreInv /\ StoreTypeOK /\ CallTypeOK /\ JobsOK /\ Target \in Net /\ Source \in Net
      /\ Source # Target
  BY NetAssumption DEF BInv, AInv, RInv, LInv, TInv, StoreInv
<1>1. /\ Grows(Target) /\ DOMAIN stream'[Target] = DOMAIN stream[Target] \cup {l}
      /\ stream'[Target][l] = Mint(Target, job[w].kind, job[w].token, job[w].id)
      /\ stream'[Source] = stream[Source]
  BY <1>0, AppendTypes, EventGrows
<1>2. stream'[Target][l].id = job[w].id /\ stream'[Target][l].token = job[w].token
  BY <1>1 DEF Mint
<1>3. Ids' = Ids \cup {job[w].id} /\ Sequences' = Sequences
  BY <1>1, <1>2 DEF Ids, Sequences, Grows
<1>4. \A m \in inbox : m.id \in Nat
  BY <1>0, SequencesType DEF BInv, OwnIds, Used
<1>5. /\ job[w].id \in Nat => job[w].id \in Used
      /\ \A m \in inbox : m.id = job[w].id => m.token = job[w].token
  <2>1. CASE w = Listener
    <3>1. Delivery \in inbox /\ Delivery.id = job[w].id /\ Delivery.token = job[w].token
      BY <2>1 DEF BInv, AInv, InHand, Delivery
    <3> QED BY <3>1 DEF BInv, OwnIds, Used
  <2>2. CASE w # Listener
    <3>1. w \in Canceller
      BY <2>2 DEF Writer
    <3>2. job[w].id = CancelId
      BY <1>0, <3>1, IdleFacts DEF JobsOK, CancelJobs, Call
    <3>3. CancelId \notin Nat
      BY CancelAssumption
    <3> QED BY <1>4, <3>2, <3>3
  <2> QED BY <2>1, <2>2
<1>6. Used' = Used
  BY <1>3, <1>5 DEF Used
<1>7. \A m \in inbox', i \in DOMAIN stream'[Target] :
         m.id = stream'[Target][i].id => stream'[Target][i].token = m.token
  <2> SUFFICES ASSUME NEW m \in inbox, NEW i \in DOMAIN stream'[Target],
                      m.id = stream'[Target][i].id
               PROVE  stream'[Target][i].token = m.token
    OBVIOUS
  <2>1. CASE i = l
    BY <1>2, <1>5, <2>1
  <2>2. CASE i \in DOMAIN stream[Target]
    BY <1>1, <2>2 DEF Grows, BInv, OwnIds
  <2> QED BY <1>1, <2>1, <2>2
<1> QED BY <1>3, <1>6, <1>7 DEF BInv, OwnIds

LEMMA InitBInv == Init => BInv
<1> SUFFICES ASSUME Init PROVE OwnIds
  BY InitAInv DEF BInv
<1>1. stream[Target] = << >> /\ inbox = {} /\ job[Loop].at = "idle"
  BY NetAssumption, IdleFacts DEF Init, StoreInit, Writer
<1>2. DOMAIN stream[Target] = {} /\ Used = {}
  BY <1>1 DEF Used, Ids
<1> QED BY <1>1, <1>2 DEF OwnIds

\* Only the source's loop writes to the source, and only its end of a call, a
\* wake or a reset changes what it has under way.
LEMMA NextBInv == BInv /\ [Next]_vars => BInv'
<1> SUFFICES ASSUME BInv, [Next]_vars PROVE OwnIds'
  BY NextAInv DEF BInv
<1>0. /\ AInv /\ RInv /\ LInv /\ TInv /\ StoreInv /\ StoreTypeOK /\ CallTypeOK /\ JobsOK
      /\ Target \in Net /\ Source \in Net /\ Source # Target /\ job \in [Writer -> Job]
      /\ Loop \in Writer /\ Listener \in Writer /\ Loop # Listener /\ Logged(Source) /\ Calls
      /\ write \in [Net -> [next : Nat, last : Nat \cup {None}]]
      /\ stream \in [Net -> Seq(Event)] /\ doubt \in [Net -> SUBSET Doubts]
  BY NetAssumption, WriterAssumption
     DEF BInv, AInv, RInv, LInv, TInv, StoreInv, CallTypeOK, Writer, StoreTypeOK
<1>1. Grows(Source) /\ Grows(Target) /\ LInv'
  BY <1>0, NextGrows, NextLInv
<1>2. \* the source and its loop are left alone, and the target's stream too
      ASSUME stream'[Target] = stream[Target], doubt'[Source] = doubt[Source],
             inbox' \subseteq inbox, up'[Source] => up[Source], write'[Source].next = write[Source].next,
             job'[Loop] = job[Loop] \/ job'[Loop].at # "wait"
      PROVE  OwnIds'
  <2>1. Honest' => Honest
    BY <1>2 DEF Honest
  <2> QED BY <1>1, <1>2, <2>1, QuietOwnIds
<1>3. \* a call into the target
      ASSUME NEW w \in Writer, w # Loop, job[w].at = "append",
             StoreEvent(Target, job[w].kind, job[w].token, job[w].id),
             \A v \in Writer : v # w => job'[v] = job[v], UNCHANGED <<inbox, up>>,
             write'[Source] = write[Source],
             doubt' = doubt \/ doubt' = [doubt EXCEPT ![Target] = @ \cup {"AckLost"}]
      PROVE  OwnIds'
  <2>1. Honest' => Honest
    BY <1>0, <1>3 DEF Honest
  <2> QED BY <1>0, <1>3, <2>1, InjectOwnIds
<1>4. ASSUME AppendStored(Loop) PROVE OwnIds'
  <2> DEFINE k == write[Source].next
             l == Len(stream[Source]) + 1
             r == [job[Loop] EXCEPT !.at = "wait", !.seq = k, !.pos = l]
  <2>1. /\ NetOf(Loop) = Source /\ up[Source] /\ k \in Nat
        /\ StoreEvent(Source, job[Loop].kind, job[Loop].token, job[Loop].id)
        /\ UNCHANGED <<up, doubt, inbox>> /\ job' = [job EXCEPT ![Loop] = r]
    BY <1>0, <1>4 DEF AppendStored, AtAppend, PublishStored, NetOf
  <2>2. write'[Source].next = k + 1
    <3>1. write' = [write EXCEPT ![Source] = [next |-> k + 1, last |-> l]]
      BY <1>4, <2>1 DEF AppendStored, PublishStored
    <3> QED BY <1>0, <3>1
  <2>3. job'[Loop].seq = k
    <3>1. job[Loop] \in Job
      BY <1>0
    <3>2. r.seq = k
      BY <3>1 DEF Job
    <3> HIDE DEF r
    <3> QED BY <1>0, <2>1, <3>2
  <2>4. /\ stream'[Target] = stream[Target]
        /\ DOMAIN stream'[Source] = DOMAIN stream[Source] \cup {l}
        /\ stream'[Source][l] = Mint(Source, job[Loop].kind, job[Loop].token, job[Loop].id)
    BY <1>0, <2>1, AppendTypes, EventGrows
  <2>5. Sequences' = Sequences \cup {k} /\ Used' = Used
    <3>1. stream'[Source][l].sequence = k
      BY <2>4 DEF Mint
    <3> QED BY <1>1, <2>1, <2>4, <3>1 DEF Sequences, Used, Ids, Grows
  <2>6. ASSUME Honest
        PROVE  /\ \A x \in Used : x < k + 1 /\ x < k
               /\ Used \subseteq Sequences
    <3>1. Used \subseteq Nat
      BY <1>0, <2>6, SequencesType DEF BInv, OwnIds
    <3>2. \A x \in Used : x < k
      BY <2>1, <2>6 DEF BInv, OwnIds
    <3> QED BY <2>1, <2>6, <3>1, <3>2 DEF BInv, OwnIds
  <2>7. k \in Used => ~ Honest
    BY <2>1, <2>6
  <2>8. k < k + 1
    BY <2>1
  <2>9. Honest' => Honest
    BY <2>1 DEF Honest
  <2> HIDE DEF k, l, r
  <2> QED BY <2>1, <2>2, <2>3, <2>4, <2>5, <2>6, <2>7, <2>8, <2>9 DEF BInv, OwnIds
<1>5. ASSUME NEW w \in Writer, w # Loop, AppendStored(w) PROVE OwnIds'
  <2>1. NetOf(w) = Target
    BY <1>5 DEF NetOf
  <2>2. write'[Source] = write[Source] /\ \A v \in Writer : v # w => job'[v] = job[v]
    BY <1>0, <1>5, <2>1 DEF AppendStored, PublishStored
  <2> QED BY <1>3, <1>5, <2>1, <2>2 DEF AppendStored, AtAppend, PublishStored
<1>6. ASSUME NEW w \in Writer, NEW res \in {"failed", "timeout"}, ReturnsError(w, res)
      PROVE  /\ job'[Loop] = job[Loop] \/ job'[Loop].at # "wait"
             /\ \A v \in Writer : v # w => job'[v] = job[v]
             /\ inbox' = inbox
  BY <1>0, <1>6, IdleFacts DEF ReturnsError
<1>7. ASSUME NEW n \in Net, KeepTip(n) PROVE \A m \in Net : write'[m].next = write[m].next
  <2> DEFINE w2 == [write[n] EXCEPT !.last = TipFor(n)]
  <2>1. write' = [write EXCEPT ![n] = w2] /\ write[n] \in [next : Nat, last : Nat \cup {None}]
    BY <1>0, <1>7 DEF KeepTip
  <2>2. w2.next = write[n].next
    BY <2>1
  <2> HIDE DEF w2
  <2> QED BY <1>0, <2>1, <2>2
<1>8. ASSUME NEW w \in Writer, AppendFails(w) PROVE OwnIds'
  <2>0. /\ NetOf(w) \in Net /\ job[w].at = "append" /\ inbox' = inbox
        /\ job'[Loop] = job[Loop] \/ job'[Loop].at # "wait"
        /\ \A v \in Writer : v # w => job'[v] = job[v]
    BY <1>6, <1>8, NetOfType DEF AppendFails, AtAppend
  <2>1. KeepTip(NetOf(w)) /\ up' = up
    BY <1>8 DEF AppendFails, PublishLost, PublishAckLost
  <2>2. \A m \in Net : write'[m].next = write[m].next
    BY <1>7, <2>0, <2>1
  <2>3. CASE PublishLost(NetOf(w))
    BY <1>0, <1>2, <2>0, <2>1, <2>2, <2>3 DEF PublishLost
  <2>4. CASE PublishAckLost(NetOf(w), job[w].kind, job[w].token, job[w].id)
    <3>1. StoreEvent(NetOf(w), job[w].kind, job[w].token, job[w].id)
              /\ doubt' = [doubt EXCEPT ![NetOf(w)] = @ \cup {"AckLost"}]
      BY <2>4 DEF PublishAckLost
    <3>2. CASE w = Loop
      <4>1. NetOf(w) = Source
        BY <3>2 DEF NetOf
      <4>2. stream'[Target] = stream[Target]
        BY <1>0, <3>1, <4>1 DEF StoreEvent
      <4>3. doubt'[Source] = doubt[Source] \cup {"AckLost"}
        BY <1>0, <3>1, <4>1
      <4>4. Honest' => Honest
        BY <4>3 DEF Honest
      <4> QED BY <1>0, <1>1, <2>0, <2>1, <2>2, <4>2, <4>4, QuietOwnIds
    <3>3. CASE w # Loop
      <4>1. NetOf(w) = Target
        BY <3>3 DEF NetOf
      <4>2. write'[Source] = write[Source]
        BY <1>0, <2>1, <4>1 DEF KeepTip
      <4> QED BY <1>3, <2>0, <2>1, <3>1, <3>3, <4>1, <4>2
    <3> QED BY <3>2, <3>3
  <2> QED BY <1>8, <2>3, <2>4 DEF AppendFails
<1>9. ASSUME UNCHANGED svars, inbox' \subseteq inbox,
             job'[Loop] = job[Loop] \/ job'[Loop].at # "wait"
      PROVE  OwnIds'
  BY <1>2, <1>9 DEF svars, memory
<1>10. ASSUME NEW w \in Writer, AppendTimesOut(w) PROVE OwnIds'
  BY <1>6, <1>9, <1>10 DEF AppendTimesOut
<1>11. ASSUME NEW w \in Writer, w # Loop, ReturnsOk(w)
       PROVE  job'[Loop] = job[Loop] /\ inbox' = inbox
  BY <1>0, <1>11 DEF ReturnsOk
<1>12. ASSUME AppendApplied(Loop) PROVE OwnIds'
  <2>1. UNCHANGED svars /\ LoopReturnsOk /\ job[Loop].at = "wait"
    BY <1>12 DEF AppendApplied, ReturnsOk
  <2>2. job'[Loop].at # "wait"
    <3>1. job' = [job EXCEPT ![Loop] = Idle] \/
          job' = [job EXCEPT ![Loop] = [Idle EXCEPT !.at = "append", !.kind = "BridgedOut",
                                                    !.token = job[Loop].token]]
      BY <2>1 DEF LoopReturnsOk
    <3> QED BY ZenonT(60), <1>0, <3>1, IdleFacts DEF Idle
  <2>3. \/ inbox' = inbox
        \/ inbox' = inbox \cup {[id |-> job[Loop].seq, token |-> job[Loop].token]}
    BY <2>1 DEF LoopReturnsOk, TransferId
  <2>4. CASE inbox' = inbox
    BY <1>9, <2>1, <2>2, <2>4
  <2>5. CASE inbox' = inbox \cup {[id |-> job[Loop].seq, token |-> job[Loop].token]}
    <3>1. UNCHANGED <<up, write>> /\ stream'[Target] = stream[Target] /\ (Honest' => Honest)
      BY <2>1 DEF svars, memory, Honest
    <3> QED BY <1>1, <2>1, <2>2, <2>5, <3>1, SendOwnIds
  <2> QED BY <2>3, <2>4, <2>5
<1>13. ASSUME NEW w \in Writer, AppendApplied(w) PROVE OwnIds'
  <2>1. CASE w = Loop
    BY <1>12, <1>13, <2>1
  <2>2. CASE w # Loop
    BY <1>9, <1>11, <1>13, <2>2 DEF AppendApplied
  <2> QED BY <2>1, <2>2
<1>14. ASSUME NEW w \in Writer, AppendDuplicate(w) PROVE OwnIds'
  <2>1. w # Loop
    BY <1>0, <1>14, AppendTypes DEF AppendDuplicate, PublishDuplicate, IsDuplicate, MsgIds
  <2>2. NetOf(w) \in Net /\ KeepTip(NetOf(w)) /\ UNCHANGED <<stream, doubt, up>> /\ ReturnsOk(w)
    BY <1>14, NetOfType DEF AppendDuplicate, PublishDuplicate
  <2> QED BY <1>0, <1>2, <1>7, <1>11, <2>1, <2>2
<1>15. ASSUME NEW t \in Work, Fire(t) PROVE OwnIds'
  <2> DEFINE r == [Idle EXCEPT !.at = "append", !.kind = "Fired", !.token = t]
  <2>1. job' = [job EXCEPT ![Loop] = r] /\ r.at = "append" /\ UNCHANGED svars /\ inbox' = inbox
    BY <1>15 DEF Fire, Idle
  <2> HIDE DEF r
  <2> QED BY <1>0, <1>9, <2>1
<1>16. ASSUME \/ \E m \in inbox : Receive(m)
              \/ \E c \in Canceller : RequestCancel(c)
              \/ Settle \/ Nak \/ DeadLetter
       PROVE  OwnIds'
  <2>1. UNCHANGED svars /\ inbox' \subseteq inbox
    BY <1>16 DEF Receive, RequestCancel, Settle, Nak, DeadLetter
  <2>2. job'[Loop] = job[Loop]
    BY <1>0, <1>16, WriterAssumption DEF Receive, RequestCancel, Settle, Nak, DeadLetter, CheckIndex, Finish
  <2> QED BY <1>9, <2>1, <2>2
<1>17. ASSUME NEW n \in Net, ConsumeNext(n) \/ ConsumerReconnects(n) PROVE OwnIds'
  <2>1. UNCHANGED <<stream, doubt, inbox, job, up, write>>
    BY <1>17 DEF ConsumeNext, Consume, ConsumerReconnects, Reconnect, bvars
  <2> QED BY <1>2, <2>1
<1>18. ASSUME NEW n \in Net, ConsumerRedelivers(n) PROVE OwnIds'
  <2>1. UNCHANGED <<stream, inbox, job, up, write>>
           /\ doubt' = [doubt EXCEPT ![n] = @ \cup {"Redelivered"}]
    BY <1>18 DEF ConsumerRedelivers, Redeliver
  <2>2. Honest' => Honest
    BY <1>0, <2>1 DEF Honest
  <2> QED BY <1>1, <2>1, <2>2, QuietOwnIds
<1>19. \* the source starts over on an empty stream
       ASSUME Honest' => Honest, stream[Source] = << >>, stream' = stream, inbox' = inbox,
              job'[Loop].at # "wait"
       PROVE  OwnIds'
  <2>1. Sequences = {} /\ Used' = Used
    BY <1>19 DEF Sequences, Used, Ids
  <2> QED BY <1>19, <2>1 DEF BInv, OwnIds
<1>20. ASSUME NEW n \in Net, Reset(n) PROVE OwnIds'
  <2>1. /\ UNCHANGED <<stream, inbox, job, up>> /\ NoCaller(n)
        /\ write' = [write EXCEPT ![n] = [next |-> 0, last |-> None]]
        /\ doubt' = [doubt EXCEPT ![n] = IF cursor[n] = 0 /\ stream[n] = << >> THEN @
                                         ELSE @ \cup {"Reset"}]
    BY <1>20 DEF Reset, ResetStore
  <2>2. CASE n # Source
    <3>1. write'[Source] = write[Source] /\ doubt'[Source] = doubt[Source]
      BY <1>0, <2>1, <2>2
    <3> QED BY <1>2, <2>1, <3>1
  <2>3. CASE n = Source
    <3>1. job'[Loop].at # "wait"
      BY <1>0, <2>1, <2>3 DEF NoCaller, NetOf
    <3>2. Honest' => stream[Source] = << >> /\ Honest
      BY <1>0, <2>1, <2>3 DEF Honest
    <3>3. CASE Honest'
      BY <1>19, <2>1, <3>1, <3>2, <3>3
    <3> QED BY <3>3 DEF OwnIds
  <2> QED BY <2>2, <2>3
<1>21. ASSUME NEW nets \in SUBSET Net, Forgotten(nets), inbox' = inbox,
              job' = job \/ job'[Loop].at # "wait",
              Source \in nets => job'[Loop].at # "wait"
       PROVE  OwnIds'
  <2>1. UNCHANGED <<stream, doubt>> /\ up'[Source] = (up[Source] /\ Source \notin nets)
           /\ (Source \notin nets => write'[Source] = write[Source])
    BY <1>0, <1>21 DEF Forgotten
  <2>2. CASE Source \in nets
    BY <1>1, <1>21, <2>1, <2>2, QuietOwnIds DEF Honest
  <2>3. CASE Source \notin nets
    BY <1>2, <1>21, <2>1, <2>3
  <2> QED BY <2>2, <2>3
<1>22. ASSUME NEW n \in Net, Hibernate(n) PROVE OwnIds'
  <2>1. Forgotten({n}) /\ inbox' = inbox /\ job' = job /\ NoCaller(n) /\ {n} \in SUBSET Net
    BY <1>22 DEF Hibernate, HibernateStore
  <2>2. Source \in {n} => job'[Loop].at # "wait"
    BY <1>0, <2>1 DEF NoCaller, NetOf
  <2> QED BY <1>21, <2>1, <2>2
<1>23. ASSUME Crash PROVE OwnIds'
  <2>1. Forgotten(Net) /\ inbox' = inbox /\ Net \in SUBSET Net /\ job'[Loop] = Idle
    BY <1>0, <1>23, WriterAssumption DEF Crash
  <2> QED BY <1>21, <2>1, IdleFacts
<1>24. ASSUME NEW n \in Net, WakeNet(n) PROVE OwnIds'
  <2>1. /\ UNCHANGED <<stream, inbox, job, snapshot>> /\ ~ up[n]
        /\ up' = [up EXCEPT ![n] = TRUE] /\ write' = [write EXCEPT ![n] = WriteAfterWake(n)]
        /\ doubt' = [doubt EXCEPT ![n] = IF snapshot[n] # None THEN @ \ {"AckLost"}
                                         ELSE IF stream[n] = << >> THEN @
                                         ELSE @ \cup {"Replayed"}]
    BY <1>24 DEF WakeNet, Wake, bvars
  <2>2. CASE n # Source
    <3>1. write'[Source] = write[Source] /\ doubt'[Source] = doubt[Source] /\ up'[Source] = up[Source]
      BY <1>0, <2>1, <2>2 DEF StoreTypeOK
    <3> QED BY <1>2, <2>1, <3>1
  <2>3. CASE n = Source
    <3>1. job[Loop].at # "wait"
      BY <1>0, <2>1, <2>3 DEF Calls, NetOf
    <3>2. doubt'[Source] = IF snapshot[Source] # None THEN doubt[Source] \ {"AckLost"}
                           ELSE IF stream[Source] = << >> THEN doubt[Source]
                           ELSE doubt[Source] \cup {"Replayed"}
      BY <1>0, <2>1, <2>3
    <3>3. Honest' => Honest
      BY <3>2 DEF Honest
    <3>4. CASE stream[Source] = << >>
      BY <1>19, <2>1, <3>1, <3>3, <3>4
    <3>5. CASE stream[Source] # << >>
      <4> SUFFICES ASSUME Honest' PROVE OwnIds'
        BY DEF OwnIds
      <4>1. doubt'[Source] \cap {"AckLost", "Replayed", "Reset"} = {} /\ up'[Source]
        BY <1>0, <2>1, <2>3, <3>2, <3>5 DEF Honest, StoreTypeOK
      <4>2. Ahead(Source)'
        BY <1>0, <1>1 DEF LInv, Logged
      <4>3. \A x \in Sequences : x < write'[Source].next
        BY <2>1, <4>1, <4>2 DEF Ahead, Sequences
      <4>4. Used' = Used /\ Sequences' = Sequences
        BY <2>1 DEF Used, Ids, Sequences
      <4> QED BY <2>1, <3>1, <3>3, <4>3, <4>4 DEF BInv, OwnIds
    <3> QED BY <3>4, <3>5
  <2> QED BY <2>2, <2>3
<1>25. ASSUME NEW id, EndWindow(id) PROVE OwnIds'
  BY <1>2, <1>25 DEF EndWindow, memory
<1>26. CASE Progress
  BY <1>4, <1>5, <1>10, <1>13, <1>14, <1>15, <1>16, <1>17, <1>24, <1>26 DEF Progress
<1>27. CASE Failure
  BY <1>8, <1>17, <1>18, <1>20, <1>22, <1>23, <1>25, <1>27 DEF Failure
<1>28. CASE UNCHANGED vars
  BY <1>9, <1>28 DEF vars, bvars
<1> QED BY <1>26, <1>27, <1>28 DEF Next

NInv == BInv /\ NothingLost

Fired == Stored(Source, "Fired")
Created == Stored(Target, "Created")

LEMMA InitNInv == Init => NInv
<1> SUFFICES ASSUME Init PROVE NothingLost
  BY InitBInv DEF NInv
<1>1. stream[Source] = << >>
  BY NetAssumption DEF Init, StoreInit
<1>2. Stored(Source, "Fired") = {}
  BY <1>1 DEF Stored
<1> QED BY <1>2 DEF NothingLost

\* What a step must see to: a firing that is stored is under way or cut, the loop
\* does not drop its token, and a transfer leaves the inbox for good reason.
LEMMA KeepsNInv ==
  ASSUME NInv, Honest' => Honest, Grows(Target), cut \subseteq cut',
         \A t \in Fired' : \/ t \in Fired
                           \/ job'[Loop].at # "idle" /\ job'[Loop].token = t
                           \/ t \in cut',
         job[Loop].at # "idle" /\ job[Loop].token \in Fired' =>
            \/ job'[Loop].at # "idle" /\ job'[Loop].token = job[Loop].token
            \/ job[Loop].token \in cut' \cup TokensOf(inbox'),
         dlq \subseteq dlq',
         Honest => \A m \in inbox : m \in inbox' \cup dlq' \/ m.token \in Created
  PROVE  NothingLost'
<1> SUFFICES ASSUME Honest', NEW t \in Fired'
             PROVE  \/ job'[Loop].at # "idle" /\ job'[Loop].token = t
                    \/ t \in cut'
                    \/ t \in TokensOf(inbox') \cup TokensOf(dlq') \cup Created'
  BY DEF NothingLost, TokensOf, Fired, Created, Honest
<1>1. Created \subseteq Created'
  BY DEF Created, Stored, Grows
<1>2. CASE t \in Fired
  <2>1. \/ job[Loop].at # "idle" /\ job[Loop].token = t
        \/ t \in cut
        \/ t \in TokensOf(inbox) \cup TokensOf(dlq) \cup Created
    BY <1>2 DEF NInv, NothingLost, Honest, Fired, Created
  <2>2. CASE t \in TokensOf(inbox)
    <3>1. PICK m \in inbox : m.token = t
      BY <2>2 DEF TokensOf
    <3> QED BY <1>1, <3>1 DEF TokensOf
  <2>3. CASE t \in TokensOf(dlq)
    BY <2>3 DEF TokensOf
  <2> QED BY <1>1, <2>1, <2>2, <2>3
<1>3. CASE t \notin Fired
  BY <1>3
<1> QED BY <1>2, <1>3

\* The message in hand of an injection that succeeded has arrived.
LEMMA SettledArrived ==
  ASSUME BInv, Honest, job[Listener].at = "ok"
  PROVE  job[Listener].token \in Created
<1>1. Listener \in Writer /\ Listener # Loop
  BY WriterAssumption DEF Writer
<1>2. job[Listener].id \in Ids
  BY <1>1 DEF BInv, AInv, Landed
<1>3. PICK i \in DOMAIN stream[Target] : stream[Target][i].id = job[Listener].id
  BY <1>2 DEF Ids
<1>4. Delivery \in inbox /\ Delivery.id = job[Listener].id /\ Delivery.token = job[Listener].token
  BY DEF BInv, AInv, InHand, Delivery
<1>5. stream[Target][i].token = job[Listener].token
  BY <1>3, <1>4 DEF BInv, OwnIds
<1>6. stream[Target][i].kind = "Created"
  BY DEF BInv, AInv, Arrivals
<1> QED BY <1>5, <1>6 DEF Created, Stored

LEMMA NextNInv == NInv /\ [Next]_vars => NInv'
<1> SUFFICES ASSUME NInv, [Next]_vars PROVE NothingLost'
  BY NextBInv DEF NInv
<1>0. /\ BInv /\ AInv /\ TInv /\ StoreInv /\ StoreTypeOK /\ CallTypeOK /\ JobsOK
      /\ Target \in Net /\ Source \in Net /\ Source # Target /\ job \in [Writer -> Job]
      /\ Loop \in Writer /\ Listener \in Writer /\ Loop # Listener /\ NetOf(Loop) = Source
      /\ doubt \in [Net -> SUBSET Doubts]
  BY NetAssumption, WriterAssumption
     DEF NInv, BInv, AInv, RInv, LInv, TInv, StoreInv, CallTypeOK, Writer, StoreTypeOK, NetOf
<1>1. Grows(Source) /\ Grows(Target)
  BY <1>0, NextGrows
<1>2. Honest' => Honest
  BY <1>0, NextGrows DEF Doubting, Honest
<1>3. \* the firings and the loop are left alone
      ASSUME stream'[Source] = stream[Source], job'[Loop] = job[Loop], inbox' = inbox,
             UNCHANGED <<dlq, cut>>
      PROVE  NothingLost'
  <2>1. Fired' = Fired
    BY <1>3 DEF Fired, Stored
  <2> QED BY <1>1, <1>2, <1>3, <2>1, KeepsNInv
<1>4. ASSUME NEW w \in Writer, StoreEvent(NetOf(w), job[w].kind, job[w].token, job[w].id)
      PROVE  /\ w = Loop => Fired' \subseteq Fired \cup {job[Loop].token}
             /\ w # Loop => stream'[Source] = stream[Source]
  <2>1. CASE w = Loop
    <3> DEFINE l == Len(stream[Source]) + 1
    <3>1. /\ DOMAIN stream'[Source] = DOMAIN stream[Source] \cup {l}
          /\ stream'[Source][l] = Mint(Source, job[w].kind, job[w].token, job[w].id)
      BY <1>0, <1>4, <2>1, AppendTypes, EventGrows
    <3>2. stream'[Source][l].token = job[Loop].token
      BY <2>1, <3>1 DEF Mint
    <3> QED BY <1>1, <2>1, <3>1, <3>2 DEF Fired, Stored, Grows
  <2>2. CASE w # Loop
    BY <1>0, <1>4, <2>2 DEF NetOf, StoreEvent, StoreTypeOK
  <2> QED BY <2>1, <2>2
<1>5. ASSUME NEW w \in Writer, AppendStored(w) PROVE NothingLost'
  <2>0. /\ StoreEvent(NetOf(w), job[w].kind, job[w].token, job[w].id)
        /\ UNCHANGED <<inbox, dlq, cut>> /\ \A v \in Writer : v # w => job'[v] = job[v]
    BY <1>0, <1>5 DEF AppendStored, PublishStored
  <2>1. CASE w = Loop
    <3> DEFINE r == [job[w] EXCEPT !.at = "wait", !.seq = write[NetOf(w)].next,
                                   !.pos = Len(stream[NetOf(w)]) + 1]
    <3>1. job' = [job EXCEPT ![w] = r] /\ job[w] \in Job
      BY <1>0, <1>5 DEF AppendStored
    <3>2. r.at = "wait" /\ r.token = job[w].token
      BY <3>1 DEF Job
    <3> HIDE DEF r
    <3>3. job'[Loop].at = "wait" /\ job'[Loop].token = job[Loop].token
      BY <1>0, <2>1, <3>1, <3>2
    <3> QED BY <1>1, <1>2, <1>4, <2>0, <2>1, <3>3, KeepsNInv
  <2>2. CASE w # Loop
    BY <1>0, <1>3, <1>4, <2>0, <2>2
  <2> QED BY <2>1, <2>2
<1>6. \* the loop ends with an error
      ASSUME NEW res \in {"failed", "timeout"}, ReturnsError(Loop, res),
             Fired' \subseteq Fired \cup {job[Loop].token}
      PROVE  NothingLost'
  <2>1. cut' = CutWith(stream'[Source]) /\ UNCHANGED <<inbox, dlq>>
    BY <1>0, <1>6 DEF ReturnsError
  <2>2. cut \subseteq cut'
    BY <2>1 DEF CutWith
  <2>3. job[Loop].token \in Fired' => job[Loop].token \in cut'
    BY <2>1 DEF CutWith, Fired, Stored
  <2> QED BY <1>1, <1>2, <1>6, <2>1, <2>2, <2>3, KeepsNInv
<1>7. ASSUME NEW w \in Writer, w # Loop, NEW res \in {"failed", "timeout"}, ReturnsError(w, res)
      PROVE  UNCHANGED <<inbox, dlq, cut>> /\ job'[Loop] = job[Loop]
  BY <1>0, <1>7 DEF ReturnsError
<1>8. ASSUME NEW w \in Writer, AppendFails(w) PROVE NothingLost'
  <2>0. ReturnsError(w, "failed")
           /\ (PublishLost(NetOf(w)) \/
               PublishAckLost(NetOf(w), job[w].kind, job[w].token, job[w].id))
    BY <1>8 DEF AppendFails
  <2>1. stream' = stream \/ StoreEvent(NetOf(w), job[w].kind, job[w].token, job[w].id)
    BY <2>0 DEF PublishLost, PublishAckLost
  <2>2. /\ w = Loop => Fired' \subseteq Fired \cup {job[Loop].token}
        /\ w # Loop => stream'[Source] = stream[Source]
    BY <1>4, <2>1 DEF Fired, Stored
  <2> QED BY <1>3, <1>6, <1>7, <2>0, <2>2
<1>9. ASSUME NEW w \in Writer, AppendTimesOut(w) PROVE NothingLost'
  <2>1. ReturnsError(w, "timeout") /\ stream' = stream
    BY <1>9 DEF AppendTimesOut, svars
  <2>2. Fired' = Fired
    BY <2>1 DEF Fired, Stored
  <2> QED BY <1>3, <1>6, <1>7, <2>1, <2>2
<1>10. ASSUME NEW w \in Writer, w # Loop, ReturnsOk(w), stream' = stream PROVE NothingLost'
  <2>1. UNCHANGED <<inbox, dlq, cut>> /\ job'[Loop] = job[Loop]
    BY <1>0, <1>10 DEF ReturnsOk
  <2> QED BY <1>3, <1>10, <2>1
<1>11. ASSUME NEW w \in Writer, AppendDuplicate(w) PROVE NothingLost'
  <2>1. w # Loop
    BY <1>0, <1>11, AppendTypes DEF AppendDuplicate, PublishDuplicate, IsDuplicate, MsgIds
  <2> QED BY <1>10, <1>11, <2>1 DEF AppendDuplicate, PublishDuplicate
<1>12. ASSUME AppendApplied(Loop) PROVE NothingLost'
  <2>0. LoopReturnsOk /\ stream' = stream /\ dlq' = dlq
    BY <1>12 DEF AppendApplied, ReturnsOk, svars
  <2>1. Fired' = Fired
    BY <2>0 DEF Fired, Stored
  <2>2. CASE job[Loop].kind = "Fired"
    <3> DEFINE r == [Idle EXCEPT !.at = "append", !.kind = "BridgedOut", !.token = job[Loop].token]
    <3>1. job' = [job EXCEPT ![Loop] = r] /\ UNCHANGED <<inbox, cut>>
      BY <2>0, <2>2 DEF LoopReturnsOk
    <3>2. r.at = "append" /\ r.token = job[Loop].token
      BY DEF Idle
    <3> HIDE DEF r
    <3>3. job'[Loop].at # "idle" /\ job'[Loop].token = job[Loop].token
      BY <1>0, <3>1, <3>2
    <3> QED BY <1>1, <1>2, <2>0, <2>1, <3>1, <3>3, KeepsNInv
  <2>3. CASE job[Loop].kind # "Fired"
    <3> DEFINE m == [id |-> TransferId(job[Loop].seq), token |-> job[Loop].token]
    <3>1. \/ inbox' = inbox \cup {m} /\ cut' = cut
          \/ inbox' = inbox /\ cut' = cut \cup {job[Loop].token}
      BY <2>0, <2>3 DEF LoopReturnsOk
    <3>2. m.token = job[Loop].token
      OBVIOUS
    <3> HIDE DEF m
    <3>3. job[Loop].token \in cut' \cup TokensOf(inbox') /\ inbox \subseteq inbox' /\ cut \subseteq cut'
      BY <3>1, <3>2 DEF TokensOf
    <3> QED BY <1>1, <1>2, <2>0, <2>1, <3>3, KeepsNInv
  <2> QED BY <2>2, <2>3
<1>13. ASSUME NEW w \in Writer, AppendApplied(w) PROVE NothingLost'
  <2>1. CASE w = Loop
    BY <1>12, <1>13, <2>1
  <2>2. CASE w # Loop
    BY <1>10, <1>13, <2>2 DEF AppendApplied, svars
  <2> QED BY <2>1, <2>2
<1>14. ASSUME NEW t \in Work, Fire(t) PROVE NothingLost'
  <2>1. job[Loop].at = "idle" /\ stream' = stream /\ UNCHANGED <<inbox, dlq, cut>>
    BY <1>14 DEF Fire, svars
  <2>2. Fired' = Fired
    BY <2>1 DEF Fired, Stored
  <2> QED BY <1>1, <1>2, <2>1, <2>2, KeepsNInv
<1>15. ASSUME (\E m \in inbox : Receive(m)) \/ (\E c \in Canceller : RequestCancel(c)) \/ Nak
       PROVE  NothingLost'
  <2>1. stream' = stream /\ UNCHANGED <<inbox, dlq, cut>>
    BY <1>15 DEF Receive, RequestCancel, Nak, svars
  <2>2. job'[Loop] = job[Loop]
    BY <1>0, <1>15, WriterAssumption DEF Receive, RequestCancel, Nak, CheckIndex, Finish
  <2> QED BY <1>3, <2>1, <2>2
<1>16. ASSUME Settle \/ DeadLetter PROVE NothingLost'
  <2>1. stream' = stream /\ cut' = cut /\ job'[Loop] = job[Loop] /\ dlq \subseteq dlq'
    BY <1>0, <1>16 DEF Settle, DeadLetter, Finish, svars
  <2>2. Fired' = Fired
    BY <2>1 DEF Fired, Stored
  <2>3. \/ inbox' = inbox
        \/ inbox' = inbox \ {Delivery} /\ (job[Listener].at = "ok" \/ Delivery \in dlq')
    BY <1>16 DEF Settle, DeadLetter, Finish
  <2>4. Delivery.token = job[Listener].token
    BY DEF Delivery
  <2>5. Honest => \A m \in inbox : m \in inbox' \cup dlq' \/ m.token \in Created
    BY <1>0, <2>3, <2>4, SettledArrived
  <2> QED BY <1>1, <1>2, <2>1, <2>2, <2>5, KeepsNInv
<1>17. ASSUME NEW n \in Net, ConsumeNext(n) \/ WakeNet(n) \/ ConsumerReconnects(n)
                                \/ ConsumerRedelivers(n) \/ Reset(n) \/ Hibernate(n)
       PROVE  NothingLost'
  <2>1. UNCHANGED <<stream, job, inbox, dlq, cut>>
    BY <1>17 DEF ConsumeNext, Consume, WakeNet, Wake, ConsumerReconnects, Reconnect,
                 ConsumerRedelivers, Redeliver, Reset, ResetStore, Hibernate, HibernateStore,
                 Forgotten, bvars
  <2> QED BY <1>3, <2>1
<1>18. ASSUME Crash PROVE NothingLost'
  <2>1. /\ UNCHANGED <<stream, inbox, dlq>>
        /\ cut' = IF job[Loop].at = "idle" THEN cut ELSE CutWith(stream[Source])
    BY <1>18 DEF Crash, Forgotten
  <2>2. Fired' = Fired
    BY <2>1 DEF Fired, Stored
  <2>3. cut \subseteq cut'
    BY <2>1 DEF CutWith
  <2>4. job[Loop].at # "idle" /\ job[Loop].token \in Fired' => job[Loop].token \in cut'
    BY <2>1, <2>2 DEF CutWith, Fired, Stored
  <2> QED BY <1>1, <1>2, <2>1, <2>2, <2>3, <2>4, KeepsNInv
<1>19. ASSUME NEW id, EndWindow(id) PROVE NothingLost'
  BY <1>3, <1>19 DEF EndWindow
<1>20. CASE Progress
  BY <1>5, <1>9, <1>11, <1>13, <1>14, <1>15, <1>16, <1>17, <1>20 DEF Progress
<1>21. CASE Failure
  BY <1>8, <1>17, <1>18, <1>19, <1>21 DEF Failure
<1>22. CASE UNCHANGED vars
  BY <1>3, <1>22 DEF vars, svars, bvars
<1> QED BY <1>20, <1>21, <1>22 DEF Next

(***************************************************************************)
(* A token that the source consumed to send is under way, has arrived, or  *)
(* is in the dead-letter stream, unless its firing was cut half way: the   *)
(* listener acks a message only when the id it carries is on the target's  *)
(* stream, and that id names one transfer while the source does not go     *)
(* back to sequences it used.                                              *)
(***************************************************************************)
THEOREM NothingEverLost == Spec => []NothingLost
<1>1. NInv => NothingLost
  BY DEF NInv
<1> QED BY <1>1, InitNInv, NextNInv, PTL DEF Spec
=============================================================================
