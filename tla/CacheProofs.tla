---------------------------- MODULE CacheProofs ----------------------------
(***************************************************************************)
(* The marking cache is coherent, its readers are served fresh markings    *)
(* and the SSE clients get the events they have not had, for any number of *)
(* callers, any tail cap, any events and any number of clears.             *)
(***************************************************************************)
EXTENDS SseBroadcast, MemoryStoreProofs, SequenceTheorems

\* The marking of the first n events of l.
Upto(l, n) == ProjectMarking(SubSeq(l, 1, n))

LEMMA SubSeqGrows ==
  ASSUME NEW PE, NEW l \in Seq(PE), NEW a \in Nat, NEW b \in Nat,
         1 <= a, a <= b + 1, b + 1 <= Len(l)
  PROVE  /\ SubSeq(l, a, b) \in Seq(PE)
         /\ l[b + 1] \in PE
         /\ SubSeq(l, a, b + 1) = Append(SubSeq(l, a, b), l[b + 1])
<1>1. a \in 1..Len(l) /\ b + 1 \in a..Len(l) /\ b + 1 \in 1..Len(l) /\ (b + 1) - 1 = b
  BY LenProperties
<1>2. SubSeq(l, a, b) \in Seq(PE)
  OBVIOUS
<1>3. l[b + 1] \in PE
  BY <1>1, ElementOfSeq
<1>4. SubSeq(l, a, b + 1) = SubSeq(l, a, b) \o <<l[b + 1]>>
  BY <1>1, SubSeqRecursiveSecond
<1> QED BY <1>2, <1>3, <1>4, AppendIsConcat

LEMMA UptoType ==
  ASSUME NEW l \in Seq(PersistedEvent), NEW n \in 0..Len(l)
  PROVE  Upto(l, n) \in Marking
<1>1. SubSeq(l, 1, n) \in Seq(PersistedEvent)
  OBVIOUS
<1> QED BY <1>1, EmptyMarkingType, PersistedEvents, ProjectOntoType DEF Upto, ProjectMarking

LEMMA UptoNext ==
  ASSUME NEW l \in Seq(PersistedEvent), NEW n \in Nat, n + 1 <= Len(l)
  PROVE  Upto(l, n + 1) = ApplyEvent(Upto(l, n), l[n + 1].event)
<1>1. /\ SubSeq(l, 1, n) \in Seq(PersistedEvent)
      /\ l[n + 1] \in PersistedEvent
      /\ SubSeq(l, 1, n + 1) = Append(SubSeq(l, 1, n), l[n + 1])
  BY SubSeqGrows
<1> QED BY ZenonT(60), <1>1, EmptyMarkingType, PersistedEvents, ProjectOntoAppend DEF Upto, ProjectMarking

(***************************************************************************)
(* Folding a slice of the log onto the marking where it starts gives the   *)
(* marking where it ends.                                                  *)
(***************************************************************************)
LEMMA FoldSlice ==
  ASSUME NEW l \in Seq(PersistedEvent), NEW i \in Nat, NEW j \in Nat, i <= j, j <= Len(l)
  PROVE  ProjectOnto(Upto(l, i), SubSeq(l, i + 1, j)) = Upto(l, j)
<1> DEFINE n == j - i
           m == Upto(l, i)
           S == {k \in 0..n : ProjectOnto(m, SubSeq(l, i + 1, i + k)) = Upto(l, i + k)}
<1>0. Len(l) \in Nat /\ n \in Nat
  OBVIOUS
<1>1. m \in Marking
  BY <1>0, UptoType
<1>2. 0 \in S
  <2>1. SubSeq(l, i + 1, i + 0) = << >> /\ i + 0 = i
    OBVIOUS
  <2>2. ProjectOnto(m, SubSeq(l, i + 1, i + 0)) = Upto(l, i + 0)
    BY <1>1, <2>1, ProjectOntoEmpty
  <2>3. 0 \in 0..n
    BY <1>0
  <2> QED BY <2>2, <2>3
<1>3. ASSUME NEW k \in S, k < n PROVE k + 1 \in S
  <2> DEFINE b == i + k
  <2>1. b \in Nat /\ i + 1 \in Nat /\ 1 <= i + 1 /\ i + 1 <= b + 1 /\ b + 1 <= Len(l)
        /\ i + (k + 1) = b + 1 /\ k + 1 \in 0..n
    BY <1>0, <1>3
  <2>2. ProjectOnto(m, SubSeq(l, i + 1, b)) = Upto(l, b)
    OBVIOUS
  <2> HIDE DEF b, n, m, S
  <2>3. /\ SubSeq(l, i + 1, b) \in Seq(PersistedEvent)
        /\ l[b + 1] \in PersistedEvent
        /\ SubSeq(l, i + 1, b + 1) = Append(SubSeq(l, i + 1, b), l[b + 1])
    BY <2>1, SubSeqGrows
  <2>4. ProjectOnto(m, SubSeq(l, i + 1, b + 1)) =
          ApplyEvent(ProjectOnto(m, SubSeq(l, i + 1, b)), l[b + 1].event)
    BY ZenonT(60), <1>1, <2>3, PersistedEvents, ProjectOntoAppend
  <2>5. ProjectOnto(m, SubSeq(l, i + 1, b + 1)) = Upto(l, b + 1)
    BY <2>1, <2>2, <2>4, UptoNext
  <2> QED BY <2>1, <2>5 DEF S
<1>4. S \subseteq 0..n
  OBVIOUS
<1>5. S = 0..n
  <2> HIDE DEF S, n
  <2> QED BY <1>0, <1>2, <1>3, <1>4, IntervalInduction
<1>6. n \in S
  <2> HIDE DEF S, n
  <2> QED BY <1>0, <1>5
<1>7. i + n = j
  OBVIOUS
<1> HIDE DEF n, m
<1> QED BY <1>6, <1>7 DEF m

LEMMA UptoAppend ==
  ASSUME NEW l \in Seq(PersistedEvent), NEW pe \in PersistedEvent, NEW n \in 0..Len(l)
  PROVE  Upto(Append(l, pe), n) = Upto(l, n)
<1>1. SubSeq(Append(l, pe), 1, n) = SubSeq(l, 1, n)
  OBVIOUS
<1> QED BY <1>1 DEF Upto

LEMMA SliceAppend ==
  ASSUME NEW PE, NEW l \in Seq(PE), NEW pe \in PE, NEW a \in Nat \ {0}, NEW b \in 0..Len(l)
  PROVE  SubSeq(Append(l, pe), a, b) = SubSeq(l, a, b)
OBVIOUS

(***************************************************************************)
(* The store g stands for the log l: its base is the projection of the     *)
(* events dropped and its tail is the rest of the log.                     *)
(***************************************************************************)
Represents(g, l) ==
    /\ g.baseCount <= Len(l)
    /\ g.baseMarking = Upto(l, g.baseCount)
    /\ g.tail = SubSeq(l, g.baseCount + 1, Len(l))

LEMMA RepresentsEmpty == Represents(EmptyStore, << >>)
<1>1. EmptyStore.baseCount = 0 /\ EmptyStore.baseMarking = EmptyMarking
      /\ EmptyStore.tail = << >>
  BY DEF EmptyStore
<1>2. Len(<< >>) = 0 /\ SubSeq(<< >>, 1, 0) = << >> /\ SubSeq(<< >>, 0 + 1, 0) = << >>
  BY SubSeqEmpty
<1>3. Upto(<< >>, 0) = EmptyMarking
  BY <1>2, EmptyMarkingType, ProjectOntoEmpty DEF Upto, ProjectMarking
<1> QED BY <1>1, <1>2, <1>3 DEF Represents

LEMMA StoreExtent ==
  ASSUME NEW g \in StoreType, NEW l \in Seq(PersistedEvent), Represents(g, l)
  PROVE  /\ StoreLen(g) = Len(l)
         /\ FullMarking(g) = Upto(l, Len(l))
<1> DEFINE n == g.baseCount
           L == Len(l)
<1>1. n \in Nat /\ L \in Nat /\ n <= L /\ n + 1 \in Nat
  BY DEF StoreType, Represents
<1>2. Len(SubSeq(l, n + 1, L)) = L - n
  BY <1>1
<1>3. StoreLen(g) = L
  <2>1. StoreLen(g) = n + (L - n)
    BY <1>2 DEF Represents, StoreLen
  <2> HIDE DEF n, L
  <2> QED BY <1>1, <2>1
<1>4. FullMarking(g) = Upto(l, L)
  <2>1. ProjectOnto(Upto(l, n), SubSeq(l, n + 1, L)) = Upto(l, L)
    BY <1>1, FoldSlice
  <2> QED BY <2>1 DEF FullMarking, Represents
<1> QED BY <1>3, <1>4

(***************************************************************************)
(* An eviction moves the border between base and tail, not the log.        *)
(***************************************************************************)
LEMMA EvictRepresents ==
  ASSUME NEW g \in StoreType, NEW l \in Seq(PersistedEvent), Represents(g, l),
         Len(g.tail) > 1
  PROVE  Represents(EvictOne(g), l)
<1> DEFINE n == g.baseCount
           L == Len(l)
           k == EvictOne(g)
<1>1. n \in Nat /\ L \in Nat /\ n <= L /\ n + 1 \in Nat
  BY DEF StoreType, Represents
<1>2. g.tail = SubSeq(l, n + 1, L) /\ Len(g.tail) = L - n
  BY <1>1 DEF Represents
<1>3. n + 1 \in 1..L /\ L \in (n + 1)..L /\ n + 1 <= L
  <2> HIDE DEF n, L
  <2> QED BY <1>1, <1>2
<1>4. Head(g.tail) = l[n + 1] /\ Tail(g.tail) = SubSeq(l, (n + 1) + 1, L)
  BY ZenonT(60), <1>2, <1>3, HeadTailOfSubSeq
<1>5. /\ k.tail = Tail(g.tail)
      /\ k.baseMarking = ApplyEvent(g.baseMarking, Head(g.tail).event)
      /\ k.baseCount = n + 1
  BY DEF EvictOne, StoreType
<1>6. Upto(l, n + 1) = ApplyEvent(Upto(l, n), l[n + 1].event)
  BY <1>1, <1>3, UptoNext
<1> HIDE DEF k
<1>7. Represents(k, l)
  BY <1>3, <1>4, <1>5, <1>6 DEF Represents
<1> QED BY <1>7 DEF k

LEMMA PushRepresents ==
  ASSUME NEW g \in StoreType, NEW l \in Seq(PersistedEvent), Represents(g, l),
         NEW pe \in PersistedEvent
  PROVE  Represents(PushTail(g, pe), Append(l, pe))
<1> DEFINE k == [g EXCEPT !.tail = Append(g.tail, pe), !.tailBytes = g.tailBytes + pe.bytes]
           more == Append(l, pe)
           n == g.baseCount
           L == Len(l)
           S == {x \in StoreType : Represents(x, more)}
<1>1. n \in Nat /\ L \in Nat /\ n <= L /\ n + 1 \in Nat \ {0} /\ g.tail \in Seq(PersistedEvent)
      /\ g.tailBytes \in Nat /\ L \in 0..L /\ n \in 0..L
  BY DEF StoreType, Represents
<1>2. more \in Seq(PersistedEvent) /\ Len(more) = L + 1 /\ more[L + 1] = pe
  OBVIOUS
<1>3. k \in StoreType /\ PushTail(g, pe) = EvictToCap(k)
  <2>1. Append(g.tail, pe) \in Seq(PersistedEvent) /\ g.tailBytes + pe.bytes \in Nat
    BY <1>1, SizesAreNumbers
  <2>2. k \in StoreType
    BY <2>1, StoreWithTail
  <2>3. PushTail(g, pe) = EvictToCap(k)
    BY DEF PushTail, StoreType
  <2> QED BY <2>2, <2>3
<1>4. k.tail = Append(g.tail, pe) /\ k.baseCount = n /\ k.baseMarking = g.baseMarking
  BY DEF StoreType
<1> HIDE DEF k
<1>5. SubSeq(more, n + 1, L + 1) = Append(SubSeq(more, n + 1, L), more[L + 1])
  <2>1. 1 <= n + 1 /\ n + 1 <= L + 1 /\ L + 1 <= Len(more)
    <3> HIDE DEF more, n, L
    <3> QED BY <1>1, <1>2
  <2> HIDE DEF more, n, L
  <2> QED BY <1>1, <1>2, <2>1, SubSeqGrows
<1>6. SubSeq(more, n + 1, L) = SubSeq(l, n + 1, L)
  BY <1>1, SliceAppend
<1>7. Upto(more, n) = Upto(l, n)
  BY <1>1, UptoAppend
<1>8. Represents(k, more)
  <2>1. k.baseCount <= Len(more)
    <3> HIDE DEF more, n, L
    <3> QED BY <1>1, <1>2, <1>4
  <2>2. k.tail = SubSeq(more, n + 1, L + 1)
    BY <1>2, <1>4, <1>5, <1>6 DEF Represents
  <2>3. k.baseMarking = Upto(more, n)
    BY <1>4, <1>7 DEF Represents
  <2> HIDE DEF more, n, L
  <2> QED BY <1>2, <1>4, <2>1, <2>2, <2>3 DEF Represents
<1>9. k \in S /\ Len(k.tail) \in Nat
  <2>1. k.tail \in Seq(PersistedEvent)
    BY <1>3 DEF StoreType
  <2> QED BY <1>3, <1>8, <2>1
<1>10. ASSUME NEW x \in S PROVE EvictIfOver(x) \in S
  <2> HIDE DEF more
  <2> QED BY <1>2, EvictRepresents, EvictOneInvisible DEF EvictIfOver, OverCap
<1>11. EvictToCap(k) \in S
  <2> HIDE DEF S
  <2> QED BY <1>9, <1>10, EvictToCapStays
<1> QED BY <1>3, <1>11

LEMMA SliceOfRest ==
  ASSUME NEW PE, NEW l \in Seq(PE), NEW n \in Nat, NEW i \in Nat, n <= i, i <= Len(l),
         i # Len(l)
  PROVE  SubSeq(SubSeq(l, n + 1, Len(l)), (i - n) + 1, Len(l) - n) = SubSeq(l, i + 1, Len(l))
<1>1. \A x, y \in 1..Len(l) : \A p, q \in 1..((y - x) + 1) :
        SubSeq(SubSeq(l, x, y), p, q) = SubSeq(l, (x + p) - 1, (x + q) - 1)
  BY SubSeqOfSubSeq
<1> DEFINE L == Len(l)
           x == n + 1
           p == (i - n) + 1
           q == L - n
<1>2. L \in Nat /\ i < L
  OBVIOUS
<1>3. L \in 1..L /\ x \in 1..L /\ p \in 1..((L - x) + 1) /\ q \in 1..((L - x) + 1)
  <2> HIDE DEF L
  <2> QED BY <1>2
<1>4. (x + p) - 1 = i + 1 /\ (x + q) - 1 = L
  <2> HIDE DEF L
  <2> QED BY <1>2
<1> HIDE DEF x, p, q
<1>5. SubSeq(SubSeq(l, x, L), p, q) = SubSeq(l, (x + p) - 1, (x + q) - 1)
  BY <1>1, <1>3
<1> QED BY <1>4, <1>5 DEF x, p, q

(***************************************************************************)
(* events_from above the floor is the rest of the log.                     *)
(***************************************************************************)
LEMMA EventsFromRepresents ==
  ASSUME NEW g \in StoreType, NEW l \in Seq(PersistedEvent), Represents(g, l),
         NEW idx \in 0..Len(l), ~(idx < g.baseCount)
  PROVE  EventsFrom(g, idx) = SubSeq(l, idx + 1, Len(l))
<1> DEFINE n == g.baseCount
           L == Len(l)
           k == idx - n
           start == IF idx > n THEN idx - n ELSE 0
           T == SubSeq(l, n + 1, L)
<1>1. n \in Nat /\ L \in Nat /\ n <= L /\ idx \in Nat /\ n <= idx /\ idx <= L
  BY DEF StoreType, Represents
<1>2. start = k /\ k \in Nat /\ k <= L - n
  BY <1>1
<1>3. g.tail = T /\ Len(T) = L - n /\ T \in Seq(PersistedEvent)
  <2>1. g.tail = T
    BY DEF Represents
  <2>2. g.tail \in Seq(PersistedEvent)
    BY DEF StoreType
  <2>3. Len(T) = L - n
    BY <1>1
  <2> QED BY <2>1, <2>2, <2>3
<1>4. EventsFrom(g, idx) = SubSeq(T, k + 1, L - n)
  <2>1. EventsFrom(g, idx) = SubSeq(g.tail, start + 1, Len(g.tail))
    BY DEF EventsFrom
  <2> HIDE DEF start, k, T
  <2> QED BY <1>2, <1>3, <2>1
<1>5. CASE idx = L
  <2>1. k + 1 \in Int /\ L - n \in Int /\ L - n < k + 1 /\ idx + 1 \in Int /\ L < idx + 1
    BY <1>1, <1>5
  <2> HIDE DEF k, T, n, L
  <2>2. SubSeq(T, k + 1, L - n) = << >> /\ SubSeq(l, idx + 1, L) = << >>
    BY <1>1, <2>1, SubSeqEmpty
  <2> QED BY <1>4, <2>2 DEF L
<1>6. CASE idx # L
  BY <1>1, <1>4, <1>6, SliceOfRest
<1> QED BY <1>5, <1>6

-----------------------------------------------------------------------------
(***************************************************************************)
(* The inductive invariant.  An entry is coherent with the log when it is  *)
(* the projection of the prefix its cursor names.  Between its locks a     *)
(* call holds a coherent snapshot and, once it has its slice, exactly the  *)
(* events that follow that snapshot, up to an extent no older than the log *)
(* it saw first: neither appends nor evictions nor other calls' writes can *)
(* take that away from it.                                                 *)
(***************************************************************************)
Coherent(entry, l) ==
    /\ entry \in CacheEntry
    /\ entry.idx <= Len(l)
    /\ entry.marking = Upto(l, entry.idx)

SliceEnd(k) == k.snap.idx + Len(k.events)

SliceSound(k, l) ==
    /\ SliceEnd(k) <= Len(l)
    /\ k.len <= SliceEnd(k)
    /\ k.events = SubSeq(l, k.snap.idx + 1, SliceEnd(k))

CallSound(k, l) ==
    /\ k.len <= Len(l)
    /\ k.pc \in {"slice", "fold", "install", "done"} => Coherent(k.snap, l)
    /\ k.pc = "fold" => SliceSound(k, l)
    /\ k.pc \in {"install", "done"} => k.len <= k.snap.idx

CIInv ==
    /\ CTypeOK
    /\ resetting = "no"
    /\ Represents(store, log)
    /\ cache # None => Coherent(cache, log)
    /\ \A c \in Caller : CallSound(call[c], log)

LEMMA CoherentAppend ==
  ASSUME NEW l \in Seq(PersistedEvent), NEW pe \in PersistedEvent, NEW entry,
         Coherent(entry, l)
  PROVE  Coherent(entry, Append(l, pe))
<1>1. entry.idx \in Nat /\ Len(l) \in Nat /\ Len(Append(l, pe)) = Len(l) + 1
  BY DEF Coherent, CacheEntry
<1>2. entry.idx \in 0..Len(l)
  BY <1>1 DEF Coherent
<1>3. Upto(Append(l, pe), entry.idx) = Upto(l, entry.idx)
  BY <1>2, UptoAppend
<1>4. entry.idx <= Len(Append(l, pe))
  BY <1>1, <1>2
<1> QED BY <1>3, <1>4 DEF Coherent

LEMMA CallAppend ==
  ASSUME NEW l \in Seq(PersistedEvent), NEW pe \in PersistedEvent, NEW k \in CallState,
         CallSound(k, l)
  PROVE  CallSound(k, Append(l, pe))
<1> DEFINE more == Append(l, pe)
<1>1. Len(l) \in Nat /\ Len(more) = Len(l) + 1 /\ k.len \in Nat
  BY DEF CallState
<1>2. k.len <= Len(more)
  <2> HIDE DEF more
  <2> QED BY <1>1 DEF CallSound
<1>3. ASSUME k.pc \in {"slice", "fold", "install", "done"} PROVE Coherent(k.snap, more)
  BY <1>3, CoherentAppend DEF CallSound
<1>4. ASSUME k.pc = "fold" PROVE SliceSound(k, more)
  <2> DEFINE j == SliceEnd(k)
             i == k.snap.idx
  <2>1. SliceSound(k, l) /\ Coherent(k.snap, l)
    BY <1>4 DEF CallSound
  <2>2. i \in Nat /\ Len(k.events) \in Nat
    BY <2>1 DEF Coherent, CacheEntry, CallState
  <2>3. j \in 0..Len(l) /\ i + 1 \in Nat \ {0}
    BY SMTT(30), <1>1, <2>1, <2>2 DEF SliceSound, SliceEnd
  <2> HIDE DEF i, j
  <2>4. SubSeq(more, i + 1, j) = SubSeq(l, i + 1, j)
    BY <2>3, SliceAppend
  <2> HIDE DEF more
  <2>5. j <= Len(more)
    BY <1>1, <2>3
  <2> QED BY <2>1, <2>4, <2>5 DEF SliceSound, i, j
<1> HIDE DEF more
<1>5. CallSound(k, more)
  BY <1>2, <1>3, <1>4 DEF CallSound
<1> QED BY <1>5 DEF more

(***************************************************************************)
(* A step that moves one call to a sound state, and leaves the cache       *)
(* empty or coherent, preserves the invariant.                             *)
(***************************************************************************)
LEMMA OneCallStep ==
  ASSUME CIInv, NEW c \in Caller, NEW r \in CallState, CallSound(r, log),
         call' = [call EXCEPT ![c] = r], UNCHANGED <<store, log, resetting>>,
         UNCHANGED cache \/ Coherent(cache', log)
  PROVE  CIInv'
<1>1. CTypeOK'
  BY DEF CIInv, CTypeOK, Coherent
<1>2. \A d \in Caller : CallSound(call'[d], log')
  BY DEF CIInv, CTypeOK
<1>3. cache' # None => Coherent(cache', log')
  BY DEF CIInv
<1>4. Represents(store', log') /\ resetting' = "no"
  BY DEF CIInv
<1> QED BY <1>1, <1>2, <1>3, <1>4 DEF CIInv

LEMMA AppendStores ==
  ASSUME CTypeOK, Represents(store, log), NEW e \in DomainEvent, NEW bytes \in ByteSizes,
         AppendEvent(e, bytes)
  PROVE  /\ store' \in StoreType /\ Represents(store', log') /\ log' \in Seq(PersistedEvent)
         /\ UNCHANGED <<cache, call, resetting>>
         /\ \E pe \in PersistedEvent : pe.event = e /\ log' = Append(log, pe)
<1> DEFINE pe == [sequence |-> store.nextSequence, event |-> e, bytes |-> bytes,
                  hash |-> Len(log) + 1, previousHash |-> ChainTip(store)]
           g == [store EXCEPT !.nextSequence = store.nextSequence + 1]
<1>1. /\ store' = AppendTo(store, pe)
      /\ log' = Append(log, pe)
      /\ UNCHANGED <<cache, call, resetting>>
  BY DEF AppendEvent
<1>2. store \in StoreType /\ log \in Seq(PersistedEvent) /\ Represents(store, log)
  BY DEF CTypeOK
<1>3. pe \in PersistedEvent
  <2>1. ChainTip(store) \in Hash
    BY <1>2, FullTypes DEF SnapshotOf, SnapshotType
  <2>2. store.nextSequence \in Nat /\ Len(log) + 1 \in Nat
    BY <1>2 DEF StoreType
  <2> QED BY <2>1, <2>2 DEF PersistedEvent
<1>3a. pe.event = e
  OBVIOUS
<1> HIDE DEF pe
<1>4. g \in StoreType /\ Represents(g, log) /\ AppendTo(store, pe) = PushTail(g, pe)
  <2>0. store.nextSequence + 1 \in Nat
    BY <1>2 DEF StoreType
  <2>1. g \in StoreType /\ g.baseCount = store.baseCount /\ g.tail = store.tail
        /\ g.baseMarking = store.baseMarking
    BY <1>2, <2>0 DEF StoreType
  <2>2. AppendTo(store, pe) = PushTail(g, pe)
    BY DEF AppendTo
  <2> HIDE DEF g
  <2> QED BY <1>2, <2>1, <2>2 DEF Represents
<1> HIDE DEF g
<1>5. store' \in StoreType /\ Represents(store', log') /\ log' \in Seq(PersistedEvent)
  <2>1. PushTail(g, pe) \in StoreType
    BY <1>3, <1>4, PushTailExtends
  <2>2. Represents(PushTail(g, pe), Append(log, pe))
    BY <1>2, <1>3, <1>4, PushRepresents
  <2> QED BY <1>1, <1>2, <1>3, <1>4, <2>1, <2>2
<1> QED BY <1>1, <1>3, <1>3a, <1>5

LEMMA AppendKeeps ==
  ASSUME CIInv, NEW e \in DomainEvent, NEW bytes \in ByteSizes, AppendEvent(e, bytes)
  PROVE  CIInv'
<1>1. /\ store' \in StoreType /\ Represents(store', log') /\ log' \in Seq(PersistedEvent)
      /\ UNCHANGED <<cache, call, resetting>> /\ log \in Seq(PersistedEvent)
      /\ \E pe \in PersistedEvent : log' = Append(log, pe)
  BY AppendStores DEF CIInv, CTypeOK
<1>2. PICK pe \in PersistedEvent : log' = Append(log, pe)
  BY <1>1
<1>3. cache' # None => Coherent(cache', log')
  BY <1>1, <1>2, CoherentAppend DEF CIInv
<1>4. \A d \in Caller : CallSound(call'[d], log')
  BY <1>1, <1>2, CallAppend DEF CIInv, CTypeOK
<1> QED BY <1>1, <1>3, <1>4 DEF CIInv, CTypeOK

LEMMA NoCallSound == ASSUME NEW l \in Seq(PersistedEvent)
                     PROVE  NoCall \in CallState /\ CallSound(NoCall, l)
BY DEF NoCall, CallState, CallSound

LEMMA BeginKeeps ==
  ASSUME CIInv, NEW c \in Caller, Begin(c)
  PROVE  CIInv'
<1> DEFINE r == [NoCall EXCEPT !.pc = "lookup", !.len = StoreLen(store)]
<1>1. StoreLen(store) = Len(log) /\ Len(log) \in Nat
  BY StoreExtent DEF CIInv, CTypeOK
<1>2. r \in CallState /\ CallSound(r, log)
  <2>1. NoCall \in CallState
    BY NoCallSound DEF CIInv, CTypeOK
  <2>2. r \in CallState /\ r.pc = "lookup" /\ r.len = Len(log)
    BY <1>1, <2>1 DEF CallState
  <2> HIDE DEF r
  <2> QED BY <1>1, <2>2 DEF CallSound
<1>3. call' = [call EXCEPT ![c] = r] /\ UNCHANGED <<store, cache, log, resetting>>
  BY DEF Begin
<1> HIDE DEF r
<1> QED BY <1>2, <1>3, OneCallStep

LEMMA LookUpKeeps ==
  ASSUME CIInv, NEW c \in Caller, LookUp(c)
  PROVE  CIInv'
<1> DEFINE k == call[c]
           r == IF cache = None THEN [k EXCEPT !.pc = "rebuild"]
                ELSE IF cache.idx = k.len THEN [k EXCEPT !.pc = "done", !.snap = cache]
                ELSE [k EXCEPT !.pc = "slice", !.snap = cache]
<1>1. k \in CallState /\ CallSound(k, log) /\ k.len \in Nat
  BY DEF CIInv, CTypeOK, CallState
<1>2. call' = [call EXCEPT ![c] = r] /\ UNCHANGED <<store, cache, log, resetting>>
  BY DEF LookUp, CIInv, CTypeOK
<1> HIDE DEF k
<1>3. r \in CallState /\ CallSound(r, log)
  <2>1. CASE cache = None
    BY <1>1, <2>1 DEF CallState, CallSound
  <2>2. CASE cache # None
    <3>1. Coherent(cache, log) /\ cache \in CacheEntry
      BY <2>2 DEF CIInv, Coherent
    <3>2. CASE cache.idx = k.len
      <4>1. r = [k EXCEPT !.pc = "done", !.snap = cache]
        BY <2>2, <3>2
      <4> HIDE DEF r
      <4>2. r \in CallState /\ r.pc = "done" /\ r.snap = cache /\ r.len = k.len
        BY <1>1, <3>1, <4>1 DEF CallState
      <4> QED BY <1>1, <3>1, <3>2, <4>2 DEF CallSound
    <3>3. CASE cache.idx # k.len
      <4>1. r = [k EXCEPT !.pc = "slice", !.snap = cache]
        BY <2>2, <3>3
      <4> HIDE DEF r
      <4>2. r \in CallState /\ r.pc = "slice" /\ r.snap = cache /\ r.len = k.len
        BY <1>1, <3>1, <4>1 DEF CallState
      <4> QED BY <1>1, <3>1, <4>2 DEF CallSound
    <3> QED BY <3>2, <3>3
  <2> QED BY <2>1, <2>2
<1> HIDE DEF r
<1> QED BY <1>2, <1>3, OneCallStep

LEMMA SliceKeeps ==
  ASSUME CIInv, NEW c \in Caller, Slice(c)
  PROVE  CIInv'
<1> DEFINE k == call[c]
           new == EventsFromChecked(store, k.snap.idx)
           r == IF new = None THEN [k EXCEPT !.pc = "rebuild", !.snap = None]
                ELSE [k EXCEPT !.pc = "fold", !.events = new]
           i == k.snap.idx
           L == Len(log)
<1>1. k \in CallState /\ CallSound(k, log) /\ k.len \in Nat /\ Coherent(k.snap, log)
      /\ i \in Nat /\ L \in Nat /\ i <= L /\ k.len <= L /\ log \in Seq(PersistedEvent)
  BY DEF CIInv, CTypeOK, CallState, CallSound, Slice, Coherent, CacheEntry
<1>2. call' = [call EXCEPT ![c] = r] /\ UNCHANGED <<store, cache, log, resetting>>
  BY DEF Slice, CIInv, CTypeOK
<1>3. r \in CallState /\ CallSound(r, log)
  <2>1. CASE new = None
    BY <1>1, <2>1 DEF CallState, CallSound
  <2>2. CASE new # None
    <3>1. new = EventsFrom(store, i) /\ ~(i < store.baseCount)
      BY <2>2 DEF EventsFromChecked
    <3>2. i \in 0..L
      BY <1>1
    <3>3. new = SubSeq(log, i + 1, L)
      BY <1>1, <3>1, <3>2, EventsFromRepresents DEF CIInv, CTypeOK
    <3>4. new \in Seq(PersistedEvent) /\ Len(new) = L - i
      BY <1>1, <3>3
    <3>5. r = [k EXCEPT !.pc = "fold", !.events = new]
      BY <2>2
    <3> HIDE DEF new, k, r
    <3>6. r \in CallState /\ r.pc = "fold" /\ r.snap = k.snap /\ r.len = k.len /\ r.events = new
      BY <1>1, <3>4, <3>5 DEF CallState
    <3>7. SliceEnd(r) = L
      <4>1. SliceEnd(r) = i + (L - i)
        BY <3>4, <3>6 DEF SliceEnd
      <4> HIDE DEF i, L
      <4> QED BY <1>1, <4>1
    <3>8. SliceSound(r, log)
      BY <1>1, <3>3, <3>6, <3>7 DEF SliceSound
    <3> QED BY <1>1, <3>6, <3>8 DEF CallSound
  <2> QED BY <2>1, <2>2
<1> HIDE DEF r
<1> QED BY <1>2, <1>3, OneCallStep

LEMMA RebuildKeeps ==
  ASSUME CIInv, NEW c \in Caller, Rebuild(c)
  PROVE  CIInv'
<1> DEFINE k == call[c]
           entry == [idx |-> StoreLen(store), marking |-> FullMarking(store)]
           r == [k EXCEPT !.pc = "install", !.snap = entry]
<1>1. k \in CallState /\ CallSound(k, log) /\ Len(log) \in Nat /\ log \in Seq(PersistedEvent)
  BY DEF CIInv, CTypeOK
<1>2. call' = [call EXCEPT ![c] = r] /\ UNCHANGED <<store, cache, log, resetting>>
  BY DEF Rebuild, CIInv, CTypeOK
<1>3. StoreLen(store) = Len(log) /\ FullMarking(store) = Upto(log, Len(log))
  BY StoreExtent DEF CIInv, CTypeOK
<1>4. Upto(log, Len(log)) \in Marking
  BY <1>1, UptoType
<1>5. Coherent(entry, log) /\ entry \in CacheEntry /\ entry.idx = Len(log)
  BY <1>1, <1>3, <1>4 DEF Coherent, CacheEntry
<1> HIDE DEF entry, k
<1>6. r \in CallState /\ r.pc = "install" /\ r.snap = entry /\ r.len = k.len
  BY <1>1, <1>5 DEF CallState
<1> HIDE DEF r
<1>7. CallSound(r, log)
  BY <1>1, <1>5, <1>6 DEF CallSound
<1> QED BY <1>2, <1>6, <1>7, OneCallStep

LEMMA InstallKeeps ==
  ASSUME CIInv, NEW c \in Caller, Install(c)
  PROVE  CIInv'
<1> DEFINE k == call[c]
           r == [k EXCEPT !.pc = "done", !.delta = "Rebuilt"]
<1>1. k \in CallState /\ CallSound(k, log) /\ Coherent(k.snap, log) /\ k.pc = "install"
  BY DEF CIInv, CTypeOK, CallSound, Install
<1>2. call' = [call EXCEPT ![c] = r] /\ cache' = k.snap /\ UNCHANGED <<store, log, resetting>>
  BY DEF Install, CIInv, CTypeOK
<1> HIDE DEF k
<1>3. r \in CallState /\ r.pc = "done" /\ r.snap = k.snap /\ r.len = k.len
  BY <1>1 DEF CallState
<1> HIDE DEF r
<1>4. CallSound(r, log)
  BY <1>1, <1>3 DEF CallSound
<1> QED BY <1>1, <1>2, <1>3, <1>4, OneCallStep

(***************************************************************************)
(* Whichever entry the write lock finds, folding the slice into it gives   *)
(* the marking at the end of the slice.                                    *)
(***************************************************************************)
LEMMA FoldedCoherent ==
  ASSUME NEW l \in Seq(PersistedEvent), NEW k \in CallState, Coherent(k.snap, l),
         SliceSound(k, l), NEW entry, Coherent(entry, l), entry.idx = k.snap.idx
  PROVE  Coherent(Folded(entry, k.events), l) /\ Folded(entry, k.events).idx = SliceEnd(k)
<1> DEFINE i == k.snap.idx
           j == SliceEnd(k)
<1>1. i \in Nat /\ Len(k.events) \in Nat /\ Len(l) \in Nat
  BY DEF Coherent, CacheEntry, CallState
<1>2. j \in Nat /\ i <= j /\ j <= Len(l) /\ j \in 0..Len(l)
  BY <1>1 DEF SliceSound, SliceEnd
<1>3. k.events = SubSeq(l, i + 1, j) /\ entry.marking = Upto(l, i)
  BY DEF SliceSound, Coherent
<1>4. Folded(entry, k.events).idx = j
  BY DEF Folded, SliceEnd
<1> HIDE DEF i, j
<1>5. ProjectOnto(entry.marking, k.events) = Upto(l, j)
  BY <1>1, <1>2, <1>3, FoldSlice
<1>6. Upto(l, j) \in Marking
  BY <1>2, UptoType
<1>7. Folded(entry, k.events) = [idx |-> j, marking |-> Upto(l, j)]
  BY <1>4, <1>5 DEF Folded
<1>8. Coherent(Folded(entry, k.events), l)
  BY <1>2, <1>6, <1>7 DEF Coherent, CacheEntry
<1> QED BY <1>4, <1>8 DEF j

LEMMA FoldKeeps ==
  ASSUME CIInv, NEW c \in Caller, Fold(c)
  PROVE  CIInv'
<1> DEFINE k == call[c]
           from == IF InPlace(c) THEN cache ELSE k.snap
           entry == Folded(from, k.events)
           r == [k EXCEPT !.pc = "done", !.snap = entry, !.delta = "Applied"]
<1>1. k \in CallState /\ CallSound(k, log) /\ k.pc = "fold" /\ log \in Seq(PersistedEvent)
  BY DEF CIInv, CTypeOK, Fold
<1>2. call' = [call EXCEPT ![c] = r] /\ cache' = entry /\ UNCHANGED <<store, log, resetting>>
  BY DEF Fold, CIInv, CTypeOK
<1>3. Coherent(k.snap, log) /\ SliceSound(k, log)
  BY <1>1 DEF CallSound
<1>4. Coherent(from, log) /\ from.idx = k.snap.idx
  BY <1>3 DEF InPlace, CIInv
<1> HIDE DEF k, from
<1>5. Coherent(entry, log) /\ entry.idx = SliceEnd(k)
  BY <1>1, <1>3, <1>4, FoldedCoherent
<1> HIDE DEF entry
<1>6. r \in CallState /\ r.pc = "done" /\ r.snap = entry /\ r.len = k.len
  BY <1>1, <1>5 DEF CallState, Coherent
<1> HIDE DEF r
<1>7. CallSound(r, log)
  BY <1>1, <1>3, <1>5, <1>6 DEF CallSound, SliceSound
<1> QED BY <1>2, <1>5, <1>6, <1>7, OneCallStep

LEMMA ReturnKeeps ==
  ASSUME CIInv, NEW c \in Caller, Return(c)
  PROVE  CIInv'
<1>1. call' = [call EXCEPT ![c] = NoCall] /\ UNCHANGED <<store, cache, log, resetting>>
  BY DEF Return
<1>2. NoCall \in CallState /\ CallSound(NoCall, log)
  BY NoCallSound DEF CIInv, CTypeOK
<1> QED BY <1>1, <1>2, OneCallStep

LEMMA CInitInv == CInit => CIInv
<1> SUFFICES ASSUME CInit PROVE CIInv
  OBVIOUS
<1>1. << >> \in Seq(PersistedEvent)
  OBVIOUS
<1>2. CTypeOK /\ resetting = "no" /\ cache = None
  BY <1>1, EmptyStoreType, NoCallSound DEF CInit, CTypeOK
<1>3. Represents(store, log)
  BY RepresentsEmpty DEF CInit
<1>4. \A c \in Caller : CallSound(call[c], log)
  BY <1>1, NoCallSound DEF CInit
<1> QED BY <1>2, <1>3, <1>4 DEF CIInv

LEMMA CNextInv == CIInv /\ [CNext]_cvars => CIInv'
<1> SUFFICES ASSUME CIInv, [CNext]_cvars PROVE CIInv'
  OBVIOUS
<1>1. CASE UNCHANGED cvars
  BY <1>1 DEF cvars, CIInv, CTypeOK
<1>2. CASE \E e \in Inputs, bytes \in ByteSizes : AppendEvent(e, bytes)
  BY <1>2, AppendKeeps, InputAssumption
<1>3. ASSUME NEW c \in Caller, Begin(c) \/ Advance(c) \/ Return(c) PROVE CIInv'
  BY <1>3, BeginKeeps, LookUpKeeps, SliceKeeps, RebuildKeeps, InstallKeeps, FoldKeeps,
     ReturnKeeps DEF Advance
<1> QED BY <1>1, <1>2, <1>3 DEF CNext

(***************************************************************************)
(* The cache, the store under it and every call of advance_marking stay    *)
(* well typed.                                                             *)
(***************************************************************************)
THEOREM CacheTypeCorrect == CSpec => []CTypeOK
<1>1. CIInv => CTypeOK
  BY DEF CIInv
<1> QED BY <1>1, CInitInv, CNextInv, PTL DEF CSpec

(***************************************************************************)
(* However many calls of advance_marking race on the cache, and however    *)
(* far eviction has overtaken its cursor, the cached marking is the        *)
(* projection of exactly the prefix the cursor names.                      *)
(***************************************************************************)
THEOREM CacheAlwaysCoherent == CSpec => []CacheCoherent
<1>1. CIInv => CacheCoherent
  BY DEF CIInv, CacheCoherent, Coherent, MarkingAt, Upto
<1> QED BY <1>1, CInitInv, CNextInv, PTL DEF CSpec

(***************************************************************************)
(* Every call of advance_marking returns a true marking, at least as new   *)
(* as the log was when the call began.                                     *)
(***************************************************************************)
THEOREM ReadsAlwaysFresh == CSpec => []ReadsFresh
<1>1. CIInv => ReadsFresh
  BY DEF CIInv, ReadsFresh, CallSound, Coherent, MarkingAt, Upto
<1> QED BY <1>1, CInitInv, CNextInv, PTL DEF CSpec

-----------------------------------------------------------------------------
(***************************************************************************)
(* Clears and the broadcast cursor.  A clear empties the store under the   *)
(* calls, so between it and the invalidation, and after one that overtook  *)
(* a call, only the types and the store itself are known to be sound.  An  *)
(* invalidation that finds no call brings the whole invariant back.        *)
(***************************************************************************)
Holds(k) == k.pc \in {"slice", "fold", "install", "done"} => k.snap \in CacheEntry

GInv ==
    /\ CTypeOK
    /\ Represents(store, log)
    /\ \A c \in Caller : Holds(call[c])
    /\ resetting = "no" => CIInv

\* The clients have had the events up to the cursor, unless some were skipped.
CursorSound == cursor \in Nat /\ (skipped \/ (cursor <= Len(log) /\ sent = cursor))

BIInv == GInv /\ CursorSound

LEMMA Recovered == CIInv => GInv
BY DEF CIInv, GInv, Holds, CallSound, Coherent

LEMMA EventsFromType ==
  ASSUME NEW g \in StoreType, NEW idx \in Nat
  PROVE  EventsFrom(g, idx) \in Seq(PersistedEvent)
<1>1. g.tail \in Seq(PersistedEvent) /\ g.baseCount \in Nat
  BY DEF StoreType
<1>2. (IF idx > g.baseCount THEN idx - g.baseCount ELSE 0) \in Nat
  BY <1>1
<1> DEFINE a == (IF idx > g.baseCount THEN idx - g.baseCount ELSE 0)
<1> HIDE DEF a
<1>3. SubSeq(g.tail, a + 1, Len(g.tail)) \in Seq(PersistedEvent)
  BY <1>1, <1>2 DEF a
<1> QED BY <1>3 DEF EventsFrom, a

\* A call between its locks while the net is being cleared.
LEMMA OneCallTyped ==
  ASSUME GInv, resetting # "no", NEW c \in Caller, NEW r \in CallState, Holds(r),
         call' = [call EXCEPT ![c] = r], UNCHANGED <<store, log, resetting>>,
         UNCHANGED cache \/ cache' \in CacheEntry
  PROVE  GInv'
<1>1. CTypeOK'
  BY DEF GInv, CTypeOK
<1>2. \A d \in Caller : Holds(call'[d])
  BY DEF GInv, CTypeOK
<1> QED BY <1>1, <1>2 DEF GInv

LEMMA AdvanceTyped ==
  ASSUME GInv, resetting # "no", NEW c \in Caller, Begin(c) \/ Advance(c) \/ Return(c)
  PROVE  GInv'
<1> DEFINE k == call[c]
<1>1. k \in CallState /\ Holds(k) /\ store \in StoreType /\ call \in [Caller -> CallState]
      /\ cache \in CacheEntry \cup {None}
  BY DEF GInv, CTypeOK
<1>2. StoreLen(store) \in Nat /\ FullMarking(store) \in Marking
  <2>1. log \in Seq(PersistedEvent) /\ Represents(store, log)
    BY DEF GInv, CTypeOK
  <2>2. StoreLen(store) = Len(log) /\ FullMarking(store) = Upto(log, Len(log)) /\ Len(log) \in Nat
    BY <1>1, <2>1, StoreExtent
  <2>3. Upto(log, Len(log)) \in Marking
    BY <2>1, <2>2, UptoType
  <2> QED BY <2>2, <2>3
<1>3. NoCall \in CallState /\ NoCall.pc = "idle"
  BY DEF NoCall, CallState
<1>4. CASE Begin(c)
  <2> DEFINE r == [NoCall EXCEPT !.pc = "lookup", !.len = StoreLen(store)]
  <2>1. r \in CallState /\ r.pc = "lookup"
    BY <1>2, <1>3 DEF CallState
  <2>2. call' = [call EXCEPT ![c] = r] /\ UNCHANGED <<store, cache, log, resetting>>
    BY <1>4 DEF Begin
  <2> HIDE DEF r
  <2>3. Holds(r)
    BY <2>1 DEF Holds
  <2> QED BY <2>1, <2>2, <2>3, OneCallTyped
<1>5. CASE LookUp(c)
  <2> DEFINE r == IF cache = None THEN [k EXCEPT !.pc = "rebuild"]
                  ELSE IF cache.idx = k.len THEN [k EXCEPT !.pc = "done", !.snap = cache]
                  ELSE [k EXCEPT !.pc = "slice", !.snap = cache]
  <2>1. call' = [call EXCEPT ![c] = r] /\ UNCHANGED <<store, cache, log, resetting>>
    BY <1>1, <1>5 DEF LookUp
  <2> HIDE DEF k
  <2>2. r \in CallState /\ (r.pc = "rebuild" \/ r.snap \in CacheEntry)
    BY <1>1 DEF CallState
  <2> HIDE DEF r
  <2>3. Holds(r)
    BY <2>2 DEF Holds
  <2> QED BY <2>1, <2>2, <2>3, OneCallTyped
<1>6. CASE Slice(c)
  <2> DEFINE new == EventsFromChecked(store, k.snap.idx)
             r == IF new = None THEN [k EXCEPT !.pc = "rebuild", !.snap = None]
                  ELSE [k EXCEPT !.pc = "fold", !.events = new]
  <2>1. call' = [call EXCEPT ![c] = r] /\ UNCHANGED <<store, cache, log, resetting>>
    BY <1>1, <1>6 DEF Slice
  <2>2. k.snap \in CacheEntry /\ k.snap.idx \in Nat
    BY <1>1, <1>6 DEF Slice, Holds, CacheEntry
  <2>3. new # None => new \in Seq(PersistedEvent)
    BY <1>1, <2>2, EventsFromType DEF EventsFromChecked
  <2> HIDE DEF k, new
  <2>4. r \in CallState /\ (r.pc = "rebuild" \/ r.snap \in CacheEntry)
    BY <1>1, <2>2, <2>3 DEF CallState
  <2> HIDE DEF r
  <2>5. Holds(r)
    BY <2>4 DEF Holds
  <2> QED BY <2>1, <2>4, <2>5, OneCallTyped
<1>7. CASE Rebuild(c)
  <2> DEFINE entry == [idx |-> StoreLen(store), marking |-> FullMarking(store)]
             r == [k EXCEPT !.pc = "install", !.snap = entry]
  <2>1. call' = [call EXCEPT ![c] = r] /\ UNCHANGED <<store, cache, log, resetting>>
    BY <1>1, <1>7 DEF Rebuild
  <2>2. entry \in CacheEntry
    BY <1>2 DEF CacheEntry
  <2> HIDE DEF k, entry
  <2>3. r \in CallState /\ r.snap \in CacheEntry
    BY <1>1, <2>2 DEF CallState
  <2> HIDE DEF r
  <2>4. Holds(r)
    BY <2>3 DEF Holds
  <2> QED BY <2>1, <2>3, <2>4, OneCallTyped
<1>8. CASE Install(c)
  <2> DEFINE r == [k EXCEPT !.pc = "done", !.delta = "Rebuilt"]
  <2>1. call' = [call EXCEPT ![c] = r] /\ cache' = k.snap /\ UNCHANGED <<store, log, resetting>>
    BY <1>1, <1>8 DEF Install
  <2>2. k.snap \in CacheEntry
    BY <1>1, <1>8 DEF Install, Holds
  <2> HIDE DEF k
  <2>3. r \in CallState /\ r.snap \in CacheEntry
    BY <1>1, <2>2 DEF CallState
  <2> HIDE DEF r
  <2>4. Holds(r)
    BY <2>3 DEF Holds
  <2> QED BY <2>1, <2>2, <2>3, <2>4, OneCallTyped
<1>9. CASE Fold(c)
  <2> DEFINE from == IF InPlace(c) THEN cache ELSE k.snap
             entry == Folded(from, k.events)
             r == [k EXCEPT !.pc = "done", !.snap = entry, !.delta = "Applied"]
  <2>1. call' = [call EXCEPT ![c] = r] /\ cache' = entry /\ UNCHANGED <<store, log, resetting>>
    BY <1>1, <1>9 DEF Fold
  <2>2. k.snap \in CacheEntry /\ k.events \in Seq(PersistedEvent)
    BY <1>1, <1>9 DEF Fold, Holds, CallState
  <2>3. from \in CacheEntry
    BY <1>1, <2>2 DEF InPlace
  <2> HIDE DEF from, k
  <2>4. from.idx \in Nat /\ from.marking \in Marking /\ Len(k.events) \in Nat
    BY <2>2, <2>3 DEF CacheEntry
  <2>5. ProjectOnto(from.marking, k.events) \in Marking
    BY <2>2, <2>4, PersistedEvents, ProjectOntoType
  <2>6. entry \in CacheEntry
    BY <2>4, <2>5 DEF Folded, CacheEntry
  <2> HIDE DEF entry
  <2>7. r \in CallState /\ r.snap \in CacheEntry
    BY <1>1, <2>6 DEF CallState
  <2> HIDE DEF r
  <2>8. Holds(r)
    BY <2>7 DEF Holds
  <2> QED BY <2>1, <2>6, <2>7, <2>8, OneCallTyped
<1>10. CASE Return(c)
  <2>1. Holds(NoCall)
    BY <1>3 DEF Holds
  <2> QED BY <1>3, <1>10, <2>1, OneCallTyped DEF Return
<1> QED BY <1>4, <1>5, <1>6, <1>7, <1>8, <1>9, <1>10 DEF Advance

LEMMA CNextSound == GInv /\ [CNext]_cvars => GInv'
<1> SUFFICES ASSUME GInv, [CNext]_cvars PROVE GInv'
  OBVIOUS
<1>1. CASE resetting = "no"
  <2>1. CIInv'
    BY <1>1, CNextInv DEF GInv
  <2> QED BY <2>1 DEF CIInv, GInv, Holds, CallSound, Coherent
<1>2. CASE resetting # "no"
  <2>1. CASE UNCHANGED cvars
    BY <1>2, <2>1 DEF cvars, GInv, CTypeOK, Holds
  <2>2. ASSUME NEW e \in Inputs, NEW bytes \in ByteSizes, AppendEvent(e, bytes) PROVE GInv'
    <3>1. /\ store' \in StoreType /\ Represents(store', log') /\ log' \in Seq(PersistedEvent)
          /\ UNCHANGED <<cache, call, resetting>>
      BY <2>2, AppendStores, InputAssumption DEF GInv
    <3>2. CTypeOK'
      BY <3>1 DEF GInv, CTypeOK
    <3> QED BY <1>2, <3>1, <3>2 DEF GInv, Holds
  <2>3. ASSUME NEW c \in Caller, Begin(c) \/ Advance(c) \/ Return(c) PROVE GInv'
    BY <1>2, <2>3, AdvanceTyped
  <2> QED BY <2>1, <2>2, <2>3 DEF CNext
<1> QED BY <1>1, <1>2

LEMMA ResetStoreSound == GInv /\ ResetStore => GInv'
<1> SUFFICES ASSUME GInv, ResetStore PROVE GInv'
  OBVIOUS
<1>1. << >> \in Seq(PersistedEvent)
  OBVIOUS
<1>2. CTypeOK'
  BY <1>1, EmptyStoreType DEF GInv, CTypeOK, ResetStore
<1>3. Represents(store', log')
  BY RepresentsEmpty DEF ResetStore
<1>4. resetting' # "no" /\ call' = call
  BY DEF ResetStore
<1> QED BY <1>2, <1>3, <1>4 DEF GInv, Holds

LEMMA InvalidateSound == GInv /\ InvalidateCache => GInv'
<1> SUFFICES ASSUME GInv, InvalidateCache PROVE GInv'
  OBVIOUS
<1>1. CTypeOK' /\ Represents(store', log')
  BY DEF GInv, CTypeOK, InvalidateCache
<1>2. \A c \in Caller : Holds(call'[c])
  BY DEF GInv, InvalidateCache, Holds
<1>3. ASSUME resetting' = "no" PROVE CIInv'
  <2>1. \A c \in Caller : call'[c] = NoCall
    BY <1>3 DEF InvalidateCache
  <2>2. \A c \in Caller : CallSound(call'[c], log')
    BY <1>1, <2>1, NoCallSound DEF CTypeOK
  <2>3. cache' = None
    BY DEF InvalidateCache
  <2> QED BY <1>1, <1>3, <2>2, <2>3 DEF CIInv
<1> QED BY <1>1, <1>2, <1>3 DEF GInv

LEMMA BroadcastSound == BIInv /\ Broadcast => BIInv'
<1> SUFFICES ASSUME BIInv, Broadcast PROVE BIInv'
  OBVIOUS
<1> DEFINE new == EventsFrom(store, cursor)
           L == Len(log)
<1>1. /\ cursor' = cursor + Len(new) /\ sent' = Len(log)
      /\ skipped' = (skipped \/ cursor < store.baseCount)
      /\ UNCHANGED cvars
  BY DEF Broadcast
<1>2. store \in StoreType /\ log \in Seq(PersistedEvent) /\ Represents(store, log)
      /\ cursor \in Nat /\ L \in Nat
  BY DEF BIInv, GInv, CTypeOK, CursorSound
<1>3. new \in Seq(PersistedEvent) /\ Len(new) \in Nat
  BY <1>2, EventsFromType
<1>4. ASSUME ~skipped' PROVE cursor' = L
  <2>1. ~skipped /\ ~(cursor < store.baseCount)
    BY <1>1, <1>4
  <2>2. cursor \in 0..L
    BY <1>2, <2>1 DEF BIInv, CursorSound
  <2>3. new = SubSeq(log, cursor + 1, L)
    BY <1>2, <2>1, <2>2, EventsFromRepresents
  <2>4. Len(new) = L - cursor
    BY <1>2, <2>2, <2>3
  <2> HIDE DEF new, L
  <2> QED BY <1>1, <1>2, <2>2, <2>4
<1> HIDE DEF new
<1>5. CursorSound'
  BY <1>1, <1>2, <1>3, <1>4 DEF CursorSound, cvars
<1>6. GInv'
  BY <1>1 DEF BIInv, GInv, CIInv, CTypeOK, Holds, cvars
<1> QED BY <1>5, <1>6 DEF BIInv

LEMMA BNextInv == BIInv /\ [BNext]_bvars => BIInv'
<1> SUFFICES ASSUME BIInv, [BNext]_bvars PROVE BIInv'
  OBVIOUS
<1>1. CASE UNCHANGED bvars
  BY <1>1, CNextSound DEF bvars, sse, cvars, BIInv, CursorSound
<1>2. CASE CNext /\ UNCHANGED sse
  <2>1. GInv'
    BY <1>2, CNextSound DEF BIInv
  <2>2. Len(log) \in Nat /\ Len(log') \in Nat /\ Len(log) <= Len(log')
    <3>1. log \in Seq(PersistedEvent) /\ CTypeOK /\ Represents(store, log)
      BY DEF BIInv, GInv, CTypeOK
    <3>2. log' = log \/ \E pe \in PersistedEvent : log' = Append(log, pe)
      BY <1>2, <3>1, AppendStores, InputAssumption DEF CNext, Begin, Advance, LookUp, Slice, Rebuild, Install,
                                      Fold, Return
    <3> QED BY <3>1, <3>2
  <2>3. CursorSound'
    BY <1>2, <2>2 DEF BIInv, CursorSound, sse
  <2> QED BY <2>1, <2>3 DEF BIInv
<1>3. CASE Broadcast
  BY <1>3, BroadcastSound
<1>4. CASE InvalidateCache /\ UNCHANGED sse
  <2>1. CursorSound'
    BY <1>4 DEF BIInv, CursorSound, sse, InvalidateCache
  <2> QED BY <1>4, <2>1, InvalidateSound DEF BIInv
<1>5. CASE /\ ResetStore /\ sent' = 0 /\ skipped' = (skipped \/ cursor > 0) /\ cursor' = cursor
  <2>1. log' = << >> /\ Len(<< >>) = 0
    BY <1>5 DEF ResetStore
  <2>2. CursorSound'
    <3>1. ~skipped' => ~(cursor > 0)
      BY <1>5
    <3>2. cursor \in Nat
      BY DEF BIInv, CursorSound
    <3>3. ~skipped' => cursor = 0
      BY <3>1, <3>2
    <3> QED BY <1>5, <2>1, <3>2, <3>3 DEF CursorSound
  <2> QED BY <1>5, <2>2, ResetStoreSound DEF BIInv
<1> QED BY <1>1, <1>2, <1>3, <1>4, <1>5 DEF BNext, Clear

LEMMA BInitInv == BInit => BIInv
<1> SUFFICES ASSUME BInit PROVE BIInv
  OBVIOUS
<1>1. CIInv
  BY CInitInv DEF BInit
<1>2. log = << >> /\ Len(<< >>) = 0 /\ log \in Seq(PersistedEvent)
  BY DEF BInit, CInit
<1>3. cursor = 0
  BY <1>1, <1>2, StoreExtent DEF BInit, CIInv, CTypeOK
<1> QED BY <1>1, <1>2, <1>3, Recovered DEF BIInv, CursorSound, BInit

(***************************************************************************)
(* With clears and the broadcasting loop beside the calls: the cached      *)
(* marking is the projection of the prefix its cursor names, unless a      *)
(* clear overtook a call.                                                  *)
(***************************************************************************)
THEOREM CacheCoherentWithClears == BSpec => []CacheCoherent
<1>1. BIInv => CacheCoherent
  BY DEF BIInv, GInv, CIInv, CacheCoherent, Coherent, MarkingAt, Upto
<1> QED BY <1>1, BInitInv, BNextInv, PTL DEF BSpec

(***************************************************************************)
(* Likewise for what the calls return.                                     *)
(***************************************************************************)
THEOREM ReadsFreshWithClears == BSpec => []ReadsFresh
<1>1. BIInv => ReadsFresh
  BY DEF BIInv, GInv, CIInv, ReadsFresh, CallSound, Coherent, MarkingAt, Upto
<1> QED BY <1>1, BInitInv, BNextInv, PTL DEF BSpec

(***************************************************************************)
(* The next pass of the loop sends exactly the events the SSE clients have *)
(* not had, until an eviction or a clear has passed the cursor.            *)
(***************************************************************************)
THEOREM BroadcastsExactlyTheDelta == BSpec => []BroadcastsDelta
<1>1. BIInv => BroadcastsDelta
  <2> SUFFICES ASSUME BIInv, ~skipped, ~(cursor < store.baseCount)
               PROVE  EventsFrom(store, cursor) = SubSeq(log, sent + 1, Len(log))
    BY DEF BroadcastsDelta
  <2>1. store \in StoreType /\ log \in Seq(PersistedEvent) /\ Represents(store, log)
        /\ Len(log) \in Nat /\ cursor \in Nat /\ cursor <= Len(log) /\ sent = cursor
    BY DEF BIInv, GInv, CTypeOK, CursorSound
  <2> QED BY <2>1, EventsFromRepresents
<1> QED BY <1>1, BInitInv, BNextInv, PTL DEF BSpec
=============================================================================
