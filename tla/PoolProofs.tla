----------------------------- MODULE PoolProofs -----------------------------
(***************************************************************************)
(* The units of a pool are conserved (module ResourcePool), for every      *)
(* number of claimants, runners, units, laps and faults.                   *)
(***************************************************************************)
EXTENDS ResourcePool, FiniteSetTheorems, TLAPS

\* The six places are disjoint, pair by pair, and a unit is in one hold.
Separate ==
    /\ mark.acquires \cap mark.pool = {}
    /\ mark.acquires \cap UnitsOf(mail.grants) = {}
    /\ mark.acquires \cap UnitsOf(mark.regs) = {}
    /\ mark.acquires \cap UnitsOf(mark.inUse) = {}
    /\ mark.acquires \cap bounced = {}
    /\ mark.pool \cap UnitsOf(mail.grants) = {}
    /\ mark.pool \cap UnitsOf(mark.regs) = {}
    /\ mark.pool \cap UnitsOf(mark.inUse) = {}
    /\ mark.pool \cap bounced = {}
    /\ UnitsOf(mail.grants) \cap UnitsOf(mark.regs) = {}
    /\ UnitsOf(mail.grants) \cap UnitsOf(mark.inUse) = {}
    /\ UnitsOf(mail.grants) \cap bounced = {}
    /\ UnitsOf(mark.regs) \cap UnitsOf(mark.inUse) = {}
    /\ UnitsOf(mark.regs) \cap bounced = {}
    /\ UnitsOf(mark.inUse) \cap bounced = {}
    /\ AtMostOnce(mail.grants) /\ AtMostOnce(mark.regs) /\ AtMostOnce(mark.inUse)

AllUnits ==
    mark.acquires \cup mark.pool \cup UnitsOf(mail.grants) \cup UnitsOf(mark.regs)
        \cup UnitsOf(mark.inUse) \cup bounced

\* No unit is ahead of its runner's counter, so the next one is new.
MintedSoFar == \A u \in AllUnits : u.owner # None => u.n <= minted[u.owner]

\* Action: no unit is made or lost, and none is announced.
Conserved == AllUnits' = AllUnits /\ mark'.acquires \subseteq mark.acquires

PInv == TypeOK /\ Separate /\ MintedSoFar

\* A seeded pool has no runners: no unit enters it and none is reaped.
SInv ==
    load.source = "seeded" =>
        alive = {} /\ handler = None /\ mark.acquires = {} /\ AllUnits = Seeds

-----------------------------------------------------------------------------
(***************************************************************************)
(* Holds and their units.                                                  *)
(***************************************************************************)
LEMMA UnitsAdded ==
  ASSUME NEW H, NEW h
  PROVE  UnitsOf(H \cup {h}) = UnitsOf(H) \cup {h.unit}
BY DEF UnitsOf

LEMMA UnitsRemoved ==
  ASSUME NEW H, NEW h \in H, AtMostOnce(H)
  PROVE  UnitsOf(H \ {h}) = UnitsOf(H) \ {h.unit}
BY DEF UnitsOf, AtMostOnce

LEMMA HeldUnit ==
  ASSUME NEW H, NEW h \in H
  PROVE  h.unit \in UnitsOf(H)
BY DEF UnitsOf

LEMMA UnitTypes ==
  ASSUME TypeOK
  PROVE  /\ AllUnits \subseteq Unit
         /\ \A u \in Unit : u.n \in Nat /\ u.owner \in Runner \cup {None}
         /\ \A h \in mail.grants \cup mark.regs \cup mark.inUse :
               h \in Hold /\ h.by \in Claimant /\ h.unit \in Unit
<1>1. \A h \in mail.grants \cup mark.regs \cup mark.inUse :
               h \in Hold /\ h.by \in Claimant /\ h.unit \in Unit
  BY DEF TypeOK, Hold
<1>2. mark.acquires \cup mark.pool \cup bounced \subseteq Unit
  BY DEF TypeOK
<1>3. \A u \in Unit : u.n \in Nat /\ u.owner \in Runner \cup {None}
  BY DEF Unit
<1> QED BY <1>1, <1>2, <1>3 DEF AllUnits, UnitsOf

\* A runner's units are finitely many: their numbers are bounded.
LEMMA CountIsNat ==
  ASSUME PInv, NEW r \in Runner
  PROVE  SlotsToReconcile(CountUnits(r)) \in Nat
<1> DEFINE S == {u \in mark.pool \cup UnitsOf(mark.inUse) : u.owner = r}
           f == [u \in S |-> u.n]
<1>1. minted[r] \in Nat
  BY DEF PInv, TypeOK
<1>2. \A u \in S : u \in Unit /\ u.n \in 0..minted[r] /\ u.owner = r
  <2> SUFFICES ASSUME NEW u \in S PROVE u \in Unit /\ u.n \in 0..minted[r] /\ u.owner = r
    OBVIOUS
  <2>1. u \in AllUnits /\ u.owner = r
    BY DEF AllUnits
  <2>2. u \in Unit /\ u.n \in Nat
    BY <2>1, UnitTypes DEF PInv
  <2>3. u.n <= minted[r]
    BY <2>1, NoneAssumption DEF PInv, MintedSoFar
  <2> QED BY <1>1, <2>1, <2>2, <2>3
<1>3. \A u, v \in S : u.n = v.n => u = v
  BY <1>2 DEF Unit
<1>4. f \in Injection(S, 0..minted[r])
  BY <1>2, <1>3 DEF Injection, IsInjective
<1>5. IsFiniteSet(0..minted[r])
  BY <1>1, FS_Interval
<1>6. IsFiniteSet(S)
  BY <1>4, <1>5, FS_Injection
<1>7. CountUnits(r) \in Nat
  BY <1>6, FS_CardinalityType DEF CountUnits
<1> QED BY <1>7, NumberAssumption DEF SlotsToReconcile

-----------------------------------------------------------------------------
(***************************************************************************)
(* What an action does to the places of the units: nothing, or one unit    *)
(* moves, or new ones come in.                                             *)
(***************************************************************************)
\* The places as a tuple, for UNCHANGED.
places == <<mark.acquires, mark.pool, mail.grants, mark.regs, mark.inUse, bounced, minted>>

LEMMA StillSeparate ==
  ASSUME PInv, UNCHANGED places
  PROVE  Separate' /\ MintedSoFar' /\ Conserved
BY DEF places, Conserved, PInv, Separate, MintedSoFar, AllUnits, UnitsOf, AtMostOnce

\* A claim's grant is taken by its step and the hold is on its way.
LEMMA AcquireSeparate ==
  ASSUME PInv, NEW g \in mail.grants, Acquire(g)
  PROVE  Separate' /\ MintedSoFar' /\ Conserved
<1>1. /\ mark'.acquires = mark.acquires /\ mark'.pool = mark.pool
      /\ mail'.grants = mail.grants \ {g} /\ mark'.regs = mark.regs \cup {g}
      /\ mark'.inUse = mark.inUse /\ bounced' = bounced /\ minted' = minted
  BY DEF Acquire, PInv, TypeOK, history, controller
<1>2. g.unit \in UnitsOf(mail.grants)
  BY HeldUnit
<1>3. /\ UnitsOf(mail'.grants) = UnitsOf(mail.grants) \ {g.unit}
      /\ UnitsOf(mark'.regs) = UnitsOf(mark.regs) \cup {g.unit}
  BY <1>1, UnitsAdded, UnitsRemoved DEF PInv, Separate
<1>4. AtMostOnce(mail'.grants) /\ AtMostOnce(mark'.regs)
  BY <1>1, <1>2 DEF PInv, Separate, AtMostOnce, UnitsOf
<1>5. Separate'
  BY SMTT(30), <1>1, <1>2, <1>3, <1>4 DEF PInv, Separate
<1>6. AllUnits' = AllUnits
  BY <1>1, <1>2, <1>3 DEF AllUnits
<1> QED BY <1>1, <1>5, <1>6 DEF PInv, MintedSoFar, Conserved

LEMMA BounceSeparate ==
  ASSUME PInv, NEW g \in mail.grants, Bounce(g)
  PROVE  Separate' /\ MintedSoFar' /\ Conserved
<1>1. /\ mark' = mark /\ mail'.grants = mail.grants \ {g}
      /\ bounced' = bounced \cup {g.unit} /\ minted' = minted
  BY DEF Bounce, PInv, TypeOK, controller
<1>2. g.unit \in UnitsOf(mail.grants)
  BY HeldUnit
<1>3. UnitsOf(mail'.grants) = UnitsOf(mail.grants) \ {g.unit}
  BY <1>1, UnitsRemoved DEF PInv, Separate
<1>4. AtMostOnce(mail'.grants)
  BY <1>1 DEF PInv, Separate, AtMostOnce
<1>5. Separate'
  BY SMTT(30), <1>1, <1>2, <1>3, <1>4 DEF PInv, Separate
<1>6. AllUnits' = AllUnits
  BY <1>1, <1>2, <1>3 DEF AllUnits
<1> QED BY <1>1, <1>5, <1>6 DEF PInv, MintedSoFar, Conserved

\* t_grant and t_claim: a free unit goes into a grant.
LEMMA GrantSeparate ==
  ASSUME PInv, NEW c \in Claimant, NEW u \in mark.pool,
         \/ Grant(c, u)
         \/ \E b \in mark.bids : b[1] = c /\ ClaimOffer(b, u)
  PROVE  Separate' /\ MintedSoFar' /\ Conserved
<1> DEFINE g == [by |-> c, unit |-> u]
<1>1. /\ mark'.acquires = mark.acquires /\ mark'.pool = mark.pool \ {u}
      /\ mail'.grants = mail.grants \cup {g} /\ mark'.regs = mark.regs
      /\ mark'.inUse = mark.inUse /\ bounced' = bounced /\ minted' = minted
  BY ZenonT(60) DEF Grant, ClaimOffer, PInv, TypeOK, history, controller
<1>2. u \notin UnitsOf(mail.grants) /\ g.unit = u
  BY DEF PInv, Separate
<1>3. UnitsOf(mail'.grants) = UnitsOf(mail.grants) \cup {u}
  BY <1>1, <1>2 DEF UnitsOf
<1>4. AtMostOnce(mail'.grants)
  BY <1>1, <1>2 DEF PInv, Separate, AtMostOnce, UnitsOf
<1> HIDE DEF g
<1>5. Separate'
  BY <1>1, <1>3, <1>4 DEF PInv, Separate
<1>6. AllUnits' = AllUnits
  BY <1>1, <1>3 DEF AllUnits
<1> QED BY <1>1, <1>5, <1>6 DEF PInv, MintedSoFar, Conserved

LEMMA RegisterSeparate ==
  ASSUME PInv, NEW h \in mark.regs, Register(h)
  PROVE  Separate' /\ MintedSoFar' /\ Conserved
<1>1. /\ mark'.acquires = mark.acquires /\ mark'.pool = mark.pool
      /\ mail' = mail /\ mark'.regs = mark.regs \ {h}
      /\ mark'.inUse = mark.inUse \cup {h} /\ bounced' = bounced /\ minted' = minted
  BY DEF Register, PInv, TypeOK, history, controller
<1>2. h.unit \in UnitsOf(mark.regs)
  BY HeldUnit
<1>3. /\ UnitsOf(mark'.regs) = UnitsOf(mark.regs) \ {h.unit}
      /\ UnitsOf(mark'.inUse) = UnitsOf(mark.inUse) \cup {h.unit}
  BY <1>1, UnitsAdded, UnitsRemoved DEF PInv, Separate
<1>4. AtMostOnce(mark'.regs) /\ AtMostOnce(mark'.inUse)
  BY <1>1, <1>2 DEF PInv, Separate, AtMostOnce, UnitsOf
<1>5. Separate'
  BY <1>1, <1>2, <1>3, <1>4 DEF PInv, Separate
<1>6. AllUnits' = AllUnits
  BY <1>1, <1>2, <1>3 DEF AllUnits
<1> QED BY <1>1, <1>5, <1>6 DEF PInv, MintedSoFar, Conserved

LEMMA ReleaseSeparate ==
  ASSUME PInv, NEW c \in Claimant, NEW h \in mark.inUse, Release(c, h)
  PROVE  Separate' /\ MintedSoFar' /\ Conserved
<1>1. /\ mark'.acquires = mark.acquires /\ mark'.pool = mark.pool \cup {h.unit}
      /\ mail' = mail /\ mark'.regs = mark.regs
      /\ mark'.inUse = mark.inUse \ {h} /\ bounced' = bounced /\ minted' = minted
  BY DEF Release, PInv, TypeOK, history, controller
<1>2. h.unit \in UnitsOf(mark.inUse)
  BY HeldUnit
<1>3. UnitsOf(mark'.inUse) = UnitsOf(mark.inUse) \ {h.unit}
  BY <1>1, UnitsRemoved DEF PInv, Separate
<1>4. AtMostOnce(mark'.inUse)
  BY <1>1 DEF PInv, Separate, AtMostOnce
<1>5. Separate'
  BY SMTT(30), <1>1, <1>2, <1>3, <1>4 DEF PInv, Separate
<1>6. AllUnits' = AllUnits
  BY <1>1, <1>2, <1>3 DEF AllUnits
<1> QED BY <1>1, <1>5, <1>6 DEF PInv, MintedSoFar, Conserved

LEMMA AdmitSeparate ==
  ASSUME PInv, NEW u \in mark.acquires, AdmitUnit(u)
  PROVE  Separate' /\ MintedSoFar' /\ Conserved
<1>1. /\ mark'.acquires = mark.acquires \ {u} /\ mark'.pool = mark.pool \cup {u}
      /\ mail' = mail /\ mark'.regs = mark.regs
      /\ mark'.inUse = mark.inUse /\ bounced' = bounced /\ minted' = minted
  BY DEF AdmitUnit, PInv, TypeOK, history, controller
<1>5. Separate'
  BY <1>1 DEF PInv, Separate
<1>6. AllUnits' = AllUnits
  BY <1>1 DEF AllUnits
<1> QED BY <1>1, <1>5, <1>6 DEF PInv, MintedSoFar, Conserved

LEMMA ReapSeparate ==
  ASSUME PInv, NEW r \in Runner,
         \/ \E u \in mark.pool : ReapFree(r, u)
         \/ \E h \in mark.inUse : ReapHeld(r, h)
  PROVE  Separate' /\ MintedSoFar'
<1>1. /\ mark'.acquires = mark.acquires /\ mark'.pool \subseteq mark.pool
      /\ mail'.grants = mail.grants /\ mark'.regs = mark.regs
      /\ mark'.inUse \subseteq mark.inUse /\ bounced' = bounced /\ minted' = minted
  <2>1. ASSUME NEW u \in mark.pool, ReapFree(r, u)
        PROVE  /\ mark'.acquires = mark.acquires /\ mark'.pool = mark.pool \ {u}
               /\ mail' = mail /\ mark'.regs = mark.regs
               /\ mark'.inUse = mark.inUse /\ bounced' = bounced /\ minted' = minted
    BY <2>1 DEF ReapFree, PInv, TypeOK, history, controller
  <2>2. ASSUME NEW h \in mark.inUse, ReapHeld(r, h)
        PROVE  /\ mark'.acquires = mark.acquires /\ mark'.pool = mark.pool
               /\ mail'.grants = mail.grants /\ mark'.regs = mark.regs
               /\ mark'.inUse = mark.inUse \ {h} /\ bounced' = bounced /\ minted' = minted
    BY <2>2 DEF ReapHeld, PInv, TypeOK, history, controller
  <2> QED BY <2>1, <2>2
<1>2. UnitsOf(mark'.inUse) \subseteq UnitsOf(mark.inUse)
  BY <1>1 DEF UnitsOf
<1>3. AtMostOnce(mark'.inUse)
  BY <1>1 DEF AtMostOnce, PInv, Separate
<1>5. Separate'
  BY <1>1, <1>2, <1>3 DEF PInv, Separate
<1>6. AllUnits' \subseteq AllUnits
  BY <1>1, <1>2 DEF AllUnits
<1> QED BY <1>1, <1>5, <1>6 DEF PInv, MintedSoFar

\* The controller mints units beyond its counter: none of them is there yet.
LEMMA InjectSeparate ==
  ASSUME PInv, Inject
  PROVE  Separate' /\ MintedSoFar'
<1> DEFINE r == handler.runner
           fresh == [owner : {r}, n : minted[r] + 1 .. minted[r] + handler.need]
<1>1. r \in Runner /\ handler.need \in Nat /\ minted[r] \in Nat /\ r # None
  BY NoneAssumption DEF Inject, PInv, TypeOK
<1>2. PICK published \in {fresh, {}} : mark' = [mark EXCEPT !.acquires = @ \cup published]
  BY DEF Inject
<1>3. /\ mark'.acquires = mark.acquires \cup published /\ mark'.pool = mark.pool
      /\ mail' = mail /\ mark'.regs = mark.regs
      /\ mark'.inUse = mark.inUse /\ bounced' = bounced
      /\ minted' = [minted EXCEPT ![r] = @ + handler.need]
  BY <1>2 DEF Inject, PInv, TypeOK
<1>4. \A u \in published : u.owner = r /\ u.n > minted[r] /\ u.n <= minted[r] + handler.need
  <2>1. \A u \in fresh : u.owner = r /\ u.n \in minted[r] + 1 .. minted[r] + handler.need
    OBVIOUS
  <2>2. \A u \in fresh : u.owner = r /\ u.n > minted[r] /\ u.n <= minted[r] + handler.need
    BY <1>1, <2>1
  <2> HIDE DEF fresh
  <2> QED BY <1>2, <2>2
<1>5. published \cap AllUnits = {}
  <2> SUFFICES ASSUME NEW u \in published, u \in AllUnits PROVE FALSE
    OBVIOUS
  <2>1. u.n <= minted[r] /\ u.n \in Nat
    BY <1>1, <1>4, UnitTypes DEF PInv, MintedSoFar
  <2> QED BY <1>1, <1>4, <2>1
<1>6. Separate'
  BY <1>3, <1>5 DEF PInv, Separate, AllUnits
<1>7. AllUnits' = AllUnits \cup published
  BY <1>3 DEF AllUnits
<1>8. \A q \in Runner : minted[q] \in Nat /\ minted'[q] \in Nat /\ minted[q] <= minted'[q]
  BY <1>1, <1>3 DEF PInv, TypeOK
<1>9. minted'[r] = minted[r] + handler.need
  BY <1>1, <1>3 DEF PInv, TypeOK
<1>10. ASSUME NEW u \in AllUnits, u.owner # None PROVE u.n <= minted'[u.owner]
  <2>1. u.n \in Nat /\ u.owner \in Runner
    BY <1>10, UnitTypes DEF PInv
  <2>2. u.n <= minted[u.owner]
    BY <1>10 DEF PInv, MintedSoFar
  <2> QED BY <1>8, <2>1, <2>2
<1>11. \A u \in published : u.n <= minted'[u.owner]
  BY <1>4, <1>9
<1> QED BY <1>6, <1>7, <1>10, <1>11 DEF MintedSoFar

-----------------------------------------------------------------------------
(***************************************************************************)
(* Every action keeps the types.                                           *)
(***************************************************************************)
NetType ==
    [Claimant -> [at : {"idle", "pending", "held", "dead"},
                  unit : Unit \cup {None}, lost : BOOLEAN, lap : Nat]]

MarkType ==
    [pool : SUBSET Unit, claims : SUBSET Claimant, offers : SUBSET Claimant,
     bids : SUBSET (Claimant \X Runner), regs : SUBSET Hold,
     inUse : SUBSET Hold, releases : [Claimant -> Nat],
     withdraws : SUBSET Claimant, acquires : SUBSET Unit,
     expires : [Runner -> Nat]]

LEMMA NetTypes ==
  ASSUME TypeOK, NEW c \in Claimant, NEW u \in Unit \cup {None}
  PROVE  /\ [net EXCEPT ![c].at = "held", ![c].unit = u] \in NetType
         /\ [net EXCEPT ![c].at = "idle", ![c].unit = None] \in NetType
         /\ [net EXCEPT ![c].at = "dead", ![c].unit = None] \in NetType
         /\ [net EXCEPT ![c].lost = TRUE] \in NetType
<1> DEFINE Rec == [at : {"idle", "pending", "held", "dead"},
                   unit : Unit \cup {None}, lost : BOOLEAN, lap : Nat]
<1>1. net \in [Claimant -> Rec]
  BY DEF TypeOK
<1>2. /\ [net[c] EXCEPT !.at = "held", !.unit = u] \in Rec
      /\ [net[c] EXCEPT !.at = "idle", !.unit = None] \in Rec
      /\ [net[c] EXCEPT !.at = "dead", !.unit = None] \in Rec
      /\ [net[c] EXCEPT !.lost = TRUE] \in Rec
  BY <1>1
<1>3. /\ [net EXCEPT ![c].at = "held", ![c].unit = u]
            = [net EXCEPT ![c] = [net[c] EXCEPT !.at = "held", !.unit = u]]
      /\ [net EXCEPT ![c].at = "idle", ![c].unit = None]
            = [net EXCEPT ![c] = [net[c] EXCEPT !.at = "idle", !.unit = None]]
      /\ [net EXCEPT ![c].at = "dead", ![c].unit = None]
            = [net EXCEPT ![c] = [net[c] EXCEPT !.at = "dead", !.unit = None]]
      /\ [net EXCEPT ![c].lost = TRUE] = [net EXCEPT ![c] = [net[c] EXCEPT !.lost = TRUE]]
  BY <1>1
<1> HIDE DEF Rec
<1>4. \A rec \in Rec : [net EXCEPT ![c] = rec] \in [Claimant -> Rec]
  BY <1>1
<1>5. NetType = [Claimant -> Rec]
  BY DEF NetType, Rec
<1> QED BY <1>2, <1>3, <1>4, <1>5

LEMMA MarkTypes ==
  ASSUME NEW mk \in MarkType
  PROVE  /\ \A f \in [Claimant -> Nat] : [mk EXCEPT !.releases = f] \in MarkType
         /\ \A f \in [Runner -> Nat] : [mk EXCEPT !.expires = f] \in MarkType
         /\ \A c \in Claimant : [mk EXCEPT !.releases[c] = @ + 1] \in MarkType
         /\ \A f \in [Claimant -> Nat], H \in SUBSET Hold, P \in SUBSET Unit :
               [mk EXCEPT !.releases = f, !.inUse = H, !.pool = P] \in MarkType
         /\ \A f \in [Runner -> Nat], H \in SUBSET Hold :
               [mk EXCEPT !.expires = f, !.inUse = H] \in MarkType
         /\ \A f \in [Runner -> Nat], P \in SUBSET Unit :
               [mk EXCEPT !.expires = f, !.pool = P] \in MarkType
<1>1. \A f \in [Claimant -> Nat] : [mk EXCEPT !.releases = f] \in MarkType
  BY DEF MarkType
<1>2. \A f \in [Runner -> Nat] : [mk EXCEPT !.expires = f] \in MarkType
  BY DEF MarkType
<1>3. ASSUME NEW c \in Claimant PROVE [mk EXCEPT !.releases[c] = @ + 1] \in MarkType
  <2>1. [mk.releases EXCEPT ![c] = @ + 1] \in [Claimant -> Nat]
    BY DEF MarkType
  <2>2. [mk EXCEPT !.releases[c] = @ + 1] = [mk EXCEPT !.releases = [mk.releases EXCEPT ![c] = @ + 1]]
    OBVIOUS
  <2> QED BY <1>1, <2>1, <2>2
<1>4. \A f \in [Claimant -> Nat], H \in SUBSET Hold, P \in SUBSET Unit :
        [mk EXCEPT !.releases = f, !.inUse = H, !.pool = P] \in MarkType
  BY DEF MarkType
<1>5. \A f \in [Runner -> Nat], H \in SUBSET Hold :
        [mk EXCEPT !.expires = f, !.inUse = H] \in MarkType
  BY DEF MarkType
<1>6. \A f \in [Runner -> Nat], P \in SUBSET Unit :
        [mk EXCEPT !.expires = f, !.pool = P] \in MarkType
  BY DEF MarkType
<1> QED BY <1>1, <1>2, <1>3, <1>4, <1>5, <1>6

\* The types of the state, with those of mark and net under their names.
LEMMA TypeParts ==
  /\ TypeOK => mark \in MarkType /\ net \in NetType
  /\ ( /\ TypeOK /\ mark' \in MarkType /\ net' \in NetType
       /\ mail' \in [grants : SUBSET Hold, notices : SUBSET Claimant]
       /\ present' \subseteq Runner /\ alive' \subseteq Runner
       /\ handler' \in [runner : Runner, need : Nat, edge : BOOLEAN] \cup {None}
       /\ minted' \in [Runner -> Nat]
       /\ bounced' \subseteq Unit /\ untracked' \subseteq Runner
       /\ faults' \in Nat /\ load' = load ) => TypeOK'
BY DEF TypeOK, MarkType, NetType

LEMMA StepTypes ==
  ASSUME PInv, StepNext \/ Request
  PROVE  TypeOK'
<1> USE DEF history, controller, poolVars
<1>0. TypeOK
  BY DEF PInv
<1>1. ASSUME NEW c \in Claimant, Claim(c) PROVE TypeOK'
  BY <1>0, <1>1 DEF TypeOK, Claim
<1>2. ASSUME NEW g \in mail.grants, Acquire(g) PROVE TypeOK'
  <2>1. g \in Hold /\ g.by \in Claimant /\ g.unit \in Unit
    BY <1>0, UnitTypes
  <2>2. net' \in NetType
    BY <1>0, <1>2, <2>1, NetTypes DEF Acquire
  <2>3. mark' \in MarkType /\ mail' \in [grants : SUBSET Hold, notices : SUBSET Claimant]
    BY <1>0, <1>2, <2>1 DEF Acquire, TypeOK, MarkType
  <2> QED BY <1>0, <1>2, <2>2, <2>3, TypeParts DEF TypeOK, Acquire
<1>3. ASSUME NEW g \in mail.grants, Bounce(g) PROVE TypeOK'
  <2>1. g.unit \in Unit
    BY <1>0, UnitTypes
  <2> QED BY <1>0, <1>3, <2>1 DEF TypeOK, Bounce
<1>4. ASSUME NEW c \in Claimant, Finish(c) PROVE TypeOK'
  <2>1. net' \in NetType
    BY <1>0, <1>4, NetTypes DEF Finish
  <2>2. mark' \in MarkType
    BY <1>0, <1>4, TypeParts, MarkTypes DEF Finish
  <2> QED BY <1>0, <1>4, <2>1, <2>2, TypeParts DEF TypeOK, Finish
<1>5. ASSUME NEW c \in Claimant, Teardown(c) PROVE TypeOK'
  <2>1. net' \in NetType
    BY <1>0, <1>5, NetTypes DEF Teardown
  <2>2. mark' \in MarkType
    <3>1. net[c].at = "held" => mark' = [mark EXCEPT !.releases[c] = @ + 1]
      BY <1>5 DEF Teardown
    <3>2. net[c].at # "held" => mark' = [mark EXCEPT !.withdraws = @ \cup {c}]
      BY <1>5 DEF Teardown
    <3>3. [mark EXCEPT !.withdraws = @ \cup {c}] \in MarkType
      BY <1>0 DEF TypeOK, MarkType
    <3> QED BY <1>0, <3>1, <3>2, <3>3, TypeParts, MarkTypes
  <2>3. faults' = faults + 1 /\ UNCHANGED <<load, mail, controller, alive, history>>
    BY <1>5 DEF Teardown, Faulty
  <2> QED BY <1>0, <2>1, <2>2, <2>3, TypeParts DEF TypeOK
<1>6. ASSUME NEW c \in Claimant, LeaseFailed(c) PROVE TypeOK'
  <2>1. net' \in NetType
    BY <1>0, <1>6, NetTypes DEF LeaseFailed
  <2> QED BY <1>0, <1>6, <2>1, TypeParts DEF TypeOK, LeaseFailed
<1>7. ASSUME NEW c \in Claimant, LeaseAbort(c) PROVE TypeOK'
  <2>1. net' \in NetType
    BY <1>0, <1>7, NetTypes DEF LeaseAbort
  <2> QED BY <1>0, <1>7, <2>1, TypeParts DEF TypeOK, LeaseAbort
<1>8. ASSUME NEW c \in Claimant, NEW r \in Runner, ClaimTask(c, r) PROVE TypeOK'
  <2>1. mark' = [mark EXCEPT !.bids = @ \cup {<<c, r>>}]
    BY <1>8 DEF ClaimTask
  <2>2. mark.bids \cup {<<c, r>>} \in SUBSET (Claimant \X Runner)
    BY <1>0 DEF TypeOK
  <2>3. \A B \in SUBSET (Claimant \X Runner) : [mark EXCEPT !.bids = B] \in MarkType
    BY <1>0 DEF TypeOK, MarkType
  <2>4. mark' \in MarkType
    BY <2>1, <2>2, <2>3
  <2> QED BY <1>0, <1>8, <2>4, TypeParts DEF TypeOK, ClaimTask
<1> QED BY <1>1, <1>2, <1>3, <1>4, <1>5, <1>6, <1>7, <1>8 DEF StepNext, Request

LEMMA PoolTypes ==
  ASSUME PInv, PoolNext
  PROVE  TypeOK'
<1> USE DEF history, controller, poolVars
<1>0. TypeOK
  BY DEF PInv
<1>1. ASSUME NEW c \in Claimant, PostOffer(c) PROVE TypeOK'
  BY <1>0, <1>1 DEF TypeOK, PostOffer
<1>2. ASSUME NEW c \in Claimant, Withdraw(c) PROVE TypeOK'
  BY <1>0, <1>2 DEF TypeOK, Withdraw
<1>3. ASSUME NEW c \in Claimant, NEW u \in mark.pool, Grant(c, u) PROVE TypeOK'
  <2>1. [by |-> c, unit |-> u] \in Hold
    BY <1>0 DEF TypeOK, Hold
  <2> QED BY <1>0, <1>3, <2>1 DEF TypeOK, Grant
<1>4. ASSUME NEW b \in mark.bids, NEW u \in mark.pool, ClaimOffer(b, u) PROVE TypeOK'
  <2>1. b \in Claimant \X Runner /\ b[1] \in Claimant /\ u \in Unit
    BY <1>0 DEF TypeOK
  <2>2. [by |-> b[1], unit |-> u] \in Hold
    BY <2>1 DEF Hold
  <2> QED BY <1>0, <1>4, <2>1, <2>2 DEF TypeOK, ClaimOffer
<1>5. ASSUME NEW h \in mark.regs, Register(h) PROVE TypeOK'
  BY <1>0, <1>5 DEF TypeOK, Register
<1>6. ASSUME NEW c \in Claimant, NEW h \in mark.inUse, Release(c, h) PROVE TypeOK'
  <2>1. h.unit \in Unit
    BY <1>0, UnitTypes
  <2> DEFINE f == [mark.releases EXCEPT ![c] = @ - 1]
  <2>2. f \in [Claimant -> Nat]
    BY <1>0, <1>6 DEF TypeOK, Release
  <2>3. mark' = [mark EXCEPT !.releases = f, !.inUse = mark.inUse \ {h},
                             !.pool = mark.pool \cup {h.unit}]
    BY <1>6 DEF Release
  <2>4. mark.inUse \ {h} \in SUBSET Hold /\ mark.pool \cup {h.unit} \in SUBSET Unit
    BY <1>0, <2>1 DEF TypeOK
  <2> HIDE DEF f
  <2>5. mark' \in MarkType
    BY <1>0, <2>2, <2>3, <2>4, TypeParts, MarkTypes
  <2> QED BY <1>0, <1>6, <2>5, TypeParts DEF TypeOK, Release
<1>7. ASSUME NEW u \in mark.acquires, AdmitUnit(u) PROVE TypeOK'
  BY <1>0, <1>7 DEF TypeOK, AdmitUnit
<1>8. ASSUME NEW r \in Runner, NEW u \in mark.pool, ReapFree(r, u) PROVE TypeOK'
  <2> DEFINE f == [mark.expires EXCEPT ![r] = @ - 1]
  <2>2. f \in [Runner -> Nat]
    BY <1>0, <1>8 DEF TypeOK, ReapFree
  <2>3. mark' = [mark EXCEPT !.expires = f, !.pool = mark.pool \ {u}]
    BY <1>8 DEF ReapFree
  <2>4. mark.pool \ {u} \in SUBSET Unit
    BY <1>0 DEF TypeOK
  <2> HIDE DEF f
  <2>5. mark' \in MarkType
    BY <1>0, <2>2, <2>3, <2>4, TypeParts, MarkTypes
  <2> QED BY <1>0, <1>8, <2>5, TypeParts DEF TypeOK, ReapFree
<1>9. ASSUME NEW r \in Runner, NEW h \in mark.inUse, ReapHeld(r, h) PROVE TypeOK'
  <2>1. h.by \in Claimant
    BY <1>0, UnitTypes
  <2> DEFINE f == [mark.expires EXCEPT ![r] = @ - 1]
  <2>2. f \in [Runner -> Nat]
    BY <1>0, <1>9 DEF TypeOK, ReapHeld
  <2>3. mark' = [mark EXCEPT !.expires = f, !.inUse = mark.inUse \ {h}]
    BY <1>9 DEF ReapHeld
  <2>4. mark.inUse \ {h} \in SUBSET Hold
    BY <1>0 DEF TypeOK
  <2> HIDE DEF f
  <2>5. mark' \in MarkType
    BY <1>0, <2>2, <2>3, <2>4, TypeParts, MarkTypes
  <2>6. mail' \in [grants : SUBSET Hold, notices : SUBSET Claimant]
    BY <1>0, <1>9, <2>1 DEF TypeOK, ReapHeld
  <2> QED BY <1>0, <1>9, <2>5, <2>6, TypeParts DEF TypeOK, ReapHeld
<1> QED BY <1>1, <1>2, <1>3, <1>4, <1>5, <1>6, <1>7, <1>8, <1>9 DEF PoolNext

LEMMA ControllerTypes ==
  ASSUME PInv, ControllerNext
  PROVE  TypeOK'
<1> USE DEF history, controller, poolVars
<1>0. TypeOK
  BY DEF PInv
<1>1. ASSUME NEW r \in Runner, Heartbeat(r) PROVE TypeOK'
  <2>1. PICK need \in {SlotsToReconcile(CountUnits(r)), 0} :
          /\ FaultUnless(need = SlotsToReconcile(CountUnits(r)), "error")
          /\ IF need > 0
               THEN /\ handler' = [runner |-> r, need |-> need, edge |-> r \notin present]
                    /\ UNCHANGED present
               ELSE /\ present' = present \cup {r}
                    /\ UNCHANGED handler
    BY <1>1 DEF Heartbeat
  <2>2. need \in Nat
    BY <2>1, CountIsNat
  <2>3. (r \notin present) \in BOOLEAN
    OBVIOUS
  <2>4. [runner |-> r, need |-> need, edge |-> r \notin present]
            \in [runner : Runner, need : Nat, edge : BOOLEAN]
    BY <2>2, <2>3
  <2>5. handler' \in [runner : Runner, need : Nat, edge : BOOLEAN] \cup {None}
    BY <1>0, <2>1, <2>4 DEF TypeOK
  <2>6. present' \subseteq Runner
    BY <1>0, <2>1 DEF TypeOK
  <2>7. faults' \in Nat
    BY <1>0, <2>1 DEF TypeOK, FaultUnless, Faulty
  <2> QED BY <1>0, <1>1, <2>5, <2>6, <2>7 DEF TypeOK, Heartbeat
<1>2. ASSUME Inject PROVE TypeOK'
  <2> DEFINE r == handler.runner
             fresh == [owner : {r}, n : minted[r] + 1 .. minted[r] + handler.need]
  <2>1. r \in Runner /\ handler.need \in Nat /\ minted[r] \in Nat
    BY <1>0, <1>2 DEF Inject, TypeOK
  <2>2. fresh \subseteq Unit
    <3>1. minted[r] + 1 .. minted[r] + handler.need \subseteq Nat
      BY <2>1
    <3> QED BY <2>1, <3>1 DEF Unit
  <2>3. PICK published \in {fresh, {}} :
          /\ FaultUnless(published = fresh, "lost acquire")
          /\ mark' = [mark EXCEPT !.acquires = @ \cup published]
    BY <1>2 DEF Inject
  <2>4. published \subseteq Unit
    BY <2>2, <2>3
  <2>5. minted' \in [Runner -> Nat]
    <3>1. minted' = [minted EXCEPT ![r] = @ + handler.need]
      BY <1>2 DEF Inject
    <3> QED BY <1>0, <2>1, <3>1 DEF TypeOK
  <2>6. present' \subseteq Runner /\ untracked' \subseteq Runner
    BY <1>0, <1>2, <2>1 DEF Inject, TypeOK
  <2>7. faults' \in Nat
    <3>1. faults' = faults \/ faults' = faults + 1
      BY <2>3 DEF FaultUnless, Faulty
    <3> QED BY <1>0, <3>1 DEF TypeOK
  <2> HIDE DEF fresh
  <2>8. /\ handler' = None
        /\ UNCHANGED <<load, mail, net, alive, bounced>>
    BY <1>2 DEF Inject
  <2> QED BY <1>0, <2>3, <2>4, <2>5, <2>6, <2>7, <2>8 DEF TypeOK
<1>3. ASSUME NEW r \in Runner, Sweep(r) PROVE TypeOK'
  <2> DEFINE f == [mark.expires EXCEPT ![r] = @ + Concurrency]
  <2>1. f \in [Runner -> Nat]
    BY <1>0, NumberAssumption DEF TypeOK
  <2>2. mark' = [mark EXCEPT !.expires = f] \/ mark' = mark
    BY <1>3 DEF Sweep
  <2> HIDE DEF f
  <2>3. mark' \in MarkType
    BY <1>0, <2>1, <2>2, TypeParts, MarkTypes
  <2>4. faults' = faults \/ faults' = faults + 1
    BY <1>3 DEF Sweep, FaultUnless, Faulty
  <2>5. faults' \in Nat
    BY <1>0, <2>4 DEF TypeOK
  <2>6. present' \subseteq Runner /\ untracked' \subseteq Runner
    <3>1. present' = present \ {r} /\ (untracked' = untracked \/ untracked' = untracked \cup {r})
      BY <1>3 DEF Sweep
    <3> QED BY <1>0, <3>1 DEF TypeOK
  <2>7. UNCHANGED <<load, mail, net, handler, alive, minted, bounced>>
    BY <1>3 DEF Sweep
  <2> QED BY <1>0, <2>3, <2>5, <2>6, <2>7, TypeParts DEF TypeOK
<1>4. ASSUME Restart PROVE TypeOK'
  BY <1>0, <1>4 DEF TypeOK, Restart, Faulty
<1>5. ASSUME Repair PROVE TypeOK'
  <2> DEFINE rel == [c \in Claimant |->
                       IF Gone(c) /\ \E h \in mark.inUse : h.by = c
                       THEN mark.releases[c] + 1 ELSE mark.releases[c]]
  <2>1. rel \in [Claimant -> Nat]
    BY <1>0 DEF TypeOK
  <2>2. mark' = [mark EXCEPT !.releases = rel]
    BY <1>5 DEF Repair
  <2> HIDE DEF rel
  <2>3. mark' \in MarkType
    BY <1>0, <2>1, <2>2, TypeParts, MarkTypes
  <2>4. /\ faults' = faults + 1 /\ present' = {} /\ untracked' = untracked \cup present
        /\ UNCHANGED <<load, mail, net, handler, alive, minted, bounced>>
    BY <1>5 DEF Repair, Faulty
  <2> QED BY <1>0, <2>3, <2>4, TypeParts DEF TypeOK
<1>6. ASSUME NEW r \in Runner, RunnerDies(r) PROVE TypeOK'
  BY <1>0, <1>6 DEF TypeOK, RunnerDies, Faulty
<1> QED BY <1>1, <1>2, <1>3, <1>4, <1>5, <1>6 DEF ControllerNext

-----------------------------------------------------------------------------
(***************************************************************************)
(* The invariant, and what follows from it.                                *)
(***************************************************************************)
LEMMA SeparateIsOnePlace == Separate => UnitInOnePlace
<1> SUFFICES ASSUME Separate PROVE UnitInOnePlace
  OBVIOUS
<1> DEFINE place == <<mark.acquires, mark.pool, UnitsOf(mail.grants), UnitsOf(mark.regs),
                      UnitsOf(mark.inUse), bounced>>
<1>1. DOMAIN place = 1..6
  OBVIOUS
<1>2. ASSUME NEW i \in 1..6, NEW j \in 1..6, i # j PROVE place[i] \cap place[j] = {}
  <2>1. i \in {1, 2, 3, 4, 5, 6} /\ j \in {1, 2, 3, 4, 5, 6}
    OBVIOUS
  <2> QED BY <1>2, <2>1 DEF Separate
<1>3. \A i, j \in DOMAIN place : i # j => place[i] \cap place[j] = {}
  BY <1>1, <1>2
<1> QED BY <1>3 DEF UnitInOnePlace, Separate

LEMMA InitPInv == Init => PInv
<1> SUFFICES ASSUME Init PROVE PInv
  OBVIOUS
<1>1. Seeds \subseteq Unit /\ \A u \in Seeds : u.owner = None
  BY NumberAssumption DEF Seeds, Unit
<1>2. /\ mark.pool = Seeds \/ mark.pool = {}
      /\ mark.acquires = {} /\ mark.regs = {} /\ mark.inUse = {}
      /\ mail.grants = {} /\ bounced = {}
  BY DEF Init
<1>3. TypeOK
  <2>1. mark \in MarkType
    BY <1>1 DEF Init, MarkType
  <2>2. net \in NetType
    BY DEF Init, NetType
  <2> QED BY <2>1, <2>2 DEF Init, TypeOK, MarkType, NetType
<1>4. Separate
  BY <1>2 DEF Separate, UnitsOf, AtMostOnce
<1>5. AllUnits \subseteq Seeds
  BY <1>2 DEF AllUnits, UnitsOf
<1> QED BY <1>1, <1>3, <1>4, <1>5 DEF PInv, MintedSoFar

\* An action that leaves the places alone.
LEMMA QuietSteps ==
  ASSUME PInv,
         \/ \E c \in Claimant : \/ Claim(c) \/ Finish(c) \/ Teardown(c) \/ LeaseFailed(c)
                                \/ LeaseAbort(c) \/ PostOffer(c) \/ Withdraw(c)
                                \/ \E r \in Runner : ClaimTask(c, r)
         \/ \E r \in Runner : Heartbeat(r) \/ Sweep(r) \/ RunnerDies(r)
         \/ Restart \/ Repair
  PROVE  UNCHANGED places
<1> USE DEF places, history, controller, poolVars
<1>0. mark \in MarkType
  BY TypeParts DEF PInv
<1>1. ASSUME NEW c \in Claimant,
             \/ Claim(c) \/ Finish(c) \/ LeaseFailed(c)
             \/ LeaseAbort(c) \/ PostOffer(c) \/ Withdraw(c)
             \/ \E r \in Runner : ClaimTask(c, r)
      PROVE UNCHANGED places
  BY <1>0, <1>1 DEF PInv, TypeOK, MarkType, Claim, Finish, LeaseFailed, LeaseAbort, PostOffer,
                    Withdraw, ClaimTask
<1>2. ASSUME NEW c \in Claimant, Teardown(c) PROVE UNCHANGED places
  BY <1>0, <1>2 DEF MarkType, Teardown
<1>3. ASSUME NEW r \in Runner, Heartbeat(r) \/ RunnerDies(r) PROVE UNCHANGED places
  BY <1>3 DEF Heartbeat, RunnerDies
<1>4. ASSUME NEW r \in Runner, Sweep(r) PROVE UNCHANGED places
  BY <1>0, <1>4 DEF MarkType, Sweep
<1>5. ASSUME Restart \/ Repair PROVE UNCHANGED places
  BY <1>0, <1>5 DEF MarkType, Restart, Repair
<1> QED BY <1>1, <1>2, <1>3, <1>4, <1>5

LEMMA NextPInv == PInv /\ [Next]_vars => PInv'
<1> SUFFICES ASSUME PInv, [Next]_vars PROVE PInv'
  OBVIOUS
<1>1. TypeOK'
  <2>1. CASE Next
    BY <2>1, StepTypes, PoolTypes, ControllerTypes DEF Next, System
  <2>2. CASE UNCHANGED vars
    BY <2>2 DEF PInv, TypeOK, vars, poolVars, controller, history
  <2> QED BY <2>1, <2>2
<1>2. Separate' /\ MintedSoFar'
  <2>1. CASE StepNext
    BY <2>1, QuietSteps, StillSeparate, AcquireSeparate, BounceSeparate DEF StepNext
  <2>2. CASE PoolNext
    <3>1. ASSUME NEW b \in mark.bids, NEW u \in mark.pool, ClaimOffer(b, u)
          PROVE  Separate' /\ MintedSoFar'
      <4>1. b[1] \in Claimant
        BY DEF PInv, TypeOK
      <4> QED BY <3>1, <4>1, GrantSeparate
    <3> QED BY <2>2, <3>1, QuietSteps, StillSeparate, GrantSeparate, ReleaseSeparate,
               RegisterSeparate, AdmitSeparate, ReapSeparate DEF PoolNext
  <2>3. CASE ControllerNext
    BY <2>3, QuietSteps, StillSeparate, InjectSeparate DEF ControllerNext
  <2>4. CASE Request
    BY <2>4, QuietSteps, StillSeparate DEF Request
  <2>5. CASE UNCHANGED vars
    <3>1. UNCHANGED places
      BY <2>5 DEF vars, poolVars, controller, history, places
    <3> QED BY <3>1, StillSeparate
  <2> QED BY <2>1, <2>2, <2>3, <2>4, <2>5 DEF Next, System
<1> QED BY <1>1, <1>2 DEF PInv

(***************************************************************************)
(* Type correctness of the pool, its steps and its controller.             *)
(***************************************************************************)
THEOREM PoolTypeCorrect == Spec => []TypeOK
<1>1. PInv => TypeOK
  BY DEF PInv
<1> QED BY <1>1, InitPInv, NextPInv, PTL DEF Spec

(***************************************************************************)
(* No order of grants, registrations, releases, admissions and reaps, and  *)
(* no fault, ever puts a unit of a pool into two places at a time, for     *)
(* every number of claimants, runners, slots, laps and faults.             *)
(***************************************************************************)
THEOREM UnitAlwaysInOnePlace == Spec => []UnitInOnePlace
<1>1. PInv => UnitInOnePlace
  BY SeparateIsOnePlace DEF PInv
<1> QED BY <1>1, InitPInv, NextPInv, PTL DEF Spec

-----------------------------------------------------------------------------
(***************************************************************************)
(* The units of a seeded pool.                                             *)
(***************************************************************************)
LEMMA InitSInv == Init => SInv
<1> SUFFICES ASSUME Init, load.source = "seeded"
             PROVE  alive = {} /\ handler = None /\ mark.acquires = {} /\ AllUnits = Seeds
  BY DEF SInv
<1>1. /\ mark.pool = Seeds /\ mark.acquires = {} /\ mark.regs = {} /\ mark.inUse = {}
      /\ mail.grants = {} /\ bounced = {}
  BY DEF Init
<1>2. AllUnits = Seeds
  BY <1>1 DEF AllUnits, UnitsOf
<1> QED BY <1>1, <1>2 DEF Init

\* Without a live runner there is no heartbeat, and nobody comes alive.
LEMMA NoHeartbeat ==
  ASSUME [Next]_vars
  PROVE  load' = load /\ alive' \subseteq alive
            /\ (alive = {} /\ handler = None => handler' = None)
<1> USE DEF history, controller, poolVars
<1>1. CASE StepNext
  BY <1>1 DEF StepNext, Finish, Teardown, LeaseFailed, LeaseAbort, Acquire, Bounce
<1>2. CASE PoolNext
  BY <1>2 DEF PoolNext, PostOffer, Withdraw, Grant, Release, ClaimOffer, Register, AdmitUnit,
              ReapFree, ReapHeld
<1>3. CASE ControllerNext
  BY <1>3 DEF ControllerNext, Heartbeat, Sweep, RunnerDies, Inject, Restart, Repair
<1>4. CASE Request
  BY <1>4 DEF Request, Claim, ClaimTask
<1>5. CASE UNCHANGED vars
  BY <1>5 DEF vars
<1> QED BY <1>1, <1>2, <1>3, <1>4, <1>5 DEF Next, System

\* A seeded unit is nobody's, so no expire signal finds one.
LEMMA NeverReaped ==
  ASSUME SInv, load.source = "seeded", NEW r \in Runner
  PROVE  /\ \A u \in mark.pool : ~ReapFree(r, u)
         /\ \A h \in mark.inUse : ~ReapHeld(r, h)
<1>1. \A u \in AllUnits : u.owner # r
  <2>1. \A u \in Seeds : u.owner = None
    BY DEF Seeds
  <2>2. AllUnits = Seeds /\ r # None
    BY NoneAssumption DEF SInv
  <2> QED BY <2>1, <2>2
<1>2. mark.pool \subseteq AllUnits /\ \A h \in mark.inUse : h.unit \in AllUnits
  BY DEF AllUnits, UnitsOf
<1> QED BY <1>1, <1>2 DEF ReapFree, ReapHeld

LEMMA NextSInv == PInv /\ SInv /\ [Next]_vars => SInv'
<1> SUFFICES ASSUME PInv, SInv, [Next]_vars, load.source = "seeded"
             PROVE  /\ alive' = {} /\ handler' = None /\ mark'.acquires = {}
                    /\ AllUnits' = Seeds
  BY NoHeartbeat DEF SInv
<1>1. alive' = {} /\ handler' = None
  BY NoHeartbeat DEF SInv
<1>2. Conserved
  <2>1. CASE StepNext
    BY <2>1, QuietSteps, StillSeparate, AcquireSeparate, BounceSeparate DEF StepNext
  <2>2. CASE PoolNext
    <3>1. ASSUME NEW b \in mark.bids, NEW u \in mark.pool, ClaimOffer(b, u) PROVE Conserved
      <4>1. b[1] \in Claimant
        BY DEF PInv, TypeOK
      <4> QED BY <3>1, <4>1, GrantSeparate
    <3> QED BY <2>2, <3>1, NeverReaped, QuietSteps, StillSeparate, GrantSeparate,
               ReleaseSeparate, RegisterSeparate, AdmitSeparate DEF PoolNext
  <2>3. CASE ControllerNext
    <3>1. ~Inject
      BY DEF SInv, Inject
    <3> QED BY <2>3, <3>1, QuietSteps, StillSeparate DEF ControllerNext
  <2>4. CASE Request
    BY <2>4, QuietSteps, StillSeparate DEF Request
  <2>5. CASE UNCHANGED vars
    <3>1. UNCHANGED places
      BY <2>5 DEF vars, poolVars, controller, history, places
    <3> QED BY <3>1, StillSeparate
  <2> QED BY <2>1, <2>2, <2>3, <2>4, <2>5 DEF Next, System
<1> QED BY <1>1, <1>2 DEF SInv, Conserved

(***************************************************************************)
(* A seeded pool never loses a unit to a release, a finalizer, a repair or *)
(* a reordering of messages: every one is free, on its way, held, or in a  *)
(* grant that was dead-lettered, for every capacity and number of steps.   *)
(***************************************************************************)
THEOREM NoUnitEverLost == Spec => []NoUnitLost
<1>1. SInv => NoUnitLost
  BY DEF SInv, NoUnitLost, AllUnits
<1>2. Init => PInv /\ SInv
  BY InitPInv, InitSInv
<1>3. PInv /\ SInv /\ [Next]_vars => (PInv /\ SInv)'
  BY NextPInv, NextSInv
<1> QED BY <1>1, <1>2, <1>3, PTL DEF Spec
-----------------------------------------------------------------------------
(***************************************************************************)
(* A body in its first lap keeps its unit until it is told of the loss.    *)
(***************************************************************************)
Holds == mark.regs \cup mark.inUse

\* The claimants the pool has a claim, an offer, a grant or a hold of.
Involved == mark.claims \cup mark.offers \cup {h.by : h \in mail.grants \cup Holds}

\* A step that was never entered has left nothing in the pool.
NotYet ==
    \A c \in Claimant :
        net[c].lap = 0 => net[c].at = "idle" /\ c \notin Involved /\ mark.releases[c] = 0

\* Until a step ends for the first time nobody releases under its grant id.
FirstLap ==
    \A c \in Claimant :
        net[c].lap = 1 /\ net[c].at \in {"pending", "held"} => mark.releases[c] = 0

\* The bodies of a first lap.
Newcomers == {c \in Claimant : net[c].at = "held" /\ net[c].lap = 1}

\* The unit such a body runs on is its own hold's, or was reaped: then it is
\* nowhere, and being minted already it never comes back.
Owned ==
    \A c \in Newcomers :
        /\ net[c].unit \in Unit
        /\ net[c].unit.owner # None => net[c].unit.n <= minted[net[c].unit.owner]
        /\ net[c].unit \in AllUnits => [by |-> c, unit |-> net[c].unit] \in Holds

FInv == NotYet /\ FirstLap /\ Owned /\ LossNotified /\ UnitExclusive

LEMMA InitFInv == Init => FInv
<1> SUFFICES ASSUME Init PROVE FInv
  OBVIOUS
<1>1. \A c \in Claimant : net[c].at = "idle" /\ net[c].lap = 0 /\ mark.releases[c] = 0
  BY DEF Init
<1>2. Involved = {}
  BY DEF Init, Involved, Holds
<1> QED BY <1>1, <1>2 DEF FInv, NotYet, FirstLap, Owned, Newcomers, LossNotified, UnitExclusive

\* What a step that neither enters a step nor hands over a unit must show.
LEMMA Unmoved ==
  ASSUME PInv, FInv, TypeOK',
         \A d \in Claimant :
            \/ net'[d] = net[d]
            \/ net'[d] = [net[d] EXCEPT !.lost = TRUE]
            \/ net'[d].at \in {"idle", "dead"} /\ net'[d].lap > 0,
         \A d \in Claimant :
            \/ mark'.releases[d] <= mark.releases[d]
            \/ net'[d].at \in {"idle", "dead"} /\ net'[d].lap > 0,
         Involved' \subseteq Involved,
         \A u \in AllUnits' :
            u \in AllUnits \/ (u.owner # None /\ u.n > minted[u.owner]),
         \A r \in Runner : minted[r] <= minted'[r],
         \A d \in Newcomers, h \in Holds :
            \/ h.by # d
            \/ h \in Holds'
            \/ d \in mail'.notices /\ h.unit \notin AllUnits',
         \A d \in mail.notices : d \in mail'.notices \/ net'[d].lost
  PROVE  FInv'
<1>0. /\ \A d \in Claimant : net[d] \in [at : {"idle", "pending", "held", "dead"},
                             unit : Unit \cup {None}, lost : BOOLEAN, lap : Nat]
      /\ \A d \in Claimant : mark.releases[d] \in Nat /\ mark'.releases[d] \in Nat
      /\ \A r \in Runner : minted[r] \in Nat /\ minted'[r] \in Nat
  BY DEF PInv, TypeOK
<1>1. \A d \in Claimant : net'[d].at \in {"pending", "held"} =>
         /\ net'[d].at = net[d].at /\ net'[d].lap = net[d].lap /\ net'[d].unit = net[d].unit
         /\ net[d].lost => net'[d].lost
  <2> SUFFICES ASSUME NEW d \in Claimant, net'[d].at \in {"pending", "held"}
               PROVE  /\ net'[d].at = net[d].at /\ net'[d].lap = net[d].lap
                      /\ net'[d].unit = net[d].unit /\ (net[d].lost => net'[d].lost)
    OBVIOUS
  <2>1. CASE net'[d] = net[d]
    BY <2>1
  <2>2. CASE net'[d] = [net[d] EXCEPT !.lost = TRUE]
    <3>1. net'[d].lost = TRUE /\ net'[d].at = net[d].at /\ net'[d].lap = net[d].lap
             /\ net'[d].unit = net[d].unit
      BY <1>0, <2>2
    <3> QED BY <3>1
  <2> QED BY <2>1, <2>2
<1>2. \A d \in Claimant : net'[d].lap = 0 =>
         net'[d].at = net[d].at /\ net'[d].lap = net[d].lap
  <2> SUFFICES ASSUME NEW d \in Claimant, net'[d].lap = 0
               PROVE  net'[d].at = net[d].at /\ net'[d].lap = net[d].lap
    OBVIOUS
  <2>1. CASE net'[d] = net[d]
    BY <2>1
  <2>2. CASE net'[d] = [net[d] EXCEPT !.lost = TRUE]
    BY <1>0, <2>2
  <2> QED BY <2>1, <2>2
<1>3. NotYet'
  <2> SUFFICES ASSUME NEW d \in Claimant, net'[d].lap = 0
               PROVE  net'[d].at = "idle" /\ d \notin Involved' /\ mark'.releases[d] = 0
    BY DEF NotYet
  <2>1. net[d].at = "idle" /\ d \notin Involved /\ mark.releases[d] = 0
    BY <1>2 DEF FInv, NotYet
  <2> QED BY <1>0, <1>2, <2>1
<1>4. FirstLap'
  <2> SUFFICES ASSUME NEW d \in Claimant, net'[d].lap = 1, net'[d].at \in {"pending", "held"}
               PROVE  mark'.releases[d] = 0
    BY DEF FirstLap
  <2>1. mark.releases[d] = 0
    BY <1>1 DEF FInv, FirstLap
  <2> QED BY <1>0, <2>1
<1>5. Newcomers' \subseteq Newcomers
  BY <1>1 DEF Newcomers
<1>6. \A d \in Newcomers' : net'[d].unit = net[d].unit
  BY <1>1 DEF Newcomers
<1>7. Owned'
  <2> SUFFICES ASSUME NEW d \in Newcomers'
               PROVE  /\ net'[d].unit \in Unit
                      /\ net'[d].unit.owner # None =>
                            net'[d].unit.n <= minted'[net'[d].unit.owner]
                      /\ net'[d].unit \in AllUnits' =>
                            [by |-> d, unit |-> net'[d].unit] \in Holds'
    BY DEF Owned
  <2> DEFINE u == net[d].unit
             h == [by |-> d, unit |-> u]
  <2>1. /\ u \in Unit /\ (u.owner # None => u.n <= minted[u.owner])
        /\ u \in AllUnits => h \in Holds
    BY <1>5 DEF FInv, Owned
  <2>2. u.n \in Nat /\ u.owner \in Runner \cup {None}
    BY <2>1 DEF Unit
  <2>3. u.owner # None => u.n <= minted'[u.owner]
    BY <1>0, <2>1, <2>2
  <2>4. h.by = d /\ h.unit = u
    OBVIOUS
  <2> HIDE DEF u, h
  <2>5. u \in AllUnits' => u \in AllUnits
    BY <1>0, <2>1, <2>2
  <2>6. u \in AllUnits' => h \in Holds'
    BY <1>5, <2>1, <2>4, <2>5
  <2> QED BY <1>6, <2>1, <2>3, <2>6 DEF u, h
<1>8. LossNotified'
  <2> SUFFICES ASSUME NEW d \in Claimant, net'[d].at = "held", net'[d].lap = 1
               PROVE  \/ [by |-> d, unit |-> net'[d].unit] \in mark'.regs \cup mark'.inUse
                      \/ d \in mail'.notices \/ net'[d].lost
    BY DEF LossNotified
  <2> DEFINE h == [by |-> d, unit |-> net[d].unit]
  <2>1. d \in Newcomers /\ net'[d].unit = net[d].unit /\ (net[d].lost => net'[d].lost)
    BY <1>1 DEF Newcomers
  <2>2. h.by = d
    OBVIOUS
  <2>3. h \in Holds \/ d \in mail.notices \/ net[d].lost
    BY <2>1 DEF FInv, LossNotified, Holds, Newcomers
  <2> HIDE DEF h
  <2>4. h \in Holds' \/ d \in mail'.notices \/ net'[d].lost
    BY <2>1, <2>2, <2>3
  <2> QED BY <2>1, <2>4 DEF h, Holds
<1>9. UnitExclusive'
  BY <1>1 DEF FInv, UnitExclusive
<1> QED BY <1>3, <1>4, <1>7, <1>8, <1>9 DEF FInv

\* The step is entered: no release of its grant id is under way.
LEMMA ClaimFInv ==
  ASSUME PInv, FInv, TypeOK', NEW c \in Claimant, Claim(c)
  PROVE  FInv'
<1>0. net \in NetType /\ mark \in MarkType
  BY TypeParts DEF PInv
<1>1. /\ net[c].at = "idle" /\ net'[c].at = "pending" /\ net'[c].lap = net[c].lap + 1
      /\ \A d \in Claimant : d # c => net'[d] = net[d]
  BY <1>0 DEF Claim, NetType
<1>2. /\ mark'.releases = mark.releases /\ Holds' = Holds /\ mail' = mail /\ minted' = minted
      /\ Involved' \subseteq Involved \cup {c} /\ AllUnits' = AllUnits
  BY <1>0 DEF Claim, MarkType, Holds, Involved, AllUnits, UnitsOf, controller, history
<1>3. net[c].lap \in Nat
  BY <1>0 DEF NetType
<1>4. NotYet'
  BY <1>1, <1>2, <1>3 DEF FInv, NotYet
<1>5. FirstLap'
  BY <1>1, <1>2, <1>3 DEF FInv, NotYet, FirstLap
<1>6. Newcomers' \subseteq Newcomers /\ \A d \in Newcomers' : net'[d] = net[d]
  BY <1>1 DEF Newcomers
<1>7. Owned'
  BY <1>2, <1>6 DEF FInv, Owned
<1>8. LossNotified'
  BY <1>1, <1>2 DEF FInv, LossNotified, Holds
<1>9. UnitExclusive'
  BY <1>1 DEF FInv, UnitExclusive
<1> QED BY <1>4, <1>5, <1>7, <1>8, <1>9 DEF FInv

\* The grant's unit is in no hold, so no other newcomer runs on it.
LEMMA AcquireFInv ==
  ASSUME PInv, FInv, TypeOK', NEW g \in mail.grants, Acquire(g)
  PROVE  FInv'
<1> DEFINE c == g.by
<1>0. net \in NetType /\ mark \in MarkType /\ mail \in [grants : SUBSET Hold, notices : SUBSET Claimant]
  BY TypeParts DEF PInv, TypeOK
<1>1. c \in Claimant /\ g.unit \in Unit /\ g \in Hold
  BY UnitTypes DEF PInv
<1>2. /\ net[c].at = "pending" /\ net'[c].at = "held" /\ net'[c].lap = net[c].lap
      /\ net'[c].unit = g.unit
      /\ \A d \in Claimant : d # c => net'[d] = net[d]
  BY <1>0, <1>1 DEF Acquire, NetType
<1>3. /\ mark'.releases = mark.releases /\ Holds' = Holds \cup {g}
      /\ mail'.notices = mail.notices /\ minted' = minted
      /\ mark'.claims = mark.claims /\ mark'.offers = mark.offers
      /\ mail'.grants \subseteq mail.grants
  BY <1>0 DEF Acquire, MarkType, Holds, controller, history
<1>4. Involved' \subseteq Involved
  BY <1>3 DEF Involved, Holds
<1>5. AllUnits' = AllUnits
  BY AcquireSeparate DEF Conserved
<1>6. g.unit \in AllUnits /\ \A h \in Holds : h.unit # g.unit
  BY DEF PInv, Separate, AllUnits, UnitsOf, Holds
<1>7. g = [by |-> c, unit |-> g.unit]
  BY <1>1 DEF Hold
<1> HIDE DEF c
<1>8. NotYet'
  BY <1>2, <1>3, <1>4 DEF FInv, NotYet
<1>9. FirstLap'
  BY <1>2, <1>3 DEF FInv, FirstLap
<1>10. \A d \in Newcomers' : d = c \/ (d \in Newcomers /\ net'[d] = net[d])
  BY <1>2 DEF Newcomers
<1>11. g.unit.owner # None => g.unit.n <= minted[g.unit.owner]
  BY <1>6 DEF PInv, MintedSoFar
<1>12. Owned'
  <2>1. ASSUME NEW d \in Newcomers, net'[d] = net[d]
        PROVE /\ net'[d].unit \in Unit
              /\ net'[d].unit.owner # None => net'[d].unit.n <= minted'[net'[d].unit.owner]
              /\ net'[d].unit \in AllUnits' => [by |-> d, unit |-> net'[d].unit] \in Holds'
    BY <1>3, <1>5, <2>1 DEF FInv, Owned
  <2>2. /\ net'[c].unit \in Unit
        /\ net'[c].unit.owner # None => net'[c].unit.n <= minted'[net'[c].unit.owner]
        /\ [by |-> c, unit |-> net'[c].unit] \in Holds'
    BY <1>1, <1>2, <1>3, <1>7, <1>11
  <2> QED BY <1>10, <2>1, <2>2 DEF Owned
<1>13. LossNotified'
  <2>1. [by |-> c, unit |-> net'[c].unit] \in Holds'
    BY <1>2, <1>3, <1>7
  <2> QED BY <1>2, <1>3, <2>1 DEF FInv, LossNotified, Holds
<1>14. \A d \in Newcomers : d # c => net[d].unit # g.unit
  <2> SUFFICES ASSUME NEW d \in Newcomers, net[d].unit = g.unit PROVE FALSE
    OBVIOUS
  <2>1. [by |-> d, unit |-> g.unit] \in Holds
    BY <1>6 DEF FInv, Owned
  <2> QED BY <1>6, <2>1
<1>15. UnitExclusive'
  <2> SUFFICES ASSUME NEW d \in Claimant, NEW e \in Claimant,
                      net'[d].at = "held", net'[e].at = "held", net'[d].unit = net'[e].unit,
                      net'[d].lap = 1, net'[e].lap = 1
               PROVE  d = e
    BY DEF UnitExclusive
  <2>1. CASE d # c /\ e # c
    BY <1>2, <2>1 DEF FInv, UnitExclusive
  <2>2. d \in Newcomers' /\ e \in Newcomers'
    BY DEF Newcomers
  <2> QED BY <1>2, <1>10, <1>14, <2>1, <2>2
<1> QED BY <1>8, <1>9, <1>12, <1>13, <1>15 DEF FInv

\* A claimant that was involved has been entered.
LEMMA Entered ==
  ASSUME PInv, FInv, NEW c \in Claimant, c \in Involved \/ net[c].at # "idle"
  PROVE  net[c].lap > 0
<1>1. net[c].lap \in Nat
  BY DEF PInv, TypeOK
<1> QED BY <1>1 DEF FInv, NotYet

\* A body ends, is torn down or aborts, or a notice reaches it.
LEMMA StepFInv ==
  ASSUME PInv, FInv, TypeOK', NEW c \in Claimant,
         Finish(c) \/ Teardown(c) \/ LeaseFailed(c) \/ LeaseAbort(c)
  PROVE  FInv'
<1> USE DEF history, controller
<1>0. /\ net \in NetType /\ mark \in MarkType
      /\ mail \in [grants : SUBSET Hold, notices : SUBSET Claimant]
  BY TypeParts DEF PInv, TypeOK
<1>1. /\ mark'.claims = mark.claims /\ mark'.offers = mark.offers /\ Holds' = Holds
      /\ mail'.grants = mail.grants /\ minted' = minted
      /\ \A d \in Claimant : d # c => mark'.releases[d] = mark.releases[d]
  <2>1. CASE Finish(c)
    BY <1>0, <2>1 DEF Finish, MarkType, Holds
  <2>2. CASE Teardown(c)
    BY <1>0, <2>2 DEF Teardown, MarkType, Holds
  <2>3. CASE LeaseFailed(c) \/ LeaseAbort(c)
    BY <1>0, <2>3 DEF LeaseFailed, LeaseAbort, MarkType, Holds
  <2> QED BY <2>1, <2>2, <2>3
<1>2. Involved' = Involved
  BY <1>1 DEF Involved
<1>3. UNCHANGED places
  BY QuietSteps
<1>4. AllUnits' = AllUnits
  BY <1>3, StillSeparate DEF Conserved
<1>5. \A r \in Runner : minted[r] \in Nat /\ minted[r] <= minted'[r]
  BY <1>1 DEF PInv, TypeOK
<1>6. \A d \in Claimant : d # c => net'[d] = net[d]
  BY <1>0 DEF NetType, Finish, Teardown, LeaseFailed, LeaseAbort
<1>7. CASE LeaseFailed(c)
  <2>1. mark' = mark /\ mail'.notices = mail.notices \ {c}
    BY <1>0, <1>7 DEF LeaseFailed
  <2>2. net'[c] = [net[c] EXCEPT !.lost = TRUE] /\ net'[c].lost
    BY <1>0, <1>7 DEF LeaseFailed, NetType
  <2>3. \A d \in Claimant : mark'.releases[d] <= mark.releases[d]
    BY <1>0, <2>1 DEF MarkType
  <2> QED BY <1>0, <1>1, <1>2, <1>4, <1>5, <1>6, <2>1, <2>2, <2>3, Unmoved
<1>8. CASE ~LeaseFailed(c)
  <2>1. net[c].at # "idle" /\ net'[c].at \in {"idle", "dead"} /\ net'[c].lap = net[c].lap
    BY <1>0, <1>8 DEF NetType, Finish, Teardown, LeaseAbort
  <2>2. net'[c].lap > 0
    BY <2>1, Entered
  <2>3. mail' = mail
    BY <1>8 DEF Finish, Teardown, LeaseAbort
  <2>4. \A d \in Claimant : \/ mark'.releases[d] <= mark.releases[d]
                            \/ net'[d].at \in {"idle", "dead"} /\ net'[d].lap > 0
    BY <1>0, <1>1, <2>1, <2>2 DEF MarkType
  <2> QED BY <1>1, <1>2, <1>4, <1>5, <1>6, <2>1, <2>2, <2>3, <2>4, Unmoved
<1> QED BY <1>7, <1>8

\* The pool's own transitions, a dead-lettered grant, a bid.
LEMMA PoolFInv ==
  ASSUME PInv, FInv, TypeOK',
         \/ PoolNext
         \/ \E g \in mail.grants : Bounce(g)
         \/ \E c \in Claimant, r \in Runner : ClaimTask(c, r)
  PROVE  FInv'
<1> USE DEF history, controller
<1>0. /\ net \in NetType /\ mark \in MarkType
      /\ mail \in [grants : SUBSET Hold, notices : SUBSET Claimant]
      /\ \A d \in Claimant : mark.releases[d] \in Nat
      /\ \A r \in Runner : minted[r] \in Nat
  BY TypeParts DEF PInv, TypeOK
<1>1. net' = net /\ minted' = minted
  <2>1. CASE PoolNext
    BY <2>1 DEF PoolNext, PostOffer, Withdraw, Grant, Release, ClaimOffer, Register,
                AdmitUnit, ReapFree, ReapHeld
  <2> QED BY <2>1 DEF Bounce, ClaimTask
<1>2. \A r \in Runner : minted[r] <= minted'[r]
  BY <1>0, <1>1
<1>3. ASSUME mark'.releases = mark.releases, Involved' \subseteq Involved,
             AllUnits' \subseteq AllUnits, Holds \subseteq Holds', mail'.notices = mail.notices
      PROVE  FInv'
  <2>1. \A d \in Claimant : mark'.releases[d] <= mark.releases[d]
    BY <1>0, <1>3
  <2> QED BY <1>1, <1>2, <1>3, <2>1, Unmoved
<1>4. ASSUME NEW c \in Claimant, PostOffer(c) PROVE FInv'
  <2>1. /\ mark'.releases = mark.releases /\ Holds' = Holds /\ mail' = mail
        /\ mark'.claims \cup mark'.offers = mark.claims \cup mark.offers
    BY <1>0, <1>4 DEF PostOffer, MarkType, Holds
  <2>2. AllUnits' = AllUnits
    BY <1>4, QuietSteps, StillSeparate DEF Conserved
  <2> QED BY <1>3, <2>1, <2>2 DEF Involved
<1>5. ASSUME NEW c \in Claimant, Withdraw(c) \/ \E r \in Runner : ClaimTask(c, r) PROVE FInv'
  <2>1. /\ mark'.releases = mark.releases /\ Holds' = Holds /\ mail' = mail
        /\ mark'.claims \subseteq mark.claims /\ mark'.offers = mark.offers
    BY <1>0, <1>5 DEF Withdraw, ClaimTask, MarkType, Holds
  <2>2. AllUnits' = AllUnits
    BY <1>5, QuietSteps, StillSeparate DEF Conserved
  <2> QED BY <1>3, <2>1, <2>2 DEF Involved
<1>6. ASSUME NEW c \in Claimant, NEW u \in mark.pool,
             \/ Grant(c, u)
             \/ \E b \in mark.bids : b[1] = c /\ ClaimOffer(b, u)
      PROVE  FInv'
  <2> DEFINE g == [by |-> c, unit |-> u]
  <2>1. /\ mark'.releases = mark.releases /\ Holds' = Holds /\ mail'.notices = mail.notices
        /\ mail'.grants = mail.grants \cup {g}
        /\ mark'.claims \subseteq mark.claims /\ mark'.offers \subseteq mark.offers
        /\ c \in Involved /\ g.by = c
    <3>1. CASE Grant(c, u)
      BY <1>0, <3>1 DEF Grant, MarkType, Holds, Involved
    <3>2. ASSUME NEW b \in mark.bids, b[1] = c, ClaimOffer(b, u)
          PROVE  /\ mark'.releases = mark.releases /\ Holds' = Holds
                 /\ mail'.notices = mail.notices /\ mail'.grants = mail.grants \cup {g}
                 /\ mark'.claims \subseteq mark.claims /\ mark'.offers \subseteq mark.offers
                 /\ c \in Involved
      BY <1>0, <3>2 DEF ClaimOffer, MarkType, Holds, Involved
    <3> QED BY <1>6, <3>1, <3>2
  <2> HIDE DEF g
  <2>2. Involved' \subseteq Involved
    BY <2>1 DEF Involved
  <2>3. AllUnits' = AllUnits
    BY <1>6, GrantSeparate DEF Conserved
  <2> QED BY <1>3, <2>1, <2>2, <2>3
<1>7. ASSUME NEW b \in mark.bids, NEW u \in mark.pool, ClaimOffer(b, u) PROVE FInv'
  <2>1. b[1] \in Claimant
    BY DEF PInv, TypeOK
  <2> QED BY <1>6, <1>7, <2>1
<1>8. ASSUME NEW h \in mark.regs, Register(h) PROVE FInv'
  <2>1. /\ mark'.releases = mark.releases /\ Holds' = Holds /\ mail' = mail
        /\ mark'.claims = mark.claims /\ mark'.offers = mark.offers
    BY <1>0, <1>8 DEF Register, MarkType, Holds
  <2>2. AllUnits' = AllUnits
    BY <1>8, RegisterSeparate DEF Conserved
  <2> QED BY <1>3, <2>1, <2>2 DEF Involved
<1>9. ASSUME NEW u \in mark.acquires, AdmitUnit(u) PROVE FInv'
  <2>1. /\ mark'.releases = mark.releases /\ Holds' = Holds /\ mail' = mail
        /\ mark'.claims = mark.claims /\ mark'.offers = mark.offers
    BY <1>0, <1>9 DEF AdmitUnit, MarkType, Holds
  <2>2. AllUnits' = AllUnits
    BY <1>9, AdmitSeparate DEF Conserved
  <2> QED BY <1>3, <2>1, <2>2 DEF Involved
<1>10. ASSUME NEW g \in mail.grants, Bounce(g) PROVE FInv'
  <2>1. /\ mark' = mark /\ mail'.notices = mail.notices /\ mail'.grants \subseteq mail.grants
    BY <1>0, <1>10 DEF Bounce
  <2>2. AllUnits' = AllUnits
    BY <1>10, BounceSeparate DEF Conserved
  <2> QED BY <1>3, <2>1, <2>2 DEF Involved, Holds
<1>11. ASSUME NEW c \in Claimant, NEW h \in mark.inUse, Release(c, h) PROVE FInv'
  <2>1. /\ mark.releases[c] > 0 /\ h.by = c
        /\ \A d \in Claimant : mark'.releases[d] <= mark.releases[d]
        /\ Holds \subseteq Holds' \cup {h} /\ Holds' \subseteq Holds /\ mail' = mail
        /\ mark'.claims = mark.claims /\ mark'.offers = mark.offers
    BY <1>0, <1>11 DEF Release, MarkType, Holds
  <2>2. AllUnits' = AllUnits
    BY <1>11, ReleaseSeparate DEF Conserved
  <2>3. c \notin Newcomers
    BY <1>0, <2>1 DEF FInv, FirstLap, Newcomers
  <2>4. Involved' \subseteq Involved
    BY <2>1 DEF Involved
  <2> QED BY <1>1, <1>2, <2>1, <2>2, <2>3, <2>4, Unmoved
<1>12. ASSUME NEW r \in Runner, NEW u \in mark.pool, ReapFree(r, u) PROVE FInv'
  <2>1. /\ mark'.releases = mark.releases /\ Holds' = Holds /\ mail' = mail
        /\ mark'.claims = mark.claims /\ mark'.offers = mark.offers
        /\ mark'.acquires = mark.acquires /\ mark'.pool \subseteq mark.pool
        /\ mark'.regs = mark.regs /\ mark'.inUse = mark.inUse /\ bounced' = bounced
    BY <1>0, <1>12 DEF ReapFree, MarkType, Holds
  <2>2. AllUnits' \subseteq AllUnits
    BY <2>1 DEF AllUnits
  <2> QED BY <1>3, <2>1, <2>2 DEF Involved
<1>13. ASSUME NEW r \in Runner, NEW h \in mark.inUse, ReapHeld(r, h) PROVE FInv'
  <2>1. /\ mark'.releases = mark.releases
        /\ mail'.notices = mail.notices \cup {h.by} /\ mail'.grants = mail.grants
        /\ mark'.claims = mark.claims /\ mark'.offers = mark.offers
        /\ mark'.acquires = mark.acquires /\ mark'.pool = mark.pool
        /\ mark'.regs = mark.regs /\ mark'.inUse = mark.inUse \ {h} /\ bounced' = bounced
    BY <1>0, <1>13 DEF ReapHeld, MarkType
  <2>2. UnitsOf(mark'.inUse) = UnitsOf(mark.inUse) \ {h.unit} /\ h.unit \in UnitsOf(mark.inUse)
    BY <2>1, UnitsRemoved, HeldUnit DEF PInv, Separate
  <2>3. AllUnits' \subseteq AllUnits /\ h.unit \notin AllUnits'
    BY <2>1, <2>2 DEF AllUnits, PInv, Separate
  <2>4. Holds' \subseteq Holds /\ Holds \subseteq Holds' \cup {h}
    BY <2>1 DEF Holds
  <2>5. Involved' \subseteq Involved
    BY <2>1, <2>4 DEF Involved
  <2>6. \A d \in Claimant : mark'.releases[d] <= mark.releases[d]
    BY <1>0, <2>1
  <2> QED BY <1>1, <1>2, <2>1, <2>3, <2>4, <2>5, <2>6, Unmoved
<1> QED BY <1>4, <1>5, <1>6, <1>7, <1>8, <1>9, <1>10, <1>11, <1>12, <1>13 DEF PoolNext

\* The controller: what it mints is new, and repair releases for the gone only.
LEMMA ControllerFInv ==
  ASSUME PInv, FInv, TypeOK', ControllerNext
  PROVE  FInv'
<1> USE DEF history, controller, poolVars
<1>0. /\ net \in NetType /\ mark \in MarkType
      /\ \A d \in Claimant : mark.releases[d] \in Nat
      /\ \A r \in Runner : minted[r] \in Nat
  BY TypeParts DEF PInv, TypeOK
<1>1. net' = net /\ mail' = mail
  BY DEF ControllerNext, Heartbeat, Sweep, RunnerDies, Inject, Restart, Repair
<1>2. ASSUME NEW r \in Runner, Heartbeat(r) \/ Sweep(r) \/ RunnerDies(r) PROVE FInv'
  <2>1. /\ mark'.releases = mark.releases /\ Holds' = Holds /\ minted' = minted
        /\ mark'.claims = mark.claims /\ mark'.offers = mark.offers
    <3>1. CASE Sweep(r)
      BY <1>0, <3>1 DEF Sweep, MarkType, Holds
    <3> QED BY <1>2, <3>1 DEF Heartbeat, RunnerDies, Holds
  <2>2. AllUnits' = AllUnits
    BY <1>2, QuietSteps, StillSeparate DEF Conserved
  <2>3. Involved' = Involved
    BY <1>1, <2>1 DEF Involved
  <2>4. /\ \A d \in Claimant : mark'.releases[d] <= mark.releases[d]
        /\ \A q \in Runner : minted[q] <= minted'[q]
    BY <1>0, <2>1
  <2> QED BY <1>1, <2>1, <2>2, <2>3, <2>4, Unmoved
<1>3. ASSUME Restart PROVE FInv'
  <2>1. mark' = mark /\ minted' = minted /\ Holds' = Holds /\ Involved' = Involved
    BY <1>1, <1>3 DEF Restart, Holds, Involved
  <2>2. AllUnits' = AllUnits
    BY <1>3, QuietSteps, StillSeparate DEF Conserved
  <2>3. /\ \A d \in Claimant : mark'.releases[d] <= mark.releases[d]
        /\ \A q \in Runner : minted[q] <= minted'[q]
    BY <1>0, <2>1
  <2> QED BY <1>1, <2>1, <2>2, <2>3, Unmoved
<1>4. ASSUME Repair PROVE FInv'
  <2> DEFINE rel == [c \in Claimant |->
                       IF Gone(c) /\ \E h \in mark.inUse : h.by = c
                       THEN mark.releases[c] + 1 ELSE mark.releases[c]]
  <2>1. mark' = [mark EXCEPT !.releases = rel]
    BY <1>4 DEF Repair
  <2>2. ASSUME NEW d \in Claimant
        PROVE  rel[d] <= mark.releases[d] \/ (net[d].at \in {"idle", "dead"} /\ net[d].lap > 0)
    <3>1. CASE Gone(d) /\ \E h \in mark.inUse : h.by = d
      <4>1. d \in Involved
        BY <3>1 DEF Involved, Holds
      <4>2. net[d].lap > 0
        BY <4>1, Entered
      <4> QED BY <3>1, <4>2 DEF Gone
    <3>2. CASE ~(Gone(d) /\ \E h \in mark.inUse : h.by = d)
      BY <1>0, <3>2
    <3> QED BY <3>1, <3>2
  <2> HIDE DEF rel
  <2>3. /\ mark'.releases = rel /\ Holds' = Holds /\ minted' = minted
        /\ mark'.claims = mark.claims /\ mark'.offers = mark.offers
    BY <1>0, <1>4, <2>1 DEF MarkType, Holds, Repair
  <2>4. AllUnits' = AllUnits
    BY <1>4, QuietSteps, StillSeparate DEF Conserved
  <2>5. Involved' = Involved
    BY <1>1, <2>3 DEF Involved
  <2>6. \A q \in Runner : minted[q] <= minted'[q]
    BY <1>0, <2>3
  <2> QED BY <1>1, <2>2, <2>3, <2>4, <2>5, <2>6, Unmoved
<1>5. ASSUME Inject PROVE FInv'
  <2> DEFINE r == handler.runner
             fresh == [owner : {r}, n : minted[r] + 1 .. minted[r] + handler.need]
  <2>1. r \in Runner /\ handler.need \in Nat /\ minted[r] \in Nat /\ r # None
    BY <1>5, NoneAssumption DEF Inject, PInv, TypeOK
  <2>2. PICK published \in {fresh, {}} : mark' = [mark EXCEPT !.acquires = @ \cup published]
    BY <1>5 DEF Inject
  <2>3. \A u \in published : u.owner = r /\ u.n > minted[r]
    <3>1. \A u \in fresh : u.owner = r /\ u.n \in minted[r] + 1 .. minted[r] + handler.need
      OBVIOUS
    <3>2. \A u \in fresh : u.owner = r /\ u.n > minted[r]
      BY <2>1, <3>1
    <3> HIDE DEF fresh
    <3> QED BY <2>2, <3>2
  <2>4. minted' = [minted EXCEPT ![r] = @ + handler.need]
    BY <1>5 DEF Inject
  <2>5. \A q \in Runner : minted[q] <= minted'[q]
    BY <1>0, <2>1, <2>4 DEF PInv, TypeOK
  <2> HIDE DEF fresh, r
  <2>6. /\ mark'.releases = mark.releases /\ Holds' = Holds
        /\ mark'.claims = mark.claims /\ mark'.offers = mark.offers
        /\ mark'.acquires = mark.acquires \cup published /\ mark'.pool = mark.pool
        /\ mark'.regs = mark.regs /\ mark'.inUse = mark.inUse
    BY <1>0, <2>2 DEF MarkType, Holds
  <2>7. bounced' = bounced
    BY <1>5 DEF Inject
  <2>8. AllUnits' = AllUnits \cup published
    BY <1>1, <2>6, <2>7 DEF AllUnits
  <2>9. \A u \in AllUnits' : u \in AllUnits \/ (u.owner # None /\ u.n > minted[u.owner])
    BY <2>1, <2>3, <2>8
  <2>10. Involved' = Involved
    BY <1>1, <2>6 DEF Involved
  <2>11. \A d \in Claimant : mark'.releases[d] <= mark.releases[d]
    BY <1>0, <2>6
  <2> QED BY <1>1, <2>5, <2>6, <2>9, <2>10, <2>11, Unmoved
<1> QED BY <1>2, <1>3, <1>4, <1>5 DEF ControllerNext

LEMMA NextFInv == PInv /\ FInv /\ [Next]_vars => FInv'
<1> SUFFICES ASSUME PInv, FInv, [Next]_vars PROVE FInv'
  OBVIOUS
<1>1. TypeOK'
  BY NextPInv DEF PInv
<1>2. CASE Next
  BY <1>1, <1>2, StepFInv, AcquireFInv, PoolFInv, ControllerFInv, ClaimFInv
     DEF Next, System, StepNext, Request
<1>3. CASE UNCHANGED vars
  <2>1. /\ net' = net /\ mark' = mark /\ mail' = mail /\ minted' = minted /\ bounced' = bounced
    BY <1>3 DEF vars, poolVars, controller, history
  <2> QED BY <2>1 DEF FInv, NotYet, FirstLap, Owned, Newcomers, Holds, Involved, AllUnits,
                      UnitsOf, LossNotified, UnitExclusive
<1> QED BY <1>2, <1>3

LEMMA AlwaysFInv == Spec => [](PInv /\ FInv)
<1>1. Init => PInv /\ FInv
  BY InitPInv, InitFInv
<1>2. PInv /\ FInv /\ [Next]_vars => (PInv /\ FInv)'
  BY NextPInv, NextFInv
<1> QED BY <1>1, <1>2, PTL DEF Spec

(***************************************************************************)
(* Two steps that each entered their step once never run on the same unit, *)
(* for every number of steps, runners, slots and faults.                   *)
(***************************************************************************)
THEOREM UnitAlwaysExclusive == Spec => []UnitExclusive
<1>1. FInv => UnitExclusive
  BY DEF FInv
<1> QED BY <1>1, AlwaysFInv, PTL

(***************************************************************************)
(* A body whose hold was reaped is told of it: the notice is under way or  *)
(* has arrived, for every number of steps, runners, slots and faults.      *)
(***************************************************************************)
THEOREM LossAlwaysNotified == Spec => []LossNotified
<1>1. FInv => LossNotified
  BY DEF FInv
<1> QED BY <1>1, AlwaysFInv, PTL

-----------------------------------------------------------------------------
(***************************************************************************)
(* The bodies on a seeded pool, over the laps of a step: whichever lap's   *)
(* hold a release takes, the holds of a step are as many as its releases   *)
(* under way and its body together.                                        *)
(***************************************************************************)
HoldsBy == [c \in Claimant |-> {h \in Holds : h.by = c}]

Bodies == {c \in Claimant : net[c].at = "held"}

\* Their finalizers have run; repair may release for them once more.
Left == {c \in Claimant : Gone(c)}

Counted ==
    load.source = "seeded" =>
        /\ mail.notices = {}
        /\ \A c \in Claimant : net[c].lost = FALSE
        /\ \A c \in Claimant \ Left :
              /\ IsFiniteSet(HoldsBy[c])
              /\ Cardinality(HoldsBy[c]) = mark.releases[c] + (IF c \in Bodies THEN 1 ELSE 0)

LEMMA InitCounted == Init => Counted
<1> SUFFICES ASSUME Init, load.source = "seeded"
             PROVE  /\ mail.notices = {}
                    /\ \A c \in Claimant : net[c].lost = FALSE
                    /\ \A c \in Claimant \ Left :
                          /\ IsFiniteSet(HoldsBy[c])
                          /\ Cardinality(HoldsBy[c])
                                = mark.releases[c] + (IF c \in Bodies THEN 1 ELSE 0)
  BY DEF Counted
<1>1. \A c \in Claimant : HoldsBy[c] = {} /\ c \notin Bodies /\ mark.releases[c] = 0
  BY DEF Init, HoldsBy, Holds, Bodies
<1> QED BY SMTT(30), <1>1, FS_EmptySet DEF Init

\* What a step of a seeded pool must show.
LEMMA Tally ==
  ASSUME PInv, Counted, load.source = "seeded", load' = load,
         mail'.notices = {}, \A d \in Claimant : net'[d].lost = FALSE,
         \A d \in Claimant \ Left' :
            /\ d \notin Left
            /\ \/ /\ HoldsBy'[d] = HoldsBy[d] /\ mark'.releases[d] = mark.releases[d]
                  /\ d \in Bodies' <=> d \in Bodies
               \/ /\ \E g : g \notin HoldsBy[d] /\ HoldsBy'[d] = HoldsBy[d] \cup {g}
                  /\ mark'.releases[d] = mark.releases[d]
                  /\ d \in Bodies' /\ d \notin Bodies
               \/ /\ \E h \in HoldsBy[d] : HoldsBy'[d] = HoldsBy[d] \ {h}
                  /\ mark'.releases[d] = mark.releases[d] - 1
                  /\ d \in Bodies' <=> d \in Bodies
               \/ /\ HoldsBy'[d] = HoldsBy[d] /\ mark'.releases[d] = mark.releases[d] + 1
                  /\ d \in Bodies /\ d \notin Bodies'
  PROVE  Counted'
<1> SUFFICES ASSUME NEW d \in Claimant \ Left'
             PROVE  /\ IsFiniteSet(HoldsBy'[d])
                    /\ Cardinality(HoldsBy'[d])
                          = mark'.releases[d] + (IF d \in Bodies' THEN 1 ELSE 0)
  BY DEF Counted
<1>1. /\ IsFiniteSet(HoldsBy[d])
      /\ Cardinality(HoldsBy[d]) = mark.releases[d] + (IF d \in Bodies THEN 1 ELSE 0)
  BY DEF Counted
<1>2. mark.releases[d] \in Nat
  BY DEF PInv, TypeOK
<1>3. Cardinality(HoldsBy[d]) \in Nat
  BY <1>1, FS_CardinalityType
<1>4. CASE /\ HoldsBy'[d] = HoldsBy[d] /\ mark'.releases[d] = mark.releases[d]
           /\ d \in Bodies' <=> d \in Bodies
  BY <1>1, <1>4
<1>5. CASE /\ HoldsBy'[d] = HoldsBy[d] /\ mark'.releases[d] = mark.releases[d] + 1
           /\ d \in Bodies /\ d \notin Bodies'
  BY <1>1, <1>2, <1>5
<1>6. ASSUME NEW g, g \notin HoldsBy[d], HoldsBy'[d] = HoldsBy[d] \cup {g},
             mark'.releases[d] = mark.releases[d], d \in Bodies', d \notin Bodies
      PROVE  /\ IsFiniteSet(HoldsBy'[d])
             /\ Cardinality(HoldsBy'[d])
                   = mark'.releases[d] + (IF d \in Bodies' THEN 1 ELSE 0)
  <2>1. /\ IsFiniteSet(HoldsBy[d] \cup {g})
        /\ Cardinality(HoldsBy[d] \cup {g}) = Cardinality(HoldsBy[d]) + 1
    BY <1>1, <1>6, FS_AddElement
  <2> QED BY <1>1, <1>2, <1>6, <2>1
<1>7. ASSUME NEW h \in HoldsBy[d], HoldsBy'[d] = HoldsBy[d] \ {h},
             mark'.releases[d] = mark.releases[d] - 1, d \in Bodies' <=> d \in Bodies
      PROVE  /\ IsFiniteSet(HoldsBy'[d])
             /\ Cardinality(HoldsBy'[d])
                   = mark'.releases[d] + (IF d \in Bodies' THEN 1 ELSE 0)
  <2>1. /\ IsFiniteSet(HoldsBy[d] \ {h})
        /\ Cardinality(HoldsBy[d] \ {h}) = Cardinality(HoldsBy[d]) - 1
    BY <1>1, <1>7, FS_RemoveElement
  <2> QED BY <1>1, <1>2, <1>7, <2>1
<1> QED BY <1>4, <1>5, <1>6, <1>7

LEMMA NextCounted == PInv /\ SInv /\ Counted /\ [Next]_vars => Counted'
<1> SUFFICES ASSUME PInv, SInv, Counted, [Next]_vars, load.source = "seeded" PROVE Counted'
  BY NoHeartbeat DEF Counted
<1> USE DEF history, controller, poolVars
<1>0. /\ net \in NetType /\ mark \in MarkType
      /\ mail \in [grants : SUBSET Hold, notices : SUBSET Claimant]
      /\ load' = load /\ \A c \in Claimant : mark.releases[c] \in Nat
  BY TypeParts, NoHeartbeat DEF PInv, TypeOK
<1>1. mail.notices = {} /\ \A c \in Claimant : net[c].lost = FALSE
  BY DEF Counted
<1>2. ASSUME net' = net, mark'.releases = mark.releases, Holds' = Holds,
             mail'.notices = mail.notices
      PROVE  Counted'
  <2>1. Left' = Left /\ HoldsBy' = HoldsBy /\ Bodies' = Bodies
    BY <1>0, <1>2 DEF Left, Gone, HoldsBy, Bodies
  <2> QED BY <1>0, <1>1, <1>2, <2>1, Tally
<1>3. CASE UNCHANGED vars
  BY <1>2, <1>3 DEF vars, Holds
<1>4. ASSUME NEW c \in Claimant, Claim(c) PROVE Counted'
  <2>1. /\ net[c].at = "idle" /\ net[c].lap < load.laps[c] /\ net'[c].at = "pending"
        /\ net'[c].lost = net[c].lost
        /\ \A d \in Claimant : d # c => net'[d] = net[d]
    BY <1>0, <1>4 DEF Claim, NetType
  <2>2. mark'.releases = mark.releases /\ Holds' = Holds /\ mail' = mail
    BY <1>0, <1>4 DEF Claim, MarkType, Holds
  <2>3. load.laps[c] \in Nat /\ net[c].lap \in Nat
    BY <1>0, LoadAssumption DEF NetType, PInv, TypeOK
  <2>4. Left' = Left
    BY <1>0, <2>1, <2>3 DEF Left, Gone
  <2>5. Bodies' = Bodies /\ HoldsBy' = HoldsBy
    BY <2>1, <2>2 DEF Bodies, HoldsBy
  <2>6. \A d \in Claimant : net'[d].lost = FALSE
    BY <1>1, <2>1
  <2> QED BY <1>0, <1>1, <2>2, <2>4, <2>5, <2>6, Tally
<1>5. ASSUME NEW g \in mail.grants, Acquire(g) PROVE Counted'
  <2> DEFINE c == g.by
  <2>1. c \in Claimant
    BY UnitTypes DEF PInv
  <2>2. /\ net[c].at = "pending" /\ net'[c].at = "held" /\ net'[c].lost = net[c].lost
        /\ \A d \in Claimant : d # c => net'[d] = net[d]
    BY <1>0, <1>5, <2>1 DEF Acquire, NetType
  <2>3. mark'.releases = mark.releases /\ Holds' = Holds \cup {g} /\ mail'.notices = mail.notices
    BY <1>0, <1>5 DEF Acquire, MarkType, Holds
  <2>4. g \notin Holds
    BY DEF PInv, Separate, UnitsOf, Holds
  <2>5. /\ HoldsBy'[c] = HoldsBy[c] \cup {g} /\ g \notin HoldsBy[c]
        /\ \A d \in Claimant : d # c => HoldsBy'[d] = HoldsBy[d]
    BY <2>1, <2>3, <2>4 DEF HoldsBy
  <2> HIDE DEF c
  <2>6. Left' = Left /\ c \in Bodies' /\ c \notin Bodies
           /\ \A d \in Claimant : d # c => (d \in Bodies' <=> d \in Bodies)
    BY <1>0, <2>1, <2>2 DEF Left, Gone, Bodies
  <2>7. \A d \in Claimant : net'[d].lost = FALSE
    BY <1>1, <2>2
  <2> QED BY <1>0, <1>1, <2>1, <2>3, <2>5, <2>6, <2>7, Tally
<1>6. ASSUME NEW g \in mail.grants, Bounce(g) PROVE Counted'
  BY <1>0, <1>2, <1>6 DEF Bounce, Holds
<1>7. ASSUME NEW c \in Claimant, Finish(c) PROVE Counted'
  <2>1. /\ net[c].at = "held" /\ net'[c].at = "idle" /\ net'[c].lost = net[c].lost
        /\ \A d \in Claimant : d # c => net'[d] = net[d]
    BY <1>0, <1>7 DEF Finish, NetType
  <2>2. /\ mark'.releases[c] = mark.releases[c] + 1 /\ Holds' = Holds /\ mail' = mail
        /\ \A d \in Claimant : d # c => mark'.releases[d] = mark.releases[d]
    BY <1>0, <1>7 DEF Finish, MarkType, Holds
  <2>3. HoldsBy' = HoldsBy /\ c \in Bodies /\ c \notin Bodies' /\ c \notin Left
           /\ \A d \in Claimant : d # c => /\ d \in Bodies' <=> d \in Bodies
                                           /\ d \in Left' <=> d \in Left
    BY <1>0, <2>1, <2>2 DEF HoldsBy, Bodies, Left, Gone
  <2>4. \A d \in Claimant : net'[d].lost = FALSE
    BY <1>1, <2>1
  <2> QED BY <1>0, <1>1, <2>2, <2>3, <2>4, Tally
<1>8. ASSUME NEW c \in Claimant, Teardown(c) PROVE Counted'
  <2>1. /\ net'[c].at = "dead" /\ net'[c].lost = net[c].lost
        /\ \A d \in Claimant : d # c => net'[d] = net[d]
    BY <1>0, <1>8 DEF Teardown, NetType
  <2>2. /\ Holds' = Holds /\ mail' = mail
        /\ \A d \in Claimant : d # c => mark'.releases[d] = mark.releases[d]
    BY <1>0, <1>8 DEF Teardown, MarkType, Holds
  <2>3. HoldsBy' = HoldsBy /\ c \in Left'
           /\ \A d \in Claimant : d # c => /\ d \in Bodies' <=> d \in Bodies
                                           /\ d \in Left' <=> d \in Left
    BY <1>0, <2>1, <2>2 DEF HoldsBy, Bodies, Left, Gone
  <2>4. \A d \in Claimant : net'[d].lost = FALSE
    BY <1>1, <2>1
  <2> QED BY <1>0, <1>1, <2>2, <2>3, <2>4, Tally
<1>9. ASSUME NEW c \in Claimant, LeaseFailed(c) \/ LeaseAbort(c) PROVE Counted'
  BY <1>1, <1>9 DEF LeaseFailed, LeaseAbort
<1>10. ASSUME NEW c \in Claimant,
              \/ PostOffer(c) \/ Withdraw(c) \/ (\E r \in Runner : ClaimTask(c, r))
              \/ \E u \in mark.pool : Grant(c, u)
       PROVE Counted'
  <2>1. net' = net /\ mark'.releases = mark.releases /\ Holds' = Holds
            /\ mail'.notices = mail.notices
    BY <1>0, <1>10 DEF PostOffer, Withdraw, ClaimTask, Grant, MarkType, Holds
  <2> QED BY <1>2, <2>1
<1>11. ASSUME NEW b \in mark.bids, NEW u \in mark.pool, ClaimOffer(b, u) PROVE Counted'
  <2>1. net' = net /\ mark'.releases = mark.releases /\ Holds' = Holds
            /\ mail'.notices = mail.notices
    BY <1>0, <1>11 DEF ClaimOffer, MarkType, Holds
  <2> QED BY <1>2, <2>1
<1>12. ASSUME NEW c \in Claimant, NEW h \in mark.inUse, Release(c, h) PROVE Counted'
  <2>1. /\ net' = net /\ mail' = mail /\ h.by = c
        /\ mark'.releases[c] = mark.releases[c] - 1
        /\ \A d \in Claimant : d # c => mark'.releases[d] = mark.releases[d]
        /\ mark'.regs = mark.regs /\ mark'.inUse = mark.inUse \ {h}
    BY <1>0, <1>12 DEF Release, MarkType
  <2>2. h \in Holds /\ h \notin mark.regs
    BY DEF PInv, Separate, UnitsOf, Holds
  <2>3. Holds' = Holds \ {h}
    BY <2>1, <2>2 DEF Holds
  <2>4. /\ h \in HoldsBy[c] /\ HoldsBy'[c] = HoldsBy[c] \ {h}
        /\ \A d \in Claimant : d # c => HoldsBy'[d] = HoldsBy[d]
    BY <2>1, <2>2, <2>3 DEF HoldsBy
  <2>5. Left' = Left /\ Bodies' = Bodies
    BY <1>0, <2>1 DEF Left, Gone, Bodies
  <2> QED BY <1>0, <1>1, <2>1, <2>4, <2>5, Tally
<1>13. ASSUME NEW h \in mark.regs, Register(h) PROVE Counted'
  <2>1. net' = net /\ mark'.releases = mark.releases /\ Holds' = Holds
            /\ mail'.notices = mail.notices
    BY <1>0, <1>13 DEF Register, MarkType, Holds
  <2> QED BY <1>2, <2>1
<1>14. ASSUME NEW u \in mark.acquires, AdmitUnit(u) PROVE Counted'
  BY <1>14 DEF SInv
<1>15. CASE PoolNext
  BY <1>10, <1>11, <1>12, <1>13, <1>14, <1>15, NeverReaped DEF PoolNext
<1>16. ASSUME NEW r \in Runner, Heartbeat(r) \/ Sweep(r) \/ RunnerDies(r) PROVE Counted'
  <2>1. mark'.releases = mark.releases /\ Holds' = Holds
    <3>1. CASE Sweep(r)
      BY <1>0, <3>1 DEF Sweep, MarkType, Holds
    <3> QED BY <1>16, <3>1 DEF Heartbeat, RunnerDies, Holds
  <2>2. net' = net /\ mail' = mail
    BY <1>16 DEF Heartbeat, Sweep, RunnerDies
  <2> QED BY <1>2, <2>1, <2>2
<1>17. ASSUME Restart PROVE Counted'
  BY <1>2, <1>17 DEF Restart, Holds
<1>18. ASSUME Repair PROVE Counted'
  <2> DEFINE rel == [c \in Claimant |->
                       IF Gone(c) /\ \E h \in mark.inUse : h.by = c
                       THEN mark.releases[c] + 1 ELSE mark.releases[c]]
  <2>1. mark' = [mark EXCEPT !.releases = rel]
    BY <1>18 DEF Repair
  <2>2. \A d \in Claimant \ Left : rel[d] = mark.releases[d]
    BY DEF Left
  <2> HIDE DEF rel
  <2>3. mark'.releases = rel /\ Holds' = Holds
    BY <1>0, <2>1 DEF MarkType, Holds
  <2>4. net' = net /\ mail' = mail
    BY <1>18 DEF Repair
  <2>5. Left' = Left /\ HoldsBy' = HoldsBy /\ Bodies' = Bodies
    BY <1>0, <2>3, <2>4 DEF Left, Gone, HoldsBy, Bodies
  <2> QED BY <1>0, <1>1, <2>2, <2>3, <2>4, <2>5, Tally
<1>19. ~Inject
  BY DEF SInv, Inject
<1>20. CASE ControllerNext
  BY <1>16, <1>17, <1>18, <1>19, <1>20 DEF ControllerNext
<1> QED BY <1>3, <1>4, <1>5, <1>6, <1>7, <1>8, <1>9, <1>10, <1>15, <1>20
           DEF Next, System, StepNext, Request

\* Every body has a hold of its own, and every hold a seed of its own.
LEMMA CountedWithin == PInv /\ SInv /\ Counted => WithinCapacity
<1> SUFFICES ASSUME PInv, SInv, Counted, load.source = "seeded"
             PROVE  Cardinality(Bodies) <= Capacity
  BY DEF WithinCapacity, Bodies
<1> DEFINE f == [c \in Bodies |-> (CHOOSE h \in HoldsBy[c] : TRUE).unit.n]
           hold(c) == CHOOSE h \in HoldsBy[c] : TRUE
<1>1. ASSUME NEW c \in Bodies PROVE hold(c) \in Holds /\ hold(c).by = c
  <2>1. c \in Claimant \ Left
    BY DEF Bodies, Left, Gone
  <2>2. mark.releases[c] \in Nat
    BY <2>1 DEF PInv, TypeOK
  <2>3. IsFiniteSet(HoldsBy[c]) /\ Cardinality(HoldsBy[c]) = mark.releases[c] + 1
    BY <2>1 DEF Counted
  <2>4. HoldsBy[c] # {}
    BY <2>2, <2>3, FS_EmptySet
  <2>5. hold(c) \in HoldsBy[c]
    BY <2>4
  <2> HIDE DEF hold
  <2> QED BY <2>1, <2>5 DEF HoldsBy
<1>2. \A h \in Holds : h.unit \in Seeds
  BY DEF SInv, AllUnits, UnitsOf, Holds
<1>3. \A u \in Seeds : u.n \in 1..Capacity
  BY DEF Seeds
<1>4. \A u, v \in Seeds : u.n = v.n => u = v
  BY DEF Seeds
<1>5. \A g, h \in Holds : g.unit = h.unit => g = h
  BY DEF PInv, Separate, AtMostOnce, UnitsOf, Holds
<1>6. \A c \in Bodies : f[c] = hold(c).unit.n
  OBVIOUS
<1>7. DOMAIN f = Bodies /\ f \in [Bodies -> {f[c] : c \in Bodies}]
  OBVIOUS
<1> HIDE DEF f, hold
<1>8. \A c \in Bodies : f[c] \in 1..Capacity
  BY <1>1, <1>2, <1>3, <1>6
<1>9. \A c, d \in Bodies : f[c] = f[d] => c = d
  BY <1>1, <1>2, <1>4, <1>5, <1>6
<1>10. f \in Injection(Bodies, 1..Capacity)
  BY <1>7, <1>8, <1>9 DEF Injection, IsInjective
<1>11. IsFiniteSet(1..Capacity) /\ Cardinality(1..Capacity) = Capacity
  BY FS_Interval, NumberAssumption
<1> QED BY <1>10, <1>11, FS_Injection

(***************************************************************************)
(* No more bodies run on a seeded pool than it has units, for every        *)
(* capacity and every number of steps and laps, though the laps of a step  *)
(* share a grant id and repair may release a hold twice.                   *)
(***************************************************************************)
THEOREM AlwaysWithinCapacity == Spec => []WithinCapacity
<1>1. Init => PInv /\ SInv /\ Counted
  BY InitPInv, InitSInv, InitCounted
<1>2. PInv /\ SInv /\ Counted /\ [Next]_vars => (PInv /\ SInv /\ Counted)'
  BY NextPInv, NextSInv, NextCounted
<1> QED BY <1>1, <1>2, CountedWithin, PTL DEF Spec
=============================================================================
