---------------------- MODULE CompactConversion_proofs ----------------------
(***************************************************************************)
(* Mapped time never runs backwards within a clock generation, at any      *)
(* counter rate, and what a writer captures is refused by the reader's     *)
(* clock checks for its reference times alone; and of what is converted,   *)
(* in the order its packets are sorted into, flows share no id, async      *)
(* operations alternate and slices are bracketed, whatever a ring has lost *)
(* of the capture: theorems of CompactConversion.                          *)
(***************************************************************************)
EXTENDS CompactConversion, SequenceTheorems, FiniteSetTheorems, FunctionTheorems,
        WellFoundedInduction, TLAPS
----------------------------------------------------------------------------
(* Least and greatest members.                                              *)
LEMMA MinIs ==
  ASSUME NEW S \in SUBSET Nat, S # {}
  PROVE  Min(S) \in S /\ Min(S) \in Nat /\ \A y \in S : Min(S) <= y
<1> DEFINE less == {ss \in Nat \X Nat : ss[1] < ss[2]}
<1>1. IsWellFoundedOn(less, Nat)
  <2>1. less = OpToRel(<, Nat)
    BY DEF OpToRel
  <2> QED BY <2>1, NatLessThanWellFounded
<1> HIDE DEF less
<1>2. PICK x \in S : \A y \in S : ~(<<y, x>> \in less)
  BY <1>1, WFMin
<1>3. ASSUME NEW y \in S PROVE x <= y
  <2>1. <<y, x>> \notin less /\ x \in Nat /\ y \in Nat
    BY <1>2
  <2>2. y < x => <<y, x>> \in less
    BY <2>1 DEF less
  <2> QED BY <2>1, <2>2
<1>4. Min(S) \in S /\ \A y \in S : Min(S) <= y
  BY <1>3 DEF Min
<1> QED BY <1>4

LEMMA MaxIs ==
  ASSUME NEW n \in Nat, NEW S \in SUBSET (0..n), S # {}
  PROVE  Max(S) \in S /\ Max(S) \in Nat /\ \A y \in S : y <= Max(S)
<1> DEFINE T == {n - y : y \in S}
<1>0. \A y \in S : y \in Nat /\ y <= n /\ n - y \in Nat
  OBVIOUS
<1>1. T \in SUBSET Nat /\ T # {}
  BY <1>0
<1>2. Min(T) \in T /\ \A t \in T : Min(T) <= t
  BY <1>1, MinIs
<1>3. PICK x \in S : Min(T) = n - x
  BY <1>2
<1>4. \A y \in S : n - x <= n - y
  BY <1>2, <1>3
<1>5. \A y \in S : x >= y
  BY <1>0, <1>4
<1>6. Max(S) \in S /\ \A y \in S : Max(S) >= y
  BY <1>5 DEF Max
<1> QED BY <1>0, <1>6
----------------------------------------------------------------------------
(* Rounded division, the scale and interpolation.                           *)
LEMMA DivDef ==
  ASSUME NEW x \in Int, NEW d \in Nat \ {0}
  PROVE  x \div d \in Int /\ d * (x \div d) <= x /\ x < d * (x \div d) + d
OBVIOUS

LEMMA DivMonotone ==
  ASSUME NEW x \in Int, NEW y \in Int, NEW d \in Nat \ {0}, x <= y
  PROVE  x \div d <= y \div d
<1> DEFINE p == x \div d
           q == y \div d
<1>1. p \in Int /\ q \in Int /\ d * p <= x /\ y < d * q + d
  BY DivDef
<1> HIDE DEF p, q
<1>2. d * p < d * (q + 1)
  BY <1>1
<1>3. p < q + 1
  BY <1>1, <1>2
<1> QED BY <1>1, <1>3 DEF p, q

(* What is a multiple up to less than one half is rounded to it.            *)
LEMMA DivExact ==
  ASSUME NEW d \in Nat \ {0}, NEW n \in Int
  PROVE  (d * n + d \div 2) \div d = n
<1> DEFINE h == d \div 2
           q == (d * n + h) \div d
<1>1. h \in Int /\ 0 <= h /\ h < d
  OBVIOUS
<1>2. d * n + h \in Int
  BY <1>1
<1> HIDE DEF h
<1>3. q \in Int /\ d * q <= d * n + h /\ d * n + h < d * q + d
  BY <1>2, DivDef
<1> HIDE DEF q
<1>4. d * q < d * (n + 1) /\ d * n < d * (q + 1)
  BY <1>1, <1>3
<1>5. q < n + 1 /\ n < q + 1
  BY <1>3, <1>4
<1>6. q = n
  BY <1>3, <1>5
<1> QED BY <1>6 DEF q, h

LEMMA ScaleMonotone ==
  ASSUME NEW a \in Int, NEW b \in Int, a <= b
  PROVE  ScaleDelta(a) \in Int /\ ScaleDelta(b) \in Int /\ ScaleDelta(a) <= ScaleDelta(b)
<1> DEFINE h    == ScaleDen \div 2
           R(t) == (t * ScaleNum + h) \div ScaleDen
<1> USE ConversionAssumption
<1>1. h \in Nat
  OBVIOUS
<1>2. ASSUME NEW t \in Nat PROVE R(t) \in Int /\ t * ScaleNum + h \in Nat /\ R(t) >= 0
  <2>1. t * ScaleNum \in Nat
    OBVIOUS
  <2>2. t * ScaleNum + h \in Nat /\ 0 <= t * ScaleNum + h
    BY <1>1, <2>1
  <2> HIDE DEF h
  <2>3. R(t) \in Int /\ 0 \div ScaleDen <= R(t)
    BY <2>2, DivDef, DivMonotone
  <2>4. 0 \div ScaleDen = 0
    OBVIOUS
  <2> QED BY <2>2, <2>3, <2>4
<1>3. ASSUME NEW t \in Nat, NEW u \in Nat, t <= u PROVE R(t) <= R(u)
  <2>1. t * ScaleNum <= u * ScaleNum /\ t * ScaleNum \in Nat /\ u * ScaleNum \in Nat
    BY <1>3
  <2>2. t * ScaleNum + h <= u * ScaleNum + h
    BY <1>1, <2>1
  <2>3. t * ScaleNum + h \in Int /\ u * ScaleNum + h \in Int /\ ScaleDen \in Nat \ {0}
    BY <1>1, <2>1
  <2> HIDE DEF h
  <2> QED BY <2>2, <2>3, DivMonotone
<1>4. \A t \in Int : ScaleDelta(t) = IF t >= 0 THEN R(t) ELSE -R(-t)
  BY DEF ScaleDelta
<1> HIDE DEF R, h
<1>5. \A t \in Int : t < 0 => -t \in Nat
  OBVIOUS
<1>6. \A t \in Int : ScaleDelta(t) \in Int
  BY <1>2, <1>4, <1>5
<1>7. CASE a >= 0
  BY <1>3, <1>4, <1>6, <1>7
<1>8. CASE a < 0 /\ b >= 0
  BY <1>2, <1>4, <1>5, <1>6, <1>8
<1>9. CASE b < 0
  <2>1. R(-b) <= R(-a)
    BY <1>3, <1>9
  <2> QED BY <1>2, <1>4, <1>5, <1>6, <1>9, <2>1
<1> QED BY <1>7, <1>8, <1>9

LEMMA ScaleZero == ScaleDelta(0) = 0
<1>1. (ScaleDen * 0 + ScaleDen \div 2) \div ScaleDen = 0
  BY ConversionAssumption, DivExact
<1>2. 0 * ScaleNum = 0 /\ ScaleDen * 0 = 0
  BY ConversionAssumption
<1> QED BY <1>1, <1>2 DEF ScaleDelta
----------------------------------------------------------------------------
(* What the writer's rules say of a capture, or of a suffix of one.         *)
ItemKinds == {"slice", "sync"} \cup FlowKinds \cup AsyncKinds
ItemType == [kind : ItemKinds, generation : Nat, tick : Nat, duration : Nat,
             track : Tracks \cup {AnyTrack}, key : FlowKeys \cup AsyncKeys \cup {NoKey},
             reference : Nat]

Clocked(s) ==
  /\ s \in Seq(ItemType)
  /\ \A i \in DOMAIN s : s[i].duration <= s[i].tick
  /\ \A i, j \in DOMAIN s : i < j =>
       /\ s[i].generation <= s[j].generation
       /\ s[i].generation = s[j].generation =>
            /\ s[i].tick <= s[j].tick
            /\ IsSync(s[i]) /\ IsSync(s[j]) => s[i].tick < s[j].tick

(* Between two anchors time grows from the reference of the first to that   *)
(* of the second.                                                           *)
LEMMA InterpolatedMonotone ==
  ASSUME NEW p \in ItemType, NEW q \in ItemType,
         p.tick < q.tick, p.reference <= q.reference,
         NEW a \in Nat, NEW b \in Nat, p.tick <= a, a <= b, b <= q.tick
  PROVE  /\ Interpolated(p, q, a) \in Int /\ Interpolated(p, q, b) \in Int
         /\ p.reference <= Interpolated(p, q, a)
         /\ Interpolated(p, q, a) <= Interpolated(p, q, b)
         /\ Interpolated(p, q, b) <= q.reference
<1> DEFINE T == q.tick - p.tick
           D == q.reference - p.reference
           h == T \div 2
           x == a - p.tick
           y == b - p.tick
<1>1. /\ p.tick \in Nat /\ q.tick \in Nat /\ p.reference \in Nat /\ q.reference \in Nat
  BY DEF ItemType
<1>2. T \in Nat \ {0} /\ D \in Nat /\ x \in Nat /\ y \in Nat /\ x <= y /\ y <= T
  BY <1>1
<1>3. h \in Nat
  BY <1>2
<1>4. /\ Interpolated(p, q, a) = p.reference + (x * D + h) \div T
      /\ Interpolated(p, q, b) = p.reference + (y * D + h) \div T
  BY DEF Interpolated
<1>5. q.reference = p.reference + D
  BY <1>1
<1> HIDE DEF T, D, h, x, y
<1>6. /\ x * D \in Nat /\ y * D \in Nat /\ T * D \in Nat
      /\ 0 <= x * D /\ x * D <= y * D /\ y * D <= T * D
  BY <1>2
<1>7. /\ T * 0 + h \in Int /\ x * D + h \in Int /\ y * D + h \in Int /\ T * D + h \in Int
      /\ T * 0 + h <= x * D + h /\ x * D + h <= y * D + h /\ y * D + h <= T * D + h
  BY <1>2, <1>3, <1>6
<1>8. (T * 0 + h) \div T = 0 /\ (T * D + h) \div T = D
  BY <1>2, DivExact DEF h
<1>9. /\ (x * D + h) \div T \in Int /\ (y * D + h) \div T \in Int
      /\ 0 <= (x * D + h) \div T
      /\ (x * D + h) \div T <= (y * D + h) \div T
      /\ (y * D + h) \div T <= D
  BY <1>2, <1>7, <1>8, DivDef, DivMonotone
<1> QED BY <1>1, <1>2, <1>4, <1>5, <1>9

LEMMA ExtrapolatedMonotone ==
  ASSUME NEW p \in ItemType, NEW a \in Nat, NEW b \in Nat, a <= b
  PROVE  /\ Extrapolated(p, a) \in Int /\ Extrapolated(p, b) \in Int
         /\ Extrapolated(p, a) <= Extrapolated(p, b)
         /\ a <= p.tick => Extrapolated(p, a) <= p.reference
         /\ p.tick <= a => p.reference <= Extrapolated(p, a)
         /\ a = p.tick => Extrapolated(p, a) = p.reference
<1>1. p.tick \in Nat /\ p.reference \in Nat
  BY DEF ItemType
<1>2. /\ a - p.tick \in Int /\ b - p.tick \in Int /\ a - p.tick <= b - p.tick
      /\ a <= p.tick => a - p.tick <= 0
      /\ p.tick <= a => 0 <= a - p.tick
      /\ a = p.tick => a - p.tick = 0
  BY <1>1
<1>3. /\ ScaleDelta(a - p.tick) \in Int /\ ScaleDelta(b - p.tick) \in Int
      /\ ScaleDelta(a - p.tick) <= ScaleDelta(b - p.tick)
      /\ a <= p.tick => ScaleDelta(a - p.tick) <= 0
      /\ p.tick <= a => 0 <= ScaleDelta(a - p.tick)
      /\ a = p.tick => ScaleDelta(a - p.tick) = 0
  BY <1>2, ScaleMonotone, ScaleZero
<1> QED BY <1>1, <1>3 DEF Extrapolated
----------------------------------------------------------------------------
(* The anchors before and after a tick.                                     *)
Earlier(s, g, tick) == {i \in Anchors(s, g) : s[i].tick < tick}
Later(s, g, tick) == Anchors(s, g) \ Earlier(s, g, tick)

LEMMA AnchorsInOrder ==
  ASSUME NEW s, Clocked(s), ~ReferencesRunBack(s), NEW g
  PROVE  /\ Len(s) \in Nat /\ DOMAIN s = 1..Len(s) /\ Anchors(s, g) \subseteq DOMAIN s
         /\ \A i \in DOMAIN s : s[i] \in ItemType
         /\ \A i, j \in Anchors(s, g) : i < j =>
              s[i].tick < s[j].tick /\ s[i].reference <= s[j].reference
<1>1. s \in Seq(ItemType)
  BY DEF Clocked
<1>2. Len(s) \in Nat /\ DOMAIN s = 1..Len(s) /\ \A i \in DOMAIN s : s[i] \in ItemType
  BY <1>1, LenProperties, ElementOfSeq
<1>3. Anchors(s, g) \subseteq DOMAIN s
  BY DEF Anchors, Syncs, Of
<1>4. ASSUME NEW i \in Anchors(s, g), NEW j \in Anchors(s, g), i < j
      PROVE  s[i].tick < s[j].tick /\ s[i].reference <= s[j].reference
  <2>1. /\ i \in DOMAIN s /\ j \in DOMAIN s /\ IsSync(s[i]) /\ IsSync(s[j])
        /\ s[i].generation = s[j].generation
    BY DEF Anchors, Syncs, Of
  <2>2. s[i].tick < s[j].tick
    BY <1>4, <2>1 DEF Clocked
  <2>3. ~(s[j].reference < s[i].reference)
    BY <1>4, <2>1 DEF ReferencesRunBack, Syncs
  <2>4. s[j].reference \in Nat /\ s[i].reference \in Nat
    BY <1>2, <2>1 DEF ItemType
  <2> QED BY <2>2, <2>3, <2>4
<1> QED BY <1>2, <1>3, <1>4

LEMMA Neighbours ==
  ASSUME NEW s, Clocked(s), ~ReferencesRunBack(s), NEW g, NEW tick \in Nat
  PROVE  /\ Earlier(s, g, tick) # {} =>
              /\ Max(Earlier(s, g, tick)) \in Earlier(s, g, tick)
              /\ \A i \in Earlier(s, g, tick) : i <= Max(Earlier(s, g, tick))
         /\ Later(s, g, tick) # {} =>
              /\ Min(Later(s, g, tick)) \in Later(s, g, tick)
              /\ \A i \in Later(s, g, tick) : Min(Later(s, g, tick)) <= i
         /\ \A i \in Later(s, g, tick) : tick <= s[i].tick
         /\ AnchoredNs(s, g, tick) =
              IF Earlier(s, g, tick) = {} THEN Extrapolated(s[Min(Later(s, g, tick))], tick)
              ELSE IF Later(s, g, tick) = {}
                   THEN Extrapolated(s[Max(Earlier(s, g, tick))], tick)
              ELSE Interpolated(s[Max(Earlier(s, g, tick))], s[Min(Later(s, g, tick))], tick)
<1>1. /\ Earlier(s, g, tick) \in SUBSET (0..Len(s)) /\ Len(s) \in Nat
      /\ Later(s, g, tick) \in SUBSET Nat
  BY AnchorsInOrder DEF Earlier, Later
<1>2. \A i \in Later(s, g, tick) : tick <= s[i].tick
  BY AnchorsInOrder DEF Earlier, Later, ItemType
<1>3. AnchoredNs(s, g, tick) =
        IF Earlier(s, g, tick) = {} THEN Extrapolated(s[Min(Later(s, g, tick))], tick)
        ELSE IF Later(s, g, tick) = {}
             THEN Extrapolated(s[Max(Earlier(s, g, tick))], tick)
        ELSE Interpolated(s[Max(Earlier(s, g, tick))], s[Min(Later(s, g, tick))], tick)
  BY DEF AnchoredNs, Earlier, Later
<1> QED BY <1>1, <1>2, <1>3, MinIs, MaxIs

(* By the anchors of one generation, a later tick has a later time.         *)
LEMMA AnchoredMonotone ==
  ASSUME NEW s, Clocked(s), ~ReferencesRunBack(s), NEW g, Anchors(s, g) # {},
         NEW a \in Nat, NEW b \in Nat, a <= b
  PROVE  /\ AnchoredNs(s, g, a) \in Int /\ AnchoredNs(s, g, b) \in Int
         /\ AnchoredNs(s, g, a) <= AnchoredNs(s, g, b)
<1> DEFINE Ea == Earlier(s, g, a)
           La == Later(s, g, a)
           Eb == Earlier(s, g, b)
           Lb == Later(s, g, b)
           A  == Anchors(s, g)
           na == AnchoredNs(s, g, a)
           nb == AnchoredNs(s, g, b)
<1>1. /\ \A i \in A : s[i] \in ItemType /\ s[i].tick \in Nat /\ s[i].reference \in Nat /\ i \in Nat
      /\ \A i, j \in A : i < j => s[i].tick < s[j].tick /\ s[i].reference <= s[j].reference
      /\ \A i, j \in A : i <= j => s[i].tick <= s[j].tick /\ s[i].reference <= s[j].reference
  <2>1. \A i \in A : s[i] \in ItemType /\ i \in Nat
    BY AnchorsInOrder
  <2>2. \A i \in A : s[i].tick \in Nat /\ s[i].reference \in Nat
    BY <2>1 DEF ItemType
  <2>3. \A i, j \in A : i < j => s[i].tick < s[j].tick /\ s[i].reference <= s[j].reference
    BY AnchorsInOrder
  <2>4. \A i, j \in A : i <= j => i < j \/ i = j
    BY <2>1
  <2> QED BY <2>1, <2>2, <2>3, <2>4
<1>2. /\ Ea \subseteq Eb /\ Lb \subseteq La /\ Ea \subseteq A /\ La \subseteq A
      /\ Eb \subseteq A /\ Lb \subseteq A /\ A = Ea \cup La /\ A = Eb \cup Lb
      /\ \A i \in Ea : s[i].tick < a
      /\ \A i \in Eb : s[i].tick < b
      /\ Ea \cap La = {} /\ Eb \cap Lb = {}
  BY <1>1 DEF Earlier, Later
<1>3. /\ Ea # {} => Max(Ea) \in Ea /\ \A i \in Ea : i <= Max(Ea)
      /\ La # {} => Min(La) \in La /\ \A i \in La : Min(La) <= i
      /\ \A i \in La : a <= s[i].tick
      /\ na = IF Ea = {} THEN Extrapolated(s[Min(La)], a)
              ELSE IF La = {} THEN Extrapolated(s[Max(Ea)], a)
              ELSE Interpolated(s[Max(Ea)], s[Min(La)], a)
  BY Neighbours
<1>4. /\ Eb # {} => Max(Eb) \in Eb /\ \A i \in Eb : i <= Max(Eb)
      /\ Lb # {} => Min(Lb) \in Lb /\ \A i \in Lb : Min(Lb) <= i
      /\ \A i \in Lb : b <= s[i].tick
      /\ nb = IF Eb = {} THEN Extrapolated(s[Min(Lb)], b)
              ELSE IF Lb = {} THEN Extrapolated(s[Max(Eb)], b)
              ELSE Interpolated(s[Max(Eb)], s[Min(Lb)], b)
  BY Neighbours
<1> HIDE DEF Ea, La, Eb, Lb, A, na, nb
<1>5. CASE Eb = {}
  <2>1. Ea = {} /\ La = A /\ Lb = A /\ A # {}
    BY <1>2, <1>5 DEF A
  <2>2. Min(A) \in A
    BY <1>3, <2>1
  <2>3. na = Extrapolated(s[Min(A)], a) /\ nb = Extrapolated(s[Min(A)], b)
    BY <1>3, <1>4, <1>5, <2>1
  <2> QED BY <1>1, <2>2, <2>3, ExtrapolatedMonotone DEF na, nb
(* The later tick has an anchor p before it.                                *)
<1>6. ASSUME Eb # {}
      PROVE  nb \in Int /\ s[Max(Eb)].reference <= nb
  <2> DEFINE p == Max(Eb)
             r == s[p].reference
  <2>1. p \in A /\ p \in Eb
    BY <1>2, <1>4, <1>6
  <2>2. s[p].tick < b
    BY <1>2, <2>1
  <2>3. nb \in Int /\ r <= nb
    <3>1. CASE Lb = {}
      <4>1. nb = Extrapolated(s[p], b)
        BY <1>4, <1>6, <3>1
      <4> HIDE DEF p
      <4>2. s[p] \in ItemType /\ s[p].tick \in Nat /\ s[p].tick <= b
        BY <1>1, <2>1, <2>2
      <4> QED BY <4>1, <4>2, ExtrapolatedMonotone
    <3>2. CASE Lb # {}
      <4> DEFINE q == Min(Lb)
      <4>1. nb = Interpolated(s[p], s[q], b)
        BY <1>4, <1>6, <3>2
      <4>2. q \in A /\ b <= s[q].tick
        BY <1>2, <1>4, <3>2
      <4> HIDE DEF p, q
      <4>3. p < q
        BY <1>1, <2>1, <2>2, <4>2
      <4>4. /\ s[p].tick < s[q].tick /\ s[p].reference <= s[q].reference
            /\ s[p].tick <= b /\ b <= b
        BY <1>1, <2>1, <2>2, <4>2, <4>3
      <4> QED BY <1>1, <2>1, <4>1, <4>2, <4>4, InterpolatedMonotone
    <3> QED BY <3>1, <3>2
  <2> QED BY <2>3
<1>7. CASE Eb # {} /\ Ea = {}
  <2> DEFINE m == Min(La)
             p == Max(Eb)
  <2>1. La = A /\ A # {}
    BY <1>2, <1>7 DEF A
  <2>2. m \in A /\ a <= s[m].tick /\ \A i \in A : m <= i
    BY <1>3, <2>1
  <2>3. p \in A
    BY <1>2, <1>4, <1>7
  <2>4. na = Extrapolated(s[m], a)
    BY <1>3, <1>7
  <2>5. nb \in Int /\ s[p].reference <= nb
    BY <1>6, <1>7
  <2> HIDE DEF m, p
  <2>6. na \in Int /\ na <= s[m].reference
    BY <1>1, <2>2, <2>4, ExtrapolatedMonotone
  <2>7. s[m].reference <= s[p].reference /\ s[m].reference \in Nat /\ s[p].reference \in Nat
    BY <1>1, <2>2, <2>3
  <2> QED BY <2>5, <2>6, <2>7 DEF na, nb
<1>8. CASE Ea # {} /\ Max(Ea) = Max(Eb)
  <2> DEFINE p == Max(Ea)
  <2>1. Eb # {}
    BY <1>2, <1>8
  <2>2. p \in A /\ p \in Ea /\ \A i \in Eb : i <= p
    BY <1>2, <1>3, <1>4, <1>8, <2>1
  <2>3. \A i \in Eb : i \in Ea
    <3> TAKE i \in Eb
    <3>1. s[i].tick <= s[p].tick /\ s[p].tick < a /\ i \in A
      BY <1>1, <1>2, <2>2
    <3>2. s[i].tick < a
      BY <1>1, <2>2, <3>1
    <3> QED BY <1>2, <3>1, <3>2 DEF Ea, Earlier, A
  <2>4. Ea = Eb /\ La = Lb
    BY <1>2, <2>3
  <2>5. CASE La = {}
    <3>1. na = Extrapolated(s[p], a) /\ nb = Extrapolated(s[p], b)
      BY <1>3, <1>4, <1>8, <2>1, <2>4, <2>5
    <3> HIDE DEF p
    <3> QED BY <1>1, <2>2, <3>1, ExtrapolatedMonotone DEF na, nb
  <2>6. CASE La # {}
    <3> DEFINE q == Min(La)
    <3>1. na = Interpolated(s[p], s[q], a) /\ nb = Interpolated(s[p], s[q], b)
      BY <1>3, <1>4, <1>8, <2>1, <2>4, <2>6
    <3>2. q \in A /\ b <= s[q].tick /\ q \in La
      BY <1>2, <1>3, <1>4, <2>4, <2>6
    <3>3. s[p].tick < a
      BY <1>2, <2>2
    <3> HIDE DEF p, q
    <3>4. p < q
      BY <1>1, <2>2, <3>2, <3>3
    <3>5. s[p].tick < s[q].tick /\ s[p].reference <= s[q].reference /\ s[p].tick <= a
      BY <1>1, <2>2, <3>2, <3>3, <3>4
    <3> QED BY <1>1, <2>2, <3>1, <3>2, <3>5, InterpolatedMonotone DEF na, nb
  <2> QED BY <2>5, <2>6
<1>9. CASE Ea # {} /\ Max(Ea) # Max(Eb)
  <2> DEFINE p == Max(Ea)
             q == Max(Eb)
             n == Min(La)
  <2>1. Eb # {}
    BY <1>2, <1>9
  <2>2. p \in A /\ p \in Ea /\ q \in A /\ q \in Eb /\ p <= q /\ s[p].tick < a
    BY <1>2, <1>3, <1>4, <1>9, <2>1
  <2>3. q \notin Ea
    BY <1>1, <1>3, <1>9, <2>2
  <2>4. q \in La
    BY <1>2, <2>2, <2>3
  <2>5. n \in A /\ n <= q /\ a <= s[n].tick
    BY <1>2, <1>3, <2>4
  <2>6. na = Interpolated(s[p], s[n], a)
    BY <1>3, <1>9, <2>4
  <2>7. nb \in Int /\ s[q].reference <= nb
    BY <1>6, <2>1
  <2> HIDE DEF p, q, n
  <2>8. p < n
    BY <1>1, <2>2, <2>5
  <2>9. s[p].tick < s[n].tick /\ s[p].reference <= s[n].reference /\ s[p].tick <= a
    BY <1>1, <2>2, <2>5, <2>8
  <2>10. na \in Int /\ na <= s[n].reference
    BY <1>1, <2>2, <2>5, <2>6, <2>9, InterpolatedMonotone
  <2>11. s[n].reference <= s[q].reference /\ s[n].reference \in Nat /\ s[q].reference \in Nat
    BY <1>1, <2>2, <2>5
  <2> QED BY <2>7, <2>10, <2>11 DEF na, nb
<1> QED BY <1>5, <1>7, <1>8, <1>9
----------------------------------------------------------------------------
(* Where generations meet in a capture, and in any suffix of one: each but  *)
(* the first starts with a synchronisation.                                 *)
Stepped(s) ==
  \A i \in 2..Len(s) : s[i].generation # s[i - 1].generation => IsSync(s[i])
SyncedFirst(s) == Syncs(s) # {} => IsSync(s[1])

LEMMA LaterGenerationsAnchored ==
  ASSUME NEW s, Clocked(s), Stepped(s), NEW j \in DOMAIN s,
         s[j].generation # s[1].generation
  PROVE  Anchors(s, s[j].generation) # {}
<1> DEFINE S == Of(s, s[j].generation)
           m == Min(S)
<1>1. Len(s) \in Nat /\ DOMAIN s = 1..Len(s)
  BY LenProperties DEF Clocked
<1>2. S \in SUBSET Nat /\ j \in S
  BY <1>1 DEF Of
<1>3. m \in S /\ m \in Nat /\ \A y \in S : m <= y
  BY <1>2, MinIs
<1>4. m \in 1..Len(s) /\ s[m].generation = s[j].generation
  BY <1>1, <1>3 DEF Of
<1>5. m # 1
  BY <1>4
<1>6. m \in 2..Len(s) /\ m - 1 \in 1..Len(s) /\ m - 1 < m
  BY <1>1, <1>4, <1>5
<1>7. m - 1 \notin S
  BY <1>3, <1>6
<1>8. s[m - 1].generation # s[m].generation
  BY <1>1, <1>4, <1>6, <1>7 DEF Of
<1>9. IsSync(s[m])
  BY <1>6, <1>8 DEF Stepped
<1>10. m \in Anchors(s, s[j].generation)
  BY <1>1, <1>3, <1>4, <1>9 DEF Anchors, Syncs
<1> QED BY <1>10

(* The first synchronisation of a generation is placed at its reference.    *)
LEMMA FirstAtReference ==
  ASSUME NEW s, Clocked(s), ~ReferencesRunBack(s), NEW i \in DOMAIN s, IsSync(s[i]),
         \A j \in DOMAIN s : j < i => s[j].generation # s[i].generation
  PROVE  Ns(s, i) = s[i].reference
<1> DEFINE g == s[i].generation
           t == s[i].tick
<1>1. /\ Len(s) \in Nat /\ DOMAIN s = 1..Len(s) /\ Anchors(s, g) \subseteq DOMAIN s
      /\ s[i] \in ItemType /\ i \in Anchors(s, g)
      /\ \A j, k \in Anchors(s, g) : j < k => s[j].tick < s[k].tick
  BY AnchorsInOrder DEF Anchors, Syncs, Of
<1>2. \A j \in Anchors(s, g) : i <= j
  BY <1>1 DEF Of, Anchors
<1>3. \A j \in Anchors(s, g) : j = i \/ t < s[j].tick
  BY <1>1, <1>2
<1>4. t \in Nat /\ \A j \in Anchors(s, g) : s[j].tick \in Nat
  BY <1>1, AnchorsInOrder DEF ItemType
<1>5. Earlier(s, g, t) = {} /\ Later(s, g, t) = Anchors(s, g)
  BY <1>3, <1>4 DEF Earlier, Later
<1>6. Min(Later(s, g, t)) \in Anchors(s, g) /\ Min(Later(s, g, t)) <= i
  BY <1>1, <1>4, <1>5, Neighbours
<1>7. Min(Later(s, g, t)) = i
  BY <1>1, <1>2, <1>6
<1>8. AnchoredNs(s, g, t) = Extrapolated(s[i], t)
  BY <1>4, <1>5, <1>7, Neighbours
<1>9. Extrapolated(s[i], t) = s[i].reference
  BY <1>1, <1>4, ExtrapolatedMonotone
<1> QED BY <1>1, <1>8, <1>9 DEF Ns, TimestampNs

(* The first tick of a generation, and the extent of it, are whole numbers. *)
LEMMA Extent ==
  ASSUME NEW s, Clocked(s), NEW g, Records(s) \cap Of(s, g) # {}
  PROVE  FirstTick(s, g) \in Nat /\ LastTick(s, g) \in Nat
<1> DEFINE R == Records(s) \cap Of(s, g)
<1>1. /\ Len(s) \in Nat /\ DOMAIN s = 1..Len(s)
      /\ \A i \in DOMAIN s : s[i] \in ItemType
  BY LenProperties, ElementOfSeq DEF Clocked
<1>2. R \in SUBSET (0..Len(s)) /\ R \subseteq DOMAIN s /\ R # {}
  BY <1>1 DEF Records
<1>3. \A i \in R : s[i].tick \in Nat /\ s[i].duration \in Nat /\ StartTick(s[i]) \in Nat
  <2> TAKE i \in R
  <2>1. s[i].tick \in Nat /\ s[i].duration \in Nat
    BY <1>1, <1>2 DEF ItemType
  <2>2. s[i].duration <= s[i].tick
    BY <1>2 DEF Clocked
  <2> QED BY <2>1, <2>2 DEF StartTick
<1>4. FirstTick(s, g) \in Nat
  <2> DEFINE T == {StartTick(s[i]) : i \in R}
  <2>1. T \in SUBSET Nat /\ T # {}
    BY <1>2, <1>3
  <2>2. Min(T) \in Nat
    BY <2>1, MinIs
  <2> QED BY <2>2 DEF FirstTick
<1>5. LastTick(s, g) \in Nat
  <2> DEFINE T == {s[i].tick : i \in R}
             m == Max(R)
  <2>1. m \in R /\ \A i \in R : i <= m
    BY <1>1, <1>2, MaxIs
  <2> HIDE DEF m, R
  <2>2. \A i \in R : s[i].tick <= s[m].tick
    <3> TAKE i \in R
    <3>1. i \in DOMAIN s /\ m \in DOMAIN s /\ s[i].generation = s[m].generation
      BY <1>2, <2>1 DEF Of, R
    <3>2. i < m \/ i = m
      BY <1>1, <2>1, <3>1
    <3> QED BY <1>3, <2>1, <3>1, <3>2 DEF Clocked
  <2>3. s[m].tick \in Nat
    BY <1>3, <2>1
  <2>4. T \in SUBSET (0..s[m].tick) /\ T # {}
    BY <1>2, <1>3, <2>2, <2>3
  <2> HIDE DEF T
  <2>5. Max(T) \in Nat
    BY <2>3, <2>4, MaxIs
  <2> QED BY <2>5 DEF LastTick, T, R
<1> QED BY <1>4, <1>5

(* A generation without an anchor starts somewhere.                         *)
LEMMA OriginExists ==
  ASSUME NEW s, Clocked(s), ~ReferencesRunBack(s), Stepped(s),
         NEW g, Records(s) \cap Of(s, g) # {}
  PROVE  Origin(s, g) \in Int
<1>1. /\ Len(s) \in Nat /\ DOMAIN s = 1..Len(s)
      /\ \A i \in DOMAIN s : s[i] \in ItemType
  BY LenProperties, ElementOfSeq DEF Clocked
<1>2. CASE Syncs(s) # {}
  <2> DEFINE S == {i \in DOMAIN s : Anchors(s, s[i].generation) # {}}
             x == Successor(s)
  <2>1. S \in SUBSET Nat /\ S # {}
    BY <1>1, <1>2 DEF Anchors, Syncs, Of
  <2>2. Min(S) \in S
    BY <2>1, MinIs
  <2>3. x \in ItemType /\ Anchors(s, x.generation) # {}
    BY <1>1, <2>2 DEF Successor
  <2>4. x.tick \in Nat
    BY <2>3 DEF ItemType
  <2> HIDE DEF x
  <2>5. AnchoredNs(s, x.generation, x.tick) \in Int
    BY <2>3, <2>4, AnchoredMonotone
  <2>6. ScaleDelta(LastTick(s, g) - FirstTick(s, g)) \in Int
    BY Extent, ScaleMonotone
  <2> QED BY <1>2, <2>5, <2>6 DEF Origin, PrefixOrigin, x
<1>3. CASE Syncs(s) = {}
  <2>1. \A i \in DOMAIN s : s[i].generation = s[1].generation
    BY <1>3, LaterGenerationsAnchored DEF Anchors
  <2>2. \A i \in Records(s) : i \in DOMAIN s /\ s[i].generation = g
    BY <2>1 DEF Records, Of
  <2>3. {s[i].generation : i \in {j \in Records(s) :
           s[j].generation # g /\ \A k \in Records(s) \cap Of(s, g) : j < k}} = {}
    BY <2>2
  <2>4. RelativeOrigin(s, g) = 0
    BY <2>3 DEF RelativeOrigin, MapThenFoldSet
  <2> QED BY <1>3, <2>4 DEF Origin
<1> QED BY <1>2, <1>3

(* Time does not run backwards within a generation.                         *)
LEMMA NsMonotone ==
  ASSUME NEW s, Clocked(s), ~ReferencesRunBack(s), Stepped(s),
         NEW i \in DOMAIN s, NEW j \in DOMAIN s, i <= j,
         s[i].generation = s[j].generation
  PROVE  Ns(s, i) \in Int /\ Ns(s, j) \in Int /\ Ns(s, i) <= Ns(s, j)
<1> DEFINE g == s[i].generation
<1>1. /\ Len(s) \in Nat /\ DOMAIN s = 1..Len(s)
      /\ s[i] \in ItemType /\ s[j] \in ItemType
  BY LenProperties, ElementOfSeq DEF Clocked
<1>2. s[i].tick \in Nat /\ s[j].tick \in Nat
  BY <1>1 DEF ItemType
<1>3. s[i].tick <= s[j].tick
  <2>1. i < j \/ i = j
    BY <1>1
  <2> QED BY <1>2, <2>1 DEF Clocked
<1>4. CASE Anchors(s, g) # {}
  BY <1>2, <1>3, <1>4, AnchoredMonotone DEF Ns, TimestampNs
<1>5. CASE Anchors(s, g) = {}
  <2>1. i \in Records(s) \cap Of(s, g)
    BY <1>5 DEF Records, Anchors, Of
  <2>2. Origin(s, g) \in Int /\ FirstTick(s, g) \in Nat
    BY <2>1, OriginExists, Extent
  <2>3. /\ s[i].tick - FirstTick(s, g) \in Int /\ s[j].tick - FirstTick(s, g) \in Int
        /\ s[i].tick - FirstTick(s, g) <= s[j].tick - FirstTick(s, g)
    BY <1>2, <1>3, <2>2
  <2>4. /\ ScaleDelta(s[i].tick - FirstTick(s, g)) \in Int
        /\ ScaleDelta(s[j].tick - FirstTick(s, g)) \in Int
        /\ ScaleDelta(s[i].tick - FirstTick(s, g)) <= ScaleDelta(s[j].tick - FirstTick(s, g))
    BY <2>3, ScaleMonotone
  <2>5. /\ Ns(s, i) = Origin(s, g) + ScaleDelta(s[i].tick - FirstTick(s, g))
        /\ Ns(s, j) = Origin(s, g) + ScaleDelta(s[j].tick - FirstTick(s, g))
    BY <1>5 DEF Ns, TimestampNs
  <2> QED BY <2>2, <2>4, <2>5
<1> QED BY <1>4, <1>5

(* So the reader's checks pass but for the references.                      *)
LEMMA OnlyReferences ==
  ASSUME NEW s, NEW wrapped \in BOOLEAN, Clocked(s), Stepped(s), s # <<>>,
         SyncedFirst(s) \/ wrapped,
         ~ReferencesRunBack(s), ~StepsBack(s), ~PrefixUnplaceable(s)
  PROVE  Accepted(s, wrapped)
<1>1. /\ Len(s) \in Nat /\ DOMAIN s = 1..Len(s)
      /\ \A i \in DOMAIN s : s[i] \in ItemType
      /\ \A i \in DOMAIN s : s[i].tick \in Nat /\ s[i].generation \in Nat
                             /\ s[i].reference \in Nat
  <2>1. /\ Len(s) \in Nat /\ DOMAIN s = 1..Len(s)
        /\ \A i \in DOMAIN s : s[i] \in ItemType
    BY LenProperties, ElementOfSeq DEF Clocked
  <2> QED BY <2>1 DEF ItemType
<1>2. ~AnchorsStand(s)
  <2>1. ASSUME NEW i \in Syncs(s), NEW j \in Syncs(s), i < j,
               s[i].generation = s[j].generation
        PROVE  ~(s[j].tick <= s[i].tick)
    <3>1. i \in DOMAIN s /\ j \in DOMAIN s /\ IsSync(s[i]) /\ IsSync(s[j])
      BY DEF Syncs
    <3>2. s[i].tick < s[j].tick
      BY <2>1, <3>1 DEF Clocked
    <3> QED BY <1>1, <3>1, <3>2
  <2> QED BY <2>1 DEF AnchorsStand
<1>3. ~AnchorMissing(s, wrapped)
  <2>1. Bare(s) \subseteq {s[1].generation}
    BY LaterGenerationsAnchored DEF Bare, Records
  <2>2. ASSUME Syncs(s) # {}, Bare(s) # {} PROVE wrapped
    <3>1. PICK i \in Records(s) : Anchors(s, s[i].generation) = {}
      BY <2>2 DEF Bare
    <3>2. s[i].generation = s[1].generation /\ i \in DOMAIN s
      BY <3>1, LaterGenerationsAnchored DEF Records
    <3>3. 1 \in DOMAIN s
      BY <1>1, <3>2
    <3>4. ~IsSync(s[1])
      BY <3>1, <3>2, <3>3 DEF Anchors, Syncs, Of
    <3> QED BY <2>2, <3>4 DEF SyncedFirst
  <2> QED BY <2>1, <2>2 DEF AnchorMissing
<1>4. ~TimeRunsBack(s)
  <2>1. SUFFICES ASSUME NEW i \in 2..Len(s) PROVE ~(Ns(s, i) < Ns(s, i - 1))
    BY DEF TimeRunsBack
  <2>2. i \in DOMAIN s /\ i - 1 \in DOMAIN s /\ i - 1 < i /\ i - 1 <= i
    BY <1>1
  <2>3. CASE s[i].generation = s[i - 1].generation
    BY <2>2, <2>3, NsMonotone
  <2>4. CASE s[i].generation # s[i - 1].generation
    <3>1. IsSync(s[i])
      BY <2>4 DEF Stepped
    <3>2. ASSUME NEW j \in DOMAIN s, j < i PROVE s[j].generation # s[i].generation
      <4>1. j < i - 1 \/ j = i - 1
        BY <1>1, <2>2, <3>2
      <4>2. s[j].generation <= s[i - 1].generation
        BY <1>1, <2>2, <4>1 DEF Clocked
      <4>3. s[i - 1].generation <= s[i].generation
        BY <2>2 DEF Clocked
      <4> QED BY <1>1, <2>2, <2>4, <4>2, <4>3
    <3>3. Ns(s, i) = s[i].reference
      BY <2>2, <3>1, <3>2, FirstAtReference
    <3>4. ~(s[i].reference < Ns(s, i - 1))
      BY <2>4 DEF StepsBack
    <3> QED BY <3>3, <3>4
  <2> QED BY <2>3, <2>4
<1> QED BY <1>2, <1>3, <1>4 DEF Accepted
----------------------------------------------------------------------------
(* The writer's rules keep captures in this order.                          *)
ScopeType == [track : Tracks, tick : Nat]
CaptureInv ==
  /\ Clocked(items) /\ Stepped(items) /\ SyncedFirst(items)
  /\ now \in Nat /\ generation \in Nat
  /\ scopes \in Seq(ScopeType)
  /\ \A n \in DOMAIN scopes : scopes[n].tick <= now
  /\ items # <<>> => /\ items[Len(items)].generation = generation
                     /\ items[Len(items)].tick <= now

LEMMA CaptureInit == Init => CaptureInv
<1> SUFFICES ASSUME Init PROVE CaptureInv
  OBVIOUS
<1>1. /\ items = <<>> /\ scopes = <<>> /\ now = 0 /\ generation = 0
      /\ DOMAIN items = {} /\ Len(items) = 0 /\ DOMAIN scopes = {}
      /\ items \in Seq(ItemType) /\ scopes \in Seq(ScopeType)
  BY EmptySeq DEF Init
<1>2. Clocked(items) /\ Stepped(items) /\ SyncedFirst(items)
  BY <1>1 DEF Clocked, Stepped, SyncedFirst, Syncs
<1> QED BY <1>1, <1>2 DEF CaptureInv

(* What every item that is added must satisfy.                              *)
LEMMA Added ==
  ASSUME CaptureInv, NEW x \in ItemType, items' = Append(items, x),
         x.duration <= x.tick, x.generation = generation', x.tick = now',
         now' \in Nat, generation' \in Nat,
         \/ generation' = generation /\ now <= now'
         \/ generation' = generation + 1 /\ IsSync(x),
         IsSync(x) => /\ \A i \in Anchors(items, x.generation) : items[i].tick < x.tick
                      /\ items # <<>> => Syncs(items) # {},
         scopes' \in Seq(ScopeType),
         \A n \in DOMAIN scopes' : scopes'[n].tick <= now'
  PROVE  CaptureInv'
<1> DEFINE n == Len(items)
<1>1. /\ items \in Seq(ItemType) /\ n \in Nat /\ DOMAIN items = 1..n
      /\ \A i \in 1..n : items[i] \in ItemType
      /\ now \in Nat /\ generation \in Nat
  BY LenProperties, ElementOfSeq DEF CaptureInv, Clocked
<1>2. /\ items' \in Seq(ItemType) /\ Len(items') = n + 1 /\ DOMAIN items' = 1..(n + 1)
      /\ items'[n + 1] = x /\ \A i \in 1..n : items'[i] = items[i]
  BY <1>1, AppendProperties, LenProperties
<1>3. /\ \A i \in 1..n : /\ items[i].tick \in Nat /\ items[i].generation \in Nat
                         /\ items[i].duration \in Nat
      /\ x.tick \in Nat /\ x.generation \in Nat /\ x.duration \in Nat
  BY <1>1 DEF ItemType
<1> HIDE DEF n
<1>4. \A i \in 1..n : /\ items[i].generation <= generation
                      /\ items[i].generation = generation => items[i].tick <= now
  <2> TAKE i \in 1..n
  <2>1. items # <<>> /\ n \in 1..n /\ i \in 1..n
    BY <1>1, EmptySeq DEF n
  <2>2. items[n].generation = generation /\ items[n].tick <= now
    BY <2>1 DEF CaptureInv, n
  <2>3. i = n \/ i < n
    BY <1>1
  <2>4. i < n => /\ items[i].generation <= items[n].generation
                 /\ items[i].generation = items[n].generation => items[i].tick <= items[n].tick
    BY <1>1, <2>1 DEF CaptureInv, Clocked
  <2> QED BY <1>1, <1>3, <2>1, <2>2, <2>3, <2>4
<1>5. Clocked(items)'
  <2>1. ASSUME NEW i \in 1..(n + 1) PROVE items'[i].duration <= items'[i].tick
    <3>1. CASE i = n + 1
      BY <1>2, <3>1
    <3>2. CASE i \in 1..n
      BY <1>1, <1>2, <3>2 DEF CaptureInv, Clocked
    <3> QED BY <1>1, <3>1, <3>2
  <2>2. ASSUME NEW i \in 1..(n + 1), NEW j \in 1..(n + 1), i < j
        PROVE  /\ items'[i].generation <= items'[j].generation
               /\ items'[i].generation = items'[j].generation =>
                    /\ items'[i].tick <= items'[j].tick
                    /\ IsSync(items'[i]) /\ IsSync(items'[j]) => items'[i].tick < items'[j].tick
    <3>0. i \in 1..n
      BY <1>1, <2>2
    <3>1. CASE j \in 1..n
      <4>1. items'[i] = items[i] /\ items'[j] = items[j]
        BY <1>2, <3>0, <3>1
      <4> QED BY <1>1, <2>2, <3>0, <3>1, <4>1 DEF CaptureInv, Clocked
    <3>2. CASE j = n + 1
      <4>1. items'[i] = items[i] /\ items'[j] = x
        BY <1>2, <3>0, <3>2
      <4>2. /\ items[i].generation <= x.generation
            /\ items[i].generation = x.generation => items[i].tick <= x.tick
        BY <1>1, <1>3, <1>4, <3>0
      <4>3. (items[i].generation = x.generation /\ IsSync(items[i])) =>
              i \in Anchors(items, x.generation)
        BY <1>1, <3>0 DEF Anchors, Syncs, Of
      <4> QED BY <4>1, <4>2, <4>3
    <3> QED BY <1>1, <3>1, <3>2
  <2> QED BY <1>2, <2>1, <2>2 DEF Clocked
<1>6. Stepped(items)'
  <2>1. ASSUME NEW i \in 2..(n + 1), items'[i].generation # items'[i - 1].generation
        PROVE  IsSync(items'[i])
    <3>1. i - 1 \in 1..n
      BY <1>1
    <3>2. CASE i \in 1..n
      <4>1. items'[i] = items[i] /\ items'[i - 1] = items[i - 1] /\ i \in 2..n
        BY <1>1, <1>2, <3>1, <3>2
      <4> QED BY <2>1, <4>1 DEF CaptureInv, Stepped, n
    <3>3. CASE i = n + 1
      <4>1. i - 1 = n /\ n \in 1..n
        BY <1>1, <3>1, <3>3
      <4>2. items'[i] = x /\ items'[i - 1] = items[n]
        BY <1>2, <3>3, <4>1
      <4>3. items # <<>>
        BY <1>1, <4>1, EmptySeq DEF n
      <4>4. items[n].generation = generation
        BY <4>3 DEF CaptureInv, n
      <4> QED BY <2>1, <4>2, <4>4
    <3> QED BY <1>1, <3>2, <3>3
  <2> QED BY <1>2, <2>1 DEF Stepped
<1>7. SyncedFirst(items)'
  <2>1. SUFFICES ASSUME Syncs(items') # {} PROVE IsSync(items'[1])
    BY DEF SyncedFirst
  <2>2. CASE n = 0
    <3>1. PICK i \in 1..(n + 1) : IsSync(items'[i])
      BY <1>2, <2>1 DEF Syncs
    <3> QED BY <2>2, <3>1
  <2>3. CASE n # 0
    <3>1. items # <<>> /\ 1 \in 1..n /\ items'[1] = items[1]
      BY <1>1, <1>2, <2>3, EmptySeq DEF n
    <3>2. PICK i \in 1..(n + 1) : IsSync(items'[i])
      BY <1>2, <2>1 DEF Syncs
    <3>3. CASE i \in 1..n
      <4>1. i \in Syncs(items)
        BY <1>1, <1>2, <3>2, <3>3 DEF Syncs
      <4> QED BY <3>1, <4>1 DEF CaptureInv, SyncedFirst
    <3>4. CASE i = n + 1
      BY <1>2, <3>1, <3>2, <3>4 DEF CaptureInv, SyncedFirst
    <3> QED BY <1>1, <3>3, <3>4
  <2> QED BY <2>2, <2>3
<1>8. items' # <<>> => /\ items'[Len(items')].generation = generation'
                       /\ items'[Len(items')].tick <= now'
  BY <1>2
<1> QED BY <1>5, <1>6, <1>7, <1>8 DEF CaptureInv

LEMMA CaptureNext == CaptureInv /\ [Next]_vars => CaptureInv'
<1> SUFFICES ASSUME CaptureInv, [Next]_vars PROVE CaptureInv'
  OBVIOUS
<1>1. /\ items \in Seq(ItemType) /\ now \in Nat /\ generation \in Nat
      /\ scopes \in Seq(ScopeType)
      /\ DOMAIN scopes = 1..Len(scopes) /\ Len(scopes) \in Nat
      /\ Len(items) \in Nat /\ DOMAIN items = 1..Len(items)
  BY LenProperties DEF CaptureInv, Clocked
<1>0. /\ \A n \in 1..Len(scopes) : /\ scopes[n] \in ScopeType
                                   /\ scopes[n].track \in Tracks /\ scopes[n].tick \in Nat
                                   /\ scopes[n].tick <= now
      /\ \A i \in 1..Len(items) : items[i].tick \in Nat /\ items[i].generation \in Nat
  <2>1. \A n \in 1..Len(scopes) : scopes[n] \in ScopeType
    BY <1>1, ElementOfSeq
  <2>2. \A i \in 1..Len(items) : items[i] \in ItemType
    BY <1>1, ElementOfSeq
  <2> QED BY <1>1, <2>1, <2>2 DEF ScopeType, ItemType, CaptureInv
(* What has items of the current generation, and may be synchronised, is    *)
(* synchronised.                                                            *)
<1>2. (SyncedOrEmpty /\ items # <<>>) => Syncs(items) # {}
  <2>1. items # <<>> => Len(items) \in DOMAIN items
    BY <1>1, EmptySeq
  <2>2. items # <<>> => Len(items) \in Of(items, generation)
    BY <2>1 DEF Of, CaptureInv
  <2> QED BY <2>2 DEF SyncedOrEmpty, Anchors
<1>3. ASSUME NEW advance \in 0..MaxAdvance, now' = now + advance
      PROVE  /\ now' \in Nat /\ now <= now'
             /\ scopes' = scopes => \A n \in DOMAIN scopes' : scopes'[n].tick <= now'
  <2>1. now' \in Nat /\ now <= now'
    BY <1>1, <1>3, ConversionAssumption
  <2> QED BY <1>0, <1>1, <2>1
<1>4. ASSUME NEW track \in Tracks, NEW advance \in 0..MaxAdvance, Begin(track, advance)
      PROVE  CaptureInv'
  <2>1. /\ now' \in Nat /\ now <= now' /\ items' = items /\ generation' = generation
        /\ scopes' = Append(scopes, [track |-> track, tick |-> now'])
    BY <1>3, <1>4 DEF Begin
  <2>2. /\ scopes' \in Seq(ScopeType)
        /\ [track |-> track, tick |-> now'] \in ScopeType
    <3>1. [track |-> track, tick |-> now'] \in ScopeType
      BY <2>1 DEF ScopeType
    <3> QED BY <1>1, <2>1, <3>1, AppendProperties
  <2>3. ASSUME NEW n \in DOMAIN scopes' PROVE scopes'[n].tick <= now'
    <3>1. /\ DOMAIN scopes' = 1..(Len(scopes) + 1)
          /\ scopes'[Len(scopes) + 1] = [track |-> track, tick |-> now']
          /\ \A m \in 1..Len(scopes) : scopes'[m] = scopes[m]
      BY <1>1, <2>1, <2>2, AppendProperties, LenProperties
    <3>2. CASE n = Len(scopes) + 1
      BY <2>1, <3>1, <3>2
    <3>3. CASE n \in 1..Len(scopes)
      BY <1>0, <1>1, <2>1, <3>1, <3>3
    <3> QED BY <1>1, <3>1, <3>2, <3>3
  <2>4. /\ Clocked(items)' /\ Stepped(items)' /\ SyncedFirst(items)'
        /\ generation' \in Nat
    BY <1>1, <2>1 DEF CaptureInv
  <2>5. items' # <<>> => /\ items'[Len(items')].generation = generation'
                         /\ items'[Len(items')].tick <= now'
    <3>1. items # <<>> => Len(items) \in 1..Len(items)
      BY <1>1, EmptySeq
    <3> QED BY <1>0, <1>1, <2>1, <3>1 DEF CaptureInv
  <2> QED BY <2>1, <2>2, <2>3, <2>4, <2>5 DEF CaptureInv
<1>5. ASSUME NEW advance \in 0..MaxAdvance, End(advance)
      PROVE  CaptureInv'
  <2> DEFINE top == Last(scopes)
             x   == Item("slice", now', now' - top.tick, top.track, NoKey, 0)
  <2>1. /\ now' \in Nat /\ now <= now' /\ scopes # <<>> /\ generation' = generation
        /\ items' = Append(items, x) /\ scopes' = Front(scopes)
    BY <1>3, <1>5 DEF End
  <2>2. Len(scopes) \in 1..Len(scopes) /\ top = scopes[Len(scopes)]
    BY <1>1, <2>1, EmptySeq DEF Last
  <2>3. top.track \in Tracks /\ top.tick \in Nat /\ top.tick <= now
    BY <1>0, <2>2
  <2> HIDE DEF top
  <2>4. now' - top.tick \in Nat /\ now' - top.tick <= now'
    BY <1>1, <2>1, <2>3
  <2>5. x \in ItemType /\ x.duration <= x.tick /\ x.generation = generation'
        /\ x.tick = now' /\ ~IsSync(x)
    BY <1>1, <2>1, <2>3, <2>4 DEF Item, ItemType, ItemKinds, IsSync
  <2>6. /\ scopes' \in Seq(ScopeType)
        /\ \A n \in DOMAIN scopes' : scopes'[n].tick <= now'
    <3>1. scopes' = SubSeq(scopes, 1, Len(scopes) - 1)
      BY <2>1 DEF Front
    <3>2. \A n \in 1..(Len(scopes) - 1) : /\ scopes[n] \in ScopeType
                                          /\ scopes[n].tick \in Nat /\ scopes[n].tick <= now
      BY <1>0, <1>1
    <3>3. /\ scopes' \in Seq(ScopeType)
          /\ Len(scopes') = Len(scopes) - 1
          /\ \A n \in 1..(Len(scopes) - 1) : scopes'[n] = scopes[n]
      <4> DEFINE m == Len(scopes) - 1
      <4>1. m \in Int /\ 1 \in Int /\ m - 1 + 1 = m /\ m >= 0
        BY <1>1, <2>2
      <4>2. m = IF 1 <= m THEN m - 1 + 1 ELSE 0
        BY <4>1
      <4> HIDE DEF m
      <4>3. /\ SubSeq(scopes, 1, m) \in Seq(ScopeType)
            /\ Len(SubSeq(scopes, 1, m)) = m
            /\ \A n \in 1..m : SubSeq(scopes, 1, m)[n] = scopes[1 + n - 1]
        BY <3>2, <4>1, <4>2, SubSeqProperties DEF m
      <4>4. \A n \in 1..m : 1 + n - 1 = n
        BY <4>1
      <4> QED BY <3>1, <4>3, <4>4 DEF m
    <3>4. DOMAIN scopes' = 1..(Len(scopes) - 1)
      BY <3>3, LenProperties
    <3> QED BY <1>1, <2>1, <3>2, <3>3, <3>4
  <2> HIDE DEF x
  <2> QED BY <1>1, <2>1, <2>5, <2>6, Added
<1>6. ASSUME NEW kind \in FlowKinds \cup AsyncKinds, NEW key \in FlowKeys \cup AsyncKeys,
             NEW advance \in 0..MaxAdvance, Emit(kind, key, advance)
      PROVE  CaptureInv'
  <2> DEFINE x == Item(kind, now', 0, AnyTrack, key, 0)
  <2>1. /\ now' \in Nat /\ now <= now' /\ generation' = generation
        /\ items' = Append(items, x) /\ scopes' = scopes
    BY <1>3, <1>6 DEF Emit
  <2>2. x \in ItemType /\ x.duration <= x.tick /\ x.generation = generation'
        /\ x.tick = now' /\ ~IsSync(x)
    BY <1>1, <2>1 DEF Item, ItemType, ItemKinds, IsSync, FlowKinds, AsyncKinds
  <2>3. \A n \in DOMAIN scopes' : scopes'[n].tick <= now'
    BY <1>3, <1>6, <2>1 DEF Emit
  <2> HIDE DEF x
  <2> QED BY <1>1, <2>1, <2>2, <2>3, Added
<1>7. ASSUME NEW reference \in References, NEW advance \in 0..MaxAdvance,
             Sync(reference, advance)
      PROVE  CaptureInv'
  <2> DEFINE x == Item("sync", now', 0, AnyTrack, NoKey, reference)
  <2>1. /\ now' \in Nat /\ now <= now' /\ generation' = generation
        /\ items' = Append(items, x) /\ scopes' = scopes
        /\ \A i \in Anchors(items, generation) : items[i].tick < now'
        /\ items # <<>> => Syncs(items) # {}
    BY <1>2, <1>3, <1>7 DEF Sync
  <2>2. x \in ItemType /\ x.duration <= x.tick /\ x.generation = generation
        /\ x.tick = now'
    BY <1>1, <2>1, ConversionAssumption DEF Item, ItemType, ItemKinds
  <2>3. \A n \in DOMAIN scopes' : scopes'[n].tick <= now'
    BY <1>3, <1>7, <2>1 DEF Sync
  <2> HIDE DEF x
  <2> QED BY <1>1, <2>1, <2>2, <2>3, Added
<1>8. ASSUME NEW reference \in References, Transition(reference)
      PROVE  CaptureInv'
  <2> DEFINE x == [Item("sync", 0, 0, AnyTrack, NoKey, reference)
                     EXCEPT !.generation = generation + 1]
  <2>1. /\ now' = 0 /\ generation' = generation + 1 /\ items' = Append(items, x)
        /\ scopes = <<>> /\ scopes' = scopes /\ Syncs(items) # {}
    BY <1>2, <1>8 DEF Transition
  <2>2. x \in ItemType /\ x.duration <= x.tick /\ x.generation = generation'
        /\ x.tick = now' /\ IsSync(x)
    <3>1. x = [kind |-> "sync", generation |-> generation + 1, tick |-> 0, duration |-> 0,
               track |-> AnyTrack, key |-> NoKey, reference |-> reference]
      BY DEF Item
    <3>2. reference \in Nat /\ generation + 1 \in Nat
      BY <1>1, ConversionAssumption
    <3>3. x \in ItemType
      BY <3>1, <3>2 DEF ItemType, ItemKinds
    <3> HIDE DEF x
    <3> QED BY <2>1, <3>1, <3>3 DEF IsSync
  <2>3. Anchors(items, x.generation) = {}
    <3>1. ASSUME NEW i \in DOMAIN items PROVE items[i].generation # generation + 1
      <4>1. items # <<>> /\ Len(items) \in DOMAIN items /\ i \in 1..Len(items)
        BY <1>1, EmptySeq
      <4>2. items[Len(items)].generation = generation
        BY <4>1 DEF CaptureInv
      <4>3. i < Len(items) \/ i = Len(items)
        BY <1>1
      <4>4. i < Len(items) => items[i].generation <= generation
        BY <4>1, <4>2 DEF CaptureInv, Clocked
      <4>5. items[i].generation \in Nat
        BY <1>0, <4>1
      <4> QED BY <1>1, <4>2, <4>3, <4>4, <4>5
    <3> QED BY <2>1, <2>2, <3>1 DEF Anchors, Of
  <2>4. \A n \in DOMAIN scopes' : scopes'[n].tick <= now'
    BY <1>1, <2>1, EmptySeq
  <2> HIDE DEF x
  <2> QED BY <1>1, <2>1, <2>2, <2>3, <2>4, Added
<1>9. CASE UNCHANGED vars
  BY <1>9 DEF CaptureInv, vars, Clocked, Stepped, SyncedFirst, Syncs
<1>10. CASE Next
  BY <1>4, <1>5, <1>6, <1>7, <1>8, <1>10 DEF Next
<1> QED BY <1>9, <1>10

(* A suffix of a capture has the same order.                                *)
LEMMA SuffixOrdered ==
  ASSUME CaptureInv, NEW k \in 1..Len(items)
  PROVE  LET s == SubSeq(items, k, Len(items))
         IN  Clocked(s) /\ Stepped(s) /\ s # <<>> /\ (k = 1 => SyncedFirst(s))
<1> DEFINE s == SubSeq(items, k, Len(items))
           n == Len(items)
<1>1. /\ items \in Seq(ItemType) /\ n \in Nat /\ DOMAIN items = 1..n
      /\ \A i \in 1..n : items[i] \in ItemType
  BY LenProperties, ElementOfSeq DEF CaptureInv, Clocked
<1>2. \A i \in k..n : items[i] \in ItemType
  BY <1>1
<1>3. /\ s \in Seq(ItemType) /\ Len(s) = n - k + 1
      /\ \A i \in 1..(n - k + 1) : s[i] = items[k + i - 1]
  BY <1>1, <1>2, SubSeqProperties
<1>4. DOMAIN s = 1..(n - k + 1) /\ Len(s) >= 1
  BY <1>1, <1>3, LenProperties
<1>5. s # <<>>
  BY <1>4, EmptySeq
<1>6. k = 1 => SyncedFirst(s)
  <2>1. k = 1 => s = items
    BY <1>1, SubSeqFull
  <2> QED BY <2>1 DEF CaptureInv
<1> HIDE DEF s
<1>7. \A i \in DOMAIN s : /\ k + i - 1 \in DOMAIN items /\ s[i] = items[k + i - 1]
                          /\ i \in Nat
  BY <1>1, <1>3, <1>4
<1>8. Clocked(s)
  <2>1. ASSUME NEW i \in DOMAIN s PROVE s[i].duration <= s[i].tick
    BY <1>7 DEF CaptureInv, Clocked
  <2>2. ASSUME NEW i \in DOMAIN s, NEW j \in DOMAIN s, i < j
        PROVE  /\ s[i].generation <= s[j].generation
               /\ s[i].generation = s[j].generation =>
                    /\ s[i].tick <= s[j].tick
                    /\ IsSync(s[i]) /\ IsSync(s[j]) => s[i].tick < s[j].tick
    <3>1. k + i - 1 < k + j - 1
      BY <1>7, <2>2
    <3> QED BY <1>7, <3>1 DEF CaptureInv, Clocked
  <2> QED BY <1>3, <2>1, <2>2 DEF Clocked
<1>9. Stepped(s)
  <2>1. ASSUME NEW i \in 2..Len(s), s[i].generation # s[i - 1].generation
        PROVE  IsSync(s[i])
    <3>1. i \in DOMAIN s /\ i - 1 \in DOMAIN s
      BY <1>1, <1>3, <1>4
    <3>2. k + i - 1 \in 2..n /\ (k + i - 1) - 1 = k + (i - 1) - 1
      BY <1>1, <1>3
    <3>3. s[i] = items[k + i - 1] /\ s[i - 1] = items[(k + i - 1) - 1]
      BY <1>7, <3>1, <3>2
    <3> QED BY <2>1, <3>2, <3>3 DEF CaptureInv, Stepped
  <2> QED BY <2>1 DEF Stepped
<1> QED BY <1>5, <1>6, <1>8, <1>9 DEF s

LEMMA CaptureAccepted == CaptureInv => RefusedForReferences
<1> SUFFICES ASSUME CaptureInv, NEW r \in Retained,
                    ~ReferencesRunBack(r.s), ~StepsBack(r.s), ~PrefixUnplaceable(r.s)
             PROVE  Accepted(r.s, r.wrapped)
  BY DEF RefusedForReferences
<1>1. PICK k \in 1..Len(items) :
        r = [s |-> SubSeq(items, k, Len(items)), wrapped |-> k > 1]
  BY DEF Retained
<1> DEFINE s == r.s
           wrapped == r.wrapped
<1>2. s = SubSeq(items, k, Len(items))
  BY <1>1
<1>3. wrapped \in BOOLEAN /\ (k = 1 \/ wrapped)
  <2>1. (k > 1) \in BOOLEAN /\ (k = 1 \/ k > 1)
    OBVIOUS
  <2>2. wrapped = (k > 1)
    BY <1>1, Zenon
  <2> QED BY <2>1, <2>2, Zenon
<1>4. Clocked(s) /\ Stepped(s) /\ s # <<>> /\ (k = 1 => SyncedFirst(s))
  BY <1>2, SuffixOrdered
<1> HIDE DEF s, wrapped
<1>5. ~ReferencesRunBack(s) /\ ~StepsBack(s) /\ ~PrefixUnplaceable(s)
  BY DEF s
<1>6. Accepted(s, wrapped)
  BY <1>3, <1>4, <1>5, OnlyReferences
<1> QED BY <1>6 DEF s, wrapped

(* The capture of any writer that keeps its rules, whole or what a wrapped  *)
(* ring retains of it, at any counter rate and of any length, is refused by *)
(* the clock checks of the reader for its references alone: conversion to   *)
(* nanoseconds never makes time run back within a generation.               *)
THEOREM ClockRulesAgree == Spec => []RefusedForReferences
<1>1. Spec => []CaptureInv
  BY CaptureInit, CaptureNext, PTL DEF Spec
<1> QED BY <1>1, CaptureAccepted, PTL
----------------------------------------------------------------------------
(* Sorting by keys, which are tuples of integers.                           *)
Keyed(a, d) == DOMAIN a = 1..d /\ \A n \in 1..d : a[n] \in Int
SameKeys(a, b, d) == \A n \in 1..d : a[n] = b[n]

LEMMA LexTotal ==
  ASSUME NEW d \in Nat, NEW a, NEW b, Keyed(a, d), Keyed(b, d), ~SameKeys(a, b, d)
  PROVE  LexLess(a, b) \/ LexLess(b, a)
<1> DEFINE Bad == {n \in 1..d : a[n] # b[n]}
<1>1. Bad \in SUBSET Nat /\ Bad # {}
  BY DEF SameKeys
<1>2. PICK n : n = Min(Bad)
  OBVIOUS
<1>3. n \in Bad /\ \A m \in Bad : n <= m
  BY <1>1, <1>2, MinIs
<1>4. n \in 1..d /\ a[n] # b[n]
  BY <1>3
<1>5. \A m \in 1..(n - 1) : m \in 1..d /\ ~(n <= m)
  BY <1>4
<1>6. \A m \in 1..(n - 1) : a[m] = b[m]
  BY <1>3, <1>5
<1>7. a[n] < b[n] \/ b[n] < a[n]
  BY <1>4 DEF Keyed
<1>8. n \in DOMAIN a /\ n \in DOMAIN b
  BY <1>4 DEF Keyed
<1> HIDE DEF Bad
<1> QED BY <1>6, <1>7, <1>8 DEF LexLess

LEMMA LexTransitive ==
  ASSUME NEW d \in Nat, NEW a, NEW b, NEW c, Keyed(a, d), Keyed(b, d), Keyed(c, d),
         LexLess(a, b), LexLess(b, c)
  PROVE  LexLess(a, c)
<1>1. PICK n \in 1..d : a[n] < b[n] /\ \A m \in 1..(n - 1) : a[m] = b[m]
  BY DEF LexLess, Keyed
<1>2. PICK k \in 1..d : b[k] < c[k] /\ \A m \in 1..(k - 1) : b[m] = c[m]
  BY DEF LexLess, Keyed
<1>3. CASE n < k
  <2>1. n \in 1..(k - 1) /\ \A m \in 1..(n - 1) : m \in 1..(k - 1)
    BY <1>3
  <2>2. a[n] < c[n] /\ \A m \in 1..(n - 1) : a[m] = c[m]
    BY <1>1, <1>2, <2>1
  <2> QED BY <2>2 DEF LexLess, Keyed
<1>4. CASE k < n
  <2>1. k \in 1..(n - 1) /\ \A m \in 1..(k - 1) : m \in 1..(n - 1)
    BY <1>4
  <2>2. a[k] < c[k] /\ \A m \in 1..(k - 1) : a[m] = c[m]
    BY <1>1, <1>2, <2>1
  <2> QED BY <2>2 DEF LexLess, Keyed
<1>5. CASE k = n
  <2>1. a[n] \in Int /\ b[n] \in Int /\ c[n] \in Int
    BY DEF Keyed
  <2>2. a[n] < c[n] /\ \A m \in 1..(n - 1) : a[m] = c[m]
    BY <1>1, <1>2, <1>5, <2>1
  <2> QED BY <2>2 DEF LexLess, Keyed
<1> QED BY <1>3, <1>4, <1>5

LEMMA LexIrreflexive ==
  ASSUME NEW d \in Nat, NEW a, Keyed(a, d)
  PROVE  ~LexLess(a, a)
BY DEF LexLess, Keyed

(* S in the order of the keys K.                                            *)
Keys(S, K, d) ==
  /\ \A x \in S : Keyed(K[x], d)
  /\ \A x, y \in S : SameKeys(K[x], K[y], d) => x = y
Below(S, K, x) == {y \in S : LexLess(K[y], K[x])}
Ranked(S, K, n) == CHOOSE x \in S : Cardinality(Below(S, K, x)) = n - 1
SortedBy(f, S, K) ==
  /\ DOMAIN f = 1..Cardinality(S)
  /\ \A n \in DOMAIN f : f[n] \in S
  /\ \A x \in S : \E n \in DOMAIN f : f[n] = x
  /\ \A n, m \in DOMAIN f : n < m => LexLess(K[f[n]], K[f[m]])

LEMMA RankOf ==
  ASSUME NEW S, IsFiniteSet(S), NEW K, NEW d \in Nat, Keys(S, K, d), NEW x \in S
  PROVE  /\ IsFiniteSet(Below(S, K, x)) /\ x \notin Below(S, K, x)
         /\ Cardinality(Below(S, K, x)) + 1 \in 1..Cardinality(S)
<1>1. PICK B : B = Below(S, K, x)
  OBVIOUS
<1>2. B \subseteq S \ {x}
  <2>1. Keyed(K[x], d)
    BY DEF Keys
  <2>2. ~LexLess(K[x], K[x])
    BY <2>1, LexIrreflexive
  <2> QED BY <1>1, <2>2 DEF Below
<1>3. IsFiniteSet(S \ {x}) /\ Cardinality(S \ {x}) = Cardinality(S) - 1
  BY FS_RemoveElement
<1>4. IsFiniteSet(B) /\ Cardinality(B) <= Cardinality(S \ {x})
  BY <1>2, <1>3, FS_Subset
<1>5. Cardinality(B) \in Nat /\ Cardinality(S) \in Nat
  BY <1>4, FS_CardinalityType
<1>6. PICK p, q : p = Cardinality(B) /\ q = Cardinality(S)
  OBVIOUS
<1>7. p \in Nat /\ q \in Nat /\ p <= q - 1
  BY <1>3, <1>4, <1>5, <1>6
<1>8. p + 1 \in 1..q
  BY <1>7
<1> QED BY <1>1, <1>2, <1>4, <1>6, <1>8

LEMMA RankGrows ==
  ASSUME NEW S, IsFiniteSet(S), NEW K, NEW d \in Nat, Keys(S, K, d), NEW x \in S, NEW y \in S,
         LexLess(K[x], K[y])
  PROVE  Cardinality(Below(S, K, x)) < Cardinality(Below(S, K, y))
<1>1. PICK A, B : A = Below(S, K, x) /\ B = Below(S, K, y)
  OBVIOUS
<1>2. /\ IsFiniteSet(A) /\ x \notin A /\ IsFiniteSet(B)
  BY <1>1, RankOf
<1>3. A \cup {x} \subseteq B
  <2>1. ASSUME NEW z \in A PROVE z \in B
    <3>1. z \in S /\ LexLess(K[z], K[x])
      BY <1>1, <2>1 DEF Below
    <3>2. Keyed(K[x], d) /\ Keyed(K[y], d) /\ Keyed(K[z], d)
      BY <3>1 DEF Keys
    <3>3. LexLess(K[z], K[y])
      BY <3>1, <3>2, LexTransitive
    <3> QED BY <1>1, <3>1, <3>3 DEF Below
  <2>2. x \in B
    BY <1>1 DEF Below
  <2> QED BY <2>1, <2>2
<1>4. IsFiniteSet(A \cup {x}) /\ Cardinality(A \cup {x}) = Cardinality(A) + 1
  BY <1>2, FS_AddElement
<1>5. Cardinality(A \cup {x}) <= Cardinality(B)
  BY <1>2, <1>3, FS_Subset
<1>6. PICK p, q : p = Cardinality(A) /\ q = Cardinality(B)
  OBVIOUS
<1>7. p \in Nat /\ q \in Nat /\ p + 1 <= q
  BY <1>2, <1>4, <1>5, <1>6, FS_CardinalityType
<1> QED BY <1>1, <1>6, <1>7

LEMMA SortedIs ==
  ASSUME NEW S, IsFiniteSet(S), NEW K, NEW d \in Nat, Keys(S, K, d),
         NEW f, f = [n \in 1..Cardinality(S) |-> Ranked(S, K, n)]
  PROVE  SortedBy(f, S, K)
<1>1. PICK N : N = Cardinality(S)
  OBVIOUS
<1>2. N \in Nat
  BY <1>1, FS_CardinalityType
<1>3. PICK g : g = [x \in S |-> Cardinality(Below(S, K, x)) + 1]
  OBVIOUS
<1>4. \A x \in S : /\ g[x] = Cardinality(Below(S, K, x)) + 1 /\ g[x] \in 1..N
                   /\ Cardinality(Below(S, K, x)) \in Nat
  <2> TAKE x \in S
  <2>1. IsFiniteSet(Below(S, K, x)) /\ Cardinality(Below(S, K, x)) + 1 \in 1..N
    BY <1>1, RankOf
  <2> QED BY <1>3, <2>1, FS_CardinalityType
<1>5. ASSUME NEW x \in S, NEW y \in S, LexLess(K[x], K[y]) PROVE g[x] < g[y]
  <2>1. Cardinality(Below(S, K, x)) < Cardinality(Below(S, K, y))
    BY <1>5, RankGrows
  <2> QED BY <1>4, <2>1
<1>6. ASSUME NEW x \in S, NEW y \in S, x # y PROVE LexLess(K[x], K[y]) \/ LexLess(K[y], K[x])
  <2>1. Keyed(K[x], d) /\ Keyed(K[y], d) /\ ~SameKeys(K[x], K[y], d)
    BY <1>6 DEF Keys
  <2> QED BY <2>1, LexTotal
<1>7. g \in Injection(S, 1..N)
  <2>1. g \in [S -> 1..N]
    BY <1>3, <1>4
  <2>2. ASSUME NEW x \in S, NEW y \in S, g[x] = g[y] PROVE x = y
    <3> SUFFICES ASSUME x # y PROVE FALSE
      OBVIOUS
    <3>1. g[x] < g[y] \/ g[y] < g[x]
      BY <1>5, <1>6
    <3> QED BY <1>4, <2>2, <3>1
  <2> QED BY <2>1, <2>2 DEF Injection, IsInjective
<1>8. g \in Surjection(S, 1..N)
  <2>1. IsFiniteSet(1..N) /\ Cardinality(1..N) = N
    BY <1>2, FS_Interval
  <2> QED BY <1>1, <1>7, <2>1, FS_Injection
<1>9. \A n \in 1..N : \E x \in S : g[x] = n
  BY <1>8 DEF Surjection
<1>10. ASSUME NEW n \in 1..N PROVE f[n] \in S /\ g[f[n]] = n
  <2>1. PICK x \in S : g[x] = n
    BY <1>9
  <2>2. Cardinality(Below(S, K, x)) = n - 1
    BY <1>4, <2>1
  <2>3. f[n] = Ranked(S, K, n)
    BY <1>1
  <2>4. Ranked(S, K, n) \in S /\ Cardinality(Below(S, K, Ranked(S, K, n))) = n - 1
    BY <2>2 DEF Ranked
  <2> QED BY <1>4, <2>3, <2>4
<1>11. DOMAIN f = 1..N
  BY <1>1
<1>12. ASSUME NEW x \in S PROVE \E n \in 1..N : f[n] = x
  <2>1. PICK n : n = g[x]
    OBVIOUS
  <2>2. n \in 1..N /\ g[f[n]] = g[x] /\ f[n] \in S
    BY <1>4, <1>10, <2>1
  <2>3. f[n] = x
    BY <1>7, <2>2 DEF Injection, IsInjective
  <2> QED BY <2>2, <2>3
<1>13. ASSUME NEW n \in 1..N, NEW m \in 1..N, n < m PROVE LexLess(K[f[n]], K[f[m]])
  <2>1. f[n] \in S /\ f[m] \in S /\ g[f[n]] = n /\ g[f[m]] = m
    BY <1>10
  <2>2. f[n] # f[m]
    BY <1>13, <2>1
  <2>3. ~(g[f[m]] < g[f[n]])
    BY <1>13, <2>1
  <2> QED BY <1>5, <1>6, <2>1, <2>2, <2>3
<1> QED BY <1>1, <1>10, <1>11, <1>12, <1>13 DEF SortedBy

Placed(A, n) == CHOOSE x \in A : Cardinality({y \in A : LexLess(y.key, x.key)}) = n - 1
LEMMA OrderedIs ==
  ASSUME NEW A, IsFiniteSet(A), NEW K, K = [a \in A |-> a.key], NEW d \in Nat, Keys(A, K, d)
  PROVE  SortedBy(Ordered(A), A, K)
<1>1. PICK f : f = Ordered(A)
  OBVIOUS
<1>2. f = [n \in 1..Cardinality(A) |-> Placed(A, n)]
  BY <1>1, Zenon DEF Ordered, Sorted, Placed
<1>3. \A x \in A : {y \in A : LexLess(y.key, x.key)} = Below(A, K, x)
  BY DEF Below
<1>4. \A n : Placed(A, n) = Ranked(A, K, n)
  BY <1>3 DEF Placed, Ranked
<1>5. f = [n \in 1..Cardinality(A) |-> Ranked(A, K, n)]
  BY <1>2, <1>4
<1> QED BY <1>1, <1>5, SortedIs
----------------------------------------------------------------------------
(* Times of an accepted capture.                                            *)
LEMMA MappedMonotone ==
  ASSUME NEW s, Clocked(s), ~ReferencesRunBack(s), Stepped(s), NEW i \in DOMAIN s,
         NEW a \in Nat, NEW b \in Nat, a <= b
  PROVE  /\ TimestampNs(s, s[i].generation, a) \in Int
         /\ TimestampNs(s, s[i].generation, b) \in Int
         /\ TimestampNs(s, s[i].generation, a) <= TimestampNs(s, s[i].generation, b)
<1>1. PICK g : g = s[i].generation
  OBVIOUS
<1>2. CASE Anchors(s, g) # {}
  <2>1. /\ AnchoredNs(s, g, a) \in Int /\ AnchoredNs(s, g, b) \in Int
        /\ AnchoredNs(s, g, a) <= AnchoredNs(s, g, b)
    BY <1>2, AnchoredMonotone
  <2> QED BY <1>1, <1>2, <2>1 DEF TimestampNs
<1>3. CASE Anchors(s, g) = {}
  <2>1. i \in Records(s) \cap Of(s, g)
    BY <1>1, <1>3 DEF Records, Anchors, Of
  <2>2. Origin(s, g) \in Int /\ FirstTick(s, g) \in Nat
    BY <2>1, OriginExists, Extent
  <2>3. PICK o, f : o = Origin(s, g) /\ f = FirstTick(s, g)
    OBVIOUS
  <2>4. a - f \in Int /\ b - f \in Int /\ a - f <= b - f
    BY <2>2, <2>3
  <2>5. /\ ScaleDelta(a - f) \in Int /\ ScaleDelta(b - f) \in Int
        /\ ScaleDelta(a - f) <= ScaleDelta(b - f)
    BY <2>4, ScaleMonotone
  <2>6. /\ TimestampNs(s, g, a) = o + ScaleDelta(a - f)
        /\ TimestampNs(s, g, b) = o + ScaleDelta(b - f)
    BY <1>3, <2>3 DEF TimestampNs
  <2> QED BY <1>1, <2>2, <2>3, <2>5, <2>6
<1> QED BY <1>2, <1>3

Steady(s) ==
  /\ Clocked(s)
  /\ \A i \in DOMAIN s : /\ Ns(s, i) \in Int /\ StartNs(s, i) \in Int
                         /\ StartNs(s, i) <= Ns(s, i)
  /\ \A i, j \in DOMAIN s : i <= j => Ns(s, i) <= Ns(s, j)

LEMMA ItemsAre ==
  ASSUME NEW s, Clocked(s)
  PROVE  /\ Len(s) \in Nat /\ DOMAIN s = 1..Len(s)
         /\ \A i \in DOMAIN s : /\ i \in Nat /\ s[i] \in ItemType /\ s[i].tick \in Nat
                                /\ s[i].duration \in Nat /\ s[i].duration <= s[i].tick
                                /\ StartTick(s[i]) \in Nat /\ StartTick(s[i]) <= s[i].tick
<1>1. /\ Len(s) \in Nat /\ DOMAIN s = 1..Len(s)
      /\ \A i \in DOMAIN s : s[i] \in ItemType
  BY LenProperties, ElementOfSeq DEF Clocked
<1>2. \A i \in DOMAIN s : s[i].tick \in Nat /\ s[i].duration \in Nat
  BY <1>1 DEF ItemType
<1>3. \A i \in DOMAIN s : s[i].duration <= s[i].tick
  BY DEF Clocked
<1>4. \A i \in DOMAIN s : StartTick(s[i]) \in Nat /\ StartTick(s[i]) <= s[i].tick
  BY <1>2, <1>3 DEF StartTick
<1> QED BY <1>1, <1>2, <1>3, <1>4

LEMMA AcceptedSteady ==
  ASSUME NEW s, NEW wrapped, Clocked(s), Stepped(s), Accepted(s, wrapped)
  PROVE  Steady(s)
<1>1. ~ReferencesRunBack(s) /\ ~TimeRunsBack(s)
  BY DEF Accepted
<1>2. PICK n : n = Len(s)
  OBVIOUS
<1>3. n \in Nat /\ DOMAIN s = 1..n
  BY <1>2, ItemsAre
<1>4. ASSUME NEW i \in DOMAIN s
      PROVE  Ns(s, i) \in Int /\ StartNs(s, i) \in Int /\ StartNs(s, i) <= Ns(s, i)
  <2>1. PICK a, b : a = StartTick(s[i]) /\ b = s[i].tick
    OBVIOUS
  <2>2. a \in Nat /\ b \in Nat /\ a <= b
    BY <2>1, ItemsAre
  <2>3. /\ TimestampNs(s, s[i].generation, a) \in Int
        /\ TimestampNs(s, s[i].generation, b) \in Int
        /\ TimestampNs(s, s[i].generation, a) <= TimestampNs(s, s[i].generation, b)
    BY <1>1, <2>2, MappedMonotone
  <2> QED BY <2>1, <2>3 DEF Ns, StartNs
<1>5. \A i \in 2..n : Ns(s, i - 1) <= Ns(s, i)
  <2> TAKE i \in 2..n
  <2>1. ~(Ns(s, i) < Ns(s, i - 1))
    BY <1>1, <1>2 DEF TimeRunsBack
  <2>2. i \in 1..n /\ i - 1 \in 1..n
    BY <1>3
  <2>3. Ns(s, i) \in Int /\ Ns(s, i - 1) \in Int
    BY <1>3, <1>4, <2>2
  <2> QED BY <2>1, <2>3
<1>6. ASSUME NEW i \in DOMAIN s, NEW j \in DOMAIN s, i <= j
      PROVE  Ns(s, i) <= Ns(s, j)
  <2> DEFINE Bad == {k \in i..n : ~(Ns(s, i) <= Ns(s, k))}
  <2> SUFFICES ASSUME Bad # {} PROVE FALSE
    BY <1>3, <1>6
  <2>1. Bad \in SUBSET Nat
    BY <1>3
  <2>2. PICK k : k = Min(Bad)
    OBVIOUS
  <2>3. k \in Bad /\ \A m \in Bad : k <= m
    BY <2>1, <2>2, MinIs
  <2>4. k \in i..n /\ ~(Ns(s, i) <= Ns(s, k)) /\ k \in DOMAIN s /\ k \in Nat /\ i \in Nat
    BY <1>3, <2>3
  <2>5. k # i
    BY <1>4, <2>4
  <2>6. k \in 2..n /\ k - 1 \in i..n /\ ~(k <= k - 1) /\ k - 1 \in DOMAIN s
    BY <1>3, <2>4, <2>5
  <2>7. k - 1 \notin Bad
    <3> HIDE DEF Bad
    <3> QED BY <2>3, <2>6
  <2>8. Ns(s, i) <= Ns(s, k - 1) /\ Ns(s, k - 1) <= Ns(s, k)
    BY <1>5, <2>6, <2>7
  <2>9. Ns(s, i) \in Int /\ Ns(s, k - 1) \in Int /\ Ns(s, k) \in Int
    BY <1>4, <2>4, <2>6
  <2> QED BY <2>4, <2>8, <2>9
<1> QED BY <1>4, <1>6 DEF Steady
----------------------------------------------------------------------------
(* Slices of no duration, their group and its components.                   *)
Peers(s, i) == {j \in Instantaneous(s) : Together(s, j, i)}
GroupKey(s, j) == <<StartTick(s[j]), -s[j].tick, -j>>
GroupKeys(s, S) == [j \in S |-> GroupKey(s, j)]
GroupOf(s, S) == Sorted(S, LAMBDA j : GroupKey(s, j))
PlacedIn(s, S, n) ==
  CHOOSE x \in S : Cardinality({y \in S : LexLess(GroupKey(s, y), GroupKey(s, x))}) = n - 1

LEMMA GroupIs ==
  ASSUME NEW s, Steady(s), NEW i \in Instantaneous(s)
  PROVE  /\ IsFiniteSet(Peers(s, i)) /\ i \in Peers(s, i) /\ Peers(s, i) \subseteq DOMAIN s
         /\ SortedBy(ZeroGroup(s, i), Peers(s, i), GroupKeys(s, Peers(s, i)))
         /\ Keys(Peers(s, i), GroupKeys(s, Peers(s, i)), 3)
         /\ ZeroGroup(s, i) = GroupOf(s, Peers(s, i))
<1>1. Clocked(s)
  BY DEF Steady
<1>2. PICK S, K : S = Peers(s, i) /\ K = GroupKeys(s, S)
  OBVIOUS
<1>3. S \subseteq DOMAIN s /\ i \in S
  BY <1>2 DEF Peers, Instantaneous, Slices, Together
<1>4. IsFiniteSet(S)
  <2>1. Len(s) \in Nat /\ DOMAIN s = 1..Len(s)
    BY <1>1, ItemsAre
  <2>2. IsFiniteSet(1..Len(s))
    BY <2>1, FS_Interval
  <2> QED BY <1>3, <2>1, <2>2, FS_Subset
<1>5. Keys(S, K, 3)
  <2>1. ASSUME NEW x \in S PROVE Keyed(K[x], 3)
    <3>1. K[x] = <<StartTick(s[x]), -s[x].tick, -x>>
      BY <1>2 DEF GroupKeys, GroupKey
    <3>2. StartTick(s[x]) \in Int /\ -s[x].tick \in Int /\ -x \in Int
      BY <1>1, <1>3, ItemsAre
    <3> QED BY <3>1, <3>2 DEF Keyed
  <2>2. ASSUME NEW x \in S, NEW y \in S, SameKeys(K[x], K[y], 3) PROVE x = y
    <3>1. K[x][3] = -x /\ K[y][3] = -y
      BY <1>2 DEF GroupKeys, GroupKey
    <3>2. x \in Int /\ y \in Int
      BY <1>1, <1>3, ItemsAre
    <3>3. K[x][3] = K[y][3]
      BY <2>2 DEF SameKeys
    <3> QED BY <3>1, <3>2, <3>3
  <2> QED BY <2>1, <2>2 DEF Keys
<1>6. PICK f : f = ZeroGroup(s, i)
  OBVIOUS
<1>7. S = {j \in Instantaneous(s) : /\ s[j].track = s[i].track
                                    /\ s[j].generation = s[i].generation
                                    /\ Ns(s, j) = Ns(s, i)}
  BY <1>2 DEF Peers, Together
<1>7a. f = GroupOf(s, S)
  <2>1. ZeroGroup(s, i) = GroupOf(s, {j \in Instantaneous(s) : /\ s[j].track = s[i].track
                                                              /\ s[j].generation = s[i].generation
                                                              /\ Ns(s, j) = Ns(s, i)})
    BY DEF ZeroGroup, GroupOf, GroupKey, Sorted
  <2> QED BY <1>6, <1>7, <2>1
<1>8. f = [n \in 1..Cardinality(S) |-> PlacedIn(s, S, n)]
  <2>1. GroupOf(s, S) = [n \in 1..Cardinality(S) |-> PlacedIn(s, S, n)]
    BY Zenon DEF GroupOf, Sorted, PlacedIn
  <2> QED BY <1>7a, <2>1, Zenon
<1>9. \A x \in S : {y \in S : LexLess(GroupKey(s, y), GroupKey(s, x))} = Below(S, K, x)
  BY <1>2 DEF Below, GroupKeys
<1>10. \A n : PlacedIn(s, S, n) = Ranked(S, K, n)
  BY <1>9 DEF PlacedIn, Ranked
<1>11. f = [n \in 1..Cardinality(S) |-> Ranked(S, K, n)]
  BY <1>8, <1>10
<1>12. SortedBy(f, S, K)
  BY <1>4, <1>5, <1>11, SortedIs
<1> QED BY <1>2, <1>3, <1>4, <1>5, <1>6, <1>7a, <1>12

NewComponent(s, group, n) ==
  [first |-> n, start |-> StartTick(s[group[n]]), end |-> s[group[n]].tick]
OpensComponent(s, group, c, n) ==
  /\ StartTick(s[group[n]]) >= c.end
  /\ ~(StartTick(s[group[n]]) = c.start /\ s[group[n]].tick = c.end)
CompStep(s, group, f, n) ==
  IF n = 1 THEN NewComponent(s, group, n)
  ELSE IF OpensComponent(s, group, f[n - 1], n) THEN NewComponent(s, group, n)
  ELSE [f[n - 1] EXCEPT !.end = Max({@, s[group[n]].tick})]
CompTo(s, group, f, N, k) ==
  /\ f = [n \in 1..N |-> f[n]]
  /\ \A n \in 1..N : n <= k => f[n] = CompStep(s, group, f, n)

LEMMA CompExists ==
  ASSUME NEW s, NEW group, NEW N \in Nat
  PROVE  \E f : f = [n \in 1..N |-> CompStep(s, group, f, n)]
<1> DEFINE Bad == {k \in Nat : ~\E f : CompTo(s, group, f, N, k)}
<1>1. 0 \notin Bad
  <2> DEFINE f == [n \in 1..N |-> s]
  <2>1. CompTo(s, group, f, N, 0)
    BY DEF CompTo
  <2> QED BY <2>1
<1>2. ASSUME NEW k \in Nat, k \notin Bad PROVE k + 1 \notin Bad
  <2>1. PICK f : CompTo(s, group, f, N, k)
    BY <1>2
  <2> DEFINE g == [n \in 1..N |-> IF n = k + 1 THEN CompStep(s, group, f, n) ELSE f[n]]
  <2>2. /\ \A n \in 1..N : g[n] = IF n = k + 1 THEN CompStep(s, group, f, n) ELSE f[n]
        /\ g = [n \in 1..N |-> g[n]]
    OBVIOUS
  <2> HIDE DEF g
  <2>3. ASSUME NEW n \in 1..N, n <= k + 1 PROVE g[n] = CompStep(s, group, g, n)
    <3>1. n # 1 => n - 1 \in 1..N /\ n - 1 # k + 1
      BY <2>3
    <3>2. n # 1 => g[n - 1] = f[n - 1]
      BY <2>2, <3>1
    <3>3. CompStep(s, group, g, n) = CompStep(s, group, f, n)
      BY <3>2 DEF CompStep
    <3>4. n # k + 1 => n <= k
      BY <2>3
    <3> QED BY <2>1, <2>2, <3>3, <3>4 DEF CompTo
  <2>4. CompTo(s, group, g, N, k + 1)
    BY <2>2, <2>3 DEF CompTo
  <2> QED BY <2>4
<1>3. Bad = {}
  <2> SUFFICES ASSUME Bad # {} PROVE FALSE
    OBVIOUS
  <2>1. Bad \in SUBSET Nat
    OBVIOUS
  <2>2. PICK m : m = Min(Bad)
    OBVIOUS
  <2>3. m \in Bad /\ m \in Nat /\ \A k \in Bad : m <= k
    BY <2>1, <2>2, MinIs
  <2> HIDE DEF Bad
  <2>4. m # 0
    BY <1>1, <2>3
  <2>5. m - 1 \in Nat /\ m - 1 \notin Bad /\ (m - 1) + 1 = m
    BY <2>3, <2>4
  <2> QED BY <1>2, <2>3, <2>5
<1>4. PICK f : CompTo(s, group, f, N, N)
  BY <1>3
<1>5. f = [n \in 1..N |-> CompStep(s, group, f, n)]
  BY <1>4 DEF CompTo
<1> QED BY <1>5

LEMMA CompsAre ==
  ASSUME NEW s, NEW group, NEW N \in Nat, DOMAIN group = 1..N
  PROVE  \A n \in 1..N :
           Components(s, group)[n] = CompStep(s, group, Components(s, group), n)
<1> DEFINE at[n \in DOMAIN group] ==
             LET x   == s[group[n]]
                 new == [first |-> n, start |-> StartTick(x), end |-> x.tick]
             IN  IF n = 1 THEN new
                 ELSE LET c == at[n - 1]
                      IN  IF /\ StartTick(x) >= c.end
                             /\ ~(StartTick(x) = c.start /\ x.tick = c.end)
                          THEN new
                          ELSE [c EXCEPT !.end = Max({@, x.tick})]
<1>1. Components(s, group) = at
  BY Zenon DEF Components
<1>2. at = CHOOSE f : f = [n \in DOMAIN group |->
             IF n = 1 THEN [first |-> n, start |-> StartTick(s[group[n]]), end |-> s[group[n]].tick]
             ELSE IF /\ StartTick(s[group[n]]) >= f[n - 1].end
                     /\ ~(StartTick(s[group[n]]) = f[n - 1].start /\ s[group[n]].tick = f[n - 1].end)
             THEN [first |-> n, start |-> StartTick(s[group[n]]), end |-> s[group[n]].tick]
             ELSE [f[n - 1] EXCEPT !.end = Max({@, s[group[n]].tick})]]
  BY Zenon
<1> HIDE DEF at
<1>3. at = CHOOSE f : f = [n \in 1..N |-> CompStep(s, group, f, n)]
  BY <1>2, Zenon DEF CompStep, NewComponent, OpensComponent
<1>4. at = [n \in 1..N |-> CompStep(s, group, at, n)]
  BY <1>3, CompExists, Zenon
<1>5. \A n \in 1..N : at[n] = CompStep(s, group, at, n)
  BY <1>4
<1> QED BY <1>1, <1>5

LEMMA SortedFacts ==
  ASSUME NEW S, IsFiniteSet(S), NEW K, NEW d \in Nat, Keys(S, K, d), NEW f, SortedBy(f, S, K)
  PROVE  /\ Cardinality(S) \in Nat /\ DOMAIN f = 1..Cardinality(S)
         /\ \A n, m \in DOMAIN f : f[n] = f[m] => n = m
         /\ \A n, m \in DOMAIN f : LexLess(K[f[n]], K[f[m]]) => n < m
<1>1. PICK N : N = Cardinality(S)
  OBVIOUS
<1>2. N \in Nat /\ DOMAIN f = 1..N
  BY <1>1, FS_CardinalityType DEF SortedBy
<1>3. \A n \in 1..N : f[n] \in S /\ Keyed(K[f[n]], d)
  BY <1>2 DEF SortedBy, Keys
<1>4. \A n, m \in 1..N : n < m => LexLess(K[f[n]], K[f[m]])
  BY <1>2 DEF SortedBy
<1>5. \A n \in 1..N : ~LexLess(K[f[n]], K[f[n]])
  BY <1>3, LexIrreflexive
<1>6. ASSUME NEW n \in 1..N, NEW m \in 1..N, f[n] = f[m] PROVE n = m
  <2>1. ~(n < m) /\ ~(m < n)
    BY <1>4, <1>5, <1>6
  <2> QED BY <1>2, <2>1
<1>7. ASSUME NEW n \in 1..N, NEW m \in 1..N, LexLess(K[f[n]], K[f[m]]) PROVE n < m
  <2>1. n # m
    BY <1>5, <1>7
  <2>2. ASSUME m < n PROVE FALSE
    <3>1. LexLess(K[f[m]], K[f[n]])
      BY <1>4, <2>2
    <3>2. LexLess(K[f[n]], K[f[n]])
      BY <1>3, <1>7, <3>1, LexTransitive
    <3> QED BY <1>5, <3>2
  <2> QED BY <1>2, <2>1, <2>2
<1> QED BY <1>1, <1>2, <1>6, <1>7

(* A component is a stretch of its group.                                   *)
LEMMA CompFirst ==
  ASSUME NEW s, Clocked(s), NEW group, NEW N \in Nat, DOMAIN group = 1..N,
         \A n \in 1..N : group[n] \in DOMAIN s,
         NEW C, C = Components(s, group)
  PROVE  \A n \in 1..N : /\ C[n] \in [first : Nat, start : Nat, end : Nat]
                         /\ C[n].first \in 1..n
                         /\ \A m \in C[n].first..n : C[m].first = C[n].first
<1>1. \A n \in 1..N : C[n] = CompStep(s, group, C, n)
  BY CompsAre
<1>2. \A n \in 1..N : s[group[n]].tick \in Nat /\ StartTick(s[group[n]]) \in Nat
  BY ItemsAre
<1> DEFINE Good(n) == /\ C[n] \in [first : Nat, start : Nat, end : Nat]
                      /\ C[n].first \in 1..n
                      /\ \A m \in C[n].first..n : C[m].first = C[n].first
           Bad == {n \in 1..N : ~Good(n)}
<1>3. ASSUME NEW n \in 1..N, C[n] = NewComponent(s, group, n) PROVE Good(n)
  <2>1. C[n] \in [first : Nat, start : Nat, end : Nat] /\ C[n].first = n
    BY <1>2, <1>3 DEF NewComponent
  <2> QED BY <2>1
<1>4. ASSUME NEW n \in 1..N, n # 1, Good(n - 1),
             C[n] = [C[n - 1] EXCEPT !.end = Max({@, s[group[n]].tick})]
      PROVE  Good(n)
  <2>1. PICK c, x, e : c = C[n - 1] /\ x = s[group[n]].tick /\ e = Max({c.end, x})
    OBVIOUS
  <2>2. c \in [first : Nat, start : Nat, end : Nat] /\ x \in Nat
    BY <1>2, <1>4, <2>1
  <2>3. e \in Nat
    <3>1. PICK z : z = c.end
      OBVIOUS
    <3>2. z \in Nat /\ {z, x} \in SUBSET (0..(z + x)) /\ z + x \in Nat
      BY <2>2, <3>1
    <3> QED BY <2>1, <3>1, <3>2, MaxIs
  <2>4. C[n] = [c EXCEPT !.end = e]
    BY <1>4, <2>1
  <2>5. C[n] \in [first : Nat, start : Nat, end : Nat] /\ C[n].first = c.first
    BY <2>2, <2>3, <2>4
  <2>6. /\ c.first \in 1..(n - 1) /\ \A m \in c.first..(n - 1) : C[m].first = c.first
    BY <1>4, <2>1
  <2>7. C[n].first \in 1..n
    BY <2>5, <2>6
  <2>8. \A m \in C[n].first..n : C[m].first = C[n].first
    <3> TAKE m \in C[n].first..n
    <3>1. m = n \/ m \in c.first..(n - 1)
      BY <2>5, <2>6
    <3> QED BY <2>5, <2>6, <3>1
  <2> QED BY <2>5, <2>7, <2>8
<1> SUFFICES ASSUME Bad # {} PROVE FALSE
  OBVIOUS
<1>5. Bad \in SUBSET Nat
  OBVIOUS
<1>6. PICK n : n = Min(Bad)
  OBVIOUS
<1>7. n \in Bad /\ \A k \in Bad : n <= k
  BY <1>5, <1>6, MinIs
<1>8. n \in 1..N /\ ~Good(n)
  BY <1>7
<1> HIDE DEF Good
<1>9. CASE n = 1
  <2>1. C[n] = NewComponent(s, group, n)
    BY <1>1, <1>8, <1>9 DEF CompStep
  <2> QED BY <1>3, <1>8, <2>1
<1>10. CASE n # 1
  <2>1. n - 1 \in 1..N /\ ~(n <= n - 1)
    BY <1>8, <1>10
  <2>2. Good(n - 1)
    <3>1. n - 1 \notin Bad
      <4> HIDE DEF Bad
      <4> QED BY <1>7, <2>1
    <3> QED BY <2>1, <3>1
  <2>3. \/ C[n] = NewComponent(s, group, n)
        \/ C[n] = [C[n - 1] EXCEPT !.end = Max({@, s[group[n]].tick})]
    <3>1. C[n] = CompStep(s, group, C, n)
      BY <1>1, <1>8
    <3> QED BY <1>10, <3>1 DEF CompStep
  <2> QED BY <1>3, <1>4, <1>8, <1>10, <2>2, <2>3
<1> QED BY <1>9, <1>10

(* Where a slice of no duration begins.                                     *)
Own(group, C, n) == {m \in DOMAIN group : C[m].first = C[n].first}
FirstOwn(group, C, n) == Min({group[m] : m \in Own(group, C, n)})
Suborder(group, C, n) == n - C[n].first - Cardinality(Own(group, C, n))
BeginsAt(s, i, group, C, n) ==
  /\ group = ZeroGroup(s, i) /\ C = Components(s, group) /\ n \in DOMAIN group /\ group[n] = i
  /\ ZeroBegin(s, i) = Action("begin", i, StartNs(s, i), 1, 0, FirstOwn(group, C, n),
                              Suborder(group, C, n))

LEMMA ZeroBeginIs ==
  ASSUME NEW s, Steady(s), NEW i \in Instantaneous(s)
  PROVE  \E group, C, n :
           /\ BeginsAt(s, i, group, C, n)
           /\ FirstOwn(group, C, n) \in Peers(s, i)
           /\ \E m \in Own(group, C, n) : group[m] = FirstOwn(group, C, n)
           /\ \A m \in Own(group, C, n) : FirstOwn(group, C, n) <= group[m]
           /\ Suborder(group, C, n) \in Int /\ Suborder(group, C, n) < 0
<1>1. Clocked(s)
  BY DEF Steady
<1>2. PICK S, K : S = Peers(s, i) /\ K = GroupKeys(s, S)
  OBVIOUS
<1>3. PICK group : group = ZeroGroup(s, i)
  OBVIOUS
<1>4. IsFiniteSet(S) /\ i \in S /\ S \subseteq DOMAIN s /\ SortedBy(group, S, K) /\ Keys(S, K, 3)
  BY <1>2, <1>3, GroupIs
<1>5. PICK N : N = Cardinality(S)
  OBVIOUS
<1>6. N \in Nat /\ DOMAIN group = 1..N /\ \A m \in 1..N : group[m] \in S
  BY <1>4, <1>5, FS_CardinalityType DEF SortedBy
<1>7. \A m, k \in 1..N : group[m] = group[k] => m = k
  BY <1>4, <1>6, SortedFacts
<1>8. PICK n : n = CHOOSE m \in DOMAIN group : group[m] = i
  OBVIOUS
<1>9. n \in 1..N /\ group[n] = i
  <2>1. \E m \in DOMAIN group : group[m] = i
    BY <1>4 DEF SortedBy
  <2> QED BY <1>6, <1>8, <2>1
<1>10. PICK C : C = Components(s, group)
  OBVIOUS
<1>11. \A m \in 1..N : /\ C[m].first \in 1..m
                       /\ \A k \in C[m].first..m : C[k].first = C[m].first
  <2>1. \A m \in 1..N : group[m] \in DOMAIN s
    BY <1>4, <1>6
  <2> QED BY <1>1, <1>6, <1>10, <2>1, CompFirst
<1>12. PICK O : O = Own(group, C, n)
  OBVIOUS
<1>13. O \subseteq 1..N /\ n \in O
  BY <1>6, <1>9, <1>12 DEF Own
<1>14. IsFiniteSet(O) /\ Cardinality(O) \in Nat
  <2>1. IsFiniteSet(1..N)
    BY <1>6, FS_Interval
  <2> QED BY <1>13, <2>1, FS_Subset, FS_CardinalityType
<1>15. PICK f : f = C[n].first
  OBVIOUS
<1>16. f \in 1..n /\ f \in Nat /\ n \in Nat /\ f <= n /\ n <= N
  BY <1>9, <1>11, <1>15
<1>17. (f..n) \subseteq O
  <2> SUFFICES ASSUME NEW k \in f..n PROVE k \in O
    OBVIOUS
  <2>1. k \in 1..N
    BY <1>6, <1>16
  <2>2. \A l \in C[n].first..n : C[l].first = C[n].first
    BY <1>9, <1>11
  <2>3. C[k].first = C[n].first
    BY <1>15, <2>2
  <2> QED BY <1>6, <1>12, <2>1, <2>3 DEF Own
<1>18. n - f + 1 <= Cardinality(O)
  <2>1. Cardinality(f..n) = n - f + 1
    <3>1. f \in Int /\ n \in Int /\ ~(f > n)
      BY <1>16
    <3>2. Cardinality(f..n) = IF f > n THEN 0 ELSE n - f + 1
      BY <3>1, FS_Interval
    <3> QED BY <3>1, <3>2
  <2> QED BY <1>14, <1>17, <2>1, FS_Subset
<1>19. Suborder(group, C, n) \in Int /\ Suborder(group, C, n) < 0
  <2>1. PICK k : k = Cardinality(O)
    OBVIOUS
  <2>2. k \in Nat /\ n - f + 1 <= k
    BY <1>14, <1>18, <2>1
  <2>3. Suborder(group, C, n) = n - f - k
    BY <1>12, <1>15, <2>1 DEF Suborder
  <2> QED BY <1>16, <2>2, <2>3
<1>20. PICK M : M = {group[m] : m \in O}
  OBVIOUS
<1>21. M \in SUBSET Nat /\ M # {} /\ M \subseteq S
  <2>1. M \subseteq S
    BY <1>6, <1>13, <1>20
  <2>2. M # {}
    BY <1>13, <1>20
  <2>3. S \subseteq Nat
    BY <1>1, <1>4, ItemsAre
  <2> QED BY <2>1, <2>2, <2>3
<1>22. Min(M) \in M /\ \A y \in M : Min(M) <= y
  BY <1>21, MinIs
<1>23. FirstOwn(group, C, n) = Min(M)
  BY <1>12, <1>20 DEF FirstOwn
<1>24. FirstOwn(group, C, n) \in Peers(s, i)
  BY <1>2, <1>21, <1>22, <1>23
<1>25. \E m \in Own(group, C, n) : group[m] = FirstOwn(group, C, n)
  BY <1>12, <1>20, <1>22, <1>23
<1>26. \A m \in Own(group, C, n) : FirstOwn(group, C, n) <= group[m]
  BY <1>12, <1>20, <1>22, <1>23
<1>27. BeginsAt(s, i, group, C, n)
  <2>1. ZeroBegin(s, i) = BeginOf(i, StartNs(s, i), group, C)
    BY <1>3, <1>10, Zenon DEF ZeroBegin
  <2>2. BeginOf(i, StartNs(s, i), group, C)
          = Action("begin", i, StartNs(s, i), 1, 0, FirstOwn(group, C, n), Suborder(group, C, n))
    BY <1>8, Zenon DEF BeginOf, FirstOwn, Suborder, Own
  <2> QED BY <1>3, <1>6, <1>9, <1>10, <2>1, <2>2 DEF BeginsAt
<1> QED BY <1>19, <1>24, <1>25, <1>26, <1>27
----------------------------------------------------------------------------
(* The actions of a conversion: the begin of a slice that lasts, that of    *)
(* one that does not, and what is written at the place of an item.          *)
Late(s, i) ==
  Action("begin", i, StartNs(s, i), 2, StartNs(s, i) - Ns(s, i), -i, 0)
WhatIs(s, i) ==
  IF i \in Slices(s) THEN "end"
  ELSE IF i \in Asyncs(s)
       THEN IF s[i].kind = "async_end" /\ ~AsyncOpen(s, i) THEN "orphan_end" ELSE s[i].kind
  ELSE IF i \in Flows(s)
       THEN IF Lifecycle(s)[i] = 0 THEN "flow_orphan" ELSE s[i].kind
  ELSE "clock_sync"
Plain(s, i, k) ==
  IF k = 0 THEN Action(WhatIs(s, i), i, Ns(s, i), 1, 0, i, 0)
  ELSE IF k = -1 THEN Action("async_end", Previous(s, AsyncKinds, i), Ns(s, i), 1, 0, i, -1)
  ELSE IF i \in Slices(s) THEN Action("end", i, Ns(s, i), 1, 0, i, 1)
  ELSE Action("async_end", i, LastNs(s), 1, 0, i, 1)

LEMMA LastNsIs ==
  ASSUME NEW s, Steady(s), s # <<>>
  PROVE  LastNs(s) \in Int /\ \A i \in DOMAIN s : Ns(s, i) <= LastNs(s)
<1>1. PICK n : n = Len(s)
  OBVIOUS
<1>2. Clocked(s) /\ s \in Seq(ItemType)
  BY DEF Steady, Clocked
<1>3. n \in Nat /\ DOMAIN s = 1..n
  BY <1>1, <1>2, ItemsAre
<1>4. n \in 1..n
  BY <1>1, <1>2, <1>3, EmptySeq
<1>5. PICK S : S = {Ns(s, i) : i \in DOMAIN s}
  OBVIOUS
<1>6. Ns(s, n) \in S /\ \A y \in S : Ns(s, n) >= y
  <2>1. ASSUME NEW i \in DOMAIN s PROVE Ns(s, n) >= Ns(s, i)
    <3>1. i <= n /\ n \in DOMAIN s
      BY <1>3, <1>4
    <3>2. Ns(s, i) <= Ns(s, n) /\ Ns(s, i) \in Int /\ Ns(s, n) \in Int
      BY <3>1 DEF Steady
    <3> QED BY <3>2
  <2> QED BY <1>3, <1>4, <1>5, <2>1
<1>7. PICK m : m = Max(S)
  OBVIOUS
<1>8. m \in S /\ \A y \in S : m >= y
  BY <1>6, <1>7, Zenon DEF Max
<1>9. \A y \in S : y \in Int
  BY <1>5 DEF Steady
<1>10. \A i \in DOMAIN s : Ns(s, i) \in S
  BY <1>5
<1>11. LastNs(s) = m
  BY <1>5, <1>7 DEF LastNs
<1> QED BY <1>8, <1>9, <1>10, <1>11

LEMMA KindsApart ==
  ASSUME NEW s
  PROVE  /\ Slices(s) \cap Asyncs(s) = {} /\ Slices(s) \cap Flows(s) = {}
         /\ Slices(s) \cap Syncs(s) = {} /\ Asyncs(s) \cap Flows(s) = {}
         /\ Asyncs(s) \cap Syncs(s) = {} /\ Flows(s) \cap Syncs(s) = {}
         /\ Instantaneous(s) \subseteq Slices(s)
BY DEF Slices, Asyncs, Flows, Syncs, IsSync, AsyncKinds, FlowKinds, Instantaneous

LEMMA ActionIs ==
  ASSUME NEW s, NEW a \in Actions(s)
  PROVE  \/ \E i \in Slices(s) : a = Late(s, i)
         \/ \E i \in Instantaneous(s) : a = ZeroBegin(s, i)
         \/ \E i \in DOMAIN s, k \in {-1, 0, 1} :
              a = Plain(s, i, k) /\ (k = -1 => i \in Asyncs(s)) /\ (k = 1 => i \notin Flows(s))
<1>1. CASE a \in SliceActions(s)
  <2>1. PICK i \in Slices(s) : a \in (IF i \in Instantaneous(s)
           THEN {ZeroBegin(s, i), Action("end", i, Ns(s, i), 1, 0, i, 1)}
           ELSE {Action("begin", i, StartNs(s, i), 2, StartNs(s, i) - Ns(s, i), -i, 0),
                 Action("end", i, Ns(s, i), 1, 0, i, 0)})
    BY <1>1, Zenon DEF SliceActions
  <2>2. i \in DOMAIN s
    BY DEF Slices
  <2>3. Plain(s, i, 1) = Action("end", i, Ns(s, i), 1, 0, i, 1)
    BY DEF Plain
  <2>4. Plain(s, i, 0) = Action("end", i, Ns(s, i), 1, 0, i, 0)
    BY DEF Plain, WhatIs
  <2>5. Late(s, i) = Action("begin", i, StartNs(s, i), 2, StartNs(s, i) - Ns(s, i), -i, 0)
    BY Zenon DEF Late
  <2>6. \/ i \in Instantaneous(s) /\ a = ZeroBegin(s, i)
        \/ a = Plain(s, i, 1) \/ a = Plain(s, i, 0) \/ a = Late(s, i)
    BY <2>1, <2>3, <2>4, <2>5, Zenon
  <2>7. 1 # -1 /\ 0 # -1 /\ 0 # 1
    OBVIOUS
  <2>8. i \notin Flows(s)
    BY KindsApart
  <2> QED BY <2>2, <2>6, <2>7, <2>8, Zenon
<1>2. CASE a \in AsyncActions(s)
  <2>1. CASE \E i \in Asyncs(s) :
               a = Action(IF s[i].kind = "async_end" /\ ~AsyncOpen(s, i) THEN "orphan_end"
                          ELSE s[i].kind, i, Ns(s, i), 1, 0, i, 0)
    <3>1. PICK i \in Asyncs(s) :
               a = Action(IF s[i].kind = "async_end" /\ ~AsyncOpen(s, i) THEN "orphan_end"
                          ELSE s[i].kind, i, Ns(s, i), 1, 0, i, 0)
      BY <2>1
    <3>2. i \in DOMAIN s /\ i \notin Slices(s)
      BY KindsApart DEF Asyncs
    <3>3. a = Plain(s, i, 0)
      BY <3>1, <3>2 DEF Plain, WhatIs
    <3> QED BY <3>2, <3>3
  <2>2. CASE \E i \in {j \in Asyncs(s) : s[j].kind = "async_begin" /\ AsyncOpen(s, j)} :
               a = Action("async_end", Previous(s, AsyncKinds, i), Ns(s, i), 1, 0, i, -1)
    <3>1. PICK i \in Asyncs(s) :
               a = Action("async_end", Previous(s, AsyncKinds, i), Ns(s, i), 1, 0, i, -1)
      BY <2>2
    <3>2. i \in DOMAIN s
      BY DEF Asyncs
    <3>3. a = Plain(s, i, -1)
      BY <3>1 DEF Plain
    <3> QED BY <3>2, <3>3
  <2>3. CASE \E i \in StillOpen(s) : a = Action("async_end", i, LastNs(s), 1, 0, i, 1)
    <3>1. PICK i \in StillOpen(s) : a = Action("async_end", i, LastNs(s), 1, 0, i, 1)
      BY <2>3
    <3>2. i \in DOMAIN s /\ i \notin Slices(s) /\ i \notin Flows(s)
      BY KindsApart DEF Asyncs, StillOpen
    <3>3. a = Plain(s, i, 1)
      BY <3>1, <3>2 DEF Plain
    <3> QED BY <3>2, <3>3
  <2> QED BY <1>2, <2>1, <2>2, <2>3, Zenon DEF AsyncActions
<1>3. CASE a \in FlowActions(s)
  <2>1. PICK i \in Flows(s) :
               a = Action(IF Lifecycle(s)[i] = 0 THEN "flow_orphan" ELSE s[i].kind,
                          i, Ns(s, i), 1, 0, i, 0)
    BY <1>3, Zenon DEF FlowActions
  <2>2. i \in DOMAIN s /\ i \notin Slices(s) /\ i \notin Asyncs(s)
    BY KindsApart DEF Flows
  <2>3. WhatIs(s, i) = IF Lifecycle(s)[i] = 0 THEN "flow_orphan" ELSE s[i].kind
    BY <2>2, Zenon DEF WhatIs
  <2>4. Plain(s, i, 0) = Action(WhatIs(s, i), i, Ns(s, i), 1, 0, i, 0)
    BY DEF Plain
  <2>5. a = Plain(s, i, 0)
    BY <2>1, <2>3, <2>4, Zenon
  <2>6. 0 # -1 /\ 0 # 1
    OBVIOUS
  <2> QED BY <2>2, <2>5, <2>6, Zenon
<1>4. CASE a \in SyncActions(s)
  <2>1. PICK i \in Syncs(s) : a = Action("clock_sync", i, Ns(s, i), 1, 0, i, 0)
    BY <1>4, Zenon DEF SyncActions
  <2>2. i \in DOMAIN s /\ i \notin Slices(s) /\ i \notin Asyncs(s) /\ i \notin Flows(s)
    BY KindsApart DEF Syncs
  <2>3. WhatIs(s, i) = "clock_sync"
    BY <2>2, Zenon DEF WhatIs
  <2>4. Plain(s, i, 0) = Action(WhatIs(s, i), i, Ns(s, i), 1, 0, i, 0)
    BY DEF Plain
  <2>5. a = Plain(s, i, 0)
    BY <2>1, <2>3, <2>4, Zenon
  <2>6. 0 # -1 /\ 0 # 1
    OBVIOUS
  <2> QED BY <2>2, <2>5, <2>6, Zenon
<1> QED BY <1>1, <1>2, <1>3, <1>4, Zenon DEF Actions

LEMMA PlainKey ==
  ASSUME NEW s, Steady(s), NEW i \in DOMAIN s, NEW k \in {-1, 0, 1}
  PROVE  \E ns \in Int : Plain(s, i, k).key = <<ns, 1, 0, i, k>>
<1>1. s # <<>>
  OBVIOUS
<1>2. LastNs(s) \in Int /\ Ns(s, i) \in Int
  BY <1>1, LastNsIs DEF Steady
<1>3. CASE k = 0
  BY <1>2, <1>3 DEF Plain, Action
<1>4. CASE k = -1
  BY <1>2, <1>4 DEF Plain, Action
<1>5. CASE k = 1 /\ i \in Slices(s)
  BY <1>2, <1>5 DEF Plain, Action
<1>6. CASE k = 1 /\ i \notin Slices(s)
  BY <1>2, <1>6 DEF Plain, Action
<1> QED BY <1>3, <1>4, <1>5, <1>6

LEMMA ZeroKey ==
  ASSUME NEW s, Steady(s), NEW i \in Instantaneous(s)
  PROVE  \E f \in Slices(s), k \in Int :
           k < 0 /\ ZeroBegin(s, i).key = <<StartNs(s, i), 1, 0, f, k>>
<1>1. PICK group, C, n :
           /\ BeginsAt(s, i, group, C, n)
           /\ FirstOwn(group, C, n) \in Peers(s, i)
           /\ Suborder(group, C, n) \in Int /\ Suborder(group, C, n) < 0
  BY ZeroBeginIs
<1>2. FirstOwn(group, C, n) \in Slices(s)
  BY <1>1, KindsApart DEF Peers
<1>3. ZeroBegin(s, i).key = <<StartNs(s, i), 1, 0, FirstOwn(group, C, n), Suborder(group, C, n)>>
  BY <1>1 DEF BeginsAt, Action
<1> QED BY <1>1, <1>2, <1>3

(* The begins of slices of no duration differ in their keys.                *)
LEMMA ZeroKeysDiffer ==
  ASSUME NEW s, Steady(s), NEW i \in Instantaneous(s), NEW j \in Instantaneous(s),
         ZeroBegin(s, i).key[4] = ZeroBegin(s, j).key[4],
         ZeroBegin(s, i).key[5] = ZeroBegin(s, j).key[5]
  PROVE  i = j
<1>1. PICK group, C, n :
           /\ BeginsAt(s, i, group, C, n)
           /\ FirstOwn(group, C, n) \in Peers(s, i)
           /\ \E m \in Own(group, C, n) : group[m] = FirstOwn(group, C, n)
  BY ZeroBeginIs
<1>2. PICK groupj, Cj, nj :
           /\ BeginsAt(s, j, groupj, Cj, nj)
           /\ FirstOwn(groupj, Cj, nj) \in Peers(s, j)
           /\ \E m \in Own(groupj, Cj, nj) : groupj[m] = FirstOwn(groupj, Cj, nj)
  BY ZeroBeginIs
<1>3. PICK f : f = FirstOwn(group, C, n)
  OBVIOUS
<1>4. /\ f = FirstOwn(groupj, Cj, nj)
      /\ Suborder(group, C, n) = Suborder(groupj, Cj, nj)
  BY <1>1, <1>2, <1>3 DEF BeginsAt, Action
<1>5. Peers(s, i) = Peers(s, j)
  <2>1. Together(s, f, i) /\ Together(s, f, j)
    BY <1>1, <1>2, <1>3, <1>4 DEF Peers
  <2> QED BY <2>1 DEF Peers, Together
<1>6. group = groupj /\ C = Cj
  BY <1>1, <1>2, <1>5, GroupIs, Zenon DEF BeginsAt
<1>7. PICK S, K : S = Peers(s, i) /\ K = GroupKeys(s, S)
  OBVIOUS
<1>8. IsFiniteSet(S) /\ SortedBy(group, S, K) /\ Keys(S, K, 3)
  BY <1>1, <1>7, GroupIs DEF BeginsAt
<1>9. DOMAIN group = 1..Cardinality(S) /\ \A m, k \in DOMAIN group : group[m] = group[k] => m = k
  BY <1>8, SortedFacts
<1>10. C[n].first = C[nj].first
  BY <1>1, <1>2, <1>3, <1>4, <1>6, <1>9 DEF Own
<1>11. Own(group, C, n) = Own(group, C, nj)
  BY <1>10 DEF Own
<1>12. PICK c : c = Cardinality(Own(group, C, n))
  OBVIOUS
<1>13. n \in Nat /\ nj \in Nat
  BY <1>1, <1>2, <1>6, <1>8, <1>9, FS_CardinalityType DEF BeginsAt
<1>14. n - C[n].first - c = nj - C[n].first - c
  BY <1>4, <1>6, <1>10, <1>11, <1>12 DEF Suborder
<1>15. C[n].first \in Int /\ c \in Int
  <2>1. IsFiniteSet(Own(group, C, n))
    <3>1. IsFiniteSet(DOMAIN group)
      BY <1>8, <1>9, FS_CardinalityType, FS_Interval
    <3> QED BY <3>1, FS_Subset DEF Own
  <2>2. \A m \in DOMAIN group : group[m] \in DOMAIN s
    BY <1>7, <1>8 DEF SortedBy, Peers, Instantaneous, Slices
  <2>3. \A m \in 1..Cardinality(S) : C[m].first \in 1..m
    BY <1>1, <1>8, <1>9, <2>2, CompFirst, FS_CardinalityType DEF BeginsAt, Steady
  <2> QED BY <1>1, <1>9, <1>12, <2>1, <2>3, FS_CardinalityType DEF BeginsAt
<1>16. n = nj
  <2>1. PICK x : x = C[n].first
    OBVIOUS
  <2>2. x \in Int /\ n - x - c = nj - x - c
    BY <1>14, <1>15, <2>1
  <2> QED BY <1>13, <1>15, <2>2
<1> QED BY <1>1, <1>2, <1>6, <1>16 DEF BeginsAt

(* The actions are finitely many and differ in their keys.                  *)
ActionKeys(A) == [a \in A |-> a.key]

LEMMA ActionsFinite ==
  ASSUME NEW s, Steady(s)
  PROVE  IsFiniteSet(Actions(s))
<1>1. Len(s) \in Nat /\ DOMAIN s = 1..Len(s)
  BY ItemsAre DEF Steady
<1>2. IsFiniteSet(DOMAIN s)
  BY <1>1, FS_Interval
<1>3. IsFiniteSet({-1, 0, 1})
  <2>1. PICK l \in Int : l = -1
    OBVIOUS
  <2>2. {-1, 0, 1} = l..1
    BY <2>1
  <2>3. IsFiniteSet(l..1)
    BY FS_Interval
  <2> QED BY <2>2, <2>3
<1>4. PICK P : P = (DOMAIN s) \X {-1, 0, 1}
  OBVIOUS
<1>5. IsFiniteSet(P)
  BY <1>2, <1>3, <1>4, FS_Product
<1>6. PICK F, T : F = [p \in P |-> Plain(s, p[1], p[2])] /\ T = {F[p] : p \in P}
  OBVIOUS
<1>7. IsFiniteSet(T)
  <2>1. F \in Surjection(P, T)
    BY <1>6 DEF Surjection
  <2> QED BY <1>5, <2>1, FS_Surjection
<1>8. PICK G, U : G = [i \in DOMAIN s |-> Late(s, i)] /\ U = {G[i] : i \in DOMAIN s}
  OBVIOUS
<1>9. IsFiniteSet(U)
  <2>1. G \in Surjection(DOMAIN s, U)
    BY <1>8 DEF Surjection
  <2> QED BY <1>2, <2>1, FS_Surjection
<1>10. PICK H, V : H = [i \in DOMAIN s |-> ZeroBegin(s, i)] /\ V = {H[i] : i \in DOMAIN s}
  OBVIOUS
<1>11. IsFiniteSet(V)
  <2>1. H \in Surjection(DOMAIN s, V)
    BY <1>10 DEF Surjection
  <2> QED BY <1>2, <2>1, FS_Surjection
<1>12. ASSUME NEW a \in Actions(s) PROVE a \in (T \cup U) \cup V
  <2>1. CASE \E i \in Slices(s) : a = Late(s, i)
    BY <1>8, <2>1 DEF Slices
  <2>2. CASE \E i \in Instantaneous(s) : a = ZeroBegin(s, i)
    BY <1>10, <2>2 DEF Instantaneous, Slices
  <2>3. CASE \E i \in DOMAIN s, k \in {-1, 0, 1} : a = Plain(s, i, k)
    <3>1. PICK i \in DOMAIN s, k \in {-1, 0, 1} : a = Plain(s, i, k)
      BY <2>3
    <3>2. <<i, k>> \in P /\ F[<<i, k>>] = a
      BY <1>4, <1>6, <3>1
    <3> QED BY <1>6, <3>2
  <2> QED BY <2>1, <2>2, <2>3, ActionIs
<1>13. IsFiniteSet((T \cup U) \cup V)
  <2>1. IsFiniteSet(T \cup U)
    BY <1>7, <1>9, FS_Union
  <2> QED BY <1>11, <2>1, FS_Union
<1> QED BY <1>12, <1>13, FS_Subset

LEMMA ActionKeyed ==
  ASSUME NEW s, Steady(s), NEW a \in Actions(s)
  PROVE  Keyed(a.key, 5)
<1>0. Len(s) \in Nat /\ DOMAIN s = 1..Len(s)
  BY ItemsAre DEF Steady
<1>1. CASE \E i \in Slices(s) : a = Late(s, i)
  <2>1. PICK i \in Slices(s) : a = Late(s, i)
    BY <1>1
  <2>2. i \in Int /\ StartNs(s, i) \in Int /\ Ns(s, i) \in Int
    BY <1>0 DEF Slices, Steady
  <2>3. a.key = <<StartNs(s, i), 2, StartNs(s, i) - Ns(s, i), -i, 0>>
    BY <2>1 DEF Late, Action
  <2> QED BY <2>2, <2>3 DEF Keyed
<1>2. CASE \E i \in Instantaneous(s) : a = ZeroBegin(s, i)
  <2>1. PICK i \in Instantaneous(s) : a = ZeroBegin(s, i)
    BY <1>2
  <2>2. PICK f \in Slices(s), k \in Int : a.key = <<StartNs(s, i), 1, 0, f, k>>
    BY <2>1, ZeroKey
  <2>3. f \in Int /\ StartNs(s, i) \in Int
    BY <1>0 DEF Slices, Steady, Instantaneous
  <2> QED BY <2>2, <2>3 DEF Keyed
<1>3. CASE \E i \in DOMAIN s, k \in {-1, 0, 1} : a = Plain(s, i, k)
  <2>1. PICK i \in DOMAIN s, k \in {-1, 0, 1} : a = Plain(s, i, k)
    BY <1>3
  <2>2. PICK ns \in Int : a.key = <<ns, 1, 0, i, k>>
    BY <2>1, PlainKey
  <2>3. i \in Int /\ k \in Int
    BY <1>0
  <2> QED BY <2>2, <2>3 DEF Keyed
<1> QED BY <1>1, <1>2, <1>3, ActionIs

LEMMA PlainKeysDiffer ==
  ASSUME NEW s, Steady(s), NEW i \in DOMAIN s, NEW k \in {-1, 0, 1},
         k = -1 => i \in Asyncs(s), NEW b \in Actions(s),
         SameKeys(Plain(s, i, k).key, b.key, 5)
  PROVE  b = Plain(s, i, k)
<1>1. PICK ns \in Int : Plain(s, i, k).key = <<ns, 1, 0, i, k>>
  BY PlainKey
<1>2. b.key[2] = 1 /\ b.key[4] = i /\ b.key[5] = k
  BY <1>1 DEF SameKeys
<1>3. CASE \E j \in Slices(s) : b = Late(s, j)
  BY <1>2, <1>3 DEF Late, Action
<1>4. CASE \E j \in Instantaneous(s) : b = ZeroBegin(s, j)
  <2>1. PICK j \in Instantaneous(s) : b = ZeroBegin(s, j)
    BY <1>4
  <2>2. PICK f \in Slices(s), m \in Int : m < 0 /\ b.key = <<StartNs(s, j), 1, 0, f, m>>
    BY <2>1, ZeroKey
  <2>3. i \in Slices(s) /\ k = -1
    BY <1>2, <2>2
  <2> QED BY <2>3, KindsApart
<1>5. CASE \E j \in DOMAIN s, m \in {-1, 0, 1} : b = Plain(s, j, m)
  <2>1. PICK j \in DOMAIN s, m \in {-1, 0, 1} : b = Plain(s, j, m)
    BY <1>5
  <2>2. PICK ms \in Int : b.key = <<ms, 1, 0, j, m>>
    BY <2>1, PlainKey
  <2>3. j = i /\ m = k
    BY <1>2, <2>2
  <2> QED BY <2>1, <2>3
<1> QED BY <1>3, <1>4, <1>5, ActionIs

LEMMA ActionKeysDiffer ==
  ASSUME NEW s, Steady(s), NEW a \in Actions(s), NEW b \in Actions(s),
         SameKeys(a.key, b.key, 5)
  PROVE  a = b
<1>0. Len(s) \in Nat /\ DOMAIN s = 1..Len(s)
  BY ItemsAre DEF Steady
<1>1. CASE \E i \in DOMAIN s, k \in {-1, 0, 1} :
              a = Plain(s, i, k) /\ (k = -1 => i \in Asyncs(s))
  BY <1>1, PlainKeysDiffer
<1>2. CASE \E i \in DOMAIN s, k \in {-1, 0, 1} :
              b = Plain(s, i, k) /\ (k = -1 => i \in Asyncs(s))
  <2>1. SameKeys(b.key, a.key, 5)
    BY DEF SameKeys
  <2> QED BY <1>2, <2>1, PlainKeysDiffer
<1>3. CASE \E i \in Slices(s), j \in Slices(s) : a = Late(s, i) /\ b = Late(s, j)
  <2>1. PICK i \in Slices(s), j \in Slices(s) : a = Late(s, i) /\ b = Late(s, j)
    BY <1>3
  <2>2. a.key[4] = -i /\ b.key[4] = -j /\ a.key[4] = b.key[4]
    BY <2>1 DEF Late, Action, SameKeys
  <2>3. i \in Nat /\ j \in Nat
    BY <1>0 DEF Slices
  <2>4. i = j
    BY <2>2, <2>3
  <2> QED BY <2>1, <2>4
<1>4. CASE \E i \in Instantaneous(s), j \in Instantaneous(s) :
              a = ZeroBegin(s, i) /\ b = ZeroBegin(s, j)
  <2>1. PICK i \in Instantaneous(s), j \in Instantaneous(s) :
              a = ZeroBegin(s, i) /\ b = ZeroBegin(s, j)
    BY <1>4
  <2>2. a.key[4] = b.key[4] /\ a.key[5] = b.key[5]
    BY DEF SameKeys
  <2> QED BY <2>1, <2>2, ZeroKeysDiffer
<1>5. ASSUME NEW x \in Actions(s), NEW y \in Actions(s), SameKeys(x.key, y.key, 5),
             NEW i \in Slices(s), x = Late(s, i),
             NEW j \in Instantaneous(s), y = ZeroBegin(s, j)
      PROVE  FALSE
  <2>1. y.key[2] = 1
    BY <1>5, ZeroKey
  <2>2. x.key[2] = 2
    BY <1>5 DEF Late, Action
  <2>3. x.key[2] = y.key[2]
    BY <1>5 DEF SameKeys
  <2> QED BY <2>1, <2>2, <2>3
<1>6. SameKeys(b.key, a.key, 5)
  BY DEF SameKeys
<1> QED BY <1>1, <1>2, <1>3, <1>4, <1>5, <1>6, ActionIs

LEMMA ActionsSorted ==
  ASSUME NEW s, Steady(s), NEW A \in SUBSET Actions(s)
  PROVE  /\ IsFiniteSet(A) /\ Keys(A, ActionKeys(A), 5)
         /\ SortedBy(Ordered(A), A, ActionKeys(A))
<1>1. IsFiniteSet(A)
  BY ActionsFinite, FS_Subset
<1>2. Keys(A, ActionKeys(A), 5)
  BY ActionKeyed, ActionKeysDiffer DEF Keys, ActionKeys
<1> QED BY <1>1, <1>2, OrderedIs DEF ActionKeys

(* Neighbours in a sorted sequence.                                         *)
LEMMA NextInOrder ==
  ASSUME NEW S, IsFiniteSet(S), NEW K, NEW d \in Nat, Keys(S, K, d), NEW f, SortedBy(f, S, K),
         NEW x \in S, NEW y \in S, LexLess(K[x], K[y]),
         \A z \in S : ~(LexLess(K[x], K[z]) /\ LexLess(K[z], K[y])),
         NEW n \in DOMAIN f
  PROVE  /\ f[n] = x => n + 1 \in DOMAIN f /\ f[n + 1] = y
         /\ f[n] = y => n - 1 \in DOMAIN f /\ f[n - 1] = x
<1>1. PICK N : N = Cardinality(S)
  OBVIOUS
<1>2. /\ N \in Nat /\ DOMAIN f = 1..N
      /\ \A k, m \in 1..N : f[k] = f[m] => k = m
      /\ \A k, m \in 1..N : LexLess(K[f[k]], K[f[m]]) => k < m
  BY <1>1, SortedFacts
<1>3. /\ \A k \in 1..N : f[k] \in S
      /\ \A k, m \in 1..N : k < m => LexLess(K[f[k]], K[f[m]])
  BY <1>2 DEF SortedBy
<1>4. PICK p \in 1..N : f[p] = x
  BY <1>2 DEF SortedBy
<1>5. PICK q \in 1..N : f[q] = y
  BY <1>2 DEF SortedBy
<1>6. p < q
  BY <1>2, <1>4, <1>5
<1>7. q = p + 1
  <2> SUFFICES ASSUME p + 1 < q PROVE FALSE
    BY <1>6
  <2>1. p + 1 \in 1..N /\ p < p + 1
    BY <1>2
  <2> QED BY <1>3, <1>4, <1>5, <2>1
<1>8. n \in 1..N /\ n \in Nat /\ p \in Nat
  BY <1>2
<1> QED BY <1>2, <1>4, <1>5, <1>7, <1>8

LEMMA OrderedLen ==
  ASSUME NEW A, IsFiniteSet(A)
  PROVE  Len(Ordered(A)) = Cardinality(A)
<1>1. PICK N : N = Cardinality(A)
  OBVIOUS
<1>2. N \in Nat
  BY <1>1, FS_CardinalityType
<1>3. Ordered(A) = [n \in 1..N |-> Placed(A, n)]
  BY <1>1, Zenon DEF Ordered, Sorted, Placed
<1>4. PICK f : f = [n \in 1..N |-> Placed(A, n)]
  OBVIOUS
<1>5. Len(f) = N
  BY <1>2, <1>4
<1> QED BY <1>1, <1>3, <1>4, <1>5
----------------------------------------------------------------------------
(* The async operations of one key.                                         *)
OneTrack(s) == \A i, j \in Asyncs(s) : s[i].track = s[j].track
AsyncOf(s, key) == {i \in Asyncs(s) : s[i].key = key}

LEMMA PreviousIs ==
  ASSUME NEW s, Clocked(s), OneTrack(s), NEW key, NEW i \in AsyncOf(s, key),
         NEW p, p = Previous(s, AsyncKinds, i)
  PROVE  /\ p # 0 => p \in AsyncOf(s, key) /\ p < i
         /\ \A j \in AsyncOf(s, key) : j < i => p # 0 /\ j <= p
<1>1. Len(s) \in Nat /\ DOMAIN s = 1..Len(s)
  BY ItemsAre
<1>2. PICK S : S = SameKey(s, AsyncKinds, i)
  OBVIOUS
<1>3. S = AsyncOf(s, key)
  BY <1>2 DEF SameKey, AsyncOf, Asyncs, OneTrack
<1>4. PICK M : M = {0} \cup {j \in S : j < i}
  OBVIOUS
<1>5. S \subseteq 1..Len(s)
  BY <1>1, <1>3 DEF AsyncOf, Asyncs
<1>6. M \in SUBSET (0..Len(s)) /\ M # {} /\ 0 \in M
  <2>1. 0 \in 0..Len(s) /\ (1..Len(s)) \subseteq 0..Len(s)
    BY <1>1
  <2>2. \A j \in M : j = 0 \/ j \in S
    BY <1>4
  <2>3. 0 \in M
    BY <1>4
  <2> QED BY <1>5, <2>1, <2>2, <2>3
<1>7. p = Max(M)
  BY <1>2, <1>4 DEF Previous
<1>8. p \in M /\ \A y \in M : y <= p
  BY <1>1, <1>6, <1>7, MaxIs
<1>9. p # 0 => p \in S /\ p < i
  BY <1>4, <1>8
<1>10. ASSUME NEW j \in S, j < i PROVE p # 0 /\ j <= p
  <2>1. j \in M /\ j \in 1..Len(s) /\ p \in 0..Len(s)
    BY <1>4, <1>5, <1>6, <1>8, <1>10
  <2> QED BY <1>1, <1>8, <2>1
<1> QED BY <1>3, <1>9, <1>10

IsStep(s, key, i, k) ==
  /\ i \in AsyncOf(s, key) /\ k \in {-1, 0, 1}
  /\ k = -1 => s[i].kind = "async_begin" /\ AsyncOpen(s, i)
  /\ k = 1 => i \in StillOpen(s)
StepsOf(s, key) == {a \in AsyncActions(s) : s[a.item].key = key}

LEMMA StepParts ==
  ASSUME NEW s, NEW i \in Asyncs(s)
  PROVE  /\ Plain(s, i, 0).item = i /\ Plain(s, i, 0).key = <<Ns(s, i), 1, 0, i, 0>>
         /\ Plain(s, i, 0).what = IF s[i].kind = "async_end" /\ ~AsyncOpen(s, i)
                                  THEN "orphan_end" ELSE s[i].kind
         /\ Plain(s, i, -1).item = Previous(s, AsyncKinds, i)
         /\ Plain(s, i, -1).key = <<Ns(s, i), 1, 0, i, -1>>
         /\ Plain(s, i, -1).what = "async_end"
         /\ Plain(s, i, 1).item = i /\ Plain(s, i, 1).key = <<LastNs(s), 1, 0, i, 1>>
         /\ Plain(s, i, 1).what = "async_end"
<1>1. i \notin Slices(s)
  BY KindsApart
<1>2. WhatIs(s, i) = IF s[i].kind = "async_end" /\ ~AsyncOpen(s, i)
                     THEN "orphan_end" ELSE s[i].kind
  BY <1>1, Zenon DEF WhatIs
<1>3. Plain(s, i, 0) = Action(WhatIs(s, i), i, Ns(s, i), 1, 0, i, 0)
  BY DEF Plain
<1>4. Plain(s, i, -1) = Action("async_end", Previous(s, AsyncKinds, i), Ns(s, i), 1, 0, i, -1)
  BY DEF Plain
<1>5. Plain(s, i, 1) = Action("async_end", i, LastNs(s), 1, 0, i, 1)
  BY <1>1 DEF Plain
<1> QED BY <1>2, <1>3, <1>4, <1>5 DEF Action

LEMMA StepsAre ==
  ASSUME NEW s, Clocked(s), OneTrack(s), NEW key
  PROVE  /\ \A a \in StepsOf(s, key) : \E i, k : IsStep(s, key, i, k) /\ a = Plain(s, i, k)
         /\ \A i, k : IsStep(s, key, i, k) => Plain(s, i, k) \in StepsOf(s, key)
<1>0. ASSUME NEW i \in Asyncs(s)
      PROVE  Plain(s, i, 0) = Action(IF s[i].kind = "async_end" /\ ~AsyncOpen(s, i)
                          THEN "orphan_end" ELSE s[i].kind, i, Ns(s, i), 1, 0, i, 0)
  <2>1. i \notin Slices(s)
    BY KindsApart
  <2>2. WhatIs(s, i) = IF s[i].kind = "async_end" /\ ~AsyncOpen(s, i)
                     THEN "orphan_end" ELSE s[i].kind
    BY <2>1, Zenon DEF WhatIs
  <2>3. Plain(s, i, 0) = Action(WhatIs(s, i), i, Ns(s, i), 1, 0, i, 0)
    BY DEF Plain
  <2> QED BY <2>2, <2>3, Zenon
<1>00. ASSUME NEW i \in Asyncs(s)
       PROVE  /\ Plain(s, i, -1) = Action("async_end", Previous(s, AsyncKinds, i), Ns(s, i),
                                          1, 0, i, -1)
              /\ Plain(s, i, 1) = Action("async_end", i, LastNs(s), 1, 0, i, 1)
  <2>1. i \notin Slices(s)
    BY KindsApart
  <2>2. Plain(s, i, -1) = Action("async_end", Previous(s, AsyncKinds, i), Ns(s, i), 1, 0, i, -1)
    BY DEF Plain
  <2>3. Plain(s, i, 1) = Action("async_end", i, LastNs(s), 1, 0, i, 1)
    BY <2>1 DEF Plain
  <2> QED BY <2>2, <2>3
<1>1. ASSUME NEW a \in AsyncActions(s)
      PROVE  \/ \E i \in Asyncs(s) : a = Plain(s, i, 0)
             \/ \E i \in Asyncs(s) : /\ s[i].kind = "async_begin" /\ AsyncOpen(s, i)
                                     /\ a = Plain(s, i, -1)
             \/ \E i \in StillOpen(s) : a = Plain(s, i, 1)
  <2>1. StillOpen(s) \subseteq Asyncs(s)
    BY DEF StillOpen
  <2> QED BY <1>0, <1>00, <1>1, <2>1, Zenon DEF AsyncActions
<1>2. \A i \in Asyncs(s) : Plain(s, i, 0) \in AsyncActions(s)
  BY <1>0, Zenon DEF AsyncActions
<1>3. \A i \in Asyncs(s) : s[i].kind = "async_begin" /\ AsyncOpen(s, i)
                           => Plain(s, i, -1) \in AsyncActions(s)
  BY <1>00, Zenon DEF AsyncActions
<1>4. \A i \in StillOpen(s) : Plain(s, i, 1) \in AsyncActions(s)
  <2>1. StillOpen(s) \subseteq Asyncs(s)
    BY DEF StillOpen
  <2> QED BY <1>00, <2>1, Zenon DEF AsyncActions
<1>5. ASSUME NEW i \in Asyncs(s), AsyncOpen(s, i)
      PROVE  s[Previous(s, AsyncKinds, i)].key = s[i].key
  <2>1. PICK p : p = Previous(s, AsyncKinds, i)
    OBVIOUS
  <2>2. p # 0
    BY <1>5, <2>1 DEF AsyncOpen
  <2>3. i \in AsyncOf(s, s[i].key)
    BY DEF AsyncOf
  <2>4. p \in AsyncOf(s, s[i].key)
    BY <2>1, <2>2, <2>3, PreviousIs
  <2> QED BY <2>1, <2>4 DEF AsyncOf
<1>6. ASSUME NEW a \in StepsOf(s, key)
      PROVE  \E i, k : IsStep(s, key, i, k) /\ a = Plain(s, i, k)
  <2>1. a \in AsyncActions(s) /\ s[a.item].key = key
    BY DEF StepsOf
  <2>2. CASE \E i \in Asyncs(s) : a = Plain(s, i, 0)
    <3>1. PICK i \in Asyncs(s) : a = Plain(s, i, 0)
      BY <2>2
    <3>2. IsStep(s, key, i, 0)
      BY <2>1, <3>1, StepParts DEF IsStep, AsyncOf
    <3> QED BY <3>1, <3>2
  <2>3. CASE \E i \in Asyncs(s) : /\ s[i].kind = "async_begin" /\ AsyncOpen(s, i)
                                  /\ a = Plain(s, i, -1)
    <3>1. PICK i \in Asyncs(s) : /\ s[i].kind = "async_begin" /\ AsyncOpen(s, i)
                                 /\ a = Plain(s, i, -1)
      BY <2>3
    <3>2. IsStep(s, key, i, -1)
      BY <1>5, <2>1, <3>1, StepParts DEF IsStep, AsyncOf
    <3> QED BY <3>1, <3>2
  <2>4. CASE \E i \in StillOpen(s) : a = Plain(s, i, 1)
    <3>1. PICK i \in StillOpen(s) : a = Plain(s, i, 1)
      BY <2>4
    <3>2. i \in Asyncs(s)
      BY DEF StillOpen
    <3>3. IsStep(s, key, i, 1)
      BY <2>1, <3>1, <3>2, StepParts DEF IsStep, AsyncOf
    <3> QED BY <3>1, <3>3
  <2> QED BY <1>1, <2>1, <2>2, <2>3, <2>4
<1>7. ASSUME NEW i, NEW k, IsStep(s, key, i, k)
      PROVE  Plain(s, i, k) \in StepsOf(s, key)
  <2>1. i \in Asyncs(s) /\ s[i].key = key
    BY <1>7 DEF IsStep, AsyncOf
  <2>2. CASE k = 0
    BY <1>2, <2>1, <2>2, StepParts DEF StepsOf
  <2>3. CASE k = -1
    BY <1>3, <1>5, <1>7, <2>1, <2>3, StepParts DEF StepsOf, IsStep
  <2>4. CASE k = 1
    BY <1>4, <1>7, <2>1, <2>4, StepParts DEF StepsOf, IsStep
  <2> QED BY <1>7, <2>2, <2>3, <2>4 DEF IsStep
<1> QED BY <1>6, <1>7

Precedes(i, k, j, m) == i < j \/ (i = j /\ k < m)

(* The steps of one key are in the order of their items, and of what is     *)
(* written for an item.                                                     *)
LEMMA StepsPrecede ==
  ASSUME NEW s, Steady(s), OneTrack(s), NEW key, NEW i, NEW k, IsStep(s, key, i, k),
         NEW j, NEW m, IsStep(s, key, j, m), Precedes(i, k, j, m)
  PROVE  LexLess(Plain(s, i, k).key, Plain(s, j, m).key)
<1>1. /\ i \in Asyncs(s) /\ j \in Asyncs(s) /\ s[i].key = s[j].key
      /\ k \in {-1, 0, 1} /\ m \in {-1, 0, 1}
  BY DEF IsStep, AsyncOf
<1>2. i \in DOMAIN s /\ j \in DOMAIN s /\ s # <<>> /\ i \in Nat /\ j \in Nat
  BY <1>1, ItemsAre DEF Asyncs, Steady
<1>3. PICK ni, nj, last : ni = Ns(s, i) /\ nj = Ns(s, j) /\ last = LastNs(s)
  OBVIOUS
<1>4. /\ ni \in Int /\ nj \in Int /\ last \in Int /\ ni <= last /\ nj <= last
  BY <1>2, <1>3, LastNsIs DEF Steady
<1>5. i <= j => ni <= nj
  BY <1>2, <1>3 DEF Steady
<1>6. i < j => k # 1
  <2> SUFFICES ASSUME i < j, k = 1 PROVE FALSE
    OBVIOUS
  <2>1. i \in StillOpen(s)
    BY DEF IsStep
  <2>2. j \in SameKey(s, AsyncKinds, i)
    BY <1>1, <1>2 DEF SameKey, OneTrack, Asyncs
  <2>3. j <= i
    BY <2>1, <2>2 DEF StillOpen
  <2> QED BY <1>2, <2>3
<1>7. PICK a, b : a = (IF k = 1 THEN last ELSE ni) /\ b = (IF m = 1 THEN last ELSE nj)
  OBVIOUS
<1>8. Plain(s, i, k).key = <<a, 1, 0, i, k>> /\ Plain(s, j, m).key = <<b, 1, 0, j, m>>
  BY <1>1, <1>3, <1>7, StepParts
<1>9. i <= j
  BY <1>2 DEF Precedes
<1>10. a \in Int /\ b \in Int /\ a <= b
  <2>1. CASE i < j
    BY <1>4, <1>5, <1>6, <1>7, <1>9, <2>1
  <2>2. CASE i = j /\ k < m
    <3>1. k # 1 /\ ni = nj
      BY <1>1, <1>3, <2>2
    <3> QED BY <1>4, <1>7, <3>1
  <2> QED BY <2>1, <2>2 DEF Precedes
<1>11. PICK x, y : x = <<a, 1, 0, i, k>> /\ y = <<b, 1, 0, j, m>>
  OBVIOUS
<1>12. DOMAIN x = 1..5 /\ x[1] = a /\ x[2] = 1 /\ x[3] = 0 /\ x[4] = i /\ x[5] = k
  BY <1>11
<1>13. DOMAIN y = 1..5 /\ y[1] = b /\ y[2] = 1 /\ y[3] = 0 /\ y[4] = j /\ y[5] = m
  BY <1>11
<1>14. LexLess(x, y)
  <2>1. CASE a < b
    <3>1. 1 \in DOMAIN x /\ x[1] < y[1] /\ \A l \in 1..(1 - 1) : x[l] = y[l]
      BY <1>12, <1>13, <2>1
    <3> QED BY <3>1 DEF LexLess
  <2>2. CASE a = b /\ i < j
    <3>1. 4 \in DOMAIN x /\ x[4] < y[4] /\ \A l \in 1..(4 - 1) : x[l] = y[l]
      BY <1>12, <1>13, <2>2
    <3> QED BY <3>1 DEF LexLess
  <2>3. CASE a = b /\ i = j /\ k < m
    <3>1. 5 \in DOMAIN x /\ x[5] < y[5] /\ \A l \in 1..(5 - 1) : x[l] = y[l]
      BY <1>12, <1>13, <2>3
    <3> QED BY <3>1 DEF LexLess
  <2> QED BY <1>10, <2>1, <2>2, <2>3 DEF Precedes
<1> QED BY <1>8, <1>11, <1>14

LEMMA StepsFollow ==
  ASSUME NEW s, Steady(s), OneTrack(s), NEW key, NEW i, NEW k, IsStep(s, key, i, k),
         NEW j, NEW m, IsStep(s, key, j, m),
         LexLess(Plain(s, i, k).key, Plain(s, j, m).key)
  PROVE  Precedes(i, k, j, m)
<1>1. PICK a, b : a = Plain(s, i, k).key /\ b = Plain(s, j, m).key
  OBVIOUS
<1>2. /\ i \in DOMAIN s /\ j \in DOMAIN s /\ k \in {-1, 0, 1} /\ m \in {-1, 0, 1}
      /\ i \in Nat /\ j \in Nat
  BY ItemsAre DEF IsStep, AsyncOf, Asyncs, Steady
<1>3. Plain(s, i, k) \in Actions(s) /\ Plain(s, j, m) \in Actions(s)
  BY StepsAre DEF Steady, Actions, StepsOf
<1>4. Keyed(a, 5) /\ Keyed(b, 5)
  BY <1>1, <1>3, ActionKeyed
<1>5. ~LexLess(b, a) /\ ~LexLess(a, a)
  BY <1>1, <1>4, LexTransitive, LexIrreflexive
<1>6. ~Precedes(j, m, i, k)
  BY <1>1, <1>5, StepsPrecede
<1>7. ~(i = j /\ k = m)
  BY <1>1, <1>5
<1> QED BY <1>2, <1>6, <1>7 DEF Precedes

LEMMA AdjacentSteps ==
  ASSUME NEW s, Steady(s), OneTrack(s), NEW key, NEW i, NEW k, IsStep(s, key, i, k),
         NEW j, NEW m, IsStep(s, key, j, m), Precedes(i, k, j, m),
         \A l, q : IsStep(s, key, l, q) => ~(Precedes(i, k, l, q) /\ Precedes(l, q, j, m)),
         NEW f, f = Ordered(StepsOf(s, key)), NEW n \in DOMAIN f
  PROVE  /\ f[n] = Plain(s, i, k) => n + 1 \in DOMAIN f /\ f[n + 1] = Plain(s, j, m)
         /\ f[n] = Plain(s, j, m) => n - 1 \in DOMAIN f /\ f[n - 1] = Plain(s, i, k)
<1>1. PICK A, K : A = StepsOf(s, key) /\ K = ActionKeys(A)
  OBVIOUS
<1>2. A \subseteq Actions(s) /\ Clocked(s)
  BY <1>1 DEF StepsOf, Actions, Steady
<1>3. IsFiniteSet(A) /\ Keys(A, K, 5) /\ SortedBy(f, A, K)
  BY <1>1, <1>2, ActionsSorted
<1>4. PICK x, y : x = Plain(s, i, k) /\ y = Plain(s, j, m)
  OBVIOUS
<1>5. x \in A /\ y \in A
  BY <1>1, <1>2, <1>4, StepsAre
<1>6. \A a \in A : K[a] = a.key
  BY <1>1 DEF ActionKeys
<1>7. LexLess(K[x], K[y])
  BY <1>4, <1>5, <1>6, StepsPrecede
<1>8. ASSUME NEW z \in A, LexLess(K[x], K[z]), LexLess(K[z], K[y]) PROVE FALSE
  <2>1. PICK l, q : IsStep(s, key, l, q) /\ z = Plain(s, l, q)
    BY <1>1, <1>2, StepsAre
  <2>2. Precedes(i, k, l, q)
    BY <1>4, <1>5, <1>6, <1>8, <2>1, StepsFollow
  <2>3. Precedes(l, q, j, m)
    BY <1>4, <1>5, <1>6, <1>8, <2>1, StepsFollow
  <2> QED BY <2>1, <2>2, <2>3
<1>9. /\ f[n] = x => n + 1 \in DOMAIN f /\ f[n + 1] = y
      /\ f[n] = y => n - 1 \in DOMAIN f /\ f[n - 1] = x
  BY <1>3, <1>5, <1>7, <1>8, NextInOrder
<1> QED BY <1>4, <1>9

(* An end, or a begin that closes what is open, directly follows the begin  *)
(* it closes.                                                               *)
LEMMA CloseFollows ==
  ASSUME NEW s, Steady(s), OneTrack(s), NEW key, NEW j \in AsyncOf(s, key), AsyncOpen(s, j),
         NEW m \in {-1, 0}, m = -1 <=> s[j].kind = "async_begin",
         NEW p, p = Previous(s, AsyncKinds, j),
         NEW f, f = Ordered(StepsOf(s, key)), NEW n \in DOMAIN f
  PROVE  /\ f[n] = Plain(s, p, 0) => n + 1 \in DOMAIN f /\ f[n + 1] = Plain(s, j, m)
         /\ f[n] = Plain(s, j, m) => n - 1 \in DOMAIN f /\ f[n - 1] = Plain(s, p, 0)
<1>1. Clocked(s)
  BY DEF Steady
<1>2. p # 0 /\ s[p].kind = "async_begin"
  BY DEF AsyncOpen
<1>3. /\ p \in AsyncOf(s, key) /\ p < j
      /\ \A l \in AsyncOf(s, key) : l < j => l <= p
  BY <1>1, <1>2, PreviousIs
<1>4. IsStep(s, key, p, 0) /\ IsStep(s, key, j, m)
  BY <1>3 DEF IsStep
<1>5. Precedes(p, 0, j, m)
  BY <1>3 DEF Precedes
<1>6. ASSUME NEW l, NEW q, IsStep(s, key, l, q), Precedes(p, 0, l, q), Precedes(l, q, j, m)
      PROVE  FALSE
  <2>1. /\ l \in AsyncOf(s, key) /\ q \in {-1, 0, 1}
        /\ q = -1 => s[l].kind = "async_begin"
        /\ q = 1 => l \in StillOpen(s)
    BY <1>6 DEF IsStep
  <2>2. l \in Nat /\ p \in Nat /\ j \in Nat /\ l \in DOMAIN s /\ j \in DOMAIN s
    BY <1>1, <1>3, <2>1, ItemsAre DEF AsyncOf, Asyncs
  <2>3. CASE l < j
    <3>1. l <= p
      BY <1>3, <2>1, <2>3
    <3>2. l = p /\ q = 1
      BY <1>6, <2>1, <2>2, <3>1 DEF Precedes
    <3>3. j \in SameKey(s, AsyncKinds, l)
      BY <2>1, <2>2 DEF SameKey, AsyncOf, Asyncs, OneTrack
    <3>4. j <= l
      BY <2>1, <3>2, <3>3 DEF StillOpen
    <3> QED BY <2>2, <2>3, <3>4
  <2>4. CASE l = j /\ q < m
    <3>1. m = 0 /\ q = -1
      BY <2>1, <2>4
    <3>2. 0 # -1
      OBVIOUS
    <3> QED BY <2>1, <2>4, <3>1, <3>2
  <2> QED BY <1>6, <2>3, <2>4 DEF Precedes
<1> QED BY <1>4, <1>5, <1>6, AdjacentSteps

(* What is open at the end is closed right after its begin.                 *)
LEMMA LastClose ==
  ASSUME NEW s, Steady(s), OneTrack(s), NEW key, NEW i \in AsyncOf(s, key),
         i \in StillOpen(s),
         NEW f, f = Ordered(StepsOf(s, key)), NEW n \in DOMAIN f
  PROVE  /\ f[n] = Plain(s, i, 0) => n + 1 \in DOMAIN f /\ f[n + 1] = Plain(s, i, 1)
         /\ f[n] = Plain(s, i, 1) => n - 1 \in DOMAIN f /\ f[n - 1] = Plain(s, i, 0)
<1>1. IsStep(s, key, i, 0) /\ IsStep(s, key, i, 1)
  BY DEF IsStep
<1>2. Precedes(i, 0, i, 1)
  BY DEF Precedes
<1>3. ASSUME NEW l, NEW q, IsStep(s, key, l, q), Precedes(i, 0, l, q), Precedes(l, q, i, 1)
      PROVE  FALSE
  <2>1. q \in {-1, 0, 1} /\ l \in Nat /\ i \in Nat
    BY <1>3, ItemsAre DEF IsStep, AsyncOf, Asyncs, Steady
  <2> QED BY <1>3, <2>1 DEF Precedes
<1> QED BY <1>1, <1>2, <1>3, AdjacentSteps

(* A begin that is not the last of its key is closed by the next record.    *)
LEMMA NextIs ==
  ASSUME NEW s, Clocked(s), OneTrack(s), NEW key, NEW i \in AsyncOf(s, key),
         s[i].kind = "async_begin", i \notin StillOpen(s)
  PROVE  \E j \in AsyncOf(s, key) : i = Previous(s, AsyncKinds, j) /\ AsyncOpen(s, j)
<1>1. Len(s) \in Nat /\ DOMAIN s = 1..Len(s)
  BY ItemsAre
<1>2. PICK J : J = {j \in AsyncOf(s, key) : j > i}
  OBVIOUS
<1>3. AsyncOf(s, key) \subseteq 1..Len(s) /\ i \in Nat /\ i # 0
  BY <1>1 DEF AsyncOf, Asyncs
<1>4. J # {}
  <2>1. PICK j \in SameKey(s, AsyncKinds, i) : ~(j <= i)
    BY DEF StillOpen, AsyncOf
  <2>2. j \in AsyncOf(s, key)
    BY <2>1 DEF SameKey, AsyncOf, Asyncs
  <2>3. j > i
    BY <1>3, <2>1, <2>2
  <2> QED BY <1>2, <2>2, <2>3
<1>5. J \in SUBSET Nat
  BY <1>2, <1>3
<1>6. PICK j : j = Min(J)
  OBVIOUS
<1>7. j \in J /\ \A l \in J : j <= l
  BY <1>4, <1>5, <1>6, MinIs
<1>8. j \in AsyncOf(s, key) /\ i < j /\ j \in Nat
  BY <1>2, <1>5, <1>7
<1>9. PICK p : p = Previous(s, AsyncKinds, j)
  OBVIOUS
<1>10. /\ p # 0 => p \in AsyncOf(s, key) /\ p < j
       /\ p # 0 /\ i <= p
  BY <1>8, <1>9, PreviousIs
<1>11. p = i
  <2> SUFFICES ASSUME p # i PROVE FALSE
    OBVIOUS
  <2>1. p \in Nat /\ p > i
    BY <1>3, <1>10
  <2>2. p \in J
    BY <1>2, <1>10, <2>1
  <2>3. j <= p
    BY <1>7, <2>2
  <2> QED BY <1>8, <1>10, <2>1, <2>3
<1>12. AsyncOpen(s, j)
  BY <1>3, <1>9, <1>11 DEF AsyncOpen
<1> QED BY <1>8, <1>9, <1>11, <1>12

LEMMA BeginIsClosed ==
  ASSUME NEW s, Steady(s), OneTrack(s), NEW key, NEW f, f = Ordered(StepsOf(s, key)),
         NEW n \in DOMAIN f, f[n].what = "async_begin"
  PROVE  /\ n + 1 \in DOMAIN f /\ f[n + 1].what = "async_end"
         /\ s[f[n + 1].item].kind = "async_begin" => f[n + 1].item = f[n].item
<1>1. Clocked(s)
  BY DEF Steady
<1>2. PICK A : A = StepsOf(s, key)
  OBVIOUS
<1>3. f[n] \in A
  <2>1. A \subseteq Actions(s)
    BY <1>2 DEF StepsOf, Actions
  <2> QED BY <1>2, <2>1, ActionsSorted DEF SortedBy
<1>4. PICK i, k : IsStep(s, key, i, k) /\ f[n] = Plain(s, i, k)
  BY <1>1, <1>2, <1>3, StepsAre
<1>5. i \in AsyncOf(s, key) /\ i \in Asyncs(s) /\ k \in {-1, 0, 1}
  BY <1>4 DEF IsStep, AsyncOf
<1>6. k = 0 /\ s[i].kind = "async_begin" /\ f[n].item = i
  <2>1. k = 0
    BY <1>4, <1>5, StepParts
  <2>2. /\ f[n].item = i
        /\ f[n].what = IF s[i].kind = "async_end" /\ ~AsyncOpen(s, i)
                       THEN "orphan_end" ELSE s[i].kind
    BY <1>4, <1>5, <2>1, StepParts
  <2> QED BY <2>1, <2>2
<1>7. CASE i \in StillOpen(s)
  <2>1. n + 1 \in DOMAIN f /\ f[n + 1] = Plain(s, i, 1)
    BY <1>4, <1>5, <1>6, <1>7, LastClose
  <2>2. f[n + 1].what = "async_end" /\ f[n + 1].item = i
    BY <1>5, <2>1, StepParts
  <2> QED BY <1>6, <2>1, <2>2
<1>8. CASE i \notin StillOpen(s)
  <2>1. PICK j \in AsyncOf(s, key) : i = Previous(s, AsyncKinds, j) /\ AsyncOpen(s, j)
    BY <1>1, <1>5, <1>6, <1>8, NextIs
  <2>2. j \in Asyncs(s) /\ s[j].kind \in {"async_begin", "async_end"}
    BY DEF AsyncOf, Asyncs, AsyncKinds
  <2>3. CASE s[j].kind = "async_begin"
    <3>1. n + 1 \in DOMAIN f /\ f[n + 1] = Plain(s, j, -1)
      <4>1. -1 \in {-1, 0} /\ (-1 = -1 <=> s[j].kind = "async_begin")
        BY <2>3
      <4> QED BY <1>4, <1>6, <2>1, <4>1, CloseFollows
    <3>2. f[n + 1].what = "async_end" /\ f[n + 1].item = i
      BY <2>1, <2>2, <3>1, StepParts
    <3> QED BY <1>6, <3>1, <3>2
  <2>4. CASE s[j].kind = "async_end"
    <3>1. n + 1 \in DOMAIN f /\ f[n + 1] = Plain(s, j, 0)
      <4>1. 0 \in {-1, 0} /\ (0 = -1 <=> s[j].kind = "async_begin")
        BY <2>4
      <4> QED BY <1>4, <1>6, <2>1, <4>1, CloseFollows
    <3>2. f[n + 1].what = "async_end" /\ f[n + 1].item = j
      BY <2>1, <2>2, <2>4, <3>1, StepParts
    <3> QED BY <2>4, <3>1, <3>2
  <2> QED BY <2>2, <2>3, <2>4
<1> QED BY <1>7, <1>8

LEMMA EndClosesBegin ==
  ASSUME NEW s, Steady(s), OneTrack(s), NEW key, NEW f, f = Ordered(StepsOf(s, key)),
         NEW n \in DOMAIN f, f[n].what = "async_end"
  PROVE  n - 1 \in DOMAIN f /\ f[n - 1].what = "async_begin"
<1>1. Clocked(s)
  BY DEF Steady
<1>2. PICK A : A = StepsOf(s, key)
  OBVIOUS
<1>3. f[n] \in A
  <2>1. A \subseteq Actions(s)
    BY <1>2 DEF StepsOf, Actions
  <2> QED BY <1>2, <2>1, ActionsSorted DEF SortedBy
<1>4. PICK i, k : IsStep(s, key, i, k) /\ f[n] = Plain(s, i, k)
  BY <1>1, <1>2, <1>3, StepsAre
<1>5. i \in AsyncOf(s, key) /\ i \in Asyncs(s) /\ k \in {-1, 0, 1}
  BY <1>4 DEF IsStep, AsyncOf
<1>6. ASSUME NEW p \in Asyncs(s), s[p].kind = "async_begin"
      PROVE  Plain(s, p, 0).what = "async_begin"
  BY <1>6, StepParts
<1>7. CASE k = 1
  <2>1. i \in StillOpen(s) /\ s[i].kind = "async_begin"
    BY <1>4, <1>7 DEF IsStep, StillOpen
  <2>2. n - 1 \in DOMAIN f /\ f[n - 1] = Plain(s, i, 0)
    BY <1>4, <1>5, <1>7, <2>1, LastClose
  <2> QED BY <1>5, <1>6, <2>1, <2>2
<1>8. CASE k \in {-1, 0}
  <2>1. AsyncOpen(s, i) /\ (k = -1 <=> s[i].kind = "async_begin")
    <3>1. CASE k = -1
      BY <1>4, <3>1 DEF IsStep
    <3>2. CASE k = 0
      <4>1. f[n].what = IF s[i].kind = "async_end" /\ ~AsyncOpen(s, i)
                       THEN "orphan_end" ELSE s[i].kind
        BY <1>4, <1>5, <3>2, StepParts
      <4> QED BY <3>2, <4>1
    <3> QED BY <1>8, <3>1, <3>2
  <2>2. PICK p : p = Previous(s, AsyncKinds, i)
    OBVIOUS
  <2>3. p # 0 /\ s[p].kind = "async_begin"
    BY <2>1, <2>2 DEF AsyncOpen
  <2>4. p \in Asyncs(s)
    BY <1>1, <1>5, <2>2, <2>3, PreviousIs DEF AsyncOf
  <2>5. n - 1 \in DOMAIN f /\ f[n - 1] = Plain(s, p, 0)
    BY <1>4, <1>5, <1>8, <2>1, <2>2, CloseFollows
  <2> QED BY <1>6, <2>3, <2>4, <2>5
<1> QED BY <1>5, <1>7, <1>8

LEMMA StepsAlternate ==
  ASSUME NEW s, Steady(s), OneTrack(s), NEW key
  PROVE  Alternate(s, Ordered(StepsOf(s, key)))
<1>1. PICK A, f : A = StepsOf(s, key) /\ f = Ordered(A)
  OBVIOUS
<1>2. A \subseteq Actions(s)
  BY <1>1 DEF StepsOf, Actions
<1>3. IsFiniteSet(A) /\ Len(f) = Cardinality(A) /\ DOMAIN f = 1..Len(f)
  BY <1>1, <1>2, ActionsSorted, OrderedLen DEF SortedBy
<1>4. Len(f) \in Nat
  BY <1>3, FS_CardinalityType
<1>5. ASSUME NEW n \in DOMAIN f, f[n].what = "async_begin"
      PROVE  /\ n < Len(f) /\ f[n + 1].what = "async_end"
             /\ s[f[n + 1].item].kind = "async_begin" => f[n + 1].item = f[n].item
  <2>1. /\ n + 1 \in DOMAIN f /\ f[n + 1].what = "async_end"
        /\ s[f[n + 1].item].kind = "async_begin" => f[n + 1].item = f[n].item
    BY <1>1, <1>5, BeginIsClosed
  <2>2. n < Len(f)
    BY <1>3, <1>4, <2>1
  <2> QED BY <2>1, <2>2
<1>6. ASSUME NEW n \in DOMAIN f, f[n].what = "async_end"
      PROVE  n > 1 /\ f[n - 1].what = "async_begin"
  <2>1. n - 1 \in DOMAIN f /\ f[n - 1].what = "async_begin"
    BY <1>1, <1>6, EndClosesBegin
  <2>2. n > 1
    BY <1>3, <1>4, <2>1
  <2> QED BY <2>1, <2>2
<1>7. Alternate(s, f)
  BY <1>5, <1>6 DEF Alternate
<1> QED BY <1>1, <1>7
----------------------------------------------------------------------------
(* Lifecycles of flows.                                                     *)
LEMMA FlowPreviousIs ==
  ASSUME NEW s, Clocked(s), NEW i \in Flows(s), NEW p, p = FlowPrevious(s, i)
  PROVE  /\ p \in Nat /\ i \in Nat /\ i # 0
         /\ p # 0 => p \in Flows(s) /\ p < i /\ s[p].key = s[i].key
         /\ \A j \in Flows(s) : j < i /\ s[j].key = s[i].key => p # 0 /\ j <= p
<1>1. Len(s) \in Nat /\ DOMAIN s = 1..Len(s)
  BY ItemsAre
<1>2. PICK M : M = {0} \cup {j \in Flows(s) : j < i /\ s[j].key = s[i].key}
  OBVIOUS
<1>3. Flows(s) \subseteq 1..Len(s)
  BY <1>1 DEF Flows
<1>4. M \in SUBSET (0..Len(s)) /\ M # {}
  <2>1. 0 \in 0..Len(s) /\ (1..Len(s)) \subseteq 0..Len(s)
    BY <1>1
  <2>2. \A j \in M : j = 0 \/ j \in Flows(s)
    BY <1>2
  <2>3. 0 \in M
    BY <1>2
  <2> QED BY <1>3, <2>1, <2>2, <2>3
<1>5. p = Max(M)
  BY <1>2 DEF FlowPrevious
<1>6. p \in M /\ p \in Nat /\ \A y \in M : y <= p
  BY <1>1, <1>4, <1>5, MaxIs
<1>7. p # 0 => p \in Flows(s) /\ p < i /\ s[p].key = s[i].key
  BY <1>2, <1>6
<1>8. ASSUME NEW j \in Flows(s), j < i, s[j].key = s[i].key PROVE p # 0 /\ j <= p
  <2>1. j \in M /\ j \in 1..Len(s)
    BY <1>2, <1>3, <1>8
  <2> QED BY <1>1, <1>6, <2>1
<1>9. i \in Nat /\ i # 0
  BY <1>1, <1>3
<1> QED BY <1>6, <1>7, <1>8, <1>9

LifeStep(s, f, i) ==
  IF s[i].kind = "flow_start" THEN i
  ELSE IF FlowPrevious(s, i) # 0 /\ s[FlowPrevious(s, i)].kind # "flow_end"
       THEN f[FlowPrevious(s, i)]
  ELSE IF s[i].kind = "flow_step" THEN i ELSE 0
LifeTo(s, f, k) ==
  /\ f = [i \in Flows(s) |-> f[i]]
  /\ \A i \in Flows(s) : i <= k => f[i] = LifeStep(s, f, i)

LEMMA LifeExists ==
  ASSUME NEW s, Clocked(s)
  PROVE  \E f : f = [i \in Flows(s) |-> LifeStep(s, f, i)]
<1> DEFINE Bad == {k \in Nat : ~\E f : LifeTo(s, f, k)}
<1>0. \A i \in Flows(s) : i \in Nat /\ i # 0
  BY FlowPreviousIs
<1>1. 0 \notin Bad
  <2>1. PICK f : f = [i \in Flows(s) |-> s]
    OBVIOUS
  <2>2. LifeTo(s, f, 0)
    BY <1>0, <2>1 DEF LifeTo
  <2> QED BY <2>2
<1>2. ASSUME NEW k \in Nat, k \notin Bad PROVE k + 1 \notin Bad
  <2>1. PICK f : LifeTo(s, f, k)
    BY <1>2
  <2>2. PICK g : g = [i \in Flows(s) |-> IF i = k + 1 THEN LifeStep(s, f, i) ELSE f[i]]
    OBVIOUS
  <2>3. ASSUME NEW i \in Flows(s), i <= k + 1 PROVE g[i] = LifeStep(s, g, i)
    <3>1. PICK p : p = FlowPrevious(s, i)
      OBVIOUS
    <3>2. p # 0 => p \in Flows(s) /\ p < i /\ p \in Nat
      BY <3>1, FlowPreviousIs
    <3>3. p # 0 => g[p] = f[p]
      BY <1>0, <2>2, <2>3, <3>2
    <3>4. LifeStep(s, g, i) = LifeStep(s, f, i)
      BY <3>1, <3>3 DEF LifeStep
    <3>5. i # k + 1 => i <= k
      BY <1>0, <2>3
    <3> QED BY <2>1, <2>2, <3>4, <3>5 DEF LifeTo
  <2>4. LifeTo(s, g, k + 1)
    BY <2>2, <2>3 DEF LifeTo
  <2> QED BY <2>4
<1>3. Bad = {}
  <2> SUFFICES ASSUME Bad # {} PROVE FALSE
    OBVIOUS
  <2>1. Bad \in SUBSET Nat
    OBVIOUS
  <2>2. PICK m : m = Min(Bad)
    OBVIOUS
  <2>3. m \in Bad /\ m \in Nat /\ \A k \in Bad : m <= k
    BY <2>1, <2>2, MinIs
  <2> HIDE DEF Bad
  <2>4. m # 0
    BY <1>1, <2>3
  <2>5. m - 1 \in Nat /\ m - 1 \notin Bad /\ (m - 1) + 1 = m
    BY <2>3, <2>4
  <2> QED BY <1>2, <2>3, <2>5
<1>4. Len(s) \in Nat /\ \A i \in Flows(s) : i <= Len(s)
  BY ItemsAre DEF Flows
<1>5. PICK f : LifeTo(s, f, Len(s))
  BY <1>3, <1>4
<1>6. f = [i \in Flows(s) |-> LifeStep(s, f, i)]
  BY <1>4, <1>5 DEF LifeTo
<1> QED BY <1>6

LEMMA LifeIs ==
  ASSUME NEW s, Clocked(s)
  PROVE  \A i \in Flows(s) : Lifecycle(s)[i] = LifeStep(s, Lifecycle(s), i)
<1> DEFINE of[i \in Flows(s)] ==
             LET p == FlowPrevious(s, i)
             IN  IF s[i].kind = "flow_start" THEN i
                 ELSE IF p # 0 /\ s[p].kind # "flow_end" THEN of[p]
                 ELSE IF s[i].kind = "flow_step" THEN i ELSE 0
<1>1. Lifecycle(s) = of
  BY Zenon DEF Lifecycle
<1>2. of = CHOOSE f : f = [i \in Flows(s) |->
             IF s[i].kind = "flow_start" THEN i
             ELSE IF FlowPrevious(s, i) # 0 /\ s[FlowPrevious(s, i)].kind # "flow_end"
                  THEN f[FlowPrevious(s, i)]
             ELSE IF s[i].kind = "flow_step" THEN i ELSE 0]
  BY Zenon
<1> HIDE DEF of
<1>3. of = CHOOSE f : f = [i \in Flows(s) |-> LifeStep(s, f, i)]
  BY <1>2, Zenon DEF LifeStep
<1>4. of = [i \in Flows(s) |-> LifeStep(s, of, i)]
  BY <1>3, LifeExists, Zenon
<1>5. \A i \in Flows(s) : of[i] = LifeStep(s, of, i)
  BY <1>4
<1> QED BY <1>1, <1>5

(* The opener of a lifecycle.                                               *)
LifeRight(s, L, i) ==
  /\ L[i] \in 0..i
  /\ L[i] = 0 => s[i].kind = "flow_end"
  /\ L[i] # 0 => /\ L[i] \in Flows(s) /\ L[L[i]] = L[i] /\ s[L[i]].key = s[i].key
                 /\ s[L[i]].kind # "flow_end"

LEMMA LivesRight ==
  ASSUME NEW s, Clocked(s), NEW L, L = Lifecycle(s)
  PROVE  \A i \in Flows(s) : LifeRight(s, L, i)
<1> DEFINE Bad == {i \in Flows(s) : ~LifeRight(s, L, i)}
<1> SUFFICES ASSUME Bad # {} PROVE FALSE
  OBVIOUS
<1>1. \A i \in Flows(s) : i \in Nat /\ i # 0 /\ s[i].kind \in FlowKinds
  BY FlowPreviousIs DEF Flows
<1>2. Bad \in SUBSET Nat
  BY <1>1
<1>3. PICK i : i = Min(Bad)
  OBVIOUS
<1>4. i \in Bad /\ \A k \in Bad : i <= k
  BY <1>2, <1>3, MinIs
<1>5. i \in Flows(s) /\ ~LifeRight(s, L, i) /\ i \in Nat /\ i # 0
  BY <1>1, <1>4
<1>6. \A j \in Flows(s) : j < i => LifeRight(s, L, j)
  BY <1>1, <1>4
<1> HIDE DEF Bad
<1>7. L[i] = LifeStep(s, L, i)
  BY <1>5, LifeIs
<1>8. PICK p : p = FlowPrevious(s, i)
  OBVIOUS
<1>9. p \in Nat /\ (p # 0 => p \in Flows(s) /\ p < i /\ s[p].key = s[i].key)
  BY <1>5, <1>8, FlowPreviousIs
<1>10. CASE L[i] = i /\ s[i].kind # "flow_end"
  BY <1>5, <1>10 DEF LifeRight
<1>11. CASE L[i] = 0 /\ s[i].kind = "flow_end"
  BY <1>5, <1>11 DEF LifeRight
<1>12. CASE p # 0 /\ s[p].kind # "flow_end" /\ L[i] = L[p]
  <2>1. LifeRight(s, L, p)
    BY <1>6, <1>9, <1>12
  <2>2. L[p] # 0 /\ L[p] \in 0..i
    BY <1>5, <1>9, <1>12, <2>1 DEF LifeRight
  <2> QED BY <1>5, <1>9, <1>12, <2>1, <2>2 DEF LifeRight
<1>13. s[i].kind \in FlowKinds
  BY <1>1, <1>5
<1> QED BY <1>7, <1>8, <1>10, <1>11, <1>12, <1>13 DEF LifeStep, FlowKinds

(* An end closes its lifecycle: what follows under its key belongs to       *)
(* another.                                                                 *)
LEMMA EndIsFinal ==
  ASSUME NEW s, Clocked(s), NEW L, L = Lifecycle(s), NEW i \in Flows(s), s[i].kind = "flow_end"
  PROVE  \A j \in Flows(s) : i < j /\ s[j].key = s[i].key => L[j] = 0 \/ L[j] > i
<1> DEFINE Bad == {j \in Flows(s) : /\ i < j /\ s[j].key = s[i].key
                                    /\ ~(L[j] = 0 \/ L[j] > i)}
<1> SUFFICES ASSUME Bad # {} PROVE FALSE
  OBVIOUS
<1>1. \A j \in Flows(s) : j \in Nat /\ j # 0
  BY FlowPreviousIs
<1>2. Bad \in SUBSET Nat
  BY <1>1
<1>3. PICK j : j = Min(Bad)
  OBVIOUS
<1>4. j \in Bad /\ \A k \in Bad : j <= k
  BY <1>2, <1>3, MinIs
<1>5. j \in Flows(s) /\ i < j /\ s[j].key = s[i].key /\ ~(L[j] = 0 \/ L[j] > i) /\ j \in Nat
  BY <1>1, <1>4
<1>6. \A k \in Flows(s) : k < j /\ i < k /\ s[k].key = s[i].key => L[k] = 0 \/ L[k] > i
  BY <1>1, <1>4, <1>5
<1> HIDE DEF Bad
<1>7. L[j] = LifeStep(s, L, j)
  BY <1>5, LifeIs
<1>8. PICK p : p = FlowPrevious(s, j)
  OBVIOUS
<1>9. p \in Nat /\ p # 0 /\ p \in Flows(s) /\ p < j /\ s[p].key = s[j].key /\ i <= p
  BY <1>5, <1>8, FlowPreviousIs
<1>10. CASE L[j] = j
  BY <1>5, <1>10
<1>11. CASE L[j] = L[p] /\ s[p].kind # "flow_end"
  <2>1. i # p
    BY <1>11
  <2>2. i \in Nat /\ p \in Nat /\ i <= p
    BY <1>1, <1>9
  <2>3. i < p
    BY <2>1, <2>2
  <2> QED BY <1>5, <1>6, <1>9, <1>11, <2>3
<1>12. L[j] = j \/ L[j] = 0 \/ (L[j] = L[p] /\ s[p].kind # "flow_end")
  BY <1>7, <1>8 DEF LifeStep
<1> QED BY <1>5, <1>10, <1>11, <1>12
----------------------------------------------------------------------------
(* What a ring retains: s is w without its first `lost` items.              *)
Suffix(s, w, lost) ==
  /\ Clocked(s) /\ Clocked(w) /\ lost \in Nat
  /\ \A i \in DOMAIN s : lost + i \in DOMAIN w /\ s[i] = w[lost + i]
  /\ \A j \in DOMAIN w : j > lost => j - lost \in DOMAIN s

LEMMA SuffixFlows ==
  ASSUME NEW s, NEW w, NEW lost, Suffix(s, w, lost)
  PROVE  /\ \A i \in Flows(s) : i \in Nat /\ i # 0 /\ lost + i \in Flows(w) /\ s[i] = w[lost + i]
         /\ \A j \in Flows(w) : /\ j \in Nat
                                /\ j > lost => j - lost \in Flows(s) /\ lost + (j - lost) = j
<1>1. Clocked(s) /\ Clocked(w) /\ lost \in Nat
  BY DEF Suffix
<1>2. /\ \A i \in Flows(s) : i \in Nat /\ i # 0
      /\ \A j \in Flows(w) : j \in Nat /\ j # 0
  BY <1>1, FlowPreviousIs
<1>3. ASSUME NEW i \in Flows(s) PROVE lost + i \in Flows(w) /\ s[i] = w[lost + i]
  BY DEF Suffix, Flows
<1>4. ASSUME NEW j \in Flows(w), j > lost
      PROVE  j - lost \in Flows(s) /\ lost + (j - lost) = j
  <2>1. j \in DOMAIN w /\ j \in Nat
    BY <1>2 DEF Flows
  <2>2. PICK k : k = j - lost
    OBVIOUS
  <2>3. k \in DOMAIN s
    BY <1>4, <2>1, <2>2 DEF Suffix
  <2>4. lost + k = j
    BY <1>1, <2>1, <2>2
  <2>5. s[k] = w[j]
    BY <2>3, <2>4 DEF Suffix
  <2> QED BY <2>2, <2>3, <2>4, <2>5 DEF Flows
<1> QED BY <1>2, <1>3, <1>4

LEMMA PreviousCut ==
  ASSUME NEW s, NEW w, NEW lost, Suffix(s, w, lost), NEW i \in Flows(s),
         NEW p, p = FlowPrevious(s, i), NEW q, q = FlowPrevious(w, lost + i)
  PROVE  /\ p # 0 => q = lost + p
         /\ p = 0 => q <= lost
<1>1. /\ Clocked(s) /\ Clocked(w) /\ lost \in Nat
      /\ lost + i \in Flows(w) /\ s[i] = w[lost + i]
  <2>1. Clocked(s) /\ Clocked(w) /\ lost \in Nat
    BY DEF Suffix
  <2> QED BY <2>1, SuffixFlows
<1>2. /\ p \in Nat /\ i \in Nat
      /\ p # 0 => p \in Flows(s) /\ p < i /\ s[p].key = s[i].key
      /\ \A j \in Flows(s) : j < i /\ s[j].key = s[i].key => p # 0 /\ j <= p
  BY <1>1, FlowPreviousIs
<1>3. PICK k : k = lost + i
  OBVIOUS
<1>4. /\ q \in Nat /\ k \in Nat
      /\ q # 0 => q \in Flows(w) /\ q < k /\ w[q].key = w[k].key
      /\ \A j \in Flows(w) : j < k /\ w[j].key = w[k].key => q # 0 /\ j <= q
  BY <1>1, <1>3, FlowPreviousIs
<1>5. ASSUME q > lost PROVE q - lost \in Flows(s) /\ p # 0 /\ q - lost <= p
  <2>1. q \in Flows(w) /\ q < k /\ w[q].key = w[k].key
    BY <1>1, <1>4, <1>5
  <2>2. PICK j : j = q - lost
    OBVIOUS
  <2>3. j \in Flows(s) /\ lost + j = q
    BY <1>5, <2>1, <2>2, SuffixFlows
  <2>4. s[j] = w[q]
    BY <2>3, SuffixFlows
  <2>5. j < i
    BY <1>1, <1>2, <1>3, <1>4, <2>1, <2>2
  <2>6. p # 0 /\ j <= p
    BY <1>1, <1>2, <1>3, <2>1, <2>3, <2>4, <2>5
  <2> QED BY <2>2, <2>3, <2>6
<1>6. ASSUME p # 0 PROVE q # 0 /\ lost + p <= q
  <2>1. lost + p \in Flows(w) /\ s[p] = w[lost + p]
    BY <1>2, <1>6, SuffixFlows
  <2>2. lost + p < k
    BY <1>1, <1>2, <1>3, <1>6
  <2> QED BY <1>1, <1>2, <1>3, <1>4, <1>6, <2>1, <2>2
<1>7. p # 0 => q = lost + p
  <2> SUFFICES ASSUME p # 0 PROVE q = lost + p
    OBVIOUS
  <2>1. lost + p <= q /\ q > lost
    BY <1>1, <1>2, <1>4, <1>6
  <2>2. q - lost <= p
    BY <1>5, <2>1
  <2> QED BY <1>1, <1>2, <1>4, <2>1, <2>2
<1>8. p = 0 => q <= lost
  BY <1>1, <1>4, <1>5
<1> QED BY <1>7, <1>8

LifeCut(s, w, lost, i) ==
  \/ /\ Lifecycle(s)[i] # 0
     /\ Lifecycle(w)[lost + i] = lost + Lifecycle(s)[i]
  \/ /\ Lifecycle(w)[lost + i] <= lost
     /\ Lifecycle(s)[i] = 0 \/ s[Lifecycle(s)[i]].kind = "flow_step"

LEMMA LivesCut ==
  ASSUME NEW s, NEW w, NEW lost, Suffix(s, w, lost)
  PROVE  \A i \in Flows(s) : LifeCut(s, w, lost, i)
<1> DEFINE Bad == {i \in Flows(s) : ~LifeCut(s, w, lost, i)}
<1> SUFFICES ASSUME Bad # {} PROVE FALSE
  OBVIOUS
<1>0. Clocked(s) /\ Clocked(w) /\ lost \in Nat
  BY DEF Suffix
<1>1. \A i \in Flows(s) : i \in Nat /\ i # 0 /\ lost + i \in Flows(w) /\ s[i] = w[lost + i]
  BY SuffixFlows
<1>2. Bad \in SUBSET Nat
  BY <1>1
<1>3. PICK i : i = Min(Bad)
  OBVIOUS
<1>4. i \in Bad /\ \A k \in Bad : i <= k
  BY <1>2, <1>3, MinIs
<1>5. i \in Flows(s) /\ ~LifeCut(s, w, lost, i) /\ i \in Nat /\ i # 0
  BY <1>1, <1>4
<1>6. \A j \in Flows(s) : j < i => LifeCut(s, w, lost, j)
  BY <1>1, <1>4
<1> HIDE DEF Bad
<1>7. PICK L, W, k : L = Lifecycle(s) /\ W = Lifecycle(w) /\ k = lost + i
  OBVIOUS
<1>8. k \in Flows(w) /\ k \in Nat /\ s[i] = w[k]
  BY <1>0, <1>1, <1>5, <1>7
<1>9. L[i] = LifeStep(s, L, i) /\ W[k] = LifeStep(w, W, k)
  BY <1>0, <1>5, <1>7, <1>8, LifeIs
<1>10. PICK p, q : p = FlowPrevious(s, i) /\ q = FlowPrevious(w, k)
  OBVIOUS
<1>11. (p # 0 => q = lost + p) /\ (p = 0 => q <= lost)
  BY <1>5, <1>7, <1>10, PreviousCut
<1>12. /\ p \in Nat /\ q \in Nat
       /\ p # 0 => p \in Flows(s) /\ p < i
       /\ q # 0 => q \in Flows(w)
  BY <1>0, <1>5, <1>8, <1>10, FlowPreviousIs
<1>13. \/ L[i] # 0 /\ W[k] = lost + L[i]
       \/ W[k] <= lost /\ (L[i] = 0 \/ s[L[i]].kind = "flow_step")
  <2>1. CASE s[i].kind = "flow_start"
    BY <1>5, <1>7, <1>8, <1>9, <2>1 DEF LifeStep
  <2>2. CASE s[i].kind # "flow_start" /\ p # 0 /\ s[p].kind # "flow_end"
    <3>1. q # 0 /\ w[q] = s[p] /\ q = lost + p
      BY <1>0, <1>1, <1>11, <1>12, <2>2
    <3>2. L[i] = L[p] /\ W[k] = W[lost + p]
      BY <1>8, <1>9, <1>10, <2>2, <3>1 DEF LifeStep
    <3>3. LifeCut(s, w, lost, p)
      BY <1>6, <1>12, <2>2
    <3> QED BY <1>7, <3>2, <3>3 DEF LifeCut
  <2>3. CASE s[i].kind # "flow_start" /\ p # 0 /\ s[p].kind = "flow_end"
    <3>1. q # 0 /\ w[q] = s[p]
      BY <1>0, <1>1, <1>11, <1>12, <2>3
    <3>2. CASE s[i].kind = "flow_step"
      <4>1. L[i] = i /\ W[k] = k
        BY <1>8, <1>9, <1>10, <2>3, <3>1, <3>2 DEF LifeStep
      <4> QED BY <1>5, <1>7, <4>1
    <3>3. CASE s[i].kind # "flow_step"
      <4>1. L[i] = 0 /\ W[k] = 0
        BY <1>8, <1>9, <1>10, <2>3, <3>1, <3>3 DEF LifeStep
      <4> QED BY <1>0, <4>1
    <3> QED BY <3>2, <3>3
  <2>4. CASE s[i].kind # "flow_start" /\ p = 0
    <3>1. (s[i].kind = "flow_step" /\ L[i] = i) \/ L[i] = 0
      BY <1>9, <1>10, <2>4 DEF LifeStep
    <3>2. CASE q # 0 /\ w[q].kind # "flow_end"
      <4>1. W[k] = W[q]
        BY <1>8, <1>9, <1>10, <2>4, <3>2 DEF LifeStep
      <4>2. W[q] \in 0..q
        BY <1>0, <1>7, <1>12, <3>2, LivesRight DEF LifeRight
      <4>3. W[k] <= lost
        BY <1>0, <1>11, <1>12, <2>4, <4>1, <4>2
      <4> QED BY <3>1, <4>3
    <3>3. CASE ~(q # 0 /\ w[q].kind # "flow_end") /\ s[i].kind = "flow_step"
      <4>1. W[k] = k /\ L[i] = i
        BY <1>8, <1>9, <1>10, <2>4, <3>3 DEF LifeStep
      <4> QED BY <1>5, <1>7, <4>1
    <3>4. CASE ~(q # 0 /\ w[q].kind # "flow_end") /\ s[i].kind # "flow_step"
      <4>1. W[k] = 0 /\ L[i] = 0
        BY <1>8, <1>9, <1>10, <2>4, <3>4 DEF LifeStep
      <4> QED BY <1>0, <4>1
    <3> QED BY <3>2, <3>3, <3>4
  <2> QED BY <2>1, <2>2, <2>3, <2>4
<1>14. LifeCut(s, w, lost, i)
  BY <1>7, <1>13 DEF LifeCut
<1> QED BY <1>5, <1>14

(* The lifecycles that have both a start and an end.                        *)
Lives(s, o) == {j \in Flows(s) : Lifecycle(s)[j] = o}
WholeAt(s, o) ==
  /\ o \in Flows(s) /\ Lifecycle(s)[o] = o /\ s[o].kind = "flow_start"
  /\ \E j \in Flows(s) : s[j].kind = "flow_end" /\ Lifecycle(s)[j] = o

LEMMA UnmarkedIs ==
  ASSUME NEW s, Clocked(s)
  PROVE  Unmarked(s) = {Lives(s, o) : o \in {o \in Flows(s) : WholeAt(s, o)}}
<1>1. PICK O : O = {o \in Openers(s) : ~TruncatedBegin(s, o) /\ ~TruncatedEnd(s, o)}
  OBVIOUS
<1>2. Unmarked(s) = {Lives(s, o) : o \in O}
  BY <1>1, Zenon DEF Unmarked, Lives
<1>3. Openers(s) = {i \in Flows(s) : Lifecycle(s)[i] = i}
  BY Zenon DEF Openers
<1>4. \A o : TruncatedEnd(s, o) <=> ~\E j \in Flows(s) :
                 s[j].kind = "flow_end" /\ Lifecycle(s)[j] = o
  BY Zenon DEF TruncatedEnd
<1>5. ASSUME NEW o \in Flows(s), Lifecycle(s)[o] = o
      PROVE  s[o].kind = "flow_start" <=> ~TruncatedBegin(s, o)
  <2>1. LifeRight(s, Lifecycle(s), o) /\ o # 0
    BY LivesRight, FlowPreviousIs
  <2>2. s[o].kind # "flow_end" /\ s[o].kind \in FlowKinds
    BY <1>5, <2>1 DEF LifeRight, Flows
  <2> QED BY <2>2 DEF FlowKinds, TruncatedBegin
<1>6. O = {o \in Flows(s) : WholeAt(s, o)}
  BY <1>1, <1>3, <1>4, <1>5 DEF WholeAt
<1> QED BY <1>2, <1>6

LEMMA StartCut ==
  ASSUME NEW s, NEW w, NEW lost, Suffix(s, w, lost), NEW o \in Flows(s),
         s[o].kind = "flow_start", NEW i \in Flows(s)
  PROVE  Lifecycle(s)[i] = o <=> Lifecycle(w)[lost + i] = lost + o
<1>1. Clocked(s) /\ Clocked(w) /\ lost \in Nat /\ o \in Nat /\ o # 0
  BY SuffixFlows DEF Suffix
<1>2. PICK a, b : a = Lifecycle(s)[i] /\ b = Lifecycle(w)[lost + i]
  OBVIOUS
<1>3. \/ a # 0 /\ b = lost + a
      \/ b <= lost /\ (a = 0 \/ s[a].kind = "flow_step")
  BY <1>2, LivesCut DEF LifeCut
<1>4. a \in Nat /\ b \in Nat
  <2>1. i \in Nat /\ lost + i \in Flows(w) /\ lost + i \in Nat
    BY <1>1, SuffixFlows
  <2>2. a \in 0..i
    BY <1>1, <1>2, LivesRight DEF LifeRight
  <2>3. b \in 0..(lost + i)
    BY <1>1, <1>2, <2>1, LivesRight DEF LifeRight
  <2> QED BY <2>1, <2>2, <2>3
<1>5. a = o => b = lost + o
  BY <1>1, <1>3
<1>6. b = lost + o => a = o
  <2> SUFFICES ASSUME b = lost + o PROVE a = o
    OBVIOUS
  <2>1. ~(b <= lost)
    BY <1>1
  <2>2. lost + a = lost + o
    BY <1>3, <2>1
  <2> QED BY <1>1, <1>4, <2>2
<1> QED BY <1>2, <1>5, <1>6

LEMMA WholeCut ==
  ASSUME NEW s, NEW w, NEW lost, Suffix(s, w, lost), NEW o \in Flows(s)
  PROVE  /\ WholeAt(s, o) <=> WholeAt(w, lost + o)
         /\ WholeAt(s, o) => Lives(w, lost + o) = {lost + i : i \in Lives(s, o)}
<1>1. Clocked(s) /\ Clocked(w) /\ lost \in Nat /\ o \in Nat /\ o # 0
  BY SuffixFlows DEF Suffix
<1>2. lost + o \in Flows(w) /\ s[o] = w[lost + o]
  BY SuffixFlows
<1>3. ASSUME NEW j \in Flows(w), Lifecycle(w)[j] = lost + o
      PROVE  j - lost \in Flows(s) /\ lost + (j - lost) = j
  <2>1. Lifecycle(w)[j] \in 0..j /\ j \in Nat
    BY <1>1, LivesRight, SuffixFlows DEF LifeRight
  <2>2. j > lost
    BY <1>1, <1>3, <2>1
  <2> QED BY <2>2, SuffixFlows
<1>4. WholeAt(s, o) => WholeAt(w, lost + o)
  <2> SUFFICES ASSUME WholeAt(s, o) PROVE WholeAt(w, lost + o)
    OBVIOUS
  <2>1. s[o].kind = "flow_start" /\ Lifecycle(s)[o] = o
    BY DEF WholeAt
  <2>2. PICK j \in Flows(s) : s[j].kind = "flow_end" /\ Lifecycle(s)[j] = o
    BY DEF WholeAt
  <2>3. Lifecycle(w)[lost + o] = lost + o /\ Lifecycle(w)[lost + j] = lost + o
    BY <2>1, <2>2, StartCut
  <2>4. lost + j \in Flows(w) /\ s[j] = w[lost + j]
    BY SuffixFlows
  <2> QED BY <1>2, <2>1, <2>2, <2>3, <2>4 DEF WholeAt
<1>5. WholeAt(w, lost + o) => WholeAt(s, o)
  <2> SUFFICES ASSUME WholeAt(w, lost + o) PROVE WholeAt(s, o)
    OBVIOUS
  <2>1. s[o].kind = "flow_start" /\ Lifecycle(w)[lost + o] = lost + o
    BY <1>2 DEF WholeAt
  <2>2. PICK j \in Flows(w) : w[j].kind = "flow_end" /\ Lifecycle(w)[j] = lost + o
    BY DEF WholeAt
  <2>3. PICK i : i = j - lost
    OBVIOUS
  <2>4. i \in Flows(s) /\ lost + i = j
    BY <1>3, <2>2, <2>3
  <2>5. s[i] = w[j]
    BY <2>4, SuffixFlows
  <2>6. Lifecycle(s)[i] = o /\ Lifecycle(s)[o] = o
    BY <2>1, <2>2, <2>4, StartCut
  <2> QED BY <2>1, <2>2, <2>4, <2>5, <2>6 DEF WholeAt
<1>6. WholeAt(s, o) => Lives(w, lost + o) = {lost + i : i \in Lives(s, o)}
  <2> SUFFICES ASSUME WholeAt(s, o) PROVE Lives(w, lost + o) = {lost + i : i \in Lives(s, o)}
    OBVIOUS
  <2>1. s[o].kind = "flow_start"
    BY DEF WholeAt
  <2>2. ASSUME NEW i \in Lives(s, o) PROVE lost + i \in Lives(w, lost + o)
    <3>1. i \in Flows(s) /\ Lifecycle(s)[i] = o
      BY DEF Lives
    <3>2. Lifecycle(w)[lost + i] = lost + o /\ lost + i \in Flows(w)
      BY <2>1, <3>1, StartCut, SuffixFlows
    <3> QED BY <3>2 DEF Lives
  <2>3. ASSUME NEW j \in Lives(w, lost + o) PROVE \E i \in Lives(s, o) : j = lost + i
    <3>1. j \in Flows(w) /\ Lifecycle(w)[j] = lost + o
      BY DEF Lives
    <3>2. PICK i : i = j - lost
      OBVIOUS
    <3>3. i \in Flows(s) /\ lost + i = j
      BY <1>3, <3>1, <3>2
    <3>4. Lifecycle(s)[i] = o
      BY <2>1, <3>1, <3>3, StartCut
    <3> QED BY <3>3, <3>4 DEF Lives
  <2> QED BY <2>2, <2>3
<1> QED BY <1>4, <1>5, <1>6

WholeSurvives(w, s, lost) ==
  {{lost + i : i \in records} : records \in Unmarked(s)}
    = {records \in Unmarked(w) : \A i \in records : i > lost}

LEMMA UnmarkedCut ==
  ASSUME NEW s, NEW w, NEW lost, Suffix(s, w, lost)
  PROVE  WholeSurvives(w, s, lost)
<1>1. Clocked(s) /\ Clocked(w) /\ lost \in Nat
  BY DEF Suffix
<1>2. /\ Unmarked(s) = {Lives(s, o) : o \in {o \in Flows(s) : WholeAt(s, o)}}
      /\ Unmarked(w) = {Lives(w, o) : o \in {o \in Flows(w) : WholeAt(w, o)}}
  BY <1>1, UnmarkedIs
<1>3. ASSUME NEW R \in Unmarked(s)
      PROVE  /\ {lost + i : i \in R} \in Unmarked(w)
             /\ \A j \in {lost + i : i \in R} : j > lost
  <2>1. PICK o \in Flows(s) : WholeAt(s, o) /\ R = Lives(s, o)
    BY <1>2
  <2>2. WholeAt(w, lost + o) /\ Lives(w, lost + o) = {lost + i : i \in R}
    BY <2>1, WholeCut
  <2>3. lost + o \in Flows(w)
    BY SuffixFlows
  <2>4. \A i \in R : i \in Nat /\ i # 0
    BY <2>1, SuffixFlows DEF Lives
  <2>5. \A i \in R : lost + i > lost
    BY <1>1, <2>4
  <2> QED BY <1>2, <2>2, <2>3, <2>5
<1>4. ASSUME NEW R \in Unmarked(w), \A i \in R : i > lost
      PROVE  \E Q \in Unmarked(s) : R = {lost + i : i \in Q}
  <2>1. PICK o \in Flows(w) : WholeAt(w, o) /\ R = Lives(w, o)
    BY <1>2
  <2>2. o \in R
    BY <2>1 DEF WholeAt, Lives
  <2>3. PICK k : k = o - lost
    OBVIOUS
  <2>4. k \in Flows(s) /\ lost + k = o
    BY <1>4, <2>2, <2>3, SuffixFlows
  <2>5. WholeAt(s, k) /\ R = {lost + i : i \in Lives(s, k)}
    BY <2>1, <2>4, WholeCut
  <2> QED BY <1>2, <2>4, <2>5
<1>5. ASSUME NEW X \in {{lost + i : i \in records} : records \in Unmarked(s)}
      PROVE  X \in {records \in Unmarked(w) : \A i \in records : i > lost}
  BY <1>3
<1>6. ASSUME NEW X \in {records \in Unmarked(w) : \A i \in records : i > lost}
      PROVE  X \in {{lost + i : i \in records} : records \in Unmarked(s)}
  BY <1>4
<1> QED BY <1>5, <1>6 DEF WholeSurvives
----------------------------------------------------------------------------
(* Flow ids.                                                                *)
UsedIds(O, f, i) == {f[j] : j \in {k \in O : k < i}}
Tries(s, used, i) == {n \in 0..(FlowIdRange - 1) : (s[i].key[2] + n) % FlowIdRange \notin used}
IdStep(s, O, f, i) ==
  (s[i].key[2] + Min(Tries(s, UsedIds(O, f, i), i))) % FlowIdRange
IdTo(s, O, f, k) ==
  /\ f = [i \in O |-> f[i]]
  /\ \A i \in O : i <= k => f[i] = IdStep(s, O, f, i)

LEMMA IdsExist ==
  ASSUME NEW s, NEW n \in Nat, NEW O \in SUBSET (1..n)
  PROVE  \E f : f = [i \in O |-> IdStep(s, O, f, i)]
<1> DEFINE Bad == {k \in Nat : ~\E f : IdTo(s, O, f, k)}
<1>0. \A i \in O : i \in Nat /\ i # 0 /\ i <= n
  OBVIOUS
<1>1. 0 \notin Bad
  <2>1. PICK f : f = [i \in O |-> s]
    OBVIOUS
  <2>2. IdTo(s, O, f, 0)
    BY <1>0, <2>1 DEF IdTo
  <2> QED BY <2>2
<1>2. ASSUME NEW k \in Nat, k \notin Bad PROVE k + 1 \notin Bad
  <2>1. PICK f : IdTo(s, O, f, k)
    BY <1>2
  <2>2. PICK g : g = [i \in O |-> IF i = k + 1 THEN IdStep(s, O, f, i) ELSE f[i]]
    OBVIOUS
  <2>3. ASSUME NEW i \in O, i <= k + 1 PROVE g[i] = IdStep(s, O, g, i)
    <3>1. \A j \in O : j < i => g[j] = f[j]
      BY <1>0, <2>2, <2>3
    <3>2. UsedIds(O, g, i) = UsedIds(O, f, i)
      BY <3>1 DEF UsedIds
    <3>3. IdStep(s, O, g, i) = IdStep(s, O, f, i)
      BY <3>2 DEF IdStep
    <3>4. i # k + 1 => i <= k
      BY <1>0, <2>3
    <3> QED BY <2>1, <2>2, <3>3, <3>4 DEF IdTo
  <2>4. IdTo(s, O, g, k + 1)
    BY <2>2, <2>3 DEF IdTo
  <2> QED BY <2>4
<1>3. Bad = {}
  <2> SUFFICES ASSUME Bad # {} PROVE FALSE
    OBVIOUS
  <2>1. Bad \in SUBSET Nat
    OBVIOUS
  <2>2. PICK m : m = Min(Bad)
    OBVIOUS
  <2>3. m \in Bad /\ m \in Nat /\ \A k \in Bad : m <= k
    BY <2>1, <2>2, MinIs
  <2> HIDE DEF Bad
  <2>4. m # 0
    BY <1>1, <2>3
  <2>5. m - 1 \in Nat /\ m - 1 \notin Bad /\ (m - 1) + 1 = m
    BY <2>3, <2>4
  <2> QED BY <1>2, <2>3, <2>5
<1>4. PICK f : IdTo(s, O, f, n)
  BY <1>3
<1>5. f = [i \in O |-> IdStep(s, O, f, i)]
  BY <1>0, <1>4 DEF IdTo
<1> QED BY <1>5

LEMMA OpenersAre ==
  ASSUME NEW s, Clocked(s)
  PROVE  /\ Openers(s) = {i \in Flows(s) : Lifecycle(s)[i] = i}
         /\ Len(s) \in Nat /\ Openers(s) \in SUBSET (1..Len(s))
<1>1. Openers(s) = {i \in Flows(s) : Lifecycle(s)[i] = i}
  BY Zenon DEF Openers
<1>2. Len(s) \in Nat /\ DOMAIN s = 1..Len(s)
  BY ItemsAre
<1> QED BY <1>1, <1>2 DEF Flows

LEMMA IdsAre ==
  ASSUME NEW s, Clocked(s), NEW O, O = Openers(s)
  PROVE  \A i \in O : FlowIds(s)[i] = IdStep(s, O, FlowIds(s), i)
<1> DEFINE id[i \in Openers(s)] ==
             LET used == {id[j] : j \in {k \in Openers(s) : k < i}}
                 tries == {n \in 0..(FlowIdRange - 1) :
                             (s[i].key[2] + n) % FlowIdRange \notin used}
             IN  (s[i].key[2] + Min(tries)) % FlowIdRange
<1>1. FlowIds(s) = id
  BY Zenon DEF FlowIds
<1>2. id = CHOOSE f : f = [i \in Openers(s) |->
             (s[i].key[2] + Min({n \in 0..(FlowIdRange - 1) :
                             (s[i].key[2] + n) % FlowIdRange
                                \notin {f[j] : j \in {k \in Openers(s) : k < i}}}))
                % FlowIdRange]
  BY Zenon
<1> HIDE DEF id
<1>3. id = CHOOSE f : f = [i \in O |-> IdStep(s, O, f, i)]
  BY <1>2, Zenon DEF IdStep, Tries, UsedIds
<1>4. \E f : f = [i \in O |-> IdStep(s, O, f, i)]
  <2>1. PICK n : n = Len(s)
    OBVIOUS
  <2>2. n \in Nat /\ O \in SUBSET (1..n)
    BY <2>1, OpenersAre
  <2> QED BY <2>2, IdsExist
<1>5. id = [i \in O |-> IdStep(s, O, id, i)]
  BY <1>3, <1>4, Zenon
<1>6. \A i \in O : id[i] = IdStep(s, O, id, i)
  BY <1>5
<1> QED BY <1>1, <1>6

(* Among as many consecutive values as there are ids, no id recurs.         *)
LEMMA ModDiffers ==
  ASSUME NEW v \in Nat, NEW d \in Nat \ {0}, NEW a \in 0..(d - 1), NEW b \in 0..(d - 1),
         (v + a) % d = (v + b) % d
  PROVE  a = b
<1>1. PICK r : r = (v + a) % d
  OBVIOUS
<1>2. PICK p, q : p = (v + a) \div d /\ q = (v + b) \div d
  OBVIOUS
<1>3. v + a \in Nat /\ v + b \in Nat
  OBVIOUS
<1>4. p \in Int /\ q \in Int /\ r \in Int /\ v + a = d * p + r /\ v + b = d * q + r
  BY <1>1, <1>2, <1>3
<1>5. a - b = d * (p - q) /\ -d < a - b /\ a - b < d
  BY <1>4
<1>6. p - q \in Int
  BY <1>4
<1>7. PICK e \in Int : e = p - q
  BY <1>6
<1>8. d * e < d /\ -d < d * e /\ a - b = d * e
  BY <1>5, <1>7
<1>9. e = 0
  <2>1. CASE e >= 1
    <3>1. d * e >= d
      BY <2>1
    <3> QED BY <1>8, <3>1
  <2>2. CASE e <= -1
    <3>1. d * e <= -d
      BY <2>2
    <3> QED BY <1>8, <3>1
  <2> QED BY <2>1, <2>2
<1>10. a - b = 0
  BY <1>8, <1>9
<1> QED BY <1>10

LEMMA SomeIdIsFree ==
  ASSUME NEW used, IsFiniteSet(used), Cardinality(used) < FlowIdRange, NEW v \in Nat
  PROVE  \E n \in 0..(FlowIdRange - 1) : (v + n) % FlowIdRange \notin used
<1> SUFFICES ASSUME \A n \in 0..(FlowIdRange - 1) : (v + n) % FlowIdRange \in used
             PROVE  FALSE
  OBVIOUS
<1>1. PICK d : d = FlowIdRange
  OBVIOUS
<1>2. d \in Nat \ {0}
  BY <1>1, ConversionAssumption
<1>3. PICK g : g = [n \in 0..(d - 1) |-> (v + n) % d]
  OBVIOUS
<1>4. g \in Injection(0..(d - 1), used)
  <2>1. g \in [0..(d - 1) -> used]
    BY <1>1, <1>3
  <2>2. \A a, b \in 0..(d - 1) : g[a] = g[b] => a = b
    BY <1>2, <1>3, ModDiffers
  <2> QED BY <2>1, <2>2, Fun_IsInj
<1>5. Cardinality(0..(d - 1)) <= Cardinality(used)
  BY <1>4, FS_Injection
<1>6. Cardinality(0..(d - 1)) = d
  <2>1. d - 1 \in Int /\ 0 \in Int /\ ~(0 > d - 1)
    BY <1>2
  <2>2. Cardinality(0..(d - 1)) = IF 0 > d - 1 THEN 0 ELSE d - 1 - 0 + 1
    BY <2>1, FS_Interval
  <2> QED BY <1>2, <2>1, <2>2
<1>7. Cardinality(used) \in Nat
  BY FS_CardinalityType
<1> QED BY <1>1, <1>2, <1>5, <1>6, <1>7

LEMMA IdsDiffer ==
  ASSUME NEW s, Clocked(s), Len(s) <= FlowIdRange,
         \A i \in Flows(s) : s[i].key[2] \in Nat,
         NEW i \in Openers(s), NEW j \in Openers(s), i < j
  PROVE  FlowIds(s)[i] # FlowIds(s)[j]
<1>1. PICK O, f, d : O = Openers(s) /\ f = FlowIds(s) /\ d = FlowIdRange
  OBVIOUS
<1>2. /\ O = {k \in Flows(s) : Lifecycle(s)[k] = k}
      /\ Len(s) \in Nat /\ O \in SUBSET (1..Len(s))
  BY <1>1, OpenersAre
<1>3. d \in Nat \ {0} /\ j \in 1..Len(s) /\ Len(s) <= d /\ i \in O /\ j \in O
  BY <1>1, <1>2, ConversionAssumption
<1>4. PICK v : v = s[j].key[2]
  OBVIOUS
<1>5. v \in Nat
  BY <1>2, <1>3, <1>4
<1>6. PICK P : P = {k \in O : k < j}
  OBVIOUS
<1>7. IsFiniteSet(P) /\ Cardinality(P) < d
  <2>1. IsFiniteSet(1..(j - 1)) /\ Cardinality(1..(j - 1)) = j - 1
    <3>1. 1 \in Int /\ j - 1 \in Int /\ j \in Nat /\ j >= 1
      BY <1>2, <1>3
    <3>2. /\ IsFiniteSet(1..(j - 1))
          /\ Cardinality(1..(j - 1)) = IF 1 > j - 1 THEN 0 ELSE j - 1 - 1 + 1
      BY <3>1, FS_Interval
    <3>3. (IF 1 > j - 1 THEN 0 ELSE j - 1 - 1 + 1) = j - 1
      BY <3>1
    <3> QED BY <3>2, <3>3
  <2>2. P \subseteq 1..(j - 1)
    BY <1>2, <1>3, <1>6
  <2>3. IsFiniteSet(P) /\ Cardinality(P) <= j - 1
    BY <2>1, <2>2, FS_Subset
  <2>4. Cardinality(P) \in Nat /\ j \in Nat /\ j <= d
    BY <1>2, <1>3, <2>3, FS_CardinalityType
  <2> QED BY <1>3, <2>3, <2>4
<1>8. PICK U : U = UsedIds(O, f, j)
  OBVIOUS
<1>9. PICK h : h = [k \in P |-> f[k]]
  OBVIOUS
<1>10. h \in Surjection(P, U)
  BY <1>6, <1>8, <1>9 DEF Surjection, UsedIds
<1>11. IsFiniteSet(U) /\ Cardinality(U) < FlowIdRange
  <2>1. IsFiniteSet(U) /\ Cardinality(U) <= Cardinality(P)
    BY <1>7, <1>10, FS_Surjection
  <2>2. Cardinality(U) \in Nat /\ Cardinality(P) \in Nat
    BY <1>7, <2>1, FS_CardinalityType
  <2> QED BY <1>1, <1>3, <1>7, <2>1, <2>2
<1>12. PICK T : T = Tries(s, U, j)
  OBVIOUS
<1>13. T # {} /\ T \in SUBSET Nat
  <2>1. \E n \in 0..(FlowIdRange - 1) : (v + n) % FlowIdRange \notin U
    BY <1>5, <1>11, SomeIdIsFree
  <2> QED BY <1>4, <1>12, <2>1 DEF Tries
<1>14. Min(T) \in T
  BY <1>13, MinIs
<1>15. f[j] = (s[j].key[2] + Min(T)) % FlowIdRange
  BY <1>1, <1>3, <1>8, <1>12, IdsAre DEF IdStep
<1>16. f[j] \notin U
  BY <1>12, <1>14, <1>15 DEF Tries
<1>17. f[i] \in U
  BY <1>3, <1>8 DEF UsedIds
<1> QED BY <1>1, <1>16, <1>17
----------------------------------------------------------------------------
(* Packets of flows in the order written.                                   *)
LEMMA FlowPacket ==
  ASSUME NEW s, Steady(s), OneTrack(s), NEW a \in Actions(s), NEW i, i = a.item, i \in Flows(s)
  PROVE  /\ a.key = <<Ns(s, i), 1, 0, i, 0>>
         /\ a.what = IF Lifecycle(s)[i] = 0 THEN "flow_orphan" ELSE s[i].kind
<1>0. Clocked(s)
  BY DEF Steady
<1>1. CASE \E j \in Slices(s) : a = Late(s, j)
  BY <1>1, KindsApart DEF Late, Action
<1>2. CASE \E j \in Instantaneous(s) : a = ZeroBegin(s, j)
  <2>1. PICK j \in Instantaneous(s) : a = ZeroBegin(s, j)
    BY <1>2
  <2>2. a.item = j
    BY <2>1, ZeroBeginIs DEF BeginsAt, Action
  <2> QED BY <2>2, KindsApart
<1>3. CASE \E j \in DOMAIN s, k \in {-1, 0, 1} :
             a = Plain(s, j, k) /\ (k = -1 => j \in Asyncs(s)) /\ (k = 1 => j \notin Flows(s))
  <2>1. PICK j \in DOMAIN s, k \in {-1, 0, 1} :
             a = Plain(s, j, k) /\ (k = -1 => j \in Asyncs(s)) /\ (k = 1 => j \notin Flows(s))
    BY <1>3
  <2>2. k # 1
    BY <2>1 DEF Plain, Action
  <2>3. k # -1
    <3> SUFFICES ASSUME k = -1 PROVE FALSE
      OBVIOUS
    <3>1. j \in AsyncOf(s, s[j].key)
      BY <2>1 DEF AsyncOf
    <3>2. i = Previous(s, AsyncKinds, j)
      BY <2>1 DEF Plain, Action
    <3>3. i # 0 => i \in Asyncs(s)
      BY <1>0, <3>1, <3>2, PreviousIs DEF AsyncOf
    <3>4. i # 0
      BY <1>0, FlowPreviousIs
    <3> QED BY <3>3, <3>4, KindsApart
  <2>4. k = 0
    BY <2>1, <2>2, <2>3
  <2>5. a = Action(WhatIs(s, j), j, Ns(s, j), 1, 0, j, 0)
    BY <2>1, <2>4 DEF Plain
  <2>6. i = j
    BY <2>5 DEF Action
  <2>7. i \notin Slices(s) /\ i \notin Asyncs(s)
    BY KindsApart
  <2>8. WhatIs(s, i) = IF Lifecycle(s)[i] = 0 THEN "flow_orphan" ELSE s[i].kind
    BY <2>7, Zenon DEF WhatIs
  <2> QED BY <2>5, <2>6, <2>8 DEF Action
<1> QED BY <1>1, <1>2, <1>3, ActionIs

LEMMA PacketOrder ==
  ASSUME NEW s, Steady(s), NEW i \in Flows(s), NEW j \in Flows(s),
         LexLess(<<Ns(s, i), 1, 0, i, 0>>, <<Ns(s, j), 1, 0, j, 0>>)
  PROVE  i < j
<1>1. /\ i \in DOMAIN s /\ j \in DOMAIN s /\ i \in Nat /\ j \in Nat
  BY ItemsAre DEF Steady, Flows
<1>2. PICK a, b : a = Ns(s, i) /\ b = Ns(s, j)
  OBVIOUS
<1>3. a \in Int /\ b \in Int /\ (j <= i => b <= a)
  BY <1>1, <1>2 DEF Steady
<1>4. PICK x, y : x = <<a, 1, 0, i, 0>> /\ y = <<b, 1, 0, j, 0>>
  OBVIOUS
<1>5. /\ DOMAIN x = 1..5 /\ x[1] = a /\ x[2] = 1 /\ x[3] = 0 /\ x[4] = i /\ x[5] = 0
      /\ y[1] = b /\ y[2] = 1 /\ y[3] = 0 /\ y[4] = j /\ y[5] = 0
  BY <1>4
<1>6. PICK n \in DOMAIN x : x[n] < y[n]
  BY <1>2, <1>4 DEF LexLess
<1>7. n \in {1, 2, 3, 4, 5}
  BY <1>5, <1>6
<1>8. a < b \/ i < j
  BY <1>5, <1>6, <1>7
<1> QED BY <1>1, <1>3, <1>8

LEMMA SameLife ==
  ASSUME NEW s, Clocked(s), Len(s) <= FlowIdRange, \A k \in Flows(s) : s[k].key[2] \in Nat,
         NEW i \in Flows(s), NEW j \in Flows(s), i < j,
         Lifecycle(s)[i] # 0, Lifecycle(s)[j] # 0, FlowId(s)[i] = FlowId(s)[j]
  PROVE  s[i].key = s[j].key /\ s[i].kind # "flow_end" /\ s[j].kind # "flow_start"
<1>1. PICK L, o, q : L = Lifecycle(s) /\ o = L[i] /\ q = L[j]
  OBVIOUS
<1>2. LifeRight(s, L, i) /\ LifeRight(s, L, j)
  BY <1>1, LivesRight
<1>3. o # 0 /\ q # 0
  BY <1>1
<1>4. /\ o \in 0..i /\ o \in Flows(s) /\ L[o] = o /\ s[o].key = s[i].key
      /\ q \in 0..j /\ q \in Flows(s) /\ L[q] = q /\ s[q].key = s[j].key
  BY <1>1, <1>2, <1>3 DEF LifeRight
<1>5. o \in Openers(s) /\ q \in Openers(s)
  BY <1>1, <1>4, OpenersAre
<1>6. FlowId(s) = [k \in Flows(s) |-> IF L[k] = 0 THEN NoFlow ELSE FlowIds(s)[L[k]]]
  BY <1>1, Zenon DEF FlowId
<1>7. FlowIds(s)[o] = FlowIds(s)[q]
  BY <1>1, <1>3, <1>6
<1>8. i \in Nat /\ j \in Nat
  BY FlowPreviousIs
<1>9. o = q
  <2>1. ~(o < q) /\ ~(q < o)
    BY <1>5, <1>7, IdsDiffer
  <2> QED BY <1>4, <1>8, <2>1
<1>10. s[i].key = s[j].key
  BY <1>4, <1>9
<1>11. s[i].kind # "flow_end"
  <2> SUFFICES ASSUME s[i].kind = "flow_end" PROVE FALSE
    OBVIOUS
  <2>1. q = 0 \/ q > i
    BY <1>1, <1>10, EndIsFinal
  <2> QED BY <1>3, <1>4, <1>8, <1>9, <2>1
<1>12. s[j].kind # "flow_start"
  <2> SUFFICES ASSUME s[j].kind = "flow_start" PROVE FALSE
    OBVIOUS
  <2>1. L[j] = LifeStep(s, L, j)
    BY <1>1, LifeIs
  <2>2. q = j
    BY <1>1, <2>1 DEF LifeStep
  <2> QED BY <1>4, <1>8, <1>9, <2>2
<1> QED BY <1>10, <1>11, <1>12

LEMMA IdsAreSeparate ==
  ASSUME NEW s, Steady(s), OneTrack(s), Len(s) <= FlowIdRange,
         \A k \in Flows(s) : s[k].key[2] \in Nat
  PROVE  IdsSeparate(s, Converted(s), FlowId(s))
<1>1. PICK A, P, L, id : /\ A = Actions(s) /\ P = Converted(s)
                         /\ L = Lifecycle(s) /\ id = FlowId(s)
  OBVIOUS
<1>2. P = Ordered(A)
  BY <1>1 DEF Converted
<1>3. SortedBy(P, A, ActionKeys(A))
  BY <1>1, <1>2, ActionsSorted
<1>4. PICK flow : flow = {n \in DOMAIN P : P[n].item \in Flows(s) /\ P[n].what # "flow_orphan"}
  OBVIOUS
<1>5. ASSUME NEW n \in flow
      PROVE  /\ P[n] \in A /\ P[n].item \in Flows(s) /\ L[P[n].item] # 0
             /\ P[n].key = <<Ns(s, P[n].item), 1, 0, P[n].item, 0>>
             /\ P[n].what = s[P[n].item].kind
  <2>1. n \in DOMAIN P /\ P[n].item \in Flows(s) /\ P[n].what # "flow_orphan"
    BY <1>4
  <2>2. P[n] \in A
    BY <1>3, <2>1 DEF SortedBy
  <2> QED BY <1>1, <2>1, <2>2, FlowPacket
<1>6. ASSUME NEW n \in flow, NEW m \in flow, n < m, id[P[n].item] = id[P[m].item]
      PROVE  /\ s[P[n].item].key = s[P[m].item].key
             /\ P[n].what # "flow_end" /\ P[m].what # "flow_start"
  <2>1. PICK i, j : i = P[n].item /\ j = P[m].item
    OBVIOUS
  <2>2. LexLess(P[n].key, P[m].key)
    <3>1. n \in DOMAIN P /\ m \in DOMAIN P
      BY <1>4
    <3>2. LexLess(ActionKeys(A)[P[n]], ActionKeys(A)[P[m]])
      BY <1>3, <1>6, <3>1 DEF SortedBy
    <3>3. P[n] \in A /\ P[m] \in A
      BY <1>5
    <3> QED BY <3>2, <3>3 DEF ActionKeys
  <2>3. i < j
    BY <1>5, <2>1, <2>2, PacketOrder
  <2>4. Clocked(s)
    BY DEF Steady
  <2>5. /\ i \in Flows(s) /\ j \in Flows(s)
        /\ Lifecycle(s)[i] # 0 /\ Lifecycle(s)[j] # 0 /\ FlowId(s)[i] = FlowId(s)[j]
    BY <1>1, <1>5, <1>6, <2>1
  <2>6. P[n].what = s[i].kind /\ P[m].what = s[j].kind
    BY <1>5, <2>1
  <2>7. s[i].key = s[j].key /\ s[i].kind # "flow_end" /\ s[j].kind # "flow_start"
    BY <2>3, <2>4, <2>5, SameLife
  <2> QED BY <2>1, <2>6, <2>7
<1>7. IdsSeparate(s, P, id)
  BY <1>4, <1>6 DEF IdsSeparate
<1> QED BY <1>1, <1>7
----------------------------------------------------------------------------
(* Where flows and async operations come from.                              *)
Tagged(x) ==
  /\ x.kind \in FlowKinds => x.key \in FlowKeys
  /\ x.kind \in AsyncKinds => x.track = AnyTrack
LifeInv ==
  /\ CaptureInv
  /\ \A i \in DOMAIN items : Tagged(items[i])
  /\ Len(items) + Len(scopes) <= MaxItems

LEMMA LifeInit == Init => LifeInv
<1> SUFFICES ASSUME Init PROVE LifeInv
  OBVIOUS
<1>1. CaptureInv
  BY CaptureInit
<1>2. items = <<>> /\ scopes = <<>>
  BY DEF Init
<1>3. DOMAIN items = {} /\ Len(items) = 0 /\ Len(scopes) = 0
  BY <1>2
<1> QED BY <1>1, <1>3, ConversionAssumption DEF LifeInv

LEMMA TaggedNext ==
  ASSUME LifeInv, NEW x, Tagged(x), items' = Append(items, x)
  PROVE  \A i \in DOMAIN items' : Tagged(items'[i])
<1>1. /\ items \in Seq(ItemType) /\ Len(items) \in Nat /\ DOMAIN items = 1..Len(items)
  BY LenProperties DEF LifeInv, CaptureInv, Clocked
<1>2. /\ DOMAIN items' = 1..(Len(items) + 1) /\ items'[Len(items) + 1] = x
      /\ \A i \in 1..Len(items) : items'[i] = items[i]
  BY <1>1
<1> TAKE i \in DOMAIN items'
<1>3. i \in 1..Len(items) \/ i = Len(items) + 1
  BY <1>1, <1>2
<1>4. CASE i \in 1..Len(items)
  BY <1>1, <1>2, <1>4 DEF LifeInv
<1>5. CASE i = Len(items) + 1
  BY <1>2, <1>5
<1> QED BY <1>3, <1>4, <1>5

LEMMA LifeNext == LifeInv /\ [Next]_vars => LifeInv'
<1> SUFFICES ASSUME LifeInv, [Next]_vars PROVE LifeInv'
  OBVIOUS
<1>1. CaptureInv /\ CaptureInv'
  BY CaptureNext DEF LifeInv
<1>2. /\ items \in Seq(ItemType) /\ Len(items) \in Nat
      /\ scopes \in Seq(ScopeType) /\ Len(scopes) \in Nat
      /\ Len(items) + Len(scopes) <= MaxItems /\ MaxItems \in Nat
  BY <1>1, LenProperties, ConversionAssumption DEF LifeInv, CaptureInv, Clocked
<1>3. \A x : items' = Append(items, x) => Len(items') = Len(items) + 1
  BY <1>2
<1>4. ASSUME NEW track, NEW advance, Begin(track, advance) PROVE LifeInv'
  <2>1. /\ items' = items /\ Len(items) + Len(scopes) < MaxItems
        /\ scopes' = Append(scopes, [track |-> track, tick |-> now'])
    BY <1>4 DEF Begin
  <2>2. Len(scopes') = Len(scopes) + 1
    BY <1>2, <2>1
  <2> QED BY <1>1, <1>2, <2>1, <2>2 DEF LifeInv
<1>5. ASSUME NEW advance, End(advance) PROVE LifeInv'
  <2>1. PICK x : x = Item("slice", now', now' - Last(scopes).tick, Last(scopes).track, NoKey, 0)
    OBVIOUS
  <2>2. items' = Append(items, x) /\ scopes' = Front(scopes) /\ scopes # <<>>
    BY <1>5, <2>1 DEF End
  <2>3. Tagged(x)
    BY <2>1 DEF Item, Tagged, FlowKinds, AsyncKinds
  <2>4. Len(scopes') = Len(scopes) - 1
    <3>1. Len(scopes) # 0
      BY <1>2, <2>2, EmptySeq
    <3>2. scopes' = SubSeq(scopes, 1, Len(scopes) - 1)
      BY <2>2 DEF Front
    <3>3. PICK m \in Nat : m = Len(scopes) - 1
      BY <1>2, <3>1
    <3>4. Len(SubSeq(scopes, 1, m)) = m
      BY <1>2, <3>3
    <3> QED BY <3>2, <3>3, <3>4
  <2> QED BY <1>1, <1>2, <1>3, <2>2, <2>3, <2>4, TaggedNext DEF LifeInv
<1>6. ASSUME NEW kind, NEW key, NEW advance, Emit(kind, key, advance),
             \/ kind \in FlowKinds /\ key \in FlowKeys
             \/ kind \in AsyncKinds
      PROVE  LifeInv'
  <2>1. PICK x : x = Item(kind, now', 0, AnyTrack, key, 0)
    OBVIOUS
  <2>2. /\ items' = Append(items, x) /\ scopes' = scopes
        /\ Len(items) + Len(scopes) < MaxItems
    BY <1>6, <2>1 DEF Emit
  <2>3. Tagged(x)
    BY <1>6, <2>1 DEF Item, Tagged, FlowKinds, AsyncKinds
  <2> QED BY <1>1, <1>2, <1>3, <2>2, <2>3, TaggedNext DEF LifeInv
<1>7. ASSUME NEW reference, NEW advance, Sync(reference, advance) PROVE LifeInv'
  <2>1. PICK x : x = Item("sync", now', 0, AnyTrack, NoKey, reference)
    OBVIOUS
  <2>2. /\ items' = Append(items, x) /\ scopes' = scopes
        /\ Len(items) + Len(scopes) < MaxItems
    BY <1>7, <2>1 DEF Sync
  <2>3. Tagged(x)
    BY <2>1 DEF Item, Tagged, FlowKinds, AsyncKinds
  <2> QED BY <1>1, <1>2, <1>3, <2>2, <2>3, TaggedNext DEF LifeInv
<1>8. ASSUME NEW reference, Transition(reference) PROVE LifeInv'
  <2>1. PICK x : x = [Item("sync", 0, 0, AnyTrack, NoKey, reference)
                        EXCEPT !.generation = generation + 1]
    OBVIOUS
  <2>2. /\ items' = Append(items, x) /\ scopes' = scopes /\ scopes = <<>>
        /\ Len(items) < MaxItems
    BY <1>8, <2>1 DEF Transition
  <2>3. Tagged(x)
    BY <2>1 DEF Item, Tagged, FlowKinds, AsyncKinds
  <2>4. Len(scopes) = 0
    BY <2>2
  <2> QED BY <1>1, <1>2, <1>3, <2>2, <2>3, <2>4, TaggedNext DEF LifeInv
<1>9. CASE UNCHANGED vars
  BY <1>1, <1>9 DEF LifeInv, vars
<1>10. CASE Next
  BY <1>4, <1>5, <1>6, <1>7, <1>8, <1>10 DEF Next
<1> QED BY <1>9, <1>10

(* What a ring retains is a suffix, with its flows and async operations.    *)
LEMMA RetainedIs ==
  ASSUME LifeInv, NEW k \in 1..Len(items), NEW s, s = SubSeq(items, k, Len(items)),
         NEW lost, lost = Len(items) - Len(s)
  PROVE  /\ Suffix(s, items, lost) /\ OneTrack(s) /\ Len(s) <= FlowIdRange
         /\ \A i \in Flows(s) : s[i].key[2] \in Nat
<1> DEFINE n == Len(items)
<1>1. /\ items \in Seq(ItemType) /\ n \in Nat /\ DOMAIN items = 1..n /\ Clocked(items)
      /\ CaptureInv /\ \A i \in 1..n : items[i] \in ItemType
      /\ scopes \in Seq(ScopeType) /\ Len(scopes) \in Nat
  BY LenProperties, ElementOfSeq DEF LifeInv, CaptureInv, Clocked
<1>2. Clocked(s)
  BY <1>1, SuffixOrdered
<1>3. \A i \in k..n : items[i] \in ItemType
  BY <1>1
<1>4. /\ s \in Seq(ItemType) /\ Len(s) = n - k + 1
      /\ \A i \in 1..(n - k + 1) : s[i] = items[k + i - 1]
  BY <1>1, <1>3, SubSeqProperties
<1>5. DOMAIN s = 1..(n - k + 1)
  BY <1>4, LenProperties
<1>6. lost = k - 1 /\ lost \in Nat /\ k \in Nat
  BY <1>1, <1>4
<1>7. ASSUME NEW i \in DOMAIN s
      PROVE  lost + i \in DOMAIN items /\ s[i] = items[lost + i]
  <2>0. PICK m \in Nat : m = n
    BY <1>1
  <2>1. i \in 1..(n - k + 1) /\ lost + i = k + i - 1 /\ k + i - 1 \in 1..n
    <3>1. i \in 1..(m - k + 1) /\ k \in 1..m
      BY <1>5, <2>0
    <3>2. lost + i = k + i - 1 /\ k + i - 1 \in 1..m
      BY <1>6, <3>1
    <3> QED BY <2>0, <3>1, <3>2
  <2> QED BY <1>1, <1>4, <2>1
<1>8. ASSUME NEW j \in DOMAIN items, j > lost PROVE j - lost \in DOMAIN s
  BY <1>1, <1>5, <1>6, <1>8
<1>9. Suffix(s, items, lost)
  BY <1>1, <1>2, <1>6, <1>7, <1>8 DEF Suffix
<1>10. \A i \in DOMAIN s : Tagged(s[i])
  BY <1>7 DEF LifeInv
<1>11. OneTrack(s)
  BY <1>10 DEF OneTrack, Asyncs, Tagged
<1>12. \A i \in Flows(s) : s[i].key[2] \in Nat
  BY <1>10, FlowIdsSuffice DEF Flows, Tagged
<1>13. Len(s) <= FlowIdRange
  <2>1. n + Len(scopes) <= MaxItems
    BY DEF LifeInv
  <2>2. MaxItems \in Nat /\ FlowIdRange \in Nat /\ MaxItems <= FlowIdRange
    BY ConversionAssumption, FlowIdsSuffice
  <2> QED BY <1>1, <1>4, <1>6, <2>1, <2>2
<1> QED BY <1>9, <1>11, <1>12, <1>13

SeparateIn(w, s, lost, wrapped) ==
  /\ WholeSurvives(w, s, lost)
  /\ (Flows(s) \cup Asyncs(s) # {} /\ Converts(s, wrapped)) =>
       /\ IdsSeparate(s, Converted(s), FlowId(s))
       /\ \A key \in AsyncKeys :
            Alternate(s, Ordered({a \in AsyncActions(s) : s[a.item].key = key}))

LEMMA RetainedSeparate ==
  ASSUME LifeInv, NEW r \in Retained, NEW s, s = r.s, NEW lost, lost = Len(items) - Len(s)
  PROVE  SeparateIn(items, s, lost, r.wrapped)
<1>1. PICK k \in 1..Len(items) :
        r = [s |-> SubSeq(items, k, Len(items)), wrapped |-> k > 1]
  BY DEF Retained
<1>2. s = SubSeq(items, k, Len(items))
  BY <1>1
<1>3. /\ Suffix(s, items, lost) /\ OneTrack(s) /\ Len(s) <= FlowIdRange
      /\ \A i \in Flows(s) : s[i].key[2] \in Nat
  BY <1>2, RetainedIs
<1>4. WholeSurvives(items, s, lost)
  <2>1. PICK w : w = items
    OBVIOUS
  <2>2. WholeSurvives(w, s, lost)
    BY <1>3, <2>1, UnmarkedCut
  <2> QED BY <2>1, <2>2
<1>5. ASSUME Converts(s, r.wrapped)
      PROVE  /\ IdsSeparate(s, Converted(s), FlowId(s))
             /\ \A key : Alternate(s, Ordered({a \in AsyncActions(s) : s[a.item].key = key}))
  <2>1. Clocked(s) /\ Stepped(s)
    BY <1>2, SuffixOrdered DEF LifeInv
  <2>2. PICK wrapped : wrapped = r.wrapped
    OBVIOUS
  <2>3. Accepted(s, wrapped)
    BY <1>5, <2>2 DEF Converts
  <2>4. Steady(s)
    BY <2>1, <2>3, AcceptedSteady
  <2>5. IdsSeparate(s, Converted(s), FlowId(s))
    BY <1>3, <2>4, IdsAreSeparate
  <2>6. \A key : Alternate(s, Ordered(StepsOf(s, key)))
    BY <1>3, <2>4, StepsAlternate
  <2> QED BY <2>5, <2>6, Zenon DEF StepsOf
<1> QED BY <1>4, <1>5, Zenon DEF SeparateIn

LEMMA LivesSeparate == LifeInv => LifecyclesSeparate
<1> SUFFICES ASSUME LifeInv PROVE LifecyclesSeparate
  OBVIOUS
<1>1. ASSUME NEW r \in Retained
      PROVE  SeparateIn(items, r.s, Len(items) - Len(r.s), r.wrapped)
  <2>1. PICK s : s = r.s
    OBVIOUS
  <2>2. PICK lost : lost = Len(items) - Len(s)
    OBVIOUS
  <2>3. SeparateIn(items, s, lost, r.wrapped)
    BY <2>1, <2>2, RetainedSeparate
  <2> QED BY <2>1, <2>2, <2>3
<1> QED BY <1>1, Zenon DEF LifecyclesSeparate, SeparateIn, WholeSurvives

(* At any capture of any writer that keeps its rules, whole or what a       *)
(* wrapped ring retains of it, packets share a flow id only within one      *)
(* lifecycle, what is not marked as truncated is a lifecycle of the whole   *)
(* capture, and the begins and ends of an async operation alternate.        *)
THEOREM LifecyclesAreSeparate == Spec => []LifecyclesSeparate
<1>1. Spec => []LifeInv
  BY LifeInit, LifeNext, PTL DEF Spec
<1> QED BY <1>1, LivesSeparate, PTL
----------------------------------------------------------------------------
(* The stack of open slices.                                                *)
StackNext(p, open) ==
  CASE open = <<0>> -> <<0>>
    [] open # <<0>> /\ p.what = "begin" -> Append(open, p.item)
    [] open # <<0>> /\ p.what = "end" ->
         IF open # <<>> /\ Last(open) = p.item THEN Front(open) ELSE <<0>>
StackStep(f, g, n) == IF n = 0 THEN <<>> ELSE StackNext(f[n], g[n - 1])
StackTo(f, g, N, k) ==
  /\ g = [n \in 0..N |-> g[n]]
  /\ \A n \in 0..N : n <= k => g[n] = StackStep(f, g, n)

LEMMA StacksExist ==
  ASSUME NEW f, NEW N \in Nat
  PROVE  \E g : g = [n \in 0..N |-> StackStep(f, g, n)]
<1> DEFINE Bad == {k \in Nat : ~\E g : StackTo(f, g, N, k)}
<1>1. 0 \notin Bad
  <2>1. PICK g : g = [n \in 0..N |-> <<>>]
    OBVIOUS
  <2>2. StackTo(f, g, N, 0)
    BY <2>1 DEF StackTo, StackStep
  <2> QED BY <2>2
<1>2. ASSUME NEW k \in Nat, k \notin Bad PROVE k + 1 \notin Bad
  <2>1. PICK g : StackTo(f, g, N, k)
    BY <1>2
  <2>2. PICK h : h = [n \in 0..N |-> IF n = k + 1 THEN StackStep(f, g, n) ELSE g[n]]
    OBVIOUS
  <2>3. ASSUME NEW n \in 0..N, n <= k + 1 PROVE h[n] = StackStep(f, h, n)
    <3>1. n # 0 => n - 1 \in 0..N /\ n - 1 # k + 1
      BY <2>3
    <3>2. n # 0 => h[n - 1] = g[n - 1]
      BY <2>2, <3>1
    <3>3. StackStep(f, h, n) = StackStep(f, g, n)
      BY <3>2 DEF StackStep
    <3>4. n # k + 1 => n <= k
      BY <2>3
    <3> QED BY <2>1, <2>2, <3>3, <3>4 DEF StackTo
  <2>4. StackTo(f, h, N, k + 1)
    BY <2>2, <2>3 DEF StackTo
  <2> QED BY <2>4
<1>3. Bad = {}
  <2> SUFFICES ASSUME Bad # {} PROVE FALSE
    OBVIOUS
  <2>1. Bad \in SUBSET Nat
    OBVIOUS
  <2>2. PICK m : m = Min(Bad)
    OBVIOUS
  <2>3. m \in Bad /\ m \in Nat /\ \A k \in Bad : m <= k
    BY <2>1, <2>2, MinIs
  <2> HIDE DEF Bad
  <2>4. m # 0
    BY <1>1, <2>3
  <2>5. m - 1 \in Nat /\ m - 1 \notin Bad /\ (m - 1) + 1 = m
    BY <2>3, <2>4
  <2> QED BY <1>2, <2>3, <2>5
<1>4. PICK g : StackTo(f, g, N, N)
  BY <1>3
<1>5. g = [n \in 0..N |-> StackStep(f, g, n)]
  BY <1>4 DEF StackTo
<1> QED BY <1>5

LEMMA StacksAre ==
  ASSUME NEW f, NEW N \in Nat, Len(f) = N
  PROVE  /\ Stacks(f)[0] = <<>>
         /\ \A n \in 1..N : Stacks(f)[n] = StackNext(f[n], Stacks(f)[n - 1])
<1> DEFINE after[n \in 0..Len(f)] ==
             IF n = 0 THEN <<>>
             ELSE LET open == after[n - 1]
                  IN  CASE open = <<0>> -> <<0>>
                        [] open # <<0>> /\ f[n].what = "begin" -> Append(open, f[n].item)
                        [] open # <<0>> /\ f[n].what = "end" ->
                             IF open # <<>> /\ Last(open) = f[n].item
                             THEN Front(open) ELSE <<0>>
<1>1. Stacks(f) = after
  BY Zenon DEF Stacks
<1>2. after = CHOOSE g : g = [n \in 0..Len(f) |->
             IF n = 0 THEN <<>>
             ELSE CASE g[n - 1] = <<0>> -> <<0>>
                    [] g[n - 1] # <<0>> /\ f[n].what = "begin" -> Append(g[n - 1], f[n].item)
                    [] g[n - 1] # <<0>> /\ f[n].what = "end" ->
                         IF g[n - 1] # <<>> /\ Last(g[n - 1]) = f[n].item
                         THEN Front(g[n - 1]) ELSE <<0>>]
  BY Zenon
<1> HIDE DEF after
<1>3. after = CHOOSE g : g = [n \in 0..Len(f) |-> StackStep(f, g, n)]
  BY <1>2, Zenon DEF StackStep, StackNext
<1>4. after = [n \in 0..N |-> StackStep(f, after, n)]
  BY <1>3, StacksExist, Zenon
<1>5. \A n \in 0..N : after[n] = StackStep(f, after, n)
  BY <1>4
<1>6. after[0] = <<>>
  BY <1>5 DEF StackStep
<1>7. \A n \in 1..N : after[n] = StackNext(f[n], after[n - 1])
  BY <1>5 DEF StackStep
<1> QED BY <1>1, <1>6, <1>7

(* f opens and closes each member of I once, and no two cross.              *)
Bracketed(f, N, I, B, E) ==
  /\ I \in SUBSET (Nat \ {0})
  /\ \A i \in I : /\ B[i] \in 1..N /\ E[i] \in 1..N /\ B[i] < E[i]
                  /\ f[B[i]].what = "begin" /\ f[B[i]].item = i
                  /\ f[E[i]].what = "end" /\ f[E[i]].item = i
  /\ \A n \in 1..N : f[n].item \in I /\ n \in {B[f[n].item], E[f[n].item]}
  /\ \A i, j \in I : ~(B[i] < B[j] /\ B[j] < E[i] /\ E[i] < E[j])
StackAt(I, B, E, n, st) ==
  /\ st \in Seq(I)
  /\ \A k, l \in 1..Len(st) : k < l => B[st[k]] < B[st[l]]
  /\ \A i \in I : (\E k \in 1..Len(st) : st[k] = i) <=> (B[i] <= n /\ n < E[i])

LEMMA StackOpens ==
  ASSUME NEW f, NEW N \in Nat, NEW I, NEW B, NEW E, Bracketed(f, N, I, B, E),
         NEW n \in 1..N, NEW st, StackAt(I, B, E, n - 1, st), NEW i \in I, n = B[i]
  PROVE  StackAt(I, B, E, n, StackNext(f[n], st))
<1>1. /\ st \in Seq(I) /\ Len(st) \in Nat /\ DOMAIN st = 1..Len(st)
      /\ \A k \in 1..Len(st) : st[k] \in I
  BY LenProperties, ElementOfSeq DEF StackAt
<1>2. st # <<0>>
  <2> SUFFICES ASSUME st = << 0 >> PROVE FALSE
    OBVIOUS
  <2>1. 1 \in 1..Len(st) /\ st[1] = 0
    OBVIOUS
  <2> QED BY <1>1, <2>1 DEF Bracketed
<1>3. f[n].what = "begin" /\ f[n].item = i
  BY DEF Bracketed
<1>4. PICK t : t = Append(st, i)
  OBVIOUS
<1>5. StackNext(f[n], st) = t
  BY <1>2, <1>3, <1>4 DEF StackNext
<1>6. PICK m : m = Len(st)
  OBVIOUS
<1>7. /\ t \in Seq(I) /\ Len(t) = m + 1 /\ t[m + 1] = i /\ m \in Nat
      /\ \A k \in 1..m : t[k] = st[k]
  BY <1>1, <1>4, <1>6, AppendProperties
<1>8. /\ \A j \in I : B[j] \in 1..N /\ E[j] \in 1..N /\ B[j] < E[j]
      /\ \A j \in I : j # i => B[j] # n /\ E[j] # n
      /\ E[i] > n
  BY DEF Bracketed
<1>9. \A k \in 1..m : B[st[k]] < n
  <2> TAKE k \in 1..m
  <2>1. st[k] \in I
    BY <1>1, <1>6
  <2>2. B[st[k]] <= n - 1
    BY <1>6, <2>1 DEF StackAt
  <2> QED BY <1>8, <2>1, <2>2
<1>10. ASSUME NEW k \in 1..Len(t), NEW l \in 1..Len(t), k < l PROVE B[t[k]] < B[t[l]]
  <2>1. k \in 1..m /\ t[k] = st[k]
    BY <1>7, <1>10
  <2>2. CASE l = m + 1
    BY <1>7, <1>9, <2>1, <2>2
  <2>3. CASE l \in 1..m
    <3>1. t[l] = st[l]
      BY <1>7, <2>3
    <3> QED BY <1>6, <1>10, <2>1, <2>3, <3>1 DEF StackAt
  <2> QED BY <1>7, <2>2, <2>3
<1>11. ASSUME NEW j \in I
       PROVE  (\E k \in 1..Len(t) : t[k] = j) <=> (B[j] <= n /\ n < E[j])
  <2>1. (\E k \in 1..m : st[k] = j) <=> (B[j] <= n - 1 /\ n - 1 < E[j])
    BY <1>6 DEF StackAt
  <2>2. CASE j = i
    <3>1. m + 1 \in 1..Len(t)
      BY <1>7
    <3> QED BY <1>7, <1>8, <2>2, <3>1
  <2>3. CASE j # i
    <3>1. B[j] # n /\ E[j] # n /\ B[j] \in 1..N /\ E[j] \in 1..N
      BY <1>8, <2>3
    <3>2. (B[j] <= n - 1 /\ n - 1 < E[j]) <=> (B[j] <= n /\ n < E[j])
      BY <3>1
    <3>3. (\E k \in 1..Len(t) : t[k] = j) <=> (\E k \in 1..m : st[k] = j)
      BY <1>7, <2>3
    <3> QED BY <2>1, <3>2, <3>3
  <2> QED BY <2>2, <2>3
<1>12. StackAt(I, B, E, n, t)
  BY <1>7, <1>10, <1>11 DEF StackAt
<1> QED BY <1>5, <1>12

LEMMA StackCloses ==
  ASSUME NEW f, NEW N \in Nat, NEW I, NEW B, NEW E, Bracketed(f, N, I, B, E),
         NEW n \in 1..N, NEW st, StackAt(I, B, E, n - 1, st), NEW i \in I, n = E[i]
  PROVE  StackAt(I, B, E, n, StackNext(f[n], st))
<1>1. /\ st \in Seq(I) /\ Len(st) \in Nat /\ DOMAIN st = 1..Len(st)
      /\ \A k \in 1..Len(st) : st[k] \in I
  BY LenProperties, ElementOfSeq DEF StackAt
<1>2. st # <<0>>
  <2> SUFFICES ASSUME st = << 0 >> PROVE FALSE
    OBVIOUS
  <2>1. 1 \in 1..Len(st) /\ st[1] = 0
    OBVIOUS
  <2> QED BY <1>1, <2>1 DEF Bracketed
<1>3. f[n].what = "end" /\ f[n].item = i
  BY DEF Bracketed
<1>4. PICK m : m = Len(st)
  OBVIOUS
<1>5. /\ \A j \in I : B[j] \in 1..N /\ E[j] \in 1..N /\ B[j] < E[j]
      /\ \A j \in I : j # i => E[j] # n /\ B[j] # n
      /\ B[i] < n /\ B[i] # n
  BY DEF Bracketed
<1>6. \A k \in 1..m : B[st[k]] <= n - 1 /\ n - 1 < E[st[k]]
  BY <1>1, <1>4 DEF StackAt
<1>7. PICK c \in 1..m : st[c] = i
  <2>1. B[i] <= n - 1 /\ n - 1 < E[i]
    BY <1>5
  <2> QED BY <1>4, <2>1 DEF StackAt
<1>8. m \in Nat /\ m # 0 /\ m \in 1..m
  BY <1>1, <1>4, <1>7
<1>9. c = m
  <2> SUFFICES ASSUME c # m PROVE FALSE
    OBVIOUS
  <2>1. c < m
    BY <1>7, <1>8
  <2>2. PICK x : x = st[m]
    OBVIOUS
  <2>3. x \in I /\ B[i] < B[x]
    BY <1>1, <1>4, <1>7, <1>8, <2>1, <2>2 DEF StackAt
  <2>4. B[x] <= n - 1 /\ n - 1 < E[x]
    BY <1>6, <1>8, <2>2
  <2>5. x # i
    BY <1>5, <2>3
  <2>6. B[x] < E[i] /\ E[i] < E[x]
    BY <1>5, <2>3, <2>4, <2>5
  <2> QED BY <2>3, <2>6 DEF Bracketed
<1>10. st # <<>> /\ Last(st) = i
  BY <1>1, <1>4, <1>7, <1>8, <1>9 DEF Last
<1>11. PICK t : t = Front(st)
  OBVIOUS
<1>12. StackNext(f[n], st) = t
  <2>1. StackNext(f[n], st) = IF st # <<>> /\ Last(st) = f[n].item THEN Front(st) ELSE <<0>>
    BY <1>2, <1>3 DEF StackNext
  <2> QED BY <1>3, <1>10, <1>11, <2>1
<1>13. /\ t \in Seq(I) /\ Len(t) = m - 1 /\ \A k \in 1..(m - 1) : t[k] = st[k]
  <2>1. PICK e \in Nat : e = m - 1
    BY <1>8
  <2>2. t = SubSeq(st, 1, e)
    BY <1>4, <1>11, <2>1 DEF Front
  <2>3. \A k \in 1..e : st[k] \in I
    BY <1>1, <1>4, <2>1
  <2>4. /\ t \in Seq(I) /\ Len(t) = IF 1 <= e THEN e - 1 + 1 ELSE 0
        /\ \A k \in 1..(e - 1 + 1) : t[k] = st[1 + k - 1]
    BY <2>2, <2>3, SubSeqProperties
  <2>5. e - 1 + 1 = e /\ (IF 1 <= e THEN e - 1 + 1 ELSE 0) = e
    BY <2>1
  <2>6. \A k \in 1..e : 1 + k - 1 = k
    BY <2>1
  <2> QED BY <2>1, <2>4, <2>5, <2>6
<1>14. ASSUME NEW k \in 1..Len(t), NEW l \in 1..Len(t), k < l PROVE B[t[k]] < B[t[l]]
  <2>1. k \in 1..(m - 1) /\ l \in 1..(m - 1) /\ k \in 1..m /\ l \in 1..m
    BY <1>8, <1>13
  <2>2. t[k] = st[k] /\ t[l] = st[l]
    BY <1>13, <2>1
  <2> QED BY <1>4, <1>14, <2>1, <2>2 DEF StackAt
<1>15. ASSUME NEW j \in I
       PROVE  (\E k \in 1..Len(t) : t[k] = j) <=> (B[j] <= n /\ n < E[j])
  <2>1. (\E k \in 1..m : st[k] = j) <=> (B[j] <= n - 1 /\ n - 1 < E[j])
    BY <1>4 DEF StackAt
  <2>2. CASE j = i
    <3>1. ASSUME NEW k \in 1..Len(t), t[k] = i PROVE FALSE
      <4>1. k \in 1..(m - 1) /\ k \in 1..m /\ k < m /\ t[k] = st[k]
        BY <1>8, <1>13
      <4>2. B[st[k]] < B[st[m]]
        BY <1>4, <1>8, <4>1 DEF StackAt
      <4> QED BY <1>5, <1>7, <1>9, <3>1, <4>1, <4>2
    <3>2. ~(n < E[j])
      BY <2>2
    <3> QED BY <2>2, <3>1, <3>2
  <2>3. CASE j # i
    <3>1. B[j] # n /\ E[j] # n /\ B[j] \in 1..N /\ E[j] \in 1..N
      BY <1>5, <2>3
    <3>2. (B[j] <= n - 1 /\ n - 1 < E[j]) <=> (B[j] <= n /\ n < E[j])
      BY <3>1
    <3>3. ASSUME NEW k \in 1..m, st[k] = j PROVE k \in 1..Len(t) /\ t[k] = j
      <4>1. k # m
        BY <1>7, <1>9, <2>3, <3>3
      <4> QED BY <1>8, <1>13, <3>3, <4>1
    <3>4. ASSUME NEW k \in 1..Len(t), t[k] = j PROVE k \in 1..m /\ st[k] = j
      BY <1>8, <1>13, <3>4
    <3> QED BY <2>1, <3>2, <3>3, <3>4
  <2> QED BY <2>2, <2>3
<1>16. StackAt(I, B, E, n, t)
  BY <1>13, <1>14, <1>15 DEF StackAt
<1> QED BY <1>12, <1>16

LEMMA Brackets ==
  ASSUME NEW f, NEW N \in Nat, Len(f) = N, NEW I, NEW B, NEW E, Bracketed(f, N, I, B, E)
  PROVE  Balanced(f)
<1> DEFINE Bad == {n \in 0..N : ~StackAt(I, B, E, n, Stacks(f)[n])}
<1>1. Bad = {}
  <2> SUFFICES ASSUME Bad # {} PROVE FALSE
    OBVIOUS
  <2>1. Bad \in SUBSET Nat
    OBVIOUS
  <2>2. PICK n : n = Min(Bad)
    OBVIOUS
  <2>3. n \in Bad /\ \A k \in Bad : n <= k
    BY <2>1, <2>2, MinIs
  <2>4. n \in 0..N /\ ~StackAt(I, B, E, n, Stacks(f)[n])
    BY <2>3
  <2>5. \A k \in 0..N : k < n => StackAt(I, B, E, k, Stacks(f)[k])
    BY <2>3, <2>4
  <2> HIDE DEF Bad
  <2>6. CASE n = 0
    <3>1. Stacks(f)[0] = <<>>
      BY StacksAre
    <3>2. StackAt(I, B, E, 0, <<>>)
      <4>1. <<>> \in Seq(I) /\ Len(<<>>) = 0
        BY EmptySeq
      <4>2. ASSUME NEW i \in I PROVE ~(B[i] <= 0)
        <5>1. B[i] \in 1..N
          BY DEF Bracketed
        <5> QED BY <5>1
      <4> QED BY <4>1, <4>2 DEF StackAt
    <3> QED BY <2>4, <2>6, <3>1, <3>2
  <2>7. CASE n # 0
    <3>1. n \in 1..N /\ n - 1 \in 0..N /\ n - 1 < n
      BY <2>4, <2>7
    <3>2. PICK st : st = Stacks(f)[n - 1]
      OBVIOUS
    <3>3. StackAt(I, B, E, n - 1, st)
      BY <2>5, <3>1, <3>2
    <3>4. Stacks(f)[n] = StackNext(f[n], st)
      BY <3>1, <3>2, StacksAre
    <3>5. PICK i : i = f[n].item
      OBVIOUS
    <3>6. i \in I /\ (n = B[i] \/ n = E[i])
      BY <3>1, <3>5 DEF Bracketed
    <3>7. StackAt(I, B, E, n, StackNext(f[n], st))
      BY <3>1, <3>3, <3>6, StackOpens, StackCloses
    <3> QED BY <2>4, <3>4, <3>7
  <2> QED BY <2>6, <2>7
<1>2. PICK st : st = Stacks(f)[N]
  OBVIOUS
<1>3. StackAt(I, B, E, N, st)
  BY <1>1, <1>2
<1>4. st = <<>>
  <2>1. /\ st \in Seq(I) /\ \A k \in 1..Len(st) : st[k] \in I
        /\ st # <<>> => Len(st) \in Nat \ {0}
    BY <1>3, ElementOfSeq, EmptySeq DEF StackAt
  <2> SUFFICES ASSUME st # <<>> PROVE FALSE
    OBVIOUS
  <2>2. 1 \in 1..Len(st)
    BY <2>1
  <2>3. PICK x : x = st[1]
    OBVIOUS
  <2>4. x \in I /\ N < E[x]
    BY <1>3, <2>1, <2>2, <2>3 DEF StackAt
  <2>5. E[x] \in 1..N
    BY <2>4 DEF Bracketed
  <2> QED BY <2>4, <2>5
<1> QED BY <1>2, <1>4, Zenon DEF Balanced
----------------------------------------------------------------------------
(* What the order in which scopes close says of a capture, or of a suffix   *)
(* of one: a slice follows an earlier one or contains it, and each          *)
(* generation but the first has an item where its counter starts.           *)
Fits(x, y) == StartTick(y) >= x.tick \/ StartTick(y) <= StartTick(x)
NewStart(s, i, j) ==
  \E m \in DOMAIN s :
    i < m /\ m <= j /\ s[m].generation = s[j].generation /\ s[m].tick = 0
Nested(s) ==
  /\ \A i, j \in Slices(s) :
       i < j /\ s[i].generation = s[j].generation => Fits(s[i], s[j])
  /\ \A i, j \in DOMAIN s :
       i < j /\ s[i].generation # s[j].generation => NewStart(s, i, j)
NestInv ==
  /\ CaptureInv
  /\ Nested(items)
  /\ \A m, n \in DOMAIN scopes : m < n => scopes[m].tick <= scopes[n].tick
  /\ \A i \in Slices(items), n \in DOMAIN scopes : items[i].generation = generation =>
       scopes[n].tick >= items[i].tick \/ scopes[n].tick <= StartTick(items[i])

LEMMA NestInit == Init => NestInv
<1> SUFFICES ASSUME Init PROVE NestInv
  OBVIOUS
<1>1. CaptureInv /\ items = <<>> /\ scopes = <<>>
  BY CaptureInit DEF Init
<1>2. DOMAIN items = {} /\ DOMAIN scopes = {}
  BY <1>1
<1>3. Slices(items) = {}
  BY <1>2 DEF Slices
<1> QED BY <1>1, <1>2, <1>3 DEF NestInv, Nested

LEMMA NestedAdded ==
  ASSUME CaptureInv, Nested(items), NEW x, items' = Append(items, x),
         x.kind = "slice" => \A i \in Slices(items) :
           items[i].generation = x.generation => Fits(items[i], x),
         x.generation = generation \/ x.tick = 0
  PROVE  /\ Nested(items)'
         /\ \A i \in Slices(items') : \/ i \in Slices(items) /\ items'[i] = items[i]
                                      \/ items'[i] = x /\ x.kind = "slice"
<1>1. PICK n : n = Len(items)
  OBVIOUS
<1>2. items \in Seq(ItemType) /\ n \in Nat /\ DOMAIN items = 1..n
  BY <1>1, LenProperties DEF CaptureInv, Clocked
<1>3. PICK t : t = items'
  OBVIOUS
<1>4. /\ DOMAIN t = 1..(n + 1) /\ t[n + 1] = x
      /\ \A i \in 1..n : t[i] = items[i]
  BY <1>1, <1>2, <1>3
<1>5. ASSUME NEW i \in Slices(t)
      PROVE  \/ i \in Slices(items) /\ t[i] = items[i] /\ i \in 1..n
             \/ i = n + 1 /\ t[i] = x /\ x.kind = "slice"
  <2>1. i \in 1..(n + 1) /\ t[i].kind = "slice"
    BY <1>4 DEF Slices
  <2>2. CASE i = n + 1
    BY <1>4, <2>1, <2>2
  <2>3. CASE i \in 1..n
    BY <1>2, <1>4, <2>1, <2>3 DEF Slices
  <2> QED BY <1>2, <2>1, <2>2, <2>3
<1>6. ASSUME NEW i \in Slices(t), NEW j \in Slices(t), i < j, t[i].generation = t[j].generation
      PROVE  Fits(t[i], t[j])
  <2>1. i \in 1..(n + 1) /\ j \in 1..(n + 1)
    BY <1>4 DEF Slices
  <2>2. i \in Slices(items) /\ t[i] = items[i] /\ i \in 1..n
    BY <1>2, <1>5, <1>6, <2>1
  <2>3. CASE j \in Slices(items) /\ t[j] = items[j] /\ j \in 1..n
    BY <1>6, <2>2, <2>3 DEF Nested
  <2>4. CASE t[j] = x /\ x.kind = "slice"
    BY <1>6, <2>2, <2>4
  <2> QED BY <1>5, <2>3, <2>4
<1>7. ASSUME NEW i \in DOMAIN t, NEW j \in DOMAIN t, i < j, t[i].generation # t[j].generation
      PROVE  NewStart(t, i, j)
  <2>1. i \in 1..n /\ t[i] = items[i] /\ (j \in 1..n \/ j = n + 1)
    BY <1>2, <1>4, <1>7
  <2>2. CASE j \in 1..n
    <3>1. t[j] = items[j]
      BY <1>4, <2>2
    <3>2. NewStart(items, i, j)
      BY <1>2, <1>7, <2>1, <2>2, <3>1 DEF Nested
    <3>3. PICK m \in 1..n : /\ i < m /\ m <= j /\ items[m].generation = items[j].generation
                            /\ items[m].tick = 0
      BY <1>2, <3>2 DEF NewStart
    <3>4. m \in DOMAIN t /\ t[m] = items[m]
      BY <1>2, <1>4, <3>3
    <3> QED BY <3>1, <3>3, <3>4 DEF NewStart
  <2>3. CASE j = n + 1 /\ x.tick = 0
    <3>1. j \in DOMAIN t /\ i < j /\ j <= j /\ t[j].tick = 0
      BY <1>2, <1>4, <1>7, <2>3
    <3> QED BY <3>1 DEF NewStart
  <2>4. CASE j = n + 1 /\ x.generation = generation
    <3>1. n \in 1..n /\ items # <<>>
      BY <1>2, <2>1, EmptySeq
    <3>2. items[n].generation = generation
      BY <1>1, <3>1 DEF CaptureInv
    <3>3. t[j].generation = generation
      BY <1>4, <2>4
    <3>4. i # n /\ i < n
      BY <1>2, <1>7, <2>1, <3>2, <3>3
    <3>5. NewStart(items, i, n)
      BY <1>2, <1>7, <2>1, <3>1, <3>2, <3>3, <3>4 DEF Nested
    <3>6. PICK m \in 1..n : /\ i < m /\ items[m].generation = generation
                            /\ items[m].tick = 0
      BY <1>2, <3>2, <3>5 DEF NewStart
    <3>7. m \in DOMAIN t /\ t[m] = items[m] /\ m <= j
      BY <1>2, <1>4, <2>4, <3>6
    <3> QED BY <3>3, <3>6, <3>7 DEF NewStart
  <2> QED BY <2>1, <2>2, <2>3, <2>4
<1>8. Nested(t)
  BY <1>6, <1>7 DEF Nested
<1> QED BY <1>3, <1>5, <1>8

LEMMA NestNext == NestInv /\ [Next]_vars => NestInv'
<1> SUFFICES ASSUME NestInv, [Next]_vars PROVE NestInv'
  OBVIOUS
<1>1. CaptureInv /\ CaptureInv'
  BY CaptureNext DEF NestInv
<1>2. PICK n, d : n = Len(items) /\ d = Len(scopes)
  OBVIOUS
<1>3. /\ items \in Seq(ItemType) /\ n \in Nat /\ DOMAIN items = 1..n
      /\ scopes \in Seq(ScopeType) /\ d \in Nat /\ DOMAIN scopes = 1..d
      /\ now \in Nat /\ generation \in Nat /\ now' \in Nat
  BY <1>1, <1>2, LenProperties DEF CaptureInv, Clocked
<1>4. /\ \A i \in 1..n : items[i].tick \in Nat /\ items[i].duration \in Nat
      /\ \A m \in 1..d : scopes[m].tick \in Nat /\ scopes[m].tick <= now
  <2>1. /\ \A i \in 1..n : items[i] \in ItemType
        /\ \A m \in 1..d : scopes[m] \in ScopeType
    BY <1>2, <1>3, ElementOfSeq
  <2> QED BY <1>1, <1>3, <2>1 DEF ItemType, ScopeType, CaptureInv
<1>5. ASSUME NEW i \in 1..n, items[i].generation = generation PROVE items[i].tick <= now
  <2>1. items # <<>> /\ n \in 1..n
    BY <1>2, <1>3, EmptySeq
  <2>2. items[n].generation = generation /\ items[n].tick <= now
    BY <1>1, <1>2, <2>1 DEF CaptureInv
  <2>3. i < n => items[i].tick <= items[n].tick
    BY <1>1, <1>3, <1>5, <2>1, <2>2 DEF CaptureInv, Clocked
  <2> QED BY <1>3, <1>4, <2>1, <2>2, <2>3
<1>6. \A i \in Slices(items) : i \in 1..n
  BY <1>3 DEF Slices
<1>7. ASSUME NEW track, NEW advance \in 0..MaxAdvance, Begin(track, advance) PROVE NestInv'
  <2>1. PICK x : x = [track |-> track, tick |-> now']
    OBVIOUS
  <2>2. /\ items' = items /\ generation' = generation /\ now <= now'
        /\ scopes' = Append(scopes, x) /\ x.tick = now'
    BY <1>3, <1>7, <2>1, ConversionAssumption DEF Begin
  <2>3. /\ DOMAIN scopes' = 1..(d + 1) /\ scopes'[d + 1] = x
        /\ \A m \in 1..d : scopes'[m] = scopes[m]
    BY <1>2, <1>3, <2>2
  <2>4. ASSUME NEW l \in DOMAIN scopes', NEW m \in DOMAIN scopes', l < m
        PROVE  scopes'[l].tick <= scopes'[m].tick
    <3>1. l \in 1..d /\ scopes'[l] = scopes[l] /\ (m \in 1..d \/ m = d + 1)
      BY <1>3, <2>3, <2>4
    <3>2. CASE m \in 1..d
      BY <1>3, <2>3, <2>4, <3>1, <3>2 DEF NestInv
    <3>3. CASE m = d + 1
      BY <1>3, <1>4, <2>2, <2>3, <3>1, <3>3
    <3> QED BY <3>1, <3>2, <3>3
  <2>5. ASSUME NEW i \in Slices(items'), NEW m \in DOMAIN scopes',
               items'[i].generation = generation'
        PROVE  \/ scopes'[m].tick >= items'[i].tick
               \/ scopes'[m].tick <= StartTick(items'[i])
    <3>1. /\ i \in Slices(items) /\ items'[i] = items[i] /\ items[i].generation = generation
          /\ i \in 1..n
      BY <1>6, <2>2, <2>5
    <3>2. CASE m \in 1..d
      BY <1>3, <2>3, <3>1, <3>2 DEF NestInv
    <3>3. CASE m = d + 1
      <4>1. items[i].tick <= now
        BY <1>5, <3>1
      <4> QED BY <1>3, <1>4, <2>2, <2>3, <3>1, <3>3, <4>1
    <3> QED BY <1>3, <2>3, <3>2, <3>3
  <2>6. Nested(items')
    BY <2>2 DEF NestInv
  <2> QED BY <1>1, <2>4, <2>5, <2>6 DEF NestInv
<1>8. ASSUME NEW x, items' = Append(items, x), scopes' = scopes, generation' = generation,
             x.generation = generation, x.kind # "slice"
      PROVE  NestInv'
  <2>1. /\ Nested(items')
        /\ \A i \in Slices(items') : i \in Slices(items) /\ items'[i] = items[i]
    BY <1>1, <1>8, NestedAdded DEF NestInv
  <2> QED BY <1>1, <1>8, <2>1 DEF NestInv
<1>9. ASSUME NEW advance \in 0..MaxAdvance, End(advance) PROVE NestInv'
  <2>1. PICK top : top = Last(scopes)
    OBVIOUS
  <2>2. PICK x : x = Item("slice", now', now' - top.tick, top.track, NoKey, 0)
    OBVIOUS
  <2>3. /\ items' = Append(items, x) /\ scopes' = Front(scopes) /\ scopes # <<>>
        /\ generation' = generation /\ now <= now'
    BY <1>3, <1>9, <2>1, <2>2, ConversionAssumption DEF End
  <2>4. d \in 1..d /\ top = scopes[d]
    BY <1>2, <1>3, <2>1, <2>3, EmptySeq DEF Last
  <2>5. top.tick \in Nat /\ top.tick <= now
    BY <1>4, <2>4
  <2>6. /\ x.kind = "slice" /\ x.generation = generation /\ x.tick = now'
        /\ x.duration = now' - top.tick
    BY <2>2, <2>3 DEF Item
  <2>7. StartTick(x) = top.tick
    BY <1>3, <2>5, <2>6 DEF StartTick
  <2>8. ASSUME NEW i \in Slices(items), items[i].generation = x.generation
        PROVE  Fits(items[i], x)
    <3>1. scopes[d].tick >= items[i].tick \/ scopes[d].tick <= StartTick(items[i])
      BY <1>3, <2>4, <2>6, <2>8 DEF NestInv
    <3> QED BY <2>4, <2>7, <3>1 DEF Fits
  <2>9. /\ Nested(items')
        /\ \A i \in Slices(items') : \/ i \in Slices(items) /\ items'[i] = items[i]
                                     \/ items'[i] = x
    BY <1>1, <2>3, <2>6, <2>8, NestedAdded DEF NestInv
  <2>10. PICK e \in Nat : e = d - 1
    BY <1>3, <2>4
  <2>11. DOMAIN scopes' = 1..e /\ \A m \in 1..e : scopes'[m] = scopes[m]
    <3>1. scopes' = SubSeq(scopes, 1, e)
      BY <1>2, <2>3, <2>10 DEF Front
    <3>2. \A m \in 1..e : scopes[m] \in ScopeType
      BY <1>2, <1>3, <2>10, ElementOfSeq
    <3>3. /\ SubSeq(scopes, 1, e) \in Seq(ScopeType)
          /\ Len(SubSeq(scopes, 1, e)) = IF 1 <= e THEN e - 1 + 1 ELSE 0
          /\ \A m \in 1..(e - 1 + 1) : SubSeq(scopes, 1, e)[m] = scopes[1 + m - 1]
      BY <3>2, SubSeqProperties
    <3>4. e - 1 + 1 = e /\ (IF 1 <= e THEN e - 1 + 1 ELSE 0) = e /\ \A m \in 1..e : 1 + m - 1 = m
      BY <2>10
    <3> QED BY <3>1, <3>3, <3>4, LenProperties
  <2>12. \A m \in 1..e : m \in 1..d /\ m < d
    BY <1>3, <2>10
  <2>13. \A l, m \in DOMAIN scopes' : l < m => scopes'[l].tick <= scopes'[m].tick
    BY <1>3, <2>11, <2>12 DEF NestInv
  <2>14. ASSUME NEW i \in Slices(items'), NEW m \in DOMAIN scopes',
                items'[i].generation = generation'
         PROVE  \/ scopes'[m].tick >= items'[i].tick
                \/ scopes'[m].tick <= StartTick(items'[i])
    <3>1. scopes'[m] = scopes[m] /\ m \in 1..d /\ m < d
      BY <2>11, <2>12
    <3>2. CASE i \in Slices(items) /\ items'[i] = items[i]
      BY <1>3, <2>3, <2>14, <3>1, <3>2 DEF NestInv
    <3>3. CASE items'[i] = x
      <4>1. scopes[m].tick <= scopes[d].tick
        BY <1>3, <2>4, <3>1 DEF NestInv
      <4> QED BY <2>4, <2>7, <3>1, <3>3, <4>1
    <3> QED BY <2>9, <3>2, <3>3
  <2> QED BY <1>1, <2>9, <2>13, <2>14 DEF NestInv
<1>10. ASSUME NEW kind \in FlowKinds \cup AsyncKinds, NEW key, NEW advance,
              Emit(kind, key, advance)
       PROVE  NestInv'
  <2>1. PICK x : x = Item(kind, now', 0, AnyTrack, key, 0)
    OBVIOUS
  <2>2. /\ items' = Append(items, x) /\ scopes' = scopes /\ generation' = generation
    BY <1>10, <2>1 DEF Emit
  <2>3. x.generation = generation /\ x.kind # "slice"
    BY <2>1 DEF Item, FlowKinds, AsyncKinds
  <2> QED BY <1>8, <2>2, <2>3
<1>11. ASSUME NEW reference, NEW advance, Sync(reference, advance) PROVE NestInv'
  <2>1. PICK x : x = Item("sync", now', 0, AnyTrack, NoKey, reference)
    OBVIOUS
  <2>2. /\ items' = Append(items, x) /\ scopes' = scopes /\ generation' = generation
    BY <1>11, <2>1 DEF Sync
  <2>3. x.generation = generation /\ x.kind # "slice"
    BY <2>1 DEF Item
  <2> QED BY <1>8, <2>2, <2>3
<1>12. ASSUME NEW reference, Transition(reference) PROVE NestInv'
  <2>1. PICK x : x = [Item("sync", 0, 0, AnyTrack, NoKey, reference)
                        EXCEPT !.generation = generation + 1]
    OBVIOUS
  <2>2. /\ items' = Append(items, x) /\ scopes' = scopes /\ scopes = <<>>
    BY <1>12, <2>1 DEF Transition
  <2>3. x.tick = 0 /\ x.kind # "slice"
    BY <2>1 DEF Item
  <2>4. Nested(items')
    BY <1>1, <2>2, <2>3, NestedAdded DEF NestInv
  <2>5. DOMAIN scopes' = {}
    BY <2>2
  <2> QED BY <1>1, <2>4, <2>5 DEF NestInv
<1>13. CASE UNCHANGED vars
  BY <1>1, <1>13 DEF NestInv, vars
<1>14. CASE Next
  BY <1>7, <1>9, <1>10, <1>11, <1>12, <1>14 DEF Next
<1> QED BY <1>13, <1>14

(* What a ring retains is nested too.                                       *)
LEMMA SuffixNested ==
  ASSUME NEW s, NEW w, NEW lost, Suffix(s, w, lost), Nested(w)
  PROVE  Nested(s)
<1>1. /\ \A i \in DOMAIN s : /\ i \in Nat /\ lost + i \in DOMAIN w
                             /\ s[i] = w[lost + i]
      /\ \A j \in DOMAIN w : j \in Nat /\ (j > lost => j - lost \in DOMAIN s)
      /\ lost \in Nat
  BY ItemsAre DEF Suffix
<1>2. ASSUME NEW i \in Slices(s), NEW j \in Slices(s), i < j, s[i].generation = s[j].generation
      PROVE  Fits(s[i], s[j])
  <2>1. i \in DOMAIN s /\ j \in DOMAIN s
    BY DEF Slices
  <2>2. lost + i \in Slices(w) /\ lost + j \in Slices(w)
    BY <1>1 DEF Slices
  <2>3. lost + i < lost + j
    BY <1>1, <1>2, <2>1
  <2> QED BY <1>1, <1>2, <2>1, <2>2, <2>3 DEF Nested
<1>3. ASSUME NEW i \in DOMAIN s, NEW j \in DOMAIN s, i < j, s[i].generation # s[j].generation
      PROVE  NewStart(s, i, j)
  <2>1. lost + i < lost + j
    BY <1>1, <1>3
  <2>2. NewStart(w, lost + i, lost + j)
    BY <1>1, <1>3, <2>1 DEF Nested
  <2>3. PICK m \in DOMAIN w : /\ lost + i < m /\ m <= lost + j
                              /\ w[m].generation = w[lost + j].generation /\ w[m].tick = 0
    BY <2>2 DEF NewStart
  <2>4. /\ m - lost \in DOMAIN s /\ i < m - lost /\ m - lost <= j /\ lost + (m - lost) = m
    <3>1. m \in Nat /\ i \in Nat /\ j \in Nat /\ lost \in Nat /\ m > lost
      BY <1>1, <2>3
    <3> QED BY <1>1, <2>3, <3>1
  <2>5. s[m - lost] = w[m]
    BY <1>1, <2>4
  <2> QED BY <1>1, <2>3, <2>4, <2>5 DEF NewStart
<1> QED BY <1>2, <1>3 DEF Nested
----------------------------------------------------------------------------
(* A group laid out by nesting: the indices G of its N slices, where their  *)
(* intervals start and end, and the position F of the first slice of each   *)
(* one's component.                                                         *)
Laid(G, start, end, F, N) ==
  /\ N \in Nat
  /\ \A n \in 1..N : /\ G[n] \in Nat /\ start[n] \in Nat /\ end[n] \in Nat
                     /\ start[n] <= end[n] /\ F[n] \in 1..n
                     /\ \A m \in F[n]..n : F[m] = F[n]
                     /\ F[n] # n => \/ start[n] = start[F[n]]
                                    \/ \E m \in F[n]..(n - 1) : end[m] > start[n]
  /\ \A m, n \in 1..N : G[m] < G[n] =>
       end[m] <= end[n] /\ (start[n] >= end[m] \/ start[n] <= start[m])
  /\ \A m, n \in 1..N : m < n =>
       /\ start[m] <= start[n] /\ G[m] # G[n]
       /\ G[m] < G[n] => start[m] < start[n]
       /\ F[m] # F[n] => end[m] <= start[n]
Follows(G, start, end, m, n) == G[m] < G[n] /\ start[n] >= end[m]
SpannedIn(G, start, end, N) ==
  \E m, n, l \in 1..N : /\ Follows(G, start, end, m, n)
                        /\ G[n] < G[l] /\ start[l] <= start[m]

(* Of two slices in one component, one after the other, a third spans both. *)
LEMMA OneComponent ==
  ASSUME NEW G, NEW start, NEW end, NEW F, NEW N, Laid(G, start, end, F, N),
         NEW x \in 1..N, NEW y \in 1..N, x < y, F[x] = F[y], Follows(G, start, end, x, y)
  PROVE  SpannedIn(G, start, end, N)
<1> DEFINE Behind == {n \in 1..N : x < n /\ Follows(G, start, end, x, n)}
<1>1. PICK n : n = Min(Behind)
  OBVIOUS
<1>2. n \in Behind /\ \A m \in Behind : n <= m
  <2>1. Behind \in SUBSET Nat /\ y \in Behind
    OBVIOUS
  <2> QED BY <1>1, <2>1, MinIs
<1>3. /\ n \in 1..N /\ x < n /\ n <= y /\ Follows(G, start, end, x, n)
      /\ \A m \in 1..N : x < m /\ m < n => ~Follows(G, start, end, x, m)
  BY <1>2
<1> HIDE DEF Behind
<1>4. /\ N \in Nat
      /\ \A m \in 1..N : G[m] \in Nat /\ start[m] \in Nat /\ end[m] \in Nat /\ start[m] <= end[m]
  BY DEF Laid
<1>5. F[y] \in 1..y /\ F[x] \in 1..x /\ F[n] = F[y]
  <2>1. F[y] \in 1..y /\ F[x] \in 1..x
    BY DEF Laid
  <2>2. n \in F[y]..y
    BY <1>3, <1>4, <2>1
  <2> QED BY <2>1, <2>2 DEF Laid
<1>6. PICK f : f = F[n]
  OBVIOUS
<1>7. f \in 1..x /\ f # n /\ f \in 1..N /\ F[x] = f
  BY <1>3, <1>4, <1>5, <1>6
<1>8. start[f] <= start[x]
  BY <1>4, <1>7 DEF Laid
<1>9. start[x] < start[n] /\ G[x] < G[n] /\ start[n] >= end[x]
  BY <1>3 DEF Laid, Follows
<1>10. start[n] # start[f]
  BY <1>3, <1>4, <1>7, <1>8, <1>9
<1>11. PICK m \in f..(n - 1) : end[m] > start[n]
  BY <1>3, <1>6, <1>7, <1>10 DEF Laid
<1>12. m \in 1..N /\ m < n /\ m # n
  BY <1>3, <1>4, <1>7, <1>11
<1>13. start[m] <= start[n] /\ G[m] # G[n] /\ (G[m] < G[n] => start[m] < start[n])
  BY <1>3, <1>12 DEF Laid
<1>14. ~(G[m] < G[n])
  <2> SUFFICES ASSUME G[m] < G[n] PROVE FALSE
    OBVIOUS
  <2>1. start[n] >= end[m] \/ start[n] <= start[m]
    BY <1>3, <1>12 DEF Laid
  <2> QED BY <1>3, <1>4, <1>11, <1>12, <1>13, <2>1
<1>15. G[n] < G[m] /\ G[x] < G[m]
  BY <1>3, <1>4, <1>9, <1>12, <1>13, <1>14
<1>16. start[m] <= start[x]
  <2> SUFFICES ASSUME start[m] > start[x] PROVE FALSE
    BY <1>4, <1>12
  <2>1. start[m] >= end[x] \/ start[m] <= start[x]
    BY <1>12, <1>15 DEF Laid
  <2>2. start[m] >= end[x]
    BY <1>4, <1>12, <2>1
  <2>3. Follows(G, start, end, x, m)
    BY <1>15, <2>2 DEF Follows
  <2>4. x < m
    <3>1. CASE m < x
      <4>1. start[m] <= start[x]
        BY <1>12, <3>1 DEF Laid
      <4> QED BY <1>4, <1>12, <4>1
    <3>2. m # x
      BY <1>4, <1>15
    <3> QED BY <1>12, <3>1, <3>2
  <2> QED BY <1>3, <1>12, <2>3, <2>4
<1> QED BY <1>3, <1>12, <1>15, <1>16 DEF SpannedIn

LEMMA TwoInOne ==
  ASSUME NEW G, NEW start, NEW end, NEW F, NEW N, Laid(G, start, end, F, N),
         NEW x \in 1..N, NEW y \in 1..N, x < y, F[x] = F[y], G[x] < G[y]
  PROVE  SpannedIn(G, start, end, N)
<1>1. start[x] < start[y] /\ (start[y] >= end[x] \/ start[y] <= start[x])
  BY DEF Laid
<1>2. start[x] \in Nat /\ start[y] \in Nat
  BY DEF Laid
<1>3. Follows(G, start, end, x, y)
  BY <1>1, <1>2 DEF Follows
<1> QED BY <1>3, OneComponent

(* Two slices of different components, whose first records are in the order *)
(* of theirs, and the first record of the later before the earlier.         *)
LEMMA InTwo ==
  ASSUME NEW G, NEW start, NEW end, NEW F, NEW N, Laid(G, start, end, F, N),
         NEW a \in 1..N, NEW x \in 1..N, NEW p \in 1..N, NEW y \in 1..N,
         F[a] = F[x], F[p] = F[y], F[x] # F[y],
         G[a] < G[p], G[p] < G[x], G[x] < G[y]
  PROVE  SpannedIn(G, start, end, N)
<1>1. /\ N \in Nat
      /\ \A m \in 1..N : /\ G[m] \in Nat /\ start[m] \in Nat /\ end[m] \in Nat
                         /\ start[m] <= end[m] /\ F[m] \in 1..m
  BY DEF Laid
<1>2. \A m, n \in 1..N : G[m] < G[n] =>
        end[m] <= end[n] /\ (start[n] >= end[m] \/ start[n] <= start[m])
  BY DEF Laid
<1>3. \A m, n \in 1..N : start[m] < start[n] => m < n
  <2> TAKE m, n \in 1..N
  <2>1. n < m => start[n] <= start[m]
    BY DEF Laid
  <2>2. n = m \/ n < m \/ m < n
    OBVIOUS
  <2> QED BY <1>1, <2>1, <2>2
<1>4. \A m, n \in 1..N : F[m] < F[n] => end[m] <= start[n]
  <2> SUFFICES ASSUME NEW m \in 1..N, NEW n \in 1..N, F[m] < F[n] PROVE end[m] <= start[n]
    OBVIOUS
  <2>1. F[m] \in 1..m /\ F[n] \in 1..n /\ \A l \in F[m]..m : F[l] = F[m]
    BY DEF Laid
  <2>2. ~(n <= m)
    <3> SUFFICES ASSUME n <= m PROVE FALSE
      OBVIOUS
    <3>1. n \in F[m]..m
      BY <2>1
    <3>2. F[n] = F[m]
      BY <2>1, <3>1
    <3> QED BY <2>1, <3>2
  <2>3. m < n /\ F[m] # F[n]
    BY <2>1, <2>2
  <2> QED BY <2>3 DEF Laid
<1>5. /\ start[x] >= end[a] \/ start[x] <= start[a]
      /\ start[y] >= end[p] \/ start[y] <= start[p]
      /\ end[a] <= end[x] /\ end[p] <= end[x] /\ end[x] <= end[y]
  <2>1. G[a] < G[x] /\ G[p] < G[y]
    BY <1>1
  <2> QED BY <1>2, <2>1
<1>6. CASE F[x] < F[y]
  <2>1. end[x] <= start[p] /\ end[a] <= start[p]
    BY <1>4, <1>6
  <2>2. Follows(G, start, end, a, p)
    BY <1>1, <2>1 DEF Follows
  <2>3. CASE start[x] <= start[a]
    BY <2>2, <2>3 DEF SpannedIn
  <2>4. CASE ~(start[x] <= start[a])
    <3>1. start[a] < start[x] /\ start[x] >= end[a] /\ G[a] < G[x]
      BY <1>1, <1>5, <2>4
    <3>2. a < x /\ Follows(G, start, end, a, x)
      BY <1>3, <3>1 DEF Follows
    <3> QED BY <3>2, OneComponent
  <2> QED BY <2>3, <2>4
<1>7. CASE F[y] < F[x]
  <2>1. end[y] <= start[x] /\ end[p] <= start[x]
    BY <1>4, <1>7
  <2>2. Follows(G, start, end, p, x)
    BY <1>1, <2>1 DEF Follows
  <2>3. CASE start[y] <= start[p]
    BY <2>2, <2>3 DEF SpannedIn
  <2>4. CASE ~(start[y] <= start[p])
    <3>1. start[p] < start[y] /\ start[y] >= end[p] /\ G[p] < G[y]
      BY <1>1, <1>5, <2>4
    <3>2. p < y /\ Follows(G, start, end, p, y)
      BY <1>3, <3>1 DEF Follows
    <3> QED BY <3>2, OneComponent
  <2> QED BY <2>3, <2>4
<1>8. F[x] \in Nat /\ F[y] \in Nat
  BY <1>1
<1> QED BY <1>6, <1>7, <1>8

(* A slice that lasts, with index i and tick t, parts its group into what   *)
(* ends before and what starts after it.                                    *)
StraddledIn(G, start, end, N, i, t) ==
  \E m, n \in 1..N : /\ G[m] < i /\ i < G[n]
                     /\ start[m] = t /\ end[m] = t /\ start[n] = t

LEMMA Parted ==
  ASSUME NEW G, NEW start, NEW end, NEW F, NEW N, Laid(G, start, end, F, N),
         NEW i \in Nat, NEW t \in Nat,
         \A n \in 1..N : G[n] # i /\ (G[n] < i => end[n] <= t) /\ (G[n] > i => start[n] >= t),
         NEW x \in 1..N, NEW y \in 1..N, G[x] < i, G[y] > i, F[x] = F[y]
  PROVE  StraddledIn(G, start, end, N, i, t)
<1> DEFINE After == {n \in 1..N : G[n] > i}
<1>1. PICK n : n = Min(After)
  OBVIOUS
<1>2. n \in After /\ \A m \in After : n <= m
  <2>1. After \in SUBSET Nat /\ y \in After
    OBVIOUS
  <2> QED BY <1>1, <2>1, MinIs
<1>3. /\ n \in 1..N /\ n <= y /\ G[n] > i
      /\ \A m \in 1..N : m < n => ~(G[m] > i)
  BY <1>2
<1> HIDE DEF After
<1>4. /\ N \in Nat
      /\ \A m \in 1..N : /\ G[m] \in Nat /\ start[m] \in Nat /\ end[m] \in Nat
                         /\ start[m] <= end[m] /\ F[m] \in 1..m
      /\ \A l, m \in 1..N : l < m => start[l] <= start[m]
  BY DEF Laid
<1>5. \A m \in 1..N : m < n => G[m] < i /\ end[m] <= t
  <2> TAKE m \in 1..N
  <2> HAVE m < n
  <2>1. G[m] # i /\ (G[m] < i => end[m] <= t) /\ ~(G[m] > i) /\ G[m] \in Nat
    BY <1>3, <1>4
  <2>2. G[m] < i
    BY <2>1
  <2> QED BY <2>1, <2>2
<1>6. start[n] >= t /\ start[n] \in Nat /\ end[n] \in Nat
  BY <1>3, <1>4
<1>7. CASE n <= x
  <2>1. n < x
    BY <1>3, <1>4, <1>7
  <2>2. start[n] <= start[x] /\ start[x] <= end[x] /\ end[x] <= t
    BY <1>3, <1>4, <2>1
  <2>3. start[n] = t /\ start[x] = t /\ end[x] = t
    <3>1. start[x] \in Nat /\ end[x] \in Nat
      BY <1>4
    <3> QED BY <1>6, <2>2, <3>1
  <2> QED BY <1>3, <2>3 DEF StraddledIn
<1>8. CASE x < n
  <2>1. F[y] \in 1..y /\ F[x] \in 1..x /\ F[n] = F[y]
    <3>1. F[y] \in 1..y /\ F[x] \in 1..x
      BY DEF Laid
    <3>2. n \in F[y]..y
      BY <1>3, <1>4, <1>8, <3>1
    <3> QED BY <3>1, <3>2 DEF Laid
  <2>2. PICK f : f = F[n]
    OBVIOUS
  <2>3. f \in 1..x /\ f # n /\ f < n /\ f \in 1..N
    BY <1>3, <1>4, <1>8, <2>1, <2>2
  <2>4. start[n] = start[f] \/ \E m \in f..(n - 1) : end[m] > start[n]
    BY <1>3, <2>2, <2>3 DEF Laid
  <2>5. ~\E m \in f..(n - 1) : end[m] > start[n]
    <3> SUFFICES ASSUME NEW m \in f..(n - 1) PROVE ~(end[m] > start[n])
      OBVIOUS
    <3>1. m \in 1..N /\ m < n
      BY <1>3, <1>4, <2>3
    <3> QED BY <1>3, <1>4, <1>5, <1>6, <3>1
  <2>6. start[f] = t /\ end[f] = t /\ start[n] = t
    <3>1. start[f] \in Nat /\ end[f] \in Nat /\ start[f] <= end[f] /\ end[f] <= t
      BY <1>4, <1>5, <2>3
    <3> QED BY <1>6, <2>4, <2>5, <3>1
  <2> QED BY <1>3, <1>5, <2>3, <2>6 DEF StraddledIn
<1> QED BY <1>3, <1>7, <1>8
----------------------------------------------------------------------------
(* Nested scopes in mapped time.                                            *)
Orderly(s) ==
  /\ Steady(s) /\ Nested(s)
  /\ \A i, j \in DOMAIN s :
       IF s[i].generation = s[j].generation
       THEN /\ s[i].tick <= StartTick(s[j]) => Ns(s, i) <= StartNs(s, j)
            /\ StartTick(s[i]) <= StartTick(s[j]) => StartNs(s, i) <= StartNs(s, j)
       ELSE i < j => Ns(s, i) <= StartNs(s, j)

LEMMA AcceptedOrderly ==
  ASSUME NEW s, NEW wrapped, Clocked(s), Stepped(s), Nested(s), Accepted(s, wrapped)
  PROVE  Orderly(s)
<1>1. Steady(s) /\ ~ReferencesRunBack(s)
  BY AcceptedSteady DEF Accepted
<1>2. \A i \in DOMAIN s, a \in Nat, b \in Nat : a <= b =>
        /\ TimestampNs(s, s[i].generation, a) \in Int
        /\ TimestampNs(s, s[i].generation, b) \in Int
        /\ TimestampNs(s, s[i].generation, a) <= TimestampNs(s, s[i].generation, b)
  BY <1>1, MappedMonotone
<1>3. \A i \in DOMAIN s : /\ s[i].tick \in Nat /\ StartTick(s[i]) \in Nat
                          /\ i \in Nat
  BY ItemsAre
<1>4. ASSUME NEW i \in DOMAIN s, NEW j \in DOMAIN s, s[i].generation = s[j].generation
      PROVE  /\ s[i].tick <= StartTick(s[j]) => Ns(s, i) <= StartNs(s, j)
             /\ StartTick(s[i]) <= StartTick(s[j]) => StartNs(s, i) <= StartNs(s, j)
  <2>1. PICK g, a, b, c : /\ g = s[i].generation /\ a = s[i].tick /\ b = StartTick(s[i])
                          /\ c = StartTick(s[j])
    OBVIOUS
  <2>2. a \in Nat /\ b \in Nat /\ c \in Nat
    BY <1>3, <2>1
  <2>3. /\ a <= c => TimestampNs(s, g, a) <= TimestampNs(s, g, c)
        /\ b <= c => TimestampNs(s, g, b) <= TimestampNs(s, g, c)
    BY <1>2, <2>1, <2>2
  <2> QED BY <1>4, <2>1, <2>3 DEF Ns, StartNs
<1>5. ASSUME NEW i \in DOMAIN s, NEW j \in DOMAIN s, s[i].generation # s[j].generation, i < j
      PROVE  Ns(s, i) <= StartNs(s, j)
  <2>1. NewStart(s, i, j)
    BY <1>5 DEF Nested
  <2>2. PICK m \in DOMAIN s : /\ i < m /\ s[m].generation = s[j].generation /\ s[m].tick = 0
    BY <2>1 DEF NewStart
  <2>3. PICK g, c : g = s[j].generation /\ c = StartTick(s[j])
    OBVIOUS
  <2>4. c \in Nat /\ 0 <= c /\ 0 \in Nat
    BY <1>3, <2>3
  <2>5. TimestampNs(s, g, 0) <= TimestampNs(s, g, c)
    BY <1>2, <2>3, <2>4
  <2>6. Ns(s, m) <= StartNs(s, j)
    BY <2>2, <2>3, <2>5 DEF Ns, StartNs
  <2>7. Ns(s, i) <= Ns(s, m)
    BY <1>1, <1>3, <2>2 DEF Steady
  <2>8. Ns(s, i) \in Int /\ Ns(s, m) \in Int /\ StartNs(s, j) \in Int
    BY <1>1 DEF Steady
  <2> QED BY <2>6, <2>7, <2>8
<1> QED BY <1>1, <1>4, <1>5 DEF Orderly

(* A slice starts after one that ended before it, or contains it.           *)
LEMMA OrderlySlices ==
  ASSUME NEW s, Orderly(s), NEW i \in Slices(s), NEW j \in Slices(s), i < j
  PROVE  /\ StartNs(s, j) >= Ns(s, i) \/ StartNs(s, j) <= StartNs(s, i)
         /\ StartNs(s, i) \in Int /\ StartNs(s, j) \in Int /\ Ns(s, i) \in Int /\ Ns(s, j) \in Int
         /\ StartNs(s, i) <= Ns(s, i) /\ StartNs(s, j) <= Ns(s, j) /\ Ns(s, i) <= Ns(s, j)
         /\ i \in Nat /\ j \in Nat /\ i \in DOMAIN s /\ j \in DOMAIN s
<1>1. i \in DOMAIN s /\ j \in DOMAIN s
  BY DEF Slices
<1>2. i \in Nat /\ j \in Nat /\ i <= j
  BY <1>1, ItemsAre DEF Orderly, Steady
<1>3. /\ StartNs(s, i) \in Int /\ StartNs(s, j) \in Int /\ Ns(s, i) \in Int /\ Ns(s, j) \in Int
      /\ StartNs(s, i) <= Ns(s, i) /\ StartNs(s, j) <= Ns(s, j) /\ Ns(s, i) <= Ns(s, j)
  BY <1>1, <1>2 DEF Orderly, Steady
<1>4. CASE s[i].generation = s[j].generation
  <2>1. Fits(s[i], s[j])
    BY <1>4 DEF Orderly, Nested
  <2>2. /\ s[i].tick \in Nat /\ StartTick(s[j]) \in Nat /\ StartTick(s[i]) \in Nat
    BY <1>1, ItemsAre DEF Orderly, Steady
  <2>3. s[i].tick <= StartTick(s[j]) \/ StartTick(s[j]) <= StartTick(s[i])
    BY <2>1, <2>2 DEF Fits
  <2>4. Ns(s, i) <= StartNs(s, j) \/ StartNs(s, j) <= StartNs(s, i)
    BY <1>1, <1>4, <2>3 DEF Orderly
  <2> QED BY <1>1, <1>2, <1>3, <2>4
<1>5. CASE s[i].generation # s[j].generation
  <2>1. Ns(s, i) <= StartNs(s, j)
    BY <1>1, <1>5 DEF Orderly
  <2> QED BY <1>1, <1>2, <1>3, <2>1
<1> QED BY <1>4, <1>5

LEMMA NoneCross ==
  ASSUME NEW s, Orderly(s)
  PROVE  ~SlicesCross(s)
<1> SUFFICES ASSUME NEW i \in Slices(s), NEW j \in Slices(s),
                    StartNs(s, i) < StartNs(s, j), StartNs(s, j) < Ns(s, i),
                    Ns(s, i) < Ns(s, j)
             PROVE  FALSE
  BY DEF SlicesCross
<1>1. i \in DOMAIN s /\ j \in DOMAIN s
  BY DEF Slices
<1>2. i \in Nat /\ j \in Nat /\ Ns(s, i) \in Int /\ Ns(s, j) \in Int
  BY <1>1, ItemsAre DEF Orderly, Steady
<1>3. j <= i => Ns(s, j) <= Ns(s, i)
  BY <1>1 DEF Orderly, Steady
<1>4. i < j
  BY <1>2, <1>3
<1>5. /\ StartNs(s, j) >= Ns(s, i) \/ StartNs(s, j) <= StartNs(s, i)
      /\ StartNs(s, i) \in Int /\ StartNs(s, j) \in Int
  BY <1>4, OrderlySlices
<1> QED BY <1>2, <1>5
----------------------------------------------------------------------------
(* The end of a component.                                                  *)
CompRight(s, group, C, n) ==
  /\ C[n].start = StartTick(s[group[C[n].first]])
  /\ \A m \in 1..n : s[group[m]].tick <= C[n].end
  /\ \E m \in C[n].first..n : s[group[m]].tick = C[n].end

LEMMA CompEnds ==
  ASSUME NEW s, Clocked(s), NEW group, NEW N \in Nat, DOMAIN group = 1..N,
         \A n \in 1..N : group[n] \in DOMAIN s,
         NEW C, C = Components(s, group)
  PROVE  \A n \in 1..N : CompRight(s, group, C, n)
<1>1. \A n \in 1..N : C[n] = CompStep(s, group, C, n)
  BY CompsAre
<1>2. \A n \in 1..N : /\ C[n] \in [first : Nat, start : Nat, end : Nat]
                      /\ C[n].first \in 1..n
  BY CompFirst
<1>3. \A n \in 1..N : /\ s[group[n]].tick \in Nat /\ StartTick(s[group[n]]) \in Nat
                      /\ StartTick(s[group[n]]) <= s[group[n]].tick
  BY ItemsAre
<1>4. ASSUME NEW n \in 1..N, C[n] = NewComponent(s, group, n),
             \A m \in 1..(n - 1) : s[group[m]].tick <= s[group[n]].tick
      PROVE  CompRight(s, group, C, n)
  <2>1. C[n].first = n /\ C[n].start = StartTick(s[group[n]]) /\ C[n].end = s[group[n]].tick
    BY <1>4 DEF NewComponent
  <2>2. \A m \in 1..n : m = n \/ m \in 1..(n - 1)
    OBVIOUS
  <2>3. \A m \in 1..n : s[group[m]].tick <= C[n].end
    BY <1>3, <1>4, <2>1, <2>2
  <2>4. n \in C[n].first..n
    BY <2>1
  <2> QED BY <2>1, <2>3, <2>4 DEF CompRight
<1>5. ASSUME NEW n \in 1..N, n # 1, CompRight(s, group, C, n - 1),
             C[n] = [C[n - 1] EXCEPT !.end = Max({@, s[group[n]].tick})]
      PROVE  CompRight(s, group, C, n)
  <2>1. PICK c, x, z, e : /\ c = C[n - 1] /\ x = s[group[n]].tick /\ z = c.end
                          /\ e = Max({z, x})
    OBVIOUS
  <2>2. n - 1 \in 1..N
    BY <1>5
  <2>3. /\ c \in [first : Nat, start : Nat, end : Nat] /\ x \in Nat /\ z \in Nat
        /\ c.first \in 1..(n - 1)
    BY <1>2, <1>3, <2>1, <2>2
  <2>4. e \in {z, x} /\ z <= e /\ x <= e
    <3>1. {z, x} \in SUBSET (0..(z + x)) /\ z + x \in Nat
      BY <2>3
    <3> QED BY <2>1, <3>1, MaxIs
  <2>5. C[n] = [c EXCEPT !.end = e]
    BY <1>5, <2>1
  <2>6. C[n].first = c.first /\ C[n].start = c.start /\ C[n].end = e
    BY <2>3, <2>5
  <2>7. /\ c.start = StartTick(s[group[c.first]])
        /\ \A m \in 1..(n - 1) : s[group[m]].tick <= z
        /\ \E m \in c.first..(n - 1) : s[group[m]].tick = z
    BY <1>5, <2>1 DEF CompRight
  <2>8. ASSUME NEW m \in 1..n PROVE s[group[m]].tick <= e
    <3>1. CASE m = n
      BY <2>1, <2>4, <3>1
    <3>2. CASE m \in 1..(n - 1)
      <4>1. s[group[m]].tick \in Nat /\ s[group[m]].tick <= z
        BY <1>3, <2>7, <3>2
      <4> QED BY <2>3, <2>4, <4>1
    <3> QED BY <3>1, <3>2
  <2>9. \E m \in c.first..n : s[group[m]].tick = e
    <3>1. CASE e = x
      <4>1. n \in c.first..n
        BY <2>3
      <4> QED BY <2>1, <3>1, <4>1
    <3>2. CASE e = z
      <4>1. PICK m \in c.first..(n - 1) : s[group[m]].tick = z
        BY <2>7
      <4>2. m \in c.first..n
        BY <2>3, <4>1
      <4> QED BY <3>2, <4>1, <4>2
    <3> QED BY <2>4, <3>1, <3>2
  <2> QED BY <2>6, <2>7, <2>8, <2>9 DEF CompRight
<1> DEFINE Bad == {n \in 1..N : ~CompRight(s, group, C, n)}
<1> SUFFICES ASSUME Bad # {} PROVE FALSE
  OBVIOUS
<1>6. Bad \in SUBSET Nat
  OBVIOUS
<1>7. PICK n : n = Min(Bad)
  OBVIOUS
<1>8. n \in Bad /\ \A k \in Bad : n <= k
  BY <1>6, <1>7, MinIs
<1>9. n \in 1..N /\ ~CompRight(s, group, C, n)
  BY <1>8
<1>10. CASE n = 1
  <2>1. C[n] = NewComponent(s, group, n)
    BY <1>1, <1>9, <1>10 DEF CompStep
  <2>2. \A m \in 1..(n - 1) : FALSE
    BY <1>10
  <2> QED BY <1>4, <1>9, <2>1, <2>2
<1>11. CASE n # 1
  <2>1. n - 1 \in 1..N /\ ~(n <= n - 1)
    BY <1>9, <1>11
  <2>2. CompRight(s, group, C, n - 1)
    <3>1. n - 1 \notin Bad
      <4> HIDE DEF Bad
      <4> QED BY <1>8, <2>1
    <3> QED BY <2>1, <3>1
  <2>3. \/ /\ C[n] = NewComponent(s, group, n)
           /\ OpensComponent(s, group, C[n - 1], n)
        \/ C[n] = [C[n - 1] EXCEPT !.end = Max({@, s[group[n]].tick})]
    <3>1. C[n] = CompStep(s, group, C, n)
      BY <1>1, <1>9
    <3> QED BY <1>11, <3>1 DEF CompStep
  <2>4. ASSUME OpensComponent(s, group, C[n - 1], n), NEW m \in 1..(n - 1)
        PROVE  s[group[m]].tick <= s[group[n]].tick
    <3>1. PICK z : z = C[n - 1].end
      OBVIOUS
    <3>2. z \in Nat
      BY <1>2, <2>1, <3>1
    <3>3. StartTick(s[group[n]]) >= z /\ s[group[m]].tick <= z
      BY <2>2, <2>4, <3>1 DEF OpensComponent, CompRight
    <3>4. m \in 1..N
      BY <1>9
    <3> QED BY <1>3, <1>9, <3>2, <3>3, <3>4
  <2> QED BY <1>4, <1>5, <1>9, <1>11, <2>2, <2>3, <2>4
<1> QED BY <1>10, <1>11

(* The group of a slice of no duration is laid out by nesting.              *)
LEMMA GroupOrder ==
  ASSUME NEW s, Clocked(s), NEW x \in DOMAIN s, NEW y \in DOMAIN s,
         s[x].generation = s[y].generation, LexLess(GroupKey(s, x), GroupKey(s, y))
  PROVE  /\ StartTick(s[x]) <= StartTick(s[y]) /\ x # y
         /\ x < y => StartTick(s[x]) < StartTick(s[y])
<1>1. PICK a, b, c, d : /\ a = StartTick(s[x]) /\ b = s[x].tick
                        /\ c = StartTick(s[y]) /\ d = s[y].tick
  OBVIOUS
<1>2. a \in Nat /\ b \in Nat /\ c \in Nat /\ d \in Nat /\ x \in Nat /\ y \in Nat
  BY <1>1, ItemsAre
<1>3. x < y => b <= d
  BY <1>1 DEF Clocked
<1>4. LexLess(<<a, -b, -x>>, <<c, -d, -y>>)
  BY <1>1 DEF GroupKey
<1>5. PICK n \in 1..3 : /\ <<a, -b, -x>>[n] < <<c, -d, -y>>[n]
                        /\ \A m \in 1..(n - 1) : <<a, -b, -x>>[m] = <<c, -d, -y>>[m]
  BY <1>4 DEF LexLess
<1>6. CASE n = 1
  <2>1. a < c
    BY <1>5, <1>6
  <2> QED BY <1>1, <1>2, <2>1
<1>7. CASE n = 2
  <2>1. -b < -d /\ 1 \in 1..(n - 1)
    BY <1>5, <1>7
  <2>2. a = c
    BY <1>5, <2>1
  <2>3. ~(x < y) /\ x # y
    BY <1>1, <1>2, <1>3, <2>1
  <2> QED BY <1>1, <1>2, <2>2, <2>3
<1>8. CASE n = 3
  <2>1. -x < -y /\ 1 \in 1..(n - 1)
    BY <1>5, <1>8
  <2>2. a = c
    BY <1>5, <2>1
  <2>3. ~(x < y) /\ x # y
    BY <1>2, <2>1
  <2> QED BY <1>1, <1>2, <2>2, <2>3
<1> QED BY <1>5, <1>6, <1>7, <1>8

Starts(s, group) == [n \in DOMAIN group |-> StartTick(s[group[n]])]
Ends(s, group) == [n \in DOMAIN group |-> s[group[n]].tick]
Firsts(C, group) == [n \in DOMAIN group |-> C[n].first]

(* What does not open a component starts where it does, or before its end.  *)
LEMMA StaysIn ==
  ASSUME NEW s, Clocked(s), NEW group, NEW N \in Nat, DOMAIN group = 1..N,
         \A n \in 1..N : group[n] \in DOMAIN s,
         NEW C, C = Components(s, group), NEW n \in 1..N
  PROVE  IF C[n].first = n
         THEN \A m \in 1..(n - 1) : s[group[m]].tick <= StartTick(s[group[n]])
         ELSE \/ StartTick(s[group[n]]) = StartTick(s[group[C[n].first]])
              \/ \E m \in C[n].first..(n - 1) : s[group[m]].tick > StartTick(s[group[n]])
<1>1. C[n] = CompStep(s, group, C, n)
  BY CompsAre
<1>2. \A m \in 1..N : /\ C[m] \in [first : Nat, start : Nat, end : Nat]
                      /\ C[m].first \in 1..m
  BY CompFirst
<1>3. \A m \in 1..N : CompRight(s, group, C, m)
  BY CompEnds
<1>4. \A m \in 1..N : /\ s[group[m]].tick \in Nat /\ StartTick(s[group[m]]) \in Nat
  BY ItemsAre
<1>5. CASE n = 1
  <2>1. C[n].first = 1 /\ \A m \in 1..(n - 1) : FALSE
    BY <1>2, <1>5
  <2> QED BY <1>5, <2>1
<1>6. CASE n # 1
  <2>1. PICK k : k = n - 1
    OBVIOUS
  <2>2. k \in 1..N /\ k # n
    BY <1>6, <2>1
  <2>3. PICK c : c = C[k]
    OBVIOUS
  <2>4. c \in [first : Nat, start : Nat, end : Nat] /\ c.first \in 1..k
    BY <1>2, <2>2, <2>3
  <2>5. PICK z : z = c.end
    OBVIOUS
  <2>6. /\ z \in Nat /\ c.start = StartTick(s[group[c.first]])
        /\ \A m \in 1..k : s[group[m]].tick <= z
        /\ \E m \in c.first..k : s[group[m]].tick = z
    BY <1>3, <2>2, <2>3, <2>4, <2>5 DEF CompRight
  <2>7. CASE OpensComponent(s, group, c, n)
    <3>1. C[n].first = n
      BY <1>1, <1>6, <2>1, <2>3, <2>7 DEF CompStep, NewComponent
    <3>2. StartTick(s[group[n]]) >= z
      BY <2>5, <2>7 DEF OpensComponent
    <3>3. ASSUME NEW m \in 1..(n - 1) PROVE s[group[m]].tick <= StartTick(s[group[n]])
      <4>1. s[group[m]].tick <= z /\ m \in 1..N
        BY <2>1, <2>6
      <4> QED BY <1>4, <2>6, <3>2, <4>1
    <3> QED BY <3>1, <3>3
  <2>8. CASE ~OpensComponent(s, group, c, n)
    <3>1. C[n] = [c EXCEPT !.end = Max({@, s[group[n]].tick})]
      BY <1>1, <1>6, <2>1, <2>3, <2>8 DEF CompStep
    <3>2. C[n].first = c.first
      BY <2>4, <3>1
    <3>3. C[n].first # n
      BY <2>1, <2>4, <3>2
    <3>4. ~(StartTick(s[group[n]]) >= z) \/ StartTick(s[group[n]]) = c.start
      BY <2>5, <2>8 DEF OpensComponent
    <3>5. CASE StartTick(s[group[n]]) = c.start
      BY <2>6, <3>2, <3>3, <3>5
    <3>6. CASE ~(StartTick(s[group[n]]) >= z)
      <4>1. PICK m \in c.first..k : s[group[m]].tick = z
        BY <2>6
      <4>2. z > StartTick(s[group[n]])
        BY <1>4, <2>6, <3>6
      <4> QED BY <2>1, <3>2, <3>3, <4>1, <4>2
    <3> QED BY <3>4, <3>5, <3>6
  <2> QED BY <2>7, <2>8
<1> QED BY <1>5, <1>6

GroupIn(s, i, group, C, N) ==
  /\ group = ZeroGroup(s, i) /\ C = Components(s, group) /\ N = Cardinality(Peers(s, i))

LEMMA GroupLaid ==
  ASSUME NEW s, Steady(s), Nested(s), NEW i \in Instantaneous(s),
         NEW group, NEW C, NEW N, GroupIn(s, i, group, C, N)
  PROVE  /\ N \in Nat /\ DOMAIN group = 1..N
         /\ \A n \in 1..N : group[n] \in Peers(s, i)
         /\ \A x \in Peers(s, i) : \E n \in 1..N : group[n] = x
         /\ Laid(group, Starts(s, group), Ends(s, group), Firsts(C, group), N)
<1>1. Clocked(s)
  BY DEF Steady
<1>2. PICK S, K : S = Peers(s, i) /\ K = GroupKeys(s, S)
  OBVIOUS
<1>3. IsFiniteSet(S) /\ S \subseteq DOMAIN s /\ SortedBy(group, S, K)
  BY <1>2, GroupIs DEF GroupIn
<1>4. N \in Nat /\ DOMAIN group = 1..N /\ \A n \in 1..N : group[n] \in S /\ group[n] \in DOMAIN s
  BY <1>2, <1>3, FS_CardinalityType DEF SortedBy, GroupIn
<1>5. \A x \in S : \E n \in 1..N : group[n] = x
  BY <1>3, <1>4 DEF SortedBy
<1>6. PICK start, end, F : /\ start = Starts(s, group) /\ end = Ends(s, group)
                           /\ F = Firsts(C, group)
  OBVIOUS
<1>7. \A n \in 1..N : /\ start[n] = StartTick(s[group[n]]) /\ end[n] = s[group[n]].tick
                      /\ F[n] = C[n].first
  BY <1>4, <1>6 DEF Starts, Ends, Firsts
<1>8. \A n \in 1..N : /\ group[n] \in Nat /\ start[n] \in Nat /\ end[n] \in Nat
                      /\ start[n] <= end[n]
  BY <1>1, <1>4, <1>7, ItemsAre
<1>9. \A n \in 1..N : F[n] \in 1..n /\ \A m \in F[n]..n : F[m] = F[n]
  <2>1. \A n \in 1..N : C[n].first \in 1..n /\ \A m \in C[n].first..n : C[m].first = C[n].first
    BY <1>1, <1>4, CompFirst DEF GroupIn
  <2> TAKE n \in 1..N
  <2>2. F[n] \in 1..n
    BY <1>7, <2>1
  <2>3. ASSUME NEW m \in F[n]..n PROVE F[m] = F[n]
    <3>1. m \in 1..N
      BY <1>4, <2>2
    <3> QED BY <1>7, <2>1, <3>1
  <2> QED BY <2>2, <2>3
<1>10. \A m, n \in 1..N : s[group[m]].generation = s[group[n]].generation
  BY <1>2, <1>4 DEF Peers, Together
<1>11. \A n \in 1..N : group[n] \in Slices(s)
  BY <1>2, <1>4 DEF Peers, Instantaneous
<1>12. ASSUME NEW m \in 1..N, NEW n \in 1..N, group[m] < group[n]
       PROVE  end[m] <= end[n] /\ (start[n] >= end[m] \/ start[n] <= start[m])
  <2>1. end[m] <= end[n]
    BY <1>1, <1>4, <1>7, <1>10, <1>12 DEF Clocked
  <2>2. Fits(s[group[m]], s[group[n]])
    BY <1>10, <1>11, <1>12 DEF Nested
  <2> QED BY <1>7, <2>1, <2>2 DEF Fits
<1>13. ASSUME NEW m \in 1..N, NEW n \in 1..N, m < n
       PROVE  /\ start[m] <= start[n] /\ group[m] # group[n]
              /\ group[m] < group[n] => start[m] < start[n]
  <2>1. LexLess(K[group[m]], K[group[n]])
    BY <1>3, <1>4, <1>13 DEF SortedBy
  <2>2. LexLess(GroupKey(s, group[m]), GroupKey(s, group[n]))
    BY <1>2, <1>4, <2>1 DEF GroupKeys
  <2> QED BY <1>1, <1>4, <1>7, <1>10, <2>2, GroupOrder
<1>14. ASSUME NEW n \in 1..N
       PROVE  IF F[n] = n THEN \A m \in 1..(n - 1) : end[m] <= start[n]
              ELSE \/ start[n] = start[F[n]]
                   \/ \E m \in F[n]..(n - 1) : end[m] > start[n]
  <2>1. IF C[n].first = n
        THEN \A m \in 1..(n - 1) : s[group[m]].tick <= StartTick(s[group[n]])
        ELSE \/ StartTick(s[group[n]]) = StartTick(s[group[C[n].first]])
             \/ \E m \in C[n].first..(n - 1) : s[group[m]].tick > StartTick(s[group[n]])
    BY <1>1, <1>4, StaysIn DEF GroupIn
  <2>2. PICK f : f = F[n]
    OBVIOUS
  <2>3. f = C[n].first /\ f \in 1..n
    BY <1>7, <1>9, <2>2
  <2>4. /\ \A m \in 1..(n - 1) : m \in 1..N
        /\ \A m \in f..(n - 1) : m \in 1..N
        /\ f \in 1..N
    BY <1>4, <2>3
  <2> QED BY <1>7, <2>1, <2>2, <2>3, <2>4
<1>15. ASSUME NEW m \in 1..N, NEW n \in 1..N, m < n, F[m] # F[n] PROVE end[m] <= start[n]
  <2>1. PICK f : f = F[n]
    OBVIOUS
  <2>2. f \in 1..n /\ f \in 1..N
    BY <1>4, <1>9, <2>1
  <2>3. F[f] = f
    BY <1>9, <2>1, <2>2
  <2>4. m < f
    <3> SUFFICES ASSUME f <= m PROVE FALSE
      BY <2>2
    <3>1. m \in f..n
      BY <1>15, <2>2
    <3> QED BY <1>9, <1>15, <2>1, <3>1
  <2>5. end[m] <= start[f]
    <3>1. m \in 1..(f - 1)
      BY <2>2, <2>4
    <3> QED BY <1>14, <2>2, <2>3, <3>1
  <2>6. start[f] <= start[n]
    <3>1. f < n => start[f] <= start[n]
      BY <1>13, <2>2
    <3> QED BY <1>8, <2>2, <3>1
  <2> QED BY <1>8, <2>2, <2>5, <2>6
<1>16. Laid(group, start, end, F, N)
  <2>1. \A n \in 1..N : F[n] # n => \/ start[n] = start[F[n]]
                                    \/ \E m \in F[n]..(n - 1) : end[m] > start[n]
    BY <1>14
  <2> QED BY <1>4, <1>8, <1>9, <1>12, <1>13, <1>15, <2>1 DEF Laid
<1> QED BY <1>2, <1>4, <1>5, <1>6, <1>16
----------------------------------------------------------------------------
(* The keys of the begins and ends of slices.                               *)
Five(a) == DOMAIN a = 1..5

LEMMA LexFive ==
  ASSUME NEW a, NEW b, Five(a)
  PROVE  LexLess(a, b) <=>
           \/ a[1] < b[1]
           \/ a[1] = b[1] /\ a[2] < b[2]
           \/ a[1] = b[1] /\ a[2] = b[2] /\ a[3] < b[3]
           \/ a[1] = b[1] /\ a[2] = b[2] /\ a[3] = b[3] /\ a[4] < b[4]
           \/ a[1] = b[1] /\ a[2] = b[2] /\ a[3] = b[3] /\ a[4] = b[4] /\ a[5] < b[5]
<1>1. LexLess(a, b) <=> \E n \in 1..5 : a[n] < b[n] /\ \A m \in 1..(n - 1) : a[m] = b[m]
  BY DEF LexLess, Five
<1>2. ASSUME NEW n \in 1..5, a[n] < b[n], \A m \in 1..(n - 1) : a[m] = b[m]
      PROVE  \/ a[1] < b[1]
             \/ a[1] = b[1] /\ a[2] < b[2]
             \/ a[1] = b[1] /\ a[2] = b[2] /\ a[3] < b[3]
             \/ a[1] = b[1] /\ a[2] = b[2] /\ a[3] = b[3] /\ a[4] < b[4]
             \/ a[1] = b[1] /\ a[2] = b[2] /\ a[3] = b[3] /\ a[4] = b[4] /\ a[5] < b[5]
  <2>1. n = 1 \/ n = 2 \/ n = 3 \/ n = 4 \/ n = 5
    OBVIOUS
  <2>2. /\ n > 1 => a[1] = b[1]
        /\ n > 2 => a[2] = b[2]
        /\ n > 3 => a[3] = b[3]
        /\ n > 4 => a[4] = b[4]
    BY <1>2
  <2> QED BY <1>2, <2>1, <2>2
<1>3. /\ \A m \in 1..(1 - 1) : FALSE
      /\ \A m \in 1..(2 - 1) : m = 1
      /\ \A m \in 1..(3 - 1) : m = 1 \/ m = 2
      /\ \A m \in 1..(4 - 1) : m = 1 \/ m = 2 \/ m = 3
      /\ \A m \in 1..(5 - 1) : m = 1 \/ m = 2 \/ m = 3 \/ m = 4
      /\ 1 \in 1..5 /\ 2 \in 1..5 /\ 3 \in 1..5 /\ 4 \in 1..5 /\ 5 \in 1..5
  OBVIOUS
<1>4. CASE a[1] < b[1]
  BY <1>1, <1>3, <1>4
<1>5. CASE a[1] = b[1] /\ a[2] < b[2]
  BY <1>1, <1>3, <1>5
<1>6. CASE a[1] = b[1] /\ a[2] = b[2] /\ a[3] < b[3]
  BY <1>1, <1>3, <1>6
<1>7. CASE a[1] = b[1] /\ a[2] = b[2] /\ a[3] = b[3] /\ a[4] < b[4]
  BY <1>1, <1>3, <1>7
<1>8. CASE a[1] = b[1] /\ a[2] = b[2] /\ a[3] = b[3] /\ a[4] = b[4] /\ a[5] < b[5]
  BY <1>1, <1>3, <1>8
<1> QED BY <1>1, <1>2, <1>4, <1>5, <1>6, <1>7, <1>8

BeginAction(s, i) == IF i \in Instantaneous(s) THEN ZeroBegin(s, i) ELSE Late(s, i)
EndAction(s, i) == Plain(s, i, IF i \in Instantaneous(s) THEN 1 ELSE 0)
Before(a, b) == LexLess(a.key, b.key)

LEMMA EndIs ==
  ASSUME NEW s, Steady(s), NEW i \in Slices(s)
  PROVE  /\ EndAction(s, i).what = "end" /\ EndAction(s, i).item = i
         /\ EndAction(s, i).key = <<Ns(s, i), 1, 0, i, IF i \in Instantaneous(s) THEN 1 ELSE 0>>
         /\ Ns(s, i) \in Int /\ StartNs(s, i) \in Int /\ StartNs(s, i) <= Ns(s, i)
         /\ i \in Nat /\ i # 0 /\ i \in DOMAIN s
<1>1. i \in DOMAIN s
  BY DEF Slices
<1>2. i \in Nat /\ i # 0
  BY <1>1, ItemsAre DEF Steady
<1>3. CASE i \in Instantaneous(s)
  <2>0. 1 # 0 /\ 1 # -1
    OBVIOUS
  <2>1. EndAction(s, i) = Action("end", i, Ns(s, i), 1, 0, i, 1)
    BY <1>3, <2>0, Zenon DEF EndAction, Plain
  <2> QED BY <1>1, <1>2, <1>3, <2>1 DEF Action, Steady
<1>4. CASE i \notin Instantaneous(s)
  <2>1. EndAction(s, i) = Action("end", i, Ns(s, i), 1, 0, i, 0)
    BY <1>4, Zenon DEF EndAction, Plain, WhatIs
  <2> QED BY <1>1, <1>2, <1>4, <2>1 DEF Action, Steady
<1> QED BY <1>3, <1>4

LEMMA BeginIs ==
  ASSUME NEW s, Steady(s), NEW i \in Slices(s)
  PROVE  /\ BeginAction(s, i).what = "begin" /\ BeginAction(s, i).item = i
         /\ i \notin Instantaneous(s) =>
              /\ BeginAction(s, i).key = <<StartNs(s, i), 2, StartNs(s, i) - Ns(s, i), -i, 0>>
              /\ StartNs(s, i) < Ns(s, i)
         /\ i \in Instantaneous(s) => Ns(s, i) = StartNs(s, i)
<1>1. i \in DOMAIN s /\ Ns(s, i) \in Int /\ StartNs(s, i) \in Int /\ StartNs(s, i) <= Ns(s, i)
  BY EndIs
<1>2. CASE i \in Instantaneous(s)
  <2>1. PICK group, C, n : BeginsAt(s, i, group, C, n)
    BY <1>2, ZeroBeginIs
  <2>2. BeginAction(s, i) = ZeroBegin(s, i)
    BY <1>2, Zenon DEF BeginAction
  <2> QED BY <1>2, <2>1, <2>2 DEF BeginsAt, Action, Instantaneous
<1>3. CASE i \notin Instantaneous(s)
  <2>1. BeginAction(s, i) = Late(s, i)
    BY <1>3, Zenon DEF BeginAction
  <2>2. StartNs(s, i) # Ns(s, i)
    BY <1>3 DEF Instantaneous
  <2> QED BY <1>1, <1>3, <2>1, <2>2 DEF Late, Action
<1> QED BY <1>2, <1>3

(* Ends are in the order of the records.                                    *)
LEMMA EndsOrdered ==
  ASSUME NEW s, Steady(s), NEW i \in Slices(s), NEW j \in Slices(s),
         Before(EndAction(s, i), EndAction(s, j))
  PROVE  i < j
<1>1. PICK a, b, y, z : /\ a = Ns(s, i) /\ b = Ns(s, j)
                        /\ y = (IF i \in Instantaneous(s) THEN 1 ELSE 0)
                        /\ z = (IF j \in Instantaneous(s) THEN 1 ELSE 0)
  OBVIOUS
<1>2. /\ a \in Int /\ b \in Int /\ i \in Nat /\ j \in Nat /\ i \in DOMAIN s /\ j \in DOMAIN s
      /\ EndAction(s, i).key = <<a, 1, 0, i, y>> /\ EndAction(s, j).key = <<b, 1, 0, j, z>>
  BY <1>1, EndIs
<1>3. LexLess(<<a, 1, 0, i, y>>, <<b, 1, 0, j, z>>) /\ Five(<<a, 1, 0, i, y>>)
  BY <1>2 DEF Before, Five
<1>4. y \in Int /\ z \in Int
  BY <1>1
<1>5. a < b \/ (a = b /\ i < j) \/ (i = j /\ y < z)
  BY <1>2, <1>3, <1>4, LexFive
<1>6. i = j => y = z
  BY <1>1
<1>7. j <= i => b <= a
  BY <1>1, <1>2 DEF Steady
<1> QED BY <1>2, <1>4, <1>5, <1>6, <1>7

(* What begins the earlier of two slices.                                   *)
Overlap(s, i, j) ==
  /\ i \in Slices(s) /\ j \in Slices(s) /\ s[i].track = s[j].track /\ i < j
  /\ Before(BeginAction(s, i), BeginAction(s, j))
  /\ Before(BeginAction(s, j), EndAction(s, i))

LEMMA LateOverlap ==
  ASSUME NEW s, Orderly(s), NEW i, NEW j, Overlap(s, i, j),
         j \notin Instantaneous(s)
  PROVE  FALSE
<1>1. Steady(s) /\ i \in Slices(s) /\ j \in Slices(s) /\ i < j
  BY DEF Orderly, Overlap
<1>2. PICK a, b, c, d : a = StartNs(s, i) /\ b = Ns(s, i) /\ c = StartNs(s, j) /\ d = Ns(s, j)
  OBVIOUS
<1>3. PICK z : z = (IF i \in Instantaneous(s) THEN 1 ELSE 0)
  OBVIOUS
<1>4. /\ a \in Int /\ b \in Int /\ c \in Int /\ d \in Int /\ i \in Nat /\ j \in Nat /\ z \in Int
      /\ a <= b /\ c <= d /\ b <= d /\ (c >= b \/ c <= a)
  BY <1>1, <1>2, <1>3, OrderlySlices
<1>5. BeginAction(s, j).key = <<c, 2, c - d, -j, 0>> /\ EndAction(s, i).key = <<b, 1, 0, i, z>>
  BY <1>1, <1>2, <1>3, BeginIs, EndIs
<1>6. /\ LexLess(<<c, 2, c - d, -j, 0>>, <<b, 1, 0, i, z>>)
      /\ Five(<<c, 2, c - d, -j, 0>>)
  BY <1>5 DEF Overlap, Before, Five
<1>7. c - d \in Int /\ -j \in Int /\ a - b \in Int /\ -i \in Int
  BY <1>4
<1>8. c < b
  BY <1>4, <1>6, <1>7, LexFive
<1>9. CASE i \in Instantaneous(s)
  <2>1. a = b
    BY <1>1, <1>2, <1>9, BeginIs
  <2>2. PICK f, k : /\ k \in Int /\ f \in Slices(s)
                    /\ ZeroBegin(s, i).key = <<a, 1, 0, f, k>>
    BY <1>1, <1>2, <1>9, ZeroKey
  <2>3. f \in Int
    BY <1>1, <2>2, EndIs
  <2>4. BeginAction(s, i) = ZeroBegin(s, i)
    BY <1>9, Zenon DEF BeginAction
  <2>5. LexLess(<<a, 1, 0, f, k>>, <<c, 2, c - d, -j, 0>>) /\ Five(<<a, 1, 0, f, k>>)
    BY <1>5, <2>2, <2>4 DEF Overlap, Before, Five
  <2>6. a < c \/ a = c
    BY <1>4, <1>7, <2>2, <2>3, <2>5, LexFive
  <2> QED BY <1>4, <1>8, <2>1, <2>6
<1>10. CASE i \notin Instantaneous(s)
  <2>1. BeginAction(s, i).key = <<a, 2, a - b, -i, 0>>
    BY <1>1, <1>2, <1>10, BeginIs
  <2>2. /\ LexLess(<<a, 2, a - b, -i, 0>>, <<c, 2, c - d, -j, 0>>)
        /\ Five(<<a, 2, a - b, -i, 0>>)
    BY <1>5, <2>1 DEF Overlap, Before, Five
  <2>3. a < c \/ (a = c /\ a - b < c - d) \/ (a = c /\ a - b = c - d /\ -i < -j)
    BY <1>4, <1>7, <2>2, LexFive
  <2>4. a < c
    BY <1>1, <1>4, <2>3
  <2> QED BY <1>4, <1>8, <2>4
<1> QED BY <1>9, <1>10

(* One slice lasts and the other does not.                                  *)
LEMMA ZeroOverlapsLate ==
  ASSUME NEW s, Orderly(s), NEW i, NEW j, Overlap(s, i, j),
         i \notin Instantaneous(s), j \in Instantaneous(s)
  PROVE  Straddled(s)
<1>1. /\ Steady(s) /\ Nested(s) /\ Clocked(s)
      /\ i \in Slices(s) /\ j \in Slices(s) /\ i < j /\ s[i].track = s[j].track
  BY DEF Orderly, Overlap, Steady
<1>2. PICK a, b, d : a = StartNs(s, i) /\ b = Ns(s, i) /\ d = Ns(s, j)
  OBVIOUS
<1>3. /\ a \in Int /\ b \in Int /\ d \in Int /\ i \in Nat /\ j \in Nat
      /\ i \in DOMAIN s /\ j \in DOMAIN s
      /\ a < b /\ b <= d /\ StartNs(s, j) = d
  BY <1>1, <1>2, OrderlySlices, BeginIs
<1>4. PICK group, C, n :
           /\ BeginsAt(s, j, group, C, n)
           /\ FirstOwn(group, C, n) \in Peers(s, j)
           /\ \E m \in Own(group, C, n) : group[m] = FirstOwn(group, C, n)
           /\ Suborder(group, C, n) \in Int /\ Suborder(group, C, n) < 0
  BY <1>1, ZeroBeginIs
<1>5. PICK f, k : f = FirstOwn(group, C, n) /\ k = Suborder(group, C, n)
  OBVIOUS
<1>6. /\ group = ZeroGroup(s, j) /\ C = Components(s, group)
      /\ n \in DOMAIN group /\ group[n] = j
      /\ ZeroBegin(s, j).key = <<d, 1, 0, f, k>>
  BY <1>3, <1>4, <1>5 DEF BeginsAt, Action
<1>7. f \in Peers(s, j) /\ k \in Int /\ \E m \in Own(group, C, n) : group[m] = f
  BY <1>4, <1>5
<1>8. /\ f \in Instantaneous(s) /\ f \in Slices(s) /\ Together(s, f, j)
  BY <1>7 DEF Peers, Instantaneous
<1>9. f \in DOMAIN s /\ f \in Nat
  BY <1>1, <1>8, EndIs
<1>10. d = b /\ f < i
  <2>1. EndAction(s, i).key = <<b, 1, 0, i, 0>>
    BY <1>1, <1>2, EndIs
  <2>2. BeginAction(s, j) = ZeroBegin(s, j)
    BY Zenon DEF BeginAction
  <2>3. LexLess(<<d, 1, 0, f, k>>, <<b, 1, 0, i, 0>>) /\ Five(<<d, 1, 0, f, k>>)
    BY <1>6, <2>1, <2>2 DEF Overlap, Before, Five
  <2>4. d < b \/ (d = b /\ f < i) \/ (d = b /\ f = i)
    BY <1>3, <1>7, <1>9, <2>3, LexFive
  <2>5. f # i
    BY <1>8
  <2> QED BY <1>3, <2>4, <2>5
<1>11. s[f].generation = s[i].generation /\ s[i].generation = s[j].generation
  <2>1. s[f].generation <= s[i].generation /\ s[i].generation <= s[j].generation
    BY <1>1, <1>3, <1>9, <1>10 DEF Clocked
  <2>2. s[f].generation = s[j].generation
    BY <1>8 DEF Together
  <2>3. s[f].generation \in Nat /\ s[i].generation \in Nat
    BY <1>1, <1>3, <1>9, ItemsAre DEF ItemType
  <2> QED BY <2>1, <2>2, <2>3
<1>12. Together(s, i, j)
  BY <1>1, <1>2, <1>10, <1>11 DEF Together
<1>13. PICK N : N = Cardinality(Peers(s, j))
  OBVIOUS
<1>14. /\ N \in Nat /\ DOMAIN group = 1..N
       /\ \A m \in 1..N : group[m] \in Peers(s, j)
       /\ Laid(group, Starts(s, group), Ends(s, group), Firsts(C, group), N)
  BY <1>1, <1>6, <1>13, GroupLaid DEF GroupIn
<1>15. PICK start, end, F : /\ start = Starts(s, group) /\ end = Ends(s, group)
                            /\ F = Firsts(C, group)
  OBVIOUS
<1>16. \A m \in 1..N : /\ start[m] = StartTick(s[group[m]]) /\ end[m] = s[group[m]].tick
                       /\ F[m] = C[m].first
  BY <1>14, <1>15 DEF Starts, Ends, Firsts
<1>17. PICK t : t = s[i].tick
  OBVIOUS
<1>18. t \in Nat
  BY <1>1, <1>3, <1>17, ItemsAre
<1>19. ASSUME NEW m \in 1..N
       PROVE  /\ group[m] # i
              /\ group[m] < i => end[m] <= t
              /\ group[m] > i => start[m] >= t
              /\ Together(s, group[m], i) /\ group[m] \in Instantaneous(s)
  <2>1. PICK x : x = group[m]
    OBVIOUS
  <2>2. x \in Instantaneous(s) /\ x \in Slices(s) /\ Together(s, x, j)
    BY <1>14, <2>1 DEF Peers, Instantaneous
  <2>3. Together(s, x, i) /\ x # i
    BY <1>12, <2>2 DEF Together
  <2>4. x \in DOMAIN s /\ x \in Nat /\ StartTick(s[x]) \in Nat /\ StartTick(s[i]) \in Nat
    BY <1>1, <1>3, <2>2, EndIs, ItemsAre
  <2>5. s[x].generation = s[i].generation
    BY <2>3 DEF Together
  <2>6. x < i => s[x].tick <= t
    BY <1>1, <1>3, <1>17, <2>4, <2>5 DEF Clocked
  <2>7. ASSUME x > i PROVE StartTick(s[x]) >= t
    <3>1. i < x
      BY <1>3, <2>4, <2>7
    <3>2. Fits(s[i], s[x])
      BY <1>1, <2>2, <2>5, <3>1 DEF Nested
    <3>3. ~(StartTick(s[x]) <= StartTick(s[i]))
      <4> SUFFICES ASSUME StartTick(s[x]) <= StartTick(s[i]) PROVE FALSE
        OBVIOUS
      <4>1. StartNs(s, x) <= StartNs(s, i)
        BY <1>3, <2>4, <2>5 DEF Orderly
      <4>2. StartNs(s, x) = b
        BY <1>2, <2>2, <2>3 DEF Together, Instantaneous
      <4> QED BY <1>2, <1>3, <4>1, <4>2
    <3> QED BY <1>17, <3>2, <3>3 DEF Fits
  <2> QED BY <1>16, <2>1, <2>2, <2>3, <2>6, <2>7
<1>20. PICK m \in 1..N : group[m] = f /\ C[m].first = C[n].first
  BY <1>7, <1>14 DEF Own
<1>21. StraddledIn(group, start, end, N, i, t)
  <2>1. n \in 1..N /\ group[n] > i /\ group[m] < i /\ F[m] = F[n]
    BY <1>1, <1>3, <1>6, <1>10, <1>14, <1>16, <1>20
  <2> QED BY <1>3, <1>14, <1>15, <1>18, <1>19, <2>1, Parted
<1>22. PICK x, y \in 1..N : /\ group[x] < i /\ i < group[y]
                            /\ start[x] = t /\ end[x] = t /\ start[y] = t
  BY <1>21 DEF StraddledIn
<1>23. {StartTick(s[group[x]]), s[group[x]].tick, StartTick(s[group[y]])} = {s[i].tick}
  BY <1>16, <1>17, <1>22
<1>24. i \in Slices(s) \ Instantaneous(s)
  BY <1>1
<1> QED BY <1>19, <1>22, <1>23, <1>24 DEF Straddled

LEMMA SpannedFrom ==
  ASSUME NEW s, NEW group, NEW N, DOMAIN group = 1..N,
         \A m \in 1..N : group[m] \in Instantaneous(s),
         \A m, n \in 1..N : Together(s, group[m], group[n]),
         SpannedIn(group, Starts(s, group), Ends(s, group), N)
  PROVE  Spanned(s)
<1>1. PICK m, n, l \in 1..N :
        /\ Follows(group, Starts(s, group), Ends(s, group), m, n)
        /\ group[n] < group[l] /\ Starts(s, group)[l] <= Starts(s, group)[m]
  BY DEF SpannedIn
<1>2. /\ Apart(s, group[m], group[n]) /\ StartTick(s[group[l]]) <= StartTick(s[group[m]])
  BY <1>1 DEF Follows, Apart, Starts, Ends
<1> QED BY <1>1, <1>2 DEF Spanned

(* Neither lasts.                                                           *)
LEMMA ZeroesOverlap ==
  ASSUME NEW s, Orderly(s), NEW i, NEW j, Overlap(s, i, j),
         i \in Instantaneous(s), j \in Instantaneous(s)
  PROVE  Spanned(s)
<1>1. /\ Steady(s) /\ Nested(s) /\ Clocked(s)
      /\ i \in Slices(s) /\ j \in Slices(s) /\ i < j /\ s[i].track = s[j].track
  BY DEF Orderly, Overlap, Steady
<1>2. PICK b, d : b = Ns(s, i) /\ d = Ns(s, j)
  OBVIOUS
<1>3. /\ b \in Int /\ d \in Int /\ i \in Nat /\ j \in Nat
      /\ i \in DOMAIN s /\ j \in DOMAIN s
      /\ b <= d /\ StartNs(s, j) = d /\ StartNs(s, i) = b
  BY <1>1, <1>2, OrderlySlices, BeginIs
<1>4. PICK group, C, n :
           /\ BeginsAt(s, j, group, C, n)
           /\ FirstOwn(group, C, n) \in Peers(s, j)
           /\ \E m \in Own(group, C, n) : group[m] = FirstOwn(group, C, n)
           /\ Suborder(group, C, n) \in Int /\ Suborder(group, C, n) < 0
  BY <1>1, ZeroBeginIs
<1>5. PICK groupi, Ci, l :
           /\ BeginsAt(s, i, groupi, Ci, l)
           /\ FirstOwn(groupi, Ci, l) \in Peers(s, i)
           /\ \E m \in Own(groupi, Ci, l) : groupi[m] = FirstOwn(groupi, Ci, l)
           /\ Suborder(groupi, Ci, l) \in Int /\ Suborder(groupi, Ci, l) < 0
  BY <1>1, ZeroBeginIs
<1>6. PICK f, k, e, q : /\ f = FirstOwn(group, C, n) /\ k = Suborder(group, C, n)
                        /\ e = FirstOwn(groupi, Ci, l) /\ q = Suborder(groupi, Ci, l)
  OBVIOUS
<1>7. /\ group = ZeroGroup(s, j) /\ C = Components(s, group)
      /\ n \in DOMAIN group /\ group[n] = j
      /\ groupi = ZeroGroup(s, i) /\ Ci = Components(s, groupi)
      /\ l \in DOMAIN groupi /\ groupi[l] = i
      /\ ZeroBegin(s, j).key = <<d, 1, 0, f, k>>
      /\ ZeroBegin(s, i).key = <<b, 1, 0, e, q>>
  BY <1>3, <1>4, <1>5, <1>6 DEF BeginsAt, Action
<1>8. /\ f \in Peers(s, j) /\ k \in Int /\ \E m \in Own(group, C, n) : group[m] = f
      /\ e \in Peers(s, i) /\ q \in Int /\ \E m \in Own(groupi, Ci, l) : groupi[m] = e
  BY <1>4, <1>5, <1>6
<1>9. /\ f \in Slices(s) /\ Together(s, f, j) /\ e \in Slices(s) /\ Together(s, e, i)
  BY <1>8 DEF Peers, Instantaneous
<1>10. f \in DOMAIN s /\ f \in Nat /\ e \in DOMAIN s /\ e \in Nat
  BY <1>1, <1>9, EndIs
<1>11. d = b /\ f <= i
  <2>1. EndAction(s, i).key = <<b, 1, 0, i, 1>>
    BY <1>1, <1>2, EndIs
  <2>2. BeginAction(s, j) = ZeroBegin(s, j)
    BY Zenon DEF BeginAction
  <2>3. LexLess(<<d, 1, 0, f, k>>, <<b, 1, 0, i, 1>>) /\ Five(<<d, 1, 0, f, k>>)
    BY <1>7, <2>1, <2>2 DEF Overlap, Before, Five
  <2>4. d < b \/ (d = b /\ f < i) \/ (d = b /\ f = i)
    BY <1>3, <1>8, <1>10, <2>3, LexFive
  <2> QED BY <1>3, <1>10, <2>4
<1>12. e < f \/ (e = f /\ q < k)
  <2>1. BeginAction(s, j) = ZeroBegin(s, j) /\ BeginAction(s, i) = ZeroBegin(s, i)
    BY Zenon DEF BeginAction
  <2>2. LexLess(<<b, 1, 0, e, q>>, <<d, 1, 0, f, k>>) /\ Five(<<b, 1, 0, e, q>>)
    BY <1>7, <2>1 DEF Overlap, Before, Five
  <2> QED BY <1>3, <1>8, <1>10, <1>11, <2>2, LexFive
<1>13. Together(s, i, j)
  <2>1. s[f].generation <= s[i].generation /\ s[i].generation <= s[j].generation
    <3>1. f = i \/ f < i
      BY <1>3, <1>10, <1>11
    <3>2. s[i].generation \in Nat
      BY <1>1, <1>3, ItemsAre DEF ItemType
    <3> QED BY <1>1, <1>3, <1>10, <3>1, <3>2 DEF Clocked
  <2>2. s[f].generation = s[j].generation
    BY <1>9 DEF Together
  <2>3. s[i].generation \in Nat /\ s[j].generation \in Nat
    BY <1>1, <1>3, ItemsAre DEF ItemType
  <2>4. s[i].generation = s[j].generation
    BY <2>1, <2>2, <2>3
  <2> QED BY <1>1, <1>2, <1>11, <2>4 DEF Together
<1>14. Peers(s, i) = Peers(s, j)
  BY <1>13 DEF Peers, Together
<1>15. groupi = group /\ Ci = C
  BY <1>1, <1>7, <1>14, GroupIs, Zenon
<1>16. PICK N : N = Cardinality(Peers(s, j))
  OBVIOUS
<1>17. /\ N \in Nat /\ DOMAIN group = 1..N
       /\ \A m \in 1..N : group[m] \in Peers(s, j)
       /\ Laid(group, Starts(s, group), Ends(s, group), Firsts(C, group), N)
  BY <1>1, <1>7, <1>16, GroupLaid DEF GroupIn
<1>18. PICK start, end, F : /\ start = Starts(s, group) /\ end = Ends(s, group)
                            /\ F = Firsts(C, group)
  OBVIOUS
<1>19. \A m \in 1..N : F[m] = C[m].first /\ F[m] \in Nat
  <2>1. \A m \in 1..N : F[m] = C[m].first
    BY <1>17, <1>18 DEF Firsts
  <2>2. \A m \in 1..N : F[m] \in 1..m
    BY <1>17, <1>18 DEF Laid
  <2> QED BY <2>1, <2>2
<1>20. PICK p \in 1..N : group[p] = f /\ F[p] = F[n]
  BY <1>7, <1>8, <1>17, <1>19 DEF Own
<1>21. PICK a \in 1..N : group[a] = e /\ F[a] = F[l]
  BY <1>7, <1>8, <1>15, <1>17, <1>19 DEF Own
<1>22. n \in 1..N /\ l \in 1..N /\ group[n] = j /\ group[l] = i
  BY <1>7, <1>15, <1>17
<1>23. \A m, o \in 1..N : group[m] = group[o] => m = o
  <2> TAKE m, o \in 1..N
  <2>1. m < o => group[m] # group[o]
    BY <1>17 DEF Laid
  <2>2. o < m => group[m] # group[o]
    BY <1>17 DEF Laid
  <2> QED BY <1>17, <2>1, <2>2
<1>24. F[n] = F[l] => Own(group, C, n) = Own(group, C, l)
  BY <1>19, <1>22 DEF Own
<1>25. SpannedIn(group, start, end, N)
  <2>1. CASE e = f
    <3>1. a = p
      BY <1>20, <1>21, <1>23, <2>1
    <3>2. F[n] = F[l]
      BY <1>20, <1>21, <3>1
    <3>3. PICK c : c = Cardinality(Own(group, C, n))
      OBVIOUS
    <3>4. c \in Nat
      <4>1. IsFiniteSet(DOMAIN group)
        BY <1>17, FS_Interval
      <4>2. Own(group, C, n) \subseteq DOMAIN group
        BY DEF Own
      <4> QED BY <3>3, <4>1, <4>2, FS_Subset, FS_CardinalityType
    <3>5. k = n - F[n] - c /\ q = l - F[l] - c
      BY <1>6, <1>15, <1>19, <1>22, <1>24, <3>2, <3>3 DEF Suborder
    <3>6. PICK h : h = F[n]
      OBVIOUS
    <3>7. h \in Nat /\ k = n - h - c /\ q = l - h - c
      BY <1>19, <1>22, <3>2, <3>5, <3>6
    <3>8. l < n
      <4>1. q < k /\ n \in Nat /\ l \in Nat
        BY <1>12, <1>10, <1>22, <2>1
      <4> QED BY <3>4, <3>7, <4>1
    <3>9. group[l] < group[n]
      BY <1>1, <1>22
    <3> QED BY <1>17, <1>18, <1>22, <3>2, <3>8, <3>9, TwoInOne
  <2>2. CASE e # f
    <3>1. F[n] # F[l]
      <4> SUFFICES ASSUME F[n] = F[l] PROVE FALSE
        OBVIOUS
      <4>1. FirstOwn(group, C, n) = FirstOwn(group, C, l)
        BY <1>24 DEF FirstOwn
      <4> QED BY <1>6, <1>15, <2>2, <4>1
    <3>2. f # i
      <4> SUFFICES ASSUME f = i PROVE FALSE
        OBVIOUS
      <4>1. p = l
        BY <1>20, <1>22, <1>23
      <4> QED BY <1>20, <3>1, <4>1
    <3>3. e < f /\ f < i /\ i < j
      BY <1>1, <1>3, <1>10, <1>11, <1>12, <2>2, <3>2
    <3>4. group[a] < group[p] /\ group[p] < group[l] /\ group[l] < group[n]
      BY <1>20, <1>21, <1>22, <3>3
    <3> QED BY <1>17, <1>18, <1>20, <1>21, <1>22, <3>1, <3>4, InTwo
  <2> QED BY <2>1, <2>2
<1>26. /\ \A m \in 1..N : group[m] \in Instantaneous(s)
       /\ \A m, o \in 1..N : Together(s, group[m], group[o])
  BY <1>17 DEF Peers, Together
<1> QED BY <1>17, <1>18, <1>25, <1>26, SpannedFrom
----------------------------------------------------------------------------
(* The slices of a track as brackets.                                       *)
LEMMA BeginBeforeEnd ==
  ASSUME NEW s, Steady(s), NEW i \in Slices(s)
  PROVE  Before(BeginAction(s, i), EndAction(s, i))
<1>1. PICK a, b, z : /\ a = StartNs(s, i) /\ b = Ns(s, i)
                     /\ z = (IF i \in Instantaneous(s) THEN 1 ELSE 0)
  OBVIOUS
<1>2. /\ a \in Int /\ b \in Int /\ i \in Nat /\ EndAction(s, i).key = <<b, 1, 0, i, z>>
  BY <1>1, EndIs
<1>3. CASE i \notin Instantaneous(s)
  <2>1. BeginAction(s, i).key = <<a, 2, a - b, -i, 0>> /\ a < b
    BY <1>1, <1>3, BeginIs
  <2>2. Five(<<a, 2, a - b, -i, 0>>)
    BY DEF Five
  <2>3. LexLess(<<a, 2, a - b, -i, 0>>, <<b, 1, 0, i, z>>)
    BY <2>1, <2>2, LexFive
  <2> QED BY <1>2, <2>1, <2>3 DEF Before
<1>4. CASE i \in Instantaneous(s)
  <2>1. PICK group, C, n :
           /\ BeginsAt(s, i, group, C, n)
           /\ FirstOwn(group, C, n) \in Peers(s, i)
           /\ \A m \in Own(group, C, n) : FirstOwn(group, C, n) <= group[m]
           /\ Suborder(group, C, n) \in Int /\ Suborder(group, C, n) < 0
    BY <1>4, ZeroBeginIs
  <2>2. PICK f, k : f = FirstOwn(group, C, n) /\ k = Suborder(group, C, n)
    OBVIOUS
  <2>3. BeginAction(s, i) = ZeroBegin(s, i)
    BY <1>4, Zenon DEF BeginAction
  <2>4. /\ BeginAction(s, i).key = <<a, 1, 0, f, k>> /\ group[n] = i /\ n \in DOMAIN group
    BY <1>1, <2>1, <2>2, <2>3 DEF BeginsAt, Action
  <2>5. a = b /\ z = 1
    BY <1>1, <1>4 DEF Instantaneous
  <2>6. n \in Own(group, C, n)
    BY <2>4 DEF Own
  <2>7. f <= i /\ k \in Int /\ k < 0
    BY <2>1, <2>2, <2>4, <2>6
  <2>8. f \in Nat
    <3>1. f \in Slices(s)
      BY <2>1, <2>2 DEF Peers, Instantaneous
    <3> QED BY <3>1, EndIs
  <2>9. Five(<<a, 1, 0, f, k>>) /\ (f < i \/ (f = i /\ k < 1))
    BY <1>2, <2>7, <2>8 DEF Five
  <2>10. LexLess(<<a, 1, 0, f, k>>, <<b, 1, 0, i, z>>)
    BY <2>5, <2>9, LexFive
  <2> QED BY <1>2, <2>4, <2>10 DEF Before
<1> QED BY <1>3, <1>4

PartOf(s, i) ==
  IF i \in Instantaneous(s)
  THEN {ZeroBegin(s, i), Action("end", i, Ns(s, i), 1, 0, i, 1)}
  ELSE {Action("begin", i, StartNs(s, i), 2, StartNs(s, i) - Ns(s, i), -i, 0),
        Action("end", i, Ns(s, i), 1, 0, i, 0)}

LEMMA SliceActionsAre ==
  ASSUME NEW s, NEW a
  PROVE  a \in SliceActions(s) <=>
           \E i \in Slices(s) : a = BeginAction(s, i) \/ a = EndAction(s, i)
<1>1. SliceActions(s) = UNION {PartOf(s, i) : i \in Slices(s)}
  BY Zenon DEF SliceActions, PartOf
<1>2. a \in SliceActions(s) <=> \E i \in Slices(s) : a \in PartOf(s, i)
  BY <1>1
<1>3. ASSUME NEW i \in Slices(s)
      PROVE  a \in PartOf(s, i) <=> (a = BeginAction(s, i) \/ a = EndAction(s, i))
  <2>1. CASE i \in Instantaneous(s)
    <3>1. 1 # 0 /\ 1 # -1
      OBVIOUS
    <3>2. EndAction(s, i) = Action("end", i, Ns(s, i), 1, 0, i, 1)
      BY <2>1, <3>1, Zenon DEF EndAction, Plain
    <3>3. BeginAction(s, i) = ZeroBegin(s, i)
      BY <2>1, Zenon DEF BeginAction
    <3>4. PartOf(s, i) = {ZeroBegin(s, i), Action("end", i, Ns(s, i), 1, 0, i, 1)}
      BY <2>1, Zenon DEF PartOf
    <3> QED BY <3>2, <3>3, <3>4, Zenon
  <2>2. CASE i \notin Instantaneous(s)
    <3>1. EndAction(s, i) = Action("end", i, Ns(s, i), 1, 0, i, 0)
      BY <2>2, Zenon DEF EndAction, Plain, WhatIs
    <3>2. BeginAction(s, i) =
            Action("begin", i, StartNs(s, i), 2, StartNs(s, i) - Ns(s, i), -i, 0)
      BY <2>2, Zenon DEF BeginAction, Late
    <3>3. PartOf(s, i) =
            {Action("begin", i, StartNs(s, i), 2, StartNs(s, i) - Ns(s, i), -i, 0),
             Action("end", i, Ns(s, i), 1, 0, i, 0)}
      BY <2>2, Zenon DEF PartOf
    <3> QED BY <3>1, <3>2, <3>3, Zenon
  <2> QED BY <2>1, <2>2
<1> QED BY <1>2, <1>3

LEMMA TrackBalanced ==
  ASSUME NEW s, Orderly(s), ~Straddled(s), ~Spanned(s), NEW track
  PROVE  Balanced(OnTrack(s, SliceActions(s), track))
<1>1. Steady(s)
  BY DEF Orderly
<1>2. PICK A : A = {a \in SliceActions(s) : s[a.item].track = track}
  OBVIOUS
<1>3. PICK I : I = {i \in Slices(s) : s[i].track = track}
  OBVIOUS
<1>4. PICK f : f = Ordered(A)
  OBVIOUS
<1>5. OnTrack(s, SliceActions(s), track) = f
  BY <1>2, <1>4, Zenon DEF OnTrack
<1>6. A \in SUBSET Actions(s)
  BY <1>2 DEF Actions
<1>7. /\ IsFiniteSet(A) /\ Keys(A, ActionKeys(A), 5) /\ SortedBy(f, A, ActionKeys(A))
  BY <1>1, <1>4, <1>6, ActionsSorted
<1>8. PICK N : N = Cardinality(A)
  OBVIOUS
<1>9. /\ N \in Nat /\ DOMAIN f = 1..N /\ Len(f) = N
      /\ \A n \in 1..N : f[n] \in A
      /\ \A a \in A : \E n \in 1..N : f[n] = a
  BY <1>4, <1>7, <1>8, OrderedLen, FS_CardinalityType DEF SortedBy
<1>10. /\ \A n, m \in 1..N : f[n] = f[m] => n = m
       /\ \A n, m \in 1..N : LexLess(ActionKeys(A)[f[n]], ActionKeys(A)[f[m]]) => n < m
  BY <1>7, <1>9, SortedFacts
<1>11. /\ \A n, m \in 1..N : Before(f[n], f[m]) => n < m
       /\ \A n, m \in 1..N : n < m => Before(f[n], f[m])
  <2>1. \A n \in 1..N : ActionKeys(A)[f[n]] = f[n].key
    BY <1>9 DEF ActionKeys
  <2>2. \A n, m \in 1..N : n < m => LexLess(ActionKeys(A)[f[n]], ActionKeys(A)[f[m]])
    BY <1>7, <1>9 DEF SortedBy
  <2> QED BY <1>10, <2>1, <2>2 DEF Before
<1>12. \A i \in I : /\ i \in Slices(s) /\ s[i].track = track
  BY <1>3
<1>13. \A i \in Slices(s) :
         /\ BeginAction(s, i).what = "begin" /\ BeginAction(s, i).item = i
         /\ EndAction(s, i).what = "end" /\ EndAction(s, i).item = i
         /\ i \in Nat /\ i # 0
  BY <1>1, BeginIs, EndIs
<1>14. \A i \in I : BeginAction(s, i) \in A /\ EndAction(s, i) \in A
  BY <1>2, <1>12, <1>13, SliceActionsAre
<1>15. PICK B : B = [i \in I |-> CHOOSE n \in 1..N : f[n] = BeginAction(s, i)]
  OBVIOUS
<1>16. PICK E : E = [i \in I |-> CHOOSE n \in 1..N : f[n] = EndAction(s, i)]
  OBVIOUS
<1>17. \A i \in I : B[i] \in 1..N /\ f[B[i]] = BeginAction(s, i)
  BY <1>9, <1>14, <1>15
<1>18. \A i \in I : E[i] \in 1..N /\ f[E[i]] = EndAction(s, i)
  BY <1>9, <1>14, <1>16
<1>19. \A i \in I : B[i] < E[i]
  <2> TAKE i \in I
  <2>1. Before(f[B[i]], f[E[i]])
    BY <1>1, <1>12, <1>17, <1>18, BeginBeforeEnd
  <2> QED BY <1>11, <1>17, <1>18, <2>1
<1>20. ASSUME NEW n \in 1..N
       PROVE  f[n].item \in I /\ n \in {B[f[n].item], E[f[n].item]}
  <2>1. f[n] \in A
    BY <1>9
  <2>2. PICK i \in Slices(s) : f[n] = BeginAction(s, i) \/ f[n] = EndAction(s, i)
    BY <1>2, <2>1, SliceActionsAre
  <2>3. f[n].item = i /\ i \in I
    BY <1>2, <1>3, <1>13, <2>1, <2>2
  <2>4. f[n] = f[B[i]] \/ f[n] = f[E[i]]
    BY <1>17, <1>18, <2>2, <2>3
  <2>5. n = B[i] \/ n = E[i]
    BY <1>10, <1>17, <1>18, <2>3, <2>4
  <2> QED BY <2>3, <2>5
<1>21. ASSUME NEW i \in I, NEW j \in I, B[i] < B[j], B[j] < E[i], E[i] < E[j]
       PROVE  FALSE
  <2>1. /\ Before(BeginAction(s, i), BeginAction(s, j))
        /\ Before(BeginAction(s, j), EndAction(s, i))
        /\ Before(EndAction(s, i), EndAction(s, j))
    <3>1. Before(f[B[i]], f[B[j]]) /\ Before(f[B[j]], f[E[i]]) /\ Before(f[E[i]], f[E[j]])
      BY <1>11, <1>17, <1>18, <1>21
    <3> QED BY <1>17, <1>18, <3>1
  <2>2. i < j
    BY <1>1, <1>12, <2>1, EndsOrdered
  <2>3. Overlap(s, i, j)
    BY <1>12, <2>1, <2>2 DEF Overlap
  <2> QED BY <2>3, LateOverlap, ZeroOverlapsLate, ZeroesOverlap
<1>22. Bracketed(f, N, I, B, E)
  <2>1. I \in SUBSET (Nat \ {0})
    BY <1>12, <1>13
  <2>2. \A i \in I : /\ B[i] \in 1..N /\ E[i] \in 1..N /\ B[i] < E[i]
                     /\ f[B[i]].what = "begin" /\ f[B[i]].item = i
                     /\ f[E[i]].what = "end" /\ f[E[i]].item = i
    BY <1>12, <1>13, <1>17, <1>18, <1>19
  <2> QED BY <1>20, <1>21, <2>1, <2>2 DEF Bracketed
<1> QED BY <1>5, <1>9, <1>22, Brackets

NestIn(s, wrapped) ==
  Accepted(s, wrapped) =>
    /\ ~SlicesCross(s)
    /\ Straddled(s) \/ Spanned(s) \/ \A track \in Tracks :
         Balanced(OnTrack(s, SliceActions(s), track))

LEMMA RetainedNest ==
  ASSUME LifeInv, NestInv, NEW r \in Retained
  PROVE  NestIn(r.s, r.wrapped)
<1>1. PICK k \in 1..Len(items) :
        r = [s |-> SubSeq(items, k, Len(items)), wrapped |-> k > 1]
  BY DEF Retained
<1>2. PICK s : s = SubSeq(items, k, Len(items))
  OBVIOUS
<1>3. PICK lost : lost = Len(items) - Len(s)
  OBVIOUS
<1>4. Suffix(s, items, lost)
  BY <1>2, <1>3, RetainedIs
<1>5. Clocked(s) /\ Stepped(s)
  BY <1>2, SuffixOrdered DEF NestInv
<1>6. Nested(s)
  BY <1>4, SuffixNested DEF NestInv
<1>7. r.s = s
  BY <1>1, <1>2
<1>8. PICK wrapped : wrapped = r.wrapped
  OBVIOUS
<1>9. ASSUME Accepted(s, wrapped)
      PROVE  /\ ~SlicesCross(s)
             /\ Straddled(s) \/ Spanned(s) \/ \A track \in Tracks :
                  Balanced(OnTrack(s, SliceActions(s), track))
  <2>1. Orderly(s)
    BY <1>5, <1>6, <1>9, AcceptedOrderly
  <2> QED BY <2>1, NoneCross, TrackBalanced
<1> QED BY <1>7, <1>8, <1>9 DEF NestIn

LEMMA NestHolds == LifeInv /\ NestInv => SlicesNest
<1> SUFFICES ASSUME LifeInv, NestInv PROVE SlicesNest
  OBVIOUS
<1>1. \A r \in Retained : NestIn(r.s, r.wrapped)
  BY RetainedNest
<1> QED BY <1>1, Zenon DEF SlicesNest, NestIn

(* At any capture of any writer that keeps its rules, whole or what a       *)
(* wrapped ring retains of it, at any counter rate, slices never cross and  *)
(* the packets of every track are properly bracketed, but for slices of no  *)
(* duration that are straddled or spanned by a third.                       *)
THEOREM SlicesAreNested == Spec => []SlicesNest
<1>1. Spec => []LifeInv
  BY LifeInit, LifeNext, PTL DEF Spec
<1>2. Spec => []NestInv
  BY NestInit, NestNext, PTL DEF Spec
<1> QED BY <1>1, <1>2, NestHolds, PTL
=============================================================================
