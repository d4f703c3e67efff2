---------------------- MODULE CompactPublication_proofs ----------------------
(***************************************************************************)
(* A buffer that says that it is finalized is complete, and what a reader  *)
(* recovers from any snapshot is the newest run of the records, with what  *)
(* is lost flagged, for any number and size of chunks and any order in     *)
(* which stores become visible: theorems of CompactPublication, with its   *)
(* refinement ImplementsFlightRecorder.                                    *)
(***************************************************************************)
EXTENDS CompactPublication, SequenceTheorems, FiniteSetTheorems, WellFoundedInduction, TLAPS

----------------------------------------------------------------------------
(* Entries of `pending`, and the values of locations.                       *)
Flags == {"wrapped", "crc", "finalized"}
ValuesOf(where) ==
  IF where[2] = "flags" THEN SUBSET Flags
  ELSE IF where[2] \in {"magic", "suffix"} THEN BOOLEAN
  ELSE -1..MaxRecords
AnyValue == UNION {ValuesOf(where) : where \in Locations}
Entries == {Barrier} \cup {e \in Locations \X AnyValue : e[2] \in ValuesOf(e[1])}

To(e, where) == e # Barrier /\ e[1] = where

LEMMA StoreEntry ==
  ASSUME NEW where \in Locations, NEW what \in ValuesOf(where)
  PROVE  /\ Store(where, what) \in Entries
         /\ Store(where, what) # Barrier
         /\ Store(where, what)[1] = where /\ Store(where, what)[2] = what
<1>1. what \in AnyValue
  BY DEF AnyValue
<1>2. Store(where, what) \in Locations \X AnyValue
  BY <1>1 DEF Store
<1>3. Store(where, what)[1] = where /\ Store(where, what)[2] = what
  BY DEF Store
<1>4. Store(where, what) # Barrier
  BY DEF Store, Barrier
<1> QED BY <1>2, <1>3, <1>4 DEF Entries

LEMMA EntryParts ==
  ASSUME NEW e \in Entries, e # Barrier
  PROVE  e[1] \in Locations /\ e[2] \in ValuesOf(e[1]) /\ e = Store(e[1], e[2])
BY DEF Entries, Store

LEMMA Fields ==
  /\ Field(File, "flags") \in Locations /\ Field(File, "crc") \in Locations
  /\ Field(File, "counts") \in Locations
  /\ \A slot \in Slots :
       /\ \A f \in {"magic", "suffix", "sequence", "cursor", "counts", "seal"} :
            Field(slot, f) \in Locations
       /\ \A p \in Positions : Body(slot, p) \in Locations
       /\ slot # File
  /\ ValuesOf(Field(File, "flags")) = SUBSET Flags
  /\ ValuesOf(Field(File, "crc")) = -1..MaxRecords
  /\ ValuesOf(Field(File, "counts")) = -1..MaxRecords
  /\ \A slot \in Slots :
       /\ ValuesOf(Field(slot, "magic")) = BOOLEAN /\ ValuesOf(Field(slot, "suffix")) = BOOLEAN
       /\ \A f \in {"sequence", "cursor", "counts", "seal"} :
            ValuesOf(Field(slot, f)) = -1..MaxRecords
       /\ \A p \in Positions : ValuesOf(Body(slot, p)) = -1..MaxRecords
<1>1. \A slot \in Slots : slot # File
  BY PublicationAssumption DEF Slots, File
<1>2. /\ Field(File, "flags") \in Locations /\ Field(File, "crc") \in Locations
      /\ Field(File, "counts") \in Locations
  BY DEF Field, Locations
<1>3. \A slot \in Slots, f \in {"magic", "suffix", "sequence", "cursor", "counts", "seal"} :
        Field(slot, f) \in Locations
  BY DEF Field, Locations
<1>4. \A slot \in Slots, p \in Positions : Body(slot, p) \in Locations
  BY DEF Body, Locations
<1>5. \A slot, f : Field(slot, f)[2] = f
  BY DEF Field
<1>6. \A slot, p : Body(slot, p)[2] = "body"
  BY DEF Body
<1>7. /\ ValuesOf(Field(File, "flags")) = SUBSET Flags
      /\ ValuesOf(Field(File, "crc")) = -1..MaxRecords
      /\ ValuesOf(Field(File, "counts")) = -1..MaxRecords
  BY <1>5 DEF ValuesOf
<1>8. \A slot \in Slots :
        /\ ValuesOf(Field(slot, "magic")) = BOOLEAN /\ ValuesOf(Field(slot, "suffix")) = BOOLEAN
        /\ \A f \in {"sequence", "cursor", "counts", "seal"} :
             ValuesOf(Field(slot, f)) = -1..MaxRecords
        /\ \A p \in Positions : ValuesOf(Body(slot, p)) = -1..MaxRecords
  BY <1>5, <1>6 DEF ValuesOf
<1> QED BY <1>1, <1>2, <1>3, <1>4, <1>7, <1>8

----------------------------------------------------------------------------
(* What a location will hold once all of `pending` is visible: the value of *)
(* the last store to it, or what it holds now.                              *)
Untouched(p, where) == \A i \in DOMAIN p : ~To(p[i], where)
Leaves(p, where, what) ==
  \E i \in DOMAIN p : /\ p[i] = Store(where, what)
                      /\ \A j \in DOMAIN p : j > i => ~To(p[j], where)
Settles(where, what) ==
  \/ Leaves(pending, where, what)
  \/ Untouched(pending, where) /\ memory[where] = what

LEMMA Concatenated ==
  ASSUME NEW x \in Seq(Entries), NEW y \in Seq(Entries)
  PROVE  /\ x \o y \in Seq(Entries) /\ Len(x) \in Nat /\ Len(y) \in Nat
         /\ DOMAIN x = 1..Len(x) /\ DOMAIN y = 1..Len(y)
         /\ DOMAIN (x \o y) = 1..(Len(x) + Len(y)) /\ Len(x \o y) = Len(x) + Len(y)
         /\ \A i \in DOMAIN x : i \in DOMAIN (x \o y) /\ (x \o y)[i] = x[i]
         /\ \A i \in DOMAIN y : Len(x) + i \in DOMAIN (x \o y) /\ (x \o y)[Len(x) + i] = y[i]
         /\ \A k \in DOMAIN (x \o y) : \/ k \in DOMAIN x
                                       \/ k - Len(x) \in DOMAIN y /\ k = Len(x) + (k - Len(x))
<1>1. /\ x \o y \in Seq(Entries) /\ Len(x) \in Nat /\ Len(y) \in Nat
      /\ DOMAIN x = 1..Len(x) /\ DOMAIN y = 1..Len(y)
      /\ DOMAIN (x \o y) = 1..(Len(x) + Len(y)) /\ Len(x \o y) = Len(x) + Len(y)
  BY ConcatProperties, LenProperties
<1>2. \A i \in 1..(Len(x) + Len(y)) : (x \o y)[i] = IF i <= Len(x) THEN x[i] ELSE y[i - Len(x)]
  BY ConcatProperties
<1>3. \A i \in DOMAIN x : i \in DOMAIN (x \o y) /\ (x \o y)[i] = x[i]
  BY <1>1, <1>2
<1>4. ASSUME NEW i \in DOMAIN y
      PROVE  Len(x) + i \in DOMAIN (x \o y) /\ (x \o y)[Len(x) + i] = y[i]
  <2>1. /\ Len(x) + i \in 1..(Len(x) + Len(y)) /\ ~(Len(x) + i <= Len(x))
        /\ Len(x) + i - Len(x) = i
    BY <1>1
  <2> QED BY <1>1, <1>2, <2>1
<1>5. \A k \in DOMAIN (x \o y) : \/ k \in DOMAIN x
                                 \/ k - Len(x) \in DOMAIN y /\ k = Len(x) + (k - Len(x))
  BY <1>1
<1> QED BY <1>1, <1>3, <1>4, <1>5

LEMMA Pieces ==
  ASSUME NEW x \in Seq(Entries), NEW y \in Seq(Entries), NEW where, NEW what
  PROVE  /\ Leaves(y, where, what) => Leaves(x \o y, where, what)
         /\ (Leaves(x, where, what) /\ Untouched(y, where)) => Leaves(x \o y, where, what)
         /\ (Untouched(x, where) /\ Untouched(y, where)) => Untouched(x \o y, where)
<1> DEFINE z == x \o y
           n == Len(x)
<1>1. /\ n \in Nat /\ DOMAIN x = 1..n /\ DOMAIN y = 1..Len(y) /\ Len(y) \in Nat
      /\ DOMAIN z = 1..(n + Len(y))
      /\ \A i \in DOMAIN x : i \in DOMAIN z /\ z[i] = x[i]
      /\ \A i \in DOMAIN y : n + i \in DOMAIN z /\ z[n + i] = y[i]
      /\ \A k \in DOMAIN z : k \in DOMAIN x \/ (k - n \in DOMAIN y /\ k = n + (k - n))
  BY Concatenated
<1> HIDE DEF z, n
<1>2. ASSUME Leaves(y, where, what) PROVE Leaves(z, where, what)
  <2>1. PICK i \in DOMAIN y : /\ y[i] = Store(where, what)
                              /\ \A j \in DOMAIN y : j > i => ~To(y[j], where)
    BY <1>2 DEF Leaves
  <2>2. n + i \in DOMAIN z /\ z[n + i] = Store(where, what)
    BY <1>1, <2>1
  <2>3. ASSUME NEW k \in DOMAIN z, k > n + i PROVE ~To(z[k], where)
    <3>1. k \notin DOMAIN x
      BY <1>1, <2>3
    <3>2. k - n \in DOMAIN y /\ k = n + (k - n) /\ k - n > i
      BY <1>1, <2>3, <3>1
    <3>3. z[k] = y[k - n]
      BY <1>1, <3>2
    <3> QED BY <2>1, <3>2, <3>3
  <2> QED BY <2>2, <2>3 DEF Leaves
<1>3. ASSUME Leaves(x, where, what), Untouched(y, where) PROVE Leaves(z, where, what)
  <2>1. PICK i \in DOMAIN x : /\ x[i] = Store(where, what)
                              /\ \A j \in DOMAIN x : j > i => ~To(x[j], where)
    BY <1>3 DEF Leaves
  <2>2. i \in DOMAIN z /\ z[i] = Store(where, what)
    BY <1>1, <2>1
  <2>3. ASSUME NEW k \in DOMAIN z, k > i PROVE ~To(z[k], where)
    <3>1. CASE k \in DOMAIN x
      BY <1>1, <2>1, <2>3, <3>1
    <3>2. CASE k \notin DOMAIN x
      <4>1. k - n \in DOMAIN y /\ z[k] = y[k - n]
        BY <1>1, <3>2
      <4> QED BY <1>3, <4>1 DEF Untouched
    <3> QED BY <3>1, <3>2
  <2> QED BY <2>2, <2>3 DEF Leaves
<1>4. ASSUME Untouched(x, where), Untouched(y, where) PROVE Untouched(z, where)
  <2>1. ASSUME NEW k \in DOMAIN z PROVE ~To(z[k], where)
    <3>1. CASE k \in DOMAIN x
      BY <1>1, <1>4, <3>1 DEF Untouched
    <3>2. CASE k \notin DOMAIN x
      <4>1. k - n \in DOMAIN y /\ z[k] = y[k - n]
        BY <1>1, <3>2
      <4> QED BY <1>4, <4>1 DEF Untouched
    <3> QED BY <3>1, <3>2
  <2> QED BY <2>1 DEF Untouched
<1> QED BY <1>2, <1>3, <1>4 DEF z

(* A call appends its stores.                                               *)
LEMMA AppendSettles ==
  ASSUME pending \in Seq(Entries), NEW x \in Seq(Entries), pending' = pending \o x,
         memory' = memory, NEW where, NEW what
  PROVE  /\ Leaves(x, where, what) => Settles(where, what)'
         /\ (Settles(where, what) /\ Untouched(x, where)) => Settles(where, what)'
<1>1. Leaves(x, where, what) => Leaves(pending', where, what)
  BY Pieces
<1>2. (Leaves(pending, where, what) /\ Untouched(x, where)) => Leaves(pending', where, what)
  BY Pieces
<1>3. (Untouched(pending, where) /\ Untouched(x, where)) => Untouched(pending', where)
  BY Pieces
<1> QED BY <1>1, <1>2, <1>3 DEF Settles

----------------------------------------------------------------------------
(* A store becomes visible: what is left of `pending`.                      *)
Source(i, d, j) == IF j < i THEN j ELSE j + 1 + d
Removal(i, d) ==
  /\ i \in 1..Len(pending) /\ Len(pending') = Len(pending) - 1 - d
  /\ d = 0 \/ (d = 1 /\ i = 1 /\ Len(pending) >= 2 /\ pending[2] = Barrier)
  /\ pending' \in Seq(Entries)
  /\ \A j \in 1..Len(pending') : pending'[j] = pending[Source(i, d, j)]

LEMMA RemovalStep ==
  ASSUME pending \in Seq(Entries), NEW i \in Ready, BecomeVisible(i)
  PROVE  \E d \in {0, 1} : Removal(i, d)
<1> DEFINE n == Len(pending)
           rest == RemoveAt(pending, i)
<1>1. n \in Nat /\ DOMAIN pending = 1..n /\ i \in 1..n /\ pending[i] # Barrier
  BY LenProperties DEF Ready
<1>2. /\ rest \in Seq(Entries) /\ Len(rest) = n - 1
      /\ \A j \in 1..(n - 1) : rest[j] = pending[IF j < i THEN j ELSE j + 1]
  <2>1. \A k \in 1..n : pending[k] \in Entries
    BY <1>1, ElementOfSeq
  <2> DEFINE a == SubSeq(pending, 1, i - 1)
             b == SubSeq(pending, i + 1, n)
  <2>2. a \in Seq(Entries) /\ Len(a) = i - 1 /\ \A j \in 1..(i - 1) : a[j] = pending[j]
    BY <1>1, <2>1
  <2>3. b \in Seq(Entries) /\ Len(b) = n - i /\ \A j \in 1..(n - i) : b[j] = pending[i + j]
    <3>1. \A k \in (i + 1)..n : pending[k] \in Entries
      BY <1>1, <2>1
    <3>2. i + 1 \in Int /\ n \in Int
      BY <1>1
    <3>3. /\ b \in Seq(Entries) /\ Len(b) = IF i + 1 <= n THEN n - (i + 1) + 1 ELSE 0
          /\ \A j \in 1..(n - (i + 1) + 1) : b[j] = pending[i + 1 + j - 1]
      BY <3>1, <3>2, SubSeqProperties
    <3> HIDE DEF n
    <3>4. /\ n - (i + 1) + 1 = n - i /\ (IF i + 1 <= n THEN n - (i + 1) + 1 ELSE 0) = n - i
          /\ \A j \in 1..(n - i) : i + 1 + j - 1 = i + j
      BY <1>1
    <3>5. \A j \in 1..(n - i) : b[j] = pending[i + j]
      <4>1. SUFFICES ASSUME NEW j \in 1..(n - i) PROVE b[j] = pending[i + j]
        OBVIOUS
      <4>2. j \in 1..(n - (i + 1) + 1) /\ i + 1 + j - 1 = i + j
        BY <1>1
      <4>3. b[j] = pending[i + 1 + j - 1]
        BY <3>3, <4>2
      <4> QED BY <4>2, <4>3
    <3>6. Len(b) = n - i
      BY <3>3, <3>4
    <3> QED BY <3>3, <3>5, <3>6
  <2>4. rest = a \o b
    BY DEF RemoveAt
  <2> HIDE DEF a, b, rest
  <2>5. /\ rest \in Seq(Entries) /\ Len(rest) = (i - 1) + (n - i)
        /\ \A j \in 1..((i - 1) + (n - i)) :
             rest[j] = IF j <= i - 1 THEN a[j] ELSE b[j - (i - 1)]
    <3>1. /\ a \o b \in Seq(Entries) /\ Len(a \o b) = Len(a) + Len(b)
          /\ \A j \in 1..(Len(a) + Len(b)) :
               (a \o b)[j] = IF j <= Len(a) THEN a[j] ELSE b[j - Len(a)]
      BY <2>2, <2>3, ConcatProperties
    <3> QED BY <2>2, <2>3, <2>4, <3>1
  <2>6. (i - 1) + (n - i) = n - 1
    BY <1>1
  <2>7. ASSUME NEW j \in 1..(n - 1)
        PROVE  rest[j] = pending[IF j < i THEN j ELSE j + 1]
    <3>1. CASE j < i
      BY <1>1, <2>2, <2>5, <2>6, <3>1
    <3>2. CASE ~(j < i)
      <4>1. j - (i - 1) \in 1..(n - i) /\ i + (j - (i - 1)) = j + 1 /\ ~(j <= i - 1)
        BY <1>1, <3>2
      <4> QED BY <2>3, <2>5, <2>6, <3>2, <4>1
    <3> QED BY <3>1, <3>2
  <2> QED BY <2>5, <2>6, <2>7
<1>3. pending' = IF rest # <<>> /\ Head(rest) = Barrier THEN Tail(rest) ELSE rest
  BY DEF BecomeVisible
<1>4. i = 1 \/ pending[1] # Barrier
  BY <1>1 DEF Ready
<1> HIDE DEF rest, n
<1>5. CASE rest # <<>> /\ Head(rest) = Barrier
  <2>1. n - 1 >= 1 /\ Head(rest) = rest[1]
    BY <1>1, <1>2, <1>5, EmptySeq, HeadTailProperties
  <2>2. i = 1 /\ pending[2] = Barrier
    <3>1. 1 \in 1..(n - 1) /\ rest[1] = pending[IF 1 < i THEN 1 ELSE 2]
      BY <1>1, <1>2, <2>1
    <3> QED BY <1>1, <1>4, <1>5, <2>1, <3>1
  <2>3. /\ pending' \in Seq(Entries) /\ Len(pending') = n - 2
        /\ \A j \in 1..(n - 2) : pending'[j] = rest[j + 1]
    <3>1. pending' = Tail(rest)
      BY <1>3, <1>5
    <3> QED BY <1>1, <1>2, <1>5, <2>1, <3>1, HeadTailProperties
  <2>4. \A j \in 1..(n - 2) : pending'[j] = pending[Source(i, 1, j)]
    <3> SUFFICES ASSUME NEW j \in 1..(n - 2) PROVE pending'[j] = pending[Source(i, 1, j)]
      OBVIOUS
    <3>1. j + 1 \in 1..(n - 1) /\ ~(j + 1 < i) /\ ~(j < i) /\ j + 1 + 1 = (j + 1) + 1
      BY <1>1, <2>1, <2>2
    <3>2. rest[j + 1] = pending[j + 1 + 1]
      BY <1>2, <3>1
    <3> QED BY <2>3, <3>1, <3>2 DEF Source
  <2>5. Removal(i, 1)
    BY <1>1, <2>1, <2>2, <2>3, <2>4 DEF Removal, n
  <2> QED BY <2>5
<1>6. CASE ~(rest # <<>> /\ Head(rest) = Barrier)
  <2>1. pending' = rest
    BY <1>3, <1>6
  <2>2. \A j \in 1..(n - 1) : pending'[j] = pending[Source(i, 0, j)]
    BY <1>1, <1>2, <2>1 DEF Source
  <2>3. Removal(i, 0)
    <3>1. i \in 1..n /\ Len(pending') = n - 1 - 0 /\ pending' \in Seq(Entries)
      BY <1>1, <1>2, <2>1
    <3>2. \A j \in 1..Len(pending') : pending'[j] = pending[Source(i, 0, j)]
      BY <2>2, <3>1, <1>1
    <3> QED BY <3>1, <3>2 DEF Removal, n
  <2> QED BY <2>3
<1> QED BY <1>5, <1>6

(* What is left keeps its order, and everything that is left is a store or  *)
(* barrier that was there.                                                  *)
LEMMA Sources ==
  ASSUME pending \in Seq(Entries), NEW i, NEW d \in {0, 1}, Removal(i, d)
  PROVE  /\ DOMAIN pending = 1..Len(pending) /\ Len(pending) \in Nat
         /\ DOMAIN pending' = 1..Len(pending') /\ Len(pending') \in Nat
         /\ \A j \in DOMAIN pending' :
              /\ Source(i, d, j) \in DOMAIN pending /\ Source(i, d, j) # i
              /\ pending'[j] = pending[Source(i, d, j)]
         /\ \A j, k \in DOMAIN pending' : j < k => Source(i, d, j) < Source(i, d, k)
         /\ \A k \in DOMAIN pending : k # i /\ pending[k] # Barrier =>
              \E j \in DOMAIN pending' : Source(i, d, j) = k
<1>1. /\ DOMAIN pending = 1..Len(pending) /\ Len(pending) \in Nat
      /\ DOMAIN pending' = 1..Len(pending') /\ Len(pending') \in Nat
  BY LenProperties DEF Removal
<1> DEFINE n == Len(pending)
           m == Len(pending')
<1>2. /\ i \in 1..n /\ m = n - 1 - d /\ n \in Nat /\ m \in Nat
      /\ d = 0 \/ (d = 1 /\ i = 1 /\ pending[2] = Barrier)
      /\ \A j \in 1..m : pending'[j] = pending[Source(i, d, j)]
  BY <1>1 DEF Removal
<1> HIDE DEF n, m
<1>3. ASSUME NEW j \in 1..m PROVE Source(i, d, j) \in 1..n /\ Source(i, d, j) # i
  BY <1>2 DEF Source
<1>4. ASSUME NEW j \in 1..m, NEW k \in 1..m, j < k
      PROVE  Source(i, d, j) < Source(i, d, k)
  BY <1>2, <1>4 DEF Source
<1>5. ASSUME NEW k \in 1..n, k # i, pending[k] # Barrier
      PROVE  \E j \in 1..m : Source(i, d, j) = k
  <2>1. CASE k < i
    BY <1>2, <1>5, <2>1 DEF Source
  <2>2. CASE k > i
    <3>1. d = 0 \/ k > 2
      BY <1>2, <1>5, <2>2
    <3>2. k - 1 - d \in 1..m /\ ~(k - 1 - d < i) /\ k - 1 - d + 1 + d = k
      BY <1>2, <2>2, <3>1
    <3> QED BY <3>2 DEF Source
  <2> QED BY <1>2, <1>5, <2>1, <2>2
<1>6. DOMAIN pending = 1..n /\ DOMAIN pending' = 1..m
  BY <1>1 DEF n, m
<1> QED BY <1>1, <1>2, <1>3, <1>4, <1>5, <1>6

Memory ==
  /\ memory \in [Locations -> AnyValue]
  /\ \A where \in Locations : memory[where] \in ValuesOf(where)

LEMMA MemoryStep ==
  ASSUME Memory, pending \in Seq(Entries), NEW i \in Ready, BecomeVisible(i)
  PROVE  /\ Memory'
         /\ pending[i] \in Entries /\ pending[i] # Barrier /\ pending[i][1] \in Locations
         /\ \A where \in Locations :
              memory'[where] = IF To(pending[i], where) THEN pending[i][2] ELSE memory[where]
<1>1. i \in DOMAIN pending /\ pending[i] # Barrier
  BY DEF Ready
<1>2. pending[i] \in Entries
  BY <1>1, ElementOfSeq, LenProperties
<1>3. pending[i][1] \in Locations /\ pending[i][2] \in ValuesOf(pending[i][1])
  BY <1>1, <1>2, EntryParts
<1>4. memory' = [memory EXCEPT ![pending[i][1]] = pending[i][2]]
  BY DEF BecomeVisible
<1>5. pending[i][2] \in AnyValue
  BY <1>3 DEF AnyValue
<1>6. \A where \in Locations :
        memory'[where] = IF where = pending[i][1] THEN pending[i][2] ELSE memory[where]
  BY <1>4 DEF Memory
<1>7. Memory'
  BY <1>3, <1>4, <1>5, <1>6 DEF Memory
<1> QED BY <1>1, <1>2, <1>3, <1>6, <1>7 DEF To

(* The order in which stores become visible does not change where they lead.*)
LEMMA VisibleSettles ==
  ASSUME Memory, pending \in Seq(Entries), NEW i \in Ready, BecomeVisible(i),
         NEW where \in Locations, NEW what, Settles(where, what)
  PROVE  Settles(where, what)'
<1>1. PICK d \in {0, 1} : Removal(i, d)
  BY RemovalStep
<1>2. /\ DOMAIN pending = 1..Len(pending) /\ DOMAIN pending' = 1..Len(pending')
      /\ Len(pending) \in Nat /\ Len(pending') \in Nat
      /\ \A j \in DOMAIN pending' :
           /\ Source(i, d, j) \in DOMAIN pending /\ Source(i, d, j) # i
           /\ pending'[j] = pending[Source(i, d, j)]
      /\ \A j, k \in DOMAIN pending' : j < k => Source(i, d, j) < Source(i, d, k)
      /\ \A k \in DOMAIN pending : k # i /\ pending[k] # Barrier =>
           \E j \in DOMAIN pending' : Source(i, d, j) = k
  BY <1>1, Sources
<1>3. /\ pending[i] # Barrier /\ i \in DOMAIN pending
      /\ memory'[where] = IF To(pending[i], where) THEN pending[i][2] ELSE memory[where]
  BY MemoryStep DEF Ready
<1>4. \A j \in 1..(i - 1) : pending[j] # Barrier /\ pending[j][1] # pending[i][1]
  BY DEF Ready
<1>5. CASE Untouched(pending, where) /\ memory[where] = what
  <2>1. Untouched(pending', where)
    BY <1>2, <1>5 DEF Untouched
  <2>2. memory'[where] = what
    BY <1>3, <1>5 DEF Untouched
  <2> QED BY <2>1, <2>2 DEF Settles
<1>6. CASE Leaves(pending, where, what)
  <2>1. PICK k \in DOMAIN pending : /\ pending[k] = Store(where, what)
                                    /\ \A j \in DOMAIN pending : j > k => ~To(pending[j], where)
    BY <1>6 DEF Leaves
  <2>2. pending[k] # Barrier /\ pending[k][1] = where /\ pending[k][2] = what
    BY <2>1 DEF Store, Barrier
  <2>3. CASE k = i
    <3>1. memory'[where] = what
      BY <1>3, <2>2, <2>3 DEF To
    <3>2. \A j \in DOMAIN pending : j # i => ~To(pending[j], where)
      BY <1>2, <1>3, <1>4, <2>1, <2>2, <2>3 DEF To
    <3>3. Untouched(pending', where)
      BY <1>2, <3>2 DEF Untouched
    <3> QED BY <3>1, <3>3 DEF Settles
  <2>4. CASE k # i
    <3>1. PICK l \in DOMAIN pending' : Source(i, d, l) = k
      BY <1>2, <2>2, <2>4
    <3>2. pending'[l] = Store(where, what)
      BY <1>2, <2>1, <3>1
    <3>3. \A j \in DOMAIN pending' : j > l => ~To(pending'[j], where)
      <4>1. SUFFICES ASSUME NEW j \in DOMAIN pending', j > l PROVE ~To(pending'[j], where)
        OBVIOUS
      <4>2. Source(i, d, j) > k /\ Source(i, d, j) \in DOMAIN pending
        BY <1>2, <3>1, <4>1
      <4> QED BY <1>2, <2>1, <4>2
    <3> QED BY <3>2, <3>3 DEF Settles, Leaves
  <2> QED BY <2>3, <2>4
<1> QED BY <1>5, <1>6 DEF Settles

----------------------------------------------------------------------------
(* What is still to be published, and the last word of finalize.            *)
Publishes(e) == e # Barrier /\ e[1][2] = "cursor" /\ e[2] > 0
Publishing   == {i \in DOMAIN pending : Publishes(pending[i])}
Accounted    == IsFiniteSet(Publishing) /\ published \in Nat
                /\ published + Cardinality(Publishing) = written

Announces(e) == e # Barrier /\ e[1] = Field(File, "flags") /\ "finalized" \in e[2]
Silent(p)    == \A i \in DOMAIN p : ~Announces(p[i])
Announcing ==
  LET n == Len(pending)
  IN  /\ "finalized" \notin FileFlags
      /\ n >= 1 /\ Announces(pending[n])
      /\ n = 1 \/ pending[n - 1] = Barrier
      /\ \A j \in 1..(n - 1) : ~Announces(pending[j])

LEMMA VisibleAccounted ==
  ASSUME pending \in Seq(Entries), NEW i \in Ready, BecomeVisible(i), Accounted
  PROVE  Accounted'
<1>1. PICK d \in {0, 1} : Removal(i, d)
  BY RemovalStep
<1> DEFINE s(j) == Source(i, d, j)
<1>2. /\ \A j \in DOMAIN pending' :
           s(j) \in DOMAIN pending /\ s(j) # i /\ pending'[j] = pending[s(j)]
      /\ \A j, k \in DOMAIN pending' : j < k => s(j) < s(k)
      /\ DOMAIN pending' \subseteq Int /\ DOMAIN pending \subseteq Int
      /\ \A k \in DOMAIN pending : k # i /\ pending[k] # Barrier =>
           \E j \in DOMAIN pending' : s(j) = k
  <2>1. DOMAIN pending = 1..Len(pending) /\ DOMAIN pending' = 1..Len(pending')
    BY <1>1, Sources
  <2> QED BY <1>1, <2>1, Sources
<1> HIDE DEF s
<1>3. \A j, k \in DOMAIN pending' : j # k => s(j) # s(k)
  BY <1>2
<1> DEFINE P == Publishing
           Q == Publishing'
           f == [j \in Q |-> s(j)]
<1>4. Q = {j \in DOMAIN pending' : Publishes(pending'[j])}
  BY DEF Publishing, Publishes, Barrier
<1>5. f \in Injection(Q, P \ {i})
  <2>1. \A j \in Q : s(j) \in P \ {i}
    BY <1>2, <1>4 DEF Publishing
  <2>2. \A j, k \in Q : j # k => s(j) # s(k)
    BY <1>3, <1>4
  <2> QED BY <2>1, <2>2 DEF Injection, IsInjective
<1>6. f \in Surjection(Q, P \ {i})
  <2>1. \A k \in P \ {i} : \E j \in Q : s(j) = k
    BY <1>2, <1>4 DEF Publishing, Publishes
  <2>2. f \in [Q -> P \ {i}]
    BY <1>5 DEF Injection
  <2> QED BY <2>1, <2>2 DEF Surjection
<1>7. /\ IsFiniteSet(P \ {i})
      /\ Cardinality(P \ {i}) = IF i \in P THEN Cardinality(P) - 1 ELSE Cardinality(P)
  BY FS_RemoveElement DEF Accounted
<1>8. IsFiniteSet(Q) /\ Cardinality(Q) = Cardinality(P \ {i})
  BY <1>5, <1>6, <1>7, FS_Injection
<1>9. i \in P <=> (pending[i][1][2] = "cursor" /\ pending[i][2] > 0)
  BY DEF Publishing, Publishes, Ready
<1>10. /\ published' = IF pending[i][1][2] = "cursor" /\ pending[i][2] > 0
                       THEN published + 1 ELSE published
       /\ written' = written
  BY DEF BecomeVisible
<1>11. Cardinality(P) \in Nat
  BY FS_CardinalityType DEF Accounted
<1>12. IsFiniteSet(Publishing') /\ published' \in Nat
       /\ published' + Cardinality(Publishing') = written'
  BY <1>7, <1>8, <1>9, <1>10, <1>11 DEF Accounted
<1> QED BY <1>12 DEF Accounted

LEMMA VisibleAnnouncing ==
  ASSUME Memory, pending \in Seq(Entries), NEW i \in Ready, BecomeVisible(i)
  PROVE  /\ (Silent(pending) /\ "finalized" \notin FileFlags) =>
              Silent(pending') /\ "finalized" \notin FileFlags'
         /\ Announcing => Announcing' \/ pending' = <<>>
<1>1. PICK d \in {0, 1} : Removal(i, d)
  BY RemovalStep
<1> DEFINE n == Len(pending)
           m == Len(pending')
           s(j) == Source(i, d, j)
<1>2. /\ DOMAIN pending = 1..n /\ DOMAIN pending' = 1..m /\ n \in Nat /\ m \in Nat
      /\ \A j \in 1..m : s(j) \in 1..n /\ s(j) # i /\ pending'[j] = pending[s(j)]
      /\ \A j, k \in 1..m : j < k => s(j) < s(k)
  <2>1. DOMAIN pending = 1..n /\ DOMAIN pending' = 1..m
    BY <1>1, Sources
  <2> QED BY <1>1, <2>1, Sources
<1>3. i \in 1..n /\ pending[i] # Barrier /\ \A j \in 1..(i - 1) : pending[j] # Barrier
  BY <1>2 DEF Ready
<1>4. ASSUME ~Announces(pending[i]), "finalized" \notin FileFlags
      PROVE  "finalized" \notin FileFlags'
  <2>1. Field(File, "flags") \in Locations
    BY Fields
  <2>2. FileFlags' = IF To(pending[i], Field(File, "flags"))
                     THEN pending[i][2] ELSE FileFlags
    BY <2>1, MemoryStep DEF FileFlags
  <2> QED BY <1>4, <2>2 DEF Announces, To
<1>5. ASSUME Silent(pending), "finalized" \notin FileFlags
      PROVE  Silent(pending') /\ "finalized" \notin FileFlags'
  <2>1. ~Announces(pending[i])
    BY <1>2, <1>3, <1>5 DEF Silent
  <2>2. Silent(pending')
    BY <1>2, <1>5 DEF Silent
  <2> QED BY <1>4, <1>5, <2>1, <2>2
<1>6. /\ m = n - 1 - d
      /\ d = 0 \/ (d = 1 /\ i = 1 /\ n >= 2 /\ pending[2] = Barrier)
      /\ \A j : s(j) = IF j < i THEN j ELSE j + 1 + d
  BY <1>1 DEF Removal, Source
<1>7. ASSUME Announcing, m # 0 PROVE Announcing'
  <2> HIDE DEF n, m, s
  <2>1. /\ "finalized" \notin FileFlags /\ n >= 1 /\ Announces(pending[n])
        /\ n = 1 \/ pending[n - 1] = Barrier
        /\ \A j \in 1..(n - 1) : ~Announces(pending[j])
    BY <1>7 DEF Announcing, n
  <2>2. m >= 1 /\ n > 1
    BY <1>2, <1>3, <1>6, <1>7
  <2>3. i < n - 1
    <3>1. pending[n - 1] = Barrier
      BY <2>1, <2>2
    <3>2. ~(n - 1 \in 1..i)
      BY <1>2, <1>3, <3>1
    <3> QED BY <1>2, <1>3, <2>2, <3>2
  <2>4. "finalized" \notin FileFlags'
    <3>1. ~Announces(pending[i])
      BY <1>2, <1>3, <2>1, <2>3
    <3> QED BY <1>4, <2>1, <3>1
  <2>5. s(m) = n
    <3>1. i <= m
      BY <1>2, <1>3, <1>6, <2>2, <2>3
    <3> QED BY <1>2, <1>3, <1>6, <3>1
  <2>6. m = 1 \/ s(m - 1) = n - 1
    <3>1. m = 1 \/ i <= m - 1
      BY <1>2, <1>3, <1>6, <2>2, <2>3
    <3> QED BY <1>2, <1>3, <1>6, <3>1
  <2>7. Announces(pending'[m])
    BY <1>2, <2>1, <2>2, <2>5
  <2>8. m = 1 \/ pending'[m - 1] = Barrier
    BY <1>2, <2>1, <2>2, <2>6
  <2>9. \A j \in 1..(m - 1) : ~Announces(pending'[j])
    <3>1. SUFFICES ASSUME NEW j \in 1..(m - 1) PROVE ~Announces(pending'[j])
      OBVIOUS
    <3>2. j \in 1..m /\ m \in 1..m /\ j < m
      BY <1>2, <2>2
    <3>3. s(j) \in 1..n /\ s(j) < n /\ pending'[j] = pending[s(j)]
      BY <1>2, <2>5, <3>2
    <3> QED BY <1>2, <2>1, <3>3
  <2> QED BY <2>2, <2>4, <2>7, <2>8, <2>9 DEF Announcing, Announces, m, Barrier, Field, File
<1>8. m = 0 => pending' = <<>>
  BY <1>1, EmptySeq DEF Removal
<1> QED BY <1>5, <1>7, <1>8

----------------------------------------------------------------------------
(* The stores of each call.                                                 *)
AnnouncesWrap == Store(Field(File, "flags"), {"wrapped"})
OfSlot(slot)  == {e \in Entries : e # Barrier /\ e[1][1] = slot}
WriteSet(slot) == {Barrier, AnnouncesWrap} \cup OfSlot(slot)
StartSet(slot) == {Barrier, AnnouncesWrap} \cup {e \in OfSlot(slot) : ~Publishes(e)}

LEMMA Wider ==
  ASSUME NEW S, NEW T, S \subseteq T, NEW x \in Seq(S)
  PROVE  x \in Seq(T) /\ \A i \in DOMAIN x : x[i] \in S
<1>1. Len(x) \in Nat /\ x \in [1..Len(x) -> S] /\ DOMAIN x = 1..Len(x)
  BY LenProperties
<1>2. x \in [1..Len(x) -> T]
  BY <1>1
<1> QED BY <1>1, <1>2, SeqDef

LEMMA WrapEntry == AnnouncesWrap \in Entries /\ AnnouncesWrap # Barrier /\ Barrier \in Entries
                   /\ AnnouncesWrap[1] = Field(File, "flags") /\ AnnouncesWrap[2] = {"wrapped"}
<1>1. {"wrapped"} \in ValuesOf(Field(File, "flags"))
  BY Fields DEF Flags
<1> QED BY <1>1, Fields, StoreEntry DEF AnnouncesWrap, Entries

LEMMA SlotEntry ==
  ASSUME NEW slot \in Slots, NEW where \in Locations, where[1] = slot,
         NEW what \in ValuesOf(where)
  PROVE  /\ Store(where, what) \in OfSlot(slot)
         /\ ~(where[2] = "cursor" /\ what > 0) => Store(where, what) \in StartSet(slot)
BY StoreEntry DEF OfSlot, StartSet, Publishes

LEMMA FieldParts ==
  \A slot, f : /\ Field(slot, f)[1] = slot /\ Field(slot, f)[2] = f
               /\ Body(slot, f)[1] = slot /\ Body(slot, f)[2] = "body"
BY DEF Field, Body

LEMMA Start ==
  ASSUME NEW slot \in Slots, next_sequence \in 0..MaxRecords
  PROVE  /\ StartStores(slot) \in Seq(StartSet(slot))
         /\ StartStores(slot) \in Seq(Entries)
         /\ Leaves(StartStores(slot), Field(slot, "magic"), TRUE)
         /\ Leaves(StartStores(slot), Field(slot, "suffix"), TRUE)
<1> DEFINE S == StartSet(slot)
           a == IF valid_chunks = ChunkCount /\ ~wrapped THEN FlagWrapped ELSE <<>>
           b == Invalidate(slot)
           c == [p \in Positions |-> Store(Body(slot, p), 0)]
           e1 == Store(Field(slot, "suffix"), FALSE)
           e2 == Store(Field(slot, "cursor"), 0)
           e3 == Store(Field(slot, "counts"), 0)
           e4 == Store(Field(slot, "sequence"), Torn)
           e5 == Store(Field(slot, "sequence"), next_sequence)
           e6 == Store(Field(slot, "suffix"), TRUE)
           e8 == Store(Field(slot, "magic"), TRUE)
           e == <<e1, e2, e3, e4, e5, e6, Barrier, e8>>
<1>1. S \subseteq Entries
  BY WrapEntry DEF StartSet, OfSlot
<1>3. /\ Field(slot, "magic") \in Locations /\ Field(slot, "suffix") \in Locations
      /\ Field(slot, "cursor") \in Locations /\ Field(slot, "counts") \in Locations
      /\ Field(slot, "sequence") \in Locations
      /\ \A p \in Positions : Body(slot, p) \in Locations
  BY Fields
<1>4. /\ ValuesOf(Field(slot, "magic")) = BOOLEAN /\ ValuesOf(Field(slot, "suffix")) = BOOLEAN
      /\ ValuesOf(Field(slot, "cursor")) = -1..MaxRecords
      /\ ValuesOf(Field(slot, "counts")) = -1..MaxRecords
      /\ ValuesOf(Field(slot, "sequence")) = -1..MaxRecords
      /\ \A p \in Positions : ValuesOf(Body(slot, p)) = -1..MaxRecords
  BY Fields
<1>5. /\ 0 \in -1..MaxRecords /\ Torn \in -1..MaxRecords /\ next_sequence \in -1..MaxRecords
      /\ ~(0 > 0)
  BY PublicationAssumption DEF Torn
<1>6. Store(Field(slot, "magic"), FALSE) \in S /\ e8 \in S
  BY <1>3, <1>4, SlotEntry, FieldParts
<1>7. e1 \in S /\ e6 \in S
  BY <1>3, <1>4, SlotEntry, FieldParts
<1>8. e2 \in S /\ e3 \in S /\ e4 \in S /\ e5 \in S
  BY <1>3, <1>4, <1>5, SlotEntry, FieldParts
<1>9. \A p \in Positions : Store(Body(slot, p), 0) \in S
  BY <1>3, <1>4, <1>5, SlotEntry, FieldParts
<1>10. Barrier \in S /\ AnnouncesWrap \in S
  BY DEF StartSet
<1> HIDE DEF S
<1>2. a \in Seq(S)
  BY <1>10, EmptySeq DEF FlagWrapped, AnnouncesWrap
<1>11. b \in Seq(S)
  <2>1. \A x, y \in S : <<x, y>> \in Seq(S)
    OBVIOUS
  <2>2. b = <<Store(Field(slot, "magic"), FALSE), Barrier>>
    BY Zenon DEF Invalidate
  <2> HIDE DEF b
  <2> QED BY <1>6, <1>10, <2>1, <2>2, Zenon
<1>12. c \in Seq(S)
  <2>1. Positions = 1..ChunkRecords /\ ChunkRecords \in Nat
    BY PublicationAssumption DEF Positions
  <2>2. c \in [1..ChunkRecords -> S]
    BY <1>9, <2>1
  <2> QED BY <2>1, <2>2, SeqDef
<1>13. /\ \A w \in {"magic", "suffix"} : ~To(Barrier, Field(slot, w))
       /\ e6 # Barrier /\ e8 # Barrier
       /\ ~To(e8, Field(slot, "suffix"))
  BY DEF To, Barrier, Store, Field
<1> HIDE DEF a, b, c, e1, e2, e3, e4, e5, e6, e8
<1>14. e \in Seq(S)
  BY <1>6, <1>7, <1>8, <1>10
<1>15. StartStores(slot) = ((a \o b) \o c) \o e
  BY DEF StartStores, a, b, c, e1, e2, e3, e4, e5, e6, e8
<1>16. DOMAIN e = 1..8 /\ e[6] = e6 /\ e[7] = Barrier /\ e[8] = e8
  OBVIOUS
<1> HIDE DEF e
<1>17. Leaves(e, Field(slot, "magic"), TRUE)
  <2>1. 8 \in DOMAIN e /\ \A j \in DOMAIN e : ~(j > 8)
    BY <1>16
  <2>2. e[8] = Store(Field(slot, "magic"), TRUE)
    BY <1>16 DEF e8
  <2> QED BY <2>1, <2>2, Zenon DEF Leaves
<1>18. Leaves(e, Field(slot, "suffix"), TRUE)
  <2>1. \A j \in 1..8 : j > 6 => j = 7 \/ j = 8
    OBVIOUS
  <2>2. \A j \in DOMAIN e : j > 6 => ~To(e[j], Field(slot, "suffix"))
    BY <1>13, <1>16, <2>1
  <2>3. e[6] = Store(Field(slot, "suffix"), TRUE)
    BY <1>16 DEF e6
  <2>4. 6 \in DOMAIN e
    BY <1>16
  <2> QED BY <2>2, <2>3, <2>4, Zenon DEF Leaves
<1>19. (a \o b) \o c \in Seq(S)
  BY <1>2, <1>11, <1>12, ConcatProperties
<1>20. ((a \o b) \o c) \o e \in Seq(S)
  BY <1>14, <1>19, ConcatProperties
<1>21. (a \o b) \o c \in Seq(Entries) /\ e \in Seq(Entries)
  BY <1>1, <1>14, <1>19, Wider
<1>22. ((a \o b) \o c) \o e \in Seq(Entries)
  BY <1>1, <1>20, Wider
<1>23. Leaves(((a \o b) \o c) \o e, Field(slot, "magic"), TRUE)
  BY <1>17, <1>21, Pieces
<1>24. Leaves(((a \o b) \o c) \o e, Field(slot, "suffix"), TRUE)
  BY <1>18, <1>21, Pieces
<1> QED BY <1>15, <1>20, <1>22, <1>23, <1>24 DEF S

CommitSet(slot) == {Barrier} \cup {e \in OfSlot(slot) : e[1][2] \in {"body", "cursor", "counts"}}

LEMMA Commit ==
  ASSUME NEW slot \in Slots, NEW position \in Positions, NEW record \in 1..MaxRecords,
         position <= MaxRecords
  PROVE  LET y == CommitStores(slot, position, record)
         IN  /\ y \in Seq(CommitSet(slot)) /\ y \in Seq(Entries) /\ Len(y) = 5
             /\ Leaves(y, Field(slot, "cursor"), position)
             /\ Leaves(y, Field(slot, "counts"), position)
             /\ \A i \in DOMAIN y : Publishes(y[i]) <=> i = 4
<1> DEFINE e1 == Store(Body(slot, position), Torn)
           e2 == Store(Body(slot, position), record)
           e4 == Store(Field(slot, "cursor"), position)
           e5 == Store(Field(slot, "counts"), position)
           y == <<e1, e2, Barrier, e4, e5>>
<1>1. /\ Field(slot, "cursor") \in Locations /\ Field(slot, "counts") \in Locations
      /\ Body(slot, position) \in Locations
      /\ ValuesOf(Field(slot, "cursor")) = -1..MaxRecords
      /\ ValuesOf(Field(slot, "counts")) = -1..MaxRecords
      /\ ValuesOf(Body(slot, position)) = -1..MaxRecords
  BY Fields
<1>2. Torn \in -1..MaxRecords /\ record \in -1..MaxRecords /\ position \in -1..MaxRecords
      /\ position > 0
  BY PublicationAssumption DEF Torn, Positions
<1>3. e1 \in OfSlot(slot) /\ e2 \in OfSlot(slot) /\ e4 \in OfSlot(slot) /\ e5 \in OfSlot(slot)
  BY <1>1, <1>2, SlotEntry, FieldParts
<1>4. /\ e1[1][2] = "body" /\ e2[1][2] = "body" /\ e4[1][2] = "cursor" /\ e5[1][2] = "counts"
      /\ e4[2] = position
      /\ e4[1] = Field(slot, "cursor") /\ e5[1] = Field(slot, "counts")
  BY DEF Store, Body, Field
<1>5. e1 # Barrier /\ e2 # Barrier /\ e4 # Barrier /\ e5 # Barrier
  BY <1>3 DEF OfSlot
<1>6. Field(slot, "counts") # Field(slot, "cursor")
  BY DEF Field
<1> HIDE DEF e1, e2, e4, e5
<1>7. e1 \in CommitSet(slot) /\ e2 \in CommitSet(slot) /\ e4 \in CommitSet(slot)
      /\ e5 \in CommitSet(slot) /\ Barrier \in CommitSet(slot)
  BY <1>3, <1>4 DEF CommitSet
<1>8. y \in Seq(CommitSet(slot))
  BY <1>7
<1>9. Len(y) = 5 /\ DOMAIN y = 1..5 /\ y[1] = e1 /\ y[2] = e2 /\ y[3] = Barrier
      /\ y[4] = e4 /\ y[5] = e5
  OBVIOUS
<1>10. y = CommitStores(slot, position, record)
  BY DEF CommitStores, e1, e2, e4, e5
<1> HIDE DEF y
<1>11. y \in Seq(Entries)
  <2>1. CommitSet(slot) \subseteq Entries
    BY WrapEntry DEF CommitSet, OfSlot
  <2> QED BY <1>8, <2>1, Wider
<1>12. Leaves(y, Field(slot, "cursor"), position)
  <2>1. \A j \in DOMAIN y : j > 4 => ~To(y[j], Field(slot, "cursor"))
    <3>1. \A j \in 1..5 : j > 4 => j = 5
      OBVIOUS
    <3> QED BY <1>4, <1>6, <1>9, <3>1 DEF To
  <2> QED BY <1>9, <2>1 DEF Leaves, e4
<1>13. Leaves(y, Field(slot, "counts"), position)
  <2>1. 5 \in DOMAIN y /\ \A j \in DOMAIN y : ~(j > 5)
    BY <1>9
  <2> QED BY <1>9, <2>1 DEF Leaves, e5
<1>14. \A i \in DOMAIN y : Publishes(y[i]) <=> i = 4
  <2>1. \A i \in 1..5 : i = 1 \/ i = 2 \/ i = 3 \/ i = 4 \/ i = 5
    OBVIOUS
  <2>2. ~Publishes(e1) /\ ~Publishes(e2) /\ ~Publishes(Barrier) /\ Publishes(e4) /\ ~Publishes(e5)
    BY <1>2, <1>4, <1>5 DEF Publishes
  <2> QED BY <1>9, <2>1, <2>2
<1> QED BY <1>8, <1>9, <1>10, <1>11, <1>12, <1>13, <1>14

(* What a call that commits a record adds to `pending`.                     *)
RecordStores(fresh, slot, position) ==
  (IF fresh THEN StartStores(slot) ELSE <<>>) \o CommitStores(slot, position, written + 1)

LEMMA Record ==
  ASSUME NEW fresh \in BOOLEAN, NEW slot \in Slots, NEW position \in Positions,
         position <= MaxRecords, written + 1 \in 1..MaxRecords, next_sequence \in 0..MaxRecords
  PROVE  LET z == RecordStores(fresh, slot, position)
         IN  /\ z \in Seq(Entries) /\ Silent(z)
             /\ Leaves(z, Field(slot, "cursor"), position)
             /\ Leaves(z, Field(slot, "counts"), position)
             /\ fresh => /\ Leaves(z, Field(slot, "magic"), TRUE)
                         /\ Leaves(z, Field(slot, "suffix"), TRUE)
             /\ ~fresh => /\ Untouched(z, Field(slot, "magic"))
                          /\ Untouched(z, Field(slot, "suffix"))
             /\ \A other \in Slots \ {slot} : \A f : Untouched(z, Field(other, f))
             /\ \E k \in DOMAIN z : \A i \in DOMAIN z : Publishes(z[i]) <=> i = k
<1> DEFINE x == IF fresh THEN StartStores(slot) ELSE <<>>
           y == CommitStores(slot, position, written + 1)
           z == x \o y
           n == Len(x)
<1>1. /\ x \in Seq(StartSet(slot)) /\ x \in Seq(Entries)
      /\ fresh => /\ Leaves(x, Field(slot, "magic"), TRUE)
                  /\ Leaves(x, Field(slot, "suffix"), TRUE)
      /\ ~fresh => x = <<>>
  BY Start, EmptySeq
<1>2. /\ y \in Seq(CommitSet(slot)) /\ y \in Seq(Entries) /\ Len(y) = 5
      /\ Leaves(y, Field(slot, "cursor"), position)
      /\ Leaves(y, Field(slot, "counts"), position)
      /\ \A i \in DOMAIN y : Publishes(y[i]) <=> i = 4
  BY Commit
<1>3. z = RecordStores(fresh, slot, position)
  BY DEF RecordStores
<1> HIDE DEF x, y
<1>4. /\ \A i \in DOMAIN x : x[i] \in StartSet(slot)
      /\ \A i \in DOMAIN y : y[i] \in CommitSet(slot)
  BY <1>1, <1>2, Wider
<1>5. /\ z \in Seq(Entries) /\ n \in Nat /\ Len(y) \in Nat
      /\ DOMAIN x = 1..n /\ DOMAIN y = 1..Len(y)
      /\ DOMAIN z = 1..(n + Len(y))
      /\ \A i \in DOMAIN x : i \in DOMAIN z /\ z[i] = x[i]
      /\ \A i \in DOMAIN y : n + i \in DOMAIN z /\ z[n + i] = y[i]
      /\ \A k \in DOMAIN z : k \in DOMAIN x \/ (k - n \in DOMAIN y /\ k = n + (k - n))
  BY <1>1, <1>2, Concatenated
<1> HIDE DEF z, n
<1>6. \A k \in DOMAIN z : z[k] \in WriteSet(slot)
  <2>1. StartSet(slot) \subseteq WriteSet(slot) /\ CommitSet(slot) \subseteq WriteSet(slot)
    BY DEF StartSet, CommitSet, WriteSet
  <2> QED BY <1>4, <1>5, <2>1
<1>7. slot # File /\ "wrapped" # "finalized"
  BY Fields
<1>8. Silent(z)
  <2>1. \A e \in WriteSet(slot) : ~Announces(e)
    BY <1>7, WrapEntry, FieldParts DEF WriteSet, OfSlot, Announces
  <2> QED BY <1>6, <2>1 DEF Silent
<1>9. Leaves(z, Field(slot, "cursor"), position) /\ Leaves(z, Field(slot, "counts"), position)
  BY <1>1, <1>2, Pieces DEF z
<1>10. Untouched(y, Field(slot, "magic")) /\ Untouched(y, Field(slot, "suffix"))
  BY <1>4, FieldParts DEF CommitSet, Untouched, To
<1>11. ASSUME fresh
       PROVE  Leaves(z, Field(slot, "magic"), TRUE) /\ Leaves(z, Field(slot, "suffix"), TRUE)
  BY <1>1, <1>2, <1>10, <1>11, Pieces DEF z
<1>12. ASSUME ~fresh
       PROVE  Untouched(z, Field(slot, "magic")) /\ Untouched(z, Field(slot, "suffix"))
  <2>1. Untouched(x, Field(slot, "magic")) /\ Untouched(x, Field(slot, "suffix"))
    BY <1>1, <1>12 DEF Untouched
  <2> QED BY <1>1, <1>2, <1>10, <2>1, Pieces DEF z
<1>13. \A other \in Slots \ {slot} : \A f : Untouched(z, Field(other, f))
  <2>1. \A other \in Slots \ {slot} : \A f : \A e \in WriteSet(slot) : ~To(e, Field(other, f))
    <3>1. \A other \in Slots : other # File
      BY Fields
    <3> QED BY <3>1, WrapEntry, FieldParts DEF WriteSet, OfSlot, To
  <2> QED BY <1>6, <2>1 DEF Untouched
<1>14. \A i \in DOMAIN z : Publishes(z[i]) <=> i = n + 4
  <2>1. SUFFICES ASSUME NEW i \in DOMAIN z PROVE Publishes(z[i]) <=> i = n + 4
    OBVIOUS
  <2>2. CASE i \in DOMAIN x
    <3>1. ~Publishes(x[i])
      BY <1>4, <2>2, WrapEntry DEF StartSet, Publishes, Field
    <3> QED BY <1>5, <2>2, <3>1
  <2>3. CASE i - n \in DOMAIN y /\ i = n + (i - n)
    <3>1. z[i] = y[i - n] /\ (i - n = 4 <=> i = n + 4)
      BY <1>5, <2>3
    <3> QED BY <1>2, <2>3, <3>1
  <2> QED BY <1>5, <2>2, <2>3
<1>15. n + 4 \in DOMAIN z
  BY <1>2, <1>5
<1> QED BY <1>3, <1>5, <1>8, <1>9, <1>11, <1>12, <1>13, <1>14, <1>15

(* What finalize adds to `pending`: the chunk CRCs, the header's counters,  *)
(* and the announcement.                                                    *)
Seals  == [i \in 1..(2 * valid_chunks) |->
             Store(Field((i - 1) \div 2, "seal"), IF i % 2 = 1 THEN Torn ELSE 1)]
Counts == <<Store(Field(File, "counts"), written), Barrier>>

SealSet == {e \in Entries : e # Barrier /\ e[1][1] \in Slots /\ e[1][2] = "seal"}

LEMMA Sealing ==
  ASSUME valid_chunks \in 0..ChunkCount
  PROVE  /\ Seals \in Seq(SealSet)
         /\ \A slot \in 0..(valid_chunks - 1) : Leaves(Seals, Field(slot, "seal"), 1)
<1> DEFINE n == 2 * valid_chunks
           e(i) == Store(Field((i - 1) \div 2, "seal"), IF i % 2 = 1 THEN Torn ELSE 1)
<1>1. n \in Nat /\ ChunkCount \in Nat /\ valid_chunks \in Nat /\ valid_chunks <= ChunkCount
  BY PublicationAssumption
<1>2. \A i \in 1..n : (i - 1) \div 2 \in 0..(valid_chunks - 1)
  BY <1>1
<1>3. \A i \in 1..n : e(i) \in SealSet
  <2>1. SUFFICES ASSUME NEW i \in 1..n PROVE e(i) \in SealSet
    OBVIOUS
  <2> DEFINE slot == (i - 1) \div 2
             what == IF i % 2 = 1 THEN Torn ELSE 1
  <2>2. slot \in Slots
    BY <1>1, <1>2 DEF Slots
  <2>3. what \in -1..MaxRecords
    BY PublicationAssumption DEF Torn
  <2> HIDE DEF slot, what
  <2>4. Store(Field(slot, "seal"), what) \in OfSlot(slot)
    BY <2>2, <2>3, Fields, FieldParts, SlotEntry
  <2>5. Store(Field(slot, "seal"), what)[1][2] = "seal"
    BY DEF Store, Field
  <2>6. Store(Field(slot, "seal"), what) \in SealSet
    BY <2>2, <2>4, <2>5 DEF SealSet, OfSlot
  <2> QED BY <2>6 DEF slot, what
<1>4. Seals \in [1..n -> SealSet]
  BY <1>3 DEF Seals
<1>5. Seals \in Seq(SealSet)
  BY <1>1, <1>4, SeqDef
<1>6. ASSUME NEW slot \in 0..(valid_chunks - 1)
      PROVE  Leaves(Seals, Field(slot, "seal"), 1)
  <2> DEFINE k == 2 * slot + 2
  <2>1. k \in 1..n /\ (k - 1) \div 2 = slot /\ k % 2 # 1
    BY <1>1
  <2>2. DOMAIN Seals = 1..n /\ \A i \in 1..n : Seals[i] = e(i)
    BY DEF Seals
  <2>3. Seals[k] = Store(Field(slot, "seal"), 1)
    BY <2>1, <2>2
  <2>4. \A j \in 1..n : j > k => (j - 1) \div 2 # slot
    BY <1>1
  <2>5. ASSUME NEW j \in DOMAIN Seals, j > k PROVE ~To(Seals[j], Field(slot, "seal"))
    <3>1. (j - 1) \div 2 # slot /\ Seals[j] = e(j)
      BY <2>2, <2>4, <2>5
    <3>2. \A a, b, c : a # b => ~To(Store(Field(a, "seal"), c), Field(b, "seal"))
      BY DEF To, Store, Field
    <3> QED BY <3>1, <3>2
  <2> HIDE DEF k, n
  <2> QED BY <2>1, <2>2, <2>3, <2>5 DEF Leaves
<1> QED BY <1>5, <1>6

FinalStores == (Seals \o Counts) \o Announce

LEMMA Final ==
  ASSUME valid_chunks \in 0..ChunkCount, written \in 0..MaxRecords
  PROVE  /\ Seals \in Seq(Entries) /\ Counts \in Seq(Entries) /\ Announce \in Seq(Entries)
         /\ FinalStores \in Seq(Entries)
         /\ \A slot \in 0..(valid_chunks - 1) : Leaves(FinalStores, Field(slot, "seal"), 1)
         /\ Leaves(FinalStores, Field(File, "crc"), 1)
         /\ Leaves(FinalStores, Field(File, "counts"), written)
         /\ \A slot \in Slots, f \in {"magic", "suffix", "cursor", "counts"} :
              Untouched(FinalStores, Field(slot, f))
         /\ \A i \in DOMAIN FinalStores : ~Publishes(FinalStores[i])
         /\ LET n == Len(FinalStores)
            IN  /\ n \in Nat /\ n > 1
                /\ Announces(FinalStores[n]) /\ FinalStores[n - 1] = Barrier
                /\ \A j \in 1..(n - 1) : ~Announces(FinalStores[j])
<1> DEFINE f1 == Store(Field(File, "flags"), FinalFlags)
           f2 == Store(Field(File, "crc"), Torn)
           f3 == Store(Field(File, "crc"), 1)
           f5 == Store(Field(File, "flags"), FinalFlags \union {"finalized"})
           c1 == Store(Field(File, "counts"), written)
<1>1. FinalFlags \in SUBSET Flags /\ FinalFlags \union {"finalized"} \in SUBSET Flags
      /\ "finalized" \notin FinalFlags
  BY DEF FinalFlags, Flags
<1>2. Torn \in -1..MaxRecords /\ 1 \in -1..MaxRecords /\ written \in -1..MaxRecords
  BY PublicationAssumption DEF Torn
<1>3. f1 \in Entries /\ f2 \in Entries /\ f3 \in Entries /\ f5 \in Entries /\ c1 \in Entries
      /\ f1 # Barrier /\ f2 # Barrier /\ f3 # Barrier /\ f5 # Barrier /\ c1 # Barrier
  BY <1>1, <1>2, Fields, StoreEntry
<1>4. /\ f1[1] = Field(File, "flags") /\ f1[2] = FinalFlags
      /\ f2[1] = Field(File, "crc") /\ f3[1] = Field(File, "crc")
      /\ f5[1] = Field(File, "flags") /\ f5[2] = FinalFlags \union {"finalized"}
      /\ c1[1] = Field(File, "counts")
  BY DEF Store
<1> HIDE DEF f1, f2, f3, f5, c1
<1>5. Barrier \in Entries
  BY WrapEntry
<1>6. /\ Counts = <<c1, Barrier>> /\ Announce = <<f1, f2, f3, Barrier, f5>>
      /\ Counts \in Seq(Entries) /\ Announce \in Seq(Entries)
  <2>1. Counts = <<c1, Barrier>> /\ Announce = <<f1, f2, f3, Barrier, f5>>
    BY DEF Counts, Announce, c1, f1, f2, f3, f5
  <2>2. <<c1, Barrier>> \in Seq(Entries) /\ <<f1, f2, f3, Barrier, f5>> \in Seq(Entries)
    BY <1>3, <1>5
  <2> QED BY <2>1, <2>2
<1>7. /\ Len(Counts) = 2 /\ DOMAIN Counts = 1..2 /\ Counts[1] = c1 /\ Counts[2] = Barrier
      /\ Len(Announce) = 5 /\ DOMAIN Announce = 1..5 /\ Announce[1] = f1 /\ Announce[2] = f2
      /\ Announce[3] = f3 /\ Announce[4] = Barrier /\ Announce[5] = f5
  <2>1. \A a, b : Len(<<a, b>>) = 2 /\ DOMAIN <<a, b>> = 1..2
                  /\ <<a, b>>[1] = a /\ <<a, b>>[2] = b
    OBVIOUS
  <2>2. \A a, b, c, d, e :
          LET s == <<a, b, c, d, e>>
          IN  Len(s) = 5 /\ DOMAIN s = 1..5 /\ s[1] = a /\ s[2] = b /\ s[3] = c
              /\ s[4] = d /\ s[5] = e
    OBVIOUS
  <2> QED BY <1>6, <2>1, <2>2
<1>8. Seals \in Seq(SealSet) /\ Seals \in Seq(Entries) /\ \A i \in DOMAIN Seals : Seals[i] \in SealSet
  <2>1. SealSet \subseteq Entries
    BY DEF SealSet
  <2> QED BY <2>1, Sealing, Wider
<1> DEFINE u == Seals \o Counts
           n == Len(u)
<1>9. /\ u \in Seq(Entries) /\ DOMAIN u = 1..n /\ n \in Nat /\ n = Len(Seals) + 2
      /\ Len(Seals) \in Nat
      /\ \A k \in DOMAIN u : (k \in DOMAIN Seals /\ u[k] = Seals[k]) \/ (u[k] \in {c1, Barrier})
  <2>1. /\ u \in Seq(Entries) /\ DOMAIN u = 1..n /\ n \in Nat /\ n = Len(Seals) + 2
        /\ Len(Seals) \in Nat
    BY <1>6, <1>7, <1>8, Concatenated
  <2>2. ASSUME NEW k \in DOMAIN u
        PROVE  (k \in DOMAIN Seals /\ u[k] = Seals[k]) \/ (u[k] \in {c1, Barrier})
    <3>1. k \in DOMAIN Seals \/ (k - Len(Seals) \in DOMAIN Counts /\ k = Len(Seals) + (k - Len(Seals)))
      BY <1>6, <1>8, Concatenated
    <3>2. \A i \in DOMAIN Seals : u[i] = Seals[i]
      BY <1>6, <1>8, Concatenated
    <3>3. \A i \in DOMAIN Counts : u[Len(Seals) + i] = Counts[i]
      BY <1>6, <1>8, Concatenated
    <3>4. \A i \in DOMAIN Counts : Counts[i] \in {c1, Barrier}
      BY <1>7
    <3> QED BY <3>1, <3>2, <3>3, <3>4
  <2> QED BY <2>1, <2>2
<1>10. \A k \in DOMAIN u : u[k] \in SealSet \cup {c1, Barrier}
  BY <1>8, <1>9
<1> HIDE DEF u, n
<1> DEFINE z == u \o Announce
<1>11. /\ z \in Seq(Entries) /\ DOMAIN z = 1..(n + 5) /\ Len(z) = n + 5
       /\ \A i \in 1..n : z[i] = u[i]
       /\ \A i \in 1..5 : z[n + i] = Announce[i]
  BY <1>6, <1>7, <1>9, Concatenated DEF n
<1>12. FinalStores = z
  BY DEF FinalStores, u
<1> HIDE DEF z
<1>13. \A k \in 1..(n + 5) : k \in 1..n \/ (k - n \in 1..5 /\ k = n + (k - n))
  BY <1>9
<1>14. \A k \in DOMAIN z : z[k] \in SealSet \cup {c1, Barrier, f1, f2, f3, f5}
  <2>1. \A i \in 1..5 : Announce[i] \in {f1, f2, f3, f5, Barrier}
    BY <1>7
  <2> QED BY <1>9, <1>10, <1>11, <1>13, <2>1
<1>15. \A slot \in Slots : slot # File
  BY Fields
<1>16. /\ Field(File, "flags")[2] = "flags" /\ Field(File, "crc")[2] = "crc"
       /\ Field(File, "counts")[2] = "counts" /\ Field(File, "counts")[1] = File
       /\ Field(File, "flags")[1] = File /\ Field(File, "crc")[1] = File
  BY FieldParts
<1>17. \A slot \in Slots, f \in {"magic", "suffix", "cursor", "counts"} : Untouched(z, Field(slot, f))
  <2>1. ASSUME NEW slot \in Slots, NEW f \in {"magic", "suffix", "cursor", "counts"},
               NEW e \in SealSet \cup {c1, Barrier, f1, f2, f3, f5}
        PROVE  ~To(e, Field(slot, f))
    <3>1. Field(slot, f)[1] = slot /\ Field(slot, f)[2] = f
      BY FieldParts
    <3> QED BY <1>4, <1>15, <1>16, <3>1 DEF SealSet, To
  <2> QED BY <1>14, <2>1 DEF Untouched
<1>18. \A i \in DOMAIN z : ~Publishes(z[i])
  BY <1>4, <1>14, <1>16 DEF SealSet, Publishes
<1>19. LET m == Len(z)
       IN  /\ m \in Nat /\ m > 1 /\ Announces(z[m]) /\ z[m - 1] = Barrier
           /\ \A j \in 1..(m - 1) : ~Announces(z[j])
  <2> DEFINE m == Len(z)
  <2>1. Announces(f5) /\ ~Announces(f1) /\ ~Announces(f2) /\ ~Announces(f3) /\ ~Announces(Barrier)
        /\ ~Announces(c1)
    BY <1>1, <1>3, <1>4, <1>16 DEF Announces
  <2>2. \A e \in SealSet : ~Announces(e)
    BY <1>16 DEF SealSet, Announces
  <2>3. z[n + 5] = f5 /\ z[n + 4] = Barrier /\ z[n + 1] = f1 /\ z[n + 2] = f2 /\ z[n + 3] = f3
    BY <1>7, <1>11
  <2>4. m = n + 5 /\ n \in Nat
    BY <1>9, <1>11
  <2> HIDE DEF m
  <2>5. /\ m \in Nat /\ m > 1 /\ m - 1 = n + 4
        /\ \A j \in 1..(m - 1) : j \in 1..n \/ j = n + 1 \/ j = n + 2 \/ j = n + 3 \/ j = n + 4
    BY <2>4
  <2>6. \A j \in 1..n : ~Announces(z[j])
    BY <1>9, <1>10, <1>11, <2>1, <2>2
  <2>7. Announces(z[m]) /\ z[m - 1] = Barrier
    BY <2>1, <2>3, <2>4, <2>5
  <2>8. \A j \in 1..(m - 1) : ~Announces(z[j])
    BY <2>1, <2>3, <2>5, <2>6
  <2> QED BY <2>5, <2>7, <2>8 DEF m
<1>20. Leaves(z, Field(File, "crc"), 1)
  <2>1. \A j \in DOMAIN Announce : j > 3 => ~To(Announce[j], Field(File, "crc"))
    <3>1. \A j \in 1..5 : j > 3 => j = 4 \/ j = 5
      OBVIOUS
    <3> QED BY <1>4, <1>7, <1>16, <3>1 DEF To
  <2>2. 3 \in DOMAIN Announce /\ Announce[3] = Store(Field(File, "crc"), 1)
    BY <1>7 DEF f3
  <2>3. Leaves(Announce, Field(File, "crc"), 1)
    BY <2>1, <2>2, Zenon DEF Leaves
  <2> QED BY <1>6, <1>9, <2>3, Pieces DEF z
<1>21. /\ Untouched(Announce, Field(File, "counts"))
       /\ \A slot \in Slots : Untouched(Announce, Field(slot, "seal"))
       /\ \A slot \in Slots : Untouched(Counts, Field(slot, "seal"))
  <2>1. \A i \in 1..5 : Announce[i] \in {f1, f2, f3, f5, Barrier}
    BY <1>7
  <2>2. \A i \in 1..2 : Counts[i] \in {c1, Barrier}
    BY <1>7
  <2>3. \A e \in {f1, f2, f3, f5, Barrier} : ~To(e, Field(File, "counts"))
    BY <1>4, <1>16 DEF To
  <2>4. \A e \in {f1, f2, f3, f5, c1, Barrier}, slot \in Slots : ~To(e, Field(slot, "seal"))
    BY <1>4, <1>15, <1>16, FieldParts DEF To
  <2> QED BY <1>7, <2>1, <2>2, <2>3, <2>4 DEF Untouched
<1>22. Leaves(z, Field(File, "counts"), written)
  <2>1. Leaves(Counts, Field(File, "counts"), written)
    <3>1. 1 \in DOMAIN Counts /\ Counts[1] = Store(Field(File, "counts"), written)
      BY <1>7 DEF c1
    <3>2. \A j \in DOMAIN Counts : j > 1 => ~To(Counts[j], Field(File, "counts"))
      <4>1. \A j \in 1..2 : j > 1 => j = 2
        OBVIOUS
      <4> QED BY <1>7, <4>1 DEF To
    <3> QED BY <3>1, <3>2 DEF Leaves
  <2>2. Leaves(u, Field(File, "counts"), written)
    BY <1>6, <1>8, <2>1, Pieces DEF u
  <2> QED BY <1>6, <1>9, <1>21, <2>2, Pieces DEF z
<1>23. \A slot \in 0..(valid_chunks - 1) : Leaves(z, Field(slot, "seal"), 1)
  <2>1. SUFFICES ASSUME NEW slot \in 0..(valid_chunks - 1) PROVE Leaves(z, Field(slot, "seal"), 1)
    OBVIOUS
  <2>2. slot \in Slots
    BY PublicationAssumption DEF Slots
  <2>3. Leaves(u, Field(slot, "seal"), 1)
    BY <1>6, <1>8, <1>21, <2>2, Sealing, Pieces DEF u
  <2> QED BY <1>6, <1>9, <1>21, <2>2, <2>3, Pieces DEF z
<1> QED BY <1>6, <1>8, <1>11, <1>12, <1>17, <1>18, <1>19, <1>20, <1>22, <1>23, Zenon

----------------------------------------------------------------------------
(* The invariant: where the locations that a finalized buffer vouches for   *)
(* are bound for, whatever of it is visible yet.                            *)
Counters ==
  /\ current_chunk \in Slots \cup {NoChunk} /\ valid_chunks \in 0..ChunkCount
  /\ written \in 0..MaxRecords /\ next_sequence \in 0..written
  /\ used \in 0..ChunkRecords /\ used <= written
  /\ wrapped \in BOOLEAN /\ finalized \in BOOLEAN
  /\ valid_chunks < ChunkCount => current_chunk = valid_chunks - 1
  /\ valid_chunks = ChunkCount => current_chunk \in Slots

ChunkSettles(slot) ==
  /\ Settles(Field(slot, "magic"), TRUE) /\ Settles(Field(slot, "suffix"), TRUE)
  /\ \E p \in 0..MaxRecords : Settles(Field(slot, "cursor"), p) /\ Settles(Field(slot, "counts"), p)

FileSettles ==
  /\ Settles(Field(File, "crc"), 1) /\ Settles(Field(File, "counts"), written)
  /\ \A slot \in 0..(valid_chunks - 1) : Settles(Field(slot, "seal"), 1)

IInv ==
  /\ Memory /\ pending \in Seq(Entries) /\ Counters /\ Accounted
  /\ \A slot \in 0..(valid_chunks - 1) : ChunkSettles(slot)
  /\ ~finalized => Silent(pending) /\ "finalized" \notin FileFlags
  /\ finalized => FileSettles /\ (Announcing \/ pending = <<>>)

LEMMA InitIInv == Init => IInv
<1> SUFFICES ASSUME Init PROVE IInv
  OBVIOUS
<1>0. \A where \in Locations :
        /\ where[2] = "flags" => memory[where] = {}
        /\ where[2] \in {"magic", "suffix"} => memory[where] = FALSE
        /\ where[2] \notin {"flags", "magic", "suffix"} => memory[where] = 0
  BY DEF Init
<1>1. Memory
  <2>1. \A where \in Locations : memory[where] \in ValuesOf(where)
    <3>1. 0 \in -1..MaxRecords /\ FALSE \in BOOLEAN /\ {} \in SUBSET Flags
      BY PublicationAssumption
    <3> QED BY <1>0, <3>1 DEF ValuesOf
  <2>2. memory = [where \in Locations |-> memory[where]]
    BY DEF Init
  <2>3. \A where \in Locations : memory[where] \in AnyValue
    BY <2>1 DEF AnyValue
  <2> QED BY <2>1, <2>2, <2>3 DEF Memory
<1>2. pending = <<>> /\ pending \in Seq(Entries) /\ DOMAIN pending = {}
  BY EmptySeq DEF Init
<1>3. Counters
  <2>1. /\ current_chunk = -1 /\ valid_chunks = 0 /\ next_sequence = 0 /\ used = 0
        /\ wrapped = FALSE /\ finalized = FALSE /\ written = 0
    BY DEF Init, NoChunk
  <2>2. ChunkCount \in Nat /\ ChunkCount # 0 /\ ChunkRecords \in Nat /\ MaxRecords \in Nat
    BY PublicationAssumption
  <2>3. wrapped \in BOOLEAN /\ finalized \in BOOLEAN
    BY <2>1
  <2>4. current_chunk \in Slots \cup {NoChunk}
    BY <2>1 DEF NoChunk
  <2>5. /\ valid_chunks \in 0..ChunkCount /\ written \in 0..MaxRecords
        /\ next_sequence \in 0..written /\ used \in 0..ChunkRecords /\ used <= written
        /\ current_chunk = valid_chunks - 1 /\ valid_chunks # ChunkCount
    BY <2>1, <2>2
  <2> QED BY <2>3, <2>4, <2>5 DEF Counters
<1>4. Accounted
  <2>1. Publishing = {}
    BY <1>2 DEF Publishing
  <2> QED BY <2>1, FS_EmptySet DEF Init, Accounted
<1>5. valid_chunks = 0 /\ ~finalized
  BY DEF Init
<1>6. Silent(pending)
  BY <1>2 DEF Silent
<1>7. FileFlags = {}
  BY <1>0, Fields, FieldParts DEF FileFlags
<1> QED BY <1>1, <1>2, <1>3, <1>4, <1>5, <1>6, <1>7 DEF IInv

(* Stores that a call adds keep what is accounted for.                      *)
LEMMA AppendAccounted ==
  ASSUME pending \in Seq(Entries), NEW z \in Seq(Entries), pending' = pending \o z,
         Accounted, published' = published
  PROVE  /\ (\A i \in DOMAIN z : ~Publishes(z[i])) => (written' = written => Accounted')
         /\ (\E k \in DOMAIN z : \A i \in DOMAIN z : Publishes(z[i]) <=> i = k) =>
              (written' = written + 1 => Accounted')
<1> DEFINE n == Len(pending)
<1>1. /\ n \in Nat /\ DOMAIN pending = 1..n /\ DOMAIN z = 1..Len(z) /\ Len(z) \in Nat
      /\ DOMAIN pending' = 1..(n + Len(z))
      /\ \A i \in DOMAIN pending : i \in DOMAIN pending' /\ pending'[i] = pending[i]
      /\ \A i \in DOMAIN z : n + i \in DOMAIN pending' /\ pending'[n + i] = z[i]
      /\ \A k \in DOMAIN pending' : k \in DOMAIN pending \/ (k - n \in DOMAIN z /\ k = n + (k - n))
  BY Concatenated
<1> HIDE DEF n
<1>2. Publishing' = {i \in DOMAIN pending' : Publishes(pending'[i])}
  BY DEF Publishing, Publishes, Barrier
<1>3. /\ IsFiniteSet(Publishing) /\ Cardinality(Publishing) \in Nat /\ published \in Nat
      /\ published + Cardinality(Publishing) = written
  BY FS_CardinalityType DEF Accounted
<1>4. ASSUME \A i \in DOMAIN z : ~Publishes(z[i]), written' = written PROVE Accounted'
  <2>1. Publishing' = Publishing
    <3>1. \A i : i \in Publishing' => i \in Publishing
      BY <1>1, <1>2, <1>4 DEF Publishing
    <3>2. \A i : i \in Publishing => i \in Publishing'
      BY <1>1, <1>2 DEF Publishing
    <3> QED BY <3>1, <3>2
  <2> QED BY <1>3, <1>4, <2>1 DEF Accounted
<1>5. ASSUME NEW k \in DOMAIN z, \A i \in DOMAIN z : Publishes(z[i]) <=> i = k,
             written' = written + 1
      PROVE  Accounted'
  <2>1. n + k \in Publishing' /\ n + k \notin Publishing
    BY <1>1, <1>2, <1>5 DEF Publishing
  <2>2. \A i : i \in Publishing' => i \in Publishing \cup {n + k}
    BY <1>1, <1>2, <1>5 DEF Publishing
  <2>3. \A i : i \in Publishing => i \in Publishing'
    BY <1>1, <1>2 DEF Publishing
  <2>4. Publishing' = Publishing \cup {n + k}
    BY <2>1, <2>2, <2>3
  <2>5. /\ IsFiniteSet(Publishing \cup {n + k})
        /\ Cardinality(Publishing \cup {n + k}) = Cardinality(Publishing) + 1
    BY <1>3, <2>1, FS_AddElement
  <2> QED BY <1>3, <1>5, <2>4, <2>5 DEF Accounted
<1> QED BY <1>4, <1>5

LEMMA VisibleIInv ==
  ASSUME IInv, NEW i \in Ready, BecomeVisible(i)
  PROVE  IInv'
<1>1. Memory /\ pending \in Seq(Entries) /\ Counters /\ Accounted
  BY DEF IInv
<1>2. pending' \in Seq(Entries)
  BY <1>1, RemovalStep DEF Removal
<1>3. /\ current_chunk' = current_chunk /\ valid_chunks' = valid_chunks
      /\ next_sequence' = next_sequence /\ used' = used /\ wrapped' = wrapped
      /\ finalized' = finalized /\ written' = written
  BY DEF BecomeVisible
<1>4. Counters'
  BY <1>1, <1>3 DEF Counters
<1>5. Memory' /\ Accounted'
  BY <1>1, MemoryStep, VisibleAccounted
<1>6. \A where \in Locations : \A what : Settles(where, what) => Settles(where, what)'
  BY <1>1, VisibleSettles
<1>7. ASSUME NEW slot \in 0..(valid_chunks - 1), ChunkSettles(slot) PROVE ChunkSettles(slot)'
  <2>1. slot \in Slots
    BY <1>1, PublicationAssumption DEF Counters, Slots
  <2>2. /\ Field(slot, "magic") \in Locations /\ Field(slot, "suffix") \in Locations
        /\ Field(slot, "cursor") \in Locations /\ Field(slot, "counts") \in Locations
    BY <2>1, Fields
  <2> QED BY <1>6, <1>7, <2>2 DEF ChunkSettles, Field
<1>8. ASSUME FileSettles PROVE FileSettles'
  <2>1. Settles(Field(File, "crc"), 1)' /\ Settles(Field(File, "counts"), written)'
    <3>1. Settles(Field(File, "crc"), 1)' /\ Settles(Field(File, "counts"), written)
      BY <1>6, <1>8, Fields DEF FileSettles, Field, File
    <3>2. \A what : Settles(Field(File, "counts"), what) => Settles(Field(File, "counts"), what)'
      BY <1>6, Fields DEF Field, File
    <3>3. PICK w : w = written
      OBVIOUS
    <3>4. Settles(Field(File, "counts"), w)'
      BY <3>1, <3>2, <3>3
    <3> QED BY <1>3, <3>1, <3>3, <3>4 DEF Settles, Leaves
  <2>2. ASSUME NEW slot \in 0..(valid_chunks - 1) PROVE Settles(Field(slot, "seal"), 1)'
    <3>1. slot \in Slots
      BY <1>1, PublicationAssumption DEF Counters, Slots
    <3> QED BY <1>6, <1>8, <3>1, Fields DEF FileSettles, Field
  <2> QED BY <1>3, <2>1, <2>2 DEF FileSettles
<1>9. (~finalized => Silent(pending) /\ "finalized" \notin FileFlags)
      => (~finalized' => Silent(pending') /\ "finalized" \notin FileFlags')
  BY <1>1, <1>3, VisibleAnnouncing
<1>10. ASSUME finalized, Announcing \/ pending = <<>> PROVE Announcing' \/ pending' = <<>>
  <2>1. pending # <<>>
    BY <1>1, EmptySeq, LenProperties DEF Ready
  <2> QED BY <1>1, <1>10, <2>1, VisibleAnnouncing
<1>11. \A slot \in 0..(valid_chunks' - 1) : ChunkSettles(slot)'
  BY <1>3, <1>7 DEF IInv
<1>12. Silent(pending') = Silent(pending)'
  BY DEF Silent, Announces, Barrier, Field, File
<1> QED BY <1>2, <1>3, <1>4, <1>5, <1>8, <1>9, <1>10, <1>11, <1>12 DEF IInv

LEMMA WriteIInv ==
  ASSUME IInv, NEW fresh \in BOOLEAN, WriteRecord(fresh)
  PROVE  IInv'
(* The values of this step, which a prime leaves alone.                     *)
<1>a. PICK slot : slot = IF fresh THEN NextSlot ELSE current_chunk
  OBVIOUS
<1>b. PICK position : position = IF fresh THEN 1 ELSE used + 1
  OBVIOUS
<1>c. PICK z : z = RecordStores(fresh, slot, position)
  OBVIOUS
<1>1. Memory /\ pending \in Seq(Entries) /\ Counters /\ Accounted
  BY DEF IInv
<1>2. /\ ~finalized /\ written < MaxRecords
      /\ fresh \/ (current_chunk # NoChunk /\ used < ChunkRecords)
      /\ pending' = pending \o (IF fresh THEN StartStores(slot) ELSE <<>>)
                            \o CommitStores(slot, position, written + 1)
      /\ written' = written + 1 /\ used' = position
      /\ fresh => /\ current_chunk' = slot /\ next_sequence' = next_sequence + 1
                  /\ valid_chunks = ChunkCount => wrapped' = TRUE /\ valid_chunks' = valid_chunks
                  /\ valid_chunks # ChunkCount =>
                       valid_chunks' = valid_chunks + 1 /\ wrapped' = wrapped
      /\ ~fresh => /\ current_chunk' = current_chunk /\ next_sequence' = next_sequence
                   /\ valid_chunks' = valid_chunks /\ wrapped' = wrapped
      /\ memory' = memory /\ finalized' = finalized /\ published' = published
  BY <1>a, <1>b DEF WriteRecord
<1>3. /\ ChunkCount \in Nat \ {0} /\ ChunkRecords \in Nat \ {0} /\ MaxRecords \in Nat \ {0}
      /\ Slots = 0..(ChunkCount - 1) /\ Positions = 1..ChunkRecords /\ NoChunk = -1
  BY PublicationAssumption DEF Slots, Positions, NoChunk
<1>4. /\ slot \in Slots /\ slot <= valid_chunks
      /\ ~fresh => slot < valid_chunks
      /\ fresh /\ valid_chunks < ChunkCount => slot = valid_chunks
      /\ \A s \in 0..(valid_chunks' - 1) : s # slot => s \in 0..(valid_chunks - 1)
      /\ slot # NoChunk
  <2>1. CASE fresh
    <3>1. slot = NextSlot
      BY <1>a, <2>1
    <3> QED BY <1>1, <1>2, <1>3, <2>1, <3>1 DEF Counters, NextSlot
  <2>2. CASE ~fresh
    BY <1>a, <1>1, <1>2, <1>3, <2>2 DEF Counters
  <2> QED BY <2>1, <2>2
<1>5. /\ position \in Positions /\ position <= MaxRecords /\ position <= written + 1
      /\ written + 1 \in 1..MaxRecords /\ next_sequence \in 0..MaxRecords
  BY <1>b, <1>1, <1>2, <1>3 DEF Counters
<1>6. /\ z \in Seq(Entries) /\ Silent(z)
      /\ Leaves(z, Field(slot, "cursor"), position)
      /\ Leaves(z, Field(slot, "counts"), position)
      /\ fresh => /\ Leaves(z, Field(slot, "magic"), TRUE)
                  /\ Leaves(z, Field(slot, "suffix"), TRUE)
      /\ ~fresh => /\ Untouched(z, Field(slot, "magic"))
                   /\ Untouched(z, Field(slot, "suffix"))
      /\ \A other \in Slots \ {slot} : \A f : Untouched(z, Field(other, f))
      /\ \E k \in DOMAIN z : \A i \in DOMAIN z : Publishes(z[i]) <=> i = k
  BY <1>c, <1>4, <1>5, Record
<1>7. pending' = pending \o z
  <2> DEFINE x == IF fresh THEN StartStores(slot) ELSE <<>>
             y == CommitStores(slot, position, written + 1)
  <2>1. x \in Seq(Entries)
    BY <1>4, <1>5, Start, EmptySeq
  <2>2. y \in Seq(Entries)
    BY <1>4, <1>5, Commit
  <2>3. pending' = (pending \o x) \o y /\ z = x \o y
    BY <1>c, <1>2 DEF RecordStores
  <2> HIDE DEF x, y
  <2> QED BY <1>1, <2>1, <2>2, <2>3, ConcatAssociative
<1>8. pending' \in Seq(Entries)
  BY <1>1, <1>6, <1>7, ConcatProperties
<1>9. Memory'
  BY <1>1, <1>2 DEF Memory
<1>10. Accounted'
  BY <1>1, <1>2, <1>6, <1>7, AppendAccounted
<1>11. Counters'
  <2>1. written' \in 0..MaxRecords /\ used' \in 0..ChunkRecords /\ used' <= written'
    BY <1>1, <1>2, <1>3, <1>5 DEF Counters
  <2>2. next_sequence' \in 0..written'
    BY <1>1, <1>2 DEF Counters
  <2>3. current_chunk' \in Slots /\ valid_chunks' \in 0..ChunkCount
    BY <1>1, <1>2, <1>3, <1>4 DEF Counters
  <2>4. wrapped' \in BOOLEAN /\ finalized' \in BOOLEAN
    BY <1>1, <1>2 DEF Counters
  <2>5. valid_chunks' < ChunkCount => current_chunk' = valid_chunks' - 1
    <3>1. CASE fresh
      BY <1>1, <1>2, <1>3, <1>4, <3>1 DEF Counters
    <3>2. CASE ~fresh
      BY <1>1, <1>2, <3>2 DEF Counters
    <3> QED BY <3>1, <3>2
  <2> QED BY <2>1, <2>2, <2>3, <2>4, <2>5 DEF Counters
<1>12. Silent(pending') /\ "finalized" \notin FileFlags'
  <2>1. Silent(pending) /\ "finalized" \notin FileFlags
    BY <1>2 DEF IInv
  <2>2. Silent(pending')
    <3>1. SUFFICES ASSUME NEW k \in DOMAIN (pending \o z) PROVE ~Announces((pending \o z)[k])
      BY <1>7 DEF Silent
    <3>2. \/ k \in DOMAIN pending
          \/ k - Len(pending) \in DOMAIN z /\ k = Len(pending) + (k - Len(pending))
      BY <1>1, <1>6, Concatenated
    <3>3. /\ \A i \in DOMAIN pending : (pending \o z)[i] = pending[i]
          /\ \A i \in DOMAIN z : (pending \o z)[Len(pending) + i] = z[i]
      BY <1>1, <1>6, Concatenated
    <3> QED BY <1>6, <2>1, <3>2, <3>3 DEF Silent
  <2>3. FileFlags' = FileFlags
    BY <1>2 DEF FileFlags, Field, File
  <2> QED BY <2>1, <2>2, <2>3
<1>13. \A where, what : /\ Leaves(z, where, what) => Settles(where, what)'
                        /\ Settles(where, what) /\ Untouched(z, where) => Settles(where, what)'
  BY <1>1, <1>2, <1>6, <1>7, AppendSettles
<1>14. ASSUME NEW s \in 0..(valid_chunks' - 1) PROVE ChunkSettles(s)'
  <2>1. CASE s = slot
    <3>1. Settles(Field(slot, "magic"), TRUE)' /\ Settles(Field(slot, "suffix"), TRUE)'
      <4>1. CASE fresh
        BY <1>6, <1>13, <4>1
      <4>2. CASE ~fresh
        <5>1. ChunkSettles(slot)
          BY <1>1, <1>3, <1>4, <4>2 DEF IInv, Counters
        <5> QED BY <1>6, <1>13, <4>2, <5>1 DEF ChunkSettles
      <4> QED BY <4>1, <4>2
    <3>2. Settles(Field(slot, "cursor"), position)' /\ Settles(Field(slot, "counts"), position)'
      BY <1>6, <1>13
    <3>3. position \in 0..MaxRecords
      BY <1>3, <1>5
    <3> QED BY <2>1, <3>1, <3>2, <3>3 DEF ChunkSettles
  <2>2. CASE s # slot
    <3>1. s \in Slots \ {slot} /\ ChunkSettles(s)
      BY <1>1, <1>3, <1>4, <2>2 DEF IInv, Counters
    <3>2. \A f : Untouched(z, Field(s, f))
      BY <1>6, <3>1
    <3> QED BY <1>13, <3>1, <3>2 DEF ChunkSettles
  <2> QED BY <2>1, <2>2
<1>15. Silent(pending') = Silent(pending)'
  BY DEF Silent, Announces, Barrier, Field, File
<1> QED BY <1>2, <1>8, <1>9, <1>10, <1>11, <1>12, <1>14, <1>15 DEF IInv

LEMMA FinalizeIInv ==
  ASSUME IInv, Finalize
  PROVE  IInv'
<1>1. Memory /\ pending \in Seq(Entries) /\ Counters /\ Accounted
  BY DEF IInv
(* The values of this step, which a prime leaves alone.                     *)
<1>a. PICK z : z = FinalStores
  OBVIOUS
<1>b. PICK records : records = written
  OBVIOUS
<1>2. /\ pending' = pending \o Seals \o Counts \o Announce
      /\ finalized' = TRUE /\ memory' = memory
      /\ current_chunk' = current_chunk /\ valid_chunks' = valid_chunks
      /\ next_sequence' = next_sequence /\ used' = used /\ wrapped' = wrapped
      /\ written' = written /\ published' = published
  BY DEF Finalize, Seals, Counts
<1>3. valid_chunks \in 0..ChunkCount /\ written \in 0..MaxRecords
  BY <1>1 DEF Counters
<1>4. /\ Seals \in Seq(Entries) /\ Counts \in Seq(Entries) /\ Announce \in Seq(Entries)
      /\ z \in Seq(Entries)
      /\ \A slot \in 0..(valid_chunks - 1) : Leaves(z, Field(slot, "seal"), 1)
      /\ Leaves(z, Field(File, "crc"), 1)
      /\ Leaves(z, Field(File, "counts"), records)
      /\ \A slot \in Slots, f \in {"magic", "suffix", "cursor", "counts"} :
           Untouched(z, Field(slot, f))
      /\ \A i \in DOMAIN z : ~Publishes(z[i])
  BY <1>3, <1>a, <1>b, Final
<1>5. LET n == Len(z)
      IN  /\ n \in Nat /\ n > 1 /\ Announces(z[n]) /\ z[n - 1] = Barrier
          /\ \A j \in 1..(n - 1) : ~Announces(z[j])
  BY <1>3, <1>a, Final
<1>6. pending' = pending \o z
  <2>1. pending \o Seals \in Seq(Entries) /\ Seals \o Counts \in Seq(Entries)
    BY <1>1, <1>4, ConcatProperties
  <2>0. \A a, b, c \in Seq(Entries) : (a \o b) \o c = a \o (b \o c)
    BY ConcatAssociative
  <2>2. (pending \o Seals) \o Counts = pending \o (Seals \o Counts)
    BY <1>1, <1>4, <2>0, Zenon
  <2>3. (pending \o (Seals \o Counts)) \o Announce = pending \o ((Seals \o Counts) \o Announce)
    BY <1>1, <1>4, <2>0, <2>1, Zenon
  <2> QED BY <1>2, <1>a, <2>2, <2>3 DEF FinalStores
<1>7. pending' \in Seq(Entries)
  BY <1>1, <1>4, <1>6, ConcatProperties
<1>8. Memory' /\ Counters'
  BY <1>1, <1>2 DEF Memory, Counters
<1>9. Accounted'
  BY <1>1, <1>2, <1>4, <1>6, AppendAccounted
<1>10. \A where, what : /\ Leaves(z, where, what) => Settles(where, what)'
                        /\ Settles(where, what) /\ Untouched(z, where) => Settles(where, what)'
  BY <1>1, <1>2, <1>4, <1>6, AppendSettles
<1>11. ASSUME NEW slot \in 0..(valid_chunks - 1) PROVE ChunkSettles(slot)'
  <2>1. slot \in Slots
    BY <1>3, PublicationAssumption DEF Slots
  <2>2. ChunkSettles(slot)
    BY <1>11 DEF IInv
  <2> QED BY <1>4, <1>10, <2>1, <2>2 DEF ChunkSettles
<1>12. FileSettles'
  <2>1. Settles(Field(File, "crc"), 1)' /\ Settles(Field(File, "counts"), records)'
    BY <1>4, <1>10
  <2>2. \A slot \in 0..(valid_chunks' - 1) : Settles(Field(slot, "seal"), 1)'
    BY <1>2, <1>4, <1>10
  <2> QED BY <1>2, <1>b, <2>1, <2>2 DEF FileSettles, Settles, Leaves
<1>13. Announcing'
  <2>1. Silent(pending) /\ "finalized" \notin FileFlags
    BY DEF IInv, Finalize
  <2> DEFINE n == Len(z)
             p == Len(pending)
             q == pending'
             m == Len(pending')
  <2>2. /\ p \in Nat /\ m = p + n /\ DOMAIN pending = 1..p /\ DOMAIN z = 1..n
        /\ \A i \in 1..p : q[i] = pending[i]
        /\ \A i \in 1..n : q[p + i] = z[i]
    BY <1>1, <1>4, <1>6, Concatenated
  <2>3. /\ n \in Nat /\ n > 1 /\ Announces(z[n]) /\ z[n - 1] = Barrier
        /\ \A j \in 1..(n - 1) : ~Announces(z[j])
    BY <1>5
  <2>4. "finalized" \notin FileFlags'
    BY <1>2, <2>1 DEF FileFlags, Field, File
  <2> HIDE DEF n, p, m, q
  <2>5. q[m] = z[n] /\ q[m - 1] = z[n - 1] /\ m >= 1
    <3>1. n \in 1..n /\ n - 1 \in 1..n /\ m = p + n /\ m - 1 = p + (n - 1) /\ m >= 1
      BY <2>2, <2>3
    <3> QED BY <2>2, <3>1
  <2>6. \A j \in 1..(m - 1) : ~Announces(q[j])
    <3>1. SUFFICES ASSUME NEW j \in 1..(m - 1) PROVE ~Announces(q[j])
      OBVIOUS
    <3>2. CASE j \in 1..p
      BY <2>1, <2>2, <3>2 DEF Silent
    <3>3. CASE j \notin 1..p
      <4>1. j - p \in 1..(n - 1) /\ j - p \in 1..n /\ j = p + (j - p)
        BY <2>2, <2>3, <3>3
      <4> QED BY <2>2, <2>3, <4>1
    <3> QED BY <3>2, <3>3
  <2> QED BY <2>3, <2>4, <2>5, <2>6 DEF Announcing, Announces, q, m, Barrier, Field, File
<1> QED BY <1>2, <1>7, <1>8, <1>9, <1>11, <1>12, <1>13 DEF IInv

LEMMA StutterIInv ==
  ASSUME IInv, UNCHANGED vars
  PROVE  IInv'
<1>1. /\ memory' = memory /\ pending' = pending /\ current_chunk' = current_chunk
      /\ valid_chunks' = valid_chunks /\ next_sequence' = next_sequence /\ used' = used
      /\ wrapped' = wrapped /\ finalized' = finalized /\ written' = written
      /\ published' = published
  BY DEF vars
<1>2. Memory' /\ Counters' /\ Accounted' /\ pending' \in Seq(Entries)
  BY <1>1 DEF IInv, Memory, Counters, Accounted, Publishing, Publishes, Barrier
<1>3. \A where, what : Settles(where, what) => Settles(where, what)'
  BY <1>1 DEF Settles, Leaves, Untouched
<1>4. \A slot : ChunkSettles(slot) => ChunkSettles(slot)'
  BY <1>3 DEF ChunkSettles
<1>5. FileSettles => FileSettles'
  BY <1>1 DEF FileSettles, Settles, Leaves, Untouched
<1>6. Announcing => Announcing'
  BY <1>1 DEF Announcing, Announces, FileFlags
<1>7. Silent(pending) => Silent(pending)'
  BY <1>1 DEF Silent, Announces
<1>8. FileFlags' = FileFlags
  BY <1>1 DEF FileFlags
<1> QED BY <1>1, <1>2, <1>4, <1>5, <1>6, <1>7, <1>8 DEF IInv

LEMMA Induction == Spec => []IInv
<1>1. Init => IInv
  BY InitIInv
<1>2. IInv /\ [Next]_vars => IInv'
  BY VisibleIInv, WriteIInv, FinalizeIInv, StutterIInv DEF Next
<1> QED BY <1>1, <1>2, PTL DEF Spec

----------------------------------------------------------------------------
(* What is settled is what a snapshot reads once nothing is pending.        *)
LEMMA Settled ==
  ASSUME pending = <<>>, NEW where, NEW what, Settles(where, what)
  PROVE  memory[where] = what
BY DEF Settles, Leaves

(* The finalized bit of the header vouches for the header CRC, every        *)
(* chunk's CRC, the counts and the whole payload: it is never visible       *)
(* before them (rbct_writer_finalize), in whatever order the stores between *)
(* two barriers become visible, and whatever calls came before.             *)
THEOREM FinalizedIsComplete == Spec => []FinalizedMeansComplete
<1>1. IInv => FinalizedMeansComplete
  <2>1. SUFFICES ASSUME IInv, "finalized" \in FileFlags PROVE FinalizedMeansComplete
    BY DEF FinalizedMeansComplete
  <2>2. finalized /\ pending = <<>> /\ FileSettles
    BY <2>1 DEF IInv, Announcing
  <2>3. memory[Field(File, "crc")] = 1 /\ memory[Field(File, "counts")] = written
    BY <2>2, Settled DEF FileSettles
  <2>4. ASSUME NEW slot \in 0..(valid_chunks - 1)
        PROVE  Readable(slot) /\ memory[Field(slot, "counts")] = memory[Field(slot, "cursor")]
    <3>1. ChunkSettles(slot) /\ Settles(Field(slot, "seal"), 1)
      BY <2>1, <2>2 DEF IInv, FileSettles
    <3>2. memory[Field(slot, "magic")] = TRUE /\ memory[Field(slot, "suffix")] = TRUE
      BY <2>2, <3>1, Settled DEF ChunkSettles
    <3>3. memory[Field(slot, "seal")] = 1
      BY <2>2, <3>1, Settled
    <3>4. \E p \in 0..MaxRecords : memory[Field(slot, "cursor")] = p /\ memory[Field(slot, "counts")] = p
      BY <2>2, <3>1, Settled DEF ChunkSettles
    <3> QED BY <3>2, <3>3, <3>4 DEF Readable
  <2>5. published = written
    <3>1. Publishing = {}
      BY <2>2 DEF Publishing
    <3> QED BY <2>1, <3>1, FS_EmptySet DEF IInv, Accounted
  <2> QED BY <2>3, <2>4, <2>5 DEF FinalizedMeansComplete
<1> QED BY <1>1, Induction, PTL

(* Every location holds values of its kind in any snapshot, every pending   *)
(* store has a location, and no record is published before it is written.   *)
THEOREM PublicationTypeOK == Spec => []TypeOK
<1>1. IInv => TypeOK
  <2>1. SUFFICES ASSUME IInv PROVE TypeOK
    OBVIOUS
  <2>2. Memory /\ pending \in Seq(Entries) /\ Counters /\ Accounted
    BY <2>1 DEF IInv
  <2>3. DOMAIN memory = Locations
    BY <2>2 DEF Memory
  <2>4. \A where \in Locations :
          CASE where[2] = "flags" -> memory[where] \subseteq {"wrapped", "crc", "finalized"}
            [] where[2] \in {"magic", "suffix"} -> memory[where] \in BOOLEAN
            [] OTHER -> memory[where] \in -1..MaxRecords
    <3>1. \A where \in Locations : memory[where] \in ValuesOf(where)
      BY <2>2 DEF Memory
    <3> QED BY <3>1 DEF ValuesOf, Flags
  <2>5. \A i \in DOMAIN pending : pending[i] = Barrier \/ pending[i][1] \in Locations
    <3>1. \A i \in DOMAIN pending : pending[i] \in Entries
      BY <2>2, ElementOfSeq, LenProperties
    <3> QED BY <3>1, EntryParts
  <2>6. published \in 0..written
    <3>1. Cardinality(Publishing) \in Nat
      BY <2>2, FS_CardinalityType DEF Accounted
    <3> QED BY <2>2, <3>1 DEF Accounted
  <2>7. next_sequence \in 0..MaxRecords
    BY <2>2, PublicationAssumption DEF Counters
  <2> QED BY <2>2, <2>3, <2>4, <2>5, <2>6, <2>7 DEF TypeOK, Counters
<1> QED BY <1>1, Induction, PTL

----------------------------------------------------------------------------
(* What is recovered.                                                      *)
(*                                                                         *)
(* A store is named by a label: the number of its record, the step of the  *)
(* call that makes it and an index.  Where and What say what a label       *)
(* stores; Stage counts the barriers before it.  The invariant, SnapInv:   *)
(* the stores issued are those of the records written, the pending ones    *)
(* are their end in program order (Queue), with a barrier between any two  *)
(* of different stages, and the others are visible.  Hence the visible     *)
(* ones are closed under earlier stages and under older stores to the same *)
(* place (Closed), and the memory holds the newest of them of each place   *)
(* (Imaged).  From that, what the fields of a chunk say (View), and what   *)
(* reading the chunks in order yields: Run, the records from the first of  *)
(* the oldest chunk still mapped up to the last one published.             *)
(* The refinement: one more visible store leaves that run, makes it one    *)
(* record longer or takes a chunk's records from its front (WindowMoves).  *)

(* The stores of a record: a label is its number, a step of the call that   *)
(* wrote it, and an index where there are several stores of one step.       *)
(* Record r went to place d[r] of chunk c[r]; what is finalized counts as   *)
(* one more record.                                                         *)
FieldOf ==
  [wrap |-> "flags", invalid |-> "magic", zero |-> "body", suffix0 |-> "suffix",
   cursor0 |-> "cursor", counts0 |-> "counts", sequence0 |-> "sequence",
   sequence |-> "sequence", suffix |-> "suffix", magic |-> "magic", torn |-> "body",
   body |-> "body", cursor |-> "cursor", counts |-> "counts", seal0 |-> "seal",
   seal |-> "seal", total |-> "counts", announce |-> "flags", crc0 |-> "crc", crc |-> "crc",
   finalized |-> "flags"]
OrderOf ==
  [wrap |-> 0, invalid |-> 1, zero |-> 2, suffix0 |-> 3, cursor0 |-> 4, counts0 |-> 5,
   sequence0 |-> 6, sequence |-> 7, suffix |-> 8, magic |-> 9, torn |-> 10, body |-> 11,
   cursor |-> 12, counts |-> 13, seal0 |-> 0, seal |-> 1, total |-> 2, announce |-> 3,
   crc0 |-> 4, crc |-> 5, finalized |-> 6]

CommitSteps == {"torn", "body", "cursor", "counts"}
ClearSteps  == {"suffix0", "cursor0", "counts0", "sequence0", "sequence", "suffix"}
FileSteps   == {"total", "announce", "crc0", "crc", "finalized"}
SealSteps   == {"seal0", "seal"}
Steps == {"wrap", "invalid", "zero", "magic"} \cup CommitSteps \cup ClearSteps
           \cup FileSteps \cup SealSteps
Labels == Nat \X Steps \X Nat

SlotOf(s) == s % ChunkCount
Where(c, d, e) ==
  <<IF e[2] \in FileSteps \cup {"wrap"} THEN File
    ELSE IF e[2] \in SealSteps THEN e[3] ELSE SlotOf(c[e[1]]),
    FieldOf[e[2]],
    IF e[2] = "zero" THEN e[3] ELSE IF e[2] \in {"torn", "body"} THEN d[e[1]] ELSE 0>>

FlagsAt(c, r) ==
  {"crc"} \cup (IF r > 1 /\ c[r - 1] >= ChunkCount THEN {"wrapped"} ELSE {})
What(c, d, e) ==
  IF e[2] \in {"sequence0", "torn", "seal0", "crc0"} THEN Torn
  ELSE IF e[2] \in {"zero", "cursor0", "counts0"} THEN 0
  ELSE IF e[2] \in {"invalid", "suffix0"} THEN FALSE
  ELSE IF e[2] \in {"magic", "suffix"} THEN TRUE
  ELSE IF e[2] \in {"cursor", "counts"} THEN d[e[1]]
  ELSE IF e[2] \in {"seal", "crc"} THEN 1
  ELSE IF e[2] = "sequence" THEN c[e[1]]
  ELSE IF e[2] = "body" THEN e[1]
  ELSE IF e[2] = "total" THEN e[1] - 1
  ELSE IF e[2] = "wrap" THEN {"wrapped"}
  ELSE IF e[2] = "announce" THEN FlagsAt(c, e[1])
  ELSE FlagsAt(c, e[1]) \cup {"finalized"}
Entry(c, d, e) == IF e = Barrier THEN Barrier ELSE Store(Where(c, d, e), What(c, d, e))
Mapped(c, d, q) == [i \in 1..Len(q) |-> Entry(c, d, q[i])]

(* Between stores of different stages there is a barrier.                   *)
Level(c, d, e) ==
  IF e[2] \in SealSteps \cup {"wrap", "total"} THEN 0
  ELSE IF e[2] = "invalid" THEN IF c[e[1]] = ChunkCount THEN 1 ELSE 0
  ELSE IF e[2] \in ClearSteps \cup {"zero"} THEN 2
  ELSE IF e[2] = "magic" THEN 3
  ELSE IF e[2] \in {"torn", "body"} THEN IF d[e[1]] = 1 THEN 3 ELSE 0
  ELSE IF e[2] \in {"cursor", "counts"} THEN 5
  ELSE IF e[2] = "finalized" THEN 2
  ELSE 1
Stage(c, d, e) == 5 * e[1] + Level(c, d, e)
Older(e, f) == e[1] < f[1] \/ (e[1] = f[1] /\ OrderOf[e[2]] < OrderOf[f[2]])

(* What has been issued.                                                    *)
OfRecord(c, d, e) ==
  \/ e[2] \in CommitSteps /\ e[3] = 0
  \/ d[e[1]] = 1 /\ e[2] \in ClearSteps \cup {"invalid", "magic"} /\ e[3] = 0
  \/ d[e[1]] = 1 /\ e[2] = "zero" /\ e[3] \in Positions
  \/ d[e[1]] = 1 /\ e[2] = "wrap" /\ c[e[1]] = ChunkCount /\ e[3] = 0
OfFile(e, v) == \/ e[2] \in FileSteps /\ e[3] = 0
                \/ e[2] \in SealSteps /\ e[3] \in 0..(v - 1)
Issued(c, d, w, v, fin) ==
  {e \in Labels : \/ e[1] \in 1..w /\ OfRecord(c, d, e)
                  \/ fin /\ e[1] = w + 1 /\ OfFile(e, v)}

LEMMA StepParts ==
  /\ \A s \in Steps : OrderOf[s] \in 0..13
  /\ \A s \in Steps : FieldOf[s] = "flags" => s \in {"wrap", "announce", "finalized"}
  /\ \A s \in Steps : FieldOf[s] = "magic" => s \in {"invalid", "magic"}
  /\ \A s \in Steps : FieldOf[s] = "suffix" => s \in {"suffix0", "suffix"}
  /\ \A s \in Steps : FieldOf[s] = "sequence" => s \in {"sequence0", "sequence"}
  /\ \A s \in Steps : FieldOf[s] = "cursor" => s \in {"cursor0", "cursor"}
  /\ \A s \in Steps : FieldOf[s] = "body" => s \in {"zero", "torn", "body"}
  /\ \A s \in Steps : FieldOf[s] = "seal" => s \in SealSteps
BY DEF Steps, OrderOf, FieldOf, CommitSteps, ClearSteps, FileSteps, SealSteps

LEMMA LabelParts ==
  ASSUME NEW e \in Labels
  PROVE  /\ e[1] \in Nat /\ e[2] \in Steps /\ e[3] \in Nat /\ e # Barrier
         /\ e = <<e[1], e[2], e[3]>>
BY DEF Labels, Barrier

LEMMA Levels ==
  ASSUME NEW c, NEW d, NEW e \in Labels
  PROVE  /\ Level(c, d, e) \in 0..5 /\ Stage(c, d, e) \in Nat
         /\ 5 * e[1] <= Stage(c, d, e) /\ Stage(c, d, e) <= 5 * e[1] + 5
<1>1. Level(c, d, e) \in 0..5
  BY DEF Level
<1> QED BY <1>1, LabelParts DEF Stage

(* Two stores to one place are one before the other.                        *)
LEMMA OrderTotal ==
  ASSUME NEW c, NEW d, NEW w \in Nat, NEW v, NEW fin, NEW e \in Issued(c, d, w, v, fin),
         NEW f \in Issued(c, d, w, v, fin), Where(c, d, e) = Where(c, d, f), e # f
  PROVE  Older(e, f) \/ Older(f, e)
<1>1. e \in Labels /\ f \in Labels
  BY DEF Issued
<1>2. /\ e[1] \in Nat /\ e[2] \in Steps /\ f[1] \in Nat /\ f[2] \in Steps
      /\ e = <<e[1], e[2], e[3]>> /\ f = <<f[1], f[2], f[3]>>
  BY <1>1, LabelParts
<1>3. OrderOf[e[2]] \in Int /\ OrderOf[f[2]] \in Int
  BY <1>2, StepParts
<1>4. SUFFICES ASSUME e[1] = f[1], OrderOf[e[2]] = OrderOf[f[2]] PROVE FALSE
  BY <1>2, <1>3 DEF Older
<1>5. /\ FieldOf[e[2]] = FieldOf[f[2]]
      /\ e[2] \in SealSteps /\ f[2] \in SealSteps => e[3] = f[3]
      /\ e[2] = "zero" /\ f[2] = "zero" => e[3] = f[3]
  BY DEF Where, FileSteps, SealSteps
<1>6. e[2] = f[2]
  BY <1>2, <1>4, <1>5
  DEF Steps, OrderOf, FieldOf, CommitSteps, ClearSteps, FileSteps, SealSteps
<1>7. e[3] = f[3]
  <2>1. CASE e[2] \in SealSteps \/ e[2] = "zero"
    BY <1>5, <1>6, <2>1
  <2>2. CASE ~(e[2] \in SealSteps \/ e[2] = "zero")
    <3>1. e[3] = 0
      BY <2>2 DEF Issued, OfRecord, OfFile
    <3>2. f[3] = 0
      BY <1>6, <2>2 DEF Issued, OfRecord, OfFile
    <3> QED BY <3>1, <3>2
  <2> QED BY <2>1, <2>2
<1> QED BY <1>2, <1>4, <1>6, <1>7

----------------------------------------------------------------------------
(* What is pending, as labels: in the order of stages and, for one place,   *)
(* of age, with barriers between the stages; now in stage n, and in turn r  *)
(* at step k.                                                               *)
Barred(q, i, j) == \E b \in DOMAIN q : i < b /\ b < j /\ q[b] = Barrier
Pair(c, d, q, i, j) ==
  /\ q[i] # q[j] /\ Stage(c, d, q[i]) <= Stage(c, d, q[j])
  /\ Stage(c, d, q[i]) < Stage(c, d, q[j]) => Barred(q, i, j)
  /\ Where(c, d, q[i]) = Where(c, d, q[j]) => Older(q[i], q[j])
Paired(c, d, q) ==
  \A i, j \in DOMAIN q : i < j /\ q[i] # Barrier /\ q[j] # Barrier => Pair(c, d, q, i, j)
Written(e, r, k) == e[1] < r \/ (e[1] = r /\ OrderOf[e[2]] < k)

Queue(c, d, q, n, r, k) ==
  /\ q \in Seq(Labels \cup {Barrier})
  /\ Paired(c, d, q)
  /\ \A i \in DOMAIN q : q[i] # Barrier =>
       /\ Stage(c, d, q[i]) <= n /\ Written(q[i], r, k)
       /\ Stage(c, d, q[i]) < n => \E b \in DOMAIN q : i < b /\ q[b] = Barrier

(* A piece of a call, from stage n to m and from step k to l.               *)
Piece(c, d, x, n, m, r, k, l) ==
  /\ x \in Seq(Labels \cup {Barrier})
  /\ Paired(c, d, x)
  /\ n <= m /\ k <= l /\ (n < m => \E b \in DOMAIN x : x[b] = Barrier)
  /\ \A i \in DOMAIN x : x[i] # Barrier =>
       /\ x[i][1] = r /\ k <= OrderOf[x[i][2]] /\ OrderOf[x[i][2]] < l
       /\ n <= Stage(c, d, x[i]) /\ Stage(c, d, x[i]) <= m
       /\ n < Stage(c, d, x[i]) => \E b \in DOMAIN x : b < i /\ x[b] = Barrier
       /\ Stage(c, d, x[i]) < m => \E b \in DOMAIN x : i < b /\ x[b] = Barrier

LEMMA Joined ==
  ASSUME NEW S, NEW x \in Seq(S), NEW y \in Seq(S)
  PROVE  /\ x \o y \in Seq(S) /\ Len(x) \in Nat /\ Len(y) \in Nat
         /\ DOMAIN x = 1..Len(x) /\ DOMAIN y = 1..Len(y)
         /\ DOMAIN (x \o y) = 1..(Len(x) + Len(y)) /\ Len(x \o y) = Len(x) + Len(y)
         /\ \A i \in DOMAIN x : i \in DOMAIN (x \o y) /\ (x \o y)[i] = x[i]
         /\ \A i \in DOMAIN y : Len(x) + i \in DOMAIN (x \o y) /\ (x \o y)[Len(x) + i] = y[i]
         /\ \A k \in DOMAIN (x \o y) : \/ k \in DOMAIN x
                                       \/ k - Len(x) \in DOMAIN y /\ k = Len(x) + (k - Len(x))
<1>1. /\ x \o y \in Seq(S) /\ Len(x) \in Nat /\ Len(y) \in Nat
      /\ DOMAIN x = 1..Len(x) /\ DOMAIN y = 1..Len(y)
      /\ DOMAIN (x \o y) = 1..(Len(x) + Len(y)) /\ Len(x \o y) = Len(x) + Len(y)
  BY ConcatProperties, LenProperties
<1>2. \A i \in 1..(Len(x) + Len(y)) : (x \o y)[i] = IF i <= Len(x) THEN x[i] ELSE y[i - Len(x)]
  BY ConcatProperties
<1>3. \A i \in DOMAIN x : i \in DOMAIN (x \o y) /\ (x \o y)[i] = x[i]
  BY <1>1, <1>2
<1>4. ASSUME NEW i \in DOMAIN y
      PROVE  Len(x) + i \in DOMAIN (x \o y) /\ (x \o y)[Len(x) + i] = y[i]
  <2>1. /\ Len(x) + i \in 1..(Len(x) + Len(y)) /\ ~(Len(x) + i <= Len(x))
        /\ Len(x) + i - Len(x) = i
    BY <1>1
  <2> QED BY <1>1, <1>2, <2>1
<1>5. \A k \in DOMAIN (x \o y) : \/ k \in DOMAIN x
                                 \/ k - Len(x) \in DOMAIN y /\ k = Len(x) + (k - Len(x))
  BY <1>1
<1> QED BY <1>1, <1>3, <1>4, <1>5

LEMMA StepOrder ==
  ASSUME NEW q \in Seq(Labels \cup {Barrier}), NEW i \in DOMAIN q, q[i] # Barrier, NEW c, NEW d
  PROVE  q[i] \in Labels /\ OrderOf[q[i][2]] \in Nat /\ q[i][1] \in Nat /\ Stage(c, d, q[i]) \in Nat
<1>1. q[i] \in Labels
  BY ElementOfSeq, LenProperties
<1> DEFINE e == q[i]
<1>2. e \in Labels
  BY <1>1
<1> HIDE DEF e
<1>3. e[1] \in Nat /\ e[2] \in Steps
  BY <1>2, LabelParts
<1>4. OrderOf[e[2]] \in Nat
  BY <1>3, StepParts
<1>5. Stage(c, d, e) \in Nat
  BY <1>2, <1>3, Levels
<1> QED BY <1>2, <1>3, <1>4, <1>5 DEF e

LEMMA PieceAdded ==
  ASSUME NEW c, NEW d, NEW q, NEW x, NEW n \in Nat, NEW m \in Nat, NEW r \in Nat,
         NEW k \in Nat, NEW l \in Nat,
         Queue(c, d, q, n, r, k), Piece(c, d, x, n, m, r, k, l)
  PROVE  Queue(c, d, q \o x, m, r, l)
<1> DEFINE z == q \o x
           a == Len(q)
<1>1. /\ q \in Seq(Labels \cup {Barrier}) /\ x \in Seq(Labels \cup {Barrier})
      /\ Paired(c, d, q) /\ Paired(c, d, x) /\ n <= m /\ k <= l
  BY DEF Queue, Piece
<1>2. /\ z \in Seq(Labels \cup {Barrier}) /\ a \in Nat
      /\ DOMAIN q = 1..a /\ DOMAIN x = 1..Len(x) /\ DOMAIN z = 1..(a + Len(x)) /\ Len(x) \in Nat
      /\ \A i \in DOMAIN q : i \in DOMAIN z /\ z[i] = q[i]
      /\ \A i \in DOMAIN x : a + i \in DOMAIN z /\ z[a + i] = x[i]
      /\ \A i \in DOMAIN z : \/ i \in DOMAIN q
                             \/ i - a \in DOMAIN x /\ i = a + (i - a)
  <2> DEFINE S == Labels \cup {Barrier}
  <2>1. q \in Seq(S) /\ x \in Seq(S)
    BY <1>1
  <2> HIDE DEF S
  <2>2. /\ z \in Seq(S) /\ a \in Nat /\ Len(x) \in Nat
        /\ DOMAIN q = 1..a /\ DOMAIN x = 1..Len(x) /\ DOMAIN z = 1..(a + Len(x))
    BY <2>1, Joined
  <2>3. /\ \A i \in DOMAIN q : i \in DOMAIN z /\ z[i] = q[i]
        /\ \A i \in DOMAIN x : a + i \in DOMAIN z /\ z[a + i] = x[i]
    BY <2>1, Joined
  <2>4. \A i \in DOMAIN z : \/ i \in DOMAIN q
                            \/ i - a \in DOMAIN x /\ i = a + (i - a)
    BY <2>1, Joined
  <2> QED BY <2>2, <2>3, <2>4 DEF S
<1> HIDE DEF z, a
<1>3. ASSUME NEW i \in DOMAIN q, NEW j \in DOMAIN q, Barred(q, i, j) PROVE Barred(z, i, j)
  BY <1>2, <1>3 DEF Barred
<1>4. ASSUME NEW i \in DOMAIN x, NEW j \in DOMAIN x, Barred(x, i, j)
      PROVE  Barred(z, a + i, a + j)
  <2>1. PICK b \in DOMAIN x : i < b /\ b < j /\ x[b] = Barrier
    BY <1>4 DEF Barred
  <2>2. a + b \in DOMAIN z /\ z[a + b] = Barrier
    BY <1>2, <2>1
  <2>3. a \in Nat /\ i \in Nat /\ j \in Nat /\ b \in Nat
    <3>1. a \in Nat /\ DOMAIN x = 1..Len(x) /\ Len(x) \in Nat
      BY <1>2
    <3> QED BY <3>1
  <2>4. a + i < a + b /\ a + b < a + j
    BY <2>1, <2>3
  <2> QED BY <2>2, <2>4 DEF Barred
<1>5. ASSUME NEW i \in DOMAIN q, q[i] # Barrier
      PROVE  /\ q[i] \in Labels /\ Stage(c, d, q[i]) \in Nat /\ Stage(c, d, q[i]) <= n
             /\ Written(q[i], r, k) /\ OrderOf[q[i][2]] \in Nat /\ q[i][1] \in Nat
             /\ Stage(c, d, q[i]) < n => \E b \in DOMAIN q : i < b /\ q[b] = Barrier
  BY <1>1, <1>5, StepOrder DEF Queue
<1>6. ASSUME NEW i \in DOMAIN x, x[i] # Barrier
      PROVE  /\ x[i] \in Labels /\ Stage(c, d, x[i]) \in Nat /\ OrderOf[x[i][2]] \in Nat
             /\ x[i][1] = r /\ k <= OrderOf[x[i][2]] /\ OrderOf[x[i][2]] < l
             /\ n <= Stage(c, d, x[i]) /\ Stage(c, d, x[i]) <= m
             /\ n < Stage(c, d, x[i]) => \E b \in DOMAIN x : b < i /\ x[b] = Barrier
             /\ Stage(c, d, x[i]) < m => \E b \in DOMAIN x : i < b /\ x[b] = Barrier
  <2>1. x[i] \in Labels /\ Stage(c, d, x[i]) \in Nat /\ OrderOf[x[i][2]] \in Nat
    BY <1>1, <1>6, StepOrder
  <2> QED BY <1>6, <2>1 DEF Piece
<1>7. ASSUME NEW i \in DOMAIN q, NEW j \in DOMAIN x, q[i] # Barrier, x[j] # Barrier
      PROVE  /\ Older(q[i], x[j]) /\ q[i] # x[j] /\ Stage(c, d, q[i]) <= Stage(c, d, x[j])
             /\ Stage(c, d, q[i]) < Stage(c, d, x[j]) => Barred(z, i, a + j)
  <2>1. Older(q[i], x[j])
    BY <1>5, <1>6, <1>7 DEF Older, Written
  <2>2. q[i] # x[j]
    <3> SUFFICES ASSUME q[i] = x[j] PROVE FALSE
      OBVIOUS
    <3>1. Older(q[i], q[i]) /\ q[i][1] \in Nat /\ OrderOf[q[i][2]] \in Nat
      BY <1>5, <1>7, <2>1
    <3> QED BY <3>1 DEF Older
  <2>3. Stage(c, d, q[i]) <= Stage(c, d, x[j])
    BY <1>5, <1>6, <1>7
  <2>4. ASSUME Stage(c, d, q[i]) < Stage(c, d, x[j]) PROVE Barred(z, i, a + j)
    <3>1. CASE Stage(c, d, q[i]) < n
      <4>1. PICK b \in DOMAIN q : i < b /\ q[b] = Barrier
        BY <1>5, <1>7, <3>1
      <4> QED BY <1>2, <4>1 DEF Barred
    <3>2. CASE ~(Stage(c, d, q[i]) < n)
      <4>1. n < Stage(c, d, x[j])
        BY <1>5, <1>6, <1>7, <2>4, <3>2
      <4>2. PICK b \in DOMAIN x : b < j /\ x[b] = Barrier
        BY <1>6, <1>7, <4>1
      <4>3. a + b \in DOMAIN z /\ i < a + b /\ a + b < a + j /\ z[a + b] = Barrier
        BY <1>2, <4>2
      <4> QED BY <4>3 DEF Barred
    <3> QED BY <3>1, <3>2
  <2> QED BY <2>1, <2>2, <2>3, <2>4
<1>8. Paired(c, d, z)
  <2> SUFFICES ASSUME NEW i \in DOMAIN z, NEW j \in DOMAIN z, i < j, z[i] # Barrier,
                      z[j] # Barrier
               PROVE  Pair(c, d, z, i, j)
    BY DEF Paired
  <2>1. CASE i \in DOMAIN q /\ j \in DOMAIN q
    <3>1. z[i] = q[i] /\ z[j] = q[j]
      BY <1>2, <2>1
    <3>2. Pair(c, d, q, i, j)
      BY <1>1, <2>1, <3>1 DEF Paired
    <3> QED BY <1>3, <2>1, <3>1, <3>2 DEF Pair
  <2>2. CASE i \in DOMAIN q /\ j \notin DOMAIN q
    <3>1. z[i] = q[i] /\ j - a \in DOMAIN x /\ j = a + (j - a) /\ z[j] = x[j - a]
      BY <1>2, <2>2
    <3>2. /\ Older(q[i], x[j - a]) /\ q[i] # x[j - a]
          /\ Stage(c, d, q[i]) <= Stage(c, d, x[j - a])
          /\ Stage(c, d, q[i]) < Stage(c, d, x[j - a]) => Barred(z, i, a + (j - a))
      BY <1>7, <2>2, <3>1
    <3> QED BY <3>1, <3>2 DEF Pair
  <2>3. CASE i \notin DOMAIN q
    <3>1. /\ i - a \in DOMAIN x /\ i = a + (i - a) /\ z[i] = x[i - a]
          /\ j - a \in DOMAIN x /\ j = a + (j - a) /\ z[j] = x[j - a] /\ i - a < j - a
      BY <1>2, <2>3
    <3>2. Pair(c, d, x, i - a, j - a)
      BY <1>1, <3>1 DEF Paired
    <3>3. Barred(x, i - a, j - a) => Barred(z, i, j)
      <4>1. Barred(x, i - a, j - a) => Barred(z, a + (i - a), a + (j - a))
        BY <1>4, <3>1
      <4> QED BY <3>1, <4>1
    <3> QED BY <3>1, <3>2, <3>3 DEF Pair
  <2> QED BY <2>1, <2>2, <2>3
<1>9. ASSUME NEW i \in DOMAIN z, z[i] # Barrier
      PROVE  /\ Stage(c, d, z[i]) <= m /\ Written(z[i], r, l)
             /\ Stage(c, d, z[i]) < m => \E b \in DOMAIN z : i < b /\ z[b] = Barrier
  <2>1. CASE i \in DOMAIN q
    <3>1. z[i] = q[i]
      BY <1>2, <2>1
    <3>2. Stage(c, d, z[i]) <= m /\ Written(z[i], r, l)
      BY <1>1, <1>5, <1>9, <2>1, <3>1 DEF Written
    <3>3. ASSUME Stage(c, d, z[i]) < m PROVE \E b \in DOMAIN z : i < b /\ z[b] = Barrier
      <4>1. CASE Stage(c, d, q[i]) < n
        BY <1>2, <1>5, <1>9, <2>1, <3>1, <4>1
      <4>2. CASE ~(Stage(c, d, q[i]) < n)
        <5>1. n < m
          BY <1>5, <1>9, <2>1, <3>1, <3>3, <4>2
        <5>2. PICK b \in DOMAIN x : x[b] = Barrier
          BY <5>1 DEF Piece
        <5>3. a + b \in DOMAIN z /\ i < a + b /\ z[a + b] = Barrier
          BY <1>2, <2>1, <5>2
        <5> QED BY <5>3
      <4> QED BY <4>1, <4>2
    <3> QED BY <3>2, <3>3
  <2>2. CASE i \notin DOMAIN q
    <3>1. i - a \in DOMAIN x /\ i = a + (i - a) /\ z[i] = x[i - a]
      BY <1>2, <2>2
    <3>2. Stage(c, d, z[i]) <= m /\ Written(z[i], r, l)
      BY <1>6, <1>9, <3>1 DEF Written
    <3>3. ASSUME Stage(c, d, z[i]) < m PROVE \E b \in DOMAIN z : i < b /\ z[b] = Barrier
      <4>1. PICK b \in DOMAIN x : i - a < b /\ x[b] = Barrier
        BY <1>6, <1>9, <3>1, <3>3
      <4>2. a + b \in DOMAIN z /\ i < a + b /\ z[a + b] = Barrier
        BY <1>2, <3>1, <4>1
      <4> QED BY <4>2
    <3> QED BY <3>2, <3>3
  <2> QED BY <2>1, <2>2
<1> QED BY <1>2, <1>8, <1>9 DEF Queue, z

(* The pending entries that stores of S make.                               *)
EntriesOf(c, d, S) == {Entry(c, d, s) : s \in S}

LEMMA MappedParts ==
  ASSUME NEW c, NEW d, NEW S, NEW q \in Seq(S)
  PROVE  /\ Len(Mapped(c, d, q)) = Len(q) /\ DOMAIN Mapped(c, d, q) = 1..Len(q) /\ Len(q) \in Nat
         /\ DOMAIN q = 1..Len(q)
         /\ \A i \in 1..Len(q) : Mapped(c, d, q)[i] = Entry(c, d, q[i])
         /\ Mapped(c, d, q) \in Seq(EntriesOf(c, d, S))
<1>1. Len(q) \in Nat /\ DOMAIN q = 1..Len(q) /\ \A i \in 1..Len(q) : q[i] \in S
  BY LenProperties, ElementOfSeq
<1> DEFINE T == EntriesOf(c, d, S)
           m == Mapped(c, d, q)
<1>2. m \in [1..Len(q) -> T] /\ \A i \in 1..Len(q) : m[i] = Entry(c, d, q[i])
  BY <1>1 DEF Mapped, EntriesOf
<1> HIDE DEF T, m
<1>3. m \in Seq(T) /\ DOMAIN m = 1..Len(q)
  BY <1>1, <1>2, SeqDef
<1>4. Len(m) = Len(q)
  BY <1>1, <1>3, LenProperties
<1> QED BY <1>1, <1>2, <1>3, <1>4 DEF T, m

LEMMA SameSeq ==
  ASSUME NEW S, NEW x \in Seq(S), NEW y \in Seq(S), Len(x) = Len(y),
         \A i \in 1..Len(x) : x[i] = y[i]
  PROVE  x = y
<1>1. /\ Len(x) \in Nat /\ x \in [1..Len(x) -> S] /\ y \in [1..Len(x) -> S]
  BY LenProperties
<1> QED BY <1>1

LEMMA MappedJoined ==
  ASSUME NEW c, NEW d, NEW S, NEW x \in Seq(S), NEW y \in Seq(S)
  PROVE  Mapped(c, d, x \o y) = Mapped(c, d, x) \o Mapped(c, d, y)
<1> DEFINE T == EntriesOf(c, d, S)
           a == Mapped(c, d, x)
           b == Mapped(c, d, y)
           z == x \o y
           m == Mapped(c, d, z)
<1>1. /\ z \in Seq(S) /\ Len(x) \in Nat /\ Len(y) \in Nat /\ Len(z) = Len(x) + Len(y)
      /\ DOMAIN x = 1..Len(x) /\ DOMAIN y = 1..Len(y) /\ DOMAIN z = 1..(Len(x) + Len(y))
      /\ \A i \in DOMAIN x : z[i] = x[i]
      /\ \A i \in DOMAIN y : z[Len(x) + i] = y[i]
      /\ \A k \in DOMAIN z : \/ k \in DOMAIN x
                             \/ k - Len(x) \in DOMAIN y /\ k = Len(x) + (k - Len(x))
  <2>1. /\ z \in Seq(S) /\ Len(x) \in Nat /\ Len(y) \in Nat /\ Len(z) = Len(x) + Len(y)
        /\ DOMAIN x = 1..Len(x) /\ DOMAIN y = 1..Len(y) /\ DOMAIN z = 1..(Len(x) + Len(y))
    BY Joined
  <2>2. /\ \A i \in DOMAIN x : z[i] = x[i]
        /\ \A i \in DOMAIN y : z[Len(x) + i] = y[i]
    BY Joined
  <2>3. \A k \in DOMAIN z : \/ k \in DOMAIN x
                            \/ k - Len(x) \in DOMAIN y /\ k = Len(x) + (k - Len(x))
    BY Joined
  <2> QED BY <2>1, <2>2, <2>3
<1> HIDE DEF z
<1>2. /\ a \in Seq(T) /\ Len(a) = Len(x) /\ \A i \in 1..Len(x) : a[i] = Entry(c, d, x[i])
  <2>1. a \in Seq(T)
    BY MappedParts
  <2>2. Len(a) = Len(x)
    BY MappedParts
  <2>3. \A i \in 1..Len(x) : a[i] = Entry(c, d, x[i])
    BY MappedParts
  <2> QED BY <2>1, <2>2, <2>3
<1>3. /\ b \in Seq(T) /\ Len(b) = Len(y) /\ \A i \in 1..Len(y) : b[i] = Entry(c, d, y[i])
  <2>1. b \in Seq(T)
    BY MappedParts
  <2>2. Len(b) = Len(y)
    BY MappedParts
  <2>3. \A i \in 1..Len(y) : b[i] = Entry(c, d, y[i])
    BY MappedParts
  <2> QED BY <2>1, <2>2, <2>3
<1>4. /\ m \in Seq(T) /\ Len(m) = Len(z) /\ \A i \in 1..Len(z) : m[i] = Entry(c, d, z[i])
  <2>1. z \in Seq(S)
    BY <1>1
  <2>2. m \in Seq(T)
    BY <2>1, MappedParts
  <2>3. Len(m) = Len(z)
    BY <2>1, MappedParts
  <2>4. \A i \in 1..Len(z) : m[i] = Entry(c, d, z[i])
    BY <2>1, MappedParts
  <2> QED BY <2>2, <2>3, <2>4
<1> HIDE DEF a, b, m, T
<1>5. /\ a \o b \in Seq(T) /\ Len(a \o b) = Len(x) + Len(y)
      /\ \A i \in DOMAIN a : (a \o b)[i] = a[i]
      /\ \A i \in DOMAIN b : (a \o b)[Len(a) + i] = b[i]
      /\ DOMAIN a = 1..Len(x) /\ DOMAIN b = 1..Len(y)
  <2>1. a \in Seq(T) /\ b \in Seq(T)
    BY <1>2, <1>3
  <2>2. /\ a \o b \in Seq(T) /\ Len(a \o b) = Len(a) + Len(b)
        /\ DOMAIN a = 1..Len(a) /\ DOMAIN b = 1..Len(b)
    BY <2>1, Joined
  <2>3. /\ \A i \in DOMAIN a : (a \o b)[i] = a[i]
        /\ \A i \in DOMAIN b : (a \o b)[Len(a) + i] = b[i]
    BY <2>1, Joined
  <2> QED BY <1>2, <1>3, <2>2, <2>3
<1>6. ASSUME NEW i \in 1..Len(m) PROVE m[i] = (a \o b)[i]
  <2>1. i \in DOMAIN z
    BY <1>1, <1>4
  <2>2. CASE i \in DOMAIN x
    BY <1>1, <1>2, <1>4, <1>5, <2>1, <2>2
  <2>3. CASE i - Len(x) \in DOMAIN y /\ i = Len(x) + (i - Len(x))
    <3>1. z[i] = y[i - Len(x)]
      BY <1>1, <2>3
    <3>2. (a \o b)[i] = b[i - Len(x)]
      BY <1>1, <1>2, <1>5, <2>3
    <3> QED BY <1>1, <1>3, <1>4, <2>3, <3>1, <3>2
  <2> QED BY <1>1, <2>1, <2>2, <2>3
<1>7. Len(m) = Len(a \o b)
  BY <1>1, <1>4, <1>5
<1>8. m = a \o b
  BY <1>4, <1>5, <1>6, <1>7, SameSeq
<1> QED BY <1>8 DEF m, a, b, z

LEMMA MappedShape ==
  ASSUME NEW c, NEW d, NEW S, NEW q \in Seq(S)
  PROVE  /\ Len(Mapped(c, d, q)) = Len(q) /\ DOMAIN Mapped(c, d, q) = 1..Len(q) /\ Len(q) \in Nat
         /\ DOMAIN q = 1..Len(q)
         /\ \A i \in 1..Len(q) : Mapped(c, d, q)[i] = Entry(c, d, q[i])
<1>1. Len(q) \in Nat /\ DOMAIN q = 1..Len(q)
  BY LenProperties
<1> DEFINE m == Mapped(c, d, q)
           T == EntriesOf(c, d, S)
<1>2. m \in Seq(T)
  BY MappedParts
<1>3. DOMAIN m = 1..Len(q) /\ \A i \in 1..Len(q) : m[i] = Entry(c, d, q[i])
  BY DEF Mapped
<1> HIDE DEF m, T
<1>4. Len(m) = Len(q)
  BY <1>1, <1>2, <1>3, LenProperties
<1> QED BY <1>1, <1>3, <1>4 DEF m

(* A store that becomes visible leaves the rest as it was.                  *)
Waiting(q) == {q[i] : i \in DOMAIN q} \ {Barrier}
Pends(c, d, q) == pending = Mapped(c, d, q)

LEMMA QueueShrinks ==
  ASSUME NEW c, NEW d, NEW q, NEW n \in Nat, NEW r \in Nat, NEW k \in Nat,
         Queue(c, d, q, n, r, k), pending \in Seq(Entries), Pends(c, d, q),
         NEW i \in 1..Len(q), q[i] # Barrier, NEW u \in {0, 1}, Removal(i, u)
  PROVE  \E p : /\ Queue(c, d, p, n, r, k) /\ pending' = Mapped(c, d, p)
                /\ Waiting(p) = Waiting(q) \ {q[i]}
<1>a. PICK S : S = Labels \cup {Barrier}
  OBVIOUS
<1> DEFINE m == Len(pending')
           p == [j \in 1..m |-> q[Source(i, u, j)]]
<1>0. q \in Seq(S)
  BY <1>a DEF Queue
<1>b. m = Len(pending')
  OBVIOUS
<1> HIDE DEF m
<1>1. /\ Len(q) \in Nat /\ DOMAIN q = 1..Len(q) /\ Len(pending) = Len(q)
      /\ DOMAIN pending = 1..Len(q)
      /\ \A j \in 1..Len(q) : q[j] \in S /\ pending[j] = Entry(c, d, q[j])
  <2>1. \A j \in 1..Len(q) : q[j] \in S
    BY <1>0, LenProperties, ElementOfSeq
  <2>2. /\ Len(Mapped(c, d, q)) = Len(q) /\ DOMAIN Mapped(c, d, q) = 1..Len(q) /\ Len(q) \in Nat
        /\ DOMAIN q = 1..Len(q)
        /\ \A j \in 1..Len(q) : Mapped(c, d, q)[j] = Entry(c, d, q[j])
    BY <1>0, MappedShape
  <2> QED BY <2>1, <2>2 DEF Pends
<1>2. /\ DOMAIN pending' = 1..m /\ m \in Nat /\ pending' \in Seq(Entries)
      /\ \A j \in 1..m : /\ Source(i, u, j) \in 1..Len(q) /\ Source(i, u, j) # i
                         /\ pending'[j] = pending[Source(i, u, j)]
      /\ \A j, l \in 1..m : j < l => Source(i, u, j) < Source(i, u, l)
      /\ \A l \in 1..Len(q) : l # i /\ pending[l] # Barrier => \E j \in 1..m : Source(i, u, j) = l
  <2>1. /\ DOMAIN pending' = 1..m /\ m \in Nat
        /\ \A j \in 1..m :
             /\ Source(i, u, j) \in DOMAIN pending /\ Source(i, u, j) # i
             /\ pending'[j] = pending[Source(i, u, j)]
        /\ \A j, l \in 1..m : j < l => Source(i, u, j) < Source(i, u, l)
        /\ \A l \in DOMAIN pending : l # i /\ pending[l] # Barrier =>
             \E j \in 1..m : Source(i, u, j) = l
    <3>1. DOMAIN pending' = 1..Len(pending') /\ Len(pending') \in Nat
      BY Sources
    <3>2. \A j \in DOMAIN pending' :
            /\ Source(i, u, j) \in DOMAIN pending /\ Source(i, u, j) # i
            /\ pending'[j] = pending[Source(i, u, j)]
      BY Sources
    <3>3. /\ \A j, l \in DOMAIN pending' : j < l => Source(i, u, j) < Source(i, u, l)
          /\ \A l \in DOMAIN pending : l # i /\ pending[l] # Barrier =>
               \E j \in DOMAIN pending' : Source(i, u, j) = l
      BY Sources
    <3>4. DOMAIN pending' = 1..m /\ m \in Nat
      BY <1>b, <3>1
    <3> QED BY <3>2, <3>3, <3>4, Zenon
  <2>2. pending' \in Seq(Entries)
    BY DEF Removal
  <2> QED BY <1>1, <2>1, <2>2
<1>3. ASSUME NEW j \in 1..Len(q) PROVE (pending[j] = Barrier) <=> (q[j] = Barrier)
  <2>1. pending[j] = Entry(c, d, q[j])
    BY <1>1
  <2>2. q[j] # Barrier => Entry(c, d, q[j]) # Barrier
    BY DEF Entry, Store, Barrier
  <2> QED BY <2>1, <2>2 DEF Entry
<1>4. ASSUME NEW a \in 1..m, NEW l \in 1..Len(q), Source(i, u, a) < l, l # i
      PROVE  \E j \in 1..m : Source(i, u, j) = l
  <2> DEFINE n0 == Len(q)
  <2>0. n0 \in Nat /\ l \in 1..n0
    BY <1>1
  <2>1. /\ m = n0 - 1 - u /\ i \in 1..n0 /\ m \in Nat
        /\ u = 0 \/ (u = 1 /\ i = 1)
    BY <1>1, <1>2, <1>b DEF Removal
  <2> HIDE DEF n0
  <2>2. CASE l < i
    BY <2>0, <2>1, <2>2 DEF Source
  <2>3. CASE l > i
    <3>1. u = 0 \/ l > 2
      BY <1>4, <2>0, <2>1, <2>3 DEF Source
    <3>2. l - 1 - u \in 1..m /\ ~(l - 1 - u < i) /\ l - 1 - u + 1 + u = l
      BY <2>0, <2>1, <2>3, <3>1
    <3> QED BY <3>2 DEF Source
  <2> QED BY <1>4, <2>0, <2>1, <2>2, <2>3
<1>5. p \in [1..m -> S] /\ \A j \in 1..m : p[j] = q[Source(i, u, j)]
  BY <1>1, <1>2
<1> HIDE DEF p
<1>6. p \in Seq(S) /\ DOMAIN p = 1..m /\ Len(p) = m
  <2>1. p \in Seq(S) /\ DOMAIN p = 1..m
    BY <1>2, <1>5, SeqDef
  <2> QED BY <1>2, <2>1, LenProperties
<1>7. ASSUME NEW j \in 1..m, NEW l \in 1..m, j < l, p[j] # Barrier, p[l] # Barrier
      PROVE  Pair(c, d, p, j, l)
  <2> DEFINE s == Source(i, u, j)
             t == Source(i, u, l)
  <2>1. s \in 1..Len(q) /\ t \in 1..Len(q) /\ s < t /\ p[j] = q[s] /\ p[l] = q[t] /\ t # i
    BY <1>2, <1>5, <1>7
  <2>2. \A b \in 1..Len(q) : s < b /\ b # i => \E a \in 1..m : Source(i, u, a) = b
    BY <1>4
  <2>5. \A a, b \in 1..m : Source(i, u, a) < Source(i, u, b) => a < b
    <3> TAKE a, b \in 1..m
    <3>1. b < a => Source(i, u, b) < Source(i, u, a)
      BY <1>2
    <3>2. Source(i, u, a) \in Int /\ Source(i, u, b) \in Int
      BY <1>1, <1>2
    <3> QED BY <3>1, <3>2
  <2>6. s = Source(i, u, j) /\ t = Source(i, u, l)
    OBVIOUS
  <2> HIDE DEF s, t
  <2>3. Pair(c, d, q, s, t)
    BY <1>1, <1>7, <2>1 DEF Queue, Paired
  <2>4. ASSUME Barred(q, s, t) PROVE Barred(p, j, l)
    <3>1. PICK b \in 1..Len(q) : s < b /\ b < t /\ q[b] = Barrier
      BY <1>1, <2>4 DEF Barred
    <3>2. PICK a \in 1..m : Source(i, u, a) = b
      BY <2>2, <3>1
    <3>3. j < a /\ a < l /\ p[a] = Barrier
      BY <1>5, <2>5, <2>6, <3>1, <3>2
    <3> QED BY <1>6, <3>3 DEF Barred
  <2> QED BY <2>1, <2>3, <2>4 DEF Pair
<1>8. ASSUME NEW j \in 1..m, p[j] # Barrier
      PROVE  /\ Stage(c, d, p[j]) <= n /\ Written(p[j], r, k)
             /\ Stage(c, d, p[j]) < n => \E b \in 1..m : j < b /\ p[b] = Barrier
  <2> DEFINE s == Source(i, u, j)
  <2>1. s \in 1..Len(q) /\ p[j] = q[s]
    BY <1>2, <1>5
  <2>2. \A a \in 1..m : s < Source(i, u, a) => j < a
    <3> TAKE a \in 1..m
    <3>1. a < j => Source(i, u, a) < s
      BY <1>2
    <3>2. Source(i, u, a) \in Int /\ s \in Int
      BY <1>1, <1>2
    <3> QED BY <3>1, <3>2
  <2>3. \A b \in 1..Len(q) : s < b /\ b # i => \E a \in 1..m : Source(i, u, a) = b
    BY <1>4
  <2> HIDE DEF s
  <2>4. /\ Stage(c, d, q[s]) <= n /\ Written(q[s], r, k)
        /\ Stage(c, d, q[s]) < n => \E b \in 1..Len(q) : s < b /\ q[b] = Barrier
    BY <1>1, <1>8, <2>1 DEF Queue
  <2>5. ASSUME Stage(c, d, q[s]) < n PROVE \E b \in 1..m : j < b /\ p[b] = Barrier
    <3>1. PICK b \in 1..Len(q) : s < b /\ q[b] = Barrier
      BY <2>4, <2>5
    <3>2. PICK a \in 1..m : Source(i, u, a) = b
      BY <2>3, <3>1
    <3> QED BY <1>5, <2>2, <3>1, <3>2
  <2> QED BY <2>1, <2>4, <2>5
<1>9. Queue(c, d, p, n, r, k)
  BY <1>a, <1>6, <1>7, <1>8 DEF Queue, Paired
<1>10. pending' = Mapped(c, d, p)
  <2> DEFINE T == EntriesOf(c, d, S)
             x == Mapped(c, d, p)
  <2>1. x \in [1..m -> T] /\ \A j \in 1..m : x[j] = Entry(c, d, p[j])
    <3>0. p \in Seq(S)
      BY <1>6
    <3>1. DOMAIN x = 1..m /\ \A j \in 1..m : x[j] = Entry(c, d, p[j])
      BY <1>6, <3>0, MappedShape
    <3>2. \A j \in 1..m : p[j] \in S
      BY <1>5
    <3>3. \A j \in 1..m : Entry(c, d, p[j]) \in T
      BY <3>2 DEF EntriesOf
    <3>4. x = [j \in 1..m |-> Entry(c, d, p[j])]
      BY <3>1 DEF Mapped
    <3> HIDE DEF T, x
    <3> QED BY <3>1, <3>3, <3>4
  <2> HIDE DEF x, T
  <2>2. pending' \in [1..m -> Entries]
    BY <1>2, <1>b, LenProperties
  <2>3. \A j \in 1..m : pending'[j] = x[j]
    BY <1>1, <1>2, <1>5, <2>1
  <2>4. pending' = x
    <3>1. pending' = [j \in 1..m |-> pending'[j]] /\ x = [j \in 1..m |-> x[j]]
      BY <2>1, <2>2
    <3> QED BY <2>3, <3>1
  <2> QED BY <2>4 DEF x
<1>11. Waiting(p) = Waiting(q) \ {q[i]}
  <2>1. ASSUME NEW e \in Waiting(p) PROVE e \in Waiting(q) /\ e # q[i]
    <3>1. PICK j \in 1..m : e = p[j] /\ e # Barrier
      BY <1>6, <2>1 DEF Waiting
    <3>2. Source(i, u, j) \in 1..Len(q) /\ Source(i, u, j) # i /\ e = q[Source(i, u, j)]
      BY <1>2, <1>5, <3>1
    <3>3. PICK s \in 1..Len(q) : s # i /\ e = q[s]
      BY <3>2
    <3>4. q[s] # q[i]
      <4>1. Paired(c, d, q)
        BY DEF Queue
      <4>2. s < i \/ i < s
        BY <1>1, <3>3
      <4>3. s < i => Pair(c, d, q, s, i)
        BY <1>1, <3>1, <3>3, <4>1 DEF Paired
      <4>4. i < s => Pair(c, d, q, i, s)
        BY <1>1, <3>1, <3>3, <4>1 DEF Paired
      <4> QED BY <4>2, <4>3, <4>4 DEF Pair
    <3> QED BY <1>1, <3>1, <3>3, <3>4 DEF Waiting
  <2>2. ASSUME NEW e \in Waiting(q), e # q[i] PROVE e \in Waiting(p)
    <3>1. PICK s \in 1..Len(q) : e = q[s] /\ e # Barrier
      BY <1>1, <2>2 DEF Waiting
    <3>2. s # i /\ pending[s] # Barrier
      BY <1>3, <2>2, <3>1
    <3>3. PICK j \in 1..m : Source(i, u, j) = s
      BY <1>2, <3>2
    <3> QED BY <1>5, <1>6, <3>1, <3>3 DEF Waiting
  <2> QED BY <2>1, <2>2
<1> QED BY <1>9, <1>10, <1>11

(* Chunks n begin with records First of them and are filled one record      *)
(* after the other: what CompactPublication knows of payloads.              *)
Laid(c, d, w, n, u) ==
  /\ c \in [1..w -> Nat] /\ d \in [1..w -> Positions]
  /\ \A r \in 1..w : c[r] < n /\ d[r] <= r
  /\ IF w = 0 THEN n = 0 /\ u = 0 ELSE c[w] = n - 1 /\ d[w] = u
  /\ \A s \in 0..(n - 1) : \E r \in 1..w : c[r] = s /\ d[r] = 1
  /\ \A r, t \in 1..w : r < t => \/ c[r] = c[t] /\ d[t] = d[r] + (t - r)
                                 \/ c[r] < c[t] /\ d[t] <= t - r
First(c, d, w, s) == IF s = 0 THEN 1 ELSE CHOOSE r \in 1..w : c[r] = s /\ d[r] = 1

LEMMA Firsts ==
  ASSUME NEW c, NEW d, NEW w \in Nat, NEW n \in Nat, NEW u, Laid(c, d, w, n, u)
  PROVE  \A s \in 0..(n - 1) : /\ First(c, d, w, s) \in 1..w
                               /\ c[First(c, d, w, s)] = s /\ d[First(c, d, w, s)] = 1
<1> SUFFICES ASSUME NEW s \in 0..(n - 1)
             PROVE  /\ First(c, d, w, s) \in 1..w
                    /\ c[First(c, d, w, s)] = s /\ d[First(c, d, w, s)] = 1
  OBVIOUS
<1>1. PICK r \in 1..w : c[r] = s /\ d[r] = 1
  BY DEF Laid
<1>2. CASE s # 0
  BY <1>1, <1>2 DEF First
<1>3. CASE s = 0
  <2>1. c[1] \in Nat /\ d[1] \in Positions /\ d[1] <= 1 /\ 1 \in 1..w
    BY DEF Laid
  <2>2. r = 1
    <3>1. 1 < r => \/ c[1] = c[r] /\ d[r] = d[1] + (r - 1)
                   \/ c[1] < c[r]
      BY <2>1 DEF Laid
    <3> QED BY <1>1, <1>3, <2>1, <3>1 DEF Positions
  <2> QED BY <1>1, <1>3, <2>1, <2>2 DEF First
<1> QED BY <1>2, <1>3

LEMMA Layout ==
  ASSUME NEW c, NEW d, NEW w \in Nat, NEW n \in Nat, NEW u, Laid(c, d, w, n, u)
  PROVE  /\ \A r \in 1..w : /\ c[r] \in 0..(n - 1) /\ d[r] \in Positions
                            /\ First(c, d, w, c[r]) <= r
                            /\ d[r] = r - First(c, d, w, c[r]) + 1
         /\ \A r, t \in 1..w : r <= t => c[r] <= c[t]
         /\ \A s, t \in 0..(n - 1) : s < t => First(c, d, w, s) < First(c, d, w, t)
         /\ \A s \in 0..(n - 2) :
              /\ First(c, d, w, s + 1) - First(c, d, w, s) \in 1..ChunkRecords
              /\ \A r \in 1..w : c[r] = s <=> /\ First(c, d, w, s) <= r
                                              /\ r < First(c, d, w, s + 1)
<1> DEFINE F(s) == First(c, d, w, s)
<1>1. \A s \in 0..(n - 1) : F(s) \in 1..w /\ c[F(s)] = s /\ d[F(s)] = 1
  BY Firsts, ZenonT(30)
<1> HIDE DEF F
<1>2. \A r, t \in 1..w : r < t => \/ c[r] = c[t] /\ d[t] = d[r] + (t - r)
                                  \/ c[r] < c[t] /\ d[t] <= t - r
  BY DEF Laid
<1>3. \A r \in 1..w : c[r] \in 0..(n - 1) /\ d[r] \in Positions /\ d[r] \in Nat \ {0}
  <2> SUFFICES ASSUME NEW r \in 1..w
               PROVE  c[r] \in 0..(n - 1) /\ d[r] \in Positions /\ d[r] \in Nat \ {0}
    OBVIOUS
  <2>1. c[r] \in Nat /\ c[r] < n /\ d[r] \in Positions
    BY DEF Laid
  <2>2. d[r] \in Nat \ {0}
    BY <2>1 DEF Positions
  <2> QED BY <2>1, <2>2
<1>4. \A r, t \in 1..w : r <= t => c[r] <= c[t]
  <2> SUFFICES ASSUME NEW r \in 1..w, NEW t \in 1..w, r <= t PROVE c[r] <= c[t]
    OBVIOUS
  <2>1. c[r] \in Nat /\ c[t] \in Nat
    BY <1>3
  <2>2. r = t \/ r < t
    OBVIOUS
  <2> QED BY <1>2, <2>1, <2>2
<1>5. ASSUME NEW r \in 1..w PROVE F(c[r]) <= r /\ d[r] = r - F(c[r]) + 1
  <2> DEFINE f == F(c[r])
  <2>1. f \in 1..w /\ c[f] = c[r] /\ d[f] = 1 /\ c[r] \in Nat /\ d[r] \in Nat \ {0}
    BY <1>1, <1>3
  <2> HIDE DEF f
  <2>2. CASE f < r
    <3>1. d[r] = d[f] + (r - f)
      BY <1>2, <2>1, <2>2
    <3> QED BY <2>1, <2>2, <3>1 DEF f
  <2>3. CASE f = r
    BY <2>1, <2>3 DEF f
  <2>4. CASE r < f
    <3>1. d[f] = d[r] + (f - r)
      BY <1>2, <2>1, <2>4
    <3> QED BY <2>1, <2>4, <3>1
  <2> QED BY <2>1, <2>2, <2>3, <2>4
<1>6. ASSUME NEW s \in 0..(n - 1), NEW t \in 0..(n - 1), s < t PROVE F(s) < F(t)
  <2>1. /\ F(s) \in 1..w /\ F(t) \in 1..w /\ c[F(s)] = s /\ c[F(t)] = t
    BY <1>1
  <2>2. F(t) <= F(s) => c[F(t)] <= c[F(s)]
    BY <1>4, <2>1
  <2> QED BY <1>6, <2>1, <2>2
<1>7. ASSUME NEW s \in 0..(n - 2)
      PROVE  /\ F(s + 1) - F(s) \in 1..ChunkRecords
             /\ \A r \in 1..w : c[r] = s <=> (F(s) <= r /\ r < F(s + 1))
  <2>0. s \in 0..(n - 1) /\ s + 1 \in 0..(n - 1) /\ s < s + 1
    OBVIOUS
  <2>1. /\ F(s) \in 1..w /\ F(s + 1) \in 1..w /\ F(s) < F(s + 1) /\ c[F(s)] = s
        /\ c[F(s + 1)] = s + 1 /\ d[F(s)] = 1 /\ d[F(s + 1)] = 1
    BY <1>1, <1>6, <2>0
  <2>2. ASSUME NEW r \in 1..w PROVE c[r] = s <=> (F(s) <= r /\ r < F(s + 1))
    <3>1. c[r] \in Nat
      BY <1>3
    <3>2. c[r] = s => F(s) <= r /\ ~(F(s + 1) <= r)
      <4>1. F(s + 1) <= r => c[F(s + 1)] <= c[r]
        BY <1>4, <2>1
      <4> QED BY <1>5, <2>1, <3>1, <4>1
    <3>3. F(s) <= r => s <= c[r]
      BY <1>4, <2>1
    <3>4. r < F(s + 1) => c[r] < s + 1
      <4>1. r < F(s + 1) => \/ c[r] = c[F(s + 1)] /\ d[F(s + 1)] = d[r] + (F(s + 1) - r)
                            \/ c[r] < c[F(s + 1)]
        BY <1>2, <2>1
      <4>2. d[r] \in Nat \ {0}
        BY <1>3
      <4> QED BY <2>1, <3>1, <4>1, <4>2
    <3> QED BY <2>1, <3>1, <3>2, <3>3, <3>4
  <2>3. F(s + 1) - F(s) \in 1..ChunkRecords
    <3> DEFINE r == F(s + 1) - 1
    <3>1. r \in 1..w /\ F(s) <= r /\ r < F(s + 1)
      BY <2>1
    <3>2. c[r] = s /\ d[r] \in 1..ChunkRecords /\ d[r] = r - F(s) + 1
      BY <1>3, <1>5, <2>2, <3>1 DEF Positions
    <3> QED BY <2>1, <3>1, <3>2
  <2> QED BY <2>2, <2>3
<1> QED BY <1>3, <1>4, <1>5, <1>6, <1>7 DEF F

LEMMA PlaceOf ==
  ASSUME NEW c, NEW d, NEW w \in Nat, NEW n \in Nat, NEW u, Laid(c, d, w, n, u), NEW r \in 1..w
  PROVE  /\ c[r] \in 0..(n - 1) /\ First(c, d, w, c[r]) \in 1..w
         /\ First(c, d, w, c[r]) <= r /\ d[r] = r - First(c, d, w, c[r]) + 1
<1>1. \A t \in 1..w : /\ c[t] \in 0..(n - 1) /\ d[t] \in Positions
                      /\ First(c, d, w, c[t]) <= t
                      /\ d[t] = t - First(c, d, w, c[t]) + 1
  BY Layout
<1> QED BY <1>1, Firsts

----------------------------------------------------------------------------
(* Chunks of a ring: slots repeat every ChunkCount chunks.                  *)
LEMMA Remainder ==
  ASSUME NEW s \in Int, NEW m \in Int, m > 0, NEW k \in Int, NEW r \in 0..(m - 1), s = m * k + r
  PROVE  s % m = r
BY SMTT(30)

LEMMA Quotient ==
  ASSUME NEW s \in Int, NEW m \in Int, m > 0
  PROVE  \E i \in Int : s % m \in 0..(m - 1) /\ s = m * i + (s % m)
<1> DEFINE k == s \div m
           r == s - m * k
<1>1. k \in Int /\ m * k <= s /\ s < m * k + m
  OBVIOUS
<1> HIDE DEF k
<1>2. m * k \in Int
  BY <1>1
<1>3. r \in 0..(m - 1) /\ s = m * k + r
  BY <1>1, <1>2
<1> HIDE DEF r
<1>4. s % m = r
  BY <1>1, <1>3, Remainder
<1> DEFINE e == s % m
<1>5. e = r
  BY <1>4
<1> HIDE DEF e
<1>6. \E i \in Int : e \in 0..(m - 1) /\ s = m * i + e
  BY <1>1, <1>3, <1>5
<1> QED BY <1>6, Zenon DEF e

LEMMA SlotParts ==
  ASSUME NEW s \in Nat
  PROVE  \E k \in Int : SlotOf(s) \in 0..(ChunkCount - 1) /\ s = ChunkCount * k + SlotOf(s)
<1>1. ChunkCount \in Int /\ ChunkCount > 0 /\ s \in Int
  BY PublicationAssumption
<1> QED BY <1>1, Quotient DEF SlotOf

LEMMA SlotUnique ==
  ASSUME NEW s \in Nat, NEW k \in Int, NEW r \in 0..(ChunkCount - 1), s = ChunkCount * k + r
  PROVE  SlotOf(s) = r
<1>1. ChunkCount \in Int /\ ChunkCount > 0 /\ s \in Int
  BY PublicationAssumption
<1> QED BY <1>1, Remainder DEF SlotOf

LEMMA SlotRepeats ==
  ASSUME NEW s \in Nat
  PROVE  /\ SlotOf(s) \in Slots
         /\ SlotOf(s + ChunkCount) = SlotOf(s)
         /\ s < ChunkCount => SlotOf(s) = s
         /\ SlotOf(s + 1) = IF SlotOf(s) + 1 = ChunkCount THEN 0 ELSE SlotOf(s) + 1
<1>0. ChunkCount \in Nat \ {0}
  BY PublicationAssumption
<1>1. PICK k \in Int : SlotOf(s) \in 0..(ChunkCount - 1) /\ s = ChunkCount * k + SlotOf(s)
  BY SlotParts
<1> DEFINE r == SlotOf(s)
<1>2. r \in 0..(ChunkCount - 1) /\ s = ChunkCount * k + r
  BY <1>1
<1> HIDE DEF r
<1>3. ChunkCount * (k + 1) = ChunkCount * k + ChunkCount /\ k + 1 \in Int
  BY <1>0, <1>1
<1>4. SlotOf(s + ChunkCount) = r
  <2>1. s + ChunkCount \in Nat /\ s + ChunkCount = ChunkCount * (k + 1) + r
    BY <1>0, <1>2, <1>3
  <2> QED BY <1>2, <1>3, <2>1, SlotUnique
<1>5. ASSUME s < ChunkCount PROVE SlotOf(s) = s
  <2>1. s = ChunkCount * 0 + s /\ s \in 0..(ChunkCount - 1)
    BY <1>0, <1>5
  <2> QED BY <2>1, SlotUnique
<1>6. SlotOf(s + 1) = IF r + 1 = ChunkCount THEN 0 ELSE r + 1
  <2>1. CASE r + 1 = ChunkCount
    <3>1. s + 1 = ChunkCount * (k + 1) + 0 /\ 0 \in 0..(ChunkCount - 1) /\ s + 1 \in Nat
      BY <1>0, <1>2, <1>3, <2>1
    <3>2. SlotOf(s + 1) = 0
      BY <1>3, <3>1, SlotUnique
    <3> QED BY <2>1, <3>2
  <2>2. CASE r + 1 # ChunkCount
    <3>1. s + 1 = ChunkCount * k + (r + 1) /\ r + 1 \in 0..(ChunkCount - 1) /\ s + 1 \in Nat
      BY <1>0, <1>2, <2>2
    <3>2. SlotOf(s + 1) = r + 1
      BY <3>1, SlotUnique
    <3> QED BY <2>2, <3>2
  <2> QED BY <2>1, <2>2
<1> QED BY <1>2, <1>4, <1>5, <1>6 DEF r, Slots

LEMMA SameSlot ==
  ASSUME NEW s \in Nat, NEW t \in Nat, SlotOf(s) = SlotOf(t), s < t
  PROVE  s + ChunkCount <= t
<1>0. ChunkCount \in Nat \ {0}
  BY PublicationAssumption
<1>1. PICK a \in Int : SlotOf(s) \in 0..(ChunkCount - 1) /\ s = ChunkCount * a + SlotOf(s)
  BY SlotParts
<1>2. PICK b \in Int : SlotOf(t) \in 0..(ChunkCount - 1) /\ t = ChunkCount * b + SlotOf(t)
  BY SlotParts
<1> DEFINE r == SlotOf(s)
<1>3. s = ChunkCount * a + r /\ t = ChunkCount * b + r /\ r \in Int
  BY <1>1, <1>2
<1> HIDE DEF r
<1>4. a < b
  <2>1. b <= a => ChunkCount * b <= ChunkCount * a
    BY <1>0
  <2> QED BY <1>0, <1>3, <2>1
<1>5. ChunkCount * (a + 1) <= ChunkCount * b
  <2>1. a + 1 <= b
    BY <1>4
  <2> QED BY <1>0, <2>1
<1>6. ChunkCount * (a + 1) = ChunkCount * a + ChunkCount
  BY <1>0
<1> QED BY <1>0, <1>3, <1>5, <1>6

LEMMA Least ==
  ASSUME NEW S \in SUBSET Nat, S # {}
  PROVE  \E m \in S : \A k \in S : m <= k
<1> DEFINE less == {ss \in Nat \X Nat : ss[1] < ss[2]}
<1>1. IsWellFoundedOn(less, Nat)
  <2>1. less = OpToRel(<, Nat)
    BY DEF OpToRel
  <2> QED BY <2>1, NatLessThanWellFounded
<1> HIDE DEF less
<1>2. PICK m \in S : \A k \in S : <<k, m>> \notin less
  BY <1>1, WFMin
<1>3. ASSUME NEW k \in S PROVE m <= k
  <2>1. <<k, m>> \notin less /\ m \in Nat /\ k \in Nat
    BY <1>2
  <2>2. k < m => <<k, m>> \in less
    BY <2>1 DEF less
  <2> QED BY <2>1, <2>2
<1> QED BY <1>3

LEMMA Greatest ==
  ASSUME NEW n \in Nat, NEW S \in SUBSET (0..n), S # {}
  PROVE  \E m \in S : \A k \in S : k <= m
<1> DEFINE T == {n - k : k \in S}
<1>1. \A k \in S : k \in Nat /\ k <= n /\ n - k \in Nat
  OBVIOUS
<1>2. T \in SUBSET Nat /\ T # {}
  BY <1>1
<1>3. PICK t \in T : \A u \in T : t <= u
  BY <1>2, Least
<1>4. PICK m \in S : t = n - m
  BY <1>3
<1>5. \A k \in S : n - k \in T
  OBVIOUS
<1> HIDE DEF T
<1> QED BY <1>1, <1>3, <1>4, <1>5

----------------------------------------------------------------------------
(* Reading: the payloads of chunks in order, one after the other.           *)
IsFold(f, k, q) ==
  f = [s \in SUBSET (1..k) |->
         IF s = {} THEN <<>> ELSE f[s \ {Max(s)}] \o Payload(q[Max(s)])]

LEMMA MaxOf ==
  ASSUME NEW s, NEW x \in s, \A y \in s : y \in Int /\ y <= x
  PROVE  Max(s) = x
<1>1. \A y \in s : x >= y
  OBVIOUS
<1>2. Max(s) \in s /\ \A y \in s : Max(s) >= y
  BY <1>1 DEF Max
<1>3. Max(s) \in Int /\ x \in Int /\ Max(s) >= x /\ Max(s) <= x
  BY <1>2
<1> QED BY <1>3

LEMMA HasMax ==
  ASSUME NEW k \in Nat, NEW s \in SUBSET (1..k), s # {}
  PROVE  Max(s) \in s
<1>1. PICK x \in s : \A y \in s : y <= x
  <2>1. s \in SUBSET (0..k)
    OBVIOUS
  <2> QED BY <2>1, Greatest
<1>2. \A y \in s : y \in Int /\ y <= x
  BY <1>1
<1>3. Max(s) = x
  BY <1>2, MaxOf
<1> QED BY <1>3

LEMMA FoldExists ==
  ASSUME NEW m \in Nat, NEW q
  PROVE  \E f : IsFold(f, m, q)
<1> DEFINE S == {k \in Nat : ~ \E f : IsFold(f, k, q)}
<1>1. SUFFICES ASSUME S # {} PROVE FALSE
  OBVIOUS
<1>2. PICK k \in S : \A j \in S : k <= j
  BY <1>1, Least
<1>3. k # 0
  <2> SUFFICES ASSUME k = 0 PROVE FALSE
    OBVIOUS
  <2> DEFINE f == [s \in SUBSET (1..0) |-> <<>>]
  <2>1. \A s \in SUBSET (1..0) : s = {}
    OBVIOUS
  <2>2. f = [s \in SUBSET (1..0) |->
               IF s = {} THEN <<>> ELSE f[s \ {Max(s)}] \o Payload(q[Max(s)])]
    BY <2>1
  <2>3. IsFold(f, k, q)
    BY <2>2 DEF IsFold
  <2> QED BY <1>2, <2>3
<1>4. k - 1 \in Nat /\ k - 1 \notin S
  BY <1>2, <1>3
<1>5. PICK f : IsFold(f, k - 1, q)
  BY <1>4
<1> DEFINE g == [s \in SUBSET (1..k) |->
                   IF k \in s THEN f[s \ {k}] \o Payload(q[k]) ELSE f[s]]
<1>6. ASSUME NEW s \in SUBSET (1..k)
      PROVE  g[s] = IF s = {} THEN <<>> ELSE g[s \ {Max(s)}] \o Payload(q[Max(s)])
  <2>1. CASE k \in s
    <3>1. Max(s) = k
      <4>1. \A y \in s : y \in Int /\ y <= k
        OBVIOUS
      <4> QED BY <2>1, <4>1, MaxOf
    <3>2. s \ {k} \in SUBSET (1..k) /\ k \notin s \ {k}
      OBVIOUS
    <3>3. g[s \ {k}] = f[s \ {k}]
      BY <3>2
    <3>4. g[s] = f[s \ {k}] \o Payload(q[k])
      BY <2>1
    <3> QED BY <2>1, <3>1, <3>3, <3>4
  <2>2. CASE k \notin s
    <3>1. s \in SUBSET (1..(k - 1))
      BY <1>2, <2>2
    <3>2. g[s] = f[s]
      BY <2>2
    <3>3. f[s] = IF s = {} THEN <<>> ELSE f[s \ {Max(s)}] \o Payload(q[Max(s)])
      BY <1>5, <3>1 DEF IsFold
    <3>4. s # {} => g[s \ {Max(s)}] = f[s \ {Max(s)}]
      <4>1. s \ {Max(s)} \in SUBSET (1..k) /\ k \notin s \ {Max(s)}
        BY <2>2
      <4> QED BY <4>1
    <3> QED BY <3>2, <3>3, <3>4
  <2> QED BY <2>1, <2>2
<1>7. g = [s \in SUBSET (1..k) |->
             IF s = {} THEN <<>> ELSE g[s \ {Max(s)}] \o Payload(q[Max(s)])]
  <2> DEFINE h == [s \in SUBSET (1..k) |->
                     IF s = {} THEN <<>> ELSE g[s \ {Max(s)}] \o Payload(q[Max(s)])]
  <2>1. \A s \in SUBSET (1..k) : g[s] = h[s]
    BY <1>6
  <2>2. g = [s \in SUBSET (1..k) |-> g[s]] /\ h = [s \in SUBSET (1..k) |-> h[s]]
    OBVIOUS
  <2> HIDE DEF g, h
  <2>3. g = h
    BY <2>1, <2>2
  <2> QED BY <2>3 DEF h
<1>8. IsFold(g, k, q)
  BY <1>7 DEF IsFold
<1> QED BY <1>2, <1>8

LEMMA Read ==
  ASSUME NEW m \in Nat, NEW q, DOMAIN q = 1..m, InOrder = q,
         NEW g, g[0] = <<>>, \A k \in 1..m : g[k] = g[k - 1] \o Payload(q[k])
  PROVE  Recovered = g[m]
<1> DEFINE f == CHOOSE f : IsFold(f, m, q)
<1>1. IsFold(f, m, q)
  BY FoldExists
<1>2. Recovered = f[1..m]
  BY DEF Recovered, FoldLeft, MapThenFoldSet, IsFold
<1> HIDE DEF f
<1>3. \A k \in 0..m : f[1..k] = g[k]
  <2> DEFINE S == {k \in 0..m : f[1..k] # g[k]}
  <2>1. SUFFICES ASSUME S # {} PROVE FALSE
    OBVIOUS
  <2>2. PICK k \in S : \A j \in S : k <= j
    <3>1. S \in SUBSET Nat
      OBVIOUS
    <3> QED BY <2>1, <3>1, Least
  <2>3. k # 0
    <3>1. f[{}] = <<>>
      BY <1>1 DEF IsFold
    <3>2. 1..0 = {}
      OBVIOUS
    <3> QED BY <2>2, <3>1, <3>2
  <2>4. k \in 1..m /\ k - 1 \in 0..m /\ k - 1 \notin S
    BY <2>2, <2>3
  <2>5. f[1..(k - 1)] = g[k - 1]
    BY <2>4
  <2>6. Max(1..k) = k
    <3>1. k \in 1..k /\ \A y \in 1..k : y \in Int /\ y <= k
      BY <2>4
    <3> QED BY <3>1, MaxOf
  <2>7. (1..k) \ {k} = 1..(k - 1) /\ 1..k # {} /\ 1..k \in SUBSET (1..m)
    <3>1. k \in 1..k
      BY <2>4
    <3>2. \A y \in 1..k : y \in 1..m
      BY <2>4
    <3>3. \A y : y \in (1..k) \ {k} <=> y \in 1..(k - 1)
      BY <2>4
    <3>4. (1..k) \ {k} = 1..(k - 1)
      BY <3>3
    <3> QED BY <3>1, <3>2, <3>4
  <2>8. f[1..k] = f[(1..k) \ {Max(1..k)}] \o Payload(q[Max(1..k)])
    BY <1>1, <2>7 DEF IsFold
  <2>9. f[1..k] = g[k - 1] \o Payload(q[k])
    BY <2>5, <2>6, <2>7, <2>8
  <2> QED BY <2>2, <2>4, <2>9
<1> QED BY <1>2, <1>3

(* Chunks lo, lo + 1, ... of the readable slots are read in that order.     *)
LEMMA Ascending ==
  ASSUME NEW m \in Nat, NEW f \in [1..m -> Int], NEW a \in Int,
         \A i \in 1..m : f[i] \in a..(a + m - 1),
         \A i, j \in 1..m : i < j => f[i] < f[j]
  PROVE  \A i \in 1..m : f[i] = a + i - 1
<1>1. \A i \in 1..m : f[i] >= a + i - 1
  <2> DEFINE S == {i \in 1..m : f[i] < a + i - 1}
  <2> SUFFICES ASSUME NEW n \in 1..m, f[n] < a + n - 1 PROVE FALSE
    OBVIOUS
  <2>1. n \in S
    OBVIOUS
  <2>0. 1..m \in SUBSET Nat
    OBVIOUS
  <2>2. S \in SUBSET Nat
    BY <2>0, Zenon
  <2>3. PICK i \in S : \A j \in S : i <= j
    BY <2>1, <2>2, Least
  <2>4. i # 1
    BY <2>3
  <2>5. i - 1 \in 1..m /\ i - 1 \notin S
    BY <2>3, <2>4
  <2>6. f[i - 1] < f[i]
    BY <2>3, <2>5
  <2> QED BY <2>3, <2>5, <2>6
<1>2. \A i \in 1..m : f[i] <= a + i - 1
  <2> DEFINE S == {i \in 1..m : f[i] > a + i - 1}
  <2> SUFFICES ASSUME NEW n \in 1..m, f[n] > a + n - 1 PROVE FALSE
    OBVIOUS
  <2>1. n \in S
    OBVIOUS
  <2>0. 1..m \in SUBSET (0..m)
    OBVIOUS
  <2>2. S \in SUBSET (0..m)
    BY <2>0, Zenon
  <2>3. PICK i \in S : \A j \in S : j <= i
    BY <2>1, <2>2, Greatest
  <2>4. i # m
    BY <2>3
  <2>5. i + 1 \in 1..m /\ i + 1 \notin S
    BY <2>3, <2>4
  <2>6. f[i] < f[i + 1]
    BY <2>3, <2>5
  <2> QED BY <2>3, <2>5, <2>6
<1> QED BY <1>1, <1>2

LEMMA Order ==
  ASSUME NEW m \in Nat, NEW lo \in Nat,
         \A slot \in Slots : Readable(slot) <=> \E i \in 1..m : slot = SlotOf(lo + i - 1),
         \A i \in 1..m : memory[Field(SlotOf(lo + i - 1), "sequence")] = lo + i - 1
  PROVE  InOrder = [i \in 1..m |-> SlotOf(lo + i - 1)]
<1> DEFINE R == {slot \in Slots : Readable(slot)}
           number(slot) == memory[Field(slot, "sequence")]
           x == [i \in 1..m |-> SlotOf(lo + i - 1)]
           Right(q) == /\ IsInjective(q)
                       /\ \A i, j \in DOMAIN q : i < j => number(q[i]) <= number(q[j])
           order == CHOOSE q \in [1..Cardinality(R) -> R] : Right(q)
           gaps == {i \in 2..Len(order) : number(order[i]) # number(order[i - 1]) + 1}
<1>1. \A i \in 1..m : lo + i - 1 \in Nat /\ SlotOf(lo + i - 1) \in Slots
  <2>1. \A i \in 1..m : lo + i - 1 \in Nat
    OBVIOUS
  <2> QED BY <2>1, SlotRepeats
<1>2. \A slot : slot \in R <=> \E i \in 1..m : slot = SlotOf(lo + i - 1)
  BY <1>1
<1>3. \A i \in 1..m : x[i] \in R /\ number(x[i]) = lo + i - 1
  BY <1>2
<1>4. x \in [1..m -> R]
  BY <1>3
<1>5. IsInjective(x)
  <2> SUFFICES ASSUME NEW i \in 1..m, NEW j \in 1..m, x[i] = x[j] PROVE i = j
    BY DEF IsInjective
  <2>1. lo + i - 1 = lo + j - 1
    BY <1>3
  <2> QED BY <2>1
<1>6. \A slot \in R : \E i \in 1..m : x[i] = slot
  BY <1>2
<1>7. Cardinality(R) = m
  <2> HIDE DEF x, R
  <2>1. x \in Bijection(1..m, R)
    BY <1>4, <1>5, <1>6 DEF Bijection, Injection, Surjection
  <2>2. ExistsBijection(1..m, R)
    BY <2>1 DEF ExistsBijection
  <2> QED BY <2>2, FS_CountingElements
<1>8. ASSUME NEW i \in 1..m, NEW j \in 1..m, i < j PROVE number(x[i]) <= number(x[j])
  <2>1. number(x[i]) = lo + i - 1 /\ number(x[j]) = lo + j - 1
    BY <1>3
  <2> HIDE DEF x, number
  <2> QED BY <1>8, <2>1
<1>9. ASSUME NEW q \in [1..m -> R], Right(q) PROVE q = x
  <2> DEFINE f == [i \in 1..m |-> number(q[i])]
  <2>1. ASSUME NEW slot \in R
        PROVE  number(slot) \in lo..(lo + m - 1) /\ SlotOf(number(slot)) = slot
    <3>1. PICK i \in 1..m : slot = SlotOf(lo + i - 1)
      BY <1>2
    <3>2. number(slot) = lo + i - 1
      BY <3>1
    <3>3. lo + i - 1 \in lo..(lo + m - 1)
      OBVIOUS
    <3> QED BY <3>1, <3>2, <3>3
  <2>2. \A i \in 1..m : q[i] \in R
    BY <1>9
  <2>3. f \in [1..m -> Int] /\ \A i \in 1..m : f[i] \in lo..(lo + m - 1)
    BY <2>1, <2>2
  <2>4. ASSUME NEW i \in 1..m, NEW j \in 1..m, i < j PROVE f[i] < f[j]
    <3>1. f[i] <= f[j]
      BY <1>9, <2>4
    <3>2. f[i] # f[j]
      <4>1. SlotOf(f[i]) = q[i] /\ SlotOf(f[j]) = q[j]
        BY <2>1, <2>2
      <4>2. q[i] # q[j]
        BY <1>9, <2>4 DEF IsInjective
      <4> QED BY <4>1, <4>2
    <3> QED BY <2>3, <3>1, <3>2
  <2>5. \A i \in 1..m : f[i] = lo + i - 1
    <3> HIDE DEF f
    <3>1. lo \in Int
      OBVIOUS
    <3> QED BY <2>3, <2>4, <3>1, Ascending
  <2>6. ASSUME NEW i \in 1..m PROVE q[i] = x[i]
    <3>1. number(q[i]) = lo + i - 1
      BY <2>5
    <3>2. SlotOf(number(q[i])) = q[i]
      BY <2>1, <2>2
    <3> QED BY <3>1, <3>2
  <2>7. q = [i \in 1..m |-> q[i]] /\ x = [i \in 1..m |-> x[i]]
    BY <1>9
  <2> HIDE DEF x
  <2> QED BY <2>6, <2>7
<1>10. order = x
  <2>1. Right(x)
    BY <1>4, <1>5, <1>8
  <2>2. \E q \in [1..Cardinality(R) -> R] : Right(q)
    BY <1>4, <1>7, <2>1
  <2>3. order \in [1..Cardinality(R) -> R] /\ Right(order)
    <3> HIDE DEF Right, R
    <3> QED BY <2>2
  <2> HIDE DEF order, x, R, Right
  <2> QED BY <1>7, <1>9, <2>3
<1>11. gaps = {}
  <2>1. Len(x) = m
    <3>1. x \in Seq(R)
      BY <1>4, SeqDef
    <3> QED BY <1>4, <3>1, LenProperties
  <2>2. \A i \in 2..m : number(x[i]) = number(x[i - 1]) + 1
    <3> SUFFICES ASSUME NEW i \in 2..m PROVE number(x[i]) = number(x[i - 1]) + 1
      OBVIOUS
    <3>1. i \in 1..m /\ i - 1 \in 1..m
      OBVIOUS
    <3>2. number(x[i]) = lo + i - 1 /\ number(x[i - 1]) = lo + (i - 1) - 1
      BY <1>3, <3>1
    <3> QED BY <3>2
  <2> HIDE DEF x, order
  <2> QED BY <1>10, <2>1, <2>2
<1>12. InOrder = IF gaps = {} THEN order ELSE SubSeq(order, 1, Min(gaps) - 1)
  BY DEF InOrder
<1> QED BY <1>10, <1>11, <1>12

----------------------------------------------------------------------------
(* What is visible: with a store, every store of an earlier stage and every *)
(* older store to its place; the memory holds the latest of each place.     *)
Closed(c, d, all, seen) ==
  /\ seen \subseteq all
  /\ \A f \in seen, e \in all :
       \/ Stage(c, d, e) < Stage(c, d, f)
       \/ Where(c, d, e) = Where(c, d, f) /\ Older(e, f)
       => e \in seen

Seen(c, d, w, n, u, fin, seen, pub) ==
  /\ w \in Nat /\ n \in Nat /\ fin \in BOOLEAN /\ Laid(c, d, w, n, u)
  /\ Closed(c, d, Issued(c, d, w, IF n < ChunkCount THEN n ELSE ChunkCount, fin), seen)
  /\ pub \in 0..w
  /\ \A r \in 1..w : <<r, "cursor", 0>> \in seen <=> r <= pub

Blank(where) ==
  IF where[2] = "flags" THEN {} ELSE IF where[2] \in {"magic", "suffix"} THEN FALSE ELSE 0
Imaged(c, d, seen) ==
  /\ \A e \in seen :
       (\A f \in seen : Where(c, d, f) = Where(c, d, e) => ~Older(e, f))
       => memory[Where(c, d, e)] = What(c, d, e)
  /\ \A where \in Locations :
       (\A e \in seen : Where(c, d, e) # where) => memory[where] = Blank(where)

RecordSteps == {"wrap", "invalid", "zero", "magic"} \cup CommitSteps \cup ClearSteps
SlotSteps   == {"invalid", "zero", "magic"} \cup CommitSteps \cup ClearSteps
NewSteps    == {"invalid", "magic"} \cup ClearSteps

(* The stages of the steps of call r.                                       *)
LEMMA StageOfInvalid ==
  ASSUME NEW c, NEW d, NEW r \in Nat, NEW s \in {"invalid"}, NEW i
  PROVE  /\ Stage(c, d, <<r, s, i>>) \in (5 * r)..(5 * r + 1)
         /\ c[r] = ChunkCount => Stage(c, d, <<r, s, i>>) = 5 * r + 1
         /\ c[r] # ChunkCount => Stage(c, d, <<r, s, i>>) = 5 * r
BY DEF Stage, Level, SealSteps, ClearSteps

LEMMA StageOfHead ==
  ASSUME NEW c, NEW d, NEW r \in Nat, NEW s \in SealSteps \cup {"wrap", "total"}, NEW i
  PROVE  Stage(c, d, <<r, s, i>>) = 5 * r
BY DEF Stage, Level, SealSteps, ClearSteps

LEMMA StageOfClear ==
  ASSUME NEW c, NEW d, NEW r \in Nat, NEW s \in ClearSteps \cup {"zero"}, NEW i
  PROVE  Stage(c, d, <<r, s, i>>) = 5 * r + 2
BY DEF Stage, Level, SealSteps, ClearSteps

LEMMA StageOfMagic ==
  ASSUME NEW c, NEW d, NEW r \in Nat, NEW s \in {"magic"}, NEW i
  PROVE  Stage(c, d, <<r, s, i>>) = 5 * r + 3
BY DEF Stage, Level, SealSteps, ClearSteps

LEMMA StageOfBody ==
  ASSUME NEW c, NEW d, NEW r \in Nat, NEW s \in {"torn", "body"}, NEW i
  PROVE  Stage(c, d, <<r, s, i>>) = IF d[r] = 1 THEN 5 * r + 3 ELSE 5 * r
BY DEF Stage, Level, SealSteps, ClearSteps

LEMMA StageOfCursor ==
  ASSUME NEW c, NEW d, NEW r \in Nat, NEW s \in {"cursor", "counts"}, NEW i
  PROVE  Stage(c, d, <<r, s, i>>) = 5 * r + 5
BY DEF Stage, Level, SealSteps, ClearSteps

LEMMA StageOfCrc ==
  ASSUME NEW c, NEW d, NEW r \in Nat, NEW s \in {"announce", "crc0", "crc"}, NEW i
  PROVE  Stage(c, d, <<r, s, i>>) = 5 * r + 1
BY DEF Stage, Level, SealSteps, ClearSteps

LEMMA StageOfFinalized ==
  ASSUME NEW c, NEW d, NEW r \in Nat, NEW s \in {"finalized"}, NEW i
  PROVE  Stage(c, d, <<r, s, i>>) = 5 * r + 2
BY DEF Stage, Level, SealSteps, ClearSteps

LEMMA FirstStages ==
  ASSUME NEW c, NEW d, NEW r \in Nat, NEW i, d[r] = 1,
         NEW s \in ClearSteps \cup {"zero", "magic"} \cup CommitSteps
  PROVE  Stage(c, d, <<r, s, i>>) \in {5 * r + 2, 5 * r + 3, 5 * r + 5}
<1>1. CASE s \in ClearSteps \cup {"zero"}
  BY <1>1, StageOfClear
<1>2. CASE s \in {"magic"}
  BY <1>2, StageOfMagic
<1>3. CASE s \in {"torn", "body"}
  BY <1>3, StageOfBody
<1>4. CASE s \in {"cursor", "counts"}
  BY <1>4, StageOfCursor
<1> QED BY <1>1, <1>2, <1>3, <1>4 DEF CommitSteps

LEMMA IssuedParts ==
  ASSUME NEW c, NEW d, NEW w \in Nat, NEW v, NEW fin, NEW e \in Issued(c, d, w, v, fin)
  PROVE  /\ e \in Labels /\ e[1] \in Nat /\ e[2] \in Steps /\ e = <<e[1], e[2], e[3]>>
         /\ \/ e[1] \in 1..w /\ OfRecord(c, d, e) /\ e[2] \in RecordSteps
            \/ fin /\ e[1] = w + 1 /\ OfFile(e, v) /\ e[2] \in FileSteps \cup SealSteps
<1>1. e \in Labels /\ e[1] \in Nat /\ e[2] \in Steps /\ e = <<e[1], e[2], e[3]>>
  BY LabelParts DEF Issued
<1>2. \/ e[1] \in 1..w /\ OfRecord(c, d, e)
      \/ fin /\ e[1] = w + 1 /\ OfFile(e, v)
  BY DEF Issued
<1> QED BY <1>1, <1>2 DEF OfRecord, OfFile, RecordSteps

LEMMA IssuedOf ==
  ASSUME NEW c, NEW d, NEW w \in Nat, NEW v, NEW fin, NEW r \in 1..w
  PROVE  /\ \A s \in CommitSteps : <<r, s, 0>> \in Issued(c, d, w, v, fin)
         /\ d[r] = 1 => /\ \A s \in NewSteps : <<r, s, 0>> \in Issued(c, d, w, v, fin)
                        /\ c[r] = ChunkCount => <<r, "wrap", 0>> \in Issued(c, d, w, v, fin)
<1>1. \A s \in CommitSteps \cup NewSteps \cup {"wrap"} :
        /\ <<r, s, 0>> \in Labels /\ <<r, s, 0>>[1] = r /\ <<r, s, 0>>[2] = s
        /\ <<r, s, 0>>[3] = 0
  BY DEF Labels, Steps, NewSteps
<1>2. \A s \in CommitSteps : <<r, s, 0>> \in Issued(c, d, w, v, fin)
  BY <1>1 DEF Issued, OfRecord
<1>3. d[r] = 1 => \A s \in NewSteps : <<r, s, 0>> \in Issued(c, d, w, v, fin)
  BY <1>1 DEF Issued, OfRecord, NewSteps
<1>4. d[r] = 1 /\ c[r] = ChunkCount => <<r, "wrap", 0>> \in Issued(c, d, w, v, fin)
  BY <1>1 DEF Issued, OfRecord
<1> QED BY <1>2, <1>3, <1>4

(* The chunks whose old magic is gone are 0..h.                             *)
Newest(c, d, w, n, seen, h) ==
  /\ h \in -1..(n - 1)
  /\ \A s \in 0..(n - 1) : <<First(c, d, w, s), "invalid", 0>> \in seen <=> s <= h

LEMMA HasNewest ==
  ASSUME NEW c, NEW d, NEW w, NEW n, NEW u, NEW fin, NEW seen, NEW pub,
         Seen(c, d, w, n, u, fin, seen, pub)
  PROVE  \E h : Newest(c, d, w, n, seen, h)
<1> DEFINE F(s) == First(c, d, w, s)
           I == Issued(c, d, w, IF n < ChunkCount THEN n ELSE ChunkCount, fin)
           S == {s \in 0..(n - 1) : <<F(s), "invalid", 0>> \in seen}
<1>1. w \in Nat /\ n \in Nat /\ Laid(c, d, w, n, u) /\ Closed(c, d, I, seen)
  BY DEF Seen
<1>2. \A s \in 0..(n - 1) : F(s) \in 1..w /\ d[F(s)] = 1
  BY <1>1, Firsts
<1>3. \A s, t \in 0..(n - 1) : s < t => F(s) < F(t)
  BY <1>1, Layout
<1> HIDE DEF F
<1>4. ASSUME NEW s \in 0..(n - 1), NEW t \in S, s < t PROVE s \in S
  <2>1. F(s) \in 1..w /\ F(t) \in 1..w /\ F(s) < F(t) /\ d[F(s)] = 1
    BY <1>2, <1>3, <1>4
  <2>2. Stage(c, d, <<F(s), "invalid", 0>>) < Stage(c, d, <<F(t), "invalid", 0>>)
    <3>1. /\ Stage(c, d, <<F(s), "invalid", 0>>) \in (5 * F(s))..(5 * F(s) + 1)
          /\ Stage(c, d, <<F(t), "invalid", 0>>) \in (5 * F(t))..(5 * F(t) + 1)
      <4>1. F(s) \in Nat /\ F(t) \in Nat /\ "invalid" \in {"invalid"}
        BY <2>1
      <4> QED BY <4>1, StageOfInvalid
    <3> QED BY <1>1, <2>1, <3>1
  <2>3. <<F(s), "invalid", 0>> \in I
    BY <1>1, <2>1, IssuedOf DEF NewSteps
  <2>4. <<F(t), "invalid", 0>> \in seen
    OBVIOUS
  <2>5. <<F(s), "invalid", 0>> \in seen
    <3> HIDE DEF I
    <3> QED BY <1>1, <2>2, <2>3, <2>4 DEF Closed
  <2> QED BY <2>5
<1>5. CASE S = {}
  <2>1. -1 \in -1..(n - 1) /\ \A s \in 0..(n - 1) : ~(s <= -1)
    BY <1>1
  <2>2. Newest(c, d, w, n, seen, -1)
    BY <1>5, <2>1 DEF Newest, F
  <2> QED BY <2>2
<1>6. CASE S # {}
  <2>1. S \in SUBSET (0..n)
    <3>1. 0..(n - 1) \in SUBSET (0..n)
      BY <1>1
    <3> QED BY <3>1, Zenon
  <2>2. PICK h \in S : \A s \in S : s <= h
    BY <1>1, <1>6, <2>1, Greatest
  <2>3. \A s \in 0..(n - 1) : s \in S <=> s <= h
    <3>1. h \in 0..(n - 1)
      OBVIOUS
    <3>2. \A s \in 0..(n - 1) : s < h \/ s = h \/ h < s
      BY <1>1, <3>1
    <3>3. \A s \in 0..(n - 1) : h < s => ~(s <= h)
      BY <1>1, <3>1
    <3>4. \A s \in 0..(n - 1) : s <= h => s \in S
      <4> SUFFICES ASSUME NEW s \in 0..(n - 1), s <= h PROVE s \in S
        OBVIOUS
      <4>1. s < h \/ s = h
        BY <3>2, <3>3
      <4> QED BY <1>4, <2>2, <4>1
    <3> QED BY <2>2, <3>4
  <2>4. Newest(c, d, w, n, seen, h)
    BY <1>1, <2>3 DEF Newest, F
  <2> QED BY <2>4
<1> QED BY <1>5, <1>6

LEMMA SeenChunks ==
  ASSUME NEW c, NEW d, NEW w, NEW n, NEW u, NEW fin, NEW seen, NEW pub, NEW h,
         Seen(c, d, w, n, u, fin, seen, pub), Newest(c, d, w, n, seen, h),
         NEW e \in seen, e[1] \in 1..w, e[2] # "wrap"
  PROVE  c[e[1]] <= h
<1> DEFINE F(s) == First(c, d, w, s)
           v == IF n < ChunkCount THEN n ELSE ChunkCount
           I == Issued(c, d, w, v, fin)
           s == c[e[1]]
           r == F(s)
           i == <<r, "invalid", 0>>
<1>1. w \in Nat /\ n \in Nat /\ Laid(c, d, w, n, u) /\ Closed(c, d, I, seen)
  BY DEF Seen
<1>2. s \in 0..(n - 1) /\ F(s) <= e[1] /\ d[e[1]] = e[1] - F(s) + 1
  BY <1>1, Layout
<1>3. F(s) \in 1..w /\ d[F(s)] = 1
  BY <1>1, <1>2, Firsts
<1> HIDE DEF F
<1>4. e \in I
  BY <1>1 DEF Closed
<1>5. /\ e \in Labels /\ e[1] \in Nat /\ e[2] \in Steps /\ e = <<e[1], e[2], e[3]>>
      /\ OfRecord(c, d, e) /\ e[2] \in RecordSteps
  <2>1. ~(e[1] = w + 1)
    BY <1>1
  <2> HIDE DEF v
  <2> QED BY <1>1, <1>4, <2>1, IssuedParts
<1>6. i \in I
  <2> HIDE DEF v
  <2> QED BY <1>1, <1>3, IssuedOf DEF NewSteps
<1>7. s <= h <=> i \in seen
  BY <1>2 DEF Newest, F
<1> HIDE DEF s, I
<1>8. CASE e[2] = "invalid"
  <2>1. d[e[1]] = 1 /\ e[3] = 0
    BY <1>5, <1>8 DEF OfRecord, CommitSteps, ClearSteps
  <2>2. e = i
    BY <1>2, <1>3, <1>5, <1>8, <2>1
  <2> QED BY <1>7, <2>2 DEF s
<1>9. CASE e[2] # "invalid"
  <2>1. r \in Nat /\ Stage(c, d, i) <= 5 * r + 1 /\ Stage(c, d, i) \in Nat
    <3>1. r \in Nat
      BY <1>3
    <3>2. Stage(c, d, i) \in (5 * r)..(5 * r + 1)
      BY <3>1, StageOfInvalid
    <3> QED BY <3>1, <3>2
  <2>2. Stage(c, d, i) < Stage(c, d, e)
    <3>1. CASE r < e[1]
      <4>1. 5 * e[1] <= Stage(c, d, e) /\ Stage(c, d, e) \in Nat
        BY <1>5, Levels
      <4> HIDE DEF r, i
      <4> QED BY <1>5, <2>1, <3>1, <4>1
    <3>2. CASE ~(r < e[1])
      <4>1. e[1] = r /\ d[r] = 1
        BY <1>2, <1>3, <1>5, <3>2
      <4>2. e[2] \in ClearSteps \cup {"zero", "magic", "torn", "body", "cursor", "counts"}
        BY <1>5, <1>9 DEF RecordSteps, CommitSteps
      <4>3. Stage(c, d, e) \in {5 * r + 2, 5 * r + 3, 5 * r + 5}
        <5>1. r \in Nat /\ e[2] \in ClearSteps \cup {"zero", "magic"} \cup CommitSteps /\ d[r] = 1
          BY <2>1, <4>1, <4>2 DEF CommitSteps
        <5> DEFINE b == e[2]
                   j == e[3]
        <5>2. e = <<r, b, j>> /\ b \in ClearSteps \cup {"zero", "magic"} \cup CommitSteps
          BY <1>5, <4>1, <5>1
        <5> HIDE DEF r, b, j
        <5>3. Stage(c, d, <<r, b, j>>) \in {5 * r + 2, 5 * r + 3, 5 * r + 5}
          BY <5>1, <5>2, FirstStages
        <5> QED BY <5>2, <5>3
      <4> HIDE DEF r, i
      <4> QED BY <2>1, <4>3
    <3> QED BY <3>1, <3>2
  <2>3. i \in seen
    <3> HIDE DEF i
    <3> QED BY <1>1, <1>6, <2>2 DEF Closed
  <2> QED BY <1>7, <2>3 DEF s
<1> QED BY <1>8, <1>9

(* Everything but the newest cursor of earlier chunks is visible.           *)
LEMMA EarlySeen ==
  ASSUME NEW c, NEW d, NEW w, NEW n, NEW u, NEW fin, NEW seen, NEW pub, NEW f \in seen,
         Seen(c, d, w, n, u, fin, seen, pub),
         NEW e \in Issued(c, d, w, IF n < ChunkCount THEN n ELSE ChunkCount, fin),
         Stage(c, d, e) < Stage(c, d, f)
  PROVE  e \in seen
BY DEF Seen, Closed

(* The latest store to a field of a chunk that still has its slot.          *)
LEMMA LastInChunk ==
  ASSUME NEW c, NEW d, NEW w, NEW n, NEW u, NEW fin, NEW seen, NEW pub, NEW h,
         Seen(c, d, w, n, u, fin, seen, pub), Newest(c, d, w, n, seen, h),
         Imaged(c, d, seen),
         NEW e \in seen, e[1] \in 1..w, e[2] \in SlotSteps, h < c[e[1]] + ChunkCount,
         \A f \in seen : /\ f[1] \in 1..w /\ c[f[1]] = c[e[1]] /\ f[2] \in SlotSteps
                         /\ FieldOf[f[2]] = FieldOf[e[2]]
                         /\ Where(c, d, f) = Where(c, d, e)
                         => ~Older(e, f)
  PROVE  memory[Where(c, d, e)] = What(c, d, e)
<1> DEFINE v == IF n < ChunkCount THEN n ELSE ChunkCount
           I == Issued(c, d, w, v, fin)
<1>1. w \in Nat /\ n \in Nat /\ Laid(c, d, w, n, u) /\ seen \subseteq I
  BY DEF Seen, Closed
<1> HIDE DEF v
<1>2. SUFFICES ASSUME NEW f \in seen, Where(c, d, f) = Where(c, d, e) PROVE ~Older(e, f)
  BY DEF Imaged
<1>3. e \in I /\ f \in I
  BY <1>1
<1>4. /\ f[1] \in Nat /\ f[2] \in Steps /\ e[1] \in Nat
      /\ \/ f[1] \in 1..w /\ f[2] \in RecordSteps
         \/ f[2] \in FileSteps \cup SealSteps
  BY <1>1, <1>3, IssuedParts
<1>5. c[e[1]] \in 0..(n - 1) /\ SlotOf(c[e[1]]) \in Slots
  <2>1. c[e[1]] \in 0..(n - 1)
    BY <1>1, Layout
  <2> QED BY <2>1, SlotRepeats
<1>6. SlotOf(c[e[1]]) # File
  BY <1>5, PublicationAssumption DEF Slots, File
<1>7. Where(c, d, e)[1] = SlotOf(c[e[1]]) /\ Where(c, d, e)[2] = FieldOf[e[2]]
  BY DEF Where, SlotSteps, FileSteps, SealSteps, CommitSteps, ClearSteps
<1>8. f[2] \notin FileSteps \cup {"wrap"}
  <2>1. f[2] \in FileSteps \cup {"wrap"} => Where(c, d, f)[1] = File
    BY DEF Where
  <2> QED BY <1>2, <1>6, <1>7, <2>1
<1>9. FieldOf[f[2]] = FieldOf[e[2]]
  <2>1. Where(c, d, f)[2] = FieldOf[f[2]]
    BY DEF Where
  <2> QED BY <1>2, <1>7, <2>1
<1>10. f[2] \notin SealSteps
  BY <1>9 DEF SealSteps, FieldOf, SlotSteps, CommitSteps, ClearSteps
<1>11. f[1] \in 1..w /\ f[2] \in SlotSteps
  BY <1>4, <1>8, <1>10 DEF RecordSteps, SlotSteps
<1>12. SlotOf(c[f[1]]) = SlotOf(c[e[1]])
  <2>1. Where(c, d, f)[1] = SlotOf(c[f[1]])
    BY <1>8, <1>10 DEF Where
  <2> QED BY <1>2, <1>7, <2>1
<1>13. c[f[1]] \in 0..(n - 1) /\ c[f[1]] <= h /\ h \in Int
  <2>1. c[f[1]] \in 0..(n - 1)
    BY <1>1, <1>11, Layout
  <2>2. c[f[1]] <= h
    BY <1>8, <1>11, SeenChunks
  <2> QED BY <1>1, <2>1, <2>2 DEF Newest
<1>14. c[f[1]] <= c[e[1]]
  <2> SUFFICES ASSUME c[e[1]] < c[f[1]] PROVE FALSE
    BY <1>5, <1>13
  <2>1. c[e[1]] + ChunkCount <= c[f[1]]
    BY <1>5, <1>12, <1>13, SameSlot
  <2> QED BY <1>5, <1>13, <2>1, PublicationAssumption
<1>15. CASE c[f[1]] = c[e[1]]
  BY <1>2, <1>9, <1>11, <1>15
<1>16. CASE c[f[1]] < c[e[1]]
  <2>1. f[1] < e[1]
    <3>1. e[1] <= f[1] => c[e[1]] <= c[f[1]]
      BY <1>1, <1>11, Layout
    <3> QED BY <1>4, <1>5, <1>13, <1>16, <3>1
  <2> QED BY <1>4, <2>1 DEF Older
<1> QED BY <1>5, <1>13, <1>14, <1>15, <1>16

----------------------------------------------------------------------------
(* What the fields of the chunks that still have their slot hold.           *)
Stores(c, d, w, n, fin) ==
  Issued(c, d, w, IF n < ChunkCount THEN n ELSE ChunkCount, fin)
View(c, d, w, n, u, fin, seen, pub, h) ==
  Seen(c, d, w, n, u, fin, seen, pub) /\ Newest(c, d, w, n, seen, h)

LEMMA Viewed ==
  ASSUME NEW c, NEW d, NEW w, NEW n, NEW u, NEW fin, NEW seen, NEW pub, NEW h,
         View(c, d, w, n, u, fin, seen, pub, h)
  PROVE  /\ w \in Nat /\ n \in Nat /\ fin \in BOOLEAN /\ Laid(c, d, w, n, u) /\ pub \in 0..w
         /\ h \in -1..(n - 1)
         /\ seen \subseteq Stores(c, d, w, n, fin)
         /\ \A f \in seen, e \in Stores(c, d, w, n, fin) :
              Stage(c, d, e) < Stage(c, d, f) => e \in seen
         /\ \A r \in 1..w : <<r, "cursor", 0>> \in seen <=> r <= pub
         /\ \A s \in 0..(n - 1) :
              /\ First(c, d, w, s) \in 1..w /\ c[First(c, d, w, s)] = s
              /\ d[First(c, d, w, s)] = 1
<1>1. w \in Nat /\ n \in Nat /\ fin \in BOOLEAN /\ Laid(c, d, w, n, u) /\ pub \in 0..w
  BY DEF View, Seen
<1>2. /\ h \in -1..(n - 1)
      /\ \A s \in 0..(n - 1) : <<First(c, d, w, s), "invalid", 0>> \in seen <=> s <= h
  BY DEF View, Newest
<1>3. Closed(c, d, Stores(c, d, w, n, fin), seen)
  BY DEF View, Seen, Stores
<1>4. \A r \in 1..w : <<r, "cursor", 0>> \in seen <=> r <= pub
  BY DEF View, Seen
<1>5. \A s \in 0..(n - 1) : /\ First(c, d, w, s) \in 1..w /\ c[First(c, d, w, s)] = s
                            /\ d[First(c, d, w, s)] = 1
  BY <1>1, Firsts
<1> QED BY <1>1, <1>2, <1>3, <1>4, <1>5 DEF Closed

LEMMA Invalidated ==
  ASSUME NEW c, NEW d, NEW w, NEW n, NEW u, NEW fin, NEW seen, NEW pub, NEW h,
         View(c, d, w, n, u, fin, seen, pub, h), NEW s \in 0..(n - 1)
  PROVE  <<First(c, d, w, s), "invalid", 0>> \in seen <=> s <= h
BY DEF View, Newest

LEMMA FirstOf ==
  ASSUME NEW c, NEW d, NEW w, NEW n, NEW u, NEW fin, NEW seen, NEW pub, NEW h,
         View(c, d, w, n, u, fin, seen, pub, h), NEW s \in 0..h
  PROVE  /\ s \in 0..(n - 1) /\ s \in Nat
         /\ First(c, d, w, s) \in 1..w /\ First(c, d, w, s) \in Nat \ {0}
         /\ c[First(c, d, w, s)] = s /\ d[First(c, d, w, s)] = 1
<1>1. n \in Nat /\ h \in -1..(n - 1)
  BY Viewed
<1>2. s \in 0..(n - 1) /\ s \in Nat /\ s <= h
  BY <1>1
<1>3. /\ First(c, d, w, s) \in 1..w
      /\ c[First(c, d, w, s)] = s /\ d[First(c, d, w, s)] = 1
  BY <1>2, Viewed
<1> QED BY <1>2, <1>3

(* The stores to a chunk's magic, suffix and sequence are its first call's. *)
LEMMA FirstLabels ==
  ASSUME NEW c, NEW d, NEW w \in Nat, NEW n \in Nat, NEW u, NEW v, NEW fin,
         Laid(c, d, w, n, u), NEW f \in Issued(c, d, w, v, fin), f[1] \in 1..w,
         f[2] \in {"invalid", "magic", "zero"} \cup ClearSteps
  PROVE  /\ f[1] = First(c, d, w, c[f[1]])
         /\ f[2] # "zero" => f = <<First(c, d, w, c[f[1]]), f[2], 0>>
<1>1. f[1] \in Nat /\ f = <<f[1], f[2], f[3]>> /\ OfRecord(c, d, f)
  <2>1. f[1] # w + 1
    OBVIOUS
  <2> QED BY <2>1, IssuedParts
<1>2. d[f[1]] = 1 /\ (f[2] # "zero" => f[3] = 0)
  BY <1>1 DEF OfRecord, CommitSteps, ClearSteps
<1>3. /\ d[f[1]] = f[1] - First(c, d, w, c[f[1]]) + 1 /\ c[f[1]] \in 0..(n - 1)
  BY PlaceOf
<1>4. First(c, d, w, c[f[1]]) \in 1..w
  BY <1>3, Firsts
<1>5. f[1] = First(c, d, w, c[f[1]])
  BY <1>1, <1>2, <1>3, <1>4
<1>6. f[2] # "zero" => f = <<f[1], f[2], 0>>
  BY <1>1, <1>2
<1> QED BY <1>5, <1>6

LEMMA MagicOf ==
  ASSUME NEW c, NEW d, NEW w, NEW n, NEW u, NEW fin, NEW seen, NEW pub, NEW h,
         View(c, d, w, n, u, fin, seen, pub, h), Imaged(c, d, seen),
         NEW s \in 0..h, h < s + ChunkCount
  PROVE  memory[Field(SlotOf(s), "magic")] =
           IF <<First(c, d, w, s), "magic", 0>> \in seen THEN TRUE ELSE FALSE
<1> DEFINE F == First(c, d, w, s)
           last == IF <<F, "magic", 0>> \in seen THEN "magic" ELSE "invalid"
           e == <<F, last, 0>>
<1>1. /\ w \in Nat /\ n \in Nat /\ Laid(c, d, w, n, u) /\ h \in -1..(n - 1)
      /\ seen \subseteq Stores(c, d, w, n, fin)
  BY Viewed
<1>2. F \in 1..w /\ c[F] = s /\ d[F] = 1 /\ s \in 0..(n - 1) /\ s <= h
  BY FirstOf
<1>3. F \in 1..w /\ c[F] = s /\ d[F] = 1 /\ <<F, "invalid", 0>> \in seen
  BY <1>2, Invalidated
<1>4. e \in seen /\ e[1] = F /\ e[2] = last /\ last \in {"magic", "invalid"}
  BY <1>3
<1>5. ASSUME NEW f \in seen, f[1] \in 1..w, c[f[1]] = s, FieldOf[f[2]] = "magic"
      PROVE  ~Older(e, f)
  <2>1. f[2] \in {"invalid", "magic"}
    <3>1. f[2] \in Steps
      BY <1>1, <1>5, IssuedParts DEF Stores
    <3> QED BY <1>5, <3>1, StepParts
  <2>2. f = <<F, f[2], 0>>
    <3>1. f \in Stores(c, d, w, n, fin)
      BY <1>1
    <3> QED BY <1>1, <1>5, <2>1, <3>1, FirstLabels DEF Stores
  <2>3. f[1] = e[1] /\ F \in Nat
    BY <1>3, <1>4, <2>2
  <2>4. ~(OrderOf[e[2]] < OrderOf[f[2]])
    <3>1. CASE last = "magic"
      BY <1>4, <2>1, <3>1 DEF OrderOf
    <3>2. CASE last = "invalid"
      <4>1. f[2] # "magic"
        BY <2>2, <3>2
      <4>2. e[2] = "invalid" /\ f[2] = "invalid"
        BY <1>4, <2>1, <3>2, <4>1
      <4> QED BY <4>2 DEF OrderOf
    <3> QED BY <1>4, <3>1, <3>2
  <2> QED BY <1>4, <2>3, <2>4 DEF Older
<1> HIDE DEF e
<1>6. memory[Where(c, d, e)] = What(c, d, e)
  <2>1. e[2] \in SlotSteps /\ FieldOf[e[2]] = "magic"
    BY <1>4 DEF SlotSteps, FieldOf
  <2> HIDE DEF F, last
  <2> QED BY <1>3, <1>4, <1>5, <2>1, LastInChunk DEF View
<1>7. Where(c, d, e) = Field(SlotOf(s), "magic")
  BY <1>3, <1>4 DEF Where, Field, FieldOf, FileSteps, SealSteps
<1>8. What(c, d, e) = IF <<F, "magic", 0>> \in seen THEN TRUE ELSE FALSE
  BY <1>4 DEF What
<1> QED BY <1>6, <1>7, <1>8

(* A chunk with its magic is cleared, and no record before it is missing.   *)
LEMMA Started ==
  ASSUME NEW c, NEW d, NEW w, NEW n, NEW u, NEW fin, NEW seen, NEW pub, NEW h,
         View(c, d, w, n, u, fin, seen, pub, h), NEW s \in 0..h,
         <<First(c, d, w, s), "magic", 0>> \in seen
  PROVE  /\ \A x \in ClearSteps : <<First(c, d, w, s), x, 0>> \in seen
         /\ First(c, d, w, s) <= pub + 1
<1> DEFINE F == First(c, d, w, s)
<1>1. /\ w \in Nat /\ n \in Nat /\ Laid(c, d, w, n, u) /\ h \in -1..(n - 1) /\ pub \in 0..w
      /\ \A f \in seen, e \in Stores(c, d, w, n, fin) :
           Stage(c, d, e) < Stage(c, d, f) => e \in seen
      /\ \A r \in 1..w : <<r, "cursor", 0>> \in seen <=> r <= pub
  BY Viewed
<1>2. F \in 1..w /\ F \in Nat /\ c[F] = s /\ d[F] = 1
  BY FirstOf
<1>3. <<F, "magic", 0>> \in seen
  OBVIOUS
<1> HIDE DEF F
<1>4. Stage(c, d, <<F, "magic", 0>>) = 5 * F + 3 /\ F \in Nat
  BY <1>2, StageOfMagic
<1>5. ASSUME NEW x \in ClearSteps PROVE <<F, x, 0>> \in seen
  <2>1. Stage(c, d, <<F, x, 0>>) = 5 * F + 2
    <3>1. x \in ClearSteps \cup {"zero"}
      OBVIOUS
    <3> QED BY <1>4, <3>1, StageOfClear
  <2>2. <<F, x, 0>> \in Stores(c, d, w, n, fin)
    <3>1. x \in NewSteps
      BY DEF NewSteps
    <3> QED BY <1>1, <1>2, <3>1, IssuedOf DEF Stores
  <2>3. Stage(c, d, <<F, x, 0>>) < Stage(c, d, <<F, "magic", 0>>)
    BY <1>4, <2>1
  <2> QED BY <1>1, <1>3, <2>2, <2>3
<1>6. F <= pub + 1
  <2>1. CASE F = 1
    BY <1>1, <2>1
  <2>2. CASE F # 1
    <3>1. F - 1 \in 1..w /\ F - 1 \in Nat
      BY <1>1, <1>2, <2>2
    <3>2. Stage(c, d, <<F - 1, "cursor", 0>>) = 5 * (F - 1) + 5
      <4>1. "cursor" \in {"cursor", "counts"}
        OBVIOUS
      <4> QED BY <3>1, <4>1, StageOfCursor
    <3>3. <<F - 1, "cursor", 0>> \in Stores(c, d, w, n, fin)
      <4>1. "cursor" \in CommitSteps
        BY DEF CommitSteps
      <4> QED BY <1>1, <3>1, <4>1, IssuedOf DEF Stores
    <3>4. Stage(c, d, <<F - 1, "cursor", 0>>) < Stage(c, d, <<F, "magic", 0>>)
      BY <1>4, <3>2
    <3>5. <<F - 1, "cursor", 0>> \in seen
      BY <1>1, <1>3, <3>3, <3>4
    <3>6. F - 1 <= pub
      BY <1>1, <3>1, <3>5
    <3> QED BY <1>1, <1>4, <3>6
  <2> QED BY <2>1, <2>2
<1> QED BY <1>5, <1>6 DEF F

LEMMA NumberOf ==
  ASSUME NEW c, NEW d, NEW w, NEW n, NEW u, NEW fin, NEW seen, NEW pub, NEW h,
         View(c, d, w, n, u, fin, seen, pub, h), Imaged(c, d, seen),
         NEW s \in 0..h, h < s + ChunkCount, <<First(c, d, w, s), "magic", 0>> \in seen
  PROVE  /\ memory[Field(SlotOf(s), "suffix")]
         /\ memory[Field(SlotOf(s), "sequence")] = s
<1>1. ASSUME NEW x \in {"suffix", "sequence"}
      PROVE  memory[Field(SlotOf(s), x)] = What(c, d, <<First(c, d, w, s), x, 0>>)
  <2> DEFINE F == First(c, d, w, s)
             e == <<F, x, 0>>
  <2>1. /\ w \in Nat /\ n \in Nat /\ Laid(c, d, w, n, u) /\ h \in -1..(n - 1)
        /\ seen \subseteq Stores(c, d, w, n, fin)
    BY Viewed
  <2>3. F \in 1..w /\ c[F] = s
    BY FirstOf
  <2>4. e \in seen /\ e[1] = F /\ e[2] = x
    <3>1. x \in ClearSteps
      BY DEF ClearSteps
    <3> QED BY <3>1, Started
  <2>5. ASSUME NEW f \in seen, f[1] \in 1..w, c[f[1]] = s, FieldOf[f[2]] = FieldOf[e[2]]
        PROVE  ~Older(e, f)
    <3>1. f[2] \in {x, IF x = "suffix" THEN "suffix0" ELSE "sequence0"}
      <4>1. f[2] \in Steps
        BY <2>1, <2>5, IssuedParts DEF Stores
      <4>2. FieldOf[f[2]] = x
        BY <2>4, <2>5 DEF FieldOf
      <4> QED BY <4>1, <4>2, StepParts
    <3>2. f = <<F, f[2], 0>>
      <4>1. f \in Stores(c, d, w, n, fin)
        BY <2>1
      <4>2. f[2] \in {"invalid", "magic", "zero"} \cup ClearSteps /\ f[2] # "zero"
        BY <3>1 DEF ClearSteps
      <4> QED BY <2>1, <2>5, <4>1, <4>2, FirstLabels DEF Stores
    <3>3. f[1] = e[1] /\ F \in Nat
      BY <2>3, <2>4, <3>2
    <3>4. ~(OrderOf[e[2]] < OrderOf[f[2]])
      BY <2>4, <3>1 DEF OrderOf
    <3> QED BY <2>4, <3>3, <3>4 DEF Older
  <2> HIDE DEF e
  <2>6. memory[Where(c, d, e)] = What(c, d, e)
    <3>1. e[2] \in SlotSteps
      BY <2>4 DEF SlotSteps, ClearSteps
    <3> HIDE DEF F
    <3> QED BY <2>3, <2>4, <2>5, <3>1, LastInChunk DEF View
  <2>7. Where(c, d, e) = Field(SlotOf(s), x)
    BY <2>3, <2>4 DEF Where, Field, FieldOf, FileSteps, SealSteps
  <2> QED BY <2>6, <2>7 DEF e, F
<1>2. c[First(c, d, w, s)] = s
  BY FirstOf
<1>3. What(c, d, <<First(c, d, w, s), "suffix", 0>>) = TRUE
  BY DEF What
<1>4. What(c, d, <<First(c, d, w, s), "sequence", 0>>) = s
  BY <1>2 DEF What
<1>5. memory[Field(SlotOf(s), "suffix")]
  BY <1>1, <1>3
<1>6. memory[Field(SlotOf(s), "sequence")] = s
  BY <1>1, <1>4
<1> QED BY <1>5, <1>6

(* The records of chunk s that are published: up to End.                    *)
End(c, d, w, pub, h, s) ==
  IF s < h /\ First(c, d, w, s + 1) <= pub THEN First(c, d, w, s + 1) - 1 ELSE pub

LEMMA PublishedPart ==
  ASSUME NEW c, NEW d, NEW w, NEW n, NEW u, NEW fin, NEW seen, NEW pub, NEW h,
         View(c, d, w, n, u, fin, seen, pub, h), NEW s \in 0..h,
         First(c, d, w, s) <= pub + 1
  PROVE  /\ End(c, d, w, pub, h, s) \in 0..pub
         /\ First(c, d, w, s) <= End(c, d, w, pub, h, s) + 1
         /\ \A r \in 1..pub : c[r] = s <=> /\ First(c, d, w, s) <= r
                                           /\ r <= End(c, d, w, pub, h, s)
<1> DEFINE F(x) == First(c, d, w, x)
           t == End(c, d, w, pub, h, s)
<1>1. /\ w \in Nat /\ n \in Nat /\ Laid(c, d, w, n, u) /\ h \in -1..(n - 1) /\ pub \in 0..w
  BY Viewed
<1>2. F(s) \in 1..w /\ c[F(s)] = s /\ s \in 0..(n - 1)
  BY FirstOf
<1>3. \A r, x \in 1..w : r <= x => c[r] <= c[x]
  BY <1>1, Layout
<1>4. \A r \in 1..w : c[r] \in 0..(n - 1) /\ F(c[r]) <= r
  BY <1>1, Layout
<1>5. CASE s < h
  <2>1. s \in 0..(n - 2) /\ s + 1 \in 0..h
    BY <1>1, <1>2, <1>5
  <2>2. F(s + 1) \in 1..w
    BY <2>1, FirstOf
  <2>3. F(s + 1) - F(s) \in 1..ChunkRecords
    BY <1>1, <2>1, Layout
  <2>4. \A r \in 1..w : c[r] = s <=> F(s) <= r /\ r < F(s + 1)
    BY <1>1, <2>1, Layout
  <2>5. t = IF F(s + 1) <= pub THEN F(s + 1) - 1 ELSE pub
    BY <1>5 DEF End
  <2>6. F(s) \in Nat /\ F(s + 1) \in Nat /\ F(s) < F(s + 1)
    BY <1>2, <2>2, <2>3
  <2> HIDE DEF F, t
  <2>7. t \in 0..pub /\ F(s) <= t + 1
    BY <1>1, <1>2, <2>2, <2>5, <2>6 DEF F
  <2>8. \A r \in 1..pub : r < F(s + 1) <=> r <= t
    BY <1>1, <2>5, <2>6
  <2>9. \A r \in 1..pub : c[r] = s <=> F(s) <= r /\ r <= t
    <3>1. \A r \in 1..pub : r \in 1..w
      BY <1>1
    <3> QED BY <2>4, <2>8, <3>1
  <2> QED BY <2>7, <2>9 DEF F, t
<1>6. CASE ~(s < h)
  <2>1. s = h /\ t = pub
    BY <1>1, <1>2, <1>6 DEF End
  <2>2. ASSUME NEW r \in 1..pub PROVE c[r] = s <=> F(s) <= r /\ r <= pub
    <3>1. r \in 1..w
      BY <1>1
    <3>2. c[r] <= h
      <4>1. <<r, "cursor", 0>> \in seen
        BY <1>1, <3>1, Viewed
      <4>2. <<r, "cursor", 0>>[1] = r /\ <<r, "cursor", 0>>[2] # "wrap"
        OBVIOUS
      <4> QED BY <3>1, <4>1, <4>2, SeenChunks DEF View
    <3>3. F(s) <= r => s <= c[r]
      BY <1>2, <1>3, <3>1
    <3> QED BY <1>1, <1>4, <2>1, <3>1, <3>2, <3>3
  <2> QED BY <1>1, <2>1, <2>2
<1> QED BY <1>5, <1>6

LEMMA CursorOf ==
  ASSUME NEW c, NEW d, NEW w, NEW n, NEW u, NEW fin, NEW seen, NEW pub, NEW h,
         View(c, d, w, n, u, fin, seen, pub, h), Imaged(c, d, seen),
         NEW s \in 0..h, h < s + ChunkCount, <<First(c, d, w, s), "magic", 0>> \in seen
  PROVE  memory[Field(SlotOf(s), "cursor")] =
           End(c, d, w, pub, h, s) - First(c, d, w, s) + 1
<1> DEFINE F == First(c, d, w, s)
           t == End(c, d, w, pub, h, s)
           e == IF t < F THEN <<F, "cursor0", 0>> ELSE <<t, "cursor", 0>>
<1>1. /\ w \in Nat /\ n \in Nat /\ Laid(c, d, w, n, u) /\ h \in -1..(n - 1) /\ pub \in 0..w
      /\ seen \subseteq Stores(c, d, w, n, fin)
  BY Viewed
<1>2. F \in 1..w /\ F \in Nat /\ c[F] = s
  BY FirstOf
<1>3. F <= pub + 1 /\ <<F, "cursor0", 0>> \in seen
  BY Started DEF ClearSteps
<1>4. /\ t \in 0..pub /\ F <= t + 1
      /\ \A r \in 1..pub : c[r] = s <=> F <= r /\ r <= t
  BY <1>3, PublishedPart
<1>5. \A r \in 1..w : <<r, "cursor", 0>> \in seen <=> r <= pub
  BY Viewed
<1> HIDE DEF F, t
<1>6. ASSUME NEW f \in seen, f[1] \in 1..w, c[f[1]] = s, FieldOf[f[2]] = "cursor"
      PROVE  \/ f = <<F, "cursor0", 0>>
             \/ f = <<f[1], "cursor", 0>> /\ F <= f[1] /\ f[1] <= t
  <2>1. f \in Stores(c, d, w, n, fin) /\ f[1] # w + 1
    BY <1>1, <1>6
  <2>2. f[2] \in Steps /\ f = <<f[1], f[2], f[3]>> /\ OfRecord(c, d, f)
    BY <1>1, <2>1, IssuedParts DEF Stores
  <2>3. f[2] \in {"cursor0", "cursor"}
    BY <1>6, <2>2, StepParts
  <2>4. CASE f[2] = "cursor0"
    <3>1. f[2] \in {"invalid", "magic", "zero"} \cup ClearSteps /\ f[2] # "zero"
      BY <2>4 DEF ClearSteps
    <3>2. f = <<F, f[2], 0>>
      BY <1>1, <1>6, <2>1, <3>1, FirstLabels DEF Stores, F
    <3> QED BY <2>4, <3>2
  <2>5. CASE f[2] = "cursor"
    <3>1. f[3] = 0
      BY <2>2, <2>5 DEF OfRecord, ClearSteps
    <3>2. f = <<f[1], "cursor", 0>>
      BY <2>2, <2>5, <3>1
    <3>3. f[1] <= pub
      BY <1>5, <1>6, <3>2
    <3>4. f[1] \in 1..pub
      BY <1>1, <1>6, <3>3
    <3> QED BY <1>4, <1>6, <3>2, <3>4
  <2> QED BY <2>3, <2>4, <2>5
<1>7. CASE t < F
  <2> DEFINE g == <<F, "cursor0", 0>>
  <2>1. g \in seen /\ g[1] = F /\ g[2] = "cursor0" /\ g[1] \in 1..w
    BY <1>2, <1>3
  <2>2. ASSUME NEW f \in seen, f[1] \in 1..w, c[f[1]] = s, FieldOf[f[2]] = "cursor"
        PROVE  ~Older(g, f)
    <3>1. f = g
      BY <1>1, <1>2, <1>4, <1>6, <1>7, <2>2
    <3> QED BY <1>2, <3>1 DEF Older, OrderOf
  <2> HIDE DEF g
  <2>3. memory[Where(c, d, g)] = What(c, d, g)
    <3>1. g[2] \in SlotSteps /\ FieldOf[g[2]] = "cursor" /\ c[g[1]] = s
      BY <1>2, <2>1 DEF SlotSteps, ClearSteps, FieldOf
    <3> QED BY <2>1, <2>2, <3>1, LastInChunk DEF View
  <2>4. Where(c, d, g) = Field(SlotOf(s), "cursor") /\ What(c, d, g) = 0
    BY <1>2, <2>1 DEF Where, What, Field, FieldOf, FileSteps, SealSteps
  <2>5. t - F + 1 = 0
    BY <1>1, <1>2, <1>4, <1>7
  <2> QED BY <2>3, <2>4, <2>5 DEF F, t
<1>8. CASE ~(t < F)
  <2> DEFINE g == <<t, "cursor", 0>>
  <2>1. t \in 1..pub /\ t \in 1..w /\ c[t] = s /\ t <= pub /\ t \in Nat
    BY <1>1, <1>2, <1>4, <1>8
  <2>2. g \in seen /\ g[1] = t /\ g[2] = "cursor"
    BY <1>5, <2>1
  <2>3. ASSUME NEW f \in seen, f[1] \in 1..w, c[f[1]] = s, FieldOf[f[2]] = "cursor"
        PROVE  ~Older(g, f)
    <3>1. CASE f = <<F, "cursor0", 0>>
      <4>1. f[1] = F /\ f[2] = "cursor0"
        BY <3>1
      <4> QED BY <1>2, <1>8, <2>1, <2>2, <4>1 DEF Older, OrderOf
    <3>2. CASE f = <<f[1], "cursor", 0>> /\ F <= f[1] /\ f[1] <= t
      <4>1. f[2] = "cursor" /\ f[1] \in Nat
        BY <2>3, <3>2
      <4> QED BY <2>1, <2>2, <3>2, <4>1 DEF Older, OrderOf
    <3> QED BY <1>6, <2>3, <3>1, <3>2
  <2> HIDE DEF g
  <2>4. memory[Where(c, d, g)] = What(c, d, g)
    <3>1. g[2] \in SlotSteps /\ FieldOf[g[2]] = "cursor" /\ c[g[1]] = s /\ g[1] \in 1..w
      BY <2>1, <2>2 DEF SlotSteps, CommitSteps, FieldOf
    <3> QED BY <2>2, <2>3, <3>1, LastInChunk DEF View
  <2>5. Where(c, d, g) = Field(SlotOf(s), "cursor") /\ What(c, d, g) = d[t]
    BY <2>1, <2>2 DEF Where, What, Field, FieldOf, FileSteps, SealSteps
  <2>6. d[t] = t - F + 1
    BY <1>1, <2>1, Layout DEF F
  <2> QED BY <2>4, <2>5, <2>6 DEF F, t
<1> QED BY <1>7, <1>8

LEMMA BodyOf ==
  ASSUME NEW c, NEW d, NEW w, NEW n, NEW u, NEW fin, NEW seen, NEW pub, NEW h,
         View(c, d, w, n, u, fin, seen, pub, h), Imaged(c, d, seen),
         NEW r \in 1..pub, h < c[r] + ChunkCount
  PROVE  memory[Body(SlotOf(c[r]), d[r])] = r
<1> DEFINE g == <<r, "body", 0>>
           s == c[r]
<1>1. /\ w \in Nat /\ n \in Nat /\ Laid(c, d, w, n, u) /\ h \in -1..(n - 1) /\ pub \in 0..w
      /\ seen \subseteq Stores(c, d, w, n, fin)
      /\ \A f \in seen, e \in Stores(c, d, w, n, fin) :
           Stage(c, d, e) < Stage(c, d, f) => e \in seen
      /\ \A x \in 1..w : <<x, "cursor", 0>> \in seen <=> x <= pub
  BY Viewed
<1>2. r \in 1..w /\ r \in Nat
  BY <1>1
<1>3. g \in seen
  <2>1. <<r, "cursor", 0>> \in seen
    BY <1>1, <1>2
  <2>2. g \in Stores(c, d, w, n, fin)
    <3>1. "body" \in CommitSteps
      BY DEF CommitSteps
    <3> QED BY <1>1, <1>2, <3>1, IssuedOf DEF Stores
  <2>3. Stage(c, d, g) = IF d[r] = 1 THEN 5 * r + 3 ELSE 5 * r
    <3>1. "body" \in {"torn", "body"}
      OBVIOUS
    <3> QED BY <1>2, <3>1, StageOfBody
  <2>4. Stage(c, d, <<r, "cursor", 0>>) = 5 * r + 5
    <3>1. "cursor" \in {"cursor", "counts"}
      OBVIOUS
    <3> QED BY <1>2, <3>1, StageOfCursor
  <2>5. Stage(c, d, g) < Stage(c, d, <<r, "cursor", 0>>)
    <3> HIDE DEF g
    <3> QED BY <1>2, <2>3, <2>4
  <2> HIDE DEF g
  <2> QED BY <1>1, <2>1, <2>2, <2>5
<1>4. g[1] = r /\ g[2] = "body"
  OBVIOUS
<1> HIDE DEF g
<1>5. Where(c, d, g) = Body(SlotOf(s), d[r]) /\ What(c, d, g) = r
  BY <1>4 DEF Where, What, Body, FieldOf, FileSteps, SealSteps
<1>6. ASSUME NEW f \in seen, f[1] \in 1..w, c[f[1]] = s, FieldOf[f[2]] = "body",
             Where(c, d, f) = Where(c, d, g)
      PROVE  ~Older(g, f)
  <2>1. f \in Stores(c, d, w, n, fin)
    BY <1>1
  <2>2. f[2] \in Steps
    BY <1>1, <2>1, IssuedParts DEF Stores
  <2>3. f[2] \in {"zero", "torn", "body"}
    BY <1>6, <2>2, StepParts
  <2>4. f[1] <= r /\ f[1] \in Nat
    <3>1. r = First(c, d, w, s) + d[r] - 1 /\ First(c, d, w, s) <= r
      <4>1. /\ d[r] = r - First(c, d, w, s) + 1 /\ First(c, d, w, s) <= r
            /\ First(c, d, w, s) \in 1..w
        BY <1>1, <1>2, PlaceOf
      <4> HIDE DEF s
      <4> QED BY <1>1, <1>2, <4>1
    <3>2. CASE f[2] = "zero"
      <4>1. f[1] = First(c, d, w, s)
        BY <1>1, <1>6, <2>1, <3>2, FirstLabels DEF Stores
      <4> QED BY <1>1, <1>6, <3>1, <4>1
    <3>3. CASE f[2] # "zero"
      <4>1. Where(c, d, f)[3] = d[f[1]]
        BY <2>3, <3>3 DEF Where
      <4>2. Where(c, d, g)[3] = d[r]
        BY <1>5 DEF Body
      <4>3. d[r] = r - First(c, d, w, s) + 1 /\ First(c, d, w, s) \in 1..w
        BY <1>1, <1>2, PlaceOf
      <4>4. d[f[1]] = f[1] - First(c, d, w, s) + 1
        BY <1>1, <1>6, PlaceOf
      <4> HIDE DEF s
      <4> QED BY <1>1, <1>2, <1>6, <4>1, <4>2, <4>3, <4>4
    <3> QED BY <3>2, <3>3
  <2>5. OrderOf[g[2]] = 11 /\ OrderOf[f[2]] \in {2, 10, 11}
    BY <1>4, <2>3 DEF OrderOf
  <2> QED BY <1>2, <1>4, <2>4, <2>5 DEF Older
<1>7. memory[Where(c, d, g)] = What(c, d, g)
  <2>1. g[1] \in 1..w /\ g[2] \in SlotSteps /\ FieldOf[g[2]] = "body" /\ c[g[1]] = s
    BY <1>2, <1>4 DEF SlotSteps, CommitSteps, FieldOf
  <2>2. h < c[g[1]] + ChunkCount
    BY <2>1
  <2>3. \A f \in seen : /\ f[1] \in 1..w /\ c[f[1]] = c[g[1]] /\ f[2] \in SlotSteps
                        /\ FieldOf[f[2]] = FieldOf[g[2]]
                        /\ Where(c, d, f) = Where(c, d, g)
                        => ~Older(g, f)
    BY <1>6, <2>1
  <2> HIDE DEF s
  <2> QED BY <1>3, <2>1, <2>2, <2>3, LastInChunk DEF View
<1> QED BY <1>5, <1>7

Run(a, b) == [i \in 1..(b + 1 - a) |-> a + i - 1]

LEMMA PayloadOf ==
  ASSUME NEW c, NEW d, NEW w, NEW n, NEW u, NEW fin, NEW seen, NEW pub, NEW h,
         View(c, d, w, n, u, fin, seen, pub, h), Imaged(c, d, seen),
         NEW s \in 0..h, h < s + ChunkCount, <<First(c, d, w, s), "magic", 0>> \in seen
  PROVE  Payload(SlotOf(s)) = Run(First(c, d, w, s), End(c, d, w, pub, h, s))
<1> DEFINE F == First(c, d, w, s)
           t == End(c, d, w, pub, h, s)
<1>1. /\ w \in Nat /\ n \in Nat /\ Laid(c, d, w, n, u) /\ pub \in 0..w
  BY Viewed
<1>2. F \in 1..w /\ F \in Nat
  BY FirstOf
<1>3. F <= pub + 1
  BY Started
<1>4. /\ t \in 0..pub /\ F <= t + 1
      /\ \A r \in 1..pub : c[r] = s <=> F <= r /\ r <= t
  BY <1>3, PublishedPart
<1>5. memory[Field(SlotOf(s), "cursor")] = t - F + 1
  BY CursorOf
<1> HIDE DEF F, t
<1>6. ASSUME NEW p \in 1..(t - F + 1) PROVE memory[Body(SlotOf(s), p)] = F + p - 1
  <2> DEFINE r == F + p - 1
  <2>1. r \in 1..pub /\ F <= r /\ r <= t /\ r \in 1..w
    BY <1>1, <1>2, <1>4
  <2>2. r - F + 1 = p
    BY <1>2
  <2> HIDE DEF r
  <2>3. c[r] = s
    BY <1>4, <2>1
  <2>4. d[r] = p
    BY <1>1, <2>1, <2>2, <2>3, PlaceOf DEF F
  <2>5. memory[Body(SlotOf(c[r]), d[r])] = r
    <3>1. h < c[r] + ChunkCount
      BY <2>3
    <3> QED BY <2>1, <3>1, BodyOf
  <2> QED BY <2>3, <2>4, <2>5 DEF r
<1>7. t - F + 1 = t + 1 - F
  BY <1>1, <1>2, <1>4
<1>8. Payload(SlotOf(s)) = [p \in 1..(t - F + 1) |-> memory[Body(SlotOf(s), p)]]
  BY <1>5 DEF Payload
<1>9. Payload(SlotOf(s)) = [p \in 1..(t - F + 1) |-> F + p - 1]
  BY <1>6, <1>8
<1> QED BY <1>7, <1>9 DEF Run, F, t

(* The header's flags: the last of its stores.                              *)
LEMMA FlagsOf ==
  ASSUME NEW c, NEW d, NEW w, NEW n, NEW u, NEW fin, NEW seen, NEW pub, NEW h,
         View(c, d, w, n, u, fin, seen, pub, h), Imaged(c, d, seen)
  PROVE  /\ "crc" \in FileFlags =>
              <<w + 1, "announce", 0>> \in seen \/ <<w + 1, "finalized", 0>> \in seen
         /\ ChunkCount <= h => "wrapped" \in FileFlags
<1> DEFINE file == Field(File, "flags")
           a == <<w + 1, "announce", 0>>
           z == <<w + 1, "finalized", 0>>
<1>1. /\ w \in Nat /\ n \in Nat /\ Laid(c, d, w, n, u) /\ h \in -1..(n - 1)
      /\ seen \subseteq Stores(c, d, w, n, fin)
      /\ \A f \in seen, e \in Stores(c, d, w, n, fin) :
           Stage(c, d, e) < Stage(c, d, f) => e \in seen
  BY Viewed
<1>2. ASSUME NEW e \in seen, Where(c, d, e) = file
      PROVE  \/ e = z \/ e = a
             \/ /\ e[1] \in 1..w /\ e = <<e[1], "wrap", 0>>
                /\ c[e[1]] = ChunkCount /\ d[e[1]] = 1
  <2>1. /\ e[1] \in Nat /\ e[2] \in Steps /\ e = <<e[1], e[2], e[3]>>
        /\ \/ e[1] \in 1..w /\ OfRecord(c, d, e) /\ e[2] \in RecordSteps
           \/ fin /\ e[1] = w + 1 /\ OfFile(e, IF n < ChunkCount THEN n ELSE ChunkCount)
              /\ e[2] \in FileSteps \cup SealSteps
    <3>1. e \in Issued(c, d, w, IF n < ChunkCount THEN n ELSE ChunkCount, fin)
      BY <1>1 DEF Stores
    <3> QED BY <1>1, <3>1, IssuedParts
  <2>2. FieldOf[e[2]] = "flags"
    <3>1. Where(c, d, e)[2] = FieldOf[e[2]]
      BY DEF Where
    <3> QED BY <1>2, <3>1 DEF Field
  <2>3. e[2] \in {"wrap", "announce", "finalized"}
    BY <2>1, <2>2, StepParts
  <2>4. CASE e[2] = "wrap"
    BY <2>1, <2>4 DEF OfRecord, CommitSteps, ClearSteps, FileSteps, SealSteps
  <2>5. CASE e[2] # "wrap"
    <3>1. e[1] = w + 1 /\ OfFile(e, IF n < ChunkCount THEN n ELSE ChunkCount)
      BY <2>1, <2>3, <2>5 DEF RecordSteps, CommitSteps, ClearSteps
    <3>2. e[3] = 0
      BY <2>3, <3>1 DEF OfFile, SealSteps
    <3> QED BY <2>1, <2>3, <2>5, <3>1, <3>2
  <2> QED BY <2>3, <2>4, <2>5
<1>3. Where(c, d, z) = file /\ Where(c, d, a) = file
  BY DEF Where, Field, FieldOf, FileSteps, SealSteps
<1>4. /\ z[1] = w + 1 /\ z[2] = "finalized" /\ a[1] = w + 1 /\ a[2] = "announce"
  OBVIOUS
<1> HIDE DEF a, z
<1>5. CASE z \in seen
  <2>1. \A f \in seen : Where(c, d, f) = Where(c, d, z) => ~Older(z, f)
    <3> SUFFICES ASSUME NEW f \in seen, Where(c, d, f) = file PROVE ~Older(z, f)
      BY <1>3
    <3>1. CASE f = z \/ f = a
      BY <1>1, <1>4, <3>1 DEF Older, OrderOf
    <3>2. CASE f[1] \in 1..w
      BY <1>1, <1>4, <3>2 DEF Older
    <3> QED BY <1>2, <3>1, <3>2
  <2>2. memory[Where(c, d, z)] = What(c, d, z)
    BY <1>5, <2>1 DEF Imaged
  <2>3. FileFlags = FlagsAt(c, w + 1) \cup {"finalized"}
    BY <1>3, <1>4, <2>2 DEF FileFlags, What
  <2>4. ChunkCount <= h => "wrapped" \in FlagsAt(c, w + 1)
    <3> SUFFICES ASSUME ChunkCount <= h PROVE "wrapped" \in FlagsAt(c, w + 1)
      OBVIOUS
    <3>1. w # 0 /\ n - 1 >= ChunkCount
      BY <1>1, PublicationAssumption DEF Laid
    <3>2. c[w] = n - 1 /\ w + 1 > 1 /\ (w + 1) - 1 = w
      BY <1>1, <3>1 DEF Laid
    <3> QED BY <3>1, <3>2 DEF FlagsAt
  <2> QED BY <1>5, <2>3, <2>4 DEF z
<1>6. CASE z \notin seen /\ a \in seen
  <2>1. \A f \in seen : Where(c, d, f) = Where(c, d, a) => ~Older(a, f)
    <3> SUFFICES ASSUME NEW f \in seen, Where(c, d, f) = file PROVE ~Older(a, f)
      BY <1>3
    <3>1. CASE f = a
      BY <1>1, <1>4, <3>1 DEF Older, OrderOf
    <3>2. CASE f[1] \in 1..w
      BY <1>1, <1>4, <3>2 DEF Older
    <3> QED BY <1>2, <1>6, <3>1, <3>2
  <2>2. memory[Where(c, d, a)] = What(c, d, a)
    BY <1>6, <2>1 DEF Imaged
  <2>3. FileFlags = FlagsAt(c, w + 1)
    BY <1>3, <1>4, <2>2 DEF FileFlags, What
  <2>4. ChunkCount <= h => "wrapped" \in FlagsAt(c, w + 1)
    <3> SUFFICES ASSUME ChunkCount <= h PROVE "wrapped" \in FlagsAt(c, w + 1)
      OBVIOUS
    <3>1. w # 0 /\ n - 1 >= ChunkCount
      BY <1>1, PublicationAssumption DEF Laid
    <3>2. c[w] = n - 1 /\ w + 1 > 1 /\ (w + 1) - 1 = w
      BY <1>1, <3>1 DEF Laid
    <3> QED BY <3>1, <3>2 DEF FlagsAt
  <2> QED BY <1>6, <2>3, <2>4 DEF a
<1>7. CASE z \notin seen /\ a \notin seen
  <2>1. ASSUME ChunkCount <= h
        PROVE  \E r \in 1..w : <<r, "wrap", 0>> \in seen
    <3> DEFINE r == First(c, d, w, ChunkCount)
               x == First(c, d, w, h)
               e == <<r, "wrap", 0>>
               f == <<x, "invalid", 0>>
    <3>1. ChunkCount \in 0..(n - 1) /\ h \in 0..(n - 1) /\ ChunkCount \in Nat
      BY <1>1, <2>1, PublicationAssumption
    <3>2. r \in 1..w /\ c[r] = ChunkCount /\ d[r] = 1 /\ x \in 1..w /\ c[x] = h
      BY <3>1, Viewed
    <3>3. r <= x
      <4>1. ChunkCount < h => r < x
        BY <1>1, <3>1, Layout
      <4>2. ChunkCount = h \/ ChunkCount < h
        BY <2>1, <3>1
      <4> HIDE DEF r, x
      <4>3. ChunkCount = h => r = x
        BY DEF r, x
      <4> QED BY <1>1, <3>2, <4>1, <4>2, <4>3
    <3>4. f \in seen
      <4>1. h <= h
        BY <3>1
      <4> QED BY <3>1, <4>1, Invalidated
    <3>5. e \in Stores(c, d, w, n, fin)
      <4> HIDE DEF r
      <4> QED BY <1>1, <3>2, IssuedOf DEF Stores
    <3>6. r \in Nat /\ x \in Nat
      BY <3>2
    <3>7. Stage(c, d, e) = 5 * r
      <4>1. "wrap" \in SealSteps \cup {"wrap", "total"}
        OBVIOUS
      <4> HIDE DEF r
      <4> QED BY <3>6, <4>1, StageOfHead
    <3>8. Stage(c, d, f) > 5 * r
      <4>1. "invalid" \in {"invalid"}
        OBVIOUS
      <4> HIDE DEF r, x
      <4>2. /\ Stage(c, d, <<x, "invalid", 0>>) \in (5 * x)..(5 * x + 1)
            /\ c[x] = ChunkCount => Stage(c, d, <<x, "invalid", 0>>) = 5 * x + 1
        BY <3>6, <4>1, StageOfInvalid
      <4>3. CASE r = x
        BY <3>2, <3>6, <4>2, <4>3
      <4>4. CASE r # x
        BY <3>3, <3>6, <4>2, <4>4
      <4> QED BY <4>3, <4>4
    <3>9. e \in seen
      <4> HIDE DEF e, f, r, x
      <4>1. Stage(c, d, e) < Stage(c, d, f)
        <5>1. Stage(c, d, f) \in Int
          <6>1. f \in Stores(c, d, w, n, fin)
            BY <1>1, <3>4
          <6>2. f \in Labels
            BY <6>1 DEF Stores, Issued
          <6> QED BY <6>2, Levels
        <5> QED BY <3>6, <3>7, <3>8, <5>1
      <4> QED BY <1>1, <3>4, <3>5, <4>1
    <3> QED BY <3>2, <3>9
  <2>2. CASE \E r \in 1..w : <<r, "wrap", 0>> \in seen
    <3>1. PICK r \in 1..w : <<r, "wrap", 0>> \in seen
      BY <2>2
    <3> DEFINE e == <<r, "wrap", 0>>
    <3>2. e[1] = r /\ e[2] = "wrap" /\ e \in seen
      BY <3>1
    <3>3. Where(c, d, e) = file /\ What(c, d, e) = {"wrapped"}
      BY DEF Where, What, Field, FieldOf, FileSteps, SealSteps
    <3>4. \A f \in seen : Where(c, d, f) = Where(c, d, e) => ~Older(e, f)
      <4> SUFFICES ASSUME NEW f \in seen, Where(c, d, f) = file PROVE ~Older(e, f)
        BY <3>3
      <4>1. /\ f[1] \in 1..w /\ f = <<f[1], "wrap", 0>>
            /\ c[f[1]] = ChunkCount /\ d[f[1]] = 1
        BY <1>2, <1>7
      <4>2. c[r] = ChunkCount /\ d[r] = 1
        <5>1. e # a /\ e # z
          BY <1>7, <3>2
        <5> QED BY <1>2, <3>2, <3>3, <5>1
      <4>3. f[1] = r
        <5>1. d[r] = r - First(c, d, w, c[r]) + 1 /\ First(c, d, w, c[r]) \in 1..w
          BY <1>1, PlaceOf
        <5>2. d[f[1]] = f[1] - First(c, d, w, c[f[1]]) + 1
          BY <1>1, <4>1, PlaceOf
        <5> HIDE DEF e
        <5> QED BY <1>1, <4>1, <4>2, <5>1, <5>2
      <4>4. f[2] = "wrap"
        BY <4>1
      <4> HIDE DEF e
      <4> QED BY <3>2, <4>3, <4>4 DEF Older, OrderOf
    <3> HIDE DEF e
    <3>5. memory[Where(c, d, e)] = What(c, d, e)
      BY <3>2, <3>4 DEF Imaged
    <3>6. FileFlags = {"wrapped"}
      BY <3>3, <3>5 DEF FileFlags
    <3> QED BY <3>6
  <2>3. CASE ~ \E r \in 1..w : <<r, "wrap", 0>> \in seen
    <3>1. \A e \in seen : Where(c, d, e) # file
      <4> SUFFICES ASSUME NEW e \in seen, Where(c, d, e) = file PROVE FALSE
        OBVIOUS
      <4>1. e[1] \in 1..w /\ e = <<e[1], "wrap", 0>>
        BY <1>2, <1>7
      <4> QED BY <2>3, <4>1
    <3>2. file \in Locations
      BY Fields
    <3>3. FileFlags = {}
      BY <3>1, <3>2 DEF Imaged, FileFlags, Blank, Field
    <3> QED BY <2>1, <2>3, <3>3
  <2> QED BY <2>2, <2>3
<1> QED BY <1>5, <1>6, <1>7

(* With the chunk CRCs announced, every chunk has its own.                  *)
LEMMA SealOf ==
  ASSUME NEW c, NEW d, NEW w, NEW n, NEW u, NEW fin, NEW seen, NEW pub, NEW h,
         View(c, d, w, n, u, fin, seen, pub, h), Imaged(c, d, seen),
         NEW s \in 0..h, "crc" \in FileFlags
  PROVE  memory[Field(SlotOf(s), "seal")] = 1
<1> DEFINE v == IF n < ChunkCount THEN n ELSE ChunkCount
           e == <<w + 1, "seal", SlotOf(s)>>
<1>1. /\ w \in Nat /\ n \in Nat /\ seen \subseteq Stores(c, d, w, n, fin)
      /\ \A f \in seen, x \in Stores(c, d, w, n, fin) :
           Stage(c, d, x) < Stage(c, d, f) => x \in seen
      /\ Stores(c, d, w, n, fin) = Issued(c, d, w, v, fin)
  BY Viewed DEF Stores
<1>2. PICK f \in seen : f = <<w + 1, "announce", 0>> \/ f = <<w + 1, "finalized", 0>>
  BY FlagsOf
<1>3. s \in 0..(n - 1) /\ s \in Nat
  BY FirstOf
<1>4. SlotOf(s) \in 0..(v - 1) /\ SlotOf(s) \in Nat /\ v \in Nat
  <2>1. SlotOf(s) \in 0..(ChunkCount - 1) /\ (s < ChunkCount => SlotOf(s) = s)
    BY <1>3, SlotRepeats DEF Slots
  <2> QED BY <1>1, <1>3, <2>1, PublicationAssumption
<1> HIDE DEF v
<1>5. w + 1 \in Nat /\ f[1] = w + 1 /\ f[2] \in {"announce", "finalized"}
  BY <1>1, <1>2
<1>6. fin
  <2>1. \/ f[1] \in 1..w
        \/ fin /\ f[1] = w + 1
    BY <1>1, <1>2, IssuedParts
  <2> QED BY <1>1, <1>5, <2>1
<1>7. e[1] = w + 1 /\ e[2] = "seal" /\ e[3] = SlotOf(s)
  OBVIOUS
<1>8. e \in Issued(c, d, w, v, fin)
  <2>1. e \in Labels
    BY <1>4, <1>5 DEF Labels, Steps, SealSteps
  <2>2. OfFile(e, v)
    BY <1>4, <1>7 DEF OfFile, SealSteps
  <2> HIDE DEF e
  <2> QED BY <1>6, <1>7, <2>1, <2>2 DEF Issued
<1>9. Stage(c, d, e) = 5 * (w + 1)
  <2>1. "seal" \in SealSteps \cup {"wrap", "total"}
    BY DEF SealSteps
  <2> QED BY <1>5, <2>1, StageOfHead
<1>10. Stage(c, d, f) > 5 * (w + 1)
  <2>1. Stage(c, d, <<w + 1, "announce", 0>>) = 5 * (w + 1) + 1
    <3>1. "announce" \in {"announce", "crc0", "crc"}
      OBVIOUS
    <3> QED BY <1>5, <3>1, StageOfCrc
  <2>2. Stage(c, d, <<w + 1, "finalized", 0>>) = 5 * (w + 1) + 2
    <3>1. "finalized" \in {"finalized"}
      OBVIOUS
    <3> QED BY <1>5, <3>1, StageOfFinalized
  <2>3. CASE f = <<w + 1, "announce", 0>>
    <3>1. Stage(c, d, f) = 5 * (w + 1) + 1
      BY <2>1, <2>3
    <3> QED BY <1>1, <3>1
  <2>4. CASE f = <<w + 1, "finalized", 0>>
    <3>1. Stage(c, d, f) = 5 * (w + 1) + 2
      BY <2>2, <2>4
    <3> QED BY <1>1, <3>1
  <2> QED BY <1>2, <2>3, <2>4
<1>11. e \in seen
  <2> HIDE DEF e
  <2>1. Stage(c, d, f) \in Int
    <3>1. f \in Labels
      BY <1>1 DEF Issued
    <3> QED BY <3>1, Levels
  <2>2. Stage(c, d, e) < Stage(c, d, f)
    BY <1>1, <1>9, <1>10, <2>1
  <2> QED BY <1>1, <1>8, <2>2
<1>12. Where(c, d, e) = Field(SlotOf(s), "seal") /\ What(c, d, e) = 1
  BY DEF Where, What, Field, FieldOf, FileSteps, SealSteps
<1> HIDE DEF e
<1>13. \A x \in seen : Where(c, d, x) = Where(c, d, e) => ~Older(e, x)
  <2> SUFFICES ASSUME NEW x \in seen, Where(c, d, x) = Where(c, d, e) PROVE ~Older(e, x)
    OBVIOUS
  <2>1. /\ x[2] \in Steps
        /\ \/ x[1] \in 1..w /\ x[2] \in RecordSteps
           \/ x[1] = w + 1
    BY <1>1, IssuedParts
  <2>2. FieldOf[x[2]] = "seal"
    <3>1. Where(c, d, x)[2] = FieldOf[x[2]] /\ Where(c, d, e)[2] = "seal"
      BY <1>12 DEF Where, Field
    <3> QED BY <3>1
  <2>3. x[2] \in SealSteps
    BY <2>1, <2>2, StepParts
  <2>4. x[1] = w + 1
    BY <2>1, <2>3 DEF RecordSteps, CommitSteps, ClearSteps, SealSteps
  <2> QED BY <1>1, <1>7, <2>3, <2>4 DEF Older, OrderOf, SealSteps
<1>14. memory[Where(c, d, e)] = What(c, d, e)
  BY <1>11, <1>13 DEF Imaged
<1> QED BY <1>12, <1>14

(* Slots no retained chunk has are blank; the others are read if and only   *)
(* if the magic of their chunk is back.                                     *)
Oldest(h) == IF h < ChunkCount THEN 0 ELSE h - ChunkCount + 1

LEMMA Retained ==
  ASSUME NEW n \in Nat, NEW h \in -1..(n - 1), NEW s \in Oldest(h)..h
  PROVE  s \in 0..h /\ s \in 0..(n - 1) /\ s \in Nat /\ h < s + ChunkCount
BY PublicationAssumption DEF Oldest

LEMMA ReadableOf ==
  ASSUME NEW c, NEW d, NEW w, NEW n, NEW u, NEW fin, NEW seen, NEW pub, NEW h,
         View(c, d, w, n, u, fin, seen, pub, h), Imaged(c, d, seen), NEW slot \in Slots
  PROVE  Readable(slot) <=> \E s \in Oldest(h)..h : /\ slot = SlotOf(s)
                                                    /\ <<First(c, d, w, s), "magic", 0>> \in seen
<1>1. /\ w \in Nat /\ n \in Nat /\ h \in -1..(n - 1) /\ seen \subseteq Stores(c, d, w, n, fin)
      /\ Laid(c, d, w, n, u)
  BY Viewed
<1>2. ASSUME NEW s \in Oldest(h)..h, slot = SlotOf(s),
             <<First(c, d, w, s), "magic", 0>> \in seen
      PROVE  Readable(slot)
  <2>1. s \in 0..h /\ h < s + ChunkCount
    BY <1>1, Retained
  <2>2. memory[Field(SlotOf(s), "magic")] = TRUE
    BY <1>2, <2>1, MagicOf
  <2>3. memory[Field(SlotOf(s), "suffix")]
    BY <1>2, <2>1, NumberOf
  <2>4. "crc" \in FileFlags => memory[Field(SlotOf(s), "seal")] = 1
    BY <2>1, SealOf
  <2> QED BY <1>2, <2>2, <2>3, <2>4 DEF Readable
<1>3. ASSUME Readable(slot)
      PROVE  \E s \in Oldest(h)..h : /\ slot = SlotOf(s)
                                     /\ <<First(c, d, w, s), "magic", 0>> \in seen
  <2> DEFINE S == {s \in 0..h : SlotOf(s) = slot}
  <2>1. memory[Field(slot, "magic")] # FALSE
    BY <1>3 DEF Readable
  <2>2. PICK e \in seen : Where(c, d, e) = Field(slot, "magic")
    <3> SUFFICES ASSUME \A e \in seen : Where(c, d, e) # Field(slot, "magic") PROVE FALSE
      OBVIOUS
    <3>1. Field(slot, "magic") \in Locations
      BY Fields
    <3>2. memory[Field(slot, "magic")] = Blank(Field(slot, "magic"))
      BY <3>1 DEF Imaged
    <3> QED BY <2>1, <3>2 DEF Blank, Field
  <2>3. e[1] \in 1..w /\ e[2] \in {"invalid", "magic"}
    <3>1. /\ e[2] \in Steps
          /\ \/ e[1] \in 1..w
             \/ e[2] \in FileSteps \cup SealSteps
      <4>1. e \in Issued(c, d, w, IF n < ChunkCount THEN n ELSE ChunkCount, fin)
        BY <1>1 DEF Stores
      <4> QED BY <1>1, <4>1, IssuedParts
    <3>2. FieldOf[e[2]] = "magic"
      <4>1. Where(c, d, e)[2] = FieldOf[e[2]]
        BY DEF Where
      <4> QED BY <2>2, <4>1 DEF Field
    <3>3. e[2] \in {"invalid", "magic"}
      BY <3>1, <3>2, StepParts
    <3> QED BY <3>1, <3>3 DEF FileSteps, SealSteps
  <2>4. c[e[1]] \in S
    <3>1. c[e[1]] \in 0..(n - 1)
      BY <1>1, <2>3, PlaceOf
    <3>2. c[e[1]] <= h
      BY <2>3, SeenChunks DEF View
    <3>3. Where(c, d, e)[1] = SlotOf(c[e[1]])
      BY <2>3 DEF Where, FileSteps, SealSteps
    <3>4. SlotOf(c[e[1]]) = slot
      BY <2>2, <3>3 DEF Field
    <3> QED BY <1>1, <3>1, <3>2, <3>4
  <2>5. PICK s \in S : \A x \in S : x <= s
    <3>1. S \in SUBSET (0..h) /\ S # {} /\ h \in Nat
      BY <1>1, <2>4
    <3> HIDE DEF S
    <3> QED BY <3>1, Greatest
  <2>6. s \in 0..h /\ SlotOf(s) = slot /\ s \in Nat
    BY <1>1
  <2>7. s + ChunkCount > h
    <3> SUFFICES ASSUME s + ChunkCount <= h PROVE FALSE
      BY <1>1, <2>6, PublicationAssumption
    <3>1. SlotOf(s + ChunkCount) = slot
      BY <2>6, SlotRepeats
    <3>2. s + ChunkCount \in S
      BY <1>1, <2>6, <3>1, PublicationAssumption
    <3> QED BY <2>5, <2>6, <3>2, PublicationAssumption
  <2>8. s \in Oldest(h)..h
    BY <1>1, <2>6, <2>7, PublicationAssumption DEF Oldest
  <2>9. <<First(c, d, w, s), "magic", 0>> \in seen
    <3>1. h < s + ChunkCount
      BY <1>1, <2>6, <2>7, PublicationAssumption
    <3>2. memory[Field(SlotOf(s), "magic")] =
            IF <<First(c, d, w, s), "magic", 0>> \in seen THEN TRUE ELSE FALSE
      BY <2>6, <3>1, MagicOf
    <3> QED BY <2>1, <2>6, <3>2
  <2> QED BY <2>6, <2>8, <2>9
<1> QED BY <1>2, <1>3

LEMMA RunParts ==
  ASSUME NEW a \in Nat, NEW b \in Nat, a <= b + 1
  PROVE  /\ Run(a, b) \in Seq(Nat) /\ Len(Run(a, b)) = b + 1 - a
         /\ \A i \in 1..(b + 1 - a) : Run(a, b)[i] = a + i - 1
<1>1. b + 1 - a \in Nat /\ \A i \in 1..(b + 1 - a) : a + i - 1 \in Nat
  OBVIOUS
<1>2. Run(a, b) \in [1..(b + 1 - a) -> Nat]
  BY <1>1 DEF Run
<1>3. Run(a, b) \in Seq(Nat)
  BY <1>1, <1>2, SeqDef
<1>4. Len(Run(a, b)) = b + 1 - a
  BY <1>1, <1>2, <1>3, LenProperties
<1> QED BY <1>3, <1>4 DEF Run

LEMMA RunEmpty ==
  ASSUME NEW a \in Nat, NEW b \in Nat, b < a
  PROVE  Run(a, b) = <<>>
<1>1. 1..(b + 1 - a) = {}
  OBVIOUS
<1> QED BY <1>1 DEF Run

LEMMA RunJoined ==
  ASSUME NEW a \in Nat, NEW b \in Nat, NEW e \in Nat, a <= b + 1, b <= e
  PROVE  Run(a, b) \o Run(b + 1, e) = Run(a, e)
<1> DEFINE x == Run(a, b)
           y == Run(b + 1, e)
           z == Run(a, e)
<1>1. /\ x \in Seq(Nat) /\ Len(x) = b + 1 - a /\ \A i \in 1..(b + 1 - a) : x[i] = a + i - 1
  BY RunParts
<1>2. b + 1 \in Nat /\ b + 1 <= e + 1 /\ a <= e + 1
  OBVIOUS
<1>3. /\ y \in Seq(Nat) /\ Len(y) = e + 1 - (b + 1)
      /\ \A i \in 1..(e + 1 - (b + 1)) : y[i] = b + 1 + i - 1
  BY <1>2, RunParts
<1>4. /\ z \in Seq(Nat) /\ Len(z) = e + 1 - a /\ \A i \in 1..(e + 1 - a) : z[i] = a + i - 1
  BY <1>2, RunParts
<1> HIDE DEF x, y, z
<1>5. /\ x \o y \in Seq(Nat) /\ Len(x \o y) = Len(x) + Len(y)
      /\ \A i \in 1..(Len(x) + Len(y)) : (x \o y)[i] = IF i <= Len(x) THEN x[i] ELSE y[i - Len(x)]
  BY <1>1, <1>3, ConcatProperties
<1>6. Len(x \o y) = e + 1 - a
  BY <1>1, <1>3, <1>5
<1>7. ASSUME NEW i \in 1..(e + 1 - a) PROVE (x \o y)[i] = z[i]
  <2>0. z[i] = a + i - 1 /\ i \in 1..(Len(x) + Len(y))
    BY <1>1, <1>3, <1>4
  <2>1. CASE i <= b + 1 - a
    BY <1>1, <1>5, <2>0, <2>1
  <2>2. CASE ~(i <= b + 1 - a)
    <3>1. i - (b + 1 - a) \in 1..(e + 1 - (b + 1))
      BY <2>2
    <3>2. y[i - (b + 1 - a)] = b + 1 + (i - (b + 1 - a)) - 1
      BY <1>3, <3>1
    <3>3. (x \o y)[i] = y[i - (b + 1 - a)]
      BY <1>1, <1>5, <2>0, <2>2
    <3>4. b + 1 + (i - (b + 1 - a)) - 1 = a + i - 1
      OBVIOUS
    <3> QED BY <2>0, <3>2, <3>3, <3>4
  <2> QED BY <2>1, <2>2
<1>8. x \o y = z
  <2>1. Len(x \o y) = Len(z) /\ \A i \in 1..Len(x \o y) : (x \o y)[i] = z[i]
    BY <1>4, <1>6, <1>7
  <2> QED BY <1>4, <1>5, <2>1, SameSeq
<1> QED BY <1>8 DEF x, y, z

(* The magic of every chunk but the newest is back, and no record of the    *)
(* newest is published before its magic is.                                 *)
LEMMA Magics ==
  ASSUME NEW c, NEW d, NEW w, NEW n, NEW u, NEW fin, NEW seen, NEW pub, NEW h,
         View(c, d, w, n, u, fin, seen, pub, h), NEW s \in 0..h
  PROVE  /\ s < h => <<First(c, d, w, s), "magic", 0>> \in seen
         /\ First(c, d, w, s) <= pub => <<First(c, d, w, s), "magic", 0>> \in seen
<1> DEFINE F == First(c, d, w, s)
           e == <<F, "magic", 0>>
<1>1. /\ w \in Nat /\ n \in Nat /\ Laid(c, d, w, n, u) /\ h \in -1..(n - 1) /\ pub \in 0..w
      /\ \A f \in seen, x \in Stores(c, d, w, n, fin) :
           Stage(c, d, x) < Stage(c, d, f) => x \in seen
      /\ \A r \in 1..w : <<r, "cursor", 0>> \in seen <=> r <= pub
  BY Viewed
<1>2. F \in 1..w /\ F \in Nat /\ c[F] = s /\ d[F] = 1 /\ s \in 0..(n - 1)
  BY FirstOf
<1>3. e \in Stores(c, d, w, n, fin) /\ Stage(c, d, e) = 5 * F + 3
  <2>1. "magic" \in NewSteps /\ "magic" \in {"magic"}
    BY DEF NewSteps
  <2> HIDE DEF F
  <2> QED BY <1>1, <1>2, <2>1, IssuedOf, StageOfMagic DEF Stores
<1>4. ASSUME s < h PROVE e \in seen
  <2> DEFINE H == First(c, d, w, h)
             f == <<H, "invalid", 0>>
  <2>1. h \in 0..(n - 1) /\ h \in 0..h
    BY <1>1, <1>2, <1>4
  <2>2. F < H
    BY <1>1, <1>2, <1>4, <2>1, Layout
  <2>3. H \in Nat
    BY <2>1, FirstOf
  <2>4. f \in seen
    <3>1. h <= h
      BY <2>1
    <3> QED BY <2>1, <3>1, Invalidated
  <2>5. Stage(c, d, f) \in (5 * H)..(5 * H + 1)
    <3>1. "invalid" \in {"invalid"}
      OBVIOUS
    <3> HIDE DEF H
    <3> QED BY <2>3, <3>1, StageOfInvalid
  <2> HIDE DEF H, f, F, e
  <2>6. Stage(c, d, e) < Stage(c, d, f)
    BY <1>2, <1>3, <2>2, <2>3, <2>5
  <2> QED BY <1>1, <1>3, <2>4, <2>6
<1>5. ASSUME F <= pub PROVE e \in seen
  <2> DEFINE f == <<F, "cursor", 0>>
  <2>1. f \in seen
    BY <1>1, <1>2, <1>5
  <2>2. Stage(c, d, f) = 5 * F + 5
    <3>1. "cursor" \in {"cursor", "counts"}
      OBVIOUS
    <3> HIDE DEF F
    <3> QED BY <1>2, <3>1, StageOfCursor
  <2> HIDE DEF F, f, e
  <2>3. Stage(c, d, e) < Stage(c, d, f)
    BY <1>2, <1>3, <2>2
  <2> QED BY <1>1, <1>3, <2>1, <2>3
<1> QED BY <1>4, <1>5

LEMMA NothingPublished ==
  ASSUME NEW c, NEW d, NEW w, NEW n, NEW u, NEW fin, NEW seen, NEW pub, NEW h,
         View(c, d, w, n, u, fin, seen, pub, h), h = -1
  PROVE  pub = 0
<1>1. /\ w \in Nat /\ n \in Nat /\ Laid(c, d, w, n, u) /\ pub \in 0..w
      /\ \A r \in 1..w : <<r, "cursor", 0>> \in seen <=> r <= pub
  BY Viewed
<1>2. SUFFICES ASSUME pub # 0 PROVE FALSE
  OBVIOUS
<1>3. pub \in 1..w
  BY <1>1, <1>2
<1>4. c[pub] <= h
  <2>1. <<pub, "cursor", 0>> \in seen
    BY <1>1, <1>3
  <2>2. <<pub, "cursor", 0>>[1] = pub /\ <<pub, "cursor", 0>>[2] # "wrap"
    OBVIOUS
  <2> QED BY <1>3, <2>1, <2>2, SeenChunks DEF View
<1>5. c[pub] \in 0..(n - 1)
  BY <1>1, <1>3, PlaceOf
<1> QED BY <1>1, <1>4, <1>5

(* A recovery read at any moment: from the first record of the oldest chunk *)
(* that still has its slot to the newest published one.                     *)
LEMMA ViewOf ==
  ASSUME NEW c, NEW d, NEW w, NEW n, NEW u, NEW fin, NEW seen, NEW pub, NEW h,
         View(c, d, w, n, u, fin, seen, pub, h), Imaged(c, d, seen)
  PROVE  Recovered = Run(First(c, d, w, Oldest(h)), pub)
<1> DEFINE F(s) == First(c, d, w, s)
           E(s) == End(c, d, w, pub, h, s)
           M(s) == <<F(s), "magic", 0>> \in seen
           lo == Oldest(h)
           top == IF h >= 0 /\ M(h) THEN h ELSE h - 1
           m == IF h = -1 THEN 0 ELSE top - lo + 1
           q == [i \in 1..m |-> SlotOf(lo + i - 1)]
           g == [k \in 0..m |-> IF k = 0 THEN <<>> ELSE Run(F(lo), E(lo + k - 1))]
<1>1. /\ w \in Nat /\ n \in Nat /\ Laid(c, d, w, n, u) /\ h \in -1..(n - 1) /\ pub \in 0..w
  BY Viewed
<1>2. ASSUME NEW s \in 0..h
      PROVE  /\ F(s) \in Nat \ {0} /\ s \in 0..(n - 1)
             /\ s < h => M(s)
             /\ F(s) <= pub => M(s)
             /\ M(s) => F(s) <= pub + 1
  <2>1. F(s) \in Nat \ {0} /\ s \in 0..(n - 1)
    BY FirstOf
  <2>2. (s < h => M(s)) /\ (F(s) <= pub => M(s))
    BY Magics
  <2>3. M(s) => F(s) <= pub + 1
    BY Started
  <2> QED BY <2>1, <2>2, <2>3
<1>3. ASSUME NEW s \in 0..h, M(s)
      PROVE  E(s) \in 0..pub /\ F(s) <= E(s) + 1
  <2>1. F(s) <= pub + 1
    BY <1>2, <1>3
  <2> QED BY <2>1, PublishedPart
<1>4. lo \in Nat /\ (h >= 0 => lo <= h) /\ top \in Int /\ m \in Nat
  BY <1>1, PublicationAssumption DEF Oldest
<1>5. ASSUME NEW s \in lo..h PROVE s \in 0..h /\ h < s + ChunkCount /\ s \in Nat
  BY <1>1, Retained
<1> HIDE DEF F, E, M, lo
<1>6. ASSUME NEW i \in 1..m PROVE lo + i - 1 \in lo..h /\ M(lo + i - 1) /\ lo + i - 1 \in 0..h
  <2>1. h # -1 /\ lo + i - 1 \in lo..top
    BY <1>1, <1>4
  <2>2. lo + i - 1 \in lo..h
    BY <1>1, <1>4, <2>1
  <2>3. lo + i - 1 \in 0..h
    BY <1>5, <2>2
  <2>4. M(lo + i - 1)
    <3>1. lo + i - 1 \in Int /\ h \in Int /\ lo + i - 1 <= h
      BY <1>1, <1>4, <2>2
    <3>2. lo + i - 1 <= top
      BY <2>1
    <3>3. CASE lo + i - 1 < h
      <4>1. lo + i - 1 < h => M(lo + i - 1)
        BY <1>2, <2>3
      <4> QED BY <3>3, <4>1
    <3>4. CASE lo + i - 1 = h
      BY <3>1, <3>2, <3>4
    <3> QED BY <3>1, <3>3, <3>4
  <2> QED BY <2>2, <2>3, <2>4
<1>7. \A slot \in Slots : Readable(slot) <=> \E i \in 1..m : slot = SlotOf(lo + i - 1)
  <2> SUFFICES ASSUME NEW slot \in Slots
               PROVE  Readable(slot) <=> \E i \in 1..m : slot = SlotOf(lo + i - 1)
    OBVIOUS
  <2>1. Readable(slot) <=> \E s \in lo..h : slot = SlotOf(s) /\ M(s)
    BY ReadableOf DEF lo, M, F
  <2>2. ASSUME NEW i \in 1..m, slot = SlotOf(lo + i - 1)
        PROVE  \E s \in lo..h : slot = SlotOf(s) /\ M(s)
    BY <1>6, <2>2
  <2>3. ASSUME NEW s \in lo..h, slot = SlotOf(s), M(s)
        PROVE  \E i \in 1..m : slot = SlotOf(lo + i - 1)
    <3>1. h # -1 /\ s <= top
      <4>1. s \in 0..h
        BY <1>5
      <4>2. s = h => M(h)
        BY <2>3
      <4> QED BY <1>1, <1>4, <4>1, <4>2
    <3>2. s - lo + 1 \in 1..m /\ lo + (s - lo + 1) - 1 = s
      BY <1>1, <1>4, <3>1
    <3> QED BY <2>3, <3>2
  <2> QED BY <2>1, <2>2, <2>3
<1>8. \A i \in 1..m : memory[Field(SlotOf(lo + i - 1), "sequence")] = lo + i - 1
  <2> SUFFICES ASSUME NEW i \in 1..m
               PROVE  memory[Field(SlotOf(lo + i - 1), "sequence")] = lo + i - 1
    OBVIOUS
  <2> DEFINE s == lo + i - 1
  <2>1. s \in lo..h /\ M(s) /\ s \in 0..h
    BY <1>6
  <2>2. h < s + ChunkCount
    BY <1>5, <2>1
  <2> HIDE DEF s
  <2>4. memory[Field(SlotOf(s), "sequence")] = s
    <3>1. <<First(c, d, w, s), "magic", 0>> \in seen /\ s \in 0..h
      BY <2>1 DEF M, F
    <3> QED BY <2>2, <3>1, NumberOf
  <2> QED BY <2>4 DEF s
<1>9. InOrder = q
  <2> HIDE DEF m
  <2> QED BY <1>4, <1>7, <1>8, Order
<1>10. ASSUME NEW k \in 1..m PROVE g[k] = g[k - 1] \o Payload(q[k])
  <2> DEFINE s == lo + k - 1
  <2>1. s \in lo..h /\ M(s) /\ s \in 0..h
    BY <1>6
  <2>2. h < s + ChunkCount /\ s \in Nat
    BY <1>5, <2>1
  <2>3. Payload(SlotOf(s)) = Run(F(s), E(s))
    <3> HIDE DEF s
    <3> QED BY <2>1, <2>2, PayloadOf DEF M, F, E
  <2>4. E(s) \in 0..pub /\ F(s) <= E(s) + 1 /\ F(s) \in Nat \ {0} /\ F(s) <= pub + 1
    <3>1. E(s) \in 0..pub /\ F(s) <= E(s) + 1
      BY <1>3, <2>1
    <3>2. F(s) \in Nat \ {0} /\ (M(s) => F(s) <= pub + 1)
      BY <1>2, <2>1
    <3> QED BY <2>1, <3>1, <3>2
  <2>5. g[k] = Run(F(lo), E(s)) /\ q[k] = SlotOf(s) /\ k \in 0..m /\ k - 1 \in 0..m
    BY <1>4
  <2>6. CASE k = 1
    <3>1. g[k - 1] = <<>> /\ s = lo
      BY <1>4, <2>6
    <3>2. Run(F(s), E(s)) \in Seq(Nat)
      <4>1. F(s) \in Nat /\ E(s) \in Nat /\ F(s) <= E(s) + 1
        BY <1>1, <2>4
      <4> HIDE DEF s
      <4> QED BY <4>1, RunParts
    <3>3. <<>> \o Run(F(s), E(s)) = Run(F(s), E(s))
      BY <3>2
    <3> QED BY <2>3, <2>5, <3>1, <3>3
  <2>7. CASE k # 1
    <3> DEFINE p == s - 1
    <3>1. k - 1 \in 1..m /\ lo + (k - 1) - 1 = p /\ p + 1 = s /\ p < h
      BY <1>1, <1>4, <2>1, <2>7
    <3>2. p \in lo..h /\ M(p) /\ p \in 0..h
      <4>1. lo + (k - 1) - 1 \in lo..h /\ M(lo + (k - 1) - 1) /\ lo + (k - 1) - 1 \in 0..h
        BY <1>6, <3>1
      <4> HIDE DEF p
      <4> QED BY <3>1, <4>1
    <3>3. g[k - 1] = Run(F(lo), E(p))
      <4> HIDE DEF p
      <4> QED BY <1>4, <2>5, <2>7, <3>1
    <3>4. E(p) = F(s) - 1
      <4>1. E(p) = IF F(p + 1) <= pub THEN F(p + 1) - 1 ELSE pub
        BY <3>1 DEF E, End, F
      <4> HIDE DEF p, s
      <4> QED BY <1>1, <2>4, <3>1, <4>1
    <3>5. lo \in 0..h /\ lo <= p
      <4>1. lo \in lo..h
        BY <1>1, <1>4, <3>2
      <4> QED BY <1>5, <3>2, <4>1, <1>4
    <3>6. F(lo) \in Nat /\ F(lo) <= F(s)
      <4>1. F(lo) \in Nat \ {0} /\ lo \in 0..(n - 1) /\ s \in 0..(n - 1)
        BY <1>2, <2>1, <3>5
      <4>2. lo < s
        BY <1>4, <2>2, <3>1, <3>5
      <4>3. F(lo) < F(s)
        BY <1>1, <4>1, <4>2, Layout DEF F
      <4> QED BY <2>4, <4>1, <4>3
    <3>7. /\ E(p) \in Nat /\ E(s) \in Nat /\ F(lo) <= E(p) + 1 /\ E(p) <= E(s)
          /\ E(p) + 1 = F(s)
      <4> HIDE DEF p, s
      <4> QED BY <1>1, <2>4, <3>4, <3>6
    <3>8. Run(F(lo), E(p)) \o Run(E(p) + 1, E(s)) = Run(F(lo), E(s))
      <4> HIDE DEF p, s
      <4> QED BY <3>6, <3>7, RunJoined
    <3> QED BY <2>3, <2>5, <3>3, <3>7, <3>8
  <2> QED BY <2>6, <2>7
<1>11. Recovered = g[m]
  <2>1. g[0] = <<>> /\ DOMAIN q = 1..m
    BY <1>4
  <2> HIDE DEF g, q, m
  <2> QED BY <1>4, <1>9, <1>10, <2>1, Read
<1>12. g[m] = Run(F(lo), pub)
  <2>1. CASE h = -1
    <3>1. m = 0 /\ g[m] = <<>>
      BY <2>1, <1>4
    <3>2. pub = 0
      BY <2>1, NothingPublished
    <3>3. F(lo) = 1
      BY <2>1, PublicationAssumption DEF F, lo, First, Oldest
    <3>4. Run(1, 0) = <<>>
      BY RunEmpty
    <3> QED BY <3>1, <3>2, <3>3, <3>4
  <2>2. CASE h # -1
    <3>1. h \in 0..h /\ h \in Nat /\ lo <= h /\ lo \in 0..h
      BY <1>1, <1>4, <2>2
    <3>2. F(h) \in Nat /\ (~M(h) => pub < F(h))
      <4>1. F(h) \in Nat /\ (F(h) <= pub => M(h))
        BY <1>2, <3>1
      <4> QED BY <1>1, <4>1
    <3>3. CASE m = 0
      <4>1. lo = h /\ ~M(h)
        BY <2>2, <3>1, <3>3, <1>4
      <4>2. Run(F(lo), pub) = <<>>
        BY <1>1, <3>2, <4>1, RunEmpty
      <4> QED BY <3>3, <4>2
    <3>4. CASE m # 0
      <4>1. g[m] = Run(F(lo), E(top)) /\ top \in lo..h
        <5>1. lo + m - 1 = top
          BY <1>4, <2>2
        <5>2. top \in lo..h
          BY <1>4, <2>2, <3>1, <3>4
        <5>3. g[m] = Run(F(lo), E(lo + m - 1))
          <6> HIDE DEF m, top
          <6> QED BY <1>4, <3>4
        <5> QED BY <5>1, <5>2, <5>3
      <4>2. E(top) = pub
        <5>1. CASE M(h)
          BY <3>1, <5>1 DEF E, End
        <5>2. CASE ~M(h)
          <6>1. top = h - 1 /\ top + 1 = h
            BY <3>1, <5>2
          <6>2. ~(F(top + 1) <= pub)
            BY <1>1, <3>2, <5>2, <6>1
          <6> HIDE DEF top
          <6> QED BY <6>2 DEF E, End, F
        <5> QED BY <5>1, <5>2
      <4> QED BY <4>1, <4>2
    <3> QED BY <3>3, <3>4
  <2> QED BY <2>1, <2>2
<1> QED BY <1>11, <1>12 DEF F, lo

(* When the magic of a chunk is gone, all but the newest record before it   *)
(* is published.                                                            *)
LEMMA Behind ==
  ASSUME NEW c, NEW d, NEW w, NEW n, NEW u, NEW fin, NEW seen, NEW pub, NEW h,
         View(c, d, w, n, u, fin, seen, pub, h), h # -1
  PROVE  First(c, d, w, h) <= pub + 2
<1> DEFINE F == First(c, d, w, h)
           r == F - 2
<1>1. /\ w \in Nat /\ n \in Nat /\ h \in -1..(n - 1) /\ pub \in 0..w
      /\ \A f \in seen, x \in Stores(c, d, w, n, fin) :
           Stage(c, d, x) < Stage(c, d, f) => x \in seen
      /\ \A t \in 1..w : <<t, "cursor", 0>> \in seen <=> t <= pub
  BY Viewed
<1>2. h \in 0..h /\ h \in 0..(n - 1)
  BY <1>1
<1>3. F \in 1..w /\ F \in Nat
  BY <1>2, FirstOf
<1> HIDE DEF F
<1>4. r < 1 => F <= pub + 2
  BY <1>1, <1>3
<1>5. ASSUME ~(r < 1) PROVE F <= pub + 2
  <2>1. r \in 1..w /\ r \in Nat /\ "cursor" \in CommitSteps /\ "cursor" \in {"cursor", "counts"}
    BY <1>1, <1>3, <1>5 DEF CommitSteps
  <2>2. <<F, "invalid", 0>> \in seen
    <3>1. h <= h
      BY <1>2
    <3> QED BY <1>2, <3>1, Invalidated DEF F
  <2>3. Stage(c, d, <<F, "invalid", 0>>) \in (5 * F)..(5 * F + 1)
    <3>1. "invalid" \in {"invalid"}
      OBVIOUS
    <3> QED BY <1>3, <3>1, StageOfInvalid
  <2>4. Stage(c, d, <<r, "cursor", 0>>) = 5 * r + 5
    <3> HIDE DEF r
    <3> QED BY <2>1, StageOfCursor
  <2>5. Stage(c, d, <<r, "cursor", 0>>) < Stage(c, d, <<F, "invalid", 0>>)
    BY <1>1, <1>3, <2>1, <2>3, <2>4
  <2>6. <<r, "cursor", 0>> \in Stores(c, d, w, n, fin)
    <3> HIDE DEF r
    <3> QED BY <1>1, <2>1, IssuedOf DEF Stores
  <2>7. r <= pub
    <3> DEFINE e == <<r, "cursor", 0>>
               f == <<F, "invalid", 0>>
    <3>1. f \in seen /\ e \in Stores(c, d, w, n, fin) /\ Stage(c, d, e) < Stage(c, d, f)
      BY <2>2, <2>5, <2>6
    <3> HIDE DEF e, f
    <3>2. e \in seen
      BY <1>1, <3>1
    <3> HIDE DEF r
    <3>3. <<r, "cursor", 0>> \in seen
      BY <3>2 DEF e
    <3> QED BY <1>1, <2>1, <3>3
  <2> QED BY <1>1, <1>3, <2>7
<1> QED BY <1>4, <1>5 DEF F

(* What is recovered starts with the oldest chunk's first record.           *)
LEMMA OldestOf ==
  ASSUME NEW c, NEW d, NEW w, NEW n, NEW u, NEW fin, NEW seen, NEW pub, NEW h,
         View(c, d, w, n, u, fin, seen, pub, h)
  PROVE  /\ Oldest(h) \in Nat /\ First(c, d, w, Oldest(h)) \in Nat \ {0}
         /\ h < ChunkCount => First(c, d, w, Oldest(h)) = 1
         /\ h # -1 => Oldest(h) \in 0..h
<1>1. n \in Nat /\ h \in -1..(n - 1)
  BY Viewed
<1>2. /\ Oldest(h) \in Nat /\ (h < ChunkCount => Oldest(h) = 0)
      /\ h # -1 => Oldest(h) \in 0..h
  BY <1>1, PublicationAssumption DEF Oldest
<1>3. Oldest(h) = 0 => First(c, d, w, Oldest(h)) = 1
  BY DEF First
<1>4. h # -1 => First(c, d, w, Oldest(h)) \in Nat \ {0}
  BY <1>2, FirstOf
<1>5. h = -1 => h < ChunkCount
  BY <1>1, PublicationAssumption
<1> QED BY <1>2, <1>3, <1>4, <1>5

LEMMA ViewRecovers ==
  ASSUME NEW c, NEW d, NEW w, NEW n, NEW u, NEW fin, NEW seen, NEW pub, NEW h,
         View(c, d, w, n, u, fin, seen, pub, h), Imaged(c, d, seen), published = pub
  PROVE  RecoversNewestRun
<1> DEFINE lo == Oldest(h)
           a == First(c, d, w, lo)
           R == Recovered
<1>1. w \in Nat /\ n \in Nat /\ h \in -1..(n - 1) /\ pub \in 0..w /\ pub \in Nat
  BY Viewed
<1>2. lo \in Nat /\ a \in Nat \ {0} /\ (h < ChunkCount => a = 1) /\ (h # -1 => lo \in 0..h)
  BY OldestOf
<1>3. R = Run(a, pub)
  BY ViewOf
<1>4. pub > 0 /\ ChunkCount > 2 => a <= pub
  <2>1. SUFFICES ASSUME pub > 0, ChunkCount > 2 PROVE a <= pub
    OBVIOUS
  <2>2. CASE h < ChunkCount
    BY <1>1, <1>2, <2>1, <2>2
  <2>3. CASE ~(h < ChunkCount)
    <3>1. lo = h - ChunkCount + 1 /\ h - 1 \in 0..(n - 1) /\ h \in 0..(n - 1) /\ h # -1
      BY <1>1, <2>1, <2>3, PublicationAssumption DEF Oldest
    <3>2. lo < h - 1 /\ lo \in 0..(n - 1)
      BY <1>1, <1>2, <2>1, <3>1, PublicationAssumption
    <3> DEFINE F(s) == First(c, d, w, s)
    <3>3. F(lo) < F(h - 1) /\ F(h - 1) < F(h)
      <4>1. \A s, t \in 0..(n - 1) : s < t => F(s) < F(t)
        BY Layout, Viewed
      <4> HIDE DEF F, lo
      <4>2. h - 1 < h
        BY <1>1
      <4> QED BY <3>1, <3>2, <4>1, <4>2
    <3>4. F(lo) \in Nat /\ F(h - 1) \in Nat /\ F(h) \in Nat
      <4>1. lo \in 0..h /\ h - 1 \in 0..h /\ h \in 0..h
        BY <1>2, <3>1
      <4> HIDE DEF lo
      <4> QED BY <4>1, FirstOf
    <3>5. F(h) <= pub + 2
      BY <3>1, Behind
    <3> HIDE DEF F, lo
    <3>6. F(lo) <= pub
      BY <1>1, <3>3, <3>4, <3>5
    <3> QED BY <3>6 DEF F
  <2> QED BY <2>2, <2>3
<1> HIDE DEF lo, a, R
<1>5. CASE pub < a
  <2>1. R = <<>>
    BY <1>1, <1>2, <1>3, <1>5, RunEmpty
  <2>2. Len(R) = 0
    BY <2>1
  <2>3. ~(pub > 0 /\ ChunkCount > 2)
    BY <1>1, <1>2, <1>4, <1>5
  <2> QED BY <2>1, <2>2, <2>3 DEF RecoversNewestRun, R
<1>6. CASE ~(pub < a)
  <2>1. /\ R \in Seq(Nat) /\ Len(R) = pub + 1 - a /\ \A i \in 1..(pub + 1 - a) : R[i] = a + i - 1
    <3>1. a \in Nat /\ a <= pub + 1
      BY <1>1, <1>2, <1>6
    <3> QED BY <1>1, <1>3, <3>1, RunParts
  <2>2. \A i \in 2..Len(R) : R[i] = R[i - 1] + 1
    <3>1. ASSUME NEW i \in 2..Len(R) PROVE R[i] = R[i - 1] + 1
      <4>1. i \in 1..(pub + 1 - a) /\ i - 1 \in 1..(pub + 1 - a)
        BY <1>1, <1>2, <2>1
      <4>2. R[i] = a + i - 1 /\ R[i - 1] = a + (i - 1) - 1
        BY <2>1, <4>1
      <4>3. a \in Int /\ i \in Int
        BY <1>2
      <4> QED BY <4>2, <4>3
    <3> QED BY <3>1
  <2>3. R # <<>>
    <3>1. Len(R) # 0
      BY <1>1, <1>2, <1>6, <2>1
    <3> QED BY <3>1
  <2>4. Last(R) = pub /\ R[1] > 0
    BY <1>1, <1>2, <1>6, <2>1 DEF Last
  <2> QED BY <2>2, <2>3, <2>4 DEF RecoversNewestRun, R
<1> QED BY <1>5, <1>6

LEMMA ViewFlagged ==
  ASSUME NEW c, NEW d, NEW w, NEW n, NEW u, NEW fin, NEW seen, NEW pub, NEW h,
         View(c, d, w, n, u, fin, seen, pub, h), Imaged(c, d, seen), published = pub
  PROVE  LossIsFlagged
<1> DEFINE R == Recovered
<1>1. n \in Nat /\ h \in -1..(n - 1) /\ pub \in Nat
  BY Viewed
<1>2. CASE h < ChunkCount
  <2>1. R = Run(1, pub)
    BY <1>2, ViewOf, OldestOf
  <2> HIDE DEF R
  <2>2. R \in Seq(Nat) /\ Len(R) = pub + 1 - 1 /\ \A i \in 1..(pub + 1 - 1) : R[i] = 1 + i - 1
    <3>1. 1 \in Nat /\ 1 <= pub + 1
      BY <1>1
    <3> QED BY <1>1, <2>1, <3>1, RunParts
  <2>3. pub > 0 => R # <<>> /\ R[1] = 1
    <3> SUFFICES ASSUME pub > 0 PROVE R # <<>> /\ R[1] = 1
      OBVIOUS
    <3>1. Len(R) # 0
      BY <1>1, <2>2
    <3>2. R[1] = 1
      BY <1>1, <2>2
    <3> QED BY <3>1, <3>2
  <2> QED BY <2>3 DEF LossIsFlagged, R
<1>3. CASE ~(h < ChunkCount)
  <2>1. ChunkCount <= h
    BY <1>1, <1>3, PublicationAssumption
  <2>2. "wrapped" \in FileFlags
    BY <2>1, FlagsOf
  <2> QED BY <2>2 DEF LossIsFlagged
<1> QED BY <1>2, <1>3

----------------------------------------------------------------------------
(* One more record leaves what earlier ones say as it was.                  *)
Grown(c, d, w, a, b) == \A r \in 1..w : a[r] = c[r] /\ b[r] = d[r]
Added(c, d, r) == {e \in Labels : e[1] = r /\ OfRecord(c, d, e)}
Sealed(r, v)   == {e \in Labels : e[1] = r /\ OfFile(e, v)}

LEMMA SameLabel ==
  ASSUME NEW c, NEW d, NEW w, NEW a, NEW b, Grown(c, d, w, a, b),
         NEW e, e[1] \in 1..w, e[2] \in RecordSteps
  PROVE  /\ Where(a, b, e) = Where(c, d, e) /\ What(a, b, e) = What(c, d, e)
         /\ Stage(a, b, e) = Stage(c, d, e) /\ Entry(a, b, e) = Entry(c, d, e)
<1>1. a[e[1]] = c[e[1]] /\ b[e[1]] = d[e[1]]
  BY DEF Grown
<1>2. Where(a, b, e) = Where(c, d, e)
  BY <1>1 DEF Where
<1>3. What(a, b, e) = What(c, d, e)
  BY <1>1 DEF What, RecordSteps, CommitSteps, ClearSteps
<1>4. Stage(a, b, e) = Stage(c, d, e)
  BY <1>1 DEF Stage, Level
<1> QED BY <1>2, <1>3, <1>4 DEF Entry

LEMMA SameQueue ==
  ASSUME NEW c, NEW d, NEW w, NEW a, NEW b, Grown(c, d, w, a, b),
         NEW q, NEW n, NEW r, NEW k, Queue(c, d, q, n, r, k),
         \A e \in Waiting(q) : e[1] \in 1..w /\ e[2] \in RecordSteps
  PROVE  Queue(a, b, q, n, r, k) /\ Mapped(a, b, q) = Mapped(c, d, q)
<1>1. ASSUME NEW i \in DOMAIN q
      PROVE  /\ q[i] # Barrier => /\ Where(a, b, q[i]) = Where(c, d, q[i])
                                  /\ Stage(a, b, q[i]) = Stage(c, d, q[i])
             /\ Entry(a, b, q[i]) = Entry(c, d, q[i])
  <2>1. CASE q[i] = Barrier
    BY <2>1 DEF Entry
  <2>2. CASE q[i] # Barrier
    <3>1. q[i][1] \in 1..w /\ q[i][2] \in RecordSteps
      BY <2>2 DEF Waiting
    <3> QED BY <3>1, SameLabel
  <2> QED BY <2>1, <2>2
<1>2. Paired(a, b, q)
  <2> SUFFICES ASSUME NEW i \in DOMAIN q, NEW j \in DOMAIN q, i < j, q[i] # Barrier, q[j] # Barrier
               PROVE  Pair(a, b, q, i, j)
    BY DEF Paired
  <2>1. Pair(c, d, q, i, j)
    BY DEF Queue, Paired
  <2> QED BY <1>1, <2>1 DEF Pair
<1>3. Queue(a, b, q, n, r, k)
  BY <1>1, <1>2 DEF Queue
<1>4. Mapped(a, b, q) = Mapped(c, d, q)
  <2>1. DOMAIN q = 1..Len(q)
    BY LenProperties DEF Queue
  <2> QED BY <1>1, <2>1 DEF Mapped
<1> QED BY <1>3, <1>4

LEMMA IssuedGrows ==
  ASSUME NEW c, NEW d, NEW w \in Nat, NEW a, NEW b, Grown(c, d, w, a, b), NEW v, NEW t
  PROVE  Issued(a, b, w + 1, t, FALSE) = Issued(c, d, w, v, FALSE) \cup Added(a, b, w + 1)
<1>1. ASSUME NEW e, e[1] \in 1..w PROVE OfRecord(a, b, e) <=> OfRecord(c, d, e)
  <2>1. a[e[1]] = c[e[1]] /\ b[e[1]] = d[e[1]]
    BY <1>1 DEF Grown
  <2> QED BY <2>1 DEF OfRecord
<1>2. \A i \in Nat : i \in 1..(w + 1) <=> (i \in 1..w \/ i = w + 1)
  OBVIOUS
<1>3. \A e \in Labels : e[1] \in Nat
  BY LabelParts
<1> QED BY <1>1, <1>2, <1>3 DEF Issued, Added

LEMMA IssuedSealed ==
  ASSUME NEW c, NEW d, NEW w \in Nat, NEW v
  PROVE  Issued(c, d, w, v, TRUE) = Issued(c, d, w, v, FALSE) \cup Sealed(w + 1, v)
BY DEF Issued, Sealed

(* What waits in a queue that grew.                                         *)
LEMMA WaitingJoined ==
  ASSUME NEW S, NEW x \in Seq(S), NEW y \in Seq(S)
  PROVE  Waiting(x \o y) = Waiting(x) \cup Waiting(y)
<1> DEFINE z == x \o y
<1>1. /\ \A i \in DOMAIN x : i \in DOMAIN z /\ z[i] = x[i]
      /\ \A i \in DOMAIN y : Len(x) + i \in DOMAIN z /\ z[Len(x) + i] = y[i]
  BY Joined
<1>2. \A k \in DOMAIN z : \/ k \in DOMAIN x
                          \/ k - Len(x) \in DOMAIN y /\ k = Len(x) + (k - Len(x))
  BY Joined
<1> HIDE DEF z
<1>3. ASSUME NEW e \in Waiting(z) PROVE e \in Waiting(x) \cup Waiting(y)
  <2>1. PICK k \in DOMAIN z : e = z[k] /\ e # Barrier
    BY DEF Waiting
  <2>2. CASE k \in DOMAIN x
    BY <1>1, <2>1, <2>2 DEF Waiting
  <2>3. CASE k - Len(x) \in DOMAIN y /\ k = Len(x) + (k - Len(x))
    <3>1. z[k] = y[k - Len(x)]
      BY <1>1, <2>3
    <3> QED BY <2>1, <2>3, <3>1 DEF Waiting
  <2> QED BY <1>2, <2>2, <2>3
<1>4. ASSUME NEW e \in Waiting(x) PROVE e \in Waiting(z)
  BY <1>1 DEF Waiting
<1>5. ASSUME NEW e \in Waiting(y) PROVE e \in Waiting(z)
  BY <1>1 DEF Waiting
<1> QED BY <1>3, <1>4, <1>5 DEF z

(* A piece with one barrier, its steps in order.                            *)
LEMMA StepPiece ==
  ASSUME NEW c, NEW d, NEW x \in Seq(Labels \cup {Barrier}), NEW n \in Nat, NEW m \in Nat,
         NEW r \in Nat, NEW k \in Nat, NEW l \in Nat, NEW b \in DOMAIN x, n <= m, k <= l,
         x[b] = Barrier,
         \A i \in DOMAIN x : i # b =>
           /\ x[i] # Barrier /\ x[i][1] = r /\ Stage(c, d, x[i]) = IF i < b THEN n ELSE m
           /\ k <= OrderOf[x[i][2]] /\ OrderOf[x[i][2]] < l,
         \A i, j \in DOMAIN x : i < j /\ i # b /\ j # b => OrderOf[x[i][2]] < OrderOf[x[j][2]]
  PROVE  Piece(c, d, x, n, m, r, k, l)
<1>1. DOMAIN x = 1..Len(x) /\ Len(x) \in Nat
  BY LenProperties
<1>2. ASSUME NEW i \in DOMAIN x, x[i] # Barrier
      PROVE  /\ i # b /\ x[i][1] = r /\ Stage(c, d, x[i]) = (IF i < b THEN n ELSE m)
             /\ OrderOf[x[i][2]] \in Nat /\ k <= OrderOf[x[i][2]] /\ OrderOf[x[i][2]] < l
  BY <1>2, StepOrder
<1>3. Paired(c, d, x)
  <2> SUFFICES ASSUME NEW i \in DOMAIN x, NEW j \in DOMAIN x, i < j, x[i] # Barrier, x[j] # Barrier
               PROVE  Pair(c, d, x, i, j)
    BY DEF Paired
  <2>1. Older(x[i], x[j]) /\ x[i] # x[j]
    <3>1. OrderOf[x[i][2]] < OrderOf[x[j][2]] /\ x[i][1] = x[j][1] /\ OrderOf[x[i][2]] \in Nat
      BY <1>2
    <3> QED BY <3>1 DEF Older
  <2>2. Stage(c, d, x[i]) <= Stage(c, d, x[j])
    BY <1>1, <1>2
  <2>3. Stage(c, d, x[i]) < Stage(c, d, x[j]) => Barred(x, i, j)
    <3> SUFFICES ASSUME Stage(c, d, x[i]) < Stage(c, d, x[j]) PROVE Barred(x, i, j)
      OBVIOUS
    <3>1. i < b /\ b < j
      BY <1>1, <1>2
    <3> QED BY <3>1 DEF Barred
  <2> QED BY <2>1, <2>2, <2>3 DEF Pair
<1>4. ASSUME NEW i \in DOMAIN x, x[i] # Barrier
      PROVE  /\ n <= Stage(c, d, x[i]) /\ Stage(c, d, x[i]) <= m
             /\ n < Stage(c, d, x[i]) => \E t \in DOMAIN x : t < i /\ x[t] = Barrier
             /\ Stage(c, d, x[i]) < m => \E t \in DOMAIN x : i < t /\ x[t] = Barrier
  BY <1>1, <1>2, <1>4
<1> QED BY <1>2, <1>3, <1>4 DEF Piece

(* A piece without a barrier.                                               *)
LEMMA FlatPiece ==
  ASSUME NEW c, NEW d, NEW x \in Seq(Labels \cup {Barrier}), NEW n \in Nat,
         NEW r \in Nat, NEW k \in Nat, NEW l \in Nat, k <= l,
         \A i \in DOMAIN x : /\ x[i][1] = r /\ Stage(c, d, x[i]) = n
                             /\ k <= OrderOf[x[i][2]] /\ OrderOf[x[i][2]] < l,
         \A i, j \in DOMAIN x : i < j =>
           /\ x[i] # x[j]
           /\ Where(c, d, x[i]) = Where(c, d, x[j]) => Older(x[i], x[j])
  PROVE  Piece(c, d, x, n, n, r, k, l)
<1>1. Paired(c, d, x)
  BY DEF Paired, Pair
<1> QED BY <1>1 DEF Piece

----------------------------------------------------------------------------
(* The pieces of a call, as labels.                                         *)
LEMMA Two ==
  ASSUME NEW S, NEW x1 \in S, NEW x2 \in S
  PROVE  /\ <<x1, x2>> \in Seq(S) /\ Len(<<x1, x2>>) = 2 /\ DOMAIN <<x1, x2>> = 1..2
         /\ <<x1, x2>>[1] = x1 /\ <<x1, x2>>[2] = x2
OBVIOUS

LEMMA Five ==
  ASSUME NEW S, NEW x1 \in S, NEW x2 \in S, NEW x3 \in S, NEW x4 \in S, NEW x5 \in S
  PROVE  LET q == <<x1, x2, x3, x4, x5>>
         IN  /\ q \in Seq(S) /\ Len(q) = 5 /\ DOMAIN q = 1..5
             /\ q[1] = x1 /\ q[2] = x2 /\ q[3] = x3 /\ q[4] = x4 /\ q[5] = x5
OBVIOUS

LEMMA Eight ==
  ASSUME NEW S, NEW x1 \in S, NEW x2 \in S, NEW x3 \in S, NEW x4 \in S, NEW x5 \in S,
         NEW x6 \in S, NEW x7 \in S, NEW x8 \in S
  PROVE  LET q == <<x1, x2, x3, x4, x5, x6, x7, x8>>
         IN  /\ q \in Seq(S) /\ Len(q) = 8 /\ DOMAIN q = 1..8
             /\ q[1] = x1 /\ q[2] = x2 /\ q[3] = x3 /\ q[4] = x4 /\ q[5] = x5
             /\ q[6] = x6 /\ q[7] = x7 /\ q[8] = x8
OBVIOUS

LEMMA LabelOf ==
  ASSUME NEW r \in Nat, NEW s \in Steps, NEW i \in Nat
  PROVE  /\ <<r, s, i>> \in Labels /\ <<r, s, i>> # Barrier
         /\ <<r, s, i>>[1] = r /\ <<r, s, i>>[2] = s /\ <<r, s, i>>[3] = i
BY DEF Labels, Barrier

(* A sequence is what a queue maps to when it is so place by place.         *)
LEMMA MapsTo ==
  ASSUME NEW c, NEW d, NEW S, NEW q \in Seq(S), NEW T, NEW z \in Seq(T), Len(z) = Len(q),
         \A i \in DOMAIN q : z[i] = Entry(c, d, q[i])
  PROVE  Mapped(c, d, q) = z
<1> DEFINE m == Mapped(c, d, q)
           U == T \cup EntriesOf(c, d, S)
<1>1. /\ Len(m) = Len(q) /\ Len(q) \in Nat /\ DOMAIN q = 1..Len(q)
      /\ \A i \in 1..Len(q) : m[i] = Entry(c, d, q[i])
  BY MappedShape
<1>6. m \in Seq(EntriesOf(c, d, S))
  BY MappedParts
<1>2. T \subseteq U /\ EntriesOf(c, d, S) \subseteq U
  OBVIOUS
<1> HIDE DEF m
<1>3. m \in Seq(U) /\ z \in Seq(U)
  BY <1>2, <1>6, SeqMonotonic
<1>4. Len(m) = Len(z) /\ \A i \in 1..Len(m) : m[i] = z[i]
  BY <1>1
<1> HIDE DEF U
<1>5. m = z
  BY <1>3, <1>4, SameSeq
<1> QED BY <1>5 DEF m

(* What a store's entry is.                                                 *)
LEMMA ZeroEntry ==
  ASSUME NEW c, NEW d, NEW r, NEW i
  PROVE  Entry(c, d, <<r, "zero", i>>) = Store(Body(SlotOf(c[r]), i), 0)
BY DEF Entry, Where, What, Store, Body, FieldOf, FileSteps, SealSteps, Barrier

LEMMA MarkEntries ==
  ASSUME NEW c, NEW d, NEW r
  PROVE  /\ Entry(c, d, <<r, "invalid", 0>>) = Store(Field(SlotOf(c[r]), "magic"), FALSE)
         /\ Entry(c, d, <<r, "suffix0", 0>>) = Store(Field(SlotOf(c[r]), "suffix"), FALSE)
         /\ Entry(c, d, <<r, "suffix", 0>>) = Store(Field(SlotOf(c[r]), "suffix"), TRUE)
         /\ Entry(c, d, <<r, "magic", 0>>) = Store(Field(SlotOf(c[r]), "magic"), TRUE)
BY DEF Entry, Where, What, Store, Field, Body, FieldOf, FileSteps, SealSteps, Barrier

LEMMA ClearEntries ==
  ASSUME NEW c, NEW d, NEW r
  PROVE  /\ Entry(c, d, <<r, "cursor0", 0>>) = Store(Field(SlotOf(c[r]), "cursor"), 0)
         /\ Entry(c, d, <<r, "counts0", 0>>) = Store(Field(SlotOf(c[r]), "counts"), 0)
         /\ Entry(c, d, <<r, "sequence0", 0>>) = Store(Field(SlotOf(c[r]), "sequence"), Torn)
BY DEF Entry, Where, What, Store, Field, Body, FieldOf, FileSteps, SealSteps, Barrier

LEMMA NumberEntry ==
  ASSUME NEW c, NEW d, NEW r
  PROVE  Entry(c, d, <<r, "sequence", 0>>) = Store(Field(SlotOf(c[r]), "sequence"), c[r])
BY DEF Entry, Where, What, Store, Field, Body, FieldOf, FileSteps, SealSteps, Barrier

LEMMA TornEntry ==
  ASSUME NEW c, NEW d, NEW r
  PROVE  Entry(c, d, <<r, "torn", 0>>) = Store(Body(SlotOf(c[r]), d[r]), Torn)
BY DEF Entry, Where, What, Store, Field, Body, FieldOf, FileSteps, SealSteps, Barrier

LEMMA BodyEntry ==
  ASSUME NEW c, NEW d, NEW r
  PROVE  Entry(c, d, <<r, "body", 0>>) = Store(Body(SlotOf(c[r]), d[r]), r)
BY DEF Entry, Where, What, Store, Field, Body, FieldOf, FileSteps, SealSteps, Barrier

LEMMA CursorEntries ==
  ASSUME NEW c, NEW d, NEW r
  PROVE  /\ Entry(c, d, <<r, "cursor", 0>>) = Store(Field(SlotOf(c[r]), "cursor"), d[r])
         /\ Entry(c, d, <<r, "counts", 0>>) = Store(Field(SlotOf(c[r]), "counts"), d[r])
BY DEF Entry, Where, What, Store, Field, Body, FieldOf, FileSteps, SealSteps, Barrier

LEMMA Seal0Entry ==
  ASSUME NEW c, NEW d, NEW r, NEW i
  PROVE  Entry(c, d, <<r, "seal0", i>>) = Store(Field(i, "seal"), Torn)
BY DEF Entry, Where, What, Store, Field, Body, FieldOf, FileSteps, SealSteps, Barrier

LEMMA SealEntry ==
  ASSUME NEW c, NEW d, NEW r, NEW i
  PROVE  Entry(c, d, <<r, "seal", i>>) = Store(Field(i, "seal"), 1)
BY DEF Entry, Where, What, Store, Field, Body, FieldOf, FileSteps, SealSteps, Barrier

LEMMA WrapEntryOf ==
  ASSUME NEW c, NEW d, NEW r
  PROVE  Entry(c, d, <<r, "wrap", 0>>) = Store(Field(File, "flags"), {"wrapped"})
BY DEF Entry, Where, What, Store, Field, Body, FieldOf, FileSteps, SealSteps, Barrier

LEMMA TotalEntry ==
  ASSUME NEW c, NEW d, NEW r
  PROVE  Entry(c, d, <<r, "total", 0>>) = Store(Field(File, "counts"), r - 1)
BY DEF Entry, Where, What, Store, Field, Body, FieldOf, FileSteps, SealSteps, Barrier

LEMMA FlagEntries ==
  ASSUME NEW c, NEW d, NEW r
  PROVE  /\ Entry(c, d, <<r, "announce", 0>>) = Store(Field(File, "flags"), FlagsAt(c, r))
         /\ Entry(c, d, <<r, "finalized", 0>>) = Store(Field(File, "flags"), FlagsAt(c, r) \cup {"finalized"})
BY DEF Entry, Where, What, Store, Field, Body, FieldOf, FileSteps, SealSteps, Barrier

LEMMA Crc0Entry ==
  ASSUME NEW c, NEW d, NEW r
  PROVE  Entry(c, d, <<r, "crc0", 0>>) = Store(Field(File, "crc"), Torn)
BY DEF Entry, Where, What, Store, Field, Body, FieldOf, FileSteps, SealSteps, Barrier

LEMMA CrcEntry ==
  ASSUME NEW c, NEW d, NEW r
  PROVE  Entry(c, d, <<r, "crc", 0>>) = Store(Field(File, "crc"), 1)
BY DEF Entry, Where, What, Store, Field, Body, FieldOf, FileSteps, SealSteps, Barrier

WrapPiece(c, r) == IF c[r] = ChunkCount THEN <<<<r, "wrap", 0>>, Barrier>> ELSE <<>>
InvalidPiece(r) == <<<<r, "invalid", 0>>, Barrier>>
ZeroPiece(r)    == [p \in 1..ChunkRecords |-> <<r, "zero", p>>]
ClearPiece(r)   ==
  <<<<r, "suffix0", 0>>, <<r, "cursor0", 0>>, <<r, "counts0", 0>>, <<r, "sequence0", 0>>,
    <<r, "sequence", 0>>, <<r, "suffix", 0>>, Barrier, <<r, "magic", 0>>>>
CommitPiece(r)  ==
  <<<<r, "torn", 0>>, <<r, "body", 0>>, Barrier, <<r, "cursor", 0>>, <<r, "counts", 0>>>>
TotalPiece(r)   == <<<<r, "total", 0>>, Barrier>>
FlagPiece(r)    ==
  <<<<r, "announce", 0>>, <<r, "crc0", 0>>, <<r, "crc", 0>>, Barrier, <<r, "finalized", 0>>>>

LEMMA Orders ==
  /\ OrderOf["wrap"] = 0 /\ OrderOf["invalid"] = 1 /\ OrderOf["zero"] = 2
  /\ OrderOf["suffix0"] = 3 /\ OrderOf["cursor0"] = 4 /\ OrderOf["counts0"] = 5
  /\ OrderOf["sequence0"] = 6 /\ OrderOf["sequence"] = 7 /\ OrderOf["suffix"] = 8
  /\ OrderOf["magic"] = 9 /\ OrderOf["torn"] = 10 /\ OrderOf["body"] = 11
  /\ OrderOf["cursor"] = 12 /\ OrderOf["counts"] = 13 /\ OrderOf["seal0"] = 0
  /\ OrderOf["seal"] = 1 /\ OrderOf["total"] = 2 /\ OrderOf["announce"] = 3
  /\ OrderOf["crc0"] = 4 /\ OrderOf["crc"] = 5 /\ OrderOf["finalized"] = 6
BY DEF OrderOf

(* A piece of one store and a barrier.                                      *)
LEMMA PairPiece ==
  ASSUME NEW c, NEW d, NEW r \in Nat, NEW s \in Steps, NEW n \in Nat, NEW m \in Nat, n <= m,
         Stage(c, d, <<r, s, 0>>) = n, NEW k \in Nat, k = OrderOf[s]
  PROVE  LET x == <<<<r, s, 0>>, Barrier>>
         IN  /\ x \in Seq(Labels \cup {Barrier}) /\ Piece(c, d, x, n, m, r, k, k + 1)
             /\ Waiting(x) = {<<r, s, 0>>}
             /\ Mapped(c, d, x) = <<Entry(c, d, <<r, s, 0>>), Barrier>>
<1> DEFINE e == <<r, s, 0>>
           x == <<e, Barrier>>
           S == Labels \cup {Barrier}
<1>1. e \in Labels /\ e # Barrier /\ e[1] = r /\ e[2] = s
  BY LabelOf
<1>2. Stage(c, d, e) = n
  OBVIOUS
<1> HIDE DEF e
<1>3. e \in S /\ Barrier \in S
  BY <1>1
<1>4. x \in Seq(S) /\ Len(x) = 2 /\ DOMAIN x = 1..2 /\ x[1] = e /\ x[2] = Barrier
  <2> HIDE DEF S
  <2> QED BY <1>3, Two
<1> HIDE DEF x
<1>5. \A i \in DOMAIN x : i = 1 \/ i = 2
  BY <1>4
<1>6. Piece(c, d, x, n, m, r, k, k + 1)
  <2>1. 2 \in DOMAIN x /\ k + 1 \in Nat /\ k <= k + 1
    BY <1>4
  <2>2. \A i \in DOMAIN x : i # 2 =>
          /\ x[i] # Barrier /\ x[i][1] = r /\ Stage(c, d, x[i]) = IF i < 2 THEN n ELSE m
          /\ k <= OrderOf[x[i][2]] /\ OrderOf[x[i][2]] < k + 1
    <3>1. k <= OrderOf[x[1][2]] /\ OrderOf[x[1][2]] < k + 1
      BY <1>1, <1>4
    <3> QED BY <1>1, <1>2, <1>4, <1>5, <3>1
  <2>3. \A i, j \in DOMAIN x : i < j /\ i # 2 /\ j # 2 => OrderOf[x[i][2]] < OrderOf[x[j][2]]
    BY <1>5
  <2> QED BY <1>4, <2>1, <2>2, <2>3, StepPiece, ZenonT(30)
<1>7. Waiting(x) = {e}
  BY <1>1, <1>4, <1>5 DEF Waiting
<1>8. Mapped(c, d, x) = <<Entry(c, d, e), Barrier>>
  <2> DEFINE f == Entry(c, d, e)
             z == <<f, Barrier>>
             T == {f, Barrier}
  <2>1. f \in T /\ Barrier \in T
    OBVIOUS
  <2>2. Entry(c, d, Barrier) = Barrier
    BY DEF Entry
  <2> HIDE DEF T, f
  <2>3. z \in Seq(T) /\ Len(z) = 2 /\ z[1] = f /\ z[2] = Barrier
    BY <2>1, Two
  <2> HIDE DEF z
  <2>4. \A i \in DOMAIN x : z[i] = Entry(c, d, x[i])
    BY <1>4, <1>5, <2>2, <2>3 DEF f
  <2>5. Mapped(c, d, x) = z
    BY <1>4, <2>3, <2>4, MapsTo
  <2> QED BY <2>5 DEF z, f
<1> QED BY <1>4, <1>6, <1>7, <1>8 DEF x, e

(* The contents of a new chunk are cleared and set, then its magic.         *)
LEMMA Clearing ==
  ASSUME NEW c, NEW d, NEW r \in Nat
  PROVE  /\ ClearPiece(r) \in Seq(Labels \cup {Barrier})
         /\ Piece(c, d, ClearPiece(r), 5 * r + 2, 5 * r + 3, r, 3, 10)
         /\ Waiting(ClearPiece(r)) = {<<r, s, 0>> : s \in ClearSteps \cup {"magic"}}
         /\ LET slot == SlotOf(c[r])
            IN  Mapped(c, d, ClearPiece(r)) =
                  <<Store(Field(slot, "suffix"), FALSE), Store(Field(slot, "cursor"), 0),
                    Store(Field(slot, "counts"), 0), Store(Field(slot, "sequence"), Torn),
                    Store(Field(slot, "sequence"), c[r]), Store(Field(slot, "suffix"), TRUE),
                    Barrier, Store(Field(slot, "magic"), TRUE)>>
<1> DEFINE e(s) == <<r, s, 0>>
           x == ClearPiece(r)
           S == Labels \cup {Barrier}
<1>1. ASSUME NEW s \in ClearSteps \cup {"magic"}
      PROVE  e(s) \in Labels /\ e(s) # Barrier /\ e(s)[1] = r /\ e(s)[2] = s
  <2>1. s \in Steps
    BY DEF Steps
  <2> QED BY <2>1, LabelOf
<1>2. \A s \in ClearSteps : Stage(c, d, e(s)) = 5 * r + 2
  BY StageOfClear
<1>3. Stage(c, d, e("magic")) = 5 * r + 3
  <2>1. "magic" \in {"magic"}
    OBVIOUS
  <2> QED BY <2>1, StageOfMagic
<1>4. x = <<e("suffix0"), e("cursor0"), e("counts0"), e("sequence0"), e("sequence"), e("suffix"),
            Barrier, e("magic")>>
  BY DEF ClearPiece
<1> HIDE DEF e, x
<1>5. /\ "suffix0" \in ClearSteps /\ "cursor0" \in ClearSteps /\ "counts0" \in ClearSteps
      /\ "sequence0" \in ClearSteps /\ "sequence" \in ClearSteps /\ "suffix" \in ClearSteps
  BY DEF ClearSteps
<1>6. /\ x \in Seq(S) /\ Len(x) = 8 /\ DOMAIN x = 1..8
      /\ x[1] = e("suffix0") /\ x[2] = e("cursor0") /\ x[3] = e("counts0")
      /\ x[4] = e("sequence0") /\ x[5] = e("sequence") /\ x[6] = e("suffix")
      /\ x[7] = Barrier /\ x[8] = e("magic")
  <2>1. /\ e("suffix0") \in S /\ e("cursor0") \in S /\ e("counts0") \in S /\ e("sequence0") \in S
        /\ e("sequence") \in S /\ e("suffix") \in S /\ Barrier \in S /\ e("magic") \in S
    BY <1>1, <1>5
  <2> HIDE DEF S
  <2> QED BY <1>4, <2>1, Eight
<1>7. \A i \in DOMAIN x : i \in {1, 2, 3, 4, 5, 6, 7, 8}
  BY <1>6
<1>8. \A i \in DOMAIN x : i # 7 =>
        /\ x[i] # Barrier /\ x[i][1] = r
        /\ Stage(c, d, x[i]) = IF i < 7 THEN 5 * r + 2 ELSE 5 * r + 3
        /\ OrderOf[x[i][2]] = IF i < 7 THEN i + 2 ELSE 9
  <2> SUFFICES ASSUME NEW i \in {1, 2, 3, 4, 5, 6, 8}
               PROVE  /\ x[i] # Barrier /\ x[i][1] = r
                      /\ Stage(c, d, x[i]) = IF i < 7 THEN 5 * r + 2 ELSE 5 * r + 3
                      /\ OrderOf[x[i][2]] = IF i < 7 THEN i + 2 ELSE 9
    BY <1>7
  <2>1. CASE i # 8
    <3>1. \E s \in ClearSteps : x[i] = e(s) /\ OrderOf[s] = i + 2
      BY <1>5, <1>6, <2>1, Orders
    <3>2. i < 7
      BY <2>1
    <3> QED BY <1>1, <1>2, <3>1, <3>2
  <2>2. CASE i = 8
    BY <1>1, <1>3, <1>6, <2>2, Orders
  <2> QED BY <2>1, <2>2
<1>9. Piece(c, d, x, 5 * r + 2, 5 * r + 3, r, 3, 10)
  <2> DEFINE n == 5 * r + 2
             m == 5 * r + 3
  <2>1. n \in Nat /\ m \in Nat /\ n <= m /\ 3 <= 10 /\ 7 \in DOMAIN x /\ x[7] = Barrier
    BY <1>6
  <2>2. \A i \in DOMAIN x : i # 7 =>
          /\ x[i] # Barrier /\ x[i][1] = r
          /\ Stage(c, d, x[i]) = IF i < 7 THEN n ELSE m
          /\ 3 <= OrderOf[x[i][2]] /\ OrderOf[x[i][2]] < 10
    BY <1>7, <1>8
  <2>3. \A i, j \in DOMAIN x : i < j /\ i # 7 /\ j # 7 => OrderOf[x[i][2]] < OrderOf[x[j][2]]
    BY <1>7, <1>8
  <2>4. x \in Seq(Labels \cup {Barrier})
    BY <1>6
  <2> HIDE DEF n, m
  <2>5. Piece(c, d, x, n, m, r, 3, 10)
    BY <2>1, <2>2, <2>3, <2>4, StepPiece
  <2> QED BY <2>5 DEF n, m
<1>10. Waiting(x) = {e(s) : s \in ClearSteps \cup {"magic"}}
  <2>1. \A i \in DOMAIN x : i = 7 \/ \E s \in ClearSteps \cup {"magic"} : x[i] = e(s)
    BY <1>5, <1>6, <1>7
  <2>2. \A s \in ClearSteps \cup {"magic"} : \E i \in DOMAIN x : x[i] = e(s)
    BY <1>6 DEF ClearSteps
  <2> QED BY <1>1, <1>6, <2>1, <2>2 DEF Waiting
<1>11. LET slot == SlotOf(c[r])
       IN  Mapped(c, d, x) =
             <<Store(Field(slot, "suffix"), FALSE), Store(Field(slot, "cursor"), 0),
               Store(Field(slot, "counts"), 0), Store(Field(slot, "sequence"), Torn),
               Store(Field(slot, "sequence"), c[r]), Store(Field(slot, "suffix"), TRUE),
               Barrier, Store(Field(slot, "magic"), TRUE)>>
  <2> DEFINE f(s) == Entry(c, d, e(s))
             T == {f(s) : s \in ClearSteps \cup {"magic"}} \cup {Barrier}
             z == <<f("suffix0"), f("cursor0"), f("counts0"), f("sequence0"), f("sequence"),
                    f("suffix"), Barrier, f("magic")>>
  <2>1. /\ f("suffix0") \in T /\ f("cursor0") \in T /\ f("counts0") \in T /\ f("sequence0") \in T
        /\ f("sequence") \in T /\ f("suffix") \in T /\ Barrier \in T /\ f("magic") \in T
    BY <1>5
  <2>2. Entry(c, d, Barrier) = Barrier
    BY DEF Entry
  <2> HIDE DEF T, f
  <2>3. /\ z \in Seq(T) /\ Len(z) = 8
        /\ z[1] = f("suffix0") /\ z[2] = f("cursor0") /\ z[3] = f("counts0")
        /\ z[4] = f("sequence0") /\ z[5] = f("sequence") /\ z[6] = f("suffix")
        /\ z[7] = Barrier /\ z[8] = f("magic")
    BY <2>1, Eight
  <2> HIDE DEF z
  <2>4. \A i \in DOMAIN x : z[i] = Entry(c, d, x[i])
    BY <1>6, <1>7, <2>2, <2>3 DEF f
  <2>5. Mapped(c, d, x) = z
    BY <1>6, <2>3, <2>4, MapsTo
  <2>6. f("suffix0") = Store(Field(SlotOf(c[r]), "suffix"), FALSE)
    BY MarkEntries DEF f, e
  <2>7. f("cursor0") = Store(Field(SlotOf(c[r]), "cursor"), 0)
    BY ClearEntries DEF f, e
  <2>8. f("counts0") = Store(Field(SlotOf(c[r]), "counts"), 0)
    BY ClearEntries DEF f, e
  <2>9. f("sequence0") = Store(Field(SlotOf(c[r]), "sequence"), Torn)
    BY ClearEntries DEF f, e
  <2>10. f("sequence") = Store(Field(SlotOf(c[r]), "sequence"), c[r])
    BY NumberEntry DEF f, e
  <2>11. f("suffix") = Store(Field(SlotOf(c[r]), "suffix"), TRUE)
    BY MarkEntries DEF f, e
  <2>12. f("magic") = Store(Field(SlotOf(c[r]), "magic"), TRUE)
    BY MarkEntries DEF f, e
  <2> QED BY <2>5, <2>6, <2>7, <2>8, <2>9, <2>10, <2>11, <2>12 DEF z
<1> QED BY <1>6, <1>9, <1>10, <1>11 DEF x, e

(* A record's body, then what covers it.                                    *)
LEMMA Committing ==
  ASSUME NEW c, NEW d, NEW r \in Nat
  PROVE  /\ CommitPiece(r) \in Seq(Labels \cup {Barrier})
         /\ Piece(c, d, CommitPiece(r), IF d[r] = 1 THEN 5 * r + 3 ELSE 5 * r, 5 * r + 5, r, 10, 14)
         /\ Waiting(CommitPiece(r)) = {<<r, s, 0>> : s \in CommitSteps}
         /\ Mapped(c, d, CommitPiece(r)) = CommitStores(SlotOf(c[r]), d[r], r)
<1> DEFINE e(s) == <<r, s, 0>>
           x == CommitPiece(r)
           S == Labels \cup {Barrier}
           n == IF d[r] = 1 THEN 5 * r + 3 ELSE 5 * r
           m == 5 * r + 5
<1>1. ASSUME NEW s \in CommitSteps
      PROVE  e(s) \in Labels /\ e(s) # Barrier /\ e(s)[1] = r /\ e(s)[2] = s
  <2>1. s \in Steps
    BY DEF Steps
  <2> QED BY <2>1, LabelOf
<1>2. \A s \in {"torn", "body"} : Stage(c, d, e(s)) = n
  BY StageOfBody
<1>3. \A s \in {"cursor", "counts"} : Stage(c, d, e(s)) = m
  BY StageOfCursor
<1>4. x = <<e("torn"), e("body"), Barrier, e("cursor"), e("counts")>>
  BY DEF CommitPiece
<1>0. n \in Nat /\ m \in Nat /\ n <= m
  OBVIOUS
<1> HIDE DEF e, x, n, m
<1>5. /\ "torn" \in CommitSteps /\ "body" \in CommitSteps /\ "cursor" \in CommitSteps
      /\ "counts" \in CommitSteps
  BY DEF CommitSteps
<1>6. /\ x \in Seq(S) /\ Len(x) = 5 /\ DOMAIN x = 1..5
      /\ x[1] = e("torn") /\ x[2] = e("body") /\ x[3] = Barrier
      /\ x[4] = e("cursor") /\ x[5] = e("counts")
  <2>1. e("torn") \in S /\ e("body") \in S /\ Barrier \in S /\ e("cursor") \in S /\ e("counts") \in S
    BY <1>1, <1>5
  <2> HIDE DEF S
  <2> QED BY <1>4, <2>1, Five
<1>7. \A i \in DOMAIN x : i \in {1, 2, 3, 4, 5}
  BY <1>6
<1>8. \A i \in DOMAIN x : i # 3 =>
        /\ x[i] # Barrier /\ x[i][1] = r
        /\ Stage(c, d, x[i]) = IF i < 3 THEN n ELSE m
        /\ OrderOf[x[i][2]] = IF i < 3 THEN i + 9 ELSE i + 8
  <2> SUFFICES ASSUME NEW i \in {1, 2, 4, 5}
               PROVE  /\ x[i] # Barrier /\ x[i][1] = r
                      /\ Stage(c, d, x[i]) = IF i < 3 THEN n ELSE m
                      /\ OrderOf[x[i][2]] = IF i < 3 THEN i + 9 ELSE i + 8
    BY <1>7
  <2>1. CASE i < 3
    <3>1. \E s \in {"torn", "body"} : s \in CommitSteps /\ x[i] = e(s) /\ OrderOf[s] = i + 9
      BY <1>5, <1>6, <2>1, Orders
    <3> QED BY <1>1, <1>2, <2>1, <3>1
  <2>2. CASE ~(i < 3)
    <3>1. \E s \in {"cursor", "counts"} : s \in CommitSteps /\ x[i] = e(s) /\ OrderOf[s] = i + 8
      BY <1>5, <1>6, <2>2, Orders
    <3> QED BY <1>1, <1>3, <2>2, <3>1
  <2> QED BY <2>1, <2>2
<1>9. Piece(c, d, x, n, m, r, 10, 14)
  <2>1. 10 <= 14 /\ 3 \in DOMAIN x /\ x[3] = Barrier
    BY <1>6
  <2>2. \A i \in DOMAIN x : i # 3 =>
          /\ x[i] # Barrier /\ x[i][1] = r
          /\ Stage(c, d, x[i]) = IF i < 3 THEN n ELSE m
          /\ 10 <= OrderOf[x[i][2]] /\ OrderOf[x[i][2]] < 14
    BY <1>7, <1>8
  <2>3. \A i, j \in DOMAIN x : i < j /\ i # 3 /\ j # 3 => OrderOf[x[i][2]] < OrderOf[x[j][2]]
    BY <1>7, <1>8
  <2>4. x \in Seq(Labels \cup {Barrier})
    BY <1>6
  <2> QED BY <1>0, <2>1, <2>2, <2>3, <2>4, StepPiece
<1>10. Waiting(x) = {e(s) : s \in CommitSteps}
  <2>1. \A i \in DOMAIN x : i = 3 \/ \E s \in CommitSteps : x[i] = e(s)
    BY <1>5, <1>6, <1>7
  <2>2. \A s \in CommitSteps : \E i \in DOMAIN x : x[i] = e(s)
    BY <1>6 DEF CommitSteps
  <2> QED BY <1>1, <1>6, <2>1, <2>2 DEF Waiting
<1>11. Mapped(c, d, x) = CommitStores(SlotOf(c[r]), d[r], r)
  <2> DEFINE f(s) == Entry(c, d, e(s))
             T == {f(s) : s \in CommitSteps} \cup {Barrier}
             z == <<f("torn"), f("body"), Barrier, f("cursor"), f("counts")>>
  <2>1. f("torn") \in T /\ f("body") \in T /\ Barrier \in T /\ f("cursor") \in T /\ f("counts") \in T
    BY <1>5
  <2>2. Entry(c, d, Barrier) = Barrier
    BY DEF Entry
  <2> HIDE DEF T, f
  <2>3. /\ z \in Seq(T) /\ Len(z) = 5
        /\ z[1] = f("torn") /\ z[2] = f("body") /\ z[3] = Barrier
        /\ z[4] = f("cursor") /\ z[5] = f("counts")
    BY <2>1, Five
  <2> HIDE DEF z
  <2>4. \A i \in DOMAIN x : z[i] = Entry(c, d, x[i])
    BY <1>6, <1>7, <2>2, <2>3 DEF f
  <2>5. Mapped(c, d, x) = z
    BY <1>6, <2>3, <2>4, MapsTo
  <2>6. f("torn") = Store(Body(SlotOf(c[r]), d[r]), Torn)
    BY TornEntry DEF f, e
  <2>7. f("body") = Store(Body(SlotOf(c[r]), d[r]), r)
    BY BodyEntry DEF f, e
  <2>8. f("cursor") = Store(Field(SlotOf(c[r]), "cursor"), d[r])
    BY CursorEntries DEF f, e
  <2>9. f("counts") = Store(Field(SlotOf(c[r]), "counts"), d[r])
    BY CursorEntries DEF f, e
  <2> QED BY <2>5, <2>6, <2>7, <2>8, <2>9 DEF z, CommitStores
<1> QED BY <1>6, <1>9, <1>10, <1>11 DEF x, e, n, m

(* The announcement of the CRCs, then that the buffer is finalized.         *)
LEMMA Announcement ==
  ASSUME NEW c, NEW d, NEW r \in Nat
  PROVE  /\ FlagPiece(r) \in Seq(Labels \cup {Barrier})
         /\ Piece(c, d, FlagPiece(r), 5 * r + 1, 5 * r + 2, r, 3, 7)
         /\ Waiting(FlagPiece(r)) =
              {<<r, s, 0>> : s \in {"announce", "crc0", "crc", "finalized"}}
         /\ Mapped(c, d, FlagPiece(r)) =
              <<Store(Field(File, "flags"), FlagsAt(c, r)), Store(Field(File, "crc"), Torn),
                Store(Field(File, "crc"), 1), Barrier,
                Store(Field(File, "flags"), FlagsAt(c, r) \cup {"finalized"})>>
<1> DEFINE e(s) == <<r, s, 0>>
           x == FlagPiece(r)
           S == Labels \cup {Barrier}
           Q == {"announce", "crc0", "crc", "finalized"}
           n == 5 * r + 1
           m == 5 * r + 2
<1>1. ASSUME NEW s \in Q
      PROVE  e(s) \in Labels /\ e(s) # Barrier /\ e(s)[1] = r /\ e(s)[2] = s
  <2>1. s \in Steps
    BY DEF Steps, FileSteps
  <2> QED BY <2>1, LabelOf
<1>2. \A s \in {"announce", "crc0", "crc"} : Stage(c, d, e(s)) = n
  BY StageOfCrc
<1>3. Stage(c, d, e("finalized")) = m
  <2>1. "finalized" \in {"finalized"}
    OBVIOUS
  <2> QED BY <2>1, StageOfFinalized
<1>4. x = <<e("announce"), e("crc0"), e("crc"), Barrier, e("finalized")>>
  BY DEF FlagPiece
<1>0. n \in Nat /\ m \in Nat /\ n <= m
  OBVIOUS
<1>5. "announce" \in Q /\ "crc0" \in Q /\ "crc" \in Q /\ "finalized" \in Q
  OBVIOUS
<1>6. /\ x \in Seq(S) /\ Len(x) = 5 /\ DOMAIN x = 1..5
      /\ x[1] = e("announce") /\ x[2] = e("crc0") /\ x[3] = e("crc") /\ x[4] = Barrier
      /\ x[5] = e("finalized")
  <2>1. e("announce") \in S /\ e("crc0") \in S /\ e("crc") \in S /\ Barrier \in S
        /\ e("finalized") \in S
    BY <1>1, <1>5
  <2> HIDE DEF S, e, x
  <2> QED BY <1>4, <2>1, Five
<1> HIDE DEF e, x, n, m
<1>7. \A i \in DOMAIN x : i \in {1, 2, 3, 4, 5}
  BY <1>6
<1>8. \A i \in DOMAIN x : i # 4 =>
        /\ x[i] # Barrier /\ x[i][1] = r
        /\ Stage(c, d, x[i]) = IF i < 4 THEN n ELSE m
        /\ OrderOf[x[i][2]] = IF i < 4 THEN i + 2 ELSE 6
  <2> SUFFICES ASSUME NEW i \in {1, 2, 3, 5}
               PROVE  /\ x[i] # Barrier /\ x[i][1] = r
                      /\ Stage(c, d, x[i]) = IF i < 4 THEN n ELSE m
                      /\ OrderOf[x[i][2]] = IF i < 4 THEN i + 2 ELSE 6
    BY <1>7
  <2>1. CASE i < 4
    <3>1. \E s \in {"announce", "crc0", "crc"} : s \in Q /\ x[i] = e(s) /\ OrderOf[s] = i + 2
      BY <1>6, <2>1, Orders
    <3> QED BY <1>1, <1>2, <2>1, <3>1
  <2>2. CASE ~(i < 4)
    <3>1. i = 5 /\ OrderOf["finalized"] = 6
      BY <2>2, Orders
    <3> QED BY <1>1, <1>3, <1>5, <1>6, <3>1
  <2> QED BY <2>1, <2>2
<1>9. Piece(c, d, x, n, m, r, 3, 7)
  <2>1. 3 <= 7 /\ 4 \in DOMAIN x /\ x[4] = Barrier
    BY <1>6
  <2>2. \A i \in DOMAIN x : i # 4 =>
          /\ x[i] # Barrier /\ x[i][1] = r
          /\ Stage(c, d, x[i]) = IF i < 4 THEN n ELSE m
          /\ 3 <= OrderOf[x[i][2]] /\ OrderOf[x[i][2]] < 7
    BY <1>7, <1>8
  <2>3. \A i, j \in DOMAIN x : i < j /\ i # 4 /\ j # 4 => OrderOf[x[i][2]] < OrderOf[x[j][2]]
    BY <1>7, <1>8
  <2>4. x \in Seq(Labels \cup {Barrier})
    BY <1>6
  <2> QED BY <1>0, <2>1, <2>2, <2>3, <2>4, StepPiece
<1>10. Waiting(x) = {e(s) : s \in Q}
  <2>1. \A i \in DOMAIN x : i = 4 \/ \E s \in Q : x[i] = e(s)
    BY <1>5, <1>6, <1>7
  <2>2. \A s \in Q : \E i \in DOMAIN x : x[i] = e(s)
    BY <1>6
  <2> QED BY <1>1, <1>6, <2>1, <2>2 DEF Waiting
<1>11. Mapped(c, d, x) =
         <<Store(Field(File, "flags"), FlagsAt(c, r)), Store(Field(File, "crc"), Torn),
           Store(Field(File, "crc"), 1), Barrier,
           Store(Field(File, "flags"), FlagsAt(c, r) \cup {"finalized"})>>
  <2> DEFINE f(s) == Entry(c, d, e(s))
             T == {f(s) : s \in Q} \cup {Barrier}
             z == <<f("announce"), f("crc0"), f("crc"), Barrier, f("finalized")>>
  <2>1. f("announce") \in T /\ f("crc0") \in T /\ f("crc") \in T /\ Barrier \in T
        /\ f("finalized") \in T
    BY <1>5
  <2>2. Entry(c, d, Barrier) = Barrier
    BY DEF Entry
  <2> HIDE DEF T, f
  <2>3. /\ z \in Seq(T) /\ Len(z) = 5
        /\ z[1] = f("announce") /\ z[2] = f("crc0") /\ z[3] = f("crc")
        /\ z[4] = Barrier /\ z[5] = f("finalized")
    BY <2>1, Five
  <2> HIDE DEF z
  <2>4. \A i \in DOMAIN x : z[i] = Entry(c, d, x[i])
    BY <1>6, <1>7, <2>2, <2>3 DEF f
  <2>5. Mapped(c, d, x) = z
    BY <1>6, <2>3, <2>4, MapsTo
  <2>6. f("announce") = Store(Field(File, "flags"), FlagsAt(c, r))
    BY FlagEntries DEF f, e
  <2>7. f("finalized") = Store(Field(File, "flags"), FlagsAt(c, r) \cup {"finalized"})
    BY FlagEntries DEF f, e
  <2>8. f("crc0") = Store(Field(File, "crc"), Torn)
    BY Crc0Entry DEF f, e
  <2>9. f("crc") = Store(Field(File, "crc"), 1)
    BY CrcEntry DEF f, e
  <2> QED BY <2>5, <2>6, <2>7, <2>8, <2>9 DEF z
<1> QED BY <1>6, <1>9, <1>10, <1>11 DEF x, e, n, m

(* The payload of a new chunk is zeroed, one position after the other.      *)
LEMMA Zeroing ==
  ASSUME NEW c, NEW d, NEW r \in Nat
  PROVE  /\ ZeroPiece(r) \in Seq(Labels \cup {Barrier})
         /\ Piece(c, d, ZeroPiece(r), 5 * r + 2, 5 * r + 2, r, 2, 3)
         /\ Waiting(ZeroPiece(r)) = {<<r, "zero", p>> : p \in Positions}
         /\ Mapped(c, d, ZeroPiece(r)) = [p \in Positions |-> Store(Body(SlotOf(c[r]), p), 0)]
<1> DEFINE e(p) == <<r, "zero", p>>
           x == ZeroPiece(r)
           S == Labels \cup {Barrier}
           n == 5 * r + 2
<1>1. ChunkRecords \in Nat /\ Positions = 1..ChunkRecords /\ \A p \in Positions : p \in Nat
  BY PublicationAssumption DEF Positions
<1>2. ASSUME NEW p \in Positions
      PROVE  /\ e(p) \in Labels /\ e(p) # Barrier /\ e(p)[1] = r /\ e(p)[2] = "zero"
             /\ e(p)[3] = p /\ Stage(c, d, e(p)) = n
  <2>1. "zero" \in Steps /\ "zero" \in ClearSteps \cup {"zero"} /\ p \in Nat
    BY <1>1 DEF Steps
  <2>2. Stage(c, d, e(p)) = n
    BY <2>1, StageOfClear
  <2> QED BY <2>1, <2>2, LabelOf
<1>3. /\ x \in [1..ChunkRecords -> S] /\ DOMAIN x = Positions /\ \A p \in Positions : x[p] = e(p)
  BY <1>1, <1>2 DEF ZeroPiece
<1>4. \A p \in Positions : Where(c, d, e(p)) = <<SlotOf(c[r]), "body", p>>
  BY DEF Where, FileSteps, SealSteps, FieldOf
<1>0. n \in Nat
  OBVIOUS
<1> HIDE DEF x, e, n, S
<1>5. x \in Seq(S)
  BY <1>1, <1>3, SeqDef
<1>6. Piece(c, d, x, n, n, r, 2, 3)
  <2>1. \A i \in DOMAIN x : /\ x[i][1] = r /\ Stage(c, d, x[i]) = n
                            /\ 2 <= OrderOf[x[i][2]] /\ OrderOf[x[i][2]] < 3
    <3>1. OrderOf["zero"] = 2
      BY Orders
    <3> QED BY <1>2, <1>3, <3>1
  <2>2. \A i, j \in DOMAIN x : i < j =>
          /\ x[i] # x[j]
          /\ Where(c, d, x[i]) = Where(c, d, x[j]) => Older(x[i], x[j])
    <3> SUFFICES ASSUME NEW i \in Positions, NEW j \in Positions, i < j
                 PROVE  x[i] # x[j] /\ Where(c, d, x[i]) # Where(c, d, x[j])
      BY <1>3
    <3>1. i # j /\ x[i][3] = i /\ x[j][3] = j
      BY <1>1, <1>2, <1>3
    <3>2. Where(c, d, x[i])[3] = i /\ Where(c, d, x[j])[3] = j
      BY <1>3, <1>4
    <3> QED BY <3>1, <3>2
  <2>3. x \in Seq(Labels \cup {Barrier}) /\ 2 <= 3
    BY <1>5 DEF S
  <2> QED BY <1>0, <2>1, <2>2, <2>3, FlatPiece
<1>7. Waiting(x) = {e(p) : p \in Positions}
  BY <1>2, <1>3 DEF Waiting
<1>8. Mapped(c, d, x) = [p \in Positions |-> Store(Body(SlotOf(c[r]), p), 0)]
  <2>1. \A p \in Positions : Entry(c, d, x[p]) = Store(Body(SlotOf(c[r]), p), 0)
    <3> SUFFICES ASSUME NEW p \in Positions
                 PROVE  Entry(c, d, x[p]) = Store(Body(SlotOf(c[r]), p), 0)
      OBVIOUS
    <3>1. x[p] = <<r, "zero", p>>
      BY <1>3 DEF e
    <3>2. Entry(c, d, <<r, "zero", p>>) = Store(Body(SlotOf(c[r]), p), 0)
      BY ZeroEntry
    <3> QED BY <3>1, <3>2
  <2>2. Len(x) = ChunkRecords
    BY <1>1, <1>3, <1>5, LenProperties
  <2> QED BY <1>1, <2>1, <2>2 DEF Mapped
<1> QED BY <1>5, <1>6, <1>7, <1>8 DEF x, e, n, S

(* The CRC of each chunk.                                                   *)
SealPiece(r, v) ==
  [i \in 1..(2 * v) |-> <<r, IF i % 2 = 1 THEN "seal0" ELSE "seal", (i - 1) \div 2>>]

SealsMapped(c, d, r, v) ==
  /\ Waiting(SealPiece(r, v)) = {<<r, s, i>> : s \in SealSteps, i \in 0..(v - 1)}
  /\ Mapped(c, d, SealPiece(r, v)) = Seals

LEMMA SealingOf ==
  ASSUME NEW c, NEW d, NEW r \in Nat, NEW v \in Nat, valid_chunks = v
  PROVE  /\ SealPiece(r, v) \in Seq(Labels \cup {Barrier})
         /\ Piece(c, d, SealPiece(r, v), 5 * r, 5 * r, r, 0, 2)
         /\ SealsMapped(c, d, r, v)
<1> DEFINE st(i) == IF i % 2 = 1 THEN "seal0" ELSE "seal"
           sl(i) == (i - 1) \div 2
           e(i) == <<r, st(i), sl(i)>>
           x == SealPiece(r, v)
           S == Labels \cup {Barrier}
           n == 5 * r
           I == 1..(2 * v)
<1>1. 2 * v \in Nat /\ \A i \in I : i \in Int
  OBVIOUS
<1>2. \A i \in I : sl(i) \in 0..(v - 1) /\ (i % 2 = 1 => i = 2 * sl(i) + 1)
                   /\ (i % 2 # 1 => i = 2 * sl(i) + 2)
  OBVIOUS
<1>3. \A i \in I : st(i) \in SealSteps /\ (st(i) = "seal0" <=> i % 2 = 1)
  BY DEF SealSteps
<1> HIDE DEF st, sl
<1>4. ASSUME NEW i \in I
      PROVE  /\ e(i) \in Labels /\ e(i) # Barrier /\ e(i)[1] = r /\ e(i)[2] = st(i)
             /\ e(i)[3] = sl(i) /\ Stage(c, d, e(i)) = n
             /\ Where(c, d, e(i)) = <<sl(i), "seal", 0>>
  <2>1. st(i) \in Steps /\ st(i) \in SealSteps \cup {"wrap", "total"} /\ sl(i) \in Nat
    BY <1>2, <1>3 DEF Steps
  <2>2. Stage(c, d, e(i)) = n
    BY <2>1, StageOfHead
  <2>3. Where(c, d, e(i)) = <<sl(i), "seal", 0>>
    BY <1>3 DEF Where, FileSteps, SealSteps, FieldOf
  <2> QED BY <2>1, <2>2, <2>3, LabelOf
<1>5. /\ x \in [I -> S] /\ DOMAIN x = I /\ \A i \in I : x[i] = e(i)
  BY <1>4 DEF SealPiece, st, sl
<1>0. n \in Nat
  OBVIOUS
<1> HIDE DEF x, e, n, S
<1>6. x \in Seq(S)
  BY <1>1, <1>5, SeqDef
<1>7. Piece(c, d, x, n, n, r, 0, 2)
  <2>1. \A i \in DOMAIN x : /\ x[i][1] = r /\ Stage(c, d, x[i]) = n
                            /\ 0 <= OrderOf[x[i][2]] /\ OrderOf[x[i][2]] < 2
    <3>1. \A s \in SealSteps : 0 <= OrderOf[s] /\ OrderOf[s] < 2
      BY Orders DEF SealSteps
    <3> QED BY <1>3, <1>4, <1>5, <3>1
  <2>2. \A i, j \in DOMAIN x : i < j =>
          /\ x[i] # x[j]
          /\ Where(c, d, x[i]) = Where(c, d, x[j]) => Older(x[i], x[j])
    <3> SUFFICES ASSUME NEW i \in I, NEW j \in I, i < j
                 PROVE  /\ x[i] # x[j]
                        /\ Where(c, d, x[i]) = Where(c, d, x[j]) => Older(x[i], x[j])
      BY <1>5
    <3>0. /\ x[i] = e(i) /\ x[j] = e(j) /\ e(i)[1] = r /\ e(j)[1] = r
          /\ e(i)[2] = st(i) /\ e(j)[2] = st(j) /\ e(i)[3] = sl(i) /\ e(j)[3] = sl(j)
      BY <1>4, <1>5
    <3>1. SUFFICES ASSUME sl(i) = sl(j) PROVE x[i] # x[j] /\ Older(x[i], x[j])
      <4>1. Where(c, d, x[i])[1] = sl(i) /\ Where(c, d, x[j])[1] = sl(j)
        BY <1>4, <1>5
      <4>2. sl(i) # sl(j) => x[i] # x[j]
        BY <3>0
      <4> QED BY <4>1, <4>2
    <3>2. i % 2 = 1 /\ j % 2 # 1
      <4>1. sl(i) \in Int /\ i \in Int /\ j \in Int
        BY <1>1, <1>2
      <4>2. (i % 2 = 1 => i = 2 * sl(i) + 1) /\ (i % 2 # 1 => i = 2 * sl(i) + 2)
        BY <1>2
      <4>3. (j % 2 = 1 => j = 2 * sl(i) + 1) /\ (j % 2 # 1 => j = 2 * sl(i) + 2)
        BY <1>2, <3>1
      <4> QED BY <4>1, <4>2, <4>3
    <3>3. st(i) = "seal0" /\ st(j) = "seal"
      BY <3>2 DEF st
    <3>4. OrderOf[st(i)] < OrderOf[st(j)]
      BY <3>3, Orders
    <3> QED BY <3>0, <3>3, <3>4 DEF Older
  <2>3. x \in Seq(Labels \cup {Barrier}) /\ 0 <= 2
    BY <1>6 DEF S
  <2> QED BY <1>0, <2>1, <2>2, <2>3, FlatPiece
<1>8. Waiting(x) = {<<r, s, i>> : s \in SealSteps, i \in 0..(v - 1)}
  <2>1. ASSUME NEW s \in SealSteps, NEW i \in 0..(v - 1) PROVE \E j \in I : e(j) = <<r, s, i>>
    <3>1. CASE s = "seal0"
      <4>1. 2 * i + 1 \in I /\ st(2 * i + 1) = "seal0" /\ sl(2 * i + 1) = i
        BY DEF st, sl
      <4>2. e(2 * i + 1) = <<r, s, i>>
        BY <3>1, <4>1 DEF e
      <4> QED BY <4>1, <4>2
    <3>2. CASE s # "seal0"
      <4>1. 2 * i + 2 \in I /\ st(2 * i + 2) = "seal" /\ sl(2 * i + 2) = i
        BY DEF st, sl
      <4>2. e(2 * i + 2) = <<r, s, i>>
        BY <3>2, <4>1 DEF e, SealSteps
      <4> QED BY <4>1, <4>2
    <3> QED BY <3>1, <3>2
  <2>2. \A j \in I : \E s \in SealSteps, i \in 0..(v - 1) : e(j) = <<r, s, i>>
    BY <1>2, <1>3 DEF e
  <2>3. Waiting(x) = {e(j) : j \in I}
    BY <1>4, <1>5 DEF Waiting
  <2> HIDE DEF I
  <2> QED BY <2>1, <2>2, <2>3
<1>9. Mapped(c, d, x) = Seals
  <2>1. ASSUME NEW i \in I
        PROVE  Entry(c, d, x[i]) = Store(Field((i - 1) \div 2, "seal"), IF i % 2 = 1 THEN Torn ELSE 1)
    <3>1. CASE i % 2 = 1
      <4>1. Entry(c, d, e(i)) = Store(Field(sl(i), "seal"), Torn)
        BY <3>1, Seal0Entry DEF e, st
      <4> QED BY <1>5, <3>1, <4>1 DEF sl
    <3>2. CASE i % 2 # 1
      <4>1. Entry(c, d, e(i)) = Store(Field(sl(i), "seal"), 1)
        BY <3>2, SealEntry DEF e, st
      <4> QED BY <1>5, <3>2, <4>1 DEF sl
    <3> QED BY <3>1, <3>2
  <2>2. Len(x) = 2 * v
    BY <1>1, <1>5, <1>6, LenProperties
  <2> QED BY <2>1, <2>2 DEF Mapped, Seals
<1> QED BY <1>6, <1>7, <1>8, <1>9 DEF SealsMapped, x, e, n, S

----------------------------------------------------------------------------
(* The invariant: which stores the program has issued, which of them are    *)
(* pending and, being the rest, which are visible.                          *)
Shown(c, d, q, w, n, fin) == Stores(c, d, w, n, fin) \ Waiting(q)
Now(w, fin)  == IF fin THEN 5 * (w + 1) + 2 ELSE 5 * (w + 1)
NextOrder(fin)   == IF fin THEN 7 ELSE 0
Tracked(c, d, q, w, n, u, fin, pub) ==
  /\ Seen(c, d, w, n, u, fin, Shown(c, d, q, w, n, fin), pub)
  /\ Waiting(q) \subseteq Stores(c, d, w, n, fin)
  /\ Queue(c, d, q, Now(w, fin), w + 1, NextOrder(fin))
Writer(n) ==
  /\ valid_chunks = IF n < ChunkCount THEN n ELSE ChunkCount
  /\ current_chunk = IF n = 0 THEN NoChunk ELSE SlotOf(n - 1)
  /\ wrapped <=> n > ChunkCount
Snapshot(c, d, q, w, n, u, fin, pub) ==
  /\ Tracked(c, d, q, w, n, u, fin, pub)
  /\ Pends(c, d, q) /\ Imaged(c, d, Shown(c, d, q, w, n, fin)) /\ Writer(n)
  /\ written = w /\ next_sequence = n /\ used = u /\ finalized = fin /\ published = pub
SnapInv == \E c, d, q, w, n, u, fin, pub : Snapshot(c, d, q, w, n, u, fin, pub)

LEMMA OlderOnce ==
  ASSUME NEW e \in Labels, NEW f \in Labels, Older(e, f)
  PROVE  ~Older(f, e) /\ e # f
<1>1. e[1] \in Nat /\ f[1] \in Nat /\ OrderOf[e[2]] \in Nat /\ OrderOf[f[2]] \in Nat
  BY LabelParts, StepParts
<1>2. ~Older(f, e)
  BY <1>1 DEF Older
<1> QED BY <1>2

LEMMA TrackedParts ==
  ASSUME NEW c, NEW d, NEW q, NEW w, NEW n, NEW u, NEW fin, NEW pub,
         Tracked(c, d, q, w, n, u, fin, pub)
  PROVE  /\ w \in Nat /\ n \in Nat /\ fin \in BOOLEAN /\ Laid(c, d, w, n, u) /\ pub \in 0..w
         /\ Closed(c, d, Stores(c, d, w, n, fin), Shown(c, d, q, w, n, fin))
         /\ Waiting(q) \subseteq Stores(c, d, w, n, fin)
         /\ Queue(c, d, q, Now(w, fin), w + 1, NextOrder(fin))
         /\ q \in Seq(Labels \cup {Barrier})
         /\ \A r \in 1..w : <<r, "cursor", 0>> \in Shown(c, d, q, w, n, fin) <=> r <= pub
         /\ Stores(c, d, w, n, fin) \subseteq Labels
<1>1. Seen(c, d, w, n, u, fin, Shown(c, d, q, w, n, fin), pub)
  BY DEF Tracked
<1>2. /\ Waiting(q) \subseteq Stores(c, d, w, n, fin)
      /\ Queue(c, d, q, Now(w, fin), w + 1, NextOrder(fin))
  BY DEF Tracked
<1>3. q \in Seq(Labels \cup {Barrier})
  BY <1>2 DEF Queue
<1>4. Stores(c, d, w, n, fin) \subseteq Labels
  BY DEF Stores, Issued
<1>5. /\ w \in Nat /\ n \in Nat /\ fin \in BOOLEAN /\ Laid(c, d, w, n, u) /\ pub \in 0..w
      /\ Closed(c, d, Stores(c, d, w, n, fin), Shown(c, d, q, w, n, fin))
      /\ \A r \in 1..w : <<r, "cursor", 0>> \in Shown(c, d, q, w, n, fin) <=> r <= pub
  BY <1>1 DEF Seen, Stores
<1> QED BY <1>2, <1>3, <1>4, <1>5

(* A store that may become visible waits for nothing.                       *)
LEMMA Foremost ==
  ASSUME NEW c, NEW d, NEW q, NEW n, NEW r, NEW k, Queue(c, d, q, n, r, k), Pends(c, d, q),
         NEW i \in Ready
  PROVE  /\ i \in 1..Len(q) /\ q[i] # Barrier /\ q[i] \in Waiting(q)
         /\ pending[i] = Store(Where(c, d, q[i]), What(c, d, q[i]))
         /\ \A x \in Waiting(q) : /\ ~(Stage(c, d, x) < Stage(c, d, q[i]))
                                  /\ Where(c, d, x) = Where(c, d, q[i]) => ~Older(x, q[i])
<1>1. q \in Seq(Labels \cup {Barrier}) /\ Paired(c, d, q)
  BY DEF Queue
<1>2. /\ DOMAIN pending = 1..Len(q) /\ Len(q) \in Nat /\ DOMAIN q = 1..Len(q)
      /\ \A j \in 1..Len(q) : pending[j] = Entry(c, d, q[j])
  <2>1. /\ DOMAIN Mapped(c, d, q) = 1..Len(q) /\ Len(q) \in Nat /\ DOMAIN q = 1..Len(q)
        /\ \A j \in 1..Len(q) : Mapped(c, d, q)[j] = Entry(c, d, q[j])
    BY <1>1, MappedShape
  <2> QED BY <2>1 DEF Pends
<1>3. /\ i \in 1..Len(q) /\ pending[i] # Barrier
      /\ \A j \in 1..(i - 1) : pending[j] # Barrier /\ pending[j][1] # pending[i][1]
  BY <1>2 DEF Ready
<1>4. \A j \in 1..Len(q) : q[j] = Barrier => pending[j] = Barrier
  BY <1>2 DEF Entry
<1>5. \A j \in 1..Len(q) : q[j] # Barrier => pending[j] = Store(Where(c, d, q[j]), What(c, d, q[j]))
  BY <1>2 DEF Entry
<1>6. q[i] # Barrier /\ q[i] \in Waiting(q)
  BY <1>2, <1>3, <1>4 DEF Waiting
<1>7. ASSUME NEW x \in Waiting(q)
      PROVE  /\ ~(Stage(c, d, x) < Stage(c, d, q[i]))
             /\ Where(c, d, x) = Where(c, d, q[i]) => ~Older(x, q[i])
  <2>1. PICK j \in 1..Len(q) : x = q[j] /\ x # Barrier
    BY <1>2 DEF Waiting
  <2>2. /\ Stage(c, d, q[i]) \in Nat /\ Stage(c, d, q[j]) \in Nat
        /\ q[i] \in Labels /\ q[j] \in Labels
    BY <1>1, <1>2, <1>3, <1>6, <2>1, StepOrder
  <2>3. CASE j < i
    <3>1. Pair(c, d, q, j, i)
      BY <1>1, <1>2, <1>3, <1>6, <2>1, <2>3 DEF Paired
    <3>2. ~Barred(q, j, i)
      <4> SUFFICES ASSUME NEW b \in 1..Len(q), j < b, b < i, q[b] = Barrier PROVE FALSE
        BY <1>2 DEF Barred
      <4>1. b \in 1..(i - 1) /\ pending[b] = Barrier
        BY <1>2, <1>3, <1>4
      <4> QED BY <1>3, <4>1
    <3>3. Where(c, d, x) # Where(c, d, q[i])
      <4>1. j \in 1..(i - 1)
        BY <1>2, <1>3, <2>3
      <4>2. pending[j][1] # pending[i][1]
        BY <1>3, <4>1
      <4> QED BY <1>3, <1>5, <1>6, <2>1, <4>2 DEF Store
    <3> QED BY <2>1, <2>2, <3>1, <3>2, <3>3 DEF Pair
  <2>4. CASE j = i
    <3>1. ~Older(x, q[i])
      BY <2>1, <2>2, <2>4, OlderOnce
    <3> QED BY <2>1, <2>2, <2>4, <3>1
  <2>5. CASE i < j
    <3>1. Pair(c, d, q, i, j)
      BY <1>1, <1>2, <1>3, <1>6, <2>1, <2>5 DEF Paired
    <3>2. Where(c, d, x) = Where(c, d, q[i]) => ~Older(x, q[i])
      BY <2>1, <2>2, <3>1, OlderOnce DEF Pair
    <3> QED BY <2>1, <2>2, <3>1, <3>2 DEF Pair
  <2>6. j < i \/ j = i \/ i < j
    BY <1>2, <1>3
  <2> QED BY <2>3, <2>4, <2>5, <2>6
<1> QED BY <1>3, <1>5, <1>6, <1>7

LEMMA WhereIssued ==
  ASSUME NEW c, NEW d, NEW w, NEW n, NEW u, NEW fin, w \in Nat, n \in Nat,
         Laid(c, d, w, n, u), NEW e \in Stores(c, d, w, n, fin)
  PROVE  Where(c, d, e) \in Locations
<1>1. ChunkCount \in Nat \ {0}
  BY PublicationAssumption
<1> DEFINE v == IF n < ChunkCount THEN n ELSE ChunkCount
<1>2. e \in Issued(c, d, w, v, fin) /\ v \in 0..ChunkCount
  BY <1>1 DEF Stores
<1> HIDE DEF v
<1>3. /\ e[2] \in Steps
      /\ \/ e[1] \in 1..w /\ OfRecord(c, d, e) /\ e[2] \in RecordSteps
         \/ fin /\ e[1] = w + 1 /\ OfFile(e, v) /\ e[2] \in FileSteps \cup SealSteps
  BY <1>2, IssuedParts
<1>4. CASE e[1] \in 1..w /\ OfRecord(c, d, e) /\ e[2] \in RecordSteps
  <2>1. c[e[1]] \in 0..(n - 1) /\ d[e[1]] \in Positions /\ c[e[1]] \in Nat
    <3>1. PICK r \in 1..w : r = e[1]
      BY <1>4
    <3>2. c[r] \in 0..(n - 1)
      BY PlaceOf
    <3>3. d[r] \in Positions
      BY DEF Laid
    <3> QED BY <3>1, <3>2, <3>3
  <2>2. SlotOf(c[e[1]]) \in Slots
    BY <2>1, SlotRepeats
  <2>3. CASE e[2] = "wrap"
    BY <2>3 DEF Where, Locations, FieldOf
  <2>4. CASE e[2] = "zero"
    <3>1. e[3] \in Positions
      BY <1>4, <2>4 DEF OfRecord, CommitSteps, ClearSteps
    <3>2. Where(c, d, e) = <<SlotOf(c[e[1]]), "body", e[3]>>
      BY <2>4 DEF Where, FieldOf, FileSteps, SealSteps
    <3> QED BY <2>2, <3>1, <3>2 DEF Locations
  <2>5. CASE e[2] \in {"torn", "body"}
    <3>2. Where(c, d, e) = <<SlotOf(c[e[1]]), "body", d[e[1]]>>
      BY <2>5 DEF Where, FieldOf, FileSteps, SealSteps
    <3> QED BY <2>1, <2>2, <3>2 DEF Locations
  <2>6. CASE e[2] \in {"invalid", "magic", "cursor", "counts"} \cup ClearSteps
    <3>1. Where(c, d, e) = <<SlotOf(c[e[1]]), FieldOf[e[2]], 0>>
      BY <2>6 DEF Where, FileSteps, SealSteps, ClearSteps
    <3>2. FieldOf[e[2]] \in {"magic", "suffix", "sequence", "cursor", "counts", "seal"}
      BY <2>6 DEF FieldOf, ClearSteps
    <3> QED BY <2>2, <3>1, <3>2 DEF Locations
  <2> QED BY <1>4, <2>3, <2>4, <2>5, <2>6 DEF RecordSteps, CommitSteps
<1>5. CASE OfFile(e, v) /\ e[2] \in FileSteps \cup SealSteps
  <2>1. CASE e[2] \in SealSteps
    <3>1. e[3] \in Slots
      BY <1>1, <1>2, <1>5, <2>1 DEF OfFile, Slots, FileSteps, SealSteps
    <3>2. Where(c, d, e) = <<e[3], "seal", 0>>
      BY <2>1 DEF Where, FieldOf, FileSteps, SealSteps
    <3> QED BY <3>1, <3>2 DEF Locations
  <2>2. CASE e[2] \in FileSteps
    <3>1. Where(c, d, e) = <<File, FieldOf[e[2]], 0>>
      BY <2>2 DEF Where, FileSteps
    <3>2. FieldOf[e[2]] \in {"flags", "crc", "counts"}
      BY <2>2 DEF FieldOf, FileSteps
    <3> QED BY <3>1, <3>2 DEF Locations
  <2> QED BY <1>5, <2>1, <2>2
<1> QED BY <1>3, <1>4, <1>5

(* One more store is visible.                                               *)
AtFront(c, d, q, e) ==
  \A x \in Waiting(q) : /\ ~(Stage(c, d, x) < Stage(c, d, e))
                        /\ Where(c, d, x) = Where(c, d, e) => ~Older(x, e)
PubAfter(e, pub) == IF e[2] = "cursor" THEN pub + 1 ELSE pub

LEMMA ShownGrows ==
  ASSUME NEW c, NEW d, NEW q, NEW w, NEW n, NEW u, NEW fin, NEW pub, NEW p, NEW e,
         Tracked(c, d, q, w, n, u, fin, pub), e \in Waiting(q),
         AtFront(c, d, q, e),
         Waiting(p) = Waiting(q) \ {e}, Queue(c, d, p, Now(w, fin), w + 1, NextOrder(fin))
  PROVE  /\ Tracked(c, d, p, w, n, u, fin, PubAfter(e, pub))
         /\ Shown(c, d, p, w, n, fin) = Shown(c, d, q, w, n, fin) \cup {e}
         /\ e \notin Shown(c, d, q, w, n, fin) /\ e \in Stores(c, d, w, n, fin)
<1> DEFINE all == Stores(c, d, w, n, fin)
           seen == Shown(c, d, q, w, n, fin)
           new == Shown(c, d, p, w, n, fin)
<1>1. /\ w \in Nat /\ n \in Nat /\ fin \in BOOLEAN /\ Laid(c, d, w, n, u) /\ pub \in 0..w
      /\ Closed(c, d, all, seen) /\ Waiting(q) \subseteq all
      /\ \A r \in 1..w : <<r, "cursor", 0>> \in seen <=> r <= pub
      /\ all \subseteq Labels
  BY TrackedParts
<1>2. new = seen \cup {e} /\ e \notin seen /\ e \in all /\ seen \subseteq all
      /\ \A x \in all : x \in seen \/ x \in Waiting(q)
  BY <1>1 DEF Shown
<1>3. \A r \in 1..w : \A s \in CommitSteps : <<r, s, 0>> \in all
  BY <1>1, IssuedOf DEF Stores
<1>4. e[2] = "cursor" => e[1] \in 1..w /\ e = <<e[1], "cursor", 0>>
  <2>1. e \in Issued(c, d, w, IF n < ChunkCount THEN n ELSE ChunkCount, fin)
    BY <1>2 DEF Stores
  <2>2. /\ e = <<e[1], e[2], e[3]>>
        /\ \/ e[1] \in 1..w /\ OfRecord(c, d, e) /\ e[2] \in RecordSteps
           \/ e[2] \in FileSteps \cup SealSteps
    BY <1>1, <2>1, IssuedParts
  <2>3. e[2] = "cursor" => e[1] \in 1..w /\ e[3] = 0
    BY <2>2 DEF OfRecord, CommitSteps, ClearSteps, FileSteps, SealSteps
  <2> QED BY <2>2, <2>3
<1> HIDE DEF all, seen, new
<1>5. Closed(c, d, all, new)
  <2> SUFFICES ASSUME NEW f \in new, NEW g \in all,
                      \/ Stage(c, d, g) < Stage(c, d, f)
                      \/ Where(c, d, g) = Where(c, d, f) /\ Older(g, f)
               PROVE  g \in new
    BY <1>2 DEF Closed
  <2>1. CASE f \in seen
    BY <1>1, <1>2, <2>1 DEF Closed
  <2>2. CASE f = e
    BY <1>2, <2>2 DEF AtFront
  <2> QED BY <1>2, <2>1, <2>2
<1>6. /\ PubAfter(e, pub) \in 0..w
      /\ \A r \in 1..w : <<r, "cursor", 0>> \in new <=> r <= PubAfter(e, pub)
  <2>1. CASE e[2] # "cursor"
    <3>1. \A r \in 1..w : <<r, "cursor", 0>> # e
      BY <2>1
    <3> QED BY <1>1, <1>2, <2>1, <3>1 DEF PubAfter
  <2>2. CASE e[2] = "cursor"
    <3>1. PICK r \in 1..w : e = <<r, "cursor", 0>>
      BY <1>4, <2>2
    <3>2. pub < r
      BY <1>1, <1>2, <3>1
    <3>3. r = pub + 1
      <4> SUFFICES ASSUME r # pub + 1 PROVE FALSE
        OBVIOUS
      <4>1. pub + 1 \in 1..w /\ pub + 1 < r /\ pub + 1 \in Nat /\ r \in Nat
        BY <1>1, <3>2
      <4>2. <<pub + 1, "cursor", 0>> \in all /\ <<pub + 1, "cursor", 0>> \notin seen
        <5>1. <<pub + 1, "cursor", 0>> \in all
          BY <1>3, <4>1 DEF CommitSteps
        <5>2. ~(pub + 1 <= pub)
          BY <1>1, <4>1
        <5> QED BY <1>1, <4>1, <5>1, <5>2
      <4>3. <<pub + 1, "cursor", 0>> \in Waiting(q)
        BY <1>2, <4>2
      <4>4. Stage(c, d, <<pub + 1, "cursor", 0>>) = 5 * (pub + 1) + 5
        BY <4>1, StageOfCursor
      <4>5. Stage(c, d, e) = 5 * r + 5
        BY <3>1, <4>1, StageOfCursor
      <4>6. Stage(c, d, <<pub + 1, "cursor", 0>>) < Stage(c, d, e)
        BY <4>1, <4>4, <4>5
      <4> QED BY <4>3, <4>6 DEF AtFront
    <3>4. PubAfter(e, pub) = pub + 1
      BY <2>2 DEF PubAfter
    <3>5. \A t \in 1..w : <<t, "cursor", 0>> = e <=> t = r
      BY <3>1
    <3>6. \A t \in 1..w : <<t, "cursor", 0>> \in new <=> t <= pub \/ t = r
      BY <1>1, <1>2, <3>5
    <3> QED BY <1>1, <3>3, <3>4, <3>6
  <2> QED BY <2>1, <2>2
<1>7. Seen(c, d, w, n, u, fin, new, PubAfter(e, pub))
  BY <1>1, <1>5, <1>6 DEF Seen, all, Stores
<1>8. Waiting(p) \subseteq all
  BY <1>1
<1>9. Tracked(c, d, p, w, n, u, fin, PubAfter(e, pub))
  BY <1>7, <1>8 DEF Tracked, all, new
<1> QED BY <1>2, <1>9 DEF all, seen, new

LEMMA ImageGrows ==
  ASSUME NEW c, NEW d, NEW w, NEW n, NEW u, NEW fin, NEW seen, NEW e,
         w \in Nat, n \in Nat, Laid(c, d, w, n, u),
         Closed(c, d, Stores(c, d, w, n, fin), seen), e \in Stores(c, d, w, n, fin),
         e \notin seen, Imaged(c, d, seen),
         \A where \in Locations :
           memory'[where] = IF Where(c, d, e) = where THEN What(c, d, e) ELSE memory[where]
  PROVE  Imaged(c, d, seen \cup {e})'
<1>1. seen \subseteq Stores(c, d, w, n, fin)
  BY DEF Closed
<1>2. ASSUME NEW g \in seen \cup {e},
             \A f \in seen \cup {e} : Where(c, d, f) = Where(c, d, g) => ~Older(g, f)
      PROVE  memory'[Where(c, d, g)] = What(c, d, g)
  <2>1. g \in Stores(c, d, w, n, fin)
    BY <1>1
  <2>2. Where(c, d, g) \in Locations
    BY <2>1, WhereIssued
  <2>3. CASE g = e
    BY <2>2, <2>3
  <2>4. CASE g # e
    <3>1. g \in seen
      BY <2>4
    <3>2. Where(c, d, e) # Where(c, d, g)
      <4> SUFFICES ASSUME Where(c, d, e) = Where(c, d, g) PROVE FALSE
        OBVIOUS
      <4>1. ~Older(g, e)
        BY <1>2
      <4>2. Older(e, g) \/ Older(g, e)
        BY <2>1, <2>4, OrderTotal DEF Stores
      <4>3. e \in seen
        BY <3>1, <4>1, <4>2 DEF Closed
      <4> QED BY <4>3
    <3>3. memory[Where(c, d, g)] = What(c, d, g)
      BY <1>2, <3>1 DEF Imaged
    <3> QED BY <2>2, <3>2, <3>3
  <2> QED BY <2>3, <2>4
<1>3. ASSUME NEW where \in Locations, \A f \in seen \cup {e} : Where(c, d, f) # where
      PROVE  memory'[where] = Blank(where)
  <2>1. memory[where] = Blank(where)
    BY <1>3 DEF Imaged
  <2> QED BY <1>3, <2>1
<1> QED BY <1>2, <1>3 DEF Imaged

(* What is published by a store.                                            *)
LEMMA WhatPublishes ==
  ASSUME NEW c, NEW d, NEW w, NEW n, NEW u, NEW fin, w \in Nat, n \in Nat,
         Laid(c, d, w, n, u), NEW e \in Stores(c, d, w, n, fin)
  PROVE  (Where(c, d, e)[2] = "cursor" /\ What(c, d, e) > 0) <=> e[2] = "cursor"
<1>1. Where(c, d, e)[2] = FieldOf[e[2]]
  BY DEF Where
<1>2. /\ e[2] \in Steps
      /\ \/ e[1] \in 1..w /\ OfRecord(c, d, e) /\ e[2] \in RecordSteps
         \/ e[2] \in FileSteps \cup SealSteps
  BY IssuedParts DEF Stores
<1>3. CASE e[2] = "cursor"
  <2>1. e[1] \in 1..w
    BY <1>2, <1>3 DEF FileSteps, SealSteps
  <2>2. d[e[1]] \in Positions
    BY <2>1, Layout
  <2>3. What(c, d, e) = d[e[1]]
    BY <1>3 DEF What
  <2>4. What(c, d, e) > 0
    BY <2>2, <2>3, PublicationAssumption DEF Positions
  <2>5. FieldOf[e[2]] = "cursor"
    BY <1>3 DEF FieldOf
  <2> QED BY <1>1, <1>3, <2>4, <2>5
<1>4. CASE e[2] = "cursor0"
  <2>1. What(c, d, e) = 0
    BY <1>4 DEF What
  <2> QED BY <1>4, <2>1
<1>5. CASE e[2] \notin {"cursor", "cursor0"}
  <2>1. FieldOf[e[2]] # "cursor"
    BY <1>2, <1>5, StepParts
  <2> QED BY <1>1, <1>5, <2>1
<1> QED BY <1>3, <1>4, <1>5

Appears(c, d, q, p, w, n, fin, e) ==
  /\ Shown(c, d, p, w, n, fin) = Shown(c, d, q, w, n, fin) \cup {e}
  /\ e \notin Shown(c, d, q, w, n, fin) /\ e \in Stores(c, d, w, n, fin)

LEMMA VisibleStep ==
  ASSUME IInv, NEW c, NEW d, NEW q, NEW w, NEW n, NEW u, NEW fin, NEW pub,
         Snapshot(c, d, q, w, n, u, fin, pub), NEW i \in Ready, BecomeVisible(i)
  PROVE  \E e, p : /\ Snapshot(c, d, p, w, n, u, fin, PubAfter(e, pub))'
                   /\ Appears(c, d, q, p, w, n, fin, e)
<1>2. /\ Tracked(c, d, q, w, n, u, fin, pub)
      /\ Pends(c, d, q) /\ Imaged(c, d, Shown(c, d, q, w, n, fin)) /\ Writer(n)
      /\ written = w /\ next_sequence = n /\ used = u /\ finalized = fin /\ published = pub
  BY DEF Snapshot
<1>3. Memory /\ pending \in Seq(Entries)
  BY DEF IInv
<1>4. /\ w \in Nat /\ n \in Nat /\ fin \in BOOLEAN /\ Laid(c, d, w, n, u) /\ pub \in 0..w
      /\ Closed(c, d, Stores(c, d, w, n, fin), Shown(c, d, q, w, n, fin))
      /\ Queue(c, d, q, Now(w, fin), w + 1, NextOrder(fin))
  BY <1>2, TrackedParts
<1>5. PICK e : e = q[i]
  OBVIOUS
<1>6. /\ i \in 1..Len(q) /\ e # Barrier /\ e \in Waiting(q)
      /\ pending[i] = Store(Where(c, d, e), What(c, d, e))
      /\ \A x \in Waiting(q) : /\ ~(Stage(c, d, x) < Stage(c, d, e))
                               /\ Where(c, d, x) = Where(c, d, e) => ~Older(x, e)
  BY <1>2, <1>4, <1>5, Foremost
<1>7. PICK p : /\ Queue(c, d, p, Now(w, fin), w + 1, NextOrder(fin)) /\ pending' = Mapped(c, d, p)
               /\ Waiting(p) = Waiting(q) \ {e}
  <2>1. PICK x \in {0, 1} : Removal(i, x)
    BY <1>3, RemovalStep
  <2>2. Now(w, fin) \in Nat /\ w + 1 \in Nat /\ NextOrder(fin) \in Nat
    BY <1>4 DEF Now, NextOrder
  <2> DEFINE y == Now(w, fin)
             k == NextOrder(fin)
  <2>3. Queue(c, d, q, y, w + 1, k) /\ y \in Nat /\ w + 1 \in Nat /\ k \in Nat
    BY <1>4, <2>2
  <2>4. i \in 1..Len(q) /\ q[i] # Barrier /\ Pends(c, d, q) /\ pending \in Seq(Entries)
    BY <1>2, <1>3, <1>5, <1>6
  <2> HIDE DEF y, k
  <2>5. \E p : /\ Queue(c, d, p, y, w + 1, k) /\ pending' = Mapped(c, d, p)
               /\ Waiting(p) = Waiting(q) \ {q[i]}
    BY <2>1, <2>3, <2>4, QueueShrinks
  <2> QED BY <1>5, <2>5 DEF y, k
<1>8. /\ Tracked(c, d, p, w, n, u, fin, PubAfter(e, pub))
      /\ Shown(c, d, p, w, n, fin) = Shown(c, d, q, w, n, fin) \cup {e}
      /\ e \notin Shown(c, d, q, w, n, fin) /\ e \in Stores(c, d, w, n, fin)
  <2>1. Tracked(c, d, q, w, n, u, fin, pub) /\ e \in Waiting(q)
    BY <1>2, <1>6
  <2>2. AtFront(c, d, q, e)
    BY <1>6 DEF AtFront
  <2>3. Waiting(p) = Waiting(q) \ {e} /\ Queue(c, d, p, Now(w, fin), w + 1, NextOrder(fin))
    BY <1>7
  <2> QED BY <2>1, <2>2, <2>3, ShownGrows
<1>9. /\ pending[i] # Barrier
      /\ \A where \in Locations :
           memory'[where] = IF To(pending[i], where) THEN pending[i][2] ELSE memory[where]
  BY <1>3, MemoryStep
<1>10. \A where \in Locations :
         memory'[where] = IF Where(c, d, e) = where THEN What(c, d, e) ELSE memory[where]
  <2>1. pending[i][1] = Where(c, d, e) /\ pending[i][2] = What(c, d, e)
    BY <1>6 DEF Store
  <2>2. \A where \in Locations : To(pending[i], where) <=> Where(c, d, e) = where
    BY <1>9, <2>1 DEF To
  <2> QED BY <1>9, <2>1, <2>2
<1>11. Imaged(c, d, Shown(c, d, p, w, n, fin))'
  <2> DEFINE seen == Shown(c, d, q, w, n, fin)
  <2>1. Closed(c, d, Stores(c, d, w, n, fin), seen) /\ e \notin seen /\ Imaged(c, d, seen)
    BY <1>2, <1>4, <1>8
  <2> HIDE DEF seen
  <2>2. Imaged(c, d, seen \cup {e})'
    BY <1>4, <1>8, <1>10, <2>1, ImageGrows
  <2> QED BY <1>8, <2>2 DEF seen, Imaged
<1>12. published' = PubAfter(e, pub)
  <2>1. pending[i][1] = Where(c, d, e) /\ pending[i][2] = What(c, d, e)
    BY <1>6 DEF Store
  <2>2. published' = IF Where(c, d, e)[2] = "cursor" /\ What(c, d, e) > 0
                     THEN published + 1 ELSE published
    BY <2>1 DEF BecomeVisible
  <2>3. (Where(c, d, e)[2] = "cursor" /\ What(c, d, e) > 0) <=> e[2] = "cursor"
    BY <1>4, <1>8, WhatPublishes
  <2> QED BY <1>2, <2>2, <2>3 DEF PubAfter
<1>13. /\ written' = w /\ next_sequence' = n /\ used' = u /\ finalized' = fin
       /\ Writer(n)'
  BY <1>2 DEF BecomeVisible, Writer
<1>14. Pends(c, d, p)'
  BY <1>7 DEF Pends
<1>15. Snapshot(c, d, p, w, n, u, fin, PubAfter(e, pub))'
  BY <1>8, <1>11, <1>12, <1>13, <1>14 DEF Snapshot
<1>16. Appears(c, d, q, p, w, n, fin, e)
  BY <1>8 DEF Appears
<1> QED BY <1>15, <1>16

LEMMA VisibleSnap ==
  ASSUME IInv, SnapInv, NEW i \in Ready, BecomeVisible(i)
  PROVE  SnapInv'
<1>1. PICK c, d, q, w, n, u, fin, pub : Snapshot(c, d, q, w, n, u, fin, pub)
  BY DEF SnapInv
<1>2. PICK e, p : Snapshot(c, d, p, w, n, u, fin, PubAfter(e, pub))'
  BY <1>1, VisibleStep
<1> QED BY <1>2 DEF SnapInv

----------------------------------------------------------------------------
(* A call that writes record w + 1.                                         *)
Longer(f, w, x) == [t \in 1..(w + 1) |-> IF t <= w THEN f[t] ELSE x]

LEMMA LaidGrows ==
  ASSUME NEW c, NEW d, NEW w \in Nat, NEW n \in Nat, NEW u, Laid(c, d, w, n, u),
         NEW fresh \in BOOLEAN, fresh \/ (n > 0 /\ u < ChunkRecords)
  PROVE  LET a == Longer(c, w, IF fresh THEN n ELSE n - 1)
             b == Longer(d, w, IF fresh THEN 1 ELSE u + 1)
         IN  /\ Grown(c, d, w, a, b)
             /\ Laid(a, b, w + 1, IF fresh THEN n + 1 ELSE n, IF fresh THEN 1 ELSE u + 1)
             /\ a[w + 1] = IF fresh THEN n ELSE n - 1
             /\ fresh => b[w + 1] = 1
             /\ ~fresh => b[w + 1] = u + 1 /\ b[w + 1] # 1
<1> DEFINE k == IF fresh THEN n ELSE n - 1
           o == IF fresh THEN 1 ELSE u + 1
           m == IF fresh THEN n + 1 ELSE n
           a == Longer(c, w, k)
           b == Longer(d, w, o)
<1>1. /\ c \in [1..w -> Nat] /\ d \in [1..w -> Positions]
      /\ \A r \in 1..w : c[r] < n /\ d[r] <= r
      /\ IF w = 0 THEN n = 0 /\ u = 0 ELSE c[w] = n - 1 /\ d[w] = u
      /\ \A s \in 0..(n - 1) : \E r \in 1..w : c[r] = s /\ d[r] = 1
      /\ \A r, t \in 1..w : r < t => \/ c[r] = c[t] /\ d[t] = d[r] + (t - r)
                                     \/ c[r] < c[t] /\ d[t] <= t - r
  BY DEF Laid
<1>0. ChunkRecords \in Nat \ {0} /\ Positions = 1..ChunkRecords
  BY PublicationAssumption DEF Positions
<1>2. ~fresh => w > 0 /\ w \in 1..w /\ n > 0 /\ u \in 1..w /\ u + 1 \in Positions
                /\ c[w] = n - 1 /\ d[w] = u
  <2>1. ~fresh => w # 0
    BY <1>1
  <2>2. ~fresh => w > 0 /\ w \in 1..w /\ d[w] = u /\ c[w] = n - 1
    BY <1>1, <2>1
  <2>3. ~fresh => u \in Positions /\ u <= w /\ u < ChunkRecords /\ n > 0
    BY <1>1, <2>2
  <2> QED BY <1>0, <2>2, <2>3
<1>3. /\ k \in Nat /\ o \in Positions /\ m \in Nat /\ o <= w + 1 /\ k = m - 1
      /\ fresh => k = n /\ o = 1 /\ m = n + 1
      /\ ~fresh => k = n - 1 /\ o = u + 1 /\ m = n /\ o # 1
  BY <1>0, <1>2
<1> HIDE DEF k, o, m
<1>4. /\ DOMAIN a = 1..(w + 1) /\ DOMAIN b = 1..(w + 1)
      /\ \A r \in 1..w : r \in 1..(w + 1) /\ a[r] = c[r] /\ b[r] = d[r]
      /\ a[w + 1] = k /\ b[w + 1] = o /\ w + 1 \in 1..(w + 1)
      /\ \A r \in 1..(w + 1) : r = w + 1 \/ r \in 1..w
      /\ a = [t \in 1..(w + 1) |-> a[t]] /\ b = [t \in 1..(w + 1) |-> b[t]]
  BY DEF Longer
<1> HIDE DEF a, b
<1>5. \A r \in 1..(w + 1) : a[r] \in Nat /\ b[r] \in Positions
  BY <1>1, <1>3, <1>4
<1>6. a \in [1..(w + 1) -> Nat] /\ b \in [1..(w + 1) -> Positions]
  BY <1>4, <1>5
<1>7. \A r \in 1..(w + 1) : a[r] < m /\ b[r] <= r
  <2> SUFFICES ASSUME NEW r \in 1..(w + 1) PROVE a[r] < m /\ b[r] <= r
    OBVIOUS
  <2>1. CASE r = w + 1
    BY <1>3, <1>4, <2>1
  <2>2. CASE r \in 1..w
    <3>1. c[r] < n /\ d[r] <= r /\ c[r] \in Nat
      BY <1>1, <2>2
    <3>2. n <= m
      BY <1>3
    <3>3. a[r] = c[r] /\ b[r] = d[r]
      BY <1>4, <2>2
    <3>4. c[r] < m
      BY <1>3, <3>1, <3>2
    <3> QED BY <3>1, <3>3, <3>4
  <2> QED BY <1>4, <2>1, <2>2
<1>8. ASSUME NEW s \in 0..(m - 1) PROVE \E r \in 1..(w + 1) : a[r] = s /\ b[r] = 1
  <2>1. CASE s \in 0..(n - 1)
    <3>1. PICK r \in 1..w : c[r] = s /\ d[r] = 1
      BY <1>1, <2>1
    <3> QED BY <1>4, <3>1
  <2>2. CASE s \notin 0..(n - 1)
    <3>1. fresh /\ s = n
      BY <1>3, <2>2
    <3> QED BY <1>3, <1>4, <3>1
  <2> QED BY <2>1, <2>2
<1>9. ASSUME NEW r \in 1..(w + 1), NEW t \in 1..(w + 1), r < t
      PROVE  \/ a[r] = a[t] /\ b[t] = b[r] + (t - r)
             \/ a[r] < a[t] /\ b[t] <= t - r
  <2>1. r \in 1..w /\ a[r] = c[r] /\ b[r] = d[r] /\ c[r] \in Nat /\ d[r] \in Int /\ c[r] < n
    <3>1. r \in 1..w
      BY <1>9
    <3>2. c[r] \in Nat /\ d[r] \in Int /\ c[r] < n
      BY <1>0, <1>1, <3>1
    <3> QED BY <1>4, <3>1, <3>2
  <2>2. CASE t \in 1..w
    BY <1>1, <1>4, <1>9, <2>1, <2>2
  <2>3. CASE t = w + 1 /\ fresh
    <3>1. a[t] = n /\ b[t] = 1
      BY <1>3, <1>4, <2>3
    <3> QED BY <1>9, <2>1, <2>3, <3>1
  <2>4. CASE t = w + 1 /\ ~fresh
    <3>1. a[t] = n - 1 /\ b[t] = u + 1 /\ c[w] = n - 1 /\ d[w] = u /\ w \in 1..w /\ u \in Int
      BY <1>2, <1>3, <1>4, <2>4
    <3>2. CASE r = w
      BY <2>1, <2>4, <3>1, <3>2
    <3>3. CASE r < w
      <4>1. \/ c[r] = c[w] /\ d[w] = d[r] + (w - r)
            \/ c[r] < c[w] /\ d[w] <= w - r
        BY <1>1, <2>1, <3>1, <3>3
      <4> QED BY <2>1, <2>4, <3>1, <4>1
    <3> QED BY <2>1, <3>2, <3>3
  <2> QED BY <1>4, <2>2, <2>3, <2>4
<1>10. w + 1 # 0 /\ a[w + 1] = m - 1 /\ b[w + 1] = o
  BY <1>3, <1>4
<1>11. Laid(a, b, w + 1, m, o)
  BY <1>6, <1>7, <1>8, <1>9, <1>10 DEF Laid
<1>12. Grown(c, d, w, a, b)
  BY <1>4 DEF Grown
<1> QED BY <1>3, <1>4, <1>11, <1>12 DEF a, b, k, o, m

(* What a call adds.                                                        *)
LEMMA AddedOf ==
  ASSUME NEW a, NEW b, NEW r \in Nat
  PROVE  /\ b[r] # 1 => Added(a, b, r) = {<<r, s, 0>> : s \in CommitSteps}
         /\ b[r] = 1 => Added(a, b, r) =
              (IF a[r] = ChunkCount THEN {<<r, "wrap", 0>>} ELSE {})
              \cup {<<r, "invalid", 0>>} \cup {<<r, "zero", p>> : p \in Positions}
              \cup {<<r, s, 0>> : s \in ClearSteps \cup {"magic"}}
              \cup {<<r, s, 0>> : s \in CommitSteps}
<1>1. \A s \in CommitSteps \cup ClearSteps \cup {"magic", "invalid", "wrap", "zero"} : s \in Steps
  BY DEF Steps
<1>2. Positions \subseteq Nat
  BY PublicationAssumption DEF Positions
<1>3. \A e \in Labels : e = <<e[1], e[2], e[3]>>
  BY LabelParts
<1>4. ASSUME NEW s \in Steps, NEW i \in Nat PROVE <<r, s, i>> \in Labels
  BY LabelOf
<1>5. CASE b[r] # 1
  <2>1. ASSUME NEW e \in Added(a, b, r) PROVE e \in {<<r, s, 0>> : s \in CommitSteps}
    <3>1. e \in Labels /\ e[1] = r /\ e[2] \in CommitSteps /\ e[3] = 0
      BY <1>5 DEF Added, OfRecord
    <3> QED BY <1>3, <3>1
  <2>2. ASSUME NEW s \in CommitSteps PROVE <<r, s, 0>> \in Added(a, b, r)
    BY <1>1, <1>4 DEF Added, OfRecord
  <2> QED BY <1>5, <2>1, <2>2
<1>6. CASE b[r] = 1
  <2> DEFINE W == IF a[r] = ChunkCount THEN {<<r, "wrap", 0>>} ELSE {}
             Z == {<<r, "zero", p>> : p \in Positions}
             C == {<<r, s, 0>> : s \in ClearSteps \cup {"magic"}}
             D == {<<r, s, 0>> : s \in CommitSteps}
  <2>1. ASSUME NEW e \in Added(a, b, r)
        PROVE  e \in W \cup {<<r, "invalid", 0>>} \cup Z \cup C \cup D
    <3>1. e \in Labels /\ e[1] = r /\ OfRecord(a, b, e) /\ e = <<r, e[2], e[3]>>
      BY <1>3 DEF Added
    <3>2. CASE e[2] \in CommitSteps /\ e[3] = 0
      BY <3>1, <3>2
    <3>3. CASE e[2] \in ClearSteps \cup {"invalid", "magic"} /\ e[3] = 0
      BY <3>1, <3>3
    <3>4. CASE e[2] = "zero" /\ e[3] \in Positions
      BY <3>1, <3>4
    <3>5. CASE e[2] = "wrap" /\ a[r] = ChunkCount /\ e[3] = 0
      BY <3>1, <3>5
    <3> QED BY <3>1, <3>2, <3>3, <3>4, <3>5 DEF OfRecord
  <2>2. ASSUME NEW s \in CommitSteps \cup ClearSteps \cup {"invalid", "magic"}
        PROVE  <<r, s, 0>> \in Added(a, b, r)
    BY <1>1, <1>4, <1>6 DEF Added, OfRecord
  <2>3. ASSUME NEW p \in Positions PROVE <<r, "zero", p>> \in Added(a, b, r)
    BY <1>1, <1>2, <1>4, <1>6 DEF Added, OfRecord
  <2>4. ASSUME a[r] = ChunkCount PROVE <<r, "wrap", 0>> \in Added(a, b, r)
    BY <1>1, <1>4, <1>6, <2>4 DEF Added, OfRecord
  <2> QED BY <1>6, <2>1, <2>2, <2>3, <2>4
<1> QED BY <1>5, <1>6

LEMMA QueueLater ==
  ASSUME NEW c, NEW d, NEW q, NEW n \in Nat, NEW r \in Nat, NEW k \in Nat, NEW t \in Nat,
         NEW l \in Nat, Queue(c, d, q, n, r, k), r < t \/ (r = t /\ k <= l)
  PROVE  Queue(c, d, q, n, t, l)
<1>1. q \in Seq(Labels \cup {Barrier})
  BY DEF Queue
<1>2. ASSUME NEW i \in DOMAIN q, q[i] # Barrier PROVE Written(q[i], t, l)
  <2>1. q[i][1] \in Nat /\ OrderOf[q[i][2]] \in Nat
    BY <1>1, <1>2, StepOrder
  <2>2. Written(q[i], r, k)
    BY <1>2 DEF Queue
  <2> QED BY <2>1, <2>2 DEF Written
<1> QED BY <1>2 DEF Queue

Regroup(x, y, z) == (x \o y) \o z = x \o (y \o z)
RegroupAll(x1, x2, x3, x4, x5) ==
  (((x1 \o x2) \o x3) \o x4) \o x5 = x1 \o (((x2 \o x3) \o x4) \o x5)

LEMMA Regroups ==
  ASSUME NEW S, NEW x \in Seq(S), NEW y \in Seq(S), NEW z \in Seq(S)
  PROVE  Regroup(x, y, z)
BY ConcatAssociative DEF Regroup

LEMMA Associates ==
  ASSUME NEW S, NEW x1 \in Seq(S), NEW x2 \in Seq(S), NEW x3 \in Seq(S), NEW x4 \in Seq(S),
         NEW x5 \in Seq(S)
  PROVE  RegroupAll(x1, x2, x3, x4, x5)
<1>1. PICK y : y = x2 \o x3
  OBVIOUS
<1>2. y \in Seq(S)
  BY <1>1, ConcatProperties
<1>3. PICK z : z = y \o x4
  OBVIOUS
<1>4. z \in Seq(S)
  BY <1>2, <1>3, ConcatProperties
<1>5. Regroup(x1, x2, x3) /\ Regroup(x1, y, x4) /\ Regroup(x1, z, x5)
  BY <1>2, <1>4, Regroups
<1> QED BY <1>1, <1>3, <1>5, Zenon DEF Regroup, RegroupAll

(* The queue after a call.                                                  *)
Opened(a, q, r) ==
  (((q \o WrapPiece(a, r)) \o InvalidPiece(r)) \o ZeroPiece(r)) \o ClearPiece(r)
Opening(a, r) ==
  (((IF a[r] = ChunkCount THEN FlagWrapped ELSE <<>>) \o Invalidate(SlotOf(a[r])))
   \o [p \in Positions |-> Store(Body(SlotOf(a[r]), p), 0)])
  \o <<Store(Field(SlotOf(a[r]), "suffix"), FALSE), Store(Field(SlotOf(a[r]), "cursor"), 0),
       Store(Field(SlotOf(a[r]), "counts"), 0), Store(Field(SlotOf(a[r]), "sequence"), Torn),
       Store(Field(SlotOf(a[r]), "sequence"), a[r]), Store(Field(SlotOf(a[r]), "suffix"), TRUE),
       Barrier, Store(Field(SlotOf(a[r]), "magic"), TRUE)>>
WrapSet(a, r) == IF a[r] = ChunkCount THEN {<<r, "wrap", 0>>} ELSE {}

LEMMA QueueJoined ==
  ASSUME NEW a, NEW b, NEW S, NEW q \in Seq(S), NEW x \in Seq(S)
  PROVE  Mapped(a, b, q \o x) = Mapped(a, b, q) \o Mapped(a, b, x)
BY MappedJoined

LEMMA NothingMapped ==
  ASSUME NEW a, NEW b
  PROVE  Mapped(a, b, <<>>) = <<>>
<1>1. PICK S : S = {Barrier}
  OBVIOUS
<1>2. <<>> \in Seq(S) /\ Len(<<>>) = 0
  BY EmptySeq
<1>3. PICK x \in Seq(S) : x = <<>> /\ Len(x) = 0
  BY <1>2
<1>4. Mapped(a, b, x) \in Seq(EntriesOf(a, b, S)) /\ Len(Mapped(a, b, x)) = Len(x)
  BY MappedParts
<1>5. PICK T : T = EntriesOf(a, b, S)
  OBVIOUS
<1>6. PICK y \in Seq(T) : y = Mapped(a, b, x) /\ Len(y) = 0
  BY <1>3, <1>4, <1>5
<1>7. y = <<>>
  BY <1>6, EmptySeq
<1> QED BY <1>3, <1>6, <1>7

(* The announcement that the ring wraps, if it does.                        *)
LEMMA Wrapping ==
  ASSUME NEW a, NEW b, NEW r \in Nat
  PROVE  LET m == IF a[r] = ChunkCount THEN 5 * r + 1 ELSE 5 * r
         IN  /\ WrapPiece(a, r) \in Seq(Labels \cup {Barrier})
             /\ Piece(a, b, WrapPiece(a, r), 5 * r, m, r, 0, 1)
             /\ Waiting(WrapPiece(a, r)) = WrapSet(a, r)
             /\ Mapped(a, b, WrapPiece(a, r)) =
                  IF a[r] = ChunkCount THEN FlagWrapped ELSE <<>>
<1>1. CASE a[r] = ChunkCount
  <2> DEFINE x == <<<<r, "wrap", 0>>, Barrier>>
             k == 0
  <2>1. "wrap" \in Steps /\ k = OrderOf["wrap"] /\ k \in Nat
    BY Orders DEF Steps
  <2>2. Stage(a, b, <<r, "wrap", 0>>) = 5 * r
    BY StageOfHead
  <2>3. 5 * r \in Nat /\ 5 * r + 1 \in Nat /\ 5 * r <= 5 * r + 1
    OBVIOUS
  <2> HIDE DEF k
  <2>4. /\ x \in Seq(Labels \cup {Barrier}) /\ Piece(a, b, x, 5 * r, 5 * r + 1, r, k, k + 1)
        /\ Waiting(x) = {<<r, "wrap", 0>>}
        /\ Mapped(a, b, x) = <<Entry(a, b, <<r, "wrap", 0>>), Barrier>>
    BY <2>1, <2>2, <2>3, PairPiece
  <2>5. Mapped(a, b, x) = FlagWrapped
    BY <2>4, WrapEntryOf DEF FlagWrapped
  <2>6. WrapPiece(a, r) = x
    BY <1>1 DEF WrapPiece
  <2>7. Piece(a, b, x, 5 * r, 5 * r + 1, r, 0, 1)
    BY <2>4 DEF k
  <2> QED BY <1>1, <2>4, <2>5, <2>6, <2>7 DEF WrapSet
<1>2. CASE a[r] # ChunkCount
  <2>1. /\ <<>> \in Seq(Labels \cup {Barrier}) /\ DOMAIN <<>> = {} /\ Len(<<>>) = 0
    BY EmptySeq
  <2>2. Piece(a, b, <<>>, 5 * r, 5 * r, r, 0, 1)
    BY <2>1 DEF Piece, Paired
  <2>3. Waiting(<<>>) = {}
    BY <2>1 DEF Waiting
  <2>4. Mapped(a, b, <<>>) = <<>>
    BY NothingMapped
  <2>5. WrapPiece(a, r) = <<>>
    BY <1>2 DEF WrapPiece
  <2> QED BY <1>2, <2>1, <2>2, <2>3, <2>4, <2>5 DEF WrapSet
<1> QED BY <1>1, <1>2

LEMMA Invalidating ==
  ASSUME NEW a, NEW b, NEW r \in Nat
  PROVE  LET m == IF a[r] = ChunkCount THEN 5 * r + 1 ELSE 5 * r
         IN  /\ InvalidPiece(r) \in Seq(Labels \cup {Barrier})
             /\ Piece(a, b, InvalidPiece(r), m, 5 * r + 2, r, 1, 2)
             /\ Waiting(InvalidPiece(r)) = {<<r, "invalid", 0>>}
             /\ Mapped(a, b, InvalidPiece(r)) = Invalidate(SlotOf(a[r]))
<1> DEFINE m == IF a[r] = ChunkCount THEN 5 * r + 1 ELSE 5 * r
           x == <<<<r, "invalid", 0>>, Barrier>>
           k == 1
<1>1. "invalid" \in Steps /\ k = OrderOf["invalid"] /\ k \in Nat
  BY Orders DEF Steps
<1>2. Stage(a, b, <<r, "invalid", 0>>) = m
  BY StageOfInvalid
<1>3. m \in Nat /\ 5 * r + 2 \in Nat /\ m <= 5 * r + 2
  OBVIOUS
<1> HIDE DEF k, m
<1>4. /\ x \in Seq(Labels \cup {Barrier}) /\ Piece(a, b, x, m, 5 * r + 2, r, k, k + 1)
      /\ Waiting(x) = {<<r, "invalid", 0>>}
      /\ Mapped(a, b, x) = <<Entry(a, b, <<r, "invalid", 0>>), Barrier>>
  <2>1. /\ x \in Seq(Labels \cup {Barrier}) /\ Waiting(x) = {<<r, "invalid", 0>>}
        /\ Mapped(a, b, x) = <<Entry(a, b, <<r, "invalid", 0>>), Barrier>>
    BY <1>1, <1>2, <1>3, PairPiece
  <2>2. Piece(a, b, x, m, 5 * r + 2, r, k, k + 1)
    BY <1>1, <1>2, <1>3, PairPiece
  <2> QED BY <2>1, <2>2
<1>5. Mapped(a, b, x) = Invalidate(SlotOf(a[r]))
  BY <1>4, MarkEntries DEF Invalidate
<1>6. InvalidPiece(r) = x
  BY DEF InvalidPiece
<1>7. Piece(a, b, x, m, 5 * r + 2, r, 1, 2)
  BY <1>4 DEF k
<1> QED BY <1>4, <1>5, <1>6, <1>7 DEF m

(* One piece after a queue.                                                 *)
Grows(a, b, q, x, m, r, l, more, z) ==
  /\ q \o x \in Seq(Labels \cup {Barrier}) /\ Queue(a, b, q \o x, m, r, l)
  /\ Waiting(q \o x) = Waiting(q) \cup more
  /\ Mapped(a, b, q \o x) = Mapped(a, b, q) \o z
LEMMA PieceQueued ==
  ASSUME NEW a, NEW b, NEW q, NEW x, NEW n \in Nat, NEW m \in Nat, NEW r \in Nat,
         NEW k \in Nat, NEW l \in Nat, NEW more, NEW z,
         Queue(a, b, q, n, r, k), Piece(a, b, x, n, m, r, k, l),
         Waiting(x) = more, Mapped(a, b, x) = z
  PROVE  Grows(a, b, q, x, m, r, l, more, z)
<1>0. PICK S : S = Labels \cup {Barrier}
  OBVIOUS
<1>1. q \in Seq(S) /\ x \in Seq(S)
  BY <1>0 DEF Queue, Piece
<1>2. Queue(a, b, q \o x, m, r, l)
  BY PieceAdded
<1>3. q \o x \in Seq(S)
  BY <1>0, <1>2 DEF Queue
<1>4. Waiting(q \o x) = Waiting(q) \cup Waiting(x)
  BY <1>1, WaitingJoined
<1>5. Mapped(a, b, q \o x) = Mapped(a, b, q) \o Mapped(a, b, x)
  <2>1. PICK y1 \in Seq(S), y2 \in Seq(S) : y1 = q /\ y2 = x
    BY <1>1
  <2>2. Mapped(a, b, y1 \o y2) = Mapped(a, b, y1) \o Mapped(a, b, y2)
    BY QueueJoined
  <2> QED BY <2>1, <2>2
<1> QED BY <1>0, <1>2, <1>3, <1>4, <1>5 DEF Grows

LEMMA OpenedQueue ==
  ASSUME NEW a, NEW b, NEW q, NEW r \in Nat, Queue(a, b, q, 5 * r, r, 0)
  PROVE  /\ Queue(a, b, Opened(a, q, r), 5 * r + 3, r, 10)
         /\ Waiting(Opened(a, q, r)) =
              Waiting(q) \cup WrapSet(a, r) \cup {<<r, "invalid", 0>>}
              \cup {<<r, "zero", p>> : p \in Positions}
              \cup {<<r, s, 0>> : s \in ClearSteps \cup {"magic"}}
         /\ Mapped(a, b, Opened(a, q, r)) = Mapped(a, b, q) \o Opening(a, r)
<1> DEFINE m == IF a[r] = ChunkCount THEN 5 * r + 1 ELSE 5 * r
           S == Labels \cup {Barrier}
           T == EntriesOf(a, b, S)
           slot == SlotOf(a[r])
           x1 == WrapPiece(a, r)
           x2 == InvalidPiece(r)
           x3 == ZeroPiece(r)
           x4 == ClearPiece(r)
           z1 == IF a[r] = ChunkCount THEN FlagWrapped ELSE <<>>
           z2 == Invalidate(SlotOf(a[r]))
           z3 == [p \in Positions |-> Store(Body(slot, p), 0)]
           z4 == <<Store(Field(slot, "suffix"), FALSE), Store(Field(slot, "cursor"), 0),
                   Store(Field(slot, "counts"), 0), Store(Field(slot, "sequence"), Torn),
                   Store(Field(slot, "sequence"), a[r]), Store(Field(slot, "suffix"), TRUE),
                   Barrier, Store(Field(slot, "magic"), TRUE)>>
           v1 == WrapSet(a, r)
           v2 == {<<r, "invalid", 0>>}
           v3 == {<<r, "zero", p>> : p \in Positions}
           v4 == {<<r, s, 0>> : s \in ClearSteps \cup {"magic"}}
           q1 == q \o x1
           q2 == q1 \o x2
           q3 == q2 \o x3
           q4 == q3 \o x4
<1>1. m \in Nat /\ 5 * r \in Nat /\ 5 * r + 2 \in Nat /\ 5 * r + 3 \in Nat
  OBVIOUS
<1>2. /\ x1 \in Seq(S) /\ Piece(a, b, x1, 5 * r, m, r, 0, 1)
      /\ Waiting(x1) = v1 /\ Mapped(a, b, x1) = z1
  BY Wrapping
<1>3. /\ x2 \in Seq(S) /\ Piece(a, b, x2, m, 5 * r + 2, r, 1, 2)
      /\ Waiting(x2) = v2 /\ Mapped(a, b, x2) = z2
  BY Invalidating
<1>4. /\ x3 \in Seq(S) /\ Piece(a, b, x3, 5 * r + 2, 5 * r + 2, r, 2, 3)
      /\ Waiting(x3) = v3 /\ Mapped(a, b, x3) = z3
  BY Zeroing
<1>5. /\ x4 \in Seq(S) /\ Piece(a, b, x4, 5 * r + 2, 5 * r + 3, r, 3, 10)
      /\ Waiting(x4) = v4 /\ Mapped(a, b, x4) = z4
  BY Clearing
<1> HIDE DEF m, x1, x2, x3, x4, z1, z2, z3, z4, v1, v2, v3, v4
<1>6. Grows(a, b, q, x1, m, r, 1, v1, z1)
  BY <1>1, <1>2, PieceQueued
<1>7. Grows(a, b, q1, x2, 5 * r + 2, r, 2, v2, z2)
  <2>1. Queue(a, b, q1, m, r, 1)
    BY <1>6 DEF Grows
  <2> HIDE DEF q1
  <2> QED BY <1>1, <1>3, <2>1, PieceQueued
<1>8. Grows(a, b, q2, x3, 5 * r + 2, r, 3, v3, z3)
  <2>1. Queue(a, b, q2, 5 * r + 2, r, 2)
    BY <1>7 DEF Grows
  <2> HIDE DEF q2
  <2> QED BY <1>1, <1>4, <2>1, PieceQueued
<1>9. Grows(a, b, q3, x4, 5 * r + 3, r, 10, v4, z4)
  <2>1. Queue(a, b, q3, 5 * r + 2, r, 3)
    BY <1>8 DEF Grows
  <2> HIDE DEF q3
  <2> QED BY <1>1, <1>5, <2>1, PieceQueued
<1>10. q4 = Opened(a, q, r)
  BY DEF Opened, x1, x2, x3, x4
<1>11. Queue(a, b, q4, 5 * r + 3, r, 10)
  BY <1>9 DEF Grows
<1>12. Waiting(q4) = (((Waiting(q) \cup v1) \cup v2) \cup v3) \cup v4
  <2>1. Waiting(q1) = Waiting(q) \cup v1
    BY <1>6 DEF Grows
  <2>2. Waiting(q2) = Waiting(q1) \cup v2
    BY <1>7 DEF Grows
  <2>3. Waiting(q3) = Waiting(q2) \cup v3
    BY <1>8 DEF Grows
  <2>4. Waiting(q4) = Waiting(q3) \cup v4
    BY <1>9 DEF Grows
  <2> QED BY <2>1, <2>2, <2>3, <2>4, Zenon
<1>13. Mapped(a, b, q4) = Mapped(a, b, q) \o Opening(a, r)
  <2> DEFINE g0 == Mapped(a, b, q)
  <2>1. Mapped(a, b, q1) = g0 \o z1
    BY <1>6 DEF Grows
  <2>2. Mapped(a, b, q2) = Mapped(a, b, q1) \o z2
    BY <1>7 DEF Grows
  <2>3. Mapped(a, b, q3) = Mapped(a, b, q2) \o z3
    BY <1>8 DEF Grows
  <2>4. Mapped(a, b, q4) = Mapped(a, b, q3) \o z4
    BY <1>9 DEF Grows
  <2>5. g0 \in Seq(T) /\ z1 \in Seq(T) /\ z2 \in Seq(T) /\ z3 \in Seq(T) /\ z4 \in Seq(T)
    <3>1. q \in Seq(S)
      BY DEF Queue
    <3> HIDE DEF S
    <3>2. \A y \in Seq(S) : Mapped(a, b, y) \in Seq(T)
      <4> TAKE y \in Seq(S)
      <4> QED BY MappedParts
    <3> QED BY <1>2, <1>3, <1>4, <1>5, <3>1, <3>2
  <2> HIDE DEF g0, T, q1, q2, q3, q4
  <2>6. (((g0 \o z1) \o z2) \o z3) \o z4 = g0 \o (((z1 \o z2) \o z3) \o z4)
    <3>0. PICK R : R = T
      OBVIOUS
    <3>1. PICK y0 \in Seq(R), y1 \in Seq(R), y2 \in Seq(R), y3 \in Seq(R), y4 \in Seq(R) :
            y0 = g0 /\ y1 = z1 /\ y2 = z2 /\ y3 = z3 /\ y4 = z4
      BY <2>5, <3>0
    <3>2. (((y0 \o y1) \o y2) \o y3) \o y4 = y0 \o (((y1 \o y2) \o y3) \o y4)
      <4>1. RegroupAll(y0, y1, y2, y3, y4)
        BY Associates
      <4> QED BY <4>1 DEF RegroupAll
    <3> QED BY <3>1, <3>2, Zenon
  <2>7. Opening(a, r) = ((z1 \o z2) \o z3) \o z4
    BY DEF Opening, z1, z2, z3, z4
  <2> QED BY <2>1, <2>2, <2>3, <2>4, <2>6, <2>7, Zenon DEF g0
<1>14. Waiting(q4) = Waiting(q) \cup WrapSet(a, r) \cup {<<r, "invalid", 0>>}
              \cup {<<r, "zero", p>> : p \in Positions}
              \cup {<<r, s, 0>> : s \in ClearSteps \cup {"magic"}}
  BY <1>12, Zenon DEF v1, v2, v3, v4
<1> HIDE DEF q4
<1> QED BY <1>10, <1>11, <1>13, <1>14, Zenon

LEMMA RecordQueued ==
  ASSUME NEW a, NEW b, NEW q, NEW r \in Nat, NEW n \in Nat,
         n = IF b[r] = 1 THEN 5 * r + 3 ELSE 5 * r, Queue(a, b, q, n, r, 10)
  PROVE  \E z : /\ Queue(a, b, z, 5 * (r + 1), r + 1, 0)
                /\ Waiting(z) = Waiting(q) \cup {<<r, s, 0>> : s \in CommitSteps}
                /\ Mapped(a, b, z) = Mapped(a, b, q) \o CommitStores(SlotOf(a[r]), b[r], r)
<1> DEFINE x == CommitPiece(r)
           more == {<<r, s, 0>> : s \in CommitSteps}
           y == CommitStores(SlotOf(a[r]), b[r], r)
           m == 5 * r + 5
<1>1. m \in Nat
  OBVIOUS
<1>2. Piece(a, b, x, n, m, r, 10, 14) /\ Waiting(x) = more /\ Mapped(a, b, x) = y
  BY Committing
<1>a. m = 5 * (r + 1)
  OBVIOUS
<1> HIDE DEF m, x, more, y
<1>3. Grows(a, b, q, x, m, r, 14, more, y)
  BY <1>1, <1>2, PieceQueued
<1>4. Queue(a, b, q \o x, m, r, 14)
  BY <1>3 DEF Grows
<1>5. Queue(a, b, q \o x, m, r + 1, 0)
  <2>1. PICK z : z = q \o x
    OBVIOUS
  <2>2. Queue(a, b, z, m, r + 1, 0)
    BY <1>1, <1>4, <2>1, QueueLater
  <2> QED BY <2>1, <2>2
<1> QED BY <1>3, <1>5, <1>a DEF Grows, m, more, y

(* The stores of a call and what it leaves waiting.                         *)
WithRecord(a, b, q, r, z) ==
  /\ Queue(a, b, z, 5 * (r + 1), r + 1, 0)
  /\ Waiting(z) = Waiting(q) \cup Added(a, b, r)
  /\ b[r] = 1 => Mapped(a, b, z) = (Mapped(a, b, q) \o Opening(a, r))
                                     \o CommitStores(SlotOf(a[r]), b[r], r)
  /\ b[r] # 1 => Mapped(a, b, z) = Mapped(a, b, q) \o CommitStores(SlotOf(a[r]), b[r], r)
LEMMA RecordQueue ==
  ASSUME NEW a, NEW b, NEW q, NEW r \in Nat, Queue(a, b, q, 5 * r, r, 0)
  PROVE  \E z : WithRecord(a, b, q, r, z)
<1>1. 5 * r \in Nat /\ 5 * r + 3 \in Nat
  OBVIOUS
<1>2. CASE b[r] = 1
  <2>1. PICK p : p = Opened(a, q, r)
    OBVIOUS
  <2>2. /\ Queue(a, b, p, 5 * r + 3, r, 10)
        /\ Waiting(p) =
              Waiting(q) \cup WrapSet(a, r) \cup {<<r, "invalid", 0>>}
              \cup {<<r, "zero", x>> : x \in Positions}
              \cup {<<r, s, 0>> : s \in ClearSteps \cup {"magic"}}
        /\ Mapped(a, b, p) = Mapped(a, b, q) \o Opening(a, r)
    BY <2>1, OpenedQueue
  <2>3. PICK z : /\ Queue(a, b, z, 5 * (r + 1), r + 1, 0)
                 /\ Waiting(z) = Waiting(p) \cup {<<r, s, 0>> : s \in CommitSteps}
                 /\ Mapped(a, b, z) = Mapped(a, b, p) \o CommitStores(SlotOf(a[r]), b[r], r)
    <3>1. PICK n \in Nat : n = 5 * r + 3
      BY <1>1
    <3> QED BY <1>2, <2>2, <3>1, RecordQueued
  <2>4. Added(a, b, r) =
          WrapSet(a, r) \cup {<<r, "invalid", 0>>} \cup {<<r, "zero", p1>> : p1 \in Positions}
          \cup {<<r, s, 0>> : s \in ClearSteps \cup {"magic"}}
          \cup {<<r, s, 0>> : s \in CommitSteps}
    BY <1>2, AddedOf DEF WrapSet
  <2>5. Waiting(z) = Waiting(q) \cup Added(a, b, r)
    <3> DEFINE v1 == WrapSet(a, r)
               v2 == {<<r, "invalid", 0>>}
               v3 == {<<r, "zero", p1>> : p1 \in Positions}
               v4 == {<<r, s, 0>> : s \in ClearSteps \cup {"magic"}}
               v5 == {<<r, s, 0>> : s \in CommitSteps}
    <3>1. Waiting(p) = Waiting(q) \cup v1 \cup v2 \cup v3 \cup v4
      BY <2>2
    <3>2. Added(a, b, r) = v1 \cup v2 \cup v3 \cup v4 \cup v5
      BY <2>4
    <3>3. Waiting(z) = Waiting(p) \cup v5
      BY <2>3
    <3> HIDE DEF v1, v2, v3, v4, v5
    <3> QED BY <3>1, <3>2, <3>3
  <2>6. Mapped(a, b, z) = (Mapped(a, b, q) \o Opening(a, r)) \o CommitStores(SlotOf(a[r]), b[r], r)
    BY <2>2, <2>3, Zenon
  <2> QED BY <1>2, <2>3, <2>5, <2>6, Zenon DEF WithRecord
<1>3. CASE b[r] # 1
  <2>1. Queue(a, b, q, 5 * r, r, 10)
    BY <1>1, QueueLater
  <2>2. PICK z : /\ Queue(a, b, z, 5 * (r + 1), r + 1, 0)
                 /\ Waiting(z) = Waiting(q) \cup {<<r, s, 0>> : s \in CommitSteps}
                 /\ Mapped(a, b, z) = Mapped(a, b, q) \o CommitStores(SlotOf(a[r]), b[r], r)
    <3>1. PICK n \in Nat : n = 5 * r
      BY <1>1
    <3> QED BY <1>3, <2>1, <3>1, RecordQueued
  <2>3. Waiting(z) = Waiting(q) \cup Added(a, b, r)
    BY <1>3, <2>2, AddedOf
  <2> QED BY <1>3, <2>2, <2>3, Zenon DEF WithRecord
<1> QED BY <1>2, <1>3

StoresGrown(c, d, w, n, a, b, m) ==
  Stores(a, b, w + 1, m, FALSE) = Stores(c, d, w, n, FALSE) \cup Added(a, b, w + 1)
LEMMA StoresGrow ==
  ASSUME NEW c, NEW d, NEW w \in Nat, NEW a, NEW b, Grown(c, d, w, a, b), NEW n, NEW m
  PROVE  StoresGrown(c, d, w, n, a, b, m)
<1>1. ASSUME NEW e, e[1] \in 1..w PROVE OfRecord(a, b, e) <=> OfRecord(c, d, e)
  <2>1. a[e[1]] = c[e[1]] /\ b[e[1]] = d[e[1]]
    BY <1>1 DEF Grown
  <2> QED BY <2>1 DEF OfRecord
<1>2. \A i \in Nat : i \in 1..(w + 1) <=> (i \in 1..w \/ i = w + 1)
  OBVIOUS
<1>3. \A e \in Labels : e[1] \in Nat
  BY LabelParts
<1> QED BY <1>1, <1>2, <1>3 DEF StoresGrown, Stores, Issued, Added

(* A call makes nothing visible.                                            *)
SameShown(c, d, q, w, n, a, b, z, m) ==
  Shown(a, b, z, w + 1, m, FALSE) = Shown(c, d, q, w, n, FALSE)
LEMMA TrackedGrows ==
  ASSUME NEW c, NEW d, NEW q, NEW w, NEW n, NEW u, NEW pub, NEW a, NEW b, NEW z, NEW m, NEW o,
         Tracked(c, d, q, w, n, u, FALSE, pub), Grown(c, d, w, a, b), m \in Nat,
         Laid(a, b, w + 1, m, o), WithRecord(a, b, q, w + 1, z)
  PROVE  Tracked(a, b, z, w + 1, m, o, FALSE, pub) /\ SameShown(c, d, q, w, n, a, b, z, m)
<1> DEFINE all == Stores(c, d, w, n, FALSE)
           more == Added(a, b, w + 1)
           seen == Shown(c, d, q, w, n, FALSE)
           new == Stores(a, b, w + 1, m, FALSE)
<1>1. /\ w \in Nat /\ n \in Nat /\ Laid(c, d, w, n, u) /\ pub \in 0..w
      /\ Closed(c, d, all, seen) /\ Waiting(q) \subseteq all
      /\ \A r \in 1..w : <<r, "cursor", 0>> \in seen <=> r <= pub
  BY TrackedParts
<1>2. new = all \cup more
  <2>1. w \in Nat /\ Grown(c, d, w, a, b)
    BY <1>1
  <2>2. StoresGrown(c, d, w, n, a, b, m)
    BY <2>1, StoresGrow
  <2> QED BY <2>2 DEF StoresGrown
<1>3. ASSUME NEW e \in all PROVE e \in Labels /\ e[1] \in 1..w /\ e[2] \in RecordSteps
  <2>1. e \in Issued(c, d, w, IF n < ChunkCount THEN n ELSE ChunkCount, FALSE)
    BY DEF Stores
  <2> QED BY <1>1, <2>1, IssuedParts
<1>4. ASSUME NEW e \in more PROVE e \in Labels /\ e[1] = w + 1
  BY DEF Added
<1>5. all \cap more = {}
  <2> SUFFICES ASSUME NEW e \in all, e \in more PROVE FALSE
    OBVIOUS
  <2>1. e[1] \in 1..w /\ e[1] = w + 1
    BY <1>3, <1>4
  <2> QED BY <1>1, <2>1
<1>6. seen = all \ Waiting(q) /\ Waiting(z) = Waiting(q) \cup more
  BY DEF Shown, WithRecord
<1> HIDE DEF all, more, seen, new
<1>7. new \ Waiting(z) = seen
  BY <1>2, <1>5, <1>6
<1>8. Closed(a, b, new, seen)
  <2> SUFFICES ASSUME NEW f \in seen, NEW e \in new,
                      \/ Stage(a, b, e) < Stage(a, b, f)
                      \/ Where(a, b, e) = Where(a, b, f) /\ Older(e, f)
               PROVE  e \in seen
    BY <1>2, <1>6 DEF Closed
  <2>1. f \in Labels /\ f[1] \in 1..w /\ f[2] \in RecordSteps
    BY <1>3, <1>6
  <2>2. Stage(a, b, f) = Stage(c, d, f) /\ Where(a, b, f) = Where(c, d, f)
    BY <2>1, SameLabel
  <2>3. CASE e \in all
    <3>1. e[1] \in 1..w /\ e[2] \in RecordSteps
      BY <1>3, <2>3
    <3>2. Stage(a, b, e) = Stage(c, d, e) /\ Where(a, b, e) = Where(c, d, e)
      BY <3>1, SameLabel
    <3> QED BY <1>1, <2>2, <2>3, <3>2 DEF Closed
  <2>4. CASE e \in more
    <3>1. e \in Labels /\ e[1] = w + 1
      BY <1>4, <2>4
    <3>2. Stage(a, b, e) >= 5 * e[1] /\ Stage(a, b, e) \in Nat
      BY <3>1, Levels
    <3>3. Stage(a, b, f) <= 5 * f[1] + 5 /\ Stage(a, b, f) \in Nat
      BY <2>1, Levels
    <3>4. ~(Stage(a, b, e) < Stage(a, b, f))
      BY <1>1, <2>1, <3>1, <3>2, <3>3
    <3>5. ~Older(e, f)
      BY <1>1, <2>1, <3>1 DEF Older
    <3> QED BY <3>4, <3>5
  <2> QED BY <1>2, <2>3, <2>4
<1>9. /\ pub \in 0..(w + 1) /\ w + 1 \in Nat
      /\ \A r \in 1..(w + 1) : <<r, "cursor", 0>> \in seen <=> r <= pub
  <2>1. <<w + 1, "cursor", 0>> \notin seen
    <3> SUFFICES ASSUME <<w + 1, "cursor", 0>> \in all PROVE FALSE
      BY <1>6
    <3>1. <<w + 1, "cursor", 0>>[1] \in 1..w
      BY <1>3
    <3> QED BY <1>1, <3>1
  <2>2. \A r \in 1..(w + 1) : r \in 1..w \/ r = w + 1
    BY <1>1
  <2>3. ~(w + 1 <= pub)
    BY <1>1
  <2> QED BY <1>1, <2>1, <2>2, <2>3
<1>10. Seen(a, b, w + 1, m, o, FALSE, seen, pub)
  BY <1>8, <1>9 DEF Seen, new, Stores
<1>11. Waiting(z) \subseteq new
  BY <1>1, <1>2, <1>6
<1>12. Queue(a, b, z, Now(w + 1, FALSE), w + 1 + 1, NextOrder(FALSE))
  <2>1. Now(w + 1, FALSE) = 5 * (w + 1 + 1) /\ NextOrder(FALSE) = 0
    BY <1>1 DEF Now, NextOrder
  <2> QED BY <2>1 DEF WithRecord
<1>13. Shown(a, b, z, w + 1, m, FALSE) = seen
  BY <1>7 DEF Shown, new
<1> QED BY <1>10, <1>11, <1>12, <1>13 DEF Tracked, SameShown, seen, new

(* Where a call's record goes.                                              *)
LEMMA NextSlotOf ==
  ASSUME NEW n \in Nat, Writer(n)
  PROVE  /\ NextSlot = SlotOf(n)
         /\ n > 0 => current_chunk = SlotOf(n - 1) /\ current_chunk # NoChunk
         /\ n = 0 => current_chunk = NoChunk
         /\ (valid_chunks = ChunkCount /\ ~wrapped) <=> n = ChunkCount
<1>1. ChunkCount \in Nat \ {0}
  BY PublicationAssumption
<1>2. /\ valid_chunks = IF n < ChunkCount THEN n ELSE ChunkCount
      /\ current_chunk = IF n = 0 THEN NoChunk ELSE SlotOf(n - 1)
      /\ wrapped <=> n > ChunkCount
  BY DEF Writer
<1>3. (valid_chunks = ChunkCount /\ ~wrapped) <=> n = ChunkCount
  BY <1>1, <1>2
<1>4. CASE n = 0
  <2>1. 0 \in Nat /\ 0 < ChunkCount
    BY <1>1
  <2>2. SlotOf(0) = 0
    BY <2>1, SlotRepeats
  <2> QED BY <1>2, <1>3, <1>4, <2>2 DEF NextSlot
<1>5. CASE n # 0
  <2>1. PICK s \in Nat : s = n - 1 /\ n = s + 1
    BY <1>5
  <2>2. /\ SlotOf(s) \in Slots
        /\ SlotOf(s + 1) = IF SlotOf(s) + 1 = ChunkCount THEN 0 ELSE SlotOf(s) + 1
    BY SlotRepeats
  <2>3. current_chunk = SlotOf(s) /\ SlotOf(s) # NoChunk
    BY <1>1, <1>2, <1>5, <2>1, <2>2 DEF Slots, NoChunk
  <2>4. NextSlot = SlotOf(s + 1)
    BY <2>2, <2>3 DEF NextSlot
  <2> QED BY <1>3, <1>5, <2>1, <2>3, <2>4
<1> QED BY <1>4, <1>5

LEMMA FreshWrite ==
  ASSUME NEW n \in Nat, Writer(n), next_sequence = n, WriteRecord(TRUE),
         NEW a, NEW r, a[r] = n
  PROVE  /\ pending' = (pending \o Opening(a, r)) \o CommitStores(SlotOf(n), 1, written + 1)
         /\ Writer(n + 1)' /\ next_sequence' = n + 1 /\ used' = 1
<1>1. ChunkCount \in Nat \ {0}
  BY PublicationAssumption
<1>2. NextSlot = SlotOf(n) /\ ((valid_chunks = ChunkCount /\ ~wrapped) <=> n = ChunkCount)
  BY NextSlotOf
<1>3. StartStores(SlotOf(n)) = Opening(a, r)
  BY <1>2 DEF StartStores, Opening
<1>4. /\ pending' = (pending \o StartStores(SlotOf(n))) \o CommitStores(SlotOf(n), 1, written + 1)
      /\ next_sequence' = n + 1 /\ used' = 1 /\ current_chunk' = SlotOf(n)
      /\ IF valid_chunks = ChunkCount
         THEN wrapped' = TRUE /\ valid_chunks' = valid_chunks
         ELSE valid_chunks' = valid_chunks + 1 /\ wrapped' = wrapped
  BY <1>2 DEF WriteRecord
<1>5. Writer(n + 1)'
  <2>1. /\ valid_chunks = IF n < ChunkCount THEN n ELSE ChunkCount
        /\ wrapped <=> n > ChunkCount
    BY DEF Writer
  <2>2. valid_chunks' = IF n + 1 < ChunkCount THEN n + 1 ELSE ChunkCount
    BY <1>1, <1>4, <2>1
  <2>3. wrapped' <=> n + 1 > ChunkCount
    BY <1>1, <1>4, <2>1
  <2>4. current_chunk' = IF n + 1 = 0 THEN NoChunk ELSE SlotOf(n + 1 - 1)
    <3>1. n + 1 - 1 = n /\ n + 1 # 0
      OBVIOUS
    <3> QED BY <1>4, <3>1
  <2> QED BY <2>2, <2>3, <2>4 DEF Writer
<1> QED BY <1>3, <1>4, <1>5

LEMMA PlainWrite ==
  ASSUME NEW n \in Nat, Writer(n), next_sequence = n, WriteRecord(FALSE),
         pending \in Seq(Entries)
  PROVE  /\ n > 0 /\ used < ChunkRecords
         /\ pending' = pending \o CommitStores(SlotOf(n - 1), used + 1, written + 1)
         /\ Writer(n)' /\ next_sequence' = n /\ used' = used + 1
<1>1. current_chunk # NoChunk /\ used < ChunkRecords
  BY DEF WriteRecord
<1>2. n > 0 /\ current_chunk = SlotOf(n - 1)
  BY <1>1, NextSlotOf
<1>3. /\ pending' = (pending \o <<>>) \o CommitStores(current_chunk, used + 1, written + 1)
      /\ next_sequence' = n /\ used' = used + 1 /\ current_chunk' = current_chunk
      /\ valid_chunks' = valid_chunks /\ wrapped' = wrapped
  BY DEF WriteRecord
<1>4. pending \o <<>> = pending
  BY ConcatEmptySeq
<1>5. Writer(n)'
  BY <1>3 DEF Writer
<1> QED BY <1>1, <1>2, <1>3, <1>4, <1>5

LEMMA SameImage ==
  ASSUME NEW c, NEW d, NEW w, NEW a, NEW b, NEW seen, Grown(c, d, w, a, b),
         \A e \in seen : e[1] \in 1..w /\ e[2] \in RecordSteps,
         Imaged(c, d, seen), memory' = memory
  PROVE  Imaged(a, b, seen)'
<1>1. \A e \in seen : /\ Where(a, b, e) = Where(c, d, e) /\ What(a, b, e) = What(c, d, e)
  BY SameLabel
<1>2. ASSUME NEW e \in seen, \A f \in seen : Where(a, b, f) = Where(a, b, e) => ~Older(e, f)
      PROVE  memory'[Where(a, b, e)] = What(a, b, e)
  <2>1. \A f \in seen : Where(c, d, f) = Where(c, d, e) => ~Older(e, f)
    BY <1>1, <1>2
  <2> QED BY <1>1, <2>1 DEF Imaged
<1>3. ASSUME NEW where \in Locations, \A e \in seen : Where(a, b, e) # where
      PROVE  memory'[where] = Blank(where)
  <2>1. \A e \in seen : Where(c, d, e) # where
    BY <1>1, <1>3
  <2> QED BY <2>1 DEF Imaged
<1> QED BY <1>2, <1>3 DEF Imaged

LEMMA StoresOfRecords ==
  ASSUME NEW c, NEW d, NEW w \in Nat, NEW n, NEW e \in Stores(c, d, w, n, FALSE)
  PROVE  e[1] \in 1..w /\ e[2] \in RecordSteps
<1>1. e \in Issued(c, d, w, IF n < ChunkCount THEN n ELSE ChunkCount, FALSE)
  BY DEF Stores
<1> QED BY <1>1, IssuedParts

LEMMA WriteSnap ==
  ASSUME IInv, SnapInv, NEW fresh \in BOOLEAN, WriteRecord(fresh)
  PROVE  SnapInv'
<1>1. PICK c, d, q, w, n, u, fin, pub : Snapshot(c, d, q, w, n, u, fin, pub)
  BY DEF SnapInv
<1>2. /\ Tracked(c, d, q, w, n, u, fin, pub)
      /\ Pends(c, d, q) /\ Imaged(c, d, Shown(c, d, q, w, n, fin)) /\ Writer(n)
      /\ written = w /\ next_sequence = n /\ used = u /\ finalized = fin /\ published = pub
  BY <1>1 DEF Snapshot
<1>3. pending \in Seq(Entries)
  BY DEF IInv
<1>4. /\ w \in Nat /\ n \in Nat /\ fin \in BOOLEAN /\ Laid(c, d, w, n, u)
      /\ Closed(c, d, Stores(c, d, w, n, fin), Shown(c, d, q, w, n, fin))
      /\ Waiting(q) \subseteq Stores(c, d, w, n, fin)
      /\ Queue(c, d, q, Now(w, fin), w + 1, NextOrder(fin))
  BY <1>2, TrackedParts
<1>5. fin = FALSE
  BY <1>2, <1>4 DEF WriteRecord
<1>6. fresh \/ (n > 0 /\ u < ChunkRecords)
  <2>1. CASE ~fresh
    <3>1. WriteRecord(FALSE)
      BY <2>1
    <3> QED BY <1>2, <1>3, <1>4, <3>1, PlainWrite
  <2> QED BY <2>1
<1>7. PICK a, b : /\ a = Longer(c, w, IF fresh THEN n ELSE n - 1)
                  /\ b = Longer(d, w, IF fresh THEN 1 ELSE u + 1)
  OBVIOUS
<1>a. PICK m \in Nat : m = IF fresh THEN n + 1 ELSE n
  BY <1>4
<1>b. PICK o : o = IF fresh THEN 1 ELSE u + 1
  OBVIOUS
<1>8. /\ m = (IF fresh THEN n + 1 ELSE n)
      /\ o = (IF fresh THEN 1 ELSE u + 1)
  BY <1>a, <1>b
<1>9. /\ Grown(c, d, w, a, b) /\ Laid(a, b, w + 1, m, o)
      /\ a[w + 1] = IF fresh THEN n ELSE n - 1
  BY <1>4, <1>6, <1>7, <1>8, LaidGrows
<1>10. (fresh => b[w + 1] = 1) /\ (~fresh => b[w + 1] = u + 1 /\ b[w + 1] # 1)
  BY <1>4, <1>6, <1>7, LaidGrows
<1>11. Queue(a, b, q, 5 * (w + 1), w + 1, 0) /\ Mapped(a, b, q) = pending
  <2>1. Queue(c, d, q, 5 * (w + 1), w + 1, 0)
    BY <1>4, <1>5 DEF Now, NextOrder
  <2>2. \A e \in Waiting(q) : e[1] \in 1..w /\ e[2] \in RecordSteps
    BY <1>4, <1>5, StoresOfRecords
  <2>3. Queue(a, b, q, 5 * (w + 1), w + 1, 0) /\ Mapped(a, b, q) = Mapped(c, d, q)
    BY <1>9, <2>1, <2>2, SameQueue
  <2> QED BY <1>2, <2>3 DEF Pends
<1>12. PICK z : WithRecord(a, b, q, w + 1, z)
  <2>1. PICK r \in Nat : r = w + 1
    BY <1>4
  <2>2. Queue(a, b, q, 5 * r, r, 0)
    BY <1>11, <2>1
  <2> QED BY <2>1, <2>2, RecordQueue
<1>14. /\ Tracked(a, b, z, w + 1, m, o, FALSE, pub)
       /\ SameShown(c, d, q, w, n, a, b, z, m)
  <2>1. Tracked(c, d, q, w, n, u, FALSE, pub)
    BY <1>2, <1>5
  <2>2. Laid(a, b, w + 1, m, o) /\ Grown(c, d, w, a, b)
    BY <1>9
  <2> QED BY <1>12, <2>1, <2>2, TrackedGrows
<1>15. /\ pending' = Mapped(a, b, z) /\ Writer(m)' /\ next_sequence' = m /\ used' = o
  <2>1. CASE fresh
    <3>1. WriteRecord(TRUE) /\ a[w + 1] = n /\ b[w + 1] = 1 /\ m = n + 1 /\ o = 1
      BY <1>8, <1>9, <1>10, <2>1
    <3>2. /\ pending' = (pending \o Opening(a, w + 1)) \o CommitStores(SlotOf(n), 1, written + 1)
          /\ Writer(n + 1)' /\ next_sequence' = n + 1 /\ used' = 1
      BY <1>2, <1>4, <3>1, FreshWrite
    <3>3. Mapped(a, b, z) = (pending \o Opening(a, w + 1)) \o CommitStores(SlotOf(n), 1, w + 1)
      BY <1>11, <1>12, <3>1 DEF WithRecord
    <3> QED BY <1>2, <3>1, <3>2, <3>3
  <2>2. CASE ~fresh
    <3>1. WriteRecord(FALSE) /\ a[w + 1] = n - 1 /\ b[w + 1] = u + 1 /\ b[w + 1] # 1
          /\ m = n /\ o = u + 1
      BY <1>8, <1>9, <1>10, <2>2
    <3>2. /\ pending' = pending \o CommitStores(SlotOf(n - 1), used + 1, written + 1)
          /\ Writer(n)' /\ next_sequence' = n /\ used' = used + 1
      BY <1>2, <1>3, <1>4, <3>1, PlainWrite
    <3>3. Mapped(a, b, z) = pending \o CommitStores(SlotOf(n - 1), u + 1, w + 1)
      BY <1>11, <1>12, <3>1 DEF WithRecord
    <3> QED BY <1>2, <3>1, <3>2, <3>3
  <2> QED BY <2>1, <2>2
<1>16. memory' = memory /\ written' = w + 1 /\ finalized' = FALSE /\ published' = pub
  BY <1>2, <1>5 DEF WriteRecord
<1>17. Imaged(a, b, Shown(a, b, z, w + 1, m, FALSE))'
  <2>1. PICK seen : seen = Shown(c, d, q, w, n, FALSE)
    OBVIOUS
  <2>2. \A e \in seen : e[1] \in 1..w /\ e[2] \in RecordSteps
    BY <1>4, <2>1, StoresOfRecords DEF Shown
  <2>3. Imaged(c, d, seen)
    BY <1>2, <1>5, <2>1
  <2>4. Imaged(a, b, seen)'
    BY <1>9, <1>16, <2>2, <2>3, SameImage
  <2>5. seen = Shown(a, b, z, w + 1, m, FALSE)
    BY <1>14, <2>1 DEF SameShown
  <2> QED BY <2>4, <2>5 DEF Imaged
<1>18. Pends(a, b, z)'
  BY <1>15 DEF Pends
<1>19. Snapshot(a, b, z, w + 1, m, o, FALSE, pub)'
  BY <1>14, <1>15, <1>16, <1>17, <1>18 DEF Snapshot
<1> QED BY <1>19 DEF SnapInv

(* The header's counts, after the CRCs of the chunks.                       *)
LEMMA Counting ==
  ASSUME NEW c, NEW d, NEW r \in Nat
  PROVE  /\ TotalPiece(r) \in Seq(Labels \cup {Barrier})
         /\ Piece(c, d, TotalPiece(r), 5 * r, 5 * r + 1, r, 2, 3)
         /\ Waiting(TotalPiece(r)) = {<<r, "total", 0>>}
         /\ Mapped(c, d, TotalPiece(r)) = <<Store(Field(File, "counts"), r - 1), Barrier>>
<1> DEFINE x == <<<<r, "total", 0>>, Barrier>>
           k == 2
<1>1. "total" \in Steps /\ k = OrderOf["total"] /\ k \in Nat
  BY Orders DEF Steps, FileSteps
<1>2. Stage(c, d, <<r, "total", 0>>) = 5 * r
  BY StageOfHead
<1>3. 5 * r \in Nat /\ 5 * r + 1 \in Nat /\ 5 * r <= 5 * r + 1
  OBVIOUS
<1> HIDE DEF k
<1>4. /\ x \in Seq(Labels \cup {Barrier}) /\ Piece(c, d, x, 5 * r, 5 * r + 1, r, k, k + 1)
      /\ Waiting(x) = {<<r, "total", 0>>}
      /\ Mapped(c, d, x) = <<Entry(c, d, <<r, "total", 0>>), Barrier>>
  BY <1>1, <1>2, <1>3, PairPiece
<1>5. Mapped(c, d, x) = <<Store(Field(File, "counts"), r - 1), Barrier>>
  BY <1>4, TotalEntry
<1>6. TotalPiece(r) = x
  BY DEF TotalPiece
<1>7. Piece(c, d, x, 5 * r, 5 * r + 1, r, 2, 3)
  BY <1>4 DEF k
<1> QED BY <1>4, <1>5, <1>6, <1>7

LEMMA SealedOf ==
  ASSUME NEW r \in Nat, NEW v \in Nat
  PROVE  Sealed(r, v) =
           {<<r, s, i>> : s \in SealSteps, i \in 0..(v - 1)} \cup {<<r, "total", 0>>}
           \cup {<<r, s, 0>> : s \in {"announce", "crc0", "crc", "finalized"}}
<1>1. \A e \in Labels : e = <<e[1], e[2], e[3]>>
  BY LabelParts
<1>2. ASSUME NEW s \in Steps, NEW i \in Nat PROVE <<r, s, i>> \in Labels
  BY LabelOf
<1>3. SealSteps \subseteq Steps /\ FileSteps \subseteq Steps
      /\ FileSteps = {"total", "announce", "crc0", "crc", "finalized"}
  BY DEF Steps, FileSteps
<1> DEFINE A == {<<r, s, i>> : s \in SealSteps, i \in 0..(v - 1)}
           B == {<<r, "total", 0>>}
           C == {<<r, s, 0>> : s \in {"announce", "crc0", "crc", "finalized"}}
<1>4. ASSUME NEW e \in Sealed(r, v) PROVE e \in A \cup B \cup C
  <2>1. e = <<r, e[2], e[3]>> /\ OfFile(e, v)
    BY <1>1 DEF Sealed
  <2>2. CASE e[2] \in FileSteps /\ e[3] = 0
    <3>1. e = <<r, e[2], 0>>
      BY <2>1, <2>2
    <3> QED BY <1>3, <2>2, <3>1
  <2>3. CASE e[2] \in SealSteps /\ e[3] \in 0..(v - 1)
    BY <2>1, <2>3
  <2> QED BY <2>1, <2>2, <2>3 DEF OfFile
<1>5. ASSUME NEW s \in FileSteps PROVE <<r, s, 0>> \in Sealed(r, v)
  BY <1>2, <1>3 DEF Sealed, OfFile
<1>6. ASSUME NEW s \in SealSteps, NEW i \in 0..(v - 1) PROVE <<r, s, i>> \in Sealed(r, v)
  BY <1>2, <1>3 DEF Sealed, OfFile
<1>7. A \subseteq Sealed(r, v)
  BY <1>6
<1>8. B \cup C \subseteq Sealed(r, v)
  BY <1>3, <1>5
<1> QED BY <1>4, <1>7, <1>8

(* The stores of finalize and what it leaves waiting.                       *)
Ended(c, d, q, r, v, z) ==
  /\ Queue(c, d, z, 5 * r + 2, r, 7)
  /\ Waiting(z) = Waiting(q) \cup Sealed(r, v)
  /\ Mapped(c, d, z) =
       ((Mapped(c, d, q) \o Seals) \o <<Store(Field(File, "counts"), r - 1), Barrier>>)
       \o <<Store(Field(File, "flags"), FlagsAt(c, r)), Store(Field(File, "crc"), Torn),
            Store(Field(File, "crc"), 1), Barrier,
            Store(Field(File, "flags"), FlagsAt(c, r) \cup {"finalized"})>>
LEMMA FinalQueue ==
  ASSUME NEW c, NEW d, NEW q, NEW r \in Nat, NEW v \in Nat, valid_chunks = v,
         Queue(c, d, q, 5 * r, r, 0)
  PROVE  \E z : Ended(c, d, q, r, v, z)
<1> DEFINE x1 == SealPiece(r, v)
           x2 == TotalPiece(r)
           x3 == FlagPiece(r)
           y1 == Seals
           y2 == <<Store(Field(File, "counts"), r - 1), Barrier>>
           y3 == <<Store(Field(File, "flags"), FlagsAt(c, r)), Store(Field(File, "crc"), Torn),
                   Store(Field(File, "crc"), 1), Barrier,
                   Store(Field(File, "flags"), FlagsAt(c, r) \cup {"finalized"})>>
           v1 == {<<r, s, i>> : s \in SealSteps, i \in 0..(v - 1)}
           v2 == {<<r, "total", 0>>}
           v3 == {<<r, s, 0>> : s \in {"announce", "crc0", "crc", "finalized"}}
           q1 == q \o x1
           q2 == q1 \o x2
           q3 == q2 \o x3
<1>1. 5 * r \in Nat /\ 5 * r + 1 \in Nat /\ 5 * r + 2 \in Nat
  OBVIOUS
<1>2. Piece(c, d, x1, 5 * r, 5 * r, r, 0, 2) /\ Waiting(x1) = v1 /\ Mapped(c, d, x1) = y1
  <2>1. Piece(c, d, x1, 5 * r, 5 * r, r, 0, 2)
    BY SealingOf
  <2>2. SealsMapped(c, d, r, v)
    BY SealingOf
  <2> QED BY <2>1, <2>2 DEF SealsMapped
<1>3. Piece(c, d, x2, 5 * r, 5 * r + 1, r, 2, 3) /\ Waiting(x2) = v2 /\ Mapped(c, d, x2) = y2
  BY Counting
<1>4. Piece(c, d, x3, 5 * r + 1, 5 * r + 2, r, 3, 7) /\ Waiting(x3) = v3 /\ Mapped(c, d, x3) = y3
  BY Announcement
<1>5. Sealed(r, v) = (v1 \cup v2) \cup v3
  BY SealedOf
<1> HIDE DEF x1, x2, x3, y1, y2, y3, v1, v2, v3
<1>6. Grows(c, d, q, x1, 5 * r, r, 2, v1, y1)
  BY <1>1, <1>2, PieceQueued
<1>7. Grows(c, d, q1, x2, 5 * r + 1, r, 3, v2, y2)
  <2>1. Queue(c, d, q1, 5 * r, r, 2)
    BY <1>6 DEF Grows
  <2> HIDE DEF q1
  <2> QED BY <1>1, <1>3, <2>1, PieceQueued
<1>8. Grows(c, d, q2, x3, 5 * r + 2, r, 7, v3, y3)
  <2>1. Queue(c, d, q2, 5 * r + 1, r, 3)
    BY <1>7 DEF Grows
  <2> HIDE DEF q2
  <2> QED BY <1>1, <1>4, <2>1, PieceQueued
<1>9. Queue(c, d, q3, 5 * r + 2, r, 7)
  BY <1>8 DEF Grows
<1>10. Waiting(q3) = Waiting(q) \cup Sealed(r, v)
  <2>1. Waiting(q1) = Waiting(q) \cup v1
    BY <1>6 DEF Grows
  <2>2. Waiting(q2) = Waiting(q1) \cup v2
    BY <1>7 DEF Grows
  <2>3. Waiting(q3) = Waiting(q2) \cup v3
    BY <1>8 DEF Grows
  <2> HIDE DEF q1, q2, q3
  <2> QED BY <1>5, <2>1, <2>2, <2>3
<1>11. Mapped(c, d, q3) = ((Mapped(c, d, q) \o y1) \o y2) \o y3
  <2>1. Mapped(c, d, q1) = Mapped(c, d, q) \o y1
    BY <1>6 DEF Grows
  <2>2. Mapped(c, d, q2) = Mapped(c, d, q1) \o y2
    BY <1>7 DEF Grows
  <2>3. Mapped(c, d, q3) = Mapped(c, d, q2) \o y3
    BY <1>8 DEF Grows
  <2> HIDE DEF q1, q2, q3
  <2> QED BY <2>1, <2>2, <2>3, Zenon
<1>12. PICK z : z = q3
  OBVIOUS
<1>13. Ended(c, d, q, r, v, z)
  BY <1>9, <1>10, <1>11, <1>12, Zenon DEF Ended, y1, y2, y3
<1> QED BY <1>13

StoresEnd(c, d, w, n, v) ==
  Stores(c, d, w, n, TRUE) = Stores(c, d, w, n, FALSE) \cup Sealed(w + 1, v)
LEMMA StoresEnded ==
  ASSUME NEW c, NEW d, NEW w \in Nat, NEW n, NEW v, v = IF n < ChunkCount THEN n ELSE ChunkCount
  PROVE  StoresEnd(c, d, w, n, v)
BY DEF StoresEnd, Stores, Issued, Sealed

EndShown(c, d, q, w, n, z) == Shown(c, d, z, w, n, TRUE) = Shown(c, d, q, w, n, FALSE)
LEMMA TrackedEnds ==
  ASSUME NEW c, NEW d, NEW q, NEW w, NEW n, NEW u, NEW pub, NEW v, NEW z,
         Tracked(c, d, q, w, n, u, FALSE, pub), v = IF n < ChunkCount THEN n ELSE ChunkCount,
         Ended(c, d, q, w + 1, v, z)
  PROVE  Tracked(c, d, z, w, n, u, TRUE, pub) /\ EndShown(c, d, q, w, n, z)
<1> DEFINE all == Stores(c, d, w, n, FALSE)
           more == Sealed(w + 1, v)
           seen == Shown(c, d, q, w, n, FALSE)
           new == Stores(c, d, w, n, TRUE)
<1>1. /\ w \in Nat /\ n \in Nat /\ Laid(c, d, w, n, u) /\ pub \in 0..w
      /\ Closed(c, d, all, seen) /\ Waiting(q) \subseteq all
      /\ \A r \in 1..w : <<r, "cursor", 0>> \in seen <=> r <= pub
  BY TrackedParts
<1>2. new = all \cup more
  <2>1. StoresEnd(c, d, w, n, v)
    BY <1>1, StoresEnded
  <2> QED BY <2>1 DEF StoresEnd
<1>3. ASSUME NEW e \in all PROVE e \in Labels /\ e[1] \in 1..w
  <2>1. e \in Labels
    BY DEF Stores, Issued
  <2> QED BY <1>1, <2>1, StoresOfRecords
<1>4. ASSUME NEW e \in more PROVE e \in Labels /\ e[1] = w + 1
  BY DEF Sealed
<1>5. all \cap more = {}
  <2> SUFFICES ASSUME NEW e \in all, e \in more PROVE FALSE
    OBVIOUS
  <2>1. e[1] \in 1..w /\ e[1] = w + 1
    BY <1>3, <1>4
  <2> QED BY <1>1, <2>1
<1>6. seen = all \ Waiting(q) /\ Waiting(z) = Waiting(q) \cup more
  BY DEF Shown, Ended
<1> HIDE DEF all, more, seen, new
<1>7. new \ Waiting(z) = seen
  BY <1>2, <1>5, <1>6
<1>8. Closed(c, d, new, seen)
  <2> SUFFICES ASSUME NEW f \in seen, NEW e \in new,
                      \/ Stage(c, d, e) < Stage(c, d, f)
                      \/ Where(c, d, e) = Where(c, d, f) /\ Older(e, f)
               PROVE  e \in seen
    BY <1>2, <1>6 DEF Closed
  <2>1. f \in Labels /\ f[1] \in 1..w
    BY <1>3, <1>6
  <2>2. CASE e \in all
    BY <1>1, <2>2 DEF Closed
  <2>3. CASE e \in more
    <3>1. e \in Labels /\ e[1] = w + 1
      BY <1>4, <2>3
    <3>2. Stage(c, d, e) >= 5 * e[1] /\ Stage(c, d, e) \in Nat
      BY <3>1, Levels
    <3>3. Stage(c, d, f) <= 5 * f[1] + 5 /\ Stage(c, d, f) \in Nat
      BY <2>1, Levels
    <3>4. ~(Stage(c, d, e) < Stage(c, d, f))
      BY <1>1, <2>1, <3>1, <3>2, <3>3
    <3>5. ~Older(e, f)
      BY <1>1, <2>1, <3>1 DEF Older
    <3> QED BY <3>4, <3>5
  <2> QED BY <1>2, <2>2, <2>3
<1>9. Seen(c, d, w, n, u, TRUE, seen, pub)
  BY <1>1, <1>8 DEF Seen, new, Stores
<1>10. Waiting(z) \subseteq new
  BY <1>1, <1>2, <1>6
<1>11. Queue(c, d, z, Now(w, TRUE), w + 1, NextOrder(TRUE))
  <2>1. Now(w, TRUE) = 5 * (w + 1) + 2 /\ NextOrder(TRUE) = 7
    BY DEF Now, NextOrder
  <2> QED BY <2>1 DEF Ended
<1>12. Shown(c, d, z, w, n, TRUE) = seen
  BY <1>7 DEF Shown, new
<1> QED BY <1>9, <1>10, <1>11, <1>12 DEF Tracked, EndShown, seen, new

LEMMA FinalizeStores ==
  ASSUME NEW c, NEW d, NEW w, NEW n, NEW u, w \in Nat, n \in Nat, Laid(c, d, w, n, u),
         Writer(n), written = w, next_sequence = n, Finalize
  PROVE  pending' = ((pending \o Seals) \o <<Store(Field(File, "counts"), w), Barrier>>)
           \o <<Store(Field(File, "flags"), FlagsAt(c, w + 1)), Store(Field(File, "crc"), Torn),
                Store(Field(File, "crc"), 1), Barrier,
                Store(Field(File, "flags"), FlagsAt(c, w + 1) \cup {"finalized"})>>
<1>1. FinalFlags = FlagsAt(c, w + 1)
  <2>1. (valid_chunks = ChunkCount /\ next_sequence > ChunkCount) <=> n > ChunkCount
    BY PublicationAssumption DEF Writer
  <2>2. (w + 1 > 1 /\ c[w + 1 - 1] >= ChunkCount) <=> n > ChunkCount
    <3>1. CASE w = 0
      <4>1. n = 0
        BY <3>1 DEF Laid
      <4> QED BY <3>1, <4>1, PublicationAssumption
    <3>2. CASE w # 0
      <4>1. c[w] = n - 1 /\ w + 1 - 1 = w /\ w + 1 > 1
        BY <3>2 DEF Laid
      <4>2. c[w + 1 - 1] = n - 1
        BY <4>1
      <4> QED BY <4>1, <4>2, PublicationAssumption
    <3> QED BY <3>1, <3>2
  <2> QED BY <2>1, <2>2 DEF FinalFlags, FlagsAt
<1>2. pending' = ((pending \o Seals) \o <<Store(Field(File, "counts"), written), Barrier>>)
                   \o Announce
  BY DEF Finalize, Seals
<1>3. Announce =
        <<Store(Field(File, "flags"), FlagsAt(c, w + 1)), Store(Field(File, "crc"), Torn),
          Store(Field(File, "crc"), 1), Barrier,
          Store(Field(File, "flags"), FlagsAt(c, w + 1) \cup {"finalized"})>>
  BY <1>1 DEF Announce
<1> QED BY <1>2, <1>3, Zenon

LEMMA FinalizeSnap ==
  ASSUME SnapInv, Finalize
  PROVE  SnapInv'
<1>1. PICK c, d, q, w, n, u, fin, pub : Snapshot(c, d, q, w, n, u, fin, pub)
  BY DEF SnapInv
<1>2. /\ Tracked(c, d, q, w, n, u, fin, pub)
      /\ Pends(c, d, q) /\ Imaged(c, d, Shown(c, d, q, w, n, fin)) /\ Writer(n)
      /\ written = w /\ next_sequence = n /\ used = u /\ finalized = fin /\ published = pub
  BY <1>1 DEF Snapshot
<1>3. /\ w \in Nat /\ n \in Nat /\ fin \in BOOLEAN /\ Laid(c, d, w, n, u)
      /\ Queue(c, d, q, Now(w, fin), w + 1, NextOrder(fin))
  BY <1>2, TrackedParts
<1>4. fin = FALSE
  BY <1>2, <1>3 DEF Finalize
<1>5. PICK v \in Nat : v = valid_chunks /\ v = IF n < ChunkCount THEN n ELSE ChunkCount
  BY <1>2, <1>3, PublicationAssumption DEF Writer
<1>6. PICK r \in Nat : r = w + 1 /\ r - 1 = w
  BY <1>3
<1>7. PICK z : Ended(c, d, q, r, v, z)
  <2>1. Queue(c, d, q, 5 * r, r, 0)
    BY <1>3, <1>4, <1>6 DEF Now, NextOrder
  <2> QED BY <1>5, <2>1, FinalQueue
<1>8. Tracked(c, d, z, w, n, u, TRUE, pub) /\ EndShown(c, d, q, w, n, z)
  <2>1. Tracked(c, d, q, w, n, u, FALSE, pub) /\ Ended(c, d, q, w + 1, v, z)
    BY <1>2, <1>4, <1>6, <1>7
  <2> QED BY <1>5, <2>1, TrackedEnds
<1>9. pending' = Mapped(c, d, z)
  <2>1. pending = Mapped(c, d, q)
    BY <1>2 DEF Pends
  <2>2. pending' = ((pending \o Seals) \o <<Store(Field(File, "counts"), w), Barrier>>)
           \o <<Store(Field(File, "flags"), FlagsAt(c, w + 1)), Store(Field(File, "crc"), Torn),
                Store(Field(File, "crc"), 1), Barrier,
                Store(Field(File, "flags"), FlagsAt(c, w + 1) \cup {"finalized"})>>
    BY <1>2, <1>3, FinalizeStores
  <2> QED BY <1>6, <1>7, <2>1, <2>2, Zenon DEF Ended
<1>10. /\ memory' = memory /\ written' = w /\ next_sequence' = n /\ used' = u
       /\ finalized' = TRUE /\ published' = pub /\ Writer(n)'
  BY <1>2 DEF Finalize, Writer
<1>11. Imaged(c, d, Shown(c, d, z, w, n, TRUE))'
  <2>1. Shown(c, d, z, w, n, TRUE) = Shown(c, d, q, w, n, fin)
    BY <1>4, <1>8 DEF EndShown
  <2> QED BY <1>2, <1>10, <2>1 DEF Imaged
<1>12. Pends(c, d, z)'
  BY <1>9 DEF Pends
<1>13. Snapshot(c, d, z, w, n, u, TRUE, pub)'
  BY <1>8, <1>10, <1>11, <1>12 DEF Snapshot
<1> QED BY <1>13 DEF SnapInv

LEMMA InitSnap ==
  ASSUME Init
  PROVE  SnapInv
<1>1. PICK c, d, q : c = [r \in 1..0 |-> 0] /\ d = [r \in 1..0 |-> 1] /\ q = <<>>
  OBVIOUS
<1>2. 1..0 = {} /\ 0..(0 - 1) = {} /\ 0..0 = {0}
  OBVIOUS
<1>3. c \in [1..0 -> Nat] /\ d \in [1..0 -> Positions]
  BY <1>1, <1>2
<1>4. Laid(c, d, 0, 0, 0)
  BY <1>2, <1>3 DEF Laid
<1>5. Stores(c, d, 0, 0, FALSE) = {}
  BY <1>2 DEF Stores, Issued
<1>6. Shown(c, d, q, 0, 0, FALSE) = {}
  BY <1>5 DEF Shown
<1>7. q \in Seq(Labels \cup {Barrier}) /\ DOMAIN q = {}
  BY <1>1, EmptySeq
<1>8. Queue(c, d, q, Now(0, FALSE), 0 + 1, NextOrder(FALSE)) /\ Waiting(q) = {}
  BY <1>7 DEF Queue, Paired, Waiting
<1>9. Tracked(c, d, q, 0, 0, 0, FALSE, 0)
  <2>1. Seen(c, d, 0, 0, 0, FALSE, {}, 0)
    BY <1>2, <1>4, <1>5 DEF Seen, Closed
  <2> QED BY <1>6, <1>8, <2>1 DEF Tracked
<1>10. Pends(c, d, q)
  BY <1>1, NothingMapped DEF Init, Pends
<1>11. Imaged(c, d, {})
  <2>1. \A where \in Locations : memory[where] = Blank(where)
    BY DEF Init, Blank
  <2> QED BY <2>1 DEF Imaged
<1>12. Writer(0)
  BY PublicationAssumption DEF Init, Writer
<1>13. /\ written = 0 /\ next_sequence = 0 /\ used = 0 /\ finalized = FALSE /\ published = 0
  BY DEF Init
<1>14. Snapshot(c, d, q, 0, 0, 0, FALSE, 0)
  BY <1>6, <1>9, <1>10, <1>11, <1>12, <1>13 DEF Snapshot
<1> QED BY <1>14 DEF SnapInv

LEMMA StutterSnap ==
  ASSUME SnapInv, UNCHANGED vars
  PROVE  SnapInv'
<1>1. PICK c, d, q, w, n, u, fin, pub : Snapshot(c, d, q, w, n, u, fin, pub)
  BY DEF SnapInv
<1>2. Snapshot(c, d, q, w, n, u, fin, pub)'
  BY <1>1 DEF Snapshot, Pends, Imaged, Writer, vars
<1> QED BY <1>2 DEF SnapInv

LEMMA SnapInduction == Spec => []SnapInv
<1>1. ASSUME IInv, SnapInv, [Next]_vars PROVE SnapInv'
  <2>1. CASE \E fresh \in BOOLEAN : WriteRecord(fresh)
    BY <1>1, <2>1, WriteSnap
  <2>2. CASE Finalize
    BY <1>1, <2>2, FinalizeSnap
  <2>3. CASE \E i \in Ready : BecomeVisible(i)
    BY <1>1, <2>3, VisibleSnap
  <2>4. CASE UNCHANGED vars
    BY <1>1, <2>4, StutterSnap
  <2> QED BY <1>1, <2>1, <2>2, <2>3, <2>4 DEF Next
<1>2. Init => SnapInv
  BY InitSnap
<1> QED BY <1>1, <1>2, Induction, PTL DEF Spec

LEMMA SnapView ==
  ASSUME SnapInv
  PROVE  RecoversNewestRun /\ LossIsFlagged
<1>1. PICK c, d, q, w, n, u, fin, pub : Snapshot(c, d, q, w, n, u, fin, pub)
  BY DEF SnapInv
<1>2. PICK seen : seen = Shown(c, d, q, w, n, fin)
  OBVIOUS
<1>3. Seen(c, d, w, n, u, fin, seen, pub) /\ Imaged(c, d, seen) /\ published = pub
  BY <1>1, <1>2 DEF Snapshot, Tracked
<1>4. PICK h : Newest(c, d, w, n, seen, h)
  BY <1>3, HasNewest
<1>5. View(c, d, w, n, u, fin, seen, pub, h)
  BY <1>3, <1>4 DEF View
<1>6. RecoversNewestRun
  BY <1>3, <1>5, ViewRecovers
<1>7. LossIsFlagged
  BY <1>3, <1>5, ViewFlagged
<1> QED BY <1>6, <1>7

(* Whenever a call is interrupted, a recovery read returns consecutive      *)
(* whole records that end with the newest published one, and with more than *)
(* two chunks it returns some (rbct_start_chunk, rbct_commit_bit_record and *)
(* the recovery reader), in whatever order the stores between two barriers  *)
(* become visible.                                                          *)
THEOREM RecoveryIsNewestRun == Spec => []RecoversNewestRun
<1>1. SnapInv => RecoversNewestRun
  BY SnapView
<1> QED BY <1>1, SnapInduction, PTL

(* A snapshot from which a published record is missing because its chunk    *)
(* was reused says in its header that the ring wrapped (rbct_start_chunk    *)
(* flags the first reuse before it begins).                                 *)
THEOREM LostIsFlagged == Spec => []LossIsFlagged
<1>1. SnapInv => LossIsFlagged
  BY SnapView
<1> QED BY <1>1, SnapInduction, PTL

----------------------------------------------------------------------------
(* The window on the records: how it moves when one more store is visible.  *)
WindowOf(c, d, w, pub, h) == Run(First(c, d, w, Oldest(h)), pub)

LEMMA RunAppended ==
  ASSUME NEW a \in Nat, NEW b \in Nat, a <= b + 1
  PROVE  Append(Run(a, b), b + 1) = Run(a, b + 1)
<1> DEFINE x == Run(a, b)
           y == Append(x, b + 1)
           z == Run(a, b + 1)
<1>1. x \in Seq(Nat) /\ Len(x) = b + 1 - a /\ \A i \in 1..(b + 1 - a) : x[i] = a + i - 1
  BY RunParts
<1>2. b + 1 \in Nat /\ a <= b + 1 + 1
  OBVIOUS
<1>3. /\ z \in Seq(Nat) /\ Len(z) = b + 1 + 1 - a
      /\ \A i \in 1..(b + 1 + 1 - a) : z[i] = a + i - 1
  BY <1>2, RunParts
<1> HIDE DEF x, z
<1>4. /\ y \in Seq(Nat) /\ Len(y) = Len(x) + 1
      /\ \A i \in 1..Len(x) : y[i] = x[i]
      /\ y[Len(x) + 1] = b + 1
  BY <1>1, <1>2, AppendProperties
<1> HIDE DEF y
<1>5. Len(y) = Len(z) /\ \A i \in 1..Len(y) : y[i] = z[i]
  <2>1. Len(y) = b + 2 - a /\ Len(z) = b + 2 - a /\ Len(x) = b + 1 - a
    BY <1>1, <1>3, <1>4
  <2>2. ASSUME NEW i \in 1..Len(y) PROVE y[i] = z[i]
    <3>1. z[i] = a + i - 1
      BY <1>3, <2>1
    <3>2. CASE i = b + 2 - a
      <4>1. y[i] = b + 1
        BY <1>4, <2>1, <3>2
      <4> QED BY <3>1, <3>2, <4>1
    <3>3. CASE i # b + 2 - a
      <4>1. i \in 1..Len(x)
        BY <2>1, <3>3
      <4>2. y[i] = x[i] /\ x[i] = a + i - 1
        BY <1>1, <1>4, <2>1, <4>1
      <4> QED BY <3>1, <4>2
    <3> QED BY <3>2, <3>3
  <2> QED BY <2>1, <2>2
<1>6. y = z
  BY <1>3, <1>4, <1>5, SameSeq
<1> QED BY <1>6 DEF x, y, z

LEMMA RunShortened ==
  ASSUME NEW a \in Nat, NEW b \in Nat, NEW m \in Nat, a + m <= b + 1
  PROVE  SubSeq(Run(a, b), m + 1, Len(Run(a, b))) = Run(a + m, b)
<1> DEFINE x == Run(a, b)
           y == SubSeq(x, m + 1, Len(x))
           z == Run(a + m, b)
<1>1. x \in Seq(Nat) /\ Len(x) = b + 1 - a /\ \A i \in 1..(b + 1 - a) : x[i] = a + i - 1
  <2>1. a <= b + 1
    OBVIOUS
  <2> QED BY <2>1, RunParts
<1>2. a + m \in Nat
  OBVIOUS
<1>3. /\ z \in Seq(Nat) /\ Len(z) = b + 1 - (a + m)
      /\ \A i \in 1..(b + 1 - (a + m)) : z[i] = (a + m) + i - 1
  <2> DEFINE k == a + m
  <2>1. k \in Nat /\ k <= b + 1
    OBVIOUS
  <2> HIDE DEF k
  <2>2. /\ Run(k, b) \in Seq(Nat) /\ Len(Run(k, b)) = b + 1 - k
        /\ \A i \in 1..(b + 1 - k) : Run(k, b)[i] = k + i - 1
    BY <2>1, RunParts
  <2> QED BY <2>2 DEF k
<1> HIDE DEF x, z
<1>4. /\ y \in Seq(Nat) /\ Len(y) = Len(x) - m
      /\ \A i \in 1..(Len(x) - m) : y[i] = x[m + i]
  <2>1. /\ m + 1 \in 1..(Len(x) + 1) /\ Len(x) \in m..Len(x) /\ Len(x) \in Nat
    BY <1>1
  <2>2. y \in [1..(Len(x) - m) -> Nat] /\ \A i \in 1..(Len(x) - m) : y[i] = x[m + i]
    <3>1. y = [i \in 1..(Len(x) - (m + 1) + 1) |-> x[i + (m + 1) - 1]]
      BY <1>1, <2>1
    <3>2. Len(x) - (m + 1) + 1 = Len(x) - m
      BY <2>1
    <3>3. \A i \in 1..(Len(x) - m) : i + (m + 1) - 1 = m + i /\ x[m + i] \in Nat
      BY <1>1, <2>1
    <3> QED BY <3>1, <3>2, <3>3
  <2> HIDE DEF y
  <2>3. Len(x) - m \in Nat
    BY <2>1
  <2>4. y \in Seq(Nat)
    BY <2>2, <2>3, SeqDef
  <2>5. Len(y) = Len(x) - m
    BY <2>2, <2>3, <2>4, LenProperties
  <2> QED BY <2>2, <2>4, <2>5
<1> HIDE DEF y
<1>5. Len(y) = Len(z) /\ \A i \in 1..Len(y) : y[i] = z[i]
  BY <1>1, <1>3, <1>4
<1>6. y = z
  BY <1>3, <1>4, <1>5, SameSeq
<1> QED BY <1>6 DEF x, y, z

(* The oldest chunk begins at most one record after the last one published. *)
LEMMA NoGap ==
  ASSUME NEW c, NEW d, NEW w, NEW n, NEW u, NEW fin, NEW seen, NEW pub, NEW h,
         View(c, d, w, n, u, fin, seen, pub, h), ChunkCount > 1
  PROVE  First(c, d, w, Oldest(h)) <= pub + 1
<1> DEFINE lo == Oldest(h)
           F(s) == First(c, d, w, s)
<1>1. w \in Nat /\ n \in Nat /\ h \in -1..(n - 1) /\ pub \in 0..w /\ pub \in Nat
  BY Viewed
<1>2. CASE h < ChunkCount
  BY <1>1, <1>2, OldestOf
<1>3. CASE ~(h < ChunkCount)
  <2>1. lo = h - ChunkCount + 1 /\ h \in 0..(n - 1) /\ h # -1 /\ lo < h /\ lo \in 0..(n - 1)
    BY <1>1, <1>3, PublicationAssumption DEF Oldest
  <2>2. \A s, t \in 0..(n - 1) : s < t => F(s) < F(t)
    BY Layout, Viewed
  <2>3. F(lo) \in Nat /\ F(h) \in Nat
    <3>1. lo \in 0..h /\ h \in 0..h
      BY <1>1, <2>1
    <3> HIDE DEF lo
    <3> QED BY <3>1, FirstOf
  <2>4. F(h) <= pub + 2
    BY <2>1, Behind
  <2> HIDE DEF F, lo
  <2>5. F(lo) < F(h)
    BY <2>1, <2>2
  <2>6. F(lo) <= pub + 1
    BY <1>1, <2>3, <2>4, <2>5
  <2> QED BY <2>6 DEF F, lo
<1> QED BY <1>2, <1>3

(* The window stays, gains the next record, or loses a chunk's.             *)
Stays(R, Q, pub, new) == new = pub /\ Q = R
Gains(R, Q, pub, new) == new = pub + 1 /\ Q = Append(R, pub + 1)
Loses(R, Q, pub, new) ==
  /\ new = pub
  /\ \E lost \in 1..ChunkRecords : lost <= Len(R) /\ Q = SubSeq(R, lost + 1, Len(R))

(* The newest chunk whose old magic is gone changes only when one goes.     *)
LEMMA SameNewest ==
  ASSUME NEW c, NEW d, NEW w, NEW n \in Nat, NEW seen, NEW e, NEW h, NEW k,
         Newest(c, d, w, n, seen, h), Newest(c, d, w, n, seen \cup {e}, k), e[2] # "invalid"
  PROVE  k = h
<1> DEFINE F(s) == First(c, d, w, s)
<1>1. /\ h \in -1..(n - 1) /\ k \in -1..(n - 1)
      /\ \A s \in 0..(n - 1) : <<F(s), "invalid", 0>> \in seen <=> s <= h
      /\ \A s \in 0..(n - 1) : <<F(s), "invalid", 0>> \in seen \cup {e} <=> s <= k
  BY DEF Newest
<1>2. \A s \in 0..(n - 1) : <<F(s), "invalid", 0>> # e
  OBVIOUS
<1> HIDE DEF F
<1>3. \A s \in 0..(n - 1) : s <= h <=> s <= k
  BY <1>1, <1>2
<1>4. (h \in 0..(n - 1) => h <= k) /\ (k \in 0..(n - 1) => k <= h)
  BY <1>1, <1>3
<1> QED BY <1>1, <1>4

LEMMA NextNewest ==
  ASSUME NEW c, NEW d, NEW w, NEW n, NEW u, NEW fin, NEW seen, NEW pub, NEW h, NEW e, NEW k,
         View(c, d, w, n, u, fin, seen, pub, h), Newest(c, d, w, n, seen \cup {e}, k),
         e \in Stores(c, d, w, n, fin), e \notin seen, e[2] = "invalid"
  PROVE  k = h + 1
<1> DEFINE F(s) == First(c, d, w, s)
           t == c[e[1]]
<1>1. /\ w \in Nat /\ n \in Nat /\ Laid(c, d, w, n, u)
      /\ \A s \in 0..(n - 1) : F(s) \in 1..w /\ c[F(s)] = s
  BY Viewed
<1>2. /\ h \in -1..(n - 1) /\ k \in -1..(n - 1)
      /\ \A s \in 0..(n - 1) : <<F(s), "invalid", 0>> \in seen <=> s <= h
      /\ \A s \in 0..(n - 1) : <<F(s), "invalid", 0>> \in seen \cup {e} <=> s <= k
  BY DEF View, Newest
<1>3. PICK v : v = IF n < ChunkCount THEN n ELSE ChunkCount
  OBVIOUS
<1>4. e \in Issued(c, d, w, v, fin)
  BY <1>3 DEF Stores
<1>5. e[1] \in 1..w
  <2>1. \/ e[1] \in 1..w
        \/ e[2] \in FileSteps \cup SealSteps
    BY <1>1, <1>4, IssuedParts
  <2> QED BY <2>1 DEF FileSteps, SealSteps
<1>6. e[1] = F(t) /\ e = <<F(t), "invalid", 0>>
  BY <1>1, <1>4, <1>5, FirstLabels
<1>7. t \in 0..(n - 1)
  BY <1>1, <1>5, Layout
<1>8. \A s \in 0..(n - 1) : <<F(s), "invalid", 0>> = e <=> s = t
  BY <1>1, <1>6, <1>7
<1> HIDE DEF F, t
<1>9. ~(t <= h) /\ t <= k
  BY <1>2, <1>6, <1>7
<1>10. \A s \in 0..(n - 1) : s <= k <=> s <= h \/ s = t
  BY <1>2, <1>8
<1>11. h + 1 \in 0..(n - 1) /\ k \in 0..(n - 1)
  BY <1>1, <1>2, <1>7, <1>9
<1>12. h + 1 = t
  BY <1>1, <1>2, <1>7, <1>9, <1>10, <1>11
<1>13. k = t
  BY <1>1, <1>2, <1>7, <1>9, <1>10, <1>11
<1> QED BY <1>12, <1>13

LEMMA WindowGains ==
  ASSUME NEW c, NEW d, NEW w, NEW n, NEW u, NEW fin, NEW seen, NEW pub, NEW h,
         View(c, d, w, n, u, fin, seen, pub, h), ChunkCount > 1
  PROVE  Append(WindowOf(c, d, w, pub, h), pub + 1) = WindowOf(c, d, w, pub + 1, h)
<1> DEFINE a == First(c, d, w, Oldest(h))
<1>1. a \in Nat /\ pub \in Nat /\ a <= pub + 1
  BY Viewed, OldestOf, NoGap
<1> HIDE DEF a
<1>2. Append(Run(a, pub), pub + 1) = Run(a, pub + 1)
  BY <1>1, RunAppended
<1> QED BY <1>2 DEF WindowOf, a

LEMMA WindowLoses ==
  ASSUME NEW c, NEW d, NEW w, NEW n, NEW u, NEW fin, NEW seen, NEW pub, NEW h, NEW more,
         View(c, d, w, n, u, fin, seen, pub, h), View(c, d, w, n, u, fin, more, pub, h + 1),
         ChunkCount > 1
  PROVE  LET R == WindowOf(c, d, w, pub, h)
             Q == WindowOf(c, d, w, pub, h + 1)
         IN  Stays(R, Q, pub, pub) \/ Loses(R, Q, pub, pub)
<1> DEFINE F(s) == First(c, d, w, s)
           lo == Oldest(h)
           R == WindowOf(c, d, w, pub, h)
           Q == WindowOf(c, d, w, pub, h + 1)
<1>1. /\ w \in Nat /\ n \in Nat /\ pub \in Nat /\ h \in -1..(n - 1) /\ h + 1 \in -1..(n - 1)
      /\ Laid(c, d, w, n, u)
  BY Viewed
<1>2. /\ lo \in Nat /\ F(lo) \in Nat \ {0}
      /\ h < ChunkCount => F(lo) = 1
  BY OldestOf
<1>3. CASE h + 1 < ChunkCount
  <2>1. F(Oldest(h + 1)) = 1
    <3> DEFINE k == h + 1
    <3>1. k < ChunkCount /\ View(c, d, w, n, u, fin, more, pub, k)
      BY <1>3
    <3> HIDE DEF k
    <3>2. F(Oldest(k)) = 1
      BY <3>1, OldestOf
    <3> QED BY <3>2 DEF k
  <2>2. F(lo) = 1
    BY <1>1, <1>2, <1>3, PublicationAssumption
  <2>3. Q = R
    BY <2>1, <2>2 DEF WindowOf
  <2> QED BY <2>3 DEF Stays
<1>4. CASE ~(h + 1 < ChunkCount)
  <2>1. Oldest(h + 1) = lo + 1 /\ lo \in 0..(n - 2) /\ h # -1
    BY <1>1, <1>4, PublicationAssumption DEF Oldest
  <2>2. F(lo + 1) <= pub + 1
    <3> DEFINE k == h + 1
    <3>1. View(c, d, w, n, u, fin, more, pub, k)
      OBVIOUS
    <3> HIDE DEF k
    <3>2. F(Oldest(k)) <= pub + 1
      BY <3>1, NoGap
    <3> QED BY <2>1, <3>2 DEF k
  <2>3. F(lo + 1) - F(lo) \in 1..ChunkRecords
    BY <1>1, <2>1, Layout
  <2>4. F(lo + 1) \in Nat
    <3>1. lo + 1 \in 0..(n - 1)
      BY <1>1, <2>1
    <3> HIDE DEF lo
    <3>2. F(lo + 1) \in 1..w
      BY <3>1, Viewed
    <3> QED BY <1>1, <3>2
  <2> DEFINE a == F(lo)
             m == F(lo + 1) - F(lo)
  <2>5. a \in Nat /\ m \in Nat /\ m \in 1..ChunkRecords /\ a + m = F(lo + 1) /\ a + m <= pub + 1
        /\ a <= pub + 1
    BY <1>1, <1>2, <2>2, <2>3, <2>4, PublicationAssumption
  <2>6. R = Run(a, pub) /\ Q = Run(a + m, pub)
    BY <2>1, <2>5 DEF WindowOf
  <2> HIDE DEF a, m, R, Q
  <2>7. Len(R) = pub + 1 - a
    BY <1>1, <2>5, <2>6, RunParts
  <2>8. m <= Len(R)
    BY <1>1, <2>5, <2>7
  <2>9. SubSeq(Run(a, pub), m + 1, Len(Run(a, pub))) = Run(a + m, pub)
    BY <1>1, <2>5, RunShortened
  <2> QED BY <2>5, <2>6, <2>8, <2>9 DEF Loses, R, Q
<1> QED BY <1>3, <1>4

(* What one more visible store does to the window.                          *)
LEMMA WindowMoves ==
  ASSUME NEW c, NEW d, NEW w, NEW n, NEW u, NEW fin, NEW seen, NEW pub, NEW h, NEW e, NEW k,
         View(c, d, w, n, u, fin, seen, pub, h), e \in Stores(c, d, w, n, fin), e \notin seen,
         View(c, d, w, n, u, fin, seen \cup {e}, PubAfter(e, pub), k), ChunkCount > 1
  PROVE  LET R == WindowOf(c, d, w, pub, h)
             Q == WindowOf(c, d, w, PubAfter(e, pub), k)
             new == PubAfter(e, pub)
         IN  \/ Stays(R, Q, pub, new)
             \/ pub < w /\ Gains(R, Q, pub, new)
             \/ Loses(R, Q, pub, new)
<1>1. n \in Nat /\ w \in Nat /\ pub \in Nat /\ Newest(c, d, w, n, seen, h)
  BY Viewed DEF View
<1>2. Newest(c, d, w, n, seen \cup {e}, k) /\ PubAfter(e, pub) \in 0..w
  BY Viewed DEF View
<1>3. CASE e[2] = "cursor"
  <2>1. k = h
    BY <1>1, <1>2, <1>3, SameNewest
  <2>2. PubAfter(e, pub) = pub + 1
    BY <1>3 DEF PubAfter
  <2>3. pub < w
    BY <1>1, <1>2, <2>2
  <2>4. Append(WindowOf(c, d, w, pub, h), pub + 1) = WindowOf(c, d, w, pub + 1, h)
    BY WindowGains
  <2> QED BY <2>1, <2>2, <2>3, <2>4 DEF Gains
<1>4. CASE e[2] = "invalid"
  <2>1. k = h + 1
    BY <1>2, <1>4, NextNewest
  <2>2. PubAfter(e, pub) = pub
    BY <1>4 DEF PubAfter
  <2>3. View(c, d, w, n, u, fin, seen \cup {e}, pub, h + 1)
    BY <2>1, <2>2
  <2> QED BY <2>1, <2>2, <2>3, WindowLoses
<1>5. CASE e[2] \notin {"cursor", "invalid"}
  <2>1. k = h
    BY <1>1, <1>2, <1>5, SameNewest
  <2>2. PubAfter(e, pub) = pub
    BY <1>5 DEF PubAfter
  <2> QED BY <2>1, <2>2 DEF Stays
<1> QED BY <1>3, <1>4, <1>5

(* What is recovered, as a window, now and after a step.                    *)
Shows(c, d, w, n, u, fin, seen, pub, h) ==
  View(c, d, w, n, u, fin, seen, pub, h) /\ Imaged(c, d, seen)
    => Recovered = WindowOf(c, d, w, pub, h)
AllShown ==
  \A c, d, w, n, u, fin, seen, pub, h : Shows(c, d, w, n, u, fin, seen, pub, h)

LEMMA Showing == AllShown
<1> SUFFICES ASSUME NEW c, NEW d, NEW w, NEW n, NEW u, NEW fin, NEW seen, NEW pub, NEW h
             PROVE  Shows(c, d, w, n, u, fin, seen, pub, h)
  BY DEF AllShown
<1> SUFFICES ASSUME View(c, d, w, n, u, fin, seen, pub, h), Imaged(c, d, seen)
             PROVE  Recovered = WindowOf(c, d, w, pub, h)
  BY DEF Shows
<1>1. Recovered = Run(First(c, d, w, Oldest(h)), pub)
  BY ViewOf
<1> QED BY <1>1 DEF WindowOf

LEMMA ViewNow ==
  ASSUME AllShown, NEW c, NEW d, NEW w, NEW n, NEW u, NEW fin, NEW seen, NEW pub, NEW h,
         View(c, d, w, n, u, fin, seen, pub, h), Imaged(c, d, seen)
  PROVE  Recovered = WindowOf(c, d, w, pub, h)
<1>1. Shows(c, d, w, n, u, fin, seen, pub, h)
  BY DEF AllShown
<1> QED BY <1>1 DEF Shows

LEMMA ViewNext ==
  ASSUME AllShown', NEW c, NEW d, NEW w, NEW n, NEW u, NEW fin, NEW seen, NEW pub, NEW h,
         View(c, d, w, n, u, fin, seen, pub, h), Imaged(c, d, seen)'
  PROVE  Recovered' = WindowOf(c, d, w, pub, h)
<1>1. Shows(c, d, w, n, u, fin, seen, pub, h)'
  BY DEF AllShown
<1> QED BY <1>1 DEF Shows

(* The parts of a snapshot that the window depends on.                      *)
LEMMA ViewExists ==
  ASSUME NEW c, NEW d, NEW q, NEW w, NEW n, NEW u, NEW fin, NEW pub,
         Tracked(c, d, q, w, n, u, fin, pub)
  PROVE  \E h : View(c, d, w, n, u, fin, Shown(c, d, q, w, n, fin), pub, h)
<1>1. PICK seen : seen = Shown(c, d, q, w, n, fin)
  OBVIOUS
<1>2. Seen(c, d, w, n, u, fin, seen, pub)
  BY <1>1 DEF Tracked
<1>3. PICK h : Newest(c, d, w, n, seen, h)
  BY <1>2, HasNewest
<1> QED BY <1>1, <1>2, <1>3 DEF View

(* A step that leaves the memory leaves what is recovered.                  *)
LEMMA WindowKept ==
  ASSUME AllShown, AllShown', SnapInv, memory' = memory
  PROVE  Recovered' = Recovered
<1>1. PICK c, d, q, w, n, u, fin, pub : Snapshot(c, d, q, w, n, u, fin, pub)
  BY DEF SnapInv
<1>2. PICK seen : seen = Shown(c, d, q, w, n, fin)
  OBVIOUS
<1>3. Tracked(c, d, q, w, n, u, fin, pub) /\ Imaged(c, d, seen)
  BY <1>1, <1>2 DEF Snapshot
<1>4. PICK h : View(c, d, w, n, u, fin, seen, pub, h)
  BY <1>2, <1>3, ViewExists
<1>5. Imaged(c, d, seen)'
  BY <1>3 DEF Imaged
<1>6. Recovered = WindowOf(c, d, w, pub, h)
  BY <1>3, <1>4, ViewNow
<1>7. Recovered' = WindowOf(c, d, w, pub, h)
  BY <1>4, <1>5, ViewNext
<1> QED BY <1>6, <1>7

LEMMA VisiblePromise ==
  ASSUME ChunkCount > 1, AllShown, AllShown', IInv, SnapInv, NEW i \in Ready, BecomeVisible(i)
  PROVE  [Promise!Next]_(Promise!promise)
<1>1. PICK c, d, q, w, n, u, fin, pub : Snapshot(c, d, q, w, n, u, fin, pub)
  BY DEF SnapInv
<1>2. PICK e, p : /\ Snapshot(c, d, p, w, n, u, fin, PubAfter(e, pub))'
                  /\ Appears(c, d, q, p, w, n, fin, e)
  BY <1>1, VisibleStep
<1>3. PICK seen, more : seen = Shown(c, d, q, w, n, fin) /\ more = Shown(c, d, p, w, n, fin)
  OBVIOUS
<1>4. Tracked(c, d, q, w, n, u, fin, pub) /\ Imaged(c, d, seen)
  BY <1>1, <1>3 DEF Snapshot
<1>5. Tracked(c, d, p, w, n, u, fin, PubAfter(e, pub)) /\ Imaged(c, d, more)'
  BY <1>2, <1>3 DEF Snapshot, Imaged
<1>6. more = seen \cup {e} /\ e \in Stores(c, d, w, n, fin) /\ e \notin seen
  BY <1>2, <1>3 DEF Appears
<1>7. PICK h : View(c, d, w, n, u, fin, seen, pub, h)
  BY <1>3, <1>4, ViewExists
<1>8. PICK k : View(c, d, w, n, u, fin, more, PubAfter(e, pub), k)
  BY <1>3, <1>5, ViewExists
<1>9. PICK R, Q, new : /\ R = WindowOf(c, d, w, pub, h) /\ new = PubAfter(e, pub)
                       /\ Q = WindowOf(c, d, w, PubAfter(e, pub), k)
  OBVIOUS
<1>10. \/ Stays(R, Q, pub, new)
       \/ pub < w /\ Gains(R, Q, pub, new)
       \/ Loses(R, Q, pub, new)
  BY <1>6, <1>7, <1>8, <1>9, WindowMoves
<1>11. Recovered = R
  BY <1>4, <1>7, <1>9, ViewNow
<1>12. Recovered' = Q
  BY <1>5, <1>8, <1>9, ViewNext
<1>13. written = w /\ written' = w /\ published = pub /\ published' = new
  BY <1>1, <1>2, <1>9 DEF Snapshot
<1>14. CASE Stays(R, Q, pub, new)
  BY <1>11, <1>12, <1>13, <1>14 DEF Stays, Promise!promise
<1>15. CASE pub < w /\ Gains(R, Q, pub, new)
  <2>1. Promise!Publish
    BY <1>11, <1>12, <1>13, <1>15 DEF Gains, Promise!Publish
  <2> QED BY <2>1 DEF Promise!Next
<1>16. CASE Loses(R, Q, pub, new)
  <2>1. Promise!Evict
    BY <1>11, <1>12, <1>13, <1>16 DEF Loses, Promise!Evict
  <2> QED BY <2>1 DEF Promise!Next
<1> QED BY <1>10, <1>14, <1>15, <1>16

LEMMA CallPromise ==
  ASSUME AllShown, AllShown', SnapInv, (\E fresh \in BOOLEAN : WriteRecord(fresh)) \/ Finalize
  PROVE  [Promise!Next]_(Promise!promise)
<1>1. memory' = memory /\ published' = published
  BY DEF WriteRecord, Finalize
<1>2. Recovered' = Recovered
  BY <1>1, WindowKept
<1>3. written' = written + 1 \/ written' = written
  BY DEF WriteRecord, Finalize
<1>4. CASE written' = written + 1
  <2>1. Promise!Write
    BY <1>1, <1>2, <1>4 DEF Promise!Write
  <2> QED BY <2>1 DEF Promise!Next
<1>5. CASE written' = written
  BY <1>1, <1>2, <1>5 DEF Promise!promise
<1> QED BY <1>3, <1>4, <1>5

LEMMA InitPromise ==
  ASSUME AllShown, Init
  PROVE  Promise!Init
<1>1. SnapInv
  BY InitSnap
<1>2. PICK c, d, q, w, n, u, fin, pub : Snapshot(c, d, q, w, n, u, fin, pub)
  BY <1>1 DEF SnapInv
<1>3. PICK seen : seen = Shown(c, d, q, w, n, fin)
  OBVIOUS
<1>4. Tracked(c, d, q, w, n, u, fin, pub) /\ Imaged(c, d, seen)
  BY <1>2, <1>3 DEF Snapshot
<1>5. PICK h : View(c, d, w, n, u, fin, seen, pub, h)
  BY <1>3, <1>4, ViewExists
<1>6. Recovered = WindowOf(c, d, w, pub, h)
  BY <1>4, <1>5, ViewNow
<1>7. written = 0 /\ published = 0 /\ pub = 0 /\ n = 0
  BY <1>2 DEF Init, Snapshot
<1>8. First(c, d, w, Oldest(h)) = 1
  <2>1. h < ChunkCount
    <3>1. h \in -1..(n - 1)
      BY <1>5, Viewed
    <3> QED BY <1>7, <3>1, PublicationAssumption
  <2> QED BY <1>5, <2>1, OldestOf
<1>9. Recovered = <<>>
  BY <1>6, <1>7, <1>8, RunEmpty DEF WindowOf
<1> QED BY <1>7, <1>9 DEF Promise!Init

(* Every step of the recorder, and of the memory that makes its stores      *)
(* visible, moves what a recovery read returns as FlightRecorder allows, if *)
(* the ring has more than one chunk: the next record appears whole at the   *)
(* newest end, or a chunk's records go at the oldest.  (With a single chunk *)
(* its last record may be published when the chunk is already invalid: no   *)
(* barrier separates the cursor from the next start's invalidation.)        *)
THEOREM KeepsPromise ==
  ASSUME ChunkCount > 1
  PROVE  Spec => ImplementsFlightRecorder
<1>1. Init => Promise!Init
  BY Showing, InitPromise
<1>2. IInv /\ SnapInv /\ AllShown /\ AllShown' /\ [Next]_vars => [Promise!Next]_(Promise!promise)
  <2> SUFFICES ASSUME IInv, SnapInv, AllShown, AllShown', [Next]_vars
               PROVE  [Promise!Next]_(Promise!promise)
    OBVIOUS
  <2>1. CASE \E fresh \in BOOLEAN : WriteRecord(fresh)
    BY <2>1, CallPromise
  <2>2. CASE Finalize
    BY <2>2, CallPromise
  <2>3. CASE \E i \in Ready : BecomeVisible(i)
    BY <2>3, VisiblePromise
  <2>4. CASE UNCHANGED vars
    <3>1. memory' = memory /\ published' = published /\ written' = written
      BY <2>4 DEF vars
    <3>2. Recovered' = Recovered
      BY <3>1, WindowKept
    <3> QED BY <3>1, <3>2 DEF Promise!promise
  <2> QED BY <2>1, <2>2, <2>3, <2>4 DEF Next
<1>3. AllShown
  BY Showing
<1> QED BY <1>1, <1>2, <1>3, SnapInduction, Induction, PTL
        DEF Spec, ImplementsFlightRecorder, Promise!Spec
=============================================================================
