------------------------- MODULE TraceBuilder_proofs -------------------------
(***************************************************************************)
(* Ids are never handed out twice by a builder, and are never read as      *)
(* something else: theorems of TraceBuilder.                               *)
(***************************************************************************)
EXTENDS TraceBuilder, FiniteSetTheorems, SequenceTheorems, WellFoundedInduction, TLAPS

----------------------------------------------------------------------------
(* Allocation.  The ids a call allocates in one dictionary are numbered     *)
(* upwards from the dictionary's counter.                                   *)
OfKind(xs, k) == {i \in Allocated(xs) : Kind[xs[i]] = k}
Before(xs, i) == {j \in Allocated(xs) : j < i /\ Kind[xs[j]] = Kind[xs[i]]}

LEMMA AllocatedFacts ==
  ASSUME NEW xs \in Seq(Items)
  PROVE  /\ Allocated(xs) \subseteq DOMAIN xs /\ DOMAIN xs \subseteq Nat
         /\ \A i \in Allocated(xs) : xs[i] \in Items /\ table[xs[i]] = 0
         /\ \A i, j \in Allocated(xs) : xs[i] = xs[j] => i = j
         /\ \A S \in SUBSET Allocated(xs) : IsFiniteSet(S) /\ Cardinality(S) \in Nat
<1>1. xs \in [1..Len(xs) -> Items] /\ Len(xs) \in Nat
  BY LenProperties
<1>2. Allocated(xs) \subseteq DOMAIN xs /\ DOMAIN xs \subseteq Nat
  BY <1>1 DEF Allocated, New
<1>3. IsFiniteSet(DOMAIN xs)
  BY <1>1, FS_Interval
<1>4. \A S \in SUBSET Allocated(xs) : IsFiniteSet(S) /\ Cardinality(S) \in Nat
  BY <1>2, <1>3, FS_Subset, FS_CardinalityType
<1>5. \A i \in Allocated(xs) : xs[i] \in Items /\ table[xs[i]] = 0
  BY <1>1 DEF Allocated, New
<1>6. ASSUME NEW i \in Allocated(xs), NEW j \in Allocated(xs), xs[i] = xs[j], i < j
      PROVE  FALSE
  <2>1. i \in Nat /\ j \in Nat /\ 1 <= i
    BY <1>1, <1>2
  <2>2. \A k \in 1..(j - 1) : xs[k] # xs[j]
    BY DEF Allocated, New
  <2> QED BY <1>6, <2>1, <2>2
<1>7. \A i, j \in Allocated(xs) : xs[i] = xs[j] => i = j
  <2> SUFFICES ASSUME NEW i \in Allocated(xs), NEW j \in Allocated(xs), xs[i] = xs[j], i # j
               PROVE  FALSE
    OBVIOUS
  <2>1. i \in Nat /\ j \in Nat
    BY <1>2
  <2>2. i < j \/ j < i
    BY <2>1
  <2> QED BY <1>6, <2>2
<1> QED BY <1>2, <1>4, <1>5, <1>7

LEMMA StrictSubset ==
  ASSUME NEW S, IsFiniteSet(S), NEW T \in SUBSET S, NEW x \in S, x \notin T
  PROVE  Cardinality(T) < Cardinality(S) /\ Cardinality(T) \in Nat /\ Cardinality(S) \in Nat
BY FS_Subset, FS_CardinalityType

(* An id is at least the counter and below the counter afterwards; of two   *)
(* allocations of one kind the later one has the greater id.                *)
LEMMA NewIids ==
  ASSUME TypeOK, NEW xs \in Seq(Items)
  PROVE  /\ NextAfter(xs) \in [Kinds -> Nat \ {0}]
         /\ \A k \in Kinds : nextIid[k] <= NextAfter(xs)[k]
         /\ \A i \in Allocated(xs) :
              /\ NewIid(xs, i) \in Nat
              /\ nextIid[Kind[xs[i]]] <= NewIid(xs, i)
              /\ NewIid(xs, i) < NextAfter(xs)[Kind[xs[i]]]
         /\ \A i, j \in Allocated(xs) :
              Kind[xs[i]] = Kind[xs[j]] /\ i < j => NewIid(xs, i) < NewIid(xs, j)
<1> USE BuilderAssumption
<1>1. nextIid \in [Kinds -> Nat \ {0}]
  BY DEF TypeOK
<1>2. /\ \A k \in Kinds : OfKind(xs, k) \in SUBSET Allocated(xs)
      /\ \A i \in Allocated(xs) : Before(xs, i) \in SUBSET Allocated(xs)
  BY DEF OfKind, Before
<1>3. /\ \A k \in Kinds : IsFiniteSet(OfKind(xs, k)) /\ Cardinality(OfKind(xs, k)) \in Nat
      /\ \A i \in Allocated(xs) : IsFiniteSet(Before(xs, i)) /\ Cardinality(Before(xs, i)) \in Nat
  BY <1>2, AllocatedFacts
<1>4. NextAfter(xs) = [k \in Kinds |-> nextIid[k] + Cardinality(OfKind(xs, k))]
  BY DEF NextAfter, OfKind
<1>5. \A i : NewIid(xs, i) = nextIid[Kind[xs[i]]] + Cardinality(Before(xs, i))
  BY DEF NewIid, Before
<1>6. ASSUME NEW i \in Allocated(xs)
      PROVE  Kind[xs[i]] \in Kinds /\ Cardinality(Before(xs, i)) < Cardinality(OfKind(xs, Kind[xs[i]]))
  <2>1. Kind[xs[i]] \in Kinds
    BY AllocatedFacts
  <2>2. i \in OfKind(xs, Kind[xs[i]]) /\ i \notin Before(xs, i)
        /\ Before(xs, i) \in SUBSET OfKind(xs, Kind[xs[i]])
    BY AllocatedFacts DEF OfKind, Before
  <2> QED BY <1>3, <2>1, <2>2, StrictSubset
<1>7. ASSUME NEW i \in Allocated(xs), NEW j \in Allocated(xs),
             Kind[xs[i]] = Kind[xs[j]], i < j
      PROVE  Cardinality(Before(xs, i)) < Cardinality(Before(xs, j))
  <2>1. i \in Nat /\ j \in Nat
    BY AllocatedFacts
  <2>2. i \in Before(xs, j) /\ i \notin Before(xs, i) /\ Before(xs, i) \in SUBSET Before(xs, j)
    BY <1>7, <2>1, AllocatedFacts DEF Before
  <2> QED BY <1>3, <2>2, StrictSubset
<1>8. NextAfter(xs) \in [Kinds -> Nat \ {0}] /\ \A k \in Kinds : nextIid[k] <= NextAfter(xs)[k]
  BY <1>1, <1>3, <1>4
<1>9. \A i \in Allocated(xs) :
        /\ NewIid(xs, i) \in Nat
        /\ nextIid[Kind[xs[i]]] <= NewIid(xs, i)
        /\ NewIid(xs, i) < NextAfter(xs)[Kind[xs[i]]]
  BY <1>1, <1>3, <1>4, <1>5, <1>6
<1>10. \A i, j \in Allocated(xs) :
         Kind[xs[i]] = Kind[xs[j]] /\ i < j => NewIid(xs, i) < NewIid(xs, j)
  BY <1>1, <1>3, <1>5, <1>6, <1>7
<1> QED BY <1>8, <1>9, <1>10

(* The id of an item after a call: the one it had, or a new one.            *)
LEMMA IidsAfter ==
  ASSUME TypeOK, NEW xs \in Seq(Items)
  PROVE  /\ IidAfter(xs) \in [Items -> Nat]
         /\ \A x \in Items :
              \/ IidAfter(xs)[x] = table[x] /\ \A i \in Allocated(xs) : xs[i] # x
              \/ /\ table[x] = 0
                 /\ \E i \in Allocated(xs) : xs[i] = x /\ IidAfter(xs)[x] = NewIid(xs, i)
         /\ \A x \in Items : IidAfter(xs)[x] < NextAfter(xs)[Kind[x]]
<1> USE BuilderAssumption
<1>1. \A x \in Items :
        \/ IidAfter(xs)[x] = table[x] /\ \A i \in Allocated(xs) : xs[i] # x
        \/ /\ table[x] = 0
           /\ \E i \in Allocated(xs) : xs[i] = x /\ IidAfter(xs)[x] = NewIid(xs, i)
  <2> TAKE x \in Items
  <2>1. CASE \E i \in Allocated(xs) : xs[i] = x
    <3> DEFINE n == CHOOSE i \in Allocated(xs) : xs[i] = x
    <3>1. n \in Allocated(xs) /\ xs[n] = x
      BY <2>1
    <3>2. IidAfter(xs)[x] = NewIid(xs, n)
      BY <2>1 DEF IidAfter
    <3> QED BY <3>1, <3>2, AllocatedFacts
  <2>2. CASE ~\E i \in Allocated(xs) : xs[i] = x
    BY <2>2 DEF IidAfter
  <2> QED BY <2>1, <2>2
<1>2. \A x \in Items : IidAfter(xs)[x] \in Nat /\ IidAfter(xs)[x] < NextAfter(xs)[Kind[x]]
  <2> TAKE x \in Items
  <2>1. table[x] \in Nat /\ table[x] < nextIid[Kind[x]] /\ nextIid[Kind[x]] \in Nat
        /\ Kind[x] \in Kinds
    BY DEF TypeOK
  <2>2. nextIid[Kind[x]] <= NextAfter(xs)[Kind[x]] /\ NextAfter(xs)[Kind[x]] \in Nat
    BY <2>1, NewIids
  <2>3. CASE IidAfter(xs)[x] = table[x]
    BY <2>1, <2>2, <2>3
  <2>4. ASSUME NEW i \in Allocated(xs), xs[i] = x, IidAfter(xs)[x] = NewIid(xs, i)
        PROVE  IidAfter(xs)[x] \in Nat /\ IidAfter(xs)[x] < NextAfter(xs)[Kind[x]]
    BY <2>4, NewIids
  <2> QED BY <1>1, <2>3, <2>4
<1>3. IidAfter(xs) \in [Items -> Nat]
  <2>1. IidAfter(xs) = [x \in Items |-> IidAfter(xs)[x]]
    BY DEF IidAfter
  <2> QED BY <1>2, <2>1
<1> QED BY <1>1, <1>2, <1>3

----------------------------------------------------------------------------
(* The type invariant.                                                      *)
LEMMA InternedType ==
  ASSUME TypeOK, NEW xs \in Seq(Items), NEW p \in PacketType
  PROVE  Interned(p, xs) \in PacketType
<1> USE BuilderAssumption
<1>1. xs \in [1..Len(xs) -> Items]
  BY LenProperties
<1>2. \A x \in Items : Ref(IidAfter(xs), x) \in RefType
  BY IidsAfter DEF Ref, RefType
<1>3. \A i \in Allocated(xs) : Entry(IidAfter(xs), xs[i]) \in EntryType
  BY <1>2, AllocatedFacts, IidsAfter DEF Entry, EntryType
<1>4. Given(xs) \subseteq RefType
  BY <1>1, <1>2 DEF Given, Reached
<1>5. CASE xs = <<>>
  BY <1>5 DEF Interned
<1>6. CASE xs # <<>>
  <2>1. p = [sequenced |-> p.sequenced, event |-> p.event, needs |-> p.needs,
             clears |-> p.clears, entries |-> p.entries, refs |-> p.refs]
        /\ p.sequenced \in BOOLEAN /\ p.event \in BOOLEAN /\ p.clears \in BOOLEAN
        /\ p.entries \subseteq EntryType /\ p.refs \subseteq RefType
    BY DEF PacketType
  <2> DEFINE entries == p.entries \cup {Entry(IidAfter(xs), xs[i]) : i \in Allocated(xs)}
             refs    == (p.refs \ Replaced(p.refs, xs)) \cup Given(xs)
  <2>2. entries \subseteq EntryType /\ refs \subseteq RefType
    BY <1>3, <1>4, <2>1
  <2>3. Interned(p, xs) = [sequenced |-> p.sequenced, event |-> p.event, needs |-> TRUE,
          clears |-> (p.clears \/ ~emittedCleared), entries |-> entries, refs |-> refs]
    BY <1>6, <2>1 DEF Interned
  <2>4. (p.clears \/ ~emittedCleared) \in BOOLEAN
    OBVIOUS
  <2> HIDE DEF entries, refs
  <2> QED BY <2>1, <2>2, <2>3, <2>4 DEF PacketType
<1> QED BY <1>5, <1>6

LEMMA PacketTyped ==
  ASSUME NEW b \in BOOLEAN, NEW c \in BOOLEAN
  PROVE  Packet(b, c) \in PacketType
BY DEF Packet, PacketType

(* What a call that interns does to the dictionaries.                       *)
Dictionaries ==
  /\ table \in [Items -> Nat] /\ nextIid \in [Kinds -> Nat \ {0}]
  /\ emittedCleared \in BOOLEAN
  /\ \A x \in Items : table[x] < nextIid[Kind[x]]

LEMMA InternTyped ==
  ASSUME TypeOK, NEW xs \in Seq(Items), Intern(xs)
  PROVE  Dictionaries'
BY NewIids, IidsAfter DEF Intern, Dictionaries, TypeOK

LEMMA AddEventTyped ==
  ASSUME TypeOK, NEW xs \in Seq(Items), AddEvent(xs)
  PROVE  TypeOK'
<1>1. Dictionaries'
  BY InternTyped DEF AddEvent
<1>2. Packet(~NameFails(xs), TRUE) \in PacketType
  BY PacketTyped
<1>3. Interned(Packet(~NameFails(xs), TRUE), xs) \in PacketType
  BY <1>2, InternedType
<1>4. packets \in Seq(PacketType) /\ Len(packets) \in Nat
  BY LenProperties DEF TypeOK
<1>5. packets' \in Seq(PacketType)
  BY <1>3, <1>4, AppendProperties DEF AddEvent
<1>6. failed' \in BOOLEAN /\ late' \in BOOLEAN
  <2>1. NameFails(xs) \in BOOLEAN
    BY DEF NameFails
  <2>2. failed' = (failed \/ NameFails(xs)) /\ late' = late
    BY DEF AddEvent
  <2> QED BY <2>1, <2>2, Zenon DEF TypeOK
<1>7. /\ lastUuid' \in Nat /\ first' \in Nat \ {0} /\ builders' \in Nat /\ resets' \in Nat
      /\ notes' \in Nat /\ sealed' \in Nat
  <2>1. sealed' \in {sealed, Len(packets)}
    BY DEF AddEvent
  <2>2. UNCHANGED <<lastUuid, first, builders, resets, notes>>
    BY DEF AddEvent, bounds
  <2> QED BY <1>4, <2>1, <2>2 DEF TypeOK
<1> QED BY <1>1, <1>5, <1>6, <1>7 DEF Dictionaries, TypeOK

LEMMA AnnotateTyped ==
  ASSUME TypeOK, NEW p \in DOMAIN packets, NEW xs \in Seq(Items), Annotate(p, xs)
  PROVE  TypeOK'
<1>1. Dictionaries'
  BY InternTyped DEF Annotate
<1>2. packets \in Seq(PacketType) /\ Len(packets) \in Nat /\ p \in 1..Len(packets)
  BY LenProperties DEF TypeOK
<1>3. Interned(packets[p], xs) \in PacketType
  BY <1>2, ElementOfSeq, InternedType
<1>4. packets' \in Seq(PacketType)
  BY <1>2, <1>3, ExceptSeq DEF Annotate
<1>5. /\ lastUuid' \in Nat /\ first' \in Nat \ {0} /\ builders' \in Nat /\ resets' \in Nat
      /\ notes' \in Nat /\ sealed' \in Nat /\ late' \in BOOLEAN /\ failed' \in BOOLEAN
  BY <1>2 DEF Annotate, TypeOK, bounds
<1> QED BY <1>1, <1>4, <1>5 DEF Dictionaries, TypeOK

LEMMA Appended ==
  ASSUME NEW S, NEW s \in Seq(S), NEW e \in S
  PROVE  /\ Len(s) \in Nat /\ DOMAIN s = 1..Len(s)
         /\ DOMAIN Append(s, e) = DOMAIN s \cup {Len(s) + 1}
         /\ \A k \in DOMAIN s : Append(s, e)[k] = s[k] /\ k # Len(s) + 1
         /\ Append(s, e)[Len(s) + 1] = e
<1>1. Len(s) \in Nat /\ DOMAIN s = 1..Len(s)
  BY LenProperties
<1>2. Append(s, e) \in Seq(S) /\ Len(Append(s, e)) = Len(s) + 1
      /\ \A k \in 1..Len(s) : Append(s, e)[k] = s[k]
      /\ Append(s, e)[Len(s) + 1] = e
  BY AppendProperties
<1>3. DOMAIN Append(s, e) = 1..(Len(s) + 1)
  BY <1>2, LenProperties
<1> QED BY <1>1, <1>2, <1>3

LEMMA DescribeTyped == ASSUME TypeOK, Describe \/ AddOther PROVE TypeOK'
<1>1. packets \in Seq(PacketType)
  BY DEF TypeOK
<1>2. PICK b \in BOOLEAN : packets' = Append(packets, Packet(b, FALSE))
  BY DEF Describe, AddOther
<1>3. packets' \in Seq(PacketType)
  BY <1>1, <1>2, PacketTyped, AppendProperties
<1>4. lastUuid' \in Nat
  <2>1. lastUuid' = lastUuid + 1 \/ lastUuid' = lastUuid
    BY DEF Describe, AddOther
  <2> QED BY <2>1 DEF TypeOK
<1>5. UNCHANGED <<table, nextIid, emittedCleared, first, builders, resets, notes, sealed, late, failed>>
  BY DEF Describe, AddOther, dictionary, bounds
<1> QED BY <1>3, <1>4, <1>5 DEF TypeOK

LEMMA RestartTyped == ASSUME TypeOK, Reset \/ NewBuilder PROVE TypeOK'
<1>1. Len(packets) \in Nat
  BY LenProperties DEF TypeOK
<1>2. \A x \in Items : Kind[x] \in Kinds
  BY BuilderAssumption
<1>3. table' = [x \in Items |-> 0] /\ emittedCleared' = FALSE
  BY DEF Reset, NewBuilder, Cleared
<1>4. nextIid' \in [Kinds -> Nat \ {0}]
  BY DEF Reset, NewBuilder, TypeOK
<1>5. Dictionaries'
  <2>1. emittedCleared' \in BOOLEAN
    BY <1>3
  <2>2. table' \in [Items -> Nat] /\ \A x \in Items : table'[x] < nextIid'[Kind[x]]
    BY <1>2, <1>3, <1>4
  <2> QED BY <1>4, <2>1, <2>2 DEF Dictionaries
<1>6. UNCHANGED <<packets, notes, late, failed>>
  BY DEF Reset, NewBuilder
<1>7. lastUuid' \in Nat /\ first' \in Nat \ {0} /\ builders' \in Nat /\ resets' \in Nat /\ sealed' \in Nat
  BY <1>1 DEF Reset, NewBuilder, TypeOK
<1> QED BY <1>5, <1>6, <1>7 DEF Dictionaries, TypeOK

(* Every step is one of five.                                               *)
LEMMA Steps ==
  ASSUME Next
  PROVE  \/ Describe \/ AddOther \/ Reset \/ NewBuilder
         \/ \E xs \in Seq(Items) : AddEvent(xs)
         \/ \E p \in DOMAIN packets, xs \in Seq(Items) : Annotate(p, xs)
<1> USE BuilderAssumption
<1>1. <<>> \in Seq(Items)
  BY EmptySeq
<1>2. \A x \in Items : <<x>> \in Seq(Items)
  OBVIOUS
<1>3. \A name \in Names, categories \in Categories : <<name>> \o categories \in Seq(Items)
  BY <1>2, ConcatProperties
<1>4. CASE \E name \in Names, categories \in Categories :
             \/ BeginSlice(name, categories) \/ AddInstantEvent(name, categories)
             \/ AddFlow(name, categories) \/ AddLegacyEvent(name, categories)
  BY <1>3, <1>4 DEF BeginSlice, AddInstantEvent, AddFlow, AddLegacyEvent
<1>5. CASE \E p \in DOMAIN packets :
             \/ \E categories \in Categories : AddCategories(p, categories)
             \/ \E annotation \in Annotations : AddAnnotation(p, annotation)
             \/ \E location \in Locations : SetSourceLocation(p, location)
             \/ \E callstack \in Callstacks : SetCallstack(p, callstack)
  BY <1>2, <1>5 DEF AddCategories, AddAnnotation, SetSourceLocation, SetCallstack
<1>6. CASE EndSlice \/ UpdateCounter
  BY <1>1, <1>6 DEF EndSlice, UpdateCounter
<1>7. CASE \/ AddProcess \/ AddThread \/ AddTrack \/ AddCounterTrack
           \/ SetDefaultTimestampClock \/ AddClockSnapshot \/ AddFrameTimelineEvent
           \/ Reset \/ NewBuilder
  BY <1>7 DEF AddProcess, AddThread, AddTrack, AddCounterTrack, SetDefaultTimestampClock,
     AddClockSnapshot, AddFrameTimelineEvent
<1> QED BY <1>4, <1>5, <1>6, <1>7 DEF Next

LEMMA TypeStep == TypeOK /\ [Next]_vars => TypeOK'
<1> SUFFICES ASSUME TypeOK, [Next]_vars PROVE TypeOK'
  OBVIOUS
<1>1. CASE Next
  BY <1>1, Steps, DescribeTyped, RestartTyped, AddEventTyped, AnnotateTyped
<1>2. CASE UNCHANGED vars
  BY <1>2 DEF vars, dictionary, bounds, TypeOK
<1> QED BY <1>1, <1>2

LEMMA InitTyped == Init => TypeOK
<1> SUFFICES ASSUME Init PROVE TypeOK
  OBVIOUS
<1>1. packets \in Seq(PacketType)
  BY EmptySeq DEF Init
<1>2. Dictionaries
  <2>1. emittedCleared \in BOOLEAN
    BY DEF Init
  <2>2. table = [x \in Items |-> 0] /\ nextIid = [k \in Kinds |-> 1]
    BY DEF Init, Cleared
  <2>3. \A x \in Items : table[x] < nextIid[Kind[x]]
    BY <2>2, BuilderAssumption
  <2>4. table \in [Items -> Nat] /\ nextIid \in [Kinds -> Nat \ {0}]
    BY <2>2
  <2> QED BY <2>1, <2>3, <2>4 DEF Dictionaries
<1>3. late \in BOOLEAN /\ failed \in BOOLEAN
  BY DEF Init
<1>4. /\ lastUuid \in Nat /\ first \in Nat \ {0} /\ builders \in Nat /\ resets \in Nat
      /\ notes \in Nat /\ sealed \in Nat
  BY DEF Init
<1> QED BY <1>1, <1>2, <1>3, <1>4 DEF Dictionaries, TypeOK

(* The dictionaries stay functions to ids, and every id in use is below the *)
(* counter of its dictionary, whatever is reset, fails or starts over.      *)
THEOREM BuilderTypeOK == Spec => []TypeOK
BY InitTyped, TypeStep, PTL DEF Spec

----------------------------------------------------------------------------
(* Meaning of ids.  Everything that was ever written, by whatever packet,   *)
(* in the entries, in their parts or in the events, uses an id of a         *)
(* dictionary for one item.                                                 *)
Use(e) == [kind |-> e.kind, iid |-> e.iid, item |-> e.item]
Uses(packet) ==
  packet.refs \cup {Use(e) : e \in packet.entries} \cup UNION {e.parts : e \in packet.entries}
AllUses == {r \in RefType : \E i \in DOMAIN packets : r \in Uses(packets[i])}

BelowCounters == \A r \in AllUses : r.iid < nextIid[r.kind]
OneItemPerId ==
  \A r, s \in AllUses : r.kind = s.kind /\ r.iid = s.iid /\ r.iid # 0 => r.item = s.item
TableAgrees ==
  \A x \in Items, r \in AllUses :
    table[x] # 0 /\ r.kind = Kind[x] /\ r.iid = table[x] => r.item = x
TableInjective ==
  \A x, y \in Items : Kind[x] = Kind[y] /\ table[x] = table[y] /\ table[x] # 0 => x = y
EntriesHaveIds == \A i \in DOMAIN packets : \A e \in packets[i].entries : e.iid # 0

IdsInv == BelowCounters /\ OneItemPerId /\ TableAgrees /\ TableInjective /\ EntriesHaveIds
DictionaryInv == TypeOK /\ builders >= 1 /\ (builders = 1 => IdsInv)

(* Two items of one kind never get one id.                                  *)
LEMMA AllocationInjective ==
  ASSUME TypeOK, TableInjective, NEW xs \in Seq(Items)
  PROVE  \A x, y \in Items :
           Kind[x] = Kind[y] /\ IidAfter(xs)[x] = IidAfter(xs)[y] /\ IidAfter(xs)[x] # 0 => x = y
<1> USE BuilderAssumption
<1> DEFINE iids == IidAfter(xs)
<1>1. /\ iids \in [Items -> Nat] /\ nextIid \in [Kinds -> Nat \ {0}]
      /\ table \in [Items -> Nat]
      /\ \A x \in Items : Kind[x] \in Kinds /\ table[x] < nextIid[Kind[x]]
  BY IidsAfter DEF TypeOK
<1>2. ASSUME NEW x \in Items
      PROVE  \/ iids[x] = table[x]
             \/ /\ nextIid[Kind[x]] <= iids[x]
                /\ \E i \in Allocated(xs) : xs[i] = x /\ iids[x] = NewIid(xs, i)
  BY IidsAfter, NewIids
<1> HIDE DEF iids
<1>3. ASSUME NEW x \in Items, NEW y \in Items, Kind[x] = Kind[y], iids[x] = iids[y], iids[x] # 0
      PROVE  x = y
  <2>1. CASE iids[x] = table[x] /\ iids[y] = table[y]
    BY <1>3, <2>1 DEF TableInjective
  <2>2. CASE nextIid[Kind[x]] <= iids[x] /\ iids[y] = table[y]
    BY <1>1, <1>3, <2>2
  <2>3. CASE nextIid[Kind[y]] <= iids[y] /\ iids[x] = table[x]
    BY <1>1, <1>3, <2>3
  <2>4. ASSUME NEW i \in Allocated(xs), NEW j \in Allocated(xs),
               xs[i] = x, iids[x] = NewIid(xs, i), xs[j] = y, iids[y] = NewIid(xs, j)
        PROVE  x = y
    <3>1. i \in Nat /\ j \in Nat /\ NewIid(xs, i) \in Nat
      BY AllocatedFacts, NewIids
    <3>2. Kind[xs[i]] = Kind[xs[j]] /\ NewIid(xs, i) = NewIid(xs, j)
      BY <1>3, <2>4
    <3>3. ASSUME i < j PROVE FALSE
      BY <3>1, <3>2, <3>3, NewIids
    <3>4. ASSUME j < i PROVE FALSE
      <4>1. NewIid(xs, j) < NewIid(xs, i)
        BY <3>2, <3>4, NewIids
      <4> QED BY <3>1, <3>2, <4>1
    <3>5. i = j
      BY <3>1, <3>3, <3>4
    <3> QED BY <2>4, <3>5
  <2> QED BY <1>2, <2>1, <2>2, <2>3, <2>4
<1> QED BY <1>3 DEF iids

(* The packet a call leaves behind uses what it used, and what the call     *)
(* looked up; the entries it gains have ids.                                *)
LEMMA UsesOfInterned ==
  ASSUME TypeOK, NEW xs \in Seq(Items), NEW p \in PacketType
  PROVE  /\ \A r \in Uses(Interned(p, xs)) :
              r \in Uses(p) \/ \E y \in Items : r = Ref(IidAfter(xs), y)
         /\ \A e \in Interned(p, xs).entries : e \in p.entries \/ e.iid # 0
<1> USE BuilderAssumption
<1> DEFINE q   == Interned(p, xs)
           new == {Entry(IidAfter(xs), xs[i]) : i \in Allocated(xs)}
<1>1. xs \in [1..Len(xs) -> Items]
  BY LenProperties
<1>2. q.entries \subseteq p.entries \cup new /\ q.refs \subseteq p.refs \cup Given(xs)
  BY DEF Interned, PacketType
<1>3. \A r \in Given(xs) : \E y \in Items : r = Ref(IidAfter(xs), y)
  BY <1>1 DEF Given, Reached
<1>4. ASSUME NEW e \in new
      PROVE  /\ e.iid # 0
             /\ \E y \in Items : Use(e) = Ref(IidAfter(xs), y)
             /\ \A r \in e.parts : \E y \in Items : r = Ref(IidAfter(xs), y)
  <2>1. PICK i \in Allocated(xs) : e = Entry(IidAfter(xs), xs[i])
    OBVIOUS
  <2>2. xs[i] \in Items
    BY AllocatedFacts
  <2>3. PICK j \in Allocated(xs) : IidAfter(xs)[xs[i]] = NewIid(xs, j)
    BY <2>2, IidsAfter
  <2>4. NewIid(xs, j) \in Nat /\ nextIid[Kind[xs[j]]] <= NewIid(xs, j)
        /\ nextIid[Kind[xs[j]]] \in Nat \ {0}
    BY NewIids, AllocatedFacts DEF TypeOK
  <2>5. e.iid # 0
    BY <2>1, <2>3, <2>4 DEF Entry
  <2>6. Use(e) = Ref(IidAfter(xs), xs[i])
    BY <2>1 DEF Use, Entry, Ref
  <2>7. \A r \in e.parts : \E y \in Items : r = Ref(IidAfter(xs), y)
    BY <2>1, <2>2 DEF Entry
  <2> QED BY <2>2, <2>5, <2>6, <2>7
<1> HIDE DEF q, new
<1>5. ASSUME NEW r \in Uses(q)
      PROVE  r \in Uses(p) \/ \E y \in Items : r = Ref(IidAfter(xs), y)
  <2>1. CASE r \in q.refs
    BY <1>2, <1>3, <2>1 DEF Uses
  <2>2. ASSUME NEW e \in q.entries, r = Use(e) \/ r \in e.parts
        PROVE  r \in Uses(p) \/ \E y \in Items : r = Ref(IidAfter(xs), y)
    <3>1. CASE e \in p.entries
      BY <2>2, <3>1 DEF Uses
    <3>2. CASE e \in new
      BY <1>4, <2>2, <3>2
    <3> QED BY <1>2, <3>1, <3>2
  <2> QED BY <2>1, <2>2 DEF Uses
<1>6. \A e \in q.entries : e \in p.entries \/ e.iid # 0
  BY <1>2, <1>4
<1> QED BY <1>5, <1>6 DEF q

(* So does the trace.                                                       *)
LEMMA UsesAfter ==
  ASSUME TypeOK, EntriesHaveIds, NEW xs \in Seq(Items),
         AddEvent(xs) \/ \E p \in DOMAIN packets : Annotate(p, xs)
  PROVE  /\ \A r \in AllUses' : r \in AllUses \/ \E y \in Items : r = Ref(IidAfter(xs), y)
         /\ EntriesHaveIds'
<1> DEFINE Grown(old, packet) ==
      /\ \A r \in Uses(packet) :
           r \in Uses(old) \/ \E y \in Items : r = Ref(IidAfter(xs), y)
      /\ \A e \in packet.entries : e \in old.entries \/ e.iid # 0
<1>1. packets \in Seq(PacketType) /\ Len(packets) \in Nat /\ DOMAIN packets = 1..Len(packets)
      /\ \A i \in DOMAIN packets : packets[i] \in PacketType
  BY LenProperties, ElementOfSeq DEF TypeOK
<1>2. ASSUME NEW i \in DOMAIN packets'
      PROVE  \/ i \in DOMAIN packets /\ packets'[i] = packets[i]
             \/ i \in DOMAIN packets /\ Grown(packets[i], packets'[i])
             \/ \E b \in BOOLEAN : Grown(Packet(b, TRUE), packets'[i])
  <2>1. CASE AddEvent(xs)
    <3>1. PICK b \in BOOLEAN : packets' = Append(packets, Interned(Packet(b, TRUE), xs))
      <4>1. NameFails(xs) \in BOOLEAN
        BY DEF NameFails
      <4>2. (~NameFails(xs)) \in BOOLEAN
        BY <4>1
      <4> QED BY <2>1, <4>2 DEF AddEvent
    <3>2. Packet(b, TRUE) \in PacketType
      BY PacketTyped
    <3>3. Interned(Packet(b, TRUE), xs) \in PacketType
      BY <3>2, InternedType
    <3>4. /\ DOMAIN packets' = DOMAIN packets \cup {Len(packets) + 1}
          /\ packets'[Len(packets) + 1] = Interned(Packet(b, TRUE), xs)
          /\ \A k \in DOMAIN packets : packets'[k] = packets[k]
      <4> DEFINE new == Interned(Packet(b, TRUE), xs)
      <4>1. new \in PacketType /\ packets' = Append(packets, new)
        BY <3>1, <3>3
      <4> HIDE DEF new
      <4>2. /\ DOMAIN Append(packets, new) = DOMAIN packets \cup {Len(packets) + 1}
            /\ Append(packets, new)[Len(packets) + 1] = new
            /\ \A k \in DOMAIN packets : Append(packets, new)[k] = packets[k]
        BY <1>1, <4>1, Appended
      <4> QED BY <4>1, <4>2 DEF new
    <3>5. Grown(Packet(b, TRUE), Interned(Packet(b, TRUE), xs))
      BY <3>2, UsesOfInterned
    <3>6. ASSUME i = Len(packets) + 1
          PROVE  Grown(Packet(b, TRUE), packets'[i])
      <4>1. packets'[i] = Interned(Packet(b, TRUE), xs)
        BY <3>4, <3>6
      <4> QED BY <3>5, <4>1
    <3>7. CASE i # Len(packets) + 1
      BY <3>4, <3>7
    <3> QED BY <3>6, <3>7
  <2>2. ASSUME NEW p \in DOMAIN packets, Annotate(p, xs)
        PROVE  i \in DOMAIN packets
               /\ (packets'[i] = packets[i] \/ Grown(packets[i], packets'[i]))
    <3>1. packets' = [packets EXCEPT ![p] = Interned(packets[p], xs)]
      BY <2>2 DEF Annotate
    <3>2. i \in DOMAIN packets
      BY <3>1
    <3>3. packets'[i] = IF i = p THEN Interned(packets[p], xs) ELSE packets[i]
      BY <3>1, <3>2
    <3>4. Grown(packets[p], Interned(packets[p], xs))
      BY <1>1, UsesOfInterned
    <3> QED BY <3>2, <3>3, <3>4
  <2> QED BY <2>1, <2>2
<1>3. \A b \in BOOLEAN : Uses(Packet(b, TRUE)) = {} /\ Packet(b, TRUE).entries = {}
  BY DEF Uses, Packet
<1>4. ASSUME NEW r \in AllUses'
      PROVE  r \in AllUses \/ \E y \in Items : r = Ref(IidAfter(xs), y)
  <2>1. PICK i \in DOMAIN packets' : r \in Uses(packets'[i])
    BY DEF AllUses
  <2>2. r \in RefType
    BY DEF AllUses
  <2> QED BY <1>2, <1>3, <2>1, <2>2 DEF AllUses
<1>5. ASSUME NEW i \in DOMAIN packets', NEW e \in packets'[i].entries
      PROVE  e.iid # 0
  BY <1>2, <1>3 DEF EntriesHaveIds
<1> QED BY <1>4, <1>5 DEF EntriesHaveIds

(* Fresh ids are above every id in use, so a call keeps the invariant.      *)
LEMMA InternKeepsIds ==
  ASSUME TypeOK, IdsInv, NEW xs \in Seq(Items),
         AddEvent(xs) \/ \E p \in DOMAIN packets : Annotate(p, xs)
  PROVE  IdsInv'
<1> USE BuilderAssumption
<1> DEFINE iids == IidAfter(xs)
<1>1. table' = iids /\ nextIid' = NextAfter(xs)
  BY DEF AddEvent, Annotate, Intern
<1>2. /\ \A r \in AllUses' : r \in AllUses \/ \E y \in Items : r = Ref(iids, y)
      /\ EntriesHaveIds'
  BY UsesAfter DEF IdsInv
<1>3. /\ iids \in [Items -> Nat] /\ nextIid \in [Kinds -> Nat \ {0}]
      /\ table \in [Items -> Nat] /\ NextAfter(xs) \in [Kinds -> Nat \ {0}]
      /\ \A x \in Items : Kind[x] \in Kinds /\ table[x] < nextIid[Kind[x]]
      /\ \A k \in Kinds : nextIid[k] <= NextAfter(xs)[k]
      /\ \A x \in Items : iids[x] < NextAfter(xs)[Kind[x]]
  BY IidsAfter, NewIids DEF TypeOK
<1>4. \A r \in AllUses : r.kind \in Kinds /\ r.iid \in Nat /\ r.iid < nextIid[r.kind]
  BY DEF AllUses, RefType, IdsInv, BelowCounters
<1>5. ASSUME NEW x \in Items
      PROVE  \/ iids[x] = table[x]
             \/ /\ nextIid[Kind[x]] <= iids[x]
                /\ \E i \in Allocated(xs) : xs[i] = x /\ iids[x] = NewIid(xs, i)
  BY IidsAfter, NewIids
<1>6. \A x, y \in Items : Kind[x] = Kind[y] /\ iids[x] = iids[y] /\ iids[x] # 0 => x = y
  BY AllocationInjective DEF IdsInv
<1>7. ASSUME NEW x \in Items, NEW r \in AllUses, iids[x] # 0, r.kind = Kind[x], r.iid = iids[x]
      PROVE  r.item = x
  <2>1. iids[x] = table[x]
    BY <1>3, <1>4, <1>5, <1>7
  <2> QED BY <1>7, <2>1 DEF IdsInv, TableAgrees
<1>8. \A y \in Items : /\ Ref(iids, y).kind = Kind[y] /\ Ref(iids, y).iid = iids[y]
                       /\ Ref(iids, y).item = y
  BY DEF Ref
<1> HIDE DEF iids
<1>9. BelowCounters'
  <2> SUFFICES ASSUME NEW r \in AllUses' PROVE r.iid < nextIid'[r.kind]
    BY DEF BelowCounters
  <2>1. CASE r \in AllUses
    BY <1>1, <1>3, <1>4, <2>1
  <2>2. ASSUME NEW y \in Items, r = Ref(iids, y) PROVE r.iid < nextIid'[r.kind]
    BY <1>1, <1>3, <1>8, <2>2
  <2> QED BY <1>2, <2>1, <2>2
<1>10. TableInjective'
  BY <1>1, <1>6 DEF TableInjective
<1>11. TableAgrees'
  <2> SUFFICES ASSUME NEW x \in Items, NEW r \in AllUses',
                      iids[x] # 0, r.kind = Kind[x], r.iid = iids[x]
               PROVE  r.item = x
    BY <1>1 DEF TableAgrees
  <2> QED BY <1>2, <1>6, <1>7, <1>8
<1>12. OneItemPerId'
  <2> SUFFICES ASSUME NEW r \in AllUses', NEW s \in AllUses',
                      r.kind = s.kind, r.iid = s.iid, r.iid # 0
               PROVE  r.item = s.item
    BY DEF OneItemPerId
  <2>1. CASE r \in AllUses /\ s \in AllUses
    BY <2>1 DEF IdsInv, OneItemPerId
  <2>2. ASSUME NEW y \in Items, r = Ref(iids, y) PROVE r.item = s.item
    BY <1>2, <1>6, <1>7, <1>8, <2>2
  <2>3. ASSUME NEW y \in Items, s = Ref(iids, y) PROVE r.item = s.item
    BY <1>2, <1>6, <1>7, <1>8, <2>3
  <2> QED BY <1>2, <2>1, <2>2, <2>3
<1> QED BY <1>2, <1>9, <1>10, <1>11, <1>12 DEF IdsInv

(* Packets that intern nothing use nothing; a reset forgets the table but   *)
(* keeps the counters.                                                      *)
LEMMA DescribeKeepsIds == ASSUME TypeOK, IdsInv, Describe \/ AddOther PROVE IdsInv'
<1>1. packets \in Seq(PacketType) /\ Len(packets) \in Nat /\ DOMAIN packets = 1..Len(packets)
  BY LenProperties DEF TypeOK
<1>2. PICK b \in BOOLEAN : packets' = Append(packets, Packet(b, FALSE))
  BY DEF Describe, AddOther
<1>3. /\ DOMAIN packets' = DOMAIN packets \cup {Len(packets) + 1}
      /\ packets'[Len(packets) + 1] = Packet(b, FALSE)
      /\ \A k \in DOMAIN packets : packets'[k] = packets[k]
  <2> DEFINE new == Packet(b, FALSE)
  <2>1. new \in PacketType /\ packets' = Append(packets, new)
    BY <1>2, PacketTyped
  <2> HIDE DEF new
  <2>2. /\ DOMAIN Append(packets, new) = DOMAIN packets \cup {Len(packets) + 1}
        /\ Append(packets, new)[Len(packets) + 1] = new
        /\ \A k \in DOMAIN packets : Append(packets, new)[k] = packets[k]
    BY <1>1, <2>1, Appended
  <2> QED BY <2>1, <2>2 DEF new
<1>4. Uses(Packet(b, FALSE)) = {} /\ Packet(b, FALSE).entries = {}
  BY DEF Uses, Packet
<1>5. \A i \in DOMAIN packets' : \/ i \in DOMAIN packets /\ packets'[i] = packets[i]
                                 \/ packets'[i] = Packet(b, FALSE)
  BY <1>1, <1>3
<1>6. AllUses' \subseteq AllUses
  BY <1>4, <1>5 DEF AllUses
<1>7. EntriesHaveIds'
  BY <1>4, <1>5 DEF IdsInv, EntriesHaveIds
<1>8. table' = table /\ nextIid' = nextIid
  BY DEF Describe, AddOther, dictionary
<1> QED BY <1>6, <1>7, <1>8
        DEF IdsInv, BelowCounters, OneItemPerId, TableAgrees, TableInjective

LEMMA ResetKeepsIds == ASSUME TypeOK, IdsInv, Reset PROVE IdsInv'
<1>1. packets' = packets /\ nextIid' = nextIid /\ \A x \in Items : table'[x] = 0
  BY DEF Reset, Cleared
<1>2. AllUses' = AllUses /\ EntriesHaveIds'
  BY <1>1 DEF AllUses, IdsInv, EntriesHaveIds
<1> QED BY <1>1, <1>2
        DEF IdsInv, BelowCounters, OneItemPerId, TableAgrees, TableInjective

LEMMA DictionaryStep == DictionaryInv /\ [Next]_vars => DictionaryInv'
<1> SUFFICES ASSUME DictionaryInv, [Next]_vars PROVE DictionaryInv'
  OBVIOUS
<1>1. TypeOK' /\ TypeOK /\ builders \in Nat /\ builders >= 1
  BY TypeStep DEF DictionaryInv, TypeOK
<1>2. CASE NewBuilder
  BY <1>1, <1>2 DEF NewBuilder, DictionaryInv
<1>3. ASSUME builders' = builders, IdsInv => IdsInv' PROVE DictionaryInv'
  BY <1>1, <1>3 DEF DictionaryInv
<1>4. CASE Describe \/ AddOther
  BY <1>1, <1>3, <1>4, DescribeKeepsIds DEF Describe, AddOther, bounds
<1>5. CASE Reset
  BY <1>1, <1>3, <1>5, ResetKeepsIds DEF Reset
<1>6. ASSUME NEW xs \in Seq(Items), AddEvent(xs) PROVE DictionaryInv'
  BY <1>1, <1>3, <1>6, InternKeepsIds DEF AddEvent, bounds
<1>7. ASSUME NEW p \in DOMAIN packets, NEW xs \in Seq(Items), Annotate(p, xs)
      PROVE  DictionaryInv'
  BY <1>1, <1>3, <1>7, InternKeepsIds DEF Annotate, bounds
<1>8. CASE UNCHANGED vars
  <2>1. UNCHANGED <<packets, table, nextIid, builders>>
    BY <1>8 DEF vars, dictionary, bounds
  <2> QED BY <1>3, <2>1 DEF IdsInv, BelowCounters, OneItemPerId, TableAgrees,
             TableInjective, EntriesHaveIds, AllUses
<1> QED BY <1>2, <1>4, <1>5, <1>6, <1>7, <1>8, Steps

(* Reading: what an event or a visible entry refers to, and what an id is   *)
(* taken for, were both written to the trace.                               *)
LEMMA ReadingIsUsing == DictionaryInv => NeverMisread
<1> SUFFICES ASSUME DictionaryInv, builders = 1,
                    NEW i \in DOMAIN packets, NEW lost \in SUBSET DOMAIN packets,
                    NEW r \in References(i, lost), NEW e \in Meaning(i, lost, r)
             PROVE  e.item = r.item
  BY DEF NeverMisread
<1>1. IdsInv /\ TypeOK
  BY DEF DictionaryInv
<1>2. DOMAIN packets = 1..Len(packets) /\ Len(packets) \in Nat
      /\ \A m \in DOMAIN packets : packets[m] \in PacketType
  BY <1>1, LenProperties, ElementOfSeq DEF TypeOK
<1>3. \A m \in Visible(i, lost) : m \in DOMAIN packets
  BY <1>2 DEF Visible, Read
<1>4. \A m \in DOMAIN packets : packets[m].refs \subseteq RefType /\ packets[m].entries \subseteq EntryType
  BY <1>2 DEF PacketType
<1>5. \A f \in EntryType : Use(f) \in RefType /\ f.parts \subseteq RefType
  BY DEF Use, EntryType, RefType
<1>6. \A m \in DOMAIN packets : \A f \in packets[m].entries :
        Use(f) \in AllUses /\ f.parts \subseteq AllUses
  BY <1>4, <1>5 DEF AllUses, Uses
<1>7. r \in AllUses
  <2>1. CASE r \in packets[i].refs
    BY <1>4, <2>1 DEF AllUses, Uses
  <2>2. CASE r \in VisibleParts(i, lost)
    BY <1>3, <1>6, <2>2 DEF VisibleParts
  <2> QED BY <2>1, <2>2 DEF References
<1>8. PICK m \in DOMAIN packets : e \in packets[m].entries /\ e.kind = r.kind /\ e.iid = r.iid
  BY <1>3 DEF Meaning, Defines
<1>9. Use(e) \in AllUses /\ e.iid # 0
  BY <1>1, <1>6, <1>8 DEF IdsInv, EntriesHaveIds
<1>10. Use(e).kind = r.kind /\ Use(e).iid = r.iid /\ Use(e).item = e.item
  BY <1>8 DEF Use
<1> QED BY <1>1, <1>7, <1>8, <1>9, <1>10 DEF IdsInv, OneItemPerId

(* Whatever is lost, reset, annotated late or interrupted by an error, an   *)
(* id of a builder's trace is read as what it was written for or as missing.*)
THEOREM IdsAreNeverMisread == Spec => []NeverMisread
<1>1. Init => DictionaryInv
  <2> SUFFICES ASSUME Init PROVE DictionaryInv
    OBVIOUS
  <2>1. TypeOK
    BY InitTyped
  <2>2. packets = <<>> /\ builders = 1 /\ \A x \in Items : table[x] = 0
    BY DEF Init, Cleared
  <2>3. DOMAIN packets = {}
    BY <2>2
  <2>4. IdsInv
    BY <2>2, <2>3 DEF IdsInv, BelowCounters, OneItemPerId, TableAgrees, TableInjective,
       EntriesHaveIds, AllUses
  <2> QED BY <2>1, <2>2, <2>4 DEF DictionaryInv
<1> QED BY <1>1, DictionaryStep, ReadingIsUsing, PTL DEF Spec

----------------------------------------------------------------------------
(* Order.  The packets fall into epochs: one begins with each packet that   *)
(* clears the reader's tables.  When packets are annotated in order, what a *)
(* packet refers to is defined in its epoch, no later than by itself, and   *)
(* an id has one meaning in an epoch, whichever builder wrote it.           *)
Blank(packet) ==
  packet.entries = {} /\ packet.refs = {} /\ ~packet.needs /\ ~packet.clears
Needed(packet) == packet.refs \cup UNION {e.parts : e \in packet.entries}
Since(i) == {m \in 1..i : \A c \in (m + 1)..i : ~packets[c].clears}

Headed == \A i \in DOMAIN packets : Blank(packets[i]) \/ \E c \in 1..i : packets[c].clears
Resolved ==
  \A i \in DOMAIN packets : \A r \in Needed(packets[i]) :
    \E m \in Since(i) : \E e \in packets[m].entries : Use(e) = r
OneMeaning ==
  \A i \in DOMAIN packets : \A m \in Since(i) :
    \A r \in Uses(packets[i]), s \in Uses(packets[m]) :
      r.kind = s.kind /\ r.iid = s.iid => r.item = s.item
Sequenced == \A i \in DOMAIN packets : packets[i].sequenced \/ Blank(packets[i])

(* The current epoch: it began with packet `s`, and its entries and the     *)
(* table are the same.                                                      *)
Began(s) ==
  /\ packets[s].clears /\ s <= sealed + 1
  /\ \A q \in DOMAIN packets : q > s => ~packets[q].clears
  /\ \A q \in DOMAIN packets : q >= s =>
       \A r \in Uses(packets[q]) : r.item \in Items /\ r = Ref(table, r.item) /\ r.iid # 0
  /\ \A x \in Items : table[x] # 0 =>
       \E q \in DOMAIN packets : q >= s /\ \E e \in packets[q].entries : Use(e) = Ref(table, x)
Current ==
  IF emittedCleared THEN \E s \in DOMAIN packets : Began(s)
  ELSE \A x \in Items : table[x] = 0
Unsealed ==
  /\ sealed <= Len(packets)
  /\ \A p \in DOMAIN packets :
       p > sealed + 1 \/ (~emittedCleared /\ p > sealed) => Blank(packets[p])

InOrder ==
  Headed /\ Resolved /\ OneMeaning /\ Sequenced /\ TableInjective /\ Current /\ Unsealed
OrderInv == TypeOK /\ (~late /\ ~failed => InOrder)

LEMMA Least ==
  ASSUME NEW S \in SUBSET Nat, S # {}
  PROVE  \E m \in S : \A k \in S : m <= k
<1> DEFINE less == {ss \in Nat \X Nat : ss[1] < ss[2]}
<1>1. IsWellFoundedOn(less, Nat)
  <2>1. less = OpToRel(<, Nat)
    BY DEF OpToRel
  <2> QED BY <2>1, NatLessThanWellFounded
<1> HIDE DEF less
<1>2. PICK m \in S : \A k \in S : <<k, m>> \notin less
  BY <1>1, WFMin
<1>3. ASSUME NEW k \in S PROVE m <= k
  <2>1. <<k, m>> \notin less /\ m \in Nat /\ k \in Nat
    BY <1>2
  <2>2. k < m => <<k, m>> \in less
    BY <2>1 DEF less
  <2> QED BY <2>1, <2>2
<1> QED BY <1>3

LEMMA Greatest ==
  ASSUME NEW n \in Nat, NEW S \in SUBSET (0..n), S # {}
  PROVE  \E m \in S : \A k \in S : k <= m
<1> DEFINE T == {n - k : k \in S}
<1>1. \A k \in S : k \in Nat /\ k <= n /\ n - k \in Nat
  OBVIOUS
<1>2. T \in SUBSET Nat /\ T # {}
  BY <1>1
<1>3. PICK t \in T : \A u \in T : t <= u
  BY <1>2, Least
<1>4. PICK m \in S : t = n - m
  BY <1>3
<1>5. \A k \in S : n - k \in T
  OBVIOUS
<1> HIDE DEF T
<1> QED BY <1>1, <1>3, <1>4, <1>5

(* Every item that a call has looked up has an id afterwards.               *)
LEMMA ReachedHasId ==
  ASSUME TypeOK, NEW xs \in Seq(Items), NEW n \in Reached(xs)
  PROVE  xs[n] \in Items /\ IidAfter(xs)[xs[n]] # 0
<1>1. xs \in [1..Len(xs) -> Items] /\ Len(xs) \in Nat /\ n \in 1..Len(xs)
  BY LenProperties DEF Reached
<1>2. table \in [Items -> Nat] /\ nextIid \in [Kinds -> Nat \ {0}]
      /\ \A x \in Items : Kind[x] \in Kinds
  BY BuilderAssumption DEF TypeOK
<1>3. CASE table[xs[n]] # 0
  BY <1>1, <1>3, IidsAfter
<1>4. CASE table[xs[n]] = 0
  <2> DEFINE S == {k \in DOMAIN xs : xs[k] = xs[n]}
  <2>1. S \in SUBSET Nat /\ n \in S
    BY <1>1
  <2>2. PICK j \in S : \A k \in S : j <= k
    BY <2>1, Least
  <2>3. j \in 1..Len(xs) /\ xs[j] = xs[n] /\ j <= n
    BY <1>1, <2>1, <2>2
  <2>4. \A k \in 1..(j - 1) : xs[k] # xs[j]
    <3> SUFFICES ASSUME NEW k \in 1..(j - 1), xs[k] = xs[j] PROVE FALSE
      OBVIOUS
    <3>1. k \in DOMAIN xs /\ k \in S
      BY <1>1, <2>3
    <3> QED BY <1>1, <2>2, <2>3, <3>1
  <2>5. j \in New(xs)
    BY <1>1, <1>4, <2>3, <2>4 DEF New
  <2>6. j \in Reached(xs)
    <3> SUFFICES ASSUME NEW i \in Raises(xs) PROVE j <= i
      BY <1>1, <2>3 DEF Reached
    <3>1. n <= i /\ i \in 1..Len(xs)
      BY <1>1 DEF Reached, Raises, New
    <3> QED BY <1>1, <2>3, <3>1
  <2>7. j \in Allocated(xs)
    BY <2>5, <2>6 DEF Allocated
  <2>8. PICK i \in Allocated(xs) : xs[i] = xs[n] /\ IidAfter(xs)[xs[n]] = NewIid(xs, i)
    BY <1>1, <2>3, <2>7, IidsAfter
  <2>9. NewIid(xs, i) \in Nat /\ nextIid[Kind[xs[i]]] <= NewIid(xs, i)
    BY NewIids
  <2> QED BY <1>1, <1>2, <2>8, <2>9
<1> QED BY <1>1, <1>3, <1>4

(* Calls hand over with an item all that it consists of.                    *)
Closed(xs) ==
  \A i \in DOMAIN xs : Parts[xs[i]] # {} =>
    /\ Raises(xs) = {}
    /\ \A y \in Parts[xs[i]] : \E j \in DOMAIN xs : xs[j] = y

(* What an interning call adds to a packet resolves in the new table.       *)
LEMMA InternedUses ==
  ASSUME TypeOK, NEW xs \in Seq(Items), xs # <<>>, Closed(xs), NEW p \in PacketType
  PROVE  /\ Interned(p, xs) \in PacketType
         /\ Interned(p, xs).sequenced = p.sequenced
         /\ Interned(p, xs).clears = (p.clears \/ ~emittedCleared)
         /\ p.entries \subseteq Interned(p, xs).entries
         /\ \A r \in Uses(Interned(p, xs)) :
              r \in Uses(p) \/ \E x \in Items : r = Ref(IidAfter(xs), x) /\ r.iid # 0
         /\ \A i \in Allocated(xs) :
              \E e \in Interned(p, xs).entries : Use(e) = Ref(IidAfter(xs), xs[i])
<1> DEFINE q    == Interned(p, xs)
           iids == IidAfter(xs)
           new  == {Entry(iids, xs[i]) : i \in Allocated(xs)}
<1>1. xs \in [1..Len(xs) -> Items]
  BY LenProperties
<1>2. /\ q.sequenced = p.sequenced /\ q.clears = (p.clears \/ ~emittedCleared)
      /\ q.entries = p.entries \cup new /\ q.refs \subseteq p.refs \cup Given(xs)
  BY DEF Interned, PacketType
<1>3. ASSUME NEW r \in Given(xs)
      PROVE  \E x \in Items : r = Ref(iids, x) /\ r.iid # 0
  <2>1. PICK i \in Reached(xs) : r = Ref(iids, xs[i])
    BY DEF Given
  <2> QED BY <2>1, ReachedHasId DEF Ref
<1>4. ASSUME NEW i \in Allocated(xs)
      PROVE  /\ Use(Entry(iids, xs[i])) = Ref(iids, xs[i]) /\ xs[i] \in Items
             /\ Ref(iids, xs[i]).iid # 0
             /\ \A r \in Entry(iids, xs[i]).parts :
                  \E x \in Items : r = Ref(iids, x) /\ r.iid # 0
  <2>1. i \in Reached(xs) /\ i \in DOMAIN xs
    BY AllocatedFacts DEF Allocated
  <2>2. xs[i] \in Items /\ Ref(iids, xs[i]).iid # 0
    BY <2>1, ReachedHasId DEF Ref
  <2>3. Use(Entry(iids, xs[i])) = Ref(iids, xs[i])
    BY DEF Use, Entry, Ref
  <2>4. ASSUME NEW r \in Entry(iids, xs[i]).parts
        PROVE  \E x \in Items : r = Ref(iids, x) /\ r.iid # 0
    <3>1. PICK y \in Parts[xs[i]] : r = Ref(iids, y)
      BY DEF Entry
    <3>2. PICK j \in DOMAIN xs : xs[j] = y
      BY <2>1, <3>1 DEF Closed
    <3>3. j \in Reached(xs)
      BY <2>1, <3>1, <3>2 DEF Closed, Reached
    <3> QED BY <3>1, <3>2, <3>3, ReachedHasId DEF Ref
  <2> QED BY <2>2, <2>3, <2>4
<1>5. \A i \in Allocated(xs) : \E e \in q.entries : Use(e) = Ref(iids, xs[i])
  BY <1>2, <1>4
<1>6. ASSUME NEW e \in new, NEW r, r = Use(e) \/ r \in e.parts
      PROVE  \E x \in Items : r = Ref(iids, x) /\ r.iid # 0
  <2>1. PICK i \in Allocated(xs) : e = Entry(iids, xs[i])
    OBVIOUS
  <2> HIDE DEF new, iids
  <2>2. CASE r = Use(e)
    BY <1>4, <2>1, <2>2
  <2>3. CASE r \in e.parts
    BY <1>4, <2>1, <2>3
  <2> QED BY <1>6, <2>2, <2>3
<1> HIDE DEF new, q, iids
<1>7. ASSUME NEW r \in Uses(q)
      PROVE  r \in Uses(p) \/ \E x \in Items : r = Ref(iids, x) /\ r.iid # 0
  <2>1. CASE r \in q.refs
    BY <1>2, <1>3, <2>1 DEF Uses
  <2>2. ASSUME NEW e \in q.entries, r = Use(e) \/ r \in e.parts
        PROVE  r \in Uses(p) \/ \E x \in Items : r = Ref(iids, x) /\ r.iid # 0
    <3>1. CASE e \in p.entries
      BY <2>2, <3>1 DEF Uses
    <3>2. CASE e \in new
      BY <1>6, <2>2, <3>2
    <3> QED BY <1>2, <3>1, <3>2
  <2> QED BY <2>1, <2>2 DEF Uses
<1>8. q \in PacketType
  BY InternedType DEF q
<1> QED BY <1>2, <1>5, <1>7, <1>8 DEF q, iids

(* What is before `p` has not changed, `p` belongs to the epoch that began  *)
(* with `s`, what follows it is blank: then the order is kept.              *)
LEMMA EpochKeepsOrder ==
  ASSUME TypeOK, TypeOK', InOrder, NEW xs \in Seq(Items), table' = IidAfter(xs),
         emittedCleared', NEW p \in Nat, NEW s \in 1..p,
         DOMAIN packets' = DOMAIN packets \cup {p}, p <= Len(packets) + 1,
         \A k \in DOMAIN packets : k # p => packets'[k] = packets[k],
         \A k \in DOMAIN packets' : k < p => packets'[k].clears = packets[k].clears,
         packets'[s].clears, packets'[p].sequenced,
         \A k \in DOMAIN packets' : k > s => ~packets'[k].clears,
         \A k \in DOMAIN packets' : k > p => Blank(packets'[k]),
         \A k \in DOMAIN packets' : k >= s =>
           \A r \in Uses(packets'[k]) : \E x \in Items : r = Ref(table', x) /\ r.iid # 0,
         \A x \in Items : table'[x] # 0 =>
           \E k \in s..p : \E e \in packets'[k].entries : Use(e) = Ref(table', x),
         sealed' <= Len(packets'), sealed' >= p - 1
  PROVE  InOrder'
<1>1. /\ DOMAIN packets = 1..Len(packets) /\ Len(packets) \in Nat
      /\ DOMAIN packets' = 1..Len(packets') /\ Len(packets') \in Nat
      /\ sealed' \in Nat
  BY LenProperties DEF TypeOK
<1>2. p \in 1..Len(packets') /\ s \in 1..Len(packets') /\ s <= p /\ s \in Nat
  BY <1>1
<1>3. \A k \in DOMAIN packets' : k < p => k \in DOMAIN packets /\ packets'[k] = packets[k]
  BY <1>1
<1>4. \A k \in DOMAIN packets' : k > p => k \in DOMAIN packets /\ Blank(packets'[k])
  BY <1>1
<1>5. ASSUME NEW i \in DOMAIN packets', i < p
      PROVE  Since(i)' = Since(i) /\ \A m \in 1..i : packets'[m] = packets[m]
  <2>1. \A m \in 1..i : m \in DOMAIN packets' /\ m < p
    BY <1>1, <1>2, <1>5
  <2>2. \A m \in 1..i : packets'[m] = packets[m]
    BY <1>3, <2>1
  <2>3. ASSUME NEW m \in 1..i
        PROVE  (\A c \in (m + 1)..i : ~packets'[c].clears)
                 <=> (\A c \in (m + 1)..i : ~packets[c].clears)
    <3>1. \A c \in (m + 1)..i : c \in 1..i
      BY <1>1
    <3> QED BY <2>2, <3>1
  <2> QED BY <2>2, <2>3 DEF Since
<1>6. ASSUME NEW i \in DOMAIN packets', i >= s, NEW m \in Since(i)'
      PROVE  m \in DOMAIN packets' /\ m >= s /\ m <= i
  <2>1. m \in 1..i /\ \A c \in (m + 1)..i : ~packets'[c].clears
    BY DEF Since
  <2>2. m < s => s \in (m + 1)..i
    BY <1>1, <1>2, <1>6, <2>1
  <2> QED BY <1>1, <1>2, <1>6, <2>1, <2>2
<1>7. Headed'
  <2> SUFFICES ASSUME NEW i \in DOMAIN packets'
               PROVE  Blank(packets'[i]) \/ \E c \in 1..i : packets'[c].clears
    BY DEF Headed
  <2>1. CASE i < p
    BY <1>3, <1>5, <2>1 DEF InOrder, Headed
  <2>2. CASE i >= p
    <3>1. s \in 1..i
      BY <1>1, <1>2, <2>2
    <3> QED BY <3>1
  <2> QED BY <1>1, <2>1, <2>2
<1>8. Resolved'
  <2> SUFFICES ASSUME NEW i \in DOMAIN packets', NEW r \in Needed(packets'[i])
               PROVE  \E m \in Since(i)' : \E e \in packets'[m].entries : Use(e) = r
    BY DEF Resolved
  <2>1. CASE i < p
    <3>1. r \in Needed(packets[i]) /\ i \in DOMAIN packets
      BY <1>3, <2>1
    <3>2. PICK m \in Since(i) : \E e \in packets[m].entries : Use(e) = r
      BY <3>1 DEF InOrder, Resolved
    <3>3. m \in 1..i
      BY DEF Since
    <3> QED BY <1>5, <2>1, <3>2, <3>3
  <2>2. CASE i = p
    <3>1. r \in Uses(packets'[i])
      BY DEF Needed, Uses
    <3>2. PICK x \in Items : r = Ref(table', x) /\ r.iid # 0
      BY <1>2, <2>2, <3>1
    <3>3. table'[x] # 0
      BY <3>2 DEF Ref
    <3>4. PICK k \in s..p : \E e \in packets'[k].entries : Use(e) = Ref(table', x)
      BY <3>3
    <3>5. k \in Since(i)'
      <4>1. k \in 1..i
        BY <1>2, <2>2
      <4>2. \A c \in (k + 1)..i : c \in DOMAIN packets' /\ c > s
        BY <1>1, <1>2, <2>2
      <4> QED BY <4>1, <4>2 DEF Since
    <3> QED BY <3>2, <3>4, <3>5
  <2>3. CASE i > p
    BY <1>4, <2>3 DEF Blank, Needed
  <2> QED BY <1>1, <2>1, <2>2, <2>3
<1>9. TableInjective'
  BY AllocationInjective DEF TableInjective, InOrder
<1>10. OneMeaning'
  <2> SUFFICES ASSUME NEW i \in DOMAIN packets', NEW m \in Since(i)',
                      NEW r \in Uses(packets'[i]), NEW t \in Uses(packets'[m]),
                      r.kind = t.kind, r.iid = t.iid
               PROVE  r.item = t.item
    BY DEF OneMeaning
  <2>1. CASE i < s
    <3>1. i < p
      BY <1>1, <1>2, <2>1
    <3>2. m \in Since(i) /\ m \in 1..i
      BY <1>5, <3>1 DEF Since
    <3>3. r \in Uses(packets[i]) /\ t \in Uses(packets[m]) /\ i \in DOMAIN packets
      BY <1>3, <1>5, <3>1, <3>2
    <3> QED BY <3>2, <3>3 DEF InOrder, OneMeaning
  <2>2. CASE i >= s
    <3>1. m \in DOMAIN packets' /\ m >= s
      BY <1>6, <2>2
    <3>2. PICK x \in Items : r = Ref(table', x) /\ r.iid # 0
      BY <2>2
    <3>3. PICK y \in Items : t = Ref(table', y) /\ t.iid # 0
      BY <3>1
    <3>4. x = y
      BY <1>9, <3>2, <3>3 DEF Ref, TableInjective
    <3> QED BY <3>2, <3>3, <3>4
  <2> QED BY <1>1, <1>2, <2>1, <2>2
<1>11. Sequenced'
  BY DEF InOrder, Sequenced
<1>12. Current'
  <2>1. packets'[s].clears
    OBVIOUS
  <2>5. s <= sealed' + 1 /\ s \in DOMAIN packets'
    <3>1. \A n \in Nat : n >= p - 1 => s <= n + 1
      BY <1>2
    <3> QED BY <1>1, <1>2, <3>1
  <2>2. \A q \in DOMAIN packets' : q >= s =>
          \A r \in Uses(packets'[q]) : r.item \in Items /\ r = Ref(table', r.item) /\ r.iid # 0
    BY DEF Ref
  <2>3. \A x \in Items : table'[x] # 0 =>
          \E q \in DOMAIN packets' :
            q >= s /\ \E e \in packets'[q].entries : Use(e) = Ref(table', x)
    <3>1. \A k \in s..p : k \in DOMAIN packets' /\ k >= s
      BY <1>1, <1>2
    <3> QED BY <3>1
  <2>4. Began(s)'
    BY <2>1, <2>2, <2>3, <2>5 DEF Began, Ref
  <2> QED BY <2>4, <2>5 DEF Current
<1>13. Unsealed'
  <2>1. \A k \in DOMAIN packets' : k > sealed' + 1 => k > p
    BY <1>1, <1>2
  <2> QED BY <2>1 DEF Unsealed
<1> QED BY <1>7, <1>8, <1>9, <1>10, <1>11, <1>12, <1>13 DEF InOrder

(* A call that interns for the last packet that is not blank, or for a      *)
(* later one, goes on with the epoch or begins one.                         *)
LEMMA InternKeepsOrder ==
  ASSUME TypeOK, TypeOK', InOrder, NEW xs \in Seq(Items), xs # <<>>, Closed(xs), Intern(xs),
         NEW p \in Nat, p > sealed, p <= Len(packets) + 1, sealed' = p - 1,
         NEW old \in PacketType, old.sequenced,
         IF p \in DOMAIN packets THEN old = packets[p] ELSE Blank(old),
         DOMAIN packets' = DOMAIN packets \cup {p}, packets'[p] = Interned(old, xs),
         \A k \in DOMAIN packets : k # p => packets'[k] = packets[k]
  PROVE  InOrder'
<1>1. /\ DOMAIN packets = 1..Len(packets) /\ Len(packets) \in Nat
      /\ DOMAIN packets' = 1..Len(packets') /\ Len(packets') \in Nat
      /\ sealed \in Nat
  BY LenProperties DEF TypeOK
<1>0. p >= 1
  BY <1>1
<1>2. table' = IidAfter(xs) /\ emittedCleared'
  BY DEF Intern
<1>3. /\ packets'[p].sequenced
      /\ packets'[p].clears = (old.clears \/ ~emittedCleared)
      /\ old.entries \subseteq packets'[p].entries
      /\ \A r \in Uses(packets'[p]) :
           r \in Uses(old) \/ \E x \in Items : r = Ref(table', x) /\ r.iid # 0
      /\ \A i \in Allocated(xs) : \E e \in packets'[p].entries : Use(e) = Ref(table', xs[i])
  BY <1>2, InternedUses
<1>4. \A k \in DOMAIN packets' : k > p => Blank(packets'[k])
  <2> SUFFICES ASSUME NEW k \in DOMAIN packets', k > p PROVE Blank(packets'[k])
    OBVIOUS
  <2>1. k \in DOMAIN packets /\ k # p /\ k > sealed + 1
    BY <1>1
  <2> QED BY <2>1 DEF InOrder, Unsealed
<1>5. \A x \in Items :
        \/ table'[x] = table[x]
        \/ table[x] = 0 /\ \E e \in packets'[p].entries : Use(e) = Ref(table', x)
  <2> SUFFICES ASSUME NEW x \in Items, table'[x] # table[x]
               PROVE  table[x] = 0 /\ \E e \in packets'[p].entries : Use(e) = Ref(table', x)
    OBVIOUS
  <2>1. PICK i \in Allocated(xs) : xs[i] = x /\ table[x] = 0
    BY <1>2, IidsAfter
  <2> QED BY <1>3, <2>1
<1>6. sealed' <= Len(packets') /\ sealed' >= p - 1
  BY <1>1
<1>7. CASE emittedCleared
  <2>1. PICK s \in DOMAIN packets : Began(s)
    BY <1>7 DEF InOrder, Current
  <2>2. s \in 1..p
    BY <1>0, <1>1, <2>1 DEF Began
  <2>3. old.clears => p \in DOMAIN packets /\ packets[p].clears
    BY DEF Blank
  <2>4. packets'[s].clears
    <3>1. CASE s = p
      BY <1>3, <2>1, <3>1 DEF Began
    <3>2. CASE s # p
      BY <2>1, <3>2 DEF Began
    <3> QED BY <3>1, <3>2
  <2>5. \A k \in DOMAIN packets' : k > s => ~packets'[k].clears
    <3> SUFFICES ASSUME NEW k \in DOMAIN packets', k > s PROVE ~packets'[k].clears
      OBVIOUS
    <3>1. CASE k = p
      BY <1>3, <1>7, <2>1, <2>3, <3>1 DEF Began
    <3>2. CASE k # p
      BY <2>1, <3>2 DEF Began
    <3> QED BY <3>1, <3>2
  <2>6. \A k \in DOMAIN packets' : k < p => packets'[k].clears = packets[k].clears
    OBVIOUS
  <2>7. \A k \in DOMAIN packets' : k >= s =>
          \A r \in Uses(packets'[k]) : \E x \in Items : r = Ref(table', x) /\ r.iid # 0
    <3>1. ASSUME NEW k \in DOMAIN packets, k >= s, NEW r \in Uses(packets[k])
          PROVE  \E x \in Items : r = Ref(table', x) /\ r.iid # 0
      <4>1. r.item \in Items /\ r = Ref(table, r.item) /\ r.iid # 0
        BY <2>1, <3>1 DEF Began
      <4>2. table'[r.item] = table[r.item]
        BY <1>5, <4>1 DEF Ref
      <4>3. r = Ref(table', r.item)
        BY <4>1, <4>2 DEF Ref
      <4> QED BY <4>1, <4>3
    <3> SUFFICES ASSUME NEW k \in DOMAIN packets', k >= s, NEW r \in Uses(packets'[k])
                 PROVE  \E x \in Items : r = Ref(table', x) /\ r.iid # 0
      OBVIOUS
    <3>2. CASE k # p
      BY <3>1, <3>2
    <3>3. CASE k = p /\ p \in DOMAIN packets
      BY <1>3, <3>1, <3>3
    <3>4. CASE k = p /\ p \notin DOMAIN packets
      BY <1>3, <3>4 DEF Blank, Uses
    <3> QED BY <3>2, <3>3, <3>4
  <2>8. \A x \in Items : table'[x] # 0 =>
          \E k \in s..p : \E e \in packets'[k].entries : Use(e) = Ref(table', x)
    <3> SUFFICES ASSUME NEW x \in Items, table'[x] # 0
                 PROVE  \E k \in s..p : \E e \in packets'[k].entries : Use(e) = Ref(table', x)
      OBVIOUS
    <3>1. CASE \E e \in packets'[p].entries : Use(e) = Ref(table', x)
      BY <2>2, <3>1
    <3>2. CASE table'[x] = table[x]
      <4>1. PICK q \in DOMAIN packets :
              q >= s /\ \E e \in packets[q].entries : Use(e) = Ref(table, x)
        BY <2>1, <3>2 DEF Began
      <4>2. ~Blank(packets[q])
        BY <4>1 DEF Blank
      <4>3. q <= p
        BY <1>1, <4>2 DEF InOrder, Unsealed
      <4>4. Ref(table, x) = Ref(table', x)
        BY <3>2 DEF Ref
      <4>5. packets[q].entries \subseteq packets'[q].entries
        BY <1>3
      <4>6. q \in s..p
        BY <1>1, <4>1, <4>3
      <4> QED BY <4>1, <4>4, <4>5, <4>6
    <3> QED BY <1>5, <3>1, <3>2
  <2> QED BY <1>2, <1>3, <1>4, <1>6, <2>2, <2>4, <2>5, <2>6, <2>7, <2>8, EpochKeepsOrder
<1>8. CASE ~emittedCleared
  <2>1. Blank(old)
    BY <1>8 DEF InOrder, Unsealed
  <2>2. packets'[p].clears
    BY <1>3, <1>8, Zenon
  <2>7. p \in 1..p
    BY <1>0
  <2>3. \A k \in DOMAIN packets' : k > p => ~packets'[k].clears
    BY <1>4 DEF Blank
  <2>4. \A k \in DOMAIN packets' : k < p => packets'[k].clears = packets[k].clears
    OBVIOUS
  <2>5. \A k \in DOMAIN packets' : k >= p =>
          \A r \in Uses(packets'[k]) : \E x \in Items : r = Ref(table', x) /\ r.iid # 0
    <3> SUFFICES ASSUME NEW k \in DOMAIN packets', k >= p, NEW r \in Uses(packets'[k])
                 PROVE  \E x \in Items : r = Ref(table', x) /\ r.iid # 0
      OBVIOUS
    <3>1. CASE k = p
      BY <1>3, <2>1, <3>1 DEF Blank, Uses
    <3>2. CASE k # p
      BY <1>1, <1>4, <3>2 DEF Blank, Uses
    <3> QED BY <3>1, <3>2
  <2>6. \A x \in Items : table'[x] # 0 =>
          \E k \in p..p : \E e \in packets'[k].entries : Use(e) = Ref(table', x)
    BY <1>5, <1>8 DEF InOrder, Current
  <2> QED BY <1>2, <1>3, <1>4, <1>6, <2>2, <2>3, <2>4, <2>5, <2>6, <2>7, EpochKeepsOrder
<1> QED BY <1>7, <1>8

(* A packet that interns nothing changes nothing of the order.              *)
LEMMA BlankKeepsOrder ==
  ASSUME TypeOK, TypeOK', InOrder, NEW new \in PacketType, Blank(new),
         DOMAIN packets' = DOMAIN packets \cup {Len(packets) + 1},
         packets'[Len(packets) + 1] = new,
         \A k \in DOMAIN packets : packets'[k] = packets[k],
         table' = table, emittedCleared' = emittedCleared, sealed' = sealed
  PROVE  InOrder'
<1>1. /\ DOMAIN packets = 1..Len(packets) /\ Len(packets) \in Nat /\ packets \in Seq(PacketType)
      /\ DOMAIN packets' = 1..Len(packets') /\ Len(packets') \in Nat
  BY LenProperties DEF TypeOK
<1>2. /\ DOMAIN packets' = DOMAIN packets \cup {Len(packets) + 1}
      /\ packets'[Len(packets) + 1] = new
      /\ \A k \in DOMAIN packets : packets'[k] = packets[k]
  OBVIOUS
<1>3. Len(packets') = Len(packets) + 1
  <2>1. Len(packets) + 1 \in 1..Len(packets')
    BY <1>1
  <2>2. Len(packets') \in 1..Len(packets')
    BY <1>1, <2>1
  <2>3. Len(packets') \in 1..Len(packets) \/ Len(packets') = Len(packets) + 1
    BY <1>1, <2>2
  <2> QED BY <1>1, <2>1, <2>3
<1>4. ASSUME NEW i \in DOMAIN packets
      PROVE  /\ Since(i)' = Since(i) /\ i \in DOMAIN packets'
             /\ \A m \in 1..i : m \in DOMAIN packets /\ packets'[m] = packets[m]
  <2>1. \A m \in 1..i : m \in DOMAIN packets /\ packets'[m] = packets[m]
    BY <1>1, <1>2
  <2>2. \A m \in 1..i : \A c \in (m + 1)..i : c \in 1..i
    BY <1>1
  <2> QED BY <1>2, <2>1, <2>2 DEF Since
<1>5. \A i \in DOMAIN packets' : i \notin DOMAIN packets => packets'[i] = new
  BY <1>2
<1>6. Headed'
  BY <1>4, <1>5 DEF InOrder, Headed
<1>7. Resolved'
  <2> SUFFICES ASSUME NEW i \in DOMAIN packets', NEW r \in Needed(packets'[i])
               PROVE  \E m \in Since(i)' : \E e \in packets'[m].entries : Use(e) = r
    BY DEF Resolved
  <2>1. i \in DOMAIN packets
    BY <1>5 DEF Blank, Needed
  <2>2. PICK m \in Since(i) : \E e \in packets[m].entries : Use(e) = r
    BY <1>2, <2>1 DEF InOrder, Resolved
  <2>3. m \in 1..i
    BY DEF Since
  <2> QED BY <1>4, <2>1, <2>2, <2>3
<1>8. OneMeaning'
  <2> SUFFICES ASSUME NEW i \in DOMAIN packets', NEW m \in Since(i)',
                      NEW r \in Uses(packets'[i]), NEW t \in Uses(packets'[m]),
                      r.kind = t.kind, r.iid = t.iid
               PROVE  r.item = t.item
    BY DEF OneMeaning
  <2>1. i \in DOMAIN packets
    BY <1>5 DEF Blank, Uses
  <2>2. m \in Since(i) /\ m \in 1..i
    BY <1>4, <2>1 DEF Since
  <2>3. r \in Uses(packets[i]) /\ t \in Uses(packets[m])
    BY <1>2, <1>4, <2>1, <2>2
  <2> QED BY <2>1, <2>2, <2>3 DEF InOrder, OneMeaning
<1>9. Sequenced'
  BY <1>2, <1>5 DEF InOrder, Sequenced
<1>10. TableInjective'
  BY DEF InOrder, TableInjective
<1>11. Current'
  <2>1. ASSUME NEW s \in DOMAIN packets, Began(s)
        PROVE  s \in DOMAIN packets' /\ Began(s)'
    <3>1. s \in DOMAIN packets' /\ packets'[s].clears /\ s <= sealed' + 1
      BY <1>2, <2>1 DEF Began
    <3>2. \A q \in DOMAIN packets' : q > s => ~packets'[q].clears
      BY <1>2, <1>5, <2>1 DEF Began, Blank
    <3>3. \A q \in DOMAIN packets' : q >= s =>
            \A r \in Uses(packets'[q]) : r.item \in Items /\ r = Ref(table', r.item) /\ r.iid # 0
      <4> SUFFICES ASSUME NEW q \in DOMAIN packets', q >= s, NEW r \in Uses(packets'[q])
                   PROVE  r.item \in Items /\ r = Ref(table', r.item) /\ r.iid # 0
        OBVIOUS
      <4>1. q \in DOMAIN packets
        BY <1>5 DEF Blank, Uses
      <4> QED BY <1>2, <2>1, <4>1 DEF Began
    <3>4. \A x \in Items : table'[x] # 0 =>
            \E q \in DOMAIN packets' :
              q >= s /\ \E e \in packets'[q].entries : Use(e) = Ref(table', x)
      BY <1>2, <2>1 DEF Began
    <3> QED BY <3>1, <3>2, <3>3, <3>4 DEF Began, Ref
  <2> QED BY <2>1 DEF InOrder, Current
<1>12. Unsealed'
  <2>1. sealed' <= Len(packets')
    BY <1>1, <1>3 DEF InOrder, Unsealed, TypeOK
  <2> QED BY <1>2, <1>5, <2>1 DEF InOrder, Unsealed
<1> QED BY <1>6, <1>7, <1>8, <1>9, <1>10, <1>11, <1>12 DEF InOrder

(* Nor does sealing, with the dictionary kept or forgotten.                 *)
LEMMA SealingKeepsOrder ==
  ASSUME TypeOK, InOrder, packets' = packets, sealed' \in Nat, sealed <= sealed',
         sealed' <= Len(packets),
         \/ table' = table /\ emittedCleared' = emittedCleared
         \/ /\ \A x \in Items : table'[x] = 0
            /\ ~emittedCleared' /\ sealed' = Len(packets)
  PROVE  InOrder'
<1>1. /\ DOMAIN packets = 1..Len(packets) /\ Len(packets) \in Nat /\ sealed \in Nat
  BY LenProperties DEF TypeOK
<1>2. Headed' /\ Sequenced'
  BY DEF InOrder, Headed, Sequenced
<1>3. \A i : Since(i)' = Since(i)
  BY DEF Since
<1>4. Resolved' /\ OneMeaning'
  BY <1>3 DEF InOrder, Resolved, OneMeaning
<1>5. TableInjective'
  BY DEF InOrder, TableInjective
<1>6. Current'
  <2>1. CASE table' = table /\ emittedCleared' = emittedCleared
    <3>1. \A s \in DOMAIN packets : Began(s) => Began(s)'
      BY <1>1, <2>1 DEF Began, Ref
    <3> QED BY <2>1, <3>1 DEF InOrder, Current
  <2>2. CASE (\A x \in Items : table'[x] = 0) /\ ~emittedCleared'
    BY <2>2 DEF Current
  <2> QED BY <2>1, <2>2
<1>7. Unsealed'
  <2>1. \A k \in DOMAIN packets : k > sealed' => k > sealed
    BY <1>1
  <2>2. \A k \in DOMAIN packets : k > sealed' + 1 => k > sealed + 1
    BY <1>1
  <2>3. \A k \in DOMAIN packets : ~(k > Len(packets))
    BY <1>1
  <2>4. ASSUME NEW k \in DOMAIN packets, k > sealed' + 1 \/ (~emittedCleared' /\ k > sealed')
        PROVE  Blank(packets[k])
    BY <1>1, <2>1, <2>2, <2>3, <2>4 DEF InOrder, Unsealed
  <2> QED BY <2>4 DEF Unsealed
<1> QED BY <1>2, <1>4, <1>5, <1>6, <1>7 DEF InOrder

LEMMA ClosedSteps ==
  ASSUME Next
  PROVE  \/ Describe \/ AddOther \/ Reset \/ NewBuilder
         \/ \E xs \in Seq(Items) : Closed(xs) /\ AddEvent(xs)
         \/ \E p \in DOMAIN packets, xs \in Seq(Items) : Closed(xs) /\ Annotate(p, xs)
<1> USE BuilderAssumption
<1>1. <<>> \in Seq(Items) /\ Closed(<<>>)
  BY EmptySeq DEF Closed
<1>2. \A x \in Names \cup Locations :
        <<x>> \in Seq(Items) /\ DOMAIN <<x>> = {1} /\ <<x>>[1] = x /\ Closed(<<x>>)
  BY PartsAssumption DEF Closed
<1>3. ASSUME NEW name \in Names, NEW categories \in Categories
      PROVE  <<name>> \o categories \in Seq(Items) /\ Closed(<<name>> \o categories)
  <2> DEFINE xs == <<name>> \o categories
  <2>1. <<name>> \in Seq(Items) /\ categories \in Seq(Items)
        /\ Len(<<name>>) = 1 /\ DOMAIN categories = 1..Len(categories) /\ Len(categories) \in Nat
    BY <1>2, LenProperties
  <2>2. xs \in Seq(Items) /\ DOMAIN xs = 1..Len(xs) /\ Len(xs) = 1 + Len(categories)
        /\ \A i \in 1..Len(xs) :
             xs[i] = IF i <= 1 THEN <<name>>[i] ELSE categories[i - 1]
    BY <2>1, ConcatProperties, LenProperties
  <2>3. ASSUME NEW i \in DOMAIN xs PROVE Parts[xs[i]] = {}
    <3>1. CASE i = 1
      BY <1>2, <2>2, <3>1, PartsAssumption
    <3>2. CASE i # 1
      <4>1. xs[i] = categories[i - 1] /\ i - 1 \in DOMAIN categories
        BY <2>1, <2>2, <3>2
      <4> QED BY <4>1, PartsAssumption
    <3> QED BY <3>1, <3>2
  <2> QED BY <2>2, <2>3 DEF Closed
<1>4. \A xs \in Categories \cup Annotations : xs \in Seq(Items) /\ Closed(xs)
  BY PartsAssumption DEF Closed
<1>5. \A xs \in Callstacks : xs \in Seq(Items) /\ Closed(xs)
  BY PartsAssumption DEF Closed, Raises, New
<1>6. CASE \E name \in Names, categories \in Categories :
             \/ BeginSlice(name, categories) \/ AddInstantEvent(name, categories)
             \/ AddFlow(name, categories) \/ AddLegacyEvent(name, categories)
  BY <1>3, <1>6 DEF BeginSlice, AddInstantEvent, AddFlow, AddLegacyEvent
<1>7. CASE \E p \in DOMAIN packets :
             \/ \E categories \in Categories : AddCategories(p, categories)
             \/ \E annotation \in Annotations : AddAnnotation(p, annotation)
             \/ \E location \in Locations : SetSourceLocation(p, location)
             \/ \E callstack \in Callstacks : SetCallstack(p, callstack)
  BY <1>2, <1>4, <1>5, <1>7 DEF AddCategories, AddAnnotation, SetSourceLocation, SetCallstack
<1>8. CASE EndSlice \/ UpdateCounter
  BY <1>1, <1>8 DEF EndSlice, UpdateCounter
<1>9. CASE \/ AddProcess \/ AddThread \/ AddTrack \/ AddCounterTrack
           \/ SetDefaultTimestampClock \/ AddClockSnapshot \/ AddFrameTimelineEvent
           \/ Reset \/ NewBuilder
  BY <1>9 DEF AddProcess, AddThread, AddTrack, AddCounterTrack, SetDefaultTimestampClock,
     AddClockSnapshot, AddFrameTimelineEvent
<1> QED BY <1>6, <1>7, <1>8, <1>9 DEF Next

LEMMA AddEventKeepsOrder ==
  ASSUME TypeOK, TypeOK', InOrder, NEW xs \in Seq(Items), Closed(xs), AddEvent(xs), ~failed'
  PROVE  InOrder'
<1>1. /\ DOMAIN packets = 1..Len(packets) /\ Len(packets) \in Nat /\ packets \in Seq(PacketType)
      /\ sealed \in Nat
  BY LenProperties DEF TypeOK
<1>2. ~NameFails(xs) /\ sealed <= Len(packets)
  BY DEF AddEvent, InOrder, Unsealed
<1>3. (~NameFails(xs)) = TRUE
  BY <1>2
<1> DEFINE old == Packet(TRUE, TRUE)
<1>4. old \in PacketType /\ old.sequenced /\ Blank(old)
  BY PacketTyped DEF Packet, Blank
<1>5. packets' = Append(packets, Interned(old, xs))
  BY <1>3 DEF AddEvent
<1> HIDE DEF old
<1>6. PICK p : p = Len(packets) + 1
  OBVIOUS
<1>7. Interned(old, xs) \in PacketType
  BY <1>4, InternedType
<1>8. /\ DOMAIN packets' = DOMAIN packets \cup {p}
      /\ packets'[p] = Interned(old, xs)
      /\ \A k \in DOMAIN packets : packets'[k] = packets[k]
  <2> DEFINE new == Interned(old, xs)
  <2> HIDE DEF new
  <2>1. new \in PacketType /\ packets' = Append(packets, new)
    BY <1>5, <1>7 DEF new
  <2> QED BY <1>1, <1>6, <2>1, Appended DEF new
<1>9. CASE xs = <<>>
  <2>1. table' = table
    <3>1. Allocated(xs) = {}
      BY <1>9 DEF Allocated, New
    <3>2. \A x \in Items : IidAfter(xs)[x] = table[x]
      BY <3>1, IidsAfter
    <3>3. IidAfter(xs) \in [Items -> Nat] /\ table \in [Items -> Nat]
      BY IidsAfter DEF TypeOK
    <3>4. IidAfter(xs) = table
      BY <3>2, <3>3
    <3> QED BY <3>4 DEF AddEvent, Intern
  <2>2. emittedCleared' = emittedCleared
    <3>1. emittedCleared' = (emittedCleared \/ xs # <<>>) /\ emittedCleared \in BOOLEAN
      BY DEF AddEvent, Intern, TypeOK
    <3>2. ~(xs # <<>>)
      BY <1>9
    <3> HIDE <1>9
    <3> QED BY <3>1, <3>2
  <2>3. sealed' = sealed
    BY <1>9 DEF AddEvent
  <2>4. Interned(old, xs) = old
    BY <1>9 DEF Interned
  <2>5. packets'[p] = old
    BY <1>8, <2>4
  <2> QED BY <1>4, <1>6, <1>8, <2>1, <2>2, <2>3, <2>5, BlankKeepsOrder
<1>10. CASE xs # <<>>
  <2>1. sealed' = p - 1
    BY <1>1, <1>6, <1>10 DEF AddEvent
  <2>2. p \in Nat /\ p > sealed /\ p <= Len(packets) + 1 /\ p \notin DOMAIN packets
    BY <1>1, <1>2, <1>6
  <2>3. Intern(xs)
    BY DEF AddEvent
  <2> QED BY <1>4, <1>8, <1>10, <2>1, <2>2, <2>3, InternKeepsOrder
<1> QED BY <1>9, <1>10

LEMMA AnnotateKeepsOrder ==
  ASSUME TypeOK, TypeOK', InOrder, NEW p \in DOMAIN packets, NEW xs \in Seq(Items), Closed(xs),
         Annotate(p, xs), ~late'
  PROVE  InOrder'
<1>1. /\ DOMAIN packets = 1..Len(packets) /\ Len(packets) \in Nat /\ packets \in Seq(PacketType)
      /\ sealed \in Nat /\ sealed' \in Nat
  BY LenProperties DEF TypeOK
<1>2. p > sealed
  <2>1. ~(p <= sealed)
    BY Zenon DEF Annotate
  <2> QED BY <1>1, <2>1
<1>3. sealed' = p - 1
  BY <1>1, <1>2 DEF Annotate
<1> DEFINE old == packets[p]
<1>4. old \in PacketType /\ old.sequenced
  BY <1>1, ElementOfSeq DEF Annotate
<1>5. /\ DOMAIN packets' = DOMAIN packets \cup {p}
      /\ packets'[p] = Interned(old, xs)
      /\ \A k \in DOMAIN packets : k # p => packets'[k] = packets[k]
  BY DEF Annotate
<1>6. CASE xs = <<>>
  <2>1. packets' = packets
    <3>1. Interned(packets[p], xs) = packets[p]
      BY <1>6 DEF Interned
    <3>2. packets' = [packets EXCEPT ![p] = packets[p]]
      BY <3>1 DEF Annotate
    <3> QED BY <1>1, <3>2
  <2>2. table' = table
    <3>1. Allocated(xs) = {}
      BY <1>6 DEF Allocated, New
    <3>2. \A x \in Items : IidAfter(xs)[x] = table[x]
      BY <3>1, IidsAfter
    <3>3. IidAfter(xs) \in [Items -> Nat] /\ table \in [Items -> Nat]
      BY IidsAfter DEF TypeOK
    <3>4. IidAfter(xs) = table
      BY <3>2, <3>3
    <3> QED BY <3>4 DEF Annotate, Intern
  <2>3. emittedCleared' = emittedCleared
    <3>1. emittedCleared' = (emittedCleared \/ xs # <<>>) /\ emittedCleared \in BOOLEAN
      BY DEF Annotate, Intern, TypeOK
    <3>2. ~(xs # <<>>)
      BY <1>6
    <3> HIDE <1>6
    <3> QED BY <3>1, <3>2
  <2>4. sealed <= sealed' /\ sealed' <= Len(packets)
    BY <1>1, <1>2, <1>3
  <2> QED BY <1>1, <2>1, <2>2, <2>3, <2>4, SealingKeepsOrder
<1>7. CASE xs # <<>>
  <2>1. p \in Nat /\ p <= Len(packets) + 1
    BY <1>1
  <2>2. Intern(xs)
    BY DEF Annotate
  <2> HIDE DEF old
  <2>3. IF p \in DOMAIN packets THEN old = packets[p] ELSE Blank(old)
    BY DEF old
  <2> QED BY <1>2, <1>3, <1>4, <1>5, <1>7, <2>1, <2>2, <2>3, InternKeepsOrder
<1> QED BY <1>6, <1>7

LEMMA DescribeKeepsOrder ==
  ASSUME TypeOK, TypeOK', InOrder, Describe \/ AddOther
  PROVE  InOrder'
<1>1. packets \in Seq(PacketType)
  BY DEF TypeOK
<1>2. PICK b \in BOOLEAN : packets' = Append(packets, Packet(b, FALSE))
  BY DEF Describe, AddOther
<1>3. PICK new \in PacketType : packets' = Append(packets, new) /\ Blank(new)
  BY <1>2, PacketTyped DEF Blank, Packet
<1>4. /\ DOMAIN packets' = DOMAIN packets \cup {Len(packets) + 1}
      /\ packets'[Len(packets) + 1] = new
      /\ \A k \in DOMAIN packets : packets'[k] = packets[k]
  BY <1>1, <1>3, Appended
<1>5. UNCHANGED <<table, emittedCleared, sealed>>
  BY DEF Describe, AddOther, dictionary
<1> QED BY <1>3, <1>4, <1>5, BlankKeepsOrder

LEMMA OrderStep == OrderInv /\ [Next]_vars => OrderInv'
<1> SUFFICES ASSUME OrderInv, [Next]_vars PROVE OrderInv'
  OBVIOUS
<1>1. TypeOK /\ TypeOK'
  BY TypeStep DEF OrderInv
<1> SUFFICES ASSUME ~late', ~failed' PROVE InOrder'
  BY <1>1 DEF OrderInv
<1>2. ASSUME late' = late, failed' = failed PROVE InOrder
  BY <1>2 DEF OrderInv
<1>3. CASE Describe \/ AddOther
  <2>1. late' = late /\ failed' = failed
    BY <1>3 DEF Describe, AddOther
  <2> QED BY <1>1, <1>2, <1>3, <2>1, DescribeKeepsOrder
<1>4. CASE Reset \/ NewBuilder
  <2>1. /\ late' = late /\ failed' = failed /\ packets' = packets
        /\ (\A x \in Items : table'[x] = 0) /\ ~emittedCleared' /\ sealed' = Len(packets)
    BY <1>4 DEF Reset, NewBuilder, Cleared
  <2>2. InOrder
    BY <1>2, <2>1
  <2>3. sealed' \in Nat /\ sealed <= sealed' /\ sealed' <= Len(packets)
    BY <1>1, <2>1, <2>2 DEF InOrder, Unsealed, TypeOK
  <2> QED BY <1>1, <2>1, <2>2, <2>3, SealingKeepsOrder
<1>5. ASSUME NEW xs \in Seq(Items), Closed(xs), AddEvent(xs) PROVE InOrder'
  <2>1. ~late /\ ~failed
    BY <1>5 DEF AddEvent
  <2> QED BY <1>1, <1>5, <2>1, AddEventKeepsOrder DEF OrderInv
<1>6. ASSUME NEW p \in DOMAIN packets, NEW xs \in Seq(Items), Closed(xs), Annotate(p, xs)
      PROVE  InOrder'
  <2>1. ~late /\ ~failed
    BY <1>6 DEF Annotate
  <2> QED BY <1>1, <1>6, <2>1, AnnotateKeepsOrder DEF OrderInv
<1>7. CASE UNCHANGED vars
  <2>1. UNCHANGED <<packets, table, emittedCleared, sealed, late, failed>>
    BY <1>7 DEF vars, dictionary
  <2>2. InOrder
    BY <1>2, <2>1
  <2>3. sealed' \in Nat /\ sealed <= sealed' /\ sealed' <= Len(packets)
    BY <1>1, <2>1, <2>2 DEF InOrder, Unsealed, TypeOK
  <2> QED BY <1>1, <2>1, <2>2, <2>3, SealingKeepsOrder
<1> QED BY <1>3, <1>4, <1>5, <1>6, <1>7, ClosedSteps

LEMMA OrderInit == Init => OrderInv
<1> SUFFICES ASSUME Init PROVE OrderInv
  OBVIOUS
<1>1. TypeOK
  BY InitTyped
<1>2. packets = <<>> /\ sealed = 0 /\ emittedCleared = FALSE /\ \A x \in Items : table[x] = 0
  BY DEF Init, Cleared
<1>3. DOMAIN packets = {} /\ Len(packets) = 0
  BY <1>2
<1> QED BY <1>1, <1>2, <1>3 DEF OrderInv, InOrder, Headed, Resolved, OneMeaning, Sequenced,
        TableInjective, Current, Unsealed

LEMMA SequencedTyped ==
  ASSUME TypeOK, NEW k \in DOMAIN packets
  PROVE  packets[k].sequenced \in BOOLEAN
<1>1. packets[k] \in PacketType
  BY LenProperties, ElementOfSeq DEF TypeOK
<1>2. \A p \in PacketType : p.sequenced \in BOOLEAN
  BY DEF PacketType
<1> QED BY <1>1, <1>2

(* No packet is missing after one that is visible, and none of those that   *)
(* follow clears the tables: the visible packets belong to one epoch.       *)
LEMMA Window ==
  ASSUME TypeOK, NEW i \in DOMAIN packets, NEW lost \in SUBSET DOMAIN packets, i \notin lost,
         NEW m \in Visible(i, lost), NEW n \in 1..i, m < n, SameSequence(n, i)
  PROVE  n \notin lost /\ n \in Visible(i, lost) /\ ~packets[n].clears
<1>1. /\ DOMAIN packets = 1..Len(packets) /\ Len(packets) \in Nat
      /\ i \in Nat /\ n \in Nat /\ m \in Nat /\ m \in 1..i
      /\ \A c \in Clearing(i, lost) : c <= m
  BY LenProperties DEF TypeOK, Visible, Read
<1>2. n \notin lost
  <2> SUFFICES ASSUME n \in lost PROVE FALSE
    OBVIOUS
  <2> DEFINE S == {k \in (n + 1)..i : SameSequence(k, i) /\ k \notin lost}
  <2>1. S \in SUBSET Nat /\ i \in S
    BY <1>1 DEF SameSequence
  <2>2. PICK k \in S : \A l \in S : k <= l
    BY <2>1, Least
  <2>3. k \in (n + 1)..i /\ SameSequence(k, i) /\ k \notin lost
    BY <2>2
  <2>4. ASSUME NEW l \in (n + 1)..(k - 1), SameSequence(l, k) PROVE l \in lost
    <3>1. l \in (n + 1)..i /\ ~(k <= l)
      BY <1>1, <2>3
    <3>2. SameSequence(l, i)
      BY <2>3, <2>4 DEF SameSequence
    <3> QED BY <2>2, <3>1, <3>2
  <2>5. SameSequence(n, k) /\ n < k
    BY <1>1, <2>3 DEF SameSequence
  <2>6. PreviousDropped(k, lost)
    BY <2>4, <2>5 DEF PreviousDropped
  <2>7. k \in Read(i, lost)
    BY <1>1, <2>3 DEF Read
  <2>8. k \in Clearing(i, lost)
    BY <2>6, <2>7 DEF Clearing
  <2> QED BY <1>1, <2>3, <2>8
<1>3. n \in Read(i, lost)
  BY <1>2 DEF Read
<1>4. ~packets[n].clears
  <2> SUFFICES ASSUME packets[n].clears PROVE FALSE
    OBVIOUS
  <2>1. n \in Clearing(i, lost)
    BY <1>3 DEF Clearing
  <2> QED BY <1>1, <2>1
<1>5. n \in Visible(i, lost)
  <2>1. \A c \in Clearing(i, lost) : c \in Nat
    BY <1>1 DEF Clearing, Read
  <2>2. \A c \in Clearing(i, lost) : c <= n
    BY <1>1, <2>1
  <2> QED BY <1>3, <2>2 DEF Visible
<1> QED BY <1>2, <1>4, <1>5

(* What is visible is no later than the packet read, which is visible.      *)
LEMMA VisibleFacts ==
  ASSUME TypeOK, NEW i \in DOMAIN packets, NEW lost \in SUBSET DOMAIN packets
  PROVE  /\ \A m \in Visible(i, lost) :
              m \in DOMAIN packets /\ m \in 1..i /\ m \notin lost /\ SameSequence(m, i)
         /\ i \notin lost => i \in Visible(i, lost)
<1>1. DOMAIN packets = 1..Len(packets) /\ Len(packets) \in Nat
  BY LenProperties DEF TypeOK
<1>2. \A m \in Visible(i, lost) :
        m \in DOMAIN packets /\ m \in 1..i /\ m \notin lost /\ SameSequence(m, i)
  BY <1>1 DEF Visible, Read
<1>3. i \notin lost => i \in Visible(i, lost)
  BY <1>1 DEF Visible, Read, Clearing, SameSequence
<1> QED BY <1>2, <1>3

(* Two visible packets with content are in one epoch, so ids agree.         *)
LEMMA VisibleAgree ==
  ASSUME TypeOK, InOrder, NEW i \in DOMAIN packets, NEW lost \in SUBSET DOMAIN packets,
         i \notin lost, NEW m \in Visible(i, lost), NEW n \in Visible(i, lost),
         NEW r \in Uses(packets[m]), NEW s \in Uses(packets[n]),
         r.kind = s.kind, r.iid = s.iid
  PROVE  r.item = s.item
<1>1. DOMAIN packets = 1..Len(packets) /\ Len(packets) \in Nat /\ packets \in Seq(PacketType)
  BY LenProperties DEF TypeOK
<1>2. \A k \in DOMAIN packets : packets[k].sequenced \in BOOLEAN
  BY SequencedTyped
<1>3. /\ m \in DOMAIN packets /\ m \in 1..i /\ SameSequence(m, i)
      /\ n \in DOMAIN packets /\ n \in 1..i /\ SameSequence(n, i)
  BY VisibleFacts
<1>4. packets[m].sequenced /\ packets[n].sequenced
  BY <1>3 DEF InOrder, Sequenced, Blank, Uses
<1>5. ASSUME NEW a \in Visible(i, lost), NEW b \in Visible(i, lost), a <= b
      PROVE  a \in Since(b)
  <2>1. a \in 1..i /\ b \in 1..i /\ i \in Nat
    BY <1>1, VisibleFacts
  <2>2. ASSUME NEW c \in (a + 1)..b PROVE ~packets[c].clears
    <3>1. c \in 1..i /\ a < c /\ c \in DOMAIN packets
      BY <1>1, <2>1
    <3>2. CASE packets[c].sequenced
      <4>1. packets[i].sequenced
        BY <1>3, <1>4 DEF SameSequence
      <4>2. SameSequence(c, i)
        BY <1>2, <3>1, <3>2, <4>1 DEF SameSequence
      <4> QED BY <3>1, <4>2, Window
    <3>3. CASE ~packets[c].sequenced
      BY <3>1, <3>3 DEF InOrder, Sequenced, Blank
    <3> QED BY <3>2, <3>3
  <2> QED BY <1>5, <2>1, <2>2 DEF Since
<1>6. m <= n \/ n <= m
  BY <1>1, <1>3
<1>7. m \in Since(n) \/ n \in Since(m)
  BY <1>5, <1>6
<1>8. CASE m \in Since(n)
  BY <1>3, <1>8 DEF InOrder, OneMeaning
<1>9. CASE n \in Since(m)
  BY <1>3, <1>9 DEF InOrder, OneMeaning
<1> QED BY <1>7, <1>8, <1>9

(* Where the state is valid, the whole epoch so far is visible, and what is *)
(* needed is defined.                                                       *)
LEMMA VisibleDefines ==
  ASSUME TypeOK, InOrder, NEW i \in DOMAIN packets, NEW lost \in SUBSET DOMAIN packets,
         i \notin lost, Valid(i, lost), NEW m \in Visible(i, lost), NEW r \in Needed(packets[m])
  PROVE  \E d \in Visible(i, lost) : \E e \in packets[d].entries : Use(e) = r
<1>1. DOMAIN packets = 1..Len(packets) /\ Len(packets) \in Nat /\ packets \in Seq(PacketType)
  BY LenProperties DEF TypeOK
<1>2. \A k \in DOMAIN packets : packets[k].sequenced \in BOOLEAN
  BY SequencedTyped
<1>3. m \in DOMAIN packets /\ m \in 1..i /\ SameSequence(m, i)
  BY VisibleFacts
<1>4. packets[m].sequenced
  BY <1>3 DEF InOrder, Sequenced, Blank, Needed
<1>5. PICK c \in Clearing(i, lost) \cap Visible(i, lost) : packets[c].clears
  BY DEF Valid
<1>6. PICK d \in Since(m) : \E e \in packets[d].entries : Use(e) = r
  BY <1>3 DEF InOrder, Resolved
<1>7. c <= m /\ c \in 1..i
  BY <1>5, VisibleFacts DEF Visible
<1>8. d \in 1..m /\ d \in 1..i /\ d \in DOMAIN packets
  BY <1>1, <1>3 DEF Since
<1>9. c <= d
  <2> SUFFICES ASSUME d < c PROVE FALSE
    BY <1>7, <1>8
  <2>1. c \in (d + 1)..m
    BY <1>3, <1>7, <1>8
  <2> QED BY <1>5, <2>1 DEF Since
<1>10. packets[d].sequenced
  BY <1>6, <1>8 DEF InOrder, Sequenced, Blank
<1>11. SameSequence(d, i)
  BY <1>2, <1>3, <1>4, <1>8, <1>10 DEF SameSequence
<1>12. d \in Visible(i, lost)
  <2>1. CASE d = c
    BY <1>5, <2>1
  <2>2. CASE c < d
    BY <1>5, <1>8, <1>11, <2>2, Window
  <2> QED BY <1>7, <1>8, <1>9, <2>1, <2>2
<1> QED BY <1>6, <1>12

(* What an event refers to is used by a visible packet.                     *)
LEMMA ReferencesAreNeeded ==
  ASSUME TypeOK, NEW i \in DOMAIN packets, NEW lost \in SUBSET DOMAIN packets, i \notin lost,
         NEW r \in References(i, lost)
  PROVE  \E m \in Visible(i, lost) : r \in Needed(packets[m])
<1>1. CASE r \in packets[i].refs
  BY <1>1, VisibleFacts DEF Needed
<1>2. CASE r \in VisibleParts(i, lost)
  BY <1>2 DEF VisibleParts, Needed
<1> QED BY <1>1, <1>2 DEF References

LEMMA InOrderReads ==
  ASSUME TypeOK, InOrder, NEW i \in DOMAIN packets, NEW lost \in SUBSET DOMAIN packets,
         i \notin lost
  PROVE  /\ Valid(i, lost) => ReadsBack(i, lost)
         /\ (packets[i].needs /\ lost = {}) => Valid(i, lost)
         /\ \A r \in References(i, lost) : \A e \in Meaning(i, lost, r) : e.item = r.item
<1>1. DOMAIN packets = 1..Len(packets) /\ Len(packets) \in Nat
      /\ \A k \in DOMAIN packets : packets[k].sequenced \in BOOLEAN
  BY SequencedTyped, LenProperties DEF TypeOK
<1>2. ASSUME NEW r \in References(i, lost), NEW e \in Meaning(i, lost, r)
      PROVE  e.item = r.item
  <2>1. PICK m \in Visible(i, lost) : r \in Needed(packets[m])
    BY ReferencesAreNeeded
  <2>2. PICK n \in Visible(i, lost) : e \in packets[n].entries /\ e.kind = r.kind /\ e.iid = r.iid
    BY DEF Meaning, Defines
  <2>3. r \in Uses(packets[m]) /\ Use(e) \in Uses(packets[n])
    BY <2>1, <2>2 DEF Needed, Uses
  <2>4. Use(e).kind = r.kind /\ Use(e).iid = r.iid /\ Use(e).item = e.item
    BY <2>2 DEF Use
  <2> QED BY <2>3, <2>4, VisibleAgree
<1>3. ASSUME Valid(i, lost), NEW r \in References(i, lost)
      PROVE  {e.item : e \in Meaning(i, lost, r)} = {r.item}
  <2>1. PICK m \in Visible(i, lost) : r \in Needed(packets[m])
    BY ReferencesAreNeeded
  <2>2. PICK d \in Visible(i, lost) : \E e \in packets[d].entries : Use(e) = r
    BY <1>3, <2>1, VisibleDefines
  <2> DEFINE S == {n \in Visible(i, lost) : Defines(n, r) # {}}
  <2>3. d \in S
    BY <2>2 DEF Use, Defines
  <2>4. S \in SUBSET (0..Len(packets))
    BY <1>1, VisibleFacts
  <2>5. PICK n \in S : \A l \in S : l <= n
    BY <1>1, <2>3, <2>4, Greatest
  <2>6. \A l \in Visible(i, lost) : l > n => Defines(l, r) = {}
    <3> SUFFICES ASSUME NEW l \in Visible(i, lost), l > n, Defines(l, r) # {} PROVE FALSE
      OBVIOUS
    <3>1. l \in S
      OBVIOUS
    <3>2. l \in Nat /\ n \in Nat
      BY <2>4, <3>1
    <3> QED BY <2>5, <3>1, <3>2
  <2>7. Defines(n, r) \subseteq Meaning(i, lost, r)
    BY <2>5, <2>6 DEF Meaning
  <2>8. Meaning(i, lost, r) # {}
    BY <2>5, <2>7
  <2> QED BY <1>2, <2>8
<1>4. ASSUME packets[i].needs, lost = {} PROVE Valid(i, lost)
  <2>1. PICK c \in 1..i : packets[c].clears
    BY <1>4 DEF InOrder, Headed, Blank
  <2>2. packets[i].sequenced /\ packets[c].sequenced /\ c \in DOMAIN packets
    BY <1>1, <1>4, <2>1 DEF InOrder, Sequenced, Blank
  <2>3. c \in Read(i, lost)
    BY <1>1, <1>4, <2>2 DEF Read, SameSequence
  <2>4. c \in Clearing(i, lost)
    BY <2>1, <2>3 DEF Clearing
  <2>5. \A k : ~PreviousDropped(k, lost)
    BY <1>4 DEF PreviousDropped
  <2>6. Clearing(i, lost) \in SUBSET (0..Len(packets))
    BY <1>1 DEF Clearing, Read
  <2>7. PICK k \in Clearing(i, lost) : \A l \in Clearing(i, lost) : l <= k
    BY <1>1, <2>4, <2>6, Greatest
  <2>8. packets[k].clears /\ k \in Visible(i, lost)
    BY <2>5, <2>7 DEF Clearing, Visible
  <2> QED BY <2>7, <2>8 DEF Valid
<1> QED BY <1>2, <1>3, <1>4 DEF ReadsBack

(* Packets annotated in order by calls that did not fail read back, also    *)
(* from the concatenated traces of several builders and with any packets    *)
(* lost: wholly where the reader says that its state is valid, which it     *)
(* says of every event unless packets were lost; and nothing is misread.    *)
THEOREM OrderedPacketsReadBack == Spec => []InOrderReadsBack
<1>1. OrderInv => InOrderReadsBack
  BY InOrderReads DEF OrderInv, InOrderReadsBack
<1> QED BY <1>1, OrderInit, OrderStep, PTL DEF Spec
=============================================================================
