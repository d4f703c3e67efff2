---------------------------- MODULE TraceBuilder ----------------------------
(***************************************************************************)
(* The Python trace builder (builder.py, annotations.py), its interning    *)
(* state (interning.py) and the reader that resolves what it wrote         *)
(* (reader.py).                                                            *)
(*                                                                         *)
(* A builder appends packets to a trace.  Strings, locations, frames and   *)
(* callstacks (items) are written once into the interned data of the       *)
(* packet that meets them first; events refer to them by id.  Methods      *)
(* return a wrapper through which a packet that is already in the trace    *)
(* can still be annotated.  Traces of several builders, which all use one  *)
(* packet sequence, may be concatenated.  The reader goes through a trace  *)
(* of which a collector may have lost packets.                             *)
(***************************************************************************)
EXTENDS Integers, FiniteSets, Sequences

CONSTANTS
  Items,          \* what can be interned
  Kinds,          \* the dictionaries: event names, categories, frames, ...
  Kind,           \* the dictionary of an item
  EventKinds,     \* the dictionaries whose ids an event itself holds
  ScalarKinds,    \* those of which it holds one at most
  Parts,          \* the items that the dictionary entry of an item refers to
  Unencodable,    \* strings that protobuf refuses to store
  Names,          \* names of events
  Categories,     \* lists of categories
  Annotations,    \* what one annotation interns: names and string values
  Locations,      \* source locations
  Callstacks,     \* what one callstack interns
  MaxPackets, MaxNotes, MaxResets, MaxBuilders    \* bounds

ASSUME BuilderAssumption ==
  /\ IsFiniteSet(Items)
  /\ Kind \in [Items -> Kinds]
  /\ Parts \in [Items -> SUBSET Items]
  /\ ScalarKinds \subseteq EventKinds /\ EventKinds \subseteq Kinds
  /\ Names \subseteq Items /\ Locations \subseteq Items
  /\ Categories \cup Annotations \cup Callstacks \subseteq Seq(Items)
  /\ MaxPackets \in Nat /\ MaxNotes \in Nat /\ MaxResets \in Nat /\ MaxBuilders \in Nat

(* Only stacks consist of other items.  What a frame or a stack consists of *)
(* is interned by the same call, from strings that can be stored.           *)
ASSUME PartsAssumption ==
  /\ \A x \in Names \cup Locations : Parts[x] = {}
  /\ \A xs \in Categories \cup Annotations : \A i \in DOMAIN xs : Parts[xs[i]] = {}
  /\ \A xs \in Callstacks : \A i \in DOMAIN xs :
       /\ xs[i] \notin Unencodable
       /\ \A y \in Parts[xs[i]] : \E j \in DOMAIN xs : xs[j] = y

VARIABLES
  packets,        \* the trace
  table,          \* InterningState: the id of each item, 0 for none
  nextIid,        \* InterningState: the next id of each dictionary
  emittedCleared, \* InterningState._emitted_incremental_state_cleared
  lastUuid,       \* PerfettoTraceBuilder.last_track_uuid
  first,          \* index of the current builder's first packet
  builders, resets, notes,  \* how many so far; notes: calls on wrappers
  sealed,         \* history: up to here packets are no longer to be annotated
  late,           \* history: a packet was annotated nevertheless
  failed          \* history: an event was left without its name

dictionary == <<table, nextIid, emittedCleared>>
bounds == <<first, builders, resets>>
vars == <<packets, dictionary, lastUuid, bounds, notes, sealed, late, failed>>

----------------------------------------------------------------------------
(* The packet a call adds to the trace.  `sequenced` says that it has the   *)
(* builder's trusted packet sequence id; without, it belongs to sequence 0. *)
Packet(sequenced, event) ==
  [sequenced |-> sequenced, event |-> event, needs |-> FALSE, clears |-> FALSE,
   entries |-> {}, refs |-> {}]

(* The positions of `xs` at which an id is allocated: first uses of items   *)
(* that have none.  Protobuf raises when an unencodable string is stored:   *)
(* its id has been allocated, the rest of the call is not run.              *)
New(xs) == {i \in DOMAIN xs : table[xs[i]] = 0 /\ \A j \in 1..(i - 1) : xs[j] # xs[i]}
Raises(xs) == {i \in New(xs) : xs[i] \in Unencodable}
Reached(xs) == {i \in DOMAIN xs : \A j \in Raises(xs) : i <= j}
Allocated(xs) == New(xs) \cap Reached(xs)

NewIid(xs, i) ==
  nextIid[Kind[xs[i]]]
    + Cardinality({j \in Allocated(xs) : j < i /\ Kind[xs[j]] = Kind[xs[i]]})

IidAfter(xs) ==
  [x \in Items |->
     IF \E i \in Allocated(xs) : xs[i] = x
     THEN NewIid(xs, CHOOSE i \in Allocated(xs) : xs[i] = x)
     ELSE table[x]]

NextAfter_StoredOnly(xs) ==
  [k \in Kinds |->
     nextIid[k] + Cardinality({i \in Allocated(xs) \ Raises(xs) : Kind[xs[i]] = k})]
NextAfter(xs) ==
  [k \in Kinds |->
     nextIid[k] + Cardinality({i \in Allocated(xs) : Kind[xs[i]] = k})]

Ref(iids, x) == [kind |-> Kind[x], iid |-> iids[x], item |-> x]
Entry(iids, x) ==
  [kind |-> Kind[x], iid |-> iids[x], item |-> x,
   parts |-> {Ref(iids, y) : y \in Parts[x]}]

(* The ids among those of `xs` that the event itself is given.              *)
Given(xs) ==
  {Ref(IidAfter(xs), xs[i]) :
     i \in {n \in Reached(xs) \ Raises(xs) : Kind[xs[n]] \in EventKinds}}
Replaced(refs, xs) ==
  {r \in refs : r.kind \in ScalarKinds /\ \E g \in Given(xs) : g.kind = r.kind}

(* `packet` after the items `xs` were interned for it: flags, dictionary    *)
(* entries, and the ids the event holds.                                    *)
Interned(packet, xs) ==
  IF xs = <<>> THEN packet
  ELSE [packet EXCEPT
          !.needs = TRUE,
          !.clears = @ \/ ~emittedCleared,
          !.entries = @ \cup {Entry(IidAfter(xs), xs[i]) : i \in Allocated(xs)},
          !.refs = (@ \ Replaced(@, xs)) \cup Given(xs)]

Intern(xs) ==
  /\ table' = IidAfter(xs)
  /\ nextIid' = NextAfter(xs)
  /\ emittedCleared' = (emittedCleared \/ xs # <<>>)

----------------------------------------------------------------------------
(* A track is given the next uuid.  Its descriptor belongs to no sequence.  *)
Describe ==
  /\ Len(packets) < MaxPackets
  /\ lastUuid' = lastUuid + 1
  /\ packets' = Append(packets, Packet(FALSE, FALSE))
  /\ UNCHANGED <<dictionary, bounds, notes, sealed, late, failed>>

AddProcess == Describe
AddThread == Describe
AddTrack == Describe
AddCounterTrack == Describe

(* A packet that needs no state of its sequence.                            *)
AddOther ==
  /\ Len(packets) < MaxPackets
  /\ packets' = Append(packets, Packet(TRUE, FALSE))
  /\ UNCHANGED <<dictionary, lastUuid, bounds, notes, sealed, late, failed>>

SetDefaultTimestampClock == AddOther
AddClockSnapshot == AddOther
AddFrameTimelineEvent == AddOther

(* _add_track_event: the sequence id is set after the name.                 *)
NameFails(xs) == 1 \in Raises(xs) /\ xs[1] \in Names

AddEvent(xs) ==
  /\ Len(packets) < MaxPackets
  /\ packets' = Append(packets, Interned(Packet(~NameFails(xs), TRUE), xs))
  /\ Intern(xs)
  /\ sealed' = IF xs = <<>> THEN sealed ELSE Len(packets)
  /\ failed' = (failed \/ NameFails(xs))
  /\ UNCHANGED <<lastUuid, bounds, notes, late>>

BeginSlice(name, categories) == AddEvent(<<name>> \o categories)
EndSlice == AddEvent(<<>>)
AddInstantEvent(name, categories) == AddEvent(<<name>> \o categories)
UpdateCounter == AddEvent(<<>>)
AddFlow(name, categories) == AddInstantEvent(name, categories)
AddLegacyEvent(name, categories) == AddEvent(<<name>> \o categories)

(* A call on the wrapper of an event of the current builder, which may have *)
(* been followed by other packets.                                          *)
Annotate(p, xs) ==
  /\ p >= first /\ packets[p].event /\ packets[p].sequenced
  /\ notes < MaxNotes
  /\ notes' = notes + 1
  /\ packets' = [packets EXCEPT ![p] = Interned(@, xs)]
  /\ Intern(xs)
  /\ late' = (late \/ p <= sealed)
  /\ sealed' = IF sealed < p THEN p - 1 ELSE sealed
  /\ UNCHANGED <<lastUuid, bounds, failed>>

AddCategories(p, categories) == categories # <<>> /\ Annotate(p, categories)
AddAnnotation(p, annotation) == Annotate(p, annotation)
SetSourceLocation(p, location) == Annotate(p, <<location>>)
SetCallstack(p, callstack) == Annotate(p, callstack)

Cleared == [x \in Items |-> 0]

Reset_Counters ==
  /\ resets < MaxResets
  /\ resets' = resets + 1
  /\ table' = Cleared
  /\ nextIid' = [k \in Kinds |-> 1]
  /\ emittedCleared' = FALSE
  /\ sealed' = Len(packets)
  /\ UNCHANGED <<packets, lastUuid, first, builders, notes, late, failed>>

Reset_KeepsStacks ==
  /\ resets < MaxResets
  /\ resets' = resets + 1
  /\ table' = [x \in Items |-> IF Parts[x] = {} THEN 0 ELSE table[x]]
  /\ emittedCleared' = FALSE
  /\ sealed' = Len(packets)
  /\ UNCHANGED <<packets, nextIid, lastUuid, first, builders, notes, late, failed>>

(* InterningState.reset keeps the counters.                                 *)
Reset ==
  /\ resets < MaxResets
  /\ resets' = resets + 1
  /\ table' = Cleared
  /\ emittedCleared' = FALSE
  /\ sealed' = Len(packets)
  /\ UNCHANGED <<packets, nextIid, lastUuid, first, builders, notes, late, failed>>

(* Another builder, whose trace will be appended to this one.               *)
NewBuilder ==
  /\ builders < MaxBuilders
  /\ builders' = builders + 1
  /\ table' = Cleared
  /\ nextIid' = [k \in Kinds |-> 1]
  /\ emittedCleared' = FALSE
  /\ lastUuid' = 0
  /\ first' = Len(packets) + 1
  /\ sealed' = Len(packets)
  /\ UNCHANGED <<packets, resets, notes, late, failed>>

Init ==
  /\ packets = <<>>
  /\ table = Cleared
  /\ nextIid = [k \in Kinds |-> 1]
  /\ emittedCleared = FALSE
  /\ lastUuid = 0
  /\ first = 1 /\ builders = 1 /\ resets = 0 /\ notes = 0
  /\ sealed = 0 /\ late = FALSE /\ failed = FALSE

Next ==
  \/ AddProcess \/ AddThread \/ AddTrack \/ AddCounterTrack
  \/ SetDefaultTimestampClock \/ AddClockSnapshot \/ AddFrameTimelineEvent
  \/ EndSlice \/ UpdateCounter
  \/ \E name \in Names, categories \in Categories :
       \/ BeginSlice(name, categories) \/ AddInstantEvent(name, categories)
       \/ AddFlow(name, categories) \/ AddLegacyEvent(name, categories)
  \/ \E p \in DOMAIN packets :
       \/ \E categories \in Categories : AddCategories(p, categories)
       \/ \E annotation \in Annotations : AddAnnotation(p, annotation)
       \/ \E location \in Locations : SetSourceLocation(p, location)
       \/ \E callstack \in Callstacks : SetCallstack(p, callstack)
  \/ Reset \/ NewBuilder

Spec == Init /\ [][Next]_vars

----------------------------------------------------------------------------
(* Reading the trace without the packets in `lost`.  The collector sets     *)
(* previous_packet_dropped on what follows a loss in the same sequence.     *)
SameSequence(m, i) == packets[m].sequenced = packets[i].sequenced
PreviousDropped(i, lost) ==
  \E m \in lost : /\ m < i /\ SameSequence(m, i)
                  /\ \A n \in (m + 1)..(i - 1) : SameSequence(n, i) => n \in lost

(* The packets of the sequence of `i` that are read up to `i`; of these,    *)
(* the ones that clear the tables; and the ones whose entries are in them.  *)
Read(i, lost) == {m \in 1..i : SameSequence(m, i) /\ m \notin lost}
Clearing(i, lost) ==
  {m \in Read(i, lost) : packets[m].clears \/ PreviousDropped(m, lost)}
Visible(i, lost) == {m \in Read(i, lost) : \A c \in Clearing(i, lost) : c <= m}

(* _SequenceTables.valid after packet `i`.                                  *)
Valid(i, lost) ==
  \E c \in Clearing(i, lost) \cap Visible(i, lost) : packets[c].clears

(* The entries that the reader takes for an id: those of the last packet    *)
(* that has any.  None: the reader yields a placeholder.                    *)
Defines(m, r) == {e \in packets[m].entries : e.kind = r.kind /\ e.iid = r.iid}
Meaning(i, lost, r) ==
  UNION {Defines(m, r) : m \in {n \in Visible(i, lost) :
     \A l \in Visible(i, lost) : l > n => Defines(l, r) = {}}}

(* What an event refers to, directly or through entries it can see.         *)
VisibleParts(i, lost) ==
  UNION {e.parts : e \in UNION {packets[m].entries : m \in Visible(i, lost)}}
References(i, lost) == packets[i].refs \cup VisibleParts(i, lost)

----------------------------------------------------------------------------
RefType == [kind : Kinds, iid : Nat, item : Items]
EntryType == [kind : Kinds, iid : Nat, item : Items, parts : SUBSET RefType]
PacketType == [sequenced : BOOLEAN, event : BOOLEAN, needs : BOOLEAN,
               clears : BOOLEAN, entries : SUBSET EntryType, refs : SUBSET RefType]

(* The type invariant.  Ids in use are below the counters: an id is never   *)
(* handed out twice by one builder, reset or not (interning.py).            *)
TypeOK ==
  /\ packets \in Seq(PacketType)
  /\ table \in [Items -> Nat]
  /\ nextIid \in [Kinds -> Nat \ {0}]
  /\ emittedCleared \in BOOLEAN
  /\ lastUuid \in Nat /\ first \in Nat \ {0} /\ builders \in Nat /\ resets \in Nat /\ notes \in Nat
  /\ sealed \in Nat /\ late \in BOOLEAN /\ failed \in BOOLEAN
  /\ \A x \in Items : table[x] < nextIid[Kind[x]]

(* Whatever was lost, reset, annotated late or interrupted by an error: an  *)
(* id that an event or an entry holds is read as the item it stood for when *)
(* it was written, or as missing, never as another item.                    *)
NeverMisread ==
  builders = 1 =>
    \A i \in DOMAIN packets, lost \in SUBSET DOMAIN packets :
      \A r \in References(i, lost) : \A e \in Meaning(i, lost, r) : e.item = r.item

ReadsBack(i, lost) ==
  \A r \in References(i, lost) : {e.item : e \in Meaning(i, lost, r)} = {r.item}

(* Packets annotated in order by calls that did not fail read back, also    *)
(* from concatenated traces: wholly where the reader says that the state is *)
(* valid, which it says of every event unless packets were lost; and        *)
(* nothing is misread even where it does not.                               *)
InOrderReadsBack ==
  (~late /\ ~failed) =>
    \A i \in DOMAIN packets, lost \in SUBSET DOMAIN packets : i \notin lost =>
      /\ Valid(i, lost) => ReadsBack(i, lost)
      /\ (packets[i].needs /\ lost = {}) => Valid(i, lost)
      /\ \A r \in References(i, lost) : \A e \in Meaning(i, lost, r) : e.item = r.item
=============================================================================
