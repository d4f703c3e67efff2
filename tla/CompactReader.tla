--------------------------- MODULE CompactReader ---------------------------
(***************************************************************************)
(* The host reader of py/retrobus_perfetto/compact.py for format v4, as    *)
(* operators on a file: a record with the writer's header and chunks.      *)
(*                                                                         *)
(* Read(file, allow_unfinalized) is CompactTraceReader(path, ...).read():  *)
(* select and order the chunks, decode each payload, extend the counters,  *)
(* check the clock anchors.  A CompactTraceError is ok = FALSE.            *)
(*                                                                         *)
(* Left out: files whose header, profile or size do not belong to the      *)
(* schema, bit-level damage, and the mapping of counters to nanoseconds    *)
(* (reference timestamps and everything computed from them).               *)
(*                                                                         *)
(* A definition Name_Fault is Name with a plausible mistake: what the      *)
(* properties are tried against.                                           *)
(***************************************************************************)
EXTENDS Integers, Sequences, FiniteSets, SequencesExt, FiniteSetsExt

CONSTANTS ClockRange, GenerationRange, InitialGeneration, Tracks, DefaultTrack,
          SliceEvents, StateEvents, Codebook

Half == ClockRange \div 2
InWidth(sample) == sample \in 0..(ClockRange - 1)
Apart(newer, older) == (newer - older) % ClockRange

----------------------------------------------------------------------------
(* _read_header_and_chunks: which chunks are read, and in which order.      *)

Bad == [ok |-> FALSE]

Published(chunks) == {slot \in DOMAIN chunks : chunks[slot].magic}

(* The order of a stable sort by sequence number.                           *)
Before_OfSlots(chunks, a, b) == a < b
Before(chunks, a, b) ==
  \/ chunks[a].sequence < chunks[b].sequence
  \/ chunks[a].sequence = chunks[b].sequence /\ a < b

(* The published chunks, as slots in sequence order.                        *)
InOrder(chunks) ==
  CHOOSE order \in [1..Cardinality(Published(chunks)) -> Published(chunks)] :
    \A i, j \in DOMAIN order : i < j => Before(chunks, order[i], order[j])

(* The longest prefix without a sequence gap.                               *)
Contiguous(chunks, order) ==
  LET gaps == {i \in 2..Len(order) :
                 chunks[order[i]].sequence # chunks[order[i - 1]].sequence + 1}
  IN  IF gaps = {} THEN order ELSE SubSeq(order, 1, Min(gaps) - 1)

(* What a finalized image must satisfy before its payload is looked at.     *)
FinalizedLayout(file, order) ==
  LET h == file.header
      first == file.chunks[order[1]].sequence
  IN  /\ \A i \in DOMAIN order : file.chunks[order[i]].bits > 0
      /\ Contiguous(file.chunks, order) = order
      /\ h.overwritten_records <= h.total_records
      /\ h.overwritten_events <= h.total_events
      /\ h.overwritten_records <= h.overwritten_events
      /\ h.overwritten_events <= 2 * h.overwritten_records
      /\ IF h.wrapped
         THEN (\A slot \in DOMAIN file.chunks : file.chunks[slot].magic) /\ first # 0
         ELSE /\ h.overwritten_records = 0 /\ h.overwritten_events = 0
              /\ \A i \in DOMAIN order :
                   order[i] = i - 1 /\ file.chunks[order[i]].sequence = i - 1

----------------------------------------------------------------------------
(* _decode_v4_item: one wire record in the decoder's context.               *)

NextModel(event) ==
  CASE event = StateEvents[1] -> 0 [] event = StateEvents[2] -> 1 [] OTHER -> 2

DecodedEvent(generation, at, track, event, delta, duration) ==
  IF delta >= Half \/ duration >= Half THEN [at EXCEPT !.ok = FALSE]
  ELSE LET timestamp == (at.timestamp + delta) % ClockRange
       IN  [at EXCEPT !.timestamp = timestamp, !.track = track,
                      !.model = NextModel(event),
                      !.items = Append(@, [kind |-> "data",
                          generation |-> generation, track |-> track,
                          event |-> event, timestamp |-> timestamp,
                          duration |-> duration])]

DecodeHot_AnyModel(generation, at, item) ==
  LET k == CHOOSE k \in DOMAIN Codebook : Codebook[k] = item.code
  IN  DecodedEvent(generation, at, at.track, k[2], k[3], k[4])

(* A code means what the codebook says in the decoder's own model state.    *)
DecodeHot(generation, at, item) ==
  LET keys == {k \in DOMAIN Codebook : k[1] = at.model /\ Codebook[k] = item.code}
  IN  IF keys = {} THEN [at EXCEPT !.ok = FALSE]
      ELSE LET k == CHOOSE k \in keys : TRUE
           IN  DecodedEvent(generation, at, at.track, k[2], k[3], k[4])

DecodeSync(generation, at, item) ==
  IF \/ item.generation # generation
     \/ ~InWidth(item.before) \/ ~InWidth(item.after)
     \/ Apart(item.after, item.before) >= Half
  THEN [at EXCEPT !.ok = FALSE]
  ELSE [at EXCEPT !.timestamp = (item.before + Apart(item.after, item.before) \div 2)
                                   % ClockRange,
                  !.items = Append(@, item)]

DecodeItem(generation, at, item) ==
  CASE ~at.ok -> at
    [] at.ok /\ item.kind = "hot" -> DecodeHot(generation, at, item)
    [] at.ok /\ item.kind = "event" ->
         DecodedEvent(generation, at, at.track, item.event, item.delta, item.duration)
    [] at.ok /\ item.kind = "tracked" ->
         IF item.track = at.track \/ item.track \notin Tracks
         THEN [at EXCEPT !.ok = FALSE]
         ELSE DecodedEvent(generation, at, item.track, item.event, item.delta,
                           item.duration)
    [] at.ok /\ item.kind = "sync" -> DecodeSync(generation, at, item)

(* Every chunk restarts from its base timestamp, its default track and      *)
(* model state 2.                                                           *)
DecodeChunk(chunk) ==
  FoldLeft(LAMBDA at, item : DecodeItem(chunk.generation, at, item),
           [ok |-> TRUE, timestamp |-> chunk.base, track |-> DefaultTrack,
            model |-> 2, items |-> <<>>],
           chunk.items)

DataIn(items) == {i \in DOMAIN items : items[i].kind = "data"}

RecordsIn(items) == Cardinality(DataIn(items))
EventsIn(items) ==
  RecordsIn(items) + Cardinality({i \in DataIn(items) : items[i].event \in SliceEvents})

CountsMatch(chunk, items) ==
  /\ chunk.records = RecordsIn(items)
  /\ chunk.events = EventsIn(items)
  /\ chunk.syncs = Len(items) - RecordsIn(items)

(* iter_items: a recovery read keeps what it decoded before the first error *)
(* and stops there; a strict read fails.                                    *)
DecodeAll(file, order, recovering) ==
  LET Step(sofar, slot) ==
        LET decoded == DecodeChunk(file.chunks[slot])
        IN  IF ~sofar.ok \/ sofar.stopped THEN sofar
            ELSE [ok |-> recovering
                         \/ (decoded.ok /\ CountsMatch(file.chunks[slot], decoded.items)),
                  stopped |-> ~decoded.ok,
                  items |-> sofar.items \o decoded.items]
  IN  FoldLeft(Step, [ok |-> TRUE, stopped |-> FALSE, items |-> <<>>], order)

RetainedCountsMatch(header, items) ==
  /\ header.total_records - header.overwritten_records = RecordsIn(items)
  /\ header.total_events - header.overwritten_events = EventsIn(items)

----------------------------------------------------------------------------
(* _extend_items and the anchor checks of CompactTrace.__post_init__.       *)

Raw(item) ==
  IF item.kind = "data" THEN item.timestamp
  ELSE (item.before + Apart(item.after, item.before) \div 2) % ClockRange

GenerationsInOrder_NoWrap(items, wrapped) ==
  \A i \in DOMAIN items :
    items[i].generation
      \in (IF i = 1 THEN {InitialGeneration}
           ELSE {items[i - 1].generation, (items[i - 1].generation + 1) % GenerationRange})

(* The generation order a strict (v2 or later) trace must have.             *)
GenerationsInOrder(items, wrapped) ==
  \A i \in DOMAIN items :
    IF i = 1
    THEN \/ wrapped
         \/ items[1].generation = InitialGeneration
         \/ /\ items[1].kind = "sync"
            /\ items[1].generation = (InitialGeneration + 1) % GenerationRange
    ELSE items[i].generation # items[i - 1].generation =>
           /\ \A j \in 1..(i - 1) : items[j].generation # items[i].generation
           /\ items[i].generation = (items[i - 1].generation + 1) % GenerationRange
           /\ items[i].kind = "sync"

SyncsComeFirst_NoWrap(items, wrapped) ==
  \A i \in 2..Len(items) :
    items[i].kind = "sync" /\ items[i - 1].kind = "data"
      /\ items[i].generation = items[i - 1].generation
    => \E j \in 1..(i - 1) : /\ items[j].kind = "sync"
                             /\ items[j].generation = items[i].generation

(* Only the first retained generation of a wrapped ring may have lost the   *)
(* synchronisation that came before its data.                               *)
SyncsComeFirst(items, wrapped) ==
  \A i \in DOMAIN items :
    LET same == {j \in 1..(i - 1) : items[j].generation = items[i].generation}
    IN  (items[i].kind = "sync" /\ \E j \in same : items[j].kind = "data") =>
          \/ \E j \in same : items[j].kind = "sync"
          \/ wrapped /\ items[i].generation = items[1].generation

GapsUnambiguous(items) ==
  \A i \in 2..Len(items) :
    items[i].generation = items[i - 1].generation =>
      Apart(Raw(items[i]), Raw(items[i - 1])) < Half

(* Extended ticks: modulo gaps added up from the first raw counter of the   *)
(* generation.                                                              *)
Extended(items) ==
  LET tick[i \in DOMAIN items] ==
        IF i = 1 \/ items[i].generation # items[i - 1].generation
        THEN Raw(items[i])
        ELSE tick[i - 1] + Apart(Raw(items[i]), Raw(items[i - 1]))
  IN  tick

AnchorsUsable(items, wrapped) ==
  LET tick  == Extended(items)
      syncs == {i \in DOMAIN items : items[i].kind = "sync"}
      bare  == {items[i].generation : i \in {i \in DOMAIN items :
                 /\ items[i].kind = "data"
                 /\ \A j \in syncs : items[j].generation # items[i].generation}}
  IN  /\ \A i, j \in syncs :
           i < j /\ items[i].generation = items[j].generation => tick[i] < tick[j]
      /\ (syncs # {} /\ bare # {}) => wrapped /\ bare = {items[1].generation}

ClockAccepted(items, wrapped) ==
  /\ GenerationsInOrder(items, wrapped)
  /\ SyncsComeFirst(items, wrapped)
  /\ GapsUnambiguous(items)
  /\ AnchorsUsable(items, wrapped)

----------------------------------------------------------------------------
(* CompactTraceReader(path, allow_unfinalized).read().                      *)
Read(file, allow_unfinalized) ==
  LET finalized  == file.header.finalized
      recovering == allow_unfinalized /\ ~finalized
      all     == InOrder(file.chunks)
      order   == IF recovering THEN Contiguous(file.chunks, all) ELSE all
      wrapped == \/ file.header.wrapped
                 \/ recovering /\ order # <<>> /\ file.chunks[order[1]].sequence # 0
      decoded == DecodeAll(file, order, recovering)
  IN  IF /\ finalized \/ recovering
         /\ finalized => FinalizedLayout(file, order)
         /\ decoded.ok
         /\ finalized => RetainedCountsMatch(file.header, decoded.items)
         /\ ClockAccepted(decoded.items, wrapped)
      THEN [ok |-> TRUE, wrapped |-> wrapped, items |-> decoded.items]
      ELSE Bad
=============================================================================
