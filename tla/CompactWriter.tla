--------------------------- MODULE CompactWriter ---------------------------
(***************************************************************************)
(* The target-side flight recorder of compact/src/compact_trace.c (format  *)
(* v4), one action per public call.  A call runs to completion before the  *)
(* next one starts: the writer has one caller at a time (compact/FORMAT.md,*)
(* "Resource and safety contract").  What a snapshot may see in the middle *)
(* of a call is the subject of CompactPublication.                         *)
(*                                                                         *)
(* Payload bits are abstracted to a sequence of wire records, each with    *)
(* the number of bits its kind takes.  Argument values are left out; the   *)
(* argument vector is only valid or invalid.                               *)
(*                                                                         *)
(* A definition Name_Fault is Name with a plausible mistake: what the      *)
(* properties are tried against.  No specification uses it.                *)
(***************************************************************************)
EXTENDS Integers, Sequences

CONSTANTS
  ChunkCount,        \* chunks in the caller's buffer
  PayloadBits,       \* capacity of a chunk's payload, in bits
  Bits,              \* bits taken by each kind of wire record
  ClockRange,        \* 2 ^ clock_width_bits
  GenerationRange,   \* 2 ^ 32 in the code: generations are uint32_t
  InitialGeneration, \* config->initial_clock_generation
  Tracks,
  DefaultTrack,      \* config->default_track_id
  SliceEvents,       \* events the schema declares as slices
  InstantEvents,     \* all the others
  StateEvents,       \* profile->state_event_ids
  Codebook,          \* perfect-hash contents: <<model, event, delta, duration>> -> code
  ScopeCapacity,
  MaxRequests,       \* bound: calls that ask for a record or a scope
  MaxSyncs           \* bound: accepted clock synchronisations

Events   == SliceEvents \union InstantEvents
Kinds    == {"hot", "event", "tracked", "sync"}
Models   == 0..2
Stamps   == 0..(ClockRange - 1)
Samples  == 0..ClockRange               \* ClockRange itself exceeds the width
Generations == 0..(GenerationRange - 1)
Slots    == 0..(ChunkCount - 1)
NoChunk  == -1                          \* RBCT_NO_CHUNK
HalfRange == ClockRange \div 2
InitialModel == 2                       \* RBCT_MODEL_INITIAL

(***************************************************************************)
(* The last conjunct is what makes RBCT_RECORD_TOO_LARGE unreachable: a    *)
(* record of at most RBCT_MAX_RECORD_BYTES = 70 bytes always fits a fresh  *)
(* payload of 4048 bytes, so rbct_append_event's second size test and the  *)
(* missing one in rbct_writer_clock_sync never matter.                     *)
(***************************************************************************)
ASSUME WriterAssumption ==
  /\ ChunkCount \in Nat \ {0}
  /\ ClockRange \in Nat \ {0} /\ HalfRange \in Nat \ {0}
  /\ GenerationRange \in Nat \ {0} /\ InitialGeneration \in Generations
  /\ DefaultTrack \in Tracks
  /\ ScopeCapacity \in Nat
  /\ MaxRequests \in Nat /\ MaxSyncs \in Nat
  /\ PayloadBits \in Nat
  /\ Bits \in [Kinds -> Nat \ {0}]
  /\ \A k \in Kinds : Bits[k] <= PayloadBits

VARIABLES
  chunks,               \* slot -> chunk header and payload
  header,               \* file header: flags and the counters finalize writes
  current_chunk, valid_chunks, next_sequence,
  current_generation, current_timestamp, current_track, model,
  has_record, has_sync, sync_advanced,     \* RBCT_STATE_* bits of the generation
  total_records, overwritten_records, dropped_records,
  total_events, overwritten_events,
  scopes,               \* stack of open scopes, innermost last
  finalized,            \* RBCT_STATE_FINALIZED
  log,                  \* history: everything ever committed, in order
  requested             \* history: calls that asked for a record or a scope

ring    == <<header, current_chunk, valid_chunks, next_sequence,
             overwritten_records, overwritten_events>>
context == <<current_generation, current_timestamp, current_track, model>>
flags   == <<has_record, has_sync, sync_advanced>>
totals  == <<total_records, total_events>>
image   == <<chunks, log, totals, context, flags, ring>>
vars    == <<image, dropped_records, scopes, finalized, requested>>

----------------------------------------------------------------------------
(* Clock arithmetic: counters are compared modulo their width.              *)

Delta_Unmasked(newer, older) == newer - older
Delta(newer, older) == (newer - older) % ClockRange
SampleValid(sample) == sample \in Stamps
DeltaValid(newer, older) == Delta(newer, older) < HalfRange
Midpoint(before, after) == (before + Delta(after, before) \div 2) % ClockRange

(* The codec model follows the last data event.                             *)
ModelAfter(event) ==
  CASE event = StateEvents[1] -> 0
    [] event = StateEvents[2] -> 1
    [] OTHER -> InitialModel

(* rbct_encode_event: a profiled slice on the current track is one prefix   *)
(* code, anything else an escape literal.                                   *)
EncodeEvent(from_model, from_track, delta, track, event, duration) ==
  LET key == <<from_model, event, delta, duration>>
  IN  IF event \in SliceEvents /\ track = from_track /\ key \in DOMAIN Codebook
      THEN [kind |-> "hot", code |-> Codebook[key]]
      ELSE IF track = from_track
      THEN [kind |-> "event", event |-> event, delta |-> delta,
            duration |-> duration]
      ELSE [kind |-> "tracked", track |-> track, event |-> event,
            delta |-> delta, duration |-> duration]

----------------------------------------------------------------------------
(* The ring of chunks.                                                      *)

EmptyChunk ==
  [magic |-> FALSE, sequence |-> 0, base |-> 0, generation |-> 0,
   items |-> <<>>, bits |-> 0, records |-> 0, events |-> 0, syncs |-> 0,
   before |-> [items |-> 0, records |-> 0, events |-> 0]]

(* How much has been committed; before is history: the same when the chunk  *)
(* was started.                                                             *)
Here == [items |-> Len(log), records |-> total_records, events |-> total_events]

FreshChunk_NotZeroed(generation, base) ==
  [chunks[IF current_chunk + 1 = ChunkCount THEN 0 ELSE current_chunk + 1]
     EXCEPT !.magic = TRUE, !.sequence = next_sequence, !.base = base,
            !.generation = generation]

FreshChunk(generation, base) ==
  [magic |-> TRUE, sequence |-> next_sequence, base |-> base, generation |-> generation,
   items |-> <<>>, bits |-> 0, records |-> 0, events |-> 0, syncs |-> 0,
   before |-> Here]

NextSlot_WrapsEarly ==
  IF current_chunk = NoChunk \/ current_chunk + 2 >= ChunkCount THEN 0
  ELSE current_chunk + 1

NextSlot ==
  IF current_chunk = NoChunk THEN 0
  ELSE IF current_chunk + 1 = ChunkCount THEN 0
  ELSE current_chunk + 1

Fits(chunk, item) == Bits[item.kind] <= PayloadBits - chunk.bits

(* A record shares the current chunk unless there is none or it is full.    *)
NeedsChunk(item) ==
  current_chunk = NoChunk \/ ~Fits(chunks[current_chunk], item)

(* What rbct_start_chunk does to everything but the chunk's own bytes.      *)
StartChunk ==
  /\ current_chunk' = NextSlot
  /\ next_sequence' = next_sequence + 1
  /\ \/ /\ valid_chunks # ChunkCount
        /\ valid_chunks' = valid_chunks + 1
        /\ UNCHANGED <<header, overwritten_records, overwritten_events>>
     \/ /\ valid_chunks = ChunkCount
        /\ overwritten_records' = overwritten_records + chunks[NextSlot].records
        /\ overwritten_events' = overwritten_events + chunks[NextSlot].events
        /\ header' = [header EXCEPT !.wrapped = TRUE]
        /\ UNCHANGED valid_chunks

(* rbct_commit_bit_record and the event and sync counts written after it.   *)
CommitData(chunk, item, expanded) ==
  [chunk EXCEPT !.items = Append(@, item), !.bits = @ + Bits[item.kind],
                !.records = @ + 1, !.events = @ + expanded]

CommitSync(chunk, item) ==
  [chunk EXCEPT !.items = Append(@, item), !.bits = @ + Bits[item.kind],
                !.syncs = @ + 1]

----------------------------------------------------------------------------
(* Data records.                                                            *)

(* The checks of rbct_append_event.                                         *)
EventAccepted(timestamp, duration) ==
  /\ SampleValid(timestamp)
  /\ current_chunk # NoChunk => DeltaValid(timestamp, current_timestamp)
  /\ duration < HalfRange

Expanded(event) == IF event \in SliceEvents THEN 2 ELSE 1

(* rbct_append_event once its checks have passed.  started is history: the  *)
(* generation in which a slice was begun.                                   *)
AppendEvent(timestamp, track, event, duration, started) ==
  LET observed == IF current_chunk = NoChunk THEN 0
                  ELSE Delta(timestamp, current_timestamp)
      here     == EncodeEvent(model, current_track, observed, track, event, duration)
      restart  == EncodeEvent(InitialModel, DefaultTrack, 0, track, event, duration)
      fresh    == NeedsChunk(here)
  IN  /\ IF fresh
         THEN /\ StartChunk
              /\ chunks' = [chunks EXCEPT ![NextSlot] =
                   CommitData(FreshChunk(current_generation, timestamp), restart,
                              Expanded(event))]
         ELSE /\ UNCHANGED ring
              /\ chunks' = [chunks EXCEPT ![current_chunk] =
                   CommitData(@, here, Expanded(event))]
      /\ current_timestamp' = timestamp
      /\ current_track' = track
      /\ model' = ModelAfter(event)
      /\ has_record' = TRUE
      /\ sync_advanced' = (sync_advanced \/ (has_sync /\ observed # 0))
      /\ total_records' = total_records + 1
      /\ total_events' = total_events + Expanded(event)
      /\ log' = Append(log, [kind |-> "data", generation |-> current_generation,
                             track |-> track, event |-> event,
                             timestamp |-> timestamp, duration |-> duration,
                             started |-> started])
      /\ UNCHANGED <<current_generation, has_sync>>

Enabled == ~finalized

Request == requested < MaxRequests /\ requested' = requested + 1

(* A chunk is started before the call is validated.                         *)
Drop_InFreshChunk ==
  /\ StartChunk
  /\ chunks' = [chunks EXCEPT ![NextSlot] =
                  FreshChunk(current_generation, current_timestamp)]
  /\ dropped_records' = dropped_records + 1
  /\ UNCHANGED <<log, totals, context, flags>>

Drop ==
  /\ dropped_records' = dropped_records + 1
  /\ UNCHANGED image

(* rbct_writer_emit, rbct_writer_emit_opcode.                               *)
Emit(timestamp, track, event, arguments_valid) ==
  /\ Enabled
  /\ Request
  /\ \/ /\ arguments_valid /\ EventAccepted(timestamp, 0)
        /\ AppendEvent(timestamp, track, event, 0, current_generation)
        /\ UNCHANGED dropped_records
     \/ /\ ~(arguments_valid /\ EventAccepted(timestamp, 0))
        /\ Drop
  /\ UNCHANGED <<scopes, finalized>>

----------------------------------------------------------------------------
(* Scopes: a slice is recorded when it ends.                                *)

Innermost == scopes[Len(scopes)]
Popped    == SubSeq(scopes, 1, Len(scopes) - 1)

BeginAccepted(timestamp, arguments_valid) ==
  arguments_valid /\ SampleValid(timestamp) /\ Len(scopes) < ScopeCapacity

(* rbct_writer_begin, rbct_writer_begin_opcode.                             *)
Begin(timestamp, track, event, arguments_valid) ==
  /\ Enabled
  /\ Request
  /\ \/ /\ BeginAccepted(timestamp, arguments_valid)
        /\ scopes' = Append(scopes, [started_at |-> timestamp, track |-> track,
                                     event |-> event,
                                     generation |-> current_generation])
        /\ UNCHANGED <<image, dropped_records>>
     \/ /\ ~BeginAccepted(timestamp, arguments_valid)
        /\ Drop
        /\ UNCHANGED scopes
  /\ UNCHANGED finalized

EndUnmatched ==
  /\ Enabled
  /\ scopes = <<>>
  /\ Request
  /\ Drop
  /\ UNCHANGED <<scopes, finalized>>

(* A rejected end gives back the drop that rbct_append_event counted: the   *)
(* scope stays open and can be retried.                                     *)
Retained_Counted ==
  dropped_records' = dropped_records + 1 /\ UNCHANGED <<image, scopes>>
Retained == UNCHANGED <<dropped_records, image, scopes>>

(* rbct_writer_end.                                                         *)
End(timestamp) ==
  /\ Enabled
  /\ scopes # <<>>
  /\ LET duration == Delta(timestamp, Innermost.started_at)
     IN  \/ /\ EventAccepted(timestamp, duration)
            /\ AppendEvent(timestamp, Innermost.track, Innermost.event, duration,
                           Innermost.generation)
            /\ scopes' = Popped
            /\ UNCHANGED dropped_records
         \/ /\ ~EventAccepted(timestamp, duration)
            /\ Retained
  /\ UNCHANGED <<finalized, requested>>

(* rbct_writer_cancel.                                                      *)
Cancel ==
  /\ Enabled
  /\ scopes # <<>>
  /\ scopes' = Popped
  /\ Drop
  /\ UNCHANGED <<finalized, requested>>

----------------------------------------------------------------------------
(* Clock synchronisation.                                                   *)

TransitionAllowed_ScopesOpen(generation) ==
  generation = (current_generation + 1) % GenerationRange

(* A clock transition waits for the open scopes and advances by one.        *)
TransitionAllowed(generation) ==
  scopes = <<>> /\ generation = (current_generation + 1) % GenerationRange

(* The first anchor must come before the generation's data.                 *)
TooLate_Never == FALSE
TooLate == has_record /\ ~has_sync

(* The counter must have moved since the previous anchor.                   *)
RepeatsAnchor_Never(midpoint) == FALSE
RepeatsAnchor(midpoint) ==
  has_sync /\ ~sync_advanced /\ Delta(midpoint, current_timestamp) = 0

SyncAccepted(generation, before, after) ==
  LET transition == generation # current_generation
      midpoint   == Midpoint(before, after)
  IN  /\ transition => TransitionAllowed(generation)
      /\ SampleValid(before) /\ SampleValid(after) /\ DeltaValid(after, before)
      /\ ~TooLate
      /\ (~transition /\ current_chunk # NoChunk) =>
            DeltaValid(midpoint, current_timestamp) /\ ~RepeatsAnchor(midpoint)

(* rbct_writer_clock_sync.  A rejected call changes nothing.                *)
ClockSync(generation, before, after) ==
  LET transition == generation # current_generation
      item  == [kind |-> "sync", generation |-> generation, before |-> before,
                after |-> after]
      fresh == transition \/ NeedsChunk(item)
  IN  /\ Enabled
      /\ Len(log) - total_records < MaxSyncs
      /\ SyncAccepted(generation, before, after)
      /\ IF fresh
         THEN /\ StartChunk
              /\ chunks' = [chunks EXCEPT ![NextSlot] =
                              CommitSync(FreshChunk(generation, before), item)]
              /\ current_track' = DefaultTrack
              /\ model' = InitialModel
         ELSE /\ UNCHANGED ring
              /\ chunks' = [chunks EXCEPT ![current_chunk] = CommitSync(@, item)]
              /\ UNCHANGED <<current_track, model>>
      /\ current_generation' = generation
      /\ current_timestamp' = Midpoint(before, after)
      /\ has_record' = (has_record /\ ~transition)
      /\ has_sync' = TRUE
      /\ sync_advanced' = FALSE
      /\ log' = Append(log, item)
      /\ UNCHANGED <<totals, dropped_records, scopes, finalized, requested>>

----------------------------------------------------------------------------
(* rbct_writer_finalize.                                                    *)
Wrapped_Full == valid_chunks = ChunkCount
Wrapped == valid_chunks = ChunkCount /\ next_sequence > ChunkCount

Finalize ==
  /\ Enabled
  /\ scopes = <<>>
  /\ header' = [finalized |-> TRUE,
                wrapped |-> Wrapped,
                total_records |-> total_records,
                overwritten_records |-> overwritten_records,
                dropped_records |-> dropped_records,
                total_events |-> total_events,
                overwritten_events |-> overwritten_events]
  /\ finalized' = TRUE
  /\ UNCHANGED <<chunks, log, totals, context, flags, current_chunk, valid_chunks,
                 next_sequence, overwritten_records, overwritten_events,
                 dropped_records, scopes, requested>>

(* rbct_writer_init on a valid configuration.                               *)
Init ==
  /\ chunks = [slot \in Slots |-> EmptyChunk]
  /\ header = [finalized |-> FALSE, wrapped |-> FALSE, total_records |-> 0,
               overwritten_records |-> 0, dropped_records |-> 0,
               total_events |-> 0, overwritten_events |-> 0]
  /\ current_chunk = NoChunk /\ valid_chunks = 0 /\ next_sequence = 0
  /\ current_generation = InitialGeneration /\ current_timestamp = 0
  /\ current_track = DefaultTrack /\ model = InitialModel
  /\ has_record = FALSE /\ has_sync = FALSE /\ sync_advanced = FALSE
  /\ total_records = 0 /\ overwritten_records = 0 /\ dropped_records = 0
  /\ total_events = 0 /\ overwritten_events = 0
  /\ scopes = <<>> /\ finalized = FALSE
  /\ log = <<>> /\ requested = 0

Next ==
  \/ \E t \in Samples, track \in Tracks, event \in InstantEvents, ok \in BOOLEAN :
       Emit(t, track, event, ok)
  \/ \E t \in Samples, track \in Tracks, event \in SliceEvents, ok \in BOOLEAN :
       Begin(t, track, event, ok)
  \/ \E t \in Samples : End(t)
  \/ EndUnmatched
  \/ Cancel
  \/ \E g \in Generations, before \in Samples, after \in Samples :
       ClockSync(g, before, after)
  \/ Finalize

Spec == Init /\ [][Next]_vars
----------------------------------------------------------------------------
(* Properties.                                                              *)

HotRecord     == [kind : {"hot"}, code : {Codebook[k] : k \in DOMAIN Codebook}]
EventRecord   == [kind : {"event"}, event : Events, delta : Stamps, duration : Stamps]
TrackedRecord == [kind : {"tracked"}, track : Tracks, event : Events, delta : Stamps,
                  duration : Stamps]
SyncRecord    == [kind : {"sync"}, generation : Generations, before : Stamps,
                  after : Stamps]
WireRecord    == HotRecord \union EventRecord \union TrackedRecord \union SyncRecord

Position == [items : Nat, records : Nat, events : Nat]
Chunk == [magic : BOOLEAN, sequence : Nat, base : Stamps, generation : Generations,
          items : Seq(WireRecord), bits : Nat, records : Nat, events : Nat, syncs : Nat,
          before : Position]

FileHeader == [finalized : BOOLEAN, wrapped : BOOLEAN, total_records : Nat,
               overwritten_records : Nat, dropped_records : Nat,
               total_events : Nat, overwritten_events : Nat]
Scope == [started_at : Stamps, track : Tracks, event : SliceEvents,
          generation : Generations]
DataEntry == [kind : {"data"}, generation : Generations, track : Tracks,
              event : Events, timestamp : Stamps, duration : Stamps,
              started : Generations]

(* Type of the state.                                                       *)
TypeOK ==
  /\ chunks \in [Slots -> Chunk]
  /\ header \in FileHeader
  /\ current_chunk \in Slots \union {NoChunk}
  /\ valid_chunks \in 0..ChunkCount
  /\ next_sequence \in Nat
  /\ current_generation \in Generations
  /\ current_timestamp \in Stamps
  /\ current_track \in Tracks
  /\ model \in Models
  /\ has_record \in BOOLEAN /\ has_sync \in BOOLEAN /\ sync_advanced \in BOOLEAN
  /\ total_records \in Nat /\ overwritten_records \in Nat /\ dropped_records \in Nat
  /\ total_events \in Nat /\ overwritten_events \in Nat
  /\ scopes \in Seq(Scope)
  /\ finalized \in BOOLEAN
  /\ log \in Seq(DataEntry \union SyncRecord)
  /\ requested \in Nat

(* How many chunk starts ago a slot was last started, walking the ring      *)
(* backwards from the current slot.                                         *)
Age(slot) ==
  IF slot <= current_chunk THEN current_chunk - slot
  ELSE current_chunk - slot + ChunkCount

Live(slot) == current_chunk # NoChunk /\ Age(slot) < valid_chunks

Successor(slot) == IF slot + 1 = ChunkCount THEN 0 ELSE slot + 1

(* How much had been committed when a chunk received its last item.         *)
EndOf(chunk) ==
  [items |-> chunk.before.items + Len(chunk.items),
   records |-> chunk.before.records + chunk.records,
   events |-> chunk.before.events + chunk.events]

(* The ring keeps the most recent chunks and nothing else: walking back     *)
(* from the current slot finds consecutive sequence numbers, so the slot    *)
(* rbct_start_chunk reuses is the oldest one, and a reader that sorts by    *)
(* sequence number sees no gap.                                             *)
RingKeepsNewest ==
  /\ valid_chunks = IF next_sequence < ChunkCount THEN next_sequence ELSE ChunkCount
  /\ \A slot \in Slots :
       IF Live(slot)
       THEN chunks[slot].magic /\ chunks[slot].sequence = next_sequence - 1 - Age(slot)
       ELSE chunks[slot] = EmptyChunk

(* What was accepted is either still in a chunk or counted as overwritten,  *)
(* once (so the header's counters give what a finalized read must find in   *)
(* the payload): each live chunk takes over where the one started before it *)
(* stopped, the oldest one where the overwritten ones did.                  *)
Ledger ==
  \A slot \in Slots : Live(slot) =>
    /\ Age(slot) = valid_chunks - 1 =>
         /\ chunks[slot].before.records = overwritten_records
         /\ chunks[slot].before.events = overwritten_events
    /\ EndOf(chunks[slot]) = IF slot = current_chunk THEN Here
                              ELSE chunks[Successor(slot)].before

(* Nothing is lost uncounted: every record or scope the program asked for   *)
(* was accepted, dropped, or is a scope still open.  A rejected end, which  *)
(* can be retried, counts as neither.                                       *)
RequestsAccounted ==
  requested = total_records + dropped_records + Len(scopes)

(* RING_WRAPPED means that a chunk was lost, whether it was set when the    *)
(* ring wrapped or recomputed by finalize; and the finalized header carries *)
(* the counters' final values, no later call having changed them.           *)
HeaderTellsTruth ==
  /\ header.wrapped <=> next_sequence > ChunkCount
  /\ header.finalized <=> finalized
  /\ finalized => /\ header.total_records = total_records
                  /\ header.overwritten_records = overwritten_records
                  /\ header.dropped_records = dropped_records
                  /\ header.total_events = total_events
                  /\ header.overwritten_events = overwritten_events

(* A slice never spans a clock transition: both its counter samples belong  *)
(* to the generation it is recorded under.                                  *)
SlicesWithinGeneration ==
  \A i \in DOMAIN log : log[i].kind = "data" => log[i].started = log[i].generation

(* FORMAT.md on clock synchronisation: a changed generation advances by one *)
(* and starts with its synchronisation record, and the first                *)
(* synchronisation in a generation precedes its first data record.          *)
SyncBeforeData ==
  \A i \in DOMAIN log :
    /\ log[i].kind = "data" =>
         log[i].generation = IF i = 1 THEN InitialGeneration ELSE log[i - 1].generation
    /\ log[i].kind = "sync" =>
         LET previous == IF i = 1 THEN InitialGeneration ELSE log[i - 1].generation
         IN  /\ log[i].generation \in {previous, (previous + 1) % GenerationRange}
             /\ (i > 1 /\ log[i - 1].kind = "data") =>
                  \E j \in 1..(i - 1) : /\ log[j].kind = "sync"
                                        /\ log[j].generation = previous

Stamp(entry) ==
  IF entry.kind = "data" THEN entry.timestamp ELSE Midpoint(entry.before, entry.after)

(* Counter anchors advance: between two synchronisations of one generation  *)
(* the counter moved, or the reader would reject the trace.                 *)
AnchorsAdvance ==
  \A i, j \in DOMAIN log :
    (/\ i < j
     /\ log[i].kind = "sync" /\ log[j].kind = "sync"
     /\ \A k \in i..j : log[k].generation = log[i].generation)
    => \E k \in (i + 1)..j : Stamp(log[k]) # Stamp(log[k - 1])

(* A call that records nothing leaves the ring alone: no chunk is started,  *)
(* let alone an old one overwritten, for a record that is then refused.     *)
OnlyRecordsTouchRing ==
  [][log' = log => UNCHANGED <<chunks, next_sequence, valid_chunks>>]_vars
=============================================================================
