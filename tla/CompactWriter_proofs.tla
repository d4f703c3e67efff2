------------------------ MODULE CompactWriter_proofs ------------------------
(***************************************************************************)
(* Proofs about CompactWriter, for every number and capacity of chunks,    *)
(* clock width, schema, codebook and length of the run.                    *)
(*                                                                         *)
(* First types.  Then the ring of chunks and its accounts: RingKeepsNewest,*)
(* Ledger and HeaderTellsTruth.  To the ring, every call either records    *)
(* one thing or changes nothing (RecordingSteps); the rest is how ages     *)
(* shift when a chunk is started (AgeStep): everything one older, except   *)
(* the slot reused, which was the oldest.                                  *)
(*                                                                         *)
(* Then generations, anchors and requests: RequestsAccounted,              *)
(* SlicesWithinGeneration, SyncBeforeData and AnchorsAdvance.  To the      *)
(* clock, a call stays silent, records one data entry or records one       *)
(* synchronisation (ClockSteps); the invariants say what the RBCT_STATE_*  *)
(* bits know about the log.                                                *)
(*                                                                         *)
(* Last the round trip of CompactRoundTrip.  Between calls (KeepInvariant) *)
(* every published chunk decodes to its own stretch of the log, the        *)
(* decoder having read the current chunk is in the encoder's context, and  *)
(* a chunk is at most one generation ahead of the one before it.  An image *)
(* whose chunks follow one another (Run) is then ordered, decoded and      *)
(* accepted by the reader (Ordered, ReadsRun, ClockPasses); the ring is    *)
(* such a run (LiveRun), and stays one without its oldest chunk and with a *)
(* fresh one (RunWithout, RunWith), which is all that an interrupted start *)
(* of a chunk can leave.                                                   *)
(***************************************************************************)
EXTENDS CompactRoundTrip, SequenceTheorems, FiniteSetTheorems, WellFoundedInduction,
        TLAPS

USE WriterAssumption

----------------------------------------------------------------------------
(* Types of the operators.                                                  *)

(* Counter arithmetic stays within the counter's width.                     *)
LEMMA ClockTypes ==
  /\ \A a, b \in Int : Delta(a, b) \in Stamps
  /\ \A a, b \in Stamps : Midpoint(a, b) \in Stamps
  /\ 0 \in Stamps
<1>1. \A a, b \in Int : Delta(a, b) \in Stamps
  BY DEF Delta, Stamps
<1>2. \A a, b \in Stamps : Midpoint(a, b) \in Stamps
  <2> SUFFICES ASSUME NEW a \in Stamps, NEW b \in Stamps PROVE Midpoint(a, b) \in Stamps
    OBVIOUS
  <2>1. Delta(b, a) \in Stamps
    BY <1>1 DEF Stamps
  <2>2. Delta(b, a) \div 2 \in Int
    BY <2>1 DEF Stamps
  <2> QED BY <2>2 DEF Midpoint, Stamps
<1> QED BY <1>1, <1>2 DEF Stamps

(* What the encoder produces is a wire record of a kind that has a size.    *)
LEMMA EncodeEventType ==
  ASSUME NEW m, NEW from \in Tracks, NEW delta \in Stamps, NEW track \in Tracks,
         NEW event \in Events, NEW duration \in Stamps, NEW item,
         item = EncodeEvent(m, from, delta, track, event, duration)
  PROVE  item \in WireRecord /\ item.kind \in Kinds
<1> DEFINE key  == <<m, event, delta, duration>>
<1>1. CASE event \in SliceEvents /\ track = from /\ key \in DOMAIN Codebook
  <2>1. item = [kind |-> "hot", code |-> Codebook[key]]
    BY <1>1 DEF EncodeEvent
  <2> QED BY <1>1, <2>1 DEF WireRecord, HotRecord, Kinds
<1>2. CASE ~(event \in SliceEvents /\ key \in DOMAIN Codebook) /\ track = from
  <2>1. item = [kind |-> "event", event |-> event, delta |-> delta,
                duration |-> duration]
    BY <1>2 DEF EncodeEvent
  <2> QED BY <2>1 DEF WireRecord, EventRecord, Kinds
<1>3. CASE track # from
  <2>1. item = [kind |-> "tracked", track |-> track, event |-> event,
                delta |-> delta, duration |-> duration]
    BY <1>3 DEF EncodeEvent
  <2> QED BY <2>1 DEF WireRecord, TrackedRecord, Kinds
<1> QED BY <1>1, <1>2, <1>3

(* A fresh chunk is a chunk.                                                *)
LEMMA FreshChunkType ==
  ASSUME TypeOK, NEW g \in Generations, NEW base \in Stamps
  PROVE  FreshChunk(g, base) \in Chunk
<1>1. Len(log) \in Nat /\ total_records \in Nat /\ total_events \in Nat
  BY DEF TypeOK
<1>2. 0 \in Stamps /\ 0 \in Generations /\ <<>> \in Seq(WireRecord)
  BY DEF Stamps, Generations
<1>3. next_sequence \in Nat
  BY DEF TypeOK
<1> QED BY <1>1, <1>2, <1>3 DEF FreshChunk, Here, Chunk, Position

LEMMA PlusNat == ASSUME NEW a \in Nat, NEW b \in Nat PROVE a + b \in Nat
  OBVIOUS

(* What a commit makes of the fields of a chunk.                            *)
LEMMA CommittedFields ==
  ASSUME NEW chunk \in Chunk, NEW item \in WireRecord, item.kind \in Kinds,
         NEW n \in Nat
  PROVE  /\ Append(chunk.items, item) \in Seq(WireRecord)
         /\ Len(Append(chunk.items, item)) = Len(chunk.items) + 1
         /\ chunk.bits + Bits[item.kind] \in Nat
         /\ chunk.records \in Nat /\ chunk.records + 1 \in Nat
         /\ chunk.events \in Nat /\ chunk.events + n \in Nat
         /\ chunk.syncs + 1 \in Nat
<1>1. /\ chunk.items \in Seq(WireRecord) /\ chunk.bits \in Nat
      /\ chunk.records \in Nat /\ chunk.events \in Nat /\ chunk.syncs \in Nat
  BY DEF Chunk
<1>2. /\ Append(chunk.items, item) \in Seq(WireRecord)
      /\ Len(Append(chunk.items, item)) = Len(chunk.items) + 1
  BY <1>1
<1>3. Bits[item.kind] \in Nat
  OBVIOUS
<1>4. chunk.bits + Bits[item.kind] \in Nat
  BY <1>1, <1>3, PlusNat
<1>5. chunk.records + 1 \in Nat
  BY <1>1, PlusNat
<1>6. chunk.events + n \in Nat
  BY <1>1, PlusNat
<1>7. chunk.syncs + 1 \in Nat
  BY <1>1, PlusNat
<1> QED BY <1>1, <1>2, <1>4, <1>5, <1>6, <1>7

(* Committing a record to a chunk gives a chunk.                            *)
LEMMA CommitTypes ==
  ASSUME NEW chunk \in Chunk, NEW item \in WireRecord, item.kind \in Kinds,
         NEW n \in Nat
  PROVE  CommitData(chunk, item, n) \in Chunk /\ CommitSync(chunk, item) \in Chunk
<1>1. /\ Append(chunk.items, item) \in Seq(WireRecord)
      /\ chunk.bits + Bits[item.kind] \in Nat
      /\ chunk.records + 1 \in Nat /\ chunk.events + n \in Nat
      /\ chunk.syncs + 1 \in Nat
  BY CommittedFields
<1>2. CommitData(chunk, item, n) \in Chunk
  BY <1>1 DEF CommitData, Chunk
<1>3. CommitSync(chunk, item) \in Chunk
  BY <1>1 DEF CommitSync, Chunk
<1> QED BY <1>2, <1>3

(* The slot a chunk is started in exists.                                   *)
LEMMA NextSlotType ==
  ASSUME TypeOK
  PROVE  NextSlot \in Slots
BY DEF TypeOK, NextSlot, Slots, NoChunk

----------------------------------------------------------------------------
(* Type correctness.                                                        *)

(* The part of TypeOK that a call which records nothing leaves alone.       *)
ImageTypeOK ==
  /\ chunks \in [Slots -> Chunk]
  /\ header \in FileHeader
  /\ current_chunk \in Slots \union {NoChunk}
  /\ valid_chunks \in 0..ChunkCount
  /\ next_sequence \in Nat
  /\ current_generation \in Generations
  /\ current_timestamp \in Stamps
  /\ current_track \in Tracks
  /\ model \in Models
  /\ has_record \in BOOLEAN /\ has_sync \in BOOLEAN /\ sync_advanced \in BOOLEAN
  /\ total_records \in Nat /\ overwritten_records \in Nat
  /\ total_events \in Nat /\ overwritten_events \in Nat
  /\ log \in Seq(DataEntry \union SyncRecord)

CallerTypeOK ==
  /\ dropped_records \in Nat
  /\ scopes \in Seq(Scope)
  /\ finalized \in BOOLEAN
  /\ requested \in Nat

LEMMA TypeOKSplit == TypeOK <=> ImageTypeOK /\ CallerTypeOK
BY DEF TypeOK, ImageTypeOK, CallerTypeOK

LEMMA UnchangedImageType == ImageTypeOK /\ UNCHANGED image => ImageTypeOK'
BY DEF ImageTypeOK, image, totals, context, flags, ring

(* Starting a chunk.                                                        *)
LEMMA StartChunkType ==
  ASSUME TypeOK, StartChunk
  PROVE  /\ current_chunk' = NextSlot /\ NextSlot \in Slots
         /\ valid_chunks' \in 0..ChunkCount
         /\ next_sequence' \in Nat
         /\ header' \in FileHeader
         /\ overwritten_records' \in Nat /\ overwritten_events' \in Nat
<1>1. NextSlot \in Slots
  BY NextSlotType
<1>2. chunks[NextSlot].records \in Nat /\ chunks[NextSlot].events \in Nat
  BY <1>1 DEF TypeOK, Chunk
<1>3. current_chunk' = NextSlot /\ next_sequence' = next_sequence + 1
  BY DEF StartChunk
<1>4. next_sequence' \in Nat
  BY <1>3 DEF TypeOK
<1>5. CASE valid_chunks # ChunkCount
  <2>1. /\ valid_chunks' = valid_chunks + 1
        /\ UNCHANGED <<header, overwritten_records, overwritten_events>>
    BY <1>5 DEF StartChunk
  <2>2. valid_chunks' \in 0..ChunkCount
    BY <1>5, <2>1 DEF TypeOK
  <2> QED BY <1>1, <1>3, <1>4, <2>1, <2>2 DEF TypeOK
<1>6. CASE valid_chunks = ChunkCount
  <2>1. /\ overwritten_records' = overwritten_records + chunks[NextSlot].records
        /\ overwritten_events' = overwritten_events + chunks[NextSlot].events
        /\ header' = [header EXCEPT !.wrapped = TRUE]
        /\ valid_chunks' = valid_chunks
    BY <1>6 DEF StartChunk
  <2>2. header' \in FileHeader
    BY <2>1 DEF TypeOK, FileHeader
  <2>3. overwritten_records \in Nat /\ overwritten_events \in Nat
    BY DEF TypeOK
  <2>4. overwritten_records' \in Nat /\ overwritten_events' \in Nat
    BY <1>2, <2>1, <2>3
  <2>5. valid_chunks' \in 0..ChunkCount
    BY <2>1 DEF TypeOK
  <2> QED BY <1>1, <1>3, <1>4, <2>2, <2>4, <2>5
<1> QED BY <1>5, <1>6

(* Recording an event.                                                      *)
LEMMA AppendEventType ==
  ASSUME TypeOK, NEW timestamp \in Stamps, NEW track \in Tracks, NEW event \in Events,
         NEW duration \in Stamps, NEW started \in Generations,
         AppendEvent(timestamp, track, event, duration, started)
  PROVE  ImageTypeOK'
<1> DEFINE observed == IF current_chunk = NoChunk THEN 0
                       ELSE Delta(timestamp, current_timestamp)
           here     == EncodeEvent(model, current_track, observed, track, event, duration)
           restart  == EncodeEvent(InitialModel, DefaultTrack, 0, track, event, duration)
<1>1. observed \in Stamps
  <2>1. current_timestamp \in Int /\ timestamp \in Int
    BY DEF TypeOK, Stamps
  <2> QED BY <2>1, ClockTypes
<1>2. here \in WireRecord /\ here.kind \in Kinds
  BY <1>1, EncodeEventType DEF TypeOK
<1>3. restart \in WireRecord /\ restart.kind \in Kinds
  BY ClockTypes, EncodeEventType
<1>4. Expanded(event) \in Nat
  BY DEF Expanded
<1>5. /\ current_timestamp' \in Stamps /\ current_track' \in Tracks
      /\ current_generation' \in Generations
      /\ has_record' \in BOOLEAN /\ has_sync' \in BOOLEAN
      /\ total_records' \in Nat
  BY DEF AppendEvent, TypeOK
<1>6. model' \in Models
  BY DEF AppendEvent, ModelAfter, Models, InitialModel
<1>7. sync_advanced' \in BOOLEAN
  BY DEF AppendEvent, TypeOK
<1>8. total_events' \in Nat
  BY <1>4 DEF AppendEvent, TypeOK
<1>9. log' \in Seq(DataEntry \union SyncRecord)
  <2> DEFINE entry == [kind |-> "data", generation |-> current_generation,
                       track |-> track, event |-> event, timestamp |-> timestamp,
                       duration |-> duration, started |-> started]
  <2>1. entry \in DataEntry
    BY DEF DataEntry, TypeOK
  <2>2. log' = Append(log, entry)
    BY DEF AppendEvent
  <2> HIDE DEF entry
  <2> QED BY <2>1, <2>2 DEF TypeOK
<1>10. /\ chunks' \in [Slots -> Chunk] /\ header' \in FileHeader
       /\ current_chunk' \in Slots \union {NoChunk} /\ valid_chunks' \in 0..ChunkCount
       /\ next_sequence' \in Nat
       /\ overwritten_records' \in Nat /\ overwritten_events' \in Nat
  <2>1. CASE NeedsChunk(here)
    <3>1. /\ StartChunk
          /\ chunks' = [chunks EXCEPT ![NextSlot] =
               CommitData(FreshChunk(current_generation, timestamp), restart,
                          Expanded(event))]
      BY <2>1 DEF AppendEvent
    <3>2. CommitData(FreshChunk(current_generation, timestamp), restart,
                     Expanded(event)) \in Chunk
      BY <1>3, <1>4, FreshChunkType, CommitTypes DEF TypeOK
    <3> QED BY <3>1, <3>2, StartChunkType DEF TypeOK
  <2>2. CASE ~NeedsChunk(here)
    <3>1. /\ UNCHANGED ring
          /\ chunks' = [chunks EXCEPT ![current_chunk] =
               CommitData(chunks[current_chunk], here, Expanded(event))]
      BY <2>2 DEF AppendEvent
    <3>2. current_chunk \in Slots
      BY <2>2 DEF NeedsChunk, TypeOK
    <3>3. CommitData(chunks[current_chunk], here, Expanded(event)) \in Chunk
      BY <1>2, <1>4, <3>2, CommitTypes DEF TypeOK
    <3> QED BY <3>1, <3>2, <3>3 DEF TypeOK, ring
  <2> QED BY <2>1, <2>2
<1> QED BY <1>5, <1>6, <1>7, <1>8, <1>9, <1>10 DEF ImageTypeOK

(* Recording a clock synchronisation.                                       *)
LEMMA ClockSyncType ==
  ASSUME TypeOK, NEW generation \in Generations, NEW before \in Samples,
         NEW after \in Samples, ClockSync(generation, before, after)
  PROVE  ImageTypeOK'
<1> DEFINE item == [kind |-> "sync", generation |-> generation, before |-> before,
                    after |-> after]
           fresh == generation # current_generation \/ NeedsChunk(item)
<1>1. before \in Stamps /\ after \in Stamps
  BY DEF ClockSync, SyncAccepted, SampleValid
<1>2. item \in SyncRecord
  BY <1>1 DEF SyncRecord
<1>3. item \in WireRecord /\ item.kind \in Kinds
  BY <1>2 DEF WireRecord, Kinds
<1>4. /\ current_generation' \in Generations /\ has_sync' \in BOOLEAN
      /\ sync_advanced' \in BOOLEAN /\ has_record' \in BOOLEAN
      /\ total_records' \in Nat /\ total_events' \in Nat
  BY DEF ClockSync, TypeOK, totals
<1>5. current_timestamp' \in Stamps
  BY <1>1, ClockTypes DEF ClockSync
<1>6. log' \in Seq(DataEntry \union SyncRecord)
  <2>1. log' = Append(log, item)
    BY DEF ClockSync
  <2> HIDE DEF item
  <2> QED BY <1>2, <2>1 DEF TypeOK
<1>7. /\ chunks' \in [Slots -> Chunk] /\ header' \in FileHeader
      /\ current_chunk' \in Slots \union {NoChunk} /\ valid_chunks' \in 0..ChunkCount
      /\ next_sequence' \in Nat /\ current_track' \in Tracks /\ model' \in Models
      /\ overwritten_records' \in Nat /\ overwritten_events' \in Nat
  <2>1. CASE fresh
    <3>1. /\ StartChunk
          /\ chunks' = [chunks EXCEPT ![NextSlot] =
                          CommitSync(FreshChunk(generation, before), item)]
          /\ current_track' = DefaultTrack /\ model' = InitialModel
      BY <2>1 DEF ClockSync
    <3>2. CommitSync(FreshChunk(generation, before), item) \in Chunk
      BY <1>1, <1>3, FreshChunkType, CommitTypes
    <3>3. model' \in Models
      BY <3>1 DEF Models, InitialModel
    <3> QED BY <3>1, <3>2, <3>3, StartChunkType DEF TypeOK
  <2>2. CASE ~fresh
    <3>1. /\ UNCHANGED ring /\ UNCHANGED <<current_track, model>>
          /\ chunks' = [chunks EXCEPT ![current_chunk] =
                          CommitSync(chunks[current_chunk], item)]
      BY <2>2 DEF ClockSync
    <3>2. current_chunk \in Slots
      BY <2>2 DEF NeedsChunk, TypeOK
    <3>3. CommitSync(chunks[current_chunk], item) \in Chunk
      BY <1>3, <3>2, CommitTypes DEF TypeOK
    <3> QED BY <3>1, <3>2, <3>3 DEF TypeOK, ring
  <2> QED BY <2>1, <2>2
<1> QED BY <1>4, <1>5, <1>6, <1>7 DEF ImageTypeOK

LEMMA DropType == TypeOK /\ Drop => ImageTypeOK' /\ dropped_records' \in Nat
<1> SUFFICES ASSUME TypeOK, Drop PROVE ImageTypeOK' /\ dropped_records' \in Nat
  OBVIOUS
<1>1. ImageTypeOK'
  BY TypeOKSplit, UnchangedImageType DEF Drop
<1> QED BY <1>1 DEF Drop, TypeOK

(* What the innermost scope and the rest of the stack are.                  *)
LEMMA ScopeTypes ==
  ASSUME TypeOK, scopes # <<>>
  PROVE  /\ Innermost \in Scope /\ Popped \in Seq(Scope)
         /\ Len(scopes) \in Nat \ {0} /\ Len(Popped) = Len(scopes) - 1
         /\ Innermost = scopes[Len(scopes)]
         /\ \A i \in 1..Len(Popped) : Popped[i] = scopes[i]
<1>1. scopes \in Seq(Scope)
  BY DEF TypeOK
<1>2. Len(scopes) \in Nat \ {0} /\ \A i \in 1..Len(scopes) : scopes[i] \in Scope
  BY <1>1, EmptySeq, LenProperties
<1>3. \A i \in 1..(Len(scopes) - 1) : scopes[i] \in Scope
  BY <1>2
<1>4. /\ Popped \in Seq(Scope) /\ Len(Popped) = Len(scopes) - 1
      /\ \A i \in 1..(Len(scopes) - 1) : Popped[i] = scopes[i]
  <2> DEFINE n == Len(scopes) - 1
  <2>1. n \in Int /\ 1 \in Int /\ n >= 0 /\ \A i \in 1..n : scopes[i] \in Scope
    BY <1>2, <1>3
  <2>2. Popped = SubSeq(scopes, 1, n)
    BY DEF Popped
  <2> HIDE DEF n
  <2>3. /\ SubSeq(scopes, 1, n) \in Seq(Scope)
        /\ Len(SubSeq(scopes, 1, n)) = IF 1 <= n THEN n - 1 + 1 ELSE 0
        /\ \A i \in 1..(n - 1 + 1) : SubSeq(scopes, 1, n)[i] = scopes[1 + i - 1]
    BY <2>1, SubSeqProperties
  <2>4. Popped \in Seq(Scope) /\ Len(Popped) = n /\ \A i \in 1..n : Popped[i] = scopes[i]
    BY <2>1, <2>2, <2>3
  <2> QED BY <2>4 DEF n
<1> QED BY <1>2, <1>4 DEF Innermost

(* Every reachable state is well typed: counters stay in their width,       *)
(* indices in their arrays.                                                 *)
THEOREM TypeCorrect == Spec => []TypeOK
<1>1. Init => TypeOK
  <2> SUFFICES ASSUME Init PROVE TypeOK
    OBVIOUS
  <2>1. EmptyChunk \in Chunk
    BY DEF EmptyChunk, Chunk, Position, Stamps, Generations
  <2>2. header \in FileHeader
    BY DEF Init, FileHeader
  <2>3. chunks \in [Slots -> Chunk]
    BY <2>1 DEF Init
  <2>4. valid_chunks \in 0..ChunkCount /\ 0 \in Stamps
    BY DEF Init, Stamps
  <2>5. model \in Models
    BY DEF Init, Models, InitialModel
  <2>6. scopes \in Seq(Scope) /\ log \in Seq(DataEntry \union SyncRecord)
    BY EmptySeq DEF Init
  <2> QED BY <2>2, <2>3, <2>4, <2>5, <2>6 DEF Init, TypeOK
<1>2. TypeOK /\ [Next]_vars => TypeOK'
  <2> SUFFICES ASSUME TypeOK, [Next]_vars PROVE TypeOK'
    OBVIOUS
  <2>0. CallerTypeOK /\ ImageTypeOK
    BY TypeOKSplit
  <2>1. ASSUME NEW t \in Samples, NEW track \in Tracks, NEW event \in InstantEvents,
               NEW ok \in BOOLEAN, Emit(t, track, event, ok)
        PROVE  TypeOK'
    <3>1. requested' \in Nat /\ UNCHANGED <<scopes, finalized>>
      BY <2>1 DEF Emit, Request, TypeOK
    <3>2. CASE ok /\ EventAccepted(t, 0)
      <4>1. /\ AppendEvent(t, track, event, 0, current_generation)
            /\ UNCHANGED dropped_records
        BY <2>1, <3>2 DEF Emit
      <4>2. t \in Stamps
        BY <3>2 DEF EventAccepted, SampleValid
      <4>3. ImageTypeOK'
        BY <4>1, <4>2, AppendEventType, ClockTypes DEF TypeOK, Events
      <4> QED BY <2>0, <3>1, <4>1, <4>3 DEF TypeOK, ImageTypeOK, CallerTypeOK
    <3>3. CASE ~(ok /\ EventAccepted(t, 0))
      <4>1. Drop
        BY <2>1, <3>3 DEF Emit
      <4> QED BY <2>0, <3>1, <4>1, DropType DEF TypeOK, ImageTypeOK, CallerTypeOK
    <3> QED BY <3>2, <3>3
  <2>2. ASSUME NEW t \in Samples, NEW track \in Tracks, NEW event \in SliceEvents,
               NEW ok \in BOOLEAN, Begin(t, track, event, ok)
        PROVE  TypeOK'
    <3>1. requested' \in Nat /\ UNCHANGED finalized
      BY <2>2 DEF Begin, Request, TypeOK
    <3>2. CASE BeginAccepted(t, ok)
      <4> DEFINE scope == [started_at |-> t, track |-> track, event |-> event,
                           generation |-> current_generation]
      <4>1. scopes' = Append(scopes, scope) /\ UNCHANGED <<image, dropped_records>>
        BY <2>2, <3>2 DEF Begin
      <4>2. scope \in Scope
        BY <3>2 DEF BeginAccepted, SampleValid, Scope, TypeOK
      <4> HIDE DEF scope
      <4>3. scopes' \in Seq(Scope)
        BY <4>1, <4>2 DEF TypeOK
      <4>4. ImageTypeOK'
        BY <2>0, <4>1, UnchangedImageType
      <4> QED BY <2>0, <3>1, <4>1, <4>3, <4>4 DEF TypeOK, ImageTypeOK, CallerTypeOK
    <3>3. CASE ~BeginAccepted(t, ok)
      <4>1. Drop /\ UNCHANGED scopes
        BY <2>2, <3>3 DEF Begin
      <4> QED BY <2>0, <3>1, <4>1, DropType DEF TypeOK, ImageTypeOK, CallerTypeOK
    <3> QED BY <3>2, <3>3
  <2>3. ASSUME NEW t \in Samples, End(t)
        PROVE  TypeOK'
    <3> DEFINE duration == Delta(t, Innermost.started_at)
    <3>1. scopes # <<>> /\ UNCHANGED <<finalized, requested>>
      BY <2>3 DEF End
    <3>2. Innermost \in Scope /\ Popped \in Seq(Scope)
      BY <3>1, ScopeTypes
    <3>3. duration \in Stamps
      <4>1. t \in Int /\ Innermost.started_at \in Int
        BY <3>2 DEF Samples, Scope, Stamps
      <4> QED BY <4>1, ClockTypes
    <3>4. CASE EventAccepted(t, duration)
      <4>1. /\ AppendEvent(t, Innermost.track, Innermost.event, duration,
                           Innermost.generation)
            /\ scopes' = Popped /\ UNCHANGED dropped_records
        BY <2>3, <3>4 DEF End
      <4>2. t \in Stamps
        BY <3>4 DEF EventAccepted, SampleValid
      <4>3. /\ Innermost.track \in Tracks /\ Innermost.event \in Events
            /\ Innermost.generation \in Generations
        BY <3>2 DEF Scope, Events
      <4>4. ImageTypeOK'
        BY <3>3, <4>1, <4>2, <4>3, AppendEventType
      <4> QED BY <2>0, <3>1, <3>2, <4>1, <4>4 DEF TypeOK, ImageTypeOK, CallerTypeOK
    <3>5. CASE ~EventAccepted(t, duration)
      <4>1. UNCHANGED <<dropped_records, image, scopes>>
        BY <2>3, <3>5 DEF End, Retained
      <4>2. ImageTypeOK'
        BY <2>0, <4>1, UnchangedImageType
      <4> QED BY <2>0, <3>1, <4>1, <4>2 DEF TypeOK, ImageTypeOK, CallerTypeOK
    <3> QED BY <3>4, <3>5
  <2>4. CASE EndUnmatched
    <3>1. Drop /\ UNCHANGED <<scopes, finalized>> /\ requested' \in Nat
      BY <2>4 DEF EndUnmatched, Request, TypeOK
    <3> QED BY <2>0, <3>1, DropType DEF TypeOK, ImageTypeOK, CallerTypeOK
  <2>5. CASE Cancel
    <3>1. Drop /\ scopes' = Popped /\ scopes # <<>> /\ UNCHANGED <<finalized, requested>>
      BY <2>5 DEF Cancel
    <3>2. scopes' \in Seq(Scope)
      BY <3>1, ScopeTypes
    <3> QED BY <2>0, <3>1, <3>2, DropType DEF TypeOK, ImageTypeOK, CallerTypeOK
  <2>6. ASSUME NEW g \in Generations, NEW before \in Samples, NEW after \in Samples,
               ClockSync(g, before, after)
        PROVE  TypeOK'
    <3>1. UNCHANGED <<dropped_records, scopes, finalized, requested>>
      BY <2>6 DEF ClockSync
    <3>2. ImageTypeOK'
      BY <2>6, ClockSyncType
    <3> QED BY <2>0, <3>1, <3>2 DEF TypeOK, ImageTypeOK, CallerTypeOK
  <2>7. CASE Finalize
    <3>1. header' \in FileHeader
      BY <2>7 DEF Finalize, FileHeader, TypeOK, Wrapped
    <3>2. finalized' \in BOOLEAN
      BY <2>7 DEF Finalize
    <3> QED BY <2>7, <3>1, <3>2 DEF Finalize, TypeOK, totals, context, flags
  <2>8. CASE UNCHANGED vars
    BY <2>8, <2>0, UnchangedImageType DEF vars, TypeOK, ImageTypeOK, CallerTypeOK
  <2> QED BY <2>1, <2>2, <2>3, <2>4, <2>5, <2>6, <2>7, <2>8 DEF Next
<1> QED BY <1>1, <1>2, PTL DEF Spec

----------------------------------------------------------------------------
(* The ring.                                                                *)
(* A chunk just started, and a chunk that has grown, by one item that       *)
(* counts r records and e events.                                           *)
Started(new, r, e) ==
  /\ new.magic = TRUE /\ new.sequence = next_sequence /\ new.before = Here
  /\ Len(new.items) = 1 /\ new.records = r /\ new.events = e

Grown(old, new, r, e) ==
  /\ new.magic = old.magic /\ new.sequence = old.sequence /\ new.before = old.before
  /\ Len(new.items) = Len(old.items) + 1
  /\ new.records = old.records + r /\ new.events = old.events + e

InFreshChunk(r, e) ==
  /\ StartChunk
  /\ \E c \in Chunk : Started(c, r, e) /\ chunks' = [chunks EXCEPT ![NextSlot] = c]

InCurrentChunk(r, e) ==
  /\ UNCHANGED ring /\ current_chunk \in Slots
  /\ \E c \in Chunk : /\ Grown(chunks[current_chunk], c, r, e)
                      /\ chunks' = [chunks EXCEPT ![current_chunk] = c]

Recording(r, e) ==
  /\ Len(log') = Len(log) + 1
  /\ total_records' = total_records + r /\ total_events' = total_events + e
  /\ InFreshChunk(r, e) \/ InCurrentChunk(r, e)

(* Nothing has been recorded as long as no chunk has been started.          *)
FirstChunkFirst ==
  /\ (current_chunk = NoChunk) <=> (next_sequence = 0)
  /\ next_sequence = 0 => /\ Len(log) = 0 /\ total_records = 0 /\ total_events = 0
                          /\ overwritten_records = 0 /\ overwritten_events = 0

RingInv == TypeOK /\ FirstChunkFirst /\ RingKeepsNewest /\ Ledger

----------------------------------------------------------------------------
(* What a commit does to the chunk it is made in.                           *)
LEMMA CommitFields ==
  ASSUME NEW chunk \in Chunk, NEW item \in WireRecord, item.kind \in Kinds,
         NEW n \in Nat
  PROVE  /\ Grown(chunk, CommitData(chunk, item, n), 1, n)
         /\ Grown(chunk, CommitSync(chunk, item), 0, 0)
<1>1. /\ Append(chunk.items, item) \in Seq(WireRecord)
      /\ Len(Append(chunk.items, item)) = Len(chunk.items) + 1
      /\ chunk.bits + Bits[item.kind] \in Nat
      /\ chunk.records \in Nat /\ chunk.events \in Nat
      /\ chunk.records + 1 \in Nat /\ chunk.events + n \in Nat
      /\ chunk.syncs + 1 \in Nat
  BY CommittedFields
<1>2. Grown(chunk, CommitData(chunk, item, n), 1, n)
  BY <1>1 DEF CommitData, Chunk, Grown
<1>3. Grown(chunk, CommitSync(chunk, item), 0, 0)
  <2>1. chunk.records + 0 = chunk.records /\ chunk.events + 0 = chunk.events
    BY <1>1
  <2>2. LET new == CommitSync(chunk, item)
        IN  /\ new.magic = chunk.magic /\ new.sequence = chunk.sequence
            /\ new.before = chunk.before /\ new.records = chunk.records
            /\ new.events = chunk.events /\ Len(new.items) = Len(chunk.items) + 1
    BY <1>1 DEF CommitSync, Chunk
  <2> QED BY <2>1, <2>2 DEF Grown
<1> QED BY <1>2, <1>3

LEMMA FreshFields ==
  ASSUME TypeOK, NEW g \in Generations, NEW base \in Stamps, NEW new \in Chunk,
         NEW r \in Nat, NEW e \in Nat, Grown(FreshChunk(g, base), new, r, e)
  PROVE  Started(new, r, e)
<1>1. /\ new.magic = TRUE /\ new.sequence = next_sequence /\ new.before = Here
      /\ Len(new.items) = Len(<<>>) + 1 /\ new.records = 0 + r /\ new.events = 0 + e
  BY DEF Grown, FreshChunk, Here
<1> QED BY <1>1, EmptySeq DEF Started

LEMMA AppendEventRecords ==
  ASSUME TypeOK, NEW timestamp \in Stamps, NEW track \in Tracks, NEW event \in Events,
         NEW duration \in Stamps, NEW started \in Generations,
         AppendEvent(timestamp, track, event, duration, started)
  PROVE  \E e \in 1..2 : Recording(1, e)
<1> DEFINE observed == IF current_chunk = NoChunk THEN 0
                       ELSE Delta(timestamp, current_timestamp)
           here     == EncodeEvent(model, current_track, observed, track, event, duration)
           restart  == EncodeEvent(InitialModel, DefaultTrack, 0, track, event, duration)
           e        == Expanded(event)
<1>1. observed \in Stamps
  <2>1. current_timestamp \in Int /\ timestamp \in Int
    BY DEF TypeOK, Stamps
  <2> QED BY <2>1, ClockTypes
<1>2. here \in WireRecord /\ here.kind \in Kinds
  BY <1>1, EncodeEventType DEF TypeOK
<1>3. restart \in WireRecord /\ restart.kind \in Kinds
  BY ClockTypes, EncodeEventType
<1>4. e \in 1..2 /\ e \in Nat
  BY DEF Expanded
<1>5. /\ total_records' = total_records + 1 /\ total_events' = total_events + e
      /\ Len(log') = Len(log) + 1
  <2> DEFINE entry == [kind |-> "data", generation |-> current_generation,
                       track |-> track, event |-> event, timestamp |-> timestamp,
                       duration |-> duration, started |-> started]
  <2>1. entry \in DataEntry
    BY DEF DataEntry, TypeOK
  <2>2. /\ log' = Append(log, entry) /\ total_records' = total_records + 1
        /\ total_events' = total_events + e
    BY DEF AppendEvent
  <2> HIDE DEF entry, e
  <2> QED BY <2>1, <2>2 DEF TypeOK
<1>6. CASE NeedsChunk(here)
  <2> DEFINE c == CommitData(FreshChunk(current_generation, timestamp), restart, e)
  <2>1. StartChunk /\ chunks' = [chunks EXCEPT ![NextSlot] = c]
    BY <1>6 DEF AppendEvent
  <2>2. current_generation \in Generations
    BY DEF TypeOK
  <2>3. FreshChunk(current_generation, timestamp) \in Chunk
    BY <2>2, FreshChunkType
  <2>4. c \in Chunk /\ Grown(FreshChunk(current_generation, timestamp), c, 1, e)
    BY <1>3, <1>4, <2>3, CommitTypes, CommitFields
  <2> HIDE DEF c, e
  <2>5. Started(c, 1, e)
    BY <1>4, <2>2, <2>4, FreshFields
  <2> QED BY <1>4, <1>5, <2>1, <2>4, <2>5 DEF Recording, InFreshChunk
<1>7. CASE ~NeedsChunk(here)
  <2> DEFINE c == CommitData(chunks[current_chunk], here, e)
  <2>1. UNCHANGED ring /\ chunks' = [chunks EXCEPT ![current_chunk] = c]
    BY <1>7 DEF AppendEvent
  <2>2. current_chunk \in Slots
    BY <1>7 DEF NeedsChunk, TypeOK
  <2>3. c \in Chunk /\ Grown(chunks[current_chunk], c, 1, e)
    BY <1>2, <1>4, <2>2, CommitTypes, CommitFields DEF TypeOK
  <2> HIDE DEF c, e
  <2> QED BY <1>4, <1>5, <2>1, <2>2, <2>3 DEF Recording, InCurrentChunk
<1> QED BY <1>6, <1>7

LEMMA ClockSyncRecords ==
  ASSUME TypeOK, NEW generation \in Generations, NEW before \in Samples,
         NEW after \in Samples, ClockSync(generation, before, after)
  PROVE  Recording(0, 0)
<1> DEFINE item == [kind |-> "sync", generation |-> generation, before |-> before,
                    after |-> after]
           fresh == generation # current_generation \/ NeedsChunk(item)
<1>1. before \in Stamps /\ after \in Stamps
  BY DEF ClockSync, SyncAccepted, SampleValid
<1>2. item \in SyncRecord
  BY <1>1 DEF SyncRecord
<1>3. item \in WireRecord /\ item.kind \in Kinds
  BY <1>2 DEF WireRecord, Kinds
<1>4. /\ Len(log') = Len(log) + 1
      /\ total_records' = total_records + 0 /\ total_events' = total_events + 0
  <2>1. log' = Append(log, item) /\ UNCHANGED totals
    BY DEF ClockSync
  <2> HIDE DEF item
  <2> QED BY <1>2, <2>1 DEF TypeOK, totals
<1>5. CASE fresh
  <2> DEFINE c == CommitSync(FreshChunk(generation, before), item)
  <2>1. StartChunk /\ chunks' = [chunks EXCEPT ![NextSlot] = c]
    BY <1>5 DEF ClockSync
  <2>2. FreshChunk(generation, before) \in Chunk
    BY <1>1, FreshChunkType
  <2>3. c \in Chunk /\ Grown(FreshChunk(generation, before), c, 0, 0)
    BY <1>3, <2>2, CommitTypes, CommitFields
  <2> HIDE DEF c
  <2>4. Started(c, 0, 0)
    BY <1>1, <2>3, FreshFields
  <2> QED BY <1>4, <2>1, <2>3, <2>4 DEF Recording, InFreshChunk
<1>6. CASE ~fresh
  <2> DEFINE c == CommitSync(chunks[current_chunk], item)
  <2>1. UNCHANGED ring /\ chunks' = [chunks EXCEPT ![current_chunk] = c]
    BY <1>6 DEF ClockSync
  <2>2. current_chunk \in Slots
    BY <1>6 DEF NeedsChunk, TypeOK
  <2>3. c \in Chunk /\ Grown(chunks[current_chunk], c, 0, 0)
    BY <1>3, <2>2, CommitTypes, CommitFields DEF TypeOK
  <2> HIDE DEF c
  <2> QED BY <1>4, <2>1, <2>2, <2>3 DEF Recording, InCurrentChunk
<1> QED BY <1>5, <1>6

Quiet ==
  UNCHANGED <<chunks, log, totals, current_chunk, valid_chunks, next_sequence,
              overwritten_records, overwritten_events>>

LEMMA QuietImage == UNCHANGED image => Quiet
BY DEF image, ring, totals, Quiet

(* To the ring, a call records one thing or does nothing.                   *)
LEMMA RecordingSteps ==
  ASSUME TypeOK, [Next]_vars
  PROVE  Quiet \/ \E r \in 0..1, e \in 0..2 : Recording(r, e)
<1>1. ASSUME NEW t \in Samples, NEW track \in Tracks, NEW event \in InstantEvents,
             NEW ok \in BOOLEAN, Emit(t, track, event, ok)
      PROVE  Quiet \/ \E r \in 0..1, e \in 0..2 : Recording(r, e)
  <2>1. CASE ok /\ EventAccepted(t, 0)
    <3>1. AppendEvent(t, track, event, 0, current_generation)
      BY <1>1, <2>1 DEF Emit
    <3>2. t \in Stamps
      BY <2>1 DEF EventAccepted, SampleValid
    <3> QED BY <3>1, <3>2, AppendEventRecords, ClockTypes DEF TypeOK, Events
  <2>2. CASE ~(ok /\ EventAccepted(t, 0))
    BY <1>1, <2>2, QuietImage DEF Emit, Drop
  <2> QED BY <2>1, <2>2
<1>2. ASSUME NEW t \in Samples, NEW track \in Tracks, NEW event \in SliceEvents,
             NEW ok \in BOOLEAN, Begin(t, track, event, ok)
      PROVE  Quiet
  BY <1>2, QuietImage DEF Begin, Drop
<1>3. ASSUME NEW t \in Samples, End(t)
      PROVE  Quiet \/ \E r \in 0..1, e \in 0..2 : Recording(r, e)
  <2> DEFINE duration == Delta(t, Innermost.started_at)
  <2>1. Innermost \in Scope
    BY <1>3, ScopeTypes DEF End
  <2>2. duration \in Stamps
    <3>1. t \in Int /\ Innermost.started_at \in Int
      BY <2>1 DEF Samples, Scope, Stamps
    <3> QED BY <3>1, ClockTypes
  <2>3. CASE EventAccepted(t, duration)
    <3>1. AppendEvent(t, Innermost.track, Innermost.event, duration, Innermost.generation)
      BY <1>3, <2>3 DEF End
    <3>2. t \in Stamps
      BY <2>3 DEF EventAccepted, SampleValid
    <3>3. /\ Innermost.track \in Tracks /\ Innermost.event \in Events
          /\ Innermost.generation \in Generations
      BY <2>1 DEF Scope, Events
    <3> QED BY <2>2, <3>1, <3>2, <3>3, AppendEventRecords
  <2>4. CASE ~EventAccepted(t, duration)
    BY <1>3, <2>4, QuietImage DEF End, Retained
  <2> QED BY <2>3, <2>4
<1>4. CASE EndUnmatched
  BY <1>4, QuietImage DEF EndUnmatched, Drop
<1>5. CASE Cancel
  BY <1>5, QuietImage DEF Cancel, Drop
<1>6. ASSUME NEW g \in Generations, NEW before \in Samples, NEW after \in Samples,
             ClockSync(g, before, after)
      PROVE  \E r \in 0..1, e \in 0..2 : Recording(r, e)
  BY <1>6, ClockSyncRecords
<1>7. CASE Finalize
  BY <1>7 DEF Finalize, Quiet
<1>8. CASE UNCHANGED vars
  BY <1>8, QuietImage DEF vars
<1> QED BY <1>1, <1>2, <1>3, <1>4, <1>5, <1>6, <1>7, <1>8 DEF Next

----------------------------------------------------------------------------
(* Ages.                                                                    *)

(* Ages number the slots from the current one backwards.                    *)
LEMMA AgeFacts ==
  ASSUME current_chunk \in Slots, NEW slot \in Slots
  PROVE  /\ Age(slot) \in 0..(ChunkCount - 1)
         /\ (Age(slot) = 0) <=> (slot = current_chunk)
         /\ (Age(slot) = ChunkCount - 1) <=> (slot = NextSlot)
         /\ Successor(slot) \in Slots
         /\ slot # current_chunk => Age(Successor(slot)) = Age(slot) - 1
         /\ Successor(slot) = NextSlot => slot = current_chunk
         /\ NextSlot = Successor(current_chunk)
BY DEF Age, Slots, NextSlot, NoChunk, Successor

(* Starting a chunk makes every slot one older but the one reused, which    *)
(* was the oldest.                                                          *)
LEMMA AgeStep ==
  ASSUME current_chunk \in Slots, current_chunk' = NextSlot, NEW slot \in Slots
  PROVE  Age(slot)' = IF slot = NextSlot THEN 0 ELSE Age(slot) + 1
BY DEF Age, Slots, NextSlot, NoChunk

----------------------------------------------------------------------------
(* The ring invariant.                                                      *)

(* Start of the ring: the first chunk goes to the first slot.               *)
LEMMA FirstAge ==
  ASSUME current_chunk' = 0, NEW slot \in Slots
  PROVE  /\ 0 \in Slots
         /\ Age(slot)' \in 0..(ChunkCount - 1)
         /\ (Age(slot)' = 0) <=> (slot = 0)
BY DEF Age, Slots

LEMMA FreshRing ==
  ASSUME RingInv, TypeOK', NEW r \in Nat, NEW e \in Nat, Recording(r, e),
         InFreshChunk(r, e)
  PROVE  FirstChunkFirst' /\ RingKeepsNewest'
<1> USE DEF RingInv
<1>1. PICK c \in Chunk : Started(c, r, e) /\ chunks' = [chunks EXCEPT ![NextSlot] = c]
  BY DEF InFreshChunk
<1>2. /\ StartChunk /\ current_chunk' = NextSlot /\ NextSlot \in Slots
      /\ next_sequence' = next_sequence + 1 /\ next_sequence \in Nat
      /\ chunks \in [Slots -> Chunk] /\ NoChunk \notin Slots
      /\ valid_chunks \in 0..ChunkCount
  <2>1. StartChunk
    BY DEF InFreshChunk
  <2>2. current_chunk' = NextSlot /\ next_sequence' = next_sequence + 1
    BY <2>1 DEF StartChunk
  <2>3. /\ next_sequence \in Nat /\ valid_chunks \in 0..ChunkCount
        /\ chunks \in [Slots -> Chunk]
    BY DEF TypeOK
  <2> QED BY <2>1, <2>2, <2>3, NextSlotType DEF Slots, NoChunk
<1>3. FirstChunkFirst'
  BY <1>2 DEF FirstChunkFirst
<1>4. valid_chunks = IF next_sequence < ChunkCount THEN next_sequence ELSE ChunkCount
  BY DEF RingKeepsNewest
<1>5. valid_chunks' = IF valid_chunks = ChunkCount THEN ChunkCount ELSE valid_chunks + 1
  BY <1>2 DEF StartChunk
<1>6. valid_chunks' = IF next_sequence' < ChunkCount THEN next_sequence' ELSE ChunkCount
  BY <1>2, <1>4, <1>5
<1>7. \A slot \in Slots :
        IF Live(slot)'
        THEN chunks'[slot].magic
             /\ chunks'[slot].sequence = next_sequence' - 1 - Age(slot)'
        ELSE chunks'[slot] = EmptyChunk
  <2> SUFFICES ASSUME NEW slot \in Slots
               PROVE  IF Live(slot)'
                      THEN chunks'[slot].magic
                           /\ chunks'[slot].sequence = next_sequence' - 1 - Age(slot)'
                      ELSE chunks'[slot] = EmptyChunk
    OBVIOUS
  <2>1. Live(slot)' <=> Age(slot)' < valid_chunks'
    BY <1>2 DEF Live
  <2>2. CASE current_chunk = NoChunk
    <3>1. next_sequence = 0 /\ valid_chunks = 0 /\ NextSlot = 0
      BY <1>4, <2>2 DEF FirstChunkFirst, NextSlot
    <3>2. valid_chunks' = 1
      BY <1>5, <3>1
    <3>3. chunks[slot] = EmptyChunk
      BY <2>2 DEF RingKeepsNewest, Live
    <3>4. /\ Age(slot)' \in 0..(ChunkCount - 1)
          /\ (Age(slot)' = 0) <=> (slot = 0)
      BY <1>2, <3>1, FirstAge
    <3>5. CASE slot = 0
      BY <1>1, <1>2, <2>1, <3>1, <3>2, <3>4, <3>5 DEF Started
    <3>6. CASE slot # 0
      BY <1>1, <1>2, <2>1, <3>1, <3>2, <3>3, <3>4, <3>6
    <3> QED BY <3>5, <3>6
  <2>3. CASE current_chunk \in Slots
    <3>1. Age(slot)' = IF slot = NextSlot THEN 0 ELSE Age(slot) + 1
      BY <1>2, <2>3, AgeStep
    <3>2. /\ Age(slot) \in 0..(ChunkCount - 1)
          /\ (Age(slot) = ChunkCount - 1) <=> (slot = NextSlot)
      BY <2>3, AgeFacts
    <3>3. CASE slot = NextSlot
      <4>1. Age(slot)' = 0 /\ Live(slot)'
        BY <1>2, <1>5, <2>1, <3>1, <3>3
      <4>2. chunks'[slot] = c
        BY <1>1, <1>2, <3>3
      <4> QED BY <1>1, <1>2, <4>1, <4>2 DEF Started
    <3>4. CASE slot # NextSlot
      <4>1. chunks'[slot] = chunks[slot]
        BY <1>1, <1>2, <3>4
      <4>2. Live(slot)' <=> Live(slot)
        BY <1>2, <1>5, <2>1, <2>3, <3>1, <3>2, <3>4 DEF Live
      <4>3. IF Live(slot)
            THEN chunks[slot].magic
                 /\ chunks[slot].sequence = next_sequence - 1 - Age(slot)
            ELSE chunks[slot] = EmptyChunk
        BY DEF RingKeepsNewest
      <4> QED BY <1>2, <3>1, <3>2, <3>4, <4>1, <4>2, <4>3
    <3> QED BY <3>3, <3>4
  <2> QED BY <2>2, <2>3 DEF TypeOK
<1> QED BY <1>3, <1>6, <1>7 DEF RingKeepsNewest

(* Recording in the current chunk moves no chunk.                           *)
LEMMA CurrentRing ==
  ASSUME RingInv, NEW r \in Nat, NEW e \in Nat, Recording(r, e), InCurrentChunk(r, e)
  PROVE  FirstChunkFirst' /\ RingKeepsNewest'
<1>1. PICK c \in Chunk : /\ Grown(chunks[current_chunk], c, r, e)
                         /\ chunks' = [chunks EXCEPT ![current_chunk] = c]
  BY DEF InCurrentChunk
<1>2. /\ current_chunk \in Slots /\ current_chunk' = current_chunk
      /\ valid_chunks' = valid_chunks /\ next_sequence' = next_sequence
      /\ overwritten_records' = overwritten_records
      /\ overwritten_events' = overwritten_events
  BY DEF InCurrentChunk, ring
<1>3. /\ chunks \in [Slots -> Chunk] /\ valid_chunks \in 0..ChunkCount
      /\ next_sequence \in Nat
  BY DEF RingInv, TypeOK
<1>4. next_sequence # 0
  BY <1>2 DEF RingInv, FirstChunkFirst, Slots, NoChunk
<1>5. FirstChunkFirst'
  BY <1>2, <1>4 DEF RingInv, FirstChunkFirst
<1>6. Live(current_chunk)
  <2>1. Age(current_chunk) = 0
    BY <1>2, AgeFacts
  <2>2. valid_chunks = IF next_sequence < ChunkCount THEN next_sequence ELSE ChunkCount
    BY DEF RingInv, RingKeepsNewest
  <2>3. valid_chunks > 0
    BY <1>3, <1>4, <2>2
  <2>4. current_chunk # NoChunk
    BY <1>2 DEF Slots, NoChunk
  <2> QED BY <2>1, <2>3, <2>4 DEF Live
<1>7. ASSUME NEW slot \in Slots
      PROVE  Age(slot)' = Age(slot) /\ (Live(slot)' <=> Live(slot))
  BY <1>2 DEF Age, Live
<1>8. ASSUME NEW slot \in Slots
      PROVE  IF Live(slot)'
             THEN chunks'[slot].magic
                  /\ chunks'[slot].sequence = next_sequence' - 1 - Age(slot)'
             ELSE chunks'[slot] = EmptyChunk
  <2>1. IF Live(slot)
        THEN chunks[slot].magic
             /\ chunks[slot].sequence = next_sequence - 1 - Age(slot)
        ELSE chunks[slot] = EmptyChunk
    BY DEF RingInv, RingKeepsNewest
  <2>2. CASE slot = current_chunk
    BY <1>1, <1>2, <1>3, <1>6, <1>7, <2>1, <2>2 DEF Grown
  <2>3. CASE slot # current_chunk
    BY <1>1, <1>2, <1>3, <1>7, <2>1, <2>3
  <2> QED BY <2>2, <2>3
<1>9. valid_chunks' = IF next_sequence' < ChunkCount THEN next_sequence' ELSE ChunkCount
  BY <1>2 DEF RingInv, RingKeepsNewest
<1> QED BY <1>5, <1>8, <1>9 DEF RingKeepsNewest

----------------------------------------------------------------------------
(* The ledger.                                                              *)

(* A chunk that has just been started, or has grown, ends here and now.     *)
LEMMA StartedEnds ==
  ASSUME TypeOK, NEW r \in Nat, NEW e \in Nat, Recording(r, e), NEW c \in Chunk,
         Started(c, r, e)
  PROVE  EndOf(c) = Here'
<1>1. /\ c.before.items = Len(log) /\ c.before.records = total_records
      /\ c.before.events = total_events
      /\ Len(c.items) = 1 /\ c.records = r /\ c.events = e
  BY DEF Started, Here
<1>2. /\ Len(log') = Len(log) + 1 /\ total_records' = total_records + r
      /\ total_events' = total_events + e
  BY DEF Recording
<1> QED BY <1>1, <1>2 DEF EndOf, Here

LEMMA GrownEnds ==
  ASSUME TypeOK, NEW r \in Nat, NEW e \in Nat, Recording(r, e), NEW c \in Chunk,
         NEW old \in Chunk, Grown(old, c, r, e), EndOf(old) = Here
  PROVE  EndOf(c) = Here'
<1>1. /\ old.before.items + Len(old.items) = Len(log)
      /\ old.before.records + old.records = total_records
      /\ old.before.events + old.events = total_events
  BY DEF EndOf, Here
<1>2. /\ old.before.items \in Nat /\ Len(old.items) \in Nat
      /\ old.before.records \in Nat /\ old.records \in Nat
      /\ old.before.events \in Nat /\ old.events \in Nat /\ Len(log) \in Nat
      /\ total_records \in Nat /\ total_events \in Nat
  BY LenProperties DEF Chunk, Position, TypeOK
<1>3. /\ Len(log') = Len(log) + 1 /\ total_records' = total_records + r
      /\ total_events' = total_events + e
  BY DEF Recording
<1>4. /\ c.before = old.before /\ Len(c.items) = Len(old.items) + 1
      /\ c.records = old.records + r /\ c.events = old.events + e
  BY DEF Grown
<1>5. \A a, b, n \in Nat : a + (b + n) = (a + b) + n
  OBVIOUS
<1>6. old.before.items + (Len(old.items) + 1) = (old.before.items + Len(old.items)) + 1
  BY <1>2, <1>5
<1>7. old.before.records + (old.records + r) = (old.before.records + old.records) + r
  BY <1>2, <1>5
<1>8. old.before.events + (old.events + e) = (old.before.events + old.events) + e
  BY <1>2, <1>5
<1> QED BY <1>1, <1>3, <1>4, <1>6, <1>7, <1>8 DEF EndOf, Here

LEMMA CurrentLedger ==
  ASSUME RingInv, NEW r \in Nat, NEW e \in Nat, Recording(r, e), InCurrentChunk(r, e)
  PROVE  Ledger'
<1>1. PICK c \in Chunk : /\ Grown(chunks[current_chunk], c, r, e)
                         /\ chunks' = [chunks EXCEPT ![current_chunk] = c]
  BY DEF InCurrentChunk
<1>2. /\ current_chunk \in Slots /\ current_chunk' = current_chunk
      /\ valid_chunks' = valid_chunks /\ next_sequence' = next_sequence
      /\ overwritten_records' = overwritten_records
      /\ overwritten_events' = overwritten_events
  BY DEF InCurrentChunk, ring
<1>3. TypeOK /\ chunks \in [Slots -> Chunk]
  BY DEF RingInv, TypeOK
<1> SUFFICES ASSUME NEW slot \in Slots, Live(slot)'
             PROVE  /\ Age(slot)' = valid_chunks' - 1 =>
                         /\ chunks'[slot].before.records = overwritten_records'
                         /\ chunks'[slot].before.events = overwritten_events'
                    /\ EndOf(chunks'[slot]) = IF slot = current_chunk' THEN Here'
                                              ELSE chunks'[Successor(slot)].before
  BY DEF Ledger, EndOf
<1>4. Age(slot)' = Age(slot) /\ Live(slot)
  BY <1>2 DEF Age, Live
<1>5. /\ Age(slot) = valid_chunks - 1 =>
           /\ chunks[slot].before.records = overwritten_records
           /\ chunks[slot].before.events = overwritten_events
      /\ EndOf(chunks[slot]) = IF slot = current_chunk THEN Here
                               ELSE chunks[Successor(slot)].before
  BY <1>4 DEF RingInv, Ledger
<1>6. \A s \in Slots : chunks'[s].before = chunks[s].before
  BY <1>1, <1>2, <1>3 DEF Grown
<1>7. CASE slot = current_chunk
  <2>1. EndOf(c) = Here'
    BY <1>1, <1>2, <1>3, <1>5, <1>7, GrownEnds
  <2>2. chunks'[slot] = c
    BY <1>1, <1>2, <1>3, <1>7
  <2> QED BY <1>2, <1>4, <1>5, <1>6, <1>7, <2>1, <2>2
<1>8. CASE slot # current_chunk
  <2>1. chunks'[slot] = chunks[slot]
    BY <1>1, <1>2, <1>3, <1>8
  <2>2. Successor(slot) \in Slots
    BY <1>2, AgeFacts
  <2> QED BY <1>2, <1>4, <1>5, <1>6, <1>8, <2>1, <2>2
<1> QED BY <1>7, <1>8

(* The oldest live slot takes over where the overwritten chunks stopped:    *)
(* starting a chunk in a full ring adds the one it reuses to them.          *)
LEMMA FreshLedger ==
  ASSUME RingInv, TypeOK', NEW r \in Nat, NEW e \in Nat, Recording(r, e),
         InFreshChunk(r, e)
  PROVE  Ledger'
<1>1. PICK c \in Chunk : Started(c, r, e) /\ chunks' = [chunks EXCEPT ![NextSlot] = c]
  BY DEF InFreshChunk
<1>2. /\ TypeOK /\ chunks \in [Slots -> Chunk] /\ NextSlot \in Slots
      /\ valid_chunks \in 0..ChunkCount /\ next_sequence \in Nat
      /\ overwritten_records \in Nat /\ overwritten_events \in Nat
      /\ NoChunk \notin Slots
  <2>1. TypeOK
    BY DEF RingInv
  <2>2. NextSlot \in Slots
    BY <2>1, NextSlotType
  <2>3. NoChunk \notin Slots
    BY DEF Slots, NoChunk
  <2> QED BY <2>1, <2>2, <2>3 DEF TypeOK
<1>3. StartChunk /\ current_chunk' = NextSlot
  BY DEF InFreshChunk, StartChunk
<1>4. valid_chunks = IF next_sequence < ChunkCount THEN next_sequence ELSE ChunkCount
  BY DEF RingInv, RingKeepsNewest
<1>5. /\ valid_chunks # ChunkCount =>
           /\ valid_chunks' = valid_chunks + 1
           /\ overwritten_records' = overwritten_records
           /\ overwritten_events' = overwritten_events
      /\ valid_chunks = ChunkCount =>
           /\ valid_chunks' = ChunkCount
           /\ overwritten_records' = overwritten_records + chunks[NextSlot].records
           /\ overwritten_events' = overwritten_events + chunks[NextSlot].events
  BY <1>3 DEF StartChunk
<1>6. /\ chunks'[NextSlot] = c /\ EndOf(c) = Here' /\ c.before = Here
      /\ \A s \in Slots : s # NextSlot => chunks'[s] = chunks[s]
  BY <1>1, <1>2, StartedEnds DEF Started
<1> SUFFICES ASSUME NEW slot \in Slots, Live(slot)'
             PROVE  /\ Age(slot)' = valid_chunks' - 1 =>
                         /\ chunks'[slot].before.records = overwritten_records'
                         /\ chunks'[slot].before.events = overwritten_events'
                    /\ EndOf(chunks'[slot]) = IF slot = current_chunk' THEN Here'
                                              ELSE chunks'[Successor(slot)].before
  BY DEF Ledger, EndOf
<1>7. CASE current_chunk = NoChunk
  <2>1. /\ next_sequence = 0 /\ valid_chunks = 0 /\ NextSlot = 0
        /\ total_records = 0 /\ total_events = 0
        /\ overwritten_records = 0 /\ overwritten_events = 0
    BY <1>4, <1>7 DEF RingInv, FirstChunkFirst, NextSlot
  <2>2. valid_chunks' = 1 /\ overwritten_records' = 0 /\ overwritten_events' = 0
    BY <1>5, <2>1, WriterAssumption
  <2>3. Age(slot)' \in 0..(ChunkCount - 1) /\ ((Age(slot)' = 0) <=> (slot = 0))
    BY <1>3, <2>1, FirstAge
  <2>4. slot = NextSlot
    BY <2>1, <2>2, <2>3 DEF Live
  <2>5. c.before.records = 0 /\ c.before.events = 0
    BY <1>6, <2>1 DEF Here
  <2> QED BY <1>3, <1>6, <2>2, <2>4, <2>5
<1>8. CASE current_chunk \in Slots
  <2>1. Age(slot)' = IF slot = NextSlot THEN 0 ELSE Age(slot) + 1
    BY <1>3, <1>8, AgeStep
  <2>2. /\ Age(slot) \in 0..(ChunkCount - 1)
        /\ (Age(slot) = 0) <=> (slot = current_chunk)
        /\ (Age(slot) = ChunkCount - 1) <=> (slot = NextSlot)
        /\ Successor(slot) \in Slots
        /\ slot # current_chunk => Age(Successor(slot)) = Age(slot) - 1
        /\ Successor(slot) = NextSlot => slot = current_chunk
        /\ NextSlot = Successor(current_chunk)
    BY <1>8, AgeFacts
  <2>3. ASSUME NEW s \in Slots, Live(s)
        PROVE  /\ Age(s) = valid_chunks - 1 =>
                    /\ chunks[s].before.records = overwritten_records
                    /\ chunks[s].before.events = overwritten_events
               /\ EndOf(chunks[s]) = IF s = current_chunk THEN Here
                                     ELSE chunks[Successor(s)].before
    BY <2>3 DEF RingInv, Ledger
  <2>4. CASE slot # NextSlot
    <3>1. /\ chunks'[slot] = chunks[slot] /\ slot # current_chunk'
          /\ Age(slot)' = Age(slot) + 1
      BY <1>3, <1>6, <2>1, <2>4
    <3>2. Age(slot) + 1 < valid_chunks'
      BY <3>1 DEF Live
    <3>3. Live(slot)
      BY <1>2, <1>5, <1>8, <2>2, <2>4, <3>2 DEF Live
    <3>4. EndOf(chunks[slot]) = chunks'[Successor(slot)].before
      <4>1. CASE slot = current_chunk
        BY <1>6, <2>2, <2>3, <3>3, <4>1
      <4>2. CASE slot # current_chunk
        BY <1>6, <2>2, <2>3, <3>3, <4>2
      <4> QED BY <4>1, <4>2
    <3>5. ASSUME Age(slot)' = valid_chunks' - 1
          PROVE  /\ chunks[slot].before.records = overwritten_records'
                 /\ chunks[slot].before.events = overwritten_events'
      <4>1. CASE valid_chunks # ChunkCount
        <5>1. Age(slot) = valid_chunks - 1
          BY <1>2, <1>5, <2>2, <3>1, <3>5, <4>1
        <5> QED BY <1>5, <2>3, <3>3, <4>1, <5>1
      <4>2. CASE valid_chunks = ChunkCount
        <5>1. Age(slot) = ChunkCount - 2
          BY <1>5, <2>2, <3>1, <3>5, <4>2
        <5>2. /\ Age(NextSlot) = ChunkCount - 1 /\ NextSlot # current_chunk
              /\ Live(NextSlot)
          BY <1>2, <1>8, <2>2, <4>2, <5>1, AgeFacts DEF Live
        <5>3. Successor(NextSlot) = slot
          BY <1>2, <1>8, <5>1, <5>2 DEF Age, Slots, Successor
        <5>4. /\ chunks[NextSlot].before.records = overwritten_records
              /\ chunks[NextSlot].before.events = overwritten_events
              /\ EndOf(chunks[NextSlot]) = chunks[slot].before
          BY <1>2, <2>3, <4>2, <5>2, <5>3
        <5> QED BY <1>5, <4>2, <5>4 DEF EndOf
      <4> QED BY <4>1, <4>2
    <3> QED BY <3>1, <3>4, <3>5
  <2>5. CASE slot = NextSlot
    <3>1. Age(slot)' = 0
      BY <2>1, <2>5
    <3>2. ASSUME Age(slot)' = valid_chunks' - 1
          PROVE  Here.records = overwritten_records' /\ Here.events = overwritten_events'
      <4>1. Live(current_chunk) /\ Age(current_chunk) = 0 /\ valid_chunks > 0
        <5>1. Age(current_chunk) = 0
          BY <1>8, AgeFacts
        <5>2. valid_chunks > 0
          BY <1>2, <1>4, <1>8 DEF RingInv, FirstChunkFirst
        <5> QED BY <1>2, <1>8, <5>1, <5>2 DEF Live
      <4>2. valid_chunks = ChunkCount /\ ChunkCount = 1
        BY <1>2, <1>5, <3>1, <3>2, <4>1
      <4>3. NextSlot = current_chunk
        BY <1>2, <1>8, <4>2 DEF Slots
      <4>4. /\ chunks[NextSlot].before.records = overwritten_records
            /\ chunks[NextSlot].before.events = overwritten_events
            /\ EndOf(chunks[NextSlot]) = Here
        BY <1>8, <2>3, <4>1, <4>2, <4>3
      <4> QED BY <1>5, <4>2, <4>4 DEF EndOf
    <3> QED BY <1>3, <1>6, <2>5, <3>2
  <2> QED BY <2>4, <2>5
<1> QED BY <1>2, <1>7, <1>8 DEF TypeOK

LEMMA QuietRing ==
  ASSUME RingInv, Quiet
  PROVE  FirstChunkFirst' /\ RingKeepsNewest' /\ Ledger'
<1>1. /\ chunks' = chunks /\ log' = log /\ total_records' = total_records
      /\ total_events' = total_events /\ current_chunk' = current_chunk
      /\ valid_chunks' = valid_chunks /\ next_sequence' = next_sequence
      /\ overwritten_records' = overwritten_records
      /\ overwritten_events' = overwritten_events
  BY DEF Quiet, totals
<1>2. FirstChunkFirst'
  BY <1>1 DEF RingInv, FirstChunkFirst
<1>3. RingKeepsNewest'
  BY <1>1 DEF RingInv, RingKeepsNewest, Live, Age
<1>4. Ledger'
  BY <1>1 DEF RingInv, Ledger, Live, Age, EndOf, Here
<1> QED BY <1>2, <1>3, <1>4

LEMMA RingInit == Init => FirstChunkFirst /\ RingKeepsNewest /\ Ledger
<1> SUFFICES ASSUME Init PROVE FirstChunkFirst /\ RingKeepsNewest /\ Ledger
  OBVIOUS
<1>1. /\ chunks = [slot \in Slots |-> EmptyChunk] /\ current_chunk = NoChunk
      /\ valid_chunks = 0 /\ next_sequence = 0 /\ log = <<>>
      /\ total_records = 0 /\ total_events = 0
      /\ overwritten_records = 0 /\ overwritten_events = 0
  BY DEF Init
<1>2. FirstChunkFirst
  BY <1>1, EmptySeq DEF FirstChunkFirst
<1>3. RingKeepsNewest
  BY <1>1 DEF RingKeepsNewest, Live
<1>4. Ledger
  BY <1>1 DEF Ledger, Live
<1> QED BY <1>2, <1>3, <1>4

LEMMA RingStep == RingInv /\ TypeOK' /\ [Next]_vars => RingInv'
<1> SUFFICES ASSUME RingInv, TypeOK', [Next]_vars PROVE RingInv'
  OBVIOUS
<1>1. Quiet \/ \E r \in 0..1, e \in 0..2 : Recording(r, e)
  BY RecordingSteps DEF RingInv
<1>2. CASE Quiet
  BY <1>2, QuietRing DEF RingInv
<1>3. ASSUME NEW r \in 0..1, NEW e \in 0..2, Recording(r, e)
      PROVE  FirstChunkFirst' /\ RingKeepsNewest' /\ Ledger'
  <2>1. r \in Nat /\ e \in Nat
    OBVIOUS
  <2>2. CASE InFreshChunk(r, e)
    BY <1>3, <2>1, <2>2, FreshRing, FreshLedger
  <2>3. CASE InCurrentChunk(r, e)
    BY <1>3, <2>1, <2>3, CurrentRing, CurrentLedger
  <2> QED BY <1>3, <2>2, <2>3 DEF Recording
<1> QED BY <1>1, <1>2, <1>3 DEF RingInv

THEOREM RingInvariant == Spec => []RingInv
<1>1. Init => FirstChunkFirst /\ RingKeepsNewest /\ Ledger
  BY RingInit
<1>2. Spec => []TypeOK
  BY TypeCorrect
<1>3. TypeOK /\ Init => RingInv
  BY <1>1 DEF RingInv
<1>4. RingInv /\ TypeOK' /\ [Next]_vars => RingInv'
  BY RingStep
<1> QED BY <1>2, <1>3, <1>4, PTL DEF Spec

(* The ring keeps the newest chunks, with consecutive sequence numbers,     *)
(* however many chunks there are and however often the ring wrapped.        *)
THEOREM RingCorrect == Spec => []RingKeepsNewest
<1>1. RingInv => RingKeepsNewest
  BY DEF RingInv
<1> QED BY <1>1, RingInvariant, PTL

(* Every committed record is in a live chunk or in the overwritten count,   *)
(* and in one place only.                                                   *)
THEOREM LedgerCorrect == Spec => []Ledger
<1>1. RingInv => Ledger
  BY DEF RingInv
<1> QED BY <1>1, RingInvariant, PTL

(* A call that records nothing starts no chunk: a refused record never      *)
(* costs an old one its place.                                              *)
THEOREM RefusalsLeaveRing == Spec => OnlyRecordsTouchRing
<1>1. ASSUME TypeOK, [Next]_vars
      PROVE  [log' = log => UNCHANGED <<chunks, next_sequence, valid_chunks>>]_vars
  <2>1. CASE Quiet
    BY <2>1 DEF Quiet
  <2>2. ASSUME NEW r \in 0..1, NEW e \in 0..2, Recording(r, e)
        PROVE  log' # log
    <3>1. Len(log) \in Nat /\ Len(log') = Len(log) + 1
      BY <1>1, <2>2, LenProperties DEF TypeOK, Recording
    <3> QED BY <3>1
  <2> QED BY <1>1, <2>1, <2>2, RecordingSteps
<1> QED BY <1>1, TypeCorrect, PTL DEF Spec, OnlyRecordsTouchRing

----------------------------------------------------------------------------
(* The file header.                                                         *)

(* To the header, a call before finalize may wrap the ring, no more.        *)
LEMMA HeaderSteps ==
  ASSUME [Next]_vars
  PROVE  \/ Finalize
         \/ UNCHANGED vars
         \/ /\ ~finalized /\ finalized' = finalized
            /\ StartChunk \/ UNCHANGED ring
<1>1. ASSUME NEW t, NEW track, NEW event, NEW duration, NEW g,
             AppendEvent(t, track, event, duration, g)
      PROVE  StartChunk \/ UNCHANGED ring
  BY <1>1 DEF AppendEvent
<1>2. UNCHANGED image => UNCHANGED ring
  BY DEF image
<1>3. ASSUME NEW t, NEW track, NEW event, NEW ok, Emit(t, track, event, ok)
      PROVE  ~finalized /\ finalized' = finalized /\ (StartChunk \/ UNCHANGED ring)
  BY <1>1, <1>2, <1>3 DEF Emit, Enabled, Drop
<1>4. ASSUME NEW t, NEW track, NEW event, NEW ok, Begin(t, track, event, ok)
      PROVE  ~finalized /\ finalized' = finalized /\ (StartChunk \/ UNCHANGED ring)
  BY <1>2, <1>4 DEF Begin, Enabled, Drop
<1>5. ASSUME NEW t, End(t)
      PROVE  ~finalized /\ finalized' = finalized /\ (StartChunk \/ UNCHANGED ring)
  BY <1>1, <1>2, <1>5 DEF End, Enabled, Retained
<1>6. ASSUME EndUnmatched \/ Cancel
      PROVE  ~finalized /\ finalized' = finalized /\ (StartChunk \/ UNCHANGED ring)
  BY <1>2, <1>6 DEF EndUnmatched, Cancel, Enabled, Drop
<1>7. ASSUME NEW g, NEW before, NEW after, ClockSync(g, before, after)
      PROVE  ~finalized /\ finalized' = finalized /\ (StartChunk \/ UNCHANGED ring)
  BY <1>7 DEF ClockSync, Enabled
<1> QED BY <1>3, <1>4, <1>5, <1>6, <1>7 DEF Next

LEMMA HeaderStep ==
  RingInv /\ TypeOK' /\ HeaderTellsTruth /\ [Next]_vars => HeaderTellsTruth'
<1> SUFFICES ASSUME RingInv, TypeOK', HeaderTellsTruth, [Next]_vars
             PROVE  HeaderTellsTruth'
  OBVIOUS
<1>1. /\ valid_chunks = IF next_sequence < ChunkCount THEN next_sequence ELSE ChunkCount
      /\ next_sequence \in Nat /\ header \in FileHeader
  BY DEF RingInv, RingKeepsNewest, TypeOK
<1>2. (header.wrapped <=> next_sequence > ChunkCount) /\ (header.finalized <=> finalized)
  BY DEF HeaderTellsTruth
<1>3. CASE Finalize
  <2>1. /\ finalized' /\ header'.finalized /\ header'.wrapped = Wrapped
        /\ next_sequence' = next_sequence
        /\ header'.total_records = total_records'
        /\ header'.overwritten_records = overwritten_records'
        /\ header'.dropped_records = dropped_records'
        /\ header'.total_events = total_events'
        /\ header'.overwritten_events = overwritten_events'
    BY <1>3 DEF Finalize, totals
  <2>2. Wrapped <=> next_sequence > ChunkCount
    BY <1>1 DEF Wrapped
  <2> QED BY <2>1, <2>2 DEF HeaderTellsTruth
<1>4. CASE UNCHANGED vars
  BY <1>4 DEF vars, image, ring, totals, HeaderTellsTruth
<1>5. CASE ~finalized /\ finalized' = finalized /\ StartChunk
  <2>1. next_sequence' = next_sequence + 1
    BY <1>5 DEF StartChunk
  <2>2. CASE valid_chunks # ChunkCount
    <3>1. header' = header
      BY <1>5, <2>2 DEF StartChunk
    <3> QED BY <1>1, <1>2, <1>5, <2>1, <2>2, <3>1 DEF HeaderTellsTruth
  <2>3. CASE valid_chunks = ChunkCount
    <3>1. header' = [header EXCEPT !.wrapped = TRUE]
      BY <1>5, <2>3 DEF StartChunk
    <3>2. header'.wrapped /\ header'.finalized = header.finalized
      BY <1>1, <3>1 DEF FileHeader
    <3>3. next_sequence' > ChunkCount
      BY <1>1, <2>1, <2>3
    <3> QED BY <1>2, <1>5, <3>2, <3>3 DEF HeaderTellsTruth
  <2> QED BY <2>2, <2>3
<1>6. CASE ~finalized /\ finalized' = finalized /\ UNCHANGED ring
  BY <1>2, <1>6 DEF ring, HeaderTellsTruth
<1> QED BY <1>3, <1>4, <1>5, <1>6, HeaderSteps

(* RING_WRAPPED is set exactly when a chunk was lost, and a finalized       *)
(* header keeps telling the final counts.                                   *)
THEOREM HeaderCorrect == Spec => []HeaderTellsTruth
<1>1. Init => HeaderTellsTruth
  BY DEF Init, HeaderTellsTruth
<1>2. RingInv /\ TypeOK' /\ HeaderTellsTruth /\ [Next]_vars => HeaderTellsTruth'
  BY HeaderStep
<1> QED BY <1>1, <1>2, TypeCorrect, RingInvariant, PTL DEF Spec

----------------------------------------------------------------------------
(* A slice in progress was begun in the current generation.                 *)
ScopesCurrent == \A i \in DOMAIN scopes : scopes[i].generation = current_generation

Silent == UNCHANGED <<log, context, flags, current_chunk>>

Recorded(entry) ==
  /\ entry.kind = "data" /\ log' = Append(log, entry)
  /\ entry.generation = current_generation /\ entry.started = current_generation
  /\ current_generation' = current_generation
  /\ current_timestamp' = entry.timestamp
  /\ has_record' /\ has_sync' = has_sync
  /\ sync_advanced' =>
       \/ sync_advanced
       \/ current_chunk # NoChunk /\ entry.timestamp # current_timestamp
  /\ current_chunk' # NoChunk

Synchronised(item) ==
  /\ item.kind = "sync" /\ log' = Append(log, item)
  /\ item.generation = current_generation'
  /\ current_generation' \in
       {current_generation, (current_generation + 1) % GenerationRange}
  /\ current_timestamp' = Midpoint(item.before, item.after)
  /\ has_sync' /\ ~sync_advanced'
  /\ has_record => has_sync
  /\ (current_generation' = current_generation /\ current_chunk # NoChunk) =>
       ~has_sync \/ sync_advanced \/ current_timestamp' # current_timestamp
  /\ current_chunk' # NoChunk

----------------------------------------------------------------------------
(* Steps.                                                                   *)

LEMMA EqualStamps ==
  ASSUME NEW stamp \in Stamps
  PROVE  Delta(stamp, stamp) = 0
<1>1. stamp \in Int /\ stamp - stamp = 0 /\ ClockRange \in Nat \ {0}
  BY DEF Stamps
<1>2. 0 % ClockRange = 0
  BY <1>1
<1> QED BY <1>1, <1>2 DEF Delta

LEMMA StartsSomewhere == TypeOK /\ StartChunk => current_chunk' # NoChunk
<1> SUFFICES ASSUME TypeOK, StartChunk PROVE current_chunk' # NoChunk
  OBVIOUS
<1>1. current_chunk' = NextSlot
  BY DEF StartChunk
<1>2. NextSlot \in Slots
  BY NextSlotType
<1> QED BY <1>1, <1>2 DEF Slots, NoChunk

LEMMA AppendEventRecorded ==
  ASSUME TypeOK, NEW timestamp \in Stamps, NEW track \in Tracks, NEW event \in Events,
         NEW duration \in Stamps,
         AppendEvent(timestamp, track, event, duration, current_generation)
  PROVE  \E entry \in DataEntry : Recorded(entry)
<1> DEFINE observed == IF current_chunk = NoChunk THEN 0
                       ELSE Delta(timestamp, current_timestamp)
           here  == EncodeEvent(model, current_track, observed, track, event, duration)
           entry == [kind |-> "data", generation |-> current_generation,
                     track |-> track, event |-> event, timestamp |-> timestamp,
                     duration |-> duration, started |-> current_generation]
<1>1. /\ log' = Append(log, entry) /\ current_timestamp' = timestamp
      /\ has_record' = TRUE /\ has_sync' = has_sync
      /\ current_generation' = current_generation
  BY DEF AppendEvent
<1>2. entry \in DataEntry
  BY DEF DataEntry, TypeOK
<1>3. sync_advanced' = (sync_advanced \/ (has_sync /\ observed # 0))
  BY DEF AppendEvent
<1>4. observed # 0 => current_chunk # NoChunk /\ timestamp # current_timestamp
  BY EqualStamps
<1>5. current_chunk' # NoChunk
  <2>1. CASE NeedsChunk(here)
    BY <2>1, StartsSomewhere DEF AppendEvent
  <2>2. CASE ~NeedsChunk(here)
    BY <2>2 DEF AppendEvent, NeedsChunk, ring
  <2> QED BY <2>1, <2>2
<1>6. Recorded(entry)
  BY <1>1, <1>3, <1>4, <1>5 DEF Recorded
<1> QED BY <1>2, <1>6

LEMMA ClockSyncSynchronised ==
  ASSUME TypeOK, NEW generation \in Generations, NEW before \in Samples,
         NEW after \in Samples, ClockSync(generation, before, after)
  PROVE  /\ \E item \in SyncRecord : Synchronised(item)
         /\ scopes' = scopes
         /\ current_generation' # current_generation => scopes = <<>>
<1> DEFINE item == [kind |-> "sync", generation |-> generation, before |-> before,
                    after |-> after]
           fresh == generation # current_generation \/ NeedsChunk(item)
           midpoint == Midpoint(before, after)
<1>1. /\ SampleValid(before) /\ SampleValid(after) /\ ~TooLate
      /\ generation # current_generation => TransitionAllowed(generation)
      /\ (generation = current_generation /\ current_chunk # NoChunk)
            => ~RepeatsAnchor(midpoint)
  BY DEF ClockSync, SyncAccepted
<1>2. /\ log' = Append(log, item) /\ current_generation' = generation
      /\ current_timestamp' = midpoint /\ has_sync' = TRUE /\ sync_advanced' = FALSE
      /\ scopes' = scopes
  BY DEF ClockSync
<1>3. item \in SyncRecord
  BY <1>1 DEF SyncRecord, SampleValid
<1>4. current_chunk' # NoChunk
  <2>1. CASE fresh
    BY <2>1, StartsSomewhere DEF ClockSync
  <2>2. CASE ~fresh
    BY <2>2 DEF ClockSync, NeedsChunk, ring
  <2> QED BY <2>1, <2>2
<1>5. has_record => has_sync
  BY <1>1 DEF TooLate
<1>6. generation \in {current_generation, (current_generation + 1) % GenerationRange}
  BY <1>1 DEF TransitionAllowed
<1>7. (generation = current_generation /\ current_chunk # NoChunk) =>
        ~has_sync \/ sync_advanced \/ midpoint # current_timestamp
  BY <1>1, EqualStamps DEF RepeatsAnchor, TypeOK
<1>8. Synchronised(item)
  BY <1>2, <1>4, <1>5, <1>6, <1>7 DEF Synchronised
<1> QED BY <1>1, <1>2, <1>3, <1>8 DEF TransitionAllowed

(* Every call is silent, records a data entry or synchronises, and keeps    *)
(* the open scopes current.                                                 *)
LEMMA ClockSteps ==
  ASSUME TypeOK, ScopesCurrent, [Next]_vars
  PROVE  /\ \/ Silent
            \/ \E entry \in DataEntry : Recorded(entry)
            \/ \E item \in SyncRecord : Synchronised(item)
         /\ ScopesCurrent'
<1>1. UNCHANGED image => Silent
  BY DEF image, ring, Silent
<1>2. ASSUME Silent \/ \E entry \in DataEntry : Recorded(entry), UNCHANGED scopes
      PROVE  ScopesCurrent'
  BY <1>2 DEF Silent, Recorded, context, ScopesCurrent
<1>3. ASSUME Silent \/ (\E entry \in DataEntry : Recorded(entry)),
             scopes # <<>>, scopes' = Popped
      PROVE  ScopesCurrent'
  <2>1. current_generation' = current_generation
    BY <1>3 DEF Silent, Recorded, context
  <2>2. /\ Len(scopes) \in Nat /\ Len(Popped) = Len(scopes) - 1
        /\ \A i \in 1..Len(Popped) : Popped[i] = scopes[i]
    BY <1>3, ScopeTypes
  <2>3. DOMAIN Popped = 1..Len(Popped) /\ DOMAIN scopes = 1..Len(scopes)
    BY <1>3, ScopeTypes, LenProperties DEF TypeOK
  <2> QED BY <1>3, <2>1, <2>2, <2>3 DEF ScopesCurrent
<1>4. ASSUME NEW t \in Samples, NEW track \in Tracks, NEW event \in InstantEvents,
             NEW ok \in BOOLEAN, Emit(t, track, event, ok)
      PROVE  UNCHANGED scopes /\ (Silent \/ \E entry \in DataEntry : Recorded(entry))
  <2>1. CASE ok /\ EventAccepted(t, 0)
    <3>1. AppendEvent(t, track, event, 0, current_generation)
      BY <1>4, <2>1 DEF Emit
    <3>2. t \in Stamps /\ event \in Events
      BY <2>1 DEF EventAccepted, SampleValid, Events
    <3> QED BY <1>4, <3>1, <3>2, AppendEventRecorded, ClockTypes DEF Emit
  <2>2. CASE ~(ok /\ EventAccepted(t, 0))
    BY <1>1, <1>4, <2>2 DEF Emit, Drop
  <2> QED BY <2>1, <2>2
<1>5. ASSUME NEW t \in Samples, NEW track \in Tracks, NEW event \in SliceEvents,
             NEW ok \in BOOLEAN, Begin(t, track, event, ok)
      PROVE  Silent /\ ScopesCurrent'
  <2>1. Silent /\ current_generation' = current_generation
    BY <1>1, <1>5 DEF Begin, Drop, Silent, context
  <2>2. CASE UNCHANGED scopes
    BY <1>2, <2>1, <2>2
  <2>3. CASE ~UNCHANGED scopes
    <3> DEFINE scope == [started_at |-> t, track |-> track, event |-> event,
                         generation |-> current_generation]
    <3>1. BeginAccepted(t, ok) /\ scopes' = Append(scopes, scope)
      BY <1>5, <2>3 DEF Begin
    <3>2. scope \in Scope
      BY <3>1 DEF BeginAccepted, SampleValid, Scope, TypeOK
    <3>3. scope.generation = current_generation
      OBVIOUS
    <3> HIDE DEF scope
    <3>4. /\ Len(scopes') = Len(scopes) + 1 /\ scopes' \in Seq(Scope)
          /\ \A i \in 1..Len(scopes) : scopes'[i] = scopes[i]
          /\ scopes'[Len(scopes) + 1] = scope
      BY <3>1, <3>2, AppendProperties DEF TypeOK
    <3>5. /\ DOMAIN scopes = 1..Len(scopes) /\ DOMAIN scopes' = 1..Len(scopes')
          /\ Len(scopes) \in Nat
      BY <3>4, LenProperties DEF TypeOK
    <3>6. ASSUME NEW i \in DOMAIN scopes'
          PROVE  scopes'[i].generation = current_generation
      BY <3>3, <3>4, <3>5 DEF ScopesCurrent
    <3> QED BY <2>1, <3>6 DEF ScopesCurrent
  <2> QED BY <2>1, <2>2, <2>3
<1>6. ASSUME NEW t \in Samples, End(t)
      PROVE  /\ Silent \/ \E entry \in DataEntry : Recorded(entry)
             /\ ScopesCurrent'
  <2> DEFINE duration == Delta(t, Innermost.started_at)
  <2>1. scopes # <<>>
    BY <1>6 DEF End
  <2>2. Innermost \in Scope /\ Innermost.generation = current_generation
    <3>1. Len(scopes) \in DOMAIN scopes
      BY <2>1, ScopeTypes, LenProperties DEF TypeOK
    <3> QED BY <2>1, <3>1, ScopeTypes DEF ScopesCurrent
  <2>3. duration \in Stamps
    <3>1. t \in Int /\ Innermost.started_at \in Int
      BY <2>2 DEF Samples, Scope, Stamps
    <3> QED BY <3>1, ClockTypes
  <2>4. CASE EventAccepted(t, duration)
    <3>1. /\ AppendEvent(t, Innermost.track, Innermost.event, duration,
                         current_generation)
          /\ scopes' = Popped
      BY <1>6, <2>2, <2>4 DEF End
    <3>2. t \in Stamps /\ Innermost.track \in Tracks /\ Innermost.event \in Events
      BY <2>2, <2>4 DEF EventAccepted, SampleValid, Scope, Events
    <3> QED BY <1>3, <2>1, <2>3, <3>1, <3>2, AppendEventRecorded
  <2>5. CASE ~EventAccepted(t, duration)
    BY <1>1, <1>2, <1>6, <2>5 DEF End, Retained
  <2> QED BY <2>4, <2>5
<1>7. CASE EndUnmatched
  BY <1>1, <1>2, <1>7 DEF EndUnmatched, Drop
<1>8. CASE Cancel
  BY <1>1, <1>3, <1>8 DEF Cancel, Drop
<1>9. ASSUME NEW g \in Generations, NEW before \in Samples, NEW after \in Samples,
             ClockSync(g, before, after)
      PROVE  (\E item \in SyncRecord : Synchronised(item)) /\ ScopesCurrent'
  <2>1. /\ \E item \in SyncRecord : Synchronised(item)
        /\ scopes' = scopes
        /\ current_generation' # current_generation => scopes = <<>>
    BY <1>9, ClockSyncSynchronised
  <2>2. CASE scopes = <<>>
    BY <2>1, <2>2 DEF ScopesCurrent
  <2> QED BY <2>1, <2>2 DEF ScopesCurrent
<1>10. CASE Finalize
  <2>1. Silent /\ UNCHANGED scopes
    BY <1>10 DEF Finalize, Silent
  <2> QED BY <1>2, <2>1
<1>11. CASE UNCHANGED vars
  BY <1>1, <1>2, <1>11 DEF vars
<1> QED BY <1>2, <1>4, <1>5, <1>6, <1>7, <1>8, <1>9, <1>10, <1>11 DEF Next

----------------------------------------------------------------------------
(* What the state knows about the log.                                      *)

LogKnown ==
  /\ log = <<>> => current_generation = InitialGeneration
  /\ log # <<>> => /\ current_chunk # NoChunk
                   /\ log[Len(log)].generation = current_generation
                   /\ Stamp(log[Len(log)]) = current_timestamp
                   /\ log[Len(log)].kind = "data" => has_record
  /\ has_sync => \E j \in DOMAIN log : /\ log[j].kind = "sync"
                                       /\ log[j].generation = current_generation

(* Of the entries since the last clock transition: sync_advanced remembers  *)
(* that the counter moved after the latest anchor, so after each of them.   *)
AnchorsKnown ==
  \A i \in DOMAIN log :
    (/\ log[i].kind = "sync"
     /\ \A k \in i..Len(log) : log[k].generation = current_generation)
    => /\ has_sync
       /\ sync_advanced =>
            \E k \in (i + 1)..Len(log) : Stamp(log[k]) # Stamp(log[k - 1])

ClockInv ==
  /\ TypeOK /\ ScopesCurrent /\ LogKnown /\ AnchorsKnown
  /\ SlicesWithinGeneration /\ SyncBeforeData /\ AnchorsAdvance

Entry == DataEntry \union SyncRecord

(* The log grows at its end.                                                *)
LEMMA LogGrows ==
  ASSUME TypeOK, NEW entry \in Entry, log' = Append(log, entry)
  PROVE  /\ Len(log) \in Nat /\ Len(log') = Len(log) + 1
         /\ DOMAIN log = 1..Len(log) /\ DOMAIN log' = 1..(Len(log) + 1)
         /\ \A i \in 1..Len(log) : log'[i] = log[i]
         /\ log'[Len(log) + 1] = entry /\ log' # <<>>
         /\ (log = <<>>) <=> (Len(log) = 0)
<1>1. log \in Seq(Entry)
  BY DEF TypeOK, Entry
<1>2. log' \in Seq(Entry) /\ log' # <<>>
  BY <1>1, AppendProperties
<1>3. /\ Len(log') = Len(log) + 1 /\ log'[Len(log) + 1] = entry
      /\ \A i \in 1..Len(log) : log'[i] = log[i]
  BY <1>1, AppendProperties
<1>4. /\ Len(log) \in Nat /\ DOMAIN log = 1..Len(log) /\ DOMAIN log' = 1..Len(log')
  BY <1>1, <1>2, LenProperties
<1>5. (log = <<>>) <=> (Len(log) = 0)
  BY <1>1, EmptySeq
<1> QED BY <1>2, <1>3, <1>4, <1>5

LEMMA SilentClock ==
  ASSUME ClockInv, Silent
  PROVE  /\ LogKnown' /\ AnchorsKnown'
         /\ SlicesWithinGeneration' /\ SyncBeforeData' /\ AnchorsAdvance'
<1>1. /\ log' = log /\ current_chunk' = current_chunk
      /\ current_generation' = current_generation
      /\ current_timestamp' = current_timestamp
      /\ has_record' = has_record /\ has_sync' = has_sync
      /\ sync_advanced' = sync_advanced
  BY DEF Silent, context, flags
<1>2. LogKnown' /\ AnchorsKnown'
  BY <1>1 DEF ClockInv, LogKnown, AnchorsKnown, Stamp, Midpoint, Delta
<1>3. SlicesWithinGeneration' /\ SyncBeforeData'
  BY <1>1 DEF ClockInv, SlicesWithinGeneration, SyncBeforeData
<1>4. AnchorsAdvance'
  BY <1>1 DEF ClockInv, AnchorsAdvance, Stamp, Midpoint, Delta
<1> QED BY <1>2, <1>3, <1>4

(* A data entry belongs to the generation of the entry before it.           *)
LEMMA RecordedLog ==
  ASSUME ClockInv, NEW entry \in DataEntry, Recorded(entry)
  PROVE  /\ LogKnown' /\ AnchorsKnown'
         /\ SlicesWithinGeneration' /\ SyncBeforeData' /\ AnchorsAdvance'
<1> DEFINE n == Len(log)
<1>1. /\ entry.kind = "data" /\ log' = Append(log, entry)
      /\ entry.generation = current_generation /\ entry.started = current_generation
      /\ current_generation' = current_generation
      /\ current_timestamp' = entry.timestamp
      /\ has_record' /\ has_sync' = has_sync
      /\ sync_advanced' =>
           sync_advanced \/ (current_chunk # NoChunk /\ entry.timestamp # current_timestamp)
      /\ current_chunk' # NoChunk
  BY DEF Recorded
<1>2. /\ TypeOK /\ LogKnown /\ AnchorsKnown
      /\ SlicesWithinGeneration /\ SyncBeforeData /\ AnchorsAdvance
  BY DEF ClockInv
<1>3. /\ n \in Nat /\ Len(log') = n + 1
      /\ DOMAIN log = 1..n /\ DOMAIN log' = 1..(n + 1)
      /\ \A i \in 1..n : log'[i] = log[i]
      /\ log'[n + 1] = entry /\ log' # <<>>
      /\ (log = <<>>) <=> (n = 0)
  <2>1. entry \in Entry
    BY DEF Entry
  <2> QED BY <1>1, <1>2, <2>1, LogGrows
<1> HIDE DEF n
<1>4. Stamp(entry) = entry.timestamp
  BY <1>1 DEF Stamp
<1>5. LogKnown'
  <2>1. /\ log'[Len(log')].generation = current_generation'
        /\ Stamp(log'[Len(log')]) = current_timestamp'
    BY <1>1, <1>3, <1>4
  <2>2. has_sync' => \E j \in DOMAIN log' : /\ log'[j].kind = "sync"
                                           /\ log'[j].generation = current_generation'
    BY <1>1, <1>2, <1>3 DEF LogKnown
  <2> QED BY <1>1, <1>3, <2>1, <2>2 DEF LogKnown, Stamp, Midpoint, Delta
<1>6. SlicesWithinGeneration'
  BY <1>1, <1>2, <1>3 DEF SlicesWithinGeneration
<1>7. SyncBeforeData'
  <2>1. entry.generation = IF n = 0 THEN InitialGeneration ELSE log[n].generation
    BY <1>1, <1>2, <1>3 DEF LogKnown, n
  <2> SUFFICES ASSUME NEW i \in DOMAIN log'
               PROVE  /\ log'[i].kind = "data" =>
                           log'[i].generation = IF i = 1 THEN InitialGeneration
                                                ELSE log'[i - 1].generation
                      /\ log'[i].kind = "sync" =>
                           LET previous == IF i = 1 THEN InitialGeneration
                                           ELSE log'[i - 1].generation
                           IN  /\ log'[i].generation \in
                                    {previous, (previous + 1) % GenerationRange}
                               /\ (i > 1 /\ log'[i - 1].kind = "data") =>
                                    \E j \in 1..(i - 1) :
                                       /\ log'[j].kind = "sync"
                                       /\ log'[j].generation = previous
    BY DEF SyncBeforeData
  <2>2. CASE i = n + 1
    BY <1>1, <1>3, <2>1, <2>2
  <2>3. CASE i \in 1..n
    <3>1. /\ log'[i] = log[i]
          /\ i # 1 => log'[i - 1] = log[i - 1]
          /\ \A j \in 1..(i - 1) : log'[j] = log[j]
      BY <1>3, <2>3
    <3> QED BY <1>2, <1>3, <2>3, <3>1 DEF SyncBeforeData
  <2> QED BY <1>3, <2>2, <2>3
<1>8. AnchorsAdvance'
  <2> SUFFICES ASSUME NEW i \in DOMAIN log', NEW j \in DOMAIN log', i < j,
                      log'[i].kind = "sync", log'[j].kind = "sync",
                      \A k \in i..j : log'[k].generation = log'[i].generation
               PROVE  \E k \in (i + 1)..j : Stamp(log'[k]) # Stamp(log'[k - 1])
    BY DEF AnchorsAdvance, Stamp, Midpoint, Delta
  <2>1. i \in 1..n /\ j \in 1..n
    BY <1>1, <1>3
  <2>2. \A k \in i..j : log'[k] = log[k]
    BY <1>3, <2>1
  <2>3. PICK k \in (i + 1)..j : Stamp(log[k]) # Stamp(log[k - 1])
    BY <1>2, <1>3, <2>1, <2>2 DEF AnchorsAdvance
  <2>4. log'[k] = log[k] /\ log'[k - 1] = log[k - 1]
    BY <1>3, <2>1
  <2> QED BY <2>3, <2>4
<1>9. AnchorsKnown'
  <2> SUFFICES ASSUME NEW i \in DOMAIN log', log'[i].kind = "sync",
                      \A k \in i..Len(log') : log'[k].generation = current_generation'
               PROVE  /\ has_sync'
                      /\ sync_advanced' =>
                           \E k \in (i + 1)..Len(log') :
                              Stamp(log'[k]) # Stamp(log'[k - 1])
    BY DEF AnchorsKnown, Stamp, Midpoint, Delta
  <2>1. i \in 1..n
    BY <1>1, <1>3
  <2>2. \A k \in i..n : log[k].generation = current_generation
    BY <1>1, <1>3, <2>1
  <2>3. log[i].kind = "sync"
    BY <1>3, <2>1
  <2>4. /\ has_sync
        /\ sync_advanced => \E k \in (i + 1)..n : Stamp(log[k]) # Stamp(log[k - 1])
    BY <1>2, <1>3, <2>1, <2>2, <2>3 DEF AnchorsKnown, n
  <2>5. has_sync'
    BY <1>1, <2>4
  <2>6. ASSUME sync_advanced
        PROVE  \E k \in (i + 1)..Len(log') : Stamp(log'[k]) # Stamp(log'[k - 1])
    <3>1. PICK k \in (i + 1)..n : Stamp(log[k]) # Stamp(log[k - 1])
      BY <2>4, <2>6
    <3>2. /\ k \in (i + 1)..Len(log')
          /\ log'[k] = log[k] /\ log'[k - 1] = log[k - 1]
      BY <1>3, <2>1
    <3> QED BY <3>1, <3>2
  <2>7. ASSUME entry.timestamp # current_timestamp
        PROVE  \E k \in (i + 1)..Len(log') : Stamp(log'[k]) # Stamp(log'[k - 1])
    <3>1. Stamp(log[n]) = current_timestamp
      BY <1>2, <1>3, <2>1 DEF LogKnown, n
    <3>2. /\ n + 1 \in (i + 1)..Len(log') /\ (n + 1) - 1 = n
          /\ log'[n + 1] = entry /\ log'[n] = log[n]
      BY <1>3, <2>1
    <3>3. Stamp(log'[n + 1]) # Stamp(log'[(n + 1) - 1])
      BY <1>4, <2>7, <3>1, <3>2
    <3> QED BY <3>2, <3>3
  <2> QED BY <1>1, <2>5, <2>6, <2>7
<1> QED BY <1>5, <1>6, <1>7, <1>8, <1>9

(* A synchronisation belongs to the generation of the entry before it or    *)
(* opens the next one; then the old one, if it has data, has its anchor.    *)
LEMMA SynchronisedLog ==
  ASSUME ClockInv, NEW item \in SyncRecord, Synchronised(item)
  PROVE  /\ LogKnown' /\ AnchorsKnown'
         /\ SlicesWithinGeneration' /\ SyncBeforeData' /\ AnchorsAdvance'
<1> DEFINE n == Len(log)
<1>1. /\ item.kind = "sync" /\ log' = Append(log, item)
      /\ item.generation = current_generation'
      /\ current_generation' \in
           {current_generation, (current_generation + 1) % GenerationRange}
      /\ current_timestamp' = Midpoint(item.before, item.after)
      /\ has_sync' /\ ~sync_advanced'
      /\ has_record => has_sync
      /\ (current_generation' = current_generation /\ current_chunk # NoChunk) =>
           ~has_sync \/ sync_advanced \/ current_timestamp' # current_timestamp
      /\ current_chunk' # NoChunk
  BY DEF Synchronised
<1>2. /\ TypeOK /\ LogKnown /\ AnchorsKnown
      /\ SlicesWithinGeneration /\ SyncBeforeData /\ AnchorsAdvance
  BY DEF ClockInv
<1>3. /\ n \in Nat /\ Len(log') = n + 1
      /\ DOMAIN log = 1..n /\ DOMAIN log' = 1..(n + 1)
      /\ \A i \in 1..n : log'[i] = log[i]
      /\ log'[n + 1] = item /\ log' # <<>>
      /\ (log = <<>>) <=> (n = 0)
  <2>1. item \in Entry
    BY DEF Entry
  <2> QED BY <1>1, <1>2, <2>1, LogGrows
<1> HIDE DEF n
<1>4. Stamp(item) = current_timestamp'
  BY <1>1 DEF Stamp
<1>5. n # 0 => /\ current_chunk # NoChunk
               /\ log[n].generation = current_generation
               /\ Stamp(log[n]) = current_timestamp
               /\ log[n].kind = "data" => has_record
  BY <1>2, <1>3 DEF LogKnown, n
<1>6. LogKnown'
  <2>1. /\ log'[Len(log')].generation = current_generation'
        /\ Stamp(log'[Len(log')]) = current_timestamp'
        /\ log'[Len(log')].kind # "data"
    BY <1>1, <1>3, <1>4
  <2>2. \E j \in DOMAIN log' : /\ log'[j].kind = "sync"
                               /\ log'[j].generation = current_generation'
    BY <1>1, <1>3
  <2> QED BY <1>1, <1>3, <2>1, <2>2 DEF LogKnown, Stamp, Midpoint, Delta
<1>7. SlicesWithinGeneration'
  BY <1>1, <1>2, <1>3 DEF SlicesWithinGeneration
<1>8. SyncBeforeData'
  <2> DEFINE previous(i) == IF i = 1 THEN InitialGeneration ELSE log'[i - 1].generation
  <2> SUFFICES ASSUME NEW i \in DOMAIN log'
               PROVE  /\ log'[i].kind = "data" => log'[i].generation = previous(i)
                      /\ log'[i].kind = "sync" =>
                           /\ log'[i].generation \in
                                {previous(i), (previous(i) + 1) % GenerationRange}
                           /\ (i > 1 /\ log'[i - 1].kind = "data") =>
                                \E j \in 1..(i - 1) :
                                   /\ log'[j].kind = "sync"
                                   /\ log'[j].generation = previous(i)
    BY DEF SyncBeforeData
  <2>1. CASE i = n + 1
    <3>1. previous(i) = current_generation
      <4>1. CASE n = 0
        BY <1>2, <1>3, <2>1, <4>1 DEF LogKnown
      <4>2. CASE n # 0
        BY <1>3, <1>5, <2>1, <4>2
      <4> QED BY <4>1, <4>2
    <3>2. ASSUME i > 1, log'[i - 1].kind = "data"
          PROVE  \E j \in 1..(i - 1) : /\ log'[j].kind = "sync"
                                       /\ log'[j].generation = current_generation
      <4>1. n # 0 /\ log[n].kind = "data"
        BY <1>3, <2>1, <3>2
      <4>2. has_sync
        BY <1>1, <1>5, <4>1
      <4>3. PICK j \in DOMAIN log : /\ log[j].kind = "sync"
                                   /\ log[j].generation = current_generation
        BY <1>2, <4>2 DEF LogKnown
      <4>4. j \in 1..(i - 1) /\ log'[j] = log[j]
        BY <1>3, <2>1, <4>3
      <4> QED BY <4>3, <4>4
    <3>3. log'[i].kind = "sync" /\ log'[i].generation = current_generation'
      BY <1>1, <1>3, <2>1
    <3> HIDE DEF previous
    <3> QED BY <1>1, <3>1, <3>2, <3>3
  <2>2. CASE i \in 1..n
    <3>1. /\ log'[i] = log[i]
          /\ i # 1 => log'[i - 1] = log[i - 1]
          /\ \A j \in 1..(i - 1) : log'[j] = log[j]
      BY <1>3, <2>2
    <3> QED BY <1>2, <1>3, <2>2, <3>1 DEF SyncBeforeData
  <2> QED BY <1>3, <2>1, <2>2
<1>9. AnchorsAdvance'
  <2> SUFFICES ASSUME NEW i \in DOMAIN log', NEW j \in DOMAIN log', i < j,
                      log'[i].kind = "sync", log'[j].kind = "sync",
                      \A k \in i..j : log'[k].generation = log'[i].generation
               PROVE  \E k \in (i + 1)..j : Stamp(log'[k]) # Stamp(log'[k - 1])
    BY DEF AnchorsAdvance, Stamp, Midpoint, Delta
  <2>1. i \in 1..n
    BY <1>3
  <2>2. CASE j \in 1..n
    <3>1. \A k \in i..j : log'[k] = log[k]
      BY <1>3, <2>1, <2>2
    <3>2. PICK k \in (i + 1)..j : Stamp(log[k]) # Stamp(log[k - 1])
      BY <1>2, <1>3, <2>1, <2>2, <3>1 DEF AnchorsAdvance
    <3>3. log'[k] = log[k] /\ log'[k - 1] = log[k - 1]
      BY <1>3, <2>1, <2>2
    <3> QED BY <3>2, <3>3
  <2>3. CASE j = n + 1
    <3>1. /\ \A k \in i..n : log[k].generation = current_generation
          /\ current_generation' = current_generation /\ n # 0
      <4>1. \A k \in i..n : log'[k] = log[k] /\ k \in i..j
        BY <1>3, <2>1, <2>3
      <4>2. n \in i..n /\ j \in i..j /\ n # 0
        BY <1>3, <2>1, <2>3
      <4>3. \A k \in i..n : log[k].generation = log'[i].generation
        BY <4>1
      <4>4. current_generation' = log'[i].generation
        BY <1>1, <1>3, <2>3, <4>2
      <4>5. current_generation = log'[i].generation
        BY <1>5, <4>2, <4>3
      <4> QED BY <4>2, <4>3, <4>4, <4>5
    <3>2. log[i].kind = "sync"
      BY <1>3, <2>1
    <3>3. /\ has_sync
          /\ sync_advanced => \E k \in (i + 1)..n : Stamp(log[k]) # Stamp(log[k - 1])
      BY <1>2, <1>3, <2>1, <3>1, <3>2 DEF AnchorsKnown, n
    <3>4. CASE sync_advanced
      <4>1. PICK k \in (i + 1)..n : Stamp(log[k]) # Stamp(log[k - 1])
        BY <3>3, <3>4
      <4>2. k \in (i + 1)..j /\ log'[k] = log[k] /\ log'[k - 1] = log[k - 1]
        BY <1>3, <2>1, <2>3
      <4> QED BY <4>1, <4>2
    <3>5. CASE ~sync_advanced
      <4>1. current_timestamp' # current_timestamp
        BY <1>1, <1>5, <3>1, <3>3, <3>5
      <4>2. /\ n + 1 \in (i + 1)..j /\ (n + 1) - 1 = n
            /\ log'[n + 1] = item /\ log'[n] = log[n]
        BY <1>3, <2>1, <2>3
      <4>3. Stamp(log'[n + 1]) # Stamp(log'[(n + 1) - 1])
        BY <1>4, <1>5, <3>1, <4>1, <4>2
      <4> QED BY <4>2, <4>3
    <3> QED BY <3>4, <3>5
  <2> QED BY <1>3, <2>2, <2>3
<1>10. AnchorsKnown'
  BY <1>1, <1>3 DEF AnchorsKnown
<1> QED BY <1>6, <1>7, <1>8, <1>9, <1>10

----------------------------------------------------------------------------
(* The theorems.                                                            *)

LEMMA ClockInit == Init /\ TypeOK => ClockInv
<1> SUFFICES ASSUME Init, TypeOK PROVE ClockInv
  OBVIOUS
<1>1. /\ log = <<>> /\ scopes = <<>> /\ DOMAIN log = {} /\ DOMAIN scopes = {}
      /\ current_generation = InitialGeneration /\ ~has_sync
  BY DEF Init
<1>2. ScopesCurrent /\ LogKnown /\ AnchorsKnown
  BY <1>1 DEF ScopesCurrent, LogKnown, AnchorsKnown
<1>3. SlicesWithinGeneration /\ SyncBeforeData /\ AnchorsAdvance
  BY <1>1 DEF SlicesWithinGeneration, SyncBeforeData, AnchorsAdvance
<1> QED BY <1>2, <1>3 DEF ClockInv

THEOREM ClockInvariant == Spec => []ClockInv
<1>1. Init /\ TypeOK => ClockInv
  BY ClockInit
<1>2. ClockInv /\ TypeOK' /\ [Next]_vars => ClockInv'
  <2> SUFFICES ASSUME ClockInv, TypeOK', [Next]_vars PROVE ClockInv'
    OBVIOUS
  <2>1. /\ \/ Silent
           \/ \E entry \in DataEntry : Recorded(entry)
           \/ \E item \in SyncRecord : Synchronised(item)
        /\ ScopesCurrent'
    BY ClockSteps DEF ClockInv
  <2>2. /\ LogKnown' /\ AnchorsKnown'
        /\ SlicesWithinGeneration' /\ SyncBeforeData' /\ AnchorsAdvance'
    BY <2>1, SilentClock, RecordedLog, SynchronisedLog
  <2> QED BY <2>1, <2>2 DEF ClockInv
<1> QED BY <1>1, <1>2, TypeCorrect, PTL DEF Spec

(* A slice begins and ends in one clock generation.                         *)
THEOREM SlicesCorrect == Spec => []SlicesWithinGeneration
<1>1. ClockInv => SlicesWithinGeneration
  BY DEF ClockInv
<1> QED BY <1>1, ClockInvariant, PTL

(* Generations advance by one, and a synchronised generation has its first  *)
(* anchor before its first data record.                                     *)
THEOREM SyncCorrect == Spec => []SyncBeforeData
<1>1. ClockInv => SyncBeforeData
  BY DEF ClockInv
<1> QED BY <1>1, ClockInvariant, PTL

(* The counter moves between two anchors of a generation.                   *)
THEOREM AnchorsCorrect == Spec => []AnchorsAdvance
<1>1. ClockInv => AnchorsAdvance
  BY DEF ClockInv
<1> QED BY <1>1, ClockInvariant, PTL

LEMMA RequestsStep ==
  ASSUME TypeOK, RequestsAccounted, [Next]_vars
  PROVE  RequestsAccounted'
<1>1. /\ requested = total_records + dropped_records + Len(scopes)
      /\ requested \in Nat /\ total_records \in Nat /\ dropped_records \in Nat
      /\ scopes \in Seq(Scope) /\ Len(scopes) \in Nat
  BY LenProperties DEF TypeOK, RequestsAccounted
<1>2. UNCHANGED image => total_records' = total_records
  BY DEF image, totals
<1>3. ASSUME NEW t \in Samples, NEW track \in Tracks, NEW event \in InstantEvents,
             NEW ok \in BOOLEAN, Emit(t, track, event, ok)
      PROVE  RequestsAccounted'
  <2>1. requested' = requested + 1 /\ scopes' = scopes
    BY <1>3 DEF Emit, Request
  <2>2. \/ total_records' = total_records + 1 /\ dropped_records' = dropped_records
        \/ total_records' = total_records /\ dropped_records' = dropped_records + 1
    BY <1>2, <1>3 DEF Emit, AppendEvent, Drop
  <2> QED BY <1>1, <2>1, <2>2 DEF RequestsAccounted
<1>4. ASSUME NEW t \in Samples, NEW track \in Tracks, NEW event \in SliceEvents,
             NEW ok \in BOOLEAN, Begin(t, track, event, ok)
      PROVE  RequestsAccounted'
  <2>1. requested' = requested + 1 /\ total_records' = total_records
    BY <1>2, <1>4 DEF Begin, Request, Drop
  <2>2. CASE BeginAccepted(t, ok)
    <3> DEFINE scope == [started_at |-> t, track |-> track, event |-> event,
                         generation |-> current_generation]
    <3>1. scope \in Scope
      BY <2>2 DEF BeginAccepted, SampleValid, Scope, TypeOK
    <3>2. scopes' = Append(scopes, scope) /\ dropped_records' = dropped_records
      BY <1>4, <2>2 DEF Begin
    <3> HIDE DEF scope
    <3>3. Len(scopes') = Len(scopes) + 1
      BY <1>1, <3>1, <3>2, AppendProperties
    <3> QED BY <1>1, <2>1, <3>2, <3>3 DEF RequestsAccounted
  <2>3. CASE ~BeginAccepted(t, ok)
    <3>1. scopes' = scopes /\ dropped_records' = dropped_records + 1
      BY <1>4, <2>3 DEF Begin, Drop
    <3> QED BY <1>1, <2>1, <3>1 DEF RequestsAccounted
  <2> QED BY <2>2, <2>3
<1>5. ASSUME NEW t \in Samples, End(t)
      PROVE  RequestsAccounted'
  <2> DEFINE duration == Delta(t, Innermost.started_at)
  <2>1. scopes # <<>> /\ requested' = requested
    BY <1>5 DEF End
  <2>2. CASE EventAccepted(t, duration)
    <3>1. /\ scopes' = Popped /\ dropped_records' = dropped_records
          /\ total_records' = total_records + 1
      BY <1>5, <2>2 DEF End, AppendEvent
    <3>2. Len(scopes') = Len(scopes) - 1
      BY <2>1, <3>1, ScopeTypes
    <3> QED BY <1>1, <2>1, <3>1, <3>2 DEF RequestsAccounted
  <2>3. CASE ~EventAccepted(t, duration)
    BY <1>1, <1>2, <1>5, <2>1, <2>3 DEF End, Retained, RequestsAccounted
  <2> QED BY <2>2, <2>3
<1>6. CASE EndUnmatched
  <2>1. /\ requested' = requested + 1 /\ dropped_records' = dropped_records + 1
        /\ scopes' = scopes /\ total_records' = total_records
    BY <1>2, <1>6 DEF EndUnmatched, Request, Drop
  <2> QED BY <1>1, <2>1 DEF RequestsAccounted
<1>7. CASE Cancel
  <2>1. /\ requested' = requested /\ dropped_records' = dropped_records + 1
        /\ scopes # <<>> /\ scopes' = Popped /\ total_records' = total_records
    BY <1>2, <1>7 DEF Cancel, Drop
  <2>2. Len(scopes') = Len(scopes) - 1
    BY <2>1, ScopeTypes
  <2> QED BY <1>1, <2>1, <2>2 DEF RequestsAccounted
<1>8. ASSUME NEW g \in Generations, NEW before \in Samples, NEW after \in Samples,
             ClockSync(g, before, after)
      PROVE  RequestsAccounted'
  BY <1>1, <1>8 DEF ClockSync, totals, RequestsAccounted
<1>9. CASE Finalize
  BY <1>1, <1>9 DEF Finalize, totals, RequestsAccounted
<1>10. CASE UNCHANGED vars
  BY <1>1, <1>2, <1>10 DEF vars, RequestsAccounted
<1> QED BY <1>3, <1>4, <1>5, <1>6, <1>7, <1>8, <1>9, <1>10 DEF Next

(* Every requested record or scope is accepted, dropped or still open.      *)
THEOREM RequestsCorrect == Spec => []RequestsAccounted
<1>1. Init => RequestsAccounted
  <2>1. Len(<<>>) = 0
    BY EmptySeq
  <2> QED BY <2>1 DEF Init, RequestsAccounted
<1>2. TypeOK /\ RequestsAccounted /\ [Next]_vars => RequestsAccounted'
  BY RequestsStep
<1> QED BY <1>1, <1>2, TypeCorrect, PTL DEF Spec

HIDE WriterAssumption

----------------------------------------------------------------------------
(* Least and greatest elements: the inductions below are by least           *)
(* counterexample.                                                          *)

LEMMA Least ==
  ASSUME NEW S \in SUBSET Nat, S # {}
  PROVE  \E m \in S : \A k \in S : m <= k
<1> DEFINE less == {ss \in Nat \X Nat : ss[1] < ss[2]}
<1>1. IsWellFoundedOn(less, Nat)
  <2>1. less = OpToRel(<, Nat)
    BY DEF OpToRel
  <2> QED BY <2>1, NatLessThanWellFounded
<1> HIDE DEF less
<1>2. PICK m \in S : \A k \in S : <<k, m>> \notin less
  BY <1>1, WFMin
<1>3. ASSUME NEW k \in S PROVE m <= k
  <2>1. <<k, m>> \notin less /\ m \in Nat /\ k \in Nat
    BY <1>2
  <2>2. k < m => <<k, m>> \in less
    BY <2>1 DEF less
  <2> QED BY <2>1, <2>2
<1> QED BY <1>3

LEMMA Greatest ==
  ASSUME NEW n \in Nat, NEW S \in SUBSET (0..n), S # {}
  PROVE  \E m \in S : \A k \in S : k <= m
<1> DEFINE T == {n - k : k \in S}
<1>1. \A k \in S : k \in Nat /\ k <= n /\ n - k \in Nat
  OBVIOUS
<1>2. T \in SUBSET Nat /\ T # {}
  BY <1>1
<1>3. PICK t \in T : \A u \in T : t <= u
  BY <1>2, Least
<1>4. PICK m \in S : t = n - m
  BY <1>3
<1>5. \A k \in S : n - k \in T
  OBVIOUS
<1> HIDE DEF T
<1> QED BY <1>1, <1>3, <1>4, <1>5

----------------------------------------------------------------------------
(* Decoding a payload, record by record.                                    *)

Blank(base) ==
  [ok |-> TRUE, timestamp |-> base, track |-> DefaultTrack, model |-> 2,
   items |-> <<>>]

IsDecoding(f, k, generation, base, items) ==
  f = [s \in SUBSET (1..k) |->
         IF s = {} THEN Blank(base)
         ELSE Reader!DecodeItem(generation, f[s \ {Reader!Max(s)}],
                                items[Reader!Max(s)])]

LEMMA MaxOf ==
  ASSUME NEW s, NEW x \in s, \A y \in s : y \in Int /\ y <= x
  PROVE  Reader!Max(s) = x
<1>1. \A y \in s : x >= y
  OBVIOUS
<1>2. Reader!Max(s) \in s /\ \A y \in s : Reader!Max(s) >= y
  BY <1>1 DEF Reader!Max
<1>3. Reader!Max(s) \in Int /\ x \in Int /\ Reader!Max(s) >= x /\ Reader!Max(s) <= x
  BY <1>2
<1> QED BY <1>3

LEMMA MaxOfRun ==
  ASSUME NEW k \in Nat \ {0}
  PROVE  Reader!Max(1..k) = k /\ (1..k) \ {k} = 1..(k - 1)
<1>1. k \in 1..k /\ \A y \in 1..k : y \in Int /\ y <= k
  OBVIOUS
<1>2. Reader!Max(1..k) = k
  BY <1>1, MaxOf
<1>3. (1..k) \ {k} = 1..(k - 1)
  OBVIOUS
<1> QED BY <1>2, <1>3

LEMMA DecodingExists ==
  ASSUME NEW m \in Nat, NEW generation, NEW base, NEW items
  PROVE  \E f : IsDecoding(f, m, generation, base, items)
<1> DEFINE Step(at, n) == Reader!DecodeItem(generation, at, items[n])
           S == {k \in Nat : ~ \E f : IsDecoding(f, k, generation, base, items)}
<1>0. ASSUME NEW f, NEW k
      PROVE  IsDecoding(f, k, generation, base, items) <=>
               f = [s \in SUBSET (1..k) |->
                      IF s = {} THEN Blank(base)
                      ELSE Step(f[s \ {Reader!Max(s)}], Reader!Max(s))]
  BY DEF IsDecoding
<1> HIDE DEF Step
<1>1. SUFFICES ASSUME S # {} PROVE FALSE
  OBVIOUS
<1>2. PICK k \in S : \A j \in S : k <= j
  BY <1>1, Least
<1>3. k # 0
  <2> SUFFICES ASSUME k = 0 PROVE FALSE
    OBVIOUS
  <2> DEFINE f == [s \in SUBSET (1..0) |-> Blank(base)]
  <2>1. \A s \in SUBSET (1..0) : s = {}
    OBVIOUS
  <2>2. f = [s \in SUBSET (1..0) |->
               IF s = {} THEN Blank(base)
               ELSE Step(f[s \ {Reader!Max(s)}], Reader!Max(s))]
    BY <2>1
  <2>3. IsDecoding(f, k, generation, base, items)
    BY <1>0, <2>2
  <2> QED BY <1>2, <2>3
<1>4. k - 1 \in Nat /\ k - 1 \notin S
  BY <1>2, <1>3
<1>5. PICK f : IsDecoding(f, k - 1, generation, base, items)
  BY <1>4
<1> DEFINE g == [s \in SUBSET (1..k) |->
                   IF k \in s THEN Step(f[s \ {k}], k) ELSE f[s]]
<1>6. ASSUME NEW s \in SUBSET (1..k)
      PROVE  g[s] = IF s = {} THEN Blank(base)
                    ELSE Step(g[s \ {Reader!Max(s)}], Reader!Max(s))
  <2>1. CASE k \in s
    <3>1. Reader!Max(s) = k
      <4>1. \A y \in s : y \in Int /\ y <= k
        OBVIOUS
      <4> QED BY <2>1, <4>1, MaxOf
    <3>2. s \ {k} \in SUBSET (1..k) /\ k \notin s \ {k}
      OBVIOUS
    <3>3. g[s \ {k}] = f[s \ {k}]
      BY <3>2
    <3>4. g[s] = Step(f[s \ {k}], k)
      BY <2>1
    <3> QED BY <2>1, <3>1, <3>3, <3>4
  <2>2. CASE k \notin s
    <3>1. s \in SUBSET (1..(k - 1))
      BY <1>2, <2>2
    <3>2. g[s] = f[s]
      BY <2>2
    <3>3. f[s] = IF s = {} THEN Blank(base)
                 ELSE Step(f[s \ {Reader!Max(s)}], Reader!Max(s))
      <4>1. f = [x \in SUBSET (1..(k - 1)) |->
                   IF x = {} THEN Blank(base)
                   ELSE Step(f[x \ {Reader!Max(x)}], Reader!Max(x))]
        BY <1>0, <1>5
      <4> QED BY <3>1, <4>1
    <3>4. s # {} => g[s \ {Reader!Max(s)}] = f[s \ {Reader!Max(s)}]
      <4>1. s \ {Reader!Max(s)} \in SUBSET (1..k) /\ k \notin s \ {Reader!Max(s)}
        BY <2>2
      <4> QED BY <4>1
    <3> QED BY <3>2, <3>3, <3>4
  <2> QED BY <2>1, <2>2
<1>7. g = [s \in SUBSET (1..k) |->
             IF s = {} THEN Blank(base)
             ELSE Step(g[s \ {Reader!Max(s)}], Reader!Max(s))]
  <2> DEFINE h == [s \in SUBSET (1..k) |->
                     IF s = {} THEN Blank(base)
                     ELSE Step(g[s \ {Reader!Max(s)}], Reader!Max(s))]
  <2>1. \A s \in SUBSET (1..k) : g[s] = h[s]
    BY <1>6
  <2>2. g = [s \in SUBSET (1..k) |-> g[s]] /\ h = [s \in SUBSET (1..k) |-> h[s]]
    OBVIOUS
  <2> HIDE DEF g, h
  <2>3. g = h
    BY <2>1, <2>2
  <2> QED BY <2>3 DEF h
<1>8. IsDecoding(g, k, generation, base, items)
  BY <1>0, <1>7
<1> QED BY <1>2, <1>8

(* What a decoding is on the first records.                                 *)
LEMMA DecodingOfRun ==
  ASSUME NEW m \in Nat, NEW generation, NEW base, NEW items, NEW f,
         IsDecoding(f, m, generation, base, items)
  PROVE  /\ f[1..0] = Blank(base)
         /\ \A k \in 1..m : f[1..k] = Reader!DecodeItem(generation, f[1..(k - 1)], items[k])
<1>1. 1..0 = {} /\ {} \in SUBSET (1..m)
  OBVIOUS
<1>2. f[1..0] = Blank(base)
  BY <1>1 DEF IsDecoding
<1>3. ASSUME NEW k \in 1..m
      PROVE  f[1..k] = Reader!DecodeItem(generation, f[1..(k - 1)], items[k])
  <2>1. k \in Nat \ {0} /\ 1..k # {} /\ 1..k \in SUBSET (1..m)
    OBVIOUS
  <2>2. f[1..k] = Reader!DecodeItem(generation, f[(1..k) \ {Reader!Max(1..k)}],
                                    items[Reader!Max(1..k)])
    BY <2>1 DEF IsDecoding
  <2> QED BY <2>1, <2>2, MaxOfRun
<1> QED BY <1>2, <1>3

(* Decodings of payloads that begin alike begin alike.                      *)
LEMMA DecodingPrefix ==
  ASSUME NEW m \in Nat, NEW n \in Nat, NEW generation, NEW base, NEW items, NEW others,
         NEW f, IsDecoding(f, m, generation, base, items),
         NEW h, IsDecoding(h, n, generation, base, others),
         NEW k \in Nat, k <= m, k <= n, \A i \in 1..k : items[i] = others[i]
  PROVE  f[1..k] = h[1..k]
<1> DEFINE S == {j \in 0..k : f[1..j] # h[1..j]}
<1>1. SUFFICES ASSUME S # {} PROVE FALSE
  OBVIOUS
<1>2. PICK j \in S : \A i \in S : j <= i
  <2>1. S \in SUBSET Nat
    OBVIOUS
  <2> QED BY <1>1, <2>1, Least
<1>3. j # 0
  <2>1. f[1..0] = h[1..0]
    BY DecodingOfRun
  <2> QED BY <1>2, <2>1
<1>4. j - 1 \in 0..k /\ j - 1 \notin S /\ j \in 1..k /\ j \in 1..m /\ j \in 1..n
  BY <1>2, <1>3
<1>5. f[1..(j - 1)] = h[1..(j - 1)]
  BY <1>4
<1>6. f[1..j] = Reader!DecodeItem(generation, f[1..(j - 1)], items[j])
  BY <1>4, DecodingOfRun
<1>7. h[1..j] = Reader!DecodeItem(generation, h[1..(j - 1)], others[j])
  BY <1>4, DecodingOfRun
<1>8. items[j] = others[j]
  BY <1>4
<1> QED BY <1>2, <1>5, <1>6, <1>7, <1>8

LEMMA DecodingOfOneMore ==
  ASSUME NEW k \in Nat, NEW n \in Nat, n = k + 1, NEW generation, NEW base, NEW items,
         NEW others, NEW f, IsDecoding(f, k, generation, base, items),
         NEW h, IsDecoding(h, n, generation, base, others),
         \A i \in 1..k : items[i] = others[i]
  PROVE  h[1..n] = Reader!DecodeItem(generation, f[1..k], others[n])
<1>1. k <= k /\ k <= n /\ n \in 1..n /\ n - 1 = k
  OBVIOUS
<1>2. f[1..k] = h[1..k]
  BY <1>1, DecodingPrefix
<1>3. \A j \in 1..n : h[1..j] = Reader!DecodeItem(generation, h[1..(j - 1)], others[j])
  BY DecodingOfRun
<1> QED BY <1>1, <1>2, <1>3

LEMMA DecodeIs ==
  ASSUME NEW c, NEW k \in Nat, DOMAIN c.items = 1..k
  PROVE  \E f : /\ IsDecoding(f, k, c.generation, c.base, c.items)
                /\ Reader!DecodeChunk(c) = f[1..k]
<1> DEFINE f == CHOOSE f : IsDecoding(f, k, c.generation, c.base, c.items)
<1>1. IsDecoding(f, k, c.generation, c.base, c.items)
  BY DecodingExists
<1>2. Reader!DecodeChunk(c) = f[1..k]
  BY DEF Reader!DecodeChunk, Reader!FoldLeft, Reader!MapThenFoldSet, IsDecoding, Blank
<1> QED BY <1>1, <1>2

(* An empty payload decodes to nothing.                                     *)
LEMMA DecodeEmpty ==
  ASSUME NEW c, c.items = <<>>
  PROVE  Reader!DecodeChunk(c) = Blank(c.base)
<1> DEFINE k == 0
<1>1. k \in Nat /\ DOMAIN c.items = 1..k /\ k = 0
  OBVIOUS
<1> HIDE DEF k
<1>2. PICK f : /\ IsDecoding(f, k, c.generation, c.base, c.items)
               /\ Reader!DecodeChunk(c) = f[1..k]
  BY <1>1, DecodeIs
<1>3. f[1..0] = Blank(c.base)
  BY <1>1, <1>2, DecodingOfRun
<1> QED BY <1>1, <1>2, <1>3

(* One more record is decoded in the context the others left.               *)
LEMMA DecodeAppend ==
  ASSUME NEW S, NEW old, old.items \in Seq(S), NEW item \in S, NEW new,
         new.items = Append(old.items, item), new.generation = old.generation,
         new.base = old.base
  PROVE  Reader!DecodeChunk(new) =
           Reader!DecodeItem(old.generation, Reader!DecodeChunk(old), item)
<1> DEFINE k == Len(old.items)
<1>1. k \in Nat /\ DOMAIN old.items = 1..k /\ DOMAIN new.items = 1..(k + 1)
  OBVIOUS
<1>2. new.items[k + 1] = item /\ \A i \in 1..k : old.items[i] = new.items[i]
  OBVIOUS
<1> HIDE DEF k
<1>3. PICK f : /\ IsDecoding(f, k, old.generation, old.base, old.items)
               /\ Reader!DecodeChunk(old) = f[1..k]
  BY <1>1, DecodeIs
<1>4. k + 1 \in Nat
  BY <1>1
<1>5. PICK h : /\ IsDecoding(h, k + 1, new.generation, new.base, new.items)
               /\ Reader!DecodeChunk(new) = h[1..(k + 1)]
  BY <1>1, <1>4, DecodeIs
<1> DEFINE generation == old.generation
           base == old.base
           items == old.items
           others == new.items
           n == k + 1
<1>6. k \in Nat /\ n \in Nat /\ n = k + 1
  BY <1>4, <1>1
<1>7. IsDecoding(f, k, generation, base, items) /\ IsDecoding(h, n, generation, base, others)
  BY <1>3, <1>5
<1>8. \A i \in 1..k : items[i] = others[i]
  BY <1>2
<1>9. others[n] = item /\ Reader!DecodeChunk(new) = h[1..n]
  BY <1>2, <1>5
<1>10. Reader!DecodeChunk(old) = f[1..k]
  BY <1>3
<1> HIDE DEF generation, base, items, others, n
<1>11. h[1..n] = Reader!DecodeItem(generation, f[1..k], others[n])
  BY <1>6, <1>7, <1>8, DecodingOfOneMore
<1> QED BY <1>9, <1>10, <1>11 DEF generation

----------------------------------------------------------------------------
(* One record is decoded to what was encoded.                               *)

Context(timestamp, track, mod, items) ==
  [ok |-> TRUE, timestamp |-> timestamp, track |-> track, model |-> mod,
   items |-> items]

Data(generation, track, event, timestamp, duration) ==
  [kind |-> "data", generation |-> generation, track |-> track, event |-> event,
   timestamp |-> timestamp, duration |-> duration]

IsFunction(f) == f = [x \in DOMAIN f |-> f[x]]

IsContext(q, stamp, track, mod, items) ==
  /\ IsFunction(q) /\ DOMAIN q = {"ok", "timestamp", "track", "model", "items"}
  /\ q.ok = TRUE /\ q.timestamp = stamp /\ q.track = track
  /\ q.model = mod /\ q.items = items

LEMMA ContextOf ==
  ASSUME NEW q, NEW stamp, NEW track, NEW mod, NEW items,
         IsContext(q, stamp, track, mod, items)
  PROVE  q = Context(stamp, track, mod, items)
<1> DEFINE p == Context(stamp, track, mod, items)
<1>1. p.ok = TRUE /\ DOMAIN p = {"ok", "timestamp", "track", "model", "items"}
  BY DEF Context
<1>2. p.timestamp = stamp /\ p.items = items /\ p.track = track /\ p.model = mod
  BY DEF Context
<1>3. p = [x \in DOMAIN p |-> p[x]]
  BY DEF Context
<1> HIDE DEF p
<1>4. DOMAIN q = DOMAIN p /\ \A x \in DOMAIN q : q[x] = p[x]
  BY <1>1, <1>2 DEF IsContext
<1>5. q = p
  BY <1>3, <1>4 DEF IsContext, IsFunction
<1> QED BY <1>5 DEF p

LEMMA SameHalf == Reader!Half = HalfRange
  BY Zenon DEF Reader!Half, HalfRange

LEMMA DecodedEventIs ==
  ASSUME NEW g, NEW t, NEW k, NEW m, NEW items, NEW track, NEW event,
         NEW delta \in Stamps, delta < HalfRange,
         NEW duration \in Stamps, duration < HalfRange
  PROVE  Reader!DecodedEvent(g, Context(t, k, m, items), track, event, delta, duration) =
           LET timestamp == (t + delta) % ClockRange
           IN  Context(timestamp, track, ModelAfter(event),
                       Append(items, Data(g, track, event, timestamp, duration)))
<1>1. ~(delta >= Reader!Half \/ duration >= Reader!Half)
  BY SameHalf, WriterAssumption DEF Stamps
<1>2. Reader!NextModel(event) = ModelAfter(event)
  BY DEF Reader!NextModel, ModelAfter, InitialModel
<1> DEFINE timestamp == (t + delta) % ClockRange
           new == Data(g, track, event, timestamp, duration)
           longer == Append(items, new)
           mod == ModelAfter(event)
<1>3. Reader!DecodedEvent(g, Context(t, k, m, items), track, event, delta, duration) =
        [Context(t, k, m, items) EXCEPT !.timestamp = timestamp, !.track = track,
           !.model = mod, !.items = longer]
  <2>1. Context(t, k, m, items).timestamp = t /\ Context(t, k, m, items).items = items
    BY DEF Context
  <2> QED BY <1>1, <1>2, <2>1 DEF Reader!DecodedEvent, Data
<1> HIDE DEF timestamp, new, longer, mod
<1>4. [Context(t, k, m, items) EXCEPT !.timestamp = timestamp, !.track = track,
           !.model = mod, !.items = longer] = Context(timestamp, track, mod, longer)
  <2> DEFINE r == Context(t, k, m, items)
             q == [r EXCEPT !.timestamp = timestamp, !.track = track,
                          !.model = mod, !.items = longer]
  <2>1. r = [ok |-> TRUE, timestamp |-> t, track |-> k, model |-> m, items |-> items]
    BY Zenon DEF Context
  <2> HIDE DEF r
  <2>2. DOMAIN q = {"ok", "timestamp", "track", "model", "items"} /\ q.ok = TRUE
    BY <2>1
  <2>3. q.timestamp = timestamp /\ q.track = track /\ q.model = mod /\ q.items = longer
    BY <2>1
  <2>4. IsFunction(q)
    BY <2>1 DEF IsFunction
  <2>5. IsContext(q, timestamp, track, mod, longer)
    BY <2>2, <2>3, <2>4, Zenon DEF IsContext
  <2> HIDE DEF q
  <2>6. q = Context(timestamp, track, mod, longer)
    BY <2>5, ContextOf
  <2> QED BY <2>6 DEF q, r
<1> QED BY <1>3, <1>4 DEF timestamp, new, longer, mod

LEMMA DecodesEvent ==
  ASSUME NEW g, NEW t, NEW k \in Tracks, NEW m, NEW items, NEW track \in Tracks,
         NEW event, NEW delta \in Stamps, delta < HalfRange,
         NEW duration \in Stamps, duration < HalfRange,
         NEW item, item = EncodeEvent(m, k, delta, track, event, duration)
  PROVE  Reader!DecodeItem(g, Context(t, k, m, items), item) =
           LET timestamp == (t + delta) % ClockRange
           IN  Context(timestamp, track, ModelAfter(event),
                       Append(items, Data(g, track, event, timestamp, duration)))
<1> DEFINE at == Context(t, k, m, items)
           key == <<m, event, delta, duration>>
<1>1. at.ok = TRUE /\ at.track = k /\ at.model = m
  BY DEF Context
<1> HIDE DEF at
<1>2. CASE event \in SliceEvents /\ track = k /\ key \in DOMAIN Codebook
  <2>1. item = [kind |-> "hot", code |-> Codebook[key]]
    BY <1>2 DEF EncodeEvent
  <2>2. item.kind = "hot" /\ item.code = Codebook[key]
    BY <2>1
  <2>3. Reader!DecodeItem(g, at, item) = Reader!DecodeHot(g, at, item)
    BY <1>1, <2>2 DEF Reader!DecodeItem
  <2>4. {x \in DOMAIN Codebook : x[1] = at.model /\ Codebook[x] = item.code} = {key}
    <3>1. key[1] = m
      OBVIOUS
    <3>2. key \in DOMAIN Codebook
      BY <1>2
    <3> HIDE DEF key
    <3>3. ASSUME NEW x \in DOMAIN Codebook, x[1] = m, Codebook[x] = Codebook[key]
          PROVE  x = key
      BY <3>1, <3>2, <3>3, ReaderAssumption
    <3> QED BY <1>1, <2>2, <3>1, <3>2, <3>3
  <2>5. key[2] = event /\ key[3] = delta /\ key[4] = duration
    OBVIOUS
  <2> HIDE DEF key
  <2>6. (CHOOSE x \in {key} : TRUE) = key
    OBVIOUS
  <2>7. Reader!DecodeHot(g, at, item) =
          Reader!DecodedEvent(g, at, at.track, key[2], key[3], key[4])
    BY <2>4, <2>6 DEF Reader!DecodeHot
  <2>8. Reader!DecodeItem(g, at, item) =
          Reader!DecodedEvent(g, at, track, event, delta, duration)
    BY <1>1, <1>2, <2>3, <2>5, <2>7
  <2> QED BY <2>8, DecodedEventIs DEF at
<1>3. CASE track = k /\ ~(event \in SliceEvents /\ key \in DOMAIN Codebook)
  <2>1. item = [kind |-> "event", event |-> event, delta |-> delta,
                duration |-> duration]
    BY <1>3 DEF EncodeEvent
  <2>2. /\ item.kind = "event" /\ item.event = event /\ item.delta = delta
        /\ item.duration = duration
    BY <2>1
  <2>3. Reader!DecodeItem(g, at, item) =
          Reader!DecodedEvent(g, at, track, event, delta, duration)
    BY <1>1, <1>3, <2>2 DEF Reader!DecodeItem
  <2> QED BY <2>3, DecodedEventIs DEF at
<1>4. CASE track # k
  <2>1. item = [kind |-> "tracked", track |-> track, event |-> event,
                delta |-> delta, duration |-> duration]
    BY <1>4 DEF EncodeEvent
  <2>2. /\ item.kind = "tracked" /\ item.track = track /\ item.event = event
        /\ item.delta = delta /\ item.duration = duration
    BY <2>1
  <2>3. Reader!DecodeItem(g, at, item) =
          Reader!DecodedEvent(g, at, track, event, delta, duration)
    BY <1>1, <1>4, <2>2 DEF Reader!DecodeItem
  <2> QED BY <2>3, DecodedEventIs DEF at
<1> QED BY <1>2, <1>3, <1>4

LEMMA DecodesSync ==
  ASSUME NEW t, NEW k, NEW m, NEW items, NEW item \in SyncRecord,
         DeltaValid(item.after, item.before)
  PROVE  Reader!DecodeItem(item.generation, Context(t, k, m, items), item) =
           Context(Midpoint(item.before, item.after), k, m, Append(items, item))
<1> DEFINE at == Context(t, k, m, items)
           stamp == Midpoint(item.before, item.after)
<1>1. at.ok = TRUE
  BY DEF Context
<1>2. item.kind = "sync" /\ item.before \in Stamps /\ item.after \in Stamps
  BY DEF SyncRecord
<1>3. Reader!DecodeItem(item.generation, at, item) =
        Reader!DecodeSync(item.generation, at, item)
  BY <1>1, <1>2 DEF Reader!DecodeItem
<1>4. /\ Reader!InWidth(item.before) /\ Reader!InWidth(item.after)
      /\ ~(Reader!Apart(item.after, item.before) >= Reader!Half)
  <2>1. Reader!InWidth(item.before) /\ Reader!InWidth(item.after)
    BY <1>2 DEF Reader!InWidth, Stamps
  <2>2. Reader!Apart(item.after, item.before) = Delta(item.after, item.before)
    BY DEF Reader!Apart, Delta
  <2>3. Delta(item.after, item.before) \in Stamps
    <3>1. item.before \in Int /\ item.after \in Int
      BY <1>2 DEF Stamps
    <3> QED BY <3>1, ClockTypes
  <2>4. Reader!Half = HalfRange
    BY SameHalf
  <2> QED BY <2>1, <2>2, <2>3, <2>4, WriterAssumption DEF DeltaValid, Stamps
<1>5. (item.before + Reader!Apart(item.after, item.before) \div 2) % ClockRange = stamp
  BY DEF Reader!Apart, Midpoint, Delta
<1> DEFINE longer == Append(items, item)
<1> HIDE DEF stamp, longer
<1>6. Reader!DecodeSync(item.generation, at, item) =
        [at EXCEPT !.timestamp = stamp, !.items = longer]
  <2>1. at.items = items
    BY DEF Context
  <2> HIDE DEF at
  <2> QED BY <1>4, <1>5, <2>1 DEF Reader!DecodeSync, longer
<1>7. [at EXCEPT !.timestamp = stamp, !.items = longer] = Context(stamp, k, m, longer)
  <2> DEFINE r == Context(t, k, m, items)
             q == [r EXCEPT !.timestamp = stamp, !.items = longer]
  <2>1. r = [ok |-> TRUE, timestamp |-> t, track |-> k, model |-> m, items |-> items]
    BY Zenon DEF Context
  <2> HIDE DEF r
  <2>2. DOMAIN q = {"ok", "timestamp", "track", "model", "items"} /\ q.ok = TRUE
    BY <2>1
  <2>3. q.timestamp = stamp /\ q.track = k /\ q.model = m /\ q.items = longer
    BY <2>1
  <2>4. IsFunction(q)
    BY <2>1 DEF IsFunction
  <2>5. IsContext(q, stamp, k, m, longer)
    BY <2>2, <2>3, <2>4, Zenon DEF IsContext
  <2> HIDE DEF q
  <2>6. q = Context(stamp, k, m, longer)
    BY <2>5, ContextOf
  <2> QED BY <2>6 DEF q, r, at
<1> QED BY <1>3, <1>6, <1>7 DEF stamp, longer

----------------------------------------------------------------------------
(* What a chunk holds, as a stretch of the log.                             *)

DataUpTo(l, n)    == {i \in 1..n : l[i].kind = "data"}
SlicesUpTo(l, n)  == {i \in DataUpTo(l, n) : l[i].event \in SliceEvents}
RecordsUpTo(l, n) == Cardinality(DataUpTo(l, n))
EventsUpTo(l, n)  == RecordsUpTo(l, n) + Cardinality(SlicesUpTo(l, n))

(* The e entries after position b, as a reader sees them.                   *)
Part(l, b, e) == [i \in 1..e |-> Observable(l[b + i])]

(* A chunk decodes to the entries from where it was started, all of its own *)
(* generation.                                                              *)
Holds(c, l) ==
  /\ c.before.items + Len(c.items) <= Len(l)
  /\ c.records + c.syncs = Len(c.items)
  /\ \E t, k, m : Reader!DecodeChunk(c) =
                    Context(t, k, m, Part(l, c.before.items, Len(c.items)))
  /\ \A i \in 1..Len(c.items) : l[c.before.items + i].generation = c.generation
  /\ c.before.records = RecordsUpTo(l, c.before.items)
  /\ c.before.events = EventsUpTo(l, c.before.items)
  /\ (c.sequence = 0) <=> (c.before.items = 0)

Kept(c, l) == Holds(c, l) /\ Len(c.items) >= 1 /\ c.bits >= 1

(* What the code knows about a chunk once item has been committed to it.    *)
Extends(old, new, item) ==
  /\ new.items = Append(old.items, item) /\ new.generation = old.generation
  /\ new.base = old.base /\ new.before = old.before /\ new.sequence = old.sequence
  /\ new.magic = old.magic /\ new.bits >= 1
  /\ new.records + new.syncs = old.records + old.syncs + 1

----------------------------------------------------------------------------
Prolongs(l, l2) == /\ Len(l) \in Nat /\ Len(l2) = Len(l) + 1
                   /\ \A i \in 1..Len(l) : l2[i] = l[i]

LEMMA LogAppend ==
  ASSUME NEW l \in Seq(Entry), NEW x \in Entry
  PROVE  /\ Len(l) \in Nat /\ Len(Append(l, x)) = Len(l) + 1 /\ Append(l, x) \in Seq(Entry)
         /\ \A i \in 1..Len(l) : Append(l, x)[i] = l[i]
         /\ Append(l, x)[Len(l) + 1] = x
         /\ Prolongs(l, Append(l, x))
<1>1. Len(l) \in Nat /\ Len(Append(l, x)) = Len(l) + 1 /\ Append(l, x) \in Seq(Entry)
  OBVIOUS
<1>2. /\ \A i \in 1..Len(l) : Append(l, x)[i] = l[i]
      /\ Append(l, x)[Len(l) + 1] = x
  OBVIOUS
<1> QED BY <1>1, <1>2 DEF Prolongs

LEMMA PartGrows ==
  ASSUME NEW l \in Seq(Entry), NEW x \in Entry,
         NEW b \in Nat, NEW e \in Nat, b + e = Len(l)
  PROVE  Part(Append(l, x), b, e + 1) = Append(Part(l, b, e), Observable(x))
<1> DEFINE l2 == Append(l, x)
<1>1. /\ \A i \in 1..Len(l) : l2[i] = l[i]
      /\ l2[Len(l) + 1] = x
  BY LogAppend
<1> HIDE DEF l2
<1> DEFINE p == Part(l, b, e)
           q == Part(l2, b, e + 1)
<1> DEFINE S == {Observable(l[b + i]) : i \in 1..e} \cup {Observable(x)}
<1>2. p \in Seq(S) /\ Len(p) = e /\ Observable(x) \in S
  <2>1. p \in [1..e -> S]
    BY DEF Part
  <2>2. p \in UNION {[1..n -> S] : n \in Nat}
    BY <2>1
  <2>3. p \in Seq(S)
    BY <2>2, SeqDef, Zenon
  <2>4. Len(p) = e
    BY <2>1, <2>3, LenProperties
  <2> QED BY <2>3, <2>4
<1>3. \A i \in 1..e : p[i] = Observable(l[b + i])
  BY DEF Part
<1>4. Len(q) = e + 1 /\ DOMAIN q = 1..(e + 1) /\ q = [i \in 1..(e + 1) |-> q[i]]
  BY DEF Part
<1>5. \A i \in 1..(e + 1) : q[i] = Observable(l2[b + i])
  BY DEF Part
<1> HIDE DEF p, q, S
<1>6. ASSUME NEW i \in 1..e PROVE q[i] = p[i]
  <2>1. b + i \in 1..Len(l) /\ i \in 1..(e + 1)
    OBVIOUS
  <2>2. l2[b + i] = l[b + i]
    BY <1>1, <2>1
  <2> QED BY <1>3, <1>5, <2>1, <2>2
<1>7. q[e + 1] = Observable(x)
  <2>1. b + (e + 1) = Len(l) + 1 /\ e + 1 \in 1..(e + 1)
    OBVIOUS
  <2> QED BY <1>1, <1>5, <2>1
<1> DEFINE r == Append(p, Observable(x))
<1>8. /\ DOMAIN r = 1..(e + 1) /\ r = [i \in 1..(e + 1) |-> r[i]]
      /\ \A i \in 1..e : r[i] = p[i]
      /\ r[e + 1] = Observable(x)
  <2>1. r \in Seq(S) /\ Len(r) = e + 1 /\ r[e + 1] = Observable(x)
    BY <1>2, AppendProperties
  <2>2. \A i \in 1..e : r[i] = p[i]
    BY <1>2, AppendProperties
  <2>3. r \in [1..(e + 1) -> S]
    BY <2>1, LenProperties
  <2> HIDE DEF r
  <2> QED BY <2>1, <2>2, <2>3
<1> HIDE DEF r
<1>9. \A i \in 1..(e + 1) : q[i] = r[i]
  <2> TAKE i \in 1..(e + 1)
  <2>1. CASE i \in 1..e
    BY <1>6, <1>8, <2>1
  <2>2. CASE i = e + 1
    BY <1>7, <1>8, <2>2
  <2> QED BY <2>1, <2>2
<1>10. q = r
  BY <1>4, <1>8, <1>9
<1> QED BY <1>10 DEF p, q, r, l2

LEMMA PartKeeps ==
  ASSUME NEW l, NEW l2, Prolongs(l, l2), NEW b \in Nat, NEW e \in Nat, b + e <= Len(l)
  PROVE  Part(l2, b, e) = Part(l, b, e)
<1>1. Len(l) \in Nat /\ \A i \in 1..Len(l) : l2[i] = l[i]
  BY DEF Prolongs
<1>2. ASSUME NEW i \in 1..e PROVE l2[b + i] = l[b + i]
  <2>1. b + i \in 1..Len(l)
    BY <1>1
  <2> QED BY <1>1, <2>1
<1>3. \A i \in 1..e : Observable(l2[b + i]) = Observable(l[b + i])
  BY <1>2
<1> QED BY <1>3 DEF Part

LEMMA CountTypes ==
  ASSUME NEW l, NEW n \in Nat
  PROVE  /\ IsFiniteSet(DataUpTo(l, n)) /\ IsFiniteSet(SlicesUpTo(l, n))
         /\ RecordsUpTo(l, n) \in Nat /\ EventsUpTo(l, n) \in Nat
         /\ RecordsUpTo(l, n) <= EventsUpTo(l, n)
         /\ EventsUpTo(l, n) <= 2 * RecordsUpTo(l, n)
<1>1. IsFiniteSet(1..n)
  BY FS_Interval
<1>2. DataUpTo(l, n) \in SUBSET (1..n) /\ SlicesUpTo(l, n) \in SUBSET DataUpTo(l, n)
  BY DEF DataUpTo, SlicesUpTo
<1>3. IsFiniteSet(DataUpTo(l, n)) /\ IsFiniteSet(SlicesUpTo(l, n))
  BY <1>1, <1>2, FS_Subset
<1>4. /\ Cardinality(DataUpTo(l, n)) \in Nat /\ Cardinality(SlicesUpTo(l, n)) \in Nat
      /\ Cardinality(SlicesUpTo(l, n)) <= Cardinality(DataUpTo(l, n))
  BY <1>2, <1>3, FS_Subset, FS_CardinalityType
<1> QED BY <1>3, <1>4 DEF RecordsUpTo, EventsUpTo

LEMMA CountKeeps ==
  ASSUME NEW l, NEW l2, Prolongs(l, l2), NEW n \in Nat, n <= Len(l)
  PROVE  RecordsUpTo(l2, n) = RecordsUpTo(l, n) /\ EventsUpTo(l2, n) = EventsUpTo(l, n)
<1>1. \A i \in 1..n : l2[i] = l[i]
  BY DEF Prolongs
<1>2. DataUpTo(l2, n) = DataUpTo(l, n)
  BY <1>1 DEF DataUpTo
<1>3. SlicesUpTo(l2, n) = SlicesUpTo(l, n)
  <2>1. DataUpTo(l, n) \in SUBSET (1..n)
    BY DEF DataUpTo
  <2> QED BY <1>1, <1>2, <2>1 DEF SlicesUpTo
<1> QED BY <1>2, <1>3 DEF RecordsUpTo, EventsUpTo

LEMMA CountGrows ==
  ASSUME NEW l \in Seq(Entry), NEW x \in Entry, NEW l2, l2 = Append(l, x)
  PROVE  /\ RecordsUpTo(l2, Len(l2)) =
              RecordsUpTo(l, Len(l)) + (IF x.kind = "data" THEN 1 ELSE 0)
         /\ EventsUpTo(l2, Len(l2)) =
              EventsUpTo(l, Len(l)) + (IF x.kind = "data" THEN Expanded(x.event) ELSE 0)
<1> DEFINE n == Len(l)
<1>1. /\ n \in Nat /\ Len(l2) = n + 1
      /\ \A i \in 1..n : l2[i] = l[i]
      /\ l2[n + 1] = x
  BY LogAppend
<1> HIDE DEF n
<1>2. /\ IsFiniteSet(DataUpTo(l, n)) /\ IsFiniteSet(SlicesUpTo(l, n))
      /\ Cardinality(DataUpTo(l, n)) \in Nat /\ Cardinality(SlicesUpTo(l, n)) \in Nat
  BY <1>1, CountTypes, FS_CardinalityType
<1>3. n + 1 \notin DataUpTo(l, n) /\ n + 1 \notin SlicesUpTo(l, n)
  BY <1>1 DEF DataUpTo, SlicesUpTo
<1>4. DataUpTo(l2, n + 1) =
        IF x.kind = "data" THEN DataUpTo(l, n) \cup {n + 1} ELSE DataUpTo(l, n)
  <2>1. 1..(n + 1) = (1..n) \cup {n + 1}
    BY <1>1
  <2> QED BY <1>1, <2>1 DEF DataUpTo
<1>5. SlicesUpTo(l2, n + 1) =
        IF x.kind = "data" /\ x.event \in SliceEvents
        THEN SlicesUpTo(l, n) \cup {n + 1} ELSE SlicesUpTo(l, n)
  <2>1. DataUpTo(l, n) \in SUBSET (1..n)
    BY DEF DataUpTo
  <2>2. \A i \in DataUpTo(l, n) : l2[i] = l[i]
    BY <1>1, <2>1
  <2> QED BY <1>1, <1>4, <2>2 DEF SlicesUpTo
<1>6. RecordsUpTo(l2, n + 1) = RecordsUpTo(l, n) + (IF x.kind = "data" THEN 1 ELSE 0)
  <2>1. Cardinality(DataUpTo(l, n) \cup {n + 1}) = Cardinality(DataUpTo(l, n)) + 1
    BY <1>2, <1>3, FS_AddElement
  <2> QED BY <1>2, <1>4, <2>1 DEF RecordsUpTo
<1>7. Cardinality(SlicesUpTo(l2, n + 1)) = Cardinality(SlicesUpTo(l, n)) +
        (IF x.kind = "data" /\ x.event \in SliceEvents THEN 1 ELSE 0)
  <2>1. Cardinality(SlicesUpTo(l, n) \cup {n + 1}) = Cardinality(SlicesUpTo(l, n)) + 1
    BY <1>2, <1>3, FS_AddElement
  <2> QED BY <1>2, <1>5, <2>1
<1>8. EventsUpTo(l2, n + 1) =
        EventsUpTo(l, n) + (IF x.kind = "data" THEN Expanded(x.event) ELSE 0)
  BY <1>2, <1>6, <1>7 DEF EventsUpTo, RecordsUpTo, Expanded
<1> QED BY <1>1, <1>6, <1>8 DEF n

----------------------------------------------------------------------------
LEMMA ChunkFields ==
  ASSUME NEW c \in Chunk
  PROVE  /\ c.items \in Seq(WireRecord) /\ Len(c.items) \in Nat
         /\ c.before \in Position /\ c.before.items \in Nat
         /\ c.before.records \in Nat /\ c.before.events \in Nat
         /\ c.records \in Nat /\ c.syncs \in Nat /\ c.bits \in Nat /\ c.sequence \in Nat
         /\ c.generation \in Generations /\ c.base \in Stamps /\ c.magic \in BOOLEAN
  BY DEF Chunk, Position

(* The log growing takes nothing from a chunk.                              *)
LEMMA HoldsPersists ==
  ASSUME NEW c \in Chunk, NEW l, NEW l2, Prolongs(l, l2), Holds(c, l)
  PROVE  Holds(c, l2)
<1> DEFINE b == c.before.items
           e == Len(c.items)
<1>1. b \in Nat /\ e \in Nat
  BY ChunkFields
<1>2. b + e <= Len(l) /\ Len(l) \in Nat /\ Len(l2) = Len(l) + 1
  BY DEF Holds, Prolongs
<1>3. \A i \in 1..Len(l) : l2[i] = l[i]
  BY DEF Prolongs
<1>4. \A i \in 1..e : l[b + i].generation = c.generation
  BY DEF Holds
<1>5. PICK t, k, m : Reader!DecodeChunk(c) = Context(t, k, m, Part(l, b, e))
  BY DEF Holds
<1>6. c.before.records = RecordsUpTo(l, b) /\ c.before.events = EventsUpTo(l, b)
  BY DEF Holds
<1>7. c.records + c.syncs = e /\ ((c.sequence = 0) <=> (b = 0))
  BY DEF Holds
<1> HIDE DEF b, e
<1>8. Part(l2, b, e) = Part(l, b, e)
  <2>1. b + e <= Len(l)
    BY <1>2
  <2> QED BY <1>1, <2>1, PartKeeps
<1>9. b <= Len(l)
  BY <1>1, <1>2
<1>10. RecordsUpTo(l2, b) = RecordsUpTo(l, b) /\ EventsUpTo(l2, b) = EventsUpTo(l, b)
  BY <1>1, <1>9, CountKeeps
<1>11. \A i \in 1..e : l2[b + i].generation = c.generation
  <2> TAKE i \in 1..e
  <2>1. b + i \in 1..Len(l)
    BY <1>1, <1>2
  <2> QED BY <1>3, <1>4, <2>1
<1>12. b + e <= Len(l2)
  BY <1>1, <1>2
<1>13. \E tt, kk, mm : Reader!DecodeChunk(c) = Context(tt, kk, mm, Part(l2, b, e))
  BY <1>5, <1>8
<1> QED BY <1>6, <1>7, <1>10, <1>11, <1>12, <1>13 DEF Holds, b, e

(* Committing the encoding of the newest entry.                             *)
LEMMA HoldsGrows ==
  ASSUME NEW old \in Chunk, NEW new \in Chunk, NEW item \in WireRecord,
         Extends(old, new, item),
         NEW l \in Seq(Entry), NEW x \in Entry,
         Holds(old, l), old.before.items + Len(old.items) = Len(l),
         x.generation = old.generation, NEW t, NEW k, NEW m,
         Reader!DecodeItem(old.generation, Reader!DecodeChunk(old), item) =
           Context(t, k, m, Append(Part(l, old.before.items, Len(old.items)), Observable(x)))
  PROVE  /\ Kept(new, Append(l, x))
         /\ Reader!DecodeChunk(new) =
              Context(t, k, m, Part(Append(l, x), new.before.items, Len(new.items)))
<1> DEFINE l2 == Append(l, x)
<1> DEFINE b == old.before.items
           e == Len(old.items)
<1>1. b \in Nat /\ e \in Nat /\ b + e = Len(l) /\ old.items \in Seq(WireRecord)
  BY ChunkFields
<1>2. /\ new.before = old.before /\ new.before.items = b /\ Len(new.items) = e + 1
      /\ new.generation = old.generation /\ new.base = old.base
      /\ new.sequence = old.sequence /\ new.items = Append(old.items, item)
  BY <1>1 DEF Extends
<1>3. Reader!DecodeChunk(new) =
        Reader!DecodeItem(old.generation, Reader!DecodeChunk(old), item)
  BY <1>1, <1>2, DecodeAppend
<1>4. /\ Len(l) \in Nat /\ Len(l2) = Len(l) + 1
      /\ \A i \in 1..Len(l) : l2[i] = l[i]
      /\ l2[Len(l) + 1] = x /\ Prolongs(l, l2)
  BY LogAppend
<1>5. \A i \in 1..e : l[b + i].generation = old.generation
  BY DEF Holds
<1>6. old.before.records = RecordsUpTo(l, b) /\ old.before.events = EventsUpTo(l, b)
  BY DEF Holds
<1>7. old.records + old.syncs = e /\ ((old.sequence = 0) <=> (b = 0))
  BY DEF Holds
<1>8. new.records + new.syncs = e + 1 /\ new.bits >= 1
  BY <1>7 DEF Extends
<1>9. Reader!DecodeItem(old.generation, Reader!DecodeChunk(old), item) =
        Context(t, k, m, Append(Part(l, b, e), Observable(x)))
  OBVIOUS
<1> HIDE DEF b, e, l2
<1>10. Part(l2, b, e + 1) = Append(Part(l, b, e), Observable(x))
  BY <1>1, PartGrows DEF l2
<1>11. Reader!DecodeChunk(new) = Context(t, k, m, Part(l2, b, e + 1))
  BY <1>3, <1>9, <1>10
<1>12. \A i \in 1..(e + 1) : l2[b + i].generation = old.generation
  <2> TAKE i \in 1..(e + 1)
  <2>1. CASE i \in 1..e
    <3>1. b + i \in 1..Len(l)
      BY <1>1, <2>1
    <3> QED BY <1>4, <1>5, <2>1, <3>1
  <2>2. CASE i = e + 1
    <3>1. b + i = Len(l) + 1
      BY <1>1, <1>4, <2>2
    <3> QED BY <1>4, <3>1
  <2> QED BY <1>1, <2>1, <2>2
<1>13. RecordsUpTo(l2, b) = RecordsUpTo(l, b) /\ EventsUpTo(l2, b) = EventsUpTo(l, b)
  <2>1. b <= Len(l)
    BY <1>1
  <2> QED BY <1>1, <1>4, <2>1, CountKeeps
<1>14. b + (e + 1) <= Len(l2) /\ e + 1 >= 1
  BY <1>1, <1>4
<1>15. \E tt, kk, mm : Reader!DecodeChunk(new) = Context(tt, kk, mm, Part(l2, b, e + 1))
  BY <1>11
<1>16. Holds(new, l2)
  BY <1>2, <1>6, <1>7, <1>8, <1>12, <1>13, <1>14, <1>15 DEF Holds
<1>17. Kept(new, l2) /\ Reader!DecodeChunk(new) =
         Context(t, k, m, Part(l2, new.before.items, Len(new.items)))
  BY <1>2, <1>8, <1>11, <1>14, <1>16 DEF Kept
<1> QED BY <1>17 DEF l2

----------------------------------------------------------------------------
(* What the writer keeps true of the chunks, the log and its own context.   *)

Kepts == \A slot \in Slots : chunks[slot].magic => Kept(chunks[slot], log)

(* The decoder, having read the current chunk, is where the encoder is.     *)
InContext ==
  current_chunk # NoChunk =>
    LET c == chunks[current_chunk]
    IN  /\ c.generation = current_generation
        /\ Reader!DecodeChunk(c) =
             Context(current_timestamp, current_track, model,
                     Part(log, c.before.items, Len(c.items)))

Counted == /\ total_records = RecordsUpTo(log, Len(log))
           /\ total_events = EventsUpTo(log, Len(log))

(* A chunk is at most one generation ahead of the one before it.            *)
GenerationsClose ==
  \A a, b \in Slots :
    chunks[a].magic /\ chunks[b].magic /\ chunks[a].sequence <= chunks[b].sequence =>
      \E d \in 0..(chunks[b].sequence - chunks[a].sequence) :
        chunks[b].generation = (chunks[a].generation + d) % GenerationRange

GapsClear ==
  \A i \in 2..Len(log) :
    log[i].generation = log[i - 1].generation =>
      Delta(Stamp(log[i]), Stamp(log[i - 1])) < HalfRange

KeepInv == /\ RingInv /\ ClockInv
           /\ Kepts /\ InContext /\ Counted /\ GenerationsClose /\ GapsClear

(* A call that records: item, the encoding of entry, goes into old.         *)
Commits(slot, old, new, item, entry) ==
  /\ chunks' = [chunks EXCEPT ![slot] = new] /\ current_chunk' = slot
  /\ log' = Append(log, entry)
  /\ Extends(old, new, item)
  /\ Holds(old, log) /\ old.before.items + Len(old.items) = Len(log)
  /\ old.magic = TRUE
  /\ entry.generation = old.generation /\ current_generation' = old.generation
  /\ Reader!DecodeItem(old.generation, Reader!DecodeChunk(old), item) =
       Context(current_timestamp', current_track', model',
               Append(Part(log, old.before.items, Len(old.items)), Observable(entry)))
  /\ total_records' = total_records + (IF entry.kind = "data" THEN 1 ELSE 0)
  /\ total_events' = total_events +
                       (IF entry.kind = "data" THEN Expanded(entry.event) ELSE 0)
  /\ (log # <<>> /\ entry.generation = log[Len(log)].generation) =>
       Delta(Stamp(entry), Stamp(log[Len(log)])) < HalfRange
  /\ \/ /\ current_chunk = slot /\ old = chunks[slot] /\ next_sequence' = next_sequence
     \/ /\ old.sequence = next_sequence /\ next_sequence' = next_sequence + 1
        /\ current_chunk # NoChunk =>
             old.generation \in
               {current_generation, (current_generation + 1) % GenerationRange}

Still == UNCHANGED <<chunks, log, totals, context, current_chunk, next_sequence>>

----------------------------------------------------------------------------
LEMMA KeptOfCurrent ==
  ASSUME KeepInv, current_chunk # NoChunk, NEW c, c = chunks[current_chunk]
  PROVE  /\ current_chunk \in Slots /\ c \in Chunk /\ c.magic = TRUE /\ Kept(c, log)
         /\ c.before.items + Len(c.items) = Len(log)
         /\ c.generation = current_generation
<1>1. TypeOK /\ RingKeepsNewest /\ Ledger /\ FirstChunkFirst
  BY DEF KeepInv, RingInv
<1>2. current_chunk \in Slots /\ c \in Chunk
  BY <1>1 DEF TypeOK
<1>3. Live(current_chunk)
  <2>1. Age(current_chunk) = 0
    BY <1>2, AgeFacts
  <2>2. valid_chunks > 0
    <3>1. next_sequence # 0 /\ next_sequence \in Nat
      BY <1>1 DEF FirstChunkFirst, TypeOK
    <3> QED BY <1>1, <3>1, WriterAssumption DEF RingKeepsNewest
  <2> QED BY <2>1, <2>2 DEF Live
<1>4. c.magic
  BY <1>1, <1>2, <1>3 DEF RingKeepsNewest
<1>5. c.magic = TRUE
  BY <1>2, <1>4 DEF Chunk
<1>6. EndOf(c) = Here
  BY <1>1, <1>2, <1>3 DEF Ledger
<1>7. c.before.items + Len(c.items) = Len(log)
  BY <1>6 DEF EndOf, Here
<1>8. Kept(c, log)
  BY <1>2, <1>4 DEF KeepInv, Kepts
<1>9. c.generation = current_generation
  BY DEF KeepInv, InContext
<1> QED BY <1>2, <1>5, <1>7, <1>8, <1>9

IsFresh(f, g, base) ==
  /\ f \in Chunk /\ f.magic = TRUE /\ f.sequence = next_sequence
  /\ f.generation = g /\ f.items = <<>> /\ Len(f.items) = 0
  /\ f.before.items = Len(log) /\ Holds(f, log)
  /\ Reader!DecodeChunk(f) =
       Context(base, DefaultTrack, InitialModel, Part(log, f.before.items, 0))

LEMMA KeptOfFresh ==
  ASSUME KeepInv, NEW g \in Generations, NEW base \in Stamps
  PROVE  IsFresh(FreshChunk(g, base), g, base)
<1> DEFINE f == FreshChunk(g, base)
<1>0. TypeOK /\ FirstChunkFirst /\ Counted
  BY DEF KeepInv, RingInv
<1>1. f \in Chunk
  BY <1>0, FreshChunkType
<1>2. /\ f.magic = TRUE /\ f.sequence = next_sequence /\ f.generation = g
      /\ f.items = <<>> /\ f.base = base /\ f.before = Here
      /\ f.records = 0 /\ f.syncs = 0
  BY DEF FreshChunk
<1>3. /\ f.before.items = Len(log) /\ f.before.records = total_records
      /\ f.before.events = total_events
  BY <1>2 DEF Here
<1>4. Len(f.items) = 0 /\ Len(log) \in Nat
  BY <1>0, <1>2, LenProperties, EmptySeq DEF TypeOK
<1>5. Part(log, f.before.items, 0) = <<>>
  BY DEF Part
<1>6. Reader!DecodeChunk(f) = Blank(base)
  BY <1>2, DecodeEmpty
<1>7. Blank(base) = Context(base, DefaultTrack, InitialModel, <<>>)
  BY DEF Blank, Context, InitialModel
<1>8. (next_sequence = 0) <=> (Len(log) = 0)
  <2>1. next_sequence = 0 => Len(log) = 0
    BY <1>0 DEF FirstChunkFirst
  <2>2. next_sequence # 0 => Len(log) # 0
    <3> SUFFICES ASSUME next_sequence # 0 PROVE Len(log) # 0
      OBVIOUS
    <3>1. current_chunk # NoChunk
      BY <1>0 DEF FirstChunkFirst
    <3> DEFINE c == chunks[current_chunk]
    <3>2. c \in Chunk /\ Kept(c, log) /\ c.before.items + Len(c.items) = Len(log)
      BY <3>1, KeptOfCurrent
    <3> HIDE DEF c
    <3>3. Len(c.items) >= 1
      BY <3>2 DEF Kept
    <3>4. c.before.items \in Nat /\ Len(c.items) \in Nat
      BY <3>2, ChunkFields
    <3> QED BY <3>2, <3>3, <3>4
  <2> QED BY <2>1, <2>2
<1>9. Holds(f, log)
  <2>1. f.before.items + Len(f.items) <= Len(log)
    BY <1>3, <1>4
  <2>2. \E t, k, m : Reader!DecodeChunk(f) =
                      Context(t, k, m, Part(log, f.before.items, Len(f.items)))
    BY <1>4, <1>5, <1>6, <1>7
  <2>3. \A i \in 1..Len(f.items) : log[f.before.items + i].generation = f.generation
    BY <1>4
  <2> QED BY <1>0, <1>2, <1>3, <1>4, <1>8, <2>1, <2>2, <2>3 DEF Holds, Counted
<1> HIDE DEF f
<1>10. IsFresh(f, g, base)
  BY <1>1, <1>2, <1>3, <1>4, <1>5, <1>6, <1>7, <1>9 DEF IsFresh
<1> QED BY <1>10 DEF f

LEMMA CommitExtends ==
  ASSUME NEW old \in Chunk, NEW item \in WireRecord, item.kind \in Kinds, NEW n \in Nat
  PROVE  /\ Extends(old, CommitData(old, item, n), item)
         /\ Extends(old, CommitSync(old, item), item)
<1>1. /\ old.bits \in Nat /\ old.records \in Nat /\ old.syncs \in Nat
  BY DEF Chunk
<1>2. Bits[item.kind] \in Nat \ {0}
  BY WriterAssumption
<1>3. old.bits + Bits[item.kind] >= 1
  BY <1>1, <1>2
<1>4. Extends(old, CommitData(old, item, n), item)
  <2> DEFINE new == CommitData(old, item, n)
  <2>1. /\ new.items = Append(old.items, item) /\ new.generation = old.generation
        /\ new.base = old.base /\ new.before = old.before /\ new.sequence = old.sequence
        /\ new.magic = old.magic /\ new.bits = old.bits + Bits[item.kind]
        /\ new.records = old.records + 1 /\ new.syncs = old.syncs
    BY DEF CommitData, Chunk
  <2> HIDE DEF new
  <2>2. new.records + new.syncs = old.records + old.syncs + 1
    <3>1. (old.records + 1) + old.syncs = old.records + old.syncs + 1
      BY <1>1
    <3> QED BY <2>1, <3>1
  <2>3. new.bits >= 1
    BY <1>3, <2>1
  <2>4. Extends(old, new, item)
    BY <2>1, <2>2, <2>3 DEF Extends
  <2> QED BY <2>4 DEF new
<1>5. Extends(old, CommitSync(old, item), item)
  <2> DEFINE new == CommitSync(old, item)
  <2>1. /\ new.items = Append(old.items, item) /\ new.generation = old.generation
        /\ new.base = old.base /\ new.before = old.before /\ new.sequence = old.sequence
        /\ new.magic = old.magic /\ new.bits = old.bits + Bits[item.kind]
        /\ new.records = old.records /\ new.syncs = old.syncs + 1
    BY DEF CommitSync, Chunk
  <2> HIDE DEF new
  <2>2. new.records + new.syncs = old.records + old.syncs + 1
    <3>1. old.records + (old.syncs + 1) = old.records + old.syncs + 1
      BY <1>1
    <3> QED BY <2>1, <3>1
  <2>3. new.bits >= 1
    BY <1>3, <2>1
  <2>4. Extends(old, new, item)
    BY <2>1, <2>2, <2>3 DEF Extends
  <2> QED BY <2>4 DEF new
<1> QED BY <1>4, <1>5

(* A counter sample is found again from the one before it.                  *)
LEMMA Reached ==
  ASSUME NEW newer \in Stamps, NEW older \in Stamps
  PROVE  (older + Delta(newer, older)) % ClockRange = newer
<1>1. ClockRange \in Nat \ {0} /\ newer \in 0..(ClockRange - 1) /\ older \in 0..(ClockRange - 1)
  BY WriterAssumption DEF Stamps
<1>2. CASE newer >= older
  <2>1. newer - older \in 0..(ClockRange - 1)
    BY <1>1, <1>2
  <2>2. (newer - older) % ClockRange = newer - older
    BY <1>1, <2>1
  <2>3. older + (newer - older) = newer
    BY <1>1
  <2>4. newer % ClockRange = newer
    BY <1>1
  <2> QED BY <2>2, <2>3, <2>4 DEF Delta
<1>3. CASE newer < older
  <2>1. newer - older + ClockRange \in 0..(ClockRange - 1)
    BY <1>1, <1>3
  <2>2. (newer - older) % ClockRange = newer - older + ClockRange
    BY <1>1, <2>1
  <2>3. older + (newer - older + ClockRange) = newer + ClockRange
    BY <1>1
  <2>4. (newer + ClockRange) % ClockRange = newer
    BY <1>1
  <2> QED BY <2>2, <2>3, <2>4 DEF Delta
<1> QED BY <1>1, <1>2, <1>3

----------------------------------------------------------------------------
(* Every call commits one entry or stays still.                             *)

(* The entry a call records is close enough to the one before it.           *)
LEMMA GapOf ==
  ASSUME KeepInv, NEW entry,
         current_chunk # NoChunk /\ entry.generation = current_generation =>
           Delta(Stamp(entry), current_timestamp) < HalfRange
  PROVE  (log # <<>> /\ entry.generation = log[Len(log)].generation) =>
           Delta(Stamp(entry), Stamp(log[Len(log)])) < HalfRange
<1>1. LogKnown
  BY DEF KeepInv, ClockInv
<1> SUFFICES ASSUME log # <<>>, entry.generation = log[Len(log)].generation
             PROVE  Delta(Stamp(entry), Stamp(log[Len(log)])) < HalfRange
  OBVIOUS
<1>2. /\ current_chunk # NoChunk /\ log[Len(log)].generation = current_generation
      /\ Stamp(log[Len(log)]) = current_timestamp
  BY <1>1 DEF LogKnown
<1> QED BY <1>2

LEMMA StillChunk == ring' = ring => current_chunk' = current_chunk /\ next_sequence' = next_sequence
  BY DEF ring

LEMMA AppendEventCommits ==
  ASSUME KeepInv, NEW timestamp \in Stamps, NEW track \in Tracks, NEW event \in Events,
         NEW duration \in Stamps, EventAccepted(timestamp, duration),
         AppendEvent(timestamp, track, event, duration, current_generation)
  PROVE  \E slot \in Slots, old \in Chunk, new \in Chunk, item \in WireRecord,
            entry \in Entry : Commits(slot, old, new, item, entry)
<1> DEFINE observed == IF current_chunk = NoChunk THEN 0
                       ELSE Delta(timestamp, current_timestamp)
           here     == EncodeEvent(model, current_track, observed, track, event, duration)
           restart  == EncodeEvent(InitialModel, DefaultTrack, 0, track, event, duration)
           e        == Expanded(event)
           entry    == [kind |-> "data", generation |-> current_generation,
                        track |-> track, event |-> event, timestamp |-> timestamp,
                        duration |-> duration, started |-> current_generation]
           data     == Data(current_generation, track, event, timestamp, duration)
<1>0. TypeOK
  BY DEF KeepInv, RingInv
<1>1. /\ duration < HalfRange
      /\ current_chunk # NoChunk => Delta(timestamp, current_timestamp) < HalfRange
  BY DEF EventAccepted, DeltaValid
<1>2. /\ current_timestamp \in Stamps /\ current_generation \in Generations
      /\ current_track \in Tracks /\ next_sequence \in Nat
      /\ current_timestamp \in Int /\ timestamp \in Int /\ 0 \in Stamps /\ 0 < HalfRange
  BY <1>0, ClockTypes, WriterAssumption DEF TypeOK, Stamps
<1>3. observed \in Stamps
  BY <1>2, ClockTypes
<1>4. here \in WireRecord /\ here.kind \in Kinds
  BY <1>0, <1>3, EncodeEventType DEF TypeOK
<1>5. restart \in WireRecord /\ restart.kind \in Kinds
  BY <1>2, WriterAssumption, EncodeEventType
<1>6. e \in Nat
  BY DEF Expanded
<1>7. /\ entry \in DataEntry /\ entry \in Entry
      /\ entry.kind = "data" /\ entry.generation = current_generation
      /\ entry.event = event /\ Stamp(entry) = timestamp /\ Observable(entry) = data
  BY <1>2 DEF DataEntry, Entry, Stamp, Observable, Data
<1>8. /\ log' = Append(log, entry)
      /\ current_timestamp' = timestamp /\ current_track' = track
      /\ model' = ModelAfter(event) /\ current_generation' = current_generation
      /\ total_records' = total_records + 1 /\ total_events' = total_events + e
  BY DEF AppendEvent
<1>9. /\ total_records' = total_records + (IF entry.kind = "data" THEN 1 ELSE 0)
      /\ total_events' = total_events +
                          (IF entry.kind = "data" THEN Expanded(entry.event) ELSE 0)
  BY <1>7, <1>8
<1>10. (log # <<>> /\ entry.generation = log[Len(log)].generation) =>
         Delta(Stamp(entry), Stamp(log[Len(log)])) < HalfRange
  BY <1>1, <1>7, GapOf
<1>11. CASE NeedsChunk(here)
  <2> DEFINE old == FreshChunk(current_generation, timestamp)
             new == CommitData(old, restart, e)
  <2>1. StartChunk /\ chunks' = [chunks EXCEPT ![NextSlot] = new]
    BY <1>11 DEF AppendEvent
  <2>2. /\ current_chunk' = NextSlot /\ next_sequence' = next_sequence + 1
        /\ NextSlot \in Slots
    BY <1>0, <2>1, NextSlotType DEF StartChunk
  <2>3. /\ old \in Chunk /\ old.magic = TRUE /\ old.sequence = next_sequence
        /\ old.generation = current_generation /\ Len(old.items) = 0
        /\ old.before.items = Len(log) /\ Holds(old, log)
        /\ Reader!DecodeChunk(old) =
             Context(timestamp, DefaultTrack, InitialModel, Part(log, old.before.items, 0))
    <3>1. IsFresh(old, current_generation, timestamp)
      BY <1>2, KeptOfFresh
    <3> HIDE DEF old
    <3> QED BY <3>1 DEF IsFresh
  <2>4. new \in Chunk /\ Extends(old, new, restart)
    BY <1>5, <1>6, <2>3, CommitTypes, CommitExtends
  <2>5. (timestamp + 0) % ClockRange = timestamp
    <3>1. Delta(timestamp, timestamp) = 0
      BY EqualStamps
    <3> QED BY <3>1, Reached
  <2>6. Reader!DecodeItem(current_generation,
          Context(timestamp, DefaultTrack, InitialModel, Part(log, old.before.items, 0)),
          restart) =
        Context(timestamp, track, ModelAfter(event),
                Append(Part(log, old.before.items, 0), data))
    <3> HIDE DEF old, new
    <3>1. restart = EncodeEvent(InitialModel, DefaultTrack, 0, track, event, duration)
      OBVIOUS
    <3>2. DefaultTrack \in Tracks
      BY WriterAssumption
    <3> HIDE DEF restart
    <3> QED BY <1>1, <1>2, <2>5, <3>1, <3>2, DecodesEvent
  <2> HIDE DEF old, new, restart, here, entry, data, e
  <2>7. old.before.items + Len(old.items) = Len(log)
    <3>1. Len(log) \in Nat
      BY <1>0, LenProperties DEF TypeOK
    <3> QED BY <2>3, <3>1
  <2>8. Reader!DecodeItem(old.generation, Reader!DecodeChunk(old), restart) =
          Context(current_timestamp', current_track', model',
                  Append(Part(log, old.before.items, Len(old.items)), Observable(entry)))
    BY <1>7, <1>8, <2>3, <2>6
  <2>9. Commits(NextSlot, old, new, restart, entry)
    BY <1>7, <1>8, <1>9, <1>10, <2>1, <2>2, <2>3, <2>4, <2>7, <2>8 DEF Commits
  <2> QED BY <1>5, <1>7, <2>2, <2>3, <2>4, <2>9
<1>12. CASE ~NeedsChunk(here)
  <2> DEFINE old == chunks[current_chunk]
             new == CommitData(old, here, e)
  <2>1. UNCHANGED ring /\ chunks' = [chunks EXCEPT ![current_chunk] = new]
    BY <1>12 DEF AppendEvent
  <2>2. current_chunk # NoChunk /\ observed = Delta(timestamp, current_timestamp)
    BY <1>12 DEF NeedsChunk
  <2>3. /\ current_chunk \in Slots /\ old \in Chunk /\ old.magic = TRUE /\ Kept(old, log)
        /\ old.before.items + Len(old.items) = Len(log)
        /\ old.generation = current_generation
    BY <2>2, KeptOfCurrent
  <2>4. new \in Chunk /\ Extends(old, new, here)
    BY <1>4, <1>6, <2>3, CommitTypes, CommitExtends
  <2>5. Reader!DecodeChunk(old) =
          Context(current_timestamp, current_track, model,
                  Part(log, old.before.items, Len(old.items)))
    BY <2>2 DEF KeepInv, InContext
  <2>6. (current_timestamp + observed) % ClockRange = timestamp
    BY <1>2, <2>2, Reached
  <2>7. observed < HalfRange
    BY <1>1, <2>2
  <2>8. Reader!DecodeItem(current_generation,
          Context(current_timestamp, current_track, model,
                  Part(log, old.before.items, Len(old.items))), here) =
        Context(timestamp, track, ModelAfter(event),
                Append(Part(log, old.before.items, Len(old.items)), data))
    <3> HIDE DEF old, new
    <3>1. here = EncodeEvent(model, current_track, observed, track, event, duration)
      OBVIOUS
    <3> HIDE DEF here, observed
    <3> QED BY <1>1, <1>2, <1>3, <2>6, <2>7, <3>1, DecodesEvent
  <2>9. old = chunks[current_chunk]
    OBVIOUS
  <2> HIDE DEF old, new, restart, here, entry, data, e, observed
  <2>10. Reader!DecodeItem(old.generation, Reader!DecodeChunk(old), here) =
          Context(current_timestamp', current_track', model',
                  Append(Part(log, old.before.items, Len(old.items)), Observable(entry)))
    BY <1>7, <1>8, <2>3, <2>5, <2>8
  <2>11. current_chunk' = current_chunk /\ next_sequence' = next_sequence
    BY <2>1, StillChunk
  <2>12. Holds(old, log)
    BY <2>3 DEF Kept
  <2>13. Commits(current_chunk, old, new, here, entry)
    BY <1>7, <1>8, <1>9, <1>10, <2>1, <2>3, <2>4, <2>9, <2>10, <2>11, <2>12 DEF Commits
  <2> QED BY <1>4, <1>7, <2>3, <2>4, <2>13
<1> QED BY <1>11, <1>12

LEMMA ClockSyncCommits ==
  ASSUME KeepInv, NEW generation \in Generations, NEW before \in Samples,
         NEW after \in Samples, ClockSync(generation, before, after)
  PROVE  \E slot \in Slots, old \in Chunk, new \in Chunk, item \in WireRecord,
            entry \in Entry : Commits(slot, old, new, item, entry)
<1> DEFINE item == [kind |-> "sync", generation |-> generation, before |-> before,
                    after |-> after]
           fresh == generation # current_generation \/ NeedsChunk(item)
<1>0. TypeOK
  BY DEF KeepInv, RingInv
<1>1. /\ before \in Stamps /\ after \in Stamps /\ DeltaValid(after, before)
      /\ generation # current_generation =>
           generation = (current_generation + 1) % GenerationRange
      /\ generation = current_generation /\ current_chunk # NoChunk =>
           DeltaValid(Midpoint(before, after), current_timestamp)
  BY DEF ClockSync, SyncAccepted, SampleValid, TransitionAllowed
<1>2. /\ item \in SyncRecord /\ item \in Entry
      /\ item.kind = "sync" /\ item.generation = generation
      /\ item.before = before /\ item.after = after
      /\ Stamp(item) = Midpoint(before, after) /\ Observable(item) = item
  BY <1>1 DEF SyncRecord, Entry, Stamp, Observable
<1>3. item \in WireRecord /\ item.kind \in Kinds
  BY <1>2 DEF WireRecord, Kinds
<1>4. /\ log' = Append(log, item) /\ UNCHANGED totals
      /\ current_generation' = generation
      /\ current_timestamp' = Midpoint(before, after)
  BY DEF ClockSync
<1>5. /\ total_records \in Nat /\ total_events \in Nat
      /\ total_records' = total_records /\ total_events' = total_events
  BY <1>0, <1>4 DEF totals, TypeOK
<1>6. /\ total_records' = total_records + (IF item.kind = "data" THEN 1 ELSE 0)
      /\ total_events' = total_events +
                          (IF item.kind = "data" THEN Expanded(item.event) ELSE 0)
  BY <1>2, <1>5
<1>7. current_chunk # NoChunk /\ item.generation = current_generation =>
        Delta(Stamp(item), current_timestamp) < HalfRange
  BY <1>1, <1>2 DEF DeltaValid
<1>8. (log # <<>> /\ item.generation = log[Len(log)].generation) =>
         Delta(Stamp(item), Stamp(log[Len(log)])) < HalfRange
  <2> HIDE DEF item
  <2> QED BY <1>7, GapOf
<1>9. \A t, k, m, items :
        Reader!DecodeItem(generation, Context(t, k, m, items), item) =
          Context(Midpoint(before, after), k, m, Append(items, item))
  <2> HIDE DEF item
  <2> QED BY <1>1, <1>2, DecodesSync
<1>10. CASE fresh
  <2> DEFINE old == FreshChunk(generation, before)
             new == CommitSync(old, item)
  <2>1. /\ StartChunk /\ chunks' = [chunks EXCEPT ![NextSlot] = new]
        /\ current_track' = DefaultTrack /\ model' = InitialModel
    BY <1>10 DEF ClockSync
  <2>2. /\ current_chunk' = NextSlot /\ next_sequence' = next_sequence + 1
        /\ NextSlot \in Slots
    BY <1>0, <2>1, NextSlotType DEF StartChunk
  <2>3. /\ old \in Chunk /\ old.magic = TRUE /\ old.sequence = next_sequence
        /\ old.generation = generation /\ Len(old.items) = 0
        /\ old.before.items = Len(log) /\ Holds(old, log)
        /\ Reader!DecodeChunk(old) =
             Context(before, DefaultTrack, InitialModel, Part(log, old.before.items, 0))
    <3>1. IsFresh(old, generation, before)
      BY <1>1, KeptOfFresh
    <3> HIDE DEF old
    <3> QED BY <3>1 DEF IsFresh
  <2>4. new \in Chunk /\ Extends(old, new, item)
    BY <1>3, <2>3, CommitTypes, CommitExtends
  <2> HIDE DEF old, new, item
  <2>5. old.before.items + Len(old.items) = Len(log)
    <3>1. Len(log) \in Nat
      BY <1>0, LenProperties DEF TypeOK
    <3> QED BY <2>3, <3>1
  <2>6. Reader!DecodeItem(old.generation, Reader!DecodeChunk(old), item) =
          Context(current_timestamp', current_track', model',
                  Append(Part(log, old.before.items, Len(old.items)), Observable(item)))
    BY <1>2, <1>4, <1>9, <2>1, <2>3
  <2>7. current_chunk # NoChunk =>
          old.generation \in
            {current_generation, (current_generation + 1) % GenerationRange}
    BY <1>1, <2>3
  <2>8. Commits(NextSlot, old, new, item, item)
    BY <1>2, <1>4, <1>6, <1>8, <2>1, <2>2, <2>3, <2>4, <2>5, <2>6, <2>7 DEF Commits
  <2> QED BY <1>2, <1>3, <2>2, <2>3, <2>4, <2>8
<1>11. CASE ~fresh
  <2> DEFINE old == chunks[current_chunk]
             new == CommitSync(old, item)
  <2>1. /\ UNCHANGED ring /\ chunks' = [chunks EXCEPT ![current_chunk] = new]
        /\ UNCHANGED <<current_track, model>>
    BY <1>11 DEF ClockSync
  <2>2. current_chunk # NoChunk /\ generation = current_generation
    BY <1>11 DEF NeedsChunk
  <2>3. /\ current_chunk \in Slots /\ old \in Chunk /\ old.magic = TRUE /\ Kept(old, log)
        /\ old.before.items + Len(old.items) = Len(log)
        /\ old.generation = current_generation
    BY <2>2, KeptOfCurrent
  <2>4. new \in Chunk /\ Extends(old, new, item)
    BY <1>3, <2>3, CommitTypes, CommitExtends
  <2>5. Reader!DecodeChunk(old) =
          Context(current_timestamp, current_track, model,
                  Part(log, old.before.items, Len(old.items)))
    BY <2>2 DEF KeepInv, InContext
  <2>6. old = chunks[current_chunk]
    OBVIOUS
  <2> HIDE DEF old, new, item
  <2>7. Reader!DecodeItem(old.generation, Reader!DecodeChunk(old), item) =
          Context(current_timestamp', current_track', model',
                  Append(Part(log, old.before.items, Len(old.items)), Observable(item)))
    BY <1>2, <1>4, <1>9, <2>1, <2>2, <2>3, <2>5
  <2>8. current_chunk' = current_chunk /\ next_sequence' = next_sequence
    BY <2>1, StillChunk
  <2>9. Holds(old, log)
    BY <2>3 DEF Kept
  <2>10. Commits(current_chunk, old, new, item, item)
    BY <1>2, <1>4, <1>6, <1>8, <2>1, <2>2, <2>3, <2>4, <2>6, <2>7, <2>8, <2>9 DEF Commits
  <2> QED BY <1>2, <1>3, <2>3, <2>4, <2>10
<1> QED BY <1>10, <1>11

LEMMA StillImage == UNCHANGED image => Still
  BY DEF image, ring, Still

LEMMA CommitSteps ==
  ASSUME KeepInv, [Next]_vars
  PROVE  \/ Still
         \/ \E slot \in Slots, old \in Chunk, new \in Chunk, item \in WireRecord,
               entry \in Entry : Commits(slot, old, new, item, entry)
<1>0. TypeOK /\ ScopesCurrent
  BY DEF KeepInv, RingInv, ClockInv
<1> DEFINE Commit == \E slot \in Slots, old \in Chunk, new \in Chunk,
                        item \in WireRecord, entry \in Entry :
                          Commits(slot, old, new, item, entry)
<1> SUFFICES Still \/ Commit
  OBVIOUS
<1> HIDE DEF Commit
<1>a. ASSUME NEW timestamp \in Stamps, NEW track \in Tracks, NEW event \in Events,
             NEW duration \in Stamps, EventAccepted(timestamp, duration),
             AppendEvent(timestamp, track, event, duration, current_generation)
      PROVE  Commit
  BY <1>a, AppendEventCommits DEF Commit
<1>1. ASSUME NEW t \in Samples, NEW track \in Tracks, NEW event \in InstantEvents,
             NEW ok \in BOOLEAN, Emit(t, track, event, ok)
      PROVE  Still \/ Commit
  <2>1. CASE ok /\ EventAccepted(t, 0)
    <3>1. AppendEvent(t, track, event, 0, current_generation)
      BY <1>1, <2>1 DEF Emit
    <3>2. t \in Stamps /\ event \in Events /\ EventAccepted(t, 0)
      BY <2>1 DEF EventAccepted, SampleValid, Events
    <3>3. 0 \in Stamps
      BY ClockTypes
    <3> QED BY <1>a, <3>1, <3>2, <3>3
  <2>2. CASE ~(ok /\ EventAccepted(t, 0))
    BY <1>1, <2>2, StillImage DEF Emit, Drop
  <2> QED BY <2>1, <2>2
<1>2. ASSUME NEW t \in Samples, NEW track \in Tracks, NEW event \in SliceEvents,
             NEW ok \in BOOLEAN, Begin(t, track, event, ok)
      PROVE  Still
  BY <1>2, StillImage DEF Begin, Drop
<1>3. ASSUME NEW t \in Samples, End(t)
      PROVE  Still \/ Commit
  <2> DEFINE duration == Delta(t, Innermost.started_at)
  <2>1. scopes # <<>>
    BY <1>3 DEF End
  <2>2. Innermost \in Scope /\ Innermost.generation = current_generation
    <3>1. Len(scopes) \in DOMAIN scopes
      BY <1>0, <2>1, ScopeTypes, LenProperties DEF TypeOK
    <3> QED BY <1>0, <2>1, <3>1, ScopeTypes DEF ScopesCurrent
  <2>3. duration \in Stamps
    <3>1. t \in Int /\ Innermost.started_at \in Int
      BY <2>2, WriterAssumption DEF Samples, Scope, Stamps
    <3> QED BY <3>1, ClockTypes
  <2>4. CASE EventAccepted(t, duration)
    <3>1. AppendEvent(t, Innermost.track, Innermost.event, duration, current_generation)
      BY <1>3, <2>2, <2>4 DEF End
    <3>2. t \in Stamps
      BY <2>4 DEF EventAccepted, SampleValid
    <3>3. Innermost.track \in Tracks /\ Innermost.event \in Events
      BY <2>2 DEF Scope, Events
    <3> HIDE DEF duration
    <3> QED BY <1>a, <2>3, <2>4, <3>1, <3>2, <3>3
  <2>5. CASE ~EventAccepted(t, duration)
    BY <1>3, <2>5, StillImage DEF End, Retained
  <2> QED BY <2>4, <2>5
<1>4. CASE EndUnmatched
  BY <1>4, StillImage DEF EndUnmatched, Drop
<1>5. CASE Cancel
  BY <1>5, StillImage DEF Cancel, Drop
<1>6. ASSUME NEW g \in Generations, NEW before \in Samples, NEW after \in Samples,
             ClockSync(g, before, after)
      PROVE  Commit
  BY <1>6, ClockSyncCommits DEF Commit
<1>7. CASE Finalize
  BY <1>7 DEF Finalize, Still
<1>8. CASE UNCHANGED vars
  BY <1>8, StillImage DEF vars
<1>9. CASE Next
  BY <1>1, <1>2, <1>3, <1>4, <1>5, <1>6, <1>7, <1>9 DEF Next
<1> QED BY <1>8, <1>9

----------------------------------------------------------------------------
(* Remainders.                                                              *)

LEMMA Remainder ==
  ASSUME NEW s \in Int, NEW m \in Int, m > 0, NEW k \in Int, NEW r \in 0..(m - 1), s = m * k + r
  PROVE  s % m = r
BY SMTT(30)

LEMMA Quotient ==
  ASSUME NEW s \in Int, NEW m \in Int, m > 0
  PROVE  \E i \in Int : s % m \in 0..(m - 1) /\ s = m * i + (s % m)
<1> DEFINE k == s \div m
           r == s - m * k
<1>1. k \in Int /\ m * k <= s /\ s < m * k + m
  OBVIOUS
<1> HIDE DEF k
<1>2. m * k \in Int
  BY <1>1
<1>3. r \in 0..(m - 1) /\ s = m * k + r
  BY <1>1, <1>2
<1> HIDE DEF r
<1>4. s % m = r
  BY <1>1, <1>3, Remainder
<1> DEFINE e == s % m
<1>5. e = r
  BY <1>4
<1> HIDE DEF e
<1>6. \E i \in Int : e \in 0..(m - 1) /\ s = m * i + e
  BY <1>1, <1>3, <1>5
<1> QED BY <1>6, Zenon DEF e

LEMMA RemainderNext ==
  ASSUME NEW x \in Int, NEW m \in Int, m > 0
  PROVE  ((x % m) + 1) % m = (x + 1) % m
<1> DEFINE r == x % m
<1>1. PICK q \in Int : r \in 0..(m - 1) /\ x = m * q + r
  BY Quotient
<1> HIDE DEF r
<1>2. CASE r + 1 < m
  <2>1. r + 1 \in 0..(m - 1) /\ x + 1 = m * q + (r + 1) /\ x + 1 \in Int
    <3>1. m * q \in Int
      BY <1>1
    <3> HIDE <1>1
    <3> QED BY <1>1, <1>2, <3>1
  <2>2. (x + 1) % m = r + 1
    BY <1>1, <2>1, Remainder
  <2>3. (r + 1) % m = r + 1
    BY <1>1, <2>1
  <2> QED BY <2>2, <2>3 DEF r
<1>3. CASE r + 1 = m
  <2>1. x + 1 = m * (q + 1) + 0 /\ 0 \in 0..(m - 1) /\ x + 1 \in Int /\ q + 1 \in Int
    BY <1>1, <1>3
  <2>2. (x + 1) % m = 0
    BY <2>1, Remainder
  <2>3. m = m * 1 + 0 /\ 1 \in Int
    OBVIOUS
  <2>4. m % m = 0
    BY <2>1, <2>3, Remainder
  <2> QED BY <1>3, <2>2, <2>4 DEF r
<1> QED BY <1>1, <1>2, <1>3

----------------------------------------------------------------------------
(* KeepInv is kept.                                                         *)

(* A published chunk is older than the next one to be started.              *)
LEMMA PublishedOld ==
  ASSUME RingInv, NEW slot \in Slots, chunks[slot].magic
  PROVE  /\ Live(slot) /\ current_chunk \in Slots
         /\ chunks[slot].sequence = next_sequence - 1 - Age(slot)
         /\ chunks[slot].sequence \in Nat /\ next_sequence \in Nat
         /\ Age(slot) \in 0..(ChunkCount - 1)
         /\ chunks[slot].sequence <= next_sequence - 1
<1>1. TypeOK /\ RingKeepsNewest
  BY DEF RingInv
<1>2. Live(slot)
  <2> SUFFICES ASSUME ~Live(slot) PROVE FALSE
    OBVIOUS
  <2>1. chunks[slot] = EmptyChunk
    BY <1>1 DEF RingKeepsNewest
  <2> QED BY <2>1 DEF EmptyChunk
<1>3. current_chunk \in Slots
  BY <1>1, <1>2 DEF Live, TypeOK
<1>4. chunks[slot].sequence = next_sequence - 1 - Age(slot)
  BY <1>1, <1>2 DEF RingKeepsNewest
<1>5. chunks[slot].sequence \in Nat /\ next_sequence \in Nat
  BY <1>1 DEF TypeOK, Chunk
<1>6. Age(slot) \in 0..(ChunkCount - 1)
  BY <1>3, AgeFacts
<1>7. chunks[slot].sequence <= next_sequence - 1
  <2> DEFINE q == chunks[slot].sequence
             a == Age(slot)
  <2>1. q = next_sequence - 1 - a /\ q \in Nat /\ a \in Nat
    BY <1>4, <1>5, <1>6, WriterAssumption
  <2> HIDE DEF q, a
  <2>2. q <= next_sequence - 1
    BY <1>5, <2>1
  <2> QED BY <2>2 DEF q
<1> QED BY <1>2, <1>3, <1>4, <1>5, <1>6, <1>7

LEMMA CurrentNewest ==
  ASSUME RingInv, current_chunk # NoChunk
  PROVE  /\ current_chunk \in Slots /\ chunks[current_chunk].magic
         /\ chunks[current_chunk].sequence = next_sequence - 1
<1>1. TypeOK /\ RingKeepsNewest /\ FirstChunkFirst
  BY DEF RingInv
<1>2. current_chunk \in Slots
  BY <1>1 DEF TypeOK
<1>3. Age(current_chunk) = 0
  BY <1>2, AgeFacts
<1>4. valid_chunks > 0
  <2>1. next_sequence # 0 /\ next_sequence \in Nat
    BY <1>1 DEF FirstChunkFirst, TypeOK
  <2> QED BY <1>1, <2>1, WriterAssumption DEF RingKeepsNewest
<1>5. Live(current_chunk)
  BY <1>3, <1>4 DEF Live
<1>6. chunks[current_chunk].magic /\ chunks[current_chunk].sequence = next_sequence - 1 - 0
  BY <1>1, <1>2, <1>3, <1>5 DEF RingKeepsNewest
<1>7. next_sequence \in Nat
  BY <1>1 DEF TypeOK
<1> QED BY <1>2, <1>6, <1>7

LEMMA CommitKeepts ==
  ASSUME KeepInv, NEW slot \in Slots, NEW old \in Chunk, NEW new \in Chunk,
         NEW item \in WireRecord, NEW entry \in Entry,
         Commits(slot, old, new, item, entry)
  PROVE  Kepts' /\ InContext'
<1>0. chunks \in [Slots -> Chunk] /\ log \in Seq(Entry) /\ NoChunk \notin Slots
  BY WriterAssumption DEF KeepInv, RingInv, TypeOK, Entry, NoChunk, Slots
<1>1. /\ chunks' = [chunks EXCEPT ![slot] = new] /\ current_chunk' = slot
      /\ log' = Append(log, entry) /\ Extends(old, new, item)
      /\ Holds(old, log) /\ old.before.items + Len(old.items) = Len(log)
      /\ entry.generation = old.generation /\ current_generation' = old.generation
      /\ Reader!DecodeItem(old.generation, Reader!DecodeChunk(old), item) =
           Context(current_timestamp', current_track', model',
                   Append(Part(log, old.before.items, Len(old.items)), Observable(entry)))
  BY DEF Commits
<1>2. chunks'[slot] = new /\ \A s \in Slots : s # slot => chunks'[s] = chunks[s]
  BY <1>0, <1>1
<1>3. /\ Kept(new, log')
      /\ Reader!DecodeChunk(new) =
           Context(current_timestamp', current_track', model',
                   Part(log', new.before.items, Len(new.items)))
  <2>1. /\ Kept(new, Append(log, entry))
        /\ Reader!DecodeChunk(new) =
             Context(current_timestamp', current_track', model',
                     Part(Append(log, entry), new.before.items, Len(new.items)))
    <3>1. log \in Seq(Entry)
      BY <1>0
    <3>2. Extends(old, new, item)
      BY <1>1
    <3>3. Holds(old, log)
      BY <1>1
    <3>4. old.before.items + Len(old.items) = Len(log)
      BY <1>1
    <3>5. entry.generation = old.generation
      BY <1>1
    <3>6. Reader!DecodeItem(old.generation, Reader!DecodeChunk(old), item) =
            Context(current_timestamp', current_track', model',
                    Append(Part(log, old.before.items, Len(old.items)), Observable(entry)))
      BY <1>1
    <3>7. ASSUME NEW t, NEW k, NEW m,
                 Reader!DecodeItem(old.generation, Reader!DecodeChunk(old), item) =
                   Context(t, k, m,
                     Append(Part(log, old.before.items, Len(old.items)), Observable(entry)))
          PROVE  /\ Kept(new, Append(log, entry))
                 /\ Reader!DecodeChunk(new) =
                      Context(t, k, m,
                        Part(Append(log, entry), new.before.items, Len(new.items)))
      BY <3>1, <3>2, <3>3, <3>4, <3>5, <3>7, HoldsGrows
    <3> QED BY <3>6, <3>7
  <2> QED BY <1>1, <2>1
<1>4. Prolongs(log, log')
  BY <1>0, <1>1, LogAppend
<1>5. ASSUME NEW s \in Slots, chunks'[s].magic PROVE Kept(chunks'[s], log')
  <2>1. CASE s = slot
    BY <1>2, <1>3, <2>1
  <2>2. CASE s # slot
    <3> DEFINE c == chunks[s]
    <3>1. c \in Chunk /\ c.magic /\ chunks'[s] = c
      BY <1>0, <1>2, <1>5, <2>2
    <3>2. Kept(c, log)
      BY <3>1 DEF KeepInv, Kepts
    <3> HIDE DEF c
    <3>3. Holds(c, log')
      BY <1>4, <3>1, <3>2, HoldsPersists DEF Kept
    <3> QED BY <3>1, <3>2, <3>3 DEF Kept
  <2> QED BY <2>1, <2>2
<1>6. Kepts'
  BY <1>5 DEF Kepts
<1>7. new.generation = current_generation'
  BY <1>1 DEF Extends
<1>8. InContext'
  BY <1>1, <1>2, <1>3, <1>7 DEF InContext
<1> QED BY <1>6, <1>8

LEMMA CommitCounts ==
  ASSUME KeepInv, NEW slot \in Slots, NEW old \in Chunk, NEW new \in Chunk,
         NEW item \in WireRecord, NEW entry \in Entry,
         Commits(slot, old, new, item, entry)
  PROVE  Counted' /\ GapsClear'
<1>0. log \in Seq(Entry) /\ Counted /\ GapsClear
  BY DEF KeepInv, RingInv, TypeOK, Entry
<1>1. /\ log' = Append(log, entry)
      /\ total_records' = total_records + (IF entry.kind = "data" THEN 1 ELSE 0)
      /\ total_events' = total_events +
                          (IF entry.kind = "data" THEN Expanded(entry.event) ELSE 0)
      /\ (log # <<>> /\ entry.generation = log[Len(log)].generation) =>
           Delta(Stamp(entry), Stamp(log[Len(log)])) < HalfRange
  BY DEF Commits
<1>2. /\ RecordsUpTo(log', Len(log')) =
           RecordsUpTo(log, Len(log)) + (IF entry.kind = "data" THEN 1 ELSE 0)
      /\ EventsUpTo(log', Len(log')) =
           EventsUpTo(log, Len(log)) + (IF entry.kind = "data" THEN Expanded(entry.event) ELSE 0)
  BY <1>0, <1>1, CountGrows
<1>3. Counted'
  BY <1>0, <1>1, <1>2 DEF Counted
<1>4. /\ Len(log) \in Nat /\ Len(log') = Len(log) + 1
      /\ \A i \in 1..Len(log) : log'[i] = log[i]
      /\ log'[Len(log) + 1] = entry
  BY <1>0, <1>1, LogAppend
<1>5. ASSUME NEW i \in 2..Len(log'), log'[i].generation = log'[i - 1].generation
      PROVE  Delta(Stamp(log'[i]), Stamp(log'[i - 1])) < HalfRange
  <2>1. CASE i <= Len(log)
    <3>1. i \in 1..Len(log) /\ i - 1 \in 1..Len(log) /\ i \in 2..Len(log)
      BY <1>4, <2>1
    <3>2. log'[i] = log[i] /\ log'[i - 1] = log[i - 1]
      BY <1>4, <3>1
    <3> QED BY <1>0, <1>5, <3>1, <3>2 DEF GapsClear
  <2>2. CASE i = Len(log) + 1
    <3>1. i - 1 = Len(log) /\ Len(log) \in 1..Len(log)
      BY <1>4, <2>2
    <3>2. log'[i] = entry /\ log'[i - 1] = log[Len(log)] /\ log # <<>>
      BY <1>4, <2>2, <3>1
    <3> QED BY <1>1, <1>5, <3>2
  <2> QED BY <1>4, <2>1, <2>2
<1>6. GapsClear'
  <2>1. \A a, b : Delta(Stamp(a), Stamp(b))' = Delta(Stamp(a), Stamp(b))
    OBVIOUS
  <2> QED BY <1>5 DEF GapsClear
<1> QED BY <1>3, <1>6

LEMMA CommitGenerations ==
  ASSUME KeepInv, NEW slot \in Slots, NEW old \in Chunk, NEW new \in Chunk,
         NEW item \in WireRecord, NEW entry \in Entry,
         Commits(slot, old, new, item, entry)
  PROVE  GenerationsClose'
<1>0. /\ chunks \in [Slots -> Chunk] /\ RingInv /\ GenerationsClose /\ next_sequence \in Nat
      /\ GenerationRange \in Int /\ GenerationRange > 0
      /\ \A g \in Generations : g \in Int /\ g % GenerationRange = g
  <2>1. /\ chunks \in [Slots -> Chunk] /\ RingInv /\ GenerationsClose
        /\ next_sequence \in Nat
    BY DEF KeepInv, RingInv, TypeOK
  <2>2. GenerationRange \in Int /\ GenerationRange > 0
    BY WriterAssumption
  <2>3. \A g \in Generations : g \in Int /\ g % GenerationRange = g
    BY <2>2 DEF Generations
  <2> QED BY <2>1, <2>2, <2>3
<1>1. /\ chunks' = [chunks EXCEPT ![slot] = new] /\ Extends(old, new, item)
      /\ old.magic = TRUE
      /\ \/ current_chunk = slot /\ old = chunks[slot]
         \/ /\ old.sequence = next_sequence
            /\ current_chunk # NoChunk =>
                 old.generation \in
                   {current_generation, (current_generation + 1) % GenerationRange}
  BY DEF Commits
<1>2. chunks'[slot] = new /\ \A s \in Slots : s # slot => chunks'[s] = chunks[s]
  BY <1>0, <1>1
<1>3. new.generation = old.generation /\ new.sequence = old.sequence /\ new.magic = TRUE
  BY <1>1 DEF Extends
<1> SUFFICES ASSUME NEW a \in Slots, NEW b \in Slots,
                    chunks'[a].magic, chunks'[b].magic,
                    chunks'[a].sequence <= chunks'[b].sequence
             PROVE  \E d \in 0..(chunks'[b].sequence - chunks'[a].sequence) :
                      chunks'[b].generation = (chunks'[a].generation + d) % GenerationRange
  BY DEF GenerationsClose
<1>4. CASE current_chunk = slot /\ old = chunks[slot]
  <2>1. /\ chunks[a].magic /\ chunks[b].magic
        /\ chunks'[a].sequence = chunks[a].sequence
        /\ chunks'[b].sequence = chunks[b].sequence
        /\ chunks'[a].generation = chunks[a].generation
        /\ chunks'[b].generation = chunks[b].generation
    BY <1>1, <1>2, <1>3, <1>4
  <2> QED BY <1>0, <2>1 DEF GenerationsClose
<1>5. CASE /\ old.sequence = next_sequence
           /\ current_chunk # NoChunk =>
                 old.generation \in
                   {current_generation, (current_generation + 1) % GenerationRange}
  <2>1. CASE a = slot
    <3>1. b = slot
      <4> SUFFICES ASSUME b # slot PROVE FALSE
        OBVIOUS
      <4>1. chunks[b].magic /\ chunks'[b].sequence = chunks[b].sequence
        BY <1>2
      <4>2. chunks[b].sequence \in Nat /\ chunks[b].sequence <= next_sequence - 1
        BY <1>0, <4>1, PublishedOld
      <4>3. next_sequence <= chunks[b].sequence
        BY <1>2, <1>3, <1>5, <2>1, <4>1
      <4> QED BY <1>0, <4>2, <4>3
    <3>2. chunks'[a].generation \in Generations /\ chunks'[a].sequence \in Nat
      BY <1>2, <2>1 DEF Chunk
    <3> DEFINE g == chunks'[a].generation
               q == chunks'[a].sequence
    <3>3. g \in Int /\ g % GenerationRange = g /\ q \in Nat
      BY <1>0, <3>2
    <3> HIDE DEF g, q
    <3>4. g = (g + 0) % GenerationRange /\ 0 \in 0..(q - q)
      BY <3>3
    <3> QED BY <2>1, <3>1, <3>4 DEF g, q
  <2>2. CASE a # slot /\ b # slot
    <3>1. chunks'[a] = chunks[a] /\ chunks'[b] = chunks[b]
      BY <1>2, <2>2
    <3> QED BY <1>0, <3>1 DEF GenerationsClose
  <2>3. CASE a # slot /\ b = slot
    <3>1. chunks'[a] = chunks[a] /\ chunks[a].magic
      BY <1>2, <2>3
    <3> DEFINE cur == chunks[current_chunk]
    <3>2. /\ current_chunk \in Slots /\ current_chunk # NoChunk
          /\ chunks[a].sequence <= next_sequence - 1 /\ chunks[a].sequence \in Nat
      BY <1>0, <3>1, PublishedOld DEF Live
    <3>3. cur.magic /\ cur.sequence = next_sequence - 1
      BY <1>0, <3>2, CurrentNewest
    <3>4. cur.generation = current_generation /\ cur.generation \in Generations
      BY <1>0, <3>2 DEF KeepInv, InContext, Chunk
    <3>5. PICK d \in 0..(next_sequence - 1 - chunks[a].sequence) :
            cur.generation = (chunks[a].generation + d) % GenerationRange
      BY <1>0, <3>1, <3>2, <3>3 DEF GenerationsClose
    <3> DEFINE g == chunks[a].generation
               q == chunks[a].sequence
    <3>6. g \in Int /\ q \in Nat /\ q <= next_sequence - 1
      BY <1>0, <3>2 DEF Chunk
    <3>7. chunks'[a].generation = g /\ chunks'[a].sequence = q
      BY <3>1
    <3>8. chunks'[b].generation = old.generation /\ chunks'[b].sequence = next_sequence
      BY <1>2, <1>3, <1>5, <2>3
    <3>9. current_generation = (g + d) % GenerationRange /\ d \in 0..(next_sequence - 1 - q)
      BY <3>4, <3>5
    <3> HIDE DEF g, q, cur
    <3>10. d \in 0..(next_sequence - q) /\ d + 1 \in 0..(next_sequence - q) /\ g + d \in Int
      BY <1>0, <3>6, <3>9
    <3>11. (current_generation + 1) % GenerationRange = (g + (d + 1)) % GenerationRange
      <4>1. g + d \in Int /\ g + (d + 1) = (g + d) + 1
        BY <3>6, <3>10
      <4> QED BY <1>0, <3>9, <4>1, RemainderNext
    <3>12. old.generation \in {current_generation, (current_generation + 1) % GenerationRange}
      BY <1>5, <3>2
    <3>13. CASE old.generation = current_generation
      BY <3>7, <3>8, <3>9, <3>10, <3>13
    <3>14. CASE old.generation = (current_generation + 1) % GenerationRange
      BY <3>7, <3>8, <3>10, <3>11, <3>14
    <3> QED BY <3>12, <3>13, <3>14
  <2> QED BY <2>1, <2>2, <2>3
<1> QED BY <1>1, <1>4, <1>5

LEMMA KeepInit == Init /\ RingInv /\ ClockInv => KeepInv
<1> SUFFICES ASSUME Init, RingInv, ClockInv PROVE KeepInv
  OBVIOUS
<1>1. /\ log = <<>> /\ Len(log) = 0 /\ current_chunk = NoChunk
      /\ \A s \in Slots : chunks[s].magic = FALSE
      /\ total_records = 0 /\ total_events = 0
  BY DEF Init, EmptyChunk
<1>2. Kepts /\ InContext /\ GenerationsClose
  BY <1>1 DEF Kepts, InContext, GenerationsClose
<1>3. GapsClear
  BY <1>1 DEF GapsClear
<1>4. Counted
  <2>1. DataUpTo(log, 0) = {} /\ SlicesUpTo(log, 0) = {}
    BY DEF DataUpTo, SlicesUpTo
  <2>2. Cardinality({}) = 0
    BY FS_EmptySet
  <2>3. RecordsUpTo(log, 0) = 0
    BY <2>1, <2>2 DEF RecordsUpTo
  <2>4. EventsUpTo(log, 0) = 0 + 0
    BY <2>1, <2>2, <2>3 DEF EventsUpTo
  <2> QED BY <1>1, <2>3, <2>4 DEF Counted
<1> QED BY <1>2, <1>3, <1>4 DEF KeepInv

LEMMA StillKeeps ==
  ASSUME KeepInv, Still
  PROVE  Kepts' /\ InContext' /\ Counted' /\ GenerationsClose' /\ GapsClear'
<1>1. /\ chunks' = chunks /\ log' = log /\ current_chunk' = current_chunk
      /\ total_records' = total_records /\ total_events' = total_events
      /\ current_generation' = current_generation /\ current_track' = current_track
      /\ current_timestamp' = current_timestamp /\ model' = model
  BY DEF Still, totals, context
<1>2. Kepts /\ InContext /\ Counted /\ GenerationsClose /\ GapsClear
  BY DEF KeepInv
<1>3. Kepts' /\ Counted' /\ GenerationsClose' /\ GapsClear'
  BY <1>1, <1>2 DEF Kepts, Counted, GenerationsClose, GapsClear
<1>4. InContext'
  BY <1>1, <1>2 DEF InContext
<1> QED BY <1>3, <1>4

(* Whatever has been recorded, each published chunk decodes to the stretch  *)
(* of the log it was given, and the encoder's context is the decoder's.     *)
THEOREM KeepInvariant == Spec => []KeepInv
<1>1. Init /\ RingInv /\ ClockInv => KeepInv
  BY KeepInit
<1>2. KeepInv /\ RingInv' /\ ClockInv' /\ [Next]_vars => KeepInv'
  <2> SUFFICES ASSUME KeepInv, RingInv', ClockInv', [Next]_vars PROVE KeepInv'
    OBVIOUS
  <2>1. CASE Still
    BY <2>1, StillKeeps DEF KeepInv
  <2>2. ASSUME NEW slot \in Slots, NEW old \in Chunk, NEW new \in Chunk,
               NEW item \in WireRecord, NEW entry \in Entry,
               Commits(slot, old, new, item, entry)
        PROVE  KeepInv'
    BY <2>2, CommitKeepts, CommitCounts, CommitGenerations DEF KeepInv
  <2> QED BY <2>1, <2>2, CommitSteps
<1> QED BY <1>1, <1>2, RingInvariant, ClockInvariant, PTL DEF Spec

----------------------------------------------------------------------------
(* More of what the state knows about the log: an anchor since the last     *)
(* transition, and before it.                                               *)

SyncKnown ==
  has_sync => \E j \in 1..Len(log) :
                /\ log[j].kind = "sync"
                /\ \A k \in j..Len(log) : log[k].generation = current_generation

SyncsReach ==
  \A i \in 2..Len(log) :
    log[i].kind = "sync" /\ log[i - 1].kind = "data" =>
      \E j \in 1..(i - 1) :
        /\ log[j].kind = "sync"
        /\ \A k \in j..(i - 1) : log[k].generation = log[i - 1].generation

(* On its first lap the ring fills its slots in order.                      *)
FirstLap == next_sequence \in 1..ChunkCount => current_chunk = next_sequence - 1

LEMMA SyncGrows ==
  ASSUME ClockInv, SyncKnown, SyncsReach, NEW entry \in Entry,
         log' = Append(log, entry),
         entry.kind = "sync" =>
           /\ has_record => has_sync
           /\ has_sync' /\ entry.generation = current_generation',
         entry.kind # "sync" =>
           /\ has_sync' = has_sync /\ current_generation' = current_generation
           /\ entry.generation = current_generation
  PROVE  SyncKnown' /\ SyncsReach'
<1> DEFINE n == Len(log)
<1>0. TypeOK /\ LogKnown
  BY DEF ClockInv
<1>1. /\ n \in Nat /\ Len(log') = n + 1
      /\ \A i \in 1..n : log'[i] = log[i]
      /\ log'[n + 1] = entry
  BY <1>0, LogAppend DEF TypeOK, Entry
<1>2. n # 0 => /\ log[n].generation = current_generation
               /\ log[n].kind = "data" => has_record
  BY <1>0, <1>1 DEF LogKnown
<1> HIDE DEF n
<1>3. SyncKnown'
  <2>1. CASE entry.kind = "sync"
    <3>1. /\ n + 1 \in 1..Len(log') /\ log'[n + 1].kind = "sync"
          /\ \A k \in (n + 1)..Len(log') : log'[k].generation = current_generation'
      BY <1>1, <2>1
    <3> QED BY <3>1 DEF SyncKnown
  <2>2. CASE entry.kind # "sync"
    <3> SUFFICES ASSUME has_sync
                 PROVE  \E j \in 1..Len(log') :
                          /\ log'[j].kind = "sync"
                          /\ \A k \in j..Len(log') :
                               log'[k].generation = current_generation'
      BY <2>2 DEF SyncKnown
    <3>1. PICK j \in 1..n : /\ log[j].kind = "sync"
                            /\ \A k \in j..n : log[k].generation = current_generation
      BY DEF SyncKnown, n
    <3>2. log'[j].kind = "sync" /\ j \in 1..Len(log')
      BY <1>1, <3>1
    <3>3. ASSUME NEW k \in j..Len(log')
          PROVE  log'[k].generation = current_generation'
      <4>1. CASE k = n + 1
        BY <1>1, <2>2, <4>1
      <4>2. CASE k # n + 1
        <5>1. k \in j..n /\ k \in 1..n
          BY <1>1, <3>1, <4>2
        <5> QED BY <1>1, <2>2, <3>1, <5>1
      <4> QED BY <4>1, <4>2
    <3> QED BY <3>2, <3>3
  <2> QED BY <2>1, <2>2
<1>4. SyncsReach'
  <2> SUFFICES ASSUME NEW i \in 2..Len(log'), log'[i].kind = "sync",
                      log'[i - 1].kind = "data"
               PROVE  \E j \in 1..(i - 1) :
                        /\ log'[j].kind = "sync"
                        /\ \A k \in j..(i - 1) :
                             log'[k].generation = log'[i - 1].generation
    BY DEF SyncsReach
  <2>1. CASE i <= n
    <3>1. i \in 2..n /\ i \in 1..n /\ i - 1 \in 1..n
      BY <1>1, <2>1
    <3>2. log[i].kind = "sync" /\ log[i - 1].kind = "data" /\ log'[i - 1] = log[i - 1]
      BY <1>1, <3>1
    <3>3. PICK j \in 1..(i - 1) :
                 /\ log[j].kind = "sync"
                 /\ \A k \in j..(i - 1) : log[k].generation = log[i - 1].generation
      BY <3>1, <3>2 DEF SyncsReach, n
    <3>4. \A k \in j..(i - 1) : k \in 1..n
      BY <1>1, <3>1
    <3>5. j \in j..(i - 1)
      OBVIOUS
    <3>6. log'[j].kind = "sync"
      BY <1>1, <3>3, <3>4, <3>5
    <3>7. \A k \in j..(i - 1) : log'[k].generation = log'[i - 1].generation
      BY <1>1, <3>2, <3>3, <3>4
    <3> QED BY <3>6, <3>7
  <2>2. CASE i = n + 1
    <3>1. i - 1 = n /\ n \in 1..n /\ n # 0
      BY <1>1, <2>2
    <3>2. /\ entry.kind = "sync" /\ log'[i - 1] = log[n] /\ log[n].kind = "data"
          /\ log[n].generation = current_generation
      BY <1>1, <1>2, <2>2, <3>1
    <3>3. has_sync
      BY <1>2, <3>1, <3>2
    <3>4. PICK j \in 1..n : /\ log[j].kind = "sync"
                            /\ \A k \in j..n : log[k].generation = current_generation
      BY <3>3 DEF SyncKnown, n
    <3>5. log'[j].kind = "sync"
      BY <1>1, <3>4
    <3>6. \A k \in j..(i - 1) : k \in j..n /\ k \in 1..n
      BY <1>1, <3>1
    <3>7. \A k \in j..(i - 1) : log'[k].generation = log'[i - 1].generation
      BY <1>1, <3>2, <3>4, <3>6
    <3>8. j \in 1..(i - 1)
      BY <3>1
    <3> QED BY <3>5, <3>7, <3>8
  <2>3. i <= n \/ i = n + 1
    BY <1>1
  <2> QED BY <2>1, <2>2, <2>3
<1> QED BY <1>3, <1>4

LEMMA SyncInvariant == Spec => [](SyncKnown /\ SyncsReach)
<1>1. Init => SyncKnown /\ SyncsReach
  BY DEF Init, SyncKnown, SyncsReach
<1>2. ClockInv /\ SyncKnown /\ SyncsReach /\ [Next]_vars => SyncKnown' /\ SyncsReach'
  <2> SUFFICES ASSUME ClockInv, SyncKnown, SyncsReach, [Next]_vars
               PROVE  SyncKnown' /\ SyncsReach'
    OBVIOUS
  <2>1. \/ Silent
        \/ \E entry \in DataEntry : Recorded(entry)
        \/ \E item \in SyncRecord : Synchronised(item)
    BY ClockSteps DEF ClockInv
  <2>2. CASE Silent
    <3>1. log' = log /\ has_sync' = has_sync /\ current_generation' = current_generation
      BY <2>2 DEF Silent, context, flags
    <3> QED BY <3>1 DEF SyncKnown, SyncsReach
  <2>3. ASSUME NEW entry \in DataEntry, Recorded(entry)
        PROVE  SyncKnown' /\ SyncsReach'
    <3>1. /\ entry \in Entry /\ entry.kind = "data" /\ log' = Append(log, entry)
          /\ entry.generation = current_generation
          /\ current_generation' = current_generation /\ has_sync' = has_sync
      BY <2>3 DEF Recorded, Entry
    <3> QED BY <3>1, SyncGrows
  <2>4. ASSUME NEW item \in SyncRecord, Synchronised(item)
        PROVE  SyncKnown' /\ SyncsReach'
    <3>1. /\ item \in Entry /\ item.kind = "sync" /\ log' = Append(log, item)
          /\ item.generation = current_generation'
          /\ has_sync' /\ (has_record => has_sync)
      BY <2>4 DEF Synchronised, Entry
    <3> QED BY <3>1, SyncGrows
  <2> QED BY <2>1, <2>2, <2>3, <2>4
<1> QED BY <1>1, <1>2, ClockInvariant, PTL DEF Spec

LEMMA FirstLapInvariant == Spec => []FirstLap
<1>1. Init => FirstLap
  BY DEF Init, FirstLap
<1>2. RingInv /\ FirstLap /\ [Next]_vars => FirstLap'
  <2> SUFFICES ASSUME RingInv, FirstLap, [Next]_vars PROVE FirstLap'
    OBVIOUS
  <2>0. TypeOK /\ FirstChunkFirst /\ next_sequence \in Nat
        /\ ChunkCount \in Nat \ {0}
    BY WriterAssumption DEF RingInv, TypeOK
  <2>1. Quiet \/ \E r \in 0..1, e \in 0..2 : Recording(r, e)
    BY <2>0, RecordingSteps
  <2>2. CASE Quiet
    BY <2>2 DEF Quiet, FirstLap
  <2>3. ASSUME NEW r \in 0..1, NEW e \in 0..2, Recording(r, e) PROVE FirstLap'
    <3>1. CASE StartChunk
      <4>1. current_chunk' = NextSlot /\ next_sequence' = next_sequence + 1
        BY <3>1 DEF StartChunk
      <4>2. CASE current_chunk = NoChunk
        <5>1. next_sequence = 0 /\ NextSlot = 0
          BY <2>0, <4>2 DEF FirstChunkFirst, NextSlot
        <5> QED BY <4>1, <5>1 DEF FirstLap
      <4>3. CASE current_chunk # NoChunk
        <5>1. next_sequence # 0
          BY <2>0, <4>3 DEF FirstChunkFirst
        <5> SUFFICES ASSUME next_sequence + 1 \in 1..ChunkCount
                     PROVE  NextSlot = next_sequence
          BY <2>0, <4>1 DEF FirstLap
        <5>2. next_sequence \in 1..ChunkCount /\ next_sequence < ChunkCount
          BY <2>0, <5>1
        <5>3. current_chunk = next_sequence - 1
          BY <5>2 DEF FirstLap
        <5> QED BY <2>0, <4>3, <5>2, <5>3 DEF NextSlot
      <4> QED BY <4>2, <4>3
    <3>2. CASE UNCHANGED ring
      BY <3>2 DEF ring, FirstLap
    <3> QED BY <2>3, <3>1, <3>2 DEF Recording, InFreshChunk, InCurrentChunk
  <2> QED BY <2>1, <2>2, <2>3
<1> QED BY <1>1, <1>2, RingInvariant, PTL DEF Spec

----------------------------------------------------------------------------
(* Within what the ring holds a generation is left for good.                *)

(* Everything after position first is in a published chunk.                 *)
Starts(first) ==
  /\ first \in 0..Len(log)
  /\ first < Len(log) =>
       \E s \in Slots : chunks[s].magic /\ chunks[s].before.items <= first

(* The chunk that holds position p is the newest that starts before it.     *)
Home(s, p) ==
  /\ chunks[s].magic /\ chunks[s].before.items < p
  /\ log[p].generation = chunks[s].generation
  /\ \A t \in Slots : chunks[t].magic /\ chunks[t].before.items < p =>
                        chunks[t].sequence <= chunks[s].sequence

LEMMA HomeExists ==
  ASSUME KeepInv, NEW p \in 1..Len(log), NEW s0 \in Slots,
         chunks[s0].magic, chunks[s0].before.items < p
  PROVE  \E s \in Slots : Home(s, p)
<1> DEFINE T == {t \in Slots : chunks[t].magic /\ chunks[t].before.items < p}
           A == {Age(t) : t \in T}
<1>0. RingInv /\ TypeOK /\ RingKeepsNewest /\ Ledger /\ Kepts
  BY DEF KeepInv, RingInv
<1>1. /\ current_chunk \in Slots /\ chunks \in [Slots -> Chunk] /\ Len(log) \in Nat
      /\ next_sequence \in Nat
  BY <1>0, PublishedOld, LenProperties DEF TypeOK
<1>2. \A t \in Slots : Age(t) \in Nat
  BY <1>1, AgeFacts, WriterAssumption
<1>3. A \in SUBSET Nat /\ A # {}
  <2>1. s0 \in T
    OBVIOUS
  <2> QED BY <1>2, <2>1
<1>4. PICK m \in A : \A k \in A : m <= k
  <2> HIDE DEF A
  <2> QED BY <1>3, Least
<1>5. PICK s \in T : m = Age(s)
  BY <1>4
<1>6. s \in Slots /\ chunks[s].magic /\ chunks[s].before.items < p
  BY <1>5
<1>7. ASSUME NEW t \in Slots, chunks[t].magic, chunks[t].before.items < p
      PROVE  Age(s) <= Age(t)
  <2>1. Age(t) \in A
    BY <1>7
  <2> QED BY <1>4, <1>5, <2>1
<1> HIDE DEF T, A
<1>8. ASSUME NEW t \in Slots, chunks[t].magic, chunks[t].before.items < p
      PROVE  chunks[t].sequence <= chunks[s].sequence
  <2> DEFINE a == Age(s)
             b == Age(t)
  <2>1. a \in Nat /\ b \in Nat /\ a <= b
    BY <1>2, <1>6, <1>7, <1>8
  <2>2. /\ chunks[t].sequence = next_sequence - 1 - b
        /\ chunks[s].sequence = next_sequence - 1 - a
    BY <1>0, <1>6, <1>8, PublishedOld
  <2> HIDE DEF a, b
  <2> QED BY <1>1, <2>1, <2>2
<1> DEFINE c == chunks[s]
           b == chunks[s].before.items
           e == Len(chunks[s].items)
<1>9. /\ b \in Nat /\ e \in Nat /\ Holds(c, log) /\ Live(s)
      /\ \A i \in 1..e : log[b + i].generation = c.generation
  <2>1. c \in Chunk
    BY <1>1, <1>6
  <2>2. Kept(c, log)
    BY <1>0, <1>6 DEF Kepts
  <2>3. Live(s)
    BY <1>0, <1>6, PublishedOld
  <2>4. b \in Nat /\ e \in Nat
    BY <2>1, ChunkFields
  <2> QED BY <2>2, <2>3, <2>4 DEF Kept, Holds
<1>10. p <= b + e
  <2>1. CASE s = current_chunk
    <3>1. EndOf(chunks[s]) = Here
      BY <1>0, <1>6, <1>9, <2>1 DEF Ledger
    <3>2. b + e = Len(log)
      BY <3>1 DEF EndOf, Here
    <3> HIDE DEF b, e
    <3> QED BY <1>1, <3>2
  <2>2. CASE s # current_chunk
    <3> DEFINE u == Successor(s)
    <3>1. u \in Slots /\ Age(u) = Age(s) - 1 /\ Age(s) \in Nat /\ Age(u) \in Nat
      BY <1>1, <1>2, <1>6, <2>2, AgeFacts
    <3>2. Live(u)
      <4>1. Age(s) < valid_chunks /\ valid_chunks \in Nat
        BY <1>0, <1>9, WriterAssumption DEF Live, TypeOK
      <4>2. current_chunk # NoChunk
        BY <1>9 DEF Live
      <4> HIDE DEF u
      <4> QED BY <3>1, <4>1, <4>2 DEF Live
    <3>3. chunks[u].magic
      BY <1>0, <3>1, <3>2 DEF RingKeepsNewest
    <3>4. EndOf(chunks[s]) = chunks[u].before
      BY <1>0, <1>6, <1>9, <2>2 DEF Ledger
    <3>5. chunks[u].before.items = b + e
      BY <3>4 DEF EndOf
    <3>6. ~(chunks[u].before.items < p)
      <4> HIDE DEF u
      <4> QED BY <1>7, <3>1, <3>3
    <3> HIDE DEF u, b, e
    <3> QED BY <1>1, <1>9, <3>5, <3>6
  <2> QED BY <2>1, <2>2
<1>11. log[p].generation = c.generation
  <2>1. b < p
    BY <1>6
  <2> HIDE DEF b, e, c
  <2>2. p - b \in 1..e /\ b + (p - b) = p
    BY <1>9, <1>10, <2>1
  <2> QED BY <1>9, <2>2
<1>12. Home(s, p)
  BY <1>6, <1>8, <1>11 DEF Home
<1> QED BY <1>6, <1>12

LEMMA Circle ==
  ASSUME NEW m \in Int, m > 0, NEW g \in 0..(m - 1), NEW d \in Nat, NEW e \in Nat,
         d + e < m, (((g + d) % m) + e) % m = g
  PROVE  d = 0
<1>1. CASE g + d < m
  <2>1. (g + d) % m = g + d
    <3>1. g + d \in 0..(m - 1) /\ g + d = m * 0 + (g + d) /\ g + d \in Int /\ 0 \in Int
      BY <1>1
    <3> QED BY <3>1, Remainder
  <2>2. CASE g + d + e < m
    <3>1. g + d + e \in 0..(m - 1) /\ g + d + e = m * 0 + (g + d + e) /\ g + d + e \in Int
          /\ 0 \in Int
      BY <2>2
    <3>2. (g + d + e) % m = g + d + e
      BY <3>1, Remainder
    <3> QED BY <2>1, <3>2
  <2>3. CASE g + d + e >= m
    <3>1. /\ g + d + e - m \in 0..(m - 1) /\ g + d + e = m * 1 + (g + d + e - m)
          /\ g + d + e \in Int /\ 1 \in Int
      BY <2>3
    <3>2. (g + d + e) % m = g + d + e - m
      BY <3>1, Remainder
    <3> QED BY <2>1, <3>2
  <2> QED BY <2>2, <2>3
<1>2. CASE g + d >= m
  <2>1. (g + d) % m = g + d - m
    <3>1. g + d - m \in 0..(m - 1) /\ g + d = m * 1 + (g + d - m) /\ g + d \in Int /\ 1 \in Int
      BY <1>2
    <3> QED BY <3>1, Remainder
  <2>2. /\ g + d - m + e \in 0..(m - 1) /\ g + d - m + e = m * 0 + (g + d - m + e)
        /\ g + d - m + e \in Int /\ 0 \in Int
    BY <1>2
  <2>3. (g + d - m + e) % m = g + d - m + e
    BY <2>2, Remainder
  <2> QED BY <2>1, <2>3
<1> QED BY <1>1, <1>2

LEMMA NoReturn ==
  ASSUME KeepInv, NEW first, Starts(first), NEW p \in (first + 1)..Len(log),
         NEW q \in p..Len(log), NEW r \in p..q, log[p].generation = log[q].generation
  PROVE  log[r].generation = log[p].generation
<1>0. /\ RingInv /\ GenerationsClose /\ chunks \in [Slots -> Chunk] /\ Len(log) \in Nat
      /\ next_sequence \in Nat
  BY LenProperties DEF KeepInv, RingInv, TypeOK
<1>1. first \in Nat /\ first < Len(log) /\ p \in 1..Len(log) /\ q \in 1..Len(log)
      /\ r \in 1..Len(log) /\ p <= r /\ r <= q
  BY <1>0 DEF Starts
<1>2. PICK s0 \in Slots : chunks[s0].magic /\ chunks[s0].before.items <= first
  BY <1>1 DEF Starts
<1>3. chunks[s0].before.items \in Nat
  BY <1>0, ChunkFields
<1>4. /\ chunks[s0].before.items < p /\ chunks[s0].before.items < q
      /\ chunks[s0].before.items < r
  <2> DEFINE z == chunks[s0].before.items
  <2>1. z \in Nat /\ z <= first
    BY <1>2, <1>3
  <2> HIDE DEF z
  <2>2. z < p /\ z < q /\ z < r
    BY <1>1, <2>1
  <2> QED BY <2>2 DEF z
<1>5. PICK a \in Slots : Home(a, p)
  BY <1>1, <1>2, <1>4, HomeExists
<1>6. PICK b \in Slots : Home(b, r)
  BY <1>1, <1>2, <1>4, HomeExists
<1>7. PICK c \in Slots : Home(c, q)
  BY <1>1, <1>2, <1>4, HomeExists
<1> DEFINE sa == chunks[a].sequence
           sb == chunks[b].sequence
           sc == chunks[c].sequence
           ga == chunks[a].generation
           gb == chunks[b].generation
           gc == chunks[c].generation
<1>8. /\ chunks[a].magic /\ chunks[b].magic /\ chunks[c].magic
      /\ chunks[a].before.items < p /\ chunks[b].before.items < r
      /\ chunks[a].before.items \in Nat /\ chunks[b].before.items \in Nat
      /\ ga \in Generations /\ gb \in Generations /\ gc \in Generations
  BY <1>0, <1>5, <1>6, <1>7, ChunkFields DEF Home
<1>9. sa <= sb
  <2>1. chunks[a].before.items < r
    <3> DEFINE z == chunks[a].before.items
    <3>1. z \in Nat /\ z < p
      BY <1>8
    <3> HIDE DEF z
    <3>2. z < r
      BY <1>1, <3>1
    <3> QED BY <3>2 DEF z
  <2> QED BY <1>6, <1>8, <2>1 DEF Home
<1>10. sb <= sc
  <2>1. chunks[b].before.items < q
    <3> DEFINE z == chunks[b].before.items
    <3>1. z \in Nat /\ z < r
      BY <1>8
    <3> HIDE DEF z
    <3>2. z < q
      BY <1>1, <3>1
    <3> QED BY <3>2 DEF z
  <2> QED BY <1>7, <1>8, <2>1 DEF Home
<1>11. sa \in Nat /\ sb \in Nat /\ sc \in Nat /\ sc - sa <= ChunkCount - 1
  <2>1. /\ sa = next_sequence - 1 - Age(a) /\ Age(a) \in 0..(ChunkCount - 1) /\ sa \in Nat
        /\ sb \in Nat /\ sc \in Nat /\ sc <= next_sequence - 1
    BY <1>0, <1>8, PublishedOld
  <2> DEFINE z == Age(a)
  <2> HIDE DEF z, sa, sb, sc
  <2>2. sa = next_sequence - 1 - z /\ z \in 0..(ChunkCount - 1)
    BY <2>1 DEF z
  <2>3. ChunkCount \in Nat /\ next_sequence \in Nat /\ sa \in Nat /\ sb \in Nat /\ sc \in Nat
        /\ sc <= next_sequence - 1
    BY <1>0, <2>1, WriterAssumption
  <2> QED BY <2>2, <2>3
<1>12. PICK d \in 0..(sb - sa) : gb = (ga + d) % GenerationRange
  BY <1>0, <1>8, <1>9 DEF GenerationsClose
<1>13. PICK e \in 0..(sc - sb) : gc = (gb + e) % GenerationRange
  BY <1>0, <1>8, <1>10 DEF GenerationsClose
<1>14. gc = ga /\ log[r].generation = gb /\ log[p].generation = ga
  BY <1>5, <1>6, <1>7 DEF Home
<1>15. /\ GenerationRange \in Int /\ GenerationRange > 0 /\ ChunkCount <= GenerationRange
       /\ ga \in 0..(GenerationRange - 1) /\ ChunkCount \in Nat
  BY <1>8, WriterAssumption, ReaderAssumption DEF Generations
<1> HIDE DEF sa, sb, sc, ga, gb, gc
<1>16. d \in Nat /\ e \in Nat /\ d + e < GenerationRange
  BY <1>9, <1>10, <1>11, <1>15
<1>17. (((ga + d) % GenerationRange) + e) % GenerationRange = ga
  BY <1>12, <1>13, <1>14
<1>18. d = 0
  BY <1>15, <1>16, <1>17, Circle
<1>19. gb = ga
  <2>1. ga + 0 = ga /\ ga % GenerationRange = ga
    BY <1>15
  <2> QED BY <1>12, <1>18, <2>1
<1> QED BY <1>14, <1>19

----------------------------------------------------------------------------
(* The strict clock checks pass on what the ring holds.                     *)

LEMMA Window ==
  ASSUME TypeOK, NEW first \in 0..Len(log), NEW w, w = LogFrom(first)
  PROVE  /\ Len(log) \in Nat /\ first \in Nat
         /\ DOMAIN w = 1..(Len(log) - first) /\ Len(w) = Len(log) - first
         /\ Len(log) - first \in Nat
         /\ \A i \in 1..(Len(log) - first) :
              /\ first + i \in (first + 1)..Len(log) /\ first + i \in 1..Len(log)
              /\ w[i].kind = log[first + i].kind
              /\ w[i].generation = log[first + i].generation
              /\ Reader!Raw(w[i]) = Stamp(log[first + i])
              /\ w[i].kind \in {"data", "sync"}
<1>1. log \in Seq(Entry) /\ Len(log) \in Nat /\ first \in Nat /\ Len(log) - first \in Nat
  BY LenProperties DEF TypeOK, Entry
<1> DEFINE n == Len(log) - first
<1>2. DOMAIN w = 1..n /\ Len(w) = n /\ \A i \in 1..n : w[i] = Observable(log[first + i])
  BY <1>1 DEF LogFrom
<1>3. ASSUME NEW i \in 1..n
      PROVE  /\ first + i \in (first + 1)..Len(log) /\ first + i \in 1..Len(log)
             /\ w[i].kind = log[first + i].kind
             /\ w[i].generation = log[first + i].generation
             /\ Reader!Raw(w[i]) = Stamp(log[first + i])
             /\ w[i].kind \in {"data", "sync"}
  <2>1. first + i \in (first + 1)..Len(log) /\ first + i \in 1..Len(log)
    BY <1>1
  <2> DEFINE x == log[first + i]
  <2>2. x \in Entry
    BY <1>1, <2>1
  <2>3. w[i] = Observable(x)
    BY <1>2
  <2> HIDE DEF x
  <2>4. CASE x.kind = "sync"
    <3>1. w[i] = x
      BY <2>3, <2>4 DEF Observable
    <3>2. Reader!Raw(x) = Stamp(x)
      BY <2>4 DEF Reader!Raw, Stamp, Reader!Apart, Midpoint, Delta
    <3> QED BY <2>1, <2>4, <3>1, <3>2 DEF x
  <2>5. CASE x.kind # "sync"
    <3>1. x.kind = "data"
      BY <2>2, <2>5 DEF Entry, DataEntry, SyncRecord
    <3>2. /\ w[i].kind = "data" /\ w[i].generation = x.generation
          /\ w[i].timestamp = x.timestamp
      BY <2>3, <2>5 DEF Observable
    <3>3. Reader!Raw(w[i]) = x.timestamp /\ Stamp(x) = x.timestamp
      BY <3>1, <3>2 DEF Reader!Raw, Stamp
    <3> QED BY <2>1, <3>1, <3>2, <3>3 DEF x
  <2> QED BY <2>4, <2>5
<1> QED BY <1>1, <1>2, <1>3

(* Only a synchronisation changes the generation.                           *)
LEMMA ChangeIs ==
  ASSUME ClockInv, NEW i \in 2..Len(log), log[i].generation # log[i - 1].generation
  PROVE  /\ log[i].kind = "sync"
         /\ log[i].generation = (log[i - 1].generation + 1) % GenerationRange
<1>1. TypeOK /\ SyncBeforeData
  BY DEF ClockInv
<1>2. log \in Seq(Entry) /\ DOMAIN log = 1..Len(log) /\ i \in DOMAIN log /\ i # 1
  BY <1>1, LenProperties DEF TypeOK, Entry
<1>3. log[i].kind \in {"data", "sync"}
  BY <1>2 DEF Entry, DataEntry, SyncRecord
<1>4. log[i].kind # "data"
  BY <1>1, <1>2 DEF SyncBeforeData
<1> QED BY <1>1, <1>2, <1>3, <1>4 DEF SyncBeforeData

LEMMA OrderAccepted ==
  ASSUME KeepInv, NEW first, Starts(first), NEW wrapped,
         first > 0 /\ first < Len(log) => wrapped
  PROVE  Reader!GenerationsInOrder(LogFrom(first), wrapped)
<1> DEFINE w == LogFrom(first)
           n == Len(log) - first
<1>0. ClockInv /\ TypeOK /\ SyncBeforeData
  BY DEF KeepInv, ClockInv
<1>1. first \in 0..Len(log)
  BY DEF Starts
<1>2. /\ Len(log) \in Nat /\ first \in Nat /\ DOMAIN w = 1..n /\ n \in Nat
      /\ \A i \in 1..n : /\ first + i \in (first + 1)..Len(log)
                         /\ first + i \in 1..Len(log)
                         /\ w[i].kind = log[first + i].kind
                         /\ w[i].generation = log[first + i].generation
                         /\ w[i].kind \in {"data", "sync"}
  BY <1>0, <1>1, Window
<1>3. DOMAIN log = 1..Len(log)
  BY <1>0, LenProperties DEF TypeOK
<1> HIDE DEF w, n
<1>4. ASSUME NEW i \in 1..n
      PROVE  IF i = 1
             THEN \/ wrapped
                  \/ w[1].generation = InitialGeneration
                  \/ /\ w[1].kind = "sync"
                     /\ w[1].generation = (InitialGeneration + 1) % GenerationRange
             ELSE w[i].generation # w[i - 1].generation =>
                    /\ \A j \in 1..(i - 1) : w[j].generation # w[i].generation
                    /\ w[i].generation = (w[i - 1].generation + 1) % GenerationRange
                    /\ w[i].kind = "sync"
  <2>1. CASE i = 1
    <3>1. CASE first = 0
      <4>1. /\ w[1].kind = log[1].kind /\ w[1].generation = log[1].generation
            /\ 1 \in DOMAIN log /\ w[1].kind \in {"data", "sync"}
        BY <1>2, <1>3, <2>1, <3>1
      <4>2. /\ log[1].kind = "data" => log[1].generation = InitialGeneration
            /\ log[1].kind = "sync" =>
                 log[1].generation \in
                   {InitialGeneration, (InitialGeneration + 1) % GenerationRange}
        BY <1>0, <4>1 DEF SyncBeforeData
      <4> QED BY <2>1, <4>1, <4>2
    <3>2. CASE first # 0
      <4>1. first > 0 /\ first < Len(log)
        BY <1>2, <3>2
      <4> QED BY <2>1, <4>1
    <3> QED BY <3>1, <3>2
  <2>2. CASE i # 1
    <3> SUFFICES ASSUME w[i].generation # w[i - 1].generation
                 PROVE  /\ \A j \in 1..(i - 1) : w[j].generation # w[i].generation
                        /\ w[i].generation = (w[i - 1].generation + 1) % GenerationRange
                        /\ w[i].kind = "sync"
      BY <2>2
    <3>1. /\ i - 1 \in 1..n /\ first + (i - 1) = (first + i) - 1
          /\ first + i \in 2..Len(log)
      BY <1>2, <2>2
    <3>2. log[first + i].generation # log[(first + i) - 1].generation
      BY <1>2, <3>1
    <3>3. /\ log[first + i].kind = "sync"
          /\ log[first + i].generation =
               (log[(first + i) - 1].generation + 1) % GenerationRange
      BY <1>0, <3>1, <3>2, ChangeIs
    <3>4. ASSUME NEW j \in 1..(i - 1), w[j].generation = w[i].generation
          PROVE  FALSE
      <4>1. j \in 1..n
        BY <1>2
      <4> DEFINE p == first + j
                 q == first + i
                 r == (first + i) - 1
      <4>2. /\ p \in (first + 1)..Len(log) /\ q \in p..Len(log) /\ r \in p..q
            /\ first + (i - 1) = r /\ q = first + i /\ r = (first + i) - 1
        BY <1>2, <4>1
      <4>3. log[p].generation = log[q].generation
        BY <1>2, <3>4, <4>1
      <4> HIDE DEF p, q, r
      <4>4. log[r].generation = log[p].generation
        BY <4>2, <4>3, NoReturn
      <4>5. log[q].generation = log[r].generation
        BY <4>3, <4>4
      <4>6. log[first + i].generation = log[(first + i) - 1].generation
        BY <4>2, <4>5
      <4> QED BY <3>2, <4>6
    <3> QED BY <1>2, <3>1, <3>3, <3>4
  <2> QED BY <2>1, <2>2
<1> QED BY <1>2, <1>4 DEF Reader!GenerationsInOrder, w

LEMMA SyncsAccepted ==
  ASSUME KeepInv, SyncsReach, NEW first, Starts(first), NEW wrapped,
         first > 0 /\ first < Len(log) => wrapped
  PROVE  Reader!SyncsComeFirst(LogFrom(first), wrapped)
<1> DEFINE w == LogFrom(first)
           n == Len(log) - first
<1>0. TypeOK
  BY DEF KeepInv, RingInv
<1>1. first \in 0..Len(log)
  BY DEF Starts
<1>2. /\ Len(log) \in Nat /\ first \in Nat /\ DOMAIN w = 1..n /\ n \in Nat
      /\ \A i \in 1..n : /\ first + i \in (first + 1)..Len(log)
                         /\ first + i \in 1..Len(log)
                         /\ w[i].kind = log[first + i].kind
                         /\ w[i].generation = log[first + i].generation
                         /\ w[i].kind \in {"data", "sync"}
  BY <1>0, <1>1, Window
<1> HIDE DEF w, n
<1>3. ASSUME NEW i \in 1..n, w[i].kind = "sync",
             NEW j \in 1..(i - 1), w[j].generation = w[i].generation, w[j].kind = "data"
      PROVE  \/ \E k \in 1..(i - 1) : /\ w[k].generation = w[i].generation
                                      /\ w[k].kind = "sync"
             \/ wrapped /\ w[i].generation = w[1].generation
  <2> DEFINE g == w[i].generation
             S == {k \in (j + 1)..i : w[k].kind = "sync"}
  <2>1. \A k \in j..i : k \in 1..n /\ w[k].generation = g
    <3> TAKE k \in j..i
    <3>1. k \in 1..n /\ j \in 1..n
      BY <1>2, <1>3
    <3> DEFINE p == first + j
               q == first + i
               r == first + k
    <3>2. p \in (first + 1)..Len(log) /\ q \in p..Len(log) /\ r \in p..q
      BY <1>2, <1>3, <3>1
    <3>3. log[p].generation = g /\ log[q].generation = g /\ log[r].generation = w[k].generation
      BY <1>2, <1>3, <3>1
    <3> HIDE DEF p, q, r, g
    <3>4. log[r].generation = log[p].generation
      BY <3>2, <3>3, NoReturn
    <3> QED BY <3>1, <3>3, <3>4
  <2>2. S \in SUBSET Nat /\ S # {}
    <3>1. i \in S
      BY <1>3
    <3> QED BY <3>1
  <2>3. PICK k \in S : \A m \in S : k <= m
    <3> HIDE DEF S
    <3> QED BY <2>2, Least
  <2>4. k \in (j + 1)..i /\ w[k].kind = "sync" /\ k \in 1..n /\ k - 1 \in j..i /\ k - 1 \in 1..n
    BY <1>2, <2>1, <2>3
  <2>5. w[k - 1].kind = "data"
    <3>1. CASE k - 1 = j
      BY <1>3, <3>1
    <3>2. CASE k - 1 # j
      <4>1. k - 1 \in (j + 1)..i /\ ~(k <= k - 1)
        BY <2>4, <3>2
      <4>2. w[k - 1].kind # "sync"
        BY <2>3, <4>1
      <4> QED BY <1>2, <2>4, <4>2
    <3> QED BY <3>1, <3>2
  <2> HIDE DEF S, g
  <2> DEFINE q == first + k
  <2>6. /\ q \in 2..Len(log) /\ q - 1 = first + (k - 1)
        /\ log[q].kind = "sync" /\ log[q - 1].kind = "data"
        /\ log[q - 1].generation = g
    <3>1. q \in 2..Len(log) /\ q - 1 = first + (k - 1)
      BY <1>2, <2>4
    <3>2. log[first + (k - 1)].kind = "data" /\ log[first + (k - 1)].generation = g
      BY <1>2, <2>1, <2>4, <2>5
    <3> QED BY <1>2, <2>4, <3>1, <3>2
  <2> HIDE DEF q
  <2>7. PICK a \in 1..(q - 1) :
               /\ log[a].kind = "sync"
               /\ \A b \in a..(q - 1) : log[b].generation = g
    BY <2>6 DEF SyncsReach
  <2>8. CASE a > first
    <3> DEFINE m == a - first
    <3>1. m \in 1..(k - 1) /\ m \in 1..(i - 1) /\ m \in 1..n /\ first + m = a /\ a \in a..(q - 1)
      BY <1>2, <2>4, <2>7, <2>8 DEF q
    <3>2. w[m].kind = "sync" /\ w[m].generation = g
      <4> HIDE DEF m
      <4> QED BY <1>2, <2>7, <3>1
    <3> QED BY <3>1, <3>2 DEF g
  <2>9. CASE ~(a > first)
    <3>1. first + 1 \in a..(q - 1) /\ first > 0 /\ first < Len(log) /\ 1 \in 1..n
      BY <1>2, <2>4, <2>6, <2>7, <2>9
    <3>2. log[first + 1].generation = g
      BY <2>7, <3>1
    <3> QED BY <1>2, <3>1, <3>2 DEF g
  <2> QED BY <2>8, <2>9
<1> QED BY <1>2, <1>3 DEF Reader!SyncsComeFirst, w

LEMMA GapsAccepted ==
  ASSUME KeepInv, NEW first \in 0..Len(log)
  PROVE  Reader!GapsUnambiguous(LogFrom(first))
<1> DEFINE w == LogFrom(first)
           n == Len(log) - first
<1>0. TypeOK /\ GapsClear
  BY DEF KeepInv, RingInv
<1>2. /\ Len(log) \in Nat /\ first \in Nat /\ Len(w) = n /\ n \in Nat
      /\ \A i \in 1..n : /\ w[i].generation = log[first + i].generation
                         /\ Reader!Raw(w[i]) = Stamp(log[first + i])
  BY <1>0, Window
<1> HIDE DEF w, n
<1>3. ASSUME NEW i \in 2..n, w[i].generation = w[i - 1].generation
      PROVE  Reader!Apart(Reader!Raw(w[i]), Reader!Raw(w[i - 1])) < Reader!Half
  <2>1. /\ i \in 1..n /\ i - 1 \in 1..n /\ first + (i - 1) = (first + i) - 1
    BY <1>2
  <2>2. first + i \in 2..Len(log)
    BY <1>2, <1>3 DEF n
  <2>3. /\ Reader!Raw(w[i]) = Stamp(log[first + i])
        /\ Reader!Raw(w[i - 1]) = Stamp(log[(first + i) - 1])
        /\ log[first + i].generation = log[(first + i) - 1].generation
    BY <1>2, <1>3, <2>1
  <2>4. Delta(Stamp(log[first + i]), Stamp(log[(first + i) - 1])) < HalfRange
    BY <1>0, <2>2, <2>3 DEF GapsClear
  <2> QED BY <2>3, <2>4, SameHalf DEF Reader!Apart, Delta
<1> QED BY <1>2, <1>3 DEF Reader!GapsUnambiguous, w

----------------------------------------------------------------------------
(* Extended ticks.                                                          *)

Ticked(items, i, sofar) ==
  IF i = 1 \/ items[i].generation # items[i - 1].generation
  THEN Reader!Raw(items[i])
  ELSE sofar + Reader!Apart(Reader!Raw(items[i]), Reader!Raw(items[i - 1]))

IsTick(f, items, n) == f = [i \in 1..n |-> Ticked(items, i, f[i - 1])]

LEMMA TickExists ==
  ASSUME NEW n \in Nat, NEW items
  PROVE  \E f : IsTick(f, items, n)
<1> DEFINE Step(i, sofar) == Ticked(items, i, sofar)
           S == {k \in Nat : ~ \E f : IsTick(f, items, k)}
<1>0. ASSUME NEW f, NEW k
      PROVE  IsTick(f, items, k) <=> f = [i \in 1..k |-> Step(i, f[i - 1])]
  BY DEF IsTick
<1>a. \A sofar : Step(1, sofar) = Step(1, 0)
  BY DEF Ticked
<1> HIDE DEF Step
<1>1. SUFFICES ASSUME S # {} PROVE FALSE
  OBVIOUS
<1>2. PICK k \in S : \A j \in S : k <= j
  BY <1>1, Least
<1>3. k # 0
  <2> SUFFICES ASSUME k = 0 PROVE FALSE
    OBVIOUS
  <2> DEFINE f == [i \in 1..0 |-> 0]
  <2>1. f = [i \in 1..0 |-> Step(i, f[i - 1])]
    OBVIOUS
  <2>2. IsTick(f, items, k)
    BY <1>0, <2>1
  <2> QED BY <1>2, <2>2
<1>4. k - 1 \in Nat /\ k - 1 \notin S
  BY <1>2, <1>3
<1>5. PICK f : IsTick(f, items, k - 1)
  BY <1>4
<1> DEFINE g == [i \in 1..k |-> IF i = k THEN Step(k, f[k - 1]) ELSE f[i]]
<1>6. ASSUME NEW i \in 1..k PROVE g[i] = Step(i, g[i - 1])
  <2>1. f = [x \in 1..(k - 1) |-> Step(x, f[x - 1])]
    BY <1>0, <1>5
  <2>2. CASE i = 1
    <3>1. Step(i, g[i - 1]) = Step(1, 0)
      BY <1>a, <2>2
    <3>2. CASE k = 1
      BY <1>a, <2>2, <3>1, <3>2
    <3>3. CASE k # 1
      <4>1. i \in 1..(k - 1) /\ i # k
        BY <1>2, <2>2, <3>3
      <4>2. g[i] = f[i] /\ f[i] = Step(i, f[i - 1])
        BY <2>1, <4>1
      <4> QED BY <1>a, <2>2, <3>1, <4>2
    <3> QED BY <3>2, <3>3
  <2>3. CASE i # 1
    <3>1. i - 1 \in 1..k /\ i - 1 # k
      BY <1>2, <2>3
    <3>2. g[i - 1] = f[i - 1]
      BY <3>1
    <3>3. CASE i = k
      BY <3>2, <3>3
    <3>4. CASE i # k
      <4>1. i \in 1..(k - 1)
        BY <1>2, <3>4
      <4> QED BY <2>1, <3>2, <3>4, <4>1
    <3> QED BY <3>3, <3>4
  <2> QED BY <2>2, <2>3
<1>7. g = [i \in 1..k |-> Step(i, g[i - 1])]
  <2> DEFINE h == [i \in 1..k |-> Step(i, g[i - 1])]
  <2>1. \A i \in 1..k : g[i] = h[i]
    BY <1>6
  <2>2. g = [i \in 1..k |-> g[i]] /\ h = [i \in 1..k |-> h[i]]
    OBVIOUS
  <2> HIDE DEF g, h
  <2>3. g = h
    BY <2>1, <2>2
  <2> QED BY <2>3 DEF h
<1>8. IsTick(g, items, k)
  BY <1>0, <1>7
<1> QED BY <1>2, <1>8

LEMMA ExtendedIs ==
  ASSUME NEW n \in Nat, NEW items, DOMAIN items = 1..n
  PROVE  IsTick(Reader!Extended(items), items, n)
<1>1. IsTick(CHOOSE f : IsTick(f, items, n), items, n)
  BY TickExists
<1>2. Reader!Extended(items) = CHOOSE f : IsTick(f, items, n)
  BY DEF Reader!Extended, IsTick, Ticked
<1> QED BY <1>1, <1>2

(* Along one generation ticks never fall, and rise when the counter moves.  *)
LEMMA TicksRise ==
  ASSUME NEW n \in Nat, NEW items, NEW f, IsTick(f, items, n),
         \A i \in 1..n : Reader!Raw(items[i]) \in Stamps,
         NEW i \in 1..n, NEW j \in i..n,
         \A k \in i..j : items[k].generation = items[i].generation
  PROVE  /\ \A k \in 1..n : f[k] \in Int
         /\ f[i] <= f[j]
         /\ (\E k \in (i + 1)..j : Reader!Raw(items[k]) # Reader!Raw(items[k - 1])) =>
              f[i] < f[j]
<1>0. \A k \in 1..n : f[k] = Ticked(items, k, f[k - 1])
  BY DEF IsTick
<1>a. \A x, y \in Stamps : Reader!Apart(x, y) \in Nat /\ (x # y => Reader!Apart(x, y) > 0)
  <2> TAKE x, y \in Stamps
  <2>1. x \in Int /\ y \in Int /\ Reader!Apart(x, y) = Delta(x, y)
    BY WriterAssumption DEF Stamps, Reader!Apart, Delta
  <2>2. Delta(x, y) \in Nat
    BY <2>1, ClockTypes, WriterAssumption DEF Stamps
  <2>3. ASSUME Delta(x, y) = 0 PROVE x = y
    <3>1. (y + 0) % ClockRange = x
      BY <2>3, Reached
    <3>2. y \in 0..(ClockRange - 1) /\ ClockRange \in Nat \ {0}
      BY WriterAssumption DEF Stamps
    <3>3. (y + 0) % ClockRange = y
      BY <3>2
    <3> QED BY <3>1, <3>3
  <2> DEFINE d == Delta(x, y)
  <2>4. d \in Nat /\ (d = 0 => x = y) /\ Reader!Apart(x, y) = d
    BY <2>1, <2>2, <2>3
  <2> HIDE DEF d
  <2> QED BY <2>4
<1>b. \A x \in Stamps : x \in Int
  BY WriterAssumption DEF Stamps
<1>1. \A k \in 1..n : f[k] \in Int
  <2> DEFINE S == {k \in 1..n : f[k] \notin Int}
  <2> SUFFICES ASSUME S # {} PROVE FALSE
    OBVIOUS
  <2>1. S \in SUBSET Nat
    OBVIOUS
  <2>2. PICK k \in S : \A m \in S : k <= m
    <3> HIDE DEF S
    <3> QED BY <2>1, Least
  <2>3. k \in 1..n /\ f[k] \notin Int /\ Reader!Raw(items[k]) \in Int
    BY <1>b, <2>2
  <2>4. CASE k = 1 \/ items[k].generation # items[k - 1].generation
    <3>1. f[k] = Reader!Raw(items[k])
      BY <1>0, <2>3, <2>4 DEF Ticked
    <3> QED BY <2>3, <3>1
  <2>5. CASE ~(k = 1 \/ items[k].generation # items[k - 1].generation)
    <3>1. k - 1 \in 1..n /\ ~(k <= k - 1)
      BY <2>3, <2>5
    <3>2. f[k - 1] \in Int
      BY <2>2, <3>1
    <3>3. f[k] = f[k - 1] + Reader!Apart(Reader!Raw(items[k]), Reader!Raw(items[k - 1]))
      BY <1>0, <2>3, <2>5 DEF Ticked
    <3>4. Reader!Apart(Reader!Raw(items[k]), Reader!Raw(items[k - 1])) \in Nat
      BY <1>a, <2>3, <3>1
    <3> QED BY <2>3, <3>2, <3>3, <3>4
  <2> QED BY <2>4, <2>5
<1>2. ASSUME NEW k \in (i + 1)..j
      PROVE  /\ k \in 1..n /\ k - 1 \in 1..n /\ f[k] \in Int /\ f[k - 1] \in Int
             /\ f[k - 1] <= f[k]
             /\ Reader!Raw(items[k]) # Reader!Raw(items[k - 1]) => f[k - 1] < f[k]
  <2>1. k \in 1..n /\ k - 1 \in 1..n /\ k \in i..j /\ k - 1 \in i..j /\ k # 1
    OBVIOUS
  <2>2. items[k].generation = items[k - 1].generation
    BY <2>1
  <2>3. f[k] = f[k - 1] + Reader!Apart(Reader!Raw(items[k]), Reader!Raw(items[k - 1]))
    BY <1>0, <2>1, <2>2 DEF Ticked
  <2> DEFINE d == Reader!Apart(Reader!Raw(items[k]), Reader!Raw(items[k - 1]))
  <2>4. d \in Nat /\ (Reader!Raw(items[k]) # Reader!Raw(items[k - 1]) => d > 0)
    BY <1>a, <2>1
  <2>5. f[k] = f[k - 1] + d /\ f[k] \in Int /\ f[k - 1] \in Int
    BY <1>1, <2>1, <2>3
  <2> HIDE DEF d
  <2> QED BY <2>1, <2>4, <2>5
<1>3. ASSUME NEW a \in i..j, NEW b \in a..j PROVE f[a] <= f[b]
  <2> DEFINE S == {k \in a..j : ~(f[a] <= f[k])}
  <2> SUFFICES ASSUME S # {} PROVE FALSE
    OBVIOUS
  <2>1. S \in SUBSET Nat
    OBVIOUS
  <2>2. PICK k \in S : \A m \in S : k <= m
    <3> HIDE DEF S
    <3> QED BY <2>1, Least
  <2>3. k \in a..j /\ ~(f[a] <= f[k]) /\ a \in 1..n /\ f[a] \in Int
    BY <1>1, <2>2
  <2>4. k # a
    BY <2>3
  <2>5. k - 1 \in a..j /\ ~(k <= k - 1) /\ k \in (i + 1)..j
    BY <2>3, <2>4
  <2>6. f[a] <= f[k - 1]
    BY <2>2, <2>5
  <2>7. f[k - 1] <= f[k] /\ f[k] \in Int /\ f[k - 1] \in Int
    BY <1>2, <2>5
  <2> QED BY <2>3, <2>6, <2>7
<1>4. f[i] <= f[j]
  BY <1>3
<1>5. ASSUME NEW k \in (i + 1)..j, Reader!Raw(items[k]) # Reader!Raw(items[k - 1])
      PROVE  f[i] < f[j]
  <2>1. /\ f[k - 1] < f[k] /\ f[k] \in Int /\ f[k - 1] \in Int
    BY <1>2, <1>5
  <2>2. i \in i..j /\ k - 1 \in i..j /\ k \in i..j /\ j \in k..j /\ i \in 1..n /\ j \in 1..n
    OBVIOUS
  <2>3. f[i] <= f[k - 1] /\ f[k] <= f[j]
    BY <1>3, <2>2
  <2>4. f[i] \in Int /\ f[j] \in Int
    BY <1>1, <2>2
  <2> QED BY <2>1, <2>3, <2>4
<1> QED BY <1>1, <1>4, <1>5

----------------------------------------------------------------------------
(* Generations of a window, by position.                                    *)
LEMMA WindowRun ==
  ASSUME KeepInv, NEW first, Starts(first), NEW w, w = LogFrom(first),
         NEW i \in 1..(Len(log) - first), NEW j \in i..(Len(log) - first),
         w[i].generation = w[j].generation, NEW k \in i..j
  PROVE  w[k].generation = w[i].generation
<1> DEFINE n == Len(log) - first
<1>0. TypeOK
  BY DEF KeepInv, RingInv
<1>1. first \in 0..Len(log)
  BY DEF Starts
<1>2. /\ Len(log) \in Nat /\ first \in Nat /\ n \in Nat
      /\ \A a \in 1..n : w[a].generation = log[first + a].generation
  BY <1>0, <1>1, Window
<1> DEFINE p == first + i
           q == first + j
           r == first + k
<1>3. /\ p \in (first + 1)..Len(log) /\ q \in p..Len(log) /\ r \in p..q
      /\ k \in 1..n /\ i \in 1..n /\ j \in 1..n
  BY <1>2
<1>4. /\ log[p].generation = w[i].generation /\ log[q].generation = w[j].generation
      /\ log[r].generation = w[k].generation
  BY <1>2, <1>3
<1> HIDE DEF p, q, r
<1>5. log[r].generation = log[p].generation
  BY <1>3, <1>4, NoReturn
<1> QED BY <1>4, <1>5

LEMMA TicksAccepted ==
  ASSUME KeepInv, NEW first, Starts(first), NEW w, w = LogFrom(first),
         NEW i \in 1..(Len(log) - first), NEW j \in 1..(Len(log) - first), i < j,
         w[i].kind = "sync", w[j].kind = "sync", w[i].generation = w[j].generation
  PROVE  Reader!Extended(w)[i] < Reader!Extended(w)[j]
<1> DEFINE n == Len(log) - first
           f == Reader!Extended(w)
<1>0. TypeOK /\ AnchorsAdvance /\ log \in Seq(Entry)
  BY DEF KeepInv, RingInv, ClockInv, TypeOK, Entry
<1>1. first \in 0..Len(log)
  BY DEF Starts
<1>2. /\ Len(log) \in Nat /\ first \in Nat /\ n \in Nat /\ DOMAIN w = 1..n
      /\ \A a \in 1..n : /\ first + a \in 1..Len(log)
                         /\ w[a].generation = log[first + a].generation
                         /\ w[a].kind = log[first + a].kind
                         /\ Reader!Raw(w[a]) = Stamp(log[first + a])
  BY <1>0, <1>1, Window
<1>3. IsTick(f, w, n)
  BY <1>2, ExtendedIs
<1>4. \A a \in 1..n : Reader!Raw(w[a]) \in Stamps
  <2> TAKE a \in 1..n
  <2>1. log[first + a] \in Entry
    BY <1>0, <1>2
  <2> DEFINE x == log[first + a]
  <2>2. x \in Entry /\ Reader!Raw(w[a]) = Stamp(x)
    BY <1>2, <2>1
  <2> HIDE DEF x
  <2>3. Stamp(x) \in Stamps
    BY <2>2, ClockTypes DEF Entry, DataEntry, SyncRecord, Stamp
  <2> QED BY <2>2, <2>3
<1>5. \A k \in i..j : w[k].generation = w[i].generation
  <2>1. j \in i..(Len(log) - first)
    BY <1>2
  <2> QED BY <2>1, WindowRun
<1> DEFINE p == first + i
           q == first + j
<1>6. p \in DOMAIN log /\ q \in DOMAIN log /\ p < q /\ p \in Int /\ q \in Int
  BY <1>0, <1>2, LenProperties
<1>7. log[p].kind = "sync" /\ log[q].kind = "sync"
  BY <1>2
<1>8. \A k \in p..q : log[k].generation = log[p].generation
  <2> TAKE k \in p..q
  <2>1. k - first \in i..j /\ k - first \in 1..n /\ first + (k - first) = k
    BY <1>2
  <2>2. w[k - first].generation = log[k].generation
    BY <1>2, <2>1
  <2> QED BY <1>2, <1>5, <2>1, <2>2
<1> HIDE DEF p, q
<1>9. PICK k \in (p + 1)..q : Stamp(log[k]) # Stamp(log[k - 1])
  BY <1>0, <1>6, <1>7, <1>8 DEF AnchorsAdvance
<1> DEFINE m == k - first
<1>10. /\ m \in (i + 1)..j /\ m \in 1..n /\ m - 1 \in 1..n
       /\ first + m = k /\ first + (m - 1) = k - 1
  BY <1>2, <1>6 DEF p, q
<1>11. Reader!Raw(w[m]) # Reader!Raw(w[m - 1])
  <2> HIDE DEF m
  <2> QED BY <1>2, <1>9, <1>10
<1> HIDE DEF m, f, n
<1>12. i \in 1..n /\ j \in i..n
  BY <1>2 DEF n
<1>13. f[i] < f[j]
  BY <1>2, <1>3, <1>4, <1>5, <1>10, <1>11, <1>12, TicksRise
<1> QED BY <1>13 DEF f

(* A generation with data and no anchor is the first of a wrapped ring.     *)
LEMMA BareIsFirst ==
  ASSUME KeepInv, SyncsReach, NEW first, Starts(first), NEW wrapped,
         first > 0 /\ first < Len(log) => wrapped,
         NEW w, w = LogFrom(first),
         NEW i \in 1..(Len(log) - first), w[i].kind = "data",
         NEW s \in 1..(Len(log) - first), w[s].kind = "sync",
         \A j \in 1..(Len(log) - first) :
           w[j].kind = "sync" => w[j].generation # w[i].generation
  PROVE  wrapped /\ w[i].generation = w[1].generation
<1> DEFINE n == Len(log) - first
           g == w[i].generation
<1>0. TypeOK /\ ClockInv
  BY DEF KeepInv, RingInv
<1>1. first \in 0..Len(log)
  BY DEF Starts
<1>2. /\ Len(log) \in Nat /\ first \in Nat /\ n \in Nat
      /\ \A a \in 1..n : /\ first + a \in 1..Len(log)
                         /\ w[a].generation = log[first + a].generation
                         /\ w[a].kind = log[first + a].kind
                         /\ w[a].kind \in {"data", "sync"}
  BY <1>0, <1>1, Window
<1>a. Len(log) \in Nat /\ first \in Nat /\ n \in Nat /\ n = Len(log) - first
  BY <1>2
<1>3. \A a \in 2..n : w[a].generation # w[a - 1].generation => w[a].kind = "sync"
  <2> TAKE a \in 2..n
  <2> DEFINE z == Len(log)
  <2>0. z \in Nat /\ first \in Nat /\ n \in Nat /\ n = z - first /\ a \in 2..n
    BY <1>a
  <2> HIDE DEF n, z
  <2>a. a \in Int /\ 2 <= a /\ a <= n /\ z \in Int /\ first \in Int /\ 0 <= first
    BY <2>0
  <2>b. first + a \in Int /\ 2 <= first + a /\ first + a <= z
    BY <2>0, <2>a
  <2>c. a \in 1..n /\ a - 1 \in 1..n
    BY <2>0, <2>a
  <2>1. /\ first + a \in 2..z /\ a \in 1..n /\ a - 1 \in 1..n
        /\ first + (a - 1) = (first + a) - 1
    BY <2>a, <2>b, <2>c
  <2> USE DEF z, n
  <2>2. /\ w[a].generation = log[first + a].generation
        /\ w[a].kind = log[first + a].kind
        /\ w[a - 1].generation = log[(first + a) - 1].generation
    BY <1>2, <2>1
  <2> QED BY <1>0, <2>1, <2>2, ChangeIs
<1>4. i \in 1..n /\ s \in 1..n /\ w[s].generation # g /\ s # i
      /\ \A j \in 1..n : w[j].kind = "sync" => w[j].generation # g
  OBVIOUS
<1> HIDE DEF n, g
<1>5. i < s
  <2> SUFFICES ASSUME s < i PROVE FALSE
    BY <1>2, <1>4
  <2> DEFINE S == {k \in (s + 1)..i : w[k].generation = g}
  <2>1. S \in SUBSET Nat /\ S # {}
    <3>1. i \in (s + 1)..i
      BY <1>a, <1>4
    <3>2. i \in S
      BY <3>1 DEF g
    <3> QED BY <1>a, <1>4, <3>2
  <2>2. PICK k \in S : \A m \in S : k <= m
    <3> HIDE DEF S
    <3> QED BY <2>1, Least
  <2>3. k \in (s + 1)..i /\ w[k].generation = g /\ k \in 2..n /\ k \in 1..n
    BY <1>2, <1>4, <2>2
  <2>4. w[k - 1].generation # g
    <3>1. CASE k - 1 = s
      BY <1>4, <3>1
    <3>2. CASE k - 1 # s
      <4>1. k - 1 \in (s + 1)..i /\ ~(k <= k - 1)
        BY <1>2, <1>4, <2>3, <3>2
      <4> QED BY <2>2, <4>1
    <3> QED BY <3>1, <3>2
  <2>5. w[k].kind = "sync"
    BY <1>3, <2>3, <2>4
  <2> QED BY <1>4, <2>3, <2>5
<1> DEFINE S == {k \in (i + 1)..s : w[k].generation # g}
<1>6. S \in SUBSET Nat /\ S # {}
  <2>1. s \in (i + 1)..s
    BY <1>a, <1>4, <1>5
  <2>2. s \in S
    BY <1>4, <2>1
  <2>3. S \in SUBSET Nat
    BY <1>a, <1>4
  <2> QED BY <2>2, <2>3
<1>7. PICK k \in S : \A m \in S : k <= m
  <2> HIDE DEF S
  <2> QED BY <1>6, Least
<1>8. /\ k \in (i + 1)..s /\ w[k].generation # g /\ k \in 2..n /\ k \in 1..n
      /\ k - 1 \in 1..n
  BY <1>2, <1>4, <1>7
<1>9. w[k - 1].generation = g
  <2>1. CASE k - 1 = i
    BY <2>1 DEF g
  <2>2. CASE k - 1 # i
    <3>1. k - 1 \in (i + 1)..s /\ ~(k <= k - 1)
      BY <1>2, <1>4, <1>8, <2>2
    <3> QED BY <1>7, <3>1
  <2> QED BY <2>1, <2>2
<1> HIDE DEF S
<1>10. w[k].kind = "sync" /\ w[k - 1].kind = "data"
  BY <1>2, <1>3, <1>4, <1>8, <1>9
<1> DEFINE q == first + k
<1>11. /\ q \in 2..Len(log) /\ q - 1 = first + (k - 1)
       /\ log[q].kind = "sync" /\ log[q - 1].kind = "data" /\ log[q - 1].generation = g
  <2>1. q \in 2..Len(log) /\ q - 1 = first + (k - 1)
    <3> DEFINE z == Len(log)
    <3>1. /\ z \in Nat /\ first \in Nat /\ n \in Nat /\ n = z - first
          /\ k \in Int /\ 2 <= k /\ k <= n
      BY <1>a, <1>8
    <3> HIDE DEF z
    <3>2. first + k \in Int /\ 2 <= first + k /\ first + k <= z
      BY <3>1
    <3>3. (first + k) - 1 = first + (k - 1)
      BY <3>1
    <3> QED BY <3>2, <3>3 DEF z, q
  <2>2. log[first + (k - 1)].kind = "data" /\ log[first + (k - 1)].generation = g
    BY <1>2, <1>8, <1>9, <1>10
  <2> QED BY <1>2, <1>8, <1>10, <2>1, <2>2
<1> HIDE DEF q
<1>12. PICK a \in 1..(q - 1) : /\ log[a].kind = "sync"
                               /\ \A b \in a..(q - 1) : log[b].generation = g
  BY <1>11 DEF SyncsReach
<1>13. a <= first
  <2> SUFFICES ASSUME a > first PROVE FALSE
    BY <1>2, <1>11, <1>12
  <2> DEFINE m == a - first
  <2>1. m \in 1..n /\ first + m = a /\ a \in a..(q - 1)
    BY <1>2, <1>8, <1>11, <1>12 DEF n, q
  <2> HIDE DEF m
  <2>2. w[m].kind = "sync" /\ w[m].generation = g
    BY <1>2, <1>12, <2>1
  <2> QED BY <1>4, <2>1, <2>2
<1>14. first + 1 \in a..(q - 1) /\ first > 0 /\ first < Len(log) /\ 1 \in 1..n
  BY <1>1, <1>2, <1>4, <1>8, <1>11, <1>12, <1>13 DEF n
<1>15. w[1].generation = g
  BY <1>2, <1>12, <1>14
<1> QED BY <1>14, <1>15 DEF g

LEMMA AnchorsAccepted ==
  ASSUME KeepInv, SyncsReach, NEW first, Starts(first), NEW wrapped,
         first > 0 /\ first < Len(log) => wrapped
  PROVE  Reader!AnchorsUsable(LogFrom(first), wrapped)
<1> DEFINE w == LogFrom(first)
           n == Len(log) - first
           syncs == {i \in DOMAIN w : w[i].kind = "sync"}
           bare  == {w[i].generation : i \in {i \in DOMAIN w :
                       /\ w[i].kind = "data"
                       /\ \A j \in syncs : w[j].generation # w[i].generation}}
<1>0. TypeOK
  BY DEF KeepInv, RingInv
<1>1. first \in 0..Len(log)
  BY DEF Starts
<1>2. n \in Nat /\ DOMAIN w = 1..n
  BY <1>0, <1>1, Window
<1>3. ASSUME NEW i \in syncs, NEW j \in syncs, i < j, w[i].generation = w[j].generation
      PROVE  Reader!Extended(w)[i] < Reader!Extended(w)[j]
  <2>1. i \in 1..n /\ j \in 1..n /\ w[i].kind = "sync" /\ w[j].kind = "sync"
    BY <1>2, <1>3
  <2>2. w = LogFrom(first)
    OBVIOUS
  <2> HIDE DEF w
  <2> QED BY <1>3, <2>1, <2>2, TicksAccepted
<1>4. ASSUME syncs # {}, NEW i \in DOMAIN w, w[i].kind = "data",
             \A j \in syncs : w[j].generation # w[i].generation
      PROVE  wrapped /\ w[i].generation = w[1].generation
  <2>1. PICK s \in syncs : TRUE
    BY <1>4
  <2>2. s \in 1..n /\ w[s].kind = "sync" /\ i \in 1..n
    BY <1>2, <2>1
  <2>3. \A j \in 1..n : w[j].kind = "sync" => w[j].generation # w[i].generation
    BY <1>2, <1>4
  <2>4. w = LogFrom(first)
    OBVIOUS
  <2> HIDE DEF w
  <2> QED BY <1>4, <2>2, <2>3, <2>4, BareIsFirst
<1>5. (syncs # {} /\ bare # {}) => wrapped /\ bare = {w[1].generation}
  <2> SUFFICES ASSUME syncs # {}, bare # {} PROVE wrapped /\ bare = {w[1].generation}
    OBVIOUS
  <2>1. \A x \in bare : wrapped /\ x = w[1].generation
    BY <1>4
  <2> HIDE DEF bare
  <2> QED BY <2>1
<1>6. \A i, j \in syncs : i < j /\ w[i].generation = w[j].generation =>
                            Reader!Extended(w)[i] < Reader!Extended(w)[j]
  BY <1>3
<1> QED BY <1>5, <1>6 DEF Reader!AnchorsUsable

(* Whatever suffix of the log begins where a chunk does is accepted.        *)
LEMMA ClockPasses ==
  ASSUME KeepInv, SyncsReach, NEW first, Starts(first), NEW wrapped,
         first > 0 /\ first < Len(log) => wrapped
  PROVE  Reader!ClockAccepted(LogFrom(first), wrapped)
<1>1. first \in 0..Len(log)
  BY DEF Starts
<1> QED BY <1>1, OrderAccepted, SyncsAccepted, GapsAccepted, AnchorsAccepted
        DEF Reader!ClockAccepted

----------------------------------------------------------------------------
(* Stretches of the log: what follows on, and what is counted in them.      *)

LEMMA PartLength ==
  ASSUME NEW l, NEW b, NEW e \in Nat
  PROVE  /\ DOMAIN Part(l, b, e) = 1..e /\ Len(Part(l, b, e)) = e
         /\ \A i \in 1..e : Part(l, b, e)[i] = Observable(l[b + i])
<1>1. /\ DOMAIN Part(l, b, e) = 1..e
      /\ \A i \in 1..e : Part(l, b, e)[i] = Observable(l[b + i])
  BY DEF Part
<1>2. Len(Part(l, b, e)) = e
  BY DEF Part
<1> QED BY <1>1, <1>2

LEMMA PartConcat ==
  ASSUME NEW l, NEW b \in Nat, NEW e \in Nat, NEW n \in Nat
  PROVE  Part(l, b, e) \o Part(l, b + e, n) = Part(l, b, e + n)
<1> DEFINE p == Part(l, b, e)
           q == Part(l, b + e, n)
           r == Part(l, b, e + n)
           S == {Observable(l[i]) : i \in Nat}
<1>1. p \in Seq(S) /\ Len(p) = e /\ q \in Seq(S) /\ Len(q) = n
  <2>1. p \in [1..e -> S]
    <3>1. \A i \in 1..e : b + i \in Nat
      OBVIOUS
    <3> QED BY <3>1 DEF Part
  <2>2. q \in [1..n -> S]
    <3>1. \A i \in 1..n : (b + e) + i \in Nat
      OBVIOUS
    <3> QED BY <3>1 DEF Part
  <2>3. /\ p \in UNION {[1..m -> S] : m \in Nat}
        /\ q \in UNION {[1..m -> S] : m \in Nat}
    BY <2>1, <2>2
  <2>4. p \in Seq(S) /\ q \in Seq(S)
    BY <2>3, SeqDef, Zenon
  <2> QED BY <2>1, <2>2, <2>4, LenProperties
<1>2. /\ \A i \in 1..e : p[i] = Observable(l[b + i])
      /\ \A i \in 1..n : q[i] = Observable(l[(b + e) + i])
      /\ DOMAIN r = 1..(e + n) /\ r = [i \in 1..(e + n) |-> r[i]]
      /\ \A i \in 1..(e + n) : r[i] = Observable(l[b + i])
  BY DEF Part
<1> HIDE DEF p, q, r, S
<1> DEFINE s == p \o q
<1>3. /\ s \in Seq(S) /\ Len(s) = e + n
      /\ \A i \in 1..(e + n) : s[i] = IF i <= e THEN p[i] ELSE q[i - e]
  BY <1>1, ConcatProperties
<1>4. s = [i \in 1..(e + n) |-> s[i]]
  <2>1. s \in [1..(e + n) -> S]
    BY <1>3, LenProperties
  <2> HIDE DEF s
  <2> QED BY <2>1
<1> HIDE DEF s
<1>5. \A i \in 1..(e + n) : s[i] = r[i]
  <2> TAKE i \in 1..(e + n)
  <2>1. CASE i <= e
    <3>1. i \in 1..e
      BY <2>1
    <3> QED BY <1>2, <1>3, <2>1, <3>1
  <2>2. CASE ~(i <= e)
    <3>1. i - e \in 1..n /\ (b + e) + (i - e) = b + i
      BY <2>2
    <3> QED BY <1>2, <1>3, <2>2, <3>1
  <2> QED BY <2>1, <2>2
<1>6. s = r
  BY <1>2, <1>4, <1>5
<1> QED BY <1>6 DEF p, q, r, s

LEMMA SameCardinality == \A S : Reader!Cardinality(S) = Cardinality(S)
  BY DEF Reader!Cardinality, Cardinality

(* C has the positions A up to b, and from there on the positions D counted *)
(* from b.                                                                  *)
IsShift(b, e, A, D, C) ==
  /\ D \subseteq 1..e /\ A \subseteq 1..b /\ C \subseteq 1..(b + e)
  /\ \A i \in 1..(b + e) : i \in C <=> (i \in A \/ (i > b /\ i - b \in D))

LEMMA Shifted ==
  ASSUME NEW b \in Nat, NEW e \in Nat, NEW A, NEW D, NEW C, IsShift(b, e, A, D, C)
  PROVE  /\ Cardinality(C) = Cardinality(A) + Cardinality(D)
         /\ Cardinality(A) \in Nat /\ Cardinality(D) \in Nat /\ Cardinality(C) \in Nat
<1> DEFINE B == {b + i : i \in D}
           f == [i \in D |-> b + i]
<1>0. /\ D \in SUBSET (1..e) /\ A \in SUBSET (1..b) /\ C \in SUBSET (1..(b + e))
      /\ \A i \in 1..(b + e) : i \in C <=> (i \in A \/ (i > b /\ i - b \in D))
  BY DEF IsShift
<1>1. IsFiniteSet(D) /\ IsFiniteSet(A) /\ IsFiniteSet(C)
  <2>1. IsFiniteSet(1..e) /\ IsFiniteSet(1..b) /\ IsFiniteSet(1..(b + e))
    BY FS_Interval
  <2> QED BY <1>0, <2>1, FS_Subset
<1>2. f \in Bijection(D, B)
  BY <1>0 DEF Bijection, Injection, Surjection, IsInjective
<1>3. IsFiniteSet(B) /\ Cardinality(B) = Cardinality(D)
  <2>1. ExistsBijection(D, B)
    BY <1>2 DEF ExistsBijection
  <2> HIDE DEF B
  <2> QED BY <1>1, <2>1, FS_Bijection
<1>4. C = A \cup B /\ A \cap B = {}
  <2>1. A \cap B = {}
    BY <1>0
  <2>2. \A i \in C : i \in A \cup B
    <3> TAKE i \in C
    <3>1. i \in 1..(b + e) /\ i \in Int
      BY <1>0
    <3>2. i \in A \/ (i - b \in D /\ b + (i - b) = i)
      BY <1>0, <3>1
    <3> QED BY <3>2
  <2>3. \A i \in A : i \in C
    <3> TAKE i \in A
    <3>1. i \in 1..(b + e)
      BY <1>0
    <3> QED BY <1>0, <3>1
  <2>4. \A i \in D : b + i \in C
    <3> TAKE i \in D
    <3>1. b + i \in 1..(b + e) /\ b + i > b /\ (b + i) - b = i
      BY <1>0
    <3> QED BY <1>0, <3>1
  <2> QED BY <2>1, <2>2, <2>3, <2>4
<1> HIDE DEF B
<1>5. Cardinality(A \cup B) = Cardinality(A) + Cardinality(B) - Cardinality({})
  BY <1>1, <1>3, <1>4, FS_Union
<1>6. /\ Cardinality({}) = 0
      /\ Cardinality(A) \in Nat /\ Cardinality(D) \in Nat /\ Cardinality(C) \in Nat
  BY <1>1, FS_EmptySet, FS_CardinalityType
<1> QED BY <1>3, <1>4, <1>5, <1>6

LEMMA PartCounts ==
  ASSUME NEW l \in Seq(Entry), NEW b \in Nat, NEW e \in Nat, b + e <= Len(l),
         NEW p, p = Part(l, b, e)
  PROVE  /\ RecordsUpTo(l, b + e) = RecordsUpTo(l, b) + Reader!RecordsIn(p)
         /\ EventsUpTo(l, b + e) = EventsUpTo(l, b) + Reader!EventsIn(p)
         /\ Reader!RecordsIn(p) \in Nat /\ Reader!EventsIn(p) \in Nat
         /\ RecordsUpTo(l, b) \in Nat /\ EventsUpTo(l, b) \in Nat
<1> DEFINE D == {i \in 1..e : p[i].kind = "data"}
           E == {i \in D : p[i].event \in SliceEvents}
<1>1. /\ DOMAIN p = 1..e /\ Len(l) \in Nat
      /\ \A i \in 1..e : p[i] = Observable(l[b + i])
  BY PartLength, LenProperties
<1>2. \A i \in 1..e : /\ p[i].kind = "data" <=> l[b + i].kind = "data"
                      /\ p[i].kind = "data" => p[i].event = l[b + i].event
  <2> TAKE i \in 1..e
  <2> DEFINE x == l[b + i]
  <2>1. b + i \in 1..Len(l)
    BY <1>1
  <2>2. x \in Entry /\ p[i] = Observable(x)
    BY <1>1, <2>1
  <2> HIDE DEF x
  <2>3. CASE x.kind = "sync"
    <3>1. p[i] = x
      BY <2>2, <2>3 DEF Observable
    <3> QED BY <2>3, <3>1 DEF x
  <2>4. CASE x.kind # "sync"
    <3>1. x.kind = "data"
      BY <2>2, <2>4 DEF Entry, DataEntry, SyncRecord
    <3>2. p[i].kind = "data" /\ p[i].event = x.event
      BY <2>2, <2>4 DEF Observable
    <3> QED BY <3>1, <3>2 DEF x
  <2> QED BY <2>3, <2>4
<1>3. Reader!DataIn(p) = D
  BY <1>1 DEF Reader!DataIn
<1>4. /\ Reader!RecordsIn(p) = Cardinality(D)
      /\ Reader!EventsIn(p) = Cardinality(D) + Cardinality(E)
  BY <1>3, SameCardinality DEF Reader!RecordsIn, Reader!EventsIn
<1>5. D \in SUBSET (1..e) /\ E \in SUBSET (1..e)
  OBVIOUS
<1>6. \A i \in 1..(b + e) :
        i \in DataUpTo(l, b + e) <=> (i \in DataUpTo(l, b) \/ (i > b /\ i - b \in D))
  <2> TAKE i \in 1..(b + e)
  <2>1. CASE i <= b
    BY <2>1 DEF DataUpTo
  <2>2. CASE ~(i <= b)
    <3>1. i > b /\ i - b \in 1..e /\ b + (i - b) = i /\ i \notin 1..b
      BY <2>2
    <3>2. p[i - b].kind = "data" <=> l[i].kind = "data"
      BY <1>2, <3>1
    <3> QED BY <3>1, <3>2 DEF DataUpTo
  <2> QED BY <2>1, <2>2
<1>7. \A i \in 1..(b + e) :
        i \in SlicesUpTo(l, b + e) <=> (i \in SlicesUpTo(l, b) \/ (i > b /\ i - b \in E))
  <2> TAKE i \in 1..(b + e)
  <2>1. CASE i <= b
    BY <2>1 DEF DataUpTo, SlicesUpTo
  <2>2. CASE ~(i <= b)
    <3>1. i > b /\ i - b \in 1..e /\ b + (i - b) = i /\ i \notin 1..b
      BY <2>2
    <3>2. /\ p[i - b].kind = "data" <=> l[i].kind = "data"
          /\ p[i - b].kind = "data" => p[i - b].event = l[i].event
      BY <1>2, <3>1
    <3> QED BY <3>1, <3>2 DEF DataUpTo, SlicesUpTo
  <2> QED BY <2>1, <2>2
<1>8. /\ DataUpTo(l, b) \in SUBSET (1..b) /\ SlicesUpTo(l, b) \in SUBSET (1..b)
      /\ DataUpTo(l, b + e) \in SUBSET (1..(b + e))
      /\ SlicesUpTo(l, b + e) \in SUBSET (1..(b + e))
  BY DEF DataUpTo, SlicesUpTo
<1> DEFINE A == DataUpTo(l, b)
           C == DataUpTo(l, b + e)
           F == SlicesUpTo(l, b)
           G == SlicesUpTo(l, b + e)
<1>9. /\ D \in SUBSET (1..e) /\ A \in SUBSET (1..b) /\ C \in SUBSET (1..(b + e))
      /\ E \in SUBSET (1..e) /\ F \in SUBSET (1..b) /\ G \in SUBSET (1..(b + e))
  BY <1>5, <1>8
<1>10. \A i \in 1..(b + e) : i \in C <=> (i \in A \/ (i > b /\ i - b \in D))
  BY <1>6
<1>11. \A i \in 1..(b + e) : i \in G <=> (i \in F \/ (i > b /\ i - b \in E))
  BY <1>7
<1> HIDE DEF A, C, D, E, F, G
<1>12. IsShift(b, e, A, D, C) /\ IsShift(b, e, F, E, G)
  BY <1>9, <1>10, <1>11, Zenon DEF IsShift
<1>13. /\ Cardinality(C) = Cardinality(A) + Cardinality(D)
       /\ Cardinality(A) \in Nat /\ Cardinality(D) \in Nat
  BY <1>12, Shifted
<1>14. /\ Cardinality(G) = Cardinality(F) + Cardinality(E)
       /\ Cardinality(F) \in Nat /\ Cardinality(E) \in Nat
  BY <1>12, Shifted
<1>15. /\ RecordsUpTo(l, b + e) = Cardinality(C) /\ RecordsUpTo(l, b) = Cardinality(A)
       /\ EventsUpTo(l, b + e) = Cardinality(C) + Cardinality(G)
       /\ EventsUpTo(l, b) = Cardinality(A) + Cardinality(F)
  BY DEF RecordsUpTo, EventsUpTo, A, C, F, G
<1> QED BY <1>4, <1>13, <1>14, <1>15

----------------------------------------------------------------------------
(* A run of chunks: published in an image under the sequence numbers from   *)
(* lo up to hi, they hold the log from position first, one after another.   *)

EndsAt(c) == c.before.items + Len(c.items)

Run(ch, lo, hi, first) ==
  LET published == Reader!Published(ch)
  IN  /\ DOMAIN ch = Slots
      /\ lo \in Nat /\ hi \in Nat /\ lo <= hi /\ first \in 0..Len(log)
      /\ lo = hi => first = Len(log)
      /\ \A s \in published :
           /\ ch[s] \in Chunk /\ Holds(ch[s], log) /\ ch[s].sequence \in lo..(hi - 1)
           /\ ch[s].sequence = lo => ch[s].before.items = first
           /\ ch[s].sequence = hi - 1 => EndsAt(ch[s]) = Len(log)
      /\ \A s, t \in published :
           /\ ch[s].sequence = ch[t].sequence => s = t
           /\ ch[t].sequence = ch[s].sequence + 1 => ch[t].before.items = EndsAt(ch[s])
      /\ \A q \in lo..(hi - 1) : \E s \in published : ch[s].sequence = q

(* As many numbers, ascending, as a range has room for are all of it.       *)
Ascends(h, lo, n) ==
  /\ \A i \in 1..n : h[i] \in lo..(lo + n - 1)
  /\ \A i, j \in 1..n : i < j => h[i] < h[j]

LEMMA Climb ==
  ASSUME NEW lo \in Nat, NEW n \in Nat, NEW h, Ascends(h, lo, n)
  PROVE  \A i \in 1..n : h[i] = lo + i - 1
<1>0. \A i, j \in 1..n : i < j => h[i] < h[j]
  BY DEF Ascends
<1>1. \A i \in 1..n : h[i] \in Int /\ lo <= h[i] /\ h[i] <= lo + n - 1
  BY DEF Ascends
<1>2. \A i \in 1..n : h[i] >= lo + i - 1
  <2> DEFINE S == {i \in 1..n : ~(h[i] >= lo + i - 1)}
  <2>1. SUFFICES ASSUME S # {} PROVE FALSE
    OBVIOUS
  <2>2. S \in SUBSET Nat
    OBVIOUS
  <2>3. PICK i \in S : \A j \in S : i <= j
    <3> HIDE DEF S
    <3> QED BY <2>1, <2>2, Least
  <2>4. i \in 1..n /\ i \in Int /\ ~(h[i] >= lo + i - 1)
    OBVIOUS
  <2>5. i # 1
    BY <1>1, <2>4
  <2>6. i - 1 \in 1..n /\ i - 1 < i
    BY <2>4, <2>5
  <2>7. i - 1 \notin S
    BY <2>3, <2>6
  <2>8. h[i - 1] >= lo + (i - 1) - 1
    BY <2>6, <2>7
  <2>9. h[i - 1] < h[i]
    BY <1>0, <2>4, <2>6
  <2>10. h[i] \in Int /\ h[i - 1] \in Int
    BY <1>1, <2>4, <2>6
  <2> QED BY <2>4, <2>8, <2>9, <2>10
<1>3. \A i \in 1..n : h[i] <= lo + i - 1
  <2> DEFINE S == {i \in 1..n : ~(h[i] <= lo + i - 1)}
  <2>1. SUFFICES ASSUME S # {} PROVE FALSE
    OBVIOUS
  <2>2. S \in SUBSET (0..n)
    OBVIOUS
  <2>3. PICK i \in S : \A j \in S : j <= i
    <3> HIDE DEF S
    <3> QED BY <2>1, <2>2, Greatest
  <2>4. i \in 1..n /\ i \in Int /\ ~(h[i] <= lo + i - 1)
    OBVIOUS
  <2>5. i # n
    BY <1>1, <2>4
  <2>6. i + 1 \in 1..n /\ i < i + 1
    BY <2>4, <2>5
  <2>7. i + 1 \notin S
    BY <2>3, <2>6
  <2>8. h[i + 1] <= lo + (i + 1) - 1
    BY <2>6, <2>7
  <2>9. h[i] < h[i + 1]
    BY <1>0, <2>4, <2>6
  <2>10. h[i] \in Int /\ h[i + 1] \in Int
    BY <1>1, <2>4, <2>6
  <2> QED BY <2>4, <2>8, <2>9, <2>10
<1>4. ASSUME NEW i \in 1..n PROVE h[i] = lo + i - 1
  <2>1. h[i] \in Int /\ h[i] >= lo + i - 1 /\ h[i] <= lo + i - 1
    BY <1>1, <1>2, <1>3
  <2> QED BY <2>1
<1> QED BY <1>4

(* The reader finds the run, in order and without a gap.                    *)
InSequence(order, ch, lo, n) ==
  /\ order \in [1..n -> Reader!Published(ch)]
  /\ \A i \in 1..n : ch[order[i]].sequence = lo + i - 1

LEMMA Ordered ==
  ASSUME NEW ch, NEW lo, NEW hi, NEW first, Run(ch, lo, hi, first)
  PROVE  InSequence(Reader!InOrder(ch), ch, lo, hi - lo)
<1> DEFINE P == Reader!Published(ch)
           n == hi - lo
           g == [i \in 1..n |-> CHOOSE s \in P : ch[s].sequence = lo + i - 1]
<1>1. lo \in Nat /\ hi \in Nat /\ lo <= hi /\ n \in Nat /\ hi = lo + n
  BY DEF Run
<1>2. /\ \A s \in P : ch[s].sequence \in lo..(lo + n - 1)
      /\ \A s, t \in P : ch[s].sequence = ch[t].sequence => s = t
      /\ \A q \in lo..(lo + n - 1) : \E s \in P : ch[s].sequence = q
  BY <1>1 DEF Run
<1>3. P \subseteq Slots
  BY DEF Run, Reader!Published
<1> HIDE DEF P, n
<1>4. \A i \in 1..n : g[i] \in P /\ ch[g[i]].sequence = lo + i - 1
  <2> TAKE i \in 1..n
  <2>1. lo + i - 1 \in lo..(lo + n - 1)
    BY <1>1
  <2>2. \E s \in P : ch[s].sequence = lo + i - 1
    BY <1>2, <2>1
  <2> QED BY <2>2
<1>5. g \in [1..n -> P]
  BY <1>4
<1> HIDE DEF g
<1>6. g \in Bijection(1..n, P)
  <2>1. \A i, j \in 1..n : g[i] = g[j] => i = j
    <3> TAKE i, j \in 1..n
    <3>1. ch[g[i]].sequence = lo + i - 1 /\ ch[g[j]].sequence = lo + j - 1
      BY <1>4
    <3> QED BY <1>1, <3>1
  <2>2. \A s \in P : \E i \in 1..n : g[i] = s
    <3> TAKE s \in P
    <3> DEFINE q == ch[s].sequence
               i == q - lo + 1
    <3>1. q \in lo..(lo + n - 1)
      BY <1>2
    <3> HIDE DEF q
    <3>2. i \in 1..n /\ lo + i - 1 = q
      BY <1>1, <3>1
    <3> HIDE DEF i
    <3>3. ch[g[i]].sequence = ch[s].sequence /\ g[i] \in P
      BY <1>4, <3>2 DEF q
    <3>4. g[i] = s
      BY <1>2, <3>3
    <3> QED BY <3>2, <3>4
  <2> QED BY <1>5, <2>1, <2>2 DEF Bijection, Injection, Surjection, IsInjective
<1>7. Reader!Cardinality(P) = n
  <2>1. IsFiniteSet(1..n) /\ Cardinality(1..n) = n
    <3>1. 1 \in Int /\ n \in Int /\ (IF 1 > n THEN 0 ELSE n - 1 + 1) = n
      BY <1>1
    <3> QED BY <3>1, FS_Interval
  <2>2. ExistsBijection(1..n, P)
    BY <1>6 DEF ExistsBijection
  <2>3. Cardinality(P) = Cardinality(1..n)
    BY <2>1, <2>2, FS_Bijection
  <2> QED BY <2>1, <2>3, SameCardinality
<1> DEFINE Sorted(order) ==
             \A i, j \in DOMAIN order : i < j => Reader!Before(ch, order[i], order[j])
<1>8. Sorted(g)
  <2>1. ASSUME NEW i \in 1..n, NEW j \in 1..n, i < j
        PROVE  Reader!Before(ch, g[i], g[j])
    <3>1. ch[g[i]].sequence = lo + i - 1 /\ ch[g[j]].sequence = lo + j - 1
      BY <1>4
    <3>2. lo + i - 1 < lo + j - 1
      BY <1>1, <2>1
    <3> QED BY <3>1, <3>2 DEF Reader!Before
  <2>2. DOMAIN g = 1..n
    BY <1>5
  <2> QED BY <2>1, <2>2
<1> DEFINE order == Reader!InOrder(ch)
<1>9. order = CHOOSE o \in [1..n -> P] : Sorted(o)
  BY <1>7 DEF Reader!InOrder, P
<1> HIDE DEF order, Sorted
<1>10. order \in [1..n -> P] /\ Sorted(order)
  BY <1>5, <1>8, <1>9
<1>11. \A i \in 1..n : ch[order[i]].sequence = lo + i - 1
  <2> DEFINE h == [i \in 1..n |-> ch[order[i]].sequence]
  <2>1. \A i \in 1..n : h[i] \in lo..(lo + n - 1)
    BY <1>2, <1>10
  <2>2. ASSUME NEW i \in 1..n, NEW j \in 1..n, i < j PROVE h[i] < h[j]
    <3>1. order[i] \in P /\ order[j] \in P /\ DOMAIN order = 1..n
      BY <1>10
    <3>2. Reader!Before(ch, order[i], order[j])
      BY <1>10, <2>2, <3>1 DEF Sorted
    <3>3. CASE ch[order[i]].sequence < ch[order[j]].sequence
      BY <3>3
    <3>4. CASE ch[order[i]].sequence = ch[order[j]].sequence /\ order[i] < order[j]
      <4>1. order[i] = order[j]
        BY <1>2, <3>1, <3>4
      <4>2. order[i] \in Slots
        BY <1>3, <3>1
      <4>3. order[i] \in Int /\ ~(order[i] < order[i])
        BY <4>2, WriterAssumption DEF Slots
      <4> QED BY <3>4, <4>1, <4>3
    <3> QED BY <3>2, <3>3, <3>4 DEF Reader!Before
  <2>3. \A i \in 1..n : h[i] = ch[order[i]].sequence
    OBVIOUS
  <2> HIDE DEF h
  <2>4. \A i, j \in 1..n : i < j => h[i] < h[j]
    BY <2>2
  <2>5. Ascends(h, lo, n)
    BY <2>1, <2>4, Zenon DEF Ascends
  <2>6. \A i \in 1..n : h[i] = lo + i - 1
    BY <1>1, <2>5, Climb
  <2> QED BY <2>3, <2>6
<1> QED BY <1>10, <1>11, Zenon DEF InSequence, order, P, n

----------------------------------------------------------------------------
(* No gap stops the reader.                                                 *)
LEMMA NoGap ==
  ASSUME NEW ch, NEW lo \in Nat, NEW n \in Nat, NEW order, InSequence(order, ch, lo, n)
  PROVE  Reader!Contiguous(ch, order) = order
<1>1. Len(order) = n /\ \A i \in 1..n : ch[order[i]].sequence = lo + i - 1
  BY DEF InSequence
<1>2. {i \in 2..Len(order) :
         ch[order[i]].sequence # ch[order[i - 1]].sequence + 1} = {}
  <2>1. ASSUME NEW i \in 2..n
        PROVE  ch[order[i]].sequence = ch[order[i - 1]].sequence + 1
    <3>1. i \in 1..n /\ i - 1 \in 1..n /\ i \in Int
      OBVIOUS
    <3>2. ch[order[i]].sequence = lo + i - 1 /\ ch[order[i - 1]].sequence = lo + (i - 1) - 1
      BY <1>1, <3>1
    <3> QED BY <3>1, <3>2
  <2> QED BY <1>1, <2>1
<1> QED BY <1>2 DEF Reader!Contiguous

----------------------------------------------------------------------------
(* Decoding the chunks, one after another.                                  *)

ReadStep(file, recovering, sofar, slot) ==
  LET decoded == Reader!DecodeChunk(file.chunks[slot])
  IN  IF ~sofar.ok \/ sofar.stopped THEN sofar
      ELSE [ok |-> recovering
                   \/ (decoded.ok /\ Reader!CountsMatch(file.chunks[slot], decoded.items)),
            stopped |-> ~decoded.ok,
            items |-> sofar.items \o decoded.items]

Good(items) == [ok |-> TRUE, stopped |-> FALSE, items |-> items]

IsReading(f, k, file, recovering, order) ==
  f = [s \in SUBSET (1..k) |->
         IF s = {} THEN Good(<<>>)
         ELSE ReadStep(file, recovering, f[s \ {Reader!Max(s)}], order[Reader!Max(s)])]

LEMMA ReadingExists ==
  ASSUME NEW m \in Nat, NEW file, NEW recovering, NEW order
  PROVE  \E f : IsReading(f, m, file, recovering, order)
<1> DEFINE Step(at, n) == ReadStep(file, recovering, at, order[n])
           S == {k \in Nat : ~ \E f : IsReading(f, k, file, recovering, order)}
<1>0. ASSUME NEW f, NEW k
      PROVE  IsReading(f, k, file, recovering, order) <=>
               f = [s \in SUBSET (1..k) |->
                      IF s = {} THEN Good(<<>>)
                      ELSE Step(f[s \ {Reader!Max(s)}], Reader!Max(s))]
  BY DEF IsReading
<1> HIDE DEF Step
<1>1. SUFFICES ASSUME S # {} PROVE FALSE
  OBVIOUS
<1>2. PICK k \in S : \A j \in S : k <= j
  BY <1>1, Least
<1>3. k # 0
  <2> SUFFICES ASSUME k = 0 PROVE FALSE
    OBVIOUS
  <2> DEFINE f == [s \in SUBSET (1..0) |-> Good(<<>>)]
  <2>1. \A s \in SUBSET (1..0) : s = {}
    OBVIOUS
  <2>2. f = [s \in SUBSET (1..0) |->
               IF s = {} THEN Good(<<>>)
               ELSE Step(f[s \ {Reader!Max(s)}], Reader!Max(s))]
    BY <2>1
  <2>3. IsReading(f, k, file, recovering, order)
    BY <1>0, <2>2
  <2> QED BY <1>2, <2>3
<1>4. k - 1 \in Nat /\ k - 1 \notin S
  BY <1>2, <1>3
<1>5. PICK f : IsReading(f, k - 1, file, recovering, order)
  BY <1>4
<1> DEFINE g == [s \in SUBSET (1..k) |->
                   IF k \in s THEN Step(f[s \ {k}], k) ELSE f[s]]
<1>6. ASSUME NEW s \in SUBSET (1..k)
      PROVE  g[s] = IF s = {} THEN Good(<<>>)
                    ELSE Step(g[s \ {Reader!Max(s)}], Reader!Max(s))
  <2>1. CASE k \in s
    <3>1. Reader!Max(s) = k
      <4>1. \A y \in s : y \in Int /\ y <= k
        OBVIOUS
      <4> QED BY <2>1, <4>1, MaxOf
    <3>2. s \ {k} \in SUBSET (1..k) /\ k \notin s \ {k}
      OBVIOUS
    <3>3. g[s \ {k}] = f[s \ {k}]
      BY <3>2
    <3>4. g[s] = Step(f[s \ {k}], k)
      BY <2>1
    <3> QED BY <2>1, <3>1, <3>3, <3>4
  <2>2. CASE k \notin s
    <3>1. s \in SUBSET (1..(k - 1))
      BY <1>2, <2>2
    <3>2. g[s] = f[s]
      BY <2>2
    <3>3. f[s] = IF s = {} THEN Good(<<>>)
                 ELSE Step(f[s \ {Reader!Max(s)}], Reader!Max(s))
      <4>1. f = [x \in SUBSET (1..(k - 1)) |->
                   IF x = {} THEN Good(<<>>)
                   ELSE Step(f[x \ {Reader!Max(x)}], Reader!Max(x))]
        BY <1>0, <1>5
      <4> QED BY <3>1, <4>1
    <3>4. s # {} => g[s \ {Reader!Max(s)}] = f[s \ {Reader!Max(s)}]
      <4>1. s \ {Reader!Max(s)} \in SUBSET (1..k) /\ k \notin s \ {Reader!Max(s)}
        BY <2>2
      <4> QED BY <4>1
    <3> QED BY <3>2, <3>3, <3>4
  <2> QED BY <2>1, <2>2
<1>7. g = [s \in SUBSET (1..k) |->
             IF s = {} THEN Good(<<>>)
             ELSE Step(g[s \ {Reader!Max(s)}], Reader!Max(s))]
  <2> DEFINE h == [s \in SUBSET (1..k) |->
                     IF s = {} THEN Good(<<>>)
                     ELSE Step(g[s \ {Reader!Max(s)}], Reader!Max(s))]
  <2>1. \A s \in SUBSET (1..k) : g[s] = h[s]
    BY <1>6
  <2>2. g = [s \in SUBSET (1..k) |-> g[s]] /\ h = [s \in SUBSET (1..k) |-> h[s]]
    OBVIOUS
  <2> HIDE DEF g, h
  <2>3. g = h
    BY <2>1, <2>2
  <2> QED BY <2>3 DEF h
<1>8. IsReading(g, k, file, recovering, order)
  BY <1>0, <1>7
<1> QED BY <1>2, <1>8

LEMMA ReadingIs ==
  ASSUME NEW k \in Nat, NEW file, NEW recovering, NEW order, DOMAIN order = 1..k
  PROVE  \E f : /\ Reader!DecodeAll(file, order, recovering) = f[1..k]
                /\ f[1..0] = Good(<<>>)
                /\ \A i \in 1..k :
                     f[1..i] = ReadStep(file, recovering, f[1..(i - 1)], order[i])
<1> DEFINE f == CHOOSE f : IsReading(f, k, file, recovering, order)
<1>1. IsReading(f, k, file, recovering, order)
  BY ReadingExists
<1>2. Reader!DecodeAll(file, order, recovering) = f[1..k]
  BY DEF Reader!DecodeAll, Reader!FoldLeft, Reader!MapThenFoldSet, IsReading, ReadStep,
         Good
<1> HIDE DEF f
<1>3. f[1..0] = Good(<<>>)
  <2>1. 1..0 = {} /\ {} \in SUBSET (1..k)
    OBVIOUS
  <2> QED BY <1>1, <2>1 DEF IsReading
<1>4. ASSUME NEW i \in 1..k
      PROVE  f[1..i] = ReadStep(file, recovering, f[1..(i - 1)], order[i])
  <2>1. i \in Nat \ {0} /\ 1..i # {} /\ 1..i \in SUBSET (1..k)
    <3>1. i \in Nat \ {0} /\ i \in 1..i
      OBVIOUS
    <3>2. \A x \in 1..i : x \in 1..k
      OBVIOUS
    <3> QED BY <3>1, <3>2
  <2>2. f[1..i] = ReadStep(file, recovering, f[(1..i) \ {Reader!Max(1..i)}],
                           order[Reader!Max(1..i)])
    BY <1>1, <2>1 DEF IsReading
  <2> QED BY <2>1, <2>2, MaxOfRun
<1> QED BY <1>2, <1>3, <1>4

----------------------------------------------------------------------------
(* Reading a run gives the log from where it starts.                        *)

LEMMA ReadsChunk ==
  ASSUME NEW file, NEW recovering \in BOOLEAN, NEW slot, NEW items, NEW part,
         NEW t, NEW k, NEW m,
         Reader!DecodeChunk(file.chunks[slot]) = Context(t, k, m, part),
         recovering \/ Reader!CountsMatch(file.chunks[slot], part)
  PROVE  ReadStep(file, recovering, Good(items), slot) = Good(items \o part)
<1> DEFINE decoded == Reader!DecodeChunk(file.chunks[slot])
           counts == Reader!CountsMatch(file.chunks[slot], part)
<1>1. decoded.ok = TRUE /\ decoded.items = part
  BY DEF Context
<1>2. (recovering \/ (decoded.ok /\ counts)) = TRUE /\ (~decoded.ok) = FALSE
  BY <1>1
<1>3. ReadStep(file, recovering, Good(items), slot) =
        [ok |-> recovering \/ (decoded.ok /\ counts), stopped |-> ~decoded.ok,
         items |-> items \o part]
  BY <1>1 DEF ReadStep, Good
<1> HIDE DEF decoded, counts
<1> QED BY <1>2, <1>3 DEF Good

Vouched(ch) ==
  \A s \in Reader!Published(ch) :
    LET c == ch[s]
    IN  Reader!CountsMatch(c, Part(log, c.before.items, Len(c.items)))

LEMMA ReadsRun ==
  ASSUME NEW file, NEW lo, NEW hi, NEW first, Run(file.chunks, lo, hi, first),
         NEW order, InSequence(order, file.chunks, lo, hi - lo),
         NEW recovering \in BOOLEAN,
         recovering \/ Vouched(file.chunks)
  PROVE  Reader!DecodeAll(file, order, recovering) = Good(LogFrom(first))
<1> DEFINE ch == file.chunks
           P == Reader!Published(ch)
           n == hi - lo
           c(i) == ch[order[i]]
           at(i) == IF i = 0 THEN first ELSE EndsAt(c(i))
<1>1. /\ lo \in Nat /\ hi \in Nat /\ lo <= hi /\ n \in Nat /\ hi = lo + n
      /\ first \in Nat /\ Len(log) \in Int /\ first <= Len(log)
      /\ n = 0 => first = Len(log)
  <2>1. /\ lo \in Nat /\ hi \in Nat /\ lo <= hi /\ first \in 0..Len(log)
        /\ lo = hi => first = Len(log)
    BY DEF Run
  <2>2. Len(log) \in Int
    BY <2>1
  <2> QED BY <2>1, <2>2
<1>2. /\ \A i \in 1..n : order[i] \in P /\ c(i).sequence = lo + i - 1
      /\ DOMAIN order = 1..n
  BY DEF InSequence
<1>3. PICK f : /\ Reader!DecodeAll(file, order, recovering) = f[1..n]
               /\ f[1..0] = Good(<<>>)
               /\ \A i \in 1..n :
                    f[1..i] = ReadStep(file, recovering, f[1..(i - 1)], order[i])
  <2>1. n \in Nat /\ DOMAIN order = 1..n
    BY <1>1, <1>2
  <2> HIDE DEF n
  <2> QED BY <2>1, ReadingIs
<1>4. ASSUME NEW i \in 1..n
      PROVE  /\ c(i) \in Chunk /\ Holds(c(i), log)
             /\ c(i).before.items = at(i - 1)
             /\ i = n => at(i) = Len(log)
  <2>1. order[i] \in P /\ c(i).sequence = lo + i - 1
    BY <1>2
  <2>2. /\ c(i) \in Chunk /\ Holds(c(i), log)
        /\ c(i).sequence = lo => c(i).before.items = first
        /\ c(i).sequence = hi - 1 => EndsAt(c(i)) = Len(log)
    BY <2>1 DEF Run
  <2>3. i = n => at(i) = Len(log)
    <3> SUFFICES ASSUME i = n PROVE at(i) = Len(log)
      OBVIOUS
    <3>1. lo + i - 1 = hi - 1 /\ i # 0
      BY <1>1
    <3> QED BY <2>1, <2>2, <3>1
  <2>4. c(i).before.items = at(i - 1)
    <3>1. CASE i = 1
      <4>1. lo + i - 1 = lo /\ i - 1 = 0
        BY <1>1, <3>1
      <4> QED BY <2>1, <2>2, <4>1
    <3>2. CASE i # 1
      <4>1. i - 1 \in 1..n /\ i - 1 # 0
        BY <1>1, <3>2
      <4>2. order[i - 1] \in P /\ c(i - 1).sequence = lo + (i - 1) - 1
        BY <1>2, <4>1
      <4>3. lo + i - 1 = (lo + (i - 1) - 1) + 1
        BY <1>1
      <4>4. c(i).sequence = c(i - 1).sequence + 1
        BY <2>1, <4>2, <4>3
      <4>5. \A s, t \in P : ch[t].sequence = ch[s].sequence + 1 =>
                              ch[t].before.items = EndsAt(ch[s])
        BY DEF Run
      <4>6. c(i).before.items = EndsAt(c(i - 1))
        BY <2>1, <4>2, <4>4, <4>5
      <4> QED BY <4>1, <4>6
    <3> QED BY <3>1, <3>2
  <2> QED BY <2>2, <2>3, <2>4
<1> DEFINE ReadTo(i) == at(i) \in Nat /\ first <= at(i)
                         /\ f[1..i] = Good(Part(log, first, at(i) - first))
           S == {i \in 0..n : ~ReadTo(i)}
<1>5. S = {}
  <2> SUFFICES ASSUME S # {} PROVE FALSE
    OBVIOUS
  <2>1. PICK i \in S : \A j \in S : i <= j
    <3>1. S \in SUBSET Nat
      BY <1>1
    <3> HIDE DEF S
    <3> QED BY <3>1, Least
  <2>2. i \in 0..n /\ ~ReadTo(i)
    OBVIOUS
  <2>3. i # 0
    <3> SUFFICES ASSUME i = 0 PROVE ReadTo(i)
      BY <2>2
    <3>1. at(i) = first /\ at(i) - first = 0
      BY <1>1
    <3>2. Part(log, first, 0) = <<>>
      BY DEF Part
    <3> QED BY <1>1, <1>3, <3>1, <3>2
  <2>4. i \in 1..n /\ i - 1 \in 0..n /\ i - 1 < i /\ i \in Int
    BY <1>1, <2>2, <2>3
  <2>5. ReadTo(i - 1)
    <3>1. i - 1 \notin S
      BY <2>1, <2>4
    <3> QED BY <2>4, <3>1
  <2> DEFINE b == at(i - 1)
             e == Len(c(i).items)
  <2>6. /\ c(i) \in Chunk /\ Holds(c(i), log) /\ c(i).before.items = b
        /\ b \in Nat /\ first <= b /\ f[1..(i - 1)] = Good(Part(log, first, b - first))
    <3>1. c(i) \in Chunk /\ Holds(c(i), log) /\ c(i).before.items = b
      BY <1>4, <2>4, Zenon
    <3>2. /\ b \in Nat /\ first <= b
          /\ f[1..(i - 1)] = Good(Part(log, first, b - first))
      BY <2>5, Zenon
    <3> QED BY <3>1, <3>2, Zenon
  <2>7. e \in Nat /\ at(i) = b + e
    <3>1. c(i).items \in Seq(WireRecord)
      BY <2>6 DEF Chunk
    <3>2. i # 0 /\ at(i) = EndsAt(c(i))
      BY <2>4
    <3>3. EndsAt(c(i)) = b + e
      BY <2>6, Zenon DEF EndsAt
    <3> QED BY <3>1, <3>2, <3>3
  <2>8. PICK t, k, m : Reader!DecodeChunk(c(i)) = Context(t, k, m, Part(log, b, e))
    BY <2>6 DEF Holds
  <2>9. recovering \/ Reader!CountsMatch(c(i), Part(log, b, e))
    <3>1. order[i] \in P
      BY <1>2, <2>4
    <3> QED BY <2>6, <3>1 DEF Vouched
  <2>10. ReadStep(file, recovering, Good(Part(log, first, b - first)), order[i]) =
           Good(Part(log, first, b - first) \o Part(log, b, e))
    <3> DEFINE slot == order[i]
               part == Part(log, b, e)
               items == Part(log, first, b - first)
    <3>1. /\ Reader!DecodeChunk(file.chunks[slot]) = Context(t, k, m, part)
          /\ recovering \/ Reader!CountsMatch(file.chunks[slot], part)
      BY <2>8, <2>9
    <3> HIDE DEF slot, part, items
    <3>2. ReadStep(file, recovering, Good(items), slot) = Good(items \o part)
      BY <3>1, ReadsChunk
    <3> QED BY <3>2 DEF slot, part, items
  <2>11. f[1..i] = Good(Part(log, first, b - first) \o Part(log, b, e))
    BY <1>3, <2>4, <2>6, <2>10
  <2> DEFINE d == b - first
             a == at(i)
  <2>12. /\ d \in Nat /\ first + d = b /\ e \in Nat /\ a = b + e
    BY <1>1, <2>6, <2>7
  <2>13. f[1..i] = Good(Part(log, first, d) \o Part(log, first + d, e))
    BY <2>11, <2>12
  <2>15. \/ at(i) \notin Nat \/ ~(first <= at(i))
         \/ f[1..i] # Good(Part(log, first, at(i) - first))
    BY <2>2
  <2>16. a \notin Nat \/ ~(first <= a) \/ f[1..i] # Good(Part(log, first, a - first))
    BY <2>15
  <2> HIDE DEF b, e, d, a
  <2>14. first \in Nat /\ d \in Nat /\ e \in Nat
    BY <1>1, <2>12
  <2>17. f[1..i] = Good(Part(log, first, d + e))
    BY <2>13, <2>14, PartConcat, Zenon
  <2>18. a \in Nat /\ first <= a /\ a - first = d + e
    BY <1>1, <2>12
  <2> QED BY <2>16, <2>17, <2>18
<1>6. ReadTo(n)
  BY <1>1, <1>5
<1>7. at(n) = Len(log)
  <2>1. CASE n = 0
    BY <1>1, <2>1
  <2>2. CASE n # 0
    <3>1. n \in 1..n
      BY <1>1, <2>2
    <3> QED BY <1>4, <3>1
  <2> QED BY <2>1, <2>2
<1>8. f[1..n] = Good(Part(log, first, Len(log) - first))
  BY <1>6, <1>7
<1>9. Part(log, first, Len(log) - first) = LogFrom(first)
  BY DEF Part, LogFrom
<1> QED BY <1>3, <1>8, <1>9

----------------------------------------------------------------------------
(* The chunks of a ring are a run, and so are those an interrupted start    *)
(* of a chunk leaves.                                                       *)

LEMMA AgeOnto ==
  ASSUME current_chunk \in Slots
  PROVE  /\ \A a \in 0..(ChunkCount - 1) : \E slot \in Slots : Age(slot) = a
         /\ \A s, t \in Slots : Age(s) = Age(t) => s = t
<1>1. ASSUME NEW a \in 0..(ChunkCount - 1) PROVE \E slot \in Slots : Age(slot) = a
  <2>1. CASE a <= current_chunk
    <3>1. current_chunk - a \in Slots /\ Age(current_chunk - a) = a
      BY <2>1, WriterAssumption DEF Slots, Age
    <3> QED BY <3>1
  <2>2. CASE ~(a <= current_chunk)
    <3>1. /\ current_chunk - a + ChunkCount \in Slots
          /\ Age(current_chunk - a + ChunkCount) = a
      BY <2>2, WriterAssumption DEF Slots, Age
    <3> QED BY <3>1
  <2> QED BY <2>1, <2>2
<1>2. ASSUME NEW s \in Slots, NEW t \in Slots, Age(s) = Age(t) PROVE s = t
  BY <1>2, WriterAssumption DEF Slots, Age
<1> QED BY <1>1, <1>2

(* Which slots of the ring are published, and where the oldest starts.      *)
LEMMA RingShape ==
  ASSUME KeepInv, current_chunk # NoChunk
  PROVE  /\ current_chunk \in Slots /\ next_sequence \in Nat /\ next_sequence >= 1
         /\ valid_chunks \in 1..ChunkCount /\ valid_chunks <= next_sequence
         /\ \A s \in Slots : chunks[s].magic <=> Age(s) < valid_chunks
         /\ \A s \in Slots : Age(s) < valid_chunks =>
              /\ Kept(chunks[s], log)
              /\ chunks[s].sequence = next_sequence - 1 - Age(s)
              /\ s = current_chunk => EndsAt(chunks[s]) = Len(log)
              /\ s # current_chunk => EndsAt(chunks[s]) = chunks[Successor(s)].before.items
<1>1. TypeOK /\ RingKeepsNewest /\ FirstChunkFirst /\ Ledger /\ Kepts
  BY DEF KeepInv, RingInv
<1>2. current_chunk \in Slots /\ next_sequence \in Nat /\ next_sequence # 0
  BY <1>1 DEF TypeOK, FirstChunkFirst
<1>3. valid_chunks \in 1..ChunkCount /\ valid_chunks <= next_sequence
  BY <1>1, <1>2, WriterAssumption DEF RingKeepsNewest
<1>4. ASSUME NEW s \in Slots PROVE chunks[s].magic <=> Age(s) < valid_chunks
  <2>1. IF Live(s) THEN chunks[s].magic ELSE chunks[s] = EmptyChunk
    BY <1>1 DEF RingKeepsNewest
  <2>2. Live(s) <=> Age(s) < valid_chunks
    BY DEF Live
  <2>3. EmptyChunk.magic = FALSE
    BY DEF EmptyChunk
  <2> QED BY <2>1, <2>2, <2>3
<1>5. ASSUME NEW s \in Slots, Age(s) < valid_chunks
      PROVE  /\ Kept(chunks[s], log)
             /\ chunks[s].sequence = next_sequence - 1 - Age(s)
             /\ s = current_chunk => EndsAt(chunks[s]) = Len(log)
             /\ s # current_chunk => EndsAt(chunks[s]) = chunks[Successor(s)].before.items
  <2>1. Live(s) /\ chunks[s].magic
    BY <1>4, <1>5 DEF Live
  <2>2. Kept(chunks[s], log) /\ chunks[s].sequence = next_sequence - 1 - Age(s)
    BY <1>1, <2>1 DEF Kepts, RingKeepsNewest
  <2>3. EndOf(chunks[s]) = IF s = current_chunk THEN Here ELSE chunks[Successor(s)].before
    BY <1>1, <2>1 DEF Ledger
  <2>4. EndOf(chunks[s]).items = EndsAt(chunks[s]) /\ Here.items = Len(log)
    BY DEF EndOf, EndsAt, Here
  <2> QED BY <2>2, <2>3, <2>4
<1> QED BY <1>2, <1>3, <1>4, <1>5

(* The slot of the oldest chunk.                                            *)
LEMMA OldestIs ==
  ASSUME KeepInv, FirstLap, current_chunk # NoChunk
  PROVE  Oldest \in Slots /\ Age(Oldest) = valid_chunks - 1
<1>1. /\ current_chunk \in Slots /\ next_sequence \in Nat /\ next_sequence >= 1
      /\ valid_chunks \in 1..ChunkCount
  BY RingShape
<1>2. valid_chunks = IF next_sequence < ChunkCount THEN next_sequence ELSE ChunkCount
  BY DEF KeepInv, RingInv, RingKeepsNewest
<1>3. CASE valid_chunks < ChunkCount
  <2>1. valid_chunks = next_sequence /\ next_sequence \in 1..ChunkCount /\ Oldest = 0
    BY <1>1, <1>2, <1>3, WriterAssumption DEF Oldest
  <2>2. current_chunk = next_sequence - 1
    BY <2>1 DEF FirstLap
  <2>3. 0 \in Slots /\ Age(0) = current_chunk
    BY <1>1, WriterAssumption DEF Slots, Age
  <2> QED BY <2>1, <2>2, <2>3
<1>4. CASE ~(valid_chunks < ChunkCount)
  <2>1. valid_chunks = ChunkCount /\ Oldest = NextSlot
    BY <1>1, <1>4, WriterAssumption DEF Oldest
  <2>2. NextSlot \in Slots /\ Age(NextSlot) = ChunkCount - 1
    <3>1. NextSlot \in Slots
      BY NextSlotType DEF KeepInv, RingInv
    <3> QED BY <1>1, <3>1, AgeFacts
  <2> QED BY <2>1, <2>2
<1> QED BY <1>3, <1>4

LEMMA LiveRun ==
  ASSUME KeepInv, FirstLap
  PROVE  Run(chunks, next_sequence - valid_chunks, next_sequence, StartOf(Oldest))
<1> DEFINE lo == next_sequence - valid_chunks
           hi == next_sequence
           first == StartOf(Oldest)
           P == Reader!Published(chunks)
<1>1. TypeOK /\ DOMAIN chunks = Slots /\ FirstChunkFirst /\ RingKeepsNewest /\ Len(log) \in Nat
  BY DEF KeepInv, RingInv, TypeOK
<1>2. P = {s \in Slots : chunks[s].magic}
  BY <1>1 DEF Reader!Published
<1>3. CASE current_chunk = NoChunk
  <2>1. next_sequence = 0 /\ Len(log) = 0 /\ valid_chunks = 0
    BY <1>1, <1>3, WriterAssumption DEF FirstChunkFirst, RingKeepsNewest
  <2>2. \A s \in Slots : chunks[s] = EmptyChunk
    BY <1>1, <1>3 DEF RingKeepsNewest, Live
  <2>3. P = {}
    BY <1>2, <2>2 DEF EmptyChunk
  <2>4. first = 0
    <3>1. Oldest \in Slots
      <4>1. Oldest = 0
        BY <2>1, WriterAssumption DEF Oldest
      <4> QED BY <4>1, WriterAssumption DEF Slots
    <3> QED BY <2>2, <3>1 DEF StartOf, EmptyChunk
  <2>5. lo = 0 /\ hi = 0 /\ 0..(hi - 1) = {}
    BY <2>1
  <2> HIDE DEF lo, hi, first, P
  <2>6. Run(chunks, lo, hi, first)
    BY <1>1, <2>1, <2>3, <2>4, <2>5 DEF Run, P
  <2> QED BY <2>6 DEF lo, hi, first
<1>4. CASE current_chunk # NoChunk
  <2>1. /\ current_chunk \in Slots /\ next_sequence \in Nat /\ next_sequence >= 1
        /\ valid_chunks \in 1..ChunkCount /\ valid_chunks <= next_sequence
        /\ \A s \in Slots : chunks[s].magic <=> Age(s) < valid_chunks
        /\ \A s \in Slots : Age(s) < valid_chunks =>
             /\ Kept(chunks[s], log)
             /\ chunks[s].sequence = next_sequence - 1 - Age(s)
             /\ s = current_chunk => EndsAt(chunks[s]) = Len(log)
             /\ s # current_chunk => EndsAt(chunks[s]) = chunks[Successor(s)].before.items
    BY <1>4, RingShape
  <2>2. Oldest \in Slots /\ Age(Oldest) = valid_chunks - 1
    BY <1>4, OldestIs
  <2>3. lo \in Nat /\ hi \in Nat /\ lo <= hi /\ lo # hi
    BY <2>1
  <2>4. /\ Oldest \in P /\ first = chunks[Oldest].before.items
        /\ first \in 0..Len(log)
    <3>1. Age(Oldest) < valid_chunks
      BY <2>1, <2>2
    <3>2. chunks[Oldest].magic /\ Kept(chunks[Oldest], log)
      BY <2>1, <2>2, <3>1
    <3>3. first = chunks[Oldest].before.items
      BY <3>2 DEF StartOf
    <3>4. chunks[Oldest] \in Chunk
      BY <1>1, <2>2 DEF TypeOK
    <3>5. /\ chunks[Oldest].before.items \in Nat /\ Len(chunks[Oldest].items) \in Nat
          /\ chunks[Oldest].before.items + Len(chunks[Oldest].items) <= Len(log)
      BY <3>2, <3>4, ChunkFields DEF Kept, Holds
    <3>6. first \in 0..Len(log)
      <4> DEFINE x == chunks[Oldest].before.items
                 y == Len(chunks[Oldest].items)
      <4>1. x \in Nat /\ y \in Nat /\ x + y <= Len(log)
        BY <3>5
      <4> HIDE DEF x, y
      <4>2. x \in 0..Len(log)
        BY <1>1, <4>1
      <4> QED BY <3>3, <4>2 DEF x
    <3> QED BY <1>2, <2>2, <3>2, <3>3, <3>6
  <2>5. ASSUME NEW s \in P
        PROVE  /\ s \in Slots /\ Age(s) \in 0..(valid_chunks - 1)
               /\ chunks[s].sequence = hi - 1 - Age(s)
               /\ chunks[s] \in Chunk /\ Holds(chunks[s], log)
    <3>1. s \in Slots /\ Age(s) < valid_chunks /\ Age(s) \in 0..(ChunkCount - 1)
      BY <1>2, <2>1, AgeFacts
    <3>2. Age(s) \in 0..(valid_chunks - 1)
      BY <2>1, <3>1
    <3>3. chunks[s] \in Chunk
      BY <1>1, <3>1 DEF TypeOK
    <3>4. Kept(chunks[s], log) /\ chunks[s].sequence = hi - 1 - Age(s)
      BY <2>1, <3>1
    <3> QED BY <3>1, <3>2, <3>3, <3>4 DEF Kept
  <2>6. ASSUME NEW s \in P
        PROVE  /\ chunks[s].sequence \in lo..(hi - 1)
               /\ chunks[s].sequence = lo => chunks[s].before.items = first
               /\ chunks[s].sequence = hi - 1 => EndsAt(chunks[s]) = Len(log)
    <3> DEFINE a == Age(s)
               q == chunks[s].sequence
    <3>1. a \in 0..(valid_chunks - 1) /\ q = hi - 1 - a /\ s \in Slots
      BY <2>5
    <3> HIDE DEF a, q
    <3>2. /\ q \in lo..(hi - 1)
          /\ q = lo => a = valid_chunks - 1
          /\ q = hi - 1 => a = 0
      BY <2>1, <3>1
    <3>3. q = lo => chunks[s].before.items = first
      <4> SUFFICES ASSUME q = lo PROVE chunks[s].before.items = first
        OBVIOUS
      <4>0. a = valid_chunks - 1
        BY <3>2, Zenon
      <4>1. Age(s) = Age(Oldest)
        BY <2>2, <4>0 DEF a
      <4>2. s = Oldest
        BY <2>1, <2>2, <3>1, <4>1, AgeOnto
      <4> QED BY <2>4, <4>2
    <3>4. q = hi - 1 => EndsAt(chunks[s]) = Len(log)
      <4> SUFFICES ASSUME q = hi - 1 PROVE EndsAt(chunks[s]) = Len(log)
        OBVIOUS
      <4>1. Age(s) = 0
        BY <3>2 DEF a
      <4>2. s = current_chunk
        BY <2>1, <3>1, <4>1, AgeFacts
      <4>3. Age(s) < valid_chunks
        <5>1. 0 < valid_chunks
          BY <2>1
        <5> QED BY <4>1, <5>1
      <4> QED BY <2>1, <3>1, <4>2, <4>3
    <3>5. q \in lo..(hi - 1)
      BY <3>2
    <3> QED BY <3>3, <3>4, <3>5, Zenon DEF q
  <2>7. ASSUME NEW s \in P, NEW t \in P
        PROVE  /\ chunks[s].sequence = chunks[t].sequence => s = t
               /\ chunks[t].sequence = chunks[s].sequence + 1 =>
                    chunks[t].before.items = EndsAt(chunks[s])
    <3> DEFINE a == Age(s)
               b == Age(t)
               q == chunks[s].sequence
               r == chunks[t].sequence
    <3>1. /\ a \in 0..(valid_chunks - 1) /\ q = hi - 1 - a /\ s \in Slots
          /\ b \in 0..(valid_chunks - 1) /\ r = hi - 1 - b /\ t \in Slots
      BY <2>5
    <3> HIDE DEF a, b, q, r
    <3>2. a \in Int /\ b \in Int /\ hi \in Int /\ a < valid_chunks
      BY <2>1, <3>1
    <3>3. q = r => a = b
      BY <3>1, <3>2
    <3>4. r = q + 1 => b = a - 1 /\ a # 0
      BY <3>1, <3>2
    <3>5. a = b => s = t
      BY <2>1, <3>1, AgeOnto DEF a, b
    <3>6. r = q + 1 => chunks[t].before.items = EndsAt(chunks[s])
      <4> SUFFICES ASSUME r = q + 1 PROVE chunks[t].before.items = EndsAt(chunks[s])
        OBVIOUS
      <4>1. s # current_chunk
        BY <2>1, <3>1, <3>4, AgeFacts DEF a
      <4>2. Successor(s) \in Slots /\ Age(Successor(s)) = Age(s) - 1
        BY <2>1, <3>1, <4>1, AgeFacts
      <4>3. Age(t) = Age(Successor(s))
        BY <3>4, <4>2 DEF a, b
      <4>4. t = Successor(s)
        BY <2>1, <3>1, <4>2, <4>3, AgeOnto
      <4>5. Age(s) < valid_chunks
        BY <3>2 DEF a
      <4> QED BY <2>1, <3>1, <4>1, <4>4, <4>5
    <3> QED BY <3>3, <3>5, <3>6 DEF q, r
  <2>8. ASSUME NEW q \in lo..(hi - 1)
        PROVE  \E s \in P : chunks[s].sequence = q
    <3> DEFINE a == hi - 1 - q
    <3>0. hi \in Nat /\ valid_chunks \in 1..ChunkCount /\ q \in lo..(hi - 1)
      BY <2>1
    <3>1. /\ a \in 0..(ChunkCount - 1) /\ a < valid_chunks /\ hi - 1 - a = q
      BY <3>0, WriterAssumption
    <3> HIDE DEF a
    <3>2. PICK s \in Slots : Age(s) = a
      BY <2>1, <3>1, AgeOnto
    <3>3. s \in P /\ chunks[s].sequence = hi - 1 - a
      BY <1>2, <2>1, <3>1, <3>2
    <3> QED BY <3>1, <3>3
  <2> HIDE DEF lo, hi, first, P
  <2>9. Run(chunks, lo, hi, first)
    BY <1>1, <2>3, <2>4, <2>5, <2>6, <2>7, <2>8 DEF Run, P
  <2> QED BY <2>9 DEF lo, hi, first
<1> QED BY <1>3, <1>4

(* A run without its oldest chunk, and with a fresh one after its newest.   *)
LEMMA RunWithout ==
  ASSUME NEW ch, NEW lo, NEW hi, NEW first, Run(ch, lo, hi, first), Len(log) \in Nat,
         NEW o \in Reader!Published(ch), ch[o].sequence = lo
  PROVE  Run([ch EXCEPT ![o] = EmptyChunk], lo + 1, hi, EndsAt(ch[o]))
<1> DEFINE new == [ch EXCEPT ![o] = EmptyChunk]
           P == Reader!Published(ch)
           Q == Reader!Published(new)
           e == EndsAt(ch[o])
           m == lo + 1
<1>1. DOMAIN ch = Slots /\ o \in Slots
  BY DEF Run, Reader!Published
<1>2. DOMAIN new = Slots /\ Q = P \ {o} /\ \A s \in Q : new[s] = ch[s]
  <2>1. /\ DOMAIN new = Slots /\ new[o] = EmptyChunk
        /\ \A s \in Slots : s # o => new[s] = ch[s]
    BY <1>1
  <2>2. EmptyChunk.magic = FALSE
    BY DEF EmptyChunk
  <2>3. Q = P \ {o}
    <3> HIDE DEF new
    <3> QED BY <1>1, <2>1, <2>2 DEF Reader!Published
  <2>4. P \subseteq Slots
    BY <1>1 DEF Reader!Published
  <2> HIDE DEF new, P, Q
  <2> QED BY <2>1, <2>3, <2>4
<1>3. lo \in Nat /\ hi \in Nat /\ lo \in lo..(hi - 1)
  BY DEF Run
<1>4. /\ m \in Nat /\ m <= hi
      /\ m = hi => lo = hi - 1
      /\ \A q \in lo..(hi - 1) : q # lo => q \in m..(hi - 1)
      /\ \A q \in m..(hi - 1) : q \in lo..(hi - 1) /\ q # lo
  BY <1>3
<1>5. e \in 0..Len(log) /\ (m = hi => e = Len(log))
  <2>1. ch[o] \in Chunk /\ Holds(ch[o], log) /\ (lo = hi - 1 => e = Len(log))
    BY DEF Run
  <2>2. /\ ch[o].before.items \in Nat /\ Len(ch[o].items) \in Nat
        /\ ch[o].before.items + Len(ch[o].items) <= Len(log)
    BY <2>1, ChunkFields DEF Holds
  <2>3. e \in 0..Len(log)
    BY <2>2 DEF EndsAt
  <2> QED BY <1>4, <2>1, <2>3
<1>6. ASSUME NEW s \in Q
      PROVE  /\ new[s] \in Chunk /\ Holds(new[s], log) /\ new[s].sequence \in m..(hi - 1)
             /\ new[s].sequence = m => new[s].before.items = e
             /\ new[s].sequence = hi - 1 => EndsAt(new[s]) = Len(log)
  <2>1. s \in P /\ s # o /\ new[s] = ch[s]
    BY <1>2
  <2>2. /\ ch[s] \in Chunk /\ Holds(ch[s], log) /\ ch[s].sequence \in lo..(hi - 1)
        /\ ch[s].sequence = hi - 1 => EndsAt(ch[s]) = Len(log)
    BY <2>1 DEF Run
  <2>3. /\ ch[s].sequence # lo
        /\ ch[s].sequence = m => ch[s].before.items = e
    BY <2>1 DEF Run
  <2> QED BY <1>4, <2>1, <2>2, <2>3
<1>7. ASSUME NEW s \in Q, NEW t \in Q
      PROVE  /\ new[s].sequence = new[t].sequence => s = t
             /\ new[t].sequence = new[s].sequence + 1 =>
                  new[t].before.items = EndsAt(new[s])
  <2>1. s \in P /\ t \in P /\ new[s] = ch[s] /\ new[t] = ch[t]
    BY <1>2
  <2> HIDE DEF new, Q
  <2> QED BY <2>1 DEF Run
<1>8. ASSUME NEW q \in m..(hi - 1)
      PROVE  \E s \in Q : new[s].sequence = q
  <2>1. q \in lo..(hi - 1) /\ q # lo
    BY <1>4
  <2>2. PICK s \in P : ch[s].sequence = q
    BY <2>1 DEF Run
  <2>3. s \in Q
    BY <1>2, <2>1, <2>2
  <2> QED BY <1>2, <2>2, <2>3
<1> HIDE DEF new, Q, e, m
<1>9. Run(new, m, hi, e)
  BY <1>2, <1>3, <1>4, <1>5, <1>6, <1>7, <1>8 DEF Run, Q
<1> QED BY <1>9 DEF new, e, m

LEMMA RunWith ==
  ASSUME NEW ch, NEW lo, NEW hi, NEW first, Run(ch, lo, hi, first), Len(log) \in Nat,
         NEW u \in Slots, u \notin Reader!Published(ch),
         NEW g, NEW base, NEW f, IsFresh(f, g, base), next_sequence = hi
  PROVE  Run([ch EXCEPT ![u] = f], lo, hi + 1, first)
<1> DEFINE new == [ch EXCEPT ![u] = f]
           P == Reader!Published(ch)
           Q == Reader!Published(new)
           m == hi + 1
<1>1. /\ f \in Chunk /\ f.magic = TRUE /\ f.sequence = hi /\ Holds(f, log)
      /\ f.before.items = Len(log) /\ EndsAt(f) = Len(log)
  BY DEF IsFresh, EndsAt
<1>2. /\ DOMAIN new = Slots /\ new[u] = f /\ Q = P \union {u}
      /\ \A s \in Slots : s # u => new[s] = ch[s]
  <2>1. DOMAIN ch = Slots
    BY DEF Run
  <2>2. /\ DOMAIN new = Slots /\ new[u] = f
        /\ \A s \in Slots : s # u => new[s] = ch[s]
    BY <2>1
  <2>3. Q = P \union {u}
    <3> HIDE DEF new
    <3> QED BY <1>1, <2>1, <2>2 DEF Reader!Published
  <2> QED BY <2>2, <2>3
<1>3. \A s \in P : s # u /\ new[s] = ch[s]
  <2>1. P \subseteq Slots
    BY DEF Run, Reader!Published
  <2> QED BY <1>2, <2>1
<1>4. /\ lo \in Nat /\ hi \in Nat /\ lo <= hi /\ first \in 0..Len(log)
      /\ lo = hi => first = Len(log)
  BY DEF Run
<1>5. /\ m \in Nat /\ lo <= m /\ lo # m /\ m - 1 = hi /\ hi \in lo..hi
      /\ \A q \in lo..(hi - 1) : q \in lo..hi /\ q # hi /\ q + 1 # m /\ q # hi + 1
      /\ \A q \in lo..hi : q = hi \/ q \in lo..(hi - 1)
      /\ \A q \in lo..(hi - 1) : hi = q + 1 => q = hi - 1
      /\ hi # hi + 1
  BY <1>4
<1>6. ASSUME NEW s \in P
      PROVE  /\ ch[s] \in Chunk /\ Holds(ch[s], log) /\ ch[s].sequence \in lo..(hi - 1)
             /\ ch[s].sequence = lo => ch[s].before.items = first
             /\ ch[s].sequence = hi - 1 => EndsAt(ch[s]) = Len(log)
  BY DEF Run
<1>7. ASSUME NEW s \in Q
      PROVE  /\ new[s] \in Chunk /\ Holds(new[s], log) /\ new[s].sequence \in lo..(m - 1)
             /\ new[s].sequence = lo => new[s].before.items = first
             /\ new[s].sequence = m - 1 => EndsAt(new[s]) = Len(log)
  <2>1. CASE s = u
    BY <1>1, <1>2, <1>4, <1>5, <2>1
  <2>2. CASE s # u
    <3>1. s \in P /\ new[s] = ch[s]
      BY <1>2, <1>3, <2>2
    <3> QED BY <1>5, <1>6, <3>1
  <2> QED BY <2>1, <2>2
<1>8. ASSUME NEW s \in Q, NEW t \in Q
      PROVE  /\ new[s].sequence = new[t].sequence => s = t
             /\ new[t].sequence = new[s].sequence + 1 =>
                  new[t].before.items = EndsAt(new[s])
  <2>1. CASE s = u /\ t = u
    BY <1>1, <1>2, <1>5, <2>1
  <2>2. CASE s = u /\ t # u
    <3>1. t \in P /\ new[t] = ch[t] /\ new[s].sequence = hi
      BY <1>1, <1>2, <1>3, <2>2
    <3>2. ch[t].sequence \in lo..(hi - 1)
      BY <1>6, <3>1
    <3>3. ch[t].sequence # hi /\ ch[t].sequence # hi + 1
      BY <1>5, <3>2
    <3> QED BY <3>1, <3>3
  <2>3. CASE s # u /\ t = u
    <3>1. s \in P /\ new[s] = ch[s] /\ new[t].sequence = hi /\ new[t].before.items = Len(log)
      BY <1>1, <1>2, <1>3, <2>3
    <3>2. ch[s].sequence \in lo..(hi - 1)
      BY <1>6, <3>1
    <3>3. ch[s].sequence # hi
      BY <1>5, <3>2
    <3>4. hi = ch[s].sequence + 1 => ch[s].sequence = hi - 1
      BY <1>5, <3>2
    <3>5. ch[s].sequence = hi - 1 => EndsAt(ch[s]) = Len(log)
      BY <1>6, <3>1
    <3> QED BY <3>1, <3>3, <3>4, <3>5
  <2>4. CASE s # u /\ t # u
    <3>1. s \in P /\ t \in P /\ new[s] = ch[s] /\ new[t] = ch[t]
      BY <1>2, <1>3, <2>4
    <3> HIDE DEF new, Q
    <3> QED BY <3>1 DEF Run
  <2> QED BY <2>1, <2>2, <2>3, <2>4
<1>9. ASSUME NEW q \in lo..(m - 1)
      PROVE  \E s \in Q : new[s].sequence = q
  <2>1. q = hi \/ q \in lo..(hi - 1)
    BY <1>5
  <2>2. CASE q = hi
    BY <1>1, <1>2, <2>2
  <2>3. CASE q \in lo..(hi - 1)
    <3>1. PICK s \in P : ch[s].sequence = q
      BY <2>3 DEF Run
    <3> QED BY <1>2, <1>3, <3>1
  <2> QED BY <2>1, <2>2, <2>3
<1> HIDE DEF new, Q, m
<1>10. Run(new, lo, m, first)
  BY <1>2, <1>4, <1>5, <1>7, <1>8, <1>9 DEF Run, Q
<1> QED BY <1>10 DEF new, m

----------------------------------------------------------------------------
(* The counters.                                                            *)

LEMMA PartOfLog ==
  ASSUME NEW first \in 0..Len(log)
  PROVE  LogFrom(first) = Part(log, first, Len(log) - first)
BY DEF LogFrom, Part

LEMMA ChunkCountsMatch ==
  ASSUME KeepInv, NEW s \in Slots, chunks[s].magic
  PROVE  Reader!CountsMatch(chunks[s],
                            Part(log, chunks[s].before.items, Len(chunks[s].items)))
<1> DEFINE c == chunks[s]
           b == c.before.items
           e == Len(c.items)
           p == Part(log, b, e)
<1>1. /\ TypeOK /\ Ledger /\ Kepts /\ Counted /\ log \in Seq(Entry)
  BY DEF KeepInv, RingInv, TypeOK, Entry
<1>2. c \in Chunk /\ Holds(c, log)
  BY <1>1 DEF TypeOK, Kepts, Kept
<1>3. /\ b \in Nat /\ e \in Nat /\ c.before.records \in Nat /\ c.before.events \in Nat
      /\ c.records \in Nat /\ c.events \in Nat /\ c.syncs \in Nat
  <2>1. c.events \in Nat
    BY <1>2 DEF Chunk
  <2> QED BY <1>2, <2>1, ChunkFields
<1>4. /\ b + e <= Len(log) /\ c.records + c.syncs = e
      /\ c.before.records = RecordsUpTo(log, b) /\ c.before.events = EventsUpTo(log, b)
  BY <1>2 DEF Holds
<1>5. /\ RecordsUpTo(log, b + e) = RecordsUpTo(log, b) + Reader!RecordsIn(p)
      /\ EventsUpTo(log, b + e) = EventsUpTo(log, b) + Reader!EventsIn(p)
      /\ Reader!RecordsIn(p) \in Nat /\ Reader!EventsIn(p) \in Nat
  <2> HIDE DEF c, b, e
  <2> QED BY <1>1, <1>3, <1>4, PartCounts
<1>6. Live(s) /\ current_chunk \in Slots
  BY PublishedOld DEF KeepInv
<1>7. EndOf(c) = IF s = current_chunk THEN Here ELSE chunks[Successor(s)].before
  BY <1>1, <1>6 DEF Ledger
<1>8. /\ EndOf(c).items = b + e /\ EndOf(c).records = c.before.records + c.records
      /\ EndOf(c).events = c.before.events + c.events
  BY DEF EndOf
<1>9. /\ c.before.records + c.records = RecordsUpTo(log, b + e)
      /\ c.before.events + c.events = EventsUpTo(log, b + e)
  <2>1. CASE s = current_chunk
    <3>1. EndOf(c) = Here
      BY <1>7, <2>1
    <3> HIDE DEF c, b, e
    <3>2. /\ b + e = Len(log) /\ c.before.records + c.records = total_records
          /\ c.before.events + c.events = total_events
      BY <1>8, <3>1 DEF Here
    <3> QED BY <1>1, <3>2 DEF Counted
  <2>2. CASE s # current_chunk
    <3> DEFINE d == chunks[Successor(s)]
    <3>1. Successor(s) \in Slots /\ Age(Successor(s)) = Age(s) - 1 /\ Age(s) \in Int
      BY <1>6, <2>2, WriterAssumption, AgeFacts
    <3>2. Age(Successor(s)) < valid_chunks
      <4>1. valid_chunks \in Int /\ Age(s) < valid_chunks
        BY <1>1, <1>6, WriterAssumption DEF TypeOK, Live
      <4> QED BY <3>1, <4>1
    <3>3. d.magic
      BY <1>6, <3>1, <3>2, RingShape, WriterAssumption DEF Slots, NoChunk
    <3>4. Holds(d, log)
      BY <1>1, <3>1, <3>3 DEF Kepts, Kept
    <3>5. EndOf(c) = d.before
      BY <1>7, <2>2
    <3>6. /\ d.before.items = b + e /\ d.before.records = c.before.records + c.records
          /\ d.before.events = c.before.events + c.events
      BY <1>8, <3>5
    <3>7. /\ d.before.records = RecordsUpTo(log, d.before.items)
          /\ d.before.events = EventsUpTo(log, d.before.items)
      BY <3>4 DEF Holds
    <3> HIDE DEF c, d, b, e
    <3> QED BY <3>6, <3>7
  <2> QED BY <2>1, <2>2
<1>10. Len(p) = e
  <2> HIDE DEF b, e
  <2> QED BY <1>3, PartLength
<1> DEFINE x == Reader!RecordsIn(p)
           y == Reader!EventsIn(p)
           r == c.records
           v == c.events
           w == c.syncs
           m == RecordsUpTo(log, b)
           n == EventsUpTo(log, b)
<1>11. /\ m + r = m + x /\ n + v = n + y /\ r + w = e
       /\ m \in Nat /\ n \in Nat /\ r \in Nat /\ v \in Nat /\ w \in Nat
       /\ x \in Nat /\ y \in Nat /\ e \in Nat
  BY <1>3, <1>4, <1>5, <1>9
<1>12. r = x /\ v = y /\ w = e - x
  <2> HIDE DEF x, y, r, v, w, m, n, e
  <2> QED BY <1>11
<1> QED BY <1>10, <1>12 DEF Reader!CountsMatch

(* What has been overwritten is what the log holds before the oldest chunk. *)
LEMMA Overwritten ==
  ASSUME KeepInv, FirstLap
  PROVE  /\ StartOf(Oldest) \in 0..Len(log)
         /\ overwritten_records = RecordsUpTo(log, StartOf(Oldest))
         /\ overwritten_events = EventsUpTo(log, StartOf(Oldest))
<1>1. StartOf(Oldest) \in 0..Len(log)
  BY LiveRun DEF Run
<1>2. TypeOK /\ FirstChunkFirst /\ Counted /\ Ledger /\ RingKeepsNewest /\ Kepts
  BY DEF KeepInv, RingInv
<1>3. CASE current_chunk = NoChunk
  <2>1. /\ Len(log) = 0 /\ total_records = 0 /\ total_events = 0
        /\ overwritten_records = 0 /\ overwritten_events = 0
    BY <1>2, <1>3 DEF FirstChunkFirst
  <2>2. StartOf(Oldest) = Len(log)
    BY <1>1, <2>1
  <2> QED BY <1>1, <1>2, <2>1, <2>2 DEF Counted
<1>4. CASE current_chunk # NoChunk
  <2>1. Oldest \in Slots /\ Age(Oldest) = valid_chunks - 1
    BY <1>4, OldestIs
  <2>2. Age(Oldest) < valid_chunks
    <3>1. valid_chunks \in Int
      BY <1>2, WriterAssumption DEF TypeOK
    <3> QED BY <2>1, <3>1
  <2>3. Live(Oldest) /\ chunks[Oldest].magic
    BY <1>2, <1>4, <2>1, <2>2 DEF Live, RingKeepsNewest
  <2>4. /\ chunks[Oldest].before.records = overwritten_records
        /\ chunks[Oldest].before.events = overwritten_events
    BY <1>2, <2>1, <2>3 DEF Ledger
  <2>5. Holds(chunks[Oldest], log)
    BY <1>2, <2>1, <2>3 DEF Kepts, Kept
  <2>6. StartOf(Oldest) = chunks[Oldest].before.items
    BY <2>3 DEF StartOf
  <2> QED BY <1>1, <2>4, <2>5, <2>6 DEF Holds
<1> QED BY <1>3, <1>4

LEMMA Totals ==
  ASSUME KeepInv, NEW first \in 0..Len(log)
  PROVE  /\ total_records = RecordsUpTo(log, first) + Reader!RecordsIn(LogFrom(first))
         /\ total_events = EventsUpTo(log, first) + Reader!EventsIn(LogFrom(first))
         /\ Reader!RecordsIn(LogFrom(first)) \in Nat
         /\ Reader!EventsIn(LogFrom(first)) \in Nat
         /\ RecordsUpTo(log, first) \in Nat /\ EventsUpTo(log, first) \in Nat
<1> DEFINE n == Len(log) - first
<1>1. log \in Seq(Entry) /\ Counted
  BY DEF KeepInv, RingInv, TypeOK, Entry
<1>2. first \in Nat /\ n \in Nat /\ first + n = Len(log) /\ first + n <= Len(log)
  <2>1. Len(log) \in Nat
    BY <1>1
  <2> QED BY <2>1
<1>3. LogFrom(first) = Part(log, first, n)
  BY PartOfLog
<1> HIDE DEF n
<1>4. /\ RecordsUpTo(log, first + n) = RecordsUpTo(log, first) + Reader!RecordsIn(LogFrom(first))
      /\ EventsUpTo(log, first + n) = EventsUpTo(log, first) + Reader!EventsIn(LogFrom(first))
      /\ Reader!RecordsIn(LogFrom(first)) \in Nat
      /\ Reader!EventsIn(LogFrom(first)) \in Nat
      /\ RecordsUpTo(log, first) \in Nat /\ EventsUpTo(log, first) \in Nat
  BY <1>1, <1>2, <1>3, PartCounts
<1> QED BY <1>1, <1>2, <1>4 DEF Counted

----------------------------------------------------------------------------
(* Where a run that is not all of the log starts.                           *)
LEMMA FirstOfRun ==
  ASSUME NEW ch, NEW lo, NEW hi, NEW first, Run(ch, lo, hi, first), Len(log) \in Nat,
         NEW order, InSequence(order, ch, lo, hi - lo), first < Len(log)
  PROVE  /\ order # <<>> /\ ch[order[1]].sequence = lo
         /\ (lo = 0) <=> (first = 0)
<1>1. lo \in Nat /\ hi \in Nat /\ lo <= hi /\ first \in 0..Len(log) /\ lo # hi
  <2>1. /\ lo \in Nat /\ hi \in Nat /\ lo <= hi /\ first \in 0..Len(log)
        /\ lo = hi => first = Len(log)
    BY DEF Run
  <2>2. first # Len(log)
    BY <2>1
  <2> QED BY <2>1, <2>2
<1>2. 1 \in 1..(hi - lo) /\ lo + 1 - 1 = lo
  BY <1>1
<1>3. /\ order[1] \in Reader!Published(ch) /\ ch[order[1]].sequence = lo
      /\ DOMAIN order = 1..(hi - lo)
  BY <1>2 DEF InSequence
<1>4. order # <<>>
  <2>1. order = <<>> => DOMAIN order = {}
    OBVIOUS
  <2>2. DOMAIN order # {}
    BY <1>2, <1>3
  <2> QED BY <2>1, <2>2
<1>5. Holds(ch[order[1]], log) /\ ch[order[1]].before.items = first
  BY <1>3 DEF Run
<1> QED BY <1>3, <1>4, <1>5 DEF Holds

(* What a read comes to, from its parts.                                    *)
Outcome(file, strict, order, wrapped, decoded) ==
  IF /\ strict => Reader!FinalizedLayout(file, order)
     /\ decoded.ok
     /\ strict => Reader!RetainedCountsMatch(file.header, decoded.items)
     /\ Reader!ClockAccepted(decoded.items, wrapped)
  THEN [ok |-> TRUE, wrapped |-> wrapped, items |-> decoded.items]
  ELSE Reader!Bad

LEMMA RecoveryRead ==
  ASSUME NEW file, file.header.finalized = FALSE, NEW order,
         order = Reader!Contiguous(file.chunks, Reader!InOrder(file.chunks))
  PROVE  Reader!Read(file, TRUE) =
           Outcome(file, FALSE, order,
                   \/ file.header.wrapped
                   \/ order # <<>> /\ file.chunks[order[1]].sequence # 0,
                   Reader!DecodeAll(file, order, TRUE))
<1>1. (TRUE /\ ~file.header.finalized) = TRUE
  OBVIOUS
<1> QED BY <1>1 DEF Reader!Read, Outcome

LEMMA StrictRead ==
  ASSUME NEW file, file.header.finalized = TRUE, NEW order,
         order = Reader!InOrder(file.chunks), file.header.wrapped \in BOOLEAN
  PROVE  Reader!Read(file, FALSE) =
           Outcome(file, TRUE, order, file.header.wrapped,
                   Reader!DecodeAll(file, order, FALSE))
<1>1. (FALSE /\ ~file.header.finalized) = FALSE
  OBVIOUS
<1> QED BY <1>1 DEF Reader!Read, Outcome

(* A recovery read of a run gives the log from where the run starts.        *)
LEMMA Recovered ==
  ASSUME KeepInv, SyncsReach, NEW file, file.header.finalized = FALSE,
         NEW lo, NEW hi, NEW first, Run(file.chunks, lo, hi, first), Starts(first)
  PROVE  LET trace == Reader!Read(file, TRUE)
         IN  trace.ok /\ trace.items = LogFrom(first)
<1> DEFINE all == Reader!InOrder(file.chunks)
           wrapped == \/ file.header.wrapped
                      \/ all # <<>> /\ file.chunks[all[1]].sequence # 0
<1>1. InSequence(all, file.chunks, lo, hi - lo)
  BY Ordered
<1>2. lo \in Nat /\ hi - lo \in Nat /\ Len(log) \in Nat /\ first \in 0..Len(log)
  <2>1. Len(log) \in Nat
    BY DEF KeepInv, RingInv, TypeOK
  <2>2. lo \in Nat /\ hi \in Nat /\ lo <= hi /\ first \in 0..Len(log)
    BY DEF Run
  <2> QED BY <2>1, <2>2
<1>3. Reader!Contiguous(file.chunks, all) = all
  <2> DEFINE n == hi - lo
  <2>1. n \in Nat /\ InSequence(all, file.chunks, lo, n)
    BY <1>1, <1>2
  <2> HIDE DEF n, all
  <2> QED BY <1>2, <2>1, NoGap
<1>4. Reader!DecodeAll(file, all, TRUE) = Good(LogFrom(first))
  <2> HIDE DEF all
  <2>1. TRUE \in BOOLEAN /\ (TRUE \/ Vouched(file.chunks))
    OBVIOUS
  <2> QED BY <1>1, <2>1, ReadsRun
<1>5. first > 0 /\ first < Len(log) => wrapped
  <2> SUFFICES ASSUME first > 0, first < Len(log) PROVE wrapped
    OBVIOUS
  <2> HIDE DEF all
  <2>1. all # <<>> /\ file.chunks[all[1]].sequence = lo /\ ((lo = 0) <=> (first = 0))
    BY <1>1, <1>2, FirstOfRun
  <2> QED BY <1>2, <2>1
<1> HIDE DEF all, wrapped
<1>6. Reader!ClockAccepted(LogFrom(first), wrapped)
  BY <1>5, ClockPasses
<1>7. Reader!Read(file, TRUE) = [ok |-> TRUE, wrapped |-> wrapped, items |-> LogFrom(first)]
  <2>1. Reader!Read(file, TRUE) = Outcome(file, FALSE, all, wrapped, Good(LogFrom(first)))
    BY <1>3, <1>4, RecoveryRead DEF all, wrapped
  <2> QED BY <1>6, <2>1 DEF Outcome, Good
<1> DEFINE trace == Reader!Read(file, TRUE)
<1>8. trace = [ok |-> TRUE, wrapped |-> wrapped, items |-> LogFrom(first)]
  BY <1>7
<1> HIDE DEF trace
<1>9. trace.ok /\ trace.items = LogFrom(first)
  BY <1>8
<1> QED BY <1>9 DEF trace

----------------------------------------------------------------------------
(* The buffer of a program that died.                                       *)

LEMMA OldestStarts ==
  ASSUME KeepInv, FirstLap
  PROVE  /\ Starts(StartOf(Oldest)) /\ Len(log) \in Nat
         /\ current_chunk # NoChunk =>
              /\ Oldest \in Reader!Published(chunks)
              /\ chunks[Oldest].sequence = next_sequence - valid_chunks
              /\ Starts(EndsAt(chunks[Oldest]))
         /\ current_chunk = NoChunk => StartOf(Oldest) = Len(log)
<1>1. /\ TypeOK /\ FirstChunkFirst /\ RingKeepsNewest /\ Kepts /\ Len(log) \in Nat
      /\ DOMAIN chunks = Slots /\ StartOf(Oldest) \in 0..Len(log)
  BY Overwritten DEF KeepInv, RingInv, TypeOK
<1>2. CASE current_chunk = NoChunk
  <2>1. Len(log) = 0
    BY <1>1, <1>2 DEF FirstChunkFirst
  <2>2. StartOf(Oldest) = Len(log)
    BY <1>1, <2>1
  <2> QED BY <1>1, <1>2, <2>2 DEF Starts
<1>3. CASE current_chunk # NoChunk
  <2>1. Oldest \in Slots /\ Age(Oldest) = valid_chunks - 1
    BY <1>3, OldestIs
  <2>2. /\ valid_chunks \in 1..ChunkCount /\ next_sequence \in Nat
        /\ chunks[Oldest].magic <=> Age(Oldest) < valid_chunks
        /\ Age(Oldest) < valid_chunks =>
             /\ Kept(chunks[Oldest], log)
             /\ chunks[Oldest].sequence = next_sequence - 1 - Age(Oldest)
    BY <1>3, <2>1, RingShape
  <2>3. /\ chunks[Oldest].magic /\ Kept(chunks[Oldest], log)
        /\ chunks[Oldest].sequence = next_sequence - valid_chunks
    <3>1. /\ Age(Oldest) < valid_chunks
          /\ next_sequence - 1 - Age(Oldest) = next_sequence - valid_chunks
      <4>1. valid_chunks \in Int /\ next_sequence \in Int
        BY <1>1, WriterAssumption DEF TypeOK
      <4> QED BY <2>1, <4>1
    <3> QED BY <2>2, <3>1
  <2>4. Oldest \in Reader!Published(chunks)
    BY <1>1, <2>1, <2>3 DEF Reader!Published
  <2> DEFINE b == chunks[Oldest].before.items
             e == EndsAt(chunks[Oldest])
  <2>5. b \in Nat /\ e \in Nat /\ b <= e /\ e <= Len(log) /\ StartOf(Oldest) = b
    <3>1. chunks[Oldest] \in Chunk
      BY <1>1, <2>1 DEF TypeOK
    <3> DEFINE n == Len(chunks[Oldest].items)
    <3>2. b \in Nat /\ n \in Nat /\ b + n <= Len(log) /\ e = b + n
      BY <2>3, <3>1, ChunkFields DEF Kept, Holds, EndsAt
    <3>3. StartOf(Oldest) = b
      BY <2>3 DEF StartOf
    <3> HIDE DEF b, n, e
    <3> QED BY <1>1, <3>2, <3>3
  <2>6. e \in 0..Len(log)
    <3> HIDE DEF b, e
    <3> QED BY <1>1, <2>5
  <2>7. b <= b
    BY <2>5
  <2>8. Starts(e) /\ Starts(b)
    BY <1>1, <2>1, <2>3, <2>5, <2>6, <2>7 DEF Starts
  <2>9. StartOf(Oldest) = b
    BY <2>5
  <2> QED BY <1>1, <1>3, <2>3, <2>4, <2>8, <2>9
<1> QED BY <1>2, <1>3

LEMMA AbandonedRead ==
  ASSUME KeepInv, SyncsReach, FirstLap, HeaderTellsTruth
  PROVE  AbandonedReadsBack
<1> SUFFICES ASSUME ~finalized
             PROVE  LET trace == Reader!Read(File, TRUE)
                    IN  trace.ok /\ trace.items = LogFrom(StartOf(Oldest))
  BY DEF AbandonedReadsBack
<1>1. File.header.finalized = FALSE /\ File.chunks = chunks
  <2>1. header.finalized \in BOOLEAN
    BY DEF KeepInv, RingInv, TypeOK, FileHeader
  <2> QED BY <2>1 DEF File, HeaderTellsTruth
<1>2. Run(File.chunks, next_sequence - valid_chunks, next_sequence, StartOf(Oldest))
  BY <1>1, LiveRun
<1>3. Starts(StartOf(Oldest))
  BY OldestStarts
<1> QED BY <1>1, <1>2, <1>3, Recovered

(* The buffer of a program that died starting a chunk.                      *)
LEMMA InterruptedRun ==
  ASSUME KeepInv, SyncsReach, FirstLap, NEW c,
         \/ c = EmptyChunk
         \/ \E g \in Generations : c = FreshChunk(g, 0)
  PROVE  \E lo, hi : Run([chunks EXCEPT ![NextSlot] = c], lo, hi,
                         IF valid_chunks < ChunkCount THEN StartOf(Oldest)
                         ELSE EndsAt(chunks[Oldest]))
<1> DEFINE lo == next_sequence - valid_chunks
           hi == next_sequence
           first == StartOf(Oldest)
           last == EndsAt(chunks[Oldest])
           bare == [chunks EXCEPT ![NextSlot] = EmptyChunk]
<1>1. /\ TypeOK /\ FirstChunkFirst /\ RingKeepsNewest /\ NextSlot \in Slots
      /\ chunks \in [Slots -> Chunk] /\ DOMAIN chunks = Slots /\ valid_chunks \in 0..ChunkCount
  BY NextSlotType DEF KeepInv, RingInv, TypeOK
<1>2. Run(chunks, lo, hi, first)
  BY LiveRun
<1>3. Len(log) \in Nat /\ NextSlot \notin Reader!Published(bare) /\ DOMAIN bare = Slots
  <2>1. bare[NextSlot] = EmptyChunk
    BY <1>1
  <2> QED BY <1>1, <2>1, OldestStarts DEF Reader!Published, EmptyChunk
<1>4. CASE valid_chunks < ChunkCount
  <2>1. chunks[NextSlot] = EmptyChunk
    <3>1. ~Live(NextSlot)
      <4>1. CASE current_chunk = NoChunk
        BY <4>1 DEF Live
      <4>2. CASE current_chunk # NoChunk
        <5>1. current_chunk \in Slots
          BY <1>1, <4>2 DEF TypeOK
        <5>2. Age(NextSlot) = ChunkCount - 1
          BY <1>1, <5>1, AgeFacts
        <5>3. ~(Age(NextSlot) < valid_chunks)
          BY <1>1, <1>4, <5>2, WriterAssumption
        <5> QED BY <5>3 DEF Live
      <4> QED BY <4>1, <4>2
    <3> QED BY <1>1, <3>1 DEF RingKeepsNewest
  <2>2. bare = chunks
    BY <1>1, <2>1
  <2>3. CASE c = EmptyChunk
    BY <1>2, <1>4, <2>2, <2>3
  <2>4. CASE \E g \in Generations : c = FreshChunk(g, 0)
    <3>1. PICK g \in Generations : c = FreshChunk(g, 0)
      BY <2>4
    <3>2. IsFresh(c, g, 0)
      BY <3>1, KeptOfFresh, WriterAssumption DEF Stamps
    <3>3. NextSlot \notin Reader!Published(chunks)
      BY <1>3, <2>2
    <3>4. Run([chunks EXCEPT ![NextSlot] = c], lo, hi + 1, first)
      BY <1>1, <1>2, <1>3, <3>2, <3>3, RunWith
    <3> QED BY <1>4, <3>4
  <2> QED BY <2>3, <2>4
<1>5. CASE ~(valid_chunks < ChunkCount)
  <2>1. valid_chunks = ChunkCount /\ Oldest = NextSlot /\ current_chunk # NoChunk
    <3>1. valid_chunks = ChunkCount /\ valid_chunks # 0
      BY <1>1, <1>5, WriterAssumption
    <3>2. next_sequence # 0
      BY <1>1, <3>1, WriterAssumption DEF RingKeepsNewest
    <3> QED BY <1>1, <1>5, <3>1, <3>2 DEF FirstChunkFirst, Oldest
  <2>2. NextSlot \in Reader!Published(chunks) /\ chunks[NextSlot].sequence = lo
    BY <2>1, OldestStarts
  <2>3. Run(bare, lo + 1, hi, EndsAt(chunks[NextSlot]))
    BY <1>2, <1>3, <2>2, RunWithout
  <2>4. CASE c = EmptyChunk
    BY <1>5, <2>1, <2>3, <2>4
  <2>5. CASE \E g \in Generations : c = FreshChunk(g, 0)
    <3>1. PICK g \in Generations : c = FreshChunk(g, 0)
      BY <2>5
    <3>2. IsFresh(c, g, 0)
      BY <3>1, KeptOfFresh, WriterAssumption DEF Stamps
    <3>3. Run([bare EXCEPT ![NextSlot] = c], lo + 1, hi + 1, EndsAt(chunks[NextSlot]))
      BY <1>1, <1>3, <2>3, <3>2, RunWith
    <3>4. [bare EXCEPT ![NextSlot] = c] = [chunks EXCEPT ![NextSlot] = c]
      BY <1>1
    <3> QED BY <1>5, <2>1, <3>3, <3>4
  <2> QED BY <2>4, <2>5
<1> QED BY <1>4, <1>5

LEMMA FlaggedRead ==
  ASSUME KeepInv, SyncsReach, FirstLap, HeaderTellsTruth, ~finalized
  PROVE  LET trace == Reader!Read(FlaggedFile, TRUE)
         IN  trace.ok /\ trace.items = LogFrom(StartOf(Oldest))
<1>1. FlaggedFile.header.finalized = FALSE /\ FlaggedFile.chunks = chunks
  <2>1. header \in FileHeader /\ header.finalized = FALSE
    BY DEF KeepInv, RingInv, TypeOK, FileHeader, HeaderTellsTruth
  <2> QED BY <2>1 DEF FlaggedFile, Starting, FileHeader
<1>2. Run(FlaggedFile.chunks, next_sequence - valid_chunks, next_sequence, StartOf(Oldest))
  BY <1>1, LiveRun
<1>3. Starts(StartOf(Oldest))
  BY OldestStarts
<1> QED BY <1>1, <1>2, <1>3, Recovered

LEMMA InterruptedRead ==
  ASSUME KeepInv, SyncsReach, FirstLap, HeaderTellsTruth
  PROVE  InterruptedReadsBack
<1> DEFINE first == IF valid_chunks < ChunkCount THEN StartOf(Oldest)
                    ELSE EndsAt(chunks[Oldest])
           lost == IF valid_chunks < ChunkCount THEN 0
                   ELSE StartOf(Oldest) + Len(chunks[Oldest].items)
<1>1. TypeOK /\ RingKeepsNewest /\ FirstChunkFirst /\ valid_chunks \in 0..ChunkCount
  BY DEF KeepInv, RingInv, TypeOK
<1>2. lost = first /\ Starts(first)
  <2>1. CASE valid_chunks < ChunkCount
    <3>1. Starts(StartOf(Oldest))
      BY OldestStarts
    <3>2. StartOf(Oldest) = 0
      <4>1. CASE current_chunk = NoChunk
        BY <1>1, <4>1, OldestStarts DEF FirstChunkFirst
      <4>2. CASE current_chunk # NoChunk
        <5>1. /\ Oldest \in Reader!Published(chunks)
              /\ chunks[Oldest].sequence = next_sequence - valid_chunks
          BY <4>2, OldestStarts
        <5>2. chunks[Oldest].sequence = 0
          <6>1. valid_chunks = next_sequence /\ next_sequence \in Nat
            BY <1>1, <2>1, WriterAssumption DEF RingKeepsNewest, TypeOK
          <6> QED BY <5>1, <6>1
        <5>3. Oldest \in Slots /\ chunks[Oldest].magic
          BY <1>1, <5>1 DEF Reader!Published, TypeOK
        <5>4. Holds(chunks[Oldest], log)
          BY <5>3 DEF KeepInv, Kepts, Kept
        <5> QED BY <5>2, <5>3, <5>4 DEF Holds, StartOf
      <4> QED BY <4>1, <4>2
    <3> QED BY <2>1, <3>1, <3>2
  <2>2. CASE ~(valid_chunks < ChunkCount)
    <3>1. current_chunk # NoChunk
      <4>1. next_sequence # 0
        BY <1>1, <2>2, WriterAssumption DEF RingKeepsNewest
      <4> QED BY <1>1, <4>1 DEF FirstChunkFirst
    <3>2. chunks[Oldest].magic /\ Starts(EndsAt(chunks[Oldest]))
      BY <3>1, OldestStarts DEF Reader!Published
    <3> QED BY <2>2, <3>2 DEF StartOf, EndsAt
  <2> QED BY <2>1, <2>2
<1>3. SUFFICES ASSUME ~finalized, NEW file \in InterruptedFiles
               PROVE  LET trace == Reader!Read(file, TRUE)
                      IN  trace.ok /\ trace.items = LogFrom(first)
  BY <1>2, FlaggedRead DEF InterruptedReadsBack
<1>4. header.finalized = FALSE /\ header \in FileHeader
  BY <1>1, <1>3 DEF HeaderTellsTruth, TypeOK, FileHeader
<1>5. PICK c : /\ \/ c = EmptyChunk
                  \/ \E g \in Generations : c = FreshChunk(g, 0)
               /\ file = [header |-> [header EXCEPT !.wrapped = @ \/ valid_chunks = ChunkCount],
                          chunks |-> [chunks EXCEPT ![NextSlot] = c]]
  <2>1. current_generation \in Generations
        /\ (current_generation + 1) % GenerationRange \in Generations
    BY <1>1, WriterAssumption DEF TypeOK, Generations
  <2> QED BY <2>1 DEF InterruptedFiles, Starting
<1>6. /\ file.header.finalized = FALSE
      /\ file.chunks = [chunks EXCEPT ![NextSlot] = c]
  BY <1>4, <1>5 DEF FileHeader
<1>7. PICK lo, hi : Run(file.chunks, lo, hi, first)
  BY <1>5, <1>6, InterruptedRun
<1> HIDE DEF first
<1> QED BY <1>2, <1>6, <1>7, Recovered

----------------------------------------------------------------------------
(* The finalized image.                                                     *)

LEMMA NothingBefore == RecordsUpTo(log, 0) = 0 /\ EventsUpTo(log, 0) = 0
<1>1. DataUpTo(log, 0) = {} /\ SlicesUpTo(log, 0) = {}
  BY DEF DataUpTo, SlicesUpTo
<1> QED BY <1>1, FS_EmptySet DEF RecordsUpTo, EventsUpTo

(* A ring still on its first lap holds the log from the start, in its slots *)
(* in order; on a later lap every slot is in use.                           *)
LEMMA Laps ==
  ASSUME KeepInv, FirstLap, NEW order,
         InSequence(order, chunks, next_sequence - valid_chunks, valid_chunks)
  PROVE  /\ next_sequence > ChunkCount =>
              /\ \A slot \in Slots : chunks[slot].magic
              /\ chunks[order[1]].sequence # 0
              /\ StartOf(Oldest) > 0
         /\ ~(next_sequence > ChunkCount) =>
              /\ StartOf(Oldest) = 0
              /\ \A i \in DOMAIN order :
                   order[i] = i - 1 /\ chunks[order[i]].sequence = i - 1
<1> DEFINE n == valid_chunks
           lo == next_sequence - n
           first == StartOf(Oldest)
<1>1. /\ TypeOK /\ FirstChunkFirst /\ RingKeepsNewest /\ DOMAIN chunks = Slots
      /\ next_sequence \in Nat /\ n \in 0..ChunkCount /\ n \in Nat
      /\ first \in 0..Len(log)
  BY WriterAssumption, Overwritten DEF KeepInv, RingInv, TypeOK
<1>2. /\ order \in [1..n -> Reader!Published(chunks)] /\ DOMAIN order = 1..n
      /\ \A i \in 1..n : chunks[order[i]].sequence = lo + i - 1
  BY DEF InSequence
<1>3. ASSUME current_chunk # NoChunk
      PROVE  (lo = 0) <=> (first = 0)
  <2>1. /\ Oldest \in Reader!Published(chunks) /\ chunks[Oldest].sequence = lo
    BY <1>3, OldestStarts
  <2>2. Oldest \in Slots /\ chunks[Oldest].magic
    BY <1>1, <2>1 DEF Reader!Published
  <2>3. Holds(chunks[Oldest], log) /\ first = chunks[Oldest].before.items
    BY <2>2 DEF KeepInv, Kepts, Kept, StartOf
  <2> QED BY <2>1, <2>3 DEF Holds
<1>4. ASSUME next_sequence > ChunkCount
      PROVE  /\ \A slot \in Slots : chunks[slot].magic
             /\ chunks[order[1]].sequence # 0 /\ first > 0
  <2>1. n = ChunkCount /\ lo > 0 /\ 1 \in 1..n /\ lo + 1 - 1 = lo /\ next_sequence # 0
    BY <1>1, <1>4, WriterAssumption DEF RingKeepsNewest
  <2>2. current_chunk # NoChunk /\ current_chunk \in Slots
    BY <1>1, <2>1 DEF FirstChunkFirst, TypeOK
  <2>3. ASSUME NEW slot \in Slots PROVE chunks[slot].magic
    <3>1. Age(slot) \in 0..(ChunkCount - 1)
      BY <2>2, AgeFacts
    <3>2. Age(slot) < n
      BY <2>1, <3>1, WriterAssumption
    <3> QED BY <2>2, <3>2, RingShape
  <2>4. chunks[order[1]].sequence = lo
    BY <1>2, <2>1
  <2>5. first # 0
    BY <1>3, <2>1, <2>2
  <2>6. first \in Nat
    BY <1>1
  <2> QED BY <2>1, <2>3, <2>4, <2>5, <2>6
<1>5. ASSUME ~(next_sequence > ChunkCount)
      PROVE  /\ first = 0
             /\ \A i \in DOMAIN order :
                  order[i] = i - 1 /\ chunks[order[i]].sequence = i - 1
  <2>1. n = next_sequence /\ lo = 0
    BY <1>1, <1>5, WriterAssumption DEF RingKeepsNewest
  <2>2. CASE current_chunk = NoChunk
    <3>1. first = Len(log) /\ Len(log) = 0 /\ n = 0
      BY <1>1, <2>1, <2>2, OldestStarts DEF FirstChunkFirst
    <3>2. DOMAIN order = {}
      BY <1>2, <3>1
    <3> QED BY <3>1, <3>2
  <2>3. CASE current_chunk # NoChunk
    <3>1. first = 0
      BY <1>3, <2>1, <2>3
    <3>2. current_chunk = next_sequence - 1 /\ current_chunk \in Slots
      <4>1. next_sequence # 0
        BY <1>1, <2>3 DEF FirstChunkFirst
      <4>2. next_sequence \in 1..ChunkCount
        BY <1>1, <1>5, <4>1, WriterAssumption
      <4> QED BY <1>1, <2>3, <4>2 DEF FirstLap, TypeOK
    <3>3. ASSUME NEW i \in 1..n
          PROVE  order[i] = i - 1 /\ chunks[order[i]].sequence = i - 1
      <4>1. chunks[order[i]].sequence = i - 1
        <5>1. lo + i - 1 = i - 1
          BY <1>1, <2>1
        <5> QED BY <1>2, <5>1
      <4>2. order[i] \in Slots /\ chunks[order[i]].magic
        BY <1>1, <1>2 DEF Reader!Published
      <4>3. chunks[order[i]].sequence = next_sequence - 1 - Age(order[i])
            /\ Age(order[i]) \in 0..(ChunkCount - 1)
        BY <4>2, PublishedOld DEF KeepInv
      <4>4. i - 1 \in Slots /\ Age(i - 1) = next_sequence - 1 - (i - 1)
        <5>1. i \in 1..next_sequence /\ i - 1 \in 0..(ChunkCount - 1) /\ i - 1 <= current_chunk
          BY <1>1, <1>5, <2>1, <3>2, WriterAssumption
        <5> QED BY <3>2, <5>1 DEF Slots, Age
      <4>5. Age(order[i]) = Age(i - 1)
        <5> DEFINE a == Age(order[i])
                   b == Age(i - 1)
        <5>1. /\ i - 1 = next_sequence - 1 - a /\ b = next_sequence - 1 - (i - 1)
              /\ a \in Int /\ next_sequence \in Int /\ i \in Int
          BY <1>1, <4>1, <4>3, <4>4, WriterAssumption
        <5> HIDE DEF a, b
        <5>2. a = b
          BY <5>1
        <5> QED BY <5>2 DEF a, b
      <4>6. order[i] = i - 1
        BY <3>2, <4>2, <4>4, <4>5, AgeOnto
      <4> QED BY <4>1, <4>6
    <3> QED BY <1>2, <3>1, <3>3
  <2> QED BY <2>2, <2>3
<1> QED BY <1>4, <1>5

LEMMA FinalizedRead ==
  ASSUME KeepInv, SyncsReach, FirstLap, HeaderTellsTruth
  PROVE  FinalizedReadsBack
<1> DEFINE first == StartOf(Oldest)
           lo == next_sequence - valid_chunks
           order == Reader!InOrder(chunks)
           window == LogFrom(first)
<1> SUFFICES ASSUME finalized
             PROVE  LET trace == Reader!Read(File, FALSE)
                    IN  /\ trace.ok /\ trace.items = window
                        /\ trace.wrapped <=> first > 0
  BY DEF FinalizedReadsBack
<1>1. /\ TypeOK /\ RingKeepsNewest /\ Kepts /\ DOMAIN chunks = Slots
      /\ next_sequence \in Nat /\ valid_chunks \in Nat /\ valid_chunks <= next_sequence
      /\ header \in FileHeader
  BY WriterAssumption DEF KeepInv, RingInv, TypeOK, RingKeepsNewest
<1>2. /\ File.header = header /\ File.chunks = chunks
      /\ header.finalized = TRUE /\ header.wrapped \in BOOLEAN
      /\ header.wrapped <=> next_sequence > ChunkCount
      /\ header.total_records = total_records /\ header.total_events = total_events
      /\ header.overwritten_records = overwritten_records
      /\ header.overwritten_events = overwritten_events
  BY <1>1 DEF File, HeaderTellsTruth, FileHeader
<1>3. Run(chunks, lo, next_sequence, first)
  BY LiveRun
<1>4. InSequence(order, chunks, lo, valid_chunks) /\ lo \in Nat
  <2>1. next_sequence - lo = valid_chunks /\ lo \in Nat
    BY <1>1
  <2>2. InSequence(order, chunks, lo, next_sequence - lo)
    <3> HIDE DEF lo, order, first
    <3> QED BY <1>3, Ordered DEF order
  <2> HIDE DEF lo, order
  <2> QED BY <2>1, <2>2
<1>5. /\ header.wrapped =>
           /\ \A slot \in Slots : chunks[slot].magic
           /\ chunks[order[1]].sequence # 0 /\ first > 0
      /\ ~header.wrapped =>
           /\ first = 0
           /\ \A i \in DOMAIN order :
                order[i] = i - 1 /\ chunks[order[i]].sequence = i - 1
  <2>1. /\ next_sequence > ChunkCount =>
             /\ \A slot \in Slots : chunks[slot].magic
             /\ chunks[order[1]].sequence # 0 /\ first > 0
        /\ ~(next_sequence > ChunkCount) =>
             /\ first = 0
             /\ \A i \in DOMAIN order :
                  order[i] = i - 1 /\ chunks[order[i]].sequence = i - 1
    BY <1>4, Laps
  <2> QED BY <1>2, <2>1
<1>6. Reader!Contiguous(chunks, order) = order
  <2> HIDE DEF lo, order
  <2> QED BY <1>1, <1>4, NoGap
<1>7. \A i \in DOMAIN order : chunks[order[i]].bits > 0
  <2> TAKE i \in DOMAIN order
  <2>1. order[i] \in Slots /\ chunks[order[i]].magic
    BY <1>1, <1>4 DEF InSequence, Reader!Published
  <2>2. chunks[order[i]].bits >= 1 /\ chunks[order[i]].bits \in Nat
    BY <1>1, <2>1 DEF Kepts, Kept, TypeOK, Chunk
  <2> QED BY <2>2
<1>8. /\ first \in 0..Len(log) /\ first \in Nat
      /\ overwritten_records = RecordsUpTo(log, first)
      /\ overwritten_events = EventsUpTo(log, first)
  BY Overwritten
<1> DEFINE r == Reader!RecordsIn(window)
           v == Reader!EventsIn(window)
<1>9. /\ total_records = overwritten_records + r /\ total_events = overwritten_events + v
      /\ r \in Nat /\ v \in Nat
      /\ overwritten_records \in Nat /\ overwritten_events \in Nat
  <2> HIDE DEF first
  <2> QED BY <1>8, Totals
<1>10. /\ overwritten_records <= overwritten_events
       /\ overwritten_events <= 2 * overwritten_records
  <2> HIDE DEF first
  <2> QED BY <1>8, CountTypes
<1>11. ~header.wrapped => overwritten_records = 0 /\ overwritten_events = 0
  BY <1>5, <1>8, NothingBefore
<1>12. /\ overwritten_records <= total_records /\ overwritten_events <= total_events
       /\ total_records - overwritten_records = r /\ total_events - overwritten_events = v
  <2> HIDE DEF r, v
  <2> QED BY <1>9
<1> HIDE DEF first, lo, order, window, r, v
<1>13. Reader!FinalizedLayout(File, order)
  BY <1>1, <1>2, <1>5, <1>6, <1>7, <1>10, <1>11, <1>12 DEF Reader!FinalizedLayout
<1>14. Reader!RetainedCountsMatch(File.header, window)
  BY <1>2, <1>12 DEF Reader!RetainedCountsMatch, r, v
<1>15. Reader!DecodeAll(File, order, FALSE) = Good(window)
  <2>1. Vouched(File.chunks)
    BY <1>1, <1>2, ChunkCountsMatch DEF Reader!Published, Vouched
  <2>2. Run(File.chunks, lo, next_sequence, first)
    BY <1>2, <1>3
  <2>3. InSequence(order, File.chunks, lo, next_sequence - lo)
    <3>1. next_sequence - lo = valid_chunks
      BY <1>1 DEF lo
    <3> QED BY <1>2, <1>4, <3>1
  <2>4. FALSE \in BOOLEAN /\ (FALSE \/ Vouched(File.chunks))
    BY <2>1
  <2>5. Reader!DecodeAll(File, order, FALSE) = Good(LogFrom(first))
    <3> HIDE DEF Vouched
    <3> QED BY <2>2, <2>3, <2>4, ReadsRun
  <2> QED BY <2>5 DEF window
<1>16. Reader!ClockAccepted(window, header.wrapped)
  <2>1. first > 0 /\ first < Len(log) => header.wrapped
    BY <1>5, <1>8
  <2>2. Starts(first)
    BY OldestStarts DEF first
  <2> QED BY <2>1, <2>2, ClockPasses DEF window
<1> DEFINE trace == Reader!Read(File, FALSE)
<1>17. trace = Outcome(File, TRUE, order, header.wrapped, Good(window))
  BY <1>2, <1>15, StrictRead DEF order
<1> HIDE DEF trace
<1>18. trace = [ok |-> TRUE, wrapped |-> header.wrapped, items |-> window]
  BY <1>2, <1>13, <1>14, <1>16, <1>17 DEF Outcome, Good
<1>19. trace.ok /\ trace.items = window /\ trace.wrapped = header.wrapped
  BY <1>18
<1>20. header.wrapped <=> first > 0
  BY <1>2, <1>5
<1> QED BY <1>2, <1>19, <1>20 DEF trace

----------------------------------------------------------------------------
(* A finalized image is accepted and reads back as exactly what it retains. *)
THEOREM FinalizedCorrect == Spec => []FinalizedReadsBack
<1>1. KeepInv /\ (SyncKnown /\ SyncsReach) /\ FirstLap /\ HeaderTellsTruth =>
        FinalizedReadsBack
  BY FinalizedRead
<1> QED BY <1>1, KeepInvariant, SyncInvariant, FirstLapInvariant, HeaderCorrect, PTL

(* A recovery read of a buffer never finalized gives everything committed   *)
(* that the ring still holds.                                               *)
THEOREM AbandonedCorrect == Spec => []AbandonedReadsBack
<1>1. KeepInv /\ (SyncKnown /\ SyncsReach) /\ FirstLap /\ HeaderTellsTruth =>
        AbandonedReadsBack
  BY AbandonedRead
<1> QED BY <1>1, KeepInvariant, SyncInvariant, FirstLapInvariant, HeaderCorrect, PTL

(* So does a recovery read of a buffer whose program died starting a chunk, *)
(* short of the chunk that was being reused.                                *)
THEOREM InterruptedCorrect == Spec => []InterruptedReadsBack
<1>1. KeepInv /\ (SyncKnown /\ SyncsReach) /\ FirstLap /\ HeaderTellsTruth =>
        InterruptedReadsBack
  BY InterruptedRead
<1> QED BY <1>1, KeepInvariant, SyncInvariant, FirstLapInvariant, HeaderCorrect, PTL
=============================================================================
