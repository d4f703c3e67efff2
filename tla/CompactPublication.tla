------------------------- MODULE CompactPublication -------------------------
(***************************************************************************)
(* What a snapshot of the recorder's buffer can show in the middle of a    *)
(* call of compact/src/compact_trace.c.  A call issues stores and          *)
(* RBCT_PLATFORM_PUBLISH_BARRIERs in program order; memory lets the stores *)
(* between two barriers become visible in any order, except that stores to *)
(* one location keep theirs, and lags behind the writer at will.  A crash  *)
(* or a snapshot sees the stores visible so far.                           *)
(*                                                                         *)
(* A record is its number, and takes one position of a chunk's payload.    *)
(* Whatever takes several stores passes through a Torn value.  Which       *)
(* records need a fresh chunk is left open: CompactWriter says when the    *)
(* payload or the clock generation requires one.                           *)
(*                                                                         *)
(* A definition Name_Fault is Name with a plausible mistake: what the      *)
(* properties are tried against.                                           *)
(***************************************************************************)
EXTENDS Integers, Sequences, SequencesExt, FiniteSetsExt

CONSTANTS ChunkCount,
          ChunkRecords,   \* records that fill a chunk
          MaxRecords      \* bound: records written

ASSUME PublicationAssumption ==
  /\ ChunkCount \in Nat \ {0} /\ ChunkRecords \in Nat \ {0} /\ MaxRecords \in Nat \ {0}

Slots     == 0..(ChunkCount - 1)
Positions == 1..ChunkRecords
NoChunk   == -1
Torn      == -1

(* A location is a slot (File for the file header), a field of it, and the  *)
(* position of a record in the payload (0 for the other fields).            *)
File == -1
Locations ==
  ({File} \X {"flags", "crc", "counts"} \X {0})
  \union (Slots \X {"magic", "suffix", "sequence", "cursor", "counts", "seal"} \X {0})
  \union (Slots \X {"body"} \X Positions)

Field(slot, field)   == <<slot, field, 0>>
Body(slot, position) == <<slot, "body", position>>

Barrier == <<>>
Store(where, what) == <<where, what>>

VARIABLES
  memory,         \* what a snapshot sees now
  pending,        \* stores and barriers issued and not yet visible, oldest first
  current_chunk, valid_chunks, next_sequence, used, wrapped, finalized,  \* writer
  written,        \* history: records committed by the program
  published       \* history: records whose cursor store is visible

vars == <<memory, pending, current_chunk, valid_chunks, next_sequence, used,
          wrapped, finalized, written, published>>

----------------------------------------------------------------------------
(* The writer's side: each call as the stores it issues.                    *)

NextSlot_Unwrapped == IF current_chunk = NoChunk THEN 0 ELSE current_chunk + 1
NextSlot == IF current_chunk = NoChunk \/ current_chunk + 1 = ChunkCount
            THEN 0 ELSE current_chunk + 1

(* The header flag comes before the first reuse,                            *)
FlagWrapped_Unordered == <<Store(Field(File, "flags"), {"wrapped"})>>
FlagWrapped == <<Store(Field(File, "flags"), {"wrapped"}), Barrier>>

(* the old magic goes before anything else of the chunk,                    *)
Invalidate_Unordered(slot) == <<Store(Field(slot, "magic"), FALSE)>>
Invalidate(slot) == <<Store(Field(slot, "magic"), FALSE), Barrier>>

(* and the new one comes after everything else.                             *)
StartStores(slot) ==
  (IF valid_chunks = ChunkCount /\ ~wrapped THEN FlagWrapped ELSE <<>>)
  \o Invalidate(slot)
  \o [p \in Positions |-> Store(Body(slot, p), 0)]
  \o <<Store(Field(slot, "suffix"), FALSE), Store(Field(slot, "cursor"), 0),
       Store(Field(slot, "counts"), 0), Store(Field(slot, "sequence"), Torn),
       Store(Field(slot, "sequence"), next_sequence), Store(Field(slot, "suffix"), TRUE),
       Barrier,
       Store(Field(slot, "magic"), TRUE)>>

CommitStores_Unordered(slot, position, record) ==
  <<Store(Body(slot, position), Torn), Store(Body(slot, position), record),
    Store(Field(slot, "cursor"), position), Store(Field(slot, "counts"), position)>>

(* rbct_commit_bit_record: the body, then the cursor that covers it, then   *)
(* (unordered) the counts only a finalized read looks at.                   *)
CommitStores(slot, position, record) ==
  <<Store(Body(slot, position), Torn), Store(Body(slot, position), record),
    Barrier,
    Store(Field(slot, "cursor"), position), Store(Field(slot, "counts"), position)>>

(* A call that commits one record, data or clock synchronisation, starting  *)
(* a chunk for it when the current one is full or of another generation.    *)
WriteRecord(fresh) ==
  LET slot     == IF fresh THEN NextSlot ELSE current_chunk
      position == IF fresh THEN 1 ELSE used + 1
  IN  /\ ~finalized
      /\ written < MaxRecords
      /\ fresh \/ (current_chunk # NoChunk /\ used < ChunkRecords)
      /\ pending' = pending \o (IF fresh THEN StartStores(slot) ELSE <<>>)
                            \o CommitStores(slot, position, written + 1)
      /\ written' = written + 1
      /\ used' = position
      /\ IF fresh
         THEN /\ current_chunk' = slot
              /\ next_sequence' = next_sequence + 1
              /\ IF valid_chunks = ChunkCount
                 THEN wrapped' = TRUE /\ UNCHANGED valid_chunks
                 ELSE valid_chunks' = valid_chunks + 1 /\ UNCHANGED wrapped
         ELSE UNCHANGED <<current_chunk, next_sequence, valid_chunks, wrapped>>
      /\ UNCHANGED <<memory, finalized, published>>

FinalFlags ==
  {"crc"} \union (IF valid_chunks = ChunkCount /\ next_sequence > ChunkCount
                  THEN {"wrapped"} ELSE {})

Announce_Unordered ==
  <<Store(Field(File, "flags"), FinalFlags),
    Store(Field(File, "crc"), Torn), Store(Field(File, "crc"), 1),
    Store(Field(File, "flags"), FinalFlags \union {"finalized"})>>
Announce ==
  <<Store(Field(File, "flags"), FinalFlags),
    Store(Field(File, "crc"), Torn), Store(Field(File, "crc"), 1),
    Barrier,
    Store(Field(File, "flags"), FinalFlags \union {"finalized"})>>

(* rbct_writer_finalize: chunk CRCs and the header's counters, then the     *)
(* announcement of the chunk CRCs and the header CRC, then the finalized    *)
(* bit.                                                                     *)
Finalize ==
  /\ ~finalized
  /\ pending' = pending
       \o [i \in 1..(2 * valid_chunks) |->
             Store(Field((i - 1) \div 2, "seal"), IF i % 2 = 1 THEN Torn ELSE 1)]
       \o <<Store(Field(File, "counts"), written), Barrier>> \o Announce
  /\ finalized' = TRUE
  /\ UNCHANGED <<memory, current_chunk, valid_chunks, next_sequence, used, wrapped,
                 written, published>>

----------------------------------------------------------------------------
(* The memory's side.                                                       *)

(* Stores that may become visible next: no barrier, and no older store to   *)
(* the same location, comes before them.                                    *)
Ready ==
  {i \in DOMAIN pending :
     /\ pending[i] # Barrier
     /\ \A j \in 1..(i - 1) : pending[j] # Barrier /\ pending[j][1] # pending[i][1]}

BecomeVisible(i) ==
  LET where == pending[i][1]
      rest  == RemoveAt(pending, i)
  IN  /\ memory' = [memory EXCEPT ![where] = pending[i][2]]
      /\ pending' = IF rest # <<>> /\ Head(rest) = Barrier THEN Tail(rest) ELSE rest
      /\ published' = IF where[2] = "cursor" /\ pending[i][2] > 0
                      THEN published + 1 ELSE published
      /\ UNCHANGED <<current_chunk, valid_chunks, next_sequence, used, wrapped,
                     finalized, written>>

Init ==
  /\ memory = [where \in Locations |->
                 CASE where[2] = "flags" -> {}
                   [] where[2] \in {"magic", "suffix"} -> FALSE
                   [] OTHER -> 0]
  /\ pending = <<>>
  /\ current_chunk = NoChunk /\ valid_chunks = 0 /\ next_sequence = 0 /\ used = 0
  /\ wrapped = FALSE /\ finalized = FALSE
  /\ written = 0 /\ published = 0

Next ==
  \/ \E fresh \in BOOLEAN : WriteRecord(fresh)
  \/ Finalize
  \/ \E i \in Ready : BecomeVisible(i)

Spec == Init /\ [][Next]_vars

----------------------------------------------------------------------------
(* The host's side: compact.py on a snapshot.                               *)

FileFlags == memory[Field(File, "flags")]

(* A chunk is read if its magic is complete and, once the header announces  *)
(* chunk CRCs, if its own matches.                                          *)
Readable(slot) ==
  /\ memory[Field(slot, "magic")] /\ memory[Field(slot, "suffix")]
  /\ "crc" \in FileFlags => memory[Field(slot, "seal")] = 1

(* By sequence number, up to the first gap.                                 *)
InOrder ==
  LET readable == {slot \in Slots : Readable(slot)}
      number(slot) == memory[Field(slot, "sequence")]
      order == CHOOSE q \in [1..Cardinality(readable) -> readable] :
                 IsInjective(q) /\ \A i, j \in DOMAIN q : i < j => number(q[i]) <= number(q[j])
      gaps  == {i \in 2..Len(order) : number(order[i]) # number(order[i - 1]) + 1}
  IN  IF gaps = {} THEN order ELSE SubSeq(order, 1, Min(gaps) - 1)

(* Decoding stops at the cursor; what it covers is taken at face value.     *)
Payload(slot) ==
  [p \in 1..memory[Field(slot, "cursor")] |-> memory[Body(slot, p)]]

Recovered ==
  FoldLeft(LAMBDA records, slot : records \o Payload(slot), <<>>, InOrder)

----------------------------------------------------------------------------
(* Properties.                                                              *)

TypeOK ==
  /\ DOMAIN memory = Locations
  /\ \A where \in Locations :
       CASE where[2] = "flags" -> memory[where] \subseteq {"wrapped", "crc", "finalized"}
         [] where[2] \in {"magic", "suffix"} -> memory[where] \in BOOLEAN
         [] OTHER -> memory[where] \in -1..MaxRecords
  /\ \A i \in DOMAIN pending : pending[i] = Barrier \/ pending[i][1] \in Locations
  /\ current_chunk \in Slots \union {NoChunk} /\ valid_chunks \in 0..ChunkCount
  /\ next_sequence \in 0..MaxRecords /\ used \in 0..ChunkRecords
  /\ wrapped \in BOOLEAN /\ finalized \in BOOLEAN
  /\ written \in 0..MaxRecords /\ published \in 0..written

(* At any moment a recovery read returns a run of consecutive whole records *)
(* that ends with the newest published one, and with more than two chunks   *)
(* it is never empty.  (With two it can be: no barrier separates the cursor *)
(* of a chunk's only record from the invalidation of the next chunk.)       *)
RecoversNewestRun ==
  LET records == Recovered
  IN  /\ \A i \in 2..Len(records) : records[i] = records[i - 1] + 1
      /\ records # <<>> => Last(records) = published /\ records[1] > 0
      /\ published > 0 /\ ChunkCount > 2 => records # <<>>

(* The finalized bit is never visible before what it vouches for: the       *)
(* header CRC, every chunk's CRC, the counts and all of the payload.        *)
FinalizedMeansComplete ==
  "finalized" \in FileFlags =>
    /\ memory[Field(File, "crc")] = 1 /\ memory[Field(File, "counts")] = written
    /\ \A slot \in 0..(valid_chunks - 1) :
         Readable(slot) /\ memory[Field(slot, "counts")] = memory[Field(slot, "cursor")]
    /\ published = written

(* A snapshot from which a record is missing because its chunk was reused   *)
(* says so: the header flag is visible before the first reuse.              *)
LossIsFlagged ==
  (published > 0 /\ (Recovered = <<>> \/ Recovered[1] # 1)) => "wrapped" \in FileFlags

(* Every step of the stores is a step, or no step, of the promise.          *)
Promise == INSTANCE FlightRecorder WITH window <- Recovered
ImplementsFlightRecorder == Promise!Spec
=============================================================================
