------------------------- MODULE CompactRoundTrip -------------------------
(***************************************************************************)
(* The writer's buffer copied to a file and read by the host.              *)
(***************************************************************************)
EXTENDS CompactWriter

Reader == INSTANCE CompactReader

File == [header |-> header, chunks |-> chunks]

(***************************************************************************)
(* The profile's codes are prefix codes, one codebook per model state: in  *)
(* one state a code stands for one event.  And a ring of 2 ^ 32 chunks     *)
(* would take a buffer of 16 terabytes: the clock generations of the       *)
(* chunks in a ring, at most one more from each to the next, never come    *)
(* round to the same number again.                                         *)
(***************************************************************************)
ASSUME ReaderAssumption ==
  /\ \A j, k \in DOMAIN Codebook : j[1] = k[1] /\ Codebook[j] = Codebook[k] => j = k
  /\ ChunkCount <= GenerationRange

(* What a reader can be told of a log entry: everything but the history.    *)
Observable(entry) ==
  IF entry.kind = "sync" THEN entry
  ELSE [kind |-> "data", generation |-> entry.generation, track |-> entry.track,
        event |-> entry.event, timestamp |-> entry.timestamp,
        duration |-> entry.duration]

(* The log from its first position onwards, as a reader sees it.            *)
LogFrom(first) ==
  [i \in 1..(Len(log) - first) |-> Observable(log[first + i])]

Oldest == IF valid_chunks < ChunkCount THEN 0 ELSE NextSlot

(* Position in the log at which the chunk of a slot starts.                 *)
StartOf(slot) == IF chunks[slot].magic THEN chunks[slot].before.items ELSE 0

(* A finalized image is accepted by the strict read, and decodes to exactly *)
(* the records that were accepted and not overwritten, in order, each with  *)
(* its generation, track, event, counter value and duration; the trace      *)
(* tells whether anything was overwritten.                                  *)
FinalizedReadsBack ==
  finalized =>
    LET trace == Reader!Read(File, FALSE)
    IN  /\ trace.ok
        /\ trace.items = LogFrom(StartOf(Oldest))
        /\ trace.wrapped <=> StartOf(Oldest) > 0

(* The buffer of a program that died between two calls, finalize never      *)
(* having run, gives the same through the recovery read.                    *)
AbandonedReadsBack ==
  ~finalized =>
    LET trace == Reader!Read(File, TRUE)
    IN  trace.ok /\ trace.items = LogFrom(StartOf(Oldest))

(* The buffer of a program that died in rbct_start_chunk: a full ring is    *)
(* flagged, then the slot to be reused is unpublished, then republished     *)
(* with no record in it yet.                                                *)
Starting == [header EXCEPT !.wrapped = @ \/ valid_chunks = ChunkCount]

FlaggedFile == [header |-> Starting, chunks |-> chunks]

InterruptedFiles ==
  LET with(chunk) == [header |-> Starting, chunks |-> [chunks EXCEPT ![NextSlot] = chunk]]
  IN  {with(EmptyChunk)}
      \union {with(FreshChunk(g, 0)) :
                g \in {current_generation, (current_generation + 1) % GenerationRange}}

(* Such a buffer still reads back as everything committed, short of the     *)
(* chunk that was being reused: no interruption of the ring makes the       *)
(* strict clock checks refuse the rest.                                     *)
InterruptedReadsBack ==
  ~finalized =>
    /\ LET trace == Reader!Read(FlaggedFile, TRUE)
       IN  trace.ok /\ trace.items = LogFrom(StartOf(Oldest))
    /\ \A file \in InterruptedFiles :
         LET trace == Reader!Read(file, TRUE)
             lost  == IF valid_chunks < ChunkCount THEN 0
                      ELSE StartOf(Oldest) + Len(chunks[Oldest].items)
         IN  trace.ok /\ trace.items = LogFrom(lost)
=============================================================================
