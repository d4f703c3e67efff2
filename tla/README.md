# retrobus-perfetto: a TLA+ development

Models, model-checking runs and machine-checked proofs about the code of
retrobus-perfetto, kept beside it.  Paths below are relative to the
repository's root.

## 1. The system

retrobus-perfetto produces and processes Perfetto traces of emulated and
embedded programs.

| part | code | state it keeps | operations |
|---|---|---|---|
| compact flight recorder | `compact/src/compact_trace.c`, `compact/include/retrobus/compact_trace.h` | a caller-owned buffer (file header, ring of 4 KiB chunks), the current chunk, clock generation, last counter value, current track, codec model state, counters, a stack of open scopes | init, begin, end, cancel, emit, clock_sync, finalize |
| C++ wrapper | `compact/include/retrobus/compact_trace.hpp` | last status; per scope object: active or not | forwards; `TraceScope` begins in its constructor and ends in its destructor |
| host reader | `py/retrobus_perfetto/compact.py` | none between calls | strict and recovery reads of a file; conversion to a Perfetto trace |
| codec, schema | `compact_codec.py`, `compact_profile.py`, `compact_schema.py` | immutable tables | build prefix codes and a perfect hash; validate a schema |
| trace builders | `builder.py`, `annotations.py`, `interning.py` (Python), `retrobus_perfetto.hpp` (C++), `builder.rs` (Rust) | packets, track ids, interning tables | add tracks, slices, counters, flows; intern; reset |
| reader | `reader.py` | interning tables per packet sequence | resolve a trace packet by packet |
| merge | `merge.py` | id maps per source | renumber several sources into one file, replaced atomically |
| oracle index | `oracle_index.py` | an SQLite index | build, verify, query |
| preparation, summary | `trace_prepare.py`, `function_trace_summary.py` | none | normalise timestamps; rebuild a call graph |
| re-entrant handle | `rust/retrobus-perfetto/src/reentrant.rs` | owner, depth and borrow state under a mutex, a condition variable | enter, try_enter, enter_strict, with_ref, with_mut, drop of a guard |

How they interact: the instrumented program calls the recorder (one caller at a
time; the C code has no lock) or, through the re-entrant handle, a trace
builder from many threads.  The recorder's only interface to the host is its
buffer: dumped after `finalize`, or copied by a debugger at any moment, or
found in memory after a crash.  The host reader decodes that file, and the
converter hands its records to the Python builder.  Merge, oracle index,
preparation and summary work on finished traces: merge and summary on the
packets, the oracle index on the slices of a recorder that is not part of the
repository.  Conversion, merge and index builds write one file each, under a
name that other processes may read, or write, at the same time.

Where the difficulty lies:

* the ring reuses memory while somebody may be looking at it: store order,
  crashes in the middle of a call, buffers that were never finalized;
* encoder and decoder keep the same context (last counter value, track, model
  state, clock generation) without exchanging it, through fresh chunks, lost
  chunks and clock transitions;
* the writer accepts a trace only if the reader will: the rules about clock
  synchronisations are written twice, in C and in Python;
* accounting: what was accepted, dropped, overwritten, retried;
* counters that wrap at any width;
* threads, nested guards and closures in the re-entrant handle;
* ids that a packet only holds by reference, in a trace of which packets get
  lost, whose tables are reset and whose packets are annotated after others
  have been added;
* an order of packets, rebuilt from times that were rounded to nanoseconds, on
  which nesting, flows and async operations depend;
* calls that go through several trace chunks, closed and reopened at each
  boundary, while something of it is missing;
* files that are replaced while others read them, by processes that are killed.

## 2. Modules

```
CompactWriter  <-- CompactRoundTrip --> CompactReader       CompactPublication
     |                                                           | refines
CompactWriter_proofs              ReentrantHandle           FlightRecorder
                                       |
                              ReentrantHandle_proofs     CompactPublication_proofs

CompactConversion <-- CallGraph   TraceBuilder   OracleIndex   TraceMerge   AtomicOutput
     |                                 |              |             \          /
CompactConversion_proofs        TraceBuilder_proofs   |              TraceTools
                                                      |                  |
                                          OracleIndex_proofs      TraceTools_proofs
                                                      |
                                          OraclePairing_proofs
```

**CompactWriter** is `compact_trace.c`, one action per public call.  `chunks`
and `header` are the buffer; the other variables are the fields of
`rbct_writer_t`, with the state bits as Booleans of their own.  `log` and
`requested` are history: everything committed, and the calls that asked for a
record or a scope.  Calls are atomic here because the writer has one caller
at a time (`compact/FORMAT.md`, resource and safety contract).  The payload of
a chunk is a sequence of wire records (profiled slice, event, event with track
selection, clock synchronisation), each of the size its kind takes; what the
records hold is what `rbct_encode_event` puts there: a delta, a track only
when it changes, a code that depends on the model state.  Argument values are
left out, an argument vector is valid or it is not.  A call on a finalized
writer returns without a change and is no step.

**CompactReader** is the format-v4 path of `compact.py` as operators on a file:
which chunks are read and in which order, `_decode_v4_item` with its decoding
context, the count checks, the extension of counters, the generation and anchor
checks.  `Read(file, allow_unfinalized)` is `CompactTraceReader(...).read()`.

**CompactRoundTrip** composes the two: the writer's buffer is the reader's file.
It adds the buffers a crash in the middle of `rbct_start_chunk` leaves: a full
ring flagged as wrapped, its oldest chunk still there, unpublished, or published
again with nothing in it yet.

**CompactPublication** looks inside the calls.  A call appends its stores and
`RBCT_PLATFORM_PUBLISH_BARRIER`s to `pending`; stores become visible one at a
time, in any order that respects barriers and the order of stores to one
location, at any later moment.  So a snapshot between any two steps sees every
image that a crash, a debugger or a weakly ordered processor can show.  Values
that take several stores pass through `Torn`.  Which record starts a chunk is
left open (CompactWriter says when), so the result holds for every policy.

**FlightRecorder** is the promise to whoever reads the buffer: the visible
records are a window on the sequence written, a record enters whole at the new
end, records leave at the old end.  CompactPublication implements it under the
mapping `window <- Recovered`, what a recovery read returns.

**ReentrantHandle** is `reentrant.rs`.  Each section under the state mutex is one
action; `Condvar::wait` blocks, may wake up spuriously, and `notify_one` is a
step of its own after the unlock, as in the code.  `with_ref` and `with_mut` are
a begin and an end action with the closure running between them.

**CompactConversion** takes the records that the reader returns on to Perfetto,
`CompactTrace` and `compact_trace_to_builder` of `compact.py`.  Its variables are a
capture that grows by the writer's rules (those proved of CompactWriter: slices
end innermost first and within their generation, a generation is synchronised
first or never, the counter goes forwards).  The conversion is the operators:
`TimestampNs` maps a counter to nanoseconds by the anchors of its generation, between
two by interpolation and outside at the nominal rate, or from an origin if the
generation has none; `Accepted` is the checks of `__post_init__`; `Actions` and
`Ordered` are the list of actions with its sort key.  Properties are about every
suffix of the capture (`Retained`), which is what a wrapped ring leaves of it.

**CallGraph** extends it by `function_trace_summary.py`, which reads the converted
packets: its own sort, and the stack of each track.

**TraceBuilder** is `builder.py`, `annotations.py`, `interning.py` and `reader.py`.  A
method of the builder or of a wrapper is an action, given the sequence of items
(strings, locations, frames, callstacks) that it interns, in the order in which
the code asks for their ids; a string that protobuf cannot store stops the call
after its id was allocated.  The reader is operators on the trace and on the
set of packets that were lost: its tables after packet `i` are the entries of
the packets since the last cleared one.  `Reset` is `reset_incremental_state`,
and `NewBuilder` a second trace appended to the first, on the same sequence.

**OracleIndex** is `verify_trace_index` of `oracle_index.py`, one action per row and
kind of row.  The recorder is not in the repository; it is modelled by what the
index expects of it, with the faults the index is there to find.  A packet that is
dropped is announced by the next one recorded (`Announce`), if there is one: what
the index is told is `announced`, the chunks that hold such a packet, and not
whether something was dropped.

**TraceMerge** is `merge.py`: one action per kind of packet, the six tables of the
code as functions.  `Process` follows the parents of a track to the process it belongs
to; the merge calls it with the scopes it has noted, the reader's side with the tracks
of a trace.  `TrackOf`, `PidOf` and `Operation` say what a reader makes of a trace, and
the properties compare it in the merged trace and in each source.

**AtomicOutput** is how merge, conversion and index builds put their file in place
(temporary file, fsync, `os.replace`, or `os.link` for an index that must be new),
and how `verify_trace_index` uses an index: runs fail between any two steps, processes
are killed at any point, power is lost, renames that were not synchronised are undone
in reverse order.  An error does not leave the same behind everywhere: merge and
conversion remove their temporary file, and so does an index build while it writes
(`Fail`); one that cannot open or close its database does not (`FailAsDatabase`:
`oracle_index.py:891` and 1200 are outside of what cleans up), and one that cannot
remove the second name of a new index fails with its output published (`Unlink`).

**TraceTools** runs them side by side: a merge streams its packets into the
temporary file of one of the jobs, and its tables go with that job.

In every module a definition `Name_Fault` is `Name` with a plausible mistake, used
by no specification: the properties are tried against it (`mutants` in
PROJECT.json).

## 3. Runs

Deadlock checking is off in all runs: the recorder stops after `finalize`, the
handle's threads stop when they have made their calls, an index is verified
once, and bounded requests end every behaviour.

| run | question | bounds | states |
|---|---|---|---|
| `Writer` | Is the ring always the newest chunks, is everything accounted for, do scopes and generations keep their rules? | 2 chunks of 3 bits, records of 1 to 3 bits, 2-bit counter, generations modulo 3, scope depth 2, 3 requests, 2 synchronisations | 541,500 |
| `RoundTrip` | Does the host read back what was accepted? | as above with 2 tracks, scope depth 1, 4 requests | about 132,000 |
| `RoundTripClock` | Do the reader's clock checks accept whatever the writer's accepted? | instants only, chunks of 5 bits, events of 2 and synchronisations of 1, 3 requests, 3 synchronisations | 568,608 |
| `Publication` | What may a snapshot show in the middle of a call? | 3 chunks of 2 records, 5 records | 20,883 |
| `Handle` | Exclusion, borrows, wake-ups | 3 threads, depth and guards 3, 4 calls each, 1 leaked guard; threads symmetric | 8,426 |
| `HandleLiveness` | Does every blocked thread get in? | 3 threads, depth and guards 2, 2 calls each, no leak | 1,748 |
| `Builder` | Is every id read as what it was written for? | 3 packets, 2 calls on wrappers, 1 reset, 2 builders; 7 dictionaries, 2 strings that cannot be stored; every subset of packets lost | 372,202 |
| `Conversion` | Does time go forwards, do slices nest, are flows and operations kept apart? | 4 items, scope depth 2, 3 ticks to the nanosecond, advances of 0 and 1 tick, references 0, 1 and 3 | 41,218 |
| `AdjacentSlices` | Do adjacent slices of no duration stay apart? (no) | as `Conversion` | stops at the violation |
| `CallGraph` | Is a call listed under its caller? (no) | 3 items, scope depth 1, advances of up to 3 ticks | stops at the violation |
| `Oracle` | Is each call counted once, with its own exit, and the verdict right? | 3 calls, 3 chunks, call depth 2, 1 fault, 1 track, with and without call ids | 1,262,230 |
| `Tools` | Is the output always a whole file, and does the merge keep what its sources say? | 2 jobs of each kind, 2 verifiers; 2 sources, 4 packets | 868,459 |

Why the bounds are enough to meet the interesting cases:

* Two chunks of three bits wrap the ring with as few as three records, since a
  chunk is full after one event and one profiled slice; with three requests and
  two synchronisations (which start chunks too) the ring wraps twice.  Every slot
  is reused, and both the first and the second chunk of the ring are at some
  time the oldest.
* With the clock, a chunk of five bits holds two events and a synchronisation, or an
  event between synchronisations.  So what is read back has data between two
  anchors of one generation, also after the ring has wrapped or the start of a
  chunk was interrupted, and anchors of one modulo value between which the
  counter moved and came back.  `RoundTrip` has tracks, slices and profiled codes and
  no synchronisation; what holds of both together is the theorems' part.
* A two-bit counter has a half range of two: deltas 0 and 1 are legal, 2 and 3
  are not, and every sequence of three values wraps.  The sample 4 is out of
  width.
* Three generations starting at the last one make the generation counter wrap.
* The codebook has three entries; two of them give different meanings to one
  code in different model states, so a decoder in the wrong model state decodes
  another event; and a record that used a code in one chunk can need a
  literal, which is larger, when encoded again in a fresh one.
* Three chunks are the smallest ring for which a recovery read is never empty;
  five records fill it and reuse a chunk.
* Three threads: one inside, one waiting, one overtaking.
* Three packets: one that defines an id, one that refers to it and is lost or not,
  and one that comes in between or, annotated late, holds a definition that an
  earlier packet needs.  Callstacks refer to frames and frames to function
  names, so an entry can be lost two references away.
* Three ticks to the nanosecond, and advances of one: slices that have a duration
  in ticks and none in nanoseconds, neighbours that share a nanosecond, and
  reference times between which fewer or more nanoseconds pass than ticks.  Four
  items at depth 2: two slices inside a third, next to a fourth; flows that
  start, step, end and start over.  Each capture has records of one kind (and
  slices with synchronisations): the kinds meet only in the sort, by their order.
* `FlowIdRange` is 8 so that an id that is taken is followed by one that may be
  taken too.
* Three chunks: a call that is open throughout, one that ends in the chunk after
  the one it began in, and a chunk between two that is lost or swapped.  One
  fault at a time: of two faults the index cannot promise anything, one may
  hide the other (a missed entry and a missed exit are no call at all).
* Two jobs are the least that race for a name.  Two clients: one that is killed, and
  one that finds what it left, or closes while the other goes on.  Four packets
  are the longest dependence of a merge: a track is described, a default set, and
  two events compared; or two of each source.

What the properties say, beyond `TypeOK`:

* `RingKeepsNewest`, `Ledger`: the slot that is reused is the oldest, live
  chunks have consecutive sequence numbers, and each live chunk starts in the
  sequence of records where its predecessor stopped, the oldest where the
  overwritten ones stopped.  Together they are why the reader finds no gap and
  why total minus overwritten is what it finds.
* `RequestsAccounted`: every request is accepted, dropped or an open scope, through
  any sequence of rejected ends, retries, cancels and unmatched ends.
* `HeaderTellsTruth`: the wrapped flag is computed in two places; both mean that a
  chunk was lost.
* `SlicesWithinGeneration`, `SyncBeforeData`, `AnchorsAdvance`: the clock rules of
  FORMAT.md, on the history of accepted calls.
* `OnlyRecordsTouchRing`: a refused call destroys nothing.
* `FinalizedReadsBack`, `AbandonedReadsBack`, `InterruptedReadsBack`: the reader
  returns exactly the retained suffix of the history, for a finalized file, for
  a buffer abandoned between two calls, and for one abandoned in the middle of
  starting a chunk: after the flag, after the invalidation, or before the first
  record.
* `RecoversNewestRun`: a snapshot recovers a gapless run of whole records ending with
  the newest published one.  It is non-empty only with more than two chunks:
  nothing separates the cursor store of a chunk's only record from the
  invalidation of the next chunk, so with two chunks a snapshot can fall between.
* `FinalizedMeansComplete`, `LossIsFlagged`: the flags of the header never promise
  more than what is visible.
* `ImplementsFlightRecorder`: every visible store is a step of FlightRecorder or none.
* `GuardsOwn`, `NoAliasing`, `NoLostWakeup`: see the comments in the module.
* `NeverMisread`: an id never stands for another item than it was written for, also
  if packets are lost, calls fail and packets are annotated late.  It holds
  because counters are never set back, `reset` included.  It is about one
  builder: a second starts its ids again.
* `InOrderReadsBack`: with calls in order and none failed, also two concatenated
  traces read back, and what the reader calls valid is complete.  The premise is
  needed: a packet that is annotated after a later one has been added can hold
  the only definition of an id that is read before it (`late`), and a name that
  cannot be stored leaves an event that is on no sequence (`failed`).
* `RefusedForReferences`: the writer's clock rules are enough for the reader's but
  for reference times, which the writer does not check.  Rounding never makes
  time run back within a generation.
* `SlicesNest`: packets come out properly bracketed on every track, also within one
  nanosecond, with two exceptions that the module names (`Straddled`, `Spanned`):
  slices whose begins are put together although their scopes followed one
  another.  Perfetto shows the second inside the first, and the first end closes
  the second slice.
* `LifecyclesSeparate`: no flow id is shared by packets of two lifecycles, what is
  not marked as truncated is a whole lifecycle whatever the ring lost, and begins
  and ends of async operations alternate.
* `OncePerCall`, `PairedRight`, `VerdictIsRight`: the index never loses or doubles a
  call; it does not charge an exit to another call, and a trace in which it finds
  no issue is told right, every exported call with its own exit.  It also was
  recorded right, as far as the index can know: not where events of one function
  cannot be told apart (`Ambiguous`), where chunks are swapped so that no row shows
  it, where a chunk is missing, or where the packet that was dropped is the last one
  before the end or a crash, so that none comes after it to say so (`Unheard`:
  a call that was entered and dropped there is never heard of).
* `TracksKept`, `ConnectionsKept`: two events share a track, a flow or an operation in
  the merged trace exactly if they do in one source.
* `OutputWhole`: what another process finds under the output's name, and what is left
  of a run that failed.  It does not say that no temporary file is: an index build
  that cannot open or close its database leaves one.
* `OneNewIndex`: of all runs that must create the output, and the file from before,
  one has the name, also if all of them found it free when they started, and
  whatever a loss of power undoes.
* `IndexAsBuilt`: the recovery log that a client finds beside an index is that of the
  index, left by one that was killed, of any number one after another.  Its premise
  is that no index was replaced while one of them had it open, or had left a log
  that no other one has closed since (`overtaken`): the code renames the new index over the
  old one and leaves the `-wal` of the old one beside it, and the next client
  opens the new index with it.  The property so says that this is the only way.
* `WaitersGetIn`: liveness, below.

**Fairness.** Only `HandleLiveness` assumes any: weak fairness of a woken thread's
next look at the state, of `notify_one` after the unlock, of the end of a closure and of
the drop of a guard.  The first two are the scheduler running a runnable thread;
the last two say that instrumentation leaves its closures and scopes, which
needs nobody else's help.  Starting a call is not fair (a program need not
trace), nor is a spurious wake-up.  Threads make finitely many calls: with
unlimited newcomers the handle gives no guarantee, a woken thread may be
overtaken for ever.  A leaked guard (`mem::forget`) keeps the handle taken for
ever, so the run has none; the safety run has.

**Processor model.** `Publication` assumes that the platform's barrier orders the
stores before it with those after it.  On compilers for which
`RBCT_PLATFORM_PUBLISH_BARRIER` expands to nothing, or to a compiler barrier on a
weakly ordered multiprocessor, that is for the integrator to provide (the macro
can be defined from outside).

**Findings.**  Two runs end in a violation, each of something a document of the
repository says.

* `AdjacentSlices`: FORMAT.md (line 411) says that adjacent slices of less than a
  nanosecond do not become falsely nested.  They do when an enclosing slice falls
  into the same nanosecond: `compact.py:1749` joins what overlaps, directly or
  through a third, and writes all begins of the group first.
* `CallGraph`: the converter puts the end of a slice before the begin of the next at
  the same timestamp, and `function_trace_summary.py:209` sorts the begin first:
  of two calls that meet at one nanosecond, the second is listed under the
  first.

## 4. Proofs

All theorems hold for every value of the constants that satisfies the named
assumptions: `WriterAssumption` (sizes are natural numbers, the clock has at
least one bit, the initial generation and default track exist, and every record
fits an empty chunk: in the code at most 70 bytes against 4048) and
`HandleAssumption` (there is a value for no owner, and a thread has room for no
more guards than the depth counter can count: each guard takes several bytes of
memory, the counter is a `usize`), `BuilderAssumption` (types of the vocabulary, and
finitely many items), `PartsAssumption` (a call that interns a frame or a stack
interns the strings it consists of, and these can be stored: `interning.py` asks for
them first; names, locations, categories and annotations consist of nothing),
`OracleAssumption` (bounds are natural numbers, a recorder has finitely many tracks),
`OutputAssumption` (names of files differ),
`ConversionAssumption` (the rate is a positive fraction, reference times are
natural numbers), `PublicationAssumption` (sizes are positive),
`MergeAssumption` (types of the packets), `MergerAssumption` and `ReaderAssumption`
(in one model state a code stands for one event, as codes of a profile do; and a ring
has no more chunks than there are clock generations: 2^32 chunks of 4 KiB would
be a buffer of 16 TiB).

| theorem | module | property | argument |
|---|---|---|---|
| `TypeCorrect` | CompactWriter_proofs | `TypeOK` | one lemma per helper, one step per action |
| `RingCorrect`, `LedgerCorrect` | CompactWriter_proofs | `RingKeepsNewest`, `Ledger` | `RingInv` = `TypeOK`, `FirstChunkFirst` (there is no current chunk exactly until the first is started, and until then nothing is recorded or overwritten) and both properties at once |
| `HeaderCorrect` | CompactWriter_proofs | `HeaderTellsTruth` | from `RingInv`: valid chunks and sequence numbers decide both computations of the flag |
| `RefusalsLeaveRing` | CompactWriter_proofs | `OnlyRecordsTouchRing` | every action extends the log or leaves the ring |
| `KeepInvariant` | CompactWriter_proofs | | what each chunk decodes to, below |
| `FinalizedCorrect`, `AbandonedCorrect`, `InterruptedCorrect` | CompactWriter_proofs | `FinalizedReadsBack`, `AbandonedReadsBack`, `InterruptedReadsBack` | `KeepInv`, and runs of chunks, below |
| `SlicesCorrect`, `SyncCorrect`, `AnchorsCorrect`, `RequestsCorrect` | CompactWriter_proofs | `SlicesWithinGeneration`, `SyncBeforeData`, `AnchorsAdvance`, `RequestsAccounted` | `ClockInv`, below |
| `TypeCorrect`, `WakeupsCorrect` | ReentrantHandle_proofs | `TypeOK`, `NoLostWakeup` | both inductive |
| `GuardsCorrect`, `AliasingCorrect` | ReentrantHandle_proofs | `GuardsOwn`, `NoAliasing` | `HandleInv`, below |
| `PublicationTypeOK`, `FinalizedIsComplete` | CompactPublication_proofs | `TypeOK`, `FinalizedMeansComplete` | `IInv`, below |
| `RecoveryIsNewestRun`, `LostIsFlagged` | CompactPublication_proofs | `RecoversNewestRun`, `LossIsFlagged` | `SnapInv`, below |
| `KeepsPromise` (more than one chunk) | CompactPublication_proofs | `ImplementsFlightRecorder` | `SnapInv` and `WindowMoves`, below |
| `BuilderTypeOK`, `IdsAreNeverMisread` | TraceBuilder_proofs | `TypeOK`, `NeverMisread` | `DictionaryInv`, below |
| `OrderedPacketsReadBack` | TraceBuilder_proofs | `InOrderReadsBack` | `OrderInv`, below |
| `ClockRulesAgree` | CompactConversion_proofs | `RefusedForReferences` | `CaptureInv` and monotonicity of mapped time, below |
| `LifecyclesAreSeparate` | CompactConversion_proofs | `LifecyclesSeparate` | `LifeInv`, distinct keys and lifecycles of a suffix, below |
| `SlicesAreNested` | CompactConversion_proofs | `SlicesNest` | `NestInv` and components laid out by nesting, below |
| `OutputIsWhole`, `OneIndexIsNew`, `IndexIsAsBuilt` | TraceTools_proofs | `OutputWhole`, `OneNewIndex`, `IndexAsBuilt` | `OutputInv`, below |
| `TracksAreKept`, `ConnectionsAreKept` | TraceTools_proofs | `TracksKept`, `ConnectionsKept` | `MergeInv`, below |
| `CallsAreKept` | OracleIndex_proofs | `OncePerCall` | `OracleInv`, below |
| `ExitsAreRight` | OraclePairing_proofs | `PairedRight` | `IndexInv`, below |
| `VerdictHolds` | OraclePairing_proofs | `VerdictIsRight` | `VerdictInv` = `IndexInv` and the parts named below |

*The ring.*  The properties speak of the age of a slot, the number of chunk
starts since its own.  A call either commits one thing, and then possibly
starts one chunk, or is quiet: it leaves ring, chunks and log alone
(`RecordingSteps`).  When a chunk is started every age grows by one, modulo
the ring (`AgeStep`), the oldest live slot of a full ring becomes the
current one, and what it held moves into the overwritten counters.  `Ledger` is
not inductive without `RingKeepsNewest`, which says that the slot reused is the
one whose successor becomes the oldest, nor either without `FirstChunkFirst`,
for the first chunk has no predecessor to take over from.

*The clock.*  `SyncBeforeData` and `AnchorsAdvance` are about the whole log, the
writer decides with three state bits and the last counter value.  `ClockInv`
links them: open scopes belong to the current generation (`ScopesCurrent`),
the bits say what the log says about the current generation (`LogKnown`), and the
last counter value and the advanced bit say whether the counter moved since
the last synchronisation (`AnchorsKnown`).  TLC checked the strengthening at the
bounds of `Writer` before it was proved.

*The round trip.*  The decoder and the counts of a file are folds and cardinalities over
chunks of any length, so what they come to cannot be proved by induction over a file that
is given; but the file grows one record at a time.  `KeepInv` says after every call that
each published chunk decodes to the stretch of the log that it was given, with the counts in
its header (`Kepts`), that the decoder having read the current chunk has the encoder's
counter value, track and model state (`InContext`), that the totals are those
of the log (`Counted`), a chunk is at most one generation ahead of the one before
(`GenerationsClose`), and counter values of one generation advance by less than half the
range (`GapsClear`).  A call that records extends one chunk, fresh or current, by one item,
which the decoder in that context reads back as the entry (`CommitSteps`): there the
second encoding in a fresh chunk is dealt with.  `SyncInvariant` and
`FirstLapInvariant` add what the clock checks and the first lap need.

Then the reader.  A file whose published chunks hold consecutive numbers and consecutive
stretches of the log is a `Run`.  Its chunks are put in order (`Ordered`: sorting has one
result), none is missing, and the fold over them gives the stretch from the first
to the end (`ReadsRun`).  The clock checks pass on every such stretch (`ClockPasses`):
generations come in order and none comes back, since a ring has no more chunks than there are
generations (`NoReturn`); the synchronisations of a generation come first, but for the first one
retained, which may have lost the one before its data (`SyncsAccepted`); extended counters
rise (`TicksRise`), and strictly from anchor to anchor (`AnchorsAccepted`), also if the
modulo value came back.  The ring is such a run (`LiveRun`), and still is without its oldest
chunk (`RunWithout`) and with an empty one at the new end (`RunWith`), which is all that a
program that dies in `rbct_start_chunk` can leave.  For the strict read the counts of the
header must be those of the chunks: total minus overwritten, by `Ledger` (`Totals`).

*The handle.*  `HandleInv` adds `BorrowCounts`: the borrow word counts exactly the
closures that run, which is why a mutable borrow excludes the rest.  It needs
`GuardsOwn`, for the reset of the borrow word when the last guard is dropped
must not meet a running closure.

*The finalized bit.*  Most of what a finalized buffer vouches for is not visible
yet when `finalize` is called, nor for some time after.  `IInv` therefore speaks of what a
location *settles* on, the value of the last pending store to it, or what it holds if
there is none (`Settles`): magic and suffix of every started chunk settle on true, its
cursor and counts on one number, and from `finalize` on the header CRC, the header's
counts and the chunk CRCs on theirs.  A store that becomes visible changes none of this,
for it is the oldest to its location (`VisibleSettles`); a call's own stores decide for
its chunk and leave the others (`Record`, `Final`).  Records published and cursor
stores pending add up to the records written (`Accounted`, a bijection of what is
pending before and after).  And the finalized bit is the last store pending, behind a
barrier, so that nothing is pending once it is visible (`Announcing`): what settled is
then what memory holds.

*Recovery.*  What a snapshot shows depends on which stores are visible, not on when they
became so.  Each store has a label (its record, the step of the call that makes it, an
index) and a stage, the number of barriers before it.  `SnapInv` says: the labels of all
stores issued follow from where the records written were laid out in chunks (`Laid`); those
pending are in program order, with a barrier between any two of different stages
(`Queue`); the others are visible, and with each of them every store of an earlier stage and
every older one to the same place (`Closed`); and each location holds the newest visible
store to it (`Imaged`).  A call extends the layout by a record and its labels
(`WriteSnap`) or adds those of the end (`FinalizeSnap`); a store that becomes visible is
a foremost one, which keeps the visible ones closed (`VisibleStep`).  From that the
fields of each chunk follow (`MagicOf`, `NumberOf`, `CursorOf`, `BodyOf`, `SealOf`): if `h`
is the newest chunk whose old magic is gone, the chunks read are those from
`Oldest(h)` on, in order and without a gap, and the fold over them is the run of records from
the first of `Oldest(h)` to the last published (`ViewOf`).  By the barrier after an
invalidation at most the newest record before it is unpublished when the next chunk
begins (`Behind`), hence the run is not empty with three chunks or more; and a chunk can
only be missing after the store of the flag, which a barrier puts before its invalidation
(`FlagsOf`).

*The promise.*  A call leaves the memory, and so the run.  One more visible store moves it
as FlightRecorder says (`WindowMoves`): a cursor makes it one record longer, an invalidation
of a reused chunk takes the records of the oldest one, every other store leaves it.  That
the records taken had all been published is `NoGap`, which needs two chunks: with a
ring of one, the newest record can be published after its chunk is invalid, and TLC
finds that `ImplementsFlightRecorder` is violated.  `RecoveryIsNewestRun` and
`LostIsFlagged` hold for one chunk too.

*The dictionary.*  `NeverMisread` compares a reference with the last visible entry for
its id.  `DictionaryInv` speaks of everything ever written, lost or not, visible
or not (`AllUses`): all ids in it are below the counters (`BelowCounters`), one id
of a dictionary stands for one item (`OneItemPerId`), and the table of the current
builder agrees with it (`TableAgrees`, `TableInjective`).  `EntriesHaveIds` keeps the
id 0, which a failed call leaves in the table, out of the entries.  Which
packets are lost no longer matters: whatever entry the reader finds is one of
these.  The hard step is a call that interns several items: new ids of one
dictionary differ because each counts the ones before it, which takes the
cardinality of initial segments of the list of allocated positions.

*Packets in order.*  That every reference resolves is about what is *visible*: the
entries since the sequence was last cleared.  `OrderInv` therefore speaks of epochs, from
one packet that clears the state to the next, and holds as long as no call was late or
failed.  What holds anything comes after a packet that clears (`Headed`), every id in use
has its entry in the same epoch and not later (`Resolved`), the ids of one epoch have one
meaning (`OneMeaning`), what is used is on a sequence (`Sequenced`), and the packets behind
the one that is being annotated hold nothing yet (`Unsealed`).  `Current` ties the table to it: what the
builder thinks it has interned was written since the last clearing packet.  The order
of the entries of one call is what `PartsAssumption` is for; TLC evaluates it on
the vocabulary of `Builder`.

*The merge.*  `MergeInv` says of each table that it is injective and that its values
are bounded by its size (`Table`), so that the next id is new; tables only grow (`Grown`).
Each packet written is then the packet read with all its ids replaced through the
tables (`Mirror`).  `Hierarchy` says that tracks are described once, parents first, and
`ScopesNoted` and `DefaultsNoted` that what the merge has noted of a source is what the
source says.  With these `Process` gives the same process in the source, in the noted
scopes and in the merged trace, although it recurses over three different domains: it
is followed upwards through the packets, and the least packet for which two of them
differed would have a smaller parent.

*The index.*  `OracleInv` has two parts.  The recorder numbers its calls, so no two
entries recorded are of one call (`ChunksFit`); closing, reopening, dropping and
flattening keep that, and so do loss and swaps of chunks (`EntriesFit`).  `Ledger` says that
the calls of the entries read so far are, each at one place, the real open invocations,
the pending ones and the exported ones.  A row moves an invocation from place to
place (`Moved`); at a source boundary everything open is exported (`OpenEmptied`), a flush or
the end empties the pending ones.  Cardinalities are compared at the very end only
(`KnownOnce`), by the bijection between entries and calls.  Tracks must be finitely many,
or there would be no sequence of them to close.

*The right exit.*  Where events carry call ids, an exit is paired by its id, and every
invocation's id is its call (`Settled`).  Without ids it is paired by the function, with the
innermost open call of it, and that is the right one only if the stack of the index is
what the recorder's was when the exit was recorded.  A row does not say that, so the
recording is replayed: `Run` gives, after each event of each chunk, the calls the
recorder had open on each track, those that a closed chunk will reopen, and whether the
innermost has its exit recorded.  `Faithful` says that the chunks recorded follow such a
replay while no slice lacks its end and no packet is dropped (a call after a missed or a
doubled probe still does); it is kept by each operation of the recorder, of which
the boundary is the hard one, for it writes the closes of all tracks one after the
other and the reopens in the other direction (`ClosesBordered`, `ReopensBordered`).  The
rows of an index built of all chunks in order are the events in order (`Ordered`), and
`Mirror` says that at every row `open` and `pending` are what the replay has
there.  Then the invocation found for an exit is the top of the replayed stack.
With a chunk lost or misplaced and no ids, `Ambiguous` holds and the property claims
nothing; with ids it needs no replay at all.

*The verdict.*  `VerdictIsRight` has two directions, and each takes its own part of
`VerdictInv`.  That a recording without a fault raises no issue but the calls in flight
(`Clean`, `Told`): a row finds in `Mirror` what its kind expects, the call on top or
waiting, and its sequence number is next because the numbers rise through the chunks
(`Clocked`, by following `FlattenSeq`); at the end what is open in the index is what the
recorder has open (`AtEnd`).  That a verification without an issue had nothing to report:
then every row did the one thing it should (`Quiet`), so every invocation held is as
`Tidy` says.  A missed exit leaves a call that was entered, is over and has no exit,
a doubled one a call with two (`Witnessed`); a slice without an end leaves a chunk in which
more is opened on a track than is ended or still open (`Endings`).  Later calls, rotations, crashes
and swaps keep these marks, and only a lost chunk can take them away (`Passed`).
But without an issue the exits of the probes read are
those of the invocations, one each (`Accounted`), and on each track every source has as
many ends as openings (`Balanced`); so there was no mark.  These marks are of a recording
of which nothing is dropped.  Of one that is not complete a chunk says so, once a packet was
recorded after the drop, and the index reports it if no chunk is lost (`Heard`); that every
call is exported with its own exit needs none of this.  The premise `~Ambiguous` is there because without ids an exit may be told of another
call than its own, and the counts come out all the same.

*Mapped time.*  The reader refuses a trace in which time runs back.  A rounded scale
and a rounded interpolation are monotone (`ScaleMonotone`,
`InterpolatedMonotone`: rounded division is monotone and exact on multiples), and
so is the whole mapping within a generation, for any position of two ticks among
the anchors (`AnchoredMonotone`).  Between generations the premise `~StepsBack` does
it, for the first item of a generation is a synchronisation, placed at its
reference (`FirstAtReference`).  `CaptureInv` says that of captures: ticks grow
within a generation, strictly from anchor to anchor (`Clocked`), a generation
other than the first begins with a synchronisation (`Stepped`), so does the whole
if there is any (`SyncedFirst`).  The first two hold of every suffix, so a ring may
have lost anything in front.

*Lifecycles.*  The property speaks of packets in sorted order, so first the order: the
actions of a conversion are finitely many (`ActionsFinite`) and no two have the same five keys
(`ActionKeysDiffer`).  For the begins of slices of no duration that takes what their
components are (`CompFirst`): two with one order and suborder are at the same place of the same
component of the same group.  Then the sorted sequence has every action once, in the
order of the keys (`ActionsSorted`), although it is defined by counting (`SortedIs`).
The steps of one async key are in the order of their items, closes before
begins and what is closed at the end last, because mapped time does not run back and no
time is later than the last (`StepsPrecede`); so a begin and its close are neighbours
(`CloseFollows`, `LastClose`).  An opener's id is not among those before it
(`IdsDiffer`): of `FlowIdRange` values one is free, for no capture has more items than there
are ids (`FlowIdsSuffice`).  After an end nothing of its key has an opener before it
(`EndIsFinal`).  A record of what a ring retains has the opener that it has in the whole capture, unless
that one is lost; then it has none, or a step marked as truncated (`LivesCut`).  The
recursions (`Lifecycle`, `FlowIds`, `Components`) are shown to have a
solution by the least number up to which there is none.

*Brackets.*  Scopes close innermost first, so of two slices of a generation the later
to end starts after the end of the other or not after its start, and each generation but
the first has an item where its counter starts (`NestInv`, `Nested`).  Both hold of
suffixes and, because mapped time is monotone, of nanoseconds (`Orderly`), hence slices
never cross.  In the sorted packets of a track each slice has one begin, and its end
comes later; if no two cross, the stack is the open ones in the order of their begins
(`StackAt`), and empty at the end (`Brackets`).  Where a slice lasts, that follows from the
keys (`LateOverlap`).  Slices of no duration are begun where the first record of their
component is, and it has to be shown that nothing ends there in between.  In the group, sorted by
start, a component begins where nothing before reaches (`GroupLaid`, `CompEnds`).  A longer
slice that ends within the nanosecond parts the group in what ended before it and what
starts after it, and the first of these opens a component, unless the three share a tick
(`Parted`); that is `Straddled`.  Two slices of one component of which one follows the
other have a third that spans both (`OneComponent`, by the first position at which that
happens), and so have two of different components whose begins and ends interleave (`InTwo`);
that is `Spanned`.  The theorem so says that the two exceptions are the only ones.

*The output.*  `OutputInv` says that a filled file is complete and on the disk
(`Durable`), that so is every file the name may be found to refer to after a loss
of power (`Recoverable`), which files a run that ended may have left (`Tidy`), and that
the name never referred to the file of a run that has not published it (`Unpublished`).
If the name refers to nothing, it never referred to anything (`Untaken`); so a link
that succeeds is the first, and no loss of power brings another one back (`OneNewIndex`).
And until an index is replaced while it is in use, all clients have the current one open, and
the `-wal` beside it belongs to it: to one of them, or left by one that was killed
(`Attended`).

Only model-checked: `WaitersGetIn`
(liveness under fairness; the provers do not do ENABLED).  The induction theorems of the library take an operator as
parameter, which the provers at hand cannot instantiate.  Where a recursive function
is followed all the same (`Process` up the parents, `FlattenSeq` and `FoldLeft` along the
chunks), the lemma is proved for the least element of the set of its counterexamples (`Least`).

## 5. Premises

What a property takes for granted of the world outside the module:

* Conversion: format v4, of which the writer's rules hold; no more items than flow ids.
* Builder: interning is on; the reader is told of a lost packet by
  `previous_packet_dropped` on the next one of its sequence.
* Merge: a source describes a track before it uses it and parents before children; all
  descriptions come before the rest.  `TracksKept`, and `ConnectionsKept` for legacy
  operations, are about packets that have a sequence (one without has no defaults);
  and about local and global ids, for what an id that is neither is unique in
  depends on the phase of its operation, which `merge.py` does not look at.  A consumer's
  reset of defaults where a sequence clears its state is left out.
* Output: temporary names differ.  The merge's is made of the process id: two merges
  to one output in one process would share it.  That merge and conversion can
  remove their temporary file after an error is taken for granted, and so is that a `-wal`
  once removed stays removed when the power fails.
* Oracle: exit probes precede the end of their slice, one track is the canonical
  track of its calls (rows of tracks that are not, `oracle_index.py:1676`, are left
  out), and the recorder closes and reopens as the index describes.  A drop is of one
  packet, and the next packet recorded, whatever its track, carries
  `previous_packet_dropped`: one sequence, and a recorder that dies announces nothing.

## 6. Not modelled

* Formats v1 to v3 of the reader: kept by the code for old files, nothing writes them.
* Bit-level damage, foreign schemas and profiles, changed files: the reader's
  rejection of what no writer produced.
* Argument values, and wire sizes of varints: records have the size of their kind.
* Instants and counters of the conversion (one action each, at the time of the
  record), argument annotations, `normalize_start`.
* Values that the Python builder writes inline, and the depth and cycle checks of
  annotations, which refuse before anything is changed.
* The oracle index's timestamp and frame-counter checks, frame cookies, its packet and
  interning tables, exports and queries: rows are read once and copied.
* Names and argument counts in the function summary: calls are merged by them
  after the stacks are known.
* `TraceScope` of the C++ wrapper: begins in its constructor, ends in its destructor;
  its misuse out of order is what the hazards list of it.
* The C++ and Rust trace builders: the Python builder's tables in other languages,
  without a reader of their own.
* Codec profile and its training (offline, a pure construction), schema validation,
  preparation (a sequential rewrite of one file): functions of their input.
* TypeScript bindings, command-line tools, vendored code: no state of their own.

PROJECT.json lists the hazards; five have no property, each with the reason.

## 7. Plan

Done: the recorder (writer, reader, round trip, publication), the re-entrant
handle, the trace builder with its reader, conversion and call graph, the
oracle index, merge and output, in the order of what a mistake would cost.

What is left, in order:

1. `TraceScope`: the destructor-driven wrapper over CompactWriter; nested objects,
   cancels of the wrong one, finalize with live objects.
2. `TracePrepare`: preparing twice is preparing once.
3. `CodecProfile`: the code is prefix-free per model state, the perfect hash finds
   exactly its keys.
