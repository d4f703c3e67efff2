---------------------------- MODULE OracleIndex ----------------------------
(***************************************************************************)
(* The oracle index: verify_trace_index pairs the entries and the exits of *)
(* function calls in a trace that was split into chunks, and reports what  *)
(* does not fit.                                                           *)
(*                                                                         *)
(* The recorder is not part of the repository.  It is modelled by what the *)
(* index expects of it: a call is a slice, an exit probe precedes its end, *)
(* and a chunk closes the open calls at its end and reopens them at the    *)
(* start of the next.  Its faults are a probe that is missed or doubled, a *)
(* slice that is not ended, a packet that is dropped, a crash that leaves  *)
(* the chunk unclosed, and chunks that are lost or passed out of order.    *)
(***************************************************************************)
EXTENDS Integers, Sequences, FiniteSets, FiniteSetsExt, SequencesExt

CONSTANTS Tracks, Functions, MaxCalls, MaxDepth, MaxChunks, MaxFaults

ASSUME OracleAssumption ==
  /\ IsFiniteSet(Tracks)
  /\ MaxCalls \in Nat /\ MaxDepth \in Nat /\ MaxChunks \in Nat \ {0} /\ MaxFaults \in Nat

VARIABLES
  active,      \* the calls in progress on each track, innermost last
  chunks,      \* the chunks recorded, each a sequence of events
  calls,       \* the number of calls so far
  identified,  \* whether events carry call ids
  unsaid,      \* whether the next packet is to say that one was dropped
  announced,   \* the chunks with a packet that says so (previous_packet_dropped)
  faults,      \* the faults that happened
  rows,        \* the table track_events, once the index is built
  lastSource,  \* max_source_id
  done,        \* number of rows verified
  open,        \* open_stacks: the invocations open on each track
  pending,     \* pending_reopens: those a trailing close interrupted
  exported,    \* oracle_invocations
  issues,      \* verification_issues, as <<code, row>>
  phase        \* "record", "verify", "verified"

recorded == <<active, chunks, calls, identified, unsaid, announced>>
recording == <<recorded, faults>>
verifying == <<done, open, pending, exported, issues>>
indexed == <<rows, lastSource>>
vars == <<recording, indexed, verifying, phase>>

None == 0

----------------------------------------------------------------------------
(* The recorder.  An event names the call it is really about (`call`) and   *)
(* what the index can see of it: function, call id and sequence number.     *)

SequenceNow == Len(FlattenSeq(chunks))
Event(kind, track, c, offset) ==
  [kind |-> kind, track |-> track, call |-> c.call, function |-> c.function,
   id |-> IF identified /\ kind # "end" THEN c.call ELSE None,
   sequence |-> IF kind = "end" THEN None ELSE SequenceNow + offset]

(* The first packet after a dropped one carries previous_packet_dropped.    *)
Announce ==
  /\ unsaid' = IF unsaid = "next" THEN "no" ELSE unsaid
  /\ announced' = IF unsaid = "next" THEN announced \cup {Len(chunks)} ELSE announced

Record(events) ==
  /\ chunks' = [chunks EXCEPT ![Len(chunks)] = @ \o events]
  /\ Announce

Enter(track, function) ==
  /\ phase = "record" /\ calls < MaxCalls /\ Len(active[track]) < MaxDepth
  /\ calls' = calls + 1
  /\ LET c == [call |-> calls', function |-> function]
     IN  /\ active' = [active EXCEPT ![track] = Append(@, c)]
         /\ Record(<<Event("enter", track, c, 1)>>)
  /\ UNCHANGED <<identified, faults, indexed, verifying, phase>>

Return(track) ==
  /\ phase = "record" /\ active[track] # <<>>
  /\ LET c == Last(active[track])
     IN  Record(<<Event("probe", track, c, 1), Event("end", track, c, 2)>>)
  /\ active' = [active EXCEPT ![track] = Front(@)]
  /\ UNCHANGED <<calls, identified, faults, indexed, verifying, phase>>

Fault(f) == Cardinality(faults) < MaxFaults /\ f \notin faults /\ faults' = faults \cup {f}

ReturnUnprobed(track) ==
  /\ phase = "record" /\ active[track] # <<>> /\ Fault("missed")
  /\ Record(<<Event("end", track, Last(active[track]), 1)>>)
  /\ active' = [active EXCEPT ![track] = Front(@)]
  /\ UNCHANGED <<calls, identified, indexed, verifying, phase>>

(* The exit is hooked twice, or the end of the slice is not recorded.        *)
ReturnMalformed(track, f) ==
  /\ phase = "record" /\ active[track] # <<>> /\ Fault(f)
  /\ LET c == Last(active[track])
     IN  Record(IF f = "twice"
                THEN <<Event("probe", track, c, 1), Event("probe", track, c, 2),
                       Event("end", track, c, 3)>>
                ELSE <<Event("probe", track, c, 1)>>)
  /\ active' = [active EXCEPT ![track] = Front(@)]
  /\ UNCHANGED <<calls, identified, indexed, verifying, phase>>

(* A packet is dropped: the one last recorded.  The producer says so with    *)
(* the next one, if there is one.                                            *)
Drop ==
  /\ phase = "record" /\ Last(chunks) # <<>> /\ Fault("dropped")
  /\ chunks' = [chunks EXCEPT ![Len(chunks)] = Front(@)]
  /\ unsaid' = "next"
  /\ UNCHANGED <<active, calls, identified, announced, indexed, verifying, phase>>

(* One track after the other: its open calls, innermost or outermost first. *)
Closes(tracks) ==
  FlattenSeq([n \in DOMAIN tracks |->
    LET s == active[tracks[n]]
    IN  [k \in DOMAIN s |-> Event("end", tracks[n], Reverse(s)[k], k)]])
Reopens(tracks) ==
  FlattenSeq([n \in DOMAIN tracks |->
    LET s == active[tracks[n]]
    IN  [k \in DOMAIN s |-> Event("reopen", tracks[n], s[k], k)]])

Rotate ==
  /\ phase = "record" /\ Len(chunks) < MaxChunks
  /\ LET tracks == SetToSeq(Tracks)
     IN  /\ chunks' = Append(Front(chunks) \o <<Last(chunks) \o Closes(tracks)>>,
                             LET opened == Reopens(tracks)
                                 base   == Len(Closes(tracks))
                             IN  [k \in DOMAIN opened |->
                                   [opened[k] EXCEPT !.sequence = SequenceNow + base + k]])
         /\ IF Closes(tracks) = <<>> THEN UNCHANGED <<unsaid, announced>> ELSE Announce
  /\ UNCHANGED <<active, calls, identified, faults, indexed, verifying, phase>>

Crash ==
  /\ phase = "record" /\ Len(chunks) < MaxChunks /\ Fault("crash")
  /\ chunks' = Append(chunks, <<>>)
  /\ active' = [t \in Tracks |-> <<>>]
  /\ unsaid' = IF unsaid = "next" THEN "never" ELSE unsaid
  /\ UNCHANGED <<calls, identified, announced, indexed, verifying, phase>>

----------------------------------------------------------------------------
(* build_trace_index: the packets of all sources, in the order passed.      *)
Rows(sources) ==
  FlattenSeq([s \in DOMAIN sources |->
    [k \in DOMAIN sources[s] |->
      [kind |-> sources[s][k].kind, track |-> sources[s][k].track,
       call |-> sources[s][k].call, function |-> sources[s][k].function,
       id |-> sources[s][k].id, sequence |-> sources[s][k].sequence, source |-> s]]])

(* The packets that say that the one before was dropped are reported at     *)
(* once; `passed` are the chunks that the sources are.                      *)
Build(sources, passed, happened) ==
  /\ phase = "record"
  /\ rows' = Rows(sources) /\ lastSource' = Len(sources)
  /\ issues' = {<<"packet_loss", 0>> : n \in announced \cap passed}
  /\ faults' = faults \cup happened
  /\ phase' = "verify"
  /\ UNCHANGED <<recorded, done, open, pending, exported>>

BuildAll == Build(chunks, DOMAIN chunks, {})
BuildWithout(n) ==
  /\ Cardinality(faults) < MaxFaults /\ Len(chunks) > 1
  /\ Build(RemoveAt(chunks, n), DOMAIN chunks \ {n}, {"lost"})
BuildSwapped(n) ==
  /\ Cardinality(faults) < MaxFaults
  /\ Build([chunks EXCEPT ![n] = chunks[n + 1], ![n + 1] = chunks[n]], DOMAIN chunks, {"swapped"})

----------------------------------------------------------------------------
(* verify_trace_index, one row at a time.  An invocation is what is known   *)
(* of a call; `real` is false for a reopen that continues nothing.          *)
Row == rows[done + 1]
At == done + 1

NewInvocation(real) ==
  [call |-> Row.call, function |-> Row.function, id |-> Row.id, real |-> real,
   exit |-> None, closedIn |-> None, closes |-> 0, reopens |-> 0]

Export(invocation, kind) == [invocation |-> invocation, kind |-> kind]
Issue(code) == {<<code, At>>}

(* _invocation_matches.                                                     *)
Matches(invocation, row) ==
  IF invocation.id # None /\ row.id # None THEN invocation.id = row.id
  ELSE invocation.function = row.function

(* trailing_close_after: no other event follows on the track in its source. *)
Trailing_LastRow(n) == ~\E m \in DOMAIN rows : m > n /\ rows[m].source = rows[n].source
Trailing(n) ==
  \A m \in DOMAIN rows :
    (m > n /\ rows[m].source = rows[n].source /\ rows[m].track = rows[n].track) =>
      rows[m].kind = "end"

(* At the first row of a source nothing of the previous one may be open.    *)
AtBoundary == done > 0 /\ rows[done].source # Row.source
Unclosed == {i \in UNION {ToSet(open[t]) : t \in Tracks} : i.real}
Leftover ==
  IF AtBoundary
  THEN {Export(i, IF i.exit # None THEN "missing_slice_end" ELSE "missing_chunk_close") :
          i \in Unclosed}
  ELSE {}
Opened == IF AtBoundary THEN [t \in Tracks |-> <<>>] ELSE open

(* The sequence number is compared with the last one seen.                  *)
InSequence == {m \in 1..done : rows[m].sequence # None}
Regressed ==
  /\ Row.sequence # None /\ InSequence # {}
  /\ rows[Max(InSequence)].sequence > Row.sequence
RowIssues ==
  {<<e.kind, At>> : e \in Leftover}
    \cup (IF Regressed THEN Issue("temporal_sequence_non_monotonic") ELSE {})

(* What is common to the handling of every row.                             *)
Handle(stack, waiting, invocations, codes) ==
  /\ open' = [Opened EXCEPT ![Row.track] = stack]
  /\ pending' = [pending EXCEPT ![Row.track] = waiting]
  /\ exported' = exported \cup Leftover \cup invocations
  /\ issues' = issues \cup RowIssues \cup UNION {Issue(c) : c \in codes}
  /\ done' = At
  /\ UNCHANGED <<recording, indexed, phase>>

Verifying(kind) == phase = "verify" /\ done < Len(rows) /\ Row.kind = kind

(* flush_pending_missing                                                    *)
Flushed == {Export(i, "missing_reopen") : i \in ToSet(pending[Row.track])}
FlushCodes == IF Flushed = {} THEN {} ELSE {"synthetic_close_without_reopen"}

VerifyEnter ==
  /\ Verifying("enter")
  /\ Handle(Append(Opened[Row.track], NewInvocation(TRUE)), <<>>, Flushed, FlushCodes)

Reopenable(i) == Matches(i, Row) /\ i.closedIn < Row.source

VerifyReopen ==
  /\ Verifying("reopen")
  /\ LET waiting == pending[Row.track]
         found   == {n \in DOMAIN waiting : Reopenable(waiting[n])}
         stack   == Opened[Row.track]
     IN  IF found = {}
         THEN Handle(Append(stack, NewInvocation(FALSE)), waiting, {},
                     {IF waiting = <<>> THEN "unexpected_synthetic_reopen"
                      ELSE "synthetic_reopen_mismatch"})
         ELSE Handle(Append(stack, [waiting[Max(found)] EXCEPT !.reopens = @ + 1,
                                                              !.closedIn = None]),
                     RemoveAt(waiting, Max(found)), {},
                     IF Max(found) = Len(waiting) THEN {}
                     ELSE {"synthetic_reopen_order_mismatch"})

(* The innermost invocation that matches is the one that exits.             *)
Exiting_Innermost(stack) == Len(stack)
Exiting(stack) == Max({0} \cup {n \in DOMAIN stack : Matches(stack[n], Row)})

VerifyExitProbe ==
  /\ Verifying("probe")
  /\ LET stack == Opened[Row.track]
         n     == Exiting(stack)
         order == IF n = Len(stack) THEN {} ELSE {"exit_probe_out_of_order"}
     IN  IF n = 0
         THEN Handle(stack, <<>>, Flushed,
                     FlushCodes \cup {IF stack = <<>> THEN "unexpected_exit_probe"
                                      ELSE "exit_probe_mismatch"})
         ELSE IF stack[n].exit # None
         THEN Handle(stack, <<>>, Flushed, FlushCodes \cup order \cup {"duplicate_exit_probe"})
         ELSE Handle([stack EXCEPT ![n].exit = Row.call], <<>>, Flushed,
                     FlushCodes \cup order
                       \cup (IF stack[n].real THEN {} ELSE {"orphan_synthetic_exit"}))

VerifySliceEnd ==
  /\ Verifying("end")
  /\ LET stack   == Opened[Row.track]
         waiting == pending[Row.track]
     IN  IF stack = <<>> THEN Handle(stack, waiting, {}, {"unexpected_slice_end"})
         ELSE LET i == [Last(stack) EXCEPT !.closedIn = Row.source]
              IN  IF ~i.real THEN Handle(Front(stack), waiting, {}, {})
                  ELSE IF i.exit # None
                  THEN Handle(Front(stack), waiting, {Export(i, "real_exit")}, {})
                  ELSE IF Trailing(At)
                  THEN Handle(Front(stack), Append(waiting, [i EXCEPT !.closes = @ + 1]), {}, {})
                  ELSE Handle(Front(stack), waiting, {Export(i, "missing_exit")},
                              {"missing_exit_probe"})

(* After the last row: what still waits or is open.                         *)
FinalPending_LastSource ==
  {Export(i, "synthetic_close_in_flight") :
     i \in {j \in UNION {ToSet(pending[t]) : t \in Tracks} : j.closedIn = lastSource}}
FinalPending ==
  {Export(i, IF i.closedIn = lastSource THEN "synthetic_close_in_flight"
             ELSE "missing_reopen") : i \in UNION {ToSet(pending[t]) : t \in Tracks}}
FinalOpen ==
  {Export(i, IF i.exit # None THEN "missing_slice_end" ELSE "in_flight") : i \in Unclosed}
CodeOf(kind) ==
  CASE kind \in {"in_flight", "synthetic_close_in_flight"} -> "final_in_flight_call"
    [] kind = "missing_reopen" -> "synthetic_close_without_reopen"
    [] OTHER -> kind

VerifyFinish ==
  /\ phase = "verify" /\ done = Len(rows)
  /\ open' = [t \in Tracks |-> <<>>] /\ pending' = [t \in Tracks |-> <<>>]
  /\ exported' = exported \cup FinalPending \cup FinalOpen
  /\ issues' = issues \cup {<<CodeOf(e.kind), At>> : e \in FinalPending \cup FinalOpen}
  /\ phase' = "verified"
  /\ UNCHANGED <<recording, indexed, done>>

Init ==
  /\ active = [t \in Tracks |-> <<>>] /\ chunks = <<<<>>>> /\ calls = 0
  /\ identified \in BOOLEAN /\ unsaid = "no" /\ announced = {} /\ faults = {}
  /\ rows = <<>> /\ lastSource = 0 /\ done = 0
  /\ open = [t \in Tracks |-> <<>>] /\ pending = [t \in Tracks |-> <<>>]
  /\ exported = {} /\ issues = {} /\ phase = "record"

Next ==
  \/ \E t \in Tracks, f \in Functions : Enter(t, f)
  \/ \E t \in Tracks : Return(t) \/ ReturnUnprobed(t)
  \/ \E t \in Tracks, f \in {"twice", "unended"} : ReturnMalformed(t, f)
  \/ Drop \/ Rotate \/ Crash
  \/ BuildAll
  \/ \E n \in DOMAIN chunks : BuildWithout(n)
  \/ \E n \in 1..(Len(chunks) - 1) : BuildSwapped(n)
  \/ VerifyEnter \/ VerifyReopen \/ VerifyExitProbe \/ VerifySliceEnd \/ VerifyFinish

Spec == Init /\ [][Next]_vars

----------------------------------------------------------------------------
Of(kind) == {n \in 1..done : rows[n].kind = kind}
Codes == {i[1] : i \in issues}
Known == exported \cup {Export(i, "open") : i \in Unclosed}
           \cup {Export(i, "pending") : i \in UNION {ToSet(pending[t]) : t \in Tracks}}

(* No call is lost and none is counted twice: at every row, the real        *)
(* entries read so far are the invocations that are open, waiting for a     *)
(* reopen or exported, one each, and no reopen has made one of its own.     *)
OncePerCall ==
  /\ {e.invocation.call : e \in Known} = {rows[n].call : n \in Of("enter")}
  /\ Cardinality(Known) = Cardinality(Of("enter"))
  /\ \A e \in Known : e.invocation.real

(* Events of the same function cannot be told apart without call ids; this  *)
(* matters once the stack no longer is what the recorder's was.             *)
Ambiguous == ~identified /\ faults \cap {"lost", "swapped", "unended", "dropped"} # {}

(* An exit is never charged to another call, whatever was missed, lost or   *)
(* out of order, if the events carry call ids, and also without them if the *)
(* slices nest and no chunk is missing or out of place.                     *)
PairedRight ==
  \A e \in Known :
    (e.invocation.exit # None /\ ~Ambiguous) => e.invocation.exit = e.invocation.call

(* A packet was dropped and no later one of its sequence could say so.      *)
Unheard == "dropped" \in faults /\ unsaid # "no"

(* The verdict: a recording without a fault has no issue but the calls in   *)
(* flight at its end.  One without an issue is told right: each call is     *)
(* exported with a real exit, its own, and closed as often as reopened; and *)
(* no exit was missed or doubled and no slice left open, and no packet was  *)
(* dropped, unless a chunk is missing (it may be the one that would tell)   *)
(* or nothing was recorded after the drop that could announce it.           *)
VerdictIsRight ==
  phase = "verified" =>
    /\ faults = {} =>
         /\ Codes \subseteq {"final_in_flight_call"}
         /\ {e.invocation.call : e \in {x \in exported : x.kind # "real_exit"}}
              = {c.call : c \in UNION {ToSet(active[t]) : t \in Tracks}}
    /\ (issues = {} /\ ~Ambiguous) =>
         /\ ("lost" \notin faults /\ ~Unheard) => faults \subseteq {"swapped", "crash"}
         /\ \A e \in exported :
              /\ e.kind = "real_exit" /\ e.invocation.exit = e.invocation.call
              /\ e.invocation.closes = e.invocation.reopens
=============================================================================
