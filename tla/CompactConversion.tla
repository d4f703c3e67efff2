------------------------- MODULE CompactConversion -------------------------
(***************************************************************************)
(* From a decoded compact trace to a Perfetto trace: the mapping of        *)
(* counters to nanoseconds (CompactTrace) and the reconstruction of        *)
(* slices, flows and async operations (compact_trace_to_builder), for      *)
(* format v4.                                                              *)
(*                                                                         *)
(* The variables are a capture in the making, by the rules of the target's *)
(* writer: scopes end innermost first and on one clock generation, the     *)
(* counter never runs backwards, a generation is synchronised first or     *)
(* never.  The properties speak of the conversion of what was captured so  *)
(* far, and of every suffix of it that a wrapped ring retains.             *)
(***************************************************************************)
EXTENDS Integers, Sequences, FiniteSets, FiniteSetsExt, SequencesExt, TLC

CONSTANTS
  Tracks,
  FlowKeys, AsyncKeys,     \* series and correlation value, as <<s, c>>
  ScaleNum, ScaleDen,      \* nanoseconds per tick
  FlowIdRange,             \* number of flow ids (2^64)
  References,              \* reference times of synchronisations, in ns
  MaxItems, MaxDepth, MaxAdvance,   \* bounds
  Menus                    \* what a capture may consist of besides records

ASSUME ConversionAssumption ==
  /\ ScaleNum \in Nat \ {0} /\ ScaleDen \in Nat \ {0} /\ FlowIdRange \in Nat \ {0}
  /\ References \subseteq Nat
  /\ MaxItems \in Nat /\ MaxDepth \in Nat /\ MaxAdvance \in Nat
  /\ Menus \subseteq SUBSET {"slice", "flow", "async", "sync"}

(* A correlation value is a number, and there are ids for all that a trace  *)
(* can hold: allocate_flow_id tries 2^64 of them.                           *)
ASSUME FlowIdsSuffice ==
  MaxItems <= FlowIdRange /\ \A key \in FlowKeys : key[2] \in Nat

VARIABLES
  items,      \* records and synchronisations, in the order serialized
  scopes,     \* open scopes, innermost last
  now,        \* the counter, extended
  generation,
  menu        \* the kinds of item that this capture has

vars == <<items, scopes, now, generation, menu>>

----------------------------------------------------------------------------
(* Mapped time.  An item is [kind, generation, tick, duration, track, key,  *)
(* reference]; its index is its order.                                      *)

IsSync(x) == x.kind = "sync"
Syncs(s) == {i \in DOMAIN s : IsSync(s[i])}
Records(s) == DOMAIN s \ Syncs(s)
Of(s, g) == {i \in DOMAIN s : s[i].generation = g}
Anchors(s, g) == Syncs(s) \cap Of(s, g)

(* CompactTrace._scale_delta: to the nearest nanosecond, halves away from 0. *)
ScaleDelta(ticks) ==
  IF ticks >= 0 THEN (ticks * ScaleNum + ScaleDen \div 2) \div ScaleDen
  ELSE -((-ticks * ScaleNum + ScaleDen \div 2) \div ScaleDen)

StartTick(x) == x.tick - x.duration
FirstTick(s, g) == Min({StartTick(s[i]) : i \in Records(s) \cap Of(s, g)})
LastTick(s, g) == Max({s[i].tick : i \in Records(s) \cap Of(s, g)})

(* Where the first record of a generation without an anchor is placed: one  *)
(* nanosecond after the generations before it.                              *)
RelativeOrigin(s, g) ==
  LET earlier == {s[i].generation : i \in {j \in Records(s) :
                    s[j].generation # g /\ \A k \in Records(s) \cap Of(s, g) : j < k}}
  IN  MapThenFoldSet(LAMBDA x, y : x + y, 0,
        LAMBDA h : ScaleDelta(LastTick(s, h) - FirstTick(s, h)) + 1,
        LAMBDA S : CHOOSE x \in S : TRUE, earlier)

Extrapolated(anchor, tick) == anchor.reference + ScaleDelta(tick - anchor.tick)

Interpolated_Nominal(before, after, tick) == Extrapolated(before, tick)
Interpolated(before, after, tick) ==
  LET ticks == after.tick - before.tick
  IN  before.reference
        + ((tick - before.tick) * (after.reference - before.reference) + ticks \div 2)
             \div ticks

(* Time by the anchors of the item's own generation: between two of them by *)
(* interpolation, outside at the nominal rate.                              *)
AnchoredNs(s, g, tick) ==
  LET before == {i \in Anchors(s, g) : s[i].tick < tick}
      after  == Anchors(s, g) \ before
  IN  IF before = {} THEN Extrapolated(s[Min(after)], tick)
      ELSE IF after = {} THEN Extrapolated(s[Max(before)], tick)
      ELSE Interpolated(s[Max(before)], s[Min(after)], tick)

(* The one generation that may lack an anchor in a trace that has some: the *)
(* first of a wrapped ring.  It is placed right before the first item of    *)
(* the anchored rest.                                                       *)
Bare(s) == {s[i].generation : i \in {j \in Records(s) : Anchors(s, s[j].generation) = {}}}
Successor(s) == s[Min({i \in DOMAIN s : Anchors(s, s[i].generation) # {}})]
PrefixOrigin(s, g) ==
  AnchoredNs(s, Successor(s).generation, Successor(s).tick)
    - ScaleDelta(LastTick(s, g) - FirstTick(s, g))

Origin(s, g) == IF Syncs(s) # {} THEN PrefixOrigin(s, g) ELSE RelativeOrigin(s, g)

(* CompactTrace.timestamp_ns.                                               *)
TimestampNs(s, g, tick) ==
  IF Anchors(s, g) # {} THEN AnchoredNs(s, g, tick)
  ELSE Origin(s, g) + ScaleDelta(tick - FirstTick(s, g))

Ns(s, i) == TimestampNs(s, s[i].generation, s[i].tick)
StartNs(s, i) == TimestampNs(s, s[i].generation, StartTick(s[i]))

(* What CompactTrace.__post_init__ refuses in a strict trace.               *)
ReferencesRunBack(s) ==
  \E i, j \in Syncs(s) : i < j /\ s[j].reference < s[i].reference
AnchorsStand(s) ==
  \E i, j \in Syncs(s) : /\ i < j /\ s[i].generation = s[j].generation
                         /\ s[j].tick <= s[i].tick
AnchorMissing(s, wrapped) ==
  /\ Syncs(s) # {} /\ Bare(s) # {}
  /\ ~(wrapped /\ Bare(s) = {s[1].generation})
PrefixUnplaceable(s) ==
  Syncs(s) # {} /\ \E g \in Bare(s) : PrefixOrigin(s, g) < 0
TimeRunsBack(s) == \E i \in 2..Len(s) : Ns(s, i) < Ns(s, i - 1)

Accepted(s, wrapped) ==
  /\ ~ReferencesRunBack(s) /\ ~AnchorsStand(s)
  /\ ~AnchorMissing(s, wrapped) /\ ~PrefixUnplaceable(s)
  /\ ~TimeRunsBack(s)

----------------------------------------------------------------------------
(* The actions of compact_trace_to_builder.  They are sorted by (timestamp, *)
(* phase, nesting, order, suborder); no two have the same five.             *)

Action(what, i, ns, phase, nesting, order, suborder) ==
  [what |-> what, item |-> i, key |-> <<ns, phase, nesting, order, suborder>>]

Slices(s) == {i \in DOMAIN s : s[i].kind = "slice"}
Instantaneous(s) == {i \in Slices(s) : StartNs(s, i) = Ns(s, i)}

LexLess(a, b) ==
  \E n \in DOMAIN a : a[n] < b[n] /\ \A m \in 1..(n - 1) : a[m] = b[m]

(* The members of S in ascending order of their keys, which differ.         *)
Sorted(S, Key(_)) ==
  [n \in 1..Cardinality(S) |->
     CHOOSE x \in S : Cardinality({y \in S : LexLess(Key(y), Key(x))}) = n - 1]

(* Slices of no duration that share track, generation and nanosecond,       *)
(* outermost first.                                                         *)
ZeroGroup(s, i) ==
  LET peers == {j \in Instantaneous(s) : /\ s[j].track = s[i].track
                                         /\ s[j].generation = s[i].generation
                                         /\ Ns(s, j) = Ns(s, i)}
      key(j) == <<StartTick(s[j]), -s[j].tick, -j>>
  IN  Sorted(peers, key)

(* The group falls apart into components of overlapping tick intervals; the *)
(* begins of a component are all put where its first record is.             *)
Components_OneTouches(s, group) ==
  LET at[n \in DOMAIN group] ==
        LET x   == s[group[n]]
            new == [first |-> n, start |-> StartTick(x), end |-> x.tick]
        IN  IF n = 1 THEN new
            ELSE LET c == at[n - 1]
                 IN  IF StartTick(x) > c.end THEN new
                     ELSE [c EXCEPT !.end = Max({@, x.tick})]
  IN  at
Components(s, group) ==
  LET at[n \in DOMAIN group] ==
        LET x   == s[group[n]]
            new == [first |-> n, start |-> StartTick(x), end |-> x.tick]
        IN  IF n = 1 THEN new
            ELSE LET c == at[n - 1]
                 IN  IF /\ StartTick(x) >= c.end
                        /\ ~(StartTick(x) = c.start /\ x.tick = c.end)
                     THEN new
                     ELSE [c EXCEPT !.end = Max({@, x.tick})]
  IN  at

BeginOf(i, start, group, comps) ==
  LET n   == CHOOSE m \in DOMAIN group : group[m] = i
      own == {m \in DOMAIN group : comps[m].first = comps[n].first}
  IN  Action("begin", i, start, 1, 0,
             Min({group[m] : m \in own}), n - comps[n].first - Cardinality(own))
ZeroBegin(s, i) ==
  LET group == ZeroGroup(s, i)
  IN  BeginOf(i, StartNs(s, i), group, Components(s, group))

SliceActions(s) ==
  UNION {IF i \in Instantaneous(s)
         THEN {ZeroBegin(s, i), Action("end", i, Ns(s, i), 1, 0, i, 1)}
         ELSE {Action("begin", i, StartNs(s, i), 2, StartNs(s, i) - Ns(s, i), -i, 0),
               Action("end", i, Ns(s, i), 1, 0, i, 0)}
         : i \in Slices(s)}

(* The item of the same kind and key before `i`; 0 if there is none.        *)
SameKey(s, kinds, i) ==
  {j \in DOMAIN s : s[j].kind \in kinds /\ s[j].key = s[i].key /\ s[j].track = s[i].track}
Previous(s, kinds, i) == Max({0} \cup {j \in SameKey(s, kinds, i) : j < i})

AsyncKinds == {"async_begin", "async_end"}
Asyncs(s) == {i \in DOMAIN s : s[i].kind \in AsyncKinds}
AsyncOpen(s, i) ==
  LET p == Previous(s, AsyncKinds, i) IN p # 0 /\ s[p].kind = "async_begin"
StillOpen(s) ==
  {i \in Asyncs(s) : /\ s[i].kind = "async_begin"
                     /\ \A j \in SameKey(s, AsyncKinds, i) : j <= i}
LastNs(s) == Max({Ns(s, i) : i \in DOMAIN s})

(* A repeated begin closes the operation before it; what is open at the end *)
(* is closed at the last time seen.                                         *)
AsyncActions(s) ==
  {Action(IF s[i].kind = "async_end" /\ ~AsyncOpen(s, i) THEN "orphan_end"
          ELSE s[i].kind, i, Ns(s, i), 1, 0, i, 0) : i \in Asyncs(s)}
  \cup {Action("async_end", Previous(s, AsyncKinds, i), Ns(s, i), 1, 0, i, -1) :
          i \in {j \in Asyncs(s) : s[j].kind = "async_begin" /\ AsyncOpen(s, j)}}
  \cup {Action("async_end", i, LastNs(s), 1, 0, i, 1) : i \in StillOpen(s)}

FlowKinds == {"flow_start", "flow_step", "flow_end"}
Flows(s) == {i \in DOMAIN s : s[i].kind \in FlowKinds}
FlowPrevious(s, i) ==
  Max({0} \cup {j \in Flows(s) : j < i /\ s[j].key = s[i].key})

(* The record that opened the lifecycle `i` belongs to: a start, or a step  *)
(* whose start was lost; 0 for an end on its own.                           *)
Lifecycle_Reopens(s) ==
  LET of[i \in Flows(s)] ==
        LET p == FlowPrevious(s, i)
        IN  IF s[i].kind = "flow_start" THEN i
            ELSE IF p # 0 THEN of[p]
            ELSE IF s[i].kind = "flow_step" THEN i ELSE 0
  IN  of
Lifecycle(s) ==
  LET of[i \in Flows(s)] ==
        LET p == FlowPrevious(s, i)
        IN  IF s[i].kind = "flow_start" THEN i
            ELSE IF p # 0 /\ s[p].kind # "flow_end" THEN of[p]
            ELSE IF s[i].kind = "flow_step" THEN i ELSE 0
  IN  of
Openers(s) == LET life == Lifecycle(s) IN {i \in Flows(s) : life[i] = i}

(* allocate_flow_id: the correlation value, or the next id not in use.      *)
FlowIds(s) ==
  LET openers == Openers(s)
      id[i \in openers] ==
        LET used == {id[j] : j \in {k \in openers : k < i}}
            tries == {n \in 0..(FlowIdRange - 1) :
                        (s[i].key[2] + n) % FlowIdRange \notin used}
        IN  (s[i].key[2] + Min(tries)) % FlowIdRange
  IN  id

NoFlow == -1
FlowId(s) ==
  LET life == Lifecycle(s)
      ids  == FlowIds(s)
  IN  [i \in Flows(s) |-> IF life[i] = 0 THEN NoFlow ELSE ids[life[i]]]

(* How an opener is annotated: its beginning or its end is not in the trace. *)
TruncatedBegin(s, i) == s[i].kind = "flow_step"
TruncatedEnd(s, i) ==
  LET life == Lifecycle(s)
  IN  ~\E j \in Flows(s) : s[j].kind = "flow_end" /\ life[j] = i

FlowActions(s) ==
  {Action(IF Lifecycle(s)[i] = 0 THEN "flow_orphan" ELSE s[i].kind,
          i, Ns(s, i), 1, 0, i, 0) : i \in Flows(s)}
SyncActions(s) == {Action("clock_sync", i, Ns(s, i), 1, 0, i, 0) : i \in Syncs(s)}
Actions(s) == SliceActions(s) \cup AsyncActions(s) \cup FlowActions(s) \cup SyncActions(s)

(* What the conversion refuses: crossing slices and times before 0.         *)
SlicesCross(s) ==
  \E i, j \in Slices(s) :
    /\ s[i].track = s[j].track
    /\ StartNs(s, i) < StartNs(s, j) /\ StartNs(s, j) < Ns(s, i)
    /\ Ns(s, i) < Ns(s, j)
Refused(s) == SlicesCross(s) \/ \E a \in Actions(s) : a.key[1] < 0
Converts(s, wrapped) == Accepted(s, wrapped) /\ ~Refused(s)

(* The packets in the order they are written: all, or those of one track.   *)
Ordered(actions) == Sorted(actions, LAMBDA a : a.key)
Converted(s) == Ordered(Actions(s))
OnTrack(s, actions, track) == Ordered({a \in actions : s[a.item].track = track})

----------------------------------------------------------------------------
(* The capture.                                                             *)

Item(kind, tick, duration, track, key, reference) ==
  [kind |-> kind, generation |-> generation, tick |-> tick, duration |-> duration,
   track |-> track, key |-> key, reference |-> reference]
NoKey == <<0, 0>>
AnyTrack == CHOOSE t \in Tracks : TRUE

SyncedOrEmpty == Of(items, generation) = {} \/ Anchors(items, generation) # {}

Begin(track, advance) ==
  /\ "slice" \in menu
  /\ Len(scopes) < MaxDepth /\ Len(items) + Len(scopes) < MaxItems
  /\ now' = now + advance
  /\ scopes' = Append(scopes, [track |-> track, tick |-> now'])
  /\ UNCHANGED <<items, generation, menu>>

End(advance) ==
  /\ scopes # <<>>
  /\ now' = now + advance
  /\ items' = Append(items, Item("slice", now', now' - Last(scopes).tick,
                                 Last(scopes).track, NoKey, 0))
  /\ scopes' = Front(scopes)
  /\ UNCHANGED <<generation, menu>>

Emit(kind, key, advance) ==
  /\ Len(items) + Len(scopes) < MaxItems
  /\ now' = now + advance
  /\ items' = Append(items, Item(kind, now', 0, AnyTrack, key, 0))
  /\ UNCHANGED <<scopes, generation, menu>>

Sync(reference, advance) ==
  /\ "sync" \in menu /\ Len(items) + Len(scopes) < MaxItems
  /\ SyncedOrEmpty
  /\ now' = now + advance
  /\ \A i \in Anchors(items, generation) : items[i].tick < now'
  /\ items' = Append(items, Item("sync", now', 0, AnyTrack, NoKey, reference))
  /\ UNCHANGED <<scopes, generation, menu>>

(* The counter of the new generation starts over.                           *)
Transition(reference) ==
  /\ "sync" \in menu /\ Len(items) < MaxItems /\ items # <<>>
  /\ scopes = <<>> /\ SyncedOrEmpty
  /\ generation' = generation + 1
  /\ now' = 0
  /\ items' = Append(items, [Item("sync", 0, 0, AnyTrack, NoKey, reference)
                               EXCEPT !.generation = generation + 1])
  /\ UNCHANGED <<scopes, menu>>

Init ==
  /\ items = <<>> /\ scopes = <<>> /\ now = 0 /\ generation = 0
  /\ menu \in Menus

(* Flows are recorded at one pace: of their times the conversion uses only  *)
(* the order.                                                               *)
Next ==
  \E advance \in 0..MaxAdvance :
    \/ \E track \in Tracks : Begin(track, advance)
    \/ End(advance)
    \/ /\ "flow" \in menu /\ advance = MaxAdvance
       /\ \E kind \in FlowKinds, key \in FlowKeys : Emit(kind, key, advance)
    \/ /\ "async" \in menu
       /\ \E kind \in AsyncKinds, key \in AsyncKeys : Emit(kind, key, advance)
    \/ \E reference \in References : Sync(reference, advance)
    \/ \E reference \in References : advance = 0 /\ Transition(reference)

Spec == Init /\ [][Next]_vars

----------------------------------------------------------------------------
(* What a full capture may be read as: all of it, or what a ring retains.   *)
Retained == {[s |-> SubSeq(items, k, Len(items)), wrapped |-> k > 1] :
               k \in 1..Len(items)}

(* Generations meet where the counter starts over.                          *)
StepsBack(s) ==
  \E i \in 2..Len(s) : s[i].generation # s[i - 1].generation
                         /\ s[i].reference < Ns(s, i - 1)

(* A capture by the writer's rules is refused by the clock checks of the    *)
(* reader for its references alone: they run backwards, the first reference *)
(* of a generation lies before the extrapolated end of the one before, or   *)
(* the retained unanchored prefix is longer than the time since boot.       *)
(* Within a generation no rounding or interpolation makes time run back.    *)
RefusedForReferences ==
  \A r \in Retained :
    (~ReferencesRunBack(r.s) /\ ~StepsBack(r.s) /\ ~PrefixUnplaceable(r.s))
      => Accepted(r.s, r.wrapped)

(* Perfetto ends the innermost open slice of a track: the stack after the   *)
(* first n packets of a track, <<0>> once an end met the wrong slice.       *)
Stacks(packets) ==
  LET after[n \in 0..Len(packets)] ==
        IF n = 0 THEN <<>>
        ELSE LET open == after[n - 1]
             IN  CASE open = <<0>> -> <<0>>
                   [] open # <<0>> /\ packets[n].what = "begin" ->
                        Append(open, packets[n].item)
                   [] open # <<0>> /\ packets[n].what = "end" ->
                        IF open # <<>> /\ Last(open) = packets[n].item
                        THEN Front(open) ELSE <<0>>
  IN  after
Balanced(packets) == Stacks(packets)[Len(packets)] = <<>>

Together(s, i, j) ==
  /\ s[i].track = s[j].track /\ s[i].generation = s[j].generation
  /\ Ns(s, i) = Ns(s, j)
Apart(s, i, j) == i < j /\ StartTick(s[j]) >= s[i].tick

(* Slices of no duration whose begins are put together although the scopes  *)
(* followed one another: around the end of a longer slice, with which they  *)
(* share a tick, or inside another slice of no duration that spans both.    *)
Straddled(s) ==
  \E i, j \in Instantaneous(s), k \in Slices(s) \ Instantaneous(s) :
    /\ i < k /\ k < j /\ Together(s, i, k) /\ Together(s, j, k)
    /\ {StartTick(s[i]), s[i].tick, StartTick(s[j])} = {s[k].tick}
Spanned(s) ==
  \E i, j, k \in Instantaneous(s) :
    /\ Apart(s, i, j) /\ j < k /\ Together(s, i, j) /\ Together(s, j, k)
    /\ StartTick(s[k]) <= StartTick(s[i])

(* Slices of nested scopes never cross, and come out properly bracketed,    *)
(* also where several begin and end within one nanosecond and where clock   *)
(* generations meet: on every track each end closes the slice it belongs    *)
(* to, and all are closed.  Straddled and spanned slices are the exception. *)
SlicesNest ==
  \A r \in Retained : Accepted(r.s, r.wrapped) =>
    /\ ~SlicesCross(r.s)
    /\ Straddled(r.s) \/ Spanned(r.s) \/ \A track \in Tracks :
         Balanced(OnTrack(r.s, SliceActions(r.s), track))

(* Raw counter intervals distinguish adjacent slices that round to the same *)
(* nanosecond: a slice that began a tick or more after another had ended    *)
(* does not begin in the Perfetto trace before that one ends.               *)
AdjacentStayApart ==
  \A r \in Retained : Converts(r.s, r.wrapped) =>
    \A i, j \in Instantaneous(r.s) :
      (/\ i < j /\ Together(r.s, i, j) /\ StartTick(r.s[j]) > r.s[i].tick) =>
        LexLess(<<Ns(r.s, i), 1, 0, i, 1>>, ZeroBegin(r.s, j).key)

(* The lifecycles that are not marked as truncated, each as its records.    *)
Unmarked(s) ==
  LET life == Lifecycle(s)
  IN  {{j \in Flows(s) : life[j] = i} :
         i \in {o \in Openers(s) : ~TruncatedBegin(s, o) /\ ~TruncatedEnd(s, o)}}

(* In the order written, packets that share an id are of one lifecycle,     *)
(* which an end closes for good.                                            *)
IdsSeparate(s, packets, id) ==
  LET flow == {n \in DOMAIN packets : packets[n].item \in Flows(s)
                                        /\ packets[n].what # "flow_orphan"}
  IN  \A n, m \in flow : (n < m /\ id[packets[n].item] = id[packets[m].item]) =>
        /\ s[packets[n].item].key = s[packets[m].item].key
        /\ packets[n].what # "flow_end" /\ packets[m].what # "flow_start"

(* Begins and ends of an async operation alternate, from a begin to an end, *)
(* with orphaned ends only in between.                                      *)
Alternate(s, steps) ==
  \A n \in DOMAIN steps :
    /\ steps[n].what = "async_begin" =>
         n < Len(steps) /\ steps[n + 1].what = "async_end"
           /\ (s[steps[n + 1].item].kind = "async_begin" => steps[n + 1].item = steps[n].item)
    /\ steps[n].what = "async_end" => n > 1 /\ steps[n - 1].what = "async_begin"

(* Flow ids connect what belongs together and nothing else, and what is not *)
(* marked as truncated is a lifecycle of the whole capture, whatever the    *)
(* ring has lost.  On the track of an async operation begins and ends       *)
(* alternate.                                                               *)
LifecyclesSeparate ==
  LET complete == Unmarked(items)
  IN  \A r \in Retained :
    LET s    == r.s
        lost == Len(items) - Len(s)
    IN  /\ {{lost + i : i \in records} : records \in Unmarked(s)}
             = {records \in complete : \A i \in records : i > lost}
        /\ (Flows(s) \cup Asyncs(s) # {} /\ Converts(s, r.wrapped)) =>
             /\ IdsSeparate(s, Converted(s), FlowId(s))
             /\ \A key \in AsyncKeys :
                  Alternate(s, Ordered({a \in AsyncActions(s) : s[a.item].key = key}))
=============================================================================
