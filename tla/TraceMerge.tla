----------------------------- MODULE TraceMerge -----------------------------
(***************************************************************************)
(* merge_perfetto_traces: the packets of several independent traces, one   *)
(* source after the other, with the identifiers of sequences, tracks,      *)
(* flows and legacy operations mapped so that sources do not collide.      *)
(*                                                                         *)
(* A source is a trace in which tracks are described, parents first, before *)
(* events and defaults.                                                    *)
(***************************************************************************)
EXTENDS Integers, Sequences, FiniteSets

CONSTANTS
  Vocabulary,                \* the packets that sources consist of
  MaxSources, MaxPackets     \* bounds

VARIABLES
  source,          \* number of the source being read
  read,            \* the packets so far, each with its source
  written,         \* the packets written, in the same order
  track_ids, sequence_ids, flow_ids,   \* <<source, value>> -> id
  legacy_ids,      \* <<source, kind, scope, pid, value>> -> id
  track_scopes,    \* <<source, uuid>> -> parent and pid
  default_tracks   \* <<source, sequence>> -> uuid

ids == <<track_ids, sequence_ids, flow_ids, legacy_ids>>
mergeVars == <<source, read, written, ids, track_scopes, default_tracks>>

None == 0

----------------------------------------------------------------------------
(* Packets.  0 stands for a field that is not set.  The id of a legacy      *)
(* operation is local to its process, global, or either, as its phase has   *)
(* it (unscoped_id); a name may narrow it further (id_scope).               *)
Descriptors ==
  [kind : {"descriptor"}, sequence : Nat, track : Nat, parent : Nat, pid : Nat]
Defaults == [kind : {"defaults"}, sequence : Nat, track : Nat]
Legacies ==
  [kind : {"none", "local", "global", "unscoped"}, scope : Nat, pid : Nat, id : Nat]
Events == [kind : {"event"}, sequence : Nat, track : Nat, flow : Nat, legacy : Legacies]

ASSUME MergeAssumption ==
  /\ Vocabulary \subseteq Descriptors \cup Defaults \cup Events
  /\ \A p \in Vocabulary : p.kind # "event" => p.track # None
  /\ MaxSources \in Nat /\ MaxPackets \in Nat

HasLegacy(p) == p.legacy.kind # "none"

InSource(s) == {n \in DOMAIN read : read[n].source = s}
DescribedIn(s) ==
  {read[n].packet.track : n \in {m \in InSource(s) : read[m].packet.kind = "descriptor"}}
OnlyDescribed == \A n \in InSource(source) : read[n].packet.kind = "descriptor"

----------------------------------------------------------------------------
(* map_track, map_sequence, map_flow, map_legacy_id: a table with one more  *)
(* entry if the key is new; the counter is the number of entries.           *)
Mapped(table, key) ==
  IF key \in DOMAIN table THEN table
  ELSE [k \in DOMAIN table \cup {key} |->
          IF k = key THEN Cardinality(DOMAIN table) + 1 ELSE table[k]]
Noted(table, key, value) ==
  [k \in DOMAIN table \cup {key} |-> IF k = key THEN value ELSE table[k]]

(* 0 stays 0.                                                               *)
MappedUnless0(table, value) ==
  IF value = None THEN table ELSE Mapped(table, <<source, value>>)
Lookup(table, value) == IF value = None THEN None ELSE table[<<source, value>>]

(* The process of a track: the one it names, or else that of its parent.    *)
(* Parents are described first, so this ends.                               *)
Process(scopes, track) ==
  LET pid[t \in DOMAIN scopes \cup {None}] ==
        IF t \notin DOMAIN scopes THEN None
        ELSE IF scopes[t].pid # None THEN scopes[t].pid ELSE pid[scopes[t].parent]
  IN  IF track \in DOMAIN scopes THEN pid[track] ELSE None

EffectivePid(uuid) ==
  LET uuids == {k[2] : k \in {l \in DOMAIN track_scopes : l[1] = source}}
  IN  Process([t \in uuids |-> track_scopes[<<source, t>>]], uuid)

DefaultTrack_AnySource(sequence) ==
  LET known == {k \in DOMAIN default_tracks : k[2] = sequence}
  IN  IF known = {} THEN None ELSE default_tracks[CHOOSE k \in known : TRUE]
DefaultTrack(sequence) ==
  IF <<source, sequence>> \in DOMAIN default_tracks
  THEN default_tracks[<<source, sequence>>] ELSE None

LegacyKey(event) ==
  LET track == IF event.track # None THEN event.track ELSE DefaultTrack(event.sequence)
      pid   == IF event.legacy.kind = "global" THEN None
               ELSE IF event.legacy.pid # None THEN event.legacy.pid
               ELSE EffectivePid(track)
  IN  <<source, event.legacy.kind, event.legacy.scope, pid, event.legacy.id>>

Write(packet, mapped) ==
  /\ Len(read) < MaxPackets
  /\ read' = Append(read, [source |-> source, packet |-> packet])
  /\ written' = Append(written, mapped)
  /\ UNCHANGED source

MergeDescriptor(p) ==
  /\ p.kind = "descriptor" /\ OnlyDescribed /\ p.track \notin DescribedIn(source)
  /\ p.parent \in DescribedIn(source) \cup {None}
  /\ sequence_ids' = MappedUnless0(sequence_ids, p.sequence)
  /\ track_scopes' = Noted(track_scopes, <<source, p.track>>,
                           [parent |-> p.parent, pid |-> p.pid])
  /\ track_ids' = MappedUnless0(MappedUnless0(track_ids, p.track), p.parent)
  /\ Write(p, [p EXCEPT !.sequence = Lookup(sequence_ids', @),
                        !.track = Lookup(track_ids', @),
                        !.parent = Lookup(track_ids', @)])
  /\ UNCHANGED <<flow_ids, legacy_ids, default_tracks>>

MergeDefaults_SameSequence(p) ==
  /\ p.kind = "defaults"
  /\ default_tracks' = Noted(default_tracks, <<source, p.sequence>>, p.track)
  /\ track_ids' = MappedUnless0(track_ids, p.track)
  /\ Write(p, [p EXCEPT !.track = Lookup(track_ids', @)])
  /\ UNCHANGED <<sequence_ids, flow_ids, legacy_ids, track_scopes>>
MergeDefaults(p) ==
  /\ p.kind = "defaults"
  /\ sequence_ids' = MappedUnless0(sequence_ids, p.sequence)
  /\ default_tracks' = Noted(default_tracks, <<source, p.sequence>>, p.track)
  /\ track_ids' = MappedUnless0(track_ids, p.track)
  /\ Write(p, [p EXCEPT !.sequence = Lookup(sequence_ids', @),
                        !.track = Lookup(track_ids', @)])
  /\ UNCHANGED <<flow_ids, legacy_ids, track_scopes>>

MergeEvent(p) ==
  /\ p.kind = "event"
  /\ sequence_ids' = MappedUnless0(sequence_ids, p.sequence)
  /\ track_ids' = MappedUnless0(track_ids, p.track)
  /\ flow_ids' = MappedUnless0(flow_ids, p.flow)
  /\ legacy_ids' = IF HasLegacy(p) THEN Mapped(legacy_ids, LegacyKey(p)) ELSE legacy_ids
  /\ Write(p, [p EXCEPT !.sequence = Lookup(sequence_ids', @),
                        !.track = Lookup(track_ids', @),
                        !.flow = Lookup(flow_ids', @),
                        !.legacy = [p.legacy EXCEPT !.id =
                                      IF HasLegacy(p) THEN legacy_ids'[LegacyKey(p)]
                                      ELSE p.legacy.id]])
  /\ UNCHANGED <<track_scopes, default_tracks>>

NextSource ==
  /\ source < MaxSources /\ InSource(source) # {}
  /\ source' = source + 1
  /\ UNCHANGED <<read, written, ids, track_scopes, default_tracks>>

MergeInit ==
  /\ source = 1 /\ read = <<>> /\ written = <<>>
  /\ track_ids = <<>> /\ sequence_ids = <<>> /\ flow_ids = <<>> /\ legacy_ids = <<>>
  /\ track_scopes = <<>> /\ default_tracks = <<>>

(* The tables go with the run.                                              *)
MergeEnd ==
  /\ source' = 1 /\ read' = <<>> /\ written' = <<>>
  /\ track_ids' = <<>> /\ sequence_ids' = <<>> /\ flow_ids' = <<>> /\ legacy_ids' = <<>>
  /\ track_scopes' = <<>> /\ default_tracks' = <<>>

MergePacket ==
  \E p \in Vocabulary : MergeDescriptor(p) \/ MergeDefaults(p) \/ MergeEvent(p)

----------------------------------------------------------------------------
(* How a reader of a trace sees it: the track of an event is its own or the *)
(* default that its sequence set last; the process is that of the track.    *)
TrackOf(packets, n) ==
  LET p       == packets[n]
      setting == {m \in 1..n : /\ packets[m].kind = "defaults"
                               /\ packets[m].sequence = p.sequence}
  IN  IF p.track # None THEN p.track
      ELSE IF setting = {} THEN None
      ELSE packets[CHOOSE m \in setting : \A k \in setting : k <= m].track

Scopes(packets) == {m \in DOMAIN packets : packets[m].kind = "descriptor"}
ScopesIn(packets) ==
  LET at(t) == CHOOSE m \in Scopes(packets) : packets[m].track = t
  IN  [t \in {packets[m].track : m \in Scopes(packets)} |->
         [parent |-> packets[at(t)].parent, pid |-> packets[at(t)].pid]]
PidOf(packets, track) == Process(ScopesIn(packets), track)

Operation(packets, n) ==
  LET l == packets[n].legacy
  IN  <<l.kind, l.scope, l.id,
        IF l.kind = "global" THEN None
        ELSE IF l.pid # None THEN l.pid ELSE PidOf(packets, TrackOf(packets, n))>>

(* The packets of a source on their own, in their place.                    *)
Alone(s) ==
  [n \in DOMAIN read |->
     IF read[n].source = s THEN read[n].packet ELSE [kind |-> "other", sequence |-> None,
                                                     track |-> None]]

(* Two of an equivalence: what is one in the merged trace is one in one     *)
(* source, and the other way round.                                         *)
Same(n, m, Identity(_, _)) ==
  (Identity(written, n) = Identity(written, m)) <=>
    /\ read[n].source = read[m].source
    /\ LET alone == Alone(read[n].source)
       IN  Identity(alone, n) = Identity(alone, m)

EventsRead == {n \in DOMAIN read : read[n].packet.kind = "event"}

(* A packet without a sequence has no defaults in the trace that is written: *)
(* these hold of the events that have one.                                   *)
Sequenced == {n \in EventsRead : read[n].packet.sequence # None}

(* A reader of the merged trace finds each event on the track it had in its *)
(* source, defaults included, of the same process; events of two sources    *)
(* are never on one track.                                                  *)
TracksKept ==
  /\ \A n, m \in {k \in Sequenced : TrackOf(Alone(read[k].source), k) # None} :
       Same(n, m, TrackOf)
  /\ \A n \in Sequenced :
       LET alone == Alone(read[n].source)
       IN  /\ (TrackOf(written, n) = None) <=> (TrackOf(alone, n) = None)
           /\ PidOf(written, TrackOf(written, n)) = PidOf(alone, TrackOf(alone, n))

(* Flows and legacy operations are connected in the merged trace exactly as *)
(* they were in the sources.  What an unscoped id is unique in depends on   *)
(* the phase of the operation, which the merge does not look at.            *)
ConnectionsKept ==
  /\ \A n, m \in {k \in EventsRead : read[k].packet.flow # None} :
       Same(n, m, LAMBDA packets, k : packets[k].flow)
  /\ \A n, m \in {k \in Sequenced : read[k].packet.legacy.kind \in {"local", "global"}} :
       Same(n, m, Operation)
=============================================================================
