---------------------------- MODULE MCTraceTools ----------------------------
EXTENDS TraceTools
MCDescriptor(track, parent, pid) ==
  [kind |-> "descriptor", sequence |-> 1, track |-> track, parent |-> parent, pid |-> pid]
MCDefaults(sequence, track) ==
  [kind |-> "defaults", sequence |-> sequence, track |-> track]
MCScoped(scope, sequence, track, flow, op, pid) ==
  [kind |-> "event", sequence |-> sequence, track |-> track, flow |-> flow,
   legacy |-> [kind |-> op, scope |-> scope, pid |-> pid, id |-> IF op = "none" THEN 0 ELSE 1]]
MCEvent(sequence, track, flow, op, pid) == MCScoped(0, sequence, track, flow, op, pid)
MCVocabulary ==
  {MCDescriptor(1, 0, 1), MCDescriptor(2, 1, 0), MCDescriptor(2, 0, 2)}
    \cup {MCDefaults(1, 1), MCDefaults(1, 2)}
    \cup {MCEvent(0, 1, 1, "none", 0), MCEvent(1, 0, 1, "local", 0),
          MCEvent(2, 2, 0, "local", 0), MCEvent(1, 0, 0, "local", 1),
          MCEvent(1, 0, 0, "unscoped", 0), MCEvent(2, 0, 0, "global", 0),
          MCScoped(1, 2, 0, 0, "global", 0)}
=============================================================================
