----------------------------- MODULE CallGraph -----------------------------
(***************************************************************************)
(* function_trace_summary: the call graph that is read from the slices of  *)
(* a converted capture.  Every call has a name of its own here: calls of   *)
(* one name under one caller are only counted together.                    *)
(***************************************************************************)
EXTENDS CompactConversion

(* The packets in front of the events: a descriptor for the process, each   *)
(* track, each async operation and the clock.                               *)
Headers(s) ==
  1 + Cardinality(Tracks) + Cardinality({<<s[i].track, s[i].key>> : i \in Asyncs(s)})
    + (IF Syncs(s) # {} THEN 1 ELSE 0)

(* load_slice_events: the index of a packet stands for a time that is 0;    *)
(* sorted by time and type, a begin before an end, otherwise stable.        *)
EventsAmong(s, packets, track) ==
  LET slices  == {n \in DOMAIN packets : /\ packets[n].what \in {"begin", "end"}
                                         /\ s[packets[n].item].track = track}
      time(n) == IF packets[n].key[1] = 0 THEN Headers(s) + n - 1 ELSE packets[n].key[1]
      type(n) == IF packets[n].what = "begin" THEN 1 ELSE 2
      order   == Sorted(slices, LAMBDA n : <<time(n), type(n), n>>)
  IN  [k \in DOMAIN order |-> packets[order[k]]]
SliceEvents(s, track) == EventsAmong(s, Converted(s), track)

(* build_call_graph: the calls on the stack of the track after each event.  *)
(* An end takes the innermost one off, whichever it is.                     *)
CallStacks(events) ==
  LET after[n \in 0..Len(events)] ==
        IF n = 0 THEN <<>>
        ELSE LET stack == after[n - 1]
             IN  IF events[n].what = "begin" THEN Append(stack, events[n].item)
                 ELSE IF stack = <<>> THEN stack ELSE Front(stack)
  IN  after

(* The path from the root of the graph to a call.                           *)
Path(events, i) ==
  LET n == CHOOSE k \in DOMAIN events : events[k].what = "begin" /\ events[k].item = i
  IN  CallStacks(events)[n - 1]
Callers(s, i) == Path(SliceEvents(s, s[i].track), i)

(* The summary is a call graph: a call that began when another had already  *)
(* ended, in nanoseconds, is not listed under it.                           *)
AfterNotInside ==
  \A r \in Retained : Converts(r.s, r.wrapped) =>
    \A i, j \in Slices(r.s) \ Instantaneous(r.s) :
      (/\ r.s[i].track = r.s[j].track
       /\ 0 < StartNs(r.s, i) /\ Ns(r.s, i) <= StartNs(r.s, j)) =>
        i \notin ToSet(Callers(r.s, j))
=============================================================================
