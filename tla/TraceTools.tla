----------------------------- MODULE TraceTools -----------------------------
(***************************************************************************)
(* The tools that write a file, run side by side: one of the runs may be a *)
(* merge, which writes its packets as it reads its sources; the others are *)
(* conversions of compact traces, or builds of an index.                   *)
(***************************************************************************)
EXTENDS TraceMerge, AtomicOutput

CONSTANT Merger     \* the run that merges, if it writes a trace

ASSUME MergerAssumption == Merger \in Jobs

vars == <<mergeVars, outputVars>>

Init == MergeInit /\ OutputInit

Merging == kind[Merger] = "trace" /\ job[Merger] = "writing"

(* A merge is streamed: packets are written while the file is.  Its tables  *)
(* are those of its process.                                                *)
Stream ==
  /\ Merging
  /\ \A j \in Jobs \ {Merger} : job[j] = "idle"
  /\ MergePacket \/ NextSource
  /\ UNCHANGED outputVars

Next ==
  \/ Stream
  \/ OutputNext /\ IF Merging /\ job'[Merger] # "writing" THEN MergeEnd
                   ELSE UNCHANGED mergeVars

Spec == Init /\ [][Next]_vars

=============================================================================
