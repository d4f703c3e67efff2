--------------------------- MODULE FlightRecorder ---------------------------
(***************************************************************************)
(* What the compact recorder promises to whoever looks at its buffer at an *)
(* arbitrary moment (compact/FORMAT.md, "retain only the completely        *)
(* published record prefix"): a window on the sequence of records written. *)
(* A new record enters at the newest end, whole and in order; old records  *)
(* leave at the oldest end, at most a chunk of them at a time.             *)
(***************************************************************************)
EXTENDS Naturals, Sequences

CONSTANT ChunkRecords   \* most records a chunk can hold

VARIABLES written,      \* number of records written; record n is the n-th
          published,    \* number of records that have been visible
          window        \* the records visible now

promise == <<written, published, window>>

Init == written = 0 /\ published = 0 /\ window = <<>>

Write == written' = written + 1 /\ UNCHANGED <<published, window>>

Publish ==
  /\ published < written
  /\ published' = published + 1
  /\ window' = Append(window, published + 1)
  /\ UNCHANGED written

Evict ==
  /\ \E lost \in 1..ChunkRecords :
       lost <= Len(window) /\ window' = SubSeq(window, lost + 1, Len(window))
  /\ UNCHANGED <<written, published>>

Next == Write \/ Publish \/ Evict

Spec == Init /\ [][Next]_promise
=============================================================================
