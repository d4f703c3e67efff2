-------------------------- MODULE MCCompactWriter --------------------------
(* Values of the writer's constants for TLC.                                *)
EXTENDS CompactWriter, TLC

MCStateEvents == <<"call", "none">>

(* Wire sizes: a full chunk holds three profiled slices, or one literal and *)
(* one profiled slice; a re-encoded record may cost more than its first     *)
(* encoding did.                                                            *)
MCBits == [hot |-> 1, event |-> 2, tracked |-> 3, sync |-> 2]

(* Codes are reused between models, as canonical prefix codes are.          *)
MCCodebook ==
  (<<2, "call", 0, 1>> :> 0) @@ (<<0, "call", 0, 1>> :> 1) @@ (<<0, "call", 1, 0>> :> 0)
=============================================================================
