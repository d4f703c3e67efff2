------------------------- MODULE MCCompactRoundTrip -------------------------
(* Values of the constants for TLC: as in MCCompactWriter, with a second    *)
(* track so that records select tracks.                                     *)
EXTENDS CompactRoundTrip, TLC

MCStateEvents == <<"call", "none">>
MCBits == [hot |-> 1, event |-> 2, tracked |-> 3, sync |-> 2]

(* With the clock, a chunk of five bits holds two events and a              *)
(* synchronisation, or an event between synchronisations.                   *)
MCClockBits == [hot |-> 1, event |-> 2, tracked |-> 3, sync |-> 1]

MCCodebook ==
  (<<2, "call", 0, 1>> :> 0) @@ (<<0, "call", 0, 1>> :> 1) @@ (<<0, "call", 1, 0>> :> 0)
=============================================================================
