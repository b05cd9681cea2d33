------------------------- MODULE MCSnapshotRecorder -------------------------
(* A machine that moves between c, in the composite state P, and a, in the *)
(* composite state Q in P, so that two history entries share a slot.  With *)
(* names of one length a slot keeps its layout; when c is longer than the  *)
(* others (InPlace.cfg, ShiftedHistory.cfg), the names behind it may move. *)
EXTENDS SnapshotRecorder

Inside(p, s) == [parent |-> p, sub |-> s]
MCPath == [m \in {"a", "c"} |->
             IF m = "a" THEN <<Inside("Q", "a"), Inside("P", "Q")>> ELSE <<Inside("P", "c")>>]
EvenWidth   == [n \in {"P", "Q", "a", "c"} |-> 2]
UnevenWidth == [EvenWidth EXCEPT !["c"] = 4]
=============================================================================
