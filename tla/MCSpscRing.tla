---------------------------- MODULE MCSpscRing ----------------------------
(* SpscRing on two slots whose counters wrap at four: every alignment of   *)
(* the two counters, including the wrap, occurs.                           *)
EXTENDS SpscRing

CONSTANTS a, b
MCValues == {a, b}
=============================================================================
