----------------------------- MODULE MCSpscFsm -----------------------------
(* SpscFsm with two register words, a queue of two and two operations:     *)
(* enough for a read to overlap two operations and for a reset() to run    *)
(* between posts on either side of it.                                     *)
EXTENDS SpscFsm

CONSTANTS w1, w2, off, on
MCWords == {w1, w2}
MCStates == {off, on}
=============================================================================
