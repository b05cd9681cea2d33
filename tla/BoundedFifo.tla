---------------------------- MODULE BoundedFifo ----------------------------
(***************************************************************************)
(* What spsc_ring_buffer promises its two clients: a bounded first-in      *)
(* first-out queue.  The producer appends while there is room, the         *)
(* consumer takes the oldest element, and clear() drops at one instant all *)
(* the elements the queue then holds.  SpscRing implements this module.    *)
(***************************************************************************)
EXTENDS Naturals, Sequences

CONSTANTS Capacity, Values

VARIABLES queue,   \* the elements, oldest first
          out      \* the element last given to the consumer, <<>> before any

fifoVars == <<queue, out>>

FifoInit == queue = << >> /\ out = << >>

Put(v) ==
  /\ Len(queue) < Capacity
  /\ queue' = Append(queue, v)
  /\ UNCHANGED out

Take ==
  /\ queue # << >>
  /\ out' = <<Head(queue)>>
  /\ queue' = Tail(queue)

Drop ==
  /\ queue' = << >>
  /\ UNCHANGED out

FifoNext == (\E v \in Values : Put(v)) \/ Take \/ Drop

FifoSpec == FifoInit /\ [][FifoNext]_fifoVars
=============================================================================
