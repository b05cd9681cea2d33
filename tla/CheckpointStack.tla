-------------------------- MODULE CheckpointStack --------------------------
(***************************************************************************)
(* What snapshot_recorder promises: a stack of checkpoints of a machine,   *)
(* of bounded depth.  A new checkpoint on a full stack forgets the oldest; *)
(* going back n checkpoints restores the n-th newest and removes it with   *)
(* those above it, and so does going back to the newest one with a tag.    *)
(***************************************************************************)
EXTENDS Naturals, Sequences

CONSTANTS Depth, Images, Tags

VARIABLES stack, current  \* the checkpoints, newest last; the machine

Checkpoint == [image : Images, tag : Tags]

NthNewest(n) == stack[Len(stack) + 1 - n]

Save(tag) ==
  /\ stack' = Append(IF Len(stack) = Depth THEN Tail(stack) ELSE stack,
                     [image |-> current, tag |-> tag])
  /\ UNCHANGED current

GoBack(n) ==
  /\ n \in 1 .. Len(stack)
  /\ current' = NthNewest(n).image
  /\ stack' = SubSeq(stack, 1, Len(stack) - n)

GoBackTo(tag) ==
  \E n \in 1 .. Len(stack) :
    /\ NthNewest(n).tag = tag
    /\ \A k \in 1 .. n - 1 : NthNewest(k).tag # tag
    /\ GoBack(n)

Forget == stack' = << >> /\ UNCHANGED current

\* The machine goes on.
Live(m) == current' = m /\ UNCHANGED stack

CheckpointInit == stack = << >> /\ current \in Images

CheckpointNext ==
  \/ \E tag \in Tags : Save(tag) \/ GoBackTo(tag)
  \/ \E n \in 1 .. Depth : GoBack(n)
  \/ Forget
  \/ \E m \in Images : Live(m)

CheckpointSpec == CheckpointInit /\ [][CheckpointNext]_<<stack, current>>
=============================================================================
