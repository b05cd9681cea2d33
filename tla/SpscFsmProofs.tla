--------------------------- MODULE SpscFsmProofs ---------------------------
(***************************************************************************)
(* For any registers, queue and number of operations: the seqlock hands    *)
(* out no torn snapshot, as long as tick() leaves the machine alone and    *)
(* stores do not pass the increment before them; reset() is a barrier for  *)
(* what was posted before it, without any such condition.                  *)
(***************************************************************************)
EXTENDS SpscFsm, TLAPS

\* Between the two increments of seq_.
Bracketed == cpc \in {"clearing", "working", "published"} /\ op # "tick"

TypeInv ==
  /\ ops \in OpNumbers /\ lastReset \in Nat
  /\ op \in {"none", "event", "step", "reset", "tick"}
  /\ cpc \in {"idle", "called", "clearing", "working", "published"}
  /\ cpc \in {"called", "clearing", "published"} => op # "tick"
  /\ cpc # "idle" => ops > 0
  /\ regs \in Registers /\ seq \in Nat /\ s0 \in Nat
  /\ rpc \in {"idle", "load", "copy"}
  /\ copy \in [Words -> OpNumbers \cup {NotCopied}]
  /\ queue \in Seq(Nat)

\* Two increments for each operation, so seq_ does not come round; it is odd
\* exactly inside a bracket.
SeqInv ==
  /\ cpc = "idle" => seq <= 2 * ops
  /\ cpc # "idle" /\ ~Bracketed => seq <= 2 * ops - 2
  /\ Bracketed => seq <= 2 * ops - 1
  /\ Odd(seq) <=> Bracketed

\* Outside a bracket the registers are those of the last operation, which the
\* current read may return.
StableInv == stable \in seen /\ (Bracketed \/ regs = stable)

\* While seq_ is what the reader loaded, what it has copied is still there.
ReadInv ==
  /\ rpc = "copy" => ~Odd(s0) /\ s0 <= seq
  /\ rpc = "copy" /\ seq = s0 => \A w \in Words : copy[w] \in {NotCopied, regs[w]}
  /\ rpc = "idle" => snapshot \in seen

Undisturbed == ~TickMutates /\ ~StoresPassIncrement

IInv == TypeInv /\ SeqInv /\ StableInv /\ ReadInv

\* What a reset() in progress finds queued once it has cleared the queue.
BarrierInv ==
  /\ lastReset <= ops
  /\ \A i \in 1 .. Len(queue) : queue[i] >= lastReset
  /\ op = "reset" /\ cpc \in {"working", "published"} =>
       \A i \in 1 .. Len(queue) : queue[i] >= ops
  /\ op = "event" /\ cpc # "idle" => item[1] >= lastReset

-----------------------------------------------------------------------------
\* An increment that does not wrap changes the parity.
LEMMA BumpFacts ==
  ASSUME Assumptions, NEW n \in Nat, n < 2 * MaxOps
  PROVE  Bump(n) = n + 1 /\ (Odd(Bump(n)) <=> ~Odd(n))
<1>1. SeqModulus \in Nat /\ MaxOps \in Nat /\ n + 1 < SeqModulus BY DEF Assumptions
<1>2. (n + 1) % SeqModulus = n + 1 BY <1>1
<1>3. (n + 1) % 2 = 1 <=> ~(n % 2 = 1) OBVIOUS
<1> QED BY <1>2, <1>3 DEF Bump, Odd

LEMMA TypeInit == Assumptions /\ Init => TypeInv /\ BarrierInv
BY DEF Assumptions, Init, TypeInv, BarrierInv, OpNumbers, Registers, NotCopied, Queue!FifoInit

\* Type correctness of the members, the queue and the local variables of a read.
LEMMA TypeStep ==
  ASSUME Assumptions, TypeInv, [Next]_vars
  PROVE  TypeInv'
<1> USE DEF TypeInv, OpNumbers, Registers, queueVars, consumerVars, machineVars, readerVars,
            historyVars
<1>0. MaxOps \in Nat /\ SeqModulus \in Nat /\ SeqModulus > 0 BY DEF Assumptions
<1>1. CASE Post BY <1>0, <1>1 DEF Post, Queue!Put
<1>2. CASE ProcessOne BY <1>0, <1>2 DEF ProcessOne, Begin, Queue!Take
<1>3. CASE Step BY <1>0, <1>3 DEF Step, Begin
<1>4. CASE Reset BY <1>0, <1>4 DEF Reset, Begin
<1>5. CASE Tick BY <1>0, <1>5 DEF Tick, Begin
<1>6. CASE Open
  <2>1. Bump(seq) \in Nat BY <1>0 DEF Bump
  <2> QED BY <1>6, <2>1 DEF Open
<1>7. CASE ClearQueue BY <1>7 DEF ClearQueue, Queue!Drop
<1>8. ASSUME NEW w \in Words, WriteWord(w) PROVE TypeInv' BY <1>8 DEF WriteWord
<1>9. ASSUME NEW s \in States, ChangeState(s) PROVE TypeInv' BY <1>9 DEF ChangeState
<1>10. CASE Publish BY <1>10 DEF Publish
<1>11. CASE Close
  <2>1. Bump(seq) \in Nat BY <1>0 DEF Bump
  <2> QED BY <1>11, <2>1 DEF Close, Complete
<1>12. CASE TickReturn BY <1>12 DEF TickReturn, Complete
<1>13. CASE ReadCall BY <1>13 DEF ReadCall
<1>14. CASE LoadSeq BY <1>14 DEF LoadSeq
<1>15. ASSUME NEW w \in Words, CopyWord(w) PROVE TypeInv' BY <1>15 DEF CopyWord
<1>16. CASE Check BY <1>16 DEF Check
<1>17. CASE UNCHANGED vars BY <1>17 DEF vars
<1> QED
  BY <1>1, <1>2, <1>3, <1>4, <1>5, <1>6, <1>7, <1>8, <1>9, <1>10, <1>11, <1>12, <1>13,
     <1>14, <1>15, <1>16, <1>17 DEF Next, Consumer, Progress, Work, Read

-----------------------------------------------------------------------------
(* The barrier.                                                            *)

LEMMA BarrierStep ==
  ASSUME Assumptions, TypeInv, BarrierInv, [Next]_vars
  PROVE  BarrierInv'
<1> USE DEF TypeInv, BarrierInv, OpNumbers, queueVars, consumerVars, machineVars, readerVars,
            historyVars
<1>0. MaxOps \in Nat BY DEF Assumptions
<1>1. CASE Post BY <1>0, <1>1 DEF Post, Queue!Put
<1>2. CASE ProcessOne
  <2>1. queue # << >> /\ queue' = Tail(queue) /\ item' = <<Head(queue)>>
    BY <1>2 DEF ProcessOne, Queue!Take
  <2>2. /\ Len(Tail(queue)) = Len(queue) - 1
        /\ \A i \in 1 .. Len(Tail(queue)) : i + 1 \in 1 .. Len(queue) /\ Tail(queue)[i] = queue[i + 1]
    BY <2>1
  <2>3. \A i \in 1 .. Len(queue') : queue'[i] >= lastReset BY <2>1, <2>2
  <2>4. item'[1] >= lastReset BY <2>1
  <2> QED BY <1>0, <1>2, <2>3, <2>4 DEF ProcessOne, Begin
<1>3. CASE Step BY <1>0, <1>3 DEF Step, Begin
<1>4. CASE Reset BY <1>0, <1>4 DEF Reset, Begin
<1>5. CASE Tick BY <1>0, <1>5 DEF Tick, Begin
<1>6. CASE Open BY <1>6 DEF Open
<1>7. CASE ClearQueue BY <1>7 DEF ClearQueue, Queue!Drop
<1>8. ASSUME NEW w \in Words, WriteWord(w) PROVE BarrierInv' BY <1>8 DEF WriteWord
<1>9. ASSUME NEW s \in States, ChangeState(s) PROVE BarrierInv' BY <1>9 DEF ChangeState
<1>10. CASE Publish BY <1>10 DEF Publish
<1>11. CASE Close BY <1>0, <1>11 DEF Close, Complete
<1>12. CASE TickReturn BY <1>12 DEF TickReturn, Complete
<1>13. CASE ReadCall BY <1>13 DEF ReadCall
<1>14. CASE LoadSeq BY <1>14 DEF LoadSeq
<1>15. ASSUME NEW w \in Words, CopyWord(w) PROVE BarrierInv' BY <1>15 DEF CopyWord
<1>16. CASE Check BY <1>16 DEF Check
<1>17. CASE UNCHANGED vars BY <1>17 DEF vars
<1> QED
  BY <1>1, <1>2, <1>3, <1>4, <1>5, <1>6, <1>7, <1>8, <1>9, <1>10, <1>11, <1>12, <1>13,
     <1>14, <1>15, <1>16, <1>17 DEF Next, Consumer, Progress, Work, Read

\* reset() is a barrier: no event that was accepted before it began is queued
\* or dispatched once it has returned, whatever the producer does meanwhile.
THEOREM BarrierCorrect == Spec => []ResetIsBarrier
<1>1. Init => TypeInv /\ BarrierInv BY TypeInit, SpscFsmAssumption
<1>2. TypeInv /\ BarrierInv /\ [Next]_vars => (TypeInv /\ BarrierInv)'
  BY TypeStep, BarrierStep, SpscFsmAssumption
<1>3. BarrierInv => ResetIsBarrier BY DEF BarrierInv, ResetIsBarrier
<1> QED BY <1>1, <1>2, <1>3, PTL DEF Spec

-----------------------------------------------------------------------------
(* The seqlock.                                                            *)

LEMMA SeqStep ==
  ASSUME Assumptions, TypeInv, SeqInv, [Next]_vars
  PROVE  /\ SeqInv'
         /\ seq' = seq \/ seq' = seq + 1
<1> USE DEF TypeInv, SeqInv, Bracketed, OpNumbers, queueVars, consumerVars, machineVars, readerVars,
            historyVars
<1>0. MaxOps \in Nat BY DEF Assumptions
<1>1. CASE Post BY <1>1 DEF Post
<1>2. CASE ProcessOne BY <1>0, <1>2 DEF ProcessOne, Begin
<1>3. CASE Step BY <1>0, <1>3 DEF Step, Begin
<1>4. CASE Reset BY <1>0, <1>4 DEF Reset, Begin
<1>5. CASE Tick BY <1>0, <1>5 DEF Tick, Begin
<1>6. CASE Open
  <2>1. seq < 2 * MaxOps BY <1>0, <1>6 DEF Open
  <2>2. Bump(seq) = seq + 1 /\ (Odd(Bump(seq)) <=> ~Odd(seq)) BY <2>1, BumpFacts
  <2> QED BY <1>0, <1>6, <2>2 DEF Open
<1>7. CASE ClearQueue BY <1>7 DEF ClearQueue
<1>8. ASSUME NEW w \in Words, WriteWord(w) PROVE SeqInv' /\ seq' = seq BY <1>8 DEF WriteWord
<1>9. ASSUME NEW s \in States, ChangeState(s) PROVE SeqInv' /\ seq' = seq BY <1>9 DEF ChangeState
<1>10. CASE Publish BY <1>10 DEF Publish
<1>11. CASE Close
  <2>1. seq < 2 * MaxOps BY <1>0, <1>11 DEF Close
  <2>2. Bump(seq) = seq + 1 /\ (Odd(Bump(seq)) <=> ~Odd(seq)) BY <2>1, BumpFacts
  <2> QED BY <1>0, <1>11, <2>2 DEF Close, Complete
<1>12. CASE TickReturn BY <1>0, <1>12 DEF TickReturn, Complete
<1>13. CASE ReadCall BY <1>13 DEF ReadCall
<1>14. CASE LoadSeq BY <1>14 DEF LoadSeq
<1>15. ASSUME NEW w \in Words, CopyWord(w) PROVE SeqInv' /\ seq' = seq BY <1>15 DEF CopyWord
<1>16. CASE Check BY <1>16 DEF Check
<1>17. CASE UNCHANGED vars BY <1>17 DEF vars
<1> QED
  BY <1>1, <1>2, <1>3, <1>4, <1>5, <1>6, <1>7, <1>8, <1>9, <1>10, <1>11, <1>12, <1>13,
     <1>14, <1>15, <1>16, <1>17 DEF Next, Consumer, Progress, Work, Read

\* Registers are only written inside a bracket.
LEMMA StableStep ==
  ASSUME Assumptions, Undisturbed, TypeInv, StableInv, [Next]_vars
  PROVE  /\ StableInv'
         /\ regs' = regs \/ Bracketed
<1> USE DEF TypeInv, StableInv, Bracketed, queueVars, consumerVars, machineVars, readerVars,
            historyVars
<1>1. CASE Post BY <1>1 DEF Post
<1>2. CASE ProcessOne BY <1>2 DEF ProcessOne, Begin
<1>3. CASE Step BY <1>3 DEF Step, Begin
<1>4. CASE Reset BY <1>4 DEF Reset, Begin
<1>5. CASE Tick BY <1>5 DEF Tick, Begin
<1>6. CASE Open BY <1>6 DEF Open
<1>7. CASE ClearQueue BY <1>7 DEF ClearQueue
<1>8. ASSUME NEW w \in Words, WriteWord(w) PROVE StableInv' /\ Bracketed
  BY <1>8 DEF WriteWord, Working, Undisturbed
<1>9. ASSUME NEW s \in States, ChangeState(s) PROVE StableInv' /\ regs' = regs
  BY <1>9 DEF ChangeState
<1>10. CASE Publish BY <1>10 DEF Publish
<1>11. CASE Close BY <1>11 DEF Close, Complete
<1>12. CASE TickReturn BY <1>12 DEF TickReturn, Complete
<1>13. CASE ReadCall BY <1>13 DEF ReadCall
<1>14. CASE LoadSeq BY <1>14 DEF LoadSeq
<1>15. ASSUME NEW w \in Words, CopyWord(w) PROVE StableInv' /\ regs' = regs BY <1>15 DEF CopyWord
<1>16. CASE Check BY <1>16 DEF Check
<1>17. CASE UNCHANGED vars BY <1>17 DEF vars
<1> QED
  BY <1>1, <1>2, <1>3, <1>4, <1>5, <1>6, <1>7, <1>8, <1>9, <1>10, <1>11, <1>12, <1>13,
     <1>14, <1>15, <1>16, <1>17 DEF Next, Consumer, Progress, Work, Read

\* Steps that are not the reader's keep what it knows.
LEMMA OthersStep ==
  ASSUME IInv, (seq' = seq \/ seq' = seq + 1), (regs' = regs \/ Bracketed),
         UNCHANGED readerVars, (rpc = "idle" => seen \subseteq seen')
  PROVE  ReadInv'
<1> USE DEF IInv, TypeInv, ReadInv, readerVars
<1>1. ASSUME rpc = "copy", seq' = s0 PROVE regs' = regs /\ seq = s0
  <2>1. seq = s0 /\ ~Odd(seq) BY <1>1
  <2> QED BY <2>1 DEF SeqInv
<1>2. rpc' = "copy" => ~Odd(s0') /\ s0' <= seq' OBVIOUS
<1>3. ASSUME rpc' = "copy", seq' = s0' PROVE \A w \in Words : copy'[w] \in {NotCopied, regs'[w]}
  BY <1>1, <1>3
<1> QED BY <1>2, <1>3

LEMMA ReadStep ==
  ASSUME Assumptions, Undisturbed, IInv, [Next]_vars
  PROVE  ReadInv'
<1> USE DEF queueVars, consumerVars, machineVars, readerVars, historyVars
<1>1. (seq' = seq \/ seq' = seq + 1) /\ (regs' = regs \/ Bracketed)
  BY SeqStep, StableStep DEF IInv
<1>2. CASE Post \/ Consumer \/ UNCHANGED vars
  <2>1. UNCHANGED readerVars
    BY <1>2 DEF Post, Consumer, ProcessOne, Step, Reset, Tick, Begin, Progress, Open, ClearQueue,
                Publish, Close, TickReturn, Complete, Work, WriteWord, ChangeState, vars
  <2>2. seen \subseteq seen'
    BY <1>2 DEF Post, Consumer, ProcessOne, Step, Reset, Tick, Begin, Progress, Open, ClearQueue,
                Publish, Close, TickReturn, Complete, Work, WriteWord, ChangeState, vars
  <2> QED BY <1>1, <2>1, <2>2, OthersStep
<1>3. CASE ReadCall BY <1>3 DEF ReadCall, ReadInv
<1>4. CASE LoadSeq BY <1>4 DEF LoadSeq, ReadInv, IInv, TypeInv
<1>5. ASSUME NEW w \in Words, CopyWord(w) PROVE ReadInv'
  BY <1>5 DEF CopyWord, ReadInv, IInv, TypeInv
<1>6. CASE Check
  <2>1. CASE seq = s0 /\ rpc' = "idle" /\ snapshot' = copy
    <3>1. ~Bracketed BY <1>6, <2>1 DEF Check, IInv, ReadInv, SeqInv
    <3>2. regs = stable /\ stable \in seen BY <3>1 DEF IInv, StableInv
    <3>3. \A w \in Words : copy[w] = regs[w] BY <1>6, <2>1 DEF Check, IInv, ReadInv
    <3>4. copy = regs BY <3>3 DEF IInv, TypeInv, Registers
    <3> QED BY <1>6, <2>1, <3>2, <3>4 DEF Check, ReadInv
  <2>2. CASE seq # s0 /\ rpc' = "load" BY <2>2 DEF ReadInv
  <2> QED BY <1>6, <2>1, <2>2 DEF Check
<1> QED BY <1>2, <1>3, <1>4, <1>5, <1>6 DEF Next, Read

LEMMA SeqlockInit == Assumptions /\ Init => IInv
<1> SUFFICES ASSUME Assumptions, Init PROVE IInv OBVIOUS
<1>1. ~Odd(0) BY DEF Odd
<1> QED
  BY <1>1, TypeInit DEF Init, IInv, TypeInv, SeqInv, StableInv, ReadInv, Bracketed, OpNumbers

\* snapshot_registers() returns the registers as one operation left them, and
\* not older than the last one that had completed when it was called, for any
\* registers and any number of operations that seq_ can count.
THEOREM SnapshotCorrect == Undisturbed => (Spec => []SnapshotLinearizable)
<1> SUFFICES ASSUME Undisturbed PROVE Spec => []SnapshotLinearizable OBVIOUS
<1>1. Init => IInv BY SeqlockInit, SpscFsmAssumption
<1>2. IInv /\ [Next]_vars => IInv'
  BY TypeStep, SeqStep, StableStep, ReadStep, SpscFsmAssumption DEF IInv
<1>3. IInv => SnapshotLinearizable BY DEF IInv, ReadInv, SnapshotLinearizable
<1> QED BY <1>1, <1>2, <1>3, PTL DEF Spec
=============================================================================
