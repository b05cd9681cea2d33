------------------------------ MODULE SpscFsm ------------------------------
(***************************************************************************)
(* spsc_fsm (runtime/spsc_fsm.hpp): the machine of a control task, fed by  *)
(* one producer through the lock-free queue and watched by other threads.  *)
(*                                                                         *)
(* The queue is the bounded FIFO that SpscRing implements.  What the       *)
(* machine does inside one call is reduced to what the other threads can   *)
(* see of it: any sequence of register writes, one word at a time, and of  *)
(* state changes.  A reader copies the registers word by word between two  *)
(* loads of the sequence counter seq_ and retries until they agree.        *)
(***************************************************************************)
EXTENDS Naturals, Sequences

CONSTANTS
  QueueCapacity,        \* capacity of queue_
  Words,                \* the words the Registers structure is copied by
  States, InitialState, \* the alternatives of the state variant
  MaxOps,               \* bound: consumer operations of one behaviour
  SeqModulus,           \* 2^w for the width w of seq_
  TickMutates,          \* the machine has do-activities or timers, so that
                        \* tick() can write registers and change the state
  StoresPassIncrement   \* plain stores may become visible before the relaxed
                        \* half of an earlier fetch_add(release), as the
                        \* memory model allows and x86 never does

Assumptions ==
  /\ QueueCapacity \in Nat \ {0}
  /\ MaxOps \in Nat /\ SeqModulus \in Nat
  /\ SeqModulus > 2 * MaxOps /\ SeqModulus % 2 = 0
  /\ InitialState \in States
  /\ TickMutates \in BOOLEAN /\ StoresPassIncrement \in BOOLEAN

ASSUME SpscFsmAssumption == Assumptions

VARIABLES
  queue, item,      \* the queued events and the one popped last
  ops,              \* number of the consumer's current (or last) operation
  op, cpc,          \* that operation's kind, and where the consumer is in it
  regs,             \* registers: for each word, the operation that wrote it
  mstate,           \* the machine's current state
  stateIndex, seq,  \* state_index_ and seq_
  rpc, s0,          \* where the reader is in snapshot_registers(), its s0
  copy, snapshot,   \* its local copy, and what it returned last
  stable, seen,     \* history: the registers after the last completed
                    \* operation, and those the current read may return
  lastReset         \* history: number of the last completed reset()

queueVars    == <<queue, item>>
consumerVars == <<ops, op, cpc, lastReset>>
machineVars  == <<regs, mstate>>
readerVars   == <<rpc, s0, copy, snapshot>>
historyVars  == <<stable, seen>>
vars == <<queueVars, consumerVars, machineVars, stateIndex, seq, readerVars, historyVars>>

-----------------------------------------------------------------------------
OpNumbers == 0 .. MaxOps

\* An event is its stamp: the number of the operation the consumer was in
\* when post() accepted it.
Queue == INSTANCE BoundedFifo
           WITH Capacity <- QueueCapacity, Values <- OpNumbers, out <- item

Registers == [Words -> OpNumbers]
NotCopied == MaxOps + 1
Odd(n) == n % 2 = 1
Bump(n) == (n + 1) % SeqModulus

Init ==
  /\ Queue!FifoInit
  /\ ops = 0 /\ op = "none" /\ cpc = "idle" /\ lastReset = 0
  /\ regs = [w \in Words |-> 0]
  /\ mstate = InitialState /\ stateIndex = InitialState /\ seq = 0
  /\ rpc = "idle" /\ s0 = 0
  /\ copy = [w \in Words |-> NotCopied] /\ snapshot = regs
  /\ stable = regs /\ seen = {regs}

-----------------------------------------------------------------------------
\* post(): a full queue, or a stale view of it, refuses and changes nothing.
Post ==
  /\ Queue!Put(ops)
  /\ UNCHANGED <<consumerVars, machineVars, stateIndex, seq, readerVars, historyVars>>

-----------------------------------------------------------------------------
(* The consumer.  process_one() pops before it opens the bracket; step()   *)
(* and reset() open it at once; tick() has none.                           *)

Begin(kind) ==
  /\ cpc = "idle" /\ ops < MaxOps
  /\ ops' = ops + 1 /\ op' = kind
  /\ UNCHANGED <<lastReset, machineVars, stateIndex, seq, readerVars, historyVars>>

ProcessOne == Begin("event") /\ Queue!Take /\ cpc' = "called"

Step == Begin("step") /\ cpc' = "called" /\ UNCHANGED queueVars

Reset == Begin("reset") /\ cpc' = "called" /\ UNCHANGED queueVars

Tick == Begin("tick") /\ cpc' = "working" /\ UNCHANGED queueVars

\* seq_ becomes odd.
Open ==
  /\ cpc = "called"
  /\ seq' = Bump(seq)
  /\ cpc' = IF op = "reset" THEN "clearing" ELSE "working"
  /\ UNCHANGED <<queueVars, ops, op, lastReset, machineVars, stateIndex, readerVars, historyVars>>

\* Mutant: reset() leaves the queued events where they are.
ClearQueueSkipped ==
  /\ cpc = "clearing"
  /\ mstate' = InitialState
  /\ cpc' = "working"
  /\ UNCHANGED <<queueVars, ops, op, lastReset, regs, stateIndex, seq, readerVars, historyVars>>

\* reset(): queue_.clear(), then fsm_.reset() enters the initial state; the
\* registers follow word by word.
ClearQueue ==
  /\ cpc = "clearing"
  /\ Queue!Drop
  /\ mstate' = InitialState
  /\ cpc' = "working"
  /\ UNCHANGED <<ops, op, lastReset, regs, stateIndex, seq, readerVars, historyVars>>

\* fsm_.dispatch_direct(), fsm_.step(), fsm_.tick() and fsm_.reset() at work.
Working ==
  \/ cpc = "working" /\ (op = "tick" => TickMutates)
  \/ cpc = "called" /\ op # "reset" /\ StoresPassIncrement

WriteWord(w) ==
  /\ Working
  /\ regs' = [regs EXCEPT ![w] = ops]
  /\ UNCHANGED <<queueVars, consumerVars, mstate, stateIndex, seq, readerVars, historyVars>>

ChangeState(s) ==
  /\ Working /\ op # "reset"
  /\ mstate' = s
  /\ UNCHANGED <<queueVars, consumerVars, regs, stateIndex, seq, readerVars, historyVars>>

\* state_index_.store(get_current_state_variant().index()).
Publish ==
  /\ cpc = "working" /\ op # "tick"
  /\ stateIndex' = mstate
  /\ cpc' = "published"
  /\ UNCHANGED <<queueVars, ops, op, lastReset, machineVars, seq, readerVars, historyVars>>

Complete ==
  /\ cpc' = "idle"
  /\ stable' = regs /\ seen' = seen \cup {regs}
  /\ lastReset' = IF op = "reset" THEN ops ELSE lastReset
  /\ UNCHANGED <<queueVars, ops, op, machineVars, stateIndex, readerVars>>

\* Mutant: the closing increment of reset() is forgotten.
CloseOnlyOthers ==
  /\ cpc = "published"
  /\ seq' = IF op = "reset" THEN seq ELSE Bump(seq)
  /\ Complete

\* seq_ becomes even again.
Close == cpc = "published" /\ seq' = Bump(seq) /\ Complete

TickReturn == cpc = "working" /\ op = "tick" /\ UNCHANGED seq /\ Complete

-----------------------------------------------------------------------------
(* A reader in snapshot_registers().                                       *)

ReadCall ==
  /\ rpc = "idle"
  /\ rpc' = "load"
  /\ seen' = {stable}
  /\ UNCHANGED <<queueVars, consumerVars, machineVars, stateIndex, seq, s0, copy, snapshot, stable>>

\* The inner loop: it yields and loads again as long as seq_ is odd.
LoadSeq ==
  /\ rpc = "load"
  /\ s0' = seq
  /\ rpc' = IF Odd(seq) THEN "load" ELSE "copy"
  /\ copy' = [w \in Words |-> NotCopied]
  /\ UNCHANGED <<queueVars, consumerVars, machineVars, stateIndex, seq, snapshot, historyVars>>

CopyWord(w) ==
  /\ rpc = "copy" /\ copy[w] = NotCopied
  /\ copy' = [copy EXCEPT ![w] = regs[w]]
  /\ UNCHANGED <<queueVars, consumerVars, machineVars, stateIndex, seq, rpc, s0, snapshot, historyVars>>

\* Mutant: the reader only checks that no operation is in progress.
CheckParityOnly ==
  /\ rpc = "copy" /\ \A w \in Words : copy[w] # NotCopied
  /\ \/ ~Odd(seq) /\ rpc' = "idle" /\ snapshot' = copy
     \/ Odd(seq)  /\ rpc' = "load" /\ UNCHANGED snapshot
  /\ UNCHANGED <<queueVars, consumerVars, machineVars, stateIndex, seq, s0, copy, historyVars>>

\* The outer loop's condition: seq_ is loaded again and must be s0.
Check ==
  /\ rpc = "copy" /\ \A w \in Words : copy[w] # NotCopied
  /\ \/ seq = s0 /\ rpc' = "idle" /\ snapshot' = copy
     \/ seq # s0 /\ rpc' = "load" /\ UNCHANGED snapshot
  /\ UNCHANGED <<queueVars, consumerVars, machineVars, stateIndex, seq, s0, copy, historyVars>>

-----------------------------------------------------------------------------
Work == (\E w \in Words : WriteWord(w)) \/ (\E s \in States : ChangeState(s))

\* What brings an operation that has begun to its end.
Progress == Open \/ ClearQueue \/ Publish \/ Close \/ TickReturn

Consumer == ProcessOne \/ Step \/ Reset \/ Tick \/ Progress \/ Work

Read == LoadSeq \/ (\E w \in Words : CopyWord(w)) \/ Check

Next == Post \/ Consumer \/ ReadCall \/ Read

Spec == Init /\ [][Next]_vars

\* An operation the consumer has begun ends, for the user's actions return,
\* and the reader's thread is scheduled.
FairSpec == Spec /\ WF_vars(Progress) /\ WF_vars(Read)

-----------------------------------------------------------------------------
\* The seqlock: what snapshot_registers() returns is the registers as one
\* operation left them, and not older than the last operation that had
\* completed when the call began; never a mix of two operations.
SnapshotLinearizable == rpc = "idle" => snapshot \in seen

\* reset() is a barrier: no event accepted before a reset() began is
\* queued, or dispatched, once that reset() has returned.
ResetIsBarrier ==
  /\ \A i \in 1 .. Len(queue) : queue[i] >= lastReset
  /\ op = "event" /\ cpc # "idle" => item[1] >= lastReset

\* A reader is never locked out: when the consumer pauses between two
\* operations (here: after MaxOps of them) every snapshot call returns.
SnapshotReturns == rpc # "idle" ~> rpc = "idle"
=============================================================================
