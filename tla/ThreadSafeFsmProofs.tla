------------------------ MODULE ThreadSafeFsmProofs ------------------------
(***************************************************************************)
(* Proofs about ThreadSafeFsm for any number of threads, tasks and states: *)
(* who holds what and may do what, and, in the second half, that no event  *)
(* is lost or dispatched twice.                                            *)
(***************************************************************************)
EXTENDS ThreadSafeFsm, SequenceTheorems, FiniteSetTheorems, TLAPS

Dispatching == {"check", "lock", "acting"}

\* What a thread at a point of its code has in hand, and where it returns to.
ShapeInv ==
  /\ back[Worker] = "work" /\ pc[Worker] \in {"off", "loop", "wait"} \cup Dispatching
  /\ thread # "aborted" => (pc[Worker] = "off" <=> thread # "joinable")
  /\ \A c \in Clients : pc[c] \notin {"off", "loop", "wait"} /\ back[c] # "work"
  /\ \A t \in Threads :
       /\ pc[t] \in Dispatching \cup {"push", "pushtimed"} => hand[t] # None
       /\ pc[t] \in Dispatching => back[t] # "none"
       /\ pc[t] = "check" => back[t] \notin {"send", "step"}
       /\ pc[t] = "poll" => back[t] \in {"drain", "stop"}
       /\ pc[t] \in {"stop", "stopqueue", "join"} => back[t] = "stop"

\* The mutex: the thread inside the machine holds it; one that holds it and
\* is not inside is a step() whose action called send().
DispatcherInv ==
  /\ \A t \in Threads : pc[t] = "acting" => owner = t
  /\ \A t \in Threads :
       owner = t => pc[t] = "acting" \/ (StepsSend /\ back[t] = "step" /\ pc[t] = "lock")
  /\ \A t \in Threads : tracker = t <=> owner = t /\ back[t] # "step"
  /\ depth = IF tracker = None THEN 0 ELSE 1

IInv == TypeOK /\ ShapeInv /\ DispatcherInv

-----------------------------------------------------------------------------
\* The assumptions on the constants, spelled out for the provers.
LEMMA Constants ==
  /\ Controllers \subseteq Clients /\ Worker \notin Clients
  /\ None \notin Threads /\ None \notin States /\ InitialState \in States
  /\ MaxTasks \in Nat /\ StepsSend \in BOOLEAN
  /\ Worker \in Threads /\ Clients \subseteq Threads
BY ThreadSafeFsmAssumption DEF Assumptions, Threads

\* The invariant holds initially.
LEMMA InitIInv == Init => IInv
<1> SUFFICES ASSUME Init PROVE IInv
  OBVIOUS
<1>1. TypeOK
  <2>1. << >> \in Seq(Task) /\ Len(<< >>) = 0
    BY EmptySeq
  <2>2. pc \in [Threads -> {"off", "idle"}] /\ back \in [Threads -> {"work", "none"}]
        /\ hand \in [Threads -> {None}] /\ owed \in [Clients -> {{}}]
    BY DEF Init
  <2>3. queue \in Seq(Task) /\ timed \in Seq(Task) /\ due \in 0 .. Len(timed)
    BY <2>1 DEF Init
  <2>4. accepted \in 0 .. MaxTasks /\ settled \subseteq 1 .. MaxTasks
        /\ owed \in [Clients -> SUBSET (1 .. MaxTasks)]
    BY <2>2, Constants DEF Init
  <2>5. QED
    BY <2>2, <2>3, <2>4, Constants DEF Init, TypeOK
<1>2. ShapeInv
  BY Constants DEF Init, ShapeInv, Threads, Dispatching
<1>3. DispatcherInv
  BY Constants DEF Init, DispatcherInv
<1>4. QED
  BY <1>1, <1>2, <1>3 DEF IInv

\* A new task is one.
LEMMA NewTaskType ==
  ASSUME TypeOK, Accept, NEW kind \in Kinds
  PROVE  NewTask(kind) \in Task /\ NewTask(kind) # None /\ accepted' \in 0 .. MaxTasks
<1>1. accepted + 1 \in 1 .. MaxTasks /\ accepted' = accepted + 1
  BY Constants DEF TypeOK, Accept
<1>2. NewTask(kind) \in Task
  BY <1>1, Constants DEF NewTask, Task
<1>3. QED
  BY <1>1, <1>2, ThreadSafeFsmAssumption DEF Assumptions

\* What pop takes off the queues is a task.
LEMMA PopType ==
  ASSUME TypeOK, NEW t \in Threads, Pop(t)
  PROVE  /\ hand' \in [Threads -> Task \cup {None}] /\ hand'[t] \in Task
         /\ \A u \in Threads \ {t} : hand'[u] = hand[u]
         /\ queue' \in Seq(Task) /\ timed' \in Seq(Task) /\ due' \in 0 .. Len(timed')
<1>1. ASSUME NEW s \in Seq(Task), s # << >>
      PROVE  Head(s) \in Task /\ Tail(s) \in Seq(Task) /\ Len(Tail(s)) = Len(s) - 1
  BY <1>1, HeadTailProperties
<1>2. CASE due > 0 /\ hand' = [hand EXCEPT ![t] = Head(timed)] /\ timed' = Tail(timed)
           /\ due' = due - 1 /\ queue' = queue
  <2>1. timed \in Seq(Task) /\ timed # << >>
    BY <1>2 DEF TypeOK
  <2>2. QED
    BY <1>1, <1>2, <2>1 DEF TypeOK
<1>3. CASE PopFront(t)
  BY <1>1, <1>3 DEF PopFront, TypeOK
<1>4. QED
  BY <1>2, <1>3 DEF Pop

\* Numbers of queued tasks are task numbers.
LEMMA IdsType ==
  ASSUME NEW s \in Seq(Task)
  PROVE  Ids(s) \subseteq 1 .. MaxTasks
<1>1. \A i \in DOMAIN s : s[i] \in Task
  BY ElementOfSeq
<1>2. QED
  BY <1>1 DEF Ids, Task

\* A task in hand has a number.
LEMMA HandType ==
  ASSUME TypeOK, NEW t \in Threads, hand[t] # None
  PROVE  hand[t] \in Task /\ hand[t].id \in 1 .. MaxTasks /\ hand[t].kind \in Kinds
BY DEF TypeOK, Task

\* A task that notes its state is still one.
LEMMA ScheduledType ==
  ASSUME NEW task \in Task, NEW s \in States
  PROVE  [task EXCEPT !.sched = s] \in Task
BY DEF Task

-----------------------------------------------------------------------------
(* Each action preserves the invariant.                                    *)

\* Types: the queues hold tasks, and depth is only counted down by a guard.
LEMMA StepType ==
  ASSUME IInv, [Next]_vars
  PROVE  TypeOK'
<1> USE DEF IInv, TypeOK, controlVars, queueVars, workerVars,
           lockVars, historyVars, Goto, Return
<1>1. ASSUME NEW c \in Clients, NEW kind \in {"send", "step"}, Send(c, kind) PROVE TypeOK'
  <2>1. NewTask(kind) \in Task /\ accepted' \in 0 .. MaxTasks
    BY <1>1, NewTaskType DEF Send, Kinds
  <2>2. QED
    BY <1>1, <2>1, Constants DEF Send, Threads
<1>2. ASSUME NEW c \in Clients, Post(c) PROVE TypeOK'
  <2>1. NewTask("post") \in Task /\ accepted' \in 0 .. MaxTasks
    BY <1>2, NewTaskType DEF Post, Kinds
  <2>2. queue' \in Seq(Task)
    BY <1>2, <2>1, AppendProperties DEF Post
  <2>3. QED
    BY <1>2, <2>1, <2>2 DEF Post
<1>3. ASSUME NEW c \in Clients, NEW kind \in {"future", "delayed", "timeout"}, PostAsync(c, kind)
      PROVE  TypeOK'
  <2>1. NewTask(kind) \in Task /\ accepted' \in 0 .. MaxTasks
    BY <1>3, NewTaskType DEF PostAsync, Kinds
  <2>2. QED
    BY <1>3, <2>1, Constants DEF PostAsync, Threads
<1>4. ASSUME NEW c \in Clients, StartWorker(c) PROVE TypeOK'
  BY <1>4, Constants, NewTaskType, PopType, HandType DEF StartWorker
<1>5. ASSUME NEW c \in Clients, StopWorker(c) PROVE TypeOK'
  <2>1. owed'[c] \subseteq 1 .. MaxTasks
    BY <1>5, IdsType, HandType, Constants DEF StopWorker
  <2>2. QED
    BY <1>5, <2>1, Constants DEF StopWorker, Threads
<1>6. ASSUME NEW c \in Clients, ProcessAll(c) PROVE TypeOK'
  BY <1>6, Constants, NewTaskType, PopType, HandType DEF ProcessAll
<1>7. ASSUME NEW c \in Clients, ClearQueue(c) PROVE TypeOK'
  <2>1. queue \o timed \in Seq(Task) /\ << >> \in Seq(Task) /\ Len(<< >>) = 0
    BY ConcatProperties, EmptySeq
  <2>2. settled' \subseteq 1 .. MaxTasks
    BY <1>7, <2>1, IdsType DEF ClearQueue
  <2>3. QED
    BY <1>7, <2>1, <2>2 DEF ClearQueue
<1>8. ASSUME NEW c \in Clients, Reset(c) PROVE TypeOK'
  BY <1>8, Constants, NewTaskType, PopType, HandType DEF Reset
<1>9. ASSUME NEW t \in Threads, Start(t) PROVE TypeOK'
  BY <1>9, Constants, NewTaskType, PopType, HandType DEF Start, Started
<1>10. ASSUME NEW t \in Threads, StartQueue(t) PROVE TypeOK'
  BY <1>10, Constants, NewTaskType, PopType, HandType DEF StartQueue
<1>11. ASSUME NEW t \in Threads, StartThread(t) PROVE TypeOK'
  BY <1>11, Constants, NewTaskType, PopType, HandType DEF StartThread
<1>12. ASSUME NEW t \in Threads, Stop(t) PROVE TypeOK'
  BY <1>12, Constants, NewTaskType, PopType, HandType DEF Stop
<1>13. ASSUME NEW t \in Threads, StopQueue(t) PROVE TypeOK'
  BY <1>13, Constants, NewTaskType, PopType, HandType DEF StopQueue
<1>14. ASSUME NEW t \in Threads, Join(t) PROVE TypeOK'
  BY <1>14, Constants, NewTaskType, PopType, HandType DEF Join
<1>15. ASSUME NEW t \in Threads, Push(t) PROVE TypeOK'
  <2>1. hand[t] \in Task
    BY <1>15, HandType DEF Push, ShapeInv
  <2>2. CASE hand[t].kind = "future" /\ queue' = Append(queue, hand[t])
             /\ hand' = [hand EXCEPT ![t] = None] /\ Goto(t, "idle")
    <3>1. queue' \in Seq(Task)
      BY <2>1, <2>2, AppendProperties
    <3>2. QED
      BY <1>15, <2>2, <3>1 DEF Push
  <2>3. CASE hand' = [hand EXCEPT ![t].sched = mstate] /\ Goto(t, "pushtimed")
             /\ UNCHANGED queue
    <3>1. hand'[t] \in Task
      BY <2>1, <2>3 DEF Task
    <3>2. QED
      BY <1>15, <2>3, <3>1 DEF Push
  <2>4. CASE Goto(t, "pushtimed") /\ UNCHANGED <<hand, queue>>
    BY <1>15, <2>4 DEF Push
  <2>5. QED
    BY <1>15, <2>2, <2>3, <2>4 DEF Push
<1>16. ASSUME NEW t \in Threads, PushTimed(t) PROVE TypeOK'
  <2>1. PICK k \in due .. Len(timed) :
          timed' = SubSeq(timed, 1, k) \o <<hand[t]>> \o SubSeq(timed, k + 1, Len(timed))
    BY <1>16 DEF PushTimed
  <2>2. hand[t] \in Task
    BY <1>16, HandType DEF PushTimed, ShapeInv
  <2>3. timed \in Seq(Task) /\ k \in Nat /\ due \in Nat /\ due <= k
        /\ k <= Len(timed) /\ Len(timed) \in Nat
    BY LenProperties
  <2>4. SubSeq(timed, 1, k) \in Seq(Task) /\ Len(SubSeq(timed, 1, k)) = k
    BY <2>3, SubSeqProperties
  <2>5. SubSeq(timed, k + 1, Len(timed)) \in Seq(Task)
        /\ Len(SubSeq(timed, k + 1, Len(timed))) \in Nat
    BY <2>3, SubSeqProperties, LenProperties
  <2>6. <<hand[t]>> \in Seq(Task) /\ Len(<<hand[t]>>) = 1
    BY <2>2
  <2>7. SubSeq(timed, 1, k) \o <<hand[t]>> \in Seq(Task)
        /\ Len(SubSeq(timed, 1, k) \o <<hand[t]>>) = k + 1
    BY <2>3, <2>4, <2>6, ConcatProperties
  <2>8. timed' \in Seq(Task) /\ Len(timed') \in Nat /\ k + 1 <= Len(timed')
    <3> DEFINE before == SubSeq(timed, 1, k) \o <<hand[t]>>
               after  == SubSeq(timed, k + 1, Len(timed))
    <3>1. before \in Seq(Task) /\ Len(before) = k + 1 /\ after \in Seq(Task)
          /\ Len(after) \in Nat /\ timed' = before \o after
      BY <2>1, <2>5, <2>7
    <3> HIDE DEF before, after
    <3>2. QED
      BY <2>3, <3>1, ConcatProperties
  <2>9. due' = due /\ due' \in 0 .. Len(timed')
    <3>1. due' = due
      BY <1>16 DEF PushTimed
    <3>2. QED
      BY <2>3, <2>8, <3>1
  <2>10. QED
    BY <1>16, <2>8, <2>9 DEF PushTimed
<1>17. ASSUME NEW t \in Threads, Poll(t) PROVE TypeOK'
  <2>1. CASE Pop(t)
    BY <1>17, <2>1, PopType DEF Poll, Begin
  <2>2. CASE ~Ready
    BY <1>17, <2>2 DEF Poll, Pop, PopFront, Ready
  <2>3. QED
    BY <1>17, <2>1, <2>2 DEF Poll
<1>18. ASSUME NEW t \in Threads, CheckState(t) PROVE TypeOK'
  <2>1. hand[t].id \in 1 .. MaxTasks
    BY <1>18, HandType DEF CheckState, ShapeInv, Dispatching
  <2>2. Resume(t) \in {"poll", "loop"}
    BY <1>18 DEF CheckState, Resume, ShapeInv, Dispatching
  <2>3. CASE mstate = hand[t].sched
    BY <1>18, <2>3 DEF CheckState
  <2>4. CASE mstate # hand[t].sched
    BY <1>18, <2>1, <2>2, <2>4 DEF CheckState
  <2>5. QED
    BY <2>3, <2>4
<1>19. ASSUME NEW t \in Threads, Lock(t) PROVE TypeOK'
  BY <1>19, Constants, NewTaskType, PopType, HandType DEF Lock
<1>20. ASSUME NEW t \in Threads, Finish(t) PROVE TypeOK'
  <2>1. settled' \subseteq 1 .. MaxTasks
    BY <1>20, HandType DEF Finish, ShapeInv, Dispatching
  <2>2. back[t] # "step" => Resume(t) \in {"drain", "poll", "loop"}
    BY <1>20 DEF Finish, Resume, ShapeInv, Dispatching
  <2>3. tracker' \in Threads \cup {None} /\ depth' \in Nat
    BY <1>20, Constants DEF Finish, DispatcherInv
  <2>4. QED
    BY <1>20, <2>1, <2>2, <2>3 DEF Finish
<1>21. ASSUME NEW t \in Threads, Drain(t) PROVE TypeOK'
  BY <1>21, Constants, NewTaskType, PopType, HandType DEF Drain
<1>22. ASSUME Loop PROVE TypeOK'
  BY <1>22, Constants, NewTaskType, PopType, HandType DEF Loop
<1>23. ASSUME PopWait PROVE TypeOK'
  <2>1. CASE Pop(Worker)
    BY <1>23, <2>1, PopType, Constants DEF PopWait, Begin
  <2>2. CASE ~Ready
    BY <1>23, <2>2 DEF PopWait, Pop, PopFront, Ready
  <2>3. QED
    BY <1>23, <2>1, <2>2 DEF PopWait
<1>24. ASSUME NEW t \in Threads, Reenter(t) PROVE TypeOK'
  <2>1. NewTask("reentrant") \in Task /\ accepted' \in 0 .. MaxTasks
    BY <1>24, NewTaskType DEF Reenter, Kinds
  <2>2. Append(queue, NewTask("reentrant")) \in Seq(Task)
    BY <2>1, AppendProperties
  <2>3. QED
    BY <1>24, <2>1, <2>2 DEF Reenter
<1>25. ASSUME NEW t \in Threads, NEW s \in States, ChangeState(t, s) PROVE TypeOK'
  BY <1>25, Constants, NewTaskType, PopType, HandType DEF ChangeState
<1>26. ASSUME Elapse PROVE TypeOK'
  BY <1>26, Constants, NewTaskType, PopType, HandType DEF Elapse
<1>27. ASSUME UNCHANGED vars PROVE TypeOK'
  BY <1>27, Constants, NewTaskType, PopType, HandType DEF vars
<1>28. QED
  BY <1>1, <1>2, <1>3, <1>4, <1>5, <1>6, <1>7, <1>8, <1>9, <1>10, <1>11, <1>12, <1>13,
     <1>14, <1>15, <1>16, <1>17, <1>18, <1>19, <1>20, <1>21, <1>22, <1>23, <1>24,
     <1>25, <1>26, <1>27 DEF Next, Call, Continue, Act

\* A thread on its way to a dispatch has a task in hand, and the worker is
\* at work exactly while its std::thread is joinable and has not ended.
LEMMA StepShape ==
  ASSUME IInv, [Next]_vars
  PROVE  ShapeInv'
<1> USE DEF IInv, TypeOK, ShapeInv, Dispatching, Threads, controlVars, queueVars, workerVars,
           lockVars, historyVars, Goto, Return
<1>1. ASSUME NEW c \in Clients, NEW kind \in {"send", "step"}, Send(c, kind) PROVE ShapeInv'
  <2>1. NewTask(kind) # None
    BY <1>1, NewTaskType DEF Send, Kinds
  <2>2. QED
    BY <1>1, <2>1, Constants DEF Send
<1>2. ASSUME NEW c \in Clients, Post(c) PROVE ShapeInv'
  BY <1>2, Constants, NewTaskType, PopType, HandType DEF Post
<1>3. ASSUME NEW c \in Clients, NEW kind \in {"future", "delayed", "timeout"}, PostAsync(c, kind)
      PROVE  ShapeInv'
  <2>1. NewTask(kind) # None
    BY <1>3, NewTaskType DEF PostAsync, Kinds
  <2>2. QED
    BY <1>3, <2>1, Constants DEF PostAsync
<1>4. ASSUME NEW c \in Clients, StartWorker(c) PROVE ShapeInv'
  BY <1>4, Constants, NewTaskType, PopType, HandType DEF StartWorker
<1>5. ASSUME NEW c \in Clients, StopWorker(c) PROVE ShapeInv'
  BY <1>5, Constants, NewTaskType, PopType, HandType DEF StopWorker
<1>6. ASSUME NEW c \in Clients, ProcessAll(c) PROVE ShapeInv'
  BY <1>6, Constants, NewTaskType, PopType, HandType DEF ProcessAll
<1>7. ASSUME NEW c \in Clients, ClearQueue(c) PROVE ShapeInv'
  BY <1>7, Constants, NewTaskType, PopType, HandType DEF ClearQueue
<1>8. ASSUME NEW c \in Clients, Reset(c) PROVE ShapeInv'
  BY <1>8, Constants, NewTaskType, PopType, HandType DEF Reset
<1>9. ASSUME NEW t \in Threads, Start(t) PROVE ShapeInv'
  BY <1>9, Constants, NewTaskType, PopType, HandType DEF Start, Started
<1>10. ASSUME NEW t \in Threads, StartQueue(t) PROVE ShapeInv'
  BY <1>10, Constants, NewTaskType, PopType, HandType DEF StartQueue
<1>11. ASSUME NEW t \in Threads, StartThread(t) PROVE ShapeInv'
  <2>1. CASE thread = "none"
    <3>1. /\ t # Worker /\ t \in Clients /\ pc[t] = "startthread" /\ thread' = "joinable"
          /\ pc' = [pc EXCEPT ![t] = IF hand[t] = None THEN "idle" ELSE "push",
                             ![Worker] = "loop"]
          /\ UNCHANGED <<back, hand>>
      BY <1>11, <2>1, Constants DEF StartThread
    <3>2. /\ pc'[Worker] = "loop" /\ pc'[t] \in {"idle", "push"}
          /\ pc'[t] = "push" => hand[t] # None
          /\ \A u \in Threads \ {t, Worker} : pc'[u] = pc[u]
      BY <3>1, Constants
    <3> QED
      BY <3>1, <3>2, Constants
  <2>2. CASE thread # "none"
    BY <1>11, <2>2 DEF StartThread
  <2> QED
    BY <2>1, <2>2
<1>12. ASSUME NEW t \in Threads, Stop(t) PROVE ShapeInv'
  BY <1>12, Constants, NewTaskType, PopType, HandType DEF Stop
<1>13. ASSUME NEW t \in Threads, StopQueue(t) PROVE ShapeInv'
  BY <1>13, Constants, NewTaskType, PopType, HandType DEF StopQueue
<1>14. ASSUME NEW t \in Threads, Join(t) PROVE ShapeInv'
  BY <1>14, Constants, NewTaskType, PopType, HandType DEF Join
<1>15. ASSUME NEW t \in Threads, Push(t) PROVE ShapeInv'
  <2>1. hand[t] \in Task
    BY <1>15, HandType DEF Push
  <2>2. CASE pc'[t] = "idle"
    BY <1>15, <2>2, Constants DEF Push
  <2>3. CASE pc'[t] = "pushtimed"
    <3>1. hand'[t] \in {hand[t], [hand[t] EXCEPT !.sched = mstate]}
      BY <1>15, <2>3 DEF Push
    <3>2. hand'[t] # None
      BY <2>1, <3>1, ScheduledType, ThreadSafeFsmAssumption DEF Assumptions
    <3>3. QED
      BY <1>15, <2>3, <3>2, Constants DEF Push
  <2>4. QED
    BY <1>15, <2>2, <2>3 DEF Push
<1>16. ASSUME NEW t \in Threads, PushTimed(t) PROVE ShapeInv'
  BY <1>16, Constants, NewTaskType, PopType, HandType DEF PushTimed
<1>17. ASSUME NEW t \in Threads, Poll(t) PROVE ShapeInv'
  <2>1. CASE Pop(t)
    <3>1. hand'[t] # None /\ \A u \in Threads \ {t} : hand'[u] = hand[u]
      BY <2>1, PopType, Constants, ThreadSafeFsmAssumption DEF Assumptions
    <3>2. QED
      BY <1>17, <2>1, <3>1, Constants DEF Poll, Begin
  <2>2. CASE ~Ready
    BY <1>17, <2>2, Constants DEF Poll, Pop, PopFront, Ready
  <2>3. QED
    BY <1>17, <2>1, <2>2 DEF Poll
<1>18. ASSUME NEW t \in Threads, CheckState(t) PROVE ShapeInv'
  BY <1>18, Constants, NewTaskType, PopType, HandType DEF CheckState, Resume
<1>19. ASSUME NEW t \in Threads, Lock(t) PROVE ShapeInv'
  BY <1>19, Constants, NewTaskType, PopType, HandType DEF Lock
<1>20. ASSUME NEW t \in Threads, Finish(t) PROVE ShapeInv'
  BY <1>20, Constants, NewTaskType, PopType, HandType DEF Finish, Resume
<1>21. ASSUME NEW t \in Threads, Drain(t) PROVE ShapeInv'
  BY <1>21, Constants DEF Drain
<1>22. ASSUME Loop PROVE ShapeInv'
  BY <1>22, Constants, NewTaskType, PopType, HandType DEF Loop
<1>23. ASSUME PopWait PROVE ShapeInv'
  <2>1. CASE Pop(Worker)
    <3>1. hand'[Worker] # None /\ \A u \in Threads \ {Worker} : hand'[u] = hand[u]
      BY <2>1, PopType, Constants, ThreadSafeFsmAssumption DEF Assumptions
    <3>2. QED
      BY <1>23, <2>1, <3>1, Constants DEF PopWait, Begin
  <2>2. CASE ~Ready
    BY <1>23, <2>2, Constants DEF PopWait, Pop, PopFront, Ready
  <2>3. QED
    BY <1>23, <2>1, <2>2 DEF PopWait
<1>24. ASSUME NEW t \in Threads, Reenter(t) PROVE ShapeInv'
  BY <1>24, Constants, NewTaskType, PopType, HandType DEF Reenter
<1>25. ASSUME NEW t \in Threads, NEW s \in States, ChangeState(t, s) PROVE ShapeInv'
  BY <1>25, Constants, NewTaskType, PopType, HandType DEF ChangeState
<1>26. ASSUME Elapse PROVE ShapeInv'
  BY <1>26, Constants, NewTaskType, PopType, HandType DEF Elapse
<1>27. ASSUME UNCHANGED vars PROVE ShapeInv'
  BY <1>27, Constants, NewTaskType, PopType, HandType DEF vars
<1>28. QED
  BY <1>1, <1>2, <1>3, <1>4, <1>5, <1>6, <1>7, <1>8, <1>9, <1>10, <1>11, <1>12, <1>13,
     <1>14, <1>15, <1>16, <1>17, <1>18, <1>19, <1>20, <1>21, <1>22, <1>23, <1>24,
     <1>25, <1>26, <1>27 DEF Next, Call, Continue, Act

\* The mutex, the tracker and the depth change together, under the mutex.
LEMMA StepDispatcher ==
  ASSUME IInv, [Next]_vars
  PROVE  DispatcherInv'
<1> USE DEF IInv, TypeOK, ShapeInv, Dispatching, DispatcherInv, controlVars, queueVars, workerVars,
           lockVars, historyVars, Goto, Return
<1>1. ASSUME NEW c \in Clients, NEW kind \in {"send", "step"}, Send(c, kind) PROVE DispatcherInv'
  BY <1>1, Constants DEF Send
<1>2. ASSUME NEW c \in Clients, Post(c) PROVE DispatcherInv'
  BY <1>2, Constants DEF Post
<1>3. ASSUME NEW c \in Clients, NEW kind \in {"future", "delayed", "timeout"}, PostAsync(c, kind)
      PROVE  DispatcherInv'
  BY <1>3, Constants DEF PostAsync
<1>4. ASSUME NEW c \in Clients, StartWorker(c) PROVE DispatcherInv'
  BY <1>4, Constants DEF StartWorker
<1>5. ASSUME NEW c \in Clients, StopWorker(c) PROVE DispatcherInv'
  BY <1>5, Constants DEF StopWorker
<1>6. ASSUME NEW c \in Clients, ProcessAll(c) PROVE DispatcherInv'
  BY <1>6, Constants DEF ProcessAll
<1>7. ASSUME NEW c \in Clients, ClearQueue(c) PROVE DispatcherInv'
  BY <1>7, Constants DEF ClearQueue
<1>8. ASSUME NEW c \in Clients, Reset(c) PROVE DispatcherInv'
  BY <1>8, Constants DEF Reset
<1>9. ASSUME NEW t \in Threads, Start(t) PROVE DispatcherInv'
  BY <1>9, Constants DEF Start, Started
<1>10. ASSUME NEW t \in Threads, StartQueue(t) PROVE DispatcherInv'
  BY <1>10, Constants DEF StartQueue
<1>11. ASSUME NEW t \in Threads, StartThread(t) PROVE DispatcherInv'
  <2>1. thread = "none" => pc[Worker] # "acting" /\ pc[Worker] # "lock"
    OBVIOUS
  <2>2. QED
    BY <1>11, <2>1, Constants DEF StartThread
<1>12. ASSUME NEW t \in Threads, Stop(t) PROVE DispatcherInv'
  BY <1>12, Constants DEF Stop
<1>13. ASSUME NEW t \in Threads, StopQueue(t) PROVE DispatcherInv'
  BY <1>13, Constants DEF StopQueue
<1>14. ASSUME NEW t \in Threads, Join(t) PROVE DispatcherInv'
  BY <1>14, Constants DEF Join
<1>15. ASSUME NEW t \in Threads, Push(t) PROVE DispatcherInv'
  BY <1>15, Constants DEF Push
<1>16. ASSUME NEW t \in Threads, PushTimed(t) PROVE DispatcherInv'
  BY <1>16, Constants DEF PushTimed
<1>17. ASSUME NEW t \in Threads, Poll(t) PROVE DispatcherInv'
  BY <1>17, Constants DEF Poll, Begin
<1>18. ASSUME NEW t \in Threads, CheckState(t) PROVE DispatcherInv'
  BY <1>18, Constants DEF CheckState, Resume
<1>19. ASSUME NEW t \in Threads, Lock(t) PROVE DispatcherInv'
  BY <1>19, Constants DEF Lock
<1>20. ASSUME NEW t \in Threads, Finish(t) PROVE DispatcherInv'
  BY <1>20, Constants DEF Finish, Resume
<1>21. ASSUME NEW t \in Threads, Drain(t) PROVE DispatcherInv'
  BY <1>21, Constants DEF Drain
<1>22. ASSUME Loop PROVE DispatcherInv'
  BY <1>22, Constants DEF Loop
<1>23. ASSUME PopWait PROVE DispatcherInv'
  BY <1>23, Constants DEF PopWait, Begin
<1>24. ASSUME NEW t \in Threads, Reenter(t) PROVE DispatcherInv'
  BY <1>24, Constants DEF Reenter
<1>25. ASSUME NEW t \in Threads, NEW s \in States, ChangeState(t, s) PROVE DispatcherInv'
  BY <1>25, Constants DEF ChangeState
<1>26. ASSUME Elapse PROVE DispatcherInv'
  BY <1>26, Constants DEF Elapse
<1>27. ASSUME UNCHANGED vars PROVE DispatcherInv'
  BY <1>27, Constants DEF vars
<1>28. QED
  BY <1>1, <1>2, <1>3, <1>4, <1>5, <1>6, <1>7, <1>8, <1>9, <1>10, <1>11, <1>12, <1>13,
     <1>14, <1>15, <1>16, <1>17, <1>18, <1>19, <1>20, <1>21, <1>22, <1>23, <1>24,
     <1>25, <1>26, <1>27 DEF Next, Call, Continue, Act

\* The invariant.
LEMMA IInvCorrect == Spec => []IInv
<1>1. IInv /\ [Next]_vars => IInv'
  BY StepType, StepShape, StepDispatcher DEF IInv
<1>2. QED
  BY InitIInv, <1>1, PTL DEF Spec

\* Type correctness of the active object, for any number of threads that
\* send, post, drain and start or stop the worker: among others, the depth
\* of dispatch that the reentrancy tracker counts never goes below zero.
THEOREM TypeCorrect == Spec => []TypeOK
<1>1. IInv => TypeOK
  BY DEF IInv
<1>2. QED
  BY IInvCorrect, <1>1, PTL

\* Run to completion across threads: at most one thread is inside the
\* machine, the one that holds dispatch_mutex_, and dispatching_thread_ names
\* it and no other.  The actions that step() and tick() run must not send.
THEOREM OneDispatcherCorrect ==
  ASSUME ~StepsSend
  PROVE  Spec => []OneDispatcher
<1>1. IInv => OneDispatcher
  BY DEF IInv, DispatcherInv, OneDispatcher
<1>2. QED
  BY IInvCorrect, <1>1, PTL

-----------------------------------------------------------------------------
(* stop_worker() drains, when one thread k stops the worker that all start. *)

\* Only k stops; and but for a stop that is under way, a worker that is not
\* to run has no task any more.
WorkerInv(k) ==
  /\ \A c \in Clients \ {k} : pc[c] \notin {"stop", "stopqueue", "join"} /\ back[c] # "stop"
  /\ ~running /\ pc[k] \notin {"stopqueue", "join"} => pc[Worker] \in {"off", "loop"}

\* What a stop_worker() owes is settled, still queued, or being dispatched.
OwedInv ==
  /\ pc[Worker] \notin Dispatching => hand[Worker] = None
  /\ \A c \in Clients : \A id \in owed[c] :
       \/ id \in settled \/ id \in Ids(queue)
       \/ \E t \in Threads : pc[t] \in Dispatching /\ hand[t].id = id

\* What push, try_pop and clear do to the set of queued tasks.
LEMMA IdsAppend ==
  ASSUME NEW s \in Seq(Task), NEW task \in Task
  PROVE  Ids(s) \subseteq Ids(Append(s, task))
<1>1. \A i \in DOMAIN s : i \in DOMAIN Append(s, task) /\ Append(s, task)[i] = s[i]
  BY AppendProperties
<1>2. QED
  BY <1>1 DEF Ids

LEMMA IdsHeadTail ==
  ASSUME NEW s \in Seq(Task), s # << >>
  PROVE  Ids(s) \subseteq {Head(s).id} \cup Ids(Tail(s))
<1>1. SUFFICES ASSUME NEW i \in DOMAIN s, i # 1
               PROVE  s[i].id \in Ids(Tail(s))
  BY DEF Ids
<1>2. i - 1 \in DOMAIN Tail(s) /\ Tail(s)[i - 1] = s[i]
  BY <1>1, HeadTailProperties, LenProperties
<1>3. QED
  BY <1>2 DEF Ids

\* What pop takes off the queue, if anything, is in the thread's hands.
LEMMA PopIds ==
  ASSUME TypeOK, NEW t \in Threads, Pop(t)
  PROVE  Ids(queue) \subseteq {hand'[t].id} \cup Ids(queue')
<1>1. CASE UNCHANGED queue
  BY <1>1
<1>2. CASE PopFront(t)
  <2>1. queue \in Seq(Task) /\ queue # << >> /\ hand'[t] = Head(queue) /\ queue' = Tail(queue)
    BY <1>2 DEF PopFront, TypeOK
  <2>2. Ids(queue) \subseteq {Head(queue).id} \cup Ids(Tail(queue))
    BY ONLY <2>1, IdsHeadTail
  <2>3. QED
    BY <2>1, <2>2
<1>3. QED
  BY <1>1, <1>2 DEF Pop

LEMMA IdsConcat ==
  ASSUME NEW s \in Seq(Task), NEW r \in Seq(Task)
  PROVE  Ids(s) \subseteq Ids(s \o r)
<1>1. \A i \in DOMAIN s : i \in DOMAIN (s \o r) /\ (s \o r)[i] = s[i]
  BY ConcatProperties, LenProperties
<1>2. QED
  BY <1>1 DEF Ids

LEMMA IdsEmpty == Ids(<< >>) = {}
BY DEF Ids

\* The worker takes tasks only while it is to run, and join() waits for it.
LEMMA StepWorker ==
  ASSUME NEW k, Controllers = {k}, IInv, WorkerInv(k), OwedInv, [Next]_vars
  PROVE  WorkerInv(k)'
<1> USE DEF IInv, TypeOK, ShapeInv, WorkerInv, Dispatching, controlVars, queueVars, workerVars,
           lockVars, historyVars, Goto, Return
<1>1. ASSUME NEW c \in Clients, NEW kind \in {"send", "step"}, Send(c, kind) PROVE WorkerInv(k)'
  BY <1>1, Constants DEF Send
<1>2. ASSUME NEW c \in Clients, Post(c) PROVE WorkerInv(k)'
  BY <1>2, Constants DEF Post
<1>3. ASSUME NEW c \in Clients, NEW kind \in {"future", "delayed", "timeout"}, PostAsync(c, kind)
      PROVE  WorkerInv(k)'
  BY <1>3, Constants DEF PostAsync
<1>4. ASSUME NEW c \in Clients, StartWorker(c) PROVE WorkerInv(k)'
  BY <1>4, Constants DEF StartWorker
<1>5. ASSUME NEW c \in Controllers, StopWorker(c) PROVE WorkerInv(k)'
  BY <1>5, Constants DEF StopWorker
<1>6. ASSUME NEW c \in Clients, ProcessAll(c) PROVE WorkerInv(k)'
  BY <1>6, Constants DEF ProcessAll
<1>7. ASSUME NEW c \in Clients, ClearQueue(c) PROVE WorkerInv(k)'
  BY <1>7, Constants DEF ClearQueue
<1>8. ASSUME NEW c \in Clients, Reset(c) PROVE WorkerInv(k)'
  BY <1>8, Constants DEF Reset
<1>9. ASSUME NEW t \in Threads, Start(t) PROVE WorkerInv(k)'
  BY <1>9, Constants DEF Start, Started
<1>10. ASSUME NEW t \in Threads, StartQueue(t) PROVE WorkerInv(k)'
  BY <1>10, Constants DEF StartQueue
<1>11. ASSUME NEW t \in Threads, StartThread(t) PROVE WorkerInv(k)'
  <2>1. k # Worker /\ t # Worker /\ k \in Threads
    BY <1>11, Constants DEF StartThread, Threads
  <2>2. QED
    BY <1>11, <2>1, Constants DEF StartThread
<1>12. ASSUME NEW t \in Threads, Stop(t) PROVE WorkerInv(k)'
  <2>1. t = k /\ k # Worker /\ k \in Threads
    BY <1>12, Constants DEF Stop, Threads
  <2>2. QED
    BY <1>12, <2>1, Constants DEF Stop
<1>13. ASSUME NEW t \in Threads, StopQueue(t) PROVE WorkerInv(k)'
  BY <1>13, Constants DEF StopQueue
<1>14. ASSUME NEW t \in Threads, Join(t) PROVE WorkerInv(k)'
  BY <1>14, Constants DEF Join
<1>15. ASSUME NEW t \in Threads, Push(t) PROVE WorkerInv(k)'
  BY <1>15, Constants DEF Push
<1>16. ASSUME NEW t \in Threads, PushTimed(t) PROVE WorkerInv(k)'
  BY <1>16, Constants DEF PushTimed
<1>17. ASSUME NEW t \in Threads, Poll(t) PROVE WorkerInv(k)'
  BY <1>17, Constants DEF Poll, Begin
<1>18. ASSUME NEW t \in Threads, CheckState(t) PROVE WorkerInv(k)'
  BY <1>18, Constants DEF CheckState, Resume
<1>19. ASSUME NEW t \in Threads, Lock(t) PROVE WorkerInv(k)'
  BY <1>19, Constants DEF Lock
<1>20. ASSUME NEW t \in Threads, Finish(t) PROVE WorkerInv(k)'
  BY <1>20, Constants DEF Finish, Resume
<1>21. ASSUME NEW t \in Threads, Drain(t) PROVE WorkerInv(k)'
  BY <1>21, Constants DEF Drain
<1>22. ASSUME Loop PROVE WorkerInv(k)'
  BY <1>22, Constants DEF Loop
<1>23. ASSUME PopWait PROVE WorkerInv(k)'
  BY <1>23, Constants DEF PopWait, Begin
<1>24. ASSUME NEW t \in Threads, Reenter(t) PROVE WorkerInv(k)'
  BY <1>24, Constants DEF Reenter
<1>25. ASSUME NEW t \in Threads, NEW s \in States, ChangeState(t, s) PROVE WorkerInv(k)'
  BY <1>25, Constants DEF ChangeState
<1>26. ASSUME Elapse PROVE WorkerInv(k)'
  BY <1>26, Constants DEF Elapse
<1>27. ASSUME UNCHANGED vars PROVE WorkerInv(k)'
  BY <1>27, Constants DEF vars
<1>28. QED
  BY <1>1, <1>2, <1>3, <1>4, <1>5, <1>6, <1>7, <1>8, <1>9, <1>10, <1>11, <1>12, <1>13,
     <1>14, <1>15, <1>16, <1>17, <1>18, <1>19, <1>20, <1>21, <1>22, <1>23, <1>24,
     <1>25, <1>26, <1>27 DEF Next, Call, Continue, Act

\* What a step has to keep: it may only settle a task that a thread puts down.
LEMMA OwedKept ==
  ASSUME OwedInv, queue' = queue, owed' = owed, settled \subseteq settled',
         \A u \in Threads : pc[u] \in Dispatching =>
           \/ pc'[u] \in Dispatching /\ hand'[u] = hand[u]
           \/ hand[u].id \in settled',
         pc'[Worker] \notin Dispatching => hand'[Worker] = None
  PROVE  OwedInv'
<1>1. ASSUME NEW c \in Clients, NEW id \in owed'[c]
      PROVE  \/ id \in settled' \/ id \in Ids(queue')
             \/ \E u \in Threads : pc'[u] \in Dispatching /\ hand'[u].id = id
  <2>1. CASE id \in settled \/ id \in Ids(queue)
    BY <2>1
  <2>2. ASSUME NEW u \in Threads, pc[u] \in Dispatching, hand[u].id = id
        PROVE  \/ id \in settled'
               \/ \E v \in Threads : pc'[v] \in Dispatching /\ hand'[v].id = id
    BY <2>2
  <2>3. QED
    BY <1>1, <2>1, <2>2 DEF OwedInv
<1>2. QED
  BY <1>1 DEF OwedInv, Dispatching

\* No step loses an owed task: it goes from the queue to a thread's hands,
\* and from there it is settled.
LEMMA StepOwed ==
  ASSUME NEW k, Controllers = {k}, IInv, WorkerInv(k), OwedInv, [Next]_vars
  PROVE  OwedInv'
<1> USE DEF IInv, TypeOK, ShapeInv, OwedInv, Dispatching, controlVars, queueVars, workerVars,
           lockVars, historyVars, Goto, Return
<1>1. ASSUME NEW c \in Clients, NEW kind \in {"send", "step"}, Send(c, kind) PROVE OwedInv'
  BY <1>1, Constants DEF Send
<1>2. ASSUME NEW c \in Clients, Post(c) PROVE OwedInv'
  <2>1. NewTask("post") \in Task
    BY <1>2, NewTaskType DEF Post, Kinds
  <2>2. Ids(queue) \subseteq Ids(queue')
    BY <1>2, <2>1, IdsAppend DEF Post
  <2>3. QED
    BY <1>2, <2>2, Constants DEF Post
<1>3. ASSUME NEW c \in Clients, NEW kind \in {"future", "delayed", "timeout"}, PostAsync(c, kind)
      PROVE  OwedInv'
  BY <1>3, Constants DEF PostAsync
<1>4. ASSUME NEW c \in Clients, StartWorker(c) PROVE OwedInv'
  BY <1>4, Constants DEF StartWorker
<1>5. ASSUME NEW c \in Clients, StopWorker(c) PROVE OwedInv'
  BY <1>5, Constants DEF StopWorker
<1>6. ASSUME NEW c \in Clients, ProcessAll(c) PROVE OwedInv'
  BY <1>6, Constants DEF ProcessAll
<1>7. ASSUME NEW c \in Clients, ClearQueue(c) PROVE OwedInv'
  <2>1. Ids(queue) \subseteq settled' /\ settled \subseteq settled'
    BY <1>7, IdsConcat DEF ClearQueue
  <2>2. QED
    BY <1>7, <2>1, Constants DEF ClearQueue
<1>8. ASSUME NEW c \in Clients, Reset(c) PROVE OwedInv'
  BY <1>8, Constants DEF Reset
<1>9. ASSUME NEW t \in Threads, Start(t) PROVE OwedInv'
  BY <1>9, Constants DEF Start, Started
<1>10. ASSUME NEW t \in Threads, StartQueue(t) PROVE OwedInv'
  BY <1>10, Constants DEF StartQueue
<1>11. ASSUME NEW t \in Threads, StartThread(t) PROVE OwedInv'
  BY <1>11, Constants DEF StartThread
<1>12. ASSUME NEW t \in Threads, Stop(t) PROVE OwedInv'
  BY <1>12, Constants DEF Stop
<1>13. ASSUME NEW t \in Threads, StopQueue(t) PROVE OwedInv'
  BY <1>13, Constants DEF StopQueue
<1>14. ASSUME NEW t \in Threads, Join(t) PROVE OwedInv'
  BY <1>14, Constants DEF Join
<1>15. ASSUME NEW t \in Threads, Push(t) PROVE OwedInv'
  <2>1. hand[t] \in Task /\ t # Worker
    BY <1>15, HandType, Constants DEF Push
  <2>2. Ids(queue) \subseteq Ids(queue')
    <3>1. queue' \in {queue, Append(queue, hand[t])}
      BY <1>15 DEF Push
    <3>2. queue \in Seq(Task)
      OBVIOUS
    <3>3. QED
      BY ONLY <2>1, <3>1, <3>2, IdsAppend
  <2>3. \A u \in Threads : pc[u] \in Dispatching \/ u = Worker =>
                               hand'[u] = hand[u] /\ pc'[u] = pc[u]
    BY <1>15, <2>1 DEF Push
  <2>4. UNCHANGED <<settled, owed>>
    BY <1>15 DEF Push
  <2>5. QED
    BY <2>2, <2>3, <2>4, Constants
<1>16. ASSUME NEW t \in Threads, PushTimed(t) PROVE OwedInv'
  <2>1. /\ \A u \in Threads \ {t} : hand'[u] = hand[u] /\ pc'[u] = pc[u]
        /\ queue' = queue /\ owed' = owed /\ settled' = settled
        /\ pc[t] \notin Dispatching /\ hand'[t] = None
    BY <1>16 DEF PushTimed
  <2>2. pc'[Worker] \notin Dispatching => hand'[Worker] = None
    BY <2>1, Constants
  <2>3. QED
    BY ONLY OwedInv, <2>1, <2>2, OwedKept
<1>17. ASSUME NEW t \in Threads, Poll(t) PROVE OwedInv'
  <2>1. CASE Pop(t)
    <3>1. pc[t] \notin Dispatching /\ pc'[t] \in Dispatching
      BY <1>17, <2>1, PopType, Constants DEF Poll, Begin, Pop, PopFront, Ready
    <3>2. Ids(queue) \subseteq {hand'[t].id} \cup Ids(queue')
      BY <2>1, PopIds
    <3>3. \A u \in Threads \ {t} : hand'[u] = hand[u] /\ pc'[u] = pc[u]
      BY <1>17, <2>1, PopType, Constants DEF Poll, Begin
    <3>4. UNCHANGED settled /\ \A c \in Clients : owed'[c] \subseteq owed[c]
      BY <1>17 DEF Poll
    <3>5. \A u \in Threads : pc[u] \in Dispatching =>
                               pc'[u] \in Dispatching /\ hand'[u] = hand[u]
      BY <3>1, <3>3
    <3>6. ASSUME NEW d \in Clients, NEW id \in owed'[d]
          PROVE  \/ id \in settled' \/ id \in Ids(queue')
                 \/ \E u \in Threads : pc'[u] \in Dispatching /\ hand'[u].id = id
      <4>1. CASE id \in Ids(queue)
        BY <3>1, <3>2, <4>1, Constants
      <4>2. CASE id \in settled
        BY <3>4, <4>2
      <4>3. CASE \E u \in Threads : pc[u] \in Dispatching /\ hand[u].id = id
        BY <3>5, <4>3
      <4>4. QED
        BY <3>4, <3>6, <4>1, <4>2, <4>3
    <3>7. pc'[Worker] \notin Dispatching => hand'[Worker] = None
      BY <3>1, <3>3, Constants
    <3>8. QED
      BY <3>6, <3>7
  <2>2. CASE ~Ready
    BY <1>17, <2>2, Constants DEF Poll, Pop, PopFront, Ready
  <2>3. QED
    BY <1>17, <2>1, <2>2 DEF Poll
<1>18. ASSUME NEW t \in Threads, CheckState(t) PROVE OwedInv'
  <2>1. /\ \A u \in Threads \ {t} : hand'[u] = hand[u] /\ pc'[u] = pc[u]
        /\ queue' = queue /\ owed' = owed /\ settled \subseteq settled' /\ pc[t] \in Dispatching
    BY <1>18 DEF CheckState
  <2>2. \/ pc'[t] \in Dispatching /\ hand'[t] = hand[t]
        \/ pc'[t] \notin Dispatching /\ hand'[t] = None /\ hand[t].id \in settled'
    BY <1>18 DEF CheckState, Resume
  <2>3. pc'[Worker] \notin Dispatching => hand'[Worker] = None
    BY <2>1, <2>2, Constants
  <2>4. \A u \in Threads : pc[u] \in Dispatching =>
          \/ pc'[u] \in Dispatching /\ hand'[u] = hand[u]
          \/ hand[u].id \in settled'
    BY <2>1, <2>2
  <2>5. QED
    BY ONLY OwedInv, <2>1, <2>3, <2>4, OwedKept
<1>19. ASSUME NEW t \in Threads, Lock(t) PROVE OwedInv'
  BY <1>19, Constants DEF Lock
<1>20. ASSUME NEW t \in Threads, Finish(t) PROVE OwedInv'
  <2>1. /\ \A u \in Threads \ {t} : hand'[u] = hand[u] /\ pc'[u] = pc[u]
        /\ queue' = queue /\ owed' = owed /\ settled \subseteq settled'
        /\ hand'[t] = None /\ hand[t].id \in settled'
    BY <1>20 DEF Finish
  <2>2. pc'[Worker] \notin Dispatching => hand'[Worker] = None
    BY <2>1, Constants
  <2>3. \A u \in Threads : pc[u] \in Dispatching =>
          \/ pc'[u] \in Dispatching /\ hand'[u] = hand[u]
          \/ hand[u].id \in settled'
    BY <2>1
  <2>4. QED
    BY ONLY OwedInv, <2>1, <2>2, <2>3, OwedKept
<1>21. ASSUME NEW t \in Threads, Drain(t) PROVE OwedInv'
  <2>1. /\ \A u \in Threads \ {t} : pc'[u] = pc[u]
        /\ hand' = hand /\ queue' = queue /\ owed' = owed /\ settled' = settled
        /\ pc[t] \notin Dispatching
    BY <1>21 DEF Drain
  <2>2. pc'[Worker] \notin Dispatching => hand'[Worker] = None
    BY <2>1, Constants
  <2>3. QED
    BY ONLY OwedInv, <2>1, <2>2, OwedKept
<1>22. ASSUME Loop PROVE OwedInv'
  BY <1>22, Constants DEF Loop
<1>23. ASSUME PopWait PROVE OwedInv'
  <2>1. CASE Pop(Worker)
    <3>1. pc[Worker] \notin Dispatching /\ pc'[Worker] \in Dispatching
      BY <1>23, <2>1, PopType, Constants DEF PopWait, Begin, Pop, PopFront, Ready
    <3>2. Ids(queue) \subseteq {hand'[Worker].id} \cup Ids(queue')
      BY <2>1, PopIds, Constants
    <3>3. \A u \in Threads \ {Worker} : hand'[u] = hand[u] /\ pc'[u] = pc[u]
      BY <1>23, <2>1, PopType, Constants DEF PopWait, Begin
    <3>4. UNCHANGED settled /\ \A c \in Clients : owed'[c] \subseteq owed[c]
      BY <1>23 DEF PopWait
    <3>5. \A u \in Threads : pc[u] \in Dispatching =>
                               pc'[u] \in Dispatching /\ hand'[u] = hand[u]
      BY <3>1, <3>3
    <3>6. ASSUME NEW d \in Clients, NEW id \in owed'[d]
          PROVE  \/ id \in settled' \/ id \in Ids(queue')
                 \/ \E u \in Threads : pc'[u] \in Dispatching /\ hand'[u].id = id
      <4>1. CASE id \in Ids(queue)
        BY <3>1, <3>2, <4>1, Constants
      <4>2. CASE id \in settled
        BY <3>4, <4>2
      <4>3. CASE \E u \in Threads : pc[u] \in Dispatching /\ hand[u].id = id
        BY <3>5, <4>3
      <4>4. QED
        BY <3>4, <3>6, <4>1, <4>2, <4>3
    <3>7. pc'[Worker] \notin Dispatching => hand'[Worker] = None
      BY <3>1, <3>3, Constants
    <3>8. QED
      BY <3>6, <3>7
  <2>2. CASE ~Ready
    BY <1>23, <2>2, Constants DEF PopWait, Pop, PopFront, Ready
  <2>3. QED
    BY <1>23, <2>1, <2>2 DEF PopWait
<1>24. ASSUME NEW t \in Threads, Reenter(t) PROVE OwedInv'
  <2>1. NewTask("reentrant") \in Task
    BY <1>24, NewTaskType DEF Reenter, Kinds
  <2>2. Ids(queue) \subseteq Ids(queue')
    <3>1. queue' \in {queue, Append(queue, NewTask("reentrant"))}
      BY <1>24 DEF Reenter
    <3>2. queue \in Seq(Task)
      OBVIOUS
    <3>3. QED
      BY ONLY <2>1, <3>1, <3>2, IdsAppend
  <2>3. /\ UNCHANGED <<hand, settled, owed>>
        /\ \A u \in Threads : pc[u] \in Dispatching => pc'[u] \in Dispatching
    BY <1>24 DEF Reenter
  <2>4. pc'[Worker] \notin Dispatching => pc[Worker] \notin Dispatching
    BY <2>3, Constants
  <2>5. ASSUME NEW c \in Clients, NEW id \in owed'[c]
        PROVE  \/ id \in settled' \/ id \in Ids(queue')
               \/ \E u \in Threads : pc'[u] \in Dispatching /\ hand'[u].id = id
    BY <2>2, <2>3, <2>5
  <2>6. QED
    BY <2>3, <2>4, <2>5
<1>25. ASSUME NEW t \in Threads, NEW s \in States, ChangeState(t, s) PROVE OwedInv'
  BY <1>25, Constants DEF ChangeState
<1>26. ASSUME Elapse PROVE OwedInv'
  BY <1>26, Constants DEF Elapse
<1>27. ASSUME UNCHANGED vars PROVE OwedInv'
  BY <1>27, Constants DEF vars
<1>28. QED
  BY <1>1, <1>2, <1>3, <1>4, <1>5, <1>6, <1>7, <1>8, <1>9, <1>10, <1>11, <1>12, <1>13,
     <1>14, <1>15, <1>16, <1>17, <1>18, <1>19, <1>20, <1>21, <1>22, <1>23, <1>24,
     <1>25, <1>26, <1>27 DEF Next, Call, Continue, Act

\* Both hold initially.
LEMMA InitDrain ==
  ASSUME NEW k, Controllers = {k}, Init
  PROVE  WorkerInv(k) /\ OwedInv
BY Constants DEF Init, WorkerInv, OwedInv, Dispatching

\* A thread stops draining only when it finds the queues empty.
LEMMA DrainReturns ==
  ASSUME IInv, NEW c \in Clients, pc[c] = "poll", pc'[c] = "idle", [Next]_vars
  PROVE  Poll(c) /\ ~Ready
<1> USE DEF IInv, TypeOK, ShapeInv, Dispatching, controlVars, Goto, Return
<1>1. ASSUME NEW d \in Clients, Call(d) PROVE FALSE
  BY <1>1, Constants DEF Call, Send, Post, PostAsync, StartWorker, StopWorker, ProcessAll,
     ClearQueue, Reset
<1>2. ASSUME NEW t \in Threads, Continue(t), ~Poll(c) PROVE FALSE
  BY <1>2, Constants DEF Continue, Start, StartQueue, StartThread, Stop, StopQueue, Join, Push,
     PushTimed, Poll, CheckState, Lock, Finish, Drain, Loop, PopWait, Begin, Started
<1>3. ASSUME NEW t \in Threads, Act(t) PROVE FALSE
  <2>1. ASSUME Reenter(t) PROVE FALSE
    <3>1. pc[t] = "acting" /\ (UNCHANGED pc \/ pc' = [pc EXCEPT ![t] = "lock"])
      BY <2>1 DEF Reenter
    <3>2. QED
      BY <3>1, Constants
  <2>2. \A s \in States : ~ChangeState(t, s)
    BY DEF ChangeState
  <2>3. QED
    BY <1>3, <2>1, <2>2 DEF Act
<1>4. ~Elapse /\ ~UNCHANGED vars
  BY DEF Elapse, vars
<1>5. Poll(c)
  BY <1>1, <1>2, <1>3, <1>4 DEF Next
<1>6. ~(Pop(c) /\ Begin(c))
  BY Constants DEF Begin
<1>7. QED
  BY <1>5, <1>6 DEF Poll

\* stop_worker() drains: when it returns, nothing that was queued, or in the
\* worker's hands, when it was called is left there.  It rests on the worker
\* being gone by then, or started anew: with one thread that stops it, a
\* worker that is not to run has left its last task.
THEOREM StopDrainsCorrect ==
  ASSUME NEW k, Controllers = {k}
  PROVE  Spec => StopDrains
<1> DEFINE DrainInv == IInv /\ WorkerInv(k) /\ OwedInv
           Returned == \A c \in Clients :
             pc[c] = "poll" /\ back[c] = "stop" /\ pc'[c] = "idle" =>
               \A id \in owed[c] :
                 \/ id \in settled
                 \/ \E t \in Threads :
                      hand[t] # None /\ hand[t].id = id /\ (t = Worker => running)
<1>1. Init => DrainInv
  BY InitIInv, InitDrain
<1>2. DrainInv /\ [Next]_vars => DrainInv'
  BY StepType, StepShape, StepDispatcher, StepWorker, StepOwed DEF IInv
<1>3. DrainInv /\ [Next]_vars => [Returned]_vars
  <2>1. SUFFICES ASSUME DrainInv, [Next]_vars, NEW c \in Clients,
                        pc[c] = "poll", back[c] = "stop", pc'[c] = "idle",
                        NEW id \in owed[c], id \notin settled
                 PROVE  \E t \in Threads :
                          hand[t] # None /\ hand[t].id = id /\ (t = Worker => running)
    OBVIOUS
  <2>2. ~Ready
    BY <2>1, DrainReturns
  <2>3. id \notin Ids(queue)
    BY <2>2, IdsEmpty DEF Ready
  <2>4. ~running => pc[Worker] \in {"off", "loop"}
    BY <2>1 DEF WorkerInv
  <2>5. PICK t \in Threads : pc[t] \in Dispatching /\ hand[t].id = id
    BY <2>1, <2>3 DEF OwedInv
  <2>6. hand[t] # None /\ (t = Worker => running)
    BY <2>1, <2>4, <2>5 DEF Dispatching, IInv, ShapeInv
  <2>7. QED
    BY <2>5, <2>6
<1>4. QED
  <2>1. Spec => []DrainInv
    BY <1>1, <1>2, PTL DEF Spec
  <2>2. Spec => [][Returned]_vars
    BY <1>3, <2>1, PTL DEF Spec
  <2>3. QED
    BY <2>2 DEF StopDrains

-----------------------------------------------------------------------------
(* No event is lost or dispatched twice by the active object, for any number *)
(* of threads that send, post, drain, clear and stop.                        *)

Held    == {t \in Threads : hand[t] # None}
HeldIds == {hand[t].id : t \in Held}

Distinct(s) == \A i, j \in DOMAIN s : s[i].id = s[j].id => i = j
OneEach     == \A t, u \in Held : hand[t].id = hand[u].id => t = u

\* Four places, no number in two of them, and none of 1 .. n missing.
Spread(H, Q, T, S, n) ==
  /\ H \cap Q = {} /\ H \cap T = {} /\ H \cap S = {}
  /\ Q \cap T = {} /\ Q \cap S = {} /\ T \cap S = {}
  /\ H \cup Q \cup T \cup S = 1 .. n

PlacesInv ==
  /\ Spread(HeldIds, Ids(queue), Ids(timed), settled, accepted)
  /\ Distinct(queue) /\ Distinct(timed) /\ OneEach

\* A thread that may take a task has none in hand.
HandsInv ==
  \A t \in Threads :
    hand[t] # None => pc[t] \in {"start", "startqueue", "startthread", "push", "pushtimed"}
                                  \cup Dispatching

-----------------------------------------------------------------------------
(* Moving a number from one place to another.                              *)

LEMMA NoneIsNoTask == None \notin Task
BY ThreadSafeFsmAssumption DEF Assumptions

LEMMA IntervalGrows ==
  ASSUME NEW n \in Nat
  PROVE  1 .. (n + 1) = (1 .. n) \cup {n + 1} /\ n + 1 \notin 1 .. n
OBVIOUS

LEMMA AppendFacts ==
  ASSUME NEW s \in Seq(Task), Distinct(s), NEW e \in Task, e.id \notin Ids(s)
  PROVE  Ids(Append(s, e)) = Ids(s) \cup {e.id} /\ Distinct(Append(s, e))
<1> DEFINE r == Append(s, e)
<1>1. /\ DOMAIN s = 1 .. Len(s) /\ DOMAIN r = 1 .. Len(s) + 1 /\ Len(s) \in Nat
      /\ \A i \in 1 .. Len(s) : r[i] = s[i]
      /\ r[Len(s) + 1] = e
  BY AppendProperties
<1> HIDE DEF r
<1>2. \A i \in 1 .. Len(s) : s[i].id # e.id BY <1>1 DEF Ids
<1>3. Ids(r) = Ids(s) \cup {e.id} BY <1>1 DEF Ids
<1>4. Distinct(r)
  <2> SUFFICES ASSUME NEW i \in DOMAIN r, NEW j \in DOMAIN r, r[i].id = r[j].id
               PROVE  i = j
    BY DEF Distinct
  <2>1. CASE i \in 1 .. Len(s) /\ j \in 1 .. Len(s) BY <1>1, <2>1 DEF Distinct
  <2>2. CASE i = Len(s) + 1 \/ j = Len(s) + 1 BY <1>1, <1>2, <2>2
  <2> QED BY <1>1, <2>1, <2>2
<1> QED BY <1>3, <1>4 DEF r

LEMMA TailFacts ==
  ASSUME NEW s \in Seq(Task), Distinct(s), s # << >>
  PROVE  /\ Head(s) \in Task
         /\ Ids(s) = Ids(Tail(s)) \cup {Head(s).id} /\ Head(s).id \notin Ids(Tail(s))
         /\ Distinct(Tail(s))
<1> DEFINE r == Tail(s)
<1>1. /\ DOMAIN s = 1 .. Len(s) /\ Len(s) \in Nat \ {0} /\ Len(r) = Len(s) - 1
      /\ DOMAIN r = 1 .. Len(r) /\ \A i \in 1 .. Len(r) : r[i] = s[i + 1]
      /\ Head(s) = s[1] /\ Head(s) \in Task
  BY HeadTailProperties
<1> HIDE DEF r
<1>2. \A i \in DOMAIN r : i + 1 \in DOMAIN s /\ i + 1 # 1 BY <1>1
<1>3. \A j \in DOMAIN s : j = 1 \/ (j - 1 \in DOMAIN r /\ r[j - 1] = s[j]) BY <1>1
<1>4. 1 \in DOMAIN s BY <1>1
<1>5. Ids(s) = Ids(r) \cup {Head(s).id}
  <2>1. Ids(r) \subseteq Ids(s) BY <1>1, <1>2 DEF Ids
  <2>2. Head(s).id \in Ids(s) BY <1>1, <1>4 DEF Ids
  <2>3. Ids(s) \subseteq Ids(r) \cup {Head(s).id} BY <1>1, <1>3 DEF Ids
  <2> QED BY <2>1, <2>2, <2>3
<1>6. Head(s).id \notin Ids(r) BY <1>1, <1>2, <1>4 DEF Ids, Distinct
<1>7. Distinct(r)
  <2> SUFFICES ASSUME NEW i \in DOMAIN r, NEW j \in DOMAIN r, r[i].id = r[j].id
               PROVE  i = j
    BY DEF Distinct
  <2>1. i + 1 = j + 1 BY <1>1, <1>2 DEF Distinct
  <2> QED BY <1>1, <2>1
<1> QED BY <1>1, <1>5, <1>6, <1>7 DEF r

\* r is s, of length n, with e put in after the first k.
Inserted(r, s, n, k, e) ==
  /\ DOMAIN s = 1 .. n /\ DOMAIN r = 1 .. (n + 1)
  /\ \A i \in 1 .. k : r[i] = s[i]
  /\ r[k + 1] = e
  /\ \A i \in (k + 2) .. (n + 1) : r[i] = s[i - 1]

LEMMA InsertedFacts ==
  ASSUME NEW n \in Nat, NEW k \in 0 .. n, NEW s, NEW r, NEW e, Inserted(r, s, n, k, e),
         Distinct(s), e.id \notin Ids(s)
  PROVE  Ids(r) = Ids(s) \cup {e.id} /\ Distinct(r)
<1> USE DEF Inserted
<1>1. \A i \in 1 .. n : s[i].id # e.id BY DEF Ids
<1>2. \A i \in 1 .. (n + 1) : i \in 1 .. k \/ i = k + 1 \/ i \in (k + 2) .. (n + 1) OBVIOUS
<1>3. \A i \in 1 .. k : i \in 1 .. n /\ i \in 1 .. (n + 1) OBVIOUS
<1>4. \A i \in (k + 2) .. (n + 1) : i - 1 \in 1 .. n /\ i - 1 \notin 1 .. k OBVIOUS
<1>5. \A i \in 1 .. n : i \in 1 .. k \/ (i + 1 \in (k + 2) .. (n + 1) /\ (i + 1) - 1 = i)
  OBVIOUS
<1>6. k + 1 \in 1 .. (n + 1) OBVIOUS
<1>7. \A i \in 1 .. (n + 1) : r[i].id \in Ids(s) \cup {e.id}
  <2> SUFFICES ASSUME NEW i \in 1 .. (n + 1) PROVE r[i].id \in Ids(s) \cup {e.id} OBVIOUS
  <2>1. CASE i \in 1 .. k BY <1>3, <2>1 DEF Ids
  <2>2. CASE i = k + 1 BY <2>2
  <2>3. CASE i \in (k + 2) .. (n + 1)
    <3>1. r[i] = s[i - 1] /\ i - 1 \in DOMAIN s BY <1>4, <2>3
    <3> QED BY <3>1 DEF Ids
  <2> QED BY <1>2, <2>1, <2>2, <2>3
<1>8. \A i \in 1 .. n : s[i].id \in Ids(r)
  <2> SUFFICES ASSUME NEW i \in 1 .. n PROVE s[i].id \in Ids(r) OBVIOUS
  <2>1. CASE i \in 1 .. k
    <3>1. i \in DOMAIN r /\ r[i] = s[i] BY <1>3, <2>1
    <3> QED BY <3>1 DEF Ids
  <2>2. CASE i + 1 \in (k + 2) .. (n + 1) /\ (i + 1) - 1 = i
    <3>1. i + 1 \in DOMAIN r BY <2>2
    <3>2. r[i + 1] = s[i] BY <2>2
    <3> QED BY <3>1, <3>2 DEF Ids
  <2> QED BY <1>5, <2>1, <2>2
<1>9. e.id \in Ids(r) BY <1>6 DEF Ids
<1>10. Ids(r) = Ids(s) \cup {e.id}
  <2>1. Ids(r) \subseteq Ids(s) \cup {e.id} BY <1>7 DEF Ids
  <2>2. Ids(s) \subseteq Ids(r)
    <3>1. Ids(s) = {s[i].id : i \in 1 .. n} BY DEF Ids
    <3> QED BY <1>8, <3>1
  <2> QED BY <1>9, <2>1, <2>2
<1>11. Distinct(r)
  <2> SUFFICES ASSUME NEW i \in 1 .. (n + 1), NEW j \in 1 .. (n + 1), r[i].id = r[j].id
               PROVE  i = j
    BY DEF Distinct
  <2>1. \A a, b \in 1 .. n : s[a].id = s[b].id => a = b BY DEF Distinct
  <2>2. CASE i \in 1 .. k BY <1>1, <1>2, <1>3, <1>4, <2>1, <2>2
  <2>3. CASE i = k + 1 BY <1>1, <1>2, <1>3, <1>4, <2>3
  <2>4. CASE i \in (k + 2) .. (n + 1) BY <1>1, <1>2, <1>3, <1>4, <2>1, <2>4
  <2> QED BY <1>2, <2>2, <2>3, <2>4
<1> QED BY <1>10, <1>11

\* push_timed() puts the task between two others.
LEMMA InsertFacts ==
  ASSUME NEW s \in Seq(Task), Distinct(s), NEW e \in Task, e.id \notin Ids(s),
         NEW k \in 0 .. Len(s)
  PROVE  LET r == SubSeq(s, 1, k) \o <<e>> \o SubSeq(s, k + 1, Len(s))
         IN  Ids(r) = Ids(s) \cup {e.id} /\ Distinct(r)
<1> DEFINE a == SubSeq(s, 1, k)
           b == a \o <<e>>
           c == SubSeq(s, k + 1, Len(s))
           r == b \o c
<1>1. PICK n \in Nat : n = Len(s) OBVIOUS
<1>2. k \in 0 .. n /\ DOMAIN s = 1 .. n /\ \A i \in 1 .. n : s[i] \in Task
  BY <1>1, ElementOfSeq
<1>3. a \in Seq(Task) /\ Len(a) = k /\ \A i \in 1 .. k : a[i] = s[i]
  BY <1>2, SubSeqProperties
<1>4. /\ c \in Seq(Task) /\ Len(c) = n - k
      /\ \A i \in 1 .. (n - k) : c[i] = s[k + i]
  <2>1. k + 1 \in Int /\ n \in Int /\ \A i \in (k + 1) .. n : s[i] \in Task BY <1>2
  <2>2. /\ c \in Seq(Task) /\ Len(c) = IF k + 1 <= n THEN n - (k + 1) + 1 ELSE 0
        /\ \A i \in 1 .. (n - (k + 1) + 1) : c[i] = s[(k + 1) + i - 1]
    BY <1>1, <2>1, SubSeqProperties
  <2>3. n - (k + 1) + 1 = n - k /\ (~(k + 1 <= n) => n - k = 0) BY <1>2
  <2>4. \A i \in 1 .. (n - k) : (k + 1) + i - 1 = k + i BY <1>2
  <2> HIDE DEF c
  <2>5. Len(c) = n - k BY <2>2, <2>3
  <2> QED BY <2>2, <2>3, <2>4, <2>5
<1> HIDE DEF a, c
<1>6. /\ b \in Seq(Task) /\ Len(b) = k + 1
      /\ \A i \in 1 .. k : b[i] = s[i]
      /\ b[k + 1] = e
  <2>1. b = Append(a, e) BY <1>3, AppendIsConcat
  <2>2. /\ Append(a, e) \in Seq(Task) /\ Len(Append(a, e)) = Len(a) + 1
        /\ \A i \in 1 .. Len(a) : Append(a, e)[i] = a[i]
        /\ Append(a, e)[Len(a) + 1] = e
    BY <1>3, AppendProperties
  <2> HIDE DEF b
  <2> QED BY <1>3, <2>1, <2>2
<1> HIDE DEF b
<1>7. /\ Len(r) = n + 1 /\ r \in Seq(Task)
      /\ \A i \in 1 .. (n + 1) : r[i] = IF i <= k + 1 THEN b[i] ELSE c[i - (k + 1)]
  <2>1. /\ b \o c \in Seq(Task) /\ Len(b \o c) = Len(b) + Len(c)
        /\ \A i \in 1 .. (Len(b) + Len(c)) :
             (b \o c)[i] = IF i <= Len(b) THEN b[i] ELSE c[i - Len(b)]
    BY <1>4, <1>6, ConcatProperties
  <2>2. (k + 1) + (n - k) = n + 1 BY <1>2
  <2>3. Len(b) = k + 1 /\ Len(c) = n - k BY <1>4, <1>6
  <2>4. Len(b) + Len(c) = n + 1 BY <2>2, <2>3
  <2> QED BY <2>1, <2>3, <2>4
<1> HIDE DEF r
<1>8. DOMAIN r = 1 .. (n + 1)
  <2>1. r \in Seq(Task) /\ Len(r) = n + 1 BY <1>7
  <2> QED BY <2>1, LenProperties
<1>9. \A i \in 1 .. k : r[i] = s[i]
  <2>1. \A i \in 1 .. k : i \in 1 .. (n + 1) /\ i <= k + 1 BY <1>2
  <2> QED BY <1>6, <1>7, <2>1
<1>10. r[k + 1] = e
  <2>1. k + 1 \in 1 .. (n + 1) /\ k + 1 <= k + 1 BY <1>2
  <2> QED BY <1>6, <1>7, <2>1
<1>11. \A i \in (k + 2) .. (n + 1) : r[i] = s[i - 1]
  <2> SUFFICES ASSUME NEW i \in (k + 2) .. (n + 1) PROVE r[i] = s[i - 1] OBVIOUS
  <2>1. /\ i \in 1 .. (n + 1) /\ ~(i <= k + 1)
        /\ i - (k + 1) \in 1 .. (n - k) /\ k + (i - (k + 1)) = i - 1
    BY <1>2
  <2>2. r[i] = c[i - (k + 1)] BY <1>7, <2>1
  <2>3. c[i - (k + 1)] = s[k + (i - (k + 1))] BY <1>4, <2>1
  <2> QED BY <2>1, <2>2, <2>3
<1>12. k \in 0 .. n /\ DOMAIN s = 1 .. n BY <1>2
<1>13. Inserted(r, s, n, k, e) BY <1>8, <1>9, <1>10, <1>11, <1>12 DEF Inserted
<1>14. Ids(r) = Ids(s) \cup {e.id} /\ Distinct(r) BY <1>12, <1>13, InsertedFacts
<1> QED BY <1>14 DEF r, b, a, c

\* A thread without a task takes one that no other has.
LEMMA TakeFacts ==
  ASSUME TypeOK, OneEach, NEW t \in Threads, hand[t] = None,
         NEW e \in Task, e.id \notin HeldIds, hand' = [hand EXCEPT ![t] = e]
  PROVE  HeldIds' = HeldIds \cup {e.id} /\ OneEach'
<1>1. e # None BY NoneIsNoTask
<1>2. \A u \in Threads : hand'[u] = IF u = t THEN e ELSE hand[u] BY DEF TypeOK
<1>3. Held' = Held \cup {t} /\ t \notin Held BY <1>1, <1>2 DEF Held
<1>4. \A u \in Held : hand[u].id # e.id BY DEF HeldIds
<1>5. \A u \in Held : u # t /\ hand'[u] = hand[u] BY <1>2, <1>3 DEF Held
<1>6. hand'[t] = e BY <1>2
<1>7. HeldIds' = HeldIds \cup {e.id}
  <2>1. HeldIds' = {hand'[u].id : u \in Held \cup {t}} BY <1>3 DEF HeldIds
  <2> QED BY <1>5, <1>6, <2>1 DEF HeldIds
<1>8. OneEach' BY <1>3, <1>4, <1>5, <1>6 DEF OneEach
<1> QED BY <1>7, <1>8

\* A thread hands its task on.
LEMMA GiveFacts ==
  ASSUME TypeOK, OneEach, NEW t \in Threads, hand[t] # None,
         hand' = [hand EXCEPT ![t] = None]
  PROVE  /\ HeldIds = HeldIds' \cup {hand[t].id} /\ hand[t].id \notin HeldIds'
         /\ OneEach'
<1>1. \A u \in Threads : hand'[u] = IF u = t THEN None ELSE hand[u] BY DEF TypeOK
<1>2. Held' = Held \ {t} /\ t \in Held BY <1>1 DEF Held
<1>3. \A u \in Held' : u # t /\ u \in Held /\ hand'[u] = hand[u] BY <1>1, <1>2 DEF Held
<1>4. HeldIds' = {hand[u].id : u \in Held \ {t}}
  <2>1. HeldIds' = {hand'[u].id : u \in Held \ {t}} BY <1>2 DEF HeldIds
  <2> QED BY <1>2, <1>3, <2>1
<1>5. HeldIds = HeldIds' \cup {hand[t].id} BY <1>2, <1>4 DEF HeldIds
<1>6. hand[t].id \notin HeldIds' BY <1>2, <1>4 DEF OneEach
<1>7. OneEach' BY <1>2, <1>3 DEF OneEach
<1> QED BY <1>5, <1>6, <1>7

-----------------------------------------------------------------------------
(* The moves that steps are made of.                                       *)

\* The number of a new task is in no place.
LEMMA FreshId ==
  ASSUME IInv, PlacesInv, Accept
  PROVE  /\ accepted \in Nat /\ accepted' = accepted + 1
         /\ 1 .. accepted' = (1 .. accepted) \cup {accepted + 1}
         /\ accepted + 1 \notin HeldIds \cup Ids(queue) \cup Ids(timed) \cup settled
<1>1. accepted \in Nat /\ accepted' = accepted + 1 BY Constants DEF IInv, TypeOK, Accept
<1>2. 1 .. (accepted + 1) = (1 .. accepted) \cup {accepted + 1} /\ accepted + 1 \notin 1 .. accepted
  BY <1>1, IntervalGrows
<1> QED BY <1>1, <1>2 DEF PlacesInv, Spread

LEMMA NewInHand ==
  ASSUME IInv, PlacesInv, Accept, NEW t \in Threads, hand[t] = None, NEW kind \in Kinds,
         hand' = [hand EXCEPT ![t] = NewTask(kind)], UNCHANGED <<queue, timed, settled>>
  PROVE  PlacesInv'
<1> DEFINE e == NewTask(kind)
<1>1. e \in Task /\ e.id = accepted + 1 BY NewTaskType DEF IInv, NewTask
<1>2. e.id \notin HeldIds BY <1>1, FreshId
<1> HIDE DEF e
<1>3. hand' = [hand EXCEPT ![t] = e] BY DEF e
<1>4. HeldIds' = HeldIds \cup {accepted + 1} /\ OneEach'
  BY <1>1, <1>2, <1>3, TakeFacts DEF IInv, PlacesInv
<1>5. Spread(HeldIds', Ids(queue), Ids(timed), settled, accepted')
  BY <1>4, FreshId DEF PlacesInv, Spread
<1> QED BY <1>4, <1>5 DEF PlacesInv

LEMMA NewInQueue ==
  ASSUME IInv, PlacesInv, Accept, NEW kind \in Kinds,
         queue' = Append(queue, NewTask(kind)), UNCHANGED <<hand, timed, settled>>
  PROVE  PlacesInv'
<1> DEFINE e == NewTask(kind)
<1>1. e \in Task /\ e.id = accepted + 1 BY NewTaskType DEF IInv, NewTask
<1>2. e.id \notin Ids(queue) BY <1>1, FreshId
<1> HIDE DEF e
<1>3. queue' = Append(queue, e) BY DEF e
<1>4. Ids(queue') = Ids(queue) \cup {accepted + 1} /\ Distinct(queue')
  BY <1>1, <1>2, <1>3, AppendFacts DEF IInv, TypeOK, PlacesInv
<1>5. HeldIds' = HeldIds /\ (OneEach' <=> OneEach) BY DEF HeldIds, Held, OneEach
<1>6. Spread(HeldIds, Ids(queue'), Ids(timed), settled, accepted')
  BY <1>4, FreshId DEF PlacesInv, Spread
<1> QED BY <1>4, <1>5, <1>6 DEF PlacesInv

\* A dispatched task, or a stale timeout, is settled.
LEMMA Settle ==
  ASSUME IInv, PlacesInv, NEW t \in Threads, hand[t] # None,
         hand' = [hand EXCEPT ![t] = None], settled' = settled \cup {hand[t].id},
         UNCHANGED <<queue, timed, accepted>>
  PROVE  PlacesInv'
<1>1. HeldIds = HeldIds' \cup {hand[t].id} /\ hand[t].id \notin HeldIds' /\ OneEach'
  BY GiveFacts DEF IInv, PlacesInv
<1>2. Spread(HeldIds', Ids(queue), Ids(timed), settled', accepted)
  BY <1>1 DEF PlacesInv, Spread
<1> QED BY <1>1, <1>2 DEF PlacesInv

\* push() and push_timed() of the task in hand.
LEMMA Enqueue ==
  ASSUME IInv, PlacesInv, NEW t \in Threads, hand[t] # None,
         hand' = [hand EXCEPT ![t] = None], queue' = Append(queue, hand[t]),
         UNCHANGED <<timed, settled, accepted>>
  PROVE  PlacesInv'
<1>1. HeldIds = HeldIds' \cup {hand[t].id} /\ hand[t].id \notin HeldIds' /\ OneEach'
  BY GiveFacts DEF IInv, PlacesInv
<1>2. hand[t] \in Task /\ hand[t].id \notin Ids(queue)
  BY <1>1, HandType DEF IInv, PlacesInv, Spread
<1>3. Ids(queue') = Ids(queue) \cup {hand[t].id} /\ Distinct(queue')
  BY <1>2, AppendFacts DEF IInv, TypeOK, PlacesInv
<1>4. Spread(HeldIds', Ids(queue'), Ids(timed), settled, accepted)
  BY <1>1, <1>3 DEF PlacesInv, Spread
<1> QED BY <1>1, <1>3, <1>4 DEF PlacesInv

LEMMA EnqueueTimed ==
  ASSUME IInv, PlacesInv, NEW t \in Threads, PushTimed(t)
  PROVE  PlacesInv'
<1>1. /\ hand[t] # None /\ hand' = [hand EXCEPT ![t] = None]
      /\ UNCHANGED <<queue, settled, accepted>>
  BY DEF PushTimed, IInv, ShapeInv, historyVars
<1>2. HeldIds = HeldIds' \cup {hand[t].id} /\ hand[t].id \notin HeldIds' /\ OneEach'
  BY <1>1, GiveFacts DEF IInv, PlacesInv
<1>3. hand[t] \in Task /\ hand[t].id \notin Ids(timed)
  BY <1>1, <1>2, HandType DEF IInv, PlacesInv, Spread
<1>4. PICK k \in due .. Len(timed) :
        timed' = SubSeq(timed, 1, k) \o <<hand[t]>> \o SubSeq(timed, k + 1, Len(timed))
  BY DEF PushTimed
<1>5. timed \in Seq(Task) /\ Distinct(timed) /\ k \in 0 .. Len(timed)
  BY <1>4 DEF IInv, TypeOK, PlacesInv
<1>6. Ids(timed') = Ids(timed) \cup {hand[t].id} /\ Distinct(timed')
  BY <1>3, <1>4, <1>5, InsertFacts
<1>7. Spread(HeldIds', Ids(queue), Ids(timed'), settled, accepted)
  BY <1>2, <1>6 DEF PlacesInv, Spread
<1> QED BY <1>1, <1>2, <1>6, <1>7 DEF PlacesInv

\* try_pop() and pop_wait().
LEMMA Popped ==
  ASSUME IInv, PlacesInv, NEW t \in Threads, hand[t] = None, Pop(t),
         UNCHANGED <<settled, accepted>>
  PROVE  PlacesInv'
<1>1. ASSUME NEW s \in Seq(Task), s # << >>, Distinct(s), Ids(s) \cap HeldIds = {},
             hand' = [hand EXCEPT ![t] = Head(s)]
      PROVE  /\ Ids(s) = Ids(Tail(s)) \cup {Head(s).id} /\ Head(s).id \notin Ids(Tail(s))
             /\ Distinct(Tail(s)) /\ HeldIds' = HeldIds \cup {Head(s).id} /\ OneEach'
  <2>1. /\ Head(s) \in Task /\ Distinct(Tail(s))
        /\ Ids(s) = Ids(Tail(s)) \cup {Head(s).id} /\ Head(s).id \notin Ids(Tail(s))
    BY <1>1, TailFacts
  <2>2. Head(s).id \notin HeldIds BY <1>1, <2>1
  <2>3. HeldIds' = HeldIds \cup {Head(s).id} /\ OneEach'
    BY <1>1, <2>1, <2>2, TakeFacts DEF IInv, PlacesInv
  <2> QED BY <2>1, <2>3
<1>2. /\ queue \in Seq(Task) /\ Distinct(queue) /\ Ids(queue) \cap HeldIds = {}
      /\ timed \in Seq(Task) /\ Distinct(timed) /\ Ids(timed) \cap HeldIds = {}
  BY DEF IInv, TypeOK, PlacesInv, Spread
<1>3. CASE due > 0 /\ hand' = [hand EXCEPT ![t] = Head(timed)] /\ timed' = Tail(timed)
           /\ UNCHANGED queue
  <2>1. timed # << >> BY <1>3 DEF IInv, TypeOK
  <2>2. /\ Ids(timed) = Ids(timed') \cup {Head(timed).id} /\ Head(timed).id \notin Ids(timed')
        /\ Distinct(timed') /\ HeldIds' = HeldIds \cup {Head(timed).id} /\ OneEach'
    BY <1>1, <1>2, <1>3, <2>1
  <2>3. Spread(HeldIds', Ids(queue), Ids(timed'), settled, accepted)
    BY <2>2 DEF PlacesInv, Spread
  <2> QED BY <1>3, <2>2, <2>3 DEF PlacesInv
<1>4. CASE PopFront(t)
  <2>1. queue # << >> /\ hand' = [hand EXCEPT ![t] = Head(queue)] /\ queue' = Tail(queue)
        /\ UNCHANGED timed
    BY <1>4 DEF PopFront
  <2>2. /\ Ids(queue) = Ids(queue') \cup {Head(queue).id} /\ Head(queue).id \notin Ids(queue')
        /\ Distinct(queue') /\ HeldIds' = HeldIds \cup {Head(queue).id} /\ OneEach'
    BY <1>1, <1>2, <2>1
  <2>3. Spread(HeldIds', Ids(queue'), Ids(timed), settled, accepted)
    BY <2>2 DEF PlacesInv, Spread
  <2> QED BY <2>1, <2>2, <2>3 DEF PlacesInv
<1> QED BY <1>3, <1>4 DEF Pop

LEMMA ConcatIds ==
  ASSUME NEW s \in Seq(Task), NEW r \in Seq(Task)
  PROVE  Ids(s \o r) = Ids(s) \cup Ids(r)
<1>1. Ids(s) \subseteq Ids(s \o r) BY IdsConcat
<1>2. Ids(r) \subseteq Ids(s \o r)
  <2>1. \A i \in DOMAIN r : Len(s) + i \in DOMAIN (s \o r) /\ (s \o r)[Len(s) + i] = r[i]
    BY ConcatProperties, LenProperties
  <2> QED BY <2>1 DEF Ids
<1>3. Ids(s \o r) \subseteq Ids(s) \cup Ids(r)
  <2>1. \A i \in DOMAIN (s \o r) :
          \/ i \in DOMAIN s /\ (s \o r)[i] = s[i]
          \/ i - Len(s) \in DOMAIN r /\ (s \o r)[i] = r[i - Len(s)]
    BY ConcatProperties, LenProperties
  <2> QED BY <2>1 DEF Ids
<1> QED BY <1>1, <1>2, <1>3

LEMMA Cleared ==
  ASSUME IInv, PlacesInv, NEW c \in Clients, ClearQueue(c)
  PROVE  PlacesInv'
<1>1. /\ queue' = << >> /\ timed' = << >> /\ settled' = settled \cup Ids(queue) \cup Ids(timed)
      /\ UNCHANGED <<hand, accepted>>
  BY ConcatIds DEF ClearQueue, IInv, TypeOK
<1>2. Ids(queue') = {} /\ Ids(timed') = {} BY <1>1, IdsEmpty
<1>3. Distinct(queue') /\ Distinct(timed') BY <1>1 DEF Distinct
<1>4. HeldIds' = HeldIds /\ (OneEach' <=> OneEach) BY <1>1 DEF HeldIds, Held, OneEach
<1>5. Spread(HeldIds, Ids(queue'), Ids(timed'), settled', accepted)
  BY <1>1, <1>2 DEF PlacesInv, Spread
<1> QED BY <1>1, <1>3, <1>4, <1>5 DEF PlacesInv

-----------------------------------------------------------------------------
LEMMA StepHands ==
  ASSUME IInv, HandsInv, [Next]_vars
  PROVE  HandsInv'
<1> USE DEF IInv, TypeOK, HandsInv, Dispatching, controlVars, queueVars, workerVars,
           lockVars, historyVars, Goto, Return
<1>1. ASSUME NEW c \in Clients, NEW kind \in {"send", "step"}, Send(c, kind) PROVE HandsInv'
  BY <1>1, Constants DEF Send
<1>2. ASSUME NEW c \in Clients, Post(c) PROVE HandsInv'
  BY <1>2 DEF Post
<1>3. ASSUME NEW c \in Clients, NEW kind \in {"future", "delayed", "timeout"}, PostAsync(c, kind)
      PROVE  HandsInv'
  BY <1>3, Constants DEF PostAsync
<1>4. ASSUME NEW c \in Clients, StartWorker(c) \/ StopWorker(c) \/ ProcessAll(c) PROVE HandsInv'
  BY <1>4, Constants DEF StartWorker, StopWorker, ProcessAll
<1>5. ASSUME NEW c \in Clients, ClearQueue(c) \/ Reset(c) PROVE HandsInv'
  BY <1>5 DEF ClearQueue, Reset
<1>6. ASSUME NEW t \in Threads, Start(t) \/ StartQueue(t) PROVE HandsInv'
  BY <1>6 DEF Start, Started, StartQueue
<1>7. ASSUME NEW t \in Threads, StartThread(t) PROVE HandsInv'
  <2>1. CASE thread = "none"
    <3>1. pc[Worker] = "off" /\ hand[Worker] = None /\ Worker \in Threads
      BY <2>1, Constants DEF ShapeInv
    <3> QED BY <1>7, <2>1, <3>1 DEF StartThread
  <2>2. CASE thread # "none"
    BY <1>7, <2>2 DEF StartThread
  <2> QED BY <2>1, <2>2
<1>8. ASSUME NEW t \in Threads, Stop(t) \/ StopQueue(t) \/ Join(t) PROVE HandsInv'
  BY <1>8 DEF Stop, StopQueue, Join
<1>9. ASSUME NEW t \in Threads, Push(t) PROVE HandsInv'
  BY <1>9 DEF Push
<1>10. ASSUME NEW t \in Threads, PushTimed(t) PROVE HandsInv'
  BY <1>10 DEF PushTimed
<1>11. ASSUME NEW t \in Threads, Pop(t), Begin(t) PROVE HandsInv'
  BY <1>11, PopType DEF Begin
<1>12. ASSUME NEW t \in Threads, Poll(t) PROVE HandsInv'
  BY <1>11, <1>12 DEF Poll
<1>13. ASSUME NEW t \in Threads, CheckState(t) PROVE HandsInv'
  BY <1>13 DEF CheckState
<1>14. ASSUME NEW t \in Threads, Lock(t) \/ Drain(t) PROVE HandsInv'
  BY <1>14 DEF Lock, Drain
<1>15. ASSUME NEW t \in Threads, Finish(t) PROVE HandsInv'
  BY <1>15 DEF Finish
<1>16. ASSUME Loop PROVE HandsInv'
  BY <1>16 DEF Loop
<1>17. ASSUME PopWait PROVE HandsInv'
  BY <1>11, <1>17, Constants DEF PopWait
<1>18. ASSUME NEW t \in Threads, Reenter(t) PROVE HandsInv'
  BY <1>18 DEF Reenter
<1>19. ASSUME NEW t \in Threads, NEW s \in States, ChangeState(t, s) PROVE HandsInv'
  BY <1>19 DEF ChangeState
<1>20. CASE Elapse \/ UNCHANGED vars
  BY <1>20 DEF Elapse, vars
<1> QED
  BY <1>1, <1>2, <1>3, <1>4, <1>5, <1>6, <1>7, <1>8, <1>9, <1>10, <1>12, <1>13, <1>14,
     <1>15, <1>16, <1>17, <1>18, <1>19, <1>20 DEF Next, Call, Continue, Act

LEMMA StepPlaces ==
  ASSUME ~StepsSend, IInv, HandsInv, PlacesInv, [Next]_vars
  PROVE  PlacesInv'
<1> USE DEF controlVars, queueVars, historyVars
<1>1. CASE UNCHANGED <<hand, queue, timed, settled, accepted>>
  BY <1>1 DEF PlacesInv, HeldIds, Held, OneEach
<1>2. ASSUME NEW c \in Clients, NEW kind \in {"send", "step"}, Send(c, kind) PROVE PlacesInv'
  <2>1. c \in Threads /\ hand[c] = None
    BY <1>2, Constants DEF Send, HandsInv, Dispatching
  <2> QED BY <1>2, <2>1, NewInHand DEF Send, Kinds
<1>3. ASSUME NEW c \in Clients, Post(c) PROVE PlacesInv'
  BY <1>3, NewInQueue DEF Post, Kinds
<1>4. ASSUME NEW c \in Clients, NEW kind \in {"future", "delayed", "timeout"}, PostAsync(c, kind)
      PROVE  PlacesInv'
  <2>1. c \in Threads /\ hand[c] = None
    BY <1>4, Constants DEF PostAsync, HandsInv, Dispatching
  <2> QED BY <1>4, <2>1, NewInHand DEF PostAsync, Kinds
<1>5. ASSUME NEW c \in Clients, StartWorker(c) \/ StopWorker(c) \/ ProcessAll(c) \/ Reset(c)
      PROVE  PlacesInv'
  BY <1>1, <1>5 DEF StartWorker, StopWorker, ProcessAll, Reset
<1>6. ASSUME NEW t \in Threads,
             \/ Start(t) \/ StartQueue(t) \/ StartThread(t) \/ Stop(t) \/ StopQueue(t)
             \/ Join(t) \/ Lock(t) \/ Drain(t)
      PROVE  PlacesInv'
  BY <1>1, <1>6 DEF Start, StartQueue, StartThread, Stop, StopQueue, Join, Lock, Drain
<1>7. ASSUME NEW t \in Threads, Push(t) PROVE PlacesInv'
  <2>1. hand[t] # None /\ hand[t] \in Task
    BY <1>7, HandType DEF Push, IInv, ShapeInv
  <2>2. UNCHANGED <<timed, settled, accepted>> BY <1>7 DEF Push
  <2>3. CASE queue' = Append(queue, hand[t]) /\ hand' = [hand EXCEPT ![t] = None]
    BY <2>1, <2>2, <2>3, Enqueue
  <2>4. CASE hand' = [hand EXCEPT ![t].sched = mstate] /\ UNCHANGED queue
    <3>1. mstate \in States BY DEF IInv, TypeOK
    <3>2. [hand[t] EXCEPT !.sched = mstate] \in Task BY <2>1, <3>1, ScheduledType
    <3>3. hand'[t] = [hand[t] EXCEPT !.sched = mstate] BY <2>4 DEF IInv, TypeOK
    <3>4. hand'[t].id = hand[t].id /\ hand'[t] # None
      BY <2>1, <3>2, <3>3, NoneIsNoTask DEF Task
    <3>5. \A u \in Threads \ {t} : hand'[u] = hand[u] BY <2>4 DEF IInv, TypeOK
    <3>6. Held' = Held /\ \A u \in Held : hand'[u].id = hand[u].id
      BY <2>1, <3>4, <3>5 DEF Held
    <3>7. HeldIds' = HeldIds /\ (OneEach' <=> OneEach) BY <3>6 DEF HeldIds, OneEach
    <3> QED BY <2>2, <2>4, <3>7 DEF PlacesInv
  <2>5. CASE UNCHANGED <<hand, queue>> BY <1>1, <2>2, <2>5
  <2> QED BY <1>7, <2>3, <2>4, <2>5 DEF Push
<1>8. ASSUME NEW t \in Threads, PushTimed(t) PROVE PlacesInv'
  BY <1>8, EnqueueTimed
<1>9. ASSUME NEW t \in Threads, Poll(t) PROVE PlacesInv'
  <2>1. hand[t] = None BY <1>9 DEF Poll, HandsInv, Dispatching
  <2> QED BY <1>1, <1>9, <2>1, Popped DEF Poll
<1>10. CASE PopWait
  <2>1. hand[Worker] = None /\ Worker \in Threads
    BY <1>10, Constants DEF PopWait, HandsInv, Dispatching
  <2> QED BY <1>1, <1>10, <2>1, Popped DEF PopWait
<1>11. CASE Loop BY <1>1, <1>11 DEF Loop
<1>12. ASSUME NEW t \in Threads, CheckState(t) PROVE PlacesInv'
  <2>1. hand[t] # None BY <1>12 DEF CheckState, IInv, ShapeInv, Dispatching
  <2> QED BY <1>1, <1>12, <2>1, Settle DEF CheckState
<1>13. ASSUME NEW t \in Threads, Finish(t) PROVE PlacesInv'
  <2>1. hand[t] # None BY <1>13 DEF Finish, IInv, ShapeInv, Dispatching
  <2> QED BY <1>13, <2>1, Settle DEF Finish
<1>14. ASSUME NEW t \in Threads, Reenter(t) PROVE PlacesInv'
  <2>1. tracker = t BY <1>14 DEF Reenter, IInv, DispatcherInv
  <2> QED BY <1>14, <2>1, NewInQueue DEF Reenter, Kinds
<1>15. ASSUME NEW t \in Threads, NEW s \in States, ChangeState(t, s) PROVE PlacesInv'
  BY <1>1, <1>15 DEF ChangeState
<1>16. ASSUME NEW c \in Clients, ClearQueue(c) PROVE PlacesInv'
  BY <1>16, Cleared
<1>17. CASE Elapse \/ UNCHANGED vars BY <1>1, <1>17 DEF Elapse, vars
<1> QED
  BY <1>2, <1>3, <1>4, <1>5, <1>6, <1>7, <1>8, <1>9, <1>10, <1>11, <1>12, <1>13, <1>14,
     <1>15, <1>16, <1>17 DEF Next, Call, Continue, Act

-----------------------------------------------------------------------------
(* Counting.                                                               *)

LEMMA CountSeq ==
  ASSUME NEW s \in Seq(Task), Distinct(s)
  PROVE  IsFiniteSet(Ids(s)) /\ Cardinality(Ids(s)) = Len(s)
<1> DEFINE f == [i \in 1 .. Len(s) |-> s[i].id]
<1>1. Len(s) \in Nat /\ DOMAIN s = 1 .. Len(s) OBVIOUS
<1>2. f \in Bijection(1 .. Len(s), Ids(s))
  BY <1>1 DEF Bijection, Injection, Surjection, IsInjective, Ids, Distinct
<1>3. ExistsBijection(1 .. Len(s), Ids(s)) BY <1>2 DEF ExistsBijection
<1> QED BY <1>1, <1>3, FS_CountingElements, FS_NatBijection

LEMMA CountHeld ==
  ASSUME OneEach, IsFiniteSet(HeldIds)
  PROVE  Cardinality(Held) = Cardinality(HeldIds)
<1> DEFINE f == [t \in Held |-> hand[t].id]
<1>1. f \in Injection(Held, HeldIds) BY DEF Injection, IsInjective, HeldIds, OneEach
<1>2. f \in Surjection(Held, HeldIds) BY DEF Surjection, HeldIds
<1> QED BY <1>1, <1>2, FS_Injection

LEMMA CountSpread ==
  ASSUME NEW n \in Nat, NEW H, NEW Q, NEW T, NEW S, Spread(H, Q, T, S, n)
  PROVE  /\ IsFiniteSet(H)
         /\ Cardinality(H) + Cardinality(Q) + Cardinality(T) + Cardinality(S) = n
<1>1. IsFiniteSet(1 .. n) /\ Cardinality(1 .. n) = n BY FS_Interval
<1>2. IsFiniteSet(H) /\ IsFiniteSet(Q) /\ IsFiniteSet(T) /\ IsFiniteSet(S)
  BY <1>1, FS_Subset DEF Spread
<1>3. ASSUME NEW A, NEW B, IsFiniteSet(A), IsFiniteSet(B), A \cap B = {}
      PROVE  /\ IsFiniteSet(A \cup B)
             /\ Cardinality(A \cup B) = Cardinality(A) + Cardinality(B)
  <2>1. Cardinality(A \cup B) = Cardinality(A) + Cardinality(B) - Cardinality(A \cap B)
    BY <1>3, FS_Union
  <2>2. Cardinality(A \cap B) = 0 BY <1>3, FS_EmptySet
  <2>3. Cardinality(A) \in Nat /\ Cardinality(B) \in Nat BY <1>3, FS_CardinalityType
  <2> QED BY <1>3, <2>1, <2>2, <2>3, FS_Union
<1>4. IsFiniteSet(H \cup Q) /\ Cardinality(H \cup Q) = Cardinality(H) + Cardinality(Q)
  BY <1>2, <1>3 DEF Spread
<1>5. (H \cup Q) \cap T = {} /\ (H \cup Q \cup T) \cap S = {} BY DEF Spread
<1>6. /\ IsFiniteSet(H \cup Q \cup T)
      /\ Cardinality(H \cup Q \cup T) = Cardinality(H \cup Q) + Cardinality(T)
  BY <1>2, <1>3, <1>4, <1>5
<1>7. Cardinality(H \cup Q \cup T \cup S) = Cardinality(H \cup Q \cup T) + Cardinality(S)
  BY <1>2, <1>3, <1>5, <1>6
<1>8. H \cup Q \cup T \cup S = 1 .. n BY DEF Spread
<1> QED BY <1>1, <1>2, <1>4, <1>6, <1>7, <1>8

LEMMA PlacesCount ==
  ASSUME TypeOK, PlacesInv
  PROVE  EachEventOnce
<1>1. accepted \in Nat BY DEF TypeOK
<1>2. /\ IsFiniteSet(HeldIds)
      /\ Cardinality(HeldIds) + Cardinality(Ids(queue)) + Cardinality(Ids(timed))
           + Cardinality(settled) = accepted
  BY <1>1, CountSpread DEF PlacesInv
<1>3. Cardinality(Ids(queue)) = Len(queue) /\ Cardinality(Ids(timed)) = Len(timed)
  BY CountSeq DEF PlacesInv, TypeOK
<1>4. Cardinality(Held) = Cardinality(HeldIds) BY <1>2, CountHeld DEF PlacesInv
<1>5. HeldIds \cup Ids(queue) \cup Ids(timed) \cup settled = 1 .. accepted
  BY DEF PlacesInv, Spread
<1> QED BY <1>2, <1>3, <1>4, <1>5 DEF EachEventOnce, Held, HeldIds

LEMMA InitPlaces == Init => HandsInv /\ PlacesInv
<1> SUFFICES ASSUME Init PROVE HandsInv /\ PlacesInv OBVIOUS
<1>1. Held = {} /\ HeldIds = {} BY DEF Init, Held, HeldIds
<1>2. Ids(queue) = {} /\ Ids(timed) = {} BY IdsEmpty DEF Init
<1>3. Distinct(queue) /\ Distinct(timed) BY DEF Init, Distinct
<1>4. Spread(HeldIds, Ids(queue), Ids(timed), settled, accepted)
  BY <1>1, <1>2 DEF Init, Spread
<1> QED BY <1>1, <1>3, <1>4 DEF Init, HandsInv, PlacesInv, OneEach

\* Every event accepted is in exactly one place, queued, in the hands of one
\* thread, or settled, whatever threads drain, clear, start and stop; under
\* the condition of OneDispatcherCorrect, that actions run by step() and
\* tick() do not call send().
THEOREM EachEventOnceCorrect == ~StepsSend => (Spec => []EachEventOnce)
<1> SUFFICES ASSUME ~StepsSend PROVE Spec => []EachEventOnce OBVIOUS
<1> DEFINE Inv == HandsInv /\ PlacesInv
<1>1. Init => Inv BY InitPlaces
<1>2. IInv /\ Inv /\ [Next]_vars => Inv' BY StepHands, StepPlaces
<1>3. IInv /\ Inv => EachEventOnce BY PlacesCount DEF IInv
<1> QED BY <1>1, <1>2, <1>3, IInvCorrect, PTL DEF Spec
=============================================================================
