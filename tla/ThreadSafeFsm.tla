--------------------------- MODULE ThreadSafeFsm ---------------------------
(***************************************************************************)
(* thread_safe_fsm (runtime/thread_safe_fsm.hpp with                       *)
(* detail/worker_thread_controller.hpp, async_event_queue.hpp and          *)
(* detail/reentrancy_tracker.hpp): the active object.  Any thread may      *)
(* send(), post() or drain the queue by hand; an optional worker thread    *)
(* drains it in the background.  One non-recursive mutex guards the        *)
(* machine, another one the queue; the worker is started and stopped by    *)
(* compare-and-swap on worker_running_.                                    *)
(*                                                                         *)
(* A step of the model is what a thread does between two points where      *)
(* another thread can come in: an atomic access, or a critical section of  *)
(* the queue's mutex.  The dispatch mutex is held over several steps.      *)
(* Of the machine only the current state is kept: what a dispatch does is  *)
(* a choice of FsmCore's.                                                  *)
(***************************************************************************)
EXTENDS Integers, Sequences, FiniteSets

CONSTANTS
  Clients,               \* application threads
  Controllers,           \* those that stop the worker
  Worker,                \* the thread start_worker() creates
  None,                  \* no thread, no task, no state
  States, InitialState,  \* the alternatives of the state variant
  MaxTasks,              \* bound: events and steps of one behaviour
  CallKinds,             \* bound: the kinds that the clients' calls make
  StepsSend              \* actions run by step() or tick() may call send()

Threads == Clients \cup {Worker}
Kinds   == {"send", "step", "post", "future", "reentrant", "delayed", "timeout"}
Task    == [id : 1 .. MaxTasks, kind : Kinds, sched : States \cup {None}]

Assumptions ==
  /\ Controllers \subseteq Clients /\ Worker \notin Clients
  /\ None \notin Threads \cup States \cup Task
  /\ InitialState \in States
  /\ MaxTasks \in Nat /\ StepsSend \in BOOLEAN
  /\ CallKinds \subseteq Kinds

ASSUME ThreadSafeFsmAssumption == Assumptions

VARIABLES
  pc, back,           \* where each thread is; the call a dispatch returns to
  hand,               \* the task a thread has popped, or is about to push
  queue,              \* event_queue_
  timed, due,         \* timed_queue_ by deadline; how many deadlines passed
  qrunning, running,  \* async_event_queue's running_, and worker_running_
  thread,             \* worker_thread_: "none", "joinable", "ended" (joinable
                      \* with its function returned), or the program "aborted"
  owner,              \* who holds dispatch_mutex_
  tracker, depth,     \* dispatching_thread_ and dispatch_depth_
  mstate,             \* the state of fsm_
  accepted, settled,  \* history: tasks made so far, and those dispatched,
                      \* discarded as stale or cleared
  owed                \* history: what stop_worker() found unfinished

controlVars == <<pc, back>>
queueVars   == <<queue, timed, due>>
workerVars  == <<qrunning, running, thread>>
lockVars    == <<owner, tracker, depth>>
historyVars == <<accepted, settled, owed>>
vars == <<controlVars, hand, queueVars, workerVars, lockVars, mstate, historyVars>>

-----------------------------------------------------------------------------
Ids(s) == {s[i].id : i \in DOMAIN s}

Goto(t, p) == pc' = [pc EXCEPT ![t] = p]

\* A client's call is over.
Return(c) == Goto(c, "idle") /\ back' = [back EXCEPT ![c] = "none"]

\* The number of the next task; the bound on tasks is here.
NewTask(kind) == [id |-> accepted + 1, kind |-> kind, sched |-> None]
Accept == accepted < MaxTasks /\ accepted' = accepted + 1

Init ==
  /\ pc = [t \in Threads |-> IF t = Worker THEN "off" ELSE "idle"]
  /\ back = [t \in Threads |-> IF t = Worker THEN "work" ELSE "none"]
  /\ hand = [t \in Threads |-> None]
  /\ queue = << >> /\ timed = << >> /\ due = 0
  /\ qrunning = TRUE /\ running = FALSE /\ thread = "none"
  /\ owner = None /\ tracker = None /\ depth = 0
  /\ mstate = InitialState
  /\ accepted = 0 /\ settled = {} /\ owed = [c \in Clients |-> {}]

-----------------------------------------------------------------------------
(* Calls.                                                                  *)

\* send() and dispatch(); step() and tick(): on their way to the mutex.
Send(c, kind) ==
  /\ pc[c] = "idle" /\ Accept
  /\ hand' = [hand EXCEPT ![c] = NewTask(kind)]
  /\ back' = [back EXCEPT ![c] = kind]
  /\ Goto(c, "lock")
  /\ UNCHANGED <<queueVars, workerVars, lockVars, mstate, settled, owed>>

\* post(): it never starts the worker.
Post(c) ==
  /\ pc[c] = "idle" /\ Accept
  /\ queue' = Append(queue, NewTask("post"))
  /\ UNCHANGED <<controlVars, hand, timed, due, workerVars, lockVars, mstate, settled, owed>>

\* post_async() and post() with a callback ("future"), post_delayed() and
\* post_state_timeout(): the worker is started unless it is running.
PostAsync(c, kind) ==
  /\ pc[c] = "idle" /\ Accept
  /\ hand' = [hand EXCEPT ![c] = NewTask(kind)]
  /\ Goto(c, IF running THEN "push" ELSE "start")
  /\ UNCHANGED <<back, queueVars, workerVars, lockVars, mstate, settled, owed>>

\* start_worker(), stop_worker() with what it owes, process_all().
StartWorker(c) ==
  /\ pc[c] = "idle"
  /\ Goto(c, "start")
  /\ UNCHANGED <<back, hand, queueVars, workerVars, lockVars, mstate, historyVars>>

StopWorker(c) ==
  /\ pc[c] = "idle"
  /\ Goto(c, "stop") /\ back' = [back EXCEPT ![c] = "stop"]
  /\ owed' = [owed EXCEPT ![c] =
                Ids(queue) \cup (IF hand[Worker] = None THEN {} ELSE {hand[Worker].id})]
  /\ UNCHANGED <<hand, queueVars, workerVars, lockVars, mstate, accepted, settled>>

ProcessAll(c) ==
  /\ pc[c] = "idle"
  /\ Goto(c, "poll") /\ back' = [back EXCEPT ![c] = "drain"]
  /\ UNCHANGED <<hand, queueVars, workerVars, lockVars, mstate, historyVars>>

\* clear_queue(): the futures of what it drops are broken, not forgotten.
ClearQueue(c) ==
  /\ pc[c] = "idle" /\ queue \o timed # << >>
  /\ queue' = << >> /\ timed' = << >> /\ due' = 0
  /\ settled' = settled \cup Ids(queue \o timed)
  /\ UNCHANGED <<controlVars, hand, workerVars, lockVars, mstate, accepted, owed>>

\* reset(): only the machine; queued events stay.
Reset(c) ==
  /\ pc[c] = "idle" /\ owner = None
  /\ mstate' = InitialState
  /\ UNCHANGED <<controlVars, hand, queueVars, workerVars, lockVars, historyVars>>

-----------------------------------------------------------------------------
(* worker_thread_controller.                                               *)

Started(c) == Goto(c, IF hand[c] = None THEN "idle" ELSE "push")

Start(c) ==
  /\ pc[c] = "start"
  /\ IF running THEN Started(c) /\ UNCHANGED running
                ELSE Goto(c, "startqueue") /\ running' = TRUE
  /\ UNCHANGED <<back, hand, queueVars, qrunning, thread, lockVars, mstate, historyVars>>

StartQueue(c) ==
  /\ pc[c] = "startqueue"
  /\ qrunning' = TRUE
  /\ Goto(c, "startthread")
  /\ UNCHANGED <<back, hand, queueVars, running, thread, lockVars, mstate, historyVars>>

\* worker_thread_ = std::thread(...): assigning to a thread that has not been
\* joined ends the program.
StartThread(c) ==
  /\ pc[c] = "startthread"
  /\ \/ /\ thread = "none" /\ thread' = "joinable"
        /\ pc' = [pc EXCEPT ![c] = IF hand[c] = None THEN "idle" ELSE "push", ![Worker] = "loop"]
     \/ thread # "none" /\ thread' = "aborted" /\ UNCHANGED pc
  /\ UNCHANGED <<back, hand, queueVars, qrunning, running, lockVars, mstate, historyVars>>

Stop(c) ==
  /\ pc[c] = "stop"
  /\ Goto(c, IF running THEN "stopqueue" ELSE "poll")
  /\ running' = FALSE
  /\ UNCHANGED <<back, hand, queueVars, qrunning, thread, lockVars, mstate, historyVars>>

\* Mutant: the queue is not told to stop.
StopQueueSilent(c) ==
  /\ pc[c] = "stopqueue"
  /\ Goto(c, "join")
  /\ UNCHANGED <<back, hand, queueVars, workerVars, lockVars, mstate, historyVars>>

StopQueue(c) ==
  /\ pc[c] = "stopqueue"
  /\ qrunning' = FALSE
  /\ Goto(c, "join")
  /\ UNCHANGED <<back, hand, queueVars, running, thread, lockVars, mstate, historyVars>>

\* Mutant: stop_worker() does not wait for the thread.
JoinAtOnce(c) ==
  /\ pc[c] = "join"
  /\ thread' = "none"
  /\ Goto(c, "poll")
  /\ UNCHANGED <<back, hand, queueVars, qrunning, running, lockVars, mstate, historyVars>>

\* A thread that a start_worker() is still to create is not waited for.
Join(c) ==
  /\ pc[c] = "join" /\ thread \in {"none", "ended"}
  /\ thread' = "none"
  /\ Goto(c, "poll")
  /\ UNCHANGED <<back, hand, queueVars, qrunning, running, lockVars, mstate, historyVars>>

-----------------------------------------------------------------------------
(* async_event_queue.                                                      *)

\* The second half of those calls: a timeout notes the current state, for
\* which it needs the mutex.
Push(c) ==
  /\ pc[c] = "push"
  /\ \/ /\ hand[c].kind = "future"
        /\ queue' = Append(queue, hand[c])
        /\ hand' = [hand EXCEPT ![c] = None]
        /\ Goto(c, "idle")
     \/ /\ hand[c].kind = "timeout" /\ owner = None
        /\ hand' = [hand EXCEPT ![c].sched = mstate]
        /\ Goto(c, "pushtimed")
        /\ UNCHANGED queue
     \/ /\ hand[c].kind = "delayed"
        /\ Goto(c, "pushtimed")
        /\ UNCHANGED <<hand, queue>>
  /\ UNCHANGED <<back, timed, due, workerVars, lockVars, mstate, historyVars>>

\* push_timed(): among the deadlines that have not passed, at any place.
PushTimed(c) ==
  /\ pc[c] = "pushtimed"
  /\ \E k \in due .. Len(timed) :
       timed' = SubSeq(timed, 1, k) \o <<hand[c]>> \o SubSeq(timed, k + 1, Len(timed))
  /\ hand' = [hand EXCEPT ![c] = None]
  /\ Goto(c, "idle")
  /\ UNCHANGED <<back, queue, due, workerVars, lockVars, mstate, historyVars>>

\* The next deadline passes.
Elapse ==
  /\ due < Len(timed)
  /\ due' = due + 1
  /\ UNCHANGED <<controlVars, hand, queue, timed, workerVars, lockVars, mstate, historyVars>>

\* Mutant: the front of the queue is copied, and removed in a section of
\* its own that may remove another one's.
PopFrontKept(t) ==
  /\ due = 0 /\ queue # << >>
  /\ hand' = [hand EXCEPT ![t] = Head(queue)]
  /\ \/ queue' = Tail(queue)
     \/ UNCHANGED queue
  /\ UNCHANGED <<timed, due>>

\* try_pop() and pop_wait(): an expired timed task goes first.
PopFront(t) ==
  /\ due = 0 /\ queue # << >>
  /\ hand' = [hand EXCEPT ![t] = Head(queue)]
  /\ queue' = Tail(queue)
  /\ UNCHANGED <<timed, due>>

Pop(t) ==
  \/ /\ due > 0
     /\ hand' = [hand EXCEPT ![t] = Head(timed)]
     /\ timed' = Tail(timed) /\ due' = due - 1
     /\ UNCHANGED queue
  \/ PopFront(t)

Ready == due > 0 \/ queue # << >>

\* A popped task: a timeout is checked first, the others are dispatched.
Begin(t) == Goto(t, IF hand'[t].kind = "timeout" THEN "check" ELSE "lock")

\* run_until_empty().
Poll(t) ==
  /\ pc[t] = "poll"
  /\ \/ /\ Pop(t) /\ Begin(t)
        /\ UNCHANGED <<back, owed>>
     \/ /\ ~Ready /\ Return(t)
        /\ owed' = [owed EXCEPT ![t] = {}]
        /\ UNCHANGED <<hand, queueVars>>
  /\ UNCHANGED <<workerVars, lockVars, mstate, accepted, settled>>

\* worker_loop(): worker_running_ is read before each pop_wait(), which
\* sleeps until there is a task or the queue is stopped.
Loop ==
  /\ pc[Worker] = "loop"
  /\ Goto(Worker, IF running THEN "wait" ELSE "off")
  /\ thread' = IF running THEN thread ELSE "ended"
  /\ UNCHANGED <<back, hand, queueVars, qrunning, running, lockVars, mstate, historyVars>>

PopWait ==
  /\ pc[Worker] = "wait"
  /\ \/ Pop(Worker) /\ Begin(Worker)
     \/ ~Ready /\ ~qrunning /\ Goto(Worker, "loop") /\ UNCHANGED <<hand, queueVars>>
  /\ UNCHANGED <<back, workerVars, lockVars, mstate, historyVars>>

-----------------------------------------------------------------------------
(* Dispatch.                                                               *)

\* Where a thread goes after it is done with a task.
Resume(t) == CASE back[t] = "send"              -> "drain"
               [] back[t] \in {"drain", "stop"} -> "poll"
               [] back[t] = "work"              -> "loop"

\* The task of post_state_timeout(): the state is compared under the mutex,
\* which is then released and taken again to dispatch.
CheckState(t) ==
  /\ pc[t] = "check" /\ owner = None
  /\ IF mstate = hand[t].sched
       THEN Goto(t, "lock") /\ UNCHANGED <<hand, settled>>
       ELSE /\ Goto(t, Resume(t))
            /\ hand' = [hand EXCEPT ![t] = None]
            /\ settled' = settled \cup {hand[t].id}
  /\ UNCHANGED <<back, queueVars, workerVars, lockVars, mstate, accepted, owed>>

\* Mutant: the tracker names the thread before it holds the mutex.
LockTrackerFirst(t) ==
  /\ pc[t] = "lock" /\ back[t] # "step" /\ tracker' = t
  /\ \/ owner = None /\ owner' = t /\ depth' = depth + 1 /\ Goto(t, "acting")
     \/ owner # None /\ UNCHANGED <<owner, depth, pc>>
  /\ UNCHANGED <<back, hand, queueVars, workerVars, mstate, historyVars>>

\* The mutex and, but for step() and tick(), the depth guard.
Lock(t) ==
  /\ pc[t] = "lock" /\ owner = None
  /\ owner' = t
  /\ IF back[t] = "step" THEN UNCHANGED <<tracker, depth>>
                         ELSE tracker' = t /\ depth' = depth + 1
  /\ Goto(t, "acting")
  /\ UNCHANGED <<back, hand, queueVars, workerVars, mstate, historyVars>>

\* A transition.
ChangeState(t, s) ==
  /\ pc[t] = "acting"
  /\ mstate' = s
  /\ UNCHANGED <<controlVars, hand, queueVars, workerVars, lockVars, historyVars>>

\* An action calls send(): is_reentrant_call() decides whether it is queued
\* or goes for the mutex.
Reenter(t) ==
  /\ pc[t] = "acting" /\ Accept
  /\ back[t] = "step" => StepsSend
  /\ IF tracker = t
       THEN queue' = Append(queue, NewTask("reentrant")) /\ UNCHANGED pc
       ELSE Goto(t, "lock") /\ UNCHANGED queue
  /\ UNCHANGED <<back, hand, timed, due, workerVars, lockVars, mstate, settled, owed>>

\* Mutant: step() releases a depth guard it has not taken.
FinishGuarded(t) ==
  /\ pc[t] = "acting"
  /\ owner' = None /\ tracker' = None /\ depth' = depth - 1
  /\ IF back[t] = "step" THEN Return(t) ELSE Goto(t, Resume(t)) /\ UNCHANGED back
  /\ hand' = [hand EXCEPT ![t] = None]
  /\ settled' = settled \cup {hand[t].id}
  /\ UNCHANGED <<queueVars, workerVars, mstate, accepted, owed>>

\* The action returns; the guard and the lock are released.
Finish(t) ==
  /\ pc[t] = "acting"
  /\ owner' = None
  /\ IF back[t] = "step" THEN UNCHANGED <<tracker, depth>>
                         ELSE tracker' = None /\ depth' = depth - 1
  /\ IF back[t] = "step" THEN Return(t) ELSE Goto(t, Resume(t)) /\ UNCHANGED back
  /\ hand' = [hand EXCEPT ![t] = None]
  /\ settled' = settled \cup {hand[t].id}
  /\ UNCHANGED <<queueVars, workerVars, mstate, accepted, owed>>

\* Mutant: send() leaves the queue to a worker that it does not look for.
DrainNever(t) ==
  /\ pc[t] = "drain"
  /\ Return(t)
  /\ UNCHANGED <<hand, queueVars, workerVars, lockVars, mstate, historyVars>>

\* drain_reentrant_queue_if_outermost().
Drain(t) ==
  /\ pc[t] = "drain"
  /\ IF depth = 0 /\ ~running
       THEN Goto(t, "poll") /\ back' = [back EXCEPT ![t] = "drain"]
       ELSE Return(t)
  /\ UNCHANGED <<hand, queueVars, workerVars, lockVars, mstate, historyVars>>

-----------------------------------------------------------------------------
Call(c) ==
  \/ \E kind \in {"send", "step"} \cap CallKinds : Send(c, kind)
  \/ \E kind \in {"future", "delayed", "timeout"} \cap CallKinds : PostAsync(c, kind)
  \/ "post" \in CallKinds /\ Post(c)
  \/ ProcessAll(c) \/ Reset(c) \/ StartWorker(c) \/ ClearQueue(c)
  \/ c \in Controllers /\ StopWorker(c)

\* What a thread goes on to do by itself once it is scheduled.
Continue(t) ==
  \/ Start(t) \/ StartQueue(t) \/ StartThread(t) \/ Stop(t) \/ StopQueue(t) \/ Join(t)
  \/ Push(t) \/ PushTimed(t) \/ Poll(t) \/ CheckState(t) \/ Lock(t) \/ Finish(t) \/ Drain(t)
  \/ t = Worker /\ (Loop \/ PopWait)

Act(t) == Reenter(t) \/ \E s \in States : ChangeState(t, s)

Alive == thread # "aborted"

Next == /\ Alive
        /\ \/ \E c \in Clients : Call(c)
           \/ \E t \in Threads : Continue(t) \/ Act(t)
           \/ Elapse

Spec == Init /\ [][Next]_vars

\* Every thread is scheduled, and actions return.  With finitely many tasks
\* the mutex is free from some point on, so that weak fairness is enough.
FairSpec == Spec /\ \A t \in Threads : WF_vars(Alive /\ Continue(t))

-----------------------------------------------------------------------------
\* Every thread is at a point of its call; the depth of dispatch is never
\* negative, and no more deadlines have passed than there are timed tasks.
TypeOK ==
  /\ pc \in [Threads -> {"idle", "off", "start", "startqueue", "startthread", "stop",
                         "stopqueue", "join", "push", "pushtimed", "poll", "loop", "wait",
                         "check", "lock", "acting", "drain"}]
  /\ back \in [Threads -> {"none", "send", "step", "drain", "stop", "work"}]
  /\ hand \in [Threads -> Task \cup {None}]
  /\ queue \in Seq(Task) /\ timed \in Seq(Task) /\ due \in 0 .. Len(timed)
  /\ qrunning \in BOOLEAN /\ running \in BOOLEAN
  /\ thread \in {"none", "joinable", "ended", "aborted"}
  /\ owner \in Threads \cup {None} /\ tracker \in Threads \cup {None} /\ depth \in Nat
  /\ mstate \in States
  /\ accepted \in 0 .. MaxTasks /\ settled \subseteq 1 .. MaxTasks
  /\ owed \in [Clients -> SUBSET (1 .. MaxTasks)]

\* Run to completion across threads: one thread at a time is inside the
\* machine, it holds the mutex, and the reentrancy tracker names that thread
\* and no other, so that a send() of another thread is never taken for a
\* reentrant one and a reentrant one never waits for its own mutex.
OneDispatcher ==
  /\ \A t \in Threads : pc[t] = "acting" <=> owner = t
  /\ \A t \in Threads : tracker = t <=> owner = t /\ back[t] # "step"
  /\ depth = IF tracker = None THEN 0 ELSE 1

\* Every event accepted is in exactly one place: a queue, the hands of one
\* thread, or settled; none is lost or dispatched twice, however many
\* threads drain the queue.
EachEventOnce ==
  LET held  == {t \in Threads : hand[t] # None}
      heldIds == {hand[t].id : t \in held}
  IN  /\ Cardinality(heldIds) + Len(queue) + Len(timed) + Cardinality(settled) = accepted
      /\ Cardinality(held) = Cardinality(heldIds)
      /\ heldIds \cup Ids(queue) \cup Ids(timed) \cup settled = 1 .. accepted

\* stop_worker() drains: when it returns, nothing that was queued, or in the
\* worker's hands, when it was called is left there; another thread that
\* drains the queue by hand, or a worker that a post has started anew, may
\* still be at work on its last event.
StopDrains ==
  [][\A c \in Clients :
       pc[c] = "poll" /\ back[c] = "stop" /\ pc'[c] = "idle" =>
         \A id \in owed[c] :
           \/ id \in settled
           \/ \E t \in Threads : hand[t] # None /\ hand[t].id = id /\ (t = Worker => running)]_vars

Queued(id, kind) == \E i \in DOMAIN queue : queue[i].id = id /\ queue[i].kind = kind

Answer(id) == id \in settled \/ ~Alive

\* Every post_async() future that is queued while the worker runs is made
\* ready, and every event that an action sent reentrantly is dispatched,
\* although no single thread is responsible for it: the sender drains, or
\* another sender, the worker, or stop_worker().
Answered ==
  \A id \in 1 .. MaxTasks :
    Queued(id, "reentrant") \/ (Queued(id, "future") /\ running) ~> Answer(id)

\* The documented claim: the future of every post_async() that any of the
\* producers makes is answered.
FuturesReady ==
  \A id \in 1 .. MaxTasks :
    (\E c \in Clients : hand[c] # None /\ hand[c].id = id /\ hand[c].kind = "future")
      ~> Answer(id)

\* No deadlock, no endless drain: every call returns, unless it ends the
\* program.
CallsReturn == \A c \in Clients : pc[c] # "idle" ~> (pc[c] = "idle" \/ ~Alive)

\* The documented claim: no data race between starting and stopping; the
\* worker is never started over one that has not been joined.
NoRestartRace == Alive

\* The documented claim: reset() clears the pending events.
ResetClears == [][\A c \in Clients : Reset(c) => queue' \o timed' = << >>]_vars

\* A state timeout is dispatched only in the state it was scheduled for.
TimeoutInItsState ==
  [][\A t \in Threads :
       pc[t] = "lock" /\ pc'[t] = "acting" /\ hand[t] # None /\ hand[t].kind = "timeout"
         => mstate = hand[t].sched]_vars
=============================================================================
