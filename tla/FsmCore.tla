------------------------------ MODULE FsmCore ------------------------------
(***************************************************************************)
(* fsm (runtime/fsm.hpp with detail/transition_executor.hpp,               *)
(* deferred_manager.hpp, history_manager.hpp, invariant_manager.hpp and    *)
(* deterministic_timer.hpp): the synchronous hierarchical machine that     *)
(* every other runtime class wraps, executing a table of rows.             *)
(*                                                                         *)
(* A call from the application is a run of steps: one for the call, one    *)
(* for each timer that fires and one for each deferred event recalled.     *)
(* What user code (guards, actions, entry, exit and do-activities) does    *)
(* with the registers is reduced to one register, flag, that guards may    *)
(* read and every piece of user code may write.                            *)
(***************************************************************************)
EXTENDS Integers, SequencesExt

CONSTANTS
  States,            \* all states, composite ones included
  Within,            \* for each state, itself and the states that contain it
  InitialState,      \* the leaf the machine starts in
  NoState,           \* an empty history entry
  Events,            \* event types of the application
  TimedEvents,       \* the event types after_ms<N> and every_ms<N>
  Delay, Periodic,   \* their N, and those that are every_ms<N>
  Anonymous,         \* anonymous_event, what step() dispatches
  Rows,              \* the table: <<[src, evt, dst, internal, flag, hist], ...>>
  Defers,            \* for each state, its deferred_events
  DeferredCapacity,  \* capacity of the deferred queue
  MaxStay,           \* max_stay_duration_ms of the states that declare one
  Deltas,            \* bound: the values tick() is called with
  MaxResidence       \* bound: no tick() goes beyond this residence time

\* The states that contain s properly, innermost first, are a chain.
Above(s) == Within[s] \ {s}

Assumptions ==
  /\ IsFiniteSet(States) /\ Within \in [States -> SUBSET States]
  /\ \A s \in States : s \in Within[s]
  /\ \A s \in States : \A p \in Above(s) : Within[p] \subseteq Above(s)
  /\ \A s \in States : \A p, q \in Within[s] : p \in Within[q] \/ q \in Within[p]
  /\ \A s \in States : \A p \in Above(s) : \E c \in Within[s] : Above(c) = Within[p]
  /\ InitialState \in States /\ NoState \notin States
  /\ Delay \in [TimedEvents -> Nat] /\ Periodic \subseteq TimedEvents
  /\ Events \cap TimedEvents = {} /\ Anonymous \notin Events \cup TimedEvents
  /\ Len(Rows) \in Nat /\ DOMAIN Rows = 1 .. Len(Rows)
  /\ \A i \in DOMAIN Rows :
       /\ Rows[i].src \in States /\ Rows[i].dst \in States
       /\ Rows[i].internal \in BOOLEAN /\ Rows[i].flag \in BOOLEAN
  /\ Defers \in [States -> SUBSET (Events \cup TimedEvents)]
  /\ DeferredCapacity \in Nat /\ MaxResidence \in Nat
  /\ DOMAIN MaxStay \subseteq States /\ \A s \in DOMAIN MaxStay : MaxStay[s] \in Nat
  /\ Deltas \subseteq Nat

ASSUME FsmCoreAssumption == Assumptions

VARIABLES
  state,              \* current_state_
  flag,               \* registers_
  history,            \* history_mgr_: for each state, the recorded substate
  deferred,           \* deferred_mgr_: the queued events
  timers,             \* timer_mgr_: for each timed row, its timer
  residence,          \* invariant_mgr_: residence_time_ms_
  violated,           \*   and whether last_violation_ holds one
  phase, stepping,    \* where the call is; whether tick() was called by step(dt)
  replaying,          \* is_replaying_deferred_
  pending, rearmed,   \* tick(): expired timers left, generation_ changed
  active,             \* history: on_enter minus on_exit calls of each state
  lastLeaf            \* history: for each state, the leaf last left with it

place    == <<state, history, timers, residence, violated, active, lastLeaf>>
callVars == <<phase, stepping, pending>>
vars == <<place, flag, deferred, callVars, replaying, rearmed>>

-----------------------------------------------------------------------------
(* The table.                                                              *)

TimedRows == {i \in DOMAIN Rows : Rows[i].evt \in TimedEvents}
OneShot   == {i \in TimedRows : Rows[i].evt \notin Periodic}

\* The state directly inside p on the way down to s, as reflection.hpp
\* passes it to record_history.
ChildOf(p, s) == CHOOSE c \in Within[s] : Above(c) = Within[p]

\* history_is<p, sub>: walk down from p along the recorded substates.
Recorded(p) ==
  LET down[s \in States \cup {NoState}] ==
        IF s = NoState THEN {} ELSE {history[s]} \cup down[history[s]]
  IN  down[p] \ {NoState}

\* The rows try_index considers for event e, and those whose guard holds:
\* an ordinary guard may read the register, a history row asks history_is.
Matching(e) == {i \in DOMAIN Rows : Rows[i].evt = e /\ Rows[i].src \in Within[state]}

Runnable(e, f) ==
  {i \in Matching(e) :
     /\ Rows[i].flag => f
     /\ Rows[i].hist = << >> \/ Rows[i].hist[2] \in Recorded(Rows[i].hist[1])}

\* is_deferred_event_v: the state or one that contains it declares e.
IsDeferred(e) == \E p \in Within[state] : e \in Defers[p]

-----------------------------------------------------------------------------
(* Executing a row.                                                        *)

\* Mutant: only the timers of the state itself are armed.
ArmedExact(s) == [i \in TimedRows |-> [active   |-> Rows[i].src = s,
                                       elapsed  |-> 0,
                                       interval |-> Delay[Rows[i].evt]]]

\* refresh_timers_for_current_state: timers are reset, then every timed row of
\* the state and of the states around it is started.
Armed(s) == [i \in TimedRows |-> [active   |-> Rows[i].src \in Within[s],
                                  elapsed  |-> 0,
                                  interval |-> Delay[Rows[i].evt]]]

\* Mutant: on_exit climbs to the root.
LeftAll(src, dst) == Within[src]

\* call_hierarchical_on_exit and call_hierarchical_on_enter: from the source
\* up to the first state that contains the target, and down again to it.
Left(src, dst)    == {src} \cup (Within[src] \ Within[dst])
Entered(src, dst) == {dst} \cup (Within[dst] \ Within[src])

\* Mutant: only the innermost composite state records its substate.
RecordInnermost(src) ==
  [p \in States |-> IF p \in Above(src) /\ ChildOf(p, src) = src THEN src ELSE history[p]]

\* record_ancestor_history: every composite state around the source records
\* its substate on the way to it, whether or not the transition leaves it.
RecordHistory(src) ==
  [p \in States |-> IF p \in Above(src) THEN ChildOf(p, src) ELSE history[p]]

\* Mutant: the last violation survives the transition.
ResetResidence == residence' = 0 /\ UNCHANGED violated

\* invariant_manager::reset
ResetInvariants == residence' = 0 /\ violated' = FALSE

External(src, dst) ==
  /\ history' = RecordHistory(src)
  /\ state' = dst
  /\ ResetInvariants
  /\ timers' = Armed(dst)
  /\ active' = [s \in States |->
                  active[s] - (IF s \in Left(src, dst) THEN 1 ELSE 0)
                            + (IF s \in Entered(src, dst) THEN 1 ELSE 0)]
  /\ lastLeaf' = [p \in States |-> IF p \in Above(src) \ Within[dst] THEN src ELSE lastLeaf[p]]
  /\ rearmed' = (phase = "tick")

\* execute_transition_from_ports: an internal row runs its action only.
Execute(i) ==
  /\ flag' \in BOOLEAN
  /\ IF Rows[i].internal THEN UNCHANGED <<place, rearmed>>
                         ELSE External(state, Rows[i].dst)

\* The first row in table order whose guard holds is taken.
Taken(e, f) == Min(Runnable(e, f))

-----------------------------------------------------------------------------
(* dispatch() and the recall of deferred events.                           *)

\* A transition was taken: process_deferred_queue, unless it is empty.
Success(e, f) ==
  /\ Runnable(e, f) # {}
  /\ Execute(Taken(e, f))
  /\ replaying' = (deferred # << >>)
  /\ UNCHANGED deferred

\* guard_rejected: such an event is not deferred.
Rejected(e, f) ==
  /\ Runnable(e, f) = {} /\ Matching(e) # {}
  /\ flag' = f
  /\ UNCHANGED <<place, deferred, replaying, rearmed>>

\* Mutant: the deferred queue has no capacity.
DeferUnbounded(e, f) ==
  /\ Matching(e) = {} /\ IsDeferred(e)
  /\ deferred' = Append(deferred, e)
  /\ flag' = f
  /\ UNCHANGED <<place, replaying, rearmed>>

\* The state defers the event; a full queue drops it (push_back's result is
\* ignored), and dispatch() reports it deferred all the same.
Defer(e, f) ==
  /\ Matching(e) = {} /\ IsDeferred(e)
  /\ deferred' = IF Len(deferred) < DeferredCapacity THEN Append(deferred, e) ELSE deferred
  /\ flag' = f
  /\ UNCHANGED <<place, replaying, rearmed>>

Unhandled(e, f) ==
  /\ Matching(e) = {} /\ ~IsDeferred(e)
  /\ flag' = f
  /\ UNCHANGED <<place, deferred, replaying, rearmed>>

Deliver(e, f) == Success(e, f) \/ Rejected(e, f) \/ Defer(e, f) \/ Unhandled(e, f)

\* The positions of the deferred events that dispatch_direct would execute.
Recallable == {k \in DOMAIN deferred : Runnable(deferred[k], flag) # {}}

\* Mutant: the event that was executed stays in the queue.
ReplayWithoutErase ==
  /\ replaying
  /\ \/ /\ Recallable # {}
        /\ Execute(Taken(deferred[Min(Recallable)], flag))
        /\ UNCHANGED <<deferred, replaying>>
     \/ /\ Recallable = {}
        /\ replaying' = FALSE
        /\ UNCHANGED <<place, flag, deferred, rearmed>>
  /\ UNCHANGED callVars

\* One round of process_deferred_queue: the oldest deferred event that some
\* row executes is erased and the scan restarts; the others stay.
Replay ==
  /\ replaying
  /\ \/ /\ Recallable # {}
        /\ LET k == Min(Recallable) IN
             /\ Execute(Taken(deferred[k], flag))
             /\ deferred' = RemoveAt(deferred, k)
        /\ UNCHANGED replaying
     \/ /\ Recallable = {}
        /\ replaying' = FALSE
        /\ UNCHANGED <<place, flag, deferred, rearmed>>
  /\ UNCHANGED callVars

-----------------------------------------------------------------------------
(* The calls of the application.                                           *)

Idle == phase = "idle" /\ ~replaying

Dispatch(e) == Idle /\ Deliver(e, flag) /\ UNCHANGED callVars

\* step(): do_activity, which may write the register, then the anonymous
\* event by dispatch_direct_ports, which never defers.
StepBody ==
  \E f \in BOOLEAN : Success(Anonymous, f) \/ Rejected(Anonymous, f) \/ Unhandled(Anonymous, f)

Step == Idle /\ StepBody /\ UNCHANGED callVars

\* tick(d), alone or as the first half of step(d): time passes for the
\* residence and the timers, do_activity runs, and the expired timers are
\* collected in table order before any of them is dispatched.
Tick(d, forStep) ==
  /\ Idle /\ residence + d <= MaxResidence
  /\ residence' = residence + d
  /\ flag' \in BOOLEAN
  /\ LET due(i) == timers[i].active /\ timers[i].elapsed + d >= timers[i].interval
         wrap(i) == IF timers[i].interval = 0 THEN 0
                    ELSE (timers[i].elapsed + d) % timers[i].interval
     IN  /\ pending' = {i \in TimedRows : due(i)}
         /\ timers' = [i \in TimedRows |->
              CASE ~timers[i].active           -> timers[i]
                [] due(i) /\ i \in OneShot     -> [timers[i] EXCEPT !.active = FALSE,
                                                                    !.elapsed = @ + d]
                [] due(i) /\ i \notin OneShot  -> [timers[i] EXCEPT !.elapsed = wrap(i)]
                [] OTHER                       -> [timers[i] EXCEPT !.elapsed = @ + d]]
  /\ phase' = "tick" /\ stepping' = forStep /\ rearmed' = FALSE
  /\ UNCHANGED <<state, history, violated, active, lastLeaf, deferred, replaying>>

Ticking == phase = "tick" /\ ~replaying

\* Mutant: the remaining timers of the tick fire although the machine has
\* re-armed its timers meanwhile.
FireAnyway ==
  /\ Ticking /\ pending # {}
  /\ pending' = pending \ {Min(pending)}
  /\ Deliver(Rows[Min(pending)].evt, flag)
  /\ UNCHANGED <<phase, stepping>>

\* dispatch_timed_timer: the row's event type is dispatched like any other.
Fire ==
  /\ Ticking /\ pending # {} /\ ~rearmed
  /\ pending' = pending \ {Min(pending)}
  /\ Deliver(Rows[Min(pending)].evt, flag)
  /\ UNCHANGED <<phase, stepping>>

Overstays == state \in DOMAIN MaxStay /\ residence > MaxStay[state]

\* No timer is left, or a transition has made the remaining ones obsolete:
\* tick() checks the time invariant and returns.
TickReturn ==
  /\ Ticking /\ (pending = {} \/ rearmed)
  /\ pending' = {} /\ rearmed' = FALSE
  /\ violated' = Overstays
  /\ phase' = IF stepping THEN "step" ELSE "idle"
  /\ stepping' = FALSE
  /\ UNCHANGED <<state, history, timers, residence, active, lastLeaf, flag, deferred, replaying>>

\* The second half of step(d).
StepAfterTick ==
  /\ phase = "step" /\ ~replaying
  /\ StepBody
  /\ phase' = "idle"
  /\ UNCHANGED <<stepping, pending>>

\* set_timer_duration: the timer keeps the time it has run for.
SetTimerDuration(i, d) ==
  /\ Idle /\ timers[i].active
  /\ timers' = [timers EXCEPT ![i].interval = d]
  /\ UNCHANGED <<state, history, residence, violated, active, lastLeaf, flag, deferred,
                 callVars, replaying, rearmed>>

\* The state reset() and the constructor leave.
Fresh ==
  [state |-> InitialState, timers |-> Armed(InitialState),
   history |-> [s \in States |-> NoState],
   active |-> [s \in States |-> IF s \in Within[InitialState] THEN 1 ELSE 0]]

\* reset(): no on_exit is called, the initial entry actions run again.
Reset ==
  /\ Idle
  /\ state' = Fresh.state /\ timers' = Fresh.timers /\ history' = Fresh.history
  /\ residence' = 0 /\ violated' = FALSE
  /\ flag' \in BOOLEAN
  /\ deferred' = << >>
  /\ active' = Fresh.active /\ lastLeaf' = Fresh.history
  /\ UNCHANGED <<callVars, replaying, rearmed>>

\* The smaller entry points: defer_event(), process_deferred_queue(),
\* clear_deferred(), clear_history() and check_invariants().
DeferEvent(e) ==
  /\ Idle
  /\ deferred' = IF Len(deferred) < DeferredCapacity THEN Append(deferred, e) ELSE deferred
  /\ UNCHANGED <<place, flag, callVars, replaying, rearmed>>

ProcessDeferred ==
  /\ Idle /\ deferred # << >>
  /\ replaying' = TRUE
  /\ UNCHANGED <<place, flag, deferred, callVars, rearmed>>

ClearDeferred ==
  /\ Idle
  /\ deferred' = << >>
  /\ UNCHANGED <<place, flag, callVars, replaying, rearmed>>

ClearHistory ==
  /\ Idle
  /\ history' = Fresh.history /\ lastLeaf' = Fresh.history
  /\ UNCHANGED <<state, timers, residence, violated, active, flag, deferred, callVars,
                 replaying, rearmed>>

CheckInvariants ==
  /\ Idle
  /\ violated' = Overstays
  /\ UNCHANGED <<state, history, timers, residence, active, lastLeaf, flag, deferred,
                 callVars, replaying, rearmed>>

-----------------------------------------------------------------------------
Init ==
  /\ state = Fresh.state /\ timers = Fresh.timers /\ history = Fresh.history
  /\ residence = 0 /\ violated = FALSE
  /\ flag \in BOOLEAN
  /\ deferred = << >>
  /\ phase = "idle" /\ stepping = FALSE /\ replaying = FALSE
  /\ pending = {} /\ rearmed = FALSE
  /\ active = Fresh.active /\ lastLeaf = Fresh.history

\* What a call that has begun goes on to do by itself.
Continue == Replay \/ Fire \/ TickReturn \/ StepAfterTick

Call == \/ \E e \in Events : Dispatch(e) \/ DeferEvent(e)
        \/ Step
        \/ \E d \in Deltas, forStep \in BOOLEAN : Tick(d, forStep)
        \/ \E i \in TimedRows, d \in Deltas : SetTimerDuration(i, d)
        \/ Reset \/ ProcessDeferred \/ ClearDeferred \/ ClearHistory \/ CheckInvariants

Next == Call \/ Continue

Spec == Init /\ [][Next]_vars

-----------------------------------------------------------------------------
\* The machine's members hold what their types allow, the deferred queue no
\* more than its capacity.
TypeOK ==
  /\ state \in States /\ flag \in BOOLEAN
  /\ history \in [States -> States \cup {NoState}]
  /\ deferred \in Seq(Events \cup TimedEvents) /\ Len(deferred) <= DeferredCapacity
  /\ timers \in [TimedRows -> [active : BOOLEAN, elapsed : Nat, interval : Nat]]
  /\ residence \in Nat /\ violated \in BOOLEAN
  /\ phase \in {"idle", "tick", "step"} /\ stepping \in BOOLEAN
  /\ replaying \in BOOLEAN /\ rearmed \in BOOLEAN
  /\ pending \subseteq TimedRows
  /\ active \in [States -> Int]
  /\ lastLeaf \in [States -> States \cup {NoState}]

\* Entry and exit actions balance: at every moment exactly the current state
\* and the states that contain it have been entered once more than they
\* were left, whichever sequence of direct, inherited, self and history
\* transitions led there.
ActiveConfiguration ==
  active = [s \in States |-> IF s \in Within[state] THEN 1 ELSE 0]

\* The timers are those of the current state: what runs belongs to it or to
\* a state around it, a one-shot timer has run for exactly the residence
\* time, and one that is off has expired in this stay.
TimersMatchState ==
  \A i \in TimedRows :
    /\ timers[i].active => Rows[i].src \in Within[state]
    /\ i \in OneShot /\ Rows[i].src \in Within[state] =>
         IF timers[i].active THEN timers[i].elapsed = residence
                             ELSE residence >= timers[i].interval

\* A timeout is dispatched only during the stay it was armed for: a timer
\* that expired in a tick() before another timer (or a deferred event it
\* released) moved the machine is dropped, never fired into the new state.
NoStaleTimeout ==
  [][phase = "tick" /\ phase' = "tick" /\ pending' # pending =>
       \A i \in pending \ pending' :
         /\ Rows[i].src \in Within[state]
         /\ i \in OneShot => residence >= timers[i].interval]_vars

\* The recorded history leads back to the leaf that was active when a
\* composite state was last left, through every level in between.
HistoryLeadsBack ==
  \A p \in States \ Within[state] :
    LET leaves == {l \in Recorded(p) : history[l] = NoState}
    IN  IF lastLeaf[p] = NoState THEN Recorded(p) = {} ELSE leaves = {lastLeaf[p]}

\* An invariant violation is reported only of a stay that is too long.
ViolationIsOverstay == violated => Overstays

\* Run to completion: every call returns.  Each step of a call leaves fewer
\* timers to fire, fewer deferred events to recall or a later phase, also
\* when a timer's event is itself deferred.
Remaining == Len(deferred) + (IF replaying THEN 1 ELSE 0) + 3 * Cardinality(pending)
               + (CASE phase = "idle" -> 0 [] phase = "step" -> 2 [] phase = "tick" -> 3)

RunToCompletion == [][~Idle => Remaining' < Remaining]_vars
=============================================================================
