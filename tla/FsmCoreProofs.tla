--------------------------- MODULE FsmCoreProofs ---------------------------
(***************************************************************************)
(* For any chart, table of rows, timers and capacity of the deferred       *)
(* queue: entry and exit actions balance, timers belong to the current     *)
(* stay, a reported violation is one of this stay, the recorded history    *)
(* leads back, a recall is complete and every call returns.  For the table *)
(* that the emitter derives from a chart: events lead where it says.       *)
(***************************************************************************)
EXTENDS ChartMachine, SequenceTheorems, FiniteSetTheorems, WellFoundedInduction, TLAPS

AllEvents == Events \cup TimedEvents

LEMMA MinFacts ==
  ASSUME NEW S \in SUBSET Nat, S # {}
  PROVE  Min(S) \in S /\ \A x \in S : Min(S) <= x
<1>1. \E x \in S : \A y \in S : ~(<<y, x>> \in OpToRel(<, Nat))
  BY NatLessThanWellFounded, WFMin
<1>2. PICK x \in S : \A y \in S : ~(<<y, x>> \in OpToRel(<, Nat)) BY <1>1
<1>3. \A y \in S : x <= y
  <2> SUFFICES ASSUME NEW y \in S PROVE x <= y OBVIOUS
  <2>1. ~(y < x) BY <1>2 DEF OpToRel
  <2> QED BY <2>1
<1> QED BY <1>3 DEF Min

LEMMA RemoveAtFacts ==
  ASSUME NEW T, NEW q \in Seq(T), NEW k \in DOMAIN q
  PROVE  RemoveAt(q, k) \in Seq(T) /\ Len(RemoveAt(q, k)) = Len(q) - 1
<1>1. k \in 1 .. Len(q) /\ Len(q) \in Nat OBVIOUS
<1>2. SubSeq(q, 1, k - 1) \in Seq(T) /\ Len(SubSeq(q, 1, k - 1)) = k - 1
  BY <1>1, SubSeqProperties
<1>3. SubSeq(q, k + 1, Len(q)) \in Seq(T) /\ Len(SubSeq(q, k + 1, Len(q))) = Len(q) - k
  BY <1>1, SubSeqProperties
<1>4. /\ RemoveAt(q, k) \in Seq(T)
      /\ Len(RemoveAt(q, k)) = Len(SubSeq(q, 1, k - 1)) + Len(SubSeq(q, k + 1, Len(q)))
  <2> DEFINE left == SubSeq(q, 1, k - 1)
             right == SubSeq(q, k + 1, Len(q))
  <2>1. left \in Seq(T) /\ right \in Seq(T) BY <1>2, <1>3
  <2>2. RemoveAt(q, k) = left \o right BY DEF RemoveAt
  <2> HIDE DEF left, right
  <2>3. left \o right \in Seq(T) /\ Len(left \o right) = Len(left) + Len(right)
    BY <2>1, ConcatProperties
  <2> QED BY <2>2, <2>3 DEF left, right
<1>5. Len(RemoveAt(q, k)) = (k - 1) + (Len(q) - k) BY <1>2, <1>3, <1>4
<1>6. (k - 1) + (Len(q) - k) = Len(q) - 1 BY <1>1
<1> QED BY <1>4, <1>5, <1>6

-----------------------------------------------------------------------------
(* What the steps have in common.                                          *)

One(b) == IF b THEN 1 ELSE 0

\* A row that is taken, internal or external, or none.
Moves ==
  \/ UNCHANGED <<place, rearmed>>
  \/ \E i \in DOMAIN Rows : ~Rows[i].internal /\ External(state, Rows[i].dst)

\* A delivery: the event is deferred or, after it, the recall begins.
Delivers ==
  /\ Moves /\ flag' \in BOOLEAN /\ replaying' \in BOOLEAN
  /\ deferred' \in Seq(AllEvents) /\ Len(deferred') <= DeferredCapacity
  /\ Len(deferred') + One(replaying') <= Len(deferred) + One(replaying) + 1

LEMMA ExecuteFacts ==
  ASSUME Assumptions, NEW e, NEW f, Runnable(e, f) # {}, Execute(Taken(e, f))
  PROVE  Moves /\ flag' \in BOOLEAN
<1>1. Runnable(e, f) \subseteq DOMAIN Rows BY DEF Runnable, Matching
<1>2. DOMAIN Rows \subseteq Nat BY DEF Assumptions
<1>3. Taken(e, f) \in DOMAIN Rows BY <1>1, <1>2, MinFacts DEF Taken
<1> QED BY <1>3 DEF Execute, Moves

LEMMA SuccessFacts ==
  ASSUME Assumptions, TypeOK, NEW e, NEW f, Success(e, f)
  PROVE  Delivers
<1>1. Moves /\ flag' \in BOOLEAN BY ExecuteFacts DEF Success
<1> QED BY <1>1 DEF Success, Delivers, TypeOK, One, AllEvents

LEMMA DeliverFacts ==
  ASSUME Assumptions, TypeOK, NEW e \in AllEvents, Deliver(e, flag)
  PROVE  Delivers
<1>1. CASE Success(e, flag) BY <1>1, SuccessFacts
<1>2. CASE Rejected(e, flag) BY <1>2 DEF Rejected, Delivers, Moves, TypeOK, One, AllEvents
<1>3. CASE Defer(e, flag)
  <2>1. Moves /\ flag' \in BOOLEAN /\ replaying' = replaying /\ replaying \in BOOLEAN
    BY <1>3 DEF Defer, Moves, TypeOK
  <2>2. /\ deferred' \in Seq(AllEvents) /\ Len(deferred') <= DeferredCapacity
        /\ Len(deferred') <= Len(deferred) + 1
    BY <1>3 DEF Defer, TypeOK, AllEvents, Assumptions
  <2> QED BY <2>1, <2>2 DEF Delivers, One, TypeOK
<1>4. CASE Unhandled(e, flag) BY <1>4 DEF Unhandled, Delivers, Moves, TypeOK, One, AllEvents
<1> QED BY <1>1, <1>2, <1>3, <1>4 DEF Deliver

LEMMA StepBodyFacts ==
  ASSUME Assumptions, TypeOK, StepBody
  PROVE  Delivers
<1>1. PICK f \in BOOLEAN :
        Success(Anonymous, f) \/ Rejected(Anonymous, f) \/ Unhandled(Anonymous, f)
  BY DEF StepBody
<1>2. CASE Success(Anonymous, f) BY <1>2, SuccessFacts
<1>3. CASE Rejected(Anonymous, f) BY <1>3 DEF Rejected, Delivers, Moves, TypeOK, One, AllEvents
<1>4. CASE Unhandled(Anonymous, f)
  BY <1>4 DEF Unhandled, Delivers, Moves, TypeOK, One, AllEvents
<1> QED BY <1>1, <1>2, <1>3, <1>4

\* A round of the recall leaves fewer deferred events, or ends it.
LEMMA ReplayFacts ==
  ASSUME Assumptions, TypeOK, Replay
  PROVE  /\ Delivers /\ UNCHANGED callVars
         /\ Len(deferred') + One(replaying') < Len(deferred) + One(replaying)
<1>1. CASE Recallable # {}
  <2>1. Recallable \subseteq DOMAIN deferred BY DEF Recallable
  <2>2. DOMAIN deferred = 1 .. Len(deferred) /\ Len(deferred) \in Nat BY DEF TypeOK
  <2>3. Min(Recallable) \in Recallable BY <1>1, <2>1, <2>2, MinFacts
  <2>4. PICK k \in DOMAIN deferred :
          /\ Runnable(deferred[k], flag) # {} /\ Execute(Taken(deferred[k], flag))
          /\ deferred' = RemoveAt(deferred, k) /\ replaying' = replaying
    BY <1>1, <2>1, <2>3 DEF Replay, Recallable
  <2>5. Moves /\ flag' \in BOOLEAN BY <2>4, ExecuteFacts
  <2>6. deferred' \in Seq(AllEvents) /\ Len(deferred') = Len(deferred) - 1
    BY <2>4, RemoveAtFacts DEF TypeOK, AllEvents
  <2> QED BY <2>2, <2>4, <2>5, <2>6 DEF Replay, Delivers, TypeOK, One, Assumptions
<1>2. CASE Recallable = {}
  <2>1. Moves /\ UNCHANGED callVars BY <1>2 DEF Replay, Moves
  <2>2. replaying = TRUE /\ replaying' = FALSE /\ flag' = flag /\ deferred' = deferred
    BY <1>2 DEF Replay, TypeOK
  <2>3. /\ deferred \in Seq(AllEvents) /\ Len(deferred) \in Nat /\ flag \in BOOLEAN
        /\ Len(deferred) <= DeferredCapacity
    BY DEF TypeOK, AllEvents
  <2>4. One(replaying) = 1 /\ One(replaying') = 0 BY <2>2 DEF One
  <2>5. /\ Len(deferred') = Len(deferred)
        /\ Len(deferred') + One(replaying') < Len(deferred) + One(replaying)
        /\ Len(deferred') + One(replaying') <= Len(deferred) + One(replaying) + 1
    BY <2>2, <2>3, <2>4
  <2>6. flag' \in BOOLEAN /\ replaying' \in BOOLEAN BY <2>2, <2>3
  <2>7. deferred' \in Seq(AllEvents) /\ Len(deferred') <= DeferredCapacity BY <2>2, <2>3
  <2> QED BY <2>1, <2>5, <2>6, <2>7 DEF Delivers
<1> QED BY <1>1, <1>2

\* Calls and their continuations, by what they do to the machine.
Delivering ==
  /\ Delivers /\ phase' \in {"idle", "tick", "step"} /\ stepping' \in BOOLEAN
  /\ pending' \subseteq pending /\ (phase' = "tick" => phase = "tick")

Housekeeping ==
  /\ UNCHANGED <<place, flag, callVars, rearmed>>
  /\ replaying' \in BOOLEAN
  /\ deferred' \in Seq(AllEvents) /\ Len(deferred') <= DeferredCapacity

LEMMA FireFacts ==
  ASSUME Assumptions, TypeOK, Fire
  PROVE  /\ Delivering /\ phase' = "tick"
         /\ Min(pending) \in pending /\ pending' = pending \ {Min(pending)}
<1>1. pending \subseteq Nat /\ \A i \in pending : Rows[i].evt \in AllEvents
  BY DEF TypeOK, TimedRows, Assumptions, AllEvents
<1>2. Min(pending) \in pending BY <1>1, MinFacts DEF Fire
<1>3. Delivers BY <1>1, <1>2, DeliverFacts DEF Fire
<1> QED BY <1>2, <1>3 DEF Fire, Ticking, Delivering, TypeOK

LEMMA EmptyDeferred ==
  ASSUME Assumptions
  PROVE  << >> \in Seq(AllEvents) /\ Len(<< >>) <= DeferredCapacity
<1>1. DeferredCapacity \in Nat BY DEF Assumptions
<1>2. << >> \in Seq(AllEvents) /\ Len(<< >>) = 0 OBVIOUS
<1> QED BY <1>1, <1>2

LEMMA NextCases ==
  ASSUME Assumptions, TypeOK, [Next]_vars
  PROVE  \/ Delivering
         \/ Housekeeping
         \/ \E d \in Deltas, forStep \in BOOLEAN : Tick(d, forStep)
         \/ \E i \in TimedRows, d \in Deltas : SetTimerDuration(i, d)
         \/ TickReturn \/ Reset \/ ClearHistory \/ CheckInvariants
<1>1. ASSUME NEW e \in Events, Dispatch(e) PROVE Delivering
  <2>1. Delivers BY <1>1, DeliverFacts DEF Dispatch, AllEvents
  <2> QED BY <1>1, <2>1 DEF Dispatch, Delivering, callVars, TypeOK
<1>2. ASSUME NEW e \in Events, DeferEvent(e) PROVE Housekeeping
  <2>1. deferred' \in Seq(AllEvents) /\ Len(deferred') <= DeferredCapacity
    BY <1>2 DEF DeferEvent, TypeOK, AllEvents, Assumptions
  <2> QED BY <1>2, <2>1 DEF DeferEvent, Housekeeping, TypeOK
<1>3. CASE Step
  <2>1. Delivers BY <1>3, StepBodyFacts DEF Step
  <2> QED BY <1>3, <2>1 DEF Step, Delivering, callVars, TypeOK
<1>4. CASE ProcessDeferred BY <1>4 DEF ProcessDeferred, Housekeeping, TypeOK, AllEvents
<1>5. CASE ClearDeferred BY <1>5, EmptyDeferred DEF ClearDeferred, Housekeeping, TypeOK
<1>6. CASE Replay BY <1>6, ReplayFacts DEF Delivering, callVars, TypeOK
<1>7. CASE Fire BY <1>7, FireFacts
<1>8. CASE StepAfterTick
  <2>1. Delivers BY <1>8, StepBodyFacts DEF StepAfterTick
  <2> QED BY <1>8, <2>1 DEF StepAfterTick, Delivering, TypeOK
<1>9. CASE UNCHANGED vars BY <1>9 DEF vars, Housekeeping, TypeOK, AllEvents
<1> QED
  BY <1>1, <1>2, <1>3, <1>4, <1>5, <1>6, <1>7, <1>8, <1>9 DEF Next, Call, Continue

-----------------------------------------------------------------------------
(* Type correctness.                                                       *)

LEMMA ArmedType ==
  ASSUME Assumptions, NEW s \in States
  PROVE  Armed(s) \in [TimedRows -> [active : BOOLEAN, elapsed : Nat, interval : Nat]]
BY DEF Armed, TimedRows, Assumptions

LEMMA ChildFacts ==
  ASSUME Assumptions, NEW s \in States, NEW q \in Above(s)
  PROVE  ChildOf(q, s) \in States
<1>1. \E c \in Within[s] : Above(c) = Within[q] BY DEF Assumptions
<1>2. ChildOf(q, s) \in Within[s] BY <1>1 DEF ChildOf
<1> QED BY <1>2 DEF Assumptions

LEMMA MovesType ==
  ASSUME Assumptions, TypeOK, Moves
  PROVE  /\ state' \in States
         /\ history' \in [States -> States \cup {NoState}]
         /\ timers' \in [TimedRows -> [active : BOOLEAN, elapsed : Nat, interval : Nat]]
         /\ residence' \in Nat /\ violated' \in BOOLEAN /\ rearmed' \in BOOLEAN
         /\ active' \in [States -> Int]
         /\ lastLeaf' \in [States -> States \cup {NoState}]
<1>1. CASE UNCHANGED <<place, rearmed>> BY <1>1 DEF place, TypeOK
<1>2. ASSUME NEW i \in DOMAIN Rows, External(state, Rows[i].dst)
      PROVE  /\ state' \in States
             /\ history' \in [States -> States \cup {NoState}]
             /\ timers' \in [TimedRows -> [active : BOOLEAN, elapsed : Nat, interval : Nat]]
             /\ residence' \in Nat /\ violated' \in BOOLEAN /\ rearmed' \in BOOLEAN
             /\ active' \in [States -> Int]
             /\ lastLeaf' \in [States -> States \cup {NoState}]
  <2>1. Rows[i].dst \in States BY DEF Assumptions
  <2>2. history' \in [States -> States \cup {NoState}]
    BY <1>2, ChildFacts DEF External, RecordHistory, TypeOK
  <2>3. timers' \in [TimedRows -> [active : BOOLEAN, elapsed : Nat, interval : Nat]]
    BY <1>2, <2>1, ArmedType DEF External
  <2>4. active' \in [States -> Int] BY <1>2 DEF External, TypeOK
  <2>5. lastLeaf' \in [States -> States \cup {NoState}] BY <1>2 DEF External, TypeOK
  <2> QED BY <1>2, <2>1, <2>2, <2>3, <2>4, <2>5 DEF External, ResetInvariants
<1> QED BY <1>1, <1>2 DEF Moves

LEMMA TickTimers ==
  ASSUME Assumptions, TypeOK, NEW d \in Deltas, NEW forStep \in BOOLEAN, Tick(d, forStep)
  PROVE  timers' \in [TimedRows -> [active : BOOLEAN, elapsed : Nat, interval : Nat]]
<1>1. d \in Nat BY DEF Assumptions
<1>2. \A i \in TimedRows : timers[i] \in [active : BOOLEAN, elapsed : Nat, interval : Nat]
  BY DEF TypeOK
<1>3. \A i \in TimedRows : timers[i].interval # 0 =>
        (timers[i].elapsed + d) % timers[i].interval \in Nat
  BY <1>1, <1>2
<1> DEFINE T == [active : BOOLEAN, elapsed : Nat, interval : Nat]
<1>4. ASSUME NEW i \in TimedRows PROVE timers'[i] \in T
  <2> DEFINE t == timers[i]
             due == t.active /\ t.elapsed + d >= t.interval
             e == IF t.interval = 0 THEN 0 ELSE (t.elapsed + d) % t.interval
  <2>1. timers'[i] = CASE ~t.active                  -> t
                       [] due /\ i \in OneShot       -> [t EXCEPT !.active = FALSE, !.elapsed = @ + d]
                       [] due /\ i \notin OneShot    -> [t EXCEPT !.elapsed = e]
                       [] OTHER                      -> [t EXCEPT !.elapsed = @ + d]
    BY DEF Tick
  <2>2. t \in T BY <1>2
  <2>3. e \in Nat BY <1>3
  <2>4. t.elapsed + d \in Nat BY <1>1, <2>2
  <2>5. CASE ~t.active BY <2>1, <2>2, <2>5
  <2>6. CASE t.active /\ due /\ i \in OneShot
    <3>1. timers'[i] = [t EXCEPT !.active = FALSE, !.elapsed = @ + d] BY <2>1, <2>6
    <3> QED BY <3>1, <2>2, <2>4
  <2>7. CASE t.active /\ due /\ i \notin OneShot
    <3>1. timers'[i] = [t EXCEPT !.elapsed = e] BY <2>1, <2>7
    <3> QED BY <3>1, <2>2, <2>3
  <2>8. CASE t.active /\ ~due
    <3>1. timers'[i] = [t EXCEPT !.elapsed = @ + d] BY <2>1, <2>8
    <3> QED BY <3>1, <2>2, <2>4
  <2> QED BY <2>5, <2>6, <2>7, <2>8
<1>5. timers' = [i \in TimedRows |-> timers'[i]] BY DEF Tick
<1> QED BY <1>4, <1>5

LEMMA FreshType ==
  ASSUME Assumptions
  PROVE  /\ Fresh.state \in States
         /\ Fresh.history \in [States -> States \cup {NoState}]
         /\ Fresh.timers \in [TimedRows -> [active : BOOLEAN, elapsed : Nat, interval : Nat]]
         /\ Fresh.active \in [States -> Int]
BY ArmedType DEF Fresh, Assumptions

LEMMA TypeInit == Assumptions /\ Init => TypeOK
<1> SUFFICES ASSUME Assumptions, Init PROVE TypeOK OBVIOUS
<1>1. state \in States /\ flag \in BOOLEAN /\ residence \in Nat /\ violated \in BOOLEAN
  BY FreshType DEF Init
<1>2. /\ history \in [States -> States \cup {NoState}]
      /\ lastLeaf \in [States -> States \cup {NoState}]
      /\ active \in [States -> Int]
      /\ timers \in [TimedRows -> [active : BOOLEAN, elapsed : Nat, interval : Nat]]
  BY FreshType DEF Init
<1>3. /\ phase \in {"idle", "tick", "step"} /\ stepping \in BOOLEAN
      /\ replaying \in BOOLEAN /\ rearmed \in BOOLEAN /\ pending \subseteq TimedRows
  BY DEF Init
<1>4. deferred \in Seq(Events \cup TimedEvents) /\ Len(deferred) <= DeferredCapacity
  BY EmptyDeferred DEF Init, AllEvents
<1> QED BY <1>1, <1>2, <1>3, <1>4 DEF TypeOK

LEMMA TypeStep ==
  ASSUME Assumptions, TypeOK, [Next]_vars
  PROVE  TypeOK'
<1>1. CASE Delivering
  BY <1>1, MovesType DEF Delivering, Delivers, TypeOK, AllEvents
<1>2. CASE Housekeeping BY <1>2 DEF Housekeeping, TypeOK, AllEvents, place, callVars
<1>3. ASSUME NEW d \in Deltas, NEW forStep \in BOOLEAN, Tick(d, forStep) PROVE TypeOK'
  <2>1. d \in Nat BY DEF Assumptions
  <2>2. pending' \subseteq TimedRows BY <1>3 DEF Tick
  <2>3. timers' \in [TimedRows -> [active : BOOLEAN, elapsed : Nat, interval : Nat]]
    BY <1>3, TickTimers
  <2>4. residence' \in Nat
    <3>1. residence' = residence + d BY <1>3 DEF Tick
    <3>2. residence \in Nat BY DEF TypeOK
    <3> QED BY <2>1, <3>1, <3>2
  <2>5. /\ flag' \in BOOLEAN /\ phase' = "tick" /\ stepping' \in BOOLEAN /\ rearmed' \in BOOLEAN
        /\ UNCHANGED <<state, history, violated, active, lastLeaf, deferred, replaying>>
    BY <1>3 DEF Tick
  <2> QED BY <2>2, <2>3, <2>4, <2>5 DEF TypeOK
<1>4. ASSUME NEW i \in TimedRows, NEW d \in Deltas, SetTimerDuration(i, d) PROVE TypeOK'
  <2>1. d \in Nat BY DEF Assumptions
  <2> QED BY <1>4, <2>1 DEF SetTimerDuration, TypeOK, callVars
<1>5. CASE TickReturn
  <2>1. violated' \in BOOLEAN BY <1>5 DEF TickReturn, Overstays
  <2> QED BY <1>5, <2>1 DEF TickReturn, TypeOK
<1>6. CASE Reset
  <2>1. deferred' \in Seq(Events \cup TimedEvents) /\ Len(deferred') <= DeferredCapacity
    BY <1>6, EmptyDeferred DEF Reset, AllEvents
  <2>2. /\ state' \in States /\ history' \in [States -> States \cup {NoState}]
        /\ timers' \in [TimedRows -> [active : BOOLEAN, elapsed : Nat, interval : Nat]]
        /\ active' \in [States -> Int] /\ lastLeaf' \in [States -> States \cup {NoState}]
        /\ residence' \in Nat /\ violated' \in BOOLEAN /\ flag' \in BOOLEAN
        /\ UNCHANGED <<phase, stepping, pending, replaying, rearmed>>
    BY <1>6, FreshType DEF Reset, callVars
  <2> QED BY <2>1, <2>2 DEF TypeOK
<1>7. CASE ClearHistory BY <1>7, FreshType DEF ClearHistory, TypeOK, callVars
<1>8. CASE CheckInvariants
  <2>1. violated' \in BOOLEAN BY <1>8 DEF CheckInvariants, Overstays
  <2> QED BY <1>8, <2>1 DEF CheckInvariants, TypeOK, callVars
<1> QED BY <1>1, <1>2, <1>3, <1>4, <1>5, <1>6, <1>7, <1>8, NextCases

\* The members hold what their types allow and the deferred queue no more
\* than its capacity, for any chart, table and capacity.
THEOREM TypeCorrect == Spec => []TypeOK
<1>1. Init => TypeOK BY TypeInit, FsmCoreAssumption
<1>2. TypeOK /\ [Next]_vars => TypeOK' BY TypeStep, FsmCoreAssumption
<1> QED BY <1>1, <1>2, PTL DEF Spec

-----------------------------------------------------------------------------
(* Residence, timers and the timers that have expired.                     *)

LEMMA OverstayStep ==
  ASSUME Assumptions, TypeOK, ViolationIsOverstay, [Next]_vars
  PROVE  ViolationIsOverstay'
<1>1. CASE UNCHANGED <<state, residence, violated>>
  BY <1>1 DEF ViolationIsOverstay, Overstays
<1>2. CASE violated' = FALSE BY <1>2 DEF ViolationIsOverstay
<1>3. CASE violated' = Overstays /\ UNCHANGED <<state, residence>>
  BY <1>3 DEF ViolationIsOverstay, Overstays
<1>4. CASE Delivering
  BY <1>1, <1>2, <1>4 DEF Delivering, Delivers, Moves, External, ResetInvariants, place
<1>5. ASSUME NEW d \in Deltas, NEW forStep \in BOOLEAN, Tick(d, forStep)
      PROVE  ViolationIsOverstay'
  <2>1. d \in Nat /\ residence \in Nat /\ \A s \in DOMAIN MaxStay : MaxStay[s] \in Nat
    BY DEF TypeOK, Assumptions
  <2>2. residence' = residence + d /\ UNCHANGED <<state, violated>> BY <1>5 DEF Tick
  <2> QED BY <2>1, <2>2 DEF ViolationIsOverstay, Overstays
<1>6. CASE Housekeeping BY <1>1, <1>6 DEF Housekeeping, place
<1>7. ASSUME NEW i \in TimedRows, NEW d \in Deltas, SetTimerDuration(i, d)
      PROVE  ViolationIsOverstay'
  BY <1>1, <1>7 DEF SetTimerDuration
<1>8. CASE TickReturn BY <1>3, <1>8 DEF TickReturn
<1>9. CASE Reset BY <1>2, <1>9 DEF Reset
<1>10. CASE ClearHistory BY <1>1, <1>10 DEF ClearHistory
<1>11. CASE CheckInvariants BY <1>3, <1>11 DEF CheckInvariants
<1> QED BY <1>4, <1>5, <1>6, <1>7, <1>8, <1>9, <1>10, <1>11, NextCases

\* The last violation is forgotten by every transition that ends the stay it
\* was about, and reset() forgets it: one that is reported holds now.
THEOREM OverstayCorrect == Spec => []ViolationIsOverstay
<1>1. Init => ViolationIsOverstay BY DEF Init, ViolationIsOverstay
<1>2. TypeOK /\ ViolationIsOverstay /\ [Next]_vars => ViolationIsOverstay'
  BY OverstayStep, FsmCoreAssumption
<1> QED BY <1>1, <1>2, TypeCorrect, PTL DEF Spec

\* An expired timer that tick() has not dispatched yet is one of this stay,
\* unless a transition has re-armed the table.
PendingInv ==
  phase = "tick" /\ ~rearmed =>
    \A i \in pending : /\ Rows[i].src \in Within[state]
                       /\ i \in OneShot => residence >= timers[i].interval

LEMMA ArmedMatch ==
  ASSUME NEW s \in States, state' = s, timers' = Armed(s), residence' = 0
  PROVE  TimersMatchState'
BY DEF Armed, TimersMatchState, OneShot

LEMMA TickMatch ==
  ASSUME Assumptions, TypeOK, TimersMatchState,
         NEW d \in Deltas, NEW forStep \in BOOLEAN, Tick(d, forStep)
  PROVE  TimersMatchState' /\ PendingInv'
<1>1. d \in Nat /\ residence \in Nat BY DEF TypeOK, Assumptions
<1>2. residence' = residence + d /\ state' = state BY DEF Tick
<1>3. ASSUME NEW i \in TimedRows
      PROVE  /\ timers'[i].active => Rows[i].src \in Within[state]
             /\ i \in OneShot /\ Rows[i].src \in Within[state] =>
                  IF timers'[i].active THEN timers'[i].elapsed = residence + d
                                       ELSE residence + d >= timers'[i].interval
             /\ i \in pending' => /\ Rows[i].src \in Within[state]
                                  /\ i \in OneShot => residence + d >= timers'[i].interval
  <2> DEFINE t == timers[i]
             due == t.active /\ t.elapsed + d >= t.interval
             e == IF t.interval = 0 THEN 0 ELSE (t.elapsed + d) % t.interval
  <2>1. timers'[i] = CASE ~t.active                  -> t
                       [] due /\ i \in OneShot       -> [t EXCEPT !.active = FALSE, !.elapsed = @ + d]
                       [] due /\ i \notin OneShot    -> [t EXCEPT !.elapsed = e]
                       [] OTHER                      -> [t EXCEPT !.elapsed = @ + d]
    BY DEF Tick
  <2>2. i \in pending' <=> due BY DEF Tick
  <2>3. t \in [active : BOOLEAN, elapsed : Nat, interval : Nat] BY DEF TypeOK
  <2>4. /\ t.active => Rows[i].src \in Within[state]
        /\ i \in OneShot /\ Rows[i].src \in Within[state] =>
             IF t.active THEN t.elapsed = residence ELSE residence >= t.interval
    BY DEF TimersMatchState
  <2>5. CASE ~t.active
    <3>1. timers'[i] = t BY <2>1, <2>5
    <3> QED BY <3>1, <1>1, <2>2, <2>3, <2>4, <2>5
  <2>6. CASE t.active /\ due /\ i \in OneShot
    <3>1. timers'[i] = [t EXCEPT !.active = FALSE, !.elapsed = @ + d] BY <2>1, <2>6
    <3>2. ~timers'[i].active /\ timers'[i].interval = t.interval BY <3>1, <2>3
    <3>3. residence + d >= t.interval BY <2>4, <2>6
    <3> QED BY <3>2, <3>3, <2>4, <2>6
  <2>7. CASE t.active /\ due /\ i \notin OneShot BY <2>4, <2>7
  <2>8. CASE t.active /\ ~due
    <3>1. timers'[i] = [t EXCEPT !.elapsed = @ + d] BY <2>1, <2>8
    <3>2. timers'[i].active /\ timers'[i].elapsed = t.elapsed + d BY <3>1, <2>3, <2>8
    <3> QED BY <3>2, <2>2, <2>4, <2>8
  <2> QED BY <2>5, <2>6, <2>7, <2>8
<1>4. pending' \subseteq TimedRows BY DEF Tick
<1> QED BY <1>2, <1>3, <1>4 DEF TimersMatchState, PendingInv

LEMMA TimersStep ==
  ASSUME Assumptions, TypeOK, TimersMatchState, PendingInv, [Next]_vars
  PROVE  TimersMatchState' /\ PendingInv'
<1>1. ASSUME UNCHANGED <<state, timers, residence>> PROVE TimersMatchState'
  <2>1. state' = state /\ timers' = timers /\ residence' = residence BY <1>1
  <2>2. ASSUME NEW i \in TimedRows
        PROVE  /\ timers'[i].active => Rows[i].src \in Within[state']
               /\ i \in OneShot /\ Rows[i].src \in Within[state'] =>
                    IF timers'[i].active THEN timers'[i].elapsed = residence'
                                         ELSE residence' >= timers'[i].interval
    BY <2>1 DEF TimersMatchState
  <2> QED BY <2>2 DEF TimersMatchState
<1>2. CASE Delivering
  <2>1. pending' \subseteq pending /\ (phase' = "tick" => phase = "tick")
    BY <1>2 DEF Delivering
  <2>2. CASE UNCHANGED <<place, rearmed>>
    BY <1>1, <2>1, <2>2 DEF place, PendingInv
  <2>3. ASSUME NEW i \in DOMAIN Rows, External(state, Rows[i].dst)
        PROVE  TimersMatchState' /\ PendingInv'
    <3>1. Rows[i].dst \in States BY DEF Assumptions
    <3>2. rearmed' = (phase = "tick") BY <2>3 DEF External
    <3>3. PendingInv' BY <2>1, <3>2 DEF PendingInv
    <3> QED BY <2>3, <3>1, <3>3, ArmedMatch DEF External, ResetInvariants
  <2> QED BY <1>2, <2>2, <2>3 DEF Delivering, Delivers, Moves
<1>3. CASE Housekeeping BY <1>1, <1>3 DEF Housekeeping, place, callVars, PendingInv
<1>4. ASSUME NEW i \in TimedRows, NEW d \in Deltas, SetTimerDuration(i, d)
      PROVE  TimersMatchState' /\ PendingInv'
  <2>1. PendingInv' BY <1>4 DEF SetTimerDuration, Idle, callVars, PendingInv
  <2>2. ASSUME NEW j \in TimedRows
        PROVE  /\ timers'[j].active = timers[j].active
               /\ timers'[j].elapsed = timers[j].elapsed
               /\ j # i => timers'[j] = timers[j]
    <3>1. timers[j] \in [active : BOOLEAN, elapsed : Nat, interval : Nat] BY DEF TypeOK
    <3>2. timers' = [timers EXCEPT ![i].interval = d] BY <1>4 DEF SetTimerDuration
    <3> QED BY <3>1, <3>2 DEF TypeOK
  <2>3. timers[i].active /\ UNCHANGED <<state, residence>> BY <1>4 DEF SetTimerDuration
  <2> QED BY <2>1, <2>2, <2>3 DEF TimersMatchState
<1>5. CASE TickReturn BY <1>1, <1>5 DEF TickReturn, PendingInv
<1>6. CASE Reset
  <2>1. PendingInv' BY <1>6 DEF Reset, Idle, callVars, PendingInv
  <2>2. InitialState \in States BY DEF Assumptions
  <2>3. state' = InitialState /\ timers' = Armed(InitialState) /\ residence' = 0
    BY <1>6 DEF Reset, Fresh
  <2> QED BY <2>1, <2>2, <2>3, ArmedMatch
<1>7. CASE ClearHistory BY <1>1, <1>7 DEF ClearHistory, Idle, callVars, PendingInv
<1>8. CASE CheckInvariants BY <1>1, <1>8 DEF CheckInvariants, Idle, callVars, PendingInv
<1> QED BY <1>2, <1>3, <1>4, <1>5, <1>6, <1>7, <1>8, TickMatch, NextCases

LEMMA TimersInvariant == Spec => [](TypeOK /\ TimersMatchState /\ PendingInv)
<1>1. Init => TimersMatchState /\ PendingInv
  <2> SUFFICES ASSUME Init PROVE TimersMatchState /\ PendingInv OBVIOUS
  <2>1. state = InitialState /\ timers = Armed(InitialState) /\ residence = 0
    BY DEF Init, Fresh
  <2>2. PendingInv BY DEF Init, PendingInv
  <2> QED BY <2>1, <2>2 DEF TimersMatchState, Armed, OneShot
<1>2. TypeOK /\ TimersMatchState /\ PendingInv /\ [Next]_vars
        => TimersMatchState' /\ PendingInv'
  BY TimersStep, FsmCoreAssumption
<1> QED BY <1>1, <1>2, TypeCorrect, PTL DEF Spec

\* What runs belongs to the current state or a state around it, and a one-shot
\* timer has run for exactly the residence time: for any chart and table,
\* whatever set_timer_duration(), reset() and recalls come in between.
THEOREM TimersCorrect == Spec => []TimersMatchState
BY TimersInvariant, PTL

LEMMA StaleStep ==
  ASSUME Assumptions, TypeOK, PendingInv, [Next]_vars,
         phase = "tick", phase' = "tick", pending' # pending
  PROVE  \A i \in pending \ pending' :
           /\ Rows[i].src \in Within[state]
           /\ i \in OneShot => residence >= timers[i].interval
<1>1. UNCHANGED vars \/ Call \/ Continue BY DEF Next
<1>2. ~(UNCHANGED vars) BY DEF vars, callVars
<1>3. ~Call
  BY DEF Call, Idle, Dispatch, DeferEvent, Step, Tick, SetTimerDuration, Reset,
         ProcessDeferred, ClearDeferred, ClearHistory, CheckInvariants
<1>4. ~Replay BY DEF Replay, callVars
<1>5. ~TickReturn BY DEF TickReturn
<1>6. ~StepAfterTick BY DEF StepAfterTick
<1>7. ~rearmed BY <1>1, <1>2, <1>3, <1>4, <1>5, <1>6 DEF Continue, Fire
<1> QED BY <1>7 DEF PendingInv

\* tick() never dispatches a timer that expired in a state that a timer or a
\* recalled event has left since.
THEOREM NoStaleCorrect == Spec => NoStaleTimeout
<1>1. TypeOK /\ PendingInv /\ [Next]_vars
        => [phase = "tick" /\ phase' = "tick" /\ pending' # pending =>
              \A i \in pending \ pending' :
                /\ Rows[i].src \in Within[state]
                /\ i \in OneShot => residence >= timers[i].interval]_vars
  BY StaleStep, FsmCoreAssumption
<1> QED BY <1>1, TimersInvariant, PTL DEF Spec, NoStaleTimeout

-----------------------------------------------------------------------------
(* Entry and exit actions.                                                 *)

Leaf(s) == \A q \in States : s \in Within[q] => q = s

\* The machine starts in a leaf and every external row leads to one.
Leaves == Leaf(InitialState) /\ \A i \in DOMAIN Rows : ~Rows[i].internal => Leaf(Rows[i].dst)

LEMMA ExternalBalance ==
  ASSUME Assumptions, TypeOK, ActiveConfiguration, Leaf(state),
         NEW dst \in States, Leaf(dst), External(state, dst)
  PROVE  ActiveConfiguration'
<1>1. \A s \in States : active[s] = IF s \in Within[state] THEN 1 ELSE 0
  BY DEF ActiveConfiguration
<1>2. state \in States /\ state \in Within[state] /\ dst \in Within[dst]
  BY DEF Assumptions, TypeOK
<1>3. state # dst => state \notin Within[dst] /\ dst \notin Within[state]
  BY <1>2 DEF Leaf
<1>4. state' = dst BY DEF External
<1>5. ASSUME NEW s \in States
      PROVE  active'[s] = IF s \in Within[dst] THEN 1 ELSE 0
  <2>1. active'[s] = active[s] - (IF s \in Left(state, dst) THEN 1 ELSE 0)
                               + (IF s \in Entered(state, dst) THEN 1 ELSE 0)
    BY DEF External
  <2>2. s \in Left(state, dst) <=> s = state \/ (s \in Within[state] /\ s \notin Within[dst])
    BY DEF Left
  <2>3. s \in Entered(state, dst) <=> s = dst \/ (s \in Within[dst] /\ s \notin Within[state])
    BY DEF Entered
  <2> QED BY <1>1, <1>2, <1>3, <2>1, <2>2, <2>3
<1>6. active' = [s \in States |-> active'[s]] BY DEF External
<1> QED BY <1>4, <1>5, <1>6 DEF ActiveConfiguration

LEMMA ActiveStep ==
  ASSUME Assumptions, Leaves, TypeOK, ActiveConfiguration, Leaf(state), [Next]_vars
  PROVE  ActiveConfiguration' /\ Leaf(state)'
<1>1. CASE UNCHANGED <<state, active>> BY <1>1 DEF ActiveConfiguration, Leaf
<1>2. CASE Delivering
  <2>1. CASE UNCHANGED <<place, rearmed>> BY <1>1, <2>1 DEF place
  <2>2. ASSUME NEW i \in DOMAIN Rows, ~Rows[i].internal, External(state, Rows[i].dst)
        PROVE  ActiveConfiguration' /\ Leaf(state)'
    <3>1. Rows[i].dst \in States /\ Leaf(Rows[i].dst) BY <2>2 DEF Assumptions, Leaves
    <3>2. state' = Rows[i].dst BY <2>2 DEF External
    <3>3. Leaf(state)' BY <3>1, <3>2 DEF Leaf
    <3> QED BY <2>2, <3>1, <3>3, ExternalBalance
  <2> QED BY <1>2, <2>1, <2>2 DEF Delivering, Delivers, Moves
<1>3. CASE Housekeeping BY <1>1, <1>3 DEF Housekeeping, place
<1>4. ASSUME NEW d \in Deltas, NEW forStep \in BOOLEAN, Tick(d, forStep)
      PROVE  ActiveConfiguration' /\ Leaf(state)'
  BY <1>1, <1>4 DEF Tick
<1>5. ASSUME NEW i \in TimedRows, NEW d \in Deltas, SetTimerDuration(i, d)
      PROVE  ActiveConfiguration' /\ Leaf(state)'
  BY <1>1, <1>5 DEF SetTimerDuration
<1>6. CASE Reset
  BY <1>6 DEF Reset, Fresh, ActiveConfiguration, Leaf, Leaves
<1>7. CASE TickReturn \/ ClearHistory \/ CheckInvariants
  BY <1>1, <1>7 DEF TickReturn, ClearHistory, CheckInvariants
<1> QED BY <1>2, <1>3, <1>4, <1>5, <1>6, <1>7, NextCases

\* Whatever hierarchy and table the machine has, as long as its external rows
\* lead to leaves: exactly the current state and the states around it have
\* been entered once more than left.
THEOREM ActiveCorrect == Leaves => (Spec => []ActiveConfiguration)
<1> SUFFICES ASSUME Leaves PROVE Spec => []ActiveConfiguration OBVIOUS
<1> DEFINE IInv == ActiveConfiguration /\ Leaf(state)
<1>1. Init => IInv
  BY DEF Init, Fresh, ActiveConfiguration, Leaf, Leaves
<1>2. TypeOK /\ IInv /\ [Next]_vars => IInv' BY ActiveStep, FsmCoreAssumption
<1> QED BY <1>1, <1>2, TypeCorrect, PTL DEF Spec

-----------------------------------------------------------------------------
(* History.                                                                *)

\* Leaves record nothing.  A composite state that has been left records its
\* substate on the way to the leaf last left with it, and so do the states on
\* that way.  Under a state the machine is not in, nothing is written.
HistoryInv ==
  /\ \A s \in States : Leaf(s) => history[s] = NoState /\ lastLeaf[s] = NoState
  /\ \A p \in States \ Within[state] :
       IF lastLeaf[p] = NoState
       THEN history[p] = NoState
       ELSE /\ lastLeaf[p] \in States /\ Leaf(lastLeaf[p]) /\ p \in Above(lastLeaf[p])
            /\ \A q \in Above(lastLeaf[p]) :
                 p \in Within[q] => history[q] = ChildOf(q, lastLeaf[p])

LEMMA ExternalHistory ==
  ASSUME Assumptions, TypeOK, Leaf(state), HistoryInv,
         NEW dst \in States, Leaf(dst), External(state, dst)
  PROVE  HistoryInv'
<1>1. state \in States /\ state' = dst BY DEF TypeOK, External
<1>2. \A q \in States : history'[q] = IF q \in Above(state) THEN ChildOf(q, state) ELSE history[q]
  BY DEF External, RecordHistory
<1>3. \A q \in States : lastLeaf'[q] = IF q \in Above(state) \ Within[dst] THEN state ELSE lastLeaf[q]
  BY DEF External
<1>4. ASSUME NEW s \in States, Leaf(s) PROVE history'[s] = NoState /\ lastLeaf'[s] = NoState
  <2>1. s \notin Above(state) BY <1>1, <1>4 DEF Leaf, Above
  <2> QED BY <1>2, <1>3, <1>4, <2>1 DEF HistoryInv
<1>5. ASSUME NEW p \in States \ Within[dst]
      PROVE  IF lastLeaf'[p] = NoState
             THEN history'[p] = NoState
             ELSE /\ lastLeaf'[p] \in States /\ Leaf(lastLeaf'[p]) /\ p \in Above(lastLeaf'[p])
                  /\ \A q \in Above(lastLeaf'[p]) :
                       p \in Within[q] => history'[q] = ChildOf(q, lastLeaf'[p])
  <2>1. CASE p \in Above(state)
    <3>1. lastLeaf'[p] = state /\ state # NoState BY <1>1, <1>3, <2>1 DEF Assumptions
    <3>2. \A q \in Above(state) : history'[q] = ChildOf(q, state)
      BY <1>1, <1>2 DEF Above, Assumptions
    <3> QED BY <1>1, <2>1, <3>1, <3>2
  <2>2. CASE p = state
    <3>1. history'[p] = NoState /\ lastLeaf'[p] = NoState BY <1>4, <2>2
    <3> QED BY <3>1
  <2>3. CASE p \notin Within[state]
    <3>1. \A q \in States : p \in Within[q] => q \notin Above(state)
      BY <1>1, <2>3 DEF Above, Assumptions
    <3>2. lastLeaf'[p] = lastLeaf[p] BY <1>3, <2>3 DEF Above
    <3>3. \A q \in States : p \in Within[q] => history'[q] = history[q] BY <1>2, <3>1
    <3>4. p \in Within[p] BY DEF Assumptions
    <3>5. CASE lastLeaf[p] = NoState BY <2>3, <3>2, <3>3, <3>4, <3>5 DEF HistoryInv
    <3>6. CASE lastLeaf[p] # NoState
      <4> DEFINE l == lastLeaf[p]
      <4>1. /\ l \in States /\ Leaf(l) /\ p \in Above(l)
            /\ \A q \in Above(l) : p \in Within[q] => history[q] = ChildOf(q, l)
        BY <2>3, <3>6 DEF HistoryInv
      <4>2. Above(l) \subseteq States BY <4>1 DEF Above, Assumptions
      <4> QED BY <3>2, <3>3, <3>6, <4>1, <4>2
    <3> QED BY <3>5, <3>6
  <2> QED BY <2>1, <2>2, <2>3 DEF Above
<1> QED BY <1>1, <1>4, <1>5 DEF HistoryInv

LEMMA FreshHistory ==
  ASSUME Assumptions, history = Fresh.history, lastLeaf = Fresh.history
  PROVE  HistoryInv
BY DEF Fresh, HistoryInv

LEMMA HistoryStep ==
  ASSUME Assumptions, Leaves, TypeOK, Leaf(state), HistoryInv, [Next]_vars
  PROVE  HistoryInv' /\ Leaf(state)'
<1>1. CASE UNCHANGED <<state, history, lastLeaf>> BY <1>1 DEF HistoryInv, Leaf
<1>2. CASE Delivering
  <2>1. CASE UNCHANGED <<place, rearmed>> BY <1>1, <2>1 DEF place
  <2>2. ASSUME NEW i \in DOMAIN Rows, ~Rows[i].internal, External(state, Rows[i].dst)
        PROVE  HistoryInv' /\ Leaf(state)'
    <3>1. Rows[i].dst \in States /\ Leaf(Rows[i].dst) BY <2>2 DEF Assumptions, Leaves
    <3>2. state' = Rows[i].dst BY <2>2 DEF External
    <3>3. Leaf(state)' BY <3>1, <3>2 DEF Leaf
    <3> QED BY <2>2, <3>1, <3>3, ExternalHistory
  <2> QED BY <1>2, <2>1, <2>2 DEF Delivering, Delivers, Moves
<1>3. CASE Housekeeping BY <1>1, <1>3 DEF Housekeeping, place
<1>4. ASSUME NEW d \in Deltas, NEW forStep \in BOOLEAN, Tick(d, forStep)
      PROVE  HistoryInv' /\ Leaf(state)'
  BY <1>1, <1>4 DEF Tick
<1>5. ASSUME NEW i \in TimedRows, NEW d \in Deltas, SetTimerDuration(i, d)
      PROVE  HistoryInv' /\ Leaf(state)'
  BY <1>1, <1>5 DEF SetTimerDuration
<1>6. CASE Reset
  <2>1. history' = Fresh.history /\ lastLeaf' = Fresh.history /\ state' = InitialState
    BY <1>6 DEF Reset, Fresh
  <2> QED BY <2>1 DEF Fresh, HistoryInv, Leaf, Leaves
<1>7. CASE ClearHistory
  <2>1. history' = Fresh.history /\ lastLeaf' = Fresh.history /\ state' = state
    BY <1>7 DEF ClearHistory
  <2> QED BY <2>1 DEF Fresh, HistoryInv, Leaf
<1>8. CASE TickReturn \/ CheckInvariants BY <1>1, <1>8 DEF TickReturn, CheckInvariants
<1> QED BY <1>2, <1>3, <1>4, <1>5, <1>6, <1>7, <1>8, NextCases

\* The function Recorded takes its value from satisfies its equation: the states
\* that every set closed under the history contains are a solution.
Below(down) ==
  down = [s \in States \cup {NoState} |->
            IF s = NoState THEN {} ELSE {history[s]} \cup down[history[s]]]

LEMMA BelowExists ==
  ASSUME TypeOK
  PROVE  \E down : Below(down)
<1> DEFINE S == States \cup {NoState}
           Closed(Z) == \A z \in Z : z # NoState => history[z] \in Z
           Least(s) == {x \in S : \A Z \in SUBSET S : history[s] \in Z /\ Closed(Z) => x \in Z}
           d == [s \in S |-> IF s = NoState THEN {} ELSE Least(s)]
<1>1. \A s \in S : s # NoState => history[s] \in S BY DEF TypeOK
<1>2. ASSUME NEW s \in S, s # NoState PROVE Least(s) = {history[s]} \cup d[history[s]]
  <2> DEFINE h == history[s]
  <2>1. h \in S /\ h \in Least(s) BY <1>1, <1>2
  <2>2. CASE h = NoState
    <3>1. d[h] = {} BY <2>1, <2>2
    <3>2. {h} \in SUBSET S /\ Closed({h}) BY <2>1, <2>2
    <3>3. \A x \in Least(s) : x \in {h} BY <3>2
    <3> QED BY <2>1, <3>1, <3>3
  <2>3. CASE h # NoState
    <3>1. d[h] = Least(h) BY <2>1, <2>3
    <3>2. Least(h) \subseteq Least(s)
      <4> SUFFICES ASSUME NEW x \in Least(h), NEW Z \in SUBSET S, h \in Z, Closed(Z)
                   PROVE  x \in Z
        OBVIOUS
      <4>1. history[h] \in Z BY <2>3
      <4> QED BY <4>1
    <3>3. {h} \cup Least(h) \in SUBSET S BY <2>1
    <3>4. Closed({h} \cup Least(h))
      <4>1. history[h] \in Least(h) BY <1>1, <2>1, <2>3
      <4>2. ASSUME NEW z \in Least(h), z # NoState PROVE history[z] \in Least(h)
        <5>1. history[z] \in S BY <1>1, <4>2
        <5>2. ASSUME NEW Z \in SUBSET S, history[h] \in Z, Closed(Z) PROVE history[z] \in Z
          <6>1. z \in Z BY <4>2, <5>2
          <6> QED BY <4>2, <5>2, <6>1
        <5> QED BY <5>1, <5>2
      <4> QED BY <4>1, <4>2
    <3>5. \A x \in Least(s) : x \in {h} \cup Least(h) BY <3>3, <3>4
    <3>6. Least(s) = {h} \cup Least(h) BY <2>1, <3>2, <3>5
    <3> HIDE DEF Least, d, h
    <3> QED BY <3>1, <3>6 DEF h
  <2> QED BY <2>2, <2>3
<1> HIDE DEF Least
<1>3. \A s \in S : d[s] = IF s = NoState THEN {} ELSE {history[s]} \cup d[history[s]]
  BY <1>2
<1>4. Below(d) BY <1>3 DEF Below
<1> QED BY <1>4

LEMMA RecordedFacts ==
  ASSUME TypeOK, NEW p \in States
  PROVE  \E down : Below(down) /\ Recorded(p) = down[p] \ {NoState}
<1> DEFINE down == CHOOSE down : Below(down)
<1>1. Below(down) BY BelowExists
<1>2. Recorded(p) = down[p] \ {NoState} BY DEF Recorded, Below
<1> QED BY <1>1, <1>2

LEMMA ChildOnWay ==
  ASSUME Assumptions, NEW l \in States, NEW q \in Above(l)
  PROVE  /\ ChildOf(q, l) \in Within[l] /\ ChildOf(q, l) \in States
         /\ ChildOf(q, l) \notin Within[q]
         /\ Within[ChildOf(q, l)] = Within[q] \cup {ChildOf(q, l)}
<1> DEFINE c == ChildOf(q, l)
<1>1. \E x \in Within[l] : Above(x) = Within[q] BY DEF Assumptions
<1>2. c \in Within[l] /\ Above(c) = Within[q] BY <1>1 DEF ChildOf
<1>3. c \in States BY <1>2 DEF Assumptions
<1>4. c \in Within[c] BY <1>3 DEF Assumptions
<1> HIDE DEF c
<1>5. c \notin Within[q] /\ Within[c] = Within[q] \cup {c} BY <1>2, <1>4 DEF Above
<1> QED BY <1>2, <1>3, <1>5 DEF c

\* Along a way on which every state has recorded the next one, the walk of
\* history_is ends in the leaf at its end.  By the number of states left to go.
LEMMA WayEnds ==
  ASSUME Assumptions, TypeOK, NEW l \in States, history[l] = NoState, NEW p \in Above(l),
         \A q \in Above(l) : p \in Within[q] => history[q] = ChildOf(q, l),
         NEW down, Below(down)
  PROVE  {x \in down[p] \ {NoState} : history[x] = NoState} = {l}
<1> DEFINE Ends(q) == {x \in down[q] \ {NoState} : history[x] = NoState}
           Way == {q \in Above(l) : p \in Within[q]}
           Far(q) == Cardinality(Within[l] \ Within[q])
           Bad == {q \in Way : Ends(q) # {l}}
<1>1. Within[l] \subseteq States /\ IsFiniteSet(Within[l]) /\ NoState \notin States
  BY FS_Subset DEF Assumptions
<1>2. Way \subseteq States /\ p \in Way BY <1>1 DEF Above, Assumptions
<1>3. \A q \in Way : IsFiniteSet(Within[l] \ Within[q]) /\ Far(q) \in Nat
  BY <1>1, FS_Subset, FS_CardinalityType
<1>4. /\ down[NoState] = {}
      /\ \A s \in States : down[s] = {history[s]} \cup down[history[s]]
  BY <1>1 DEF Below
<1>5. down[l] = {NoState} BY <1>4
<1>6. SUFFICES ASSUME Bad # {} PROVE FALSE BY <1>2
<1>7. {Far(q) : q \in Bad} \in SUBSET Nat /\ {Far(q) : q \in Bad} # {} BY <1>3, <1>6
<1>8. \E n \in {Far(q) : q \in Bad} : \A k \in {Far(q) : q \in Bad} : ~(<<k, n>> \in OpToRel(<, Nat))
  BY <1>7, NatLessThanWellFounded, WFMin
<1>9. PICK q \in Bad : \A r \in Bad : ~(<<Far(r), Far(q)>> \in OpToRel(<, Nat)) BY <1>8
<1>10. \A r \in Bad : ~(Far(r) < Far(q))
  BY <1>3, <1>9 DEF OpToRel
<1> DEFINE c == ChildOf(q, l)
<1>11. q \in Above(l) /\ p \in Within[q] /\ q \in States /\ Ends(q) # {l} BY <1>2
<1>12. /\ c \in Within[l] /\ c \in States /\ c \notin Within[q]
       /\ Within[c] = Within[q] \cup {c}
  BY <1>11, ChildOnWay
<1>13. history[q] = c BY <1>11
<1> HIDE DEF c
<1>14. down[q] = {c} \cup down[c] BY <1>4, <1>11, <1>13
<1>15. CASE c = l
  <2>1. down[q] \ {NoState} = {l} BY <1>1, <1>5, <1>14, <1>15
  <2> QED BY <2>1, <1>11
<1>16. CASE c # l
  <2>1. c \in Way BY <1>11, <1>12, <1>16 DEF Above
  <2>2. history[c] # NoState
    <3>1. history[c] = ChildOf(c, l) BY <2>1
    <3>2. ChildOf(c, l) \in States BY <2>1, ChildOnWay
    <3> QED BY <1>1, <3>1, <3>2
  <2>3. Ends(q) = Ends(c) BY <1>14, <2>2
  <2>4. c \in Bad BY <2>1, <2>3, <1>11
  <2>5. Far(c) < Far(q)
    <3>1. Within[l] \ Within[c] = (Within[l] \ Within[q]) \ {c} BY <1>12
    <3>2. c \in Within[l] \ Within[q] BY <1>12
    <3>3. IsFiniteSet(Within[l] \ Within[q]) /\ Far(q) \in Nat BY <1>3, <1>11
    <3>4. Cardinality((Within[l] \ Within[q]) \ {c}) = Cardinality(Within[l] \ Within[q]) - 1
      BY <3>2, <3>3, FS_RemoveElement
    <3>5. Far(c) = Far(q) - 1 BY <3>1, <3>4
    <3> HIDE DEF Far
    <3> QED BY <3>3, <3>5
  <2> QED BY <1>10, <2>4, <2>5
<1> QED BY <1>15, <1>16

LEMMA LeadsBack ==
  ASSUME Assumptions, TypeOK, HistoryInv
  PROVE  HistoryLeadsBack
<1> SUFFICES ASSUME NEW p \in States \ Within[state]
             PROVE  IF lastLeaf[p] = NoState
                    THEN Recorded(p) = {}
                    ELSE {l \in Recorded(p) : history[l] = NoState} = {lastLeaf[p]}
  BY DEF HistoryLeadsBack
<1>1. PICK down : Below(down) /\ Recorded(p) = down[p] \ {NoState} BY RecordedFacts
<1>2. CASE lastLeaf[p] = NoState
  <2>1. history[p] = NoState BY <1>2 DEF HistoryInv
  <2>2. down[NoState] = {} /\ down[p] = {history[p]} \cup down[history[p]]
    BY <1>1 DEF Below, Assumptions
  <2> QED BY <1>1, <1>2, <2>1, <2>2
<1>3. CASE lastLeaf[p] # NoState
  <2> DEFINE l == lastLeaf[p]
  <2>1. /\ l \in States /\ Leaf(l) /\ p \in Above(l)
        /\ \A q \in Above(l) : p \in Within[q] => history[q] = ChildOf(q, l)
    BY <1>3 DEF HistoryInv
  <2>2. history[l] = NoState BY <2>1 DEF HistoryInv
  <2> HIDE DEF l
  <2>3. {x \in down[p] \ {NoState} : history[x] = NoState} = {l}
    BY <1>1, <2>1, <2>2, WayEnds
  <2> QED BY <1>1, <1>3, <2>3 DEF l
<1> QED BY <1>2, <1>3

\* The recorded history leads back to the leaf a composite state was last left
\* with, for any chart, however deep, whose external rows lead to leaves:
\* record_ancestor_history writes the whole way down, and nothing under a
\* state is written while the machine is elsewhere.
THEOREM HistoryCorrect == Leaves => (Spec => []HistoryLeadsBack)
<1> SUFFICES ASSUME Leaves PROVE Spec => []HistoryLeadsBack OBVIOUS
<1> DEFINE IInv == HistoryInv /\ Leaf(state)
<1>1. Init => IInv
  BY FreshHistory, FsmCoreAssumption DEF Init, Fresh, Leaf, Leaves
<1>2. TypeOK /\ IInv /\ [Next]_vars => IInv' BY HistoryStep, FsmCoreAssumption
<1>3. TypeOK /\ IInv => HistoryLeadsBack BY LeadsBack, FsmCoreAssumption
<1> QED BY <1>1, <1>2, <1>3, TypeCorrect, PTL DEF Spec

-----------------------------------------------------------------------------
(* Every call returns.                                                     *)

LEMMA RemainingStep ==
  ASSUME Assumptions, TypeOK, Next, ~Idle
  PROVE  Remaining' < Remaining
<1> DEFINE Late == CASE phase = "idle" -> 0 [] phase = "step" -> 2 [] phase = "tick" -> 3
           Queue == Len(deferred) + One(replaying)
<1>1. IsFiniteSet(pending)
  <2>1. IsFiniteSet(1 .. Len(Rows)) BY FS_Interval DEF Assumptions
  <2>2. pending \subseteq 1 .. Len(Rows) BY DEF TypeOK, TimedRows, Assumptions
  <2> QED BY <2>1, <2>2, FS_Subset
<1>2. Cardinality(pending) \in Nat BY <1>1, FS_CardinalityType
<1>3. Queue \in Nat BY DEF TypeOK, One
<1>4. Remaining = Queue + 3 * Cardinality(pending) + Late BY DEF Remaining, One
<1>5. Remaining' = Queue' + 3 * Cardinality(pending)' + Late' BY DEF Remaining, One
<1>6. Late \in 0 .. 3 BY DEF TypeOK
<1>7. CASE Replay
  <2>1. Queue' < Queue /\ Queue' \in Nat BY <1>7, ReplayFacts DEF Delivers, One
  <2>2. pending' = pending /\ Late' = Late BY <1>7 DEF Replay, callVars
  <2> HIDE DEF Queue, Late
  <2> QED BY <1>2, <1>3, <1>4, <1>5, <1>6, <2>1, <2>2
<1>8. CASE Fire
  <2>1. Queue' <= Queue + 1 /\ Queue' \in Nat
    BY <1>8, FireFacts DEF Delivering, Delivers, One
  <2>2. Late' = Late BY <1>8 DEF Fire
  <2>3. Cardinality(pending') = Cardinality(pending) - 1
    BY <1>1, <1>8, FireFacts, FS_RemoveElement
  <2> HIDE DEF Queue, Late
  <2> QED BY <1>2, <1>3, <1>4, <1>5, <1>6, <2>1, <2>2, <2>3
<1>9. CASE TickReturn
  <2>1. Queue' = Queue BY <1>9 DEF TickReturn
  <2>2. Late = 3 /\ Late' \in 0 .. 2 BY <1>9 DEF TickReturn, Ticking
  <2>3. Cardinality(pending') = 0 BY <1>9, FS_EmptySet DEF TickReturn
  <2> HIDE DEF Queue, Late
  <2> QED BY <1>2, <1>3, <1>4, <1>5, <2>1, <2>2, <2>3
<1>10. CASE StepAfterTick
  <2>1. Queue' <= Queue + 1 /\ Queue' \in Nat
    BY <1>10, StepBodyFacts DEF StepAfterTick, Delivers, One
  <2>2. Late = 2 /\ Late' = 0 /\ pending' = pending BY <1>10 DEF StepAfterTick
  <2> HIDE DEF Queue, Late
  <2> QED BY <1>2, <1>3, <1>4, <1>5, <2>1, <2>2
<1>11. ~Call
  BY DEF Call, Idle, Dispatch, DeferEvent, Step, Tick, SetTimerDuration, Reset,
         ProcessDeferred, ClearDeferred, ClearHistory, CheckInvariants
<1> QED BY <1>7, <1>8, <1>9, <1>10, <1>11 DEF Next, Continue

\* Every step of a call leaves less for it to do, for any chart, table and
\* capacity, also when firing a timer defers its event: dispatch(), step(),
\* tick() and process_deferred_queue() return.
THEOREM ReturnsCorrect == Spec => RunToCompletion
<1>1. TypeOK /\ [Next]_vars => [~Idle => Remaining' < Remaining]_vars
  BY RemainingStep, FsmCoreAssumption
<1> QED BY <1>1, TypeCorrect, PTL DEF Spec, RunToCompletion
-----------------------------------------------------------------------------
(* The chart.                                                              *)

\* What a function g leads to from each state, as long as it leads on: the
\* states that every set closed under g contains are a solution.
Ways(up, S, D, g) == up = [s \in S |-> {s} \cup IF s \in D THEN up[g[s]] ELSE {}]

LEMMA WaysExist ==
  ASSUME NEW S, NEW D, NEW g, \A s \in S : s \in D => g[s] \in S
  PROVE  \E up : Ways(up, S, D, g)
<1> DEFINE Closed(Z) == \A z \in Z : z \in D => g[z] \in Z
           Least(s) == {x \in S : \A Z \in SUBSET S : s \in Z /\ Closed(Z) => x \in Z}
           up == [s \in S |-> Least(s)]
<1>1. ASSUME NEW s \in S PROVE Least(s) = {s} \cup IF s \in D THEN Least(g[s]) ELSE {}
  <2>1. s \in Least(s) OBVIOUS
  <2>2. CASE s \notin D
    <3>1. {s} \in SUBSET S /\ Closed({s}) BY <2>2
    <3>2. \A x \in Least(s) : x \in {s} BY <3>1
    <3> QED BY <2>1, <2>2, <3>2
  <2>3. CASE s \in D
    <3> DEFINE h == g[s]
    <3>1. h \in S /\ h \in Least(h) BY <2>3
    <3>2. Least(h) \subseteq Least(s)
      <4> SUFFICES ASSUME NEW x \in Least(h), NEW Z \in SUBSET S, s \in Z, Closed(Z) PROVE x \in Z
        OBVIOUS
      <4>1. h \in Z BY <2>3
      <4> QED BY <4>1
    <3>3. {s} \cup Least(h) \in SUBSET S OBVIOUS
    <3>4. Closed({s} \cup Least(h))
      <4> SUFFICES ASSUME NEW z \in Least(h), z \in D PROVE g[z] \in Least(h) BY <3>1
      <4>1. g[z] \in S OBVIOUS
      <4>2. ASSUME NEW Z \in SUBSET S, h \in Z, Closed(Z) PROVE g[z] \in Z
        <5>1. z \in Z BY <4>2
        <5> QED BY <4>2, <5>1
      <4> QED BY <4>1, <4>2
    <3>5. \A x \in Least(s) : x \in {s} \cup Least(h) BY <3>3, <3>4
    <3> QED BY <2>1, <2>3, <3>2, <3>5
  <2> QED BY <2>2, <2>3
<1> HIDE DEF Least
<1>2. \A s \in S : up[s] = {s} \cup IF s \in D THEN up[g[s]] ELSE {} BY <1>1
<1>3. Ways(up, S, D, g) BY <1>2 DEF Ways
<1> QED BY <1>3

LEMMA AroundFacts ==
  ASSUME ChartAssumptions
  PROVE  \A s \in States :
           Within[s] = {s} \cup IF s \in DOMAIN Parent THEN Within[Parent[s]] ELSE {}
<1>1. \A s \in States : s \in DOMAIN Parent => Parent[s] \in States BY DEF ChartAssumptions
<1>2. \E up : Ways(up, States, DOMAIN Parent, Parent) BY <1>1, WaysExist
<1>3. States = Range(StateOrder) BY DEF ChartAssumptions
<1>4. Around = CHOOSE up : Ways(up, States, DOMAIN Parent, Parent) BY <1>3 DEF Around, Ways
<1>5. Ways(Around, States, DOMAIN Parent, Parent) BY <1>2, <1>4
<1>6. Within = Around BY DEF ChartAssumptions
<1> QED BY <1>5, <1>6 DEF Ways

LEMMA ParentFacts ==
  ASSUME Assumptions, ChartAssumptions, NEW s \in DOMAIN Parent
  PROVE  /\ s \in States /\ Parent[s] \in States /\ Parent[s] \in Composite
         /\ Above(s) = Within[Parent[s]] /\ s \notin Within[Parent[s]]
         /\ Cardinality(Within[s]) \in Nat /\ Cardinality(Within[Parent[s]]) \in Nat
         /\ Cardinality(Within[Parent[s]]) < Cardinality(Within[s])
<1> DEFINE p == Parent[s]
<1>1. s \in States /\ p \in States /\ p # s /\ p \in Composite BY DEF ChartAssumptions
<1>2. Within[s] = {s} \cup Within[p] BY <1>1, AroundFacts
<1>3. p \in Within[p] /\ Within[s] \subseteq States BY <1>1 DEF Assumptions
<1>4. p \in Above(s) BY <1>1, <1>2, <1>3 DEF Above
<1>5. Within[p] \subseteq Above(s) BY <1>1, <1>4 DEF Assumptions
<1>6. s \notin Within[p] BY <1>5 DEF Above
<1>7. Above(s) = Within[p] BY <1>2, <1>6 DEF Above
<1>8. IsFiniteSet(Within[s]) /\ Cardinality(Within[s]) \in Nat
  BY <1>3, FS_Subset, FS_CardinalityType DEF Assumptions
<1>9. s \in Within[s] /\ Within[p] = Within[s] \ {s} BY <1>2, <1>6
<1>10. Cardinality(Within[p]) = Cardinality(Within[s]) - 1 BY <1>8, <1>9, FS_RemoveElement
<1>11. Cardinality(Within[p]) \in Nat BY <1>8, <1>9, FS_RemoveElement, FS_CardinalityType
<1> QED BY <1>1, <1>6, <1>7, <1>8, <1>10, <1>11

\* The leaves are the states without substates.
LEMMA ChartLeaf ==
  ASSUME Assumptions, ChartAssumptions, NEW s \in States
  PROVE  Leaf(s) <=> s \notin Composite
<1>1. ASSUME s \in Composite PROVE ~Leaf(s)
  <2>1. PICK c \in DOMAIN Parent : Parent[c] = s BY <1>1 DEF ChartAssumptions
  <2>2. c \in States /\ s \in Above(c)
    BY <2>1, ParentFacts DEF Assumptions
  <2> QED BY <2>2 DEF Above, Leaf
<1>2. ASSUME s \notin Composite PROVE Leaf(s)
  <2> DEFINE Bad == {q \in States : s \in Within[q] /\ q # s}
             size(q) == Cardinality(Within[q])
  <2> SUFFICES ASSUME Bad # {} PROVE FALSE BY DEF Leaf
  <2>1. \A q \in Bad : q \in DOMAIN Parent /\ s \in Within[Parent[q]]
    BY AroundFacts
  <2>2. {size(q) : q \in Bad} \in SUBSET Nat BY <2>1, ParentFacts
  <2>a. {size(q) : q \in Bad} \in SUBSET Nat /\ {size(q) : q \in Bad} # {} BY <2>2
  <2>b. \E n \in {size(q) : q \in Bad} : \A k \in {size(q) : q \in Bad} : n <= k
    <3> DEFINE N == {size(q) : q \in Bad}
    <3> HIDE DEF N
    <3> SUFFICES ASSUME N \in SUBSET Nat, N # {} PROVE \E n \in N : \A k \in N : n <= k
      BY <2>a DEF N
    <3> QED BY MinFacts
  <2>3. PICK q \in Bad : \A r \in Bad : size(q) <= size(r) BY <2>b
  <2>4. Parent[q] \in Composite /\ Parent[q] \in States /\ size(Parent[q]) < size(q)
        /\ size(Parent[q]) \in Nat /\ size(q) \in Nat
    BY <2>1, ParentFacts
  <2>5. Parent[q] \in Bad BY <1>2, <2>1, <2>4
  <2>6. size(q) <= size(Parent[q]) BY <2>3, <2>5
  <2> HIDE DEF size
  <2> QED BY <2>4, <2>6
<1> QED BY <1>1, <1>2

Descends(leaf) ==
  leaf = [s \in States |-> IF s \in Composite THEN leaf[InitialSub[s]] ELSE s]

LEMMA DescentExists ==
  ASSUME ChartAssumptions
  PROVE  \E leaf : Descends(leaf)
<1>1. \A s \in States : s \in Composite => InitialSub[s] \in States BY DEF ChartAssumptions
<1>2. PICK down : Ways(down, States, Composite, InitialSub) BY <1>1, WaysExist
<1>3. \A s \in States : down[s] = {s} \cup IF s \in Composite THEN down[InitialSub[s]] ELSE {}
  BY <1>2 DEF Ways
<1> DEFINE end(s) == CHOOSE x \in down[s] \ Composite : TRUE
           leaf == [s \in States |-> end(s)]
<1>4. ASSUME NEW s \in States PROVE end(s) = IF s \in Composite THEN end(InitialSub[s]) ELSE s
  <2>1. CASE s \in Composite
    <3>1. down[s] \ Composite = down[InitialSub[s]] \ Composite BY <1>3, <2>1
    <3> QED BY <2>1, <3>1
  <2>2. CASE s \notin Composite
    <3>1. down[s] \ Composite = {s} BY <1>3, <2>2
    <3> QED BY <2>2, <3>1
  <2> QED BY <2>1, <2>2
<1> HIDE DEF end
<1>5. \A s \in States : leaf[s] = IF s \in Composite THEN leaf[InitialSub[s]] ELSE s
  BY <1>1, <1>4
<1> QED BY <1>5 DEF Descends

\* The way down along the initial substates ends in a leaf.
LEMMA InitialLeafFacts ==
  ASSUME Assumptions, ChartAssumptions, NEW s \in States
  PROVE  /\ InitialLeaf[s] \in States /\ InitialLeaf[s] \notin Composite
         /\ s \notin Composite => InitialLeaf[s] = s
<1>1. States = Range(StateOrder) BY DEF ChartAssumptions
<1>2. InitialLeaf = CHOOSE leaf : Descends(leaf) BY <1>1 DEF InitialLeaf, Descends
<1>3. Descends(InitialLeaf) BY <1>2, DescentExists
<1>4. \A q \in States : InitialLeaf[q] = IF q \in Composite THEN InitialLeaf[InitialSub[q]] ELSE q
  BY <1>3 DEF Descends
<1> DEFINE Good(q) == InitialLeaf[q] \in States /\ InitialLeaf[q] \notin Composite
           Bad == {q \in States : ~Good(q)}
           left(q) == Cardinality(States) - Cardinality(Within[q])
<1>5. \A q \in States : q \in Composite =>
        InitialSub[q] \in States /\ InitialSub[q] \in DOMAIN Parent /\ Parent[InitialSub[q]] = q
  BY DEF ChartAssumptions
<1>6. \A q \in States : left(q) \in Nat
  <2> TAKE q \in States
  <2>1. Within[q] \subseteq States /\ IsFiniteSet(States) BY DEF Assumptions
  <2>2. /\ Cardinality(Within[q]) \in Nat /\ Cardinality(States) \in Nat
        /\ Cardinality(Within[q]) <= Cardinality(States)
    BY <2>1, FS_Subset, FS_CardinalityType
  <2> QED BY <2>2
<1>7. Bad = {}
  <2> SUFFICES ASSUME Bad # {} PROVE FALSE OBVIOUS
  <2>1. {left(q) : q \in Bad} \in SUBSET Nat BY <1>6
  <2>a. {left(q) : q \in Bad} \in SUBSET Nat /\ {left(q) : q \in Bad} # {} BY <2>1
  <2>b. \E n \in {left(q) : q \in Bad} : \A k \in {left(q) : q \in Bad} : n <= k
    <3> DEFINE N == {left(q) : q \in Bad}
    <3> HIDE DEF N
    <3> SUFFICES ASSUME N \in SUBSET Nat, N # {} PROVE \E n \in N : \A k \in N : n <= k
      BY <2>a DEF N
    <3> QED BY MinFacts
  <2>2. PICK q \in Bad : \A r \in Bad : left(q) <= left(r) BY <2>b
  <2>3. q \in Composite BY <1>4
  <2>4. ~Good(InitialSub[q]) BY <1>4, <2>3
  <2>5. InitialSub[q] \in Bad BY <1>5, <2>3, <2>4
  <2>6. left(InitialSub[q]) < left(q)
    <3>1. /\ Cardinality(Within[q]) < Cardinality(Within[InitialSub[q]])
          /\ Cardinality(Within[q]) \in Nat /\ Cardinality(Within[InitialSub[q]]) \in Nat
      BY <1>5, <2>3, ParentFacts
    <3>2. Cardinality(States) \in Nat BY FS_CardinalityType DEF Assumptions
    <3> QED BY <3>1, <3>2
  <2>7. left(q) <= left(InitialSub[q]) /\ left(q) \in Nat /\ left(InitialSub[q]) \in Nat
    BY <1>6, <2>2, <2>5
  <2> HIDE DEF left
  <2> QED BY <2>6, <2>7
<1> QED BY <1>4, <1>7

\* Induction on the naturals, for sets.
LEMMA NatSet ==
  ASSUME NEW T \in SUBSET Nat, 0 \in T, \A k \in T : k + 1 \in T
  PROVE  T = Nat
<1> SUFFICES ASSUME Nat \ T # {} PROVE FALSE OBVIOUS
<1>1. PICK m \in Nat \ T : \A k \in Nat \ T : m <= k BY MinFacts
<1>2. m # 0 /\ m - 1 \in Nat /\ (m - 1) + 1 = m BY <1>1
<1>3. m - 1 \in T BY <1>1, <1>2
<1> QED BY <1>1, <1>2, <1>3

\* A function defined by recursion on 0 .. n exists.
Recurs(f, S, z, g, n) ==
  f \in [0 .. n -> S] /\ f[0] = z /\ \A k \in 1 .. n : f[k] = g[k][f[k - 1]]

LEMMA Recursion ==
  ASSUME NEW S, NEW z, z \in S, NEW g, g \in [Nat -> [S -> S]], NEW n, n \in Nat
  PROVE  \E f : Recurs(f, S, z, g, n)
<1> DEFINE Ok(m, f) == f \in [0 .. m -> S] /\ f[0] = z /\ \A k \in 1 .. m : f[k] = g[k][f[k - 1]]
           T == {m \in Nat : \E f : Ok(m, f)}
<1>1. 0 \in T
  <2>1. Ok(0, [k \in 0 .. 0 |-> z]) OBVIOUS
  <2> QED BY <2>1
<1>2. ASSUME NEW m \in T PROVE m + 1 \in T
  <2>1. m \in Nat OBVIOUS
  <2>2. PICK f : Ok(m, f) OBVIOUS
  <2> DEFINE e == [k \in 0 .. m + 1 |-> IF k = m + 1 THEN g[m + 1][f[m]] ELSE f[k]]
  <2>3. e \in [0 .. m + 1 -> S] /\ e[0] = z BY <2>1, <2>2
  <2>4. ASSUME NEW k \in 1 .. m + 1 PROVE e[k] = g[k][e[k - 1]]
    <3>1. k - 1 \in 0 .. m /\ k \in 0 .. m + 1 /\ k - 1 \in 0 .. m + 1 /\ k - 1 # m + 1 BY <2>1
    <3>2. e[k - 1] = f[k - 1] BY <3>1
    <3>3. CASE k = m + 1
      <4>1. e[k] = g[m + 1][f[m]] /\ k - 1 = m BY <2>1, <3>1, <3>3
      <4> QED BY <3>2, <3>3, <4>1
    <3>4. CASE k # m + 1
      <4>1. e[k] = f[k] /\ k \in 1 .. m BY <2>1, <3>1, <3>4
      <4>2. f[k] = g[k][f[k - 1]] BY <2>2, <4>1
      <4> QED BY <3>2, <4>1, <4>2
    <3> QED BY <3>3, <3>4
  <2> HIDE DEF e
  <2>5. Ok(m + 1, e) BY <2>3, <2>4
  <2> QED BY <2>1, <2>5
<1> HIDE DEF T
<1>3. T = Nat BY <1>1, <1>2, NatSet DEF T
<1>4. n \in T BY <1>3
<1> QED BY <1>4 DEF T, Recurs

\* What holds at the start and stays from one value to the next holds of all.
\* In a strict total order of 1 .. n, every place is taken; B[i] is what comes
\* before i.
LEMMA Ranks ==
  ASSUME NEW n \in Nat, NEW B \in [1 .. n -> SUBSET (1 .. n)],
         \A i \in 1 .. n : i \notin B[i],
         \A i, j, k \in 1 .. n : i \in B[j] /\ j \in B[k] => i \in B[k],
         \A i, j \in 1 .. n : i # j => i \in B[j] \/ j \in B[i]
  PROVE  /\ \A i \in 1 .. n : Cardinality(B[i]) \in 0 .. n - 1
         /\ \A i, j \in 1 .. n : i \in B[j] => Cardinality(B[i]) < Cardinality(B[j])
         /\ \A k \in 0 .. n - 1 : \E i \in 1 .. n : Cardinality(B[i]) = k
<1> DEFINE rank == [i \in 1 .. n |-> Cardinality(B[i])]
<1>1. IsFiniteSet(1 .. n) /\ Cardinality(1 .. n) = n BY FS_Interval
<1>2. IsFiniteSet(0 .. n - 1) /\ Cardinality(0 .. n - 1) = n
  <2>1. 0 \in Int /\ n - 1 \in Int /\ (0 > n - 1 <=> n = 0) /\ (n - 1) - 0 + 1 = n OBVIOUS
  <2> DEFINE m == n - 1
  <2> HIDE DEF m
  <2>2. m \in Int /\ (0 > m <=> n = 0) /\ m - 0 + 1 = n BY <2>1 DEF m
  <2>3. IsFiniteSet(0 .. m) /\ Cardinality(0 .. m) = IF 0 > m THEN 0 ELSE m - 0 + 1
    BY <2>2, FS_Interval
  <2> QED BY <2>2, <2>3 DEF m
<1>3. \A i \in 1 .. n : IsFiniteSet(B[i]) /\ Cardinality(B[i]) \in Nat
  BY <1>1, FS_Subset, FS_CardinalityType
<1>4. ASSUME NEW i \in 1 .. n PROVE rank[i] \in 0 .. n - 1
  <2>1. B[i] \subseteq (1 .. n) \ {i} OBVIOUS
  <2>2. IsFiniteSet((1 .. n) \ {i}) /\ Cardinality((1 .. n) \ {i}) = n - 1 BY <1>1, FS_RemoveElement
  <2>3. Cardinality(B[i]) <= n - 1 BY <2>1, <2>2, FS_Subset
  <2> QED BY <1>3, <2>3
<1>5. ASSUME NEW i \in 1 .. n, NEW j \in 1 .. n, i \in B[j] PROVE rank[i] < rank[j]
  <2>1. B[i] \cup {i} \subseteq B[j] /\ i \notin B[i] BY <1>5
  <2>2. Cardinality(B[i] \cup {i}) = Cardinality(B[i]) + 1 BY <1>3, <2>1, FS_AddElement
  <2>3. Cardinality(B[i] \cup {i}) <= Cardinality(B[j]) BY <1>3, <2>1, FS_Subset
  <2> QED BY <1>3, <2>2, <2>3
<1>6. rank \in [1 .. n -> 0 .. n - 1] BY <1>4
<1>7. \A i, j \in 1 .. n : rank[i] = rank[j] => i = j
  <2> SUFFICES ASSUME NEW i \in 1 .. n, NEW j \in 1 .. n, rank[i] = rank[j], i # j PROVE FALSE
    OBVIOUS
  <2>1. rank[i] < rank[j] \/ rank[j] < rank[i] BY <1>5
  <2>2. rank[i] \in Nat /\ rank[j] \in Nat BY <1>3
  <2> HIDE DEF rank
  <2> QED BY <2>1, <2>2
<1>8. \A i \in 1 .. n : rank[i] = Cardinality(B[i]) OBVIOUS
<1> HIDE DEF rank
<1>9. rank \in Injection(1 .. n, 0 .. n - 1) BY <1>6, <1>7 DEF Injection, IsInjective
<1>10. rank \in Surjection(1 .. n, 0 .. n - 1) BY <1>1, <1>2, <1>9, FS_Injection
<1>11. \A k \in 0 .. n - 1 : \E i \in 1 .. n : rank[i] = k BY <1>10 DEF Surjection
<1>12. \A i \in 1 .. n : Cardinality(B[i]) \in 0 .. n - 1 BY <1>4, <1>8
<1>13. \A i, j \in 1 .. n : i \in B[j] => Cardinality(B[i]) < Cardinality(B[j]) BY <1>5, <1>8
<1>14. \A k \in 0 .. n - 1 : \E i \in 1 .. n : Cardinality(B[i]) = k BY <1>8, <1>11
<1> QED BY <1>12, <1>13, <1>14


\* The first element of q in the set G, and that there is none.
FirstOf(q, G, x) == x \in G /\ \E i \in DOMAIN q : q[i] = x /\ \A j \in DOMAIN q : j < i => q[j] \notin G
NoneOf(q, G)     == \A i \in DOMAIN q : q[i] \notin G

LEMMA FirstConcat ==
  ASSUME NEW D, NEW q \in Seq(D), NEW r \in Seq(D), NEW G
  PROVE  /\ \A x : FirstOf(q \o r, G, x) => FirstOf(q, G, x) \/ (NoneOf(q, G) /\ FirstOf(r, G, x))
         /\ NoneOf(q \o r, G) => NoneOf(q, G) /\ NoneOf(r, G)
<1> DEFINE c == q \o r
<1>1. /\ c \in Seq(D) /\ Len(q) \in Nat /\ Len(r) \in Nat /\ Len(c) = Len(q) + Len(r)
      /\ DOMAIN q = 1 .. Len(q) /\ DOMAIN r = 1 .. Len(r) /\ DOMAIN c = 1 .. Len(c)
  BY ConcatProperties
<1>2. \A i \in DOMAIN q : i \in DOMAIN c /\ c[i] = q[i] BY <1>1, ConcatProperties
<1>3. \A i \in DOMAIN r : i + Len(q) \in DOMAIN c /\ c[i + Len(q)] = r[i]
  <2> TAKE i \in DOMAIN r
  <2>1. i + Len(q) \in 1 .. Len(c) /\ i + Len(q) > Len(q) /\ (i + Len(q)) - Len(q) = i BY <1>1
  <2> QED BY <1>1, <2>1, ConcatProperties
<1>4. \A i \in DOMAIN c : i \in DOMAIN q \/ \E j \in DOMAIN r : i = j + Len(q)
  <2> TAKE i \in DOMAIN c
  <2>1. CASE i <= Len(q) BY <1>1, <2>1
  <2>2. CASE i > Len(q)
    <3>1. i - Len(q) \in DOMAIN r /\ i = (i - Len(q)) + Len(q) BY <1>1, <2>2
    <3> QED BY <3>1
  <2> QED BY <1>1, <2>1, <2>2
<1> HIDE DEF c
<1>5. NoneOf(c, G) => NoneOf(q, G) /\ NoneOf(r, G)
  <2> SUFFICES ASSUME NoneOf(c, G) PROVE NoneOf(q, G) /\ NoneOf(r, G) OBVIOUS
  <2>1. \A i \in DOMAIN q : q[i] \notin G BY <1>2 DEF NoneOf
  <2>2. \A i \in DOMAIN r : r[i] \notin G BY <1>3 DEF NoneOf
  <2> QED BY <2>1, <2>2 DEF NoneOf
<1>6. ASSUME NEW x, FirstOf(c, G, x)
      PROVE  FirstOf(q, G, x) \/ (NoneOf(q, G) /\ FirstOf(r, G, x))
  <2>1. PICK i \in DOMAIN c : c[i] = x /\ \A j \in DOMAIN c : j < i => c[j] \notin G
    BY <1>6 DEF FirstOf
  <2>2. x \in G BY <1>6 DEF FirstOf
  <2>3. CASE i \in DOMAIN q
    <3>1. q[i] = x /\ \A j \in DOMAIN q : j < i => q[j] \notin G BY <1>2, <2>1, <2>3
    <3> QED BY <2>2, <2>3, <3>1 DEF FirstOf
  <2>4. CASE i \notin DOMAIN q
    <3>1. PICK k \in DOMAIN r : i = k + Len(q) BY <1>4, <2>4
    <3>2. r[k] = x BY <1>3, <2>1, <3>1
    <3>3. ASSUME NEW j \in DOMAIN r, j < k PROVE r[j] \notin G
      <4>1. j + Len(q) < i BY <1>1, <3>1, <3>3
      <4> QED BY <1>3, <2>1, <4>1
    <3>4. ASSUME NEW j \in DOMAIN q PROVE q[j] \notin G
      <4>1. j < i BY <1>1, <3>1
      <4> QED BY <1>2, <2>1, <4>1
    <3> QED BY <2>2, <3>2, <3>3, <3>4 DEF FirstOf, NoneOf
  <2> QED BY <2>3, <2>4
<1> QED BY <1>5, <1>6 DEF c

\* When sequences are appended one after the other, the first element of G is
\* the first one of the first sequence that has any.
LEMMA FirstOfMany ==
  ASSUME NEW D, NEW n \in Nat, NEW B, \A k \in 1 .. n : B[k] \in Seq(D),
         NEW F, F[0] = << >>, \A k \in 1 .. n : F[k] = F[k - 1] \o B[k], NEW G
  PROVE  /\ F[n] \in Seq(D)
         /\ \A x : FirstOf(F[n], G, x) =>
              \E k \in 1 .. n : FirstOf(B[k], G, x) /\ \A j \in 1 .. n : j < k => NoneOf(B[j], G)
         /\ NoneOf(F[n], G) => \A k \in 1 .. n : NoneOf(B[k], G)
<1> DEFINE First(m) == \A x : FirstOf(F[m], G, x) =>
                         \E k \in 1 .. m : FirstOf(B[k], G, x) /\ \A j \in 1 .. m : j < k => NoneOf(B[j], G)
           None(m) == NoneOf(F[m], G) => \A k \in 1 .. m : NoneOf(B[k], G)
           T == {m \in Nat : m <= n => F[m] \in Seq(D) /\ First(m) /\ None(m)}
<1>1. 0 \in T
  <2>1. F[0] \in Seq(D) /\ DOMAIN F[0] = {} OBVIOUS
  <2>2. First(0) BY <2>1 DEF FirstOf
  <2>3. None(0) OBVIOUS
  <2> QED BY <2>1, <2>2, <2>3
<1>2. ASSUME NEW m \in T PROVE m + 1 \in T
  <2>1. SUFFICES ASSUME m + 1 <= n PROVE F[m + 1] \in Seq(D) /\ First(m + 1) /\ None(m + 1)
    OBVIOUS
  <2>2. m \in Nat /\ m + 1 \in 1 .. n /\ (m + 1) - 1 = m BY <2>1
  <2>3. F[m] \in Seq(D) /\ First(m) /\ None(m) BY <2>1, <2>2
  <2>4. F[m + 1] = F[m] \o B[m + 1] /\ B[m + 1] \in Seq(D) BY <2>2
  <2>5. F[m + 1] \in Seq(D) BY <2>3, <2>4, ConcatProperties
  <2>6. /\ \A x : FirstOf(F[m + 1], G, x) =>
             FirstOf(F[m], G, x) \/ (NoneOf(F[m], G) /\ FirstOf(B[m + 1], G, x))
        /\ NoneOf(F[m + 1], G) => NoneOf(F[m], G) /\ NoneOf(B[m + 1], G)
    BY <2>3, <2>4, FirstConcat
  <2>7. None(m + 1)
    <3>1. \A k \in 1 .. m + 1 : k \in 1 .. m \/ k = m + 1 BY <2>2
    <3> QED BY <2>3, <2>6, <3>1
  <2>8. First(m + 1)
    <3> SUFFICES ASSUME NEW x, FirstOf(F[m + 1], G, x)
                 PROVE  \E k \in 1 .. m + 1 : /\ FirstOf(B[k], G, x)
                                              /\ \A j \in 1 .. m + 1 : j < k => NoneOf(B[j], G)
      OBVIOUS
    <3>1. CASE FirstOf(F[m], G, x)
      <4>1. PICK k \in 1 .. m : FirstOf(B[k], G, x) /\ \A j \in 1 .. m : j < k => NoneOf(B[j], G)
        BY <2>3, <3>1
      <4>2. k \in 1 .. m + 1 /\ \A j \in 1 .. m + 1 : j < k => j \in 1 .. m BY <2>2
      <4> QED BY <4>1, <4>2
    <3>2. CASE NoneOf(F[m], G) /\ FirstOf(B[m + 1], G, x)
      <4>1. \A k \in 1 .. m : NoneOf(B[k], G) BY <2>3, <3>2
      <4>2. m + 1 \in 1 .. m + 1 /\ \A j \in 1 .. m + 1 : j < m + 1 => j \in 1 .. m BY <2>2
      <4> QED BY <3>2, <4>1, <4>2
    <3> QED BY <2>6, <3>1, <3>2
  <2> QED BY <2>5, <2>7, <2>8
<1> HIDE DEF T
<1>3. T = Nat BY <1>1, <1>2, NatSet DEF T
<1>4. n \in T BY <1>3
<1>5. F[n] \in Seq(D) /\ First(n) /\ None(n) BY <1>4 DEF T
<1> QED BY <1>5

-----------------------------------------------------------------------------
(* The emitted table.                                                      *)

LEMMA TransitionType ==
  ASSUME ChartAssumptions, NEW k \in 1 .. Len(Transitions)
  PROVE  /\ Transitions[k].src \in States /\ Transitions[k].dst \in States
         /\ Transitions[k].flag \in BOOLEAN /\ Transitions[k].priority \in Nat
         /\ Transitions[k].kind \in {"external", "internal", "local"}
<1> DEFINE T == [src : States, dst : States, evt : Events \cup TimedEvents \cup {Anonymous},
                 kind : {"external", "internal", "local"}, flag : BOOLEAN, priority : Nat]
<1>1. Transitions \in Seq(T) BY DEF ChartAssumptions
<1> HIDE DEF T
<1>2. Transitions[k] \in T BY <1>1, ElementOfSeq
<1> QED BY <1>2 DEF T

\* The order of the transitions is strict and total, and sorting lists all of
\* them by it.
LEMMA PrecedesFacts ==
  ASSUME ChartAssumptions
  PROVE  LET n == Len(Transitions) IN
         /\ \A i \in 1 .. n : ~Precedes(i, i)
         /\ \A i, j \in 1 .. n : Precedes(i, j) => ~Precedes(j, i)
         /\ \A i, j, k \in 1 .. n : Precedes(i, j) /\ Precedes(j, k) => Precedes(i, k)
         /\ \A i, j \in 1 .. n : i # j => Precedes(i, j) \/ Precedes(j, i)
<1>1. \A i \in 1 .. Len(Transitions) : Transitions[i].priority \in Nat BY TransitionType
<1>2. Len(Transitions) \in Nat BY DEF ChartAssumptions
<1> QED BY <1>1, <1>2 DEF Precedes

LEMMA OrderFacts ==
  ASSUME ChartAssumptions
  PROVE  LET n == Len(Transitions) IN
         /\ n \in Nat /\ DOMAIN Transitions = 1 .. n
         /\ \A k \in 1 .. n : Ordered[k] \in 1 .. n
         /\ \A i \in 1 .. n : \E k \in 1 .. n : Ordered[k] = i
         /\ \A j, k \in 1 .. n : j < k => Precedes(Ordered[j], Ordered[k])
<1> DEFINE n == Len(Transitions)
           B == [i \in 1 .. n |-> Ahead(i)]
<1>1. n \in Nat /\ DOMAIN Transitions = 1 .. n BY DEF ChartAssumptions
<1>2. /\ \A i \in 1 .. n : ~Precedes(i, i)
      /\ \A i, j \in 1 .. n : Precedes(i, j) => ~Precedes(j, i)
      /\ \A i, j, k \in 1 .. n : Precedes(i, j) /\ Precedes(j, k) => Precedes(i, k)
      /\ \A i, j \in 1 .. n : i # j => Precedes(i, j) \/ Precedes(j, i)
  BY PrecedesFacts
<1>3. \A i \in 1 .. n : Ordered[i] = CHOOSE k \in 1 .. n : Cardinality(Ahead(k)) = i - 1
  BY <1>1 DEF Ordered
<1> HIDE DEF n
<1>4. \A i, j \in 1 .. n : i \in B[j] <=> Precedes(i, j) BY <1>1 DEF Ahead
<1>5. B \in [1 .. n -> SUBSET (1 .. n)] BY <1>1 DEF Ahead
<1>6. \A i \in 1 .. n : B[i] = Ahead(i) OBVIOUS
<1> HIDE DEF B
<1>7. /\ \A i \in 1 .. n : i \notin B[i]
      /\ \A i, j, k \in 1 .. n : i \in B[j] /\ j \in B[k] => i \in B[k]
      /\ \A i, j \in 1 .. n : i # j => i \in B[j] \/ j \in B[i]
  BY <1>2, <1>4
<1>8. /\ \A i \in 1 .. n : Cardinality(B[i]) \in 0 .. n - 1
      /\ \A i, j \in 1 .. n : i \in B[j] => Cardinality(B[i]) < Cardinality(B[j])
      /\ \A k \in 0 .. n - 1 : \E i \in 1 .. n : Cardinality(B[i]) = k
  BY <1>1, <1>5, <1>7, Ranks
<1>9. ASSUME NEW k \in 1 .. n
      PROVE  Ordered[k] \in 1 .. n /\ Cardinality(Ahead(Ordered[k])) = k - 1
  <2>1. k - 1 \in 0 .. n - 1 BY <1>1
  <2>2. \E i \in 1 .. n : Cardinality(Ahead(i)) = k - 1 BY <1>6, <1>8, <2>1
  <2> QED BY <1>3, <2>2
<1>10. \A i \in 1 .. n : Cardinality(Ahead(i)) \in 0 .. n - 1 BY <1>6, <1>8
<1>11. \A i, j \in 1 .. n : Precedes(i, j) => Cardinality(Ahead(i)) < Cardinality(Ahead(j))
  BY <1>4, <1>6, <1>8
<1>12. ASSUME NEW i \in 1 .. n PROVE \E k \in 1 .. n : Ordered[k] = i
  <2> DEFINE c == Cardinality(Ahead(i))
  <2>1. c \in 0 .. n - 1 BY <1>10
  <2>2. c + 1 \in 1 .. n /\ (c + 1) - 1 = c BY <1>1, <2>1
  <2>3. Ordered[c + 1] \in 1 .. n /\ Cardinality(Ahead(Ordered[c + 1])) = c BY <1>9, <2>2
  <2>4. ~(c < c) BY <2>1
  <2>5. Ordered[c + 1] = i
    <3> SUFFICES ASSUME Ordered[c + 1] # i PROVE FALSE OBVIOUS
    <3>1. Precedes(Ordered[c + 1], i) \/ Precedes(i, Ordered[c + 1]) BY <1>2, <2>3
    <3> QED BY <1>11, <2>3, <2>4, <3>1
  <2> QED BY <2>2, <2>5
<1>13. ASSUME NEW j \in 1 .. n, NEW k \in 1 .. n, j < k
       PROVE  Precedes(Ordered[j], Ordered[k])
  <2>1. /\ Ordered[j] \in 1 .. n /\ Cardinality(Ahead(Ordered[j])) = j - 1
        /\ Ordered[k] \in 1 .. n /\ Cardinality(Ahead(Ordered[k])) = k - 1
    BY <1>9
  <2>2. j - 1 # k - 1 /\ ~(k - 1 < j - 1) BY <1>1, <1>13
  <2>3. Ordered[j] # Ordered[k] BY <2>1, <2>2
  <2> QED BY <1>2, <1>11, <2>1, <2>2, <2>3
<1> QED BY <1>1, <1>9, <1>12, <1>13 DEF n

\* What get_all_substates collects.
SubOf(p, s) == IF p \in Deep THEN s \notin Composite /\ p \in Around[s] \ {s}
                             ELSE s \in DOMAIN Parent /\ Parent[s] = p

Collects(subs, p) ==
  subs = [k \in 0 .. Len(StateOrder) |->
            IF k = 0 THEN << >>
            ELSE IF SubOf(p, StateOrder[k]) THEN Append(subs[k - 1], StateOrder[k]) ELSE subs[k - 1]]

LEMMA SubstatesFacts ==
  ASSUME ChartAssumptions, NEW p
  PROVE  /\ Substates(p) \in Seq(States)
         /\ \A s : (\E k \in DOMAIN Substates(p) : Substates(p)[k] = s) <=> s \in States /\ SubOf(p, s)
<1> DEFINE n == Len(StateOrder)
           S == Seq(States)
           z == << >>
           g == [k \in Nat |-> [x \in S |-> IF k \in 1 .. n
                                            THEN IF SubOf(p, StateOrder[k]) THEN Append(x, StateOrder[k]) ELSE x
                                            ELSE x]]
           subs == CHOOSE subs : Collects(subs, p)
<1>1. /\ n \in Nat /\ z \in S /\ DOMAIN StateOrder = 1 .. n
      /\ \A k \in 1 .. n : StateOrder[k] \in States
  BY DEF ChartAssumptions
<1>2. States = {StateOrder[k] : k \in 1 .. n} BY <1>1 DEF ChartAssumptions, Range
<1>3. Substates(p) = subs[n] BY DEF Substates, Collects, SubOf
<1>4. \A f : Collects(f, p) <=>
              f = [k \in 0 .. n |-> IF k = 0 THEN z
                                    ELSE IF SubOf(p, StateOrder[k]) THEN Append(f[k - 1], StateOrder[k])
                                    ELSE f[k - 1]]
  BY DEF Collects
<1>5. \A x \in S, s \in States : Append(x, s) \in S BY AppendProperties
<1> HIDE DEF S, z, n
<1>6. g \in [Nat -> [S -> S]] BY <1>1, <1>5
<1>7. \A x \in S : \A k \in 1 .. n :
        g[k][x] = IF SubOf(p, StateOrder[k]) THEN Append(x, StateOrder[k]) ELSE x
  BY <1>1
<1> HIDE DEF g
<1>8. PICK f : Recurs(f, S, z, g, n) BY <1>1, <1>6, Recursion
<1>9. f \in [0 .. n -> S] /\ f[0] = z /\ \A k \in 1 .. n : f[k] = g[k][f[k - 1]]
  BY <1>8 DEF Recurs
<1>10. Collects(f, p)
  <2> DEFINE e == [k \in 0 .. n |-> IF k = 0 THEN z
                                    ELSE IF SubOf(p, StateOrder[k]) THEN Append(f[k - 1], StateOrder[k])
                                    ELSE f[k - 1]]
  <2>1. ASSUME NEW k \in 0 .. n PROVE f[k] = e[k]
    <3>1. CASE k = 0 BY <1>9, <3>1
    <3>2. CASE k # 0
      <4>1. k \in 1 .. n /\ k - 1 \in 0 .. n BY <1>1, <3>2
      <4>2. f[k - 1] \in S BY <1>9, <4>1
      <4>3. f[k] = IF SubOf(p, StateOrder[k]) THEN Append(f[k - 1], StateOrder[k]) ELSE f[k - 1]
        BY <1>7, <1>9, <4>1, <4>2
      <4> QED BY <3>2, <4>3
    <3> QED BY <3>1, <3>2
  <2>2. f = e BY <1>9, <2>1
  <2> QED BY <1>4, <2>2
<1>11. Collects(subs, p) BY <1>10
<1> HIDE DEF subs
<1>12. subs = [k \in 0 .. n |-> IF k = 0 THEN z
                                ELSE IF SubOf(p, StateOrder[k]) THEN Append(subs[k - 1], StateOrder[k])
                                ELSE subs[k - 1]]
  BY <1>4, <1>11
<1> DEFINE Ok(k) == /\ subs[k] \in S
                    /\ \A s : (\E i \in DOMAIN subs[k] : subs[k][i] = s)
                                <=> \E i \in 1 .. k : StateOrder[i] = s /\ SubOf(p, s)
           T == {k \in Nat : k <= n => Ok(k)}
<1>13. 0 \in T
  <2>1. 0 \in 0 .. n BY <1>1
  <2>2. subs[0] = z BY <1>12, <2>1
  <2>3. DOMAIN z = {} BY DEF z
  <2> QED BY <1>1, <2>2, <2>3
<1>14. ASSUME NEW m \in T PROVE m + 1 \in T
  <2> SUFFICES ASSUME m + 1 <= n PROVE Ok(m + 1) OBVIOUS
  <2> DEFINE s == StateOrder[m + 1]
             q == subs[m]
             r == subs[m + 1]
  <2>1. m \in Nat /\ m + 1 \in 0 .. n /\ m + 1 \in 1 .. n /\ m + 1 # 0 /\ (m + 1) - 1 = m /\ m <= n
    BY <1>1
  <2>2. r = IF SubOf(p, s) THEN Append(q, s) ELSE q
    <3>1. \A k \in 0 .. n : k # 0 =>
            subs[k] = IF SubOf(p, StateOrder[k]) THEN Append(subs[k - 1], StateOrder[k])
                      ELSE subs[k - 1]
      BY <1>12
    <3>2. subs[m + 1] = IF SubOf(p, s) THEN Append(subs[(m + 1) - 1], s) ELSE subs[(m + 1) - 1]
      BY <2>1, <3>1
    <3> QED BY <2>1, <3>2
  <2>3. Ok(m) BY <2>1
  <2>4. q \in S /\ s \in States BY <1>1, <2>1, <2>3
  <2>5. \A i \in 1 .. m + 1 : i \in 1 .. m \/ i = m + 1 BY <2>1
  <2>6. \A i \in 1 .. m : i \in 1 .. m + 1 BY <2>1
  <2>7. CASE SubOf(p, s)
    <3>1. r = Append(q, s) /\ r \in S BY <1>5, <2>2, <2>4, <2>7
    <3>2. \A x : (\E i \in DOMAIN r : r[i] = x) <=> (\E i \in DOMAIN q : q[i] = x) \/ x = s
      <4> HIDE DEF q, r, s
      <4>1. /\ Len(q) \in Nat /\ DOMAIN q = 1 .. Len(q)
            /\ DOMAIN r = 1 .. Len(q) + 1 /\ r[Len(q) + 1] = s
            /\ \A i \in 1 .. Len(q) : r[i] = q[i]
        BY <2>4, <3>1, AppendProperties DEF S
      <4> QED BY <4>1
    <3>3. \A x : (\E i \in 1 .. m + 1 : StateOrder[i] = x /\ SubOf(p, x)) <=>
                   (\E i \in 1 .. m : StateOrder[i] = x /\ SubOf(p, x)) \/ x = s
      BY <2>1, <2>5, <2>6, <2>7
    <3> QED BY <2>3, <3>1, <3>2, <3>3
  <2>8. CASE ~SubOf(p, s)
    <3>1. \A x : (\E i \in 1 .. m + 1 : StateOrder[i] = x /\ SubOf(p, x)) <=>
                   (\E i \in 1 .. m : StateOrder[i] = x /\ SubOf(p, x))
      BY <2>1, <2>5, <2>6, <2>8
    <3>2. r = q BY <2>2, <2>8
    <3> QED BY <2>3, <3>1, <3>2
  <2> QED BY <2>7, <2>8
<1> HIDE DEF T
<1>15. T = Nat BY <1>13, <1>14, NatSet DEF T
<1>16. n \in T BY <1>1, <1>15
<1>17. Ok(n) BY <1>1, <1>16 DEF T
<1> QED BY <1>2, <1>3, <1>17 DEF S

\* The rows a transition can give, and those that history gives.
AllRows ==
  {Row(Transitions[k], d, b, h) : k \in 1 .. Len(Transitions), d \in States, b \in BOOLEAN,
                                  h \in {<< >>} \cup (States \X States)}

HistoryRows(t) == [k \in DOMAIN Substates(t.dst) |->
                     Row(t, Substates(t.dst)[k], FALSE, <<t.dst, Substates(t.dst)[k]>>)]
LastRow(t) == IF t.dst \in Composite THEN Row(t, InitialLeaf[t.dst], FALSE, << >>)
                                     ELSE Row(t, t.dst, t.kind = "internal", << >>)

LEMMA RowsOfCases ==
  ASSUME Assumptions, ChartAssumptions, NEW k \in 1 .. Len(Transitions)
  PROVE  LET t == Transitions[k] IN
         /\ HistoryRows(t) \in Seq(AllRows) /\ LastRow(t) \in AllRows
         /\ RowsOf(t) = IF t.dst \in Shallow \cup Deep THEN HistoryRows(t) \o <<LastRow(t)>>
                                                       ELSE <<LastRow(t)>>
         /\ RowsOf(t) \in Seq(AllRows)
<1> DEFINE t == Transitions[k]
           q == Substates(t.dst)
<1>1. t.dst \in States BY TransitionType
<1>2. q \in Seq(States) BY SubstatesFacts
<1>3. Shallow \cup Deep \subseteq Composite BY DEF ChartAssumptions
<1>4. \A d \in States, b \in BOOLEAN, h \in {<< >>} \cup (States \X States) : Row(t, d, b, h) \in AllRows
  BY DEF AllRows
<1>5. HistoryRows(t) = [i \in DOMAIN q |-> Row(t, q[i], FALSE, <<t.dst, q[i]>>)] BY DEF HistoryRows
<1>6. RowsOf(t) = IF t.dst \in Shallow \cup Deep THEN HistoryRows(t) \o <<LastRow(t)>> ELSE <<LastRow(t)>>
  BY <1>3 DEF RowsOf, HistoryRows, LastRow
<1>7. InitialLeaf[t.dst] \in States BY <1>1, InitialLeafFacts
<1> HIDE DEF t, q
<1>8. LastRow(t) \in AllRows BY <1>1, <1>4, <1>7 DEF LastRow
<1>9. HistoryRows(t) \in Seq(AllRows)
  <2>1. Len(q) \in Nat /\ DOMAIN q = 1 .. Len(q) /\ \A i \in 1 .. Len(q) : q[i] \in States
    BY <1>2, ElementOfSeq, LenProperties
  <2>2. \A i \in 1 .. Len(q) : Row(t, q[i], FALSE, <<t.dst, q[i]>>) \in AllRows BY <1>1, <1>4, <2>1
  <2>3. [i \in 1 .. Len(q) |-> Row(t, q[i], FALSE, <<t.dst, q[i]>>)] \in [1 .. Len(q) -> AllRows]
    BY <2>2
  <2>4. HistoryRows(t) \in [1 .. Len(q) -> AllRows] BY <1>5, <2>1, <2>3
  <2> QED BY <2>1, <2>4, SeqDef
<1>10. <<LastRow(t)>> \in Seq(AllRows) BY <1>8
<1>11. RowsOf(t) \in Seq(AllRows) BY <1>6, <1>9, <1>10, ConcatProperties
<1> QED BY <1>6, <1>8, <1>9, <1>11 DEF t

\* The last row of a transition is there whatever the history is.
LEMMA RowsOfFirst ==
  ASSUME Assumptions, ChartAssumptions, NEW k \in 1 .. Len(Transitions), NEW G
  PROVE  LET t == Transitions[k] IN
         /\ NoneOf(RowsOf(t), G) => LastRow(t) \notin G
         /\ t.dst \notin Shallow \cup Deep => \A x : FirstOf(RowsOf(t), G, x) => x = LastRow(t)
         /\ \A x : FirstOf(RowsOf(t), G, x) =>
              \/ x = LastRow(t) /\ (t.dst \in Shallow \cup Deep => NoneOf(HistoryRows(t), G))
              \/ /\ t.dst \in Shallow \cup Deep
                 /\ \E i \in DOMAIN Substates(t.dst) :
                      x = Row(t, Substates(t.dst)[i], FALSE, <<t.dst, Substates(t.dst)[i]>>)
<1> DEFINE t == Transitions[k]
<1> HIDE DEF t
<1>1. /\ HistoryRows(t) \in Seq(AllRows) /\ LastRow(t) \in AllRows
      /\ RowsOf(t) = IF t.dst \in Shallow \cup Deep THEN HistoryRows(t) \o <<LastRow(t)>>
                                                    ELSE <<LastRow(t)>>
  BY RowsOfCases DEF t
<1>2. <<LastRow(t)>> \in Seq(AllRows) BY <1>1
<1>3. (\A x : FirstOf(<<LastRow(t)>>, G, x) => x = LastRow(t))
      /\ (NoneOf(<<LastRow(t)>>, G) => LastRow(t) \notin G)
  <2> DEFINE y == LastRow(t)
  <2> HIDE DEF y
  <2>1. DOMAIN <<y>> = {1} /\ <<y>>[1] = y OBVIOUS
  <2>2. \A x : FirstOf(<<y>>, G, x) => x = y BY <2>1 DEF FirstOf
  <2>3. NoneOf(<<y>>, G) => y \notin G BY <2>1 DEF NoneOf
  <2> QED BY <2>2, <2>3 DEF y
<1>4. /\ \A x : FirstOf(HistoryRows(t) \o <<LastRow(t)>>, G, x) =>
                  \/ FirstOf(HistoryRows(t), G, x)
                  \/ NoneOf(HistoryRows(t), G) /\ FirstOf(<<LastRow(t)>>, G, x)
      /\ NoneOf(HistoryRows(t) \o <<LastRow(t)>>, G) => NoneOf(<<LastRow(t)>>, G)
  BY <1>1, <1>2, FirstConcat
<1>5. \A x : FirstOf(HistoryRows(t), G, x) =>
        \E i \in DOMAIN Substates(t.dst) :
          x = Row(t, Substates(t.dst)[i], FALSE, <<t.dst, Substates(t.dst)[i]>>)
  <2> SUFFICES ASSUME NEW x, FirstOf(HistoryRows(t), G, x)
               PROVE  \E i \in DOMAIN Substates(t.dst) :
                        x = Row(t, Substates(t.dst)[i], FALSE, <<t.dst, Substates(t.dst)[i]>>)
    OBVIOUS
  <2>1. PICK i \in DOMAIN HistoryRows(t) : HistoryRows(t)[i] = x BY DEF FirstOf
  <2> QED BY <2>1 DEF HistoryRows
<1>6. CASE t.dst \in Shallow \cup Deep BY <1>1, <1>3, <1>4, <1>5, <1>6 DEF t
<1>7. CASE t.dst \notin Shallow \cup Deep BY <1>1, <1>3, <1>7 DEF t
<1> QED BY <1>6, <1>7

\* The table is the rows of the transitions in their order.
Writes(rows) ==
  rows = [k \in 0 .. Len(Transitions) |->
            IF k = 0 THEN << >> ELSE rows[k - 1] \o RowsOf(Transitions[Ordered[k]])]

LEMMA TableFacts ==
  ASSUME Assumptions, ChartAssumptions, NEW G
  PROVE  LET n == Len(Transitions) IN
         /\ Rows \in Seq(AllRows)
         /\ \A x : FirstOf(Rows, G, x) =>
              \E k \in 1 .. n : /\ FirstOf(RowsOf(Transitions[Ordered[k]]), G, x)
                                /\ \A j \in 1 .. n :
                                     j < k => NoneOf(RowsOf(Transitions[Ordered[j]]), G)
         /\ NoneOf(Rows, G) => \A k \in 1 .. n : NoneOf(RowsOf(Transitions[Ordered[k]]), G)
<1> DEFINE n == Len(Transitions)
           B == [k \in 1 .. n |-> RowsOf(Transitions[Ordered[k]])]
           S == Seq(AllRows)
           z == << >>
           g == [k \in Nat |-> [x \in S |-> IF k \in 1 .. n THEN x \o B[k] ELSE x]]
           rows == CHOOSE rows : Writes(rows)
<1>1. n \in Nat /\ z \in S BY OrderFacts
<1>2. \A k \in 1 .. n : B[k] = RowsOf(Transitions[Ordered[k]]) OBVIOUS
<1>3. \A k \in 1 .. n : B[k] \in S BY OrderFacts, RowsOfCases
<1>4. Rows = rows[n] BY DEF ChartAssumptions, Table, Writes
<1>5. \A f : Writes(f) <=>
              f = [k \in 0 .. n |-> IF k = 0 THEN z ELSE f[k - 1] \o RowsOf(Transitions[Ordered[k]])]
  BY DEF Writes
<1>6. \A x, y \in S : x \o y \in S BY ConcatProperties
<1> HIDE DEF S, z, n, B
<1>7. g \in [Nat -> [S -> S]] BY <1>3, <1>6
<1>8. \A x \in S : \A k \in 1 .. n : g[k][x] = x \o B[k] BY <1>1
<1> HIDE DEF g
<1>9. PICK f : Recurs(f, S, z, g, n) BY <1>1, <1>7, Recursion
<1>10. f \in [0 .. n -> S] /\ f[0] = z /\ \A k \in 1 .. n : f[k] = g[k][f[k - 1]]
  BY <1>9 DEF Recurs
<1>11. Writes(f)
  <2> DEFINE e == [k \in 0 .. n |-> IF k = 0 THEN z ELSE f[k - 1] \o RowsOf(Transitions[Ordered[k]])]
  <2>1. ASSUME NEW k \in 0 .. n PROVE f[k] = e[k]
    <3>1. CASE k = 0 BY <1>10, <3>1
    <3>2. CASE k # 0
      <4>1. k \in 1 .. n /\ k - 1 \in 0 .. n BY <1>1, <3>2
      <4>2. f[k - 1] \in S BY <1>10, <4>1
      <4>3. f[k] = f[k - 1] \o B[k] BY <1>8, <1>10, <4>1, <4>2
      <4> QED BY <1>2, <3>2, <4>1, <4>3
    <3> QED BY <3>1, <3>2
  <2>2. f = e BY <1>10, <2>1
  <2> QED BY <1>5, <2>2
<1>12. Writes(rows) BY <1>11
<1> HIDE DEF rows
<1>13. rows = [k \in 0 .. n |-> IF k = 0 THEN z ELSE rows[k - 1] \o RowsOf(Transitions[Ordered[k]])]
  BY <1>5, <1>12
<1>14. rows[0] = << >> /\ \A k \in 1 .. n : rows[k] = rows[k - 1] \o B[k]
  <2>1. 0 \in 0 .. n /\ \A k \in 1 .. n : k \in 0 .. n /\ k # 0 BY <1>1
  <2>2. \A k \in 0 .. n : rows[k] = IF k = 0 THEN z ELSE rows[k - 1] \o RowsOf(Transitions[Ordered[k]])
    BY <1>13
  <2> QED BY <1>2, <2>1, <2>2 DEF z
<1>15. /\ rows[n] \in Seq(AllRows)
       /\ \A x : FirstOf(rows[n], G, x) =>
            \E k \in 1 .. n : FirstOf(B[k], G, x) /\ \A j \in 1 .. n : j < k => NoneOf(B[j], G)
       /\ NoneOf(rows[n], G) => \A k \in 1 .. n : NoneOf(B[k], G)
  BY <1>1, <1>3, <1>14, FirstOfMany DEF S
<1> QED BY <1>2, <1>4, <1>15 DEF n

-----------------------------------------------------------------------------
(* From the chart to the machine.                                          *)

\* What the executor can carry out as the chart means it: the machine starts in
\* a leaf, internal transitions stay in leaves, and where a shallow history is
\* kept the substates are leaves.
PlainTargets ==
  /\ InitialState \notin Composite
  /\ \A k \in DOMAIN Transitions : Transitions[k].kind = "internal" => Transitions[k].dst \notin Composite
  /\ \A s \in DOMAIN Parent : Parent[s] \in Shallow => s \notin Composite

LEMMA SubstatesAreLeaves ==
  ASSUME ChartAssumptions, PlainTargets, NEW p \in Shallow \cup Deep, NEW s \in States, SubOf(p, s)
  PROVE  s \notin Composite
BY DEF PlainTargets, SubOf

\* The state named in an external row is a leaf: each row that emit_transition_table
\* writes leads to the initial leaf of a composite target or to one of its
\* leaves.  This is what the theorems on entry, exit and history ask of a table.
THEOREM ChartLeaves == PlainTargets => Leaves
<1> SUFFICES ASSUME PlainTargets PROVE Leaves OBVIOUS
<1> USE FsmCoreAssumption, ChartMachineAssumption
<1>1. Leaf(InitialState) BY ChartLeaf DEF PlainTargets, Assumptions
<1>2. ASSUME NEW i \in DOMAIN Rows, ~Rows[i].internal PROVE Leaf(Rows[i].dst)
  <2> DEFINE r == Rows[i]
             G == {r}
  <2>1. Rows \in Seq(AllRows) BY TableFacts
  <2>2. DOMAIN Rows = 1 .. Len(Rows) /\ Len(Rows) \in Nat /\ r \in AllRows BY <2>1, ElementOfSeq
  <2>3. FirstOf(Rows, G, r)
    <3> DEFINE I == {j \in 1 .. Len(Rows) : Rows[j] = r}
    <3>1. I \in SUBSET Nat /\ I # {} BY <2>2
    <3> HIDE DEF I
    <3>2. Min(I) \in I /\ \A j \in I : Min(I) <= j BY <3>1, MinFacts
    <3>3. Min(I) \in 1 .. Len(Rows) /\ Rows[Min(I)] = r BY <3>2 DEF I
    <3>4. \A j \in 1 .. Len(Rows) : j < Min(I) => Rows[j] # r
      <4> SUFFICES ASSUME NEW j \in 1 .. Len(Rows), j < Min(I), Rows[j] = r PROVE FALSE OBVIOUS
      <4>1. j \in I BY DEF I
      <4>2. Min(I) <= j /\ Min(I) \in Nat /\ j \in Nat BY <2>2, <3>2, <3>3, <4>1
      <4> QED BY <4>2
    <3> HIDE DEF r
    <3> QED BY <2>2, <3>3, <3>4 DEF FirstOf
  <2> HIDE DEF r, G
  <2>4. PICK m \in 1 .. Len(Transitions) : FirstOf(RowsOf(Transitions[Ordered[m]]), G, r)
    BY <2>3, TableFacts
  <2>5. Ordered[m] \in 1 .. Len(Transitions) BY OrderFacts
  <2> DEFINE t == Transitions[Ordered[m]]
  <2>6. t.dst \in States BY <2>5, TransitionType
  <2>7. CASE r = LastRow(t)
    <3>1. CASE t.dst \in Composite
      <4>1. r.dst = InitialLeaf[t.dst] BY <2>7, <3>1 DEF LastRow, Row
      <4> QED BY <2>6, <4>1, InitialLeafFacts, ChartLeaf DEF r
    <3>2. CASE t.dst \notin Composite
      <4>1. r.dst = t.dst BY <2>7, <3>2 DEF LastRow, Row
      <4> QED BY <2>6, <3>2, <4>1, ChartLeaf DEF r
    <3> QED BY <3>1, <3>2
  <2>8. CASE /\ t.dst \in Shallow \cup Deep
             /\ \E k \in DOMAIN Substates(t.dst) :
                  r = Row(t, Substates(t.dst)[k], FALSE, <<t.dst, Substates(t.dst)[k]>>)
    <3>1. PICK k \in DOMAIN Substates(t.dst) :
            r = Row(t, Substates(t.dst)[k], FALSE, <<t.dst, Substates(t.dst)[k]>>)
      BY <2>8
    <3>2. r.dst = Substates(t.dst)[k] BY <3>1 DEF Row
    <3>3. r.dst \in States /\ SubOf(t.dst, r.dst) BY <3>2, SubstatesFacts
    <3> QED BY <2>8, <3>3, SubstatesAreLeaves, ChartLeaf DEF r
  <2> QED BY <2>4, <2>5, <2>7, <2>8, RowsOfFirst
<1> QED BY <1>1, <1>2 DEF Leaves

\* Of the substates that history may restore exactly the one last active is
\* recorded, and it is the one the chart means.
LEMMA RestoredSubstate ==
  ASSUME Assumptions, ChartAssumptions, PlainTargets, TypeOK, HistoryInv,
         NEW p \in Shallow \cup Deep, p \notin Within[state], lastLeaf[p] # NoState
  PROVE  LET last == lastLeaf[p] IN
         /\ last \in States /\ last \in Recorded(p) /\ SubOf(p, last)
         /\ \A s \in States : SubOf(p, s) /\ s \in Recorded(p) => s = last
         /\ (IF p \in Deep THEN last ELSE InitialLeaf[ChildOf(p, last)]) = last
<1> DEFINE last == lastLeaf[p]
<1>1. p \in States BY DEF ChartAssumptions
<1>2. last \in States /\ Leaf(last) /\ p \in Above(last) BY <1>1 DEF HistoryInv
<1>3. {l \in Recorded(p) : history[l] = NoState} = {last}
  BY <1>1, LeadsBack DEF HistoryLeadsBack
<1>4. last \notin Composite BY <1>2, ChartLeaf
<1>5. ASSUME NEW s \in States, SubOf(p, s), s \in Recorded(p) PROVE s = last
  <2>1. s \notin Composite BY <1>5, SubstatesAreLeaves
  <2>2. Leaf(s) BY <2>1, ChartLeaf
  <2>3. history[s] = NoState BY <2>2 DEF HistoryInv
  <2> QED BY <1>3, <1>5, <2>3
<1>6. CASE p \in Deep
  <2>1. SubOf(p, last) BY <1>2, <1>4, <1>6 DEF SubOf, Above, ChartAssumptions
  <2> QED BY <1>2, <1>3, <1>5, <1>6, <2>1
<1>7. CASE p \notin Deep
  <2> DEFINE c == ChildOf(p, last)
  <2>1. /\ c \in Within[last] /\ c \in States /\ c \notin Within[p]
        /\ Within[c] = Within[p] \cup {c}
    BY <1>2, ChildOnWay
  <2> HIDE DEF c
  <2>2. p \in Within[p] BY <1>1 DEF Assumptions
  <2>3. c \in DOMAIN Parent
    <3> SUFFICES ASSUME c \notin DOMAIN Parent PROVE FALSE OBVIOUS
    <3>1. Within[c] = {c} BY <2>1, AroundFacts
    <3> QED BY <2>1, <2>2, <3>1
  <2> DEFINE q == Parent[c]
  <2>4. q \in States /\ Above(c) = Within[q] BY <2>3, ParentFacts
  <2>5. Within[q] = Within[p] BY <2>1, <2>4 DEF Above
  <2>6. q = p
    <3> SUFFICES ASSUME q # p PROVE FALSE OBVIOUS
    <3>1. p \in Above(q) BY <2>2, <2>5 DEF Above
    <3>2. Within[p] \subseteq Above(q) BY <2>4, <3>1 DEF Assumptions
    <3>3. q \in Within[q] BY <2>4 DEF Assumptions
    <3> QED BY <2>5, <3>2, <3>3 DEF Above
  <2>7. SubOf(p, c) BY <1>7, <2>3, <2>6 DEF SubOf
  <2>8. Leaf(c) /\ c \notin Composite BY <2>1, <2>7, SubstatesAreLeaves, ChartLeaf
  <2>9. c = last BY <1>2, <2>1, <2>8 DEF Leaf
  <2>10. InitialLeaf[c] = c BY <2>1, <2>8, InitialLeafFacts
  <2> QED BY <1>2, <1>3, <1>5, <1>7, <2>7, <2>9, <2>10 DEF c
<1> QED BY <1>6, <1>7

\* The rows that can run for event e.
Ready(e) == {r \in AllRows : /\ r.evt = e /\ r.src \in Within[state] /\ (r.flag => flag)
                             /\ r.hist = << >> \/ r.hist[2] \in Recorded(r.hist[1])}

Open(t, e) == t.evt = e /\ t.src \in Within[state] /\ (t.flag => flag)

LEMMA ReadyRow ==
  /\ \A t, d, b, e : Row(t, d, b, << >>) \in Ready(e) <=> Row(t, d, b, << >>) \in AllRows /\ Open(t, e)
  /\ \A t, d, b, e, p, s : Row(t, d, b, <<p, s>>) \in Ready(e)
                             <=> Row(t, d, b, <<p, s>>) \in AllRows /\ Open(t, e) /\ s \in Recorded(p)
<1>1. ASSUME NEW t, NEW d, NEW b, NEW e
      PROVE  Row(t, d, b, << >>) \in Ready(e) <=> Row(t, d, b, << >>) \in AllRows /\ Open(t, e)
  BY DEF Ready, Row, Open
<1>2. ASSUME NEW t, NEW d, NEW b, NEW e, NEW p, NEW s
      PROVE  Row(t, d, b, <<p, s>>) \in Ready(e)
               <=> Row(t, d, b, <<p, s>>) \in AllRows /\ Open(t, e) /\ s \in Recorded(p)
  <2> DEFINE r == Row(t, d, b, <<p, s>>)
  <2>1. /\ r.evt = t.evt /\ r.src = t.src /\ r.flag = t.flag
        /\ r.hist = <<p, s>> /\ <<p, s>> # << >> /\ r.hist[1] = p /\ r.hist[2] = s
    BY DEF Row
  <2> HIDE DEF r
  <2>2. r \in Ready(e) <=> r \in AllRows /\ Open(t, e) /\ s \in Recorded(p)
    BY <2>1 DEF Ready, Open
  <2> QED BY <2>2 DEF r
<1> QED BY <1>1, <1>2

LEMMA ReadyIsOpen ==
  ASSUME NEW t, NEW e, NEW r \in Ready(e),
         \/ r = LastRow(t)
         \/ \E i \in DOMAIN Substates(t.dst) :
              r = Row(t, Substates(t.dst)[i], FALSE, <<t.dst, Substates(t.dst)[i]>>)
  PROVE  Open(t, e)
<1>1. CASE r = LastRow(t)
  <2>1. CASE t.dst \in Composite
    <3>1. r = Row(t, InitialLeaf[t.dst], FALSE, << >>) BY <1>1, <2>1 DEF LastRow
    <3> QED BY <3>1, ReadyRow
  <2>2. CASE t.dst \notin Composite
    <3>1. r = Row(t, t.dst, t.kind = "internal", << >>) BY <1>1, <2>2 DEF LastRow
    <3> QED BY <3>1, ReadyRow
  <2> QED BY <2>1, <2>2
<1>2. ASSUME NEW i \in DOMAIN Substates(t.dst),
             r = Row(t, Substates(t.dst)[i], FALSE, <<t.dst, Substates(t.dst)[i]>>)
      PROVE  Open(t, e)
  <2> DEFINE s == Substates(t.dst)[i]
             p == t.dst
  <2>1. Row(t, s, FALSE, <<p, s>>) \in Ready(e) BY <1>2
  <2> HIDE DEF s, p
  <2> QED BY <2>1, ReadyRow
<1> QED BY <1>1, <1>2

\* The row the machine takes is the first that can run of the chosen transition.
LEMMA TakenRow ==
  ASSUME Assumptions, ChartAssumptions, NEW e, Applicable(e) # {}
  PROVE  /\ Chosen(e) \in 1 .. Len(Transitions)
         /\ FirstOf(RowsOf(Transitions[Chosen(e)]), Ready(e), Rows[Taken(e, flag)])
<1> DEFINE n == Len(Transitions)
           G == Ready(e)
<1>1. /\ n \in Nat /\ DOMAIN Transitions = 1 .. n
      /\ \A k \in 1 .. n : Ordered[k] \in 1 .. n
      /\ \A i \in 1 .. n : \E k \in 1 .. n : Ordered[k] = i
      /\ \A j, k \in 1 .. n : j < k => Precedes(Ordered[j], Ordered[k])
  BY OrderFacts
<1>2. /\ Rows \in Seq(AllRows)
      /\ \A x : FirstOf(Rows, G, x) =>
           \E k \in 1 .. n : /\ FirstOf(RowsOf(Transitions[Ordered[k]]), G, x)
                             /\ \A j \in 1 .. n :
                                  j < k => NoneOf(RowsOf(Transitions[Ordered[j]]), G)
      /\ NoneOf(Rows, G) => \A k \in 1 .. n : NoneOf(RowsOf(Transitions[Ordered[k]]), G)
  BY TableFacts
<1>3. DOMAIN Rows = 1 .. Len(Rows) /\ Len(Rows) \in Nat /\ \A i \in 1 .. Len(Rows) : Rows[i] \in AllRows
  BY <1>2, ElementOfSeq
<1>4. Runnable(e, flag) = {i \in 1 .. Len(Rows) : Rows[i] \in G}
  BY <1>3 DEF Runnable, Matching, Ready
<1>5. ASSUME NEW k \in Applicable(e) PROVE k \in 1 .. n /\ ~NoneOf(RowsOf(Transitions[k]), G)
  <2>1. k \in 1 .. n BY <1>1 DEF Applicable
  <2>2. LastRow(Transitions[k]) \in AllRows BY <2>1, RowsOfCases
  <2>3. Open(Transitions[k], e) BY DEF Applicable, Open
  <2>4. LastRow(Transitions[k]) \in G
    <3> DEFINE t == Transitions[k]
    <3> HIDE DEF t
    <3>1. CASE t.dst \in Composite
      <4>1. LastRow(t) = Row(t, InitialLeaf[t.dst], FALSE, << >>) BY <3>1 DEF LastRow
      <4> QED BY <2>2, <2>3, <4>1, ReadyRow DEF t
    <3>2. CASE t.dst \notin Composite
      <4>1. LastRow(t) = Row(t, t.dst, t.kind = "internal", << >>) BY <3>2 DEF LastRow
      <4> QED BY <2>2, <2>3, <4>1, ReadyRow DEF t
    <3> QED BY <3>1, <3>2 DEF t
  <2> QED BY <2>1, <2>4, RowsOfFirst
<1> HIDE DEF n, G
<1>6. Runnable(e, flag) # {}
  <2> SUFFICES ASSUME Runnable(e, flag) = {} PROVE FALSE OBVIOUS
  <2>1. NoneOf(Rows, G) BY <1>3, <1>4 DEF NoneOf
  <2>2. PICK k \in Applicable(e) : TRUE OBVIOUS
  <2>3. PICK m \in 1 .. n : Ordered[m] = k BY <1>1, <1>5
  <2> QED BY <1>2, <1>5, <2>1, <2>3
<1> DEFINE i == Taken(e, flag)
           r == Rows[i]
<1>7. i \in Runnable(e, flag) /\ \A j \in Runnable(e, flag) : i <= j
  <2>1. Runnable(e, flag) \in SUBSET Nat BY <1>3, <1>4
  <2> QED BY <1>6, <2>1, MinFacts DEF Taken
<1>8. i \in 1 .. Len(Rows) /\ r \in G BY <1>4, <1>7
<1>9. FirstOf(Rows, G, r)
  <2>1. \A j \in 1 .. Len(Rows) : j < i => Rows[j] \notin G
    <3> SUFFICES ASSUME NEW j \in 1 .. Len(Rows), j < i, Rows[j] \in G PROVE FALSE OBVIOUS
    <3>1. i <= j BY <1>4, <1>7
    <3> HIDE DEF i
    <3> QED BY <1>3, <1>8, <3>1
  <2> HIDE DEF i
  <2> QED BY <1>3, <1>8, <2>1 DEF FirstOf
<1> HIDE DEF i, r
<1>10. PICK m \in 1 .. n : /\ FirstOf(RowsOf(Transitions[Ordered[m]]), G, r)
                           /\ \A j \in 1 .. n :
                                j < m => NoneOf(RowsOf(Transitions[Ordered[j]]), G)
  BY <1>2, <1>9
<1> DEFINE c == Ordered[m]
<1>11. c \in 1 .. n BY <1>1
<1>12. c \in Applicable(e)
  <2>1. \/ r = LastRow(Transitions[c])
        \/ \E k \in DOMAIN Substates(Transitions[c].dst) :
             r = Row(Transitions[c], Substates(Transitions[c].dst)[k], FALSE,
                     <<Transitions[c].dst, Substates(Transitions[c].dst)[k]>>)
    BY <1>10, <1>11, RowsOfFirst DEF n
  <2>2. Open(Transitions[c], e) BY <1>8, <2>1, ReadyIsOpen DEF G, r
  <2> QED BY <1>1, <1>11, <2>2 DEF Applicable, Open
<1>13. ASSUME NEW j \in Applicable(e) \ {c} PROVE Precedes(c, j)
  <2>1. PICK l \in 1 .. n : Ordered[l] = j BY <1>1, <1>5
  <2>2. ~(l < m) BY <1>5, <1>10, <2>1
  <2>3. m < l
    <3>1. Ordered[l] # Ordered[m] BY <2>1
    <3>2. l # m BY <3>1
    <3>3. n \in Nat BY <1>1
    <3> HIDE DEF n, c
    <3> QED BY <2>2, <3>2, <3>3
  <2> QED BY <1>1, <2>1, <2>3
<1>14. Chosen(e) = c
  <2> DEFINE First(k) == k \in Applicable(e) /\ \A j \in Applicable(e) \ {k} : Precedes(k, j)
  <2>1. First(c) BY <1>12, <1>13
  <2>2. \A k : First(k) => k = c
    <3> SUFFICES ASSUME NEW k, First(k), k # c PROVE FALSE OBVIOUS
    <3>1. Precedes(k, c) /\ Precedes(c, k) BY <1>12, <1>13
    <3> QED BY <1>5, <1>11, <3>1, PrecedesFacts DEF n
  <2>3. Chosen(e) = CHOOSE k \in Applicable(e) : \A j \in Applicable(e) \ {k} : Precedes(k, j)
    BY DEF Chosen
  <2> QED BY <2>1, <2>2, <2>3
<1> QED BY <1>10, <1>11, <1>14 DEF n, G, r, i

LEMMA EntryDeclared ==
  ASSUME Assumptions, ChartAssumptions, PlainTargets, TypeOK, HistoryInv
  PROVE  EntryAsDeclared
<1> SUFFICES ASSUME NEW e, Applicable(e) # {},
                    LET t == Transitions[Chosen(e)]
                    IN  t.dst \notin Shallow \cup Deep \/ t.dst \notin Within[state]
             PROVE  LET t == Transitions[Chosen(e)]
                        r == Rows[Taken(e, flag)]
                    IN  (IF r.internal THEN state ELSE r.dst) = DeclaredLeaf(t)
  BY DEF EntryAsDeclared
<1> DEFINE k == Chosen(e)
           t == Transitions[k]
           r == Rows[Taken(e, flag)]
           G == Ready(e)
<1>1. k \in 1 .. Len(Transitions) /\ FirstOf(RowsOf(t), G, r) BY TakenRow
<1>2. t.dst \notin Shallow \cup Deep \/ t.dst \notin Within[state] OBVIOUS
<1>3. SUFFICES (IF r.internal THEN state ELSE r.dst) = DeclaredLeaf(t) OBVIOUS
<1> HIDE DEF k, r
<1>4. /\ t.dst \in States /\ t.kind \in {"external", "internal", "local"}
      /\ Shallow \cup Deep \subseteq Composite /\ Composite \subseteq States
      /\ DOMAIN Transitions = 1 .. Len(Transitions)
  BY <1>1, TransitionType, OrderFacts DEF ChartAssumptions
<1>5. t.kind = "internal" => t.dst \notin Composite BY <1>1, <1>4 DEF PlainTargets
<1>6. /\ t.dst \notin Shallow \cup Deep => r = LastRow(t)
      /\ \/ r = LastRow(t) /\ (t.dst \in Shallow \cup Deep => NoneOf(HistoryRows(t), G))
         \/ /\ t.dst \in Shallow \cup Deep
            /\ \E i \in DOMAIN Substates(t.dst) :
                 r = Row(t, Substates(t.dst)[i], FALSE, <<t.dst, Substates(t.dst)[i]>>)
  BY <1>1, RowsOfFirst
<1>7. HistoryRows(t) \in Seq(AllRows) BY <1>1, RowsOfCases
<1> HIDE DEF t
<1>8. r \in G BY <1>1 DEF FirstOf
<1>9. /\ LastRow(t).dst = (IF t.dst \in Composite THEN InitialLeaf[t.dst] ELSE t.dst)
      /\ LastRow(t).internal = (t.dst \notin Composite /\ t.kind = "internal")
  <2>1. CASE t.dst \in Composite BY <2>1 DEF LastRow, Row
  <2>2. CASE t.dst \notin Composite BY <2>2 DEF LastRow, Row
  <2> QED BY <2>1, <2>2
<1>10. LastRow(t).dst = InitialLeaf[t.dst] BY <1>4, <1>9, InitialLeafFacts
<1>11. CASE t.dst \notin Shallow \cup Deep
  <2>1. r = LastRow(t) BY <1>6, <1>11
  <2>2. CASE t.kind = "internal"
    <3>1. DeclaredLeaf(t) = state BY <2>2 DEF DeclaredLeaf
    <3>2. r.internal = TRUE BY <1>5, <1>9, <2>1, <2>2
    <3> QED BY <3>1, <3>2
  <2>3. CASE t.kind # "internal"
    <3>1. DeclaredLeaf(t) = InitialLeaf[t.dst] BY <1>11, <2>3 DEF DeclaredLeaf
    <3>2. r.internal = FALSE /\ r.dst = InitialLeaf[t.dst] BY <1>9, <1>10, <2>1, <2>3
    <3> QED BY <3>1, <3>2
  <2> QED BY <2>2, <2>3
<1>12. CASE t.dst \in Shallow \cup Deep
  <2> DEFINE p == t.dst
             last == lastLeaf[p]
  <2>1. p \in Composite /\ p \in States /\ p \notin Within[state] /\ t.kind # "internal"
    BY <1>2, <1>4, <1>5, <1>12 DEF t
  <2> HIDE DEF p
  <2>2. CASE last = NoState
    <3>1. Recorded(p) = {} BY <2>1, <2>2, LeadsBack DEF HistoryLeadsBack
    <3>2. r = LastRow(t)
      <4> SUFFICES ASSUME NEW i \in DOMAIN Substates(p),
                          r = Row(t, Substates(p)[i], FALSE, <<p, Substates(p)[i]>>)
                   PROVE  FALSE
        BY <1>6 DEF p
      <4> QED BY <1>8, <3>1, ReadyRow
    <3>3. DeclaredLeaf(t) = InitialLeaf[t.dst] BY <2>1, <2>2 DEF DeclaredLeaf, p
    <3>4. r.internal = FALSE /\ r.dst = InitialLeaf[t.dst] BY <1>9, <1>10, <2>1, <3>2 DEF p
    <3> QED BY <3>3, <3>4
  <2>3. CASE last # NoState
    <3>1. /\ last \in States /\ last \in Recorded(p) /\ SubOf(p, last)
          /\ \A s \in States : SubOf(p, s) /\ s \in Recorded(p) => s = last
          /\ (IF p \in Deep THEN last ELSE InitialLeaf[ChildOf(p, last)]) = last
      BY <1>12, <2>1, <2>3, RestoredSubstate DEF p
    <3>2. DeclaredLeaf(t) = last BY <1>12, <2>1, <2>3, <3>1 DEF DeclaredLeaf, p
    <3>3. PICK j \in DOMAIN Substates(p) : Substates(p)[j] = last BY <3>1, SubstatesFacts
    <3>4. ~NoneOf(HistoryRows(t), G)
      <4> DEFINE x == Row(t, last, FALSE, <<p, last>>)
      <4>1. j \in DOMAIN HistoryRows(t) /\ HistoryRows(t)[j] = x BY <3>3 DEF HistoryRows, p
      <4>2. DOMAIN HistoryRows(t) = 1 .. Len(HistoryRows(t)) BY <1>7
      <4>3. x \in AllRows BY <1>7, <4>1, <4>2, ElementOfSeq
      <4>4. Open(t, e) BY <1>6, <1>8, ReadyIsOpen
      <4>5. x \in G BY <3>1, <4>3, <4>4, ReadyRow
      <4> QED BY <4>1, <4>5 DEF NoneOf
    <3>5. PICK i \in DOMAIN Substates(p) : r = Row(t, Substates(p)[i], FALSE, <<p, Substates(p)[i]>>)
      BY <1>6, <1>12, <3>4 DEF p
    <3>6. r.dst = Substates(p)[i] /\ r.internal = FALSE BY <3>5 DEF Row
    <3>7. r.dst \in States /\ SubOf(p, r.dst) BY <3>6, SubstatesFacts
    <3>8. r.dst \in Recorded(p)
      <4> DEFINE s == Substates(p)[i]
      <4>1. Row(t, s, FALSE, <<p, s>>) \in G BY <1>8, <3>5
      <4> HIDE DEF s
      <4>2. s \in Recorded(p) BY <4>1, ReadyRow
      <4> QED BY <3>6, <4>2 DEF s
    <3>9. r.dst = last BY <3>1, <3>7, <3>8
    <3> HIDE DEF last
    <3> QED BY <3>2, <3>6, <3>9
  <2> QED BY <2>2, <2>3
<1> QED BY <1>11, <1>12

\* From emitter to execution, for every chart whose targets are plain: the event
\* takes the applicable transition of the highest priority, and it leads to the
\* leaf the model declares.  It joins what emit_transition_table writes, what
\* record_ancestor_history keeps and the order in which the executor tries rows.
THEOREM EntryCorrect == PlainTargets => (Spec => []EntryAsDeclared)
<1> SUFFICES ASSUME PlainTargets PROVE Spec => []EntryAsDeclared OBVIOUS
<1> DEFINE IInv == HistoryInv /\ Leaf(state)
<1>0. Leaves BY ChartLeaves
<1>1. Init => IInv
  BY <1>0, FreshHistory, FsmCoreAssumption DEF Init, Fresh, Leaf, Leaves
<1>2. TypeOK /\ IInv /\ [Next]_vars => IInv' BY <1>0, HistoryStep, FsmCoreAssumption
<1>3. TypeOK /\ IInv => EntryAsDeclared
  BY EntryDeclared, FsmCoreAssumption, ChartMachineAssumption
<1> QED BY <1>1, <1>2, <1>3, TypeCorrect, PTL DEF Spec

=============================================================================
