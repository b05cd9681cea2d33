# fsmc: a verification development

fsmc compiles state machine models (SysML v2, SCXML, PlantUML, Mermaid, ...) to C++ and ships the
header-only runtime the generated machines run on. This directory holds TLA+ models of that runtime,
of the part of the C++ backend that decides what the runtime executes, of the optimizing passes
between parser and backend and of the model checker, the configurations that check them with TLC, and
proofs checked by TLAPS. `PROJECT.json` lists the components, the runs, the
lines of code each definition stands for, the hazards of the code and the findings.

Paths below are relative to the repository; `RT/` is `include/fsm/backend/cpp/runtime/`, `ME/` is
`src/middleend/`.

Run a model with `tlc -workers 2 -config X.cfg M`, a proof with `tlapm M.tla`.

## 1. The system

| Component | State it keeps | Operations | Interacts with |
|---|---|---|---|
| Lock-free ring (`RT/spsc_ring_buffer.hpp`) | `head_`, `tail_` (atomic, free-running), raw slots | `push`/`emplace`, `pop`, `clear`, `size`/`empty`/`full` | one producer and one consumer thread: `push` and `pop` publish by a release store and load the other side's counter by acquire; `clear`, `size`, `empty` and `full` load relaxed |
| SPSC machine (`RT/spsc_fsm.hpp`) | the ring, a machine, `state_index_`, `seq_` | `post`, `process_one`, `run_until_empty`, `step`, `tick`, `reset`, `snapshot_registers` | interrupt handler posts, control task consumes, any thread reads; a seqlock protects the registers |
| Synchronous machine (`RT/fsm.hpp`, `RT/detail/`, `RT/deterministic_timer.hpp`, `RT/transition.hpp`) | current state, registers, history records, deferred queue, timers, residence time | `dispatch`, `dispatch_direct`, `step`, `tick`, `reset`, `process_deferred_queue`, `clear_*`, `set_timer_duration`, `check_invariants`, `serialize`/`deserialize` | user actions and guards are called back; single thread |
| Table emission (`src/backend/cpp/cpp_model_emitter.cpp`) | none | IR transitions to rows, sorted and expanded for composite and history targets | the rows are what the synchronous machine executes |
| Active object (`RT/thread_safe_fsm.hpp`, `RT/async_event_queue.hpp`, `RT/detail/worker_thread_controller.hpp`, `RT/detail/reentrancy_tracker.hpp`) | a machine under `dispatch_mutex_`, event and timed queues under another mutex, worker thread, `worker_running_`, `dispatching_thread_`, `dispatch_depth_` | `send`, `post*`, `step`, `tick`, `process_*`, `start_worker`, `stop_worker`, `clear_queue`, `reset` | any number of threads and one worker |
| Snapshot recorder (`RT/snapshot_recorder.hpp`, serialization in `RT/fsm.hpp`) | ring of snapshots, `head_`, `count_` | `record`, `rollback`, `rewind_to_checkpoint`, `clear` | reads and rewrites a machine; the machine's history refers back into the ring |
| Flight recorder (`RT/flight_recorder.hpp`) | ring of trace records | appended to by observer hooks | synchronous machine |
| Static containers (`RT/static_vector.hpp`, `RT/static_ring_buffer.hpp`) | elements and a count | sequential container operations | used by the machine |
| Middle-end passes (`ME/passes`) | the IR of a machine, and inside a pass a partition or the list of what is still to visit | rewrites: sorting, pruning, minimization, factoring and fusion of actions, transition fusion, junction chaining, choice inlining, dead actions, data path pruning; lowering of hierarchy, history, deferral, regions; expression and register passes | each rewrites what the pass before it left; the emitter turns the result into rows |
| Pass manager (`ME/pass_manager.cpp`) | the pipeline | `run`: one pass after the other until one fails | pipelines are put together by the command line, or by level |
| Model checker (`ME/analysis/model_checker.cpp`) | the graph of the machine, the states reached and from where, the set a loop is computing | `build_graph`, `verify_property` for LTL and CTL, `compute_sat`, counterexamples | reads the IR; the interval analysis judges its atoms |
| Interval analysis (`ME/analysis/efsm_interval_analysis.cpp`) | an interval for each register and port at each state, the worklist | `compute_state_intervals`, `analyze` | the data path pass prunes by its findings, the model checker judges atoms by its intervals |
| Other analyses (`ME/analysis`) | none | validation, livelock and priority checks | read the IR |
| IR, frontends, other backends, diagnostics, plugins, tools | data and text | parsing, printing, option handling | - |

What is hard about them:

* Concurrency without locks: the ring and the seqlock rest on the order of a few loads and stores,
  and on counters that wrap.
* Concurrency with locks: the active object has two mutexes, a reentrancy tracker that is read
  without them, and a worker that is started, stopped and joined while others post, send and drain.
* Order inside one thread: deferral and replay, timers that expire together, history written on the
  way out of nested states and read by later guards. A wrong order shows after several events only.
* State that outlives what it describes: armed timers, history entries, deferred events, residence
  times, views into a buffer that is written again.
* Rewriting that must not be seen: a pass is tested alone on the machines its author thought of, but
  works on what any other passes left, and a reordered row, a merged state or a lost action shows only
  in the run of the emitted machine, for some valuation of its guards.
* Answers that are hard to doubt: a formula wrongly passed looks like one that holds.

What makes each correct is stated as the properties of section 3, the open points are the hazards of
`PROJECT.json` without a property.

## 2. The modules

| Module | Models | State and actions, against the code |
|---|---|---|
| `SpscRing` | the ring at the grain of its atomic accesses and of each element's construction, move and destruction | `head`, `tail`, `slot` are the members; `ppc`/`cpc`/`observer` say where a call stands; `unseen` are the slots whose construction the consumer has not synchronised with. `PushLoad` is the acquire load of `tail_`, `PushFull` the early return, `PushConstruct` the placement new, `PushPublish` the release store; `Pop*` alike, `PopLoad` acquires what was published. `ClearLoad` is relaxed and acquires nothing; `SizeLoad`, `SizeReturn` are the two loads of `size()` |
| `BoundedFifo` | what the ring promises: put unless full, take the oldest, drop a prefix or all | abstract specification, implemented by `SpscRing` and used inside `SpscFsm` |
| `SpscFsm` | the consumer's operations around the seqlock, the producer's `post`, one reader | `Begin`/`Open`/`Working`/`Publish`/`Close` are `process_one()`, `step()` and `reset()` from the pop to the second increment of `seq_`; `Tick` has no bracket, as in the code; `LoadSeq`, `CopyWord`, `Check` are `snapshot_registers()` |
| `FsmCore` | the synchronous machine over an arbitrary table | `Dispatch`, `Step`, `Tick`, `Reset` and the small entry points are calls; `Replay` is a round of `process_deferred_queue`, `Fire` one expired timer, `TickReturn` and `StepAfterTick` the rest of `tick()` and `step(dt)`. `Execute`/`External` is the transition executor with its history, timers, invariants and entry/exit calls |
| `ChartTable` | the emitter's table as a function of the chart | `Ordered` is the list of transitions as sorted, `RowsOf` the rows of one of them, `Table` those of all |
| `ChartMachine` | `FsmCore` executing `ChartTable`'s rows | states what the two must agree on |
| `ThreadSafeFsm` | the active object | one step per atomic access or critical section of the queue's mutex; `owner` is `dispatch_mutex_`, held from `Lock` to `Finish`. Every client makes every call, posting, starting the worker and resetting included; `Controllers` are those that also stop it. `CallKinds` bounds what they call. `StartThread` over a thread that is not joined ends the program (`thread = "aborted"`). The machine is reduced to its current state, the worker's condition variable to a guard |
| `SnapshotRecorder` | the recorder's ring and the memory behind restored history | `Record` serializes the machine into a slot field by field, `Rollback` restores it; history entries are views, of literals or of a slot's bytes. `InPlace` says that a `record()` moves no name still viewed, `InPlaceSpec` are the behaviours where this is so throughout |
| `CheckpointStack` | what the recorder promises: a bounded stack of checkpoints | abstract specification, implemented by `SnapshotRecorder` |
| `Kripke` | what a temporal formula means on a finite graph, by sets of nodes that TLC can compute (`Holds`) and by runs (`OnRuns`), proved to be the same | the reference for the next; no code |
| `ModelChecker` | the checker of LTL and CTL properties | `Discover`, `NextNode`, `Built` are the breadth-first search of the constructor, `Verify` a call of `verify_property`, `Direct` the formulas answered by one look at each state, `Join` a state added by `check_until`, `Iterate` a round of `compute_sat`, `Unwind` and `TraceStep` the making of a counterexample. A machine is its graph, an operand the set of states where it holds |
| `Machine` | a flat machine as the IR holds it, what the emitter makes of its actions, and what it does: the table sorted by priority, the first enabled row of state and event, `step()` until it rests | operators. A guard is a set of literals over opaque conditions. An action has a name and assignments: what is observed (`Does`) are the assignments, or the call of the service of its name when it has none. `Emitted` puts the assignments of all rows whose action has one name into the struct of that name and looks at no entry or exit action, as `emit_actions()` does; `Builds` says that the result compiles |
| `MachineRun` | what a machine promises: its own assignments and calls in answer to each event, whatever the guards yield | abstract specification, implemented by `MiddleEnd` |
| `MiddleEnd` | `PassManager::run` over a pipeline, then the run of the machine it emits | `ir` is the machine in hand, `todo` what is left of the pipeline. `Rewrite` is a pass that goes over the machine once; `Begin*`, `Refine`, `Fuse`, `Inline`, `End*` are the rounds of those that loop, `Reject` the error of junction chaining. Passes compare and join actions as the code does: by name in the minimization (`Looks`, `InitialBlocks`), whole in the factoring (`Shared`), the row keeping its name in boundary fusion (`BoundaryAct`, `FusedName` where it has none). After `Emit`, which hands over `Emitted(ir)`, `Handle` gives each event to the emitted machine and to the source machine (`twin`) |
| `DataPath` | machines with registers and ports, whose rows, entries and exits assign: dead action elimination, the interval analysis, the pruning, then what is emitted | `Eliminate` or `Leave` is the pipeline with or without the first; `Pop`, `Propagate`, `Finish` are the loops of `compute_state_intervals` down to the single row, which look at the actions of rows only, `Report` is `analyze`, `Prune` one erased row. `Start` gives the variables the values emitted for them, 0 for an out port without default; `Handle` gives each event to the emitted machine (`state`, `vals`) and to the source (`twin`, `tvals`), over the integers, exit and entry actions included |
| `SpscRingProofs`, `SpscFsmProofs`, `FsmCoreProofs`, `ThreadSafeFsmProofs`, `SnapshotRecorderProofs`, `ModelCheckerProofs`, `MiddleEndProofs`, `DataPathProofs` | - | theorems and proofs |
| `MC*` | - | instances for TLC |

Reductions shared by the modules: event payloads, guards and actions are reduced to what the
properties tell apart (one register flag, a chosen next state, the assignments and service calls an
action stands for); names and wording are model values, or numbers in the order of the names where the code
sorts by name; ports are modelled in `DataPath` only; exceptions are not modelled. Operators named as mutants are deliberate bugs:
no specification uses them, each is a plausible change of the definition that follows it, and with
it in the place of that definition the property it belongs to fails.

## 3. What the runs show

Passing runs:

| Run | Configuration | Question and result |
|---|---|---|
| `spsc_ring` | `MCSpscRing.cfg` | The ring implements the bounded FIFO (`RefinesFifo`); no element is constructed over one that is alive, `pop()` reads and destroys only what it has acquired, and `clear()` only live elements among those acquired (`LifetimesDisjoint`); between calls exactly the slots from `tail_` to `head_` are alive (`LiveExactlyOccupied`), also when `clear()` runs while the producer publishes |
| `spsc_fsm` | `MCSpscFsm.cfg` | For a machine without do-activities and timers a snapshot is the registers as one operation left them, not older than the call (`SnapshotLinearizable`); readers return (`SnapshotReturns`); `reset()` lets no earlier event through (`ResetIsBarrier`) |
| `chart` | `MCChart.cfg` | Entry and exit calls balance (`ActiveConfiguration`); timers are those of the current stay and never fire into another (`TimersMatchState`, `NoStaleTimeout`); history leads back to the leaf last active (`HistoryLeadsBack`); the emitted rows lead where the chart says (`EntryAsDeclared`); a reported violation is one of this stay (`ViolationIsOverstay`); each call ends (`RunToCompletion`) |
| `thread_safe` | `MCThreadSafeFsm.cfg` | One thread at a time is in the machine and the tracker names it (`OneDispatcher`); no event is lost or dispatched twice (`EachEventOnce`); `stop_worker()` drains, whoever posts, drains or starts the worker anew meanwhile (`StopDrains`); what is queued with a future while the worker runs, and what an action sends reentrantly, is dispatched (`Answered`); every call returns or ends the program (`CallsReturn`) |
| `snapshot_recorder` | `MCSnapshotRecorder.cfg` | The ring is the bounded stack (`RefinesStack`), through overwrite, rollback of several and rewinding to a tag; with names of one length the restored history is that of the restored life (`HistoryAsLived`) |
| `model_checker` | `MCModelChecker.cfg` | On every graph of three states, for every operand: the search finds what transitions and entries into composites reach (`ReachableExact`); a formula that is passed holds, but for F P, G(P -> F Q) and GF P (`VerdictSound`); one that is refused does not (`NoFalseAlarm`); the CTL sets are exact at every state, as nested operators need, a state without successor having no next state (`SatExact`; the documented equation of AX says otherwise there, see below); a counterexample is a run that refutes (`CounterexampleReal`); each call ends (`Answers`) |
| `middle_end` | `MCMiddleEnd.cfg` | Four orders of passes. The machine that comes out answers every sequence of events under all outcomes of the guards with the assignments and calls of the source, also where exit and entry assignments were moved into the rows (`RefinesSource`); between any two steps of a pass the rows join states that exist (`TypeOK`); no pseudostate the machine could rest in is emitted, and exactly a circle of junctions is refused (`EmittedFlat`); every loop comes to an end (`ComesToAnEnd`) |
| `data_path` | `MCDataPath.cfg` | For machines whose rows alone assign, and whose out ports may be 0: what the registers and ports of the emitted machine hold is within the interval computed for its state, and comparisons judged by that interval hold (`IntervalsSound`); neither the actions dropped nor the rows pruned can be missed while the source keeps its contracts (`SameBehaviour`); the iteration limit cuts off only analyses with an interval that has no bound (`CutOffOnlyUnbounded`) |

Runs that refute something the documentation says; each checks one property, and the finding in
`PROJECT.json` quotes the place:

| Run | Refuted | Why |
|---|---|---|
| `spsc_tick` | `SnapshotLinearizable` with `tick()` | `tick()` writes registers outside the seqlock bracket |
| `state_timeout` | `TimeoutInItsState` | the state is compared in one critical section and the event dispatched in another |
| `response` | `ResponseGuaranteed` | G(P -> F Q) is passed when some run from P reaches Q |
| `pruned_alive` | `SameBehaviour` for two rows between the same two states | the row to prune is looked up by its states, so the first one goes, not the dead one |

The passing runs have limits, and beyond most of them the documentation promises what the code does not do. Each
of the following configurations is a small case beyond such a limit; TLC reports the property violated. The
hazards in `PROJECT.json` give the lines and quote the documentation.

| Configuration | Module | Refuted | Why |
|---|---|---|---|
| `ClearRace.cfg` | `MCSpscRing` | `ClearSynchronised` | `clear()` loads `head_` relaxed and destroys elements whose construction it has not synchronised with |
| `LateFuture.cfg` | `MCThreadSafeFsm` | `FuturesReady` | `post_async()` looks whether a worker runs and pushes later; a `stop_worker()` in between leaves the event to nobody |
| `RestartRace.cfg` | `MCThreadSafeFsm` | `NoRestartRace` | a start between the stop of the flag and the join assigns over a thread that is not joined |
| `ResetPending.cfg` | `MCThreadSafeFsm` | `ResetClears` | `reset()` leaves the queues alone |
| `ShiftedHistory.cfg` | `MCSnapshotRecorder` | `HistoryAsLived` with names of different lengths | restored entries view a slot that the next `record()` lays out differently |
| `NextDocumented.cfg` | `MCModelChecker` | `NextAsDocumented` | AX P leaves out states without successor, which the documented equation (`docs/verification_and_safety/model_checking.md:83`) contains; AF and A[P U Q] build on it |
| `FactoredAssignment.cfg` | `MCMiddleEnd` | `RefinesSource` | an assignment factored into an entry action is emitted as the call of a service |
| `SharedName.cfg` | `MCMiddleEnd` | `RefinesSource` | two rows with an action of one name each make the assignments of both |
| `Hooked.cfg` | `MCDataPath` | `SameBehaviour` for a state that assigns on entry | the analysis looks at rows only, and prunes the live row behind the state |
| `OutPortZero.cfg` | `MCDataPath` | `SameBehaviour` for an out port whose contract excludes 0 | the analysis starts from the contract, the emitted machine from 0 |

Two more hold, on larger or other cases than the run: `ThreeEvents.cfg` (`MCThreadSafeFsm`, one state, three events: none
is lost, and `Answered` when one is sent while two others are dispatched) and `InPlace.cfg` (`MCSnapshotRecorder`, names of
different lengths, `InPlaceSpec`: `HistoryAsLived` although slots are overwritten under the views).

Other limits, found the same way:

* a third thread may read a `size()` above the capacity;
* with shallow history to a composite child the row that restores it leads to the composite, and the machine
  rests there instead of in its initial leaf (`Shallow = {"P"}`, `Deep = {}` in `MCChart.cfg` violates
  `EntryAsDeclared`), against `docs/concepts/states_and_hierarchy.md:50`;
* the emitter looks at the kind of a transition only when its target is a leaf, so that an internal one of a
  composite becomes an external row to the initial leaf (a transition of `P` to `P` of kind `"internal"` in
  `MCTransitions` violates `EntryAsDeclared`), against `docs/formal_languages/uml_reference.md:114`;
* a full deferred queue drops the event that `dispatch()` reports as deferred;
* transition fusion builds the new row without the priority of the old one, so of two overlapping rows
  the default one fires;
* an analysis with an unbounded interval on a cycle is cut off after 200 rounds, as the difference of two
  infinities equals nothing; guards with `||` or `!` are read as their first comparison, `2 * x` as the
  number 2, and comparisons of a register without any bound are judged by its initial value.

### Bounds

* `MCSpscRing`: two slots, counters modulo 4. Every alignment of the counters with the buffer and
  with their own wrap occurs; behaviours are not bounded.
* `MCSpscFsm`: two register words (one cannot be torn), a queue of two, two consumer operations: a
  read overlaps both, a reset lies between posts on either side. `SeqModulus` exceeds twice the
  number of operations, so a reader cannot be overtaken by a whole period of `seq_`: with 32 bits
  that takes 2^31 operations during one copy.
* `MCChart`: three levels of nesting, deep history on the outer composite, one-shot timers on an
  outer and an inner state and a periodic one, deferral declared by a leaf and by a composite, an
  inherited, an internal and a completion transition; a deferred queue of two, deltas of one and
  two, residence up to three, so that timers expire together and apart.
* `MCThreadSafeFsm`: two threads, both of which make every call but that one alone stops the worker that
  both start; two events of every kind, and two states, so that a timeout can be stale. What three events add, a send
  while two others are dispatched, is in `ThreeEvents.cfg`, and proved but for liveness. One thread stops, as a
  second one finds the flag cleared and returns while the
  first still waits for the worker: `StopDrains` speaks of the first.
* `MCSnapshotRecorder`: two slots, three records (each slot is written again), a machine whose
  history has one or two entries, slots that just hold two. Names have one length; in `InPlace.cfg` and
  `ShiftedHistory.cfg` one of them is longer, so that what lies behind it in a slot moves
  or stays, according to the life recorded.
* `MCModelChecker`: all graphs of three states, with self-loops, terminal and unreachable states, and
  those where the second lies in the first; all operands, but that of two graphs which differ in the
  names of the second and third state one is taken and the operands of a binary operator exclude each
  other (except for G(P -> X Q), where it matters). Three states hold a cycle beside a way out of it,
  and a predecessor of both.
* `MCMiddleEnd`: five states, of which the last two are states, choices or junctions; two events, one
  guard; the pipelines the tools build by default, with pruning and minimization, with `optimize`, and the
  one before verification, which fuses boundary actions. Choices stand before junctions and the reverse, junctions in a
  circle, transient states in a chain and states that merge only after others have. In the first three actions
  call services, so that they can be factored and compared by name, and make assignments where rows are put
  together; in the fourth all make assignments, on entry and exit too. What is left out,
  because the passes do not keep it or the documentation does not define it: overlapping branches of a
  choice, guarded completions, completions that go round, two overlapping rows of which the prior one
  leads to a state that some pass dissolves, entry actions of the initial state, an assignment that can be
  factored (`FactoredAssignment.cfg`), a name that two rows share for their assignments (`SharedName.cfg`), a
  call that is joined with another action or dropped with the name of an entry or exit action.
* `MCDataPath`: machines of three states with a loop and a way out of it, two registers, or a register and
  an out port that starts at 0 or at 1, and an input
  port, one with a contract on a register, one whose port is unbounded; guards that are dead in some of
  the machines, up to three assignments to a row; registers and ports from -3 to 4 in a run, all
  integers in the analysis, 200 iterations as in the code. The loop is taken often enough to widen.
  No two rows join the same states and no state assigns, but in `MCParallel`, `MCHooked` and `MCOutPort`, the
  machines of `PrunedAlive.cfg`, `Hooked.cfg` and `OutPortZero.cfg`.

### Fairness

* `SpscFsm`: `WF(Progress)`, an operation that the consumer has begun ends, for user actions return;
  `WF(Read)`, the reader is scheduled. Nothing makes the consumer begin an operation, or stop
  beginning them: `SnapshotReturns` holds as operations are finitely many, which stands for the
  pause between two periods of a control task. Without pauses the code has no such promise.
* `ModelChecker`: `WF(Build \/ Check)`, it is a sequential function that runs on once called. Nothing
  makes anybody ask for a formula.
* `MiddleEnd` states no fairness: `ComesToAnEnd` is a measure (`Distance`) that every step of a pass
  lowers, and the absence of deadlock shows that a step is there until the machine is emitted or refused.
* `DataPath` states none; its properties are invariants.
* `ThreadSafeFsm`: `WF(Alive /\ Continue(t))` for each thread: it is scheduled in the middle of a call, and
  actions return, until the program has ended. No fairness on calls, deadlines, or the mutex; the number of
  events is finite, so a waiting thread finds the mutex free in the end and weak fairness is enough.

### Deadlock and memory order

Deadlock is checked in every passing run but `thread_safe`, where a start that races
with a stop ends the program; there `CallsReturn` says that nothing else stops.

The counters of the ring are modelled under sequential consistency at the grain of their accesses. `push()` and
`pop()` publish by release stores and load the other side's counter by acquire; that a thread sees an element's
bytes only after such a pair is what `unseen` keeps track of. `clear()` loads `head_` relaxed, so it does not
synchronise: it meets the right indices, but not always the elements behind them (`ClearRace.cfg`). `size()`, `empty()`
and `full()` load relaxed as well and look at indices only. A relaxed load may be older than the model's; for
`clear()` that is a call made earlier, for `size()` see the first of the limits listed above. For the seqlock `SpscFsm` has
`StoresPassIncrement`: the increment that opens a bracket is a `fetch_add(release)`, which does not
keep later plain stores behind it. With `TRUE` a torn snapshot is possible; the runs use `FALSE`, the
order on x86.

## 4. What is proved

Proofs hold for every value of the constants that the modules' named assumptions admit.

`SpscRingProofs`, from `SpscRingAssumption` (capacity above one, a counter range that is a multiple of
the capacity, object markers that are no values):

* `TypeCorrect`: `Spec => []TypeOK`.
* `LifetimesCorrect`: `Spec => []LifetimesDisjoint`. `SeenInv` says that what `pop()` may touch has been
  acquired. Of `clear()` it is proved only what its relaxed load gives: of the elements that an earlier
  `pop()` has acquired it destroys live ones. Of the others nothing is promised (`ClearRace.cfg`).
* `SizeCorrect`: `Spec => []SizeWithinCapacity` unless a third thread observes. The condition is needed:
  `size()` loads the counters one after the other.
* `LiveCorrect`: `Spec => []LiveExactlyOccupied`, no element leaks or dies early.
* `FifoCorrect`: `Spec => RefinesFifo`, the ring implements `BoundedFifo` for every capacity, counter
  width and set of values, `clear()` racing with the producer included.

None of the properties is inductive, as they say nothing of local copies that are out of date. The
invariant `IInv` adds: `WindowInv`, the counters are at most a capacity apart and the slot of `head_`
is that many slots after the slot of `tail_`, going round; `ProducerInv` and `ConsumerInv`, a stale
copy of the other side's counter errs to the safe side; `SlotsInv`, what each slot holds according to
its distance from `tail_` and the place of both threads; `ObserverInv`, why an observer that is one
of the two sides cannot overestimate. The one arithmetic fact it rests on is `SlotInc`: the slot after
a counter is the next slot, also when the counter wraps, since its range is a multiple of the capacity.

The refinement needs nothing more. The queue is what lies in the slots at the distances from `tail_` up
to the count (`ContentsFacts`), a step that writes at another distance leaves it (`ContentsKept`), and
the steps that publish a counter append or drop at one end (`StepRefines`).

`SpscFsmProofs`, from `SpscFsmAssumption` (any capacity, words and number of operations, a counter that
does not come round within twice that number):

* `BarrierCorrect`: `Spec => []ResetIsBarrier`. `BarrierInv` says what is queued while a `reset()` is
  between its `clear()` and its end.
* `SnapshotCorrect`: `Spec => []SnapshotLinearizable` when `Undisturbed`: `tick()` writes no register
  and the increment that opens a bracket is not passed by later stores. `SeqInv`: `seq_` is odd exactly
  inside a bracket and too small to come round; `StableInv`: outside a bracket the registers are those
  of the last operation, which the current read may return; `ReadInv`: while `seq_` is what the reader
  loaded first, the words it has copied are those in the registers.

`FsmCoreProofs`, from `FsmCoreAssumption` (finitely many states ordered by containment in chains, any table,
timers, deferral lists and capacity), and for the last two theorems from `ChartMachineAssumption` (a
well-formed chart: a composite is what others have as their parent, and starts in a child of its own):

* `TypeCorrect`: `Spec => []TypeOK`.
* `ActiveCorrect`: `Leaves => (Spec => []ActiveConfiguration)`. The machine must start in a leaf and external
  rows must lead to leaves, as the emitter's rows do by `ChartLeaves`: the
  executor runs no entry actions below the state a row names. The invariant adds that the current
  state is a leaf.
* `TimersCorrect`, `NoStaleCorrect`: `Spec => []TimersMatchState`, `Spec => NoStaleTimeout`. `PendingInv` says
  of the timers `tick()` has collected that they are of the current stay until the table is re-armed.
* `OverstayCorrect`: `Spec => []ViolationIsOverstay`.
* `HistoryCorrect`: `Leaves => (Spec => []HistoryLeadsBack)`. `HistoryInv` says that the record of a composite
  that the machine has left leads down, by the records below it, to the leaf that was active, and that
  no record is written under a state the machine is not in. `down` is a recursive function; that
  it exists is shown from its closed sets (`BelowExists`), and that the way ends (`WayEnds`) by the
  state on it with the fewest levels to go, for which there must be finitely many.
* `ChartLeaves`: `PlainTargets => Leaves`, what the two theorems above ask of a table holds of the one
  emitted. `PlainTargets` says of the chart that it starts in a leaf, that internal transitions stay in
  leaves, and that shallow history is kept only over leaves; without the last two the emitted table is wrong,
  as section 3 says.
* `EntryCorrect`: `PlainTargets => (Spec => []EntryAsDeclared)`, from the chart through the emitter to the row
  that is executed. It needs no invariant but those of types and history. Sorting puts the transitions in a strict total
  order (`PrecedesFacts`, `OrderFacts`), so the first runnable row of the table lies among those of the
  transition that the chart gives precedence (`FirstOfMany`, `TakenRow`). Of its history rows exactly the one of the
  leaf last active can run (`RestoredSubstate`, by `HistoryLeadsBack`), and if none can, the composite was
  never left and the fallback row leads to the initial leaf. `Around`, `InitialLeaf`, `Substates` and `Table` are
  recursive functions; that they exist is shown along the nesting of the states (`WaysExist`, `DescentExists`)
  or the length of a list (`Recursion`).
* `ReturnsCorrect`: `Spec => RunToCompletion`, the measure `Remaining` falls in every step of a call.

`NextCases` sorts the actions by what they do to the machine: deliver an event, keep house, or one of
the calls with an effect of its own; each invariant is proved by these cases.

`ThreadSafeFsmProofs`, from `ThreadSafeFsmAssumption` (any sets of threads, controllers and states):

* `TypeCorrect`: `Spec => []TypeOK`; `dispatch_depth_` never goes below zero.
* `OneDispatcherCorrect`: `Spec => []OneDispatcher` when actions that `step()` and `tick()` run do not
  call `send()`. `IInv` is `TypeOK`, `ShapeInv` (who has a task in hand, where a call returns to, the
  worker is at work exactly while its `std::thread` runs) and `DispatcherInv`, which also describes the
  thread that waits for its own mutex when the condition is not met.
* `StopDrainsCorrect`: `Spec => StopDrains` when one thread stops the worker; all may post and start it. It needs
  `WorkerInv`, that nobody else is inside a stop and that a worker told to stop has nothing in hand once it is
  joined, and
  `OwedInv`: what a `stop_worker()` owes is settled, queued or being dispatched by some thread. When
  it returns, only other draining threads, or a worker that was started anew, have such an event in hand.
* `EachEventOnceCorrect`: `Spec => []EachEventOnce`, when actions that `step()` and `tick()` run do not call
  `send()`. `PlacesInv` spreads the numbers handed out so far over the hands of the threads, the queue, the timed posts
  and what is settled, without an overlap or a repetition; `HandsInv` says that a thread at a place where
  it may take a task has none in hand. That the counts agree then follows from the cardinality of
  disjoint unions.

`SnapshotRecorderProofs`, from `SnapshotRecorderAssumption` (any capacity, images, tags and names):

* `StackCorrect`: `Spec => RefinesStack`. The invariant is only the types (`RingInv`); the work is the
  arithmetic of the ring: what was `n` back is `n + 1` back after a `record()`, and what was `n + k` back is `k` back after
  a `rollback(n)`. Rewinding is the rollback to the least distance at which the tag is found.
* `LivedCorrect`: `Roomy => (InPlaceSpec => []HistoryAsLived)`, for names of any lengths. A restored history is views
  into slots of the ring, which `record()` goes on to overwrite, also while it reads them. `LivedInv` says that each
  pair of entry and record reads (`Reads`) what was lived, of the machine and of each slot. `PlacedFacts` says where
  the fields of a serialization go, which depends on the lengths alone; `AfterFacts`, by induction over the
  fields, that what is still to be read has not been overwritten by other bytes (`Untouched`), and
  `RecordReads` that afterwards every view reads the name it read before. The hypothesis is that of
  `InPlaceSpec`: a name that is viewed in the slot to be written is written where it is. With names of one length
  that holds by the layout; otherwise it depends on what the two lives visited, and without it `ShiftedHistory.cfg`
  refutes the property. `Roomy` is what `max_history_capacity` makes
  of the number of parents: the history never outgrows its static vector.

`ModelCheckerProofs`, from `ModelCheckerAssumption` (any finite set of states, any graphs and formulas):

* `HoldsOnRuns`, about the reference `Kripke`: a node is in the set that `Holds` gives a formula exactly when the runs from there, infinite or
  ended in a terminal node, do what the formula says; for all sixteen operators of both logics. It ties
  what TLC evaluates, and what the theorems on the checker are stated with, to the meaning on runs. A node
  in a least fixpoint is reached in finitely many rounds (`Iterates`, `Least`), from which a run
  is built; outside one, a run is built that stays outside for ever, by choosing a
  next node at each (`StaysRuns`, `CirclesRuns`). `NatSet` is induction over the naturals stated for
  sets, which the library's theorem with an operator parameter would not serve.
* `TypeCorrect`: `Spec => []TypeOK`. `TypeInv` adds which formula each control point has.
* `SearchCorrect`, `ReachableCorrect`: when the graph is built, the states found are the closure of the
  root, `Spec => []ReachableExact`. `SearchInv` is that of breadth-first search: what has been found is
  reachable, and closed but for the node in hand and those in the queue.
* `InevitableCorrect`: when P U Q, A[P U Q] or AF P is passed, Q comes on every infinite run, with P until
  then. It is stated on runs (`Runs`, `Inevitable` of `Kripke`), not on sets of nodes; `InevitableInv`
  says of the set in hand that from each of its nodes every run keeps the promise.
* `SatCorrect`: `Spec => []SatExact`, `VerdictCorrect`: `Spec => []VerdictSound`, `AlarmCorrect`:
  `Spec => []NoFalseAlarm`. `FixInv` keeps the set between start and any other
  fixpoint while the loop runs, and says of the end that a round changed nothing; `JudgeInv` says how the verdict
  depends on the
  set computed: `SatMeans` turns each set into that of `Holds`, `VerdictMeans` each verdict. The
  checks of `check_until` only ever add reachable states, so that its set must be shown to agree
  with that of the operator on those. `Holds` takes a state without successor to have no next state, as the code
  does: the documented equation of AX contains such a state (`NextDocumented.cfg`).
* `RunsCorrect`: the same verdicts stated on runs. On a flat machine what is passed (but for F P,
  G(P -> F Q) and GF P) is true of the runs from the root, what is refused is not.
* `CounterexampleCorrect`: `Spec => []CounterexampleReal`. `PredInv`: a predecessor is a state
  found that has an edge there, and only the root has none; `TraceInv`: what has been written so far is
  a run with the right end, and that of `check_until` stays outside the good set. That the walk back
  ends is left to `Answers`.

`MiddleEndProofs`, from `MiddleEndAssumption` (finitely many names, any set of well-formed machines that start in a
state, any pipelines):

* `EndCorrect`: `Spec => ComesToAnEnd`. `LoopInv` says that the blocks of the minimization are disjoint and not
  empty, so that there are no more of them than states; a round that changes them has split one
  (`RefinedFiner`), a fusion takes a state away.
* `TypeCorrect`: `Spec /\ [][NoBranchBack]_vars => []TypeOK`, which is that each pass leaves a
  well-formed machine (`FsmGraphOps::is_well_formed`), whatever the order they are run in, and
  that the emitted machine stays in its states. There is a lemma for each pass (`CanonicalFit` to `ChainedFit`) and one for
  what the emitter makes of the actions (`EmittedFit`).
  They rest on what its loops compute: a stable sort by a strict weak order is a permutation
  (`RankOnto`, `SortEls`), a search repeated as often as there are names is closed (`SearchEnds`), the blocks of
  the minimization cover the states, a representative stands for itself. `NoBranchBack` says that no choice has a
  branch back to itself when `ChoiceInlining` takes it up: `incoming` and `outgoing` of that pass then share the row, and the
  rows it composes come from the choice it erases. No machine of the run `middle_end` gets there, and under the
  conditions of `FlatCorrect` none does. That the recursive functions
  exist comes from one lemma (`Recursion`), what holds of their values from another (`Along`).
* `FlatCorrect`: if every source is `Lawful` and every pipeline `Lowers`, then `Spec => [](TypeOK /\ EmittedFlat)`: what
  is emitted rests in states only, a machine is refused for a circle of junctions only, and one that can
  reach such a circle is never emitted.
  - `Lowers`: the junctions are chained and then the choices inlined, neither before. Every pipeline of the
    tools does so (`pass_manager.cpp:746`, `:772`, `:797`, `fsmc_driver.hpp:292`, where only an analysis stands in
    between).
  - `Lawful`: the rows of a pseudostate have no event and it has one if it can be entered, no row without an
    event is dead, and where rows without an event go round, some of them go round through junctions alone: a circle
    that is not refused would be run for ever. `MCMiddleEnd` assumes both of its sources and pipelines, so
    that TLC evaluates them.
  - The argument is about edges. The passes are shown to do one of four things to them: keep them (sorting, factoring,
    boundary fusion), drop those that are dead or not reached (`Alive`), join the ways into a state to the
    ways out of it (`Bypass`: fusion, inlining), or identify states that look alike (`Quotient`: minimization, where the
    end of the refinement gives the states of a block equal edges). The emitter changes actions only (`EmittedKept`). Each keeps a machine lawful, adds no circle
    and loses none that can be reached (`Saves`). Chaining follows paths through junctions; without a circle of them the
    states have a rank that falls along rows without events (`NoCircleFalls`), by which every path ends
    (`PathsEnd`) and leads no higher (`PathsLead`). `FlatInv` has three stages: `Early`, lawful and with the
    circles of the source; `Mid`, no junctions, no circles, the edges into choices lead to choices still to inline;
    `Late`, every edge leads to a state. From `Mid` it follows that a choice has no branch back to itself,
    which `TypeCorrect` has to assume.

`DataPathProofs`, from `DataPathAssumption` (any machines with conjunctive guards and plain assignments, in rows
and in states, any number of states, registers and iterations):

* `TypeCorrect`: `Spec => []TypeOK`.
* `IntervalsCorrect`: if every machine is `AsAnalyzed`, then `Spec => [](worklist = << >> => IntervalsSound)`.
  `AsAnalyzed` is what the analysis takes for granted: no state assigns on entry or exit, and an out port without
  default has 0 in its contract. Nothing in the code sees to either: the builtin pipeline makes entry assignments, and
  `Hooked.cfg` and `OutPortZero.cfg` have the machines for which the theorem would be false. The analysis must have come to its end:
  cut off by the limit it promises nothing, though the run finds nothing wrong. `SearchInv` says of the
  worklist algorithm that what a row makes of the environment of a settled state lies within that of its
  target: a state is settled unless it waits, and the one in hand is as far as its rows have been looked
  at (`CoverInv`), on the environment copied when it was taken (`CurrInv`). Of
  joining and widening it needs only that the result contains both, of `Same` that equal is equal; ports keep
  at least their contract everywhere (`InputInv`), as they may change between two events. `RunInv` is the run inside those
  intervals; under it are lemmas for each operation on intervals (`PlusSound` to `ActionSound`), and that
  an action from which dead assignments are dropped is still an action of the model.
* `SameBehaviourCorrect`: if moreover in no machine two rows join the same two states, then
  `Spec => [](worklist = << >> => SameBehaviour)`. `PruneInv`: what is erased is a row whose guard is false
  everywhere in the intervals of its source, so by `IntervalsCorrect` no run would take it; the condition
  makes the row found by its two states the one that was meant. `ActInv`: the action in hand is the
  source's without stores that a later one overwrites or that nobody reads. `TwinInv`: both machines
  are in one state and agree on every register that can be read. Without one of the conditions
  `PrunedAlive.cfg`, `Hooked.cfg` and `OutPortZero.cfg` refute the property.
* `CutOffCorrect`: with `3 * Cardinality(States) =< MaxIterations`, `Spec => []CutOffOnlyUnbounded`. While every
  interval is finite, an environment that is met again differs only by a widening, which takes the finite bound
  away; so no state is worked on more often than three times. For the limit of 200 in the code this
  covers machines of 66 states.

Only model-checked:

* liveness and everything that rests on fairness (`SnapshotReturns`, `Answered`, `CallsReturn`, `Answers`), which the
  prover does not reach;
* that `MiddleEnd` refines `MachineRun`, which
  needs of the sources what `MCMiddleEnd` says of them (complete choices, transient states without guards, names that no
  two rows share for their assignments);
* of `DataPath` that `IntervalsSound` and `SameBehaviour` hold for an analysis that was
  cut off, as those of the run are.

No module that is proved about, or that is meant to be, has a RECURSIVE operator.

## 5. What is not modelled

* Exceptions thrown by actions, and what they leave behind (an odd `seq_`, a replay flag that stays
  set); port access; observer and notification callbacks.
* What is left of a program that `std::terminate` has ended, and the data race on `worker_thread_` that goes with
  it; draining calls from inside actions; the timer thread of `post_delayed` beyond the order of deadlines.
* The condition variable of the worker: waiting is a guard, so that a lost wakeup could not be seen.
  Actions of `step()` and `tick()` that call `send()` wait for their own thread; the runs leave them out
  (`StepsSend = FALSE`), and the theorems that need it say so.
* Snapshots that come from outside the recorder: magic, version and checksum tests; the deferred queue
  and last violation that `deserialize()` leaves alone.
* Two timed rows of equal duration in one configuration, which share an event type.
* Of the data path: disjunctions and negations in guards, compound assignments, products of variables and
  division, the width of integers and rounding; actions of the same name on several rows, which the emitter
  merges (`SharedName.cfg` shows what comes of it); conversion of text to expressions. Composites in the model checker
  are covered by `ReachableExact` only: CTL and the components follow transitions, so substates are no
  successors of their composite.
* Of the passes those that lower what flat machines do not have (hierarchy, history, deferral, fork and
  join, orthogonal regions, submachines) and those on expressions and registers (constant folding, guard
  simplification, register allocation); passes that only report.
* Of emission: `include_stubs` off, where the user supplies every action and assignments are no business of the
  emitter. A service that a composed name stands for (`a_b`) is nobody's, so that the passing runs compose
  assignments only; a struct with assignments cannot be called from an entry or exit of a state, and such
  a machine does not compile (`Builds`). In `DataPath` entry and exit assignments do run, as the user's
  code does where the stubs are off.
* The other analyses, plugins (loaded by `dlopen`), the flight recorder, the static containers, the IR's
  JSON form, frontends, other backends, tools. Frontends and backends turn text into data and back
  without control worth a model; the standalone headers of `include/fsm/backend/cpp` are the runtime
  again, as strings to be written out.

## 6. Plan

Done, in this order: the ring and its proof; the SPSC machine; the synchronous machine with the emitted
table; the active object and its proof; the snapshot recorder; the model checker and its proof; the
optimizing passes and pipelines; the refinement proof of the ring; the data path and its proof; the proofs of the
SPSC machine and of the synchronous machine; the proofs that the active object keeps each event once and
that the recorder is a stack; the proofs that the data path keeps the behaviour, that history leads
back, that what the recorder restores is what was lived, that events lead where the chart says through the emitted
table, that the checker's verdicts and counterexamples are right, that its reference means what the
runs do, and that the passes come to an end, leave machines well formed and emit no pseudostate. Next:

1. Atoms over registers in `ModelChecker`, from the intervals of `DataPath`; disjunctive guards and compound
   assignments there, which make its properties fail.
2. The lowering passes, against `FsmCore`: deferral, history, fork and join, orthogonal product.
3. Exceptions in `FsmCore` and `SpscFsm`; `SpscFsm` composed with `FsmCore`'s `dispatch_direct`, which
   has no deferral; `SnapshotRecorder` composed with the parts of `FsmCore` that snapshots leave out; a
   second chart with equal timer durations; the flight recorder.
4. Theorems: that the passes keep the behaviour of the source (`RefinesSource`), pass by pass.
