------------------------------ MODULE DataPath ------------------------------
(***************************************************************************)
(* The data path of a machine: registers and ports, guards that compare    *)
(* them and actions that assign them.  DeadActionElimination, then         *)
(* EFSMIntervalAnalyzer with EFSMDataPathPass, which prunes rows by what   *)
(* it finds, then the run of what is emitted beside the run of the source. *)
(*                                                                         *)
(* Values are integers.  A guard is a conjunction of comparisons with      *)
(* numbers; an action has up to three plain assignments, with expressions  *)
(* that start with a variable or are a number.  Each has a name of its own. *)
(***************************************************************************)
EXTENDS Integers, Sequences, FiniteSets

CONSTANTS
  States, Root,    \* ir.states and the initial one
  Events,
  Vars,            \* registers and ports
  Inf, None, Skip, \* no bound, no initial value, no assignment
  MaxIterations,   \* kMaxIterations
  Sources,         \* bound: the machines
  Values,          \* bound: what registers and ports may hold in a run
  Atoms            \* bound: the comparisons the model checker is asked about

Slots       == 1..3
Bounds      == Int \cup {Inf}
Intervals   == [lo : Bounds, hi : Bounds]
Comparisons == [var : Vars, op : {">=", ">", "<=", "<", "==", "!="}, k : Int]
Expressions ==
  [op : {"number"}, k : Int]
    \cup [op : {"copy"}, v : Vars]
    \cup [op : {"plus", "minus", "times"}, v : Vars, k : Int \ {0}]
    \cup [op : {"sum", "difference"}, v : Vars, w : Vars]
Assignments == [var : Vars, expr : Expressions]
Actions == [Slots -> Assignments \cup {Skip}]
Nothing == [j \in Slots |-> Skip]
Rows == [src : States, event : Events, guard : Seq(Comparisons), tgt : States, act : Actions]
Machines ==
  [kind : [Vars -> {"reg", "in", "out"}], initial : [Vars -> Int \cup {None}],
   contract : [Vars -> Intervals], rows : Seq(Rows),
   entry : [States -> Actions], exit : [States -> Actions]]

Contains(i, x) == /\ i.lo # Inf => i.lo <= x
                  /\ i.hi # Inf => x <= i.hi

ActionsOf(m) == {m.rows[i].act : i \in DOMAIN m.rows}
                  \cup {m.entry[s] : s \in States} \cup {m.exit[s] : s \in States}

\* What a frontend hands over: contracts that can be met, input ports that are
\* neither constant nor assigned, guards over what can be read.
Sensible(m) ==
  /\ \A i \in DOMAIN m.rows : \A n \in DOMAIN m.rows[i].guard :
       m.kind[m.rows[i].guard[n].var] # "out"
  /\ \A v \in Vars :
       /\ \E x \in Values : Contains(m.contract[v], x)
       /\ m.kind[v] = "in" =>
            /\ m.initial[v] = None
            /\ \A a \in ActionsOf(m), j \in Slots : a[j] # Skip => a[j].var # v

Assumptions ==
  /\ Root \in States
  /\ Inf \notin Int /\ None \notin Int \cup States /\ Skip \notin Assignments
  /\ Sources \subseteq Machines /\ \A m \in Sources : Sensible(m)
  /\ MaxIterations \in Nat /\ Values \subseteq Int /\ Atoms \subseteq Comparisons

ASSUME DataPathAssumption == Assumptions

VARIABLES
  source,      \* the machine as parsed
  act,         \* the actions of its rows as the passes have left them
  env, seen,   \* state_envs, and its keys
  worklist,    \* worklist; in_worklist are its elements
  visits,      \* state_visits
  iterations,
  curr, base,  \* curr_state, None between two states, and curr_env
  at,          \* the rows before this one have been looked at
  findings,    \* those that pruning has still to go through
  alive,       \* the rows left
  phase,       \* "start", "analyze", "prune" or "run"
  state, vals, \* of the emitted machine
  twin, tvals, \* of the source machine
  kept         \* the source has kept its contracts

analysisVars == <<env, seen, worklist, visits, iterations, curr, base, at>>
pruneVars    == <<findings, alive>>
runVars      == <<state, vals, twin, tvals, kept>>
vars == <<source, act, analysisVars, pruneVars, phase, runVars>>

-----------------------------------------------------------------------------
(* Interval                                                                *)

Top      == [lo |-> Inf, hi |-> Inf]
Point(k) == [lo |-> k, hi |-> k]

Below(a, b) == a = Inf \/ (b # Inf /\ a <= b)   \* lower bounds
Above(a, b) == a = Inf \/ (b # Inf /\ b <= a)   \* upper bounds

Plus(a, b)  == IF a = Inf \/ b = Inf THEN Inf ELSE a + b
Minus(a, b) == IF a = Inf \/ b = Inf THEN Inf ELSE a - b
Times(a, k) == IF a = Inf THEN Inf ELSE a * k

Disjoint(i, j) ==
  \/ i.lo # Inf /\ j.hi # Inf /\ j.hi < i.lo
  \/ j.lo # Inf /\ i.hi # Inf /\ i.hi < j.lo

Join(i, j) == [lo |-> IF Below(i.lo, j.lo) THEN i.lo ELSE j.lo,
               hi |-> IF Above(i.hi, j.hi) THEN i.hi ELSE j.hi]

\* Mutant: a bound that moves is taken over instead of given up.
WidenToNew(i, j) == [lo |-> IF Below(i.lo, j.lo) THEN i.lo ELSE j.lo,
                     hi |-> IF Above(i.hi, j.hi) THEN i.hi ELSE j.hi]

Widen(i, j) == [lo |-> IF Below(i.lo, j.lo) THEN i.lo ELSE Inf,
                hi |-> IF Above(i.hi, j.hi) THEN i.hi ELSE Inf]

\* operator==: the difference of two infinities is no number, and differs.
Same(i, j) == Inf \notin {i.lo, i.hi, j.lo, j.hi} /\ i = j

-----------------------------------------------------------------------------
(* apply_assignment, and what the assignment does.                         *)

\* A number is added to or taken from the variable itself, or nothing is known.
RangeOf(e, x, en) ==
  CASE e.op = "number"     -> Point(e.k)
    [] e.op = "copy"       -> en[e.v]
    [] e.op = "plus"       -> IF e.v # x THEN Top
                              ELSE [lo |-> Plus(en[x].lo, e.k), hi |-> Plus(en[x].hi, e.k)]
    [] e.op = "minus"      -> IF e.v # x THEN Top
                              ELSE [lo |-> Minus(en[x].lo, e.k), hi |-> Minus(en[x].hi, e.k)]
    [] e.op = "times"      -> IF e.k > 0
                              THEN [lo |-> Times(en[e.v].lo, e.k), hi |-> Times(en[e.v].hi, e.k)]
                              ELSE [lo |-> Times(en[e.v].hi, e.k), hi |-> Times(en[e.v].lo, e.k)]
    [] e.op = "sum"        -> [lo |-> Plus(en[e.v].lo, en[e.w].lo),
                               hi |-> Plus(en[e.v].hi, en[e.w].hi)]
    [] e.op = "difference" -> [lo |-> Minus(en[e.v].lo, en[e.w].hi),
                               hi |-> Minus(en[e.v].hi, en[e.w].lo)]

ValueOf(e, val) ==
  CASE e.op = "number"     -> e.k
    [] e.op = "copy"       -> val[e.v]
    [] e.op = "plus"       -> val[e.v] + e.k
    [] e.op = "minus"      -> val[e.v] - e.k
    [] e.op = "times"      -> val[e.v] * e.k
    [] e.op = "sum"        -> val[e.v] + val[e.w]
    [] e.op = "difference" -> val[e.v] - val[e.w]

Assign(en, a) == IF a = Skip THEN en ELSE [en EXCEPT ![a.var] = RangeOf(a.expr, a.var, en)]
Store(val, a) == IF a = Skip THEN val ELSE [val EXCEPT ![a.var] = ValueOf(a.expr, val)]

\* After the assignments up to slot j.
AssignTo(en, as, j) == LET one == Assign(en, as[1]) two == Assign(one, as[2])
                       IN CASE j = 1 -> one [] j = 2 -> two [] j = 3 -> Assign(two, as[3])
StoreTo(val, as, j) == LET one == Store(val, as[1]) two == Store(one, as[2])
                       IN CASE j = 1 -> one [] j = 2 -> two [] j = 3 -> Store(two, as[3])

Satisfies(val, c) ==
  CASE c.op = ">=" -> val[c.var] >= c.k
    [] c.op = ">"  -> val[c.var] > c.k
    [] c.op = "<=" -> val[c.var] <= c.k
    [] c.op = "<"  -> val[c.var] < c.k
    [] c.op = "==" -> val[c.var] = c.k
    [] c.op = "!=" -> val[c.var] # c.k

GuardHolds(g, val) == \A n \in DOMAIN g : Satisfies(val, g[n])

-----------------------------------------------------------------------------
(* Init, and DeadActionElimination, which only some pipelines run.         *)

InitialEnv(m) ==
  [v \in Vars |-> IF m.initial[v] # None THEN Point(m.initial[v])
                  ELSE IF m.kind[v] = "reg" THEN Top ELSE m.contract[v]]

Unstarted == [v \in Vars |-> 0]

Init ==
  /\ source \in Sources
  /\ act = [i \in DOMAIN source.rows |-> source.rows[i].act]
  /\ env = [s \in States |-> InitialEnv(source)] /\ seen = {Root}
  /\ worklist = <<Root>> /\ visits = [s \in States |-> 0] /\ iterations = 0
  /\ curr = None /\ base = InitialEnv(source) /\ at = 0
  /\ findings = {} /\ alive = DOMAIN source.rows
  /\ phase = "start"
  /\ state = Root /\ twin = Root /\ vals = Unstarted /\ tvals = Unstarted /\ kept = TRUE

Mentioned(e) == CASE e.op = "number" -> {}
                  [] e.op \in {"copy", "plus", "minus", "times"} -> {e.v}
                  [] e.op \in {"sum", "difference"} -> {e.v, e.w}
Reads(a) == IF a = Skip THEN {} ELSE Mentioned(a.expr)

\* read_vars: what some guard or some expression mentions.
ReadVars(m) ==
  (UNION {{m.rows[i].guard[n].var : n \in DOMAIN m.rows[i].guard} : i \in DOMAIN m.rows})
    \cup (UNION {Reads(a[j]) : a \in ActionsOf(m), j \in Slots})

Writes(a, v) == a # Skip /\ a.var = v

\* Mutant: any later assignment overwrites, read in between or not.
OverwrittenAnyway(as, j) == \E l \in j + 1 .. 3 : Writes(as[l], as[j].var)

\* Case C: a later assignment overwrites, and none up to it reads.
Overwritten(as, j) ==
  \E l \in j + 1 .. 3 :
    /\ Writes(as[l], as[j].var)
    /\ \A n \in j + 1 .. l : as[j].var \notin Reads(as[n])

\* Case A: x = x.  Case B: a register nothing reads.
Dead(m, as, j) ==
  /\ as[j] # Skip
  /\ \/ as[j].expr = [op |-> "copy", v |-> as[j].var]
     \/ m.kind[as[j].var] = "reg" /\ as[j].var \notin ReadVars(m)
     \/ Overwritten(as, j)

Begin(new) ==
  /\ phase = "start" /\ phase' = "analyze"
  /\ act' = new
  /\ UNCHANGED <<source, analysisVars, pruneVars, runVars>>

Eliminate ==
  Begin([i \in DOMAIN act |->
           [j \in Slots |-> IF Dead(source, act[i], j) THEN Skip ELSE act[i][j]]])
Leave == Begin(act)

-----------------------------------------------------------------------------
(* compute_state_intervals                                                 *)

Waiting == {worklist[n] : n \in DOMAIN worklist}

Pop ==
  /\ phase = "analyze" /\ curr = None
  /\ worklist # << >> /\ iterations < MaxIterations
  /\ curr' = Head(worklist) /\ base' = env[Head(worklist)] /\ at' = 0
  /\ worklist' = Tail(worklist)
  /\ visits' = [visits EXCEPT ![Head(worklist)] = @ + 1]
  /\ iterations' = iterations + 1
  /\ UNCHANGED <<source, act, env, seen, pruneVars, phase, runVars>>

Looked(i) == at < i /\ i \in DOMAIN source.rows /\ source.rows[i].src = curr

Merged(t, next) ==
  IF t \notin seen THEN next
  ELSE [v \in Vars |-> IF visits[t] >= 3 THEN Widen(env[t][v], next[v])
                                         ELSE Join(env[t][v], next[v])]

\* Mutant: only a state seen for the first time is worked on.
ChangesOnce(t, next) == t \notin seen

Changes(t, next) == t \notin seen \/ \E v \in Vars : ~Same(Merged(t, next)[v], env[t][v])

\* The next row out of the state in hand.
Propagate(i) ==
  /\ phase = "analyze" /\ curr # None
  /\ Looked(i) /\ \A n \in 1 .. i - 1 : ~Looked(n)
  /\ LET t    == source.rows[i].tgt
         next == AssignTo(base, act[i], 3)
     IN /\ env' = [env EXCEPT ![t] = Merged(t, next)]
        /\ seen' = seen \cup {t}
        /\ worklist' = IF Changes(t, next) /\ t \notin Waiting THEN Append(worklist, t)
                                                               ELSE worklist
  /\ at' = i
  /\ UNCHANGED <<source, act, visits, iterations, curr, base, pruneVars, phase, runVars>>

Finish ==
  /\ phase = "analyze" /\ curr # None
  /\ \A i \in DOMAIN source.rows : ~Looked(i)
  /\ curr' = None
  /\ UNCHANGED <<source, act, env, seen, worklist, visits, iterations, base, at,
                 pruneVars, phase, runVars>>

-----------------------------------------------------------------------------
(* analyze(), and the pruning of EFSMDataPathPass.                         *)

\* parse_guard_domain: the first comparison of v that bounds it.
Bounding(g, v) == {n \in DOMAIN g : g[n].var = v /\ g[n].op # "!="}
Domain(c) ==
  CASE c.op = ">=" -> [lo |-> c.k, hi |-> Inf]
    [] c.op = ">"  -> [lo |-> c.k + 1, hi |-> Inf]
    [] c.op = "<=" -> [lo |-> Inf, hi |-> c.k]
    [] c.op = "<"  -> [lo |-> Inf, hi |-> c.k - 1]
    [] c.op = "==" -> Point(c.k)
GuardDomain(g, v) == Domain(g[CHOOSE n \in Bounding(g, v) : \A l \in Bounding(g, v) : n <= l])

Unsatisfiable(i, v) ==
  LET g == source.rows[i].guard
  IN Bounding(g, v) # {} /\ Disjoint(env[source.rows[i].src][v], GuardDomain(g, v))

Breaks(i, j) ==
  LET a == act[i][j]
  IN a # Skip /\ Disjoint(source.contract[a.var],
                          AssignTo(env[source.rows[i].src], act[i], j)[a.var])

\* One finding for each variable and for each assignment.
Findings ==
  LET rows == {i \in DOMAIN source.rows : source.rows[i].src \in seen}
  IN {f \in rows \X Vars : Unsatisfiable(f[1], f[2])}
       \cup {f \in rows \X Slots : Breaks(f[1], f[2])}

Report ==
  /\ phase = "analyze" /\ curr = None
  /\ worklist = << >> \/ iterations = MaxIterations
  /\ findings' = Findings /\ phase' = "prune"
  /\ UNCHANGED <<source, act, analysisVars, alive, runVars>>

First(I) == {i \in I : \A n \in I : i <= n}

\* The first row left that joins the same two states is taken for the row found.
Alike(i) == {n \in alive : /\ source.rows[n].src = source.rows[i].src
                           /\ source.rows[n].tgt = source.rows[i].tgt}

Prune(f) ==
  /\ phase = "prune" /\ f \in findings
  /\ alive' = alive \ First(Alike(f[1]))
  /\ findings' = findings \ {f}
  /\ UNCHANGED <<source, act, analysisVars, phase, runVars>>

-----------------------------------------------------------------------------
(* The machine that is emitted, and the source.                            *)

Inputs == {v \in Vars : source.kind[v] = "in"}

RowsAlone(m) == \A s \in States : m.entry[s] = Nothing /\ m.exit[s] = Nothing

\* Actions of states are generated without their assignments (Machine's Emitted):
\* when some have any, the user supplies all actions, as they were written.
Written == [i \in DOMAIN source.rows |-> source.rows[i].act]
Supplied == IF RowsAlone(source) THEN act ELSE Written

\* Out ports start at 0, other values without initial one anywhere in their range.
StartEnv ==
  [v \in Vars |-> IF source.kind[v] = "out" /\ source.initial[v] = None THEN Point(0)
                  ELSE InitialEnv(source)[v]]

\* The entry action of the initial state has the registers, and ports of its own.
Dummy(val) == [v \in Vars |-> IF source.kind[v] = "reg" THEN val[v]
                              ELSE IF source.initial[v] # None THEN source.initial[v] ELSE 0]
Entered(val) ==
  [v \in Vars |-> IF source.kind[v] = "reg" THEN StoreTo(Dummy(val), source.entry[Root], 3)[v]
                                            ELSE val[v]]

\* Any values the declarations admit.
Start(val) ==
  /\ phase = "prune" /\ findings = {}
  /\ \A v \in Vars : Contains(StartEnv[v], val[v])
  /\ phase' = "run"
  /\ vals' = Entered(val) /\ tvals' = Entered(val)
  /\ vals' \in [Vars -> Values]
  /\ UNCHANGED <<source, act, analysisVars, pruneVars, state, twin, kept>>

Enabled(I, s, e, val) ==
  {i \in I : /\ source.rows[i].src = s /\ source.rows[i].event = e
             /\ GuardHolds(source.rows[i].guard, val)}

\* The exit action, that of the row, the entry action.
Left(i, val)         == StoreTo(val, source.exit[source.rows[i].src], 3)
Acted(acts, i, val)  == StoreTo(Left(i, val), acts[i], 3)
Effect(acts, i, val) == StoreTo(Acted(acts, i, val), source.entry[source.rows[i].tgt], 3)

Keeps(as, val) ==
  \A j \in Slots :
    as[j] # Skip => Contains(source.contract[as[j].var], StoreTo(val, as, j)[as[j].var])
KeepsContracts(i, val) ==
  /\ Keeps(source.exit[source.rows[i].src], val)
  /\ Keeps(source.rows[i].act, Left(i, val))
  /\ Keeps(source.entry[source.rows[i].tgt], Acted(Written, i, val))

With(val, ins) == [v \in Vars |-> IF v \in Inputs THEN ins[v] ELSE val[v]]

\* An event with fresh inputs, given to both.
Handle(e, ins) ==
  /\ phase = "run" /\ kept
  /\ \A v \in Inputs : Contains(source.contract[v], ins[v])
  /\ LET now  == With(vals, ins)
         tnow == With(tvals, ins)
         I    == Enabled(alive, state, e, now)
         T    == Enabled(DOMAIN source.rows, twin, e, tnow)
     IN /\ \/ I = {} /\ state' = state /\ vals' = now
           \/ \E i \in First(I) : /\ state' = source.rows[i].tgt
                                  /\ vals' = Effect(Supplied, i, now)
        /\ \/ T = {} /\ twin' = twin /\ tvals' = tnow /\ kept' = TRUE
           \/ \E i \in First(T) : /\ twin' = source.rows[i].tgt
                                  /\ tvals' = Effect(Written, i, tnow)
                                  /\ kept' = KeepsContracts(i, tnow)
  /\ vals' \in [Vars -> Values] /\ tvals' \in [Vars -> Values]
  /\ UNCHANGED <<source, act, analysisVars, pruneVars, phase>>

\* A machine that has broken a contract is not followed any further.
Broken == phase = "run" /\ ~kept /\ UNCHANGED vars

Next ==
  \/ Eliminate \/ Leave \/ Pop \/ Finish \/ Report \/ Broken
  \/ \E i \in DOMAIN source.rows : Propagate(i)
  \/ \E f \in findings : Prune(f)
  \/ \E val \in [Vars -> Values] : Start(val)
  \/ \E e \in Events, ins \in [Inputs -> Values] : Handle(e, ins)

Spec == Init /\ [][Next]_vars

-----------------------------------------------------------------------------
(* eval_atom_predicate: a comparison at a state, as ModelChecker judges it  *)
(* by an interval that is bounded.                                         *)

Always(i, c) ==
  CASE c.op = ">=" -> i.lo # Inf /\ i.lo >= c.k
    [] c.op = ">"  -> i.lo # Inf /\ i.lo > c.k
    [] c.op = "<=" -> i.hi # Inf /\ i.hi <= c.k
    [] c.op = "<"  -> i.hi # Inf /\ i.hi < c.k
    [] c.op = "==" -> i = Point(c.k)
    [] c.op = "!=" -> \/ i.lo # Inf /\ i.lo > c.k
                      \/ i.hi # Inf /\ i.hi < c.k

Judged(s, c) ==
  /\ s \in seen /\ env[s][c.var] # Top
  /\ Always(env[s][c.var], c)

-----------------------------------------------------------------------------
(* Properties                                                              *)

TypeOK ==
  /\ source \in Sources
  /\ act \in [DOMAIN source.rows -> Actions]
  /\ env \in [States -> [Vars -> Intervals]] /\ seen \in SUBSET States
  /\ worklist \in Seq(States) /\ visits \in [States -> Nat] /\ iterations \in Nat
  /\ curr \in States \cup {None} /\ base \in [Vars -> Intervals] /\ at \in Nat
  /\ findings \subseteq (DOMAIN source.rows) \X (Vars \cup Slots)
  /\ alive \in SUBSET DOMAIN source.rows
  /\ phase \in {"start", "analyze", "prune", "run"}
  /\ {state, twin} \subseteq States /\ kept \in BOOLEAN
  /\ vals \in [Vars -> Int] /\ tvals \in [Vars -> Int]

\* What the analysis takes for granted: rows alone assign, and out ports may be 0.
AsAnalyzed(m) ==
  /\ RowsAlone(m)
  /\ \A v \in Vars : m.kind[v] = "out" /\ m.initial[v] = None => Contains(m.contract[v], 0)

\* Wherever the emitted machine comes, its registers and ports are in the
\* intervals computed for that state, and comparisons judged by them hold.
IntervalsSound ==
  phase = "run" =>
    /\ state \in seen
    /\ \A v \in Vars : Contains(env[state][v], vals[v])
    /\ \A c \in Atoms : Judged(state, c) => Satisfies(vals, c)

\* As long as the source keeps its contracts, neither the eliminated actions
\* nor the pruned rows can be missed: the machine that is emitted is in the
\* same state, and what can be read has the same value.
SameBehaviour ==
  phase = "run" /\ kept =>
    /\ state = twin
    /\ \A v \in Vars : source.kind[v] # "reg" \/ v \in ReadVars(source) => vals[v] = tvals[v]

\* The widening settles the analysis: it is cut off by its limit only when
\* some interval has no bound.
CutOffOnlyUnbounded ==
  phase \in {"prune", "run"} /\ worklist # << >> =>
    \E s \in seen, v \in Vars : Inf \in {env[s][v].lo, env[s][v].hi}
=============================================================================
