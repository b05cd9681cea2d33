---------------------------- MODULE ModelChecker ----------------------------
(***************************************************************************)
(* ModelChecker (middleend/analysis/model_checker.cpp): the LTL and CTL    *)
(* checker behind ModelCheckingPass.  The constructor explores the graph   *)
(* of the machine, verify_property() then answers one formula after the    *)
(* other, with a counterexample where it can give one.                     *)
(*                                                                         *)
(* The machine is its graph: a transition is an edge, whatever its event   *)
(* and guard, and kids[n] are the substates of a composite.  Evaluating an *)
(* operand at a state is abstracted to the set of states where it holds.   *)
(* Loops over the unordered containers of the code take any order.         *)
(***************************************************************************)
EXTENDS Kripke, FiniteSets, Sequences

CONSTANTS
  Root,     \* root_state_
  Graphs,   \* bound: the machines, records of succ and kids
  Asked,    \* bound: the formulas asked
  None      \* no node, no formula

Assumptions ==
  /\ IsFiniteSet(Nodes) /\ Root \in Nodes /\ None \notin Nodes
  /\ Graphs \subseteq [succ : [Nodes -> SUBSET Nodes], kids : [Nodes -> SUBSET Nodes]]
  /\ Asked \subseteq Formulas /\ None \notin Formulas

ASSUME ModelCheckerAssumption == Assumptions

VARIABLES
  succ, kids,   \* adj_ without its labels; the substates of each composite
  queue, curr,  \* the breadth-first search of build_graph
  reachable,    \* reachable_states_
  pred,         \* predecessor_map_
  pc,           \* "build", "ready", "direct", "fix", "trace", "unwind", "done"
  formula,      \* the formula being verified
  sat,          \* good_states, or the set compute_sat() is computing
  verdict,      \* passed
  trace         \* counterexample_trace, its states

graphVars == <<succ, kids, queue, curr, reachable, pred>>
vars == <<graphVars, pc, formula, sat, verdict, trace>>

Init ==
  /\ \E g \in Graphs : succ = g.succ /\ kids = g.kids
  /\ queue = << >> /\ curr = Root /\ reachable = {Root}
  /\ pred = [n \in Nodes |-> None]
  /\ pc = "build"
  /\ formula = None /\ sat = {} /\ verdict = TRUE /\ trace = << >>

-----------------------------------------------------------------------------
(* build_graph: breadth first, substates before successors.                *)

\* Mutant: a substate is not entered through its composite.
UndiscoveredFlat == succ[curr] \ reachable

Undiscovered == IF kids[curr] \subseteq reachable THEN succ[curr] \ reachable
                                                  ELSE kids[curr] \ reachable

Discover(n) ==
  /\ pc = "build" /\ n \in Undiscovered
  /\ reachable' = reachable \cup {n}
  /\ pred' = [pred EXCEPT ![n] = curr]
  /\ queue' = Append(queue, n)
  /\ UNCHANGED <<succ, kids, curr, pc, formula, sat, verdict, trace>>

NextNode ==
  /\ pc = "build" /\ Undiscovered = {} /\ queue # << >>
  /\ curr' = Head(queue) /\ queue' = Tail(queue)
  /\ UNCHANGED <<succ, kids, reachable, pred, pc, formula, sat, verdict, trace>>

Built ==
  /\ pc = "build" /\ Undiscovered = {} /\ queue = << >>
  /\ pc' = "ready"
  /\ UNCHANGED <<graphVars, formula, sat, verdict, trace>>

-----------------------------------------------------------------------------
(* Formulas answered by looking at each reachable state once.              *)

\* Mutant: a component is everything its state reaches.
ComponentOneWay(n) == Reach(succ, n)

\* The component of n among the strongly connected ones (find_sccs).
Component(n) == {m \in Reach(succ, n) : n \in Reach(succ, m)}
Cyclic(C)    == \E m \in C : succ[m] \cap C # {}

\* Where the counterexamples a check may return end, none when it passes.
InvariantEnds    == {<<s>> : s \in reachable \ formula.p}
ReachabilityEnds == IF reachable \cap formula.p = {} THEN {<< >>} ELSE {}
ResponseEnds     == {<<s>> : s \in {n \in reachable \cap formula.p :
                                      Reach(succ, n) \cap formula.q = {}}}
NextEnds(froms, goal) ==
  {<<s>> : s \in froms \cap Terminal(succ)}
    \cup UNION {{<<s, t>> : t \in succ[s] \ goal} : s \in froms}
RecurrenceEnds ==
  {<<s>> : s \in {n \in reachable : LET C == Component(n) IN
                                      Cyclic(C) /\ C \cap formula.p = {}}}
    \cup {<<s>> : s \in (reachable \cap Terminal(succ)) \ formula.p}
PersistenceEnds ==
  {<<s>> : s \in {n \in reachable \ formula.p :
                    Cyclic(Component(n)) \/ n \in Terminal(succ)}}

DirectEnds ==
  CASE formula.op = "G"            -> InvariantEnds
    [] formula.op = "F"            -> ReachabilityEnds
    [] formula.op = "X"            -> NextEnds({Root}, formula.p)
    [] formula.op = "Response"     -> ResponseEnds
    [] formula.op = "NextResponse" -> NextEnds(reachable \cap formula.p, formula.q)
    [] formula.op = "GF"           -> RecurrenceEnds
    [] formula.op = "FG"           -> PersistenceEnds

DirectOps == {"G", "F", "X", "Response", "NextResponse", "GF", "FG"}

\* Return the counterexample that ends with end.
Fail(end) ==
  /\ verdict' = FALSE
  /\ trace' = end
  /\ pc' = IF end = << >> THEN "done" ELSE "unwind"

Pass == verdict' = TRUE /\ trace' = << >> /\ pc' = "done"

Direct ==
  /\ pc = "direct"
  /\ IF DirectEnds = {} THEN Pass ELSE \E end \in DirectEnds : Fail(end)
  /\ UNCHANGED <<graphVars, formula, sat>>

\* reconstruct_trace: from the end to the root, against the predecessors, which
\* form a tree, so that its check for a repeated state never applies.
Unwind ==
  /\ pc = "unwind"
  /\ IF Head(trace) = Root \/ pred[Head(trace)] = None
       THEN pc' = "done" /\ UNCHANGED trace
       ELSE trace' = <<pred[Head(trace)]>> \o trace /\ UNCHANGED pc
  /\ UNCHANGED <<graphVars, formula, sat, verdict>>

-----------------------------------------------------------------------------
(* P U Q: check_until.                                                     *)

\* Mutant: a state without successor joins.
CanJoinTerminal(n) ==
  /\ n \in (reachable \cap formula.p) \ sat
  /\ succ[n] \cap reachable \subseteq sat

\* The states its loop may add next.
CanJoin(n) ==
  /\ n \in (reachable \cap formula.p) \ sat
  /\ succ[n] # {}
  /\ succ[n] \cap reachable \subseteq sat

Join(n) ==
  /\ pc = "fix" /\ formula.op = "U" /\ CanJoin(n)
  /\ sat' = sat \cup {n}
  /\ UNCHANGED <<graphVars, pc, formula, verdict, trace>>

JoinEnd ==
  /\ pc = "fix" /\ formula.op = "U" /\ \A n \in Nodes : ~ CanJoin(n)
  /\ IF Root \in sat THEN Pass
     ELSE verdict' = FALSE /\ trace' = <<Root>> /\ pc' = "trace"
  /\ UNCHANGED <<graphVars, formula, sat>>

last == trace[Len(trace)]

\* The counterexample ends where Q holds, P fails or nothing follows ...
TraceEnd ==
  /\ pc = "trace"
  /\ last \in formula.q \/ last \notin formula.p \/ succ[last] = {}
  /\ pc' = "done"
  /\ UNCHANGED <<graphVars, formula, sat, verdict, trace>>

\* Mutant: any successor will do.
TraceStepAny(n) ==
  /\ pc = "trace"
  /\ last \notin formula.q /\ last \in formula.p
  /\ n \in succ[last]
  /\ trace' = Append(trace, n)
  /\ pc' = IF \E i \in DOMAIN trace : trace[i] = n THEN "done" ELSE "trace"
  /\ UNCHANGED <<graphVars, formula, sat, verdict>>

\* ... and else goes on, to a bad successor if there is one, until it meets itself.
TraceStep(n) ==
  /\ pc = "trace"
  /\ last \notin formula.q /\ last \in formula.p
  /\ n \in succ[last]
  /\ (succ[last] \cap reachable) \ sat # {} => n \in reachable \ sat
  /\ trace' = Append(trace, n)
  /\ pc' = IF \E i \in DOMAIN trace : trace[i] = n THEN "done" ELSE "trace"
  /\ UNCHANGED <<graphVars, formula, sat, verdict>>

-----------------------------------------------------------------------------
(* CTL: compute_sat, check_ctl.                                            *)

PreExists(Z) == {n \in Nodes : succ[n] \cap Z # {}}
PreAll(Z)    == {n \in Nodes : succ[n] # {} /\ succ[n] \subseteq Z}

\* The set a computation starts from: AG is computed as not EF not.
Start(f) ==
  CASE f.op = "U"                -> reachable \cap f.q
    [] f.op \in {"EU", "AU"}     -> f.q
    [] f.op \in {"EF", "AF", "EG"} -> f.p
    [] f.op = "AG"               -> Nodes \ f.p
    [] f.op = "EX"               -> PreExists(f.p)
    [] f.op = "AX"               -> PreAll(f.p)
    [] OTHER                     -> {}

\* Mutant: AU asks for one good successor only.
RoundWeak(Z) ==
  CASE formula.op \in {"EF", "AG"} -> Z \cup PreExists(Z)
    [] formula.op = "AF"           -> Z \cup PreAll(Z)
    [] formula.op \in {"EU", "AU"} -> Z \cup (formula.p \cap PreExists(Z))
    [] formula.op = "EG"           -> Z \cap PreExists(Z)
    [] OTHER                       -> Z

\* One round of the loop.
Round(Z) ==
  CASE formula.op \in {"EF", "AG"} -> Z \cup PreExists(Z)
    [] formula.op = "AF"           -> Z \cup PreAll(Z)
    [] formula.op = "EU"           -> Z \cup (formula.p \cap PreExists(Z))
    [] formula.op = "AU"           -> Z \cup (formula.p \cap PreAll(Z))
    [] formula.op = "EG"           -> Z \cap PreExists(Z)
    [] OTHER                       -> Z

FixpointOps == {"EF", "AF", "EG", "AG", "EU", "AU"}
CtlOps == FixpointOps \cup {"EX", "AX"}

\* Mutant: the loop ends when no predecessor is left out, whether it joins or not.
SettledOnPredecessors == PreExists(sat) \subseteq sat

\* The loop's flag `changed` stays false.
Settled == Round(sat) = sat

Iterate ==
  /\ pc = "fix" /\ formula.op \in CtlOps /\ ~ Settled
  /\ sat' = Round(sat)
  /\ UNCHANGED <<graphVars, pc, formula, verdict, trace>>

\* What compute_sat() returns.
Sat == IF formula.op = "AG" THEN Nodes \ sat ELSE sat

\* check_ctl gives a run for AG and AX only.
CtlEnds ==
  CASE formula.op = "AG" -> InvariantEnds
    [] formula.op = "AX" -> IF succ[Root] \subseteq formula.p THEN {<< >>}
                            ELSE {<<Root, t>> : t \in succ[Root] \ formula.p}
    [] OTHER             -> {<<Root>>}

IterateEnd ==
  /\ pc = "fix" /\ formula.op \in CtlOps /\ Settled
  /\ IF Root \in Sat THEN Pass ELSE \E end \in CtlEnds : Fail(end)
  /\ UNCHANGED <<graphVars, formula, sat>>

-----------------------------------------------------------------------------
(* verify_property, and the next one (verify_all).                         *)

Verify(f) ==
  /\ pc = "ready"
  /\ formula' = f
  /\ sat' = Start(f)
  /\ pc' = IF f.op \in DirectOps THEN "direct" ELSE "fix"
  /\ UNCHANGED <<graphVars, verdict, trace>>

\* Mutant: the formula is not forgotten.
ReportKeeping ==
  /\ pc = "done"
  /\ pc' = "ready" /\ sat' = {} /\ verdict' = TRUE /\ trace' = << >>
  /\ UNCHANGED <<graphVars, formula>>

Report ==
  /\ pc = "done"
  /\ pc' = "ready" /\ formula' = None /\ sat' = {} /\ verdict' = TRUE /\ trace' = << >>
  /\ UNCHANGED graphVars

Build == NextNode \/ Built \/ \E n \in Nodes : Discover(n)
Check ==
  \/ Direct \/ Unwind \/ Iterate \/ IterateEnd \/ JoinEnd \/ TraceEnd \/ Report
  \/ \E n \in Nodes : Join(n) \/ TraceStep(n)

Next == Build \/ Check \/ \E f \in Asked : Verify(f)

\* The checker is a sequential function: once called it runs on.
Spec == Init /\ [][Next]_vars /\ WF_vars(Build \/ Check)

-----------------------------------------------------------------------------
(* Properties.                                                             *)

\* Every variable has its type.
TypeOK ==
  /\ succ \in [Nodes -> SUBSET Nodes] /\ kids \in [Nodes -> SUBSET Nodes]
  /\ queue \in Seq(Nodes) /\ curr \in Nodes /\ reachable \in SUBSET Nodes
  /\ pred \in [Nodes -> Nodes \cup {None}]
  /\ pc \in {"build", "ready", "direct", "fix", "trace", "unwind", "done"}
  /\ formula \in Formulas \cup {None}
  /\ pc \in {"direct", "fix", "trace", "unwind", "done"} <=> formula # None
  /\ sat \in SUBSET Nodes /\ verdict \in BOOLEAN /\ trace \in Seq(Nodes)

steps == [n \in Nodes |-> succ[n] \cup kids[n]]
Flat  == \A n \in Nodes : kids[n] = {}

\* The search finds exactly the states that transitions and entries into
\* composites lead to, and G P is judged on exactly these.
ReachableExact ==
  /\ reachable \subseteq Reach(steps, Root)
  /\ pc # "build" => reachable = Reach(steps, Root)
  /\ pc = "done" /\ formula.op = "G" => (verdict <=> Reach(steps, Root) \subseteq formula.p)

\* A formula that is passed holds at the initial state, for every formula but
\* F P, G(P -> F Q) and G F P, whose checks look for one good run only.
VerdictSound ==
  pc = "done" /\ verdict /\ Flat /\ formula.op \notin {"F", "Response", "GF"}
    => Root \in Holds(succ, formula)

\* A formula that is reported as violated does not hold.
NoFalseAlarm == pc = "done" /\ ~ verdict /\ Flat => Root \notin Holds(succ, formula)

\* compute_sat() is exact at every state, not at the initial one only, so that
\* it may be used for the operands of another operator.  A terminal state has
\* no next state here, as in the code: neither EX P nor AX P holds in it, and
\* a run that ends there without P is one that AF P and A[Q U P] refuse.
SatExact == pc = "done" /\ formula.op \in CtlOps => Sat = Holds(succ, formula)

\* What model_checking.md gives as Sat(AX P): the states all of whose
\* successors satisfy P, a terminal one among them.  NextDocumented.cfg
\* refutes it.
NextAsDocumented ==
  pc = "done" /\ formula.op = "AX" => Sat = {n \in Nodes : succ[n] \subseteq formula.p}

\* What the end of a counterexample shows.
Refuted ==
  LET before == {trace[i] : i \in 1 .. Len(trace) - 1}
  IN CASE formula.op \in {"G", "AG"} -> last \notin formula.p
       [] formula.op \in {"X", "AX"} -> IF Len(trace) = 1 THEN succ[last] = {}
                                                          ELSE last \notin formula.p
       [] formula.op = "Response"    -> last \in formula.p /\ Reach(succ, last) \cap formula.q = {}
       [] formula.op = "NextResponse" ->
            \/ last \in formula.p /\ succ[last] = {}
            \/ trace[Len(trace) - 1] \in formula.p /\ last \notin formula.q
       [] formula.op = "GF" -> last \in Stays(succ, Nodes \ formula.p)
       [] formula.op = "FG" ->
            last \notin formula.p /\ last \in OnCycle(succ, Nodes) \cup Terminal(succ)
       [] formula.op = "U"  ->
            /\ formula.q \cap (before \cup {last}) = {}
            /\ last \notin formula.p \/ succ[last] = {} \/ last \in before
       [] OTHER -> TRUE

\* A counterexample is a run of the machine from its initial state, and its
\* end shows the violation.  In particular that of P U Q avoids Q although it
\* is built step by step from the set of good states.
CounterexampleReal ==
  pc = "done" /\ trace # << >> =>
    /\ ~ verdict /\ trace[1] = Root
    /\ \A i \in 1 .. Len(trace) - 1 : trace[i + 1] \in steps[trace[i]]
    /\ Refuted

\* The search and every fixpoint loop ends, the counterexample's included.
Answers == /\ pc = "build" ~> pc = "ready"
           /\ pc \in {"direct", "fix", "trace", "unwind"} ~> pc = "done"

\* What G(P -> F Q) is documented to mean: the response is guaranteed.
ResponseGuaranteed ==
  pc = "done" /\ verdict /\ formula.op = "Response" /\ Flat => Root \in Holds(succ, formula)
=============================================================================
