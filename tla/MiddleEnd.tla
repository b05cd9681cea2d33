----------------------------- MODULE MiddleEnd ------------------------------
(***************************************************************************)
(* The passes that rewrite a machine between a frontend and the emitter    *)
(* (middleend/passes, pass_manager.cpp), in any of the pipelines the tools *)
(* build, followed by the run of what is emitted: `twin` is the state the  *)
(* source machine would be in.                                             *)
(*                                                                         *)
(* A pass is one step of the manager; the passes that loop take a step per *)
(* round.  Flat machines only.  Analyses report and rewrite nothing.       *)
(***************************************************************************)
EXTENDS Machine

CONSTANTS
  Jobs,       \* bound: a machine a frontend hands over, and the order of
              \* passes it is run through
  FusedName   \* "fused_<source>_to_<target>"

Sources   == {j.machine : j \in Jobs}
Pipelines == {j.pipeline : j \in Jobs}

Passes == {"HierarchyCanonicalization", "DeterminismEnforcement", "DeadStatePruning",
           "StateMinimization", "CommonActionFactoring", "TransitionFusion",
           "BoundaryActionFusion", "ConnectiveJunctionChaining", "ChoiceInlining"}

Present(m) == {n \in Names : m.kind[n] # "gone"}

\* The transitions join states that exist.
WellFormed(m) == \A i \in DOMAIN m.rows :
                   {m.rows[i].src, m.rows[i].tgt} \subseteq Present(m)

\* The machine that is parsed starts in a state.
ASSUME MiddleEndAssumption ==
  /\ Names \subseteq Nat \ {0} /\ IsFiniteSet(Names) /\ Initial \in Names
  /\ Events \subseteq Nat \ {NoEvent}
  /\ Sources \subseteq {m \in Machines : WellFormed(m) /\ m.kind[Initial] = "atomic"}
  /\ Pipelines \subseteq Seq(Passes)
  /\ FusedName \in [Names \X Names -> STRING]

VARIABLES
  source,   \* the machine as parsed
  ir,       \* the machine the passes rewrite, in the end as it is emitted
  todo,     \* the passes PassManager::run has still to call, the current first
  busy,     \* the current pass is inside its loop
  blocks,   \* partition of StateMinimization
  left,     \* choice_names ChoiceInlining has still to visit
  phase,    \* "passes", "failed" (run() returned false) or "emitted"
  state,    \* of the emitted machine
  twin,     \* of the source machine
  output    \* the assignments and calls the last event led to

passVars == <<ir, todo, busy, blocks, left>>
runVars  == <<phase, state, twin, output>>
vars     == <<source, passVars, runVars>>

Init ==
  /\ \E j \in Jobs : source = j.machine /\ todo = j.pipeline
  /\ ir = source
  /\ busy = FALSE /\ blocks = {} /\ left = {}
  /\ phase = "passes"
  /\ state = Initial /\ twin = Initial /\ output = << >>

-----------------------------------------------------------------------------
OfKind(m, K) == {n \in Names : m.kind[n] \in K}
In(m, s)  == {i \in DOMAIN m.rows : m.rows[i].tgt = s}
Out(m, s) == {i \in DOMAIN m.rows : m.rows[i].src = s}

\* The rows of `rows` at the indices I, in their order.
Take(rows, I) == LET at[k \in 0..Len(rows)] ==
                       IF k = 0 THEN << >>
                       ELSE IF k \in I THEN Append(at[k - 1], rows[k]) ELSE at[k - 1]
                 IN at[Len(rows)]
Without(rows, I) == Take(rows, DOMAIN rows \ I)

Erase(m, S) == [m EXCEPT !.kind = [n \in Names |-> IF n \in S THEN "gone" ELSE @[n]]]

\* std::stable_sort with the strict order Less.
StableSort(rows, Less(_, _)) ==
  LET rank == [i \in DOMAIN rows |-> Cardinality({j \in DOMAIN rows :
                 Less(rows[j], rows[i]) \/ (j < i /\ ~Less(rows[i], rows[j]))})]
  IN [k \in DOMAIN rows |-> rows[CHOOSE i \in DOMAIN rows : rank[i] = k - 1]]

\* FsmIr::canonicalize: by source in the order the sources appear, then by priority.
Canonical(m) ==
  LET first == [s \in {m.rows[i].src : i \in DOMAIN m.rows} |->
                  CHOOSE i \in Out(m, s) : \A j \in Out(m, s) : i <= j]
      less(a, b) == \/ first[a.src] < first[b.src]
                    \/ a.src = b.src /\ Before(a, b)
  IN [m EXCEPT !.rows = StableSort(@, less)]

\* DeterminismEnforcement: by source, event, priority and target.
Enforced(m) ==
  LET less(a, b) ==
        \/ a.src < b.src
        \/ a.src = b.src /\ a.event < b.event
        \/ a.src = b.src /\ a.event = b.event /\ Before(a, b)
        \/ a.src = b.src /\ a.event = b.event /\ a.prio = b.prio /\ a.tgt < b.tgt
  IN [m EXCEPT !.rows = StableSort(@, less)]

-----------------------------------------------------------------------------
(* DeadStatePruning *)

\* The states reached from S through one row that are not dead.
OneRow(m, S) == {m.rows[i].tgt : i \in {i \in DOMAIN m.rows :
                   m.rows[i].src \in S /\ m.rows[i].guard # FalseGuard}}

Reached(m) ==
  LET R[k \in 0..Cardinality(Names)] ==
        IF k = 0 THEN {Initial} ELSE LET S == R[k - 1] IN S \cup OneRow(m, S)
  IN R[Cardinality(Names)]

Unreached(m) == Present(m) \ (Reached(m) \cup OfKind(m, {"choice"}))

\* Mutant: the states go, their rows stay.
PrunedStates(m) == Erase(m, Unreached(m))

Pruned(m) ==
  [Erase(m, Unreached(m)) EXCEPT
    !.rows = Take(@, {i \in DOMAIN @ : @[i].guard # FalseGuard /\ @[i].src \in Reached(m)})]

-----------------------------------------------------------------------------
(* CommonActionFactoring and BoundaryActionFusion *)

\* One action for several: the names are joined, the assignments follow.
Composed(acts) == [name |-> FlattenSeq([k \in DOMAIN acts |-> acts[k].name]),
                   code |-> FlattenSeq([k \in DOMAIN acts |-> acts[k].code])]

\* The rows I share one action that is not empty.
Shared(m, I) == /\ Cardinality(I) >= 2
                /\ \A i \in I : m.rows[i].act # NoAction
                /\ \A i, j \in I : m.rows[i].act = m.rows[j].act
SharedAct(m, I) == m.rows[CHOOSE i \in I : TRUE].act
Bare(rows, I)   == [i \in DOMAIN rows |-> IF i \in I THEN [rows[i] EXCEPT !.act = NoAction]
                                                     ELSE rows[i]]

FactoredIn(m) ==
  LET S == {s \in OfKind(m, {"atomic"}) \ {Initial} : Shared(m, In(m, s))}
  IN [m EXCEPT !.entry = [s \in Names |-> IF s \in S THEN <<SharedAct(m, In(m, s))>> \o @[s]
                                                    ELSE @[s]],
               !.rows = Bare(@, UNION {In(m, s) : s \in S})]

FactoredOut(m) ==
  LET S == {s \in OfKind(m, {"atomic"}) : Shared(m, Out(m, s))}
  IN [m EXCEPT !.exit = [s \in Names |-> IF s \in S THEN @[s] \o <<SharedAct(m, Out(m, s))>>
                                                   ELSE @[s]],
               !.rows = Bare(@, UNION {Out(m, s) : s \in S})]

Touched(m) == {i \in DOMAIN m.rows :
                 m.exit[m.rows[i].src] # << >> \/ m.entry[m.rows[i].tgt] # << >>}

\* The assignments of exit and entry actions join those of the row, their
\* names, and with them the calls, do not.
BoundaryAct(m, r) ==
  [name |-> IF r.act = NoAction THEN <<FusedName[<<r.src, r.tgt>>]>> ELSE r.act.name,
   code |-> Composed(m.exit[r.src] \o <<r.act>> \o m.entry[r.tgt]).code]

BoundaryRows(m) == [i \in DOMAIN m.rows |->
                      IF i \in Touched(m) THEN [m.rows[i] EXCEPT !.act = BoundaryAct(m, m.rows[i])]
                      ELSE m.rows[i]]

\* Mutant: the entry actions stay with the states as well.
BoundaryEntriesKept(m) ==
  [m EXCEPT !.rows = BoundaryRows(m),
            !.exit = [s \in Names |-> IF Out(m, s) \cap Touched(m) # {} THEN << >> ELSE @[s]]]

BoundaryFused(m) ==
  [m EXCEPT
     !.rows  = BoundaryRows(m),
     !.exit  = [s \in Names |-> IF Out(m, s) \cap Touched(m) # {} THEN << >> ELSE @[s]],
     !.entry = [s \in Names |-> IF In(m, s) \cap Touched(m) # {} THEN << >> ELSE @[s]]]

-----------------------------------------------------------------------------
(* ConnectiveJunctionChaining *)

\* Mutant: only a junction that leads to itself is a cycle.
SelfLoopOnly(m) ==
  \E r \in {m.rows[i] : i \in DOMAIN m.rows} : r.src = r.tgt /\ m.kind[r.src] = "junction"

JunctionCycle(m) ==
  LET J == OfKind(m, {"junction"})
      next(S) == {m.rows[i].tgt : i \in {i \in DOMAIN m.rows : m.rows[i].src \in S}} \cap J
      from(j) == LET R[k \in 0..Cardinality(J)] ==
                       IF k = 0 THEN next({j}) ELSE LET S == R[k - 1] IN S \cup next(S)
                 IN R[Cardinality(J)]
  IN \E j \in J : j \in from(j)

\* The row that stands for one row after another.
Compound(a, b) ==
  [src |-> a.src, event |-> IF a.event # NoEvent THEN a.event ELSE b.event,
   guard |-> a.guard \cup b.guard, prio |-> IF b.prio > 0 THEN b.prio ELSE a.prio,
   tgt |-> b.tgt, act |-> Composed(<<a.act, b.act>>)]

\* explore_paths, depth first; junctions form no cycle.
Chained(m) ==
  LET J == OfKind(m, {"junction"})
      paths[k \in 0..Cardinality(J)] == [i \in DOMAIN m.rows |->
        IF m.rows[i].tgt \notin J THEN <<m.rows[i]>>
        ELSE IF k = 0 THEN << >>
        ELSE FlattenSeq([n \in DOMAIN m.rows |->
               IF m.rows[n].src # m.rows[i].tgt THEN << >>
               ELSE LET tails == paths[k - 1][n]
                    IN [p \in DOMAIN tails |-> Compound(m.rows[i], tails[p])]])]
      whole == FlattenSeq([i \in DOMAIN m.rows |->
                 IF m.rows[i].src \in J \/ m.rows[i].tgt \notin J THEN << >>
                 ELSE paths[Cardinality(J)][i]])
  IN [Erase(m, J) EXCEPT
       !.rows = Without(@, UNION {In(m, j) \cup Out(m, j) : j \in J}) \o whole]

-----------------------------------------------------------------------------
(* ChoiceInlining, one pseudostate c *)

Products(m, c) ==
  LET ins  == Take(m.rows, In(m, c))
      outs == Take(m.rows, Out(m, c) \ In(m, c))
  IN FlattenSeq([i \in DOMAIN ins |-> [o \in DOMAIN outs |-> Compound(ins[i], outs[o])]])

\* Mutant: the inlined rows are added, the old ones and the choice are left.
InlinedKeeping(m, c) == [m EXCEPT !.rows = @ \o Products(m, c)]

Inlined(m, c) ==
  IF In(m, c) = {} \/ Out(m, c) \subseteq In(m, c) THEN m
  ELSE [Erase(m, {c}) EXCEPT !.rows = Without(@, In(m, c) \cup Out(m, c)) \o Products(m, c)]

-----------------------------------------------------------------------------
(* TransitionFusion *)

\* States left at once by their only row, which has no event.
Transient(m) == {s \in Present(m) \ {Initial} :
                   /\ In(m, s) # {} /\ Cardinality(Out(m, s)) = 1
                   /\ \A i \in Out(m, s) : m.rows[i].event = NoEvent /\ m.rows[i].tgt # s}

Fused(m, s) ==
  LET out == m.rows[CHOOSE i \in Out(m, s) : TRUE]
      ins == Take(m.rows, In(m, s))
      fuse(a) == [a EXCEPT !.tgt = out.tgt, !.guard = @ \cup out.guard, !.prio = 0,
                           !.act = Composed(<<@>> \o m.entry[s] \o m.exit[s] \o <<out.act>>)]
  IN [Erase(m, {s}) EXCEPT !.rows = Without(@, In(m, s) \cup Out(m, s))
                                       \o [i \in DOMAIN ins |-> fuse(ins[i])]]

-----------------------------------------------------------------------------
(* StateMinimization *)

Groups(S, Key(_)) == {{t \in S : Key(t) = Key(s)} : s \in S}

\* Actions are compared by their names.
InitialBlocks(m) ==
  LET names(acts) == [k \in DOMAIN acts |-> acts[k].name]
      key(s) == IF m.kind[s] = "choice" THEN <<s>>
                ELSE <<m.kind[s], s = Initial, names(m.entry[s]), names(m.exit[s])>>
  IN Groups(Present(m), key)

BlockOf(B, s) == CHOOSE b \in B : s \in b

\* Mutant: rows with different actions are not told apart.
LooksActless(m, B, i) == <<m.rows[i].event, BlockOf(B, m.rows[i].tgt), m.rows[i].guard, << >> >>

\* desc: what the refinement sees of row i.
Looks(m, B, i) == <<m.rows[i].event, BlockOf(B, m.rows[i].tgt), m.rows[i].guard,
                       m.rows[i].act.name>>

\* The sorted t_descs of s: how many rows look alike.
Signature(m, B, s) ==
  LET D == {Looks(m, B, i) : i \in Out(m, s)}
  IN [d \in D |-> Cardinality({i \in Out(m, s) : Looks(m, B, i) = d})]

\* Mutant: states of different blocks that look alike are put together again.
Regrouped(m, B) == Groups(Present(m), LAMBDA s : Signature(m, B, s))

Refined(m, B) == UNION {Groups(b, LAMBDA s : Signature(m, B, s)) : b \in B}

Merged(m, B) ==
  LET rep(s) == CHOOSE t \in BlockOf(B, s) : \A u \in BlockOf(B, s) : t <= u
      rows == [i \in DOMAIN m.rows |-> [m.rows[i] EXCEPT !.src = rep(@), !.tgt = rep(@)]]
      key(r) == [r EXCEPT !.prio = 0]
      dup == {i \in DOMAIN rows : \E j \in 1..(i - 1) : key(rows[j]) = key(rows[i])}
  IN IF \A b \in B : Cardinality(b) = 1 THEN m
     ELSE Canonical([Erase(m, {s \in Present(m) : rep(s) # s}) EXCEPT !.rows = Without(rows, dup)])

-----------------------------------------------------------------------------
(* PassManager::run *)

Current(p) == phase = "passes" /\ todo # << >> /\ Head(todo) = p

Rewritten(p, m) ==
  CASE p = "HierarchyCanonicalization"  -> Canonical(m)
    [] p = "DeterminismEnforcement"     -> Enforced(m)
    [] p = "DeadStatePruning"           -> Pruned(m)
    [] p = "CommonActionFactoring"      -> FactoredOut(FactoredIn(m))
    [] p = "BoundaryActionFusion"       -> BoundaryFused(m)
    [] p = "ConnectiveJunctionChaining" -> Chained(m)

Looping == {"StateMinimization", "TransitionFusion", "ChoiceInlining"}

NextPass(m) ==
  /\ ir' = m /\ todo' = Tail(todo)
  /\ busy' = FALSE /\ blocks' = {} /\ left' = {}
  /\ UNCHANGED <<source, runVars>>

Rewrite(p) ==
  /\ Current(p) /\ p \notin Looping
  /\ p = "ConnectiveJunctionChaining" => ~JunctionCycle(ir)
  /\ NextPass(Rewritten(p, ir))

\* EJUNC001: the pass reports an error and the manager stops.
Reject ==
  /\ Current("ConnectiveJunctionChaining") /\ JunctionCycle(ir)
  /\ phase' = "failed"
  /\ UNCHANGED <<source, passVars, state, twin, output>>

BeginMinimize ==
  /\ Current("StateMinimization") /\ ~busy
  /\ busy' = TRUE /\ blocks' = InitialBlocks(ir)
  /\ UNCHANGED <<source, ir, todo, left, runVars>>

Refine ==
  /\ Current("StateMinimization") /\ busy /\ Refined(ir, blocks) # blocks
  /\ blocks' = Refined(ir, blocks)
  /\ UNCHANGED <<source, ir, todo, busy, left, runVars>>

EndMinimize ==
  /\ Current("StateMinimization") /\ busy /\ Refined(ir, blocks) = blocks
  /\ NextPass(Merged(ir, blocks))

\* The first candidate in the order of the states.
Fuse ==
  /\ Current("TransitionFusion") /\ Transient(ir) # {}
  /\ ir' = Fused(ir, CHOOSE s \in Transient(ir) : \A t \in Transient(ir) : s <= t)
  /\ busy' = TRUE
  /\ UNCHANGED <<source, todo, blocks, left, runVars>>

EndFuse ==
  /\ Current("TransitionFusion") /\ Transient(ir) = {}
  /\ NextPass(IF busy THEN Canonical(ir) ELSE ir)

BeginInline ==
  /\ Current("ChoiceInlining") /\ ~busy
  /\ busy' = TRUE /\ left' = OfKind(ir, {"choice", "junction"})
  /\ UNCHANGED <<source, ir, todo, blocks, runVars>>

\* In the order the choices were declared, whatever it is.
Inline(c) ==
  /\ Current("ChoiceInlining") /\ busy /\ c \in left
  /\ ir' = Inlined(ir, c) /\ left' = left \ {c}
  /\ UNCHANGED <<source, todo, busy, blocks, runVars>>

EndInline ==
  /\ Current("ChoiceInlining") /\ busy /\ left = {}
  /\ NextPass(ir)

Emit ==
  /\ phase = "passes" /\ todo = << >> /\ Builds(ir)
  /\ phase' = "emitted"
  /\ ir' = Emitted(ir)
  /\ state' = Begin(Emitted(ir)).state /\ twin' = Begin(source).state
  /\ output' = Begin(Emitted(ir)).out
  /\ UNCHANGED <<source, todo, busy, blocks, left>>

Compile ==
  \/ \E p \in Passes : Rewrite(p)
  \/ Reject
  \/ BeginMinimize \/ Refine \/ EndMinimize
  \/ Fuse \/ EndFuse
  \/ BeginInline \/ (\E c \in Names : Inline(c)) \/ EndInline
  \/ Emit

Handle(e, v) ==
  /\ phase = "emitted"
  /\ LET r == React(ir, state, e, v) IN state' = r.state /\ output' = r.out
  /\ twin' = React(source, twin, e, v).state
  /\ UNCHANGED <<source, passVars, phase>>

\* A machine that was refused is not run.
Refused == phase = "failed" /\ UNCHANGED vars

Next == Compile \/ Refused \/ \E e \in Events, v \in SUBSET Atoms : Handle(e, v)

Spec == Init /\ [][Next]_vars

-----------------------------------------------------------------------------
(* What is handed over.  The edges of a machine are what its rows join; a    *)
(* circle is a set of states each of which has an edge without an event     *)
(* that stays in the set.                                                   *)

Els(q)       == {q[i] : i \in DOMAIN q}
Edge(r)      == [src |-> r.src, event |-> r.event, guard |-> r.guard, tgt |-> r.tgt]
Edges(m)     == {Edge(r) : r \in Els(m.rows)}
Junctions(m) == OfKind(m, {"junction"})
Pseudo(m)    == OfKind(m, {"choice", "junction"})

Circle(E, S) ==
  S # {} /\ \A s \in S : \E e \in E : e.src = s /\ e.event = NoEvent /\ e.tgt \in S

\* The rows of the pseudostates have no event, and a pseudostate that is
\* entered can be left.
Guided(E, P) ==
  /\ \A e \in E : e.src \in P => e.event = NoEvent
  /\ \A e \in E : e.tgt \in P => \E f \in E : f.src = e.tgt

Enabled(E) == \A e \in E : e.event = NoEvent => e.guard # FalseGuard

\* Every circle goes through junctions alone somewhere.
Proper(E, J, P) ==
  /\ Guided(E, P) /\ Enabled(E)
  /\ \A S \in SUBSET Names : Circle(E, S) => \E T \in SUBSET (S \cap J) : Circle(E, T)

Lawful(m) == Proper(Edges(m), Junctions(m), Pseudo(m))

\* The pipeline chains the junctions and inlines the choices next, and does
\* neither before.
Lowers(p) ==
  \E k \in 1 .. (Len(p) - 1) :
    /\ p[k] = "ConnectiveJunctionChaining" /\ p[k + 1] = "ChoiceInlining"
    /\ \A j \in 1 .. (k - 1) : p[j] \notin {"ConnectiveJunctionChaining", "ChoiceInlining"}

-----------------------------------------------------------------------------
(* Properties *)

\* Every edge of the representation joins states it still has, between any two
\* steps of any pass.
TypeOK ==
  /\ {source, ir} \subseteq Machines /\ WellFormed(ir)
  /\ todo \in Seq(Passes) /\ busy \in BOOLEAN
  /\ blocks \subseteq SUBSET Names /\ left \subseteq Names
  /\ phase \in {"passes", "failed", "emitted"}
  /\ state \in Present(ir) /\ twin \in Names /\ output \in Seq(Steps)

\* What is emitted has no pseudostate it could come to rest in; a machine with
\* a circle of junctions it can reach is refused, one without any never is.
EmittedFlat ==
  /\ phase = "emitted" =>
       /\ \A s \in Reached(ir) : ir.kind[s] = "atomic"
       /\ ~JunctionCycle(Pruned(source))
  /\ phase = "failed" => JunctionCycle(source)

\* The machine that is emitted answers every sequence of events, under every
\* outcome of the guards, with the actions the source machine prescribes:
\* neither merging, fusing, inlining, factoring nor reordering can be seen.
Source == INSTANCE MachineRun
            WITH machine <- source, on <- phase = "emitted", state <- twin
RefinesSource == Source!Spec

\* Steps the passes have left at most, in the order they are counted down.
Distance ==
  LET N    == Cardinality(Names)
      loop == IF Current("TransitionFusion") THEN Cardinality(Present(ir))
              ELSE IF ~busy THEN N + 1
              ELSE IF Current("StateMinimization") THEN N - Cardinality(blocks)
              ELSE Cardinality(left)
  IN IF phase = "passes" THEN 1 + Len(todo) * (N + 2) + loop ELSE 0

\* The loops of the passes end: every round of refinement, fusion or inlining
\* and every pass brings the end closer, so that no machine is compiled for
\* ever.
ComesToAnEnd == [][Compile => Distance' < Distance]_vars
=============================================================================
