---------------------------- MODULE MCMiddleEnd -----------------------------
(* MiddleEnd on machines of five states: the first three are states, the   *)
(* fourth and the fifth are states, choices or junctions.  Two events and  *)
(* one guard.  The branches of a choice are complete and exclude each      *)
(* other, transient states have no guard, and where two rows overlap the   *)
(* one with the priority leads to the initial state.                       *)
(*                                                                         *)
(* An action of a source either calls a service or makes an assignment.    *)
(* Where rows are put together, at pseudostates and states that are left   *)
(* at once, their actions make assignments, and no two rows share a name   *)
(* that stands for one: MCShared does not keep to that, and fails.         *)
EXTENDS MiddleEnd

MCNames  == 1..5
MCEvents == {1, 2}
MCAtoms  == {"g"}
G  == {<<"g", TRUE>>}
NG == {<<"g", FALSE>>}

MCFusedName == [p \in MCNames \X MCNames |-> "fused" \o ToString(p)]

Call(n)   == [name |-> <<n>>, code |-> << >>]
Assign(n) == [name |-> <<n>>, code |-> << <<n, ":=">> >>]

Row(s, e, g, t, a) == [src |-> s, event |-> e, guard |-> g, prio |-> 0, tgt |-> t, act |-> a]
First(r) == [r EXCEPT !.prio = 1]

\* What a state can do: nothing, go on at once, or answer an event by one row
\* or by two, the one with the priority standing last.
FromState(s, T) ==
  {<< >>}
    \cup {<<Row(s, NoEvent, {}, t, Call("n"))>> : t \in {t \in T : t > s}}
    \cup {<<Row(s, 1, {}, t, Call(n))>> : t \in T, n \in IF s = 4 THEN {"a", "b"} ELSE {"a"}}
    \cup {<<Row(s, 1, NG, t, Call("a")), First(Row(s, 1, G, u, NoAction))>> : t, u \in T}
    \cup {<<Row(s, 1, {}, t, Call("a")), First(Row(s, 1, G, Initial, NoAction))>> : t \in T}

\* The branches of a pseudostate.
FromPseudo(s, T) ==
  {<<Row(s, NoEvent, {}, t, Call("c"))>> : t \in T}
    \cup {<<Row(s, NoEvent, NG, t, NoAction), Row(s, NoEvent, G, u, Call("c"))>> : t, u \in T}

Kinded ==
  [kinds : {<<"atomic", "choice">>},   four : FromState(4, {3, 5}),  five : FromPseudo(5, {2, 3})]
    \cup [kinds : {<<"atomic", "junction">>},   four : FromState(4, {5}),
           five : FromPseudo(5, {1, 2})]
    \cup [kinds : {<<"junction", "junction">>}, four : FromPseudo(4, {2, 5}),
           five : FromPseudo(5, {3, 4})]
    \cup [kinds : {<<"junction", "choice">>},   four : FromPseudo(4, {2, 5}),
           five : FromPseudo(5, {3})]
    \cup [kinds : {<<"atomic", "atomic">>},     four : FromState(4, {1, 5}),
           five : FromState(5, {1, 3})]

\* Only junctions may go round without an event: the others would never rest.
Rests(m) ==
  LET A == [m EXCEPT !.rows = Take(@, {i \in DOMAIN @ : @[i].event = NoEvent})]
      from(s) == LET R[k \in 1..5] == IF k = 1 THEN OneRow(A, {s})
                                       ELSE LET S == R[k - 1] IN S \cup OneRow(A, S)
                 IN R[5]
  IN \A s \in MCNames : s \in from(s) => m.kind[s] = "junction"

Raw == {m \in
  {[kind  |-> <<"atomic", "atomic", "atomic">> \o k.kinds,
    entry |-> << << >>, n, n, << >>, << >> >>,
    exit  |-> << <<Call("x")>>, << >>, << >>, << >>, << >> >>,
    rows  |-> <<Row(1, 1, {}, 4, Call("a")), Row(1, 2, {}, t, Call("a"))>>
                \o two \o k.four \o k.five] :
     k \in Kinded, n \in {<< >>, <<Call("e")>>}, t \in {2, 5},
     two \in FromState(2, {1, 5})} : Rests(m)}

\* States that are left at once.
Through(m) == {s \in MCNames : m.kind[s] # "atomic" \/
                 \E i \in Out(m, s) : m.rows[i].event = NoEvent}

Owned(r) == [r EXCEPT !.act = Assign(ToString(<<r.src, r.event, r.guard>>))]

\* Calls, but for the rows into the states S and out of them.
Serving(m, S) ==
  [m EXCEPT
     !.rows  = [i \in DOMAIN @ |->
                  IF @[i].tgt \in S \/ (@[i].src \in S /\ @[i].act # NoAction)
                  THEN Owned(@[i]) ELSE @[i]],
     !.entry = [s \in MCNames |-> IF s \in S THEN << >> ELSE @[s]]]
MCSources == {Serving(m, Through(m)) : m \in Raw}

\* Assignments throughout.
Assigning(m, S) ==
  [m EXCEPT
     !.rows  = [i \in DOMAIN @ |-> IF @[i].tgt \in S \/ @[i].act # NoAction
                                    THEN Owned(@[i]) ELSE @[i]],
     !.entry = [s \in MCNames |-> [k \in DOMAIN @[s] |-> Assign("e" \o ToString(s))]],
     !.exit  = [s \in MCNames |-> [k \in DOMAIN @[s] |-> Assign("x")]]]
MCAssigned == {Assigning(m, Through(m)) : m \in Raw}

Optimize == <<"DeadStatePruning", "CommonActionFactoring", "TransitionFusion">>
Lower    == <<"ConnectiveJunctionChaining", "ChoiceInlining">>
MCPipelines ==
  {<<"HierarchyCanonicalization">> \o p : p \in
     {<<"DeterminismEnforcement">> \o Lower,
      <<"DeterminismEnforcement", "DeadStatePruning", "StateMinimization">> \o Lower,
      Optimize \o Lower}}
MCVerified ==
  {<<"HierarchyCanonicalization", "BoundaryActionFusion">> \o Lower \o Optimize
     \o <<"DeterminismEnforcement">>}
MCJobs == [machine : MCSources, pipeline : MCPipelines]
            \cup [machine : MCAssigned, pipeline : MCVerified]

\* Both rows into state 2 make the same assignment.
MCShared ==
  {[kind |-> [s \in MCNames |-> "atomic"],
    entry |-> [s \in MCNames |-> << >>], exit |-> [s \in MCNames |-> << >>],
    rows |-> <<Row(1, 1, {}, 2, Assign("a")), Row(1, 2, {}, 2, Assign("a")),
               Row(2, 1, {}, 1, Call("b"))>>]}
MCSharedName == [machine : MCShared, pipeline : {<<"HierarchyCanonicalization">> \o Lower}]
MCFactored   == [machine : MCShared, pipeline : MCVerified]

\* What the proofs take for granted of a source and a pipeline.
ASSUME (\A m \in Sources : Lawful(m)) /\ (\A p \in Pipelines : Lowers(p))
=============================================================================
