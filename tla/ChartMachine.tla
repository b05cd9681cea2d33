---------------------------- MODULE ChartMachine ----------------------------
(***************************************************************************)
(* A modelled chart end to end: the machine of FsmCore executing the table *)
(* that ChartTable derives from the chart.                                 *)
(***************************************************************************)
EXTENDS FsmCore, ChartTable

ChartAssumptions ==
  /\ StateOrder \in Seq(States) /\ States = Range(StateOrder) /\ Within = Around
  /\ Rows = Table
  /\ DOMAIN Parent \subseteq States /\ \A s \in DOMAIN Parent : Parent[s] # s
  /\ Composite \subseteq States /\ Composite = {Parent[s] : s \in DOMAIN Parent}
  /\ \A p \in Composite : InitialSub[p] \in DOMAIN Parent /\ Parent[InitialSub[p]] = p
  /\ Shallow \cup Deep \subseteq Composite /\ Shallow \cap Deep = {}
  /\ Transitions \in Seq([src : States, dst : States,
                          evt : Events \cup TimedEvents \cup {Anonymous},
                          kind : {"external", "internal", "local"},
                          flag : BOOLEAN, priority : Nat])

ASSUME ChartMachineAssumption == ChartAssumptions

-----------------------------------------------------------------------------
\* The leaf the model says transition t leads to.
DeclaredLeaf(t) ==
  LET last == lastLeaf[t.dst] IN
  CASE t.kind = "internal" -> state
    [] t.kind # "internal" /\ t.dst \in Shallow \cup Deep /\ last # NoState ->
         IF t.dst \in Deep THEN last ELSE InitialLeaf[ChildOf(t.dst, last)]
    [] OTHER -> InitialLeaf[t.dst]

Applicable(e) ==
  {k \in DOMAIN Transitions :
     Transitions[k].evt = e /\ Transitions[k].src \in Within[state] /\ (Transitions[k].flag => flag)}

\* The transition with the highest priority, the first of the model on a tie.
Chosen(e) == CHOOSE k \in Applicable(e) : \A j \in Applicable(e) \ {k} : Precedes(k, j)

\* From emitter to execution: the event takes the applicable transition of
\* the highest priority, and it leads to the leaf the model declares; deep
\* history restores the leaf last active, shallow history the initial leaf
\* of the substate last active, and a first entry the initial leaf.
EntryAsDeclared ==
  Idle =>
    \A e \in {Transitions[k].evt : k \in DOMAIN Transitions} :
      Applicable(e) # {} =>
        LET t == Transitions[Chosen(e)]
            r == Rows[Taken(e, flag)]
        IN  t.dst \notin Shallow \cup Deep \/ t.dst \notin Within[state] =>
              (IF r.internal THEN state ELSE r.dst) = DeclaredLeaf(t)
=============================================================================
