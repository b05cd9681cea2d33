---------------------------- MODULE ChartTable ----------------------------
(***************************************************************************)
(* CppModelEmitter::emit_transition_table: the table of rows the runtime   *)
(* executes, from the states and transitions of the model.  Transitions    *)
(* are ordered by priority; one whose target is a composite state becomes  *)
(* a row to its initial leaf, preceded by one row for each substate that   *)
(* history may restore when the target keeps a history.                    *)
(***************************************************************************)
EXTENDS Integers, SequencesExt

CONSTANTS
  StateOrder,    \* model.states: <<name, ...>>
  Parent,        \* parent_state of the states that have one
  InitialSub,    \* initial_sub_state of the composite states
  Shallow, Deep, \* composite states with has_history, with has_deep_history
  Transitions    \* model.transitions: <<[src, evt, dst, kind, flag, priority], ...>>

Composite == DOMAIN InitialSub

\* A state and the states around it.
Around == LET up[s \in Range(StateOrder)] ==
                {s} \cup IF s \in DOMAIN Parent THEN up[Parent[s]] ELSE {}
          IN  up

\* find_initial_leaf_substate
InitialLeaf == LET leaf[s \in Range(StateOrder)] ==
                     IF s \in Composite THEN leaf[InitialSub[s]] ELSE s
               IN  leaf

\* get_all_substates: the children, or with deep history the leaves below.
\* (The code lists those composite by composite; as the state last active is
\* one of them, at most one of their rows can run.)
Substates(p) ==
  LET below(s) == IF p \in Deep THEN s \notin Composite /\ p \in Around[s] \ {s}
                                ELSE s \in DOMAIN Parent /\ Parent[s] = p
      subs[k \in 0 .. Len(StateOrder)] ==
        IF k = 0 THEN << >>
        ELSE IF below(StateOrder[k]) THEN Append(subs[k - 1], StateOrder[k]) ELSE subs[k - 1]
  IN  subs[Len(StateOrder)]

\* The order of the stable sort: 1 is the highest priority, 0 stands for none.
Precedes(a, b) ==
  LET pa == Transitions[a].priority
      pb == Transitions[b].priority
  IN  IF pa = pb THEN a < b ELSE pa # 0 /\ (pb = 0 \/ pa < pb)

\* The transitions in that order.
Ahead(k) == {j \in DOMAIN Transitions : Precedes(j, k)}
Ordered  == [n \in DOMAIN Transitions |->
               CHOOSE k \in DOMAIN Transitions : Cardinality(Ahead(k)) = n - 1]

Row(t, dst, internal, hist) ==
  [src |-> t.src, evt |-> t.evt, dst |-> dst, internal |-> internal,
   flag |-> t.flag, hist |-> hist]

\* Mutant: the fallback row comes before the history rows.
RowsOfFallbackFirst(t) ==
  CASE t.dst \in Shallow \cup Deep ->
         <<Row(t, InitialLeaf[t.dst], FALSE, << >>)>>
           \o [k \in DOMAIN Substates(t.dst) |->
                 Row(t, Substates(t.dst)[k], FALSE, <<t.dst, Substates(t.dst)[k]>>)]
    [] t.dst \in Composite \ (Shallow \cup Deep) ->
         <<Row(t, InitialLeaf[t.dst], FALSE, << >>)>>
    [] OTHER -> <<Row(t, t.dst, t.kind = "internal", << >>)>>

\* The rows of one transition.  The kind of a transition counts only when
\* its target is a leaf.
RowsOf(t) ==
  CASE t.dst \in Shallow \cup Deep ->
         [k \in DOMAIN Substates(t.dst) |->
            Row(t, Substates(t.dst)[k], FALSE, <<t.dst, Substates(t.dst)[k]>>)]
           \o <<Row(t, InitialLeaf[t.dst], FALSE, << >>)>>
    [] t.dst \in Composite \ (Shallow \cup Deep) ->
         <<Row(t, InitialLeaf[t.dst], FALSE, << >>)>>
    [] OTHER -> <<Row(t, t.dst, t.kind = "internal", << >>)>>

\* The rows written for the first k of them, and for all.
Table ==
  LET rows[k \in 0 .. Len(Transitions)] ==
        IF k = 0 THEN << >> ELSE rows[k - 1] \o RowsOf(Transitions[Ordered[k]])
  IN  rows[Len(Transitions)]
=============================================================================
