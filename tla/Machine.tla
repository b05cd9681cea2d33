------------------------------ MODULE Machine -------------------------------
(***************************************************************************)
(* A flat machine as the intermediate representation holds it (states and  *)
(* transition edges), and what it does once emitted: the table is ordered  *)
(* by priority, the first row of the state and the event whose guard holds *)
(* fires, and step() runs the rows without an event until none is left.    *)
(*                                                                         *)
(* Names are numbers in the order the names compare.  A guard is a set of  *)
(* literals; "else" is the empty set, as the emitter makes it no_guard.    *)
(* An action has a name, kept as the names it was put together from, and   *)
(* the assignments it makes; one without assignments calls the service of  *)
(* its name.  What is observed are the assignments and the calls.          *)
(***************************************************************************)
EXTENDS Integers, FiniteSets, SequencesExt

CONSTANTS Names, Events, Atoms

Initial == 1
NoEvent == 0       \* anonymous_event
FalseGuard == {<<"false", TRUE>>}

Literals == (Atoms \X BOOLEAN) \cup FalseGuard
Kinds    == {"atomic", "choice", "junction", "gone"}
Steps    == Seq(STRING)   \* an assignment, or the name of a service
Actions  == [name : Seq(STRING), code : Seq(Steps)]
NoAction == [name |-> << >>, code |-> << >>]
Rows     == [src : Names, event : Events \cup {NoEvent}, guard : SUBSET Literals,
             prio : Nat, tgt : Names, act : Actions]
Machines == [kind : [Names -> Kinds], entry : [Names -> Seq(Actions)],
             exit : [Names -> Seq(Actions)], rows : Seq(Rows)]

Holds(guard, v) == \A l \in guard : (l[1] \in v) = l[2]

\* Lower numbers first, 0 last.
Before(a, b) == a.prio # 0 /\ (b.prio = 0 \/ a.prio < b.prio)

\* The row of state s that event e fires under the valuation v, 0 when none.
Chosen(m, s, e, v) ==
  LET R == {i \in DOMAIN m.rows : m.rows[i].src = s /\ m.rows[i].event = e
                                    /\ Holds(m.rows[i].guard, v)}
  IN IF R = {} THEN 0
     ELSE CHOOSE i \in R : \A j \in R \ {i} :
            \/ Before(m.rows[i], m.rows[j])
            \/ i < j /\ ~Before(m.rows[j], m.rows[i])

Does(a) == IF a.code # << >> THEN a.code
           ELSE IF a.name # << >> THEN <<a.name>> ELSE << >>
DoAll(acts) == FlattenSeq([k \in DOMAIN acts |-> Does(acts[k])])

Resting(s) == [state |-> s, out |-> << >>]

Fired(m, s, e, v) ==
  LET i == Chosen(m, s, e, v)
      r == m.rows[i]
  IN IF i = 0 THEN Resting(s)
     ELSE [state |-> r.tgt, out |-> DoAll(m.exit[s]) \o Does(r.act) \o DoAll(m.entry[r.tgt])]

\* Steps are bounded: a machine that never rests is not among the sources.
Settled(m, s, v) ==
  LET run[k \in 0..Cardinality(Names)] == [x \in Names |->
        IF k = 0 \/ Chosen(m, x, NoEvent, v) = 0 THEN Resting(x)
        ELSE LET one  == Fired(m, x, NoEvent, v)
                 rest == run[k - 1][one.state]
             IN [state |-> rest.state, out |-> one.out \o rest.out]]
  IN run[Cardinality(Names)][s]

\* dispatch(e), then step() until the machine rests.
React(m, s, e, v) ==
  LET one  == Fired(m, s, e, v)
      rest == Settled(m, one.state, v)
  IN [state |-> rest.state, out |-> one.out \o rest.out]

Begin(m) == [state |-> Initial, out |-> DoAll(m.entry[Initial])]

-----------------------------------------------------------------------------
(* What the emitter makes of the actions.  There is one struct for a name,  *)
(* with the assignments of every row whose action has that name; those of   *)
(* entry and exit actions are not looked at.                                *)

Code(m, n) == FlattenSeq([i \in DOMAIN m.rows |->
                IF m.rows[i].act.name = n THEN m.rows[i].act.code ELSE << >>])

Emitted(m) ==
  LET struct(a) == [name |-> a.name, code |-> Code(m, a.name)]
      hook(acts) == [k \in DOMAIN acts |-> struct(acts[k])]
  IN [m EXCEPT !.rows  = [i \in DOMAIN m.rows |-> [m.rows[i] EXCEPT !.act = struct(@)]],
               !.entry = [s \in Names |-> hook(m.entry[s])],
               !.exit  = [s \in Names |-> hook(m.exit[s])]]

\* A struct with assignments cannot be called from the hook of a state: the
\* call picks the operator that takes an event first, and does not compile.
Builds(m) == \A s \in Names : \A hook \in {m.entry[s], m.exit[s]} :
               \A k \in DOMAIN hook : Code(m, hook[k].name) = << >>
=============================================================================
