----------------------------- MODULE MachineRun -----------------------------
(* What a machine promises to the world: powered on it enters its initial  *)
(* state, and from then on answers each event with the actions of its own  *)
(* transitions, whatever the guards evaluate to.                           *)
EXTENDS Machine

VARIABLES machine, on, state, output
vars == <<machine, on, state, output>>

Init == ~on /\ output = << >>

PowerOn ==
  /\ ~on /\ on'
  /\ state' = Begin(machine).state /\ output' = Begin(machine).out
  /\ UNCHANGED machine

Handle(e, v) ==
  /\ on /\ UNCHANGED <<machine, on>>
  /\ LET r == React(machine, state, e, v) IN state' = r.state /\ output' = r.out

Next == PowerOn \/ \E e \in Events, v \in SUBSET Atoms : Handle(e, v)
Spec == Init /\ [][Next]_vars
=============================================================================
