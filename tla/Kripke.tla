------------------------------- MODULE Kripke -------------------------------
(***************************************************************************)
(* What a temporal formula means on a finite graph: the reference against  *)
(* which ModelChecker is judged.  Nothing here stands for code.            *)
(*                                                                         *)
(* A run of the graph goes on as long as it can: it is infinite, or ends   *)
(* in a node without successor.  A formula is an operator with one or two  *)
(* sets of nodes, those that satisfy its operands; the operands of a CTL   *)
(* operator may be formulas themselves, so that any set of nodes occurs.   *)
(* X and AX ask for a successor, as the code does (Sat(AX P) of docs/      *)
(* verification_and_safety/model_checking.md:83 has the terminal nodes);   *)
(* EG asks for an infinite run, as that document says, A and LTL for all.  *)
(***************************************************************************)
EXTENDS Naturals

CONSTANT Nodes

UnaryOps  == {"G", "F", "X", "GF", "FG", "EX", "AX", "EF", "AF", "EG", "AG"}
BinaryOps == {"Response", "NextResponse", "U", "EU", "AU"}

Formulas == [op : UnaryOps, p : SUBSET Nodes, q : {{}}]
              \cup [op : BinaryOps, p : SUBSET Nodes, q : SUBSET Nodes]

\* The runs from a node; one that has ended repeats its last node.
Runs(succ, n) ==
  {run \in [Nat -> Nodes] :
     /\ run[0] = n
     /\ \A i \in Nat : IF succ[run[i]] = {} THEN run[i + 1] = run[i]
                                            ELSE run[i + 1] \in succ[run[i]]}

\* Q comes with P until then, on a run and on every run from n.
UntilOn(P, Q, run) == \E i \in Nat : run[i] \in Q /\ \A j \in 0 .. i - 1 : run[j] \in P
Inevitable(succ, P, Q, n) == \A run \in Runs(succ, n) : UntilOn(P, Q, run)

\* What formula f says of a run.
OnRun(succ, f, run) ==
  CASE f.op \in {"G", "AG"}       -> \A i \in Nat : run[i] \in f.p
    [] f.op \in {"F", "AF", "EF"} -> \E i \in Nat : run[i] \in f.p
    [] f.op \in {"X", "AX", "EX"} -> succ[run[0]] # {} /\ run[1] \in f.p
    [] f.op = "GF"                -> \A k \in Nat : \E i \in Nat : i >= k /\ run[i] \in f.p
    [] f.op = "FG"                -> \E k \in Nat : \A i \in Nat : i >= k => run[i] \in f.p
    [] f.op = "Response"          ->
         \A k \in Nat : run[k] \in f.p => \E i \in Nat : i >= k /\ run[i] \in f.q
    [] f.op = "NextResponse"      ->
         \A k \in Nat : run[k] \in f.p => succ[run[k]] # {} /\ run[k + 1] \in f.q
    [] f.op \in {"U", "AU", "EU"} -> UntilOn(f.p, f.q, run)
    [] f.op = "EG"                -> \A i \in Nat : run[i] \in f.p /\ succ[run[i]] # {}

OnRuns(succ, f, n) == IF f.op \in {"EX", "EF", "EG", "EU"}
                        THEN \E run \in Runs(succ, n) : OnRun(succ, f, run)
                        ELSE \A run \in Runs(succ, n) : OnRun(succ, f, run)

-----------------------------------------------------------------------------
(* OnRuns in terms of sets of nodes, which TLC can evaluate: Holds.        *)

Closed(succ, S, C) == \A m \in C : succ[m] \cap S \subseteq C

\* What can be reached from a node of A along nodes of S.
ReachIn(succ, S, A) ==
  {n \in S : \A C \in SUBSET S :
               A \cap S \subseteq C /\ Closed(succ, S, C) => n \in C}

Reach(succ, n) == ReachIn(succ, Nodes, {n})

Terminal(succ) == {n \in Nodes : succ[n] = {}}

OnCycle(succ, S) == {n \in S : n \in ReachIn(succ, S, succ[n])}

\* Where some infinite run, or some run at all, stays in S for good.
Circles(succ, S) == {n \in S : ReachIn(succ, S, {n}) \cap OnCycle(succ, S) # {}}
Stays(succ, S) ==
  Circles(succ, S) \cup {n \in S : ReachIn(succ, S, {n}) \cap Terminal(succ) # {}}

\* Where some run reaches Q with P until then.
Reaches(succ, P, Q) == {n \in Nodes : ReachIn(succ, P, {n} \cap P) \cap
                                        {m \in Nodes : succ[m] \cap Q # {}} # {}}
                         \cup Q

\* The nodes where formula f holds.
Holds(succ, f) ==
  LET notP == Nodes \ f.p
      notQ == Nodes \ f.q
      Ever(S) == {n \in Nodes : Reach(succ, n) \cap S # {}}  \* a run visits S
      Until == Nodes \ (Stays(succ, notQ) \cup Reaches(succ, notQ, notQ \cap notP))
  IN CASE f.op \in {"G", "AG"}  -> Nodes \ Ever(notP)
       [] f.op \in {"F", "AF"}  -> Nodes \ Stays(succ, notP)
       [] f.op \in {"X", "AX"}  -> {n \in Nodes \ Terminal(succ) : succ[n] \subseteq f.p}
       [] f.op = "GF"           -> Nodes \ Ever(Stays(succ, notP))
       [] f.op = "FG"           -> Nodes \ Ever(notP \cap (OnCycle(succ, Nodes) \cup Terminal(succ)))
       [] f.op = "Response"     -> Nodes \ Ever(f.p \cap Stays(succ, notQ))
       [] f.op = "NextResponse" ->
            Nodes \ Ever({n \in f.p : n \in Terminal(succ) \/ ~ (succ[n] \subseteq f.q)})
       [] f.op \in {"U", "AU"}  -> Until
       [] f.op = "EX"           -> {n \in Nodes : succ[n] \cap f.p # {}}
       [] f.op = "EF"           -> Ever(f.p)
       [] f.op = "EG"           -> Circles(succ, f.p)
       [] f.op = "EU"           -> Reaches(succ, f.p, f.q)
=============================================================================
