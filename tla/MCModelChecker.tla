--------------------------- MODULE MCModelChecker ---------------------------
(* ModelChecker on every graph of three states, flat or with the second    *)
(* state inside the first.  Of two graphs that differ in the names of the  *)
(* second and the third state one is taken, and of the operands of a       *)
(* binary operator those where the first excludes the second, but for      *)
(* G(P -> X Q), the one formula for which it matters.                      *)
EXTENDS ModelChecker

CONSTANTS n1, n2, n3
MCNodes == {n1, n2, n3}
Childless == [n \in MCNodes |-> {}]
Edges == [MCNodes -> SUBSET MCNodes]
MCGraphs == [succ : {s \in Edges : n3 \in s[n1] => n2 \in s[n1]}, kids : {Childless}]
              \cup [succ : {s \in Edges : n2 \notin s[n1]},
                    kids : {[Childless EXCEPT ![n1] = {n2}]}]
MCAsked == {f \in Formulas : f.op = "NextResponse" \/ f.p \cap f.q = {}}
=============================================================================
