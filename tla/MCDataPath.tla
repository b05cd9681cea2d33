----------------------------- MODULE MCDataPath -----------------------------
(* DataPath on machines of three states and three variables: x is a         *)
(* register, y a register or an out port, p an input port.  In MCSources no *)
(* two rows join the same two states, and rows alone assign.  The others,   *)
(* of PrunedAlive, Hooked and OutPortZero.cfg, are one case each.           *)
EXTENDS DataPath, TLC

CONSTANTS x, y, p
MCVars == {x, y, p}
MCValues == -3 .. 4

Number(v, k)   == [var |-> v, expr |-> [op |-> "number", k |-> k]]
Copy(v, w)     == [var |-> v, expr |-> [op |-> "copy", v |-> w]]
By(v, op, w, k) == [var |-> v, expr |-> [op |-> op, v |-> w, k |-> k]]
Both(v, op, w, u) == [var |-> v, expr |-> [op |-> op, v |-> w, w |-> u]]
Is(v, op, k)   == [var |-> v, op |-> op, k |-> k]

Idle == <<Skip, Skip, Skip>>
Row(s, e, g, t, a) == [src |-> s, event |-> e, guard |-> g, tgt |-> t, act |-> a]

Without == [s \in States |-> Idle]

MCLoop(yKind, yInits, hs, back) ==
  {[kind |-> (x :> "reg" @@ y :> yKind @@ p :> "in"),
    initial |-> (x :> 0 @@ y :> yInit @@ p :> None),
    contract |-> (x :> Top @@ y :> [lo |-> Inf, hi |-> 3] @@ p :> [lo |-> 0, hi |-> pMax]),
    entry |-> Without, exit |-> Without,
    rows |-> <<Row(1, "a", g, 2, a1), Row(2, "a", h, 1, a2),
               Row(2, "b", << >>, 3, a3), Row(3, "a", back, 1, Idle)>>] :
   yInit \in yInits, pMax \in {1, Inf},
   g \in {<< >>, <<Is(x, "<", 2)>>}, h \in hs,
   a1 \in {<<By(x, "plus", x, 1), Skip, Skip>>,
           <<Copy(x, p), Copy(y, x), Number(x, 2)>>,
           <<Number(y, 4), By(y, "minus", y, 1), Skip>>},
   a2 \in {Idle, <<Number(x, 0), Copy(y, y), Skip>>, <<Both(y, "difference", x, y), Skip, Skip>>},
   a3 \in {<<By(y, "times", x, -1), Skip, Skip>>, <<Both(y, "sum", x, p), Number(y, 3), Skip>>,
           <<By(y, "plus", x, 1), Skip, Skip>>, <<Number(y, 4), Skip, Skip>>}}

\* y as a register, and as an out port, which starts at 0 when nothing is said.
MCSources ==
  MCLoop("reg", {None, 1}, {<<Is(x, ">", 1), Is(y, "!=", 0)>>, <<Is(y, "<=", 0)>>,
                            <<Is(p, "==", 0)>>}, <<Is(y, ">=", 3)>>)
    \cup MCLoop("out", {None, 1}, {<<Is(x, ">", 1)>>, <<Is(p, "==", 0)>>}, <<Is(x, ">=", 2)>>)

Small(initial, yKind, yContract, entry, rows) ==
  [kind |-> (x :> "reg" @@ y :> yKind @@ p :> "in"),
   initial |-> (x :> 0 @@ y :> initial @@ p :> None),
   contract |-> (x :> Top @@ y :> yContract @@ p :> [lo |-> 0, hi |-> 1]),
   entry |-> entry, exit |-> Without, rows |-> rows]

\* Two rows lead from state 1 to state 2, and the guard of the second is dead.
MCParallel ==
  {Small(0, "reg", Top, Without,
         <<Row(1, "a", <<Is(p, "==", 1)>>, 2, <<Copy(x, p), Skip, Skip>>),
           Row(1, "b", <<Is(x, ">", 2)>>, 2, Idle),
           Row(2, "a", << >>, 1, <<Number(x, 0), Skip, Skip>>)>>)}

\* State 2 sets x := 3 on entry, and the guard behind it asks for 3.
MCHooked ==
  {Small(0, "reg", Top, [Without EXCEPT ![2] = <<Number(x, 3), Skip, Skip>>],
         <<Row(1, "a", <<Is(p, "==", 1)>>, 2, Idle),
           Row(2, "a", <<Is(x, "==", 3)>>, 1, <<Number(x, 0), Skip, Skip>>)>>)}

\* An out port without default is copied before anything was written to it.
MCOutPort ==
  {Small(None, "out", [lo |-> 1, hi |-> 3], Without,
         <<Row(1, "a", << >>, 2, <<Copy(x, y), Skip, Skip>>),
           Row(2, "a", <<Is(x, "<", 1)>>, 3, <<Number(y, 1), Skip, Skip>>)>>)}

MCAtoms == {Is(v, op, k) : v \in {x, y}, op \in {"<=", ">", "==", "!="}, k \in {0, 2}}
=============================================================================
