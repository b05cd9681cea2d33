------------------------- MODULE ModelCheckerProofs -------------------------
(* Theorems about ModelChecker and their proofs, for every finite set of    *)
(* states, every graph on it and every set of formulas asked: the verdicts, *)
(* the sets of compute_sat() and the counterexamples mean what Kripke says. *)
(* They rest on what Kripke's sets of nodes have to do with fixpoints, of   *)
(* any graph, a function from nodes to sets of nodes: reachability is a     *)
(* least set, Circles and Stays are the greatest and Reaches is the least   *)
(* set that satisfies the equation a checker iterates.                      *)
EXTENDS ModelChecker, FiniteSetTheorems, WellFoundedInduction, TLAPS

AnyGraph == [Nodes -> SUBSET Nodes]

-----------------------------------------------------------------------------
(* Reachability within a set S.                                            *)

LEMMA ReachBase ==
  ASSUME NEW g, NEW S, NEW A
  PROVE  A \cap S \subseteq ReachIn(g, S, A) /\ ReachIn(g, S, A) \subseteq S
BY DEF ReachIn

LEMMA ReachOn ==
  ASSUME NEW g, NEW S, NEW A, NEW n \in ReachIn(g, S, A), NEW m \in g[n] \cap S
  PROVE  m \in ReachIn(g, S, A)
<1>1. ASSUME NEW C \in SUBSET S, A \cap S \subseteq C, Closed(g, S, C) PROVE m \in C
  <2>1. n \in C BY <1>1 DEF ReachIn
  <2> QED BY <1>1, <2>1 DEF Closed
<1> QED BY <1>1 DEF ReachIn

LEMMA ReachInLeast ==
  ASSUME NEW g, NEW S, NEW A, NEW C \in SUBSET S, A \cap S \subseteq C,
         \A n \in C : g[n] \cap S \subseteq C
  PROVE  ReachIn(g, S, A) \subseteq C
BY DEF ReachIn, Closed

\* Reaching on from what is reached, in a set that is no larger.
LEMMA ReachOnward ==
  ASSUME NEW g, NEW S, NEW T \in SUBSET S, NEW A, NEW B, B \cap T \subseteq ReachIn(g, S, A)
  PROVE  ReachIn(g, T, B) \subseteq ReachIn(g, S, A)
<1> DEFINE C == T \cap ReachIn(g, S, A)
<1>1. B \cap T \subseteq C /\ C \in SUBSET T OBVIOUS
<1>2. \A n \in C : g[n] \cap T \subseteq C BY ReachOn
<1> HIDE DEF C
<1>3. ReachIn(g, T, B) \subseteq C BY <1>1, <1>2, ReachInLeast
<1> QED BY <1>3 DEF C

\* The first step: what n reaches is n or reached from one of its successors.
LEMMA ReachFirst ==
  ASSUME NEW g, NEW S, NEW n, NEW c \in ReachIn(g, S, {n})
  PROVE  c = n \/ \E m \in g[n] \cap S : c \in ReachIn(g, S, {m})
<1> DEFINE C == ({n} \cap S) \cup {x \in S : \E m \in g[n] \cap S : x \in ReachIn(g, S, {m})}
<1>1. {n} \cap S \subseteq C /\ C \in SUBSET S OBVIOUS
<1>2. ASSUME NEW x \in C, NEW y \in g[x] \cap S PROVE y \in C
  <2>1. CASE x = n
    <3>1. y \in ReachIn(g, S, {y}) BY ReachBase
    <3> QED BY <2>1, <3>1
  <2>2. CASE x # n
    <3>1. PICK m \in g[n] \cap S : x \in ReachIn(g, S, {m}) BY <2>2
    <3>2. y \in ReachIn(g, S, {m}) BY <3>1, ReachOn
    <3> QED BY <3>2
  <2> QED BY <2>1, <2>2
<1>3. \A x \in C : g[x] \cap S \subseteq C BY <1>2
<1> HIDE DEF C
<1>4. ReachIn(g, S, {n}) \subseteq C BY <1>1, <1>3, ReachInLeast
<1> QED BY <1>4 DEF C

\* What is reached from a set is reached from one of its members.
LEMMA ReachFrom ==
  ASSUME NEW g, NEW S, NEW A, NEW c \in ReachIn(g, S, A)
  PROVE  \E m \in A \cap S : c \in ReachIn(g, S, {m})
<1> DEFINE C == {x \in S : \E m \in A \cap S : x \in ReachIn(g, S, {m})}
<1>1. C \in SUBSET S OBVIOUS
<1>2. A \cap S \subseteq C
  <2> SUFFICES ASSUME NEW m \in A \cap S PROVE m \in C OBVIOUS
  <2>1. m \in ReachIn(g, S, {m}) BY ReachBase
  <2> QED BY <2>1
<1>3. ASSUME NEW x \in C, NEW y \in g[x] \cap S PROVE y \in C
  <2>1. PICK m \in A \cap S : x \in ReachIn(g, S, {m}) OBVIOUS
  <2>2. y \in ReachIn(g, S, {m}) BY <2>1, ReachOn
  <2> QED BY <2>2
<1>4. \A x \in C : g[x] \cap S \subseteq C BY <1>3
<1> HIDE DEF C
<1>5. ReachIn(g, S, A) \subseteq C BY <1>1, <1>2, <1>4, ReachInLeast
<1> QED BY <1>5 DEF C

\* The nodes of S that reach T along S are the least set that contains T
\* within S and, within S, the predecessors of its members.
LEMMA VisitsStep ==
  ASSUME NEW g, NEW S, NEW T, NEW n \in S, NEW m \in g[n] \cap S,
         ReachIn(g, S, {m}) \cap T # {}
  PROVE  ReachIn(g, S, {n}) \cap T # {}
<1>1. n \in ReachIn(g, S, {n}) BY ReachBase
<1>2. m \in ReachIn(g, S, {n}) BY <1>1, ReachOn
<1>3. ReachIn(g, S, {m}) \subseteq ReachIn(g, S, {n}) BY <1>2, ReachOnward
<1> QED BY <1>3

LEMMA VisitsLeast ==
  ASSUME NEW g, NEW S, NEW T, NEW Z, S \cap T \subseteq Z,
         \A n \in S : g[n] \cap Z # {} => n \in Z,
         NEW n \in S, ReachIn(g, S, {n}) \cap T # {}
  PROVE  n \in Z
<1> SUFFICES ASSUME n \notin Z PROVE FALSE OBVIOUS
<1> DEFINE C == S \ Z
<1>1. C \in SUBSET S /\ {n} \cap S \subseteq C OBVIOUS
<1>2. \A m \in C : g[m] \cap S \subseteq C OBVIOUS
<1> HIDE DEF C
<1>3. ReachIn(g, S, {n}) \subseteq C BY <1>1, <1>2, ReachInLeast
<1> QED BY <1>3 DEF C

-----------------------------------------------------------------------------
(* Cycles.                                                                 *)

\* In a finite set where every node has a successor, every node reaches a
\* cycle: of what it reaches, take a node that reaches fewest.
LEMMA ReachesCycle ==
  ASSUME IsFiniteSet(Nodes), NEW g, NEW S \in SUBSET Nodes, NEW Z \in SUBSET S,
         \A z \in Z : g[z] \cap Z # {}, NEW n \in Z
  PROVE  ReachIn(g, S, {n}) \cap OnCycle(g, S) # {}
<1> DEFINE R(z) == ReachIn(g, Z, {z})
           Size(z) == Cardinality(R(z))
<1>1. ASSUME NEW z \in Z PROVE R(z) \subseteq Z /\ z \in R(z) /\ IsFiniteSet(R(z)) /\ Size(z) \in Nat
  <2>1. R(z) \subseteq Z /\ z \in R(z) BY ReachBase
  <2>2. IsFiniteSet(R(z)) BY <2>1, FS_Subset
  <2> QED BY <2>1, <2>2, FS_CardinalityType
<1>2. \A z \in Z : \A m \in R(z) : R(m) \subseteq R(z)
  BY ReachOnward
<1>3. \A z \in Z : \A m \in g[z] \cap Z : R(m) \subseteq ReachIn(g, S, g[z])
  <2> SUFFICES ASSUME NEW z \in Z, NEW m \in g[z] \cap Z PROVE R(m) \subseteq ReachIn(g, S, g[z])
    OBVIOUS
  <2>1. {m} \cap Z \subseteq ReachIn(g, S, g[z]) BY ReachBase
  <2> QED BY <2>1, ReachOnward
<1>4. R(n) \subseteq ReachIn(g, S, {n})
  <2>1. {n} \cap Z \subseteq ReachIn(g, S, {n}) BY ReachBase
  <2> QED BY <2>1, ReachOnward
<1> DEFINE Sizes == {Size(z) : z \in R(n)}
<1>5. Sizes \in SUBSET Nat /\ Sizes # {} BY <1>1
<1>6. PICK k \in Sizes : \A l \in Sizes : ~(<<l, k>> \in OpToRel(<, Nat))
  BY <1>5, NatLessThanWellFounded, WFMin
<1>7. PICK m \in R(n) : k = Size(m) BY <1>6
<1>8. \A l \in R(n) : ~(Size(l) < Size(m))
  <2> SUFFICES ASSUME NEW l \in R(n), Size(l) < Size(m) PROVE FALSE OBVIOUS
  <2>1. Size(l) \in Sizes /\ Size(l) \in Nat /\ Size(m) \in Nat BY <1>1
  <2> HIDE DEF Size, Sizes
  <2>2. <<Size(l), k>> \in OpToRel(<, Nat) BY <1>7, <2>1 DEF OpToRel
  <2> QED BY <1>6, <2>1, <2>2
<1>9. m \in Z BY <1>1
<1>10. PICK s \in g[m] \cap Z : TRUE BY <1>9
<1>11. s \in R(m) /\ s \in R(n)
  <2>1. m \in R(m) BY <1>1, <1>9
  <2>2. s \in R(m) BY <1>10, <2>1, ReachOn
  <2>3. s \in R(n) BY <1>10, ReachOn
  <2> QED BY <2>2, <2>3
<1>12. R(s) \subseteq R(m) /\ ~(Size(s) < Size(m)) BY <1>2, <1>8, <1>9, <1>11
<1>13. R(s) = R(m)
  <2>1. IsFiniteSet(R(m)) /\ Size(m) \in Nat /\ Size(s) \in Nat BY <1>1, <1>9, <1>10
  <2>2. Cardinality(R(s)) <= Cardinality(R(m))
        /\ (Cardinality(R(s)) = Cardinality(R(m)) => R(s) = R(m))
    BY <1>12, <2>1, FS_Subset
  <2> HIDE DEF R
  <2>3. Cardinality(R(s)) = Cardinality(R(m)) BY <1>12, <2>1, <2>2
  <2> QED BY <2>2, <2>3
<1>14. m \in R(s) BY <1>1, <1>9, <1>13
<1>15. m \in ReachIn(g, S, g[m]) BY <1>3, <1>9, <1>10, <1>14
<1>16. m \in OnCycle(g, S) BY <1>9, <1>15 DEF OnCycle
<1> HIDE DEF R
<1> QED BY <1>4, <1>7, <1>16

-----------------------------------------------------------------------------
(* The greatest sets: Circles, Stays, and what keeps P U Q from coming.    *)

LEMMA CirclesGoOn ==
  ASSUME NEW g, NEW S, NEW n \in Circles(g, S)
  PROVE  n \in S /\ g[n] \cap Circles(g, S) # {}
<1>1. n \in S BY DEF Circles
<1>2. PICK c \in ReachIn(g, S, {n}) : c \in OnCycle(g, S) BY DEF Circles
<1>3. \E m \in g[n] \cap S : c \in ReachIn(g, S, {m})
  <2>1. CASE c = n BY <1>2, <2>1, ReachFrom DEF OnCycle
  <2>2. CASE c # n BY <2>2, ReachFirst
  <2> QED BY <2>1, <2>2
<1>4. PICK m \in g[n] \cap S : c \in ReachIn(g, S, {m}) BY <1>3
<1>5. m \in Circles(g, S) BY <1>2, <1>4 DEF Circles
<1> QED BY <1>1, <1>4, <1>5

LEMMA CirclesGreatest ==
  ASSUME IsFiniteSet(Nodes), NEW g, NEW S \in SUBSET Nodes, NEW Z \in SUBSET S,
         \A z \in Z : g[z] \cap Z # {}
  PROVE  Z \subseteq Circles(g, S)
BY ReachesCycle DEF Circles

LEMMA StaysGoOn ==
  ASSUME NEW g, NEW S \in SUBSET Nodes, NEW n \in Stays(g, S)
  PROVE  n \in S /\ (g[n] = {} \/ g[n] \cap Stays(g, S) # {})
<1>1. CASE n \in Circles(g, S) BY <1>1, CirclesGoOn DEF Stays
<1>2. CASE n \in S /\ ReachIn(g, S, {n}) \cap Terminal(g) # {}
  <2>1. PICK t \in ReachIn(g, S, {n}) : t \in Terminal(g) BY <1>2
  <2>2. CASE t = n BY <1>2, <2>1, <2>2 DEF Terminal
  <2>3. CASE t # n
    <3>1. PICK m \in g[n] \cap S : t \in ReachIn(g, S, {m}) BY <2>1, <2>3, ReachFirst
    <3>2. m \in Stays(g, S) BY <2>1, <3>1 DEF Stays
    <3> QED BY <1>2, <3>1, <3>2
  <2> QED BY <2>2, <2>3
<1> QED BY <1>1, <1>2 DEF Stays

LEMMA StaysGreatest ==
  ASSUME IsFiniteSet(Nodes), NEW g, NEW S \in SUBSET Nodes, NEW W \in SUBSET S,
         \A w \in W : g[w] = {} \/ g[w] \cap W # {}
  PROVE  W \subseteq Stays(g, S)
<1> SUFFICES ASSUME NEW n \in W PROVE n \in Stays(g, S) OBVIOUS
<1> DEFINE Z == ReachIn(g, W, {n})
<1>1. Z \in SUBSET W /\ n \in Z BY ReachBase
<1>2. Z \subseteq ReachIn(g, S, {n})
  <2>1. {n} \cap W \subseteq ReachIn(g, S, {n}) BY ReachBase
  <2> QED BY <2>1, ReachOnward
<1>3. \A z \in Z : g[z] \cap W \subseteq Z BY ReachOn
<1> HIDE DEF Z
<1>4. CASE \E t \in Z : g[t] = {}
  <2>1. PICK t \in Z : g[t] = {} BY <1>4
  <2>2. t \in Terminal(g) BY <1>1, <2>1 DEF Terminal
  <2> QED BY <1>2, <2>1, <2>2 DEF Stays
<1>5. CASE \A t \in Z : g[t] # {}
  <2>1. \A z \in Z : g[z] \cap Z # {} BY <1>1, <1>3, <1>5
  <2>2. Z \subseteq Circles(g, S) BY <1>1, <2>1, CirclesGreatest
  <2> QED BY <1>1, <2>2 DEF Stays
<1> QED BY <1>4, <1>5

LEMMA ReachesOne ==
  ASSUME NEW g \in AnyGraph, NEW P \in SUBSET Nodes, NEW Q, NEW n \in Reaches(g, P, Q)
  PROVE  n \in Q \/ (n \in P /\ g[n] \cap Reaches(g, P, Q) # {})
<1> SUFFICES ASSUME n \notin Q PROVE n \in P /\ g[n] \cap Reaches(g, P, Q) # {} OBVIOUS
<1> DEFINE T == {m \in Nodes : g[m] \cap Q # {}}
<1>1. n \in Nodes /\ ReachIn(g, P, {n} \cap P) \cap T # {} BY DEF Reaches
<1>2. n \in P
  <2> SUFFICES ASSUME n \notin P PROVE FALSE OBVIOUS
  <2>1. ReachIn(g, P, {n} \cap P) \subseteq {} BY ReachInLeast
  <2> QED BY <1>1, <2>1
<1>3. PICK c \in ReachIn(g, P, {n}) : c \in T
  <2>1. {n} \cap P = {n} BY <1>2
  <2> QED BY <1>1, <2>1
<1>4. CASE c = n BY <1>2, <1>3, <1>4 DEF Reaches
<1>5. CASE c # n
  <2>1. PICK m \in g[n] \cap P : c \in ReachIn(g, P, {m}) BY <1>5, ReachFirst
  <2>2. {m} \cap P = {m} BY <2>1
  <2>3. m \in Reaches(g, P, Q) BY <1>3, <2>1, <2>2 DEF Reaches
  <2> QED BY <1>2, <2>1, <2>3
<1> QED BY <1>4, <1>5

LEMMA ReachesBack ==
  ASSUME NEW g \in AnyGraph, NEW P \in SUBSET Nodes, NEW Q, NEW n \in P,
         g[n] \cap Reaches(g, P, Q) # {}
  PROVE  n \in Reaches(g, P, Q)
<1> DEFINE T == {m \in Nodes : g[m] \cap Q # {}}
<1>1. PICK m \in g[n] : m \in Reaches(g, P, Q) OBVIOUS
<1>2. {n} \cap P = {n} OBVIOUS
<1>3. CASE m \in Q
  <2>1. n \in ReachIn(g, P, {n}) /\ n \in T BY <1>1, <1>3, ReachBase
  <2> QED BY <1>2, <2>1 DEF Reaches
<1>4. CASE m \notin Q
  <2>1. m \in P BY <1>1, <1>4, ReachesOne
  <2>2. {m} \cap P = {m} BY <2>1
  <2>3. ReachIn(g, P, {m}) \cap T # {} BY <1>1, <1>4, <2>2 DEF Reaches
  <2>4. ReachIn(g, P, {n}) \cap T # {} BY <1>1, <2>1, <2>3, VisitsStep
  <2> QED BY <1>2, <2>4 DEF Reaches
<1> QED BY <1>3, <1>4

LEMMA ReachesLeast ==
  ASSUME NEW g \in AnyGraph, NEW P \in SUBSET Nodes, NEW Q \in SUBSET Nodes, NEW Z, Q \subseteq Z,
         \A n \in P : g[n] \cap Z # {} => n \in Z
  PROVE  Reaches(g, P, Q) \subseteq Z
<1> SUFFICES ASSUME NEW n \in Reaches(g, P, Q), n \notin Q PROVE n \in Z OBVIOUS
<1> DEFINE T == {m \in Nodes : g[m] \cap Q # {}}
<1>1. n \in P /\ {n} \cap P = {n} BY ReachesOne
<1>2. ReachIn(g, P, {n}) \cap T # {} BY <1>1 DEF Reaches
<1>3. P \cap T \subseteq Z OBVIOUS
<1> HIDE DEF T
<1> QED BY <1>1, <1>2, <1>3, VisitsLeast

\* Where some run has no Q, or a node outside P before the first Q.
Avoids(g, P, Q) == Stays(g, Nodes \ Q) \cup Reaches(g, Nodes \ Q, (Nodes \ Q) \cap (Nodes \ P))

LEMMA AvoidsGoOn ==
  ASSUME NEW g \in AnyGraph, NEW P, NEW Q, NEW n \in Avoids(g, P, Q)
  PROVE  n \in Nodes \ Q /\ (n \notin P \/ g[n] = {} \/ g[n] \cap Avoids(g, P, Q) # {})
<1> DEFINE N == Nodes \ Q
           M == (Nodes \ Q) \cap (Nodes \ P)
<1>1. N \in SUBSET Nodes OBVIOUS
<1>2. Avoids(g, P, Q) = Stays(g, N) \cup Reaches(g, N, M) BY DEF Avoids
<1>3. M \subseteq N /\ \A x \in M : x \notin P OBVIOUS
<1>4. \A x \in N : x \in Nodes /\ x \notin Q OBVIOUS
<1> HIDE DEF N, M
<1>5. CASE n \in Stays(g, N) BY <1>1, <1>2, <1>4, <1>5, StaysGoOn
<1>6. CASE n \in Reaches(g, N, M) BY <1>1, <1>2, <1>3, <1>4, <1>6, ReachesOne
<1> QED BY <1>2, <1>5, <1>6

LEMMA AvoidsGreatest ==
  ASSUME IsFiniteSet(Nodes), NEW g \in AnyGraph, NEW P, NEW Q, NEW W \in SUBSET (Nodes \ Q),
         \A n \in W : n \notin P \/ g[n] = {} \/ g[n] \cap W # {}
  PROVE  W \subseteq Avoids(g, P, Q)
<1> DEFINE N == Nodes \ Q
           M == (Nodes \ Q) \cap (Nodes \ P)
           V == W \ Reaches(g, N, M)
<1>1. N \in SUBSET Nodes /\ V \in SUBSET N /\ W \subseteq N OBVIOUS
<1>2. M \subseteq Reaches(g, N, M) BY DEF Reaches
<1>3. ASSUME NEW n \in V PROVE g[n] = {} \/ g[n] \cap V # {}
  <2>1. n \in P BY <1>2
  <2>2. g[n] \cap Reaches(g, N, M) = {} BY <1>1, ReachesBack
  <2> QED BY <2>1, <2>2
<1> HIDE DEF V
<1>4. V \subseteq Stays(g, N) BY <1>1, <1>3, StaysGreatest
<1> QED BY <1>4 DEF Avoids, V

-----------------------------------------------------------------------------
(* A set that is a fixpoint, and on the right side of every other, is the  *)
(* one that Kripke defines by what runs do.                                *)

Ever(g, T) == {n \in Nodes : Reach(g, n) \cap T # {}}

LEMMA EverExact ==
  ASSUME NEW g \in AnyGraph, NEW T \in SUBSET Nodes, NEW Y \in SUBSET Nodes, T \subseteq Y,
         \A n \in Nodes : g[n] \cap Y # {} => n \in Y,
         \A Z \in SUBSET Nodes :
           T \subseteq Z /\ (\A n \in Nodes : g[n] \cap Z # {} => n \in Z) => Y \subseteq Z
  PROVE  Y = Ever(g, T)
<1>1. ASSUME NEW n \in T PROVE n \in Ever(g, T)
  <2>1. n \in ReachIn(g, Nodes, {n}) BY ReachBase
  <2> QED BY <2>1 DEF Ever, Reach
<1>2. ASSUME NEW n \in Nodes, g[n] \cap Ever(g, T) # {} PROVE n \in Ever(g, T)
  <2>1. PICK m \in g[n] \cap Nodes : ReachIn(g, Nodes, {m}) \cap T # {} BY <1>2 DEF Ever, Reach
  <2>2. ReachIn(g, Nodes, {n}) \cap T # {} BY <2>1, VisitsStep
  <2> QED BY <2>2 DEF Ever, Reach
<1>3. Ever(g, T) \in SUBSET Nodes BY DEF Ever
<1>4. Y \subseteq Ever(g, T) BY <1>1, <1>2, <1>3
<1>5. ASSUME NEW n \in Ever(g, T) PROVE n \in Y
  <2>1. n \in Nodes /\ ReachIn(g, Nodes, {n}) \cap T # {} BY DEF Ever, Reach
  <2>2. Nodes \cap T \subseteq Y OBVIOUS
  <2> QED BY <2>1, <2>2, VisitsLeast
<1> QED BY <1>4, <1>5

LEMMA CirclesExact ==
  ASSUME IsFiniteSet(Nodes), NEW g, NEW S \in SUBSET Nodes, NEW Y \in SUBSET S,
         \A n \in Y : g[n] \cap Y # {},
         \A Z \in SUBSET S : (\A n \in Z : g[n] \cap Z # {}) => Z \subseteq Y
  PROVE  Y = Circles(g, S)
<1>1. Y \subseteq Circles(g, S) BY CirclesGreatest
<1>2. Circles(g, S) \in SUBSET S BY DEF Circles
<1>3. Circles(g, S) \subseteq Y BY <1>2, CirclesGoOn
<1> QED BY <1>1, <1>3

LEMMA ReachesExact ==
  ASSUME NEW g \in AnyGraph, NEW P \in SUBSET Nodes, NEW Q \in SUBSET Nodes,
         NEW Y \in SUBSET Nodes, Q \subseteq Y,
         \A n \in P : g[n] \cap Y # {} => n \in Y,
         \A Z \in SUBSET Nodes :
           Q \subseteq Z /\ (\A n \in P : g[n] \cap Z # {} => n \in Z) => Y \subseteq Z
  PROVE  Y = Reaches(g, P, Q)
<1>1. Reaches(g, P, Q) \in SUBSET Nodes /\ Q \subseteq Reaches(g, P, Q) BY DEF Reaches
<1>2. Y \subseteq Reaches(g, P, Q) BY <1>1, ReachesBack
<1>3. Reaches(g, P, Q) \subseteq Y BY ReachesLeast
<1> QED BY <1>2, <1>3

\* P U Q on all runs: a node joins with all its successors.
LEMMA AvoidsExact ==
  ASSUME IsFiniteSet(Nodes), NEW g \in AnyGraph, NEW P, NEW Q \in SUBSET Nodes,
         NEW Y \in SUBSET Nodes, Q \subseteq Y,
         \A n \in Nodes : n \in P /\ g[n] # {} /\ g[n] \subseteq Y => n \in Y,
         \A Z \in SUBSET Nodes :
           Q \subseteq Z /\ (\A n \in Nodes : n \in P /\ g[n] # {} /\ g[n] \subseteq Z => n \in Z)
             => Y \subseteq Z
  PROVE  Y = Nodes \ Avoids(g, P, Q)
<1> DEFINE A == Avoids(g, P, Q)
<1>1. A \in SUBSET Nodes /\ A \cap Q = {} BY AvoidsGoOn
<1>2. ASSUME NEW n \in Nodes, n \in P, g[n] # {}, g[n] \subseteq Nodes \ A PROVE n \in Nodes \ A
  BY <1>2, AvoidsGoOn
<1>3. Y \subseteq Nodes \ A BY <1>1, <1>2
<1>4. Nodes \ Y \subseteq A
  <2>1. Nodes \ Y \in SUBSET (Nodes \ Q) OBVIOUS
  <2>2. \A n \in Nodes \ Y : g[n] \subseteq Nodes BY DEF AnyGraph
  <2>3. \A n \in Nodes \ Y : n \notin P \/ g[n] = {} \/ g[n] \cap (Nodes \ Y) # {} BY <2>2
  <2> QED BY <2>1, <2>3, AvoidsGreatest
<1> QED BY <1>1, <1>3, <1>4

\* F P on all runs is P U Q with every node before it.
LEMMA StaysExact ==
  ASSUME IsFiniteSet(Nodes), NEW g \in AnyGraph, NEW P \in SUBSET Nodes, NEW Y \in SUBSET Nodes,
         P \subseteq Y,
         \A n \in Nodes : g[n] # {} /\ g[n] \subseteq Y => n \in Y,
         \A Z \in SUBSET Nodes :
           P \subseteq Z /\ (\A n \in Nodes : g[n] # {} /\ g[n] \subseteq Z => n \in Z)
             => Y \subseteq Z
  PROVE  Y = Nodes \ Stays(g, Nodes \ P)
<1> DEFINE A == Stays(g, Nodes \ P)
<1>0. Nodes \ P \in SUBSET Nodes /\ Nodes \ Y \in SUBSET (Nodes \ P) OBVIOUS
<1>1. \A n \in A : n \in Nodes \ P /\ (g[n] = {} \/ g[n] \cap A # {}) BY <1>0, StaysGoOn
<1> HIDE DEF A
<1>2. ASSUME NEW n \in Nodes, g[n] # {}, g[n] \subseteq Nodes \ A PROVE n \in Nodes \ A
  BY <1>1, <1>2
<1>3. P \subseteq Nodes \ A BY <1>1
<1>4. Y \subseteq Nodes \ A BY <1>2, <1>3
<1>5. Nodes \ Y \subseteq A
  <2>1. \A n \in Nodes \ Y : g[n] \subseteq Nodes BY DEF AnyGraph
  <2>2. \A n \in Nodes \ Y : g[n] = {} \/ g[n] \cap (Nodes \ Y) # {} BY <2>1
  <2> QED BY <1>0, <2>2, StaysGreatest DEF A
<1> QED BY <1>1, <1>4, <1>5 DEF A

-----------------------------------------------------------------------------
(* The sets and the runs.                                                  *)

\* Induction on the naturals, for sets.
LEMMA NatSet ==
  ASSUME NEW T \in SUBSET Nat, 0 \in T, \A k \in T : k + 1 \in T
  PROVE  T = Nat
<1> SUFFICES ASSUME Nat \ T # {} PROVE FALSE OBVIOUS
<1> DEFINE U == Nat \ T
<1>1. U \in SUBSET Nat /\ U # {} OBVIOUS
<1>2. PICK m \in U : \A l \in U : ~(<<l, m>> \in OpToRel(<, Nat))
  BY <1>1, NatLessThanWellFounded, WFMin
<1>3. m \in Nat /\ m \notin T BY <1>2
<1>4. \A l \in Nat : l \notin T => ~(l < m)
  <2> SUFFICES ASSUME NEW l \in Nat, l \notin T, l < m PROVE FALSE OBVIOUS
  <2>1. l \in U OBVIOUS
  <2>2. <<l, m>> \in OpToRel(<, Nat) BY <1>3 DEF OpToRel
  <2> QED BY <1>2, <2>1, <2>2
<1>5. m # 0 BY <1>3
<1>6. m - 1 \in Nat /\ m - 1 < m /\ (m - 1) + 1 = m BY <1>3, <1>5
<1>7. m - 1 \in T BY <1>4, <1>6
<1> QED BY <1>3, <1>6, <1>7

\* What a function yields when it is applied again and again.
LEMMA Iterates ==
  ASSUME NEW S, NEW x \in S, NEW h \in [S -> S]
  PROVE  \E r \in [Nat -> S] : r[0] = x /\ \A i \in Nat : r[i + 1] = h[r[i]]
<1> DEFINE Part(k) == {f \in [0 .. k -> S] : f[0] = x /\ \A i \in 0 .. k - 1 : f[i + 1] = h[f[i]]}
<1>1. \A k \in Nat : Part(k) # {}
  <2> DEFINE T == {k \in Nat : Part(k) # {}}
  <2>1. 0 \in T
    <3>1. [i \in 0 .. 0 |-> x] \in Part(0) OBVIOUS
    <3> QED BY <3>1
  <2>2. ASSUME NEW k \in T PROVE k + 1 \in T
    <3>1. PICK f \in Part(k) : TRUE OBVIOUS
    <3> DEFINE e == [i \in 0 .. k + 1 |-> IF i = k + 1 THEN h[f[k]] ELSE f[i]]
    <3>2. f \in [0 .. k -> S] /\ f[0] = x /\ \A i \in 0 .. k - 1 : f[i + 1] = h[f[i]]
      BY <3>1
    <3>3. e \in [0 .. k + 1 -> S] /\ e[0] = x BY <3>2
    <3>4. ASSUME NEW i \in 0 .. (k + 1) - 1 PROVE e[i + 1] = h[e[i]]
      <4>1. i \in 0 .. k /\ e[i] = f[i] OBVIOUS
      <4>2. CASE i = k BY <4>1, <4>2
      <4>3. CASE i # k
        <5>1. i \in 0 .. k - 1 /\ e[i + 1] = f[i + 1] BY <4>3
        <5> QED BY <3>2, <4>1, <5>1
      <4> QED BY <4>2, <4>3
    <3> HIDE DEF e
    <3>5. e \in Part(k + 1) BY <3>3, <3>4
    <3> QED BY <3>5
  <2> HIDE DEF T
  <2>3. T = Nat BY <2>1, <2>2, NatSet DEF T
  <2> QED BY <2>3 DEF T
<1>2. \A k \in Nat : \A f \in Part(k), e \in Part(k + 1) : \A i \in 0 .. k : f[i] = e[i]
  <2> SUFFICES ASSUME NEW k \in Nat, NEW f \in Part(k), NEW e \in Part(k + 1)
               PROVE  \A i \in 0 .. k : f[i] = e[i]
    OBVIOUS
  <2>0. /\ f[0] = x /\ \A i \in 0 .. k - 1 : f[i + 1] = h[f[i]]
        /\ e[0] = x /\ \A i \in 0 .. k : e[i + 1] = h[e[i]]
    OBVIOUS
  <2> HIDE DEF Part
  <2> DEFINE T == {i \in Nat : i <= k => f[i] = e[i]}
  <2>1. 0 \in T BY <2>0
  <2>2. ASSUME NEW i \in T PROVE i + 1 \in T
    <3>1. i \in Nat OBVIOUS
    <3> SUFFICES ASSUME i + 1 <= k PROVE f[i + 1] = e[i + 1] BY <3>1
    <3>2. i \in 0 .. k - 1 /\ i \in 0 .. k /\ i <= k BY <3>1
    <3>3. f[i] = e[i] BY <3>2
    <3>4. f[i + 1] = h[f[i]] /\ e[i + 1] = h[e[i]] BY <2>0, <3>2
    <3> QED BY <3>3, <3>4
  <2> HIDE DEF T
  <2>3. T = Nat BY <2>1, <2>2, NatSet DEF T
  <2>4. ASSUME NEW i \in 0 .. k PROVE f[i] = e[i]
    <3>1. i \in T /\ i <= k BY <2>3
    <3> QED BY <3>1 DEF T
  <2> QED BY <2>4
<1> DEFINE F == [k \in Nat |-> CHOOSE f \in Part(k) : TRUE]
           r == [k \in Nat |-> F[k][k]]
<1>3. \A k \in Nat : F[k] \in Part(k) BY <1>1
<1> HIDE DEF F
<1>4. ASSUME NEW k \in Nat PROVE r[k] \in S
  <2>1. F[k] \in [0 .. k -> S] BY <1>3
  <2> QED BY <2>1
<1>5. r[0] = x BY <1>3
<1>6. ASSUME NEW k \in Nat PROVE r[k + 1] = h[r[k]]
  <2>1. F[k + 1] \in Part(k + 1) /\ F[k] \in Part(k)
    <3>1. k + 1 \in Nat OBVIOUS
    <3> HIDE DEF Part
    <3> QED BY <1>3, <3>1
  <2>2. F[k + 1][k + 1] = h[F[k + 1][k]] BY <2>1
  <2>3. F[k + 1][k] = F[k][k]
    <3> HIDE DEF Part
    <3> QED BY <1>2, <2>1
  <2> QED BY <2>2, <2>3
<1> QED BY <1>4, <1>5, <1>6

\* The least of some naturals.
LEMMA Least ==
  ASSUME NEW T \in SUBSET Nat, T # {}
  PROVE  \E m \in T : \A l \in Nat : l < m => l \notin T
<1>1. PICK m \in T : \A l \in T : ~(<<l, m>> \in OpToRel(<, Nat))
  BY NatLessThanWellFounded, WFMin
<1>2. ASSUME NEW l \in Nat, l < m, l \in T PROVE FALSE
  <2>1. <<l, m>> \in OpToRel(<, Nat) BY <1>2 DEF OpToRel
  <2> QED BY <1>1, <1>2, <2>1
<1> QED BY <1>2

-----------------------------------------------------------------------------
(* How runs are made and taken apart.                                      *)

LEMMA RunStep ==
  ASSUME NEW g, NEW n, NEW run \in Runs(g, n)
  PROVE  /\ run \in [Nat -> Nodes] /\ run[0] = n
         /\ \A i \in Nat : run[i] \in Nodes
         /\ \A i \in Nat : IF g[run[i]] = {} THEN run[i + 1] = run[i]
                                             ELSE run[i + 1] \in g[run[i]]
BY DEF Runs

\* Where every node may end or has a successor, a run stays.
LEMMA RunWithin ==
  ASSUME NEW g, NEW W \in SUBSET Nodes, \A w \in W : g[w] = {} \/ g[w] \cap W # {}, NEW n \in W
  PROVE  \E run \in Runs(g, n) : \A i \in Nat : run[i] \in W
<1> DEFINE step == [w \in W |-> IF g[w] = {} THEN w ELSE CHOOSE m \in g[w] \cap W : TRUE]
<1>1. ASSUME NEW w \in W
      PROVE  step[w] \in W /\ IF g[w] = {} THEN step[w] = w ELSE step[w] \in g[w]
  <2>1. CASE g[w] = {} BY <2>1
  <2>2. CASE g[w] # {}
    <3>1. step[w] = CHOOSE m \in g[w] \cap W : TRUE BY <2>2
    <3>2. step[w] \in g[w] \cap W BY <2>2, <3>1
    <3> QED BY <2>2, <3>2
  <2> QED BY <2>1, <2>2
<1>2. step \in [W -> W] BY <1>1
<1> HIDE DEF step
<1>3. PICK h \in [W -> W] :
        \A w \in W : IF g[w] = {} THEN h[w] = w ELSE h[w] \in g[w]
  BY <1>1, <1>2
<1>4. \E r \in [Nat -> W] : r[0] = n /\ \A i \in Nat : r[i + 1] = h[r[i]]
  <2>1. h \in [W -> W] /\ n \in W BY <1>3
  <2> QED BY ONLY <2>1, Iterates
<1>5. PICK r \in [Nat -> W] : r[0] = n /\ \A i \in Nat : r[i + 1] = h[r[i]] BY <1>4
<1>6. r \in [Nat -> Nodes] BY <1>5
<1>7. \A i \in Nat : IF g[r[i]] = {} THEN r[i + 1] = r[i] ELSE r[i + 1] \in g[r[i]]
  BY <1>3, <1>5
<1>8. r \in Runs(g, n) BY <1>5, <1>6, <1>7 DEF Runs
<1> QED BY <1>5, <1>8

LEMMA RunAny ==
  ASSUME NEW g \in AnyGraph, NEW n \in Nodes
  PROVE  \E run \in Runs(g, n) : TRUE
<1>1. \A w \in Nodes : g[w] = {} \/ g[w] \cap Nodes # {} BY DEF AnyGraph
<1> QED BY <1>1, RunWithin

\* One node before a run, and a run without its first nodes.
LEMMA RunBefore ==
  ASSUME NEW g, NEW n \in Nodes, NEW m \in g[n], NEW run \in Runs(g, m)
  PROVE  \E r \in Runs(g, n) : r[0] = n /\ \A i \in Nat : r[i + 1] = run[i]
<1> DEFINE r == [i \in Nat |-> IF i = 0 THEN n ELSE run[i - 1]]
<1>1. \A i \in Nat : r[i + 1] = run[i]
  <2> SUFFICES ASSUME NEW i \in Nat PROVE r[i + 1] = run[i] OBVIOUS
  <2>1. i + 1 # 0 /\ (i + 1) - 1 = i /\ i + 1 \in Nat OBVIOUS
  <2> QED BY <2>1
<1>2. r[0] = n OBVIOUS
<1>3. \A i \in Nat : i # 0 => i - 1 \in Nat /\ (i - 1) + 1 = i OBVIOUS
<1>4. \A i \in Nat : r[i] \in Nodes
  <2> SUFFICES ASSUME NEW i \in Nat PROVE r[i] \in Nodes OBVIOUS
  <2> HIDE DEF r
  <2>1. CASE i = 0 BY <1>2, <2>1
  <2>2. CASE i # 0
    <3>1. r[i] = run[i - 1] /\ i - 1 \in Nat BY <1>1, <1>3, <2>2
    <3>2. \A l \in Nat : run[l] \in Nodes BY RunStep
    <3> QED BY <3>1, <3>2
  <2> QED BY <2>1, <2>2
<1>5. r \in [Nat -> Nodes] BY <1>4
<1> HIDE DEF r
<1>6. ASSUME NEW i \in Nat
      PROVE  IF g[r[i]] = {} THEN r[i + 1] = r[i] ELSE r[i + 1] \in g[r[i]]
  <2>1. CASE i = 0
    <3>1. r[i] = n /\ r[i + 1] = m BY <1>1, <1>2, <2>1, RunStep
    <3> QED BY <3>1
  <2>2. CASE i # 0
    <3>1. PICK j \in Nat : i = j + 1 BY <1>3, <2>2
    <3>2. r[i] = run[j] /\ r[i + 1] = run[j + 1] BY <1>1, <3>1
    <3>3. IF g[run[j]] = {} THEN run[j + 1] = run[j] ELSE run[j + 1] \in g[run[j]] BY RunStep
    <3> QED BY <3>2, <3>3
  <2> QED BY <2>1, <2>2
<1>7. r \in Runs(g, n) BY <1>2, <1>5, <1>6 DEF Runs
<1> QED BY <1>1, <1>2, <1>7

LEMMA RunAfter ==
  ASSUME NEW g, NEW n, NEW run \in Runs(g, n), NEW k \in Nat
  PROVE  [i \in Nat |-> run[i + k]] \in Runs(g, run[k])
<1> DEFINE r == [i \in Nat |-> run[i + k]]
<1>1. \A i \in Nat : i + k \in Nat /\ r[i] = run[i + k] /\ r[i + 1] = run[(i + k) + 1]
  <2> SUFFICES ASSUME NEW i \in Nat
               PROVE  i + k \in Nat /\ r[i] = run[i + k] /\ r[i + 1] = run[(i + k) + 1]
    OBVIOUS
  <2>1. i + 1 \in Nat /\ (i + 1) + k = (i + k) + 1 OBVIOUS
  <2> QED BY <2>1
<1>2. r[0] = run[k] OBVIOUS
<1>3. r \in [Nat -> Nodes]
  <2>1. \A i \in Nat : run[i + k] \in Nodes BY <1>1, RunStep
  <2> QED BY <2>1
<1> HIDE DEF r
<1>4. ASSUME NEW i \in Nat
      PROVE  IF g[r[i]] = {} THEN r[i + 1] = r[i] ELSE r[i + 1] \in g[r[i]]
  <2>1. IF g[run[i + k]] = {} THEN run[(i + k) + 1] = run[i + k]
                              ELSE run[(i + k) + 1] \in g[run[i + k]]
    BY <1>1, RunStep
  <2> QED BY <1>1, <2>1
<1>5. r \in Runs(g, run[k]) BY <1>2, <1>3, <1>4 DEF Runs
<1> QED BY <1>5 DEF r

\* What a run passes is reached, and what is reached is passed by a run that
\* goes on from there as one likes.
LEMMA RunReaches ==
  ASSUME NEW g, NEW S, NEW n, NEW run \in Runs(g, n), NEW k \in Nat,
         \A j \in 0 .. k : run[j] \in S
  PROVE  run[k] \in ReachIn(g, S, {n})
<1> DEFINE T == {i \in Nat : i <= k => run[i] \in ReachIn(g, S, {n})}
<1>1. 0 \in T
  <2>1. 0 \in 0 .. k OBVIOUS
  <2>2. run[0] = n /\ n \in S BY <2>1, RunStep
  <2> QED BY <2>2, ReachBase
<1>2. ASSUME NEW i \in T PROVE i + 1 \in T
  <2>1. i \in Nat OBVIOUS
  <2> SUFFICES ASSUME i + 1 <= k PROVE run[i + 1] \in ReachIn(g, S, {n}) BY <2>1
  <2>2. i + 1 \in 0 .. k /\ i <= k BY <2>1
  <2>3. run[i] \in ReachIn(g, S, {n}) BY <2>2
  <2>4. run[i + 1] \in S BY <2>2
  <2>5. run[i + 1] = run[i] \/ run[i + 1] \in g[run[i]] BY <2>1, RunStep
  <2> QED BY <2>3, <2>4, <2>5, ReachOn
<1> HIDE DEF T
<1>3. T = Nat BY <1>1, <1>2, NatSet DEF T
<1>4. k \in T BY <1>3
<1> QED BY <1>4 DEF T

Leads(g, S, n, c, tail) ==
  \E run \in Runs(g, n), k \in Nat :
    (\A j \in 0 .. k : run[j] \in S) /\ run[k] = c /\ \A i \in Nat : run[i + k] = tail[i]

LEMMA ReachesRun ==
  ASSUME NEW g, NEW S \in SUBSET Nodes, NEW n \in S, NEW c \in ReachIn(g, S, {n}),
         NEW tail \in Runs(g, c)
  PROVE  Leads(g, S, n, c, tail)
<1> DEFINE T == {c}
           Along(run, k) == /\ \A j \in 0 .. k : run[j] \in S
                               /\ run[k] = c
                               /\ \A i \in Nat : run[i + k] = tail[i]
           Z == {x \in S : \E run \in Runs(g, x) : \E k \in Nat : Along(run, k)}
<1>1. S \cap T \subseteq Z
  <2> SUFFICES ASSUME c \in S PROVE c \in Z OBVIOUS
  <2>1. tail[0] = c BY RunStep
  <2>2. \A j \in 0 .. 0 : tail[j] \in S
    <3>1. \A j \in 0 .. 0 : j = 0 OBVIOUS
    <3> QED BY <2>1, <3>1
  <2>3. \A i \in Nat : tail[i + 0] = tail[i] OBVIOUS
  <2>4. Along(tail, 0) BY <2>1, <2>2, <2>3
  <2> HIDE DEF Along
  <2> QED BY <2>4
<1>2. ASSUME NEW x \in S, g[x] \cap Z # {} PROVE x \in Z
  <2>1. PICK m \in g[x] : m \in Z BY <1>2
  <2>2. PICK run \in Runs(g, m), k \in Nat : Along(run, k) BY <2>1
  <2>3. PICK r \in Runs(g, x) : r[0] = x /\ \A i \in Nat : r[i + 1] = run[i] BY <2>1, RunBefore
  <2>4. ASSUME NEW j \in 0 .. k + 1 PROVE r[j] \in S
    <3>1. CASE j = 0 BY <2>3, <3>1
    <3>2. CASE j # 0
      <4>1. j - 1 \in 0 .. k /\ j - 1 \in Nat /\ (j - 1) + 1 = j BY <3>2
      <4>2. run[j - 1] \in S BY <2>2, <4>1
      <4> QED BY <2>3, <4>1, <4>2
    <3> QED BY <3>1, <3>2
  <2>5. r[k + 1] = c BY <2>2, <2>3
  <2>6. ASSUME NEW i \in Nat PROVE r[i + (k + 1)] = tail[i]
    <3>1. i + k \in Nat /\ i + (k + 1) = (i + k) + 1 OBVIOUS
    <3>2. run[i + k] = tail[i] BY <2>2
    <3> QED BY <2>3, <3>1, <3>2
  <2>7. Along(r, k + 1) BY <2>4, <2>5, <2>6
  <2>8. k + 1 \in Nat OBVIOUS
  <2> HIDE DEF Along
  <2> QED BY <2>7, <2>8
<1>3. ReachIn(g, S, {n}) \cap T # {} OBVIOUS
<1>4. \A x \in S : g[x] \cap Z # {} => x \in Z BY <1>2
<1> HIDE DEF Z, Along, T
<1>5. n \in Z BY <1>1, <1>3, <1>4, VisitsLeast
<1> QED BY <1>5 DEF Z, Along, Leads

-----------------------------------------------------------------------------
(* What some run does.                                                     *)

LEMMA EverRuns ==
  ASSUME NEW g \in AnyGraph, NEW T \in SUBSET Nodes, NEW n \in Nodes
  PROVE  n \in Ever(g, T) <=> \E run \in Runs(g, n) : \E i \in Nat : run[i] \in T
<1>1. ASSUME n \in Ever(g, T) PROVE \E run \in Runs(g, n) : \E i \in Nat : run[i] \in T
  <2>1. PICK c \in ReachIn(g, Nodes, {n}) : c \in T BY <1>1 DEF Ever, Reach
  <2>2. PICK tail \in Runs(g, c) : TRUE BY <2>1, RunAny
  <2>3. Leads(g, Nodes, n, c, tail) BY <2>1, <2>2, ReachesRun
  <2>4. PICK run \in Runs(g, n), k \in Nat : run[k] = c BY <2>3 DEF Leads
  <2> QED BY <2>1, <2>4
<1>2. ASSUME NEW run \in Runs(g, n), NEW i \in Nat, run[i] \in T PROVE n \in Ever(g, T)
  <2>1. \A j \in 0 .. i : run[j] \in Nodes BY RunStep
  <2>2. run[i] \in ReachIn(g, Nodes, {n}) BY <2>1, RunReaches
  <2> QED BY <1>2, <2>2 DEF Ever, Reach
<1> QED BY <1>1, <1>2

LEMMA StaysRuns ==
  ASSUME IsFiniteSet(Nodes), NEW g \in AnyGraph, NEW S \in SUBSET Nodes, NEW n \in Nodes
  PROVE  n \in Stays(g, S) <=> \E run \in Runs(g, n) : \A i \in Nat : run[i] \in S
<1>1. ASSUME n \in Stays(g, S) PROVE \E run \in Runs(g, n) : \A i \in Nat : run[i] \in S
  <2>1. Stays(g, S) \in SUBSET S BY StaysGoOn
  <2>2. \A w \in Stays(g, S) : g[w] = {} \/ g[w] \cap Stays(g, S) # {} BY StaysGoOn
  <2>3. \E run \in Runs(g, n) : \A i \in Nat : run[i] \in Stays(g, S)
    <3> DEFINE W == Stays(g, S)
    <3>1. W \in SUBSET Nodes /\ n \in W /\ \A w \in W : g[w] = {} \/ g[w] \cap W # {}
      BY <1>1, <2>1, <2>2
    <3> HIDE DEF W
    <3>2. \E run \in Runs(g, n) : \A i \in Nat : run[i] \in W BY <3>1, RunWithin
    <3> QED BY <3>2 DEF W
  <2> QED BY <2>1, <2>3
<1>2. ASSUME NEW run \in Runs(g, n), \A i \in Nat : run[i] \in S PROVE n \in Stays(g, S)
  <2> DEFINE W == {run[i] : i \in Nat}
  <2>1. W \in SUBSET S BY <1>2
  <2>2. ASSUME NEW w \in W PROVE g[w] = {} \/ g[w] \cap W # {}
    <3>1. PICK i \in Nat : w = run[i] OBVIOUS
    <3>2. IF g[run[i]] = {} THEN run[i + 1] = run[i] ELSE run[i + 1] \in g[run[i]] BY RunStep
    <3>3. i + 1 \in Nat OBVIOUS
    <3> QED BY <3>1, <3>2, <3>3
  <2>3. n \in W
    <3>1. run[0] = n BY RunStep
    <3> QED BY <3>1
  <2> HIDE DEF W
  <2> QED BY <2>1, <2>2, <2>3, StaysGreatest
<1> QED BY <1>1, <1>2

Circulates(g, S, run) == \A i \in Nat : run[i] \in S /\ g[run[i]] # {}

LEMMA CirclesRuns ==
  ASSUME IsFiniteSet(Nodes), NEW g \in AnyGraph, NEW S \in SUBSET Nodes, NEW n \in Nodes
  PROVE  n \in Circles(g, S) <=> \E run \in Runs(g, n) : Circulates(g, S, run)
<1> USE DEF Circulates
<1>1. ASSUME n \in Circles(g, S)
      PROVE  \E run \in Runs(g, n) : \A i \in Nat : run[i] \in S /\ g[run[i]] # {}
  <2> DEFINE W == Circles(g, S)
  <2>1. \A w \in W : w \in S /\ g[w] \cap W # {} BY CirclesGoOn
  <2>2. W \in SUBSET Nodes /\ n \in W BY <1>1, <2>1
  <2> HIDE DEF W
  <2>3. PICK run \in Runs(g, n) : \A i \in Nat : run[i] \in W BY <2>1, <2>2, RunWithin
  <2> QED BY <2>1, <2>3
<1>2. ASSUME NEW run \in Runs(g, n), \A i \in Nat : run[i] \in S /\ g[run[i]] # {}
      PROVE  n \in Circles(g, S)
  <2> DEFINE W == {run[i] : i \in Nat}
  <2>1. W \in SUBSET S BY <1>2
  <2>2. ASSUME NEW w \in W PROVE g[w] \cap W # {}
    <3>1. PICK i \in Nat : w = run[i] OBVIOUS
    <3>2. run[i + 1] \in g[run[i]] BY <1>2, RunStep
    <3>3. i + 1 \in Nat OBVIOUS
    <3> QED BY <3>1, <3>2, <3>3
  <2>3. n \in W
    <3>1. run[0] = n BY RunStep
    <3> QED BY <3>1
  <2> HIDE DEF W
  <2> QED BY <2>1, <2>2, <2>3, CirclesGreatest
<1> QED BY <1>1, <1>2

LEMMA ReachesRuns ==
  ASSUME NEW g \in AnyGraph, NEW P \in SUBSET Nodes, NEW Q \in SUBSET Nodes, NEW n \in Nodes
  PROVE  n \in Reaches(g, P, Q) <=> \E run \in Runs(g, n) : UntilOn(P, Q, run)
<1>1. ASSUME n \in Q PROVE \E run \in Runs(g, n) : UntilOn(P, Q, run)
  <2>1. PICK run \in Runs(g, n) : TRUE BY RunAny
  <2>2. run[0] \in Q BY <1>1, <2>1, RunStep
  <2>3. \A j \in 0 .. 0 - 1 : run[j] \in P OBVIOUS
  <2> QED BY <2>2, <2>3 DEF UntilOn
<1>2. ASSUME n \in Reaches(g, P, Q), n \notin Q PROVE \E run \in Runs(g, n) : UntilOn(P, Q, run)
  <2> DEFINE T == {m \in Nodes : g[m] \cap Q # {}}
  <2>1. n \in P BY <1>2, ReachesOne
  <2>2. {n} \cap P = {n} BY <2>1
  <2>3. PICK c \in ReachIn(g, P, {n}) : c \in T BY <1>2, <2>2 DEF Reaches
  <2>4. PICK m \in g[c] : m \in Q BY <2>3
  <2>5. PICK rest \in Runs(g, m) : TRUE BY <2>4, RunAny
  <2>6. PICK tail \in Runs(g, c) : \A i \in Nat : tail[i + 1] = rest[i] BY <2>3, <2>4, <2>5, RunBefore
  <2>7. Leads(g, P, n, c, tail) BY <2>1, <2>3, <2>6, ReachesRun
  <2>8. PICK run \in Runs(g, n), k \in Nat :
          (\A j \in 0 .. k : run[j] \in P) /\ run[k] = c /\ \A i \in Nat : run[i + k] = tail[i]
    BY <2>7 DEF Leads
  <2>9. run[k + 1] \in Q
    <3>1. tail[0 + 1] = rest[0] /\ rest[0] = m BY <2>5, <2>6, RunStep
    <3>2. run[1 + k] = tail[1] BY <2>8
    <3> QED BY <2>4, <3>1, <3>2
  <2>10. \A j \in 0 .. (k + 1) - 1 : run[j] \in P BY <2>8
  <2> QED BY <2>8, <2>9, <2>10 DEF UntilOn
<1>3. ASSUME NEW run \in Runs(g, n), UntilOn(P, Q, run) PROVE n \in Reaches(g, P, Q)
  <2> DEFINE T == {k \in Nat : \A x \in Nodes : \A r \in Runs(g, x) :
                     r[k] \in Q /\ (\A j \in 0 .. k - 1 : r[j] \in P) => x \in Reaches(g, P, Q)}
  <2>0. Q \subseteq Reaches(g, P, Q) BY DEF Reaches
  <2>1. 0 \in T
    <3> SUFFICES ASSUME NEW x \in Nodes, NEW r \in Runs(g, x), r[0] \in Q
                 PROVE  x \in Reaches(g, P, Q)
      OBVIOUS
    <3> QED BY <2>0, RunStep
  <2>2. ASSUME NEW k \in T PROVE k + 1 \in T
    <3>0. k \in Nat OBVIOUS
    <3> SUFFICES ASSUME NEW x \in Nodes, NEW r \in Runs(g, x), r[k + 1] \in Q,
                        \A j \in 0 .. (k + 1) - 1 : r[j] \in P
                 PROVE  x \in Reaches(g, P, Q)
      BY <3>0
    <3> DEFINE tail == [i \in Nat |-> r[i + 1]]
    <3>1. tail \in Runs(g, r[1]) /\ r[1] \in Nodes BY RunAfter, RunStep
    <3>2. tail[k] \in Q BY <3>0
    <3>3. ASSUME NEW j \in 0 .. k - 1 PROVE tail[j] \in P
      <4>1. j \in Nat /\ j + 1 \in 0 .. (k + 1) - 1 BY <3>0
      <4> QED BY <4>1
    <3> HIDE DEF tail
    <3>4. r[1] \in Reaches(g, P, Q) BY <3>1, <3>2, <3>3
    <3>5. r[0] = x /\ (r[0 + 1] = r[0] \/ r[0 + 1] \in g[r[0]]) BY RunStep
    <3>6. x \in P
      <4>1. 0 \in 0 .. (k + 1) - 1 BY <3>0
      <4> QED BY <3>5, <4>1
    <3> QED BY <3>4, <3>5, <3>6, ReachesBack
  <2> HIDE DEF T
  <2>3. T = Nat BY <2>1, <2>2, NatSet DEF T
  <2>4. PICK i \in Nat : run[i] \in Q /\ \A j \in 0 .. i - 1 : run[j] \in P BY <1>3 DEF UntilOn
  <2>5. i \in T BY <2>3
  <2> QED BY <2>4, <2>5 DEF T
<1> QED BY <1>1, <1>2, <1>3

LEMMA AvoidsRuns ==
  ASSUME IsFiniteSet(Nodes), NEW g \in AnyGraph, NEW P \in SUBSET Nodes, NEW Q \in SUBSET Nodes,
         NEW n \in Nodes
  PROVE  n \in Avoids(g, P, Q) <=> \E run \in Runs(g, n) : ~ UntilOn(P, Q, run)
<1> DEFINE N == Nodes \ Q
           M == (Nodes \ Q) \cap (Nodes \ P)
<1>0. /\ N \in SUBSET Nodes /\ M \in SUBSET Nodes
      /\ \A x : x \in N => x \notin Q
      /\ \A x : x \in M => x \notin Q /\ x \notin P
      /\ \A x \in Nodes : x \notin Q => x \in N
      /\ \A x \in Nodes : x \notin Q /\ x \notin P => x \in M
      /\ Avoids(g, P, Q) = Stays(g, N) \cup Reaches(g, N, M)
  BY DEF Avoids
<1> HIDE DEF N, M
<1>1. ASSUME n \in Stays(g, N) PROVE \E run \in Runs(g, n) : ~ UntilOn(P, Q, run)
  <2>1. PICK run \in Runs(g, n) : \A i \in Nat : run[i] \in N BY <1>0, <1>1, StaysRuns
  <2> QED BY <1>0, <2>1 DEF UntilOn
<1>2. ASSUME n \in Reaches(g, N, M) PROVE \E run \in Runs(g, n) : ~ UntilOn(P, Q, run)
  <2>1. PICK run \in Runs(g, n) : UntilOn(N, M, run) BY <1>0, <1>2, ReachesRuns
  <2>2. PICK k \in Nat : run[k] \in M /\ \A j \in 0 .. k - 1 : run[j] \in N BY <2>1 DEF UntilOn
  <2>3. ASSUME NEW i \in Nat, run[i] \in Q, \A j \in 0 .. i - 1 : run[j] \in P PROVE FALSE
    <3>1. run[k] \notin Q /\ run[k] \notin P BY <1>0, <2>2
    <3>2. \A j \in 0 .. k - 1 : run[j] \notin Q BY <1>0, <2>2
    <3>3. k \notin 0 .. i - 1 BY <2>3, <3>1
    <3>4. i \notin 0 .. k - 1 BY <2>3, <3>2
    <3>5. i = k BY <3>3, <3>4
    <3> QED BY <2>3, <3>1, <3>5
  <2> QED BY <2>1, <2>3 DEF UntilOn
<1>3. ASSUME NEW run \in Runs(g, n), ~ UntilOn(P, Q, run), n \notin Stays(g, N)
      PROVE  n \in Reaches(g, N, M)
  <2>0. \A i \in Nat : run[i] \in Nodes BY RunStep
  <2> DEFINE T == {i \in Nat : run[i] \in Q}
  <2>1. T # {} BY <1>0, <1>3, <2>0, StaysRuns
  <2>2. PICK i \in T : \A l \in Nat : l < i => l \notin T BY <2>1, Least
  <2>3. i \in Nat /\ run[i] \in Q /\ \A j \in 0 .. i - 1 : j \in Nat /\ run[j] \notin Q BY <2>2
  <2>4. PICK k \in 0 .. i - 1 : run[k] \notin P BY <1>3, <2>3 DEF UntilOn
  <2>5. k \in Nat /\ \A j \in 0 .. k - 1 : j \in 0 .. i - 1 BY <2>3
  <2>6. run[k] \in M /\ \A j \in 0 .. k - 1 : run[j] \in N BY <1>0, <2>0, <2>3, <2>4, <2>5
  <2>7. UntilOn(N, M, run) BY <2>5, <2>6 DEF UntilOn
  <2> QED BY <1>0, <2>7, ReachesRuns
<1> QED BY <1>0, <1>1, <1>2, <1>3

\* From a node that a run visits on, anything a run from there can do.
LEMMA EverLeads ==
  ASSUME NEW g \in AnyGraph, NEW T \in SUBSET Nodes, NEW n \in Nodes, n \in Ever(g, T)
  PROVE  \E c \in T : \A tail \in Runs(g, c) : Leads(g, Nodes, n, c, tail)
<1>1. PICK c \in ReachIn(g, Nodes, {n}) : c \in T BY DEF Ever, Reach
<1>2. \A tail \in Runs(g, c) : Leads(g, Nodes, n, c, tail) BY <1>1, ReachesRun
<1> QED BY <1>1, <1>2

\* Some run visits C and stays in S from then on.
LEMMA EverStaysRuns ==
  ASSUME IsFiniteSet(Nodes), NEW g \in AnyGraph, NEW C \in SUBSET Nodes, NEW S \in SUBSET Nodes,
         NEW n \in Nodes
  PROVE  n \in Ever(g, C \cap Stays(g, S)) <=>
           \E run \in Runs(g, n) : \E k \in Nat :
             run[k] \in C /\ \A i \in Nat : i >= k => run[i] \in S
<1>0. C \cap Stays(g, S) \in SUBSET Nodes OBVIOUS
<1>1. ASSUME n \in Ever(g, C \cap Stays(g, S))
      PROVE  \E run \in Runs(g, n) : \E k \in Nat :
               run[k] \in C /\ \A i \in Nat : i >= k => run[i] \in S
  <2>1. PICK c \in C \cap Stays(g, S) : \A tail \in Runs(g, c) : Leads(g, Nodes, n, c, tail)
    BY <1>0, <1>1, EverLeads
  <2>2. PICK tail \in Runs(g, c) : \A i \in Nat : tail[i] \in S BY <2>1, StaysRuns
  <2>3. PICK run \in Runs(g, n), k \in Nat : run[k] = c /\ \A i \in Nat : run[i + k] = tail[i]
    BY <2>1, <2>2 DEF Leads
  <2>4. ASSUME NEW i \in Nat, i >= k PROVE run[i] \in S
    <3>1. i - k \in Nat /\ (i - k) + k = i BY <2>4
    <3>2. run[(i - k) + k] = tail[i - k] BY <2>3, <3>1
    <3> QED BY <2>2, <3>1, <3>2
  <2> QED BY <2>1, <2>3, <2>4
<1>2. ASSUME NEW run \in Runs(g, n), NEW k \in Nat, run[k] \in C,
             \A i \in Nat : i >= k => run[i] \in S
      PROVE  n \in Ever(g, C \cap Stays(g, S))
  <2> DEFINE tail == [i \in Nat |-> run[i + k]]
  <2>1. tail \in Runs(g, run[k]) /\ run[k] \in Nodes BY RunAfter, RunStep
  <2>2. ASSUME NEW i \in Nat PROVE tail[i] \in S
    <3>1. i + k \in Nat /\ i + k >= k OBVIOUS
    <3> QED BY <1>2, <3>1
  <2> HIDE DEF tail
  <2>3. run[k] \in Stays(g, S) BY <2>1, <2>2, StaysRuns
  <2>4. run[k] \in C \cap Stays(g, S) BY <1>2, <2>3
  <2> QED BY <1>0, <2>4, EverRuns
<1> QED BY <1>1, <1>2

\* Some run visits C and there has no next node, or one outside Q.
Misses(g, C, Q, run) ==
  \E k \in Nat : run[k] \in C /\ ~ (g[run[k]] # {} /\ run[k + 1] \in Q)

LEMMA EverNextRuns ==
  ASSUME NEW g \in AnyGraph, NEW C \in SUBSET Nodes, NEW Q \in SUBSET Nodes, NEW n \in Nodes
  PROVE  n \in Ever(g, {m \in C : m \in Terminal(g) \/ ~ (g[m] \subseteq Q)}) <=>
           \E run \in Runs(g, n) : Misses(g, C, Q, run)
<1> USE DEF Misses
<1> DEFINE T == {m \in C : m \in Terminal(g) \/ ~ (g[m] \subseteq Q)}
<1>0. T \in SUBSET Nodes OBVIOUS
<1>1. ASSUME n \in Ever(g, T)
      PROVE  \E run \in Runs(g, n) : \E k \in Nat :
               run[k] \in C /\ ~ (g[run[k]] # {} /\ run[k + 1] \in Q)
  <2>1. PICK c \in T : \A tail \in Runs(g, c) : Leads(g, Nodes, n, c, tail)
    <3> HIDE DEF T
    <3> QED BY <1>0, <1>1, EverLeads
  <2>2. \E tail \in Runs(g, c) : g[c] = {} \/ tail[1] \notin Q
    <3>1. CASE c \in Terminal(g)
      <4>1. PICK tail \in Runs(g, c) : TRUE BY <2>1, RunAny
      <4> QED BY <3>1, <4>1 DEF Terminal
    <3>2. CASE c \notin Terminal(g)
      <4>1. PICK m \in g[c] : m \notin Q BY <2>1, <3>2
      <4>2. m \in Nodes BY <2>1, <4>1 DEF AnyGraph
      <4>3. PICK rest \in Runs(g, m) : TRUE BY <4>2, RunAny
      <4>4. PICK tail \in Runs(g, c) : tail[0] = c /\ \A i \in Nat : tail[i + 1] = rest[i]
        BY <2>1, <4>1, <4>3, RunBefore
      <4>5. tail[0 + 1] = rest[0] /\ rest[0] = m BY <4>3, <4>4, RunStep
      <4> QED BY <4>1, <4>4, <4>5
    <3> QED BY <3>1, <3>2
  <2>3. PICK tail \in Runs(g, c) : g[c] = {} \/ tail[1] \notin Q BY <2>2
  <2>4. PICK run \in Runs(g, n), k \in Nat : run[k] = c /\ \A i \in Nat : run[i + k] = tail[i]
    BY <2>1, <2>3 DEF Leads
  <2>5. run[k + 1] = tail[1]
    <3>1. run[1 + k] = tail[1] BY <2>4
    <3> QED BY <3>1
  <2> QED BY <2>1, <2>3, <2>4, <2>5
<1>2. ASSUME NEW run \in Runs(g, n), NEW k \in Nat, run[k] \in C,
             ~ (g[run[k]] # {} /\ run[k + 1] \in Q)
      PROVE  n \in Ever(g, T)
  <2>1. run[k] \in Nodes /\ IF g[run[k]] = {} THEN run[k + 1] = run[k]
                                              ELSE run[k + 1] \in g[run[k]]
    BY RunStep
  <2>2. run[k] \in T BY <1>2, <2>1 DEF Terminal
  <2> HIDE DEF T
  <2> QED BY <1>0, <2>2, EverRuns
<1> QED BY <1>1, <1>2

\* Some run has no next node in P.
LEMMA NextRuns ==
  ASSUME NEW g \in AnyGraph, NEW P \in SUBSET Nodes, NEW n \in Nodes
  PROVE  /\ n \in Nodes \ Terminal(g) /\ g[n] \subseteq P <=>
              \A run \in Runs(g, n) : g[run[0]] # {} /\ run[1] \in P
         /\ g[n] \cap P # {} <=> \E run \in Runs(g, n) : g[run[0]] # {} /\ run[1] \in P
<1>1. ASSUME NEW m \in g[n] PROVE \E run \in Runs(g, n) : run[1] = m
  <2>1. m \in Nodes BY DEF AnyGraph
  <2>2. PICK rest \in Runs(g, m) : TRUE BY <2>1, RunAny
  <2>3. PICK run \in Runs(g, n) : run[0] = n /\ \A i \in Nat : run[i + 1] = rest[i]
    BY <2>2, RunBefore
  <2>4. run[0 + 1] = rest[0] /\ rest[0] = m BY <2>2, <2>3, RunStep
  <2> QED BY <2>3, <2>4
<1>2. ASSUME NEW run \in Runs(g, n)
      PROVE  run[0] = n /\ (g[n] # {} => run[1] \in g[n])
  <2>1. run[0] = n /\ IF g[run[0]] = {} THEN run[0 + 1] = run[0] ELSE run[0 + 1] \in g[run[0]]
    BY RunStep
  <2> QED BY <2>1
<1>3. \E run \in Runs(g, n) : TRUE BY RunAny
<1>4. n \in Terminal(g) <=> g[n] = {} BY DEF Terminal
<1>5. n \in Nodes \ Terminal(g) /\ g[n] \subseteq P <=>
        \A run \in Runs(g, n) : g[run[0]] # {} /\ run[1] \in P
  BY <1>1, <1>2, <1>3, <1>4
<1>6. g[n] \cap P # {} <=> \E run \in Runs(g, n) : g[run[0]] # {} /\ run[1] \in P
  BY <1>1, <1>2
<1> QED BY <1>5, <1>6

\* A node on a cycle lies on a run that comes back to it again and again: of
\* its successors, each node takes one that is closer.
LEMMA CycleRun ==
  ASSUME NEW g \in AnyGraph, NEW c \in OnCycle(g, Nodes)
  PROVE  \E run \in Runs(g, c) : \A k \in Nat : \E i \in Nat : i >= k /\ run[i] = c
<1> DEFINE W == {x \in Nodes : c \in ReachIn(g, Nodes, {x})}
           Ways(x) == {k \in Nat : \E run \in Runs(g, x) : run[k] = c}
<1>0. c \in Nodes BY DEF OnCycle
<1>1. ASSUME NEW x \in W PROVE Ways(x) # {}
  <2>1. PICK tail \in Runs(g, c) : TRUE BY <1>0, RunAny
  <2>2. Leads(g, Nodes, x, c, tail) BY <2>1, ReachesRun
  <2> QED BY <2>2 DEF Leads
<1>2. ASSUME NEW x \in Nodes, NEW k \in Ways(x) PROVE x \in W
  <2>1. PICK run \in Runs(g, x) : run[k] = c OBVIOUS
  <2>2. \A j \in 0 .. k : run[j] \in Nodes BY RunStep
  <2>3. run[k] \in ReachIn(g, Nodes, {x}) BY <2>1, <2>2, RunReaches
  <2> QED BY <2>1, <2>3
<1> DEFINE IsDist(x, d) == d \in Ways(x) /\ \A l \in Nat : l < d => l \notin Ways(x)
           dist == [x \in W |-> CHOOSE d : IsDist(x, d)]
<1>3. ASSUME NEW x \in W PROVE IsDist(x, dist[x])
  <2>1. Ways(x) \in SUBSET Nat OBVIOUS
  <2> HIDE DEF Ways
  <2>2. \E d : IsDist(x, d) BY <1>1, <2>1, Least
  <2> HIDE DEF IsDist
  <2> QED BY <2>2
<1> DEFINE Closer(x, m) == m \in g[x] /\ m \in W /\ (x = c \/ dist[m] < dist[x])
<1>4. ASSUME NEW x \in W PROVE \E m : Closer(x, m)
  <2>1. CASE x = c
    <3>1. PICK m \in g[c] \cap Nodes : c \in ReachIn(g, Nodes, {m}) BY ReachFrom DEF OnCycle
    <3> QED BY <2>1, <3>1
  <2>2. CASE x # c
    <3> DEFINE d == dist[x]
    <3>1. d \in Ways(x) /\ (\A l \in Nat : l < d => l \notin Ways(x)) BY <1>3
    <3> HIDE DEF d
    <3>2. PICK run \in Runs(g, x) : d \in Nat /\ run[d] = c BY <3>1
    <3>3. run[0] = x /\ IF g[run[0]] = {} THEN run[0 + 1] = run[0] ELSE run[0 + 1] \in g[run[0]]
      BY RunStep
    <3>4. d # 0 BY <2>2, <3>2, <3>3
    <3>5. d - 1 \in Nat /\ (d - 1) + 1 = d /\ d - 1 < d BY <3>2, <3>4
    <3> DEFINE tail == [i \in Nat |-> run[i + 1]]
    <3>6. tail \in Runs(g, run[1]) /\ run[1] \in Nodes BY RunAfter, RunStep
    <3>7. tail[d - 1] = c BY <3>2, <3>5
    <3> HIDE DEF tail
    <3>8. d - 1 \in Ways(run[1]) BY <3>5, <3>6, <3>7
    <3>9. run[1] # x BY <3>1, <3>5, <3>8
    <3>10. run[1] \in g[x] BY <3>3, <3>9
    <3>11. run[1] \in W BY <1>2, <3>6, <3>8
    <3>12. /\ dist[run[1]] \in Ways(run[1])
           /\ \A l \in Nat : l < dist[run[1]] => l \notin Ways(run[1])
      BY <1>3, <3>11
    <3>13. dist[run[1]] \in Nat BY <3>12
    <3> HIDE DEF dist, W, Ways
    <3>14. dist[run[1]] < d
      <4>1. ~ (d - 1 < dist[run[1]]) BY <3>5, <3>8, <3>12
      <4> QED BY <3>2, <3>5, <3>13, <4>1
    <3> QED BY <3>10, <3>11, <3>14 DEF d
  <2> QED BY <2>1, <2>2
<1>5. \A x \in W : dist[x] \in Nat BY <1>3
<1>6. c \in W
  <2>1. c \in ReachIn(g, Nodes, {c}) BY <1>0, ReachBase
  <2> QED BY <1>0, <2>1
<1>7. W \in SUBSET Nodes OBVIOUS
<1> HIDE DEF dist, W
<1>8. PICK step \in [W -> W] : \A x \in W : Closer(x, step[x])
  <2> DEFINE h == [x \in W |-> CHOOSE m : Closer(x, m)]
  <2>1. ASSUME NEW x \in W PROVE Closer(x, h[x])
    <3> HIDE DEF Closer
    <3> QED BY <1>4
  <2>2. \A x \in W : h[x] \in W BY <2>1
  <2>3. h \in [W -> W] BY <2>2
  <2> HIDE DEF h, Closer
  <2> QED BY <2>1, <2>3
<1>9. \E r \in [Nat -> W] : r[0] = c /\ \A i \in Nat : r[i + 1] = step[r[i]]
  BY ONLY <1>6, <1>8, Iterates
<1>12. PICK r \in [Nat -> W] : r[0] = c /\ \A i \in Nat : r[i + 1] = step[r[i]] BY <1>9
<1>13. \A i \in Nat : r[i] \in W /\ Closer(r[i], r[i + 1]) BY <1>8, <1>12
<1>14. r \in Runs(g, c)
  <2>1. r \in [Nat -> Nodes] BY <1>7, <1>12
  <2>2. \A i \in Nat : IF g[r[i]] = {} THEN r[i + 1] = r[i] ELSE r[i + 1] \in g[r[i]]
    BY <1>13
  <2> QED BY <1>12, <2>1, <2>2 DEF Runs
<1>15. \A k \in Nat : \E i \in Nat : i >= k /\ r[i] = c
  <2> DEFINE T == {d \in Nat : \A k \in Nat : dist[r[k]] <= d =>
                                 \E i \in Nat : i >= k /\ r[i] = c}
  <2>1. 0 \in T
    <3> SUFFICES ASSUME NEW k \in Nat, dist[r[k]] <= 0 PROVE r[k] = c OBVIOUS
    <3>1. Closer(r[k], r[k + 1]) /\ dist[r[k + 1]] \in Nat BY <1>5, <1>12, <1>13
    <3> QED BY <1>5, <1>13, <3>1
  <2>2. ASSUME NEW d \in T PROVE d + 1 \in T
    <3>0. d \in Nat OBVIOUS
    <3> SUFFICES ASSUME NEW k \in Nat, dist[r[k]] <= d + 1, r[k] # c
                 PROVE  \E i \in Nat : i >= k /\ r[i] = c
      BY <3>0
    <3>1. Closer(r[k], r[k + 1]) /\ dist[r[k + 1]] \in Nat /\ dist[r[k]] \in Nat
      BY <1>5, <1>12, <1>13
    <3>2. dist[r[k + 1]] <= d BY <3>0, <3>1
    <3>3. \E i \in Nat : i >= k + 1 /\ r[i] = c BY <3>2
    <3> QED BY <3>3
  <2> HIDE DEF T
  <2>3. T = Nat BY <2>1, <2>2, NatSet DEF T
  <2> SUFFICES ASSUME NEW k \in Nat PROVE \E i \in Nat : i >= k /\ r[i] = c OBVIOUS
  <2>4. dist[r[k]] \in T /\ dist[r[k]] \in Nat BY <1>5, <1>13, <2>3
  <2> QED BY <2>4 DEF T
<1> QED BY <1>14, <1>15

\* Some run visits B again and again, the one that has ended included.
LEMMA RecursRuns ==
  ASSUME IsFiniteSet(Nodes), NEW g \in AnyGraph, NEW B \in SUBSET Nodes, NEW n \in Nodes
  PROVE  n \in Ever(g, B \cap (OnCycle(g, Nodes) \cup Terminal(g))) <=>
           \E run \in Runs(g, n) : \A k \in Nat : \E i \in Nat : i >= k /\ run[i] \in B
<1> DEFINE T == B \cap (OnCycle(g, Nodes) \cup Terminal(g))
<1>0. T \in SUBSET Nodes OBVIOUS
<1>1. ASSUME n \in Ever(g, T)
      PROVE  \E run \in Runs(g, n) : \A k \in Nat : \E i \in Nat : i >= k /\ run[i] \in B
  <2>1. PICK c \in T : \A tail \in Runs(g, c) : Leads(g, Nodes, n, c, tail)
    <3> HIDE DEF T
    <3> QED BY <1>0, <1>1, EverLeads
  <2>2. \E tail \in Runs(g, c) : \A k \in Nat : \E i \in Nat : i >= k /\ tail[i] = c
    <3>1. CASE c \in OnCycle(g, Nodes) BY <3>1, CycleRun
    <3>2. CASE c \in Terminal(g)
      <4> DEFINE r == [i \in Nat |-> c]
      <4>1. r \in [Nat -> Nodes] /\ r[0] = c BY <2>1
      <4>2. \A i \in Nat : r[i] = c /\ r[i + 1] = c OBVIOUS
      <4> HIDE DEF r
      <4>3. r \in Runs(g, c) BY <3>2, <4>1, <4>2 DEF Runs, Terminal
      <4>4. \A k \in Nat : k >= k OBVIOUS
      <4> QED BY <4>2, <4>3, <4>4
    <3> QED BY <2>1, <3>1, <3>2
  <2>3. PICK tail \in Runs(g, c) : \A k \in Nat : \E i \in Nat : i >= k /\ tail[i] = c BY <2>2
  <2>4. PICK run \in Runs(g, n), m \in Nat : \A i \in Nat : run[i + m] = tail[i]
    BY <2>1, <2>3 DEF Leads
  <2>5. ASSUME NEW k \in Nat PROVE \E i \in Nat : i >= k /\ run[i] \in B
    <3>1. PICK i \in Nat : i >= k /\ tail[i] = c BY <2>3
    <3>2. i + m \in Nat /\ i + m >= k BY <3>1
    <3>3. run[i + m] = c BY <2>4, <3>1
    <3> QED BY <2>1, <3>2, <3>3
  <2> QED BY <2>5
<1>2. ASSUME NEW run \in Runs(g, n), \A k \in Nat : \E i \in Nat : i >= k /\ run[i] \in B
      PROVE  n \in Ever(g, T)
  <2> DEFINE V(k) == {run[i] : i \in {j \in Nat : j >= k}}
             Sizes == {Cardinality(V(k)) : k \in Nat}
  <2>1. \A k \in Nat : V(k) \in SUBSET Nodes BY RunStep
  <2>2. \A k \in Nat : IsFiniteSet(V(k)) /\ Cardinality(V(k)) \in Nat
    <3> SUFFICES ASSUME NEW k \in Nat PROVE IsFiniteSet(V(k)) /\ Cardinality(V(k)) \in Nat
      OBVIOUS
    <3>1. V(k) \in SUBSET Nodes BY <2>1
    <3> HIDE DEF V
    <3>2. IsFiniteSet(V(k)) BY <3>1, FS_Subset
    <3> QED BY <3>2, FS_CardinalityType
  <2>3. \A k, l \in Nat : l >= k => V(l) \subseteq V(k) OBVIOUS
  <2>4. \A k \in Nat : \A x \in V(k) : \E j \in Nat : j >= k /\ run[j] = x OBVIOUS
  <2> HIDE DEF V
  <2>5. Sizes \in SUBSET Nat /\ Sizes # {} BY <2>2
  <2>6. PICK s \in Sizes : \A l \in Nat : l < s => l \notin Sizes
    <3> HIDE DEF Sizes
    <3> QED BY <2>5, Least
  <2>7. PICK k \in Nat : s = Cardinality(V(k)) BY <2>6
  <2>8. PICK i \in Nat : i >= k /\ run[i] \in B BY <1>2
  <2>9. i + 1 \in Nat /\ i + 1 >= k BY <2>8
  <2>10. V(i + 1) = V(k)
    <3>1. V(i + 1) \subseteq V(k) BY <2>3, <2>9
    <3>2. Cardinality(V(i + 1)) \in Sizes BY <2>9
    <3>3. ~ (Cardinality(V(i + 1)) < Cardinality(V(k))) BY <2>2, <2>6, <2>7, <2>9, <3>2
    <3>4. /\ Cardinality(V(i + 1)) <= Cardinality(V(k))
          /\ Cardinality(V(i + 1)) = Cardinality(V(k)) => V(i + 1) = V(k)
      BY <2>2, <3>1, FS_Subset
    <3>5. Cardinality(V(i + 1)) \in Nat /\ Cardinality(V(k)) \in Nat BY <2>2, <2>9
    <3> QED BY <3>3, <3>4, <3>5
  <2>11. run[i] \in V(i + 1) BY <2>8, <2>10 DEF V
  <2>12. PICK j \in Nat : j >= i + 1 /\ run[j] = run[i] BY <2>4, <2>9, <2>11
  <2> DEFINE tail == [x \in Nat |-> run[x + (i + 1)]]
  <2>13. tail \in Runs(g, run[i + 1]) BY <2>9, RunAfter
  <2>14. j - (i + 1) \in Nat /\ (j - (i + 1)) + (i + 1) = j BY <2>12
  <2>15. tail[j - (i + 1)] = run[i] BY <2>12, <2>14
  <2> HIDE DEF tail
  <2>16. run[i] \in ReachIn(g, Nodes, {run[i + 1]})
    <3>1. \A x \in 0 .. j - (i + 1) : tail[x] \in Nodes BY <2>13, RunStep
    <3> QED BY <2>13, <2>14, <2>15, <3>1, RunReaches
  <2>17. run[i] \in T
    <3>1. run[i] \in Nodes /\ run[i + 1] \in Nodes BY <2>9, RunStep
    <3>2. CASE g[run[i]] = {} BY <2>8, <3>1, <3>2 DEF Terminal
    <3>3. CASE g[run[i]] # {}
      <4>1. run[i + 1] \in g[run[i]] BY <3>3, RunStep
      <4>2. {run[i + 1]} \cap Nodes \subseteq ReachIn(g, Nodes, g[run[i]])
        BY <4>1, ReachBase
      <4>3. ReachIn(g, Nodes, {run[i + 1]}) \subseteq ReachIn(g, Nodes, g[run[i]])
        BY <4>2, ReachOnward
      <4>4. run[i] \in OnCycle(g, Nodes) BY <2>16, <3>1, <4>3 DEF OnCycle
      <4> QED BY <2>8, <4>4
    <3> QED BY <3>2, <3>3
  <2> HIDE DEF T
  <2> QED BY <1>0, <2>17, EverRuns
<1> QED BY <1>1, <1>2

-----------------------------------------------------------------------------
(* Holds says what the runs do.                                            *)

\* The named sets in the definition of Holds.
LEMMA HoldsCases ==
  ASSUME NEW g, NEW f
  PROVE  /\ f.op \in {"G", "AG"} => Holds(g, f) = Nodes \ Ever(g, Nodes \ f.p)
         /\ f.op \in {"F", "AF"} => Holds(g, f) = Nodes \ Stays(g, Nodes \ f.p)
         /\ f.op = "GF" => Holds(g, f) = Nodes \ Ever(g, Stays(g, Nodes \ f.p))
         /\ f.op = "FG" => Holds(g, f) =
              Nodes \ Ever(g, (Nodes \ f.p) \cap (OnCycle(g, Nodes) \cup Terminal(g)))
         /\ f.op = "Response" => Holds(g, f) = Nodes \ Ever(g, f.p \cap Stays(g, Nodes \ f.q))
         /\ f.op \in {"U", "AU"} => Holds(g, f) = Nodes \ Avoids(g, f.p, f.q)
         /\ f.op = "EX" => Holds(g, f) = {n \in Nodes : g[n] \cap f.p # {}}
         /\ f.op = "EF" => Holds(g, f) = Ever(g, f.p)
         /\ f.op = "EG" => Holds(g, f) = Circles(g, f.p)
         /\ f.op = "EU" => Holds(g, f) = Reaches(g, f.p, f.q)
BY DEF Holds, Ever, Avoids

LEMMA HoldsNext ==
  ASSUME NEW g, NEW f, f.op \in {"X", "AX"}
  PROVE  Holds(g, f) = {n \in Nodes \ Terminal(g) : g[n] \subseteq f.p}
<1>1. CASE f.op = "X" BY <1>1 DEF Holds
<1>2. CASE f.op = "AX" BY <1>2 DEF Holds
<1> QED BY <1>1, <1>2

LEMMA HoldsNextResponse ==
  ASSUME NEW g, NEW f, f.op = "NextResponse"
  PROVE  Holds(g, f) = Nodes \ Ever(g, {n \in f.p : n \in Terminal(g) \/ ~ (g[n] \subseteq f.q)})
BY DEF Holds, Ever

\* A formula holds at a node, by the sets of nodes that the checker's runs are
\* judged by, exactly when the runs from there do what it says.
THEOREM HoldsOnRuns ==
  ASSUME IsFiniteSet(Nodes), NEW g \in AnyGraph, NEW f \in Formulas, NEW n \in Nodes
  PROVE  n \in Holds(g, f) <=> OnRuns(g, f, n)
<1> DEFINE notP == Nodes \ f.p
           notQ == Nodes \ f.q
<1>0. /\ f.p \in SUBSET Nodes /\ f.q \in SUBSET Nodes /\ f.op \in UnaryOps \cup BinaryOps
      /\ notP \in SUBSET Nodes /\ notQ \in SUBSET Nodes
  BY DEF Formulas
<1>1. \A run \in Runs(g, n) : \A i \in Nat : run[i] \in Nodes BY RunStep
<1>2. \A run \in Runs(g, n) : \A i \in Nat :
        (run[i] \in notP <=> run[i] \notin f.p) /\ (run[i] \in notQ <=> run[i] \notin f.q)
  BY <1>1
<1> HIDE DEF notP, notQ
<1>3. CASE f.op \in {"G", "AG"}
  <2>1. n \in Holds(g, f) <=> ~ (n \in Ever(g, notP))
    <3>0. Holds(g, f) = Nodes \ Ever(g, Nodes \ f.p) BY <1>3, HoldsCases
    <3> QED BY <3>0 DEF notP
  <2>2. OnRuns(g, f, n) <=> \A run \in Runs(g, n) : \A i \in Nat : run[i] \in f.p
    BY <1>3 DEF OnRuns, OnRun
  <2> QED BY <1>0, <1>2, <2>1, <2>2, EverRuns
<1>4. CASE f.op \in {"F", "AF"}
  <2>1. n \in Holds(g, f) <=> ~ (n \in Stays(g, notP))
    <3>0. Holds(g, f) = Nodes \ Stays(g, Nodes \ f.p) BY <1>4, HoldsCases
    <3> QED BY <3>0 DEF notP
  <2>2. OnRuns(g, f, n) <=> \A run \in Runs(g, n) : \E i \in Nat : run[i] \in f.p
    BY <1>4 DEF OnRuns, OnRun
  <2> QED BY <1>0, <1>2, <2>1, <2>2, StaysRuns
<1>5. CASE f.op = "EF"
  <2>1. n \in Holds(g, f) <=> n \in Ever(g, f.p)
    <3>0. Holds(g, f) = Ever(g, f.p) BY <1>5, HoldsCases
    <3> QED BY <3>0
  <2>2. OnRuns(g, f, n) <=> \E run \in Runs(g, n) : \E i \in Nat : run[i] \in f.p
    BY <1>5 DEF OnRuns, OnRun
  <2> QED BY <1>0, <2>1, <2>2, EverRuns
<1>6. CASE f.op \in {"X", "AX"}
  <2>1. n \in Holds(g, f) <=> n \in Nodes \ Terminal(g) /\ g[n] \subseteq f.p BY <1>6, HoldsNext
  <2>2. OnRuns(g, f, n) <=> \A run \in Runs(g, n) : g[run[0]] # {} /\ run[1] \in f.p
    BY <1>6 DEF OnRuns, OnRun
  <2> QED BY <1>0, <2>1, <2>2, NextRuns
<1>7. CASE f.op = "EX"
  <2>1. n \in Holds(g, f) <=> g[n] \cap f.p # {}
    <3>0. Holds(g, f) = {m \in Nodes : g[m] \cap f.p # {}} BY <1>7 DEF Holds
    <3> QED BY <3>0
  <2>2. OnRuns(g, f, n) <=> \E run \in Runs(g, n) : g[run[0]] # {} /\ run[1] \in f.p
    BY <1>7 DEF OnRuns, OnRun
  <2> QED BY <1>0, <2>1, <2>2, NextRuns
<1>8. CASE f.op = "GF"
  <2>1. n \in Holds(g, f) <=> ~ (n \in Ever(g, Nodes \cap Stays(g, notP)))
    <3>1. Nodes \cap Stays(g, notP) = Stays(g, notP) BY <1>0, StaysGoOn
    <3>0. Holds(g, f) = Nodes \ Ever(g, Stays(g, Nodes \ f.p)) BY <1>8, HoldsCases
    <3> QED BY <3>0, <3>1 DEF notP
  <2>2. OnRuns(g, f, n) <=>
          \A run \in Runs(g, n) : \A k \in Nat : \E i \in Nat : i >= k /\ run[i] \in f.p
    BY <1>8 DEF OnRuns, OnRun
  <2>3. n \in Ever(g, Nodes \cap Stays(g, notP)) <=>
          \E run \in Runs(g, n) : \E k \in Nat :
            run[k] \in Nodes /\ \A i \in Nat : i >= k => run[i] \in notP
    BY <1>0, EverStaysRuns
  <2> QED BY <1>1, <1>2, <2>1, <2>2, <2>3
<1>9. CASE f.op = "FG"
  <2>1. n \in Holds(g, f) <=>
          ~ (n \in Ever(g, notP \cap (OnCycle(g, Nodes) \cup Terminal(g))))
    <3>0. Holds(g, f) = Nodes \ Ever(g, (Nodes \ f.p) \cap (OnCycle(g, Nodes) \cup Terminal(g))) BY <1>9, HoldsCases
    <3> QED BY <3>0 DEF notP
  <2>2. OnRuns(g, f, n) <=>
          \A run \in Runs(g, n) : \E k \in Nat : \A i \in Nat : i >= k => run[i] \in f.p
    BY <1>9 DEF OnRuns, OnRun
  <2> QED BY <1>0, <1>2, <2>1, <2>2, RecursRuns
<1>10. CASE f.op = "Response"
  <2>1. n \in Holds(g, f) <=> ~ (n \in Ever(g, f.p \cap Stays(g, notQ)))
    <3>0. Holds(g, f) = Nodes \ Ever(g, f.p \cap Stays(g, Nodes \ f.q)) BY <1>10, HoldsCases
    <3> QED BY <3>0 DEF notQ
  <2>2. OnRuns(g, f, n) <=>
          \A run \in Runs(g, n) : \A k \in Nat :
            run[k] \in f.p => \E i \in Nat : i >= k /\ run[i] \in f.q
    BY <1>10 DEF OnRuns, OnRun
  <2>3. n \in Ever(g, f.p \cap Stays(g, notQ)) <=>
          \E run \in Runs(g, n) : \E k \in Nat :
            run[k] \in f.p /\ \A i \in Nat : i >= k => run[i] \in notQ
    BY <1>0, EverStaysRuns
  <2> QED BY <1>2, <2>1, <2>2, <2>3
<1>11. CASE f.op = "NextResponse"
  <2>1. n \in Holds(g, f) <=>
          ~ (n \in Ever(g, {m \in f.p : m \in Terminal(g) \/ ~ (g[m] \subseteq f.q)}))
    BY <1>11, HoldsNextResponse
  <2>2. OnRuns(g, f, n) <=>
          \A run \in Runs(g, n) : \A k \in Nat :
            run[k] \in f.p => g[run[k]] # {} /\ run[k + 1] \in f.q
    BY <1>11 DEF OnRuns, OnRun
  <2>3. n \in Ever(g, {m \in f.p : m \in Terminal(g) \/ ~ (g[m] \subseteq f.q)}) <=>
          \E run \in Runs(g, n) : Misses(g, f.p, f.q, run)
    BY <1>0, EverNextRuns
  <2> QED BY <2>1, <2>2, <2>3 DEF Misses
<1>12. CASE f.op \in {"U", "AU"}
  <2>1. n \in Holds(g, f) <=> ~ (n \in Avoids(g, f.p, f.q))
    <3>0. Holds(g, f) = Nodes \ Avoids(g, f.p, f.q) BY <1>12, HoldsCases
    <3> QED BY <3>0
  <2>2. OnRuns(g, f, n) <=> \A run \in Runs(g, n) : UntilOn(f.p, f.q, run)
    BY <1>12 DEF OnRuns, OnRun
  <2>3. n \in Avoids(g, f.p, f.q) <=> \E run \in Runs(g, n) : ~ UntilOn(f.p, f.q, run)
    BY <1>0, AvoidsRuns
  <2> QED BY <2>1, <2>2, <2>3
<1>13. CASE f.op = "EU"
  <2>1. n \in Holds(g, f) <=> n \in Reaches(g, f.p, f.q)
    <3>0. Holds(g, f) = Reaches(g, f.p, f.q) BY <1>13, HoldsCases
    <3> QED BY <3>0
  <2>2. OnRuns(g, f, n) <=> \E run \in Runs(g, n) : UntilOn(f.p, f.q, run)
    BY <1>13 DEF OnRuns, OnRun
  <2> QED BY <1>0, <2>1, <2>2, ReachesRuns
<1>14. CASE f.op = "EG"
  <2>1. n \in Holds(g, f) <=> n \in Circles(g, f.p)
    <3>0. Holds(g, f) = Circles(g, f.p) BY <1>14, HoldsCases
    <3> QED BY <3>0
  <2>2. OnRuns(g, f, n) <=>
          \E run \in Runs(g, n) : \A i \in Nat : run[i] \in f.p /\ g[run[i]] # {}
    BY <1>14 DEF OnRuns, OnRun
  <2>3. n \in Circles(g, f.p) <=> \E run \in Runs(g, n) : Circulates(g, f.p, run)
    BY <1>0, CirclesRuns
  <2> QED BY <2>1, <2>2, <2>3 DEF Circulates
<1> QED
  BY <1>0, <1>3, <1>4, <1>5, <1>6, <1>7, <1>8, <1>9, <1>10, <1>11, <1>12, <1>13, <1>14
  DEF UnaryOps, BinaryOps

-----------------------------------------------------------------------------
(***************************************************************************)
(* Strengthenings of the type invariant.                                   *)
(***************************************************************************)

\* What each control point knows of the formula and the counterexample.
PcInv ==
  /\ pc = "direct" => formula.op \in DirectOps
  /\ pc = "fix" => formula.op \in CtlOps \cup {"U"}
  /\ pc = "trace" => formula.op = "U"
  /\ pc \in {"trace", "unwind"} => trace # << >> /\ ~ verdict

TypeInv == TypeOK /\ PcInv

\* The search: what is found is on its way or done with.
SearchInv ==
  /\ Root \in reachable /\ curr \in reachable
  /\ \A i \in DOMAIN queue : queue[i] \in reachable
  /\ \A n \in reachable : \/ n = curr
                          \/ \E i \in DOMAIN queue : queue[i] = n
                          \/ steps[n] \subseteq reachable
  /\ pc # "build" => queue = << >> /\ steps[curr] \subseteq reachable
  /\ reachable \subseteq Reach(steps, Root)

-----------------------------------------------------------------------------
LEMMA FormulaType ==
  ASSUME NEW f \in Formulas
  PROVE  /\ f.op \in UnaryOps \cup BinaryOps
         /\ f.p \in SUBSET Nodes /\ f.q \in SUBSET Nodes
BY DEF Formulas, UnaryOps, BinaryOps

LEMMA InitType == Init => TypeInv
<1> SUFFICES ASSUME Init PROVE TypeInv
  OBVIOUS
<1> USE ModelCheckerAssumption DEF Assumptions
<1>1. succ \in [Nodes -> SUBSET Nodes] /\ kids \in [Nodes -> SUBSET Nodes]
  BY DEF Init
<1>2. << >> \in Seq(Nodes)
  OBVIOUS
<1> QED
  BY <1>1, <1>2 DEF Init, TypeInv, TypeOK, PcInv

LEMMA ShortSeq ==
  /\ << >> \in Seq(Nodes)
  /\ \A s \in Nodes : <<s>> \in Seq(Nodes)
  /\ \A s, t \in Nodes : <<s, t>> \in Seq(Nodes)
OBVIOUS

LEMMA DirectEndsType ==
  ASSUME TypeInv, pc = "direct", NEW end \in DirectEnds
  PROVE  end \in Seq(Nodes)
<1> USE ModelCheckerAssumption DEF Assumptions
<1>1. formula \in Formulas /\ formula.op \in DirectOps
  BY DEF TypeInv, TypeOK, PcInv
<1>2. succ \in [Nodes -> SUBSET Nodes] /\ reachable \in SUBSET Nodes
  BY DEF TypeInv, TypeOK
<1>3. ASSUME NEW froms \in SUBSET Nodes, NEW goal, NEW e \in NextEnds(froms, goal)
      PROVE  e \in Seq(Nodes)
  <2>1. CASE e \in {<<s>> : s \in froms \cap Terminal(succ)}
    BY <2>1, ShortSeq
  <2>2. CASE e \in UNION {{<<s, t>> : t \in succ[s] \ goal} : s \in froms}
    <3>1. PICK s \in froms : e \in {<<s, t>> : t \in succ[s] \ goal}
      BY <2>2
    <3>2. PICK t \in succ[s] \ goal : e = <<s, t>>
      BY <3>1
    <3>3. s \in Nodes /\ t \in Nodes
      BY <1>2, <3>2
    <3> QED
      BY <3>2, <3>3, ShortSeq
  <2> QED
    BY <1>3, <2>1, <2>2 DEF NextEnds
<1>5. CASE formula.op = "G"
  BY <1>2, <1>5, ShortSeq DEF DirectEnds, InvariantEnds
<1>6. CASE formula.op = "F"
  <2>1. end \in ReachabilityEnds
    BY <1>6 DEF DirectEnds
  <2> QED
    BY <2>1, ShortSeq DEF ReachabilityEnds
<1>7. CASE formula.op = "X"
  <2>1. end \in NextEnds({Root}, formula.p)
    BY <1>7 DEF DirectEnds
  <2> QED
    BY <1>3, <2>1
<1>8. CASE formula.op = "Response"
  <2>1. end \in ResponseEnds
    BY <1>8 DEF DirectEnds
  <2> QED
    BY <1>2, <2>1, ShortSeq DEF ResponseEnds
<1>9. CASE formula.op = "NextResponse"
  <2>1. end \in NextEnds(reachable \cap formula.p, formula.q)
    BY <1>9 DEF DirectEnds
  <2> QED
    BY <1>2, <1>3, <2>1
<1>10. CASE formula.op = "GF"
  <2>1. end \in RecurrenceEnds
    BY <1>10 DEF DirectEnds
  <2>2. \E s \in reachable : end = <<s>>
    BY <2>1 DEF RecurrenceEnds
  <2> QED
    BY <1>2, <2>2, ShortSeq
<1>11. CASE formula.op = "FG"
  <2>1. end \in PersistenceEnds
    BY <1>11 DEF DirectEnds
  <2>2. \E s \in reachable : end = <<s>>
    BY <2>1 DEF PersistenceEnds
  <2> QED
    BY <1>2, <2>2, ShortSeq
<1> QED
  BY <1>1, <1>5, <1>6, <1>7, <1>8, <1>9, <1>10, <1>11 DEF DirectOps

LEMMA CtlEndsType ==
  ASSUME TypeInv, NEW end \in CtlEnds
  PROVE  end \in Seq(Nodes)
<1> USE ModelCheckerAssumption DEF Assumptions
<1>1. succ \in [Nodes -> SUBSET Nodes] /\ reachable \in SUBSET Nodes
  BY DEF TypeInv, TypeOK
<1>2. CASE formula.op = "AG"
  BY <1>1, <1>2, ShortSeq DEF CtlEnds, InvariantEnds
<1>3. CASE formula.op = "AX"
  <2>1. end = << >> \/ \E t \in Nodes : end = <<Root, t>>
    BY <1>1, <1>3 DEF CtlEnds
  <2> QED
    BY <2>1, ShortSeq
<1>4. CASE formula.op \notin {"AG", "AX"}
  <2>1. end = <<Root>>
    BY <1>4 DEF CtlEnds
  <2> QED
    BY <2>1, ShortSeq
<1> QED
  BY <1>2, <1>3, <1>4

LEMMA FailType ==
  ASSUME TypeInv, pc # "ready", pc # "build", NEW end \in Seq(Nodes), Fail(end),
         UNCHANGED <<graphVars, formula, sat>>
  PROVE  TypeInv'
BY DEF TypeInv, TypeOK, PcInv, Fail, graphVars

LEMMA PassType ==
  ASSUME TypeInv, pc # "ready", pc # "build", Pass, UNCHANGED <<graphVars, formula, sat>>
  PROVE  TypeInv'
<1>1. << >> \in Seq(Nodes)
  OBVIOUS
<1> QED
  BY <1>1 DEF TypeInv, TypeOK, PcInv, Pass, graphVars

LEMMA StartType ==
  ASSUME TypeInv, NEW f \in Formulas
  PROVE  Start(f) \in SUBSET Nodes
BY FormulaType DEF Start, PreExists, PreAll, TypeInv, TypeOK

LEMMA RoundType ==
  ASSUME TypeInv, formula \in Formulas, NEW Z \in SUBSET Nodes
  PROVE  Round(Z) \in SUBSET Nodes
BY FormulaType DEF Round, PreExists, PreAll

LEMMA StepType == TypeInv /\ [Next]_vars => TypeInv'
<1> SUFFICES ASSUME TypeInv, [Next]_vars PROVE TypeInv'
  OBVIOUS
<1> USE ModelCheckerAssumption DEF Assumptions
<1>1. ASSUME NEW n \in Nodes, Discover(n) PROVE TypeInv'
  BY <1>1 DEF TypeInv, TypeOK, PcInv, Discover
<1>2. CASE NextNode
  <2>1. Head(queue) \in Nodes /\ Tail(queue) \in Seq(Nodes)
    BY <1>2 DEF NextNode, TypeInv, TypeOK
  <2> QED
    BY <1>2, <2>1 DEF TypeInv, TypeOK, PcInv, NextNode
<1>3. CASE Built
  BY <1>3 DEF TypeInv, TypeOK, PcInv, Built, graphVars
<1>4. ASSUME NEW f \in Asked, Verify(f) PROVE TypeInv'
  <2>1. f \in Formulas /\ f # None /\ Start(f) \in SUBSET Nodes
    BY StartType
  <2>2. f.op \in DirectOps \/ f.op \in CtlOps \cup {"U"}
    BY <2>1, FormulaType DEF UnaryOps, BinaryOps, DirectOps, CtlOps, FixpointOps
  <2>3. TypeOK'
    BY <1>4, <2>1 DEF TypeInv, TypeOK, Verify, graphVars
  <2>4. PcInv'
    BY <1>4, <2>2 DEF PcInv, Verify
  <2> QED
    BY <2>3, <2>4 DEF TypeInv
<1>5. CASE Direct
  <2>1. pc = "direct" /\ UNCHANGED <<graphVars, formula, sat>>
    BY <1>5 DEF Direct
  <2>2. CASE Pass
    BY <2>1, <2>2, PassType
  <2>3. CASE \E end \in DirectEnds : Fail(end)
    BY <2>1, <2>3, DirectEndsType, FailType
  <2> QED
    BY <1>5, <2>2, <2>3 DEF Direct
<1>6. CASE Unwind
  <2>1. CASE Head(trace) = Root \/ pred[Head(trace)] = None
    BY <1>6, <2>1 DEF TypeInv, TypeOK, PcInv, Unwind, graphVars
  <2>2. CASE ~ (Head(trace) = Root \/ pred[Head(trace)] = None)
    <3>1. trace \in Seq(Nodes) /\ trace # << >>
      BY <1>6 DEF TypeInv, TypeOK, PcInv, Unwind
    <3>2. pred[Head(trace)] \in Nodes
      BY <2>2, <3>1 DEF TypeInv, TypeOK
    <3>3. <<pred[Head(trace)]>> \o trace \in Seq(Nodes) /\ <<pred[Head(trace)]>> \o trace # << >>
      BY <3>1, <3>2
    <3> QED
      BY <1>6, <2>2, <3>3 DEF TypeInv, TypeOK, PcInv, Unwind, graphVars
  <2> QED
    BY <2>1, <2>2
<1>7. CASE Iterate
  <2>1. formula \in Formulas
    BY <1>7 DEF Iterate, TypeInv, TypeOK
  <2>2. Round(sat) \in SUBSET Nodes
    BY <2>1, RoundType DEF TypeInv, TypeOK
  <2> QED
    BY <1>7, <2>2 DEF TypeInv, TypeOK, PcInv, Iterate, graphVars
<1>8. CASE IterateEnd
  <2>1. pc = "fix" /\ UNCHANGED <<graphVars, formula, sat>>
    BY <1>8 DEF IterateEnd
  <2>2. CASE Pass
    BY <2>1, <2>2, PassType
  <2>3. CASE \E end \in CtlEnds : Fail(end)
    BY <2>1, <2>3, CtlEndsType, FailType
  <2> QED
    BY <1>8, <2>2, <2>3 DEF IterateEnd
<1>9. ASSUME NEW n \in Nodes, Join(n) PROVE TypeInv'
  BY <1>9 DEF TypeInv, TypeOK, PcInv, Join, graphVars
<1>10. CASE JoinEnd
  <2>1. << >> \in Seq(Nodes) /\ <<Root>> \in Seq(Nodes) /\ <<Root>> # << >>
    BY ShortSeq
  <2>2. pc = "fix" /\ UNCHANGED <<graphVars, formula, sat>>
    BY <1>10 DEF JoinEnd
  <2>3. CASE Root \in sat
    <3>1. Pass
      BY <1>10, <2>3 DEF JoinEnd
    <3> QED
      BY <2>2, <3>1, PassType
  <2>4. CASE Root \notin sat
    <3>1. verdict' = FALSE /\ pc' = "trace" /\ trace' = <<Root>>
      BY <1>10, <2>4 DEF JoinEnd
    <3>2. trace' \in Seq(Nodes) /\ trace' # << >> /\ verdict' \in BOOLEAN
      BY <2>1, <3>1
    <3>3. pc' = "trace" /\ formula.op = "U" /\ ~ verdict'
      BY <1>10, <3>1 DEF JoinEnd
    <3>4. TypeOK'
      BY <2>2, <3>2, <3>3 DEF TypeInv, TypeOK, graphVars
    <3>5. PcInv'
      BY <2>2, <3>2, <3>3 DEF PcInv
    <3> QED
      BY <3>4, <3>5 DEF TypeInv
  <2> QED
    BY <2>3, <2>4
<1>11. CASE TraceEnd
  BY <1>11 DEF TypeInv, TypeOK, PcInv, TraceEnd, graphVars
<1>12. ASSUME NEW n \in Nodes, TraceStep(n) PROVE TypeInv'
  <2>1. Append(trace, n) \in Seq(Nodes) /\ Append(trace, n) # << >>
    BY DEF TypeInv, TypeOK
  <2> QED
    BY <1>12, <2>1 DEF TypeInv, TypeOK, PcInv, TraceStep, graphVars
<1>13. CASE Report
  BY <1>13, ShortSeq DEF TypeInv, TypeOK, PcInv, Report, graphVars
<1>14. CASE UNCHANGED vars
  BY <1>14 DEF TypeInv, TypeOK, PcInv, vars, graphVars
<1> QED
  BY <1>1, <1>2, <1>3, <1>4, <1>5, <1>6, <1>7, <1>8, <1>9, <1>10, <1>11, <1>12, <1>13, <1>14
     DEF Next, Build, Check

\* Every variable keeps its type, and every control point its formula.
THEOREM TypeInvariant == Spec => []TypeInv
BY InitType, StepType, PTL DEF Spec

\* The type invariant of the checker, for every graph and formula.
THEOREM TypeCorrect == Spec => []TypeOK
<1>1. TypeInv => TypeOK
  BY DEF TypeInv
<1> QED
  BY <1>1, TypeInvariant, PTL

-----------------------------------------------------------------------------
(* Reachability: Reach is the least set closed under successors.           *)

LEMMA ReachRoot ==
  ASSUME NEW g \in [Nodes -> SUBSET Nodes], NEW n \in Nodes
  PROVE  n \in Reach(g, n)
BY DEF Reach, ReachIn

LEMMA ReachStep ==
  ASSUME NEW g \in [Nodes -> SUBSET Nodes], NEW r \in Nodes,
         NEW n \in Reach(g, r), NEW m \in g[n]
  PROVE  m \in Reach(g, r)
<1>1. n \in Nodes /\ m \in Nodes
  BY DEF Reach, ReachIn
<1>2. ASSUME NEW C \in SUBSET Nodes, {r} \cap Nodes \subseteq C, Closed(g, Nodes, C)
      PROVE  m \in C
  <2>1. n \in C
    BY <1>2 DEF Reach, ReachIn
  <2> QED
    BY <1>1, <1>2, <2>1 DEF Closed
<1> QED
  BY <1>1, <1>2 DEF Reach, ReachIn

LEMMA ReachLeast ==
  ASSUME NEW g \in [Nodes -> SUBSET Nodes], NEW r \in Nodes, NEW C \in SUBSET Nodes,
         r \in C, \A n \in C : g[n] \subseteq C
  PROVE  Reach(g, r) \subseteq C
BY DEF Reach, ReachIn, Closed

LEMMA StepsType == TypeInv => steps \in [Nodes -> SUBSET Nodes]
BY DEF TypeInv, TypeOK, steps

LEMMA UndiscoveredProp ==
  ASSUME TypeInv
  PROVE  /\ Undiscovered \subseteq steps[curr] \ reachable
         /\ Undiscovered = {} => steps[curr] \subseteq reachable
BY DEF TypeInv, TypeOK, Undiscovered, steps

LEMMA InitSearch == Init => SearchInv
<1> SUFFICES ASSUME Init PROVE SearchInv
  OBVIOUS
<1> USE ModelCheckerAssumption DEF Assumptions
<1>1. steps \in [Nodes -> SUBSET Nodes]
  BY InitType, StepsType
<1>2. Root \in Reach(steps, Root)
  BY <1>1, ReachRoot
<1> QED
  BY <1>2 DEF Init, SearchInv

LEMMA StepSearch == TypeInv /\ SearchInv /\ [Next]_vars => SearchInv'
<1> SUFFICES ASSUME TypeInv, SearchInv, [Next]_vars PROVE SearchInv'
  OBVIOUS
<1> USE ModelCheckerAssumption DEF Assumptions
<1>0. steps \in [Nodes -> SUBSET Nodes]
  BY StepsType
<1>1. ASSUME NEW n \in Nodes, Discover(n) PROVE SearchInv'
  <2>1. pc = "build" /\ n \in steps[curr] \ reachable
    BY <1>1, UndiscoveredProp DEF Discover
  <2>2. /\ reachable' = reachable \cup {n} /\ queue' = Append(queue, n)
        /\ curr' = curr /\ pc' = pc /\ steps' = steps
    BY <1>1 DEF Discover, steps
  <2>3. queue \in Seq(Nodes)
    BY DEF TypeInv, TypeOK
  <2>4. /\ DOMAIN queue' = 1 .. Len(queue) + 1 /\ DOMAIN queue = 1 .. Len(queue)
        /\ \A i \in DOMAIN queue : queue'[i] = queue[i]
        /\ queue'[Len(queue) + 1] = n /\ Len(queue) + 1 \in DOMAIN queue'
    BY <2>2, <2>3
  <2>5. n \in Reach(steps, Root)
    BY <1>0, <2>1, ReachStep DEF SearchInv
  <2>6. \A i \in DOMAIN queue' : queue'[i] \in reachable'
    BY <2>2, <2>3, <2>4 DEF SearchInv
  <2>7. ASSUME NEW m \in reachable'
        PROVE  \/ m = curr'
               \/ \E i \in DOMAIN queue' : queue'[i] = m
               \/ steps'[m] \subseteq reachable'
    <3>1. CASE m = n
      BY <2>4, <3>1
    <3>2. CASE m \in reachable
      <4>1. CASE \E i \in DOMAIN queue : queue[i] = m
        BY <2>3, <2>4, <4>1
      <4> QED
        BY <2>2, <3>2, <4>1 DEF SearchInv
    <3> QED
      BY <2>2, <2>7, <3>1, <3>2
  <2> QED
    BY <2>1, <2>2, <2>5, <2>6, <2>7 DEF SearchInv
<1>2. CASE NextNode
  <2>1. queue \in Seq(Nodes) /\ queue # << >>
    BY <1>2 DEF NextNode, TypeInv, TypeOK
  <2>2. /\ pc = "build" /\ pc' = pc /\ reachable' = reachable /\ steps' = steps
        /\ curr' = Head(queue) /\ queue' = Tail(queue)
    BY <1>2 DEF NextNode, steps
  <2>3. /\ 1 \in DOMAIN queue /\ Head(queue) = queue[1]
        /\ \A i \in DOMAIN queue' : i + 1 \in DOMAIN queue /\ queue'[i] = queue[i + 1]
        /\ \A i \in DOMAIN queue : i # 1 => i - 1 \in DOMAIN queue' /\ queue'[i - 1] = queue[i]
    BY <2>1, <2>2
  <2>4. steps[curr] \subseteq reachable
    BY <1>2, UndiscoveredProp DEF NextNode
  <2>5. curr' \in reachable' /\ \A i \in DOMAIN queue' : queue'[i] \in reachable'
    BY <2>2, <2>3 DEF SearchInv
  <2>6. ASSUME NEW m \in reachable'
        PROVE  \/ m = curr'
               \/ \E i \in DOMAIN queue' : queue'[i] = m
               \/ steps'[m] \subseteq reachable'
    <3>1. CASE m = curr
      BY <2>2, <2>4, <3>1
    <3>2. ASSUME NEW i \in DOMAIN queue, queue[i] = m
          PROVE  m = curr' \/ \E j \in DOMAIN queue' : queue'[j] = m
      BY <2>2, <2>3, <3>2
    <3> QED
      BY <2>2, <3>1, <3>2 DEF SearchInv
  <2> QED
    BY <2>2, <2>5, <2>6 DEF SearchInv
<1>3. CASE Built
  <2>1. steps[curr] \subseteq reachable
    BY <1>3, UndiscoveredProp DEF Built
  <2>2. steps' = steps
    BY <1>3 DEF Built, graphVars, steps
  <2> QED
    BY <1>3, <2>1, <2>2 DEF SearchInv, Built, graphVars
<1>4. ASSUME pc # "build", pc' # "build", UNCHANGED graphVars PROVE SearchInv'
  <2>1. steps' = steps
    BY <1>4 DEF graphVars, steps
  <2> QED
    BY <1>4, <2>1 DEF SearchInv, graphVars
<1>5. CASE UNCHANGED vars
  <2>1. steps' = steps
    BY <1>5 DEF vars, graphVars, steps
  <2> QED
    BY <1>5, <2>1 DEF SearchInv, vars, graphVars
<1>6. CASE Check \/ \E f \in Asked : Verify(f)
  <2>1. pc # "build" /\ pc' # "build" /\ UNCHANGED graphVars
    BY <1>6 DEF Check, Direct, Unwind, Iterate, IterateEnd, Join, JoinEnd, TraceEnd, TraceStep,
                Report, Verify, Pass, Fail
  <2> QED
    BY <1>4, <2>1
<1> QED
  BY <1>1, <1>2, <1>3, <1>5, <1>6 DEF Next, Build

\* The search finds exactly the reachable states.
THEOREM SearchCorrect == Spec => []SearchInv
BY TypeInvariant, InitSearch, StepSearch, PTL DEF Spec

LEMMA SearchExact ==
  ASSUME TypeInv, SearchInv, pc # "build"
  PROVE  reachable = Reach(steps, Root)
<1>1. \A n \in reachable : steps[n] \subseteq reachable
  BY DEF SearchInv
<1>2. Reach(steps, Root) \subseteq reachable
  BY <1>1, StepsType, ReachLeast, ModelCheckerAssumption DEF SearchInv, TypeInv, TypeOK, Assumptions
<1> QED
  BY <1>2 DEF SearchInv

\* The verdict on G P, from the point where it is known.
InvariantInv ==
  pc \in {"unwind", "done"} /\ formula.op = "G" => (verdict <=> reachable \subseteq formula.p)

LEMMA StepInvariant == TypeInv /\ InvariantInv /\ [Next]_vars => InvariantInv'
<1> SUFFICES ASSUME TypeInv, InvariantInv, [Next]_vars PROVE InvariantInv'
  OBVIOUS
<1>1. CASE Direct /\ formula.op = "G"
  <2>1. DirectEnds = {<<s>> : s \in reachable \ formula.p}
    BY <1>1 DEF DirectEnds, InvariantEnds
  <2>2. formula' = formula /\ reachable' = reachable
    BY <1>1 DEF Direct, graphVars
  <2>3. CASE DirectEnds = {}
    <3>1. reachable \subseteq formula.p
      BY <2>1, <2>3
    <3>2. verdict' = TRUE
      BY <1>1, <2>3 DEF Direct, Pass
    <3> QED
      BY <2>2, <3>1, <3>2 DEF InvariantInv
  <2>4. CASE DirectEnds # {}
    <3>1. ~ (reachable \subseteq formula.p)
      BY <2>1, <2>4
    <3>2. verdict' = FALSE
      BY <1>1, <2>4 DEF Direct, Fail
    <3> QED
      BY <2>2, <3>1, <3>2 DEF InvariantInv
  <2> QED
    BY <2>3, <2>4
<1>2. CASE Direct /\ formula.op # "G"
  BY <1>2 DEF InvariantInv, Direct
<1>3. CASE Unwind
  BY <1>3 DEF InvariantInv, Unwind, graphVars
<1>4. CASE IterateEnd
  <2>1. formula' = formula /\ formula.op # "G"
    BY <1>4 DEF IterateEnd, CtlOps, FixpointOps
  <2> QED
    BY <2>1 DEF InvariantInv
<1>5. CASE JoinEnd
  BY <1>5 DEF InvariantInv, JoinEnd
<1>7. ASSUME pc' \notin {"unwind", "done"} PROVE InvariantInv'
  BY <1>7 DEF InvariantInv
<1>8. CASE UNCHANGED vars
  BY <1>8 DEF InvariantInv, vars, graphVars
<1>9. CASE TraceEnd \/ \E n \in Nodes : TraceStep(n)
  BY <1>9 DEF InvariantInv, TraceEnd, TraceStep, TypeInv, PcInv
<1> QED
  BY <1>1, <1>2, <1>3, <1>4, <1>5, <1>7, <1>8, <1>9
     DEF Next, Build, Check, Discover, NextNode, Built, Verify, Iterate, Join, Report, TypeInv, TypeOK

\* build_graph() finds exactly what transitions and entries lead to, and the
\* verdict on G P is right, for every graph.
THEOREM ReachableCorrect == Spec => []ReachableExact
<1>1. Init => InvariantInv
  BY DEF Init, InvariantInv
<1>2. TypeInv /\ SearchInv /\ InvariantInv => ReachableExact
  <2> SUFFICES ASSUME TypeInv, SearchInv, InvariantInv PROVE ReachableExact
    OBVIOUS
  <2>1. reachable \subseteq Reach(steps, Root)
    BY DEF SearchInv
  <2>2. pc # "build" => reachable = Reach(steps, Root)
    BY SearchExact
  <2>3. pc = "done" /\ formula.op = "G" => (verdict <=> Reach(steps, Root) \subseteq formula.p)
    <3> SUFFICES ASSUME pc = "done", formula.op = "G"
                 PROVE  verdict <=> Reach(steps, Root) \subseteq formula.p
      OBVIOUS
    <3>1. reachable = Reach(steps, Root)
      BY <2>2
    <3>2. verdict <=> reachable \subseteq formula.p
      BY DEF InvariantInv
    <3> QED
      BY <3>1, <3>2
  <2> QED
    BY <2>1, <2>2, <2>3 DEF ReachableExact
<1> QED
  BY <1>1, <1>2, TypeInvariant, SearchCorrect, StepInvariant, PTL DEF Spec

-----------------------------------------------------------------------------
(* P U Q, A[P U Q] and AF P: what joins the set has Q ahead on every run.  *)

Before == IF formula.op = "AF" THEN Nodes ELSE formula.p
Goal   == IF formula.op = "AF" THEN formula.p ELSE formula.q

InevitableOps == {"U", "AU", "AF"}

InevitableInv ==
  pc \in {"fix", "trace", "unwind", "done"} /\ formula.op \in InevitableOps =>
    /\ \A n \in sat : Inevitable(succ, Before, Goal, n)
    /\ formula.op = "U" => sat \subseteq reachable
    /\ verdict /\ pc = "done" => Root \in sat

LEMMA GoalReached ==
  ASSUME NEW g, NEW P, NEW Q, NEW n \in Q
  PROVE  Inevitable(g, P, Q, n)
<1> SUFFICES ASSUME NEW run \in Runs(g, n)
             PROVE  \E i \in Nat : run[i] \in Q /\ \A j \in 0 .. i - 1 : run[j] \in P
  BY DEF Inevitable, UntilOn
<1>1. run[0] \in Q
  BY DEF Runs
<1>2. \A j \in 0 .. 0 - 1 : run[j] \in P
  OBVIOUS
<1> QED
  BY <1>1, <1>2

\* A run from n goes on as a run from one of its successors.
LEMMA RunTail ==
  ASSUME NEW g, NEW n, g[n] # {}, NEW run \in Runs(g, n)
  PROVE  /\ run[1] \in g[n]
         /\ [i \in Nat |-> run[i + 1]] \in Runs(g, run[1])
<1> DEFINE tail == [i \in Nat |-> run[i + 1]]
<1>1. run \in [Nat -> Nodes] /\ run[0] = n
  BY DEF Runs
<1>2. \A i \in Nat : IF g[run[i]] = {} THEN run[i + 1] = run[i] ELSE run[i + 1] \in g[run[i]]
  BY DEF Runs
<1>3. run[1] \in g[n]
  <2>1. IF g[run[0]] = {} THEN run[0 + 1] = run[0] ELSE run[0 + 1] \in g[run[0]]
    BY <1>2
  <2> QED
    BY <1>1, <2>1
<1>4. tail \in [Nat -> Nodes] /\ tail[0] = run[1]
  BY <1>1
<1>5. ASSUME NEW i \in Nat
      PROVE  IF g[tail[i]] = {} THEN tail[i + 1] = tail[i] ELSE tail[i + 1] \in g[tail[i]]
  <2>1. i + 1 \in Nat /\ tail[i] = run[i + 1] /\ tail[i + 1] = run[(i + 1) + 1]
    OBVIOUS
  <2>2. IF g[run[i + 1]] = {} THEN run[(i + 1) + 1] = run[i + 1]
                              ELSE run[(i + 1) + 1] \in g[run[i + 1]]
    BY <1>2, <2>1
  <2> QED
    BY <2>1, <2>2
<1> HIDE DEF tail
<1>6. tail \in Runs(g, run[1])
  BY <1>4, <1>5 DEF Runs
<1> QED
  BY <1>3, <1>6 DEF tail

LEMMA AllSuccessors ==
  ASSUME NEW g, NEW P, NEW Q, NEW n \in P, g[n] # {},
         \A m \in g[n] : Inevitable(g, P, Q, m)
  PROVE  Inevitable(g, P, Q, n)
<1> SUFFICES ASSUME NEW run \in Runs(g, n)
             PROVE  \E i \in Nat : run[i] \in Q /\ \A j \in 0 .. i - 1 : run[j] \in P
  BY DEF Inevitable, UntilOn
<1> DEFINE tail == [i \in Nat |-> run[i + 1]]
<1>1. run[1] \in g[n] /\ tail \in Runs(g, run[1])
  BY RunTail
<1>2. run[0] = n
  BY DEF Runs
<1> HIDE DEF tail
<1>3. PICK i \in Nat : tail[i] \in Q /\ \A j \in 0 .. i - 1 : tail[j] \in P
  BY <1>1 DEF Inevitable, UntilOn
<1>4. run[i + 1] \in Q
  BY <1>3 DEF tail
<1>5. ASSUME NEW j \in 0 .. (i + 1) - 1 PROVE run[j] \in P
  <2>1. CASE j = 0
    BY <1>2, <2>1
  <2>2. CASE j # 0
    <3>1. j - 1 \in 0 .. i - 1 /\ j - 1 \in Nat /\ (j - 1) + 1 = j
      BY <1>3, <2>2
    <3>2. tail[j - 1] = run[j]
      BY <3>1 DEF tail
    <3> QED
      BY <1>3, <3>1, <3>2
  <2> QED
    BY <2>1, <2>2
<1> QED
  BY <1>4, <1>5

LEMMA StepInevitable ==
  TypeInv /\ SearchInv /\ InevitableInv /\ [Next]_vars => InevitableInv'
<1> SUFFICES ASSUME TypeInv, SearchInv, InevitableInv, [Next]_vars PROVE InevitableInv'
  OBVIOUS
<1> USE ModelCheckerAssumption DEF Assumptions
<1>0. /\ succ \in [Nodes -> SUBSET Nodes] /\ sat \in SUBSET Nodes /\ reachable \in SUBSET Nodes
      /\ pc \in {"direct", "fix", "trace", "unwind", "done"} => formula \in Formulas
  BY DEF TypeInv, TypeOK
<1>1. ASSUME NEW f \in Asked, Verify(f), f.op \in InevitableOps PROVE InevitableInv'
  <2>1. formula' = f /\ sat' = Start(f) /\ pc' = "fix" /\ succ' = succ /\ reachable' = reachable
    BY <1>1 DEF Verify, graphVars, InevitableOps, DirectOps
  <2>2. sat' \subseteq Goal'
    BY <1>1, <2>1 DEF Start, Goal, InevitableOps
  <2>3. \A n \in sat' : Inevitable(succ', Before', Goal', n)
    BY <2>2, GoalReached
  <2>4. formula'.op = "U" => sat' \subseteq reachable'
    BY <2>1 DEF Start
  <2> QED
    BY <2>1, <2>3, <2>4 DEF InevitableInv
<1>2. ASSUME pc = "fix", formula.op \in InevitableOps,
             UNCHANGED <<graphVars, pc, formula>>,
             \A n \in sat' \ sat : n \in Before /\ succ[n] # {} /\ succ[n] \subseteq sat,
             formula.op = "U" => sat' \subseteq reachable
      PROVE  InevitableInv'
  <2>1. Before' = Before /\ Goal' = Goal /\ succ' = succ /\ reachable' = reachable
    BY <1>2 DEF Before, Goal, graphVars
  <2>2. \A n \in sat : Inevitable(succ, Before, Goal, n)
    BY <1>2 DEF InevitableInv
  <2>3. ASSUME NEW n \in sat' \ sat PROVE Inevitable(succ, Before, Goal, n)
    BY <1>2, <2>2, AllSuccessors
  <2>4. \A n \in sat' : Inevitable(succ', Before', Goal', n)
    BY <2>1, <2>2, <2>3
  <2> QED
    BY <1>2, <2>1, <2>4 DEF InevitableInv
<1>3. ASSUME NEW n \in Nodes, Join(n) PROVE InevitableInv'
  <2>1. /\ pc = "fix" /\ formula.op = "U" /\ sat' = sat \cup {n}
        /\ n \in reachable \cap formula.p /\ succ[n] # {} /\ succ[n] \cap reachable \subseteq sat
    BY <1>3 DEF Join, CanJoin
  <2>2. steps[n] \subseteq reachable
    BY <2>1 DEF SearchInv
  <2>3. succ[n] \subseteq sat
    BY <2>1, <2>2 DEF steps
  <2>4. sat \subseteq reachable
    BY <2>1 DEF InevitableInv, InevitableOps
  <2>5. n \in Before /\ formula.op \in InevitableOps
    BY <2>1 DEF Before, InevitableOps
  <2>6. UNCHANGED <<graphVars, pc, formula>>
    BY <1>3 DEF Join
  <2> QED
    BY <1>2, <2>1, <2>3, <2>4, <2>5, <2>6
<1>4. CASE Iterate /\ formula.op \in InevitableOps
  <2>1. pc = "fix" /\ formula.op \in {"AU", "AF"} /\ sat' = Round(sat)
    BY <1>4 DEF Iterate, InevitableOps, CtlOps, FixpointOps
  <2>2. sat' \ sat \subseteq Before \cap PreAll(sat)
    BY <2>1 DEF Round, Before, PreAll
  <2>3. UNCHANGED <<graphVars, pc, formula>>
    BY <1>4 DEF Iterate
  <2> QED
    BY <1>2, <1>4, <2>1, <2>2, <2>3 DEF PreAll
<1>5. ASSUME pc \in {"fix", "trace", "unwind", "done"},
             UNCHANGED <<graphVars, formula, sat>>,
             verdict' /\ pc' = "done" => (verdict /\ pc = "done") \/ Root \in sat
      PROVE  InevitableInv'
  <2>1. Before' = Before /\ Goal' = Goal /\ succ' = succ /\ reachable' = reachable
    BY <1>5 DEF Before, Goal, graphVars
  <2> QED
    BY <1>5, <2>1 DEF InevitableInv
<1>6. CASE IterateEnd /\ formula.op \in InevitableOps
  <2>1. Sat = sat
    BY <1>6 DEF Sat, InevitableOps
  <2>2. verdict' => Root \in sat
    BY <1>6, <2>1 DEF IterateEnd, Pass, Fail
  <2> QED
    BY <1>5, <1>6, <2>2 DEF IterateEnd
<1>7. CASE JoinEnd
  <2>1. verdict' => Root \in sat
    BY <1>7 DEF JoinEnd, Pass
  <2> QED
    BY <1>5, <1>7, <2>1 DEF JoinEnd
<1>8. CASE Unwind \/ TraceEnd \/ \E n \in Nodes : TraceStep(n)
  <2>1. /\ pc \in {"trace", "unwind"} /\ ~ verdict /\ verdict' = verdict
        /\ UNCHANGED <<graphVars, formula, sat>>
    BY <1>8 DEF Unwind, TraceEnd, TraceStep, TypeInv, PcInv
  <2> QED
    BY <1>5, <2>1
<1>9. CASE UNCHANGED vars
  <2>1. Before' = Before /\ Goal' = Goal
    BY <1>9 DEF Before, Goal, vars
  <2> QED
    BY <1>9, <2>1 DEF InevitableInv, vars, graphVars
<1>10. CASE Direct
  <2>1. formula' = formula /\ formula.op \notin InevitableOps
    BY <1>10 DEF Direct, TypeInv, PcInv, DirectOps, InevitableOps
  <2> QED
    BY <2>1 DEF InevitableInv
<1>11. ASSUME formula' = formula, formula.op \notin InevitableOps PROVE InevitableInv'
  BY <1>11 DEF InevitableInv
<1>12. ASSUME pc' \in {"build", "ready"} PROVE InevitableInv'
  BY <1>12 DEF InevitableInv
<1>13. ASSUME NEW f \in Asked, Verify(f), f.op \notin InevitableOps PROVE InevitableInv'
  BY <1>13 DEF InevitableInv, Verify
<1>14. CASE (Iterate \/ IterateEnd) /\ formula.op \notin InevitableOps
  BY <1>11, <1>14 DEF Iterate, IterateEnd
<1>15. CASE Build \/ Report
  BY <1>12, <1>15 DEF Build, Discover, NextNode, Built, Report
<1> QED
  BY <1>1, <1>3, <1>4, <1>6, <1>7, <1>8, <1>9, <1>10, <1>13, <1>14, <1>15 DEF Next, Check

\* F P by AF, and P U Q in both logics: what passes holds on every run of the
\* machine, of any length and on graphs of any size.
THEOREM InevitableCorrect ==
  Spec => [](pc = "done" /\ verdict /\ formula.op \in InevitableOps
               => Inevitable(succ, Before, Goal, Root))
<1>1. Init => InevitableInv
  BY DEF Init, InevitableInv
<1>2. InevitableInv => (pc = "done" /\ verdict /\ formula.op \in InevitableOps
                          => Inevitable(succ, Before, Goal, Root))
  BY DEF InevitableInv
<1> QED
  BY <1>1, <1>2, TypeInvariant, SearchCorrect, StepInevitable, PTL DEF Spec

-----------------------------------------------------------------------------
(* The fixpoints: no round adds or removes too much, and the last changes  *)
(* nothing.                                                                *)

\* sat is on the right side of the fixpoint.
Bracketed ==
  IF formula.op = "EG"
    THEN /\ sat \subseteq formula.p
         /\ \A Z \in SUBSET formula.p : Z \subseteq PreExists(Z) => Z \subseteq sat
    ELSE /\ Start(formula) \subseteq sat
         /\ \A Z \in SUBSET Nodes :
              Start(formula) \subseteq Z /\ Round(Z) \subseteq Z => sat \subseteq Z

FixInv ==
  formula # None /\ formula.op \in FixpointOps =>
    /\ pc \in {"fix", "unwind", "done"} => Bracketed
    /\ pc \in {"unwind", "done"} => Round(sat) = sat

LEMMA PreMonotone ==
  ASSUME NEW Y, NEW Z, Y \subseteq Z
  PROVE  PreExists(Y) \subseteq PreExists(Z) /\ PreAll(Y) \subseteq PreAll(Z)
BY DEF PreExists, PreAll

LEMMA RoundMonotone ==
  ASSUME NEW Y, NEW Z, Y \subseteq Z
  PROVE  Round(Y) \subseteq Round(Z)
<1> USE PreMonotone
<1>1. CASE formula.op \in {"EF", "AG"}
  BY <1>1 DEF Round
<1>2. CASE formula.op = "AF"
  BY <1>2 DEF Round
<1>3. CASE formula.op = "EU"
  BY <1>3 DEF Round
<1>4. CASE formula.op = "AU"
  BY <1>4 DEF Round
<1>5. CASE formula.op = "EG"
  BY <1>5 DEF Round
<1>6. CASE formula.op \notin {"EF", "AG", "AF", "EU", "AU", "EG"}
  BY <1>6 DEF Round
<1> QED
  BY <1>1, <1>2, <1>3, <1>4, <1>5, <1>6

LEMMA RoundGrows ==
  ASSUME NEW Z, formula.op \in FixpointOps \ {"EG"}
  PROVE  Z \subseteq Round(Z)
<1>1. CASE formula.op \in {"EF", "AG"}
  BY <1>1 DEF Round
<1>2. CASE formula.op = "AF"
  BY <1>2 DEF Round
<1>3. CASE formula.op = "EU"
  BY <1>3 DEF Round
<1>4. CASE formula.op = "AU"
  BY <1>4 DEF Round
<1> QED
  BY <1>1, <1>2, <1>3, <1>4 DEF FixpointOps

\* A bracketed set is still bracketed after a round.
LEMMA RoundBracketed ==
  ASSUME Bracketed, formula.op \in FixpointOps, sat \in SUBSET Nodes, sat' = Round(sat),
         UNCHANGED <<graphVars, formula>>
  PROVE  Bracketed'
<1>2. CASE formula.op = "EG"
  <2>1. sat' = sat \cap PreExists(sat)
    BY <1>2 DEF Round
  <2>2. sat' \subseteq formula.p
    BY <1>2, <2>1 DEF Bracketed
  <2>3. ASSUME NEW Z \in SUBSET formula.p, Z \subseteq PreExists(Z) PROVE Z \subseteq sat'
    <3>1. Z \subseteq sat
      BY <1>2, <2>3 DEF Bracketed
    <3> QED
      BY <2>1, <2>3, <3>1, PreMonotone
  <2> QED
    BY <1>2, <2>2, <2>3 DEF Bracketed, PreExists, graphVars
<1>3. CASE formula.op # "EG"
  <2>1. Start(formula) \subseteq sat'
    BY <1>3, RoundGrows DEF Bracketed
  <2>2. ASSUME NEW Z \in SUBSET Nodes, Start(formula) \subseteq Z, Round(Z) \subseteq Z
        PROVE  sat' \subseteq Z
    <3>1. sat \subseteq Z
      BY <1>3, <2>2 DEF Bracketed
    <3> QED
      BY <2>2, <3>1, RoundMonotone
  <2>3. Start(formula)' = Start(formula)
    BY DEF Start, PreExists, PreAll, graphVars
  <2>4. \A Z \in SUBSET Nodes : Start(formula) \subseteq Z /\ Round(Z) \subseteq Z => sat' \subseteq Z
    BY <2>2
  <2> QED
    BY <1>3, <2>1, <2>3, <2>4 DEF Bracketed, Round, PreExists, PreAll, graphVars
<1> QED
  BY <1>2, <1>3

\* Nothing it depends on changes.
LEMMA BracketedStays ==
  ASSUME UNCHANGED <<graphVars, formula, sat>>
  PROVE  Bracketed' = Bracketed /\ (Round(sat) = sat)' = (Round(sat) = sat)
BY DEF Bracketed, Start, Round, PreExists, PreAll, graphVars

LEMMA StepFix == TypeInv /\ FixInv /\ [Next]_vars => FixInv'
<1> SUFFICES ASSUME TypeInv, FixInv, [Next]_vars PROVE FixInv'
  OBVIOUS
<1> USE ModelCheckerAssumption DEF Assumptions
<1>1. ASSUME NEW f \in Asked, Verify(f) PROVE FixInv'
  <2>1. formula' = f /\ sat' = Start(f) /\ pc' \in {"direct", "fix"} /\ UNCHANGED graphVars
    BY <1>1 DEF Verify
  <2>2. sat' = Start(formula)'
    BY <2>1 DEF Start, PreExists, PreAll, graphVars
  <2>3. (formula.op = "EG")' => Start(formula)' = formula'.p
    BY DEF Start
  <2>4. ASSUME NEW Z \in SUBSET formula'.p, (formula.op = "EG")' PROVE Z \subseteq sat'
    BY <2>2, <2>3, <2>4
  <2>5. Bracketed'
    BY <2>2, <2>3, <2>4 DEF Bracketed
  <2> QED
    BY <2>1, <2>5 DEF FixInv
<1>2. CASE Iterate
  <2>1. /\ pc = "fix" /\ pc' = "fix" /\ formula \in Formulas /\ formula' = formula
        /\ sat' = Round(sat) /\ sat \in SUBSET Nodes /\ UNCHANGED graphVars
    BY <1>2 DEF Iterate, TypeInv, TypeOK
  <2>2. formula.op \in FixpointOps => Bracketed'
    BY <2>1, RoundBracketed DEF FixInv
  <2> QED
    BY <2>1, <2>2 DEF FixInv
<1>3. CASE IterateEnd
  <2>1. /\ pc = "fix" /\ UNCHANGED <<graphVars, formula, sat>> /\ Round(sat) = sat
    BY <1>3 DEF IterateEnd, Settled
  <2> QED
    BY <2>1, BracketedStays DEF FixInv
<1>4. ASSUME pc \in {"unwind", "done"}, UNCHANGED <<graphVars, formula, sat>> PROVE FixInv'
  BY <1>4, BracketedStays DEF FixInv
<1>5. CASE Unwind
  BY <1>4, <1>5 DEF Unwind
<1>6. CASE Direct \/ TraceEnd \/ JoinEnd \/ \E n \in Nodes : Join(n) \/ TraceStep(n)
  <2>1. formula' = formula /\ formula.op \notin FixpointOps
    BY <1>6 DEF Direct, TraceEnd, JoinEnd, Join, TraceStep, TypeInv, PcInv, DirectOps, FixpointOps
  <2> QED
    BY <2>1 DEF FixInv
<1>7. CASE Build \/ Report
  <2>1. pc' \in {"build", "ready"}
    BY <1>7 DEF Build, Discover, NextNode, Built, Report
  <2> QED
    BY <2>1 DEF FixInv
<1>8. CASE UNCHANGED vars
  <2>1. UNCHANGED <<graphVars, formula, sat>> /\ pc' = pc
    BY <1>8 DEF vars
  <2> QED
    BY <2>1, BracketedStays DEF FixInv
<1> QED
  BY <1>1, <1>2, <1>3, <1>5, <1>6, <1>7, <1>8 DEF Next, Check

-----------------------------------------------------------------------------
(* Verdicts.                                                               *)

\* What the end of a check knows: the loops of check_until have neither left
\* out nor let in too much, and each verdict is that of its check.
JudgeInv ==
  /\ pc = "unwind" => formula.op # "U"
  /\ pc \in {"fix", "unwind", "done"} /\ formula.op \in {"EX", "AX"} => sat = Start(formula)
  /\ pc \in {"unwind", "done"} /\ formula.op \in CtlOps => (verdict <=> Root \in Sat)
  /\ pc \in {"unwind", "done"} /\ formula.op \in DirectOps => (verdict <=> DirectEnds = {})
  /\ pc \in {"fix", "trace", "done"} /\ formula.op = "U" =>
       /\ reachable \cap formula.q \subseteq sat /\ sat \subseteq reachable
       /\ sat \cap Avoids(succ, formula.p, formula.q) = {}
       /\ pc # "fix" => \A n \in Nodes : ~ CanJoin(n)
       /\ pc # "fix" => (verdict <=> Root \in sat)

LEMMA DirectEndsStays ==
  ASSUME UNCHANGED <<graphVars, formula>>
  PROVE  DirectEnds' = DirectEnds
BY DEF DirectEnds, InvariantEnds, ReachabilityEnds, ResponseEnds, NextEnds, RecurrenceEnds,
       PersistenceEnds, Component, Cyclic, Reach, ReachIn, Closed, Terminal, graphVars

LEMMA CanJoinStays ==
  ASSUME UNCHANGED <<graphVars, formula, sat>>
  PROVE  \A n \in Nodes : CanJoin(n)' = CanJoin(n)
BY DEF CanJoin, graphVars

LEMMA AvoidsStays ==
  ASSUME UNCHANGED <<graphVars, formula>>
  PROVE  Avoids(succ, formula.p, formula.q)' = Avoids(succ, formula.p, formula.q)
BY DEF graphVars

LEMMA GoalNotAvoided ==
  ASSUME NEW g \in AnyGraph, NEW P, NEW Q
  PROVE  Avoids(g, P, Q) \cap Q = {}
BY AvoidsGoOn

LEMMA StepJudge == TypeInv /\ SearchInv /\ JudgeInv /\ [Next]_vars => JudgeInv'
<1> SUFFICES ASSUME TypeInv, SearchInv, JudgeInv, [Next]_vars PROVE JudgeInv'
  OBVIOUS
<1> USE ModelCheckerAssumption DEF Assumptions
<1>0. /\ succ \in AnyGraph /\ sat \in SUBSET Nodes /\ reachable \in SUBSET Nodes
      /\ pc \in {"direct", "fix", "trace", "unwind", "done"} => formula \in Formulas
  BY DEF TypeInv, TypeOK, AnyGraph
<1>1. ASSUME NEW f \in Asked, Verify(f) PROVE JudgeInv'
  <2>1. /\ formula' = f /\ sat' = Start(f) /\ pc' \in {"direct", "fix"}
        /\ succ' = succ /\ reachable' = reachable
    BY <1>1 DEF Verify, graphVars
  <2>2. sat' = Start(formula)'
    BY <2>1 DEF Start, PreExists, PreAll
  <2>3. CASE f.op = "U"
    <3>1. sat' = reachable \cap f.q
      BY <2>1, <2>3 DEF Start
    <3>2. Avoids(succ, f.p, f.q) \cap f.q = {}
      BY <1>0, GoalNotAvoided
    <3> QED
      BY <2>1, <2>3, <3>1, <3>2 DEF JudgeInv
  <2> QED
    BY <2>1, <2>2, <2>3 DEF JudgeInv
<1>2. CASE Direct
  <2>1. /\ pc = "direct" /\ formula.op \in DirectOps /\ pc' \in {"unwind", "done"}
        /\ UNCHANGED <<graphVars, formula, sat>>
    BY <1>2 DEF Direct, Pass, Fail, TypeInv, PcInv
  <2>2. verdict' <=> DirectEnds = {}
    BY <1>2 DEF Direct, Pass, Fail
  <2>3. formula.op \notin CtlOps /\ formula.op # "U"
    BY <2>1 DEF DirectOps, CtlOps, FixpointOps
  <2> QED
    BY <2>1, <2>2, <2>3, DirectEndsStays DEF JudgeInv, CtlOps
<1>3. CASE Iterate
  <2>1. /\ pc = "fix" /\ pc' = "fix" /\ formula.op \in CtlOps /\ Round(sat) # sat
        /\ formula' = formula
    BY <1>3 DEF Iterate, Settled
  <2>2. formula.op \notin {"EX", "AX", "U"}
    BY <2>1 DEF Round, CtlOps, FixpointOps
  <2> QED
    BY <2>1, <2>2 DEF JudgeInv
<1>4. CASE IterateEnd
  <2>1. /\ pc = "fix" /\ pc' \in {"unwind", "done"} /\ formula.op \in CtlOps
        /\ UNCHANGED <<graphVars, formula, sat>> /\ (verdict' <=> Root \in Sat)
    BY <1>4 DEF IterateEnd, Pass, Fail
  <2>2. formula.op \notin DirectOps /\ formula.op # "U"
    BY <2>1 DEF DirectOps, CtlOps, FixpointOps
  <2>3. Sat' = Sat /\ Start(formula)' = Start(formula)
    BY <2>1 DEF Sat, Start, PreExists, PreAll, graphVars
  <2> QED
    BY <2>1, <2>2, <2>3 DEF JudgeInv
<1>5. ASSUME NEW n \in Nodes, Join(n) PROVE JudgeInv'
  <2>1. /\ pc = "fix" /\ pc' = "fix" /\ formula.op = "U" /\ CanJoin(n) /\ sat' = sat \cup {n}
        /\ UNCHANGED <<graphVars, formula>>
    BY <1>5 DEF Join
  <2>2. n \in reachable \cap formula.p /\ succ[n] # {} /\ succ[n] \cap reachable \subseteq sat
    BY <2>1 DEF CanJoin
  <2>3. succ[n] \subseteq sat
    <3>1. steps[n] \subseteq reachable
      BY <2>1, <2>2 DEF SearchInv
    <3> QED
      BY <2>2, <3>1 DEF steps
  <2>4. n \notin Avoids(succ, formula.p, formula.q)
    BY <1>0, <2>1, <2>2, <2>3, AvoidsGoOn DEF JudgeInv
  <2> QED
    BY <2>1, <2>2, <2>4, AvoidsStays DEF JudgeInv, graphVars
<1>6. CASE JoinEnd
  <2>1. /\ pc = "fix" /\ formula.op = "U" /\ \A n \in Nodes : ~ CanJoin(n)
        /\ pc' \in {"trace", "done"} /\ (verdict' <=> Root \in sat)
        /\ UNCHANGED <<graphVars, formula, sat>>
    BY <1>6 DEF JoinEnd, Pass
  <2>2. formula.op \notin DirectOps \cup CtlOps
    BY <2>1 DEF DirectOps, CtlOps, FixpointOps
  <2> QED
    BY <2>1, <2>2, AvoidsStays, CanJoinStays DEF JudgeInv, graphVars, CtlOps
<1>7. CASE TraceEnd \/ \E n \in Nodes : TraceStep(n)
  <2>1. /\ pc = "trace" /\ formula.op = "U" /\ pc' \in {"trace", "done"}
        /\ UNCHANGED <<graphVars, formula, sat, verdict>>
    BY <1>7 DEF TraceEnd, TraceStep, TypeInv, PcInv
  <2>2. formula.op \notin DirectOps \cup CtlOps
    BY <2>1 DEF DirectOps, CtlOps, FixpointOps
  <2> QED
    BY <2>1, <2>2, AvoidsStays, CanJoinStays DEF JudgeInv, graphVars, CtlOps
<1>8. CASE Unwind \/ UNCHANGED vars
  <2>1. UNCHANGED <<graphVars, formula, sat, verdict>>
    BY <1>8 DEF Unwind, vars
  <2>2. Sat' = Sat /\ Start(formula)' = Start(formula)
    BY <2>1 DEF Sat, Start, PreExists, PreAll, graphVars
  <2>3. CASE UNCHANGED vars
    <3>1. pc' = pc
      BY <2>3 DEF vars
    <3> QED
      BY <2>1, <2>2, <3>1, AvoidsStays, CanJoinStays, DirectEndsStays DEF JudgeInv, graphVars
  <2>4. CASE Unwind
    <3>1. pc = "unwind" /\ pc' \in {"unwind", "done"}
      BY <2>4 DEF Unwind
    <3>2. formula.op # "U"
      BY <3>1 DEF JudgeInv
    <3> QED
      BY <2>1, <2>2, <3>1, <3>2, DirectEndsStays DEF JudgeInv
  <2> QED
    BY <1>8, <2>3, <2>4
<1>9. CASE Build \/ Report
  <2>1. pc' \in {"build", "ready"}
    BY <1>9 DEF Build, Discover, NextNode, Built, Report
  <2> QED
    BY <2>1 DEF JudgeInv
<1> QED
  BY <1>1, <1>2, <1>3, <1>4, <1>5, <1>6, <1>7, <1>8, <1>9 DEF Next, Check

\* compute_sat() finds the nodes where its formula holds.
LEMMA SatMeans ==
  ASSUME TypeInv, FixInv, JudgeInv, pc \in {"unwind", "done"}, formula.op \in CtlOps
  PROVE  Sat = Holds(succ, formula)
<1> DEFINE P == formula.p
           Q == formula.q
<1>0. /\ succ \in AnyGraph /\ P \in SUBSET Nodes /\ Q \in SUBSET Nodes /\ sat \in SUBSET Nodes
      /\ IsFiniteSet(Nodes) /\ formula # None
  BY FormulaType, ModelCheckerAssumption DEF TypeInv, TypeOK, AnyGraph, Assumptions
<1>1. CASE formula.op \in {"EX", "AX"}
  <2>1. sat = Start(formula) /\ Sat = sat
    BY <1>1 DEF JudgeInv, Sat
  <2>2. CASE formula.op = "EX"
    <3>1. Sat = PreExists(P)
      BY <2>1, <2>2 DEF Start
    <3> QED
      BY <2>2, <3>1, HoldsCases DEF PreExists
  <2>3. CASE formula.op = "AX"
    <3>1. Sat = PreAll(P)
      BY <2>1, <2>3 DEF Start
    <3>2. Holds(succ, formula) = {n \in Nodes \ Terminal(succ) : succ[n] \subseteq P}
      BY <2>3, HoldsNext
    <3> QED
      BY <3>1, <3>2 DEF PreAll, Terminal
  <2> QED
    BY <1>1, <2>2, <2>3
<1>2. formula.op \in FixpointOps => Bracketed /\ Round(sat) = sat
  BY <1>0 DEF FixInv
<1>3. ASSUME formula.op \in {"EF", "AG"}, NEW T, Start(formula) = T, T \in SUBSET Nodes
      PROVE  sat = Ever(succ, T)
  <2>1. \A Z : Round(Z) = Z \cup PreExists(Z)
    BY <1>3 DEF Round
  <2>2. /\ T \subseteq sat /\ sat \cup PreExists(sat) = sat
        /\ \A Z \in SUBSET Nodes : T \subseteq Z /\ Z \cup PreExists(Z) \subseteq Z => sat \subseteq Z
    BY <1>2, <1>3, <2>1 DEF Bracketed, FixpointOps
  <2>3. \A n \in Nodes : succ[n] \cap sat # {} => n \in sat
    BY <2>2 DEF PreExists
  <2>4. ASSUME NEW Z \in SUBSET Nodes, T \subseteq Z, \A n \in Nodes : succ[n] \cap Z # {} => n \in Z
        PROVE  sat \subseteq Z
    BY <2>2, <2>4 DEF PreExists
  <2>5. /\ succ \in AnyGraph /\ T \in SUBSET Nodes /\ sat \in SUBSET Nodes /\ T \subseteq sat
        /\ \A Z \in SUBSET Nodes :
             T \subseteq Z /\ (\A n \in Nodes : succ[n] \cap Z # {} => n \in Z) => sat \subseteq Z
    BY <1>0, <1>3, <2>2, <2>4
  <2> DEFINE Y == sat
  <2> HIDE DEF Y
  <2>6. /\ T \subseteq Y /\ Y \in SUBSET Nodes /\ \A n \in Nodes : succ[n] \cap Y # {} => n \in Y
        /\ \A Z \in SUBSET Nodes :
             T \subseteq Z /\ (\A n \in Nodes : succ[n] \cap Z # {} => n \in Z) => Y \subseteq Z
    BY <2>3, <2>5 DEF Y
  <2>7. Y = Ever(succ, T)
    BY ONLY <2>5, <2>6, EverExact
  <2> QED
    BY <2>7 DEF Y
<1>4. CASE formula.op = "EF"
  BY <1>0, <1>3, <1>4, HoldsCases DEF Start, Sat
<1>5. CASE formula.op = "AG"
  <2>1. Start(formula) = Nodes \ P
    BY <1>5 DEF Start
  <2>2. sat = Ever(succ, Nodes \ P)
    BY <1>3, <1>5, <2>1
  <2>3. Holds(succ, formula) = Nodes \ Ever(succ, Nodes \ P)
    BY <1>5, HoldsCases
  <2>4. Sat = Nodes \ sat
    BY <1>5 DEF Sat
  <2> QED
    BY <2>2, <2>3, <2>4
<1>6. CASE formula.op = "EG"
  <2>1. \A Z : Round(Z) = Z \cap PreExists(Z)
    BY <1>6 DEF Round
  <2>2. /\ sat \subseteq P /\ sat \cap PreExists(sat) = sat
        /\ \A Z \in SUBSET P : Z \subseteq PreExists(Z) => Z \subseteq sat
    BY <1>2, <1>6, <2>1 DEF Bracketed, FixpointOps
  <2>3. \A n \in sat : succ[n] \cap sat # {}
    BY <2>2 DEF PreExists
  <2>4. ASSUME NEW Z \in SUBSET P, \A n \in Z : succ[n] \cap Z # {} PROVE Z \subseteq sat
    BY <1>0, <2>2, <2>4 DEF PreExists
  <2> HIDE DEF P, Q
  <2>5. sat = Circles(succ, P)
    BY <1>0, <2>2, <2>3, <2>4, CirclesExact
  <2> QED
    BY <1>6, <2>5, HoldsCases DEF Sat, P, Q
<1>7. CASE formula.op = "EU"
  <2>1. /\ \A Z : Round(Z) = Z \cup (P \cap PreExists(Z))
        /\ Start(formula) = Q
    BY <1>7 DEF Round, Start
  <2>2. /\ Q \subseteq sat /\ sat \cup (P \cap PreExists(sat)) = sat
        /\ \A Z \in SUBSET Nodes :
             Q \subseteq Z /\ Z \cup (P \cap PreExists(Z)) \subseteq Z => sat \subseteq Z
    BY <1>2, <1>7, <2>1 DEF Bracketed, FixpointOps
  <2>3. \A n \in P : succ[n] \cap sat # {} => n \in sat
    BY <1>0, <2>2 DEF PreExists
  <2>4. ASSUME NEW Z \in SUBSET Nodes, Q \subseteq Z, \A n \in P : succ[n] \cap Z # {} => n \in Z
        PROVE  sat \subseteq Z
    BY <2>2, <2>4 DEF PreExists
  <2> HIDE DEF P, Q
  <2>5. sat = Reaches(succ, P, Q)
    <3>1. \A Z \in SUBSET Nodes :
            Q \subseteq Z /\ (\A n \in P : succ[n] \cap Z # {} => n \in Z) => sat \subseteq Z
      BY <2>4
    <3>2. succ \in AnyGraph /\ P \in SUBSET Nodes /\ Q \in SUBSET Nodes /\ sat \in SUBSET Nodes
      BY <1>0
    <3>3. Q \subseteq sat /\ \A n \in P : succ[n] \cap sat # {} => n \in sat
      BY <2>2, <2>3
    <3> QED
      BY <3>1, <3>2, <3>3, ReachesExact
  <2> QED
    BY <1>7, <2>5, HoldsCases DEF Sat, P, Q
<1>8. CASE formula.op = "AU"
  <2>1. /\ \A Z : Round(Z) = Z \cup (P \cap PreAll(Z))
        /\ Start(formula) = Q
    BY <1>8 DEF Round, Start
  <2>2. /\ Q \subseteq sat /\ sat \cup (P \cap PreAll(sat)) = sat
        /\ \A Z \in SUBSET Nodes :
             Q \subseteq Z /\ Z \cup (P \cap PreAll(Z)) \subseteq Z => sat \subseteq Z
    BY <1>2, <1>8, <2>1 DEF Bracketed, FixpointOps
  <2>3. \A n \in Nodes : n \in P /\ succ[n] # {} /\ succ[n] \subseteq sat => n \in sat
    BY <2>2 DEF PreAll
  <2>4. ASSUME NEW Z \in SUBSET Nodes, Q \subseteq Z,
               \A n \in Nodes : n \in P /\ succ[n] # {} /\ succ[n] \subseteq Z => n \in Z
        PROVE  sat \subseteq Z
    BY <2>2, <2>4 DEF PreAll
  <2> HIDE DEF P, Q
  <2>5. sat = Nodes \ Avoids(succ, P, Q)
    BY <1>0, <2>2, <2>3, <2>4, AvoidsExact
  <2> QED
    BY <1>8, <2>5, HoldsCases DEF Sat, P, Q
<1>9. CASE formula.op = "AF"
  <2>1. /\ \A Z : Round(Z) = Z \cup PreAll(Z)
        /\ Start(formula) = P
    BY <1>9 DEF Round, Start
  <2>2. /\ P \subseteq sat /\ sat \cup PreAll(sat) = sat
        /\ \A Z \in SUBSET Nodes : P \subseteq Z /\ Z \cup PreAll(Z) \subseteq Z => sat \subseteq Z
    BY <1>2, <1>9, <2>1 DEF Bracketed, FixpointOps
  <2>3. \A n \in Nodes : succ[n] # {} /\ succ[n] \subseteq sat => n \in sat
    BY <2>2 DEF PreAll
  <2>4. ASSUME NEW Z \in SUBSET Nodes, P \subseteq Z,
               \A n \in Nodes : succ[n] # {} /\ succ[n] \subseteq Z => n \in Z
        PROVE  sat \subseteq Z
    BY <2>2, <2>4 DEF PreAll
  <2> HIDE DEF P, Q
  <2>5. sat = Nodes \ Stays(succ, Nodes \ P)
    BY <1>0, <2>2, <2>3, <2>4, StaysExact
  <2> QED
    BY <1>9, <2>5, HoldsCases DEF Sat, P, Q
<1> QED
  BY <1>1, <1>4, <1>5, <1>6, <1>7, <1>8, <1>9 DEF CtlOps, FixpointOps

\* What compute_sat() returns is exact at every state, for every graph and
\* all operands: all eight CTL operators, whatever the graph's cycles.
THEOREM SatCorrect == Spec => []SatExact
<1>1. Init => JudgeInv /\ FixInv
  BY DEF Init, JudgeInv, FixInv
<1>2. TypeInv /\ FixInv /\ JudgeInv => SatExact
  BY SatMeans DEF SatExact
<1> QED
  BY <1>1, <1>2, TypeInvariant, SearchCorrect, StepFix, StepJudge, PTL DEF Spec

-----------------------------------------------------------------------------
(* Strongly connected components.                                          *)

LEMMA ReachTrans ==
  ASSUME NEW g, NEW n, NEW m \in Reach(g, n), NEW c \in Reach(g, m)
  PROVE  c \in Reach(g, n)
<1>1. {m} \cap Nodes \subseteq ReachIn(g, Nodes, {n}) BY DEF Reach
<1>2. ReachIn(g, Nodes, {m}) \subseteq ReachIn(g, Nodes, {n}) BY <1>1, ReachOnward
<1> QED BY <1>2 DEF Reach

\* In a component with an edge every node has a successor.
LEMMA ComponentGoesOn ==
  ASSUME succ \in AnyGraph, NEW n \in Nodes, Cyclic(Component(n)), NEW m \in Component(n)
  PROVE  succ[m] \cap Component(n) # {}
<1>1. PICK c \in Component(n) : succ[c] \cap Component(n) # {} BY DEF Cyclic
<1>2. /\ m \in Reach(succ, n) /\ n \in Reach(succ, m) /\ m \in Nodes
      /\ c \in Reach(succ, n) /\ n \in Reach(succ, c)
  BY <1>1 DEF Component, Reach, ReachIn
<1>3. CASE c = m BY <1>1, <1>3
<1>4. CASE c # m
  <2>1. c \in Reach(succ, m) BY <1>2, ReachTrans
  <2>2. PICK k \in succ[m] \cap Nodes : c \in Reach(succ, k)
    BY <1>4, <2>1, ReachFirst DEF Reach
  <2>3. k \in Reach(succ, n) BY <1>2, <2>2, ReachOn DEF Reach
  <2>4. n \in Reach(succ, k) BY <1>2, <2>2, ReachTrans
  <2> QED BY <2>2, <2>3, <2>4 DEF Component
<1> QED BY <1>3, <1>4

LEMMA CyclicOnCycle ==
  ASSUME succ \in AnyGraph, NEW n \in Nodes
  PROVE  Cyclic(Component(n)) <=> n \in OnCycle(succ, Nodes)
<1>0. n \in Reach(succ, n) BY ReachBase DEF Reach
<1>1. n \in Component(n) BY <1>0 DEF Component
<1>2. ASSUME Cyclic(Component(n)) PROVE n \in OnCycle(succ, Nodes)
  <2>1. PICK k \in succ[n] : k \in Component(n) BY <1>1, <1>2, ComponentGoesOn
  <2>2. n \in ReachIn(succ, Nodes, {k}) /\ k \in Nodes BY <2>1 DEF Component, Reach, ReachIn
  <2>3. {k} \cap Nodes \subseteq ReachIn(succ, Nodes, succ[n]) BY <2>1, ReachBase
  <2>4. n \in ReachIn(succ, Nodes, succ[n]) BY <2>2, <2>3, ReachOnward
  <2> QED BY <2>4 DEF OnCycle
<1>3. ASSUME n \in OnCycle(succ, Nodes) PROVE Cyclic(Component(n))
  <2>1. PICK k \in succ[n] \cap Nodes : n \in ReachIn(succ, Nodes, {k})
    BY <1>3, ReachFrom DEF OnCycle
  <2>2. k \in Reach(succ, n) BY <1>0, <2>1, ReachOn DEF Reach
  <2>3. k \in Component(n) BY <2>1, <2>2 DEF Component, Reach
  <2> QED BY <1>1, <2>1, <2>3 DEF Cyclic
<1> QED BY <1>2, <1>3

\* A state that check_gf reports stays where P is not.
LEMMA ComponentStays ==
  ASSUME IsFiniteSet(Nodes), succ \in AnyGraph, NEW P, NEW n \in Nodes,
         \/ Cyclic(Component(n)) /\ Component(n) \cap P = {}
         \/ succ[n] = {} /\ n \notin P
  PROVE  n \in Stays(succ, Nodes \ P)
<1>0. Nodes \ P \in SUBSET Nodes OBVIOUS
<1>1. CASE Cyclic(Component(n)) /\ Component(n) \cap P = {}
  <2>1. Component(n) \in SUBSET (Nodes \ P) BY <1>1 DEF Component, Reach, ReachIn
  <2>2. \A m \in Component(n) : succ[m] \cap Component(n) # {} BY <1>1, ComponentGoesOn
  <2>3. Component(n) \subseteq Stays(succ, Nodes \ P) BY <1>0, <2>1, <2>2, StaysGreatest
  <2>4. n \in Component(n) BY ReachBase DEF Component, Reach
  <2> QED BY <2>3, <2>4
<1>2. CASE succ[n] = {} /\ n \notin P
  <2>1. {n} \in SUBSET (Nodes \ P) /\ \A m \in {n} : succ[m] = {} BY <1>2
  <2>2. {n} \subseteq Stays(succ, Nodes \ P) BY <1>0, <2>1, StaysGreatest
  <2> QED BY <2>2
<1> QED BY <1>1, <1>2

-----------------------------------------------------------------------------
(* The verdicts.                                                           *)

LEMMA NextEndsEmpty ==
  ASSUME NEW froms \in SUBSET Nodes, NEW goal
  PROVE  NextEnds(froms, goal) = {} <=> \A s \in froms : s \notin Terminal(succ) /\ succ[s] \subseteq goal
<1>1. ASSUME NextEnds(froms, goal) = {}, NEW s \in froms
      PROVE  s \notin Terminal(succ) /\ succ[s] \subseteq goal
  <2>1. s \notin Terminal(succ)
    <3> SUFFICES ASSUME s \in Terminal(succ) PROVE FALSE OBVIOUS
    <3>1. <<s>> \in NextEnds(froms, goal) BY DEF NextEnds
    <3> QED BY <1>1, <3>1
  <2>2. succ[s] \subseteq goal
    <3> SUFFICES ASSUME NEW t \in succ[s], t \notin goal PROVE FALSE OBVIOUS
    <3>1. <<s, t>> \in NextEnds(froms, goal) BY DEF NextEnds
    <3> QED BY <1>1, <3>1
  <2> QED BY <2>1, <2>2
<1>2. ASSUME \A s \in froms : s \notin Terminal(succ) /\ succ[s] \subseteq goal,
             NEW e \in NextEnds(froms, goal)
      PROVE  FALSE
  <2>1. CASE e \in {<<s>> : s \in froms \cap Terminal(succ)} BY <1>2, <2>1
  <2>2. CASE e \in UNION {{<<s, t>> : t \in succ[s] \ goal} : s \in froms}
    <3>1. PICK s \in froms : e \in {<<s, t>> : t \in succ[s] \ goal} BY <2>2
    <3> QED BY <1>2, <3>1
  <2> QED BY <2>1, <2>2 DEF NextEnds
<1> QED BY <1>1, <1>2

\* On a flat machine the answer of a direct check is not wrong: it may report
\* a violation only if there is one, and but for F P, G(P -> F Q) and G F P it
\* may pass only what holds.
LEMMA DirectMeans ==
  ASSUME IsFiniteSet(Nodes), succ \in AnyGraph, Root \in Nodes, reachable = Reach(succ, Root),
         formula \in Formulas, formula.op \in DirectOps
  PROVE  IF DirectEnds = {} THEN formula.op \in {"F", "Response", "GF"} \/ Root \in Holds(succ, formula)
                            ELSE Root \notin Holds(succ, formula)
<1> DEFINE P == formula.p
           Q == formula.q
<1>1. P \in SUBSET Nodes /\ Q \in SUBSET Nodes
  BY FormulaType
<1>2. \A T : Root \in Ever(succ, T) <=> reachable \cap T # {}
  BY DEF Ever
<1>3. reachable \in SUBSET Nodes /\ \A n \in reachable : succ[n] \subseteq reachable
  BY ReachStep DEF Reach, ReachIn, AnyGraph
<1>4. CASE formula.op = "G"
  <2>1. DirectEnds = {} <=> reachable \cap (Nodes \ P) = {}
    BY <1>3, <1>4 DEF DirectEnds, InvariantEnds
  <2>2. Holds(succ, formula) = Nodes \ Ever(succ, Nodes \ P)
    BY <1>4, HoldsCases
  <2>3. Root \in Holds(succ, formula) <=> reachable \cap (Nodes \ P) = {}
    BY <1>2, <2>2
  <2> QED BY <2>1, <2>3
<1>5. CASE formula.op = "F"
  <2>1. SUFFICES ASSUME DirectEnds # {} PROVE Root \notin Holds(succ, formula)
    BY <1>5
  <2>2. reachable \cap P = {}
    BY <1>5, <2>1 DEF DirectEnds, ReachabilityEnds
  <2>3. reachable \in SUBSET (Nodes \ P) /\ Nodes \ P \in SUBSET Nodes
    BY <1>3, <2>2
  <2>4. reachable \subseteq Stays(succ, Nodes \ P)
    BY <1>3, <2>3, StaysGreatest
  <2>5. Root \in reachable
    BY ReachBase DEF Reach
  <2>6. Holds(succ, formula) = Nodes \ Stays(succ, Nodes \ P)
    BY <1>5, HoldsCases
  <2> QED BY <2>4, <2>5, <2>6
<1>6. CASE formula.op = "X"
  <2>1. DirectEnds = {} <=> Root \notin Terminal(succ) /\ succ[Root] \subseteq P
    <3>1. DirectEnds = NextEnds({Root}, P) /\ {Root} \in SUBSET Nodes
      BY <1>6 DEF DirectEnds
    <3> QED BY <3>1, NextEndsEmpty
  <2>2. Holds(succ, formula) = {n \in Nodes \ Terminal(succ) : succ[n] \subseteq P}
    BY <1>6, HoldsNext
  <2> QED BY <2>1, <2>2
<1>7. CASE formula.op = "Response"
  <2>1. SUFFICES ASSUME DirectEnds # {} PROVE Root \notin Holds(succ, formula)
    BY <1>7
  <2>2. PICK n \in reachable \cap P : Reach(succ, n) \cap Q = {}
    BY <1>7, <2>1 DEF DirectEnds, ResponseEnds
  <2>3. Reach(succ, n) \in SUBSET (Nodes \ Q) /\ Nodes \ Q \in SUBSET Nodes /\ n \in Reach(succ, n)
    BY <1>3, <2>2, ReachBase DEF Reach, ReachIn
  <2>4. \A m \in Reach(succ, n) : succ[m] \subseteq Reach(succ, n)
    BY <1>3, <2>2, ReachStep DEF AnyGraph
  <2>5. n \in Stays(succ, Nodes \ Q)
    BY <2>3, <2>4, StaysGreatest
  <2>6. Root \in Ever(succ, P \cap Stays(succ, Nodes \ Q))
    BY <1>2, <2>2, <2>5
  <2>7. Holds(succ, formula) = Nodes \ Ever(succ, P \cap Stays(succ, Nodes \ Q))
    BY <1>7, HoldsCases
  <2> QED BY <2>6, <2>7
<1>8. CASE formula.op = "NextResponse"
  <2> DEFINE T == {n \in P : n \in Terminal(succ) \/ ~ (succ[n] \subseteq Q)}
  <2>1. DirectEnds = {} <=> reachable \cap T = {}
    <3>1. DirectEnds = NextEnds(reachable \cap P, Q) /\ reachable \cap P \in SUBSET Nodes
      BY <1>3, <1>8 DEF DirectEnds
    <3>2. DirectEnds = {} <=> \A s \in reachable \cap P : s \notin Terminal(succ) /\ succ[s] \subseteq Q
      BY <3>1, NextEndsEmpty
    <3> QED BY <3>2
  <2>2. Holds(succ, formula) = Nodes \ Ever(succ, T)
    BY <1>8, HoldsNextResponse
  <2>3. Root \in Holds(succ, formula) <=> reachable \cap T = {}
    BY <1>2, <2>2
  <2> QED BY <2>1, <2>3
<1>9. CASE formula.op = "GF"
  <2>1. SUFFICES ASSUME DirectEnds # {} PROVE Root \notin Holds(succ, formula)
    BY <1>9
  <2>2. \E n \in reachable : \/ Cyclic(Component(n)) /\ Component(n) \cap P = {}
                             \/ n \in Terminal(succ) \ P
    BY <1>9, <2>1 DEF DirectEnds, RecurrenceEnds
  <2>3. PICK n \in reachable : n \in Stays(succ, Nodes \ P)
    BY <1>3, <2>2, ComponentStays DEF Terminal
  <2>4. Root \in Ever(succ, Stays(succ, Nodes \ P))
    BY <1>2, <2>3
  <2>5. Holds(succ, formula) = Nodes \ Ever(succ, Stays(succ, Nodes \ P))
    BY <1>9, HoldsCases
  <2> QED BY <2>4, <2>5
<1>10. CASE formula.op = "FG"
  <2> DEFINE T == (Nodes \ P) \cap (OnCycle(succ, Nodes) \cup Terminal(succ))
  <2>1. DirectEnds = {} <=> reachable \cap T = {}
    <3>1. DirectEnds = {} <=> \A n \in reachable \ P : ~ Cyclic(Component(n)) /\ n \notin Terminal(succ)
      BY <1>10 DEF DirectEnds, PersistenceEnds
    <3>2. \A n \in reachable : Cyclic(Component(n)) <=> n \in OnCycle(succ, Nodes)
      BY <1>3, CyclicOnCycle
    <3> QED BY <1>3, <3>1, <3>2
  <2>2. Holds(succ, formula) = Nodes \ Ever(succ, T)
    BY <1>10, HoldsCases
  <2>3. Root \in Holds(succ, formula) <=> reachable \cap T = {}
    BY <1>2, <2>2
  <2> QED BY <2>1, <2>3
<1> QED
  BY <1>4, <1>5, <1>6, <1>7, <1>8, <1>9, <1>10 DEF DirectOps

\* P U Q: the loop of check_until ends with exactly the reachable states where
\* the formula holds.
LEMMA UntilMeans ==
  ASSUME TypeInv, SearchInv, JudgeInv, pc = "done", formula.op = "U"
  PROVE  verdict <=> Root \in Holds(succ, formula)
<1> DEFINE P == formula.p
           Q == formula.q
           W == reachable \ sat
<1>0. /\ succ \in AnyGraph /\ P \in SUBSET Nodes /\ Q \in SUBSET Nodes /\ sat \in SUBSET Nodes
      /\ reachable \in SUBSET Nodes /\ IsFiniteSet(Nodes) /\ Root \in Nodes
  BY FormulaType, ModelCheckerAssumption DEF TypeInv, TypeOK, AnyGraph, Assumptions
<1>1. /\ reachable \cap Q \subseteq sat /\ sat \cap Avoids(succ, P, Q) = {}
      /\ \A n \in Nodes : ~ CanJoin(n)
      /\ verdict <=> Root \in sat
  BY DEF JudgeInv
<1>2. W \in SUBSET (Nodes \ Q)
  BY <1>0, <1>1
<1>3. ASSUME NEW n \in W PROVE n \notin P \/ succ[n] = {} \/ succ[n] \cap W # {}
  BY <1>0, <1>1 DEF CanJoin
<1>4. W \subseteq Avoids(succ, P, Q)
  BY <1>0, <1>2, <1>3, AvoidsGreatest
<1>5. Root \in reachable
  BY DEF SearchInv
<1>6. Root \in sat <=> Root \notin Avoids(succ, P, Q)
  BY <1>1, <1>4, <1>5
<1>7. Holds(succ, formula) = Nodes \ Avoids(succ, P, Q)
  BY HoldsCases
<1> QED
  BY <1>0, <1>1, <1>6, <1>7

LEMMA VerdictMeans ==
  ASSUME TypeInv, SearchInv, FixInv, JudgeInv, pc = "done", Flat
  PROVE  IF verdict THEN formula.op \in {"F", "Response", "GF"} \/ Root \in Holds(succ, formula)
                    ELSE Root \notin Holds(succ, formula)
<1>0. /\ succ \in AnyGraph /\ IsFiniteSet(Nodes) /\ Root \in Nodes /\ formula \in Formulas
  BY ModelCheckerAssumption DEF TypeInv, TypeOK, AnyGraph, Assumptions
<1>1. formula.op \in DirectOps \cup CtlOps \cup {"U"}
  BY <1>0, FormulaType DEF UnaryOps, BinaryOps, DirectOps, CtlOps, FixpointOps
<1>2. CASE formula.op \in DirectOps
  <2>1. steps = succ
    BY <1>0 DEF Flat, steps, AnyGraph
  <2>2. reachable = Reach(succ, Root)
    BY <2>1, SearchExact
  <2>3. verdict <=> DirectEnds = {}
    BY <1>2 DEF JudgeInv
  <2> QED
    BY <1>0, <1>2, <2>2, <2>3, DirectMeans
<1>3. CASE formula.op \in CtlOps
  BY <1>3, SatMeans DEF JudgeInv
<1>4. CASE formula.op = "U"
  BY <1>4, UntilMeans
<1> QED
  BY <1>1, <1>2, <1>3, <1>4

LEMMA JudgeInvariant == Spec => [](TypeInv /\ SearchInv /\ FixInv /\ JudgeInv)
<1>1. Init => JudgeInv /\ FixInv
  BY DEF Init, JudgeInv, FixInv
<1> QED
  BY <1>1, TypeInvariant, SearchCorrect, StepFix, StepJudge, PTL DEF Spec

\* A formula that passes holds at the initial state of every flat machine; the
\* three formulas whose checks look for one good run are left out.
THEOREM VerdictCorrect == Spec => []VerdictSound
<1>1. TypeInv /\ SearchInv /\ FixInv /\ JudgeInv => VerdictSound
  BY VerdictMeans DEF VerdictSound
<1> QED
  BY <1>1, JudgeInvariant, PTL

\* A formula that is reported as violated does not hold, whatever it is.
THEOREM AlarmCorrect == Spec => []NoFalseAlarm
<1>1. TypeInv /\ SearchInv /\ FixInv /\ JudgeInv => NoFalseAlarm
  BY VerdictMeans DEF NoFalseAlarm
<1> QED
  BY <1>1, JudgeInvariant, PTL

\* The same two results in terms of runs: what passes is true of the runs of a
\* flat machine from its initial state, and what is reported as violated is not.
THEOREM RunsCorrect ==
  Spec => [](pc = "done" /\ Flat =>
               /\ verdict /\ formula.op \notin {"F", "Response", "GF"}
                    => OnRuns(succ, formula, Root)
               /\ ~ verdict => ~ OnRuns(succ, formula, Root))
<1>1. TypeInv /\ pc = "done" => (Root \in Holds(succ, formula) <=> OnRuns(succ, formula, Root))
  <2> SUFFICES ASSUME TypeInv, pc = "done"
               PROVE  Root \in Holds(succ, formula) <=> OnRuns(succ, formula, Root)
    OBVIOUS
  <2>1. /\ IsFiniteSet(Nodes) /\ Root \in Nodes /\ succ \in AnyGraph /\ formula \in Formulas
    BY ModelCheckerAssumption DEF Assumptions, AnyGraph, TypeInv, TypeOK
  <2> QED
    BY <2>1, HoldsOnRuns
<1>2. VerdictSound /\ NoFalseAlarm /\ TypeInv =>
        (pc = "done" /\ Flat =>
           /\ verdict /\ formula.op \notin {"F", "Response", "GF"}
                => OnRuns(succ, formula, Root)
           /\ ~ verdict => ~ OnRuns(succ, formula, Root))
  BY <1>1 DEF VerdictSound, NoFalseAlarm
<1> QED
  BY <1>2, TypeInvariant, VerdictCorrect, AlarmCorrect, PTL

-----------------------------------------------------------------------------
(* Counterexamples.                                                        *)

\* The predecessors lead back to the root.
PredInv ==
  \A n \in reachable :
    IF pred[n] = None THEN n = Root ELSE pred[n] \in reachable /\ n \in steps[pred[n]]

Consecutive(t) == \A i \in 1 .. Len(t) - 1 : t[i + 1] \in steps[t[i]]

\* What a trace t of formula f shows at its end, P U Q aside.
Shown(f, t) ==
  LET end == t[Len(t)]
  IN CASE f.op \in {"G", "AG"} -> end \notin f.p
       [] f.op \in {"X", "AX"} -> IF Len(t) = 1 THEN succ[end] = {} ELSE end \notin f.p
       [] f.op = "Response"    -> end \in f.p /\ Reach(succ, end) \cap f.q = {}
       [] f.op = "NextResponse" ->
            \/ end \in f.p /\ succ[end] = {}
            \/ Len(t) > 1 /\ t[Len(t) - 1] \in f.p /\ end \notin f.q
       [] f.op = "GF" -> end \in Stays(succ, Nodes \ f.p)
       [] f.op = "FG" -> end \notin f.p /\ end \in OnCycle(succ, Nodes) \cup Terminal(succ)
       [] OTHER -> TRUE

FarOps == {"G", "AG", "Response", "NextResponse", "GF", "FG"}

TraceInv ==
  /\ pc \in {"unwind", "done"} /\ trace # << >> /\ formula.op # "U" =>
       /\ ~ verdict /\ trace[1] \in reachable /\ Consecutive(trace) /\ Shown(formula, trace)
       /\ pc = "done" \/ formula.op \notin FarOps => trace[1] = Root
  /\ pc = "trace" =>
       /\ trace[1] = Root /\ Consecutive(trace)
       /\ \A i \in DOMAIN trace : trace[i] \in reachable \ sat
  /\ pc = "done" /\ trace # << >> /\ formula.op = "U" =>
       ~ verdict /\ trace[1] = Root /\ Consecutive(trace) /\ Refuted

LEMMA StepPred == TypeInv /\ SearchInv /\ PredInv /\ [Next]_vars => PredInv'
<1> SUFFICES ASSUME TypeInv, SearchInv, PredInv, [Next]_vars PROVE PredInv'
  OBVIOUS
<1> USE ModelCheckerAssumption DEF Assumptions
<1>1. ASSUME NEW n \in Nodes, Discover(n) PROVE PredInv'
  <2>1. n \in steps[curr] \ reachable /\ steps' = steps
    BY <1>1, UndiscoveredProp DEF Discover, steps
  <2>2. curr \in reachable /\ curr \in Nodes
    BY DEF SearchInv, TypeInv, TypeOK
  <2>3. reachable' = reachable \cup {n} /\ pred' = [pred EXCEPT ![n] = curr]
    BY <1>1 DEF Discover
  <2>4. pred'[n] = curr /\ \A m \in reachable : pred'[m] = pred[m]
    BY <2>1, <2>3 DEF TypeInv, TypeOK
  <2> QED
    BY <2>1, <2>2, <2>3, <2>4 DEF PredInv
<1>2. ASSUME UNCHANGED <<succ, kids, reachable, pred>> PROVE PredInv'
  <2>1. steps' = steps
    BY <1>2 DEF steps
  <2> QED
    BY <1>2, <2>1 DEF PredInv
<1>3. CASE NextNode \/ UNCHANGED graphVars
  BY <1>2, <1>3 DEF NextNode, graphVars
<1> QED
  BY <1>1, <1>3 DEF Next, Build, Built, Check, Direct, Unwind, Iterate, IterateEnd, JoinEnd,
     TraceEnd, Report, Join, TraceStep, Verify, vars

LEMMA ShownStays ==
  ASSUME UNCHANGED <<graphVars, formula>>, Shown(formula, trace')
  PROVE  Shown(formula, trace)'
BY DEF Shown, graphVars

LEMMA ConsecutiveStays ==
  ASSUME UNCHANGED graphVars, Consecutive(trace')
  PROVE  Consecutive(trace)'
<1>1. steps' = steps
  BY DEF steps, graphVars
<1> QED
  BY <1>1 DEF Consecutive

LEMMA OneShown ==
  ASSUME NEW s \in reachable, NEW end, end = <<s>>
  PROVE  end[1] = s /\ Len(end) = 1 /\ Consecutive(end)
BY DEF Consecutive

LEMMA NextShown ==
  ASSUME TypeInv, NEW froms \in SUBSET Nodes, NEW goal, NEW end \in NextEnds(froms, goal)
  PROVE  /\ end[1] \in froms /\ Consecutive(end)
         /\ \/ Len(end) = 1 /\ succ[end[1]] = {}
            \/ Len(end) = 2 /\ end[2] \notin goal
<1>1. CASE end \in {<<s>> : s \in froms \cap Terminal(succ)}
  <2>1. PICK s \in froms \cap Terminal(succ) : end = <<s>>
    BY <1>1
  <2> QED
    BY <2>1 DEF Terminal, Consecutive
<1>2. CASE end \in UNION {{<<s, t>> : t \in succ[s] \ goal} : s \in froms}
  <2>1. PICK s \in froms : end \in {<<s, t>> : t \in succ[s] \ goal}
    BY <1>2
  <2>2. PICK t \in succ[s] \ goal : end = <<s, t>>
    BY <2>1
  <2>3. Len(end) = 2 /\ end[1] = s /\ end[2] = t
    BY <2>2
  <2>4. t \in steps[s]
    BY <2>2 DEF steps
  <2>5. Consecutive(end)
    BY <2>3, <2>4 DEF Consecutive
  <2> QED
    BY <2>2, <2>3, <2>5
<1> QED
  BY <1>1, <1>2 DEF NextEnds

\* What a check hands to reconstruct_trace.
Presented(end) ==
  /\ end[1] \in reachable /\ Consecutive(end) /\ Shown(formula, end)
  /\ formula.op \notin FarOps => end[1] = Root

LEMMA InvariantShown ==
  ASSUME formula.op \in {"G", "AG"}, NEW end \in InvariantEnds
  PROVE  Presented(end)
<1>1. PICK s \in reachable \ formula.p : end = <<s>>
  BY DEF InvariantEnds
<1>2. end[1] = s /\ Len(end) = 1 /\ Consecutive(end)
  BY <1>1, OneShown
<1> QED
  BY <1>1, <1>2 DEF Presented, Shown, FarOps

LEMMA DirectShown ==
  ASSUME TypeInv, SearchInv, pc = "direct", NEW end \in DirectEnds, end # << >>
  PROVE  Presented(end)
<1> USE ModelCheckerAssumption DEF Assumptions
<1>0. /\ succ \in AnyGraph /\ reachable \in SUBSET Nodes /\ IsFiniteSet(Nodes)
      /\ formula.op \in DirectOps /\ Root \in reachable /\ Root \in Nodes
  BY DEF TypeInv, TypeOK, PcInv, AnyGraph, SearchInv
<1>1. CASE formula.op = "G"
  BY <1>1, InvariantShown DEF DirectEnds
<1>2. CASE formula.op = "F"
  BY <1>2 DEF DirectEnds, ReachabilityEnds
<1>3. CASE formula.op = "X"
  <2>1. end \in NextEnds({Root}, formula.p) /\ {Root} \in SUBSET Nodes
    BY <1>0, <1>3 DEF DirectEnds
  <2> DEFINE start == {Root}
  <2>2. start \in SUBSET Nodes /\ end \in NextEnds(start, formula.p)
    BY <2>1
  <2> HIDE DEF start
  <2>3. /\ end[1] \in start /\ Consecutive(end)
        /\ \/ Len(end) = 1 /\ succ[end[1]] = {}
           \/ Len(end) = 2 /\ end[2] \notin formula.p
    BY <2>2, NextShown
  <2>4. end[1] = Root
    BY <2>3 DEF start
  <2> QED
    BY <1>0, <1>3, <2>3, <2>4 DEF Presented, Shown
<1>4. CASE formula.op = "Response"
  <2>1. PICK s \in reachable \cap formula.p : end = <<s>> /\ Reach(succ, s) \cap formula.q = {}
    BY <1>4 DEF DirectEnds, ResponseEnds
  <2>2. end[1] = s /\ Len(end) = 1 /\ Consecutive(end)
    BY <2>1, OneShown
  <2> QED
    BY <1>4, <2>1, <2>2 DEF Presented, Shown, FarOps
<1>5. CASE formula.op = "NextResponse"
  <2>1. end \in NextEnds(reachable \cap formula.p, formula.q)
    BY <1>5 DEF DirectEnds
  <2>2. reachable \cap formula.p \in SUBSET Nodes
    BY <1>0
  <2>3. /\ end[1] \in reachable \cap formula.p /\ Consecutive(end)
        /\ \/ Len(end) = 1 /\ succ[end[1]] = {}
           \/ Len(end) = 2 /\ end[2] \notin formula.q
    BY <2>1, <2>2, NextShown
  <2> QED
    BY <1>5, <2>3 DEF Presented, Shown, FarOps
<1>6. CASE formula.op = "GF"
  <2>1. \E s \in reachable : /\ end = <<s>>
                             /\ \/ Cyclic(Component(s)) /\ Component(s) \cap formula.p = {}
                                \/ s \in Terminal(succ) \ formula.p
    BY <1>6 DEF DirectEnds, RecurrenceEnds
  <2>2. PICK s \in reachable : end = <<s>> /\ s \in Stays(succ, Nodes \ formula.p)
    BY <1>0, <2>1, ComponentStays DEF Terminal
  <2>3. end[1] = s /\ Len(end) = 1 /\ Consecutive(end)
    BY <2>2, OneShown
  <2> QED
    BY <1>6, <2>2, <2>3 DEF Presented, Shown, FarOps
<1>7. CASE formula.op = "FG"
  <2>1. PICK s \in reachable \ formula.p :
          end = <<s>> /\ (Cyclic(Component(s)) \/ s \in Terminal(succ))
    BY <1>7 DEF DirectEnds, PersistenceEnds
  <2>2. s \in OnCycle(succ, Nodes) \cup Terminal(succ)
    BY <1>0, <2>1, CyclicOnCycle
  <2>3. end[1] = s /\ Len(end) = 1 /\ Consecutive(end)
    BY <2>1, OneShown
  <2> QED
    BY <1>7, <2>1, <2>2, <2>3 DEF Presented, Shown, FarOps
<1> QED
  BY <1>0, <1>1, <1>2, <1>3, <1>4, <1>5, <1>6, <1>7 DEF DirectOps

LEMMA CtlShown ==
  ASSUME TypeInv, SearchInv, formula.op \in CtlOps, NEW end \in CtlEnds, end # << >>
  PROVE  Presented(end)
<1>0. Root \in reachable
  BY DEF SearchInv
<1>1. CASE formula.op = "AG"
  BY <1>1, InvariantShown DEF CtlEnds
<1>2. CASE formula.op = "AX"
  <2>1. PICK t \in succ[Root] \ formula.p : end = <<Root, t>>
    BY <1>2 DEF CtlEnds
  <2>2. Len(end) = 2 /\ end[1] = Root /\ end[2] = t
    BY <2>1
  <2>3. t \in steps[Root]
    BY <2>1, ModelCheckerAssumption DEF steps, Assumptions
  <2>4. Consecutive(end)
    BY <2>2, <2>3 DEF Consecutive
  <2> QED
    BY <1>0, <1>2, <2>1, <2>2, <2>4 DEF Presented, Shown
<1>3. CASE formula.op \notin {"AG", "AX"}
  <2>1. end = <<Root>>
    BY <1>3 DEF CtlEnds
  <2>2. end[1] = Root /\ Consecutive(end)
    BY <1>0, <2>1, OneShown
  <2>3. Shown(formula, end)
    BY <1>3 DEF Shown, CtlOps, FixpointOps
  <2> QED
    BY <1>0, <2>2, <2>3 DEF Presented
<1> QED
  BY <1>1, <1>2, <1>3

\* What the first steps of check_until's counterexample, or the last ones of a
\* trace put together backwards, say of all of it.
LEMMA PrependShown ==
  ASSUME trace \in Seq(Nodes), trace # << >>, Consecutive(trace), Shown(formula, trace),
         NEW m \in Nodes, trace[1] \in steps[m], formula.op \notin {"X", "AX"}
  PROVE  LET t == <<m>> \o trace
         IN  t[1] = m /\ t # << >> /\ Consecutive(t) /\ Shown(formula, t)
<1> DEFINE t == <<m>> \o trace
<1>1. /\ Len(t) = Len(trace) + 1 /\ Len(trace) \in Nat /\ Len(trace) >= 1
      /\ t[1] = m /\ t # << >> /\ \A i \in 1 .. Len(trace) : t[i + 1] = trace[i]
  OBVIOUS
<1> HIDE DEF t
<1>2. Consecutive(t)
  <2> SUFFICES ASSUME NEW i \in 1 .. Len(t) - 1 PROVE t[i + 1] \in steps[t[i]]
    BY DEF Consecutive
  <2>1. i \in 1 .. Len(trace) /\ t[i + 1] = trace[i]
    BY <1>1
  <2>2. CASE i = 1
    BY <1>1, <2>1, <2>2
  <2>3. CASE i # 1
    <3>1. i - 1 \in 1 .. Len(trace) - 1 /\ (i - 1) + 1 = i
      BY <1>1, <2>1, <2>3
    <3>2. t[i] = trace[i - 1]
      BY <1>1, <3>1
    <3>3. trace[i] \in steps[trace[i - 1]]
      BY <3>1 DEF Consecutive
    <3> QED
      BY <2>1, <3>2, <3>3
  <2> QED
    BY <2>2, <2>3
<1>3. t[Len(t)] = trace[Len(trace)] /\ Len(t) > 1
  BY <1>1
<1>4. Len(trace) > 1 => t[Len(t) - 1] = trace[Len(trace) - 1]
  <2> SUFFICES ASSUME Len(trace) > 1 PROVE t[Len(t) - 1] = trace[Len(trace) - 1]
    OBVIOUS
  <2>1. Len(trace) - 1 \in 1 .. Len(trace) /\ (Len(trace) - 1) + 1 = Len(t) - 1
    BY <1>1
  <2> QED
    BY <1>1, <2>1
<1>5. Shown(formula, t)
  BY <1>3, <1>4 DEF Shown
<1> QED
  BY <1>1, <1>2, <1>5 DEF t

LEMMA AppendTrace ==
  ASSUME trace \in Seq(Nodes), trace # << >>, Consecutive(trace), NEW n \in steps[last]
  PROVE  LET t == Append(trace, n)
         IN  /\ t[1] = trace[1] /\ t # << >> /\ Len(t) = Len(trace) + 1 /\ Consecutive(t)
             /\ t[Len(t)] = n /\ \A i \in DOMAIN trace : t[i] = trace[i]
             /\ DOMAIN t = 1 .. Len(trace) + 1 /\ DOMAIN trace = 1 .. Len(trace)
<1> DEFINE t == Append(trace, n)
<1>1. /\ Len(t) = Len(trace) + 1 /\ Len(trace) \in Nat /\ Len(trace) >= 1
      /\ t # << >> /\ \A i \in 1 .. Len(trace) : t[i] = trace[i]
      /\ t[Len(trace) + 1] = n
      /\ DOMAIN t = 1 .. Len(trace) + 1 /\ DOMAIN trace = 1 .. Len(trace)
  OBVIOUS
<1> HIDE DEF t
<1>2. Consecutive(t)
  <2> SUFFICES ASSUME NEW i \in 1 .. Len(t) - 1 PROVE t[i + 1] \in steps[t[i]]
    BY DEF Consecutive
  <2>1. i \in 1 .. Len(trace) /\ t[i] = trace[i]
    BY <1>1
  <2>2. CASE i = Len(trace)
    BY <1>1, <2>1, <2>2 DEF last
  <2>3. CASE i # Len(trace)
    <3>0. i \in Nat /\ 1 <= i /\ i <= Len(trace) /\ Len(trace) \in Nat
      BY <1>1, <2>1
    <3>1. i \in 1 .. Len(trace) - 1 /\ i + 1 \in 1 .. Len(trace)
      BY <2>3, <3>0
    <3> QED
      BY <1>1, <2>1, <3>1 DEF Consecutive
  <2> QED
    BY <2>2, <2>3
<1> QED
  BY <1>1, <1>2 DEF t

\* The end of check_until's counterexample.
LEMMA UntilRefuted ==
  ASSUME formula.op = "U", UNCHANGED <<graphVars, formula>>,
         trace' \in Seq(Nodes), trace' # << >>,
         \A i \in DOMAIN trace' : trace'[i] \notin formula.q,
         \/ last' \notin formula.p \/ succ[last'] = {}
         \/ \E i \in 1 .. Len(trace') - 1 : trace'[i] = last'
  PROVE  Refuted'
<1>1. formula'.op = "U" /\ formula' = formula /\ succ' = succ
  BY DEF graphVars
<1>2. last' = trace'[Len(trace')]
  BY DEF last
<1>3. /\ Len(trace') \in DOMAIN trace'
      /\ \A i \in 1 .. Len(trace') - 1 : i \in DOMAIN trace'
  OBVIOUS
<1> DEFINE before == {trace'[i] : i \in 1 .. Len(trace') - 1}
<1>4. formula.q \cap (before \cup {last'}) = {}
  BY <1>2, <1>3
<1>5. last' \notin formula.p \/ succ[last'] = {} \/ last' \in before
  OBVIOUS
<1> QED
  BY <1>1, <1>4, <1>5 DEF Refuted

LEMMA FailTrace ==
  ASSUME formula.op \notin {"U"}, NEW end, end # << >> => Presented(end), Fail(end),
         end = << >> => trace' = << >>,
         UNCHANGED <<graphVars, formula, sat>>
  PROVE  TraceInv'
<1>1. pc' \in {"unwind", "done"} /\ verdict' = FALSE /\ trace' = end
      /\ (pc' = "done" => end = << >>)
  BY DEF Fail
<1>2. CASE end = << >>
  BY <1>1, <1>2 DEF TraceInv
<1>3. CASE end # << >>
  <2>1. Shown(formula, trace)' /\ Consecutive(trace)'
    BY <1>1, <1>3, ShownStays, ConsecutiveStays DEF Presented
  <2> QED
    BY <1>1, <1>3, <2>1 DEF TraceInv, Presented, graphVars
<1> QED
  BY <1>2, <1>3

LEMMA StepTrace ==
  TypeInv /\ SearchInv /\ JudgeInv /\ PredInv /\ TraceInv /\ [Next]_vars => TraceInv'
<1> SUFFICES ASSUME TypeInv, SearchInv, JudgeInv, PredInv, TraceInv, [Next]_vars PROVE TraceInv'
  OBVIOUS
<1> USE ModelCheckerAssumption DEF Assumptions
<1>0. trace \in Seq(Nodes) /\ reachable \in SUBSET Nodes /\ Root \in reachable
  BY DEF TypeInv, TypeOK, SearchInv
<1>1. CASE Direct
  <2>1. /\ pc = "direct" /\ formula.op # "U" /\ UNCHANGED <<graphVars, formula, sat>>
    BY <1>1 DEF Direct, TypeInv, PcInv, DirectOps
  <2>2. CASE Pass
    BY <2>2 DEF Pass, TraceInv
  <2>3. ASSUME NEW end \in DirectEnds, Fail(end) PROVE TraceInv'
    <3>1. end # << >> => Presented(end)
      BY <2>1, DirectShown
    <3> QED
      BY <2>1, <2>3, <3>1, FailTrace DEF Fail
  <2> QED
    BY <1>1, <2>2, <2>3 DEF Direct
<1>2. CASE IterateEnd
  <2>1. /\ formula.op \in CtlOps /\ formula.op # "U" /\ UNCHANGED <<graphVars, formula, sat>>
    BY <1>2 DEF IterateEnd, CtlOps, FixpointOps
  <2>2. CASE Pass
    BY <2>2 DEF Pass, TraceInv
  <2>3. ASSUME NEW end \in CtlEnds, Fail(end) PROVE TraceInv'
    <3>1. end # << >> => Presented(end)
      BY <2>1, CtlShown
    <3> QED
      BY <2>1, <2>3, <3>1, FailTrace DEF Fail
  <2> QED
    BY <1>2, <2>2, <2>3 DEF IterateEnd
<1>3. CASE Unwind
  <2>1. /\ pc = "unwind" /\ trace # << >> /\ ~ verdict /\ formula.op # "U"
        /\ UNCHANGED <<graphVars, formula, sat, verdict>> /\ Head(trace) = trace[1]
    BY <1>0, <1>3 DEF Unwind, TypeInv, PcInv, JudgeInv
  <2>2. /\ trace[1] \in reachable /\ Consecutive(trace) /\ Shown(formula, trace)
        /\ formula.op \notin FarOps => trace[1] = Root
    BY <2>1 DEF TraceInv
  <2>3. CASE trace[1] = Root \/ pred[trace[1]] = None
    <3>1. pc' = "done" /\ trace' = trace /\ trace[1] = Root
      BY <1>3, <2>1, <2>2, <2>3 DEF Unwind, PredInv
    <3>2. Shown(formula, trace)' /\ Consecutive(trace)'
      BY <2>1, <2>2, <3>1, ShownStays, ConsecutiveStays
    <3> QED
      BY <2>1, <2>2, <3>1, <3>2 DEF TraceInv, graphVars
  <2>4. CASE ~ (trace[1] = Root \/ pred[trace[1]] = None)
    <3> DEFINE m == pred[trace[1]]
    <3>1. m \in reachable /\ m \in Nodes /\ trace[1] \in steps[m]
      BY <1>0, <2>2, <2>4 DEF PredInv
    <3>2. pc' = "unwind" /\ trace' = <<m>> \o trace
      BY <1>3, <2>1, <2>4 DEF Unwind
    <3>3. formula.op \in FarOps
      BY <2>2, <2>4
    <3>4. formula.op \notin {"X", "AX"}
      BY <3>3 DEF FarOps
    <3> HIDE DEF m
    <3>5. trace'[1] = m /\ Consecutive(trace') /\ Shown(formula, trace')
      BY <1>0, <2>1, <2>2, <3>1, <3>2, <3>4, PrependShown
    <3>6. Shown(formula, trace)' /\ Consecutive(trace)'
      BY <2>1, <3>5, ShownStays, ConsecutiveStays
    <3> QED
      BY <2>1, <3>1, <3>2, <3>3, <3>5, <3>6 DEF TraceInv, graphVars
  <2> QED
    BY <2>3, <2>4
<1>4. CASE JoinEnd
  <2>1. /\ pc = "fix" /\ formula.op = "U" /\ UNCHANGED <<graphVars, formula, sat>>
    BY <1>4 DEF JoinEnd
  <2>2. CASE Root \in sat
    BY <1>4, <2>2 DEF JoinEnd, Pass, TraceInv
  <2>3. CASE Root \notin sat
    <3>1. pc' = "trace" /\ trace' = <<Root>>
      BY <1>4, <2>3 DEF JoinEnd
    <3>2. trace'[1] = Root /\ DOMAIN trace' = {1} /\ Consecutive(trace')
      BY <1>0, <3>1, OneShown
    <3>3. Consecutive(trace)'
      BY <2>1, <3>2, ConsecutiveStays
    <3> QED
      BY <1>0, <2>1, <2>3, <3>1, <3>2, <3>3 DEF TraceInv, graphVars
  <2> QED
    BY <2>2, <2>3
<1>5. ASSUME pc = "trace"
      PROVE  /\ formula.op = "U" /\ trace # << >> /\ ~ verdict
             /\ trace[1] = Root /\ Consecutive(trace)
             /\ \A i \in DOMAIN trace : trace[i] \in reachable /\ trace[i] \notin formula.q
                                                               /\ trace[i] \notin sat
             /\ DOMAIN trace = 1 .. Len(trace) /\ Len(trace) \in Nat /\ Len(trace) >= 1
             /\ last \in reachable \ sat
  <2>1. formula.op = "U" /\ trace # << >> /\ ~ verdict
    BY <1>5 DEF TypeInv, PcInv
  <2>2. /\ trace[1] = Root /\ Consecutive(trace)
        /\ \A i \in DOMAIN trace : trace[i] \in reachable \ sat
    BY <1>5 DEF TraceInv
  <2>3. reachable \cap formula.q \subseteq sat
    BY <1>5, <2>1 DEF JudgeInv
  <2>4. DOMAIN trace = 1 .. Len(trace) /\ Len(trace) \in Nat /\ Len(trace) >= 1
    BY <1>0, <2>1
  <2> QED
    BY <2>1, <2>2, <2>3, <2>4 DEF last
<1>6. CASE TraceEnd
  <2>1. /\ pc = "trace" /\ pc' = "done" /\ UNCHANGED <<graphVars, formula, sat, verdict, trace>>
        /\ last \in formula.q \/ last \notin formula.p \/ succ[last] = {}
    BY <1>6 DEF TraceEnd
  <2>2. last' = last /\ trace' = trace
    BY <2>1 DEF last
  <2>3. Refuted'
    <3>1. formula.op = "U" /\ UNCHANGED <<graphVars, formula>>
      BY <1>5, <2>1
    <3>2. /\ trace' \in Seq(Nodes) /\ trace' # << >>
          /\ \A i \in DOMAIN trace' : trace'[i] \notin formula.q
      BY <1>0, <1>5, <2>1, <2>2
    <3>3. last \notin formula.q
      BY <1>5, <2>1 DEF last
    <3>4. last' \notin formula.p \/ succ[last'] = {}
      BY <2>1, <2>2, <3>3
    <3> QED
      BY <3>1, <3>2, <3>4, UntilRefuted
  <2>4. Consecutive(trace)'
    BY <1>5, <2>1, ConsecutiveStays
  <2> QED
    BY <1>5, <2>1, <2>3, <2>4 DEF TraceInv
<1>7. ASSUME NEW n \in Nodes, TraceStep(n) PROVE TraceInv'
  <2>1. /\ pc = "trace" /\ UNCHANGED <<graphVars, formula, sat, verdict>>
        /\ last \notin formula.q /\ last \in formula.p /\ n \in succ[last]
        /\ (succ[last] \cap reachable) \ sat # {} => n \in reachable \ sat
        /\ trace' = Append(trace, n)
        /\ pc' = IF \E i \in DOMAIN trace : trace[i] = n THEN "done" ELSE "trace"
    BY <1>7 DEF TraceStep
  <2>2. n \in reachable \ sat
    <3>1. ~ CanJoin(last) /\ last \in reachable \ sat
      BY <1>0, <1>5, <2>1 DEF JudgeInv
    <3> QED
      BY <2>1, <3>1 DEF CanJoin
  <2>3. n \in steps[last]
    BY <1>0, <1>5, <2>1 DEF steps
  <2>4. /\ trace'[1] = trace[1] /\ trace' # << >> /\ Len(trace') = Len(trace) + 1
        /\ Consecutive(trace')
        /\ trace'[Len(trace')] = n /\ \A i \in DOMAIN trace : trace'[i] = trace[i]
        /\ DOMAIN trace' = 1 .. Len(trace) + 1 /\ DOMAIN trace = 1 .. Len(trace)
    BY <1>0, <1>5, <2>1, <2>3, AppendTrace
  <2>5. Consecutive(trace)'
    BY <2>1, <2>4, ConsecutiveStays
  <2>6. CASE pc' = "trace"
    <3>1. \A i \in DOMAIN trace' : trace'[i] \in reachable \ sat
      BY <1>5, <2>1, <2>2, <2>4
    <3> QED
      BY <1>5, <2>1, <2>4, <2>5, <2>6, <3>1 DEF TraceInv, graphVars
  <2>7. CASE pc' = "done"
    <3>1. PICK i \in DOMAIN trace : trace[i] = n
      BY <2>1, <2>7
    <3>2. last' = n /\ trace' \in Seq(Nodes)
      BY <1>0, <2>1, <2>4 DEF last
    <3>3. n \notin formula.q
      BY <1>5, <2>1, <3>1
    <3>4. \A j \in DOMAIN trace' : trace'[j] \notin formula.q
      <4>1. \A j \in 1 .. Len(trace) : trace'[j] \notin formula.q
        BY <1>5, <2>1, <2>4
      <4>2. trace'[Len(trace) + 1] \notin formula.q
        BY <2>4, <3>3
      <4> QED
        BY <1>5, <2>1, <2>4, <4>1, <4>2
    <3>5. i \in 1 .. Len(trace') - 1 /\ trace'[i] = last'
      BY <1>5, <2>1, <2>4, <3>1, <3>2
    <3>6. Refuted'
      BY <1>5, <2>1, <2>4, <3>2, <3>4, <3>5, UntilRefuted
    <3> QED
      BY <1>5, <2>1, <2>4, <2>5, <2>7, <3>6 DEF TraceInv
  <2> QED
    BY <2>1, <2>6, <2>7
<1>8. CASE UNCHANGED vars
  <2>1. Refuted' = Refuted /\ Shown(formula, trace)' = Shown(formula, trace)
    BY <1>8 DEF Refuted, Shown, last, vars, graphVars
  <2>2. Consecutive(trace) => Consecutive(trace)'
    BY <1>8, ConsecutiveStays DEF vars
  <2> QED
    BY <1>8, <2>1, <2>2 DEF TraceInv, vars, graphVars
<1>9. ASSUME pc' \notin {"unwind", "done", "trace"} PROVE TraceInv'
  BY <1>9 DEF TraceInv
<1>10. CASE Build \/ Report \/ Iterate \/ (\E n \in Nodes : Join(n)) \/ \E f \in Asked : Verify(f)
  <2>1. pc' \notin {"unwind", "done", "trace"}
    BY <1>10 DEF Build, Discover, NextNode, Built, Report, Iterate, Join, Verify
  <2> QED
    BY <1>9, <2>1
<1> QED
  BY <1>1, <1>2, <1>3, <1>4, <1>6, <1>7, <1>8, <1>10 DEF Next, Check

\* What the invariants say of a trace that is returned.
LEMMA TraceMeans ==
  ASSUME TypeInv, TraceInv
  PROVE  CounterexampleReal
<1> SUFFICES ASSUME pc = "done", trace # << >>
             PROVE  /\ ~ verdict /\ trace[1] = Root
                    /\ \A i \in 1 .. Len(trace) - 1 : trace[i + 1] \in steps[trace[i]]
                    /\ Refuted
  BY DEF CounterexampleReal
<1>1. CASE formula.op = "U"
  BY <1>1 DEF TraceInv, Consecutive
<1>2. CASE formula.op # "U"
  <2>1. ~ verdict /\ trace[1] = Root /\ Consecutive(trace) /\ Shown(formula, trace)
    BY <1>2 DEF TraceInv
  <2>2. Refuted
    BY <1>2, <2>1 DEF Refuted, Shown, last
  <2> QED
    BY <2>1, <2>2 DEF Consecutive
<1> QED
  BY <1>1, <1>2

\* Every counterexample is a run of the machine from its initial state whose
\* end shows the violation, for graphs and formulas of any size: breadth-first
\* predecessors lead back to the root, a cycle that check_gf and check_fg speak
\* of exists, and what check_until builds step by step avoids Q.
THEOREM CounterexampleCorrect == Spec => []CounterexampleReal
<1>1. Init => PredInv /\ TraceInv
  BY ModelCheckerAssumption DEF Init, PredInv, TraceInv, Assumptions
<1>2. TypeInv /\ TraceInv => CounterexampleReal
  BY TraceMeans
<1> QED
  BY <1>1, <1>2, JudgeInvariant, StepPred, StepTrace, PTL DEF Spec
=============================================================================
