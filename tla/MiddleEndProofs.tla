--------------------------- MODULE MiddleEndProofs ---------------------------
(***************************************************************************)
(* Proofs about the passes of MiddleEnd, for any machine and any pipeline. *)
(***************************************************************************)
EXTENDS MiddleEnd, FiniteSetTheorems, WellFoundedInduction, TLAPS

\* A set of naturals that is not empty has a least element.
LEMMA LeastNat ==
  ASSUME NEW S \in SUBSET Nat, S # {}
  PROVE  \E n \in S : \A k \in S : n <= k
<1>1. PICK n \in S : \A k \in S : ~(<<k, n>> \in OpToRel(<, Nat))
  BY NatLessThanWellFounded, WFMin
<1>2. \A k \in S : ~(k < n) BY <1>1 DEF OpToRel
<1> QED BY <1>2

\* Induction on the naturals, for sets.
LEMMA NatSet ==
  ASSUME NEW T \in SUBSET Nat, 0 \in T, \A k \in T : k + 1 \in T
  PROVE  T = Nat
<1> SUFFICES ASSUME Nat \ T # {} PROVE FALSE OBVIOUS
<1>1. PICK m \in Nat \ T : \A k \in Nat \ T : m <= k BY LeastNat
<1>2. m # 0 /\ m - 1 \in Nat /\ (m - 1) + 1 = m BY <1>1
<1>3. m - 1 \in T BY <1>1, <1>2
<1> QED BY <1>1, <1>2, <1>3

\* A function defined by recursion on 0 .. n exists.
Recurs(f, S, z, g, n) ==
  f \in [0 .. n -> S] /\ f[0] = z /\ \A k \in 1 .. n : f[k] = g[k][f[k - 1]]

LEMMA Recursion ==
  ASSUME NEW S, NEW z, z \in S, NEW g, g \in [Nat -> [S -> S]], NEW n, n \in Nat
  PROVE  \E f : Recurs(f, S, z, g, n)
<1> DEFINE Ok(m, f) == f \in [0 .. m -> S] /\ f[0] = z /\ \A k \in 1 .. m : f[k] = g[k][f[k - 1]]
           T == {m \in Nat : \E f : Ok(m, f)}
<1>1. 0 \in T
  <2>1. Ok(0, [k \in 0 .. 0 |-> z]) OBVIOUS
  <2> QED BY <2>1
<1>2. ASSUME NEW m \in T PROVE m + 1 \in T
  <2>1. m \in Nat OBVIOUS
  <2>2. PICK f : Ok(m, f) OBVIOUS
  <2> DEFINE e == [k \in 0 .. m + 1 |-> IF k = m + 1 THEN g[m + 1][f[m]] ELSE f[k]]
  <2>3. e \in [0 .. m + 1 -> S] /\ e[0] = z BY <2>1, <2>2
  <2>4. ASSUME NEW k \in 1 .. m + 1 PROVE e[k] = g[k][e[k - 1]]
    <3>1. k - 1 \in 0 .. m /\ k \in 0 .. m + 1 /\ k - 1 \in 0 .. m + 1 /\ k - 1 # m + 1 BY <2>1
    <3>2. e[k - 1] = f[k - 1] BY <3>1
    <3>3. CASE k = m + 1
      <4>1. e[k] = g[m + 1][f[m]] /\ k - 1 = m BY <2>1, <3>1, <3>3
      <4> QED BY <3>2, <3>3, <4>1
    <3>4. CASE k # m + 1
      <4>1. e[k] = f[k] /\ k \in 1 .. m BY <2>1, <3>1, <3>4
      <4>2. f[k] = g[k][f[k - 1]] BY <2>2, <4>1
      <4> QED BY <3>2, <4>1, <4>2
    <3> QED BY <3>3, <3>4
  <2> HIDE DEF e
  <2>5. Ok(m + 1, e) BY <2>3, <2>4
  <2> QED BY <2>1, <2>5
<1> HIDE DEF T
<1>3. T = Nat BY <1>1, <1>2, NatSet DEF T
<1>4. n \in T BY <1>3
<1> QED BY <1>4 DEF T, Recurs

\* What holds at the start and stays from one value to the next holds of all.
LEMMA Along ==
  ASSUME NEW S, NEW n \in Nat, NEW f, f[0] \in S,
         \A k \in 1 .. n : f[k - 1] \in S => f[k] \in S
  PROVE  \A k \in 0 .. n : f[k] \in S
<1> DEFINE T == {k \in Nat : k <= n => f[k] \in S}
<1>1. 0 \in T OBVIOUS
<1>2. ASSUME NEW k \in T PROVE k + 1 \in T
  <2>1. k + 1 <= n => k + 1 \in 1 .. n /\ (k + 1) - 1 = k /\ k <= n OBVIOUS
  <2> QED BY <2>1
<1> HIDE DEF T
<1>3. T = Nat BY <1>1, <1>2, NatSet DEF T
<1> QED BY <1>3 DEF T

LEMMA ElsConcat ==
  ASSUME NEW D, NEW q \in Seq(D), NEW r \in Seq(D)
  PROVE  Els(q \o r) = Els(q) \cup Els(r)
<1> DEFINE c == q \o r
<1>1. /\ c \in Seq(D) /\ Len(q) \in Nat /\ Len(r) \in Nat /\ Len(c) = Len(q) + Len(r)
      /\ DOMAIN q = 1 .. Len(q) /\ DOMAIN r = 1 .. Len(r) /\ DOMAIN c = 1 .. Len(c)
  OBVIOUS
<1>2. \A i \in 1 .. Len(q) : i \in 1 .. Len(c) /\ c[i] = q[i] BY <1>1
<1>3. \A i \in 1 .. Len(r) : Len(q) + i \in 1 .. Len(c) /\ c[Len(q) + i] = r[i] BY <1>1
<1>4. \A i \in 1 .. Len(c) : i \in 1 .. Len(q) \/ (i - Len(q) \in 1 .. Len(r) /\ Len(q) + (i - Len(q)) = i)
  BY <1>1
<1> HIDE DEF c
<1>5. Els(c) \subseteq Els(q) \cup Els(r)
  <2> SUFFICES ASSUME NEW i \in 1 .. Len(c) PROVE c[i] \in Els(q) \cup Els(r) BY <1>1 DEF Els
  <2>1. CASE i \in 1 .. Len(q) BY <1>1, <1>2, <2>1 DEF Els
  <2>2. CASE i \notin 1 .. Len(q)
    <3>1. i - Len(q) \in 1 .. Len(r) /\ Len(q) + (i - Len(q)) = i BY <1>4, <2>2
    <3>2. c[i] = r[i - Len(q)] BY <1>3, <3>1
    <3> QED BY <1>1, <3>1, <3>2 DEF Els
  <2> QED BY <2>1, <2>2
<1>6. Els(q) \subseteq Els(c) BY <1>1, <1>2 DEF Els
<1>7. Els(r) \subseteq Els(c)
  <2> SUFFICES ASSUME NEW i \in 1 .. Len(r) PROVE r[i] \in Els(c) BY <1>1 DEF Els
  <2>1. Len(q) + i \in DOMAIN c /\ c[Len(q) + i] = r[i] BY <1>1, <1>3
  <2> QED BY <2>1 DEF Els
<1> QED BY <1>5, <1>6, <1>7 DEF c

LEMMA ElsAppend ==
  ASSUME NEW D, NEW q \in Seq(D), NEW d \in D
  PROVE  Els(Append(q, d)) = Els(q) \cup {d}
<1> DEFINE c == Append(q, d)
           n == Len(q)
<1>1. /\ n \in Nat /\ DOMAIN q = 1 .. n /\ DOMAIN c = 1 .. n + 1
      /\ c[n + 1] = d /\ \A i \in 1 .. n : c[i] = q[i]
  OBVIOUS
<1> HIDE DEF c, n
<1>2. 1 .. n + 1 = (1 .. n) \cup {n + 1} BY <1>1
<1>3. \A x : x \in Els(c) <=> \E i \in 1 .. n + 1 : x = c[i] BY <1>1 DEF Els
<1>4. \A x : x \in Els(q) <=> \E i \in 1 .. n : x = q[i] BY <1>1 DEF Els
<1>5. \A x : x \in Els(c) <=> x \in Els(q) \/ x = d BY <1>1, <1>2, <1>3, <1>4
<1> QED BY <1>5 DEF c

LEMMA ElsIn ==
  ASSUME NEW D, NEW q \in Seq(D)
  PROVE  Els(q) \subseteq D /\ (Els(q) = {} <=> q = << >>)
<1>1. DOMAIN q = 1 .. Len(q) /\ Len(q) \in Nat /\ \A i \in DOMAIN q : q[i] \in D OBVIOUS
<1>2. ASSUME q # << >> PROVE Els(q) # {}
  <2>1. Len(q) # 0 BY <1>2
  <2>2. 1 \in DOMAIN q BY <1>1, <2>1
  <2> QED BY <2>2 DEF Els
<1>3. Els(<< >>) = {} BY DEF Els
<1> QED BY <1>1, <1>2, <1>3 DEF Els

TakeIs(at, rows, I) ==
  at = [k \in 0 .. Len(rows) |->
          IF k = 0 THEN << >>
          ELSE IF k \in I THEN Append(at[k - 1], rows[k]) ELSE at[k - 1]]

\* Take leaves the rows it is told to.
LEMMA TakeEls ==
  ASSUME NEW R, NEW rows \in Seq(R), NEW I
  PROVE  /\ Take(rows, I) \in Seq(R)
         /\ Els(Take(rows, I)) = {rows[i] : i \in DOMAIN rows \cap I}
<1> DEFINE at == CHOOSE at : TakeIs(at, rows, I)
           n == Len(rows)
           S == Seq(R)
           z == << >>
           g == [k \in Nat |-> [x \in S |-> IF k \in I /\ k \in 1 .. n
                                               THEN Append(x, rows[k]) ELSE x]]
           kept(k) == {rows[i] : i \in {i \in 1 .. k : i \in I}}
<1>1. n \in Nat /\ DOMAIN rows = 1 .. n /\ z \in S OBVIOUS
<1>2. \A x \in S : \A k \in 1 .. n : Append(x, rows[k]) \in S BY <1>1
<1>3. g \in [Nat -> [S -> S]] BY <1>1, <1>2
<1>4. \A x \in S : \A k \in 1 .. n : g[k][x] = IF k \in I THEN Append(x, rows[k]) ELSE x
  BY <1>1
<1>5. Take(rows, I) = at[n] BY DEF Take, TakeIs
<1>6. \A f : TakeIs(f, rows, I) <=>
              f = [k \in 0 .. n |-> IF k = 0 THEN z
                                    ELSE IF k \in I THEN Append(f[k - 1], rows[k]) ELSE f[k - 1]]
  BY DEF TakeIs
<1>e. \A x \in S : \A k \in 1 .. n : Els(Append(x, rows[k])) = Els(x) \cup {rows[k]}
  <2>1. \A k \in 1 .. n : rows[k] \in R BY <1>1
  <2> QED BY <2>1, ElsAppend
<1> HIDE DEF g, S, z, n
<1>a. PICK f : Recurs(f, S, z, g, n) BY <1>1, <1>3, Recursion
<1>7. f \in [0 .. n -> S] /\ f[0] = z /\ \A k \in 1 .. n : f[k] = g[k][f[k - 1]]
  BY <1>a DEF Recurs
<1>8. TakeIs(f, rows, I)
  <2> DEFINE e == [k \in 0 .. n |-> IF k = 0 THEN z
                                    ELSE IF k \in I THEN Append(f[k - 1], rows[k]) ELSE f[k - 1]]
  <2>1. ASSUME NEW k \in 0 .. n PROVE f[k] = e[k]
    <3>1. CASE k = 0 BY <1>7, <3>1
    <3>2. CASE k # 0
      <4>1. k \in 1 .. n /\ k - 1 \in 0 .. n BY <1>1, <3>2
      <4>2. f[k - 1] \in S BY <1>7, <4>1
      <4> QED BY <1>4, <1>7, <3>2, <4>1, <4>2
    <3> QED BY <3>1, <3>2
  <2>2. f = e BY <1>7, <2>1
  <2> QED BY <1>6, <2>2
<1>9. TakeIs(at, rows, I) BY <1>8
<1> HIDE DEF at
<1>10. at = [k \in 0 .. n |-> IF k = 0 THEN z
                              ELSE IF k \in I THEN Append(at[k - 1], rows[k]) ELSE at[k - 1]]
  BY <1>6, <1>9
<1> DEFINE Good == {k \in 0 .. n : at[k] \in S /\ Els(at[k]) = kept(k)}
           h == [k \in 0 .. n |-> k]
<1>11. 0 \in Good
  <2>1. 0 \in 0 .. n BY <1>1
  <2>2. at[0] = z BY <1>10, <2>1
  <2>3. Els(z) = {} /\ kept(0) = {} BY DEF Els, z
  <2> QED BY <1>1, <2>1, <2>2, <2>3
<1>12. ASSUME NEW k \in 1 .. n, k - 1 \in Good PROVE k \in Good
  <2>1. k \in 0 .. n /\ k # 0 BY <1>1
  <2>2. at[k] = IF k \in I THEN Append(at[k - 1], rows[k]) ELSE at[k - 1] BY <1>10, <2>1
  <2>3. at[k - 1] \in S /\ Els(at[k - 1]) = kept(k - 1) BY <1>12
  <2>4. 1 .. k = (1 .. (k - 1)) \cup {k} BY <1>1
  <2>5. kept(k) = IF k \in I THEN kept(k - 1) \cup {rows[k]} ELSE kept(k - 1) BY <2>4
  <2> HIDE DEF kept
  <2>6. at[k] \in S /\ Els(at[k]) = kept(k) BY <1>2, <1>e, <2>2, <2>3, <2>5
  <2> QED BY <2>1, <2>6
<1> HIDE DEF Good
<1>13. h[0] \in Good /\ \A k \in 1 .. n : h[k - 1] \in Good => h[k] \in Good
  <2>1. 0 \in 0 .. n /\ \A k \in 1 .. n : k \in 0 .. n /\ k - 1 \in 0 .. n BY <1>1
  <2> QED BY <1>11, <1>12, <2>1
<1> HIDE DEF h
<1>14. \A k \in 0 .. n : h[k] \in Good BY <1>1, <1>13, Along
<1>15. n \in Good
  <2>1. n \in 0 .. n BY <1>1
  <2> QED BY <1>14, <2>1 DEF h
<1> QED BY <1>1, <1>5, <1>15 DEF Good, S

LEMMA TakeType ==
  ASSUME NEW R, NEW rows \in Seq(R), NEW I, NEW D, \A i \in DOMAIN rows : i \in I => rows[i] \in D
  PROVE  Take(rows, I) \in Seq(D)
<1> DEFINE q == Take(rows, I)
<1>1. q \in Seq(R) /\ Els(q) \subseteq D BY TakeEls
<1> HIDE DEF q
<1>2. \A i \in 1 .. Len(q) : q[i] \in D BY <1>1 DEF Els
<1>3. q \in Seq(D) BY <1>1, <1>2
<1> QED BY <1>3 DEF q

FlattenIs(flatten, seqs) ==
  flatten = [i \in 1 .. Len(seqs) |-> IF i = 1 THEN seqs[i] ELSE flatten[i - 1] \o seqs[i]]

\* FlattenSeq puts together the elements of all.
LEMMA FlattenEls ==
  ASSUME NEW D, NEW seqs \in Seq(Seq(D))
  PROVE  /\ FlattenSeq(seqs) \in Seq(D)
         /\ Els(FlattenSeq(seqs)) = UNION {Els(seqs[i]) : i \in DOMAIN seqs}
<1> DEFINE fl == CHOOSE fl : FlattenIs(fl, seqs)
           n == Len(seqs)
           S == Seq(D)
           z == << >>
           g == [k \in Nat |-> [x \in S |-> IF k \in 1 .. n
                                               THEN IF k = 1 THEN seqs[k] ELSE x \o seqs[k]
                                               ELSE x]]
<1>1. n \in Nat /\ DOMAIN seqs = 1 .. n /\ z \in S /\ \A k \in 1 .. n : seqs[k] \in S OBVIOUS
<1>2. \A x, y \in S : x \o y \in S OBVIOUS
<1>3. n = 0 => FlattenSeq(seqs) = z BY DEF FlattenSeq
<1>4. n # 0 => FlattenSeq(seqs) = fl[n] BY DEF FlattenSeq, FlattenIs
<1>5. \A f : FlattenIs(f, seqs) <=>
              f = [k \in 1 .. n |-> IF k = 1 THEN seqs[k] ELSE f[k - 1] \o seqs[k]]
  BY DEF FlattenIs
<1> HIDE DEF S, z, n
<1>6. g \in [Nat -> [S -> S]] BY <1>1, <1>2
<1>7. \A x \in S : \A k \in 1 .. n : g[k][x] = IF k = 1 THEN seqs[k] ELSE x \o seqs[k]
  BY <1>1
<1> HIDE DEF g
<1>a. PICK f : Recurs(f, S, z, g, n) BY <1>1, <1>6, Recursion
<1>8. f \in [0 .. n -> S] /\ f[0] = z /\ \A k \in 1 .. n : f[k] = g[k][f[k - 1]]
  BY <1>a DEF Recurs
<1> DEFINE h == [k \in 1 .. n |-> f[k]]
<1>9. FlattenIs(h, seqs)
  <2> DEFINE e == [k \in 1 .. n |-> IF k = 1 THEN seqs[k] ELSE h[k - 1] \o seqs[k]]
  <2>1. ASSUME NEW k \in 1 .. n PROVE h[k] = e[k]
    <3>1. k - 1 \in 0 .. n /\ f[k - 1] \in S /\ (k # 1 => k - 1 \in 1 .. n)
      BY <1>1, <1>8
    <3>2. f[k] = IF k = 1 THEN seqs[k] ELSE f[k - 1] \o seqs[k] BY <1>7, <1>8, <3>1
    <3> QED BY <3>1, <3>2
  <2>2. h = e BY <2>1
  <2> HIDE DEF h
  <2> QED BY <1>5, <2>2
<1>10. FlattenIs(fl, seqs) BY <1>9
<1> HIDE DEF fl
<1>11. fl = [k \in 1 .. n |-> IF k = 1 THEN seqs[k] ELSE fl[k - 1] \o seqs[k]] BY <1>5, <1>10
<1> DEFINE e == [k \in 0 .. n |-> IF k = 0 THEN z ELSE fl[k]]
           up(k) == UNION {Els(seqs[i]) : i \in 1 .. k}
           Good == {k \in 0 .. n : e[k] \in S /\ Els(e[k]) = up(k)}
           id == [k \in 0 .. n |-> k]
<1>e. \A x, y \in S : Els(x \o y) = Els(x) \cup Els(y) BY ElsConcat DEF S
<1>12. 0 \in Good
  <2>1. 0 \in 0 .. n /\ e[0] = z BY <1>1
  <2>2. Els(z) = {} /\ up(0) = {} BY DEF Els, z
  <2> QED BY <1>1, <2>1, <2>2
<1>13. ASSUME NEW k \in 1 .. n, k - 1 \in Good PROVE k \in Good
  <2>1. k \in 0 .. n /\ k # 0 /\ k - 1 \in 0 .. n /\ (k # 1 => k - 1 # 0) BY <1>1
  <2>2. e[k] = fl[k] /\ (k # 1 => e[k - 1] = fl[k - 1]) BY <2>1
  <2>3. fl[k] = IF k = 1 THEN seqs[k] ELSE fl[k - 1] \o seqs[k] BY <1>11
  <2>4. e[k - 1] \in S /\ Els(e[k - 1]) = up(k - 1) /\ seqs[k] \in S BY <1>1, <1>13
  <2>5. 1 .. k = (1 .. (k - 1)) \cup {k} BY <1>1
  <2>6. up(k) = up(k - 1) \cup Els(seqs[k]) BY <2>5
  <2>7. k = 1 => up(k - 1) = {} OBVIOUS
  <2> HIDE DEF e, up
  <2>8. CASE k = 1 BY <2>1, <2>2, <2>3, <2>4, <2>6, <2>7, <2>8
  <2>9. CASE k # 1
    <3> DEFINE a == e[k - 1]
               b == seqs[k]
    <3>1. a \in S /\ b \in S /\ Els(a) = up(k - 1) BY <2>4
    <3>2. e[k] = a \o b BY <2>2, <2>3, <2>9
    <3> HIDE DEF a
    <3>3. a \o b \in S /\ Els(a \o b) = up(k) BY <1>2, <1>e, <2>6, <3>1
    <3> QED BY <2>1, <3>2, <3>3
  <2> QED BY <2>8, <2>9
<1> HIDE DEF Good
<1>14. id[0] \in Good /\ \A k \in 1 .. n : id[k - 1] \in Good => id[k] \in Good
  <2>1. 0 \in 0 .. n /\ \A k \in 1 .. n : k \in 0 .. n /\ k - 1 \in 0 .. n BY <1>1
  <2> QED BY <1>12, <1>13, <2>1
<1> HIDE DEF id
<1>15. \A k \in 0 .. n : id[k] \in Good BY <1>1, <1>14, Along
<1>16. n \in Good
  <2>1. n \in 0 .. n BY <1>1
  <2> QED BY <1>15, <2>1 DEF id
<1>17. e[n] \in S /\ Els(e[n]) = up(n) BY <1>16 DEF Good
<1>18. FlattenSeq(seqs) = e[n]
  <2>1. n \in 0 .. n BY <1>1
  <2> QED BY <1>3, <1>4, <2>1
<1> HIDE DEF e
<1> QED BY <1>1, <1>17, <1>18 DEF S

LEMMA FlattenType ==
  ASSUME NEW D, NEW seqs \in Seq(Seq(D))
  PROVE  FlattenSeq(seqs) \in Seq(D)
BY FlattenEls

\* In a strict total order of 1 .. n, every place is taken once; B[i] is what
\* comes before i.
LEMMA RankOne ==
  ASSUME NEW n \in Nat, NEW B \in [1 .. n -> SUBSET (1 .. n)],
         \A i \in 1 .. n : i \notin B[i],
         \A i, j, k \in 1 .. n : i \in B[j] /\ j \in B[k] => i \in B[k],
         \A i, j \in 1 .. n : i # j => i \in B[j] \/ j \in B[i]
  PROVE  /\ \A i \in 1 .. n : Cardinality(B[i]) \in 0 .. n - 1
         /\ \A i, j \in 1 .. n : Cardinality(B[i]) = Cardinality(B[j]) => i = j
<1> DEFINE rank == [i \in 1 .. n |-> Cardinality(B[i])]
<1>1. IsFiniteSet(1 .. n) /\ Cardinality(1 .. n) = n BY FS_Interval
<1>3. \A i \in 1 .. n : IsFiniteSet(B[i]) /\ Cardinality(B[i]) \in Nat
  BY <1>1, FS_Subset, FS_CardinalityType
<1>4. ASSUME NEW i \in 1 .. n PROVE rank[i] \in 0 .. n - 1
  <2>1. B[i] \subseteq (1 .. n) \ {i} OBVIOUS
  <2>2. IsFiniteSet((1 .. n) \ {i}) /\ Cardinality((1 .. n) \ {i}) = n - 1 BY <1>1, FS_RemoveElement
  <2>3. Cardinality(B[i]) <= n - 1 BY <2>1, <2>2, FS_Subset
  <2> QED BY <1>3, <2>3
<1>5. ASSUME NEW i \in 1 .. n, NEW j \in 1 .. n, i \in B[j] PROVE rank[i] < rank[j]
  <2>1. B[i] \cup {i} \subseteq B[j] /\ i \notin B[i] BY <1>5
  <2>2. Cardinality(B[i] \cup {i}) = Cardinality(B[i]) + 1 BY <1>3, <2>1, FS_AddElement
  <2>3. Cardinality(B[i] \cup {i}) <= Cardinality(B[j]) BY <1>3, <2>1, FS_Subset
  <2> QED BY <1>3, <2>2, <2>3
<1>6. \A i, j \in 1 .. n : rank[i] = rank[j] => i = j
  <2> SUFFICES ASSUME NEW i \in 1 .. n, NEW j \in 1 .. n, rank[i] = rank[j], i # j PROVE FALSE
    OBVIOUS
  <2>1. rank[i] < rank[j] \/ rank[j] < rank[i] BY <1>5
  <2>2. rank[i] \in Nat /\ rank[j] \in Nat BY <1>3
  <2> HIDE DEF rank
  <2> QED BY <2>1, <2>2
<1>7. \A i \in 1 .. n : rank[i] = Cardinality(B[i]) OBVIOUS
<1> HIDE DEF rank
<1> QED BY <1>4, <1>6, <1>7

LEMMA RankOnto ==
  ASSUME NEW n \in Nat, NEW B \in [1 .. n -> SUBSET (1 .. n)],
         \A i \in 1 .. n : i \notin B[i],
         \A i, j, k \in 1 .. n : i \in B[j] /\ j \in B[k] => i \in B[k],
         \A i, j \in 1 .. n : i # j => i \in B[j] \/ j \in B[i],
         NEW k \in 0 .. n - 1
  PROVE  \E i \in 1 .. n : Cardinality(B[i]) = k
<1> DEFINE rank == [i \in 1 .. n |-> Cardinality(B[i])]
<1>1. IsFiniteSet(1 .. n) /\ Cardinality(1 .. n) = n BY FS_Interval
<1>2. IsFiniteSet(0 .. n - 1) /\ Cardinality(0 .. n - 1) = n BY FS_Interval
<1>3. /\ \A i \in 1 .. n : Cardinality(B[i]) \in 0 .. n - 1
      /\ \A i, j \in 1 .. n : Cardinality(B[i]) = Cardinality(B[j]) => i = j
  BY RankOne
<1>6. rank \in [1 .. n -> 0 .. n - 1] BY <1>3
<1>7. \A i, j \in 1 .. n : rank[i] = rank[j] => i = j BY <1>3
<1>8. \A i \in 1 .. n : rank[i] = Cardinality(B[i]) OBVIOUS
<1> HIDE DEF rank
<1>9. rank \in Injection(1 .. n, 0 .. n - 1) BY <1>6, <1>7 DEF Injection, IsInjective
<1>10. rank \in Surjection(1 .. n, 0 .. n - 1) BY <1>1, <1>2, <1>9, FS_Injection
<1>11. \E i \in 1 .. n : rank[i] = k BY <1>10 DEF Surjection
<1> QED BY <1>8, <1>11

\* What stands before i when the indices of less[i] have smaller rows: they,
\* and of those that have not, the indices below i that are no larger.
Ahead(n, less) == [i \in 1 .. n |-> {j \in 1 .. n : j \in less[i] \/ (j < i /\ i \notin less[j])}]

Sorted(rows, less) ==
  [k \in 1 .. Len(rows) |-> rows[CHOOSE i \in 1 .. Len(rows) :
                                   Cardinality(Ahead(Len(rows), less)[i]) = k - 1]]

\* Sorting leaves the rows there are, when less is a strict weak order.
LEMMA SortEls ==
  ASSUME NEW D, NEW rows \in Seq(D), NEW less,
         \A i, j \in 1 .. Len(rows) : i \in less[j] => j \notin less[i],
         \A i, j, k \in 1 .. Len(rows) : i \in less[j] => i \in less[k] \/ k \in less[j]
  PROVE  Sorted(rows, less) \in Seq(D) /\ Els(Sorted(rows, less)) = Els(rows)
<1> DEFINE n == Len(rows)
           B == Ahead(n, less)
           at(k) == CHOOSE i \in 1 .. n : Cardinality(B[i]) = k - 1
<1>1. n \in Nat /\ DOMAIN rows = 1 .. n OBVIOUS
<1> HIDE DEF n
<1>2. \A i, j \in 1 .. n : i \in B[j] <=> i \in less[j] \/ (i < j /\ j \notin less[i])
  BY DEF Ahead
<1>3. B \in [1 .. n -> SUBSET (1 .. n)] BY DEF Ahead
<1> HIDE DEF B
<1>4. \A i, j, k \in 1 .. n : i \in less[j] => i \in less[k] \/ k \in less[j] BY DEF n
<1>5. \A i, j \in 1 .. n : i \in less[j] => j \notin less[i] BY DEF n
<1>6. \A i \in 1 .. n : i \notin B[i] BY <1>1, <1>2, <1>5
<1>7. \A i, j \in 1 .. n : i # j => i \in B[j] \/ j \in B[i] BY <1>1, <1>2
<1>8. ASSUME NEW i \in 1 .. n, NEW j \in 1 .. n, NEW k \in 1 .. n, i \in B[j], j \in B[k]
      PROVE  i \in B[k]
  <2>1. i \in less[j] => i \in less[k] \/ k \in less[j] BY <1>4
  <2>2. j \in less[k] => j \in less[i] \/ i \in less[k] BY <1>4
  <2>3. k \in less[i] => k \in less[j] \/ j \in less[i] BY <1>4
  <2>5. (i \in less[j] => j \notin less[i]) /\ (j \in less[k] => k \notin less[j]) BY <1>5
  <2>6. i < j /\ j < k => i < k BY <1>1
  <2> QED BY <1>2, <1>8, <2>1, <2>2, <2>3, <2>5, <2>6
<1>9. ASSUME NEW k \in 1 .. n PROVE at(k) \in 1 .. n
  <2>1. k - 1 \in 0 .. n - 1 BY <1>1
  <2>2. \E i \in 1 .. n : Cardinality(B[i]) = k - 1
    <3>1. n \in Nat /\ k - 1 \in 0 .. n - 1 BY <1>1, <2>1
    <3> HIDE DEF n
    <3> QED BY ONLY <1>3, <1>6, <1>7, <1>8, <3>1, RankOnto
  <2> QED BY <2>2
<1>10. ASSUME NEW i \in 1 .. n PROVE \E k \in 1 .. n : at(k) = i
  <2>1. /\ \A j \in 1 .. n : Cardinality(B[j]) \in 0 .. n - 1
        /\ \A j, l \in 1 .. n : Cardinality(B[j]) = Cardinality(B[l]) => j = l
    BY <1>1, <1>3, <1>6, <1>7, <1>8, RankOne
  <2> DEFINE k == Cardinality(B[i]) + 1
  <2>2. k \in 1 .. n /\ k - 1 = Cardinality(B[i]) BY <1>1, <2>1
  <2> HIDE DEF k
  <2>3. Cardinality(B[at(k)]) = k - 1 /\ at(k) \in 1 .. n BY <2>2
  <2>4. at(k) = i BY <2>1, <2>2, <2>3
  <2> QED BY <2>2, <2>4
<1> HIDE DEF at
<1> DEFINE q == [k \in 1 .. n |-> rows[at(k)]]
<1>11. \A k \in 1 .. n : rows[at(k)] \in D BY <1>1, <1>9
<1>12. q \in Seq(D) BY <1>1, <1>11
<1>13. Els(q) = {rows[i] : i \in 1 .. n}
  <2> DEFINE P == {rows[at(k)] : k \in 1 .. n}
             Q == {rows[i] : i \in 1 .. n}
  <2>1. Els(q) = P BY DEF Els
  <2>2. P \subseteq Q BY <1>9
  <2>3. \A i \in 1 .. n : rows[i] \in P BY <1>10
  <2>4. Q \subseteq P BY <2>3
  <2> HIDE DEF P, Q
  <2>5. P = Q BY <2>2, <2>4
  <2> QED BY <2>1, <2>5 DEF Q
<1>14. Els(rows) = {rows[i] : i \in 1 .. n} BY <1>1 DEF Els
<1>15. Sorted(rows, less) = q BY DEF at, n, B, Sorted
<1> HIDE DEF q
<1> QED BY <1>12, <1>13, <1>14, <1>15

-----------------------------------------------------------------------------
(* The passes come to an end.                                              *)

\* Disjoint blocks that are not empty, of the states of S.
Partition(B, S) ==
  /\ \A b \in B : b \subseteq S /\ b # {}
  /\ \A b, c \in B : b \cap c # {} => b = c

Shape(m) == DOMAIN m = {"kind", "entry", "exit", "rows"} /\ m.kind \in [Names -> Kinds]

\* What the measure needs to know: the parts of the representation, and that
\* the blocks of the minimization are blocks of the states there are.
LoopInv ==
  /\ todo \in Seq(Passes) /\ left \subseteq Names
  /\ Shape(ir)
  /\ Current("StateMinimization") /\ busy => Partition(blocks, Present(ir))

LEMMA Blocks ==
  ASSUME NEW S, IsFiniteSet(S), NEW B, Partition(B, S)
  PROVE  IsFiniteSet(B) /\ Cardinality(B) \in Nat /\ Cardinality(B) <= Cardinality(S)
<1> DEFINE f == [b \in B |-> CHOOSE s \in b : TRUE]
<1>1. \A b \in B : f[b] \in b /\ f[b] \in S BY DEF Partition
<1>2. f \in [B -> S] BY <1>1
<1>3. \A b, c \in B : f[b] = f[c] => b = c BY <1>1 DEF Partition
<1> HIDE DEF f
<1>4. f \in Injection(B, S) BY <1>2, <1>3 DEF Injection, IsInjective
<1> QED BY <1>4, FS_Injection, FS_CardinalityType

\* A round of the refinement splits blocks and puts none together.
LEMMA RefinedFiner ==
  ASSUME NEW m, NEW S, IsFiniteSet(S), NEW B, Partition(B, S)
  PROVE  /\ Partition(Refined(m, B), S)
         /\ Refined(m, B) # B => Cardinality(B) < Cardinality(Refined(m, B))
<1> DEFINE R == Refined(m, B)
           Alike(b, s) == {t \in b : Signature(m, B, t) = Signature(m, B, s)}
<1>1. R = UNION {{Alike(b, s) : s \in b} : b \in B} BY DEF Refined, Groups
<1>2. \A c \in R : \E b \in B : \E s \in b : c = Alike(b, s) BY <1>1
<1>3. \A b \in B : \A s \in b : Alike(b, s) \in R /\ s \in Alike(b, s) /\ Alike(b, s) \subseteq b
  BY <1>1
<1>4. \A b \in B : \A s, t \in b : t \in Alike(b, s) => Alike(b, t) = Alike(b, s) OBVIOUS
<1> HIDE DEF R, Alike
<1>5. \A c \in R : \E b \in B : c \subseteq b /\ c # {} BY <1>2, <1>3
<1>6. Partition(R, S)
  <2>1. \A c \in R : c \subseteq S /\ c # {} BY <1>5 DEF Partition
  <2>2. ASSUME NEW c \in R, NEW d \in R, NEW x \in c \cap d PROVE c = d
    <3>1. PICK b \in B : \E s \in b : c = Alike(b, s) BY <1>2
    <3>11. PICK s \in b : c = Alike(b, s) BY <3>1
    <3>2. PICK a \in B : \E t \in a : d = Alike(a, t) BY <1>2
    <3>21. PICK t \in a : d = Alike(a, t) BY <3>2
    <3>3. a = b BY <3>11, <3>21, <2>2, <1>3 DEF Partition
    <3>4. x \in b BY <3>11, <2>2, <1>3
    <3> QED BY <3>11, <3>21, <3>3, <3>4, <2>2, <1>4
  <2> QED BY <2>1, <2>2 DEF Partition
<1> DEFINE f == [c \in R |-> CHOOSE b \in B : c \subseteq b]
<1>7. \A c \in R : f[c] \in B /\ c \subseteq f[c] BY <1>5
<1>8. f \in [R -> B] BY <1>7
<1> HIDE DEF f
<1>9. ASSUME NEW b \in B PROVE \E c \in R : f[c] = b /\ c \subseteq b
  <2>1. PICK s \in b : TRUE BY DEF Partition
  <2>2. Alike(b, s) \in R /\ s \in Alike(b, s) /\ Alike(b, s) \subseteq b BY <1>3
  <2>3. f[Alike(b, s)] = b BY <1>7, <2>2 DEF Partition
  <2> QED BY <2>2, <2>3
<1>10. f \in Surjection(R, B) BY <1>8, <1>9 DEF Surjection
<1>11. IsFiniteSet(R) /\ IsFiniteSet(B) /\ Cardinality(R) \in Nat /\ Cardinality(B) \in Nat
  BY <1>6, Blocks
<1>12. Cardinality(B) <= Cardinality(R) /\ (Cardinality(B) = Cardinality(R) <=> f \in Injection(R, B))
  BY <1>10, <1>11, FS_Surjection
<1>13. ASSUME f \in Injection(R, B) PROVE R = B
  <2>1. ASSUME NEW b \in B PROVE b \in R
    <3>1. PICK c \in R : f[c] = b /\ c \subseteq b BY <1>9
    <3>2. ASSUME NEW t \in b PROVE t \in c
      <4>1. Alike(b, t) \in R /\ t \in Alike(b, t) /\ Alike(b, t) \subseteq b BY <1>3
      <4>2. f[Alike(b, t)] = b BY <1>7, <4>1 DEF Partition
      <4>3. Alike(b, t) = c BY <4>1, <4>2, <3>1, <1>13 DEF Injection, IsInjective
      <4> QED BY <4>1, <4>3
    <3> QED BY <3>1, <3>2
  <2>2. ASSUME NEW c \in R PROVE c \in B
    <3>1. f[c] \in R /\ f[f[c]] \in B /\ f[c] \in B /\ f[c] \subseteq f[f[c]] /\ f[c] # {}
      BY <1>7, <2>1 DEF Partition
    <3>2. f[f[c]] = f[c] BY <3>1 DEF Partition
    <3>3. f[c] = c BY <3>1, <3>2, <1>13 DEF Injection, IsInjective
    <3> QED BY <3>1, <3>3
  <2> QED BY <2>1, <2>2
<1> QED BY <1>6, <1>11, <1>12, <1>13 DEF R

LEMMA InitialPartition == ASSUME NEW m PROVE Partition(InitialBlocks(m), Present(m))
<1> DEFINE names(acts) == [k \in DOMAIN acts |-> acts[k].name]
           key(s) == IF m.kind[s] = "choice" THEN <<s>>
                     ELSE <<m.kind[s], s = Initial, names(m.entry[s]), names(m.exit[s])>>
<1>1. InitialBlocks(m) = {{t \in Present(m) : key(t) = key(s)} : s \in Present(m)}
  BY DEF InitialBlocks, Groups
<1> HIDE DEF key
<1> QED BY <1>1 DEF Partition

\* The states left once those of S are erased.
LEMMA ErasePresent ==
  ASSUME NEW m, Shape(m), NEW S
  PROVE  Shape(Erase(m, S)) /\ Present(Erase(m, S)) = Present(m) \ S
<1>1. Erase(m, S) = [m EXCEPT !.kind = [n \in Names |-> IF n \in S THEN "gone" ELSE m.kind[n]]]
  BY DEF Erase, Shape
<1> QED BY <1>1 DEF Shape, Present, Kinds

LEMMA RewrittenShape ==
  ASSUME NEW m, Shape(m), NEW p \in Passes \ Looping
  PROVE  Shape(Rewritten(p, m))
<1>1. ASSUME NEW n, Shape(n) PROVE Shape(Canonical(n)) /\ Shape(Enforced(n))
  BY <1>1 DEF Shape, Canonical, Enforced
<1>2. Shape(Pruned(m)) BY ErasePresent DEF Pruned, Shape
<1>3. Shape(FactoredIn(m)) BY DEF FactoredIn, Shape
<1>4. Shape(FactoredOut(FactoredIn(m))) BY <1>3 DEF FactoredOut, Shape
<1>5. Shape(BoundaryFused(m)) BY DEF BoundaryFused, Shape
<1>6. Shape(Chained(m)) BY ErasePresent DEF Chained, Shape
<1> QED BY <1>1, <1>2, <1>4, <1>5, <1>6 DEF Rewritten, Passes, Looping

LEMMA FusedShape ==
  ASSUME NEW m, Shape(m), NEW s
  PROVE  Shape(Fused(m, s)) /\ Present(Fused(m, s)) = Present(m) \ {s}
BY ErasePresent DEF Fused, Shape, Present

LEMMA InlinedShape ==
  ASSUME NEW m, Shape(m), NEW c
  PROVE  Shape(Inlined(m, c))
BY ErasePresent DEF Inlined, Shape

LEMMA MergedShape ==
  ASSUME NEW m, Shape(m), NEW B
  PROVE  Shape(Merged(m, B))
BY ErasePresent DEF Merged, Canonical, Shape

LEMMA PassesStay ==
  ASSUME todo \in Seq(Passes), todo # << >>
  PROVE  Tail(todo) \in Seq(Passes) /\ Len(Tail(todo)) = Len(todo) - 1 /\ Len(todo) \in Nat \ {0}
OBVIOUS

LEMMA InitLoop == Init => LoopInv
<1> SUFFICES ASSUME Init PROVE LoopInv OBVIOUS
<1>1. ir \in Machines /\ todo \in Seq(Passes) BY MiddleEndAssumption DEF Init, Sources, Pipelines
<1>2. Shape(ir) BY <1>1 DEF Machines, Shape
<1> QED BY <1>1, <1>2 DEF Init, LoopInv

LEMMA StepLoop == LoopInv /\ [Next]_vars => LoopInv'
<1> SUFFICES ASSUME LoopInv, [Next]_vars PROVE LoopInv' OBVIOUS
<1> USE DEF LoopInv
<1>1. ASSUME NEW m, Shape(m), todo # << >>, NextPass(m) PROVE LoopInv'
  BY <1>1, PassesStay DEF NextPass
<1>2. ASSUME NEW p \in Passes, Rewrite(p) PROVE LoopInv'
  BY <1>1, <1>2, RewrittenShape DEF Rewrite, Current
<1>3. CASE Reject BY <1>3 DEF Reject, passVars, Current
<1>4. CASE BeginMinimize BY <1>4, InitialPartition DEF BeginMinimize, runVars, Current, Present
<1>5. CASE Refine
  <2>1. IsFiniteSet(Present(ir)) BY MiddleEndAssumption, FS_Subset DEF Present
  <2> QED BY <1>5, <2>1, RefinedFiner DEF Refine, runVars, Current, Present
<1>6. CASE EndMinimize BY <1>1, <1>6, MergedShape DEF EndMinimize, Current
<1>7. CASE Fuse BY <1>7, FusedShape DEF Fuse, runVars, Current
<1>8. CASE EndFuse
  <2>1. Shape(Canonical(ir)) BY DEF Canonical, Shape
  <2> QED BY <1>1, <1>8, <2>1 DEF EndFuse, Current
<1>9. CASE BeginInline BY <1>9 DEF BeginInline, runVars, Current, OfKind
<1>10. ASSUME NEW c \in Names, Inline(c) PROVE LoopInv'
  BY <1>10, InlinedShape DEF Inline, runVars, Current
<1>11. CASE EndInline BY <1>1, <1>11 DEF EndInline, Current
<1>12. CASE Emit
  <2>1. Shape(Emitted(ir)) BY DEF Emitted, Shape
  <2> QED BY <1>12, <2>1 DEF Emit, Current
<1>13. CASE Refused \/ UNCHANGED vars
  <2>1. UNCHANGED <<ir, todo, busy, blocks, left, phase>>
    BY <1>13 DEF Refused, vars, passVars, runVars
  <2> QED BY <2>1 DEF Current
<1>14. ASSUME NEW e \in Events, NEW v \in SUBSET Atoms, Handle(e, v) PROVE LoopInv'
  BY <1>14 DEF Handle, passVars, Current
<1> QED
  BY <1>2, <1>3, <1>4, <1>5, <1>6, <1>7, <1>8, <1>9, <1>10, <1>11, <1>12, <1>13, <1>14
     DEF Next, Compile

\* The part of the measure that is about the current pass.
Rounds ==
  IF Current("TransitionFusion") THEN Cardinality(Present(ir))
  ELSE IF ~busy THEN Cardinality(Names) + 1
  ELSE IF Current("StateMinimization") THEN Cardinality(Names) - Cardinality(blocks)
  ELSE Cardinality(left)

LEMMA RoundsBound ==
  LoopInv => Cardinality(Names) \in Nat /\ Rounds \in 0 .. Cardinality(Names) + 1
<1> SUFFICES ASSUME LoopInv
             PROVE  Cardinality(Names) \in Nat /\ Rounds \in 0 .. Cardinality(Names) + 1
  OBVIOUS
<1>1. IsFiniteSet(Names) /\ Cardinality(Names) \in Nat BY MiddleEndAssumption, FS_CardinalityType
<1>2. /\ IsFiniteSet(Present(ir)) /\ Cardinality(Present(ir)) \in Nat
      /\ Cardinality(Present(ir)) <= Cardinality(Names)
  BY <1>1, FS_Subset, FS_CardinalityType DEF Present
<1>3. Cardinality(left) \in Nat /\ Cardinality(left) <= Cardinality(Names)
  BY <1>1, FS_Subset, FS_CardinalityType DEF LoopInv
<1>4. Current("StateMinimization") /\ busy =>
        Cardinality(blocks) \in Nat /\ Cardinality(blocks) <= Cardinality(Names)
  BY <1>2, <1>1, Blocks DEF LoopInv
<1> QED BY <1>1, <1>2, <1>3, <1>4 DEF Rounds

LEMMA DistanceIs ==
  Distance = IF phase = "passes" THEN 1 + Len(todo) * (Cardinality(Names) + 2) + Rounds ELSE 0
BY DEF Distance, Rounds

LEMMA DistanceFalls == LoopInv /\ LoopInv' /\ Compile => Distance' < Distance
<1>a. (LoopInv => Cardinality(Names) \in Nat /\ Rounds \in 0 .. Cardinality(Names) + 1)'
  BY RoundsBound, PTL
<1>b. (Distance = IF phase = "passes" THEN 1 + Len(todo) * (Cardinality(Names) + 2) + Rounds ELSE 0)'
  BY DistanceIs, PTL
<1> SUFFICES ASSUME LoopInv, LoopInv', Compile PROVE Distance' < Distance OBVIOUS
<1> DEFINE K == Cardinality(Names) + 2
<1>1. /\ K \in Nat /\ Rounds \in Nat /\ Rounds' \in Nat /\ Rounds' < K
      /\ Distance = IF phase = "passes" THEN 1 + Len(todo) * K + Rounds ELSE 0
      /\ Distance' = IF phase' = "passes" THEN 1 + Len(todo') * K + Rounds' ELSE 0
  <2>1. Cardinality(Names) \in Nat /\ Rounds \in 0 .. Cardinality(Names) + 1 BY RoundsBound
  <2>2. Rounds' \in 0 .. Cardinality(Names) + 1 BY <1>a
  <2>3. K = Cardinality(Names) + 2 OBVIOUS
  <2> HIDE DEF K
  <2>4. K \in Nat /\ Rounds \in Nat /\ Rounds' \in Nat /\ Rounds' < K BY <2>1, <2>2, <2>3
  <2>5. Distance = IF phase = "passes" THEN 1 + Len(todo) * K + Rounds ELSE 0
    BY <2>3, DistanceIs
  <2>6. Distance' = IF phase' = "passes" THEN 1 + Len(todo') * K + Rounds' ELSE 0
    BY <1>b, <2>3
  <2> QED BY <2>4, <2>5, <2>6
<1>2. Len(todo) \in Nat /\ Len(todo) * K \in Nat
  <2>1. Len(todo) \in Nat BY DEF LoopInv
  <2> HIDE DEF K
  <2> QED BY <1>1, <2>1
<1> HIDE DEF K
<1>3. ASSUME NEW m, phase = "passes", todo # << >>, NextPass(m) PROVE Distance' < Distance
  <2>1. Len(todo') = Len(todo) - 1 /\ Len(todo) \in Nat \ {0}
    BY <1>3, PassesStay DEF NextPass, LoopInv
  <2>2. (Len(todo) - 1) * K = Len(todo) * K - K BY <2>1, <1>1
  <2>3. phase' = "passes" BY <1>3 DEF NextPass, runVars
  <2> QED BY <1>1, <1>2, <1>3, <2>1, <2>2, <2>3
<1>4. ASSUME phase = "passes", phase' = "passes", todo' = todo, Rounds' < Rounds
      PROVE  Distance' < Distance
  BY <1>1, <1>2, <1>4
<1>5. ASSUME phase = "passes", phase' # "passes" PROVE Distance' < Distance
  BY <1>1, <1>2, <1>5
<1>6. ASSUME NEW p \in Passes, Rewrite(p) PROVE Distance' < Distance
  BY <1>3, <1>6 DEF Rewrite, Current
<1>7. CASE Reject BY <1>5, <1>7 DEF Reject, Current
<1>8. CASE BeginMinimize
  <2>1. Rounds' < Rounds
    <3>1. /\ Rounds = Cardinality(Names) + 1
          /\ Rounds' = Cardinality(Names) - Cardinality(blocks')
      BY <1>8 DEF BeginMinimize, Rounds, Current, runVars
    <3>2. Cardinality(blocks') \in Nat
      <4>1. IsFiniteSet(Present(ir)) BY MiddleEndAssumption, FS_Subset DEF Present
      <4> QED BY <4>1, <1>8, InitialPartition, Blocks DEF BeginMinimize
    <3> QED BY <3>1, <3>2, RoundsBound
  <2> QED BY <1>4, <1>8, <2>1 DEF BeginMinimize, Current, runVars
<1>9. CASE Refine
  <2>1. Rounds' < Rounds
    <3>1. /\ Rounds = Cardinality(Names) - Cardinality(blocks)
          /\ Rounds' = Cardinality(Names) - Cardinality(blocks')
      BY <1>9 DEF Refine, Rounds, Current, runVars
    <3>2. IsFiniteSet(Present(ir)) /\ Partition(blocks, Present(ir))
      BY <1>9, MiddleEndAssumption, FS_Subset DEF Present, LoopInv, Refine
    <3>3. Cardinality(blocks) \in Nat /\ Cardinality(blocks') \in Nat
      BY <3>2, <1>9, RefinedFiner, Blocks DEF Refine
    <3>4. Cardinality(blocks) < Cardinality(blocks') BY <3>2, <1>9, RefinedFiner DEF Refine
    <3> QED BY <3>1, <3>3, <3>4, RoundsBound
  <2> QED BY <1>4, <1>9, <2>1 DEF Refine, Current, runVars
<1>10. CASE EndMinimize BY <1>3, <1>10 DEF EndMinimize, Current
<1>11. CASE Fuse
  <2> DEFINE s == CHOOSE s \in Transient(ir) : \A t \in Transient(ir) : s <= t
  <2>1. s \in Transient(ir)
    <3>1. Transient(ir) \subseteq Nat /\ Transient(ir) # {}
      BY <1>11, MiddleEndAssumption DEF Fuse, Transient, Present
    <3>2. \E x \in Transient(ir) : \A t \in Transient(ir) : x <= t BY <3>1, LeastNat
    <3> QED BY <3>2
  <2>2. s \in Present(ir) /\ ir' = Fused(ir, s) /\ Shape(ir)
    BY <1>11, <2>1 DEF Fuse, Transient, LoopInv
  <2> HIDE DEF s
  <2>6. Present(ir') = Present(ir) \ {s} BY <2>2, FusedShape
  <2>3. IsFiniteSet(Present(ir)) /\ Cardinality(Present(ir)) \in Nat
    BY MiddleEndAssumption, FS_Subset, FS_CardinalityType DEF Present
  <2>4. Cardinality(Present(ir')) = Cardinality(Present(ir)) - 1 BY <2>2, <2>3, <2>6, FS_RemoveElement
  <2>5. Rounds = Cardinality(Present(ir)) /\ Rounds' = Cardinality(Present(ir'))
    BY <1>11 DEF Fuse, Rounds, Current, runVars, Present
  <2> QED BY <1>4, <1>11, <2>3, <2>4, <2>5 DEF Fuse, Current, runVars
<1>12. CASE EndFuse BY <1>3, <1>12 DEF EndFuse, Current
<1>13. CASE BeginInline
  <2>1. Rounds = Cardinality(Names) + 1 /\ Rounds' = Cardinality(left')
    BY <1>13 DEF BeginInline, Rounds, Current, runVars
  <2>2. Cardinality(left') <= Cardinality(Names) /\ Cardinality(left') \in Nat
    BY MiddleEndAssumption, FS_Subset, FS_CardinalityType DEF LoopInv
  <2> QED BY <1>4, <1>13, <2>1, <2>2, RoundsBound DEF BeginInline, Current, runVars
<1>14. ASSUME NEW c \in Names, Inline(c) PROVE Distance' < Distance
  <2>1. Rounds = Cardinality(left) /\ Rounds' = Cardinality(left \ {c})
    BY <1>14 DEF Inline, Rounds, Current, runVars
  <2>2. IsFiniteSet(left) /\ Cardinality(left) \in Nat
    BY MiddleEndAssumption, FS_Subset, FS_CardinalityType DEF LoopInv
  <2>3. Cardinality(left \ {c}) = Cardinality(left) - 1
    BY <1>14, <2>2, FS_RemoveElement DEF Inline
  <2> QED BY <1>4, <1>14, <2>1, <2>2, <2>3 DEF Inline, Current, runVars
<1>15. CASE EndInline BY <1>3, <1>15 DEF EndInline, Current
<1>16. CASE Emit BY <1>5, <1>16 DEF Emit
<1> QED
  BY <1>6, <1>7, <1>8, <1>9, <1>10, <1>11, <1>12, <1>13, <1>14, <1>15, <1>16 DEF Compile

\* Every pass and every round of the passes that loop brings the end closer,
\* for any machine and any pipeline: PassManager::run() returns.
THEOREM EndCorrect == Spec => ComesToAnEnd
<1>1. LoopInv /\ LoopInv' => [Compile => Distance' < Distance]_vars BY DistanceFalls
<1> QED BY <1>1, InitLoop, StepLoop, PTL DEF Spec, ComesToAnEnd

-----------------------------------------------------------------------------
(* Every pass keeps the representation well formed.                        *)

\* The rows that join states of P.
Joining(P) == {r \in Rows : r.src \in P /\ r.tgt \in P}

\* A representation the passes may meet.
Fit(m) == m \in Machines /\ WellFormed(m) /\ m.kind[Initial] = "atomic"

LEMMA FitIs ==
  ASSUME NEW m \in Machines
  PROVE  Fit(m) <=> m.rows \in Seq(Joining(Present(m))) /\ m.kind[Initial] = "atomic"
<1>1. m.rows \in Seq(Rows) BY DEF Machines
<1>2. ASSUME WellFormed(m) PROVE m.rows \in Seq(Joining(Present(m)))
  <2>1. \A i \in 1 .. Len(m.rows) : m.rows[i] \in Joining(Present(m))
    BY <1>1, <1>2 DEF WellFormed, Joining
  <2> QED BY <1>1, <2>1
<1>3. ASSUME m.rows \in Seq(Joining(Present(m))) PROVE WellFormed(m)
  BY <1>3 DEF WellFormed, Joining
<1> QED BY <1>2, <1>3 DEF Fit

\* A machine with other states and other rows.
LEMMA FitWith ==
  ASSUME NEW m, Fit(m), NEW S \in SUBSET Names, Initial \notin S,
         NEW rows \in Seq(Joining(Present(m) \ S))
  PROVE  /\ Fit([Erase(m, S) EXCEPT !.rows = rows])
         /\ Present([Erase(m, S) EXCEPT !.rows = rows]) = Present(m) \ S
<1> DEFINE n == [Erase(m, S) EXCEPT !.rows = rows]
<1>1. m \in Machines /\ m.kind[Initial] = "atomic" BY DEF Fit
<1>2. Erase(m, S) = [m EXCEPT !.kind = [x \in Names |-> IF x \in S THEN "gone" ELSE m.kind[x]]]
  BY <1>1 DEF Erase, Machines
<1>3. /\ n.kind = [x \in Names |-> IF x \in S THEN "gone" ELSE m.kind[x]]
      /\ n.entry = m.entry /\ n.exit = m.exit /\ n.rows = rows
      /\ n = [kind |-> n.kind, entry |-> n.entry, exit |-> n.exit, rows |-> n.rows]
  <2>1. m = [kind |-> m.kind, entry |-> m.entry, exit |-> m.exit, rows |-> m.rows]
    BY <1>1 DEF Machines
  <2> DEFINE K == [x \in Names |-> IF x \in S THEN "gone" ELSE m.kind[x]]
  <2>2. Erase(m, S) = [m EXCEPT !.kind = K] BY <1>2
  <2> HIDE DEF K
  <2>3. Erase(m, S) = [kind |-> K, entry |-> m.entry, exit |-> m.exit, rows |-> m.rows]
    BY <2>1, <2>2
  <2>4. n = [kind |-> K, entry |-> m.entry, exit |-> m.exit, rows |-> rows] BY <2>3
  <2>5. /\ n.kind = K /\ n.entry = m.entry /\ n.exit = m.exit /\ n.rows = rows
        /\ n = [kind |-> n.kind, entry |-> n.entry, exit |-> n.exit, rows |-> n.rows]
    BY <2>4
  <2> QED BY <2>5 DEF K
<1> HIDE DEF n
<1>4. rows \in Seq(Rows)
  <2>1. \A i \in 1 .. Len(rows) : rows[i] \in Rows BY DEF Joining
  <2> QED BY <2>1
<1>5. [x \in Names |-> IF x \in S THEN "gone" ELSE m.kind[x]] \in [Names -> Kinds]
  BY <1>1 DEF Machines, Kinds
<1>6. n \in Machines BY <1>1, <1>3, <1>4, <1>5 DEF Machines
<1>7. n.kind[Initial] = "atomic" BY <1>1, <1>3, MiddleEndAssumption
<1>8. Present(n) = Present(m) \ S BY <1>3 DEF Present
<1>9. n.rows = rows BY <1>3
<1>10. Fit(n) BY <1>6, <1>7, <1>8, <1>9, FitIs
<1> QED BY <1>8, <1>10 DEF n

\* A machine with other rows and other actions.
LEMMA FitActs ==
  ASSUME NEW m, Fit(m), NEW n \in Machines, n.kind = m.kind,
         n.rows \in Seq(Joining(Present(m)))
  PROVE  Fit(n)
<1>1. Present(n) = Present(m) BY DEF Present
<1> QED BY <1>1, FitIs DEF Fit

LEMMA FitParts ==
  ASSUME NEW m, Fit(m)
  PROVE  /\ m \in Machines /\ m.rows \in Seq(Joining(Present(m)))
         /\ Initial \in Present(m) /\ Present(m) \subseteq Names
         /\ m.kind[Initial] = "atomic"
BY FitIs, MiddleEndAssumption DEF Fit, Present

\* A machine with other rows.
LEMMA FitRows ==
  ASSUME NEW m, Fit(m), NEW rows \in Seq(Joining(Present(m)))
  PROVE  Fit([m EXCEPT !.rows = rows]) /\ [m EXCEPT !.rows = rows].kind = m.kind
<1>1. m \in Machines BY DEF Fit
<1>2. rows \in Seq(Rows)
  <2>1. \A i \in 1 .. Len(rows) : rows[i] \in Rows BY DEF Joining
  <2> QED BY <2>1
<1>3. [m EXCEPT !.rows = rows] \in Machines BY <1>1, <1>2 DEF Machines
<1>4. [m EXCEPT !.rows = rows].kind = m.kind /\ [m EXCEPT !.rows = rows].rows = rows
  BY <1>1 DEF Machines
<1> QED BY <1>3, <1>4, FitActs

LEMMA CanonicalFit ==
  ASSUME NEW m, Fit(m)
  PROVE  /\ Fit(Canonical(m)) /\ Canonical(m).kind = m.kind
         /\ Els(Canonical(m).rows) = Els(m.rows)
<1> DEFINE rows == m.rows
           D == Joining(Present(m))
           first == [s \in {rows[i].src : i \in DOMAIN rows} |->
                       CHOOSE i \in Out(m, s) : \A j \in Out(m, s) : i <= j]
           at == [i \in 1 .. Len(rows) |-> first[rows[i].src]]
           less == [i \in 1 .. Len(rows) |-> {j \in 1 .. Len(rows) :
                      \/ first[rows[j].src] < first[rows[i].src]
                      \/ rows[j].src = rows[i].src /\ Before(rows[j], rows[i])}]
           B == Ahead(Len(rows), less)
           sorted == Sorted(rows, less)
<1>1. rows \in Seq(D) /\ m \in Machines /\ DOMAIN rows = 1 .. Len(rows) BY FitParts
<1>2. \A i \in 1 .. Len(rows) : rows[i].prio \in Nat BY <1>1 DEF Joining, Rows
<1>3. ASSUME NEW i \in 1 .. Len(rows)
      PROVE  at[i] \in 1 .. Len(rows) /\ rows[at[i]].src = rows[i].src
  <2> DEFINE s == rows[i].src
             O == Out(m, s)
  <2>1. i \in O /\ O \subseteq 1 .. Len(rows) BY <1>1 DEF Out
  <2>2. O \in SUBSET Nat /\ O # {} BY <1>1, <2>1
  <2>3. \E k \in O : \A j \in O : k <= j BY <2>2, LeastNat
  <2>4. s \in {rows[j].src : j \in DOMAIN rows} BY <1>1
  <2>5. at[i] = CHOOSE k \in O : \A j \in O : k <= j BY <2>4
  <2> HIDE DEF at, O
  <2>6. at[i] \in O BY <2>3, <2>5
  <2> QED BY <2>1, <2>6 DEF O, Out
<1>4. \A i, j \in 1 .. Len(rows) : at[i] \in Nat /\ (at[i] = at[j] => rows[i].src = rows[j].src)
  <2> HIDE DEF at
  <2> QED BY <1>1, <1>3
<1>5. \A i, j \in 1 .. Len(rows) : j \in less[i] <=>
        at[j] < at[i] \/ (rows[j].src = rows[i].src /\ Before(rows[j], rows[i]))
  OBVIOUS
<1>6. \A i, j \in 1 .. Len(rows) : rows[i].src = rows[j].src => at[i] = at[j]
  <2> HIDE DEF first
  <2> QED OBVIOUS
<1> HIDE DEF at, first, rows
<1>7. StableSort(rows, LAMBDA a, b : \/ first[a.src] < first[b.src]
                                     \/ a.src = b.src /\ Before(a, b)) = sorted
  <2> DEFINE C(i) == {j \in 1 .. Len(rows) :
                   \/ \/ first[rows[j].src] < first[rows[i].src]
                      \/ rows[j].src = rows[i].src /\ Before(rows[j], rows[i])
                   \/ /\ j < i
                      /\ ~(\/ first[rows[i].src] < first[rows[j].src]
                           \/ rows[i].src = rows[j].src /\ Before(rows[i], rows[j]))}
             rank == [i \in 1 .. Len(rows) |-> Cardinality(C(i))]
  <2>1. ASSUME NEW i \in 1 .. Len(rows) PROVE C(i) = B[i] BY DEF Ahead
  <2>2. \A i \in 1 .. Len(rows) : rank[i] = Cardinality(B[i])
    <3> HIDE DEF C, B
    <3> QED BY <2>1
  <2>3. StableSort(rows, LAMBDA a, b : \/ first[a.src] < first[b.src]
                                       \/ a.src = b.src /\ Before(a, b)) =
          [k \in 1 .. Len(rows) |-> rows[CHOOSE i \in 1 .. Len(rows) : rank[i] = k - 1]]
    BY <1>1 DEF StableSort
  <2> HIDE DEF rank, B
  <2>4. \A k \in 1 .. Len(rows) : (CHOOSE i \in 1 .. Len(rows) : rank[i] = k - 1) =
                                   CHOOSE i \in 1 .. Len(rows) : Cardinality(B[i]) = k - 1
    BY <2>2
  <2> QED BY <2>3, <2>4 DEF B, Sorted
<1> HIDE DEF less
<1>8. \A i, j \in 1 .. Len(rows) : i \in less[j] => j \notin less[i]
  <2> SUFFICES ASSUME NEW i \in 1 .. Len(rows), NEW j \in 1 .. Len(rows), i \in less[j], j \in less[i]
               PROVE  FALSE
    OBVIOUS
  <2>1. at[i] \in Nat /\ at[j] \in Nat /\ rows[i].prio \in Nat /\ rows[j].prio \in Nat
    BY <1>2, <1>4
  <2>2. /\ at[i] < at[j] \/ (rows[i].src = rows[j].src /\ Before(rows[i], rows[j]))
        /\ at[j] < at[i] \/ (rows[j].src = rows[i].src /\ Before(rows[j], rows[i]))
    BY <1>5
  <2>3. rows[i].src = rows[j].src => at[i] = at[j] BY <1>6
  <2>4. Before(rows[i], rows[j]) /\ Before(rows[j], rows[i]) BY <2>1, <2>2, <2>3
  <2> QED BY <2>1, <2>4 DEF Before
<1>9. ASSUME NEW i \in 1 .. Len(rows), NEW j \in 1 .. Len(rows), NEW k \in 1 .. Len(rows),
             i \in less[j]
      PROVE  i \in less[k] \/ k \in less[j]
  <2>1. rows[i].prio \in Nat /\ rows[j].prio \in Nat /\ rows[k].prio \in Nat BY <1>2
  <2>2. at[i] \in Nat /\ at[j] \in Nat /\ at[k] \in Nat BY <1>4
  <2>3. /\ at[i] = at[j] <=> rows[i].src = rows[j].src
        /\ at[i] = at[k] <=> rows[i].src = rows[k].src
        /\ at[k] = at[j] <=> rows[k].src = rows[j].src
    BY <1>4, <1>6
  <2>4. /\ at[i] < at[j] \/ (rows[i].src = rows[j].src /\ Before(rows[i], rows[j]))
        /\ i \in less[k] <=> at[i] < at[k] \/ (rows[i].src = rows[k].src /\ Before(rows[i], rows[k]))
        /\ k \in less[j] <=> at[k] < at[j] \/ (rows[k].src = rows[j].src /\ Before(rows[k], rows[j]))
    BY <1>5, <1>9
  <2> QED BY <2>1, <2>2, <2>3, <2>4 DEF Before
<1>10. sorted \in Seq(D) /\ Els(sorted) = Els(rows) BY <1>1, <1>8, <1>9, SortEls
<1>11. Canonical(m) = [m EXCEPT !.rows = sorted] BY <1>7 DEF Canonical, first, rows
<1> HIDE DEF sorted
<1>12. Canonical(m).rows = sorted BY <1>1, <1>11 DEF Machines
<1>13. Fit(Canonical(m)) /\ Canonical(m).kind = m.kind BY <1>1, <1>10, <1>11, FitRows
<1> QED BY <1>10, <1>12, <1>13 DEF rows

LEMMA Numbers ==
  /\ Names \subseteq Nat \ {0} /\ IsFiniteSet(Names) /\ Initial \in Names
  /\ Names \in SUBSET Nat /\ Events \cup {NoEvent} \in SUBSET Nat
BY MiddleEndAssumption DEF NoEvent

\* Of two naturals in order, a third is above the first or below the second.
LEMMA Between ==
  \A x, y, z \in Nat : /\ x < y => x < z \/ z < y
                       /\ x = y => x < z \/ z < y \/ (x = z /\ z = y)
OBVIOUS

LEMMA EnforcedFit ==
  ASSUME NEW m, Fit(m)
  PROVE  /\ Fit(Enforced(m)) /\ Enforced(m).kind = m.kind
         /\ Els(Enforced(m).rows) = Els(m.rows)
<1> DEFINE rows == m.rows
           D == Joining(Present(m))
           Less(a, b) == \/ a.src < b.src
                         \/ a.src = b.src /\ a.event < b.event
                         \/ a.src = b.src /\ a.event = b.event /\ Before(a, b)
                         \/ a.src = b.src /\ a.event = b.event /\ a.prio = b.prio /\ a.tgt < b.tgt
           less == [i \in 1 .. Len(rows) |-> {j \in 1 .. Len(rows) : Less(rows[j], rows[i])}]
           B == Ahead(Len(rows), less)
<1>1. rows \in Seq(D) /\ m \in Machines /\ DOMAIN rows = 1 .. Len(rows) BY FitParts
<1>2. \A i \in 1 .. Len(rows) : /\ rows[i].src \in Nat /\ rows[i].tgt \in Nat
                                /\ rows[i].event \in Nat /\ rows[i].prio \in Nat
  <2>1. \A i \in 1 .. Len(rows) : rows[i] \in Rows BY <1>1 DEF Joining
  <2>2. ASSUME NEW r \in Rows
        PROVE  r.src \in Nat /\ r.tgt \in Nat /\ r.event \in Nat /\ r.prio \in Nat
    <3>1. r.src \in Names /\ r.tgt \in Names /\ r.event \in Events \cup {NoEvent} /\ r.prio \in Nat
      BY DEF Rows
    <3> QED BY <3>1, Numbers
  <2> QED BY <2>1, <2>2
<1>3. \A i, j \in 1 .. Len(rows) : j \in less[i] <=> Less(rows[j], rows[i])
  <2> HIDE DEF Less
  <2> QED OBVIOUS
<1> HIDE DEF rows
<1>4. StableSort(rows, Less) = Sorted(rows, less)
  <2> DEFINE C(i) == {j \in 1 .. Len(rows) : \/ Less(rows[j], rows[i])
                                             \/ j < i /\ ~Less(rows[i], rows[j])}
             rank == [i \in 1 .. Len(rows) |-> Cardinality(C(i))]
  <2>1. StableSort(rows, Less) =
          [k \in 1 .. Len(rows) |-> rows[CHOOSE i \in 1 .. Len(rows) : rank[i] = k - 1]]
    BY <1>1 DEF StableSort
  <2> HIDE DEF Less
  <2>2. ASSUME NEW i \in 1 .. Len(rows) PROVE C(i) = B[i] BY DEF Ahead
  <2>3. \A i \in 1 .. Len(rows) : rank[i] = Cardinality(B[i])
    <3> HIDE DEF C, B
    <3> QED BY <2>2
  <2> HIDE DEF rank, B
  <2>4. \A k \in 1 .. Len(rows) : (CHOOSE i \in 1 .. Len(rows) : rank[i] = k - 1) =
                                   CHOOSE i \in 1 .. Len(rows) : Cardinality(B[i]) = k - 1
    BY <2>3
  <2> QED BY <2>1, <2>4 DEF B, Sorted
<1> HIDE DEF less
<1>5. \A i, j \in 1 .. Len(rows) : i \in less[j] => j \notin less[i]
  <2> SUFFICES ASSUME NEW i \in 1 .. Len(rows), NEW j \in 1 .. Len(rows),
                      Less(rows[i], rows[j]), Less(rows[j], rows[i])
               PROVE  FALSE
    BY <1>3
  <2> DEFINE a == rows[i]
             b == rows[j]
  <2>1. /\ a.src \in Nat /\ a.tgt \in Nat /\ a.event \in Nat /\ a.prio \in Nat
        /\ b.src \in Nat /\ b.tgt \in Nat /\ b.event \in Nat /\ b.prio \in Nat
    BY <1>2
  <2>2. Less(a, b) /\ Less(b, a) OBVIOUS
  <2> HIDE DEF a, b
  <2>3. a.src = b.src /\ a.event = b.event BY <2>1, <2>2
  <2>4. \/ Before(a, b)
        \/ a.prio = b.prio /\ a.tgt < b.tgt
    BY <2>1, <2>2, <2>3
  <2>5. \/ Before(b, a)
        \/ b.prio = a.prio /\ b.tgt < a.tgt
    BY <2>1, <2>2, <2>3
  <2> HIDE DEF Less
  <2> QED BY <2>1, <2>4, <2>5 DEF Before
<1>6. ASSUME NEW i \in 1 .. Len(rows), NEW j \in 1 .. Len(rows), NEW k \in 1 .. Len(rows),
             i \in less[j]
      PROVE  i \in less[k] \/ k \in less[j]
  <2> DEFINE a == rows[i]
             b == rows[j]
             c == rows[k]
  <2>1. /\ a.src \in Nat /\ a.tgt \in Nat /\ a.event \in Nat /\ a.prio \in Nat
        /\ b.src \in Nat /\ b.tgt \in Nat /\ b.event \in Nat /\ b.prio \in Nat
        /\ c.src \in Nat /\ c.tgt \in Nat /\ c.event \in Nat /\ c.prio \in Nat
    BY <1>2
  <2>2. Less(a, b)
    <3> HIDE DEF Less
    <3> QED BY <1>3, <1>6
  <2>3. SUFFICES Less(a, c) \/ Less(c, b)
    <3> HIDE DEF Less
    <3> QED BY <1>3, <2>3
  <2> HIDE DEF a, b, c
  <2>4. a.src < b.src => a.src < c.src \/ c.src < b.src BY <2>1, Between
  <2>5. a.src = b.src => a.src < c.src \/ c.src < b.src \/ (a.src = c.src /\ c.src = b.src)
    BY <2>1, Between
  <2>6. CASE a.src < c.src \/ c.src < b.src BY <2>6
  <2>7. CASE a.src = c.src /\ c.src = b.src
    <3>1. a.event < b.event => a.event < c.event \/ c.event < b.event BY <2>1, Between
    <3>2. a.event = b.event => \/ a.event < c.event \/ c.event < b.event
                               \/ a.event = c.event /\ c.event = b.event
      BY <2>1, Between
    <3>3. CASE a.event < c.event \/ c.event < b.event BY <2>7, <3>3
    <3>4. CASE a.event = c.event /\ c.event = b.event
      <4>1. Before(a, b) \/ (a.prio = b.prio /\ a.tgt < b.tgt) BY <2>1, <2>2, <2>7, <3>4
      <4>2. \/ Before(a, c)
            \/ a.prio = c.prio /\ a.tgt < c.tgt
            \/ Before(c, b)
            \/ c.prio = b.prio /\ c.tgt < b.tgt
        <5> HIDE DEF Less
        <5>1. CASE Before(a, b)
          <6>1. a.prio # 0 /\ (b.prio = 0 \/ a.prio < b.prio) BY <5>1 DEF Before
          <6>2. CASE c.prio = 0 BY <6>1, <6>2 DEF Before
          <6>3. CASE c.prio # 0 /\ b.prio = 0 BY <6>3 DEF Before
          <6>4. CASE c.prio # 0 /\ a.prio < b.prio
            <7>1. a.prio < c.prio \/ c.prio < b.prio BY <2>1, <6>4, Between
            <7> QED BY <6>1, <6>4, <7>1 DEF Before
          <6> QED BY <6>1, <6>2, <6>3, <6>4
        <5>2. CASE a.prio = b.prio /\ a.tgt < b.tgt
          <6>1. a.tgt < c.tgt \/ c.tgt < b.tgt BY <2>1, <5>2, Between
          <6>2. CASE c.prio = a.prio BY <5>2, <6>1, <6>2
          <6>3. CASE c.prio # a.prio
            <7>1. c.prio < a.prio \/ a.prio < c.prio BY <2>1, <6>3
            <7>2. CASE a.prio = 0 BY <5>2, <6>3, <7>2 DEF Before
            <7>3. CASE c.prio = 0 BY <5>2, <6>3, <7>3 DEF Before
            <7>4. CASE a.prio # 0 /\ c.prio # 0 BY <5>2, <7>1, <7>4 DEF Before
            <7> QED BY <7>2, <7>3, <7>4
          <6> QED BY <6>2, <6>3
        <5> QED BY <4>1, <5>1, <5>2
      <4> QED BY <2>7, <3>4, <4>2
    <3>5. a.event < b.event \/ a.event = b.event BY <2>1, <2>2, <2>7
    <3> QED BY <3>1, <3>2, <3>3, <3>4, <3>5
  <2>8. a.src < b.src \/ a.src = b.src BY <2>2
  <2> QED BY <2>4, <2>5, <2>6, <2>7, <2>8
<1> DEFINE sorted == Sorted(rows, less)
<1>7. sorted \in Seq(D) /\ Els(sorted) = Els(rows) BY <1>1, <1>5, <1>6, SortEls
<1>8. Enforced(m) = [m EXCEPT !.rows = sorted] BY <1>4 DEF Enforced, rows
<1> HIDE DEF sorted
<1>9. Enforced(m).rows = sorted BY <1>1, <1>8 DEF Machines
<1>10. Fit(Enforced(m)) /\ Enforced(m).kind = m.kind BY <1>1, <1>7, <1>8, FitRows
<1> QED BY <1>7, <1>9, <1>10 DEF rows

\* A set of naturals no larger than another: the counting that ends a search.
LEMMA Subset ==
  ASSUME NEW S, IsFiniteSet(S), NEW A \in SUBSET S
  PROVE  IsFiniteSet(A) /\ Cardinality(A) \in Nat /\ Cardinality(S) \in Nat
         /\ Cardinality(A) <= Cardinality(S)
BY FS_Subset, FS_CardinalityType

\* A search that goes on from what it found for as many rounds as there are
\* places to look at has found everything, and only what it was led to.
Grows(P, next) == next \in [SUBSET P -> SUBSET P] /\ \A S \in SUBSET P : S \subseteq next[S]
Search(R, A, next, n) == R[0] = A /\ \A k \in 1 .. n : R[k] = next[R[k - 1]]

LEMMA SearchEnds ==
  ASSUME NEW P, IsFiniteSet(P), NEW n \in Nat, Cardinality(P) <= n,
         NEW next, Grows(P, next), NEW A, A \in SUBSET P, A # {} \/ next[A] = A,
         NEW R, Search(R, A, next, n)
  PROVE  R[n] \in SUBSET P /\ A \subseteq R[n] /\ next[R[n]] = R[n]
<1> USE DEF Grows, Search
<1> DEFINE Ok(S, k) == /\ S \in SUBSET P /\ A \subseteq S
                       /\ next[S] = S \/ Cardinality(S) >= k + 1
           T == {k \in Nat : k <= n => Ok(R[k], k)}
<1>1. n \in Nat OBVIOUS
<1>2. \A S \in SUBSET P : IsFiniteSet(S) /\ Cardinality(S) \in Nat /\ Cardinality(S) <= n
  BY Subset
<1>3. 0 \in T
  <2>1. A # {} => Cardinality(A) # 0 BY <1>2, FS_EmptySet
  <2> QED BY <1>2, <2>1
<1>4. ASSUME NEW k \in T PROVE k + 1 \in T
  <2> SUFFICES ASSUME k + 1 <= n PROVE Ok(R[k + 1], k + 1) OBVIOUS
  <2>1. Ok(R[k], k) /\ k \in Nat BY <1>1
  <2>2. R[k + 1] = next[R[k]]
    <3>1. k + 1 \in 1 .. n /\ (k + 1) - 1 = k BY <1>1, <2>1
    <3> QED BY <3>1
  <2> DEFINE S == R[k]
  <2> HIDE DEF S
  <2>3. S \in SUBSET P /\ next[S] \in SUBSET P /\ S \subseteq next[S] BY <2>1 DEF S
  <2>4. CASE next[S] = S BY <2>1, <2>2, <2>3, <2>4 DEF S
  <2>5. CASE next[S] # S
    <3>1. PICK x \in next[S] : x \notin S BY <2>3, <2>5
    <3>2. Cardinality(S \cup {x}) = Cardinality(S) + 1 BY <1>2, <2>3, <3>1, FS_AddElement
    <3>3. Cardinality(S \cup {x}) <= Cardinality(next[S])
      <4>1. S \cup {x} \in SUBSET next[S] BY <2>3, <3>1
      <4> QED BY <1>2, <2>3, <4>1, Subset
    <3>4. Cardinality(S) >= k + 1 BY <2>1, <2>5 DEF S
    <3>5. Cardinality(next[S]) >= k + 2 BY <1>2, <2>1, <2>3, <3>2, <3>3, <3>4
    <3> QED BY <2>1, <2>2, <2>3, <3>5 DEF S
  <2> QED BY <2>4, <2>5
<1> HIDE DEF T
<1>5. T = Nat BY <1>3, <1>4, NatSet DEF T
<1>6. Ok(R[n], n) BY <1>1, <1>5 DEF T
<1>7. next[R[n]] = R[n] BY <1>1, <1>2, <1>6
<1> QED BY <1>6, <1>7

LEMMA SearchLeast ==
  ASSUME NEW P, NEW n \in Nat, NEW next, Grows(P, next), NEW A, A \in SUBSET P,
         NEW R, Search(R, A, next, n),
         NEW Z, A \subseteq Z, \A S \in SUBSET P : S \subseteq Z => next[S] \subseteq Z
  PROVE  R[n] \subseteq Z
<1>1. R[0] \in SUBSET (P \cap Z) BY DEF Search
<1>2. ASSUME NEW k \in 1 .. n, R[k - 1] \in SUBSET (P \cap Z) PROVE R[k] \in SUBSET (P \cap Z)
  BY <1>2 DEF Search, Grows
<1>3. \A k \in 0 .. n : R[k] \in SUBSET (P \cap Z) BY <1>1, <1>2, Along
<1> QED BY <1>3

LEMMA OneRowType ==
  ASSUME NEW m, Fit(m), NEW S
  PROVE  OneRow(m, S) \subseteq Present(m)
<1>1. m.rows \in Seq(Joining(Present(m))) BY FitParts
<1>2. \A i \in DOMAIN m.rows : m.rows[i].tgt \in Present(m) BY <1>1 DEF Joining
<1> QED BY <1>2 DEF OneRow

ReachedIs(R, m) ==
  R = [k \in 0 .. Cardinality(Names) |->
         IF k = 0 THEN {Initial} ELSE LET S == R[k - 1] IN S \cup OneRow(m, S)]

LEMMA ReachedType ==
  ASSUME NEW m, Fit(m)
  PROVE  /\ Reached(m) \subseteq Present(m) /\ Initial \in Reached(m)
         /\ OneRow(m, Reached(m)) \subseteq Reached(m)
         /\ \A Z : Initial \in Z /\ OneRow(m, Z) \subseteq Z => Reached(m) \subseteq Z
<1> DEFINE n == Cardinality(Names)
           P == Present(m)
           R == CHOOSE R : ReachedIs(R, m)
           next == [S \in SUBSET P |-> S \cup OneRow(m, S)]
           S == SUBSET P
           z == {Initial}
           g == [k \in Nat |-> next]
<1>1. n \in Nat BY MiddleEndAssumption, FS_CardinalityType
<1>2. P \subseteq Names /\ Initial \in P BY FitParts
<1>3. next \in [S -> S] BY OneRowType
<1>4. \A A \in S : next[A] = A \cup OneRow(m, A) OBVIOUS
<1>5. Reached(m) = R[n] BY DEF Reached, ReachedIs
<1>6. \A f : ReachedIs(f, m) <=>
              f = [k \in 0 .. n |-> IF k = 0 THEN z ELSE f[k - 1] \cup OneRow(m, f[k - 1])]
  BY DEF ReachedIs
<1> HIDE DEF next
<1>7. z \in S /\ g \in [Nat -> [S -> S]] BY <1>2, <1>3
<1>8. \A k \in Nat : g[k] = next OBVIOUS
<1> HIDE DEF g, n, S, z, P
<1>9. PICK f : Recurs(f, S, z, g, n) BY <1>1, <1>7, Recursion
<1>10. f \in [0 .. n -> S] /\ f[0] = z /\ \A k \in 1 .. n : f[k] = next[f[k - 1]]
  BY <1>1, <1>8, <1>9 DEF Recurs
<1>11. ReachedIs(f, m)
  <2> DEFINE e == [k \in 0 .. n |-> IF k = 0 THEN z ELSE f[k - 1] \cup OneRow(m, f[k - 1])]
  <2>1. ASSUME NEW k \in 0 .. n PROVE f[k] = e[k]
    <3>1. CASE k = 0 BY <1>10, <3>1
    <3>2. CASE k # 0
      <4>1. k \in 1 .. n /\ k - 1 \in 0 .. n BY <1>1, <3>2
      <4>2. f[k - 1] \in S BY <1>10, <4>1
      <4> QED BY <1>4, <1>10, <3>2, <4>1, <4>2
    <3> QED BY <3>1, <3>2
  <2>2. f = e BY <1>10, <2>1
  <2> QED BY <1>6, <2>2
<1>12. ReachedIs(R, m) BY <1>11
<1> HIDE DEF R
<1>13. R = [k \in 0 .. n |-> IF k = 0 THEN z ELSE R[k - 1] \cup OneRow(m, R[k - 1])]
  BY <1>6, <1>12
<1>14. R[0] = z
  <2>1. 0 \in 0 .. n BY <1>1
  <2> QED BY <1>13, <2>1
<1>15. ASSUME NEW k \in 1 .. n PROVE R[k] = R[k - 1] \cup OneRow(m, R[k - 1])
  <2>1. k \in 0 .. n /\ k # 0 BY <1>1
  <2> QED BY <1>13, <2>1
<1>16. ASSUME NEW k \in 1 .. n, R[k - 1] \in S PROVE R[k] \in S
  <2>1. R[k] = next[R[k - 1]] BY <1>4, <1>15, <1>16
  <2> QED BY <1>3, <1>16, <2>1
<1>17. \A k \in 0 .. n : R[k] \in S BY <1>1, <1>7, <1>14, <1>16, Along
<1>18. ASSUME NEW k \in 1 .. n PROVE R[k] = next[R[k - 1]]
  <2>1. k - 1 \in 0 .. n BY <1>1
  <2> QED BY <1>4, <1>15, <1>17, <2>1
<1>19. \A A \in S : A \subseteq next[A] BY <1>4
<1>20. P \in SUBSET Names /\ z \in SUBSET P /\ z # {} BY <1>2 DEF z
<1>201. Grows(P, next) BY <1>3, <1>19 DEF S, Grows
<1>202. Search(R, z, next, n) BY <1>14, <1>18 DEF Search
<1>203. IsFiniteSet(P) /\ Cardinality(P) <= n
  BY <1>2, MiddleEndAssumption, FS_Subset DEF n
<1>21. R[n] \in SUBSET P /\ z \subseteq R[n] /\ next[R[n]] = R[n]
  BY <1>1, <1>20, <1>201, <1>202, <1>203, SearchEnds
<1>22. R[n] = R[n] \cup OneRow(m, R[n]) BY <1>4, <1>21 DEF S
<1>23. ASSUME NEW Z, Initial \in Z, OneRow(m, Z) \subseteq Z PROVE R[n] \subseteq Z
  <2>1. \A A \in SUBSET P : A \subseteq Z => next[A] \subseteq Z
    <3>1. \A A : A \subseteq Z => OneRow(m, A) \subseteq OneRow(m, Z) BY DEF OneRow
    <3> QED BY <1>4, <1>23, <3>1 DEF S
  <2>2. z \subseteq Z BY <1>23 DEF z
  <2> QED BY <1>1, <1>20, <1>201, <1>202, <2>1, <2>2, SearchLeast
<1> QED BY <1>5, <1>21, <1>22, <1>23 DEF z, P

LEMMA PrunedFit ==
  ASSUME NEW m, Fit(m)
  PROVE  Fit(Pruned(m))
<1> DEFINE U == Unreached(m)
           I == {i \in DOMAIN m.rows : m.rows[i].guard # FalseGuard /\ m.rows[i].src \in Reached(m)}
           rows == Take(m.rows, I)
<1>1. U \in SUBSET Names /\ Initial \notin U BY ReachedType, FitParts DEF Unreached
<1>2. m.rows \in Seq(Joining(Present(m))) /\ m \in Machines BY FitParts
<1>3. ASSUME NEW i \in DOMAIN m.rows, i \in I PROVE m.rows[i] \in Joining(Present(m) \ U)
  <2>1. m.rows[i].tgt \in OneRow(m, Reached(m)) BY <1>3 DEF OneRow
  <2>2. m.rows[i].src \in Reached(m) /\ m.rows[i].tgt \in Reached(m) BY <1>3, <2>1, ReachedType
  <2>3. Reached(m) \subseteq Present(m) \ U BY ReachedType DEF Unreached
  <2>4. m.rows[i] \in Rows BY <1>2 DEF Joining
  <2> QED BY <2>2, <2>3, <2>4 DEF Joining
<1> HIDE DEF I, U
<1>4. rows \in Seq(Joining(Present(m) \ U)) BY <1>2, <1>3, TakeType
<1>5. Fit([Erase(m, U) EXCEPT !.rows = rows]) BY <1>1, <1>4, FitWith
<1>6. Erase(m, U).rows = m.rows
  <2>1. m = [kind |-> m.kind, entry |-> m.entry, exit |-> m.exit, rows |-> m.rows]
    BY <1>2 DEF Machines
  <2> QED BY <2>1 DEF Erase
<1>7. Pruned(m) = [Erase(m, U) EXCEPT !.rows = rows] BY <1>6 DEF Pruned, U, I
<1> QED BY <1>5, <1>7

\* A machine with other rows, and other actions at its states.
LEMMA FitActing ==
  ASSUME NEW m, Fit(m), NEW rows, rows \in Seq(Joining(Present(m))),
         NEW entry, entry \in [Names -> Seq(Actions)], NEW exit, exit \in [Names -> Seq(Actions)],
         NEW n, n = [kind |-> m.kind, entry |-> entry, exit |-> exit, rows |-> rows]
  PROVE  Fit(n)
<1>1. m \in Machines BY DEF Fit
<1>2. rows \in Seq(Rows)
  <2>1. \A i \in 1 .. Len(rows) : rows[i] \in Rows BY DEF Joining
  <2> QED BY <2>1
<1>3. n \in Machines BY <1>1, <1>2 DEF Machines
<1>4. n.kind = m.kind /\ n.rows = rows OBVIOUS
<1> QED BY <1>3, <1>4, FitActs

LEMMA Parts ==
  ASSUME NEW m \in Machines
  PROVE  /\ m = [kind |-> m.kind, entry |-> m.entry, exit |-> m.exit, rows |-> m.rows]
         /\ m.kind \in [Names -> Kinds] /\ m.rows \in Seq(Rows)
         /\ m.entry \in [Names -> Seq(Actions)] /\ m.exit \in [Names -> Seq(Actions)]
BY DEF Machines

LEMMA NoActionType == NoAction \in Actions
BY DEF NoAction, Actions, Steps

LEMMA ActionParts ==
  ASSUME NEW a \in Actions
  PROVE  a = [name |-> a.name, code |-> a.code] /\ a.name \in Seq(STRING) /\ a.code \in Seq(Steps)
BY DEF Actions

\* Several actions make one.
LEMMA ComposedType ==
  ASSUME NEW acts, acts \in Seq(Actions)
  PROVE  Composed(acts) \in Actions
<1> DEFINE n == Len(acts)
           names == [k \in 1 .. n |-> acts[k].name]
           codes == [k \in 1 .. n |-> acts[k].code]
<1>1. n \in Nat /\ DOMAIN acts = 1 .. n OBVIOUS
<1>2. \A k \in 1 .. n : acts[k].name \in Seq(STRING) /\ acts[k].code \in Seq(Steps)
  <2>1. \A k \in 1 .. n : acts[k] \in Actions OBVIOUS
  <2> QED BY <2>1, ActionParts
<1> HIDE DEF n
<1>3. names \in [1 .. n -> Seq(STRING)] /\ codes \in [1 .. n -> Seq(Steps)] BY <1>2
<1>4. names \in Seq(Seq(STRING)) /\ codes \in Seq(Seq(Steps)) BY <1>1, <1>3
<1>5. Composed(acts) = [name |-> FlattenSeq(names), code |-> FlattenSeq(codes)]
  BY <1>1 DEF Composed
<1> HIDE DEF names, codes
<1>6. FlattenSeq(names) \in Seq(STRING) /\ FlattenSeq(codes) \in Seq(Steps) BY <1>4, FlattenType
<1> QED BY <1>5, <1>6 DEF Actions

LEMMA JoinedActs == \A x, y \in Seq(Actions) : x \o y \in Seq(Actions)
OBVIOUS

LEMMA OneAct == \A a \in Actions : <<a>> \in Seq(Actions)
OBVIOUS

LEMMA SharedType ==
  ASSUME NEW m, m \in Machines, NEW I, I \in SUBSET DOMAIN m.rows, Shared(m, I)
  PROVE  SharedAct(m, I) \in Actions
<1>1. I # {}
  <2>1. I = {} => Cardinality(I) = 0 BY FS_EmptySet
  <2> QED BY <2>1 DEF Shared
<1>2. (CHOOSE i \in I : TRUE) \in DOMAIN m.rows BY <1>1
<1>3. m.rows \in Seq(Rows) BY DEF Machines
<1>4. m.rows[CHOOSE i \in I : TRUE] \in Rows
  <2> DEFINE i == CHOOSE i \in I : TRUE
  <2> HIDE DEF i
  <2> QED BY <1>2, <1>3 DEF i
<1> QED BY <1>4 DEF SharedAct, Rows

LEMMA RowParts ==
  ASSUME NEW r \in Rows
  PROVE  /\ r = [src |-> r.src, event |-> r.event, guard |-> r.guard, prio |-> r.prio,
                 tgt |-> r.tgt, act |-> r.act]
         /\ r.src \in Names /\ r.event \in Events \cup {NoEvent} /\ r.guard \in SUBSET Literals
         /\ r.prio \in Nat /\ r.tgt \in Names /\ r.act \in Actions
BY DEF Rows

\* A row with another action.
LEMMA RowWith ==
  ASSUME NEW r \in Rows, NEW a
  PROVE  /\ [r EXCEPT !.act = a].src = r.src /\ [r EXCEPT !.act = a].tgt = r.tgt
         /\ a \in Actions => [r EXCEPT !.act = a] \in Rows
<1>1. [r EXCEPT !.act = a] = [src |-> r.src, event |-> r.event, guard |-> r.guard,
                              prio |-> r.prio, tgt |-> r.tgt, act |-> a]
  BY RowParts
<1>2. a \in Actions => [r EXCEPT !.act = a] \in Rows BY <1>1, RowParts DEF Rows
<1> QED BY <1>1, <1>2

LEMMA BareType ==
  ASSUME NEW P, NEW rows, rows \in Seq(Joining(P)), NEW I
  PROVE  Bare(rows, I) \in Seq(Joining(P))
<1>1. ASSUME NEW r \in Joining(P) PROVE [r EXCEPT !.act = NoAction] \in Joining(P)
  BY RowParts, RowWith, NoActionType DEF Joining
<1>2. \A i \in 1 .. Len(rows) : rows[i] \in Joining(P) OBVIOUS
<1>3. DOMAIN rows = 1 .. Len(rows) /\ Len(rows) \in Nat OBVIOUS
<1> DEFINE bare == [i \in 1 .. Len(rows) |-> IF i \in I THEN [rows[i] EXCEPT !.act = NoAction]
                                                        ELSE rows[i]]
<1>4. \A i \in 1 .. Len(rows) : bare[i] \in Joining(P) BY <1>1, <1>2
<1>5. bare \in [1 .. Len(rows) -> Joining(P)] BY <1>4
<1>6. bare \in Seq(Joining(P)) BY <1>3, <1>5
<1> QED BY <1>3, <1>6 DEF Bare

LEMMA FactoredInFit ==
  ASSUME NEW m, Fit(m)
  PROVE  Fit(FactoredIn(m))
<1> DEFINE S == {s \in OfKind(m, {"atomic"}) \ {Initial} : Shared(m, In(m, s))}
           rows == Bare(m.rows, UNION {In(m, s) : s \in S})
           entry == [s \in Names |-> IF s \in S THEN <<SharedAct(m, In(m, s))>> \o m.entry[s]
                                     ELSE m.entry[s]]
<1>1. m \in Machines /\ rows \in Seq(Joining(Present(m))) BY FitParts, BareType
<1>2. ASSUME NEW s \in Names PROVE entry[s] \in Seq(Actions)
  <2>1. m.entry[s] \in Seq(Actions) BY <1>1, Parts
  <2>2. CASE s \in S
    <3>1. Shared(m, In(m, s)) /\ In(m, s) \in SUBSET DOMAIN m.rows BY <2>2 DEF In
    <3>2. SharedAct(m, In(m, s)) \in Actions BY <1>1, <3>1, SharedType
    <3>3. entry[s] = <<SharedAct(m, In(m, s))>> \o m.entry[s] BY <2>2
    <3> HIDE DEF entry
    <3> QED BY <2>1, <3>2, <3>3, OneAct, JoinedActs
  <2>3. CASE s \notin S BY <2>1, <2>3
  <2> QED BY <2>2, <2>3
<1>3. entry \in [Names -> Seq(Actions)] BY <1>2
<1>4. FactoredIn(m) = [m EXCEPT !.entry = entry, !.rows = rows] BY DEF FactoredIn
<1> HIDE DEF entry, rows
<1>5. FactoredIn(m) = [kind |-> m.kind, entry |-> entry, exit |-> m.exit, rows |-> rows]
  <2>1. m = [kind |-> m.kind, entry |-> m.entry, exit |-> m.exit, rows |-> m.rows] BY <1>1, Parts
  <2> QED BY <1>4, <2>1
<1> QED BY <1>1, <1>3, <1>5, FitActing, Parts

LEMMA FactoredOutFit ==
  ASSUME NEW m, Fit(m)
  PROVE  Fit(FactoredOut(m))
<1> DEFINE S == {s \in OfKind(m, {"atomic"}) : Shared(m, Out(m, s))}
           rows == Bare(m.rows, UNION {Out(m, s) : s \in S})
           exit == [s \in Names |-> IF s \in S THEN m.exit[s] \o <<SharedAct(m, Out(m, s))>>
                                    ELSE m.exit[s]]
<1>1. m \in Machines /\ rows \in Seq(Joining(Present(m))) BY FitParts, BareType
<1>2. ASSUME NEW s \in Names PROVE exit[s] \in Seq(Actions)
  <2>1. m.exit[s] \in Seq(Actions) BY <1>1, Parts
  <2>2. CASE s \in S
    <3>1. Shared(m, Out(m, s)) /\ Out(m, s) \in SUBSET DOMAIN m.rows BY <2>2 DEF Out
    <3>2. SharedAct(m, Out(m, s)) \in Actions BY <1>1, <3>1, SharedType
    <3>3. exit[s] = m.exit[s] \o <<SharedAct(m, Out(m, s))>> BY <2>2
    <3> HIDE DEF exit
    <3> QED BY <2>1, <3>2, <3>3, OneAct, JoinedActs
  <2>3. CASE s \notin S BY <2>1, <2>3
  <2> QED BY <2>2, <2>3
<1>3. exit \in [Names -> Seq(Actions)] BY <1>2
<1>4. FactoredOut(m) = [m EXCEPT !.exit = exit, !.rows = rows] BY DEF FactoredOut
<1> HIDE DEF exit, rows
<1>5. FactoredOut(m) = [kind |-> m.kind, entry |-> m.entry, exit |-> exit, rows |-> rows]
  <2>1. m = [kind |-> m.kind, entry |-> m.entry, exit |-> m.exit, rows |-> m.rows] BY <1>1, Parts
  <2> QED BY <1>4, <2>1
<1> QED BY <1>1, <1>3, <1>5, FitActing, Parts

LEMMA BoundaryActType ==
  ASSUME NEW m \in Machines, NEW r \in Rows
  PROVE  BoundaryAct(m, r) \in Actions
<1>1. r.src \in Names /\ r.tgt \in Names /\ r.act \in Actions BY RowParts
<1>2. m.exit[r.src] \in Seq(Actions) /\ m.entry[r.tgt] \in Seq(Actions) BY <1>1, Parts
<1> DEFINE acts == m.exit[r.src] \o <<r.act>> \o m.entry[r.tgt]
           name == IF r.act = NoAction THEN <<FusedName[<<r.src, r.tgt>>]>> ELSE r.act.name
<1>3. acts \in Seq(Actions) BY <1>1, <1>2, OneAct, JoinedActs
<1>4. name \in Seq(STRING)
  <2>1. r.act.name \in Seq(STRING) BY <1>1, ActionParts
  <2>2. FusedName[<<r.src, r.tgt>>] \in STRING
    <3>1. <<r.src, r.tgt>> \in Names \X Names BY <1>1
    <3> QED BY <3>1, MiddleEndAssumption
  <2>3. <<FusedName[<<r.src, r.tgt>>]>> \in Seq(STRING) BY <2>2
  <2> QED BY <2>1, <2>3
<1>5. BoundaryAct(m, r) = [name |-> name, code |-> Composed(acts).code] BY DEF BoundaryAct
<1> HIDE DEF acts, name
<1>6. Composed(acts).code \in Seq(Steps) BY <1>3, ComposedType, ActionParts
<1> QED BY <1>4, <1>5, <1>6 DEF Actions

LEMMA BoundaryRow ==
  ASSUME NEW m, Fit(m), NEW i \in DOMAIN m.rows
  PROVE  /\ DOMAIN BoundaryRows(m) = DOMAIN m.rows
         /\ \E a \in Actions : BoundaryRows(m)[i] = [m.rows[i] EXCEPT !.act = a]
<1>1. m \in Machines /\ m.rows \in Seq(Joining(Present(m))) BY FitParts
<1>2. m.rows[i] \in Joining(Present(m)) BY <1>1
<1>3. m.rows[i] \in Rows BY <1>2 DEF Joining
<1>4. BoundaryAct(m, m.rows[i]) \in Actions BY <1>1, <1>3, BoundaryActType
<1>5. m.rows[i].act \in Actions BY <1>3, RowParts
<1>6. m.rows[i] = [m.rows[i] EXCEPT !.act = m.rows[i].act] BY <1>3, RowParts
<1>7. CASE i \in Touched(m)
  <2>1. BoundaryRows(m)[i] = [m.rows[i] EXCEPT !.act = BoundaryAct(m, m.rows[i])]
    BY <1>7 DEF BoundaryRows
  <2> QED BY <1>4, <2>1 DEF BoundaryRows
<1>8. CASE i \notin Touched(m)
  <2>1. BoundaryRows(m)[i] = m.rows[i] BY <1>8 DEF BoundaryRows
  <2> QED BY <1>5, <1>6, <2>1 DEF BoundaryRows
<1> QED BY <1>7, <1>8

LEMMA BoundaryFusedFit ==
  ASSUME NEW m, Fit(m)
  PROVE  Fit(BoundaryFused(m))
<1> DEFINE n == Len(m.rows)
           D == Joining(Present(m))
           T == Touched(m)
           rows == BoundaryRows(m)
           exit == [s \in Names |-> IF Out(m, s) \cap T # {} THEN << >> ELSE m.exit[s]]
           entry == [s \in Names |-> IF In(m, s) \cap T # {} THEN << >> ELSE m.entry[s]]
<1>1. m \in Machines /\ m.rows \in Seq(D) /\ n \in Nat /\ DOMAIN m.rows = 1 .. n BY FitParts
<1>2. exit \in [Names -> Seq(Actions)] /\ entry \in [Names -> Seq(Actions)]
  <2> HIDE DEF T
  <2>1. << >> \in Seq(Actions) OBVIOUS
  <2> QED BY <1>1, <2>1, Parts
<1>3. ASSUME NEW i \in 1 .. n PROVE rows[i] \in D
  <2>1. m.rows[i] \in D /\ m.rows[i] \in Rows BY <1>1 DEF Joining
  <2>2. PICK a \in Actions : rows[i] = [m.rows[i] EXCEPT !.act = a] BY <1>1, BoundaryRow
  <2> HIDE DEF rows
  <2>3. [m.rows[i] EXCEPT !.act = a] \in D BY <2>1, RowWith DEF Joining
  <2> QED BY <2>2, <2>3
<1>4. rows \in Seq(D)
  <2>1. rows = [i \in 1 .. n |-> rows[i]] BY <1>1 DEF BoundaryRows
  <2> HIDE DEF rows, D
  <2>2. rows \in [1 .. n -> D] BY <1>3, <2>1
  <2> QED BY <1>1, <2>2
<1>5. BoundaryFused(m) = [m EXCEPT !.rows = rows, !.exit = exit, !.entry = entry]
  BY DEF BoundaryFused
<1> HIDE DEF exit, entry, rows, n
<1>6. BoundaryFused(m) = [kind |-> m.kind, entry |-> entry, exit |-> exit, rows |-> rows]
  <2>1. m = [kind |-> m.kind, entry |-> m.entry, exit |-> m.exit, rows |-> m.rows] BY <1>1, Parts
  <2> QED BY <1>5, <2>1
<1> QED BY <1>2, <1>4, <1>6, FitActing

\* The row that stands for two runs from the first to the second.
LEMMA CompoundType ==
  ASSUME NEW P, NEW Q, NEW a \in Rows, NEW b \in Rows, a.src \in P, b.tgt \in P
  PROVE  /\ Compound(a, b) \in Joining(P)
         /\ Compound(a, b).src = a.src /\ Compound(a, b).tgt = b.tgt
<1>1. /\ a.src \in Names /\ a.event \in Events \cup {NoEvent} /\ a.guard \in SUBSET Literals
      /\ a.prio \in Nat /\ a.tgt \in Names /\ a.act \in Actions
  BY DEF Rows
<1>2. /\ b.src \in Names /\ b.event \in Events \cup {NoEvent} /\ b.guard \in SUBSET Literals
      /\ b.prio \in Nat /\ b.tgt \in Names /\ b.act \in Actions
  BY DEF Rows
<1>3. Composed(<<a.act, b.act>>) \in Actions /\ a.guard \cup b.guard \in SUBSET Literals
  <2>1. <<a.act, b.act>> \in Seq(Actions) BY <1>1, <1>2
  <2> QED BY <1>1, <1>2, <2>1, ComposedType
<1>4. Compound(a, b) \in Rows BY <1>1, <1>2, <1>3 DEF Compound, Rows
<1>5. Compound(a, b).src = a.src /\ Compound(a, b).tgt = b.tgt BY DEF Compound
<1> QED BY <1>4, <1>5 DEF Joining

\* Rows that neither come from s nor lead to it.
LEMMA WithoutType ==
  ASSUME NEW m, Fit(m), NEW s
  PROVE  Without(m.rows, In(m, s) \cup Out(m, s)) \in Seq(Joining(Present(m) \ {s}))
<1> DEFINE I == DOMAIN m.rows \ (In(m, s) \cup Out(m, s))
<1>1. m.rows \in Seq(Joining(Present(m))) BY FitParts
<1>2. ASSUME NEW i \in DOMAIN m.rows, i \in I PROVE m.rows[i] \in Joining(Present(m) \ {s})
  BY <1>1, <1>2 DEF In, Out, Joining
<1> HIDE DEF I
<1>3. Take(m.rows, I) \in Seq(Joining(Present(m) \ {s})) BY <1>1, <1>2, TakeType
<1> QED BY <1>3 DEF Without, I

LEMMA InlinedFit ==
  ASSUME NEW m, Fit(m), NEW c \in Names, c # Initial, In(m, c) \cap Out(m, c) = {}
  PROVE  Fit(Inlined(m, c)) /\ Present(Inlined(m, c)) \subseteq Present(m)
<1> DEFINE D == Joining(Present(m) \ {c})
           J == Joining(Present(m))
           ins == Take(m.rows, In(m, c))
           outs == Take(m.rows, Out(m, c) \ In(m, c))
           L == Len(ins)
           K == Len(outs)
           A == {r \in J : r.src # c}
           Z == {r \in J : r.tgt # c}
           seqs == [i \in 1 .. L |-> [o \in 1 .. K |-> Compound(ins[i], outs[o])]]
<1>1. m.rows \in Seq(J) BY FitParts
<1>2. ins \in Seq(A)
  <2>1. ASSUME NEW i \in DOMAIN m.rows, i \in In(m, c) PROVE m.rows[i] \in A
    BY <1>1, <2>1 DEF In, Out
  <2> HIDE DEF A
  <2> QED BY <1>1, <2>1, TakeType
<1>3. outs \in Seq(Z)
  <2> DEFINE I == Out(m, c) \ In(m, c)
  <2>1. ASSUME NEW i \in DOMAIN m.rows, i \in I PROVE m.rows[i] \in Z
    BY <1>1, <2>1 DEF In, Out
  <2> HIDE DEF Z, I
  <2>2. Take(m.rows, I) \in Seq(Z) BY <1>1, <2>1, TakeType
  <2> QED BY <2>2 DEF I
<1>4. ASSUME NEW a \in A, NEW z \in Z PROVE Compound(a, z) \in D
  <2>1. a \in Rows /\ z \in Rows /\ a.src \in Present(m) \ {c} /\ z.tgt \in Present(m) \ {c}
    BY DEF Joining
  <2> QED BY <2>1, CompoundType
<1> HIDE DEF ins, outs, A, Z, D
<1>5. L \in Nat /\ K \in Nat /\ DOMAIN ins = 1 .. L /\ DOMAIN outs = 1 .. K BY <1>2, <1>3
<1>6. \A i \in 1 .. L : ins[i] \in A BY <1>2
<1>7. \A i \in 1 .. K : outs[i] \in Z BY <1>3
<1> HIDE DEF L, K
<1>8. ASSUME NEW i \in 1 .. L PROVE [o \in 1 .. K |-> Compound(ins[i], outs[o])] \in Seq(D)
  <2>1. [o \in 1 .. K |-> Compound(ins[i], outs[o])] \in [1 .. K -> D] BY <1>4, <1>6, <1>7
  <2> QED BY <1>5, <2>1
<1>9. seqs \in [1 .. L -> Seq(D)] BY <1>8
<1>10. seqs \in Seq(Seq(D)) BY <1>5, <1>9
<1>11. Products(m, c) = FlattenSeq(seqs) BY <1>5 DEF Products, ins, outs
<1> HIDE DEF seqs
<1>12. Products(m, c) \in Seq(D) BY <1>10, <1>11, FlattenType
<1>13. Without(m.rows, In(m, c) \cup Out(m, c)) \in Seq(D) BY WithoutType DEF D
<1> DEFINE rows == Without(m.rows, In(m, c) \cup Out(m, c)) \o Products(m, c)
<1>14. rows \in Seq(D) BY <1>12, <1>13
<1> HIDE DEF rows
<1>15. {c} \in SUBSET Names /\ Initial \notin {c} OBVIOUS
<1>16. /\ Fit([Erase(m, {c}) EXCEPT !.rows = rows])
       /\ Present([Erase(m, {c}) EXCEPT !.rows = rows]) = Present(m) \ {c}
  BY <1>14, <1>15, FitWith DEF D
<1>17. Erase(m, {c}).rows = m.rows BY Parts DEF Erase, Fit
<1>18. Inlined(m, c) = m \/ Inlined(m, c) = [Erase(m, {c}) EXCEPT !.rows = rows]
  BY <1>17 DEF Inlined, rows
<1> QED BY <1>16, <1>18

LEMMA FusedFit ==
  ASSUME NEW m, Fit(m), NEW s, s \in Transient(m)
  PROVE  Fit(Fused(m, s))
<1> DEFINE D == Joining(Present(m) \ {s})
           J == Joining(Present(m))
           out == m.rows[CHOOSE i \in Out(m, s) : TRUE]
           ins == Take(m.rows, In(m, s))
           L == Len(ins)
           A == {r \in J : r.src # s}
           act(a) == Composed(<<a.act>> \o m.entry[s] \o m.exit[s] \o <<out.act>>)
           fuse(a) == [a EXCEPT !.tgt = out.tgt, !.guard = a.guard \cup out.guard, !.prio = 0,
                                !.act = act(a)]
           fused == [i \in 1 .. L |-> fuse(ins[i])]
<1>1. /\ m.rows \in Seq(J) /\ m \in Machines /\ s \in Names /\ s # Initial
  BY FitParts DEF Transient, Present
<1>2. out \in J /\ out.tgt # s /\ out.src = s
  <2>1. Out(m, s) # {}
    <3>1. Out(m, s) = {} => Cardinality(Out(m, s)) = 0 BY FS_EmptySet
    <3> QED BY <3>1 DEF Transient
  <2>2. (CHOOSE i \in Out(m, s) : TRUE) \in Out(m, s) BY <2>1
  <2>3. \A i \in Out(m, s) : m.rows[i] \in J /\ m.rows[i].tgt # s /\ m.rows[i].src = s
    BY <1>1 DEF Transient, Out
  <2> QED BY <2>2, <2>3
<1>3. \A i \in Out(m, s) : m.rows[i].tgt # s BY DEF Transient
<1>4. ins \in Seq(A)
  <2>1. ASSUME NEW i \in DOMAIN m.rows, i \in In(m, s) PROVE m.rows[i] \in A
    BY <1>1, <1>3, <2>1 DEF In, Out
  <2> HIDE DEF A
  <2> QED BY <1>1, <2>1, TakeType
<1>5. m.entry[s] \in Seq(Actions) /\ m.exit[s] \in Seq(Actions) BY <1>1, Parts
<1>6. ASSUME NEW a \in A PROVE fuse(a) \in D
  <2> HIDE DEF out
  <2>1. a \in Rows /\ out \in Rows /\ a.src \in Present(m) /\ a.src # s /\ out.tgt \in Present(m)
    BY <1>2 DEF Joining
  <2>2. act(a) \in Actions
    <3>1. a.act \in Actions /\ out.act \in Actions BY <2>1, RowParts
    <3>2. <<a.act>> \o m.entry[s] \o m.exit[s] \o <<out.act>> \in Seq(Actions)
      BY <1>5, <3>1, OneAct, JoinedActs
    <3> QED BY <3>2, ComposedType
  <2> HIDE DEF act
  <2>3. fuse(a) = [src |-> a.src, event |-> a.event, guard |-> a.guard \cup out.guard,
                   prio |-> 0, tgt |-> out.tgt, act |-> act(a)]
    <3>1. a = [src |-> a.src, event |-> a.event, guard |-> a.guard, prio |-> a.prio,
               tgt |-> a.tgt, act |-> a.act]
      BY <2>1, RowParts
    <3> HIDE DEF out
    <3> DEFINE c == act(a)
               g == a.guard \cup out.guard
               z == out.tgt
    <3> HIDE DEF c, g, z
    <3>2. [a EXCEPT !.tgt = z, !.guard = g, !.prio = 0, !.act = c] =
            [src |-> a.src, event |-> a.event, guard |-> g, prio |-> 0, tgt |-> z, act |-> c]
      <4> DEFINE b1 == [a EXCEPT !.tgt = z]
                 b2 == [b1 EXCEPT !.guard = g]
                 b3 == [b2 EXCEPT !.prio = 0]
      <4>1. b1 = [src |-> a.src, event |-> a.event, guard |-> a.guard,
                  prio |-> a.prio, tgt |-> z, act |-> a.act]
        BY ONLY <3>1
      <4> HIDE DEF b1
      <4>2. b2 = [src |-> a.src, event |-> a.event, guard |-> g, prio |-> a.prio,
                  tgt |-> z, act |-> a.act]
        BY ONLY <4>1
      <4> HIDE DEF b2
      <4>3. b3 = [src |-> a.src, event |-> a.event, guard |-> g, prio |-> 0,
                  tgt |-> z, act |-> a.act]
        BY ONLY <4>2
      <4> HIDE DEF b3
      <4>4. [b3 EXCEPT !.act = c] = [src |-> a.src, event |-> a.event, guard |-> g, prio |-> 0,
                                    tgt |-> z, act |-> c]
        BY ONLY <4>3
      <4> QED BY ONLY <4>4 DEF b1, b2, b3
    <3> QED BY <3>2 DEF c, g, z
  <2>4. a.guard \cup out.guard \in SUBSET Literals BY <2>1, RowParts
  <2>5. fuse(a) \in Rows BY <2>1, <2>2, <2>3, <2>4, RowParts DEF Rows
  <2>6. fuse(a).src = a.src /\ fuse(a).tgt = out.tgt BY <2>3
  <2> QED BY <1>2, <2>1, <2>5, <2>6 DEF Joining
<1> HIDE DEF ins, A, D, fuse
<1>7. L \in Nat /\ DOMAIN ins = 1 .. L /\ \A i \in 1 .. L : ins[i] \in A BY <1>4
<1> HIDE DEF L
<1>8. fused \in [1 .. L -> D] BY <1>6, <1>7
<1>9. fused \in Seq(D) BY <1>7, <1>8
<1>10. Without(m.rows, In(m, s) \cup Out(m, s)) \in Seq(D) BY WithoutType DEF D
<1> HIDE DEF fused
<1> DEFINE rows == Without(m.rows, In(m, s) \cup Out(m, s)) \o fused
<1>11. rows \in Seq(D) BY <1>9, <1>10
<1> HIDE DEF rows
<1>12. {s} \in SUBSET Names /\ Initial \notin {s} BY <1>1
<1>13. Fit([Erase(m, {s}) EXCEPT !.rows = rows]) BY <1>11, <1>12, FitWith DEF D
<1>14. Erase(m, {s}).rows = m.rows BY <1>1, Parts DEF Erase
<1>15. Fused(m, s) = [Erase(m, {s}) EXCEPT !.rows = rows]
  BY <1>7, <1>14 DEF Fused, rows, fused, fuse, ins
<1> QED BY <1>13, <1>15

LEMMA MergedFit ==
  ASSUME NEW m, Fit(m), NEW B, Partition(B, Present(m)), Present(m) \subseteq UNION B
  PROVE  Fit(Merged(m, B))
<1> DEFINE P == Present(m)
           rep(s) == CHOOSE t \in BlockOf(B, s) : \A u \in BlockOf(B, s) : t <= u
           E == {s \in P : rep(s) # s}
           D == Joining(P \ E)
           moved(r) == [r EXCEPT !.src = rep(@), !.tgt = rep(@)]
           rows == [i \in DOMAIN m.rows |-> moved(m.rows[i])]
           key(r) == [r EXCEPT !.prio = 0]
           dup == {i \in DOMAIN rows : \E j \in 1..(i - 1) : key(rows[j]) = key(rows[i])}
           K == DOMAIN rows \ dup
           n == Len(m.rows)
<1>1. m.rows \in Seq(Joining(P)) /\ m \in Machines /\ P \subseteq Names /\ Initial \in P
  BY FitParts
<1>2. ASSUME NEW s \in P PROVE BlockOf(B, s) \in B /\ s \in BlockOf(B, s)
  <2>1. \E b \in B : s \in b OBVIOUS
  <2> QED BY <2>1 DEF BlockOf
<1>3. ASSUME NEW s \in P PROVE rep(s) \in BlockOf(B, s) /\ \A u \in BlockOf(B, s) : rep(s) <= u
  <2> DEFINE b == BlockOf(B, s)
  <2>a. b \subseteq P /\ b # {}
    <3> HIDE DEF P, b
    <3>1. \A c \in B : c \subseteq P /\ c # {} BY DEF Partition, P
    <3> QED BY <1>2, <3>1 DEF b
  <2>b. Names \subseteq Nat BY Numbers
  <2>1. b \in SUBSET Nat /\ b # {} BY <1>1, <2>a, <2>b
  <2>2. \E t \in b : \A u \in b : t <= u BY <2>1, LeastNat
  <2> HIDE DEF b
  <2>3. (CHOOSE t \in b : \A u \in b : t <= u) \in b
        /\ \A u \in b : (CHOOSE t \in b : \A v \in b : t <= v) <= u
    BY <2>2
  <2> QED BY <2>3 DEF b
<1>4. ASSUME NEW s \in P PROVE rep(s) \in P /\ rep(rep(s)) = rep(s)
  <2>1. rep(s) \in P BY <1>2, <1>3 DEF Partition
  <2>2. BlockOf(B, rep(s)) = BlockOf(B, s)
    <3> HIDE DEF rep
    <3> QED BY <1>2, <1>3, <2>1 DEF Partition
  <2> QED BY <2>1, <2>2
<1>5. rep(Initial) = Initial
  <2>1. rep(Initial) \in P /\ rep(Initial) <= Initial BY <1>1, <1>2, <1>3, <1>4
  <2> HIDE DEF rep
  <2>2. rep(Initial) \in Nat /\ rep(Initial) # 0 BY <1>1, <2>1, Numbers
  <2> QED BY <2>1, <2>2 DEF Initial
<1> HIDE DEF rep, P
<1>6. \A s \in P : rep(s) \in P \ E BY <1>4
<1>7. E \in SUBSET Names /\ Initial \notin E BY <1>1, <1>5
<1>8. ASSUME NEW r \in Joining(P) PROVE moved(r) \in D
  <2>1. r \in Rows /\ r.src \in P /\ r.tgt \in P BY DEF Joining
  <2>2. moved(r) = [src |-> rep(r.src), event |-> r.event, guard |-> r.guard, prio |-> r.prio,
                    tgt |-> rep(r.tgt), act |-> r.act]
    <3> DEFINE b1 == [r EXCEPT !.src = rep(r.src)]
    <3>1. b1 = [src |-> rep(r.src), event |-> r.event, guard |-> r.guard, prio |-> r.prio,
                tgt |-> r.tgt, act |-> r.act]
      BY <2>1, RowParts
    <3> HIDE DEF b1
    <3>2. [b1 EXCEPT !.tgt = rep(r.tgt)] =
            [src |-> rep(r.src), event |-> r.event, guard |-> r.guard, prio |-> r.prio,
             tgt |-> rep(r.tgt), act |-> r.act]
      BY <3>1
    <3> QED BY <3>2 DEF b1
  <2>3. rep(r.src) \in P \ E /\ rep(r.tgt) \in P \ E BY <1>6, <2>1
  <2> HIDE DEF moved, E
  <2>4. moved(r) \in Rows BY <1>1, <2>1, <2>2, <2>3, RowParts DEF Rows
  <2>5. moved(r).src = rep(r.src) /\ moved(r).tgt = rep(r.tgt) BY <2>2
  <2> QED BY <2>3, <2>4, <2>5 DEF Joining
<1> HIDE DEF moved, D, dup, E
<1>9. n \in Nat /\ DOMAIN m.rows = 1 .. n /\ \A i \in 1 .. n : m.rows[i] \in Joining(P) BY <1>1
<1> HIDE DEF n
<1>10. rows \in [1 .. n -> D] BY <1>8, <1>9
<1>11. rows \in Seq(D) BY <1>9, <1>10
<1> HIDE DEF rows
<1>12. Take(rows, K) \in Seq(D)
  <2>1. \A i \in DOMAIN rows : i \in K => rows[i] \in D BY <1>11
  <2> HIDE DEF K
  <2> QED BY <1>11, <2>1, TakeType
<1> DEFINE less == Take(rows, K)
<1> HIDE DEF K, less
<1>13. less \in Seq(D) BY <1>12 DEF less
<1>14. Fit([Erase(m, E) EXCEPT !.rows = less]) BY <1>7, <1>13, FitWith DEF D, P
<1>15. Fit(Canonical([Erase(m, E) EXCEPT !.rows = less])) BY <1>14, CanonicalFit
<1>16. Merged(m, B) = m \/ Merged(m, B) = Canonical([Erase(m, E) EXCEPT !.rows = less])
  BY DEF Merged, Without, less, K, dup, rows, moved, E, rep, P
<1> QED BY <1>15, <1>16

\* One row, and what it leads to by the rows found to lead on.
Onward(m, h, i) ==
  FlattenSeq([n \in DOMAIN m.rows |->
    IF m.rows[n].src # m.rows[i].tgt THEN << >>
    ELSE [p \in DOMAIN h[n] |-> Compound(m.rows[i], h[n][p])]])

PathsIs(paths, m, C) ==
  paths = [k \in 0 .. C |-> [i \in DOMAIN m.rows |->
             IF m.rows[i].tgt \notin OfKind(m, {"junction"}) THEN <<m.rows[i]>>
             ELSE IF k = 0 THEN << >> ELSE Onward(m, paths[k - 1], i)]]

\* The rows that go where row i goes when every junction is passed.
Passing(m, i) == {r \in Joining(Present(m)) : /\ r.src = m.rows[i].src
                                              /\ r.tgt \notin OfKind(m, {"junction"})}
Routes(m) == {h \in [DOMAIN m.rows -> Seq(Rows)] : \A i \in DOMAIN m.rows : h[i] \in Seq(Passing(m, i))}

LEMMA OnwardType ==
  ASSUME NEW m, Fit(m), NEW h, h \in Routes(m), NEW i, i \in DOMAIN m.rows
  PROVE  Onward(m, h, i) \in Seq(Passing(m, i))
<1> DEFINE D == Passing(m, i)
           N == Len(m.rows)
           one(n) == [p \in DOMAIN h[n] |-> Compound(m.rows[i], h[n][p])]
           seqs == [n \in DOMAIN m.rows |-> IF m.rows[n].src # m.rows[i].tgt THEN << >> ELSE one(n)]
<1>1. /\ m.rows \in Seq(Joining(Present(m))) /\ N \in Nat /\ DOMAIN m.rows = 1 .. N
      /\ m.rows[i] \in Joining(Present(m)) /\ m.rows[i] \in Rows
  <2>1. m.rows \in Seq(Joining(Present(m))) BY FitParts
  <2>2. N \in Nat /\ DOMAIN m.rows = 1 .. N /\ m.rows[i] \in Joining(Present(m)) BY <2>1
  <2>3. \A r \in Joining(Present(m)) : r \in Rows BY DEF Joining
  <2> QED BY <2>1, <2>2, <2>3
<1>2. ASSUME NEW n \in 1 .. N PROVE one(n) \in Seq(D)
  <2> DEFINE L == Len(h[n])
             s == h[n]
  <2>1. s \in Seq(Passing(m, n)) BY <1>1 DEF Routes
  <2> HIDE DEF s
  <2>2. L \in Nat /\ DOMAIN s = 1 .. L /\ \A p \in 1 .. L : s[p] \in Passing(m, n) BY <2>1 DEF s
  <2>3. ASSUME NEW p \in 1 .. L PROVE Compound(m.rows[i], s[p]) \in D
    <3>1. s[p] \in Rows /\ s[p].tgt \in Present(m) /\ s[p].tgt \notin OfKind(m, {"junction"})
      BY <2>2 DEF Passing, Joining
    <3>2. m.rows[i].src \in Present(m) BY <1>1 DEF Joining
    <3>3. /\ Compound(m.rows[i], s[p]) \in Joining(Present(m))
          /\ Compound(m.rows[i], s[p]).src = m.rows[i].src
          /\ Compound(m.rows[i], s[p]).tgt = s[p].tgt
      BY <1>1, <3>1, <3>2, CompoundType
    <3> QED BY <3>1, <3>3 DEF Passing
  <2> HIDE DEF L, D
  <2>4. [p \in 1 .. L |-> Compound(m.rows[i], s[p])] \in [1 .. L -> D] BY <2>3
  <2>5. [p \in 1 .. L |-> Compound(m.rows[i], s[p])] \in Seq(D) BY <2>2, <2>4
  <2> QED BY <2>2, <2>5 DEF s
<1> HIDE DEF one, D, N
<1>3. << >> \in Seq(D) OBVIOUS
<1>4. seqs \in [1 .. N -> Seq(D)] BY <1>1, <1>2, <1>3
<1> HIDE DEF seqs
<1>5. seqs \in Seq(Seq(D)) BY <1>1, <1>4
<1>6. FlattenSeq(seqs) \in Seq(D) BY <1>5, FlattenType
<1> QED BY <1>6 DEF Onward, seqs, one, D

\* What passing C junctions at most finds.
Found(m, C) == CHOOSE paths : PathsIs(paths, m, C)

LEMMA PathsSteps ==
  ASSUME NEW m, Fit(m), NEW C \in Nat
  PROVE  \A k \in 0 .. C :
           /\ Found(m, C)[k] \in Routes(m)
           /\ \A i \in DOMAIN m.rows :
                Found(m, C)[k][i] =
                  IF m.rows[i].tgt \notin OfKind(m, {"junction"}) THEN <<m.rows[i]>>
                  ELSE IF k = 0 THEN << >> ELSE Onward(m, Found(m, C)[k - 1], i)
<1> DEFINE S == Routes(m)
           dom == DOMAIN m.rows
           straight(i) == m.rows[i].tgt \notin OfKind(m, {"junction"})
           z == [i \in dom |-> IF straight(i) THEN <<m.rows[i]>> ELSE << >>]
           step == [h \in S |-> [i \in dom |-> IF straight(i) THEN <<m.rows[i]>> ELSE Onward(m, h, i)]]
           g == [k \in Nat |-> step]
<1>1. m.rows \in Seq(Joining(Present(m))) BY FitParts
<1>2. ASSUME NEW i \in dom PROVE << >> \in Seq(Passing(m, i))
                                 /\ (straight(i) => <<m.rows[i]>> \in Seq(Passing(m, i)))
  <2>1. straight(i) => m.rows[i] \in Passing(m, i) BY <1>1 DEF Passing
  <2>2. \A r \in Passing(m, i) : <<r>> \in Seq(Passing(m, i)) OBVIOUS
  <2> QED BY <2>1, <2>2
<1>3. \A i \in dom : \A s \in Seq(Passing(m, i)) : s \in Seq(Rows)
  <2>1. \A i \in dom : Passing(m, i) \subseteq Rows BY DEF Passing, Joining
  <2> QED BY <2>1
<1> HIDE DEF dom, straight
<1>4. z \in S
  <2>1. \A i \in dom : z[i] \in Seq(Passing(m, i)) BY <1>2
  <2> HIDE DEF z
  <2>2. z \in [dom -> Seq(Rows)] BY <1>3, <2>1 DEF z
  <2> QED BY <2>1, <2>2 DEF Routes, dom
<1>5. ASSUME NEW h \in S PROVE step[h] \in S
  <2> DEFINE e == [i \in dom |-> IF straight(i) THEN <<m.rows[i]>> ELSE Onward(m, h, i)]
  <2>1. \A i \in dom : e[i] \in Seq(Passing(m, i)) BY <1>2, OnwardType DEF dom
  <2> HIDE DEF e
  <2>2. e \in [dom -> Seq(Rows)] BY <1>3, <2>1 DEF e
  <2>3. e \in S BY <2>1, <2>2 DEF Routes, dom
  <2> QED BY <2>3 DEF e
<1>6. step \in [S -> S] BY <1>5
<1>7. \A h \in S : step[h] = [i \in dom |-> IF straight(i) THEN <<m.rows[i]>> ELSE Onward(m, h, i)]
  OBVIOUS
<1>8. \A f : PathsIs(f, m, C) <=>
        f = [k \in 0 .. C |-> [i \in dom |-> IF straight(i) THEN <<m.rows[i]>>
                                 ELSE IF k = 0 THEN << >> ELSE Onward(m, f[k - 1], i)]]
  BY DEF PathsIs, dom, straight
<1> HIDE DEF step
<1>9. g \in [Nat -> [S -> S]] /\ \A k \in Nat : g[k] = step BY <1>6
<1> HIDE DEF g, S
<1>10. PICK f : Recurs(f, S, z, g, C) BY <1>4, <1>9, Recursion
<1>11. f \in [0 .. C -> S] /\ f[0] = z /\ \A k \in 1 .. C : f[k] = step[f[k - 1]]
  BY <1>9, <1>10 DEF Recurs
<1>12. PathsIs(f, m, C)
  <2> DEFINE at(k) == [i \in dom |-> IF straight(i) THEN <<m.rows[i]>>
                                 ELSE IF k = 0 THEN << >> ELSE Onward(m, f[k - 1], i)]
             e == [k \in 0 .. C |-> at(k)]
  <2>1. ASSUME NEW k \in 0 .. C PROVE f[k] = at(k)
    <3>1. CASE k = 0 BY <1>11, <3>1
    <3>2. CASE k # 0
      <4>1. k \in 1 .. C /\ k - 1 \in 0 .. C BY <3>2
      <4>2. f[k - 1] \in S BY <1>11, <4>1
      <4> QED BY <1>7, <1>11, <3>2, <4>1, <4>2
    <3> QED BY <3>1, <3>2
  <2>2. e = [k \in 0 .. C |-> at(k)] OBVIOUS
  <2>3. PathsIs(f, m, C) <=> f = e BY <1>8
  <2> HIDE DEF at, e
  <2>4. f = e BY <1>11, <2>1, <2>2
  <2> QED BY <2>3, <2>4
<1> DEFINE paths == CHOOSE paths : PathsIs(paths, m, C)
<1>13. PathsIs(paths, m, C) BY <1>12
<1> HIDE DEF paths
<1> DEFINE at(k) == [i \in dom |-> IF straight(i) THEN <<m.rows[i]>>
                                 ELSE IF k = 0 THEN << >> ELSE Onward(m, paths[k - 1], i)]
<1>14. paths = [k \in 0 .. C |-> at(k)] BY <1>8, <1>13
<1>15. paths[0] \in S
  <2>1. 0 \in 0 .. C /\ at(0) = z OBVIOUS
  <2> HIDE DEF at, z
  <2> QED BY <1>4, <1>14, <2>1
<1>16. ASSUME NEW k \in 1 .. C, paths[k - 1] \in S PROVE paths[k] \in S
  <2>1. k \in 0 .. C /\ k # 0 OBVIOUS
  <2>2. at(k) = step[paths[k - 1]] BY <1>7, <1>16, <2>1
  <2> HIDE DEF at
  <2> QED BY <1>6, <1>14, <1>16, <2>1, <2>2
<1>17. \A k \in 0 .. C : paths[k] \in S BY <1>15, <1>16, Along
<1>18. \A k \in 0 .. C : \A i \in dom : paths[k][i] = at(k)[i] BY <1>14
<1>19. Found(m, C) = paths BY DEF paths, Found
<1> HIDE DEF S
<1> QED BY <1>17, <1>18, <1>19 DEF S, dom, straight

LEMMA PathsType ==
  ASSUME NEW m, Fit(m), NEW C \in Nat
  PROVE  (CHOOSE paths : PathsIs(paths, m, C))[C] \in Routes(m)
BY PathsSteps DEF Found

LEMMA ChainedFit ==
  ASSUME NEW m, Fit(m)
  PROVE  Fit(Chained(m))
<1> DEFINE J == OfKind(m, {"junction"})
           C == Cardinality(J)
           P == Present(m)
           D == Joining(P \ J)
           N == Len(m.rows)
           h == (CHOOSE paths : PathsIs(paths, m, C))[C]
           seqs == [i \in DOMAIN m.rows |->
                     IF m.rows[i].src \in J \/ m.rows[i].tgt \notin J THEN << >> ELSE h[i]]
           I == UNION {In(m, j) \cup Out(m, j) : j \in J}
           rows == Take(m.rows, DOMAIN m.rows \ I) \o FlattenSeq(seqs)
<1>1. /\ m.rows \in Seq(Joining(P)) /\ m \in Machines /\ N \in Nat /\ DOMAIN m.rows = 1 .. N
      /\ m.kind[Initial] = "atomic"
  BY FitParts
<1>2. J \in SUBSET Names /\ Initial \notin J BY <1>1 DEF OfKind
<1>3. C \in Nat BY <1>2, Numbers, FS_Subset, FS_CardinalityType
<1>4. h \in Routes(m) BY <1>3, PathsType
<1> HIDE DEF h, C
<1>5. ASSUME NEW i \in DOMAIN m.rows, m.rows[i].src \notin J PROVE h[i] \in Seq(D)
  <2>1. h[i] \in Seq(Passing(m, i)) BY <1>4 DEF Routes
  <2>2. Passing(m, i) \subseteq D BY <1>5 DEF Passing, Joining
  <2> HIDE DEF D
  <2> QED BY <2>1, <2>2
<1>6. seqs \in Seq(Seq(D))
  <2> HIDE DEF D, J
  <2>1. << >> \in Seq(D) OBVIOUS
  <2>2. \A i \in DOMAIN m.rows : seqs[i] \in Seq(D) BY <1>5, <2>1
  <2> HIDE DEF N
  <2>3. seqs \in [1 .. N -> Seq(D)] BY <1>1, <2>2
  <2> HIDE DEF seqs
  <2> QED BY <1>1, <2>3
<1>7. FlattenSeq(seqs) \in Seq(D) BY <1>6, FlattenType
<1>8. Take(m.rows, DOMAIN m.rows \ I) \in Seq(D)
  <2> DEFINE K == DOMAIN m.rows \ I
  <2>1. ASSUME NEW i \in DOMAIN m.rows, i \in K PROVE m.rows[i] \in D
    <3>1. m.rows[i].src \notin J /\ m.rows[i].tgt \notin J BY <2>1 DEF In, Out
    <3>2. m.rows[i] \in Joining(P) BY <1>1
    <3> QED BY <3>1, <3>2 DEF Joining
  <2> HIDE DEF K, D
  <2>2. Take(m.rows, K) \in Seq(D) BY <1>1, <2>1, TakeType
  <2> QED BY <2>2 DEF K
<1> HIDE DEF D, I, seqs
<1>9. rows \in Seq(D) BY <1>7, <1>8
<1> HIDE DEF rows
<1>10. Fit([Erase(m, J) EXCEPT !.rows = rows])
  <2> HIDE DEF J
  <2> QED BY <1>2, <1>9, FitWith DEF D
<1>11. Erase(m, J).rows = m.rows BY <1>1, Parts DEF Erase
<1>12. Chained(m) = [Erase(m, J) EXCEPT !.rows = rows]
  BY <1>11 DEF Chained, Without, rows, seqs, I, h, C, PathsIs, Onward
<1> QED BY <1>10, <1>12

-----------------------------------------------------------------------------
(* What runs a machine stays in its states.                                *)

LEMMA ChosenType ==
  ASSUME NEW m, Fit(m), NEW s, NEW e, NEW v, Chosen(m, s, e, v) # 0
  PROVE  Chosen(m, s, e, v) \in DOMAIN m.rows /\ m.rows[Chosen(m, s, e, v)].src = s
<1> DEFINE R == {i \in DOMAIN m.rows : m.rows[i].src = s /\ m.rows[i].event = e
                                         /\ Holds(m.rows[i].guard, v)}
           First(i) == \A j \in R \ {i} : \/ Before(m.rows[i], m.rows[j])
                                          \/ i < j /\ ~Before(m.rows[j], m.rows[i])
           Ranked == {i \in R : m.rows[i].prio # 0}
           prios == {m.rows[i].prio : i \in Ranked}
<1>1. R # {} /\ Chosen(m, s, e, v) = CHOOSE i \in R : First(i) BY DEF Chosen
<1>2. R \in SUBSET Nat /\ \A i \in R : m.rows[i].prio \in Nat
  <2>1. m.rows \in Seq(Joining(Present(m))) BY FitParts
  <2>2. \A i \in DOMAIN m.rows : i \in Nat /\ m.rows[i].prio \in Nat BY <2>1 DEF Joining, Rows
  <2> QED BY <2>2
<1>3. R \subseteq DOMAIN m.rows /\ \A i \in R : m.rows[i].src = s OBVIOUS
<1> HIDE DEF R
<1>4. \E i \in R : First(i)
  <2>1. CASE Ranked = {}
    <3>1. PICK i \in R : \A k \in R : i <= k BY <1>1, <1>2, LeastNat
    <3>2. \A j \in R \ {i} : i < j BY <1>2, <3>1
    <3>3. \A j \in R : ~Before(m.rows[j], m.rows[i]) BY <2>1 DEF Before
    <3> QED BY <3>1, <3>2, <3>3
  <2>2. CASE Ranked # {}
    <3>1. prios \in SUBSET Nat /\ prios # {} BY <1>2, <2>2
    <3>2. PICK p \in prios : \A k \in prios : p <= k BY <3>1, LeastNat
    <3> DEFINE Q == {i \in Ranked : m.rows[i].prio = p}
    <3>3. Q \in SUBSET Nat /\ Q # {} BY <1>2, <3>2
    <3>4. PICK i \in Q : \A k \in Q : i <= k BY <3>3, LeastNat
    <3>5. ASSUME NEW j \in R \ {i} PROVE \/ Before(m.rows[i], m.rows[j])
                                         \/ i < j /\ ~Before(m.rows[j], m.rows[i])
      <4>1. m.rows[i].prio = p /\ p # 0 /\ p \in Nat /\ i \in Nat /\ j \in Nat
            /\ m.rows[j].prio \in Nat
        BY <1>2, <3>1, <3>4
      <4>2. CASE m.rows[j].prio = 0 BY <4>1, <4>2 DEF Before
      <4>3. CASE m.rows[j].prio = p
        <5>1. i <= j /\ i # j BY <3>4, <4>1, <4>3
        <5> QED BY <4>1, <4>3, <5>1 DEF Before
      <4>4. CASE m.rows[j].prio # 0 /\ m.rows[j].prio # p
        <5>1. p <= m.rows[j].prio BY <3>2, <4>4
        <5> QED BY <4>1, <4>4, <5>1 DEF Before
      <4> QED BY <4>2, <4>3, <4>4
    <3> QED BY <3>4, <3>5
  <2> QED BY <2>1, <2>2
<1> HIDE DEF First
<1> QED BY <1>1, <1>3, <1>4

LEMMA JoinedSteps == \A x, y \in Seq(Steps) : x \o y \in Seq(Steps)
OBVIOUS

LEMMA DoesType == ASSUME NEW a \in Actions PROVE Does(a) \in Seq(Steps)
<1>1. a.name \in Steps /\ a.code \in Seq(Steps) BY ActionParts DEF Steps
<1>2. << >> \in Seq(Steps) OBVIOUS
<1> HIDE DEF Steps
<1>3. <<a.name>> \in Seq(Steps) BY <1>1
<1> QED BY <1>1, <1>2, <1>3 DEF Does

LEMMA DoAllType == ASSUME NEW acts, acts \in Seq(Actions) PROVE DoAll(acts) \in Seq(Steps)
<1> DEFINE n == Len(acts)
           does == [k \in 1 .. n |-> Does(acts[k])]
<1>1. n \in Nat /\ DOMAIN acts = 1 .. n /\ \A k \in 1 .. n : acts[k] \in Actions OBVIOUS
<1> HIDE DEF n
<1>2. does \in [1 .. n -> Seq(Steps)] BY <1>1, DoesType
<1>3. does \in Seq(Seq(Steps)) BY <1>1, <1>2
<1>4. DoAll(acts) = FlattenSeq(does) BY <1>1 DEF DoAll
<1> HIDE DEF does
<1> QED BY <1>3, <1>4, FlattenType

LEMMA CodeType == ASSUME NEW m \in Machines, NEW n PROVE Code(m, n) \in Seq(Steps)
<1> DEFINE L == Len(m.rows)
           codes == [i \in 1 .. L |-> IF m.rows[i].act.name = n THEN m.rows[i].act.code ELSE << >>]
<1>1. m.rows \in Seq(Rows) BY Parts
<1>2. L \in Nat /\ DOMAIN m.rows = 1 .. L /\ \A i \in 1 .. L : m.rows[i] \in Rows BY <1>1
<1>3. \A i \in 1 .. L : m.rows[i].act.code \in Seq(Steps) BY <1>2, RowParts, ActionParts
<1>4. << >> \in Seq(Steps) OBVIOUS
<1> HIDE DEF L
<1>5. codes \in [1 .. L -> Seq(Steps)] BY <1>3, <1>4
<1>6. codes \in Seq(Seq(Steps)) BY <1>2, <1>5
<1>7. Code(m, n) = FlattenSeq(codes) BY <1>2 DEF Code
<1> HIDE DEF codes
<1> QED BY <1>6, <1>7, FlattenType

\* The struct an action is emitted as, and those of a hook.
Struct(m, a) == [name |-> a.name, code |-> Code(m, a.name)]
Hook(m, acts) == [k \in DOMAIN acts |-> Struct(m, acts[k])]

LEMMA StructType == ASSUME NEW m \in Machines, NEW a \in Actions PROVE Struct(m, a) \in Actions
<1>1. a.name \in Seq(STRING) /\ Code(m, a.name) \in Seq(Steps) BY ActionParts, CodeType
<1> QED BY <1>1 DEF Struct, Actions

LEMMA HookType ==
  ASSUME NEW m \in Machines, NEW acts, acts \in Seq(Actions)
  PROVE  Hook(m, acts) \in Seq(Actions)
<1> DEFINE n == Len(acts)
           hook == [k \in 1 .. n |-> Struct(m, acts[k])]
<1>1. n \in Nat /\ DOMAIN acts = 1 .. n /\ \A k \in 1 .. n : acts[k] \in Actions OBVIOUS
<1> HIDE DEF n
<1>2. hook \in [1 .. n -> Actions] BY <1>1, StructType
<1>3. hook \in Seq(Actions) BY <1>1, <1>2
<1> QED BY <1>1, <1>3 DEF Hook

StructRows(m) == [i \in DOMAIN m.rows |->
                    [m.rows[i] EXCEPT !.act = Struct(m, m.rows[i].act)]]

LEMMA EmittedIs ==
  ASSUME NEW m \in Machines
  PROVE  Emitted(m) = [kind |-> m.kind, entry |-> [s \in Names |-> Hook(m, m.entry[s])],
                       exit |-> [s \in Names |-> Hook(m, m.exit[s])], rows |-> StructRows(m)]
<1> DEFINE entry == [s \in Names |-> Hook(m, m.entry[s])]
           exit == [s \in Names |-> Hook(m, m.exit[s])]
           rows == StructRows(m)
<1>1. Emitted(m) = [m EXCEPT !.rows = rows, !.entry = entry, !.exit = exit]
  <2>1. \A acts : Hook(m, acts) = [k \in DOMAIN acts |->
                                   [name |-> acts[k].name, code |-> Code(m, acts[k].name)]]
    BY DEF Hook, Struct
  <2> QED BY <2>1 DEF Emitted, StructRows, Struct
<1> HIDE DEF entry, exit, rows
<1>2. m = [kind |-> m.kind, entry |-> m.entry, exit |-> m.exit, rows |-> m.rows] BY Parts
<1>3. Emitted(m) = [kind |-> m.kind, entry |-> entry, exit |-> exit, rows |-> rows]
  BY ONLY <1>1, <1>2
<1> QED BY <1>3 DEF entry, exit, rows

LEMMA EmittedFit ==
  ASSUME NEW m, Fit(m)
  PROVE  Fit(Emitted(m))
<1> DEFINE n == Len(m.rows)
           D == Joining(Present(m))
           rows == StructRows(m)
           entry == [s \in Names |-> Hook(m, m.entry[s])]
           exit == [s \in Names |-> Hook(m, m.exit[s])]
<1>1. m \in Machines /\ m.rows \in Seq(D) /\ n \in Nat /\ DOMAIN m.rows = 1 .. n BY FitParts
<1>2. entry \in [Names -> Seq(Actions)] /\ exit \in [Names -> Seq(Actions)]
  <2>1. \A s \in Names : m.entry[s] \in Seq(Actions) /\ m.exit[s] \in Seq(Actions) BY <1>1, Parts
  <2>2. \A s \in Names : Hook(m, m.entry[s]) \in Seq(Actions) /\ Hook(m, m.exit[s]) \in Seq(Actions)
    BY <1>1, <2>1, HookType
  <2> QED BY <2>2
<1>3. ASSUME NEW i \in 1 .. n PROVE rows[i] \in D
  <2>1. m.rows[i] \in D /\ m.rows[i] \in Rows BY <1>1 DEF Joining
  <2>2. rows[i] = [m.rows[i] EXCEPT !.act = Struct(m, m.rows[i].act)] BY <1>1 DEF StructRows
  <2>3. Struct(m, m.rows[i].act) \in Actions BY <1>1, <2>1, RowParts, StructType
  <2> HIDE DEF rows
  <2>4. [m.rows[i] EXCEPT !.act = Struct(m, m.rows[i].act)] \in D BY <2>1, <2>3, RowWith DEF Joining
  <2> QED BY <2>2, <2>4
<1>4. rows \in Seq(D)
  <2>1. rows = [i \in 1 .. n |-> rows[i]] BY <1>1 DEF StructRows
  <2> HIDE DEF rows, D
  <2>2. rows \in [1 .. n -> D] BY <1>3, <2>1
  <2> QED BY <1>1, <2>2
<1>5. Emitted(m) = [kind |-> m.kind, entry |-> entry, exit |-> exit, rows |-> rows]
  BY <1>1, EmittedIs
<1> HIDE DEF entry, exit, rows
<1> QED BY <1>2, <1>4, <1>5, FitActing

\* Where a machine may be, and what it may have done.
Outcome(m) == [state : Present(m), out : Seq(Steps)]

LEMMA RestingType == ASSUME NEW m, NEW s, s \in Present(m) PROVE Resting(s) \in Outcome(m)
<1>1. << >> \in Seq(Steps) OBVIOUS
<1> QED BY <1>1 DEF Resting, Outcome

LEMMA FiredType ==
  ASSUME NEW m, Fit(m), NEW s, s \in Present(m), NEW e, NEW v
  PROVE  Fired(m, s, e, v) \in Outcome(m)
<1> DEFINE i == Chosen(m, s, e, v)
           r == m.rows[i]
           o == DoAll(m.exit[s]) \o Does(r.act) \o DoAll(m.entry[r.tgt])
<1>1. CASE i = 0 BY <1>1, RestingType DEF Fired
<1>2. CASE i # 0
  <2>1. i \in DOMAIN m.rows BY <1>2, ChosenType
  <2>2. m.rows \in Seq(Joining(Present(m))) /\ m \in Machines BY FitParts
  <2> HIDE DEF i
  <2>3. r \in Joining(Present(m)) BY <2>1, <2>2
  <2> HIDE DEF r
  <2>4. r \in Rows /\ r.tgt \in Present(m) BY <2>3 DEF Joining
  <2>5. s \in Names /\ r.tgt \in Names /\ r.act \in Actions BY <2>4, RowParts DEF Present
  <2>6. m.exit[s] \in Seq(Actions) /\ m.entry[r.tgt] \in Seq(Actions) BY <2>2, <2>5, Parts
  <2>7. o \in Seq(Steps)
    <3>1. DoAll(m.exit[s]) \in Seq(Steps) /\ DoAll(m.entry[r.tgt]) \in Seq(Steps)
      BY <2>6, DoAllType
    <3>2. Does(r.act) \in Seq(Steps) BY <2>5, DoesType
    <3> QED BY <3>1, <3>2, JoinedSteps
  <2>8. Fired(m, s, e, v) = [state |-> r.tgt, out |-> o] BY <1>2 DEF Fired, r, i
  <2> HIDE DEF o
  <2> QED BY <2>4, <2>7, <2>8 DEF Outcome
<1> QED BY <1>1, <1>2

RunIs(run, m, v) ==
  run = [k \in 0 .. Cardinality(Names) |-> [x \in Names |->
          IF k = 0 \/ Chosen(m, x, NoEvent, v) = 0 THEN Resting(x)
          ELSE LET one  == Fired(m, x, NoEvent, v)
                   rest == run[k - 1][one.state]
               IN [state |-> rest.state, out |-> one.out \o rest.out]]]

\* A step, and what follows it.
Then(one, rest) == [state |-> rest.state, out |-> one.out \o rest.out]

LEMMA ThenType ==
  ASSUME NEW m, NEW a, a \in Outcome(m), NEW b, b \in Outcome(m)
  PROVE  Then(a, b) \in Outcome(m)
<1>1. a.out \in Seq(Steps) /\ b.out \in Seq(Steps) /\ b.state \in Present(m) BY DEF Outcome
<1>2. a.out \o b.out \in Seq(Steps) BY <1>1, JoinedSteps
<1> QED BY <1>1, <1>2 DEF Then, Outcome

\* A state of the machine is followed to a state of the machine.
Followed(m) == {h \in [Names -> [state : Names, out : Seq(Steps)]] :
                  \A x \in Present(m) : h[x] \in Outcome(m)}

LEMMA SettledType ==
  ASSUME NEW m, Fit(m), NEW s, s \in Present(m), NEW v
  PROVE  Settled(m, s, v) \in Outcome(m)
<1> DEFINE C == Cardinality(Names)
           S == Followed(m)
           idle(x) == Chosen(m, x, NoEvent, v) = 0
           next(h, x) == Then(Fired(m, x, NoEvent, v), h[Fired(m, x, NoEvent, v).state])
           z == [x \in Names |-> Resting(x)]
           step == [h \in S |-> [x \in Names |-> IF idle(x) THEN Resting(x) ELSE next(h, x)]]
           g == [k \in Nat |-> step]
           run == CHOOSE run : RunIs(run, m, v)
           All == [state : Names, out : Seq(Steps)]
<1>1. C \in Nat BY Numbers, FS_CardinalityType
<1>2. Present(m) \subseteq Names /\ m.rows \in Seq(Joining(Present(m))) BY FitParts
<1>3. \A x \in Names : idle(x) \/ x \in Present(m)
  <2>1. ASSUME NEW x \in Names, ~idle(x) PROVE x \in Present(m)
    <3> DEFINE i == Chosen(m, x, NoEvent, v)
    <3>1. i \in DOMAIN m.rows /\ m.rows[i].src = x BY <2>1, ChosenType
    <3> HIDE DEF i
    <3>2. m.rows[i] \in Joining(Present(m)) BY <1>2, <3>1
    <3> QED BY <3>1, <3>2 DEF Joining
  <2> QED BY <2>1
<1>4. \A x \in Names : Resting(x) \in All
  <2>1. << >> \in Seq(Steps) OBVIOUS
  <2> QED BY <2>1 DEF Resting
<1>5. \A x \in Present(m) : Resting(x) \in Outcome(m) BY RestingType
<1>6. ASSUME NEW h \in S, NEW x \in Present(m) PROVE next(h, x) \in Outcome(m)
  <2>1. Fired(m, x, NoEvent, v) \in Outcome(m) BY FiredType
  <2>2. Fired(m, x, NoEvent, v).state \in Present(m) BY <2>1 DEF Outcome
  <2>3. h[Fired(m, x, NoEvent, v).state] \in Outcome(m) BY <2>2 DEF Followed
  <2> QED BY <2>1, <2>3, ThenType
<1>7. Outcome(m) \subseteq All BY <1>2 DEF Outcome
<1> HIDE DEF idle, next, All
<1>8. z \in S
  <2>1. z \in [Names -> All] BY <1>4
  <2>2. \A x \in Present(m) : z[x] \in Outcome(m) BY <1>2, <1>5
  <2> HIDE DEF z
  <2> QED BY <2>1, <2>2 DEF Followed, All
<1>9. ASSUME NEW h \in S PROVE step[h] \in S
  <2> DEFINE e == [x \in Names |-> IF idle(x) THEN Resting(x) ELSE next(h, x)]
  <2>1. \A x \in Names : e[x] \in All BY <1>3, <1>4, <1>6, <1>7
  <2>2. \A x \in Present(m) : e[x] \in Outcome(m) BY <1>2, <1>5, <1>6
  <2>3. e = [x \in Names |-> e[x]] OBVIOUS
  <2> HIDE DEF e
  <2>4. e \in S BY <2>1, <2>2, <2>3 DEF Followed, All
  <2> QED BY <2>4 DEF e
<1>10. step \in [S -> S] BY <1>9
<1>11. \A h \in S : step[h] = [x \in Names |-> IF idle(x) THEN Resting(x) ELSE next(h, x)]
  OBVIOUS
<1>12. \A f : RunIs(f, m, v) <=>
         f = [k \in 0 .. C |-> [x \in Names |-> IF k = 0 \/ idle(x) THEN Resting(x)
                                                ELSE next(f[k - 1], x)]]
  BY DEF RunIs, idle, next, Then
<1> HIDE DEF step
<1>13. g \in [Nat -> [S -> S]] /\ \A k \in Nat : g[k] = step BY <1>10
<1> HIDE DEF g
<1>14. Settled(m, s, v) = run[C][s] BY DEF Settled, RunIs
<1> HIDE DEF S, C
<1>15. PICK f : Recurs(f, S, z, g, C) BY <1>1, <1>8, <1>13, Recursion
<1>16. f \in [0 .. C -> S] /\ f[0] = z /\ \A k \in 1 .. C : f[k] = step[f[k - 1]]
  BY <1>13, <1>15 DEF Recurs
<1>17. RunIs(f, m, v)
  <2> DEFINE at(k) == [x \in Names |-> IF k = 0 \/ idle(x) THEN Resting(x) ELSE next(f[k - 1], x)]
             e == [k \in 0 .. C |-> at(k)]
  <2>1. ASSUME NEW k \in 0 .. C PROVE f[k] = at(k)
    <3>1. CASE k = 0
      <4>1. at(0) = z OBVIOUS
      <4> QED BY <1>16, <3>1, <4>1
    <3>2. CASE k # 0
      <4>1. k \in 1 .. C /\ k - 1 \in 0 .. C BY <1>1, <3>2
      <4>2. f[k - 1] \in S BY <1>16, <4>1
      <4>3. at(k) = step[f[k - 1]] BY <1>11, <3>2, <4>2
      <4> QED BY <1>16, <4>1, <4>3
    <3> QED BY <3>1, <3>2
  <2>2. e = [k \in 0 .. C |-> at(k)] OBVIOUS
  <2>3. RunIs(f, m, v) <=> f = e BY <1>12
  <2> HIDE DEF at, e
  <2>4. f = e BY <1>16, <2>1, <2>2
  <2> QED BY <2>3, <2>4
<1>18. RunIs(run, m, v) BY <1>17
<1> HIDE DEF run
<1> DEFINE at(k) == [x \in Names |-> IF k = 0 \/ idle(x) THEN Resting(x) ELSE next(run[k - 1], x)]
<1>19. run = [k \in 0 .. C |-> at(k)] BY <1>12, <1>18
<1>20. run[0] \in S
  <2>1. 0 \in 0 .. C /\ at(0) = z BY <1>1
  <2> HIDE DEF at, z
  <2> QED BY <1>8, <1>19, <2>1
<1>21. ASSUME NEW k \in 1 .. C, run[k - 1] \in S PROVE run[k] \in S
  <2>1. k \in 0 .. C /\ k # 0 BY <1>1
  <2>2. at(k) = step[run[k - 1]] BY <1>11, <1>21, <2>1
  <2> HIDE DEF at
  <2> QED BY <1>10, <1>19, <1>21, <2>1, <2>2
<1>22. \A k \in 0 .. C : run[k] \in S BY <1>1, <1>20, <1>21, Along
<1>23. run[C] \in S
  <2>1. C \in 0 .. C BY <1>1
  <2> QED BY <1>22, <2>1
<1> QED BY <1>14, <1>23 DEF S, Followed

LEMMA ReactType ==
  ASSUME NEW m, Fit(m), NEW s, s \in Present(m), NEW e, NEW v
  PROVE  React(m, s, e, v).state \in Present(m) /\ React(m, s, e, v).out \in Seq(Steps)
<1> DEFINE one == Fired(m, s, e, v)
           rest == Settled(m, one.state, v)
<1>1. one \in Outcome(m) BY FiredType
<1>2. one.state \in Present(m) BY <1>1 DEF Outcome
<1>3. rest \in Outcome(m) BY <1>2, SettledType
<1>4. Then(one, rest) \in Outcome(m) BY <1>1, <1>3, ThenType
<1>5. React(m, s, e, v) = Then(one, rest) BY DEF React, Then
<1> QED BY <1>4, <1>5 DEF Outcome

-----------------------------------------------------------------------------
\* No branch of a choice that is inlined leads back to the choice.
NoBranchBack == \A c \in Names : Inline(c) => In(ir, c) \cap Out(ir, c) = {}

\* The representation is fit and so is the source; what was not emitted has
\* not begun; the minimization parts the states it has; the initial state is
\* not one of the choices to inline.
FitInv ==
  /\ Fit(source) /\ Fit(ir)
  /\ todo \in Seq(Passes) /\ busy \in BOOLEAN
  /\ blocks \subseteq SUBSET Names /\ left \subseteq Names
  /\ phase \in {"passes", "failed", "emitted"}
  /\ state \in Present(ir) /\ twin \in Present(source) /\ output \in Seq(Steps)
  /\ phase # "emitted" => state = Initial
  /\ Current("StateMinimization") /\ busy =>
       Partition(blocks, Present(ir)) /\ Present(ir) \subseteq UNION blocks
  /\ Current("ChoiceInlining") /\ busy => Initial \notin left

LEMMA RefinedCovers ==
  ASSUME NEW m, NEW B
  PROVE  UNION B \subseteq UNION Refined(m, B)
<1>1. ASSUME NEW b \in B, NEW s \in b
      PROVE  {t \in b : Signature(m, B, t) = Signature(m, B, s)} \in Refined(m, B)
  BY DEF Refined, Groups
<1> QED BY <1>1

LEMMA InitialCovers ==
  ASSUME NEW m
  PROVE  Present(m) \subseteq UNION InitialBlocks(m)
<1> DEFINE names(acts) == [k \in DOMAIN acts |-> acts[k].name]
           key(s) == IF m.kind[s] = "choice" THEN <<s>>
                     ELSE <<m.kind[s], s = Initial, names(m.entry[s]), names(m.exit[s])>>
<1>1. InitialBlocks(m) = {{t \in Present(m) : key(t) = key(s)} : s \in Present(m)}
  BY DEF InitialBlocks, Groups
<1> HIDE DEF key
<1> QED BY <1>1

LEMMA RewrittenFit ==
  ASSUME NEW m, Fit(m), NEW p \in Passes \ Looping
  PROVE  Fit(Rewritten(p, m))
<1>1. Fit(FactoredOut(FactoredIn(m))) BY FactoredInFit, FactoredOutFit
<1>2. p \in {"HierarchyCanonicalization", "DeterminismEnforcement", "DeadStatePruning",
             "CommonActionFactoring", "BoundaryActionFusion", "ConnectiveJunctionChaining"}
  BY DEF Passes, Looping
<1> QED BY <1>1, <1>2, CanonicalFit, EnforcedFit, PrunedFit, BoundaryFusedFit, ChainedFit DEF Rewritten

LEMMA InitFit == Init => FitInv
<1> SUFFICES ASSUME Init PROVE FitInv OBVIOUS
<1>1. Fit(source) BY MiddleEndAssumption DEF Init, Fit, Sources
<1>2. todo \in Seq(Passes) BY MiddleEndAssumption DEF Init, Pipelines
<1>3. Initial \in Present(source) BY <1>1, FitParts
<1>4. << >> \in Seq(Steps) /\ {} \subseteq SUBSET Names /\ FALSE \in BOOLEAN OBVIOUS
<1>5. output \in Seq(Steps) /\ blocks \subseteq SUBSET Names /\ busy \in BOOLEAN
  BY <1>4 DEF Init
<1> QED BY <1>1, <1>2, <1>3, <1>5 DEF Init, FitInv

LEMMA StepFit == FitInv /\ [Next]_vars /\ [NoBranchBack]_vars => FitInv'
<1> SUFFICES ASSUME FitInv, [Next]_vars, [NoBranchBack]_vars PROVE FitInv' OBVIOUS
<1> USE DEF FitInv
<1>1. ASSUME NEW m, Fit(m), todo # << >>, phase = "passes", NextPass(m) PROVE FitInv'
  <2>1. Initial \in Present(m) BY <1>1, FitParts
  <2> QED BY <1>1, <2>1, PassesStay DEF NextPass, runVars
<1>2. ASSUME NEW p \in Passes, Rewrite(p) PROVE FitInv'
  BY <1>1, <1>2, RewrittenFit DEF Rewrite, Current
<1>3. CASE Reject BY <1>3 DEF Reject, passVars, Current
<1>4. CASE BeginMinimize
  <2>1. InitialBlocks(ir) \subseteq SUBSET Names
    <3>1. Partition(InitialBlocks(ir), Present(ir)) BY InitialPartition
    <3> QED BY <3>1 DEF Partition, Present
  <2> QED BY <1>4, <2>1, InitialPartition, InitialCovers DEF BeginMinimize, runVars, Current
<1>5. CASE Refine
  <2>1. IsFiniteSet(Present(ir)) BY Numbers, FS_Subset DEF Present
  <2>2. Partition(blocks, Present(ir)) /\ Present(ir) \subseteq UNION blocks BY <1>5 DEF Refine
  <2>3. Partition(Refined(ir, blocks), Present(ir)) BY <2>1, <2>2, RefinedFiner
  <2>4. Present(ir) \subseteq UNION Refined(ir, blocks) BY <2>2, RefinedCovers
  <2>5. Refined(ir, blocks) \subseteq SUBSET Names BY <2>3 DEF Partition, Present
  <2> QED BY <1>5, <2>3, <2>4, <2>5 DEF Refine, runVars, Current
<1>6. CASE EndMinimize
  <2>1. Fit(Merged(ir, blocks)) BY <1>6, MergedFit DEF EndMinimize
  <2> QED BY <1>1, <1>6, <2>1 DEF EndMinimize, Current
<1>7. CASE Fuse
  <2> DEFINE s == CHOOSE s \in Transient(ir) : \A t \in Transient(ir) : s <= t
  <2>1. s \in Transient(ir)
    <3>1. Transient(ir) \in SUBSET Nat /\ Transient(ir) # {}
      BY <1>7, Numbers DEF Fuse, Transient, Present
    <3>2. \E x \in Transient(ir) : \A t \in Transient(ir) : x <= t BY <3>1, LeastNat
    <3> QED BY <3>2
  <2>2. ir' = Fused(ir, s) BY <1>7 DEF Fuse
  <2> HIDE DEF s
  <2>3. Fit(ir') BY <2>1, <2>2, FusedFit
  <2>4. Initial \in Present(ir') BY <2>3, FitParts
  <2> QED BY <1>7, <2>3, <2>4 DEF Fuse, runVars, Current
<1>8. CASE EndFuse BY <1>1, <1>8, CanonicalFit DEF EndFuse, Current
<1>9. CASE BeginInline
  <2>1. Initial \notin OfKind(ir, {"choice", "junction"}) BY FitParts DEF OfKind
  <2> QED BY <1>9, <2>1 DEF BeginInline, runVars, Current, OfKind
<1>10. ASSUME NEW c \in Names, Inline(c) PROVE FitInv'
  <2>1. In(ir, c) \cap Out(ir, c) = {}
    <3>1. left' # left BY <1>10 DEF Inline
    <3> QED BY <1>10, <3>1 DEF NoBranchBack, vars, passVars
  <2>2. Fit(ir') BY <1>10, <2>1, InlinedFit DEF Inline
  <2>3. Initial \in Present(ir') BY <2>2, FitParts
  <2> QED BY <1>10, <2>2, <2>3 DEF Inline, runVars, Current
<1>11. CASE EndInline BY <1>1, <1>11 DEF EndInline, Current
<1>12. CASE Emit
  <2>1. Initial \in Present(ir) /\ Initial \in Present(source) BY FitParts
  <2>2. Fit(Emitted(ir)) BY EmittedFit
  <2>3. Begin(Emitted(ir)).state = Initial /\ Begin(Emitted(ir)).out \in Seq(Steps)
    <3>1. Emitted(ir).entry[Initial] \in Seq(Actions) BY <2>2, Numbers, Parts DEF Fit
    <3> QED BY <3>1, DoAllType DEF Begin
  <2>4. Initial \in Present(Emitted(ir)) BY <2>2, FitParts
  <2>5. Begin(source).state = Initial BY DEF Begin
  <2> QED BY <1>12, <2>1, <2>2, <2>3, <2>4, <2>5 DEF Emit, Current
<1>13. CASE Refused \/ UNCHANGED vars
  <2>1. UNCHANGED vars BY <1>13 DEF Refused
  <2> QED BY <2>1 DEF Current, vars, passVars, runVars
<1>14. ASSUME NEW e \in Events, NEW v \in SUBSET Atoms, Handle(e, v) PROVE FitInv'
  BY <1>14, ReactType DEF Handle, passVars, Current
<1> QED
  BY <1>2, <1>3, <1>4, <1>5, <1>6, <1>7, <1>8, <1>9, <1>10, <1>11, <1>12, <1>13, <1>14
     DEF Next, Compile

LEMMA FitTyped == FitInv => TypeOK
BY FitParts DEF FitInv, TypeOK, Fit

\* Between any two steps of any pass, in any order, the edges of the
\* representation join states it still has (FsmGraphOps::is_well_formed), and
\* what runs the emitted machine stays in its states; unless ChoiceInlining
\* meets a choice with a branch back to itself, whose edges it keeps.
THEOREM TypeCorrect == Spec /\ [][NoBranchBack]_vars => []TypeOK
<1> QED BY InitFit, StepFit, FitTyped, PTL DEF Spec

-----------------------------------------------------------------------------
(* What is emitted has no pseudostate.                                      *)

Circular(E) == \E S \in SUBSET Names : Circle(E, S)

\* S holds the initial state and what its live edges lead to.
Closed(E, S) ==
  Initial \in S /\ \A e \in E : e.src \in S /\ e.guard # FalseGuard => e.tgt \in S

\* A circle of junctions the machine can reach.
Caught(E, J) ==
  \E T \in SUBSET J : Circle(E, T) /\ \A S \in SUBSET Names : Closed(E, S) => T \subseteq S

\* Dead edges and edges of states that are not reached are dropped: R is what
\* is reached, J and P the junctions and pseudostates, K and Q those kept.
Alive(E, R) == {e \in E : e.guard # FalseGuard /\ e.src \in R}

LEMMA AliveCircle ==
  ASSUME NEW E, NEW R, NEW S, Circle(Alive(E, R), S)
  PROVE  Circle(E, S) /\ S \subseteq R
BY DEF Circle, Alive

LEMMA AliveKeeps ==
  ASSUME NEW E, NEW R, NEW S \in SUBSET R, Enabled(E), Circle(E, S)
  PROVE  Circle(Alive(E, R), S)
BY DEF Circle, Alive, Enabled

LEMMA AliveProper ==
  ASSUME NEW E, NEW R, Closed(E, R), NEW J, NEW P, NEW K, NEW Q, J \cap R \subseteq K, Q \subseteq P,
         Proper(E, J, P)
  PROVE  Proper(Alive(E, R), K, Q)
<1> DEFINE F == Alive(E, R)
<1>1. Guided(F, Q)
  <2>1. \A e \in F : e.src \in Q => e.event = NoEvent BY DEF Alive, Proper, Guided
  <2>2. ASSUME NEW e \in F, e.tgt \in Q PROVE \E f \in F : f.src = e.tgt
    <3>1. e \in E /\ e.tgt \in R BY <2>2 DEF Alive, Closed
    <3>2. PICK f \in E : f.src = e.tgt BY <2>2, <3>1 DEF Proper, Guided
    <3>3. f.guard # FalseGuard BY <2>2, <3>2 DEF Proper, Guided, Enabled
    <3> QED BY <3>1, <3>2, <3>3 DEF Alive
  <2> QED BY <2>1, <2>2 DEF Guided
<1>2. Enabled(F) BY DEF Proper, Enabled, Alive
<1>3. ASSUME NEW S \in SUBSET Names, Circle(F, S)
      PROVE  \E T \in SUBSET (S \cap K) : Circle(F, T)
  <2>1. Circle(E, S) /\ S \subseteq R BY <1>3, AliveCircle
  <2>2. PICK T \in SUBSET (S \cap J) : Circle(E, T) BY <2>1 DEF Proper
  <2>3. Circle(F, T)
    <3>1. T \in SUBSET R /\ Enabled(E) BY <2>1 DEF Proper
    <3> QED BY <2>2, <3>1, AliveKeeps
  <2>4. T \in SUBSET (S \cap K) BY <2>1
  <2> QED BY <2>3, <2>4
<1> QED BY <1>1, <1>2, <1>3 DEF Proper

LEMMA AliveCaught ==
  ASSUME NEW E, NEW R \in SUBSET Names, Closed(E, R), NEW J, NEW K, J \cap R \subseteq K, Enabled(E),
         Caught(E, J)
  PROVE  Caught(Alive(E, R), K)
<1>1. PICK T \in SUBSET J : Circle(E, T) /\ \A S \in SUBSET Names : Closed(E, S) => T \subseteq S
  BY DEF Caught
<1>2. T \subseteq R BY <1>1
<1>3. Circle(Alive(E, R), T) BY <1>1, <1>2, AliveKeeps
<1>4. ASSUME NEW S \in SUBSET Names, Closed(Alive(E, R), S) PROVE T \subseteq S
  <2>1. Closed(E, S \cap R) BY <1>4 DEF Closed, Alive
  <2>2. S \cap R \in SUBSET Names OBVIOUS
  <2> QED BY <1>1, <2>1, <2>2
<1>5. T \in SUBSET K BY <1>2
<1> QED BY <1>3, <1>4, <1>5 DEF Caught

\* A state is taken out, and each of its ways in joined to each of its ways out.
Join(a, b) == [src |-> a.src, event |-> a.event, guard |-> a.guard \cup b.guard, tgt |-> b.tgt]
Joins(A, B) == {Join(a, b) : a \in A, b \in B}
Bypass(E, s) == {e \in E : e.src # s /\ e.tgt # s}
                  \cup Joins({e \in E : e.tgt = s}, {e \in E : e.src = s})

\* It is left at once.
Passed(E, s) == \A e \in E : e.src = s => e.tgt # s /\ e.event = NoEvent

LEMMA BypassEdge ==
  ASSUME NEW E, NEW s, Passed(E, s), NEW f \in Bypass(E, s)
  PROVE  /\ f.src # s /\ f.tgt # s
         /\ \/ f \in E
            \/ \E a, b \in E : /\ a.tgt = s /\ b.src = s
                               /\ f.src = a.src /\ f.event = a.event /\ f.tgt = b.tgt
                               /\ f.guard = a.guard \cup b.guard
<1>1. CASE f \in E /\ f.src # s /\ f.tgt # s BY <1>1
<1>2. CASE \E a \in {e \in E : e.tgt = s}, b \in {e \in E : e.src = s} : f = Join(a, b)
  <2>1. PICK a \in {e \in E : e.tgt = s}, b \in {e \in E : e.src = s} : f = Join(a, b) BY <1>2
  <2>2. /\ f.src = a.src /\ f.event = a.event /\ f.tgt = b.tgt
        /\ f.guard = a.guard \cup b.guard
    BY <2>1 DEF Join
  <2>3. a \in E /\ b \in E /\ a.tgt = s /\ b.src = s /\ b.tgt # s /\ a.src # s BY DEF Passed
  <2> QED BY <2>2, <2>3
<1> QED BY <1>1, <1>2 DEF Bypass, Joins

LEMMA JoinIn ==
  ASSUME NEW E, NEW s, NEW a \in E, NEW b \in E, a.tgt = s, b.src = s
  PROVE  \E f \in Bypass(E, s) : /\ f.src = a.src /\ f.event = a.event /\ f.tgt = b.tgt
                                 /\ f.guard = a.guard \cup b.guard
<1>1. Join(a, b) \in Bypass(E, s) BY DEF Bypass, Joins
<1> QED BY <1>1 DEF Join

LEMMA BypassCircle ==
  ASSUME NEW E, NEW s, Passed(E, s), NEW S, Circle(Bypass(E, s), S)
  PROVE  s \notin S /\ (Circle(E, S) \/ Circle(E, S \cup {s}))
<1>1. s \notin S BY BypassEdge DEF Circle
<1>2. CASE \E b \in E : b.src = s /\ b.tgt \in S
  <2>1. PICK b \in E : b.src = s /\ b.tgt \in S BY <1>2
  <2>2. ASSUME NEW x \in S
        PROVE  \E e \in E : e.src = x /\ e.event = NoEvent /\ e.tgt \in S \cup {s}
    <3>1. PICK f \in Bypass(E, s) : f.src = x /\ f.event = NoEvent /\ f.tgt \in S BY DEF Circle
    <3>2. CASE f \in E BY <3>1, <3>2
    <3>3. CASE f \notin E BY <3>1, <3>3, BypassEdge
    <3> QED BY <3>2, <3>3
  <2>3. b.event = NoEvent BY <2>1 DEF Passed
  <2> QED BY <1>1, <2>1, <2>2, <2>3 DEF Circle
<1>3. CASE \A b \in E : b.src = s => b.tgt \notin S
  <2>1. ASSUME NEW x \in S PROVE \E e \in E : e.src = x /\ e.event = NoEvent /\ e.tgt \in S
    <3>1. PICK f \in Bypass(E, s) : f.src = x /\ f.event = NoEvent /\ f.tgt \in S BY DEF Circle
    <3>2. f \in E BY <1>3, <3>1, BypassEdge
    <3> QED BY <3>1, <3>2
  <2> QED BY <1>1, <2>1 DEF Circle
<1> QED BY <1>2, <1>3

LEMMA BypassKeeps ==
  ASSUME NEW E, NEW s, Passed(E, s), NEW T, Circle(E, T)
  PROVE  Circle(Bypass(E, s), T \ {s})
<1>1. T \ {s} # {}
  <2>1. s \in T => \E b \in E : b.src = s /\ b.tgt \in T BY DEF Circle
  <2>2. s \in T => \E t \in T : t # s BY <2>1 DEF Passed
  <2> QED BY <2>2 DEF Circle
<1>2. ASSUME NEW x \in T \ {s}
      PROVE  \E f \in Bypass(E, s) : f.src = x /\ f.event = NoEvent /\ f.tgt \in T \ {s}
  <2>1. PICK e \in E : e.src = x /\ e.event = NoEvent /\ e.tgt \in T BY DEF Circle
  <2>2. CASE e.tgt # s
    <3>1. e \in Bypass(E, s) BY <2>1, <2>2 DEF Bypass
    <3> QED BY <2>1, <2>2, <3>1
  <2>3. CASE e.tgt = s
    <3>1. PICK b \in E : b.src = s /\ b.tgt \in T BY <2>1, <2>3 DEF Circle
    <3>2. b.tgt # s BY <3>1 DEF Passed
    <3>3. PICK f \in Bypass(E, s) : f.src = e.src /\ f.event = e.event /\ f.tgt = b.tgt
      BY <2>3, <3>1, JoinIn
    <3> QED BY <2>1, <3>1, <3>2, <3>3
  <2> QED BY <2>2, <2>3
<1> QED BY <1>1, <1>2 DEF Circle

LEMMA BypassGuided ==
  ASSUME NEW E, NEW s, Passed(E, s), NEW P, Guided(E, P),
         \E e \in E : e.src = s
  PROVE  Guided(Bypass(E, s), P \ {s})
<1> DEFINE F == Bypass(E, s)
<1>1. \A f \in F : f.src \in P \ {s} => f.event = NoEvent BY BypassEdge DEF Guided
<1>2. ASSUME NEW f \in F, f.tgt \in P PROVE \E g \in F : g.src = f.tgt
  <2>1. f.tgt # s BY BypassEdge
  <2>2. PICK e \in E : e.src = f.tgt
    <3>1. \E e \in E : e.tgt = f.tgt BY BypassEdge
    <3> QED BY <1>2, <3>1 DEF Guided
  <2>3. CASE e.tgt # s
    <3>1. e \in F BY <2>1, <2>2, <2>3 DEF Bypass
    <3> QED BY <2>2, <3>1
  <2>4. CASE e.tgt = s
    <3>1. PICK b \in E : b.src = s OBVIOUS
    <3>2. \E g \in F : g.src = e.src BY <2>4, <3>1, JoinIn
    <3> QED BY <2>2, <3>2
  <2> QED BY <2>3, <2>4
<1> HIDE DEF F
<1> QED BY <1>1, <1>2 DEF Guided, F

\* Two guards that are not false are not false together.
LEMMA Whole ==
  ASSUME NEW g, NEW h, g # FalseGuard, h # FalseGuard
  PROVE  g \cup h # FalseGuard
BY DEF FalseGuard

LEMMA BypassProper ==
  ASSUME NEW E, NEW s \in Names, Passed(E, s), NEW J, NEW P, Proper(E, J, P), \E e \in E : e.src = s
  PROVE  Proper(Bypass(E, s), J \ {s}, P \ {s})
<1> DEFINE F == Bypass(E, s)
<1>1. Guided(F, P \ {s}) BY BypassGuided DEF Proper
<1>2. ASSUME NEW f \in F, f.event = NoEvent PROVE f.guard # FalseGuard
  <2>1. CASE f \in E BY <1>2, <2>1 DEF Proper, Enabled
  <2>2. CASE f \notin E
    <3>1. PICK a, b \in E : /\ a.tgt = s /\ b.src = s /\ f.event = a.event
                            /\ f.guard = a.guard \cup b.guard
      BY <2>2, BypassEdge
    <3>2. a.guard # FalseGuard /\ b.guard # FalseGuard
      BY <1>2, <3>1 DEF Proper, Enabled, Passed
    <3> QED BY <3>1, <3>2, Whole
  <2> QED BY <2>1, <2>2
<1>3. ASSUME NEW S \in SUBSET Names, Circle(F, S)
      PROVE  \E T \in SUBSET (S \cap (J \ {s})) : Circle(F, T)
  <2>1. PICK Z \in SUBSET Names : Circle(E, Z) /\ Z \subseteq S \cup {s} /\ s \notin S
    <3>1. s \notin S /\ (Circle(E, S) \/ Circle(E, S \cup {s})) BY <1>3, BypassCircle
    <3>2. S \cup {s} \in SUBSET Names OBVIOUS
    <3> QED BY <3>1, <3>2
  <2>2. PICK T \in SUBSET (Z \cap J) : Circle(E, T) BY <2>1 DEF Proper
  <2>3. Circle(F, T \ {s}) BY <2>2, BypassKeeps
  <2>4. T \ {s} \in SUBSET (S \cap (J \ {s})) BY <2>1
  <2> QED BY <2>3, <2>4
<1> HIDE DEF F
<1> QED BY <1>1, <1>2, <1>3 DEF Proper, Enabled, F

LEMMA BypassCaught ==
  ASSUME NEW E, NEW s \in Names, s # Initial, Passed(E, s), NEW J, Enabled(E), Caught(E, J)
  PROVE  Caught(Bypass(E, s), J \ {s})
<1> DEFINE F == Bypass(E, s)
<1>1. PICK T \in SUBSET J : Circle(E, T) /\ \A S \in SUBSET Names : Closed(E, S) => T \subseteq S
  BY DEF Caught
<1>2. Circle(F, T \ {s}) BY <1>1, BypassKeeps
<1>3. ASSUME NEW S \in SUBSET Names, Closed(F, S) PROVE T \ {s} \subseteq S
  <2> DEFINE into == \E a \in E : a.tgt = s /\ a.src \in S \ {s} /\ a.guard # FalseGuard
             Z == (S \ {s}) \cup (IF into THEN {s} ELSE {})
  <2>1. ASSUME NEW e \in E, e.src \in Z, e.guard # FalseGuard PROVE e.tgt \in Z
    <3>1. CASE e.src = s
      <4>1. PICK a \in E : a.tgt = s /\ a.src \in S \ {s} /\ a.guard # FalseGuard BY <2>1, <3>1
      <4>2. PICK f \in F : f.src = a.src /\ f.tgt = e.tgt /\ f.guard = a.guard \cup e.guard
        BY <3>1, <4>1, JoinIn
      <4>3. f.guard # FalseGuard BY <2>1, <4>1, <4>2, Whole
      <4>4. e.tgt \in S BY <1>3, <4>1, <4>2, <4>3 DEF Closed
      <4>5. e.tgt # s BY <3>1 DEF Passed
      <4> QED BY <4>4, <4>5
    <3>2. CASE e.src # s /\ e.tgt # s
      <4>1. e \in F /\ e.src \in S BY <2>1, <3>2 DEF Bypass
      <4>2. e.tgt \in S BY <1>3, <2>1, <4>1 DEF Closed
      <4> QED BY <3>2, <4>2
    <3>3. CASE e.src # s /\ e.tgt = s
      <4>1. e.src \in S \ {s} BY <2>1, <3>3
      <4>2. into BY <2>1, <3>3, <4>1
      <4> QED BY <3>3, <4>2
    <3> QED BY <3>1, <3>2, <3>3
  <2>2. Z \in SUBSET Names /\ Initial \in Z BY <1>3 DEF Closed
  <2> HIDE DEF into, Z
  <2>3. Closed(E, Z) BY <2>1, <2>2 DEF Closed
  <2>4. T \subseteq Z BY <1>1, <2>2, <2>3
  <2> QED BY <2>4 DEF Z
<1>4. T \ {s} \in SUBSET (J \ {s}) OBVIOUS
<1> QED BY <1>2, <1>3, <1>4 DEF Caught

\* States that look alike are merged: h is the state that stands for each.
Moved(e, h) == [src |-> h[e.src], event |-> e.event, guard |-> e.guard, tgt |-> h[e.tgt]]
Quotient(E, h) == {Moved(e, h) : e \in E}

\* The states that one stands for have edges alike, to states alike.
SameWays(E, D, h) ==
  \A e \in E : \A t \in D : h[t] = h[e.src] =>
    \E f \in E : f.src = t /\ f.event = e.event /\ f.guard = e.guard /\ h[f.tgt] = h[e.tgt]

\* h maps the states of D to states of D of the same kind.
Foldable(E, D, h) ==
  /\ \A e \in E : e.src \in D /\ e.tgt \in D
  /\ SameWays(E, D, h)

LEMMA QuotientEdge ==
  ASSUME NEW E, NEW h, NEW f \in Quotient(E, h)
  PROVE  \E e \in E : /\ f.src = h[e.src] /\ f.event = e.event
                      /\ f.guard = e.guard /\ f.tgt = h[e.tgt]
BY DEF Quotient, Moved

LEMMA QuotientIn ==
  ASSUME NEW E, NEW h, NEW e \in E
  PROVE  \E f \in Quotient(E, h) : /\ f.src = h[e.src] /\ f.event = e.event
                                   /\ f.guard = e.guard /\ f.tgt = h[e.tgt]
<1>1. Moved(e, h) \in Quotient(E, h) BY DEF Quotient
<1> QED BY <1>1 DEF Moved

LEMMA QuotientCircle ==
  ASSUME NEW E, NEW D, NEW h, Foldable(E, D, h), NEW S, Circle(Quotient(E, h), S)
  PROVE  Circle(E, {x \in D : h[x] \in S})
<1> DEFINE Z == {x \in D : h[x] \in S}
<1>1. Z # {}
  <2>1. PICK s \in S : TRUE BY DEF Circle
  <2>2. PICK f \in Quotient(E, h) : f.src = s BY DEF Circle
  <2>3. PICK e \in E : f.src = h[e.src] BY QuotientEdge
  <2> QED BY <2>1, <2>2, <2>3 DEF Foldable
<1>2. ASSUME NEW x \in Z PROVE \E e \in E : e.src = x /\ e.event = NoEvent /\ e.tgt \in Z
  <2>1. PICK f \in Quotient(E, h) : f.src = h[x] /\ f.event = NoEvent /\ f.tgt \in S BY DEF Circle
  <2>2. PICK e \in E : f.src = h[e.src] /\ f.event = e.event /\ f.tgt = h[e.tgt] BY QuotientEdge
  <2>3. PICK g \in E : g.src = x /\ g.event = e.event /\ h[g.tgt] = h[e.tgt]
    <3>1. x \in D /\ h[x] = h[e.src] BY <2>1, <2>2
    <3> HIDE DEF Z
    <3> QED BY <3>1 DEF Foldable, SameWays
  <2>4. g.tgt \in D BY DEF Foldable
  <2> QED BY <2>1, <2>2, <2>3, <2>4
<1> QED BY <1>1, <1>2 DEF Circle

LEMMA QuotientKeeps ==
  ASSUME NEW E, NEW h, NEW T, Circle(E, T)
  PROVE  Circle(Quotient(E, h), {h[x] : x \in T})
<1>1. ASSUME NEW x \in T
      PROVE  \E f \in Quotient(E, h) : /\ f.src = h[x] /\ f.event = NoEvent
                                       /\ f.tgt \in {h[y] : y \in T}
  <2>1. PICK e \in E : e.src = x /\ e.event = NoEvent /\ e.tgt \in T BY DEF Circle
  <2> QED BY <2>1, QuotientIn
<1> QED BY <1>1 DEF Circle

LEMMA QuotientProper ==
  ASSUME NEW E, NEW D \in SUBSET Names, NEW h, Foldable(E, D, h), NEW J, NEW P, NEW K, NEW Q,
         \A x \in D : h[x] \in Q => x \in P,
         \A x \in J \cap D : h[x] \in K,
         Proper(E, J, P)
  PROVE  Proper(Quotient(E, h), K, Q)
<1> DEFINE F == Quotient(E, h)
<1>1. Guided(F, Q)
  <2>1. ASSUME NEW f \in F, f.src \in Q PROVE f.event = NoEvent
    <3>1. PICK e \in E : f.src = h[e.src] /\ f.event = e.event BY QuotientEdge
    <3>2. e.src \in P BY <2>1, <3>1 DEF Foldable
    <3> QED BY <3>1, <3>2 DEF Proper, Guided
  <2>2. ASSUME NEW f \in F, f.tgt \in Q PROVE \E g \in F : g.src = f.tgt
    <3>1. PICK e \in E : f.tgt = h[e.tgt] BY QuotientEdge
    <3>2. e.tgt \in P BY <2>2, <3>1 DEF Foldable
    <3>3. PICK b \in E : b.src = e.tgt BY <3>2 DEF Proper, Guided
    <3> QED BY <3>1, <3>3, QuotientIn
  <2> QED BY <2>1, <2>2 DEF Guided
<1>2. Enabled(F) BY QuotientEdge DEF Proper, Enabled
<1>3. ASSUME NEW S \in SUBSET Names, Circle(F, S)
      PROVE  \E T \in SUBSET (S \cap K) : Circle(F, T)
  <2> DEFINE Z == {x \in D : h[x] \in S}
  <2>1. Circle(E, Z) BY <1>3, QuotientCircle
  <2>2. PICK T \in SUBSET (Z \cap J) : Circle(E, T) BY <2>1 DEF Proper
  <2>3. Circle(F, {h[x] : x \in T}) BY <2>2, QuotientKeeps
  <2>4. {h[x] : x \in T} \in SUBSET (S \cap K) OBVIOUS
  <2> QED BY <2>3, <2>4
<1> QED BY <1>1, <1>2, <1>3 DEF Proper

LEMMA QuotientCaught ==
  ASSUME NEW E, NEW D \in SUBSET Names, NEW h, Foldable(E, D, h), NEW J, NEW K,
         Initial \in D, h[Initial] = Initial,
         \A x \in J \cap D : h[x] \in K,
         Caught(E, J)
  PROVE  Caught(Quotient(E, h), K)
<1> DEFINE F == Quotient(E, h)
<1>1. PICK T \in SUBSET J : Circle(E, T) /\ \A S \in SUBSET Names : Closed(E, S) => T \subseteq S
  BY DEF Caught
<1>2. T \subseteq D BY <1>1 DEF Circle, Foldable
<1>3. Circle(F, {h[x] : x \in T}) BY <1>1, QuotientKeeps
<1>4. ASSUME NEW S \in SUBSET Names, Closed(F, S) PROVE {h[x] : x \in T} \subseteq S
  <2> DEFINE Z == {x \in D : h[x] \in S}
  <2>1. ASSUME NEW e \in E, e.src \in Z, e.guard # FalseGuard PROVE e.tgt \in Z
    <3>1. PICK f \in F : f.src = h[e.src] /\ f.guard = e.guard /\ f.tgt = h[e.tgt] BY QuotientIn
    <3>2. f.tgt \in S BY <1>4, <2>1, <3>1 DEF Closed
    <3> QED BY <3>1, <3>2 DEF Foldable
  <2>2. Initial \in Z BY <1>4 DEF Closed
  <2>3. Closed(E, Z) BY <2>1, <2>2 DEF Closed
  <2>4. T \subseteq Z BY <1>1, <2>3
  <2> QED BY <2>4
<1>5. {h[x] : x \in T} \in SUBSET K BY <1>2
<1> QED BY <1>3, <1>4, <1>5 DEF Caught

-----------------------------------------------------------------------------
\* A finite set without a circle is ordered: some function into as many
\* numbers as it has states falls along every edge that stays in it.
Falls(E, D, rank) ==
  \A e \in E : e.event = NoEvent /\ e.src \in D /\ e.tgt \in D => rank[e.tgt] < rank[e.src]

LEMMA NoCircleFalls ==
  ASSUME NEW E, NEW D, IsFiniteSet(D), \A S \in SUBSET D : ~Circle(E, S)
  PROVE  \E rank \in [D -> Nat] : /\ \A x \in D : rank[x] < Cardinality(D)
                                  /\ Falls(E, D, rank)
<1> DEFINE Good(S) == \E rank \in [S -> Nat] : /\ \A x \in S : rank[x] < Cardinality(S)
                                               /\ Falls(E, S, rank)
           T == {n \in Nat : \A S \in SUBSET D : Cardinality(S) = n => Good(S)}
<1>1. \A S \in SUBSET D : IsFiniteSet(S) /\ Cardinality(S) \in Nat BY FS_Subset, FS_CardinalityType
<1>2. 0 \in T
  <2> SUFFICES ASSUME NEW S \in SUBSET D, Cardinality(S) = 0 PROVE Good(S) OBVIOUS
  <2>1. S = {} BY <1>1, FS_EmptySet
  <2>2. [x \in {} |-> 0] \in [S -> Nat] BY <2>1
  <2> QED BY <2>1, <2>2 DEF Falls
<1>3. ASSUME NEW n \in T PROVE n + 1 \in T
  <2> SUFFICES ASSUME NEW S \in SUBSET D, Cardinality(S) = n + 1 PROVE Good(S) OBVIOUS
  <2>a. n \in Nat /\ IsFiniteSet(S) BY <1>1
  <2>b. \A Z \in SUBSET D : Cardinality(Z) = n => Good(Z) OBVIOUS
  <2> HIDE DEF T, Good
  <2>1. S # {}
    <3>1. Cardinality(S) # 0 BY <2>a
    <3> QED BY <3>1, <2>a, FS_EmptySet
  <2>2. PICK s \in S : \A e \in E : e.src = s /\ e.event = NoEvent => e.tgt \notin S
    BY <2>1 DEF Circle
  <2>3. Cardinality(S \ {s}) = n
    <3>1. Cardinality(S \ {s}) = Cardinality(S) - 1 BY <2>a, FS_RemoveElement
    <3> QED BY <2>a, <3>1
  <2>4. Good(S \ {s}) BY <2>3, <2>b
  <2>5. PICK r \in [S \ {s} -> Nat] : /\ \A x \in S \ {s} : r[x] < n
                                      /\ Falls(E, S \ {s}, r)
    BY <2>3, <2>4 DEF Good
  <2> DEFINE rank == [x \in S |-> IF x = s THEN 0 ELSE r[x] + 1]
  <2>6. rank \in [S -> Nat] /\ \A x \in S : rank[x] < n + 1 BY <2>a, <2>5
  <2>7. ASSUME NEW e \in E, e.event = NoEvent, e.src \in S, e.tgt \in S
        PROVE  rank[e.tgt] < rank[e.src]
    <3>1. e.src # s /\ rank[e.src] = r[e.src] + 1 BY <2>2, <2>7
    <3>2. CASE e.tgt = s BY <2>5, <2>7, <3>1, <3>2
    <3>3. CASE e.tgt # s
      <4>1. r[e.tgt] < r[e.src] BY <2>5, <2>7, <3>1, <3>3 DEF Falls
      <4>2. rank[e.tgt] = r[e.tgt] + 1 /\ r[e.tgt] \in Nat /\ r[e.src] \in Nat
        BY <2>5, <2>7, <3>1, <3>3
      <4> HIDE DEF rank
      <4> QED BY <3>1, <4>1, <4>2
    <3> QED BY <3>2, <3>3
  <2> HIDE DEF rank
  <2>8. Falls(E, S, rank) BY <2>7 DEF Falls
  <2> QED BY <2>6, <2>8 DEF Good
<1> HIDE DEF T
<1>4. T = Nat BY <1>2, <1>3, NatSet DEF T
<1> HIDE DEF Good
<1>5. Cardinality(D) \in T BY <1>1, <1>4
<1>6. Good(D) BY <1>5 DEF T
<1> QED BY <1>6 DEF Good

-----------------------------------------------------------------------------
(* EJUNC001 is raised for a circle of junctions.                            *)

\* The junctions the rows from S lead to.
Onto(m, S) == {m.rows[i].tgt : i \in {i \in DOMAIN m.rows : m.rows[i].src \in S}} \cap Junctions(m)

FromIs(R, m, j) ==
  R = [k \in 0 .. Cardinality(Junctions(m)) |->
         IF k = 0 THEN Onto(m, {j}) ELSE LET S == R[k - 1] IN S \cup Onto(m, S)]

\* What the search from j finds.
From(m, j) == (CHOOSE R : FromIs(R, m, j))[Cardinality(Junctions(m))]

LEMMA CycleIs ==
  ASSUME NEW m
  PROVE  JunctionCycle(m) <=> \E j \in Junctions(m) : j \in From(m, j)
BY DEF JunctionCycle, From, FromIs, Onto, Junctions

LEMMA JunctionsFinite ==
  ASSUME NEW m
  PROVE  /\ Junctions(m) \in SUBSET Names /\ IsFiniteSet(Junctions(m))
         /\ Cardinality(Junctions(m)) \in Nat
BY Numbers, FS_Subset, FS_CardinalityType DEF Junctions, OfKind

LEMMA FromType ==
  ASSUME NEW m, NEW j
  PROVE  /\ From(m, j) \subseteq Junctions(m)
         /\ Onto(m, {j}) \subseteq From(m, j)
         /\ Onto(m, From(m, j)) \subseteq From(m, j)
         /\ \A Z : Onto(m, {j}) \subseteq Z /\ Onto(m, Z) \subseteq Z => From(m, j) \subseteq Z
<1> DEFINE P == Junctions(m)
           n == Cardinality(P)
           R == CHOOSE R : FromIs(R, m, j)
           S == SUBSET P
           z == Onto(m, {j})
           next == [A \in S |-> A \cup Onto(m, A)]
           g == [k \in Nat |-> next]
<1>1. n \in Nat /\ IsFiniteSet(P) BY JunctionsFinite
<1>2. z \in S /\ \A A : Onto(m, A) \in S BY DEF Onto
<1>3. next \in [S -> S] BY <1>2
<1>4. \A A \in S : next[A] = A \cup Onto(m, A) OBVIOUS
<1>5. From(m, j) = R[n] BY DEF From
<1>6. \A f : FromIs(f, m, j) <=>
              f = [k \in 0 .. n |-> IF k = 0 THEN z ELSE f[k - 1] \cup Onto(m, f[k - 1])]
  BY DEF FromIs
<1> HIDE DEF next
<1>7. g \in [Nat -> [S -> S]] /\ \A k \in Nat : g[k] = next BY <1>3
<1> HIDE DEF g, n, S, P
<1>8. PICK f : Recurs(f, S, z, g, n) BY <1>1, <1>2, <1>7, Recursion
<1>9. f \in [0 .. n -> S] /\ f[0] = z /\ \A k \in 1 .. n : f[k] = next[f[k - 1]]
  BY <1>1, <1>7, <1>8 DEF Recurs
<1>10. FromIs(f, m, j)
  <2> DEFINE e == [k \in 0 .. n |-> IF k = 0 THEN z ELSE f[k - 1] \cup Onto(m, f[k - 1])]
  <2>1. ASSUME NEW k \in 0 .. n PROVE f[k] = e[k]
    <3>1. CASE k = 0 BY <1>9, <3>1
    <3>2. CASE k # 0
      <4>1. k \in 1 .. n /\ k - 1 \in 0 .. n BY <1>1, <3>2
      <4>2. f[k - 1] \in S BY <1>9, <4>1
      <4> QED BY <1>4, <1>9, <3>2, <4>1, <4>2
    <3> QED BY <3>1, <3>2
  <2>2. f = e BY <1>9, <2>1
  <2> QED BY <1>6, <2>2
<1>11. FromIs(R, m, j) BY <1>10
<1> HIDE DEF R
<1>12. R = [k \in 0 .. n |-> IF k = 0 THEN z ELSE R[k - 1] \cup Onto(m, R[k - 1])]
  BY <1>6, <1>11
<1>13. R[0] = z
  <2>1. 0 \in 0 .. n BY <1>1
  <2> QED BY <1>12, <2>1
<1>14. ASSUME NEW k \in 1 .. n PROVE R[k] = R[k - 1] \cup Onto(m, R[k - 1])
  <2>1. k \in 0 .. n /\ k # 0 BY <1>1
  <2> QED BY <1>12, <2>1
<1>15. ASSUME NEW k \in 1 .. n, R[k - 1] \in S PROVE R[k] \in S
  BY <1>2, <1>14, <1>15 DEF S
<1> HIDE DEF z
<1>16. \A k \in 0 .. n : R[k] \in S BY <1>1, <1>2, <1>13, <1>15, Along
<1>17. ASSUME NEW k \in 1 .. n PROVE R[k] = next[R[k - 1]]
  <2>1. k - 1 \in 0 .. n BY <1>1
  <2> QED BY <1>4, <1>14, <1>16, <2>1
<1>18. Grows(P, next) BY <1>3, <1>4 DEF S, Grows
<1>19. Search(R, z, next, n) BY <1>13, <1>17 DEF Search
<1>20. z # {} \/ next[z] = z
  <2>1. Onto(m, {}) = {} BY DEF Onto
  <2> QED BY <1>2, <1>4, <2>1
<1>21. R[n] \in SUBSET P /\ z \subseteq R[n] /\ next[R[n]] = R[n]
  <2>1. Cardinality(P) <= n BY <1>1 DEF n
  <2> QED BY <1>1, <1>2, <1>18, <1>19, <1>20, <2>1, SearchEnds DEF S
<1>22. Onto(m, R[n]) \subseteq R[n] BY <1>4, <1>21 DEF S
<1>23. ASSUME NEW Z, z \subseteq Z, Onto(m, Z) \subseteq Z PROVE R[n] \subseteq Z
  <2>1. \A A \in SUBSET P : A \subseteq Z => next[A] \subseteq Z
    <3>1. \A A : A \subseteq Z => Onto(m, A) \subseteq Onto(m, Z) BY DEF Onto
    <3> QED BY <1>4, <1>23, <3>1 DEF S
  <2>2. z \in SUBSET P BY <1>2 DEF S
  <2> QED BY <1>1, <1>18, <1>19, <1>23, <2>1, <2>2, SearchLeast
<1> QED BY <1>5, <1>21, <1>22, <1>23 DEF z, P

\* A row stays in T from each of its states.
Ring(m, T) == T # {} /\ \A t \in T : Onto(m, {t}) \cap T # {}

LEMMA OntoParts ==
  ASSUME NEW m, NEW S, NEW Z
  PROVE  Onto(m, S) \subseteq Z <=> \A s \in S : Onto(m, {s}) \subseteq Z
BY DEF Onto

LEMMA CycleRing ==
  ASSUME NEW m
  PROVE  JunctionCycle(m) <=> \E T \in SUBSET Junctions(m) : Ring(m, T)
<1>1. ASSUME JunctionCycle(m) PROVE \E T \in SUBSET Junctions(m) : Ring(m, T)
  <2>1. PICK j \in Junctions(m) : j \in From(m, j) BY <1>1, CycleIs
  <2> DEFINE T == {x \in Junctions(m) : j \in From(m, x)}
  <2>2. ASSUME NEW x \in T PROVE Onto(m, {x}) \cap T # {}
    <3> DEFINE Z == Onto(m, {x}) \cup UNION {From(m, y) : y \in Onto(m, {x})}
    <3>1. Onto(m, Z) \subseteq Z
      <4>a. Onto(m, Z) \subseteq Z <=> \A s \in Z : Onto(m, {s}) \subseteq Z
        <5> HIDE DEF Z
        <5> QED BY OntoParts
      <4> SUFFICES ASSUME NEW s \in Z PROVE Onto(m, {s}) \subseteq Z BY <4>a
      <4>1. CASE s \in Onto(m, {x})
        <5>1. Onto(m, {s}) \subseteq From(m, s) BY FromType
        <5> QED BY <4>1, <5>1
      <4>2. ASSUME NEW y \in Onto(m, {x}), s \in From(m, y) PROVE Onto(m, {s}) \subseteq Z
        <5>1. Onto(m, From(m, y)) \subseteq From(m, y) BY FromType
        <5>2. Onto(m, {s}) \subseteq From(m, y) BY <4>2, <5>1, OntoParts
        <5> QED BY <5>2
      <4> QED BY <4>1, <4>2
    <3>2. From(m, x) \subseteq Z
      <4>1. Onto(m, {x}) \subseteq Z OBVIOUS
      <4> HIDE DEF Z
      <4> QED BY <3>1, <4>1, FromType
    <3>3. \A y \in Onto(m, {x}) : y \in Junctions(m) BY DEF Onto
    <3>4. CASE j \in Onto(m, {x}) BY <2>1, <3>4
    <3>5. CASE j \notin Onto(m, {x}) BY <3>2, <3>3, <3>5
    <3> QED BY <3>4, <3>5
  <2> QED BY <2>1, <2>2 DEF Ring
<1>2. ASSUME NEW T \in SUBSET Junctions(m), Ring(m, T) PROVE JunctionCycle(m)
  <2> SUFFICES ASSUME \A j \in Junctions(m) : j \notin From(m, j) PROVE FALSE BY CycleIs
  <2> DEFINE size(x) == Cardinality(From(m, x))
             L == {size(x) : x \in T}
  <2>1. \A x : IsFiniteSet(From(m, x)) /\ size(x) \in Nat
    BY JunctionsFinite, FromType, FS_Subset, FS_CardinalityType
  <2>2. L \in SUBSET Nat /\ L # {} BY <1>2, <2>1 DEF Ring
  <2>3. PICK l \in L : \A k \in L : l <= k BY <2>2, LeastNat
  <2>4. PICK x \in T : l = size(x) OBVIOUS
  <2>5. PICK y \in T : y \in Onto(m, {x}) BY <1>2 DEF Ring
  <2>6. y \in From(m, x) /\ Onto(m, From(m, x)) \subseteq From(m, x) BY <2>5, FromType
  <2>7. Onto(m, {y}) \subseteq From(m, x) BY <2>6, OntoParts
  <2>8. From(m, y) \subseteq From(m, x) \ {y} BY <2>6, <2>7, FromType
  <2>9. size(y) <= Cardinality(From(m, x) \ {y}) BY <2>1, <2>8, FS_Subset, FS_RemoveElement
  <2>10. Cardinality(From(m, x) \ {y}) = size(x) - 1 BY <2>1, <2>6, FS_RemoveElement
  <2>11. size(x) <= size(y) BY <2>3, <2>4
  <2> QED BY <2>1, <2>9, <2>10, <2>11
<1> QED BY <1>1, <1>2

\* A ring is a circle where the rows of the junctions have no event.
LEMMA EdgeIn ==
  ASSUME NEW m, NEW D, m.rows \in Seq(D)
  PROVE  /\ \A i \in DOMAIN m.rows : Edge(m.rows[i]) \in Edges(m)
         /\ \A e \in Edges(m) : \E i \in DOMAIN m.rows : e = Edge(m.rows[i])
BY DEF Edges, Els

LEMMA RingCircle ==
  ASSUME NEW m, NEW T \in SUBSET Junctions(m)
  PROVE  /\ Circle(Edges(m), T) => Ring(m, T)
         /\ Guided(Edges(m), Pseudo(m)) /\ Ring(m, T) => Circle(Edges(m), T)
<1>1. ASSUME Circle(Edges(m), T) PROVE Ring(m, T)
  <2>1. ASSUME NEW t \in T PROVE Onto(m, {t}) \cap T # {}
    <3>1. PICK e \in Edges(m) : e.src = t /\ e.tgt \in T BY <1>1 DEF Circle
    <3>2. PICK i \in DOMAIN m.rows : e = Edge(m.rows[i]) BY DEF Edges, Els
    <3>3. m.rows[i].src = t /\ m.rows[i].tgt \in T BY <3>1, <3>2 DEF Edge
    <3>4. m.rows[i].tgt \in Onto(m, {t}) BY <3>3 DEF Onto
    <3> QED BY <3>3, <3>4
  <2> QED BY <1>1, <2>1 DEF Ring, Circle
<1>2. ASSUME Guided(Edges(m), Pseudo(m)), Ring(m, T) PROVE Circle(Edges(m), T)
  <2>1. ASSUME NEW t \in T
        PROVE  \E e \in Edges(m) : e.src = t /\ e.event = NoEvent /\ e.tgt \in T
    <3>1. PICK y \in Onto(m, {t}) : y \in T BY <1>2 DEF Ring
    <3>2. PICK i \in DOMAIN m.rows : m.rows[i].src = t /\ m.rows[i].tgt = y BY DEF Onto
    <3> DEFINE e == Edge(m.rows[i])
    <3>3. e \in Edges(m) /\ e.src = t /\ e.tgt = y BY <3>2 DEF Edges, Els, Edge
    <3>4. t \in Pseudo(m) BY DEF Junctions, Pseudo, OfKind
    <3>5. e.event = NoEvent BY <1>2, <3>3, <3>4 DEF Guided
    <3> QED BY <3>1, <3>3, <3>5
  <2> QED BY <1>2, <2>1 DEF Ring, Circle
<1> QED BY <1>1, <1>2

-----------------------------------------------------------------------------
(* What the passes make of the edges.                                       *)

LEMMA EdgesAt == ASSUME NEW m PROVE Edges(m) = {Edge(m.rows[i]) : i \in DOMAIN m.rows}
BY DEF Edges, Els

LEMMA EdgesEls == ASSUME NEW m, NEW n, Els(n.rows) = Els(m.rows) PROVE Edges(n) = Edges(m)
BY DEF Edges

\* Rows that differ in their actions.
LEMMA RowsEdges ==
  ASSUME NEW m, NEW n, DOMAIN n.rows = DOMAIN m.rows,
         \A i \in DOMAIN m.rows : Edge(n.rows[i]) = Edge(m.rows[i])
  PROVE  Edges(n) = Edges(m)
BY EdgesAt

LEMMA ActEdge ==
  ASSUME NEW r \in Rows, NEW a
  PROVE  Edge([r EXCEPT !.act = a]) = Edge(r)
<1>1. [r EXCEPT !.act = a] = [src |-> r.src, event |-> r.event, guard |-> r.guard,
                              prio |-> r.prio, tgt |-> r.tgt, act |-> a]
  BY RowParts
<1> QED BY <1>1 DEF Edge

LEMMA FitRow ==
  ASSUME NEW m, Fit(m), NEW i \in DOMAIN m.rows
  PROVE  /\ m.rows[i] \in Rows
         /\ m.rows[i].src \in Present(m) /\ m.rows[i].tgt \in Present(m)
<1>1. m.rows \in Seq(Joining(Present(m))) BY FitParts
<1>2. m.rows[i] \in Joining(Present(m)) BY <1>1
<1> QED BY <1>2 DEF Joining

LEMMA FitEdge ==
  ASSUME NEW m, Fit(m), NEW e \in Edges(m)
  PROVE  /\ e.src \in Present(m) /\ e.tgt \in Present(m)
         /\ e.src \in Names /\ e.tgt \in Names
<1>1. PICK i \in DOMAIN m.rows : e = Edge(m.rows[i]) BY EdgesAt
<1>2. e.src = m.rows[i].src /\ e.tgt = m.rows[i].tgt BY <1>1 DEF Edge
<1> QED BY <1>2, FitRow, FitParts

LEMMA BareEdges ==
  ASSUME NEW m, Fit(m), NEW n, NEW I, n.rows = Bare(m.rows, I)
  PROVE  Edges(n) = Edges(m)
<1>1. DOMAIN n.rows = DOMAIN m.rows BY DEF Bare
<1>2. ASSUME NEW i \in DOMAIN m.rows PROVE Edge(n.rows[i]) = Edge(m.rows[i])
  <2>1. n.rows[i] = IF i \in I THEN [m.rows[i] EXCEPT !.act = NoAction] ELSE m.rows[i] BY DEF Bare
  <2>2. m.rows[i] \in Rows BY FitRow
  <2> QED BY <2>1, <2>2, ActEdge
<1> QED BY <1>1, <1>2, RowsEdges

\* The same edges between states of the same kinds.
Kept(m, n) == Edges(n) = Edges(m) /\ n.kind = m.kind

LEMMA CanonicalKept == ASSUME NEW m, Fit(m) PROVE Kept(m, Canonical(m))
BY CanonicalFit, EdgesEls DEF Kept

LEMMA EnforcedKept == ASSUME NEW m, Fit(m) PROVE Kept(m, Enforced(m))
BY EnforcedFit, EdgesEls DEF Kept

LEMMA FactoredInKept == ASSUME NEW m, Fit(m) PROVE Kept(m, FactoredIn(m))
<1> DEFINE S == {s \in OfKind(m, {"atomic"}) \ {Initial} : Shared(m, In(m, s))}
           I == UNION {In(m, s) : s \in S}
           entry == [s \in Names |-> IF s \in S THEN <<SharedAct(m, In(m, s))>> \o m.entry[s]
                                     ELSE m.entry[s]]
<1>1. FactoredIn(m) = [m EXCEPT !.entry = entry, !.rows = Bare(m.rows, I)] BY DEF FactoredIn
<1> HIDE DEF entry, I
<1>2. m \in Machines BY DEF Fit
<1>3. FactoredIn(m).rows = Bare(m.rows, I) /\ FactoredIn(m).kind = m.kind
  BY <1>1, <1>2 DEF Machines
<1> QED BY <1>3, BareEdges DEF Kept

LEMMA FactoredOutKept == ASSUME NEW m, Fit(m) PROVE Kept(m, FactoredOut(m))
<1> DEFINE S == {s \in OfKind(m, {"atomic"}) : Shared(m, Out(m, s))}
           I == UNION {Out(m, s) : s \in S}
           exit == [s \in Names |-> IF s \in S THEN m.exit[s] \o <<SharedAct(m, Out(m, s))>>
                                    ELSE m.exit[s]]
<1>1. FactoredOut(m) = [m EXCEPT !.exit = exit, !.rows = Bare(m.rows, I)] BY DEF FactoredOut
<1> HIDE DEF exit, I
<1>2. m \in Machines BY DEF Fit
<1>3. FactoredOut(m).rows = Bare(m.rows, I) /\ FactoredOut(m).kind = m.kind
  BY <1>1, <1>2 DEF Machines
<1> QED BY <1>3, BareEdges DEF Kept

LEMMA BoundaryFusedKept == ASSUME NEW m, Fit(m) PROVE Kept(m, BoundaryFused(m))
<1> DEFINE T == Touched(m)
           rows == BoundaryRows(m)
           exit == [s \in Names |-> IF Out(m, s) \cap T # {} THEN << >> ELSE m.exit[s]]
           entry == [s \in Names |-> IF In(m, s) \cap T # {} THEN << >> ELSE m.entry[s]]
<1>1. BoundaryFused(m) = [m EXCEPT !.rows = rows, !.exit = exit, !.entry = entry]
  BY DEF BoundaryFused
<1>2. m \in Machines BY DEF Fit
<1> HIDE DEF exit, entry, rows
<1>3. BoundaryFused(m).rows = rows /\ BoundaryFused(m).kind = m.kind BY <1>1, <1>2 DEF Machines
<1>4. DOMAIN rows = DOMAIN m.rows BY DEF rows, BoundaryRows
<1>5. ASSUME NEW i \in DOMAIN m.rows PROVE Edge(rows[i]) = Edge(m.rows[i])
  <2>1. PICK a \in Actions : rows[i] = [m.rows[i] EXCEPT !.act = a] BY BoundaryRow DEF rows
  <2>2. m.rows[i] \in Rows BY FitRow
  <2> QED BY <2>1, <2>2, ActEdge
<1>6. Edges(BoundaryFused(m)) = Edges(m) BY <1>3, <1>4, <1>5, RowsEdges
<1> QED BY <1>3, <1>6 DEF Kept

LEMMA EmittedKept == ASSUME NEW m, Fit(m) PROVE Kept(m, Emitted(m))
<1>1. m \in Machines BY DEF Fit
<1>2. Emitted(m).rows = StructRows(m) /\ Emitted(m).kind = m.kind BY <1>1, EmittedIs
<1>3. DOMAIN StructRows(m) = DOMAIN m.rows BY DEF StructRows
<1>4. ASSUME NEW i \in DOMAIN m.rows PROVE Edge(StructRows(m)[i]) = Edge(m.rows[i])
  <2>1. StructRows(m)[i] = [m.rows[i] EXCEPT !.act = Struct(m, m.rows[i].act)] BY DEF StructRows
  <2>2. m.rows[i] \in Rows BY FitRow
  <2> QED BY <2>1, <2>2, ActEdge
<1>5. Edges(Emitted(m)) = Edges(m) BY <1>2, <1>3, <1>4, RowsEdges
<1> QED BY <1>2, <1>5 DEF Kept

\* The states of S are erased and the rows are others.
Cut(m, S, rows) == [Erase(m, S) EXCEPT !.rows = rows]

LEMMA Erased ==
  ASSUME NEW m, Fit(m), NEW S, NEW rows, NEW n, n = Cut(m, S, rows)
  PROVE  /\ n.rows = rows
         /\ Junctions(n) = Junctions(m) \ S /\ Pseudo(n) = Pseudo(m) \ S
         /\ \A s \in Names \ S : n.kind[s] = m.kind[s]
<1>1. m \in Machines BY DEF Fit
<1>2. /\ n.rows = rows
      /\ n.kind = [x \in Names |-> IF x \in S THEN "gone" ELSE m.kind[x]]
  <2> DEFINE K == [x \in Names |-> IF x \in S THEN "gone" ELSE m.kind[x]]
  <2>1. Erase(m, S) = [m EXCEPT !.kind = K] BY <1>1 DEF Erase, Machines
  <2> HIDE DEF K
  <2>2. Erase(m, S) = [kind |-> K, entry |-> m.entry, exit |-> m.exit, rows |-> m.rows]
    BY <1>1, <2>1, Parts
  <2>3. n.rows = rows /\ n.kind = K BY <2>2 DEF Cut
  <2> QED BY <2>3 DEF K
<1> QED BY <1>2 DEF Junctions, Pseudo, OfKind

LEMMA ErasedRows ==
  ASSUME NEW m, Fit(m), NEW S
  PROVE  Erase(m, S).rows = m.rows
<1>1. m \in Machines BY DEF Fit
<1> QED BY <1>1, Parts DEF Erase

LEMMA ClosedIs ==
  ASSUME NEW m, Fit(m), NEW Z
  PROVE  Closed(Edges(m), Z) <=> Initial \in Z /\ OneRow(m, Z) \subseteq Z
<1>1. ASSUME NEW i \in DOMAIN m.rows
      PROVE  /\ Edge(m.rows[i]).src = m.rows[i].src /\ Edge(m.rows[i]).tgt = m.rows[i].tgt
             /\ Edge(m.rows[i]).guard = m.rows[i].guard
  BY DEF Edge
<1> QED BY <1>1, EdgesAt DEF Closed, OneRow

LEMMA ReachedClosed ==
  ASSUME NEW m, Fit(m)
  PROVE  /\ Closed(Edges(m), Reached(m)) /\ Reached(m) \in SUBSET Names
         /\ \A Z : Closed(Edges(m), Z) => Reached(m) \subseteq Z
BY ReachedType, ClosedIs, FitParts

LEMMA PrunedEdges ==
  ASSUME NEW m, Fit(m)
  PROVE  /\ Edges(Pruned(m)) = Alive(Edges(m), Reached(m))
         /\ Junctions(m) \cap Reached(m) \subseteq Junctions(Pruned(m))
         /\ Junctions(Pruned(m)) \subseteq Junctions(m)
         /\ Pseudo(Pruned(m)) \subseteq Pseudo(m)
         /\ \A s \in Reached(m) : Pruned(m).kind[s] = m.kind[s]
<1> DEFINE U == Unreached(m)
           I == {i \in DOMAIN m.rows : m.rows[i].guard # FalseGuard /\ m.rows[i].src \in Reached(m)}
           rows == Take(m.rows, I)
<1>1. Pruned(m) = Cut(m, U, rows) BY ErasedRows DEF Pruned, Cut
<1>2. U \cap Reached(m) = {} BY DEF Unreached
<1>3. m.rows \in Seq(Rows) BY Parts DEF Fit
<1>4. Els(rows) = {m.rows[i] : i \in I} BY <1>3, TakeEls
<1> HIDE DEF U, rows
<1>5. /\ Pruned(m).rows = rows
      /\ Junctions(Pruned(m)) = Junctions(m) \ U /\ Pseudo(Pruned(m)) = Pseudo(m) \ U
      /\ \A s \in Names \ U : Pruned(m).kind[s] = m.kind[s]
  BY <1>1, Erased
<1>6. Edges(Pruned(m)) = {Edge(m.rows[i]) : i \in I} BY <1>4, <1>5 DEF Edges
<1>7. \A i \in DOMAIN m.rows : /\ Edge(m.rows[i]).src = m.rows[i].src
                               /\ Edge(m.rows[i]).guard = m.rows[i].guard
  BY DEF Edge
<1>8. Edges(Pruned(m)) = Alive(Edges(m), Reached(m)) BY <1>6, <1>7, EdgesAt DEF Alive
<1>9. Reached(m) \subseteq Names BY ReachedClosed
<1> QED BY <1>2, <1>5, <1>8, <1>9


\* The rows that are left when the rows of s are taken, and those taken.
LEMMA TakenEls ==
  ASSUME NEW m, Fit(m), NEW s
  PROVE  /\ Without(m.rows, In(m, s) \cup Out(m, s)) \in Seq(Rows)
         /\ Els(Without(m.rows, In(m, s) \cup Out(m, s))) =
              {m.rows[i] : i \in {i \in DOMAIN m.rows : m.rows[i].src # s /\ m.rows[i].tgt # s}}
<1> DEFINE I == DOMAIN m.rows \ (In(m, s) \cup Out(m, s))
<1>1. m.rows \in Seq(Rows) BY Parts DEF Fit
<1>2. DOMAIN m.rows \cap I = {i \in DOMAIN m.rows : m.rows[i].src # s /\ m.rows[i].tgt # s}
  BY DEF In, Out
<1> HIDE DEF I
<1>3. Take(m.rows, I) \in Seq(Rows) /\ Els(Take(m.rows, I)) = {m.rows[i] : i \in DOMAIN m.rows \cap I}
  BY <1>1, TakeEls
<1> QED BY <1>2, <1>3 DEF Without, I

LEMMA LeftEdges ==
  ASSUME NEW m, Fit(m), NEW s
  PROVE  {Edge(r) : r \in Els(Without(m.rows, In(m, s) \cup Out(m, s)))}
           = {e \in Edges(m) : e.src # s /\ e.tgt # s}
<1> DEFINE q == Els(Without(m.rows, In(m, s) \cup Out(m, s)))
<1>1. \A i \in DOMAIN m.rows : /\ Edge(m.rows[i]).src = m.rows[i].src
                               /\ Edge(m.rows[i]).tgt = m.rows[i].tgt
  BY DEF Edge
<1>2. q = {m.rows[i] : i \in {i \in DOMAIN m.rows : m.rows[i].src # s /\ m.rows[i].tgt # s}}
  BY TakenEls
<1> HIDE DEF q
<1>3. {Edge(r) : r \in q} = {e \in Edges(m) : e.src # s /\ e.tgt # s} BY <1>1, <1>2, EdgesAt
<1> QED BY <1>3 DEF q

\* Any function on 1 .. n is a sequence of its elements.
LEMMA ElsSeq ==
  ASSUME NEW n \in Nat, NEW f, f = [i \in 1 .. n |-> f[i]]
  PROVE  f \in Seq(Els(f))
<1>1. f \in [1 .. n -> Els(f)] BY DEF Els
<1> QED BY <1>1

LEMMA SeqMore ==
  ASSUME NEW A, NEW D, NEW q \in Seq(A), A \subseteq D
  PROVE  q \in Seq(D)
<1>1. \A i \in 1 .. Len(q) : q[i] \in D OBVIOUS
<1> QED BY <1>1

LEMMA FuseRow ==
  ASSUME NEW a \in Rows, NEW z, NEW g, NEW c
  PROVE  [a EXCEPT !.tgt = z, !.guard = g, !.prio = 0, !.act = c] =
           [src |-> a.src, event |-> a.event, guard |-> g, prio |-> 0, tgt |-> z, act |-> c]
<1>1. a = [src |-> a.src, event |-> a.event, guard |-> a.guard, prio |-> a.prio,
           tgt |-> a.tgt, act |-> a.act]
  BY RowParts
<1> DEFINE b1 == [a EXCEPT !.tgt = z]
           b2 == [b1 EXCEPT !.guard = g]
           b3 == [b2 EXCEPT !.prio = 0]
<1>2. b1 = [src |-> a.src, event |-> a.event, guard |-> a.guard,
            prio |-> a.prio, tgt |-> z, act |-> a.act]
  BY ONLY <1>1
<1> HIDE DEF b1
<1>3. b2 = [src |-> a.src, event |-> a.event, guard |-> g, prio |-> a.prio,
            tgt |-> z, act |-> a.act]
  BY ONLY <1>2
<1> HIDE DEF b2
<1>4. b3 = [src |-> a.src, event |-> a.event, guard |-> g, prio |-> 0, tgt |-> z, act |-> a.act]
  BY ONLY <1>3
<1> HIDE DEF b3
<1>5. [b3 EXCEPT !.act = c] = [src |-> a.src, event |-> a.event, guard |-> g, prio |-> 0,
                               tgt |-> z, act |-> c]
  BY ONLY <1>4
<1> QED BY ONLY <1>5 DEF b1, b2, b3

LEMMA TransientPassed ==
  ASSUME NEW m, Fit(m), NEW s \in Transient(m)
  PROVE  /\ s \in Names /\ s # Initial /\ Passed(Edges(m), s)
         /\ \E o \in Out(m, s) : Out(m, s) = {o} /\ o = CHOOSE i \in Out(m, s) : TRUE
         /\ In(m, s) # {}
<1>1. s \in Names /\ s # Initial /\ In(m, s) # {} BY DEF Transient, Present
<1>2. \A i \in Out(m, s) : m.rows[i].event = NoEvent /\ m.rows[i].tgt # s BY DEF Transient
<1>3. Passed(Edges(m), s)
  <2> SUFFICES ASSUME NEW i \in DOMAIN m.rows, m.rows[i].src = s
               PROVE  m.rows[i].tgt # s /\ m.rows[i].event = NoEvent
    BY EdgesAt DEF Passed, Edge
  <2> QED BY <1>2 DEF Out
<1>4. PICK o : Out(m, s) = {o}
  <2>1. IsFiniteSet(Out(m, s))
    <3>1. m.rows \in Seq(Rows) BY Parts DEF Fit
    <3>2. DOMAIN m.rows = 1 .. Len(m.rows) /\ Len(m.rows) \in Nat BY <3>1
    <3>3. IsFiniteSet(DOMAIN m.rows) BY <3>2, FS_Interval
    <3> QED BY <3>3, FS_Subset DEF Out
  <2>2. Cardinality(Out(m, s)) = 1 BY DEF Transient
  <2> QED BY <2>1, <2>2, FS_Singleton
<1> QED BY <1>1, <1>3, <1>4

LEMMA FusedEdges ==
  ASSUME NEW m, Fit(m), NEW s, s \in Transient(m)
  PROVE  /\ Edges(Fused(m, s)) = Bypass(Edges(m), s)
         /\ Junctions(Fused(m, s)) = Junctions(m) \ {s} /\ Pseudo(Fused(m, s)) = Pseudo(m) \ {s}
         /\ \A x \in Names \ {s} : Fused(m, s).kind[x] = m.kind[x]
         /\ \E e \in Edges(m) : e.src = s
<1> DEFINE E == Edges(m)
           out == m.rows[CHOOSE i \in Out(m, s) : TRUE]
           ins == Take(m.rows, In(m, s))
           L == Len(ins)
           g(a) == a.guard \cup out.guard
           act(a) == Composed(<<a.act>> \o m.entry[s] \o m.exit[s] \o <<out.act>>)
           fuse(a) == [a EXCEPT !.tgt = out.tgt, !.guard = g(a), !.prio = 0, !.act = act(a)]
           fused == [i \in 1 .. L |-> fuse(ins[i])]
           rest == Without(m.rows, In(m, s) \cup Out(m, s))
           rows == rest \o fused
<1>1. m.rows \in Seq(Rows) BY Parts DEF Fit
<1>2. ins \in Seq(Rows) /\ Els(ins) = {m.rows[i] : i \in DOMAIN m.rows \cap In(m, s)}
  BY <1>1, TakeEls
<1>3. PICK o \in Out(m, s) : Out(m, s) = {o} /\ out = m.rows[o] BY TransientPassed
<1>4. rest \in Seq(Rows) /\ {Edge(r) : r \in Els(rest)} = {e \in E : e.src # s /\ e.tgt # s}
  BY TakenEls, LeftEdges
<1>5. Fused(m, s) = Cut(m, {s}, rows)
  <2>1. DOMAIN ins = 1 .. L BY <1>2
  <2> QED BY <2>1, ErasedRows DEF Fused, Cut
<1> HIDE DEF out, ins, rest, E
<1>6. L \in Nat /\ DOMAIN ins = 1 .. L /\ \A i \in 1 .. L : ins[i] \in Rows BY <1>2
<1> HIDE DEF L
<1>7. ASSUME NEW a \in Rows PROVE Edge(fuse(a)) = Join(Edge(a), Edge(out))
  <2> HIDE DEF g, act
  <2>1. fuse(a) = [src |-> a.src, event |-> a.event, guard |-> g(a), prio |-> 0,
                   tgt |-> out.tgt, act |-> act(a)]
    BY FuseRow
  <2> HIDE DEF fuse
  <2>2. Edge(fuse(a)) = [src |-> a.src, event |-> a.event, guard |-> g(a), tgt |-> out.tgt]
    BY <2>1 DEF Edge
  <2>3. Join(Edge(a), Edge(out)) =
          [src |-> a.src, event |-> a.event, guard |-> a.guard \cup out.guard, tgt |-> out.tgt]
    BY DEF Edge, Join
  <2> QED BY <2>2, <2>3 DEF g
<1> HIDE DEF fuse, g, act
<1>8. fused \in Seq(Els(fused)) BY <1>6, ElsSeq
<1>9. Els(fused) = {fuse(a) : a \in Els(ins)} BY <1>6 DEF Els
<1> HIDE DEF fused
<1>10. Els(rows) = Els(rest) \cup Els(fused)
  <2> DEFINE D == Rows \cup Els(fused)
  <2>1. rest \in Seq(D) /\ fused \in Seq(D) BY <1>4, <1>8, SeqMore
  <2> QED BY <2>1, ElsConcat
<1> HIDE DEF rows
<1>11. /\ Fused(m, s).rows = rows
       /\ Junctions(Fused(m, s)) = Junctions(m) \ {s} /\ Pseudo(Fused(m, s)) = Pseudo(m) \ {s}
       /\ \A x \in Names \ {s} : Fused(m, s).kind[x] = m.kind[x]
  BY <1>5, Erased
<1>12. Edges(Fused(m, s)) = {Edge(r) : r \in Els(rest)} \cup {Edge(fuse(a)) : a \in Els(ins)}
  BY <1>9, <1>10, <1>11 DEF Edges
<1>13. {Edge(a) : a \in Els(ins)} = {e \in E : e.tgt = s}
  <2>1. {Edge(a) : a \in Els(ins)} = {Edge(m.rows[i]) : i \in DOMAIN m.rows \cap In(m, s)} BY <1>2
  <2>2. \A i \in DOMAIN m.rows : Edge(m.rows[i]).tgt = m.rows[i].tgt BY DEF Edge
  <2> QED BY <2>1, <2>2, EdgesAt DEF In, E
<1>14. {e \in E : e.src = s} = {Edge(out)}
  <2>1. \A i \in DOMAIN m.rows : Edge(m.rows[i]).src = m.rows[i].src BY DEF Edge
  <2> QED BY <1>3, <2>1, EdgesAt DEF Out, E
<1>15. {Edge(fuse(a)) : a \in Els(ins)} = {Join(a, Edge(out)) : a \in {e \in E : e.tgt = s}}
  <2>1. \A a \in Els(ins) : a \in Rows BY <1>2, ElsIn
  <2>2. \A a \in Els(ins) : Edge(fuse(a)) = Join(Edge(a), Edge(out)) BY <1>7, <2>1
  <2> QED BY <1>13, <2>2
<1>16. Edges(Fused(m, s)) = Bypass(E, s) BY <1>4, <1>12, <1>14, <1>15 DEF Bypass, Joins
<1> QED BY <1>11, <1>14, <1>16 DEF E


\* Each row of A followed by each of B.
Compounds(A, B) == {Compound(a, b) : a \in A, b \in B}
Crossed(q, r) == FlattenSeq([i \in DOMAIN q |-> [o \in DOMAIN r |-> Compound(q[i], r[o])]])

LEMMA ProductsEls ==
  ASSUME NEW q \in Seq(Rows), NEW r \in Seq(Rows)
  PROVE  /\ Crossed(q, r) \in Seq(Rows)
         /\ Els(Crossed(q, r)) = Compounds(Els(q), Els(r))
<1> DEFINE p == Crossed(q, r)
           L == Len(q)
           K == Len(r)
           one(a) == [o \in 1 .. K |-> Compound(a, r[o])]
           seqs == [i \in 1 .. L |-> one(q[i])]
<1>1. /\ L \in Nat /\ K \in Nat /\ DOMAIN q = 1 .. L /\ DOMAIN r = 1 .. K
      /\ \A i \in 1 .. L : q[i] \in Rows
      /\ \A o \in 1 .. K : r[o] \in Rows
  OBVIOUS
<1>2. \A a, b \in Rows : Compound(a, b) \in Rows
  <2> SUFFICES ASSUME NEW a \in Rows, NEW b \in Rows PROVE Compound(a, b) \in Rows OBVIOUS
  <2>1. a.src \in Names /\ b.tgt \in Names BY RowParts
  <2>2. Compound(a, b) \in Joining(Names) BY <2>1, CompoundType
  <2> QED BY <2>2 DEF Joining
<1>3. p = FlattenSeq(seqs) BY <1>1 DEF Crossed
<1> HIDE DEF L, K, p
<1>4. ASSUME NEW a \in Rows
      PROVE  one(a) \in Seq(Rows) /\ Els(one(a)) = {Compound(a, b) : b \in Els(r)}
  <2>1. one(a) \in [1 .. K -> Rows] BY <1>1, <1>2
  <2>2. Els(one(a)) = {Compound(a, b) : b \in Els(r)} BY <1>1 DEF Els
  <2> HIDE DEF one
  <2> QED BY <1>1, <2>1, <2>2
<1> HIDE DEF one
<1>5. seqs \in [1 .. L -> Seq(Rows)] BY <1>1, <1>4
<1>6. seqs \in Seq(Seq(Rows)) BY <1>1, <1>5
<1>7. DOMAIN seqs = 1 .. L /\ \A i \in 1 .. L : seqs[i] = one(q[i]) OBVIOUS
<1> HIDE DEF seqs
<1>8. p \in Seq(Rows) /\ Els(p) = UNION {Els(seqs[i]) : i \in 1 .. L} BY <1>3, <1>6, <1>7, FlattenEls
<1>9. \A i \in 1 .. L : Els(seqs[i]) = {Compound(q[i], b) : b \in Els(r)} BY <1>1, <1>4, <1>7
<1>10. Els(q) = {q[i] : i \in 1 .. L} BY <1>1 DEF Els
<1>11. UNION {Els(seqs[i]) : i \in 1 .. L} = Compounds(Els(q), Els(r))
  <2> DEFINE A == UNION {Els(seqs[i]) : i \in 1 .. L}
             B == Compounds(Els(q), Els(r))
  <2>1. \A x : x \in A <=> \E i \in 1 .. L : \E b \in Els(r) : x = Compound(q[i], b)
    BY <1>9
  <2>2. \A x : x \in B <=> \E i \in 1 .. L : \E b \in Els(r) : x = Compound(q[i], b)
    BY <1>10 DEF Compounds
  <2> HIDE DEF A, B
  <2>3. A = B BY <2>1, <2>2
  <2> QED BY <2>3 DEF A, B
<1> QED BY <1>8, <1>11 DEF p

LEMMA CompoundEdge ==
  ASSUME NEW a, NEW b
  PROVE  /\ Edge(Compound(a, b)).src = a.src /\ Edge(Compound(a, b)).tgt = b.tgt
         /\ b.event = NoEvent => Edge(Compound(a, b)) = Join(Edge(a), Edge(b))
BY DEF Edge, Compound, Join

\* The branch is not taken when it leaves the machine as it is.
Inlines(m, c) == ~(In(m, c) = {} \/ Out(m, c) \subseteq In(m, c))

LEMMA InlinedEdges ==
  ASSUME NEW m, Fit(m), NEW c, Inlines(m, c)
  PROVE  /\ Edges(Inlined(m, c)) =
              {e \in Edges(m) : e.src # c /\ e.tgt # c}
                \cup {Edge(Compound(m.rows[i], m.rows[o])) : i \in In(m, c), o \in Out(m, c) \ In(m, c)}
         /\ Junctions(Inlined(m, c)) = Junctions(m) \ {c} /\ Pseudo(Inlined(m, c)) = Pseudo(m) \ {c}
         /\ \A x \in Names \ {c} : Inlined(m, c).kind[x] = m.kind[x]
<1> DEFINE ins == Take(m.rows, In(m, c))
           outs == Take(m.rows, Out(m, c) \ In(m, c))
           rest == Without(m.rows, In(m, c) \cup Out(m, c))
           prod == Products(m, c)
           rows == rest \o prod
<1>1. m.rows \in Seq(Rows) BY Parts DEF Fit
<1>2. ins \in Seq(Rows) /\ Els(ins) = {m.rows[i] : i \in DOMAIN m.rows \cap In(m, c)}
  BY <1>1, TakeEls
<1>3. outs \in Seq(Rows) /\ Els(outs) = {m.rows[i] : i \in DOMAIN m.rows \cap (Out(m, c) \ In(m, c))}
  <2> DEFINE I == Out(m, c) \ In(m, c)
  <2> HIDE DEF I
  <2>1. Take(m.rows, I) \in Seq(Rows) /\ Els(Take(m.rows, I)) = {m.rows[i] : i \in DOMAIN m.rows \cap I}
    BY <1>1, TakeEls
  <2> QED BY <2>1 DEF I
<1>4. /\ rest \in Seq(Rows)
      /\ {Edge(r) : r \in Els(rest)} = {e \in Edges(m) : e.src # c /\ e.tgt # c}
  BY TakenEls, LeftEdges
<1>5. prod = Crossed(ins, outs) BY DEF Products, Crossed
<1>6. Inlined(m, c) = Cut(m, {c}, rows) BY ErasedRows DEF Inlined, Inlines, Cut
<1> HIDE DEF ins, outs, rest, prod
<1>7. prod \in Seq(Rows) /\ Els(prod) = Compounds(Els(ins), Els(outs))
  BY <1>2, <1>3, <1>5, ProductsEls
<1>8. Els(rows) = Els(rest) \cup Els(prod) BY <1>4, <1>7, ElsConcat
<1> HIDE DEF rows
<1>9. /\ Inlined(m, c).rows = rows
      /\ Junctions(Inlined(m, c)) = Junctions(m) \ {c} /\ Pseudo(Inlined(m, c)) = Pseudo(m) \ {c}
      /\ \A x \in Names \ {c} : Inlined(m, c).kind[x] = m.kind[x]
  BY <1>6, Erased
<1>10. Edges(Inlined(m, c)) = {Edge(r) : r \in Els(rest)} \cup {Edge(r) : r \in Els(prod)}
  BY <1>8, <1>9 DEF Edges
<1>11. DOMAIN m.rows \cap In(m, c) = In(m, c)
       /\ DOMAIN m.rows \cap (Out(m, c) \ In(m, c)) = Out(m, c) \ In(m, c)
  BY DEF In, Out
<1>12. {Edge(r) : r \in Els(prod)} =
         {Edge(Compound(m.rows[i], m.rows[o])) : i \in In(m, c), o \in Out(m, c) \ In(m, c)}
  BY <1>2, <1>3, <1>7, <1>11 DEF Compounds
<1> QED BY <1>4, <1>9, <1>10, <1>12

\* A choice that is left at once is bypassed.
LEMMA InlinedBypass ==
  ASSUME NEW m, Fit(m), NEW c, Inlines(m, c), Passed(Edges(m), c)
  PROVE  Edges(Inlined(m, c)) = Bypass(Edges(m), c) /\ \E e \in Edges(m) : e.src = c
<1>1. \A i \in DOMAIN m.rows : /\ Edge(m.rows[i]).src = m.rows[i].src
                               /\ Edge(m.rows[i]).tgt = m.rows[i].tgt
                               /\ Edge(m.rows[i]).event = m.rows[i].event
  BY DEF Edge
<1>2. \A i \in Out(m, c) : m.rows[i].tgt # c /\ m.rows[i].event = NoEvent
  BY <1>1, EdgesAt DEF Passed, Out
<1>3. Out(m, c) \ In(m, c) = Out(m, c) BY <1>2 DEF In, Out
<1>4. \A i \in In(m, c), o \in Out(m, c) :
         Edge(Compound(m.rows[i], m.rows[o])) = Join(Edge(m.rows[i]), Edge(m.rows[o]))
  BY <1>2, CompoundEdge
<1>5. {Edge(m.rows[i]) : i \in In(m, c)} = {e \in Edges(m) : e.tgt = c} BY <1>1, EdgesAt DEF In
<1>6. {Edge(m.rows[o]) : o \in Out(m, c)} = {e \in Edges(m) : e.src = c} BY <1>1, EdgesAt DEF Out
<1> DEFINE pairs(O) == {Edge(Compound(m.rows[i], m.rows[o])) : i \in In(m, c), o \in O}
           joins == Joins({e \in Edges(m) : e.tgt = c}, {e \in Edges(m) : e.src = c})
<1>7. pairs(Out(m, c)) = joins
  <2>1. \A x : x \in pairs(Out(m, c)) <=> \E i \in In(m, c), o \in Out(m, c) :
                                            x = Join(Edge(m.rows[i]), Edge(m.rows[o]))
    BY <1>4
  <2>2. \A x : x \in joins <=> \E i \in In(m, c), o \in Out(m, c) :
                                   x = Join(Edge(m.rows[i]), Edge(m.rows[o]))
    BY <1>5, <1>6 DEF Joins
  <2> HIDE DEF pairs, joins
  <2> QED BY <2>1, <2>2
<1>8. Out(m, c) # {} BY DEF Inlines
<1>9. Edges(Inlined(m, c)) = Bypass(Edges(m), c)
  <2>1. Edges(Inlined(m, c)) = {e \in Edges(m) : e.src # c /\ e.tgt # c}
                                 \cup pairs(Out(m, c) \ In(m, c))
    BY InlinedEdges
  <2>2. pairs(Out(m, c) \ In(m, c)) = pairs(Out(m, c)) BY <1>3
  <2> HIDE DEF pairs
  <2> QED BY <1>7, <2>1, <2>2 DEF Bypass
<1> QED BY <1>6, <1>8, <1>9

-----------------------------------------------------------------------------
(* What StateMinimization makes of the edges.                               *)

Rep(B, s) == CHOOSE t \in BlockOf(B, s) : \A u \in BlockOf(B, s) : t <= u

\* The states of a block are of one kind.
Uniform(m, B) == \A b \in B : \A s, t \in b : m.kind[s] = m.kind[t]

LEMMA RepIs ==
  ASSUME NEW m, Fit(m), NEW B, Partition(B, Present(m)), Present(m) \subseteq UNION B
  PROVE  /\ \A s \in Present(m) : /\ BlockOf(B, s) \in B /\ s \in BlockOf(B, s)
                                  /\ Rep(B, s) \in BlockOf(B, s) /\ Rep(B, s) \in Present(m)
                                  /\ Rep(B, Rep(B, s)) = Rep(B, s)
         /\ \A s, t \in Present(m) : Rep(B, s) = Rep(B, t) => BlockOf(B, s) = BlockOf(B, t)
         /\ Rep(B, Initial) = Initial
<1> DEFINE P == Present(m)
<1>1. P \subseteq Names /\ Initial \in P BY FitParts
<1>2. ASSUME NEW s \in P PROVE BlockOf(B, s) \in B /\ s \in BlockOf(B, s)
  <2>1. \E b \in B : s \in b OBVIOUS
  <2> QED BY <2>1 DEF BlockOf
<1>3. ASSUME NEW s \in P
      PROVE  Rep(B, s) \in BlockOf(B, s) /\ Rep(B, s) \in P /\ \A u \in BlockOf(B, s) : Rep(B, s) <= u
  <2> DEFINE b == BlockOf(B, s)
  <2>1. b \in B /\ s \in b BY <1>2
  <2>2. b \subseteq P /\ b # {}
    <3> HIDE DEF b
    <3> QED BY <2>1 DEF Partition
  <2> HIDE DEF b
  <2>3. b \in SUBSET Nat /\ b # {} BY <1>1, <2>2, Numbers
  <2>4. \E t \in b : \A u \in b : t <= u BY <2>3, LeastNat
  <2>5. Rep(B, s) = CHOOSE t \in b : \A u \in b : t <= u BY DEF Rep, b
  <2>6. Rep(B, s) \in b /\ \A u \in b : Rep(B, s) <= u BY <2>4, <2>5
  <2> QED BY <2>2, <2>6 DEF b
<1>4. ASSUME NEW s \in P PROVE BlockOf(B, Rep(B, s)) = BlockOf(B, s)
  BY <1>2, <1>3 DEF Partition
<1>5. ASSUME NEW s \in P PROVE Rep(B, Rep(B, s)) = Rep(B, s) BY <1>4 DEF Rep
<1>6. Rep(B, Initial) = Initial
  <2>1. Rep(B, Initial) \in P /\ Rep(B, Initial) <= Initial BY <1>1, <1>2, <1>3
  <2>2. Rep(B, Initial) \in Nat /\ Rep(B, Initial) # 0 BY <1>1, <2>1, Numbers
  <2> QED BY <2>1, <2>2 DEF Initial
<1> QED BY <1>2, <1>3, <1>4, <1>5, <1>6

\* The states of a block look alike when the refinement is over.
LEMMA SignatureSame ==
  ASSUME NEW m, NEW B, Refined(m, B) = B, NEW b \in B, NEW s \in b, NEW t \in b
  PROVE  Signature(m, B, s) = Signature(m, B, t)
<1>1. \A c \in Refined(m, B) : \E a \in B : \E x \in a :
        c = {y \in a : Signature(m, B, y) = Signature(m, B, x)}
  BY DEF Refined, Groups
<1>2. PICK a \in B : \E x \in a : b = {y \in a : Signature(m, B, y) = Signature(m, B, x)} BY <1>1
<1> QED BY <1>2

LEMMA LooksSame ==
  ASSUME NEW m, NEW B, NEW s, NEW t, Signature(m, B, s) = Signature(m, B, t),
         NEW i \in Out(m, s)
  PROVE  \E j \in Out(m, t) : Looks(m, B, j) = Looks(m, B, i)
<1> DEFINE D(x) == {Looks(m, B, k) : k \in Out(m, x)}
<1>1. \A x : DOMAIN Signature(m, B, x) = D(x) BY DEF Signature
<1>2. D(s) = D(t) BY <1>1
<1>3. Looks(m, B, i) \in D(s) OBVIOUS
<1> QED BY <1>2, <1>3

LEMMA RepFolds ==
  ASSUME NEW m, Fit(m), NEW B, Partition(B, Present(m)), Present(m) \subseteq UNION B,
         Refined(m, B) = B
  PROVE  Foldable(Edges(m), Present(m), [s \in Present(m) |-> Rep(B, s)])
<1> DEFINE h == [s \in Present(m) |-> Rep(B, s)]
<1>1. \A s \in Present(m) : h[s] = Rep(B, s) OBVIOUS
<1> HIDE DEF h
<1>2. ASSUME NEW e \in Edges(m), NEW t \in Present(m), h[t] = h[e.src]
      PROVE  \E f \in Edges(m) : f.src = t /\ f.event = e.event /\ f.guard = e.guard /\ h[f.tgt] = h[e.tgt]
  <2>1. PICK i \in DOMAIN m.rows : e = Edge(m.rows[i]) BY EdgesAt
  <2>2. /\ e.src = m.rows[i].src /\ e.tgt = m.rows[i].tgt
        /\ e.event = m.rows[i].event /\ e.guard = m.rows[i].guard
    BY <2>1 DEF Edge
  <2>3. e.src \in Present(m) /\ e.tgt \in Present(m) BY FitEdge
  <2>4. BlockOf(B, t) = BlockOf(B, e.src) BY <1>1, <1>2, <2>3, RepIs
  <2>5. BlockOf(B, t) \in B /\ t \in BlockOf(B, t) /\ e.src \in BlockOf(B, t) BY <2>3, <2>4, RepIs
  <2>6. Signature(m, B, e.src) = Signature(m, B, t) BY <2>5, SignatureSame
  <2>7. i \in Out(m, e.src) BY <2>2 DEF Out
  <2>8. PICK j \in Out(m, t) : Looks(m, B, j) = Looks(m, B, i) BY <2>6, <2>7, LooksSame
  <2>9. /\ m.rows[j].event = m.rows[i].event /\ m.rows[j].guard = m.rows[i].guard
        /\ BlockOf(B, m.rows[j].tgt) = BlockOf(B, m.rows[i].tgt)
    BY <2>8 DEF Looks
  <2>10. j \in DOMAIN m.rows /\ m.rows[j].src = t BY DEF Out
  <2> DEFINE f == Edge(m.rows[j])
  <2>11. f \in Edges(m) BY <2>10, EdgesAt
  <2>12. /\ f.src = t /\ f.tgt = m.rows[j].tgt
         /\ f.event = m.rows[j].event /\ f.guard = m.rows[j].guard
    BY <2>10 DEF Edge
  <2>13. f.tgt \in Present(m) BY <2>11, FitEdge
  <2> HIDE DEF f
  <2>14. Rep(B, f.tgt) = Rep(B, e.tgt) BY <2>2, <2>9, <2>12 DEF Rep
  <2>15. h[f.tgt] = h[e.tgt] BY <1>1, <2>3, <2>13, <2>14
  <2> QED BY <2>2, <2>9, <2>11, <2>12, <2>15
<1>3. \A e \in Edges(m) : e.src \in Present(m) /\ e.tgt \in Present(m) BY FitEdge
<1>4. SameWays(Edges(m), Present(m), h) BY <1>2 DEF SameWays
<1> QED BY <1>3, <1>4 DEF Foldable, h

\* Of the rows alike the first is left.
Repeats(rows) == {i \in DOMAIN rows : \E j \in 1 .. (i - 1) :
                    [rows[j] EXCEPT !.prio = 0] = [rows[i] EXCEPT !.prio = 0]}

LEMMA PrioEdge ==
  ASSUME NEW a \in Rows, NEW b \in Rows, [a EXCEPT !.prio = 0] = [b EXCEPT !.prio = 0]
  PROVE  Edge(a) = Edge(b)
<1>1. \A r \in Rows : [r EXCEPT !.prio = 0] =
         [src |-> r.src, event |-> r.event, guard |-> r.guard, prio |-> 0, tgt |-> r.tgt, act |-> r.act]
  BY RowParts
<1>2. a.src = b.src /\ a.event = b.event /\ a.guard = b.guard /\ a.tgt = b.tgt BY <1>1
<1> QED BY <1>2 DEF Edge

LEMMA RepeatsEls ==
  ASSUME NEW rows \in Seq(Rows)
  PROVE  /\ Without(rows, Repeats(rows)) \in Seq(Rows)
         /\ {Edge(r) : r \in Els(Without(rows, Repeats(rows)))} = {Edge(r) : r \in Els(rows)}
<1> DEFINE I == DOMAIN rows \ Repeats(rows)
           q == Take(rows, I)
           key(r) == [r EXCEPT !.prio = 0]
<1>1. DOMAIN rows = 1 .. Len(rows) /\ Len(rows) \in Nat /\ \A i \in DOMAIN rows : rows[i] \in Rows
  OBVIOUS
<1>2. q \in Seq(Rows) /\ Els(q) = {rows[i] : i \in DOMAIN rows \cap I}
  <2> HIDE DEF I
  <2> QED BY TakeEls
<1>3. ASSUME NEW i \in DOMAIN rows PROVE \E j \in I : Edge(rows[j]) = Edge(rows[i])
  <2> DEFINE S == {j \in 1 .. Len(rows) : key(rows[j]) = key(rows[i])}
  <2>1. S \in SUBSET Nat /\ S # {} BY <1>1
  <2>2. PICK j \in S : \A k \in S : j <= k BY <2>1, LeastNat
  <2>3. j \notin Repeats(rows)
    <3> SUFFICES ASSUME NEW k \in 1 .. (j - 1), key(rows[k]) = key(rows[j]) PROVE FALSE
      BY DEF Repeats
    <3>1. j \in 1 .. Len(rows) /\ key(rows[j]) = key(rows[i]) OBVIOUS
    <3> HIDE DEF key
    <3>2. k \in 1 .. Len(rows) /\ k < j BY <1>1, <3>1
    <3>3. k \in S BY <3>1, <3>2
    <3> QED BY <1>1, <2>2, <3>2, <3>3
  <2>4. j \in I BY <1>1, <2>3
  <2>5. Edge(rows[j]) = Edge(rows[i]) BY <1>1, PrioEdge
  <2> QED BY <2>4, <2>5
<1> HIDE DEF q
<1>4. {Edge(r) : r \in Els(q)} = {Edge(r) : r \in Els(rows)}
  <2> DEFINE A == {Edge(r) : r \in Els(q)}
             C == {Edge(r) : r \in Els(rows)}
  <2>1. \A x : x \in A <=> \E i \in I : x = Edge(rows[i]) BY <1>2
  <2>2. \A x : x \in C <=> \E i \in DOMAIN rows : x = Edge(rows[i]) BY DEF Els
  <2> HIDE DEF A, C
  <2>3. A = C BY <1>3, <2>1, <2>2
  <2> QED BY <2>3 DEF A, C
<1> QED BY <1>2, <1>4 DEF Without, q

LEMMA MovedEdge ==
  ASSUME NEW r \in Rows, NEW a, NEW b
  PROVE  [r EXCEPT !.src = a, !.tgt = b] =
           [src |-> a, event |-> r.event, guard |-> r.guard, prio |-> r.prio, tgt |-> b, act |-> r.act]
<1> DEFINE b1 == [r EXCEPT !.src = a]
<1>1. b1 = [src |-> a, event |-> r.event, guard |-> r.guard, prio |-> r.prio, tgt |-> r.tgt,
            act |-> r.act]
  BY RowParts
<1> HIDE DEF b1
<1>2. [b1 EXCEPT !.tgt = b] = [src |-> a, event |-> r.event, guard |-> r.guard, prio |-> r.prio,
                               tgt |-> b, act |-> r.act]
  BY <1>1
<1> QED BY <1>2 DEF b1

\* Where two states are merged the edges are those of the states that stand
\* for them.
LEMMA MergedEdges ==
  ASSUME NEW m, Fit(m), NEW B, Partition(B, Present(m)), Present(m) \subseteq UNION B,
         Uniform(m, B), Merged(m, B) # m
  PROVE  /\ Edges(Merged(m, B)) = Quotient(Edges(m), [s \in Present(m) |-> Rep(B, s)])
         /\ Junctions(Merged(m, B)) \subseteq Junctions(m) /\ Pseudo(Merged(m, B)) \subseteq Pseudo(m)
         /\ \A s \in Present(m) : Merged(m, B).kind[Rep(B, s)] = m.kind[s]
<1> DEFINE P == Present(m)
           h == [s \in P |-> Rep(B, s)]
           rep(s) == Rep(B, s)
           E == {s \in P : rep(s) # s}
           moved(r) == [r EXCEPT !.src = rep(@), !.tgt = rep(@)]
           rows == [i \in DOMAIN m.rows |-> moved(m.rows[i])]
           less == Without(rows, Repeats(rows))
           cut == Cut(m, E, less)
<1>1. /\ m.rows \in Seq(Joining(P)) /\ m \in Machines /\ P \subseteq Names /\ Initial \in P
      /\ m.rows \in Seq(Rows) /\ DOMAIN m.rows = 1 .. Len(m.rows) /\ Len(m.rows) \in Nat
  <2>1. m.rows \in Seq(Joining(P)) /\ m \in Machines /\ P \subseteq Names /\ Initial \in P
    BY FitParts
  <2>2. m.rows \in Seq(Rows) BY <2>1, Parts
  <2>3. DOMAIN m.rows = 1 .. Len(m.rows) /\ Len(m.rows) \in Nat BY <2>2
  <2> QED BY <2>1, <2>2, <2>3
<1>2. \A s \in P : rep(s) \in P /\ rep(rep(s)) = rep(s) BY RepIs
<1>3. Merged(m, B) = Canonical(cut) BY DEF Merged, cut, Cut, less, Repeats, rows, E, rep, P, Rep
<1> HIDE DEF rep
<1>4. ASSUME NEW i \in DOMAIN m.rows
      PROVE  /\ rows[i] = [src |-> rep(m.rows[i].src), event |-> m.rows[i].event,
                           guard |-> m.rows[i].guard, prio |-> m.rows[i].prio,
                           tgt |-> rep(m.rows[i].tgt), act |-> m.rows[i].act]
             /\ rows[i] \in Joining(P \ E) /\ rows[i] \in Rows
             /\ Edge(rows[i]) = Moved(Edge(m.rows[i]), h)
  <2> DEFINE r == m.rows[i]
             n == [src |-> rep(r.src), event |-> r.event, guard |-> r.guard, prio |-> r.prio,
                   tgt |-> rep(r.tgt), act |-> r.act]
  <2>1. r \in Rows /\ r.src \in P /\ r.tgt \in P BY FitRow
  <2>2. rows[i] = moved(r) OBVIOUS
  <2> HIDE DEF r, rows
  <2>3. rows[i] = n BY <2>1, <2>2, MovedEdge
  <2>4. rep(r.src) \in P \ E /\ rep(r.tgt) \in P \ E BY <1>2, <2>1
  <2>5. rep(r.src) \in Names /\ rep(r.tgt) \in Names BY <1>1, <2>4
  <2> HIDE DEF E
  <2>6. n \in Rows BY <2>1, <2>5, RowParts DEF Rows
  <2>7. n \in Joining(P \ E) BY <2>4, <2>6 DEF Joining
  <2>8. Edge(n) = [src |-> rep(r.src), event |-> r.event, guard |-> r.guard, tgt |-> rep(r.tgt)]
    BY DEF Edge
  <2>9. Edge(r).src = r.src /\ Edge(r).event = r.event /\ Edge(r).guard = r.guard /\ Edge(r).tgt = r.tgt
    BY DEF Edge
  <2>10. h[r.src] = rep(r.src) /\ h[r.tgt] = rep(r.tgt) BY <2>1 DEF rep
  <2>11. Moved(Edge(r), h) =
           [src |-> rep(r.src), event |-> r.event, guard |-> r.guard, tgt |-> rep(r.tgt)]
    <3> HIDE DEF h
    <3> QED BY <2>9, <2>10 DEF Moved
  <2> HIDE DEF n, h
  <2> QED BY <2>3, <2>6, <2>7, <2>8, <2>11 DEF r, n
<1>5. DOMAIN rows = DOMAIN m.rows OBVIOUS
<1> HIDE DEF rows, h, moved
<1>6. rows \in Seq(Rows) /\ rows \in Seq(Joining(P \ E))
  <2> HIDE DEF E
  <2>1. rows = [i \in 1 .. Len(m.rows) |-> rows[i]] BY <1>1, <1>5 DEF rows
  <2>2. rows \in [1 .. Len(m.rows) -> Rows] /\ rows \in [1 .. Len(m.rows) -> Joining(P \ E)]
    BY <1>1, <1>4, <2>1
  <2> DEFINE n == Len(m.rows)
  <2>3. n \in Nat BY <1>1
  <2> HIDE DEF n, rows
  <2>4. \A D : rows \in [1 .. n -> D] => rows \in Seq(D) BY <2>3
  <2> QED BY <2>2, <2>4 DEF n
<1>7. /\ less \in Seq(Joining(P \ E))
      /\ {Edge(r) : r \in Els(less)} = {Edge(r) : r \in Els(rows)}
  <2> HIDE DEF E
  <2> DEFINE K == DOMAIN rows \ Repeats(rows)
             D == Joining(P \ E)
  <2>1. \A i \in DOMAIN rows : i \in K => rows[i] \in D BY <1>6
  <2> HIDE DEF K, D
  <2>2. rows \in Seq(D) BY <1>6 DEF D
  <2>3. Take(rows, K) \in Seq(D) BY <2>1, <2>2, TakeType
  <2>4. less \in Seq(D) BY <2>3 DEF less, Without, K
  <2> QED BY <1>6, <2>4, RepeatsEls DEF D
<1> HIDE DEF less
<1>8. E \in SUBSET Names /\ Initial \notin E BY <1>1, RepIs DEF rep
<1>9. Fit(cut) BY <1>7, <1>8, FitWith DEF Cut
<1>10. /\ cut.rows = less /\ Junctions(cut) = Junctions(m) \ E /\ Pseudo(cut) = Pseudo(m) \ E
       /\ \A s \in Names \ E : cut.kind[s] = m.kind[s]
  <2> HIDE DEF cut, E
  <2> QED BY Erased DEF cut
<1> HIDE DEF cut
<1>11. Edges(Canonical(cut)) = Edges(cut) /\ Canonical(cut).kind = cut.kind
  BY <1>9, CanonicalKept DEF Kept
<1>12. Edges(cut) = Quotient(Edges(m), h)
  <2> DEFINE A == {Edge(r) : r \in Els(rows)}
             C == Quotient(Edges(m), h)
  <2>1. Edges(cut) = A BY <1>7, <1>10 DEF Edges
  <2>2. \A x : x \in A <=> \E i \in DOMAIN m.rows : x = Moved(Edge(m.rows[i]), h)
    BY <1>4, <1>5 DEF Els
  <2>3. \A x : x \in C <=> \E i \in DOMAIN m.rows : x = Moved(Edge(m.rows[i]), h)
    BY EdgesAt DEF Quotient
  <2> HIDE DEF A, C
  <2>4. A = C BY <2>2, <2>3
  <2> QED BY <2>1, <2>4 DEF C
<1>13. ASSUME NEW s \in P PROVE cut.kind[rep(s)] = m.kind[s]
  <2>1. rep(s) \in Names \ E BY <1>1, <1>2
  <2>2. m.kind[rep(s)] = m.kind[s]
    <3>1. BlockOf(B, s) \in B /\ s \in BlockOf(B, s) /\ rep(s) \in BlockOf(B, s) BY RepIs DEF rep
    <3> QED BY <3>1 DEF Uniform
  <2> QED BY <1>10, <2>1, <2>2
<1>14. Junctions(Canonical(cut)) = Junctions(cut) /\ Pseudo(Canonical(cut)) = Pseudo(cut)
  BY <1>11 DEF Junctions, Pseudo, OfKind
<1> QED BY <1>3, <1>10, <1>11, <1>12, <1>13, <1>14 DEF h, rep

\* The blocks of the minimization are of one kind from the first to the last.
LEMMA InitialUniform ==
  ASSUME NEW m
  PROVE  Uniform(m, InitialBlocks(m))
<1> DEFINE names(acts) == [k \in DOMAIN acts |-> acts[k].name]
           key(s) == IF m.kind[s] = "choice" THEN <<s>>
                     ELSE <<m.kind[s], s = Initial, names(m.entry[s]), names(m.exit[s])>>
<1>1. InitialBlocks(m) = {{t \in Present(m) : key(t) = key(s)} : s \in Present(m)}
  BY DEF InitialBlocks, Groups
<1>2. ASSUME NEW s, NEW t, key(s) = key(t) PROVE m.kind[s] = m.kind[t]
  <2>1. CASE m.kind[s] = "choice" /\ m.kind[t] = "choice" BY <2>1
  <2>2. CASE m.kind[s] # "choice" /\ m.kind[t] # "choice" BY <1>2, <2>2
  <2>3. \A a, b, c, d, e : <<a>> # <<b, c, d, e>> OBVIOUS
  <2> QED BY <1>2, <2>1, <2>2, <2>3
<1> HIDE DEF key
<1>3. \A b \in InitialBlocks(m) : \E s : \A t \in b : key(t) = key(s) BY <1>1
<1>4. \A b \in InitialBlocks(m) : \A s, t \in b : key(s) = key(t) BY <1>3
<1> QED BY <1>2, <1>4 DEF Uniform

LEMMA RefinedUniform ==
  ASSUME NEW m, NEW B, Uniform(m, B)
  PROVE  Uniform(m, Refined(m, B))
<1>1. \A c \in Refined(m, B) : \E b \in B : c \subseteq b BY DEF Refined, Groups
<1> QED BY <1>1 DEF Uniform

-----------------------------------------------------------------------------
(* What ConnectiveJunctionChaining makes of the edges.                      *)

LEMMA OnwardEls ==
  ASSUME NEW m, Fit(m), NEW h, h \in Routes(m), NEW i, i \in DOMAIN m.rows
  PROVE  \A p : p \in Els(Onward(m, h, i)) <=>
           \E n \in DOMAIN m.rows : /\ m.rows[n].src = m.rows[i].tgt
                                    /\ \E t \in Els(h[n]) : p = Compound(m.rows[i], t)
<1> DEFINE N == Len(m.rows)
           one(n) == [p \in DOMAIN h[n] |-> Compound(m.rows[i], h[n][p])]
           seqs == [n \in DOMAIN m.rows |-> IF m.rows[n].src # m.rows[i].tgt THEN << >> ELSE one(n)]
<1>1. /\ m.rows \in Seq(Rows) /\ N \in Nat /\ DOMAIN m.rows = 1 .. N
      /\ m.rows[i] \in Rows /\ m.rows[i].src \in Names
  <2>1. m.rows \in Seq(Rows) BY Parts DEF Fit
  <2>2. N \in Nat /\ DOMAIN m.rows = 1 .. N BY <2>1
  <2> QED BY <2>1, <2>2, FitRow, FitParts
<1>2. ASSUME NEW n \in 1 .. N
      PROVE  /\ one(n) \in Seq(Rows)
             /\ \A p : p \in Els(one(n)) <=> \E t \in Els(h[n]) : p = Compound(m.rows[i], t)
  <2> DEFINE L == Len(h[n])
             s == h[n]
  <2>1. s \in Seq(Rows) BY <1>1 DEF Routes
  <2>2. L \in Nat /\ DOMAIN s = 1 .. L /\ \A p \in 1 .. L : s[p] \in Rows BY <2>1
  <2> HIDE DEF s, L
  <2>3. ASSUME NEW p \in 1 .. L PROVE Compound(m.rows[i], s[p]) \in Rows
    <3>1. s[p].tgt \in Names BY <2>2, RowParts
    <3>2. Compound(m.rows[i], s[p]) \in Joining(Names) BY <1>1, <2>2, <3>1, CompoundType
    <3> QED BY <3>2 DEF Joining
  <2>4. [p \in 1 .. L |-> Compound(m.rows[i], s[p])] \in [1 .. L -> Rows] BY <2>3
  <2>5. one(n) = [p \in 1 .. L |-> Compound(m.rows[i], s[p])] BY <2>2 DEF s
  <2>6. one(n) \in Seq(Rows) BY <2>2, <2>4, <2>5
  <2>7. \A p : p \in Els(one(n)) <=> \E t \in Els(s) : p = Compound(m.rows[i], t)
    <3> DEFINE e == [p \in 1 .. L |-> Compound(m.rows[i], s[p])]
    <3>1. \A p : p \in Els(e) <=> \E k \in 1 .. L : p = e[k] BY DEF Els
    <3>2. \A k \in 1 .. L : e[k] = Compound(m.rows[i], s[k]) OBVIOUS
    <3>3. \A t : t \in Els(s) <=> \E k \in 1 .. L : t = s[k] BY <2>2 DEF Els
    <3> HIDE DEF e
    <3>4. \A p : p \in Els(e) <=> \E t \in Els(s) : p = Compound(m.rows[i], t)
      BY ONLY <3>1, <3>2, <3>3
    <3> QED BY <2>5, <3>4 DEF e
  <2> QED BY <2>6, <2>7 DEF s
<1> HIDE DEF one, N
<1>3. << >> \in Seq(Rows) /\ Els(<< >>) = {} BY DEF Els
<1>4. seqs \in [1 .. N -> Seq(Rows)] BY <1>1, <1>2, <1>3
<1>5. \A n \in 1 .. N : seqs[n] = IF m.rows[n].src # m.rows[i].tgt THEN << >> ELSE one(n) BY <1>1
<1> HIDE DEF seqs
<1>6. seqs \in Seq(Seq(Rows)) /\ DOMAIN seqs = 1 .. N BY <1>1, <1>4
<1>7. Els(FlattenSeq(seqs)) = UNION {Els(seqs[n]) : n \in DOMAIN seqs} BY <1>6, FlattenEls
<1>8. \A p : p \in Els(FlattenSeq(seqs)) <=> \E n \in 1 .. N : p \in Els(seqs[n]) BY <1>6, <1>7
<1>9. ASSUME NEW p, NEW n \in 1 .. N
      PROVE  p \in Els(seqs[n]) <=> /\ m.rows[n].src = m.rows[i].tgt
                                    /\ \E t \in Els(h[n]) : p = Compound(m.rows[i], t)
  BY <1>2, <1>3, <1>5
<1>10. Onward(m, h, i) = FlattenSeq(seqs) BY DEF Onward, seqs, one
<1> QED BY <1>1, <1>8, <1>9, <1>10

Paths(m) == Found(m, Cardinality(Junctions(m)))

\* The rows that lead on from row i when k junctions at most are passed.
LEMMA PathsEls ==
  ASSUME NEW m, Fit(m), NEW k \in 0 .. Cardinality(Junctions(m)), NEW i \in DOMAIN m.rows
  PROVE  /\ Paths(m)[k] \in Routes(m)
         /\ m.rows[i].tgt \notin Junctions(m) => Els(Paths(m)[k][i]) = {m.rows[i]}
         /\ m.rows[i].tgt \in Junctions(m) /\ k = 0 => Els(Paths(m)[k][i]) = {}
         /\ m.rows[i].tgt \in Junctions(m) /\ k # 0 =>
              \A p : p \in Els(Paths(m)[k][i]) <=>
                \E n \in DOMAIN m.rows :
                  /\ m.rows[n].src = m.rows[i].tgt
                  /\ \E t \in Els(Paths(m)[k - 1][n]) : p = Compound(m.rows[i], t)
<1> DEFINE C == Cardinality(Junctions(m))
           f == Paths(m)
<1>1. C \in Nat BY JunctionsFinite
<1>2. f = Found(m, C) BY DEF Paths
<1> HIDE DEF C, f
<1>3. \A j \in 0 .. C :
        /\ f[j] \in Routes(m)
        /\ \A n \in DOMAIN m.rows :
             f[j][n] = IF m.rows[n].tgt \notin OfKind(m, {"junction"}) THEN <<m.rows[n]>>
                       ELSE IF j = 0 THEN << >> ELSE Onward(m, f[j - 1], n)
  BY <1>1, <1>2, PathsSteps
<1>4. k \in 0 .. C BY DEF C
<1>5. /\ f[k] \in Routes(m)
      /\ f[k][i] = IF m.rows[i].tgt \notin Junctions(m) THEN <<m.rows[i]>>
                   ELSE IF k = 0 THEN << >> ELSE Onward(m, f[k - 1], i)
  BY <1>3, <1>4 DEF Junctions
<1>6. Els(<<m.rows[i]>>) = {m.rows[i]} /\ Els(<< >>) = {} BY DEF Els
<1>7. k # 0 => f[k - 1] \in Routes(m)
  <2>1. k # 0 => k - 1 \in 0 .. C BY <1>1, <1>4
  <2> QED BY <1>3, <2>1
<1>8. ASSUME m.rows[i].tgt \in Junctions(m), k # 0
      PROVE  \A p : p \in Els(f[k][i]) <=>
               \E n \in DOMAIN m.rows : /\ m.rows[n].src = m.rows[i].tgt
                                        /\ \E t \in Els(f[k - 1][n]) : p = Compound(m.rows[i], t)
  <2> DEFINE g == f[k - 1]
  <2>1. g \in Routes(m) /\ f[k][i] = Onward(m, g, i) BY <1>5, <1>7, <1>8
  <2> HIDE DEF g
  <2>2. \A p : p \in Els(Onward(m, g, i)) <=>
          \E n \in DOMAIN m.rows : /\ m.rows[n].src = m.rows[i].tgt
                                   /\ \E t \in Els(g[n]) : p = Compound(m.rows[i], t)
    BY <2>1, OnwardEls
  <2> QED BY <2>1, <2>2 DEF g
<1> QED BY <1>5, <1>6, <1>8 DEF f

LEMMA ChainedEdges ==
  ASSUME NEW m, Fit(m)
  PROVE  /\ Junctions(Chained(m)) = {} /\ Pseudo(Chained(m)) = Pseudo(m) \ Junctions(m)
         /\ \A s \in Names \ Junctions(m) : Chained(m).kind[s] = m.kind[s]
         /\ \A e : e \in Edges(Chained(m)) <=>
              \/ e \in Edges(m) /\ e.src \notin Junctions(m) /\ e.tgt \notin Junctions(m)
              \/ \E i \in DOMAIN m.rows :
                   /\ m.rows[i].src \notin Junctions(m) /\ m.rows[i].tgt \in Junctions(m)
                   /\ \E p \in Els(Paths(m)[Cardinality(Junctions(m))][i]) : e = Edge(p)
<1> DEFINE J == Junctions(m)
           C == Cardinality(J)
           N == Len(m.rows)
           h == Paths(m)[C]
           seqs == [i \in DOMAIN m.rows |->
                     IF m.rows[i].src \in J \/ m.rows[i].tgt \notin J THEN << >> ELSE h[i]]
           I == UNION {In(m, j) \cup Out(m, j) : j \in J}
           K == DOMAIN m.rows \ I
           rest == Take(m.rows, K)
           whole == FlattenSeq(seqs)
           rows == rest \o whole
<1>1. m.rows \in Seq(Rows) /\ N \in Nat /\ DOMAIN m.rows = 1 .. N
  <2>1. m.rows \in Seq(Rows) BY Parts DEF Fit
  <2> QED BY <2>1
<1>2. C \in Nat /\ C \in 0 .. C BY JunctionsFinite
<1>3. \A i \in DOMAIN m.rows : h[i] \in Seq(Rows) BY <1>2, PathsEls DEF Routes
<1>4. Chained(m) = Cut(m, J, rows)
  BY ErasedRows DEF Chained, Cut, Without, rows, rest, K, whole, seqs, I, h, C, J, Junctions, Paths,
     Found, PathsIs, Onward
<1>5. DOMAIN m.rows \cap K = {i \in DOMAIN m.rows : m.rows[i].src \notin J /\ m.rows[i].tgt \notin J}
  BY DEF In, Out
<1> HIDE DEF J, h, C, K, N
<1>6. rest \in Seq(Rows) /\ Els(rest) = {m.rows[i] : i \in DOMAIN m.rows \cap K}
  BY <1>1, TakeEls
<1>7. << >> \in Seq(Rows) /\ Els(<< >>) = {} BY DEF Els
<1>8. seqs \in [1 .. N -> Seq(Rows)] BY <1>1, <1>3, <1>7
<1>9. \A i \in DOMAIN m.rows :
         seqs[i] = IF m.rows[i].src \in J \/ m.rows[i].tgt \notin J THEN << >> ELSE h[i]
  OBVIOUS
<1> HIDE DEF seqs
<1>10. seqs \in Seq(Seq(Rows)) /\ DOMAIN seqs = DOMAIN m.rows BY <1>1, <1>8
<1>11. whole \in Seq(Rows) /\ Els(whole) = UNION {Els(seqs[i]) : i \in DOMAIN m.rows}
  BY <1>10, FlattenEls
<1> HIDE DEF rest, whole
<1>12. Els(rows) = Els(rest) \cup Els(whole) BY <1>6, <1>11, ElsConcat
<1> HIDE DEF rows
<1>13. /\ Chained(m).rows = rows
       /\ Junctions(Chained(m)) = Junctions(m) \ J /\ Pseudo(Chained(m)) = Pseudo(m) \ J
       /\ \A s \in Names \ J : Chained(m).kind[s] = m.kind[s]
  BY <1>4, Erased
<1>14. \A r : r \in Els(rest) <=> \E i \in DOMAIN m.rows : /\ m.rows[i].src \notin J
                                                           /\ m.rows[i].tgt \notin J
                                                           /\ r = m.rows[i]
  BY <1>5, <1>6
<1>15. \A r : r \in Els(whole) <=> \E i \in DOMAIN m.rows : /\ m.rows[i].src \notin J
                                                            /\ m.rows[i].tgt \in J
                                                            /\ r \in Els(h[i])
  BY <1>7, <1>9, <1>11
<1>16. \A e : e \in Edges(Chained(m)) <=> \E r \in Els(rest) \cup Els(whole) : e = Edge(r)
  BY <1>12, <1>13 DEF Edges
<1>17. \A e : (\E r \in Els(rest) : e = Edge(r)) <=>
                e \in Edges(m) /\ e.src \notin J /\ e.tgt \notin J
  <2>1. \A r : Edge(r).src = r.src /\ Edge(r).tgt = r.tgt BY DEF Edge
  <2> QED BY <1>14, <2>1, EdgesAt
<1>18. \A e : (\E r \in Els(whole) : e = Edge(r)) <=>
                \E i \in DOMAIN m.rows : /\ m.rows[i].src \notin J /\ m.rows[i].tgt \in J
                                         /\ \E p \in Els(h[i]) : e = Edge(p)
  BY <1>15
<1>19. \A e : e \in Edges(Chained(m)) <=>
         \/ e \in Edges(m) /\ e.src \notin J /\ e.tgt \notin J
         \/ \E i \in DOMAIN m.rows : /\ m.rows[i].src \notin J /\ m.rows[i].tgt \in J
                                     /\ \E p \in Els(h[i]) : e = Edge(p)
  BY <1>16, <1>17, <1>18
<1> QED BY <1>13, <1>19 DEF J, h, C

\* What falls along every edge is not turned in a circle.
LEMMA FallsNoCircle ==
  ASSUME NEW E, NEW rank \in [Names -> Nat], Falls(E, Names, rank)
  PROVE  ~Circular(E)
<1> SUFFICES ASSUME NEW S \in SUBSET Names, Circle(E, S) PROVE FALSE BY DEF Circular
<1> DEFINE L == {rank[x] : x \in S}
<1>1. L \in SUBSET Nat /\ L # {} BY DEF Circle
<1>2. PICK l \in L : \A k \in L : l <= k BY <1>1, LeastNat
<1>3. PICK x \in S : l = rank[x] OBVIOUS
<1>4. PICK e \in E : e.src = x /\ e.event = NoEvent /\ e.tgt \in S BY DEF Circle
<1>5. rank[e.tgt] < rank[x] BY <1>3, <1>4 DEF Falls
<1>6. rank[x] <= rank[e.tgt] BY <1>2, <1>3, <1>4
<1>7. rank[x] \in Nat /\ rank[e.tgt] \in Nat BY <1>4
<1> QED BY <1>5, <1>6, <1>7

\* A row that stands for a path through junctions starts and ends as the path
\* does, waits for what its first row waits for, and falls when all do.
LEMMA PathsLead ==
  ASSUME NEW m, Fit(m), Guided(Edges(m), Pseudo(m)),
         NEW rank \in [Names -> Nat], Falls(Edges(m), Names, rank)
  PROVE  \A k \in 0 .. Cardinality(Junctions(m)) : \A i \in DOMAIN m.rows :
           \A p \in Els(Paths(m)[k][i]) :
             /\ p.src = m.rows[i].src /\ p.event = m.rows[i].event
             /\ p.tgt \notin Junctions(m) /\ \E n \in DOMAIN m.rows : p.tgt = m.rows[n].tgt
             /\ m.rows[i].event = NoEvent => rank[p.tgt] < rank[m.rows[i].src]
<1> DEFINE J == Junctions(m)
           C == Cardinality(J)
           f == Paths(m)
           Leads(p, i) ==
             /\ p.src = m.rows[i].src /\ p.event = m.rows[i].event
             /\ p.tgt \notin J /\ \E n \in DOMAIN m.rows : p.tgt = m.rows[n].tgt
             /\ m.rows[i].event = NoEvent => rank[p.tgt] < rank[m.rows[i].src]
           T == {k \in Nat : k <= C => \A i \in DOMAIN m.rows : \A p \in Els(f[k][i]) : Leads(p, i)}
<1>1. C \in Nat BY JunctionsFinite
<1>2. ASSUME NEW i \in DOMAIN m.rows
      PROVE  /\ m.rows[i].src \in Names /\ m.rows[i].tgt \in Names
             /\ m.rows[i].src \in J => m.rows[i].event = NoEvent
             /\ m.rows[i].event = NoEvent => rank[m.rows[i].tgt] < rank[m.rows[i].src]
  <2> DEFINE e == Edge(m.rows[i])
  <2>1. e \in Edges(m) BY EdgesAt
  <2>2. e.src = m.rows[i].src /\ e.tgt = m.rows[i].tgt /\ e.event = m.rows[i].event BY DEF Edge
  <2> HIDE DEF e
  <2>3. e.src \in Names /\ e.tgt \in Names BY <2>1, FitEdge
  <2>4. e.src \in J => e.event = NoEvent BY <2>1 DEF Guided, Junctions, Pseudo, OfKind
  <2>5. e.event = NoEvent => rank[e.tgt] < rank[e.src] BY <2>1, <2>3 DEF Falls
  <2> QED BY <2>2, <2>3, <2>4, <2>5
<1>3. ASSUME NEW k \in 0 .. C, NEW i \in DOMAIN m.rows
      PROVE  /\ m.rows[i].tgt \notin J => Els(f[k][i]) = {m.rows[i]}
             /\ m.rows[i].tgt \in J /\ k = 0 => Els(f[k][i]) = {}
             /\ m.rows[i].tgt \in J /\ k # 0 =>
                  \A p : p \in Els(f[k][i]) <=>
                    \E n \in DOMAIN m.rows :
                      /\ m.rows[n].src = m.rows[i].tgt
                      /\ \E t \in Els(f[k - 1][n]) : p = Compound(m.rows[i], t)
  BY PathsEls
<1>4. \A i \in DOMAIN m.rows : m.rows[i].tgt \notin J => Leads(m.rows[i], i) BY <1>2
<1> HIDE DEF J, C, f
<1>5. 0 \in T
  <2> SUFFICES ASSUME NEW i \in DOMAIN m.rows, NEW p \in Els(f[0][i]) PROVE Leads(p, i) OBVIOUS
  <2>1. 0 \in 0 .. C BY <1>1
  <2>2. m.rows[i].tgt \notin J /\ p = m.rows[i] BY <1>3, <2>1
  <2> HIDE DEF Leads
  <2> QED BY <1>4, <2>2
<1>6. ASSUME NEW k \in T PROVE k + 1 \in T
  <2> DEFINE l == k + 1
  <2>1. k \in Nat OBVIOUS
  <2> SUFFICES ASSUME l <= C, NEW i \in DOMAIN m.rows, NEW p \in Els(f[l][i])
               PROVE  Leads(p, i)
    BY <2>1
  <2>2. l \in 0 .. C /\ l # 0 /\ l - 1 = k /\ k <= C BY <1>1, <2>1
  <2> HIDE DEF l
  <2>3. CASE m.rows[i].tgt \notin J
    <3>1. p = m.rows[i] BY <1>3, <2>2, <2>3
    <3> HIDE DEF Leads
    <3> QED BY <1>4, <2>3, <3>1
  <2>4. CASE m.rows[i].tgt \in J
    <3>a. \A q : q \in Els(f[l][i]) <=>
            \E n \in DOMAIN m.rows : /\ m.rows[n].src = m.rows[i].tgt
                                     /\ \E t \in Els(f[l - 1][n]) : q = Compound(m.rows[i], t)
      BY <1>3, <2>2, <2>4
    <3>b. f[l - 1] = f[k] BY <2>2
    <3>1. PICK n \in DOMAIN m.rows : /\ m.rows[n].src = m.rows[i].tgt
                                     /\ \E t \in Els(f[k][n]) : p = Compound(m.rows[i], t)
      BY <3>a, <3>b
    <3>2. PICK t \in Els(f[k][n]) : p = Compound(m.rows[i], t) BY <3>1
    <3>3. Leads(t, n) BY <2>2
    <3>4. m.rows[n].event = NoEvent BY <1>2, <2>4, <3>1
    <3>5. t.event = NoEvent /\ rank[t.tgt] < rank[m.rows[n].src] BY <3>3, <3>4
    <3>6. p.src = m.rows[i].src /\ p.tgt = t.tgt /\ p.event = m.rows[i].event
      BY <3>2, <3>5 DEF Compound
    <3>7. PICK o \in DOMAIN m.rows : t.tgt = m.rows[o].tgt BY <3>3
    <3>8. m.rows[i].event = NoEvent => rank[p.tgt] < rank[m.rows[i].src]
      <4>1. t.tgt \in Names /\ m.rows[i].tgt \in Names /\ m.rows[i].src \in Names BY <1>2, <3>7
      <4>2. rank[t.tgt] \in Nat /\ rank[m.rows[i].tgt] \in Nat /\ rank[m.rows[i].src] \in Nat
        BY <4>1
      <4>3. m.rows[i].event = NoEvent => rank[m.rows[i].tgt] < rank[m.rows[i].src] BY <1>2
      <4> QED BY <3>1, <3>5, <3>6, <4>2, <4>3
    <3> QED BY <3>3, <3>6, <3>7, <3>8
  <2> QED BY <2>3, <2>4
<1> HIDE DEF T
<1>7. T = Nat BY <1>5, <1>6, NatSet DEF T
<1>8. \A k \in 0 .. C : \A i \in DOMAIN m.rows : \A p \in Els(f[k][i]) : Leads(p, i)
  <2>1. \A k \in 0 .. C : k \in Nat /\ k <= C BY <1>1
  <2> QED BY <1>7, <2>1 DEF T
<1> QED BY <1>8 DEF f, C, J

\* No row into a junction is lost when every junction that is entered can be
\* left and no circle keeps it.
LEMMA PathsEnd ==
  ASSUME NEW m, Fit(m), Guided(Edges(m), Pseudo(m)), ~JunctionCycle(m), NEW i \in DOMAIN m.rows
  PROVE  Els(Paths(m)[Cardinality(Junctions(m))][i]) # {}
<1> DEFINE J == Junctions(m)
           C == Cardinality(J)
           f == Paths(m)
<1>1. C \in Nat /\ IsFiniteSet(J) BY JunctionsFinite
<1>2. \A S \in SUBSET J : ~Circle(Edges(m), S) BY RingCircle, CycleRing
<1>3. PICK rank \in [J -> Nat] : (\A x \in J : rank[x] < C) /\ Falls(Edges(m), J, rank)
  <2> HIDE DEF J
  <2> QED BY <1>1, <1>2, NoCircleFalls
<1> DEFINE Near(k, n) == m.rows[n].tgt \in J => rank[m.rows[n].tgt] < k
           T == {k \in Nat : k <= C => \A n \in DOMAIN m.rows : Near(k, n) => Els(f[k][n]) # {}}
<1>4. ASSUME NEW k \in 0 .. C, NEW n \in DOMAIN m.rows
      PROVE  /\ m.rows[n].tgt \notin J => Els(f[k][n]) # {}
             /\ m.rows[n].tgt \in J /\ k # 0 =>
                  \A p : p \in Els(f[k][n]) <=>
                    \E o \in DOMAIN m.rows :
                      /\ m.rows[o].src = m.rows[n].tgt
                      /\ \E t \in Els(f[k - 1][o]) : p = Compound(m.rows[n], t)
  <2>1. {m.rows[n]} # {} OBVIOUS
  <2>2. m.rows[n].tgt \notin J => Els(f[k][n]) = {m.rows[n]} BY PathsEls
  <2>3. m.rows[n].tgt \in J /\ k # 0 =>
          \A p : p \in Els(f[k][n]) <=>
            \E o \in DOMAIN m.rows : /\ m.rows[o].src = m.rows[n].tgt
                                     /\ \E t \in Els(f[k - 1][o]) : p = Compound(m.rows[n], t)
    BY PathsEls
  <2> QED BY <2>1, <2>2, <2>3
<1>5. ASSUME NEW n \in DOMAIN m.rows, m.rows[n].tgt \in J
      PROVE  \E o \in DOMAIN m.rows :
               /\ m.rows[o].src = m.rows[n].tgt
               /\ m.rows[o].tgt \in J => rank[m.rows[o].tgt] < rank[m.rows[n].tgt]
  <2> DEFINE e == Edge(m.rows[n])
  <2>1. e \in Edges(m) /\ e.tgt = m.rows[n].tgt BY EdgesAt DEF Edge
  <2> HIDE DEF e
  <2>2. PICK d \in Edges(m) : d.src = e.tgt
    BY <1>5, <2>1 DEF Guided, Junctions, Pseudo, OfKind
  <2>3. d.event = NoEvent BY <1>5, <2>1, <2>2 DEF Guided, Junctions, Pseudo, OfKind
  <2>4. d.tgt \in J => rank[d.tgt] < rank[d.src] BY <1>3, <1>5, <2>1, <2>2, <2>3 DEF Falls
  <2>5. PICK o \in DOMAIN m.rows : d = Edge(m.rows[o]) BY EdgesAt
  <2>6. d.src = m.rows[o].src /\ d.tgt = m.rows[o].tgt BY <2>5 DEF Edge
  <2> QED BY <2>1, <2>2, <2>4, <2>6
<1> HIDE DEF J, C, f
<1>6. 0 \in T
  <2> SUFFICES ASSUME NEW n \in DOMAIN m.rows, Near(0, n) PROVE Els(f[0][n]) # {} OBVIOUS
  <2>1. m.rows[n].tgt \notin J
    <3>1. m.rows[n].tgt \in J => rank[m.rows[n].tgt] \in Nat BY <1>3
    <3> QED BY <3>1
  <2>2. 0 \in 0 .. C BY <1>1
  <2> QED BY <1>4, <2>1, <2>2
<1>7. ASSUME NEW k \in T PROVE k + 1 \in T
  <2> DEFINE l == k + 1
  <2>1. k \in Nat OBVIOUS
  <2> SUFFICES ASSUME l <= C, NEW n \in DOMAIN m.rows, Near(l, n)
               PROVE  Els(f[l][n]) # {}
    BY <2>1
  <2>2. l \in 0 .. C /\ l # 0 /\ l - 1 = k /\ k <= C /\ l = k + 1 BY <1>1, <2>1
  <2> HIDE DEF l
  <2>3. CASE m.rows[n].tgt \notin J BY <1>4, <2>2, <2>3
  <2>4. CASE m.rows[n].tgt \in J
    <3>1. PICK o \in DOMAIN m.rows :
            /\ m.rows[o].src = m.rows[n].tgt
            /\ m.rows[o].tgt \in J => rank[m.rows[o].tgt] < rank[m.rows[n].tgt]
      BY <1>5, <2>4
    <3>2. Near(k, o)
      <4>1. rank[m.rows[n].tgt] \in Nat /\ rank[m.rows[n].tgt] < k + 1 BY <1>3, <2>2, <2>4
      <4>2. m.rows[o].tgt \in J => rank[m.rows[o].tgt] \in Nat BY <1>3
      <4> QED BY <2>1, <3>1, <4>1, <4>2
    <3>3. PICK t : t \in Els(f[k][o]) BY <2>2, <3>2
    <3> DEFINE p == Compound(m.rows[n], t)
    <3>4. p \in Els(f[l][n])
      <4> HIDE DEF p
      <4>1. \A q : q \in Els(f[l][n]) <=>
              \E j \in DOMAIN m.rows : /\ m.rows[j].src = m.rows[n].tgt
                                       /\ \E u \in Els(f[l - 1][j]) : q = Compound(m.rows[n], u)
        BY <1>4, <2>2, <2>4
      <4>2. f[l - 1] = f[k] BY <2>2
      <4>3. \E u \in Els(f[k][o]) : p = Compound(m.rows[n], u) BY <3>3 DEF p
      <4> QED BY <3>1, <4>1, <4>2, <4>3
    <3> QED BY <3>4
  <2> QED BY <2>3, <2>4
<1> HIDE DEF T
<1>8. T = Nat BY <1>6, <1>7, NatSet DEF T
<1>9. Near(C, i) BY <1>3
<1>10. Els(f[C][i]) # {}
  <2> HIDE DEF Near
  <2> QED BY <1>1, <1>8, <1>9 DEF T
<1> QED BY <1>10 DEF f, C, J

LEMMA ChainedFlat ==
  ASSUME NEW m, Fit(m), Proper(Edges(m), Junctions(m), Pseudo(m)), ~JunctionCycle(m)
  PROVE  ~Circular(Edges(Chained(m))) /\ Guided(Edges(Chained(m)), Pseudo(Chained(m)))
<1> DEFINE J == Junctions(m)
           E == Edges(m)
           F == Edges(Chained(m))
           found(i) == Els(Paths(m)[Cardinality(J)][i])
           into == {i \in DOMAIN m.rows : m.rows[i].src \notin J /\ m.rows[i].tgt \in J}
<1>1. Guided(E, Pseudo(m)) BY DEF Proper
<1>2. \A S \in SUBSET J : ~Circle(E, S) BY RingCircle, CycleRing
<1>3. \A S \in SUBSET Names : ~Circle(E, S) BY <1>2 DEF Proper
<1>4. PICK rank \in [Names -> Nat] : Falls(E, Names, rank)
  <2> HIDE DEF E
  <2> QED BY <1>3, Numbers, NoCircleFalls
<1>5. \A e : e \in F <=> \/ e \in E /\ e.src \notin J /\ e.tgt \notin J
                         \/ \E i \in into : \E p \in found(i) : e = Edge(p)
  BY ChainedEdges
<1>6. ASSUME NEW i \in DOMAIN m.rows, NEW p \in found(i)
      PROVE  /\ Edge(p).src = m.rows[i].src /\ Edge(p).event = m.rows[i].event
             /\ Edge(p).tgt \notin J /\ \E n \in DOMAIN m.rows : Edge(p).tgt = m.rows[n].tgt
             /\ m.rows[i].event = NoEvent => rank[Edge(p).tgt] < rank[m.rows[i].src]
  <2>1. Cardinality(J) \in 0 .. Cardinality(J) BY JunctionsFinite
  <2>2. /\ p.src = m.rows[i].src /\ p.event = m.rows[i].event
        /\ p.tgt \notin J /\ \E n \in DOMAIN m.rows : p.tgt = m.rows[n].tgt
        /\ m.rows[i].event = NoEvent => rank[p.tgt] < rank[m.rows[i].src]
    BY <1>1, <1>4, <2>1, PathsLead
  <2>3. Edge(p).src = p.src /\ Edge(p).event = p.event /\ Edge(p).tgt = p.tgt BY DEF Edge
  <2> QED BY <2>2, <2>3
<1>7. \A i \in DOMAIN m.rows : found(i) # {} BY <1>1, PathsEnd
<1>8. \A i \in DOMAIN m.rows : /\ Edge(m.rows[i]) \in E
                               /\ Edge(m.rows[i]).src = m.rows[i].src
                               /\ Edge(m.rows[i]).tgt = m.rows[i].tgt
                               /\ Edge(m.rows[i]).event = m.rows[i].event
  BY EdgesAt DEF Edge
<1>9. \A e \in E : e.src \in Names /\ e.tgt \in Names BY FitEdge
<1>10. Pseudo(Chained(m)) = Pseudo(m) \ J BY ChainedEdges
<1> HIDE DEF E, F, found, J
<1>11. Falls(F, Names, rank)
  <2> SUFFICES ASSUME NEW e \in F, e.event = NoEvent PROVE rank[e.tgt] < rank[e.src] BY DEF Falls
  <2>1. CASE e \in E BY <1>4, <1>9, <2>1 DEF Falls
  <2>2. CASE \E i \in into : \E p \in found(i) : e = Edge(p) BY <1>6, <2>2
  <2> QED BY <1>5, <2>1, <2>2
<1>12. ~Circular(F) BY <1>4, <1>11, FallsNoCircle
<1>13. ASSUME NEW f \in F, f.src \in Pseudo(m) PROVE f.event = NoEvent
  <2>1. CASE f \in E BY <1>1, <1>13, <2>1 DEF Guided
  <2>2. CASE \E i \in into : \E p \in found(i) : f = Edge(p)
    <3>1. PICK i \in into : \E p \in found(i) : f = Edge(p) BY <2>2
    <3>2. f.src = Edge(m.rows[i]).src /\ f.event = Edge(m.rows[i]).event BY <1>6, <1>8, <3>1
    <3> QED BY <1>1, <1>8, <1>13, <3>2 DEF Guided
  <2> QED BY <1>5, <2>1, <2>2
<1>14. ASSUME NEW f \in F, f.tgt \in Pseudo(m) PROVE \E g \in F : g.src = f.tgt
  <2>1. f.tgt \notin J /\ \E e \in E : e.tgt = f.tgt
    <3>1. CASE \E i \in into : \E p \in found(i) : f = Edge(p) BY <1>6, <1>8, <3>1
    <3> QED BY <1>5, <3>1
  <2>2. PICK e \in E : e.src = f.tgt BY <1>1, <1>14, <2>1 DEF Guided
  <2>3. CASE e.tgt \notin J BY <1>5, <2>1, <2>2, <2>3
  <2>4. CASE e.tgt \in J
    <3>1. PICK i \in DOMAIN m.rows : e = Edge(m.rows[i]) BY EdgesAt DEF E
    <3>2. i \in into BY <1>8, <2>1, <2>2, <2>4, <3>1
    <3>3. PICK p : p \in found(i) BY <1>7
    <3>4. Edge(p) \in F BY <1>5, <3>2, <3>3
    <3>5. Edge(p).src = f.tgt BY <1>6, <1>8, <2>2, <3>1, <3>3
    <3> QED BY <3>4, <3>5
  <2> QED BY <2>3, <2>4
<1>15. Guided(F, Pseudo(m) \ J) BY <1>13, <1>14 DEF Guided
<1> QED BY <1>10, <1>12, <1>15 DEF F

-----------------------------------------------------------------------------
(* A machine that is lawful stays lawful, and one without pseudostates gets *)
(* none.                                                                    *)

Trapped(m) == Caught(Edges(m), Junctions(m))

\* No circle appears, and one that is caught stays.
Saves(m, n) ==
  /\ Lawful(n)
  /\ Circular(Edges(n)) => Circular(Edges(m))
  /\ Trapped(m) => Trapped(n)

\* Every row leads to a state.
Plain(m) == \A e \in Edges(m) : m.kind[e.tgt] = "atomic"

LEMMA KeptSaves ==
  ASSUME NEW m, NEW n, Kept(m, n)
  PROVE  /\ Lawful(m) => Saves(m, n)
         /\ Plain(m) => Plain(n)
<1>1. Junctions(n) = Junctions(m) /\ Pseudo(n) = Pseudo(m) BY DEF Kept, Junctions, Pseudo, OfKind
<1>2. Edges(n) = Edges(m) /\ n.kind = m.kind BY DEF Kept
<1> QED BY <1>1, <1>2 DEF Saves, Lawful, Trapped, Plain

LEMMA PrunedSaves ==
  ASSUME NEW m, Fit(m)
  PROVE  /\ Lawful(m) => Saves(m, Pruned(m))
         /\ Plain(m) => Plain(Pruned(m))
<1> DEFINE E == Edges(m)
           R == Reached(m)
           n == Pruned(m)
<1>1. /\ Edges(n) = Alive(E, R)
      /\ Junctions(m) \cap R \subseteq Junctions(n)
      /\ Pseudo(n) \subseteq Pseudo(m)
      /\ \A s \in R : n.kind[s] = m.kind[s]
  BY PrunedEdges
<1>2. Closed(E, R) /\ R \in SUBSET Names BY ReachedClosed
<1> HIDE DEF E, R, n
<1>3. ASSUME Lawful(m) PROVE Saves(m, n)
  <2>1. Proper(E, Junctions(m), Pseudo(m)) BY <1>3 DEF Lawful, E
  <2>2. Lawful(n) BY <1>1, <1>2, <2>1, AliveProper DEF Lawful
  <2>3. Circular(Edges(n)) => Circular(E) BY <1>1, AliveCircle DEF Circular
  <2>4. Trapped(m) => Trapped(n)
    <3>1. Enabled(E) BY <2>1 DEF Proper
    <3> QED BY <1>1, <1>2, <3>1, AliveCaught DEF Trapped, E
  <2> QED BY <2>2, <2>3, <2>4 DEF Saves, E
<1>4. ASSUME Plain(m) PROVE Plain(n)
  <2> SUFFICES ASSUME NEW e \in Alive(E, R) PROVE n.kind[e.tgt] = "atomic" BY <1>1 DEF Plain
  <2>1. e \in E /\ e.tgt \in R BY <1>2 DEF Alive, Closed
  <2> QED BY <1>1, <1>4, <2>1 DEF Plain, E
<1> QED BY <1>3, <1>4 DEF n

\* The edges of a machine without one of its states.
LEMMA BypassSaves ==
  ASSUME NEW m, Fit(m), NEW s \in Names, s # Initial, Passed(Edges(m), s), NEW n,
         Edges(n) = Bypass(Edges(m), s), \E e \in Edges(m) : e.src = s,
         Junctions(n) = Junctions(m) \ {s}, Pseudo(n) = Pseudo(m) \ {s},
         \A x \in Names \ {s} : n.kind[x] = m.kind[x]
  PROVE  /\ Lawful(m) => Saves(m, n)
         /\ Plain(m) => Plain(n)
<1> DEFINE E == Edges(m)
<1> HIDE DEF E
<1>1. ASSUME Circular(Edges(n)) PROVE Circular(E)
  <2>1. PICK S \in SUBSET Names : Circle(Bypass(E, s), S) BY <1>1 DEF Circular, E
  <2>2. Circle(E, S) \/ Circle(E, S \cup {s}) BY <2>1, BypassCircle DEF E
  <2>3. S \cup {s} \in SUBSET Names OBVIOUS
  <2> QED BY <2>2, <2>3 DEF Circular
<1>2. ASSUME Lawful(m) PROVE Saves(m, n)
  <2>1. Proper(E, Junctions(m), Pseudo(m)) /\ Enabled(E) BY <1>2 DEF Lawful, E, Proper
  <2>2. Lawful(n) BY <2>1, BypassProper DEF Lawful, E
  <2>3. Trapped(m) => Trapped(n) BY <2>1, BypassCaught DEF Trapped, E
  <2> QED BY <1>1, <2>2, <2>3 DEF Saves, E
<1>3. ASSUME Plain(m) PROVE Plain(n)
  <2> SUFFICES ASSUME NEW f \in Bypass(E, s) PROVE n.kind[f.tgt] = "atomic" BY DEF Plain, E
  <2>1. f.tgt # s /\ \E e \in E : f.tgt = e.tgt BY BypassEdge DEF E
  <2>2. f.tgt \in Names BY <2>1, FitEdge DEF E
  <2> QED BY <1>3, <2>1, <2>2 DEF Plain, E
<1> QED BY <1>2, <1>3

LEMMA FusedSaves ==
  ASSUME NEW m, Fit(m), NEW s, s \in Transient(m)
  PROVE  /\ Lawful(m) => Saves(m, Fused(m, s))
         /\ Plain(m) => Plain(Fused(m, s))
<1> DEFINE n == Fused(m, s)
<1>1. s \in Names /\ s # Initial /\ Passed(Edges(m), s) BY TransientPassed
<1>2. /\ Edges(n) = Bypass(Edges(m), s) /\ \E e \in Edges(m) : e.src = s
      /\ Junctions(n) = Junctions(m) \ {s} /\ Pseudo(n) = Pseudo(m) \ {s}
      /\ \A x \in Names \ {s} : n.kind[x] = m.kind[x]
  BY FusedEdges
<1> HIDE DEF n
<1>3. (Lawful(m) => Saves(m, n)) /\ (Plain(m) => Plain(n)) BY <1>1, <1>2, BypassSaves
<1> QED BY <1>3 DEF n

LEMMA MergedSaves ==
  ASSUME NEW m, Fit(m), NEW B, Partition(B, Present(m)), Present(m) \subseteq UNION B,
         Uniform(m, B), Refined(m, B) = B
  PROVE  /\ Lawful(m) => Saves(m, Merged(m, B))
         /\ Plain(m) => Plain(Merged(m, B))
<1>1. CASE Merged(m, B) = m BY <1>1 DEF Saves
<1>2. CASE Merged(m, B) # m
  <2> DEFINE E == Edges(m)
             D == Present(m)
             h == [s \in D |-> Rep(B, s)]
             n == Merged(m, B)
             K == Junctions(n)
             Q == Pseudo(n)
  <2>1. /\ Edges(n) = Quotient(E, h)
        /\ K \subseteq Junctions(m) /\ Q \subseteq Pseudo(m)
        /\ \A s \in D : n.kind[Rep(B, s)] = m.kind[s]
    BY <1>2, MergedEdges
  <2>2. Foldable(E, D, h) BY RepFolds
  <2>3. D \in SUBSET Names /\ Initial \in D BY FitParts
  <2>4. \A s \in D : h[s] = Rep(B, s) OBVIOUS
  <2>5. \A s \in D : Rep(B, s) \in D BY RepIs
  <2>6. h[Initial] = Initial BY <2>3, <2>4, RepIs
  <2> HIDE DEF h, D, E
  <2>7. \A x \in D : h[x] \in Q => x \in Pseudo(m)
    <3> SUFFICES ASSUME NEW x \in D, h[x] \in Q PROVE x \in Pseudo(m) OBVIOUS
    <3>1. n.kind[h[x]] = m.kind[x] BY <2>1, <2>4
    <3>2. x \in Names BY <2>3
    <3> QED BY <3>1, <3>2 DEF Pseudo, OfKind
  <2>8. \A x \in Junctions(m) \cap D : h[x] \in K
    <3> SUFFICES ASSUME NEW x \in Junctions(m) \cap D PROVE h[x] \in K OBVIOUS
    <3>1. n.kind[h[x]] = m.kind[x] BY <2>1, <2>4
    <3>2. h[x] \in Names BY <2>3, <2>4, <2>5
    <3> QED BY <3>1, <3>2 DEF Junctions, OfKind
  <2> HIDE DEF n, K, Q
  <2>9. ASSUME Lawful(m) PROVE Saves(m, n)
    <3>1. Proper(E, Junctions(m), Pseudo(m)) BY <2>9 DEF Lawful, E
    <3>2. Lawful(n) BY <2>1, <2>2, <2>3, <2>7, <2>8, <3>1, QuotientProper DEF Lawful, K, Q
    <3>3. ASSUME Circular(Edges(n)) PROVE Circular(E)
      <4>1. PICK S \in SUBSET Names : Circle(Quotient(E, h), S) BY <2>1, <3>3 DEF Circular
      <4>2. Circle(E, {x \in D : h[x] \in S}) BY <2>2, <4>1, QuotientCircle
      <4>3. {x \in D : h[x] \in S} \in SUBSET Names BY <2>3
      <4> QED BY <4>2, <4>3 DEF Circular
    <3>4. Trapped(m) => Trapped(n)
      BY <2>1, <2>2, <2>3, <2>6, <2>8, QuotientCaught DEF Trapped, K, E
    <3> QED BY <3>2, <3>3, <3>4 DEF Saves, E
  <2>10. ASSUME Plain(m) PROVE Plain(n)
    <3> SUFFICES ASSUME NEW f \in Quotient(E, h) PROVE n.kind[f.tgt] = "atomic" BY <2>1 DEF Plain
    <3>1. PICK e \in E : f.tgt = h[e.tgt] BY QuotientEdge
    <3>2. e.tgt \in D BY <2>2 DEF Foldable
    <3>3. n.kind[f.tgt] = m.kind[e.tgt] BY <2>1, <2>4, <3>1, <3>2
    <3> QED BY <2>10, <3>3 DEF Plain, E
  <2> QED BY <2>9, <2>10 DEF n
<1> QED BY <1>1, <1>2

LEMMA ChainedPlain ==
  ASSUME NEW m, Fit(m), Plain(m)
  PROVE  Plain(Chained(m)) /\ ~JunctionCycle(m)
<1>1. \A i \in DOMAIN m.rows : m.rows[i].tgt \notin Junctions(m)
  <2> SUFFICES ASSUME NEW i \in DOMAIN m.rows PROVE m.rows[i].tgt \notin Junctions(m) OBVIOUS
  <2>1. Edge(m.rows[i]) \in Edges(m) /\ Edge(m.rows[i]).tgt = m.rows[i].tgt BY EdgesAt DEF Edge
  <2> QED BY <2>1 DEF Plain, Junctions, OfKind
<1>2. ~JunctionCycle(m)
  <2>1. \A S : Onto(m, S) = {} BY <1>1 DEF Onto
  <2> QED BY <2>1, CycleRing DEF Ring
<1>3. \A e \in Edges(Chained(m)) : e \in Edges(m) /\ e.tgt \notin Junctions(m)
  BY <1>1, ChainedEdges
<1>4. \A e \in Edges(m) : e.tgt \in Names BY FitEdge
<1>5. \A s \in Names \ Junctions(m) : Chained(m).kind[s] = m.kind[s] BY ChainedEdges
<1> QED BY <1>2, <1>3, <1>4, <1>5 DEF Plain

LEMMA InlinedPlain ==
  ASSUME NEW m, Fit(m), Plain(m), NEW c
  PROVE  Plain(Inlined(m, c))
<1>1. CASE ~Inlines(m, c)
  <2>1. Inlined(m, c) = m BY <1>1 DEF Inlines, Inlined
  <2> QED BY <2>1
<1>2. CASE Inlines(m, c)
  <2> SUFFICES ASSUME NEW e \in Edges(Inlined(m, c)) PROVE Inlined(m, c).kind[e.tgt] = "atomic"
    BY DEF Plain
  <2>1. \A x \in Names \ {c} : Inlined(m, c).kind[x] = m.kind[x] BY <1>2, InlinedEdges
  <2>2. \E d \in Edges(m) : e.tgt = d.tgt /\ d.tgt # c
    <3>1. CASE e \in Edges(m) /\ e.tgt # c BY <3>1
    <3>2. CASE \E i \in In(m, c), o \in Out(m, c) \ In(m, c) :
                 e = Edge(Compound(m.rows[i], m.rows[o]))
      <4>1. PICK i \in In(m, c), o \in Out(m, c) \ In(m, c) :
                 e = Edge(Compound(m.rows[i], m.rows[o]))
        BY <3>2
      <4>2. o \in DOMAIN m.rows /\ m.rows[o].tgt # c BY DEF Out, In
      <4>3. e.tgt = m.rows[o].tgt BY <4>1, CompoundEdge
      <4>4. Edge(m.rows[o]) \in Edges(m) /\ Edge(m.rows[o]).tgt = m.rows[o].tgt
        BY <4>2, EdgesAt DEF Edge
      <4> QED BY <4>2, <4>3, <4>4
    <3> QED BY <1>2, <3>1, <3>2, InlinedEdges
  <2>3. e.tgt \in Names \ {c} BY <2>2, FitEdge
  <2> QED BY <2>1, <2>2, <2>3 DEF Plain
<1> QED BY <1>1, <1>2

LEMMA RewrittenSaves ==
  ASSUME NEW m, Fit(m), NEW p \in Passes \ Looping, p # "ConnectiveJunctionChaining"
  PROVE  /\ Lawful(m) => Saves(m, Rewritten(p, m))
         /\ Plain(m) => Plain(Rewritten(p, m))
<1>1. Kept(m, FactoredOut(FactoredIn(m)))
  <2>1. Kept(m, FactoredIn(m)) /\ Fit(FactoredIn(m)) BY FactoredInKept, FactoredInFit
  <2>2. Kept(FactoredIn(m), FactoredOut(FactoredIn(m))) BY <2>1, FactoredOutKept
  <2> QED BY <2>1, <2>2 DEF Kept
<1>2. CASE p = "DeadStatePruning" BY <1>2, PrunedSaves DEF Rewritten
<1>3. CASE p # "DeadStatePruning"
  <2>1. p \in {"HierarchyCanonicalization", "DeterminismEnforcement", "CommonActionFactoring",
               "BoundaryActionFusion"}
    BY <1>3 DEF Passes, Looping
  <2>2. Kept(m, Rewritten(p, m))
    BY <1>1, <2>1, CanonicalKept, EnforcedKept, BoundaryFusedKept DEF Rewritten
  <2> QED BY <2>2, KeptSaves
<1> QED BY <1>2, <1>3

-----------------------------------------------------------------------------
LEMMA LowersOn ==
  ASSUME NEW p \in Seq(Passes), Lowers(p)
  PROVE  /\ p # << >> /\ Head(p) # "ChoiceInlining"
         /\ Head(p) = "ConnectiveJunctionChaining" =>
              Tail(p) # << >> /\ Head(Tail(p)) = "ChoiceInlining"
         /\ Head(p) # "ConnectiveJunctionChaining" => Lowers(Tail(p))
<1> DEFINE n == Len(p)
           t == Tail(p)
<1>1. PICK k \in 1 .. (n - 1) :
        /\ p[k] = "ConnectiveJunctionChaining" /\ p[k + 1] = "ChoiceInlining"
        /\ \A j \in 1 .. (k - 1) : p[j] \notin {"ConnectiveJunctionChaining", "ChoiceInlining"}
  BY DEF Lowers
<1>2. n \in Nat /\ 2 <= n /\ p # << >> BY <1>1
<1>3. Head(p) = p[1] /\ Len(t) = n - 1 /\ \A i \in 1 .. (n - 1) : t[i] = p[i + 1] BY <1>2
<1>4. CASE k = 1
  <2>1. Head(p) = "ConnectiveJunctionChaining" BY <1>1, <1>3, <1>4
  <2>2. t # << >> /\ t[1] = "ChoiceInlining"
    <3>1. 1 \in 1 .. (n - 1) BY <1>2
    <3>2. t[1] = p[1 + 1] BY <1>3, <3>1
    <3> HIDE DEF t, n
    <3>3. t # << >>
      <4>1. Len(t) # 0 BY <1>2, <1>3
      <4>2. Len(<< >>) = 0 OBVIOUS
      <4> QED BY <4>1, <4>2
    <3> QED BY <1>1, <1>4, <3>2, <3>3
  <2> QED BY <1>2, <2>1, <2>2
<1>5. CASE k # 1
  <2>1. 1 \in 1 .. (k - 1) /\ k \in Nat /\ k - 1 \in 1 .. (n - 2) BY <1>1, <1>2, <1>5
  <2>2. p[1] \notin {"ConnectiveJunctionChaining", "ChoiceInlining"} BY <1>1, <2>1
  <2> HIDE DEF t, n
  <2>3. t[k - 1] = p[k] /\ t[(k - 1) + 1] = p[k + 1]
    <3>1. k - 1 \in 1 .. (n - 1) /\ k \in 1 .. (n - 1) /\ (k - 1) + 1 = k BY <1>2, <2>1
    <3>2. t[k - 1] = p[(k - 1) + 1] /\ t[k] = p[k + 1] BY <1>3, <3>1
    <3> QED BY <3>1, <3>2
  <2>4. ASSUME NEW j \in 1 .. ((k - 1) - 1)
        PROVE  t[j] \notin {"ConnectiveJunctionChaining", "ChoiceInlining"}
    <3>1. j \in 1 .. (n - 1) /\ j + 1 \in 1 .. (k - 1) BY <1>2, <2>1
    <3>2. t[j] = p[j + 1] BY <1>3, <3>1
    <3> QED BY <1>1, <3>1, <3>2
  <2>5. k - 1 \in 1 .. (Len(t) - 1) BY <1>2, <1>3, <2>1
  <2>6. Lowers(t) BY <1>1, <2>3, <2>4, <2>5 DEF Lowers
  <2> QED BY <1>2, <1>3, <2>2, <2>6 DEF t
<1> QED BY <1>4, <1>5

\* Before the pseudostates are lowered.
Early ==
  /\ Lowers(todo) /\ Lawful(ir)
  /\ Circular(Edges(ir)) => Circular(Edges(source))
  /\ Trapped(source) => Trapped(ir)

\* The junctions are chained, the choices still to inline are in left.
Mid ==
  /\ Current("ChoiceInlining") /\ ~Trapped(source)
  /\ Junctions(ir) = {} /\ ~Circular(Edges(ir)) /\ Guided(Edges(ir), Pseudo(ir))
  /\ busy => \A e \in Edges(ir) : e.tgt \in Pseudo(ir) => e.tgt \in left

Late == Plain(ir) /\ ~Trapped(source)

\* A machine is refused for a circle of its own, and comes out without
\* pseudostates.
FlatInv ==
  /\ Lawful(source)
  /\ phase = "passes" => Early \/ Mid \/ Late
  /\ phase = "failed" => Circular(Edges(source))
  /\ phase = "emitted" => Late
  /\ Current("StateMinimization") /\ busy => Uniform(ir, blocks)
  /\ Current("ChoiceInlining") /\ busy => left \subseteq Pseudo(ir)

LEMMA InitFlat ==
  ASSUME \A m \in Sources : Lawful(m), \A p \in Pipelines : Lowers(p), Init
  PROVE  FlatInv
<1>1. Lawful(source) /\ Lowers(todo) /\ ir = source /\ phase = "passes" /\ busy = FALSE
  BY DEF Init, Sources, Pipelines
<1> QED BY <1>1 DEF FlatInv, Early

LEMMA FlatEmitted == FitInv /\ FlatInv => EmittedFlat
<1> SUFFICES ASSUME FitInv, FlatInv PROVE EmittedFlat OBVIOUS
<1>0. Fit(ir) /\ Fit(source) /\ Lawful(source) BY DEF FitInv, FlatInv
<1>1. ASSUME phase = "failed" PROVE JunctionCycle(source)
  <2>1. PICK S \in SUBSET Names : Circle(Edges(source), S) BY <1>1 DEF FlatInv, Circular
  <2>2. PICK T \in SUBSET (S \cap Junctions(source)) : Circle(Edges(source), T)
    BY <1>0, <2>1 DEF Lawful, Proper
  <2>3. T \in SUBSET Junctions(source) OBVIOUS
  <2> QED BY <2>2, <2>3, RingCircle, CycleRing
<1>2. ASSUME phase = "emitted", NEW s \in Reached(ir) PROVE ir.kind[s] = "atomic"
  <2> DEFINE Z == {Initial} \cup {e.tgt : e \in Edges(ir)}
  <2>1. Closed(Edges(ir), Z) BY DEF Closed
  <2> HIDE DEF Z
  <2>2. s \in Z BY <1>0, <2>1, ReachedClosed
  <2>3. ir.kind[Initial] = "atomic" BY <1>0 DEF Fit
  <2>4. Plain(ir) BY <1>2 DEF FlatInv, Late
  <2> QED BY <2>2, <2>3, <2>4 DEF Z, Plain
<1>3. ASSUME phase = "emitted", JunctionCycle(Pruned(source)) PROVE FALSE
  <2> DEFINE n == Pruned(source)
             R == Reached(source)
  <2>1. PICK T \in SUBSET Junctions(n) : Ring(n, T) BY <1>3, CycleRing
  <2>2. Saves(source, n) BY <1>0, PrunedSaves
  <2>3. Guided(Edges(n), Pseudo(n)) BY <2>2 DEF Saves, Lawful, Proper
  <2>4. Circle(Edges(n), T) BY <2>1, <2>3, RingCircle
  <2>5. Edges(n) = Alive(Edges(source), R) /\ Junctions(n) \subseteq Junctions(source)
    BY <1>0, PrunedEdges
  <2> HIDE DEF n, R
  <2>6. Circle(Edges(source), T) /\ T \subseteq R BY <2>4, <2>5, AliveCircle
  <2>7. \A S \in SUBSET Names : Closed(Edges(source), S) => T \subseteq S
    BY <1>0, <2>6, ReachedClosed DEF R
  <2>8. T \in SUBSET Junctions(source) BY <2>5
  <2>9. Trapped(source) BY <2>6, <2>7, <2>8 DEF Trapped, Caught
  <2> QED BY <1>3, <2>9 DEF FlatInv, Late
<1> QED BY <1>1, <1>2, <1>3 DEF EmittedFlat

\* A pass that neither chains nor inlines, or a round of one.
LEMMA StepSaves ==
  ASSUME FitInv, FlatInv, phase = "passes", todo # << >>,
         Head(todo) \notin {"ConnectiveJunctionChaining", "ChoiceInlining"},
         NEW n, Lawful(ir) => Saves(ir, n), Plain(ir) => Plain(n),
         ir' = n, source' = source, todo' \in {todo, Tail(todo)}
  PROVE  Lawful(source)' /\ (Early' \/ Late')
<1>1. Lawful(source)' BY DEF FlatInv
<1>2. ~Mid BY DEF Mid, Current
<1>3. CASE Early
  <2>1. Lowers(todo) /\ Lawful(ir) /\ todo \in Seq(Passes) BY <1>3 DEF Early, FitInv
  <2>2. Lowers(todo') BY <2>1, LowersOn
  <2>3. /\ Lawful(n) /\ (Circular(Edges(n)) => Circular(Edges(ir)))
        /\ (Trapped(ir) => Trapped(n))
    BY <2>1 DEF Saves
  <2> QED BY <1>1, <1>3, <2>2, <2>3 DEF Early
<1>4. CASE Late BY <1>1, <1>4 DEF Late
<1> QED BY <1>2, <1>3, <1>4 DEF FlatInv

\* The junctions are chained.
LEMMA StepChained ==
  ASSUME FitInv, FlatInv, Rewrite("ConnectiveJunctionChaining")
  PROVE  FlatInv'
<1> DEFINE n == Chained(ir)
<1>1. /\ phase = "passes" /\ todo # << >> /\ Head(todo) = "ConnectiveJunctionChaining"
      /\ ~JunctionCycle(ir) /\ ir' = n /\ todo' = Tail(todo) /\ busy' = FALSE
      /\ source' = source /\ phase' = "passes"
  BY DEF Rewrite, Rewritten, NextPass, Current, runVars
<1>2. Fit(ir) /\ todo \in Seq(Passes) /\ Lawful(source) BY DEF FitInv, FlatInv
<1>3. ~Mid BY <1>1 DEF Mid, Current
<1>4. CASE Early
  <2>1. Lawful(ir) /\ Lowers(todo) BY <1>4 DEF Early
  <2>2. todo' # << >> /\ Head(todo') = "ChoiceInlining" BY <1>1, <1>2, <2>1, LowersOn
  <2>3. ~Circular(Edges(n)) /\ Guided(Edges(n), Pseudo(n))
    BY <1>1, <1>2, <2>1, ChainedFlat DEF Lawful
  <2>4. Junctions(n) = {} BY <1>2, ChainedEdges
  <2>5. ~Trapped(ir)
    <3> SUFFICES ASSUME Trapped(ir) PROVE FALSE OBVIOUS
    <3>1. PICK T \in SUBSET Junctions(ir) : Circle(Edges(ir), T) BY DEF Trapped, Caught
    <3> QED BY <1>1, <3>1, RingCircle, CycleRing
  <2>6. ~Trapped(source) BY <1>4, <2>5 DEF Early
  <2> HIDE DEF n
  <2>7. Mid' BY <1>1, <2>2, <2>3, <2>4, <2>6 DEF Mid, Current
  <2> QED BY <1>1, <1>2, <2>7 DEF FlatInv
<1>5. CASE Late
  <2>1. Plain(n) BY <1>2, <1>5, ChainedPlain DEF Late
  <2> HIDE DEF n
  <2>2. Late' BY <1>1, <1>5, <2>1 DEF Late
  <2> QED BY <1>1, <1>2, <2>2 DEF FlatInv
<1> QED BY <1>1, <1>3, <1>4, <1>5 DEF FlatInv

\* A choice that is inlined leads to no branch back to itself.
LEMMA NoSelfLoop ==
  ASSUME FitInv, FlatInv, Current("ChoiceInlining"), busy, NEW c \in left
  PROVE  /\ ~Early
         /\ c \in Pseudo(ir) /\ c \in Names
         /\ In(ir, c) \cap Out(ir, c) = {}
         /\ Mid => Passed(Edges(ir), c)
<1>1. c \in Pseudo(ir) /\ c \in Names BY DEF FlatInv, Pseudo, OfKind
<1>2. ~Early
  <2> SUFFICES ASSUME Early PROVE FALSE OBVIOUS
  <2>1. Lowers(todo) /\ todo \in Seq(Passes) BY DEF Early, FitInv
  <2> QED BY <2>1, LowersOn DEF Current
<1>3. Mid => Passed(Edges(ir), c)
  <2> SUFFICES ASSUME Mid, NEW e \in Edges(ir), e.src = c PROVE e.tgt # c /\ e.event = NoEvent
    BY DEF Passed
  <2>1. e.event = NoEvent BY <1>1 DEF Mid, Guided
  <2>2. ASSUME e.tgt = c PROVE FALSE
    <3>1. Circle(Edges(ir), {c}) BY <2>1, <2>2 DEF Circle
    <3> QED BY <1>1, <3>1 DEF Mid, Circular
  <2> QED BY <2>1, <2>2
<1>4. Late => \A e \in Edges(ir) : e.tgt # c
  BY <1>1 DEF Late, Plain, Pseudo, OfKind
<1>5. ASSUME NEW i \in In(ir, c) \cap Out(ir, c) PROVE FALSE
  <2>1. i \in DOMAIN ir.rows /\ ir.rows[i].src = c /\ ir.rows[i].tgt = c BY DEF In, Out
  <2>2. Edge(ir.rows[i]) \in Edges(ir) BY <2>1, EdgesAt
  <2>3. Edge(ir.rows[i]).src = c /\ Edge(ir.rows[i]).tgt = c BY <2>1 DEF Edge
  <2>4. ~Late BY <1>4, <2>2, <2>3
  <2>5. ~Mid BY <1>3, <2>2, <2>3 DEF Passed
  <2> QED BY <1>2, <2>4, <2>5 DEF FlatInv, Current
<1> QED BY <1>1, <1>2, <1>3, <1>5

\* A choice is inlined.
LEMMA StepInline ==
  ASSUME FitInv, FlatInv, NEW c \in Names, Inline(c)
  PROVE  FlatInv'
<1> DEFINE n == Inlined(ir, c)
<1>1. /\ Current("ChoiceInlining") /\ busy /\ c \in left /\ ir' = n /\ left' = left \ {c}
      /\ source' = source /\ phase' = phase /\ todo' = todo /\ busy' = busy
      /\ phase = "passes"
  BY DEF Inline, runVars, Current
<1>2. Fit(ir) /\ Lawful(source) /\ left \subseteq Pseudo(ir) BY <1>1 DEF FitInv, FlatInv
<1>3. ~Early /\ c \in Pseudo(ir) /\ (Mid => Passed(Edges(ir), c)) BY <1>1, NoSelfLoop
<1>4. Inlines(ir, c) => Pseudo(n) = Pseudo(ir) \ {c} /\ Junctions(n) = Junctions(ir) \ {c}
  BY <1>2, InlinedEdges
<1>5. ~Inlines(ir, c) => n = ir BY DEF Inlines, Inlined
<1>6. left \ {c} \subseteq Pseudo(n) BY <1>2, <1>4, <1>5
<1> HIDE DEF n
<1>7. Current("ChoiceInlining")' BY <1>1 DEF Current
<1>8. ~Current("StateMinimization")' BY <1>1 DEF Current
<1>9. CASE Late
  <2>1. Plain(n) BY <1>2, <1>9, InlinedPlain DEF Late, n
  <2>2. Late' BY <1>1, <1>9, <2>1 DEF Late
  <2> QED BY <1>1, <1>2, <1>6, <1>8, <2>2 DEF FlatInv
<1>10. CASE Mid
  <2>1. /\ ~Trapped(source) /\ Junctions(ir) = {} /\ ~Circular(Edges(ir))
        /\ Guided(Edges(ir), Pseudo(ir)) /\ Passed(Edges(ir), c)
        /\ \A e \in Edges(ir) : e.tgt \in Pseudo(ir) => e.tgt \in left
    BY <1>1, <1>3, <1>10 DEF Mid
  <2>2. CASE Inlines(ir, c)
    <3>1. Edges(n) = Bypass(Edges(ir), c) /\ \E e \in Edges(ir) : e.src = c
      BY <1>2, <2>1, <2>2, InlinedBypass DEF n
    <3>2. Guided(Edges(n), Pseudo(n)) BY <1>4, <2>1, <2>2, <3>1, BypassGuided
    <3>3. ~Circular(Edges(n))
      <4> SUFFICES ASSUME NEW S \in SUBSET Names, Circle(Bypass(Edges(ir), c), S) PROVE FALSE
        BY <3>1 DEF Circular
      <4>1. Circle(Edges(ir), S) \/ Circle(Edges(ir), S \cup {c}) BY <2>1, BypassCircle
      <4>2. S \cup {c} \in SUBSET Names OBVIOUS
      <4> QED BY <2>1, <4>1, <4>2 DEF Circular
    <3>4. ASSUME NEW e \in Edges(n), e.tgt \in Pseudo(n) PROVE e.tgt \in left \ {c}
      <4>1. \E d \in Edges(ir) : e.tgt = d.tgt BY <2>1, <3>1, BypassEdge
      <4>2. e.tgt \in Pseudo(ir) /\ e.tgt # c BY <1>4, <2>2, <3>4
      <4> QED BY <2>1, <4>1, <4>2
    <3>5. Junctions(n) = {} BY <1>4, <2>1, <2>2
    <3>6. Mid' BY <1>1, <1>7, <2>1, <3>2, <3>3, <3>4, <3>5 DEF Mid
    <3> QED BY <1>1, <1>2, <1>6, <1>8, <3>6 DEF FlatInv
  <2>3. CASE ~Inlines(ir, c)
    <3>1. In(ir, c) = {}
      <4> SUFFICES ASSUME NEW i \in In(ir, c) PROVE FALSE OBVIOUS
      <4>1. i \in DOMAIN ir.rows /\ ir.rows[i].tgt = c BY DEF In
      <4>2. Edge(ir.rows[i]) \in Edges(ir) /\ Edge(ir.rows[i]).tgt = c BY <4>1, EdgesAt DEF Edge
      <4>3. PICK e \in Edges(ir) : e.src = c BY <1>3, <2>1, <4>2 DEF Guided
      <4>4. PICK o \in DOMAIN ir.rows : e = Edge(ir.rows[o]) BY EdgesAt
      <4>5. o \in Out(ir, c) BY <4>3, <4>4 DEF Out, Edge
      <4>6. o \in In(ir, c) BY <2>3, <4>5 DEF Inlines
      <4> QED BY <1>1, <4>5, <4>6, NoSelfLoop
    <3>2. ASSUME NEW e \in Edges(ir), e.tgt \in Pseudo(ir) PROVE e.tgt \in left \ {c}
      <4>1. PICK i \in DOMAIN ir.rows : e = Edge(ir.rows[i]) BY EdgesAt
      <4>2. e.tgt # c BY <3>1, <4>1 DEF In, Edge
      <4> QED BY <2>1, <3>2, <4>2
    <3>3. Mid' BY <1>1, <1>5, <1>7, <2>1, <2>3, <3>2 DEF Mid
    <3> QED BY <1>1, <1>2, <1>6, <1>8, <3>3 DEF FlatInv
  <2> QED BY <2>2, <2>3
<1> QED BY <1>1, <1>3, <1>9, <1>10 DEF FlatInv

LEMMA StepFlat == FitInv /\ FlatInv /\ [Next]_vars => FlatInv'
<1> SUFFICES ASSUME FitInv, FlatInv, [Next]_vars PROVE FlatInv' OBVIOUS
<1>0. Fit(ir) /\ Fit(source) /\ todo \in Seq(Passes) /\ Lawful(source) BY DEF FitInv, FlatInv
<1>1. ASSUME NEW n, todo # << >>, phase = "passes", NextPass(n),
             Head(todo) \notin {"ConnectiveJunctionChaining", "ChoiceInlining"},
             Lawful(ir) => Saves(ir, n), Plain(ir) => Plain(n)
      PROVE  FlatInv'
  <2>1. /\ ir' = n /\ source' = source /\ todo' = Tail(todo) /\ busy' = FALSE
        /\ phase' = "passes"
    BY <1>1 DEF NextPass, runVars
  <2>2. Lawful(source)' /\ (Early' \/ Late') BY <1>1, <2>1, StepSaves
  <2> QED BY <2>1, <2>2 DEF FlatInv
<1>2. ASSUME NEW p \in Passes, Rewrite(p) PROVE FlatInv'
  <2>1. CASE p = "ConnectiveJunctionChaining" BY <1>2, <2>1, StepChained
  <2>2. CASE p # "ConnectiveJunctionChaining"
    <3>1. /\ todo # << >> /\ phase = "passes" /\ Head(todo) = p /\ p \in Passes \ Looping
          /\ NextPass(Rewritten(p, ir))
      BY <1>2 DEF Rewrite, Current
    <3>2. /\ Lawful(ir) => Saves(ir, Rewritten(p, ir))
          /\ Plain(ir) => Plain(Rewritten(p, ir))
      BY <1>0, <2>2, <3>1, RewrittenSaves
    <3>3. Head(todo) \notin {"ConnectiveJunctionChaining", "ChoiceInlining"}
      BY <2>2, <3>1 DEF Looping
    <3> QED BY <1>1, <3>1, <3>2, <3>3
  <2> QED BY <2>1, <2>2
<1>3. CASE Reject
  <2>1. /\ Current("ConnectiveJunctionChaining") /\ JunctionCycle(ir) /\ phase' = "failed"
        /\ source' = source
    BY <1>3 DEF Reject
  <2>2. ~Mid BY <2>1 DEF Mid, Current
  <2>3. ~Late BY <1>0, <2>1, ChainedPlain DEF Late
  <2>4. Early BY <2>1, <2>2, <2>3 DEF FlatInv, Current
  <2>5. Circular(Edges(ir))
    <3>1. PICK T \in SUBSET Junctions(ir) : Ring(ir, T) BY <2>1, CycleRing
    <3>2. Guided(Edges(ir), Pseudo(ir)) BY <2>4 DEF Early, Lawful, Proper
    <3>3. Circle(Edges(ir), T) BY <3>1, <3>2, RingCircle
    <3>4. T \in SUBSET Names BY JunctionsFinite
    <3> QED BY <3>3, <3>4 DEF Circular
  <2> QED BY <1>0, <2>1, <2>4, <2>5 DEF FlatInv, Early, Current
<1>4. CASE BeginMinimize \/ Refine
  <2>1. /\ Current("StateMinimization") /\ phase = "passes" /\ todo # << >>
        /\ Head(todo) \notin {"ConnectiveJunctionChaining", "ChoiceInlining"}
        /\ ir' = ir /\ source' = source /\ todo' = todo /\ phase' = "passes"
    BY <1>4 DEF BeginMinimize, Refine, Current, runVars
  <2>2. Lawful(source)' /\ (Early' \/ Late') BY <2>1, StepSaves DEF Saves
  <2>3. Uniform(ir, blocks')
    <3>1. CASE BeginMinimize BY <3>1, InitialUniform DEF BeginMinimize
    <3>2. CASE Refine
      <4>1. Uniform(ir, blocks) /\ blocks' = Refined(ir, blocks) BY <3>2 DEF Refine, FlatInv
      <4> QED BY <4>1, RefinedUniform
    <3> QED BY <1>4, <3>1, <3>2
  <2>4. Uniform(ir, blocks)' BY <2>1, <2>3 DEF Uniform
  <2>5. ~Current("ChoiceInlining")' BY <2>1 DEF Current
  <2> QED BY <2>1, <2>2, <2>4, <2>5 DEF FlatInv
<1>5. CASE EndMinimize
  <2>1. /\ Current("StateMinimization") /\ busy /\ Refined(ir, blocks) = blocks
        /\ NextPass(Merged(ir, blocks))
    BY <1>5 DEF EndMinimize
  <2>2. Partition(blocks, Present(ir)) /\ Present(ir) \subseteq UNION blocks BY <2>1 DEF FitInv
  <2>3. Uniform(ir, blocks) BY <2>1 DEF FlatInv
  <2>4. /\ Lawful(ir) => Saves(ir, Merged(ir, blocks))
        /\ Plain(ir) => Plain(Merged(ir, blocks))
    BY <1>0, <2>1, <2>2, <2>3, MergedSaves
  <2> QED BY <1>1, <2>1, <2>4 DEF Current
<1>6. CASE Fuse
  <2> DEFINE s == CHOOSE s \in Transient(ir) : \A t \in Transient(ir) : s <= t
  <2>1. s \in Transient(ir)
    <3>1. Transient(ir) \in SUBSET Nat /\ Transient(ir) # {}
      BY <1>6, Numbers DEF Fuse, Transient, Present
    <3>2. \E x \in Transient(ir) : \A t \in Transient(ir) : x <= t BY <3>1, LeastNat
    <3> QED BY <3>2
  <2>2. ir' = Fused(ir, s) BY <1>6 DEF Fuse
  <2> HIDE DEF s
  <2>3. /\ Current("TransitionFusion") /\ phase = "passes" /\ todo # << >>
        /\ Head(todo) \notin {"ConnectiveJunctionChaining", "ChoiceInlining"}
        /\ source' = source /\ todo' = todo /\ phase' = "passes"
    BY <1>6 DEF Fuse, Current, runVars
  <2>4. /\ Lawful(ir) => Saves(ir, Fused(ir, s))
        /\ Plain(ir) => Plain(Fused(ir, s))
    BY <1>0, <2>1, FusedSaves
  <2>5. Lawful(source)' /\ (Early' \/ Late') BY <2>2, <2>3, <2>4, StepSaves
  <2>6. ~Current("ChoiceInlining")' /\ ~Current("StateMinimization")' BY <2>3 DEF Current
  <2> QED BY <2>3, <2>5, <2>6 DEF FlatInv
<1>7. CASE EndFuse
  <2> DEFINE n == IF busy THEN Canonical(ir) ELSE ir
  <2>1. Current("TransitionFusion") /\ NextPass(n) BY <1>7 DEF EndFuse
  <2>2. Kept(ir, n) BY <1>0, CanonicalKept DEF Kept
  <2> HIDE DEF n
  <2> QED BY <1>1, <2>1, <2>2, KeptSaves DEF Current
<1>8. CASE BeginInline
  <2>1. /\ Current("ChoiceInlining") /\ busy' = TRUE /\ left' = Pseudo(ir) /\ ir' = ir
        /\ source' = source /\ todo' = todo /\ phase' = phase /\ phase = "passes"
    BY <1>8 DEF BeginInline, runVars, Current, Pseudo
  <2>2. ~Current("StateMinimization")' /\ Current("ChoiceInlining")' BY <2>1 DEF Current
  <2>3. Early => Early' BY <2>1 DEF Early
  <2>4. Mid => Mid' BY <2>1, <2>2 DEF Mid
  <2>5. Late => Late' BY <2>1 DEF Late
  <2> QED BY <1>0, <2>1, <2>2, <2>3, <2>4, <2>5 DEF FlatInv
<1>9. ASSUME NEW c \in Names, Inline(c) PROVE FlatInv' BY <1>9, StepInline
<1>10. CASE EndInline
  <2>1. /\ Current("ChoiceInlining") /\ busy /\ left = {} /\ ir' = ir /\ source' = source
        /\ busy' = FALSE /\ phase' = "passes" /\ phase = "passes"
    BY <1>10 DEF EndInline, NextPass, runVars, Current
  <2>2. ~Early
    <3> SUFFICES ASSUME Early PROVE FALSE OBVIOUS
    <3>1. Lowers(todo) BY DEF Early
    <3> QED BY <1>0, <2>1, <3>1, LowersOn DEF Current
  <2>3. Mid => Late
    <3> SUFFICES ASSUME Mid, NEW e \in Edges(ir) PROVE ir.kind[e.tgt] = "atomic"
      BY DEF Mid, Late, Plain
    <3>1. e.tgt \notin Pseudo(ir) BY <2>1 DEF Mid
    <3>2. e.tgt \in Present(ir) /\ e.tgt \in Names BY <1>0, FitEdge
    <3>3. ir.kind[e.tgt] \in Kinds BY <1>0, <3>2 DEF Fit, Machines
    <3> QED BY <3>1, <3>2, <3>3 DEF Pseudo, OfKind, Present, Kinds
  <2>4. Late' BY <2>1, <2>2, <2>3 DEF FlatInv, Late
  <2> QED BY <1>0, <2>1, <2>4 DEF FlatInv
<1>11. CASE Emit
  <2>1. /\ phase = "passes" /\ todo = << >> /\ phase' = "emitted" /\ ir' = Emitted(ir)
        /\ source' = source
    BY <1>11 DEF Emit
  <2>2. ~Early /\ ~Mid BY <1>0, <2>1, LowersOn DEF Early, Mid, Current
  <2>3. Plain(Emitted(ir))
    <3>1. Kept(ir, Emitted(ir)) BY <1>0, EmittedKept
    <3>2. Plain(ir) BY <2>1, <2>2 DEF FlatInv, Late
    <3> QED BY <3>1, <3>2, KeptSaves
  <2>4. Late' BY <2>1, <2>2, <2>3 DEF FlatInv, Late
  <2> QED BY <1>0, <2>1, <2>4 DEF FlatInv, Current
<1>12. CASE Refused \/ UNCHANGED vars
  <2>1. UNCHANGED vars BY <1>12 DEF Refused
  <2>2. /\ source' = source /\ ir' = ir /\ todo' = todo /\ busy' = busy /\ blocks' = blocks
        /\ left' = left /\ phase' = phase
    BY <2>1 DEF vars, passVars, runVars
  <2> QED BY <2>2 DEF FlatInv, Early, Mid, Late, Current, Lawful, Plain, Trapped
<1>13. ASSUME NEW e \in Events, NEW v \in SUBSET Atoms, Handle(e, v) PROVE FlatInv'
  <2>1. /\ phase = "emitted" /\ phase' = phase /\ ir' = ir /\ source' = source
    BY <1>13 DEF Handle, passVars
  <2> QED BY <1>0, <2>1 DEF FlatInv, Late, Current
<1> QED
  BY <1>2, <1>3, <1>4, <1>5, <1>6, <1>7, <1>8, <1>9, <1>10, <1>11, <1>12, <1>13 DEF Next, Compile

\* The choices that are inlined have no branch back.
LEMMA NoneBack == FitInv /\ FlatInv => NoBranchBack
<1> SUFFICES ASSUME FitInv, FlatInv, NEW c \in Names, Inline(c)
             PROVE  In(ir, c) \cap Out(ir, c) = {}
  BY DEF NoBranchBack
<1>1. Current("ChoiceInlining") /\ busy /\ c \in left BY DEF Inline
<1> QED BY <1>1, NoSelfLoop

\* Whatever machine is handed over whose choices make no circle, and whatever
\* pipeline lowers its pseudostates: what comes out is well formed and rests in
\* states only, and it is refused exactly for a circle of junctions
\* (connective_junction_chaining_pass.cpp, EJUNC001; choice_inlining_pass.cpp).
THEOREM FlatCorrect ==
  ASSUME \A m \in Sources : Lawful(m), \A p \in Pipelines : Lowers(p)
  PROVE  Spec => [](TypeOK /\ EmittedFlat)
<1>1. Init => FitInv /\ FlatInv BY InitFit, InitFlat
<1>2. FitInv /\ FlatInv /\ [Next]_vars => (FitInv /\ FlatInv)'
  <2>1. FitInv /\ FlatInv => [NoBranchBack]_vars BY NoneBack
  <2> QED BY <2>1, StepFit, StepFlat
<1>3. FitInv /\ FlatInv => TypeOK /\ EmittedFlat BY FitTyped, FlatEmitted
<1> QED BY <1>1, <1>2, <1>3, PTL DEF Spec
==============================================================================
