--------------------------- MODULE DataPathProofs ---------------------------
(***************************************************************************)
(* For any machine in which rows alone assign and out ports may be 0: when *)
(* the analysis was not cut off, the registers and ports of the machine    *)
(* that is emitted are always in the intervals computed for the state it   *)
(* is in; and eliminated actions and pruned rows are not missed, if no two *)
(* rows join the same two states.                                          *)
(***************************************************************************)
EXTENDS DataPath, FiniteSetTheorems, WellFoundedInduction, TLAPS

Envs == [Vars -> Intervals]
Vals == [Vars -> Int]

\* An interval is in another; every value is in its interval; every interval
\* is in the other's.
Within(i, j)     == Below(j.lo, i.lo) /\ Above(j.hi, i.hi)
Inside(en, val)  == \A v \in Vars : Contains(en[v], val[v])
Smaller(en, en2) == \A v \in Vars : Within(en[v], en2[v])

-----------------------------------------------------------------------------
(* Intervals                                                               *)

LEMMA BoundTypes ==
  ASSUME Assumptions, NEW i \in Intervals
  PROVE  /\ i.lo = Inf \/ i.lo \in Int
         /\ i.hi = Inf \/ i.hi \in Int
         /\ Inf \notin Int
BY DEF Intervals, Bounds, Assumptions

LEMMA WithinRefl ==
  ASSUME Assumptions, NEW i \in Intervals
  PROVE  Within(i, i)
BY BoundTypes DEF Within, Below, Above

LEMMA WithinTrans ==
  ASSUME Assumptions, NEW i \in Intervals, NEW j \in Intervals, NEW k \in Intervals,
         Within(i, j), Within(j, k)
  PROVE  Within(i, k)
<1>1. Below(k.lo, i.lo) BY BoundTypes DEF Within, Below
<1>2. Above(k.hi, i.hi) BY BoundTypes DEF Within, Above
<1> QED BY <1>1, <1>2 DEF Within

LEMMA WithinContains ==
  ASSUME Assumptions, NEW i \in Intervals, NEW j \in Intervals, NEW n \in Int,
         Within(i, j), Contains(i, n)
  PROVE  Contains(j, n)
BY BoundTypes DEF Within, Below, Above, Contains

LEMMA JoinUpper ==
  ASSUME Assumptions, NEW i \in Intervals, NEW j \in Intervals
  PROVE  /\ Join(i, j) \in Intervals
         /\ Within(i, Join(i, j)) /\ Within(j, Join(i, j))
<1>1. Join(i, j) \in Intervals
  BY DEF Join, Intervals
<1>2. Below(Join(i, j).lo, i.lo) /\ Below(Join(i, j).lo, j.lo)
  BY BoundTypes DEF Join, Below
<1>3. Above(Join(i, j).hi, i.hi) /\ Above(Join(i, j).hi, j.hi)
  BY BoundTypes DEF Join, Above
<1> QED BY <1>1, <1>2, <1>3 DEF Within

LEMMA WidenUpper ==
  ASSUME Assumptions, NEW i \in Intervals, NEW j \in Intervals
  PROVE  /\ Widen(i, j) \in Intervals
         /\ Within(i, Widen(i, j)) /\ Within(j, Widen(i, j))
<1>1. Widen(i, j) \in Intervals
  BY DEF Widen, Intervals, Bounds
<1>2. Below(Widen(i, j).lo, i.lo) /\ Below(Widen(i, j).lo, j.lo)
  BY BoundTypes DEF Widen, Below
<1>3. Above(Widen(i, j).hi, i.hi) /\ Above(Widen(i, j).hi, j.hi)
  BY BoundTypes DEF Widen, Above
<1> QED BY <1>1, <1>2, <1>3 DEF Within

-----------------------------------------------------------------------------
(* Assignments                                                             *)

LEMMA PlusSound ==
  ASSUME Assumptions, NEW i \in Intervals, NEW j \in Intervals, NEW m \in Int, NEW n \in Int,
         Contains(i, m), Contains(j, n)
  PROVE  /\ [lo |-> Plus(i.lo, j.lo), hi |-> Plus(i.hi, j.hi)] \in Intervals
         /\ Contains([lo |-> Plus(i.lo, j.lo), hi |-> Plus(i.hi, j.hi)], m + n)
<1>1. Plus(i.lo, j.lo) \in Bounds /\ Plus(i.hi, j.hi) \in Bounds
  BY BoundTypes DEF Plus, Bounds
<1>2. Plus(i.lo, j.lo) # Inf => Plus(i.lo, j.lo) <= m + n
  BY BoundTypes DEF Plus, Contains
<1>3. Plus(i.hi, j.hi) # Inf => m + n <= Plus(i.hi, j.hi)
  BY BoundTypes DEF Plus, Contains
<1> QED BY <1>1, <1>2, <1>3 DEF Contains, Intervals

LEMMA MinusSound ==
  ASSUME Assumptions, NEW i \in Intervals, NEW j \in Intervals, NEW m \in Int, NEW n \in Int,
         Contains(i, m), Contains(j, n)
  PROVE  /\ [lo |-> Minus(i.lo, j.hi), hi |-> Minus(i.hi, j.lo)] \in Intervals
         /\ Contains([lo |-> Minus(i.lo, j.hi), hi |-> Minus(i.hi, j.lo)], m - n)
<1>1. Minus(i.lo, j.hi) \in Bounds /\ Minus(i.hi, j.lo) \in Bounds
  BY BoundTypes DEF Minus, Bounds
<1>2. Minus(i.lo, j.hi) # Inf => Minus(i.lo, j.hi) <= m - n
  BY BoundTypes DEF Minus, Contains
<1>3. Minus(i.hi, j.lo) # Inf => m - n <= Minus(i.hi, j.lo)
  BY BoundTypes DEF Minus, Contains
<1> QED BY <1>1, <1>2, <1>3 DEF Contains, Intervals

LEMMA TimesMonotone ==
  ASSUME NEW a \in Int, NEW b \in Int, NEW k \in Int, a <= b
  PROVE  /\ k > 0 => a * k <= b * k
         /\ k < 0 => b * k <= a * k
OBVIOUS

LEMMA TimesSound ==
  ASSUME Assumptions, NEW i \in Intervals, NEW m \in Int, NEW k \in Int \ {0}, Contains(i, m)
  PROVE  LET r == IF k > 0 THEN [lo |-> Times(i.lo, k), hi |-> Times(i.hi, k)]
                  ELSE [lo |-> Times(i.hi, k), hi |-> Times(i.lo, k)]
         IN r \in Intervals /\ Contains(r, m * k)
<1>1. Times(i.lo, k) \in Bounds /\ Times(i.hi, k) \in Bounds
  BY BoundTypes DEF Times, Bounds
<1>2. i.lo # Inf => i.lo \in Int /\ i.lo <= m /\ Times(i.lo, k) = i.lo * k
  BY BoundTypes DEF Times, Contains
<1>3. i.hi # Inf => i.hi \in Int /\ m <= i.hi /\ Times(i.hi, k) = i.hi * k
  BY BoundTypes DEF Times, Contains
<1>4. (i.lo = Inf => Times(i.lo, k) = Inf) /\ (i.hi = Inf => Times(i.hi, k) = Inf)
  BY DEF Times
<1>5. CASE k > 0
  <2>1. Times(i.lo, k) # Inf => Times(i.lo, k) <= m * k
    BY <1>2, <1>4, <1>5, TimesMonotone
  <2>2. Times(i.hi, k) # Inf => m * k <= Times(i.hi, k)
    BY <1>3, <1>4, <1>5, TimesMonotone
  <2> QED BY <1>1, <1>5, <2>1, <2>2 DEF Contains, Intervals
<1>6. CASE ~(k > 0)
  <2>0. k < 0 BY <1>6
  <2>1. Times(i.hi, k) # Inf => Times(i.hi, k) <= m * k
    BY <1>3, <1>4, <2>0, TimesMonotone
  <2>2. Times(i.lo, k) # Inf => m * k <= Times(i.lo, k)
    BY <1>2, <1>4, <2>0, TimesMonotone
  <2> QED BY <1>1, <1>6, <2>1, <2>2 DEF Contains, Intervals
<1> QED BY <1>5, <1>6

LEMMA PointSound ==
  ASSUME Assumptions, NEW k \in Int
  PROVE  Point(k) \in Intervals /\ Contains(Point(k), k)
BY DEF Point, Intervals, Bounds, Contains

LEMMA TopSound ==
  ASSUME Assumptions, NEW k \in Int
  PROVE  Top \in Intervals /\ Contains(Top, k)
BY DEF Top, Intervals, Bounds, Contains

\* What an expression yields is in the interval computed for it.
LEMMA RangeSound ==
  ASSUME Assumptions, NEW e \in Expressions, NEW x \in Vars,
         NEW en \in Envs, NEW val \in Vals, Inside(en, val)
  PROVE  /\ RangeOf(e, x, en) \in Intervals /\ ValueOf(e, val) \in Int
         /\ Contains(RangeOf(e, x, en), ValueOf(e, val))
<1> DEFINE Goal == /\ RangeOf(e, x, en) \in Intervals /\ ValueOf(e, val) \in Int
                   /\ Contains(RangeOf(e, x, en), ValueOf(e, val))
<1>0. \A v \in Vars : en[v] \in Intervals /\ val[v] \in Int /\ Contains(en[v], val[v])
  BY DEF Envs, Vals, Inside
<1>1. CASE e \in [op : {"number"}, k : Int]
  BY <1>1, PointSound DEF RangeOf, ValueOf
<1>2. CASE e \in [op : {"copy"}, v : Vars]
  BY <1>0, <1>2 DEF RangeOf, ValueOf
<1>3. CASE e \in [op : {"plus", "minus", "times"}, v : Vars, k : Int \ {0}]
  <2>0. e.v \in Vars /\ e.k \in Int \ {0} /\ e.op \in {"plus", "minus", "times"}
    BY <1>3
  <2>1. CASE e.op = "plus"
    <3>1. ValueOf(e, val) = val[e.v] + e.k /\ val[e.v] + e.k \in Int
      BY <1>0, <2>0, <2>1 DEF ValueOf
    <3>2. CASE e.v # x
      <4>1. RangeOf(e, x, en) = Top BY <2>1, <3>2 DEF RangeOf
      <4> QED BY <3>1, <4>1, TopSound
    <3>3. CASE e.v = x
      <4>1. RangeOf(e, x, en) = [lo |-> Plus(en[x].lo, Point(e.k).lo),
                                 hi |-> Plus(en[x].hi, Point(e.k).hi)]
        BY <2>1, <3>3 DEF RangeOf, Point
      <4> QED BY <1>0, <2>0, <3>1, <3>3, <4>1, PointSound, PlusSound
    <3> QED BY <3>2, <3>3
  <2>2. CASE e.op = "minus"
    <3>1. ValueOf(e, val) = val[e.v] - e.k /\ val[e.v] - e.k \in Int
      BY <1>0, <2>0, <2>2 DEF ValueOf
    <3>2. CASE e.v # x
      <4>1. RangeOf(e, x, en) = Top BY <2>2, <3>2 DEF RangeOf
      <4> QED BY <3>1, <4>1, TopSound
    <3>3. CASE e.v = x
      <4>1. RangeOf(e, x, en) = [lo |-> Minus(en[x].lo, Point(e.k).hi),
                                 hi |-> Minus(en[x].hi, Point(e.k).lo)]
        BY <2>2, <3>3 DEF RangeOf, Point
      <4> QED BY <1>0, <2>0, <3>1, <3>3, <4>1, PointSound, MinusSound
    <3> QED BY <3>2, <3>3
  <2>3. CASE e.op = "times"
    <3>1. ValueOf(e, val) = val[e.v] * e.k /\ val[e.v] * e.k \in Int
      BY <1>0, <2>0, <2>3 DEF ValueOf
    <3>2. RangeOf(e, x, en) =
            IF e.k > 0 THEN [lo |-> Times(en[e.v].lo, e.k), hi |-> Times(en[e.v].hi, e.k)]
                       ELSE [lo |-> Times(en[e.v].hi, e.k), hi |-> Times(en[e.v].lo, e.k)]
      BY <2>3 DEF RangeOf
    <3> QED BY <1>0, <2>0, <3>1, <3>2, TimesSound
  <2> QED BY <2>0, <2>1, <2>2, <2>3
<1>4. CASE e \in [op : {"sum", "difference"}, v : Vars, w : Vars]
  <2>0. e.v \in Vars /\ e.w \in Vars /\ e.op \in {"sum", "difference"}
    BY <1>4
  <2>1. CASE e.op = "sum"
    <3>1. ValueOf(e, val) = val[e.v] + val[e.w] /\ val[e.v] + val[e.w] \in Int
      BY <1>0, <2>0, <2>1 DEF ValueOf
    <3>2. RangeOf(e, x, en) = [lo |-> Plus(en[e.v].lo, en[e.w].lo),
                               hi |-> Plus(en[e.v].hi, en[e.w].hi)]
      BY <2>1 DEF RangeOf
    <3> QED BY <1>0, <2>0, <3>1, <3>2, PlusSound
  <2>2. CASE e.op = "difference"
    <3>1. ValueOf(e, val) = val[e.v] - val[e.w] /\ val[e.v] - val[e.w] \in Int
      BY <1>0, <2>0, <2>2 DEF ValueOf
    <3>2. RangeOf(e, x, en) = [lo |-> Minus(en[e.v].lo, en[e.w].hi),
                               hi |-> Minus(en[e.v].hi, en[e.w].lo)]
      BY <2>2 DEF RangeOf
    <3> QED BY <1>0, <2>0, <3>1, <3>2, MinusSound
  <2> QED BY <2>0, <2>1, <2>2
<1> QED BY <1>1, <1>2, <1>3, <1>4 DEF Expressions

\* One assignment keeps every value in its interval.
LEMMA AssignSound ==
  ASSUME Assumptions, NEW a \in Assignments \cup {Skip},
         NEW en \in Envs, NEW val \in Vals, Inside(en, val)
  PROVE  /\ Assign(en, a) \in Envs /\ Store(val, a) \in Vals
         /\ Inside(Assign(en, a), Store(val, a))
<1>1. CASE a = Skip
  BY <1>1 DEF Assign, Store
<1>2. CASE a # Skip
  <2>1. a.var \in Vars /\ a.expr \in Expressions
    BY <1>2 DEF Assignments
  <2>2. /\ RangeOf(a.expr, a.var, en) \in Intervals /\ ValueOf(a.expr, val) \in Int
        /\ Contains(RangeOf(a.expr, a.var, en), ValueOf(a.expr, val))
    BY <2>1, RangeSound
  <2>3. /\ Assign(en, a) = [en EXCEPT ![a.var] = RangeOf(a.expr, a.var, en)]
        /\ Store(val, a) = [val EXCEPT ![a.var] = ValueOf(a.expr, val)]
    BY <1>2 DEF Assign, Store
  <2> QED BY <2>1, <2>2, <2>3 DEF Envs, Vals, Inside
<1> QED BY <1>1, <1>2

\* So does an action, up to any of its slots.
LEMMA ActionSound ==
  ASSUME Assumptions, NEW as \in Actions, NEW en \in Envs, NEW val \in Vals, Inside(en, val),
         NEW j \in Slots
  PROVE  /\ AssignTo(en, as, j) \in Envs /\ StoreTo(val, as, j) \in Vals
         /\ Inside(AssignTo(en, as, j), StoreTo(val, as, j))
<1> DEFINE e1 == Assign(en, as[1]) e2 == Assign(e1, as[2])
           v1 == Store(val, as[1]) v2 == Store(v1, as[2])
<1>0. \A k \in Slots : as[k] \in Assignments \cup {Skip} BY DEF Actions
<1>1. 1 \in Slots /\ 2 \in Slots /\ 3 \in Slots BY DEF Slots
<1>2. e1 \in Envs /\ v1 \in Vals /\ Inside(e1, v1) BY <1>0, <1>1, AssignSound
<1>3. e2 \in Envs /\ v2 \in Vals /\ Inside(e2, v2) BY <1>0, <1>1, <1>2, AssignSound
<1>4. /\ AssignTo(en, as, 1) = e1 /\ StoreTo(val, as, 1) = v1
      /\ AssignTo(en, as, 2) = e2 /\ StoreTo(val, as, 2) = v2
      /\ AssignTo(en, as, 3) = Assign(e2, as[3]) /\ StoreTo(val, as, 3) = Store(v2, as[3])
  BY DEF AssignTo, StoreTo
<1> HIDE DEF e1, e2, v1, v2
<1>5. /\ Assign(e2, as[3]) \in Envs /\ Store(v2, as[3]) \in Vals
      /\ Inside(Assign(e2, as[3]), Store(v2, as[3]))
  BY <1>0, <1>1, <1>3, AssignSound
<1>6. CASE j = 1 BY <1>2, <1>4, <1>6
<1>7. CASE j = 2 BY <1>3, <1>4, <1>7
<1>8. CASE j = 3 BY <1>4, <1>5, <1>8
<1>9. j = 1 \/ j = 2 \/ j = 3 BY DEF Slots
<1> QED BY <1>6, <1>7, <1>8, <1>9

-----------------------------------------------------------------------------
(* The analysis alone: types, and the variables that are not assigned.     *)

LEMMA RangeType ==
  ASSUME Assumptions, NEW e \in Expressions, NEW x \in Vars, NEW en \in Envs
  PROVE  RangeOf(e, x, en) \in Intervals
<1>0. \A v \in Vars : en[v].lo \in Bounds /\ en[v].hi \in Bounds
  BY DEF Envs, Intervals
<1>1. CASE e \in [op : {"number"}, k : Int]
  BY <1>1, PointSound DEF RangeOf
<1>2. CASE e \in [op : {"copy"}, v : Vars]
  BY <1>2 DEF RangeOf, Envs
<1>3. CASE e \in [op : {"plus", "minus", "times"}, v : Vars, k : Int \ {0}]
  <2>0. e.v \in Vars /\ e.k \in Int /\ e.op \in {"plus", "minus", "times"}
    BY <1>3
  <2>1. CASE e.op = "plus"
    BY <1>0, <2>0, <2>1, TopSound DEF RangeOf, Plus, Intervals, Bounds, Top
  <2>2. CASE e.op = "minus"
    BY <1>0, <2>0, <2>2, TopSound DEF RangeOf, Minus, Intervals, Bounds, Top
  <2>3. CASE e.op = "times"
    BY <1>0, <2>0, <2>3 DEF RangeOf, Times, Intervals, Bounds
  <2> QED BY <2>0, <2>1, <2>2, <2>3
<1>4. CASE e \in [op : {"sum", "difference"}, v : Vars, w : Vars]
  <2>0. e.v \in Vars /\ e.w \in Vars /\ e.op \in {"sum", "difference"}
    BY <1>4
  <2>1. CASE e.op = "sum"
    BY <1>0, <2>0, <2>1 DEF RangeOf, Plus, Intervals, Bounds
  <2>2. CASE e.op = "difference"
    BY <1>0, <2>0, <2>2 DEF RangeOf, Minus, Intervals, Bounds
  <2> QED BY <2>0, <2>1, <2>2
<1> QED BY <1>1, <1>2, <1>3, <1>4 DEF Expressions

LEMMA AssignType ==
  ASSUME Assumptions, NEW a \in Assignments \cup {Skip}, NEW en \in Envs
  PROVE  /\ Assign(en, a) \in Envs
         /\ \A v \in Vars : (a # Skip => a.var # v) => Assign(en, a)[v] = en[v]
<1>1. CASE a = Skip
  BY <1>1 DEF Assign
<1>2. CASE a # Skip
  <2>1. a.var \in Vars /\ a.expr \in Expressions
    BY <1>2 DEF Assignments
  <2>2. RangeOf(a.expr, a.var, en) \in Intervals
    BY <2>1, RangeType
  <2>3. Assign(en, a) = [en EXCEPT ![a.var] = RangeOf(a.expr, a.var, en)]
    BY <1>2 DEF Assign
  <2> QED BY <1>2, <2>1, <2>2, <2>3 DEF Envs
<1> QED BY <1>1, <1>2

LEMMA ActionType ==
  ASSUME Assumptions, NEW as \in Actions, NEW en \in Envs
  PROVE  /\ AssignTo(en, as, 3) \in Envs
         /\ \A v \in Vars : (\A j \in Slots : as[j] # Skip => as[j].var # v)
                              => AssignTo(en, as, 3)[v] = en[v]
<1> DEFINE e1 == Assign(en, as[1]) e2 == Assign(e1, as[2]) e3 == Assign(e2, as[3])
<1>0. \A j \in Slots : as[j] \in Assignments \cup {Skip} BY DEF Actions
<1>1. 1 \in Slots /\ 2 \in Slots /\ 3 \in Slots BY DEF Slots
<1>2. AssignTo(en, as, 3) = e3
  BY DEF AssignTo
<1>3. /\ e1 \in Envs
      /\ \A v \in Vars : (as[1] # Skip => as[1].var # v) => e1[v] = en[v]
  BY <1>0, <1>1, AssignType
<1> HIDE DEF e1
<1>4. /\ e2 \in Envs
      /\ \A v \in Vars : (as[2] # Skip => as[2].var # v) => e2[v] = e1[v]
  BY <1>0, <1>1, <1>3, AssignType
<1> HIDE DEF e2
<1>5. /\ e3 \in Envs
      /\ \A v \in Vars : (as[3] # Skip => as[3].var # v) => e3[v] = e2[v]
  BY <1>0, <1>1, <1>4, AssignType
<1> HIDE DEF e3
<1> QED BY <1>1, <1>2, <1>3, <1>4, <1>5

LEMMA SmallerRefl ==
  ASSUME Assumptions, NEW en \in Envs
  PROVE  Smaller(en, en)
BY WithinRefl DEF Smaller, Envs

LEMMA SmallerTrans ==
  ASSUME Assumptions, NEW e1 \in Envs, NEW e2 \in Envs, NEW e3 \in Envs,
         Smaller(e1, e2), Smaller(e2, e3)
  PROVE  Smaller(e1, e3)
BY WithinTrans DEF Smaller, Envs

LEMMA SmallerInside ==
  ASSUME Assumptions, NEW e1 \in Envs, NEW e2 \in Envs, NEW val \in Vals,
         Inside(e1, val), Smaller(e1, e2)
  PROVE  Inside(e2, val)
BY WithinContains DEF Smaller, Inside, Envs, Vals

LEMMA InitialEnvType ==
  ASSUME Assumptions, NEW m \in Sources
  PROVE  InitialEnv(m) \in Envs
<1>1. m \in Machines BY DEF Assumptions
<1>2. \A v \in Vars : m.initial[v] \in Int \cup {None} /\ m.contract[v] \in Intervals
  BY <1>1 DEF Machines
<1>3. \A k \in Int : Point(k) \in Intervals BY PointSound
<1>4. Top \in Intervals BY TopSound
<1> QED BY <1>2, <1>3, <1>4 DEF InitialEnv, Envs

\* What is in a list, and after an element is added or taken.
Listed(w) == {w[n] : n \in DOMAIN w}

LEMMA Elements ==
  ASSUME NEW S, NEW w \in Seq(S), NEW t \in S
  PROVE  /\ Listed(Append(w, t)) = Listed(w) \cup {t}
         /\ w # << >> => /\ Head(w) \in S /\ Tail(w) \in Seq(S)
                         /\ Listed(w) = Listed(Tail(w)) \cup {Head(w)}
<1>1. Listed(Append(w, t)) = Listed(w) \cup {t}
  <2>1. DOMAIN Append(w, t) = 1 .. Len(w) + 1 /\ DOMAIN w = 1 .. Len(w) /\ Len(w) \in Nat
    OBVIOUS
  <2>2. \A n \in 1 .. Len(w) : Append(w, t)[n] = w[n]
    OBVIOUS
  <2>3. Append(w, t)[Len(w) + 1] = t
    OBVIOUS
  <2> QED BY <2>1, <2>2, <2>3 DEF Listed
<1>2. ASSUME w # << >>
      PROVE  /\ Head(w) \in S /\ Tail(w) \in Seq(S)
             /\ Listed(w) = Listed(Tail(w)) \cup {Head(w)}
  <2>1. DOMAIN w = 1 .. Len(w) /\ Len(w) \in Nat \ {0} /\ Head(w) = w[1]
    BY <1>2
  <2>2. DOMAIN Tail(w) = 1 .. Len(w) - 1 /\ Tail(w) \in Seq(S)
    BY <1>2
  <2>3. \A n \in 1 .. Len(w) - 1 : Tail(w)[n] = w[n + 1]
    BY <1>2
  <2>4. Head(w) \in S
    BY <1>2
  <2>5. Listed(w) \subseteq Listed(Tail(w)) \cup {Head(w)}
    <3> SUFFICES ASSUME NEW n \in 1 .. Len(w), n # 1
                 PROVE  w[n] \in Listed(Tail(w))
      BY <2>1 DEF Listed
    <3>1. n - 1 \in 1 .. Len(w) - 1 /\ (n - 1) + 1 = n BY <2>1
    <3> QED BY <2>2, <2>3, <3>1 DEF Listed
  <2>6. Listed(Tail(w)) \cup {Head(w)} \subseteq Listed(w)
    BY <2>1, <2>2, <2>3 DEF Listed
  <2> QED BY <2>2, <2>4, <2>5, <2>6
<1> QED BY <1>1, <1>2

-----------------------------------------------------------------------------
(* Types                                                                   *)

\* The passes have left every assignment as it was, or taken it away.
ActsOfSource ==
  \A i \in DOMAIN source.rows, j \in Slots :
    act[i][j] = Skip \/ act[i][j] = source.rows[i].act[j]

TypeInv == TypeOK /\ ActsOfSource

LEMMA SourceFacts ==
  ASSUME Assumptions, TypeInv
  PROVE  /\ source \in Sources /\ source.rows \in Seq(Rows)
         /\ \A i \in DOMAIN source.rows :
              source.rows[i].src \in States /\ source.rows[i].tgt \in States
         /\ \A i \in DOMAIN source.rows :
              source.rows[i].act \in Actions /\ act[i] \in Actions
<1>1. source \in Sources /\ source \in Machines
  BY DEF TypeInv, TypeOK, Assumptions
<1>2. source.rows \in Seq(Rows)
  BY <1>1 DEF Machines
<1>3. \A i \in DOMAIN source.rows : source.rows[i] \in Rows
  BY <1>2
<1>4. \A i \in DOMAIN source.rows :
        /\ source.rows[i].src \in States /\ source.rows[i].tgt \in States
        /\ source.rows[i].act \in Actions
  BY <1>3 DEF Rows, Actions
<1>5. \A i \in DOMAIN source.rows : act[i] \in Actions
  BY DEF TypeInv, TypeOK, Actions
<1> QED BY <1>1, <1>2, <1>4, <1>5

LEMMA MergedUpper ==
  ASSUME Assumptions, NEW t \in States, NEW next \in Envs, env \in [States -> Envs]
  PROVE  /\ Merged(t, next) \in Envs
         /\ t \in seen => Smaller(env[t], Merged(t, next))
         /\ Smaller(next, Merged(t, next))
<1>1. CASE t \notin seen
  BY <1>1, SmallerRefl DEF Merged
<1>2. CASE t \in seen
  <2>1. \A v \in Vars : env[t][v] \in Intervals /\ next[v] \in Intervals
    BY DEF Envs
  <2>2. Merged(t, next) = [v \in Vars |-> IF visits[t] >= 3 THEN Widen(env[t][v], next[v])
                                          ELSE Join(env[t][v], next[v])]
    BY <1>2 DEF Merged
  <2>3. \A v \in Vars : /\ Merged(t, next)[v] \in Intervals
                        /\ Within(env[t][v], Merged(t, next)[v])
                        /\ Within(next[v], Merged(t, next)[v])
    BY <2>1, <2>2, JoinUpper, WidenUpper
  <2> QED BY <2>2, <2>3 DEF Smaller, Envs
<1> QED BY <1>1, <1>2

\* A state that is not put on the list again has kept its environment.
LEMMA MergedSame ==
  ASSUME Assumptions, NEW t \in States, NEW next \in Envs, env \in [States -> Envs],
         ~Changes(t, next)
  PROVE  t \in seen /\ Merged(t, next) = env[t]
<1>1. t \in seen /\ \A v \in Vars : Merged(t, next)[v] = env[t][v]
  BY DEF Changes, Same
<1>2. Merged(t, next) \in Envs /\ env[t] \in Envs
  BY MergedUpper
<1> QED BY <1>1, <1>2 DEF Envs

\* Running an action leaves integers in all variables.
LEMMA HandleValues ==
  ASSUME Assumptions, TypeInv, NEW e, NEW ins, Handle(e, ins)
  PROVE  /\ vals' \in Vals /\ tvals' \in Vals
         /\ state' \in States /\ twin' \in States /\ kept' \in BOOLEAN
<1>1. vals' \in Vals /\ tvals' \in Vals
  BY DEF Handle, Assumptions, Vals
<1>2. state' \in States
  <2>1. CASE state' = state BY <2>1 DEF TypeInv, TypeOK
  <2>2. CASE \E i \in DOMAIN source.rows : state' = source.rows[i].tgt
    BY <2>2, SourceFacts
  <2>3. alive \subseteq DOMAIN source.rows BY DEF TypeInv, TypeOK
  <2> QED BY <2>1, <2>2, <2>3 DEF Handle, First, Enabled
<1>3. twin' \in States
  <2>1. CASE twin' = twin BY <2>1 DEF TypeInv, TypeOK
  <2>2. CASE \E i \in DOMAIN source.rows : twin' = source.rows[i].tgt
    BY <2>2, SourceFacts
  <2> QED BY <2>1, <2>2 DEF Handle, First, Enabled
<1>4. kept' \in BOOLEAN
  BY DEF Handle, KeepsContracts, Keeps
<1> QED BY <1>1, <1>2, <1>3, <1>4

LEMMA InitType == ASSUME Assumptions, Init PROVE TypeInv
<1>1. source \in Machines /\ source \in Sources
  BY DEF Init, Assumptions
<1>2. source.rows \in Seq(Rows)
  BY <1>1 DEF Machines
<1>3. \A i \in DOMAIN source.rows : source.rows[i].act \in Actions
  <2>1. \A i \in DOMAIN source.rows : source.rows[i] \in Rows BY <1>2
  <2> QED BY <2>1 DEF Rows, Actions
<1>4. act \in [DOMAIN source.rows -> Actions] /\ ActsOfSource
  BY <1>3 DEF Init, Actions, ActsOfSource
<1>5. InitialEnv(source) \in [Vars -> Intervals]
  BY <1>1, InitialEnvType DEF Envs
<1>6. env \in [States -> [Vars -> Intervals]] /\ base \in [Vars -> Intervals]
  BY <1>5 DEF Init
<1>7. worklist \in Seq(States) /\ seen \in SUBSET States
  BY DEF Init, Assumptions
<1>8. vals \in [Vars -> Int] /\ tvals \in [Vars -> Int]
  BY DEF Init, Unstarted
<1> QED BY <1>1, <1>4, <1>6, <1>7, <1>8 DEF Init, TypeInv, TypeOK, Assumptions

LEMMA NextType == ASSUME Assumptions, TypeInv, [Next]_vars PROVE TypeInv'
<1>0. TypeOK /\ ActsOfSource BY DEF TypeInv
<1>1. ASSUME UNCHANGED vars PROVE TypeInv'
  BY <1>0, <1>1 DEF TypeInv, TypeOK, ActsOfSource, vars, analysisVars, pruneVars, runVars
<1>2. CASE Eliminate
  <2>1. act' = [i \in DOMAIN act |->
                  [j \in Slots |-> IF Dead(source, act[i], j) THEN Skip ELSE act[i][j]]]
    BY <1>2 DEF Eliminate, Begin
  <2>2. act' \in [DOMAIN source.rows -> Actions]
    BY <1>0, <2>1 DEF TypeOK, Actions
  <2>3. \A i \in DOMAIN source.rows, j \in Slots : act'[i][j] = Skip \/ act'[i][j] = act[i][j]
    BY <1>0, <2>1 DEF TypeOK
  <2> QED BY <1>0, <1>2, <2>2, <2>3
    DEF Eliminate, Begin, TypeInv, TypeOK, ActsOfSource, analysisVars, pruneVars, runVars
<1>3. CASE Leave
  BY <1>0, <1>3 DEF Leave, Begin, TypeInv, TypeOK, ActsOfSource, analysisVars, pruneVars, runVars
<1>4. CASE Pop
  <2>1. Head(worklist) \in States /\ Tail(worklist) \in Seq(States)
    BY <1>0, <1>4, Elements, DataPathAssumption DEF Pop, TypeOK, Assumptions
  <2>2. base' \in [Vars -> Intervals]
    <3>1. base' = env[Head(worklist)] /\ env \in [States -> [Vars -> Intervals]]
      BY <1>0, <1>4 DEF Pop, TypeOK
    <3> QED BY <2>1, <3>1
  <2>3. visits' \in [States -> Nat]
    <3>1. visits' = [visits EXCEPT ![Head(worklist)] = @ + 1] /\ visits \in [States -> Nat]
      BY <1>0, <1>4 DEF Pop, TypeOK
    <3> QED BY <2>1, <3>1
  <2>4. /\ worklist' \in Seq(States) /\ curr' \in States /\ at' = 0 /\ iterations' = iterations + 1
        /\ UNCHANGED <<source, act, env, seen, findings, alive, phase, state, twin, kept, vals, tvals>>
    BY <1>4, <2>1 DEF Pop, pruneVars, runVars
  <2>5. TypeOK' BY <1>0, <2>2, <2>3, <2>4 DEF TypeOK
  <2> QED BY <1>0, <2>4, <2>5 DEF TypeInv, ActsOfSource
<1>5. ASSUME NEW i \in DOMAIN source.rows, Propagate(i) PROVE TypeInv'
  <2> DEFINE t == source.rows[i].tgt next == AssignTo(base, act[i], 3)
  <2>1. t \in States /\ act[i] \in Actions /\ i \in Nat
    BY SourceFacts
  <2>2. next \in Envs
    BY <1>0, <2>1, ActionType DEF TypeOK, Envs
  <2>3. env' = [env EXCEPT ![t] = Merged(t, next)] /\ seen' = seen \cup {t}
        /\ (worklist' = Append(worklist, t) \/ worklist' = worklist) /\ at' = i
    BY <1>5 DEF Propagate
  <2> HIDE DEF t, next
  <2>4. Merged(t, next) \in Envs
    BY <1>0, <2>1, <2>2, MergedUpper DEF TypeOK, Envs
  <2>5. env' \in [States -> [Vars -> Intervals]]
    <3>1. env \in [States -> Envs] BY <1>0 DEF TypeOK, Envs
    <3>2. env' \in [States -> Envs] BY <2>3, <2>4, <3>1
    <3> QED BY <3>2 DEF Envs
  <2>6. worklist' \in Seq(States)
    <3>1. worklist \in Seq(States) BY <1>0 DEF TypeOK
    <3>2. Append(worklist, t) \in Seq(States) BY <2>1, <3>1
    <3> QED BY <2>3, <3>1, <3>2
  <2>7. seen' \in SUBSET States
    BY <1>0, <2>1, <2>3 DEF TypeOK
  <2>8. at' \in Nat
    BY <2>1, <2>3
  <2> QED BY <1>0, <1>5, <2>5, <2>6, <2>7, <2>8 DEF Propagate, TypeInv, TypeOK, ActsOfSource, pruneVars, runVars
<1>6. CASE Finish
  BY <1>0, <1>6 DEF Finish, TypeInv, TypeOK, ActsOfSource, pruneVars, runVars
<1>7. CASE Report
  <2>1. findings' \subseteq (DOMAIN source.rows) \X (Vars \cup Slots)
    BY <1>7 DEF Report, Findings
  <2> QED BY <1>0, <1>7, <2>1 DEF Report, TypeInv, TypeOK, ActsOfSource, analysisVars, runVars
<1>8. ASSUME NEW f \in findings, Prune(f) PROVE TypeInv'
  BY <1>0, <1>8 DEF Prune, TypeInv, TypeOK, ActsOfSource, analysisVars, runVars
<1>9. ASSUME NEW val \in [Vars -> Values], Start(val) PROVE TypeInv'
  <2>1. vals' \in [Vars -> Int] /\ tvals' \in [Vars -> Int]
    <3>1. Values \subseteq Int BY DEF Assumptions
    <3>2. vals' \in [Vars -> Values] /\ tvals' = vals' BY <1>9 DEF Start
    <3> QED BY <3>1, <3>2
  <2> QED BY <1>0, <1>9, <2>1 DEF Start, TypeInv, TypeOK, ActsOfSource, analysisVars, pruneVars
<1>10. ASSUME NEW e \in Events, NEW ins \in [Inputs -> Values], Handle(e, ins) PROVE TypeInv'
  <2>1. /\ vals' \in Vals /\ tvals' \in Vals
        /\ state' \in States /\ twin' \in States /\ kept' \in BOOLEAN
    BY <1>10, HandleValues
  <2> QED BY <1>0, <1>10, <2>1
    DEF Handle, TypeInv, TypeOK, ActsOfSource, analysisVars, pruneVars, Vals
<1>11. CASE Broken BY <1>1, <1>11 DEF Broken
<1> QED BY <1>1, <1>2, <1>3, <1>4, <1>5, <1>6, <1>7, <1>8, <1>9, <1>10, <1>11 DEF Next

\* Every variable holds what it is declared to hold.
THEOREM TypeCorrect == Spec => []TypeOK
<1>1. Init => TypeInv BY InitType, DataPathAssumption
<1>2. TypeInv /\ [Next]_vars => TypeInv' BY NextType, DataPathAssumption
<1>3. TypeInv => TypeOK BY DEF TypeInv
<1> QED BY <1>1, <1>2, <1>3, PTL DEF Spec

-----------------------------------------------------------------------------
(* The search.  A state that is neither waiting nor in hand has handed its *)
(* environment on along every row; the one in hand has done so along the   *)
(* rows looked at.  When nothing waits and nothing is in hand, what was    *)
(* computed is closed under all rows.                                      *)

Outgoing(s) == {i \in DOMAIN source.rows : source.rows[i].src = s}

\* What the row leaves is in the environment of its target.
Covered(i, en) == /\ source.rows[i].tgt \in seen
                  /\ Smaller(AssignTo(en, act[i], 3), env[source.rows[i].tgt])

\* Fresh inputs are in the environment.
Admits(en) == \A v \in Inputs : Within(source.contract[v], en[v])

ListInv  == /\ Waiting \subseteq seen
            /\ phase = "start" => curr = None /\ seen \subseteq Waiting
RootInv  == Root \in seen /\ Smaller(InitialEnv(source), env[Root])
CurrInv  == curr # None => /\ phase = "analyze" /\ curr \in seen
                           /\ curr \in Waiting \/ env[curr] = base
                           /\ Admits(base)
                           /\ \A i \in Outgoing(curr) : i <= at => Covered(i, base)
InputInv == \A s \in seen : Admits(env[s])
CoverInv == \A s \in seen \ Waiting : s # curr => \A i \in Outgoing(s) : Covered(i, env[s])

SearchInv == ListInv /\ RootInv /\ CurrInv /\ InputInv /\ CoverInv

LEMMA AdmitsUpper ==
  ASSUME Assumptions, TypeInv, NEW e1 \in Envs, NEW e2 \in Envs, Admits(e1), Smaller(e1, e2)
  PROVE  Admits(e2)
<1>1. Inputs \subseteq Vars BY DEF Inputs
<1>2. \A v \in Vars : source.contract[v] \in Intervals
  BY SourceFacts DEF Assumptions, Machines
<1> QED BY <1>1, <1>2, WithinTrans DEF Admits, Smaller, Envs

\* No row assigns an input port.
LEMMA AdmitsAction ==
  ASSUME Assumptions, TypeInv, NEW i \in DOMAIN source.rows, NEW en \in Envs, Admits(en)
  PROVE  Admits(AssignTo(en, act[i], 3))
<1>1. \A v \in Inputs, j \in Slots : act[i][j] # Skip => act[i][j].var # v
  <2>1. \A v \in Inputs, j \in Slots :
          source.rows[i].act[j] # Skip => source.rows[i].act[j].var # v
    <3>1. source.rows[i].act \in ActionsOf(source) BY DEF ActionsOf
    <3>2. Sensible(source) BY SourceFacts DEF Assumptions
    <3> QED BY <3>1, <3>2 DEF Sensible, Inputs
  <2> QED BY <2>1 DEF TypeInv, ActsOfSource
<1>2. act[i] \in Actions BY SourceFacts
<1>3. \A v \in Inputs : AssignTo(en, act[i], 3)[v] = en[v]
  BY <1>1, <1>2, ActionType DEF Inputs
<1> QED BY <1>3 DEF Admits

LEMMA InitSearch == ASSUME Assumptions, Init PROVE SearchInv
<1>1. Waiting = {Root} /\ seen = {Root} /\ curr = None
  BY DEF Init, Waiting
<1>2. InitialEnv(source) \in Envs /\ env[Root] = InitialEnv(source)
  BY InitialEnvType DEF Init, Assumptions
<1>3. RootInv
  BY <1>1, <1>2, SmallerRefl DEF RootInv
<1>4. InputInv
  <2>1. source \in Machines /\ Sensible(source) BY DEF Init, Assumptions
  <2>2. \A v \in Inputs : v \in Vars /\ InitialEnv(source)[v] = source.contract[v]
    BY <2>1 DEF Inputs, InitialEnv, Sensible
  <2>3. \A v \in Vars : source.contract[v] \in Intervals BY <2>1 DEF Machines
  <2> QED BY <1>1, <1>2, <2>2, <2>3, WithinRefl DEF InputInv, Admits
<1> QED BY <1>1, <1>3, <1>4 DEF SearchInv, ListInv, CurrInv, CoverInv

LEMMA BeginSearch ==
  ASSUME Assumptions, TypeInv, SearchInv, NEW new, Begin(new)
  PROVE  SearchInv'
<1>1. UNCHANGED <<source, analysisVars>> /\ phase = "start" /\ phase' = "analyze"
  BY DEF Begin
<1>2. UNCHANGED <<source, env, seen, worklist, curr>> /\ Waiting' = Waiting
  BY <1>1 DEF analysisVars, Waiting
<1>3. seen \subseteq Waiting /\ curr = None
  BY <1>1 DEF SearchInv, ListInv
<1>4. InputInv'
  BY <1>2 DEF SearchInv, InputInv, Admits, Inputs
<1>5. RootInv' BY <1>2 DEF SearchInv, RootInv
<1> QED BY <1>1, <1>2, <1>3, <1>4, <1>5 DEF SearchInv, ListInv, CurrInv, CoverInv

LEMMA PopSearch ==
  ASSUME Assumptions, TypeInv, SearchInv, Pop
  PROVE  SearchInv'
<1> DEFINE s == Head(worklist)
<1>1. /\ curr = None /\ phase = "analyze" /\ phase' = phase
      /\ UNCHANGED <<source, act, env, seen>>
      /\ curr' = s /\ base' = env[s] /\ at' = 0 /\ worklist' = Tail(worklist)
  BY DEF Pop
<1>2. s \in States /\ Waiting = Waiting' \cup {s}
  <2>1. worklist \in Seq(States) /\ worklist # << >> /\ Root \in States
    BY DEF Pop, TypeInv, TypeOK, Assumptions
  <2>2. s \in States /\ Listed(worklist) = Listed(Tail(worklist)) \cup {s}
    BY <2>1, Elements
  <2>3. Waiting = Listed(worklist) /\ Waiting' = Listed(Tail(worklist))
    BY <1>1 DEF Waiting, Listed
  <2> QED BY <2>2, <2>3
<1> HIDE DEF s
<1>3. s \in seen BY <1>2 DEF SearchInv, ListInv
<1>4. ListInv' BY <1>1, <1>2 DEF SearchInv, ListInv
<1>5. RootInv' BY <1>1 DEF SearchInv, RootInv
<1>6. InputInv' BY <1>1 DEF SearchInv, InputInv, Admits, Inputs
<1>7. CurrInv'
  <2>1. Admits(base)' BY <1>1, <1>3 DEF SearchInv, InputInv, Admits, Inputs
  <2>2. \A i \in Outgoing(curr)' : ~(i <= at')
    BY <1>1, SourceFacts DEF Outgoing
  <2> QED BY <1>1, <1>3, <2>1, <2>2 DEF CurrInv
<1>8. CoverInv'
  <2>1. \A u \in seen \ Waiting : \A i \in Outgoing(u) : Covered(i, env[u])
    <3>1. None \notin seen BY DEF TypeInv, TypeOK, Assumptions
    <3> QED BY <1>1, <3>1 DEF SearchInv, CoverInv
  <2>2. \A u \in seen' \ Waiting' : u # curr' => u \in seen \ Waiting
    BY <1>1, <1>2
  <2> QED BY <1>1, <2>1, <2>2 DEF CoverInv, Covered, Outgoing
<1> QED BY <1>4, <1>5, <1>6, <1>7, <1>8 DEF SearchInv

LEMMA FinishSearch ==
  ASSUME Assumptions, TypeInv, SearchInv, Finish
  PROVE  SearchInv'
<1>1. /\ curr # None /\ curr' = None /\ phase = "analyze"
      /\ UNCHANGED <<source, act, env, seen, worklist, phase>> /\ Waiting' = Waiting
  BY DEF Finish, Waiting
<1>2. \A i \in Outgoing(curr) : i <= at
  BY SourceFacts DEF Finish, Looked, Outgoing, TypeInv, TypeOK
<1>3. \A i \in Outgoing(curr) : Covered(i, base)
  BY <1>1, <1>2 DEF SearchInv, CurrInv
<1>4. curr \in seen \ Waiting => \A i \in Outgoing(curr) : Covered(i, env[curr])
  BY <1>1, <1>3 DEF SearchInv, CurrInv
<1>5. \A s \in seen \ Waiting : \A i \in Outgoing(s) : Covered(i, env[s])
  BY <1>4 DEF SearchInv, CoverInv
<1>6. CoverInv'
  BY <1>1, <1>5 DEF CoverInv, Covered, Outgoing
<1> QED BY <1>1, <1>6 DEF SearchInv, ListInv, RootInv, CurrInv, InputInv, Admits, Inputs

LEMMA PropagateSearch ==
  ASSUME Assumptions, TypeInv, SearchInv, NEW i \in DOMAIN source.rows, Propagate(i)
  PROVE  SearchInv'
<1> DEFINE t == source.rows[i].tgt
           next == AssignTo(base, act[i], 3)
           new == Merged(t, next)
<1>0. env \in [States -> Envs] /\ base \in Envs /\ seen \subseteq States
      /\ worklist \in Seq(States) /\ at \in Nat
  BY DEF TypeInv, TypeOK, Envs
<1>1. t \in States /\ act[i] \in Actions /\ i \in Nat
  BY SourceFacts
<1>2. next \in Envs
  BY <1>0, <1>1, ActionType
<1>3. /\ phase = "analyze" /\ phase' = phase /\ curr # None /\ curr' = curr /\ base' = base
      /\ UNCHANGED <<source, act>> /\ at' = i
      /\ source.rows[i].src = curr /\ at < i
      /\ \A n \in 1 .. i - 1 : ~Looked(n)
      /\ env' = [env EXCEPT ![t] = new] /\ seen' = seen \cup {t}
      /\ worklist' = IF Changes(t, next) /\ t \notin Waiting THEN Append(worklist, t)
                                                             ELSE worklist
  BY DEF Propagate, Looked
<1> HIDE DEF t, next
<1>4. new \in Envs /\ (t \in seen => Smaller(env[t], new)) /\ Smaller(next, new)
  BY <1>0, <1>1, <1>2, MergedUpper
<1>5. ~Changes(t, next) => t \in seen /\ new = env[t]
  BY <1>0, <1>1, <1>2, MergedSame
<1>6. Waiting' = IF Changes(t, next) THEN Waiting \cup {t} ELSE Waiting
  <2>1. Listed(Append(worklist, t)) = Listed(worklist) \cup {t}
    BY <1>0, <1>1, Elements
  <2>2. Waiting = Listed(worklist) /\ Waiting' = Listed(worklist')
    BY DEF Waiting, Listed
  <2> QED BY <1>3, <2>1, <2>2
<1> HIDE DEF new
<1>7. env' \in [States -> Envs] /\ env'[t] = new /\ \A s \in States \ {t} : env'[s] = env[s]
  BY <1>0, <1>1, <1>3, <1>4
\* Environments only grow, and grow only where the list says so.
<1>8. \A s \in seen : Smaller(env[s], env'[s])
  BY <1>0, <1>4, <1>7, SmallerRefl
<1>9. \A s \in seen' \ Waiting' : s \in seen \ Waiting /\ env'[s] = env[s]
  BY <1>0, <1>3, <1>5, <1>6, <1>7
<1>10. ASSUME NEW n \in DOMAIN source.rows, NEW en \in Envs, Covered(n, en)
       PROVE  Covered(n, en)'
  <2> DEFINE u == source.rows[n].tgt
  <2>1. u \in seen /\ u \in States /\ Smaller(AssignTo(en, act[n], 3), env[u])
    BY <1>10, SourceFacts DEF Covered
  <2>2. AssignTo(en, act[n], 3) \in Envs
    BY SourceFacts, ActionType
  <2>3. Smaller(AssignTo(en, act[n], 3), env'[u])
    BY <1>0, <1>7, <1>8, <2>1, <2>2, SmallerTrans
  <2> QED BY <1>3, <2>1, <2>3 DEF Covered
<1>11. Covered(i, base)'
  BY <1>3, <1>4, <1>7 DEF Covered, t, next
<1>12. ListInv'
  BY <1>3, <1>6 DEF SearchInv, ListInv
<1>13. RootInv'
  <2>1. Root \in seen /\ Root \in States /\ Smaller(InitialEnv(source), env[Root])
    BY DEF SearchInv, RootInv, Assumptions
  <2>2. InitialEnv(source) \in Envs BY SourceFacts, InitialEnvType
  <2>3. Smaller(InitialEnv(source), env'[Root])
    BY <1>0, <1>7, <1>8, <2>1, <2>2, SmallerTrans
  <2> QED BY <1>3, <2>1, <2>3 DEF RootInv
<1>14. InputInv'
  <2>1. Admits(next) BY <1>0, <1>3, AdmitsAction DEF SearchInv, CurrInv, next
  <2>2. Admits(new) BY <1>2, <1>4, <2>1, AdmitsUpper
  <2>3. \A s \in seen' : Admits(env'[s])
    BY <1>0, <1>3, <1>7, <2>2 DEF SearchInv, InputInv
  <2> QED BY <1>3, <2>3 DEF InputInv, Admits, Inputs
<1>15. CurrInv'
  <2>1. curr \in seen' /\ (curr \in Waiting' \/ env'[curr] = base)
    BY <1>3, <1>6, <1>9 DEF SearchInv, CurrInv
  <2>2. Admits(base)' BY <1>3 DEF SearchInv, CurrInv, Admits, Inputs
  <2>3. ASSUME NEW n \in Outgoing(curr), n <= i PROVE Covered(n, base)'
    <3>1. n \in DOMAIN source.rows /\ source.rows[n].src = curr /\ n \in Nat \ {0}
      BY SourceFacts DEF Outgoing
    <3>2. CASE n = i BY <1>11, <3>2
    <3>3. CASE n # i
      <4>1. n \in 1 .. i - 1 BY <1>1, <2>3, <3>1, <3>3
      <4>2. n <= at BY <1>0, <1>3, <3>1, <4>1 DEF Looked
      <4> DEFINE en == base
      <4>3. Covered(n, en) /\ en \in Envs /\ base' = en
        BY <1>0, <1>3, <4>2 DEF SearchInv, CurrInv
      <4> HIDE DEF en
      <4>4. /\ source'.rows[n].tgt \in seen'
            /\ Smaller(AssignTo(en, act'[n], 3), env'[source'.rows[n].tgt])
        BY <1>10, <3>1, <4>3 DEF Covered
      <4> QED BY <4>3, <4>4 DEF Covered
    <3> QED BY <3>2, <3>3
  <2> QED BY <1>3, <2>1, <2>2, <2>3 DEF CurrInv, Outgoing
<1>16. CoverInv'
  <2> SUFFICES ASSUME NEW s \in seen' \ Waiting', s # curr', NEW n \in Outgoing(s)'
               PROVE  Covered(n, env[s])'
    BY DEF CoverInv
  <2>1. s \in seen \ Waiting /\ env'[s] = env[s] /\ s # curr
    BY <1>3, <1>9
  <2>2. n \in Outgoing(s) /\ n \in DOMAIN source.rows BY <1>3 DEF Outgoing
  <2>3. Covered(n, env[s]) BY <2>1, <2>2 DEF SearchInv, CoverInv
  <2>4. env[s] \in Envs BY <1>0, <2>1
  <2> DEFINE en == env[s]
  <2>5. Covered(n, en) /\ en \in Envs /\ env'[s] = en BY <2>1, <2>3, <2>4
  <2> HIDE DEF en
  <2>6. /\ source'.rows[n].tgt \in seen'
        /\ Smaller(AssignTo(en, act'[n], 3), env'[source'.rows[n].tgt])
    BY <1>10, <2>2, <2>5 DEF Covered
  <2> QED BY <2>5, <2>6 DEF Covered
<1> QED BY <1>12, <1>13, <1>14, <1>15, <1>16 DEF SearchInv

\* The steps that leave the analysis alone.
LEMMA StaySearch ==
  ASSUME Assumptions, TypeInv, SearchInv, UNCHANGED <<source, act, analysisVars>>,
         phase' = phase \/ (curr = None /\ phase' # "start")
  PROVE  SearchInv'
<1>1. /\ UNCHANGED <<source, act, env, seen, worklist, curr, base, at>>
      /\ Waiting' = Waiting
  BY DEF analysisVars, Waiting
<1>2. ListInv' /\ RootInv' /\ InputInv'
  BY <1>1 DEF SearchInv, ListInv, RootInv, InputInv, Admits, Inputs
<1>3. CurrInv' /\ CoverInv'
  BY <1>1 DEF SearchInv, CurrInv, CoverInv, Covered, Outgoing, Admits, Inputs
<1> QED BY <1>2, <1>3 DEF SearchInv

LEMMA NextSearch ==
  ASSUME Assumptions, TypeInv, SearchInv, [Next]_vars
  PROVE  SearchInv'
<1>1. CASE UNCHANGED vars BY <1>1, StaySearch DEF vars
<1>2. CASE Eliminate BY <1>2, BeginSearch DEF Eliminate
<1>3. CASE Leave BY <1>3, BeginSearch DEF Leave
<1>4. CASE Pop BY <1>4, PopSearch
<1>5. ASSUME NEW i \in DOMAIN source.rows, Propagate(i) PROVE SearchInv'
  BY <1>5, PropagateSearch
<1>6. CASE Finish BY <1>6, FinishSearch
<1>7. CASE Report BY <1>7, StaySearch DEF Report
<1>8. ASSUME NEW f \in findings, Prune(f) PROVE SearchInv'
  BY <1>8, StaySearch DEF Prune
<1>9. ASSUME NEW val \in [Vars -> Values], Start(val) PROVE SearchInv'
  <2>1. curr = None BY <1>9 DEF SearchInv, CurrInv, Start
  <2> QED BY <1>9, <2>1, StaySearch DEF Start
<1>10. ASSUME NEW e \in Events, NEW ins \in [Inputs -> Values], Handle(e, ins)
       PROVE  SearchInv'
  BY <1>10, StaySearch DEF Handle
<1>11. CASE Broken BY <1>1, <1>11 DEF Broken
<1> QED BY <1>1, <1>2, <1>3, <1>4, <1>5, <1>6, <1>7, <1>8, <1>9, <1>10, <1>11 DEF Next

-----------------------------------------------------------------------------
(* The run.                                                                *)

InsideNow == state \in seen /\ Inside(env[state], vals)
RunInv == /\ phase # "run" => state = Root
          /\ phase = "run" /\ worklist = << >> => InsideNow

\* When rows alone assign, a row does what its action does,
LEMMA RowEffect ==
  ASSUME Assumptions, TypeInv, AsAnalyzed(source), NEW i \in DOMAIN source.rows, NEW val
  PROVE  /\ Effect(Supplied, i, val) = StoreTo(val, act[i], 3)
         /\ Effect(Written, i, val) = StoreTo(val, source.rows[i].act, 3)
         /\ KeepsContracts(i, val) <=> Keeps(source.rows[i].act, val)
<1>1. source.entry[source.rows[i].tgt] = Nothing /\ source.exit[source.rows[i].src] = Nothing
  BY SourceFacts DEF AsAnalyzed, RowsAlone
<1>2. \A v : StoreTo(v, Nothing, 3) = v
  BY DEF StoreTo, Store, Nothing, Slots
<1>3. \A v : Keeps(Nothing, v)
  BY DEF Keeps, Nothing
<1>4. Supplied[i] = act[i] /\ Written[i] = source.rows[i].act
  BY DEF Supplied, Written, AsAnalyzed
<1> HIDE DEF Nothing, Supplied, Written
<1>5. Left(i, val) = val BY <1>1, <1>2 DEF Left
<1>6. /\ Acted(Supplied, i, val) = StoreTo(val, act[i], 3)
      /\ Acted(Written, i, val) = StoreTo(val, source.rows[i].act, 3)
  BY <1>4, <1>5 DEF Acted
<1>7. /\ Effect(Supplied, i, val) = Acted(Supplied, i, val)
      /\ Effect(Written, i, val) = Acted(Written, i, val)
  BY <1>1, <1>2 DEF Effect
<1>8. KeepsContracts(i, val) <=> Keeps(source.rows[i].act, val)
  BY <1>1, <1>3, <1>5 DEF KeepsContracts
<1> QED BY <1>6, <1>7, <1>8

\* and the machine starts with what was given, inside the first intervals.
LEMMA StartsInside ==
  ASSUME Assumptions, TypeInv, AsAnalyzed(source), NEW val \in [Vars -> Values], Start(val)
  PROVE  /\ vals' = val /\ tvals' = val /\ val \in Vals
         /\ Inside(InitialEnv(source), val)
<1>1. val \in Vals BY DEF Assumptions, Vals
<1>2. source.entry[Root] = Nothing BY DEF AsAnalyzed, RowsAlone, Assumptions
<1>3. Entered(val) = val
  <2>1. \A v : StoreTo(v, Nothing, 3) = v
    BY DEF StoreTo, Store, Nothing, Slots
  <2>2. \A v \in Vars : source.kind[v] = "reg" => Dummy(val)[v] = val[v] BY DEF Dummy
  <2>3. Entered(val) = [v \in Vars |-> val[v]] BY <1>2, <2>1, <2>2 DEF Entered
  <2>4. val = [v \in Vars |-> val[v]] BY <1>1 DEF Vals
  <2> QED BY <2>3, <2>4
<1>4. ASSUME NEW v \in Vars PROVE Contains(InitialEnv(source)[v], val[v])
  <2>1. Contains(StartEnv[v], val[v]) BY DEF Start
  <2>2. CASE source.kind[v] = "out" /\ source.initial[v] = None
    <3>1. StartEnv[v] = Point(0) BY <2>2 DEF StartEnv
    <3>2. val[v] = 0
      <4>1. 0 # Inf /\ val[v] \in Int BY <1>1 DEF Assumptions, Vals
      <4> QED BY <2>1, <3>1, <4>1 DEF Contains, Point
    <3>3. InitialEnv(source)[v] = source.contract[v] BY <2>2 DEF InitialEnv
    <3> QED BY <2>2, <3>2, <3>3 DEF AsAnalyzed
  <2>3. CASE ~(source.kind[v] = "out" /\ source.initial[v] = None)
    BY <2>1, <2>3 DEF StartEnv
  <2> QED BY <2>2, <2>3
<1>5. vals' = Entered(val) /\ tvals' = Entered(val) BY DEF Start
<1> QED BY <1>1, <1>3, <1>4, <1>5 DEF Inside

LEMMA StartRun ==
  ASSUME Assumptions, TypeInv, AsAnalyzed(source), SearchInv, RunInv,
         NEW val \in [Vars -> Values], Start(val)
  PROVE  RunInv'
<1>1. /\ phase # "run" /\ phase' = "run"
      /\ UNCHANGED <<source, env, seen, state>>
  BY DEF Start, analysisVars
<1>2. vals' = val /\ val \in Vals /\ Inside(InitialEnv(source), val) BY StartsInside
<1>3. InitialEnv(source) \in Envs BY SourceFacts, InitialEnvType
<1>4. Root \in seen /\ Root \in States /\ Smaller(InitialEnv(source), env[Root])
  BY DEF SearchInv, RootInv, Assumptions
<1>5. env[Root] \in Envs BY <1>4 DEF TypeInv, TypeOK, Envs
<1>6. Inside(env[Root], val) BY <1>2, <1>3, <1>4, <1>5, SmallerInside
<1>7. state = Root BY <1>1 DEF RunInv
<1> QED BY <1>1, <1>2, <1>4, <1>6, <1>7 DEF RunInv, InsideNow

LEMMA HandleRun ==
  ASSUME Assumptions, TypeInv, AsAnalyzed(source), SearchInv, RunInv,
         NEW e \in Events, NEW ins \in [Inputs -> Values], Handle(e, ins)
  PROVE  RunInv'
<1> DEFINE now == With(vals, ins)
<1>1. /\ phase = "run" /\ phase' = "run"
      /\ UNCHANGED <<source, act, env, seen, worklist>>
      /\ \A v \in Inputs : Contains(source.contract[v], ins[v])
      /\ \/ state' = state /\ vals' = now
         \/ \E i \in Enabled(alive, state, e, now) :
              state' = source.rows[i].tgt /\ vals' = Effect(Supplied, i, now)
  BY DEF Handle, analysisVars, First
<1> SUFFICES ASSUME worklist = << >>
             PROVE  InsideNow'
  BY <1>1 DEF RunInv
<1>2. /\ state \in seen /\ state \in States /\ Inside(env[state], vals)
      /\ env \in [States -> Envs] /\ vals \in Vals
  BY <1>1 DEF RunInv, InsideNow, TypeInv, TypeOK, Envs, Vals
<1>3. now \in Vals
  BY <1>2 DEF With, Vals, Inputs, Assumptions
<1>4. Inside(env[state], now)
  <2> SUFFICES ASSUME NEW v \in Vars PROVE Contains(env[state][v], now[v])
    BY DEF Inside
  <2>1. CASE v \in Inputs
    <3>1. Contains(source.contract[v], ins[v]) /\ now[v] = ins[v] /\ now[v] \in Int
      BY <1>1, <1>3, <2>1 DEF With, Vals
    <3>2. Within(source.contract[v], env[state][v])
      BY <1>2, <2>1 DEF SearchInv, InputInv, Admits
    <3>3. source.contract[v] \in Intervals /\ env[state][v] \in Intervals
      BY <1>2, SourceFacts DEF Assumptions, Machines, Envs
    <3> QED BY <3>1, <3>2, <3>3, WithinContains
  <2>2. CASE v \notin Inputs
    BY <1>2, <2>2 DEF With, Inside
  <2> QED BY <2>1, <2>2
<1> HIDE DEF now
<1>5. CASE state' = state /\ vals' = now
  BY <1>1, <1>2, <1>4, <1>5 DEF InsideNow
<1>6. ASSUME NEW i \in Enabled(alive, state, e, now),
             state' = source.rows[i].tgt, vals' = Effect(Supplied, i, now)
      PROVE  InsideNow'
  <2>1. i \in alive /\ i \in DOMAIN source.rows /\ i \in Outgoing(state)
    BY DEF Enabled, TypeInv, TypeOK, Outgoing
  <2>2. state \notin Waiting /\ state # curr
    <3>1. Waiting = {} BY DEF Waiting
    <3>2. curr = None BY <1>1 DEF SearchInv, CurrInv
    <3>3. None \notin States BY DEF Assumptions
    <3> QED BY <1>2, <3>1, <3>2, <3>3
  <2>3. Covered(i, env[state])
    BY <1>2, <2>1, <2>2 DEF SearchInv, CoverInv
  <2>4. act[i] \in Actions /\ source.rows[i].tgt \in States
    BY <2>1, SourceFacts
  <2>5. /\ AssignTo(env[state], act[i], 3) \in Envs /\ StoreTo(now, act[i], 3) \in Vals
        /\ Inside(AssignTo(env[state], act[i], 3), StoreTo(now, act[i], 3))
    BY <1>2, <1>3, <1>4, <2>4, ActionSound DEF Slots
  <2>6. Inside(env[source.rows[i].tgt], StoreTo(now, act[i], 3))
    BY <1>2, <2>3, <2>4, <2>5, SmallerInside DEF Covered
  <2>7. vals' = StoreTo(now, act[i], 3) BY <1>6, <2>1, RowEffect
  <2> QED BY <1>1, <1>6, <2>3, <2>6, <2>7 DEF InsideNow, Covered
<1> QED BY <1>1, <1>5, <1>6

LEMMA NextRun ==
  ASSUME Assumptions, TypeInv, AsAnalyzed(source), SearchInv, RunInv, [Next]_vars
  PROVE  RunInv'
<1>1. ASSUME UNCHANGED vars PROVE RunInv'
  BY <1>1 DEF vars, analysisVars, runVars, RunInv, InsideNow
<1>2. ASSUME phase # "run", phase' # "run", state' = state PROVE RunInv'
  BY <1>2 DEF RunInv
<1>3. CASE Eliminate BY <1>2, <1>3 DEF Eliminate, Begin, runVars
<1>4. CASE Leave BY <1>2, <1>4 DEF Leave, Begin, runVars
<1>5. CASE Pop BY <1>2, <1>5 DEF Pop, runVars
<1>6. ASSUME NEW i \in DOMAIN source.rows, Propagate(i) PROVE RunInv'
  BY <1>2, <1>6 DEF Propagate, runVars
<1>7. CASE Finish BY <1>2, <1>7 DEF Finish, runVars
<1>8. CASE Report BY <1>2, <1>8 DEF Report, runVars
<1>9. ASSUME NEW f \in findings, Prune(f) PROVE RunInv'
  BY <1>2, <1>9 DEF Prune, runVars
<1>10. ASSUME NEW val \in [Vars -> Values], Start(val) PROVE RunInv'
  BY <1>10, StartRun
<1>11. ASSUME NEW e \in Events, NEW ins \in [Inputs -> Values], Handle(e, ins) PROVE RunInv'
  BY <1>11, HandleRun
<1>12. CASE Broken BY <1>1, <1>12 DEF Broken
<1> QED BY <1>1, <1>3, <1>4, <1>5, <1>6, <1>7, <1>8, <1>9, <1>10, <1>11, <1>12 DEF Next

\* A comparison that holds on the whole interval holds for what is in it.
LEMMA AlwaysSound ==
  ASSUME Assumptions, NEW c \in Comparisons, NEW i \in Intervals, NEW val \in Vals,
         Contains(i, val[c.var]), Always(i, c)
  PROVE  Satisfies(val, c)
<1>1. /\ c.k \in Int /\ val[c.var] \in Int
      /\ c.op \in {">=", ">", "<=", "<", "==", "!="}
      /\ i.lo # Inf => i.lo \in Int
      /\ i.hi # Inf => i.hi \in Int
  BY BoundTypes DEF Comparisons, Vals
<1>2. CASE c.op = ">=" BY <1>1, <1>2 DEF Always, Contains, Satisfies
<1>3. CASE c.op = ">" BY <1>1, <1>3 DEF Always, Contains, Satisfies
<1>4. CASE c.op = "<=" BY <1>1, <1>4 DEF Always, Contains, Satisfies
<1>5. CASE c.op = "<" BY <1>1, <1>5 DEF Always, Contains, Satisfies
<1>6. CASE c.op = "=="
  <2>1. i.lo = c.k /\ i.hi = c.k BY <1>6 DEF Always, Point
  <2>2. c.k # Inf BY <1>1 DEF Assumptions
  <2> QED BY <1>1, <1>6, <2>1, <2>2 DEF Contains, Satisfies
<1>7. CASE c.op = "!=" BY <1>1, <1>7 DEF Always, Contains, Satisfies
<1> QED BY <1>1, <1>2, <1>3, <1>4, <1>5, <1>6, <1>7

\* When rows alone assign, out ports may be 0 and the analysis was not cut off by
\* its limit, the registers and ports of the machine that is emitted are, in every
\* state it comes to, in the intervals computed for that state, and what is judged
\* by those intervals holds.  (Hooked.cfg and OutPortZero.cfg are without the
\* first two conditions.)
THEOREM IntervalsCorrect ==
  (\A m \in Sources : AsAnalyzed(m)) => (Spec => [](worklist = << >> => IntervalsSound))
<1> SUFFICES ASSUME \A m \in Sources : AsAnalyzed(m)
             PROVE  Spec => [](worklist = << >> => IntervalsSound)
  OBVIOUS
<1>1. Init => TypeInv /\ SearchInv /\ RunInv
  BY InitType, InitSearch, DataPathAssumption DEF Init, RunInv
<1>2. TypeInv /\ SearchInv /\ RunInv /\ [Next]_vars => TypeInv' /\ SearchInv' /\ RunInv'
  <2>1. TypeInv => AsAnalyzed(source) BY DEF TypeInv, TypeOK
  <2> QED BY <2>1, NextType, NextSearch, NextRun, DataPathAssumption
<1>3. TypeInv /\ RunInv => (worklist = << >> => IntervalsSound)
  <2> SUFFICES ASSUME TypeInv, RunInv, worklist = << >>, phase = "run" PROVE IntervalsSound
    BY DEF IntervalsSound
  <2>1. state \in seen /\ Inside(env[state], vals) BY DEF RunInv, InsideNow
  <2>2. env[state] \in Envs /\ vals \in Vals BY DEF TypeInv, TypeOK, Envs, Vals
  <2>3. ASSUME NEW c \in Atoms, Judged(state, c) PROVE Satisfies(vals, c)
    <3>1. c \in Comparisons /\ c.var \in Vars BY DataPathAssumption DEF Assumptions, Comparisons
    <3>2. Always(env[state][c.var], c) BY <2>3 DEF Judged
    <3> QED BY <2>1, <2>2, <3>1, <3>2, AlwaysSound, DataPathAssumption DEF Inside, Envs
  <2> QED BY <2>1, <2>3 DEF IntervalsSound, Inside
<1> QED BY <1>1, <1>2, <1>3, PTL DEF Spec

-----------------------------------------------------------------------------
(* The passes.  An eliminated assignment is not missed: after each slot a  *)
(* variable that somebody reads has the same value in both machines unless *)
(* it is about to be overwritten unread.                                   *)

\* What somebody can read.
Observed == {v \in Vars : source.kind[v] # "reg" \/ v \in ReadVars(source)}
Agree(val, tval) == \A v \in Observed : val[v] = tval[v]

AsWritten == [i \in DOMAIN source.rows |-> source.rows[i].act]
Cleaned   == [i \in DOMAIN source.rows |->
                [j \in Slots |-> IF Dead(source, source.rows[i].act, j)
                                 THEN Skip ELSE source.rows[i].act[j]]]

ActInv == act = AsWritten \/ (phase # "start" /\ act = Cleaned)

\* After slot j, v is overwritten before it is read.
Pending(as, j, v) ==
  \E l \in j + 1 .. 3 :
    /\ Writes(as[l], v)
    /\ \A n \in j + 1 .. l : v \notin Reads(as[n])

LEMMA ReadVarsFacts ==
  ASSUME NEW m, NEW h \in DOMAIN m.rows
  PROVE  /\ \A k \in DOMAIN m.rows[h].guard : m.rows[h].guard[k].var \in ReadVars(m)
         /\ \A j \in Slots : Reads(m.rows[h].act[j]) \subseteq ReadVars(m)
<1> DEFINE G == {{m.rows[i].guard[n].var : n \in DOMAIN m.rows[i].guard} : i \in DOMAIN m.rows}
           A == {Reads(a[j]) : a \in ActionsOf(m), j \in Slots}
<1> DEFINE W == {m.rows[h].guard[n].var : n \in DOMAIN m.rows[h].guard}
<1>1. ReadVars(m) = (UNION G) \cup (UNION A) BY DEF ReadVars
<1>2. W \in G /\ \A k \in DOMAIN m.rows[h].guard : m.rows[h].guard[k].var \in W OBVIOUS
<1>3. \A j \in Slots : Reads(m.rows[h].act[j]) \in A
  <2>1. m.rows[h].act \in ActionsOf(m) BY DEF ActionsOf
  <2> QED BY <2>1
<1> HIDE DEF G, A, W
<1>4. W \subseteq ReadVars(m) BY <1>1, <1>2
<1>5. \A j \in Slots : Reads(m.rows[h].act[j]) \subseteq ReadVars(m) BY <1>1, <1>3
<1> QED BY <1>2, <1>4, <1>5

LEMMA ReadFacts ==
  ASSUME Assumptions, TypeInv, NEW i \in DOMAIN source.rows
  PROVE  /\ \A n \in DOMAIN source.rows[i].guard : source.rows[i].guard[n].var \in Observed
         /\ \A j \in Slots : Reads(source.rows[i].act[j]) \subseteq Observed
<1>1. source.rows[i] \in Rows BY SourceFacts
<1>2. /\ source.rows[i].guard \in Seq(Comparisons)
      /\ source.rows[i].act \in Actions
  BY <1>1 DEF Rows, Actions
<1>3. ASSUME NEW n \in DOMAIN source.rows[i].guard
      PROVE  source.rows[i].guard[n].var \in Observed
  <2>1. source.rows[i].guard[n] \in Comparisons BY <1>2
  <2>2. source.rows[i].guard[n].var \in Vars BY <2>1 DEF Comparisons
  <2>5. source.rows[i].guard[n].var \in ReadVars(source) BY ReadVarsFacts
  <2> QED BY <2>2, <2>5 DEF Observed
<1>4. ASSUME NEW j \in Slots, NEW v \in Reads(source.rows[i].act[j])
      PROVE  v \in Observed
  <2>1. v \in ReadVars(source) BY ReadVarsFacts
  <2>2. source.rows[i].act[j] \in Assignments \cup {Skip} BY <1>2 DEF Actions
  <2>3. source.rows[i].act[j] # Skip /\ v \in Mentioned(source.rows[i].act[j].expr)
    BY DEF Reads
  <2>4. source.rows[i].act[j].expr \in Expressions BY <2>2, <2>3 DEF Assignments
  <2>5. v \in Vars BY <2>3, <2>4 DEF Mentioned, Expressions
  <2> QED BY <2>1, <2>5 DEF Observed
<1> QED BY <1>3, <1>4

LEMMA ValueAgrees ==
  ASSUME NEW e \in Expressions, NEW val, NEW tval,
         \A v \in Mentioned(e) : val[v] = tval[v]
  PROVE  ValueOf(e, val) = ValueOf(e, tval)
<1>1. CASE e \in [op : {"number"}, k : Int] BY <1>1 DEF ValueOf
<1>2. CASE e \in [op : {"copy"}, v : Vars] BY <1>2 DEF ValueOf, Mentioned
<1>3. CASE e \in [op : {"plus", "minus", "times"}, v : Vars, k : Int \ {0}]
  <2>1. e.op \in {"plus", "minus", "times"} BY <1>3
  <2>2. val[e.v] = tval[e.v] BY <2>1 DEF Mentioned
  <2> QED BY <2>1, <2>2 DEF ValueOf
<1>4. CASE e \in [op : {"sum", "difference"}, v : Vars, w : Vars]
  <2>1. e.op \in {"sum", "difference"} BY <1>4
  <2>2. val[e.v] = tval[e.v] /\ val[e.w] = tval[e.w] BY <2>1 DEF Mentioned
  <2> QED BY <2>1, <2>2 DEF ValueOf
<1> QED BY <1>1, <1>2, <1>3, <1>4 DEF Expressions

LEMMA ValueType ==
  ASSUME NEW e \in Expressions, NEW val \in Vals
  PROVE  ValueOf(e, val) \in Int
<1>0. \A v \in Vars : val[v] \in Int BY DEF Vals
<1>1. CASE e \in [op : {"number"}, k : Int] BY <1>1 DEF ValueOf
<1>2. CASE e \in [op : {"copy"}, v : Vars] BY <1>0, <1>2 DEF ValueOf
<1>3. CASE e \in [op : {"plus", "minus", "times"}, v : Vars, k : Int \ {0}]
  <2>1. e.op \in {"plus", "minus", "times"} /\ val[e.v] \in Int /\ e.k \in Int BY <1>0, <1>3
  <2>2. val[e.v] + e.k \in Int /\ val[e.v] - e.k \in Int /\ val[e.v] * e.k \in Int BY <2>1
  <2> QED BY <2>1, <2>2 DEF ValueOf
<1>4. CASE e \in [op : {"sum", "difference"}, v : Vars, w : Vars]
  <2>1. e.op \in {"sum", "difference"} /\ val[e.v] \in Int /\ val[e.w] \in Int BY <1>0, <1>4
  <2>2. val[e.v] + val[e.w] \in Int /\ val[e.v] - val[e.w] \in Int BY <2>1
  <2> QED BY <2>1, <2>2 DEF ValueOf
<1> QED BY <1>1, <1>2, <1>3, <1>4 DEF Expressions

LEMMA StoreType ==
  ASSUME NEW val \in Vals, NEW a \in Assignments \cup {Skip}
  PROVE  Store(val, a) \in Vals
BY ValueType DEF Store, Vals, Assignments

\* After the first k slots the two sides agree, but for what is yet to be overwritten.
AgreeFrom(as, k, x, y) == \A v \in Observed : ~Pending(as, k, v) => x[v] = y[v]

\* One slot, eliminated or not.
LEMMA SlotAgrees ==
  ASSUME Assumptions, TypeInv, NEW i \in DOMAIN source.rows, NEW j \in 0 .. 2, NEW k \in Slots,
         j + 1 = k, NEW val \in Vals, NEW tval \in Vals, NEW b,
         \/ b = source.rows[i].act[k]
         \/ b = Skip /\ Dead(source, source.rows[i].act, k),
         AgreeFrom(source.rows[i].act, j, val, tval)
  PROVE  /\ AgreeFrom(source.rows[i].act, k, Store(val, b), Store(tval, source.rows[i].act[k]))
         /\ b # Skip => Store(val, b)[b.var] = Store(tval, b)[b.var]
<1> DEFINE as == source.rows[i].act
           a == as[j + 1]
<1>0. /\ b = as[j + 1] \/ (b = Skip /\ Dead(source, as, j + 1))
      /\ \A v \in Observed : ~Pending(as, j, v) => val[v] = tval[v]
  BY DEF AgreeFrom
<1>1. as \in Actions /\ j + 1 \in Slots /\ j + 1 \in 1 .. 3 /\ j \in Int
  BY SourceFacts DEF Slots
<1>2. a \in Assignments \cup {Skip} BY <1>1 DEF Actions
<1>3. Reads(a) \subseteq Observed BY <1>1, ReadFacts
<1>4. \A v : v \in Reads(a) => ~Pending(as, j, v)
  <2> SUFFICES ASSUME NEW v \in Reads(a), Pending(as, j, v) PROVE FALSE OBVIOUS
  <2>1. PICK l \in j + 1 .. 3 : \A n \in j + 1 .. l : v \notin Reads(as[n]) BY DEF Pending
  <2>2. j + 1 \in j + 1 .. l BY <1>1, <2>1
  <2> QED BY <2>1, <2>2
<1>5. \A v \in Reads(a) : val[v] = tval[v] BY <1>0, <1>3, <1>4
<1>6. ASSUME NEW v, ~Writes(a, v), Pending(as, j, v) PROVE Pending(as, j + 1, v)
  <2>1. PICK l \in j + 1 .. 3 : /\ Writes(as[l], v)
                                /\ \A n \in j + 1 .. l : v \notin Reads(as[n])
    BY <1>6 DEF Pending
  <2>2. l # j + 1 BY <1>6, <2>1
  <2>3. l \in (j + 1) + 1 .. 3 BY <1>1, <2>2
  <2>4. \A n \in (j + 1) + 1 .. l : n \in j + 1 .. l BY <1>1
  <2> QED BY <2>1, <2>3, <2>4 DEF Pending
<1>7. a # Skip => a.var \in Vars /\ a.expr \in Expressions BY <1>2 DEF Assignments
<1>8. a # Skip => ValueOf(a.expr, val) = ValueOf(a.expr, tval)
  BY <1>5, <1>7, ValueAgrees DEF Reads
<1>9. b # Skip => Store(val, b)[b.var] = Store(tval, b)[b.var]
  BY <1>0, <1>7, <1>8 DEF Store, Vals
<1>10. ASSUME NEW v \in Observed, ~Pending(as, j + 1, v)
       PROVE  Store(val, b)[v] = Store(tval, a)[v]
  <2>1. v \in Vars BY DEF Observed
  <2>2. CASE ~Writes(a, v)
    <3>1. val[v] = tval[v] BY <1>0, <1>6, <1>10, <2>2
    <3> QED BY <1>0, <1>7, <2>1, <2>2, <3>1 DEF Store, Writes, Vals
  <2>3. CASE Writes(a, v) /\ b = a
    BY <1>7, <1>8, <2>1, <2>3 DEF Store, Writes, Vals
  <2>4. CASE Writes(a, v) /\ b = Skip /\ Dead(source, as, j + 1)
    <3>1. a # Skip /\ a.var = v BY <2>4 DEF Writes
    <3>2. Store(val, b) = val BY <2>4 DEF Store
    <3>3. Store(tval, a)[v] = ValueOf(a.expr, tval)
      BY <1>7, <3>1 DEF Store, Vals
    <3>4. CASE a.expr = [op |-> "copy", v |-> v]
      <4>1. v \in Reads(a) BY <3>1, <3>4 DEF Reads, Mentioned
      <4>2. ValueOf(a.expr, tval) = tval[v] BY <3>4 DEF ValueOf
      <4> QED BY <1>5, <3>2, <3>3, <4>1, <4>2
    <3>5. CASE source.kind[v] = "reg" /\ v \notin ReadVars(source)
      BY <3>5 DEF Observed
    <3>6. CASE Overwritten(as, j + 1)
      BY <1>10, <3>1, <3>6 DEF Overwritten, Pending
    <3> QED BY <2>4, <3>1, <3>4, <3>5, <3>6 DEF Dead
  <2> QED BY <1>0, <2>2, <2>3, <2>4
<1>11. AgreeFrom(as, j + 1, Store(val, b), Store(tval, a)) BY <1>10 DEF AgreeFrom
<1> HIDE DEF as
<1> QED BY <1>9, <1>11 DEF as

\* The whole action, and the value every assignment that is left assigns.
LEMMA ActionAgrees ==
  ASSUME Assumptions, TypeInv, ActInv, NEW i \in DOMAIN source.rows,
         NEW val \in Vals, NEW tval \in Vals, Agree(val, tval)
  PROVE  /\ Agree(StoreTo(val, act[i], 3), StoreTo(tval, source.rows[i].act, 3))
         /\ \A j \in Slots : act[i][j] # Skip =>
              StoreTo(val, act[i], j)[act[i][j].var]
                = StoreTo(tval, source.rows[i].act, j)[act[i][j].var]
<1> DEFINE as == source.rows[i].act
           bs == act[i]
           v1 == Store(val, bs[1]) v2 == Store(v1, bs[2]) v3 == Store(v2, bs[3])
           t1 == Store(tval, as[1]) t2 == Store(t1, as[2]) t3 == Store(t2, as[3])
<1>1. as \in Actions /\ bs \in Actions BY SourceFacts
<1>2. \A j \in Slots : bs[j] = as[j] \/ (bs[j] = Skip /\ Dead(source, as, j))
  BY DEF ActInv, AsWritten, Cleaned
<1>3. \A j \in Slots : bs[j] # Skip => bs[j] = as[j] BY <1>2
<1>4. 0 \in 0 .. 2 /\ 1 \in 0 .. 2 /\ 2 \in 0 .. 2 /\ Slots = {1, 2, 3}
  BY DEF Slots
<1>5. 0 + 1 = 1 /\ 1 + 1 = 2 /\ 2 + 1 = 3 OBVIOUS
<1>s. ASSUME NEW l \in 0 .. 2, NEW j \in Slots, l + 1 = j, NEW x \in Vals, NEW y \in Vals,
             AgreeFrom(as, l, x, y)
      PROVE  /\ AgreeFrom(as, j, Store(x, bs[j]), Store(y, as[j]))
             /\ bs[j] # Skip => Store(x, bs[j])[bs[j].var] = Store(y, as[j])[bs[j].var]
  <2>1. bs[j] = as[j] \/ (bs[j] = Skip /\ Dead(source, as, j)) BY <1>2
  <2>2. bs[j] # Skip => bs[j] = as[j] BY <1>3
  <2> DEFINE b == bs[j]
  <2> HIDE DEF b, bs
  <2>3. b = as[j] \/ (b = Skip /\ Dead(source, as, j)) BY <2>1 DEF b
  <2>4. /\ AgreeFrom(as, j, Store(x, b), Store(y, as[j]))
        /\ b # Skip => Store(x, b)[b.var] = Store(y, b)[b.var]
    BY ONLY Assumptions, TypeInv, <1>s, <2>3, SlotAgrees
  <2> QED BY <2>2, <2>4 DEF b
<1>7. \A v \in Vals, a \in Assignments \cup {Skip} : Store(v, a) \in Vals
  BY StoreType
<1>8. /\ v1 \in Vals /\ v2 \in Vals /\ t1 \in Vals /\ t2 \in Vals
  <2>1. \A j \in Slots : as[j] \in Assignments \cup {Skip} /\ bs[j] \in Assignments \cup {Skip}
    BY <1>1 DEF Actions
  <2> QED BY <1>4, <1>7, <2>1
<1>9. /\ StoreTo(val, bs, 1) = v1 /\ StoreTo(val, bs, 2) = v2 /\ StoreTo(val, bs, 3) = v3
      /\ StoreTo(tval, as, 1) = t1 /\ StoreTo(tval, as, 2) = t2 /\ StoreTo(tval, as, 3) = t3
  BY DEF StoreTo
<1>10. /\ v1 = Store(val, bs[1]) /\ v2 = Store(v1, bs[2]) /\ v3 = Store(v2, bs[3])
       /\ t1 = Store(tval, as[1]) /\ t2 = Store(t1, as[2]) /\ t3 = Store(t2, as[3])
  OBVIOUS
<1> HIDE DEF as, bs, v1, v2, v3, t1, t2, t3
<1>a. AgreeFrom(as, 0, val, tval) BY DEF Agree, AgreeFrom
<1>b. AgreeFrom(as, 3, v3, t3) => Agree(v3, t3) BY DEF Pending, Agree, AgreeFrom
<1>11. AgreeFrom(as, 1, v1, t1) /\ (bs[1] # Skip => v1[bs[1].var] = t1[bs[1].var])
  <2>1. \A x, y \in Vals : AgreeFrom(as, 0, x, y) =>
          /\ AgreeFrom(as, 1, Store(x, bs[1]), Store(y, as[1]))
          /\ bs[1] # Skip => Store(x, bs[1])[bs[1].var] = Store(y, as[1])[bs[1].var]
    <3>1. 0 \in 0 .. 2 /\ 1 \in Slots /\ 0 + 1 = 1 BY <1>4, <1>5
    <3> QED BY ONLY <1>s, <3>1
  <2> QED BY ONLY <1>10, <1>a, <2>1
<1>12. AgreeFrom(as, 2, v2, t2) /\ (bs[2] # Skip => v2[bs[2].var] = t2[bs[2].var])
  <2>1. \A x, y \in Vals : AgreeFrom(as, 1, x, y) =>
          /\ AgreeFrom(as, 2, Store(x, bs[2]), Store(y, as[2]))
          /\ bs[2] # Skip => Store(x, bs[2])[bs[2].var] = Store(y, as[2])[bs[2].var]
    <3>1. 1 \in 0 .. 2 /\ 2 \in Slots /\ 1 + 1 = 2 BY <1>4, <1>5
    <3> QED BY ONLY <1>s, <3>1
  <2> QED BY ONLY <1>8, <1>10, <1>11, <2>1
<1>13. AgreeFrom(as, 3, v3, t3) /\ (bs[3] # Skip => v3[bs[3].var] = t3[bs[3].var])
  <2>1. \A x, y \in Vals : AgreeFrom(as, 2, x, y) =>
          /\ AgreeFrom(as, 3, Store(x, bs[3]), Store(y, as[3]))
          /\ bs[3] # Skip => Store(x, bs[3])[bs[3].var] = Store(y, as[3])[bs[3].var]
    <3>1. 2 \in 0 .. 2 /\ 3 \in Slots /\ 2 + 1 = 3 BY <1>4, <1>5
    <3> QED BY ONLY <1>s, <3>1
  <2> QED BY ONLY <1>8, <1>10, <1>12, <2>1
<1>14. Agree(v3, t3) BY <1>13, <1>b
<1>15. \A j \in Slots : bs[j] # Skip => StoreTo(val, bs, j)[bs[j].var] = StoreTo(tval, as, j)[bs[j].var]
  BY <1>4, <1>9, <1>11, <1>12, <1>13
<1> QED BY <1>9, <1>14, <1>15 DEF as, bs

-----------------------------------------------------------------------------
(* The pruning.  Only rows that were found dead are gone.                  *)

\* No two rows join the same two states.
Distinct(m) ==
  \A i, n \in DOMAIN m.rows :
    m.rows[i].src = m.rows[n].src /\ m.rows[i].tgt = m.rows[n].tgt => i = n

FoundDead(i) == \E x : <<i, x>> \in Findings

PruneInv ==
  /\ phase \in {"start", "analyze"} => alive = DOMAIN source.rows /\ findings = {}
  /\ phase \in {"prune", "run"} =>
       /\ findings \subseteq Findings
       /\ \A i \in DOMAIN source.rows : i \in alive \/ FoundDead(i)

LEMMA InitPrune == Init => ActInv /\ PruneInv
BY DEF Init, ActInv, AsWritten, PruneInv

\* What was found stays so: nothing is analyzed any more.
LEMMA FoundStays ==
  ASSUME UNCHANGED <<source, act, env, seen>>
  PROVE  Findings' = Findings /\ Observed' = Observed
BY DEF Findings, Unsatisfiable, Breaks, Observed

LEMMA NextAct == ASSUME Assumptions, TypeInv, ActInv, [Next]_vars PROVE ActInv'
<1>1. CASE Eliminate
  <2>1. act = AsWritten /\ source' = source /\ phase' # "start"
    BY <1>1 DEF Eliminate, Begin, ActInv
  <2>2. act' = [i \in DOMAIN act |->
                  [j \in Slots |-> IF Dead(source, act[i], j) THEN Skip ELSE act[i][j]]]
    BY <1>1 DEF Eliminate, Begin
  <2>3. act' = Cleaned BY <2>1, <2>2 DEF AsWritten, Cleaned
  <2>4. Cleaned' = Cleaned BY <2>1 DEF Cleaned
  <2> QED BY <2>1, <2>3, <2>4 DEF ActInv
<1>2. ASSUME UNCHANGED <<source, act>>, phase' = "start" => phase = "start" PROVE ActInv'
  BY <1>2 DEF ActInv, AsWritten, Cleaned
<1>3. CASE Leave BY <1>2, <1>3 DEF Leave, Begin
<1>4. CASE Pop BY <1>2, <1>4 DEF Pop
<1>5. ASSUME NEW i \in DOMAIN source.rows, Propagate(i) PROVE ActInv'
  BY <1>2, <1>5 DEF Propagate
<1>6. CASE Finish BY <1>2, <1>6 DEF Finish
<1>7. CASE Report BY <1>2, <1>7 DEF Report
<1>8. ASSUME NEW f \in findings, Prune(f) PROVE ActInv' BY <1>2, <1>8 DEF Prune
<1>9. ASSUME NEW val, Start(val) PROVE ActInv' BY <1>2, <1>9 DEF Start
<1>10. ASSUME NEW e, NEW ins, Handle(e, ins) PROVE ActInv' BY <1>2, <1>10 DEF Handle
<1>11. CASE UNCHANGED vars BY <1>2, <1>11 DEF vars
<1> QED BY <1>1, <1>3, <1>4, <1>5, <1>6, <1>7, <1>8, <1>9, <1>10, <1>11 DEF Next, Broken

LEMMA PruneStep ==
  ASSUME Assumptions, TypeInv, PruneInv, Distinct(source), NEW f \in findings, Prune(f)
  PROVE  PruneInv'
<1>1. /\ phase = "prune" /\ phase' = "prune"
      /\ alive' = alive \ First(Alike(f[1])) /\ findings' = findings \ {f}
      /\ UNCHANGED <<source, act, env, seen>>
  BY DEF Prune, analysisVars
<1>2. f \in Findings /\ f[1] \in DOMAIN source.rows
  BY <1>1 DEF PruneInv, TypeInv, TypeOK
<1>3. First(Alike(f[1])) \subseteq {f[1]}
  BY <1>2 DEF First, Alike, Distinct, TypeInv, TypeOK
<1>4. f = <<f[1], f[2]>> BY DEF TypeInv, TypeOK
<1>5. FoundDead(f[1]) BY <1>2, <1>4 DEF FoundDead
<1>6. \A i \in DOMAIN source.rows : i \in alive' \/ FoundDead(i)
  BY <1>1, <1>3, <1>5 DEF PruneInv
<1>7. Findings' = Findings BY <1>1, FoundStays
<1>8. \A i : FoundDead(i)' <=> FoundDead(i) BY <1>7 DEF FoundDead
<1> QED BY <1>1, <1>6, <1>7, <1>8 DEF PruneInv

LEMMA NextPrune ==
  ASSUME Assumptions, TypeInv, PruneInv, Distinct(source), [Next]_vars
  PROVE  PruneInv'
<1>1. ASSUME UNCHANGED <<source, alive, findings>>, {phase, phase'} \subseteq {"start", "analyze"}
      PROVE  PruneInv'
  BY <1>1 DEF PruneInv
<1>2. ASSUME UNCHANGED <<source, act, env, seen, alive, findings>>, findings = {} \/ phase = "run",
             phase \in {"prune", "run"}, phase' \in {"prune", "run"}
      PROVE  PruneInv'
  <2>1. Findings' = Findings BY <1>2, FoundStays
  <2> QED BY <1>2, <2>1 DEF PruneInv, FoundDead
<1>3. CASE Eliminate \/ Leave BY <1>1, <1>3 DEF Eliminate, Leave, Begin, pruneVars
<1>4. CASE Pop BY <1>1, <1>4 DEF Pop, pruneVars
<1>5. ASSUME NEW i \in DOMAIN source.rows, Propagate(i) PROVE PruneInv'
  BY <1>1, <1>5 DEF Propagate, pruneVars
<1>6. CASE Finish BY <1>1, <1>6 DEF Finish, pruneVars
<1>7. CASE Report
  <2>1. /\ findings' = Findings /\ phase' = "prune" /\ phase = "analyze"
        /\ UNCHANGED <<source, act, env, seen, alive>>
    BY <1>7 DEF Report, analysisVars
  <2>2. Findings' = Findings BY <2>1, FoundStays
  <2> QED BY <2>1, <2>2 DEF PruneInv
<1>8. ASSUME NEW f \in findings, Prune(f) PROVE PruneInv' BY <1>8, PruneStep
<1>9. ASSUME NEW val, Start(val) PROVE PruneInv'
  BY <1>2, <1>9 DEF Start, analysisVars, pruneVars
<1>10. ASSUME NEW e, NEW ins, Handle(e, ins) PROVE PruneInv'
  BY <1>2, <1>10 DEF Handle, analysisVars, pruneVars
<1>11. CASE UNCHANGED vars
  <2>1. UNCHANGED <<source, act, env, seen, alive, findings, phase>>
    BY <1>11 DEF vars, analysisVars, pruneVars
  <2>2. Findings' = Findings BY <2>1, FoundStays
  <2> QED BY <2>1, <2>2 DEF PruneInv, FoundDead
<1> QED BY <1>3, <1>4, <1>5, <1>6, <1>7, <1>8, <1>9, <1>10, <1>11 DEF Next, Broken

-----------------------------------------------------------------------------
(* Both machines.                                                          *)

SameNow == state = twin /\ Agree(vals, tvals)
TwinInv == /\ phase # "run" => twin = Root /\ kept
           /\ phase = "run" /\ worklist = << >> /\ kept => SameNow

\* What a comparison that bounds a variable admits is in its domain.
LEMMA DomainSound ==
  ASSUME Assumptions, NEW c \in Comparisons, c.op # "!=", NEW val \in Vals, Satisfies(val, c)
  PROVE  Contains(Domain(c), val[c.var])
<1>1. /\ c.k \in Int /\ val[c.var] \in Int /\ c.op \in {">=", ">", "<=", "<", "=="}
      /\ Inf \notin Int
  BY DEF Comparisons, Vals, Assumptions
<1>2. CASE c.op = ">=" BY <1>1, <1>2 DEF Domain, Contains, Satisfies
<1>3. CASE c.op = ">" BY <1>1, <1>3 DEF Domain, Contains, Satisfies
<1>4. CASE c.op = "<=" BY <1>1, <1>4 DEF Domain, Contains, Satisfies
<1>5. CASE c.op = "<" BY <1>1, <1>5 DEF Domain, Contains, Satisfies
<1>6. CASE c.op = "==" BY <1>1, <1>6 DEF Domain, Contains, Satisfies, Point
<1> QED BY <1>1, <1>2, <1>3, <1>4, <1>5, <1>6

\* Disjoint intervals have nothing in common.
LEMMA DisjointSound ==
  ASSUME Assumptions, NEW i, NEW j, NEW n \in Int, Contains(i, n), Contains(j, n),
         {i.lo, i.hi, j.lo, j.hi} \subseteq Int \cup {Inf}
  PROVE  ~Disjoint(i, j)
BY DEF Disjoint, Contains, Assumptions

LEMMA DomainType ==
  ASSUME NEW c \in Comparisons, c.op # "!="
  PROVE  {Domain(c).lo, Domain(c).hi} \subseteq Int \cup {Inf}
<1>1. c.k \in Int /\ c.op \in {">=", ">", "<=", "<", "=="} BY DEF Comparisons
<1> QED BY <1>1 DEF Domain, Point

\* The first of a set of positions.
LEMMA LeastFacts ==
  ASSUME NEW S \in SUBSET Nat, S # {}
  PROVE  \E n \in S : \A l \in S : n <= l
<1>1. \E x \in S : \A y \in S : ~(<<y, x>> \in OpToRel(<, Nat))
  BY NatLessThanWellFounded, WFMin
<1>2. PICK x \in S : \A y \in S : ~(<<y, x>> \in OpToRel(<, Nat)) BY <1>1
<1>3. \A y \in S : x <= y
  <2> SUFFICES ASSUME NEW y \in S PROVE x <= y OBVIOUS
  <2>1. ~(y < x) BY <1>2 DEF OpToRel
  <2> QED BY <2>1
<1> QED BY <1>3

\* A row that was found dead cannot be run: its guard fails, or what it
\* assigns breaks a contract, in the source as well.
LEMMA DeadRow ==
  ASSUME Assumptions, TypeInv, AsAnalyzed(source), ActInv, NEW i \in DOMAIN source.rows, FoundDead(i),
         NEW now \in Vals, NEW tnow \in Vals, Agree(now, tnow),
         Inside(env[source.rows[i].src], now), GuardHolds(source.rows[i].guard, now)
  PROVE  ~KeepsContracts(i, tnow)
<1> DEFINE en == env[source.rows[i].src]
           g == source.rows[i].guard
<1>1. PICK x : <<i, x>> \in Findings BY DEF FoundDead
<1>2. \/ x \in Vars /\ Unsatisfiable(i, x)
      \/ x \in Slots /\ Breaks(i, x)
  BY <1>1 DEF Findings
<1>3. en \in Envs /\ \A v \in Vars : {en[v].lo, en[v].hi} \subseteq Int \cup {Inf}
  <2>1. source.rows[i].src \in States /\ env \in [States -> Envs]
    <3>1. source.rows[i] \in Rows BY SourceFacts
    <3>2. env \in [States -> Envs] BY DEF TypeInv, TypeOK, Envs
    <3> QED BY <3>1, <3>2 DEF Rows
  <2>2. en \in Envs BY <2>1
  <2> HIDE DEF en
  <2> QED BY <2>2 DEF Envs, Intervals, Bounds
<1>4. ASSUME x \in Vars, Unsatisfiable(i, x) PROVE FALSE
  <2>1. g \in Seq(Comparisons)
    <3>1. source.rows[i] \in Rows BY SourceFacts
    <3> QED BY <3>1 DEF Rows
  <2>2. Bounding(g, x) # {} /\ Disjoint(en[x], GuardDomain(g, x))
    BY <1>4 DEF Unsatisfiable
  <2>3. Bounding(g, x) \in SUBSET Nat BY <2>1 DEF Bounding
  <2>4. PICK n : n \in Bounding(g, x) /\ GuardDomain(g, x) = Domain(g[n])
    BY <2>2, <2>3, LeastFacts DEF GuardDomain
  <2>6. g[n] \in Comparisons /\ g[n].var = x /\ g[n].op # "!=" /\ n \in DOMAIN g
    BY <2>1, <2>4 DEF Bounding
  <2>7. Satisfies(now, g[n]) BY <2>6 DEF GuardHolds
  <2>8. Contains(Domain(g[n]), now[x]) BY <2>6, <2>7, DomainSound
  <2>9. Contains(en[x], now[x]) /\ now[x] \in Int BY <1>4 DEF Inside, Vals
  <2>10. {Domain(g[n]).lo, Domain(g[n]).hi} \subseteq Int \cup {Inf} BY <2>6, DomainType
  <2> QED BY <1>3, <1>4, <2>2, <2>4, <2>8, <2>9, <2>10, DisjointSound
<1>5. ASSUME x \in Slots, Breaks(i, x) PROVE ~KeepsContracts(i, tnow)
  <2> DEFINE a == act[i][x]
             y == a.var
  <2>1. a # Skip /\ Disjoint(source.contract[y], AssignTo(en, act[i], x)[y])
    BY <1>5 DEF Breaks
  <2>2. act[i] \in Actions /\ a = source.rows[i].act[x] /\ y \in Vars
    <3>1. act[i] \in Actions BY SourceFacts
    <3>2. a = source.rows[i].act[x] BY <1>5, <2>1 DEF TypeInv, ActsOfSource
    <3>3. a \in Assignments BY <1>5, <2>1, <3>1 DEF Actions
    <3> QED BY <3>1, <3>2, <3>3 DEF Assignments
  <2>3. /\ AssignTo(en, act[i], x) \in Envs /\ StoreTo(now, act[i], x) \in Vals
        /\ Inside(AssignTo(en, act[i], x), StoreTo(now, act[i], x))
    BY <1>3, <1>5, <2>2, ActionSound
  <2>4. StoreTo(now, act[i], x)[y] = StoreTo(tnow, source.rows[i].act, x)[y]
    BY <1>5, <2>1, ActionAgrees
  <2> DEFINE m == StoreTo(now, act[i], x)[y]
             r == AssignTo(en, act[i], x)[y]
  <2>5. m \in Int /\ Contains(r, m) /\ r \in Intervals /\ source.contract[y] \in Intervals
    <3>1. source.contract[y] \in Intervals BY <2>2, SourceFacts DEF Assumptions, Machines
    <3> QED BY <2>2, <2>3, <3>1 DEF Inside, Vals, Envs
  <2> HIDE DEF a, y, m, r
  <2>6. ~Contains(source.contract[y], m)
    BY <2>1, <2>5, DisjointSound DEF Intervals, Bounds, r
  <2>8. ~Keeps(source.rows[i].act, tnow) BY <1>5, <2>1, <2>2, <2>4, <2>6 DEF Keeps, m, a, y
  <2> QED BY <2>8, RowEffect
<1> QED BY <1>2, <1>4, <1>5

LEMMA GuardAgrees ==
  ASSUME Assumptions, TypeInv, NEW i \in DOMAIN source.rows, NEW now, NEW tnow, Agree(now, tnow)
  PROVE  GuardHolds(source.rows[i].guard, now) <=> GuardHolds(source.rows[i].guard, tnow)
<1>1. \A n \in DOMAIN source.rows[i].guard :
        now[source.rows[i].guard[n].var] = tnow[source.rows[i].guard[n].var]
  BY ReadFacts DEF Agree
<1>2. \A n \in DOMAIN source.rows[i].guard :
        Satisfies(now, source.rows[i].guard[n]) <=> Satisfies(tnow, source.rows[i].guard[n])
  BY <1>1 DEF Satisfies
<1> QED BY <1>2 DEF GuardHolds

\* An event finds the emitted machine inside its intervals.
LEMMA InsideEvent ==
  ASSUME Assumptions, TypeInv, SearchInv, RunInv, worklist = << >>,
         NEW e, NEW ins \in [Inputs -> Values], Handle(e, ins)
  PROVE  With(vals, ins) \in Vals /\ Inside(env[state], With(vals, ins))
<1> DEFINE now == With(vals, ins)
<1>1. /\ state \in seen /\ state \in States /\ Inside(env[state], vals)
      /\ env \in [States -> Envs] /\ vals \in Vals
      /\ \A v \in Inputs : Contains(source.contract[v], ins[v])
  BY DEF Handle, RunInv, InsideNow, TypeInv, TypeOK, Envs, Vals
<1>2. now \in Vals BY <1>1 DEF With, Vals, Inputs, Assumptions
<1>3. ASSUME NEW v \in Vars PROVE Contains(env[state][v], now[v])
  <2>1. CASE v \in Inputs
    <3>1. Contains(source.contract[v], ins[v]) /\ now[v] = ins[v] /\ now[v] \in Int
      BY <1>1, <1>2, <2>1 DEF With, Vals
    <3>2. Within(source.contract[v], env[state][v])
      BY <1>1, <2>1 DEF SearchInv, InputInv, Admits
    <3>3. source.contract[v] \in Intervals /\ env[state][v] \in Intervals
      BY <1>1, SourceFacts DEF Assumptions, Machines, Envs
    <3> QED BY <3>1, <3>2, <3>3, WithinContains
  <2>2. CASE v \notin Inputs BY <1>1, <2>2 DEF With, Inside
  <2> QED BY <2>1, <2>2
<1> QED BY <1>2, <1>3 DEF Inside

LEMMA HandleTwin ==
  ASSUME Assumptions, TypeInv, AsAnalyzed(source), SearchInv, RunInv, ActInv, PruneInv, TwinInv,
         NEW e \in Events, NEW ins \in [Inputs -> Values], Handle(e, ins)
  PROVE  TwinInv'
<1> DEFINE now  == With(vals, ins)
           tnow == With(tvals, ins)
           I    == Enabled(alive, state, e, now)
           T    == Enabled(DOMAIN source.rows, twin, e, tnow)
<1>1. /\ phase = "run" /\ phase' = "run" /\ kept
      /\ UNCHANGED <<source, worklist>>
      /\ \/ I = {} /\ state' = state /\ vals' = now
         \/ \E i \in First(I) : state' = source.rows[i].tgt /\ vals' = Effect(Supplied, i, now)
      /\ \/ T = {} /\ twin' = twin /\ tvals' = tnow
         \/ \E i \in First(T) : /\ twin' = source.rows[i].tgt
                                /\ tvals' = Effect(Written, i, tnow)
                                /\ kept' = KeepsContracts(i, tnow)
  BY DEF Handle, analysisVars
<1> SUFFICES ASSUME worklist = << >>, kept' PROVE SameNow'
  BY <1>1 DEF TwinInv
<1>2. now \in Vals /\ Inside(env[state], now) BY InsideEvent
<1>3. tnow \in Vals
  BY DEF With, Vals, Inputs, Assumptions, TypeInv, TypeOK
<1>4. state = twin /\ Agree(vals, tvals) BY <1>1 DEF TwinInv, SameNow
<1>5. Agree(now, tnow) BY <1>4 DEF Agree, With, Observed
<1> HIDE DEF now, tnow
<1>6. \A i \in DOMAIN source.rows :
        GuardHolds(source.rows[i].guard, now) <=> GuardHolds(source.rows[i].guard, tnow)
  BY <1>5, GuardAgrees
<1>7. alive \subseteq DOMAIN source.rows /\ DOMAIN source.rows \subseteq Nat
  BY SourceFacts DEF TypeInv, TypeOK
<1>8. I = T \cap alive BY <1>4, <1>6, <1>7 DEF Enabled
<1>10. CASE T = {} /\ twin' = twin /\ tvals' = tnow
  <2>1. I = {} BY <1>8, <1>10
  <2>2. First(I) = {} BY <2>1 DEF First
  <2>3. state' = state /\ vals' = now BY <1>1, <2>2
  <2>4. state' = twin' /\ Agree(vals', tvals') BY <1>4, <1>5, <1>10, <2>3
  <2> QED BY <1>1, <2>4 DEF SameNow, Agree, Observed
<1>11. ASSUME NEW i \in First(T), twin' = source.rows[i].tgt,
              tvals' = Effect(Written, i, tnow), kept' = KeepsContracts(i, tnow)
       PROVE  SameNow'
  <2>1. i \in T /\ i \in DOMAIN source.rows /\ source.rows[i].src = twin
        /\ GuardHolds(source.rows[i].guard, now)
    BY <1>6 DEF First, Enabled
  <2>2. i \in alive
    <3>1. ~FoundDead(i) BY <1>2, <1>3, <1>4, <1>5, <1>11, <2>1, DeadRow
    <3> QED BY <1>1, <2>1, <3>1 DEF PruneInv
  <2>3. i \in I BY <1>8, <2>1, <2>2
  <2>4. PICK n \in First(I) : state' = source.rows[n].tgt /\ vals' = Effect(Supplied, n, now)
    BY <1>1, <2>3
  <2>5. n = i
    <3>1. n \in I /\ n <= i BY <2>3 DEF First
    <3>2. n \in T /\ i <= n BY <1>8, <1>11, <3>1 DEF First
    <3>3. n \in Nat /\ i \in Nat BY <1>7, <1>8, <2>1, <3>1 DEF Enabled
    <3> QED BY <3>1, <3>2, <3>3
  <2>6. Agree(StoreTo(now, act[i], 3), StoreTo(tnow, source.rows[i].act, 3))
    BY <1>2, <1>3, <1>5, <2>1, ActionAgrees
  <2>8. /\ Effect(Supplied, i, now) = StoreTo(now, act[i], 3)
        /\ Effect(Written, i, tnow) = StoreTo(tnow, source.rows[i].act, 3)
    BY <2>1, <2>2, RowEffect
  <2>7. state' = twin' /\ Agree(vals', tvals') BY <1>11, <2>4, <2>5, <2>6, <2>8
  <2> QED BY <1>1, <2>7 DEF SameNow, Agree, Observed
<1> QED BY <1>1, <1>10, <1>11

LEMMA NextTwin ==
  ASSUME Assumptions, TypeInv, AsAnalyzed(source), SearchInv, RunInv, ActInv, PruneInv, TwinInv,
         [Next]_vars
  PROVE  TwinInv'
<1>1. ASSUME UNCHANGED vars PROVE TwinInv'
  BY <1>1 DEF vars, analysisVars, runVars, TwinInv, SameNow, Agree, Observed
<1>2. ASSUME phase # "run", phase' # "run", twin' = twin, kept' = kept PROVE TwinInv'
  BY <1>2 DEF TwinInv
<1>3. CASE Eliminate \/ Leave BY <1>2, <1>3 DEF Eliminate, Leave, Begin, runVars
<1>4. CASE Pop BY <1>2, <1>4 DEF Pop, runVars
<1>5. ASSUME NEW i \in DOMAIN source.rows, Propagate(i) PROVE TwinInv'
  BY <1>2, <1>5 DEF Propagate, runVars
<1>6. CASE Finish BY <1>2, <1>6 DEF Finish, runVars
<1>7. CASE Report BY <1>2, <1>7 DEF Report, runVars
<1>8. ASSUME NEW f \in findings, Prune(f) PROVE TwinInv' BY <1>2, <1>8 DEF Prune, runVars
<1>9. ASSUME NEW val \in [Vars -> Values], Start(val) PROVE TwinInv'
  <2>1. /\ phase = "prune" /\ phase' = "run" /\ vals' = val /\ tvals' = val
        /\ state' = state /\ twin' = twin /\ kept' = kept
    BY <1>9, StartsInside DEF Start
  <2>2. state = Root /\ twin = Root BY <2>1 DEF RunInv, TwinInv
  <2> QED BY <2>1, <2>2 DEF TwinInv, SameNow, Agree
<1>10. ASSUME NEW e \in Events, NEW ins \in [Inputs -> Values], Handle(e, ins) PROVE TwinInv'
  BY <1>10, HandleTwin
<1> QED BY <1>1, <1>3, <1>4, <1>5, <1>6, <1>7, <1>8, <1>9, <1>10 DEF Next, Broken

\* When rows alone assign, no two of them join the same two states, out ports may
\* be 0 and the analysis was not cut off by its limit, the machine that is emitted, without the actions eliminated and the
\* rows pruned, is always in the state of the source, and all that can be read has the
\* same value, as long as the source keeps its contracts.
THEOREM SameBehaviourCorrect ==
  (\A m \in Sources : Distinct(m) /\ AsAnalyzed(m))
    => (Spec => [](worklist = << >> => SameBehaviour))
<1> SUFFICES ASSUME \A m \in Sources : Distinct(m) /\ AsAnalyzed(m)
             PROVE  Spec => [](worklist = << >> => SameBehaviour)
  OBVIOUS
<1> DEFINE Inv == TypeInv /\ SearchInv /\ RunInv /\ ActInv /\ PruneInv /\ TwinInv
<1>1. Init => Inv
  BY InitType, InitSearch, InitPrune, DataPathAssumption DEF Init, RunInv, TwinInv
<1>2. Inv /\ [Next]_vars => Inv'
  <2>1. TypeInv => Distinct(source) /\ AsAnalyzed(source) BY DEF TypeInv, TypeOK
  <2> QED BY <2>1, NextType, NextSearch, NextRun, NextAct, NextPrune, NextTwin,
             DataPathAssumption
<1>3. Inv => (worklist = << >> => SameBehaviour)
  BY DEF TwinInv, SameNow, Agree, Observed, SameBehaviour
<1> QED BY <1>1, <1>2, <1>3, PTL DEF Spec

-----------------------------------------------------------------------------
(* How long the search lasts.  As long as every bound is a number, a state *)
(* that has been worked on three times is never put on the list again: its *)
(* next change would give a bound up.                                      *)

\* The first visit of a state, the second, ...
Visited == {p \in States \X (Nat \ {0}) : p[2] <= visits[p[1]]}

Boundless == \E s \in seen, v \in Vars : Inf \in {env[s][v].lo, env[s][v].hi}

OnceInv  == \A k, n \in DOMAIN worklist : worklist[k] = worklist[n] => k = n
CountInv == IsFiniteSet(Visited) /\ Cardinality(Visited) = iterations
FewInv   == \/ Boundless
            \/ \A s \in States : /\ visits[s] <= 3
                                 /\ s \in Waiting => visits[s] <= 2
                                 /\ s \notin seen => visits[s] = 0
LimitInv == phase \in {"prune", "run"} => worklist = << >> \/ iterations = MaxIterations

SettleInv == Waiting \subseteq seen /\ OnceInv /\ CountInv /\ FewInv /\ LimitInv

LEMMA OnceFacts ==
  ASSUME NEW S, NEW w \in Seq(S), NEW t \in S,
         \A k, n \in DOMAIN w : w[k] = w[n] => k = n
  PROVE  /\ t \notin Listed(w) =>
              \A k, n \in DOMAIN Append(w, t) : Append(w, t)[k] = Append(w, t)[n] => k = n
         /\ w # << >> => /\ \A k, n \in DOMAIN Tail(w) : Tail(w)[k] = Tail(w)[n] => k = n
                         /\ Head(w) \notin Listed(Tail(w))
<1>1. ASSUME t \notin Listed(w)
      PROVE  \A k, n \in DOMAIN Append(w, t) : Append(w, t)[k] = Append(w, t)[n] => k = n
  <2>1. DOMAIN Append(w, t) = 1 .. Len(w) + 1 /\ DOMAIN w = 1 .. Len(w) /\ Len(w) \in Nat
    OBVIOUS
  <2>2. \A n \in 1 .. Len(w) : Append(w, t)[n] = w[n] OBVIOUS
  <2>3. Append(w, t)[Len(w) + 1] = t OBVIOUS
  <2>4. \A n \in 1 .. Len(w) : w[n] # t BY <1>1, <2>1 DEF Listed
  <2>5. \A n \in 1 .. Len(w) + 1 : n \in 1 .. Len(w) \/ n = Len(w) + 1 BY <2>1
  <2> QED BY <2>1, <2>2, <2>3, <2>4, <2>5
<1>2. ASSUME w # << >>
      PROVE  /\ \A k, n \in DOMAIN Tail(w) : Tail(w)[k] = Tail(w)[n] => k = n
             /\ Head(w) \notin Listed(Tail(w))
  <2>1. DOMAIN w = 1 .. Len(w) /\ Len(w) \in Nat \ {0} /\ Head(w) = w[1] BY <1>2
  <2>2. DOMAIN Tail(w) = 1 .. Len(w) - 1 BY <1>2
  <2>3. \A n \in 1 .. Len(w) - 1 : Tail(w)[n] = w[n + 1] BY <1>2
  <2>4. \A n \in 1 .. Len(w) - 1 : n + 1 \in DOMAIN w /\ n + 1 # 1 BY <2>1
  <2>5. ASSUME NEW k \in DOMAIN Tail(w), NEW n \in DOMAIN Tail(w), Tail(w)[k] = Tail(w)[n]
        PROVE  k = n
    <3>1. w[k + 1] = w[n + 1] /\ k + 1 \in DOMAIN w /\ n + 1 \in DOMAIN w
      BY <2>2, <2>3, <2>4, <2>5
    <3>2. k + 1 = n + 1 BY <3>1
    <3> QED BY <2>1, <2>2, <3>2
  <2>6. Head(w) \notin Listed(Tail(w))
    <3> SUFFICES ASSUME NEW n \in DOMAIN Tail(w), Tail(w)[n] = Head(w) PROVE FALSE BY DEF Listed
    <3>1. n + 1 \in DOMAIN w /\ 1 \in DOMAIN w /\ w[n + 1] = w[1] BY <2>1, <2>2, <2>3, <2>4
    <3>2. n + 1 = 1 BY <3>1
    <3> QED BY <2>2, <2>4, <3>2
  <2> QED BY <2>5, <2>6
<1> QED BY <1>1, <1>2

\* A bound that is given up stays given up.
LEMMA BoundlessStays ==
  ASSUME Assumptions, NEW t \in States, NEW next \in Envs, env \in [States -> Envs],
         env' = [env EXCEPT ![t] = Merged(t, next)], seen \subseteq seen', seen \subseteq States,
         Boundless
  PROVE  Boundless'
<1>1. PICK s \in seen, v \in Vars : Inf \in {env[s][v].lo, env[s][v].hi} BY DEF Boundless
<1>2. CASE s # t BY <1>1, <1>2 DEF Boundless
<1>3. CASE s = t
  <2>1. env'[t] = Merged(t, next) OBVIOUS
  <2>2. Merged(t, next)[v] = IF visits[t] >= 3 THEN Widen(env[t][v], next[v])
                                               ELSE Join(env[t][v], next[v])
    BY <1>1, <1>3 DEF Merged
  <2>3. Inf \in {Merged(t, next)[v].lo, Merged(t, next)[v].hi}
    BY <1>1, <1>3, <2>2 DEF Widen, Join, Below, Above
  <2> QED BY <1>1, <1>3, <2>1, <2>3 DEF Boundless
<1> QED BY <1>2, <1>3

\* Widening a bounded environment to a bounded one changes nothing.
LEMMA WidenSettles ==
  ASSUME Assumptions, NEW t \in seen, t \in States, NEW next \in Envs, env \in [States -> Envs],
         visits[t] >= 3, \A v \in Vars : Inf \notin {Merged(t, next)[v].lo, Merged(t, next)[v].hi}
  PROVE  ~Changes(t, next)
<1> SUFFICES ASSUME NEW v \in Vars PROVE Same(Merged(t, next)[v], env[t][v]) BY DEF Changes
<1>1. Merged(t, next)[v] = Widen(env[t][v], next[v]) BY DEF Merged
<1>2. env[t][v] \in Intervals BY DEF Envs
<1>3. Inf \notin {Merged(t, next)[v].lo, Merged(t, next)[v].hi} OBVIOUS
<1>4. Widen(env[t][v], next[v]).lo = env[t][v].lo /\ Widen(env[t][v], next[v]).hi = env[t][v].hi
  BY <1>1, <1>3 DEF Widen
<1>5. Widen(env[t][v], next[v]) = env[t][v] BY <1>2, <1>4 DEF Widen, Intervals
<1> QED BY <1>1, <1>3, <1>5 DEF Same

LEMMA InitSettle == ASSUME Assumptions, Init PROVE SettleInv
<1>1. worklist = <<Root>> /\ seen = {Root} /\ visits = [s \in States |-> 0] /\ iterations = 0
      /\ phase = "start" /\ Root \in States
  BY DEF Init, Assumptions
<1>2. Waiting \subseteq seen BY <1>1 DEF Waiting
<1>3. OnceInv BY <1>1 DEF OnceInv
<1>4. Visited = {} BY <1>1 DEF Visited
<1>5. CountInv BY <1>1, <1>4, FS_EmptySet DEF CountInv
<1>6. FewInv BY <1>1 DEF FewInv
<1>7. LimitInv BY <1>1 DEF LimitInv
<1> QED BY <1>2, <1>3, <1>5, <1>6, <1>7 DEF SettleInv

LEMMA PopSettle == ASSUME Assumptions, TypeInv, SettleInv, Pop PROVE SettleInv'
<1> DEFINE h == Head(worklist)
<1>1. /\ phase' = phase /\ phase = "analyze" /\ worklist # << >> /\ worklist' = Tail(worklist)
      /\ visits' = [visits EXCEPT ![h] = @ + 1] /\ iterations' = iterations + 1
      /\ env' = env /\ seen' = seen
  BY DEF Pop
<1>2. worklist \in Seq(States) /\ visits \in [States -> Nat] BY DEF TypeInv, TypeOK
<1>3. h \in States /\ Waiting = Waiting' \cup {h} /\ h \notin Waiting'
  <2>1. h \in States /\ Listed(worklist) = Listed(Tail(worklist)) \cup {h}
    BY <1>1, <1>2, Elements DEF Assumptions
  <2>2. h \notin Listed(Tail(worklist))
    BY <1>1, <1>2, OnceFacts DEF SettleInv, OnceInv, Assumptions
  <2>3. Waiting = Listed(worklist) /\ Waiting' = Listed(Tail(worklist))
    BY <1>1 DEF Waiting, Listed
  <2> QED BY <2>1, <2>2, <2>3
<1>4. OnceInv' BY <1>1, <1>2, OnceFacts DEF SettleInv, OnceInv, Assumptions
<1>5. CountInv'
  <2> DEFINE new == <<h, visits[h] + 1>>
  <2>1. Visited' = Visited \cup {new} BY <1>1, <1>2, <1>3 DEF Visited
  <2>2. new \notin Visited BY <1>2, <1>3 DEF Visited
  <2> HIDE DEF new
  <2> QED BY <1>1, <2>1, <2>2, FS_AddElement DEF SettleInv, CountInv
<1>6. FewInv'
  <2>1. CASE Boundless BY <1>1, <2>1 DEF FewInv, Boundless
  <2>2. CASE \A s \in States : /\ visits[s] <= 3 /\ (s \in Waiting => visits[s] <= 2)
                               /\ (s \notin seen => visits[s] = 0)
    <3> SUFFICES ASSUME NEW s \in States
                 PROVE  /\ visits'[s] <= 3 /\ (s \in Waiting' => visits'[s] <= 2)
                        /\ (s \notin seen' => visits'[s] = 0)
      BY DEF FewInv
    <3>1. CASE s = h
      <4>1. visits'[s] = visits[s] + 1 /\ s \in Waiting /\ s \notin Waiting'
        BY <1>1, <1>2, <1>3, <3>1
      <4> QED BY <1>1, <1>2, <2>2, <4>1 DEF SettleInv
    <3>2. CASE s # h
      <4>1. visits'[s] = visits[s] BY <1>1, <1>2, <3>2
      <4> QED BY <1>1, <1>3, <2>2, <4>1
    <3> QED BY <3>1, <3>2
  <2> QED BY <2>1, <2>2 DEF SettleInv, FewInv
<1> QED BY <1>1, <1>3, <1>4, <1>5, <1>6 DEF SettleInv, LimitInv

LEMMA PropagateSettle ==
  ASSUME Assumptions, TypeInv, SettleInv, NEW i \in DOMAIN source.rows, Propagate(i)
  PROVE  SettleInv'
<1> DEFINE t == source.rows[i].tgt next == AssignTo(base, act[i], 3)
<1>1. /\ phase' = phase /\ phase = "analyze" /\ visits' = visits /\ iterations' = iterations
      /\ env' = [env EXCEPT ![t] = Merged(t, next)] /\ seen' = seen \cup {t}
      /\ worklist' = IF Changes(t, next) /\ t \notin Waiting THEN Append(worklist, t) ELSE worklist
  BY DEF Propagate
<1>2. /\ worklist \in Seq(States) /\ visits \in [States -> Nat] /\ env \in [States -> Envs]
      /\ base \in Envs /\ seen \subseteq States
  BY DEF TypeInv, TypeOK, Envs
<1>3. t \in States /\ next \in Envs BY <1>2, SourceFacts, ActionType
<1> HIDE DEF t, next
<1>4. Waiting' = IF Changes(t, next) THEN Waiting \cup {t} ELSE Waiting
  <2>1. Listed(Append(worklist, t)) = Listed(worklist) \cup {t} BY <1>2, <1>3, Elements
  <2> QED BY <1>1, <2>1 DEF Waiting, Listed
<1>5. OnceInv'
  <2>1. CASE worklist' = worklist BY <2>1 DEF SettleInv, OnceInv
  <2>2. CASE worklist' = Append(worklist, t) /\ t \notin Waiting
    BY <1>2, <1>3, <2>2, OnceFacts DEF SettleInv, OnceInv, Waiting, Listed
  <2> QED BY <1>1, <2>1, <2>2
<1>6. CountInv' BY <1>1 DEF SettleInv, CountInv, Visited
<1>7. FewInv'
  <2> SUFFICES ASSUME ~Boundless' PROVE FewInv' BY DEF FewInv
  <2>1. ~Boundless BY <1>1, <1>2, <1>3, BoundlessStays
  <2>2. \A s \in States : /\ visits[s] <= 3 /\ (s \in Waiting => visits[s] <= 2)
                          /\ (s \notin seen => visits[s] = 0)
    BY <2>1 DEF SettleInv, FewInv
  <2>3. ASSUME Changes(t, next) PROVE visits[t] <= 2
    <3>1. CASE t \notin seen BY <1>3, <2>2, <3>1
    <3>2. CASE t \in seen
      <4>1. env'[t] = Merged(t, next) /\ t \in seen' BY <1>1, <1>2, <1>3
      <4>2. \A v \in Vars : Inf \notin {Merged(t, next)[v].lo, Merged(t, next)[v].hi}
        BY <4>1 DEF Boundless
      <4>3. ~(visits[t] >= 3) BY <1>2, <1>3, <2>3, <3>2, <4>2, WidenSettles
      <4>4. visits[t] \in Nat BY <1>2, <1>3
      <4> QED BY <4>3, <4>4
    <3> QED BY <3>1, <3>2
  <2> QED BY <1>1, <1>4, <2>2, <2>3 DEF FewInv
<1> QED BY <1>1, <1>4, <1>5, <1>6, <1>7 DEF SettleInv, LimitInv

LEMMA NextSettle == ASSUME Assumptions, TypeInv, SettleInv, [Next]_vars PROVE SettleInv'
<1>1. ASSUME UNCHANGED <<env, seen, worklist, visits, iterations>>, LimitInv'
      PROVE  SettleInv'
  <2>1. Waiting' = Waiting /\ Visited' = Visited /\ (Boundless' <=> Boundless)
    BY <1>1 DEF Waiting, Visited, Boundless
  <2>2. OnceInv' /\ CountInv' /\ FewInv' BY <1>1, <2>1 DEF SettleInv, OnceInv, CountInv, FewInv
  <2> QED BY <1>1, <2>1, <2>2 DEF SettleInv
<1>2. ASSUME UNCHANGED <<env, seen, worklist, visits, iterations, phase>> PROVE SettleInv'
  <2>1. LimitInv' BY <1>2 DEF SettleInv, LimitInv
  <2> QED BY <1>1, <1>2, <2>1
<1>3. CASE Eliminate \/ Leave
  BY <1>1, <1>3 DEF Eliminate, Leave, Begin, analysisVars, LimitInv
<1>4. CASE Pop BY <1>4, PopSettle
<1>5. ASSUME NEW i \in DOMAIN source.rows, Propagate(i) PROVE SettleInv'
  BY <1>5, PropagateSettle
<1>6. CASE Finish BY <1>2, <1>6 DEF Finish
<1>7. CASE Report
  <2>1. LimitInv' BY <1>7 DEF Report, LimitInv, analysisVars
  <2>2. UNCHANGED <<env, seen, worklist, visits, iterations>> BY <1>7 DEF Report, analysisVars
  <2> QED BY <1>1, <2>1, <2>2
<1>8. ASSUME NEW f \in findings, Prune(f) PROVE SettleInv'
  BY <1>2, <1>8 DEF Prune, analysisVars
<1>9. ASSUME NEW val \in [Vars -> Values], Start(val) PROVE SettleInv'
  BY <1>1, <1>9 DEF Start, analysisVars, SettleInv, LimitInv
<1>10. ASSUME NEW e \in Events, NEW ins \in [Inputs -> Values], Handle(e, ins) PROVE SettleInv'
  <2>1. UNCHANGED analysisVars /\ phase' = phase BY <1>10 DEF Handle
  <2> QED BY <1>2, <2>1 DEF analysisVars
<1>11. CASE UNCHANGED vars BY <1>2, <1>11 DEF vars, analysisVars
<1> QED BY <1>3, <1>4, <1>5, <1>6, <1>7, <1>8, <1>9, <1>10, <1>11 DEF Next, Broken

\* When something still waits and every bound is a number, fewer visits than
\* three for each state have been made.
LEMMA FewVisits ==
  ASSUME Assumptions, TypeInv, SettleInv, IsFiniteSet(States), worklist # << >>, ~Boundless
  PROVE  iterations < 3 * Cardinality(States)
<1> DEFINE all == States \X (1 .. 3) h == Head(worklist) last == <<h, 3>>
<1>1. h \in Waiting /\ h \in States
  BY Elements DEF Waiting, Listed, TypeInv, TypeOK, Assumptions
<1>2. IsFiniteSet(1 .. 3) /\ Cardinality(1 .. 3) = 3
  <2>1. 1 \in Int /\ 3 \in Int /\ ~(1 > 3) /\ 3 - 1 + 1 = 3 OBVIOUS
  <2> QED BY <2>1, FS_Interval
<1>3. IsFiniteSet(all) /\ Cardinality(all) = Cardinality(States) * 3 BY <1>2, FS_Product
<1>4. visits \in [States -> Nat] BY DEF TypeInv, TypeOK
<1>5. (\A s \in States : visits[s] <= 3) /\ visits[h] <= 2
  BY <1>1 DEF SettleInv, FewInv
<1>6. Visited \subseteq all BY <1>4, <1>5 DEF Visited
<1>7. last \in all /\ last \notin Visited BY <1>1, <1>4, <1>5 DEF Visited
<1> HIDE DEF all, last
<1>8. Cardinality(Visited) <= Cardinality(all) /\ Cardinality(Visited) # Cardinality(all)
  BY <1>3, <1>6, <1>7, FS_Subset
<1>9. Cardinality(States) \in Nat /\ Cardinality(Visited) \in Nat
  BY FS_CardinalityType DEF SettleInv, CountInv
<1> QED BY <1>3, <1>8, <1>9 DEF SettleInv, CountInv

\* The widening settles the analysis: when the limit allows three visits of each
\* state (kMaxIterations of compute_state_intervals does for 66 states), the search is
\* cut off only when some interval has lost a bound.
THEOREM CutOffCorrect ==
  IsFiniteSet(States) /\ 3 * Cardinality(States) <= MaxIterations
    => (Spec => []CutOffOnlyUnbounded)
<1> SUFFICES ASSUME IsFiniteSet(States), 3 * Cardinality(States) <= MaxIterations
             PROVE  Spec => []CutOffOnlyUnbounded
  OBVIOUS
<1>1. Init => TypeInv /\ SettleInv BY InitType, InitSettle, DataPathAssumption
<1>2. TypeInv /\ SettleInv /\ [Next]_vars => TypeInv' /\ SettleInv'
  BY NextType, NextSettle, DataPathAssumption
<1>3. TypeInv /\ SettleInv => CutOffOnlyUnbounded
  <2> SUFFICES ASSUME TypeInv, SettleInv, phase \in {"prune", "run"}, worklist # << >>, ~Boundless
               PROVE  FALSE
    BY DEF CutOffOnlyUnbounded, Boundless
  <2>1. iterations = MaxIterations BY DEF SettleInv, LimitInv
  <2>2. iterations < 3 * Cardinality(States) BY FewVisits, DataPathAssumption
  <2>3. MaxIterations \in Nat /\ Cardinality(States) \in Nat
    BY FS_CardinalityType, DataPathAssumption DEF Assumptions
  <2> QED BY <2>1, <2>2, <2>3
<1> QED BY <1>1, <1>2, <1>3, PTL DEF Spec
=============================================================================
