--------------------------- MODULE SpscRingProofs ---------------------------
(***************************************************************************)
(* Proofs about SpscRing for every capacity, counter width and value set.  *)
(***************************************************************************)
EXTENDS SpscRing, Integers, Sequences, TLAPS

\* Elements between tail and head, as the counters stand.
Count == Diff(head, tail)

\* How many slots after the slot of tail the slot s comes, going round.
Rot(s) == IF s >= Slot(tail) THEN s - Slot(tail) ELSE s + Capacity - Slot(tail)

\* The rotation of a counter n elements after tail, n at most Capacity.
Wrapped(n) == IF n = Capacity THEN 0 ELSE n

ProducerInv ==
  /\ ppc = "loaded" => Count <= Diff(head, ptail) /\ Diff(head, ptail) <= Capacity
  /\ ppc = "built" => Count < Capacity

\* What pop() may read it has synchronised with.
SeenInv == cpc = "loaded" => \A s \in unseen : Rot(s) >= Diff(chead, tail)

ConsumerInv ==
  /\ cpc = "loaded" => Diff(chead, tail) <= Count
  /\ cpc \in {"moved", "destroyed"} => Count > 0
  /\ cpc = "clearing" =>
       /\ Diff(ctail, tail) <= Diff(chead, tail)
       /\ Diff(chead, tail) <= Count
       /\ Rot(Slot(ctail)) = Wrapped(Diff(ctail, tail))

WindowInv ==
  /\ Count <= Capacity
  /\ Rot(Slot(head)) = Wrapped(Count)

\* The slot at offset o from tail has lost its object to the consumer.
Released(o) == \/ cpc = "destroyed" /\ o = 0
               \/ cpc = "clearing" /\ o < Diff(ctail, tail)

SlotsInv ==
  \A s \in Slots :
    LET o == Rot(s)
    IN  \/ o < Count /\ cpc = "moved" /\ o = 0 /\ slot[s] = Husk
        \/ o < Count /\ Released(o) /\ slot[s] = Raw
        \/ o < Count /\ ~(cpc = "moved" /\ o = 0) /\ ~Released(o) /\ slot[s] \in Values
        \/ o >= Count /\ ppc = "built" /\ o = Count /\ slot[s] = pvalue
        \/ o >= Count /\ ~(ppc = "built" /\ o = Count) /\ slot[s] = Raw

ObserverInv ==
  /\ observer = "producer" => ppc = "idle" /\ ohead = head
  /\ observer = "consumer" => cpc = "idle" /\ Diff(ohead, tail) <= Count

IInv == TypeOK /\ WindowInv /\ ProducerInv /\ ConsumerInv /\ SlotsInv /\ ObserverInv

-----------------------------------------------------------------------------
(* Remainders.  The slot of a counter is its remainder by Capacity; these  *)
(* lemmas give the one fact the proof needs of it, SlotInc.                *)

\* A positive multiple of k is at least k.
LEMMA ProductAtLeast ==
  ASSUME NEW k \in Nat, k > 0, NEW d \in Nat, d > 0
  PROVE  k * d >= k
<1>1. k * d = k * (d - 1) + k
  OBVIOUS
<1>2. k * (d - 1) >= 0
  OBVIOUS
<1>3. QED
  BY <1>1, <1>2

\* Division with remainder is unique.
LEMMA RemainderUnique ==
  ASSUME NEW k \in Nat, k > 0, NEW p \in Int, NEW q \in Int,
         NEW r \in 0 .. k - 1, NEW s \in 0 .. k - 1, k * p + r = k * q + s
  PROVE  r = s
<1>1. CASE p > q
  <2>1. k * (p - q) >= k
    BY <1>1, ProductAtLeast
  <2>2. k * (p - q) = k * p - k * q
    OBVIOUS
  <2>3. QED
    BY <2>1, <2>2
<1>2. CASE q > p
  <2>1. k * (q - p) >= k
    BY <1>2, ProductAtLeast
  <2>2. k * (q - p) = k * q - k * p
    OBVIOUS
  <2>3. QED
    BY <2>1, <2>2
<1>3. CASE p = q
  BY <1>3
<1>4. QED
  BY <1>1, <1>2, <1>3

\* The remainder of a number written as a multiple of k plus r.
LEMMA RemainderOf ==
  ASSUME NEW k \in Nat, k > 0, NEW q \in Int, NEW r \in 0 .. k - 1
  PROVE  (k * q + r) % k = r
<1> DEFINE n == k * q + r
<1>1. n \in Int
  OBVIOUS
<1>2. n = k * (n \div k) + (n % k) /\ n \div k \in Int /\ n % k \in 0 .. k - 1
  BY <1>1
<1>3. QED
  BY <1>2, RemainderUnique

\* The remainder of a successor.
LEMMA RemainderSucc ==
  ASSUME NEW k \in Nat, k > 0, NEW n \in Int
  PROVE  (n + 1) % k = IF (n % k) + 1 = k THEN 0 ELSE (n % k) + 1
<1> DEFINE q == n \div k
           r == n % k
<1>1. n = k * q + r /\ q \in Int /\ r \in 0 .. k - 1
  OBVIOUS
<1>2. CASE r + 1 = k
  <2>1. n + 1 = k * (q + 1) + 0 /\ q + 1 \in Int /\ 0 \in 0 .. k - 1
    BY <1>1, <1>2
  <2>2. (k * (q + 1) + 0) % k = 0
    BY <2>1, RemainderOf
  <2>3. QED
    BY <1>2, <2>1, <2>2
<1>3. CASE r + 1 # k
  <2>1. n + 1 = k * q + (r + 1) /\ r + 1 \in 0 .. k - 1
    BY <1>1, <1>3
  <2>2. (k * q + (r + 1)) % k = r + 1
    BY <1>1, <2>1, RemainderOf
  <2>3. QED
    BY <1>3, <2>1, <2>2
<1>4. QED
  BY <1>2, <1>3

-----------------------------------------------------------------------------
(* The counters and their slots.                                           *)

\* The assumptions on the constants, spelled out for the provers.
LEMMA Sizes ==
  /\ Capacity \in Nat /\ Capacity > 1
  /\ Modulus \in Nat /\ Modulus > Capacity /\ Modulus % Capacity = 0
  /\ Raw \notin Values /\ Husk \notin Values /\ Raw # Husk
BY SpscRingAssumption DEF Assumptions

\* Counters are closed under increment, and a counter's slot is a slot.
LEMMA CounterTypes ==
  ASSUME NEW c \in Counters
  PROVE  Inc(c) \in Counters /\ Slot(c) \in Slots
BY Sizes DEF Counters, Slots, Slot, Inc

\* Incrementing a counter moves to the next slot, round the buffer, and the
\* wrap of the counter itself is no exception: this is why the width of the
\* counters must be a multiple of the capacity.
LEMMA SlotInc ==
  ASSUME NEW c \in Counters
  PROVE  Slot(Inc(c)) = IF Slot(c) + 1 = Capacity THEN 0 ELSE Slot(c) + 1
<1>1. c \in Int /\ c >= 0 /\ c < Modulus /\ Capacity \in Nat /\ Capacity > 0
  BY Sizes DEF Counters
<1>2. (c + 1) % Capacity = IF (c % Capacity) + 1 = Capacity THEN 0 ELSE (c % Capacity) + 1
  BY <1>1, RemainderSucc
<1>3. CASE c + 1 = Modulus
  <2>1. Slot(c) + 1 = Capacity
    BY <1>1, <1>2, <1>3, Sizes DEF Slot
  <2>2. Slot(Inc(c)) = 0
    BY <1>3, Sizes DEF Slot, Inc
  <2>3. QED
    BY <2>1, <2>2
<1>4. CASE c + 1 # Modulus
  BY <1>2, <1>4 DEF Slot, Inc
<1>5. QED
  BY <1>3, <1>4

\* Slots and counters differ from the counters the consumer moves.
LEMMA DiffType ==
  ASSUME NEW c \in Counters, NEW d \in Counters
  PROVE  /\ Diff(c, d) \in Counters
         /\ Diff(c, d) = 0 <=> c = d
BY Sizes DEF Counters, Diff

\* The distance to an incremented counter grows by one.
LEMMA DiffIncTo ==
  ASSUME NEW c \in Counters, NEW d \in Counters, Diff(c, d) + 1 < Modulus
  PROVE  Diff(Inc(c), d) = Diff(c, d) + 1
BY Sizes DEF Counters, Diff, Inc

\* The distance from an incremented counter shrinks by one.
LEMMA DiffIncFrom ==
  ASSUME NEW c \in Counters, NEW d \in Counters, Diff(c, d) > 0
  PROVE  Diff(c, Inc(d)) = Diff(c, d) - 1
BY Sizes DEF Counters, Diff, Inc

\* Counters at the same distance from a third one are equal, and distances
\* along the window subtract.
LEMMA DiffCompare ==
  ASSUME NEW c \in Counters, NEW d \in Counters, NEW e \in Counters, Diff(c, e) <= Diff(d, e)
  PROVE  /\ Diff(c, e) = Diff(d, e) => c = d
         /\ Diff(d, c) = Diff(d, e) - Diff(c, e)
BY Sizes DEF Counters, Diff

\* Rotations number the slots from the slot of tail on, each once.
LEMMA RotNumbersSlots ==
  ASSUME tail \in Counters
  PROVE  /\ \A s \in Slots : Rot(s) \in 0 .. Capacity - 1
         /\ \A r, s \in Slots : Rot(r) = Rot(s) => r = s
         /\ Rot(Slot(tail)) = 0
<1>1. Slot(tail) \in Slots
  BY CounterTypes
<1>2. QED
  BY <1>1, Sizes DEF Rot, Slots

\* The slot of the next counter is the next rotation.
LEMMA RotInc ==
  ASSUME tail \in Counters, NEW c \in Counters
  PROVE  Rot(Slot(Inc(c))) = IF Rot(Slot(c)) + 1 = Capacity THEN 0 ELSE Rot(Slot(c)) + 1
<1>1. /\ Slot(tail) \in Slots /\ Slot(c) \in Slots
      /\ Slot(Inc(c)) = IF Slot(c) + 1 = Capacity THEN 0 ELSE Slot(c) + 1
  BY CounterTypes, SlotInc
<1>2. QED
  BY <1>1, Sizes DEF Rot, Slots

\* When tail moves forward to a counter whose rotation is known, every
\* rotation shifts back by as much.
LEMMA RotShift ==
  ASSUME tail \in Counters, tail' \in Counters, NEW k \in 0 .. Capacity - 1,
         Rot(Slot(tail')) = k, NEW s \in Slots
  PROVE  Rot(s)' = IF Rot(s) >= k THEN Rot(s) - k ELSE Rot(s) + Capacity - k
<1>1. Slot(tail) \in Slots /\ Slot(tail') \in Slots
  BY CounterTypes
<1>2. Rot(s)' = IF s >= Slot(tail') THEN s - Slot(tail') ELSE s + Capacity - Slot(tail')
  BY DEF Rot, Slot
<1>3. QED
  BY <1>1, <1>2, Sizes DEF Rot, Slots

-----------------------------------------------------------------------------
(* The invariant.                                                          *)

LEMMA InitIInv == Init => IInv
<1> SUFFICES ASSUME Init PROVE IInv
  OBVIOUS
<1>1. 0 \in Counters /\ Diff(0, 0) = 0 /\ Slot(0) \in Slots
  BY Sizes, CounterTypes DEF Counters, Diff
<1>2. TypeOK
  BY <1>1 DEF Init, TypeOK
<1>3. \A s \in Slots : Rot(s) \in Nat
  BY <1>1, Sizes DEF Init, Rot, Slots
<1>4. WindowInv
  BY <1>1, Sizes DEF Init, WindowInv, Count, Rot, Wrapped, Slots
<1>5. SlotsInv
  BY <1>1, <1>3 DEF Init, SlotsInv, Count
<1>6. QED
  BY <1>2, <1>4, <1>5 DEF Init, IInv, ProducerInv, ConsumerInv, ObserverInv

\* What the proof of each step uses of the slots and of the counters.
LEMMA StepFacts ==
  ASSUME TypeOK
  PROVE  /\ \A c \in {head, tail, chead, ctail} : Inc(c) \in Counters /\ Slot(c) \in Slots
         /\ \A s \in Slots : Rot(s) \in 0 .. Capacity - 1
         /\ Count \in Nat
         /\ \A c \in {chead, ctail} : Diff(c, tail) \in Nat /\ (Diff(c, tail) = 0 <=> c = tail)
<1>1. \A c \in {head, tail, chead, ctail} : c \in Counters
  BY DEF TypeOK
<1>2. \A c \in {head, tail, chead, ctail} : Inc(c) \in Counters /\ Slot(c) \in Slots
  BY <1>1, CounterTypes
<1>3. \A s \in Slots : Rot(s) \in 0 .. Capacity - 1
  BY <1>1, RotNumbersSlots
<1>4. \A c \in {head, chead, ctail} : Diff(c, tail) \in Counters /\ (Diff(c, tail) = 0 <=> c = tail)
  BY <1>1, DiffType
<1>5. \A n \in Counters : n \in Nat
  BY Sizes DEF Counters
<1>6. \A c \in {head, chead, ctail} : Diff(c, tail) \in Nat
  BY <1>4, <1>5
<1>7. QED
  BY <1>2, <1>3, <1>4, <1>6 DEF Count

LEMMA StepIInv == IInv /\ [Next]_vars => IInv'
<1> SUFFICES ASSUME IInv, [Next]_vars PROVE IInv'
  OBVIOUS
<1> USE DEF IInv
<1>0. /\ \A c \in {head, tail, chead, ctail} : Inc(c) \in Counters /\ Slot(c) \in Slots
      /\ \A s \in Slots : Rot(s) \in 0 .. Capacity - 1
      /\ Count \in Nat
      /\ \A c \in {chead, ctail} : Diff(c, tail) \in Nat /\ (Diff(c, tail) = 0 <=> c = tail)
  BY StepFacts
<1>1. ASSUME NEW v \in Values, PushLoad(v) PROVE IInv'
  <2>1. TypeOK'
    BY <1>0, <1>1, Sizes, DiffType
       DEF PushLoad, vars, producerVars, consumerVars, observerVars, TypeOK
  <2>2. WindowInv'
    BY <1>1
       DEF PushLoad, vars, producerVars, consumerVars, observerVars, WindowInv, Count,
           Rot
  <2>3. ProducerInv'
    BY <1>1, Sizes
       DEF PushLoad, vars, producerVars, consumerVars, observerVars, TypeOK, Counters,
           Diff, Count, WindowInv, ProducerInv
  <2>4. ConsumerInv'
    BY <1>1, Sizes
       DEF PushLoad, vars, producerVars, consumerVars, observerVars, TypeOK, Counters,
           Diff, Count, Rot, WindowInv, ConsumerInv
  <2>5. SlotsInv'
    BY <1>1
       DEF PushLoad, vars, producerVars, consumerVars, observerVars, Count, Rot,
           Released, SlotsInv
  <2>6. ObserverInv'
    BY <1>1, Sizes
       DEF PushLoad, vars, producerVars, consumerVars, observerVars, TypeOK, Counters,
           Diff, Count, WindowInv, ProducerInv, ObserverInv
  <2>7. QED
    BY <2>1, <2>2, <2>3, <2>4, <2>5, <2>6
<1>2. ASSUME PushFull PROVE IInv'
  <2>1. TypeOK'
    BY <1>0, <1>2, Sizes, DiffType
       DEF PushFull, vars, producerVars, consumerVars, observerVars, TypeOK
  <2>2. WindowInv'
    BY <1>2
       DEF PushFull, vars, producerVars, consumerVars, observerVars, WindowInv, Count,
           Rot
  <2>3. ProducerInv'
    BY <1>2, Sizes
       DEF PushFull, vars, producerVars, consumerVars, observerVars, TypeOK, Counters,
           Diff, Count, WindowInv, ProducerInv
  <2>4. ConsumerInv'
    BY <1>2, Sizes
       DEF PushFull, vars, producerVars, consumerVars, observerVars, TypeOK, Counters,
           Diff, Count, Rot, WindowInv, ConsumerInv
  <2>5. SlotsInv'
    BY <1>2
       DEF PushFull, vars, producerVars, consumerVars, observerVars, Count, Rot,
           Released, SlotsInv
  <2>6. ObserverInv'
    BY <1>2, Sizes
       DEF PushFull, vars, producerVars, consumerVars, observerVars, TypeOK, Counters,
           Diff, Count, WindowInv, ProducerInv, ObserverInv
  <2>7. QED
    BY <2>1, <2>2, <2>3, <2>4, <2>5, <2>6
<1>3. ASSUME PushConstruct PROVE IInv'
  <2>1. TypeOK'
    BY <1>0, <1>3, Sizes, DiffType
       DEF PushConstruct, vars, producerVars, consumerVars, observerVars, TypeOK
  <2>2. WindowInv'
    BY <1>3
       DEF PushConstruct, vars, producerVars, consumerVars, observerVars, WindowInv,
           Count, Rot
  <2>3. ProducerInv'
    BY <1>3, Sizes
       DEF PushConstruct, vars, producerVars, consumerVars, observerVars, TypeOK,
           Counters, Diff, Count, WindowInv, ProducerInv
  <2>4. ConsumerInv'
    BY <1>3, Sizes
       DEF PushConstruct, vars, producerVars, consumerVars, observerVars, TypeOK,
           Counters, Diff, Count, Rot, WindowInv, ConsumerInv
  <2>5. SlotsInv'
    <3>1. Count < Capacity /\ Rot(Slot(head)) = Count
      <4>1. Diff(head, ptail) \in Nat
        BY DiffType, Sizes DEF TypeOK, Counters
      <4>2. QED
        BY <1>0, <1>3, <4>1, Sizes DEF PushConstruct, ProducerInv, WindowInv, Wrapped
    <3>2. \A s \in Slots : s # Slot(head) => Rot(s) # Count
      BY <1>0, <3>1, RotNumbersSlots DEF TypeOK
    <3>3. /\ Count' = Count /\ \A s \in Slots : Rot(s)' = Rot(s)
          /\ \A s \in Slots : Released(Rot(s))' <=> Released(Rot(s))
      BY <1>3
         DEF PushConstruct, vars, producerVars, consumerVars, observerVars, Count,
             Rot, Released
    <3>4. ASSUME NEW s \in Slots, s # Slot(head)
          PROVE  slot'[s] = slot[s] /\ ~(Rot(s) = Count)
      BY <1>3, <3>2, <3>4 DEF PushConstruct, TypeOK
    <3>5. slot'[Slot(head)] = pvalue
      BY <1>0, <1>3 DEF PushConstruct, TypeOK
    <3>6. QED
      BY <1>0, <1>3, <3>1, <3>3, <3>4, <3>5 DEF PushConstruct, SlotsInv, consumerVars
  <2>6. ObserverInv'
    BY <1>3, Sizes
       DEF PushConstruct, vars, producerVars, consumerVars, observerVars, TypeOK,
           Counters, Diff, Count, WindowInv, ProducerInv, ObserverInv
  <2>7. QED
    BY <2>1, <2>2, <2>3, <2>4, <2>5, <2>6
<1>4. ASSUME PushPublish PROVE IInv'
  <2>1. TypeOK'
    BY <1>0, <1>4, Sizes, DiffType
       DEF PushPublish, vars, producerVars, consumerVars, observerVars, TypeOK
  <2>2. WindowInv'
    <3>1. Count < Capacity /\ Rot(Slot(head)) = Count
      BY <1>0, <1>4, Sizes DEF PushPublish, ProducerInv, WindowInv, Wrapped
    <3>2. Count' = Count + 1
      BY <1>0, <1>4, <3>1, Sizes, DiffIncTo DEF PushPublish, consumerVars, TypeOK, Count
    <3>3. Rot(Slot(head))' = Rot(Slot(Inc(head)))
      BY <1>4 DEF PushPublish, consumerVars, Rot
    <3>4. QED
      BY <1>0, <3>1, <3>2, <3>3, Sizes, RotInc DEF TypeOK, WindowInv, Wrapped
  <2>3. ProducerInv'
    BY <1>4, Sizes
       DEF PushPublish, vars, producerVars, consumerVars, observerVars, TypeOK,
           Counters, Inc, Diff, Count, WindowInv, ProducerInv, ConsumerInv
  <2>4. ConsumerInv'
    BY <1>4, Sizes
       DEF PushPublish, vars, producerVars, consumerVars, observerVars, TypeOK,
           Counters, Inc, Diff, Count, Rot, WindowInv, ConsumerInv
  <2>5. SlotsInv'
    <3>1. Count < Capacity /\ Count' = Count + 1
      BY <1>0, <1>4, Sizes, DiffIncTo
         DEF PushPublish, consumerVars, ProducerInv, TypeOK, Count
    <3>2. /\ \A s \in Slots : Rot(s)' = Rot(s) /\ slot'[s] = slot[s]
          /\ \A s \in Slots : Released(Rot(s))' <=> Released(Rot(s))
      BY <1>4 DEF PushPublish, consumerVars, Rot, Released
    <3>3. ~ Released(Count) /\ ~ (cpc = "moved" /\ Count = 0)
      BY <1>0 DEF Released, ConsumerInv
    <3>4. ppc = "built" /\ ppc' = "idle" /\ cpc' = cpc /\ pvalue \in Values
      BY <1>4 DEF PushPublish, consumerVars, TypeOK
    <3>5. QED
      BY <1>0, <3>1, <3>2, <3>3, <3>4 DEF SlotsInv
  <2>6. ObserverInv'
    BY <1>4, Sizes
       DEF PushPublish, vars, producerVars, consumerVars, observerVars, TypeOK,
           Counters, Inc, Diff, Count, WindowInv, ProducerInv, ObserverInv
  <2>7. QED
    BY <2>1, <2>2, <2>3, <2>4, <2>5, <2>6
<1>5. ASSUME PopLoad PROVE IInv'
  <2>1. TypeOK'
    BY <1>0, <1>5, Sizes, DiffType
       DEF PopLoad, vars, producerVars, consumerVars, observerVars, TypeOK
  <2>2. WindowInv'
    BY <1>5
       DEF PopLoad, vars, producerVars, consumerVars, observerVars, WindowInv, Count,
           Rot
  <2>3. ProducerInv'
    BY <1>5, Sizes
       DEF PopLoad, vars, producerVars, consumerVars, observerVars, TypeOK, Counters,
           Diff, Count, WindowInv, ProducerInv
  <2>4. ConsumerInv'
    BY <1>5, Sizes
       DEF PopLoad, vars, producerVars, consumerVars, observerVars, TypeOK, Counters,
           Diff, Count, Rot, WindowInv, ConsumerInv
  <2>5. SlotsInv'
    BY <1>5
       DEF PopLoad, vars, producerVars, consumerVars, observerVars, Count, Rot,
           Released, SlotsInv
  <2>6. ObserverInv'
    BY <1>5, Sizes
       DEF PopLoad, vars, producerVars, consumerVars, observerVars, TypeOK, Counters,
           Diff, Count, WindowInv, ProducerInv, ObserverInv
  <2>7. QED
    BY <2>1, <2>2, <2>3, <2>4, <2>5, <2>6
<1>6. ASSUME PopEmpty PROVE IInv'
  <2>1. TypeOK'
    BY <1>0, <1>6, Sizes, DiffType
       DEF PopEmpty, vars, producerVars, consumerVars, observerVars, TypeOK
  <2>2. WindowInv'
    BY <1>6
       DEF PopEmpty, vars, producerVars, consumerVars, observerVars, WindowInv, Count,
           Rot
  <2>3. ProducerInv'
    BY <1>6, Sizes
       DEF PopEmpty, vars, producerVars, consumerVars, observerVars, TypeOK, Counters,
           Diff, Count, WindowInv, ProducerInv
  <2>4. ConsumerInv'
    BY <1>6, Sizes
       DEF PopEmpty, vars, producerVars, consumerVars, observerVars, TypeOK, Counters,
           Diff, Count, Rot, WindowInv, ConsumerInv
  <2>5. SlotsInv'
    BY <1>6
       DEF PopEmpty, vars, producerVars, consumerVars, observerVars, Count, Rot,
           Released, SlotsInv
  <2>6. ObserverInv'
    BY <1>6, Sizes
       DEF PopEmpty, vars, producerVars, consumerVars, observerVars, TypeOK, Counters,
           Diff, Count, WindowInv, ProducerInv, ObserverInv
  <2>7. QED
    BY <2>1, <2>2, <2>3, <2>4, <2>5, <2>6
<1>7. ASSUME PopMove PROVE IInv'
  <2>1. TypeOK'
    <3>1. Count > 0 /\ cpc = "loaded"
      BY <1>0, <1>7 DEF PopMove, ConsumerInv
    <3>2. slot[Slot(tail)] \in Values
      BY <1>0, <3>1, RotNumbersSlots DEF TypeOK, SlotsInv, Released
    <3>3. QED
      BY <1>0, <1>7, <3>2
         DEF PopMove, vars, producerVars, consumerVars, observerVars, TypeOK
  <2>2. WindowInv'
    BY <1>7
       DEF PopMove, vars, producerVars, consumerVars, observerVars, WindowInv, Count,
           Rot
  <2>3. ProducerInv'
    BY <1>7, Sizes
       DEF PopMove, vars, producerVars, consumerVars, observerVars, TypeOK, Counters,
           Diff, Count, WindowInv, ProducerInv
  <2>4. ConsumerInv'
    <3>1. Count > 0
      BY <1>0, <1>7 DEF PopMove, ConsumerInv
    <3>2. QED
      BY <1>7, <3>1 DEF PopMove, producerVars, Count, ConsumerInv
  <2>5. SlotsInv'
    <3>1. Count > 0 /\ cpc = "loaded" /\ cpc' = "moved" /\ ppc' = ppc /\ pvalue' = pvalue
      BY <1>0, <1>7 DEF PopMove, ConsumerInv, producerVars
    <3>2. /\ Count' = Count /\ \A s \in Slots : Rot(s)' = Rot(s)
          /\ \A s \in Slots : ~ Released(Rot(s)) /\ ~ Released(Rot(s))'
      BY <1>7 DEF PopMove, producerVars, Count, Rot, Released
    <3>3. /\ Rot(Slot(tail)) = 0
          /\ \A s \in Slots : s # Slot(tail) => Rot(s) # 0
      BY <1>0, RotNumbersSlots DEF TypeOK
    <3>4. /\ slot'[Slot(tail)] = Husk
          /\ \A s \in Slots : s # Slot(tail) => slot'[s] = slot[s]
      BY <1>0, <1>7 DEF PopMove, TypeOK
    <3>5. QED
      BY <1>0, <3>1, <3>2, <3>3, <3>4 DEF SlotsInv
  <2>6. ObserverInv'
    BY <1>7, Sizes
       DEF PopMove, vars, producerVars, consumerVars, observerVars, TypeOK, Counters,
           Diff, Count, WindowInv, ProducerInv, ObserverInv
  <2>7. QED
    BY <2>1, <2>2, <2>3, <2>4, <2>5, <2>6
<1>8. ASSUME PopDestroy PROVE IInv'
  <2>1. TypeOK'
    BY <1>0, <1>8, Sizes, DiffType
       DEF PopDestroy, vars, producerVars, consumerVars, observerVars, TypeOK
  <2>2. WindowInv'
    BY <1>8
       DEF PopDestroy, vars, producerVars, consumerVars, observerVars, WindowInv,
           Count, Rot
  <2>3. ProducerInv'
    BY <1>8, Sizes
       DEF PopDestroy, vars, producerVars, consumerVars, observerVars, TypeOK,
           Counters, Diff, Count, WindowInv, ProducerInv
  <2>4. ConsumerInv'
    BY <1>8, Sizes
       DEF PopDestroy, vars, producerVars, consumerVars, observerVars, TypeOK,
           Counters, Diff, Count, Rot, WindowInv, ConsumerInv
  <2>5. SlotsInv'
    <3>1. /\ cpc = "moved" /\ cpc' = "destroyed" /\ ppc' = ppc /\ pvalue' = pvalue
          /\ Count > 0
      BY <1>8 DEF PopDestroy, producerVars, ConsumerInv
    <3>2. /\ Count' = Count /\ \A s \in Slots : Rot(s)' = Rot(s)
          /\ \A s \in Slots : ~ Released(Rot(s)) /\ (Released(Rot(s))' <=> Rot(s) = 0)
      BY <1>8 DEF PopDestroy, producerVars, Count, Rot, Released
    <3>3. /\ Rot(Slot(tail)) = 0
          /\ \A s \in Slots : s # Slot(tail) => Rot(s) # 0
      BY <1>0, RotNumbersSlots DEF TypeOK
    <3>4. /\ slot'[Slot(tail)] = Raw
          /\ \A s \in Slots : s # Slot(tail) => slot'[s] = slot[s]
      BY <1>0, <1>8 DEF PopDestroy, TypeOK
    <3>5. QED
      BY <1>0, <3>1, <3>2, <3>3, <3>4 DEF SlotsInv
  <2>6. ObserverInv'
    BY <1>8, Sizes
       DEF PopDestroy, vars, producerVars, consumerVars, observerVars, TypeOK,
           Counters, Diff, Count, WindowInv, ProducerInv, ObserverInv
  <2>7. QED
    BY <2>1, <2>2, <2>3, <2>4, <2>5, <2>6
<1>9. ASSUME PopPublish PROVE IInv'
  <2>1. TypeOK'
    BY <1>0, <1>9, Sizes, DiffType
       DEF PopPublish, vars, producerVars, consumerVars, observerVars, TypeOK
  <2>2. WindowInv'
    <3>1. cpc = "destroyed" /\ cpc' = "idle" /\ Count > 0 /\ Count' = Count - 1
      BY <1>0, <1>9, DiffIncFrom
         DEF PopPublish, producerVars, TypeOK, Count, ConsumerInv
    <3>2. Rot(Slot(tail')) = 1
      BY <1>9, RotInc, RotNumbersSlots, Sizes DEF PopPublish, TypeOK
    <3>3. \A s \in Slots :
            Rot(s)' = IF Rot(s) >= 1 THEN Rot(s) - 1 ELSE Rot(s) + Capacity - 1
      <4>1. 1 \in 0 .. Capacity - 1 /\ tail \in Counters /\ tail' \in Counters
        BY <2>1, Sizes DEF TypeOK
      <4>2. QED
        BY <3>2, <4>1, RotShift
    <3>4. Rot(Slot(head))' = IF Rot(Slot(head)) >= 1 THEN Rot(Slot(head)) - 1
                                                   ELSE Rot(Slot(head)) + Capacity - 1
      BY <1>0, <1>9, <3>3 DEF PopPublish, producerVars, Rot, Slot
    <3>5. QED
      BY <1>0, <3>1, <3>4, Sizes DEF WindowInv, Wrapped
  <2>3. ProducerInv'
    <3>1. Count > 0 /\ Count' = Count - 1
      BY <1>0, <1>9, DiffIncFrom DEF PopPublish, producerVars, TypeOK, Count, ConsumerInv
    <3>0. Diff(head, ptail) \in Nat
      BY DiffType, Sizes DEF TypeOK, Counters
    <3>2. ppc' = ppc /\ Diff(head, ptail)' = Diff(head, ptail) /\ Diff(head, ptail) \in Nat
      BY <1>9, <3>0 DEF PopPublish, producerVars, Diff
    <3>3. QED
      BY <1>0, <3>1, <3>2, Sizes DEF ProducerInv
  <2>4. ConsumerInv'
    BY <1>9, Sizes
       DEF PopPublish, vars, producerVars, consumerVars, observerVars, TypeOK,
           Counters, Inc, Diff, Count, Rot, WindowInv, ConsumerInv
  <2>5. SlotsInv'
    <3>1. cpc = "destroyed" /\ cpc' = "idle" /\ Count > 0 /\ Count' = Count - 1
      BY <1>0, <1>9, DiffIncFrom
         DEF PopPublish, producerVars, TypeOK, Count, ConsumerInv
    <3>2. Rot(Slot(tail')) = 1
      BY <1>9, RotInc, RotNumbersSlots, Sizes DEF PopPublish, TypeOK
    <3>3. \A s \in Slots :
            Rot(s)' = IF Rot(s) >= 1 THEN Rot(s) - 1 ELSE Rot(s) + Capacity - 1
      <4>1. 1 \in 0 .. Capacity - 1 /\ tail \in Counters /\ tail' \in Counters
        BY <2>1, Sizes DEF TypeOK
      <4>2. QED
        BY <3>2, <4>1, RotShift
    <3>4. \A s \in Slots : ~ Released(Rot(s))' /\ (Released(Rot(s)) <=> Rot(s) = 0)
      BY <3>1 DEF Released
    <3>5. slot' = slot /\ ppc' = ppc /\ pvalue' = pvalue /\ Count <= Capacity
      BY <1>9 DEF PopPublish, producerVars, WindowInv
    <3>6. ppc = "built" => Count < Capacity
      BY DEF ProducerInv
    <3>7. QED
      BY <1>0, <3>1, <3>3, <3>4, <3>5, <3>6, Sizes DEF SlotsInv
  <2>6. ObserverInv'
    BY <1>9, Sizes
       DEF PopPublish, vars, producerVars, consumerVars, observerVars, TypeOK,
           Counters, Inc, Diff, Count, WindowInv, ProducerInv, ObserverInv
  <2>7. QED
    BY <2>1, <2>2, <2>3, <2>4, <2>5, <2>6
<1>10. ASSUME ClearLoad PROVE IInv'
  <2>1. TypeOK'
    BY <1>0, <1>10, Sizes, DiffType
       DEF ClearLoad, vars, producerVars, consumerVars, observerVars, TypeOK
  <2>2. WindowInv'
    BY <1>10
       DEF ClearLoad, vars, producerVars, consumerVars, observerVars, WindowInv,
           Count, Rot
  <2>3. ProducerInv'
    BY <1>10, Sizes
       DEF ClearLoad, vars, producerVars, consumerVars, observerVars, TypeOK,
           Counters, Diff, Count, WindowInv, ProducerInv
  <2>4. ConsumerInv'
    <3>1. Diff(tail, tail) = 0 /\ Rot(Slot(tail)) = 0 /\ Diff(head, tail) \in Nat
      BY DiffType, RotNumbersSlots DEF TypeOK, Counters
    <3>2. /\ ctail' = tail /\ chead' = head /\ tail' = tail /\ head' = head
          /\ cpc' = "clearing"
      BY <1>10 DEF ClearLoad, producerVars
    <3>3. QED
      BY <3>1, <3>2, Sizes DEF ConsumerInv, Count, Rot, Wrapped
  <2>5. SlotsInv'
    <3>1. Diff(tail, tail) = 0
      BY DiffType DEF TypeOK
    <3>2. \A s \in Slots : ~ Released(Rot(s)) /\ ~ Released(Rot(s))' /\ Rot(s)' = Rot(s)
      BY <1>0, <1>10, <3>1 DEF ClearLoad, Released, Rot
    <3>3. /\ Count' = Count /\ slot' = slot /\ ppc' = ppc /\ pvalue' = pvalue
          /\ cpc = "idle" /\ cpc' = "clearing"
      BY <1>10 DEF ClearLoad, producerVars, Count
    <3>4. QED
      BY <3>2, <3>3 DEF SlotsInv
  <2>6. ObserverInv'
    BY <1>10, Sizes
       DEF ClearLoad, vars, producerVars, consumerVars, observerVars, TypeOK,
           Counters, Diff, Count, WindowInv, ProducerInv, ObserverInv
  <2>7. QED
    BY <2>1, <2>2, <2>3, <2>4, <2>5, <2>6
<1>11. ASSUME ClearDestroy PROVE IInv'
  <2>1. TypeOK'
    BY <1>0, <1>11, Sizes, DiffType
       DEF ClearDestroy, vars, producerVars, consumerVars, observerVars, TypeOK
  <2>2. WindowInv'
    BY <1>11
       DEF ClearDestroy, vars, producerVars, consumerVars, observerVars, WindowInv,
           Count, Rot
  <2>3. ProducerInv'
    BY <1>11, Sizes
       DEF ClearDestroy, vars, producerVars, consumerVars, observerVars, TypeOK,
           Counters, Diff, Count, WindowInv, ProducerInv
  <2>4. ConsumerInv'
    <3>1. /\ cpc = "clearing" /\ ctail \in Counters /\ tail \in Counters /\ chead \in Counters
          /\ Diff(ctail, tail) < Diff(chead, tail) /\ Diff(chead, tail) <= Count
          /\ Rot(Slot(ctail)) = Diff(ctail, tail)
          /\ Diff(ctail, tail) \in Nat /\ Diff(chead, tail) \in Nat
      BY <1>0, <1>11, Sizes, DiffCompare
         DEF ClearDestroy, ConsumerInv, WindowInv, TypeOK, Wrapped
    <3>2. Diff(Inc(ctail), tail) = Diff(ctail, tail) + 1
      BY <1>0, <3>1, DiffIncTo, Sizes DEF WindowInv
    <3>3. /\ cpc' = "clearing" /\ ctail' = Inc(ctail) /\ tail' = tail /\ chead' = chead
          /\ head' = head /\ ppc' = ppc /\ pvalue' = pvalue
      BY <1>11 DEF ClearDestroy, producerVars
    <3>4. Rot(Slot(ctail))' = Rot(Slot(Inc(ctail)))
      BY <3>3 DEF Rot
    <3>5. Rot(Slot(Inc(ctail))) = Wrapped(Diff(ctail, tail) + 1)
      BY <3>1, RotInc DEF Wrapped
    <3>6. QED
      BY <3>1, <3>2, <3>3, <3>4, <3>5 DEF ConsumerInv, Count
  <2>5. SlotsInv'
    <3>1. /\ cpc = "clearing" /\ ctail \in Counters /\ tail \in Counters /\ chead \in Counters
          /\ Diff(ctail, tail) < Diff(chead, tail) /\ Diff(chead, tail) <= Count
          /\ Rot(Slot(ctail)) = Diff(ctail, tail)
          /\ Diff(ctail, tail) \in Nat /\ Diff(chead, tail) \in Nat
      BY <1>0, <1>11, Sizes, DiffCompare
         DEF ClearDestroy, ConsumerInv, WindowInv, TypeOK, Wrapped
    <3>2. Diff(Inc(ctail), tail) = Diff(ctail, tail) + 1
      BY <1>0, <3>1, DiffIncTo, Sizes DEF WindowInv
    <3>3. /\ cpc' = "clearing" /\ ctail' = Inc(ctail) /\ tail' = tail /\ chead' = chead
          /\ head' = head /\ ppc' = ppc /\ pvalue' = pvalue
      BY <1>11 DEF ClearDestroy, producerVars
    <3>4. /\ Count' = Count /\ \A s \in Slots : Rot(s)' = Rot(s)
          /\ \A s \in Slots : /\ Released(Rot(s)) <=> Rot(s) < Diff(ctail, tail)
                            /\ Released(Rot(s))' <=> Rot(s) <= Diff(ctail, tail)
      BY <1>0, <3>1, <3>2, <3>3 DEF Count, Rot, Released
    <3>5. /\ slot'[Slot(ctail)] = Raw
          /\ \A s \in Slots : s # Slot(ctail) => slot'[s] = slot[s]
      BY <1>0, <1>11 DEF ClearDestroy, TypeOK
    <3>6. \A s \in Slots : s # Slot(ctail) => Rot(s) # Diff(ctail, tail)
      BY <1>0, <3>1, RotNumbersSlots
    <3>7. ppc = "built" => Diff(ctail, tail) < Count
      BY <1>0, <3>1
    <3>8. ASSUME NEW s \in Slots, s = Slot(ctail)
          PROVE  Rot(s) < Count /\ slot'[s] = Raw /\ Released(Rot(s))'
      BY <1>0, <3>1, <3>4, <3>5, <3>8
    <3>0. ASSUME NEW s \in Slots, s # Slot(ctail)
          PROVE  slot'[s] = slot[s] /\ (Released(Rot(s))' <=> Released(Rot(s)))
      <4>1. Rot(s) < Diff(ctail, tail) <=> Rot(s) <= Diff(ctail, tail)
        BY <1>0, <3>1, <3>6, <3>0
      <4>2. Released(Rot(s))' <=> Released(Rot(s))
        BY <1>0, <3>1, <3>2, <3>3, <3>4, <4>1 DEF Released
      <4>3. QED
        BY <3>5, <3>0, <4>2
    <3>10. QED
      BY <1>0, <3>1, <3>3, <3>4, <3>8, <3>0 DEF SlotsInv
  <2>6. ObserverInv'
    BY <1>11, Sizes
       DEF ClearDestroy, vars, producerVars, consumerVars, observerVars, TypeOK,
           Counters, Diff, Count, WindowInv, ProducerInv, ObserverInv
  <2>7. QED
    BY <2>1, <2>2, <2>3, <2>4, <2>5, <2>6
<1>12. ASSUME ClearPublish PROVE IInv'
  <2>1. TypeOK'
    BY <1>0, <1>12, Sizes, DiffType
       DEF ClearPublish, vars, producerVars, consumerVars, observerVars, TypeOK
  <2>2. WindowInv'
    <3> DEFINE k == Diff(ctail, tail)
    <3>1. /\ cpc = "clearing" /\ cpc' = "idle" /\ tail' = ctail /\ ctail = chead
          /\ head' = head /\ ppc' = ppc /\ pvalue' = pvalue /\ slot' = slot
      BY <1>12 DEF ClearPublish, producerVars
    <3>2. k \in Nat /\ k <= Count /\ Count <= Capacity /\ Rot(Slot(ctail)) = Wrapped(k)
      <4>1. ctail \in Counters /\ tail \in Counters /\ chead \in Counters
        BY DEF TypeOK
      <4>2. k \in Nat
        BY <4>1, DiffType DEF Counters
      <4>3. Diff(ctail, tail) = Diff(chead, tail) /\ Diff(chead, tail) <= Count
            /\ Rot(Slot(ctail)) = Wrapped(Diff(ctail, tail))
        BY <3>1 DEF ConsumerInv
      <4>4. QED
        BY <4>2, <4>3 DEF WindowInv
    <3>3. Count' = Count - k
      BY <3>1, <3>2, DiffCompare DEF TypeOK, Count
    <3>4. Wrapped(k) \in 0 .. Capacity - 1
      BY <1>0, <3>2, Sizes DEF Wrapped
    <3>5. \A s \in Slots : Rot(s)' = IF Rot(s) >= Wrapped(k) THEN Rot(s) - Wrapped(k)
                                      ELSE Rot(s) + Capacity - Wrapped(k)
      BY <3>1, <3>2, <3>4, RotShift DEF TypeOK
    <3>6. Rot(Slot(head))' = IF Rot(Slot(head)) >= Wrapped(k) THEN Rot(Slot(head)) - Wrapped(k)
                              ELSE Rot(Slot(head)) + Capacity - Wrapped(k)
      BY <1>0, <3>1, <3>5 DEF Rot, Slot
    <3>7. QED
      BY <1>0, <3>2, <3>3, <3>6, Sizes DEF WindowInv, Wrapped
  <2>3. ProducerInv'
    <3>1. ctail = chead /\ tail' = ctail /\ head' = head /\ ppc' = ppc /\ ptail' = ptail
      BY <1>12 DEF ClearPublish, producerVars
    <3>2. Diff(ctail, tail) \in Nat /\ Diff(ctail, tail) <= Count
      BY <1>0, <1>12 DEF ClearPublish, ConsumerInv
    <3>3. Count' = Count - Diff(ctail, tail)
      BY <3>1, <3>2, DiffCompare DEF TypeOK, Count
    <3>0. Diff(head, ptail) \in Nat
      BY DiffType, Sizes DEF TypeOK, Counters
    <3>4. Diff(head, ptail)' = Diff(head, ptail) /\ Diff(head, ptail) \in Nat
      BY <3>1, <3>0 DEF Diff
    <3>5. QED
      BY <1>0, <3>1, <3>2, <3>3, <3>4, Sizes DEF ProducerInv
  <2>4. ConsumerInv'
    BY <1>12, Sizes
       DEF ClearPublish, vars, producerVars, consumerVars, observerVars, TypeOK,
           Counters, Inc, Diff, Count, Rot, WindowInv, ConsumerInv
  <2>5. SlotsInv'
    <3> DEFINE k == Diff(ctail, tail)
    <3>1. /\ cpc = "clearing" /\ cpc' = "idle" /\ tail' = ctail /\ ctail = chead
          /\ head' = head /\ ppc' = ppc /\ pvalue' = pvalue /\ slot' = slot
      BY <1>12 DEF ClearPublish, producerVars
    <3>2. k \in Nat /\ k <= Count /\ Count <= Capacity /\ Rot(Slot(ctail)) = Wrapped(k)
      <4>1. ctail \in Counters /\ tail \in Counters /\ chead \in Counters
        BY DEF TypeOK
      <4>2. k \in Nat
        BY <4>1, DiffType DEF Counters
      <4>3. Diff(ctail, tail) = Diff(chead, tail) /\ Diff(chead, tail) <= Count
            /\ Rot(Slot(ctail)) = Wrapped(Diff(ctail, tail))
        BY <3>1 DEF ConsumerInv
      <4>4. QED
        BY <4>2, <4>3 DEF WindowInv
    <3>3. Count' = Count - k
      BY <3>1, <3>2, DiffCompare DEF TypeOK, Count
    <3>4. Wrapped(k) \in 0 .. Capacity - 1
      BY <1>0, <3>2, Sizes DEF Wrapped
    <3>5. \A s \in Slots : Rot(s)' = IF Rot(s) >= Wrapped(k) THEN Rot(s) - Wrapped(k)
                                      ELSE Rot(s) + Capacity - Wrapped(k)
      BY <3>1, <3>2, <3>4, RotShift DEF TypeOK
    <3>6. \A s \in Slots : ~ Released(Rot(s))' /\ (Released(Rot(s)) <=> Rot(s) < k)
      BY <3>1 DEF Released
    <3>7. ppc = "built" => Count < Capacity
      BY DEF ProducerInv
    <3>8. ASSUME NEW s \in Slots, k < Capacity, Rot(s) >= k
          PROVE  Rot(s)' = Rot(s) - k /\ ~ Released(Rot(s)) /\ ~ Released(Rot(s))'
      BY <3>5, <3>6, <3>8, <3>2, <1>0 DEF Wrapped
    <3>0. ASSUME NEW s \in Slots, k < Capacity, Rot(s) < k
          PROVE  Rot(s)' = Rot(s) + Capacity - k /\ slot[s] = Raw
      BY <1>0, <3>1, <3>2, <3>5, <3>6, <3>0 DEF Wrapped, SlotsInv
    <3>10. ASSUME NEW s \in Slots, k = Capacity
           PROVE  Rot(s)' = Rot(s) /\ slot[s] = Raw /\ Count = Capacity
      BY <1>0, <3>1, <3>2, <3>5, <3>6, <3>10, Sizes DEF Wrapped, SlotsInv
    <3>11. CASE k < Capacity
      BY <1>0, <3>1, <3>2, <3>3, <3>6, <3>7, <3>8, <3>0, <3>11, Sizes DEF SlotsInv
    <3>12. CASE k = Capacity
      BY <1>0, <3>1, <3>2, <3>3, <3>6, <3>7, <3>10, <3>12, Sizes DEF SlotsInv
    <3>13. QED
      BY <1>0, <3>2, <3>11, <3>12, Sizes
  <2>6. ObserverInv'
    BY <1>12, Sizes
       DEF ClearPublish, vars, producerVars, consumerVars, observerVars, TypeOK,
           Counters, Inc, Diff, Count, WindowInv, ProducerInv, ObserverInv
  <2>7. QED
    BY <2>1, <2>2, <2>3, <2>4, <2>5, <2>6
<1>13. ASSUME NEW t \in Observers, SizeLoad(t) PROVE IInv'
  <2>1. TypeOK'
    BY <1>0, <1>13, Sizes, DiffType
       DEF SizeLoad, vars, producerVars, consumerVars, observerVars, TypeOK
  <2>2. WindowInv'
    BY <1>13
       DEF SizeLoad, vars, producerVars, consumerVars, observerVars, WindowInv, Count,
           Rot
  <2>3. ProducerInv'
    BY <1>13, Sizes
       DEF SizeLoad, vars, producerVars, consumerVars, observerVars, TypeOK, Counters,
           Diff, Count, WindowInv, ProducerInv
  <2>4. ConsumerInv'
    BY <1>13, Sizes
       DEF SizeLoad, vars, producerVars, consumerVars, observerVars, TypeOK, Counters,
           Diff, Count, Rot, WindowInv, ConsumerInv
  <2>5. SlotsInv'
    BY <1>13
       DEF SizeLoad, vars, producerVars, consumerVars, observerVars, Count, Rot,
           Released, SlotsInv
  <2>6. ObserverInv'
    BY <1>13, Sizes
       DEF SizeLoad, vars, producerVars, consumerVars, observerVars, TypeOK, Counters,
           Diff, Count, WindowInv, ProducerInv, ObserverInv
  <2>7. QED
    BY <2>1, <2>2, <2>3, <2>4, <2>5, <2>6
<1>14. ASSUME SizeReturn PROVE IInv'
  <2>1. TypeOK'
    BY <1>0, <1>14, Sizes, DiffType
       DEF SizeReturn, vars, producerVars, consumerVars, observerVars, TypeOK
  <2>2. WindowInv'
    BY <1>14
       DEF SizeReturn, vars, producerVars, consumerVars, observerVars, WindowInv,
           Count, Rot
  <2>3. ProducerInv'
    BY <1>14, Sizes
       DEF SizeReturn, vars, producerVars, consumerVars, observerVars, TypeOK,
           Counters, Diff, Count, WindowInv, ProducerInv
  <2>4. ConsumerInv'
    BY <1>14, Sizes
       DEF SizeReturn, vars, producerVars, consumerVars, observerVars, TypeOK,
           Counters, Diff, Count, Rot, WindowInv, ConsumerInv
  <2>5. SlotsInv'
    BY <1>14
       DEF SizeReturn, vars, producerVars, consumerVars, observerVars, Count, Rot,
           Released, SlotsInv
  <2>6. ObserverInv'
    BY <1>14, Sizes
       DEF SizeReturn, vars, producerVars, consumerVars, observerVars, TypeOK,
           Counters, Diff, Count, WindowInv, ProducerInv, ObserverInv
  <2>7. QED
    BY <2>1, <2>2, <2>3, <2>4, <2>5, <2>6
<1>15. CASE UNCHANGED vars
  BY <1>15
     DEF vars, producerVars, consumerVars, observerVars, TypeOK, WindowInv,
         ProducerInv, ConsumerInv, SlotsInv,
       ObserverInv, Count, Rot, Released
<1>16. QED
  BY <1>1, <1>2, <1>3, <1>4, <1>5, <1>6, <1>7, <1>8, <1>9, <1>10, <1>11, <1>12, <1>13,
     <1>14, <1>15
     DEF Next, Producer, Consumer, Observer

\* The inductive invariant holds in every reachable state.
LEMMA IInvCorrect == Spec => []IInv
<1>1. Init => IInv
  BY InitIInv
<1>2. IInv /\ [Next]_vars => IInv'
  BY StepIInv
<1>3. QED
  BY <1>1, <1>2, PTL DEF Spec

\* The load of head_ by pop() acquires all that is published, and the
\* producer constructs beyond it.
LEMMA StepSeen == IInv /\ SeenInv /\ [Next]_vars => SeenInv'
<1> SUFFICES ASSUME IInv, SeenInv, [Next]_vars, cpc' = "loaded", NEW s \in unseen'
             PROVE  Rot(s)' >= Diff(chead, tail)'
  BY DEF SeenInv
<1>0. /\ tail \in Counters /\ head \in Counters /\ Slot(head) \in Slots
      /\ Count \in Nat /\ Count <= Capacity /\ Rot(Slot(head)) = Wrapped(Count)
      /\ Diff(head, ptail) \in Nat
  <2>1. head \in Counters /\ ptail \in Counters /\ tail \in Counters
    BY DEF IInv, TypeOK
  <2>2. Diff(head, ptail) \in Nat
    BY <2>1, DiffType, Sizes DEF Counters
  <2>3. QED
    BY <2>1, <2>2, StepFacts DEF IInv, WindowInv
<1>1. CASE PopLoad
  <2>1. ppc = "built" /\ s = Slot(head) /\ chead' = head /\ tail' = tail
    BY <1>1 DEF PopLoad
  <2>2. Rot(s)' = Rot(s) /\ Diff(chead, tail)' = Count
    BY <2>1 DEF Rot, Diff, Slot, Count
  <2>3. Count < Capacity
    BY <2>1 DEF IInv, ProducerInv
  <2>4. Rot(s) = Count
    BY <1>0, <2>1, <2>3, Sizes DEF Wrapped
  <2>5. QED
    BY <1>0, <2>2, <2>4
<1>2. CASE PushConstruct
  <2>1. /\ cpc = "loaded" /\ chead' = chead /\ tail' = tail
        /\ \/ s \in unseen
           \/ s = Slot(head) /\ ppc = "loaded" /\ Diff(head, ptail) < Capacity
    BY <1>2 DEF PushConstruct, consumerVars
  <2>2. Rot(s)' = Rot(s) /\ Diff(chead, tail)' = Diff(chead, tail)
    BY <2>1 DEF Rot, Diff, Slot
  <2>3. CASE s \in unseen
    BY <2>1, <2>2, <2>3 DEF SeenInv
  <2>4. CASE s \notin unseen
    <3>1. Count <= Diff(head, ptail) /\ Diff(chead, tail) <= Count
      BY <2>1, <2>4 DEF IInv, ProducerInv, ConsumerInv
    <3>2. Count < Capacity /\ Diff(chead, tail) \in Nat
      BY <1>0, <2>1, <2>4, <3>1, StepFacts, Sizes DEF IInv
    <3>3. Rot(s) = Count
      BY <1>0, <2>1, <2>4, <3>2, Sizes DEF Wrapped
    <3>4. QED
      BY <1>0, <2>2, <3>1, <3>2, <3>3
  <2>5. QED
    BY <2>3, <2>4
<1>3. CASE ~ PopLoad /\ ~ PushConstruct
  <2>1. cpc = "loaded" /\ chead' = chead /\ tail' = tail /\ unseen' = unseen
    BY <1>3 DEF Next, Producer, Consumer, Observer, PushLoad, PushFull, PushPublish,
         PopEmpty, PopMove, PopDestroy, PopPublish, ClearLoad, ClearDestroy, ClearPublish,
         SizeLoad, SizeReturn, vars, producerVars, consumerVars, observerVars
  <2>2. Rot(s)' = Rot(s) /\ Diff(chead, tail)' = Diff(chead, tail)
    BY <2>1 DEF Rot, Diff, Slot
  <2>3. QED
    BY <2>1, <2>2 DEF SeenInv
<1>4. QED
  BY <1>1, <1>2, <1>3

LEMMA SeenCorrect == Spec => []SeenInv
<1>1. Init => SeenInv
  BY DEF Init, SeenInv
<1>2. QED
  BY <1>1, StepSeen, IInvCorrect, PTL DEF Spec

-----------------------------------------------------------------------------
(* The theorems.                                                           *)

\* Every variable has its type; in particular pop() hands over only values
\* that were posted, never a destroyed or moved-from slot.
THEOREM TypeCorrect == Spec => []TypeOK
<1>1. IInv => TypeOK
  BY DEF IInv
<1>2. QED
  BY <1>1, IInvCorrect, PTL

\* For every capacity and counter width, an element is only constructed in
\* a raw slot; pop() moves from and destroys only elements whose construction
\* it has synchronised with, and clear() only live ones among those that an
\* earlier pop() has acquired.
THEOREM LifetimesCorrect == Spec => []LifetimesDisjoint
<1>1. ASSUME IInv, SeenInv PROVE LifetimesDisjoint
  <2> USE <1>1 DEF IInv
  <2>1. /\ \A c \in {head, tail, chead, ctail} : Inc(c) \in Counters /\ Slot(c) \in Slots
        /\ \A s \in Slots : Rot(s) \in 0 .. Capacity - 1
        /\ Count \in Nat
        /\ \A c \in {chead, ctail} : Diff(c, tail) \in Nat /\ (Diff(c, tail) = 0 <=> c = tail)
    BY StepFacts
  <2>2. ASSUME ppc = "loaded", Diff(head, ptail) < Capacity
        PROVE  slot[Slot(head)] = Raw
    <3>1. Diff(head, ptail) \in Nat
      BY DiffType, Sizes DEF TypeOK, Counters
    <3>2. Count < Capacity /\ Rot(Slot(head)) = Count
      BY <2>1, <2>2, <3>1, Sizes DEF ProducerInv, WindowInv, Wrapped
    <3>3. QED
      BY <2>1, <2>2, <3>2 DEF SlotsInv
  <2>3. ASSUME cpc = "loaded", tail # chead
        PROVE  slot[Slot(tail)] \in Values /\ Slot(tail) \notin unseen
    <3>1. Count > 0 /\ Diff(chead, tail) > 0
      BY <2>1, <2>3 DEF ConsumerInv
    <3>2. slot[Slot(tail)] \in Values
      BY <2>1, <2>3, <3>1, RotNumbersSlots DEF SlotsInv, Released, TypeOK
    <3>3. Rot(Slot(tail)) = 0
      BY RotNumbersSlots DEF TypeOK
    <3>4. QED
      BY <2>1, <2>3, <3>1, <3>2, <3>3 DEF SeenInv
  <2>4. ASSUME cpc = "clearing", ctail # chead
        PROVE  slot[Slot(ctail)] \in Values
    <3>1. /\ Diff(ctail, tail) < Count /\ Count <= Capacity
          /\ Rot(Slot(ctail)) = Diff(ctail, tail)
      BY <2>1, <2>4, Sizes, DiffCompare DEF ConsumerInv, WindowInv, TypeOK, Wrapped
    <3>2. QED
      BY <2>1, <2>4, <3>1 DEF SlotsInv, Released
  <2>5. QED
    BY <2>2, <2>3, <2>4 DEF LifetimesDisjoint
<1>2. QED
  BY <1>1, IInvCorrect, SeenCorrect, PTL

\* The queue never holds more than Capacity elements, and size() called by
\* the producer or by the consumer never reports more.  A third thread is
\* excluded by the hypothesis: it loads the two counters one after the other
\* and may add up elements that were never queued together.
THEOREM SizeCorrect ==
  ASSUME "reader" \notin Observers
  PROVE  Spec => []SizeWithinCapacity
<1> DEFINE Reported == osize <= Capacity
<1>1. Init => Reported
  BY Sizes DEF Init
<1>2. IInv /\ Reported /\ [Next]_vars => Reported'
  <2> SUFFICES ASSUME IInv, Reported, [Next]_vars PROVE Reported'
    OBVIOUS
  <2>1. CASE SizeReturn
    <3>1. observer \in {"producer", "consumer"}
      BY <2>1, SpscRingAssumption DEF SizeReturn, IInv, TypeOK, Assumptions
    <3>2. CASE observer = "producer"
      BY <2>1, <3>2 DEF SizeReturn, IInv, ObserverInv, WindowInv, Count
    <3>3. CASE observer = "consumer"
      <4>1. Diff(ohead, tail) \in Nat /\ Count \in Nat
        <5>1. Diff(ohead, tail) \in Counters /\ Count \in Counters
          BY DiffType DEF IInv, TypeOK, Count
        <5>2. QED
          BY <5>1, Sizes DEF Counters
      <4>2. QED
        BY <2>1, <3>3, <4>1, Sizes DEF SizeReturn, IInv, ObserverInv, WindowInv
    <3>4. QED
      BY <3>1, <3>2, <3>3
  <2>2. CASE ~ SizeReturn
    BY <2>2 DEF Next, Producer, Consumer, Observer, PushLoad, PushFull, PushConstruct,
         PushPublish, PopLoad, PopEmpty, PopMove, PopDestroy, PopPublish, ClearLoad,
         ClearDestroy, ClearPublish, SizeLoad, vars, observerVars
  <2>3. QED
    BY <2>1, <2>2
<1>3. IInv /\ Reported => SizeWithinCapacity
  BY DEF IInv, WindowInv, Count, SizeWithinCapacity
<1>4. QED
  BY <1>1, <1>2, <1>3, IInvCorrect, PTL DEF Spec

-----------------------------------------------------------------------------
(* The occupied slots.                                                     *)

\* Adding less than a whole round moves the remainder round.
LEMMA RemainderPlus ==
  ASSUME NEW k \in Nat, k > 0, NEW n \in Int, NEW m \in 0 .. k - 1
  PROVE  (n + m) % k = IF (n % k) + m >= k THEN (n % k) + m - k ELSE (n % k) + m
<1> DEFINE q == n \div k
           r == n % k
<1>1. n = k * q + r /\ q \in Int /\ r \in 0 .. k - 1
  OBVIOUS
<1>2. CASE r + m >= k
  <2>1. n + m = k * (q + 1) + (r + m - k) /\ q + 1 \in Int /\ r + m - k \in 0 .. k - 1
    BY <1>1, <1>2
  <2>2. (k * (q + 1) + (r + m - k)) % k = r + m - k
    BY <2>1, RemainderOf
  <2>3. QED
    BY <1>2, <2>1, <2>2
<1>3. CASE ~ (r + m >= k)
  <2>1. n + m = k * q + (r + m) /\ r + m \in 0 .. k - 1
    BY <1>1, <1>3
  <2>2. (k * q + (r + m)) % k = r + m
    BY <1>1, <2>1, RemainderOf
  <2>3. QED
    BY <1>3, <2>1, <2>2
<1>4. QED
  BY <1>2, <1>3

\* Taking a whole number of rounds away leaves the remainder.
LEMMA RemainderMinus ==
  ASSUME NEW k \in Nat, k > 0, NEW n \in Int, NEW m \in Int, m % k = 0
  PROVE  (n - m) % k = n % k
<1> DEFINE q == n \div k
           r == n % k
           p == m \div k
<1>1. /\ n = k * q + r /\ q \in Int /\ r \in 0 .. k - 1
      /\ m = k * p /\ p \in Int
  OBVIOUS
<1>2. n - m = k * (q - p) + r /\ q - p \in Int
  BY <1>1
<1>3. (k * (q - p) + r) % k = r
  BY <1>1, <1>2, RemainderOf
<1>4. QED
  BY <1>2, <1>3

\* The slot n places after tail has rotation n.
LEMMA RotPlus ==
  ASSUME tail \in Counters, NEW n \in 0 .. Capacity - 1
  PROVE  Slot(Plus(tail, n)) \in Slots /\ Rot(Slot(Plus(tail, n))) = n
<1>1. /\ tail \in Int /\ n \in Int /\ n >= 0 /\ tail >= 0 /\ tail < Modulus
      /\ Capacity \in Nat /\ Capacity > 1 /\ Modulus \in Nat /\ Modulus > Capacity
      /\ Modulus % Capacity = 0
  BY Sizes DEF Counters
<1>2. Slot(tail + n) = IF Slot(tail) + n >= Capacity THEN Slot(tail) + n - Capacity
                                                     ELSE Slot(tail) + n
  <2>1. (tail + n) % Capacity = IF (tail % Capacity) + n >= Capacity
                                THEN (tail % Capacity) + n - Capacity
                                ELSE (tail % Capacity) + n
    <3>1. Capacity > 0
      BY <1>1
    <3>2. QED
      BY <1>1, <3>1, RemainderPlus
  <2>2. QED
    BY <2>1 DEF Slot
<1>3. Slot(Plus(tail, n)) = Slot(tail + n)
  <2>1. CASE tail + n >= Modulus
    <3> DEFINE c == tail + n
    <3>1. c \in Int /\ Modulus \in Int /\ Capacity > 0
      BY <1>1
    <3>2. (c - Modulus) % Capacity = c % Capacity
      <4> HIDE DEF c
      <4>1. \A x, m \in Int : m % Capacity = 0 => (x - m) % Capacity = x % Capacity
        BY <1>1, <3>1, RemainderMinus
      <4>2. QED
        BY <1>1, <3>1, <4>1
    <3>3. Plus(tail, n) = c - Modulus
      BY <1>1, <2>1 DEF Plus
    <3>4. QED
      BY <3>2, <3>3 DEF Slot
  <2>2. CASE ~ (tail + n >= Modulus)
    BY <2>2 DEF Plus
  <2>3. QED
    BY <2>1, <2>2
<1>4. Slot(tail) \in 0 .. Capacity - 1
  BY CounterTypes DEF Slots
<1>5. QED
  BY <1>1, <1>2, <1>3, <1>4 DEF Rot, Slots

\* Between calls the live objects are those from tail to head, for every
\* capacity and counter width: what ~spsc_ring_buffer destroys is all there is.
THEOREM LiveCorrect == Spec => []LiveExactlyOccupied
<1>1. ASSUME IInv PROVE LiveExactlyOccupied
  <2> SUFFICES ASSUME ppc = "idle", cpc = "idle", NEW s \in Slots
               PROVE  slot[s] \in Values
                        <=> \E n \in 0 .. Count - 1 : Slot(Plus(tail, n)) = s
    BY DEF LiveExactlyOccupied, Count
  <2>1. /\ tail \in Counters /\ Count \in Nat /\ Count <= Capacity
        /\ Rot(s) \in 0 .. Capacity - 1
    BY <1>1, StepFacts DEF IInv, TypeOK, WindowInv
  <2>2. slot[s] \in Values <=> Rot(s) < Count
    BY <1>1, <2>1, Sizes DEF IInv, SlotsInv, Released
  <2>3. \A n \in 0 .. Count - 1 : Slot(Plus(tail, n)) = s <=> Rot(s) = n
    <3> SUFFICES ASSUME NEW n \in 0 .. Count - 1
                 PROVE  Slot(Plus(tail, n)) = s <=> Rot(s) = n
      OBVIOUS
    <3>1. Slot(Plus(tail, n)) \in Slots /\ Rot(Slot(Plus(tail, n))) = n
      BY <2>1, RotPlus, Sizes
    <3>2. QED
      BY <2>1, <3>1, RotNumbersSlots
  <2>4. QED
    BY <2>1, <2>2, <2>3
<1>2. QED
  BY <1>1, IInvCorrect, PTL

-----------------------------------------------------------------------------
(* The refinement.  A step that publishes is a step of the abstract queue; *)
(* every other step writes slots outside the contents only.                *)

\* What the slots of the contents are, counted from tail.
LEMMA ContentsFacts ==
  ASSUME IInv
  PROVE  /\ Unclaimed \in Counters /\ head \in Counters
         /\ Diff(Unclaimed, tail) \in Nat /\ Diff(Unclaimed, tail) <= Count
         /\ Diff(head, Unclaimed) = Count - Diff(Unclaimed, tail)
         /\ Count \in Nat /\ Count <= Capacity
         /\ \A m \in Nat : m < Diff(head, Unclaimed) =>
              /\ Slot(Plus(Unclaimed, m)) \in Slots
              /\ Rot(Slot(Plus(Unclaimed, m))) = Diff(Unclaimed, tail) + m
<1> DEFINE u == Diff(Unclaimed, tail)
<1>1. /\ tail \in Counters /\ head \in Counters /\ chead \in Counters
      /\ Inc(tail) \in Counters /\ Count \in Nat /\ Count <= Capacity
      /\ cpc \in {"idle", "loaded", "moved", "destroyed", "clearing"}
      /\ Diff(chead, tail) \in Nat
  BY StepFacts DEF IInv, TypeOK, WindowInv
<1>2. Unclaimed \in Counters /\ u \in Nat /\ u <= Count
  <2>1. CASE cpc \in {"moved", "destroyed"}
    <3>1. Unclaimed = Inc(tail) /\ Count > 0
      BY <2>1 DEF Unclaimed, IInv, ConsumerInv
    <3>2. Diff(tail, tail) = 0
      BY <1>1, DiffType
    <3>3. Diff(Inc(tail), tail) = 1
      BY <1>1, <3>2, DiffIncTo, Sizes
    <3>4. QED
      BY <1>1, <3>1, <3>3
  <2>2. CASE cpc = "clearing"
    BY <1>1, <2>2 DEF Unclaimed, IInv, ConsumerInv
  <2>3. CASE cpc \in {"idle", "loaded"}
    <3>1. Unclaimed = tail /\ Diff(tail, tail) = 0
      BY <1>1, <2>3, DiffType DEF Unclaimed
    <3>2. QED
      BY <1>1, <3>1
  <2>4. QED
    BY <1>1, <2>1, <2>2, <2>3
<1>3. Diff(head, Unclaimed) = Count - u
  BY <1>1, <1>2, DiffCompare DEF Count
<1>4. ASSUME NEW m \in Nat, m < Diff(head, Unclaimed)
      PROVE  /\ Slot(Plus(Unclaimed, m)) \in Slots
             /\ Rot(Slot(Plus(Unclaimed, m))) = u + m
  <2>1. u + m \in 0 .. Capacity - 1
    BY <1>1, <1>2, <1>3, <1>4, Sizes
  <2>2. Plus(Unclaimed, m) = Plus(tail, u + m)
    <3> HIDE DEF Unclaimed
    <3>1. QED
      BY <1>1, <1>2, <2>1, Sizes DEF Plus, Diff, Counters
  <2>3. QED
    BY <1>1, <2>1, <2>2, RotPlus
<1>5. QED
  BY <1>1, <1>2, <1>3, <1>4

\* The contents only depend on their own slots.
LEMMA ContentsKept ==
  ASSUME IInv, head' = head, Unclaimed' = Unclaimed,
         \A s \in Slots : Diff(Unclaimed, tail) <= Rot(s) /\ Rot(s) < Count
                            => slot'[s] = slot[s]
  PROVE  Contents' = Contents
<1>1. Diff(head, Unclaimed)' = Diff(head, Unclaimed)
  BY DEF Diff
<1>2. Contents' = [i \in 1 .. Diff(head, Unclaimed) |-> slot'[Slot(Plus(Unclaimed, i - 1))]]
  BY <1>1 DEF Contents, Slot, Plus
<1>3. ASSUME NEW i \in 1 .. Diff(head, Unclaimed)
      PROVE  slot'[Slot(Plus(Unclaimed, i - 1))] = slot[Slot(Plus(Unclaimed, i - 1))]
  <2>1. i - 1 \in Nat /\ i - 1 < Diff(head, Unclaimed)
    BY <1>3, ContentsFacts
  <2>2. /\ Slot(Plus(Unclaimed, i - 1)) \in Slots
        /\ Rot(Slot(Plus(Unclaimed, i - 1))) = Diff(Unclaimed, tail) + (i - 1)
    BY <2>1, ContentsFacts
  <2>3. QED
    BY <2>1, <2>2, ContentsFacts
<1>4. QED
  BY <1>2, <1>3 DEF Contents

\* Every step is a step of the queue or leaves it alone.
LEMMA StepRefines == IInv /\ [Next]_vars => [Fifo!FifoNext]_(Fifo!fifoVars)
<1> SUFFICES ASSUME IInv, [Next]_vars PROVE Fifo!FifoNext \/ UNCHANGED <<Contents, out>>
  BY DEF Fifo!fifoVars
<1>0. /\ Unclaimed \in Counters /\ head \in Counters
      /\ Diff(Unclaimed, tail) \in Nat /\ Diff(Unclaimed, tail) <= Count
      /\ Diff(head, Unclaimed) = Count - Diff(Unclaimed, tail)
      /\ Count \in Nat /\ Count <= Capacity
      /\ \A m \in Nat : m < Diff(head, Unclaimed) =>
           /\ Slot(Plus(Unclaimed, m)) \in Slots
           /\ Rot(Slot(Plus(Unclaimed, m))) = Diff(Unclaimed, tail) + m
  BY ContentsFacts
<1>1. /\ tail \in Counters /\ chead \in Counters /\ ctail \in Counters
      /\ \A c \in {head, tail, chead, ctail} : Inc(c) \in Counters /\ Slot(c) \in Slots
      /\ \A s \in Slots : Rot(s) \in 0 .. Capacity - 1
      /\ Rot(Slot(tail)) = 0
      /\ slot \in [Slots -> Values \cup {Raw, Husk}] /\ pvalue \in Values
  BY StepFacts, RotNumbersSlots DEF IInv, TypeOK
<1>2. CASE \/ \E v \in Values : PushLoad(v)
           \/ PushFull \/ PopLoad \/ PopEmpty \/ PopPublish \/ ClearPublish
           \/ (\E t \in Observers : SizeLoad(t)) \/ SizeReturn \/ UNCHANGED vars
  <2>1. head' = head /\ slot' = slot /\ out' = out
    BY <1>2 DEF PushLoad, PushFull, PopLoad, PopEmpty, PopPublish, ClearPublish, SizeLoad,
                SizeReturn, vars, producerVars, consumerVars, observerVars
  <2>2. Unclaimed' = Unclaimed
    BY <1>2 DEF PushLoad, PushFull, PopLoad, PopEmpty, PopPublish, ClearPublish, SizeLoad,
                SizeReturn, vars, producerVars, consumerVars, observerVars, Unclaimed
  <2>3. QED
    BY <2>1, <2>2, ContentsKept
<1>3. CASE PushConstruct
  <2>1. /\ head' = head /\ out' = out /\ Unclaimed' = Unclaimed
        /\ slot' = [slot EXCEPT ![Slot(head)] = pvalue]
    BY <1>3 DEF PushConstruct, consumerVars, Unclaimed
  <2>2. Rot(Slot(head)) >= Count
    <3>1. Diff(head, ptail) \in Nat
      BY DiffType, Sizes DEF IInv, TypeOK, Counters
    <3>2. Count < Capacity
      BY <1>0, <1>3, <3>1, Sizes DEF PushConstruct, IInv, ProducerInv
    <3>3. QED
      BY <1>0, <3>2, Sizes DEF IInv, WindowInv, Wrapped
  <2>3. \A s \in Slots : Rot(s) < Count => s # Slot(head)
    BY <1>0, <1>1, <2>2
  <2>4. \A s \in Slots : Rot(s) < Count => slot'[s] = slot[s]
    BY <1>1, <2>1, <2>3
  <2>5. QED
    BY <2>1, <2>4, ContentsKept
<1>4. CASE PopDestroy
  <2>1. /\ head' = head /\ out' = out /\ Unclaimed' = Unclaimed
        /\ slot' = [slot EXCEPT ![Slot(tail)] = Raw] /\ Unclaimed = Inc(tail)
    BY <1>4 DEF PopDestroy, producerVars, Unclaimed
  <2>2. Diff(Unclaimed, tail) # 0
    <3>1. Inc(tail) # tail
      BY <1>1, Sizes DEF Counters, Inc
    <3>2. QED
      BY <1>0, <1>1, <2>1, <3>1, DiffType
  <2>3. \A s \in Slots : Diff(Unclaimed, tail) <= Rot(s) => s # Slot(tail)
    BY <1>0, <1>1, <2>2
  <2>4. QED
    BY <1>1, <2>1, <2>3, ContentsKept
<1>5. CASE ClearDestroy
  <2>1. /\ head' = head /\ out' = out /\ Unclaimed' = Unclaimed /\ cpc = "clearing"
        /\ slot' = [slot EXCEPT ![Slot(ctail)] = Raw] /\ Unclaimed = chead
    BY <1>5 DEF ClearDestroy, producerVars, Unclaimed
  <2>2. Rot(Slot(ctail)) < Diff(Unclaimed, tail)
    <3>1. Diff(ctail, tail) \in Nat /\ Diff(ctail, tail) <= Diff(chead, tail)
          /\ Rot(Slot(ctail)) = Wrapped(Diff(ctail, tail))
      BY <2>1, StepFacts DEF IInv, ConsumerInv
    <3>2. Diff(ctail, tail) # Diff(chead, tail)
      BY <1>1, <1>5, <3>1, DiffCompare DEF ClearDestroy
    <3>3. QED
      BY <1>0, <2>1, <3>1, <3>2, Sizes DEF Wrapped
  <2>3. \A s \in Slots : Diff(Unclaimed, tail) <= Rot(s) => s # Slot(ctail)
    BY <1>0, <1>1, <2>2
  <2>4. QED
    BY <1>1, <2>1, <2>3, ContentsKept
<1>6. CASE PushPublish
  <2>1. /\ head' = Inc(head) /\ out' = out /\ Unclaimed' = Unclaimed /\ slot' = slot
    BY <1>6 DEF PushPublish, consumerVars, Unclaimed
  <2>2. Count < Capacity /\ Diff(head, Unclaimed) < Capacity
    BY <1>0, <1>6, Sizes DEF PushPublish, IInv, ProducerInv
  <2>3. Diff(head, Unclaimed)' = Diff(head, Unclaimed) + 1
    <3>1. Diff(Inc(head), Unclaimed) = Diff(head, Unclaimed) + 1
      BY <1>0, <2>2, DiffIncTo, Sizes
    <3>2. QED
      BY <2>1, <3>1 DEF Diff
  <2>4. slot[Slot(head)] = pvalue /\ Slot(Plus(Unclaimed, Diff(head, Unclaimed))) = Slot(head)
    <3>1. Rot(Slot(head)) = Count
      BY <1>0, <2>2, Sizes DEF IInv, WindowInv, Wrapped
    <3>2. slot[Slot(head)] = pvalue
      BY <1>0, <1>1, <1>6, <3>1 DEF PushPublish, IInv, SlotsInv
    <3>3. Plus(Unclaimed, Diff(head, Unclaimed)) = head
      BY <1>0, Sizes DEF Plus, Diff, Counters
    <3>4. QED
      BY <3>2, <3>3
  <2>5. Contents' = [i \in 1 .. Diff(head, Unclaimed) + 1 |-> slot[Slot(Plus(Unclaimed, i - 1))]]
    BY <2>1, <2>3 DEF Contents, Slot, Plus
  <2>6. Len(Contents) = Diff(head, Unclaimed) /\ Contents' = Append(Contents, pvalue)
    <3> DEFINE n == Diff(head, Unclaimed)
               F(i) == slot[Slot(Plus(Unclaimed, i - 1))]
    <3>1. n \in Nat /\ F(n + 1) = pvalue
      BY <1>0, <2>4
    <3>2. Contents = [i \in 1 .. n |-> F(i)] /\ Contents' = [i \in 1 .. n + 1 |-> F(i)]
      BY <2>5 DEF Contents
    <3> HIDE DEF n, F
    <3>3. Len(Contents) = n
      BY <3>1, <3>2
    <3>4. Contents' = Append(Contents, pvalue)
      BY <3>1, <3>2, <3>3
    <3>5. QED
      BY <3>3, <3>4 DEF n
  <2>7. Fifo!Put(pvalue)
    BY <2>1, <2>2, <2>6 DEF Fifo!Put
  <2>8. QED
    BY <1>1, <2>7 DEF Fifo!FifoNext
<1>7. CASE PopMove
  <2>1. /\ head' = head /\ out' = <<slot[Slot(tail)]>> /\ Unclaimed' = Inc(tail)
        /\ slot' = [slot EXCEPT ![Slot(tail)] = Husk] /\ Unclaimed = tail /\ tail # chead
        /\ cpc = "loaded" /\ tail' = tail
    BY <1>7 DEF PopMove, producerVars, Unclaimed
  <2>2. Count > 0 /\ Diff(head, Unclaimed) = Count /\ Diff(tail, tail) = 0
    BY <1>0, <1>1, <2>1, StepFacts, DiffType DEF IInv, ConsumerInv
  <2>3. Diff(head, Unclaimed)' = Count - 1
    <3>1. Diff(head, Inc(tail)) = Count - 1
      BY <1>0, <1>1, <2>1, <2>2, DiffIncFrom
    <3>2. QED
      BY <2>1, <3>1 DEF Diff
  <2>4. ASSUME NEW m \in Nat, m < Count - 1
        PROVE  slot'[Slot(Plus(Inc(tail), m))] = slot[Slot(Plus(tail, m + 1))]
    <3>1. Plus(Inc(tail), m) = Plus(tail, m + 1)
      BY <1>0, <1>1, <2>4, Sizes DEF Plus, Inc, Counters
    <3>2. Slot(Plus(tail, m + 1)) \in Slots /\ Rot(Slot(Plus(tail, m + 1))) = m + 1
      BY <1>0, <2>1, <2>2, <2>4
    <3>3. Slot(Plus(tail, m + 1)) # Slot(tail)
      BY <1>1, <2>4, <3>2
    <3>4. QED
      BY <1>1, <2>1, <3>1, <3>2, <3>3
  <2>5. Contents' = [i \in 1 .. Count - 1 |-> slot'[Slot(Plus(Inc(tail), i - 1))]]
    BY <2>1, <2>3 DEF Contents, Slot, Plus
  <2>6. /\ Contents = [i \in 1 .. Count |-> slot[Slot(Plus(tail, i - 1))]]
        /\ Slot(Plus(tail, 0)) = Slot(tail)
    BY <1>1, <2>1, <2>2, Sizes DEF Contents, Plus, Counters
  <2>7. Contents' = [i \in 1 .. Count - 1 |-> slot[Slot(Plus(tail, (i + 1) - 1))]]
    <3>1. ASSUME NEW i \in 1 .. Count - 1
          PROVE  slot'[Slot(Plus(Inc(tail), i - 1))] = slot[Slot(Plus(tail, (i + 1) - 1))]
      <4>1. i - 1 \in Nat /\ i - 1 < Count - 1 /\ (i - 1) + 1 = (i + 1) - 1
        BY <1>0, <3>1
      <4>2. QED
        BY <2>4, <4>1
    <3>2. QED
      BY <2>5, <3>1
  <2>8. Contents # << >> /\ Head(Contents) = slot[Slot(tail)] /\ Contents' = Tail(Contents)
    <3> DEFINE F(i) == slot[Slot(Plus(tail, i - 1))]
    <3>1. /\ Contents = [i \in 1 .. Count |-> F(i)] /\ F(1) = slot[Slot(tail)]
          /\ Contents' = [i \in 1 .. Count - 1 |-> F(i + 1)]
      BY <2>6, <2>7
    <3> HIDE DEF F
    <3>2. Contents # << >> /\ Head(Contents) = F(1) /\ Len(Contents) = Count
      BY <1>0, <2>2, <3>1
    <3>3. Contents' = Tail(Contents)
      BY <1>0, <2>2, <3>1, <3>2
    <3>4. QED
      BY <3>1, <3>2, <3>3
  <2>9. Fifo!Take
    BY <2>1, <2>8 DEF Fifo!Take
  <2>10. QED
    BY <2>9 DEF Fifo!FifoNext
<1>8. CASE ClearLoad
  <2>1. head' = head /\ out' = out /\ Unclaimed' = head
    BY <1>8 DEF ClearLoad, producerVars, Unclaimed
  <2>2. Diff(head, Unclaimed)' = 0
    <3>1. Diff(head, head) = 0
      BY <1>0, DiffType
    <3>2. QED
      BY <2>1, <3>1 DEF Diff
  <2>3. Contents' = << >>
    BY <2>2 DEF Contents
  <2>4. QED
    BY <2>1, <2>3 DEF Fifo!FifoNext, Fifo!Drop
<1>9. QED
  BY <1>2, <1>3, <1>4, <1>5, <1>6, <1>7, <1>8 DEF Next, Producer, Consumer, Observer

\* For every capacity and counter width the ring is the bounded queue: no
\* element is lost, repeated, reordered or seen before it is built, whatever
\* the interleaving of emplace(), pop(), clear() and size().
THEOREM FifoCorrect == Spec => RefinesFifo
<1>1. Init => Fifo!FifoInit
  <2> SUFFICES ASSUME Init PROVE Contents = << >> /\ out = << >>
    BY DEF Fifo!FifoInit
  <2>1. Diff(head, Unclaimed) = 0
    BY DEF Init, Unclaimed, Diff
  <2>2. QED
    BY <2>1 DEF Init, Contents
<1>2. IInv /\ [Next]_vars => [Fifo!FifoNext]_(Fifo!fifoVars)
  BY StepRefines
<1>3. QED
  BY <1>1, <1>2, IInvCorrect, PTL DEF Spec, RefinesFifo, Fifo!FifoSpec
=============================================================================
