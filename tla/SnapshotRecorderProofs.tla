---------------------- MODULE SnapshotRecorderProofs ----------------------
(***************************************************************************)
(* The recorder's ring implements the bounded stack of checkpoints, for    *)
(* every capacity, machine and set of tags.                                *)
(* As long as no record() moves a name in use, the history a machine goes  *)
(* on with after a rollback is that of the life it was put back to,        *)
(* although its entries are views into slots that record() overwrites.     *)
(***************************************************************************)
EXTENDS SnapshotRecorder, SequenceTheorems, FiniteSetTheorems, WellFoundedInduction, TLAPS

RingInv ==
  /\ image \in Images /\ head \in Slots /\ count \in 0 .. Capacity
  /\ buffer = [s \in Slots |-> buffer[s]]
  /\ \A s \in Slots : buffer[s].image \in Images

\* The checkpoint in a slot, and the stack.
Kept(s) == [image |-> buffer[s].image, tag |-> buffer[s].tag]
Stack   == [i \in 1 .. count |-> Kept(Back(count + 1 - i))]

LEMMA Sizes == Capacity \in Nat /\ Capacity > 0 /\ InitialImage \in Images
BY SnapshotRecorderAssumption DEF Assumptions

-----------------------------------------------------------------------------
(* Going round the ring.                                                   *)

LEMMA Wrap ==
  ASSUME NEW k \in Nat, k > 0, NEW x \in 0 .. 2 * k - 1
  PROVE  x % k = IF x < k THEN x ELSE x - k
<1> DEFINE q == x \div k
           r == x % k
<1>1. x = k * q + r /\ q \in Int /\ r \in 0 .. k - 1 OBVIOUS
<1> HIDE DEF q, r
<1>2. CASE q = 0 BY <1>1, <1>2 DEF r
<1>3. CASE q = 1 BY <1>1, <1>3 DEF r
<1>4. CASE q >= 2
  <2>1. q - 2 >= 0 /\ k * (q - 2) >= 0 /\ k * q = k * (q - 2) + 2 * k BY <1>1, <1>4
  <2> QED BY <1>1, <2>1
<1>5. CASE q <= -1
  <2>1. -1 - q >= 0 /\ k * (-1 - q) >= 0 /\ k * q = -(k * (-1 - q)) - k BY <1>1, <1>5
  <2> QED BY <1>1, <2>1
<1> QED BY <1>1, <1>2, <1>3, <1>4, <1>5

LEMMA BackFacts ==
  ASSUME head \in Slots, NEW n \in 0 .. Capacity
  PROVE  /\ Back(n) \in Slots
         /\ Back(n) = IF head >= n THEN head - n ELSE head + Capacity - n
<1>1. head \in 0 .. Capacity - 1 /\ n \in 0 .. Capacity /\ Capacity \in Nat /\ Capacity > 0
  BY Sizes DEF Slots
<1>2. head + Capacity - n \in 0 .. 2 * Capacity - 1 BY <1>1
<1>3. Back(n) = IF head + Capacity - n < Capacity THEN head + Capacity - n
                                                  ELSE (head + Capacity - n) - Capacity
  BY <1>1, <1>2, Wrap DEF Back
<1> QED BY <1>1, <1>3 DEF Slots

LEMMA NextFacts ==
  ASSUME head \in Slots, head' = (head + 1) % Capacity
  PROVE  /\ head' \in Slots
         /\ head' = IF head + 1 = Capacity THEN 0 ELSE head + 1
<1>1. head \in 0 .. Capacity - 1 /\ Capacity \in Nat /\ Capacity > 0 BY Sizes DEF Slots
<1>2. head + 1 \in 0 .. 2 * Capacity - 1 BY <1>1
<1>3. (head + 1) % Capacity = IF head + 1 < Capacity THEN head + 1 ELSE (head + 1) - Capacity
  BY <1>1, <1>2, Wrap
<1> QED BY <1>1, <1>3 DEF Slots

\* After a record() what was n back is n + 1 back; after a rollback() of n,
\* what was n + k back is k back.
LEMMA BackAfterRecord ==
  ASSUME head \in Slots, head' = (head + 1) % Capacity, NEW n \in 0 .. Capacity - 1
  PROVE  Back(n + 1)' = Back(n) /\ (n > 0 => Back(n) # head)
<1>1. head \in 0 .. Capacity - 1 /\ n \in 0 .. Capacity - 1 /\ Capacity \in Nat
  BY Sizes DEF Slots
<1>2. head' \in Slots /\ head' = IF head + 1 = Capacity THEN 0 ELSE head + 1 BY NextFacts
<1>3. Back(n + 1)' = IF head' >= n + 1 THEN head' - (n + 1) ELSE head' + Capacity - (n + 1)
  <2>1. n + 1 \in 0 .. Capacity BY <1>1
  <2>2. head' + Capacity - (n + 1) \in 0 .. 2 * Capacity - 1 BY <1>1, <1>2, <2>1 DEF Slots
  <2>3. (head' + Capacity - (n + 1)) % Capacity
          = IF head' + Capacity - (n + 1) < Capacity
              THEN head' + Capacity - (n + 1) ELSE (head' + Capacity - (n + 1)) - Capacity
    BY <2>2, Sizes, Wrap
  <2> QED BY <1>1, <1>2, <2>3 DEF Back
<1>4. Back(n) = IF head >= n THEN head - n ELSE head + Capacity - n BY <1>1, BackFacts
<1> QED BY <1>1, <1>2, <1>3, <1>4

LEMMA BackAfterRollback ==
  ASSUME head \in Slots, NEW n \in 0 .. Capacity, head' = Back(n), NEW k \in Nat,
         n + k <= Capacity
  PROVE  Back(k)' = Back(n + k)
<1>1. head \in 0 .. Capacity - 1 /\ Capacity \in Nat /\ Capacity > 0 BY Sizes DEF Slots
<1>2. /\ head' \in 0 .. Capacity - 1
      /\ head' = IF head >= n THEN head - n ELSE head + Capacity - n
  BY BackFacts DEF Slots
<1>3. n + k \in 0 .. Capacity BY <1>1
<1>4. Back(n + k) = IF head >= n + k THEN head - (n + k) ELSE head + Capacity - (n + k)
  BY <1>3, BackFacts
<1>5. Back(k)' = IF head' >= k THEN head' - k ELSE head' + Capacity - k
  <2>1. head' + Capacity - k \in 0 .. 2 * Capacity - 1 BY <1>1, <1>2
  <2>2. (head' + Capacity - k) % Capacity
          = IF head' + Capacity - k < Capacity
              THEN head' + Capacity - k ELSE (head' + Capacity - k) - Capacity
    BY <1>1, <2>1, Wrap
  <2> QED BY <1>1, <1>2, <2>2 DEF Back
<1> QED BY <1>1, <1>2, <1>4, <1>5

-----------------------------------------------------------------------------
(* Types.                                                                  *)

LEMMA RingInit == Init => RingInv
BY Sizes DEF Init, RingInv, Slots

LEMMA RingStep ==
  ASSUME RingInv, [Next]_vars
  PROVE  RingInv'
<1>1. CASE UNCHANGED recorderVars /\ image' \in Images
  BY <1>1 DEF RingInv, recorderVars
<1>2. ASSUME NEW tag \in Tags, Record(tag) PROVE RingInv'
  <2>1. head' \in Slots BY <1>2, NextFacts DEF Record, RingInv
  <2>2. count' \in 0 .. Capacity BY <1>2, Sizes DEF Record, RingInv
  <2>3. image' = image BY <1>2 DEF Record, machineVars
  <2>4. PICK e : e.image = image /\ buffer' = [buffer EXCEPT ![head] = e]
    BY <1>2 DEF Record
  <2>5. \A s \in Slots : buffer'[s] = IF s = head THEN e ELSE buffer[s]
    BY <2>4 DEF RingInv
  <2>6. buffer' = [s \in Slots |-> buffer'[s]] BY <2>4 DEF RingInv
  <2> QED BY <2>1, <2>2, <2>3, <2>4, <2>5, <2>6 DEF RingInv
<1>3. ASSUME NEW n, Rollback(n) PROVE RingInv'
  <2>1. n \in 1 .. count /\ n \in 0 .. Capacity BY <1>3, Sizes DEF Rollback, RingInv
  <2>2. Back(n) \in Slots BY <2>1, BackFacts DEF RingInv
  <2>3. count' \in 0 .. Capacity BY <1>3, <2>1, Sizes DEF Rollback, RingInv
  <2> QED BY <1>3, <2>2, <2>3 DEF Rollback, RingInv
<1>4. ASSUME NEW tag \in Tags, Rewind(tag) PROVE RingInv'
  BY <1>3, <1>4 DEF Rewind
<1>5. CASE Clear BY <1>5, Sizes DEF Clear, RingInv, Slots, machineVars
<1>6. ASSUME NEW m \in Images, Work(m) \/ ClearHistory(m) PROVE RingInv'
  BY <1>1, <1>6 DEF Work, ClearHistory
<1>7. CASE UNCHANGED vars BY <1>1, <1>7 DEF vars, machineVars, RingInv
<1> QED BY <1>2, <1>3, <1>4, <1>5, <1>6, <1>7 DEF Next

-----------------------------------------------------------------------------
(* The steps of the stack.                                                 *)

LEMMA MinFacts ==
  ASSUME NEW S \in SUBSET Nat, S # {}
  PROVE  Min(S) \in S /\ \A y \in S : Min(S) <= y
<1>1. \E x \in S : \A y \in S : ~(<<y, x>> \in OpToRel(<, Nat))
  BY NatLessThanWellFounded, WFMin
<1>2. PICK x \in S : \A y \in S : ~(<<y, x>> \in OpToRel(<, Nat)) BY <1>1
<1>3. \A y \in S : x <= y
  <2> SUFFICES ASSUME NEW y \in S PROVE x <= y OBVIOUS
  <2>1. ~(y < x) BY <1>2 DEF OpToRel
  <2> QED BY <2>1
<1> QED BY <1>3 DEF Min

LEMMA StackFacts ==
  ASSUME RingInv
  PROVE  /\ Stack \in Seq({Kept(s) : s \in Slots})
         /\ Len(Stack) = count
         /\ \A i \in 1 .. count : Stack[i] = Kept(Back(count + 1 - i))
         /\ \A n \in 1 .. count : Stack[count + 1 - n] = Kept(Back(n))
<1>1. count \in Nat /\ count <= Capacity /\ Capacity \in Nat BY Sizes DEF RingInv
<1> DEFINE T == {Kept(s) : s \in Slots}
<1>2. ASSUME NEW i \in 1 .. count PROVE Kept(Back(count + 1 - i)) \in T
  <2>1. count + 1 - i \in 0 .. Capacity BY <1>1
  <2>2. Back(count + 1 - i) \in Slots BY <2>1, BackFacts DEF RingInv
  <2> QED BY <2>2
<1>3. Stack \in [1 .. count -> T] BY <1>2 DEF Stack
<1>4. Stack \in Seq(T) /\ Len(Stack) = count
  <2> HIDE DEF T
  <2>1. Stack \in Seq(T) BY <1>1, <1>3, SeqDef
  <2>2. DOMAIN Stack = 1 .. count BY <1>3
  <2>3. Len(Stack) \in Nat /\ DOMAIN Stack = 1 .. Len(Stack) BY <2>1, LenProperties
  <2> QED BY <1>1, <2>1, <2>2, <2>3
<1>5. \A i \in 1 .. count : Stack[i] = Kept(Back(count + 1 - i)) BY DEF Stack
<1>6. \A n \in 1 .. count : count + 1 - n \in 1 .. count /\ count + 1 - (count + 1 - n) = n
  BY <1>1
<1>7. \A n \in 1 .. count : Stack[count + 1 - n] = Kept(Back(n)) BY <1>5, <1>6
<1> QED BY <1>4, <1>5, <1>7

\* record() puts the machine on top, over the oldest when the ring is full.
LEMMA RecordSaves ==
  ASSUME RingInv, NEW tag \in Tags, Record(tag)
  PROVE  Checkpoints!Save(tag)
<1> DEFINE top == [image |-> image, tag |-> tag]
           base == IF Len(Stack) = Capacity THEN Tail(Stack) ELSE Stack
<1>1. /\ count \in Nat /\ count <= Capacity /\ Capacity \in Nat /\ Capacity > 0
      /\ head \in Slots /\ head' = (head + 1) % Capacity /\ image' = image
      /\ count' = IF count < Capacity THEN count + 1 ELSE count
  BY Sizes DEF Record, RingInv, machineVars
<1>2. \A s \in Slots : Kept(s)' = IF s = head THEN top ELSE Kept(s)
  <2>1. PICK e : e.image = image /\ e.tag = tag /\ buffer' = [buffer EXCEPT ![head] = e]
    BY DEF Record
  <2>2. \A s \in Slots : buffer'[s] = IF s = head THEN e ELSE buffer[s]
    BY <2>1 DEF RingInv
  <2> QED BY <2>1, <2>2 DEF Kept
<1>3. PICK c : c \in Nat /\ c = count' BY <1>1
<1>c. c \in Nat /\ c > 0 /\ c <= Capacity BY <1>1, <1>3
<1>4. Stack' = [i \in 1 .. c |-> Kept(Back(c + 1 - i))'] BY <1>3 DEF Stack, Kept, Back
<1>5. ASSUME NEW n \in 0 .. Capacity - 1
      PROVE  Kept(Back(n + 1))' = IF n = 0 THEN top ELSE Kept(Back(n))
  <2>1. Back(n + 1)' = Back(n) /\ (n > 0 => Back(n) # head) BY <1>1, BackAfterRecord
  <2>2. Back(n) \in Slots BY <1>1, BackFacts
  <2>3. Back(0) = head
    <3>1. 0 \in 0 .. Capacity BY <1>1
    <3>2. Back(0) = IF head >= 0 THEN head - 0 ELSE head + Capacity - 0
      BY <1>1, <3>1, BackFacts
    <3> QED BY <1>1, <3>2 DEF Slots
  <2>4. PICK s \in Slots : s = Back(n) BY <2>2
  <2>5. Kept(Back(n + 1))' = Kept(s)' BY <2>1, <2>4 DEF Kept
  <2>6. Kept(s)' = IF s = head THEN top ELSE Kept(s) BY <1>2
  <2> QED BY <2>1, <2>3, <2>4, <2>5, <2>6
<1>6. ASSUME NEW i \in 1 .. c
      PROVE  Kept(Back(c + 1 - i))' = IF i = c THEN top ELSE Kept(Back(c - i))
  <2>1. c - i \in 0 .. Capacity - 1 BY <1>1, <1>c
  <2>2. (c - i) + 1 = c + 1 - i /\ (c - i = 0 <=> i = c) BY <1>c
  <2> QED BY <1>5, <2>1, <2>2
<1>7. Stack' = [i \in 1 .. c |-> IF i = c THEN top ELSE Kept(Back(c - i))]
  BY <1>4, <1>6
<1> DEFINE T == {Kept(s) : s \in Slots} \cup {top}
<1>8. /\ Stack \in Seq(T) /\ Len(Stack) = count
      /\ \A i \in 1 .. count : Stack[i] = Kept(Back(count + 1 - i))
  BY StackFacts, SeqMonotonic
<1>9. top \in T OBVIOUS
<1> HIDE DEF T, top
<1>10. /\ base \in Seq(T) /\ Len(base) = c - 1
       /\ \A i \in 1 .. c - 1 : base[i] = Kept(Back(c - i))
  <2>1. CASE count < Capacity
    <3>1. c = count + 1 /\ base = Stack BY <1>1, <1>3, <1>8, <2>1
    <3>2. \A i \in 1 .. c - 1 : i \in 1 .. count /\ count + 1 - i = c - i BY <1>1, <3>1
    <3> QED BY <1>1, <1>8, <3>1, <3>2
  <2>2. CASE count = Capacity
    <3>1. c = count /\ base = Tail(Stack) /\ Stack # << >> BY <1>1, <1>3, <1>8, <2>2
    <3>2. /\ Tail(Stack) \in Seq(T) /\ Len(Tail(Stack)) = count - 1
          /\ \A i \in 1 .. count - 1 : Tail(Stack)[i] = Stack[i + 1]
      BY <1>8, <3>1, HeadTailProperties
    <3>3. \A i \in 1 .. c - 1 : i + 1 \in 1 .. count /\ count + 1 - (i + 1) = c - i
      BY <1>1, <3>1
    <3> HIDE DEF base
    <3> QED BY <1>8, <3>1, <3>2, <3>3
  <2> QED BY <1>1, <2>1, <2>2
<1> HIDE DEF base
<1>11. Stack' = Append(base, top)
  <2> DEFINE r == Append(base, top)
  <2>1. /\ r \in Seq(T) /\ Len(r) = (c - 1) + 1 /\ r[(c - 1) + 1] = top
        /\ \A i \in 1 .. c - 1 : r[i] = base[i]
    BY <1>9, <1>10, AppendProperties
  <2> HIDE DEF r
  <2>2. (c - 1) + 1 = c /\ \A i \in 1 .. c : i # c => i \in 1 .. c - 1 BY <1>c
  <2>3. r \in [1 .. c -> T] BY <2>1, <2>2, LenProperties
  <2>4. \A i \in 1 .. c : r[i] = IF i = c THEN top ELSE Kept(Back(c - i))
    BY <1>10, <2>1, <2>2
  <2>5. r = [i \in 1 .. c |-> IF i = c THEN top ELSE Kept(Back(c - i))] BY <2>3, <2>4
  <2> QED BY <1>7, <2>5 DEF r
<1>12. Checkpoints!Save(tag) <=>
         /\ Stack' = Append(IF Len(Stack) = Capacity THEN Tail(Stack) ELSE Stack,
                            [image |-> image, tag |-> tag])
         /\ image' = image
  BY DEF Checkpoints!Save, Stack, Kept
<1> QED BY <1>1, <1>11, <1>12 DEF base, top

\* A rollback() of n goes back n checkpoints.
LEMMA RollbackGoesBack ==
  ASSUME RingInv, NEW n, Rollback(n)
  PROVE  Checkpoints!GoBack(n) /\ Checkpoints!NthNewest(n) = Kept(Back(n))
<1>1. /\ count \in Nat /\ count <= Capacity /\ n \in 1 .. count /\ Capacity \in Nat
      /\ head \in Slots /\ head' = Back(n) /\ count' = count - n /\ buffer' = buffer
      /\ image' = buffer[Back(n)].image
  BY Sizes DEF Rollback, RingInv
<1>2. PICK c : c \in Nat /\ c = count' BY <1>1
<1>c. c \in Nat BY <1>1, <1>2
<1>3. Stack' = [i \in 1 .. c |-> Kept(Back(c + 1 - i))'] BY <1>2 DEF Stack, Kept, Back
<1>4. ASSUME NEW i \in 1 .. c
      PROVE  Kept(Back(c + 1 - i))' = Kept(Back(count + 1 - i))
  <2> DEFINE k == c + 1 - i
  <2>1. k \in Nat BY <1>c
  <2>2. n + k <= Capacity /\ n + k = count + 1 - i /\ n \in 0 .. Capacity
    BY <1>1, <1>2
  <2> HIDE DEF k
  <2>3. Back(k)' = Back(n + k) BY <1>1, <2>1, <2>2, BackAfterRollback
  <2>4. Kept(Back(k))' = Kept(Back(n + k)) BY <1>1, <2>3 DEF Kept
  <2> QED BY <2>2, <2>4 DEF k
<1>5. Stack' = [i \in 1 .. c |-> Kept(Back(count + 1 - i))] BY <1>3, <1>4
<1> DEFINE T == {Kept(s) : s \in Slots}
           r == SubSeq(Stack, 1, count - n)
<1>6. /\ Stack \in Seq(T) /\ Len(Stack) = count
      /\ \A i \in 1 .. count : Stack[i] = Kept(Back(count + 1 - i))
      /\ Stack[count + 1 - n] = Kept(Back(n))
  BY <1>1, StackFacts
<1> HIDE DEF T
<1>7. r \in Seq(T) /\ Len(r) = c /\ \A i \in 1 .. c : r[i] = Stack[i]
  <2>1. c \in Int /\ 1 \in Int /\ c = count - n /\ \A i \in 1 .. c : i \in 1 .. count
    BY <1>1, <1>2
  <2>2. \A i \in 1 .. c : Stack[i] \in T BY <1>6, <2>1, ElementOfSeq
  <2>3. /\ SubSeq(Stack, 1, c) \in Seq(T)
        /\ Len(SubSeq(Stack, 1, c)) = IF 1 <= c THEN c - 1 + 1 ELSE 0
        /\ \A i \in 1 .. c - 1 + 1 : SubSeq(Stack, 1, c)[i] = Stack[1 + i - 1]
    BY <2>1, <2>2, SubSeqProperties
  <2>4. c - 1 + 1 = c /\ (~(1 <= c) => c = 0) /\ \A i \in 1 .. c : 1 + i - 1 = i BY <1>c
  <2>5. r = SubSeq(Stack, 1, c) BY <2>1
  <2> HIDE DEF r
  <2> QED BY <2>3, <2>4, <2>5
<1> HIDE DEF r
<1>8. Stack' = r
  <2>1. r \in [1 .. c -> T] BY <1>7, LenProperties
  <2>2. \A i \in 1 .. c : r[i] = Kept(Back(count + 1 - i)) BY <1>1, <1>2, <1>6, <1>7
  <2> QED BY <1>5, <2>1, <2>2
<1>9. Len(Stack) + 1 - n = count + 1 - n BY <1>6
<1>10. Checkpoints!NthNewest(n) = Stack[Len(Stack) + 1 - n]
  BY DEF Checkpoints!NthNewest, Stack, Kept
<1>11. Checkpoints!NthNewest(n) = Kept(Back(n)) BY <1>6, <1>9, <1>10
<1>12. Checkpoints!GoBack(n) <=>
         /\ n \in 1 .. Len(Stack)
         /\ image' = Checkpoints!NthNewest(n).image
         /\ Stack' = SubSeq(Stack, 1, Len(Stack) - n)
  BY DEF Checkpoints!GoBack, Stack, Kept
<1> QED BY <1>1, <1>6, <1>8, <1>11, <1>12 DEF r, Kept
LEMMA NewestFacts ==
  ASSUME RingInv, NEW n \in 1 .. count
  PROVE  Checkpoints!NthNewest(n) = Kept(Back(n))
<1>1. /\ Len(Stack) = count /\ Stack[count + 1 - n] = Kept(Back(n))
  BY StackFacts
<1>2. Checkpoints!NthNewest(n) = Stack[Len(Stack) + 1 - n]
  BY DEF Checkpoints!NthNewest, Stack, Kept
<1> QED BY <1>1, <1>2

\* Rewinding goes back to the newest checkpoint with the tag.
LEMMA RewindGoesBack ==
  ASSUME RingInv, NEW tag \in Tags, Rewind(tag)
  PROVE  Checkpoints!GoBackTo(tag)
<1> DEFINE found == {n \in 1 .. count : buffer[Back(n)].tag = tag}
<1>1. found # {} /\ Rollback(Min(found)) BY DEF Rewind
<1>2. count \in Nat /\ found \in SUBSET Nat BY DEF RingInv
<1>3. Min(found) \in found /\ \A y \in found : Min(found) <= y BY <1>1, <1>2, MinFacts
<1>4. PICK n : n = Min(found) OBVIOUS
<1>5. /\ n \in 1 .. count /\ buffer[Back(n)].tag = tag /\ Rollback(n)
      /\ \A y \in 1 .. count : buffer[Back(y)].tag = tag => n <= y
  BY <1>1, <1>3, <1>4
<1> HIDE DEF found
<1>6. Checkpoints!NthNewest(n).tag = tag BY <1>5, NewestFacts DEF Kept
<1>7. ASSUME NEW k \in 1 .. n - 1 PROVE Checkpoints!NthNewest(k).tag # tag
  <2>1. k \in 1 .. count /\ ~(n <= k) BY <1>2, <1>5
  <2>2. Checkpoints!NthNewest(k) = Kept(Back(k)) BY <2>1, NewestFacts
  <2> QED BY <1>5, <2>1, <2>2 DEF Kept
<1>8. Checkpoints!GoBack(n) BY <1>5, RollbackGoesBack
<1>9. Len(Stack) = count BY StackFacts
<1>10. Checkpoints!GoBackTo(tag) <=>
         \E i \in 1 .. Len(Stack) :
           /\ Checkpoints!NthNewest(i).tag = tag
           /\ \A k \in 1 .. i - 1 : Checkpoints!NthNewest(k).tag # tag
           /\ Checkpoints!GoBack(i)
  BY DEF Checkpoints!GoBackTo, Stack, Kept
<1> QED BY <1>5, <1>6, <1>7, <1>8, <1>9, <1>10

\* A step of the ring is a step of the stack.
LEMMA StepRefines ==
  ASSUME RingInv, [Next]_vars
  PROVE  Checkpoints!CheckpointNext \/ (Stack' = Stack /\ image' = image)
<1>1. CASE UNCHANGED recorderVars /\ image' \in Images
  <2>1. Stack' = Stack BY <1>1 DEF recorderVars, Stack, Kept, Back
  <2>2. Checkpoints!Live(image') <=> Stack' = Stack
    BY DEF Checkpoints!Live, Stack, Kept
  <2> QED BY <1>1, <2>1, <2>2 DEF Checkpoints!CheckpointNext
<1>2. ASSUME NEW tag \in Tags, Record(tag) \/ Rewind(tag) PROVE Checkpoints!CheckpointNext
  BY <1>2, RecordSaves, RewindGoesBack DEF Checkpoints!CheckpointNext
<1>3. ASSUME NEW n \in 1 .. Capacity, Rollback(n) PROVE Checkpoints!CheckpointNext
  BY <1>3, RollbackGoesBack DEF Checkpoints!CheckpointNext
<1>4. CASE Clear
  <2>1. count' = 0 /\ image' = image BY <1>4 DEF Clear, machineVars
  <2>2. Stack' = [i \in {} |-> Kept(Back(count + 1 - i))'] BY <2>1 DEF Stack, Kept, Back
  <2>3. Stack' = << >> BY <2>2
  <2>4. Checkpoints!Forget <=> Stack' = << >> /\ image' = image
    BY DEF Checkpoints!Forget, Stack, Kept
  <2> QED BY <2>1, <2>3, <2>4 DEF Checkpoints!CheckpointNext
<1>5. ASSUME NEW m \in Images, Work(m) \/ ClearHistory(m)
      PROVE  UNCHANGED recorderVars /\ image' \in Images
  BY <1>5 DEF Work, ClearHistory
<1>6. CASE UNCHANGED vars
  BY <1>6 DEF vars, machineVars, recorderVars, Stack, Kept, Back
<1> QED BY <1>1, <1>2, <1>3, <1>4, <1>5, <1>6 DEF Next

LEMMA InitRefines == Init => Checkpoints!CheckpointInit
<1> SUFFICES ASSUME Init PROVE Checkpoints!CheckpointInit OBVIOUS
<1>1. count = 0 /\ image \in Images BY Sizes DEF Init
<1>2. Stack = [i \in {} |-> Kept(Back(count + 1 - i))] BY <1>1 DEF Stack
<1>3. Stack = << >> BY <1>2
<1>4. Checkpoints!CheckpointInit <=> Stack = << >> /\ image \in Images
  BY DEF Checkpoints!CheckpointInit, Stack, Kept
<1> QED BY <1>1, <1>3, <1>4

-----------------------------------------------------------------------------
(* The refinement: through wrap-around, rollback of several, rewinding and *)
(* recording over what was rolled back, the ring of snapshot_recorder is   *)
(* the bounded stack of checkpoints.                                       *)
THEOREM StackCorrect == Spec => RefinesStack
<1>1. Init => RingInv /\ Checkpoints!CheckpointInit BY RingInit, InitRefines
<1>2. RingInv /\ [Next]_vars => RingInv' BY RingStep
<1>3. RingInv /\ [Next]_vars =>
        Checkpoints!CheckpointNext \/ (Stack' = Stack /\ image' = image)
  BY StepRefines
<1>4. RingInv /\ [Next]_vars =>
        [Checkpoints!CheckpointNext]_<<[i \in 1 .. count |->
           LET s == Back(count + 1 - i)
           IN  [image |-> buffer[s].image, tag |-> buffer[s].tag]], image>>
  BY <1>3 DEF Stack, Kept
<1> QED BY <1>1, <1>2, <1>4, PTL DEF Spec, RefinesStack, Checkpoints!CheckpointSpec

-----------------------------------------------------------------------------
(* Names in memory.                                                        *)

Fields   == [at : Nat, width : Nat \ {0}]
AllViews == {Static(n) : n \in Names} \cup {View(s, f) : s \in Slots, f \in Fields}
Entries  == [parent : AllViews, sub : AllViews]

\* A field that is there, and only once.
Occurs(bytes, at, width) == {f \in bytes : f.at = at /\ f.width = width}

LEMMA NowhereFacts == Nowhere \notin Slots
BY Sizes DEF Slots, Nowhere

LEMMA ViewKinds ==
  ASSUME NEW v \in AllViews
  PROVE  /\ v.width \in Nat /\ v.width > 0
         /\ \/ \E n \in Names : v = Static(n) /\ v.slot = Nowhere
            \/ \E s \in Slots, f \in Fields : v = View(s, f) /\ v.slot = s /\ v.at = f.at
<1>1. CASE \E n \in Names : v = Static(n)
  <2>1. PICK n \in Names : v = Static(n) BY <1>1
  <2>2. Width[n] \in Nat \ {0} BY SnapshotRecorderAssumption DEF Assumptions
  <2> QED BY <2>1, <2>2 DEF Static
<1>2. CASE \E s \in Slots, f \in Fields : v = View(s, f)
  <2>1. PICK s \in Slots, f \in Fields : v = View(s, f) BY <1>2
  <2>2. f.width \in Nat /\ f.width > 0 BY DEF Fields
  <2> QED BY <2>1, <2>2 DEF View
<1> QED BY <1>1, <1>2 DEF AllViews

\* What a view reads depends on the fields where it points to.
LEMMA ReadView ==
  ASSUME NEW s \in Slots, NEW f, NEW b, NEW c,
         Occurs(b[s], f.at, f.width) = Occurs(c[s], f.at, f.width)
  PROVE  Read(View(s, f), b) = Read(View(s, f), c)
<1> DEFINE Value(there) == IF there = {} THEN Garbage ELSE (CHOOSE g \in there : TRUE).name
<1>1. s # Nowhere BY NowhereFacts
<1>2. View(s, f).slot = s /\ View(s, f).at = f.at /\ View(s, f).width = f.width BY DEF View
<1>3. ASSUME NEW d PROVE Read(View(s, f), d) = Value(Occurs(d[s], f.at, f.width))
  <2> DEFINE v == View(s, f)
  <2>1. Occurs(d[s], f.at, f.width) = {g \in d[v.slot] : g.at = v.at /\ g.width = v.width}
    BY <1>2 DEF Occurs
  <2> HIDE DEF v
  <2>2. Read(v, d) = IF v.slot = Nowhere THEN v.name
                     ELSE Value({g \in d[v.slot] : g.at = v.at /\ g.width = v.width})
    BY DEF Read
  <2>3. v.slot # Nowhere BY <1>1, <1>2 DEF v
  <2> HIDE DEF Value
  <2> QED BY <2>1, <2>2, <2>3 DEF v
<1> HIDE DEF Value
<1> QED BY <1>3

LEMMA ReadStatic ==
  ASSUME NEW n, NEW b
  PROVE  Read(Static(n), b) = n
BY DEF Read, Static

LEMMA WriteThere ==
  ASSUME NEW bytes, NEW at \in Int, NEW width \in Nat, width > 0, NEW name
  PROVE  Occurs(Write(bytes, at, width, name), at, width)
           = {[at |-> at, width |-> width, name |-> name]}
<1> DEFINE new == [at |-> at, width |-> width, name |-> name]
<1>1. \A f \in bytes : f.at = at /\ f.width = width => ~(f.at + f.width <= at \/ at + width <= f.at)
  OBVIOUS
<1>2. new.at = at /\ new.width = width OBVIOUS
<1>3. Write(bytes, at, width, name)
        = {f \in bytes : f.at + f.width <= at \/ at + width <= f.at} \cup {new}
  BY DEF Write
<1> HIDE DEF new
<1>4. Occurs(Write(bytes, at, width, name), at, width) = {new} BY <1>1, <1>2, <1>3 DEF Occurs
<1> QED BY <1>4 DEF new

LEMMA WriteApart ==
  \A bytes, name : \A at, a \in Int : \A width, w \in Nat :
    width > 0 /\ w > 0 /\ (a + w <= at \/ at + width <= a)
      => Occurs(Write(bytes, at, width, name), a, w) = Occurs(bytes, a, w)
<1> SUFFICES ASSUME NEW bytes, NEW name, NEW at \in Int, NEW a \in Int, NEW width \in Nat,
                    NEW w \in Nat, width > 0, w > 0, a + w <= at \/ at + width <= a
             PROVE  Occurs(Write(bytes, at, width, name), a, w) = Occurs(bytes, a, w)
  OBVIOUS
<1> DEFINE new == [at |-> at, width |-> width, name |-> name]
<1>1. new.at = at /\ new.width = width OBVIOUS
<1>2. Write(bytes, at, width, name)
        = {f \in bytes : f.at + f.width <= at \/ at + width <= f.at} \cup {new}
  BY DEF Write
<1>3. ~(a = at /\ w = width) OBVIOUS
<1> HIDE DEF new
<1> QED BY <1>1, <1>2, <1>3 DEF Occurs

-----------------------------------------------------------------------------
(* What serialize() writes.                                                *)

Opened(prev)         == Write(prev.bytes, prev.at, PrefixWidth, None)
Step(s, b, v, prev)  ==
  LET start == prev.at + PrefixWidth
      name  == Read(v, [b EXCEPT ![s] = Opened(prev)])
  IN  [bytes  |-> Write(Opened(prev), start, v.width, name),
       at     |-> start + v.width,
       fields |-> Append(prev.fields, [at |-> start, width |-> v.width])]
IsAfter(s, m, after) ==
  after = [i \in 0 .. m |-> IF i = 0 THEN [bytes |-> Bytes[s], at |-> 0, fields |-> << >>]
                            ELSE Step(s, Bytes, Views(hist)[i], after[i - 1])]

LEMMA AfterExists ==
  ASSUME NEW s, NEW m \in Nat
  PROVE  \E after : IsAfter(s, m, after)
<1> DEFINE Bad == {k \in Nat : ~\E after : IsAfter(s, k, after)}
           first == [bytes |-> Bytes[s], at |-> 0, fields |-> << >>]
<1> SUFFICES ASSUME Bad # {} PROVE FALSE OBVIOUS
<1>1. PICK k \in Bad : \A y \in Bad : k <= y
  <2>1. Min(Bad) \in Bad /\ \A y \in Bad : Min(Bad) <= y BY MinFacts
  <2> QED BY <2>1
<1>2. CASE k = 0
  <2>1. 0 .. 0 = {0} OBVIOUS
  <2>2. IsAfter(s, 0, [i \in 0 .. 0 |-> first]) BY <2>1 DEF IsAfter
  <2> QED BY <1>1, <1>2, <2>2
<1>3. CASE k > 0
  <2>1. k - 1 \in Nat /\ k - 1 \notin Bad BY <1>1, <1>3
  <2>2. PICK a : IsAfter(s, k - 1, a) BY <2>1
  <2> DEFINE c == [i \in 0 .. k |-> IF i <= k - 1 THEN a[i]
                                    ELSE Step(s, Bytes, Views(hist)[k], a[k - 1])]
             Next1(f, i) == IF i = 0 THEN first ELSE Step(s, Bytes, Views(hist)[i], f[i - 1])
  <2>3. \A i \in 0 .. k - 1 : a[i] = Next1(a, i) BY <2>2 DEF IsAfter
  <2>4. \A i \in 0 .. k : i > 0 => c[i - 1] = a[i - 1]
    <3> SUFFICES ASSUME NEW i \in 0 .. k, i > 0 PROVE c[i - 1] = a[i - 1] OBVIOUS
    <3>1. i - 1 \in 0 .. k /\ i - 1 <= k - 1 BY <1>1, <1>3
    <3> QED BY <3>1
  <2>5. \A i \in 0 .. k : c[i] = Next1(c, i)
    <3> SUFFICES ASSUME NEW i \in 0 .. k PROVE c[i] = Next1(c, i) OBVIOUS
    <3>1. CASE i <= k - 1
      <4>1. i \in 0 .. k - 1 BY <1>1, <3>1
      <4>2. c[i] = a[i] BY <3>1
      <4>3. Next1(a, i) = Next1(c, i) BY <2>4
      <4> HIDE DEF c, Next1
      <4> QED BY <2>3, <4>1, <4>2, <4>3
    <3>2. CASE i = k BY <1>3, <2>4, <3>2
    <3> QED BY <1>1, <3>1, <3>2
  <2>6. c = [i \in 0 .. k |-> Next1(c, i)]
    <3> HIDE DEF Next1
    <3>1. c = [i \in 0 .. k |-> c[i]] OBVIOUS
    <3> HIDE DEF c
    <3> QED BY <2>5, <3>1
  <2>7. IsAfter(s, k, c)
    <3> HIDE DEF c
    <3> QED BY <2>6 DEF IsAfter
  <2> QED BY <1>1, <2>7
<1> QED BY <1>1, <1>2, <1>3

\* Where the name of view v goes after prev.
Goes(prev, v) == [at |-> prev.at + PrefixWidth, width |-> v.width]

\* From where prev ends on, the slot is as it was.
Untouched(s, prev) ==
  \A a \in Nat : \A w \in Nat :
    w > 0 /\ a >= prev.at => Occurs(prev.bytes, a, w) = Occurs(Bytes[s], a, w)

\* One name, read by a view that is not of this slot or is where it goes: it is
\* there, and the names before and after it stay.
LEMMA StepFacts ==
  ASSUME NEW s \in Slots, NEW v \in AllViews, NEW prev, prev.at \in Nat,
         v.slot = s => v.at = prev.at + PrefixWidth,
         Untouched(s, prev)
  PROVE  LET r == Step(s, Bytes, v, prev) f == Goes(prev, v)
         IN  /\ r.at = f.at + f.width
             /\ Occurs(r.bytes, f.at, f.width)
                  = {[at |-> f.at, width |-> f.width, name |-> Read(v, Bytes)]}
             /\ \A a \in Nat : \A w \in Nat :
                  w > 0 /\ (a + w <= prev.at \/ a >= r.at)
                    => Occurs(r.bytes, a, w) = Occurs(prev.bytes, a, w)
<1> DEFINE opened == Opened(prev)
           b == [Bytes EXCEPT ![s] = opened]
           name == Read(v, b)
           start == prev.at + PrefixWidth
           bytes == Write(opened, start, v.width, name)
<1>1. PrefixWidth = 2 /\ v.width \in Nat /\ v.width > 0 /\ start \in Nat
  BY ViewKinds DEF PrefixWidth
<1>2. Step(s, Bytes, v, prev).bytes = bytes /\ Step(s, Bytes, v, prev).at = start + v.width
  BY DEF Step
<1>3. Goes(prev, v).at = start /\ Goes(prev, v).width = v.width BY DEF Goes
<1>4. ASSUME NEW a \in Nat, NEW w \in Nat, w > 0, a + w <= prev.at \/ a >= start
      PROVE  Occurs(opened, a, w) = Occurs(prev.bytes, a, w)
  <2>1. /\ PrefixWidth \in Nat /\ PrefixWidth > 0 /\ a \in Int /\ prev.at \in Int
        /\ (a + w <= prev.at \/ prev.at + PrefixWidth <= a)
    BY <1>1, <1>4
  <2>2. Occurs(Write(prev.bytes, prev.at, PrefixWidth, None), a, w) = Occurs(prev.bytes, a, w)
    BY <1>4, <2>1, WriteApart
  <2> QED BY <2>2 DEF Opened
<1>5. name = Read(v, Bytes)
  <2>1. CASE \E n \in Names : v = Static(n) BY <2>1, ReadStatic
  <2>2. CASE \E t \in Slots, f \in Fields : v = View(t, f) /\ v.slot = t /\ v.at = f.at
    <3>1. PICK t \in Slots, f \in Fields : v = View(t, f) /\ v.slot = t /\ v.at = f.at BY <2>2
    <3>2. b[t] = IF t = s THEN opened ELSE Bytes[t] BY DEF Bytes
    <3>3. Occurs(b[t], f.at, f.width) = Occurs(Bytes[t], f.at, f.width)
      <4>1. CASE t = s
        <5>1. f.at = start /\ f.at \in Nat /\ f.width \in Nat /\ f.width > 0 /\ f.at >= prev.at
          BY <1>1, <3>1, <4>1 DEF Fields
        <5>2. Occurs(opened, f.at, f.width) = Occurs(prev.bytes, f.at, f.width) BY <1>4, <5>1
        <5> HIDE DEF opened, b, start
        <5> QED BY <3>2, <4>1, <5>1, <5>2 DEF Untouched
      <4>2. CASE t # s BY <3>2, <4>2
      <4> QED BY <4>1, <4>2
    <3> HIDE DEF b
    <3> QED BY <3>1, <3>3, ReadView
  <2> QED BY <2>1, <2>2, ViewKinds
<1> HIDE DEF opened, b, name, start
<1>6. Occurs(bytes, start, v.width) = {[at |-> start, width |-> v.width, name |-> name]}
  BY <1>1, WriteThere
<1>7. ASSUME NEW a \in Nat, NEW w \in Nat, w > 0, a + w <= prev.at \/ a >= start + v.width
      PROVE  Occurs(bytes, a, w) = Occurs(prev.bytes, a, w)
  <2>1. a \in Int /\ start \in Int /\ (a + w <= start \/ start + v.width <= a)
    BY <1>1, <1>7 DEF start
  <2>2. Occurs(bytes, a, w) = Occurs(opened, a, w) BY <1>1, <1>7, <2>1, WriteApart
  <2>3. a + w <= prev.at \/ a >= start BY <1>1, <1>7
  <2> QED BY <1>4, <1>7, <2>2, <2>3
<1> HIDE DEF bytes
<1> QED BY <1>2, <1>3, <1>5, <1>6, <1>7

\* The fields, which do not depend on what was in the slot.
Placed(after, i) ==
  /\ after[i].at \in Nat
  /\ after[i].fields \in Seq(Fields) /\ Len(after[i].fields) = i
  /\ \A j \in 1 .. i : after[i].fields[j] = Goes(after[j - 1], Views(hist)[j])

LEMMA PlacedFacts ==
  ASSUME NEW s \in Slots, NEW n \in Nat, NEW after, IsAfter(s, n, after),
         \A i \in 1 .. n : Views(hist)[i] \in AllViews
  PROVE  \A i \in 0 .. n : Placed(after, i)
<1> DEFINE Bad == {i \in 0 .. n : ~Placed(after, i)}
<1> SUFFICES ASSUME Bad # {} PROVE FALSE OBVIOUS
<1>1. PICK i \in Bad : \A y \in Bad : i <= y
  <2>1. Bad \in SUBSET Nat OBVIOUS
  <2>2. Min(Bad) \in Bad /\ \A y \in Bad : Min(Bad) <= y BY <2>1, MinFacts
  <2> QED BY <2>2
<1>2. CASE i = 0
  <2>1. after[0] = [bytes |-> Bytes[s], at |-> 0, fields |-> << >>] BY DEF IsAfter
  <2>2. Placed(after, 0) BY <2>1 DEF Placed
  <2> QED BY <1>1, <1>2, <2>2
<1>3. CASE i > 0
  <2> DEFINE prev == after[i - 1] v == Views(hist)[i] r == after[i]
  <2>1. i \in Nat /\ i \in 1 .. n /\ i - 1 \in 0 .. n /\ i - 1 \in Nat /\ (i - 1) + 1 = i
    BY <1>1, <1>3
  <2>2. r = Step(s, Bytes, v, prev) BY <1>3, <2>1 DEF IsAfter
  <2>3. i - 1 \notin Bad BY <1>1, <2>1
  <2>4. Placed(after, i - 1) BY <2>1, <2>3
  <2> HIDE DEF prev, v, r
  <2>5. v \in AllViews BY <2>1 DEF v
  <2>6. v.width \in Nat /\ v.width > 0 /\ prev.at \in Nat BY <2>4, <2>5, ViewKinds DEF Placed, prev
  <2>7. r.at = prev.at + PrefixWidth + v.width /\ r.fields = Append(prev.fields, Goes(prev, v))
    BY <2>2 DEF Step, Goes
  <2>8. Goes(prev, v) \in Fields BY <2>6 DEF Goes, Fields, PrefixWidth
  <2>9. prev.fields \in Seq(Fields) /\ Len(prev.fields) = i - 1 BY <2>4 DEF Placed, prev
  <2>10. /\ r.fields \in Seq(Fields) /\ Len(r.fields) = i /\ r.fields[i] = Goes(prev, v)
         /\ \A j \in 1 .. i - 1 : r.fields[j] = prev.fields[j]
    BY <2>1, <2>7, <2>8, <2>9, AppendProperties
  <2>11. r.at \in Nat BY <2>6, <2>7 DEF PrefixWidth
  <2>12. ASSUME NEW j \in 1 .. i PROVE r.fields[j] = Goes(after[j - 1], Views(hist)[j])
    <3>1. CASE j = i BY <2>10, <3>1 DEF prev, v
    <3>2. CASE j # i
      <4>1. j \in 1 .. i - 1 BY <2>1, <3>2
      <4>2. prev.fields[j] = Goes(after[j - 1], Views(hist)[j]) BY <2>4, <4>1 DEF Placed, prev
      <4> QED BY <2>10, <4>1, <4>2
    <3> QED BY <3>1, <3>2
  <2>13. Placed(after, i) BY <2>10, <2>11, <2>12 DEF Placed, r
  <2> QED BY <1>1, <2>13
<1> QED BY <1>1, <1>2, <1>3

\* The bytes, when the names of this slot go where they are viewed.
Written(s, after, i) ==
  /\ Untouched(s, after[i])
  /\ \A j \in 1 .. i :
       LET f == Goes(after[j - 1], Views(hist)[j])
       IN  /\ f.at + f.width <= after[i].at
           /\ Occurs(after[i].bytes, f.at, f.width)
                = {[at |-> f.at, width |-> f.width, name |-> Read(Views(hist)[j], Bytes)]}

LEMMA AfterFacts ==
  ASSUME NEW s \in Slots, NEW n \in Nat, NEW after, IsAfter(s, n, after),
         \A i \in 1 .. n : Views(hist)[i] \in AllViews,
         \A i \in 1 .. n : Views(hist)[i].slot = s
                             => Views(hist)[i].at = after[i - 1].at + PrefixWidth
  PROVE  Written(s, after, n)
<1> DEFINE Bad == {i \in 0 .. n : ~Written(s, after, i)}
<1> SUFFICES ASSUME Bad # {} PROVE FALSE OBVIOUS
<1>0. \A i \in 0 .. n : Placed(after, i) BY PlacedFacts
<1>1. PICK i \in Bad : \A y \in Bad : i <= y
  <2>1. Bad \in SUBSET Nat OBVIOUS
  <2>2. Min(Bad) \in Bad /\ \A y \in Bad : Min(Bad) <= y BY <2>1, MinFacts
  <2> QED BY <2>2
<1>2. CASE i = 0
  <2>1. after[0] = [bytes |-> Bytes[s], at |-> 0, fields |-> << >>] BY DEF IsAfter
  <2>2. Written(s, after, 0) BY <2>1 DEF Written, Untouched
  <2> QED BY <1>1, <1>2, <2>2
<1>3. CASE i > 0
  <2> DEFINE prev == after[i - 1] v == Views(hist)[i] r == after[i] f == Goes(prev, v)
  <2>1. i \in Nat /\ i \in 1 .. n /\ i - 1 \in 0 .. n BY <1>1, <1>3
  <2>2. r = Step(s, Bytes, v, prev) BY <1>3, <2>1 DEF IsAfter
  <2>3. i - 1 \notin Bad BY <1>1, <2>1
  <2>4. Written(s, after, i - 1) BY <2>1, <2>3
  <2>5. prev.at \in Nat BY <1>0, <2>1 DEF Placed
  <2>6. v \in AllViews /\ (v.slot = s => v.at = prev.at + PrefixWidth) BY <2>1
  <2> HIDE DEF prev, v, r
  <2>7. Untouched(s, prev) BY <2>4 DEF Written, prev
  <2>8. /\ r.at = f.at + f.width
        /\ Occurs(r.bytes, f.at, f.width)
             = {[at |-> f.at, width |-> f.width, name |-> Read(v, Bytes)]}
        /\ \A a \in Nat : \A w \in Nat :
             w > 0 /\ (a + w <= prev.at \/ a >= r.at)
               => Occurs(r.bytes, a, w) = Occurs(prev.bytes, a, w)
    BY <2>2, <2>5, <2>6, <2>7, StepFacts
  <2>9. /\ f.at = prev.at + PrefixWidth /\ f.width = v.width /\ f.at \in Nat
        /\ f.width \in Nat /\ f.width > 0 /\ r.at \in Nat /\ r.at >= prev.at
    <3>1. f.at = prev.at + PrefixWidth /\ f.width = v.width BY DEF Goes
    <3>2. v.width \in Nat /\ v.width > 0 BY <2>6, ViewKinds
    <3> HIDE DEF f
    <3> QED BY <2>5, <2>8, <3>1, <3>2 DEF PrefixWidth
  <2> HIDE DEF f
  <2>10. Untouched(s, r)
    <3> SUFFICES ASSUME NEW a \in Nat, NEW w \in Nat, w > 0, a >= r.at
                 PROVE  Occurs(r.bytes, a, w) = Occurs(Bytes[s], a, w)
      BY DEF Untouched
    <3>1. a >= prev.at BY <2>5, <2>9
    <3> QED BY <2>7, <2>8, <3>1 DEF Untouched
  <2>11. ASSUME NEW j \in 1 .. i
         PROVE  LET g == Goes(after[j - 1], Views(hist)[j])
                IN  /\ g.at + g.width <= r.at
                    /\ Occurs(r.bytes, g.at, g.width)
                         = {[at |-> g.at, width |-> g.width, name |-> Read(Views(hist)[j], Bytes)]}
    <3>1. CASE j = i BY <2>8, <2>9, <3>1 DEF f, prev, v
    <3>2. CASE j # i
      <4> DEFINE g == Goes(after[j - 1], Views(hist)[j])
      <4>1. j \in 1 .. i - 1 /\ j \in 1 .. n /\ j - 1 \in 0 .. n BY <2>1, <3>2
      <4>2. /\ g.at + g.width <= prev.at
            /\ Occurs(prev.bytes, g.at, g.width)
                 = {[at |-> g.at, width |-> g.width, name |-> Read(Views(hist)[j], Bytes)]}
        BY <2>4, <4>1 DEF Written, prev
      <4>3. g.at \in Nat /\ g.width \in Nat /\ g.width > 0
        <5>1. after[j - 1].at \in Nat BY <1>0, <4>1 DEF Placed
        <5>2. Views(hist)[j].width \in Nat /\ Views(hist)[j].width > 0 BY <4>1, ViewKinds
        <5> QED BY <5>1, <5>2 DEF Goes, PrefixWidth
      <4> HIDE DEF g
      <4>4. Occurs(r.bytes, g.at, g.width) = Occurs(prev.bytes, g.at, g.width) BY <2>8, <4>2, <4>3
      <4>5. g.at + g.width <= r.at BY <2>5, <2>9, <4>2, <4>3
      <4> QED BY <4>2, <4>4, <4>5 DEF g
    <3> QED BY <3>1, <3>2
  <2>12. Written(s, after, i) BY <2>10, <2>11 DEF Written, r
  <2> QED BY <1>1, <2>12
<1> QED BY <1>1, <1>2, <1>3

\* The views of a history, by their place.
LEMMA ViewsFacts ==
  ASSUME NEW S, NEW h \in Seq([parent : S, sub : S])
  PROVE  /\ Len(Views(h)) = 2 * Len(h) /\ 2 * Len(h) \in Nat
         /\ \A i \in 1 .. Len(h) : /\ 2 * i - 1 \in 1 .. 2 * Len(h) /\ 2 * i \in 1 .. 2 * Len(h)
                                   /\ Views(h)[2 * i - 1] = h[i].parent
                                   /\ Views(h)[2 * i] = h[i].sub
         /\ \A j \in 1 .. 2 * Len(h) : \E i \in 1 .. Len(h) : j = 2 * i - 1 \/ j = 2 * i
<1>0. \A k \in 1 .. Len(h) : h[k] \in [parent : S, sub : S] BY ElementOfSeq
<1>1. Len(h) \in Nat OBVIOUS
<1>2. Views(h) = [i \in 1 .. 2 * Len(h) |->
                    IF i % 2 = 1 THEN h[(i + 1) \div 2].parent ELSE h[i \div 2].sub]
  BY DEF Views
<1>3. Len(Views(h)) = 2 * Len(h)
  <2>1. DOMAIN Views(h) = 1 .. 2 * Len(h) BY <1>2
  <2>2. Views(h) \in Seq(S)
    <3> SUFFICES ASSUME NEW i \in 1 .. 2 * Len(h)
                 PROVE  (IF i % 2 = 1 THEN h[(i + 1) \div 2].parent ELSE h[i \div 2].sub) \in S
      BY <1>1, <1>2
    <3>1. CASE i % 2 = 1
      <4>1. (i + 1) \div 2 \in 1 .. Len(h) BY <1>1, <3>1
      <4>2. h[(i + 1) \div 2] \in [parent : S, sub : S] BY <1>0, <4>1
      <4>3. h[(i + 1) \div 2].parent \in S BY <4>2
      <4> QED BY <3>1, <4>3
    <3>2. CASE i % 2 # 1
      <4>1. i \div 2 \in 1 .. Len(h) BY <1>1, <3>2
      <4>2. h[i \div 2] \in [parent : S, sub : S] BY <1>0, <4>1
      <4>3. h[i \div 2].sub \in S BY <4>2
      <4> QED BY <3>2, <4>3
    <3> QED BY <3>1, <3>2
  <2>3. 2 * Len(h) \in Nat BY <1>1
  <2> QED BY <2>1, <2>2, <2>3, LenProperties
<1>4. ASSUME NEW i \in 1 .. Len(h)
      PROVE  /\ 2 * i - 1 \in 1 .. 2 * Len(h) /\ 2 * i \in 1 .. 2 * Len(h)
             /\ Views(h)[2 * i - 1] = h[i].parent /\ Views(h)[2 * i] = h[i].sub
  <2>1. 2 * i - 1 \in 1 .. 2 * Len(h) /\ 2 * i \in 1 .. 2 * Len(h) BY <1>1
  <2>2. (2 * i - 1) % 2 = 1 /\ (2 * i - 1 + 1) \div 2 = i /\ (2 * i) % 2 = 0 /\ (2 * i) \div 2 = i
    BY <1>1
  <2> QED BY <1>2, <2>1, <2>2
<1>5. ASSUME NEW j \in 1 .. 2 * Len(h)
      PROVE  \E i \in 1 .. Len(h) : j = 2 * i - 1 \/ j = 2 * i
  <2>1. (j + 1) \div 2 \in 1 .. Len(h) BY <1>1
  <2>2. j = 2 * ((j + 1) \div 2) - 1 \/ j = 2 * ((j + 1) \div 2) BY <1>1
  <2> QED BY <2>1, <2>2
<1>6. 2 * Len(h) \in Nat BY <1>1
<1> HIDE DEF Views
<1> QED BY <1>3, <1>4, <1>5, <1>6

-----------------------------------------------------------------------------
(* A history that is read right: read with the bytes b, its entries are    *)
(* the life l.                                                             *)

Reads(h, l, b) ==
  /\ h \in Seq(Entries) /\ Len(h) <= HistoryCapacity
  /\ l \in [Composites -> Names \cup {None}]
  /\ \A i \in DOMAIN h : /\ Read(h[i].parent, b) \in Composites /\ Read(h[i].sub, b) \in Names
                         /\ l[Read(h[i].parent, b)] = Read(h[i].sub, b)
  /\ \A i, j \in DOMAIN h : Read(h[i].parent, b) = Read(h[j].parent, b) => i = j
  /\ \A p \in Composites : l[p] = None \/ \E i \in DOMAIN h : Read(h[i].parent, b) = p

\* The history that is made of views of the first fields of slot s.
Reborn(s, fields, k) ==
  [i \in 1 .. k |-> [parent |-> View(s, fields[2 * i - 1]), sub |-> View(s, fields[2 * i])]]

SlotReads(s) ==
  LET fields == buffer[s].fields
  IN  /\ fields \in Seq(Fields)
      /\ \E k \in Nat : /\ Len(fields) = 2 * k
                        /\ Reads(Reborn(s, fields, k), buffer[s].lived, Bytes)

LivedInv == Reads(hist, lived, Bytes) /\ \A s \in Slots : SlotReads(s)

Roomy == IsFiniteSet(Composites) /\ Cardinality(Composites) <= HistoryCapacity

LEMMA NameFacts ==
  /\ None \notin Names /\ Garbage \notin Names /\ Composites \subseteq Names
  /\ \A m \in Images : Path[m] \in Seq(Pairs)
  /\ \A pair \in Pairs : pair.parent \in Composites /\ pair.sub \in Names
BY SnapshotRecorderAssumption DEF Assumptions, Names, Composites

LEMMA EntryFacts ==
  ASSUME NEW h \in Seq(Entries)
  PROVE  /\ Len(h) \in Nat /\ DOMAIN h = 1 .. Len(h)
         /\ \A i \in DOMAIN h : h[i] \in Entries
<1>1. \A i \in 1 .. Len(h) : h[i] \in Entries BY ElementOfSeq
<1> QED BY <1>1, LenProperties

LEMMA RebornFacts ==
  ASSUME NEW s \in Slots, NEW fields \in Seq(Fields), NEW k \in Nat, 2 * k <= Len(fields)
  PROVE  /\ Reborn(s, fields, k) \in Seq(Entries) /\ Len(Reborn(s, fields, k)) = k
         /\ \A i \in 1 .. k : /\ Reborn(s, fields, k)[i].parent = View(s, fields[2 * i - 1])
                              /\ Reborn(s, fields, k)[i].sub = View(s, fields[2 * i])
<1>1. \A i \in 1 .. k : View(s, fields[2 * i - 1]) \in AllViews /\ View(s, fields[2 * i]) \in AllViews
  <2> SUFFICES ASSUME NEW i \in 1 .. k
               PROVE  View(s, fields[2 * i - 1]) \in AllViews /\ View(s, fields[2 * i]) \in AllViews
    OBVIOUS
  <2>1. 2 * i - 1 \in 1 .. Len(fields) /\ 2 * i \in 1 .. Len(fields) OBVIOUS
  <2>2. fields[2 * i - 1] \in Fields /\ fields[2 * i] \in Fields BY <2>1, ElementOfSeq
  <2> QED BY <2>2 DEF AllViews
<1>2. Reborn(s, fields, k) \in [1 .. k -> Entries] BY <1>1 DEF Reborn, Entries
<1>3. Reborn(s, fields, k) \in Seq(Entries) /\ Len(Reborn(s, fields, k)) = k
  <2>1. Reborn(s, fields, k) \in Seq(Entries) BY <1>2, SeqDef
  <2>2. DOMAIN Reborn(s, fields, k) = 1 .. k BY <1>2
  <2>3. /\ Len(Reborn(s, fields, k)) \in Nat
        /\ DOMAIN Reborn(s, fields, k) = 1 .. Len(Reborn(s, fields, k))
    BY <2>1, LenProperties
  <2> QED BY <2>1, <2>2, <2>3
<1>4. ASSUME NEW i \in 1 .. k
      PROVE  /\ Reborn(s, fields, k)[i].parent = View(s, fields[2 * i - 1])
             /\ Reborn(s, fields, k)[i].sub = View(s, fields[2 * i])
  BY DEF Reborn
<1> QED BY <1>3, <1>4

\* Another history in which the same is read is read right, too.
LEMMA SameReading ==
  ASSUME NEW h, NEW l, NEW b, Reads(h, l, b), NEW g \in Seq(Entries), NEW c, Len(g) = Len(h),
         \A i \in 1 .. Len(h) : /\ Read(g[i].parent, c) = Read(h[i].parent, b)
                                /\ Read(g[i].sub, c) = Read(h[i].sub, b)
  PROVE  Reads(g, l, c)
<1>1. h \in Seq(Entries) /\ DOMAIN h = 1 .. Len(h) /\ DOMAIN g = 1 .. Len(h)
  BY EntryFacts DEF Reads
<1>2. Len(g) <= HistoryCapacity /\ l \in [Composites -> Names \cup {None}] BY DEF Reads
<1>3. \A i \in DOMAIN h : /\ Read(h[i].parent, b) \in Composites /\ Read(h[i].sub, b) \in Names
                          /\ l[Read(h[i].parent, b)] = Read(h[i].sub, b)
  BY DEF Reads
<1>4. \A i \in DOMAIN g : /\ Read(g[i].parent, c) \in Composites /\ Read(g[i].sub, c) \in Names
                          /\ l[Read(g[i].parent, c)] = Read(g[i].sub, c)
  BY <1>1, <1>3
<1>5. \A i, j \in DOMAIN g : Read(g[i].parent, c) = Read(g[j].parent, c) => i = j
  <2>1. \A i, j \in DOMAIN h : Read(h[i].parent, b) = Read(h[j].parent, b) => i = j
    BY DEF Reads
  <2> QED BY <1>1, <2>1
<1>6. \A p \in Composites : l[p] = None \/ \E i \in DOMAIN g : Read(g[i].parent, c) = p
  <2>1. \A p \in Composites : l[p] = None \/ \E i \in DOMAIN h : Read(h[i].parent, b) = p
    BY DEF Reads
  <2> QED BY <1>1, <2>1
<1> QED BY <1>2, <1>4, <1>5, <1>6 DEF Reads

LEMMA FullHouse ==
  ASSUME Roomy, NEW h, NEW l, NEW b, Reads(h, l, b), NEW p \in Composites,
         \A i \in DOMAIN h : Read(h[i].parent, b) # p
  PROVE  Len(h) < HistoryCapacity
<1> DEFINE f == [i \in 1 .. Len(h) |-> Read(h[i].parent, b)]
           T == Composites \ {p}
<1>1. Len(h) \in Nat /\ DOMAIN h = 1 .. Len(h) BY EntryFacts DEF Reads
<1>2. f \in [1 .. Len(h) -> T] BY <1>1 DEF Reads
<1>3. f \in Injection(1 .. Len(h), T) BY <1>1, <1>2 DEF Reads, Injection, IsInjective
<1>4. IsFiniteSet(T) /\ Cardinality(T) = Cardinality(Composites) - 1
  BY FS_RemoveElement DEF Roomy
<1> HIDE DEF f, T
<1>5. Cardinality(1 .. Len(h)) <= Cardinality(T)
  <2>1. \A D : f \in Injection(D, T) => Cardinality(D) <= Cardinality(T)
    BY ONLY <1>4, FS_Injection
  <2> QED BY <1>3, <2>1
<1>6. Cardinality(1 .. Len(h)) = Len(h)
  <2>1. Cardinality(1 .. Len(h)) = IF 1 > Len(h) THEN 0 ELSE Len(h) - 1 + 1
    <3>1. 1 \in Int /\ Len(h) \in Int BY <1>1
    <3> QED BY ONLY <3>1, FS_Interval
  <2> QED BY <1>1, <2>1
<1>7. Cardinality(Composites) \in Nat /\ HistoryCapacity \in Nat
  BY FS_CardinalityType, SnapshotRecorderAssumption DEF Roomy, Assumptions
<1> QED BY <1>1, <1>4, <1>5, <1>6, <1>7 DEF Roomy

\* record_history() of names of the program.
LEMMA RememberFacts ==
  ASSUME Roomy, NEW h, NEW l, NEW b, Reads(h, l, b), NEW p \in Composites, NEW q \in Names
  PROVE  Reads(Remember(h, Static(p), Static(q), b), [l EXCEPT ![p] = q], b)
<1> DEFINE places == Places(h, p, b) m == Min(places)
           r == Remember(h, Static(p), Static(q), b) k == [l EXCEPT ![p] = q]
<1>1. Read(Static(p), b) = p /\ Read(Static(q), b) = q /\ p # Garbage /\ p \in Names
  BY ReadStatic, NameFacts
<1>2. /\ h \in Seq(Entries) /\ Len(h) \in Nat /\ DOMAIN h = 1 .. Len(h)
      /\ \A i \in DOMAIN h : h[i] \in Entries
  BY EntryFacts DEF Reads
<1>3. places = {i \in DOMAIN h : Read(h[i].parent, b) = p} BY DEF Places
<1>4. k \in [Composites -> Names \cup {None}]
      /\ k[p] = q /\ \A x \in Composites : x # p => k[x] = l[x]
  BY DEF Reads
<1>5. Static(p) \in AllViews /\ Static(q) \in AllViews BY <1>1 DEF AllViews
<1> HIDE DEF k
<1>7. CASE places # {}
  <2>1. m \in DOMAIN h /\ Read(h[m].parent, b) = p
    <3>1. places \in SUBSET Nat BY <1>2, <1>3
    <3>2. m \in places BY <1>7, <3>1, MinFacts
    <3> QED BY <1>3, <3>2
  <2>2. r = [h EXCEPT ![m].sub = Static(q)] BY <1>1, <1>7 DEF Remember
  <2> HIDE DEF m, r
  <2>3. DOMAIN r = DOMAIN h /\ \A i \in DOMAIN h : i # m => r[i] = h[i] BY <2>2
  <2>4. r[m] = [h[m] EXCEPT !.sub = Static(q)] BY <2>1, <2>2
  <2>5. r[m] \in Entries /\ r[m].parent = h[m].parent /\ r[m].sub = Static(q)
    BY <1>2, <1>5, <2>1, <2>4 DEF Entries
  <2>6. r \in Seq(Entries) /\ Len(r) = Len(h)
    <3>1. \A i \in DOMAIN h : r[i] \in Entries BY <1>2, <2>3, <2>5
    <3>2. r \in [1 .. Len(h) -> Entries] BY <1>2, <2>2, <3>1
    <3>3. r \in Seq(Entries) BY <1>2, <3>2, SeqDef
    <3> QED BY <1>2, <2>3, <3>3, LenProperties
  <2>7. \A i \in DOMAIN h : r[i].parent = h[i].parent BY <2>3, <2>5
  <2>8. \A i \in DOMAIN h : i # m => Read(h[i].parent, b) # p BY <2>1 DEF Reads
  <2>9. ASSUME NEW i \in DOMAIN r
        PROVE  /\ Read(r[i].parent, b) \in Composites /\ Read(r[i].sub, b) \in Names
               /\ k[Read(r[i].parent, b)] = Read(r[i].sub, b)
    <3>1. CASE i = m BY <1>1, <1>4, <2>1, <2>5, <3>1 DEF Reads
    <3>2. CASE i # m BY <1>4, <2>3, <2>8, <3>2 DEF Reads
    <3> QED BY <3>1, <3>2
  <2>10. \A i, j \in DOMAIN r : Read(r[i].parent, b) = Read(r[j].parent, b) => i = j
    BY <2>3, <2>7 DEF Reads
  <2>11. \A x \in Composites : k[x] = None \/ \E i \in DOMAIN r : Read(r[i].parent, b) = x
    BY <1>4, <2>1, <2>3, <2>7 DEF Reads
  <2>12. Len(r) <= HistoryCapacity BY <2>6 DEF Reads
  <2>13. Reads(r, k, b) BY <1>4, <2>6, <2>9, <2>10, <2>11, <2>12 DEF Reads
  <2> QED BY <2>13 DEF r, k
<1>8. CASE places = {}
  <2> DEFINE e == [parent |-> Static(p), sub |-> Static(q)]
  <2>1. \A i \in DOMAIN h : Read(h[i].parent, b) # p BY <1>3, <1>8
  <2>2. Len(h) < HistoryCapacity BY <2>1, FullHouse
  <2>3. r = Append(h, e) BY <1>1, <1>8, <2>2 DEF Remember
  <2>4. e \in Entries /\ e.parent = Static(p) /\ e.sub = Static(q) BY <1>5 DEF Entries
  <2> HIDE DEF e, r
  <2>5. /\ r \in Seq(Entries) /\ Len(r) = Len(h) + 1 /\ r[Len(h) + 1] = e
        /\ \A i \in 1 .. Len(h) : r[i] = h[i]
    BY <1>2, <2>3, <2>4, AppendProperties
  <2>6. DOMAIN r = 1 .. Len(h) + 1 BY <2>5, LenProperties
  <2>7. \A i \in DOMAIN r : (i \in DOMAIN h /\ r[i] = h[i]) \/ (i = Len(h) + 1 /\ r[i] = e)
    <3> SUFFICES ASSUME NEW i \in DOMAIN r
                 PROVE  (i \in DOMAIN h /\ r[i] = h[i]) \/ (i = Len(h) + 1 /\ r[i] = e)
      OBVIOUS
    <3>1. i \in 1 .. Len(h) \/ i = Len(h) + 1 BY <1>2, <2>6
    <3>2. CASE i \in 1 .. Len(h) BY <1>2, <2>5, <3>2
    <3>3. CASE i = Len(h) + 1 BY <2>5, <3>3
    <3> QED BY <3>1, <3>2, <3>3
  <2>8. \A i \in DOMAIN h : i \in DOMAIN r /\ r[i] = h[i] BY <1>2, <2>5, <2>6
  <2>9. ASSUME NEW i \in DOMAIN r
        PROVE  /\ Read(r[i].parent, b) \in Composites /\ Read(r[i].sub, b) \in Names
               /\ k[Read(r[i].parent, b)] = Read(r[i].sub, b)
    <3>1. CASE r[i] = e BY <1>1, <1>4, <2>4, <3>1
    <3>2. CASE i \in DOMAIN h /\ r[i] = h[i] BY <1>4, <2>1, <3>2 DEF Reads
    <3> QED BY <2>7, <3>1, <3>2
  <2>10. \A i, j \in DOMAIN r : Read(r[i].parent, b) = Read(r[j].parent, b) => i = j
    <3> SUFFICES ASSUME NEW i \in DOMAIN r, NEW j \in DOMAIN r,
                        Read(r[i].parent, b) = Read(r[j].parent, b)
                 PROVE  i = j
      OBVIOUS
    <3>1. Read(e.parent, b) = p BY <1>1, <2>4
    <3> QED BY <2>1, <2>7, <3>1 DEF Reads
  <2>11. \A x \in Composites : k[x] = None \/ \E i \in DOMAIN r : Read(r[i].parent, b) = x
    <3> SUFFICES ASSUME NEW x \in Composites, k[x] # None
                 PROVE  \E i \in DOMAIN r : Read(r[i].parent, b) = x
      OBVIOUS
    <3>1. CASE x = p
      <4>1. Len(h) + 1 \in DOMAIN r BY <1>2, <2>6
      <4> QED BY <1>1, <2>4, <2>5, <3>1, <4>1
    <3>2. CASE x # p
      <4>1. PICK i \in DOMAIN h : Read(h[i].parent, b) = x BY <1>4, <3>2 DEF Reads
      <4> QED BY <2>8, <4>1
    <3> QED BY <3>1, <3>2
  <2>12. Len(r) <= HistoryCapacity
    BY <1>2, <2>2, <2>5, SnapshotRecorderAssumption DEF Assumptions
  <2>13. Reads(r, k, b) BY <1>4, <2>5, <2>9, <2>10, <2>11, <2>12 DEF Reads
  <2> QED BY <2>13 DEF r, k
<1> QED BY <1>7, <1>8
-----------------------------------------------------------------------------
(* What deserialize() makes of a slot.                                     *)

LEMMA RebornAppend ==
  ASSUME NEW s \in Slots, NEW fields \in Seq(Fields), NEW n \in Nat, 2 * (n + 1) <= Len(fields)
  PROVE  Append(Reborn(s, fields, n),
                [parent |-> View(s, fields[2 * (n + 1) - 1]), sub |-> View(s, fields[2 * (n + 1)])])
           = Reborn(s, fields, n + 1)
<1> DEFINE e == [parent |-> View(s, fields[2 * (n + 1) - 1]), sub |-> View(s, fields[2 * (n + 1)])]
           a == Append(Reborn(s, fields, n), e)
<1>0. 2 * n <= Len(fields) OBVIOUS
<1>1. Reborn(s, fields, n) \in Seq(Entries) /\ Len(Reborn(s, fields, n)) = n BY <1>0, RebornFacts
<1>2. n + 1 \in Nat OBVIOUS
<1>3. Reborn(s, fields, n + 1) \in Seq(Entries) /\ Len(Reborn(s, fields, n + 1)) = n + 1
  BY <1>2, RebornFacts
<1>4. Reborn(s, fields, n + 1)[n + 1] = e BY DEF Reborn
<1>5. e \in Entries
  <2>1. n + 1 \in 1 .. n + 1 BY <1>2
  <2> HIDE DEF e
  <2> QED BY <1>3, <1>4, <2>1, ElementOfSeq
<1>6. \A i \in 1 .. n : Reborn(s, fields, n)[i] = Reborn(s, fields, n + 1)[i] BY DEF Reborn
<1> HIDE DEF e
<1>7. /\ a \in Seq(Entries) /\ Len(a) = n + 1 /\ a[n + 1] = e
      /\ \A i \in 1 .. n : a[i] = Reborn(s, fields, n)[i]
  BY <1>1, <1>5, AppendProperties
<1> HIDE DEF a
<1>8. \A i \in 1 .. n + 1 : a[i] = Reborn(s, fields, n + 1)[i]
  <2> SUFFICES ASSUME NEW i \in 1 .. n + 1 PROVE a[i] = Reborn(s, fields, n + 1)[i] OBVIOUS
  <2>1. i \in 1 .. n \/ i = n + 1 OBVIOUS
  <2> QED BY <1>4, <1>6, <1>7, <2>1
<1>9. a = Reborn(s, fields, n + 1) BY <1>3, <1>7, <1>8, SeqEqual
<1> QED BY <1>9 DEF a, e

\* The entries of a slot that is read right are appended one after the other.
LEMMA RestoredFacts ==
  ASSUME NEW s \in Slots, NEW k \in Nat,
         buffer[s].fields \in Seq(Fields), Len(buffer[s].fields) = 2 * k,
         Reads(Reborn(s, buffer[s].fields, k), buffer[s].lived, Bytes)
  PROVE  Restored(s) = Reborn(s, buffer[s].fields, k)
<1> DEFINE fields == buffer[s].fields
           Next1(e, i) == Remember(e, View(s, fields[2 * i - 1]), View(s, fields[2 * i]), Bytes)
           IsEntries(e) == e = [i \in 0 .. Len(fields) \div 2 |->
                                  IF i = 0 THEN << >> ELSE Next1(e[i - 1], i)]
<1>1. Restored(s) = (CHOOSE e : IsEntries(e))[Len(fields) \div 2] BY DEF Restored
<1>2. Len(fields) = 2 * k /\ fields \in Seq(Fields) OBVIOUS
<1>3. Len(fields) \div 2 = k BY <1>2
<1>4. ASSUME NEW i \in 1 .. k PROVE Next1(Reborn(s, fields, i - 1), i) = Reborn(s, fields, i)
  <2> DEFINE p == View(s, fields[2 * i - 1]) q == View(s, fields[2 * i]) h == Reborn(s, fields, i - 1)
  <2>1. i - 1 \in Nat /\ (i - 1) + 1 = i /\ 2 * i - 1 \in 1 .. 2 * k /\ 2 * i \in 1 .. 2 * k
    OBVIOUS
  <2>2. fields \in Seq(Fields) /\ 2 * (i - 1) <= Len(fields) /\ 2 * ((i - 1) + 1) <= Len(fields)
    BY <1>2
  <2>3. h \in Seq(Entries) /\ Len(h) = i - 1
    <3> HIDE DEF fields
    <3> QED BY <2>1, <2>2, RebornFacts
  <2>4. \A j \in 1 .. i - 1 : Read(h[j].parent, Bytes) # Read(p, Bytes)
    <3> SUFFICES ASSUME NEW j \in 1 .. i - 1, Read(h[j].parent, Bytes) = Read(p, Bytes)
                 PROVE  FALSE
      OBVIOUS
    <3>1. DOMAIN Reborn(s, fields, k) = 1 .. k /\ j \in 1 .. k /\ j # i BY DEF Reborn
    <3>2. Reborn(s, fields, k)[j].parent = h[j].parent /\ Reborn(s, fields, k)[i].parent = p BY <3>1 DEF Reborn
    <3> HIDE DEF h, p
    <3> QED BY <3>1, <3>2 DEF Reads
  <2>5. Places(h, Read(p, Bytes), Bytes) = {}
    <3>1. DOMAIN h = 1 .. i - 1 BY DEF Reborn
    <3> HIDE DEF h, p
    <3> QED BY <2>4, <3>1 DEF Places
  <2>6. Len(h) < HistoryCapacity
    <3>1. Len(Reborn(s, fields, k)) = k BY RebornFacts
    <3>2. k <= HistoryCapacity /\ HistoryCapacity \in Nat
      BY <3>1, SnapshotRecorderAssumption DEF Reads, Assumptions
    <3> QED BY <2>3, <3>2
  <2>7. Append(h, [parent |-> p, sub |-> q]) = Reborn(s, fields, i)
    <3> HIDE DEF fields
    <3>1. Append(Reborn(s, fields, i - 1),
                 [parent |-> View(s, fields[2 * ((i - 1) + 1) - 1]),
                  sub |-> View(s, fields[2 * ((i - 1) + 1)])])
            = Reborn(s, fields, (i - 1) + 1)
      BY <2>1, <2>2, RebornAppend
    <3> QED BY <2>1, <3>1
  <2> HIDE DEF h, p, q, fields
  <2>8. Remember(h, p, q, Bytes) = Append(h, [parent |-> p, sub |-> q])
    BY <2>5, <2>6 DEF Remember
  <2>9. Next1(h, i) = Remember(h, p, q, Bytes) BY DEF p, q
  <2> HIDE DEF Next1
  <2> QED BY <2>7, <2>8, <2>9 DEF h
<1> HIDE DEF fields, Next1
<1>5. Reborn(s, fields, 0) = << >> BY DEF Reborn
<1>6. IsEntries([i \in 0 .. k |-> Reborn(s, fields, i)])
  <2> DEFINE c == [i \in 0 .. k |-> Reborn(s, fields, i)]
  <2>1. \A i \in 0 .. k : c[i] = IF i = 0 THEN << >> ELSE Next1(c[i - 1], i)
    <3> SUFFICES ASSUME NEW i \in 0 .. k
                 PROVE  c[i] = IF i = 0 THEN << >> ELSE Next1(c[i - 1], i)
      OBVIOUS
    <3>1. CASE i = 0 BY <1>5, <3>1
    <3>2. CASE i # 0
      <4>1. i \in 1 .. k /\ i - 1 \in 0 .. k BY <3>2
      <4>2. c[i - 1] = Reborn(s, fields, i - 1) /\ c[i] = Reborn(s, fields, i) BY <4>1
      <4> HIDE DEF c
      <4> QED BY <1>4, <3>2, <4>1, <4>2
    <3> QED BY <3>1, <3>2
  <2>2. c = [i \in 0 .. k |-> c[i]] OBVIOUS
  <2> HIDE DEF c
  <2>3. c = [i \in 0 .. k |-> IF i = 0 THEN << >> ELSE Next1(c[i - 1], i)] BY <2>1, <2>2
  <2>4. IsEntries(c) BY <1>3, <2>3
  <2> QED BY <2>4 DEF c
<1>7. ASSUME NEW e, IsEntries(e) PROVE e[k] = Reborn(s, fields, k)
  <2> DEFINE Bad == {i \in 0 .. k : e[i] # Reborn(s, fields, i)}
  <2>1. \A i \in 0 .. k : e[i] = IF i = 0 THEN << >> ELSE Next1(e[i - 1], i)
    <3>1. e = [i \in 0 .. k |-> IF i = 0 THEN << >> ELSE Next1(e[i - 1], i)] BY <1>3, <1>7
    <3> QED BY <3>1
  <2> HIDE DEF IsEntries
  <2> SUFFICES ASSUME Bad # {} PROVE FALSE OBVIOUS
  <2>2. PICK i \in Bad : \A y \in Bad : i <= y
    <3>1. Bad \in SUBSET Nat OBVIOUS
    <3>2. Min(Bad) \in Bad /\ \A y \in Bad : Min(Bad) <= y BY <3>1, MinFacts
    <3> QED BY <3>2
  <2>3. i # 0 BY <1>5, <2>1, <2>2
  <2>4. i \in 1 .. k /\ i - 1 \in 0 .. k /\ i - 1 \notin Bad BY <2>2, <2>3
  <2>5. e[i - 1] = Reborn(s, fields, i - 1) BY <2>4
  <2> QED BY <1>4, <2>1, <2>2, <2>3, <2>4, <2>5
<1>8. (CHOOSE e : IsEntries(e))[k] = Reborn(s, fields, k)
  <2> HIDE DEF IsEntries
  <2>1. IsEntries(CHOOSE e : IsEntries(e)) BY <1>6
  <2> QED BY <1>7, <2>1
<1> QED BY <1>1, <1>3, <1>8 DEF fields
-----------------------------------------------------------------------------
(* What leaving a state records.                                           *)

Leave(i, r) ==
  LET pair == Path[image][i]
  IN  [hist  |-> Remember(r.hist, Static(pair.parent), Static(pair.sub), Bytes),
       lived |-> [r.lived EXCEPT ![pair.parent] = pair.sub]]
IsLeaving(n, left) ==
  left = [i \in 0 .. n |-> IF i = 0 THEN [hist |-> hist, lived |-> lived] ELSE Leave(i, left[i - 1])]

LEMMA LeavingExists ==
  ASSUME NEW m \in Nat
  PROVE  \E left : IsLeaving(m, left)
<1> DEFINE Bad == {k \in Nat : ~\E left : IsLeaving(k, left)}
           first == [hist |-> hist, lived |-> lived]
<1> SUFFICES ASSUME Bad # {} PROVE FALSE OBVIOUS
<1>1. PICK k \in Bad : \A y \in Bad : k <= y
  <2>1. Min(Bad) \in Bad /\ \A y \in Bad : Min(Bad) <= y BY MinFacts
  <2> QED BY <2>1
<1>2. CASE k = 0
  <2>1. 0 .. 0 = {0} OBVIOUS
  <2>2. IsLeaving(0, [i \in 0 .. 0 |-> first]) BY <2>1 DEF IsLeaving
  <2> QED BY <1>1, <1>2, <2>2
<1>3. CASE k > 0
  <2>1. k - 1 \in Nat /\ k - 1 \notin Bad BY <1>1, <1>3
  <2>2. PICK a : IsLeaving(k - 1, a) BY <2>1
  <2> DEFINE c == [i \in 0 .. k |-> IF i <= k - 1 THEN a[i] ELSE Leave(k, a[k - 1])]
             Next1(f, i) == IF i = 0 THEN first ELSE Leave(i, f[i - 1])
  <2>3. \A i \in 0 .. k - 1 : a[i] = Next1(a, i) BY <2>2 DEF IsLeaving
  <2>4. \A i \in 0 .. k : i > 0 => c[i - 1] = a[i - 1]
    <3> SUFFICES ASSUME NEW i \in 0 .. k, i > 0 PROVE c[i - 1] = a[i - 1] OBVIOUS
    <3>1. i - 1 \in 0 .. k /\ i - 1 <= k - 1 BY <1>1, <1>3
    <3> QED BY <3>1
  <2>5. \A i \in 0 .. k : c[i] = Next1(c, i)
    <3> SUFFICES ASSUME NEW i \in 0 .. k PROVE c[i] = Next1(c, i) OBVIOUS
    <3>1. CASE i <= k - 1
      <4>1. i \in 0 .. k - 1 BY <1>1, <3>1
      <4>2. c[i] = a[i] BY <3>1
      <4>3. Next1(a, i) = Next1(c, i) BY <2>4
      <4> HIDE DEF c, Next1
      <4> QED BY <2>3, <4>1, <4>2, <4>3
    <3>2. CASE i = k BY <1>3, <2>4, <3>2
    <3> QED BY <1>1, <3>1, <3>2
  <2>6. c = [i \in 0 .. k |-> Next1(c, i)]
    <3> HIDE DEF Next1
    <3>1. c = [i \in 0 .. k |-> c[i]] OBVIOUS
    <3> HIDE DEF c
    <3> QED BY <2>5, <3>1
  <2>7. IsLeaving(k, c)
    <3> HIDE DEF c
    <3> QED BY <2>6 DEF IsLeaving
  <2> QED BY <1>1, <2>7
<1> QED BY <1>1, <1>2, <1>3

LEMMA LeavingFacts ==
  ASSUME Roomy, Reads(hist, lived, Bytes), image \in Images
  PROVE  LET left == AfterLeaving(Len(Path[image])) IN Reads(left.hist, left.lived, Bytes)
<1> DEFINE n == Len(Path[image])
<1>1. Path[image] \in Seq(Pairs) /\ n \in Nat BY NameFacts
<1>2. \A i \in 1 .. n : Path[image][i] \in Pairs BY <1>1, ElementOfSeq
<1>3. AfterLeaving(n) = (CHOOSE left : IsLeaving(n, left))[n] BY DEF AfterLeaving, IsLeaving, Leave
<1> HIDE DEF n
<1>4. ASSUME NEW left, IsLeaving(n, left) PROVE Reads(left[n].hist, left[n].lived, Bytes)
  <2> DEFINE Bad == {i \in 0 .. n : ~Reads(left[i].hist, left[i].lived, Bytes)}
             first == [hist |-> hist, lived |-> lived]
  <2>1. \A i \in 0 .. n : left[i] = IF i = 0 THEN first ELSE Leave(i, left[i - 1])
    BY <1>4 DEF IsLeaving
  <2> SUFFICES ASSUME Bad # {} PROVE FALSE BY <1>1
  <2>2. PICK i \in Bad : \A y \in Bad : i <= y
    <3>1. Bad \in SUBSET Nat OBVIOUS
    <3>2. Min(Bad) \in Bad /\ \A y \in Bad : Min(Bad) <= y BY <3>1, MinFacts
    <3> QED BY <3>2
  <2>3. i # 0 BY <2>1, <2>2
  <2>4. i \in 1 .. n /\ i - 1 \in 0 .. n /\ i - 1 \notin Bad BY <1>1, <2>2, <2>3
  <2> DEFINE pair == Path[image][i] r == left[i - 1]
  <2>5. Reads(r.hist, r.lived, Bytes) BY <2>4
  <2>6. pair.parent \in Composites /\ pair.sub \in Names BY <1>2, <2>4, NameFacts
  <2>7. left[i] = [hist  |-> Remember(r.hist, Static(pair.parent), Static(pair.sub), Bytes),
                   lived |-> [r.lived EXCEPT ![pair.parent] = pair.sub]]
    BY <2>1, <2>3, <2>4 DEF Leave
  <2> HIDE DEF pair, r
  <2>8. Reads(Remember(r.hist, Static(pair.parent), Static(pair.sub), Bytes),
              [r.lived EXCEPT ![pair.parent] = pair.sub], Bytes)
    BY <2>5, <2>6, RememberFacts
  <2>9. Reads(left[i].hist, left[i].lived, Bytes) BY <2>7, <2>8
  <2> QED BY <2>2, <2>9
<1>5. Reads((CHOOSE left : IsLeaving(n, left))[n].hist,
            (CHOOSE left : IsLeaving(n, left))[n].lived, Bytes)
  <2> DEFINE left == CHOOSE l : IsLeaving(n, l)
  <2>1. IsLeaving(n, left) BY <1>1, LeavingExists
  <2> HIDE DEF left
  <2>2. Reads(left[n].hist, left[n].lived, Bytes) BY <1>4, <2>1
  <2> QED BY <2>2 DEF left
<1> QED BY <1>3, <1>5 DEF n
-----------------------------------------------------------------------------
(* What record() leaves of the names.                                      *)

LEMMA ReadOne ==
  ASSUME NEW s \in Slots, NEW f, NEW b, NEW x,
         Occurs(b[s], f.at, f.width) = {[at |-> f.at, width |-> f.width, name |-> x]}
  PROVE  Read(View(s, f), b) = x
<1> DEFINE v == View(s, f) g == [at |-> f.at, width |-> f.width, name |-> x]
           there == {h \in b[v.slot] : h.at = v.at /\ h.width = v.width}
<1>1. s # Nowhere BY NowhereFacts
<1>2. v.slot = s /\ v.at = f.at /\ v.width = f.width BY DEF View
<1>3. g.name = x OBVIOUS
<1> HIDE DEF v, g
<1>4. there = {g} BY <1>2 DEF Occurs, g
<1>5. Read(v, b) = IF v.slot = Nowhere THEN v.name
                   ELSE IF there = {} THEN Garbage ELSE (CHOOSE h \in there : TRUE).name
  BY DEF Read
<1> HIDE DEF there
<1>6. (CHOOSE h \in there : TRUE) = g BY <1>4
<1> QED BY <1>1, <1>2, <1>3, <1>4, <1>5, <1>6 DEF v

LEMMA SerializedFacts ==
  ASSUME head \in Slots, hist \in Seq(Entries), InPlace
  PROVE  LET fields == Serialized(head).fields
         IN  /\ fields \in Seq(Fields) /\ Len(fields) = 2 * Len(hist)
             /\ \A j \in 1 .. 2 * Len(hist) :
                  /\ Occurs(Serialized(head).bytes, fields[j].at, fields[j].width)
                       = {[at |-> fields[j].at, width |-> fields[j].width,
                           name |-> Read(Views(hist)[j], Bytes)]}
                  /\ Views(hist)[j].slot = head => Views(hist)[j] = View(head, fields[j])
<1> DEFINE n == Len(Views(hist))
           after == CHOOSE a : IsAfter(head, n, a)
           done == after[n]
           F(j) == Goes(after[j - 1], Views(hist)[j])
<1>1. hist \in Seq([parent : AllViews, sub : AllViews]) BY DEF Entries
<1>2. n = 2 * Len(hist) /\ n \in Nat BY <1>1, ViewsFacts
<1>3. \A j \in 1 .. n : Views(hist)[j] \in AllViews
  <2> SUFFICES ASSUME NEW j \in 1 .. n PROVE Views(hist)[j] \in AllViews OBVIOUS
  <2>1. PICK i \in 1 .. Len(hist) : j = 2 * i - 1 \/ j = 2 * i BY <1>1, <1>2, ViewsFacts
  <2>2. Views(hist)[2 * i - 1] = hist[i].parent /\ Views(hist)[2 * i] = hist[i].sub
    BY <1>1, ViewsFacts
  <2>3. hist[i] \in [parent : AllViews, sub : AllViews] BY <1>1, ElementOfSeq
  <2> QED BY <2>1, <2>2, <2>3
<1>4. Serialized(head) = [bytes |-> Write(done.bytes, done.at, RestWidth, None), fields |-> done.fields]
  BY DEF Serialized, IsAfter, Step, Opened
<1>5. DOMAIN Views(hist) = 1 .. n BY <1>2 DEF Views
<1> HIDE DEF n
<1>6. IsAfter(head, n, after) BY <1>2, AfterExists
<1> HIDE DEF after
<1>7. \A i \in 0 .. n : Placed(after, i) BY <1>2, <1>3, <1>6, PlacedFacts
<1>8. n \in 0 .. n BY <1>2
<1>9. /\ done.at \in Nat /\ done.fields \in Seq(Fields) /\ Len(done.fields) = n
      /\ \A j \in 1 .. n : done.fields[j] = F(j)
  BY <1>7, <1>8 DEF Placed
<1>10. \A i \in 1 .. n : Views(hist)[i].slot = head
                           => Views(hist)[i].at = after[i - 1].at + PrefixWidth
  <2> SUFFICES ASSUME NEW i \in 1 .. n, Views(hist)[i].slot = head
               PROVE  Views(hist)[i].at = after[i - 1].at + PrefixWidth
    OBVIOUS
  <2>1. Serialized(head).fields[i].at = Views(hist)[i].at BY <1>5 DEF InPlace
  <2>2. Serialized(head).fields[i] = F(i) BY <1>4, <1>9
  <2>3. F(i).at = after[i - 1].at + PrefixWidth BY DEF Goes
  <2> QED BY <2>1, <2>2, <2>3
<1>11. Written(head, after, n) BY <1>2, <1>3, <1>6, <1>10, AfterFacts
<1>12. Serialized(head).fields = done.fields
       /\ Serialized(head).bytes = Write(done.bytes, done.at, RestWidth, None)
  BY <1>4
<1>13. ASSUME NEW j \in 1 .. n
       PROVE  /\ Occurs(Serialized(head).bytes, F(j).at, F(j).width)
                   = {[at |-> F(j).at, width |-> F(j).width, name |-> Read(Views(hist)[j], Bytes)]}
              /\ Views(hist)[j].slot = head => Views(hist)[j] = View(head, F(j))
  <2> DEFINE f == F(j) v == Views(hist)[j]
  <2>1. /\ f.at + f.width <= done.at
        /\ Occurs(done.bytes, f.at, f.width)
             = {[at |-> f.at, width |-> f.width, name |-> Read(v, Bytes)]}
    BY <1>11 DEF Written
  <2>2. f \in Fields
    <3>1. done.fields[j] \in Fields BY <1>9, ElementOfSeq
    <3> QED BY <1>9, <3>1
  <2>3. f.width = v.width /\ (v.slot = head => v.at = f.at) BY <1>10 DEF Goes
  <2>4. v \in AllViews BY <1>3
  <2> HIDE DEF f, v, done
  <2>5. f.at \in Int /\ f.width \in Nat /\ f.width > 0 /\ done.at \in Int BY <1>9, <2>2 DEF Fields
  <2>6. RestWidth \in Nat /\ RestWidth > 0 BY SnapshotRecorderAssumption DEF Assumptions
  <2>7. Occurs(Write(done.bytes, done.at, RestWidth, None), f.at, f.width)
          = Occurs(done.bytes, f.at, f.width)
    BY <2>1, <2>5, <2>6, WriteApart
  <2>8. ASSUME v.slot = head PROVE v = View(head, f)
    <3>1. PICK s \in Slots, g \in Fields : v = View(s, g) /\ v.slot = s
      BY <2>4, <2>8, ViewKinds, NowhereFacts
    <3>2. v.width = g.width /\ v.at = g.at BY <3>1 DEF View
    <3>3. s = head /\ g.width = f.width /\ g.at = f.at BY <2>3, <2>8, <3>1, <3>2
    <3> QED BY <3>1, <3>3 DEF View
  <2> QED BY <1>12, <2>1, <2>7, <2>8 DEF f, v
<1> HIDE DEF done, F
<1> QED BY <1>2, <1>9, <1>12, <1>13

LEMMA RecordReads ==
  ASSUME RingInv, LivedInv, InPlace, NEW tag, Record(tag)
  PROVE  Reads(hist, lived, Bytes') /\ \A s \in Slots : SlotReads(s)'
<1> DEFINE k == Len(hist) c == Bytes' fields == Serialized(head).fields
           new == Reborn(head, fields, k)
<1>1. hist \in Seq([parent : AllViews, sub : AllViews]) /\ hist \in Seq(Entries) /\ k \in Nat
      /\ DOMAIN hist = 1 .. k
  BY EntryFacts DEF LivedInv, Reads, Entries
<1>2. head \in Slots /\ Reads(hist, lived, Bytes) BY DEF RingInv, LivedInv
<1>3. /\ buffer'[head].bytes = Serialized(head).bytes
      /\ buffer'[head].fields = fields
      /\ buffer'[head].lived = lived
      /\ \A t \in Slots : t # head => buffer'[t] = buffer[t]
  BY <1>2 DEF Record, RingInv
<1>4. c[head] = Serialized(head).bytes /\ \A t \in Slots : t # head => c[t] = Bytes[t]
  BY <1>2, <1>3 DEF Bytes
<1>5. /\ fields \in Seq(Fields) /\ Len(fields) = 2 * k
      /\ \A j \in 1 .. 2 * k :
           /\ Occurs(Serialized(head).bytes, fields[j].at, fields[j].width)
                = {[at |-> fields[j].at, width |-> fields[j].width,
                    name |-> Read(Views(hist)[j], Bytes)]}
           /\ Views(hist)[j].slot = head => Views(hist)[j] = View(head, fields[j])
  BY <1>1, <1>2, SerializedFacts
<1> HIDE DEF c, fields
<1>6. \A j \in 1 .. 2 * k : Read(View(head, fields[j]), c) = Read(Views(hist)[j], Bytes)
  <2> SUFFICES ASSUME NEW j \in 1 .. 2 * k
               PROVE  Read(View(head, fields[j]), c) = Read(Views(hist)[j], Bytes)
    OBVIOUS
  <2>1. Occurs(c[head], fields[j].at, fields[j].width)
          = {[at |-> fields[j].at, width |-> fields[j].width, name |-> Read(Views(hist)[j], Bytes)]}
    BY <1>4, <1>5
  <2> QED BY <1>2, <2>1, ReadOne
<1>7. ASSUME NEW t \in Slots, t # head, NEW f
      PROVE  Read(View(t, f), c) = Read(View(t, f), Bytes)
  <2>1. Occurs(c[t], f.at, f.width) = Occurs(Bytes[t], f.at, f.width) BY <1>4, <1>7
  <2> QED BY <2>1, ReadView
<1>8. ASSUME NEW j \in 1 .. 2 * k, Views(hist)[j] \in AllViews
      PROVE  Read(Views(hist)[j], c) = Read(Views(hist)[j], Bytes)
  <2>1. CASE \E n \in Names : Views(hist)[j] = Static(n) BY <2>1, ReadStatic
  <2>2. CASE \E t \in Slots, f \in Fields : Views(hist)[j] = View(t, f) /\ Views(hist)[j].slot = t
    <3>1. PICK t \in Slots, f \in Fields : Views(hist)[j] = View(t, f) /\ Views(hist)[j].slot = t
      BY <2>2
    <3>2. CASE t = head
      <4>1. Views(hist)[j] = View(head, fields[j]) BY <1>5, <3>1, <3>2
      <4> QED BY <1>6, <4>1
    <3>3. CASE t # head BY <1>7, <3>1, <3>3
    <3> QED BY <3>2, <3>3
  <2> QED BY <1>8, <2>1, <2>2, ViewKinds
<1>9. ASSUME NEW i \in 1 .. k
      PROVE  /\ 2 * i - 1 \in 1 .. 2 * k /\ 2 * i \in 1 .. 2 * k
             /\ Views(hist)[2 * i - 1] = hist[i].parent /\ Views(hist)[2 * i] = hist[i].sub
             /\ hist[i].parent \in AllViews /\ hist[i].sub \in AllViews
  <2>1. hist[i] \in [parent : AllViews, sub : AllViews] BY <1>1, ElementOfSeq
  <2> QED BY <1>1, <2>1, ViewsFacts
<1>10. Reads(hist, lived, c)
  <2>1. \A i \in 1 .. k : Read(hist[i].parent, c) = Read(hist[i].parent, Bytes)
                          /\ Read(hist[i].sub, c) = Read(hist[i].sub, Bytes)
    BY <1>8, <1>9
  <2> QED BY <1>1, <1>2, <2>1, SameReading
<1>11. Reads(new, lived, c)
  <2>1. /\ new \in Seq(Entries) /\ Len(new) = k
        /\ \A i \in 1 .. k : /\ new[i].parent = View(head, fields[2 * i - 1])
                             /\ new[i].sub = View(head, fields[2 * i])
    <3>1. fields \in Seq(Fields) /\ 2 * k <= Len(fields) BY <1>1, <1>5
    <3> HIDE DEF k
    <3> QED BY <1>1, <1>2, <3>1, RebornFacts
  <2> HIDE DEF new
  <2>2. \A i \in 1 .. k : Read(new[i].parent, c) = Read(hist[i].parent, Bytes)
                          /\ Read(new[i].sub, c) = Read(hist[i].sub, Bytes)
    BY <1>6, <1>9, <2>1
  <2> QED BY <1>2, <2>1, <2>2, SameReading
<1>12. ASSUME NEW s \in Slots PROVE SlotReads(s)'
  <2>1. SlotReads(s)' <=> /\ buffer'[s].fields \in Seq(Fields)
                          /\ \E n \in Nat : /\ Len(buffer'[s].fields) = 2 * n
                                            /\ Reads(Reborn(s, buffer'[s].fields, n), buffer'[s].lived, c)
    BY DEF SlotReads, c
  <2>2. CASE s = head
    <3>1. buffer'[s].fields = fields /\ buffer'[s].lived = lived BY <1>3, <2>2
    <3> QED BY <1>1, <1>5, <1>11, <2>1, <2>2, <3>1
  <2>3. CASE s # head
    <3> DEFINE old == buffer[s].fields
    <3>1. old \in Seq(Fields) BY DEF LivedInv, SlotReads
    <3>2. PICK n \in Nat : Len(old) = 2 * n /\ Reads(Reborn(s, old, n), buffer[s].lived, Bytes)
      BY DEF LivedInv, SlotReads
    <3> DEFINE kept == Reborn(s, old, n)
    <3>3. /\ kept \in Seq(Entries) /\ Len(kept) = n
          /\ \A i \in 1 .. n : /\ kept[i].parent = View(s, old[2 * i - 1])
                               /\ kept[i].sub = View(s, old[2 * i])
      BY <3>1, <3>2, RebornFacts
    <3>4. buffer'[s] = buffer[s] BY <1>3, <2>3
    <3>5. Reads(kept, buffer[s].lived, Bytes) BY <3>2
    <3> HIDE DEF kept, old
    <3>6. \A i \in 1 .. n : Read(kept[i].parent, c) = Read(kept[i].parent, Bytes)
                            /\ Read(kept[i].sub, c) = Read(kept[i].sub, Bytes)
      BY <1>7, <2>3, <3>3
    <3>7. Reads(kept, buffer[s].lived, c) BY <3>3, <3>5, <3>6, SameReading
    <3> QED BY <2>1, <3>1, <3>2, <3>4, <3>7 DEF kept, old
  <2> QED BY <2>2, <2>3
<1> QED BY <1>10, <1>12 DEF c
-----------------------------------------------------------------------------
(* The history through a life with rollbacks.                              *)

LEMMA NothingReads ==
  ASSUME NEW b
  PROVE  Reads(<< >>, [p \in Composites |-> None], b)
<1>1. << >> \in Seq(Entries) /\ Len(<< >>) = 0 /\ DOMAIN << >> = {} OBVIOUS
<1>2. HistoryCapacity \in Nat BY SnapshotRecorderAssumption DEF Assumptions
<1> QED BY <1>1, <1>2 DEF Reads

LEMMA LivedInit == Init => LivedInv
<1> SUFFICES ASSUME Init PROVE LivedInv OBVIOUS
<1>1. Reads(hist, lived, Bytes) BY NothingReads DEF Init
<1>2. ASSUME NEW s \in Slots PROVE SlotReads(s)
  <2>1. buffer[s].fields = << >> /\ buffer[s].lived = [p \in Composites |-> None] BY DEF Init
  <2>2. buffer[s].fields \in Seq(Fields) /\ Len(buffer[s].fields) = 2 * 0 BY <2>1
  <2>3. Reborn(s, buffer[s].fields, 0) = << >> BY DEF Reborn
  <2>4. Reads(Reborn(s, buffer[s].fields, 0), buffer[s].lived, Bytes) BY <2>1, <2>3, NothingReads
  <2>5. 0 \in Nat OBVIOUS
  <2> QED BY <2>2, <2>4, <2>5 DEF SlotReads
<1> QED BY <1>1, <1>2 DEF LivedInv

LEMMA RollbackLives ==
  ASSUME RingInv, LivedInv, NEW n, Rollback(n)
  PROVE  LivedInv'
<1>1. n \in 1 .. count /\ n \in 0 .. Capacity BY Sizes DEF Rollback, RingInv
<1>2. Back(n) \in Slots BY <1>1, BackFacts DEF RingInv
<1> DEFINE t == Back(n) fields == buffer[t].fields
<1>3. PICK k \in Nat : /\ fields \in Seq(Fields) /\ Len(fields) = 2 * k
                       /\ Reads(Reborn(t, fields, k), buffer[t].lived, Bytes)
  BY <1>2 DEF LivedInv, SlotReads
<1>4. Restored(t) = Reborn(t, fields, k) BY <1>2, <1>3, RestoredFacts
<1>5. hist' = Reborn(t, fields, k) /\ lived' = buffer[t].lived /\ buffer' = buffer
  BY <1>4 DEF Rollback
<1> HIDE DEF t
<1>6. Bytes' = Bytes BY <1>5 DEF Bytes
<1>7. Reads(hist', lived', Bytes') BY <1>3, <1>5, <1>6
<1>8. \A s \in Slots : SlotReads(s)' BY <1>5, <1>6 DEF LivedInv, SlotReads
<1> QED BY <1>7, <1>8 DEF LivedInv

LEMMA LivedStep ==
  ASSUME Roomy, RingInv, LivedInv, [Next /\ \A tag \in Tags : Record(tag) => InPlace]_vars
  PROVE  LivedInv'
<1>1. ASSUME buffer' = buffer, Reads(hist', lived', Bytes) PROVE LivedInv'
  <2>1. Bytes' = Bytes BY <1>1 DEF Bytes
  <2>2. \A s \in Slots : SlotReads(s)' BY <1>1, <2>1 DEF LivedInv, SlotReads
  <2> QED BY <1>1, <2>1, <2>2 DEF LivedInv
<1>2. CASE UNCHANGED vars
  <2>1. hist' = hist /\ lived' = lived /\ buffer' = buffer
    BY <1>2 DEF vars, machineVars, recorderVars
  <2> QED BY <1>1, <2>1 DEF LivedInv
<1>3. ASSUME NEW tag \in Tags, Record(tag) PROVE LivedInv'
  <2>1. hist' = hist /\ lived' = lived BY <1>3 DEF Record, machineVars
  <2>2. CASE InPlace
    <3>1. Reads(hist, lived, Bytes') /\ \A s \in Slots : SlotReads(s)' BY <1>3, <2>2, RecordReads
    <3>2. Reads(hist', lived', Bytes') BY <2>1, <3>1
    <3> QED BY <3>1, <3>2 DEF LivedInv
  <2>3. CASE UNCHANGED vars BY <1>2, <2>3
  <2> QED BY <1>3, <2>2, <2>3
<1>4. ASSUME NEW n, Rollback(n) PROVE LivedInv' BY <1>4, RollbackLives
<1>5. ASSUME NEW tag \in Tags, Rewind(tag) PROVE LivedInv' BY <1>4, <1>5 DEF Rewind
<1>6. CASE Clear
  <2>1. hist' = hist /\ lived' = lived /\ buffer' = buffer BY <1>6 DEF Clear, machineVars
  <2> QED BY <1>1, <2>1 DEF LivedInv
<1>7. ASSUME NEW m \in Images, Work(m) PROVE LivedInv'
  <2>1. buffer' = buffer BY <1>7 DEF Work, recorderVars
  <2>2. CASE hist' = hist /\ lived' = lived BY <1>1, <2>1, <2>2 DEF LivedInv
  <2>3. CASE LET left == AfterLeaving(Len(Path[image])) IN hist' = left.hist /\ lived' = left.lived
    <3>1. LET left == AfterLeaving(Len(Path[image])) IN Reads(left.hist, left.lived, Bytes)
      BY LeavingFacts DEF LivedInv, RingInv
    <3>2. Reads(hist', lived', Bytes) BY <2>3, <3>1
    <3> QED BY <1>1, <2>1, <3>2
  <2> QED BY <1>7, <2>2, <2>3 DEF Work
<1>8. ASSUME NEW m \in Images, ClearHistory(m) PROVE LivedInv'
  <2>1. buffer' = buffer /\ hist' = << >> /\ lived' = [p \in Composites |-> None]
    BY <1>8 DEF ClearHistory, recorderVars
  <2>2. Reads(hist', lived', Bytes) BY <2>1, NothingReads
  <2> QED BY <1>1, <2>1, <2>2
<1> QED BY <1>2, <1>3, <1>4, <1>5, <1>6, <1>7, <1>8 DEF Next

\* get_history() of a history that is read right.
LEMMA LookupFacts ==
  ASSUME Reads(hist, lived, Bytes), NEW p \in Composites
  PROVE  Lookup(p) = lived[p]
<1> DEFINE places == Places(hist, p, Bytes)
<1>1. hist \in Seq(Entries) /\ Len(hist) \in Nat /\ DOMAIN hist = 1 .. Len(hist)
  BY EntryFacts DEF Reads
<1>2. places = {i \in DOMAIN hist : Read(hist[i].parent, Bytes) = p} BY DEF Places
<1>3. Lookup(p) = IF places = {} THEN None ELSE Read(hist[Min(places)].sub, Bytes) BY DEF Lookup
<1> HIDE DEF places
<1>4. CASE places = {} BY <1>2, <1>3, <1>4 DEF Reads
<1>5. CASE places # {}
  <2>1. places \in SUBSET Nat BY <1>1, <1>2
  <2>2. Min(places) \in places BY <1>5, <2>1, MinFacts
  <2>3. Min(places) \in DOMAIN hist /\ Read(hist[Min(places)].parent, Bytes) = p
    BY <1>2, <2>2
  <2>4. lived[Read(hist[Min(places)].parent, Bytes)] = Read(hist[Min(places)].sub, Bytes)
    BY <2>3 DEF Reads
  <2> QED BY <1>3, <1>5, <2>3, <2>4
<1> QED BY <1>4, <1>5

-----------------------------------------------------------------------------
(* The history of a machine that is recorded and rolled back: although its *)
(* entries are views of the slots that record() overwrites, what           *)
(* get_history() answers is what the machine last recorded in the life     *)
(* that led to its present state, for every ring, machine and sequence of  *)
(* calls in which record() moves no name that is in use, when there is     *)
(* room for an entry of each composite state.                              *)
THEOREM LivedCorrect == Roomy => (InPlaceSpec => []HistoryAsLived)
<1> SUFFICES ASSUME Roomy PROVE InPlaceSpec => []HistoryAsLived OBVIOUS
<1> DEFINE Step1 == Next /\ \A tag \in Tags : Record(tag) => InPlace
<1>1. Init => RingInv /\ LivedInv BY RingInit, LivedInit
<1>2. (RingInv /\ LivedInv) /\ [Step1]_vars => (RingInv /\ LivedInv)' BY RingStep, LivedStep
<1>3. RingInv /\ LivedInv => HistoryAsLived BY LookupFacts DEF LivedInv, HistoryAsLived
<1> QED BY <1>1, <1>2, <1>3, PTL DEF InPlaceSpec
=============================================================================
