------------------------------ MODULE SpscRing ------------------------------
(***************************************************************************)
(* spsc_ring_buffer<T, Capacity> (runtime/spsc_ring_buffer.hpp): the       *)
(* lock-free queue between one producer (an interrupt handler) and one     *)
(* consumer (the control task), at the grain of its atomic loads and       *)
(* stores and of the construction, move and destruction of an element.     *)
(* An observation is a call of size(), empty() or full().                  *)
(*                                                                         *)
(* The counters head_ and tail_ are std::size_t and wrap: they are         *)
(* numbers below Modulus, and their difference is taken modulo Modulus.    *)
(***************************************************************************)
EXTENDS Naturals

CONSTANTS
  Capacity,    \* slots of the buffer, a power of two
  Modulus,     \* 2^w for the width w of std::size_t
  Values,      \* element values
  Raw,         \* a slot that holds no object
  Husk,        \* a slot whose object was moved from and not yet destroyed
  Observers    \* the threads that call size(): "producer", "consumer", "reader"

Assumptions ==
  /\ Capacity \in Nat /\ Capacity > 1
  /\ Modulus \in Nat /\ Modulus > Capacity /\ Modulus % Capacity = 0
  /\ Raw \notin Values /\ Husk \notin Values /\ Raw # Husk
  /\ Observers \subseteq {"producer", "consumer", "reader"}

ASSUME SpscRingAssumption == Assumptions

VARIABLES
  head, tail,     \* the two atomic counters
  slot,           \* raw_storage_: what each slot holds
  unseen,         \* the slots whose construction the consumer has not
                  \* synchronised with
  ppc,            \* where the producer is inside emplace()
  ptail, pvalue,  \* its local tail and the value it constructs
  cpc,            \* where the consumer is inside pop() or clear()
  chead, ctail,   \* its local head, and clear()'s running local tail
  out,            \* the element last returned by pop(), <<>> before any
  observer,       \* the thread inside size(), or "none"
  ohead, osize    \* its local head, and the last value size() returned

producerVars == <<head, ppc, ptail, pvalue>>
consumerVars == <<tail, cpc, chead, ctail, out>>
observerVars == <<observer, ohead, osize>>
vars == <<producerVars, consumerVars, slot, unseen, observerVars>>

-----------------------------------------------------------------------------
Counters == 0 .. Modulus - 1
Slots    == 0 .. Capacity - 1

\* Mutant: the counter is not truncated to its width.
IncUnbounded(c) == c + 1

\* ++index, in the width of std::size_t.
Inc(c) == IF c + 1 = Modulus THEN 0 ELSE c + 1

\* to - from, in the width of std::size_t.
Diff(to, from) == IF to >= from THEN to - from ELSE to + Modulus - from

\* get_slot: index & IndexMask, the low bits of the counter.
Slot(c) == c % Capacity

\* The (n+1)-th counter from c on.
Plus(c, n) == IF c + n >= Modulus THEN c + n - Modulus ELSE c + n

Init ==
  /\ head = 0 /\ tail = 0
  /\ slot = [s \in Slots |-> Raw] /\ unseen = {}
  /\ ppc = "idle" /\ ptail = 0 /\ pvalue \in Values
  /\ cpc = "idle" /\ chead = 0 /\ ctail = 0
  /\ out = << >>
  /\ observer = "none" /\ ohead = 0 /\ osize = 0

-----------------------------------------------------------------------------
(* The producer: emplace(), push().  A relaxed load of its own counter     *)
(* reads the counter itself; the other counter is loaded once and may have *)
(* moved on when the local copy is used.                                   *)

PushLoad(v) ==
  /\ ppc = "idle" /\ observer # "producer"
  /\ ppc' = "loaded" /\ ptail' = tail /\ pvalue' = v
  /\ UNCHANGED <<head, consumerVars, slot, unseen, observerVars>>

PushFull ==
  /\ ppc = "loaded" /\ Diff(head, ptail) >= Capacity
  /\ ppc' = "idle"
  /\ UNCHANGED <<head, ptail, pvalue, consumerVars, slot, unseen, observerVars>>

\* Mutant: emplace() rejects one element too late.
PushConstructOffByOne ==
  /\ ppc = "loaded" /\ Diff(head, ptail) <= Capacity
  /\ slot' = [slot EXCEPT ![Slot(head)] = pvalue]
  /\ unseen' = unseen \cup {Slot(head)}
  /\ ppc' = "built"
  /\ UNCHANGED <<head, ptail, pvalue, consumerVars, observerVars>>

PushConstruct ==
  /\ ppc = "loaded" /\ Diff(head, ptail) < Capacity
  /\ slot' = [slot EXCEPT ![Slot(head)] = pvalue]
  /\ unseen' = unseen \cup {Slot(head)}
  /\ ppc' = "built"
  /\ UNCHANGED <<head, ptail, pvalue, consumerVars, observerVars>>

PushPublish ==
  /\ ppc = "built"
  /\ head' = Inc(head)
  /\ ppc' = "idle"
  /\ UNCHANGED <<ptail, pvalue, consumerVars, slot, unseen, observerVars>>

-----------------------------------------------------------------------------
(* The consumer: pop() and clear().                                        *)

\* Mutant: pop() loads head_ relaxed, as clear() does.
PopLoadRelaxed ==
  /\ cpc = "idle" /\ observer # "consumer"
  /\ cpc' = "loaded" /\ chead' = head
  /\ UNCHANGED <<tail, ctail, out, producerVars, slot, unseen, observerVars>>

\* The load of head_ acquires: it synchronises with the release store it reads
\* and so with every construction before it, all but one not yet published.
PopLoad ==
  /\ cpc = "idle" /\ observer # "consumer"
  /\ cpc' = "loaded" /\ chead' = head
  /\ unseen' = IF ppc = "built" THEN {Slot(head)} ELSE {}
  /\ UNCHANGED <<tail, ctail, out, producerVars, slot, observerVars>>

PopEmpty ==
  /\ cpc = "loaded" /\ tail = chead
  /\ cpc' = "idle"
  /\ UNCHANGED <<tail, chead, ctail, out, producerVars, slot, unseen, observerVars>>

\* Mutant: pop() moves out the element after the oldest one.
PopMoveSecond ==
  /\ cpc = "loaded" /\ tail # chead
  /\ out' = <<slot[Slot(Inc(tail))]>>
  /\ slot' = [slot EXCEPT ![Slot(tail)] = Husk]
  /\ cpc' = "moved"
  /\ UNCHANGED <<tail, chead, ctail, producerVars, observerVars, unseen>>

PopMove ==
  /\ cpc = "loaded" /\ tail # chead
  /\ out' = <<slot[Slot(tail)]>>
  /\ slot' = [slot EXCEPT ![Slot(tail)] = Husk]
  /\ cpc' = "moved"
  /\ UNCHANGED <<tail, chead, ctail, producerVars, observerVars, unseen>>

PopDestroy ==
  /\ cpc = "moved"
  /\ slot' = [slot EXCEPT ![Slot(tail)] = Raw]
  /\ cpc' = "destroyed"
  /\ UNCHANGED <<tail, chead, ctail, out, producerVars, observerVars, unseen>>

PopPublish ==
  /\ cpc = "destroyed"
  /\ tail' = Inc(tail)
  /\ cpc' = "idle"
  /\ UNCHANGED <<chead, ctail, out, producerVars, slot, unseen, observerVars>>

\* clear() loads head_ relaxed: it synchronises with nothing.
ClearLoad ==
  /\ cpc = "idle" /\ observer # "consumer"
  /\ cpc' = "clearing" /\ chead' = head /\ ctail' = tail
  /\ UNCHANGED <<tail, out, producerVars, slot, unseen, observerVars>>

\* The destructor of an unseen element races with its construction: whatever
\* bytes it finds, the slot holds no object afterwards.
ClearDestroy ==
  /\ cpc = "clearing" /\ ctail # chead
  /\ slot' = [slot EXCEPT ![Slot(ctail)] = Raw]
  /\ ctail' = Inc(ctail)
  /\ UNCHANGED <<tail, cpc, chead, out, producerVars, observerVars, unseen>>

\* Mutant: clear() publishes the head it reads now instead of the one it
\* read when it started destroying elements.
ClearPublishReread ==
  /\ cpc = "clearing" /\ ctail = chead
  /\ tail' = head
  /\ cpc' = "idle"
  /\ UNCHANGED <<chead, ctail, out, producerVars, slot, unseen, observerVars>>

ClearPublish ==
  /\ cpc = "clearing" /\ ctail = chead
  /\ tail' = chead
  /\ cpc' = "idle"
  /\ UNCHANGED <<chead, ctail, out, producerVars, slot, unseen, observerVars>>

-----------------------------------------------------------------------------
(* An observer: size(), which loads head_ and then tail_.  The producer    *)
(* and the consumer call it between two of their own operations.           *)

SizeLoad(t) ==
  /\ observer = "none"
  /\ t = "producer" => ppc = "idle"
  /\ t = "consumer" => cpc = "idle"
  /\ observer' = t /\ ohead' = head
  /\ UNCHANGED <<osize, producerVars, consumerVars, slot, unseen>>

SizeReturn ==
  /\ observer # "none"
  /\ osize' = Diff(ohead, tail)
  /\ observer' = "none"
  /\ UNCHANGED <<ohead, producerVars, consumerVars, slot, unseen>>

-----------------------------------------------------------------------------
Producer == (\E v \in Values : PushLoad(v)) \/ PushFull \/ PushConstruct \/ PushPublish
Consumer == \/ PopLoad \/ PopEmpty \/ PopMove \/ PopDestroy \/ PopPublish
            \/ ClearLoad \/ ClearDestroy \/ ClearPublish
Observer == (\E t \in Observers : SizeLoad(t)) \/ SizeReturn

Next == Producer \/ Consumer \/ Observer

Spec == Init /\ [][Next]_vars

-----------------------------------------------------------------------------
(* Where the abstract queue lives in the buffer: from the first element    *)
(* the consumer has not claimed up to head.                                *)
Unclaimed == CASE cpc \in {"moved", "destroyed"} -> Inc(tail)
               [] cpc = "clearing"               -> chead
               [] OTHER                          -> tail

Contents == [i \in 1 .. Diff(head, Unclaimed) |-> slot[Slot(Plus(Unclaimed, i - 1))]]

Fifo == INSTANCE BoundedFifo WITH queue <- Contents

\* The ring is a bounded first-in first-out queue: nothing posted is lost,
\* duplicated, reordered or handed over before it is built, also across the
\* wrap of the counters and with clear() running while the producer posts.
RefinesFifo == Fifo!FifoSpec

\* The counters stay below the wrap, each side is at a point of its own call,
\* and a slot holds an element or nothing.
TypeOK ==
  /\ head \in Counters /\ tail \in Counters
  /\ slot \in [Slots -> Values \cup {Raw, Husk}] /\ unseen \subseteq Slots
  /\ ppc \in {"idle", "loaded", "built"}
  /\ ptail \in Counters /\ pvalue \in Values
  /\ cpc \in {"idle", "loaded", "moved", "destroyed", "clearing"}
  /\ chead \in Counters /\ ctail \in Counters
  /\ out \in {<< >>} \cup {<<v>> : v \in Values}
  /\ observer \in Observers \cup {"none"}
  /\ ohead \in Counters /\ osize \in Counters

\* Element lifetimes: a placement-new never lands on an object that is
\* still alive (or that the consumer is still moving from), what pop() moves
\* from or destroys is an object whose construction it has synchronised
\* with, and so is what clear() destroys, of the elements that an earlier
\* pop() has acquired.  Of the others clear() knows nothing: see
\* ClearSynchronised.
LifetimesDisjoint ==
  /\ ppc = "loaded" /\ Diff(head, ptail) < Capacity => slot[Slot(head)] = Raw
  /\ cpc = "loaded" /\ tail # chead =>
       slot[Slot(tail)] \in Values /\ Slot(tail) \notin unseen
  /\ cpc = "clearing" /\ ctail # chead /\ Slot(ctail) \notin unseen =>
       slot[Slot(ctail)] \in Values

\* What the runtime's documentation says of the ring, that its counters are
\* loaded with acquire and stored with release to synchronise the two sides,
\* would give clear() as well: it destroys no element whose construction it
\* has not synchronised with.  TLC refutes it with ClearRace.cfg.
ClearSynchronised == cpc = "clearing" /\ ctail # chead => Slot(ctail) \notin unseen

\* Whenever both clients are between operations, the live objects are
\* exactly those of the occupied slots: what the destructor destroys is
\* all there is, each once, and nothing leaks (~spsc_ring_buffer).
LiveExactlyOccupied ==
  ppc = "idle" /\ cpc = "idle" =>
    \A s \in Slots : slot[s] \in Values
                       <=> \E n \in 0 .. Diff(head, tail) - 1 : Slot(Plus(tail, n)) = s

\* The number of queued elements never exceeds the capacity, and size(),
\* empty() and full() never report one that does.
SizeWithinCapacity == Diff(head, tail) <= Capacity /\ osize <= Capacity
=============================================================================
