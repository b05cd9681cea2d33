-------------------------- MODULE SnapshotRecorder --------------------------
(***************************************************************************)
(* snapshot_recorder (runtime/snapshot_recorder.hpp) with serialize() and  *)
(* deserialize() of runtime/fsm.hpp: a ring of snapshots of one machine,   *)
(* recorded and rolled back by the thread that runs the machine.           *)
(*                                                                         *)
(* Of the machine, the state, timers, residence time and registers are one *)
(* image, which snapshots hold by value.  Its history is kept in detail,   *)
(* because a history entry is a pair of string views: deserialize() points *)
(* them into the buffer it reads, and that buffer is a slot of the ring.   *)
(* A slot's bytes are a set of fields; writing one destroys those it       *)
(* overlaps, and a view of a range that is no longer one field reads       *)
(* Garbage.  A copy to a lower address that overlaps is taken to copy.     *)
(***************************************************************************)
EXTENDS Integers, FiniteSetsExt, SequencesExt

CONSTANTS
  Capacity,         \* slots of the ring
  MaxSnapshotSize,  \* bytes of a slot, the header not counted
  Images,           \* what the machine can be, but for its history
  InitialImage,
  Tags,             \* bound: the tags record() is called with
  Path,             \* for each image, what leaving its state records:
                    \* <<[parent |-> ..., sub |-> ...], ...>>, innermost first
  HistoryCapacity,  \* max_history_capacity
  Width,            \* length of each name
  RestWidth,        \* bytes of timers and registers
  Garbage, None,    \* a name that is none; no history
  MaxRecords        \* bound: record() calls of one behaviour

Pairs      == UNION {{Path[m][i] : i \in DOMAIN Path[m]} : m \in Images}
Composites == {pair.parent : pair \in Pairs}
Names      == Composites \cup {pair.sub : pair \in Pairs}

Assumptions ==
  /\ Capacity \in Nat \ {0} /\ HistoryCapacity \in Nat \ {0}
  /\ MaxSnapshotSize \in Nat /\ MaxRecords \in Nat /\ RestWidth \in Nat \ {0}
  /\ InitialImage \in Images /\ Tags \subseteq Nat
  /\ \A m \in Images : Path[m] \in Seq(Pairs)
  /\ DOMAIN Width = Names /\ \A n \in Names : Width[n] \in Nat \ {0}
  /\ None \notin Names /\ Garbage \notin Names \cup {None}

ASSUME SnapshotRecorderAssumption == Assumptions

VARIABLES
  image, hist,         \* the machine; history_records_
  buffer,              \* buffer_: for each slot its bytes, where its names are,
                       \* its tag, its image and (history) the machine's lived
  head, count, total,  \* head_, count_, total_recorded_
  lived                \* history: the history the machine's own life made

machineVars  == <<image, hist, lived>>
recorderVars == <<buffer, head, count, total>>
vars == <<machineVars, recorderVars>>

-----------------------------------------------------------------------------
(* Names in memory.                                                        *)

Slots  == 0 .. Capacity - 1
Nowhere == Capacity  \* the slot of a name that is a literal of the program

Static(n) == [slot |-> Nowhere, at |-> 0, width |-> Width[n], name |-> n]
View(s, field) == [slot |-> s, at |-> field.at, width |-> field.width, name |-> None]

\* The bytes a string_view reads.
Read(view, bytesOf) ==
  IF view.slot = Nowhere THEN view.name
  ELSE LET there == {f \in bytesOf[view.slot] : f.at = view.at /\ f.width = view.width}
       IN  IF there = {} THEN Garbage ELSE (CHOOSE f \in there : TRUE).name

\* memcpy.
Write(bytes, at, width, name) ==
  {f \in bytes : f.at + f.width <= at \/ at + width <= f.at}
    \cup {[at |-> at, width |-> width, name |-> name]}

Bytes == [s \in Slots |-> buffer[s].bytes]

-----------------------------------------------------------------------------
(* history_manager.                                                        *)

Places(h, name, bytesOf) == {i \in DOMAIN h : Read(h[i].parent, bytesOf) = name}

\* record_history(): the entry of the same parent is updated, a new one is
\* appended as long as there is room.
Remember(h, parent, sub, bytesOf) ==
  LET places == Places(h, Read(parent, bytesOf), bytesOf) IN
  IF places # {} /\ Read(parent, bytesOf) # Garbage THEN [h EXCEPT ![Min(places)].sub = sub]
  ELSE IF Len(h) < HistoryCapacity THEN Append(h, [parent |-> parent, sub |-> sub])
  ELSE h

\* get_history().
Lookup(parent) ==
  LET places == Places(hist, parent, Bytes)
  IN  IF places = {} THEN None ELSE Read(hist[Min(places)].sub, Bytes)

-----------------------------------------------------------------------------
(* serialize() and deserialize().                                          *)

PrefixWidth == 2
Views(h) == [i \in 1 .. 2 * Len(h) |->
               IF i % 2 = 1 THEN h[(i + 1) \div 2].parent ELSE h[i \div 2].sub]

SerializedSize(h) ==
  FoldFunction(LAMBDA view, size : size + PrefixWidth + view.width, RestWidth, Views(h))

\* Into slot s, from left to right: each name is read after everything that
\* goes before it, its own length included, has been written.
Serialized(s) ==
  LET views == Views(hist)
      after[i \in 0 .. Len(views)] ==
        IF i = 0 THEN [bytes |-> Bytes[s], at |-> 0, fields |-> << >>]
        ELSE LET prev   == after[i - 1]
                 start  == prev.at + PrefixWidth
                 opened == Write(prev.bytes, prev.at, PrefixWidth, None)
                 name   == Read(views[i], [Bytes EXCEPT ![s] = opened])
             IN  [bytes  |-> Write(opened, start, views[i].width, name),
                  at     |-> start + views[i].width,
                  fields |-> Append(prev.fields, [at |-> start, width |-> views[i].width])]
      done == after[Len(views)]
  IN  [bytes |-> Write(done.bytes, done.at, RestWidth, None), fields |-> done.fields]

\* Mutant: the history of the abandoned life is kept.
RestoredOver(s) ==
  LET fields == buffer[s].fields
      entries[i \in 0 .. Len(fields) \div 2] ==
        IF i = 0 THEN hist
        ELSE Remember(entries[i - 1], View(s, fields[2 * i - 1]), View(s, fields[2 * i]), Bytes)
  IN  entries[Len(fields) \div 2]

\* The history is cleared and its entries recorded again, as views of s.
Restored(s) ==
  LET fields == buffer[s].fields
      entries[i \in 0 .. Len(fields) \div 2] ==
        IF i = 0 THEN << >>
        ELSE Remember(entries[i - 1], View(s, fields[2 * i - 1]), View(s, fields[2 * i]), Bytes)
  IN  entries[Len(fields) \div 2]

-----------------------------------------------------------------------------
(* The recorder.                                                           *)

Init ==
  /\ image = InitialImage /\ hist = << >> /\ lived = [p \in Composites |-> None]
  /\ buffer = [s \in Slots |-> [image |-> InitialImage, bytes |-> {}, fields |-> << >>,
                                tag |-> 0, lived |-> lived]]
  /\ head = 0 /\ count = 0 /\ total = 0

\* record(): refused, with nothing changed, when the snapshot does not fit.
Record(tag) ==
  /\ total < MaxRecords /\ SerializedSize(hist) <= MaxSnapshotSize
  /\ LET written == Serialized(head)
     IN  buffer' = [buffer EXCEPT ![head] =
                      [image |-> image, bytes |-> written.bytes, fields |-> written.fields,
                       tag |-> tag, lived |-> lived]]
  /\ head' = (head + 1) % Capacity
  /\ count' = IF count < Capacity THEN count + 1 ELSE count
  /\ total' = total + 1
  /\ UNCHANGED machineVars

Back(n) == (head + Capacity - n) % Capacity

\* Mutant: only one entry is taken off.
RollbackOne(n) ==
  /\ n \in 1 .. count
  /\ image' = buffer[Back(n)].image /\ hist' = Restored(Back(n))
  /\ lived' = buffer[Back(n)].lived
  /\ head' = Back(n) /\ count' = count - 1
  /\ UNCHANGED <<buffer, total>>

\* rollback(): every entry that was recorded is valid.
Rollback(n) ==
  /\ n \in 1 .. count
  /\ image' = buffer[Back(n)].image /\ hist' = Restored(Back(n))
  /\ lived' = buffer[Back(n)].lived
  /\ head' = Back(n) /\ count' = count - n
  /\ UNCHANGED <<buffer, total>>

\* rewind_to_checkpoint().
Rewind(tag) ==
  LET found == {n \in 1 .. count : buffer[Back(n)].tag = tag}
  IN  found # {} /\ Rollback(Min(found))

Clear ==
  /\ head' = 0 /\ count' = 0
  /\ UNCHANGED <<machineVars, buffer, total>>

-----------------------------------------------------------------------------
(* The machine.                                                            *)

\* What leaving the state has recorded after the innermost n of its pairs.
AfterLeaving(n) ==
  LET left[i \in 0 .. n] ==
        IF i = 0 THEN [hist |-> hist, lived |-> lived]
        ELSE LET pair == Path[image][i]
             IN  [hist  |-> Remember(left[i - 1].hist, Static(pair.parent), Static(pair.sub), Bytes),
                  lived |-> [left[i - 1].lived EXCEPT ![pair.parent] = pair.sub]]
  IN  left[n]

\* A transition to m records the history of the state it leaves, and a step
\* that takes none may change the rest of the image.
Work(m) ==
  /\ image' = m
  /\ \/ LET left == AfterLeaving(Len(Path[image])) IN hist' = left.hist /\ lived' = left.lived
     \/ Path[m] = Path[image] /\ UNCHANGED <<hist, lived>>
  /\ UNCHANGED recorderVars

\* reset() clears the history; so does clear_history(), and nothing else.
ClearHistory(m) ==
  /\ m \in {image, InitialImage}
  /\ image' = m
  /\ hist' = << >> /\ lived' = [p \in Composites |-> None]
  /\ UNCHANGED recorderVars

Next == \/ \E tag \in Tags : Record(tag) \/ Rewind(tag)
        \/ \E n \in 1 .. Capacity : Rollback(n)
        \/ Clear
        \/ \E m \in Images : Work(m) \/ ClearHistory(m)

Spec == Init /\ [][Next]_vars

-----------------------------------------------------------------------------
\* The ring is a stack of checkpoints that forgets the oldest: through
\* wrap-around, rollback of several, rewinding to a tag and recording anew
\* over what was rolled back, a restore yields the image that was recorded.
Checkpoints ==
  INSTANCE CheckpointStack
    WITH Depth <- Capacity, current <- image,
         stack <- [i \in 1 .. count |-> LET s == Back(count + 1 - i)
                                        IN  [image |-> buffer[s].image, tag |-> buffer[s].tag]]

RefinesStack == Checkpoints!CheckpointSpec

\* Each name that the machine still views in the slot of the next record() is
\* written where it is.
InPlace ==
  LET views == Views(hist)
  IN  \A j \in DOMAIN views :
        views[j].slot = head => Serialized(head).fields[j].at = views[j].at

\* The behaviours in which record() moves no name in use.
InPlaceSpec == Init /\ [][Next /\ \A tag \in Tags : Record(tag) => InPlace]_vars

\* What get_history() answers is what the machine itself last recorded in the
\* life that led to its present state, the part before a restored checkpoint
\* included; recording a snapshot never changes it.
HistoryAsLived == \A p \in Composites : Lookup(p) = lived[p]
=============================================================================
