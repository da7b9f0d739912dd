----------------------- MODULE OutputOwnershipProofs -----------------------
(***************************************************************************)
(* Proofs about OutputOwnership, for every set of client slots, every      *)
(* number of output buffers and every bound on the frames.                 *)
(***************************************************************************)
EXTENDS OutputOwnership, TLAPS

-----------------------------------------------------------------------------
(* What the queue operators do to a queue of the right shape.              *)

\* There is an output buffer, and "no slot" is not one.
LEMMA SlotsNonEmpty == 0 \in Slots /\ NoSlot \notin Slots /\ Slots \subseteq Nat
  BY CountAssumption DEF Slots, NoSlot

\* A reset queue is well formed and every slot of it is fresh.
LEMMA ResetFacts ==
    /\ QueueReset(Count) \in Queues
    /\ \A i \in Slots : QueueReset(Count).slots[i] = FreshSlot
  BY CountAssumption DEF QueueReset, Queues, SlotRecords, FreshSlot, Slots

\* Replacing one slot by a well-formed one keeps the queue well formed.
LEMMA WithSlotFacts ==
  ASSUME NEW q \in Queues, NEW i \in Slots, NEW s \in SlotRecords
  PROVE  /\ WithSlot(q, i, s) \in Queues
         /\ WithSlot(q, i, s).slots = [q.slots EXCEPT ![i] = s]
  BY DEF WithSlot, Queues

\* Acquiring marks slot i, zeroes its wait and leaves the other slots alone.
LEMMA AcquireFacts ==
  ASSUME NEW q \in Queues, NEW rotate, NEW i \in Slots
  PROVE  /\ QueueAcquire(q, rotate, i) \in Queues
         /\ QueueAcquire(q, rotate, i).slots
              = [q.slots EXCEPT ![i] = TakenSlot(q.slots[i])]
  <1> DEFINE s == TakenSlot(q.slots[i])
  <1>1. (i + 1) % ScanCount(q, rotate) \in Slots
    BY CountAssumption DEF ScanCount, Slots, Queues
  <1>2. s \in SlotRecords
    BY DEF SlotRecords, Queues, TakenSlot
  <1> HIDE DEF s
  <1>3. WithSlot(q, i, s) \in Queues /\ WithSlot(q, i, s).slots = [q.slots EXCEPT ![i] = s]
    BY <1>2, WithSlotFacts
  <1>4. QueueAcquire(q, rotate, i)
          = [WithSlot(q, i, s) EXCEPT !.cursor = (i + 1) % ScanCount(q, rotate)]
    BY DEF QueueAcquire, s
  <1>5. QueueAcquire(q, rotate, i) \in Queues /\ QueueAcquire(q, rotate, i).slots = [q.slots EXCEPT ![i] = s]
    BY <1>1, <1>3, <1>4 DEF Queues
  <1> QED
    BY <1>5 DEF s

\* Cancelling clears the acquired mark of slot i and nothing else.
LEMMA CancelFacts ==
  ASSUME NEW q \in Queues, NEW i \in Slots
  PROVE  /\ QueueCancel(q, i) \in Queues
         /\ QueueCancel(q, i).slots = [q.slots EXCEPT ![i] = [q.slots[i] EXCEPT !.acquired = FALSE]]
  <1> DEFINE s == [q.slots[i] EXCEPT !.acquired = FALSE]
  <1>1. s \in SlotRecords
    BY DEF SlotRecords, Queues
  <1>2. QueueCancel(q, i) = WithSlot(q, i, s)
    BY DEF QueueCancel
  <1> HIDE DEF s
  <1>3. QueueCancel(q, i) \in Queues /\ QueueCancel(q, i).slots = [q.slots EXCEPT ![i] = s]
    BY <1>1, <1>2, WithSlotFacts
  <1> QED
    BY <1>3 DEF s

\* Publishing hands slot i to the notified clients under the new sequence
\* number, keeps its wait and leaves the other slots alone.
LEMMA PublishFacts ==
  ASSUME NEW q \in Queues, NEW i \in Slots, NEW d \in SUBSET Clients, NEW seq \in Nat
  PROVE  /\ QueuePublish(q, i, d, seq) \in Queues
         /\ QueuePublish(q, i, d, seq).slots
              = [q.slots EXCEPT ![i] =
                   [acquired |-> FALSE, abandoned |-> FALSE, pending |-> d,
                    wait |-> q.slots[i].wait, last_frame |-> q.frame + 1,
                    last_seq |-> seq]]
  <1> DEFINE s == [acquired |-> FALSE, abandoned |-> FALSE, pending |-> d,
                   wait |-> q.slots[i].wait, last_frame |-> q.frame + 1,
                   last_seq |-> seq]
  <1>1. s \in SlotRecords /\ q.frame + 1 \in Nat
    BY DEF SlotRecords, Queues
  <1> HIDE DEF s
  <1>2. WithSlot(q, i, s) \in Queues /\ WithSlot(q, i, s).slots = [q.slots EXCEPT ![i] = s]
    BY <1>1, WithSlotFacts
  <1>3. QueuePublish(q, i, d, seq) = [WithSlot(q, i, s) EXCEPT !.frame = q.frame + 1]
    BY DEF QueuePublish, s
  <1>4. QueuePublish(q, i, d, seq) \in Queues /\ QueuePublish(q, i, d, seq).slots = [q.slots EXCEPT ![i] = s]
    BY <1>1, <1>2, <1>3 DEF Queues
  <1> QED
    BY <1>4 DEF s

\* A release keeps the queue well formed, accepted or not.
LEMMA ReleaseFacts ==
  ASSUME NEW q \in Queues, NEW i \in Slots, NEW c \in Clients, NEW seq \in Nat,
         QueueReleasable(q, i, c, seq)
  PROVE  /\ QueueRelease(q, i, c, seq) \in Queues
         /\ QueueRelease(q, i, c, seq).slots
              = [q.slots EXCEPT ![i] = ReleasedSlot(q.slots[i], c, seq)]
  <1>1. ReleasedSlot(q.slots[i], c, seq) \in SlotRecords
    BY DEF SlotRecords, Queues, Larger, ReleasedSlot
  <1> QED
    BY <1>1, WithSlotFacts DEF QueueRelease

\* Dropping clients removes their bits and quarantines exactly the slots they
\* still owned; acquisition marks, waits and sequence numbers stay.
LEMMA DropFacts ==
  ASSUME NEW q \in Queues, NEW lost
  PROVE  /\ QueueDropClients(q, lost) \in Queues
         /\ \A i \in Slots :
              /\ QueueDropClients(q, lost).slots[i].acquired = q.slots[i].acquired
              /\ QueueDropClients(q, lost).slots[i].pending = q.slots[i].pending \ lost
              /\ QueueDropClients(q, lost).slots[i].wait = q.slots[i].wait
              /\ QueueDropClients(q, lost).slots[i].last_seq = q.slots[i].last_seq
              /\ QueueDropClients(q, lost).slots[i].abandoned <=>
                   (q.slots[i].abandoned \/ q.slots[i].pending \cap lost # {})
  <1>1. ASSUME NEW s \in SlotRecords
        PROVE  /\ DroppedSlot(s, lost) \in SlotRecords
               /\ DroppedSlot(s, lost).acquired = s.acquired
               /\ DroppedSlot(s, lost).pending = s.pending \ lost
               /\ DroppedSlot(s, lost).wait = s.wait
               /\ DroppedSlot(s, lost).last_seq = s.last_seq
               /\ DroppedSlot(s, lost).abandoned <=> (s.abandoned \/ s.pending \cap lost # {})
    <2>1. (s.abandoned \/ s.pending \cap lost # {}) \in BOOLEAN
      OBVIOUS
    <2> QED
      BY <2>1 DEF DroppedSlot, SlotRecords
  <1>2. QueueDropClients(q, lost)
          = [q EXCEPT !.slots = [i \in Slots |-> DroppedSlot(q.slots[i], lost)]]
    BY DEF QueueDropClients, Queues, Slots
  <1>3. /\ QueueDropClients(q, lost) \in Queues
        /\ \A i \in Slots : QueueDropClients(q, lost).slots[i] = DroppedSlot(q.slots[i], lost)
    BY <1>1, <1>2 DEF Queues
  <1>4. \A i \in Slots : q.slots[i] \in SlotRecords
    BY DEF Queues
  <1> QED
    BY <1>1, <1>3, <1>4

\* Recovery clears the quarantine of every slot and nothing else.
LEMMA RecoverFacts ==
  ASSUME NEW q \in Queues
  PROVE  /\ QueueRecover(q) \in Queues
         /\ \A i \in Slots : QueueRecover(q).slots[i]
              = [q.slots[i] EXCEPT !.abandoned = FALSE]
  BY DEF QueueRecover, Queues, SlotRecords, Slots

-----------------------------------------------------------------------------
(* Type correctness.                                                       *)

\* The initial state is well typed.
LEMMA TypeInit == Init => TypeOK
  <1> SUFFICES ASSUME Init PROVE TypeOK
    OBVIOUS
  <1>1. queue \in Queues
    BY ResetFacts DEF Init
  <1> QED
    BY <1>1 DEF Init, TypeOK

\* Every step keeps the state well typed.
LEMMA TypeStep == TypeOK /\ [Next]_vars => TypeOK'
  <1> SUFFICES ASSUME TypeOK, [Next]_vars PROVE TypeOK'
    OBVIOUS
  <1> USE DEF TypeOK
  <1>1. ASSUME NEW i \in Slots, Acquire(i) PROVE TypeOK'
    <2>1. queue' \in Queues
      <3>1. queue' = QueueAcquire(queue, live # {}, i)
        BY <1>1 DEF Acquire
      <3> QED
        BY <3>1, AcquireFacts
    <2>2. gpu_wait' \in Nat
      BY <1>1 DEF Acquire, Larger, Queues, SlotRecords
    <2> QED
      BY <1>1, <2>1, <2>2 DEF Acquire
  <1>2. CASE Cancel
    BY <1>2, CancelFacts DEF Cancel
  <1>3. CASE Draw
    BY <1>3 DEF Draw, Writes, Elsewhere
  <1>4. ASSUME NEW d \in SUBSET live, NEW lost \in SUBSET live, Publish(d, lost)
        PROVE TypeOK'
    <2>1. queue' \in Queues
      <3>1. target \in Slots /\ d \in SUBSET Clients /\ dirty_seq + 1 \in Nat
        BY <1>4 DEF Publish
      <3>2. queue' = QueuePublish(QueueDropClients(queue, lost), target, d, dirty_seq + 1)
        BY <1>4 DEF Publish
      <3>3. QueueDropClients(queue, lost) \in Queues
        BY DropFacts
      <3> QED
        BY <3>1, <3>2, <3>3, PublishFacts
    <2>2. uses' \in SUBSET Uses
      BY <1>4 DEF Publish, NewUse, Uses, Stages
    <2>3. /\ dirty_seq' = dirty_seq + 1 /\ live' \subseteq live /\ gpu_wait' = gpu_wait
          /\ writes' = writes /\ timeline' = timeline /\ target' = NoSlot
          /\ drawn' = FALSE
      BY <1>4 DEF Publish
    <2>4. drawn' \in BOOLEAN
      BY <2>3
    <2>5. dirty_seq' \in Nat /\ live' \in SUBSET Clients /\ gpu_wait' \in Nat
          /\ writes' \in SUBSET Writes /\ timeline' \in Nat
          /\ target' \in Slots \cup {NoSlot}
      BY <2>3
    <2> QED
      BY <2>1, <2>2, <2>4, <2>5
  <1>5. ASSUME NEW d \in SUBSET live, NEW lost \in SUBSET live, PublishElsewhere(d, lost)
        PROVE TypeOK'
    <2>1. queue' \in Queues
      BY <1>5, DropFacts DEF PublishElsewhere
    <2>2. uses' \in SUBSET Uses
      BY <1>5 DEF PublishElsewhere, NewUse, Uses, Stages
    <2> QED
      BY <1>5, <2>1, <2>2 DEF PublishElsewhere
  <1>6. CASE Resize
    <2>1. uses' \in SUBSET Uses
      BY <1>6 DEF Resize, Uses
    <2>2. writes' \in SUBSET Writes
      BY <1>6 DEF Resize, Writes
    <2> QED
      BY <1>6, <2>1, <2>2, ResetFacts DEF Resize
  <1>7. ASSUME NEW v2 \in {{}} \cup {{c} : c \in Clients}, Attach(v2) PROVE TypeOK'
    BY <1>7, RecoverFacts DEF Attach
  <1>8. ASSUME NEW lost \in SUBSET live, Drop(lost) PROVE TypeOK'
    BY <1>8, DropFacts DEF Drop
  <1>9. ASSUME NEW c \in Clients, NEW i \in Slots, NEW seq \in 1..dirty_seq,
               Release(c, i, seq)
        PROVE TypeOK'
    <2>1. seq \in Nat
      OBVIOUS
    <2> QED
      BY <1>9, <2>1, ReleaseFacts DEF Release
  <1>10. ASSUME NEW u \in uses, Advance(u) PROVE TypeOK'
    BY <1>10 DEF Advance, Uses, Stages
  <1>11. ASSUME NEW gone \in SUBSET uses, Vanish(gone) PROVE TypeOK'
    BY <1>11 DEF Vanish
  <1>12. ASSUME NEW u \in uses, Signal(u) PROVE TypeOK'
    BY <1>12 DEF Signal, Uses
  <1>13. ASSUME NEW w \in writes, WriteDone(w) PROVE TypeOK'
    BY <1>13 DEF WriteDone
  <1>14. CASE UNCHANGED vars
    BY <1>14 DEF vars
  <1> QED
    BY <1>1, <1>2, <1>3, <1>4, <1>5, <1>6, <1>7, <1>8, <1>9, <1>10, <1>11, <1>12,
       <1>13, <1>14 DEF Next

\* Every reachable state of the swapchain is well typed.
THEOREM TypeCorrect == Spec => []TypeOK
  BY TypeInit, TypeStep, PTL DEF Spec

-----------------------------------------------------------------------------
(* The ownership invariant.                                                *)

\* The ownership invariant holds before the first frame.
LEMMA InvInit == Init => OwnershipInv
  <1> SUFFICES ASSUME Init PROVE OwnershipInv
    OBVIOUS
  <1>1. \A i \in Slots : queue.slots[i] = FreshSlot
    BY ResetFacts DEF Init
  <1>2. TargetInv
    BY <1>1, SlotsNonEmpty DEF Init, TargetInv, FreshSlot
  <1>3. SeqInv
    BY <1>1 DEF Init, SeqInv, FreshSlot
  <1> QED
    BY <1>2, <1>3 DEF Init, OwnershipInv, UseInv, WriteInv

\* xios_output_acquire takes a slot owed to nobody and moves its release wait
\* into the command stream, so every use of it stays covered.
LEMMA AcquireInv ==
  ASSUME TypeOK, OwnershipInv, NEW i \in Slots, Acquire(i)
  PROVE  OwnershipInv'
  <1> USE DEF TypeOK, OwnershipInv
  <1>1. /\ queue'.slots = [queue.slots EXCEPT ![i] = TakenSlot(queue.slots[i])]
        /\ gpu_wait' = Larger(gpu_wait, queue.slots[i].wait)
        /\ target' = i /\ target = NoSlot
        /\ uses' = uses /\ writes' = writes /\ drawn' = drawn
        /\ dirty_seq' = dirty_seq /\ timeline' = timeline
    <2>1. queue' = QueueAcquire(queue, live # {}, i)
      BY DEF Acquire
    <2>2. PICK r : queue' = QueueAcquire(queue, r, i)
      BY <2>1, Zenon
    <2>3. queue'.slots = [queue.slots EXCEPT ![i] = TakenSlot(queue.slots[i])]
      BY <2>2, AcquireFacts
    <2> QED
      BY <2>3 DEF Acquire
  <1>2. SlotFree(queue.slots[i])
    BY DEF Acquire, QueueOffers
  <1>3. \A j \in Slots : queue.slots[j] \in SlotRecords
    BY DEF Queues
  <1>4. TargetInv'
    <2>1. \A j \in Slots : j # i => queue'.slots[j] = queue.slots[j] /\ ~queue.slots[j].acquired
      BY <1>1, <1>3, SlotsNonEmpty DEF TargetInv, Queues
    <2>2. /\ queue'.slots[i].acquired = TRUE /\ queue'.slots[i].wait = 0
          /\ queue'.slots[i].pending = {} /\ ~queue'.slots[i].abandoned
      BY <1>1, <1>2, <1>3 DEF SlotFree, SlotRecords, TakenSlot, Queues
    <2>3. drawn' => target' # NoSlot
      BY <1>1, SlotsNonEmpty DEF TargetInv
    <2> QED
      BY <1>1, <2>1, <2>2, <2>3 DEF TargetInv
  <1>5. SeqInv'
    BY <1>1, <1>3 DEF SeqInv, SlotRecords, TakenSlot
  <1>6. UseInv'
    BY <1>1, <1>2, <1>3 DEF UseInv, KeptFor, SlotFree, SlotRecords, TakenSlot, Larger, Uses
  <1>7. WriteInv'
    BY <1>1 DEF WriteInv
  <1> QED
    BY <1>4, <1>5, <1>6, <1>7

\* xios_output_cancel gives back a slot that was owed to nobody.
LEMMA CancelInv ==
  ASSUME TypeOK, OwnershipInv, Cancel
  PROVE  OwnershipInv'
  <1> USE DEF TypeOK, OwnershipInv
  <1>1. target \in Slots
    BY DEF Cancel
  <1>2. /\ queue'.slots = [queue.slots EXCEPT ![target] =
                             [queue.slots[target] EXCEPT !.acquired = FALSE]]
        /\ target' = NoSlot /\ ~drawn
        /\ uses' = uses /\ writes' = writes /\ drawn' = drawn /\ gpu_wait' = gpu_wait
        /\ dirty_seq' = dirty_seq /\ timeline' = timeline
    BY <1>1, CancelFacts DEF Cancel
  <1>3. \A j \in Slots : queue.slots[j] \in SlotRecords
    BY DEF Queues
  <1>4. TargetInv'
    <2>1. \A j \in Slots : j # target => queue'.slots[j] = queue.slots[j] /\ ~queue.slots[j].acquired
      BY <1>2, <1>3 DEF TargetInv, Queues
    <2>2. queue'.slots[target].acquired = FALSE
      BY <1>1, <1>2, <1>3 DEF SlotRecords, Queues
    <2>3. ~drawn'
      BY <1>2
    <2> QED
      BY <1>1, <1>2, <2>1, <2>2, <2>3, SlotsNonEmpty DEF TargetInv
  <1>5. SeqInv'
    BY <1>2, <1>3 DEF SeqInv, SlotRecords
  <1>6. UseInv'
    BY <1>1, <1>2, <1>3 DEF UseInv, KeptFor, SlotRecords, Uses
  <1>7. WriteInv'
    BY <1>2 DEF WriteInv
  <1> QED
    BY <1>4, <1>5, <1>6, <1>7

\* A queued draw waits for every release the stream was told of, which covers
\* all older uses of its slot.
LEMMA DrawInv ==
  ASSUME TypeOK, OwnershipInv, Draw
  PROVE  OwnershipInv'
  <1> USE DEF TypeOK, OwnershipInv
  <1> DEFINE new == [slot |-> target, seq |-> dirty_seq + 1, wait |-> gpu_wait]
  <1>1. target \in Slots
    BY DEF Draw
  <1>2. /\ writes' = writes \cup {new} /\ drawn'
        /\ queue' = queue /\ target' = target /\ uses' = uses /\ gpu_wait' = gpu_wait
        /\ dirty_seq' = dirty_seq /\ timeline' = timeline
    BY DEF Draw
  <1>3. TargetInv'
    BY <1>1, <1>2, SlotsNonEmpty DEF TargetInv
  <1>4. SeqInv'
    <2>1. \A w \in writes : w.seq <= dirty_seq
      BY DEF SeqInv, Draw
    <2> QED
      BY <1>2, <2>1 DEF SeqInv
  <1>5. UseInv'
    BY <1>2 DEF UseInv, KeptFor
  <1>6. \A u \in uses : u.slot = target => u.stage = "releasing" /\ gpu_wait >= u.seq
    <2> SUFFICES ASSUME NEW u \in uses, u.slot = target
                 PROVE  u.stage = "releasing" /\ gpu_wait >= u.seq
      OBVIOUS
    <2>1. ~KeptFor(u) /\ queue.slots[target].wait = 0
      BY <1>1 DEF KeptFor, TargetInv
    <2>2. u.seq \in Nat \ {0}
      BY DEF Uses
    <2> QED
      BY <1>1, <2>1, <2>2 DEF UseInv
  <1>7. WriteInv'
    BY <1>1, <1>2, <1>6 DEF WriteInv
  <1> QED
    BY <1>3, <1>4, <1>5, <1>7

\* Publishing an output creates at most one use, covered by the pending mask;
\* clients lost on the way leave their slots quarantined.
LEMMA PublishInv ==
  ASSUME TypeOK, OwnershipInv, NEW d \in SUBSET live, NEW lost \in SUBSET live,
         Publish(d, lost)
  PROVE  OwnershipInv'
  <1> USE DEF TypeOK, OwnershipInv
  <1> DEFINE q == QueueDropClients(queue, lost)
             s == [acquired |-> FALSE, abandoned |-> FALSE, pending |-> d,
                   wait |-> q.slots[target].wait, last_frame |-> q.frame + 1,
                   last_seq |-> dirty_seq + 1]
  <1>1. /\ target \in Slots /\ d \in SUBSET Clients /\ dirty_seq + 1 \in Nat
        /\ q \in Queues
    BY DropFacts DEF Publish
  <1>2. queue' = QueuePublish(q, target, d, dirty_seq + 1)
    BY DEF Publish
  <1>3. /\ \A j \in Slots :
             /\ q.slots[j].acquired = queue.slots[j].acquired
             /\ q.slots[j].pending = queue.slots[j].pending \ lost
             /\ q.slots[j].wait = queue.slots[j].wait
             /\ q.slots[j].last_seq = queue.slots[j].last_seq
             /\ q.slots[j].abandoned <=>
                  (queue.slots[j].abandoned \/ queue.slots[j].pending \cap lost # {})
    BY DropFacts
  <1> HIDE DEF q
  <1>31. queue'.slots = [q.slots EXCEPT ![target] = s]
    BY <1>1, <1>2, PublishFacts
  <1>4. /\ target' = NoSlot /\ ~drawn' /\ dirty_seq' = dirty_seq + 1
        /\ writes' = writes /\ gpu_wait' = gpu_wait /\ timeline' = timeline
        /\ uses' \subseteq uses \cup NewUse(target, d)
    BY DEF Publish
  <1>5. \A u \in uses' : u \in uses \/ (d # {} /\ u.slot = target /\ u.seq = dirty_seq + 1)
    BY <1>4 DEF NewUse
  <1>6. /\ queue'.slots[target] = s
        /\ \A j \in Slots : j # target => queue'.slots[j] = q.slots[j]
    BY <1>1, <1>31 DEF Queues
  <1>7. TargetInv'
    <2>1. \A j \in Slots : j # target => ~queue.slots[j].acquired
      BY DEF TargetInv
    <2> QED
      BY <1>3, <1>4, <1>6, <2>1, SlotsNonEmpty DEF TargetInv
  <1>8. SeqInv'
    <2>1. timeline <= dirty_seq + 1
      BY DEF SeqInv
    <2>2. \A u \in uses' : timeline < u.seq /\ u.seq <= dirty_seq + 1
      BY <1>5 DEF SeqInv, Uses
    <2>3. \A w \in writes : w.seq <= dirty_seq + 1
      BY DEF SeqInv, Writes
    <2>4. \A j \in Slots : queue'.slots[j].last_seq <= dirty_seq + 1
      BY <1>3, <1>6 DEF SeqInv, Queues, SlotRecords
    <2>5. \A u, v \in uses' : u.seq = v.seq => u = v
      BY <1>4 DEF NewUse, SeqInv, Uses
    <2> QED
      BY <1>4, <2>1, <2>2, <2>3, <2>4, <2>5 DEF SeqInv
  <1>9. UseInv'
    <2> SUFFICES ASSUME NEW u \in uses', u.slot \in Slots
                 PROVE  \/ KeptFor(u)'
                        \/ /\ u.stage = "releasing"
                           /\ queue'.slots[u.slot].wait >= u.seq \/ gpu_wait' >= u.seq
      BY DEF UseInv
    <2>1. CASE u \notin uses
      BY <1>5, <1>6, <2>1 DEF KeptFor
    <2>2. CASE u \in uses /\ u.slot = target
      <3>1. ~KeptFor(u)
        BY <2>2, <1>1 DEF KeptFor, TargetInv
      <3> QED
        BY <1>3, <1>4, <1>6, <2>2, <3>1 DEF UseInv
    <2>3. CASE u \in uses /\ u.slot # target
      <3>1. KeptFor(u) => KeptFor(u)'
        BY <1>3, <1>6, <2>3 DEF KeptFor
      <3> QED
        BY <1>3, <1>4, <1>6, <2>3, <3>1 DEF UseInv
    <2> QED
      BY <2>1, <2>2, <2>3
  <1>10. WriteInv'
    <2>1. \A w \in writes, u \in uses' : u.seq < w.seq => u \in uses
      BY <1>1, <1>5 DEF SeqInv, Writes
    <2> QED
      BY <1>4, <2>1 DEF WriteInv
  <1> QED
    BY <1>7, <1>8, <1>9, <1>10

\* A direct publication creates a use outside the swapchain.
LEMMA PublishElsewhereInv ==
  ASSUME TypeOK, OwnershipInv, NEW d \in SUBSET live, NEW lost \in SUBSET live,
         PublishElsewhere(d, lost)
  PROVE  OwnershipInv'
  <1> USE DEF TypeOK, OwnershipInv
  <1>1. /\ dirty_seq' = dirty_seq + 1 /\ uses' \subseteq uses \cup NewUse(Elsewhere, d)
        /\ target' = target /\ drawn' = drawn /\ target = NoSlot
        /\ writes' = writes /\ gpu_wait' = gpu_wait /\ timeline' = timeline
    BY DEF PublishElsewhere
  <1>11. \A i \in Slots :
          /\ queue'.slots[i].acquired = queue.slots[i].acquired
          /\ queue'.slots[i].pending = queue.slots[i].pending \ lost
          /\ queue'.slots[i].wait = queue.slots[i].wait
          /\ queue'.slots[i].last_seq = queue.slots[i].last_seq
          /\ queue'.slots[i].abandoned <=>
               (queue.slots[i].abandoned \/ queue.slots[i].pending \cap lost # {})
    BY DropFacts DEF PublishElsewhere
  <1>2. \A u \in uses' : u \in uses \/ (u.slot \notin Slots /\ u.seq = dirty_seq + 1)
    BY <1>1, CountAssumption DEF NewUse, Elsewhere, Slots
  <1>3. TargetInv'
    BY <1>1, <1>11 DEF TargetInv
  <1>4. SeqInv'
    <2>1. ~drawn
      BY <1>1 DEF TargetInv
    <2>2. \A w \in writes : w.seq <= dirty_seq + 1
      BY <2>1 DEF SeqInv, Writes
    <2>3. \A u \in uses' : timeline < u.seq /\ u.seq <= dirty_seq + 1
      BY <1>2 DEF SeqInv, Uses
    <2>4. \A i \in Slots : queue'.slots[i].last_seq <= dirty_seq + 1
      BY <1>11 DEF SeqInv, Queues, SlotRecords
    <2>5. timeline <= dirty_seq + 1
      BY DEF SeqInv
    <2>6. \A u, v \in uses' : u.seq = v.seq => u = v
      BY <1>1 DEF NewUse, SeqInv, Uses
    <2> QED
      BY <1>1, <2>2, <2>3, <2>4, <2>5, <2>6 DEF SeqInv
  <1>5. UseInv'
    <2>1. \A u \in uses : u.slot \in Slots /\ KeptFor(u) => KeptFor(u)'
      BY <1>11 DEF KeptFor
    <2> QED
      BY <1>1, <1>11, <1>2, <2>1 DEF UseInv
  <1>6. WriteInv'
    BY <1>1, <1>2 DEF WriteInv
  <1> QED
    BY <1>3, <1>4, <1>5, <1>6

\* After a resize no use and no draw concerns the new buffers.
LEMMA ResizeInv ==
  ASSUME TypeOK, OwnershipInv, Resize
  PROVE  OwnershipInv'
  <1> USE DEF TypeOK, OwnershipInv
  <1>1. /\ \A i \in Slots : queue'.slots[i] = FreshSlot
        /\ target' = target /\ drawn' = drawn /\ target = NoSlot
        /\ dirty_seq' = dirty_seq /\ gpu_wait' = gpu_wait /\ timeline' = timeline
    BY ResetFacts DEF Resize
  <1>2. \A u \in uses' : u.slot \notin Slots /\ \E v \in uses : u.seq = v.seq
    BY CountAssumption DEF Resize, Uses, Elsewhere, Slots
  <1>3. \A w \in writes' : w.slot \notin Slots /\ \E v \in writes : w.seq = v.seq
    BY CountAssumption DEF Resize, Writes, Elsewhere, Slots
  <1>4. TargetInv'
    BY <1>1, SlotsNonEmpty DEF TargetInv, FreshSlot
  <1>5. SeqInv'
    <2>1. \A u, v \in uses' : u.seq = v.seq => u = v
      <3> SUFFICES ASSUME NEW u \in uses', NEW v \in uses', u.seq = v.seq PROVE u = v
        OBVIOUS
      <3>1. PICK x \in uses : u = [x EXCEPT !.slot = Elsewhere]
        BY DEF Resize
      <3>2. PICK y \in uses : v = [y EXCEPT !.slot = Elsewhere]
        BY DEF Resize
      <3>3. x.seq = y.seq
        BY <3>1, <3>2 DEF Uses
      <3> QED
        BY <3>1, <3>2, <3>3 DEF SeqInv
    <2> QED
      BY <1>1, <1>2, <1>3, <2>1 DEF SeqInv, FreshSlot
  <1>6. UseInv'
    BY <1>2 DEF UseInv
  <1>7. WriteInv'
    BY <1>3 DEF WriteInv
  <1> QED
    BY <1>4, <1>5, <1>6, <1>7

\* A handshake lifts the quarantine of slots no use concerns any more.
LEMMA AttachInv ==
  ASSUME TypeOK, OwnershipInv, NEW v2, Attach(v2)
  PROVE  OwnershipInv'
  <1> USE DEF TypeOK, OwnershipInv
  <1>1. /\ \A i \in Slots : queue'.slots[i] = [queue.slots[i] EXCEPT !.abandoned = FALSE]
        /\ target' = target /\ drawn' = drawn /\ uses' = uses /\ writes' = writes
        /\ dirty_seq' = dirty_seq /\ gpu_wait' = gpu_wait /\ timeline' = timeline
        /\ HandshakeProof
    BY RecoverFacts DEF Attach
  <1>2. \A i \in Slots :
          /\ queue'.slots[i].acquired = queue.slots[i].acquired
          /\ queue'.slots[i].pending = queue.slots[i].pending
          /\ queue'.slots[i].wait = queue.slots[i].wait
          /\ queue'.slots[i].last_seq = queue.slots[i].last_seq
          /\ queue'.slots[i].abandoned = FALSE
    BY <1>1 DEF Queues, SlotRecords
  <1>3. TargetInv'
    BY <1>1, <1>2 DEF TargetInv
  <1>4. SeqInv'
    BY <1>1, <1>2 DEF SeqInv
  <1>5. UseInv'
    BY <1>1, <1>2 DEF UseInv, KeptFor, HandshakeProof
  <1>6. WriteInv'
    BY <1>1 DEF WriteInv
  <1> QED
    BY <1>3, <1>4, <1>5, <1>6

\* A dropped client's slots are quarantined, so its uses stay covered.
LEMMA DropInv ==
  ASSUME TypeOK, OwnershipInv, NEW lost \in SUBSET live, Drop(lost)
  PROVE  OwnershipInv'
  <1> USE DEF TypeOK, OwnershipInv
  <1>1. /\ target' = target /\ drawn' = drawn /\ uses' = uses /\ writes' = writes
        /\ dirty_seq' = dirty_seq /\ gpu_wait' = gpu_wait /\ timeline' = timeline
        /\ queue' = QueueDropClients(queue, lost)
    BY DEF Drop
  <1>2. \A i \in Slots :
          /\ queue'.slots[i].acquired = queue.slots[i].acquired
          /\ queue'.slots[i].pending = queue.slots[i].pending \ lost
          /\ queue'.slots[i].wait = queue.slots[i].wait
          /\ queue'.slots[i].last_seq = queue.slots[i].last_seq
          /\ queue'.slots[i].abandoned <=>
               (queue.slots[i].abandoned \/ queue.slots[i].pending \cap lost # {})
    BY <1>1, DropFacts
  <1>3. TargetInv'
    BY <1>1, <1>2 DEF TargetInv
  <1>4. SeqInv'
    BY <1>1, <1>2 DEF SeqInv
  <1>5. UseInv'
    <2>1. \A u \in uses : u.slot \in Slots /\ KeptFor(u) => KeptFor(u)'
      BY <1>2 DEF KeptFor
    <2> QED
      BY <1>1, <1>2, <2>1 DEF UseInv
  <1>6. WriteInv'
    BY <1>1 DEF WriteInv
  <1> QED
    BY <1>3, <1>4, <1>5, <1>6

\* An accepted RELEASED replaces the pending bit by a wait for its sequence
\* number; its use has its signal committed.
LEMMA ReleaseInv ==
  ASSUME TypeOK, OwnershipInv, NEW c \in Clients, NEW i \in Slots,
         NEW seq \in 1..dirty_seq, Release(c, i, seq)
  PROVE  OwnershipInv'
  <1> USE DEF TypeOK, OwnershipInv
  <1>1. /\ QueueReleasable(queue, i, c, seq) /\ seq \in Nat
        /\ \A u \in uses : u.slot = i /\ u.seq = seq => u.stage = "releasing"
        /\ target' = target /\ drawn' = drawn /\ uses' = uses /\ writes' = writes
        /\ dirty_seq' = dirty_seq /\ gpu_wait' = gpu_wait /\ timeline' = timeline
    BY DEF Release
  <1>2. queue'.slots = [queue.slots EXCEPT ![i] = ReleasedSlot(queue.slots[i], c, seq)]
    BY <1>1, ReleaseFacts DEF Release
  <1>3. /\ \A j \in Slots : j # i => queue'.slots[j] = queue.slots[j]
        /\ queue'.slots[i].acquired = queue.slots[i].acquired
        /\ queue'.slots[i].abandoned = queue.slots[i].abandoned
        /\ queue'.slots[i].pending = queue.slots[i].pending \ {c}
        /\ queue'.slots[i].last_seq = queue.slots[i].last_seq
        /\ queue'.slots[i].wait >= queue.slots[i].wait
        /\ queue'.slots[i].wait >= seq
    BY <1>1, <1>2 DEF ReleasedSlot, Queues, SlotRecords, Larger
  <1>4. c \in queue.slots[i].pending /\ queue.slots[i].last_seq = seq
    BY <1>1 DEF QueueReleasable
  <1>5. TargetInv'
    <2>1. ~queue.slots[i].acquired
      BY <1>4 DEF TargetInv
    <2> QED
      BY <1>1, <1>3, <2>1 DEF TargetInv
  <1>6. SeqInv'
    BY <1>1, <1>3 DEF SeqInv
  <1>7. UseInv'
    <2> SUFFICES ASSUME NEW u \in uses, u.slot \in Slots
                 PROVE  \/ KeptFor(u)'
                        \/ /\ u.stage = "releasing"
                           /\ queue'.slots[u.slot].wait >= u.seq \/ gpu_wait' >= u.seq
      BY <1>1 DEF UseInv
    <2>1. CASE u.slot # i
      BY <1>1, <1>3, <2>1 DEF UseInv, KeptFor
    <2>2. CASE u.slot = i /\ u.seq = seq
      BY <1>1, <1>3, <2>2
    <2>3. CASE u.slot = i /\ u.seq # seq
      <3>1. queue.slots[i].wait \in Nat /\ queue'.slots[i].wait \in Nat /\ u.seq \in Nat
        BY <1>1, <1>2 DEF Queues, SlotRecords, Uses, ReleasedSlot, Larger
      <3> QED
        BY <1>1, <1>3, <1>4, <2>3, <3>1 DEF UseInv, KeptFor
    <2> QED
      BY <2>1, <2>2, <2>3
  <1>8. WriteInv'
    BY <1>1 DEF WriteInv
  <1> QED
    BY <1>5, <1>6, <1>7, <1>8

\* The consumer's progress on a frame keeps it covered.
LEMMA AdvanceInv ==
  ASSUME TypeOK, OwnershipInv, NEW u \in uses, Advance(u)
  PROVE  OwnershipInv'
  <1> USE DEF TypeOK, OwnershipInv
  <1>1. /\ queue' = queue /\ target' = target /\ drawn' = drawn /\ writes' = writes
        /\ dirty_seq' = dirty_seq /\ gpu_wait' = gpu_wait /\ timeline' = timeline
        /\ u.stage # "releasing"
        /\ \E st \in Stages : uses' = (uses \ {u}) \cup {[u EXCEPT !.stage = st]}
    BY DEF Advance, Stages
  <1>2. \A v \in uses' : v \in uses \/ (v.slot = u.slot /\ v.seq = u.seq)
    BY <1>1 DEF Uses
  <1>3. TargetInv'
    BY <1>1 DEF TargetInv
  <1>4. SeqInv'
    BY <1>1, <1>2 DEF SeqInv
  <1>5. UseInv'
    <2>1. u.slot \in Slots => KeptFor(u)
      BY <1>1 DEF UseInv
    <2> QED
      BY <1>1, <1>2, <2>1 DEF UseInv, KeptFor
  <1>6. WriteInv'
    <2>1. \A w \in writes : ~(w.slot = u.slot /\ w.slot \in Slots /\ u.seq < w.seq)
      BY <1>1 DEF WriteInv
    <2> QED
      BY <1>1, <1>2, <2>1 DEF WriteInv
  <1> QED
    BY <1>3, <1>4, <1>5, <1>6

\* Fewer uses need less cover.
LEMMA VanishInv ==
  ASSUME TypeOK, OwnershipInv, NEW gone \in SUBSET uses, Vanish(gone)
  PROVE  OwnershipInv'
  <1> USE DEF TypeOK, OwnershipInv
  <1>1. /\ queue' = queue /\ target' = target /\ drawn' = drawn /\ writes' = writes
        /\ dirty_seq' = dirty_seq /\ gpu_wait' = gpu_wait /\ timeline' = timeline
        /\ uses' \subseteq uses
    BY DEF Vanish
  <1> QED
    BY <1>1 DEF TargetInv, SeqInv, UseInv, KeptFor, WriteInv

\* A signal fires for the oldest use and ends it.
LEMMA SignalInv ==
  ASSUME TypeOK, OwnershipInv, NEW u \in uses, Signal(u)
  PROVE  OwnershipInv'
  <1> USE DEF TypeOK, OwnershipInv
  <1>1. /\ queue' = queue /\ target' = target /\ drawn' = drawn /\ writes' = writes
        /\ dirty_seq' = dirty_seq /\ gpu_wait' = gpu_wait /\ timeline' = u.seq
        /\ uses' = uses \ {u} /\ \A v \in uses : u.seq <= v.seq
    BY DEF Signal
  <1>2. \A v \in uses' : u.seq < v.seq \/ v.seq = u.seq
    BY <1>1 DEF Uses
  <1>3. TargetInv' /\ UseInv' /\ WriteInv'
    BY <1>1 DEF TargetInv, UseInv, KeptFor, WriteInv
  <1>4. SeqInv'
    BY <1>1, <1>2 DEF SeqInv
  <1> QED
    BY <1>3, <1>4

\* A finished draw needs no cover.
LEMMA WriteDoneInv ==
  ASSUME TypeOK, OwnershipInv, NEW w \in writes, WriteDone(w)
  PROVE  OwnershipInv'
  <1> USE DEF TypeOK, OwnershipInv
  <1>1. /\ queue' = queue /\ target' = target /\ drawn' = drawn /\ uses' = uses
        /\ dirty_seq' = dirty_seq /\ gpu_wait' = gpu_wait /\ timeline' = timeline
        /\ writes' \subseteq writes
    BY DEF WriteDone
  <1> QED
    BY <1>1 DEF TargetInv, SeqInv, UseInv, KeptFor, WriteInv

\* Every step of server, consumer and GPUs preserves the invariant.
LEMMA InvStep == TypeOK /\ OwnershipInv /\ [Next]_vars => OwnershipInv'
  <1> SUFFICES ASSUME TypeOK, OwnershipInv, [Next]_vars PROVE OwnershipInv'
    OBVIOUS
  <1>1. CASE UNCHANGED vars
    BY <1>1 DEF vars, OwnershipInv, TargetInv, SeqInv, UseInv, KeptFor, WriteInv
  <1>2. CASE Next
    BY <1>2, AcquireInv, CancelInv, DrawInv, PublishInv, PublishElsewhereInv,
       ResizeInv, AttachInv, DropInv, ReleaseInv, AdvanceInv, VanishInv, SignalInv,
       WriteDoneInv DEF Next
  <1> QED
    BY <1>1, <1>2

\* Under the invariant a draw over a use that is being read still waits.
LEMMA InvImpliesExclusion == TypeOK /\ OwnershipInv => Exclusion
  <1> SUFFICES ASSUME TypeOK, OwnershipInv,
                      NEW w \in writes, NEW u \in uses,
                      w.slot = u.slot, w.slot \in Slots, Executing(w), Reading(u)
               PROVE  FALSE
    BY DEF Exclusion
  <1>1. u.seq < w.seq
    BY DEF Reading, FenceFired, TypeOK, Uses, Writes
  <1>2. w.wait >= u.seq
    BY <1>1 DEF OwnershipInv, WriteInv
  <1>3. timeline < u.seq /\ timeline >= w.wait
    BY DEF OwnershipInv, SeqInv, Executing
  <1> QED
    BY <1>2, <1>3 DEF TypeOK, Uses, Writes

\* Under the invariant a held buffer is neither free nor being drawn.
LEMMA InvImpliesHeld == TypeOK /\ OwnershipInv => HeldBufferNotReissued
  <1> SUFFICES ASSUME TypeOK, OwnershipInv,
                      NEW u \in uses, u.slot \in Slots, u.stage # "releasing"
               PROVE  ~SlotFree(queue.slots[u.slot]) /\ u.slot # target
    BY DEF HeldBufferNotReissued
  <1>1. KeptFor(u)
    BY DEF OwnershipInv, UseInv
  <1>2. ~queue.slots[u.slot].acquired
    BY <1>1 DEF KeptFor, OwnershipInv, TargetInv
  <1> QED
    BY <1>1, <1>2 DEF KeptFor, SlotFree, OwnershipInv, TargetInv

\* The inductive invariant holds in every reachable state.
THEOREM OwnershipInvariant == Spec => []OwnershipInv
  BY TypeCorrect, InvInit, InvStep, PTL DEF Spec

\* Whatever drops, reconnects, late releases and resizes happen, the
\* compositor's GPU never draws into an output buffer while the consumer's GPU
\* may be reading an earlier frame from it.
THEOREM GpuExclusion == Spec => []Exclusion
  BY TypeCorrect, OwnershipInvariant, InvImpliesExclusion, PTL

\* The compositor is never handed a buffer whose frame the consumer still
\* holds without a committed release.
THEOREM NoReissue == Spec => []HeldBufferNotReissued
  BY TypeCorrect, OwnershipInvariant, InvImpliesHeld, PTL
=============================================================================
