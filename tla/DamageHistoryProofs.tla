------------------------ MODULE DamageHistoryProofs ------------------------
(***************************************************************************)
(* Proofs about DamageHistory, for every set of cells, every number of     *)
(* output buffers and every bound on the frames.                           *)
(***************************************************************************)
EXTENDS DamageHistory, TLAPS

-----------------------------------------------------------------------------
(* What the queue operators do to frame counts and buffer ages.            *)

\* Queue p counts the same frames as q and reports the same ages.
SameFrames(p, q) ==
    /\ p \in Queues
    /\ p.frame = q.frame
    /\ \A j \in Outputs : p.slots[j].last_frame = q.slots[j].last_frame

\* A reset queue is well formed and has drawn nothing.
LEMMA ResetFrames ==
    /\ QueueReset(Count) \in Queues
    /\ \A i \in Outputs : QueueReset(Count).slots[i].last_frame = 0
    /\ QueueReset(Count).frame = 0
  BY HistoryAssumption DEF QueueReset, Queues, SlotRecords, FreshSlot, Outputs

\* Replacing a slot by one drawn in the same frame changes no age.
LEMMA WithSlotFrames ==
  ASSUME NEW q \in Queues, NEW i \in Outputs, NEW s \in SlotRecords,
         s.last_frame = q.slots[i].last_frame
  PROVE  SameFrames(WithSlot(q, i, s), q)
  BY DEF WithSlot, Queues, SameFrames

\* Acquiring a buffer changes no age.
LEMMA AcquireFrames ==
  ASSUME NEW q \in Queues, NEW rotate, NEW i \in Outputs
  PROVE  SameFrames(QueueAcquire(q, rotate, i), q)
  <1> DEFINE s == TakenSlot(q.slots[i])
  <1>1. (i + 1) % ScanCount(q, rotate) \in Outputs
    BY HistoryAssumption DEF ScanCount, Outputs, Queues
  <1>2. s \in SlotRecords /\ s.last_frame = q.slots[i].last_frame
    BY DEF SlotRecords, Queues, TakenSlot
  <1>3. QueueAcquire(q, rotate, i)
          = [WithSlot(q, i, s) EXCEPT !.cursor = (i + 1) % ScanCount(q, rotate)]
    BY DEF QueueAcquire
  <1> HIDE DEF s
  <1>4. SameFrames(WithSlot(q, i, s), q)
    BY <1>2, WithSlotFrames
  <1> QED
    BY <1>1, <1>3, <1>4 DEF Queues, SameFrames

\* Giving a buffer back changes no age.
LEMMA CancelFrames ==
  ASSUME NEW q \in Queues, NEW i \in Outputs
  PROVE  SameFrames(QueueCancel(q, i), q)
  <1> DEFINE s == [q.slots[i] EXCEPT !.acquired = FALSE]
  <1>1. s \in SlotRecords /\ s.last_frame = q.slots[i].last_frame
    BY DEF SlotRecords, Queues
  <1>2. QueueCancel(q, i) = WithSlot(q, i, s)
    BY DEF QueueCancel
  <1> HIDE DEF s
  <1> QED
    BY <1>1, <1>2, WithSlotFrames

\* A release changes no age, accepted or not.
LEMMA ReleaseFrames ==
  ASSUME NEW q \in Queues, NEW i \in Outputs, NEW seq \in Nat
  PROVE  SameFrames(QueueRelease(q, i, 0, seq), q)
  <1> DEFINE s == ReleasedSlot(q.slots[i], 0, seq)
  <1>1. s \in SlotRecords /\ s.last_frame = q.slots[i].last_frame
    BY DEF SlotRecords, Queues, Larger, ReleasedSlot
  <1>2. QueueRelease(q, i, 0, seq) = WithSlot(q, i, s) \/ QueueRelease(q, i, 0, seq) = q
    BY DEF QueueRelease
  <1>3. SameFrames(q, q)
    BY DEF SameFrames
  <1> HIDE DEF s
  <1> QED
    BY <1>1, <1>2, <1>3, WithSlotFrames

\* Dropping a client changes no age.
LEMMA DropFrames ==
  ASSUME NEW q \in Queues, NEW lost
  PROVE  SameFrames(QueueDropClients(q, lost), q)
  <1>1. ASSUME NEW s \in SlotRecords
        PROVE  DroppedSlot(s, lost) \in SlotRecords /\ DroppedSlot(s, lost).last_frame = s.last_frame
    <2>1. (s.abandoned \/ s.pending \cap lost # {}) \in BOOLEAN
      OBVIOUS
    <2> QED
      BY <2>1 DEF DroppedSlot, SlotRecords
  <1>2. QueueDropClients(q, lost)
          = [q EXCEPT !.slots = [i \in Outputs |-> DroppedSlot(q.slots[i], lost)]]
    BY DEF QueueDropClients, Queues, Outputs
  <1>3. \A i \in Outputs : q.slots[i] \in SlotRecords
    BY DEF Queues
  <1> QED
    BY <1>1, <1>2, <1>3 DEF Queues, SameFrames

\* Lifting the quarantine changes no age.
LEMMA RecoverFrames ==
  ASSUME NEW q \in Queues
  PROVE  SameFrames(QueueRecover(q), q)
  BY DEF QueueRecover, Queues, SlotRecords, Outputs, SameFrames

\* Publishing buffer i counts one frame more and makes it the newest.
LEMMA PublishFrames ==
  ASSUME NEW q \in Queues, NEW i \in Outputs, NEW d \in SUBSET {0}, NEW seq \in Nat
  PROVE  /\ QueuePublish(q, i, d, seq) \in Queues
         /\ QueuePublish(q, i, d, seq).frame = q.frame + 1
         /\ \A j \in Outputs : QueuePublish(q, i, d, seq).slots[j].last_frame
              = IF j = i THEN q.frame + 1 ELSE q.slots[j].last_frame
  <1> DEFINE s == [acquired |-> FALSE, abandoned |-> FALSE, pending |-> d,
                   wait |-> q.slots[i].wait, last_frame |-> q.frame + 1,
                   last_seq |-> seq]
  <1>1. s \in SlotRecords /\ s.last_frame = q.frame + 1 /\ q.frame + 1 \in Nat
    BY DEF SlotRecords, Queues
  <1>2. QueuePublish(q, i, d, seq) = [WithSlot(q, i, s) EXCEPT !.frame = q.frame + 1]
    BY DEF QueuePublish
  <1> HIDE DEF s
  <1> QED
    BY <1>1, <1>2 DEF WithSlot, Queues

-----------------------------------------------------------------------------
(* The damage history.                                                     *)

\* Neighbouring entries of the ring are different ones.
LEMMA RingNeighbours ==
  ASSUME NEW s \in Nat, NEW b \in 1..2, b <= s
  PROVE  /\ (s - b) % Depth \in 0..(Depth - 1)
         /\ s % Depth \in 0..(Depth - 1)
         /\ (s - b) % Depth # s % Depth
  BY DEF Depth

\* What a buffer needs is part of the output.
LEMMA NeededInCells ==
  ASSUME NEW d \in SUBSET Cells, NEW h \in [0..(Depth - 1) -> SUBSET Cells],
         NEW s \in Nat, NEW a \in Nat
  PROVE  Needed(d, h, s, a) \subseteq Cells
  <1>1. CASE HistoryMissing(h, s, a)
    BY <1>1 DEF Needed
  <1>2. CASE ~HistoryMissing(h, s, a)
    <2>1. \A b \in 1..(a - 1) : (s - b) \in Nat
      BY <1>2 DEF HistoryMissing
    <2>2. \A b \in 1..(a - 1) : (s - b) % Depth \in 0..(Depth - 1)
      BY <2>1 DEF Depth
    <2>3. Missed(h, s, a) \subseteq Cells
      BY <2>2 DEF Missed
    <2> QED
      BY <1>2, <2>3 DEF Needed
  <1> QED
    BY <1>1, <1>2

\* More damage, more to draw.
LEMMA NeededGrows ==
  ASSUME NEW d, NEW e \in SUBSET Cells, d \subseteq e, NEW h, NEW s, NEW a
  PROVE  Needed(d, h, s, a) \subseteq Needed(e, h, s, a)
  BY DEF Needed

\* A buffer that sat out a frame: what it needed before is in the damage drawn
\* and recorded for that frame, in the older entries it still reaches, or it
\* has fallen off the history and is redrawn in full.
LEMMA RecordedFrame ==
  ASSUME NEW d \in SUBSET Cells, NEW drawn \in SUBSET Cells, d \subseteq drawn,
         NEW h \in [0..(Depth - 1) -> SUBSET Cells], NEW s \in Nat, NEW a \in Nat \ {0}
  PROVE  Needed(d, h, s, a)
           \subseteq Needed({}, [h EXCEPT ![s % Depth] = drawn], s + 1, a + 1)
  <1> DEFINE h2 == [h EXCEPT ![s % Depth] = drawn]
  <1>1. CASE HistoryMissing(h2, s + 1, a + 1)
    <2>1. Needed({}, h2, s + 1, a + 1) = Cells
      BY <1>1 DEF Needed
    <2>2. Needed(d, h, s, a) \subseteq Cells
      BY NeededInCells
    <2> QED
      BY <2>1, <2>2
  <1>2. CASE ~HistoryMissing(h2, s + 1, a + 1)
    <2> HIDE DEF h2
    <2>1. \A b \in 1..a : /\ b <= Depth
                          /\ b <= s + 1
                          /\ h2[((s + 1) - b) % Depth] # {}
      BY <1>2 DEF HistoryMissing, Depth
    <2>2. \A b \in 1..(a - 1) :
             /\ b \in 1..2 /\ b <= s /\ b + 1 \in 1..a
             /\ h2[(s - b) % Depth] # {}
      <3> SUFFICES ASSUME NEW b \in 1..(a - 1)
                   PROVE  /\ b \in 1..2 /\ b <= s /\ b + 1 \in 1..a
                          /\ h2[(s - b) % Depth] # {}
        OBVIOUS
      <3>1. b + 1 \in 1..a /\ (s + 1) - (b + 1) = s - b
        OBVIOUS
      <3>2. b + 1 <= Depth /\ b + 1 <= s + 1 /\ h2[((s + 1) - (b + 1)) % Depth] # {}
        BY <2>1, <3>1
      <3> QED
        BY <3>1, <3>2 DEF Depth
    <2>3. \A b \in 1..(a - 1) : h2[(s - b) % Depth] = h[(s - b) % Depth]
      BY <2>2, RingNeighbours DEF h2
    <2>4. ~HistoryMissing(h, s, a)
      BY <2>2, <2>3 DEF HistoryMissing, Depth
    <2>5. h2[s % Depth] = drawn
      BY DEF h2, Depth
    <2>6. Needed({}, h2, s + 1, a + 1) = Missed(h2, s + 1, a + 1)
      BY <1>2 DEF Needed
    <2>7. drawn \subseteq Missed(h2, s + 1, a + 1)
      <3>1. 1 \in 1..((a + 1) - 1) /\ (s + 1) - 1 = s
        OBVIOUS
      <3>2. h2[((s + 1) - 1) % Depth] \in {h2[((s + 1) - b) % Depth] : b \in 1..((a + 1) - 1)}
        BY <3>1
      <3> QED
        BY <2>5, <3>1, <3>2 DEF Missed
    <2>8. Missed(h, s, a) \subseteq Missed(h2, s + 1, a + 1)
      <3> SUFFICES ASSUME NEW b \in 1..(a - 1)
                   PROVE  h[(s - b) % Depth] \subseteq Missed(h2, s + 1, a + 1)
        BY DEF Missed
      <3>1. b + 1 \in 1..((a + 1) - 1) /\ (s + 1) - (b + 1) = s - b
        OBVIOUS
      <3>2. h2[((s + 1) - (b + 1)) % Depth] \in {h2[((s + 1) - c) % Depth] : c \in 1..((a + 1) - 1)}
        BY <3>1
      <3> QED
        BY <2>3, <3>1, <3>2 DEF Missed
    <2>9. Needed(d, h, s, a) = d \cup Missed(h, s, a)
      BY <2>4 DEF Needed
    <2> QED
      BY <2>6, <2>7, <2>8, <2>9 DEF h2
  <1> QED
    BY <1>1, <1>2

-----------------------------------------------------------------------------
(* Ages.                                                                   *)

\* Ages are natural numbers.
LEMMA AgeIsNat ==
  ASSUME NEW q \in Queues, NEW i \in Outputs
  PROVE  QueueAge(q, i) \in Nat
  BY DEF QueueAge, Queues, SlotRecords

\* Queues that count the same frames report the same ages.
LEMMA SameAge ==
  ASSUME NEW q \in Queues, NEW p, SameFrames(p, q), NEW i \in Outputs
  PROVE  QueueAge(p, i) = QueueAge(q, i)
  BY DEF QueueAge, SameFrames

\* Publishing buffer i makes every other drawn buffer one frame older and
\* leaves a buffer never drawn at age zero.
LEMMA OlderByOne ==
  ASSUME NEW q \in Queues, NEW p \in Queues, NEW j \in Outputs,
         q.slots[j].last_frame <= q.frame,
         p.frame = q.frame + 1,
         p.slots[j].last_frame = q.slots[j].last_frame
  PROVE  \/ QueueAge(q, j) = 0 /\ QueueAge(p, j) = 0
         \/ QueueAge(q, j) \in Nat \ {0} /\ QueueAge(p, j) = QueueAge(q, j) + 1
  BY DEF QueueAge, Queues, SlotRecords

-----------------------------------------------------------------------------
(* Type correctness.                                                       *)

\* The initial state is well typed.
LEMMA TypeInit == Init => TypeOK
  <1> SUFFICES ASSUME Init PROVE TypeOK
    OBVIOUS
  <1>1. queue \in Queues /\ \A i \in Outputs : queue.slots[i].last_frame <= queue.frame
    BY ResetFrames DEF Init
  <1>2. history \in [0..(Depth - 1) -> SUBSET Cells]
    BY DEF Init, NoHistory
  <1>3. direct_active \in BOOLEAN /\ app \in BOOLEAN /\ published \in BOOLEAN
    BY DEF Init
  <1>4. stale \in [Outputs -> SUBSET Cells] /\ damage \subseteq Cells /\ serial \in Nat
    BY DEF Init
  <1> QED
    BY <1>1, <1>2, <1>3, <1>4 DEF TypeOK

\* The history a repaint starts from is well typed.
LEMMA NowTyped ==
  ASSUME TypeOK
  PROVE  /\ DamageNow \in SUBSET Cells
         /\ HistoryNow \in [0..(Depth - 1) -> SUBSET Cells]
         /\ SerialNow \in Nat
  BY DEF TypeOK, DamageNow, HistoryNow, SerialNow, NoHistory

\* What Composite does to the queue.
LEMMA CompositeQueue ==
  ASSUME TypeOK, NEW i \in Outputs, NEW drawn \in SUBSET Cells, Composite(i, drawn)
  PROVE  /\ queue' \in Queues
         /\ queue'.frame = queue.frame + 1
         /\ \A j \in Outputs : queue'.slots[j].last_frame
              = IF j = i THEN queue.frame + 1 ELSE queue.slots[j].last_frame
  <1>1. PICK pending \in SUBSET {0} :
           queue' = QueuePublish(QueueAcquire(queue, app, i), i, pending, queue.frame + 1)
    <2>1. (IF app THEN {0} ELSE {}) \subseteq {0}
      OBVIOUS
    <2> QED
      BY <2>1 DEF Composite
  <1>3. queue \in Queues /\ queue.frame + 1 \in Nat
    BY DEF TypeOK, Queues
  <1> DEFINE q == QueueAcquire(queue, app, i)
  <1>4. SameFrames(q, queue)
    BY <1>3, AcquireFrames
  <1> HIDE DEF q
  <1>5. q \in Queues /\ q.frame = queue.frame
        /\ \A j \in Outputs : q.slots[j].last_frame = queue.slots[j].last_frame
    BY <1>4 DEF SameFrames
  <1>6. queue' = QueuePublish(q, i, pending, queue.frame + 1)
    BY <1>1 DEF q
  <1>7. /\ QueuePublish(q, i, pending, queue.frame + 1) \in Queues
        /\ QueuePublish(q, i, pending, queue.frame + 1).frame = q.frame + 1
        /\ \A j \in Outputs : QueuePublish(q, i, pending, queue.frame + 1).slots[j].last_frame
             = IF j = i THEN q.frame + 1 ELSE q.slots[j].last_frame
    BY <1>3, <1>5, PublishFrames
  <1> QED
    BY <1>5, <1>6, <1>7

\* Steps that touch the queue only in its ownership fields keep it well typed.
LEMMA SameFramesTyped ==
  ASSUME TypeOK, SameFrames(queue', queue)
  PROVE  /\ queue' \in Queues
         /\ \A i \in Outputs : queue'.slots[i].last_frame <= queue'.frame
  BY DEF TypeOK, SameFrames

\* What each step does to the queue, except Composite and Reconfigure.
LEMMA QueueSteps ==
  ASSUME TypeOK
  PROVE  /\ \A i \in Outputs : CompositeEmpty(i) => SameFrames(queue', queue)
         /\ \A i \in Outputs : AppRelease(i) => SameFrames(queue', queue)
         /\ AppAttach => SameFrames(queue', queue)
         /\ AppDrop => SameFrames(queue', queue)
         /\ UNCHANGED queue => SameFrames(queue', queue)
  <1>0. queue \in Queues
    BY DEF TypeOK
  <1>1. ASSUME NEW i \in Outputs, CompositeEmpty(i) PROVE SameFrames(queue', queue)
    <2> DEFINE q == QueueAcquire(queue, app, i)
    <2>1. queue' = QueueCancel(q, i)
      BY <1>1 DEF CompositeEmpty
    <2>2. SameFrames(q, queue)
      BY <1>0, AcquireFrames
    <2> HIDE DEF q
    <2>3. SameFrames(QueueCancel(q, i), q)
      BY <2>2, CancelFrames DEF SameFrames
    <2> QED
      BY <2>1, <2>2, <2>3 DEF SameFrames
  <1>2. ASSUME NEW i \in Outputs, AppRelease(i) PROVE SameFrames(queue', queue)
    <2>1. queue.slots[i].last_seq \in Nat
      BY <1>0 DEF Queues, SlotRecords
    <2> QED
      BY <1>0, <1>2, <2>1, ReleaseFrames DEF AppRelease
  <1>3. ASSUME AppAttach PROVE SameFrames(queue', queue)
    BY <1>0, <1>3, RecoverFrames DEF AppAttach
  <1>4. ASSUME AppDrop PROVE SameFrames(queue', queue)
    BY <1>0, <1>4, DropFrames DEF AppDrop
  <1>5. ASSUME UNCHANGED queue PROVE SameFrames(queue', queue)
    BY <1>0, <1>5 DEF SameFrames
  <1> QED
    BY <1>1, <1>2, <1>3, <1>4, <1>5

\* Every step keeps the state well typed.
LEMMA TypeStep == TypeOK /\ [Next]_vars => TypeOK'
  <1> SUFFICES ASSUME TypeOK, [Next]_vars PROVE TypeOK'
    OBVIOUS
  <1>1. ASSUME NEW changed \in SUBSET Cells, NEW covered \in SUBSET Cells,
               Damage(changed, covered)
        PROVE  TypeOK'
    BY <1>1 DEF Damage, TypeOK
  <1>2. ASSUME NEW i \in Outputs, NEW drawn \in SUBSET Cells, Composite(i, drawn)
        PROVE  TypeOK'
    <2>1. queue' \in Queues /\ \A j \in Outputs : queue'.slots[j].last_frame <= queue'.frame
      <3>1. /\ queue' \in Queues
            /\ queue'.frame = queue.frame + 1
            /\ \A j \in Outputs : queue'.slots[j].last_frame
                 = IF j = i THEN queue.frame + 1 ELSE queue.slots[j].last_frame
        BY <1>2, CompositeQueue
      <3>2. /\ queue.frame \in Nat
            /\ \A j \in Outputs : queue.slots[j].last_frame \in Nat
            /\ \A j \in Outputs : queue.slots[j].last_frame <= queue.frame
        BY DEF TypeOK, Queues, SlotRecords
      <3> QED
        BY <3>1, <3>2
    <2>2. stale' \in [Outputs -> SUBSET Cells] /\ damage' \subseteq Cells
      BY <1>2 DEF Composite, TypeOK
    <2>3. history' \in [0..(Depth - 1) -> SUBSET Cells] /\ serial' \in Nat
      <3>1. /\ HistoryNow \in [0..(Depth - 1) -> SUBSET Cells]
            /\ SerialNow \in Nat
        BY NowTyped
      <3>2. /\ history' = [HistoryNow EXCEPT ![SerialNow % Depth] = drawn]
            /\ serial' = SerialNow + 1
        BY <1>2 DEF Composite
      <3>3. serial' \in Nat
        BY <3>1, <3>2
      <3>4. history' \in [0..(Depth - 1) -> SUBSET Cells]
        BY <3>1, <3>2, Zenon
      <3> QED
        BY <3>3, <3>4
    <2>4. app' \in BOOLEAN /\ direct_active' \in BOOLEAN
      BY <1>2 DEF Composite, TypeOK
    <2>5. published' \in BOOLEAN
      BY <1>2 DEF Composite
    <2> QED
      BY <2>1, <2>2, <2>3, <2>4, <2>5 DEF TypeOK
  <1>3. ASSUME NEW i \in Outputs, CompositeEmpty(i) PROVE TypeOK'
    <2>1. SameFrames(queue', queue)
      BY <1>3, QueueSteps
    <2> QED
      BY <1>3, <2>1, SameFramesTyped DEF CompositeEmpty, TypeOK
  <1>4. ASSUME NEW i \in Outputs, AppRelease(i) PROVE TypeOK'
    <2>1. SameFrames(queue', queue)
      BY <1>4, QueueSteps
    <2> QED
      BY <1>4, <2>1, SameFramesTyped DEF AppRelease, TypeOK
  <1>5. CASE CompositeRetry
    BY <1>5, NowTyped DEF CompositeRetry, TypeOK
  <1>6. CASE DirectPresent
    BY <1>6 DEF DirectPresent, TypeOK
  <1>7. CASE Reconfigure
    <2>1. queue' \in Queues /\ \A i \in Outputs : queue'.slots[i].last_frame <= queue'.frame
      BY <1>7, ResetFrames DEF Reconfigure
    <2>2. history' \in [0..(Depth - 1) -> SUBSET Cells] /\ serial' \in Nat
      BY <1>7 DEF Reconfigure, NoHistory
    <2>3. stale' \in [Outputs -> SUBSET Cells] /\ damage' \subseteq Cells
      BY <1>7 DEF Reconfigure
    <2>4. direct_active' \in BOOLEAN /\ app' \in BOOLEAN /\ published' \in BOOLEAN
      BY <1>7 DEF Reconfigure, TypeOK
    <2> QED
      BY <2>1, <2>2, <2>3, <2>4 DEF TypeOK
  <1>8. CASE AppAttach
    <2>1. SameFrames(queue', queue)
      BY <1>8, QueueSteps
    <2> QED
      BY <1>8, <2>1, SameFramesTyped DEF AppAttach, TypeOK
  <1>9. CASE AppDrop
    <2>1. SameFrames(queue', queue)
      BY <1>9, QueueSteps
    <2> QED
      BY <1>9, <2>1, SameFramesTyped DEF AppDrop, TypeOK
  <1>10. CASE UNCHANGED vars
    BY <1>10 DEF vars, TypeOK
  <1> QED
    BY <1>1, <1>2, <1>3, <1>4, <1>5, <1>6, <1>7, <1>8, <1>9, <1>10 DEF Next

\* The variables keep their types, and no buffer claims a frame yet to come.
THEOREM TypeCorrect == Spec => []TypeOK
  BY TypeInit, TypeStep, PTL DEF Spec

-----------------------------------------------------------------------------
(* Completeness of composited frames.                                      *)

\* The inductive invariant: what a buffer lacks can be recovered, and the last
\* composited frame was complete.
IInv == TypeOK /\ Recoverable /\ FrameComplete

\* New buffers have age zero: their first repaint is a full one.
LEMMA InvInit == Init => IInv
  <1> SUFFICES ASSUME Init PROVE IInv
    OBVIOUS
  <1>1. TypeOK
    BY TypeInit
  <1>2. \A i \in Outputs : Needed(damage, history, serial, QueueAge(queue, i)) = Cells
    BY ResetFrames DEF Init, QueueAge, Needed, HistoryMissing
  <1>3. Recoverable
    BY <1>1, <1>2 DEF Recoverable, TypeOK
  <1>4. FrameComplete
    BY DEF Init, FrameComplete
  <1> QED
    BY <1>1, <1>3, <1>4 DEF IInv

\* A step that changes no age, no damage and no buffer keeps every buffer
\* recoverable.
LEMMA SameFramesRecoverable ==
  ASSUME TypeOK, Recoverable, SameFrames(queue', queue),
         UNCHANGED <<stale, damage, history, serial, direct_active>>
  PROVE  Recoverable'
  <1>1. \A i \in Outputs : QueueAge(queue', i) = QueueAge(queue, i)
    BY SameAge DEF TypeOK
  <1> QED
    BY <1>1 DEF Recoverable

\* When a repaint starts, every buffer's lacks are among what it would draw,
\* whether or not the last frame was presented directly.
LEMMA RecoverableNow ==
  ASSUME TypeOK, Recoverable, NEW i \in Outputs
  PROVE  stale[i] \subseteq Needed(DamageNow, HistoryNow, SerialNow, QueueAge(queue, i))
  <1>0. stale[i] \subseteq Cells
    BY DEF TypeOK
  <1>1. CASE direct_active
    <2>1. DamageNow = Cells
      BY <1>1 DEF DamageNow
    <2>2. Cells \subseteq Needed(DamageNow, HistoryNow, SerialNow, QueueAge(queue, i))
      BY <2>1 DEF Needed
    <2> QED
      BY <1>0, <2>2
  <1>2. CASE ~direct_active
    BY <1>2 DEF Recoverable, DamageNow, HistoryNow, SerialNow
  <1> QED
    BY <1>1, <1>2

\* A repaint completes its buffer and keeps the others recoverable.
LEMMA CompositeStep ==
  ASSUME IInv, NEW i \in Outputs, NEW drawn \in SUBSET Cells, Composite(i, drawn)
  PROVE  Recoverable' /\ FrameComplete'
  <1>1. TypeOK /\ Recoverable
    BY DEF IInv
  <1> DEFINE needed == Needed(DamageNow, HistoryNow, SerialNow, QueueAge(queue, i))
  <1>2. needed \subseteq drawn
    BY DEF Composite
  <1>3. stale[i] \subseteq drawn
    BY <1>1, <1>2, RecoverableNow
  <1>4. stale' = [stale EXCEPT ![i] = @ \ drawn] /\ stale \in [Outputs -> SUBSET Cells]
    BY <1>1 DEF Composite, TypeOK
  <1>5. stale'[i] = {}
    BY <1>3, <1>4
  <1>6. FrameComplete'
    BY <1>5 DEF Composite, FrameComplete
  <1>7. DamageNow \subseteq drawn
    BY <1>1, <1>2, NowTyped DEF Needed
  <1>8. ASSUME NEW j \in Outputs
        PROVE  stale'[j] \subseteq Needed(damage', history', serial', QueueAge(queue', j))
    <2>1. CASE j = i
      BY <1>5, <2>1
    <2>2. CASE j # i
      <3>1. /\ queue' \in Queues /\ queue'.frame = queue.frame + 1
            /\ queue'.slots[j].last_frame = queue.slots[j].last_frame
        BY <1>1, <2>2, CompositeQueue
      <3>2. queue \in Queues /\ queue.slots[j].last_frame <= queue.frame
        BY <1>1 DEF TypeOK
      <3>3. stale'[j] = stale[j] /\ stale[j] \subseteq Cells
        BY <1>4, <2>2
      <3>4. CASE QueueAge(queue', j) = 0
        BY <3>3, <3>4 DEF Needed, HistoryMissing
      <3>5. CASE /\ QueueAge(queue, j) \in Nat \ {0}
                 /\ QueueAge(queue', j) = QueueAge(queue, j) + 1
        <4>1. damage' = {} /\ history' = [HistoryNow EXCEPT ![SerialNow % Depth] = drawn]
              /\ serial' = SerialNow + 1
          BY DEF Composite
        <4>2. stale[j] \subseteq Needed(DamageNow, HistoryNow, SerialNow, QueueAge(queue, j))
          BY <1>1, RecoverableNow
        <4>3. /\ DamageNow \in SUBSET Cells
              /\ HistoryNow \in [0..(Depth - 1) -> SUBSET Cells]
              /\ SerialNow \in Nat
          BY <1>1, NowTyped
        <4>4. Needed(DamageNow, HistoryNow, SerialNow, QueueAge(queue, j))
                \subseteq Needed({}, [HistoryNow EXCEPT ![SerialNow % Depth] = drawn],
                                 SerialNow + 1, QueueAge(queue, j) + 1)
          BY <1>7, <3>5, <4>3, RecordedFrame
        <4> QED
          BY <3>3, <3>5, <4>1, <4>2, <4>4
      <3> QED
        BY <3>1, <3>2, <3>4, <3>5, OlderByOne
    <2> QED
      BY <2>1, <2>2
  <1>9. Recoverable'
    BY <1>8 DEF Recoverable
  <1> QED
    BY <1>6, <1>9

\* Every step keeps the invariant.
LEMMA InvStep == IInv /\ [Next]_vars => IInv'
  <1> SUFFICES ASSUME IInv, [Next]_vars PROVE IInv'
    OBVIOUS
  <1>0. TypeOK /\ Recoverable /\ FrameComplete /\ TypeOK'
    BY TypeStep DEF IInv
  <1> SUFFICES Recoverable' /\ FrameComplete'
    BY <1>0 DEF IInv
  <1>1. ASSUME NEW changed \in SUBSET Cells, NEW covered \in SUBSET Cells,
               Damage(changed, covered)
        PROVE  Recoverable' /\ FrameComplete'
    <2>1. ASSUME NEW i \in Outputs, ~direct_active
          PROVE  stale'[i] \subseteq Needed(damage', history', serial', QueueAge(queue', i))
      <3>1. stale[i] \subseteq Needed(damage, history, serial, QueueAge(queue, i))
        BY <1>0, <2>1 DEF Recoverable
      <3>2. Needed(damage, history, serial, QueueAge(queue, i))
              \subseteq Needed(covered, history, serial, QueueAge(queue, i))
        BY <1>1, NeededGrows DEF Damage
      <3>3. covered \subseteq Needed(covered, history, serial, QueueAge(queue, i))
        BY DEF Needed
      <3>4. stale'[i] = stale[i] \cup changed /\ changed \subseteq covered
            /\ damage' = covered /\ history' = history /\ serial' = serial
            /\ queue' = queue
        BY <1>1 DEF Damage
      <3> QED
        BY <3>1, <3>2, <3>3, <3>4
    <2>2. direct_active' = direct_active /\ published' = published
      BY <1>1 DEF Damage
    <2>3. Recoverable'
      BY <2>1, <2>2 DEF Recoverable
    <2> QED
      BY <1>0, <2>2, <2>3 DEF FrameComplete
  <1>2. ASSUME NEW i \in Outputs, NEW drawn \in SUBSET Cells, Composite(i, drawn)
        PROVE  Recoverable' /\ FrameComplete'
    BY <1>2, CompositeStep
  <1>3. ASSUME NEW i \in Outputs, CompositeEmpty(i) PROVE Recoverable' /\ FrameComplete'
    <2>1. SameFrames(queue', queue)
      BY <1>0, <1>3, QueueSteps
    <2>2. Recoverable'
      BY <1>0, <1>3, <2>1, SameFramesRecoverable DEF CompositeEmpty
    <2> QED
      BY <1>0, <1>3, <2>2 DEF CompositeEmpty, FrameComplete
  <1>4. ASSUME NEW i \in Outputs, AppRelease(i) PROVE Recoverable' /\ FrameComplete'
    <2>1. SameFrames(queue', queue)
      BY <1>0, <1>4, QueueSteps
    <2>2. Recoverable'
      BY <1>0, <1>4, <2>1, SameFramesRecoverable DEF AppRelease
    <2> QED
      BY <1>0, <1>4, <2>2 DEF AppRelease, FrameComplete
  <1>5. ASSUME CompositeRetry PROVE Recoverable' /\ FrameComplete'
    <2>1. \A i \in Outputs :
             stale[i] \subseteq Needed(DamageNow, HistoryNow, SerialNow, QueueAge(queue, i))
      BY <1>0, RecoverableNow
    <2>2. Recoverable'
      BY <1>5, <2>1 DEF CompositeRetry, Recoverable
    <2> QED
      BY <1>0, <1>5, <2>2 DEF CompositeRetry, FrameComplete
  <1>6. ASSUME DirectPresent PROVE Recoverable' /\ FrameComplete'
    BY <1>0, <1>6 DEF DirectPresent, Recoverable, FrameComplete
  <1>7. ASSUME Reconfigure PROVE Recoverable' /\ FrameComplete'
    <2>1. \A i \in Outputs : Needed(damage', history', serial', QueueAge(queue', i)) = Cells
      BY <1>7, ResetFrames DEF Reconfigure, QueueAge, Needed, HistoryMissing
    <2>2. Recoverable'
      BY <1>0, <2>1 DEF Recoverable, TypeOK
    <2> QED
      BY <1>0, <1>7, <2>2 DEF Reconfigure, FrameComplete
  <1>8. ASSUME AppAttach PROVE Recoverable' /\ FrameComplete'
    <2>1. SameFrames(queue', queue)
      BY <1>0, <1>8, QueueSteps
    <2>2. Recoverable'
      BY <1>0, <1>8, <2>1, SameFramesRecoverable DEF AppAttach
    <2> QED
      BY <1>0, <1>8, <2>2 DEF AppAttach, FrameComplete
  <1>9. ASSUME AppDrop PROVE Recoverable' /\ FrameComplete'
    <2>1. SameFrames(queue', queue)
      BY <1>0, <1>9, QueueSteps
    <2>2. Recoverable'
      BY <1>0, <1>9, <2>1, SameFramesRecoverable DEF AppDrop
    <2> QED
      BY <1>0, <1>9, <2>2 DEF AppDrop, FrameComplete
  <1>10. ASSUME UNCHANGED vars PROVE Recoverable' /\ FrameComplete'
    BY <1>0, <1>10 DEF vars, Recoverable, FrameComplete
  <1> QED
    BY <1>1, <1>2, <1>3, <1>4, <1>5, <1>6, <1>7, <1>8, <1>9, <1>10 DEF Next

\* What each buffer lacks is always in the damage, in the history entries it
\* still reaches, or behind a full repaint.
THEOREM BuffersRecoverable == Spec => []Recoverable
  <1>1. IInv => Recoverable
    BY DEF IInv
  <1> QED
    BY <1>1, InvInit, InvStep, PTL DEF Spec

\* Every composited frame shows the whole scene, for any rotation of any
\* number of buffers, direct presentations and resizes in between.
THEOREM FramesComplete == Spec => []FrameComplete
  <1>1. IInv => FrameComplete
    BY DEF IInv
  <1> QED
    BY <1>1, InvInit, InvStep, PTL DEF Spec
=============================================================================
