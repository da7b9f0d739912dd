------------------------- MODULE FramePacingProofs -------------------------
(***************************************************************************)
(* Proofs about FramePacing, for every set of surfaces, any number of      *)
(* output buffers and every bound on commits, captures and drops.          *)
(***************************************************************************)
EXTENDS FramePacing, CountingLemmas, FiniteSetTheorems, TLAPS

-----------------------------------------------------------------------------
(* Sequences.                                                              *)

\* The elements of a list grow; all of one list are below all of another.
Increasing(q) == \A i, j \in DOMAIN q : i < j => q[i] < q[j]
Before(p, q) == \A i \in DOMAIN p, j \in DOMAIN q : p[i] < q[j]

\* Appending a later list keeps the order.
LEMMA ConcatFacts ==
  ASSUME NEW S \in SUBSET Int, NEW p \in Seq(S), NEW q \in Seq(S)
  PROVE  /\ p \o q \in Seq(S)
         /\ \A i \in DOMAIN (p \o q) : \/ \E k \in DOMAIN p : (p \o q)[i] = p[k]
                                       \/ \E k \in DOMAIN q : (p \o q)[i] = q[k]
         /\ Increasing(p) /\ Increasing(q) /\ Before(p, q) => Increasing(p \o q)
  <1>1. p \o q \in Seq(S)
    OBVIOUS
  <1>2. \A i \in DOMAIN (p \o q) :
           \/ i \in DOMAIN p /\ (p \o q)[i] = p[i]
           \/ i - Len(p) \in DOMAIN q /\ i > Len(p) /\ (p \o q)[i] = q[i - Len(p)]
    OBVIOUS
  <1>3. \A i \in DOMAIN (p \o q) : i \in Nat /\ (i \in DOMAIN p <=> i <= Len(p))
    OBVIOUS
  <1>4. ASSUME Increasing(p), Increasing(q), Before(p, q) PROVE Increasing(p \o q)
    <2> SUFFICES ASSUME NEW i \in DOMAIN (p \o q), NEW j \in DOMAIN (p \o q), i < j
                 PROVE  (p \o q)[i] < (p \o q)[j]
      BY DEF Increasing
    <2>1. CASE j \in DOMAIN p
      BY <1>2, <1>3, <1>4, <2>1 DEF Increasing
    <2>2. CASE j \notin DOMAIN p /\ i \in DOMAIN p
      BY <1>2, <1>3, <1>4, <2>2 DEF Before
    <2>3. CASE j \notin DOMAIN p /\ i \notin DOMAIN p
      <3>1. /\ i - Len(p) \in DOMAIN q /\ (p \o q)[i] = q[i - Len(p)]
            /\ j - Len(p) \in DOMAIN q /\ (p \o q)[j] = q[j - Len(p)]
            /\ i - Len(p) < j - Len(p)
        BY <1>2, <1>3, <2>3
      <3> QED
        BY <3>1, <1>4 DEF Increasing
    <2> QED
      BY <2>1, <2>2, <2>3
  <1> QED
    BY <1>1, <1>2, <1>4

\* f is the function by which FlattenSeq joins the lists of seqs.
JoinStep(seqs, f, i) == IF i = 1 THEN seqs[i] ELSE f[i - 1] \o seqs[i]
Joins(seqs, f, n) == f = [i \in 1..n |-> JoinStep(seqs, f, i)]

\* FlattenSeq's function is defined for any number of lists.
LEMMA JoinExists ==
  ASSUME NEW seqs, NEW n \in Nat
  PROVE  \E f : Joins(seqs, f, n)
  <1> DEFINE T == {k \in 0..n : \E f : Joins(seqs, f, k)}
  <1>1. 0 \in T
    <2> DEFINE g == [i \in 1..0 |-> seqs[i]]
    <2>1. g = [i \in 1..0 |-> JoinStep(seqs, g, i)]
      OBVIOUS
    <2> HIDE DEF g
    <2>2. Joins(seqs, g, 0)
      BY <2>1 DEF Joins
    <2> QED
      BY <2>2
  <1>2. ASSUME NEW k \in 1..n, k - 1 \in T PROVE k \in T
    <2>1. PICK f : Joins(seqs, f, k - 1)
      BY <1>2
    <2> DEFINE g == [i \in 1..k |-> IF i = k THEN JoinStep(seqs, f, i) ELSE f[i]]
    <2>2. ASSUME NEW i \in 1..k PROVE g[i] = JoinStep(seqs, g, i)
      <3>1. i # 1 => g[i - 1] = f[i - 1]
        <4>1. i # 1 => i - 1 \in 1..k /\ i - 1 # k
          OBVIOUS
        <4> QED
          BY <4>1
      <3>2. JoinStep(seqs, g, i) = JoinStep(seqs, f, i)
        BY <3>1 DEF JoinStep
      <3>3. i # k => i \in 1..(k - 1)
        OBVIOUS
      <3>4. i # k => f[i] = JoinStep(seqs, f, i)
        BY <3>3, <2>1 DEF Joins
      <3> QED
        BY <3>2, <3>4
    <2>3. g = [i \in 1..k |-> JoinStep(seqs, g, i)]
      BY <2>2
    <2> HIDE DEF g
    <2> QED
      BY <2>3 DEF Joins
  <1>3. T = 0..n
    <2> HIDE DEF T
    <2>1. T \in SUBSET (0..n)
      BY DEF T
    <2> QED
      BY <1>1, <1>2, <2>1, CountingUp
  <1> QED
    BY <1>3

\* f is a list of elements of the first i lists of seqs, in order when they are.
Ordered(seqs) == /\ \A i \in DOMAIN seqs : Increasing(seqs[i])
                 /\ \A i, j \in DOMAIN seqs : i < j => Before(seqs[i], seqs[j])
Held(seqs, i, x) == \E l \in 1..i : \E k \in DOMAIN seqs[l] : x = seqs[l][k]
Joined(S, seqs, i, f) == /\ f \in Seq(S)
                         /\ \A j \in DOMAIN f : Held(seqs, i, f[j])
                         /\ Ordered(seqs) => Increasing(f)

\* No list joined,
LEMMA JoinedNone ==
  ASSUME NEW S, NEW seqs
  PROVE  Joined(S, seqs, 0, <<>>)
  BY DEF Joined, Increasing

\* one list joined,
LEMMA JoinedOne ==
  ASSUME NEW S, NEW seqs \in Seq(Seq(S)), 1 \in DOMAIN seqs
  PROVE  Joined(S, seqs, 1, seqs[1])
  <1>1. seqs[1] \in Seq(S)
    OBVIOUS
  <1>2. \A j \in DOMAIN seqs[1] : Held(seqs, 1, seqs[1][j])
    BY DEF Held
  <1> QED
    BY <1>1, <1>2 DEF Joined, Ordered

\* and one more.
LEMMA JoinedMore ==
  ASSUME NEW S \in SUBSET Int, NEW seqs \in Seq(Seq(S)), NEW i \in DOMAIN seqs, i # 1,
         NEW p, Joined(S, seqs, i - 1, p)
  PROVE  Joined(S, seqs, i, p \o seqs[i])
  <1> DEFINE q == seqs[i]
             r == p \o q
  <1>1. p \in Seq(S) /\ q \in Seq(S) /\ i \in Nat /\ i >= 1
    BY DEF Joined
  <1>2. /\ r \in Seq(S)
        /\ \A j \in DOMAIN r : \/ \E k \in DOMAIN p : r[j] = p[k]
                               \/ \E k \in DOMAIN q : r[j] = q[k]
        /\ Increasing(p) /\ Increasing(q) /\ Before(p, q) => Increasing(r)
    BY <1>1, ConcatFacts
  <1> HIDE DEF r
  <1>3. \A x : Held(seqs, i - 1, x) => Held(seqs, i, x)
    <2>1. 1..(i - 1) \subseteq 1..i
      BY <1>1
    <2> QED
      BY <2>1, Zenon DEF Held
  <1>4. ASSUME NEW k \in DOMAIN q PROVE Held(seqs, i, q[k])
    <2>1. i \in 1..i
      BY <1>1
    <2> QED
      BY <2>1 DEF Held
  <1>5. \A j \in DOMAIN r : Held(seqs, i, r[j])
    BY <1>2, <1>3, <1>4 DEF Joined
  <1>6. ASSUME Ordered(seqs) PROVE Increasing(r)
    <2>1. Increasing(p) /\ Increasing(q)
      BY <1>6 DEF Joined, Ordered
    <2>2. ASSUME NEW a \in DOMAIN p, NEW b \in DOMAIN q PROVE p[a] < q[b]
      <3>1. PICK l \in 1..(i - 1) : \E k \in DOMAIN seqs[l] : p[a] = seqs[l][k]
        BY DEF Joined, Held
      <3>2. l \in DOMAIN seqs /\ l < i
        BY <1>1
      <3>3. Before(seqs[l], q)
        BY <3>2, <1>6 DEF Ordered
      <3> QED
        BY <3>1, <3>3 DEF Before
    <2> QED
      BY <1>2, <2>1, <2>2 DEF Before
  <1> QED
    BY <1>2, <1>5, <1>6 DEF Joined, r

\* FlattenSeq joins lists into one that holds their elements, in order.
LEMMA FlattenFacts ==
  ASSUME NEW S \in SUBSET Int, NEW seqs \in Seq(Seq(S))
  PROVE  Joined(S, seqs, Len(seqs), FlattenSeq(seqs))
  <1> DEFINE n == Len(seqs)
             flat == CHOOSE f : Joins(seqs, f, n)
  <1>1. n \in Nat /\ DOMAIN seqs = 1..n
    OBVIOUS
  <1>2. Joins(seqs, flat, n)
    BY <1>1, JoinExists
  <1>3. FlattenSeq(seqs) = IF n = 0 THEN seqs ELSE flat[n]
    BY DEF FlattenSeq, Joins, JoinStep
  <1> HIDE DEF flat
  <1>4. \A i \in 1..n : flat[i] = IF i = 1 THEN seqs[i] ELSE flat[i - 1] \o seqs[i]
    BY <1>2 DEF Joins, JoinStep
  <1> DEFINE T == {i \in 0..n : i # 0 => Joined(S, seqs, i, flat[i])}
  <1>5. ASSUME NEW i \in 1..n, i - 1 \in T PROVE Joined(S, seqs, i, flat[i])
    <2>1. CASE i = 1
      BY <2>1, <1>1, <1>4, JoinedOne
    <2>2. CASE i # 1
      <3>1. Joined(S, seqs, i - 1, flat[i - 1])
        BY <1>5, <2>2
      <3>2. Joined(S, seqs, i, flat[i - 1] \o seqs[i])
        BY <3>1, <2>2, <1>1, JoinedMore
      <3> QED
        BY <3>2, <1>4, <2>2
    <2> QED
      BY <2>1, <2>2
  <1>6. 0 \in T /\ T \in SUBSET (0..n) /\ \A i \in 1..n : i - 1 \in T => i \in T
    BY <1>1, <1>5
  <1>7. n \in T
    <2> HIDE DEF T, n
    <2> QED
      BY <1>1, <1>6, CountingUp
  <1>8. CASE n = 0
    <2>1. seqs = <<>>
      BY <1>8
    <2> QED
      BY <2>1, <1>3, <1>8, JoinedNone
  <1>9. CASE n # 0
    BY <1>3, <1>7, <1>9
  <1> QED
    BY <1>8, <1>9

-----------------------------------------------------------------------------
(* The inductive invariant.                                                *)

\* Damage nobody repaints belongs to a surface whose client still has to commit,
\* and that surface is dirty, so its commit will not be skipped.
DamageInv == damage /\ ~scheduled => \E s \in touched : s \in dirty

\* The commits that may be named by a feedback of s: one more than were made
\* only while the request for the next one is outstanding.
Named(s, q) ==
    \A i \in DOMAIN q : /\ q[i] <= commits[s] + 1
                        /\ s \notin asked => q[i] <= commits[s]

\* What was answered comes before what the batches hold, which comes before what
\* still waits, and each of them is in order.
OrderOf(s) ==
    /\ Increasing(answered[s]) /\ Increasing(waiting[s])
    /\ Before(answered[s], waiting[s])
    /\ \A i \in DOMAIN batches : /\ Increasing(batches[i].feedbacks[s])
                                 /\ Before(answered[s], batches[i].feedbacks[s])
                                 /\ Before(batches[i].feedbacks[s], waiting[s])
    /\ \A i, j \in DOMAIN batches :
          i < j => Before(batches[i].feedbacks[s], batches[j].feedbacks[s])

NamedOf(s) ==
    s \in alive => /\ Named(s, answered[s]) /\ Named(s, waiting[s])
                   /\ \A i \in DOMAIN batches : Named(s, batches[i].feedbacks[s])

OrderInv == \A s \in Surfaces : OrderOf(s) /\ NamedOf(s)

IInv == TypeOK /\ WakeupPending /\ DamageInv /\ OrderInv

-----------------------------------------------------------------------------
(* What a repaint does.                                                    *)

\* The flags are Booleans and the counters natural numbers.
LEMMA TypeFacts ==
  ASSUME TypeOK
  PROVE  /\ damage \in BOOLEAN /\ direct_active \in BOOLEAN /\ scheduled \in BOOLEAN
         /\ idle \in BOOLEAN /\ timer \in BOOLEAN /\ clock \in BOOLEAN
         /\ ack \in BOOLEAN /\ app \in BOOLEAN
         /\ presented \in Nat /\ newest \in Nat /\ dirty_seq \in Nat
  BY DEF TypeOK

\* Everything outstanding joins a batch for the new frame.
JoinsBatch ==
    /\ batches' = Append(batches, [seq |-> dirty_seq', feedbacks |-> waiting, frames |-> frames])
    /\ waiting' = NoFeedback /\ frames' = NoFrames
    /\ ack' = TRUE
    /\ UNCHANGED answered

\* Everything outstanding is answered.
AnswersAll ==
    /\ answered' = [s \in Surfaces |->
                       answered[s] \o BatchFeedback(batches, s) \o waiting[s]]
    /\ batches' = <<>>
    /\ waiting' = NoFeedback /\ frames' = NoFrames
    /\ UNCHANGED ack

\* A repaint leaves the feedbacks, answers them all, or puts them in one batch
\* for the frame it publishes; the app's flags follow.
LEMMA RepaintFeedback ==
  ASSUME TypeOK, NEW d, NEW sch, NEW forced, RecompositeNow(d, sch, forced)
  PROVE  /\ clock' \in BOOLEAN /\ app' \in BOOLEAN
         /\ presented' = presented /\ newest' \in {newest, 0, dirty_seq'}
         /\ \/ UNCHANGED <<feedback, ack, dirty_seq>>
            \/ AnswersAll /\ dirty_seq' = dirty_seq + 1
            \/ JoinsBatch /\ dirty_seq' = dirty_seq + 1
  <1>1. ASSUME NEW q, NEW delivery, Notify(q, delivery), AfterPresent(app', dirty_seq')
        PROVE  /\ clock' \in BOOLEAN /\ app' \in BOOLEAN
               /\ presented' = presented /\ newest' \in {newest, 0, dirty_seq'}
               /\ dirty_seq' = dirty_seq + 1
               /\ AnswersAll \/ JoinsBatch
    <2>1. /\ presented' = presented /\ newest' \in {newest, 0, dirty_seq'}
          /\ dirty_seq' = dirty_seq + 1 /\ app' \in BOOLEAN
      BY <1>1, TypeFacts DEF Notify
    <2>2. CASE app'
      BY <1>1, <2>1, <2>2 DEF AfterPresent, JoinsBatch
    <2>3. CASE ~app'
      BY <1>1, <2>1, <2>3 DEF AfterPresent, AfterRepaint, AnswersAll
    <2> QED
      BY <2>1, <2>2, <2>3
  <1>2. CASE DirectPaint(forced, sch)
    BY <1>1, <1>2 DEF DirectPaint
  <1>3. ASSUME NEW all, NoBuffer(all)
        PROVE  /\ UNCHANGED <<feedback, clock, ack, app, newest, presented, dirty_seq>>
    BY <1>3 DEF NoBuffer, stream
  <1>4. ASSUME NEW i, NEW all, EmptyPlan(i, all, sch)
        PROVE  /\ UNCHANGED <<feedback, clock, ack, app, newest, presented, dirty_seq>>
    BY <1>4 DEF EmptyPlan
  <1>5. ASSUME NEW i, NEW all, PaintOutput(i, all, sch)
        PROVE  /\ clock' \in BOOLEAN /\ app' \in BOOLEAN
               /\ presented' = presented /\ newest' \in {newest, 0, dirty_seq'}
               /\ dirty_seq' = dirty_seq + 1
               /\ AnswersAll \/ JoinsBatch
    BY <1>1, <1>5 DEF PaintOutput
  <1>6. CASE ~DirectPaint(forced, sch)
    <2>1. \/ NoBuffer(d \/ direct_active)
          \/ \E i \in Outputs : \/ EmptyPlan(i, d \/ direct_active, sch)
                                \/ PaintOutput(i, d \/ direct_active, sch)
      BY <1>6 DEF RecompositeNow
    <2> QED
      BY <2>1, <1>3, <1>4, <1>5, TypeFacts
  <1> QED
    BY <1>2, <1>6

\* A repaint clears the damage or schedules another one, with the timer armed;
\* otherwise it leaves of the schedule what it was told to.
LEMMA RepaintSchedule ==
  ASSUME TypeOK, NEW d \in BOOLEAN, NEW sch \in BOOLEAN, NEW forced,
         RecompositeNow(d, sch, forced)
  PROVE  /\ damage' \in BOOLEAN /\ direct_active' \in BOOLEAN
         /\ scheduled' \in BOOLEAN /\ timer' \in BOOLEAN
         /\ damage' => scheduled'
         /\ scheduled' => timer' \/ sch
         /\ dirty' \subseteq dirty
  <1>1. CASE DirectPaint(forced, sch)
    BY <1>1 DEF DirectPaint
  <1>2. ASSUME NEW all \in BOOLEAN, NoBuffer(all)
        PROVE  /\ damage' \in BOOLEAN /\ scheduled' = TRUE /\ timer' = TRUE /\ dirty' = dirty
    BY <1>2 DEF NoBuffer
  <1>3. ASSUME NEW i, NEW all, EmptyPlan(i, all, sch) \/ PaintOutput(i, all, sch)
        PROVE  damage' = FALSE /\ scheduled' = sch /\ timer' = FALSE /\ dirty' \subseteq dirty
    BY <1>3 DEF EmptyPlan, PaintOutput
  <1>4. CASE ~DirectPaint(forced, sch)
    <2>1. (d \/ direct_active) \in BOOLEAN
      BY TypeFacts
    <2>2. /\ direct_active' = FALSE
          /\ \/ NoBuffer(d \/ direct_active)
             \/ \E i \in Outputs : \/ EmptyPlan(i, d \/ direct_active, sch)
                                   \/ PaintOutput(i, d \/ direct_active, sch)
      BY <1>4 DEF RecompositeNow
    <2> QED
      BY <2>1, <2>2, <1>2, <1>3
  <1> QED
    BY <1>1, <1>4

-----------------------------------------------------------------------------
(* What answering does.                                                    *)

Lists(bs, s) == [i \in DOMAIN bs |-> bs[i].feedbacks[s]]

\* The feedbacks of batches are their lists joined.
LEMMA BatchFeedbackFacts ==
  ASSUME NEW bs \in Seq(Batches), NEW s \in Surfaces
  PROVE  /\ DOMAIN Lists(bs, s) = DOMAIN bs
         /\ \A i \in DOMAIN bs : Lists(bs, s)[i] = bs[i].feedbacks[s]
         /\ Lists(bs, s) \in Seq(Seq(1..MaxCommits))
         /\ Joined(1..MaxCommits, Lists(bs, s), Len(bs), BatchFeedback(bs, s))
  <1>1. Lists(bs, s) \in Seq(Seq(1..MaxCommits)) /\ Len(Lists(bs, s)) = Len(bs)
    <2>1. \A i \in DOMAIN bs : bs[i].feedbacks[s] \in Seq(1..MaxCommits)
      <3> SUFFICES ASSUME NEW i \in DOMAIN bs PROVE bs[i].feedbacks[s] \in Seq(1..MaxCommits)
        OBVIOUS
      <3>1. bs[i] \in Batches
        OBVIOUS
      <3>2. bs[i].feedbacks \in Feedbacks
        BY <3>1 DEF Batches
      <3> QED
        BY <3>2 DEF Feedbacks
    <2> QED
      BY <2>1 DEF Lists
  <1>2. 1..MaxCommits \in SUBSET Int
    BY PacingAssumption
  <1> QED
    BY <1>1, <1>2, FlattenFacts DEF BatchFeedback, Lists

\* So they are a list of feedbacks, each of them held by some batch, and in
\* order when the batches are.
LEMMA BatchFeedbackOrder ==
  ASSUME NEW bs \in Seq(Batches), NEW s \in Surfaces
  PROVE  /\ BatchFeedback(bs, s) \in Seq(1..MaxCommits)
         /\ \A j \in DOMAIN BatchFeedback(bs, s) :
               \E i \in DOMAIN bs : \E k \in DOMAIN bs[i].feedbacks[s] :
                  BatchFeedback(bs, s)[j] = bs[i].feedbacks[s][k]
         /\ /\ \A i \in DOMAIN bs : Increasing(bs[i].feedbacks[s])
            /\ \A i, j \in DOMAIN bs : i < j => Before(bs[i].feedbacks[s], bs[j].feedbacks[s])
            => Increasing(BatchFeedback(bs, s))
  <1> DEFINE l == Lists(bs, s)
             f == BatchFeedback(bs, s)
  <1>1. /\ DOMAIN l = DOMAIN bs /\ \A i \in DOMAIN bs : l[i] = bs[i].feedbacks[s]
        /\ Joined(1..MaxCommits, l, Len(bs), f)
    BY BatchFeedbackFacts
  <1> HIDE DEF l, f
  <1>2. 1..Len(bs) = DOMAIN bs
    OBVIOUS
  <1>3. \A j \in DOMAIN f : \E i \in DOMAIN bs : \E k \in DOMAIN l[i] : f[j] = l[i][k]
    BY <1>1, <1>2 DEF Joined, Held
  <1>4. /\ \A i \in DOMAIN bs : Increasing(bs[i].feedbacks[s])
        /\ \A i, j \in DOMAIN bs : i < j => Before(bs[i].feedbacks[s], bs[j].feedbacks[s])
        => Ordered(l)
    BY <1>1 DEF Ordered
  <1>5. \A j \in DOMAIN f : \E i \in DOMAIN bs :
            \E k \in DOMAIN bs[i].feedbacks[s] : f[j] = bs[i].feedbacks[s][k]
    <2> SUFFICES ASSUME NEW j \in DOMAIN f
                 PROVE  \E i \in DOMAIN bs :
                            \E k \in DOMAIN bs[i].feedbacks[s] : f[j] = bs[i].feedbacks[s][k]
      OBVIOUS
    <2>1. PICK i \in DOMAIN bs : \E k \in DOMAIN l[i] : f[j] = l[i][k]
      BY <1>3
    <2>2. l[i] = bs[i].feedbacks[s]
      BY <1>1
    <2> QED
      BY <2>1, <2>2
  <1>6. f \in Seq(1..MaxCommits) /\ (Ordered(l) => Increasing(f))
    BY <1>1 DEF Joined
  <1> QED
    BY <1>4, <1>5, <1>6 DEF f

\* The acknowledgement timer answers a number of the oldest batches.
LEMMA AckEffect ==
  ASSUME TypeOK, NEW late, AckTimer(late)
  PROVE  \E n \in 0..Len(batches) :
            /\ answered' = [s \in Surfaces |-> answered[s] \o
                               BatchFeedback(SubSeq(batches, 1, n), s)]
            /\ batches' = SubSeq(batches, n + 1, Len(batches))
            /\ ack' = (batches' # <<>>) /\ clock' = (clock \/ batches' = <<>>)
  <1> DEFINE D == DOMAIN batches
             B == {n \in D : \A i \in 1..n : i <= late \/ presented >= batches[i].seq}
  <1>1. Len(batches) \in Nat /\ D = 1..Len(batches)
    BY DEF TypeOK
  <1>2. IsFiniteSet(D) /\ Cardinality(D) = Len(batches)
    <2>1. /\ IsFiniteSet(1..Len(batches))
          /\ Cardinality(1..Len(batches)) = IF 1 > Len(batches) THEN 0 ELSE Len(batches) - 1 + 1
      BY <1>1, FS_Interval
    <2>2. (IF 1 > Len(batches) THEN 0 ELSE Len(batches) - 1 + 1) = Len(batches)
      BY <1>1
    <2> QED
      BY <1>1, <2>1, <2>2
  <1>3. B \subseteq D
    OBVIOUS
  <1> HIDE DEF B, D
  <1>4. Cardinality(B) \in 0..Len(batches)
    <2>1. IsFiniteSet(B) /\ Cardinality(B) <= Cardinality(D)
      BY <1>2, <1>3, FS_Subset
    <2>2. Cardinality(B) \in Nat
      BY <2>1, FS_CardinalityType
    <2> QED
      BY <1>1, <1>2, <2>1, <2>2
  <1>5. Answerable(late) = Cardinality(B)
    BY DEF Answerable, B, D
  <1> QED
    BY <1>4, <1>5 DEF AckTimer, ClockAfterAck

-----------------------------------------------------------------------------
(* Types.                                                                  *)

ClientTyped ==
    /\ commits \in [Surfaces -> 0..MaxCommits]
    /\ alive \subseteq Surfaces /\ asked \subseteq alive
    /\ touched \subseteq alive /\ dirty \subseteq alive /\ offscreen \subseteq Surfaces
FeedbackTyped ==
    /\ waiting \in Feedbacks /\ answered \in Feedbacks /\ frames \in Callbacks
    /\ batches \in Seq(Batches)
    /\ \A i \in DOMAIN batches : /\ batches[i].seq \in 1..dirty_seq
                                 /\ i > 1 => batches[i - 1].seq < batches[i].seq
FlagsTyped ==
    {damage, direct_active, scheduled, idle, timer, clock, ack, app} \subseteq BOOLEAN
CountersTyped ==
    /\ {presented, newest, dirty_seq} \subseteq Nat
    /\ presented <= dirty_seq /\ newest <= dirty_seq

\* The four parts of the type invariant.
LEMMA TypeParts == TypeOK <=> ClientTyped /\ FeedbackTyped /\ FlagsTyped /\ CountersTyped
  BY DEF TypeOK, ClientTyped, FeedbackTyped, FlagsTyped, CountersTyped

\* The same of the next state.
LEMMA TypePartsNext ==
    ClientTyped' /\ FeedbackTyped' /\ FlagsTyped' /\ CountersTyped' => TypeOK'
  BY DEF TypeOK, ClientTyped, FeedbackTyped, FlagsTyped, CountersTyped

\* No feedback and no callback is a value of the right type.
LEMMA NothingTyped == NoFeedback \in Feedbacks /\ NoFrames \in Callbacks
  BY DEF NoFeedback, NoFrames, Feedbacks, Callbacks

\* The initial state is well typed.
LEMMA TypeInit == Init => TypeOK
  <1> SUFFICES ASSUME Init PROVE TypeOK
    OBVIOUS
  <1>1. ClientTyped
    BY PacingAssumption DEF Init, ClientTyped
  <1>2. FeedbackTyped
    BY NothingTyped DEF Init, FeedbackTyped
  <1>3. FlagsTyped
    BY DEF Init, FlagsTyped
  <1>4. CountersTyped
    BY DEF Init, CountersTyped
  <1> QED
    BY <1>1, <1>2, <1>3, <1>4, TypeParts

\* Answering everything keeps the types.
LEMMA AnswersAllTyped ==
  ASSUME TypeOK, AnswersAll
  PROVE  FeedbackTyped'
  <1>1. \A s \in Surfaces : /\ answered[s] \in Seq(1..MaxCommits)
                            /\ waiting[s] \in Seq(1..MaxCommits)
                            /\ BatchFeedback(batches, s) \in Seq(1..MaxCommits)
    BY BatchFeedbackOrder DEF TypeOK, Feedbacks
  <1>2. \A s \in Surfaces :
           answered[s] \o BatchFeedback(batches, s) \o waiting[s] \in Seq(1..MaxCommits)
    BY <1>1
  <1>3. answered' \in Feedbacks
    BY <1>2 DEF AnswersAll, Feedbacks
  <1> QED
    BY <1>3, NothingTyped DEF AnswersAll, FeedbackTyped

\* Putting everything in a batch for the new frame keeps the types: the frame's
\* number is above those of the older batches.
LEMMA JoinsBatchTyped ==
  ASSUME TypeOK, JoinsBatch, dirty_seq' = dirty_seq + 1
  PROVE  FeedbackTyped'
  <1> DEFINE b == [seq |-> dirty_seq', feedbacks |-> waiting, frames |-> frames]
  <1>1. b \in Batches /\ b.seq = dirty_seq + 1
    BY TypeFacts DEF Batches, TypeOK
  <1> HIDE DEF b
  <1>2. batches \in Seq(Batches) /\ batches' = Append(batches, b)
    BY DEF TypeOK, JoinsBatch, b
  <1>3. batches' \in Seq(Batches) /\ Len(batches') = Len(batches) + 1
    BY <1>1, <1>2
  <1>4. /\ \A i \in DOMAIN batches : i \in DOMAIN batches' /\ batches'[i] = batches[i]
        /\ batches'[Len(batches) + 1] = b
        /\ \A i \in DOMAIN batches' : i \in DOMAIN batches \/ i = Len(batches) + 1
    BY <1>1, <1>2
  <1>5. \A i \in DOMAIN batches' : /\ batches'[i].seq \in 1..dirty_seq'
                                   /\ i > 1 => batches'[i - 1].seq < batches'[i].seq
    <2> SUFFICES ASSUME NEW i \in DOMAIN batches'
                 PROVE  /\ batches'[i].seq \in 1..dirty_seq'
                        /\ i > 1 => batches'[i - 1].seq < batches'[i].seq
      OBVIOUS
    <2>1. \A j \in DOMAIN batches : batches[j].seq \in 1..dirty_seq
      BY DEF TypeOK
    <2>2. CASE i \in DOMAIN batches
      <3>1. i > 1 => i - 1 \in DOMAIN batches /\ batches[i - 1].seq < batches[i].seq
        BY <2>2, <1>2 DEF TypeOK
      <3> QED
        BY <2>1, <2>2, <3>1, <1>4, TypeFacts
    <2>3. CASE i = Len(batches) + 1
      <3>1. i > 1 => i - 1 \in DOMAIN batches
        BY <2>3, <1>2
      <3> QED
        BY <2>1, <2>3, <3>1, <1>1, <1>4, TypeFacts
    <2> QED
      BY <2>2, <2>3, <1>4
  <1> QED
    BY <1>3, <1>5, NothingTyped DEF JoinsBatch, FeedbackTyped, TypeOK

\* So does the acknowledgement timer.
LEMMA AckTyped ==
  ASSUME TypeOK, NEW late, AckTimer(late)
  PROVE  FeedbackTyped' /\ FlagsTyped'
  <1>1. PICK n \in 0..Len(batches) :
            /\ answered' = [s \in Surfaces |-> answered[s] \o
                               BatchFeedback(SubSeq(batches, 1, n), s)]
            /\ batches' = SubSeq(batches, n + 1, Len(batches))
            /\ ack' = (batches' # <<>>) /\ clock' = (clock \/ batches' = <<>>)
    BY AckEffect
  <1>2. UNCHANGED <<waiting, frames, damage, direct_active, scheduled, idle, timer, app, dirty_seq>>
    BY DEF AckTimer, paint, schedule, stream
  <1>3. batches \in Seq(Batches) /\ Len(batches) \in Nat
    BY DEF TypeOK
  <1>4. SubSeq(batches, 1, n) \in Seq(Batches)
    BY <1>3
  <1>5. /\ batches' \in Seq(Batches) /\ Len(batches') = Len(batches) - n
        /\ \A i \in DOMAIN batches' : i + n \in DOMAIN batches /\ batches'[i] = batches[i + n]
    BY <1>1, <1>3
  <1>6. \A s \in Surfaces : answered[s] \o BatchFeedback(SubSeq(batches, 1, n), s) \in Seq(1..MaxCommits)
    <2> SUFFICES ASSUME NEW s \in Surfaces
                 PROVE  answered[s] \o BatchFeedback(SubSeq(batches, 1, n), s) \in Seq(1..MaxCommits)
      OBVIOUS
    <2>1. answered[s] \in Seq(1..MaxCommits)
      BY DEF TypeOK, Feedbacks
    <2>2. BatchFeedback(SubSeq(batches, 1, n), s) \in Seq(1..MaxCommits)
      BY <1>4, BatchFeedbackOrder
    <2> QED
      BY <2>1, <2>2
  <1>7. answered' \in Feedbacks
    BY <1>1, <1>6 DEF Feedbacks
  <1>9. \A i \in DOMAIN batches' : /\ batches'[i].seq \in 1..dirty_seq'
                                   /\ i > 1 => batches'[i - 1].seq < batches'[i].seq
    <2> SUFFICES ASSUME NEW i \in DOMAIN batches'
                 PROVE  /\ batches'[i].seq \in 1..dirty_seq'
                        /\ i > 1 => batches'[i - 1].seq < batches'[i].seq
      OBVIOUS
    <2>1. i \in Nat /\ i >= 1 /\ (i > 1 => i - 1 \in DOMAIN batches')
      BY <1>5
    <2>2. i > 1 => i + n > 1 /\ (i + n) - 1 = (i - 1) + n
      BY <2>1, <1>3
    <2> QED
      BY <1>2, <1>5, <2>1, <2>2 DEF TypeOK
  <1>10. ack' \in BOOLEAN /\ clock' \in BOOLEAN
    BY <1>1, TypeFacts
  <1>11. FlagsTyped'
    BY <1>2, <1>10, TypeFacts DEF FlagsTyped
  <1>12. FeedbackTyped'
    BY <1>2, <1>5, <1>7, <1>9 DEF FeedbackTyped, TypeOK
  <1> QED
    BY <1>11, <1>12

\* The loop's three ways to repaint: from the idle source, the timer or a
\* capture.  What is left of the schedule is nothing, or what the idle source
\* will still do.
LEMMA Repaints ==
  ASSUME TypeOK, IdleFire \/ TimerFire \/ Screencopy
  PROVE  \E d, sch, forced \in BOOLEAN :
            /\ RecompositeNow(d, sch, forced)
            /\ UNCHANGED client
            /\ idle' \in BOOLEAN
            /\ sch => scheduled /\ ~timer /\ idle' = idle
  <1>1. CASE IdleFire
    BY <1>1, TypeFacts DEF IdleFire
  <1>2. CASE TimerFire
    BY <1>2, TypeFacts DEF TimerFire
  <1>3. CASE Screencopy
    <2>1. AfterRetire \in BOOLEAN /\ (AfterRetire => scheduled /\ ~timer)
      BY TypeFacts DEF AfterRetire
    <2>2. RecompositeNow(TRUE, AfterRetire, TRUE) /\ UNCHANGED <<client, idle>>
      BY <1>3 DEF Screencopy
    <2> QED
      BY <2>1, <2>2, TypeFacts
  <1> QED
    BY <1>1, <1>2, <1>3

\* A repaint keeps the types.
LEMMA RepaintTyped ==
  ASSUME TypeOK, IdleFire \/ TimerFire \/ Screencopy
  PROVE  TypeOK'
  <1>1. PICK d, sch, forced \in BOOLEAN : /\ RecompositeNow(d, sch, forced)
                                          /\ UNCHANGED client
                                          /\ idle' \in BOOLEAN
    BY Repaints
  <1>2. /\ clock' \in BOOLEAN /\ app' \in BOOLEAN
        /\ presented' = presented /\ newest' \in {newest, 0, dirty_seq'}
        /\ \/ UNCHANGED <<feedback, ack, dirty_seq>>
           \/ AnswersAll /\ dirty_seq' = dirty_seq + 1
           \/ JoinsBatch /\ dirty_seq' = dirty_seq + 1
    BY <1>1, RepaintFeedback
  <1>3. /\ damage' \in BOOLEAN /\ direct_active' \in BOOLEAN
        /\ scheduled' \in BOOLEAN /\ timer' \in BOOLEAN /\ dirty' \subseteq dirty
    BY <1>1, RepaintSchedule
  <1>4. ack' \in BOOLEAN
    BY <1>2, TypeFacts DEF AnswersAll, JoinsBatch
  <1>5. FlagsTyped'
    BY <1>1, <1>2, <1>3, <1>4 DEF FlagsTyped
  <1>6. ClientTyped'
    BY <1>1, <1>3 DEF ClientTyped, TypeOK, client
  <1>7. CountersTyped'
    BY <1>2, TypeFacts DEF CountersTyped, TypeOK
  <1>8. FeedbackTyped'
    <2>1. CASE UNCHANGED <<feedback, ack, dirty_seq>>
      BY <2>1 DEF FeedbackTyped, TypeOK, feedback
    <2> QED
      BY <1>2, <2>1, AnswersAllTyped, JoinsBatchTyped
  <1> QED
    BY <1>5, <1>6, <1>7, <1>8, TypePartsNext

\* What recomposite_all does to the schedule keeps its flags Booleans.
LEMMA RecompositeAllFlags ==
  ASSUME TypeOK, NEW d \in BOOLEAN, RecompositeAll(d)
  PROVE  /\ scheduled' \in BOOLEAN /\ idle' \in BOOLEAN /\ timer' \in BOOLEAN /\ clock' \in BOOLEAN
         /\ d => scheduled'
         /\ scheduled => scheduled' /\ idle' = idle /\ timer' = timer
         /\ ~scheduled => (scheduled' => idle' \/ timer')
  <1>1. CASE scheduled
    BY <1>1, TypeFacts DEF RecompositeAll, schedule
  <1>2. CASE ~scheduled /\ d
    <2>1. scheduled' = TRUE /\ clock' = clock
      BY <1>2 DEF RecompositeAll, schedule
    <2>2. (timer' = TRUE /\ idle' = idle) \/ (idle' = TRUE /\ timer' = timer)
      BY <1>2 DEF RecompositeAll, schedule
    <2> QED
      BY <1>2, <2>1, <2>2, TypeFacts
  <1>3. CASE ~scheduled /\ ~d
    <2>1. clock' = TRUE /\ scheduled' = scheduled /\ idle' = idle /\ timer' = timer
      BY <1>3 DEF RecompositeAll, schedule
    <2> QED
      BY <1>3, <2>1, TypeFacts
  <1> QED
    BY <1>1, <1>2, <1>3

\* Every step keeps the types.
LEMMA TypeStep == TypeOK /\ [Next]_vars => TypeOK'
  <1> SUFFICES ASSUME TypeOK, [Next]_vars PROVE TypeOK'
    OBVIOUS
  <1>0. ClientTyped /\ FeedbackTyped /\ FlagsTyped /\ CountersTyped
    BY TypeParts
  <1>1. ASSUME NEW s \in Surfaces, Request(s) PROVE TypeOK'
    <2>1. ClientTyped'
      BY <1>0, <1>1 DEF Request, ClientTyped, paint
    <2>2. waiting' \in Feedbacks
      <3>1. waiting[s] \in Seq(1..MaxCommits) /\ commits[s] + 1 \in 1..MaxCommits
        BY <1>0, <1>1, PacingAssumption DEF Request, ClientTyped, FeedbackTyped, Feedbacks
      <3>2. Append(waiting[s], commits[s] + 1) \in Seq(1..MaxCommits)
        BY <3>1
      <3> QED
        BY <1>0, <1>1, <3>2 DEF Request, FeedbackTyped, Feedbacks
    <2>3. FeedbackTyped'
      BY <1>0, <1>1, <2>2 DEF Request, FeedbackTyped, stream
    <2>4. FlagsTyped' /\ CountersTyped'
      BY <1>0, <1>1 DEF Request, FlagsTyped, CountersTyped, paint, schedule, stream
    <2> QED
      BY <2>1, <2>3, <2>4, TypePartsNext
  <1>2. ASSUME NEW s \in Surfaces, Damage(s) PROVE TypeOK'
    <2>1. ClientTyped'
      BY <1>0, <1>2 DEF Damage, ClientTyped
    <2>2. FeedbackTyped' /\ CountersTyped'
      BY <1>0, <1>2 DEF Damage, FeedbackTyped, CountersTyped, stream, feedback
    <2>3. damage' \in BOOLEAN
      BY <1>2, TypeFacts DEF Damage
    <2>4. FlagsTyped'
      BY <1>0, <1>2, <2>3 DEF Damage, FlagsTyped, schedule, stream
    <2> QED
      BY <2>1, <2>2, <2>4, TypePartsNext
  <1>3. ASSUME NEW s \in Surfaces, Destroy(s) PROVE TypeOK'
    <2>1. ClientTyped'
      BY <1>0, <1>3 DEF Destroy, ClientTyped
    <2>2. waiting' \in Feedbacks /\ frames' \in Callbacks
      BY <1>0, <1>3 DEF Destroy, FeedbackTyped, Feedbacks, Callbacks
    <2>3. FeedbackTyped' /\ CountersTyped'
      BY <1>0, <1>3, <2>2 DEF Destroy, FeedbackTyped, CountersTyped, stream
    <2>4. damage' \in BOOLEAN
      BY <1>3, TypeFacts DEF Destroy
    <2>5. scheduled' \in BOOLEAN /\ idle' \in BOOLEAN /\ timer' \in BOOLEAN /\ clock' \in BOOLEAN
      BY <1>3, <2>4, RecompositeAllFlags DEF Destroy
    <2>6. FlagsTyped'
      BY <1>0, <1>3, <2>4, <2>5 DEF Destroy, FlagsTyped, stream
    <2> QED
      BY <2>1, <2>3, <2>6, TypePartsNext
  <1>4. ASSUME NEW s \in Surfaces, NEW attach \in BOOLEAN, NEW frame \in BOOLEAN,
               Commit(s, attach, frame)
        PROVE  TypeOK'
    <2>1. ClientTyped'
      BY <1>0, <1>4, PacingAssumption DEF Commit, ClientTyped
    <2>2. frames' \in Callbacks
      <3>1. commits[s] + 1 \in 1..MaxCommits
        BY <1>0, <1>4, PacingAssumption DEF Commit, ClientTyped
      <3> QED
        BY <1>0, <1>4, <3>1 DEF Commit, FeedbackTyped, Callbacks
    <2>3. FeedbackTyped' /\ CountersTyped'
      BY <1>0, <1>4, <2>2 DEF Commit, FeedbackTyped, CountersTyped, stream
    <2>4. damage' \in BOOLEAN
      BY <1>4, TypeFacts DEF Commit
    <2>5. scheduled' \in BOOLEAN /\ idle' \in BOOLEAN /\ timer' \in BOOLEAN /\ clock' \in BOOLEAN
      <3>1. CASE attach \/ s \in dirty
        BY <1>4, <2>4, <3>1, RecompositeAllFlags DEF Commit
      <3>2. CASE ~(attach \/ s \in dirty)
        BY <1>4, <3>2, TypeFacts DEF Commit, schedule
      <3> QED
        BY <3>1, <3>2
    <2>6. FlagsTyped'
      BY <1>0, <1>4, <2>4, <2>5 DEF Commit, FlagsTyped, stream
    <2> QED
      BY <2>1, <2>3, <2>6, TypePartsNext
  <1>5. CASE IdleFire \/ TimerFire \/ Screencopy
    BY <1>5, RepaintTyped
  <1>6. CASE ClockFire
    <2>1. ClientTyped' /\ CountersTyped'
      BY <1>0, <1>6 DEF ClockFire, ClientTyped, CountersTyped, client, paint, stream
    <2>2. answered' \in Feedbacks /\ waiting' \in Feedbacks /\ frames' \in Callbacks
      <3>1. \A s \in Surfaces : answered[s] \o waiting[s] \in Seq(1..MaxCommits)
        BY <1>0 DEF FeedbackTyped, Feedbacks
      <3>2. [s \in Surfaces |-> answered[s] \o waiting[s]] \in Feedbacks
        BY <3>1 DEF Feedbacks
      <3> QED
        BY <1>0, <1>6, <3>2, NothingTyped DEF ClockFire, FeedbackTyped
    <2>3. FeedbackTyped'
      BY <1>0, <1>6, <2>2 DEF ClockFire, FeedbackTyped, stream
    <2>4. FlagsTyped'
      BY <1>0, <1>6 DEF ClockFire, FlagsTyped, paint, schedule, stream
    <2> QED
      BY <2>1, <2>3, <2>4, TypePartsNext
  <1>7. ASSUME NEW late, AckTimer(late) PROVE TypeOK'
    <2>1. ClientTyped' /\ CountersTyped'
      BY <1>0, <1>7 DEF AckTimer, ClientTyped, CountersTyped, client, paint, stream
    <2> QED
      BY <1>7, <2>1, AckTyped, TypePartsNext
  <1>9. CASE AppAttach \/ AppDrop \/ AppPresent \/ \E i \in Outputs : AppRelease(i)
    <2>1. UNCHANGED <<client, feedback, paint, schedule, clock, ack, dirty_seq>>
      BY <1>9 DEF AppAttach, AppDrop, AppPresent, AppRelease
    <2>2. app' \in BOOLEAN /\ presented' \in {presented, newest} /\ newest' \in {newest, 0}
      BY <1>9, TypeFacts DEF AppAttach, AppDrop, AppPresent, AppRelease
    <2>3. ClientTyped' /\ FeedbackTyped'
      BY <1>0, <2>1 DEF ClientTyped, FeedbackTyped, client, feedback, paint
    <2>4. FlagsTyped' /\ CountersTyped'
      BY <1>0, <2>1, <2>2 DEF FlagsTyped, CountersTyped, paint, schedule
    <2> QED
      BY <2>3, <2>4, TypePartsNext
  <1>10. CASE UNCHANGED vars
    BY <1>10 DEF vars, TypeOK, client, feedback, paint, schedule, stream
  <1> QED
    BY <1>1, <1>2, <1>3, <1>4, <1>5, <1>6, <1>7, <1>9, <1>10
       DEF Next, ClientStep, LoopStep, AppStep

-----------------------------------------------------------------------------
(* The schedule.                                                           *)

\* No wake-up is lost by any step.
LEMMA WakeupStep == TypeOK /\ WakeupPending /\ [Next]_vars => WakeupPending'
  <1> SUFFICES ASSUME TypeOK, WakeupPending, [Next]_vars PROVE WakeupPending'
    OBVIOUS
  <1>1. ASSUME NEW s \in Surfaces, Request(s) \/ Damage(s) PROVE WakeupPending'
    BY <1>1 DEF Request, Damage, WakeupPending, feedback, schedule
  <1>2. ASSUME NEW s \in Surfaces, Destroy(s) PROVE WakeupPending'
    <2>1. damage' \in BOOLEAN /\ RecompositeAll(damage') /\ UNCHANGED <<batches, ack>>
      BY <1>2, TypeFacts DEF Destroy
    <2> QED
      BY <2>1, RecompositeAllFlags, TypeFacts DEF WakeupPending
  <1>3. ASSUME NEW s \in Surfaces, NEW attach \in BOOLEAN, NEW frame \in BOOLEAN,
               Commit(s, attach, frame)
        PROVE  WakeupPending'
    <2>1. damage' \in BOOLEAN /\ UNCHANGED <<batches, ack>>
      BY <1>3, TypeFacts DEF Commit
    <2>2. RecompositeAll(damage') \/ UNCHANGED schedule
      BY <1>3 DEF Commit
    <2> QED
      BY <2>1, <2>2, RecompositeAllFlags, TypeFacts DEF WakeupPending, schedule
  <1>4. CASE IdleFire \/ TimerFire \/ Screencopy
    <2>1. PICK d, sch, forced \in BOOLEAN :
             /\ RecompositeNow(d, sch, forced)
             /\ sch => scheduled /\ ~timer /\ idle' = idle
      BY <1>4, Repaints
    <2>2. scheduled' => timer' \/ sch
      BY <2>1, RepaintSchedule
    <2>3. scheduled' => idle' \/ timer'
      BY <2>1, <2>2 DEF WakeupPending
    <2>4. batches' # <<>> => ack'
      <3>1. UNCHANGED <<batches, ack>> \/ batches' = <<>> \/ ack' = TRUE
        BY <2>1, RepaintFeedback DEF AnswersAll, JoinsBatch, feedback
      <3> QED
        BY <3>1 DEF WakeupPending
    <2> QED
      BY <2>3, <2>4 DEF WakeupPending
  <1>5. CASE ClockFire
    BY <1>5 DEF ClockFire, WakeupPending, schedule
  <1>6. ASSUME NEW late, AckTimer(late) PROVE WakeupPending'
    BY <1>6 DEF AckTimer, WakeupPending, schedule
  <1>8. CASE AppAttach \/ AppDrop \/ AppPresent \/ \E i \in Outputs : AppRelease(i)
    BY <1>8 DEF AppAttach, AppDrop, AppPresent, AppRelease, WakeupPending, feedback, schedule
  <1>9. CASE UNCHANGED vars
    BY <1>9 DEF vars, WakeupPending, feedback, schedule
  <1> QED
    BY <1>1, <1>2, <1>3, <1>4, <1>5, <1>6, <1>8, <1>9
       DEF Next, ClientStep, LoopStep, AppStep

\* Nor is damage stranded.
LEMMA DamageStep == TypeOK /\ DamageInv /\ [Next]_vars => DamageInv'
  <1> SUFFICES ASSUME TypeOK, DamageInv, [Next]_vars PROVE DamageInv'
    OBVIOUS
  <1>1. ASSUME NEW s \in Surfaces, Request(s) PROVE DamageInv'
    BY <1>1 DEF Request, DamageInv, paint, schedule
  <1>2. ASSUME NEW s \in Surfaces, Damage(s) PROVE DamageInv'
    BY <1>2 DEF Damage, DamageInv, schedule
  <1>3. ASSUME NEW s \in Surfaces, Destroy(s) PROVE DamageInv'
    <2>1. damage' \in BOOLEAN /\ RecompositeAll(damage')
      BY <1>3, TypeFacts DEF Destroy
    <2> QED
      BY <2>1, RecompositeAllFlags DEF DamageInv
  <1>4. ASSUME NEW s \in Surfaces, NEW attach \in BOOLEAN, NEW frame \in BOOLEAN,
               Commit(s, attach, frame)
        PROVE  DamageInv'
    <2>1. damage' \in BOOLEAN
      BY <1>4, TypeFacts DEF Commit
    <2>2. CASE attach \/ s \in dirty
      BY <1>4, <2>1, <2>2, RecompositeAllFlags DEF Commit, DamageInv
    <2>3. CASE ~(attach \/ s \in dirty)
      <3>1. /\ dirty' = dirty /\ scheduled' = scheduled /\ touched' = touched \ {s}
            /\ damage' = damage /\ s \notin dirty
        BY <1>4, <2>3, TypeFacts DEF Commit, schedule
      <3> QED
        BY <3>1 DEF DamageInv
    <2> QED
      BY <2>2, <2>3
  <1>5. CASE IdleFire \/ TimerFire \/ Screencopy
    <2>1. PICK d, sch, forced \in BOOLEAN : RecompositeNow(d, sch, forced)
      BY <1>5, Repaints
    <2> QED
      BY <2>1, RepaintSchedule DEF DamageInv
  <1>6. ASSUME NEW late, ClockFire \/ AckTimer(late) PROVE DamageInv'
    BY <1>6 DEF ClockFire, AckTimer, DamageInv, client, paint, schedule
  <1>7. CASE AppAttach \/ AppDrop \/ AppPresent \/ \E i \in Outputs : AppRelease(i)
    BY <1>7 DEF AppAttach, AppDrop, AppPresent, AppRelease, DamageInv, client, paint, schedule
  <1>8. CASE UNCHANGED vars
    BY <1>8 DEF vars, DamageInv, client, paint, schedule
  <1> QED
    BY <1>1, <1>2, <1>3, <1>4, <1>5, <1>6, <1>7, <1>8
       DEF Next, ClientStep, LoopStep, AppStep

-----------------------------------------------------------------------------
(* The order of answers.                                                   *)

\* One list before another is one whose elements all are; a joined list is
\* before another if both parts are.
LEMMA BeforeConcat ==
  ASSUME NEW S \in SUBSET Int, NEW p \in Seq(S), NEW q \in Seq(S), NEW r \in Seq(S)
  PROVE  /\ Before(p, r) /\ Before(q, r) => Before(p \o q, r)
         /\ Before(r, p) /\ Before(r, q) => Before(r, p \o q)
  <1>1. \A i \in DOMAIN (p \o q) : \/ \E k \in DOMAIN p : (p \o q)[i] = p[k]
                                   \/ \E k \in DOMAIN q : (p \o q)[i] = q[k]
    BY ConcatFacts
  <1> QED
    BY <1>1 DEF Before

\* So is what two lists may name.
LEMMA NamedConcat ==
  ASSUME NEW S \in SUBSET Int, NEW p \in Seq(S), NEW q \in Seq(S), NEW s,
         Named(s, p), Named(s, q)
  PROVE  Named(s, p \o q)
  <1>1. \A i \in DOMAIN (p \o q) : \/ \E k \in DOMAIN p : (p \o q)[i] = p[k]
                                   \/ \E k \in DOMAIN q : (p \o q)[i] = q[k]
    BY ConcatFacts
  <1> QED
    BY <1>1 DEF Named

\* The lists of a surface have the right types.
LEMMA ListTypes ==
  ASSUME TypeOK, NEW s \in Surfaces
  PROVE  /\ answered[s] \in Seq(1..MaxCommits) /\ waiting[s] \in Seq(1..MaxCommits)
         /\ \A i \in DOMAIN batches : batches[i].feedbacks[s] \in Seq(1..MaxCommits)
         /\ 1..MaxCommits \in SUBSET Int /\ commits[s] \in Nat
         /\ batches \in Seq(Batches)
  <1>1. answered[s] \in Seq(1..MaxCommits) /\ waiting[s] \in Seq(1..MaxCommits)
    BY DEF TypeOK, Feedbacks
  <1>2. batches \in Seq(Batches) /\ commits[s] \in Nat
    BY PacingAssumption DEF TypeOK
  <1>3. ASSUME NEW i \in DOMAIN batches PROVE batches[i].feedbacks[s] \in Seq(1..MaxCommits)
    <2>1. batches[i] \in Batches
      BY <1>2
    <2>2. batches[i].feedbacks \in Feedbacks
      BY <2>1 DEF Batches
    <2> QED
      BY <2>2 DEF Feedbacks
  <1> QED
    BY <1>1, <1>2, <1>3, PacingAssumption

\* What the n oldest batches hold of s, as one list f: it is in order, after
\* what was answered, before what waits and before what the later batches hold.
LEMMA OldestInOrder ==
  ASSUME TypeOK, NEW s \in Surfaces, OrderOf(s), NEW n \in 0..Len(batches)
  PROVE  LET f == BatchFeedback(SubSeq(batches, 1, n), s)
         IN  /\ f \in Seq(1..MaxCommits) /\ Increasing(f)
             /\ Before(answered[s], f) /\ Before(f, waiting[s])
             /\ \A i \in DOMAIN batches : i > n => Before(f, batches[i].feedbacks[s])
             /\ NamedOf(s) /\ s \in alive => Named(s, f)
  <1> DEFINE bs == SubSeq(batches, 1, n)
             f == BatchFeedback(bs, s)
  <1>1. /\ bs \in Seq(Batches)
        /\ \A i \in DOMAIN bs : i \in DOMAIN batches /\ i <= n /\ i \in Nat /\ bs[i] = batches[i]
    BY ListTypes
  <1> HIDE DEF bs
  <1>2. /\ f \in Seq(1..MaxCommits)
        /\ \A j \in DOMAIN f : \E i \in DOMAIN bs :
              \E k \in DOMAIN bs[i].feedbacks[s] : f[j] = bs[i].feedbacks[s][k]
        /\ /\ \A i \in DOMAIN bs : Increasing(bs[i].feedbacks[s])
           /\ \A i, j \in DOMAIN bs : i < j => Before(bs[i].feedbacks[s], bs[j].feedbacks[s])
           => Increasing(f)
    BY <1>1, BatchFeedbackOrder
  <1> HIDE DEF f
  <1>3. \A j \in DOMAIN f : \E i \in DOMAIN batches : i <= n /\
            \E k \in DOMAIN batches[i].feedbacks[s] : f[j] = batches[i].feedbacks[s][k]
    <2> SUFFICES ASSUME NEW j \in DOMAIN f
                 PROVE  \E i \in DOMAIN batches : i <= n /\
                          \E k \in DOMAIN batches[i].feedbacks[s] : f[j] = batches[i].feedbacks[s][k]
      OBVIOUS
    <2>1. PICK i \in DOMAIN bs : \E k \in DOMAIN bs[i].feedbacks[s] : f[j] = bs[i].feedbacks[s][k]
      BY <1>2
    <2>2. i \in DOMAIN batches /\ i <= n /\ bs[i] = batches[i]
      BY <1>1
    <2> QED
      BY <2>1, <2>2
  <1>4. Increasing(f)
    BY <1>1, <1>2 DEF OrderOf
  <1>5. Before(answered[s], f)
    BY <1>3 DEF OrderOf, Before
  <1>6. Before(f, waiting[s])
    BY <1>3 DEF OrderOf, Before
  <1>7. ASSUME NEW i \in DOMAIN batches, i > n PROVE Before(f, batches[i].feedbacks[s])
    <2>1. \A l \in DOMAIN batches : l <= n => Before(batches[l].feedbacks[s], batches[i].feedbacks[s])
      BY <1>7, ListTypes DEF OrderOf
    <2> QED
      BY <1>3, <2>1 DEF Before
  <1>8. NamedOf(s) /\ s \in alive => Named(s, f)
    BY <1>3 DEF NamedOf, Named
  <1> QED
    BY <1>2, <1>4, <1>5, <1>6, <1>7, <1>8 DEF f, bs

\* The order survives when the oldest batches are answered,
LEMMA OrderAck ==
  ASSUME TypeOK, OrderInv, NEW late, AckTimer(late)
  PROVE  OrderInv'
  <1>1. PICK n \in 0..Len(batches) :
            /\ answered' = [s \in Surfaces |-> answered[s] \o
                               BatchFeedback(SubSeq(batches, 1, n), s)]
            /\ batches' = SubSeq(batches, n + 1, Len(batches))
    BY AckEffect
  <1>2. UNCHANGED <<waiting, commits, alive, asked>>
    BY DEF AckTimer, client
  <1> SUFFICES ASSUME NEW s \in Surfaces PROVE OrderOf(s)' /\ NamedOf(s)'
    BY DEF OrderInv
  <1> DEFINE f == BatchFeedback(SubSeq(batches, 1, n), s)
  <1>3. /\ f \in Seq(1..MaxCommits) /\ Increasing(f)
        /\ Before(answered[s], f) /\ Before(f, waiting[s])
        /\ \A i \in DOMAIN batches : i > n => Before(f, batches[i].feedbacks[s])
        /\ s \in alive => Named(s, f)
    BY OldestInOrder DEF OrderInv
  <1>4. answered'[s] = answered[s] \o f
    BY <1>1
  <1> HIDE DEF f
  <1>5. \A i \in DOMAIN batches' : i + n \in DOMAIN batches /\ i \in Nat /\ i + n > n /\ batches'[i] = batches[i + n]
    BY <1>1, ListTypes
  <1>6. Increasing(answered'[s]) /\ Before(answered'[s], waiting[s])
    BY <1>3, <1>4, ListTypes, ConcatFacts, BeforeConcat DEF OrderInv, OrderOf
  <1>7. ASSUME NEW i \in DOMAIN batches
        PROVE  i > n => Before(answered'[s], batches[i].feedbacks[s])
    BY <1>3, <1>4, ListTypes, BeforeConcat DEF OrderInv, OrderOf
  <1>8. ASSUME NEW i \in DOMAIN batches'
        PROVE  /\ Increasing(batches'[i].feedbacks[s])
               /\ Before(answered'[s], batches'[i].feedbacks[s])
               /\ Before(batches'[i].feedbacks[s], waiting[s])
    BY <1>5, <1>7 DEF OrderInv, OrderOf
  <1>9. ASSUME NEW i \in DOMAIN batches', NEW j \in DOMAIN batches', i < j
        PROVE  Before(batches'[i].feedbacks[s], batches'[j].feedbacks[s])
    <2>1. i + n < j + n /\ i + n \in DOMAIN batches /\ j + n \in DOMAIN batches
      BY <1>5, <1>9
    <2> QED
      BY <1>5, <2>1 DEF OrderInv, OrderOf
  <1>10. OrderOf(s)'
    BY <1>2, <1>6, <1>8, <1>9 DEF OrderInv, OrderOf
  <1>11. s \in alive => Named(s, answered'[s])
    BY <1>3, <1>4, ListTypes, NamedConcat DEF OrderInv, NamedOf
  <1>12. NamedOf(s)'
    BY <1>2, <1>5, <1>11 DEF OrderInv, NamedOf, Named
  <1> QED
    BY <1>10, <1>12

\* when everything is answered,
LEMMA OrderAnswersAll ==
  ASSUME TypeOK, OrderInv, AnswersAll, UNCHANGED client
  PROVE  OrderInv'
  <1> SUFFICES ASSUME NEW s \in Surfaces PROVE OrderOf(s)' /\ NamedOf(s)'
    BY DEF OrderInv
  <1> DEFINE f == BatchFeedback(batches, s)
             a == answered[s] \o f
  <1>1. SubSeq(batches, 1, Len(batches)) = batches /\ Len(batches) \in 0..Len(batches)
    BY ListTypes
  <1>2. /\ f \in Seq(1..MaxCommits) /\ Increasing(f)
        /\ Before(answered[s], f) /\ Before(f, waiting[s])
        /\ s \in alive => Named(s, f)
    BY <1>1, OldestInOrder DEF OrderInv
  <1>3. answered'[s] = a \o waiting[s] /\ batches' = <<>> /\ waiting'[s] = <<>>
    BY DEF AnswersAll, NoFeedback
  <1> HIDE DEF f
  <1>4. a \in Seq(1..MaxCommits) /\ Increasing(a) /\ Before(a, waiting[s])
    BY <1>2, ListTypes, ConcatFacts, BeforeConcat DEF OrderInv, OrderOf
  <1>5. s \in alive => Named(s, a)
    BY <1>2, ListTypes, NamedConcat DEF OrderInv, NamedOf
  <1> HIDE DEF a
  <1>6. Increasing(answered'[s])
    BY <1>3, <1>4, ListTypes, ConcatFacts DEF OrderInv, OrderOf
  <1>7. s \in alive => Named(s, answered'[s])
    BY <1>3, <1>4, <1>5, ListTypes, NamedConcat DEF OrderInv, NamedOf
  <1>8. OrderOf(s)'
    BY <1>3, <1>6 DEF OrderOf, Increasing, Before
  <1>9. NamedOf(s)'
    BY <1>3, <1>7 DEF NamedOf, Named, client
  <1> QED
    BY <1>8, <1>9

\* and when what waits becomes the newest batch.
LEMMA OrderJoinsBatch ==
  ASSUME TypeOK, OrderInv, JoinsBatch, UNCHANGED client
  PROVE  OrderInv'
  <1> SUFFICES ASSUME NEW s \in Surfaces PROVE OrderOf(s)' /\ NamedOf(s)'
    BY DEF OrderInv
  <1> DEFINE b == [seq |-> dirty_seq', feedbacks |-> waiting, frames |-> frames]
             n == Len(batches) + 1
  <1>1. batches' = Append(batches, b) /\ b.feedbacks = waiting /\ answered' = answered /\ waiting'[s] = <<>>
    BY DEF JoinsBatch, NoFeedback
  <1> HIDE DEF b
  <1>2. \A i \in DOMAIN batches' : \/ i \in DOMAIN batches /\ i < n /\ batches'[i] = batches[i]
                                   \/ i = n /\ batches'[i] = b
    BY <1>1, ListTypes
  <1>3. \A i \in DOMAIN batches' : i \in Nat
    BY <1>1, ListTypes
  <1>4. n \in Nat
    BY ListTypes
  <1> HIDE DEF n
  <1>5. ASSUME NEW i \in DOMAIN batches'
        PROVE  /\ Increasing(batches'[i].feedbacks[s])
               /\ Before(answered[s], batches'[i].feedbacks[s])
    BY <1>1, <1>2 DEF OrderInv, OrderOf
  <1>6. ASSUME NEW i \in DOMAIN batches', NEW j \in DOMAIN batches', i < j
        PROVE  Before(batches'[i].feedbacks[s], batches'[j].feedbacks[s])
    BY <1>1, <1>2, <1>3, <1>4, <1>6 DEF OrderInv, OrderOf
  <1>7. OrderOf(s)'
    BY <1>1, <1>5, <1>6 DEF OrderInv, OrderOf, Increasing, Before
  <1>8. NamedOf(s)'
    BY <1>1, <1>2 DEF OrderInv, NamedOf, Named, client
  <1> QED
    BY <1>7, <1>8

\* Every step keeps the order of feedbacks.
LEMMA OrderStep == TypeOK /\ OrderInv /\ [Next]_vars => OrderInv'
  <1> SUFFICES ASSUME TypeOK, OrderInv, [Next]_vars PROVE OrderInv'
    OBVIOUS
  <1>1. ASSUME NEW t \in Surfaces, Request(t) PROVE OrderInv'
    <2>1. /\ UNCHANGED <<answered, batches, alive, commits>> /\ asked' = asked \cup {t}
          /\ waiting' = [waiting EXCEPT ![t] = Append(@, commits[t] + 1)]
          /\ t \in alive /\ t \notin asked
      BY <1>1 DEF Request
    <2>2. ASSUME NEW s \in Surfaces, s # t PROVE OrderOf(s)' /\ NamedOf(s)'
      <3>1. waiting'[s] = waiting[s]
        BY <2>1, <2>2 DEF TypeOK, Feedbacks
      <3> QED
        BY <2>1, <2>2, <3>1 DEF OrderInv, OrderOf, NamedOf, Named
    <2>3. OrderOf(t)' /\ NamedOf(t)'
      <3> DEFINE w == waiting[t]
                 c == commits[t] + 1
      <3>1. w \in Seq(1..MaxCommits) /\ c \in Nat /\ waiting'[t] = Append(w, c)
        BY <2>1, ListTypes DEF TypeOK, Feedbacks
      <3>2. \A i \in DOMAIN waiting'[t] : \/ i \in DOMAIN w /\ i < Len(w) + 1 /\ waiting'[t][i] = w[i]
                                          \/ i = Len(w) + 1 /\ waiting'[t][i] = c
        BY <3>1
      <3>3. \A i \in DOMAIN waiting'[t] : i \in Nat
        BY <3>1
      <3>4. Len(w) + 1 \in Nat
        BY <3>1
      <3>a. ASSUME NEW q \in Seq(1..MaxCommits), Named(t, q) PROVE \A i \in DOMAIN q : q[i] < c
        <4>1. \A i \in DOMAIN q : q[i] \in Int
          BY PacingAssumption
        <4> QED
          BY <2>1, <3>a, <4>1, ListTypes DEF Named
      <3>b. OrderInv => /\ Named(t, answered[t]) /\ Named(t, waiting[t])
                        /\ \A i \in DOMAIN batches : Named(t, batches[i].feedbacks[t])
        BY <2>1 DEF OrderInv, NamedOf
      <3>5. \A i \in DOMAIN w : w[i] < c
        BY <3>a, <3>b, ListTypes
      <3>6. \A i \in DOMAIN answered[t] : answered[t][i] < c
        BY <3>a, <3>b, ListTypes
      <3>7. \A i \in DOMAIN batches : \A k \in DOMAIN batches[i].feedbacks[t] :
                batches[i].feedbacks[t][k] < c
        BY <3>a, <3>b, ListTypes
      <3> HIDE DEF w
      <3>8. Increasing(waiting'[t])
        BY <3>2, <3>3, <3>4, <3>5 DEF OrderInv, OrderOf, Increasing, w
      <3>9. Before(answered[t], waiting'[t])
        BY <3>2, <3>6 DEF OrderInv, OrderOf, Before, w
      <3>10. ASSUME NEW i \in DOMAIN batches PROVE Before(batches[i].feedbacks[t], waiting'[t])
        BY <3>2, <3>7 DEF OrderInv, OrderOf, Before, w
      <3>11. OrderOf(t)'
        BY <2>1, <3>8, <3>9, <3>10 DEF OrderInv, OrderOf
      <3>12. NamedOf(t)'
        BY <2>1, <3>2, ListTypes DEF OrderInv, NamedOf, Named, w
      <3> QED
        BY <3>11, <3>12
    <2> QED
      BY <2>2, <2>3 DEF OrderInv
  <1>2. ASSUME NEW t \in Surfaces, Damage(t) PROVE OrderInv'
    BY <1>2 DEF Damage, OrderInv, OrderOf, NamedOf, Named, feedback
  <1>3. ASSUME NEW t \in Surfaces, Destroy(t) PROVE OrderInv'
    <2>1. /\ UNCHANGED <<answered, batches, commits>> /\ alive' = alive \ {t} /\ asked' = asked \ {t}
          /\ waiting' = [waiting EXCEPT ![t] = <<>>]
      BY <1>3 DEF Destroy
    <2>2. ASSUME NEW s \in Surfaces, s # t PROVE OrderOf(s)' /\ NamedOf(s)'
      <3>1. waiting'[s] = waiting[s]
        BY <2>1, <2>2 DEF TypeOK, Feedbacks
      <3> QED
        BY <2>1, <2>2, <3>1 DEF OrderInv, OrderOf, NamedOf, Named
    <2>3. OrderOf(t)' /\ NamedOf(t)'
      <3>1. waiting'[t] = <<>> /\ t \notin alive'
        BY <2>1 DEF TypeOK, Feedbacks
      <3> QED
        BY <2>1, <3>1 DEF OrderInv, OrderOf, NamedOf, Increasing, Before
    <2> QED
      BY <2>2, <2>3 DEF OrderInv
  <1>4. ASSUME NEW t \in Surfaces, NEW attach \in BOOLEAN, NEW frame \in BOOLEAN,
               Commit(t, attach, frame)
        PROVE  OrderInv'
    <2>1. /\ UNCHANGED <<answered, batches, waiting, alive>> /\ asked' = asked \ {t}
          /\ commits' = [commits EXCEPT ![t] = @ + 1]
      BY <1>4 DEF Commit
    <2> SUFFICES ASSUME NEW s \in Surfaces PROVE OrderOf(s)' /\ NamedOf(s)'
      BY DEF OrderInv
    <2>2. OrderOf(s)'
      BY <2>1 DEF OrderInv, OrderOf
    <2>3. \/ s # t /\ commits'[s] = commits[s] /\ (s \in asked' <=> s \in asked)
          \/ s \notin asked' /\ commits'[s] = commits[s] + 1
      BY <2>1 DEF TypeOK
    <2>4. ASSUME NEW q \in Seq(1..MaxCommits), Named(s, q) PROVE Named(s, q)'
      <3>1. \A i \in DOMAIN q : q[i] \in Int
        BY PacingAssumption
      <3>2. commits[s] \in Int
        BY ListTypes
      <3> QED
        BY <2>3, <2>4, <3>1, <3>2 DEF Named
    <2>5. NamedOf(s)'
      BY <2>1, <2>4, ListTypes DEF OrderInv, NamedOf
    <2> QED
      BY <2>2, <2>5
  <1>5. CASE IdleFire \/ TimerFire \/ Screencopy
    <2>1. PICK d, sch, forced \in BOOLEAN : RecompositeNow(d, sch, forced) /\ UNCHANGED client
      BY <1>5, Repaints
    <2>2. \/ UNCHANGED <<feedback, ack, dirty_seq>> \/ AnswersAll \/ JoinsBatch
      BY <2>1, RepaintFeedback
    <2>3. CASE UNCHANGED <<feedback, ack, dirty_seq>>
      BY <2>1, <2>3 DEF OrderInv, OrderOf, NamedOf, Named, client, feedback
    <2> QED
      BY <2>1, <2>2, <2>3, OrderAnswersAll, OrderJoinsBatch
  <1>6. CASE ClockFire
    <2>1. UNCHANGED <<client, batches>>
      BY <1>6 DEF ClockFire
    <2>2. CASE RepaintPending
      BY <1>6, <2>1, <2>2 DEF ClockFire, OrderInv, OrderOf, NamedOf, Named, client
    <2>3. CASE ~RepaintPending
      <3>1. /\ batches = <<>> /\ answered' = [s \in Surfaces |-> answered[s] \o waiting[s]]
            /\ waiting' = NoFeedback
        BY <1>6, <2>3 DEF ClockFire, RepaintPending
      <3> SUFFICES ASSUME NEW s \in Surfaces PROVE OrderOf(s)' /\ NamedOf(s)'
        BY DEF OrderInv
      <3>2. answered'[s] = answered[s] \o waiting[s]
        BY <3>1
      <3>7. waiting'[s] = <<>> /\ batches' = <<>>
        BY <2>1, <3>1 DEF NoFeedback
      <3>3. Increasing(answered'[s])
        BY <3>2, ListTypes, ConcatFacts DEF OrderInv, OrderOf
      <3>4. s \in alive => Named(s, answered'[s])
        BY <3>2, ListTypes, NamedConcat DEF OrderInv, NamedOf
      <3>5. OrderOf(s)'
        BY <3>7, <3>3 DEF OrderOf, Increasing, Before
      <3>6. NamedOf(s)'
        BY <2>1, <3>7, <3>4 DEF NamedOf, Named, client
      <3> QED
        BY <3>5, <3>6
    <2> QED
      BY <2>2, <2>3
  <1>7. ASSUME NEW late, AckTimer(late) PROVE OrderInv'
    BY <1>7, OrderAck
  <1>9. CASE AppAttach \/ AppDrop \/ AppPresent \/ \E i \in Outputs : AppRelease(i)
    <2>1. UNCHANGED <<client, feedback>>
      BY <1>9 DEF AppAttach, AppDrop, AppPresent, AppRelease
    <2> QED
      BY <2>1 DEF OrderInv, OrderOf, NamedOf, Named, client, feedback
  <1>10. CASE UNCHANGED vars
    BY <1>10 DEF vars, OrderInv, OrderOf, NamedOf, Named, client, feedback
  <1> QED
    BY <1>1, <1>2, <1>3, <1>4, <1>5, <1>6, <1>7, <1>9, <1>10
       DEF Next, ClientStep, LoopStep, AppStep

-----------------------------------------------------------------------------
(* The theorems.                                                           *)

\* The inductive invariant holds in every reachable state.
THEOREM Invariant == Spec => []IInv
  <1>1. Init => IInv
    <2> SUFFICES ASSUME Init PROVE IInv
      OBVIOUS
    <2>1. WakeupPending /\ DamageInv
      BY DEF Init, WakeupPending, DamageInv
    <2>2. OrderInv
      BY DEF Init, OrderInv, OrderOf, NamedOf, Named, Increasing, Before, NoFeedback
    <2> QED
      BY <2>1, <2>2, TypeInit DEF IInv
  <1>2. IInv /\ [Next]_vars => IInv'
    BY TypeStep, WakeupStep, DamageStep, OrderStep DEF IInv
  <1> QED
    BY <1>1, <1>2, PTL DEF Spec

\* Every variable keeps its type, and the batches wait for frames that were
\* published, in the order of their generations (frame_callbacks_after_present).
THEOREM TypeCorrect == Spec => []TypeOK
  <1>1. IInv => TypeOK
    BY DEF IInv
  <1> QED
    BY <1>1, Invariant, PTL

\* No wake-up is lost: a scheduled repaint has its idle source or timer, batches
\* have their timer (recomposite_all_at, repaint_timer_cb, screencopy_do_copy).
THEOREM WakeupNeverLost == Spec => []WakeupPending
  <1>1. IInv => WakeupPending
    BY DEF IInv
  <1> QED
    BY <1>1, Invariant, PTL

\* Output damage is never stranded (recomposite_now, surface_commit_apply).
THEOREM DamageNeverStranded == Spec => []DamageScheduled
  <1>1. IInv => DamageScheduled
    BY DEF IInv, DamageInv, DamageScheduled
  <1> QED
    BY <1>1, Invariant, PTL

\* Feedbacks are presented in commit order and none twice, through whichever of
\* frame_clock_timer_cb, present_ack_timer_cb and frame_callbacks_after_repaint.
THEOREM FeedbackInOrder == Spec => []AnsweredInOrder
  <1>1. IInv => AnsweredInOrder
    BY DEF IInv, OrderInv, OrderOf, Increasing, AnsweredInOrder
  <1> QED
    BY <1>1, Invariant, PTL
=============================================================================
