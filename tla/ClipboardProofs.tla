-------------------------- MODULE ClipboardProofs --------------------------
(***************************************************************************)
(* Proofs about Clipboard, for every set of kinds, every largest           *)
(* generation above 1 and every bound on users, drops and restarts.        *)
(***************************************************************************)
EXTENDS Clipboard, CountingLemmas, FiniteSetTheorems, TLAPS

-----------------------------------------------------------------------------
(* The inductive invariant.                                                *)

\* Before the first generation the bridge holds nothing, and has received
\* nothing on this connection.
GenInv == gen = 0 => items = Empty /\ readers = {} /\ (connected => last_rx = 0)

\* The copies that go with the bridge's present generation.
InBridge(n) ==
    \/ \E k \in Kinds : n # 0 /\ (n = store[k] \/ n = items[k])
    \/ \E r \in readers : n = r[2]

\* The copies that go with generation g on the way to the app and in it.
InApp(g, n) ==
    \/ \E i \in DOMAIN down : down[i].gen = g /\ n = down[i].item /\ n # 0
    \/ rx_gen = g /\ \E k \in Kinds : n = rx_items[k] /\ n # 0

\* One generation of the desktop's is one copy,
DownInv ==
    /\ \A m, n : InBridge(m) /\ InBridge(n) => m = n
    /\ \A g, m, n : g = gen /\ InBridge(m) /\ InApp(g, n) => m = n
    /\ \A g, m, n : InApp(g, m) /\ InApp(g, n) => m = n

\* and so is one of the app's: the records of a push follow one another, and
\* while some of them are out the bridge holds what the others brought.
UpInv ==
    /\ \A i \in DOMAIN up : i > 1 /\ up[i - 1].gen = up[i].gen =>
          up[i - 1].item = up[i].item /\ up[i].item # 0
    /\ connected => IF up = <<>> THEN last_rx \in {0, tx_gen} ELSE up[Len(up)].gen = tx_gen
    /\ PushUnderWay => /\ readers = {}
                       /\ Head(up).item # 0 /\ \E k \in Kinds : items[k] = Head(up).item

\* What the app may push is one copy.
PushInv ==
    /\ FromOneCopy(pb)
    /\ \A i \in DOMAIN queue : queue[i].op = "push" => FromOneCopy(queue[i].content)

CopyInv == ~ mixed => DownInv /\ UpInv /\ PushInv

IInv == TypeOK /\ GenInv /\ SnapshotIsStore /\ CopyInv

-----------------------------------------------------------------------------
(* Generations, records and what is received.                              *)

\* The next generation is never 0 and never the present one.
LEMMA NextGenFacts ==
  ASSUME NEW g \in 0..GenMax
  PROVE  NextGen(g) \in 1..GenMax /\ NextGen(g) \in 0..GenMax /\ NextGen(g) # g /\ NextGen(g) # 0
  BY ConstantsAreFinite DEF NextGen

\* The empty clipboard is one, and so is a whole copy of some kinds.
LEMMA ClipFacts ==
  /\ Empty \in Clips /\ \A k \in Kinds : Empty[k] = 0
  /\ \A n \in (- MaxCopies)..MaxCopies : \A ks :
        Whole(n, ks) \in Clips /\ FromOneCopy(Whole(n, ks))
  /\ FromOneCopy(Empty)
  BY ConstantsAreFinite DEF Empty, Clips, Whole, FromOneCopy, SetKinds

\* The records of a clipboard: one of its kinds each, of the generation given,
\* and none at all only when it is empty.
LEMMA RecordsFacts ==
  ASSUME NEW c \in Clips, NEW g \in 1..GenMax
  PROVE  /\ Records(c, g) \in Seq(WireRecords)
         /\ \A i \in DOMAIN Records(c, g) :
               /\ Records(c, g)[i].gen = g /\ Records(c, g)[i].item # 0
               /\ \E k \in Kinds : Records(c, g)[i].item = c[k]
         /\ c # Empty => Records(c, g) # <<>>
  <1> DEFINE S == SetKinds(c)
             N == Cardinality(S)
             q == SetToSeq(S)
  <1>1. S \subseteq Kinds /\ IsFiniteSet(S) /\ N \in Nat
    BY ConstantsAreFinite, FS_Subset, FS_CardinalityType DEF SetKinds
  <1>2. q \in [1..N -> S]
    <2>1. PICK f : f \in Bijection(1..N, S)
      BY <1>1, FS_CardinalityType DEF ExistsBijection
    <2>2. f \in [1..N -> S] /\ IsInjective(f)
      BY <2>1 DEF Bijection, Injection, IsInjective
    <2> QED
      BY <2>2 DEF SetToSeq
  <1>3. Records(c, g) = [i \in 1..N |-> Record(q[i], g, c[q[i]])]
    BY DEF Records
  <1> HIDE DEF N, q
  <1>4. ASSUME NEW k \in S PROVE Record(k, g, c[k]) \in WireRecords /\ c[k] # 0
    BY <1>1, <1>4, ConstantsAreFinite DEF Record, WireRecords, SetKinds, Clips
  <1>5. Records(c, g) \in Seq(WireRecords)
    BY <1>1, <1>2, <1>3, <1>4
  <1>6. ASSUME NEW i \in DOMAIN Records(c, g)
        PROVE  /\ Records(c, g)[i].gen = g /\ Records(c, g)[i].item # 0
               /\ \E k \in Kinds : Records(c, g)[i].item = c[k]
    <2>1. i \in 1..N /\ q[i] \in S /\ Records(c, g)[i] = Record(q[i], g, c[q[i]])
      BY <1>2, <1>3
    <2> QED
      BY <2>1, <1>1, <1>4 DEF Record
  <1>7. c # Empty => Records(c, g) # <<>>
    <2> SUFFICES ASSUME c # Empty PROVE N # 0
      BY <1>1, <1>3
    <2>1. PICK k \in Kinds : c[k] # 0
      BY DEF Empty, Clips
    <2>2. S # {}
      BY <2>1 DEF SetKinds
    <2> QED
      BY <1>1, <2>2, FS_EmptySet DEF N
  <1> QED
    BY <1>5, <1>6, <1>7

\* The function by which Take receives the records of recs exists.
Receives(recs, f, N) ==
    f = [n \in 0..N |-> IF n = 0 THEN <<rx_gen, rx_items>> ELSE Received(f[n - 1], recs[n])]

\* It is defined for any number of records.
LEMMA ReceivesExists ==
  ASSUME NEW recs, NEW N \in Nat
  PROVE  \E f : Receives(recs, f, N)
  <1> DEFINE T == {k \in 0..N : \E f : Receives(recs, f, k)}
  <1>1. 0 \in T
    <2> DEFINE g == [n \in 0..0 |-> <<rx_gen, rx_items>>]
    <2>1. g = [n \in 0..0 |-> IF n = 0 THEN <<rx_gen, rx_items>> ELSE Received(g[n - 1], recs[n])]
      OBVIOUS
    <2> HIDE DEF g
    <2>2. Receives(recs, g, 0)
      BY <2>1 DEF Receives
    <2> QED
      BY <2>2
  <1>2. ASSUME NEW k \in 1..N, k - 1 \in T PROVE k \in T
    <2>1. PICK f : Receives(recs, f, k - 1)
      BY <1>2
    <2> DEFINE g == [n \in 0..k |-> IF n = k THEN Received(f[n - 1], recs[n]) ELSE f[n]]
    <2>2. ASSUME NEW n \in 0..k
          PROVE  g[n] = IF n = 0 THEN <<rx_gen, rx_items>> ELSE Received(g[n - 1], recs[n])
      <3>1. n # 0 => n - 1 \in 0..k /\ n - 1 # k
        OBVIOUS
      <3>2. n # 0 => g[n - 1] = f[n - 1]
        BY <3>1
      <3>3. n # k => n \in 0..(k - 1)
        OBVIOUS
      <3>4. n # k => f[n] = IF n = 0 THEN <<rx_gen, rx_items>> ELSE Received(f[n - 1], recs[n])
        BY <3>3, <2>1 DEF Receives
      <3>5. k # 0
        OBVIOUS
      <3>6. g[n] = IF n = k THEN Received(f[n - 1], recs[n]) ELSE f[n]
        OBVIOUS
      <3> HIDE DEF g
      <3>7. CASE n = k
        BY <3>2, <3>5, <3>6, <3>7
      <3>8. CASE n # k
        BY <3>2, <3>4, <3>6, <3>8
      <3> QED
        BY <3>7, <3>8
    <2>3. g = [n \in 0..k |-> IF n = 0 THEN <<rx_gen, rx_items>> ELSE Received(g[n - 1], recs[n])]
      BY <2>2
    <2> HIDE DEF g
    <2>4. Receives(recs, g, k)
      BY <2>3 DEF Receives
    <2> QED
      BY <2>4
  <1>3. T = 0..N
    <2> HIDE DEF T
    <2>1. T \in SUBSET (0..N)
      BY DEF T
    <2> QED
      BY <1>1, <1>2, <2>1, CountingUp
  <1> QED
    BY <1>3

\* What the app holds after it took recs: for every kind nothing, or what a
\* record of the generation it then has brought, or what it held of it before.
Brought(recs, g, n) ==
    \/ \E i \in DOMAIN recs : recs[i].gen = g /\ n = recs[i].item /\ n # 0
    \/ rx_gen = g /\ \E k \in Kinds : n = rx_items[k] /\ n # 0
Taken(recs, rx) ==
    /\ rx[1] \in 0..GenMax /\ rx[2] \in Clips
    /\ \A k \in Kinds : rx[2][k] # 0 => Brought(recs, rx[1], rx[2][k])

\* One record received keeps this.
LEMMA ReceivedFacts ==
  ASSUME NEW recs \in Seq(WireRecords), NEW i \in DOMAIN recs, NEW rx, Taken(recs, rx)
  PROVE  Taken(recs, Received(rx, recs[i]))
  <1> DEFINE r == recs[i]
             old == IF r.gen = rx[1] THEN rx[2] ELSE Empty
  <1>1. /\ r \in WireRecords
        /\ r.kind \in Kinds \cup {None} /\ r.gen \in 1..GenMax
        /\ r.item \in (- MaxCopies)..MaxCopies /\ (r.kind = None <=> r.item = 0)
    BY DEF WireRecords
  <1>2. r.gen \in 0..GenMax
    BY <1>1, ConstantsAreFinite
  <1>3. old \in Clips /\ \A k \in Kinds : old[k] # 0 => Brought(recs, r.gen, old[k])
    BY ClipFacts DEF Taken
  <1> HIDE DEF old
  <1>4. CASE r.kind = None
    <2>1. Received(rx, r) = <<r.gen, Empty>>
      BY <1>4 DEF Received
    <2> QED
      BY <1>2, <2>1, ClipFacts DEF Taken
  <1>5. CASE r.kind # None
    <2> DEFINE c == [old EXCEPT ![r.kind] = r.item]
    <2>1. Received(rx, r) = <<r.gen, c>>
      BY <1>5 DEF Received, old
    <2>2. r.kind \in Kinds /\ r.item # 0
      BY <1>1, <1>5
    <2>3. c \in Clips /\ \A k \in Kinds : c[k] = IF k = r.kind THEN r.item ELSE old[k]
      BY <1>1, <1>3, <2>2 DEF Clips
    <2> HIDE DEF c
    <2>4. Brought(recs, r.gen, r.item)
      BY <2>2 DEF Brought
    <2>5. \A k \in Kinds : c[k] # 0 => Brought(recs, r.gen, c[k])
      BY <1>3, <2>3, <2>4
    <2> QED
      BY <1>2, <2>1, <2>3, <2>5 DEF Taken
  <1> QED
    BY <1>4, <1>5

\* So do all of them.
LEMMA TakeFacts ==
  ASSUME NEW recs \in Seq(WireRecords), Take(recs), TypeOK
  PROVE  Taken(recs, <<rx_gen', rx_items'>>)
  <1> DEFINE N == Len(recs)
             f == CHOOSE f : Receives(recs, f, N)
             T == {n \in 0..N : Taken(recs, f[n])}
  <1>1. N \in Nat /\ DOMAIN recs = 1..N
    OBVIOUS
  <1>2. Receives(recs, f, N)
    BY <1>1, ReceivesExists
  <1>3. rx_gen' = f[N][1] /\ rx_items' = f[N][2]
    BY DEF Take, Receives
  <1> HIDE DEF f, N
  <1>4. \A n \in 0..N : f[n] = IF n = 0 THEN <<rx_gen, rx_items>> ELSE Received(f[n - 1], recs[n])
    BY <1>2 DEF Receives
  <1>5. Taken(recs, <<rx_gen, rx_items>>)
    BY DEF Taken, Brought, TypeOK
  <1>6. 0 \in T /\ T \in SUBSET (0..N)
    BY <1>1, <1>4, <1>5
  <1>7. ASSUME NEW n \in 1..N, n - 1 \in T PROVE n \in T
    <2>1. Taken(recs, Received(f[n - 1], recs[n]))
      BY <1>1, <1>7, ReceivedFacts
    <2>2. f[n] = Received(f[n - 1], recs[n])
      BY <1>1, <1>4
    <2> QED
      BY <1>1, <2>1, <2>2
  <1>8. N \in T
    <2> HIDE DEF T
    <2> QED
      BY <1>1, <1>6, <1>7, CountingUp
  <1> QED
    BY <1>3, <1>8 DEF Taken

-----------------------------------------------------------------------------
(* Types.                                                                  *)

DeskTyped ==
    /\ store \in Clips /\ items \in Clips
    /\ readers \subseteq Kinds \X (1..copies)
    /\ gen \in 0..GenMax
    /\ emptied \in BOOLEAN /\ mixed \in BOOLEAN /\ copies \in 0..MaxCopies
WireTyped ==
    /\ down \in Seq(WireRecords) /\ up \in Seq(WireRecords)
    /\ last_rx \in 0..GenMax
    /\ connected \in BOOLEAN
    /\ ~ connected => up = <<>>
AppTyped ==
    /\ rx_items \in Clips /\ pb \in Clips /\ echo \in [Links -> Clips]
    /\ rx_gen \in 0..GenMax /\ tx_gen \in 0..GenMax
    /\ queue \in Seq(Jobs)
    /\ link \in {"closed", "idle", "connecting", "adopting", "open"}
    /\ detaches \in 0..MaxDetach
    /\ object = detaches - (IF link = "closed" THEN 1 ELSE 0)
    /\ deferred \in BOOLEAN /\ changed \in BOOLEAN /\ alone \in BOOLEAN

\* The three parts of the type invariant.
LEMMA TypeParts == TypeOK <=> DeskTyped /\ WireTyped /\ AppTyped
  BY DEF TypeOK, DeskTyped, WireTyped, AppTyped

\* The same of the next state.
LEMMA TypePartsNext == DeskTyped' /\ WireTyped' /\ AppTyped' => TypeOK'
  BY DEF TypeOK, DeskTyped, WireTyped, AppTyped

\* The initial state is well typed.
LEMMA TypeInit == Init => TypeOK
  <1> SUFFICES ASSUME Init PROVE TypeOK
    OBVIOUS
  <1>1. DeskTyped
    <2>1. store \in Clips /\ items \in Clips
      BY ClipFacts DEF Init
    <2>2. gen \in 0..GenMax /\ copies \in 0..MaxCopies
      BY ConstantsAreFinite DEF Init
    <2>3. emptied \in BOOLEAN /\ mixed \in BOOLEAN /\ readers = {}
      BY DEF Init
    <2> QED
      BY <2>1, <2>2, <2>3 DEF DeskTyped
  <1>3. WireTyped
    <2>1. down \in Seq(WireRecords) /\ up \in Seq(WireRecords) /\ up = <<>>
      BY DEF Init
    <2>2. last_rx \in 0..GenMax
      BY ConstantsAreFinite DEF Init
    <2>3. connected \in BOOLEAN
      BY DEF Init
    <2> QED
      BY <2>1, <2>2, <2>3 DEF WireTyped
  <1>2. AppTyped
    BY ClipFacts, ConstantsAreFinite DEF Init, AppTyped, Links
  <1> QED
    BY <1>1, <1>2, <1>3, TypeParts

\* The history of what was under way is a Boolean.
LEMMA HistoryFacts ==
  ASSUME TypeOK
  PROVE  /\ Quiet \in BOOLEAN /\ PushUnderWay \in BOOLEAN /\ ComesRound \in BOOLEAN
         /\ (Quiet /\ restarts = 0) \in BOOLEAN /\ (alone /\ Quiet) \in BOOLEAN
         /\ (mixed \/ PushUnderWay \/ ComesRound) \in BOOLEAN
         /\ (mixed \/ (gen' # gen /\ ComesRound)) \in BOOLEAN
         /\ (mixed \/ rx_gen # 0 \/ down # <<>>) \in BOOLEAN
  <1>1. alone \in BOOLEAN /\ mixed \in BOOLEAN /\ changed \in BOOLEAN /\ deferred \in BOOLEAN
        /\ connected \in BOOLEAN
    BY DEF TypeOK
  <1>2. Quiet \in BOOLEAN /\ PushUnderWay \in BOOLEAN /\ ComesRound \in BOOLEAN
    BY <1>1 DEF Quiet, PushUnderWay, ComesRound
  <1> QED
    BY <1>1, <1>2

\* A user's action is counted, within its bound.
LEMMA UserFacts ==
  ASSUME TypeOK, UserCopies \/ (UserActs /\ alone' = (alone /\ Quiet))
  PROVE  /\ copies' = copies + 1 /\ copies' \in 1..MaxCopies /\ alone' \in BOOLEAN
         /\ detaches' = detaches
         /\ copies' \in (- MaxCopies)..MaxCopies /\ - copies' \in (- MaxCopies)..MaxCopies
  <1>1. UserActs
    BY DEF UserCopies
  <1>2. alone' = (Quiet /\ restarts = 0) \/ alone' = (alone /\ Quiet)
    BY DEF UserCopies
  <1>3. alone' \in BOOLEAN
    BY <1>2, HistoryFacts
  <1>4. copies \in 0..MaxCopies /\ copies < MaxCopies /\ copies' = copies + 1 /\ detaches' = detaches
    BY <1>1 DEF UserActs, TypeOK
  <1> QED
    BY <1>3, <1>4, ConstantsAreFinite

\* A record sent by the bridge keeps the socket's type.
LEMMA BroadcastFacts ==
  ASSUME TypeOK, NEW recs \in Seq(WireRecords), Broadcast(recs)
  PROVE  /\ down' \in Seq(WireRecords)
         /\ down # <<>> => down' # <<>>
  BY DEF TypeOK, Broadcast

\* What a record makes of a clipboard of the bridge.
Added(c, r, first) ==
    IF r.kind = None THEN Empty
    ELSE [(IF first THEN Empty ELSE c) EXCEPT ![r.kind] = r.item]

\* It is a clipboard again, with the record's representation in it.
LEMMA AddedFacts ==
  ASSUME NEW c \in Clips, NEW r \in WireRecords, NEW first \in BOOLEAN
  PROVE  /\ Added(c, r, first) \in Clips
         /\ \A k \in Kinds : Added(c, r, first)[k] =
               IF r.kind = None THEN 0
               ELSE IF k = r.kind THEN r.item ELSE IF first THEN 0 ELSE c[k]
  <1> DEFINE old == IF first THEN Empty ELSE c
  <1>1. old \in Clips /\ \A k \in Kinds : old[k] = IF first THEN 0 ELSE c[k]
    BY ClipFacts
  <1>2. r.item \in (- MaxCopies)..MaxCopies /\ (r.kind # None => r.kind \in Kinds)
    BY DEF WireRecords
  <1> HIDE DEF old
  <1>3. CASE r.kind = None
    BY <1>3, ClipFacts DEF Added
  <1>4. CASE r.kind # None
    <2>1. Added(c, r, first) = [old EXCEPT ![r.kind] = r.item]
      BY <1>4 DEF Added, old
    <2> QED
      BY <1>1, <1>2, <1>4, <2>1 DEF Clips
  <1> QED
    BY <1>3, <1>4

\* HandleRecord spelt out.
LEMMA HandleEffect ==
  ASSUME TypeOK, HandleRecord
  PROVE  LET r == Head(up)
             first == Head(up).gen # last_rx
         IN  /\ r \in WireRecords /\ up # <<>> /\ connected /\ up' = Tail(up) /\ last_rx' = r.gen
             /\ items' = Added(items, r, first) /\ store' = Added(store, r, first)
             /\ readers' = (IF first \/ r.kind = None THEN {} ELSE readers)
             /\ gen' = (IF first \/ r.kind = None THEN NextGen(gen) ELSE gen)
             /\ emptied' = (emptied /\ ~ first /\ r.kind # None)
             /\ mixed' = (mixed \/ (gen' # gen /\ ComesRound))
             /\ UNCHANGED <<connected, down, app, paste, bounds, alone>>
  BY DEF HandleRecord, Mirror, Added, TypeOK

\* The replay on connect: the records of what the bridge holds.
LEMMA ReplayFacts ==
  ASSUME TypeOK, GenInv
  PROVE  /\ Records(items, gen) \in Seq(WireRecords)
         /\ \A i \in DOMAIN Records(items, gen) :
               /\ Records(items, gen)[i].gen = gen /\ Records(items, gen)[i].item # 0
               /\ \E k \in Kinds : Records(items, gen)[i].item = items[k]
         /\ items # Empty => Records(items, gen) # <<>>
  <1>1. CASE gen = 0
    <2>1. SetKinds(items) = {} /\ items = Empty
      BY <1>1 DEF GenInv, SetKinds, Empty
    <2>2. Records(items, gen) = <<>>
      BY <2>1, FS_EmptySet DEF Records
    <2> QED
      BY <2>1, <2>2
  <1>2. CASE gen # 0
    <2>1. gen \in 1..GenMax /\ items \in Clips
      BY <1>2, ConstantsAreFinite DEF TypeOK
    <2> QED
      BY <2>1, RecordsFacts
  <1> QED
    BY <1>1, <1>2

\* What the serial queue runs, and what it leaves of itself.
LEMMA JobFacts ==
  ASSUME TypeOK, queue # <<>>
  PROVE  /\ Head(queue) \in Jobs /\ Tail(queue) \in Seq(Jobs)
         /\ Head(queue).object \in Links
         /\ Head(queue).op \in {"echo", "push"} => Head(queue).content \in Clips
         /\ Head(queue).op = "push" => Head(queue).onConnect \in BOOLEAN
  BY DEF TypeOK, Jobs

\* What a push writes.
Sent(job) ==
    IF job.content = Empty
    THEN IF job.onConnect THEN <<>> ELSE <<Record(None, NextGen(tx_gen), 0)>>
    ELSE IF job.onConnect \/ job.content # echo[job.object]
         THEN Records(job.content, NextGen(tx_gen)) ELSE <<>>

\* The records of a push are of one new generation, and but for a clear, which
\* is alone, they carry what the pasteboard held.
LEMMA SentFacts ==
  ASSUME TypeOK, NEW job, job.content \in Clips
  PROVE  /\ Sent(job) \in Seq(WireRecords)
         /\ \A i \in DOMAIN Sent(job) : Sent(job)[i].gen = NextGen(tx_gen)
         /\ \/ Len(Sent(job)) \in {0, 1}
            \/ \A i \in DOMAIN Sent(job) : /\ Sent(job)[i].item # 0
                                           /\ \E k \in Kinds : Sent(job)[i].item = job.content[k]
  <1>1. NextGen(tx_gen) \in 1..GenMax
    BY NextGenFacts DEF TypeOK
  <1>2. Record(None, NextGen(tx_gen), 0) \in WireRecords
    BY <1>1, ConstantsAreFinite DEF Record, WireRecords
  <1>3. CASE Sent(job) = <<>>
    BY <1>3
  <1>4. CASE Sent(job) = <<Record(None, NextGen(tx_gen), 0)>>
    BY <1>2, <1>4 DEF Record
  <1>5. CASE Sent(job) = Records(job.content, NextGen(tx_gen))
    BY <1>1, <1>5, RecordsFacts
  <1> QED
    BY <1>3, <1>4, <1>5 DEF Sent

\* RunQueue spelt out.
LEMMA RunEffect ==
  ASSUME RunQueue
  PROVE  LET job == Head(queue)
         IN  /\ queue # <<>> /\ queue' = Tail(queue)
             /\ UNCHANGED <<desktop, object, rx_gen, rx_items, deferred, paste, bounds, alone>>
             /\ \/ /\ job.op = "echo" /\ Remember(job) /\ UNCHANGED <<socket, tx_gen, link>>
                \/ /\ job.op = "push" /\ Remember(job)
                   /\ tx_gen' = (IF Sent(job) = <<>> THEN tx_gen ELSE NextGen(tx_gen))
                   /\ up' = (IF connected THEN up \o Sent(job) ELSE up)
                   /\ UNCHANGED <<connected, last_rx, down, link>>
                \/ /\ job.op = "connect" /\ job.object = object /\ link = "connecting"
                   /\ connected' = TRUE /\ last_rx' = 0 /\ down' = Records(items, gen)
                   /\ up' = <<>> /\ link' = "adopting"
                   /\ UNCHANGED <<echo, tx_gen>>
                \/ /\ job.op = "connect" /\ UNCHANGED <<socket, link, echo, tx_gen>>
                \/ /\ job.op = "close" /\ Closed /\ UNCHANGED <<echo, tx_gen, link>>
  BY DEF RunQueue, Send, Hello, Sent

\* Every step keeps the types.
LEMMA TypeStep == TypeOK /\ GenInv /\ [Next]_vars => TypeOK'
  <1> SUFFICES ASSUME TypeOK, GenInv, [Next]_vars PROVE TypeOK'
    OBVIOUS
  <1> USE DEF desktop, socket, app, paste, bounds
  <1>0. DeskTyped /\ WireTyped /\ AppTyped
    BY TypeParts
  <1>g. NextGen(gen) \in 0..GenMax /\ NextGen(gen) \in 1..GenMax
    BY <1>0, NextGenFacts DEF DeskTyped
  <1>c. Record(None, NextGen(gen), 0) \in WireRecords
    BY <1>g, ConstantsAreFinite DEF Record, WireRecords
  <1>1. ASSUME NEW ks \in SUBSET Kinds, DesktopCopy(ks) PROVE TypeOK'
    <2>1. DeskTyped'
      <3>1. store' \in Clips /\ items' \in Clips
        BY <1>0, <1>1, <1>g, UserFacts, ClipFacts, HistoryFacts,
           ConstantsAreFinite DEF DesktopCopy, Ingest, DeskTyped
      <3>2. gen' \in 0..GenMax /\ copies' \in 0..MaxCopies
        BY <1>0, <1>1, <1>g, UserFacts, ClipFacts, HistoryFacts,
           ConstantsAreFinite DEF DesktopCopy, Ingest, DeskTyped
      <3>3. emptied' \in BOOLEAN /\ mixed' \in BOOLEAN
        BY <1>0, <1>1, <1>g, UserFacts, ClipFacts, HistoryFacts,
           ConstantsAreFinite DEF DesktopCopy, Ingest, DeskTyped
      <3>4. readers' \subseteq Kinds \X (1..copies')
        BY <1>0, <1>1, <1>g, UserFacts, ClipFacts, HistoryFacts,
           ConstantsAreFinite DEF DesktopCopy, Ingest, DeskTyped
      <3> QED
        BY <3>1, <3>2, <3>3, <3>4 DEF DeskTyped
    <2>2. WireTyped' /\ AppTyped'
      BY <1>0, <1>1, UserFacts DEF DesktopCopy, WireTyped, AppTyped
    <2> QED
      BY <2>1, <2>2, TypePartsNext
  <1>2. ASSUME NEW r \in readers, ReadDone(r) PROVE TypeOK'
    <2>1. r[1] \in Kinds /\ r[2] \in 1..copies /\ gen \in 1..GenMax
      BY <1>0, <1>2 DEF DeskTyped, GenInv
    <2>2. r[2] \in (- MaxCopies)..MaxCopies /\ r[2] # 0
      BY <1>0, <2>1, ConstantsAreFinite DEF DeskTyped
    <2>3. Record(r[1], gen, r[2]) \in WireRecords
      BY <2>1, <2>2, ConstantsAreFinite DEF Record, WireRecords
    <2>4. store' \in Clips /\ items' \in Clips
      BY <1>0, <1>2, <2>1, <2>2 DEF ReadDone, DeskTyped, Clips
    <2>5. DeskTyped'
      BY <1>0, <1>2, <2>4 DEF ReadDone, DeskTyped
    <2>6. WireTyped'
      <3>1. down' \in Seq(WireRecords) /\ up' \in Seq(WireRecords)
        <4>1. Broadcast(<<Record(r[1], gen, r[2])>>) /\ up' = up
          BY <1>2 DEF ReadDone
        <4>2. <<Record(r[1], gen, r[2])>> \in Seq(WireRecords)
          BY <2>3
        <4> QED
          BY <1>0, <4>1, <4>2, BroadcastFacts DEF WireTyped
      <3>2. last_rx' \in 0..GenMax
        BY <1>0, <1>2, <2>3, BroadcastFacts DEF ReadDone, WireTyped
      <3>3. connected' \in BOOLEAN
        BY <1>0, <1>2, <2>3, BroadcastFacts DEF ReadDone, WireTyped
      <3>4. connected' \/ up' = <<>>
        BY <1>0, <1>2, <2>3, BroadcastFacts DEF ReadDone, WireTyped
      <3> QED
        BY <3>1, <3>2, <3>3, <3>4 DEF WireTyped
    <2>7. AppTyped'
      BY <1>0, <1>2 DEF ReadDone, AppTyped
    <2> QED
      BY <2>5, <2>6, <2>7, TypePartsNext
  <1>3. ASSUME NEW r \in readers, ReadFails(r) PROVE TypeOK'
    BY <1>0, <1>3, TypePartsNext DEF ReadFails, DeskTyped, WireTyped, AppTyped
  <1>4. CASE DesktopClear
    <2>1. DeskTyped'
      <3>1. store' \in Clips /\ items' \in Clips
        BY <1>0, <1>4, <1>g, UserFacts, ClipFacts, HistoryFacts,
           ConstantsAreFinite DEF DesktopClear, DeskTyped
      <3>2. gen' \in 0..GenMax /\ copies' \in 0..MaxCopies
        BY <1>0, <1>4, <1>g, UserFacts, ClipFacts, HistoryFacts,
           ConstantsAreFinite DEF DesktopClear, DeskTyped
      <3>3. emptied' \in BOOLEAN /\ mixed' \in BOOLEAN
        BY <1>0, <1>4, <1>g, UserFacts, ClipFacts, HistoryFacts,
           ConstantsAreFinite DEF DesktopClear, DeskTyped
      <3>4. readers' \subseteq Kinds \X (1..copies')
        BY <1>0, <1>4, <1>g, UserFacts, ClipFacts, HistoryFacts,
           ConstantsAreFinite DEF DesktopClear, DeskTyped
      <3> QED
        BY <3>1, <3>2, <3>3, <3>4 DEF DeskTyped
    <2>2. WireTyped'
      <3>1. down' \in Seq(WireRecords) /\ up' \in Seq(WireRecords)
        <4>1. Broadcast(<<Record(None, NextGen(gen), 0)>>) /\ up' = up
          BY <1>4 DEF DesktopClear
        <4>2. <<Record(None, NextGen(gen), 0)>> \in Seq(WireRecords)
          BY <1>c
        <4> QED
          BY <1>0, <4>1, <4>2, BroadcastFacts DEF WireTyped
      <3>2. last_rx' \in 0..GenMax
        BY <1>0, <1>4, <1>c, BroadcastFacts DEF DesktopClear, WireTyped
      <3>3. connected' \in BOOLEAN
        BY <1>0, <1>4, <1>c, BroadcastFacts DEF DesktopClear, WireTyped
      <3>4. connected' \/ up' = <<>>
        BY <1>0, <1>4, <1>c, BroadcastFacts DEF DesktopClear, WireTyped
      <3> QED
        BY <3>1, <3>2, <3>3, <3>4 DEF WireTyped
    <2>3. AppTyped'
      BY <1>0, <1>4, UserFacts DEF DesktopClear, AppTyped
    <2> QED
      BY <2>1, <2>2, <2>3, TypePartsNext
  <1>5. CASE DataControlEmpty
    <2>1. DeskTyped'
      BY <1>0, <1>5, UserFacts, ClipFacts, ConstantsAreFinite DEF DataControlEmpty, DeskTyped
    <2>2. WireTyped' /\ AppTyped'
      BY <1>0, <1>5, UserFacts DEF DataControlEmpty, WireTyped, AppTyped
    <2> QED
      BY <2>1, <2>2, TypePartsNext
  <1>6. CASE HandleRecord
    <2> DEFINE r == Head(up)
               first == Head(up).gen # last_rx
    <2>1. first \in BOOLEAN /\ r \in WireRecords /\ r.gen \in 0..GenMax
      BY <1>6, HandleEffect, ConstantsAreFinite DEF WireRecords
    <2>2. items' \in Clips /\ store' \in Clips
      BY <1>0, <1>6, <2>1, HandleEffect, AddedFacts DEF DeskTyped
    <2>3. DeskTyped'
      BY <1>0, <1>6, <1>g, <2>2, HandleEffect, HistoryFacts DEF DeskTyped
    <2>4. WireTyped'
      BY <1>0, <1>6, <2>1, HandleEffect DEF WireTyped
    <2>5. AppTyped'
      BY <1>0, <1>6, HandleEffect DEF AppTyped
    <2> QED
      BY <2>3, <2>4, <2>5, TypePartsNext
  <1>7. CASE ServerDrop
    <2>1. DeskTyped'
      BY <1>0, <1>7 DEF ServerDrop, DeskTyped
    <2>2. WireTyped'
      <3>1. down' \in Seq(WireRecords) /\ up' \in Seq(WireRecords)
        BY <1>0, <1>7 DEF ServerDrop, ClientDrop, WireTyped
      <3>2. last_rx' \in 0..GenMax
        BY <1>0, <1>7 DEF ServerDrop, ClientDrop, WireTyped
      <3>3. connected' \in BOOLEAN
        BY <1>0, <1>7 DEF ServerDrop, ClientDrop, WireTyped
      <3>4. connected' \/ up' = <<>>
        BY <1>0, <1>7 DEF ServerDrop, ClientDrop, WireTyped
      <3> QED
        BY <3>1, <3>2, <3>3, <3>4 DEF WireTyped
    <2>3. AppTyped'
      <3>1. rx_items' \in Clips /\ pb' \in Clips /\ echo' \in [Links -> Clips]
        BY <1>0, <1>7, HistoryFacts DEF ServerDrop, AppTyped
      <3>2. rx_gen' \in 0..GenMax /\ tx_gen' \in 0..GenMax
        BY <1>0, <1>7, HistoryFacts DEF ServerDrop, AppTyped
      <3>3. queue' \in Seq(Jobs)
        BY <1>0, <1>7, HistoryFacts DEF ServerDrop, AppTyped
      <3>4. /\ link' \in {"closed", "idle", "connecting", "adopting", "open"}
            /\ detaches' \in 0..MaxDetach
            /\ object' = detaches' - (IF link' = "closed" THEN 1 ELSE 0)
        BY <1>0, <1>7, HistoryFacts DEF ServerDrop, AppTyped
      <3>5. deferred' \in BOOLEAN /\ changed' \in BOOLEAN /\ alone' \in BOOLEAN
        BY <1>0, <1>7, HistoryFacts DEF ServerDrop, AppTyped
      <3> QED
        BY <3>1, <3>2, <3>3, <3>4, <3>5 DEF AppTyped
    <2> QED
      BY <2>1, <2>2, <2>3, TypePartsNext
  <1>8. CASE CompositorRestart
    <2>1. DeskTyped'
      <3>1. store' \in Clips /\ items' \in Clips
        BY <1>0, <1>8, ClipFacts, HistoryFacts, ConstantsAreFinite DEF CompositorRestart,
           DeskTyped
      <3>2. gen' \in 0..GenMax /\ copies' \in 0..MaxCopies
        BY <1>0, <1>8, ClipFacts, HistoryFacts, ConstantsAreFinite DEF CompositorRestart,
           DeskTyped
      <3>3. emptied' \in BOOLEAN /\ mixed' \in BOOLEAN
        BY <1>0, <1>8, ClipFacts, HistoryFacts, ConstantsAreFinite DEF CompositorRestart,
           DeskTyped
      <3>4. readers' \subseteq Kinds \X (1..copies')
        BY <1>0, <1>8, ClipFacts, HistoryFacts, ConstantsAreFinite DEF CompositorRestart,
           DeskTyped
      <3> QED
        BY <3>1, <3>2, <3>3, <3>4 DEF DeskTyped
    <2>2. WireTyped'
      <3>1. down' \in Seq(WireRecords) /\ up' \in Seq(WireRecords)
        BY <1>0, <1>8 DEF CompositorRestart, ClientDrop, WireTyped
      <3>2. last_rx' \in 0..GenMax
        BY <1>0, <1>8 DEF CompositorRestart, ClientDrop, WireTyped
      <3>3. connected' \in BOOLEAN
        BY <1>0, <1>8 DEF CompositorRestart, ClientDrop, WireTyped
      <3>4. connected' \/ up' = <<>>
        BY <1>0, <1>8 DEF CompositorRestart, ClientDrop, WireTyped
      <3> QED
        BY <3>1, <3>2, <3>3, <3>4 DEF WireTyped
    <2>3. AppTyped'
      BY <1>0, <1>8 DEF CompositorRestart, AppTyped
    <2> QED
      BY <2>1, <2>2, <2>3, TypePartsNext
  <1>9. ASSUME NEW ks \in SUBSET Kinds, IOSCopy(ks) PROVE TypeOK'
    <2>1. DeskTyped'
      BY <1>0, <1>9, UserFacts, ConstantsAreFinite DEF IOSCopy, DeskTyped
    <2>2. WireTyped'
      BY <1>0, <1>9 DEF IOSCopy, WireTyped
    <2>3. pb' \in Clips
      BY <1>9, UserFacts, ClipFacts DEF IOSCopy
    <2>4. AppTyped'
      BY <1>0, <1>9, <2>3, UserFacts DEF IOSCopy, AppTyped
    <2> QED
      BY <2>1, <2>2, <2>4, TypePartsNext
  <1>10. CASE IOSTouch
    <2>1. DeskTyped'
      BY <1>0, <1>10, UserFacts, ConstantsAreFinite DEF IOSTouch, DeskTyped
    <2>2. WireTyped' /\ AppTyped'
      BY <1>0, <1>10, UserFacts DEF IOSTouch, WireTyped, AppTyped
    <2> QED
      BY <2>1, <2>2, TypePartsNext
  <1>o. link # "closed" => object \in Links
    BY <1>0 DEF AppTyped, Links
  <1>11. CASE ConnectStart
    <2>1. [op |-> "connect", object |-> object] \in Jobs
      BY <1>o, <1>11 DEF ConnectStart, Jobs
    <2>2. AppTyped'
      BY <1>0, <1>11, <2>1 DEF ConnectStart, AppTyped
    <2>3. DeskTyped' /\ WireTyped'
      BY <1>0, <1>11 DEF ConnectStart, DeskTyped, WireTyped
    <2> QED
      BY <2>2, <2>3, TypePartsNext
  <1>12. CASE Adopt
    BY <1>0, <1>12, TypePartsNext DEF Adopt, DeskTyped, WireTyped, AppTyped
  <1>13. CASE LinkLost
    <2>1. PICK n \in 0..Len(down) : Take(SubSeq(down, 1, n))
      BY <1>13 DEF LinkLost
    <2>2. SubSeq(down, 1, n) \in Seq(WireRecords)
      BY <1>0 DEF WireTyped
    <2>3. rx_gen' \in 0..GenMax /\ rx_items' \in Clips
      BY <2>1, <2>2, TakeFacts DEF Taken
    <2>4. [op |-> "close", object |-> object] \in Jobs
      BY <1>o, <1>13 DEF LinkLost, Jobs
    <2>5. AppTyped'
      <3>1. rx_items' \in Clips /\ pb' \in Clips /\ echo' \in [Links -> Clips]
        BY <1>0, <1>13, <2>3, <2>4 DEF LinkLost, AppTyped
      <3>2. rx_gen' \in 0..GenMax /\ tx_gen' \in 0..GenMax
        BY <1>0, <1>13, <2>3, <2>4 DEF LinkLost, AppTyped
      <3>3. queue' \in Seq(Jobs)
        BY <1>0, <1>13, <2>3, <2>4 DEF LinkLost, AppTyped
      <3>4. /\ link' \in {"closed", "idle", "connecting", "adopting", "open"}
            /\ detaches' \in 0..MaxDetach
            /\ object' = detaches' - (IF link' = "closed" THEN 1 ELSE 0)
        BY <1>0, <1>13, <2>3, <2>4 DEF LinkLost, AppTyped
      <3>5. deferred' \in BOOLEAN /\ changed' \in BOOLEAN /\ alone' \in BOOLEAN
        BY <1>0, <1>13, <2>3, <2>4 DEF LinkLost, AppTyped
      <3> QED
        BY <3>1, <3>2, <3>3, <3>4, <3>5 DEF AppTyped
    <2>6. DeskTyped' /\ WireTyped'
      BY <1>0, <1>13 DEF LinkLost, DeskTyped, WireTyped
    <2> QED
      BY <2>5, <2>6, TypePartsNext
  <1>14. CASE Receive
    <2>1. <<Head(down)>> \in Seq(WireRecords) /\ Tail(down) \in Seq(WireRecords)
      BY <1>0, <1>14 DEF WireTyped, Receive
    <2>2. rx_gen' \in 0..GenMax /\ rx_items' \in Clips
      BY <1>14, <2>1, TakeFacts DEF Taken, Receive
    <2>3. [op |-> "echo", object |-> object, content |-> rx_items'] \in Jobs
      BY <1>o, <1>14, <2>2 DEF Receive, Jobs
    <2>4. AppTyped'
      <3>1. rx_items' \in Clips /\ pb' \in Clips /\ echo' \in [Links -> Clips]
        BY <1>0, <1>14, <2>2, <2>3 DEF Receive, AppTyped
      <3>2. rx_gen' \in 0..GenMax /\ tx_gen' \in 0..GenMax
        BY <1>0, <1>14, <2>2, <2>3 DEF Receive, AppTyped
      <3>3. queue' \in Seq(Jobs)
        BY <1>0, <1>14, <2>2, <2>3 DEF Receive, AppTyped
      <3>4. /\ link' \in {"closed", "idle", "connecting", "adopting", "open"}
            /\ detaches' \in 0..MaxDetach
            /\ object' = detaches' - (IF link' = "closed" THEN 1 ELSE 0)
        BY <1>0, <1>14, <2>2, <2>3 DEF Receive, AppTyped
      <3>5. deferred' \in BOOLEAN /\ changed' \in BOOLEAN /\ alone' \in BOOLEAN
        BY <1>0, <1>14, <2>2, <2>3 DEF Receive, AppTyped
      <3> QED
        BY <3>1, <3>2, <3>3, <3>4, <3>5 DEF AppTyped
    <2>5. DeskTyped' /\ WireTyped'
      BY <1>0, <1>14, <2>1 DEF Receive, DeskTyped, WireTyped
    <2> QED
      BY <2>4, <2>5, TypePartsNext
  <1>15. CASE PushChanged \/ PushDeferred
    <2>1. PICK b \in BOOLEAN : Push(b) /\ link = "open"
      BY <1>15 DEF PushChanged, PushDeferred
    <2>2. [op |-> "push", object |-> object, content |-> pb, onConnect |-> b] \in Jobs
      BY <1>o, <1>0, <2>1 DEF Jobs, AppTyped
    <2>3. deferred' \in BOOLEAN /\ alone' \in BOOLEAN
      BY <1>0, <1>15 DEF PushChanged, PushDeferred, AppTyped
    <2>4. AppTyped'
      <3>1. rx_items' \in Clips /\ pb' \in Clips /\ echo' \in [Links -> Clips]
        BY <1>0, <2>1, <2>2, <2>3 DEF Push, AppTyped
      <3>2. rx_gen' \in 0..GenMax /\ tx_gen' \in 0..GenMax
        BY <1>0, <2>1, <2>2, <2>3 DEF Push, AppTyped
      <3>3. queue' \in Seq(Jobs)
        BY <1>0, <2>1, <2>2, <2>3 DEF Push, AppTyped
      <3>4. /\ link' \in {"closed", "idle", "connecting", "adopting", "open"}
            /\ detaches' \in 0..MaxDetach
            /\ object' = detaches' - (IF link' = "closed" THEN 1 ELSE 0)
        BY <1>0, <2>1, <2>2, <2>3 DEF Push, AppTyped
      <3>5. deferred' \in BOOLEAN /\ changed' \in BOOLEAN /\ alone' \in BOOLEAN
        BY <1>0, <2>1, <2>2, <2>3 DEF Push, AppTyped
      <3> QED
        BY <3>1, <3>2, <3>3, <3>4, <3>5 DEF AppTyped
    <2>5. DeskTyped' /\ WireTyped'
      BY <1>0, <2>1 DEF Push, DeskTyped, WireTyped
    <2> QED
      BY <2>4, <2>5, TypePartsNext
  <1>16. CASE Detach
    <2>1. [op |-> "close", object |-> object] \in Jobs
      BY <1>o, <1>16 DEF Detach, Jobs
    <2>2. queue' \in Seq(Jobs)
      BY <1>0, <1>16, <2>1 DEF Detach, AppTyped
    <2>3. AppTyped'
      <3>1. rx_items' \in Clips /\ pb' \in Clips /\ echo' \in [Links -> Clips]
        BY <1>0, <1>16, <2>2, HistoryFacts, ConstantsAreFinite DEF Detach, AppTyped
      <3>2. rx_gen' \in 0..GenMax /\ tx_gen' \in 0..GenMax
        BY <1>0, <1>16, <2>2, HistoryFacts, ConstantsAreFinite DEF Detach, AppTyped
      <3>3. queue' \in Seq(Jobs)
        BY <1>0, <1>16, <2>2, HistoryFacts, ConstantsAreFinite DEF Detach, AppTyped
      <3>4. /\ link' \in {"closed", "idle", "connecting", "adopting", "open"}
            /\ detaches' \in 0..MaxDetach
            /\ object' = detaches' - (IF link' = "closed" THEN 1 ELSE 0)
        BY <1>0, <1>16, <2>2, HistoryFacts, ConstantsAreFinite DEF Detach, AppTyped
      <3>5. deferred' \in BOOLEAN /\ changed' \in BOOLEAN /\ alone' \in BOOLEAN
        BY <1>0, <1>16, <2>2, HistoryFacts, ConstantsAreFinite DEF Detach, AppTyped
      <3> QED
        BY <3>1, <3>2, <3>3, <3>4, <3>5 DEF AppTyped
    <2>4. DeskTyped' /\ WireTyped'
      BY <1>0, <1>16 DEF Detach, DeskTyped, WireTyped
    <2> QED
      BY <2>3, <2>4, TypePartsNext
  <1>17. CASE Present
    <2>1. AppTyped'
      <3>1. rx_items' \in Clips /\ pb' \in Clips /\ echo' \in [Links -> Clips]
        BY <1>0, <1>17, ClipFacts, ConstantsAreFinite DEF Present, AppTyped
      <3>2. rx_gen' \in 0..GenMax /\ tx_gen' \in 0..GenMax
        BY <1>0, <1>17, ClipFacts, ConstantsAreFinite DEF Present, AppTyped
      <3>3. queue' \in Seq(Jobs)
        BY <1>0, <1>17, ClipFacts, ConstantsAreFinite DEF Present, AppTyped
      <3>4. /\ link' \in {"closed", "idle", "connecting", "adopting", "open"}
            /\ detaches' \in 0..MaxDetach
            /\ object' = detaches' - (IF link' = "closed" THEN 1 ELSE 0)
        BY <1>0, <1>17, ClipFacts, ConstantsAreFinite DEF Present, AppTyped
      <3>5. deferred' \in BOOLEAN /\ changed' \in BOOLEAN /\ alone' \in BOOLEAN
        BY <1>0, <1>17, ClipFacts, ConstantsAreFinite DEF Present, AppTyped
      <3> QED
        BY <3>1, <3>2, <3>3, <3>4, <3>5 DEF AppTyped
    <2>2. DeskTyped' /\ WireTyped'
      BY <1>0, <1>17 DEF Present, DeskTyped, WireTyped
    <2> QED
      BY <2>1, <2>2, TypePartsNext
  <1>18. CASE RunQueue
    <2> DEFINE job == Head(queue)
    <2>1. job.object \in Links /\ Tail(queue) \in Seq(Jobs) /\ queue' = Tail(queue)
      BY <1>18, RunEffect, JobFacts
    <2>2. DeskTyped'
      BY <1>0, <1>18, RunEffect DEF DeskTyped
    <2>3. /\ UNCHANGED <<object, rx_gen, rx_items, deferred, pb, changed, detaches, alone>>
          /\ link' = link \/ (link = "connecting" /\ link' = "adopting")
      BY <1>18, RunEffect
    <2>4. echo' \in [Links -> Clips] /\ tx_gen' \in 0..GenMax
      <3>1. NextGen(tx_gen) \in 0..GenMax
        BY <1>0, NextGenFacts DEF AppTyped
      <3>2. tx_gen' \in 0..GenMax
        BY <1>0, <3>1, <1>18, RunEffect DEF AppTyped
      <3>3. echo' = echo \/ (Remember(job) /\ job.content \in Clips)
        BY <1>18, RunEffect, JobFacts
      <3> QED
        BY <1>0, <2>1, <3>2, <3>3 DEF AppTyped, Remember
    <2>5. AppTyped'
      BY <1>0, <2>1, <2>3, <2>4 DEF AppTyped
    <2>6. WireTyped'
      <3>1. CASE job.op = "push"
        <4>1. Sent(job) \in Seq(WireRecords)
          BY <3>1, <1>18, JobFacts, SentFacts, RunEffect
        <4>2. /\ up' = (IF connected THEN up \o Sent(job) ELSE up)
              /\ UNCHANGED <<connected, last_rx, down>>
          BY <3>1, <1>18, RunEffect
        <4>3. up' \in Seq(WireRecords) /\ (~connected => up' = <<>>)
          BY <1>0, <4>1, <4>2 DEF WireTyped
        <4> QED
          BY <1>0, <4>2, <4>3 DEF WireTyped
      <3>2. CASE job.op = "connect"
        <4>1. \/ UNCHANGED socket
              \/ /\ connected' = TRUE /\ last_rx' = 0 /\ down' = Records(items, gen)
                 /\ up' = <<>>
          BY <3>2, <1>18, RunEffect
        <4>2. CASE UNCHANGED socket
          BY <1>0, <4>2 DEF WireTyped
        <4>3. CASE /\ connected' = TRUE /\ last_rx' = 0 /\ down' = Records(items, gen)
                   /\ up' = <<>>
          <5>1. down' \in Seq(WireRecords) /\ up' \in Seq(WireRecords)
            BY <4>3, ReplayFacts
          <5>2. last_rx' \in 0..GenMax
            BY <4>3, ConstantsAreFinite
          <5>3. connected' \in BOOLEAN /\ connected'
            BY <4>3
          <5> QED
            BY <5>1, <5>2, <5>3 DEF WireTyped
        <4> QED
          BY <4>1, <4>2, <4>3
      <3>3. CASE job.op = "echo" \/ job.op = "close"
        <4>1. UNCHANGED socket \/ Closed
          BY <3>3, <1>18, RunEffect
        <4>2. CASE UNCHANGED socket
          BY <1>0, <4>2 DEF WireTyped
        <4>3. CASE Closed
          <5>1. down' = <<>> /\ up' = <<>> /\ connected' = FALSE /\ UNCHANGED <<last_rx>>
            BY <4>3 DEF Closed
          <5>2. down' \in Seq(WireRecords) /\ up' \in Seq(WireRecords)
            BY <5>1
          <5>3. connected' \in BOOLEAN
            BY <5>1
          <5> QED
            BY <1>0, <5>1, <5>2, <5>3 DEF WireTyped
        <4> QED
          BY <4>1, <4>2, <4>3
      <3> QED
        BY <3>1, <3>2, <3>3, <1>18, RunEffect
    <2> QED
      BY <2>2, <2>5, <2>6, TypePartsNext
  <1>19. CASE UNCHANGED vars
    BY <1>0, <1>19, TypePartsNext DEF vars, DeskTyped, WireTyped, AppTyped
  <1> QED
    BY <1>1, <1>2, <1>3, <1>4, <1>5, <1>6, <1>7, <1>8, <1>9, <1>10, <1>11, <1>12, <1>13, <1>14,
       <1>15, <1>16, <1>17, <1>18, <1>19
       DEF Next, User, Bridge, Link, Faults, SourceRead

-----------------------------------------------------------------------------
(* The bridge's clipboard.                                                 *)

\* The steps that leave the desktop alone.
AppSide ==
    \/ ServerDrop \/ Detach \/ Present \/ ConnectStart \/ Adopt \/ LinkLost \/ Receive
    \/ PushChanged \/ PushDeferred \/ RunQueue \/ IOSTouch
    \/ \E ks \in SUBSET Kinds : IOSCopy(ks)

\* They do, and a connection they make starts without a generation received.
LEMMA AppSideFacts ==
  ASSUME AppSide
  PROVE  UNCHANGED desktop /\ (connected' => (connected /\ last_rx' = last_rx) \/ last_rx' = 0)
  <1>1. CASE RunQueue
    <2>1. UNCHANGED desktop
      BY <1>1, RunEffect
    <2>2. UNCHANGED <<connected, last_rx>> \/ last_rx' = 0 \/ connected' = FALSE
      BY <1>1, RunEffect DEF Closed, socket
    <2> QED
      BY <2>1, <2>2
  <1>2. CASE ~ RunQueue
    BY <1>2 DEF AppSide, ServerDrop, ClientDrop, Detach, Present, ConnectStart, Adopt,
       LinkLost, Receive,
       PushChanged, PushDeferred, Push, IOSTouch, IOSCopy, socket
  <1> QED
    BY <1>1, <1>2

\* Every step is one of the desktop's or leaves the desktop alone.
LEMMA NextSides ==
  ASSUME [Next]_vars
  PROVE  \/ \E ks \in SUBSET Kinds : DesktopCopy(ks)
         \/ \E r \in readers : ReadDone(r) \/ ReadFails(r)
         \/ DesktopClear \/ DataControlEmpty \/ HandleRecord \/ CompositorRestart
         \/ AppSide \/ UNCHANGED vars
  BY DEF Next, User, Bridge, Link, Faults, SourceRead, AppSide

\* Every step keeps the first generation's meaning.
LEMMA GenStep == TypeOK /\ GenInv /\ [Next]_vars => GenInv'
  <1> SUFFICES ASSUME TypeOK, GenInv, [Next]_vars PROVE GenInv'
    OBVIOUS
  <1> USE DEF desktop, socket
  <1>g. NextGen(gen) # 0
    BY NextGenFacts DEF TypeOK
  <1>1. ASSUME NEW ks, DesktopCopy(ks) PROVE GenInv'
    BY <1>1, <1>g DEF DesktopCopy, Ingest, GenInv
  <1>2. ASSUME NEW r \in readers, ReadDone(r) \/ ReadFails(r) PROVE GenInv'
    BY <1>2 DEF ReadDone, ReadFails, GenInv
  <1>3. CASE DesktopClear
    BY <1>3, <1>g DEF DesktopClear, GenInv
  <1>4. CASE DataControlEmpty
    BY <1>4 DEF DataControlEmpty, GenInv
  <1>5. CASE HandleRecord
    <2>1. Head(up).gen # 0 /\ connected
      BY <1>5, HandleEffect, ConstantsAreFinite DEF WireRecords
    <2>2. gen # 0 \/ Head(up).gen # last_rx
      BY <2>1 DEF GenInv
    <2>3. gen' # 0
      BY <1>5, <1>g, <2>2, HandleEffect
    <2> QED
      BY <2>3 DEF GenInv
  <1>6. CASE CompositorRestart
    BY <1>6 DEF CompositorRestart, ClientDrop, GenInv
  <1>7. CASE AppSide
    BY <1>7, AppSideFacts DEF GenInv
  <1>8. CASE UNCHANGED vars
    BY <1>8 DEF vars, GenInv
  <1> QED
    BY <1>1, <1>2, <1>3, <1>4, <1>5, <1>6, <1>7, <1>8, NextSides

\* The bridge's snapshot follows the store.
LEMMA SnapshotStep == TypeOK /\ SnapshotIsStore /\ [Next]_vars => SnapshotIsStore'
  <1> SUFFICES ASSUME TypeOK, SnapshotIsStore, [Next]_vars PROVE SnapshotIsStore'
    OBVIOUS
  <1>1. ASSUME NEW ks, DesktopCopy(ks) PROVE SnapshotIsStore'
    BY <1>1 DEF DesktopCopy, Ingest, SnapshotIsStore
  <1>2. ASSUME NEW r \in readers, ReadDone(r) \/ ReadFails(r) PROVE SnapshotIsStore'
    BY <1>2 DEF ReadDone, ReadFails, SnapshotIsStore
  <1>3. CASE DesktopClear
    BY <1>3 DEF DesktopClear, SnapshotIsStore
  <1>4. CASE DataControlEmpty
    BY <1>4 DEF DataControlEmpty, SnapshotIsStore
  <1>5. CASE HandleRecord
    <2>1. \/ ~ emptied
          \/ Head(up).gen # last_rx
          \/ Head(up).kind = None
          \/ emptied'
      BY <1>5, HandleEffect
    <2>2. ~ emptied => items' = store'
      BY <1>5, HandleEffect DEF SnapshotIsStore
    <2>3. Head(up).gen # last_rx \/ Head(up).kind = None => items' = store'
      BY <1>5, HandleEffect DEF Added
    <2> QED
      BY <2>1, <2>2, <2>3 DEF SnapshotIsStore
  <1>6. CASE CompositorRestart
    BY <1>6 DEF CompositorRestart, SnapshotIsStore
  <1>7. CASE AppSide
    BY <1>7, AppSideFacts DEF SnapshotIsStore, desktop
  <1>8. CASE UNCHANGED vars
    BY <1>8 DEF vars, SnapshotIsStore, desktop
  <1> QED
    BY <1>1, <1>2, <1>3, <1>4, <1>5, <1>6, <1>7, <1>8, NextSides

-----------------------------------------------------------------------------
(* The steps that leave the link's queue alone.                            *)

\* Those of the desktop, of the users and of the bridge.
DeskSide ==
    \/ \E ks \in SUBSET Kinds : DesktopCopy(ks) \/ IOSCopy(ks)
    \/ \E r \in readers : ReadDone(r) \/ ReadFails(r)
    \/ DesktopClear \/ DataControlEmpty \/ HandleRecord \/ CompositorRestart
    \/ ServerDrop \/ IOSTouch \/ UNCHANGED vars

\* They leave the link as it is.
LEMMA DeskSideFacts ==
  ASSUME DeskSide
  PROVE  UNCHANGED <<link, object, queue, deferred>>
  <1> USE DEF app
  <1>1. ASSUME NEW ks, DesktopCopy(ks) \/ IOSCopy(ks)
        PROVE  UNCHANGED <<link, object, queue, deferred>>
    BY <1>1 DEF DesktopCopy, IOSCopy
  <1>2. ASSUME NEW r \in readers, ReadDone(r) \/ ReadFails(r)
        PROVE  UNCHANGED <<link, object, queue, deferred>>
    BY <1>2 DEF ReadDone, ReadFails
  <1>3. ASSUME DesktopClear \/ DataControlEmpty \/ HandleRecord \/ IOSTouch \/ UNCHANGED vars
        PROVE  UNCHANGED <<link, object, queue, deferred>>
    BY <1>3 DEF DesktopClear, DataControlEmpty, HandleRecord, IOSTouch, vars
  <1>4. ASSUME CompositorRestart \/ ServerDrop
        PROVE  UNCHANGED <<link, object, queue, deferred>>
    BY <1>4 DEF CompositorRestart, ServerDrop
  <1> QED
    BY <1>1, <1>2, <1>3, <1>4 DEF DeskSide

\* Every step is one of these or one of the link's.
LEMMA LinkSides ==
  ASSUME [Next]_vars
  PROVE  \/ DeskSide \/ ConnectStart \/ Adopt \/ LinkLost \/ Receive \/ PushChanged
         \/ PushDeferred \/ Detach \/ Present \/ RunQueue
  BY DEF Next, User, Bridge, Link, Faults, SourceRead, DeskSide

-----------------------------------------------------------------------------
(* One copy per side.                                                      *)

\* What was mixed stays so.
LEMMA MixedStays ==
  ASSUME TypeOK, [Next]_vars, ~ mixed'
  PROVE  ~ mixed
  <1> USE DEF desktop
  <1>1. ASSUME NEW ks, DesktopCopy(ks) PROVE ~ mixed
    BY <1>1 DEF DesktopCopy, Ingest
  <1>2. ASSUME NEW r \in readers, ReadDone(r) \/ ReadFails(r) PROVE ~ mixed
    BY <1>2 DEF ReadDone, ReadFails
  <1>3. CASE DesktopClear \/ DataControlEmpty
    BY <1>3 DEF DesktopClear, DataControlEmpty
  <1>4. CASE HandleRecord
    BY <1>4, HandleEffect
  <1>5. CASE CompositorRestart
    BY <1>5 DEF CompositorRestart
  <1>6. CASE AppSide
    BY <1>6, AppSideFacts
  <1>7. CASE UNCHANGED vars
    BY <1>7 DEF vars
  <1> QED
    BY <1>1, <1>2, <1>3, <1>4, <1>5, <1>6, <1>7, NextSides

\* A step within a generation brings nothing to it, and to the app only what
\* the bridge has of it.
LEMMA DownKeep ==
  ASSUME DownInv, gen' = gen, \A n : InBridge(n)' => InBridge(n),
         \A g, n : InApp(g, n)' => InApp(g, n) \/ (g = gen /\ InBridge(n))
  PROVE  DownInv'
  <1>1. \A m, n : InBridge(m)' /\ InBridge(n)' => m = n
    BY DEF DownInv
  <1>2. \A g, m, n : g = gen' /\ InBridge(m)' /\ InApp(g, n)' => m = n
    BY DEF DownInv
  <1>3. \A g, m, n : InApp(g, m)' /\ InApp(g, n)' => m = n
    BY DEF DownInv
  <1> QED
    BY <1>1, <1>2, <1>3 DEF DownInv

\* A step to a generation the app knows nothing of brings one copy to it.
LEMMA DownFresh ==
  ASSUME DownInv, \A m, n : InBridge(m)' /\ InBridge(n)' => m = n,
         \A g, m, n : g = gen' /\ InBridge(m)' => ~ InApp(g, n),
         \A g, n : InApp(g, n)' => InApp(g, n)
  PROVE  DownInv'
  BY DEF DownInv

\* Nothing of the next generation is in the app unless generations come round.
LEMMA FreshFacts ==
  ASSUME TypeOK, ~ ComesRound, NEW g, g = NextGen(gen), NEW n
  PROVE  ~ InApp(g, n)
  BY DEF ComesRound, InApp

\* A broadcast adds to the app's generations what it carries.
LEMMA BroadcastInApp ==
  ASSUME TypeOK, NEW r \in WireRecords, Broadcast(<<r>>), UNCHANGED <<rx_gen, rx_items>>,
         NEW g, NEW n, InApp(g, n)'
  PROVE  InApp(g, n) \/ (g = r.gen /\ n = r.item /\ n # 0)
  <1>1. CASE UNCHANGED down
    BY <1>1 DEF InApp
  <1>2. CASE down' = down \o <<r>>
    <2>1. \A i \in DOMAIN down' : (i \in DOMAIN down /\ down'[i] = down[i]) \/ down'[i] = r
      BY <1>2 DEF TypeOK
    <2> QED
      BY <2>1 DEF InApp
  <1> QED
    BY <1>1, <1>2 DEF Broadcast

\* What the app takes from its socket was there or in it.
LEMMA TakeInApp ==
  ASSUME TypeOK, NEW recs \in Seq(WireRecords), Take(recs),
         \A i \in DOMAIN recs : \E j \in DOMAIN down : recs[i] = down[j],
         \A i \in DOMAIN down' : \E j \in DOMAIN down : down'[i] = down[j],
         NEW g, NEW n, InApp(g, n)'
  PROVE  InApp(g, n)
  <1>2. Taken(recs, <<rx_gen', rx_items'>>)
    BY TakeFacts
  <1>3. \A k \in Kinds : rx_items'[k] # 0 => Brought(recs, rx_gen', rx_items'[k])
    BY <1>2 DEF Taken
  <1>4. \A h, l : Brought(recs, h, l) => InApp(h, l)
    BY DEF Brought, InApp
  <1>5. CASE \E i \in DOMAIN down' : down'[i].gen = g /\ n = down'[i].item /\ n # 0
    BY <1>5 DEF InApp
  <1>6. CASE rx_gen' = g /\ \E k \in Kinds : n = rx_items'[k] /\ n # 0
    BY <1>3, <1>4, <1>6
  <1> QED
    BY <1>5, <1>6 DEF InApp

\* Every step that mixes nothing keeps one copy to a generation of the desktop's.
LEMMA DownStep ==
  TypeOK /\ GenInv /\ DownInv /\ UpInv /\ [Next]_vars /\ ~ mixed' => DownInv'
  <1> SUFFICES ASSUME TypeOK, GenInv, DownInv, UpInv, [Next]_vars, ~ mixed' PROVE DownInv'
    OBVIOUS
  <1> USE DEF desktop, socket, app
  <1>e. \A k \in Kinds : Empty[k] = 0
    BY ClipFacts
  <1>1. ASSUME NEW ks \in SUBSET Kinds, DesktopCopy(ks) PROVE DownInv'
    <2>1. /\ store' = Empty /\ items' = Empty /\ readers' = {<<k, copies'>> : k \in ks}
          /\ gen' = NextGen(gen) /\ ~ ComesRound /\ UNCHANGED <<down, rx_gen, rx_items>>
      BY <1>1 DEF DesktopCopy, Ingest
    <2>2. \A n : InBridge(n)' => n = copies'
      BY <2>1, <1>e DEF InBridge
    <2>3. \A g, n : InApp(g, n)' => InApp(g, n)
      BY <2>1 DEF InApp
    <2>4. \A g, m, n : g = gen' /\ InBridge(m)' => ~ InApp(g, n)
      BY <2>1, FreshFacts
    <2> QED
      BY <2>2, <2>3, <2>4, DownFresh
  <1>2. ASSUME NEW r \in readers, ReadDone(r) PROVE DownInv'
    <2>1. r[1] \in Kinds /\ r[2] # 0 /\ r[2] \in 1..copies /\ gen \in 1..GenMax
      BY <1>2 DEF TypeOK, GenInv
    <2>2. Record(r[1], gen, r[2]) \in WireRecords
      BY <2>1, ConstantsAreFinite DEF Record, WireRecords, TypeOK
    <2>3. /\ \A k \in Kinds : store'[k] \in {r[2], store[k]} /\ items'[k] \in {r[2], items[k]}
          /\ readers' \subseteq readers /\ gen' = gen
      BY <1>2, <2>1 DEF ReadDone, TypeOK, Clips
    <2>4. InBridge(r[2])
      BY DEF InBridge
    <2>5. \A n : InBridge(n)' => InBridge(n)
      BY <2>3, <2>4 DEF InBridge
    <2>6. Broadcast(<<Record(r[1], gen, r[2])>>) /\ UNCHANGED <<rx_gen, rx_items>>
      BY <1>2 DEF ReadDone
    <2>7. \A g, n : InApp(g, n)' => InApp(g, n) \/ (g = gen /\ InBridge(n))
      BY <2>2, <2>4, <2>6, BroadcastInApp DEF Record
    <2> QED
      BY <2>3, <2>5, <2>7, DownKeep
  <1>3. ASSUME NEW r \in readers, ReadFails(r) PROVE DownInv'
    <2>1. readers' \subseteq readers /\ UNCHANGED <<store, items, gen, down, rx_gen, rx_items>>
      BY <1>3 DEF ReadFails
    <2>2. \A n : InBridge(n)' => InBridge(n)
      BY <2>1 DEF InBridge
    <2>3. \A g, n : InApp(g, n)' => InApp(g, n)
      BY <2>1 DEF InApp
    <2> QED
      BY <2>1, <2>2, <2>3, DownKeep
  <1>4. CASE DesktopClear
    <2>1. /\ store' = Empty /\ items' = Empty /\ readers' = {} /\ gen' = NextGen(gen)
          /\ Broadcast(<<Record(None, NextGen(gen), 0)>>) /\ UNCHANGED <<rx_gen, rx_items>>
      BY <1>4 DEF DesktopClear
    <2>2. \A n : ~ InBridge(n)'
      BY <2>1, <1>e DEF InBridge
    <2>3. Record(None, NextGen(gen), 0) \in WireRecords
      <3>1. NextGen(gen) \in 1..GenMax
        BY NextGenFacts DEF TypeOK
      <3> QED
        BY <3>1, ConstantsAreFinite DEF Record, WireRecords
    <2>4. \A g, n : InApp(g, n)' => InApp(g, n)
      BY <2>1, <2>3, BroadcastInApp DEF Record
    <2> QED
      BY <2>2, <2>4, DownFresh
  <1>5. CASE DataControlEmpty
    <2>1. store' = Empty /\ readers' = {} /\ UNCHANGED <<items, gen, down, rx_gen, rx_items>>
      BY <1>5 DEF DataControlEmpty
    <2>2. \A n : InBridge(n)' => InBridge(n)
      BY <2>1, <1>e DEF InBridge
    <2>3. \A g, n : InApp(g, n)' => InApp(g, n)
      BY <2>1 DEF InApp
    <2> QED
      BY <2>1, <2>2, <2>3, DownKeep
  <1>6. CASE HandleRecord
    <2> DEFINE r == Head(up)
               first == Head(up).gen # last_rx
    <2>1. /\ r \in WireRecords /\ first \in BOOLEAN /\ up # <<>>
          /\ items' = Added(items, r, first) /\ store' = Added(store, r, first)
          /\ readers' = (IF first \/ r.kind = None THEN {} ELSE readers)
          /\ gen' = (IF first \/ r.kind = None THEN NextGen(gen) ELSE gen)
          /\ gen' # gen => ~ ComesRound
          /\ UNCHANGED <<down, rx_gen, rx_items>>
      BY <1>6, HandleEffect
    <2>2. \A k \in Kinds : /\ items'[k] = IF r.kind = None THEN 0 ELSE
                                  IF k = r.kind THEN r.item ELSE IF first THEN 0 ELSE items[k]
                           /\ store'[k] = IF r.kind = None THEN 0 ELSE
                                  IF k = r.kind THEN r.item ELSE IF first THEN 0 ELSE store[k]
      <3>1. items \in Clips /\ store \in Clips
        BY DEF TypeOK
      <3> HIDE DEF r, first
      <3> QED
        BY <2>1, <3>1, AddedFacts
    <2>3. \A g, n : InApp(g, n)' => InApp(g, n)
      BY <2>1 DEF InApp
    <2>4. gen \in 0..GenMax /\ NextGen(gen) # gen
      BY NextGenFacts DEF TypeOK
    <2> HIDE DEF r, first
    <2>5. CASE first \/ r.kind = None
      <3>1. \A n : InBridge(n)' => n = r.item
        BY <2>1, <2>2, <2>5 DEF InBridge
      <3>2. gen' = NextGen(gen) /\ ~ ComesRound
        BY <2>1, <2>4, <2>5
      <3>3. \A g, m, n : g = gen' /\ InBridge(m)' => ~ InApp(g, n)
        BY <3>2, FreshFacts
      <3> QED
        BY <2>3, <3>1, <3>3, DownFresh
    <2>6. CASE ~ first /\ r.kind # None
      <3>1. PushUnderWay
        BY <2>1, <2>6 DEF PushUnderWay, first
      <3>2. InBridge(r.item)
        BY <3>1 DEF UpInv, InBridge, r
      <3>3. \A n : InBridge(n)' => InBridge(n)
        BY <2>1, <2>2, <2>6, <3>2 DEF InBridge
      <3> QED
        BY <2>1, <2>3, <2>6, <3>3, DownKeep
    <2> QED
      BY <2>5, <2>6
  <1>7. CASE CompositorRestart
    <2>1. store' = Empty /\ items' = Empty /\ readers' = {} /\ UNCHANGED <<down, rx_gen, rx_items>>
      BY <1>7 DEF CompositorRestart, ClientDrop
    <2>2. \A n : ~ InBridge(n)'
      BY <2>1, <1>e DEF InBridge
    <2>3. \A g, n : InApp(g, n)' => InApp(g, n)
      BY <2>1 DEF InApp
    <2> QED
      BY <2>2, <2>3, DownFresh
  <1>8. CASE AppSide
    <2>1. UNCHANGED <<store, items, readers, gen>>
      BY <1>8, AppSideFacts
    <2>2. \A n : InBridge(n)' => InBridge(n)
      BY <2>1 DEF InBridge
    <2>3. ASSUME NEW g, NEW n, InApp(g, n)' PROVE InApp(g, n) \/ (g = gen /\ InBridge(n))
      <3>1. CASE UNCHANGED <<down, rx_gen, rx_items>>
        BY <2>3, <3>1 DEF InApp
      <3>2. CASE Present
        BY <2>3, <3>2, <1>e DEF Present, InApp
      <3>3. CASE LinkLost
        <4>1. PICK m \in 0..Len(down) : Take(SubSeq(down, 1, m))
          BY <3>3 DEF LinkLost
        <4> DEFINE recs == SubSeq(down, 1, m)
        <4>2. recs \in Seq(WireRecords) /\ \A i \in DOMAIN recs : i \in DOMAIN down /\ recs[i] = down[i]
          BY DEF TypeOK
        <4>3. down' = <<>> /\ Take(recs)
          BY <3>3, <4>1 DEF LinkLost
        <4> HIDE DEF recs
        <4>4. \A i \in DOMAIN recs : \E j \in DOMAIN down : recs[i] = down[j]
          BY <4>2
        <4> QED
          BY <2>3, <4>2, <4>3, <4>4, TakeInApp
      <3>4. CASE Receive
        <4>1. down # <<>> /\ down' = Tail(down) /\ Take(<<Head(down)>>) /\ down \in Seq(WireRecords)
          BY <3>4 DEF Receive, TypeOK
        <4>2. <<Head(down)>> \in Seq(WireRecords) /\ Head(down) = down[1] /\ 1 \in DOMAIN down
          BY <4>1
        <4>5. \A i \in DOMAIN <<Head(down)>> : \E j \in DOMAIN down : <<Head(down)>>[i] = down[j]
          BY <4>2
        <4>3. \A i \in DOMAIN down' : i + 1 \in DOMAIN down /\ down'[i] = down[i + 1]
          BY <4>1
        <4>4. \A i \in DOMAIN down' : \E j \in DOMAIN down : down'[i] = down[j]
          BY <4>3
        <4> QED
          BY <2>3, <4>1, <4>2, <4>4, <4>5, TakeInApp
      <3>5. CASE RunQueue
        <4>1. UNCHANGED <<rx_gen, rx_items>>
          BY <3>5, RunEffect
        <4>2. UNCHANGED down \/ down' = <<>> \/ down' = Records(items, gen)
          BY <3>5, RunEffect DEF Closed
        <4>3. CASE down' = Records(items, gen)
          <5>1. \A i \in DOMAIN down' : down'[i].gen = gen /\ (down'[i].item # 0 => InBridge(down'[i].item))
            BY <4>3, ReplayFacts DEF InBridge
          <5> QED
            BY <2>3, <4>1, <5>1 DEF InApp
        <4>4. CASE UNCHANGED down \/ down' = <<>>
          BY <2>3, <4>1, <4>4 DEF InApp
        <4> QED
          BY <4>2, <4>3, <4>4
      <3>6. CASE ~ Present /\ ~ LinkLost /\ ~ Receive /\ ~ RunQueue
        BY <1>8, <3>1, <3>6 DEF AppSide, ServerDrop, ClientDrop, Detach, ConnectStart, Adopt,
           PushChanged, PushDeferred, Push, IOSTouch, IOSCopy
      <3> QED
        BY <3>2, <3>3, <3>4, <3>5, <3>6
    <2> QED
      BY <2>1, <2>2, <2>3, DownKeep
  <1>9. CASE UNCHANGED vars
    <2>1. UNCHANGED <<store, items, readers, gen, down, rx_gen, rx_items>>
      BY <1>9 DEF vars
    <2>2. \A n : InBridge(n)' => InBridge(n)
      BY <2>1 DEF InBridge
    <2>3. \A g, n : InApp(g, n)' => InApp(g, n)
      BY <2>1 DEF InApp
    <2> QED
      BY <2>1, <2>2, <2>3, DownKeep
  <1> QED
    BY <1>1, <1>2, <1>3, <1>4, <1>5, <1>6, <1>7, <1>8, <1>9, NextSides

\* An empty socket to the compositor satisfies what is said of it.
LEMMA UpEmpty ==
  ASSUME up' = <<>>, ~ connected' \/ last_rx' = 0
  PROVE  UpInv'
  <1>1. ~ PushUnderWay' /\ DOMAIN up' = {}
    BY DEF PushUnderWay
  <1> QED
    BY <1>1 DEF UpInv

\* A step of the desktop's that finds no push under way leaves it so.
LEMMA UpKeep ==
  ASSUME UpInv, UNCHANGED <<up, connected, last_rx, tx_gen>>,
         ~ PushUnderWay \/ (readers' \subseteq readers /\ UNCHANGED items)
  PROVE  UpInv'
  BY DEF UpInv, PushUnderWay

\* The bridge takes a record of a push.
LEMMA UpHandle ==
  ASSUME TypeOK, UpInv, HandleRecord
  PROVE  UpInv'
  <1> USE DEF app
  <1> DEFINE r == Head(up)
             first == Head(up).gen # last_rx
  <1>1. /\ r \in WireRecords /\ first \in BOOLEAN /\ up # <<>> /\ connected /\ up' = Tail(up)
        /\ last_rx' = r.gen
        /\ items' = Added(items, r, first)
        /\ readers' = (IF first \/ r.kind = None THEN {} ELSE readers)
        /\ UNCHANGED <<connected, tx_gen>>
    BY HandleEffect
  <1>2. up \in Seq(WireRecords) /\ up[1] = r
    BY <1>1 DEF TypeOK
  <1>3. /\ DOMAIN up' = 1..(Len(up) - 1) /\ DOMAIN up = 1..Len(up) /\ Len(up) \in Nat \ {0}
        /\ \A i \in DOMAIN up' : i + 1 \in DOMAIN up /\ up'[i] = up[i + 1]
        /\ Len(up') = Len(up) - 1 /\ up' \in Seq(WireRecords)
    BY <1>1, <1>2
  <1>4. items \in Clips
    BY DEF TypeOK
  <1>r. first = (r.gen # last_rx)
    OBVIOUS
  <1>p. PushUnderWay <=> ~ first
    BY <1>1 DEF PushUnderWay
  <1> HIDE DEF r, first
  <1>5. ASSUME NEW i \in DOMAIN up', i > 1, up'[i - 1].gen = up'[i].gen
        PROVE  up'[i - 1].item = up'[i].item /\ up'[i].item # 0
    <2>1. i - 1 \in DOMAIN up' /\ i + 1 \in DOMAIN up /\ i + 1 > 1 /\ (i + 1) - 1 = i
      BY <1>3, <1>5
    <2>2. up'[i - 1] = up[i] /\ up'[i] = up[i + 1]
      BY <1>3, <2>1
    <2> QED
      BY <1>5, <2>1, <2>2 DEF UpInv
  <1>6. IF up' = <<>> THEN last_rx' \in {0, tx_gen'} ELSE up'[Len(up')].gen = tx_gen'
    <2>1. up[Len(up)].gen = tx_gen
      BY <1>1 DEF UpInv
    <2>2. CASE up' = <<>>
      <3>1. Len(up) = 1
        BY <1>3, <2>2
      <3> QED
        BY <1>1, <1>2, <2>1, <2>2, <3>1
    <2>3. CASE up' # <<>>
      <3>1. Len(up') \in DOMAIN up'
        BY <1>3, <2>3
      <3>2. up'[Len(up')] = up[Len(up)]
        BY <1>3, <3>1
      <3> QED
        BY <1>1, <2>1, <2>3, <3>2
    <2> QED
      BY <2>2, <2>3
  <1>7. ASSUME PushUnderWay'
        PROVE  readers' = {} /\ Head(up').item # 0 /\ \E k \in Kinds : items'[k] = Head(up').item
    <2>1. up' # <<>> /\ Head(up').gen = r.gen
      BY <1>1, <1>7 DEF PushUnderWay
    <2>2. 1 \in DOMAIN up' /\ 2 \in DOMAIN up /\ Head(up') = up[2]
      BY <1>3, <2>1
    <2>3. r.item = up[2].item /\ up[2].item # 0
      <3>1. 2 > 1 /\ up[2 - 1] = r /\ up[2 - 1].gen = up[2].gen
        BY <1>2, <2>1, <2>2
      <3>2. up[2 - 1].item = up[2].item /\ up[2].item # 0
        BY <2>2, <3>1 DEF UpInv
      <3> QED
        BY <3>1, <3>2
    <2>4. r.kind \in Kinds /\ r.kind # None
      BY <1>1, <2>3 DEF WireRecords
    <2>5. items'[r.kind] = r.item
      BY <1>1, <1>4, <2>4, AddedFacts
    <2>6. readers' = {}
      BY <1>1, <1>p DEF UpInv
    <2> QED
      BY <2>2, <2>3, <2>4, <2>5, <2>6
  <1> QED
    BY <1>5, <1>6, <1>7 DEF UpInv

\* Of the places behind the first N, one that is not the first of them has its
\* predecessor among them.
LEMMA BehindFirst ==
  ASSUME NEW N \in Nat, NEW M \in Nat, NEW i \in 1..(N + M), i > N + 1
  PROVE  i \in (N + 1)..(N + M) /\ i - 1 \in (N + 1)..(N + M) /\ i - N # (i - 1) - N
  OBVIOUS

\* A push joins the socket as a generation of its own.
LEMMA UpSend ==
  ASSUME TypeOK, UpInv, NEW job, job.content \in Clips, FromOneCopy(job.content), connected,
         Sent(job) # <<>>, tx_gen' = NextGen(tx_gen), up' = up \o Sent(job),
         UNCHANGED <<connected, last_rx, readers, items>>
  PROVE  UpInv'
  <1> DEFINE recs == Sent(job)
             N == Len(up)
             M == Len(recs)
  <1>1. up \in Seq(WireRecords) /\ recs \in Seq(WireRecords) /\ recs # <<>>
    BY SentFacts DEF TypeOK
  <1>2. NextGen(tx_gen) # tx_gen /\ NextGen(tx_gen) # 0
    BY NextGenFacts DEF TypeOK
  <1>3. \A i \in DOMAIN recs : recs[i].gen = NextGen(tx_gen)
    BY SentFacts
  <1>4. ASSUME NEW i \in DOMAIN recs, NEW j \in DOMAIN recs, i # j
        PROVE  recs[i].item = recs[j].item /\ recs[j].item # 0
    <2>1. DOMAIN recs = 1..M /\ M \in Nat
      BY <1>1
    <2>2. M \notin {0, 1}
      BY <1>4, <2>1
    <2>3. \A h \in DOMAIN recs : recs[h].item # 0 /\ \E k \in Kinds : recs[h].item = job.content[k]
      BY <2>2, SentFacts
    <2> HIDE DEF recs
    <2> QED
      BY <2>3 DEF FromOneCopy, SetKinds
  <1>u. up' = up \o recs
    OBVIOUS
  <1> HIDE DEF recs
  <1>5. /\ N \in Nat /\ M \in Nat \ {0} /\ DOMAIN up = 1..N /\ DOMAIN recs = 1..M
        /\ DOMAIN up' = 1..(N + M) /\ Len(up') = N + M
        /\ \A i \in 1..N : up'[i] = up[i]
        /\ \A i \in (N + 1)..(N + M) : i - N \in 1..M /\ up'[i] = recs[i - N]
    BY <1>1, <1>u
  <1> HIDE DEF N, M
  <1>6. N # 0 => up[N].gen = tx_gen
    BY <1>1, <1>5 DEF UpInv, N
  <1>7. ASSUME NEW i \in DOMAIN up', i > 1, up'[i - 1].gen = up'[i].gen
        PROVE  up'[i - 1].item = up'[i].item /\ up'[i].item # 0
    <2>1. CASE i <= N
      <3>1. i \in DOMAIN up /\ i - 1 \in 1..N /\ i \in 1..N
        BY <1>5, <1>7, <2>1
      <3>2. up'[i - 1] = up[i - 1] /\ up'[i] = up[i]
        BY <1>5, <3>1
      <3> QED
        BY <1>7, <3>1, <3>2 DEF UpInv
    <2>2. CASE i = N + 1
      <3>1. N # 0 /\ N \in 1..N /\ i - 1 = N /\ i \in (N + 1)..(N + M)
        BY <1>5, <1>7, <2>2
      <3>2. up'[N] = up[N] /\ i - N \in DOMAIN recs /\ up'[i] = recs[i - N]
        BY <1>5, <3>1
      <3>3. up'[i].gen = NextGen(tx_gen) /\ up'[i - 1].gen = tx_gen
        BY <1>3, <1>6, <3>1, <3>2
      <3> QED
        BY <1>2, <1>7, <3>3
    <2>3. CASE i > N + 1
      <3>0. N \in Nat /\ M \in Nat /\ i \in 1..(N + M)
        BY <1>5, <1>7
      <3>1. i \in (N + 1)..(N + M) /\ i - 1 \in (N + 1)..(N + M) /\ i - N # (i - 1) - N
        BY <2>3, <3>0, BehindFirst
      <3>2. /\ i - N \in DOMAIN recs /\ (i - 1) - N \in DOMAIN recs
            /\ up'[i] = recs[i - N] /\ up'[i - 1] = recs[(i - 1) - N]
        BY <1>5, <3>1
      <3> QED
        BY <1>4, <3>1, <3>2
    <2> QED
      BY <1>5, <1>7, <2>1, <2>2, <2>3
  <1>8. up' # <<>> /\ up'[Len(up')].gen = tx_gen'
    <2>1. N + M \in (N + 1)..(N + M)
      BY <1>5
    <2> QED
      BY <1>3, <1>5, <2>1
  <1>9. ASSUME PushUnderWay' PROVE PushUnderWay /\ Head(up') = Head(up)
    <2>1. CASE N = 0
      <3>1. 1 \in (N + 1)..(N + M) /\ up = <<>>
        BY <1>1, <1>5, <2>1 DEF N
      <3>2. Head(up') = up'[1] /\ up'[1].gen = NextGen(tx_gen)
        BY <1>1, <1>3, <1>5, <1>u, <3>1
      <3> QED
        BY <1>2, <1>9, <3>1, <3>2 DEF PushUnderWay, UpInv
    <2>2. CASE N # 0
      <3>1. up # <<>> /\ 1 \in 1..N
        BY <1>1, <1>5, <2>2 DEF N
      <3>2. Head(up') = Head(up)
        BY <1>1, <1>5, <1>u, <3>1
      <3> QED
        BY <1>9, <3>1, <3>2 DEF PushUnderWay
    <2> QED
      BY <2>1, <2>2
  <1> QED
    BY <1>7, <1>8, <1>9 DEF UpInv

\* Every step that mixes nothing keeps one copy to a generation of the app's.
LEMMA UpStep ==
  TypeOK /\ GenInv /\ UpInv /\ PushInv /\ [Next]_vars /\ ~ mixed' => UpInv'
  <1> SUFFICES ASSUME TypeOK, GenInv, UpInv, PushInv, [Next]_vars, ~ mixed' PROVE UpInv'
    OBVIOUS
  <1> USE DEF desktop, socket, app
  <1>1. ASSUME NEW ks, DesktopCopy(ks) PROVE UpInv'
    BY <1>1, UpKeep DEF DesktopCopy, Ingest
  <1>2. ASSUME NEW r \in readers, ReadDone(r) \/ ReadFails(r) PROVE UpInv'
    <2>1. ~ PushUnderWay
      BY <1>2 DEF UpInv
    <2>2. UNCHANGED <<up, connected, last_rx, tx_gen>>
      BY <1>2 DEF ReadDone, ReadFails
    <2> QED
      BY <2>1, <2>2, UpKeep
  <1>3. CASE DesktopClear
    BY <1>3, UpKeep DEF DesktopClear
  <1>4. CASE DataControlEmpty
    BY <1>4, UpKeep DEF DataControlEmpty
  <1>5. CASE HandleRecord
    BY <1>5, UpHandle
  <1>6. CASE CompositorRestart
    BY <1>6, UpEmpty DEF CompositorRestart, ClientDrop
  <1>7. CASE ServerDrop
    BY <1>7, UpEmpty DEF ServerDrop, ClientDrop
  <1>8. CASE RunQueue
    <2> DEFINE job == Head(queue)
    <2>1. UNCHANGED <<readers, items>>
      BY <1>8, RunEffect
    <2>2. CASE job.op = "push"
      <3>1. /\ tx_gen' = (IF Sent(job) = <<>> THEN tx_gen ELSE NextGen(tx_gen))
            /\ up' = (IF connected THEN up \o Sent(job) ELSE up)
            /\ UNCHANGED <<connected, last_rx>> /\ queue # <<>>
        BY <1>8, <2>2, RunEffect
      <3>2. job.content \in Clips
        BY <2>2, <3>1, JobFacts
      <3>3. FromOneCopy(job.content)
        <4>1. queue \in Seq(Jobs)
          BY DEF TypeOK
        <4>2. 1 \in DOMAIN queue /\ job = queue[1]
          BY <3>1, <4>1
        <4> QED
          BY <2>2, <4>2 DEF PushInv
      <3> HIDE DEF job
      <3>4. CASE ~ connected
        <4>1. up' = <<>> /\ ~ connected'
          BY <3>1, <3>4 DEF TypeOK
        <4> QED
          BY <4>1, UpEmpty
      <3>5. CASE connected /\ Sent(job) = <<>>
        <4>1. up' = up /\ tx_gen' = tx_gen
          BY <3>1, <3>5 DEF TypeOK
        <4> QED
          BY <2>1, <3>1, <4>1, UpKeep
      <3>6. CASE connected /\ Sent(job) # <<>>
        BY <2>1, <3>1, <3>2, <3>3, <3>6, UpSend
      <3> QED
        BY <3>4, <3>5, <3>6
    <2>3. CASE job.op # "push"
      <3>1. \/ UNCHANGED <<up, connected, last_rx, tx_gen>>
            \/ up' = <<>> /\ (~ connected' \/ last_rx' = 0)
        BY <1>8, <2>3, RunEffect DEF Closed
      <3> QED
        BY <2>1, <3>1, UpEmpty, UpKeep
    <2> QED
      BY <2>2, <2>3
  <1>9. CASE AppSide /\ ~ ServerDrop /\ ~ RunQueue
    <2>1. UNCHANGED <<readers, items>>
      BY <1>9, AppSideFacts
    <2>2. UNCHANGED <<up, connected, last_rx, tx_gen>>
      BY <1>9 DEF AppSide, Detach, Present, ConnectStart, Adopt, LinkLost, Receive,
         PushChanged, PushDeferred, Push, IOSTouch, IOSCopy
    <2> QED
      BY <2>1, <2>2, UpKeep
  <1>10. CASE UNCHANGED vars
    BY <1>10, UpKeep DEF vars
  <1> QED
    BY <1>1, <1>2, <1>3, <1>4, <1>5, <1>6, <1>7, <1>8, <1>9, <1>10, NextSides

\* What joins the queue is one copy if the pasteboard is.
LEMMA PushAppend ==
  ASSUME TypeOK, PushInv, FromOneCopy(pb)', NEW job, queue' = Append(queue, job),
         job.op = "push" => job.content = pb
  PROVE  PushInv'
  <1>1. queue \in Seq(Jobs)
    BY DEF TypeOK
  <1>2. \A m \in DOMAIN queue' : (m \in DOMAIN queue /\ queue'[m] = queue[m]) \/ queue'[m] = job
    BY <1>1
  <1> QED
    BY <1>2 DEF PushInv, FromOneCopy

\* Every step that mixes nothing leaves one copy on the pasteboard.
LEMMA PushStep ==
  TypeOK /\ GenInv /\ PushInv /\ DownInv' /\ [Next]_vars => PushInv'
  <1> SUFFICES ASSUME TypeOK, GenInv, PushInv, DownInv', [Next]_vars PROVE PushInv'
    OBVIOUS
  <1> USE DEF paste, app
  <1>p. UNCHANGED pb => FromOneCopy(pb)'
    BY DEF PushInv, FromOneCopy
  <1>1. ASSUME NEW ks, IOSCopy(ks) PROVE PushInv'
    <2>1. FromOneCopy(Whole(- copies', ks))
      BY <1>1, UserFacts, ClipFacts DEF IOSCopy
    <2>2. pb' = Whole(- copies', ks) /\ UNCHANGED queue
      BY <1>1 DEF IOSCopy
    <2> QED
      BY <2>1, <2>2 DEF PushInv, FromOneCopy
  <1>2. CASE DeskSide /\ UNCHANGED pb
    BY <1>2, DeskSideFacts DEF PushInv
  <1>3. ASSUME DeskSide PROVE UNCHANGED pb \/ \E ks : IOSCopy(ks)
    <2>1. ASSUME NEW ks, DesktopCopy(ks) PROVE UNCHANGED pb
      BY <2>1 DEF DesktopCopy
    <2>2. ASSUME NEW r \in readers, ReadDone(r) \/ ReadFails(r) PROVE UNCHANGED pb
      BY <2>2 DEF ReadDone, ReadFails
    <2>3. ASSUME HandleRecord PROVE UNCHANGED pb
      BY <2>3 DEF HandleRecord
    <2> QED
      BY <1>3, <2>1, <2>2, <2>3
         DEF DeskSide, DesktopClear, DataControlEmpty, CompositorRestart, ServerDrop, IOSTouch, vars
  <1>4. CASE ConnectStart
    BY <1>4, <1>p, PushAppend DEF ConnectStart
  <1>5. CASE Adopt \/ Present
    BY <1>5 DEF Adopt, Present, PushInv
  <1>6. CASE LinkLost
    BY <1>6, <1>p, PushAppend DEF LinkLost
  <1>7. CASE Receive
    <2>1. pb' = rx_items'
      BY <1>7 DEF Receive
    <2>2. \A k \in Kinds : \A g : g = rx_gen' /\ rx_items'[k] # 0 => InApp(g, rx_items[k])'
      BY DEF InApp
    <2>3. FromOneCopy(pb)'
      BY <2>1, <2>2 DEF FromOneCopy, SetKinds, DownInv
    <2> QED
      BY <1>7, <2>3, PushAppend DEF Receive
  <1>8. CASE PushChanged \/ PushDeferred
    BY <1>8, <1>p, PushAppend DEF PushChanged, PushDeferred, Push
  <1>9. CASE Detach
    <2>1. UNCHANGED pb
      BY <1>9 DEF Detach
    <2>2. CASE queue' = queue
      BY <2>1, <2>2 DEF PushInv
    <2>3. CASE queue' = Append(queue, [op |-> "close", object |-> object])
      BY <1>p, <2>1, <2>3, PushAppend
    <2> QED
      BY <1>9, <2>2, <2>3 DEF Detach
  <1>10. CASE RunQueue
    <2>1. queue \in Seq(Jobs) /\ queue # <<>> /\ queue' = Tail(queue)
      BY <1>10, RunEffect DEF TypeOK
    <2>2. \A m \in DOMAIN queue' : m + 1 \in DOMAIN queue /\ queue'[m] = queue[m + 1]
      BY <2>1
    <2>3. UNCHANGED pb
      BY <1>10, RunEffect
    <2> QED
      BY <2>2, <2>3 DEF PushInv
  <1> QED
    BY <1>1, <1>2, <1>3, <1>4, <1>5, <1>6, <1>7, <1>8, <1>9, <1>10, LinkSides

-----------------------------------------------------------------------------
(* Agreement: what either side holds is no newer than the newest copy.     *)

\* Copies of iOS are counted downwards: an iOS copy yet to be made is held
\* nowhere.
Recent(n) == n >= - copies
RecentInv ==
    /\ \A k \in Kinds : Recent(items[k]) /\ Recent(rx_items[k]) /\ Recent(pb[k])
    /\ \A o \in Links, k \in Kinds : Recent(echo[o][k])
    /\ \A i \in DOMAIN down : Recent(down[i].item)
    /\ \A i \in DOMAIN up : Recent(up[i].item)
    /\ \A i \in DOMAIN queue : queue[i].op \in {"echo", "push"} =>
          \A k \in Kinds : Recent(queue[i].content[k])

\* The number of copies only grows.
LEMMA StaysRecent ==
  ASSUME TypeOK, [Next]_vars
  PROVE  copies \in Nat /\ copies' \in Nat /\ copies' >= copies
  <1> USE DEF bounds
  <1>0. copies \in Nat
    BY ConstantsAreFinite DEF TypeOK
  <1>1. ASSUME UserActs PROVE copies' = copies + 1
    BY <1>1 DEF UserActs
  <1>2. ASSUME NEW ks, DesktopCopy(ks) \/ IOSCopy(ks) PROVE copies' = copies + 1
    BY <1>1, <1>2 DEF DesktopCopy, IOSCopy, UserCopies
  <1>3. CASE DesktopClear \/ DataControlEmpty \/ IOSTouch
    BY <1>0, <1>1, <1>3 DEF DesktopClear, DataControlEmpty, IOSTouch, UserCopies
  <1>4. ASSUME NEW r, ReadDone(r) \/ ReadFails(r) PROVE copies' = copies
    BY <1>4 DEF ReadDone, ReadFails
  <1>5. CASE HandleRecord
    BY <1>0, <1>5 DEF HandleRecord
  <1>7. CASE RunQueue
    BY <1>0, <1>7 DEF RunQueue
  <1>6. CASE \/ ServerDrop \/ Detach \/ Present \/ ConnectStart \/ Adopt \/ LinkLost \/ Receive
             \/ PushChanged \/ PushDeferred \/ CompositorRestart \/ UNCHANGED vars
    BY <1>0, <1>6 DEF ServerDrop, Detach, Present, ConnectStart, Adopt, LinkLost, Receive,
       PushChanged, PushDeferred, Push, CompositorRestart, vars
  <1> QED
    BY <1>0, <1>2, <1>3, <1>4, <1>5, <1>6, <1>7, NextSides DEF AppSide

\* What stays on the desktop's side is recent.
LEMMA RecentDesktop ==
  ASSUME TypeOK, RecentInv, [Next]_vars
  PROVE  \A k \in Kinds : Recent(items[k])'
  <1> USE DEF desktop
  <1>0. /\ copies \in Nat /\ copies' \in Nat /\ copies' >= copies
        /\ items \in Clips /\ \A k \in Kinds : items[k] \in Int /\ items[k] >= - copies
    <2>1. items \in Clips
      BY DEF TypeOK
    <2>2. \A k \in Kinds : items[k] \in Int
      BY <2>1 DEF Clips
    <2>3. \A k \in Kinds : items[k] >= - copies
      BY DEF RecentInv, Recent
    <2> QED
      BY <2>1, <2>2, <2>3, StaysRecent
  <1>1. CASE UNCHANGED items
    BY <1>0, <1>1 DEF Recent
  <1>2. CASE items' = Empty
    BY <1>0, <1>2, ClipFacts DEF Recent
  <1>3. ASSUME NEW r \in readers, ReadDone(r) PROVE \A k \in Kinds : Recent(items[k])'
    <2>1. r[2] \in Int /\ r[2] >= 0 /\ r[1] \in Kinds
      BY <1>0 DEF TypeOK
    <2>2. \A k \in Kinds : items'[k] = IF k = r[1] THEN r[2] ELSE items[k]
      BY <1>0, <1>3, <2>1 DEF ReadDone, Clips
    <2> QED
      BY <1>0, <2>1, <2>2 DEF Recent
  <1>4. CASE HandleRecord
    <2> DEFINE r == Head(up)
    <2>1. r \in WireRecords /\ up # <<>>
      BY <1>4, HandleEffect
    <2>f. PICK first \in BOOLEAN : items' = Added(items, r, first)
      BY <1>4, HandleEffect
    <2>2. r.item \in Int /\ r.item >= - copies
      <3>1. 1 \in DOMAIN up /\ r = up[1]
        BY <2>1 DEF TypeOK
      <3>2. up[1].item >= - copies
        BY <3>1 DEF RecentInv, Recent
      <3>3. r.item \in Int
        BY <2>1 DEF WireRecords
      <3> QED
        BY <3>1, <3>2, <3>3
    <2> HIDE DEF r
    <2>3. \A k \in Kinds : items'[k] = IF r.kind = None THEN 0
             ELSE IF k = r.kind THEN r.item ELSE IF first THEN 0 ELSE items[k]
      BY <1>0, <2>1, <2>f, AddedFacts
    <2> QED
      BY <1>0, <2>2, <2>3 DEF Recent
  <1>5. ASSUME NEW ks, DesktopCopy(ks) PROVE items' = Empty
    BY <1>5 DEF DesktopCopy, Ingest
  <1>6. ASSUME DesktopClear \/ CompositorRestart PROVE items' = Empty
    BY <1>6 DEF DesktopClear, CompositorRestart
  <1>7. ASSUME NEW r, ReadFails(r) PROVE UNCHANGED items
    BY <1>7 DEF ReadFails
  <1>8. ASSUME DataControlEmpty \/ AppSide \/ UNCHANGED vars PROVE UNCHANGED items
    BY <1>8, AppSideFacts DEF DataControlEmpty, vars
  <1> QED
    BY <1>1, <1>2, <1>3, <1>4, <1>5, <1>6, <1>7, <1>8, NextSides

\* What the app takes from its socket is recent if that is.
LEMMA RecentTake ==
  ASSUME TypeOK, RecentInv, NEW recs \in Seq(WireRecords), Take(recs),
         \A i \in DOMAIN recs : \E j \in DOMAIN down : recs[i] = down[j]
  PROVE  \A k \in Kinds : rx_items'[k] \in Int /\ rx_items'[k] >= - copies
  <1>1. Taken(recs, <<rx_gen', rx_items'>>)
    BY TakeFacts
  <1>2. \A k \in Kinds : rx_items'[k] \in Int
    BY <1>1 DEF Taken, Clips
  <1>3. \A k \in Kinds : rx_items'[k] # 0 => Brought(recs, rx_gen', rx_items'[k])
    BY <1>1 DEF Taken
  <1>4. \A h, l : Brought(recs, h, l) => l >= - copies
    BY DEF Brought, RecentInv, Recent
  <1>5. copies \in Nat
    BY ConstantsAreFinite DEF TypeOK
  <1> QED
    BY <1>2, <1>3, <1>4, <1>5

\* What joins the queue keeps it recent.
LEMMA RecentAppend ==
  ASSUME TypeOK, RecentInv, copies' = copies, NEW job, queue' = Append(queue, job),
         job.op \in {"echo", "push"} => \A k \in Kinds : job.content[k] >= - copies
  PROVE  \A i \in DOMAIN queue' : queue'[i].op \in {"echo", "push"} =>
            \A k \in Kinds : queue'[i].content[k] >= - copies'
  <1>1. queue \in Seq(Jobs)
    BY DEF TypeOK
  <1>2. \A m \in DOMAIN queue' : (m \in DOMAIN queue /\ queue'[m] = queue[m]) \/ queue'[m] = job
    BY <1>1
  <1>3. \A i \in DOMAIN queue : queue[i].op \in {"echo", "push"} =>
           \A k \in Kinds : queue[i].content[k] >= - copies
    BY DEF RecentInv, Recent
  <1> QED
    BY <1>2, <1>3

\* What the app holds is recent.
LEMMA RecentApp ==
  ASSUME TypeOK, RecentInv, [Next]_vars
  PROVE  \A k \in Kinds : Recent(rx_items[k])' /\ Recent(pb[k])'
  <1> USE DEF app, paste
  <1>0. copies \in Nat /\ copies' \in Nat /\ copies' >= copies
    BY StaysRecent
  <1>1. \A k \in Kinds : /\ rx_items[k] \in Int /\ rx_items[k] >= - copies
                         /\ pb[k] \in Int /\ pb[k] >= - copies
    <2>1. rx_items \in Clips /\ pb \in Clips
      BY DEF TypeOK
    <2>2. \A k \in Kinds : rx_items[k] \in Int /\ pb[k] \in Int
      BY <2>1 DEF Clips
    <2>3. \A k \in Kinds : rx_items[k] >= - copies /\ pb[k] >= - copies
      BY DEF RecentInv, Recent
    <2> QED
      BY <2>2, <2>3
  <1>2. CASE UNCHANGED <<rx_items, pb>>
    BY <1>0, <1>1, <1>2 DEF Recent
  <1>3. CASE Receive
    <2>1. down # <<>> /\ down \in Seq(WireRecords) /\ Take(<<Head(down)>>) /\ pb' = rx_items'
      BY <1>3 DEF Receive, TypeOK
    <2>2. <<Head(down)>> \in Seq(WireRecords) /\ 1 \in DOMAIN down /\ Head(down) = down[1]
      BY <2>1
    <2>3. \A i \in DOMAIN <<Head(down)>> : \E j \in DOMAIN down : <<Head(down)>>[i] = down[j]
      BY <2>2
    <2>4. \A k \in Kinds : rx_items'[k] \in Int /\ rx_items'[k] >= - copies
      BY <2>1, <2>2, <2>3, RecentTake
    <2> QED
      BY <1>0, <2>1, <2>4 DEF Recent
  <1>4. CASE LinkLost
    <2>1. PICK n \in 0..Len(down) : Take(SubSeq(down, 1, n))
      BY <1>4 DEF LinkLost
    <2>2. SubSeq(down, 1, n) \in Seq(WireRecords)
          /\ \A i \in DOMAIN SubSeq(down, 1, n) : i \in DOMAIN down /\ SubSeq(down, 1, n)[i] = down[i]
      BY DEF TypeOK
    <2>3. \A k \in Kinds : rx_items'[k] \in Int /\ rx_items'[k] >= - copies
      BY <2>1, <2>2, RecentTake
    <2>4. pb' = pb
      BY <1>4 DEF LinkLost
    <2> QED
      BY <1>0, <1>1, <2>3, <2>4 DEF Recent
  <1>5. CASE Present
    <2>1. rx_items' = Empty /\ pb' = pb
      BY <1>5 DEF Present
    <2> QED
      BY <1>0, <1>1, <2>1, ClipFacts DEF Recent
  <1>6. ASSUME NEW ks, IOSCopy(ks) PROVE \A k \in Kinds : Recent(rx_items[k])' /\ Recent(pb[k])'
    <2>1. rx_items' = rx_items /\ pb' = Whole(- copies', ks)
      BY <1>6 DEF IOSCopy
    <2>2. \A k \in Kinds : pb'[k] \in {0, - copies'}
      BY <2>1 DEF Whole
    <2> QED
      BY <1>0, <1>1, <2>1, <2>2 DEF Recent
  <1>7. ASSUME NEW ks, DesktopCopy(ks) PROVE UNCHANGED <<rx_items, pb>>
    BY <1>7 DEF DesktopCopy
  <1>8. ASSUME NEW r, ReadDone(r) \/ ReadFails(r) PROVE UNCHANGED <<rx_items, pb>>
    BY <1>8 DEF ReadDone, ReadFails
  <1>9. ASSUME HandleRecord \/ RunQueue PROVE UNCHANGED <<rx_items, pb>>
    BY <1>9 DEF HandleRecord, RunQueue
  <1>10. ASSUME \/ ServerDrop \/ Detach \/ ConnectStart \/ Adopt \/ PushChanged \/ PushDeferred
                \/ DesktopClear \/ DataControlEmpty \/ IOSTouch \/ CompositorRestart
                \/ UNCHANGED vars
         PROVE  UNCHANGED <<rx_items, pb>>
    BY <1>10 DEF ServerDrop, Detach, ConnectStart, Adopt, PushChanged, PushDeferred, Push,
       DesktopClear, DataControlEmpty, IOSTouch, CompositorRestart, vars
  <1> QED
    BY <1>2, <1>3, <1>4, <1>5, <1>6, <1>7, <1>8, <1>9, <1>10, NextSides DEF AppSide

\* What a broadcast leaves in the socket is recent.
LEMMA RecentBroadcast ==
  ASSUME TypeOK, RecentInv, NEW r, Broadcast(<<r>>), r.item >= - copies
  PROVE  \A i \in DOMAIN down' : down'[i].item >= - copies
  <1>1. \A i \in DOMAIN down : down[i].item >= - copies
    BY DEF RecentInv, Recent
  <1>2. CASE down' = down
    BY <1>1, <1>2
  <1>3. CASE down' = down \o <<r>>
    <2>1. \A i \in DOMAIN down' : (i \in DOMAIN down /\ down'[i] = down[i]) \/ down'[i] = r
      BY <1>3 DEF TypeOK
    <2> QED
      BY <1>1, <2>1
  <1> QED
    BY <1>2, <1>3 DEF Broadcast

\* What the socket holds for the app is recent.
LEMMA RecentDown ==
  ASSUME TypeOK, TypeOK', GenInv, RecentInv, [Next]_vars
  PROVE  \A i \in DOMAIN down' : down'[i].item >= - copies'
  <1> USE DEF socket
  <1>0. copies \in Nat /\ copies' \in Nat /\ copies' >= copies
    BY StaysRecent
  <1>1. \A i \in DOMAIN down' : down'[i].item \in Int
    <2>1. down' \in Seq(WireRecords)
      BY DEF TypeOK
    <2>2. \A r \in WireRecords : r.item \in Int
      BY DEF WireRecords
    <2> QED
      BY <2>1, <2>2
  <1>2. SUFFICES \A i \in DOMAIN down' : down'[i].item >= - copies
    BY <1>0, <1>1
  <1>3. \A i \in DOMAIN down : down[i].item >= - copies
    BY DEF RecentInv, Recent
  <1>4. ASSUME NEW r \in readers, ReadDone(r)
        PROVE  \A i \in DOMAIN down' : down'[i].item >= - copies
    <2>1. Broadcast(<<Record(r[1], gen, r[2])>>) /\ r[2] \in Nat
      BY <1>4 DEF ReadDone, TypeOK
    <2>2. Record(r[1], gen, r[2]).item >= - copies
      BY <1>0, <2>1 DEF Record
    <2> QED
      BY <2>1, <2>2, RecentBroadcast
  <1>5. CASE DesktopClear
    <2>1. Broadcast(<<Record(None, gen', 0)>>)
      BY <1>5 DEF DesktopClear
    <2>2. Record(None, gen', 0).item >= - copies
      BY <1>0 DEF Record
    <2> QED
      BY <2>1, <2>2, RecentBroadcast
  <1>6. CASE RunQueue
    <2>1. UNCHANGED down \/ down' = <<>> \/ down' = Records(items, gen)
      BY <1>6, RunEffect DEF Closed
    <2>2. CASE down' = Records(items, gen)
      BY <2>2, ReplayFacts DEF RecentInv, Recent
    <2> QED
      BY <1>3, <2>1, <2>2
  <1>7. CASE Receive
    <2>1. down \in Seq(WireRecords) /\ down # <<>> /\ down' = Tail(down)
      BY <1>7 DEF Receive, TypeOK
    <2>2. \A i \in DOMAIN down' : i + 1 \in DOMAIN down /\ down'[i] = down[i + 1]
      BY <2>1
    <2> QED
      BY <1>3, <2>2
  <1>8. CASE LinkLost
    BY <1>8 DEF LinkLost
  <1>9. ASSUME NEW ks, DesktopCopy(ks) \/ IOSCopy(ks) PROVE UNCHANGED down
    BY <1>9 DEF DesktopCopy, IOSCopy
  <1>10. ASSUME NEW r, ReadFails(r) PROVE UNCHANGED down
    BY <1>10 DEF ReadFails
  <1>11. ASSUME \/ ServerDrop \/ Detach \/ Present \/ ConnectStart \/ Adopt \/ PushChanged
                \/ PushDeferred \/ DataControlEmpty \/ IOSTouch \/ CompositorRestart
                \/ HandleRecord \/ UNCHANGED vars
         PROVE  UNCHANGED down
    BY <1>11 DEF ServerDrop, ClientDrop, Detach, Present, ConnectStart, Adopt, PushChanged,
       PushDeferred, Push, DataControlEmpty, IOSTouch, CompositorRestart, HandleRecord, vars
  <1> QED
    BY <1>3, <1>4, <1>5, <1>6, <1>7, <1>8, <1>9, <1>10, <1>11, NextSides DEF AppSide

\* What the socket holds for the compositor is recent.
LEMMA RecentUp ==
  ASSUME TypeOK, TypeOK', RecentInv, [Next]_vars
  PROVE  \A i \in DOMAIN up' : up'[i].item >= - copies'
  <1> USE DEF socket
  <1>0. copies \in Nat /\ copies' \in Nat /\ copies' >= copies
    BY StaysRecent
  <1>1. \A i \in DOMAIN up' : up'[i].item \in Int
    <2>1. up' \in Seq(WireRecords)
      BY DEF TypeOK
    <2>2. \A r \in WireRecords : r.item \in Int
      BY DEF WireRecords
    <2> QED
      BY <2>1, <2>2
  <1>2. SUFFICES \A i \in DOMAIN up' : up'[i].item >= - copies
    BY <1>0, <1>1
  <1>3. up \in Seq(WireRecords) /\ \A i \in DOMAIN up : up[i].item >= - copies
    BY DEF TypeOK, RecentInv, Recent
  <1>4. CASE HandleRecord
    <2>1. up # <<>> /\ up' = Tail(up)
      BY <1>4 DEF HandleRecord
    <2>2. \A i \in DOMAIN up' : i + 1 \in DOMAIN up /\ up'[i] = up[i + 1]
      BY <1>3, <2>1
    <2> QED
      BY <1>3, <2>2
  <1>5. CASE RunQueue
    <2> DEFINE job == Head(queue)
    <2>1. UNCHANGED up \/ up' = <<>> \/ (job.op = "push" /\ up' = up \o Sent(job))
      BY <1>5, RunEffect DEF Closed
    <2>2. ASSUME job.op = "push" PROVE \A i \in DOMAIN Sent(job) : Sent(job)[i].item >= - copies
      <3>1. queue # <<>> /\ queue \in Seq(Jobs)
        BY <1>5, RunEffect DEF TypeOK
      <3>2. job.content \in Clips /\ 1 \in DOMAIN queue /\ job = queue[1]
        BY <2>2, <3>1, JobFacts
      <3>3. \A k \in Kinds : job.content[k] >= - copies
        BY <2>2, <3>2 DEF RecentInv, Recent
      <3>4. NextGen(tx_gen) \in 1..GenMax
        BY NextGenFacts DEF TypeOK
      <3>5. CASE Sent(job) = <<>>
        BY <3>5
      <3>6. CASE Sent(job) = <<Record(None, NextGen(tx_gen), 0)>>
        BY <1>0, <3>6 DEF Record
      <3>7. CASE Sent(job) = Records(job.content, NextGen(tx_gen))
        BY <3>2, <3>3, <3>4, <3>7, RecordsFacts
      <3> QED
        BY <3>5, <3>6, <3>7 DEF Sent
    <2>3. ASSUME job.op = "push", up' = up \o Sent(job)
          PROVE  \A i \in DOMAIN up' : up'[i].item >= - copies
      <3> DEFINE s == Sent(job)
      <3>1. s \in Seq(WireRecords) /\ up' = up \o s
        BY <1>5, <2>3, JobFacts, SentFacts, RunEffect
      <3>3. \A i \in DOMAIN s : s[i].item >= - copies
        BY <2>2, <2>3
      <3> HIDE DEF s, job
      <3> DEFINE m == Len(up)
                 n == Len(s)
      <3>4. m \in Nat /\ DOMAIN up = 1..m /\ n \in Nat /\ DOMAIN s = 1..n
        BY <1>3, <3>1
      <3>5. DOMAIN up' = 1..(m + n)
            /\ \A i \in 1..(m + n) : up'[i] = IF i <= m THEN up[i] ELSE s[i - m]
        BY <1>3, <3>1
      <3> HIDE DEF m, n
      <3>2. \A i \in 1..(m + n) : i <= m \/ i - m \in 1..n
        BY <3>4
      <3>6. ASSUME NEW i \in 1..(m + n) PROVE up'[i].item >= - copies
        <4>1. CASE i <= m
          BY <1>3, <3>4, <3>5, <4>1
        <4>2. CASE ~ (i <= m)
          BY <3>2, <3>3, <3>4, <3>5, <4>2
        <4> QED
          BY <4>1, <4>2
      <3> QED
        BY <3>5, <3>6
    <2> QED
      BY <1>3, <2>1, <2>3
  <1>6. ASSUME ServerDrop \/ CompositorRestart PROVE up' = <<>>
    BY <1>6 DEF ServerDrop, CompositorRestart, ClientDrop
  <1>7. ASSUME NEW ks, DesktopCopy(ks) \/ IOSCopy(ks) PROVE UNCHANGED up
    BY <1>7 DEF DesktopCopy, IOSCopy
  <1>8. ASSUME NEW r, ReadDone(r) \/ ReadFails(r) PROVE UNCHANGED up
    BY <1>8 DEF ReadDone, ReadFails
  <1>9. ASSUME \/ Detach \/ Present \/ ConnectStart \/ Adopt \/ PushChanged \/ PushDeferred
               \/ DesktopClear \/ DataControlEmpty \/ IOSTouch \/ LinkLost \/ Receive
               \/ UNCHANGED vars
        PROVE  UNCHANGED up
    BY <1>9 DEF Detach, Present, ConnectStart, Adopt, PushChanged, PushDeferred, Push,
       DesktopClear, DataControlEmpty, IOSTouch, LinkLost, Receive, vars
  <1> QED
    BY <1>3, <1>4, <1>5, <1>6, <1>7, <1>8, <1>9, NextSides DEF AppSide

\* What the queue and the echo guards hold is recent.
LEMMA RecentQueue ==
  ASSUME TypeOK, GenInv, TypeOK', RecentInv, [Next]_vars
  PROVE  /\ \A i \in DOMAIN queue' : queue'[i].op \in {"echo", "push"} =>
               \A k \in Kinds : queue'[i].content[k] >= - copies'
         /\ \A o \in Links, k \in Kinds : echo'[o][k] >= - copies'
  <1> USE DEF app, bounds
  <1>0. copies \in Nat /\ copies' \in Nat /\ copies' >= copies
    BY StaysRecent
  <1>1. queue \in Seq(Jobs) /\ \A i \in DOMAIN queue : queue[i].op \in {"echo", "push"} =>
           \A k \in Kinds : queue[i].content[k] \in Int /\ queue[i].content[k] >= - copies
    <2>1. queue \in Seq(Jobs)
      BY DEF TypeOK
    <2>2. \A job \in Jobs : job.op \in {"echo", "push"} => \A k \in Kinds : job.content[k] \in Int
      BY DEF Jobs, Clips
    <2> QED
      BY <2>1, <2>2 DEF RecentInv, Recent
  <1>2. echo \in [Links -> Clips]
        /\ \A o \in Links, k \in Kinds : echo[o][k] \in Int /\ echo[o][k] >= - copies
    <2>1. echo \in [Links -> Clips]
      BY DEF TypeOK
    <2>2. \A c \in Clips, k \in Kinds : c[k] \in Int
      BY DEF Clips
    <2> QED
      BY <2>1, <2>2 DEF RecentInv, Recent
  <1>3. UNCHANGED echo => \A o \in Links, k \in Kinds : echo'[o][k] >= - copies'
    BY <1>0, <1>2
  <1>4. UNCHANGED queue => \A i \in DOMAIN queue' : queue'[i].op \in {"echo", "push"} =>
                              \A k \in Kinds : queue'[i].content[k] >= - copies'
    BY <1>0, <1>1
  <1>5. CASE RunQueue
    <2> DEFINE job == Head(queue)
    <2>1. queue # <<>> /\ queue' = Tail(queue) /\ copies' = copies
      BY <1>5, RunEffect
    <2>2. \A i \in DOMAIN queue' : i + 1 \in DOMAIN queue /\ queue'[i] = queue[i + 1]
      BY <1>1, <2>1
    <2>3. \A i \in DOMAIN queue' : queue'[i].op \in {"echo", "push"} =>
             \A k \in Kinds : queue'[i].content[k] >= - copies'
      BY <1>1, <2>1, <2>2
    <2>4. echo' = echo \/ (job.op \in {"echo", "push"} /\ Remember(job))
      BY <1>5, RunEffect
    <2>5. job = queue[1] /\ 1 \in DOMAIN queue /\ job.object \in Links
      BY <1>1, <2>1, JobFacts
    <2>6. ASSUME job.op \in {"echo", "push"}, Remember(job)
          PROVE  \A o \in Links, k \in Kinds : echo'[o][k] >= - copies'
      <3> HIDE DEF job
      <3>1. \A k \in Kinds : job.content[k] >= - copies
        BY <1>1, <2>5, <2>6
      <3>2. \A o \in Links : echo'[o] = IF o = job.object THEN job.content ELSE echo[o]
        BY <1>2, <2>5, <2>6 DEF Remember
      <3> QED
        BY <1>2, <2>1, <3>1, <3>2
    <2> QED
      BY <1>3, <2>3, <2>4, <2>6
  <1>6. CASE ConnectStart
    BY <1>3, <1>6, RecentAppend DEF ConnectStart
  <1>7. CASE LinkLost
    BY <1>3, <1>7, RecentAppend DEF LinkLost
  <1>8. CASE Receive
    <2>1. copies' = copies /\ pb' = rx_items' /\ echo' = echo
          /\ queue' = Append(queue, [op |-> "echo", object |-> object, content |-> rx_items'])
      BY <1>8 DEF Receive
    <2>2. \A k \in Kinds : rx_items'[k] >= - copies
      BY <2>1, RecentApp DEF Recent
    <2> QED
      BY <1>3, <2>1, <2>2, RecentAppend
  <1>9. CASE PushChanged \/ PushDeferred
    <2>1. PICK b \in BOOLEAN : Push(b)
      BY <1>9 DEF PushChanged, PushDeferred
    <2>2. copies' = copies /\ echo' = echo
          /\ queue' = Append(queue, [op |-> "push", object |-> object, content |-> pb,
                                     onConnect |-> b])
      BY <2>1 DEF Push
    <2>3. \A k \in Kinds : pb[k] >= - copies
      BY DEF RecentInv, Recent
    <2> QED
      BY <1>3, <2>2, <2>3, RecentAppend
  <1>10. CASE Detach
    <2>1. copies' = copies /\ echo' = echo
      BY <1>10 DEF Detach
    <2>2. CASE queue' = queue
      BY <1>3, <1>4, <2>1, <2>2
    <2>3. CASE queue' = Append(queue, [op |-> "close", object |-> object])
      BY <1>3, <2>1, <2>3, RecentAppend
    <2> QED
      BY <1>10, <2>2, <2>3 DEF Detach
  <1>11. CASE Adopt \/ Present
    BY <1>3, <1>4, <1>11 DEF Adopt, Present
  <1>12. CASE DeskSide
    <2>1. UNCHANGED echo
      <3>1. ASSUME NEW ks, DesktopCopy(ks) \/ IOSCopy(ks) PROVE UNCHANGED echo
        BY <3>1 DEF DesktopCopy, IOSCopy
      <3>2. ASSUME NEW r, ReadDone(r) \/ ReadFails(r) PROVE UNCHANGED echo
        BY <3>2 DEF ReadDone, ReadFails
      <3>3. ASSUME HandleRecord PROVE UNCHANGED echo
        BY <3>3 DEF HandleRecord
      <3> QED
        BY <1>12, <3>1, <3>2, <3>3 DEF DeskSide, DesktopClear, DataControlEmpty,
           CompositorRestart, ServerDrop, IOSTouch, vars
    <2>2. UNCHANGED queue
      BY <1>12, DeskSideFacts
    <2> QED
      BY <1>3, <1>4, <2>1, <2>2
  <1> QED
    BY <1>5, <1>6, <1>7, <1>8, <1>9, <1>10, <1>11, <1>12, LinkSides

\* Every step keeps what is held recent.
LEMMA RecentStep ==
  ASSUME TypeOK, TypeOK', GenInv, RecentInv, [Next]_vars
  PROVE  RecentInv'
  BY RecentDesktop, RecentApp, RecentDown, RecentUp, RecentQueue DEF RecentInv, Recent

-----------------------------------------------------------------------------
(* Agreement: the shape of one copy on its way.                            *)

\* The newest copy goes its way alone.
Clean == alone /\ ~ mixed

\* The kinds that a socket still holds.
KindsOf(s) == {s[n].kind : n \in DOMAIN s}

\* An iOS copy is on its way to the desktop.
PushQueued == \E n \in DOMAIN queue : queue[n].op = "push"
Rising == changed \/ up # <<>> \/ PushQueued

\* A link that is not open, or lost its connection, finds nothing under way, and
\* the queue holds only what closes and connects.
IdleShape ==
    /\ link \in {"closed", "idle", "connecting"} => down = <<>>
    /\ link = "adopting" => connected /\ queue = <<>>
    /\ link \in {"closed", "idle"} => \A n \in DOMAIN queue : queue[n].op = "close"
    /\ link = "connecting" =>
          \A n \in DOMAIN queue : \/ queue[n].op = "close"
                                  \/ queue[n].op = "connect" /\ n = Len(queue)
    /\ link # "open" \/ ~ connected => ~ Rising /\ readers = {} /\ ~ deferred
    /\ link = "open" /\ ~ connected => queue = <<>> /\ down = <<>>

\* What an open link has under way goes one way only, and a push in the queue
\* is the only job and of what the pasteboard holds.
OpenShape ==
    /\ link = "open" => \A n \in DOMAIN queue :
          \/ queue[n].op = "echo"
          \/ /\ queue[n].op = "push" /\ Len(queue) = 1
             /\ queue[n].content = pb /\ queue[n].object = object
    /\ Rising => down = <<>> /\ readers = {} /\ ~ deferred
    /\ changed => queue = <<>> /\ up = <<>>
    /\ up # <<>> => queue = <<>>
    /\ deferred => readers = {} /\ queue = <<>>
    /\ (deferred \/ link = "adopting") /\ down = <<>> => items = Empty

\* The records for the app are those of the bridge's generation and clipboard.
DownShape ==
    \A n \in DOMAIN down :
        /\ down[n].gen = gen
        /\ down[n].kind = None => items = Empty /\ readers = {} /\ Len(down) = 1
        /\ down[n].kind # None => down[n].item = items[down[n].kind]

\* The app has what the bridge has, but for what is still in the socket.
AppShape ==
    /\ rx_gen = gen =>
          /\ pb = rx_items
          /\ \A k \in Kinds : /\ rx_items[k] \in {0, items[k]}
                              /\ rx_items[k] = items[k] \/ k \in KindsOf(down)
    /\ rx_gen # gen =>
          IF down = <<>> /\ readers = {} THEN pb = items
          ELSE \A k \in Kinds : items[k] = 0 \/ k \in KindsOf(down)

\* The representations still read are of different kinds and not held yet.
ReaderShape ==
    /\ \A r \in readers : items[r[1]] = 0
    /\ \A r, s \in readers : r[1] = s[1] => r = s

\* The desktop's clipboard is the pasteboard's, or on its way there.
Falls == DownShape /\ AppShape /\ ReaderShape

\* The pasteboard is on its way to the desktop: the bridge has what the app
\* pushed, but for what is still in the socket.
UpShape ==
    \A n \in DOMAIN up :
        /\ up[n].gen = tx_gen
        /\ up[n].kind = None => pb = Empty /\ Len(up) = 1
        /\ up[n].kind # None => up[n].item = pb[up[n].kind]
\* Of a push under way the bridge holds all but what is still in the socket.
Catching ==
    \A k \in Kinds : items[k] \in {0, pb[k]} /\ (items[k] = pb[k] \/ k \in KindsOf(up))
BridgeShape ==
    /\ PushUnderWay => rx_gen # gen /\ ~ emptied /\ Catching
    /\ ~ PushUnderWay => \A k \in Kinds : pb[k] = 0 \/ k \in KindsOf(up)
Climbs == UpShape /\ BridgeShape

\* A push of c is not held back.
Goes(c, on) == IF c = Empty THEN ~ on ELSE on \/ c # echo[object]

\* Where the newest copy is: on its way up, at rest or on its way down, or
\* about to be pushed.
Heading ==
    IF up # <<>> THEN Climbs
    ELSE \/ emptied \/ Falls
         \/ changed /\ Goes(pb, FALSE)
         \/ \E n \in DOMAIN queue : queue[n].op = "push" /\ Goes(queue[n].content, queue[n].onConnect)

\* The inductive invariant behind Agreement.
AgreeInv == Clean => IdleShape /\ OpenShape /\ Heading

\* Each record's kind is among them.
LEMMA KindsMember ==
  ASSUME NEW s, NEW n \in DOMAIN s
  PROVE  s[n].kind \in KindsOf(s)
  BY DEF KindsOf

\* The records of a clipboard carry each of its representations.
LEMMA RecordsKinds ==
  ASSUME NEW c \in Clips, NEW g
  PROVE  /\ \A i \in DOMAIN Records(c, g) :
               /\ Records(c, g)[i].kind \in Kinds /\ Records(c, g)[i].gen = g
               /\ Records(c, g)[i].item = c[Records(c, g)[i].kind]
         /\ \A k \in Kinds : c[k] = 0 \/ k \in KindsOf(Records(c, g))
  <1> DEFINE S == SetKinds(c)
             N == Cardinality(S)
             q == SetToSeq(S)
  <1>1. S \subseteq Kinds /\ IsFiniteSet(S) /\ N \in Nat
    BY ConstantsAreFinite, FS_Subset, FS_CardinalityType DEF SetKinds
  <1>2. q \in [1..N -> S] /\ IsInjective(q)
    <2>1. PICK f : f \in Bijection(1..N, S)
      BY <1>1, FS_CardinalityType DEF ExistsBijection
    <2>2. f \in [1..N -> S] /\ IsInjective(f)
      BY <2>1 DEF Bijection, Injection, IsInjective
    <2> QED
      BY <2>2 DEF SetToSeq
  <1>3. Records(c, g) = [i \in 1..N |-> Record(q[i], g, c[q[i]])]
    BY DEF Records
  <1>4. \A k \in S : \E i \in 1..N : q[i] = k
    <2> HIDE DEF q
    <2>1. q \in Injection(1..N, S)
      BY <1>2 DEF Injection, IsInjective
    <2>2. IsFiniteSet(1..N) /\ Cardinality(1..N) = N
      BY <1>1, FS_Interval
    <2>3. q \in Surjection(1..N, S)
      BY <1>1, <2>1, <2>2, FS_Injection
    <2> QED
      BY <2>3 DEF Surjection
  <1> HIDE DEF N, q
  <1>5. \A i \in 1..N : q[i] \in S
    BY <1>2
  <1>6. \A i \in 1..N : Records(c, g)[i] = Record(q[i], g, c[q[i]])
    BY <1>3
  <1>7. DOMAIN Records(c, g) = 1..N
    BY <1>3
  <1>8. \A i \in DOMAIN Records(c, g) :
               /\ Records(c, g)[i].kind \in Kinds /\ Records(c, g)[i].gen = g
               /\ Records(c, g)[i].item = c[Records(c, g)[i].kind]
    BY <1>1, <1>5, <1>6, <1>7 DEF Record
  <1>9. ASSUME NEW k \in Kinds, c[k] # 0 PROVE k \in KindsOf(Records(c, g))
    <2>1. k \in S
      BY <1>9 DEF SetKinds
    <2>2. PICK i \in 1..N : q[i] = k
      BY <1>4, <2>1
    <2>3. Records(c, g)[i].kind = k
      <3>1. Records(c, g)[i] = Record(q[i], g, c[q[i]])
        BY <1>6
      <3>2. Record(q[i], g, c[q[i]]).kind = q[i]
        BY DEF Record
      <3> QED
        BY <2>2, <3>1, <3>2
    <2> QED
      BY <1>7, <2>3, KindsMember
  <1> QED
    BY <1>8, <1>9

\* Nothing taken leaves the app as it is.
LEMMA TakeNone ==
  ASSUME Take(<<>>)
  PROVE  UNCHANGED <<rx_gen, rx_items>>
  <1> DEFINE f == CHOOSE f : Receives(<<>>, f, 0)
  <1>1. Len(<<>>) = 0
    OBVIOUS
  <1>2. Receives(<<>>, f, 0)
    BY ReceivesExists
  <1>3. rx_gen' = f[0][1] /\ rx_items' = f[0][2]
    BY <1>1 DEF Take, Receives
  <1> HIDE DEF f
  <1>4. f[0] = <<rx_gen, rx_items>>
    BY <1>2 DEF Receives
  <1> QED
    BY <1>3, <1>4

\* One record is received.
LEMMA TakeOne ==
  ASSUME NEW r, Take(<<r>>)
  PROVE  /\ rx_gen' = Received(<<rx_gen, rx_items>>, r)[1]
         /\ rx_items' = Received(<<rx_gen, rx_items>>, r)[2]
  <1> DEFINE recs == <<r>>
             f == CHOOSE f : Receives(recs, f, 1)
  <1>1. Len(recs) = 1 /\ recs[1] = r
    OBVIOUS
  <1>2. Receives(recs, f, 1)
    BY ReceivesExists
  <1>3. rx_gen' = f[1][1] /\ rx_items' = f[1][2]
    BY <1>1 DEF Take, Receives
  <1> HIDE DEF f, recs
  <1>4. f[0] = <<rx_gen, rx_items>> /\ f[1] = Received(f[0], recs[1])
    BY <1>2 DEF Receives
  <1> QED
    BY <1>1, <1>3, <1>4

\* When nothing is on its way down, the app has what the bridge has.
LEMMA AtRest ==
  ASSUME TypeOK, Falls, down = <<>>, readers = {}
  PROVE  pb = items
  <1>1. KindsOf(down) = {}
    BY DEF KindsOf
  <1>2. CASE rx_gen = gen
    <2>1. pb = rx_items /\ \A k \in Kinds : rx_items[k] = items[k]
      BY <1>1, <1>2 DEF Falls, AppShape
    <2>2. rx_items \in [Kinds -> (- MaxCopies)..MaxCopies] /\ items \in [Kinds -> (- MaxCopies)..MaxCopies]
      BY DEF TypeOK, Clips
    <2> QED
      BY <2>1, <2>2
  <1>3. CASE rx_gen # gen
    BY <1>3 DEF Falls, AppShape
  <1> QED
    BY <1>2, <1>3

\* The shape of an open connection whose queue is empty and whose deferral is
\* over.
LEMMA OpenShapes ==
  ASSUME link' = "open", connected', queue' = <<>>, ~ deferred',
         changed' => up' = <<>>, changed' \/ up' # <<>> => down' = <<>> /\ readers' = {}
  PROVE  IdleShape' /\ OpenShape'
  <1>1. DOMAIN queue' = {} /\ ~ PushQueued'
    BY DEF PushQueued
  <1>2. IdleShape'
    BY <1>1 DEF IdleShape
  <1>3. Rising' => down' = <<>> /\ readers' = {}
    BY <1>1 DEF Rising
  <1> QED
    BY <1>1, <1>2, <1>3 DEF OpenShape

\* The shape of a link without a connection.
LEMMA ClosedShapes ==
  ASSUME link' \in {"closed", "idle", "connecting"}, ~ changed', up' = <<>>, down' = <<>>,
         readers' = {}, ~ deferred',
         \A n \in DOMAIN queue' :
            \/ queue'[n].op = "close"
            \/ link' = "connecting" /\ queue'[n].op = "connect" /\ n = Len(queue')
  PROVE  IdleShape' /\ OpenShape'
  <1>1. ~ Rising'
    BY DEF Rising, PushQueued
  <1>2. IdleShape'
    BY <1>1 DEF IdleShape
  <1>3. OpenShape'
    BY <1>1 DEF OpenShape
  <1> QED
    BY <1>2, <1>3

\* A desktop copy made while all is quiet is on its way to the app.
LEMMA AgreeDesktop ==
  ASSUME TypeOK, Quiet, ~ mixed', NEW ks \in SUBSET Kinds, ks # {}, DesktopCopy(ks)
  PROVE  IdleShape' /\ OpenShape' /\ Heading'
  <1>1. /\ UNCHANGED <<link, connected, queue, deferred, changed, up, down, rx_gen>>
        /\ items' = Empty /\ gen' = NextGen(gen) /\ ~ ComesRound
        /\ \E n : readers' = {<<k, n>> : k \in ks}
    BY DEF DesktopCopy, Ingest, socket, app, paste
  <1>2. /\ link = "open" /\ connected /\ ~ changed /\ ~ deferred
        /\ down = <<>> /\ up = <<>> /\ queue = <<>>
    BY DEF Quiet
  <1>3. rx_gen' # gen'
    BY <1>1 DEF ComesRound
  <1>4. IdleShape' /\ OpenShape'
    BY <1>1, <1>2, OpenShapes
  <1>5. PICK n : readers' = {<<k, n>> : k \in ks}
    BY <1>1
  <1>6. readers' # {}
    <2>1. PICK k : k \in ks
      OBVIOUS
    <2>2. <<k, n>> \in readers'
      BY <1>5, <2>1
    <2> QED
      BY <2>2
  <1>7. ReaderShape'
    <2>1. \A r \in readers' : \E k \in ks : r = <<k, n>>
      BY <1>5
    <2>2. \A r \in readers' : r[1] \in Kinds
      BY <2>1
    <2> QED
      BY <1>1, <2>1, <2>2, ClipFacts DEF ReaderShape
  <1>8. DownShape'
    BY <1>1, <1>2 DEF DownShape
  <1>9. AppShape'
    BY <1>1, <1>3, <1>6, ClipFacts DEF AppShape
  <1> QED
    BY <1>1, <1>2, <1>4, <1>7, <1>8, <1>9 DEF Heading, Falls

\* So is a clear (data_device_set_selection without a source).
LEMMA AgreeClear ==
  ASSUME TypeOK, Quiet, ~ mixed', DesktopClear
  PROVE  IdleShape' /\ OpenShape' /\ Heading'
  <1>1. /\ UNCHANGED <<link, connected, queue, deferred, changed, up, rx_gen>>
        /\ items' = Empty /\ gen' = NextGen(gen) /\ ~ ComesRound /\ readers' = {}
        /\ Broadcast(<<Record(None, gen', 0)>>)
    BY DEF DesktopClear, app, paste
  <1>2. /\ link = "open" /\ connected /\ ~ changed /\ ~ deferred
        /\ down = <<>> /\ up = <<>> /\ queue = <<>>
    BY DEF Quiet
  <1>3. rx_gen' # gen'
    BY <1>1 DEF ComesRound
  <1>4. IdleShape' /\ OpenShape'
    BY <1>1, <1>2, OpenShapes
  <1>5. down' = <<Record(None, gen', 0)>>
    BY <1>1, <1>2 DEF Broadcast
  <1>6. Len(down') = 1 /\ DOMAIN down' = {1} /\ down'[1] = Record(None, gen', 0) /\ down' # <<>>
    BY <1>5
  <1>7. down'[1].gen = gen' /\ down'[1].kind = None
    BY <1>6 DEF Record
  <1>8. DownShape'
    BY <1>1, <1>6, <1>7 DEF DownShape
  <1>9. AppShape' /\ ReaderShape'
    BY <1>1, <1>3, <1>6, ClipFacts DEF AppShape, ReaderShape
  <1> QED
    BY <1>1, <1>2, <1>4, <1>8, <1>9 DEF Heading, Falls

\* An empty source leaves the store to itself.
LEMMA AgreeEmptied ==
  ASSUME TypeOK, Quiet, DataControlEmpty
  PROVE  IdleShape' /\ OpenShape' /\ Heading'
  <1>1. /\ UNCHANGED <<link, connected, queue, deferred, changed, up, down>>
        /\ emptied'
    BY DEF DataControlEmpty, socket, app, paste
  <1>2. /\ link = "open" /\ connected /\ ~ changed /\ ~ deferred
        /\ down = <<>> /\ up = <<>> /\ queue = <<>>
    BY DEF Quiet
  <1>3. IdleShape' /\ OpenShape'
    BY <1>1, <1>2, OpenShapes
  <1> QED
    BY <1>1, <1>2, <1>3 DEF Heading

\* An iOS copy made while all is quiet is none the link knows.
LEMMA AgreeIOS ==
  ASSUME TypeOK, RecentInv, Quiet, NEW ks \in SUBSET Kinds, IOSCopy(ks)
  PROVE  IdleShape' /\ OpenShape' /\ Heading'
  <1>1. /\ UNCHANGED <<link, object, connected, queue, deferred, up, down, readers, echo>>
        /\ changed' /\ pb' = Whole(- copies', ks) /\ copies' = copies + 1
    BY DEF IOSCopy, UserCopies, UserActs, desktop, socket, app
  <1>2. /\ link = "open" /\ connected /\ ~ deferred /\ readers = {}
        /\ down = <<>> /\ up = <<>> /\ queue = <<>>
    BY DEF Quiet
  <1>3. IdleShape' /\ OpenShape'
    BY <1>1, <1>2, OpenShapes
  <1>4. ASSUME pb' # Empty PROVE pb' # echo'[object']
    <2>1. PICK k \in Kinds : k \in ks /\ pb'[k] = - copies'
      BY <1>1, <1>4 DEF Whole, Empty
    <2>2. object \in Links /\ copies \in Nat
      BY <1>2, ConstantsAreFinite DEF TypeOK, Links
    <2>3. echo[object][k] \in Int /\ echo[object][k] >= - copies
      <3>1. echo[object] \in Clips
        BY <2>2 DEF TypeOK
      <3> QED
        BY <2>2, <3>1 DEF RecentInv, Recent, Clips
    <2>4. echo[object][k] # pb'[k]
      BY <1>1, <2>1, <2>2, <2>3
    <2> QED
      BY <1>1, <2>4
  <1>5. Goes(pb, FALSE)'
    BY <1>4 DEF Goes
  <1> QED
    BY <1>1, <1>2, <1>3, <1>5 DEF Heading

\* While all is quiet the desktop's clipboard is the pasteboard's.
LEMMA QuietFalls ==
  ASSUME Quiet, Heading
  PROVE  emptied \/ Falls
  <1>1. up = <<>> /\ ~ changed /\ DOMAIN queue = {}
    BY DEF Quiet
  <1> QED
    BY <1>1 DEF Heading

\* A step that leaves both clipboards and the socket to the app alone keeps this.
LEMMA FallsKeep ==
  ASSUME emptied \/ Falls, UNCHANGED <<items, readers, gen, emptied, down, rx_gen, rx_items, pb>>
  PROVE  emptied' \/ Falls'
  BY DEF Falls, DownShape, AppShape, ReaderShape

\* A link at rest has nothing under way.
LEMMA IdleHeading ==
  ASSUME Heading, ~ Rising
  PROVE  up = <<>> /\ ~ changed /\ (emptied \/ Falls)
  BY DEF Heading, Rising, PushQueued

\* A connection lost while all is quiet loses nothing.
LEMMA AgreeDrop ==
  ASSUME TypeOK, Quiet, IdleShape, OpenShape, Heading, ServerDrop
  PROVE  IdleShape' /\ OpenShape' /\ Heading'
  <1>1. /\ UNCHANGED <<link, object, queue, deferred, changed, down, readers, emptied, items, gen,
                       rx_gen, rx_items, pb>>
        /\ up' = <<>> /\ connected' = FALSE
    BY DEF ServerDrop, ClientDrop, desktop, app, paste
  <1>2. /\ link = "open" /\ ~ changed /\ ~ deferred /\ readers = {}
        /\ down = <<>> /\ queue = <<>>
    BY DEF Quiet
  <1>3. ~ Rising' /\ DOMAIN queue' = {}
    BY <1>1, <1>2 DEF Rising, PushQueued
  <1>4. IdleShape' /\ OpenShape'
    BY <1>1, <1>2, <1>3 DEF IdleShape, OpenShape
  <1>5. emptied' \/ Falls'
    BY <1>1, QuietFalls, FallsKeep
  <1> QED
    BY <1>1, <1>4, <1>5 DEF Heading

\* Nor does a link closed then.
LEMMA AgreeDetach ==
  ASSUME TypeOK, Quiet, IdleShape, OpenShape, Heading, Detach
  PROVE  IdleShape' /\ OpenShape' /\ Heading'
  <1>1. /\ UNCHANGED <<object, changed, down, up, readers, emptied, items, gen,
                       rx_gen, rx_items, pb>>
        /\ link' = "closed" /\ deferred' = FALSE
        /\ queue' = <<[op |-> "close", object |-> object]>>
    BY DEF Detach, desktop, socket, paste, Quiet
  <1>2. /\ ~ changed /\ readers = {} /\ down = <<>> /\ up = <<>>
    BY DEF Quiet
  <1>3. DOMAIN queue' = {1} /\ queue'[1].op = "close"
    BY <1>1
  <1>5. IdleShape' /\ OpenShape'
    BY <1>1, <1>2, <1>3, ClosedShapes
  <1>6. emptied' \/ Falls'
    BY <1>1, QuietFalls, FallsKeep
  <1> QED
    BY <1>1, <1>2, <1>5, <1>6 DEF Heading

\* A change without contents pushes nothing new.
LEMMA AgreeTouch ==
  ASSUME TypeOK, Quiet, IdleShape, OpenShape, Heading, IOSTouch
  PROVE  IdleShape' /\ OpenShape' /\ Heading'
  <1>1. /\ UNCHANGED <<link, object, connected, queue, deferred, down, up, readers, emptied, items,
                       gen, rx_gen, rx_items, pb>>
    BY DEF IOSTouch, desktop, socket, app
  <1>2. /\ link = "open" /\ connected /\ ~ deferred /\ readers = {}
        /\ down = <<>> /\ up = <<>> /\ queue = <<>>
    BY DEF Quiet
  <1>3. IdleShape' /\ OpenShape'
    BY <1>1, <1>2, OpenShapes
  <1>4. emptied' \/ Falls'
    BY <1>1, QuietFalls, FallsKeep
  <1> QED
    BY <1>1, <1>2, <1>3, <1>4 DEF Heading

\* The app starts to connect.
LEMMA AgreeConnect ==
  ASSUME TypeOK, IdleShape, OpenShape, Heading, ConnectStart
  PROVE  IdleShape' /\ OpenShape' /\ Heading'
  <1>1. /\ UNCHANGED <<object, connected, changed, deferred, down, up, readers, emptied, items,
                       gen, rx_gen, rx_items, pb>>
        /\ link = "idle" /\ link' = "connecting"
        /\ queue' = Append(queue, [op |-> "connect", object |-> object])
    BY DEF ConnectStart, desktop, socket, paste
  <1>2. /\ ~ Rising /\ ~ deferred /\ readers = {} /\ down = <<>>
        /\ \A n \in DOMAIN queue : queue[n].op = "close"
    BY <1>1 DEF IdleShape
  <1>3. /\ Len(queue') = Len(queue) + 1 /\ DOMAIN queue' = 1..Len(queue')
        /\ \A n \in DOMAIN queue' : \/ n = Len(queue') /\ queue'[n].op = "connect"
                                    \/ n \in DOMAIN queue /\ queue'[n] = queue[n]
    <2>1. queue \in Seq(Jobs)
      BY DEF TypeOK
    <2> QED
      BY <1>1, <2>1
  <1>4. ~ changed /\ up = <<>>
    BY <1>2, IdleHeading
  <1>5. IdleShape' /\ OpenShape'
    BY <1>1, <1>2, <1>3, <1>4, ClosedShapes
  <1>6. emptied' \/ Falls'
    BY <1>1, <1>2, IdleHeading, FallsKeep
  <1> QED
    BY <1>1, <1>2, <1>5, <1>6, IdleHeading DEF Heading

\* It adopts a connection.
LEMMA AgreeAdopt ==
  ASSUME TypeOK, IdleShape, OpenShape, Heading, Adopt
  PROVE  IdleShape' /\ OpenShape' /\ Heading'
  <1>1. /\ UNCHANGED <<object, connected, queue, down, up, readers, emptied, items,
                       gen, rx_gen, rx_items, pb>>
        /\ link = "adopting" /\ link' = "open" /\ changed' = FALSE /\ deferred' = TRUE
    BY DEF Adopt, desktop, socket
  <1>2. /\ ~ Rising /\ ~ deferred /\ readers = {} /\ queue = <<>> /\ connected
    BY <1>1 DEF IdleShape
  <1>3. up = <<>> /\ DOMAIN queue' = {}
    BY <1>1, <1>2 DEF Rising
  <1>4. ~ Rising'
    BY <1>1, <1>3 DEF Rising, PushQueued
  <1>5. down = <<>> => items = Empty
    BY <1>1 DEF OpenShape
  <1>6. IdleShape' /\ OpenShape'
    BY <1>1, <1>2, <1>3, <1>4, <1>5 DEF IdleShape, OpenShape
  <1>7. emptied' \/ Falls'
    BY <1>1, <1>2, IdleHeading, FallsKeep
  <1> QED
    BY <1>1, <1>3, <1>6, <1>7 DEF Heading

\* It finds its connection lost.
LEMMA AgreeLost ==
  ASSUME TypeOK, IdleShape, OpenShape, Heading, LinkLost
  PROVE  IdleShape' /\ OpenShape' /\ Heading'
  <1>1. /\ UNCHANGED <<object, connected, changed, up, readers, emptied, items, gen, pb>>
        /\ link = "open" /\ ~ connected /\ link' = "idle" /\ deferred' = FALSE /\ down' = <<>>
        /\ queue' = Append(queue, [op |-> "close", object |-> object])
    BY DEF LinkLost, desktop, paste
  <1>2. /\ ~ Rising /\ readers = {} /\ queue = <<>> /\ down = <<>>
    BY <1>1 DEF IdleShape
  <1>3. UNCHANGED <<rx_gen, rx_items>>
    <2>1. PICK n \in 0..Len(down) : Take(SubSeq(down, 1, n))
      BY DEF LinkLost
    <2>2. n = 0 /\ SubSeq(down, 1, n) = <<>>
      BY <1>2
    <2> QED
      BY <2>1, <2>2, TakeNone
  <1>4. DOMAIN queue' = {1} /\ queue'[1].op = "close"
    BY <1>1, <1>2
  <1>5. up = <<>> /\ ~ changed
    BY <1>2 DEF Rising
  <1>7. IdleShape' /\ OpenShape'
    BY <1>1, <1>2, <1>4, <1>5, ClosedShapes
  <1>8. emptied' \/ Falls'
    BY <1>1, <1>2, <1>3, IdleHeading, FallsKeep
  <1> QED
    BY <1>1, <1>5, <1>7, <1>8 DEF Heading

\* Another link takes its place, which has received nothing.
LEMMA AgreePresent ==
  ASSUME TypeOK, GenInv, IdleShape, OpenShape, Heading, Present
  PROVE  IdleShape' /\ OpenShape' /\ Heading'
  <1>1. /\ UNCHANGED <<connected, queue, deferred, down, up, readers, emptied, items, gen, pb>>
        /\ link = "closed" /\ link' = "idle" /\ changed' = FALSE
        /\ rx_gen' = 0 /\ rx_items' = Empty
    BY DEF Present, desktop, socket
  <1>2. /\ ~ Rising /\ ~ deferred /\ readers = {} /\ down = <<>>
        /\ \A n \in DOMAIN queue : queue[n].op = "close"
    BY <1>1 DEF IdleShape
  <1>3. up = <<>>
    BY <1>2, IdleHeading
  <1>4. IdleShape' /\ OpenShape'
    BY <1>1, <1>2, <1>3, ClosedShapes
  <1>5. ASSUME Falls PROVE Falls'
    <2>1. pb = items
      BY <1>2, <1>5, AtRest
    <2>2. gen = 0 => items = Empty
      BY DEF GenInv
    <2>3. DownShape' /\ ReaderShape'
      BY <1>1, <1>2 DEF DownShape, ReaderShape
    <2>4. AppShape'
      BY <1>1, <1>2, <2>1, <2>2, ClipFacts DEF AppShape
    <2> QED
      BY <2>3, <2>4 DEF Falls
  <1> QED
    BY <1>1, <1>2, <1>3, <1>4, <1>5, IdleHeading DEF Heading

\* While a representation is read, nothing rises.
LEMMA ReadShape ==
  ASSUME IdleShape, OpenShape, Heading, readers # {}
  PROVE  /\ link = "open" /\ connected /\ ~ Rising /\ ~ deferred /\ up = <<>> /\ ~ changed
         /\ \A n \in DOMAIN queue : queue[n].op = "echo"
         /\ emptied \/ Falls
  <1>1. link = "open" /\ connected /\ ~ Rising /\ ~ deferred
    BY DEF IdleShape, OpenShape
  <1>2. \A n \in DOMAIN queue : queue[n].op = "echo"
    BY <1>1 DEF OpenShape, Rising, PushQueued
  <1> QED
    BY <1>1, <1>2, IdleHeading

\* The shape of an open connection that nothing rises on.
LEMMA FallingShapes ==
  ASSUME link' = "open", connected', ~ deferred', up' = <<>>, ~ changed',
         \A n \in DOMAIN queue' : queue'[n].op = "echo"
  PROVE  IdleShape' /\ OpenShape'
  <1>1. ~ Rising'
    BY DEF Rising, PushQueued
  <1>2. IdleShape'
    BY <1>1 DEF IdleShape
  <1>3. OpenShape'
    BY <1>1 DEF OpenShape
  <1> QED
    BY <1>2, <1>3

\* A representation read completely is on its way down.
LEMMA AgreeReadDone ==
  ASSUME TypeOK, IdleShape, OpenShape, Heading, NEW r \in readers, ReadDone(r)
  PROVE  IdleShape' /\ OpenShape' /\ Heading'
  <1> DEFINE rec == Record(r[1], gen, r[2])
  <1>1. /\ UNCHANGED <<link, object, connected, queue, changed, deferred, up, emptied, gen,
                       rx_gen, rx_items, pb>>
        /\ readers' = readers \ {r} /\ items' = [items EXCEPT ![r[1]] = r[2]]
        /\ Broadcast(<<rec>>)
    BY DEF ReadDone, app, paste
  <1>2. /\ link = "open" /\ connected /\ ~ deferred /\ up = <<>> /\ ~ changed
        /\ \A n \in DOMAIN queue : queue[n].op = "echo"
        /\ emptied \/ Falls
    BY ReadShape
  <1>3. IdleShape' /\ OpenShape'
    BY <1>1, <1>2, FallingShapes
  <1>4. /\ r[1] \in Kinds /\ r[2] # 0
        /\ \A k \in Kinds : items'[k] = IF k = r[1] THEN r[2] ELSE items[k]
        /\ \A s \in readers : s[1] \in Kinds
    BY <1>1 DEF TypeOK, Clips
  <1>5. /\ down \in Seq(WireRecords) /\ down' = down \o <<rec>>
        /\ rec.kind = r[1] /\ rec.gen = gen /\ rec.item = r[2]
    BY <1>1, <1>2 DEF TypeOK, Broadcast, Record
  <1> HIDE DEF rec
  <1>6. /\ down' # <<>>
        /\ \A n \in DOMAIN down' : (n \in DOMAIN down /\ down'[n] = down[n]) \/ down'[n] = rec
        /\ \A n \in DOMAIN down : n \in DOMAIN down' /\ down'[n] = down[n]
        /\ \E n \in DOMAIN down' : down'[n] = rec
    <2> DEFINE m == Len(down)
    <2>1. m \in Nat /\ DOMAIN down = 1..m
      BY <1>5
    <2>2. DOMAIN down' = 1..(m + 1) /\ down'[m + 1] = rec
          /\ \A n \in 1..m : down'[n] = down[n]
      BY <1>5
    <2> HIDE DEF m
    <2>3. m + 1 \in DOMAIN down' /\ \A n \in DOMAIN down' : n \in 1..m \/ n = m + 1
      BY <2>1, <2>2
    <2>4. \A n \in 1..m : n \in DOMAIN down'
      BY <2>1, <2>2
    <2> QED
      BY <2>1, <2>2, <2>3, <2>4
  <1>7. KindsOf(down') = KindsOf(down) \cup {r[1]}
    BY <1>5, <1>6 DEF KindsOf
  <1>8. ASSUME Falls PROVE Falls'
    <2>1. /\ \A n \in DOMAIN down : /\ down[n].gen = gen /\ down[n].kind # None
                                    /\ down[n].item = items[down[n].kind]
          /\ items[r[1]] = 0
      BY <1>8 DEF Falls, DownShape, ReaderShape
    <2>2. \A n \in DOMAIN down : down[n].kind \in Kinds /\ down[n].item # 0
      <3>1. \A n \in DOMAIN down : down[n] \in WireRecords
        BY <1>5
      <3> QED
        BY <2>1, <3>1 DEF WireRecords
    <2>3. \A n \in DOMAIN down : down[n].item = items'[down[n].kind]
      BY <1>4, <2>1, <2>2
    <2>4. rec.kind # None /\ rec.item = items'[rec.kind]
      BY <1>4, <1>5, ConstantsAreFinite
    <2>5. DownShape'
      BY <1>1, <1>5, <1>6, <2>1, <2>3, <2>4 DEF DownShape
    <2>6. ReaderShape'
      <3>1. \A s \in readers' : s \in readers /\ s[1] # r[1] /\ items'[s[1]] = 0
        BY <1>1, <1>4, <1>8 DEF Falls, ReaderShape
      <3> QED
        BY <1>8, <3>1 DEF Falls, ReaderShape
    <2>7. AppShape'
      <3>1. CASE rx_gen = gen
        <4>1. /\ pb = rx_items
              /\ \A k \in Kinds : /\ rx_items[k] \in {0, items[k]}
                                  /\ rx_items[k] = items[k] \/ k \in KindsOf(down)
          BY <1>8, <3>1 DEF Falls, AppShape
        <4>2. \A k \in Kinds : /\ rx_items[k] \in {0, items'[k]}
                               /\ rx_items[k] = items'[k] \/ k \in KindsOf(down')
          BY <1>4, <1>7, <2>1, <4>1
        <4> QED
          BY <1>1, <3>1, <4>1, <4>2 DEF AppShape
      <3>2. CASE rx_gen # gen
        <4>1. \A k \in Kinds : items[k] = 0 \/ k \in KindsOf(down)
          BY <1>8, <3>2 DEF Falls, AppShape
        <4>2. \A k \in Kinds : items'[k] = 0 \/ k \in KindsOf(down')
          BY <1>4, <1>7, <4>1
        <4> QED
          BY <1>1, <1>6, <3>2, <4>2 DEF AppShape
      <3> QED
        BY <3>1, <3>2
    <2> QED
      BY <2>5, <2>6, <2>7 DEF Falls
  <1> QED
    BY <1>1, <1>2, <1>3, <1>8 DEF Heading

\* A read that fails leaves another to be read, or something that was.
LEMMA AgreeReadFails ==
  ASSUME TypeOK, SnapshotIsStore, IdleShape, OpenShape, Heading, NEW r \in readers, ReadFails(r),
         alone'
  PROVE  IdleShape' /\ OpenShape' /\ Heading'
  <1>1. /\ UNCHANGED <<link, object, connected, queue, changed, deferred, up, down, emptied, gen,
                       items, rx_gen, rx_items, pb>>
        /\ readers' = readers \ {r} /\ (store # Empty \/ readers' # {})
    BY DEF ReadFails, socket, app, paste
  <1>2. /\ link = "open" /\ connected /\ ~ deferred /\ up = <<>> /\ ~ changed
        /\ \A n \in DOMAIN queue : queue[n].op = "echo"
        /\ emptied \/ Falls
    BY ReadShape
  <1>3. IdleShape' /\ OpenShape'
    BY <1>1, <1>2, FallingShapes
  <1>4. ASSUME Falls, ~ emptied PROVE Falls'
    <2>1. DownShape' /\ ReaderShape'
      BY <1>1, <1>4 DEF Falls, DownShape, ReaderShape
    <2>2. CASE rx_gen = gen
      BY <1>1, <1>4, <2>1, <2>2 DEF Falls, AppShape
    <2>3. CASE rx_gen # gen
      <3>1. \A k \in Kinds : items[k] = 0 \/ k \in KindsOf(down)
        BY <1>4, <2>3 DEF Falls, AppShape
      <3>2. ASSUME down = <<>>, readers' = {} PROVE FALSE
        <4>1. \A k \in Kinds : items[k] = 0
          BY <3>1, <3>2 DEF KindsOf
        <4>2. items = Empty
          BY <4>1 DEF TypeOK, Clips, Empty
        <4> QED
          BY <1>1, <1>4, <3>2, <4>2 DEF SnapshotIsStore
      <3>3. AppShape'
        BY <1>1, <2>3, <3>1, <3>2 DEF AppShape
      <3> QED
        BY <2>1, <3>3 DEF Falls
    <2> QED
      BY <2>2, <2>3
  <1> QED
    BY <1>1, <1>2, <1>3, <1>4 DEF Heading

\* The tail of a socket, and the kinds it still holds.
LEMMA TailKinds ==
  ASSUME NEW s \in Seq(WireRecords), s # <<>>
  PROVE  /\ Tail(s) \in Seq(WireRecords) /\ Head(s) \in WireRecords
         /\ 1 \in DOMAIN s /\ Head(s) = s[1]
         /\ Len(s) = 1 => Tail(s) = <<>>
         /\ \A n \in DOMAIN Tail(s) : n + 1 \in DOMAIN s /\ Tail(s)[n] = s[n + 1] /\ Len(s) # 1
         /\ \A k \in KindsOf(s) : k = Head(s).kind \/ k \in KindsOf(Tail(s))
  <1> DEFINE t == Tail(s)
             m == Len(s)
  <1>1. m \in Nat /\ m # 0 /\ DOMAIN s = 1..m /\ t \in Seq(WireRecords)
        /\ DOMAIN t = 1..(m - 1) /\ \A n \in 1..(m - 1) : t[n] = s[n + 1]
    OBVIOUS
  <1>2. Head(s) = s[1] /\ Head(s) \in WireRecords
    OBVIOUS
  <1> HIDE DEF t, m
  <1>3. m = 1 => t = <<>>
    <2>1. m = 1 => Len(t) = 0
      BY <1>1
    <2> QED
      BY <1>1, <2>1
  <1>4. \A n \in DOMAIN t : n + 1 \in DOMAIN s /\ t[n] = s[n + 1] /\ m # 1
    BY <1>1
  <1>5. ASSUME NEW n \in DOMAIN s, n # 1 PROVE s[n].kind \in KindsOf(t)
    <2>1. n - 1 \in DOMAIN t /\ n - 1 + 1 = n
      BY <1>1, <1>5
    <2>2. t[n - 1] = s[n]
      BY <1>4, <2>1
    <2> QED
      BY <2>1, <2>2, KindsMember
  <1>6. \A k \in KindsOf(s) : k = s[1].kind \/ k \in KindsOf(t)
    BY <1>5 DEF KindsOf
  <1>7. 1 \in DOMAIN s
    BY <1>1
  <1> QED
    BY <1>1, <1>2, <1>3, <1>4, <1>6, <1>7 DEF t, m

\* What rises finds the connection open and nothing coming down.
LEMMA RisingShape ==
  ASSUME IdleShape, OpenShape, Rising
  PROVE  link = "open" /\ connected /\ down = <<>> /\ readers = {} /\ ~ deferred
  BY DEF IdleShape, OpenShape

\* The bridge takes in a record of the app's.
LEMMA AgreeHandle ==
  ASSUME TypeOK, IdleShape, OpenShape, Heading, HandleRecord, ~ mixed'
  PROVE  IdleShape' /\ OpenShape' /\ Heading'
  <1> DEFINE r == Head(up)
  <1>1. /\ UNCHANGED <<link, object, connected, queue, changed, deferred, down, rx_gen, rx_items,
                       pb, tx_gen>>
        /\ up # <<>> /\ up' = Tail(up) /\ last_rx' = r.gen
        /\ gen' # gen => ~ ComesRound
    BY HandleEffect DEF app, paste
  <1>f. PICK first \in BOOLEAN :
          /\ first <=> ~ PushUnderWay
          /\ items' = Added(items, r, first)
          /\ readers' = (IF first \/ r.kind = None THEN {} ELSE readers)
          /\ gen' = (IF first \/ r.kind = None THEN NextGen(gen) ELSE gen)
          /\ emptied' = (emptied /\ ~ first /\ r.kind # None)
    BY HandleEffect DEF PushUnderWay
  <1>2. /\ link = "open" /\ connected /\ down = <<>> /\ readers = {} /\ ~ deferred
        /\ queue = <<>> /\ ~ changed
    BY <1>1, RisingShape DEF Rising, OpenShape
  <1>3. UpShape /\ BridgeShape
    BY <1>1 DEF Heading, Climbs
  <1>u. up \in Seq(WireRecords) /\ items \in Clips /\ pb \in Clips
    BY DEF TypeOK
  <1>t. /\ r \in WireRecords /\ 1 \in DOMAIN up /\ r = up[1]
        /\ Len(up) = 1 => up' = <<>>
        /\ \A n \in DOMAIN up' : n + 1 \in DOMAIN up /\ up'[n] = up[n + 1] /\ Len(up) # 1
        /\ \A k \in KindsOf(up) : k = r.kind \/ k \in KindsOf(up')
    BY <1>1, <1>u, TailKinds
  <1> HIDE DEF r
  <1>4. readers' = {} /\ IdleShape' /\ OpenShape'
    BY <1>1, <1>f, <1>2, OpenShapes
  <1>5. /\ r.gen = tx_gen
        /\ r.kind = None => pb = Empty /\ Len(up) = 1
        /\ r.kind # None => r.kind \in Kinds /\ r.item = pb[r.kind]
    <2>1. r.kind # None => r.kind \in Kinds
      BY <1>t DEF WireRecords
    <2> QED
      BY <1>3, <1>t, <2>1 DEF UpShape
  <1>6. rx_gen' # gen' /\ ~ emptied'
    <2>1. CASE first \/ r.kind = None
      <3>1. gen' = NextGen(gen) /\ NextGen(gen) # gen
        BY <1>f, <2>1, NextGenFacts DEF TypeOK
      <3> QED
        BY <1>1, <1>f, <2>1, <3>1 DEF ComesRound
    <2>2. CASE ~ (first \/ r.kind = None)
      BY <1>1, <1>3, <1>f, <2>2 DEF BridgeShape
    <2> QED
      BY <2>1, <2>2
  <1>7. \A k \in Kinds : items'[k] =
               IF r.kind = None THEN 0
               ELSE IF k = r.kind THEN r.item ELSE IF first THEN 0 ELSE items[k]
    BY <1>f, <1>t, <1>u, AddedFacts
  <1>8. \A k \in Kinds : /\ items'[k] \in {0, pb[k]}
                         /\ items'[k] = pb[k] \/ k \in KindsOf(up')
    <2>1. CASE r.kind = None
      BY <1>5, <1>7, <2>1, ClipFacts
    <2>2. CASE r.kind # None /\ first
      <3>1. \A k \in Kinds : pb[k] = 0 \/ k \in KindsOf(up)
        BY <1>3, <1>f, <2>2 DEF BridgeShape
      <3> QED
        BY <1>5, <1>7, <1>t, <2>2, <3>1
    <2>3. CASE r.kind # None /\ ~ first
      <3>1. \A k \in Kinds : items[k] \in {0, pb[k]} /\ (items[k] = pb[k] \/ k \in KindsOf(up))
        BY <1>3, <1>f, <2>3 DEF BridgeShape, Catching
      <3> QED
        BY <1>5, <1>7, <1>t, <2>3, <3>1
    <2> QED
      BY <2>1, <2>2, <2>3
  <1>9. ASSUME up' # <<>> PROVE Climbs'
    <2>1. UpShape'
      BY <1>1, <1>3, <1>t DEF UpShape
    <2>2. Head(up').gen = tx_gen'
      <3>1. up' \in Seq(WireRecords)
        BY <1>1, <1>u
      <3>2. 1 \in DOMAIN up' /\ Head(up') = up'[1]
        BY <1>9, <3>1
      <3> QED
        BY <2>1, <3>2 DEF UpShape
    <2>3. PushUnderWay'
      BY <1>1, <1>5, <1>9, <2>2 DEF PushUnderWay
    <2>4. BridgeShape'
      <3>1. Catching'
        BY <1>1, <1>8 DEF Catching
      <3> QED
        BY <1>6, <2>3, <3>1 DEF BridgeShape
    <2> QED
      BY <2>1, <2>4 DEF Climbs
  <1>10. ASSUME up' = <<>> PROVE Falls'
    <2>1. \A k \in Kinds : items'[k] = pb[k]
      <3>1. KindsOf(up') = {}
        BY <1>10 DEF KindsOf
      <3> QED
        BY <1>8, <3>1
    <2>2. items' \in Clips
      BY <1>f, <1>t, <1>u, AddedFacts
    <2>3. items' = pb
      BY <1>u, <2>1, <2>2 DEF Clips
    <2>4. AppShape'
      BY <1>1, <1>2, <1>4, <1>6, <2>3 DEF AppShape
    <2>5. DownShape' /\ ReaderShape'
      BY <1>1, <1>2, <1>4 DEF DownShape, ReaderShape
    <2> QED
      BY <2>4, <2>5 DEF Falls
  <1> QED
    BY <1>4, <1>9, <1>10 DEF Heading

\* The app receives a record: the pasteboard becomes what was received.
LEMMA AgreeReceive ==
  ASSUME TypeOK, IdleShape, OpenShape, Heading, Receive
  PROVE  IdleShape' /\ OpenShape' /\ Heading'
  <1> DEFINE r == Head(down)
             old == IF r.gen = rx_gen THEN rx_items ELSE Empty
  <1>1. /\ UNCHANGED <<link, object, connected, up, readers, items, gen, emptied>>
        /\ link = "open" /\ connected /\ down # <<>> /\ down' = Tail(down) /\ ~ deferred'
        /\ Take(<<r>>) /\ pb' = rx_items' /\ ~ changed'
        /\ queue' = Append(queue, [op |-> "echo", object |-> object, content |-> rx_items'])
    BY DEF Receive, desktop
  <1>u. down \in Seq(WireRecords) /\ items \in Clips /\ rx_items \in Clips /\ queue \in Seq(Jobs)
    BY DEF TypeOK
  <1>t. /\ r \in WireRecords /\ 1 \in DOMAIN down /\ r = down[1]
        /\ Len(down) = 1 => down' = <<>>
        /\ \A n \in DOMAIN down' : n + 1 \in DOMAIN down /\ down'[n] = down[n + 1] /\ Len(down) # 1
        /\ \A k \in KindsOf(down) : k = r.kind \/ k \in KindsOf(down')
    BY <1>1, <1>u, TailKinds
  <1>2. ~ Rising
    BY <1>1, RisingShape
  <1>3. up = <<>> /\ (emptied \/ Falls)
    BY <1>2, IdleHeading
  <1>4. \A n \in DOMAIN queue : queue[n].op = "echo"
    BY <1>1, <1>2 DEF OpenShape, Rising, PushQueued
  <1>5. \A n \in DOMAIN queue' : queue'[n].op = "echo"
    <2>1. \A n \in DOMAIN queue' : (n \in DOMAIN queue /\ queue'[n] = queue[n]) \/ queue'[n].op = "echo"
      BY <1>1, <1>u
    <2> QED
      BY <1>4, <2>1
  <1>6. IdleShape' /\ OpenShape'
    BY <1>1, <1>3, <1>5, FallingShapes
  <1>7. /\ rx_gen' = r.gen
        /\ rx_items' = IF r.kind = None THEN Empty ELSE [old EXCEPT ![r.kind] = r.item]
    BY <1>1, TakeOne DEF Received
  <1>o. old \in Clips /\ \A k \in Kinds : old[k] = IF r.gen = rx_gen THEN rx_items[k] ELSE 0
    BY <1>u, ClipFacts
  <1> HIDE DEF r, old
  <1>8. r.kind # None => r.kind \in Kinds
    BY <1>t DEF WireRecords
  <1>9. \A k \in Kinds : rx_items'[k] = IF r.kind = None THEN 0
                                        ELSE IF k = r.kind THEN r.item ELSE old[k]
    <2>1. CASE r.kind = None
      BY <1>7, <2>1, ClipFacts
    <2>2. CASE r.kind # None
      BY <1>7, <1>8, <1>o, <2>2 DEF Clips
    <2> QED
      BY <2>1, <2>2
  <1>10. ASSUME Falls PROVE Falls'
    <2>1. /\ r.gen = gen
          /\ r.kind = None => items = Empty /\ Len(down) = 1
          /\ r.kind # None => r.item = items[r.kind]
      BY <1>t, <1>10 DEF Falls, DownShape
    <2>2. DownShape'
      BY <1>1, <1>t, <1>10 DEF Falls, DownShape
    <2>3. ReaderShape'
      BY <1>1, <1>10 DEF Falls, ReaderShape
    <2>4. \A k \in Kinds : rx_items'[k] \in {0, items[k]} /\ (rx_items'[k] = items[k] \/ k \in KindsOf(down'))
      <3>1. CASE r.kind = None
        BY <1>9, <2>1, <3>1, ClipFacts
      <3>2. CASE r.kind # None /\ rx_gen = gen
        <4>1. \A k \in Kinds : rx_items[k] \in {0, items[k]} /\ (rx_items[k] = items[k] \/ k \in KindsOf(down))
          BY <1>10, <3>2 DEF Falls, AppShape
        <4> QED
          BY <1>9, <1>o, <1>t, <2>1, <3>2, <4>1
      <3>3. CASE r.kind # None /\ rx_gen # gen
        <4>1. \A k \in Kinds : items[k] = 0 \/ k \in KindsOf(down)
          BY <1>1, <1>10, <3>3 DEF Falls, AppShape
        <4> QED
          BY <1>9, <1>o, <1>t, <2>1, <3>3, <4>1
      <3> QED
        BY <3>1, <3>2, <3>3
    <2>5. AppShape'
      <3>1. rx_gen' = gen' /\ pb' = rx_items' /\ items' = items
        BY <1>1, <1>7, <2>1
      <3> QED
        BY <2>4, <3>1 DEF AppShape
    <2> QED
      BY <2>2, <2>3, <2>5 DEF Falls
  <1> QED
    BY <1>1, <1>3, <1>6, <1>10 DEF Heading

\* A push queued by the main thread is the only job.
LEMMA PushShapes ==
  ASSUME TypeOK, IdleShape, OpenShape, Heading, NEW b \in BOOLEAN, Push(b),
         link = "open", connected, queue = <<>>, up = <<>>, down = <<>>, readers = {},
         ~ deferred', emptied \/ Falls \/ Goes(pb, b)
  PROVE  IdleShape' /\ OpenShape' /\ Heading'
  <1> DEFINE job == [op |-> "push", object |-> object, content |-> pb, onConnect |-> b]
  <1>1. /\ UNCHANGED <<link, object, connected, up, down, readers, items, gen, emptied, rx_gen,
                       rx_items, pb, echo>>
        /\ ~ changed' /\ queue' = Append(queue, job)
    BY DEF Push, desktop, socket
  <1>2. queue' = <<job>> /\ Len(queue') = 1 /\ DOMAIN queue' = {1} /\ queue'[1] = job
    BY <1>1
  <1>3. job.op = "push" /\ job.content = pb /\ job.object = object /\ job.onConnect = b
    OBVIOUS
  <1> HIDE DEF job
  <1>4. IdleShape'
    BY <1>1 DEF IdleShape
  <1>5. OpenShape'
    BY <1>1, <1>2, <1>3 DEF OpenShape
  <1>6. CASE emptied \/ Falls
    <2>1. emptied' \/ Falls'
      BY <1>1, <1>6, FallsKeep
    <2> QED
      BY <1>1, <1>4, <1>5, <2>1 DEF Heading
  <1>7. CASE Goes(pb, b)
    <2>1. queue'[1].content = pb /\ queue'[1].onConnect = b /\ queue'[1].op = "push"
      BY <1>2, <1>3
    <2>2. IF pb = Empty THEN ~ b ELSE b \/ pb # echo[object]
      BY <1>7 DEF Goes
    <2>3. (Goes(queue[1].content, queue[1].onConnect))'
      BY <1>1, <2>1, <2>2 DEF Goes
    <2>4. 1 \in DOMAIN queue'
      BY <1>2
    <2>5. (\E n \in DOMAIN queue : queue[n].op = "push" /\ Goes(queue[n].content, queue[n].onConnect))'
      BY <2>1, <2>3, <2>4
    <2> QED
      BY <1>1, <1>4, <1>5, <2>5 DEF Heading
  <1> QED
    BY <1>4, <1>5, <1>6, <1>7

\* The pasteboard changed.
LEMMA AgreePushChanged ==
  ASSUME TypeOK, IdleShape, OpenShape, Heading, PushChanged
  PROVE  IdleShape' /\ OpenShape' /\ Heading'
  <1>1. link = "open" /\ connected /\ changed /\ Push(FALSE) /\ deferred' = deferred
    BY DEF PushChanged
  <1>2. Rising
    BY <1>1 DEF Rising
  <1>3. down = <<>> /\ readers = {} /\ ~ deferred /\ queue = <<>> /\ up = <<>>
    BY <1>1, <1>2 DEF OpenShape
  <1>4. emptied \/ Falls \/ Goes(pb, FALSE)
    <2>1. DOMAIN queue = {}
      BY <1>3
    <2> QED
      BY <1>3, <2>1 DEF Heading
  <1> QED
    BY <1>1, <1>3, <1>4, PushShapes

\* The deferral runs out with nothing on its way: the desktop has nothing, and so
\* had the pasteboard.
LEMMA AgreePushDeferred ==
  ASSUME TypeOK, IdleShape, OpenShape, Heading, PushDeferred, down = <<>>
  PROVE  IdleShape' /\ OpenShape' /\ Heading'
  <1>1. link = "open" /\ connected /\ deferred /\ Push(TRUE) /\ ~ deferred'
    BY DEF PushDeferred
  <1>2. readers = {} /\ queue = <<>> /\ ~ Rising
    BY <1>1 DEF OpenShape
  <1>3. up = <<>> /\ (emptied \/ Falls)
    BY <1>2, IdleHeading
  <1> QED
    BY <1>1, <1>2, <1>3, PushShapes

\* A push that is not held back writes something, and what it writes is the
\* pasteboard.
LEMMA SentShape ==
  ASSUME TypeOK, NEW job, job.content = pb, job.object = object, job.onConnect \in BOOLEAN
  PROVE  /\ Goes(job.content, job.onConnect) => Sent(job) # <<>>
         /\ \A n \in DOMAIN Sent(job) :
               /\ Sent(job)[n].gen = NextGen(tx_gen)
               /\ Sent(job)[n].kind = None => pb = Empty /\ Len(Sent(job)) = 1
               /\ Sent(job)[n].kind # None => Sent(job)[n].item = pb[Sent(job)[n].kind]
         /\ Sent(job) # <<>> => \A k \in Kinds : pb[k] = 0 \/ k \in KindsOf(Sent(job))
  <1>1. pb \in Clips /\ NextGen(tx_gen) \in 1..GenMax
    BY NextGenFacts DEF TypeOK
  <1>2. CASE pb = Empty
    <2>1. Sent(job) = <<>> \/ Sent(job) = <<Record(None, NextGen(tx_gen), 0)>>
      BY <1>2 DEF Sent
    <2>2. Goes(job.content, job.onConnect) => Sent(job) = <<Record(None, NextGen(tx_gen), 0)>>
      BY <1>2 DEF Sent, Goes
    <2>3. ASSUME NEW s, s = <<Record(None, NextGen(tx_gen), 0)>>
          PROVE  /\ s # <<>> /\ Len(s) = 1 /\ DOMAIN s = {1}
                 /\ s[1].gen = NextGen(tx_gen) /\ s[1].kind = None
      BY <2>3 DEF Record
    <2> QED
      BY <1>2, <2>1, <2>2, <2>3, ClipFacts
  <1>3. CASE pb # Empty
    <2> DEFINE s == Records(pb, NextGen(tx_gen))
    <2>1. Sent(job) = <<>> \/ Sent(job) = s
      BY <1>3 DEF Sent
    <2>2. Goes(job.content, job.onConnect) => Sent(job) = s
      BY <1>3 DEF Sent, Goes
    <2>3. s # <<>>
      BY <1>1, <1>3, RecordsFacts
    <2>4. /\ \A n \in DOMAIN s : s[n].kind \in Kinds /\ s[n].gen = NextGen(tx_gen) /\ s[n].item = pb[s[n].kind]
          /\ \A k \in Kinds : pb[k] = 0 \/ k \in KindsOf(s)
      BY <1>1, RecordsKinds
    <2> HIDE DEF s
    <2> QED
      BY <2>1, <2>2, <2>3, <2>4, ConstantsAreFinite
  <1> QED
    BY <1>2, <1>3

\* The queue runs a push.
LEMMA AgreeSend ==
  ASSUME TypeOK, UpInv, IdleShape, OpenShape, Heading, RunQueue, Head(queue).op = "push"
  PROVE  IdleShape' /\ OpenShape' /\ Heading'
  <1> DEFINE job == Head(queue)
             s == Sent(job)
  <1>1. /\ UNCHANGED <<object, link, connected, last_rx, down, readers, items, gen, emptied, rx_gen,
                       rx_items, pb, changed, deferred>>
        /\ queue # <<>> /\ queue' = Tail(queue)
        /\ tx_gen' = (IF s = <<>> THEN tx_gen ELSE NextGen(tx_gen))
        /\ up' = (IF connected THEN up \o s ELSE up)
    BY RunEffect DEF desktop, paste
  <1>2. queue \in Seq(Jobs) /\ 1 \in DOMAIN queue /\ job = queue[1]
    BY <1>1 DEF TypeOK
  <1>3. Rising
    BY <1>2 DEF Rising, PushQueued
  <1>4. link = "open" /\ connected /\ down = <<>> /\ readers = {} /\ ~ deferred
    BY <1>3, RisingShape
  <1>5. /\ Len(queue) = 1 /\ job.content = pb /\ job.object = object /\ up = <<>> /\ ~ changed
        /\ job.onConnect \in BOOLEAN
    BY <1>1, <1>2, <1>4, JobFacts DEF OpenShape
  <1>6. queue' = <<>>
    BY <1>1, <1>2, <1>5
  <1>7. /\ Goes(job.content, job.onConnect) => s # <<>>
        /\ \A n \in DOMAIN s : /\ s[n].gen = NextGen(tx_gen)
                               /\ s[n].kind = None => pb = Empty /\ Len(s) = 1
                               /\ s[n].kind # None => s[n].item = pb[s[n].kind]
        /\ s # <<>> => \A k \in Kinds : pb[k] = 0 \/ k \in KindsOf(s)
    BY <1>5, SentShape
  <1>8. s \in Seq(WireRecords)
    BY <1>1, JobFacts, SentFacts
  <1>9. DOMAIN queue = {1}
    BY <1>2, <1>5
  <1> HIDE DEF job, s
  <1>10. up' = s
    BY <1>1, <1>4, <1>5, <1>8
  <1>11. IdleShape' /\ OpenShape'
    BY <1>1, <1>4, <1>5, <1>6, OpenShapes
  <1>12. CASE s = <<>>
    <2>1. emptied \/ Falls
      BY <1>2, <1>5, <1>7, <1>9, <1>12 DEF Heading
    <2>2. emptied' \/ Falls'
      BY <1>1, <2>1, FallsKeep
    <2> QED
      BY <1>10, <1>11, <1>12, <2>2 DEF Heading
  <1>13. CASE s # <<>>
    <2>1. tx_gen' = NextGen(tx_gen) /\ NextGen(tx_gen) # tx_gen /\ NextGen(tx_gen) # 0
      BY <1>1, <1>13, NextGenFacts DEF TypeOK
    <2>2. last_rx' \in {0, tx_gen}
      BY <1>1, <1>4, <1>5 DEF UpInv
    <2>3. UpShape'
      BY <1>1, <1>7, <1>10, <2>1 DEF UpShape
    <2>4. 1 \in DOMAIN s /\ Head(s) = s[1]
      BY <1>8, <1>13
    <2>5. Head(up').gen = NextGen(tx_gen)
      BY <1>7, <1>10, <2>4
    <2>6. ~ PushUnderWay'
      BY <2>1, <2>2, <2>5 DEF PushUnderWay
    <2>7. BridgeShape'
      BY <1>1, <1>7, <1>10, <1>13, <2>6 DEF BridgeShape
    <2> QED
      BY <1>10, <1>11, <1>13, <2>3, <2>7 DEF Heading, Climbs
  <1> QED
    BY <1>12, <1>13

\* What a queue holds behind its head.
LEMMA TailJobs ==
  ASSUME TypeOK, queue # <<>>
  PROVE  /\ 1 \in DOMAIN queue /\ Head(queue) = queue[1]
         /\ \A n \in DOMAIN Tail(queue) : /\ n + 1 \in DOMAIN queue /\ Tail(queue)[n] = queue[n + 1]
                                          /\ n + 1 = Len(queue) => n = Len(Tail(queue))
         /\ Len(queue) = 1 => Tail(queue) = <<>>
  <1> DEFINE m == Len(queue)
             t == Tail(queue)
  <1>1. queue \in Seq(Jobs)
    BY DEF TypeOK
  <1>2. /\ m \in Nat /\ m # 0 /\ DOMAIN queue = 1..m /\ Head(queue) = queue[1]
        /\ t \in Seq(Jobs) /\ Len(t) = m - 1 /\ DOMAIN t = 1..(m - 1)
        /\ \A n \in 1..(m - 1) : t[n] = queue[n + 1]
    BY <1>1
  <1> HIDE DEF m, t
  <1>3. 1 \in DOMAIN queue
    BY <1>2
  <1>4. \A n \in DOMAIN t : /\ n + 1 \in DOMAIN queue /\ t[n] = queue[n + 1]
                            /\ n + 1 = m => n = Len(t)
    BY <1>2
  <1>5. m = 1 => t = <<>>
    BY <1>2
  <1> QED
    BY <1>2, <1>3, <1>4, <1>5 DEF m, t

\* The queue runs a job that leaves the socket alone: it is the echo of what was
\* received, or a connect that came too late.
LEMMA AgreeEcho ==
  ASSUME TypeOK, IdleShape, OpenShape, Heading, RunQueue, UNCHANGED <<socket, link>>,
         Head(queue).op \in {"echo", "connect"}
  PROVE  IdleShape' /\ OpenShape' /\ Heading'
  <1>1. /\ UNCHANGED <<object, link, connected, up, down, readers, items, gen, emptied, rx_gen,
                       rx_items, pb, changed, deferred>>
        /\ queue # <<>> /\ queue' = Tail(queue)
    BY RunEffect DEF desktop, paste, socket
  <1>2. /\ 1 \in DOMAIN queue /\ Head(queue) = queue[1]
        /\ \A n \in DOMAIN queue' : /\ n + 1 \in DOMAIN queue /\ queue'[n] = queue[n + 1]
                                    /\ n + 1 = Len(queue) => n = Len(queue')
        /\ Len(queue) = 1 => queue' = <<>>
    BY <1>1, TailJobs
  <1>3. CASE link = "open"
    <2>1. connected /\ ~ deferred /\ up = <<>> /\ ~ changed
      BY <1>1, <1>3 DEF IdleShape, OpenShape
    <2>2. \A n \in DOMAIN queue : queue[n].op = "echo"
      <3>1. \A n \in DOMAIN queue : queue[n].op = "echo" \/ (queue[n].op = "push" /\ Len(queue) = 1)
        BY <1>3 DEF OpenShape
      <3>2. Len(queue) = 1 => DOMAIN queue = {1}
        BY DEF TypeOK
      <3> QED
        BY <1>2, <3>1, <3>2
    <2>3. \A n \in DOMAIN queue' : queue'[n].op = "echo"
      BY <1>2, <2>2
    <2>4. IdleShape' /\ OpenShape'
      BY <1>1, <1>3, <2>1, <2>3, FallingShapes
    <2>5. emptied \/ Falls
      BY <2>1, <2>2 DEF Heading
    <2>6. emptied' \/ Falls'
      BY <1>1, <2>5, FallsKeep
    <2> QED
      BY <1>1, <2>1, <2>4, <2>6 DEF Heading
  <1>4. CASE link # "open"
    <2>1. link = "connecting"
      BY <1>1, <1>2, <1>4 DEF IdleShape, TypeOK
    <2>2. /\ ~ Rising /\ readers = {} /\ ~ deferred /\ down = <<>>
          /\ \A n \in DOMAIN queue : \/ queue[n].op = "close"
                                     \/ queue[n].op = "connect" /\ n = Len(queue)
      BY <2>1 DEF IdleShape
    <2>3. up = <<>> /\ ~ changed /\ (emptied \/ Falls)
      BY <2>2, IdleHeading
    <2>4. \A n \in DOMAIN queue' : \/ queue'[n].op = "close"
                                   \/ queue'[n].op = "connect" /\ n = Len(queue')
      BY <1>2, <2>2
    <2>5. IdleShape' /\ OpenShape'
      BY <1>1, <2>1, <2>2, <2>3, <2>4, ClosedShapes
    <2>6. emptied' \/ Falls'
      BY <1>1, <2>3, FallsKeep
    <2> QED
      BY <1>1, <2>3, <2>5, <2>6 DEF Heading
  <1> QED
    BY <1>3, <1>4

\* The queue closes a socket: the link is gone, or another comes.
LEMMA AgreeClose ==
  ASSUME TypeOK, IdleShape, OpenShape, Heading, RunQueue, Closed, UNCHANGED link,
         Head(queue).op = "close"
  PROVE  IdleShape' /\ OpenShape' /\ Heading'
  <1>1. /\ UNCHANGED <<object, link, readers, items, gen, emptied, rx_gen,
                       rx_items, pb, changed, deferred>>
        /\ queue # <<>> /\ queue' = Tail(queue) /\ down' = <<>> /\ up' = <<>>
    BY RunEffect DEF desktop, paste, Closed
  <1>2. /\ 1 \in DOMAIN queue /\ Head(queue) = queue[1]
        /\ \A n \in DOMAIN queue' : /\ n + 1 \in DOMAIN queue /\ queue'[n] = queue[n + 1]
                                    /\ n + 1 = Len(queue) => n = Len(queue')
    BY <1>1, TailJobs
  <1>3. link \in {"closed", "idle", "connecting"}
    <2>1. link # "open"
      BY <1>2 DEF OpenShape
    <2>2. link # "adopting"
      BY <1>1 DEF IdleShape
    <2> QED
      BY <2>1, <2>2 DEF TypeOK
  <1>4. /\ ~ Rising /\ readers = {} /\ ~ deferred /\ down = <<>>
        /\ \A n \in DOMAIN queue : \/ queue[n].op = "close"
                                   \/ link = "connecting" /\ queue[n].op = "connect" /\ n = Len(queue)
    BY <1>3 DEF IdleShape
  <1>5. ~ changed /\ (emptied \/ Falls)
    BY <1>4, IdleHeading
  <1>6. \A n \in DOMAIN queue' : \/ queue'[n].op = "close"
                                 \/ link' = "connecting" /\ queue'[n].op = "connect" /\ n = Len(queue')
    BY <1>1, <1>2, <1>4
  <1>7. IdleShape' /\ OpenShape'
    BY <1>1, <1>3, <1>4, <1>5, <1>6, ClosedShapes
  <1>8. emptied' \/ Falls'
    BY <1>1, <1>4, <1>5, FallsKeep
  <1> QED
    BY <1>1, <1>7, <1>8 DEF Heading

\* The queue connects: the bridge replays its clipboard.
LEMMA AgreeHello ==
  ASSUME TypeOK, GenInv, IdleShape, OpenShape, Heading, RunQueue,
         Head(queue).op = "connect", link = "connecting", link' = "adopting", connected' = TRUE,
         down' = Records(items, gen), up' = <<>>
  PROVE  IdleShape' /\ OpenShape' /\ Heading'
  <1>1. /\ UNCHANGED <<readers, items, gen, emptied, rx_gen, rx_items, pb, changed, deferred>>
        /\ queue # <<>> /\ queue' = Tail(queue)
    BY RunEffect DEF desktop, paste
  <1>2. /\ 1 \in DOMAIN queue /\ Head(queue) = queue[1]
        /\ Len(queue) = 1 => queue' = <<>>
    BY <1>1, TailJobs
  <1>3. /\ ~ Rising /\ readers = {} /\ ~ deferred /\ down = <<>> /\ Len(queue) = 1
    BY <1>2 DEF IdleShape
  <1>4. up = <<>> /\ ~ changed /\ (emptied \/ Falls)
    BY <1>3, IdleHeading
  <1>5. queue' = <<>> /\ DOMAIN queue' = {} /\ ~ Rising'
    BY <1>1, <1>2, <1>3, <1>4 DEF Rising, PushQueued
  <1>6. /\ \A n \in DOMAIN down' :
              down'[n].kind \in Kinds /\ down'[n].gen = gen /\ down'[n].item = items[down'[n].kind]
        /\ \A k \in Kinds : items[k] = 0 \/ k \in KindsOf(down')
    BY RecordsKinds DEF TypeOK
  <1>7. down' = <<>> => items = Empty
    BY ReplayFacts
  <1>8. IdleShape'
    BY <1>1, <1>3, <1>5 DEF IdleShape
  <1>9. OpenShape'
    BY <1>1, <1>3, <1>4, <1>5, <1>7 DEF OpenShape
  <1>10. ASSUME Falls PROVE Falls'
    <2>1. pb = items
      BY <1>3, <1>10, AtRest
    <2>2. DownShape'
      BY <1>1, <1>6, ConstantsAreFinite DEF DownShape
    <2>3. ReaderShape'
      BY <1>1, <1>3 DEF ReaderShape
    <2>4. rx_gen = gen => pb = rx_items
      BY <1>10 DEF Falls, AppShape
    <2>5. AppShape'
      BY <1>1, <1>3, <1>6, <2>1, <2>4 DEF AppShape
    <2> QED
      BY <2>2, <2>3, <2>5 DEF Falls
  <1> QED
    BY <1>1, <1>4, <1>8, <1>9, <1>10 DEF Heading

\* Every step keeps the newest copy on its way.
LEMMA AgreeStep ==
  ASSUME TypeOK, GenInv, SnapshotIsStore, RecentInv, ~ mixed => UpInv, AgreeInv, [Next]_vars
  PROVE  AgreeInv'
  <1> SUFFICES ASSUME alone', ~ mixed' PROVE IdleShape' /\ OpenShape' /\ Heading'
    BY DEF AgreeInv, Clean
  <1>m. ~ mixed /\ UpInv
    BY MixedStays
  <1>h. alone => IdleShape /\ OpenShape /\ Heading
    BY <1>m DEF AgreeInv, Clean
  <1>1. ASSUME NEW ks \in SUBSET Kinds, ks # {}, DesktopCopy(ks)
        PROVE  IdleShape' /\ OpenShape' /\ Heading'
    <2>1. Quiet
      BY <1>1 DEF DesktopCopy, UserCopies
    <2> QED
      BY <1>1, <2>1, AgreeDesktop
  <1>2. ASSUME NEW ks \in SUBSET Kinds, IOSCopy(ks)
        PROVE  IdleShape' /\ OpenShape' /\ Heading'
    <2>1. Quiet
      BY <1>2 DEF IOSCopy, UserCopies
    <2> QED
      BY <1>2, <2>1, AgreeIOS
  <1>3. CASE DesktopClear
    <2>1. Quiet
      BY <1>3 DEF DesktopClear, UserCopies
    <2> QED
      BY <1>3, <2>1, AgreeClear
  <1>4. CASE DataControlEmpty
    <2>1. Quiet
      BY <1>4 DEF DataControlEmpty, UserCopies
    <2> QED
      BY <1>4, <2>1, AgreeEmptied
  <1>5. CASE IOSTouch
    <2>1. Quiet /\ alone
      BY <1>5 DEF IOSTouch
    <2> QED
      BY <1>5, <1>h, <2>1, AgreeTouch
  <1>6. CASE ServerDrop
    <2>1. Quiet /\ alone
      BY <1>6 DEF ServerDrop
    <2> QED
      BY <1>6, <1>h, <2>1, AgreeDrop
  <1>7. CASE Detach
    <2>1. Quiet /\ alone
      BY <1>7 DEF Detach
    <2> QED
      BY <1>7, <1>h, <2>1, AgreeDetach
  <1>8. CASE CompositorRestart
    BY <1>8 DEF CompositorRestart
  <1>9. ASSUME NEW r \in readers, ReadDone(r) PROVE IdleShape' /\ OpenShape' /\ Heading'
    <2>1. alone
      BY <1>9 DEF ReadDone
    <2> QED
      BY <1>9, <1>h, <2>1, AgreeReadDone
  <1>10. ASSUME NEW r \in readers, ReadFails(r) PROVE IdleShape' /\ OpenShape' /\ Heading'
    <2>1. alone
      BY <1>10 DEF ReadFails
    <2> QED
      BY <1>10, <1>h, <2>1, AgreeReadFails
  <1>11. CASE HandleRecord
    <2>1. alone
      BY <1>11 DEF HandleRecord
    <2> QED
      BY <1>11, <1>h, <2>1, AgreeHandle
  <1>12. CASE ConnectStart \/ Adopt \/ LinkLost \/ Present
    <2>1. alone
      BY <1>12 DEF ConnectStart, Adopt, LinkLost, Present
    <2> QED
      BY <1>12, <1>h, <2>1, AgreeConnect, AgreeAdopt, AgreeLost, AgreePresent
  <1>13. CASE Receive \/ PushChanged \/ PushDeferred
    <2>1. alone /\ (PushDeferred => down = <<>>)
      BY <1>13 DEF Receive, PushChanged, PushDeferred
    <2> QED
      BY <1>13, <1>h, <2>1, AgreeReceive, AgreePushChanged, AgreePushDeferred
  <1>14. CASE RunQueue
    <2> DEFINE job == Head(queue)
    <2>1. alone
      BY <1>14 DEF RunQueue
    <2>2. IdleShape /\ OpenShape /\ Heading
      BY <1>h, <2>1
    <2>3. \/ job.op = "push"
          \/ job.op = "close" /\ Closed /\ UNCHANGED link
          \/ job.op \in {"echo", "connect"} /\ UNCHANGED <<socket, link>>
          \/ /\ job.op = "connect" /\ link = "connecting" /\ link' = "adopting"
             /\ connected' = TRUE /\ down' = Records(items, gen) /\ up' = <<>>
      BY <1>14, RunEffect
    <2> QED
      BY <1>14, <1>m, <2>2, <2>3, AgreeSend, AgreeClose, AgreeEcho, AgreeHello
  <1>15. CASE UNCHANGED vars
    <2> USE DEF vars, desktop, socket, app, paste, bounds
    <2>1. IdleShape /\ OpenShape /\ Heading
      BY <1>h, <1>15
    <2>2. IdleShape' /\ OpenShape'
      BY <1>15, <2>1 DEF IdleShape, OpenShape, Rising, PushQueued
    <2>3. Falls => Falls'
      BY <1>15 DEF Falls, DownShape, AppShape, ReaderShape
    <2>4. Climbs => Climbs'
      BY <1>15 DEF Climbs, UpShape, BridgeShape, Catching, PushUnderWay
    <2>5. Heading'
      BY <1>15, <2>1, <2>3, <2>4 DEF Heading, Goes
    <2> QED
      BY <2>2, <2>5
  <1> QED
    BY <1>1, <1>2, <1>3, <1>4, <1>5, <1>6, <1>7, <1>8, <1>9, <1>10, <1>11, <1>12, <1>13, <1>14,
       <1>15 DEF Next, User, Bridge, Link, Faults, SourceRead

\* The initial state is at rest.
LEMMA AgreeInit == Init => RecentInv /\ AgreeInv
  <1> SUFFICES ASSUME Init PROVE RecentInv /\ AgreeInv
    OBVIOUS
  <1>1. /\ down = <<>> /\ up = <<>> /\ queue = <<>> /\ readers = {} /\ link = "idle"
        /\ ~ changed /\ ~ deferred /\ pb = Empty /\ items = Empty /\ rx_items = Empty
        /\ rx_gen = 0 /\ gen = 0 /\ copies = 0 /\ echo = [o \in Links |-> Empty]
    BY DEF Init, Links
  <1>2. DOMAIN queue = {} /\ DOMAIN down = {} /\ DOMAIN up = {}
    BY <1>1
  <1>3. RecentInv
    BY <1>1, <1>2, ClipFacts DEF RecentInv, Recent
  <1>4. IdleShape /\ OpenShape
    BY <1>1, <1>2 DEF IdleShape, OpenShape, Rising, PushQueued
  <1>5. Falls
    BY <1>1, <1>2, ClipFacts DEF Falls, DownShape, AppShape, ReaderShape
  <1> QED
    BY <1>1, <1>3, <1>4, <1>5 DEF AgreeInv, Heading

-----------------------------------------------------------------------------
(* The theorems.                                                           *)

\* The initial state satisfies the inductive invariant.
LEMMA InvInit == Init => IInv
  <1> SUFFICES ASSUME Init PROVE IInv
    OBVIOUS
  <1>1. TypeOK
    BY TypeInit
  <1>2. GenInv /\ SnapshotIsStore
    BY DEF Init, GenInv, SnapshotIsStore
  <1>3. DownInv
    <2>1. \A n : ~ InBridge(n)
      BY ClipFacts DEF Init, InBridge
    <2>2. \A g, n : ~ InApp(g, n)
      BY ClipFacts DEF Init, InApp
    <2> QED
      BY <2>1, <2>2 DEF DownInv
  <1>4. UpInv
    BY DEF Init, UpInv, PushUnderWay
  <1>5. PushInv
    BY ClipFacts DEF Init, PushInv
  <1> QED
    BY <1>1, <1>2, <1>3, <1>4, <1>5 DEF IInv, CopyInv

\* Every step keeps it.
LEMMA InvStep == IInv /\ [Next]_vars => IInv'
  <1> SUFFICES ASSUME IInv, [Next]_vars PROVE IInv'
    OBVIOUS
  <1>1. TypeOK' /\ GenInv'
    BY TypeStep, GenStep DEF IInv
  <1>2. SnapshotIsStore'
    BY SnapshotStep DEF IInv
  <1>3. ASSUME ~ mixed' PROVE DownInv' /\ UpInv' /\ PushInv'
    <2>1. TypeOK /\ GenInv /\ DownInv /\ UpInv /\ PushInv
      BY <1>3, MixedStays DEF IInv, CopyInv
    <2>2. DownInv' /\ UpInv'
      BY <1>3, <2>1, DownStep, UpStep
    <2> QED
      BY <2>1, <2>2, PushStep
  <1> QED
    BY <1>1, <1>2, <1>3 DEF IInv, CopyInv

\* The inductive invariant holds throughout.
THEOREM Invariant == Spec => []IInv
  BY InvInit, InvStep, PTL DEF Spec

\* Every variable of the clipboard's two sides keeps its type (TypeOK): no
\* generation is 0 or above its largest, no connection that was dropped holds
\* records of the app's.
THEOREM TypeCorrect == Spec => []TypeOK
  <1>1. IInv => TypeOK
    BY DEF IInv
  <1> QED
    BY <1>1, Invariant, PTL

\* The bridge's snapshot is the compositor's clipboard (SnapshotIsStore), by
\* whichever of clip_ingest_source, source_read_done, clipboard_from_app and
\* set_selection it changed.
THEOREM SnapshotFollowsStore == Spec => []SnapshotIsStore
  <1>1. IInv => SnapshotIsStore
    BY DEF IInv
  <1> QED
    BY <1>1, Invariant, PTL

\* Neither clipboard holds representations of two copies (OneCopyPerSide).
THEOREM OneCopyAtATime == Spec => []OneCopyPerSide
  <1>1. IInv => OneCopyPerSide
    <2> SUFFICES ASSUME IInv, ~ mixed PROVE FromOneCopy(store) /\ FromOneCopy(pb)
      BY DEF OneCopyPerSide
    <2>1. \A k \in Kinds : store[k] # 0 => InBridge(store[k])
      BY DEF InBridge
    <2>2. DownInv /\ PushInv
      BY DEF IInv, CopyInv
    <2> QED
      BY <2>1, <2>2 DEF FromOneCopy, SetKinds, DownInv, PushInv
  <1> QED
    BY <1>1, Invariant, PTL

\* When everything has come to rest after a copy nobody else's copy crossed, the
\* pasteboard and the compositor's store hold the same (Agreement).
THEOREM SidesAgree == Spec => []Agreement
  <1> DEFINE I == IInv /\ RecentInv /\ AgreeInv
  <1>1. Init => I
    BY InvInit, AgreeInit
  <1>2. I /\ [Next]_vars => I'
    <2> SUFFICES ASSUME I, [Next]_vars PROVE I'
      OBVIOUS
    <2>1. IInv'
      BY InvStep
    <2>2. TypeOK /\ TypeOK' /\ GenInv /\ SnapshotIsStore /\ (~ mixed => UpInv)
      BY <2>1 DEF IInv, CopyInv
    <2> QED
      BY <2>1, <2>2, RecentStep, AgreeStep
  <1>3. I => Agreement
    <2> SUFFICES ASSUME I, Quiet, alone, ~ emptied, ~ mixed PROVE pb = store
      BY DEF Agreement
    <2>1. Heading
      BY DEF AgreeInv, Clean
    <2>2. Falls
      BY <2>1, QuietFalls
    <2>3. down = <<>> /\ readers = {}
      BY DEF Quiet
    <2>4. pb = items
      BY <2>2, <2>3, AtRest DEF IInv
    <2> QED
      BY <2>4 DEF IInv, SnapshotIsStore
  <1> HIDE DEF I
  <1> QED
    BY <1>1, <1>2, <1>3, PTL DEF Spec
=============================================================================
