------------------------ MODULE ClientBuffersProofs ------------------------
(***************************************************************************)
(* Proofs about ClientBuffers, for every length of the swapchain and every *)
(* bound on resizes, swaps, frames and losses of the app.                  *)
(***************************************************************************)
EXTENDS ClientBuffers, CountingLemmas, FiniteSetTheorems, TLAPS

-----------------------------------------------------------------------------
(* The inductive invariant.                                                *)

\* Which buffers exist: the swapchain, and older ones that wait for their
\* release.  What was destroyed is not one of them and never will be again.
ChainInv ==
    pc # "gone" =>
          /\ alive = Chain(chain) \cup retired
          /\ retired \subseteq busy /\ busy \subseteq alive
          /\ \A b \in retired : b[1] < chain
          /\ \A i \in DOMAIN requests :
                /\ requests[i].op # "surface"
                /\ requests[i].op = "destroy" =>
                      \A b \in requests[i].bufs : b \notin alive /\ b[1] <= chain

\* The roundtrip of a resize is answered once.
SyncInv ==
    /\ \A i \in DOMAIN requests : requests[i].op = "sync" =>
          /\ pc = "sync"
          /\ \A j \in DOMAIN requests : requests[j].op = "sync" => i = j
          /\ \A j \in DOMAIN events : events[j].op # "done"
    /\ \A i \in DOMAIN events : events[i].op = "done" =>
          pc = "sync" /\ \A j \in DOMAIN events : events[j].op = "done" => i = j
    /\ pc = "sync" => chain < MaxResize

\* Where a committed buffer can be besides pending and current: its frame is on
\* the socket, it is on the list of held buffers, its release is on the socket.
Asked(b) == \E i \in DOMAIN requests : requests[i] = Request("frame", {b})
Held(b) == \E i \in DOMAIN held : held[i].buf = b
Told(b) == \E i \in DOMAIN events : events[i] = Release(b)

\* It is in one place,
Alone(b) ==
    /\ Asked(b) => pending.buf # b /\ current # b /\ ~ Held(b) /\ ~ Told(b)
    /\ pending.buf = b => current # b /\ ~ Held(b) /\ ~ Told(b)
    /\ current = b => ~ Held(b) /\ ~ Told(b)
    /\ ~ (Held(b) /\ Told(b))
    /\ Asked(b) \/ pending.buf = b \/ current = b \/ Held(b) \/ Told(b) => b \in busy
\* and there once.
AskedOnce ==
    \A i, j \in DOMAIN requests : requests[i].op = "frame" /\ requests[i] = requests[j] => i = j
HeldOnce == \A i, j \in DOMAIN held : held[i].buf = held[j].buf => i = j
ToldOnce ==
    \A i, j \in DOMAIN events : events[i].op = "release" /\ events[i] = events[j] => i = j

\* The buffer drawn into is nowhere.
PlaceInv ==
    /\ \A b \in Buffers : Alone(b)
    /\ AskedOnce /\ HeldOnce /\ ToldOnce
    /\ pc = "draw" => Drawn \notin busy

\* The frames the app was sent and has not given back.
Sent(f) == f = shown \/ \E i \in DOMAIN dirty : f = dirty[i]

\* A buffer the app was sent is the current one or held, and not given back.
SentInv ==
    /\ current # None /\ current \in fenced => direct_seq = 0
    /\ \A f : Sent(f) /\ f.buf # None =>
          /\ released[f.buf] < f.seq
          /\ \/ f.buf = current /\ f.seq = direct_seq
             \/ \E i \in DOMAIN held : held[i] = f
    /\ \A i \in DOMAIN replies : \A f :
          replies[i].op = "released" /\ Sent(f) /\ f.buf = replies[i].buf => replies[i].seq < f.seq

\* The app sees generations in order, and none that was not published.
AbsentInv ==
    /\ ~ app => dirty = <<>> /\ unseen = <<>> /\ replies = <<>> /\ shown = NoFrame
    /\ drops = 0 => app
DirtyOrder ==
    /\ shown.seq <= paints
    /\ \A i \in DOMAIN dirty :
          /\ shown.seq < dirty[i].seq /\ presented < dirty[i].seq /\ dirty[i].seq <= paints
          /\ \A j \in DOMAIN dirty : i < j => dirty[i].seq < dirty[j].seq
UnseenOrder ==
    \A i \in DOMAIN unseen :
        /\ presented < unseen[i] /\ unseen[i] <= paints
        /\ \A j \in DOMAIN unseen : i < j => unseen[i] < unseen[j]
        /\ \A j \in DOMAIN dirty : unseen[i] < dirty[j].seq
ReplyOrder ==
    \A i \in DOMAIN replies :
        /\ replies[i].seq <= paints
        /\ replies[i].op = "presented" =>
              /\ presented < replies[i].seq
              /\ \A j \in DOMAIN replies :
                    i < j /\ replies[j].op = "presented" => replies[i].seq < replies[j].seq
              /\ \A j \in DOMAIN unseen : replies[i].seq < unseen[j]
              /\ \A j \in DOMAIN dirty : replies[i].seq < dirty[j].seq
OrderInv == AbsentInv /\ DirtyOrder /\ UnseenOrder /\ ReplyOrder

\* What is given back was sent as a frame of that stream surface.
StreamInv ==
    /\ \A f : Sent(f) /\ f.buf # None => last[f.buf] = 0 \/ f.seq <= last[f.buf]
    /\ \A i \in DOMAIN replies : replies[i].op = "released" =>
          last[replies[i].buf] = 0 \/ replies[i].seq <= last[replies[i].buf]

\* A RELEASED is followed by the PRESENTED of the frame that caused it, and the
\* batch of a frame not yet presented waits for it.
NoticeInv ==
    /\ \A i \in DOMAIN replies : replies[i].op = "released" =>
          unseen # <<>> \/ \E j \in DOMAIN replies : i < j /\ replies[j].op = "presented"
    /\ ~ slow /\ drops = 0 =>
          \A g \in (presented + 1)..paints : \E i \in DOMAIN batches : batches[i] = g

IInv ==
    /\ TypeOK /\ ChainInv /\ SyncInv /\ OrderInv /\ StreamInv /\ NoticeInv
    /\ BusyAccounted /\ GivenBackNoticed
    /\ ~ expired /\ pc # "gone" => PlaceInv /\ SentInv

-----------------------------------------------------------------------------
(* Lists.                                                                  *)

\* f is the function by which Selected goes through s.
SelectStep(s, S, f, n) ==
    IF n = 0 THEN <<>> ELSE IF s[n] \in S THEN Append(f[n - 1], s[n]) ELSE f[n - 1]
Selects(s, S, f, N) == f = [n \in 0..N |-> SelectStep(s, S, f, n)]

\* It is defined for lists of any length.
LEMMA SelectsExists ==
  ASSUME NEW s, NEW S, NEW N \in Nat
  PROVE  \E f : Selects(s, S, f, N)
  <1> DEFINE T == {k \in 0..N : \E f : Selects(s, S, f, k)}
  <1>1. 0 \in T
    <2> DEFINE g == [n \in 0..0 |-> <<>>]
    <2>1. g = [n \in 0..0 |-> SelectStep(s, S, g, n)]
      BY DEF SelectStep
    <2> HIDE DEF g
    <2>2. Selects(s, S, g, 0)
      BY <2>1 DEF Selects
    <2> QED
      BY <2>2
  <1>2. ASSUME NEW k \in 1..N, k - 1 \in T PROVE k \in T
    <2>1. PICK f : Selects(s, S, f, k - 1)
      BY <1>2
    <2> DEFINE g == [n \in 0..k |-> IF n = k THEN SelectStep(s, S, f, n) ELSE f[n]]
    <2>2. ASSUME NEW n \in 0..k PROVE g[n] = SelectStep(s, S, g, n)
      <3>1. n # 0 => g[n - 1] = f[n - 1]
        <4>1. n # 0 => n - 1 \in 0..k /\ n - 1 # k
          OBVIOUS
        <4> QED
          BY <4>1
      <3>2. SelectStep(s, S, g, n) = SelectStep(s, S, f, n)
        BY <3>1 DEF SelectStep
      <3>3. n # k => n \in 0..(k - 1)
        OBVIOUS
      <3>4. n # k => f[n] = SelectStep(s, S, f, n)
        BY <3>3, <2>1 DEF Selects
      <3> QED
        BY <3>2, <3>4
    <2>3. g = [n \in 0..k |-> SelectStep(s, S, g, n)]
      BY <2>2
    <2> HIDE DEF g
    <2>4. Selects(s, S, g, k)
      BY <2>3 DEF Selects
    <2> QED
      BY <2>4
  <1>3. T = 0..N
    <2> HIDE DEF T
    <2>1. T \in SUBSET (0..N)
      BY DEF T
    <2> QED
      BY <1>1, <1>2, <2>1, CountingUp
  <1> QED
    BY <1>3

\* p holds the elements of s at the places D that are in S, in their order.
Sublist(X, p, s, S, D) ==
    /\ p \in Seq(X)
    /\ \A i \in DOMAIN p : p[i] \in S /\ \E a \in D : p[i] = s[a]
    /\ \A i, j \in DOMAIN p : i < j => \E a, b \in D : a < b /\ p[i] = s[a] /\ p[j] = s[b]
    /\ \A a \in D : s[a] \in S => \E i \in DOMAIN p : p[i] = s[a]

\* One element more.
LEMMA SublistMore ==
  ASSUME NEW X, NEW s \in Seq(X), NEW S, NEW n \in 1..Len(s), NEW p, Sublist(X, p, s, S, 1..(n - 1))
  PROVE  Sublist(X, IF s[n] \in S THEN Append(p, s[n]) ELSE p, s, S, 1..n)
  <1>0. s[n] \in X /\ p \in Seq(X) /\ n \in 1..n /\ \A a \in 1..(n - 1) : a \in 1..n /\ a < n
    BY DEF Sublist
  <1>n. \A a \in 1..n : a \in 1..(n - 1) \/ a = n
    OBVIOUS
  <1>1. CASE s[n] \in S
    <2> DEFINE q == Append(p, s[n])
    <2>1. /\ q \in Seq(X) /\ DOMAIN q = 1..(Len(p) + 1) /\ DOMAIN p = 1..Len(p) /\ Len(p) \in Nat
          /\ \A i \in 1..Len(p) : q[i] = p[i]
          /\ q[Len(p) + 1] = s[n]
      BY <1>0
    <2> HIDE DEF q
    <2>2. \A i \in DOMAIN q : i \in DOMAIN p \/ i = Len(p) + 1
      BY <2>1
    <2>3. \A i \in DOMAIN q : q[i] \in S /\ \E a \in 1..n : q[i] = s[a]
      BY <1>0, <1>1, <2>1, <2>2 DEF Sublist
    <2>4. ASSUME NEW i \in DOMAIN q, NEW j \in DOMAIN q, i < j
          PROVE  \E a, b \in 1..n : a < b /\ q[i] = s[a] /\ q[j] = s[b]
      <3>1. i \in DOMAIN p
        BY <2>1, <2>4
      <3>2. CASE j \in DOMAIN p
        BY <1>0, <2>1, <2>4, <3>1, <3>2 DEF Sublist
      <3>3. CASE j = Len(p) + 1
        <4>1. PICK a \in 1..(n - 1) : p[i] = s[a]
          BY <3>1 DEF Sublist
        <4> QED
          BY <1>0, <2>1, <3>1, <3>3, <4>1
      <3> QED
        BY <2>2, <3>2, <3>3
    <2>5. ASSUME NEW a \in 1..n, s[a] \in S PROVE \E i \in DOMAIN q : q[i] = s[a]
      <3>1. CASE a = n
        BY <2>1, <3>1
      <3>2. CASE a \in 1..(n - 1)
        <4>1. PICK i \in DOMAIN p : p[i] = s[a]
          BY <2>5, <3>2 DEF Sublist
        <4> QED
          BY <2>1, <4>1
      <3> QED
        BY <1>n, <3>1, <3>2
    <2>6. Sublist(X, q, s, S, 1..n)
      BY <2>1, <2>3, <2>4, <2>5 DEF Sublist
    <2> QED
      BY <1>1, <2>6 DEF q
  <1>2. CASE s[n] \notin S
    BY <1>0, <1>n, <1>2 DEF Sublist
  <1> QED
    BY <1>1, <1>2

\* Selected does what it says.
LEMMA SelectedFacts ==
  ASSUME NEW X, NEW s \in Seq(X), NEW S
  PROVE  Sublist(X, Selected(s, S), s, S, DOMAIN s)
  <1> DEFINE N == Len(s)
             f == CHOOSE f : Selects(s, S, f, N)
             T == {n \in 0..N : Sublist(X, f[n], s, S, 1..n)}
  <1>1. N \in Nat /\ DOMAIN s = 1..N
    OBVIOUS
  <1>2. Selects(s, S, f, N)
    BY <1>1, SelectsExists
  <1>3. Selected(s, S) = f[N]
    BY DEF Selected, Selects, SelectStep
  <1> HIDE DEF f
  <1>4. \A n \in 0..N : f[n] = SelectStep(s, S, f, n)
    BY <1>2 DEF Selects
  <1>5. 0 \in T
    <2>1. f[0] = <<>> /\ 0 \in 0..N
      BY <1>1, <1>4 DEF SelectStep
    <2>2. DOMAIN <<>> = {} /\ 1..0 = {} /\ <<>> \in Seq(X)
      OBVIOUS
    <2>3. Sublist(X, <<>>, s, S, 1..0)
      BY <2>2 DEF Sublist
    <2> QED
      BY <2>1, <2>3
  <1>6. ASSUME NEW n \in 1..N, n - 1 \in T PROVE n \in T
    <2>1. f[n] = IF s[n] \in S THEN Append(f[n - 1], s[n]) ELSE f[n - 1]
      BY <1>1, <1>4 DEF SelectStep
    <2>2. Sublist(X, f[n - 1], s, S, 1..(n - 1))
      BY <1>6
    <2>3. Sublist(X, f[n], s, S, 1..n)
      BY <2>1, <2>2, SublistMore
    <2> QED
      BY <1>1, <2>3
  <1>7. N \in T
    <2>1. T \in SUBSET (0..N)
      OBVIOUS
    <2> HIDE DEF T, N
    <2> QED
      BY <1>1, <1>5, <1>6, <2>1, CountingUp
  <1> QED
    BY <1>1, <1>3, <1>7

\* The same, spelt out.
LEMMA SelectedList ==
  ASSUME NEW X, NEW s \in Seq(X), NEW S, NEW p, p = Selected(s, S)
  PROVE  /\ p \in Seq(X)
         /\ \A i \in DOMAIN p : p[i] \in S /\ \E a \in DOMAIN s : p[i] = s[a]
         /\ \A i, j \in DOMAIN p : i < j =>
               \E a, b \in DOMAIN s : a < b /\ p[i] = s[a] /\ p[j] = s[b]
         /\ \A a \in DOMAIN s : s[a] \in S => \E i \in DOMAIN p : p[i] = s[a]
  BY SelectedFacts DEF Sublist

\* What a list is when an element was appended.
LEMMA AppendFacts ==
  ASSUME NEW X, NEW s \in Seq(X), NEW e \in X
  PROVE  /\ Append(s, e) \in Seq(X)
         /\ DOMAIN Append(s, e) = 1..(Len(s) + 1) /\ DOMAIN s = 1..Len(s) /\ Len(s) \in Nat
         /\ \A i \in DOMAIN s : i \in DOMAIN Append(s, e) /\ Append(s, e)[i] = s[i] /\ i < Len(s) + 1
         /\ Len(s) + 1 \in DOMAIN Append(s, e) /\ Append(s, e)[Len(s) + 1] = e
         /\ \A i \in DOMAIN Append(s, e) : i \in DOMAIN s \/ i = Len(s) + 1
         /\ Append(s, e) # <<>>
  OBVIOUS

\* What is left of a list whose head was taken.
LEMMA TailFacts ==
  ASSUME NEW X, NEW s \in Seq(X), s # <<>>
  PROVE  /\ Tail(s) \in Seq(X) /\ Head(s) \in X /\ 1 \in DOMAIN s /\ Head(s) = s[1]
         /\ DOMAIN s = 1..Len(s) /\ Len(s) \in Nat
         /\ \A i \in DOMAIN Tail(s) : i + 1 \in DOMAIN s /\ Tail(s)[i] = s[i + 1] /\ i + 1 # 1
                                      /\ i \in Nat /\ i >= 1
         /\ \A i \in DOMAIN s : i = 1 \/ (i - 1 \in DOMAIN Tail(s) /\ Tail(s)[i - 1] = s[i])
  OBVIOUS

-----------------------------------------------------------------------------
(* Buffers.                                                                *)

\* A buffer is a slot of one of the swapchains, and None is not one.
LEMMA BufferFacts ==
  /\ None \notin Buffers
  /\ \A b \in Buffers : b[1] \in 0..MaxResize /\ b[2] \in Slots /\ b = <<b[1], b[2]>>
                        /\ b \in Chain(b[1])
  /\ \A g \in 0..MaxResize : Chain(g) \subseteq Buffers
  /\ \A g : \A b \in Chain(g) : b[1] = g
  /\ \A g : \A i \in Slots : <<g, i>> \in Chain(g)
  BY DEF Buffers, Chain, None

\* The next slots, counted round, are slots.
LEMMA SlotFacts ==
  ASSUME NEW x \in Nat
  PROVE  x % NBuf \in Slots
  BY BoundsAreNaturals DEF Slots

\* A free slot that is found is one.
LEMMA FreeFacts ==
  ASSUME FreeOffsets # {}
  PROVE  Min(FreeOffsets) \in FreeOffsets
  <1>1. FreeOffsets \in SUBSET Nat
    BY BoundsAreNaturals DEF FreeOffsets, Slots
  <1>2. \E n \in FreeOffsets : \A m \in FreeOffsets : n <= m
    BY <1>1, LeastNatural
  <1> QED
    BY <1>2 DEF Min

\* The larger of two generations.
LEMMA MaxFacts ==
  ASSUME NEW a \in Int, NEW b \in Int
  PROVE  Max({a, b}) \in {a, b} /\ Max({a, b}) >= a /\ Max({a, b}) >= b
  <1>1. \E x \in {a, b} : \A y \in {a, b} : x >= y
    OBVIOUS
  <1> QED
    BY <1>1 DEF Max

-----------------------------------------------------------------------------
(* Types.                                                                  *)

ShimTyped ==
    /\ pc \in {"draw", "wait", "sync", "gone"}
    /\ chain \in 0..MaxResize /\ cur \in Slots
    /\ retired \subseteq alive /\ busy \subseteq Buffers /\ alive \subseteq Buffers
    /\ swaps \in 0..MaxSwaps /\ expired \in BOOLEAN
WireTyped == requests \in Seq(Requests) /\ events \in Seq(Events)
ServerTyped ==
    /\ current \in Buffers \cup {None} /\ fenced \subseteq Buffers
    /\ pending \in [buf : Buffers \cup {None}, cached : BOOLEAN]
    /\ held \in Seq(DirectFrames) /\ batches \in Seq(Generations)
    /\ synced \in BOOLEAN /\ repaint \in BOOLEAN /\ slow \in BOOLEAN
StreamTyped ==
    /\ paints \in 0..MaxPaints /\ direct_seq \in 0..paints /\ presented \in 0..paints
    /\ released \in [Buffers -> 0..MaxPaints] /\ last \in [Buffers -> 0..MaxPaints]
    /\ \A b \in Buffers : released[b] <= last[b] /\ last[b] <= paints
ViewerTyped ==
    /\ dirty \in Seq(Frames) /\ shown \in Frames \cup {NoFrame}
    /\ unseen \in Seq(Generations) /\ replies \in Seq(Replies)
    /\ drops \in 0..MaxDrops /\ app \in BOOLEAN

\* The parts of the type invariant.
LEMMA TypeParts ==
  TypeOK <=> ShimTyped /\ WireTyped /\ ServerTyped /\ StreamTyped /\ ViewerTyped
  BY DEF TypeOK, ShimTyped, WireTyped, ServerTyped, StreamTyped, ViewerTyped

\* The same of the next state.
LEMMA TypePartsNext ==
  ShimTyped' /\ WireTyped' /\ ServerTyped' /\ StreamTyped' /\ ViewerTyped' => TypeOK'
  BY DEF TypeOK, ShimTyped, WireTyped, ServerTyped, StreamTyped, ViewerTyped

\* The initial state is well typed.
LEMMA TypeInit == Init => TypeOK
  <1> SUFFICES ASSUME Init PROVE TypeOK
    OBVIOUS
  <1>1. ShimTyped
    <2>1. chain \in 0..MaxResize /\ cur \in Slots /\ swaps \in 0..MaxSwaps
      BY BoundsAreNaturals DEF Init, Slots
    <2>2. alive \subseteq Buffers
      BY BoundsAreNaturals, BufferFacts DEF Init
    <2> QED
      BY <2>1, <2>2 DEF Init, ShimTyped
  <1>2. WireTyped
    BY DEF Init, WireTyped
  <1>3. ServerTyped
    <2>1. held \in Seq(DirectFrames) /\ batches \in Seq(Generations)
      BY DEF Init
    <2>2. pending \in [buf : Buffers \cup {None}, cached : BOOLEAN]
      BY DEF Init
    <2> QED
      BY <2>1, <2>2 DEF Init, ServerTyped
  <1>4. StreamTyped
    BY BoundsAreNaturals DEF Init, StreamTyped
  <1>5. ViewerTyped
    <2>1. drops \in 0..MaxDrops
      BY BoundsAreNaturals DEF Init
    <2>2. dirty \in Seq(Frames) /\ unseen \in Seq(Generations) /\ replies \in Seq(Replies)
      BY DEF Init
    <2> QED
      BY <2>1, <2>2 DEF Init, ViewerTyped
  <1> QED
    BY <1>1, <1>2, <1>3, <1>4, <1>5, TypeParts

\* The buffer drawn into.
LEMMA DrawnFacts ==
  ASSUME TypeOK
  PROVE  /\ Drawn \in Buffers /\ Drawn \in Chain(chain) /\ Request("frame", {Drawn}) \in Requests
  <1>1. Drawn \in Buffers /\ Drawn \in Chain(chain)
    BY BufferFacts DEF TypeOK, Drawn
  <1> QED
    BY <1>1 DEF Request, Requests

\* release_direct_buffers moves what was given back from the list to the
\* client's events, in order, and nothing else.
LEMMA ReleaseFacts ==
  ASSUME TypeOK, ReleaseDirect(events)
  PROVE  /\ events' \in Seq(Events) /\ held' \in Seq(DirectFrames)
         /\ \A i \in DOMAIN events : i \in DOMAIN events' /\ events'[i] = events[i]
         /\ \A i \in DOMAIN events' : i \notin DOMAIN events =>
               \E a \in DOMAIN held : GivenBack(held[a]) /\ events'[i] = Release(held[a].buf)
         /\ \A i, j \in DOMAIN events' : i < j /\ i \notin DOMAIN events =>
               \E a, b \in DOMAIN held : a < b /\ events'[i] = Release(held[a].buf)
                                               /\ events'[j] = Release(held[b].buf)
         /\ \A a \in DOMAIN held : GivenBack(held[a]) =>
               \E i \in DOMAIN events' : events'[i] = Release(held[a].buf)
         /\ \A i \in DOMAIN held' : \E a \in DOMAIN held : held'[i] = held[a] /\ ~ GivenBack(held[a])
         /\ \A i, j \in DOMAIN held' : i < j =>
               \E a, b \in DOMAIN held : a < b /\ held'[i] = held[a] /\ held'[j] = held[b]
         /\ \A a \in DOMAIN held : ~ GivenBack(held[a]) => \E i \in DOMAIN held' : held'[i] = held[a]
  <1> DEFINE S == {h \in Range(held) : GivenBack(h)}
             R == {h \in Range(held) : ~ GivenBack(h)}
             back == Selected(held, S)
             rel == [n \in DOMAIN back |-> Release(back[n].buf)]
             N == Len(events)
             M == Len(back)
  <1>1. events \in Seq(Events) /\ held \in Seq(DirectFrames)
    BY DEF TypeOK
  <1>2. /\ back \in Seq(DirectFrames)
        /\ \A i \in DOMAIN back : back[i] \in S /\ \E a \in DOMAIN held : back[i] = held[a]
        /\ \A i, j \in DOMAIN back : i < j =>
              \E a, b \in DOMAIN held : a < b /\ back[i] = held[a] /\ back[j] = held[b]
        /\ \A a \in DOMAIN held : held[a] \in S => \E i \in DOMAIN back : back[i] = held[a]
    <2> HIDE DEF S
    <2> QED
      BY <1>1, SelectedList
  <1>3. held' = Selected(held, R) /\ events' = events \o rel
    BY DEF ReleaseDirect
  <1>h. /\ held' \in Seq(DirectFrames)
        /\ \A i \in DOMAIN held' : held'[i] \in R /\ \E a \in DOMAIN held : held'[i] = held[a]
        /\ \A i, j \in DOMAIN held' : i < j =>
              \E a, b \in DOMAIN held : a < b /\ held'[i] = held[a] /\ held'[j] = held[b]
        /\ \A a \in DOMAIN held : held[a] \in R => \E i \in DOMAIN held' : held'[i] = held[a]
    <2> HIDE DEF R
    <2> QED
      BY <1>1, <1>3, SelectedList
  <1>d. \A a \in DOMAIN held : /\ held[a] \in S <=> GivenBack(held[a])
                               /\ held[a] \in R <=> ~ GivenBack(held[a])
    BY DEF Range
  <1> HIDE DEF S, R, back
  <1>4. DOMAIN back = 1..M /\ M \in Nat
    BY <1>2
  <1>5. rel \in Seq(Events) /\ Len(rel) = M
    <2>1. \A n \in DOMAIN back : Release(back[n].buf) \in Events
      <3>1. \A n \in DOMAIN back : back[n] \in DirectFrames
        BY <1>2
      <3> QED
        BY <3>1 DEF Release, Events, DirectFrames
    <2> HIDE DEF M
    <2>2. rel \in [1..M -> Events]
      BY <1>4, <2>1
    <2> HIDE DEF rel
    <2> QED
      BY <1>4, <2>2
  <1>6. DOMAIN rel = 1..M /\ \A n \in 1..M : rel[n] = Release(back[n].buf)
    BY <1>4
  <1> HIDE DEF rel, M
  <1>7. /\ events' \in Seq(Events) /\ N \in Nat /\ DOMAIN events = 1..N /\ DOMAIN events' = 1..(N + M)
        /\ \A i \in 1..N : events'[i] = events[i]
        /\ \A i \in (N + 1)..(N + M) : i - N \in 1..M /\ events'[i] = rel[i - N]
    BY <1>1, <1>3, <1>4, <1>5
  <1> HIDE DEF N
  <1>8. \A i \in DOMAIN events' : i \notin DOMAIN events =>
           i \in (N + 1)..(N + M) /\ i - N \in DOMAIN back /\ events'[i] = Release(back[i - N].buf)
    BY <1>4, <1>6, <1>7
  <1>9. ASSUME NEW i \in DOMAIN events', i \notin DOMAIN events
        PROVE  \E a \in DOMAIN held : GivenBack(held[a]) /\ events'[i] = Release(held[a].buf)
    <2>1. i - N \in DOMAIN back /\ events'[i] = Release(back[i - N].buf)
      BY <1>8, <1>9
    <2>2. PICK a \in DOMAIN held : back[i - N] = held[a] /\ back[i - N] \in S
      BY <1>2, <2>1
    <2> QED
      BY <1>d, <2>1, <2>2
  <1>10. ASSUME NEW i \in DOMAIN events', NEW j \in DOMAIN events', i < j, i \notin DOMAIN events
         PROVE  \E a, b \in DOMAIN held : a < b /\ events'[i] = Release(held[a].buf)
                                               /\ events'[j] = Release(held[b].buf)
    <2>0. i \in Int /\ j \in Int /\ j \notin DOMAIN events
      BY <1>4, <1>7, <1>10
    <2>1. i - N \in DOMAIN back /\ j - N \in DOMAIN back /\ i - N < j - N
      BY <1>7, <1>8, <1>10, <2>0
    <2>2. PICK a, b \in DOMAIN held : a < b /\ back[i - N] = held[a] /\ back[j - N] = held[b]
      BY <1>2, <2>1
    <2>3. events'[i] = Release(back[i - N].buf) /\ events'[j] = Release(back[j - N].buf)
      BY <1>8, <1>10, <2>0
    <2> QED
      BY <2>2, <2>3
  <1>11. ASSUME NEW a \in DOMAIN held, GivenBack(held[a])
         PROVE  \E i \in DOMAIN events' : events'[i] = Release(held[a].buf)
    <2>1. PICK n \in DOMAIN back : back[n] = held[a]
      BY <1>2, <1>d, <1>11
    <2>2. N + n \in (N + 1)..(N + M) /\ (N + n) - N = n /\ N + n \in DOMAIN events'
      BY <1>4, <1>7, <2>1
    <2> QED
      BY <1>4, <1>6, <1>7, <2>1, <2>2
  <1>12. \A i \in DOMAIN held' : \E a \in DOMAIN held : held'[i] = held[a] /\ ~ GivenBack(held[a])
    BY <1>h, <1>d
  <1>13. \A a \in DOMAIN held : ~ GivenBack(held[a]) => \E i \in DOMAIN held' : held'[i] = held[a]
    BY <1>h, <1>d
  <1>14. \A i \in DOMAIN events : i \in DOMAIN events' /\ events'[i] = events[i]
    BY <1>4, <1>7
  <1> QED
    BY <1>7, <1>h, <1>9, <1>10, <1>11, <1>12, <1>13, <1>14

\* direct_buffer_destroyed keeps the other buffers' entries.
LEMMA ForgetFacts ==
  ASSUME TypeOK, NEW bs, Forget(bs)
  PROVE  /\ held' \in Seq(DirectFrames)
         /\ \A i \in DOMAIN held' : \E a \in DOMAIN held : held'[i] = held[a] /\ held[a].buf \notin bs
         /\ \A i, j \in DOMAIN held' : i < j =>
               \E a, b \in DOMAIN held : a < b /\ held'[i] = held[a] /\ held'[j] = held[b]
         /\ \A a \in DOMAIN held : held[a].buf \notin bs => \E i \in DOMAIN held' : held'[i] = held[a]
         /\ events' = events
         /\ released' \in [Buffers -> 0..MaxPaints] /\ last' \in [Buffers -> 0..MaxPaints]
         /\ \A b \in Buffers : /\ released'[b] = IF b \in bs THEN 0 ELSE released[b]
                               /\ last'[b] = IF b \in bs THEN 0 ELSE last[b]
  <1> DEFINE S == {h \in Range(held) : h.buf \notin bs}
  <1>1. held \in Seq(DirectFrames)
    BY DEF TypeOK
  <1>2. held' = Selected(held, S)
    BY DEF Forget
  <1>3. \A a \in DOMAIN held : held[a] \in S <=> held[a].buf \notin bs
    BY DEF Range
  <1> HIDE DEF S
  <1>h. /\ held' \in Seq(DirectFrames)
        /\ \A i \in DOMAIN held' : held'[i] \in S /\ \E a \in DOMAIN held : held'[i] = held[a]
        /\ \A i, j \in DOMAIN held' : i < j =>
              \E a, b \in DOMAIN held : a < b /\ held'[i] = held[a] /\ held'[j] = held[b]
        /\ \A a \in DOMAIN held : held[a] \in S => \E i \in DOMAIN held' : held'[i] = held[a]
    BY <1>1, <1>2, SelectedList
  <1>4. /\ events' = events
        /\ released' \in [Buffers -> 0..MaxPaints] /\ last' \in [Buffers -> 0..MaxPaints]
        /\ \A b \in Buffers : /\ released'[b] = IF b \in bs THEN 0 ELSE released[b]
                              /\ last'[b] = IF b \in bs THEN 0 ELSE last[b]
    <2>1. /\ events' = events
          /\ last' = [b \in Buffers |-> IF b \in bs THEN 0 ELSE last[b]]
          /\ released' = [b \in Buffers |-> IF b \in bs THEN 0 ELSE released[b]]
      BY DEF Forget
    <2>2. /\ released \in [Buffers -> 0..MaxPaints] /\ last \in [Buffers -> 0..MaxPaints]
      BY DEF TypeOK
    <2>3. 0 \in 0..MaxPaints
      BY BoundsAreNaturals
    <2> QED
      BY <2>1, <2>2, <2>3
  <1>5. \A i \in DOMAIN held' : \E a \in DOMAIN held : held'[i] = held[a] /\ held[a].buf \notin bs
    BY <1>h, <1>3
  <1>6. \A a \in DOMAIN held : held[a].buf \notin bs => \E i \in DOMAIN held' : held'[i] = held[a]
    BY <1>h, <1>3
  <1> QED
    BY <1>h, <1>4, <1>5, <1>6

\* surface_set_buffer either leaves both lists alone, or adds the buffer it
\* replaces to one of them.
LEMMA SetFacts ==
  ASSUME TypeOK, NEW b \in Buffers \cup {None}, SetBuffer(b)
  PROVE  /\ current' = b /\ direct_seq' = (IF current = b THEN direct_seq ELSE 0)
         /\ events' \in Seq(Events) /\ held' \in Seq(DirectFrames)
         /\ \/ current \in {None, b} /\ UNCHANGED <<held, events>>
            \/ /\ current \in Buffers \ {b} /\ direct_seq # 0 /\ released[current] < direct_seq
               /\ held' = Append(held, [buf |-> current, seq |-> direct_seq])
               /\ [buf |-> current, seq |-> direct_seq] \in DirectFrames
               /\ UNCHANGED events
            \/ /\ current \in Buffers \ {b}
               /\ direct_seq = 0 \/ released[current] >= direct_seq
               /\ events' = Append(events, Release(current)) /\ Release(current) \in Events
               /\ UNCHANGED held
  <1> DEFINE h == [buf |-> current, seq |-> direct_seq]
  <1>1. current' = b /\ direct_seq' = (IF current = b THEN direct_seq ELSE 0)
    BY DEF SetBuffer
  <1>2. CASE current \in {None, b}
    BY <1>1, <1>2 DEF SetBuffer, TypeOK
  <1>3. CASE current \notin {None, b} /\ direct_seq # 0 /\ released[current] < direct_seq
    <2>0. current \in Buffers \ {b}
      BY <1>3 DEF TypeOK
    <2>1. h \in DirectFrames
      <3>1. direct_seq \in 1..MaxPaints
        BY <1>3, BoundsAreNaturals DEF TypeOK
      <3> QED
        BY <2>0, <3>1 DEF DirectFrames, Generations
    <2>2. held' = Append(held, h) /\ events' = events
      BY <1>3 DEF SetBuffer
    <2>3. held' \in Seq(DirectFrames) /\ events' \in Seq(Events)
      BY <2>1, <2>2, AppendFacts DEF TypeOK
    <2> QED
      BY <1>1, <1>3, <2>0, <2>1, <2>2, <2>3
  <1>4. CASE current \notin {None, b} /\ ~ (direct_seq # 0 /\ released[current] < direct_seq)
    <2>1. current \in Buffers \ {b} /\ Release(current) \in Events
      BY <1>4 DEF TypeOK, Release, Events
    <2>2. events' = Append(events, Release(current)) /\ held' = held
      BY <1>4 DEF SetBuffer
    <2>a. direct_seq \in 0..paints /\ paints \in 0..MaxPaints /\ released[current] \in 0..MaxPaints
      BY <2>1 DEF TypeOK
    <2>b. MaxPaints \in Nat
      BY BoundsAreNaturals
    <2>3. direct_seq = 0 \/ released[current] >= direct_seq
      BY <1>4, <2>a, <2>b
    <2>4. held' \in Seq(DirectFrames) /\ events' \in Seq(Events)
      BY <2>1, <2>2, AppendFacts DEF TypeOK
    <2> QED
      BY <1>1, <2>1, <2>2, <2>3, <2>4
  <1> QED
    BY <1>2, <1>3, <1>4

\* The request the compositor handles next.
LEMMA RequestFacts ==
  ASSUME TypeOK, requests # <<>>
  PROVE  LET r == Head(requests) IN
         /\ r \in Requests /\ r = requests[1] /\ 1 \in DOMAIN requests /\ Tail(requests) \in Seq(Requests)
         /\ r.op \in {"frame", "destroy", "surface", "sync"} /\ r.bufs \subseteq Buffers
         /\ r.op = "frame" => \A b \in r.bufs : b \in Buffers /\ r = Request("frame", {b})
  <1>1. /\ Head(requests) \in Requests /\ Head(requests) = requests[1] /\ 1 \in DOMAIN requests
        /\ Tail(requests) \in Seq(Requests)
    BY TailFacts DEF TypeOK
  <1> QED
    BY <1>1 DEF Requests, Request

\* The event the client dispatches next.
LEMMA EventFacts ==
  ASSUME TypeOK, events # <<>>
  PROVE  LET e == Head(events) IN
         /\ e \in Events /\ e = events[1] /\ 1 \in DOMAIN events /\ Tail(events) \in Seq(Events)
         /\ \/ e.op = "release" /\ e.buf \in Buffers /\ e = Release(e.buf)
            \/ e.op = "done" /\ e.op # "release" /\ e.buf = None
  <1>1. /\ Head(events) \in Events /\ Head(events) = events[1] /\ 1 \in DOMAIN events
        /\ Tail(events) \in Seq(Events)
    BY TailFacts DEF TypeOK
  <1> QED
    BY <1>1 DEF Events, Release

\* The message the reader thread reads next.
LEMMA ReplyFacts ==
  ASSUME TypeOK, replies # <<>>
  PROVE  LET m == Head(replies) IN
         /\ m \in Replies /\ m = replies[1] /\ 1 \in DOMAIN replies /\ Tail(replies) \in Seq(Replies)
         /\ m.seq \in Generations /\ m.seq \in Nat
         /\ \/ m.op = "released" /\ m.op # "presented" /\ m.buf \in Buffers
            \/ m.op = "presented"
  <1>1. /\ Head(replies) \in Replies /\ Head(replies) = replies[1] /\ 1 \in DOMAIN replies
        /\ Tail(replies) \in Seq(Replies)
    BY TailFacts DEF TypeOK
  <1> QED
    BY <1>1, BoundsAreNaturals DEF Replies, Generations

\* The client's steps keep the types.
LEMMA ShimTypes ==
  ASSUME TypeOK, ChainInv, SyncInv, ShimStep
  PROVE  TypeOK'
  <1> USE DEF server, stream, viewer, wire
  <1>0. ShimTyped /\ WireTyped /\ ServerTyped /\ StreamTyped /\ ViewerTyped
    BY TypeParts
  <1>u. UNCHANGED <<server, stream, viewer>>
    BY DEF ShimStep, SwapBuffers, NextBuffer, BudgetExpires, DispatchEvent, MakeCurrent,
       DestroySurface
  <1>v. ServerTyped' /\ StreamTyped' /\ ViewerTyped'
    BY <1>0, <1>u DEF ServerTyped, StreamTyped, ViewerTyped
  <1>n. cur \in Nat /\ \A n \in Slots : n \in Nat
    BY <1>0, BoundsAreNaturals DEF ShimTyped, Slots
  <1>1. CASE SwapBuffers
    <2>1. ShimTyped'
      BY <1>0, <1>1, DrawnFacts, BoundsAreNaturals DEF SwapBuffers, ShimTyped
    <2>2. WireTyped'
      BY <1>0, <1>1, DrawnFacts, AppendFacts DEF SwapBuffers, WireTyped
    <2> QED
      BY <1>v, <2>1, <2>2, TypePartsNext
  <1>2. CASE NextBuffer
    <2>1. Min(FreeOffsets) \in Slots
      BY <1>2, FreeFacts DEF NextBuffer, FreeOffsets
    <2>2. cur + 1 + Min(FreeOffsets) \in Nat
      BY <1>n, <2>1
    <2>3. cur' \in Slots
      BY <1>2, <2>2, SlotFacts DEF NextBuffer
    <2>4. ShimTyped' /\ WireTyped'
      BY <1>0, <1>2, <2>3 DEF NextBuffer, ShimTyped, WireTyped
    <2> QED
      BY <1>v, <2>4, TypePartsNext
  <1>3. CASE BudgetExpires
    <2>1. cur' \in Slots
      BY <1>n, <1>3, SlotFacts DEF BudgetExpires
    <2>2. ShimTyped' /\ WireTyped'
      BY <1>0, <1>3, <2>1 DEF BudgetExpires, ShimTyped, WireTyped
    <2> QED
      BY <1>v, <2>2, TypePartsNext
  <1>4. CASE DispatchEvent
    <2> DEFINE e == Head(events)
    <2>1. /\ e \in Events /\ e = events[1] /\ 1 \in DOMAIN events /\ events' \in Seq(Events)
          /\ UNCHANGED <<swaps, expired>>
      BY <1>4, EventFacts DEF DispatchEvent
    <2>2. CASE e.op = "release"
      <3>1. BufRelease(e.buf) /\ e.buf \in Buffers
        BY <1>4, <2>2, EventFacts DEF DispatchEvent
      <3>2. Request("destroy", {e.buf}) \in Requests
        BY <3>1 DEF Request, Requests
      <3>3. requests' \in Seq(Requests)
        BY <1>0, <3>1, <3>2, AppendFacts DEF BufRelease, WireTyped
      <3>4. ShimTyped'
        BY <1>0, <2>1, <3>1 DEF BufRelease, ShimTyped
      <3> QED
        BY <1>v, <2>1, <3>3, <3>4, TypePartsNext DEF WireTyped
    <2>3. CASE e.op = "done" /\ e.op # "release"
      <3>1. AllocationDone /\ pc = "sync" /\ chain < MaxResize
        BY <1>4, <2>1, <2>3 DEF DispatchEvent, SyncInv
      <3> DEFINE freed == Chain(chain) \ busy
      <3>2. Replace(freed)
        BY <3>1 DEF AllocationDone
      <3>3. chain \in 0..MaxResize /\ chain + 1 \in 0..MaxResize
        BY <1>0, <3>1, BoundsAreNaturals DEF ShimTyped
      <3>4. Chain(chain) \subseteq Buffers /\ Chain(chain + 1) \subseteq Buffers
        BY <3>3, BufferFacts
      <3>5. Request("destroy", freed) \in Requests
        BY <3>4 DEF Request, Requests
      <3> HIDE DEF freed
      <3>6. requests' \in Seq(Requests)
        BY <1>0, <3>2, <3>5, AppendFacts DEF Replace, WireTyped
      <3>7. retired' \subseteq Buffers /\ alive' \subseteq Buffers /\ busy' \subseteq Buffers
        BY <1>0, <3>2, <3>4 DEF Replace, ShimTyped
      <3>8. retired' \subseteq alive'
        BY <3>1, <3>2 DEF Replace, ChainInv, freed
      <3>9. 0 \in Slots
        BY BoundsAreNaturals DEF Slots
      <3>10. ShimTyped'
        BY <1>0, <2>1, <3>2, <3>3, <3>7, <3>8, <3>9 DEF ShimTyped, Replace
      <3> QED
        BY <1>v, <2>1, <3>6, <3>10, TypePartsNext DEF WireTyped
    <2> QED
      BY <1>4, <2>2, <2>3, EventFacts DEF DispatchEvent
  <1>5. CASE MakeCurrent
    <2>1. Request("sync", {}) \in Requests
      BY DEF Request, Requests
    <2>2. WireTyped'
      BY <1>0, <1>5, <2>1, AppendFacts DEF MakeCurrent, WireTyped
    <2>3. ShimTyped'
      BY <1>0, <1>5 DEF MakeCurrent, ShimTyped
    <2> QED
      BY <1>v, <2>2, <2>3, TypePartsNext
  <1>6. CASE DestroySurface
    <2>1. Request("surface", alive) \in Requests
      BY <1>0 DEF Request, Requests, ShimTyped
    <2>2. requests' \in Seq(Requests)
      BY <1>0, <1>6, <2>1, AppendFacts DEF DestroySurface, WireTyped
    <2>3. WireTyped'
      BY <1>6, <2>2 DEF DestroySurface, WireTyped
    <2>4. chain' \in 0..MaxResize /\ cur' \in Slots
      BY <1>6, BoundsAreNaturals DEF DestroySurface, Slots
    <2>5. ShimTyped'
      BY <1>0, <1>6, <2>4 DEF DestroySurface, ShimTyped
    <2> QED
      BY <1>v, <2>3, <2>5, TypePartsNext
  <1> QED
    BY <1>1, <1>2, <1>3, <1>4, <1>5, <1>6 DEF ShimStep

\* The compositor's steps keep the types.
LEMMA RequestTypes ==
  ASSUME TypeOK, HandleRequest
  PROVE  TypeOK'
  <1> USE DEF shim, viewer
  <1> DEFINE r == Head(requests)
  <1>0. ShimTyped /\ WireTyped /\ ServerTyped /\ StreamTyped /\ ViewerTyped
    BY TypeParts
  <1>1. requests # <<>> /\ requests' = Tail(requests)
        /\ UNCHANGED <<shim, synced, batches, slow, paints, presented, viewer>>
    BY DEF HandleRequest
  <1>2. requests' \in Seq(Requests) /\ r.bufs \subseteq Buffers
    BY <1>1, RequestFacts
  <1>3. ShimTyped' /\ ViewerTyped'
    BY <1>0, <1>1 DEF ShimTyped, ViewerTyped
  <1>4. ASSUME NEW b \in r.bufs, HandleFrame(b) PROVE TypeOK'
    <2>1. b \in Buffers
      BY <1>2
    <2>2. UNCHANGED <<last, released>> /\ fenced' = fenced \cup {b}
      BY <1>4 DEF HandleFrame
    <2>3. CASE synced
      <3>1. /\ UNCHANGED <<current, direct_seq, held, repaint, events>>
            /\ pending' = [buf |-> b, cached |-> TRUE]
        BY <1>4, <2>3 DEF HandleFrame
      <3>2. WireTyped' /\ StreamTyped'
        BY <1>0, <1>1, <1>2, <2>2, <3>1 DEF WireTyped, StreamTyped
      <3>3. ServerTyped'
        BY <1>0, <1>1, <2>1, <2>2, <3>1 DEF ServerTyped
      <3> QED
        BY <1>3, <3>2, <3>3, TypePartsNext
    <2>4. CASE ~ synced
      <3>1. SetBuffer(b) /\ repaint' = TRUE /\ UNCHANGED pending
        BY <1>4, <2>4 DEF HandleFrame
      <3>2. /\ current' = b /\ direct_seq' = (IF current = b THEN direct_seq ELSE 0)
            /\ events' \in Seq(Events) /\ held' \in Seq(DirectFrames)
        BY <2>1, <3>1, SetFacts
      <3>3. WireTyped'
        BY <1>2, <3>2 DEF WireTyped
      <3>4. StreamTyped'
        BY <1>0, <1>1, <2>2, <3>2 DEF StreamTyped
      <3>5. ServerTyped'
        BY <1>0, <1>1, <2>1, <2>2, <3>1, <3>2 DEF ServerTyped
      <3> QED
        BY <1>3, <3>3, <3>4, <3>5, TypePartsNext
    <2> QED
      BY <1>0, <2>3, <2>4 DEF ServerTyped
  <1>5. ASSUME Forget(r.bufs), current' \in {current, None}, direct_seq' \in {0, direct_seq},
               pending' \in [buf : Buffers \cup {None}, cached : BOOLEAN]
        PROVE  TypeOK'
    <2>1. /\ held' \in Seq(DirectFrames) /\ events' = events
          /\ released' \in [Buffers -> 0..MaxPaints] /\ last' \in [Buffers -> 0..MaxPaints]
          /\ \A b \in Buffers : /\ released'[b] = IF b \in r.bufs THEN 0 ELSE released[b]
                                /\ last'[b] = IF b \in r.bufs THEN 0 ELSE last[b]
      BY <1>5, ForgetFacts
    <2>2. fenced' \subseteq fenced /\ repaint' \in BOOLEAN
      BY <1>0, <1>5 DEF Forget, ServerTyped
    <2> HIDE DEF r
    <2>3. WireTyped'
      BY <1>0, <1>2, <2>1 DEF WireTyped
    <2>4. StreamTyped'
      <3>1. paints \in Nat /\ \A b \in Buffers : released[b] \in Nat /\ last[b] \in Nat
        BY <1>0, BoundsAreNaturals DEF StreamTyped
      <3>2. ASSUME NEW b \in Buffers PROVE released'[b] <= last'[b] /\ last'[b] <= paints
        <4>1. released[b] <= last[b] /\ last[b] <= paints
          BY <1>0 DEF StreamTyped
        <4>2. \/ released'[b] = 0 /\ last'[b] = 0
              \/ released'[b] = released[b] /\ last'[b] = last[b]
          BY <2>1
        <4> QED
          BY <3>1, <4>1, <4>2
      <3>3. direct_seq' \in 0..paints
        BY <1>0, <1>5, <3>1 DEF StreamTyped
      <3> QED
        BY <1>0, <1>1, <2>1, <3>2, <3>3 DEF StreamTyped
    <2>5. ServerTyped'
      BY <1>0, <1>1, <1>5, <2>1, <2>2 DEF ServerTyped
    <2> QED
      BY <1>3, <2>3, <2>4, <2>5, TypePartsNext
  <1>6. CASE HandleDestroy(r.bufs)
    <2>1. pending' \in [buf : Buffers \cup {None}, cached : BOOLEAN]
      BY <1>0, <1>6 DEF HandleDestroy, ServerTyped
    <2> QED
      BY <1>5, <1>6, <2>1 DEF HandleDestroy
  <1>7. CASE HandleSurfaceGone(r.bufs)
    BY <1>5, <1>7 DEF HandleSurfaceGone
  <1>8. CASE HandleSync
    <2>1. [op |-> "done", buf |-> None] \in Events
      BY DEF Events
    <2>2. events' \in Seq(Events)
      BY <1>0, <1>8, <2>1, AppendFacts DEF HandleSync, WireTyped
    <2>3. WireTyped'
      BY <1>2, <2>2 DEF WireTyped
    <2>4. ServerTyped' /\ StreamTyped'
      BY <1>0, <1>1, <1>8 DEF HandleSync, ServerTyped, StreamTyped
    <2> QED
      BY <1>3, <2>3, <2>4, TypePartsNext
  <1> QED
    BY <1>4, <1>6, <1>7, <1>8 DEF HandleRequest

\* A repaint publishes the next generation.
LEMMA PaintFacts ==
  ASSUME TypeOK, paints < MaxPaints, paints' = paints + 1
  PROVE  paints' \in Generations /\ paints' \in 0..MaxPaints /\ paints \in Nat /\ paints < paints'
  <1>1. paints \in 0..MaxPaints /\ MaxPaints \in Nat
    BY BoundsAreNaturals DEF TypeOK
  <1> QED
    BY <1>1 DEF Generations

\* What follows the repaint keeps the lists' types.
LEMMA AfterFacts ==
  ASSUME TypeOK, AfterPresent, paints' \in Generations
  PROVE  batches' \in Seq(Generations) /\ held' \in Seq(DirectFrames) /\ events' \in Seq(Events)
  <1>1. CASE app
    <2>1. batches' = Append(batches, paints') /\ UNCHANGED <<held, events>>
      BY <1>1 DEF AfterPresent
    <2>2. batches \in Seq(Generations) /\ held \in Seq(DirectFrames) /\ events \in Seq(Events)
      BY DEF TypeOK
    <2> QED
      BY <2>1, <2>2, AppendFacts
  <1>2. CASE ~ app
    <2>1. ReleaseDirect(events) /\ batches' = <<>>
      BY <1>2 DEF AfterPresent
    <2> QED
      BY <2>1, ReleaseFacts
  <1> QED
    BY <1>1, <1>2

\* The compositor's other steps keep the types.
LEMMA CompositorTypes ==
  ASSUME TypeOK, OrderInv, StreamInv,
         ParentCommit \/ RepaintComposite \/ RepaintDirect \/ (\E k \in 1..MaxPaints : AckTimer(k)) \/ ReadReply
  PROVE  TypeOK'
  <1> USE DEF shim, viewer, stream, server, wire
  <1>0. ShimTyped /\ WireTyped /\ ServerTyped /\ StreamTyped /\ ViewerTyped
    BY TypeParts
  <1>p. paints \in Nat
    BY <1>0, BoundsAreNaturals DEF StreamTyped
  <1>1. CASE ParentCommit
    <2>1. SetBuffer(pending.buf) /\ pending.buf \in Buffers \cup {None}
      BY <1>0, <1>1 DEF ParentCommit, ServerTyped
    <2>2. /\ current' = pending.buf /\ direct_seq' = (IF current = pending.buf THEN direct_seq ELSE 0)
          /\ events' \in Seq(Events) /\ held' \in Seq(DirectFrames)
      BY <2>1, SetFacts
    <2>3. ShimTyped' /\ ViewerTyped'
      BY <1>0, <1>1 DEF ParentCommit, ShimTyped, ViewerTyped
    <2>4. WireTyped'
      BY <1>0, <1>1, <2>2 DEF ParentCommit, WireTyped
    <2>5. StreamTyped'
      BY <1>0, <1>1, <2>2 DEF ParentCommit, StreamTyped
    <2>6. pending' \in [buf : Buffers \cup {None}, cached : BOOLEAN]
      BY <1>1 DEF ParentCommit
    <2>7. ServerTyped'
      BY <1>0, <1>1, <2>1, <2>2, <2>6 DEF ParentCommit, ServerTyped
    <2> QED
      BY <2>3, <2>4, <2>5, <2>7, TypePartsNext
  <1>2. CASE RepaintComposite
    <2>1. paints' \in Generations /\ paints' \in 0..MaxPaints /\ paints < paints'
      BY <1>2, PaintFacts DEF RepaintComposite
    <2>2. batches' \in Seq(Generations) /\ held' \in Seq(DirectFrames) /\ events' \in Seq(Events)
      BY <1>2, <2>1, AfterFacts DEF RepaintComposite
    <2>3. [buf |-> None, seq |-> paints'] \in Frames
      BY <2>1 DEF Frames
    <2>4. dirty' \in Seq(Frames)
      BY <1>0, <1>2, <2>3, AppendFacts DEF RepaintComposite, ViewerTyped
    <2>5. ViewerTyped'
      BY <1>0, <1>2, <2>4 DEF RepaintComposite, ViewerTyped
    <2>6. ShimTyped'
      BY <1>0, <1>2 DEF RepaintComposite, ShimTyped
    <2>7. WireTyped'
      BY <1>0, <1>2, <2>2 DEF RepaintComposite, WireTyped
    <2>8. StreamTyped'
      BY <1>0, <1>2, <1>p, <2>1 DEF RepaintComposite, StreamTyped
    <2>9. ServerTyped'
      BY <1>0, <1>2, <2>2 DEF RepaintComposite, ServerTyped
    <2> QED
      BY <2>5, <2>6, <2>7, <2>8, <2>9, TypePartsNext
  <1>3. CASE RepaintDirect
    <2>1. paints' \in Generations /\ paints' \in 0..MaxPaints /\ paints < paints' /\ current \in Buffers
      BY <1>0, <1>3, PaintFacts DEF RepaintDirect, ServerTyped
    <2>2. batches' \in Seq(Generations) /\ held' \in Seq(DirectFrames) /\ events' \in Seq(Events)
      BY <1>3, <2>1, AfterFacts DEF RepaintDirect
    <2>3. [buf |-> current, seq |-> paints'] \in Frames
      BY <2>1 DEF Frames
    <2>4. dirty' \in Seq(Frames)
      BY <1>0, <1>3, <2>3, AppendFacts DEF RepaintDirect, ViewerTyped
    <2>5. ViewerTyped'
      BY <1>0, <1>3, <2>4 DEF RepaintDirect, ViewerTyped
    <2>6. ShimTyped'
      BY <1>0, <1>3 DEF RepaintDirect, ShimTyped
    <2>7. WireTyped'
      BY <1>0, <1>3, <2>2 DEF RepaintDirect, WireTyped
    <2>8. last' \in [Buffers -> 0..MaxPaints] /\ \A b \in Buffers : last'[b] = IF b = current THEN paints' ELSE last[b]
      BY <1>0, <1>3, <2>1 DEF RepaintDirect, StreamTyped
    <2>9. direct_seq' = paints' /\ UNCHANGED <<presented, released>>
      BY <1>3 DEF RepaintDirect
    <2>10. \A b \in Buffers : released[b] \in Nat /\ last[b] \in Nat
      BY <1>0, BoundsAreNaturals DEF StreamTyped
    <2>11. \A b \in Buffers : released'[b] <= last'[b] /\ last'[b] <= paints'
      BY <1>0, <1>p, <2>1, <2>8, <2>9, <2>10 DEF StreamTyped
    <2>12. StreamTyped'
      BY <1>0, <1>p, <2>1, <2>8, <2>9, <2>11 DEF StreamTyped
    <2>13. ServerTyped'
      BY <1>0, <1>3, <2>2 DEF RepaintDirect, ServerTyped
    <2> QED
      BY <2>5, <2>6, <2>7, <2>12, <2>13, TypePartsNext
  <1>4. ASSUME NEW k \in 1..MaxPaints, AckTimer(k) PROVE TypeOK'
    <2>1. ReleaseDirect(events)
      BY <1>4 DEF AckTimer
    <2>2. events' \in Seq(Events) /\ held' \in Seq(DirectFrames)
      BY <2>1, ReleaseFacts
    <2>3. batches' \in Seq(Generations)
      BY <1>0, <1>4 DEF AckTimer, ServerTyped
    <2>4. slow' \in BOOLEAN
      BY <1>0, <1>4 DEF AckTimer, ServerTyped
    <2>5. ShimTyped' /\ ViewerTyped' /\ StreamTyped'
      BY <1>0, <1>4 DEF AckTimer, ShimTyped, ViewerTyped, StreamTyped
    <2>6. WireTyped'
      BY <1>0, <1>4, <2>2 DEF AckTimer, WireTyped
    <2>7. ServerTyped'
      BY <1>0, <1>4, <2>2, <2>3, <2>4 DEF AckTimer, ServerTyped
    <2> QED
      BY <2>5, <2>6, <2>7, TypePartsNext
  <1>5. CASE ReadReply
    <2> DEFINE m == Head(replies)
    <2>1. replies # <<>> /\ replies' = Tail(replies) /\ UNCHANGED <<app, dirty, shown, unseen, drops>>
      BY <1>5 DEF ReadReply
    <2>2. /\ m = replies[1] /\ 1 \in DOMAIN replies /\ replies' \in Seq(Replies)
          /\ m.seq \in Generations /\ m.seq \in Nat
      BY <2>1, ReplyFacts
    <2>3. ViewerTyped'
      BY <1>0, <2>1, <2>2 DEF ViewerTyped
    <2>4. ShimTyped' /\ WireTyped' /\ ServerTyped'
      BY <1>0, <1>5 DEF ReadReply, ShimTyped, WireTyped, ServerTyped
    <2>5. m.seq <= paints
      BY <2>2 DEF OrderInv, ReplyOrder
    <2>6. UNCHANGED <<paints, last, direct_seq>>
      BY <1>5 DEF ReadReply
    <2> HIDE DEF m
    <2>7. CASE m.op = "presented"
      <3>1. presented' = Max({presented, m.seq}) /\ UNCHANGED released
        BY <1>5, <2>7 DEF ReadReply, m
      <3>2. presented' \in 0..paints
        <4>1. presented \in Int /\ m.seq \in Int
          BY <1>0, <1>p, <2>2 DEF StreamTyped
        <4>2. presented' \in {presented, m.seq}
          BY <3>1, <4>1, MaxFacts
        <4> QED
          BY <1>0, <1>p, <2>2, <2>5, <4>2 DEF StreamTyped
      <3>3. StreamTyped'
        BY <1>0, <2>6, <3>1, <3>2 DEF StreamTyped
      <3> QED
        BY <2>3, <2>4, <3>3, TypePartsNext
    <2>8. CASE m.op = "released" /\ m.op # "presented" /\ m.buf \in Buffers
      <3>1. /\ released' = [released EXCEPT ![m.buf] =
                               IF last[m.buf] # 0 THEN Max({released[m.buf], m.seq}) ELSE released[m.buf]]
            /\ UNCHANGED presented
        BY <1>5, <2>8 DEF ReadReply, m
      <3>2. /\ released[m.buf] \in Int /\ m.seq \in Int /\ m.seq \in 0..MaxPaints
            /\ released[m.buf] \in 0..MaxPaints
        BY <1>0, <2>2, <2>8, BoundsAreNaturals DEF StreamTyped, Generations
      <3>3. Max({released[m.buf], m.seq}) \in {released[m.buf], m.seq}
        BY <3>2, MaxFacts
      <3>4. last[m.buf] # 0 => m.seq <= last[m.buf]
        BY <2>2, <2>8 DEF StreamInv, m
      <3> DEFINE x == IF last[m.buf] # 0 THEN Max({released[m.buf], m.seq}) ELSE released[m.buf]
      <3>5. x \in 0..MaxPaints /\ x <= last[m.buf]
        BY <1>0, <2>8, <3>2, <3>3, <3>4 DEF StreamTyped
      <3>6. released' = [released EXCEPT ![m.buf] = x]
        BY <3>1
      <3> HIDE DEF x
      <3>7. StreamTyped'
        BY <1>0, <2>6, <2>8, <3>1, <3>5, <3>6 DEF StreamTyped
      <3> QED
        BY <2>3, <2>4, <3>7, TypePartsNext
    <2> QED
      BY <2>1, <2>7, <2>8, ReplyFacts DEF m
  <1> QED
    BY <1>1, <1>2, <1>3, <1>4, <1>5

\* The app's steps keep the types.
LEMMA AppTypes ==
  ASSUME TypeOK, AppStep
  PROVE  TypeOK'
  <1> USE DEF shim, stream, server, wire
  <1>0. ShimTyped /\ WireTyped /\ ServerTyped /\ StreamTyped /\ ViewerTyped
    BY TypeParts
  <1>1. ShimTyped' /\ WireTyped' /\ ServerTyped'
    BY <1>0 DEF AppStep, AppDrain, AppPresented, AppDrop, AppAttach, ShimTyped, WireTyped,
       ServerTyped
  <1>2. CASE AppDrain
    <2>0. Head(dirty) \in Frames /\ Tail(dirty) \in Seq(Frames)
      BY <1>0, <1>2, TailFacts DEF AppDrain, ViewerTyped
    <2>1. Head(dirty) \in Frames /\ Tail(dirty) \in Seq(Frames) /\ Head(dirty).seq \in Generations
      BY <2>0 DEF Frames
    <2>2. unseen' \in Seq(Generations)
      BY <1>0, <1>2, <2>1, AppendFacts DEF AppDrain, ViewerTyped
    <2>3. shown.buf # None => [op |-> "released", buf |-> shown.buf, seq |-> shown.seq] \in Replies
      BY <1>0 DEF ViewerTyped, Frames, NoFrame, Replies
    <2>4. replies' \in Seq(Replies)
      BY <1>0, <1>2, <2>3, AppendFacts DEF AppDrain, ViewerTyped
    <2>5. ViewerTyped' /\ StreamTyped'
      BY <1>0, <1>2, <2>1, <2>2, <2>4 DEF AppDrain, ViewerTyped, StreamTyped
    <2> QED
      BY <1>1, <2>5, TypePartsNext
  <1>3. CASE AppPresented
    <2>1. Head(unseen) \in Generations /\ Tail(unseen) \in Seq(Generations)
      BY <1>0, <1>3, TailFacts DEF AppPresented, ViewerTyped
    <2>2. [op |-> "presented", buf |-> None, seq |-> Head(unseen)] \in Replies
      BY <2>1 DEF Replies
    <2>3. replies' \in Seq(Replies)
      BY <1>0, <1>3, <2>2, AppendFacts DEF AppPresented, ViewerTyped
    <2>4. ViewerTyped' /\ StreamTyped'
      BY <1>0, <1>3, <2>1, <2>3 DEF AppPresented, ViewerTyped, StreamTyped
    <2> QED
      BY <1>1, <2>4, TypePartsNext
  <1>4. CASE AppDrop
    <2>1. dirty' \in Seq(Frames) /\ unseen' \in Seq(Generations) /\ replies' \in Seq(Replies)
      BY <1>4 DEF AppDrop
    <2>2. drops' \in 0..MaxDrops
      BY <1>0, <1>4, BoundsAreNaturals DEF AppDrop, ViewerTyped
    <2>3. ViewerTyped' /\ StreamTyped'
      BY <1>0, <1>4, <2>1, <2>2 DEF AppDrop, ViewerTyped, StreamTyped
    <2> QED
      BY <1>1, <2>3, TypePartsNext
  <1>5. CASE AppAttach
    <2>1. ViewerTyped'
      BY <1>0, <1>5 DEF AppAttach, ViewerTyped
    <2>2. StreamTyped'
      BY <1>0, <1>5, BoundsAreNaturals DEF AppAttach, StreamTyped
    <2> QED
      BY <1>1, <2>1, <2>2, TypePartsNext
  <1> QED
    BY <1>2, <1>3, <1>4, <1>5 DEF AppStep

\* Every step keeps the types.
LEMMA TypeStep ==
  ASSUME TypeOK, ChainInv, SyncInv, OrderInv, StreamInv, [Next]_vars
  PROVE  TypeOK'
  <1>1. CASE UNCHANGED vars
    <2>1. ShimTyped /\ WireTyped /\ ServerTyped /\ StreamTyped /\ ViewerTyped
      BY TypeParts
    <2> QED
      BY <1>1, <2>1, TypePartsNext DEF vars, shim, wire, server, stream, viewer,
         ShimTyped, WireTyped, ServerTyped, StreamTyped, ViewerTyped
  <1> QED
    BY <1>1, ShimTypes, RequestTypes, CompositorTypes, AppTypes DEF Next, CompositorStep

-----------------------------------------------------------------------------
(* The swapchains and the roundtrip.                                       *)

\* The steps that are not the client's and take no request.
Elsewhere ==
    \/ ParentCommit \/ RepaintComposite \/ RepaintDirect \/ (\E k \in 1..MaxPaints : AckTimer(k))
    \/ ReadReply \/ AppStep \/ UNCHANGED vars

\* They leave the client and its requests alone, and add releases to its events.
LEMMA ElsewhereFacts ==
  ASSUME TypeOK, Elsewhere
  PROVE  /\ UNCHANGED <<pc, chain, cur, busy, retired, alive, expired, requests, synced>>
         /\ \A i \in DOMAIN events : i \in DOMAIN events' /\ events'[i] = events[i]
         /\ \A i \in DOMAIN events' : i \in DOMAIN events \/ events'[i].op = "release"
  <1> USE DEF shim, server, wire
  <1>r. ASSUME ReleaseDirect(events)
        PROVE  /\ \A i \in DOMAIN events : i \in DOMAIN events' /\ events'[i] = events[i]
               /\ \A i \in DOMAIN events' : i \in DOMAIN events \/ events'[i].op = "release"
    BY <1>r, ReleaseFacts DEF Release
  <1>a. ASSUME AfterPresent
        PROVE  /\ \A i \in DOMAIN events : i \in DOMAIN events' /\ events'[i] = events[i]
               /\ \A i \in DOMAIN events' : i \in DOMAIN events \/ events'[i].op = "release"
    BY <1>a, <1>r DEF AfterPresent
  <1>1. CASE ParentCommit
    <2>1. SetBuffer(pending.buf) /\ pending.buf \in Buffers \cup {None} /\ events \in Seq(Events)
      BY <1>1 DEF ParentCommit, TypeOK
    <2>2. events' = events \/ (events' = Append(events, Release(current)) /\ Release(current) \in Events)
      BY <2>1, SetFacts
    <2>3. /\ \A i \in DOMAIN events : i \in DOMAIN events' /\ events'[i] = events[i]
          /\ \A i \in DOMAIN events' : i \in DOMAIN events \/ events'[i] = Release(current)
      BY <2>1, <2>2, AppendFacts
    <2> QED
      BY <1>1, <2>3 DEF ParentCommit, Release
  <1>2. CASE RepaintComposite
    BY <1>2, <1>a DEF RepaintComposite
  <1>3. CASE RepaintDirect
    BY <1>3, <1>a DEF RepaintDirect
  <1>4. ASSUME NEW k \in 1..MaxPaints, AckTimer(k)
        PROVE  /\ UNCHANGED <<pc, chain, cur, busy, retired, alive, expired, requests, synced>>
               /\ ReleaseDirect(events)
    BY <1>4 DEF AckTimer
  <1>5. CASE ReadReply
    BY <1>5 DEF ReadReply
  <1>6. CASE AppStep
    BY <1>6 DEF AppStep, AppDrain, AppPresented, AppDrop, AppAttach
  <1>7. CASE UNCHANGED vars
    BY <1>7 DEF vars
  <1> QED
    BY <1>1, <1>2, <1>3, <1>4, <1>5, <1>6, <1>7, <1>r DEF Elsewhere

\* Every step is one of these, one of the client's, or takes a request.
LEMMA NextSides ==
  ASSUME [Next]_vars
  PROVE  ShimStep \/ HandleRequest \/ Elsewhere
  BY DEF Next, CompositorStep, Elsewhere

\* HandleRequest leaves the client alone.
LEMMA HandleFacts ==
  ASSUME TypeOK, HandleRequest
  PROVE  /\ UNCHANGED <<pc, chain, cur, busy, retired, alive, expired, synced>>
         /\ requests # <<>> /\ requests' = Tail(requests) /\ requests \in Seq(Requests)
  BY DEF HandleRequest, shim, TypeOK

\* A request joins the others.
LEMMA RequestAppend ==
  ASSUME TypeOK, NEW r \in Requests, requests' = Append(requests, r)
  PROVE  /\ \A i \in DOMAIN requests : i \in DOMAIN requests' /\ requests'[i] = requests[i]
         /\ \A i \in DOMAIN requests' : i \in DOMAIN requests \/ (requests'[i] = r /\ i = Len(requests) + 1)
         /\ Len(requests) + 1 \in DOMAIN requests' /\ requests'[Len(requests) + 1] = r
         /\ Len(requests) + 1 \notin DOMAIN requests
  <1>1. requests \in Seq(Requests)
    BY DEF TypeOK
  <1> QED
    BY <1>1, AppendFacts

\* Every step keeps what is said of the swapchains.
LEMMA ChainStep ==
  ASSUME TypeOK, ChainInv, SyncInv, [Next]_vars
  PROVE  ChainInv'
  <1>1. CASE Elsewhere
    BY <1>1, ElsewhereFacts DEF ChainInv
  <1>2. CASE HandleRequest
    <2>1. \A i \in DOMAIN requests' : i + 1 \in DOMAIN requests /\ requests'[i] = requests[i + 1]
      BY <1>2, HandleFacts, TailFacts
    <2> QED
      BY <1>2, <2>1, HandleFacts DEF ChainInv
  <1>3. CASE SwapBuffers
    <2>1. \A i \in DOMAIN requests' : \/ i \in DOMAIN requests /\ requests'[i] = requests[i]
                                      \/ requests'[i].op = "frame"
      BY <1>3, DrawnFacts, RequestAppend DEF SwapBuffers, Request
    <2>2. /\ UNCHANGED <<chain, retired, alive>> /\ busy' = busy \cup {Drawn} /\ pc # "gone"
      BY <1>3 DEF SwapBuffers
    <2>3. Drawn \in alive
      BY <2>2, DrawnFacts DEF ChainInv
    <2> QED
      BY <2>1, <2>2, <2>3 DEF ChainInv
  <1>4. CASE NextBuffer \/ BudgetExpires
    BY <1>4 DEF NextBuffer, BudgetExpires, ChainInv, wire
  <1>5. CASE DispatchEvent /\ Head(events).op = "release"
    <2> DEFINE b == Head(events).buf
    <2>1. BufRelease(b) /\ b \in Buffers /\ pc # "gone"
      BY <1>5, EventFacts DEF DispatchEvent
    <2>2. Request("destroy", {b}) \in Requests
      BY <2>1 DEF Request, Requests
    <2> HIDE DEF b
    <2>3. /\ busy' = busy \ {b} /\ retired' = retired \ {b} /\ alive' = alive \ (retired \cap {b})
          /\ UNCHANGED <<pc, chain>>
      BY <2>1 DEF BufRelease, ChainInv
    <2>4. \A c \in retired : c[1] < chain /\ c \notin Chain(chain)
      BY <2>1, BufferFacts DEF ChainInv, TypeOK
    <2>5. alive' = Chain(chain) \cup retired'
      BY <2>1, <2>3, <2>4 DEF ChainInv
    <2>6. retired' \subseteq busy' /\ busy' \subseteq alive' /\ \A c \in retired' : c[1] < chain
      BY <2>1, <2>3, <2>4 DEF ChainInv
    <2>7. ASSUME NEW i \in DOMAIN requests'
          PROVE  /\ requests'[i].op # "surface"
                 /\ requests'[i].op = "destroy" =>
                       \A c \in requests'[i].bufs : c \notin alive' /\ c[1] <= chain
      <3>1. CASE i \in DOMAIN requests /\ requests'[i] = requests[i]
        BY <2>1, <2>3, <3>1 DEF ChainInv
      <3>2. CASE b \in retired /\ requests'[i] = Request("destroy", {b})
        <4>1. b[1] \in Int /\ chain \in Int /\ b[1] < chain
          <5>1. chain \in 0..MaxResize
            BY DEF TypeOK
          <5>2. b[1] \in 0..MaxResize
            BY <2>1, BufferFacts
          <5>3. MaxResize \in Nat
            BY BoundsAreNaturals
          <5> QED
            BY <2>4, <3>2, <5>1, <5>2, <5>3
        <4> QED
          BY <2>3, <2>4, <2>5, <3>2, <4>1 DEF Request
      <3>3. CASE b \notin retired
        BY <2>1, <2>7, <3>1, <3>3 DEF BufRelease
      <3> QED
        BY <2>1, <2>2, <2>7, <3>1, <3>2, <3>3, RequestAppend DEF BufRelease
    <2> QED
      BY <2>3, <2>5, <2>6, <2>7 DEF ChainInv
  <1>6. CASE DispatchEvent /\ Head(events).op # "release"
    <2> DEFINE freed == Chain(chain) \ busy
    <2>1. Replace(freed) /\ pc # "gone"
      BY <1>6 DEF DispatchEvent, AllocationDone
    <2>2. chain \in Int /\ chain < chain + 1 /\ chain \in 0..MaxResize
      BY BoundsAreNaturals DEF TypeOK
    <2>3. /\ retired' = retired \cup (Chain(chain) \ freed)
          /\ alive' = (alive \ freed) \cup Chain(chain + 1)
          /\ requests' = (IF freed = {} THEN requests ELSE Append(requests, Request("destroy", freed)))
          /\ chain' = chain + 1 /\ UNCHANGED busy
      BY <2>1 DEF Replace
    <2>4. Chain(chain) \subseteq Buffers /\ Request("destroy", freed) \in Requests
      BY <2>2, BufferFacts DEF Request, Requests
    <2>5. alive' = Chain(chain') \cup retired'
      BY <2>1, <2>3 DEF ChainInv
    <2>6. retired' \subseteq busy' /\ busy' \subseteq alive'
      BY <2>1, <2>3 DEF ChainInv
    <2>7. \A c \in retired' : c[1] < chain'
      <3>1. \A c \in Chain(chain) : c[1] < chain'
        BY <2>2, <2>3, BufferFacts
      <3>a. retired \subseteq Buffers
        BY DEF TypeOK
      <3>b. \A c \in Buffers : c[1] \in Int
        BY BufferFacts, BoundsAreNaturals
      <3>2. \A c \in retired : c[1] \in Int /\ c[1] < chain
        BY <2>1, <3>a, <3>b DEF ChainInv
      <3>3. \A c \in retired : c[1] < chain'
        BY <2>2, <2>3, <3>2
      <3> QED
        BY <2>3, <3>1, <3>3
    <2>8. ASSUME NEW i \in DOMAIN requests'
          PROVE  /\ requests'[i].op # "surface"
                 /\ requests'[i].op = "destroy" =>
                       \A c \in requests'[i].bufs : c \notin alive' /\ c[1] <= chain'
      <3>1. CASE i \in DOMAIN requests /\ requests'[i] = requests[i]
        <4>0. requests[i] \in Requests
          BY <3>1 DEF TypeOK
        <4>1. requests[i].bufs \subseteq Buffers
          BY <4>0 DEF Requests
        <4>2. ASSUME NEW c \in requests[i].bufs, requests[i].op = "destroy"
              PROVE  c \notin alive' /\ c[1] <= chain'
          <5>1. c \notin alive /\ c[1] <= chain
            BY <2>1, <3>1, <4>2 DEF ChainInv
          <5>2. c[1] \in Int
            BY <4>1, <4>2, BufferFacts, BoundsAreNaturals
          <5>3. c \notin Chain(chain + 1)
            BY <2>2, <5>1, <5>2, BufferFacts
          <5> QED
            BY <2>2, <2>3, <5>1, <5>2, <5>3
        <4> QED
          BY <2>1, <3>1, <4>2 DEF ChainInv
      <3>2. CASE requests'[i] = Request("destroy", freed)
        <4>1. ASSUME NEW c \in freed PROVE c \notin alive' /\ c[1] <= chain'
          BY <2>2, <2>3, BufferFacts
        <4> HIDE DEF freed
        <4> QED
          BY <3>2, <4>1 DEF Request
      <3> HIDE DEF freed
      <3>3. CASE freed = {}
        BY <2>3, <2>8, <3>1, <3>3
      <3> QED
        BY <2>3, <2>4, <2>8, <3>1, <3>2, <3>3, RequestAppend
    <2> QED
      BY <2>5, <2>6, <2>7, <2>8 DEF ChainInv
  <1>7. CASE MakeCurrent
    <2>1. Request("sync", {}) \in Requests
      BY DEF Request, Requests
    <2>2. \A i \in DOMAIN requests' : \/ i \in DOMAIN requests /\ requests'[i] = requests[i]
                                      \/ requests'[i].op = "sync"
      BY <1>7, <2>1, RequestAppend DEF MakeCurrent, Request
    <2>3. UNCHANGED <<chain, retired, alive, busy>> /\ pc # "gone"
      BY <1>7 DEF MakeCurrent
    <2> QED
      BY <2>2, <2>3 DEF ChainInv
  <1>8. CASE DestroySurface
    BY <1>8 DEF DestroySurface, ChainInv
  <1> QED
    BY <1>1, <1>2, <1>3, <1>4, <1>5, <1>6, <1>7, <1>8, NextSides DEF ShimStep

\* A number is determined by its sum with another.
LEMMA PlusCancels ==
  \A a, b, c \in Int : a + c = b + c => a = b
  OBVIOUS

\* Requests and events that move up, or gain others, keep the roundtrip.
LEMMA SyncKeep ==
  ASSUME SyncInv, UNCHANGED <<pc, chain>>, NEW k \in {0, 1}, NEW l \in {0, 1},
         \A i \in DOMAIN requests' : i \in Int,
         \A i \in DOMAIN events' : i \in Int,
         \A i \in DOMAIN requests' : requests'[i].op = "sync" =>
             i + k \in DOMAIN requests /\ requests[i + k].op = "sync",
         \A i \in DOMAIN events' : events'[i].op = "done" =>
             i + l \in DOMAIN events /\ events[i + l].op = "done"
  PROVE  SyncInv'
  <1>1. \A i \in DOMAIN requests' : requests'[i].op = "sync" =>
           /\ pc = "sync"
           /\ \A j \in DOMAIN requests' : requests'[j].op = "sync" => i = j
           /\ \A j \in DOMAIN events' : events'[j].op # "done"
    BY DEF SyncInv
  <1>2. \A i \in DOMAIN events' : events'[i].op = "done" =>
           pc = "sync" /\ \A j \in DOMAIN events' : events'[j].op = "done" => i = j
    <2> SUFFICES ASSUME NEW i \in DOMAIN events', events'[i].op = "done"
                 PROVE  pc = "sync" /\ \A j \in DOMAIN events' : events'[j].op = "done" => i = j
      OBVIOUS
    <2>1. i + l \in DOMAIN events /\ events[i + l].op = "done"
      OBVIOUS
    <2>2. pc = "sync" /\ \A j \in DOMAIN events : events[j].op = "done" => i + l = j
      BY <2>1 DEF SyncInv
    <2>3. ASSUME NEW j \in DOMAIN events', events'[j].op = "done" PROVE i = j
      <3>1. i + l = j + l
        BY <2>2, <2>3
      <3>2. i \in Int /\ j \in Int /\ l \in Int
        OBVIOUS
      <3> QED
        BY <3>1, <3>2, PlusCancels
    <2> QED
      BY <2>2, <2>3
  <1> QED
    BY <1>1, <1>2 DEF SyncInv

\* Lists that hold no part of a roundtrip are in order.
LEMMA SyncNone ==
  ASSUME \A i \in DOMAIN requests' : requests'[i].op # "sync",
         \A i \in DOMAIN events' : events'[i].op # "done",
         pc' = "sync" => chain' < MaxResize
  PROVE  SyncInv'
  BY DEF SyncInv

\* The places of a list are numbers.
LEMMA PlacesAreNumbers ==
  ASSUME TypeOK'
  PROVE  (\A i \in DOMAIN requests' : i \in Int) /\ (\A i \in DOMAIN events' : i \in Int)
  <1>1. requests' \in Seq(Requests') /\ events' \in Seq(Events')
    BY DEF TypeOK
  <1> QED
    BY <1>1

\* A request other than a roundtrip adds at most a release to the events.
LEMMA HandleEvents ==
  ASSUME TypeOK, HandleRequest, requests[1].op # "sync"
  PROVE  /\ \A i \in DOMAIN events : i \in DOMAIN events' /\ events'[i] = events[i]
         /\ \A i \in DOMAIN events' : i \in DOMAIN events \/ events'[i].op = "release"
  <1> DEFINE r == Head(requests)
  <1>0. events \in Seq(Events) /\ r.op # "sync" /\ r.bufs \subseteq Buffers
    BY HandleFacts, RequestFacts DEF TypeOK
  <1>1. ASSUME NEW b \in r.bufs, HandleFrame(b)
        PROVE  events' = events \/ (events' = Append(events, Release(current)) /\ Release(current) \in Events)
    <2>1. CASE synced
      BY <1>1, <2>1 DEF HandleFrame
    <2>2. CASE ~ synced
      <3>1. SetBuffer(b) /\ b \in Buffers
        BY <1>0, <1>1, <2>2 DEF HandleFrame
      <3> QED
        BY <3>1, SetFacts
    <2> QED
      BY <2>1, <2>2
  <1>2. events' = events \/ (events' = Append(events, Release(current)) /\ Release(current) \in Events)
    BY <1>0, <1>1 DEF HandleRequest, HandleDestroy, HandleSurfaceGone, Forget
  <1>3. /\ \A i \in DOMAIN events : i \in DOMAIN events' /\ events'[i] = events[i]
        /\ \A i \in DOMAIN events' : i \in DOMAIN events \/ events'[i] = Release(current)
    BY <1>0, <1>2, AppendFacts
  <1> QED
    BY <1>3 DEF Release

\* Every step keeps the roundtrip in order.
LEMMA SyncStep ==
  ASSUME TypeOK, SyncInv, TypeOK', [Next]_vars
  PROVE  SyncInv'
  <1>p. (\A i \in DOMAIN requests' : i \in Int) /\ (\A i \in DOMAIN events' : i \in Int)
    BY PlacesAreNumbers
  <1>i. \A i \in Int : i + 0 = i
    OBVIOUS
  <1>1. CASE Elsewhere
    <2>1. \A i \in DOMAIN events' : events'[i].op = "done" =>
             i + 0 \in DOMAIN events /\ events[i + 0].op = "done"
      BY <1>1, <1>p, <1>i, ElsewhereFacts
    <2>2. \A i \in DOMAIN requests' : requests'[i].op = "sync" =>
             i + 0 \in DOMAIN requests /\ requests[i + 0].op = "sync"
      BY <1>1, <1>p, <1>i, ElsewhereFacts
    <2>3. UNCHANGED <<pc, chain>>
      BY <1>1, ElsewhereFacts
    <2> QED
      BY <1>p, <2>1, <2>2, <2>3, SyncKeep
  <1>2. CASE HandleRequest
    <2>1. /\ \A i \in DOMAIN requests' : i + 1 \in DOMAIN requests /\ requests'[i] = requests[i + 1] /\ i + 1 # 1
          /\ 1 \in DOMAIN requests /\ requests[1] = Head(requests)
      BY <1>2, HandleFacts, TailFacts
    <2>2. UNCHANGED <<pc, chain>>
      BY <1>2, HandleFacts
    <2>3. CASE requests[1].op # "sync"
      <3>1. \A i \in DOMAIN events' : events'[i].op = "done" =>
               i + 0 \in DOMAIN events /\ events[i + 0].op = "done"
        BY <1>2, <1>p, <1>i, <2>3, HandleEvents
      <3> QED
        BY <1>p, <2>1, <2>2, <3>1, SyncKeep
    <2>4. CASE requests[1].op = "sync"
      <3>0. pc = "sync" /\ (\A j \in DOMAIN requests : requests[j].op = "sync" => j = 1)
            /\ (\A j \in DOMAIN events : events[j].op # "done")
        BY <2>1, <2>4 DEF SyncInv
      <3>1. \A i \in DOMAIN requests' : requests'[i].op # "sync"
        BY <2>1, <3>0
      <3>2. events' = Append(events, [op |-> "done", buf |-> None])
        BY <1>2, <2>1, <2>4 DEF HandleRequest, HandleSync
      <3>3. [op |-> "done", buf |-> None] \in Events /\ events \in Seq(Events)
        BY DEF Events, TypeOK
      <3>4. \A i \in DOMAIN events' : i = Len(events) + 1 \/ events'[i].op # "done"
        BY <3>0, <3>2, <3>3, AppendFacts
      <3> QED
        BY <2>2, <3>0, <3>1, <3>4 DEF SyncInv
    <2> QED
      BY <2>3, <2>4
  <1>3. CASE pc # "sync" /\ pc' # "sync" /\ events' \in {events, <<>>}
             /\ (requests' = requests \/ \E r \in Requests : r.op # "sync" /\ requests' = Append(requests, r))
    <2>1. \A i \in DOMAIN requests' : requests'[i].op # "sync"
      BY <1>3, RequestAppend DEF SyncInv
    <2>2. \A i \in DOMAIN events' : events'[i].op # "done"
      BY <1>3 DEF SyncInv
    <2> QED
      BY <1>3, <2>1, <2>2, SyncNone
  <1>4. CASE SwapBuffers
    <2>1. Request("frame", {Drawn}) \in Requests /\ Request("frame", {Drawn}).op # "sync"
      BY DrawnFacts DEF Request
    <2> QED
      BY <1>3, <1>4, <2>1 DEF SwapBuffers
  <1>5. CASE NextBuffer \/ BudgetExpires
    BY <1>3, <1>5 DEF NextBuffer, BudgetExpires, wire
  <1>6. CASE DispatchEvent
    <2> DEFINE e == Head(events)
    <2>0. events # <<>> /\ events' = Tail(events) /\ pc \in {"wait", "sync"}
      BY <1>6 DEF DispatchEvent
    <2>1. /\ \A i \in DOMAIN events' : i + 1 \in DOMAIN events /\ events'[i] = events[i + 1] /\ i + 1 # 1
          /\ 1 \in DOMAIN events /\ events[1] = e
      BY <2>0, TailFacts DEF TypeOK
    <2>2. CASE e.op = "release"
      <3>1. BufRelease(e.buf) /\ e.buf \in Buffers
        BY <1>6, <2>2, EventFacts DEF DispatchEvent
      <3>2. Request("destroy", {e.buf}) \in Requests /\ Request("destroy", {e.buf}).op # "sync"
        BY <3>1 DEF Request, Requests
      <3>3. \A i \in DOMAIN requests' : requests'[i].op = "sync" =>
               i \in DOMAIN requests /\ requests[i].op = "sync"
        BY <3>1, <3>2, RequestAppend DEF BufRelease
      <3>4. UNCHANGED <<pc, chain>>
        BY <3>1 DEF BufRelease
      <3>5. \A i \in DOMAIN requests' : requests'[i].op = "sync" =>
               i + 0 \in DOMAIN requests /\ requests[i + 0].op = "sync"
        BY <1>p, <1>i, <3>3
      <3> HIDE DEF e
      <3> QED
        BY <1>p, <2>1, <3>4, <3>5, SyncKeep
    <2>3. CASE e.op = "done" /\ e.op # "release"
      <3>1. AllocationDone
        BY <1>6, <2>3 DEF DispatchEvent
      <3> DEFINE freed == Chain(chain) \ busy
      <3>2. Chain(chain) \subseteq Buffers
        BY BufferFacts DEF TypeOK
      <3>3. Request("destroy", freed) \in Requests /\ Request("destroy", freed).op # "sync"
        BY <3>2 DEF Request, Requests
      <3>4. pc' = "draw" /\ (requests' = requests \/ requests' = Append(requests, Request("destroy", freed)))
        BY <3>1 DEF AllocationDone, Replace
      <3> HIDE DEF freed
      <3>5. \A i \in DOMAIN requests : requests[i].op # "sync"
        BY <2>1, <2>3 DEF SyncInv
      <3>6. \A i \in DOMAIN requests' : requests'[i].op # "sync"
        BY <3>3, <3>4, <3>5, RequestAppend
      <3>7. \A i \in DOMAIN events' : events'[i].op # "done"
        BY <2>1, <2>3 DEF SyncInv
      <3> QED
        BY <3>4, <3>6, <3>7, SyncNone
    <2> QED
      BY <2>0, <2>2, <2>3, EventFacts
  <1>7. CASE MakeCurrent
    <2>1. Request("sync", {}) \in Requests
      BY DEF Request, Requests
    <2>2. pc = "draw" /\ chain < MaxResize /\ pc' = "sync" /\ UNCHANGED <<chain, events>>
          /\ requests' = Append(requests, Request("sync", {}))
      BY <1>7 DEF MakeCurrent
    <2>3. \A i \in DOMAIN requests' : requests'[i].op = "sync" => i = Len(requests) + 1
      BY <2>1, <2>2, RequestAppend DEF SyncInv
    <2>4. \A i \in DOMAIN events' : events'[i].op # "done"
      BY <2>2 DEF SyncInv
    <2> QED
      BY <2>2, <2>3, <2>4 DEF SyncInv
  <1>8. CASE DestroySurface
    <2>1. Request("surface", alive) \in Requests /\ Request("surface", alive).op # "sync"
      BY DEF Request, Requests, TypeOK
    <2> QED
      BY <1>3, <1>8, <2>1 DEF DestroySurface
  <1> QED
    BY <1>1, <1>2, <1>4, <1>5, <1>6, <1>7, <1>8, NextSides DEF ShimStep

-----------------------------------------------------------------------------
(* Generations.                                                            *)

\* Generations and places are numbers.
LEMMA NumberFacts ==
  ASSUME TypeOK
  PROVE  /\ paints \in Nat /\ presented \in Nat /\ direct_seq \in Nat /\ drops \in Nat
         /\ dirty \in Seq(Frames) /\ unseen \in Seq(Generations) /\ replies \in Seq(Replies)
         /\ shown.seq \in Nat
         /\ \A i \in DOMAIN dirty : i \in Nat /\ dirty[i] \in Frames /\ dirty[i].seq \in Nat
         /\ \A i \in DOMAIN unseen : i \in Nat /\ unseen[i] \in Nat
         /\ \A i \in DOMAIN replies : i \in Nat /\ replies[i] \in Replies /\ replies[i].seq \in Nat
         /\ \A i \in DOMAIN held : i \in Nat /\ held[i] \in DirectFrames /\ held[i].seq \in Nat
                                   /\ held[i].buf \in Buffers
         /\ \A b \in Buffers : released[b] \in Nat /\ last[b] \in Nat
  <1>1. /\ paints \in Nat /\ presented \in Nat /\ direct_seq \in Nat /\ drops \in Nat
        /\ \A b \in Buffers : released[b] \in Nat /\ last[b] \in Nat
    BY BoundsAreNaturals DEF TypeOK
  <1>2. /\ dirty \in Seq(Frames) /\ unseen \in Seq(Generations) /\ replies \in Seq(Replies)
        /\ held \in Seq(DirectFrames)
    BY DEF TypeOK
  <1>3. /\ \A i \in DOMAIN dirty : i \in Nat /\ dirty[i] \in Frames
        /\ \A i \in DOMAIN unseen : i \in Nat /\ unseen[i] \in Generations
        /\ \A i \in DOMAIN replies : i \in Nat /\ replies[i] \in Replies
        /\ \A i \in DOMAIN held : i \in Nat /\ held[i] \in DirectFrames
    BY <1>2
  <1>4. \A g \in Generations : g \in Nat
    BY BoundsAreNaturals DEF Generations
  <1>5. \A f \in Frames : f.seq \in Generations
    BY DEF Frames
  <1>6. \A r \in Replies : r.seq \in Generations
    BY DEF Replies
  <1>7. \A h \in DirectFrames : h.seq \in Generations /\ h.buf \in Buffers
    BY DEF DirectFrames
  <1>8. shown.seq \in Nat
    BY <1>4, <1>5 DEF TypeOK, NoFrame
  <1> QED
    BY <1>1, <1>2, <1>3, <1>4, <1>5, <1>6, <1>7, <1>8

\* A repaint's frame is the newest.
LEMMA PaintOrder ==
  ASSUME TypeOK, OrderInv, paints < MaxPaints, paints' = paints + 1,
         UNCHANGED <<presented, app, shown, unseen, replies, drops>>,
         NEW f \in Frames, f.seq = paints + 1,
         dirty' = IF app THEN Append(dirty, f) ELSE dirty
  PROVE  OrderInv'
  <1> USE NumberFacts
  <1>1. /\ \A i \in DOMAIN dirty' : \/ i \in DOMAIN dirty /\ dirty'[i] = dirty[i]
                                    \/ app /\ i = Len(dirty) + 1 /\ dirty'[i] = f
        /\ \A i \in DOMAIN dirty : i < Len(dirty) + 1
    BY AppendFacts
  <1>2. AbsentInv'
    BY DEF OrderInv, AbsentInv
  <1>3. DirtyOrder'
    <2>0. shown'.seq <= paints'
      BY DEF OrderInv, DirtyOrder
    <2>1. ASSUME NEW i \in DOMAIN dirty'
          PROVE  /\ shown.seq < dirty'[i].seq /\ presented < dirty'[i].seq /\ dirty'[i].seq <= paints'
                 /\ \A j \in DOMAIN dirty' : i < j => dirty'[i].seq < dirty'[j].seq
      <3>1. CASE i \in DOMAIN dirty /\ dirty'[i] = dirty[i]
        BY <1>1, <3>1 DEF OrderInv, DirtyOrder
      <3>2. CASE i = Len(dirty) + 1 /\ dirty'[i] = f
        <4>1. presented <= paints
          BY DEF TypeOK
        <4>2. Len(dirty) \in Nat
          OBVIOUS
        <4>3. \A j \in DOMAIN dirty' : ~ i < j
          BY <1>1, <3>2, <4>2
        <4> QED
          BY <3>2, <4>1, <4>3 DEF OrderInv, DirtyOrder
      <3> QED
        BY <1>1, <3>1, <3>2
    <2> QED
      BY <2>0, <2>1 DEF DirtyOrder
  <1>4. UnseenOrder'
    BY <1>1 DEF OrderInv, UnseenOrder
  <1>5. ReplyOrder'
    BY <1>1 DEF OrderInv, ReplyOrder
  <1> QED
    BY <1>2, <1>3, <1>4, <1>5 DEF OrderInv

\* The app takes its oldest frame.
LEMMA DrainOrder ==
  ASSUME TypeOK, OrderInv, AppDrain
  PROVE  OrderInv'
  <1> USE NumberFacts DEF stream
  <1> DEFINE r == [op |-> "released", buf |-> shown.buf, seq |-> shown.seq]
  <1>1. /\ app /\ dirty # <<>> /\ shown' = dirty[1] /\ 1 \in DOMAIN dirty /\ dirty' = Tail(dirty)
        /\ unseen' = Append(unseen, dirty[1].seq) /\ dirty[1].seq \in Generations
        /\ UNCHANGED <<app, drops, paints, presented>>
    <2>1. Head(dirty) = dirty[1] /\ 1 \in DOMAIN dirty
      BY TailFacts DEF AppDrain
    <2>2. \A f \in Frames : f.seq \in Generations
      BY DEF Frames
    <2> QED
      BY <2>1, <2>2 DEF AppDrain
  <1>2. \A i \in DOMAIN dirty' : i + 1 \in DOMAIN dirty /\ dirty'[i] = dirty[i + 1] /\ i \in Nat /\ 1 < i + 1
    BY <1>1, TailFacts
  <1>3. /\ \A i \in DOMAIN unseen' : \/ i \in DOMAIN unseen /\ unseen'[i] = unseen[i] /\ i < Len(unseen) + 1
                                     \/ i = Len(unseen) + 1 /\ unseen'[i] = dirty[1].seq
        /\ Len(unseen) \in Nat
    BY <1>1, AppendFacts
  <1>4. \A i \in DOMAIN replies' : \/ i \in DOMAIN replies /\ replies'[i] = replies[i]
                                   \/ replies'[i] = r
    <2>1. shown.buf # None => r \in Replies
      BY DEF TypeOK, Frames, NoFrame, Replies
    <2> HIDE DEF r
    <2>2. CASE shown.buf # None
      <3>1. replies' = Append(replies, r)
        BY <2>2 DEF AppDrain, r
      <3> QED
        BY <2>1, <2>2, <3>1, AppendFacts
    <2>3. CASE shown.buf = None
      BY <2>3 DEF AppDrain
    <2> QED
      BY <2>2, <2>3
  <1>5. r.op # "presented" /\ r.seq = shown.seq
    OBVIOUS
  <1> HIDE DEF r
  <1>6. AbsentInv'
    BY <1>1 DEF OrderInv, AbsentInv
  <1>7. DirtyOrder'
    <2>1. shown'.seq <= paints'
      BY <1>1 DEF OrderInv, DirtyOrder
    <2>2. ASSUME NEW i \in DOMAIN dirty'
          PROVE  /\ shown'.seq < dirty'[i].seq /\ presented < dirty'[i].seq /\ dirty'[i].seq <= paints
                 /\ \A j \in DOMAIN dirty' : i < j => dirty'[i].seq < dirty'[j].seq
      <3>1. \A j \in DOMAIN dirty' : i < j => i + 1 < j + 1
        BY <1>2
      <3> QED
        BY <1>1, <1>2, <3>1 DEF OrderInv, DirtyOrder
    <2> QED
      BY <1>1, <2>1, <2>2 DEF DirtyOrder
  <1>8. UnseenOrder'
    <2>1. ASSUME NEW i \in DOMAIN unseen'
          PROVE  /\ presented < unseen'[i] /\ unseen'[i] <= paints
                 /\ \A j \in DOMAIN unseen' : i < j => unseen'[i] < unseen'[j]
                 /\ \A j \in DOMAIN dirty' : unseen'[i] < dirty'[j].seq
      <3>1. CASE i \in DOMAIN unseen /\ unseen'[i] = unseen[i]
        BY <1>1, <1>2, <1>3, <3>1 DEF OrderInv, UnseenOrder
      <3>2. CASE i = Len(unseen) + 1 /\ unseen'[i] = dirty[1].seq
        <4>1. \A j \in DOMAIN unseen' : ~ i < j
          BY <1>3, <3>2
        <4> QED
          BY <1>1, <1>2, <3>2, <4>1 DEF OrderInv, DirtyOrder
      <3> QED
        BY <1>3, <3>1, <3>2
    <2> QED
      BY <1>1, <2>1 DEF UnseenOrder
  <1>9. ReplyOrder'
    <2>1. ASSUME NEW i \in DOMAIN replies'
          PROVE  /\ replies'[i].seq <= paints
                 /\ replies'[i].op = "presented" =>
                       /\ presented < replies'[i].seq
                       /\ \A j \in DOMAIN replies' :
                             i < j /\ replies'[j].op = "presented" => replies'[i].seq < replies'[j].seq
                       /\ \A j \in DOMAIN unseen' : replies'[i].seq < unseen'[j]
                       /\ \A j \in DOMAIN dirty' : replies'[i].seq < dirty'[j].seq
      <3>1. CASE replies'[i] = r
        BY <1>5, <3>1 DEF OrderInv, DirtyOrder
      <3>2. CASE i \in DOMAIN replies /\ replies'[i] = replies[i]
        BY <1>1, <1>2, <1>3, <1>4, <1>5, <3>2 DEF OrderInv, ReplyOrder
      <3> QED
        BY <1>4, <3>1, <3>2
    <2> QED
      BY <1>1, <2>1 DEF ReplyOrder
  <1> QED
    BY <1>6, <1>7, <1>8, <1>9 DEF OrderInv

\* The app reports the oldest frame it rendered.
LEMMA PresentedOrder ==
  ASSUME TypeOK, OrderInv, AppPresented
  PROVE  OrderInv'
  <1> USE NumberFacts DEF stream
  <1> DEFINE r == [op |-> "presented", buf |-> None, seq |-> unseen[1]]
  <1>1. /\ app /\ unseen # <<>> /\ 1 \in DOMAIN unseen /\ unseen' = Tail(unseen)
        /\ replies' = Append(replies, r) /\ r \in Replies
        /\ UNCHANGED <<app, dirty, shown, drops, paints, presented>>
    <2>1. Head(unseen) = unseen[1] /\ 1 \in DOMAIN unseen /\ unseen[1] \in Generations
      BY TailFacts DEF AppPresented
    <2> QED
      BY <2>1 DEF AppPresented, Replies
  <1>2. \A i \in DOMAIN unseen' : i + 1 \in DOMAIN unseen /\ unseen'[i] = unseen[i + 1] /\ i \in Nat /\ 1 < i + 1
    BY <1>1, TailFacts
  <1>5. r.op = "presented" /\ r.seq = unseen[1]
    OBVIOUS
  <1> HIDE DEF r
  <1>4. /\ \A i \in DOMAIN replies' : \/ i \in DOMAIN replies /\ replies'[i] = replies[i] /\ i < Len(replies) + 1
                                      \/ i = Len(replies) + 1 /\ replies'[i] = r
        /\ Len(replies) \in Nat
    BY <1>1, AppendFacts
  <1>6. AbsentInv' /\ DirtyOrder'
    BY <1>1 DEF OrderInv, AbsentInv, DirtyOrder
  <1>8. UnseenOrder'
    <2>1. \A i, j \in DOMAIN unseen' : i < j => i + 1 < j + 1
      BY <1>2
    <2> QED
      BY <1>1, <1>2, <2>1 DEF OrderInv, UnseenOrder
  <1>9. ReplyOrder'
    <2>1. ASSUME NEW i \in DOMAIN replies'
          PROVE  /\ replies'[i].seq <= paints
                 /\ replies'[i].op = "presented" =>
                       /\ presented < replies'[i].seq
                       /\ \A j \in DOMAIN replies' :
                             i < j /\ replies'[j].op = "presented" => replies'[i].seq < replies'[j].seq
                       /\ \A j \in DOMAIN unseen' : replies'[i].seq < unseen'[j]
                       /\ \A j \in DOMAIN dirty : replies'[i].seq < dirty[j].seq
      <3>1. CASE i = Len(replies) + 1 /\ replies'[i] = r
        <4>1. \A j \in DOMAIN replies' : ~ i < j
          BY <1>4, <3>1
        <4> QED
          BY <1>1, <1>2, <1>5, <3>1, <4>1 DEF OrderInv, UnseenOrder
      <3>2. CASE i \in DOMAIN replies /\ replies'[i] = replies[i]
        BY <1>1, <1>2, <1>4, <1>5, <3>2 DEF OrderInv, ReplyOrder
      <3> QED
        BY <1>4, <3>1, <3>2
    <2> QED
      BY <1>1, <2>1 DEF ReplyOrder
  <1> QED
    BY <1>6, <1>8, <1>9 DEF OrderInv

\* The reader thread takes a message.
LEMMA ReadOrder ==
  ASSUME TypeOK, OrderInv, ReadReply
  PROVE  OrderInv'
  <1> USE NumberFacts
  <1>1. /\ replies # <<>> /\ replies' = Tail(replies) /\ 1 \in DOMAIN replies /\ Head(replies) = replies[1]
        /\ UNCHANGED <<app, dirty, shown, unseen, drops, paints>>
    BY TailFacts DEF ReadReply
  <1>2. \A i \in DOMAIN replies' : i + 1 \in DOMAIN replies /\ replies'[i] = replies[i + 1] /\ i \in Nat /\ 1 < i + 1
    BY <1>1, TailFacts
  <1>3. \/ presented' = presented
        \/ presented' = replies[1].seq /\ replies[1].op = "presented"
    <2>1. CASE replies[1].op = "presented"
      <3>1. presented' = Max({presented, replies[1].seq})
        BY <1>1, <2>1 DEF ReadReply
      <3>2. presented \in Int /\ replies[1].seq \in Int
        BY <1>1
      <3> QED
        BY <2>1, <3>1, <3>2, MaxFacts
    <2>2. CASE replies[1].op # "presented"
      BY <1>1, <2>2 DEF ReadReply
    <2> QED
      BY <2>1, <2>2
  <1>4. AbsentInv'
    BY <1>1, <1>2 DEF OrderInv, AbsentInv
  <1>5. DirtyOrder'
    BY <1>1, <1>3 DEF OrderInv, DirtyOrder, ReplyOrder
  <1>6. UnseenOrder'
    BY <1>1, <1>3 DEF OrderInv, UnseenOrder, ReplyOrder
  <1>7. ReplyOrder'
    <2>1. \A i, j \in DOMAIN replies' : i < j => i + 1 < j + 1
      BY <1>2
    <2> QED
      BY <1>1, <1>2, <1>3, <2>1 DEF OrderInv, ReplyOrder
  <1> QED
    BY <1>4, <1>5, <1>6, <1>7 DEF OrderInv

\* Every step keeps the order of the generations.
LEMMA OrderStep ==
  ASSUME TypeOK, OrderInv, [Next]_vars
  PROVE  OrderInv'
  <1> USE DEF stream, viewer
  <1>1. CASE UNCHANGED <<app, drops, dirty, unseen, replies, shown, paints, presented>>
    BY <1>1 DEF OrderInv, AbsentInv, DirtyOrder, UnseenOrder, ReplyOrder
  <1>2. CASE RepaintComposite
    <2> DEFINE f == [buf |-> None, seq |-> paints + 1]
    <2>1. paints + 1 \in Generations
      BY <1>2, PaintFacts DEF RepaintComposite
    <2>2. f \in Frames /\ f.seq = paints + 1
      BY <2>1 DEF Frames
    <2>3. dirty' = IF app THEN Append(dirty, f) ELSE dirty
      BY <1>2 DEF RepaintComposite
    <2> HIDE DEF f
    <2> QED
      BY <1>2, <2>2, <2>3, PaintOrder DEF RepaintComposite
  <1>3. CASE RepaintDirect
    <2> DEFINE f == [buf |-> current, seq |-> paints + 1]
    <2>1. paints + 1 \in Generations
      BY <1>3, PaintFacts DEF RepaintDirect
    <2>2. f \in Frames /\ f.seq = paints + 1
      BY <2>1 DEF Frames, TypeOK
    <2>3. dirty' = IF app THEN Append(dirty, f) ELSE dirty
      BY <1>3 DEF RepaintDirect
    <2> HIDE DEF f
    <2> QED
      BY <1>3, <2>2, <2>3, PaintOrder DEF RepaintDirect
  <1>4. CASE AppDrop
    <2>1. drops' # 0
      BY <1>4, NumberFacts DEF AppDrop
    <2>2. DOMAIN dirty' = {} /\ DOMAIN unseen' = {} /\ DOMAIN replies' = {}
      BY <1>4 DEF AppDrop
    <2>3. shown'.seq <= paints'
      BY <1>4, NumberFacts DEF AppDrop, NoFrame
    <2> QED
      BY <1>4, <2>1, <2>2, <2>3 DEF AppDrop, OrderInv, AbsentInv, DirtyOrder, UnseenOrder,
         ReplyOrder
  <1>5. CASE AppAttach
    BY <1>5 DEF AppAttach, OrderInv, AbsentInv, DirtyOrder, UnseenOrder, ReplyOrder
  <1>6. CASE ShimStep \/ HandleRequest \/ ParentCommit \/ (\E k \in 1..MaxPaints : AckTimer(k))
             \/ UNCHANGED vars
    BY <1>1, <1>6 DEF ShimStep, SwapBuffers, NextBuffer, BudgetExpires, DispatchEvent,
       MakeCurrent,
       DestroySurface, HandleRequest, ParentCommit, AckTimer, vars
  <1> QED
    BY <1>2, <1>3, <1>4, <1>5, <1>6, DrainOrder, PresentedOrder, ReadOrder
    DEF Next, CompositorStep, AppStep

-----------------------------------------------------------------------------
(* What the app gives back.                                                *)

\* The frames the app was sent are frames, or none.
LEMMA SentFacts ==
  ASSUME TypeOK, NEW f, Sent(f), f.buf # None
  PROVE  f \in Frames /\ f.buf \in Buffers /\ f.seq \in Nat /\ f.seq >= 1 /\ f \in DirectFrames
  <1>1. f \in Frames
    BY NumberFacts DEF Sent, TypeOK, NoFrame
  <1>2. f.seq \in Generations /\ f.buf \in Buffers /\ f \in DirectFrames
    BY <1>1 DEF Frames, DirectFrames
  <1>3. f.seq \in Nat /\ f.seq >= 1
    BY <1>2, BoundsAreNaturals DEF Generations
  <1> QED
    BY <1>1, <1>2, <1>3

\* The app's frames are not newer than the newest.
LEMMA SentOld ==
  ASSUME TypeOK, OrderInv, NEW f, Sent(f)
  PROVE  f.seq <= paints
  BY DEF Sent, OrderInv, DirtyOrder

\* A repaint adds one frame to those the app was sent.
LEMMA SentPaint ==
  ASSUME TypeOK, NEW g \in Frames, UNCHANGED shown, dirty' = (IF app THEN Append(dirty, g) ELSE dirty)
  PROVE  /\ \A f : Sent(f)' => Sent(f) \/ (app /\ f = g)
         /\ \A f : Sent(f) => Sent(f)'
  <1>1. dirty \in Seq(Frames)
    BY DEF TypeOK
  <1>2. \A i \in DOMAIN dirty' : (i \in DOMAIN dirty /\ dirty'[i] = dirty[i]) \/ (app /\ dirty'[i] = g)
    BY <1>1, AppendFacts
  <1>3. \A i \in DOMAIN dirty : i \in DOMAIN dirty' /\ dirty'[i] = dirty[i]
    BY <1>1, AppendFacts
  <1> QED
    BY <1>2, <1>3 DEF Sent

\* Draining the oldest adds none, and leaves newer ones and its own.
LEMMA SentDrain ==
  ASSUME TypeOK, OrderInv, AppDrain
  PROVE  /\ \A f : Sent(f)' => Sent(f) /\ shown.seq < f.seq
         /\ \A i \in DOMAIN replies' :
               \/ i \in DOMAIN replies /\ replies'[i] = replies[i]
               \/ /\ replies'[i] = [op |-> "released", buf |-> shown.buf, seq |-> shown.seq]
                  /\ shown.buf # None
  <1> USE NumberFacts
  <1> DEFINE r == [op |-> "released", buf |-> shown.buf, seq |-> shown.seq]
  <1>1. dirty # <<>> /\ shown' = dirty[1] /\ 1 \in DOMAIN dirty /\ dirty' = Tail(dirty)
    BY TailFacts DEF AppDrain
  <1>2. \A i \in DOMAIN dirty' : i + 1 \in DOMAIN dirty /\ dirty'[i] = dirty[i + 1]
    BY <1>1, TailFacts
  <1>3. \A f : Sent(f)' => \E i \in DOMAIN dirty : f = dirty[i]
    BY <1>1, <1>2 DEF Sent
  <1>4. shown.buf # None => r \in Replies
    BY DEF TypeOK, Frames, NoFrame, Replies
  <1>5. replies' = (IF shown.buf = None THEN replies ELSE Append(replies, r))
    BY DEF AppDrain
  <1> HIDE DEF r
  <1>6. \A i \in DOMAIN replies' : \/ i \in DOMAIN replies /\ replies'[i] = replies[i]
                                   \/ replies'[i] = r /\ shown.buf # None
    BY <1>4, <1>5, AppendFacts
  <1> QED
    BY <1>3, <1>6 DEF Sent, OrderInv, DirtyOrder, r

\* Every step keeps what is given back within what was sent.
LEMMA StreamStep ==
  ASSUME TypeOK, OrderInv, StreamInv, [Next]_vars
  PROVE  StreamInv'
  <1> USE DEF stream, viewer
  <1>n. \A i \in DOMAIN replies : replies[i].op = "released" => replies[i].buf \in Buffers
    <2>1. \A r \in Replies : r.op = "released" => r.buf \in Buffers
      BY DEF Replies
    <2> QED
      BY <2>1, NumberFacts
  <1>1. CASE UNCHANGED <<dirty, replies, shown, last>>
    BY <1>1 DEF StreamInv, Sent
  <1>2. CASE HandleRequest
    <2> DEFINE bs == Head(requests).bufs
    <2>1. UNCHANGED <<dirty, replies, shown>>
      BY <1>2 DEF HandleRequest
    <2>2. CASE UNCHANGED last
      BY <1>1, <2>1, <2>2
    <2>3. CASE Forget(bs)
      <3>1. \A b \in Buffers : last'[b] = IF b \in bs THEN 0 ELSE last[b]
        BY <2>3, ForgetFacts
      <3> HIDE DEF bs
      <3>2. \A b \in Buffers : last'[b] = 0 \/ last'[b] = last[b]
        BY <3>1
      <3>3. ASSUME NEW f, Sent(f)', f.buf # None PROVE last'[f.buf] = 0 \/ f.seq <= last'[f.buf]
        <4>1. Sent(f)
          BY <2>1, <3>3 DEF Sent
        <4>2. f.buf \in Buffers
          BY <3>3, <4>1, SentFacts
        <4> QED
          BY <3>2, <3>3, <4>1, <4>2 DEF StreamInv
      <3>4. \A i \in DOMAIN replies : replies[i].op = "released" =>
               last'[replies[i].buf] = 0 \/ replies[i].seq <= last'[replies[i].buf]
        BY <1>n, <3>2 DEF StreamInv
      <3> QED
        BY <2>1, <3>3, <3>4 DEF StreamInv
    <2> QED
      BY <1>2, <2>2, <2>3 DEF HandleRequest, HandleFrame, HandleDestroy, HandleSurfaceGone,
         HandleSync
  <1>3. CASE RepaintComposite
    <2> DEFINE g == [buf |-> None, seq |-> paints + 1]
    <2>1. paints + 1 \in Generations
      BY <1>3, PaintFacts DEF RepaintComposite
    <2>2. g \in Frames /\ g.buf = None
      BY <2>1 DEF Frames
    <2>3. UNCHANGED <<shown, replies, last>> /\ dirty' = IF app THEN Append(dirty, g) ELSE dirty
      BY <1>3 DEF RepaintComposite
    <2> HIDE DEF g
    <2>4. \A f : Sent(f)' => Sent(f) \/ (app /\ f = g)
      BY <2>2, <2>3, SentPaint
    <2> QED
      BY <2>2, <2>3, <2>4 DEF StreamInv
  <1>4. CASE RepaintDirect
    <2> DEFINE g == [buf |-> current, seq |-> paints + 1]
    <2>1. paints + 1 \in Generations /\ current \in Buffers /\ paints \in Nat
      BY <1>4, PaintFacts DEF RepaintDirect, TypeOK
    <2>2. g \in Frames /\ g.buf = current /\ g.seq = paints + 1
      BY <2>1 DEF Frames
    <2>3. UNCHANGED <<shown, replies>> /\ dirty' = IF app THEN Append(dirty, g) ELSE dirty
      BY <1>4 DEF RepaintDirect
    <2> HIDE DEF g
    <2>4. \A f : Sent(f)' => Sent(f) \/ (app /\ f = g)
      BY <2>2, <2>3, SentPaint
    <2>5. \A b \in Buffers : last'[b] = IF b = current THEN paints + 1 ELSE last[b]
      BY <1>4 DEF RepaintDirect, TypeOK
    <2>6. ASSUME NEW f, Sent(f)', f.buf # None PROVE last'[f.buf] = 0 \/ f.seq <= last'[f.buf]
      <3>1. CASE f = g
        BY <2>1, <2>2, <2>5, <3>1
      <3>2. CASE Sent(f)
        <4>1. f.seq <= paints /\ f.seq \in Nat /\ f.buf \in Buffers
          BY <2>6, <3>2, SentFacts, SentOld
        <4>2. last[f.buf] = 0 \/ f.seq <= last[f.buf]
          BY <2>6, <3>2 DEF StreamInv
        <4> QED
          BY <2>1, <2>5, <4>1, <4>2
      <3> QED
        BY <2>4, <2>6, <3>1, <3>2
    <2>7. ASSUME NEW i \in DOMAIN replies, replies[i].op = "released"
          PROVE  last'[replies[i].buf] = 0 \/ replies[i].seq <= last'[replies[i].buf]
      <3>1. replies[i].seq <= paints /\ replies[i].seq \in Nat /\ replies[i].buf \in Buffers
        BY <1>n, <2>7, NumberFacts DEF OrderInv, ReplyOrder
      <3>2. last[replies[i].buf] = 0 \/ replies[i].seq <= last[replies[i].buf]
        BY <2>7 DEF StreamInv
      <3> QED
        BY <2>1, <2>5, <3>1, <3>2
    <2> QED
      BY <2>3, <2>6, <2>7 DEF StreamInv
  <1>5. CASE ReadReply
    <2>1. \A i \in DOMAIN replies' : i + 1 \in DOMAIN replies /\ replies'[i] = replies[i + 1]
      BY <1>5, NumberFacts, TailFacts DEF ReadReply
    <2> QED
      BY <1>5, <2>1 DEF ReadReply, StreamInv, Sent
  <1>6. CASE AppDrain
    <2> DEFINE r == [op |-> "released", buf |-> shown.buf, seq |-> shown.seq]
    <2>1. /\ \A f : Sent(f)' => Sent(f)
          /\ \A i \in DOMAIN replies' : \/ i \in DOMAIN replies /\ replies'[i] = replies[i]
                                        \/ replies'[i] = r /\ shown.buf # None
      BY <1>6, SentDrain
    <2>2. r.buf = shown.buf /\ r.seq = shown.seq /\ Sent(shown)
      BY DEF Sent
    <2>3. UNCHANGED last
      BY <1>6 DEF AppDrain
    <2> HIDE DEF r
    <2> QED
      BY <2>1, <2>2, <2>3 DEF StreamInv
  <1>7. CASE AppPresented
    <2> DEFINE r == [op |-> "presented", buf |-> None, seq |-> Head(unseen)]
    <2>1. Head(unseen) \in Generations
      BY <1>7, NumberFacts, TailFacts DEF AppPresented
    <2>2. r \in Replies /\ r.op # "released" /\ replies' = Append(replies, r)
      BY <1>7, <2>1 DEF AppPresented, Replies
    <2> HIDE DEF r
    <2>3. \A i \in DOMAIN replies' : (i \in DOMAIN replies /\ replies'[i] = replies[i]) \/ replies'[i] = r
      BY <2>2, NumberFacts, AppendFacts
    <2> QED
      BY <1>7, <2>2, <2>3 DEF AppPresented, StreamInv, Sent
  <1>8. CASE AppDrop
    <2>1. DOMAIN dirty' = {} /\ DOMAIN replies' = {} /\ shown'.buf = None
      BY <1>8 DEF AppDrop, NoFrame
    <2> QED
      BY <2>1 DEF StreamInv, Sent
  <1>9. CASE AppAttach
    BY <1>1, <1>9 DEF AppAttach
  <1>10. CASE ShimStep \/ ParentCommit \/ (\E k \in 1..MaxPaints : AckTimer(k)) \/ UNCHANGED vars
    BY <1>1, <1>10 DEF ShimStep, SwapBuffers, NextBuffer, BudgetExpires, DispatchEvent,
       MakeCurrent,
       DestroySurface, ParentCommit, AckTimer, vars
  <1> QED
    BY <1>2, <1>3, <1>4, <1>5, <1>6, <1>7, <1>8, <1>9, <1>10 DEF Next, CompositorStep, AppStep

-----------------------------------------------------------------------------
(* What was given back is noticed.                                         *)

\* The valve drops the batches of frames that were presented.
LEMMA AckBatches ==
  ASSUME TypeOK, NEW k \in 1..MaxPaints, AckTimer(k), ~ slow', NEW g \in Nat, presented < g,
         NEW i \in DOMAIN batches, batches[i] = g
  PROVE  \E j \in DOMAIN batches' : batches'[j] = g
  <1>1. /\ batches \in Seq(Generations) /\ k \in 1..Len(batches)
        /\ batches' = SubSeq(batches, k + 1, Len(batches))
    BY DEF TypeOK, AckTimer
  <1>2. \A n \in 1..k : ~ presented < batches[n]
    BY DEF AckTimer
  <1>3. i \in 1..Len(batches) /\ i \in Int /\ k \in Int /\ Len(batches) \in Nat
    BY <1>1
  <1>4. i > k
    BY <1>2, <1>3
  <1>5. i - k \in 1..(Len(batches) - k)
    BY <1>3, <1>4
  <1>6. DOMAIN batches' = 1..(Len(batches) - k) /\ batches'[i - k] = batches[i]
    BY <1>1, <1>3, <1>4
  <1> QED
    BY <1>5, <1>6

\* A repaint's batch joins those that wait.
LEMMA PaintBatches ==
  ASSUME TypeOK, app, AfterPresent, paints' \in Generations
  PROVE  /\ batches' # <<>> /\ UNCHANGED <<held, events>>
         /\ \A i \in DOMAIN batches : i \in DOMAIN batches' /\ batches'[i] = batches[i]
         /\ \E i \in DOMAIN batches' : batches'[i] = paints'
  <1>1. batches \in Seq(Generations) /\ batches' = Append(batches, paints') /\ UNCHANGED <<held, events>>
    BY DEF TypeOK, AfterPresent
  <1> HIDE DEF AfterPresent
  <1> QED
    BY <1>1, AppendFacts

\* What is later than the later of two is later than both.
LEMMA Later ==
  \A a, b, c \in Nat : b >= a => \A g \in (b + 1)..c : g \in (a + 1)..c
  OBVIOUS

\* Every step keeps it that a RELEASED is followed by a PRESENTED, and that a
\* frame not presented has a batch.
LEMMA NoticeStep ==
  ASSUME TypeOK, OrderInv, NoticeInv, [Next]_vars
  PROVE  NoticeInv'
  <1> USE DEF stream, viewer, server
  <1> DEFINE Followed == \A i \in DOMAIN replies : replies[i].op = "released" =>
                 unseen # <<>> \/ \E j \in DOMAIN replies : i < j /\ replies[j].op = "presented"
             Waited == ~ slow /\ drops = 0 =>
                 \A g \in (presented + 1)..paints : \E i \in DOMAIN batches : batches[i] = g
  <1>0. (Followed' /\ Waited' => NoticeInv') /\ Followed /\ Waited
    BY DEF NoticeInv
  <1>f. UNCHANGED <<replies, unseen>> => Followed'
    BY <1>0
  <1>w. UNCHANGED <<slow, drops, presented, paints, batches>> => Waited'
    BY <1>0
  <1>n. paints \in Nat /\ presented \in Nat
    BY NumberFacts
  <1> HIDE DEF Followed, Waited
  <1>1. CASE RepaintComposite \/ RepaintDirect
    <2>1. /\ paints' = paints + 1 /\ paints < MaxPaints /\ AfterPresent
          /\ UNCHANGED <<slow, drops, presented, replies, unseen>>
      BY <1>1 DEF RepaintComposite, RepaintDirect
    <2>2. paints' \in Generations
      BY <2>1, PaintFacts
    <2>3. ASSUME ~ slow, drops = 0, NEW g \in (presented + 1)..paints'
          PROVE  \E i \in DOMAIN batches' : batches'[i] = g
      <3>0. app
        BY <2>3 DEF OrderInv, AbsentInv
      <3>1. CASE g = paints'
        BY <2>1, <2>2, <3>0, <3>1, PaintBatches
      <3>2. CASE g # paints'
        <4>1. g \in (presented + 1)..paints
          BY <1>n, <2>1, <2>3, <3>2
        <4>2. \E i \in DOMAIN batches : batches[i] = g
          BY <1>0, <2>3, <4>1 DEF Waited
        <4> QED
          BY <2>1, <2>2, <3>0, <4>2, PaintBatches
      <3> QED
        BY <3>1, <3>2
    <2>4. Waited'
      BY <2>1, <2>3 DEF Waited
    <2> QED
      BY <1>0, <1>f, <2>1, <2>4
  <1>2. ASSUME NEW k \in 1..MaxPaints, AckTimer(k) PROVE NoticeInv'
    <2>1. /\ UNCHANGED <<drops, presented, paints, replies, unseen>>
          /\ ~ slow' => ~ slow
      BY <1>2 DEF AckTimer
    <2>2. ASSUME ~ slow', drops = 0, NEW g \in (presented + 1)..paints
          PROVE  \E i \in DOMAIN batches' : batches'[i] = g
      <3>1. PICK i \in DOMAIN batches : batches[i] = g
        BY <1>0, <2>1, <2>2 DEF Waited
      <3>2. g \in Nat /\ presented < g
        BY <1>n
      <3> QED
        BY <1>2, <2>2, <3>1, <3>2, AckBatches
    <2>3. Waited'
      BY <2>1, <2>2 DEF Waited
    <2> QED
      BY <1>0, <1>f, <2>1, <2>3
  <1>3. CASE ReadReply
    <2>1. /\ replies # <<>> /\ replies' = Tail(replies) /\ Head(replies) = replies[1] /\ 1 \in DOMAIN replies
          /\ UNCHANGED <<unseen, slow, drops, paints, batches>>
      BY <1>3, NumberFacts, TailFacts DEF ReadReply
    <2>2. /\ \A i \in DOMAIN replies' : i + 1 \in DOMAIN replies /\ replies'[i] = replies[i + 1] /\ i \in Nat
          /\ \A i \in DOMAIN replies : i = 1 \/ (i - 1 \in DOMAIN replies' /\ replies'[i - 1] = replies[i])
          /\ \A i \in DOMAIN replies : i \in Nat
      BY <2>1, NumberFacts, TailFacts
    <2>3. ASSUME NEW i \in DOMAIN replies', replies'[i].op = "released"
          PROVE  unseen # <<>> \/ \E j \in DOMAIN replies' : i < j /\ replies'[j].op = "presented"
      <3>1. unseen # <<>> \/ \E j \in DOMAIN replies : i + 1 < j /\ replies[j].op = "presented"
        BY <1>0, <2>2, <2>3 DEF Followed
      <3>2. ASSUME NEW j \in DOMAIN replies, i + 1 < j, replies[j].op = "presented"
            PROVE  \E l \in DOMAIN replies' : i < l /\ replies'[l].op = "presented"
        <4>1. j # 1 /\ i < j - 1
          BY <2>2, <3>2
        <4> QED
          BY <2>2, <3>2, <4>1
      <3> QED
        BY <3>1, <3>2
    <2>4. Followed'
      BY <2>1, <2>3 DEF Followed
    <2>5. presented' \in Nat /\ presented' >= presented
      <3>1. CASE replies[1].op = "presented"
        <4>1. presented' = Max({presented, replies[1].seq})
          BY <1>3, <2>1, <3>1 DEF ReadReply
        <4>2. presented \in Int /\ replies[1].seq \in Int /\ replies[1].seq \in Nat
          BY <2>1, NumberFacts
        <4>3. presented' \in {presented, replies[1].seq} /\ presented' >= presented
          BY <4>1, <4>2, MaxFacts
        <4> QED
          BY <1>n, <4>2, <4>3
      <3>2. CASE replies[1].op # "presented"
        BY <1>3, <1>n, <2>1, <3>2 DEF ReadReply
      <3> QED
        BY <3>1, <3>2
    <2>6. \A g \in (presented' + 1)..paints : g \in (presented + 1)..paints
      BY <1>n, <2>5, Later
    <2>7. Waited'
      BY <1>0, <2>1, <2>6 DEF Waited
    <2> QED
      BY <1>0, <2>4, <2>7
  <1>4. CASE AppDrain
    <2>1. unseen' = Append(unseen, Head(dirty).seq) /\ Head(dirty).seq \in Generations
      <3>1. Head(dirty) \in Frames
        BY <1>4, NumberFacts, TailFacts DEF AppDrain
      <3> QED
        BY <1>4, <3>1 DEF AppDrain, Frames
    <2>2. unseen' # <<>>
      BY <2>1, NumberFacts, AppendFacts
    <2>3. Followed'
      BY <2>2 DEF Followed
    <2> QED
      BY <1>0, <1>4, <1>w, <2>3 DEF AppDrain
  <1>5. CASE AppPresented
    <2> DEFINE r == [op |-> "presented", buf |-> None, seq |-> Head(unseen)]
    <2>1. Head(unseen) \in Generations
      BY <1>5, NumberFacts, TailFacts DEF AppPresented
    <2>2. r \in Replies /\ r.op = "presented" /\ replies' = Append(replies, r)
      BY <1>5, <2>1 DEF AppPresented, Replies
    <2> HIDE DEF r
    <2>3. /\ \A i \in DOMAIN replies' : i < Len(replies) + 1 \/ replies'[i] = r
          /\ Len(replies) + 1 \in DOMAIN replies' /\ replies'[Len(replies) + 1] = r
      BY <2>2, NumberFacts, AppendFacts
    <2>4. Followed'
      BY <2>2, <2>3 DEF Followed
    <2> QED
      BY <1>0, <1>5, <1>w, <2>4 DEF AppPresented
  <1>6. CASE AppDrop
    <2>1. DOMAIN replies' = {} /\ drops' # 0
      BY <1>6, NumberFacts DEF AppDrop
    <2> QED
      BY <1>0, <2>1 DEF Followed, Waited
  <1>7. CASE UNCHANGED <<replies, unseen, slow, drops, presented, paints, batches>>
    BY <1>0, <1>f, <1>w, <1>7
  <1>8. CASE ShimStep \/ HandleRequest \/ ParentCommit \/ AppAttach \/ UNCHANGED vars
    BY <1>7, <1>8 DEF ShimStep, SwapBuffers, NextBuffer, BudgetExpires, DispatchEvent,
       MakeCurrent,
       DestroySurface, HandleRequest, ParentCommit, AppAttach, vars
  <1> QED
    BY <1>1, <1>2, <1>3, <1>4, <1>5, <1>6, <1>8 DEF Next, CompositorStep, AppStep

\* Every step keeps it that a batch will notice what was given back.
LEMMA GivenBackStep ==
  ASSUME TypeOK, OrderInv, NoticeInv, GivenBackNoticed, [Next]_vars
  PROVE  GivenBackNoticed'
  <1> USE DEF stream, viewer, server
  <1> DEFINE Back == \E n \in DOMAIN held : released[held[n].buf] >= held[n].seq
  <1>0. /\ GivenBackNoticed <=> (~ slow /\ drops = 0 /\ Back => batches # <<>>)
        /\ (~ slow' /\ drops' = 0 /\ Back' => batches' # <<>>) => GivenBackNoticed'
    BY DEF GivenBackNoticed, GivenBack
  <1>h. held \in Seq(DirectFrames)
    BY DEF TypeOK
  <1>1. CASE UNCHANGED <<slow, drops, batches, held, released>>
    BY <1>0, <1>1
  <1>s. ASSUME NEW b \in Buffers \cup {None}, SetBuffer(b), UNCHANGED <<slow, drops, batches, released>>
        PROVE  GivenBackNoticed'
    <2> DEFINE h == [buf |-> current, seq |-> direct_seq]
    <2>1. \/ held' = held
          \/ /\ current \in Buffers /\ released[current] < direct_seq
             /\ held' = Append(held, h) /\ h \in DirectFrames
      BY <1>s, SetFacts
    <2>2. h.buf = current /\ h.seq = direct_seq
      OBVIOUS
    <2> HIDE DEF h
    <2>3. Back' => Back
      <3>1. CASE held' = held
        BY <1>s, <3>1
      <3>2. CASE /\ current \in Buffers /\ released[current] < direct_seq
                 /\ held' = Append(held, h) /\ h \in DirectFrames
        <4>1. \A n \in DOMAIN held' : (n \in DOMAIN held /\ held'[n] = held[n]) \/ held'[n] = h
          BY <1>h, <3>2, AppendFacts
        <4>2. ~ released[h.buf] >= h.seq
          BY <2>2, <3>2, NumberFacts
        <4> QED
          BY <1>s, <4>1, <4>2
      <3> QED
        BY <2>1, <3>1, <3>2
    <2> QED
      BY <1>0, <1>s, <2>3
  <1>2. CASE HandleRequest
    <2> DEFINE bs == Head(requests).bufs
    <2>0. UNCHANGED <<slow, drops, batches>> /\ bs \subseteq Buffers
      BY <1>2, HandleFacts, RequestFacts DEF HandleRequest
    <2>1. ASSUME NEW b \in bs, HandleFrame(b) PROVE GivenBackNoticed'
      <3>1. CASE synced
        BY <1>1, <2>0, <2>1, <3>1 DEF HandleFrame
      <3>2. CASE ~ synced
        BY <1>s, <2>0, <2>1, <3>2 DEF HandleFrame
      <3> QED
        BY <3>1, <3>2
    <2>2. CASE Forget(bs)
      <3>1. \A i \in DOMAIN held' : \E a \in DOMAIN held : held'[i] = held[a] /\ held[a].buf \notin bs
        BY <2>2, ForgetFacts
      <3>2. \A b \in Buffers : released'[b] = IF b \in bs THEN 0 ELSE released[b]
        BY <2>2, ForgetFacts
      <3> HIDE DEF bs
      <3>3. Back' => Back
        BY <3>1, <3>2, NumberFacts
      <3> QED
        BY <1>0, <2>0, <3>3
    <2>3. CASE HandleSync
      BY <1>1, <2>0, <2>3 DEF HandleSync
    <2> QED
      BY <1>2, <2>1, <2>2, <2>3 DEF HandleRequest, HandleDestroy, HandleSurfaceGone
  <1>3. CASE ParentCommit
    BY <1>3, <1>s DEF ParentCommit, TypeOK
  <1>4. CASE RepaintComposite \/ RepaintDirect
    <2>1. /\ paints' = paints + 1 /\ paints < MaxPaints /\ AfterPresent /\ UNCHANGED drops
      BY <1>4 DEF RepaintComposite, RepaintDirect
    <2>2. paints' \in Generations
      BY <2>1, PaintFacts
    <2>3. drops = 0 => app
      BY DEF OrderInv, AbsentInv
    <2>4. app => batches' # <<>>
      BY <2>1, <2>2, PaintBatches
    <2> QED
      BY <1>0, <2>1, <2>3, <2>4
  <1>5. ASSUME NEW k \in 1..MaxPaints, AckTimer(k) PROVE GivenBackNoticed'
    <2>1. ReleaseDirect(events) /\ UNCHANGED released
      BY <1>5 DEF AckTimer
    <2>2. \A i \in DOMAIN held' : \E a \in DOMAIN held : held'[i] = held[a] /\ ~ GivenBack(held[a])
      BY <2>1, ReleaseFacts
    <2>3. ~ Back'
      BY <2>1, <2>2 DEF GivenBack
    <2> QED
      BY <1>0, <2>3
  <1>6. CASE ReadReply
    <2>0. /\ replies # <<>> /\ 1 \in DOMAIN replies /\ Head(replies) = replies[1]
          /\ UNCHANGED <<slow, drops, batches, held>>
      BY <1>6, NumberFacts, TailFacts DEF ReadReply
    <2>1. CASE replies[1].op = "presented"
      BY <1>1, <1>6, <2>0, <2>1 DEF ReadReply
    <2>2. CASE replies[1].op = "released"
      <3>1. \E g \in Nat : presented < g /\ g <= paints
        <4>1. CASE unseen # <<>>
          <5>1. 1 \in DOMAIN unseen
            BY <4>1, NumberFacts, TailFacts
          <5> QED
            BY <5>1, NumberFacts DEF OrderInv, UnseenOrder
        <4>2. CASE \E j \in DOMAIN replies : 1 < j /\ replies[j].op = "presented"
          BY <4>2, NumberFacts DEF OrderInv, ReplyOrder
        <4> QED
          BY <2>0, <2>2, <4>1, <4>2 DEF NoticeInv
      <3>2. PICK g \in Nat : presented < g /\ g <= paints
        BY <3>1
      <3>3. g \in (presented + 1)..paints
        BY <3>2, NumberFacts
      <3>4. ~ slow /\ drops = 0 => \E i \in DOMAIN batches : batches[i] = g
        BY <3>3 DEF NoticeInv
      <3>5. ~ slow /\ drops = 0 => batches # <<>>
        BY <3>4
      <3> QED
        BY <1>0, <2>0, <3>5
    <2> QED
      BY <2>0, <2>1, <2>2, ReplyFacts
  <1>7. CASE AppDrop
    <2>1. drops' # 0
      BY <1>7, NumberFacts DEF AppDrop
    <2> QED
      BY <1>0, <2>1
  <1>8. CASE AppAttach
    BY <1>0, <1>8 DEF AppAttach, OrderInv, AbsentInv
  <1>9. CASE ShimStep \/ AppDrain \/ AppPresented \/ UNCHANGED vars
    BY <1>1, <1>9 DEF ShimStep, SwapBuffers, NextBuffer, BudgetExpires, DispatchEvent,
       MakeCurrent,
       DestroySurface, AppDrain, AppPresented, vars
  <1> QED
    BY <1>2, <1>3, <1>4, <1>5, <1>6, <1>7, <1>8, <1>9 DEF Next, CompositorStep, AppStep

-----------------------------------------------------------------------------
(* Where committed buffers are.                                            *)

\* A buffer's frame and release tell the buffer.
LEMMA TellApart ==
  /\ \A b, c : Request("frame", {b}) = Request("frame", {c}) => b = c
  /\ \A b, c : Release(b) = Release(c) => b = c
  /\ \A b : Request("frame", {b}).op = "frame" /\ Release(b).op = "release"
  BY DEF Request, Release

\* Requests that gain one.
LEMMA AskedAppend ==
  ASSUME TypeOK, NEW r \in Requests, requests' = Append(requests, r)
  PROVE  /\ \A b : Asked(b)' <=> Asked(b) \/ r = Request("frame", {b})
         /\ AskedOnce /\ (\A b : r = Request("frame", {b}) => ~ Asked(b)) => AskedOnce'
  <1>1. /\ \A i \in DOMAIN requests : i \in DOMAIN requests' /\ requests'[i] = requests[i]
        /\ \A i \in DOMAIN requests' : i \in DOMAIN requests \/ (requests'[i] = r /\ i = Len(requests) + 1)
        /\ Len(requests) + 1 \in DOMAIN requests' /\ requests'[Len(requests) + 1] = r
    BY RequestAppend
  <1>2. \A b : Asked(b)' <=> Asked(b) \/ r = Request("frame", {b})
    BY <1>1 DEF Asked
  <1>3. ASSUME AskedOnce, \A b : r = Request("frame", {b}) => ~ Asked(b) PROVE AskedOnce'
    <2>1. r.op = "frame" => \E b \in Buffers : r = Request("frame", {b})
      BY DEF Requests, Request
    <2>2. r.op = "frame" => \A i \in DOMAIN requests : requests[i] # r
      BY <1>3, <2>1 DEF Asked
    <2> QED
      BY <1>1, <1>3, <2>2 DEF AskedOnce
  <1> QED
    BY <1>2, <1>3

\* Requests whose first one was taken.
LEMMA AskedTail ==
  ASSUME TypeOK, requests # <<>>, requests' = Tail(requests)
  PROVE  /\ \A b : Asked(b)' => Asked(b)
         /\ \A b : Asked(b) /\ requests[1] # Request("frame", {b}) => Asked(b)'
         /\ AskedOnce => AskedOnce'
         /\ AskedOnce => \A b : requests[1] = Request("frame", {b}) => Asked(b) /\ ~ Asked(b)'
  <1>1. /\ \A i \in DOMAIN requests' : i + 1 \in DOMAIN requests /\ requests'[i] = requests[i + 1]
                                       /\ i \in Nat /\ i + 1 # 1
        /\ \A i \in DOMAIN requests : i = 1 \/ (i - 1 \in DOMAIN requests' /\ requests'[i - 1] = requests[i])
        /\ 1 \in DOMAIN requests
    BY TailFacts DEF TypeOK
  <1>2. \A b : Asked(b)' => Asked(b)
    BY <1>1 DEF Asked
  <1>3. ASSUME NEW b, Asked(b), requests[1] # Request("frame", {b}) PROVE Asked(b)'
    <2>1. PICK i \in DOMAIN requests : requests[i] = Request("frame", {b})
      BY <1>3 DEF Asked
    <2>2. i - 1 \in DOMAIN requests' /\ requests'[i - 1] = Request("frame", {b})
      BY <1>1, <1>3, <2>1
    <2> QED
      BY <2>2 DEF Asked
  <1>4. ASSUME AskedOnce PROVE AskedOnce'
    <2> SUFFICES ASSUME NEW i \in DOMAIN requests', NEW j \in DOMAIN requests',
                        requests'[i].op = "frame", requests'[i] = requests'[j]
                 PROVE  i = j
      BY DEF AskedOnce
    <2>1. i + 1 = j + 1
      BY <1>1, <1>4 DEF AskedOnce
    <2>2. i \in Int /\ j \in Int /\ 1 \in Int
      BY <1>1
    <2> QED
      BY <2>1, <2>2, PlusCancels
  <1>5. ASSUME AskedOnce, NEW b, requests[1] = Request("frame", {b})
        PROVE  Asked(b) /\ ~ Asked(b)'
    <2>1. Asked(b)
      BY <1>1, <1>5 DEF Asked
    <2>2. \A i \in DOMAIN requests' : requests'[i] # requests[1]
      BY <1>1, <1>5, TellApart DEF AskedOnce
    <2> QED
      BY <1>5, <2>1, <2>2 DEF Asked
  <1> QED
    BY <1>2, <1>3, <1>4, <1>5

\* Events that gain one.
LEMMA ToldAppend ==
  ASSUME TypeOK, NEW e \in Events, events' = Append(events, e)
  PROVE  /\ \A b : Told(b)' <=> Told(b) \/ e = Release(b)
         /\ ToldOnce /\ (\A b : e = Release(b) => ~ Told(b)) => ToldOnce'
  <1>0. events \in Seq(Events)
    BY DEF TypeOK
  <1>1. /\ \A i \in DOMAIN events : i \in DOMAIN events' /\ events'[i] = events[i]
        /\ \A i \in DOMAIN events' : i \in DOMAIN events \/ (events'[i] = e /\ i = Len(events) + 1)
        /\ Len(events) + 1 \in DOMAIN events' /\ events'[Len(events) + 1] = e
    BY <1>0, AppendFacts
  <1>2. \A b : Told(b)' <=> Told(b) \/ e = Release(b)
    BY <1>1 DEF Told
  <1>3. ASSUME ToldOnce, \A b : e = Release(b) => ~ Told(b) PROVE ToldOnce'
    <2>1. e.op = "release" => \E b \in Buffers : e = Release(b)
      BY DEF Events, Release
    <2>2. e.op = "release" => \A i \in DOMAIN events : events[i] # e
      BY <1>3, <2>1 DEF Told
    <2> QED
      BY <1>1, <1>3, <2>2 DEF ToldOnce
  <1> QED
    BY <1>2, <1>3

\* Events whose first one was taken.
LEMMA ToldTail ==
  ASSUME TypeOK, events # <<>>, events' = Tail(events)
  PROVE  /\ \A b : Told(b)' => Told(b)
         /\ \A b : Told(b) /\ events[1] # Release(b) => Told(b)'
         /\ ToldOnce => ToldOnce'
         /\ ToldOnce => \A b : events[1] = Release(b) => Told(b) /\ ~ Told(b)'
  <1>1. /\ \A i \in DOMAIN events' : i + 1 \in DOMAIN events /\ events'[i] = events[i + 1]
                                     /\ i \in Nat /\ i + 1 # 1
        /\ \A i \in DOMAIN events : i = 1 \/ (i - 1 \in DOMAIN events' /\ events'[i - 1] = events[i])
        /\ 1 \in DOMAIN events
    BY TailFacts DEF TypeOK
  <1>2. \A b : Told(b)' => Told(b)
    BY <1>1 DEF Told
  <1>3. ASSUME NEW b, Told(b), events[1] # Release(b) PROVE Told(b)'
    <2>1. PICK i \in DOMAIN events : events[i] = Release(b)
      BY <1>3 DEF Told
    <2>2. i - 1 \in DOMAIN events' /\ events'[i - 1] = Release(b)
      BY <1>1, <1>3, <2>1
    <2> QED
      BY <2>2 DEF Told
  <1>4. ASSUME ToldOnce PROVE ToldOnce'
    <2> SUFFICES ASSUME NEW i \in DOMAIN events', NEW j \in DOMAIN events',
                        events'[i].op = "release", events'[i] = events'[j]
                 PROVE  i = j
      BY DEF ToldOnce
    <2>1. i + 1 = j + 1
      BY <1>1, <1>4 DEF ToldOnce
    <2>2. i \in Int /\ j \in Int /\ 1 \in Int
      BY <1>1
    <2> QED
      BY <2>1, <2>2, PlusCancels
  <1>5. ASSUME ToldOnce, NEW b, events[1] = Release(b) PROVE Told(b) /\ ~ Told(b)'
    <2>1. Told(b)
      BY <1>1, <1>5 DEF Told
    <2>2. \A i \in DOMAIN events' : events'[i] # events[1]
      BY <1>1, <1>5, TellApart DEF ToldOnce
    <2> QED
      BY <1>5, <2>1, <2>2 DEF Told
  <1> QED
    BY <1>2, <1>3, <1>4, <1>5

\* The list of held buffers gains one.
LEMMA HeldAppend ==
  ASSUME TypeOK, NEW h \in DirectFrames, held' = Append(held, h)
  PROVE  /\ \A b : Held(b)' <=> Held(b) \/ h.buf = b
         /\ HeldOnce /\ ~ Held(h.buf) => HeldOnce'
         /\ \A i \in DOMAIN held : i \in DOMAIN held' /\ held'[i] = held[i]
         /\ \E i \in DOMAIN held' : held'[i] = h
  <1>0. held \in Seq(DirectFrames)
    BY DEF TypeOK
  <1>1. /\ \A i \in DOMAIN held : i \in DOMAIN held' /\ held'[i] = held[i]
        /\ \A i \in DOMAIN held' : i \in DOMAIN held \/ (held'[i] = h /\ i = Len(held) + 1)
        /\ Len(held) + 1 \in DOMAIN held' /\ held'[Len(held) + 1] = h
    BY <1>0, AppendFacts
  <1> QED
    BY <1>1 DEF Held, HeldOnce

\* release_direct_buffers moves each buffer it releases from the one list to the
\* other.
LEMMA ReleasePlaces ==
  ASSUME TypeOK, ReleaseDirect(events)
  PROVE  /\ \A b : Held(b)' => Held(b)
         /\ \A b : Told(b)' => Told(b) \/ Held(b)
         /\ \A b : Told(b) => Told(b)'
         /\ \A b : Held(b) => Held(b)' \/ Told(b)'
         /\ HeldOnce => HeldOnce'
         /\ HeldOnce => \A b : Held(b) /\ Held(b)' => Told(b) \/ ~ Told(b)'
         /\ HeldOnce /\ ToldOnce /\ (\A b \in Buffers : ~ (Held(b) /\ Told(b))) => ToldOnce'
  <1> DEFINE Back(a) == GivenBack(held[a])
  <1>1. /\ events' \in Seq(Events) /\ held' \in Seq(DirectFrames)
        /\ \A i \in DOMAIN events : i \in DOMAIN events' /\ events'[i] = events[i]
        /\ \A i \in DOMAIN events' : i \notin DOMAIN events =>
               \E a \in DOMAIN held : Back(a) /\ events'[i] = Release(held[a].buf)
        /\ \A i, j \in DOMAIN events' : i < j /\ i \notin DOMAIN events =>
               \E a, b \in DOMAIN held : a < b /\ events'[i] = Release(held[a].buf)
                                               /\ events'[j] = Release(held[b].buf)
        /\ \A a \in DOMAIN held : Back(a) =>
               \E i \in DOMAIN events' : events'[i] = Release(held[a].buf)
        /\ \A i \in DOMAIN held' : \E a \in DOMAIN held : held'[i] = held[a] /\ ~ Back(a)
        /\ \A i, j \in DOMAIN held' : i < j =>
               \E a, b \in DOMAIN held : a < b /\ held'[i] = held[a] /\ held'[j] = held[b]
        /\ \A a \in DOMAIN held : ~ Back(a) => \E i \in DOMAIN held' : held'[i] = held[a]
    BY ReleaseFacts
  <1> HIDE DEF Back
  <1>i. /\ \A i \in DOMAIN events' : i \in Int
        /\ \A i \in DOMAIN held' : i \in Int
        /\ \A i \in DOMAIN held : i \in Int /\ held[i].buf \in Buffers
    BY <1>1, NumberFacts
  <1>d. \A i \in DOMAIN events' : i \in DOMAIN events \/ i \notin DOMAIN events
    OBVIOUS
  <1>2. \A b : Held(b)' => Held(b)
    BY <1>1 DEF Held
  <1>3. \A b : Told(b)' => Told(b) \/ \E a \in DOMAIN held : Back(a) /\ held[a].buf = b
    <2> SUFFICES ASSUME NEW b, NEW i \in DOMAIN events', events'[i] = Release(b)
                 PROVE  Told(b) \/ \E a \in DOMAIN held : Back(a) /\ held[a].buf = b
      BY DEF Told
    <2>1. CASE i \in DOMAIN events
      BY <1>1, <2>1 DEF Told
    <2>2. CASE i \notin DOMAIN events
      BY <1>1, <2>2, TellApart
    <2> QED
      BY <2>1, <2>2
  <1>4. \A b : Told(b) => Told(b)'
    BY <1>1 DEF Told
  <1>5. \A b : Held(b) => Held(b)' \/ Told(b)'
    BY <1>1 DEF Held, Told
  <1>6. ASSUME HeldOnce PROVE HeldOnce'
    <2> SUFFICES ASSUME NEW i \in DOMAIN held', NEW j \in DOMAIN held',
                        held'[i].buf = held'[j].buf
                 PROVE  i = j
      BY DEF HeldOnce
    <2>1. ASSUME NEW k \in DOMAIN held', NEW l \in DOMAIN held', k < l, held'[k].buf = held'[l].buf
          PROVE  FALSE
      <3>1. PICK a, b \in DOMAIN held : a < b /\ held'[k] = held[a] /\ held'[l] = held[b]
        BY <1>1, <2>1
      <3> QED
        BY <1>6, <1>i, <2>1, <3>1 DEF HeldOnce
    <2>2. ~ i < j /\ ~ j < i
      BY <2>1
    <2> QED
      BY <1>i, <2>2
  <1>7. ASSUME HeldOnce, NEW b, Held(b), Held(b)', Told(b)' PROVE Told(b)
    <2>1. PICK i \in DOMAIN held' : held'[i].buf = b
      BY <1>7 DEF Held
    <2>2. PICK a \in DOMAIN held : held'[i] = held[a] /\ ~ Back(a)
      BY <1>1
    <2>3. \A c \in DOMAIN held : held[c].buf = b => c = a
      BY <1>7, <2>1, <2>2 DEF HeldOnce
    <2> QED
      BY <1>3, <1>7, <2>2, <2>3
  <1>8. ASSUME HeldOnce, ToldOnce, \A b \in Buffers : ~ (Held(b) /\ Told(b)) PROVE ToldOnce'
    <2>1. ASSUME NEW k \in DOMAIN events', NEW l \in DOMAIN events', k < l, events'[k] = events'[l],
                 events'[k].op = "release"
          PROVE  FALSE
      <3>1. CASE k \notin DOMAIN events
        <4>1. PICK a, b \in DOMAIN held : a < b /\ events'[k] = Release(held[a].buf)
                                               /\ events'[l] = Release(held[b].buf)
          BY <1>1, <2>1, <3>1
        <4>2. held[a].buf = held[b].buf
          BY <2>1, <4>1, TellApart
        <4> QED
          BY <1>8, <1>i, <4>1, <4>2 DEF HeldOnce
      <3>2. CASE k \in DOMAIN events /\ l \in DOMAIN events
        <4>1. events[k] = events[l] /\ events[k].op = "release"
          BY <1>1, <2>1, <3>2
        <4>2. k = l
          BY <1>8, <3>2, <4>1 DEF ToldOnce
        <4> QED
          BY <1>i, <2>1, <4>2
      <3>3. CASE k \in DOMAIN events /\ l \notin DOMAIN events
        <4>1. PICK a \in DOMAIN held : events'[l] = Release(held[a].buf)
          BY <1>1, <3>3
        <4>2. Held(held[a].buf) /\ Told(held[a].buf)
          BY <1>1, <2>1, <3>3, <4>1 DEF Held, Told
        <4> QED
          BY <1>8, <1>i, <4>2
      <3> QED
        BY <3>1, <3>2, <3>3
    <2> SUFFICES ASSUME NEW i \in DOMAIN events', NEW j \in DOMAIN events',
                        events'[i].op = "release", events'[i] = events'[j]
                 PROVE  i = j
      BY DEF ToldOnce
    <2>2. ~ i < j /\ ~ j < i
      BY <2>1
    <2> QED
      BY <1>i, <2>2
  <1>9. \A b : Told(b)' => Told(b) \/ Held(b)
    BY <1>3 DEF Held
  <1> QED
    BY <1>2, <1>4, <1>5, <1>6, <1>7, <1>8, <1>9

\* direct_buffer_destroyed leaves the places of other buffers.
LEMMA ForgetPlaces ==
  ASSUME TypeOK, NEW bs, Forget(bs)
  PROVE  /\ \A b : Held(b)' <=> Held(b) /\ b \notin bs
         /\ \A b : Told(b)' <=> Told(b)
         /\ HeldOnce => HeldOnce'
         /\ ToldOnce => ToldOnce'
  <1>1. /\ held' \in Seq(DirectFrames)
        /\ \A i \in DOMAIN held' : \E a \in DOMAIN held : held'[i] = held[a] /\ held[a].buf \notin bs
        /\ \A i, j \in DOMAIN held' : i < j =>
               \E a, b \in DOMAIN held : a < b /\ held'[i] = held[a] /\ held'[j] = held[b]
        /\ \A a \in DOMAIN held : held[a].buf \notin bs => \E i \in DOMAIN held' : held'[i] = held[a]
        /\ events' = events
    BY ForgetFacts
  <1>2. \A b : Held(b)' <=> Held(b) /\ b \notin bs
    BY <1>1 DEF Held
  <1>3. ASSUME HeldOnce PROVE HeldOnce'
    <2> SUFFICES ASSUME NEW i \in DOMAIN held', NEW j \in DOMAIN held', held'[i].buf = held'[j].buf
                 PROVE  i = j
      BY DEF HeldOnce
    <2>i. i \in Int /\ j \in Int
      BY <1>1
    <2>1. ASSUME NEW k \in DOMAIN held', NEW l \in DOMAIN held', k < l, held'[k].buf = held'[l].buf
          PROVE  FALSE
      <3>1. PICK a, b \in DOMAIN held : a < b /\ held'[k] = held[a] /\ held'[l] = held[b]
        BY <1>1, <2>1
      <3> QED
        BY <1>3, <2>1, <3>1, NumberFacts DEF HeldOnce
    <2>2. ~ i < j /\ ~ j < i
      BY <2>1
    <2> QED
      BY <2>i, <2>2
  <1> QED
    BY <1>1, <1>2, <1>3 DEF Told, ToldOnce

\* None is on no list.
LEMMA NoneNowhere ==
  ASSUME TypeOK
  PROVE  ~ Held(None) /\ ~ Told(None)
  <1>1. \A i \in DOMAIN held : held[i].buf # None
    BY NumberFacts, BufferFacts
  <1>2. \A e \in Events : e # Release(None)
    BY BufferFacts DEF Events, Release
  <1>3. \A i \in DOMAIN events : events[i] \in Events
    BY DEF TypeOK
  <1> QED
    BY <1>1, <1>2, <1>3 DEF Held, Told

\* surface_set_buffer puts the buffer it replaces on one of the lists.
LEMMA SetPlaces ==
  ASSUME TypeOK, NEW b \in Buffers \cup {None}, SetBuffer(b)
  PROVE  /\ current' = b
         /\ \/ /\ current \in {None, b}
               /\ (\A c : Held(c)' <=> Held(c)) /\ (\A c : Told(c)' <=> Told(c))
            \/ /\ current \in Buffers \ {b}
               /\ (\A c : Held(c)' <=> Held(c) \/ c = current) /\ (\A c : Told(c)' <=> Told(c))
            \/ /\ current \in Buffers \ {b}
               /\ (\A c : Held(c)' <=> Held(c)) /\ (\A c : Told(c)' <=> Told(c) \/ c = current)
         /\ HeldOnce /\ ~ Held(current) => HeldOnce'
         /\ ToldOnce /\ ~ Told(current) => ToldOnce'
  <1> DEFINE h == [buf |-> current, seq |-> direct_seq]
  <1>1. /\ current' = b
        /\ \/ current \in {None, b} /\ UNCHANGED <<held, events>>
           \/ current \in Buffers \ {b} /\ held' = Append(held, h) /\ h \in DirectFrames /\ UNCHANGED events
           \/ /\ current \in Buffers \ {b} /\ events' = Append(events, Release(current))
              /\ Release(current) \in Events /\ UNCHANGED held
    BY SetFacts
  <1>2. h.buf = current
    OBVIOUS
  <1> HIDE DEF h
  <1>3. CASE UNCHANGED <<held, events>> /\ current \in {None, b}
    BY <1>1, <1>3 DEF Held, Told, HeldOnce, ToldOnce
  <1>4. CASE current \in Buffers \ {b} /\ held' = Append(held, h) /\ h \in DirectFrames /\ UNCHANGED events
    <2>1. \A c : Told(c)' <=> Told(c)
      BY <1>4 DEF Told
    <2>2. ToldOnce => ToldOnce'
      BY <1>4 DEF ToldOnce
    <2>3. /\ \A c : Held(c)' <=> Held(c) \/ c = current
          /\ HeldOnce /\ ~ Held(current) => HeldOnce'
      BY <1>2, <1>4, HeldAppend
    <2> QED
      BY <1>1, <1>4, <2>1, <2>2, <2>3
  <1>5. CASE /\ current \in Buffers \ {b} /\ events' = Append(events, Release(current))
             /\ Release(current) \in Events /\ UNCHANGED held
    <2>1. \A c : Held(c)' <=> Held(c)
      BY <1>5 DEF Held
    <2>2. HeldOnce => HeldOnce'
      BY <1>5 DEF HeldOnce
    <2>3. /\ \A c : Told(c)' <=> Told(c) \/ c = current
          /\ ToldOnce /\ ~ Told(current) => ToldOnce'
      BY <1>5, ToldAppend, TellApart
    <2> QED
      BY <1>1, <1>5, <2>1, <2>2, <2>3
  <1> QED
    BY <1>1, <1>3, <1>4, <1>5

\* A busy buffer of the surface is accounted for.
Accounted ==
    ~ synced /\ pc # "gone" => \A b \in busy : Asked(b) \/ current = b \/ Held(b) \/ Told(b)

\* This is what BusyAccounted says,
LEMMA AccountedFacts ==
  ASSUME TypeOK
  PROVE  BusyAccounted => Accounted
  <1> SUFFICES ASSUME BusyAccounted, ~ synced, pc # "gone", NEW b \in busy
               PROVE  Asked(b) \/ current = b \/ Held(b) \/ Told(b)
    BY DEF Accounted
  <1>0. b \in Buffers /\ requests \in Seq(Requests) /\ events \in Seq(Events)
    BY DEF TypeOK
  <1>1. CASE b \in Requested("frame")
    <2>1. PICK i \in DOMAIN requests : requests[i].op = "frame" /\ b \in requests[i].bufs
      BY <1>1 DEF Requested, Range
    <2>2. requests[i] \in Requests
      BY <1>0, <2>1
    <2>3. requests[i] = Request("frame", {b})
      BY <2>1, <2>2 DEF Requests, Request
    <2> QED
      BY <2>3 DEF Asked
  <1>2. CASE b \in {h.buf : h \in Range(held)}
    BY <1>2 DEF Held, Range
  <1>3. CASE b \in {e.buf : e \in Range(events)}
    <2>1. PICK i \in DOMAIN events : events[i].buf = b
      BY <1>3 DEF Range
    <2>2. events[i] \in Events
      BY <1>0, <2>1
    <2>3. events[i] = Release(b)
      BY <1>0, <2>1, <2>2, BufferFacts DEF Events, Release
    <2> QED
      BY <2>3 DEF Told
  <1> QED
    BY <1>1, <1>2, <1>3 DEF BusyAccounted

\* now and in the next state.
LEMMA AccountedNext == Accounted' => BusyAccounted'
  <1> SUFFICES ASSUME Accounted', ~ synced', pc' # "gone", NEW b \in busy'
               PROVE  b \in (Requested("frame") \cup {current} \cup {h.buf : h \in Range(held)}
                             \cup {e.buf : e \in Range(events)})'
    BY DEF BusyAccounted
  <1>1. Asked(b)' => b \in Requested("frame")'
    BY DEF Asked, Requested, Range, Request
  <1>2. Held(b)' => b \in {h.buf : h \in Range(held)}'
    BY DEF Held, Range
  <1>3. Told(b)' => b \in {e.buf : e \in Range(events)}'
    BY DEF Told, Range, Release
  <1> QED
    BY <1>1, <1>2, <1>3 DEF Accounted

\* The client's steps keep every busy buffer accounted for, and every committed
\* one in its place.
LEMMA ShimPlaces ==
  ASSUME TypeOK, ChainInv, SyncInv, Accounted, ~ expired /\ pc # "gone" => PlaceInv, ShimStep
  PROVE  Accounted' /\ (~ expired' /\ pc' # "gone" => PlaceInv')
  <1> USE DEF server
  <1>0. UNCHANGED <<held, pending, current, synced>> /\ busy \subseteq Buffers
    BY DEF ShimStep, SwapBuffers, NextBuffer, BudgetExpires, DispatchEvent, MakeCurrent,
       DestroySurface, TypeOK
  <1>h. (\A b : Held(b)' <=> Held(b)) /\ (HeldOnce => HeldOnce')
    BY <1>0 DEF Held, HeldOnce
  <1>1. CASE SwapBuffers
    <2>1. /\ pc = "draw" /\ pc' = "wait" /\ busy' = busy \cup {Drawn} /\ UNCHANGED <<events, expired>>
          /\ requests' = Append(requests, Request("frame", {Drawn}))
          /\ Drawn \in Buffers /\ Request("frame", {Drawn}) \in Requests
      BY <1>1, DrawnFacts DEF SwapBuffers
    <2> DEFINE d == Drawn
    <2> HIDE DEF d
    <2>d. d = Drawn /\ requests' = Append(requests, Request("frame", {d})) /\ Request("frame", {d}) \in Requests
      BY <2>1 DEF d
    <2>2. /\ \A b : Asked(b)' <=> Asked(b) \/ Request("frame", {d}) = Request("frame", {b})
          /\ AskedOnce /\ (\A b : Request("frame", {d}) = Request("frame", {b}) => ~ Asked(b)) => AskedOnce'
      BY <2>d, AskedAppend
    <2>3. (\A b : Asked(b)' <=> Asked(b) \/ b = d) /\ (AskedOnce /\ ~ Asked(d) => AskedOnce')
      BY <2>2, TellApart
    <2>4. (\A b : Told(b)' <=> Told(b)) /\ (ToldOnce => ToldOnce')
      BY <2>1 DEF Told, ToldOnce
    <2>5. Accounted'
      BY <1>0, <1>h, <2>1, <2>d, <2>3, <2>4 DEF Accounted
    <2>6. ASSUME ~ expired PROVE PlaceInv'
      <3>0. PlaceInv /\ d \notin busy /\ d \in Buffers
        BY <2>1, <2>d, <2>6 DEF PlaceInv
      <3>1. ~ Asked(d) /\ pending.buf # d /\ current # d /\ ~ Held(d) /\ ~ Told(d)
        BY <3>0 DEF PlaceInv, Alone
      <3>2. ASSUME NEW b \in Buffers PROVE Alone(b)'
        <4>1. Alone(b)
          BY <3>0 DEF PlaceInv
        <4> QED
          BY <1>0, <1>h, <2>1, <2>d, <2>3, <2>4, <3>1, <4>1 DEF Alone
      <3>3. AskedOnce' /\ HeldOnce' /\ ToldOnce'
        BY <1>h, <2>3, <2>4, <3>0, <3>1 DEF PlaceInv
      <3> QED
        BY <2>1, <3>2, <3>3, BufferFacts DEF PlaceInv
    <2> QED
      BY <2>1, <2>5, <2>6
  <1>2. CASE NextBuffer \/ BudgetExpires
    <2>1. UNCHANGED <<requests, events, busy, chain>> /\ pc = "wait" /\ pc' = "draw"
      BY <1>2 DEF NextBuffer, BudgetExpires, wire
    <2>2. /\ \A b : (Asked(b)' <=> Asked(b)) /\ (Told(b)' <=> Told(b))
          /\ (AskedOnce => AskedOnce') /\ (ToldOnce => ToldOnce')
      BY <2>1 DEF Asked, Told, AskedOnce, ToldOnce
    <2>3. Accounted'
      BY <1>0, <1>h, <2>1, <2>2 DEF Accounted
    <2>4. ASSUME ~ expired' PROVE PlaceInv'
      <3>1. NextBuffer /\ ~ expired
        BY <1>2, <2>4 DEF NextBuffer, BudgetExpires
      <3>2. <<chain, cur'>> \notin busy
        <4>1. Min(FreeOffsets) \in FreeOffsets
          BY <3>1, FreeFacts DEF NextBuffer
        <4>2. <<chain, (cur + 1 + Min(FreeOffsets)) % NBuf>> \notin busy
          BY <4>1 DEF FreeOffsets
        <4> QED
          BY <3>1, <4>2 DEF NextBuffer
      <3>3. Drawn' \notin busy'
        BY <2>1, <3>2 DEF Drawn
      <3>4. PlaceInv
        BY <2>1, <3>1
      <3>5. ASSUME NEW b \in Buffers PROVE Alone(b)'
        <4>1. Alone(b)
          BY <3>4 DEF PlaceInv
        <4> QED
          BY <1>0, <1>h, <2>1, <2>2, <4>1 DEF Alone
      <3> QED
        BY <1>h, <2>2, <3>3, <3>4, <3>5, BufferFacts DEF PlaceInv
    <2> QED
      BY <2>3, <2>4
  <1>3. CASE DispatchEvent /\ Head(events).op = "release"
    <2>0. events # <<>> /\ events' = Tail(events) /\ pc \in {"wait", "sync"} /\ UNCHANGED expired
      BY <1>3 DEF DispatchEvent
    <2>1. PICK b \in Buffers : BufRelease(b) /\ events[1] = Release(b)
      BY <1>3, <2>0, EventFacts DEF DispatchEvent
    <2>2. Request("destroy", {b}) \in Requests /\ \A c : Request("destroy", {b}) # Request("frame", {c})
      BY <2>1 DEF Request, Requests
    <2>3. busy' = busy \ {b} /\ UNCHANGED <<pc, chain, cur>>
      BY <2>0, <2>1 DEF BufRelease, ChainInv
    <2>4. (\A c : Asked(c)' <=> Asked(c)) /\ (AskedOnce => AskedOnce')
      <3>1. CASE b \in retired
        <4>1. requests' = Append(requests, Request("destroy", {b}))
          BY <2>1, <3>1 DEF BufRelease
        <4> QED
          BY <2>2, <4>1, AskedAppend
      <3>2. CASE b \notin retired
        BY <2>1, <3>2 DEF BufRelease, Asked, AskedOnce
      <3> QED
        BY <3>1, <3>2
    <2>5. /\ \A c : Told(c)' => Told(c)
          /\ \A c : Told(c) /\ c # b => Told(c)'
          /\ ToldOnce => ToldOnce' /\ Told(b) /\ ~ Told(b)'
      BY <2>0, <2>1, ToldTail, TellApart
    <2>6. Accounted'
      BY <1>0, <1>h, <2>0, <2>3, <2>4, <2>5 DEF Accounted
    <2>7. ASSUME ~ expired PROVE PlaceInv'
      <3>0. PlaceInv
        BY <2>0, <2>7
      <3>1. ToldOnce' /\ Told(b) /\ ~ Told(b)'
        BY <2>5, <3>0 DEF PlaceInv
      <3>2. ASSUME NEW c \in Buffers PROVE Alone(c)'
        <4>1. Alone(c)
          BY <3>0 DEF PlaceInv
        <4>2. CASE c = b
          BY <1>0, <1>h, <2>4, <3>1, <4>1, <4>2 DEF Alone
        <4>3. CASE c # b
          BY <1>0, <1>h, <2>3, <2>4, <2>5, <4>1, <4>3 DEF Alone
        <4> QED
          BY <4>2, <4>3
      <3>3. pc' # "draw"
        BY <2>0, <2>3
      <3> QED
        BY <1>h, <2>4, <3>0, <3>1, <3>2, <3>3, BufferFacts DEF PlaceInv
    <2> QED
      BY <2>0, <2>6, <2>7
  <1>4. CASE DispatchEvent /\ Head(events).op # "release"
    <2> DEFINE freed == Chain(chain) \ busy
    <2>0. events # <<>> /\ events' = Tail(events) /\ pc # "gone" /\ UNCHANGED expired /\ Replace(freed)
      BY <1>4 DEF DispatchEvent, AllocationDone
    <2>1. \A b : events[1] # Release(b)
      BY <1>4, <2>0, EventFacts, TellApart
    <2>2. chain \in 0..MaxResize /\ Chain(chain) \subseteq Buffers
      BY BufferFacts DEF TypeOK
    <2>3. Request("destroy", freed) \in Requests /\ \A c : Request("destroy", freed) # Request("frame", {c})
      BY <2>2 DEF Request, Requests
    <2> HIDE DEF freed
    <2>4. UNCHANGED busy /\ chain' = chain + 1 /\ cur' = 0 /\ pc' = "draw"
      BY <2>0 DEF Replace
    <2>5. (\A c : Asked(c)' <=> Asked(c)) /\ (AskedOnce => AskedOnce')
      <3>1. CASE freed # {}
        <4>1. requests' = Append(requests, Request("destroy", freed))
          BY <2>0, <3>1 DEF Replace
        <4> QED
          BY <2>3, <4>1, AskedAppend
      <3>2. CASE freed = {}
        BY <2>0, <3>2 DEF Replace, Asked, AskedOnce
      <3> QED
        BY <3>1, <3>2
    <2>6. (\A c : Told(c)' <=> Told(c)) /\ (ToldOnce => ToldOnce')
      BY <2>0, <2>1, ToldTail
    <2>7. Accounted'
      BY <1>0, <1>h, <2>0, <2>4, <2>5, <2>6 DEF Accounted
    <2>8. ASSUME ~ expired PROVE PlaceInv'
      <3>0. PlaceInv
        BY <2>0, <2>8
      <3>1. ASSUME NEW c \in Buffers PROVE Alone(c)'
        <4>1. Alone(c)
          BY <3>0 DEF PlaceInv
        <4> QED
          BY <1>0, <1>h, <2>4, <2>5, <2>6, <4>1 DEF Alone
      <3>2. Drawn' \notin busy'
        <4>1. ASSUME NEW c \in busy PROVE c[1] \in Int /\ c[1] <= chain
          <5>1. c \in Buffers /\ c \in Chain(chain) \cup retired
            BY <1>0, <2>0 DEF ChainInv
          <5>2. c[1] \in Int /\ chain \in Int
            BY <2>2, <5>1, BufferFacts, BoundsAreNaturals
          <5> QED
            BY <2>0, <5>1, <5>2, BufferFacts DEF ChainInv
        <4>2. Drawn'[1] = chain + 1
          BY <2>4 DEF Drawn
        <4>3. chain \in Int
          BY <2>2, BoundsAreNaturals
        <4> QED
          BY <2>4, <4>1, <4>2, <4>3
      <3> QED
        BY <1>h, <2>5, <2>6, <3>0, <3>1, <3>2, BufferFacts DEF PlaceInv
    <2> QED
      BY <2>0, <2>7, <2>8
  <1>5. CASE MakeCurrent
    <2>1. Request("sync", {}) \in Requests /\ \A c : Request("sync", {}) # Request("frame", {c})
      BY DEF Request, Requests
    <2>2. /\ requests' = Append(requests, Request("sync", {}))
          /\ UNCHANGED <<events, busy, chain, expired>> /\ pc = "draw" /\ pc' = "sync"
      BY <1>5 DEF MakeCurrent
    <2>3. (\A c : Asked(c)' <=> Asked(c)) /\ (AskedOnce => AskedOnce')
      BY <2>1, <2>2, AskedAppend
    <2>4. (\A c : Told(c)' <=> Told(c)) /\ (ToldOnce => ToldOnce')
      BY <2>2 DEF Told, ToldOnce
    <2>5. Accounted'
      BY <1>0, <1>h, <2>2, <2>3, <2>4 DEF Accounted
    <2>6. ASSUME ~ expired PROVE PlaceInv'
      <3>0. PlaceInv
        BY <2>2, <2>6
      <3>1. ASSUME NEW c \in Buffers PROVE Alone(c)'
        <4>1. Alone(c)
          BY <3>0 DEF PlaceInv
        <4> QED
          BY <1>0, <1>h, <2>2, <2>3, <2>4, <4>1 DEF Alone
      <3> QED
        BY <1>h, <2>2, <2>3, <2>4, <3>0, <3>1, BufferFacts DEF PlaceInv
    <2> QED
      BY <2>2, <2>5, <2>6
  <1>6. CASE DestroySurface
    BY <1>6 DEF DestroySurface, Accounted
  <1> QED
    BY <1>1, <1>2, <1>3, <1>4, <1>5, <1>6 DEF ShimStep

\* Handling a request keeps every busy buffer accounted for, and every committed
\* one in its place.
LEMMA RequestPlaces ==
  ASSUME TypeOK, ChainInv, Accounted, ~ expired /\ pc # "gone" => PlaceInv, HandleRequest
  PROVE  Accounted' /\ (~ expired' /\ pc' # "gone" => PlaceInv')
  <1> DEFINE r == Head(requests)
  <1>0. /\ UNCHANGED <<pc, chain, cur, busy, expired, synced>>
        /\ requests # <<>> /\ requests' = Tail(requests) /\ requests[1] = r /\ 1 \in DOMAIN requests
        /\ r.bufs \subseteq Buffers /\ busy \subseteq Buffers
        /\ r.op \in {"frame", "destroy", "surface", "sync"}
    BY HandleFacts, RequestFacts DEF TypeOK
  <1>d. pc' = "draw" /\ pc = "draw" => Drawn' = Drawn
    BY <1>0 DEF Drawn
  <1>1. CASE pc = "gone"
    BY <1>0, <1>1 DEF Accounted
  <1>2. ASSUME pc # "gone", NEW b \in r.bufs, HandleFrame(b), r.op = "frame"
        PROVE  Accounted' /\ (~ expired' => PlaceInv')
    <2>0. b \in Buffers /\ requests[1] = Request("frame", {b}) /\ b # None
      BY <1>0, <1>2, RequestFacts, BufferFacts
    <2> HIDE DEF r
    <2>1. /\ \A c : Asked(c)' => Asked(c)
          /\ \A c : Asked(c) /\ c # b => Asked(c)'
          /\ AskedOnce => AskedOnce' /\ Asked(b) /\ ~ Asked(b)'
      BY <1>0, <2>0, AskedTail, TellApart
    <2>2. CASE synced
      <3>1. UNCHANGED <<current, held, events>> /\ pending' = [buf |-> b, cached |-> TRUE]
        BY <1>2, <2>2 DEF HandleFrame
      <3>2. /\ \A c : (Held(c)' <=> Held(c)) /\ (Told(c)' <=> Told(c))
            /\ (HeldOnce => HeldOnce') /\ (ToldOnce => ToldOnce')
        BY <3>1 DEF Held, Told, HeldOnce, ToldOnce
      <3>3. Accounted'
        BY <1>0, <2>2 DEF Accounted
      <3>4. ASSUME ~ expired PROVE PlaceInv'
        <4>0. PlaceInv
          BY <1>2, <3>4
        <4>1. Asked(b) /\ ~ Asked(b)' /\ AskedOnce' /\ Alone(b)
          BY <2>0, <2>1, <4>0 DEF PlaceInv
        <4>2. ASSUME NEW c \in Buffers PROVE Alone(c)'
          <5>1. Alone(c)
            BY <4>0 DEF PlaceInv
          <5>2. CASE c = b
            BY <1>0, <2>1, <3>1, <3>2, <4>1, <5>2 DEF Alone
          <5>3. CASE c # b
            BY <1>0, <2>1, <3>1, <3>2, <5>1, <5>3 DEF Alone
          <5> QED
            BY <5>2, <5>3
        <4> QED
          BY <1>0, <1>d, <3>2, <4>0, <4>1, <4>2, BufferFacts DEF PlaceInv
      <3> QED
        BY <1>0, <3>3, <3>4
    <2>3. CASE ~ synced
      <3>1. SetBuffer(b) /\ UNCHANGED pending
        BY <1>2, <2>3 DEF HandleFrame
      <3>2. /\ current' = b
            /\ \/ /\ current \in {None, b}
                  /\ (\A c : Held(c)' <=> Held(c)) /\ (\A c : Told(c)' <=> Told(c))
               \/ /\ current \in Buffers \ {b}
                  /\ (\A c : Held(c)' <=> Held(c) \/ c = current) /\ (\A c : Told(c)' <=> Told(c))
               \/ /\ current \in Buffers \ {b}
                  /\ (\A c : Held(c)' <=> Held(c)) /\ (\A c : Told(c)' <=> Told(c) \/ c = current)
            /\ HeldOnce /\ ~ Held(current) => HeldOnce'
            /\ ToldOnce /\ ~ Told(current) => ToldOnce'
        BY <2>0, <3>1, SetPlaces
      <3>3. Accounted'
        <4>1. ASSUME NEW c \in busy PROVE Asked(c)' \/ current' = c \/ Held(c)' \/ Told(c)'
          <5>1. Asked(c) \/ current = c \/ Held(c) \/ Told(c)
            BY <1>2, <2>3, <4>1 DEF Accounted
          <5>2. c # None
            BY <1>0, <4>1, BufferFacts
          <5> QED
            BY <2>1, <3>2, <5>1, <5>2
        <4> QED
          BY <1>0, <4>1 DEF Accounted
      <3>4. ASSUME ~ expired PROVE PlaceInv'
        <4>0. PlaceInv
          BY <1>2, <3>4
        <4>1. Asked(b) /\ ~ Asked(b)' /\ AskedOnce' /\ Alone(b)
          BY <2>0, <2>1, <4>0 DEF PlaceInv
        <4>2. ASSUME NEW c \in Buffers PROVE Alone(c)'
          <5>1. Alone(c)
            BY <4>0 DEF PlaceInv
          <5>2. CASE c = b
            <6>1. current # b /\ pending.buf # b /\ ~ Held(b) /\ ~ Told(b) /\ b \in busy
              BY <4>1 DEF Alone
            <6>2. ~ Held(b)' /\ ~ Told(b)'
              BY <3>2, <6>1
            <6> QED
              BY <1>0, <3>1, <3>2, <4>1, <5>2, <6>1, <6>2 DEF Alone
          <5>3. CASE c # b
            <6>1. CASE c = current
              <7>1. ~ Asked(c) /\ pending.buf # c /\ ~ Held(c) /\ ~ Told(c) /\ c \in busy
                BY <5>1, <6>1 DEF Alone
              <7>2. ~ (Held(c)' /\ Told(c)') /\ ~ Asked(c)'
                BY <2>1, <3>2, <7>1
              <7> QED
                BY <1>0, <3>1, <3>2, <5>3, <7>1, <7>2 DEF Alone
            <6>2. CASE c # current
              <7>1. (Held(c)' <=> Held(c)) /\ (Told(c)' <=> Told(c)) /\ (Asked(c)' => Asked(c))
                BY <2>1, <3>2, <6>2
              <7> QED
                BY <1>0, <3>1, <3>2, <5>1, <5>3, <7>1 DEF Alone
            <6> QED
              BY <6>1, <6>2
          <5> QED
            BY <5>2, <5>3
        <4>3. HeldOnce' /\ ToldOnce'
          <5>1. CASE current \in Buffers
            <6>1. Alone(current)
              BY <4>0, <5>1 DEF PlaceInv
            <6> QED
              BY <3>2, <4>0, <6>1 DEF PlaceInv, Alone
          <5>2. CASE current = None
            <6>1. ~ Held(None) /\ ~ Told(None)
              BY NoneNowhere
            <6> QED
              BY <3>2, <4>0, <5>2, <6>1 DEF PlaceInv
          <5> QED
            BY <5>1, <5>2 DEF TypeOK
        <4> QED
          BY <1>0, <1>d, <4>0, <4>1, <4>2, <4>3, BufferFacts DEF PlaceInv
      <3> QED
        BY <1>0, <3>3, <3>4
    <2> QED
      BY <2>2, <2>3 DEF TypeOK
  <1>3. ASSUME pc # "gone", r.op = "destroy", HandleDestroy(r.bufs)
        PROVE  Accounted' /\ (~ expired' => PlaceInv')
    <2>0. \A b \in r.bufs : b \notin busy
      BY <1>0, <1>3 DEF ChainInv
    <2>1. \A b : requests[1] # Request("frame", {b})
      BY <1>0, <1>3, TellApart
    <2>2. (\A c : Asked(c)' <=> Asked(c)) /\ (AskedOnce => AskedOnce')
      BY <1>0, <2>1, AskedTail
    <2>3. PICK bs \in SUBSET Buffers : bs = r.bufs
      BY <1>0
    <2> HIDE DEF r
    <2>4. /\ Forget(bs) /\ current' = (IF current \in bs THEN None ELSE current)
          /\ pending' = IF pending.buf \in bs THEN [pending EXCEPT !.buf = None] ELSE pending
      BY <1>3, <2>3 DEF HandleDestroy
    <2>5. /\ \A c : Held(c)' <=> Held(c) /\ c \notin bs
          /\ \A c : Told(c)' <=> Told(c)
          /\ HeldOnce => HeldOnce'
          /\ ToldOnce => ToldOnce'
      BY <2>4, ForgetPlaces
    <2>6. Accounted'
      BY <1>0, <1>3, <2>0, <2>2, <2>3, <2>4, <2>5 DEF Accounted
    <2>7. ASSUME ~ expired PROVE PlaceInv'
      <3>0. PlaceInv
        BY <1>3, <2>7
      <3>1. pending'.buf \in {None, pending.buf}
        BY <2>4 DEF TypeOK
      <3>2. ASSUME NEW c \in Buffers PROVE Alone(c)'
        <4>1. Alone(c) /\ c # None
          BY <3>0, BufferFacts DEF PlaceInv
        <4> QED
          BY <1>0, <2>2, <2>4, <2>5, <3>1, <4>1 DEF Alone
      <3> QED
        BY <1>0, <1>d, <2>2, <2>5, <3>0, <3>2, BufferFacts DEF PlaceInv
    <2> QED
      BY <1>0, <2>6, <2>7
  <1>4. ASSUME pc # "gone", r.op = "sync", HandleSync
        PROVE  Accounted' /\ (~ expired' => PlaceInv')
    <2> DEFINE e == [op |-> "done", buf |-> None]
    <2>1. \A b : requests[1] # Request("frame", {b})
      BY <1>0, <1>4, TellApart
    <2>2. (\A c : Asked(c)' <=> Asked(c)) /\ (AskedOnce => AskedOnce')
      BY <1>0, <2>1, AskedTail
    <2> HIDE DEF r
    <2>3. e \in Events /\ (\A b : e # Release(b)) /\ events' = Append(events, e) /\ UNCHANGED <<held, current, pending>>
      BY <1>4 DEF HandleSync, Events, Release
    <2> HIDE DEF e
    <2>4. (\A c : Told(c)' <=> Told(c)) /\ (ToldOnce => ToldOnce')
      BY <2>3, ToldAppend
    <2>5. (\A c : Held(c)' <=> Held(c)) /\ (HeldOnce => HeldOnce')
      BY <2>3 DEF Held, HeldOnce
    <2>6. Accounted'
      BY <1>0, <2>2, <2>3, <2>4, <2>5 DEF Accounted
    <2>7. ASSUME ~ expired PROVE PlaceInv'
      <3>0. PlaceInv
        BY <1>4, <2>7
      <3>2. ASSUME NEW c \in Buffers PROVE Alone(c)'
        <4>1. Alone(c)
          BY <3>0 DEF PlaceInv
        <4> QED
          BY <1>0, <2>2, <2>3, <2>4, <2>5, <4>1 DEF Alone
      <3> QED
        BY <1>0, <1>d, <2>2, <2>4, <2>5, <3>0, <3>2, BufferFacts DEF PlaceInv
    <2> QED
      BY <1>0, <2>6, <2>7
  <1>5. pc # "gone" => r.op # "surface"
    BY <1>0 DEF ChainInv
  <1> QED
    BY <1>0, <1>1, <1>2, <1>3, <1>4, <1>5 DEF HandleRequest

\* The other steps keep both.
LEMMA ElsewherePlaces ==
  ASSUME TypeOK, Accounted, ~ expired /\ pc # "gone" => PlaceInv, Elsewhere
  PROVE  Accounted' /\ (~ expired' /\ pc' # "gone" => PlaceInv')
  <1> USE DEF server, wire, shim
  <1>0. UNCHANGED <<pc, chain, cur, busy, expired, requests, synced>> /\ busy \subseteq Buffers
    BY ElsewhereFacts DEF TypeOK
  <1>d. Drawn' = Drawn
    BY <1>0 DEF Drawn
  <1>a. (\A c : Asked(c)' <=> Asked(c)) /\ (AskedOnce => AskedOnce')
    BY <1>0 DEF Asked, AskedOnce
  <1>1. CASE UNCHANGED <<held, events, current, pending>>
    <2>1. /\ \A c : (Held(c)' <=> Held(c)) /\ (Told(c)' <=> Told(c))
          /\ (HeldOnce => HeldOnce') /\ (ToldOnce => ToldOnce')
      BY <1>1 DEF Held, Told, HeldOnce, ToldOnce
    <2>2. Accounted'
      BY <1>0, <1>1, <1>a, <2>1 DEF Accounted
    <2>3. ASSUME PlaceInv PROVE PlaceInv'
      <3>1. ASSUME NEW c \in Buffers PROVE Alone(c)'
        <4>1. Alone(c)
          BY <2>3 DEF PlaceInv
        <4> QED
          BY <1>0, <1>1, <1>a, <2>1, <4>1 DEF Alone
      <3> QED
        BY <1>0, <1>d, <1>a, <2>1, <2>3, <3>1, BufferFacts DEF PlaceInv
    <2> QED
      BY <1>0, <2>2, <2>3
  <1>2. CASE ReleaseDirect(events) /\ UNCHANGED <<current, pending>>
    <2>1. /\ \A b : Held(b)' => Held(b)
          /\ \A b : Told(b)' => Told(b) \/ Held(b)
          /\ \A b : Told(b) => Told(b)'
          /\ \A b : Held(b) => Held(b)' \/ Told(b)'
          /\ HeldOnce => HeldOnce'
          /\ HeldOnce => \A b : Held(b) /\ Held(b)' => Told(b) \/ ~ Told(b)'
          /\ HeldOnce /\ ToldOnce /\ (\A b \in Buffers : ~ (Held(b) /\ Told(b))) => ToldOnce'
      BY <1>2, ReleasePlaces
    <2>2. Accounted'
      BY <1>0, <1>2, <1>a, <2>1 DEF Accounted
    <2>3. ASSUME PlaceInv PROVE PlaceInv'
      <3>0. HeldOnce /\ ToldOnce /\ AskedOnce
        BY <2>3 DEF PlaceInv
      <3>1. ASSUME NEW c \in Buffers PROVE Alone(c)' /\ ~ (Held(c) /\ Told(c))
        <4>1. Alone(c)
          BY <2>3 DEF PlaceInv
        <4> QED
          BY <1>0, <1>2, <1>a, <2>1, <3>0, <4>1 DEF Alone
      <3>2. HeldOnce' /\ ToldOnce' /\ AskedOnce'
        BY <1>a, <2>1, <3>0, <3>1
      <3> QED
        BY <1>0, <1>d, <2>3, <3>1, <3>2, BufferFacts DEF PlaceInv
    <2> QED
      BY <1>0, <2>2, <2>3
  <1>3. CASE ParentCommit
    <2> DEFINE b == pending.buf
    <2>1. /\ SetBuffer(b) /\ b \in Buffers \cup {None} /\ pending' = [buf |-> None, cached |-> FALSE]
          /\ current \in Buffers \cup {None}
      BY <1>3 DEF ParentCommit, TypeOK
    <2> HIDE DEF b
    <2>2. /\ current' = b
          /\ \/ /\ current \in {None, b}
                /\ (\A c : Held(c)' <=> Held(c)) /\ (\A c : Told(c)' <=> Told(c))
             \/ /\ current \in Buffers \ {b}
                /\ (\A c : Held(c)' <=> Held(c) \/ c = current) /\ (\A c : Told(c)' <=> Told(c))
             \/ /\ current \in Buffers \ {b}
                /\ (\A c : Held(c)' <=> Held(c)) /\ (\A c : Told(c)' <=> Told(c) \/ c = current)
          /\ HeldOnce /\ ~ Held(current) => HeldOnce'
          /\ ToldOnce /\ ~ Told(current) => ToldOnce'
      BY <2>1, SetPlaces
    <2>n. ~ Held(None) /\ ~ Told(None)
      BY NoneNowhere
    <2>3. Accounted'
      <3>1. ASSUME ~ synced, pc # "gone", NEW c \in busy
            PROVE  Asked(c)' \/ current' = c \/ Held(c)' \/ Told(c)'
        <4>1. Asked(c) \/ current = c \/ Held(c) \/ Told(c)
          BY <3>1 DEF Accounted
        <4>2. c # None
          BY <1>0, <3>1, BufferFacts
        <4> QED
          BY <1>a, <2>2, <4>1, <4>2
      <3> QED
        BY <1>0, <3>1 DEF Accounted
    <2>4. ASSUME PlaceInv PROVE PlaceInv'
      <3>1. ASSUME NEW c \in Buffers PROVE Alone(c)'
        <4>1. Alone(c) /\ c # None /\ pending'.buf = None /\ (pending.buf = c <=> b = c)
          BY <2>1, <2>4, BufferFacts DEF PlaceInv, b
        <4>2. CASE c = b
          <5>1. current # c /\ ~ Held(c) /\ ~ Told(c) /\ ~ Asked(c) /\ c \in busy
            BY <4>1, <4>2 DEF Alone
          <5>2. ~ Held(c)' /\ ~ Told(c)'
            BY <2>2, <5>1
          <5> QED
            BY <1>0, <1>a, <2>2, <4>1, <4>2, <5>1, <5>2 DEF Alone
        <4>3. CASE c # b /\ c = current
          <5>1. ~ Asked(c) /\ ~ Held(c) /\ ~ Told(c) /\ c \in busy
            BY <4>1, <4>3 DEF Alone
          <5>2. ~ (Held(c)' /\ Told(c)')
            BY <2>2, <5>1
          <5> QED
            BY <1>0, <1>a, <2>2, <4>1, <4>3, <5>1, <5>2 DEF Alone
        <4>4. CASE c # b /\ c # current
          <5>1. (Held(c)' <=> Held(c)) /\ (Told(c)' <=> Told(c))
            BY <2>2, <4>4
          <5> QED
            BY <1>0, <1>a, <2>2, <4>1, <4>4, <5>1 DEF Alone
        <4> QED
          BY <4>2, <4>3, <4>4
      <3>2. HeldOnce' /\ ToldOnce'
        <4>1. CASE current \in Buffers
          <5>1. Alone(current)
            BY <2>4, <4>1 DEF PlaceInv
          <5> QED
            BY <2>2, <2>4, <5>1 DEF PlaceInv, Alone
        <4>2. CASE current = None
          BY <2>2, <2>4, <2>n, <4>2 DEF PlaceInv
        <4> QED
          BY <2>1, <4>1, <4>2
      <3> QED
        BY <1>0, <1>d, <1>a, <2>4, <3>1, <3>2, BufferFacts DEF PlaceInv
    <2> QED
      BY <1>0, <2>3, <2>4
  <1>4. CASE RepaintComposite \/ RepaintDirect
    BY <1>1, <1>2, <1>4 DEF RepaintComposite, RepaintDirect, AfterPresent
  <1>5. ASSUME NEW k \in 1..MaxPaints, AckTimer(k)
        PROVE  ReleaseDirect(events) /\ UNCHANGED <<current, pending>>
    BY <1>5 DEF AckTimer
  <1>6. CASE ReadReply \/ AppStep \/ UNCHANGED vars
    BY <1>1, <1>6 DEF ReadReply, AppStep, AppDrain, AppPresented, AppDrop, AppAttach, vars
  <1> QED
    BY <1>2, <1>3, <1>4, <1>5, <1>6 DEF Elsewhere

-----------------------------------------------------------------------------
(* What the app may still show.                                            *)

\* surface_set_buffer keeps a buffer the app was sent current or held.
LEMMA SentSet ==
  ASSUME TypeOK, SentInv, NEW b \in Buffers \cup {None}, SetBuffer(b),
         current = b => b = None,
         UNCHANGED <<shown, dirty, released, replies>>, fenced' \subseteq fenced \cup {b}
  PROVE  SentInv'
  <1>s. \A f : Sent(f)' <=> Sent(f)
    BY DEF Sent
  <1> DEFINE h == [buf |-> current, seq |-> direct_seq]
  <1>1. /\ current' = b /\ direct_seq' = (IF current = b THEN direct_seq ELSE 0)
        /\ \/ current \in {None, b} /\ UNCHANGED <<held, events>>
           \/ /\ current \in Buffers \ {b} /\ direct_seq # 0 /\ released[current] < direct_seq
              /\ held' = Append(held, h) /\ h \in DirectFrames
           \/ /\ current \in Buffers \ {b}
              /\ direct_seq = 0 \/ released[current] >= direct_seq
              /\ UNCHANGED held
    BY SetFacts
  <1>2. b # None => direct_seq' = 0
    BY <1>1
  <1>h. h.buf = current /\ h.seq = direct_seq /\ \A f \in Frames : f.buf = current /\ f.seq = direct_seq => f = h
    BY DEF Frames
  <1> HIDE DEF h
  <1>3. ASSUME NEW f, Sent(f), f.buf # None PROVE \E i \in DOMAIN held' : held'[i] = f
    <2>1. /\ f \in Frames /\ f.buf \in Buffers /\ f.seq \in Nat /\ f.seq >= 1
          /\ released[f.buf] < f.seq
          /\ \/ f.buf = current /\ f.seq = direct_seq
             \/ \E i \in DOMAIN held : held[i] = f
      BY <1>3, SentFacts DEF SentInv
    <2>2. CASE \E i \in DOMAIN held : held[i] = f
      <3>1. CASE held' = held
        BY <2>2, <3>1
      <3>2. CASE held' = Append(held, h) /\ h \in DirectFrames
        BY <2>2, <3>2, HeldAppend
      <3> QED
        BY <1>1, <3>1, <3>2
    <2>3. CASE f.buf = current /\ f.seq = direct_seq
      <3>1. current # None /\ direct_seq # 0 /\ ~ released[current] >= direct_seq
        BY <1>3, <2>1, <2>3, NumberFacts
      <3>2. f = h /\ held' = Append(held, h) /\ h \in DirectFrames
        BY <1>1, <1>h, <2>1, <2>3, <3>1
      <3> QED
        BY <3>2, HeldAppend
    <2> QED
      BY <2>1, <2>2, <2>3
  <1>4. current' # None /\ current' \in fenced' => direct_seq' = 0
    BY <1>1, <1>2
  <1>5. \A f : Sent(f)' /\ f.buf # None =>
           /\ released'[f.buf] < f.seq
           /\ \/ f.buf = current' /\ f.seq = direct_seq'
              \/ \E i \in DOMAIN held' : held'[i] = f
    BY <1>s, <1>3 DEF SentInv
  <1>6. \A i \in DOMAIN replies' : \A f :
           replies'[i].op = "released" /\ Sent(f)' /\ f.buf = replies'[i].buf => replies'[i].seq < f.seq
    BY <1>s DEF SentInv
  <1> QED
    BY <1>4, <1>5, <1>6 DEF SentInv

\* As long as no swap ran out of its budget, every step keeps it.
LEMMA SentStep ==
  ASSUME TypeOK, ChainInv, OrderInv, PlaceInv, SentInv, pc # "gone", [Next]_vars
  PROVE  SentInv'
  <1> USE DEF server, stream, viewer, wire
  <1> DEFINE Fence == current # None /\ current \in fenced => direct_seq = 0
             Placed == \A f : Sent(f) /\ f.buf # None =>
                          /\ released[f.buf] < f.seq
                          /\ \/ f.buf = current /\ f.seq = direct_seq
                             \/ \E i \in DOMAIN held : held[i] = f
             Older == \A i \in DOMAIN replies : \A f :
                          replies[i].op = "released" /\ Sent(f) /\ f.buf = replies[i].buf =>
                              replies[i].seq < f.seq
  <1>0. Fence /\ Placed /\ Older /\ (Fence' /\ Placed' /\ Older' => SentInv')
    BY DEF SentInv
  <1>e. UNCHANGED <<shown, dirty>> => \A f : Sent(f)' <=> Sent(f)
    BY DEF Sent
  <1>f. UNCHANGED <<current, fenced, direct_seq>> => Fence'
    BY <1>0
  <1>p. UNCHANGED <<released, current, direct_seq, held>> /\ (\A f : Sent(f)' => Sent(f)) => Placed'
    BY <1>0
  <1>o. UNCHANGED replies /\ (\A f : Sent(f)' => Sent(f)) => Older'
    BY <1>0
  <1> HIDE DEF Fence, Placed, Older
  <1>1. CASE UNCHANGED <<current, fenced, direct_seq, shown, dirty, released, held, replies>>
    BY <1>0, <1>1, <1>e, <1>f, <1>p, <1>o
  <1>2. ASSUME HandleRequest, NEW b \in Head(requests).bufs, HandleFrame(b), Head(requests).op = "frame"
        PROVE  SentInv'
    <2>1. b \in Buffers /\ requests[1] = Request("frame", {b}) /\ 1 \in DOMAIN requests
      BY <1>2, HandleFacts, RequestFacts
    <2>2. Asked(b)
      BY <2>1 DEF Asked
    <2>3. current # b
      BY <2>1, <2>2 DEF PlaceInv, Alone
    <2>4. UNCHANGED <<released, shown, dirty, replies>> /\ fenced' = fenced \cup {b}
      BY <1>2 DEF HandleRequest, HandleFrame
    <2>5. CASE synced
      <3>1. UNCHANGED <<current, direct_seq, held>>
        BY <1>2, <2>5 DEF HandleFrame
      <3>2. Fence'
        BY <1>0, <2>3, <2>4, <3>1 DEF Fence
      <3> QED
        BY <1>0, <1>e, <1>p, <1>o, <2>4, <3>1, <3>2
    <2>6. CASE ~ synced
      <3>1. SetBuffer(b)
        BY <1>2, <2>6 DEF HandleFrame
      <3> QED
        BY <2>1, <2>3, <2>4, <3>1, SentSet
    <2> QED
      BY <2>5, <2>6
  <1>3. ASSUME HandleRequest, HandleDestroy(Head(requests).bufs), Head(requests).op = "destroy"
        PROVE  SentInv'
    <2>1. Head(requests) = requests[1] /\ 1 \in DOMAIN requests /\ Head(requests).bufs \subseteq Buffers
      BY <1>3, HandleFacts, RequestFacts
    <2>2. PICK bs \in SUBSET Buffers : bs = Head(requests).bufs
      BY <2>1
    <2>3. \A b \in bs : b \notin busy
      BY <1>3, <2>1, <2>2 DEF ChainInv
    <2>4. \A b \in bs : current # b /\ ~ Held(b)
      BY <2>3 DEF PlaceInv, Alone
    <2>5. /\ Forget(bs) /\ UNCHANGED <<current, direct_seq, shown, dirty, replies>> /\ fenced' \subseteq fenced
      BY <1>3, <2>2, <2>4 DEF HandleDestroy, HandleRequest, Forget
    <2>6. /\ \A a \in DOMAIN held : held[a].buf \notin bs => \E i \in DOMAIN held' : held'[i] = held[a]
          /\ \A b \in Buffers : b \notin bs => released'[b] = released[b]
      BY <2>5, ForgetFacts
    <2>7. Fence'
      BY <1>0, <2>5 DEF Fence
    <2>8. Placed'
      <3> SUFFICES ASSUME NEW f, Sent(f), f.buf # None
                   PROVE  /\ released'[f.buf] < f.seq
                          /\ \/ f.buf = current /\ f.seq = direct_seq
                             \/ \E i \in DOMAIN held' : held'[i] = f
        BY <1>e, <2>5 DEF Placed
      <3>1. /\ released[f.buf] < f.seq /\ f.buf \in Buffers
            /\ \/ f.buf = current /\ f.seq = direct_seq
               \/ \E i \in DOMAIN held : held[i] = f
        BY <1>0, SentFacts DEF Placed
      <3>2. f.buf \notin bs
        BY <2>4, <3>1 DEF Held
      <3> QED
        BY <2>6, <3>1, <3>2
    <2> QED
      BY <1>0, <1>e, <1>o, <2>5, <2>7, <2>8
  <1>4. CASE HandleRequest
    <2>1. Head(requests).op # "surface"
      BY <1>4, HandleFacts, RequestFacts DEF ChainInv
    <2>2. CASE HandleSync
      BY <1>1, <1>4, <2>2 DEF HandleRequest, HandleSync
    <2> QED
      BY <1>2, <1>3, <1>4, <2>1, <2>2 DEF HandleRequest
  <1>5. CASE ParentCommit
    <2> DEFINE b == pending.buf
    <2>1. SetBuffer(b) /\ b \in Buffers \cup {None} /\ UNCHANGED <<released, shown, dirty, replies, fenced>>
      BY <1>5 DEF ParentCommit, TypeOK
    <2>2. current = b => b = None
      BY <2>1 DEF PlaceInv, Alone
    <2> HIDE DEF b
    <2> QED
      BY <2>1, <2>2, SentSet
  <1>6. CASE RepaintComposite
    <2> DEFINE g == [buf |-> None, seq |-> paints + 1]
    <2>1. paints + 1 \in Generations
      BY <1>6, PaintFacts DEF RepaintComposite
    <2>2. g \in Frames /\ g.buf = None
      BY <2>1 DEF Frames
    <2>3. /\ UNCHANGED <<shown, replies, current, direct_seq, released>> /\ fenced' = fenced \ {current}
          /\ dirty' = IF app THEN Append(dirty, g) ELSE dirty
      BY <1>6 DEF RepaintComposite
    <2> HIDE DEF g
    <2>4. \A f : Sent(f)' => Sent(f) \/ (app /\ f = g)
      BY <2>2, <2>3, SentPaint
    <2>5. Fence'
      BY <2>3 DEF Fence
    <2>6. Placed'
      <3>1. CASE app
        <4>1. UNCHANGED held
          BY <1>6, <3>1 DEF RepaintComposite, AfterPresent
        <4> QED
          BY <1>0, <2>2, <2>3, <2>4, <4>1 DEF Placed
      <3>2. CASE ~ app
        <4>1. \A f : Sent(f)' => f = NoFrame
          <5>1. DOMAIN dirty = {} /\ shown = NoFrame
            BY <3>2 DEF OrderInv, AbsentInv
          <5> QED
            BY <2>4, <3>2, <5>1 DEF Sent
        <4> QED
          BY <4>1 DEF Placed, NoFrame
      <3> QED
        BY <3>1, <3>2
    <2>7. Older'
      <3>1. \A i \in DOMAIN replies : replies[i].op = "released" => replies[i].buf # None
        <4>1. \A r \in Replies : r.op = "released" => r.buf # None
          BY BufferFacts DEF Replies
        <4> QED
          BY <4>1, NumberFacts
      <3> QED
        BY <1>0, <2>2, <2>3, <2>4, <3>1 DEF Older
    <2> QED
      BY <1>0, <2>5, <2>6, <2>7
  <1>7. CASE RepaintDirect
    <2> DEFINE g == [buf |-> current, seq |-> paints + 1]
    <2>1. /\ paints + 1 \in Generations /\ current \in Buffers /\ paints \in Nat /\ app
          /\ current # None /\ current \in fenced
      BY <1>7, PaintFacts DEF RepaintDirect, TypeOK
    <2>2. g \in Frames /\ g.buf = current /\ g.seq = paints + 1
      BY <2>1 DEF Frames
    <2>3. /\ UNCHANGED <<shown, replies, current, released, held>> /\ fenced' = fenced \ {current}
          /\ direct_seq' = paints + 1
          /\ dirty' = IF app THEN Append(dirty, g) ELSE dirty
      BY <1>7 DEF RepaintDirect, AfterPresent
    <2> HIDE DEF g
    <2>4. \A f : Sent(f)' => Sent(f) \/ f = g
      BY <2>2, <2>3, SentPaint
    <2>5. Fence'
      BY <2>3 DEF Fence
    <2>6. Placed'
      <3> SUFFICES ASSUME NEW f, Sent(f)', f.buf # None
                   PROVE  /\ released[f.buf] < f.seq
                          /\ \/ f.buf = current /\ f.seq = paints + 1
                             \/ \E i \in DOMAIN held : held[i] = f
        BY <2>3 DEF Placed
      <3>1. CASE f = g
        <4>1. released[current] <= last[current] /\ last[current] <= paints
          BY <2>1 DEF TypeOK
        <4>2. released[current] \in Nat /\ last[current] \in Nat
          BY <2>1, NumberFacts
        <4> QED
          BY <2>1, <2>2, <3>1, <4>1, <4>2
      <3>2. CASE Sent(f)
        <4>1. /\ released[f.buf] < f.seq /\ f.seq \in Nat /\ f.seq >= 1
              /\ \/ f.buf = current /\ f.seq = direct_seq
                 \/ \E i \in DOMAIN held : held[i] = f
          BY <1>0, <3>2, SentFacts DEF Placed
        <4>2. direct_seq = 0
          BY <1>0, <2>1 DEF Fence
        <4> QED
          BY <4>1, <4>2
      <3> QED
        BY <2>4, <3>1, <3>2
    <2>7. Older'
      <3>1. \A i \in DOMAIN replies : replies[i].seq < paints + 1
        BY <2>1, NumberFacts DEF OrderInv, ReplyOrder
      <3> QED
        BY <1>0, <2>2, <2>3, <2>4, <3>1 DEF Older
    <2> QED
      BY <1>0, <2>5, <2>6, <2>7
  <1>8. ASSUME NEW k \in 1..MaxPaints, AckTimer(k) PROVE SentInv'
    <2>1. ReleaseDirect(events) /\ UNCHANGED <<current, fenced, direct_seq, shown, dirty, released, replies>>
      BY <1>8 DEF AckTimer
    <2>2. \A a \in DOMAIN held : ~ GivenBack(held[a]) => \E i \in DOMAIN held' : held'[i] = held[a]
      BY <2>1, ReleaseFacts
    <2>3. Placed'
      <3> SUFFICES ASSUME NEW f, Sent(f), f.buf # None
                   PROVE  /\ released[f.buf] < f.seq
                          /\ \/ f.buf = current /\ f.seq = direct_seq
                             \/ \E i \in DOMAIN held' : held'[i] = f
        BY <1>e, <2>1 DEF Placed
      <3>1. /\ released[f.buf] < f.seq
            /\ \/ f.buf = current /\ f.seq = direct_seq
               \/ \E i \in DOMAIN held : held[i] = f
            /\ f.buf \in Buffers /\ f.seq \in Nat
        BY <1>0, SentFacts DEF Placed
      <3>2. ~ released[f.buf] >= f.seq
        BY <3>1, NumberFacts
      <3> QED
        BY <2>2, <3>1, <3>2 DEF GivenBack
    <2> QED
      BY <1>0, <1>e, <1>f, <1>o, <2>1, <2>3
  <1>9. CASE ReadReply
    <2>1. /\ UNCHANGED <<current, fenced, direct_seq, shown, dirty, held>>
          /\ replies # <<>> /\ replies' = Tail(replies) /\ 1 \in DOMAIN replies /\ Head(replies) = replies[1]
      BY <1>9, NumberFacts, TailFacts DEF ReadReply
    <2>2. \A i \in DOMAIN replies' : i + 1 \in DOMAIN replies /\ replies'[i] = replies[i + 1]
      BY <2>1, NumberFacts, TailFacts
    <2>3. Older'
      BY <1>0, <1>e, <2>1, <2>2 DEF Older
    <2>4. Placed'
      <3> SUFFICES ASSUME NEW f, Sent(f), f.buf # None
                   PROVE  released'[f.buf] < f.seq
        BY <1>0, <1>e, <2>1 DEF Placed
      <3>1. released[f.buf] < f.seq /\ f.buf \in Buffers /\ f.seq \in Nat
        BY <1>0, SentFacts DEF Placed
      <3>2. CASE replies[1].op = "presented"
        BY <1>9, <2>1, <3>1, <3>2 DEF ReadReply
      <3>3. CASE replies[1].op # "presented"
        <4>1. replies[1].op = "released" /\ replies[1].buf \in Buffers /\ replies[1].seq \in Nat
          BY <2>1, <3>3, ReplyFacts
        <4> DEFINE m == replies[1]
                   x == IF last[m.buf] # 0 THEN Max({released[m.buf], m.seq}) ELSE released[m.buf]
        <4>2. released' = [released EXCEPT ![m.buf] = x]
          BY <1>9, <2>1, <3>3 DEF ReadReply
        <4>3. released[m.buf] \in Int /\ m.seq \in Int
          BY <4>1, NumberFacts
        <4>4. x \in {released[m.buf], m.seq}
          BY <4>3, MaxFacts
        <4> HIDE DEF x
        <4>5. CASE f.buf = m.buf
          <5>1. m.seq < f.seq
            BY <1>0, <2>1, <4>1, <4>5 DEF Older
          <5>2. released'[f.buf] = x
            BY <3>1, <4>2, <4>5 DEF TypeOK
          <5> QED
            BY <3>1, <4>4, <4>5, <5>1, <5>2
        <4>6. CASE f.buf # m.buf
          <5>1. released'[f.buf] = released[f.buf]
            BY <3>1, <4>2, <4>6 DEF TypeOK
          <5> QED
            BY <3>1, <5>1
        <4> QED
          BY <4>5, <4>6
      <3> QED
        BY <3>2, <3>3
    <2> QED
      BY <1>0, <1>f, <2>1, <2>3, <2>4
  <1>10. CASE AppDrain
    <2> DEFINE r == [op |-> "released", buf |-> shown.buf, seq |-> shown.seq]
    <2>1. /\ \A f : Sent(f)' => Sent(f) /\ shown.seq < f.seq
          /\ \A i \in DOMAIN replies' : \/ i \in DOMAIN replies /\ replies'[i] = replies[i]
                                        \/ replies'[i] = r /\ shown.buf # None
      BY <1>10, SentDrain
    <2>2. r.seq = shown.seq
      OBVIOUS
    <2> HIDE DEF r
    <2>3. Older'
      BY <1>0, <2>1, <2>2 DEF Older
    <2> QED
      BY <1>0, <1>10, <1>f, <1>p, <2>1, <2>3 DEF AppDrain
  <1>11. CASE AppPresented
    <2> DEFINE r == [op |-> "presented", buf |-> None, seq |-> Head(unseen)]
    <2>1. Head(unseen) \in Generations
      BY <1>11, NumberFacts, TailFacts DEF AppPresented
    <2>2. r \in Replies /\ r.op # "released" /\ replies' = Append(replies, r) /\ UNCHANGED <<shown, dirty>>
      BY <1>11, <2>1 DEF AppPresented, Replies
    <2> HIDE DEF r
    <2>3. \A i \in DOMAIN replies' : (i \in DOMAIN replies /\ replies'[i] = replies[i]) \/ replies'[i] = r
      BY <2>2, NumberFacts, AppendFacts
    <2>4. Older'
      BY <1>0, <1>e, <2>2, <2>3 DEF Older
    <2> QED
      BY <1>0, <1>11, <1>e, <1>f, <1>p, <2>2, <2>4 DEF AppPresented
  <1>12. CASE AppDrop \/ AppAttach
    <2>1. DOMAIN dirty' = {} /\ DOMAIN replies' = {} /\ shown' = NoFrame
      BY <1>12 DEF AppDrop, AppAttach, OrderInv, AbsentInv
    <2>2. \A f : Sent(f)' => f.buf = None
      BY <2>1 DEF Sent, NoFrame
    <2>3. Placed' /\ Older'
      BY <2>1, <2>2 DEF Placed, Older
    <2> QED
      BY <1>0, <1>12, <1>f, <2>3 DEF AppDrop, AppAttach
  <1>13. CASE ShimStep \/ UNCHANGED vars
    BY <1>1, <1>13 DEF ShimStep, SwapBuffers, NextBuffer, BudgetExpires, DispatchEvent,
       MakeCurrent,
       DestroySurface, vars
  <1> QED
    BY <1>4, <1>5, <1>6, <1>7, <1>8, <1>9, <1>10, <1>11, <1>12, <1>13
    DEF Next, CompositorStep, AppStep

-----------------------------------------------------------------------------
(* The theorems.                                                           *)

\* The initial state satisfies the invariant.
LEMMA InvInit == Init => IInv
  <1> SUFFICES ASSUME Init PROVE IInv
    OBVIOUS
  <1>1. TypeOK
    BY TypeInit
  <1>2. /\ DOMAIN requests = {} /\ DOMAIN events = {} /\ DOMAIN held = {} /\ DOMAIN dirty = {}
        /\ DOMAIN unseen = {} /\ DOMAIN replies = {}
    BY DEF Init
  <1>3. ChainInv /\ SyncInv
    BY <1>2 DEF Init, ChainInv, SyncInv
  <1>4. OrderInv
    BY <1>2 DEF Init, OrderInv, AbsentInv, DirtyOrder, UnseenOrder, ReplyOrder, NoFrame
  <1>5. StreamInv /\ NoticeInv
    BY <1>2 DEF Init, StreamInv, NoticeInv, Sent, NoFrame
  <1>6. BusyAccounted /\ GivenBackNoticed
    BY <1>2 DEF Init, BusyAccounted, GivenBackNoticed
  <1>7. PlaceInv
    BY <1>2, BufferFacts DEF Init, PlaceInv, Alone, Asked, Held, Told, AskedOnce, HeldOnce,
       ToldOnce
  <1>8. SentInv
    BY <1>2 DEF Init, SentInv, Sent, NoFrame
  <1> QED
    BY <1>1, <1>3, <1>4, <1>5, <1>6, <1>7, <1>8 DEF IInv

\* Every step keeps it.
LEMMA InvStep == IInv /\ [Next]_vars => IInv'
  <1> SUFFICES ASSUME IInv, [Next]_vars PROVE IInv'
    OBVIOUS
  <1>0. /\ TypeOK /\ ChainInv /\ SyncInv /\ OrderInv /\ StreamInv /\ NoticeInv
        /\ BusyAccounted /\ GivenBackNoticed /\ (~ expired /\ pc # "gone" => PlaceInv /\ SentInv)
    BY DEF IInv
  <1>1. TypeOK'
    BY <1>0, TypeStep
  <1>2. ChainInv' /\ SyncInv' /\ OrderInv' /\ StreamInv' /\ NoticeInv' /\ GivenBackNoticed'
    BY <1>0, <1>1, ChainStep, SyncStep, OrderStep, StreamStep, NoticeStep, GivenBackStep
  <1>3. Accounted
    BY <1>0, AccountedFacts
  <1>4. Accounted' /\ (~ expired' /\ pc' # "gone" => PlaceInv')
    BY <1>0, <1>3, NextSides, ShimPlaces, RequestPlaces, ElsewherePlaces
  <1>5. BusyAccounted'
    BY <1>4, AccountedNext
  <1>6. ~ expired' /\ pc' # "gone" => ~ expired /\ pc # "gone"
    <2>1. CASE ShimStep
      BY <2>1 DEF ShimStep, SwapBuffers, NextBuffer, BudgetExpires, DispatchEvent, MakeCurrent,
         DestroySurface
    <2>2. CASE HandleRequest
      BY <1>0, <2>2, HandleFacts
    <2>3. CASE Elsewhere
      BY <1>0, <2>3, ElsewhereFacts
    <2> QED
      BY <2>1, <2>2, <2>3, NextSides
  <1>7. ~ expired' /\ pc' # "gone" => SentInv'
    BY <1>0, <1>6, SentStep
  <1> QED
    BY <1>1, <1>2, <1>4, <1>5, <1>7 DEF IInv

\* The invariant holds in every reachable state, whatever the delays on the two
\* sockets, the resizes, the losses of the app and the valve.
THEOREM Invariant == Spec => []IInv
  BY InvInit, InvStep, PTL DEF Spec

\* The three processes keep to their types: no generation is ahead of the newest
\* one and no more of a stream surface is given back than was sent.
THEOREM TypeCorrect == Spec => []TypeOK
  <1>1. IInv => TypeOK
    BY DEF IInv
  <1> QED
    BY <1>1, Invariant, PTL

\* No release is lost (surface_set_buffer, release_direct_buffers, buf_release):
\* a busy buffer of a surface that is not a synchronized subsurface is on its
\* way, current, held, or its release is on its way.
THEOREM NoReleaseLost == Spec => []BusyAccounted
  <1>1. IInv => BusyAccounted
    BY DEF IInv
  <1> QED
    BY <1>1, Invariant, PTL

\* What may still be read of a buffer is busy.
LEMMA InUseBusy ==
  ASSUME IInv, ~ expired, pc # "gone", NEW b \in InUse, b # None
  PROVE  b \in busy /\ b \in alive
  <1>0. TypeOK /\ ChainInv /\ PlaceInv /\ SentInv
    BY DEF IInv
  <1>1. ASSUME NEW f, Sent(f), f.buf # None PROVE f.buf \in busy
    <2>1. f.buf \in Buffers /\ (f.buf = current \/ \E i \in DOMAIN held : held[i] = f)
      BY <1>0, <1>1, SentFacts DEF SentInv
    <2>2. f.buf = current \/ Held(f.buf)
      BY <2>1 DEF Held
    <2> QED
      BY <1>0, <2>1, <2>2 DEF PlaceInv, Alone
  <1>2. ASSUME b \in Requested("frame") PROVE b \in busy
    <2>1. PICK i \in DOMAIN requests : requests[i].op = "frame" /\ b \in requests[i].bufs
      BY <1>2 DEF Requested, Range
    <2>2. requests[i] \in Requests
      BY <1>0, <2>1 DEF TypeOK
    <2>3. requests[i] = Request("frame", {b}) /\ b \in Buffers
      BY <2>1, <2>2 DEF Requests, Request
    <2> QED
      BY <1>0, <2>3 DEF Asked, PlaceInv, Alone
  <1>3. ASSUME b \in {current, pending.buf} PROVE b \in busy
    <2>1. b \in Buffers
      BY <1>0, <1>3 DEF TypeOK
    <2> QED
      BY <1>0, <1>3, <2>1 DEF PlaceInv, Alone
  <1>4. ASSUME b = shown.buf PROVE b \in busy
    BY <1>1, <1>4 DEF Sent
  <1>5. ASSUME b \in {f.buf : f \in Range(dirty)} PROVE b \in busy
    BY <1>1, <1>5 DEF Sent, Range
  <1>6. ASSUME b \in {h.buf : h \in Range(held)} PROVE b \in busy
    <2>1. Held(b) /\ b \in Buffers
      BY <1>0, <1>6, NumberFacts DEF Held, Range
    <2> QED
      BY <1>0, <2>1 DEF PlaceInv, Alone
  <1>7. b \in busy
    BY <1>2, <1>3, <1>4, <1>5, <1>6 DEF InUse
  <1> QED
    BY <1>0, <1>7 DEF ChainInv

\* As long as no swap ran out of its release budget, the client never draws into
\* a buffer the compositor or the app may still show.
THEOREM DrawsIntoFreeBuffers == Spec => []DrawnBufferFree
  <1>1. IInv => DrawnBufferFree
    <2> SUFFICES ASSUME IInv, pc = "draw", ~ expired PROVE Drawn \notin InUse
      BY DEF DrawnBufferFree
    <2>1. TypeOK /\ PlaceInv
      BY DEF IInv
    <2>2. Drawn \in Buffers /\ Drawn \notin busy /\ Drawn # None
      BY <2>1, DrawnFacts, BufferFacts DEF PlaceInv
    <2> QED
      BY <2>2, InUseBusy
  <1> QED
    BY <1>1, Invariant, PTL

\* A resize destroys nothing that is on screen or waits to be (win_sync_size).
THEOREM ResizeKeepsShown == Spec => []DestroyedNotShown
  <1>1. IInv => DestroyedNotShown
    <2> SUFFICES ASSUME IInv, pc # "gone", ~ expired, NEW b \in Requested("destroy"), b \in InUse
                 PROVE  FALSE
      BY DEF DestroyedNotShown
    <2>1. PICK i \in DOMAIN requests : requests[i].op = "destroy" /\ b \in requests[i].bufs
      BY DEF Requested, Range
    <2>2. requests[i] \in Requests
      BY <2>1 DEF IInv, TypeOK
    <2>3. b # None
      BY <2>1, <2>2, BufferFacts DEF Requests
    <2>4. b \notin alive
      BY <2>1 DEF IInv, ChainInv
    <2> QED
      BY <2>3, <2>4, InUseBusy
  <1> QED
    BY <1>1, Invariant, PTL

\* While the app answers in time and stays attached, a batch that will be
\* answered looks at the held buffers it has given back (present_ack_timer_cb).
THEOREM GivenBackIsNoticed == Spec => []GivenBackNoticed
  <1>1. IInv => GivenBackNoticed
    BY DEF IInv
  <1> QED
    BY <1>1, Invariant, PTL
=============================================================================
