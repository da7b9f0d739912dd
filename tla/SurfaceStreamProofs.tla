------------------------ MODULE SurfaceStreamProofs ------------------------
(***************************************************************************)
(* Proofs about SurfaceStream, for every number of connections, client     *)
(* slots, output buffers, direct surfaces, frames and resizes.             *)
(***************************************************************************)
EXTENDS SurfaceStream, CountingLemmas, FiniteSetTheorems, TLAPS

-----------------------------------------------------------------------------
(* Types.                                                                  *)

\* There is an output and a client slot; the names that stand for none are
\* none of the things they stand for.
LEMMA Basics ==
  /\ 0 \in Outputs /\ Outputs \subseteq Nat /\ NoSlot \notin Outputs /\ Nothing \notin Outputs
  /\ 0 \in ClientSlots /\ ClientSlots \subseteq Nat
  /\ NoConn \notin Conns /\ Nothing \notin Dyn /\ Outputs \cap Dyn = {}
  /\ Count \in Nat \ {0} /\ MaxSeq \in Nat /\ MaxResize \in Nat
  BY StreamAssumption, SurfacesAreApart DEF Outputs, ClientSlots, Conns, NoSlot, NoConn, Nothing

\* The parts of TypeOK.
ServerTypes ==
    /\ generation \in Generations
    /\ clients \in [ClientSlots -> Conns \cup {NoConn}]
    /\ dirty_seq \in 0..MaxSeq
    /\ clock \in BOOLEAN
QueueTypes == queue \in Queues
StreamTypes == streams \in [Dyn -> StreamRecords]
ConnTypes == conns \in [Conns -> ConnRecords]
LinkTypes ==
    /\ app \in Links
    /\ app.state = "none" <=> app.conn = NoConn
    /\ app.pending \/ app.held => app.seq # 0 /\ app.state \in {"live", "closing"}
LinkGen == app.state \in {"live", "closing"} => conns[app.conn].gen # 0
GpuTypes == app_gpu \in Seq(GpuCommands) /\ timeline \in 0..MaxSeq
CompTypes ==
    /\ comp \in [target : Outputs \cup {NoSlot}, drawn : BOOLEAN, direct : Dyn \cup {Nothing}]
    /\ comp.drawn => comp.target # NoSlot
    /\ comp.target = NoSlot \/ comp.direct = Nothing
    /\ CompIdle \/ dirty_seq < MaxSeq
    /\ gpu_wait \in Nat
    /\ writes \subseteq Draws
PastTypes == overlaps \subseteq Conns /\ stale \subseteq Dyn

\* TypeOK is the conjunction of its parts.
LEMMA TypeParts ==
  TypeOK <=> /\ ServerTypes /\ QueueTypes /\ StreamTypes /\ ConnTypes /\ LinkTypes /\ LinkGen
             /\ GpuTypes /\ CompTypes /\ PastTypes
  BY DEF TypeOK, ServerTypes, QueueTypes, StreamTypes, ConnTypes, LinkTypes, LinkGen, GpuTypes,
         CompTypes, PastTypes

\* All but the history.
StateTypes ==
    /\ ServerTypes /\ QueueTypes /\ StreamTypes /\ ConnTypes /\ LinkTypes /\ LinkGen
    /\ GpuTypes /\ CompTypes

\* The parts in the next state.
LEMMA TypePartsNext ==
  StateTypes' <=> /\ ServerTypes' /\ QueueTypes' /\ StreamTypes' /\ ConnTypes' /\ LinkTypes' /\ LinkGen'
                  /\ GpuTypes' /\ CompTypes'
  BY DEF StateTypes

\* Connection c becomes r, the others stay.
Becomes(c, r) == conns' = [conns EXCEPT ![c] = r]

\* One connection changes.
LEMMA OneConn ==
  ASSUME ConnTypes, NEW c \in Conns, NEW r, Becomes(c, r)
  PROVE  /\ r \in ConnRecords => ConnTypes'
         /\ conns'[c] = r
         /\ \A b \in Conns : b # c => conns'[b] = conns[b]
  BY DEF ConnTypes, Becomes

\* The initial state is well typed.
LEMMA TypeInit == Init => TypeOK
  <1> SUFFICES ASSUME Init PROVE TypeOK
    OBVIOUS
  <1> USE Basics DEF Init
  <1>1. ServerTypes
    <2>1. 1 \in 1..(MaxResize + 1) /\ 0 \in 0..MaxSeq
      OBVIOUS
    <2> QED
      BY <2>1 DEF ServerTypes, Generations
  <1>2. QueueTypes
    BY DEF QueueTypes, QueueReset, Queues, SlotRecords, FreshSlot, Outputs
  <1>3. StreamTypes
    BY DEF StreamTypes, NewStream, StreamRecords
  <1>4. ConnTypes
    BY DEF ConnTypes, NewConn, ConnRecords, Phases
  <1>5. LinkTypes /\ LinkGen
    BY DEF LinkTypes, LinkGen, NoApp, Links, Surfaces
  <1>6. GpuTypes
    BY DEF GpuTypes
  <1>7. CompTypes /\ PastTypes
    BY DEF CompTypes, CompIdle, PastTypes
  <1> QED
    BY <1>1, <1>2, <1>3, <1>4, <1>5, <1>6, <1>7, TypeParts

\* The updates of two fields of a connection.
LEMMA TwoFields ==
  ASSUME ConnTypes, NEW c \in Conns, NEW x, NEW y
  PROVE  /\ [conns EXCEPT ![c].phase = x, ![c].gen = y]
              = [conns EXCEPT ![c] = [conns[c] EXCEPT !.phase = x, !.gen = y]]
         /\ [conns EXCEPT ![c].reader = x, ![c].phase = y]
              = [conns EXCEPT ![c] = [conns[c] EXCEPT !.reader = x, !.phase = y]]
         /\ [conns EXCEPT ![c].in = x, ![c].checked = y]
              = [conns EXCEPT ![c] = [conns[c] EXCEPT !.in = x, !.checked = y]]
         /\ [conns EXCEPT ![c].phase = x, ![c].slot = y]
              = [conns EXCEPT ![c] = [conns[c] EXCEPT !.phase = x, !.slot = y]]
         /\ [conns EXCEPT ![c].out = x, ![c].in = y]
              = [conns EXCEPT ![c] = [conns[c] EXCEPT !.out = x, !.in = y]]
  BY DEF ConnTypes, ConnRecords

\* What the actions of the accept thread do to their connection.
LEMMA HsReplyEffect ==
  ASSUME ConnTypes, NEW c \in Conns, HsReply(c)
  PROVE  Becomes(c, [conns[c] EXCEPT !.phase = "replied", !.gen = generation])
  BY TwoFields DEF HsReply, Becomes

\* The handshake fails or the client is refused.
LEMMA HsRefuseEffect ==
  ASSUME ConnTypes, NEW c \in Conns, HsFail(c) \/ HsRefuse(c)
  PROVE  Becomes(c, [conns[c] EXCEPT !.phase = "refused"])
  BY DEF HsFail, HsRefuse, ConnTypes, ConnRecords, Becomes

\* The reader thread starts.
LEMMA HsReaderEffect ==
  ASSUME ConnTypes, NEW c \in Conns, HsReader(c)
  PROVE  Becomes(c, [conns[c] EXCEPT !.reader = TRUE, !.phase = IF @ = "added" THEN "attached" ELSE @])
  BY TwoFields DEF HsReader, Becomes

\* A reader takes a record off the socket.
LEMMA ReaderTakeEffect ==
  ASSUME ConnTypes, NEW c \in Conns, ReaderTake(c)
  PROVE  Becomes(c, [conns[c] EXCEPT !.in = Tail(@), !.checked = IF Live(c) THEN Head(conns[c].in) ELSE NoRecord])
  BY TwoFields DEF ReaderTake, Becomes

-----------------------------------------------------------------------------
(* The output queue.                                                       *)

Contract == INSTANCE OutputOwnershipProofs WITH
    Clients <- ClientSlots, live <- V2Mask, target <- comp.target,
    drawn <- comp.drawn, uses <- UsesNow, writes <- WritesNow

\* The stream satisfies the assumptions of the ownership contract.
LEMMA ContractAssumptions ==
  Contract!CountAssumption /\ Contract!MaxSeqAssumption /\ Contract!ClientsAssumption
  BY Basics DEF Contract!CountAssumption, Contract!MaxSeqAssumption, Contract!ClientsAssumption

\* The two modules use the same queue.
LEMMA SameQueue ==
  /\ Contract!Slots = Outputs /\ Contract!SlotRecords = SlotRecords /\ Contract!Queues = Queues
  BY DEF Contract!Slots, Outputs, Contract!SlotRecords, SlotRecords, Contract!Queues, Queues

\* The queue's operators are the same in both modules.
LEMMA SameOperators ==
  /\ Contract!QueueReset(Count) = QueueReset(Count)
  /\ \A q, rotate, i : Contract!QueueAcquire(q, rotate, i) = QueueAcquire(q, rotate, i)
  /\ \A q, i : Contract!QueueCancel(q, i) = QueueCancel(q, i)
  /\ \A q, i, p, n : Contract!QueuePublish(q, i, p, n) = QueuePublish(q, i, p, n)
  /\ \A q, i, k, n : Contract!QueueReleasable(q, i, k, n) <=> QueueReleasable(q, i, k, n)
  /\ \A q, i, k, n : Contract!QueueRelease(q, i, k, n) = QueueRelease(q, i, k, n)
  /\ \A q, lost : Contract!QueueDropClients(q, lost) = QueueDropClients(q, lost)
  /\ \A q : Contract!QueueRecover(q) = QueueRecover(q)
  /\ \A x : Contract!TakenSlot(x) = TakenSlot(x)
  /\ \A x, k, n : Contract!ReleasedSlot(x, k, n) = ReleasedSlot(x, k, n)
  BY DEF Contract!QueueReset, Contract!FreshSlot, QueueReset, FreshSlot,
         Contract!QueueAcquire, Contract!WithSlot, Contract!TakenSlot, Contract!ScanCount,
         QueueAcquire, WithSlot, TakenSlot, ScanCount, Contract!QueueCancel, QueueCancel,
         Contract!QueuePublish, QueuePublish, Contract!QueueReleasable, QueueReleasable,
         Contract!QueueRelease, QueueRelease, Contract!ReleasedSlot, ReleasedSlot,
         Contract!Larger, Larger, Contract!QueueDropClients, QueueDropClients,
         Contract!DroppedSlot, DroppedSlot, Contract!QueueRecover, QueueRecover

\* Every operator keeps the queue well formed, and this is what it does to the
\* clients the buffers are owed to.
LEMMA ResetPending ==
    /\ QueueReset(Count) \in Queues
    /\ \A j \in Outputs : QueueReset(Count).slots[j].pending = {}
  BY Basics DEF QueueReset, Queues, SlotRecords, FreshSlot, Outputs

\* Acquiring a buffer.
LEMMA AcquirePending ==
  ASSUME NEW q \in Queues, NEW rotate, NEW i \in Outputs
  PROVE  /\ QueueAcquire(q, rotate, i) \in Queues
         /\ \A j \in Outputs : QueueAcquire(q, rotate, i).slots[j].pending = q.slots[j].pending
  <1>1. /\ QueueAcquire(q, rotate, i) \in Queues
        /\ QueueAcquire(q, rotate, i).slots = [q.slots EXCEPT ![i] = TakenSlot(q.slots[i])]
    BY ContractAssumptions, SameQueue, SameOperators, Contract!AcquireFacts
  <1> QED
    BY <1>1 DEF Queues, SlotRecords, TakenSlot

\* Giving a buffer back undrawn.
LEMMA CancelPending ==
  ASSUME NEW q \in Queues, NEW i \in Outputs
  PROVE  /\ QueueCancel(q, i) \in Queues
         /\ \A j \in Outputs : QueueCancel(q, i).slots[j].pending = q.slots[j].pending
  <1>1. /\ QueueCancel(q, i) \in Queues
        /\ QueueCancel(q, i).slots = [q.slots EXCEPT ![i] = [q.slots[i] EXCEPT !.acquired = FALSE]]
    BY ContractAssumptions, SameQueue, SameOperators, Contract!CancelFacts
  <1> QED
    BY <1>1 DEF Queues, SlotRecords

\* Publishing a buffer: it is owed to the clients that got the record.
LEMMA PublishPending ==
  ASSUME NEW q \in Queues, NEW i \in Outputs, NEW p \in SUBSET ClientSlots, NEW n \in Nat
  PROVE  /\ QueuePublish(q, i, p, n) \in Queues
         /\ \A j \in Outputs : QueuePublish(q, i, p, n).slots[j].pending
                                 = IF i = j THEN p ELSE q.slots[j].pending
  <1>1. /\ QueuePublish(q, i, p, n) \in Queues
        /\ QueuePublish(q, i, p, n).slots
             = [q.slots EXCEPT ![i] = [acquired |-> FALSE, abandoned |-> FALSE, pending |-> p,
                                       wait |-> q.slots[i].wait, last_frame |-> q.frame + 1,
                                       last_seq |-> n]]
    BY ContractAssumptions, SameQueue, SameOperators, Contract!PublishFacts
  <1> QED
    BY <1>1 DEF Queues, SlotRecords

\* A client releases a buffer.
LEMMA ReleasePending ==
  ASSUME NEW q \in Queues, NEW i \in Outputs, NEW k \in ClientSlots, NEW n \in Nat
  PROVE  /\ QueueRelease(q, i, k, n) \in Queues
         /\ \A j \in Outputs : QueueRelease(q, i, k, n).slots[j].pending \subseteq q.slots[j].pending
  <1>1. CASE QueueReleasable(q, i, k, n)
    <2>1. /\ QueueRelease(q, i, k, n) \in Queues
          /\ QueueRelease(q, i, k, n).slots = [q.slots EXCEPT ![i] = ReleasedSlot(q.slots[i], k, n)]
      BY <1>1, ContractAssumptions, SameQueue, SameOperators, Contract!ReleaseFacts
    <2> QED
      BY <2>1 DEF Queues, SlotRecords, ReleasedSlot
  <1>2. CASE ~ QueueReleasable(q, i, k, n)
    BY <1>2 DEF QueueRelease
  <1> QED
    BY <1>1, <1>2

\* Clients are dropped: nothing is owed to them any more.
LEMMA DropPending ==
  ASSUME NEW q \in Queues, NEW lost
  PROVE  /\ QueueDropClients(q, lost) \in Queues
         /\ \A j \in Outputs : QueueDropClients(q, lost).slots[j].pending = q.slots[j].pending \ lost
  BY ContractAssumptions, SameQueue, SameOperators, Contract!DropFacts

\* Quarantined buffers are recovered.
LEMMA RecoverPending ==
  ASSUME NEW q \in Queues
  PROVE  /\ QueueRecover(q) \in Queues
         /\ \A j \in Outputs : QueueRecover(q).slots[j].pending = q.slots[j].pending
  <1>1. /\ QueueRecover(q) \in Queues
        /\ \A j \in Outputs : QueueRecover(q).slots[j] = [q.slots[j] EXCEPT !.abandoned = FALSE]
    BY ContractAssumptions, SameQueue, SameOperators, Contract!RecoverFacts
  <1> QED
    BY <1>1 DEF Queues, SlotRecords

-----------------------------------------------------------------------------
(* What the actions do to the connections.                                 *)

\* Whether connection c loses its place in the table with the slots `lost'.
Loses(c, lost) == \E s \in lost : clients[s] = c
Gets(c, ok) == \E s \in ok : clients[s] = c

\* Everything but the phase and what is under way to the app is as it was.
Keeps(c) ==
    /\ conns'[c].caps = conns[c].caps /\ conns'[c].gen = conns[c].gen
    /\ conns'[c].slot = conns[c].slot /\ conns'[c].app = conns[c].app
    /\ conns'[c].in = conns[c].in /\ conns'[c].reader = conns[c].reader
    /\ conns'[c].checked = conns[c].checked

\* Dropping clients: the table, the sent bits, the clock and the connections.
LEMMA DropTypes ==
  ASSUME TypeOK, NEW lost
  PROVE  /\ ClientsWithout(lost) \in [ClientSlots -> Conns \cup {NoConn}]
         /\ SentWithout(streams, lost) \in [Dyn -> StreamRecords]
         /\ ClockWithout(lost) \in BOOLEAN
         /\ CloseConns(conns, lost) \in [Conns -> ConnRecords]
         /\ \A c \in Conns : CloseConns(conns, lost)[c]
              = IF Loses(c, lost) THEN [conns[c] EXCEPT !.phase = "dropped"] ELSE conns[c]
  <1> USE TypeParts
  <1>1. ClientsWithout(lost) \in [ClientSlots -> Conns \cup {NoConn}]
    BY DEF ClientsWithout, ServerTypes
  <1>2. SentWithout(streams, lost) \in [Dyn -> StreamRecords]
    BY DEF SentWithout, StreamTypes, StreamRecords
  <1>3. ClockWithout(lost) \in BOOLEAN
    BY DEF ClockWithout, ServerTypes
  <1>4. \A c \in Conns : CloseConns(conns, lost)[c]
          = IF Loses(c, lost) THEN [conns[c] EXCEPT !.phase = "dropped"] ELSE conns[c]
    BY DEF CloseConns, Loses
  <1>5. \A c \in Conns : CloseConns(conns, lost)[c] \in ConnRecords
    <2>1. \A c \in Conns : conns[c] \in ConnRecords
      BY DEF ConnTypes
    <2>2. \A r \in ConnRecords : [r EXCEPT !.phase = "dropped"] \in ConnRecords
      BY DEF ConnRecords, Phases
    <2> QED
      BY <1>4, <2>1, <2>2
  <1>6. CloseConns(conns, lost) \in [Conns -> ConnRecords]
    BY <1>5 DEF CloseConns
  <1> QED
    BY <1>1, <1>2, <1>3, <1>4, <1>6

\* A record is written to some clients and others are dropped.
LEMMA SentFacts ==
  ASSUME TypeOK, NEW ok, NEW lost, NEW recs \in Seq(Records), conns' = Sent(ok, lost, recs)
  PROVE  /\ ConnTypes'
         /\ \A c \in Conns :
              /\ Keeps(c)
              /\ conns'[c].phase = IF Loses(c, lost) THEN "dropped" ELSE conns[c].phase
              /\ conns'[c].out = IF Gets(c, ok) THEN conns[c].out \o recs ELSE conns[c].out
  <1> USE TypeParts
  <1> DEFINE cs == CloseConns(conns, lost)
  <1>1. /\ cs \in [Conns -> ConnRecords]
        /\ \A c \in Conns : cs[c] = IF Loses(c, lost) THEN [conns[c] EXCEPT !.phase = "dropped"] ELSE conns[c]
    BY DropTypes
  <1>2. conns' = [c \in Conns |-> IF Gets(c, ok) THEN [cs[c] EXCEPT !.out = @ \o recs] ELSE cs[c]]
    BY DEF Sent, Gets
  <1> HIDE DEF cs
  <1>3. ASSUME NEW c \in Conns
        PROVE  /\ conns'[c] \in ConnRecords
               /\ Keeps(c)
               /\ conns'[c].phase = IF Loses(c, lost) THEN "dropped" ELSE conns[c].phase
               /\ conns'[c].out = IF Gets(c, ok) THEN conns[c].out \o recs ELSE conns[c].out
    <2>1. conns[c] \in ConnRecords /\ cs[c] \in ConnRecords
      BY <1>1 DEF ConnTypes
    <2>2. /\ cs[c].phase = (IF Loses(c, lost) THEN "dropped" ELSE conns[c].phase)
          /\ cs[c].out = conns[c].out /\ cs[c].caps = conns[c].caps /\ cs[c].gen = conns[c].gen
          /\ cs[c].slot = conns[c].slot /\ cs[c].app = conns[c].app /\ cs[c].in = conns[c].in
          /\ cs[c].reader = conns[c].reader /\ cs[c].checked = conns[c].checked
      BY <1>1, <2>1 DEF ConnRecords
    <2>3. cs[c].out \o recs \in Seq(Records)
      BY <2>1 DEF ConnRecords
    <2>4. CASE Gets(c, ok)
      <3>1. conns'[c] = [cs[c] EXCEPT !.out = @ \o recs]
        BY <1>2, <2>4
      <3>2. /\ conns'[c] \in ConnRecords
            /\ conns'[c].phase = cs[c].phase /\ conns'[c].out = cs[c].out \o recs
            /\ conns'[c].caps = cs[c].caps /\ conns'[c].gen = cs[c].gen
            /\ conns'[c].slot = cs[c].slot /\ conns'[c].app = cs[c].app /\ conns'[c].in = cs[c].in
            /\ conns'[c].reader = cs[c].reader /\ conns'[c].checked = cs[c].checked
        BY <2>1, <2>3, <3>1 DEF ConnRecords
      <3> QED
        BY <2>2, <2>4, <3>2 DEF Keeps
    <2>5. CASE ~ Gets(c, ok)
      <3>1. conns'[c] = cs[c]
        BY <1>2, <2>5
      <3> QED
        BY <2>1, <2>2, <2>5, <3>1 DEF Keeps
    <2> QED
      BY <2>4, <2>5
  <1>4. ConnTypes'
    BY <1>2, <1>3 DEF ConnTypes
  <1> QED
    BY <1>3, <1>4

\* The updates of three fields.
LEMMA ThreeFields ==
  ASSUME ConnTypes, NEW c \in Conns, NEW x, NEW y, NEW z
  PROVE  /\ [conns EXCEPT ![c].reader = x, ![c].phase = y, ![c].in = z]
              = [conns EXCEPT ![c] = [conns[c] EXCEPT !.reader = x, !.phase = y, !.in = z]]
         /\ [conns EXCEPT ![c].phase = x, ![c].caps = y, ![c].app = z]
              = [conns EXCEPT ![c] = [conns[c] EXCEPT !.phase = x, !.caps = y, !.app = z]]
  BY DEF ConnTypes, ConnRecords

\* The slot a new client gets is free.
LEMMA NewSlotFree ==
  ASSUME TypeOK, Active # ClientSlots
  PROVE  HsSlot \in ClientSlots \ Active
  <1>1. ClientSlots \ Active # {} /\ ClientSlots \ Active \in SUBSET Nat
    BY Basics DEF Active
  <1>2. \E s \in ClientSlots \ Active : \A t \in ClientSlots \ Active : s <= t
    BY <1>1, LeastNatural
  <1> QED
    BY <1>2, Zenon DEF HsSlot

\* A client is added to the table.
LEMMA HsAddEffect ==
  ASSUME ConnTypes, NEW c \in Conns, HsAdd(c)
  PROVE  Becomes(c, [conns[c] EXCEPT !.phase = "added", !.slot = HsSlot])
  BY TwoFields DEF HsAdd, Becomes

\* The slots that connection c gives up.
Lost(c) == IF Live(c) THEN {conns[c].slot} ELSE {}

\* A client leaves: its thread could not start, or has ended.
LEMMA LeaveEffect ==
  ASSUME ConnTypes, NEW c \in Conns, HsReaderFails(c) \/ ReaderExit(c)
  PROVE  /\ clients' = ClientsWithout(Lost(c))
         /\ queue' = QueueDropClients(queue, Lost(c))
         /\ streams' = SentWithout(streams, Lost(c))
         /\ clock' = ClockWithout(Lost(c))
         /\ UNCHANGED <<generation, dirty_seq, appside, timeline, compside>>
         /\ HsReaderFails(c) => Becomes(c, [conns[c] EXCEPT !.phase = "ended"])
         /\ ReaderExit(c) => Becomes(c, [conns[c] EXCEPT !.reader = FALSE, !.phase = "ended", !.in = <<>>])
  <1>1. CASE HsReaderFails(c)
    <2>1. LeaveTable(c, [conns EXCEPT ![c].phase = "ended"]) /\ ~ conns[c].reader
      BY <1>1 DEF HsReaderFails
    <2>2. ~ ReaderExit(c)
      BY <2>1 DEF ReaderExit
    <2>3. conns' = [conns EXCEPT ![c].phase = "ended"]
      BY <2>1 DEF LeaveTable
    <2>4. Becomes(c, [conns[c] EXCEPT !.phase = "ended"])
      BY <2>3 DEF Becomes, ConnTypes, ConnRecords
    <2> QED
      BY <1>1, <2>1, <2>2, <2>4 DEF HsReaderFails, LeaveTable, Lost
  <1>2. CASE ReaderExit(c)
    <2>1. LeaveTable(c, [conns EXCEPT ![c].reader = FALSE, ![c].phase = "ended", ![c].in = <<>>])
      BY <1>2 DEF ReaderExit
    <2>2. ~ HsReaderFails(c)
      BY <1>2 DEF ReaderExit, HsReaderFails
    <2>3. Becomes(c, [conns[c] EXCEPT !.reader = FALSE, !.phase = "ended", !.in = <<>>])
      BY <2>1, ThreeFields DEF LeaveTable, Becomes
    <2> QED
      BY <1>2, <2>1, <2>2, <2>3 DEF ReaderExit, LeaveTable, Lost
  <1> QED
    BY <1>1, <1>2

\* A record was applied.
LEMMA AppliedEffect ==
  ASSUME ConnTypes, NEW c \in Conns, ReaderPacing(c) \/ ReaderReleased(c)
  PROVE  Becomes(c, [conns[c] EXCEPT !.checked = NoRecord])
  BY DEF ReaderPacing, ReaderReleased, Becomes, ConnTypes, ConnRecords

\* The app connects.
LEMMA ConnectEffect ==
  ASSUME ConnTypes, NEW c \in Conns, NEW caps, AppConnect(c, caps)
  PROVE  Becomes(c, [conns[c] EXCEPT !.phase = "backlog", !.caps = caps, !.app = "open"])
  BY ThreeFields DEF AppConnect, Becomes

\* The app has a connection unless it is idle.
LEMMA LinkFacts ==
  ASSUME TypeOK, app.state # "none"
  PROVE  app.conn \in Conns /\ app.conn # NoConn /\ conns[app.conn] \in ConnRecords
  BY TypeParts DEF LinkTypes, Links, ConnTypes

\* The app gives up an attempt to connect.
LEMMA AbandonEffect ==
  ASSUME ConnTypes, app.conn \in Conns, AppAbandon
  PROVE  Becomes(app.conn, [conns[app.conn] EXCEPT !.app = "orphan"])
  BY DEF AppAbandon, Becomes, ConnTypes, ConnRecords

\* A record the app has read is gone from the socket.
LEMMA ReadEffect ==
  ASSUME TypeOK, AppDirty \/ AppSurface \/ AppSurfaceDrop
  PROVE  /\ app.state = "live" /\ app.conn \in Conns /\ conns[app.conn].out # <<>>
         /\ AppDirty => Becomes(app.conn, [conns[app.conn] EXCEPT !.out = Tail(@),
                           !.in = IF app.held THEN Append(@, ReleasedRecord) ELSE @])
         /\ AppSurface \/ AppSurfaceDrop => Becomes(app.conn, [conns[app.conn] EXCEPT !.out = Tail(@)])
  <1>1. app.state = "live" /\ conns[app.conn].out # <<>>
    BY DEF AppDirty, AppSurface, AppSurfaceDrop, AppHas
  <1>2. app.conn \in Conns
    BY <1>1, LinkFacts
  <1>3. AppDirty => Becomes(app.conn, [conns[app.conn] EXCEPT !.out = Tail(@),
                           !.in = IF app.held THEN Append(@, ReleasedRecord) ELSE @])
    BY <1>2, TwoFields, TypeParts DEF AppDirty, Becomes
  <1>4. AppSurface \/ AppSurfaceDrop => Becomes(app.conn, [conns[app.conn] EXCEPT !.out = Tail(@)])
    BY <1>2, TypeParts DEF AppSurface, AppSurfaceDrop, Becomes, ConnTypes, ConnRecords
  <1> QED
    BY <1>1, <1>2, <1>3, <1>4

\* The app writes its clock, or the last release before it closes.
LEMMA WriteEffect ==
  ASSUME TypeOK, AppPacing \/ AppBeginClose
  PROVE  /\ app.state = "live" /\ app.conn \in Conns
         /\ AppPacing => Becomes(app.conn, [conns[app.conn] EXCEPT !.in = Append(@, [type |-> "pacing"])])
         /\ AppBeginClose =>
              \/ conns' = conns
              \/ app.held /\ Becomes(app.conn, [conns[app.conn] EXCEPT !.in = Append(@, ReleasedRecord)])
  <1>1. app.state = "live"
    BY DEF AppPacing, AppBeginClose
  <1>2. app.conn \in Conns
    BY <1>1, LinkFacts
  <1>3. AppPacing => Becomes(app.conn, [conns[app.conn] EXCEPT !.in = Append(@, [type |-> "pacing"])])
    BY <1>2, TypeParts DEF AppPacing, Becomes, ConnTypes, ConnRecords
  <1>4. ASSUME AppBeginClose
        PROVE  \/ conns' = conns
               \/ app.held /\ Becomes(app.conn, [conns[app.conn] EXCEPT !.in = Append(@, ReleasedRecord)])
    <2>1. \/ conns' = conns
          \/ app.held /\ conns' = [conns EXCEPT ![app.conn].in = Append(@, ReleasedRecord)]
      BY <1>4 DEF AppBeginClose
    <2> QED
      BY <1>2, <2>1, TypeParts DEF Becomes, ConnTypes, ConnRecords
  <1> QED
    BY <1>1, <1>2, <1>3, <1>4

\* The app closes its end of some connections.
LEMMA ClosedFacts ==
  ASSUME TypeOK, NEW ends, conns' = AppEndsClosed(ends)
  PROVE  /\ ConnTypes'
         /\ \A c \in Conns :
              /\ c \notin ends => conns'[c] = conns[c]
              /\ c \in ends => conns'[c].app = "closed" /\ conns'[c].out = <<>>
              /\ conns'[c].phase = conns[c].phase /\ conns'[c].caps = conns[c].caps
              /\ conns'[c].gen = conns[c].gen /\ conns'[c].slot = conns[c].slot
              /\ conns'[c].in = conns[c].in /\ conns'[c].reader = conns[c].reader
              /\ conns'[c].checked = conns[c].checked
  <1>1. \A c \in Conns : conns[c] \in ConnRecords
    BY TypeParts DEF ConnTypes
  <1>2. ASSUME NEW r \in ConnRecords, NEW x, x = [r EXCEPT !.app = "closed", !.out = <<>>]
        PROVE  /\ x \in ConnRecords /\ x.app = "closed" /\ x.out = <<>>
               /\ x.phase = r.phase /\ x.caps = r.caps /\ x.gen = r.gen /\ x.slot = r.slot
               /\ x.in = r.in /\ x.reader = r.reader /\ x.checked = r.checked
    <2>1. <<>> \in Seq(Records)
      OBVIOUS
    <2> QED
      BY <1>2, <2>1 DEF ConnRecords
  <1>3. conns' = [c \in Conns |-> IF c \in ends THEN [conns[c] EXCEPT !.app = "closed", !.out = <<>>]
                                  ELSE conns[c]]
    BY DEF AppEndsClosed
  <1>4. \A c \in Conns : /\ c \notin ends => conns'[c] = conns[c]
                         /\ c \in ends => conns'[c] = [conns[c] EXCEPT !.app = "closed", !.out = <<>>]
    BY <1>3
  <1>5. \A c \in Conns : conns'[c] \in ConnRecords
    BY <1>1, <1>2, <1>4
  <1>6. ConnTypes'
    BY <1>3, <1>5 DEF ConnTypes
  <1>7. ASSUME NEW c \in Conns
        PROVE  /\ c \notin ends => conns'[c] = conns[c]
               /\ c \in ends => conns'[c].app = "closed" /\ conns'[c].out = <<>>
               /\ conns'[c].phase = conns[c].phase /\ conns'[c].caps = conns[c].caps
               /\ conns'[c].gen = conns[c].gen /\ conns'[c].slot = conns[c].slot
               /\ conns'[c].in = conns[c].in /\ conns'[c].reader = conns[c].reader
               /\ conns'[c].checked = conns[c].checked
    <2>1. conns[c] \in ConnRecords
      BY <1>1
    <2>2. CASE c \in ends
      <3>1. conns'[c] = [conns[c] EXCEPT !.app = "closed", !.out = <<>>]
        BY <1>4, <2>2
      <3> QED
        BY <2>1, <2>2, <3>1, <1>2
    <2>3. CASE c \notin ends
      BY <1>4, <2>3
    <2> QED
      BY <2>2, <2>3
  <1> QED
    BY <1>6, <1>7

-----------------------------------------------------------------------------
(* Every step keeps the state well typed.                                  *)

\* Records and replies by their fields.
LEMMA RecordFacts ==
  /\ \A r \in Records : /\ r.surf \in Surfaces /\ r.type \in {"dirty", "surface", "drop"}
                        /\ r.type = "dirty" => r.seq \in Seqs
                        /\ r.type # "dirty" => r.surf \in Dyn
  /\ \A r \in Replies : /\ r.type \in {"released", "pacing"}
                        /\ r.type = "released" => r.surf \in Surfaces /\ r.seq \in Seqs
                        /\ r # NoRecord
  BY DEF Records, Replies, Surfaces, NoRecord

\* What an action leaves alone keeps its type.
LEMMA UnchangedTypes ==
  ASSUME TypeOK
  PROVE  /\ UNCHANGED <<generation, clients, dirty_seq, clock>> => ServerTypes'
         /\ UNCHANGED queue => QueueTypes'
         /\ UNCHANGED streams => StreamTypes'
         /\ UNCHANGED conns => ConnTypes'
         /\ UNCHANGED <<conns, appside>> => LinkGen'
         /\ UNCHANGED <<appside, timeline>> => LinkTypes' /\ GpuTypes'
         /\ UNCHANGED <<dirty_seq, compside>> => CompTypes'
  BY TypeParts DEF ServerTypes, QueueTypes, StreamTypes, ConnTypes, LinkGen, LinkTypes, GpuTypes,
                   CompTypes, CompIdle, appside, compside

\* The accept thread and the readers.
LEMMA TypeAccept ==
  ASSUME TypeOK, NEW c \in Conns, HsReply(c) \/ HsFail(c) \/ HsRefuse(c) \/ HsReader(c)
  PROVE  StateTypes'
  <1> USE TypeParts
  <1>0. conns[c] \in ConnRecords /\ generation \in Generations /\ generation # 0
    BY Basics DEF ConnTypes, ServerTypes, Generations
  <1>1. UNCHANGED <<server, appside, timeline, compside>>
    BY DEF HsReply, HsFail, HsRefuse, HsReader
  <1>2. ServerTypes' /\ QueueTypes' /\ StreamTypes' /\ LinkTypes' /\ GpuTypes' /\ CompTypes'
    BY <1>1, UnchangedTypes DEF server
  <1>3. PICK r \in ConnRecords : Becomes(c, r) /\ (conns[c].gen # 0 => r.gen # 0)
    <2>2. CASE HsReply(c)
      <3>1. [conns[c] EXCEPT !.phase = "replied", !.gen = generation] \in ConnRecords
        BY <1>0 DEF ConnRecords, Phases
      <3>2. [conns[c] EXCEPT !.phase = "replied", !.gen = generation].gen # 0
        BY <1>0 DEF ConnRecords
      <3> QED
        BY <2>2, <3>1, <3>2, HsReplyEffect
    <2>3. CASE HsFail(c) \/ HsRefuse(c)
      <3>1. [conns[c] EXCEPT !.phase = "refused"] \in ConnRecords
        BY <1>0 DEF ConnRecords, Phases
      <3>2. [conns[c] EXCEPT !.phase = "refused"].gen = conns[c].gen
        BY <1>0 DEF ConnRecords
      <3> QED
        BY <2>3, <3>1, <3>2, HsRefuseEffect
    <2>4. CASE HsReader(c)
      <3> DEFINE r == [conns[c] EXCEPT !.reader = TRUE, !.phase = IF @ = "added" THEN "attached" ELSE @]
      <3>1. r \in ConnRecords /\ r.gen = conns[c].gen
        BY <1>0 DEF ConnRecords, Phases
      <3> QED
        BY <2>4, <3>1, HsReaderEffect
    <2> QED
      BY <2>2, <2>3, <2>4
  <1>4. ConnTypes' /\ conns'[c] = r /\ \A b \in Conns : b # c => conns'[b] = conns[b]
    BY <1>3, OneConn
  <1>5. LinkGen'
    <2>1. app' = app
      BY <1>1 DEF appside
    <2>2. app.state \in {"live", "closing"} => app.conn \in Conns
      BY LinkFacts
    <2> QED
      BY <1>3, <1>4, <2>1, <2>2 DEF LinkGen
  <1> QED
    BY <1>2, <1>4, <1>5, TypePartsNext

\* A completed handshake.
LEMMA TypeAdd ==
  ASSUME TypeOK, NEW c \in Conns, HsAdd(c)
  PROVE  StateTypes'
  <1> USE TypeParts
  <1>0. conns[c] \in ConnRecords /\ HsSlot \in ClientSlots
    BY NewSlotFree DEF ConnTypes, HsAdd
  <1>1. UNCHANGED <<generation, dirty_seq, clock, appside, timeline, compside>>
    BY DEF HsAdd
  <1>2. ServerTypes' /\ LinkTypes' /\ GpuTypes' /\ CompTypes'
    <2>1. clients' \in [ClientSlots -> Conns \cup {NoConn}]
      BY <1>0 DEF HsAdd, ServerTypes
    <2> QED
      BY <1>1, <2>1, UnchangedTypes DEF ServerTypes
  <1>3. QueueTypes'
    BY RecoverPending DEF QueueTypes, HsAdd
  <1>4. StreamTypes'
    <2>1. \A d \in Dyn : streams[d] \in StreamRecords
      BY DEF StreamTypes
    <2>2. \A x \in StreamRecords : [x EXCEPT !.released_seq = Larger(@, x.last_seq)] \in StreamRecords
      BY DEF StreamRecords, Larger
    <2>3. RecoverStreams \in [Dyn -> StreamRecords]
      BY <2>1, <2>2 DEF RecoverStreams
    <2> QED
      BY <2>3 DEF HsAdd, StreamTypes
  <1>5. ConnTypes' /\ LinkGen'
    <2> DEFINE r == [conns[c] EXCEPT !.phase = "added", !.slot = HsSlot]
    <2>1. r \in ConnRecords /\ r.gen = conns[c].gen
      BY <1>0 DEF ConnRecords, Phases
    <2>2. Becomes(c, r)
      BY HsAddEffect
    <2> HIDE DEF r
    <2>3. ConnTypes' /\ conns'[c] = r /\ \A b \in Conns : b # c => conns'[b] = conns[b]
      BY <2>1, <2>2, OneConn
    <2>4. app' = app /\ (app.state \in {"live", "closing"} => app.conn \in Conns)
      BY <1>1, LinkFacts DEF appside
    <2> QED
      BY <2>1, <2>3, <2>4 DEF LinkGen
  <1> QED
    BY <1>2, <1>3, <1>4, <1>5, TypePartsNext

\* A thread that ends.
LEMMA TypeLeave ==
  ASSUME TypeOK, NEW c \in Conns, HsReaderFails(c) \/ ReaderExit(c)
  PROVE  StateTypes'
  <1> USE TypeParts
  <1>0. conns[c] \in ConnRecords
    BY DEF ConnTypes
  <1>1. ServerTypes' /\ LinkTypes' /\ GpuTypes' /\ CompTypes'
    <2>1. UNCHANGED <<generation, dirty_seq, appside, timeline, compside>>
      BY LeaveEffect
    <2>2. ServerTypes'
      BY <2>1, LeaveEffect, DropTypes DEF ServerTypes
    <2> QED
      BY <2>1, <2>2, UnchangedTypes
  <1>2. QueueTypes'
    BY LeaveEffect, DropPending DEF QueueTypes
  <1>3. StreamTypes'
    BY LeaveEffect, DropTypes DEF StreamTypes
  <1>4. PICK r \in ConnRecords : Becomes(c, r) /\ r.gen = conns[c].gen
    <2>1. CASE HsReaderFails(c)
      <3>1. [conns[c] EXCEPT !.phase = "ended"] \in ConnRecords
        BY <1>0 DEF ConnRecords, Phases
      <3>2. [conns[c] EXCEPT !.phase = "ended"].gen = conns[c].gen
        BY <1>0 DEF ConnRecords
      <3> QED
        BY <2>1, <3>1, <3>2, LeaveEffect
    <2>2. CASE ReaderExit(c)
      <3> DEFINE r == [conns[c] EXCEPT !.reader = FALSE, !.phase = "ended", !.in = <<>>]
      <3>0. <<>> \in Seq(Replies)
        OBVIOUS
      <3>1. r \in ConnRecords /\ r.gen = conns[c].gen
        BY <1>0, <3>0 DEF ConnRecords, Phases
      <3> QED
        BY <2>2, <3>1, LeaveEffect
    <2> QED
      BY <2>1, <2>2
  <1>5. ConnTypes' /\ conns'[c] = r /\ \A b \in Conns : b # c => conns'[b] = conns[b]
    BY <1>4, OneConn
  <1>6. LinkGen'
    <2>1. app' = app /\ (app.state \in {"live", "closing"} => app.conn \in Conns)
      BY LeaveEffect, LinkFacts DEF appside
    <2> QED
      BY <1>4, <1>5, <2>1 DEF LinkGen
  <1> QED
    BY <1>1, <1>2, <1>3, <1>5, <1>6, TypePartsNext

\* A RELEASED names a surface and a frame.
LEMMA CheckedFacts ==
  ASSUME TypeOK, NEW c \in Conns, ReaderReleased(c)
  PROVE  /\ conns[c].checked.surf \in Surfaces
         /\ conns[c].checked.seq \in Nat /\ conns[c].checked.seq \in 0..MaxSeq
  <1> DEFINE m == conns[c].checked
  <1>1. m.type = "released" /\ m \in Replies \cup {NoRecord}
    BY TypeParts DEF ReaderReleased, ConnTypes, ConnRecords
  <1>2. NoRecord.type # "released"
    BY DEF NoRecord
  <1>3. m.surf \in Surfaces /\ m.seq \in Seqs
    BY <1>1, <1>2, RecordFacts
  <1> QED
    BY <1>3, Basics DEF Seqs

\* What the readers apply is well typed.
LEMMA TypeReader ==
  ASSUME TypeOK, NEW c \in Conns, ReaderTake(c) \/ ReaderPacing(c) \/ ReaderReleased(c)
  PROVE  StateTypes'
  <1> USE TypeParts
  <1>0. conns[c] \in ConnRecords
    BY DEF ConnTypes
  <1>1. PICK r \in ConnRecords : Becomes(c, r) /\ r.gen = conns[c].gen
    <2>1. CASE ReaderTake(c)
      <3> DEFINE x == Tail(conns[c].in)
                 y == IF Live(c) THEN Head(conns[c].in) ELSE NoRecord
                 r == [conns[c] EXCEPT !.in = x, !.checked = y]
      <3>1. conns[c].in \in Seq(Replies) /\ conns[c].in # <<>>
        BY <1>0, <2>1 DEF ReaderTake, ConnRecords
      <3>2. x \in Seq(Replies) /\ y \in Replies \cup {NoRecord}
        BY <3>1
      <3>3. Becomes(c, r)
        BY <2>1, ReaderTakeEffect
      <3> HIDE DEF x, y
      <3>4. r \in ConnRecords /\ r.gen = conns[c].gen
        BY <1>0, <3>2 DEF ConnRecords
      <3> QED
        BY <3>3, <3>4
    <2>2. CASE ReaderPacing(c) \/ ReaderReleased(c)
      <3> DEFINE r == [conns[c] EXCEPT !.checked = NoRecord]
      <3>1. r \in ConnRecords /\ r.gen = conns[c].gen
        BY <1>0 DEF ConnRecords
      <3> QED
        BY <2>2, <3>1, AppliedEffect
    <2> QED
      BY <2>1, <2>2
  <1>2. ConnTypes' /\ conns'[c] = r /\ \A b \in Conns : b # c => conns'[b] = conns[b]
    BY <1>1, OneConn
  <1>3. UNCHANGED <<generation, clients, dirty_seq, appside, timeline, compside>>
    BY DEF ReaderTake, ReaderPacing, ReaderReleased, server
  <1>4. LinkGen'
    <2>1. app' = app /\ (app.state \in {"live", "closing"} => app.conn \in Conns)
      BY <1>3, LinkFacts DEF appside
    <2> QED
      BY <1>1, <1>2, <2>1 DEF LinkGen
  <1>5. ServerTypes'
    BY <1>3 DEF ReaderTake, ReaderPacing, ReaderReleased, server, ServerTypes
  <1>6. QueueTypes' /\ StreamTypes'
    <2>1. CASE ReaderTake(c) \/ ReaderPacing(c)
      BY <2>1, UnchangedTypes DEF ReaderTake, ReaderPacing, server
    <2>2. CASE ReaderReleased(c)
      <3> DEFINE m == conns[c].checked
      <3>1. m.surf \in Surfaces /\ m.seq \in Nat /\ m.seq \in 0..MaxSeq
        BY <2>2, CheckedFacts
      <3>2. conns[c].slot \in ClientSlots
        BY <1>0 DEF ConnRecords
      <3>3. CASE Live(c) /\ m.surf \in Outputs
        BY <2>2, <3>1, <3>2, <3>3, ReleasePending, UnchangedTypes DEF ReaderReleased, QueueTypes
      <3>4. CASE ~(Live(c) /\ m.surf \in Outputs)
        <4>1. UNCHANGED queue
          BY <2>2, <3>4 DEF ReaderReleased
        <4>2. \/ UNCHANGED streams
              \/ /\ m.surf \in Dyn
                 /\ streams' = [streams EXCEPT ![m.surf].released_seq = Larger(@, m.seq)]
          BY <2>2, <3>1, <3>4 DEF ReaderReleased, Surfaces
        <4>3. ASSUME m.surf \in Dyn, streams' = [streams EXCEPT ![m.surf].released_seq = Larger(@, m.seq)]
              PROVE  StreamTypes'
          <5>1. streams[m.surf] \in StreamRecords /\ streams[m.surf].released_seq \in 0..MaxSeq
            BY <4>3 DEF StreamTypes, StreamRecords
          <5>2. Larger(streams[m.surf].released_seq, m.seq) \in 0..MaxSeq
            BY <3>1, <5>1 DEF Larger
          <5> HIDE DEF m
          <5> QED
            BY <4>3, <5>1, <5>2 DEF StreamTypes, StreamRecords
        <4> QED
          BY <4>1, <4>2, <4>3, UnchangedTypes
      <3> QED
        BY <3>3, <3>4
    <2> QED
      BY <2>1, <2>2
  <1> QED
    BY <1>2, <1>3, <1>4, <1>5, <1>6, UnchangedTypes, TypePartsNext

\* The app.
LEMMA NoAppFacts ==
  /\ NoApp \in Links /\ NoApp.state = "none" /\ NoApp.conn = NoConn
  /\ NoApp.known = {} /\ NoApp.retired = {} /\ ~ NoApp.pending /\ ~ NoApp.held
  BY Basics DEF NoApp, Links, Surfaces

\* The app connects.
LEMMA TypeConnect ==
  ASSUME TypeOK, NEW c \in Conns, NEW caps \in {"v2", "legacy"}, AppConnect(c, caps)
  PROVE  StateTypes'
  <1> USE TypeParts
  <1>0. conns[c] \in ConnRecords
    BY DEF ConnTypes
  <1>1. UNCHANGED <<server, app_gpu, timeline, compside>>
    BY DEF AppConnect
  <1>2. ServerTypes' /\ QueueTypes' /\ StreamTypes' /\ CompTypes'
    BY <1>1, UnchangedTypes DEF server
  <1>3. GpuTypes'
    BY <1>1 DEF GpuTypes
  <1>4. LinkTypes' /\ LinkGen'
    <2>1. app' = [NoApp EXCEPT !.conn = c, !.state = "connecting"]
      BY DEF AppConnect
    <2>2. /\ app' \in Links /\ app'.state = "connecting" /\ app'.conn = c
          /\ ~ app'.pending /\ ~ app'.held
      BY <2>1, NoAppFacts DEF Links
    <2> QED
      BY <2>2, Basics DEF LinkTypes, LinkGen
  <1>5. ConnTypes'
    <2>1. [conns[c] EXCEPT !.phase = "backlog", !.caps = caps, !.app = "open"] \in ConnRecords
      BY <1>0 DEF ConnRecords, Phases
    <2> QED
      BY <2>1, ConnectEffect, OneConn
  <1> QED
    BY <1>2, <1>3, <1>4, <1>5, TypePartsNext

\* An abandoned connection is one.
LEMMA OrphanRecord ==
  ASSUME NEW r \in ConnRecords
  PROVE  [r EXCEPT !.app = "orphan"] \in ConnRecords
  BY DEF ConnRecords

\* The app closes its ends, or leaves that to later.
LEMMA TypeClose ==
  ASSUME TypeOK, AppAbandon \/ (\E c \in Conns : AppOrphanClose(c)) \/ AppFinishClose \/ AppCrash
  PROVE  StateTypes'
  <1> USE TypeParts
  <1>1. UNCHANGED <<server, timeline, compside>> /\ app_gpu' \in {app_gpu, <<>>}
    BY DEF AppAbandon, AppOrphanClose, AppFinishClose, AppCrash, appside
  <1>2. ServerTypes' /\ QueueTypes' /\ StreamTypes' /\ CompTypes'
    BY <1>1, UnchangedTypes DEF server
  <1>3. GpuTypes'
    <2>1. <<>> \in Seq(GpuCommands) /\ app_gpu \in Seq(GpuCommands)
      BY DEF GpuTypes
    <2> QED
      BY <1>1, <2>1 DEF GpuTypes
  <1>4. app' = NoApp \/ (app' = app /\ \E c \in Conns : conns' = AppEndsClosed({c}))
    BY DEF AppAbandon, AppOrphanClose, AppFinishClose, AppCrash, appside
  <1>5. LinkTypes'
    BY <1>4, NoAppFacts DEF LinkTypes
  <1>6. ConnTypes'
    <2>1. CASE AppAbandon
      <3>1. app.conn \in Conns
        BY <2>1, LinkFacts DEF AppAbandon
      <3>2. conns[app.conn] \in ConnRecords
        BY <3>1 DEF ConnTypes
      <3>3. [conns[app.conn] EXCEPT !.app = "orphan"] \in ConnRecords
        BY <3>2, OrphanRecord
      <3> QED
        BY <2>1, <3>1, <3>3, AbandonEffect, OneConn
    <2>2. CASE \E ends : conns' = AppEndsClosed(ends)
      BY <2>2, ClosedFacts
    <2> QED
      BY <2>1, <2>2 DEF AppOrphanClose, AppFinishClose, AppCrash
  <1>7. LinkGen'
    <2>1. CASE app' = NoApp
      BY <2>1, NoAppFacts DEF LinkGen
    <2>2. CASE app' = app /\ \E c \in Conns : conns' = AppEndsClosed({c})
      <3>1. PICK e \in Conns : conns' = AppEndsClosed({e})
        BY <2>2
      <3>2. app.state \in {"live", "closing"} => app.conn \in Conns
        BY LinkFacts
      <3>3. ASSUME app.conn \in Conns
            PROVE  conns'[app.conn].gen = conns[app.conn].gen
        BY <3>1, <3>3, ClosedFacts
      <3> QED
        BY <2>2, <3>2, <3>3 DEF LinkGen
    <2> QED
      BY <1>4, <2>1, <2>2
  <1> QED
    BY <1>2, <1>3, <1>5, <1>6, <1>7, TypePartsNext

\* What the app writes is a reply, and what it commits to its GPU a command.
LEMMA HeldFacts ==
  ASSUME TypeOK, app.state = "live"
  PROVE  /\ app.held => ReleasedRecord \in Replies
         /\ SignalHeld \in Seq(GpuCommands)
         /\ app.pending \/ app.held =>
              [op |-> "sample", surf |-> app.surf, gen |-> conns[app.conn].gen, seq |-> app.seq] \in GpuCommands
  <1> USE TypeParts
  <1>1. app.surf \in Surfaces /\ app.seq \in 0..MaxSeq /\ (app.pending \/ app.held => app.seq \in Seqs)
    BY Basics DEF LinkTypes, Links, Seqs
  <1>2. conns[app.conn].gen \in Generations
    BY LinkFacts DEF LinkGen, ConnRecords
  <1>3. app.held => ReleasedRecord \in Replies
    BY <1>1 DEF ReleasedRecord, Replies
  <1>4. app.pending \/ app.held => \A x \in {"sample", "signal"} :
          [op |-> x, surf |-> app.surf, gen |-> conns[app.conn].gen, seq |-> app.seq] \in GpuCommands
    BY <1>1, <1>2 DEF GpuCommands
  <1>5. SignalHeld \in Seq(GpuCommands)
    BY <1>4 DEF SignalHeld, GpuTypes
  <1> QED
    BY <1>3, <1>4, <1>5

\* The record the app reads.
LEMMA HeadFacts ==
  ASSUME TypeOK, app.state = "live", conns[app.conn].out # <<>>
  PROVE  /\ AppRecord \in Records
         /\ conns[app.conn].out \in Seq(Records) /\ Tail(conns[app.conn].out) \in Seq(Records)
  <1>1. conns[app.conn].out \in Seq(Records)
    BY LinkFacts DEF ConnRecords
  <1> QED
    BY <1>1 DEF AppRecord

\* The app reads a record.
LEMMA TypeRead ==
  ASSUME TypeOK, AppDirty \/ AppSurface \/ AppSurfaceDrop
  PROVE  StateTypes'
  <1> USE TypeParts
  <1>0. /\ app.state = "live" /\ app.conn \in Conns /\ conns[app.conn] \in ConnRecords
        /\ conns[app.conn].out # <<>> /\ app \in Links
    BY ReadEffect DEF ConnTypes, LinkTypes
  <1>1. UNCHANGED <<server, timeline, compside>>
    BY DEF AppDirty, AppSurface, AppSurfaceDrop
  <1>2. ServerTypes' /\ QueueTypes' /\ StreamTypes' /\ CompTypes'
    BY <1>1, UnchangedTypes DEF server
  <1>3. GpuTypes'
    BY <1>0, <1>1, HeldFacts DEF GpuTypes, AppDirty, AppSurface, AppSurfaceDrop
  <1>4. AppRecord.surf \in Surfaces
    BY <1>0, HeadFacts, RecordFacts
  <1>5. PICK r \in ConnRecords : Becomes(app.conn, r) /\ r.gen = conns[app.conn].gen
    <2>1. CASE AppDirty
      <3> DEFINE x == Tail(conns[app.conn].out)
                 y == IF app.held THEN Append(conns[app.conn].in, ReleasedRecord) ELSE conns[app.conn].in
                 r == [conns[app.conn] EXCEPT !.out = x, !.in = y]
      <3>1. conns[app.conn].in \in Seq(Replies)
        BY <1>0 DEF ConnRecords
      <3>2. x \in Seq(Records) /\ y \in Seq(Replies)
        BY <1>0, <3>1, HeadFacts, HeldFacts
      <3>3. Becomes(app.conn, r)
        BY <2>1, ReadEffect
      <3> HIDE DEF x, y
      <3>4. r \in ConnRecords /\ r.gen = conns[app.conn].gen
        BY <1>0, <3>2 DEF ConnRecords
      <3> QED
        BY <3>3, <3>4
    <2>2. CASE AppSurface \/ AppSurfaceDrop
      <3> DEFINE x == Tail(conns[app.conn].out)
                 r == [conns[app.conn] EXCEPT !.out = x]
      <3>1. x \in Seq(Records)
        BY <1>0, HeadFacts
      <3>2. Becomes(app.conn, r)
        BY <2>2, ReadEffect
      <3> HIDE DEF x
      <3>3. r \in ConnRecords /\ r.gen = conns[app.conn].gen
        BY <1>0, <3>1 DEF ConnRecords
      <3> QED
        BY <3>2, <3>3
    <2> QED
      BY <2>1, <2>2
  <1>6. ConnTypes' /\ conns'[app.conn] = r
    BY <1>0, <1>5, OneConn
  <1>7. /\ app' \in Links /\ app'.state = "live" /\ app'.conn = app.conn
        /\ app'.pending \/ app'.held => app'.seq # 0
    <2>1. CASE AppDirty
      <3> DEFINE gone == IF app.surf # AppRecord.surf THEN app.retired \cap {app.surf} ELSE {}
      <3>1. AppRecord.seq \in 0..MaxSeq /\ AppRecord.seq # 0
        <4>1. AppRecord \in Records
          BY <1>0, HeadFacts
        <4>2. AppRecord.type = "dirty"
          BY <2>1 DEF AppDirty, AppHas, AppRecord
        <4>3. AppRecord.seq \in Seqs
          BY <4>1, <4>2, RecordFacts
        <4> QED
          BY <4>3, Basics DEF Seqs
      <3>2. app' = [app EXCEPT !.surf = AppRecord.surf, !.seq = AppRecord.seq,
                              !.pending = TRUE, !.held = FALSE,
                              !.known = @ \ gone, !.retired = @ \ gone]
        BY <2>1 DEF AppDirty
      <3> HIDE DEF gone
      <3> QED
        BY <1>0, <1>4, <3>1, <3>2 DEF Links
    <2>2. CASE AppSurface
      BY <1>0, <1>4, <2>2 DEF AppSurface, LinkTypes, Links
    <2>3. CASE AppSurfaceDrop
      <3>1. AppRecord.surf \in Dyn
        <4>1. AppRecord \in Records
          BY <1>0, HeadFacts
        <4>2. AppRecord.type = "drop"
          BY <2>3 DEF AppSurfaceDrop, AppHas, AppRecord
        <4> QED
          BY <4>1, <4>2, RecordFacts
      <3> QED
        BY <1>0, <1>4, <2>3, <3>1 DEF AppSurfaceDrop, LinkTypes, Links
    <2> QED
      BY <2>1, <2>2, <2>3
  <1>8. LinkTypes' /\ LinkGen'
    BY <1>0, <1>5, <1>6, <1>7, Basics DEF LinkTypes, LinkGen
  <1> QED
    BY <1>2, <1>3, <1>6, <1>8, TypePartsNext

\* The app adopts a connection or presents a frame.
LEMMA TypePresent ==
  ASSUME TypeOK, AppAdopt \/ AppPresent
  PROVE  StateTypes'
  <1> USE TypeParts
  <1>0. app.conn \in Conns /\ app \in Links /\ app.state # "none"
    BY LinkFacts DEF LinkTypes, AppAdopt, AppPresent
  <1>1. UNCHANGED <<server, conns, timeline, compside>>
    BY DEF AppAdopt, AppPresent
  <1>2. ServerTypes' /\ QueueTypes' /\ StreamTypes' /\ ConnTypes' /\ CompTypes'
    BY <1>1, UnchangedTypes DEF server
  <1>3. CASE AppAdopt
    <2> DEFINE k == IF conns[app.conn].caps = "v2" THEN Outputs ELSE {0}
    <2>1. k \in SUBSET Surfaces
      BY Basics DEF Surfaces
    <2>2. app' = [app EXCEPT !.state = "live", !.known = k]
      BY <1>3 DEF AppAdopt
    <2> HIDE DEF k
    <2>3. /\ app' \in Links /\ app'.state = "live" /\ app'.conn = app.conn
          /\ app'.pending = app.pending /\ app'.held = app.held /\ app'.seq = app.seq
      BY <1>0, <2>1, <2>2 DEF Links
    <2>4. app.conn # NoConn /\ conns[app.conn].gen # 0
      BY <1>0, <1>3, Basics DEF AppAdopt
    <2>5. LinkTypes' /\ LinkGen'
      BY <1>1, <2>3, <2>4 DEF LinkTypes, LinkGen
    <2>6. GpuTypes'
      BY <1>1, <1>3 DEF GpuTypes, AppAdopt
    <2> QED
      BY <1>2, <2>5, <2>6, TypePartsNext
  <1>4. CASE AppPresent
    <2>1. app.state = "live" /\ (app.pending \/ app.held)
      BY <1>4 DEF AppPresent
    <2>2. GpuTypes'
      <3> DEFINE g == [op |-> "sample", surf |-> app.surf, gen |-> conns[app.conn].gen, seq |-> app.seq]
      <3>1. g \in GpuCommands
        BY <2>1, HeldFacts
      <3>2. app_gpu' = app_gpu \/ app_gpu' = Append(app_gpu, g)
        BY <1>4 DEF AppPresent
      <3> HIDE DEF g
      <3> QED
        BY <1>1, <3>1, <3>2 DEF GpuTypes
    <2>3. app' = [app EXCEPT !.pending = FALSE, !.held = TRUE] \/ app' = [app EXCEPT !.pending = FALSE]
      BY <1>4 DEF AppPresent
    <2>4. /\ app' \in Links /\ app'.state = app.state /\ app'.conn = app.conn /\ app'.seq = app.seq
      BY <1>0, <2>3 DEF Links
    <2>5. LinkTypes' /\ LinkGen'
      BY <1>0, <1>1, <2>1, <2>4 DEF LinkTypes, LinkGen
    <2> QED
      BY <1>2, <2>2, <2>5, TypePartsNext
  <1> QED
    BY <1>3, <1>4

\* The app writes its clock or begins to close.
LEMMA TypeWrite ==
  ASSUME TypeOK, AppPacing \/ AppBeginClose
  PROVE  StateTypes'
  <1> USE TypeParts
  <1>0. app.state = "live" /\ app.conn \in Conns /\ conns[app.conn] \in ConnRecords /\ app \in Links
    BY WriteEffect DEF LinkTypes, ConnTypes
  <1>1. UNCHANGED <<server, timeline, compside>>
    BY DEF AppPacing, AppBeginClose
  <1>2. ServerTypes' /\ QueueTypes' /\ StreamTypes' /\ CompTypes'
    BY <1>1, UnchangedTypes DEF server
  <1>3. GpuTypes'
    BY <1>0, <1>1, HeldFacts DEF GpuTypes, AppPacing, AppBeginClose, appside
  <1>4. ASSUME NEW m \in Replies, Becomes(app.conn, [conns[app.conn] EXCEPT !.in = Append(@, m)])
        PROVE  ConnTypes' /\ conns'[app.conn].gen = conns[app.conn].gen
    <2> DEFINE x == Append(conns[app.conn].in, m)
               r == [conns[app.conn] EXCEPT !.in = x]
    <2>1. x \in Seq(Replies)
      BY <1>0 DEF ConnRecords
    <2>2. Becomes(app.conn, r)
      BY <1>4
    <2> HIDE DEF x
    <2>3. r \in ConnRecords /\ r.gen = conns[app.conn].gen
      BY <1>0, <2>1 DEF ConnRecords
    <2> HIDE DEF r
    <2> QED
      BY <1>0, <2>2, <2>3, OneConn
  <1>5. ConnTypes' /\ conns'[app.conn].gen = conns[app.conn].gen
    <2>1. [type |-> "pacing"] \in Replies /\ (app.held => ReleasedRecord \in Replies)
      BY <1>0, HeldFacts DEF Replies
    <2>2. CASE conns' = conns
      BY <2>2 DEF ConnTypes
    <2>3. CASE conns' # conns
      BY <1>4, <2>1, <2>3, WriteEffect
    <2> QED
      BY <2>2, <2>3
  <1>6. /\ app' \in Links /\ app'.state \in {"live", "closing"} /\ app'.conn = app.conn
        /\ app'.seq = app.seq /\ (app'.pending \/ app'.held => app.pending \/ app.held)
    BY <1>0 DEF AppPacing, AppBeginClose, appside, Links
  <1>7. LinkTypes' /\ LinkGen'
    BY <1>0, <1>5, <1>6, Basics DEF LinkTypes, LinkGen
  <1> QED
    BY <1>2, <1>3, <1>5, <1>7, TypePartsNext

\* The GPUs.
LEMMA TypeGpu ==
  ASSUME TypeOK, GpuStep
  PROVE  StateTypes'
  <1> USE TypeParts
  <1>1. UNCHANGED <<server, conns, app, comp, gpu_wait>>
    BY DEF GpuStep, AppGpuSample, AppGpuSignal, CompGpuWrite, compside, appside
  <1>2. ServerTypes' /\ QueueTypes' /\ StreamTypes' /\ ConnTypes' /\ LinkTypes' /\ LinkGen'
    BY <1>1 DEF server, ServerTypes, QueueTypes, StreamTypes, ConnTypes, LinkTypes, LinkGen
  <1>3. GpuTypes'
    <2>1. CASE UNCHANGED <<app_gpu, timeline>>
      BY <2>1 DEF GpuTypes
    <2>2. CASE AppGpuSample \/ AppGpuSignal
      <3>1. app_gpu \in Seq(GpuCommands) /\ app_gpu # <<>> /\ app_gpu' = Tail(app_gpu)
        BY <2>2 DEF GpuTypes, AppGpuSample, AppGpuSignal
      <3>2. Head(app_gpu) \in GpuCommands /\ Tail(app_gpu) \in Seq(GpuCommands)
        BY <3>1
      <3>3. Head(app_gpu).seq \in 0..MaxSeq
        BY <3>2, Basics DEF GpuCommands, Seqs
      <3> QED
        BY <2>2, <3>1, <3>2, <3>3 DEF GpuTypes, AppGpuSample, AppGpuSignal
    <2> QED
      BY <2>1, <2>2 DEF GpuStep, CompGpuWrite, appside
  <1>4. CompTypes'
    <2>1. dirty_seq' = dirty_seq /\ writes' \subseteq writes
      BY DEF GpuStep, AppGpuSample, AppGpuSignal, CompGpuWrite, compside, server
    <2> QED
      BY <1>1, <2>1 DEF CompTypes, CompIdle
  <1> QED
    BY <1>2, <1>3, <1>4, TypePartsNext

\* The compositor takes a buffer, gives it back, draws, or registers a surface.
LEMMA TypeRepaint ==
  ASSUME TypeOK,
         \/ \E i \in Outputs : CompAcquire(i)
         \/ CompCancel
         \/ CompDraw
         \/ \E d \in Dyn : CompDirectCheck(d)
  PROVE  StateTypes'
  <1> USE TypeParts
  <1>1. UNCHANGED <<generation, clients, dirty_seq, clock, conns, appside, timeline>>
    BY DEF CompAcquire, CompCancel, CompDraw, CompDirectCheck, server
  <1>2. ServerTypes' /\ ConnTypes' /\ LinkTypes' /\ LinkGen' /\ GpuTypes'
    BY <1>1, UnchangedTypes
  <1>3. CASE \E i \in Outputs : CompAcquire(i)
    <2>1. PICK i \in Outputs : CompAcquire(i)
      BY <1>3
    <2>2. QueueTypes' /\ StreamTypes'
      BY <2>1, AcquirePending, UnchangedTypes DEF CompAcquire, QueueTypes
    <2>3. gpu_wait' \in Nat
      BY <2>1 DEF CompAcquire, Larger, CompTypes, QueueTypes, Queues, SlotRecords
    <2>4. CompTypes'
      BY <2>1, <2>3, Basics DEF CompAcquire, CompTypes, CompIdle
    <2> QED
      BY <1>2, <2>2, <2>4, TypePartsNext
  <1>4. CASE CompCancel
    <2>1. comp.target \in Outputs
      BY <1>4 DEF CompCancel, CompTypes
    <2>2. QueueTypes' /\ StreamTypes'
      BY <1>4, <2>1, CancelPending, UnchangedTypes DEF CompCancel, QueueTypes
    <2>3. CompTypes'
      BY <1>4, Basics DEF CompCancel, CompTypes, CompIdle
    <2> QED
      BY <1>2, <2>2, <2>3, TypePartsNext
  <1>5. CASE CompDraw
    <2>1. QueueTypes' /\ StreamTypes'
      BY <1>5, UnchangedTypes DEF CompDraw, server
    <2>2. comp.target \in Outputs /\ dirty_seq < MaxSeq /\ dirty_seq \in 0..MaxSeq
      BY <1>5 DEF CompDraw, CompTypes, CompIdle, ServerTypes
    <2>3. dirty_seq + 1 \in Seqs
      BY <2>2, Basics DEF Seqs
    <2>4. [slot |-> comp.target, gen |-> generation, seq |-> dirty_seq + 1, wait |-> gpu_wait] \in Draws
      BY <2>2, <2>3 DEF Draws, CompTypes, ServerTypes
    <2>5. CompTypes'
      BY <1>1, <1>5, <2>4 DEF CompDraw, CompTypes, CompIdle
    <2> QED
      BY <1>2, <2>1, <2>5, TypePartsNext
  <1>6. CASE \E d \in Dyn : CompDirectCheck(d)
    <2>1. PICK d \in Dyn : CompDirectCheck(d)
      BY <1>6
    <2>2. QueueTypes'
      BY <2>1, UnchangedTypes DEF CompDirectCheck
    <2>3. StreamTypes'
      BY <2>1 DEF CompDirectCheck, StreamTypes, StreamRecords
    <2>4. CompTypes'
      BY <2>1, Basics DEF CompDirectCheck, CompTypes, CompIdle
    <2> QED
      BY <1>2, <2>2, <2>3, <2>4, TypePartsNext
  <1> QED
    BY <1>3, <1>4, <1>5, <1>6

\* The generation an app adopted stays with its connection.
LEMMA KeptGen ==
  ASSUME TypeOK, UNCHANGED appside, \A c \in Conns : conns'[c].gen = conns[c].gen
  PROVE  LinkGen'
  <1>1. app' = app /\ (app.state \in {"live", "closing"} => app.conn \in Conns)
    BY LinkFacts DEF appside
  <1> QED
    BY <1>1, TypeParts DEF LinkGen

\* Closing the connections of dropped clients changes their phase alone.
LEMMA CloseFacts ==
  ASSUME TypeOK, NEW lost, conns' = CloseConns(conns, lost)
  PROVE  /\ ConnTypes'
         /\ \A c \in Conns :
              /\ Keeps(c) /\ conns'[c].out = conns[c].out
              /\ conns'[c].phase = IF Loses(c, lost) THEN "dropped" ELSE conns[c].phase
  <1>1. ConnTypes'
    BY DropTypes DEF ConnTypes
  <1>2. ASSUME NEW c \in Conns
        PROVE  /\ Keeps(c) /\ conns'[c].out = conns[c].out
               /\ conns'[c].phase = IF Loses(c, lost) THEN "dropped" ELSE conns[c].phase
    <2>1. conns[c] \in ConnRecords
      BY TypeParts DEF ConnTypes
    <2>2. conns'[c] = IF Loses(c, lost) THEN [conns[c] EXCEPT !.phase = "dropped"] ELSE conns[c]
      BY DropTypes
    <2> QED
      BY <2>1, <2>2 DEF Keeps, ConnRecords
  <1> QED
    BY <1>1, <1>2

\* The actions that write to clients or drop them: the slots `lost' are given
\* up, and the connections in the slots `ok' get the records `recs'.
Broadcasts(ok, lost, recs) ==
    /\ lost \subseteq Active /\ ok \subseteq Active /\ ok \cap lost = {}
    /\ recs \in Seq(Records)
    /\ clients' = ClientsWithout(lost)
    /\ conns' = Sent(ok, lost, recs)
    /\ clock' = ClockWithout(lost)
    /\ UNCHANGED <<generation, appside, timeline>>

\* The records of a direct frame.
DirectRecords(d, ok) ==
    (IF SurfaceOwed(d) THEN <<[type |-> "surface", surf |-> d]>> ELSE <<>>)
        \o (IF ok = {} THEN <<>> ELSE <<DirtyRecord(d)>>)

\* What publishing, unregistering and the cursor have in common.
LEMMA BroadcastEffect ==
  ASSUME TypeOK, NEW ok \in SUBSET Active, NEW lost \in SUBSET Active
  PROVE  /\ CompPublish(ok, lost) =>
              comp.target \in Outputs /\ Broadcasts(ok, lost, <<DirtyRecord(comp.target)>>)
         /\ CompPublishDirect(ok, lost) =>
              comp.direct \in Dyn /\ Broadcasts(V2Mask \ lost, lost, DirectRecords(comp.direct, ok))
         /\ \A d \in Dyn : CompUnregister(d, ok, lost) =>
              Broadcasts(ok, lost, <<[type |-> "drop", surf |-> d]>>)
         /\ CompCursor(lost) => Broadcasts({}, lost, <<>>)
  <1> USE TypeParts
  <1>0. (~ CompIdle) => dirty_seq + 1 \in Seqs
    BY Basics DEF CompTypes, ServerTypes, Seqs
  <1>1. ASSUME CompPublish(ok, lost)
        PROVE  comp.target \in Outputs /\ Broadcasts(ok, lost, <<DirtyRecord(comp.target)>>)
    <2>1. comp.target \in Outputs /\ ~ CompIdle
      BY <1>1 DEF CompPublish, CompTypes, CompIdle
    <2>2. DirtyRecord(comp.target) \in Records
      BY <1>0, <2>1 DEF DirtyRecord, Records, Surfaces
    <2>3. <<DirtyRecord(comp.target)>> \in Seq(Records)
      BY <2>2
    <2> QED
      BY <1>1, <2>1, <2>3 DEF CompPublish, Broadcasts, SendOutcome
  <1>2. ASSUME CompPublishDirect(ok, lost)
        PROVE  comp.direct \in Dyn /\ Broadcasts(V2Mask \ lost, lost, DirectRecords(comp.direct, ok))
    <2> DEFINE d == comp.direct
               x == IF SurfaceOwed(d) THEN <<[type |-> "surface", surf |-> d]>> ELSE <<>>
               y == IF ok = {} THEN <<>> ELSE <<DirtyRecord(d)>>
    <2>1. d \in Dyn /\ ~ CompIdle
      BY <1>2 DEF CompPublishDirect, CompTypes, CompIdle
    <2>2. DirtyRecord(d) \in Records /\ [type |-> "surface", surf |-> d] \in Records
      BY <1>0, <2>1 DEF DirtyRecord, Records, Surfaces
    <2>3. x \in Seq(Records) /\ y \in Seq(Records)
      BY <2>2
    <2>4. DirectRecords(d, ok) = x \o y
      BY DEF DirectRecords
    <2>5. conns' = Sent(V2Mask \ lost, lost, DirectRecords(d, ok))
      BY <1>2 DEF CompPublishDirect, DirectRecords
    <2> HIDE DEF x, y
    <2>6. DirectRecords(d, ok) \in Seq(Records)
      BY <2>3, <2>4
    <2> HIDE DEF d
    <2>7. V2Mask \ lost \subseteq Active /\ (V2Mask \ lost) \cap lost = {}
      BY DEF V2Mask
    <2>8. /\ clients' = ClientsWithout(lost) /\ clock' = ClockWithout(lost)
          /\ UNCHANGED <<generation, appside, timeline>>
      BY <1>2 DEF CompPublishDirect
    <2> QED
      BY <2>1, <2>5, <2>6, <2>7, <2>8 DEF Broadcasts, d
  <1>3. ASSUME NEW d \in Dyn, CompUnregister(d, ok, lost)
        PROVE  Broadcasts(ok, lost, <<[type |-> "drop", surf |-> d]>>)
    <2>1. [type |-> "drop", surf |-> d] \in Records
      BY DEF Records
    <2>2. <<[type |-> "drop", surf |-> d]>> \in Seq(Records)
      BY <2>1
    <2> QED
      BY <1>3, <2>2 DEF CompUnregister, Broadcasts, SendOutcome
  <1>4. ASSUME CompCursor(lost)
        PROVE  Broadcasts({}, lost, <<>>)
    <2>1. conns' = CloseConns(conns, lost)
      BY <1>4 DEF CompCursor
    <2>2. \A c \in Conns : ~ \E s \in {} : clients[s] = c
      OBVIOUS
    <2>3. Sent({}, lost, <<>>) = [c \in Conns |-> CloseConns(conns, lost)[c]]
      BY <2>2 DEF Sent
    <2>4. CloseConns(conns, lost) = [c \in Conns |-> CloseConns(conns, lost)[c]]
      BY DEF CloseConns
    <2>5. <<>> \in Seq(Records)
      OBVIOUS
    <2> QED
      BY <1>4, <2>1, <2>3, <2>4, <2>5 DEF CompCursor, Broadcasts
  <1> QED
    BY <1>1, <1>2, <1>3, <1>4

\* A broadcast is well typed but for the queue, the streams and the repaint.
LEMMA TypeBroadcast ==
  ASSUME TypeOK, NEW ok, NEW lost, NEW recs, Broadcasts(ok, lost, recs), dirty_seq' \in 0..MaxSeq
  PROVE  /\ ServerTypes' /\ ConnTypes' /\ LinkTypes' /\ LinkGen' /\ GpuTypes'
  <1> USE TypeParts DEF Broadcasts
  <1>1. ServerTypes'
    BY DropTypes DEF ServerTypes
  <1>2. ConnTypes' /\ \A c \in Conns : conns'[c].gen = conns[c].gen
    BY SentFacts DEF Keeps
  <1>3. LinkTypes' /\ GpuTypes'
    BY UnchangedTypes
  <1>4. LinkGen'
    BY <1>2, KeptGen
  <1> QED
    BY <1>1, <1>2, <1>3, <1>4

\* The compositor publishes, unregisters a surface, moves the cursor or resizes.
LEMMA TypePublish ==
  ASSUME TypeOK, NEW ok \in SUBSET Active, NEW lost \in SUBSET Active, CompPublish(ok, lost)
  PROVE  StateTypes'
  <1> USE TypeParts
  <1>0. comp.target \in Outputs /\ dirty_seq + 1 \in 0..MaxSeq /\ dirty_seq + 1 \in Nat
    BY Basics DEF CompTypes, ServerTypes, CompIdle, CompPublish
  <1>1. ServerTypes' /\ ConnTypes' /\ LinkTypes' /\ LinkGen' /\ GpuTypes'
    BY <1>0, BroadcastEffect, TypeBroadcast DEF CompPublish
  <1>2. QueueTypes'
    <2>1. QueueDropClients(queue, lost) \in Queues
      BY DropPending DEF QueueTypes
    <2>2. ok \cap V2Mask \in SUBSET ClientSlots
      BY DEF V2Mask, Active
    <2> QED
      BY <1>0, <2>1, <2>2, PublishPending DEF CompPublish, QueueTypes
  <1>3. StreamTypes'
    BY DropTypes DEF CompPublish, StreamTypes
  <1>4. CompTypes'
    BY DEF CompPublish, CompTypes, CompIdle
  <1> QED
    BY <1>1, <1>2, <1>3, <1>4, TypePartsNext

\* A frame in a client's buffer.
LEMMA TypeDirect ==
  ASSUME TypeOK, NEW ok \in SUBSET Active, NEW lost \in SUBSET Active, CompPublishDirect(ok, lost)
  PROVE  StateTypes'
  <1> USE TypeParts
  <1>0. /\ comp.direct \in Dyn /\ dirty_seq + 1 \in 0..MaxSeq
    BY Basics DEF CompTypes, ServerTypes, CompIdle, CompPublishDirect
  <1>1. ServerTypes' /\ ConnTypes' /\ LinkTypes' /\ LinkGen' /\ GpuTypes'
    BY <1>0, BroadcastEffect, TypeBroadcast DEF CompPublishDirect
  <1>2. QueueTypes'
    BY DropPending DEF CompPublishDirect, QueueTypes
  <1>3. StreamTypes'
    <2> DEFINE st == SentWithout(streams, lost)
    <2>1. st \in [Dyn -> StreamRecords]
      BY DropTypes
    <2>2. \A z \in SUBSET ClientSlots : (z \cup V2Mask) \ lost \in SUBSET ClientSlots
      BY DEF V2Mask, Active
    <2>3. streams' = [st EXCEPT ![comp.direct].sent = (@ \cup V2Mask) \ lost, ![comp.direct].last_seq = dirty_seq + 1]
      BY DEF CompPublishDirect
    <2> HIDE DEF st
    <2>4. st[comp.direct] \in StreamRecords /\ st[comp.direct].sent \in SUBSET ClientSlots
      BY <1>0, <2>1 DEF StreamRecords
    <2>5. (st[comp.direct].sent \cup V2Mask) \ lost \in SUBSET ClientSlots
      BY <2>2, <2>4
    <2> QED
      BY <1>0, <2>1, <2>3, <2>4, <2>5 DEF StreamTypes, StreamRecords
  <1>4. CompTypes'
    BY DEF CompPublishDirect, CompTypes, CompIdle
  <1> QED
    BY <1>1, <1>2, <1>3, <1>4, TypePartsNext

\* A surface is unregistered, or the cursor is written.
LEMMA TypeDropping ==
  ASSUME TypeOK, NEW ok \in SUBSET Active, NEW lost \in SUBSET Active,
         (\E d \in Dyn : CompUnregister(d, ok, lost)) \/ CompCursor(lost)
  PROVE  StateTypes'
  <1> USE TypeParts
  <1>1. dirty_seq' \in 0..MaxSeq /\ CompTypes'
    BY UnchangedTypes DEF CompUnregister, CompCursor, ServerTypes
  <1>2. ServerTypes' /\ ConnTypes' /\ LinkTypes' /\ LinkGen' /\ GpuTypes'
    BY <1>1, BroadcastEffect, TypeBroadcast
  <1>3. QueueTypes'
    BY DropPending DEF CompUnregister, CompCursor, QueueTypes
  <1>4. StreamTypes'
    <2>1. [NewStream EXCEPT !.state = "gone"] \in StreamRecords
      BY Basics DEF NewStream, StreamRecords
    <2> HIDE DEF StreamRecords
    <2> QED
      BY <2>1, DropTypes DEF CompUnregister, CompCursor, StreamTypes
  <1> QED
    BY <1>1, <1>2, <1>3, <1>4, TypePartsNext

\* The outputs are replaced.
LEMMA TypeResize ==
  ASSUME TypeOK, CompResize
  PROVE  StateTypes'
  <1> USE TypeParts
  <1>1. UNCHANGED <<streams, dirty_seq, clock, appside, timeline, compside>>
    BY DEF CompResize
  <1>2. StreamTypes' /\ LinkTypes' /\ GpuTypes' /\ CompTypes'
    BY <1>1, UnchangedTypes
  <1>3. ServerTypes'
    <2>1. generation + 1 \in Generations
      BY Basics DEF CompResize, ServerTypes, Generations
    <2> QED
      BY <1>1, <2>1, DropTypes DEF CompResize, ServerTypes
  <1>4. QueueTypes'
    BY ResetPending DEF CompResize, QueueTypes
  <1>5. ConnTypes' /\ \A c \in Conns : conns'[c].gen = conns[c].gen
    BY CloseFacts DEF CompResize, Keeps
  <1>6. LinkGen'
    BY <1>1, <1>5, KeptGen
  <1> QED
    BY <1>2, <1>3, <1>4, <1>5, <1>6, TypePartsNext

\* A step extends the history or leaves it alone.
Remembers ==
    \/ UNCHANGED history
    \/ \E c \in Conns : HsAdd(c)
    \/ CompResize

\* So do all.
LEMMA HistoryStep == [Next]_vars => Remembers
  <1> SUFFICES ASSUME [Next]_vars PROVE Remembers
    OBVIOUS
  <1>1. ASSUME NEW c \in Conns, AcceptStep(c) \/ ReaderStep(c) PROVE Remembers
    BY <1>1 DEF AcceptStep, ReaderStep, HsReply, HsFail, HsRefuse, HsReader, HsReaderFails,
                ReaderTake, ReaderPacing, ReaderReleased, ReaderExit, Remembers, history
  <1>2. CASE AppStep
    BY <1>2 DEF AppStep, AppTick, AppConnect, AppOrphanClose, AppPresent, AppAbandon, AppPacing,
                AppBeginClose, AppCrash, AppAdopt, AppDirty, AppSurface, AppSurfaceDrop, AppLost,
                AppFinishClose, Remembers, history
  <1>3. CASE CompStep
    <2>1. CASE \/ \E i \in Outputs : CompAcquire(i)
               \/ CompCancel
               \/ CompDraw
               \/ \E d \in Dyn : CompDirectCheck(d)
      BY <2>1 DEF CompAcquire, CompCancel, CompDraw, CompDirectCheck, Remembers, history
    <2>2. ASSUME NEW ok \in SUBSET Active, NEW lost \in SUBSET Active,
                 \/ CompPublish(ok, lost) \/ CompPublishDirect(ok, lost)
                 \/ \E d \in Dyn : CompUnregister(d, ok, lost)
                 \/ CompCursor(lost)
          PROVE  Remembers
      BY <2>2 DEF CompPublish, CompPublishDirect, CompUnregister, CompCursor, Remembers, history
    <2> QED
      BY <1>3, <2>1, <2>2 DEF CompStep, Remembers
  <1>4. CASE GpuStep \/ UNCHANGED vars
    BY <1>4 DEF GpuStep, AppGpuSample, AppGpuSignal, CompGpuWrite, Remembers, history, vars
  <1> QED
    BY <1>1, <1>2, <1>3, <1>4 DEF Next

\* What the history says is never taken back.
LEMMA HistoryGrows ==
  ASSUME PastTypes, [Next]_vars
  PROVE  PastTypes' /\ overlaps \subseteq overlaps' /\ stale \subseteq stale'
  <1>1. ASSUME NEW c \in Conns, HsAdd(c)
        PROVE  stale' = stale /\ overlaps' \in {overlaps, overlaps \cup {c}}
    BY <1>1 DEF HsAdd
  <1>2. CASE CompResize
    BY <1>2 DEF CompResize, PastTypes
  <1> QED
    BY <1>1, <1>2, HistoryStep DEF Remembers, history, PastTypes

\* Every step keeps the types.
LEMMA TypeStep == TypeOK /\ [Next]_vars => TypeOK'
  <1> SUFFICES ASSUME TypeOK, [Next]_vars PROVE TypeOK'
    OBVIOUS
  <1>1. StateTypes'
    <2>1. ASSUME NEW c \in Conns, AcceptStep(c) \/ ReaderStep(c) PROVE StateTypes'
      BY <2>1, TypeAccept, TypeAdd, TypeLeave, TypeReader DEF AcceptStep, ReaderStep
    <2>2. CASE AppStep
      <3>1. ASSUME NEW c \in Conns, NEW caps \in {"v2"} \cup (IF LegacyApp THEN {"legacy"} ELSE {}),
                   AppConnect(c, caps)
            PROVE  StateTypes'
        <4>1. caps \in {"v2", "legacy"}
          OBVIOUS
        <4> QED
          BY <3>1, <4>1, TypeConnect
      <3> QED
        BY <2>2, <3>1, TypeClose, TypePresent, TypeRead, TypeWrite DEF AppStep, AppTick, AppLost
    <2>3. CASE CompStep
      BY <2>3, TypeRepaint, TypePublish, TypeDirect, TypeDropping, TypeResize DEF CompStep
    <2>4. CASE GpuStep
      BY <2>4, TypeGpu
    <2>5. CASE UNCHANGED vars
      BY <2>5, UnchangedTypes, TypePartsNext DEF vars, server
    <2> QED
      BY <2>1, <2>2, <2>3, <2>4, <2>5 DEF Next
  <1>2. PastTypes'
    BY TypeParts, HistoryGrows
  <1> QED
    BY <1>1, <1>2 DEF StateTypes, TypeOK, ServerTypes, QueueTypes, StreamTypes, ConnTypes, LinkTypes,
                      LinkGen, GpuTypes, CompTypes, PastTypes

\* Type correctness of the stream.
THEOREM TypeCorrect == Spec => []TypeOK
  BY TypeInit, TypeStep, PTL DEF Spec

-----------------------------------------------------------------------------
(* The client table.                                                       *)

\* A slot's connection finished its handshake in that slot, against the outputs
\* that are current now.
TableSound ==
    \A s \in Active : /\ conns[clients[s]].slot = s
                      /\ conns[clients[s]].phase \in {"added", "attached"}
                      /\ conns[clients[s]].gen = generation

\* A stream-v2 client has no other client beside it.
V2Alone == \A s \in V2Mask : \A t \in Active : s = t

TableInv == TableSound /\ V2Alone /\ PendingOwnedByLive

\* The step takes the clients in the slots `lost' out of the table and leaves
\* the others where they are.
Shrinks(lost) ==
    /\ \A s \in ClientSlots : clients'[s] = IF s \in lost THEN NoConn ELSE clients[s]
    /\ \A s \in Active \ lost :
          /\ conns'[clients[s]].phase \in {"added", "attached"}
          /\ conns'[clients[s]].slot = conns[clients[s]].slot
          /\ conns'[clients[s]].caps = conns[clients[s]].caps
          /\ conns'[clients[s]].gen = conns[clients[s]].gen

\* A client in the table is a connection.
LEMMA ActiveFacts ==
  ASSUME TypeOK, NEW s \in Active
  PROVE  s \in ClientSlots /\ clients[s] \in Conns /\ conns[clients[s]] \in ConnRecords
  BY TypeParts DEF Active, ServerTypes, ConnTypes

\* What is left of the table is sound.
LEMMA ShrinkFacts ==
  ASSUME TypeOK, TableInv, NEW lost, Shrinks(lost), generation' = generation \/ Active \subseteq lost
  PROVE  /\ Active' = Active \ lost
         /\ V2Mask' = V2Mask \ lost
         /\ TableSound' /\ V2Alone'
  <1> USE DEF Shrinks
  <1>1. Active' = Active \ lost
    BY DEF Active
  <1>2. \A s \in Active \ lost : s \in ClientSlots /\ clients'[s] = clients[s]
    BY DEF Active
  <1>3. \A s \in Active \ lost : conns'[clients[s]].caps = conns[clients[s]].caps
    OBVIOUS
  <1>4. V2Mask' = V2Mask \ lost
    BY <1>1, <1>2, <1>3 DEF V2Mask
  <1>5. TableSound'
    <2> SUFFICES ASSUME NEW s \in Active'
                 PROVE  /\ conns'[clients'[s]].slot = s
                        /\ conns'[clients'[s]].phase \in {"added", "attached"}
                        /\ conns'[clients'[s]].gen = generation'
      BY DEF TableSound
    <2>1. s \in Active \ lost /\ clients'[s] = clients[s]
      BY <1>1, <1>2
    <2>2. generation' = generation
      BY <2>1
    <2> QED
      BY <2>1, <2>2 DEF TableInv, TableSound
  <1>6. V2Alone'
    BY <1>1, <1>4 DEF V2Alone, TableInv
  <1> QED
    BY <1>1, <1>4, <1>5, <1>6

\* Taking slots out of the table.
LEMMA WithoutFacts ==
  ASSUME NEW lost, clients' = ClientsWithout(lost)
  PROVE  \A s \in ClientSlots : clients'[s] = IF s \in lost THEN NoConn ELSE clients[s]
  BY DEF ClientsWithout

\* A step that changes one connection outside the table, or in the table but
\* neither its handshake nor its place.
LEMMA OneConnShrinks ==
  ASSUME TypeOK, TableInv, NEW c \in Conns, NEW r, Becomes(c, r), UNCHANGED clients,
         \/ conns[c].phase \notin {"added", "attached"}
         \/ /\ r.phase \in {"added", "attached"} /\ r.slot = conns[c].slot
            /\ r.caps = conns[c].caps /\ r.gen = conns[c].gen
  PROVE  Shrinks({})
  <1>1. conns'[c] = r /\ \A b \in Conns : b # c => conns'[b] = conns[b]
    BY OneConn, TypeParts
  <1>2. ASSUME NEW s \in Active
        PROVE  /\ conns'[clients[s]].phase \in {"added", "attached"}
               /\ conns'[clients[s]].slot = conns[clients[s]].slot
               /\ conns'[clients[s]].caps = conns[clients[s]].caps
               /\ conns'[clients[s]].gen = conns[clients[s]].gen
    <2>1. conns[clients[s]].phase \in {"added", "attached"} /\ clients[s] \in Conns
      BY ActiveFacts DEF TableInv, TableSound
    <2> QED
      BY <1>1, <2>1
  <1> QED
    BY <1>2 DEF Shrinks

\* Handshakes that add nobody, and readers that read.
LEMMA AcceptShrinks ==
  ASSUME TypeOK, TableInv, NEW c \in Conns,
         \/ HsReply(c) \/ HsFail(c) \/ HsRefuse(c) \/ HsReader(c)
         \/ ReaderTake(c) \/ ReaderPacing(c) \/ ReaderReleased(c)
  PROVE  Shrinks({}) /\ generation' = generation
  <1> USE TypeParts
  <1>0. conns[c] \in ConnRecords
    BY DEF ConnTypes
  <1>1. UNCHANGED <<clients, generation>>
    BY DEF HsReply, HsFail, HsRefuse, HsReader, ReaderTake, ReaderPacing, ReaderReleased, server
  <1>2. CASE HsReply(c) \/ HsFail(c) \/ HsRefuse(c)
    <2>1. conns[c].phase \notin {"added", "attached"}
      BY <1>2 DEF HsReply, HsFail, HsRefuse, HsTurn
    <2> QED
      BY <1>1, <1>2, <2>1, HsReplyEffect, HsRefuseEffect, OneConnShrinks
  <1>3. CASE HsReader(c)
    <2> DEFINE r == [conns[c] EXCEPT !.reader = TRUE, !.phase = IF @ = "added" THEN "attached" ELSE @]
    <2>1. /\ r.phase = IF conns[c].phase = "added" THEN "attached" ELSE conns[c].phase
          /\ r.slot = conns[c].slot /\ r.caps = conns[c].caps /\ r.gen = conns[c].gen
      BY <1>0 DEF ConnRecords
    <2>2. Becomes(c, r)
      BY <1>3, HsReaderEffect
    <2> HIDE DEF r
    <2> QED
      BY <1>1, <2>1, <2>2, OneConnShrinks
  <1>4. CASE ReaderTake(c) \/ ReaderPacing(c) \/ ReaderReleased(c)
    <2>1. PICK r : /\ Becomes(c, r) /\ r.phase = conns[c].phase
                   /\ r.slot = conns[c].slot /\ r.caps = conns[c].caps /\ r.gen = conns[c].gen
      <3>1. CASE ReaderTake(c)
        <4> DEFINE x == Tail(conns[c].in)
                   y == IF Live(c) THEN Head(conns[c].in) ELSE NoRecord
                   r == [conns[c] EXCEPT !.in = x, !.checked = y]
        <4>1. Becomes(c, r)
          BY <3>1, ReaderTakeEffect
        <4> HIDE DEF x, y
        <4>2. /\ r.phase = conns[c].phase
              /\ r.slot = conns[c].slot /\ r.caps = conns[c].caps /\ r.gen = conns[c].gen
          BY <1>0 DEF ConnRecords
        <4> HIDE DEF r
        <4> QED
          BY <4>1, <4>2
      <3>2. CASE ReaderPacing(c) \/ ReaderReleased(c)
        <4> DEFINE r == [conns[c] EXCEPT !.checked = NoRecord]
        <4>1. Becomes(c, r)
          BY <3>2, AppliedEffect
        <4>2. /\ r.phase = conns[c].phase
              /\ r.slot = conns[c].slot /\ r.caps = conns[c].caps /\ r.gen = conns[c].gen
          BY <1>0 DEF ConnRecords
        <4> HIDE DEF r
        <4> QED
          BY <4>1, <4>2
      <3> QED
        BY <1>4, <3>1, <3>2
    <2> QED
      BY <1>1, <2>1, OneConnShrinks
  <1> QED
    BY <1>1, <1>2, <1>3, <1>4

\* A thread that ends takes its own client along and no other.
LEMMA LeaveShrinks ==
  ASSUME TypeOK, TableInv, NEW c \in Conns, HsReaderFails(c) \/ ReaderExit(c)
  PROVE  Shrinks(Lost(c)) /\ generation' = generation
  <1>1. clients' = ClientsWithout(Lost(c)) /\ generation' = generation
    BY LeaveEffect, TypeParts
  <1>2. \E r : Becomes(c, r)
    BY LeaveEffect, TypeParts
  <1>3. \A b \in Conns : b # c => conns'[b] = conns[b]
    BY <1>2, OneConn, TypeParts
  <1>4. ASSUME NEW s \in Active \ Lost(c)
        PROVE  clients[s] \in Conns /\ clients[s] # c
    BY ActiveFacts DEF TableInv, TableSound, Lost, Live
  <1>5. \A s \in Active \ Lost(c) : conns'[clients[s]] = conns[clients[s]]
    BY <1>3, <1>4
  <1> QED
    BY <1>1, <1>5, WithoutFacts DEF Shrinks, TableInv, TableSound

\* The step changes at most connection c, and not its handshake, its place or
\* its reader.
Touches(c) ==
    /\ c \in Conns
    /\ \A b \in Conns : b # c => conns'[b] = conns[b]
    /\ conns'[c].phase = conns[c].phase /\ conns'[c].slot = conns[c].slot
    /\ conns'[c].caps = conns[c].caps /\ conns'[c].gen = conns[c].gen
    /\ conns'[c].reader = conns[c].reader

\* What the app changes of its connection by reading a record,
LEMMA ReadTouches ==
  ASSUME TypeOK, AppDirty \/ AppSurface \/ AppSurfaceDrop
  PROVE  /\ Touches(app.conn)
         /\ conns'[app.conn].out = Tail(conns[app.conn].out)
         /\ conns'[app.conn].app = conns[app.conn].app
  <1> DEFINE c == app.conn
  <1>0. c \in Conns /\ conns[c] \in ConnRecords /\ ConnTypes
    BY ReadEffect, TypeParts DEF ConnTypes
  <1>1. CASE AppDirty
    <2> DEFINE x == Tail(conns[c].out)
               y == IF app.held THEN Append(conns[c].in, ReleasedRecord) ELSE conns[c].in
    <2>1. Becomes(c, [conns[c] EXCEPT !.out = x, !.in = y])
      BY <1>1, ReadEffect
    <2> HIDE DEF x, y
    <2>2. conns'[c] = [conns[c] EXCEPT !.out = x, !.in = y] /\ \A b \in Conns : b # c => conns'[b] = conns[b]
      BY <1>0, <2>1, OneConn
    <2>3. conns'[c].out = x /\ conns'[c].app = conns[c].app /\ Touches(c)
      BY <1>0, <2>2 DEF ConnRecords, Touches
    <2> QED
      BY <2>3 DEF x
  <1>2. CASE AppSurface \/ AppSurfaceDrop
    <2> DEFINE x == Tail(conns[c].out)
    <2>1. Becomes(c, [conns[c] EXCEPT !.out = x])
      BY <1>2, ReadEffect
    <2> HIDE DEF x
    <2>2. conns'[c] = [conns[c] EXCEPT !.out = x] /\ \A b \in Conns : b # c => conns'[b] = conns[b]
      BY <1>0, <2>1, OneConn
    <2>3. conns'[c].out = x /\ conns'[c].app = conns[c].app /\ Touches(c)
      BY <1>0, <2>2 DEF ConnRecords, Touches
    <2> QED
      BY <2>3 DEF x
  <1> QED
    BY <1>1, <1>2

\* by writing,
LEMMA WriteTouches ==
  ASSUME TypeOK, AppPacing \/ AppBeginClose
  PROVE  /\ Touches(app.conn)
         /\ conns'[app.conn].out = conns[app.conn].out
         /\ conns'[app.conn].app = conns[app.conn].app
  <1> DEFINE c == app.conn
  <1>0. c \in Conns /\ conns[c] \in ConnRecords /\ ConnTypes
    BY WriteEffect, TypeParts DEF ConnTypes
  <1>1. ASSUME NEW m, Becomes(c, [conns[c] EXCEPT !.in = Append(@, m)])
        PROVE  Touches(c) /\ conns'[c].out = conns[c].out /\ conns'[c].app = conns[c].app
    <2> DEFINE y == Append(conns[c].in, m)
    <2>1. Becomes(c, [conns[c] EXCEPT !.in = y])
      BY <1>1
    <2> HIDE DEF y
    <2>2. conns'[c] = [conns[c] EXCEPT !.in = y] /\ \A b \in Conns : b # c => conns'[b] = conns[b]
      BY <1>0, <2>1, OneConn
    <2> QED
      BY <1>0, <2>2 DEF ConnRecords, Touches
  <1>2. CASE conns' = conns
    BY <1>0, <1>2 DEF Touches
  <1>3. CASE conns' # conns
    BY <1>1, <1>3, WriteEffect
  <1> QED
    BY <1>2, <1>3

\* and by giving up the attempt to connect.
LEMMA AbandonTouches ==
  ASSUME TypeOK, AppAbandon
  PROVE  /\ Touches(app.conn)
         /\ conns'[app.conn].out = conns[app.conn].out
         /\ conns'[app.conn].app = "orphan"
  <1>0. app.conn \in Conns /\ conns[app.conn] \in ConnRecords /\ ConnTypes
    BY LinkFacts, TypeParts DEF AppAbandon
  <1>1. /\ conns'[app.conn] = [conns[app.conn] EXCEPT !.app = "orphan"]
        /\ \A b \in Conns : b # app.conn => conns'[b] = conns[b]
    BY <1>0, AbandonEffect, OneConn
  <1> QED
    BY <1>0, <1>1 DEF ConnRecords, Touches

\* The app leaves the table alone.
LEMMA AppShrinks ==
  ASSUME TypeOK, TableInv, AppStep
  PROVE  Shrinks({}) /\ generation' = generation
  <1> USE TypeParts
  <1>1. UNCHANGED <<clients, generation>>
    BY DEF AppStep, AppTick, AppConnect, AppOrphanClose, AppPresent, AppAbandon, AppPacing,
           AppBeginClose, AppCrash, AppAdopt, AppDirty, AppSurface, AppSurfaceDrop, AppLost,
           AppFinishClose, server
  <1>2. ASSUME NEW c \in Conns, NEW caps, AppConnect(c, caps)
        PROVE  Shrinks({})
    <2>1. conns[c].phase = "unused"
      BY <1>2 DEF AppConnect
    <2> QED
      BY <1>1, <1>2, <2>1, ConnectEffect, OneConnShrinks
  <1>3. \A s \in Active : clients[s] \in Conns /\ conns[clients[s]].phase \in {"added", "attached"}
    BY ActiveFacts DEF TableInv, TableSound
  <1>4. ASSUME UNCHANGED conns
        PROVE  Shrinks({})
    BY <1>1, <1>3, <1>4 DEF Shrinks
  <1>5. ASSUME NEW ends, conns' = AppEndsClosed(ends)
        PROVE  Shrinks({})
    BY <1>1, <1>3, <1>5, ClosedFacts DEF Shrinks
  <1>6. ASSUME NEW c, Touches(c)
        PROVE  Shrinks({})
    BY <1>1, <1>3, <1>6 DEF Shrinks, Touches
  <1>7. CASE AppDirty \/ AppSurface \/ AppSurfaceDrop \/ AppPacing \/ AppBeginClose \/ AppAbandon
    BY <1>1, <1>6, <1>7, ReadTouches, WriteTouches, AbandonTouches
  <1>8. CASE (\E c \in Conns : AppOrphanClose(c)) \/ AppFinishClose \/ AppCrash
    BY <1>1, <1>5, <1>8 DEF AppOrphanClose, AppFinishClose, AppCrash
  <1>9. CASE AppAdopt \/ AppPresent
    BY <1>1, <1>4, <1>9 DEF AppAdopt, AppPresent
  <1>10. AppLost => AppBeginClose
    BY DEF AppLost
  <1> QED
    BY <1>1, <1>2, <1>7, <1>8, <1>9, <1>10 DEF AppStep, AppTick

\* A broadcast drops the clients it names.
LEMMA BroadcastShrinks ==
  ASSUME TypeOK, TableInv, NEW ok, NEW lost, NEW recs, Broadcasts(ok, lost, recs)
  PROVE  Shrinks(lost) /\ generation' = generation
  <1> USE DEF Broadcasts
  <1>1. \A s \in ClientSlots : clients'[s] = IF s \in lost THEN NoConn ELSE clients[s]
    BY WithoutFacts
  <1>2. ASSUME NEW s \in Active \ lost
        PROVE  ~ Loses(clients[s], lost) /\ clients[s] \in Conns
    <2>1. \A t \in lost : t \in Active
      OBVIOUS
    <2>2. clients[s] \in Conns
      BY ActiveFacts
    <2>3. \A t \in lost : clients[t] # clients[s]
      BY <2>1 DEF TableInv, TableSound
    <2> QED
      BY <2>2, <2>3 DEF Loses
  <1>3. \A c \in Conns : Keeps(c) /\ (~ Loses(c, lost) => conns'[c].phase = conns[c].phase)
    BY SentFacts
  <1> QED
    BY <1>1, <1>2, <1>3 DEF Shrinks, Keeps, TableInv, TableSound

\* A new client: the slot it gets was free, and it is alone if it or another is
\* a stream-v2 client.
LEMMA AddFacts ==
  ASSUME TypeOK, TableInv, NEW c \in Conns, HsAdd(c)
  PROVE  /\ HsSlot \in ClientSlots /\ HsSlot \notin Active
         /\ clients'[HsSlot] = c /\ conns'[c].slot = HsSlot
         /\ conns'[c].phase = "added" /\ conns'[c].gen = generation /\ conns'[c].caps = conns[c].caps
         /\ conns'[c].out = conns[c].out /\ conns'[c].app = conns[c].app
         /\ \A b \in Conns : b # c => conns'[b] = conns[b]
         /\ \A s \in ClientSlots : s # HsSlot => clients'[s] = clients[s]
         /\ \A s \in Active : clients[s] # c
         /\ Active' = Active \cup {HsSlot}
         /\ V2Mask \subseteq V2Mask'
         /\ TableSound' /\ V2Alone'
  <1> USE TypeParts
  <1>1. HsSlot \in ClientSlots /\ HsSlot \notin Active
    BY NewSlotFree DEF HsAdd
  <1>2. conns'[c] = [conns[c] EXCEPT !.phase = "added", !.slot = HsSlot]
    BY HsAddEffect, OneConn
  <1>3. /\ conns'[c].slot = HsSlot /\ conns'[c].phase = "added"
        /\ conns'[c].gen = conns[c].gen /\ conns'[c].caps = conns[c].caps
        /\ conns'[c].out = conns[c].out /\ conns'[c].app = conns[c].app
    BY <1>2 DEF ConnTypes, ConnRecords
  <1>4. \A b \in Conns : b # c => conns'[b] = conns[b]
    BY HsAddEffect, OneConn
  <1>5. conns[c].gen = generation /\ generation' = generation
    BY DEF HsAdd, HsStale
  <1>6. clients'[HsSlot] = c /\ \A s \in ClientSlots : s # HsSlot => clients'[s] = clients[s]
    BY <1>1 DEF HsAdd, ServerTypes
  <1>7. Active' = Active \cup {HsSlot}
    BY <1>1, <1>6, Basics DEF Active
  <1>8. \A s \in Active : clients[s] # c
    BY DEF TableInv, TableSound, HsAdd
  <1>9. \A s \in Active : s \in ClientSlots /\ clients[s] \in Conns
    BY ActiveFacts
  <1>10. \A s \in Active : clients'[s] = clients[s] /\ conns'[clients[s]] = conns[clients[s]]
    BY <1>1, <1>4, <1>6, <1>8, <1>9
  <1>11. V2Mask \subseteq V2Mask'
    BY <1>7, <1>10 DEF V2Mask
  <1>12. TableSound'
    <2> SUFFICES ASSUME NEW s \in Active'
                 PROVE  /\ conns'[clients'[s]].slot = s
                        /\ conns'[clients'[s]].phase \in {"added", "attached"}
                        /\ conns'[clients'[s]].gen = generation'
      BY DEF TableSound
    <2>1. CASE s = HsSlot
      BY <1>3, <1>5, <1>6, <2>1
    <2>2. CASE s \in Active
      BY <1>5, <1>10, <2>2 DEF TableInv, TableSound
    <2> QED
      BY <1>7, <2>1, <2>2
  <1>13. V2Alone'
    <2>1. CASE conns[c].caps = "v2"
      <3>1. Active = {}
        BY <2>1 DEF HsAdd, HsExcluded
      <3> QED
        BY <1>7, <3>1 DEF V2Alone, V2Mask
    <2>2. CASE conns[c].caps # "v2"
      <3>1. V2Mask = {}
        BY <2>2 DEF HsAdd, HsExcluded
      <3>2. V2Mask' = {}
        BY <1>3, <1>6, <1>7, <1>10, <2>2, <3>1 DEF V2Mask
      <3> QED
        BY <3>2 DEF V2Alone
    <2> QED
      BY <2>1, <2>2
  <1> QED
    BY <1>1, <1>3, <1>4, <1>5, <1>6, <1>7, <1>8, <1>11, <1>12, <1>13

\* The compositor's steps: the clients they drop, and the buffers that are owed
\* afterwards.
LEMMA CompTable ==
  ASSUME TypeOK, TableInv, CompStep
  PROVE  TableInv'
  <1> USE TypeParts
  <1>0. queue \in Queues /\ \A i \in Outputs : queue.slots[i].pending \subseteq V2Mask
    BY DEF QueueTypes, TableInv, PendingOwnedByLive
  <1>1. ASSUME UNCHANGED <<generation, clients, conns>>,
               \A i \in Outputs : queue'.slots[i].pending = queue.slots[i].pending
        PROVE  TableInv'
    <2>1. Shrinks({})
      BY <1>1 DEF Shrinks, TableInv, TableSound
    <2>2. V2Mask' = V2Mask /\ TableSound' /\ V2Alone'
      BY <1>1, <2>1, ShrinkFacts
    <2> QED
      BY <1>0, <1>1, <2>2 DEF TableInv, PendingOwnedByLive
  <1>2. ASSUME NEW ok, NEW lost, NEW recs, Broadcasts(ok, lost, recs),
               \A i \in Outputs : queue'.slots[i].pending \subseteq V2Mask \ lost
        PROVE  TableInv'
    <2>1. V2Mask' = V2Mask \ lost /\ TableSound' /\ V2Alone'
      BY <1>2, BroadcastShrinks, ShrinkFacts
    <2> QED
      BY <1>2, <2>1 DEF TableInv, PendingOwnedByLive
  <1>3. ASSUME NEW i \in Outputs, CompAcquire(i) PROVE TableInv'
    BY <1>0, <1>1, <1>3, AcquirePending DEF CompAcquire
  <1>4. CASE CompCancel
    <2>1. comp.target \in Outputs
      BY <1>4 DEF CompCancel, CompTypes
    <2> QED
      BY <1>0, <1>1, <1>4, <2>1, CancelPending DEF CompCancel
  <1>5. CASE CompDraw \/ \E d \in Dyn : CompDirectCheck(d)
    BY <1>1, <1>5 DEF CompDraw, CompDirectCheck, server
  <1>6. ASSUME NEW ok \in SUBSET Active, NEW lost \in SUBSET Active, CompPublish(ok, lost)
        PROVE  TableInv'
    <2>1. comp.target \in Outputs /\ Broadcasts(ok, lost, <<DirtyRecord(comp.target)>>)
      BY <1>6, BroadcastEffect
    <2>2. ok \cap lost = {} /\ ok \cap V2Mask \in SUBSET ClientSlots
      BY <2>1 DEF Broadcasts, V2Mask, Active
    <2>3. dirty_seq + 1 \in Nat
      BY Basics DEF ServerTypes
    <2> DEFINE q == QueueDropClients(queue, lost)
    <2>4. q \in Queues /\ \A j \in Outputs : q.slots[j].pending = queue.slots[j].pending \ lost
      BY <1>0, DropPending
    <2>5. queue' = QueuePublish(q, comp.target, ok \cap V2Mask, dirty_seq + 1)
      BY <1>6 DEF CompPublish
    <2> HIDE DEF q
    <2>6. \A j \in Outputs : queue'.slots[j].pending
             = IF comp.target = j THEN ok \cap V2Mask ELSE q.slots[j].pending
      BY <2>1, <2>2, <2>3, <2>4, <2>5, PublishPending
    <2>7. \A j \in Outputs : queue'.slots[j].pending \subseteq V2Mask \ lost
      BY <1>0, <2>2, <2>4, <2>6
    <2> QED
      BY <1>2, <2>1, <2>7
  <1>7. ASSUME NEW lost, queue' = QueueDropClients(queue, lost)
        PROVE  \A i \in Outputs : queue'.slots[i].pending \subseteq V2Mask \ lost
    BY <1>0, <1>7, DropPending
  <1>8. ASSUME NEW ok \in SUBSET Active, NEW lost \in SUBSET Active,
               \/ CompPublishDirect(ok, lost)
               \/ \E d \in Dyn : CompUnregister(d, ok, lost)
               \/ CompCursor(lost)
        PROVE  TableInv'
    <2>1. queue' = QueueDropClients(queue, lost)
      BY <1>8 DEF CompPublishDirect, CompUnregister, CompCursor
    <2>2. \E x, y : Broadcasts(x, lost, y)
      BY <1>8, BroadcastEffect
    <2> QED
      BY <1>2, <1>7, <2>1, <2>2
  <1>9. CASE CompResize
    <2>1. Shrinks(ClientSlots)
      BY <1>9, WithoutFacts DEF CompResize, Shrinks, Active
    <2>2. Active \subseteq ClientSlots
      BY DEF Active
    <2>3. TableSound' /\ V2Alone'
      BY <2>1, <2>2, ShrinkFacts
    <2>4. PendingOwnedByLive'
      BY <1>9, ResetPending DEF CompResize, PendingOwnedByLive
    <2> QED
      BY <2>3, <2>4 DEF TableInv
  <1> QED
    BY <1>3, <1>4, <1>5, <1>6, <1>8, <1>9 DEF CompStep

\* Accept thread and readers.
LEMMA ThreadTable ==
  ASSUME TypeOK, TableInv, NEW c \in Conns, AcceptStep(c) \/ ReaderStep(c)
  PROVE  TableInv'
  <1> USE TypeParts
  <1>0. queue \in Queues /\ \A i \in Outputs : queue.slots[i].pending \subseteq V2Mask
    BY DEF QueueTypes, TableInv, PendingOwnedByLive
  <1>1. CASE HsAdd(c)
    <2>1. V2Mask \subseteq V2Mask' /\ TableSound' /\ V2Alone'
      BY <1>1, AddFacts
    <2>2. \A i \in Outputs : queue'.slots[i].pending = queue.slots[i].pending
      BY <1>0, <1>1, RecoverPending DEF HsAdd
    <2> QED
      BY <1>0, <2>1, <2>2 DEF TableInv, PendingOwnedByLive
  <1>2. CASE HsReaderFails(c) \/ ReaderExit(c)
    <2>1. V2Mask' = V2Mask \ Lost(c) /\ TableSound' /\ V2Alone'
      BY <1>2, LeaveShrinks, ShrinkFacts
    <2>2. queue' = QueueDropClients(queue, Lost(c))
      BY <1>2, LeaveEffect
    <2>3. \A i \in Outputs : queue'.slots[i].pending = queue.slots[i].pending \ Lost(c)
      BY <1>0, <2>2, DropPending
    <2> QED
      BY <1>0, <2>1, <2>3 DEF TableInv, PendingOwnedByLive
  <1>3. CASE \/ HsReply(c) \/ HsFail(c) \/ HsRefuse(c) \/ HsReader(c)
             \/ ReaderTake(c) \/ ReaderPacing(c) \/ ReaderReleased(c)
    <2>1. V2Mask' = V2Mask /\ TableSound' /\ V2Alone'
      BY <1>3, AcceptShrinks, ShrinkFacts
    <2>2. \A i \in Outputs : queue'.slots[i].pending \subseteq queue.slots[i].pending
      <3>1. CASE ReaderReleased(c)
        <4> DEFINE m == conns[c].checked
        <4>1. m.seq \in Nat /\ conns[c].slot \in ClientSlots
          BY <3>1, CheckedFacts DEF ConnTypes, ConnRecords
        <4>2. \/ UNCHANGED queue
              \/ m.surf \in Outputs /\ queue' = QueueRelease(queue, m.surf, conns[c].slot, m.seq)
          BY <3>1 DEF ReaderReleased
        <4> HIDE DEF m
        <4> QED
          BY <1>0, <4>1, <4>2, ReleasePending
      <3>2. CASE UNCHANGED queue
        BY <3>2
      <3> QED
        BY <1>3, <3>1, <3>2 DEF HsReply, HsFail, HsRefuse, HsReader, ReaderTake, ReaderPacing, server
    <2> QED
      BY <1>0, <2>1, <2>2 DEF TableInv, PendingOwnedByLive
  <1> QED
    BY <1>1, <1>2, <1>3 DEF AcceptStep, ReaderStep

\* Every step keeps the table sound.
LEMMA TableStep == TypeOK /\ TableInv /\ [Next]_vars => TableInv'
  <1> SUFFICES ASSUME TypeOK, TableInv, [Next]_vars PROVE TableInv'
    OBVIOUS
  <1>1. ASSUME Shrinks({}), generation' = generation, queue' = queue PROVE TableInv'
    <2>1. V2Mask' = V2Mask /\ TableSound' /\ V2Alone'
      BY <1>1, ShrinkFacts
    <2> QED
      BY <1>1, <2>1 DEF TableInv, PendingOwnedByLive
  <1>2. CASE AppStep
    <2>1. queue' = queue
      BY <1>2 DEF AppStep, AppTick, AppConnect, AppOrphanClose, AppPresent, AppAbandon, AppPacing,
             AppBeginClose, AppCrash, AppAdopt, AppDirty, AppSurface, AppSurfaceDrop, AppLost,
             AppFinishClose, server
    <2> QED
      BY <1>1, <1>2, <2>1, AppShrinks
  <1>3. CASE GpuStep \/ UNCHANGED vars
    <2>1. UNCHANGED <<generation, clients, conns, queue>>
      BY <1>3 DEF GpuStep, AppGpuSample, AppGpuSignal, CompGpuWrite, vars, server
    <2>2. Shrinks({})
      BY <2>1 DEF Shrinks, TableInv, TableSound
    <2> QED
      BY <1>1, <2>1, <2>2
  <1> QED
    BY <1>2, <1>3, CompTable, ThreadTable DEF Next

\* Initially the table is empty.
LEMMA TableInit == Init => TableInv
  <1> SUFFICES ASSUME Init PROVE TableInv
    OBVIOUS
  <1>1. Active = {} /\ V2Mask = {}
    BY DEF Init, Active, V2Mask
  <1>2. PendingOwnedByLive
    BY ResetPending DEF Init, PendingOwnedByLive
  <1> QED
    BY <1>1, <1>2 DEF TableInv, TableSound, V2Alone

\* The types and the client table are invariant.
LEMMA TableAlways == Spec => [](TypeOK /\ TableInv)
  BY TypeInit, TypeStep, TableInit, TableStep, PTL DEF Spec

\* Every attached client completed its handshake against the current outputs.
THEOREM ClientsAreCurrent == Spec => []CurrentGeneration
  <1>1. TypeOK /\ TableInv => CurrentGeneration
    BY DEF TableInv, TableSound, CurrentGeneration
  <1> QED
    BY <1>1, TableAlways, PTL

\* A stream-v2 consumer is alone.
THEOREM ConsumerIsAlone == Spec => []SingleConsumer
  <1>1. TypeOK /\ TableInv => SingleConsumer
    <2> SUFFICES ASSUME TableInv, NEW s \in V2Mask PROVE Cardinality(Active) = 1
      BY DEF SingleConsumer
    <2>1. Active = {s}
      BY DEF TableInv, V2Alone, V2Mask
    <2> QED
      BY <2>1, FS_Singleton
  <1> QED
    BY <1>1, TableAlways, PTL

\* Output buffers are owed to attached stream-v2 clients only.
THEOREM DebtsAreLive == Spec => []PendingOwnedByLive
  <1>1. TypeOK /\ TableInv => PendingOwnedByLive
    BY DEF TableInv
  <1> QED
    BY <1>1, TableAlways, PTL

-----------------------------------------------------------------------------
(* What the app knows.                                                     *)

\* The surfaces the app was given and not told to drop, those a resize left
\* marked as given among them, and the ones whose client buffer was destroyed.
Given == (app.known \ app.retired) \cup stale
Gone == {d \in Dyn : streams[d].state = "gone"}

Announced(out, d) == \E j \in DOMAIN out : out[j].type = "surface" /\ out[j].surf = d

\* In the records under way, a frame of a direct surface comes after the
\* surface, and the surface is dropped last.
InOrder(out, given, gone) ==
    /\ \A i \in DOMAIN out : out[i].type = "dirty" /\ out[i].surf \in Dyn =>
          \/ out[i].surf \in given
          \/ \E j \in DOMAIN out : j < i /\ out[j].type = "surface" /\ out[j].surf = out[i].surf
    /\ \A j \in DOMAIN out : out[j].type = "drop" =>
          /\ out[j].surf \in gone
          /\ \A i \in DOMAIN out : j < i => out[i].surf # out[j].surf

\* The app has its outputs from the handshake on, and a legacy connection
\* carries frames of output 0 only.
LinkInv ==
    /\ app.conn # NoConn => conns[app.conn].app = "open"
    /\ \A c \in Conns : conns[c].phase = "unused" => conns[c].out = <<>>
    /\ app.retired \subseteq app.known \cap {app.surf}
    /\ app.state \in {"none", "connecting"} => app.known = {}
    /\ app.state = "live" => IF conns[app.conn].caps = "v2" THEN Outputs \subseteq app.known ELSE 0 \in app.known
    /\ \A c \in Conns : conns[c].caps = "legacy" =>
          \A i \in DOMAIN conns[c].out : conns[c].out[i].type = "dirty" => conns[c].out[i].surf = 0

\* The bookkeeping of direct surfaces: a sent bit belongs to a registered
\* surface and, unless a resize left it, to an attached stream-v2 client.
SentInv ==
    /\ \A d \in Dyn : /\ d \notin stale => streams[d].sent \subseteq V2Mask
                      /\ streams[d].released_seq <= streams[d].last_seq
                      /\ streams[d].last_seq <= dirty_seq
                      /\ streams[d].state # "registered" => streams[d].sent = {}
    /\ comp.direct # Nothing => streams[comp.direct].state = "registered"

\* A consumer whose sent bit is set has the surface, or will read it.
GivenInv ==
    app.conn # NoConn =>
       /\ InOrder(conns[app.conn].out, Given, Gone)
       /\ \A d \in Dyn : \A s \in streams[d].sent :
             clients[s] = app.conn => d \in Given \/ Announced(conns[app.conn].out, d)

DirectInv == SentInv /\ GivenInv

\* Knowing more, or more surfaces gone, keeps the order.
LEMMA OrderMore ==
  ASSUME NEW out, NEW given, NEW gone, NEW given2, NEW gone2,
         InOrder(out, given, gone), given \subseteq given2, gone \subseteq gone2
  PROVE  InOrder(out, given2, gone2)
  BY DEF InOrder

\* The indices of a sequence and of its tail.
LEMMA TailFacts ==
  ASSUME NEW S, NEW q \in Seq(S), q # <<>>
  PROVE  /\ 1 \in DOMAIN q /\ Head(q) = q[1]
         /\ \A i \in DOMAIN Tail(q) : i + 1 \in DOMAIN q /\ Tail(q)[i] = q[i + 1] /\ i \in Nat /\ i > 0
         /\ \A i \in DOMAIN q : i = 1 \/ (i - 1 \in DOMAIN Tail(q) /\ q[i] = Tail(q)[i - 1])
  <1>1. /\ Len(q) \in Nat \ {0} /\ DOMAIN q = 1..Len(q) /\ Head(q) = q[1]
        /\ Len(Tail(q)) = Len(q) - 1 /\ DOMAIN Tail(q) = 1..(Len(q) - 1)
        /\ \A i \in 1..(Len(q) - 1) : Tail(q)[i] = q[i + 1]
    OBVIOUS
  <1> QED
    BY <1>1

\* Reading a record keeps the order, if what it announces is given from then on
\* and only what it drops is not.
LEMMA OrderRead ==
  ASSUME NEW out \in Seq(Records), NEW given, NEW gone, NEW given2, out # <<>>,
         InOrder(out, given, gone),
         Head(out).type = "surface" => Head(out).surf \in given2,
         \A e \in given : e \in given2 \/ (Head(out).type = "drop" /\ Head(out).surf = e)
  PROVE  InOrder(Tail(out), given2, gone)
  <1> DEFINE t == Tail(out)
  <1>1. /\ 1 \in DOMAIN out /\ Head(out) = out[1]
        /\ \A i \in DOMAIN t : i + 1 \in DOMAIN out /\ t[i] = out[i + 1] /\ i \in Nat /\ i > 0
        /\ \A i \in DOMAIN out : i = 1 \/ (i - 1 \in DOMAIN t /\ out[i] = t[i - 1])
    BY TailFacts
  <1>0. \A i \in DOMAIN out : i \in Nat
    OBVIOUS
  <1> HIDE DEF t
  <1>2. ASSUME NEW i \in DOMAIN t, t[i].type = "dirty", t[i].surf \in Dyn
        PROVE  \/ t[i].surf \in given2
               \/ \E j \in DOMAIN t : j < i /\ t[j].type = "surface" /\ t[j].surf = t[i].surf
    <2> DEFINE d == t[i].surf
    <2>1. i + 1 \in DOMAIN out /\ out[i + 1] = t[i] /\ i \in Nat /\ i > 0
      BY <1>1
    <2>2. \/ d \in given
          \/ \E j \in DOMAIN out : j < i + 1 /\ out[j].type = "surface" /\ out[j].surf = d
      BY <1>2, <2>1 DEF InOrder
    <2>3. CASE d \in given
      <3>1. ASSUME Head(out).type = "drop", Head(out).surf = d PROVE FALSE
        <4>1. \A k \in DOMAIN out : 1 < k => out[k].surf # out[1].surf
          BY <1>1, <3>1 DEF InOrder
        <4>2. 1 < i + 1
          BY <2>1
        <4>3. out[i + 1].surf # out[1].surf
          BY <2>1, <4>1, <4>2
        <4> QED
          BY <1>1, <2>1, <3>1, <4>3
      <3> QED
        BY <2>3, <3>1
    <2>4. ASSUME NEW j \in DOMAIN out, j < i + 1, out[j].type = "surface", out[j].surf = d
          PROVE  \/ d \in given2
                 \/ \E k \in DOMAIN t : k < i /\ t[k].type = "surface" /\ t[k].surf = d
      <3>1. CASE j = 1
        BY <1>1, <2>4, <3>1
      <3>2. CASE j # 1
        <4>1. j - 1 \in DOMAIN t /\ out[j] = t[j - 1] /\ j - 1 < i
          BY <1>0, <1>1, <2>1, <2>4, <3>2
        <4> QED
          BY <2>4, <4>1
      <3> QED
        BY <3>1, <3>2
    <2> QED
      BY <2>2, <2>3, <2>4
  <1>3. ASSUME NEW j \in DOMAIN t, t[j].type = "drop"
        PROVE  /\ t[j].surf \in gone
               /\ \A i \in DOMAIN t : j < i => t[i].surf # t[j].surf
    <2>1. j + 1 \in DOMAIN out /\ out[j + 1] = t[j] /\ j \in Nat
      BY <1>1
    <2>2. out[j + 1].surf \in gone /\ \A i \in DOMAIN out : j + 1 < i => out[i].surf # out[j + 1].surf
      BY <1>3, <2>1 DEF InOrder
    <2>3. ASSUME NEW i \in DOMAIN t, j < i PROVE t[i].surf # t[j].surf
      <3>1. i + 1 \in DOMAIN out /\ out[i + 1] = t[i] /\ i \in Nat
        BY <1>1
      <3> QED
        BY <2>1, <2>2, <2>3, <3>1
    <2> QED
      BY <2>1, <2>2, <2>3
  <1> QED
    BY <1>2, <1>3 DEF InOrder, t

\* What is announced stays announced until it is read.
LEMMA AnnouncedRead ==
  ASSUME NEW out \in Seq(Records), out # <<>>, NEW d, Announced(out, d)
  PROVE  Announced(Tail(out), d) \/ (Head(out).type = "surface" /\ Head(out).surf = d)
  <1>1. PICK j \in DOMAIN out : out[j].type = "surface" /\ out[j].surf = d
    BY DEF Announced
  <1>2. Head(out) = out[1] /\ (j = 1 \/ (j - 1 \in DOMAIN Tail(out) /\ out[j] = Tail(out)[j - 1]))
    BY TailFacts
  <1> QED
    BY <1>1, <1>2 DEF Announced

\* The indices of a concatenation.
LEMMA ConcatFacts ==
  ASSUME NEW S, NEW q \in Seq(S), NEW r \in Seq(S)
  PROVE  /\ q \o r \in Seq(S)
         /\ \A i \in DOMAIN q : i \in DOMAIN (q \o r) /\ (q \o r)[i] = q[i] /\ i \in Nat /\ i <= Len(q)
         /\ \A i \in DOMAIN r : /\ Len(q) + i \in DOMAIN (q \o r) /\ (q \o r)[Len(q) + i] = r[i]
                                /\ i \in Nat /\ i > 0
         /\ \A i \in DOMAIN (q \o r) : i \in DOMAIN q \/ i - Len(q) \in DOMAIN r
         /\ Len(q) \in Nat
  <1>1. /\ q \o r \in Seq(S) /\ Len(q) \in Nat /\ Len(r) \in Nat
        /\ DOMAIN q = 1..Len(q) /\ DOMAIN r = 1..Len(r)
        /\ DOMAIN (q \o r) = 1..(Len(q) + Len(r))
        /\ \A i \in 1..(Len(q) + Len(r)) : (q \o r)[i] = IF i <= Len(q) THEN q[i] ELSE r[i - Len(q)]
    OBVIOUS
  <1> QED
    BY <1>1

\* Appending records keeps the order, if they name no surface that is gone, a
\* frame among them has its surface, and a drop among them is the last.
LEMMA OrderAppend ==
  ASSUME NEW out \in Seq(Records), NEW recs \in Seq(Records), NEW given, NEW gone, NEW gone2,
         InOrder(out, given, gone), gone \subseteq gone2,
         \A i \in DOMAIN recs : recs[i].surf \notin gone,
         \A i \in DOMAIN recs : recs[i].type = "dirty" /\ recs[i].surf \in Dyn =>
            \/ recs[i].surf \in given \/ Announced(out, recs[i].surf)
            \/ \E j \in DOMAIN recs : j < i /\ recs[j].type = "surface" /\ recs[j].surf = recs[i].surf,
         \A j \in DOMAIN recs : recs[j].type = "drop" =>
            recs[j].surf \in gone2 /\ \A i \in DOMAIN recs : j < i => recs[i].surf # recs[j].surf
  PROVE  InOrder(out \o recs, given, gone2)
  <1> DEFINE w == out \o recs
             n == Len(out)
  <1>1. /\ \A i \in DOMAIN out : i \in DOMAIN w /\ w[i] = out[i] /\ i \in Nat /\ i <= n
        /\ \A i \in DOMAIN recs : n + i \in DOMAIN w /\ w[n + i] = recs[i] /\ i \in Nat /\ i > 0
        /\ \A i \in DOMAIN w : i \in DOMAIN out \/ i - n \in DOMAIN recs
        /\ n \in Nat
    BY ConcatFacts
  <1>2. \A i \in DOMAIN w : i \in Int
    BY ConcatFacts
  <1> HIDE DEF w, n
  <1>3. ASSUME NEW i \in DOMAIN w, i \notin DOMAIN out
        PROVE  i - n \in DOMAIN recs /\ w[i] = recs[i - n] /\ n < i
    <2>1. i - n \in DOMAIN recs /\ i \in Int /\ i - n > 0
      BY <1>1, <1>2, <1>3
    <2>2. n + (i - n) = i
      BY <1>1, <2>1
    <2>3. w[n + (i - n)] = recs[i - n]
      BY <1>1, <2>1
    <2> QED
      BY <1>1, <2>1, <2>2, <2>3
  <1>4. ASSUME NEW i \in DOMAIN w, w[i].type = "dirty", w[i].surf \in Dyn
        PROVE  \/ w[i].surf \in given
               \/ \E j \in DOMAIN w : j < i /\ w[j].type = "surface" /\ w[j].surf = w[i].surf
    <2>1. CASE i \in DOMAIN out
      <3>1. w[i] = out[i]
        BY <1>1, <2>1
      <3>2. \/ out[i].surf \in given
            \/ \E j \in DOMAIN out : j < i /\ out[j].type = "surface" /\ out[j].surf = out[i].surf
        BY <1>4, <2>1, <3>1 DEF InOrder
      <3> QED
        BY <1>1, <3>1, <3>2
    <2>2. CASE i \notin DOMAIN out
      <3> DEFINE m == i - n
                 d == recs[m].surf
      <3>1. m \in DOMAIN recs /\ w[i] = recs[m] /\ n < i
        BY <1>3, <2>2
      <3>2. \/ d \in given \/ Announced(out, d)
            \/ \E j \in DOMAIN recs : j < m /\ recs[j].type = "surface" /\ recs[j].surf = d
        BY <1>4, <3>1
      <3>3. ASSUME NEW j \in DOMAIN out, out[j].type = "surface", out[j].surf = d
            PROVE  \E k \in DOMAIN w : k < i /\ w[k].type = "surface" /\ w[k].surf = d
        <4>1. j \in DOMAIN w /\ w[j] = out[j] /\ j < i
          BY <1>1, <1>2, <3>1, <3>3
        <4> QED
          BY <3>3, <4>1
      <3>4. ASSUME NEW j \in DOMAIN recs, j < m, recs[j].type = "surface", recs[j].surf = d
            PROVE  \E k \in DOMAIN w : k < i /\ w[k].type = "surface" /\ w[k].surf = d
        <4>1. n + j \in DOMAIN w /\ w[n + j] = recs[j] /\ n + j < i
          BY <1>1, <1>2, <3>4
        <4> QED
          BY <3>4, <4>1
      <3> HIDE DEF m
      <3> QED
        BY <3>1, <3>2, <3>3, <3>4 DEF Announced
    <2> QED
      BY <2>1, <2>2
  <1>5. ASSUME NEW j \in DOMAIN w, w[j].type = "drop"
        PROVE  /\ w[j].surf \in gone2
               /\ \A i \in DOMAIN w : j < i => w[i].surf # w[j].surf
    <2>1. CASE j \in DOMAIN out
      <3>1. w[j] = out[j]
        BY <1>1, <2>1
      <3>2. out[j].surf \in gone /\ \A i \in DOMAIN out : j < i => out[i].surf # out[j].surf
        BY <1>5, <2>1, <3>1 DEF InOrder
      <3>3. ASSUME NEW i \in DOMAIN w, j < i PROVE w[i].surf # w[j].surf
        <4>1. CASE i \in DOMAIN out
          BY <1>1, <3>1, <3>2, <3>3, <4>1
        <4>2. CASE i \notin DOMAIN out
          BY <1>3, <3>1, <3>2, <4>2
        <4> QED
          BY <4>1, <4>2
      <3> QED
        BY <3>1, <3>2, <3>3
    <2>2. CASE j \notin DOMAIN out
      <3> DEFINE m == j - n
      <3>1. m \in DOMAIN recs /\ w[j] = recs[m] /\ n < j
        BY <1>3, <2>2
      <3>2. recs[m].surf \in gone2 /\ \A i \in DOMAIN recs : m < i => recs[i].surf # recs[m].surf
        BY <1>5, <3>1
      <3>3. ASSUME NEW i \in DOMAIN w, j < i PROVE w[i].surf # w[j].surf
        <4>1. i \notin DOMAIN out
          BY <1>1, <1>2, <3>1, <3>3
        <4>2. i - n \in DOMAIN recs /\ w[i] = recs[i - n] /\ m < i - n
          BY <1>1, <1>2, <1>3, <3>3, <4>1
        <4> HIDE DEF m
        <4> QED
          BY <3>1, <3>2, <4>2
      <3> QED
        BY <3>1, <3>2, <3>3
    <2> QED
      BY <2>1, <2>2
  <1> QED
    BY <1>4, <1>5 DEF InOrder, w

\* What is announced stays announced when records are appended.
LEMMA AnnouncedAppend ==
  ASSUME NEW out \in Seq(Records), NEW recs \in Seq(Records), NEW d
  PROVE  Announced(out, d) \/ Announced(recs, d) => Announced(out \o recs, d)
  <1>1. ASSUME Announced(out, d) PROVE Announced(out \o recs, d)
    <2>1. PICK j \in DOMAIN out : out[j].type = "surface" /\ out[j].surf = d
      BY <1>1 DEF Announced
    <2>2. j \in DOMAIN (out \o recs) /\ (out \o recs)[j] = out[j]
      BY ConcatFacts
    <2> QED
      BY <2>1, <2>2 DEF Announced
  <1>2. ASSUME Announced(recs, d) PROVE Announced(out \o recs, d)
    <2>1. PICK j \in DOMAIN recs : recs[j].type = "surface" /\ recs[j].surf = d
      BY <1>2 DEF Announced
    <2>2. Len(out) + j \in DOMAIN (out \o recs) /\ (out \o recs)[Len(out) + j] = recs[j]
      BY ConcatFacts
    <2> QED
      BY <2>1, <2>2 DEF Announced
  <1> QED
    BY <1>1, <1>2

-----------------------------------------------------------------------------
(* The app's side of the invariant.                                        *)

\* No connection's stream or end changes, and none becomes unused.
SameStreams ==
    \A c \in Conns : /\ conns'[c].out = conns[c].out /\ conns'[c].caps = conns[c].caps
                     /\ conns'[c].app = conns[c].app
                     /\ conns'[c].phase = "unused" => conns[c].phase = "unused"

\* One connection changes, but not its stream or end.
LEMMA OneSameStream ==
  ASSUME TypeOK, NEW c \in Conns, NEW r, Becomes(c, r), r.out = conns[c].out,
         r.caps = conns[c].caps, r.app = conns[c].app, r.phase = "unused" => conns[c].phase = "unused"
  PROVE  SameStreams
  <1>1. conns'[c] = r /\ \A b \in Conns : b # c => conns'[b] = conns[b]
    BY OneConn, TypeParts
  <1> QED
    BY <1>1 DEF SameStreams

\* The server's threads write nothing to the app.
LEMMA ThreadStreams ==
  ASSUME TypeOK, NEW c \in Conns, AcceptStep(c) \/ ReaderStep(c)
  PROVE  SameStreams /\ UNCHANGED <<app, comp>>
  <1> USE TypeParts
  <1>0. conns[c] \in ConnRecords
    BY DEF ConnTypes
  <1>1. UNCHANGED <<app, comp>>
    <2>1. CASE HsReaderFails(c) \/ ReaderExit(c)
      BY <2>1, LeaveEffect DEF appside, compside
    <2>2. CASE ~(HsReaderFails(c) \/ ReaderExit(c))
      BY <2>2 DEF AcceptStep, ReaderStep, HsReply, HsFail, HsRefuse, HsAdd, HsReader, ReaderTake,
                  ReaderPacing, ReaderReleased, appside, compside
    <2> QED
      BY <2>1, <2>2
  <1>2. CASE HsReply(c)
    <2> DEFINE r == [conns[c] EXCEPT !.phase = "replied", !.gen = generation]
    <2>1. r.out = conns[c].out /\ r.caps = conns[c].caps /\ r.app = conns[c].app /\ r.phase = "replied"
      BY <1>0 DEF ConnRecords
    <2>2. Becomes(c, r)
      BY <1>2, HsReplyEffect
    <2> HIDE DEF r
    <2> QED
      BY <1>1, <2>1, <2>2, OneSameStream
  <1>3. CASE HsFail(c) \/ HsRefuse(c)
    <2> DEFINE r == [conns[c] EXCEPT !.phase = "refused"]
    <2>1. r.out = conns[c].out /\ r.caps = conns[c].caps /\ r.app = conns[c].app /\ r.phase = "refused"
      BY <1>0 DEF ConnRecords
    <2>2. Becomes(c, r)
      BY <1>3, HsRefuseEffect
    <2> HIDE DEF r
    <2> QED
      BY <1>1, <2>1, <2>2, OneSameStream
  <1>4. CASE HsAdd(c)
    <2> DEFINE r == [conns[c] EXCEPT !.phase = "added", !.slot = HsSlot]
    <2>1. r.out = conns[c].out /\ r.caps = conns[c].caps /\ r.app = conns[c].app /\ r.phase = "added"
      BY <1>0 DEF ConnRecords
    <2>2. Becomes(c, r)
      BY <1>4, HsAddEffect
    <2> HIDE DEF r
    <2> QED
      BY <1>1, <2>1, <2>2, OneSameStream
  <1>5. CASE HsReader(c)
    <2> DEFINE r == [conns[c] EXCEPT !.reader = TRUE, !.phase = IF @ = "added" THEN "attached" ELSE @]
    <2>1. /\ r.out = conns[c].out /\ r.caps = conns[c].caps /\ r.app = conns[c].app
          /\ r.phase = IF conns[c].phase = "added" THEN "attached" ELSE conns[c].phase
      BY <1>0 DEF ConnRecords
    <2>2. Becomes(c, r)
      BY <1>5, HsReaderEffect
    <2> HIDE DEF r
    <2> QED
      BY <1>1, <2>1, <2>2, OneSameStream
  <1>6. CASE HsReaderFails(c)
    <2> DEFINE r == [conns[c] EXCEPT !.phase = "ended"]
    <2>1. r.out = conns[c].out /\ r.caps = conns[c].caps /\ r.app = conns[c].app /\ r.phase = "ended"
      BY <1>0 DEF ConnRecords
    <2>2. Becomes(c, r)
      BY <1>6, LeaveEffect
    <2> HIDE DEF r
    <2> QED
      BY <1>1, <2>1, <2>2, OneSameStream
  <1>7. CASE ReaderExit(c)
    <2> DEFINE r == [conns[c] EXCEPT !.reader = FALSE, !.phase = "ended", !.in = <<>>]
    <2>1. r.out = conns[c].out /\ r.caps = conns[c].caps /\ r.app = conns[c].app /\ r.phase = "ended"
      BY <1>0 DEF ConnRecords
    <2>2. Becomes(c, r)
      BY <1>7, LeaveEffect
    <2> HIDE DEF r
    <2> QED
      BY <1>1, <2>1, <2>2, OneSameStream
  <1>8. CASE ReaderTake(c)
    <2> DEFINE x == Tail(conns[c].in)
               y == IF Live(c) THEN Head(conns[c].in) ELSE NoRecord
               r == [conns[c] EXCEPT !.in = x, !.checked = y]
    <2>1. Becomes(c, r)
      BY <1>8, ReaderTakeEffect
    <2> HIDE DEF x, y
    <2>2. r.out = conns[c].out /\ r.caps = conns[c].caps /\ r.app = conns[c].app /\ r.phase = conns[c].phase
      BY <1>0 DEF ConnRecords
    <2> HIDE DEF r
    <2> QED
      BY <1>1, <2>1, <2>2, OneSameStream
  <1>9. CASE ReaderPacing(c) \/ ReaderReleased(c)
    <2> DEFINE r == [conns[c] EXCEPT !.checked = NoRecord]
    <2>1. r.out = conns[c].out /\ r.caps = conns[c].caps /\ r.app = conns[c].app /\ r.phase = conns[c].phase
      BY <1>0 DEF ConnRecords
    <2>2. Becomes(c, r)
      BY <1>9, AppliedEffect
    <2> HIDE DEF r
    <2> QED
      BY <1>1, <2>1, <2>2, OneSameStream
  <1> QED
    BY <1>2, <1>3, <1>4, <1>5, <1>6, <1>7, <1>8, <1>9 DEF AcceptStep, ReaderStep

\* Steps that leave the streams and the app alone.
LEMMA LinkKept ==
  ASSUME TypeOK, LinkInv, app' = app, SameStreams
  PROVE  LinkInv'
  <1>1. app.conn \in Conns \cup {NoConn} /\ (app.state = "live" => app.conn \in Conns)
    BY TypeParts, LinkFacts DEF LinkTypes, Links
  <1> QED
    BY <1>1 DEF LinkInv, SameStreams

\* The app's new connection has carried nothing yet.
LEMMA ConnectFacts ==
  ASSUME TypeOK, NEW c \in Conns, NEW caps, AppConnect(c, caps)
  PROVE  /\ conns[c].phase = "unused" /\ conns'[c].phase = "backlog" /\ conns'[c].app = "open"
         /\ conns'[c].out = conns[c].out
         /\ \A b \in Conns : b # c => conns'[b] = conns[b]
         /\ app'.conn = c /\ app'.state = "connecting" /\ app'.known = {} /\ app'.retired = {}
  <1>1. conns'[c] = [conns[c] EXCEPT !.phase = "backlog", !.caps = caps, !.app = "open"]
    BY ConnectEffect, OneConn, TypeParts
  <1>2. conns'[c].phase = "backlog" /\ conns'[c].app = "open" /\ conns'[c].out = conns[c].out
    BY <1>1, TypeParts DEF ConnTypes, ConnRecords
  <1>3. \A b \in Conns : b # c => conns'[b] = conns[b]
    BY ConnectEffect, OneConn, TypeParts
  <1>4. app' = [NoApp EXCEPT !.conn = c, !.state = "connecting"] /\ conns[c].phase = "unused"
    BY DEF AppConnect
  <1>5. app'.conn = c /\ app'.state = "connecting" /\ app'.known = {} /\ app'.retired = {}
    BY <1>4, NoAppFacts DEF Links
  <1> QED
    BY <1>2, <1>3, <1>4, <1>5

\* What the app knows after reading a record.
LEMMA ReadKnows ==
  ASSUME TypeOK, LinkInv, AppDirty \/ AppSurface \/ AppSurfaceDrop
  PROVE  /\ app'.conn = app.conn /\ app'.state = "live" /\ app.state = "live"
         /\ app'.retired \subseteq app'.known \cap {app'.surf}
         /\ \A e \in app.known : \/ e \in app'.known
                                 \/ e \in Dyn /\ (e \in app.retired \/ (AppSurfaceDrop /\ AppRecord.surf = e))
         /\ \A e \in Given : e \in (Given)' \/ (AppRecord.type = "drop" /\ AppRecord.surf = e)
         /\ AppRecord.type = "surface" => AppRecord.surf \in (Given)'
  <1> USE TypeParts
  <1>0. /\ app \in Links /\ app.state = "live" /\ app.retired \subseteq Dyn
        /\ app.retired \subseteq app.known /\ app.retired \subseteq {app.surf}
        /\ stale' = stale
    BY ReadEffect DEF LinkTypes, Links, LinkInv, AppDirty, AppSurface, AppSurfaceDrop, history
  <1>1. CASE AppDirty
    <2> DEFINE gone == IF app.surf # AppRecord.surf THEN app.retired \cap {app.surf} ELSE {}
    <2>1. app' = [app EXCEPT !.surf = AppRecord.surf, !.seq = AppRecord.seq,
                            !.pending = TRUE, !.held = FALSE,
                            !.known = @ \ gone, !.retired = @ \ gone]
      BY <1>1 DEF AppDirty
    <2>2. gone \subseteq app.retired
      OBVIOUS
    <2>3. AppRecord.type = "dirty"
      BY <1>1 DEF AppDirty, AppHas, AppRecord
    <2> HIDE DEF gone
    <2>4. /\ app'.conn = app.conn /\ app'.state = app.state
          /\ app'.known = app.known \ gone /\ app'.retired = app.retired \ gone
          /\ app'.surf = AppRecord.surf
      BY <1>0, <2>1 DEF Links
    <2>5. app.retired \ gone \subseteq {AppRecord.surf}
      BY <1>0 DEF gone
    <2> QED
      BY <1>0, <2>2, <2>3, <2>4, <2>5 DEF Given
  <1>2. CASE AppSurface
    <2>1. app' = [app EXCEPT !.known = @ \cup {AppRecord.surf}] /\ AppRecord.surf \notin app.known
      BY <1>2 DEF AppSurface
    <2>2. /\ app'.conn = app.conn /\ app'.state = app.state /\ app'.retired = app.retired
          /\ app'.known = app.known \cup {AppRecord.surf} /\ app'.surf = app.surf
      BY <1>0, <2>1 DEF Links
    <2> QED
      BY <1>0, <2>1, <2>2 DEF Given
  <1>3. CASE AppSurfaceDrop
    <2>1. /\ AppRecord.surf \in app.known
          /\ app' = IF AppRecord.surf = app.surf THEN [app EXCEPT !.retired = @ \cup {app.surf}]
                    ELSE [app EXCEPT !.known = @ \ {AppRecord.surf}]
      BY <1>3 DEF AppSurfaceDrop
    <2>2. AppRecord.type = "drop" /\ AppRecord.surf \in Dyn
      BY <1>0, <1>3, HeadFacts, RecordFacts DEF AppSurfaceDrop, AppHas, AppRecord
    <2>3. CASE AppRecord.surf = app.surf
      <3>1. /\ app'.conn = app.conn /\ app'.state = app.state /\ app'.known = app.known
            /\ app'.retired = app.retired \cup {app.surf} /\ app'.surf = app.surf
        BY <1>0, <2>1, <2>3 DEF Links
      <3> QED
        BY <1>0, <2>1, <2>2, <2>3, <3>1 DEF Given
    <2>4. CASE AppRecord.surf # app.surf
      <3>1. /\ app'.conn = app.conn /\ app'.state = app.state /\ app'.retired = app.retired
            /\ app'.known = app.known \ {AppRecord.surf} /\ app'.surf = app.surf
        BY <1>0, <2>1, <2>4 DEF Links
      <3> QED
        BY <1>0, <1>3, <2>1, <2>2, <2>4, <3>1 DEF Given
    <2> QED
      BY <2>3, <2>4
  <1> QED
    BY <1>1, <1>2, <1>3

\* The app's steps keep its side.
LEMMA AppLink ==
  ASSUME TypeOK, LinkInv, AppStep
  PROVE  LinkInv'
  <1> USE TypeParts
  <1>0. /\ app \in Links /\ app.conn \in Conns \cup {NoConn} /\ (app.state # "none" => app.conn \in Conns)
        /\ conns \in [Conns -> ConnRecords] /\ NoConn \notin Conns
    BY LinkFacts, Basics DEF LinkTypes, Links, ConnTypes
  <1>1. ASSUME NEW c \in Conns, NEW caps, AppConnect(c, caps)
        PROVE  LinkInv'
    <2>1. conns'[c].out = <<>>
      BY <1>1, ConnectFacts DEF LinkInv
    <2>2. DOMAIN conns'[c].out = {}
      BY <2>1
    <2> QED
      BY <1>1, <2>2, ConnectFacts DEF LinkInv
  <1>2. ASSUME app' = NoApp, \A c \in Conns : /\ conns'[c].phase = conns[c].phase
                                              /\ conns'[c].caps = conns[c].caps
                                              /\ conns'[c].out \in {conns[c].out, <<>>}
        PROVE  LinkInv'
    <2>1. DOMAIN <<>> = {}
      OBVIOUS
    <2> QED
      BY <1>2, <2>1, NoAppFacts DEF LinkInv
  <1>3. CASE AppAbandon
    <2>1. app.conn \in Conns
      BY <1>0, <1>3 DEF AppAbandon
    <2>2. app' = NoApp /\ Touches(app.conn) /\ conns'[app.conn].out = conns[app.conn].out
      BY <1>3, AbandonTouches DEF AppAbandon
    <2>3. \A c \in Conns : /\ conns'[c].phase = conns[c].phase
                           /\ conns'[c].caps = conns[c].caps
                           /\ conns'[c].out \in {conns[c].out, <<>>}
      BY <2>2 DEF Touches
    <2> QED
      BY <1>2, <2>2, <2>3
  <1>4. ASSUME NEW ends, conns' = AppEndsClosed(ends)
        PROVE  \A c \in Conns : /\ conns'[c].phase = conns[c].phase
                                /\ conns'[c].caps = conns[c].caps
                                /\ conns'[c].out \in {conns[c].out, <<>>}
                                /\ c \notin ends => conns'[c] = conns[c]
    BY <1>4, ClosedFacts
  <1>5. CASE AppFinishClose \/ AppCrash
    BY <1>2, <1>4, <1>5 DEF AppFinishClose, AppCrash
  <1>6. ASSUME NEW c \in Conns, AppOrphanClose(c)
        PROVE  LinkInv'
    <2>1. app' = app /\ conns' = AppEndsClosed({c}) /\ conns[c].app = "orphan"
      BY <1>6 DEF AppOrphanClose, appside
    <2>2. app.conn # c
      BY <1>0, <2>1 DEF LinkInv
    <2>3. DOMAIN <<>> = {}
      OBVIOUS
    <2>4. \A b \in Conns : /\ conns'[b].phase = conns[b].phase
                           /\ conns'[b].caps = conns[b].caps
                           /\ conns'[b].out \in {conns[b].out, <<>>}
      BY <1>4, <2>1
    <2>5. app.conn \in Conns => conns'[app.conn] = conns[app.conn]
      <3>1. app.conn \notin {c}
        BY <2>2
      <3> QED
        BY <2>1, <3>1, ClosedFacts
    <2>6. \A b \in Conns : conns'[b].caps = "legacy" =>
             \A i \in DOMAIN conns'[b].out : conns'[b].out[i].type = "dirty" => conns'[b].out[i].surf = 0
      BY <2>3, <2>4 DEF LinkInv
    <2>7. \A b \in Conns : conns'[b].phase = "unused" => conns'[b].out = <<>>
      BY <2>4 DEF LinkInv
    <2> QED
      BY <1>0, <2>1, <2>5, <2>6, <2>7 DEF LinkInv
  <1>7. CASE AppDirty \/ AppSurface \/ AppSurfaceDrop
    <2>1. /\ Touches(app.conn) /\ conns'[app.conn].out = Tail(conns[app.conn].out)
          /\ conns'[app.conn].app = conns[app.conn].app
      BY <1>7, ReadTouches
    <2>2. /\ app'.conn = app.conn /\ app'.state = "live" /\ app.state = "live"
          /\ app'.retired \subseteq app'.known \cap {app'.surf}
          /\ \A e \in app.known : e \in app'.known \/ e \in Dyn
      BY <1>7, ReadKnows
    <2>3. Outputs \cap Dyn = {} /\ 0 \in Outputs /\ app.conn # NoConn
      BY <2>2, LinkFacts, Basics
    <2>4. conns[app.conn].out \in Seq(Records) /\ conns[app.conn].out # <<>> /\ app.conn \in Conns
      BY <1>0, <1>7, <2>2, HeadFacts, ReadEffect
    <2>5. \A i \in DOMAIN Tail(conns[app.conn].out) :
            i + 1 \in DOMAIN conns[app.conn].out /\ Tail(conns[app.conn].out)[i] = conns[app.conn].out[i + 1]
      BY <2>4, TailFacts
    <2>6. conns[app.conn].phase # "unused"
      BY <2>4 DEF LinkInv
    <2>7. \A c \in Conns : conns'[c].caps = "legacy" =>
             \A i \in DOMAIN conns'[c].out : conns'[c].out[i].type = "dirty" => conns'[c].out[i].surf = 0
      <3> SUFFICES ASSUME NEW c \in Conns, conns'[c].caps = "legacy", NEW i \in DOMAIN conns'[c].out,
                          conns'[c].out[i].type = "dirty"
                   PROVE  conns'[c].out[i].surf = 0
        OBVIOUS
      <3>1. CASE c = app.conn
        <4>1. conns[c].caps = "legacy" /\ i + 1 \in DOMAIN conns[c].out /\ conns'[c].out[i] = conns[c].out[i + 1]
          BY <2>1, <2>5, <3>1 DEF Touches
        <4> QED
          BY <4>1 DEF LinkInv
      <3>2. CASE c # app.conn
        BY <2>1, <3>2 DEF LinkInv, Touches
      <3> QED
        BY <3>1, <3>2
    <2>8. \A c \in Conns : conns'[c].phase = "unused" => conns'[c].out = <<>>
      BY <2>1, <2>6 DEF LinkInv, Touches
    <2>9. IF conns'[app.conn].caps = "v2" THEN Outputs \subseteq app'.known ELSE 0 \in app'.known
      BY <2>1, <2>2, <2>3 DEF LinkInv, Touches
    <2> QED
      BY <2>1, <2>2, <2>3, <2>7, <2>8, <2>9 DEF LinkInv
  <1>8. CASE AppPacing \/ AppBeginClose
    <2>1. /\ Touches(app.conn) /\ conns'[app.conn].out = conns[app.conn].out
          /\ conns'[app.conn].app = conns[app.conn].app
      BY <1>8, WriteTouches
    <2>2. SameStreams
      BY <2>1 DEF SameStreams, Touches
    <2>3. /\ app'.conn = app.conn /\ app'.known = app.known /\ app'.retired = app.retired
          /\ app'.surf = app.surf /\ app'.state \in {app.state, "closing"}
      BY <1>0, <1>8 DEF AppPacing, AppBeginClose, appside, Links
    <2> QED
      BY <1>0, <2>2, <2>3 DEF LinkInv, SameStreams
  <1>9. CASE AppAdopt
    <2> DEFINE k == IF conns[app.conn].caps = "v2" THEN Outputs ELSE {0}
    <2>1. app' = [app EXCEPT !.state = "live", !.known = k] /\ conns' = conns /\ app.state = "connecting"
      BY <1>9 DEF AppAdopt
    <2> HIDE DEF k
    <2>2. /\ app'.conn = app.conn /\ app'.known = k /\ app'.retired = app.retired /\ app'.state = "live"
      BY <1>0, <2>1 DEF Links
    <2>3. app.retired = {}
      BY <2>1 DEF LinkInv
    <2> QED
      BY <2>1, <2>2, <2>3 DEF LinkInv, k
  <1>10. CASE AppPresent
    <2>1. /\ app'.conn = app.conn /\ app'.known = app.known /\ app'.retired = app.retired
          /\ app'.surf = app.surf /\ app'.state = app.state /\ conns' = conns
      BY <1>0, <1>10 DEF AppPresent, Links
    <2> QED
      BY <2>1 DEF LinkInv
  <1>11. AppLost => AppBeginClose
    BY DEF AppLost
  <1> QED
    BY <1>1, <1>3, <1>5, <1>6, <1>7, <1>8, <1>9, <1>10, <1>11 DEF AppStep, AppTick

\* Frames of output 0 appended to frames of output 0 are frames of output 0.
LEMMA ConcatOutputs ==
  ASSUME NEW out \in Seq(Records), NEW recs \in Seq(Records),
         \A j \in DOMAIN out : out[j].type = "dirty" => out[j].surf = 0,
         \A j \in DOMAIN recs : recs[j].type = "dirty" => recs[j].surf = 0,
         NEW i \in DOMAIN (out \o recs), (out \o recs)[i].type = "dirty"
  PROVE  (out \o recs)[i].surf = 0
  <1>1. CASE i \in DOMAIN out
    <2>1. (out \o recs)[i] = out[i]
      BY <1>1, ConcatFacts
    <2> QED
      BY <1>1, <2>1
  <1>2. CASE i - Len(out) \in DOMAIN recs
    <2>1. (out \o recs)[Len(out) + (i - Len(out))] = recs[i - Len(out)]
      BY <1>2, ConcatFacts
    <2>2. Len(out) + (i - Len(out)) = i
      <3>1. out \o recs \in Seq(Records) /\ Len(out) \in Nat
        BY ConcatFacts
      <3>2. i \in Int
        BY <3>1
      <3> QED
        BY <3>1, <3>2
    <2> QED
      BY <1>2, <2>1, <2>2
  <1> QED
    BY <1>1, <1>2, ConcatFacts

\* A broadcast sends frames of output 0 only to legacy clients.
LEMMA BroadcastLink ==
  ASSUME TypeOK, TableInv, LinkInv, NEW ok, NEW lost, NEW recs, Broadcasts(ok, lost, recs),
         \A s \in ok : conns[clients[s]].caps = "legacy" =>
            \A i \in DOMAIN recs : recs[i].type = "dirty" => recs[i].surf = 0
  PROVE  LinkInv'
  <1>0. /\ recs \in Seq(Records) /\ ok \subseteq Active /\ lost \subseteq Active /\ app' = app
        /\ \A c \in Conns :
              /\ Keeps(c)
              /\ conns'[c].phase = IF Loses(c, lost) THEN "dropped" ELSE conns[c].phase
              /\ conns'[c].out = IF Gets(c, ok) THEN conns[c].out \o recs ELSE conns[c].out
    BY SentFacts DEF Broadcasts, appside
  <1>1. /\ app.conn \in Conns \cup {NoConn} /\ (app.state # "none" => app.conn \in Conns)
        /\ conns \in [Conns -> ConnRecords] /\ NoConn \notin Conns
    BY TypeParts, LinkFacts, Basics DEF LinkTypes, Links, ConnTypes
  <1>2. ASSUME NEW c \in Conns, conns'[c].phase = "unused"
        PROVE  conns'[c].out = <<>>
    <2>1. conns[c].phase = "unused"
      BY <1>0, <1>2
    <2>2. ~ Gets(c, ok)
      BY <1>0, <2>1 DEF Gets, TableInv, TableSound
    <2> QED
      BY <1>0, <2>1, <2>2 DEF LinkInv
  <1>3. ASSUME NEW c \in Conns, conns'[c].caps = "legacy", NEW i \in DOMAIN conns'[c].out,
               conns'[c].out[i].type = "dirty"
        PROVE  conns'[c].out[i].surf = 0
    <2>1. conns[c].caps = "legacy" /\ conns[c].out \in Seq(Records)
      BY <1>0, <1>1, <1>3 DEF Keeps, ConnRecords
    <2>2. CASE ~ Gets(c, ok)
      BY <1>0, <1>3, <2>1, <2>2 DEF LinkInv
    <2>3. CASE Gets(c, ok)
      <3>1. conns'[c].out = conns[c].out \o recs /\ recs \in Seq(Records)
        BY <1>0, <2>3
      <3>2. \A j \in DOMAIN recs : recs[j].type = "dirty" => recs[j].surf = 0
        BY <2>1, <2>3 DEF Gets
      <3>3. \A j \in DOMAIN conns[c].out : conns[c].out[j].type = "dirty" => conns[c].out[j].surf = 0
        BY <2>1 DEF LinkInv
      <3> QED
        BY <1>3, <2>1, <3>1, <3>2, <3>3, ConcatOutputs
    <2> QED
      BY <2>2, <2>3
  <1>4. \A c \in Conns : conns'[c].caps = conns[c].caps /\ conns'[c].app = conns[c].app
    BY <1>0 DEF Keeps
  <1> QED
    BY <1>0, <1>1, <1>2, <1>3, <1>4 DEF LinkInv

\* Sequences of one record and of none.
LEMMA Short ==
  ASSUME NEW r, NEW S, r \in S
  PROVE  /\ <<r>> \in Seq(S) /\ DOMAIN <<r>> = {1} /\ Len(<<r>>) = 1 /\ <<r>>[1] = r
         /\ <<>> \in Seq(S) /\ DOMAIN <<>> = {} /\ Len(<<>>) = 0
  <1>1. <<r>> \in Seq(S) /\ Len(<<r>>) = 1 /\ <<r>>[1] = r
    OBVIOUS
  <1>2. DOMAIN <<r>> = 1..1
    BY <1>1
  <1>3. <<>> \in Seq(S) /\ DOMAIN <<>> = {} /\ Len(<<>>) = 0
    OBVIOUS
  <1> QED
    BY <1>1, <1>2, <1>3

\* The records of a direct frame: its surface, then the frame.
LEMMA DirectFacts ==
  ASSUME TypeOK, NEW d \in Dyn, NEW ok, DirectRecords(d, ok) \in Seq(Records)
  PROVE  /\ \A i \in DOMAIN DirectRecords(d, ok) :
               /\ DirectRecords(d, ok)[i].surf = d /\ DirectRecords(d, ok)[i].type \in {"surface", "dirty"}
         /\ SurfaceOwed(d) => /\ Announced(DirectRecords(d, ok), d)
                              /\ \A i \in DOMAIN DirectRecords(d, ok) :
                                    DirectRecords(d, ok)[i].type = "dirty" =>
                                      \E j \in DOMAIN DirectRecords(d, ok) :
                                         /\ j < i /\ DirectRecords(d, ok)[j].type = "surface"
                                         /\ DirectRecords(d, ok)[j].surf = d
  <1> DEFINE a == [type |-> "surface", surf |-> d]
             b == DirtyRecord(d)
             w == DirectRecords(d, ok)
  <1>1. a.type = "surface" /\ a.surf = d /\ b.type = "dirty" /\ b.surf = d
    BY DEF DirtyRecord
  <1> DEFINE x == IF SurfaceOwed(d) THEN <<a>> ELSE <<>>
             y == IF ok = {} THEN <<>> ELSE <<b>>
  <1>2. w = x \o y
    BY DEF DirectRecords
  <1> HIDE DEF a, b, w
  <1>3. x \in Seq({a, b}) /\ y \in Seq({a, b})
    <2>1. <<a>> \in Seq({a, b}) /\ <<b>> \in Seq({a, b}) /\ <<>> \in Seq({a, b})
      BY Short
    <2> QED
      BY <2>1
  <1>4. /\ Len(x) \in Nat
        /\ \A i \in DOMAIN x : i \in DOMAIN w /\ w[i] = x[i]
        /\ \A i \in DOMAIN y : w[Len(x) + i] = y[i]
        /\ \A i \in DOMAIN w : i \in DOMAIN x \/ i - Len(x) \in DOMAIN y
        /\ \A i \in DOMAIN w : i \in Int
    <2> HIDE DEF x, y
    <2>1. \A S : \A q \in Seq(S) : \A r \in Seq(S) :
             /\ q \o r \in Seq(S) /\ Len(q) \in Nat
             /\ \A i \in DOMAIN q : i \in DOMAIN (q \o r) /\ (q \o r)[i] = q[i]
             /\ \A i \in DOMAIN r : (q \o r)[Len(q) + i] = r[i]
             /\ \A i \in DOMAIN (q \o r) : i \in DOMAIN q \/ i - Len(q) \in DOMAIN r
      BY ConcatFacts
    <2>2. w \in Seq({a, b}) /\ Len(w) \in Nat
      BY <1>2, <1>3, <2>1
    <2>3. DOMAIN w = 1..Len(w)
      BY <2>2
    <2> QED
      BY <1>2, <1>3, <2>1, <2>2, <2>3
  <1>5. /\ \A i \in DOMAIN x : x[i] = a
        /\ \A i \in DOMAIN y : y[i] = b /\ i = 1
        /\ SurfaceOwed(d) => DOMAIN x = {1} /\ Len(x) = 1
    <2>1. /\ DOMAIN <<a>> = {1} /\ Len(<<a>>) = 1 /\ <<a>>[1] = a
          /\ DOMAIN <<b>> = {1} /\ <<b>>[1] = b /\ DOMAIN <<>> = {}
      BY Short
    <2>2. x = <<a>> \/ (x = <<>> /\ ~ SurfaceOwed(d))
      OBVIOUS
    <2>3. y = <<b>> \/ y = <<>>
      OBVIOUS
    <2> HIDE DEF x, y
    <2>4. \A i \in DOMAIN x : x[i] = a
      BY <2>1, <2>2
    <2>5. \A i \in DOMAIN y : y[i] = b /\ i = 1
      BY <2>1, <2>3
    <2> QED
      BY <2>1, <2>2, <2>4, <2>5
  <1> HIDE DEF x, y
  <1>7. ASSUME NEW i \in DOMAIN w
        PROVE  \/ i \in DOMAIN x /\ w[i] = a
               \/ i = Len(x) + 1 /\ w[i] = b
    <2>1. CASE i \in DOMAIN x
      BY <1>4, <1>5, <2>1
    <2>2. CASE i - Len(x) \in DOMAIN y
      <3>1. i - Len(x) = 1 /\ i \in Int
        BY <1>4, <1>5, <2>2
      <3>2. i = Len(x) + 1
        BY <1>4, <3>1
      <3>3. 1 \in DOMAIN y
        BY <2>2, <3>1
      <3> QED
        BY <1>4, <1>5, <3>2, <3>3
    <2> QED
      BY <1>4, <2>1, <2>2
  <1>8. \A i \in DOMAIN w : w[i].surf = d /\ w[i].type \in {"surface", "dirty"}
    BY <1>1, <1>7
  <1>6. ASSUME SurfaceOwed(d)
        PROVE  /\ Announced(w, d)
               /\ \A i \in DOMAIN w : w[i].type = "dirty" =>
                    \E j \in DOMAIN w : j < i /\ w[j].type = "surface" /\ w[j].surf = d
    <2>1. 1 \in DOMAIN w /\ w[1] = a
      BY <1>4, <1>5, <1>6
    <2>2. \A i \in DOMAIN w : w[i].type = "dirty" => 1 < i
      <3>1. \A i \in DOMAIN w : w[i] = a \/ i = 2
        <4>1. Len(x) = 1 /\ 1 + 1 = 2
          BY <1>5, <1>6
        <4>2. \A i \in DOMAIN w : w[i] = a \/ i = Len(x) + 1
          BY <1>7
        <4> QED
          BY <4>1, <4>2
      <3>2. a.type # "dirty" /\ 1 < 2
        BY <1>1
      <3> QED
        BY <3>1, <3>2
    <2> QED
      BY <1>1, <2>1, <2>2 DEF Announced
  <1> QED
    BY <1>6, <1>8 DEF w

\* Every step keeps the app's side.
LEMMA LinkStep == TypeOK /\ TableInv /\ LinkInv /\ [Next]_vars => LinkInv'
  <1> SUFFICES ASSUME TypeOK, TableInv, LinkInv, [Next]_vars PROVE LinkInv'
    OBVIOUS
  <1>1. ASSUME NEW c \in Conns, AcceptStep(c) \/ ReaderStep(c) PROVE LinkInv'
    BY <1>1, ThreadStreams, LinkKept
  <1>2. CASE AppStep
    BY <1>2, AppLink
  <1>3. ASSUME UNCHANGED <<app, conns>> PROVE LinkInv'
    BY <1>3 DEF LinkInv
  <1>4. CASE GpuStep \/ UNCHANGED vars
    BY <1>3, <1>4 DEF GpuStep, AppGpuSample, AppGpuSignal, CompGpuWrite, vars, appside
  <1>5. CASE CompStep
    <2>1. CASE \/ \E i \in Outputs : CompAcquire(i)
               \/ CompCancel
               \/ CompDraw
               \/ \E d \in Dyn : CompDirectCheck(d)
      BY <1>3, <2>1 DEF CompAcquire, CompCancel, CompDraw, CompDirectCheck, appside
    <2>2. ASSUME NEW ok \in SUBSET Active, NEW lost \in SUBSET Active, CompPublish(ok, lost)
          PROVE  LinkInv'
      <3> DEFINE r == DirtyRecord(comp.target)
      <3>1. comp.target \in Outputs /\ Broadcasts(ok, lost, <<r>>)
        BY <2>2, BroadcastEffect
      <3>2. r.surf = comp.target
        BY DEF DirtyRecord
      <3> HIDE DEF r
      <3>3. DOMAIN <<r>> = {1} /\ <<r>>[1] = r
        BY Short
      <3>4. ASSUME NEW s \in ok, conns[clients[s]].caps = "legacy"
            PROVE  comp.target = 0
        BY <2>2, <3>4 DEF CompPublish, SendOutcome, V2Mask
      <3> QED
        BY <3>1, <3>2, <3>3, <3>4, BroadcastLink
    <2>3. ASSUME NEW ok \in SUBSET Active, NEW lost \in SUBSET Active, CompPublishDirect(ok, lost)
          PROVE  LinkInv'
      <3>1. Broadcasts(V2Mask \ lost, lost, DirectRecords(comp.direct, ok))
        BY <2>3, BroadcastEffect
      <3>2. \A s \in V2Mask \ lost : conns[clients[s]].caps # "legacy"
        BY DEF V2Mask
      <3> QED
        BY <3>1, <3>2, BroadcastLink
    <2>4. ASSUME NEW d \in Dyn, NEW ok \in SUBSET Active, NEW lost \in SUBSET Active,
                 CompUnregister(d, ok, lost)
          PROVE  LinkInv'
      <3> DEFINE r == [type |-> "drop", surf |-> d]
      <3>1. Broadcasts(ok, lost, <<r>>)
        BY <2>4, BroadcastEffect
      <3>2. r.type # "dirty"
        OBVIOUS
      <3> HIDE DEF r
      <3>3. DOMAIN <<r>> = {1} /\ <<r>>[1] = r
        BY Short
      <3> QED
        BY <3>1, <3>2, <3>3, BroadcastLink
    <2>5. ASSUME NEW lost \in SUBSET Active, CompCursor(lost) PROVE LinkInv'
      <3>1. Broadcasts({}, lost, <<>>)
        <4>1. {} \in SUBSET Active
          OBVIOUS
        <4> QED
          BY <2>5, <4>1, BroadcastEffect
      <3> QED
        BY <3>1, BroadcastLink
    <2>6. CASE CompResize
      <3>1. SameStreams /\ app' = app
        BY <2>6, CloseFacts DEF CompResize, SameStreams, Keeps, appside
      <3> QED
        BY <3>1, LinkKept
    <2> QED
      BY <1>5, <2>1, <2>2, <2>3, <2>4, <2>5, <2>6 DEF CompStep
  <1> QED
    BY <1>1, <1>2, <1>4, <1>5 DEF Next

-----------------------------------------------------------------------------
(* The direct surfaces.                                                    *)

\* Steps that set no sent bit and leave each surface registered or not.
LEMMA SentKept ==
  ASSUME TypeOK, SentInv, dirty_seq' \in {dirty_seq, dirty_seq + 1}, comp'.direct \in {comp.direct, Nothing},
         \A d \in Dyn : /\ streams'[d].sent \subseteq streams[d].sent
                        /\ d \notin stale' => streams'[d].sent \subseteq V2Mask'
                        /\ streams'[d].state = streams[d].state
                        /\ streams'[d].last_seq = streams[d].last_seq
                        /\ streams'[d].released_seq <= streams[d].last_seq
  PROVE  SentInv'
  <1>0. comp.direct \in Dyn \cup {Nothing} /\ Nothing \notin Dyn /\ dirty_seq \in Nat
    BY TypeParts, Basics DEF CompTypes, ServerTypes
  <1>1. ASSUME NEW d \in Dyn
        PROVE  /\ d \notin stale' => streams'[d].sent \subseteq V2Mask'
               /\ streams'[d].released_seq <= streams'[d].last_seq
               /\ streams'[d].last_seq <= dirty_seq'
               /\ streams'[d].state # "registered" => streams'[d].sent = {}
    <2>1. streams[d].last_seq \in Nat /\ streams[d].last_seq <= dirty_seq
      BY TypeParts DEF StreamTypes, StreamRecords, SentInv
    <2>2. streams'[d].last_seq <= dirty_seq'
      BY <1>0, <2>1
    <2> QED
      BY <2>2 DEF SentInv
  <1>2. comp'.direct # Nothing => streams'[comp'.direct].state = "registered"
    BY <1>0 DEF SentInv
  <1> QED
    BY <1>1, <1>2 DEF SentInv

\* Steps after which the app has at least what it had and owes no more.
LEMMA GivenKept ==
  ASSUME TypeOK, GivenInv, app'.conn = app.conn, Given \subseteq (Given)', SameStreams,
         Gone \subseteq (Gone)',
         \A d \in Dyn : \A s \in streams'[d].sent :
            d \notin stale' /\ clients'[s] = app.conn => s \in streams[d].sent /\ clients[s] = app.conn
  PROVE  GivenInv'
  <1> SUFFICES ASSUME app'.conn # NoConn
               PROVE  /\ InOrder(conns'[app'.conn].out, (Given)', (Gone)')
                      /\ \A d \in Dyn : \A s \in streams'[d].sent :
                            clients'[s] = app'.conn => d \in (Given)' \/ Announced(conns'[app'.conn].out, d)
    BY DEF GivenInv
  <1>1. app.conn \in Conns
    BY TypeParts DEF LinkTypes, Links
  <1>2. conns'[app.conn].out = conns[app.conn].out
    BY <1>1 DEF SameStreams
  <1>3. InOrder(conns[app.conn].out, (Given)', (Gone)')
    BY OrderMore DEF GivenInv
  <1>4. stale' \subseteq (Given)'
    BY DEF Given
  <1> QED
    BY <1>2, <1>3, <1>4 DEF GivenInv

\* The sent bits of dropped clients.
LEMMA WithoutSent ==
  ASSUME TypeOK, NEW lost
  PROVE  \A d \in Dyn : /\ SentWithout(streams, lost)[d].sent = streams[d].sent \ lost
                        /\ SentWithout(streams, lost)[d].state = streams[d].state
                        /\ SentWithout(streams, lost)[d].last_seq = streams[d].last_seq
                        /\ SentWithout(streams, lost)[d].released_seq = streams[d].released_seq
  BY TypeParts DEF SentWithout, StreamTypes, StreamRecords

\* A broadcast keeps the app's records in order, if what it adds is in order.
LEMMA BroadcastGiven ==
  ASSUME TypeOK, TableInv, GivenInv, NEW ok, NEW lost, NEW recs, Broadcasts(ok, lost, recs),
         Gone \subseteq (Gone)', stale' = stale,
         \A i \in DOMAIN recs : recs[i].surf \notin Gone,
         app.conn # NoConn /\ Gets(app.conn, ok) =>
            \A i \in DOMAIN recs : recs[i].type = "dirty" /\ recs[i].surf \in Dyn =>
               \/ recs[i].surf \in Given \/ Announced(conns[app.conn].out, recs[i].surf)
               \/ \E j \in DOMAIN recs : j < i /\ recs[j].type = "surface" /\ recs[j].surf = recs[i].surf,
         \A j \in DOMAIN recs : recs[j].type = "drop" =>
            recs[j].surf \in (Gone)' /\ \A i \in DOMAIN recs : j < i => recs[i].surf # recs[j].surf,
         \A d \in Dyn : \A s \in streams'[d].sent :
            d \notin stale /\ app.conn # NoConn /\ clients'[s] = app.conn =>
               \/ s \in streams[d].sent /\ clients[s] = app.conn
               \/ Gets(app.conn, ok) /\ Announced(recs, d)
  PROVE  GivenInv'
  <1>1. app' = app /\ recs \in Seq(Records)
    BY DEF Broadcasts, appside
  <1> SUFFICES ASSUME app.conn # NoConn
               PROVE  /\ InOrder(conns'[app.conn].out, Given, (Gone)')
                      /\ \A d \in Dyn : \A s \in streams'[d].sent :
                            clients'[s] = app.conn => d \in Given \/ Announced(conns'[app.conn].out, d)
    BY <1>1 DEF GivenInv, Given
  <1> DEFINE out == conns[app.conn].out
  <1>2. app.conn \in Conns /\ out \in Seq(Records)
    BY TypeParts DEF LinkTypes, Links, ConnTypes, ConnRecords
  <1>3. conns'[app.conn].out = IF Gets(app.conn, ok) THEN out \o recs ELSE out
    BY <1>1, <1>2, SentFacts DEF Broadcasts
  <1>4. /\ InOrder(out, Given, Gone) /\ stale \subseteq Given
        /\ \A d \in Dyn : \A s \in streams[d].sent :
             clients[s] = app.conn => d \in Given \/ Announced(out, d)
    BY DEF GivenInv, Given
  <1> HIDE DEF out
  <1>5. CASE Gets(app.conn, ok)
    <2>1. InOrder(out \o recs, Given, (Gone)')
      BY <1>1, <1>2, <1>4, <1>5, OrderAppend DEF out
    <2>2. \A d \in Dyn : Announced(out, d) \/ Announced(recs, d) => Announced(out \o recs, d)
      BY <1>1, <1>2, AnnouncedAppend
    <2> QED
      BY <1>3, <1>4, <1>5, <2>1, <2>2
  <1>6. CASE ~ Gets(app.conn, ok)
    <2>1. InOrder(out, Given, (Gone)')
      BY <1>4, OrderMore
    <2> QED
      BY <1>3, <1>4, <1>6, <2>1
  <1> QED
    BY <1>5, <1>6

\* A surface is gone when its state says so.
LEMMA SameGone ==
  ASSUME \A d \in Dyn : streams'[d].state = streams[d].state
  PROVE  Gone \subseteq (Gone)'
  BY DEF Gone

\* Accept thread and readers: a new client inherits no sent bit.
LEMMA ThreadDirect ==
  ASSUME TypeOK, TableInv, SentInv, GivenInv, NEW c \in Conns, AcceptStep(c) \/ ReaderStep(c)
  PROVE  SentInv' /\ GivenInv'
  <1> USE TypeParts
  <1>0. SameStreams /\ app' = app /\ comp' = comp /\ stale' = stale
    BY ThreadStreams DEF AcceptStep, ReaderStep, HsReply, HsFail, HsRefuse, HsAdd, HsReader,
       HsReaderFails, ReaderTake, ReaderPacing, ReaderReleased, ReaderExit, history
  <1>1. \A d \in Dyn : /\ streams[d] \in StreamRecords /\ streams[d].released_seq \in Nat
                       /\ streams[d].last_seq \in Nat
    BY DEF StreamTypes, StreamRecords
  <1>2. ASSUME dirty_seq' = dirty_seq,
               \A d \in Dyn : /\ streams'[d].sent \subseteq streams[d].sent
                              /\ d \notin stale => streams'[d].sent \subseteq V2Mask'
                              /\ streams'[d].state = streams[d].state
                              /\ streams'[d].last_seq = streams[d].last_seq
                              /\ streams'[d].released_seq <= streams[d].last_seq,
               \A s \in V2Mask : clients'[s] \in {clients[s], NoConn}
        PROVE  SentInv' /\ GivenInv'
    <2>1. SentInv'
      BY <1>0, <1>2, SentKept
    <2>2. CASE app.conn = NoConn
      BY <1>0, <2>1, <2>2 DEF GivenInv
    <2>3. CASE app.conn # NoConn
      <3>1. \A d \in Dyn : \A s \in streams'[d].sent :
              d \notin stale /\ clients'[s] = app.conn => s \in streams[d].sent /\ clients[s] = app.conn
        BY <1>2, <2>3 DEF SentInv
      <3>2. Given \subseteq (Given)'
        BY <1>0 DEF Given
      <3> QED
        BY <1>0, <1>2, <2>1, <3>1, <3>2, SameGone, GivenKept
    <2> QED
      BY <2>2, <2>3
  <1>3. CASE HsAdd(c)
    <2>1. \A s \in V2Mask : clients'[s] = clients[s]
      BY <1>3, AddFacts DEF V2Mask, Active
    <2>2. dirty_seq' = dirty_seq /\ V2Mask \subseteq V2Mask'
      BY <1>3, AddFacts DEF HsAdd
    <2>3. streams' = streams \/ streams' = RecoverStreams
      BY <1>3 DEF HsAdd
    <2>4. ASSUME NEW d \in Dyn
          PROVE  /\ streams'[d].sent = streams[d].sent
                 /\ streams'[d].state = streams[d].state
                 /\ streams'[d].last_seq = streams[d].last_seq
                 /\ streams'[d].released_seq <= streams[d].last_seq
      <3>1. streams[d].released_seq <= streams[d].last_seq
        BY DEF SentInv
      <3>2. CASE streams'[d] = streams[d]
        BY <3>1, <3>2
      <3>3. CASE streams'[d] = [streams[d] EXCEPT !.released_seq = Larger(@, streams[d].last_seq)]
        <4>1. Larger(streams[d].released_seq, streams[d].last_seq) = streams[d].last_seq
          BY <1>1, <3>1 DEF Larger
        <4> QED
          BY <1>1, <3>3, <4>1 DEF StreamRecords
      <3> QED
        BY <2>3, <3>2, <3>3 DEF RecoverStreams
    <2>5. \A d \in Dyn : d \notin stale => streams'[d].sent \subseteq V2Mask'
      BY <2>2, <2>4 DEF SentInv
    <2> QED
      BY <1>2, <2>1, <2>2, <2>4, <2>5
  <1>4. CASE HsReaderFails(c) \/ ReaderExit(c)
    <2>1. /\ streams' = SentWithout(streams, Lost(c)) /\ dirty_seq' = dirty_seq
          /\ clients' = ClientsWithout(Lost(c))
      BY <1>4, LeaveEffect
    <2>2. V2Mask' = V2Mask \ Lost(c)
      BY <1>4, LeaveShrinks, ShrinkFacts
    <2>3. \A s \in V2Mask : clients'[s] \in {clients[s], NoConn}
      BY <2>1, WithoutFacts DEF V2Mask, Active
    <2>4. \A d \in Dyn : /\ streams'[d].sent \subseteq streams[d].sent
                         /\ d \notin stale => streams'[d].sent \subseteq V2Mask'
                         /\ streams'[d].state = streams[d].state
                         /\ streams'[d].last_seq = streams[d].last_seq
                         /\ streams'[d].released_seq <= streams[d].last_seq
      BY <2>1, <2>2, WithoutSent DEF SentInv
    <2> QED
      BY <1>2, <2>1, <2>3, <2>4
  <1>5. CASE \/ HsReply(c) \/ HsFail(c) \/ HsRefuse(c) \/ HsReader(c)
             \/ ReaderTake(c) \/ ReaderPacing(c) \/ ReaderReleased(c)
    <2>1. dirty_seq' = dirty_seq /\ clients' = clients
      BY <1>5 DEF HsReply, HsFail, HsRefuse, HsReader, ReaderTake, ReaderPacing, ReaderReleased, server
    <2>2. V2Mask' = V2Mask
      BY <1>5, AcceptShrinks, ShrinkFacts
    <2>3. \/ streams' = streams
          \/ \E d \in Dyn : streams' = [streams EXCEPT ![d].released_seq = Larger(@, streams[d].last_seq)]
      <3>1. CASE ReaderReleased(c)
        <4>1. conns[c].checked.surf \in Surfaces
          BY <3>1, CheckedFacts
        <4> QED
          BY <3>1, <4>1 DEF ReaderReleased, Surfaces
      <3> QED
        BY <1>5, <3>1 DEF HsReply, HsFail, HsRefuse, HsReader, ReaderTake, ReaderPacing, server
    <2>4. ASSUME NEW d \in Dyn
          PROVE  /\ streams'[d].sent = streams[d].sent
                 /\ streams'[d].state = streams[d].state
                 /\ streams'[d].last_seq = streams[d].last_seq
                 /\ streams'[d].released_seq <= streams[d].last_seq
      <3>1. streams[d].released_seq <= streams[d].last_seq
        BY DEF SentInv
      <3>2. CASE streams'[d] = streams[d]
        BY <3>1, <3>2
      <3>3. CASE streams'[d] = [streams[d] EXCEPT !.released_seq = Larger(@, streams[d].last_seq)]
        <4>1. Larger(streams[d].released_seq, streams[d].last_seq) = streams[d].last_seq
          BY <1>1, <3>1 DEF Larger
        <4> QED
          BY <1>1, <3>3, <4>1 DEF StreamRecords
      <3> QED
        BY <2>3, <3>2, <3>3 DEF StreamTypes
    <2> QED
      BY <1>2, <2>1, <2>2, <2>4 DEF SentInv
  <1> QED
    BY <1>3, <1>4, <1>5 DEF AcceptStep, ReaderStep

\* The app: what it reads it was sent in order.
LEMMA AppDirect ==
  ASSUME TypeOK, TableInv, LinkInv, SentInv, GivenInv, AppStep
  PROVE  SentInv' /\ GivenInv'
  <1> USE TypeParts
  <1>1. UNCHANGED <<clients, streams, dirty_seq, comp, stale>>
    BY DEF AppStep, AppTick, AppConnect, AppOrphanClose, AppPresent, AppAbandon, AppPacing,
           AppBeginClose, AppCrash, AppAdopt, AppDirty, AppSurface, AppSurfaceDrop, AppLost,
           AppFinishClose, server, compside, history
  <1>2. SentInv'
    <2>1. V2Mask' = V2Mask
      BY AppShrinks, ShrinkFacts
    <2> QED
      BY <1>1, <2>1, SentKept DEF SentInv
  <1>3. Gone = (Gone)'
    BY <1>1 DEF Gone
  <1>4. ASSUME app'.conn = app.conn, Given \subseteq (Given)', SameStreams
        PROVE  GivenInv'
    BY <1>1, <1>3, <1>4, GivenKept
  <1>5. ASSUME NEW c \in Conns, NEW caps, AppConnect(c, caps)
        PROVE  GivenInv'
    <2>1. conns'[c].out = <<>> /\ app'.conn = c /\ conns[c].phase = "unused"
      BY <1>5, ConnectFacts DEF LinkInv
    <2>2. DOMAIN <<>> = {}
      OBVIOUS
    <2>3. InOrder(<<>>, (Given)', (Gone)')
      BY <2>2 DEF InOrder
    <2>4. \A d \in Dyn : \A s \in streams'[d].sent : d \notin stale => clients'[s] # c
      BY <1>1, <2>1 DEF SentInv, V2Mask, TableInv, TableSound
    <2>5. stale \subseteq (Given)'
      BY <1>1 DEF Given
    <2> QED
      BY <2>1, <2>3, <2>4, <2>5 DEF GivenInv
  <1>6. CASE AppAbandon \/ AppFinishClose \/ AppCrash
    BY <1>2, <1>6, NoAppFacts DEF AppAbandon, AppFinishClose, AppCrash, GivenInv
  <1>7. ASSUME NEW c \in Conns, AppOrphanClose(c) PROVE GivenInv'
    <2>1. app' = app /\ conns' = AppEndsClosed({c}) /\ conns[c].app = "orphan"
      BY <1>7 DEF AppOrphanClose, appside
    <2>2. CASE app.conn = NoConn
      BY <2>1, <2>2 DEF GivenInv
    <2>3. CASE app.conn # NoConn
      <3>1. app.conn \in Conns /\ app.conn \notin {c}
        BY <2>1, <2>3 DEF LinkInv, LinkTypes, Links
      <3>2. conns'[app.conn] = conns[app.conn]
        BY <2>1, <3>1, ClosedFacts
      <3>3. Given = (Given)'
        BY <1>1, <2>1 DEF Given
      <3> QED
        BY <1>1, <1>3, <2>1, <3>2, <3>3 DEF GivenInv
    <2> QED
      BY <2>2, <2>3
  <1>8. CASE AppPacing \/ AppBeginClose
    <2>1. SameStreams
      BY <1>8, WriteTouches DEF SameStreams, Touches
    <2>2. app'.conn = app.conn /\ app'.known = app.known /\ app'.retired = app.retired
      BY <1>8 DEF AppPacing, AppBeginClose, appside, LinkTypes, Links
    <2> QED
      BY <1>1, <1>2, <1>4, <2>1, <2>2 DEF Given
  <1>9. CASE AppAdopt \/ AppPresent
    <2>1. SameStreams
      BY <1>9 DEF AppAdopt, AppPresent, SameStreams
    <2>2. app'.conn = app.conn /\ app'.retired = app.retired
      BY <1>9 DEF AppAdopt, AppPresent, LinkTypes, Links
    <2>3. app.known \subseteq app'.known
      BY <1>9 DEF AppAdopt, AppPresent, LinkTypes, Links, LinkInv
    <2> QED
      BY <1>1, <1>2, <1>4, <2>1, <2>2, <2>3 DEF Given
  <1>10. CASE AppDirty \/ AppSurface \/ AppSurfaceDrop
    <2> DEFINE out == conns[app.conn].out
    <2>1. /\ app.state = "live" /\ app.conn \in Conns /\ out # <<>> /\ app.conn # NoConn
      BY <1>10, ReadEffect, Basics
    <2>2. out \in Seq(Records) /\ AppRecord = Head(out)
      BY <2>1, HeadFacts DEF AppRecord
    <2>3. conns'[app.conn].out = Tail(out)
      BY <1>10, ReadTouches
    <2>4. /\ app'.conn = app.conn
          /\ \A e \in Given : e \in (Given)' \/ (Head(out).type = "drop" /\ Head(out).surf = e)
          /\ Head(out).type = "surface" => Head(out).surf \in (Given)'
      BY <1>10, <2>2, ReadKnows
    <2>5. InOrder(out, Given, Gone)
      BY <2>1 DEF GivenInv
    <2>6. \A d \in Dyn : \A s \in streams[d].sent :
             clients[s] = app.conn => d \in Given \/ Announced(out, d)
      BY <2>1 DEF GivenInv
    <2> HIDE DEF out
    <2>7. InOrder(Tail(out), (Given)', Gone)
      BY <2>1, <2>2, <2>4, <2>5, OrderRead
    <2>8. ASSUME NEW d \in Dyn, NEW s \in streams[d].sent, clients[s] = app.conn
          PROVE  d \in (Given)' \/ Announced(Tail(out), d)
      <3>1. CASE d \in Given
        <4>1. ASSUME Head(out).type = "drop", Head(out).surf = d PROVE FALSE
          <5>1. 1 \in DOMAIN out /\ Head(out) = out[1]
            BY <2>1, <2>2, TailFacts
          <5>2. d \in Gone
            BY <2>5, <4>1, <5>1 DEF InOrder
          <5> QED
            BY <2>8, <5>2 DEF Gone, SentInv
        <4> QED
          BY <2>4, <3>1, <4>1
      <3>2. CASE Announced(out, d)
        BY <2>1, <2>2, <2>4, <3>2, AnnouncedRead
      <3> QED
        BY <2>6, <2>8, <3>1, <3>2
    <2> QED
      BY <1>1, <1>2, <1>3, <2>3, <2>4, <2>7, <2>8 DEF GivenInv
  <1>11. AppLost => AppBeginClose
    BY DEF AppLost
  <1>12. GivenInv'
    BY <1>5, <1>6, <1>7, <1>8, <1>9, <1>10, <1>11 DEF AppStep, AppTick
  <1> QED
    BY <1>2, <1>12

\* The compositor: a surface is announced before its first frame and dropped
\* after its last.
LEMMA CompDirectStep ==
  ASSUME TypeOK, TableInv, LinkInv, SentInv, GivenInv, CompStep, ~ CompResize
  PROVE  SentInv' /\ GivenInv'
  <1> USE TypeParts
  <1>0. /\ streams \in [Dyn -> StreamRecords] /\ dirty_seq \in Nat /\ Outputs \cap Dyn = {}
        /\ Nothing \notin Dyn /\ comp.direct \in Dyn \cup {Nothing} /\ NoConn \notin Conns
    BY Basics DEF StreamTypes, ServerTypes, CompTypes
  <1>1. ASSUME UNCHANGED <<clients, streams, dirty_seq, conns, appside, generation, stale>>,
               comp'.direct = comp.direct
        PROVE  SentInv' /\ GivenInv'
    <2>1. V2Mask' = V2Mask
      BY <1>1 DEF V2Mask, Active
    <2>2. SentInv'
      BY <1>1, <2>1, SentKept DEF SentInv
    <2>3. GivenInv'
      BY <1>1 DEF GivenInv, Given, Gone, appside
    <2> QED
      BY <2>2, <2>3
  <1>2. CASE (\E i \in Outputs : CompAcquire(i)) \/ CompCancel \/ CompDraw
    <2>1. comp'.direct = comp.direct
      BY <1>2 DEF CompAcquire, CompCancel, CompDraw, CompTypes
    <2> QED
      BY <1>1, <1>2, <2>1 DEF CompAcquire, CompCancel, CompDraw, server, history
  <1>3. ASSUME NEW d \in Dyn, CompDirectCheck(d)
        PROVE  SentInv' /\ GivenInv'
    <2>1. /\ UNCHANGED <<clients, dirty_seq, conns, appside, stale>> /\ streams[d].state # "gone"
          /\ streams' = [streams EXCEPT ![d].state = "registered"] /\ comp' = [comp EXCEPT !.direct = d]
      BY <1>3 DEF CompDirectCheck, history
    <2>2. \A e \in Dyn : /\ streams'[e].sent = streams[e].sent
                         /\ streams'[e].last_seq = streams[e].last_seq
                         /\ streams'[e].released_seq = streams[e].released_seq
                         /\ streams'[e].state = IF e = d THEN "registered" ELSE streams[e].state
      BY <1>0, <2>1 DEF StreamRecords
    <2>3. V2Mask' = V2Mask /\ comp'.direct = d
      BY <2>1 DEF V2Mask, Active, CompTypes
    <2>4. SentInv'
      BY <2>1, <2>2, <2>3 DEF SentInv
    <2>5. SameStreams /\ Given = (Given)' /\ app' = app /\ Gone \subseteq (Gone)'
      BY <2>1, <2>2 DEF SameStreams, Given, Gone, appside
    <2>6. GivenInv'
      BY <2>1, <2>2, <2>5, GivenKept
    <2> QED
      BY <2>4, <2>6
  <1>4. ASSUME NEW lost, streams' = SentWithout(streams, lost), clients' = ClientsWithout(lost),
               V2Mask' = V2Mask \ lost, dirty_seq' \in {dirty_seq, dirty_seq + 1}, stale' = stale,
               comp'.direct \in {comp.direct, Nothing}
        PROVE  /\ SentInv' /\ Gone \subseteq (Gone)'
               /\ \A d \in Dyn : \A s \in streams'[d].sent :
                     app.conn # NoConn /\ clients'[s] = app.conn => s \in streams[d].sent /\ clients[s] = app.conn
    <2>1. \A d \in Dyn : /\ streams'[d].sent = streams[d].sent \ lost
                         /\ streams'[d].state = streams[d].state
                         /\ streams'[d].last_seq = streams[d].last_seq
                         /\ streams'[d].released_seq = streams[d].released_seq
      BY <1>4, WithoutSent
    <2>2. SentInv'
      BY <1>4, <2>1, SentKept DEF SentInv
    <2>3. \A d \in Dyn : \A s \in streams'[d].sent : s \in streams[d].sent /\ s \in ClientSlots
      BY <1>0, <2>1 DEF StreamRecords
    <2>4. \A s \in ClientSlots : clients'[s] \in {clients[s], NoConn}
      BY <1>4, WithoutFacts
    <2> QED
      BY <2>1, <2>2, <2>3, <2>4, SameGone
  <1>5. ASSUME NEW ok \in SUBSET Active, NEW lost \in SUBSET Active, CompPublish(ok, lost)
        PROVE  SentInv' /\ GivenInv'
    <2> DEFINE r == DirtyRecord(comp.target)
    <2>1. comp.target \in Outputs /\ Broadcasts(ok, lost, <<r>>)
      BY <1>5, BroadcastEffect
    <2>2. r.surf = comp.target /\ r.type = "dirty"
      BY DEF DirtyRecord
    <2> HIDE DEF r
    <2>3. DOMAIN <<r>> = {1} /\ <<r>>[1] = r
      BY Short
    <2>4. V2Mask' = V2Mask \ lost
      BY <2>1, BroadcastShrinks, ShrinkFacts
    <2>5. /\ streams' = SentWithout(streams, lost) /\ clients' = ClientsWithout(lost)
          /\ dirty_seq' = dirty_seq + 1 /\ comp'.direct = comp.direct /\ stale' = stale
      BY <1>5 DEF CompPublish, CompTypes, history
    <2>6. /\ SentInv' /\ Gone \subseteq (Gone)'
          /\ \A d \in Dyn : \A s \in streams'[d].sent :
                app.conn # NoConn /\ clients'[s] = app.conn => s \in streams[d].sent /\ clients[s] = app.conn
      BY <1>4, <2>4, <2>5
    <2>7. \A i \in DOMAIN <<r>> : /\ <<r>>[i].surf \notin Dyn /\ <<r>>[i].surf \notin Gone
                                  /\ <<r>>[i].type # "drop"
      BY <1>0, <2>1, <2>2, <2>3 DEF Gone
    <2>8. GivenInv'
      BY <2>1, <2>5, <2>6, <2>7, BroadcastGiven
    <2> QED
      BY <2>6, <2>8
  <1>6. ASSUME NEW lost \in SUBSET Active, CompCursor(lost)
        PROVE  SentInv' /\ GivenInv'
    <2>0. {} \in SUBSET Active
      OBVIOUS
    <2>1. Broadcasts({}, lost, <<>>)
      BY <1>6, <2>0, BroadcastEffect
    <2>2. DOMAIN <<>> = {}
      OBVIOUS
    <2>3. V2Mask' = V2Mask \ lost
      BY <2>1, BroadcastShrinks, ShrinkFacts
    <2>4. /\ streams' = SentWithout(streams, lost) /\ clients' = ClientsWithout(lost)
          /\ dirty_seq' = dirty_seq /\ comp' = comp /\ stale' = stale
      BY <1>6 DEF CompCursor, compside, history
    <2>5. /\ SentInv' /\ Gone \subseteq (Gone)'
          /\ \A d \in Dyn : \A s \in streams'[d].sent :
                app.conn # NoConn /\ clients'[s] = app.conn => s \in streams[d].sent /\ clients[s] = app.conn
      BY <1>4, <2>3, <2>4
    <2>6. GivenInv'
      BY <2>1, <2>2, <2>4, <2>5, BroadcastGiven
    <2> QED
      BY <2>5, <2>6
  <1>7. ASSUME NEW ok \in SUBSET Active, NEW lost \in SUBSET Active, CompPublishDirect(ok, lost)
        PROVE  SentInv' /\ GivenInv'
    <2> DEFINE d == comp.direct
               recs == DirectRecords(d, ok)
               st == SentWithout(streams, lost)
    <2>1. d \in Dyn /\ Broadcasts(V2Mask \ lost, lost, recs) /\ recs \in Seq(Records)
      BY <1>7, BroadcastEffect DEF Broadcasts
    <2>2. V2Mask' = V2Mask \ lost
      BY <2>1, BroadcastShrinks, ShrinkFacts
    <2>3. /\ streams' = [st EXCEPT ![d].sent = (@ \cup V2Mask) \ lost, ![d].last_seq = dirty_seq + 1]
          /\ clients' = ClientsWithout(lost) /\ dirty_seq' = dirty_seq + 1 /\ comp'.direct = Nothing
          /\ stale' = stale
      BY <1>7 DEF CompPublishDirect, CompTypes, history
    <2>4. /\ st \in [Dyn -> StreamRecords]
          /\ \A e \in Dyn : /\ st[e].sent = streams[e].sent \ lost /\ st[e].state = streams[e].state
                            /\ st[e].last_seq = streams[e].last_seq
                            /\ st[e].released_seq = streams[e].released_seq
      BY WithoutSent, DropTypes
    <2>5. /\ \A i \in DOMAIN recs : recs[i].surf = d /\ recs[i].type \in {"surface", "dirty"}
          /\ SurfaceOwed(d) => /\ Announced(recs, d)
                               /\ \A i \in DOMAIN recs : recs[i].type = "dirty" =>
                                    \E j \in DOMAIN recs : j < i /\ recs[j].type = "surface" /\ recs[j].surf = d
      BY <2>1, DirectFacts
    <2>6. streams[d].state = "registered"
      BY <1>0, <2>1 DEF SentInv
    <2> HIDE DEF d, recs, st
    <2>7. /\ streams'[d].sent = (st[d].sent \cup V2Mask) \ lost /\ streams'[d].last_seq = dirty_seq + 1
          /\ streams'[d].state = "registered" /\ streams'[d].released_seq = streams[d].released_seq
          /\ \A e \in Dyn : e # d => streams'[e] = st[e]
      BY <2>1, <2>3, <2>4, <2>6 DEF StreamRecords
    <2>8. SentInv'
      <3>1. ASSUME NEW e \in Dyn
            PROVE  /\ e \notin stale => streams'[e].sent \subseteq V2Mask \ lost
                   /\ streams'[e].released_seq <= streams'[e].last_seq
                   /\ streams'[e].last_seq <= dirty_seq + 1
                   /\ streams'[e].state # "registered" => streams'[e].sent = {}
        <4>1. /\ e \notin stale => streams[e].sent \subseteq V2Mask
              /\ streams[e].released_seq <= streams[e].last_seq
              /\ streams[e].last_seq <= dirty_seq
              /\ streams[e].state # "registered" => streams[e].sent = {}
          BY DEF SentInv
        <4>2. streams[e].released_seq \in Nat /\ streams[e].last_seq \in Nat
          BY <1>0 DEF StreamRecords
        <4>3. CASE e = d
          BY <1>0, <2>4, <2>7, <4>1, <4>2, <4>3
        <4>4. CASE e # d
          BY <1>0, <2>4, <2>7, <4>1, <4>2, <4>4
        <4> QED
          BY <4>3, <4>4
      <3> QED
        BY <2>2, <2>3, <3>1 DEF SentInv
    <2>9. Gone \subseteq (Gone)' /\ d \notin Gone
      BY <2>4, <2>6, <2>7 DEF Gone
    <2>10. ASSUME app.conn # NoConn, Gets(app.conn, V2Mask \ lost), NEW i \in DOMAIN recs,
                  recs[i].type = "dirty"
           PROVE  \/ recs[i].surf \in Given \/ Announced(conns[app.conn].out, recs[i].surf)
                  \/ \E j \in DOMAIN recs : j < i /\ recs[j].type = "surface" /\ recs[j].surf = recs[i].surf
      <3>1. recs[i].surf = d
        BY <2>5
      <3>2. CASE SurfaceOwed(d)
        BY <2>5, <2>10, <3>1, <3>2
      <3>3. CASE ~ SurfaceOwed(d)
        <4>1. PICK s \in V2Mask \ lost : clients[s] = app.conn
          BY <2>10 DEF Gets
        <4>2. s \in streams[d].sent
          BY <3>3, <4>1 DEF SurfaceOwed
        <4> QED
          BY <2>1, <2>10, <3>1, <4>1, <4>2 DEF GivenInv
      <3> QED
        BY <3>2, <3>3
    <2>11. ASSUME NEW e \in Dyn, NEW s \in streams'[e].sent, e \notin stale, app.conn # NoConn,
                  clients'[s] = app.conn
           PROVE  \/ s \in streams[e].sent /\ clients[s] = app.conn
                  \/ Gets(app.conn, V2Mask \ lost) /\ Announced(recs, e)
      <3>1. s \in V2Mask \ lost /\ s \in ClientSlots
        BY <2>2, <2>3, <2>8, <2>11 DEF SentInv, V2Mask, Active
      <3>2. clients[s] = app.conn
        BY <2>3, <2>11, <3>1, WithoutFacts
      <3>3. CASE s \in streams[e].sent
        BY <3>2, <3>3
      <3>4. CASE s \notin streams[e].sent
        <4>1. e = d
          BY <2>4, <2>7, <2>11, <3>4
        <4>2. SurfaceOwed(d)
          BY <3>1, <3>4, <4>1 DEF SurfaceOwed
        <4>3. Gets(app.conn, V2Mask \ lost)
          BY <3>1, <3>2 DEF Gets
        <4> QED
          BY <2>5, <4>1, <4>2, <4>3
      <3> QED
        BY <3>3, <3>4
    <2>12. /\ \A i \in DOMAIN recs : recs[i].surf \notin Gone
           /\ \A i \in DOMAIN recs : recs[i].type # "drop"
      BY <2>5, <2>9
    <2>13. GivenInv'
      BY <2>1, <2>3, <2>9, <2>10, <2>11, <2>12, BroadcastGiven
    <2> QED
      BY <2>8, <2>13
  <1>8. ASSUME NEW d \in Dyn, NEW ok \in SUBSET Active, NEW lost \in SUBSET Active,
               CompUnregister(d, ok, lost)
        PROVE  SentInv' /\ GivenInv'
    <2> DEFINE r == [type |-> "drop", surf |-> d]
               st == SentWithout(streams, lost)
               g == [NewStream EXCEPT !.state = "gone"]
    <2>1. Broadcasts(ok, lost, <<r>>)
      BY <1>8, BroadcastEffect
    <2>2. r.surf = d /\ r.type = "drop"
      OBVIOUS
    <2>3. g.state = "gone" /\ g.sent = {} /\ g.last_seq = 0 /\ g.released_seq = 0
      BY DEF NewStream
    <2>4. /\ streams' = [st EXCEPT ![d] = g] /\ clients' = ClientsWithout(lost)
          /\ dirty_seq' = dirty_seq /\ comp' = comp /\ comp.direct = Nothing
          /\ streams[d].state = "registered" /\ stale' = stale
      BY <1>8 DEF CompUnregister, CompIdle, compside, history
    <2>5. V2Mask' = V2Mask \ lost
      BY <2>1, BroadcastShrinks, ShrinkFacts
    <2>6. /\ st \in [Dyn -> StreamRecords]
          /\ \A e \in Dyn : /\ st[e].sent = streams[e].sent \ lost /\ st[e].state = streams[e].state
                            /\ st[e].last_seq = streams[e].last_seq
                            /\ st[e].released_seq = streams[e].released_seq
      BY WithoutSent, DropTypes
    <2> HIDE DEF r, st, g
    <2>7. streams'[d] = g /\ \A e \in Dyn : e # d => streams'[e] = st[e]
      BY <2>4, <2>6
    <2>8. SentInv'
      <3>1. ASSUME NEW e \in Dyn
            PROVE  /\ e \notin stale => streams'[e].sent \subseteq V2Mask \ lost
                   /\ streams'[e].released_seq <= streams'[e].last_seq
                   /\ streams'[e].last_seq <= dirty_seq
                   /\ streams'[e].state # "registered" => streams'[e].sent = {}
        <4>1. CASE e = d
          BY <1>0, <2>3, <2>7, <4>1
        <4>2. CASE e # d
          BY <2>6, <2>7, <4>2 DEF SentInv
        <4> QED
          BY <4>1, <4>2
      <3> QED
        BY <2>4, <2>5, <3>1 DEF SentInv
    <2>9. Gone \subseteq (Gone)' /\ d \notin Gone /\ d \in (Gone)'
      BY <2>3, <2>4, <2>6, <2>7 DEF Gone
    <2>10. DOMAIN <<r>> = {1} /\ <<r>>[1] = r
      BY Short
    <2>11. \A e \in Dyn : \A s \in streams'[e].sent :
              app.conn # NoConn /\ clients'[s] = app.conn => s \in streams[e].sent /\ clients[s] = app.conn
      <3>1. \A e \in Dyn : \A s \in streams'[e].sent : s \in streams[e].sent /\ s \in ClientSlots
        BY <1>0, <2>3, <2>6, <2>7 DEF StreamRecords
      <3>2. \A s \in ClientSlots : clients'[s] \in {clients[s], NoConn}
        BY <2>4, WithoutFacts
      <3> QED
        BY <3>1, <3>2
    <2>12. /\ \A i \in DOMAIN <<r>> : <<r>>[i].surf \notin Gone
           /\ \A i \in DOMAIN <<r>> : <<r>>[i].type # "dirty"
           /\ \A j \in DOMAIN <<r>> : /\ <<r>>[j].surf \in (Gone)'
                                      /\ \A i \in DOMAIN <<r>> : j < i => <<r>>[i].surf # <<r>>[j].surf
      BY <2>2, <2>9, <2>10
    <2>13. GivenInv'
      BY <2>1, <2>4, <2>9, <2>11, <2>12, BroadcastGiven
    <2> QED
      BY <2>8, <2>13
  <1> QED
    BY <1>2, <1>3, <1>5, <1>6, <1>7, <1>8 DEF CompStep

\* A resize: the sent bits that stay are remembered.
LEMMA ResizeDirect ==
  ASSUME TypeOK, TableInv, LinkInv, SentInv, GivenInv, CompResize
  PROVE  SentInv' /\ GivenInv'
  <1> USE TypeParts
  <1>1. /\ UNCHANGED <<streams, dirty_seq, app, comp>>
        /\ stale' = stale \cup {d \in Dyn : streams[d].sent # {}}
        /\ clients' = ClientsWithout(ClientSlots)
    BY DEF CompResize, appside, compside
  <1>2. SentInv'
    <2>1. \A d \in Dyn : /\ d \notin stale' => streams[d].sent = {}
                         /\ streams[d].released_seq <= streams[d].last_seq
      BY <1>1 DEF SentInv
    <2> QED
      BY <1>1, <2>1, SentKept
  <1>3. SameStreams /\ Given \subseteq (Given)' /\ Gone \subseteq (Gone)'
    <2>1. SameStreams
      BY CloseFacts DEF CompResize, SameStreams, Keeps
    <2> QED
      BY <1>1, <2>1 DEF Given, Gone
  <1>4. \A d \in Dyn : \A s \in streams'[d].sent :
           d \notin stale' /\ clients'[s] = app.conn => s \in streams[d].sent /\ clients[s] = app.conn
    BY <1>1
  <1> QED
    BY <1>1, <1>2, <1>3, <1>4, GivenKept

\* Every step keeps the direct surfaces in order.
LEMMA DirectStep ==
  TypeOK /\ TableInv /\ LinkInv /\ DirectInv /\ [Next]_vars => DirectInv'
  <1> SUFFICES ASSUME TypeOK, TableInv, LinkInv, DirectInv, [Next]_vars
               PROVE  SentInv' /\ GivenInv'
    BY DEF DirectInv
  <1>2. SentInv /\ GivenInv
    BY DEF DirectInv
  <1>3. CASE GpuStep \/ UNCHANGED vars
    <2>1. UNCHANGED <<clients, conns, streams, dirty_seq, comp, app, stale>>
      BY <1>3 DEF GpuStep, AppGpuSample, AppGpuSignal, CompGpuWrite, vars, server, appside, compside, history
    <2>2. V2Mask' = V2Mask
      BY <2>1 DEF V2Mask, Active
    <2>3. SentInv'
      BY <1>2, <2>1, <2>2 DEF SentInv
    <2>4. GivenInv'
      BY <1>2, <2>1 DEF GivenInv, Given, Gone
    <2> QED
      BY <2>3, <2>4
  <1> QED
    BY <1>2, <1>3, ThreadDirect, AppDirect, CompDirectStep, ResizeDirect DEF Next

\* Initially nothing is under way.
LEMMA DirectInit == Init => LinkInv /\ DirectInv
  <1> SUFFICES ASSUME Init PROVE LinkInv /\ DirectInv
    OBVIOUS
  <1>1. app = NoApp /\ \A c \in Conns : conns[c].out = <<>>
    BY DEF Init, NewConn
  <1>2. DOMAIN <<>> = {}
    OBVIOUS
  <1>3. LinkInv
    BY <1>1, <1>2, NoAppFacts DEF LinkInv
  <1>4. GivenInv
    BY <1>1, NoAppFacts DEF GivenInv
  <1>5. \A d \in Dyn : /\ streams[d].sent = {} /\ streams[d].released_seq = 0 /\ streams[d].last_seq = 0
    BY DEF Init, NewStream
  <1>6. SentInv
    BY <1>5 DEF SentInv, Init
  <1> QED
    BY <1>3, <1>4, <1>6 DEF DirectInv

\* The whole inductive invariant.
StreamInv == TypeOK /\ TableInv /\ LinkInv /\ DirectInv

\* StreamInv is an invariant of the specification.
LEMMA StreamAlways == Spec => []StreamInv
  <1>1. Init => StreamInv
    BY TypeInit, TableInit, DirectInit DEF StreamInv
  <1>2. StreamInv /\ [Next]_vars => StreamInv'
    BY TypeStep, TableStep, LinkStep, DirectStep DEF StreamInv
  <1> QED
    BY <1>1, <1>2, PTL DEF Spec

\* No DIRTY names a surface the app was not given, over any number of
\* connections and resizes, except a direct surface that was with a client at a
\* resize.
THEOREM NamesAreKnown == Spec => []DirtyNamesKnownSurface
  <1>1. StreamInv => DirtyNamesKnownSurface
    <2> SUFFICES ASSUME StreamInv, AppHas("dirty")
                 PROVE  AppRecord.surf \in app.known \cup stale
      BY DEF DirtyNamesKnownSurface
    <2> DEFINE out == conns[app.conn].out
    <2>0. TypeOK /\ LinkInv /\ DirectInv
      BY DEF StreamInv
    <2>1. app.state = "live" /\ out # <<>> /\ AppRecord = Head(out) /\ Head(out).type = "dirty"
      BY DEF AppHas, AppRecord
    <2>2. app.conn \in Conns /\ app.conn # NoConn /\ conns[app.conn].caps \in {"v2", "legacy"}
      BY <2>0, <2>1, LinkFacts DEF ConnRecords
    <2>3. out \in Seq(Records) /\ AppRecord \in Records
      BY <2>0, <2>1, HeadFacts
    <2>4. 1 \in DOMAIN out /\ Head(out) = out[1]
      BY <2>1, <2>3, TailFacts
    <2>5. AppRecord.surf \in Outputs \cup Dyn
      BY <2>3, RecordFacts DEF Surfaces
    <2>6. CASE AppRecord.surf \in Outputs
      BY <2>0, <2>1, <2>2, <2>4, <2>6 DEF LinkInv
    <2>7. CASE AppRecord.surf \notin Outputs
      <3>1. AppRecord.surf \in Dyn /\ InOrder(out, Given, Gone)
        BY <2>0, <2>2, <2>5, <2>7 DEF DirectInv, GivenInv
      <3>2. \A j \in DOMAIN out : ~(j < 1)
        BY <2>3
      <3>3. AppRecord.surf \in Given
        BY <2>1, <2>4, <3>1, <3>2 DEF InOrder
      <3> QED
        BY <3>3 DEF Given
    <2> QED
      BY <2>6, <2>7
  <1> QED
    BY <1>1, StreamAlways, PTL

\* Only a completed handshake makes the table grow.
LEMMA TableGrows ==
  ASSUME TypeOK, TableInv, [Next]_vars, Active = {}, Active' # {}
  PROVE  \E c \in Conns : HsAdd(c)
  <1>1. ASSUME NEW lost, Shrinks(lost) PROVE FALSE
    BY <1>1, ShrinkFacts
  <1>2. ASSUME UNCHANGED <<clients, conns>> PROVE FALSE
    BY <1>2 DEF Active
  <1>3. ASSUME NEW c \in Conns, AcceptStep(c) \/ ReaderStep(c), ~ HsAdd(c) PROVE FALSE
    BY <1>1, <1>3, AcceptShrinks, LeaveShrinks DEF AcceptStep, ReaderStep
  <1>4. CASE AppStep
    BY <1>1, <1>4, AppShrinks
  <1>5. CASE GpuStep \/ UNCHANGED vars
    BY <1>2, <1>5 DEF GpuStep, AppGpuSample, AppGpuSignal, CompGpuWrite, vars, server
  <1>6. CASE CompStep
    <2>1. CASE \/ \E i \in Outputs : CompAcquire(i)
               \/ CompCancel
               \/ CompDraw
               \/ \E d \in Dyn : CompDirectCheck(d)
      BY <1>2, <2>1 DEF CompAcquire, CompCancel, CompDraw, CompDirectCheck, server
    <2>2. ASSUME NEW ok \in SUBSET Active, NEW lost \in SUBSET Active,
                 \/ CompPublish(ok, lost) \/ CompPublishDirect(ok, lost)
                 \/ \E d \in Dyn : CompUnregister(d, ok, lost)
                 \/ CompCursor(lost)
          PROVE  FALSE
      <3>1. \E x, y : Broadcasts(x, lost, y)
        BY <2>2, BroadcastEffect
      <3> QED
        BY <1>1, <3>1, BroadcastShrinks
    <2>3. CASE CompResize
      <3>1. Shrinks(ClientSlots)
        BY <2>3, WithoutFacts DEF CompResize, Shrinks, Active
      <3> QED
        BY <1>1, <3>1
    <2> QED
      BY <1>6, <2>1, <2>2, <2>3 DEF CompStep
  <1> QED
    BY <1>3, <1>4, <1>5, <1>6 DEF Next

\* Through resizes too, the handshake of a first client gives back every direct
\* surface that was with no client at a resize.
THEOREM DirectRecovered == Spec => HandshakeRecoversDirect
  <1>1. ASSUME StreamInv, [Next]_vars, Active = {}, Active' # {},
               NEW d \in Dyn, streams[d].state = "registered", d \notin stale
        PROVE  streams'[d].released_seq = streams'[d].last_seq
    <2>0. TypeOK /\ TableInv /\ DirectInv
      BY <1>1 DEF StreamInv
    <2>2. SentInv
      BY <2>0 DEF DirectInv
    <2>3. PICK c \in Conns : HsAdd(c)
      BY <1>1, <2>0, TableGrows
    <2>4. streams' = RecoverStreams
      BY <1>1, <2>3 DEF HsAdd
    <2>5. streams[d].sent = {} /\ streams[d].released_seq <= streams[d].last_seq
      BY <1>1, <2>2 DEF SentInv, V2Mask
    <2>6. streams'[d] = [streams[d] EXCEPT !.released_seq = Larger(@, streams[d].last_seq)]
      BY <1>1, <2>4, <2>5 DEF RecoverStreams
    <2>7. streams[d] \in StreamRecords
      BY <2>0, TypeParts DEF StreamTypes
    <2>8. Larger(streams[d].released_seq, streams[d].last_seq) = streams[d].last_seq
      BY <2>5, <2>7 DEF Larger, StreamRecords
    <2> QED
      BY <2>6, <2>7, <2>8 DEF StreamRecords
  <1>2. StreamInv /\ [Next]_vars =>
          [Active = {} /\ Active' # {} =>
              \A d \in Dyn : streams[d].state = "registered" /\ d \notin stale =>
                  streams'[d].released_seq = streams'[d].last_seq]_vars
    BY <1>1
  <1> QED
    BY <1>2, StreamAlways, PTL DEF Spec, HandshakeRecoversDirect

-----------------------------------------------------------------------------
(* The frames on their way, as the app's connection has them.              *)

\* What the app's connection carries, and how it was made.
Out == IF app.conn = NoConn THEN <<>> ELSE conns[app.conn].out
Caps == IF app.conn = NoConn THEN "none" ELSE conns[app.conn].caps
Gen == IF app.conn = NoConn THEN 0 ELSE conns[app.conn].gen

\* The app has a frame.
Cur == app.pending \/ app.held

\* Frame n is older than everything the app has still to show.
Behind(n, out, cur, seq, last) ==
    /\ n <= last
    /\ cur => n < seq
    /\ \A i \in DOMAIN out : out[i].type = "dirty" => n < out[i].seq
Older(n) == Behind(n, Out, Cur, app.seq, dirty_seq)

\* A RELEASED that names frame n is on its way in connection c.
Names(m, n) == m.type = "released" /\ m.seq = n
Echoes(c, n) ==
    \/ \E i \in DOMAIN conns[c].in : Names(conns[c].in[i], n)
    \/ Names(conns[c].checked, n)
Answered == {n \in Seqs : \E c \in Conns : Echoes(c, n)}

\* Connections are accepted in the order they were made, the newest is the
\* app's, and one that was not added has carried nothing.
AcceptInv ==
    /\ \A c \in Conns : conns[c].app = "open" => c = app.conn
    /\ \A b, c \in Conns : b < c /\ conns[b].phase = "unused" => conns[c].phase = "unused"
    /\ app.conn # NoConn => \A c \in Conns : app.conn < c => conns[c].phase = "unused"
    /\ \A b, c \in Conns : b < c /\ conns[b].phase \in {"backlog", "replied"} =>
          conns[c].phase \in {"unused", "backlog"}
    /\ \A c \in Conns : conns[c].phase \in {"unused", "backlog", "replied"} => conns[c].out = <<>>
    /\ \A c \in Conns : conns[c].phase \in {"unused", "backlog"} => conns[c].gen = 0
    /\ \A c \in Conns : conns[c].reader => conns[c].phase \in {"attached", "dropped"}

\* Frames pass from the socket to the app and to its GPU in the order of their
\* numbers; the release event and every RELEASED are behind them.
OrderInv ==
    /\ app.held => app.state = "live" /\ Caps = "v2" /\ ~app.pending
    /\ Cur => /\ app.seq <= dirty_seq
              /\ \A i \in DOMAIN Out : Out[i].type = "dirty" => app.seq < Out[i].seq
    /\ \A i \in DOMAIN Out : Out[i].type = "dirty" => Out[i].seq <= dirty_seq
    /\ \A i, j \in DOMAIN Out : i < j /\ Out[i].type = "dirty" /\ Out[j].type = "dirty" =>
          Out[i].seq < Out[j].seq
    /\ Older(timeline)
    /\ \A n \in Answered : Older(n)
    /\ \A i \in DOMAIN app_gpu : app_gpu[i].op = "signal" =>
          timeline < app_gpu[i].seq /\ Older(app_gpu[i].seq)
    /\ \A i, j \in DOMAIN app_gpu : i < j /\ app_gpu[i].op = "signal" /\ app_gpu[j].op = "signal" =>
          app_gpu[i].seq < app_gpu[j].seq

\* Nothing is of a generation to come.
GenInv ==
    /\ \A c \in Conns : conns[c].gen <= generation
    /\ \A i \in DOMAIN app_gpu : app_gpu[i].gen <= generation
    /\ \A w \in writes : w.gen <= generation

\* Draws are numbered by the frame they are for.
DrawInv ==
    /\ \A w \in writes : w.seq <= dirty_seq \/ (comp.drawn /\ w.seq = dirty_seq + 1)
    /\ \A w, v \in writes : w.seq = v.seq => w = v

\* The fence of frame n has fired: the draws `drawn' are of later frames.
Passed(n, drawn) == \A w \in drawn : n < w.seq

\* A sample of frame n in surface s is in the queue q before place j.
SampledBefore(q, s, n, j) ==
    \E i \in DOMAIN q : i < j /\ q[i].op = "sample" /\ q[i].surf = s /\ q[i].seq = n

\* A release signal runs behind a sample that awaits the frame's fence.
FenceInv ==
    /\ \A j \in DOMAIN app_gpu : app_gpu[j].op = "signal" /\ app_gpu[j].surf \in Outputs =>
          Passed(app_gpu[j].seq, writes) \/ SampledBefore(app_gpu, app_gpu[j].surf, app_gpu[j].seq, j)
    /\ app.held /\ app.surf \in Outputs =>
          Passed(app.seq, writes) \/ SampledBefore(app_gpu, app.surf, app.seq, Len(app_gpu) + 1)

FlowInv == AcceptInv /\ OrderInv /\ GenInv /\ DrawInv /\ FenceInv

-----------------------------------------------------------------------------
\* The types of what is under way.
FlowTyped ==
    /\ Out \in Seq(Records) /\ app_gpu \in Seq(GpuCommands)
    /\ app.conn # NoConn => app.conn \in Conns
    /\ \A i \in DOMAIN Out : /\ Out[i] \in Records /\ i \in Nat /\ i > 0
                             /\ Out[i].type = "dirty" => Out[i].seq \in Seqs /\ Out[i].seq \in Nat
    /\ \A i \in DOMAIN app_gpu : /\ app_gpu[i] \in GpuCommands /\ i \in Nat /\ i > 0
                                 /\ app_gpu[i].seq \in Seqs /\ app_gpu[i].seq \in Nat
                                 /\ app_gpu[i].gen \in Nat /\ app_gpu[i].op \in {"sample", "signal"}
                                 /\ app_gpu[i].surf \in Surfaces
    /\ app.seq \in Nat /\ dirty_seq \in Nat /\ timeline \in Nat /\ generation \in Nat
    /\ \A w \in writes : w.seq \in Nat /\ w.wait \in Nat /\ w.gen \in Nat /\ w.slot \in Outputs
    /\ Seqs \subseteq Nat

\* They follow from TypeOK,
LEMMA FlowTypes == TypeOK => FlowTyped
  <1> SUFFICES ASSUME TypeOK PROVE FlowTyped
    OBVIOUS
  <1> USE TypeParts
  <1>1. app.conn # NoConn => app.conn \in Conns /\ conns[app.conn].out \in Seq(Records)
    BY DEF LinkTypes, Links, ConnTypes, ConnRecords
  <1>2. Out \in Seq(Records)
    BY <1>1 DEF Out
  <1>3. app_gpu \in Seq(GpuCommands)
    BY DEF GpuTypes
  <1>4. Seqs \subseteq Nat /\ Generations \subseteq Nat
    BY Basics DEF Seqs, Generations
  <1>5. \A S : \A q \in Seq(S) : \A i \in DOMAIN q : q[i] \in S /\ i \in Nat /\ i > 0
    OBVIOUS
  <1>6. \A i \in DOMAIN Out : Out[i] \in Records /\ i \in Nat /\ i > 0
    BY <1>2, <1>5
  <1>7. \A i \in DOMAIN app_gpu : app_gpu[i] \in GpuCommands /\ i \in Nat /\ i > 0
    BY <1>3, <1>5
  <1>8. \A g \in GpuCommands : g.seq \in Seqs /\ g.gen \in Generations /\ g.op \in {"sample", "signal"}
                               /\ g.surf \in Surfaces
    BY DEF GpuCommands
  <1>9. app.seq \in Nat /\ dirty_seq \in Nat /\ timeline \in Nat /\ generation \in Nat
    <2>1. app.seq \in 0..MaxSeq /\ dirty_seq \in 0..MaxSeq /\ timeline \in 0..MaxSeq
      BY DEF LinkTypes, Links, ServerTypes, GpuTypes
    <2>2. generation \in Generations
      BY DEF ServerTypes
    <2> QED
      BY <1>4, <2>1, <2>2, Basics
  <1>10. \A w \in writes : w.seq \in Nat /\ w.wait \in Nat /\ w.gen \in Nat /\ w.slot \in Outputs
    BY <1>4 DEF CompTypes, Draws
  <1>11. \A i \in DOMAIN Out : Out[i].type = "dirty" => Out[i].seq \in Seqs
    BY <1>6, RecordFacts
  <1> QED
    BY <1>1, <1>2, <1>3, <1>4, <1>6, <1>7, <1>8, <1>9, <1>10, <1>11 DEF FlowTyped

\* and so in the next state.
LEMMA FlowTypesNext == TypeOK' => FlowTyped'
  BY FlowTypes, PTL

-----------------------------------------------------------------------------
(* What a step does to the frames on their way.                            *)

\* What the app shows is as it was.
SameFrame ==
    /\ app'.seq = app.seq /\ app'.surf = app.surf
    /\ app'.pending = app.pending /\ app'.held = app.held

SameEvents == UNCHANGED <<timeline, dirty_seq>> /\ Answered' \subseteq Answered

\* Nothing moves.  A connection reads its generation before it carries frames.
Rests ==
    /\ SameFrame /\ SameEvents /\ Out' = Out /\ Caps' = Caps /\ app_gpu' = app_gpu
    /\ Gen' = Gen \/ (Out = <<>> /\ ~Cur)
    /\ app.held => app'.state = app.state

\* The app reads a record that is not a frame,
Skips ==
    /\ SameFrame /\ SameEvents /\ Caps' = Caps /\ Gen' = Gen /\ app_gpu' = app_gpu
    /\ Out # <<>> /\ Head(Out).type # "dirty" /\ Out' = Tail(Out)
    /\ app'.state = app.state

\* The frame the app releases, if it holds one.
Returned == IF app.held THEN {app.seq} ELSE {}

\* or a frame,
Reads ==
    /\ Out # <<>> /\ Head(Out).type = "dirty" /\ Out' = Tail(Out) /\ ~app.pending
    /\ app'.seq = Head(Out).seq /\ app'.surf = Head(Out).surf
    /\ app'.pending = TRUE /\ app'.held = FALSE
    /\ app_gpu' = SignalHeld /\ Caps' = Caps /\ Gen' = Gen
    /\ UNCHANGED <<timeline, dirty_seq>> /\ Answered' \subseteq Answered \cup Returned

\* presents it,
Presents ==
    /\ Cur /\ SameEvents /\ Out' = Out /\ Caps' = Caps /\ Gen' = Gen
    /\ app'.seq = app.seq /\ app'.surf = app.surf /\ app'.pending = FALSE
    /\ app.state = "live" /\ app'.state = "live"
    /\ IF Caps = "v2"
       THEN /\ app_gpu' = Append(app_gpu, [op |-> "sample", surf |-> app.surf, gen |-> Gen, seq |-> app.seq])
            /\ app'.held = TRUE
       ELSE app'.held = app.held /\ app_gpu' = app_gpu

\* gives up the stream,
Closes ==
    /\ app'.seq = app.seq /\ app'.surf = app.surf
    /\ app'.pending = app.pending /\ app'.held = FALSE
    /\ Out' = Out /\ Caps' = Caps /\ Gen' = Gen /\ app_gpu' = SignalHeld
    /\ UNCHANGED <<timeline, dirty_seq>> /\ Answered' \subseteq Answered \cup Returned

\* or has nothing any more, or not yet.
Quits ==
    /\ Out' = <<>> /\ app'.pending = FALSE /\ app'.held = FALSE
    /\ SameEvents
    /\ app_gpu' = app_gpu \/ app_gpu' = <<>>
    /\ app.held /\ app.state = "live" => app_gpu' = <<>>

\* The compositor sends records, among them at most one frame, in surface surf
\* and delivered to the clients `to'.
Sends(recs, surf, to) ==
    /\ recs \in Seq(Records) /\ Out' = Out \o recs
    /\ recs # <<>> => /\ app.conn # NoConn /\ conns[app.conn].phase \in {"added", "attached"}
                      /\ Gen = generation
    /\ \A i \in DOMAIN recs : recs[i].type = "dirty" =>
          /\ recs[i].seq = dirty_seq + 1 /\ dirty_seq' = dirty_seq + 1 /\ recs[i].surf = surf
          /\ Caps = "v2" => to # {}
    /\ \A i, j \in DOMAIN recs : recs[i].type = "dirty" /\ recs[j].type = "dirty" => i = j
    /\ dirty_seq' = dirty_seq \/ dirty_seq' = dirty_seq + 1
    /\ app' = app /\ Caps' = Caps /\ Gen' = Gen /\ app_gpu' = app_gpu /\ timeline' = timeline
    /\ Answered' \subseteq Answered

\* The app's GPU runs a command.
Runs ==
    /\ app_gpu # <<>> /\ app_gpu' = Tail(app_gpu)
    /\ SameFrame /\ Out' = Out /\ Caps' = Caps /\ Gen' = Gen /\ Answered' \subseteq Answered
    /\ dirty_seq' = dirty_seq /\ app'.state = app.state
    /\ timeline' = IF Head(app_gpu).op = "signal" THEN Head(app_gpu).seq ELSE timeline
    /\ Head(app_gpu).op = "sample" /\ Head(app_gpu).surf \in Outputs => Passed(Head(app_gpu).seq, writes)
    /\ writes' = writes

-----------------------------------------------------------------------------
\* What a server thread does to its connection.
ThreadMove(c) ==
    /\ conns'[c].out = conns[c].out /\ conns'[c].caps = conns[c].caps /\ conns'[c].app = conns[c].app
    /\ \/ conns'[c].phase = conns[c].phase
       \/ HsTurn(c) /\ conns'[c].phase \in {"replied", "refused"}
       \/ /\ conns[c].phase \notin {"unused", "backlog"}
          /\ conns'[c].phase \notin {"unused", "backlog", "replied"}
    /\ \/ conns'[c].gen = conns[c].gen
       \/ HsTurn(c) /\ conns'[c].gen = generation /\ conns'[c].phase = "replied"
    /\ conns'[c].reader => conns'[c].phase \in {"attached", "dropped"}
    /\ \A n : Echoes(c, n)' => Echoes(c, n)

\* A connection's RELEASEDs are among those it had.
LEMMA EchoFewer ==
  ASSUME NEW c \in Conns, conns[c] \in ConnRecords,
         \/ conns'[c].in = conns[c].in
         \/ conns[c].in # <<>> /\ conns'[c].in = Tail(conns[c].in)
         \/ conns'[c].in = <<>>,
         \/ conns'[c].checked = conns[c].checked
         \/ conns'[c].checked = NoRecord
         \/ conns[c].in # <<>> /\ conns'[c].checked = Head(conns[c].in)
  PROVE  \A n : Echoes(c, n)' => Echoes(c, n)
  <1> DEFINE q == conns[c].in
             p == conns'[c].in
  <1>0. q \in Seq(Replies)
    BY DEF ConnRecords
  <1>1. q # <<>> => 1 \in DOMAIN q /\ Head(q) = q[1]
    BY <1>0, TailFacts
  <1>2. \A i \in DOMAIN p : \E j \in DOMAIN q : p[i] = q[j]
    <2>1. CASE p = q
      BY <2>1
    <2>2. CASE q # <<>> /\ p = Tail(q)
      BY <1>0, <2>2, TailFacts
    <2>3. CASE p = <<>>
      BY <2>3
    <2> QED
      BY <2>1, <2>2, <2>3
  <1>3. NoRecord.type # "released"
    BY DEF NoRecord
  <1> SUFFICES ASSUME NEW n, Echoes(c, n)' PROVE Echoes(c, n)
    OBVIOUS
  <1>4. CASE \E i \in DOMAIN p : Names(p[i], n)
    BY <1>2, <1>4 DEF Echoes
  <1>5. CASE Names(conns'[c].checked, n)
    BY <1>1, <1>3, <1>5 DEF Echoes, Names
  <1> QED
    BY <1>4, <1>5 DEF Echoes, Names

\* One connection changes, and its RELEASEDs are among those it had.
LEMMA AnswersFewer ==
  ASSUME \A c \in Conns : \A n : Echoes(c, n)' => Echoes(c, n)
  PROVE  Answered' \subseteq Answered
  BY DEF Answered
\* A server thread changes its own connection only, and nothing of the app,
\* the GPUs or the compositor.
LEMMA ThreadMoves ==
  ASSUME TypeOK, AcceptInv, NEW c \in Conns, AcceptStep(c) \/ ReaderStep(c)
  PROVE  /\ UNCHANGED <<app, app_gpu, timeline, dirty_seq, generation, comp, gpu_wait, writes>>
         /\ \A b \in Conns : b # c => conns'[b] = conns[b]
         /\ ThreadMove(c)
  <1>0. ConnTypes /\ conns[c] \in ConnRecords
    BY TypeParts DEF ConnTypes
  <1> DEFINE Serves(k) == k.reader => k.phase \in {"attached", "dropped"}
  <1>20. Serves(conns[c])
    BY DEF AcceptInv
  <1>1. UNCHANGED <<app, app_gpu, timeline, dirty_seq, generation, comp, gpu_wait, writes>>
    <2>1. CASE HsReaderFails(c) \/ ReaderExit(c)
      BY <1>0, <2>1, LeaveEffect DEF appside, compside
    <2>2. CASE ~(HsReaderFails(c) \/ ReaderExit(c))
      BY <2>2 DEF AcceptStep, ReaderStep, HsReply, HsFail, HsRefuse, HsAdd, HsReader, ReaderTake,
                  ReaderPacing, ReaderReleased, appside, compside, server
    <2> QED
      BY <2>1, <2>2
  <1>2. ASSUME NEW r, Becomes(c, r)
        PROVE  conns'[c] = r /\ \A b \in Conns : b # c => conns'[b] = conns[b]
    BY <1>0, <1>2, OneConn
  <1>3. CASE HsReply(c)
    <2>1. Becomes(c, [conns[c] EXCEPT !.phase = "replied", !.gen = generation]) /\ HsTurn(c)
      BY <1>0, <1>3, HsReplyEffect DEF HsReply
    <2>0. conns'[c] = [conns[c] EXCEPT !.phase = "replied", !.gen = generation]
      BY <1>2, <2>1
    <2>2. /\ conns'[c].phase = "replied" /\ conns'[c].gen = generation /\ conns'[c].out = conns[c].out
          /\ conns'[c].caps = conns[c].caps /\ conns'[c].app = conns[c].app
          /\ conns'[c].reader = conns[c].reader /\ conns'[c].in = conns[c].in
          /\ conns'[c].checked = conns[c].checked
      BY <1>0, <2>0 DEF ConnRecords
    <2>3. conns[c].phase = "backlog"
      BY <2>1 DEF HsTurn
    <2> QED
      BY <1>0, <1>1, <1>2, <1>20, <2>1, <2>2, <2>3, EchoFewer DEF ThreadMove
  <1>4. CASE HsFail(c) \/ HsRefuse(c)
    <2>1. Becomes(c, [conns[c] EXCEPT !.phase = "refused"])
      BY <1>0, <1>4, HsRefuseEffect
    <2>0. conns'[c] = [conns[c] EXCEPT !.phase = "refused"]
      BY <1>2, <2>1
    <2>2. /\ conns'[c].phase = "refused" /\ conns'[c].gen = conns[c].gen /\ conns'[c].out = conns[c].out
          /\ conns'[c].caps = conns[c].caps /\ conns'[c].app = conns[c].app
          /\ conns'[c].reader = conns[c].reader /\ conns'[c].in = conns[c].in
          /\ conns'[c].checked = conns[c].checked
      BY <1>0, <2>0 DEF ConnRecords
    <2>3. HsTurn(c) \/ conns[c].phase = "replied"
      BY <1>4 DEF HsFail, HsRefuse
    <2>4. conns[c].phase \in {"backlog", "replied"}
      BY <2>3 DEF HsTurn
    <2> QED
      BY <1>0, <1>1, <1>2, <1>20, <2>1, <2>2, <2>3, <2>4, EchoFewer DEF ThreadMove
  <1>5. CASE HsAdd(c)
    <2>1. Becomes(c, [conns[c] EXCEPT !.phase = "added", !.slot = HsSlot])
      BY <1>0, <1>5, HsAddEffect
    <2>0. conns'[c] = [conns[c] EXCEPT !.phase = "added", !.slot = HsSlot]
      BY <1>2, <2>1
    <2>2. /\ conns'[c].phase = "added" /\ conns'[c].gen = conns[c].gen /\ conns'[c].out = conns[c].out
          /\ conns'[c].caps = conns[c].caps /\ conns'[c].app = conns[c].app
          /\ conns'[c].reader = conns[c].reader /\ conns'[c].in = conns[c].in
          /\ conns'[c].checked = conns[c].checked
      BY <1>0, <2>0 DEF ConnRecords
    <2>3. conns[c].phase = "replied"
      BY <1>5 DEF HsAdd
    <2> QED
      BY <1>0, <1>1, <1>2, <1>20, <2>1, <2>2, <2>3, EchoFewer DEF ThreadMove
  <1>6. CASE HsReader(c)
    <2> DEFINE p == IF conns[c].phase = "added" THEN "attached" ELSE conns[c].phase
    <2>1. Becomes(c, [conns[c] EXCEPT !.reader = TRUE, !.phase = p])
      BY <1>0, <1>6, HsReaderEffect
    <2>0. conns'[c] = [conns[c] EXCEPT !.reader = TRUE, !.phase = p]
      BY <1>2, <2>1
    <2>2. /\ conns'[c].phase = p /\ conns'[c].gen = conns[c].gen /\ conns'[c].out = conns[c].out
          /\ conns'[c].caps = conns[c].caps /\ conns'[c].app = conns[c].app
          /\ conns'[c].in = conns[c].in
          /\ conns'[c].checked = conns[c].checked
      <3> HIDE DEF p
      <3> QED
        BY <1>0, <2>0 DEF ConnRecords
    <2>3. conns[c].phase \in {"added", "dropped"}
      BY <1>6 DEF HsReader
    <2> QED
      BY <1>0, <1>1, <1>2, <1>20, <2>1, <2>2, <2>3, EchoFewer DEF ThreadMove
  <1>7. CASE HsReaderFails(c)
    <2>1. Becomes(c, [conns[c] EXCEPT !.phase = "ended"])
      BY <1>0, <1>7, LeaveEffect
    <2>0. conns'[c] = [conns[c] EXCEPT !.phase = "ended"]
      BY <1>2, <2>1
    <2>2. /\ conns'[c].phase = "ended" /\ conns'[c].gen = conns[c].gen /\ conns'[c].out = conns[c].out
          /\ conns'[c].caps = conns[c].caps /\ conns'[c].app = conns[c].app
          /\ conns'[c].reader = conns[c].reader /\ conns'[c].in = conns[c].in
          /\ conns'[c].checked = conns[c].checked
      BY <1>0, <2>0 DEF ConnRecords
    <2>3. conns[c].phase \in {"added", "dropped"} /\ ~conns[c].reader
      BY <1>7 DEF HsReaderFails
    <2> QED
      BY <1>0, <1>1, <1>2, <1>20, <2>1, <2>2, <2>3, EchoFewer DEF ThreadMove
  <1>8. CASE ReaderExit(c)
    <2>1. Becomes(c, [conns[c] EXCEPT !.reader = FALSE, !.phase = "ended", !.in = <<>>])
      BY <1>0, <1>8, LeaveEffect
    <2>0. conns'[c] = [conns[c] EXCEPT !.reader = FALSE, !.phase = "ended", !.in = <<>>]
      BY <1>2, <2>1
    <2>2. /\ conns'[c].phase = "ended" /\ conns'[c].gen = conns[c].gen /\ conns'[c].out = conns[c].out
          /\ conns'[c].caps = conns[c].caps /\ conns'[c].app = conns[c].app
          /\ conns'[c].reader = FALSE /\ conns'[c].in = <<>>
          /\ conns'[c].checked = conns[c].checked
      BY <1>0, <2>0 DEF ConnRecords
    <2>3. conns[c].reader
      BY <1>8 DEF ReaderExit
    <2> QED
      BY <1>0, <1>1, <1>2, <1>20, <2>1, <2>2, <2>3, EchoFewer DEF ThreadMove
  <1>9. CASE ReaderTake(c)
    <2> DEFINE x == Tail(conns[c].in)
               y == IF Live(c) THEN Head(conns[c].in) ELSE NoRecord
    <2>1. Becomes(c, [conns[c] EXCEPT !.in = x, !.checked = y])
      BY <1>0, <1>9, ReaderTakeEffect
    <2>0. conns'[c] = [conns[c] EXCEPT !.in = x, !.checked = y]
      BY <1>2, <2>1
    <2>2. conns[c].in # <<>>
      BY <1>9 DEF ReaderTake
    <2>3. /\ conns'[c].phase = conns[c].phase /\ conns'[c].gen = conns[c].gen
          /\ conns'[c].out = conns[c].out
          /\ conns'[c].caps = conns[c].caps /\ conns'[c].app = conns[c].app
          /\ conns'[c].reader = conns[c].reader /\ conns'[c].in = x
          /\ conns'[c].checked = y
      <3> HIDE DEF x, y
      <3> QED
        BY <1>0, <2>0 DEF ConnRecords
    <2>4. y = Head(conns[c].in) \/ y = NoRecord
      OBVIOUS
    <2>5. \A n : Echoes(c, n)' => Echoes(c, n)
      <3> HIDE DEF y
      <3> QED
        BY <1>0, <2>2, <2>3, <2>4, EchoFewer
    <2> HIDE DEF x, y
    <2> QED
      BY <1>0, <1>1, <1>2, <1>20, <2>1, <2>3, <2>5 DEF ThreadMove
  <1>10. CASE ReaderPacing(c) \/ ReaderReleased(c)
    <2>1. Becomes(c, [conns[c] EXCEPT !.checked = NoRecord])
      BY <1>0, <1>10, AppliedEffect
    <2>0. conns'[c] = [conns[c] EXCEPT !.checked = NoRecord]
      BY <1>2, <2>1
    <2>2. /\ conns'[c].phase = conns[c].phase /\ conns'[c].gen = conns[c].gen
          /\ conns'[c].out = conns[c].out
          /\ conns'[c].caps = conns[c].caps /\ conns'[c].app = conns[c].app
          /\ conns'[c].reader = conns[c].reader /\ conns'[c].in = conns[c].in
          /\ conns'[c].checked = NoRecord
      BY <1>0, <2>0 DEF ConnRecords
    <2> QED
      BY <1>0, <1>1, <1>2, <1>20, <2>1, <2>2, EchoFewer DEF ThreadMove
  <1> QED
    BY <1>3, <1>4, <1>5, <1>6, <1>7, <1>8, <1>9, <1>10 DEF AcceptStep, ReaderStep

\* The app's connection after a step that leaves the app's choice of it alone.
LEMMA SameConn ==
  ASSUME TypeOK, app'.conn = app.conn
  PROVE  /\ app.conn # NoConn => /\ app.conn \in Conns
                                 /\ Out = conns[app.conn].out /\ Out' = conns'[app.conn].out
                                 /\ Caps = conns[app.conn].caps /\ Caps' = conns'[app.conn].caps
                                 /\ Gen = conns[app.conn].gen /\ Gen' = conns'[app.conn].gen
         /\ app.conn = NoConn => Out' = Out /\ Caps' = Caps /\ Gen' = Gen /\ Out = <<>>
  <1>1. app.conn # NoConn => app.conn \in Conns
    BY FlowTypes DEF FlowTyped
  <1> QED
    BY <1>1 DEF Out, Caps, Gen

\* A server thread moves no frame.
LEMMA ThreadRests ==
  ASSUME TypeOK, AcceptInv, NEW c \in Conns, AcceptStep(c) \/ ReaderStep(c)
  PROVE  Rests
  <1>0. /\ UNCHANGED <<app, app_gpu, timeline, dirty_seq>>
        /\ \A b \in Conns : b # c => conns'[b] = conns[b]
        /\ ThreadMove(c)
    BY ThreadMoves
  <1>1. Answered' \subseteq Answered
    <2>1. \A b \in Conns : \A n : Echoes(b, n)' => Echoes(b, n)
      BY <1>0 DEF Echoes, ThreadMove
    <2> QED
      BY <2>1, AnswersFewer
  <1>2. \A b \in Conns : conns'[b].out = conns[b].out /\ conns'[b].caps = conns[b].caps
    BY <1>0 DEF ThreadMove
  <1>3. Out' = Out /\ Caps' = Caps
    BY <1>0, <1>2, SameConn
  <1>4. Gen' = Gen \/ (Out = <<>> /\ ~Cur)
    <2>1. CASE app.conn # NoConn /\ app.conn = c /\ conns'[c].gen # conns[c].gen
      <3>1. HsTurn(c)
        BY <1>0, <2>1 DEF ThreadMove
      <3>2. conns[c].out = <<>> /\ conns[c].gen = 0
        BY <3>1 DEF HsTurn, AcceptInv
      <3>3. ~Cur
        BY <2>1, <3>2, TypeParts DEF LinkTypes, LinkGen, Cur
      <3> QED
        BY <1>0, <2>1, <3>2, <3>3, SameConn
    <2>2. CASE ~(app.conn # NoConn /\ app.conn = c /\ conns'[c].gen # conns[c].gen)
      BY <1>0, <2>2, SameConn
    <2> QED
      BY <2>1, <2>2
  <1> QED
    BY <1>0, <1>1, <1>3, <1>4 DEF Rests, SameFrame, SameEvents

\* RELEASEDs when no connection's replies change.
LEMMA SameAnswers ==
  ASSUME \A c \in Conns : conns'[c].in = conns[c].in /\ conns'[c].checked = conns[c].checked
  PROVE  Answered' \subseteq Answered
  <1>1. \A c \in Conns : \A n : Echoes(c, n)' => Echoes(c, n)
    BY DEF Echoes, Names
  <1> QED
    BY <1>1, AnswersFewer

\* RELEASEDs when the app writes one reply.
LEMMA OneMoreAnswer ==
  ASSUME ConnTypes, NEW c \in Conns, NEW m \in Replies,
         \A b \in Conns : b # c => conns'[b] = conns[b],
         conns'[c].in = Append(conns[c].in, m), conns'[c].checked = conns[c].checked
  PROVE  Answered' \subseteq Answered \cup (IF m.type = "released" THEN {m.seq} ELSE {})
  <1>0. conns[c].in \in Seq(Replies)
    BY DEF ConnTypes, ConnRecords
  <1> DEFINE q == conns[c].in
             p == Append(q, m)
  <1>1. \A i \in DOMAIN p : p[i] = m \/ \E j \in DOMAIN q : p[i] = q[j]
    BY <1>0
  <1> HIDE DEF p
  <1>2. ASSUME NEW n \in Seqs, NEW b \in Conns, Echoes(b, n)'
        PROVE  n \in Answered \cup (IF m.type = "released" THEN {m.seq} ELSE {})
    <2>1. CASE b # c
      <3>1. Echoes(b, n)
        BY <1>2, <2>1 DEF Echoes
      <3> QED
        BY <3>1 DEF Answered
    <2>2. CASE b = c
      <3>1. CASE Names(conns'[c].checked, n)
        <4>1. Echoes(c, n)
          BY <3>1 DEF Echoes
        <4> QED
          BY <4>1 DEF Answered
      <3>2. ASSUME NEW i \in DOMAIN p, Names(p[i], n)
            PROVE  n \in Answered \cup (IF m.type = "released" THEN {m.seq} ELSE {})
        <4>1. CASE p[i] = m
          BY <3>2, <4>1 DEF Names
        <4>2. CASE \E j \in DOMAIN q : p[i] = q[j]
          <5>1. Echoes(c, n)
            BY <3>2, <4>2 DEF Echoes
          <5> QED
            BY <5>1 DEF Answered
        <4> QED
          BY <1>1, <3>2, <4>1, <4>2
      <3>3. conns'[c].in = p
        BY DEF p
      <3> QED
        BY <1>2, <2>2, <3>1, <3>2, <3>3 DEF Echoes
    <2> QED
      BY <2>1, <2>2
  <1> QED
    BY <1>2 DEF Answered

\* The app reads a record.
LEMMA AppReads ==
  ASSUME TypeOK, AppDirty \/ AppSurface \/ AppSurfaceDrop
  PROVE  (AppDirty => Reads) /\ (AppSurface \/ AppSurfaceDrop => Skips)
  <1>0. /\ app.state = "live" /\ app.conn \in Conns /\ app.conn # NoConn /\ conns[app.conn].out # <<>>
        /\ app \in Links /\ conns[app.conn] \in ConnRecords /\ ConnTypes
    BY ReadEffect, TypeParts, LinkFacts DEF LinkTypes, ConnTypes
  <1>1. /\ Touches(app.conn) /\ conns'[app.conn].out = Tail(conns[app.conn].out)
    BY ReadTouches
  <1>2. UNCHANGED <<timeline, dirty_seq>>
    BY DEF AppDirty, AppSurface, AppSurfaceDrop, server
  <1>3. ASSUME AppDirty PROVE Reads
    <2> DEFINE gone == IF app.surf # AppRecord.surf THEN app.retired \cap {app.surf} ELSE {}
               x == Tail(conns[app.conn].out)
               y == IF app.held THEN Append(conns[app.conn].in, ReleasedRecord) ELSE conns[app.conn].in
    <2>1. /\ app' = [app EXCEPT !.surf = AppRecord.surf, !.seq = AppRecord.seq,
                              !.pending = TRUE, !.held = FALSE,
                              !.known = @ \ gone, !.retired = @ \ gone]
          /\ app_gpu' = SignalHeld /\ AppHas("dirty")
      BY <1>3 DEF AppDirty
    <2> HIDE DEF gone
    <2>2. /\ app'.conn = app.conn /\ app'.surf = AppRecord.surf /\ app'.seq = AppRecord.seq
          /\ app'.pending = TRUE /\ app'.held = FALSE
      BY <1>0, <2>1 DEF Links
    <2>3. Becomes(app.conn, [conns[app.conn] EXCEPT !.out = x, !.in = y])
      BY <1>3, ReadEffect
    <2>4. conns'[app.conn] = [conns[app.conn] EXCEPT !.out = x, !.in = y]
      BY <1>0, <2>3, OneConn
    <2>5. conns'[app.conn].in = y /\ conns'[app.conn].checked = conns[app.conn].checked
      <3> HIDE DEF x, y
      <3> QED
        BY <1>0, <2>4 DEF ConnRecords
    <2>6. Answered' \subseteq Answered \cup Returned
      <3>1. CASE app.held
        <4>1. ReleasedRecord \in Replies
          BY <1>0, <3>1, HeldFacts
        <4>2. ReleasedRecord.type = "released" /\ ReleasedRecord.seq = app.seq
          BY DEF ReleasedRecord
        <4> HIDE DEF x
        <4>3. conns'[app.conn].in = Append(conns[app.conn].in, ReleasedRecord)
          BY <2>5, <3>1
        <4>4. Answered' \subseteq Answered \cup (IF ReleasedRecord.type = "released"
                                                THEN {ReleasedRecord.seq} ELSE {})
          BY <1>0, <1>1, <2>5, <4>1, <4>3, OneMoreAnswer DEF Touches
        <4> QED
          BY <3>1, <4>2, <4>4 DEF Returned
      <3>2. CASE ~app.held
        <4>1. \A c \in Conns : conns'[c].in = conns[c].in /\ conns'[c].checked = conns[c].checked
          BY <1>1, <2>5, <3>2 DEF Touches
        <4> QED
          BY <4>1, SameAnswers
      <3> QED
        BY <3>1, <3>2
    <2>7. /\ Out = conns[app.conn].out /\ Out' = conns'[app.conn].out /\ Caps' = Caps /\ Gen' = Gen
      BY <1>0, <1>1, <2>2, SameConn DEF Touches
    <2>8. Head(Out) = AppRecord /\ AppRecord.type = "dirty" /\ ~app.pending
      BY <2>1, <2>7 DEF AppRecord, AppHas
    <2> HIDE DEF x, y
    <2> QED
      BY <1>0, <1>1, <1>2, <2>1, <2>2, <2>6, <2>7, <2>8 DEF Reads
  <1>4. ASSUME AppSurface \/ AppSurfaceDrop PROVE Skips
    <2>1. SameFrame /\ app'.conn = app.conn /\ app'.state = app.state
      BY <1>0, <1>4 DEF AppSurface, AppSurfaceDrop, Links, SameFrame
    <2>2. AppRecord.type \in {"surface", "drop"} /\ app_gpu' = app_gpu
      BY <1>4 DEF AppSurface, AppSurfaceDrop, AppHas, AppRecord
    <2> DEFINE x == Tail(conns[app.conn].out)
    <2>3. Becomes(app.conn, [conns[app.conn] EXCEPT !.out = x])
      BY <1>4, ReadEffect
    <2>4. conns'[app.conn] = [conns[app.conn] EXCEPT !.out = x]
      BY <1>0, <2>3, OneConn
    <2>5. conns'[app.conn].in = conns[app.conn].in /\ conns'[app.conn].checked = conns[app.conn].checked
      <3> HIDE DEF x
      <3> QED
        BY <1>0, <2>4 DEF ConnRecords
    <2>6. Answered' \subseteq Answered
      <3>1. \A c \in Conns : conns'[c].in = conns[c].in /\ conns'[c].checked = conns[c].checked
        BY <1>1, <2>5 DEF Touches
      <3> QED
        BY <3>1, SameAnswers
    <2>7. /\ Out = conns[app.conn].out /\ Out' = conns'[app.conn].out /\ Caps' = Caps /\ Gen' = Gen
      BY <1>0, <1>1, <2>1, SameConn DEF Touches
    <2>8. Head(Out).type # "dirty"
      BY <2>2, <2>7 DEF AppRecord
    <2> HIDE DEF x
    <2> QED
      BY <1>0, <1>1, <1>2, <2>1, <2>2, <2>6, <2>7, <2>8 DEF Skips, SameEvents
  <1> QED
    BY <1>3, <1>4

\* The app presents a frame,
LEMMA AppPresents ==
  ASSUME TypeOK, AppPresent
  PROVE  Presents
  <1>0. /\ app.state = "live" /\ app.conn \in Conns /\ app.conn # NoConn /\ app \in Links
    BY LinkFacts, TypeParts DEF LinkTypes, AppPresent
  <1>1. conns' = conns /\ UNCHANGED <<timeline, dirty_seq>> /\ Cur
    BY DEF AppPresent, server, Cur
  <1>2. /\ app'.conn = app.conn /\ app'.seq = app.seq /\ app'.surf = app.surf /\ app'.pending = FALSE
        /\ app'.state = "live"
        /\ conns[app.conn].caps = "v2" => app'.held = TRUE
        /\ conns[app.conn].caps # "v2" => app'.held = app.held /\ app_gpu' = app_gpu
    BY <1>0 DEF AppPresent, Links
  <1>3. conns[app.conn].caps = "v2" => app_gpu' = Append(app_gpu, [op |-> "sample", surf |-> app.surf,
                                                   gen |-> conns[app.conn].gen, seq |-> app.seq])
    BY DEF AppPresent
  <1>4. Out' = Out /\ Caps' = Caps /\ Gen' = Gen /\ Caps = conns[app.conn].caps /\ Gen = conns[app.conn].gen
    BY <1>0, <1>1, <1>2, SameConn
  <1>5. Answered' \subseteq Answered
    BY <1>1, SameAnswers
  <1> QED
    BY <1>0, <1>1, <1>2, <1>3, <1>4, <1>5 DEF Presents, SameEvents

\* begins to close,
LEMMA AppCloses ==
  ASSUME TypeOK, AppBeginClose
  PROVE  Closes
  <1>0. /\ app.state = "live" /\ app.conn \in Conns /\ app.conn # NoConn /\ app \in Links
        /\ ConnTypes /\ conns[app.conn] \in ConnRecords
    BY LinkFacts, TypeParts DEF LinkTypes, AppBeginClose
  <1>1. /\ Touches(app.conn) /\ conns'[app.conn].out = conns[app.conn].out
    BY WriteTouches
  <1>2. UNCHANGED <<timeline, dirty_seq>> /\ app_gpu' = SignalHeld
    BY DEF AppBeginClose, server
  <1>3. /\ app'.conn = app.conn /\ app'.seq = app.seq /\ app'.surf = app.surf
        /\ app'.pending = app.pending /\ app'.held = FALSE
    BY <1>0 DEF AppBeginClose, Links
  <1>4. Out' = Out /\ Caps' = Caps /\ Gen' = Gen
    BY <1>0, <1>1, <1>3, SameConn DEF Touches
  <1>5. Answered' \subseteq Answered \cup Returned
    <2>1. CASE conns' = conns
      BY <2>1, SameAnswers
    <2>2. CASE app.held /\ Becomes(app.conn, [conns[app.conn] EXCEPT !.in = Append(@, ReleasedRecord)])
      <3> DEFINE y == Append(conns[app.conn].in, ReleasedRecord)
      <3>1. conns'[app.conn] = [conns[app.conn] EXCEPT !.in = y]
        BY <1>0, <2>2, OneConn
      <3>2. conns'[app.conn].in = y /\ conns'[app.conn].checked = conns[app.conn].checked
        <4> HIDE DEF y
        <4> QED
          BY <1>0, <3>1 DEF ConnRecords
      <3>3. ReleasedRecord \in Replies
        BY <1>0, <2>2, HeldFacts
      <3>4. ReleasedRecord.type = "released" /\ ReleasedRecord.seq = app.seq
        BY DEF ReleasedRecord
      <3>5. Answered' \subseteq Answered \cup (IF ReleasedRecord.type = "released"
                                              THEN {ReleasedRecord.seq} ELSE {})
        BY <1>0, <1>1, <3>2, <3>3, OneMoreAnswer DEF Touches
      <3> QED
        BY <2>2, <3>4, <3>5 DEF Returned
    <2> QED
      BY <2>1, <2>2, WriteEffect
  <1> QED
    BY <1>2, <1>3, <1>4, <1>5 DEF Closes

\* connects, or is done with its connection;
LEMMA AppQuits ==
  ASSUME TypeOK, LinkInv,
         \/ \E c \in Conns, caps \in {"v2", "legacy"} : AppConnect(c, caps)
         \/ AppAbandon \/ AppFinishClose \/ AppCrash
  PROVE  Quits
  <1>0. UNCHANGED <<timeline, dirty_seq>>
    BY DEF AppConnect, AppAbandon, AppFinishClose, AppCrash, server
  <1>1. ASSUME NEW c \in Conns, NEW caps \in {"v2", "legacy"}, AppConnect(c, caps) PROVE Quits
    <2>1. app' = [NoApp EXCEPT !.conn = c, !.state = "connecting"] /\ app_gpu' = app_gpu
      BY <1>1 DEF AppConnect
    <2>2. app'.conn = c /\ app'.pending = FALSE /\ app'.held = FALSE
      BY <2>1, NoAppFacts DEF Links
    <2>3. conns[c].phase = "unused" /\ conns'[c].out = conns[c].out
          /\ \A b \in Conns : b # c => conns'[b] = conns[b]
      BY <1>1, ConnectFacts
    <2>4. Out' = <<>>
      BY <2>2, <2>3, Basics DEF Out, LinkInv
    <2>5. conns'[c] = [conns[c] EXCEPT !.phase = "backlog", !.caps = caps, !.app = "open"]
      BY <1>1, ConnectEffect, OneConn, TypeParts
    <2>6. conns'[c].in = conns[c].in /\ conns'[c].checked = conns[c].checked
      BY <2>5, TypeParts DEF ConnTypes, ConnRecords
    <2>7. \A b \in Conns : conns'[b].in = conns[b].in /\ conns'[b].checked = conns[b].checked
      BY <2>3, <2>6
    <2>8. Answered' \subseteq Answered
      BY <2>7, SameAnswers
    <2>9. app.state # "live"
      BY <1>1, TypeParts DEF AppConnect, LinkTypes
    <2> QED
      BY <1>0, <2>1, <2>2, <2>4, <2>8, <2>9 DEF Quits, SameEvents
  <1>2. CASE AppAbandon \/ AppFinishClose \/ AppCrash
    <2>1. app' = NoApp /\ (app_gpu' = app_gpu \/ app_gpu' = <<>>)
      BY <1>2 DEF AppAbandon, AppFinishClose, AppCrash
    <2>2. app'.conn = NoConn /\ app'.pending = FALSE /\ app'.held = FALSE
      BY <2>1, NoAppFacts DEF Links
    <2>3. Out' = <<>>
      BY <2>2 DEF Out
    <2>4. \A b \in Conns : conns'[b].in = conns[b].in /\ conns'[b].checked = conns[b].checked
      <3>1. CASE AppAbandon
        <4>0. app.conn \in Conns /\ conns[app.conn] \in ConnRecords /\ ConnTypes
          BY <3>1, LinkFacts, TypeParts DEF AppAbandon
        <4>1. /\ conns'[app.conn] = [conns[app.conn] EXCEPT !.app = "orphan"]
              /\ \A b \in Conns : b # app.conn => conns'[b] = conns[b]
          BY <3>1, <4>0, AbandonEffect, OneConn
        <4>2. conns'[app.conn].in = conns[app.conn].in /\ conns'[app.conn].checked = conns[app.conn].checked
          BY <4>0, <4>1 DEF ConnRecords
        <4> QED
          BY <4>1, <4>2
      <3>2. CASE AppFinishClose \/ AppCrash
        <4>1. PICK ends : conns' = AppEndsClosed(ends)
          BY <3>2 DEF AppFinishClose, AppCrash
        <4> QED
          BY <4>1, ClosedFacts
      <3> QED
        BY <1>2, <3>1, <3>2
    <2>5. Answered' \subseteq Answered
      BY <2>4, SameAnswers
    <2>6. app.state = "live" => app_gpu' = <<>>
      BY <1>2 DEF AppAbandon, AppFinishClose, AppCrash
    <2> QED
      BY <1>0, <2>1, <2>2, <2>3, <2>5, <2>6 DEF Quits, SameEvents
  <1> QED
    BY <1>1, <1>2

\* its other steps move no frame.
LEMMA AppRests ==
  ASSUME TypeOK, LinkInv, AppAdopt \/ AppPacing \/ \E c \in Conns : AppOrphanClose(c)
  PROVE  Rests
  <1>0. UNCHANGED <<timeline, dirty_seq, app_gpu>> /\ app \in Links
    BY TypeParts DEF AppAdopt, AppPacing, AppOrphanClose, server, appside, LinkTypes
  <1>1. CASE AppAdopt
    <2>1. SameFrame /\ app'.conn = app.conn /\ conns' = conns /\ app.state = "connecting"
      BY <1>0, <1>1 DEF AppAdopt, Links, SameFrame
    <2>2. ~app.held
      BY <2>1, TypeParts DEF LinkTypes
    <2>3. Answered' \subseteq Answered
      BY <2>1, SameAnswers
    <2>4. Out' = Out /\ Caps' = Caps /\ Gen' = Gen
      BY <2>1, SameConn
    <2> QED
      BY <1>0, <2>1, <2>2, <2>3, <2>4 DEF Rests, SameEvents
  <1>2. CASE AppPacing
    <2>0. /\ app.conn \in Conns /\ ConnTypes /\ conns[app.conn] \in ConnRecords /\ app' = app
      BY <1>2, WriteEffect, TypeParts DEF ConnTypes, AppPacing, appside
    <2>1. /\ Touches(app.conn) /\ conns'[app.conn].out = conns[app.conn].out
      BY <1>2, WriteTouches
    <2> DEFINE m == [type |-> "pacing"]
               y == Append(conns[app.conn].in, m)
    <2>2. Becomes(app.conn, [conns[app.conn] EXCEPT !.in = y])
      BY <1>2, WriteEffect
    <2>3. conns'[app.conn] = [conns[app.conn] EXCEPT !.in = y]
      BY <2>0, <2>2, OneConn
    <2>4. conns'[app.conn].in = y /\ conns'[app.conn].checked = conns[app.conn].checked
      <3> HIDE DEF y
      <3> QED
        BY <2>0, <2>3 DEF ConnRecords
    <2>5. m \in Replies /\ m.type # "released"
      BY DEF Replies
    <2>6. Answered' \subseteq Answered
      <3>1. \A b \in Conns : b # app.conn => conns'[b] = conns[b]
        BY <2>1 DEF Touches
      <3> HIDE DEF m
      <3> QED
        BY <2>0, <2>4, <2>5, <3>1, OneMoreAnswer
    <2>7. Out' = Out /\ Caps' = Caps /\ Gen' = Gen
      BY <2>0, <2>1, SameConn DEF Touches
    <2> QED
      BY <1>0, <2>0, <2>6, <2>7 DEF Rests, SameFrame, SameEvents
  <1>3. ASSUME NEW c \in Conns, AppOrphanClose(c) PROVE Rests
    <2>1. conns' = AppEndsClosed({c}) /\ conns[c].app = "orphan" /\ app' = app
      BY <1>3 DEF AppOrphanClose, appside
    <2>2. app.conn # NoConn => app.conn # c
      BY <2>1 DEF LinkInv
    <2>3. \A b \in Conns : conns'[b].in = conns[b].in /\ conns'[b].checked = conns[b].checked
      BY <2>1, ClosedFacts
    <2>4. \A b \in Conns : b # c => conns'[b] = conns[b]
      BY <2>1, ClosedFacts
    <2>5. Answered' \subseteq Answered
      BY <2>3, SameAnswers
    <2>6. Out' = Out /\ Caps' = Caps /\ Gen' = Gen
      BY <2>1, <2>2, <2>4, SameConn
    <2> QED
      BY <1>0, <2>1, <2>5, <2>6 DEF Rests, SameFrame, SameEvents
  <1> QED
    BY <1>1, <1>2, <1>3

\* The frame among the records of a direct frame.
LEMMA DirectOnce ==
  ASSUME NEW d, NEW ok, DirectRecords(d, ok) \in Seq(Records)
  PROVE  /\ \A i \in DOMAIN DirectRecords(d, ok) : DirectRecords(d, ok)[i].type = "dirty" =>
               DirectRecords(d, ok)[i] = DirtyRecord(d) /\ ok # {}
         /\ \A i, j \in DOMAIN DirectRecords(d, ok) :
               DirectRecords(d, ok)[i].type = "dirty" /\ DirectRecords(d, ok)[j].type = "dirty" => i = j
  <1> DEFINE a == [type |-> "surface", surf |-> d]
             b == DirtyRecord(d)
             w == DirectRecords(d, ok)
             x == IF SurfaceOwed(d) THEN <<a>> ELSE <<>>
             y == IF ok = {} THEN <<>> ELSE <<b>>
  <1>1. a.type = "surface" /\ b.type = "dirty"
    BY DEF DirtyRecord
  <1>2. w = x \o y
    BY DEF DirectRecords
  <1> HIDE DEF a, b, w
  <1>3. \/ x = <<a>> /\ y = <<b>> /\ ok # {}
        \/ x = <<>> /\ y = <<b>> /\ ok # {}
        \/ x = <<a>> /\ y = <<>>
        \/ x = <<>> /\ y = <<>>
    OBVIOUS
  <1> HIDE DEF x, y
  <1> DEFINE t == <<a>> \o <<b>>
  <1>4. /\ DOMAIN t = {1, 2} /\ t[1] = a /\ t[2] = b /\ <<a>> \o <<>> = <<a>>
        /\ <<>> \o <<b>> = <<b>> /\ <<>> \o <<>> = <<>>
    <2>1. <<a>> \in Seq({a, b}) /\ <<b>> \in Seq({a, b}) /\ <<>> \in Seq({a, b})
      BY Short
    <2>2. \A q \in Seq({a, b}) : q \o <<>> = q /\ <<>> \o q = q
      OBVIOUS
    <2>3. /\ t \in Seq({a, b}) /\ Len(t) = 2 /\ t[1] = a /\ t[2] = b
      BY <2>1
    <2>4. DOMAIN t = 1..2
      BY <2>3
    <2>5. 1..2 = {1, 2}
      OBVIOUS
    <2> QED
      BY <2>1, <2>2, <2>3, <2>4, <2>5
  <1> HIDE DEF t
  <1>5. (w = t /\ ok # {}) \/ (w = <<b>> /\ ok # {}) \/ w = <<a>> \/ w = <<>>
    BY <1>2, <1>3, <1>4 DEF t
  <1>6. /\ DOMAIN <<b>> = {1} /\ <<b>>[1] = b /\ DOMAIN <<a>> = {1} /\ <<a>>[1] = a
        /\ DOMAIN <<>> = {}
    OBVIOUS
  <1>7. /\ \A i \in DOMAIN w : w[i].type = "dirty" => w[i] = b /\ ok # {}
        /\ \A i, j \in DOMAIN w : w[i].type = "dirty" /\ w[j].type = "dirty" => i = j
    BY <1>1, <1>4, <1>5, <1>6
  <1> QED
    BY <1>7 DEF w, b

\* A broadcast sends its records to the app, or none.
LEMMA BroadcastSends ==
  ASSUME TypeOK, TableInv, NEW ok, NEW lost, NEW recs, Broadcasts(ok, lost, recs), NEW surf, NEW to,
         \A i \in DOMAIN recs : recs[i].type = "dirty" =>
            recs[i].seq = dirty_seq + 1 /\ dirty_seq' = dirty_seq + 1 /\ recs[i].surf = surf,
         \A i \in DOMAIN recs : recs[i].type = "dirty" =>
            \A s \in ok : s \in V2Mask => to # {},
         \A i, j \in DOMAIN recs : recs[i].type = "dirty" /\ recs[j].type = "dirty" => i = j,
         dirty_seq' = dirty_seq \/ dirty_seq' = dirty_seq + 1
  PROVE  \E sent : Sends(sent, surf, to)
  <1>0. /\ recs \in Seq(Records) /\ ok \subseteq Active
        /\ \A c \in Conns :
              /\ Keeps(c)
              /\ conns'[c].out = IF Gets(c, ok) THEN conns[c].out \o recs ELSE conns[c].out
        /\ app' = app /\ app_gpu' = app_gpu /\ timeline' = timeline
    BY SentFacts DEF Broadcasts, appside
  <1>1. \A c \in Conns : conns'[c].in = conns[c].in /\ conns'[c].checked = conns[c].checked
    BY <1>0 DEF Keeps
  <1>2. Answered' \subseteq Answered
    BY <1>1, SameAnswers
  <1>3. Caps' = Caps /\ Gen' = Gen
    BY <1>0, SameConn DEF Keeps
  <1>4. CASE app.conn # NoConn /\ Gets(app.conn, ok)
    <2>1. PICK s \in ok : clients[s] = app.conn
      BY <1>4 DEF Gets
    <2>2. /\ conns[app.conn].phase \in {"added", "attached"} /\ conns[app.conn].gen = generation
          /\ s \in Active
      BY <1>0, <2>1 DEF TableInv, TableSound
    <2>3. Out' = Out \o recs /\ Gen = generation /\ Caps = conns[app.conn].caps
      BY <1>0, <1>4, <2>2, SameConn
    <2>4. Caps = "v2" => s \in V2Mask
      BY <2>1, <2>2, <2>3 DEF V2Mask
    <2>5. Sends(recs, surf, to)
      BY <1>0, <1>2, <1>3, <1>4, <2>1, <2>2, <2>3, <2>4 DEF Sends
    <2> QED
      BY <2>5
  <1>5. CASE ~(app.conn # NoConn /\ Gets(app.conn, ok))
    <2>1. Out' = Out
      BY <1>0, <1>5, SameConn
    <2>2. Out \in Seq(Records)
      BY FlowTypes DEF FlowTyped
    <2>3. Out \o <<>> = Out
      BY <2>2
    <2>4. <<>> \in Seq(Records) /\ DOMAIN <<>> = {}
      OBVIOUS
    <2>5. Sends(<<>>, surf, to)
      BY <1>0, <1>2, <1>3, <2>1, <2>3, <2>4 DEF Sends
    <2> QED
      BY <2>5
  <1> QED
    BY <1>4, <1>5

\* The compositor's broadcasts.
LEMMA CompSends ==
  ASSUME TypeOK, TableInv, NEW ok \in SUBSET Active, NEW lost \in SUBSET Active
  PROVE  /\ CompPublish(ok, lost) => \E recs : Sends(recs, comp.target, ok \cap V2Mask)
         /\ CompPublishDirect(ok, lost) => \E recs : Sends(recs, comp.direct, ok)
         /\ (\E d \in Dyn : CompUnregister(d, ok, lost)) \/ CompCursor(lost) =>
               \E recs : Sends(recs, 0, {}) /\ UNCHANGED dirty_seq
  <1>1. ASSUME CompPublish(ok, lost) PROVE \E recs : Sends(recs, comp.target, ok \cap V2Mask)
    <2> DEFINE b == DirtyRecord(comp.target)
    <2>1. Broadcasts(ok, lost, <<b>>)
      BY <1>1, BroadcastEffect
    <2>2. b.seq = dirty_seq + 1 /\ b.surf = comp.target
      BY DEF DirtyRecord
    <2>3. dirty_seq' = dirty_seq + 1
      BY <1>1 DEF CompPublish
    <2> HIDE DEF b
    <2>4. DOMAIN <<b>> = {1} /\ <<b>>[1] = b
      OBVIOUS
    <2> QED
      BY <2>1, <2>2, <2>3, <2>4, BroadcastSends
  <1>2. ASSUME CompPublishDirect(ok, lost) PROVE \E recs : Sends(recs, comp.direct, ok)
    <2> DEFINE w == DirectRecords(comp.direct, ok)
    <2>1. Broadcasts(V2Mask \ lost, lost, w)
      BY <1>2, BroadcastEffect
    <2>2. DirtyRecord(comp.direct).seq = dirty_seq + 1 /\ DirtyRecord(comp.direct).surf = comp.direct
      BY DEF DirtyRecord
    <2>3. dirty_seq' = dirty_seq + 1
      BY <1>2 DEF CompPublishDirect
    <2>4. w \in Seq(Records)
      BY <2>1 DEF Broadcasts
    <2>5. /\ \A i \in DOMAIN w : w[i].type = "dirty" => w[i] = DirtyRecord(comp.direct) /\ ok # {}
          /\ \A i, j \in DOMAIN w : w[i].type = "dirty" /\ w[j].type = "dirty" => i = j
      BY <2>4, DirectOnce
    <2> HIDE DEF w
    <2>6. \A i \in DOMAIN w : w[i].type = "dirty" =>
             w[i].seq = dirty_seq + 1 /\ dirty_seq' = dirty_seq + 1 /\ w[i].surf = comp.direct
      BY <2>2, <2>3, <2>5
    <2> QED
      BY <2>1, <2>3, <2>5, <2>6, BroadcastSends
  <1>3. ASSUME NEW d \in Dyn, CompUnregister(d, ok, lost)
        PROVE  \E recs : Sends(recs, 0, {}) /\ UNCHANGED dirty_seq
    <2> DEFINE b == [type |-> "drop", surf |-> d]
    <2>1. Broadcasts(ok, lost, <<b>>)
      BY <1>3, BroadcastEffect
    <2>2. b.type # "dirty"
      OBVIOUS
    <2>3. dirty_seq' = dirty_seq
      BY <1>3 DEF CompUnregister
    <2> HIDE DEF b
    <2>4. DOMAIN <<b>> = {1} /\ <<b>>[1] = b
      OBVIOUS
    <2>5. \E recs : Sends(recs, 0, {})
      BY <2>1, <2>2, <2>3, <2>4, BroadcastSends
    <2> QED
      BY <2>3, <2>5
  <1>4. ASSUME CompCursor(lost)
        PROVE  \E recs : Sends(recs, 0, {}) /\ UNCHANGED dirty_seq
    <2>1. Broadcasts({}, lost, <<>>)
      BY <1>4, BroadcastEffect
    <2>2. dirty_seq' = dirty_seq
      BY <1>4 DEF CompCursor
    <2>3. DOMAIN <<>> = {}
      OBVIOUS
    <2>4. \E recs : Sends(recs, 0, {})
      BY <2>1, <2>2, <2>3, BroadcastSends
    <2> QED
      BY <2>2, <2>4
  <1> QED
    BY <1>1, <1>2, <1>3, <1>4

\* The rest of a repaint, a resize and the compositor's GPU move no frame.
LEMMA CompRests ==
  ASSUME TypeOK,
         \/ \E i \in Outputs : CompAcquire(i)
         \/ CompCancel \/ CompDraw
         \/ \E d \in Dyn : CompDirectCheck(d)
         \/ CompResize \/ CompGpuWrite
  PROVE  Rests
  <1>1. app' = app /\ app_gpu' = app_gpu /\ UNCHANGED <<timeline, dirty_seq>>
    BY DEF CompAcquire, CompCancel, CompDraw, CompDirectCheck, CompResize, CompGpuWrite,
           appside, server
  <1>2. \A c \in Conns : Keeps(c) /\ conns'[c].out = conns[c].out
    <2>1. CASE CompResize
      BY <2>1, CloseFacts DEF CompResize
    <2>2. CASE ~CompResize
      <3>1. conns' = conns
        BY <2>2 DEF CompAcquire, CompCancel, CompDraw, CompDirectCheck, CompGpuWrite
      <3> QED
        BY <3>1 DEF Keeps
    <2> QED
      BY <2>1, <2>2
  <1>3. Answered' \subseteq Answered
    BY <1>2, SameAnswers DEF Keeps
  <1>4. Out' = Out /\ Caps' = Caps /\ Gen' = Gen
    BY <1>1, <1>2, SameConn DEF Keeps
  <1> QED
    BY <1>1, <1>3, <1>4 DEF Rests, SameFrame, SameEvents

\* The app's GPU.
LEMMA GpuRuns ==
  ASSUME TypeOK, AppGpuSample \/ AppGpuSignal
  PROVE  Runs
  <1>1. /\ app' = app /\ conns' = conns /\ dirty_seq' = dirty_seq /\ app_gpu # <<>>
        /\ app_gpu' = Tail(app_gpu)
        /\ timeline' = IF Head(app_gpu).op = "signal" THEN Head(app_gpu).seq ELSE timeline
    BY DEF AppGpuSample, AppGpuSignal, server
  <1>2. Answered' \subseteq Answered
    BY <1>1, SameAnswers
  <1>3. Out' = Out /\ Caps' = Caps /\ Gen' = Gen
    BY <1>1, SameConn
  <1>4. /\ Head(app_gpu).op = "sample" /\ Head(app_gpu).surf \in Outputs => Passed(Head(app_gpu).seq, writes)
        /\ writes' = writes
    <2>1. \A w \in writes : w.seq > Head(app_gpu).seq <=> Head(app_gpu).seq < w.seq
      OBVIOUS
    <2> QED
      BY <2>1 DEF AppGpuSample, AppGpuSignal, Passed, compside
  <1> QED
    BY <1>1, <1>2, <1>3, <1>4 DEF Runs, SameFrame

-----------------------------------------------------------------------------
(* The order of the frames is kept.                                        *)

\* The indices of a sequence with one element more.
LEMMA AppendFacts ==
  ASSUME NEW S, NEW q \in Seq(S), NEW m \in S
  PROVE  /\ Append(q, m) \in Seq(S) /\ Len(q) \in Nat /\ Len(Append(q, m)) = Len(q) + 1
         /\ \A i \in DOMAIN q : i \in DOMAIN Append(q, m) /\ Append(q, m)[i] = q[i] /\ i <= Len(q) /\ i \in Nat
         /\ Len(q) + 1 \in DOMAIN Append(q, m) /\ Append(q, m)[Len(q) + 1] = m
         /\ \A i \in DOMAIN Append(q, m) : i \in DOMAIN q \/ i = Len(q) + 1
  <1>1. /\ Append(q, m) \in Seq(S) /\ Len(q) \in Nat /\ Len(Append(q, m)) = Len(q) + 1
        /\ DOMAIN q = 1..Len(q) /\ DOMAIN Append(q, m) = 1..(Len(q) + 1)
        /\ \A i \in 1..Len(q) : Append(q, m)[i] = q[i]
        /\ Append(q, m)[Len(q) + 1] = m
    OBVIOUS
  <1> QED
    BY <1>1

\* The signal for the frame the app holds.
HeldSignal == [op |-> "signal", surf |-> app.surf, gen |-> Gen, seq |-> app.seq]

\* The app's GPU queue once the held frame is released.
LEMMA SignalFacts ==
  ASSUME TypeOK
  PROVE  /\ ~app.held => SignalHeld = app_gpu
         /\ app.held => /\ SignalHeld = Append(app_gpu, HeldSignal) /\ HeldSignal \in GpuCommands
                        /\ HeldSignal.op = "signal" /\ HeldSignal.seq = app.seq
                        /\ HeldSignal.surf = app.surf /\ HeldSignal.gen = Gen
                        /\ app.conn # NoConn /\ app.seq \in Seqs
  <1>1. ASSUME app.held PROVE app.conn \in Conns /\ app.conn # NoConn /\ app.seq \in Seqs
                              /\ conns[app.conn].gen \in Generations /\ app.surf \in Surfaces
    <2>1. app.state \in {"live", "closing"} /\ app.seq # 0 /\ app.seq \in 0..MaxSeq /\ app.surf \in Surfaces
      BY <1>1, TypeParts DEF LinkTypes, Links
    <2>2. app.conn \in Conns /\ app.conn # NoConn /\ conns[app.conn] \in ConnRecords
      BY <2>1, LinkFacts
    <2>3. conns[app.conn].gen # 0
      BY <2>1, TypeParts DEF LinkGen
    <2> QED
      BY <2>1, <2>2, <2>3, Basics DEF ConnRecords, Seqs
  <1>2. app.held => Gen = conns[app.conn].gen
    BY <1>1 DEF Gen
  <1>3. app.held => HeldSignal \in GpuCommands
    BY <1>1, <1>2 DEF HeldSignal, GpuCommands
  <1>4. /\ HeldSignal.op = "signal" /\ HeldSignal.seq = app.seq
        /\ HeldSignal.surf = app.surf /\ HeldSignal.gen = Gen
    BY DEF HeldSignal
  <1> QED
    BY <1>1, <1>2, <1>3, <1>4 DEF SignalHeld, HeldSignal

\* Every command of the queue then was in it or is that signal, at its end.
LEMMA SignalPlaces ==
  ASSUME TypeOK, app_gpu' = SignalHeld
  PROVE  /\ \A i \in DOMAIN app_gpu : i \in DOMAIN app_gpu' /\ app_gpu'[i] = app_gpu[i] /\ i <= Len(app_gpu)
         /\ \A i \in DOMAIN app_gpu' : \/ i \in DOMAIN app_gpu /\ app_gpu'[i] = app_gpu[i]
                                       \/ /\ app.held /\ i = Len(app_gpu) + 1
                                          /\ app_gpu'[i] = HeldSignal
         /\ Len(app_gpu) \in Nat
  <1>0. app_gpu \in Seq(GpuCommands)
    BY FlowTypes DEF FlowTyped
  <1>1. CASE app.held
    <2>1. app_gpu' = Append(app_gpu, HeldSignal) /\ HeldSignal \in GpuCommands
      BY <1>1, SignalFacts
    <2> QED
      BY <1>0, <1>1, <2>1, AppendFacts
  <1>2. CASE ~app.held
    <2>1. app_gpu' = app_gpu
      BY <1>2, SignalFacts
    <2>2. Len(app_gpu) \in Nat /\ DOMAIN app_gpu = 1..Len(app_gpu)
      BY <1>0
    <2> QED
      BY <2>1, <2>2
  <1> QED
    BY <1>1, <1>2

\* Older in the next state.
Still(n) == Behind(n, Out', (Cur)', app'.seq, dirty_seq')

\* A step keeps the order when nothing moves,
LEMMA OrderRests ==
  ASSUME OrderInv, Rests
  PROVE  OrderInv'
  <1>1. (Cur <=> Cur') /\ app'.seq = app.seq
    BY DEF Cur, Rests, SameFrame
  <1>2. \A n : Older(n) <=> Still(n)
    BY <1>1 DEF Older, Rests, SameEvents, Still, Behind
  <1>3. app'.held => app'.state = "live" /\ Caps' = "v2" /\ ~app'.pending
    BY DEF Rests, SameFrame, OrderInv
  <1> QED
    BY <1>1, <1>2, <1>3 DEF OrderInv, Rests, SameEvents, Older, Still

\* when the app reads,
LEMMA OrderReads ==
  ASSUME TypeOK, TypeOK', OrderInv, Reads \/ Skips
  PROVE  OrderInv'
  <1>0. /\ FlowTyped /\ FlowTyped'
        /\ Out # <<>> /\ Out' = Tail(Out) /\ UNCHANGED <<timeline, dirty_seq>>
        /\ Answered' \subseteq Answered \cup Returned
    BY FlowTypes, FlowTypesNext DEF Reads, Skips, SameEvents
  <1>1. /\ 1 \in DOMAIN Out /\ Head(Out) = Out[1]
        /\ \A i \in DOMAIN Out' : i + 1 \in DOMAIN Out /\ Out'[i] = Out[i + 1] /\ i \in Nat /\ i > 0
    BY <1>0, TailFacts DEF FlowTyped
  <1>2. \A n : Older(n) => Still(n)
    <2> SUFFICES ASSUME NEW n, Older(n) PROVE Still(n)
      OBVIOUS
    <2>1. n <= dirty_seq'
      BY <1>0 DEF Older, Still, Behind
    <2>2. \A i \in DOMAIN Out' : Out'[i].type = "dirty" => n < Out'[i].seq
      BY <1>1 DEF Older, Still, Behind
    <2>3. (Cur)' => n < app'.seq
      <3>1. CASE Reads
        BY <1>1, <3>1 DEF Reads, Older, Still, Behind
      <3>2. CASE Skips
        BY <3>2 DEF Skips, SameFrame, Older, Cur, Still, Behind
      <3> QED
        BY <3>1, <3>2
    <2> QED
      BY <2>1, <2>2, <2>3 DEF Older, Still, Behind
  <1>3. \A i \in DOMAIN Out' : Out'[i].type = "dirty" => Out'[i].seq <= dirty_seq'
    BY <1>0, <1>1 DEF OrderInv
  <1>4. \A i, j \in DOMAIN Out' : i < j /\ Out'[i].type = "dirty" /\ Out'[j].type = "dirty" =>
           Out'[i].seq < Out'[j].seq
    BY <1>1 DEF OrderInv
  <1>5. Still(timeline')
    BY <1>0, <1>2 DEF OrderInv, Older, Still, Behind
  <1>6. CASE Skips
    <2>1. SameFrame /\ app_gpu' = app_gpu /\ Answered' \subseteq Answered /\ app'.state = app.state
          /\ Caps' = Caps
      BY <1>6 DEF Skips, SameEvents
    <2>2. app'.held => app'.state = "live" /\ Caps' = "v2" /\ ~app'.pending
      BY <2>1 DEF SameFrame, OrderInv
    <2>3. (Cur)' => /\ app'.seq <= dirty_seq'
                    /\ \A i \in DOMAIN Out' : Out'[i].type = "dirty" => app'.seq < Out'[i].seq
      BY <1>0, <1>1, <2>1 DEF SameFrame, OrderInv, Cur
    <2> QED
      BY <1>0, <1>2, <1>3, <1>4, <1>5, <2>1, <2>2, <2>3 DEF OrderInv, Older, Still
  <1>7. CASE Reads
    <2>1. /\ app'.seq = Out[1].seq /\ app'.held = FALSE /\ Out[1].type = "dirty"
          /\ app_gpu' = SignalHeld
      BY <1>1, <1>7 DEF Reads
    <2>2. /\ app'.seq <= dirty_seq'
          /\ \A i \in DOMAIN Out' : Out'[i].type = "dirty" => app'.seq < Out'[i].seq
      <3>1. \A i \in DOMAIN Out' : 1 < i + 1
        BY <1>1
      <3> QED
        BY <1>0, <1>1, <2>1, <3>1 DEF OrderInv, Older, Still
    <2>3. app.held => Still(app.seq)
      <3> SUFFICES ASSUME app.held PROVE Still(app.seq)
        OBVIOUS
      <3>1. Cur
        BY DEF Cur
      <3>2. app.seq <= dirty_seq /\ \A i \in DOMAIN Out : Out[i].type = "dirty" => app.seq < Out[i].seq
        BY <3>1 DEF OrderInv
      <3> QED
        BY <1>0, <1>1, <2>1, <3>2 DEF Older, Still, Behind
    <2>4. \A n \in Answered' : Still(n)
      BY <1>0, <1>2, <2>3 DEF OrderInv, Returned
    <2>5. /\ \A i \in DOMAIN app_gpu' : app_gpu'[i].op = "signal" =>
                timeline' < app_gpu'[i].seq /\ Still(app_gpu'[i].seq)
          /\ \A i, j \in DOMAIN app_gpu' : i < j /\ app_gpu'[i].op = "signal" /\ app_gpu'[j].op = "signal" =>
                app_gpu'[i].seq < app_gpu'[j].seq
      <3>1. /\ \A i \in DOMAIN app_gpu : i <= Len(app_gpu) /\ i \in Nat
            /\ \A i \in DOMAIN app_gpu' : \/ i \in DOMAIN app_gpu /\ app_gpu'[i] = app_gpu[i]
                                          \/ app.held /\ i = Len(app_gpu) + 1 /\ app_gpu'[i] = HeldSignal
            /\ Len(app_gpu) \in Nat
        BY <1>0, <2>1, SignalPlaces DEF FlowTyped
      <3>2. HeldSignal.seq = app.seq
        BY DEF HeldSignal
      <3>3. app.held => /\ timeline < app.seq
                        /\ \A i \in DOMAIN app_gpu : app_gpu[i].op = "signal" => app_gpu[i].seq < app.seq
        BY DEF OrderInv, Older, Cur, Still, Behind
      <3>4. \A i \in DOMAIN app_gpu' : app_gpu'[i].op = "signal" =>
                timeline' < app_gpu'[i].seq /\ Still(app_gpu'[i].seq)
        <4> SUFFICES ASSUME NEW i \in DOMAIN app_gpu', app_gpu'[i].op = "signal"
                     PROVE  timeline' < app_gpu'[i].seq /\ Still(app_gpu'[i].seq)
          OBVIOUS
        <4>1. CASE i \in DOMAIN app_gpu /\ app_gpu'[i] = app_gpu[i]
          BY <1>0, <1>2, <4>1 DEF OrderInv
        <4>2. CASE app.held /\ app_gpu'[i] = HeldSignal
          BY <1>0, <2>3, <3>2, <3>3, <4>2
        <4> QED
          BY <3>1, <4>1, <4>2
      <3>5. ASSUME NEW i \in DOMAIN app_gpu', NEW j \in DOMAIN app_gpu',
                   i < j, app_gpu'[i].op = "signal", app_gpu'[j].op = "signal"
            PROVE  app_gpu'[i].seq < app_gpu'[j].seq
        <4>1. i \in DOMAIN app_gpu /\ app_gpu'[i] = app_gpu[i]
          BY <3>1, <3>5
        <4>2. CASE j \in DOMAIN app_gpu /\ app_gpu'[j] = app_gpu[j]
          BY <3>5, <4>1, <4>2 DEF OrderInv
        <4>3. CASE app.held /\ app_gpu'[j] = HeldSignal
          BY <3>2, <3>3, <3>5, <4>1, <4>3
        <4> QED
          BY <3>1, <4>2, <4>3
      <3> QED
        BY <3>4, <3>5
    <2> QED
      BY <1>3, <1>4, <1>5, <2>1, <2>2, <2>4, <2>5 DEF OrderInv, Older, Still
  <1> QED
    BY <1>6, <1>7

\* presents or closes,
LEMMA OrderShows ==
  ASSUME TypeOK, TypeOK', OrderInv, Presents \/ Closes
  PROVE  OrderInv'
  <1>0. /\ FlowTyped /\ FlowTyped'
        /\ Out' = Out /\ UNCHANGED <<timeline, dirty_seq>> /\ app'.seq = app.seq
        /\ Answered' \subseteq Answered \cup Returned /\ Caps' = Caps
    BY FlowTypes, FlowTypesNext DEF Presents, Closes, SameEvents
  <1>1. (Cur)' => Cur
    BY DEF Presents, Closes, Cur
  <1>2. \A n : Older(n) => Still(n)
    BY <1>0, <1>1 DEF Older, Still, Behind
  <1>3. (Cur)' => /\ app'.seq <= dirty_seq'
                  /\ \A i \in DOMAIN Out' : Out'[i].type = "dirty" => app'.seq < Out'[i].seq
    BY <1>0, <1>1 DEF OrderInv
  <1>4. app'.held => app'.state = "live" /\ Caps' = "v2" /\ ~app'.pending
    BY DEF Presents, Closes, OrderInv
  <1>5. /\ \A i \in DOMAIN Out' : Out'[i].type = "dirty" => Out'[i].seq <= dirty_seq'
        /\ \A i, j \in DOMAIN Out' : i < j /\ Out'[i].type = "dirty" /\ Out'[j].type = "dirty" =>
              Out'[i].seq < Out'[j].seq
        /\ Still(timeline')
    BY <1>0, <1>2 DEF OrderInv, Older, Still, Behind
  <1>6. CASE Presents
    <2>1. Answered' \subseteq Answered
      BY <1>6 DEF Presents, SameEvents
    <2> DEFINE m == [op |-> "sample", surf |-> app.surf, gen |-> Gen, seq |-> app.seq]
    <2>2. \A i \in DOMAIN app_gpu' : app_gpu'[i].op = "signal" =>
              i \in DOMAIN app_gpu /\ app_gpu'[i] = app_gpu[i]
      <3>1. CASE app_gpu' = app_gpu
        BY <3>1
      <3>2. CASE app_gpu' = Append(app_gpu, m)
        <4>1. m.op # "signal"
          OBVIOUS
        <4> HIDE DEF m
        <4>2. \A i \in DOMAIN app_gpu' : (i \in DOMAIN app_gpu /\ app_gpu'[i] = app_gpu[i]) \/ app_gpu'[i] = m
          BY <1>0, <3>2 DEF FlowTyped
        <4> QED
          BY <4>1, <4>2
      <3> QED
        BY <1>6, <3>1, <3>2 DEF Presents
    <2> QED
      BY <1>0, <1>2, <1>3, <1>4, <1>5, <2>1, <2>2 DEF OrderInv, Older, Still
  <1>7. CASE Closes
    <2>1. app_gpu' = SignalHeld /\ app'.pending = app.pending /\ app'.held = FALSE
      BY <1>7 DEF Closes
    <2>2. app.held => Still(app.seq)
      <3> SUFFICES ASSUME app.held PROVE Still(app.seq)
        OBVIOUS
      <3>1. Cur /\ ~(Cur)'
        BY <2>1 DEF Cur, OrderInv
      <3> QED
        BY <1>0, <3>1 DEF OrderInv, Older, Still, Behind
    <2>3. \A n \in Answered' : Still(n)
      BY <1>0, <1>2, <2>2 DEF OrderInv, Returned
    <2>4. /\ \A i \in DOMAIN app_gpu : i <= Len(app_gpu) /\ i \in Nat
          /\ \A i \in DOMAIN app_gpu' : \/ i \in DOMAIN app_gpu /\ app_gpu'[i] = app_gpu[i]
                                        \/ app.held /\ i = Len(app_gpu) + 1 /\ app_gpu'[i] = HeldSignal
          /\ Len(app_gpu) \in Nat
      BY <1>0, <2>1, SignalPlaces DEF FlowTyped
    <2>5. HeldSignal.seq = app.seq
      BY DEF HeldSignal
    <2>6. app.held => /\ timeline < app.seq
                      /\ \A i \in DOMAIN app_gpu : app_gpu[i].op = "signal" => app_gpu[i].seq < app.seq
      BY DEF OrderInv, Older, Cur, Still, Behind
    <2>7. ASSUME NEW i \in DOMAIN app_gpu', app_gpu'[i].op = "signal"
          PROVE  timeline' < app_gpu'[i].seq /\ Still(app_gpu'[i].seq)
      <3>1. CASE i \in DOMAIN app_gpu /\ app_gpu'[i] = app_gpu[i]
        BY <1>0, <1>2, <2>7, <3>1 DEF OrderInv
      <3>2. CASE app.held /\ app_gpu'[i] = HeldSignal
        BY <1>0, <2>2, <2>5, <2>6, <3>2
      <3> QED
        BY <2>4, <3>1, <3>2
    <2>8. ASSUME NEW i \in DOMAIN app_gpu', NEW j \in DOMAIN app_gpu',
                 i < j, app_gpu'[i].op = "signal", app_gpu'[j].op = "signal"
          PROVE  app_gpu'[i].seq < app_gpu'[j].seq
      <3>1. i \in DOMAIN app_gpu /\ app_gpu'[i] = app_gpu[i]
        BY <2>4, <2>8
      <3>2. CASE j \in DOMAIN app_gpu /\ app_gpu'[j] = app_gpu[j]
        BY <2>8, <3>1, <3>2 DEF OrderInv
      <3>3. CASE app.held /\ app_gpu'[j] = HeldSignal
        BY <2>5, <2>6, <2>8, <3>1, <3>3
      <3> QED
        BY <2>4, <3>2, <3>3
    <2> QED
      BY <1>3, <1>4, <1>5, <2>3, <2>7, <2>8 DEF OrderInv, Older, Still
  <1> QED
    BY <1>6, <1>7

\* has nothing left,
LEMMA OrderQuits ==
  ASSUME TypeOK, TypeOK', OrderInv, Quits
  PROVE  OrderInv'
  <1>0. /\ DOMAIN Out' = {} /\ UNCHANGED <<timeline, dirty_seq>> /\ ~(Cur)' /\ ~app'.held
        /\ Answered' \subseteq Answered
    BY DEF Quits, SameEvents, Cur
  <1>1. \A n : Older(n) => Still(n)
    BY <1>0 DEF Older, Still, Behind
  <1>2. DOMAIN app_gpu' \subseteq DOMAIN app_gpu /\ \A i \in DOMAIN app_gpu' : app_gpu'[i] = app_gpu[i]
    BY DEF Quits
  <1>3. Still(timeline')
    BY <1>0, <1>1 DEF OrderInv, Older, Still, Behind
  <1> QED
    BY <1>0, <1>1, <1>2, <1>3 DEF OrderInv, Older, Still

\* when records are sent to it,
LEMMA OrderSends ==
  ASSUME TypeOK, TypeOK', OrderInv, NEW recs, NEW surf, NEW to, Sends(recs, surf, to)
  PROVE  OrderInv'
  <1>0. /\ FlowTyped /\ FlowTyped'
        /\ Out' = Out \o recs /\ recs \in Seq(Records) /\ timeline' = timeline /\ app_gpu' = app_gpu
        /\ app' = app /\ Caps' = Caps /\ Answered' \subseteq Answered
        /\ dirty_seq' = dirty_seq \/ dirty_seq' = dirty_seq + 1
        /\ \A i \in DOMAIN recs : recs[i].type = "dirty" =>
              recs[i].seq = dirty_seq + 1 /\ dirty_seq' = dirty_seq + 1
        /\ \A i, j \in DOMAIN recs : recs[i].type = "dirty" /\ recs[j].type = "dirty" => i = j
    BY FlowTypes, FlowTypesNext DEF Sends
  <1>1. /\ \A i \in DOMAIN Out' : \/ i \in DOMAIN Out /\ Out'[i] = Out[i]
                                  \/ i - Len(Out) \in DOMAIN recs /\ Out'[i] = recs[i - Len(Out)]
        /\ \A i \in DOMAIN Out : i <= Len(Out)
        /\ \A i \in DOMAIN recs : i \in Nat /\ i > 0
        /\ Len(Out) \in Nat
    <2>1. Out \in Seq(Records) /\ recs \in Seq(Records)
      BY <1>0 DEF FlowTyped
    <2>2. \A i \in DOMAIN Out' : i \in Nat
      BY <1>0 DEF FlowTyped
    <2>3. /\ \A i \in DOMAIN Out : Out'[i] = Out[i] /\ i <= Len(Out)
          /\ \A i \in DOMAIN recs : Out'[Len(Out) + i] = recs[i] /\ i \in Nat /\ i > 0
          /\ \A i \in DOMAIN Out' : i \in DOMAIN Out \/ i - Len(Out) \in DOMAIN recs
          /\ Len(Out) \in Nat
      BY <1>0, <2>1, ConcatFacts
    <2>4. ASSUME NEW i \in DOMAIN Out', i - Len(Out) \in DOMAIN recs
          PROVE  Out'[i] = recs[i - Len(Out)]
      <3>1. Len(Out) + (i - Len(Out)) = i
        BY <2>2, <2>3
      <3> QED
        BY <2>3, <2>4, <3>1
    <2> QED
      BY <2>3, <2>4
  <1>2. \A i \in DOMAIN Out' : Out'[i].type = "dirty" =>
           \/ i \in DOMAIN Out /\ Out'[i] = Out[i] /\ Out[i].seq <= dirty_seq
           \/ Out'[i].seq = dirty_seq + 1 /\ dirty_seq' = dirty_seq + 1 /\ i - Len(Out) \in DOMAIN recs
              /\ recs[i - Len(Out)].type = "dirty"
    BY <1>0, <1>1 DEF OrderInv
  <1>3. dirty_seq \in Nat /\ dirty_seq <= dirty_seq'
    BY <1>0 DEF FlowTyped
  <1>4. \A n \in Nat : Older(n) => Still(n)
    <2> SUFFICES ASSUME NEW n \in Nat, Older(n) PROVE Still(n)
      OBVIOUS
    <2>1. n <= dirty_seq /\ dirty_seq' \in Nat
      BY <1>0 DEF Older, FlowTyped, Still, Behind
    <2>2. \A i \in DOMAIN Out' : Out'[i].type = "dirty" => n < Out'[i].seq
      BY <1>2, <1>3, <2>1 DEF Older, Still, Behind
    <2>3. (Cur)' => n < app'.seq
      BY <1>0 DEF Older, Cur, Still, Behind
    <2>4. n <= dirty_seq'
      BY <1>3, <2>1
    <2> QED
      BY <2>2, <2>3, <2>4 DEF Older, Still, Behind
  <1>5. (Cur)' => /\ app'.seq <= dirty_seq'
                  /\ \A i \in DOMAIN Out' : Out'[i].type = "dirty" => app'.seq < Out'[i].seq
    <2> SUFFICES ASSUME (Cur)'
                 PROVE  /\ app'.seq <= dirty_seq'
                        /\ \A i \in DOMAIN Out' : Out'[i].type = "dirty" => app'.seq < Out'[i].seq
      OBVIOUS
    <2>1. app'.seq = app.seq /\ app.seq <= dirty_seq /\ app.seq \in Nat /\ dirty_seq' \in Nat
          /\ \A i \in DOMAIN Out : Out[i].type = "dirty" => app.seq < Out[i].seq
      BY <1>0 DEF OrderInv, Cur, FlowTyped
    <2>2. app'.seq <= dirty_seq'
      BY <1>3, <2>1
    <2>3. \A i \in DOMAIN Out' : Out'[i].type = "dirty" => app.seq < Out'[i].seq
      BY <1>2, <1>3, <2>1
    <2> QED
      BY <2>1, <2>2, <2>3
  <1>6. \A i \in DOMAIN Out' : Out'[i].type = "dirty" => Out'[i].seq <= dirty_seq'
    <2>1. dirty_seq' \in Nat /\ \A i \in DOMAIN Out : Out[i].type = "dirty" => Out[i].seq \in Nat
      BY <1>0 DEF FlowTyped
    <2> QED
      BY <1>2, <1>3, <2>1
  <1>7. ASSUME NEW i \in DOMAIN Out', NEW j \in DOMAIN Out',
               i < j, Out'[i].type = "dirty", Out'[j].type = "dirty"
        PROVE  Out'[i].seq < Out'[j].seq
    <2>0. i \in Nat /\ j \in Nat /\ Out'[i].seq \in Nat /\ Out'[j].seq \in Nat
      BY <1>0, <1>7 DEF FlowTyped
    <2>1. CASE i \in DOMAIN Out /\ Out'[i] = Out[i] /\ Out[i].seq <= dirty_seq
      <3>1. CASE j \in DOMAIN Out /\ Out'[j] = Out[j]
        BY <1>7, <2>1, <3>1 DEF OrderInv
      <3>2. CASE Out'[j].seq = dirty_seq + 1
        BY <1>3, <2>0, <2>1, <3>2
      <3> QED
        BY <1>2, <1>7, <3>1, <3>2
    <2>2. CASE i - Len(Out) \in DOMAIN recs /\ recs[i - Len(Out)].type = "dirty"
      <3>1. i > Len(Out)
        BY <1>1, <2>0, <2>2
      <3>2. j \notin DOMAIN Out
        BY <1>1, <1>7, <2>0, <3>1
      <3>3. j - Len(Out) \in DOMAIN recs /\ recs[j - Len(Out)].type = "dirty"
        BY <1>2, <1>7, <3>2
      <3>4. i - Len(Out) = j - Len(Out)
        BY <1>0, <2>2, <3>3
      <3> QED
        BY <1>1, <1>7, <2>0, <3>4
    <2> QED
      BY <1>2, <1>7, <2>1, <2>2
  <1>8. Still(timeline') /\ \A n \in Answered' : Still(n)
    <2>1. \A n \in Answered : n \in Nat
      BY <1>0 DEF Answered, FlowTyped
    <2>2. timeline \in Nat
      BY <1>0 DEF FlowTyped
    <2>3. \A n \in Answered' : Still(n)
      BY <1>0, <1>4, <2>1 DEF OrderInv
    <2>4. Still(timeline')
      BY <1>0, <1>4, <2>2 DEF OrderInv, Older, Still, Behind
    <2> QED
      BY <2>3, <2>4
  <1>9. \A i \in DOMAIN app_gpu' : app_gpu'[i].op = "signal" =>
           timeline' < app_gpu'[i].seq /\ Still(app_gpu'[i].seq)
    BY <1>0, <1>4 DEF OrderInv, FlowTyped
  <1>10. app'.held => app'.state = "live" /\ Caps' = "v2" /\ ~app'.pending
    BY <1>0 DEF OrderInv
  <1>11. \A i, j \in DOMAIN app_gpu' : i < j /\ app_gpu'[i].op = "signal" /\ app_gpu'[j].op = "signal" =>
           app_gpu'[i].seq < app_gpu'[j].seq
    BY <1>0 DEF OrderInv
  <1> QED
    BY <1>5, <1>6, <1>7, <1>8, <1>9, <1>10, <1>11 DEF OrderInv, Older, Still

\* and when its GPU runs.
LEMMA OrderRuns ==
  ASSUME TypeOK, TypeOK', OrderInv, Runs
  PROVE  OrderInv'
  <1>0. /\ FlowTyped /\ SameFrame /\ Out' = Out /\ Caps' = Caps /\ Answered' \subseteq Answered
        /\ dirty_seq' = dirty_seq /\ app'.state = app.state
    BY FlowTypes DEF Runs
  <1>1. \A n : Older(n) => Still(n)
    BY <1>0 DEF Older, SameFrame, Cur, Still, Behind
  <1>2. /\ 1 \in DOMAIN app_gpu /\ Head(app_gpu) = app_gpu[1]
        /\ \A i \in DOMAIN app_gpu' : i + 1 \in DOMAIN app_gpu /\ app_gpu'[i] = app_gpu[i + 1] /\ i \in Nat /\ i > 0
        /\ timeline' = IF app_gpu[1].op = "signal" THEN app_gpu[1].seq ELSE timeline
    <2>1. app_gpu # <<>> /\ app_gpu' = Tail(app_gpu)
          /\ timeline' = IF Head(app_gpu).op = "signal" THEN Head(app_gpu).seq ELSE timeline
      BY DEF Runs
    <2> QED
      BY <1>0, <2>1, TailFacts DEF FlowTyped
  <1>3. Still(timeline')
    <2>1. Older(timeline')
      BY <1>2 DEF OrderInv
    <2> QED
      BY <1>1, <2>1
  <1>4. \A i \in DOMAIN app_gpu' : app_gpu'[i].op = "signal" =>
           timeline' < app_gpu'[i].seq /\ Still(app_gpu'[i].seq)
    <2>1. \A i \in DOMAIN app_gpu' : 1 < i + 1
      BY <1>2
    <2> QED
      BY <1>1, <1>2, <2>1 DEF OrderInv, Older, Still
  <1>5. \A i, j \in DOMAIN app_gpu' : i < j /\ app_gpu'[i].op = "signal" /\ app_gpu'[j].op = "signal" =>
           app_gpu'[i].seq < app_gpu'[j].seq
    BY <1>2 DEF OrderInv
  <1>6. app'.held => app'.state = "live" /\ Caps' = "v2" /\ ~app'.pending
    BY <1>0 DEF OrderInv, SameFrame
  <1>7. (Cur)' => /\ app'.seq <= dirty_seq'
                  /\ \A i \in DOMAIN Out' : Out'[i].type = "dirty" => app'.seq < Out'[i].seq
    BY <1>0 DEF OrderInv, SameFrame, Cur
  <1> QED
    BY <1>0, <1>1, <1>3, <1>4, <1>5, <1>6, <1>7 DEF OrderInv, Older, Still

-----------------------------------------------------------------------------
(* Every step.                                                             *)

Moves ==
    \/ Rests \/ Skips \/ Reads \/ Presents \/ Closes \/ Quits \/ Runs
    \/ \E recs, surf, to : Sends(recs, surf, to)

\* A connection to be made.
Connects == \E c \in Conns, caps \in {"v2", "legacy"} : AppConnect(c, caps)

\* The app's steps.
LEMMA AppCases ==
  ASSUME AppStep
  PROVE  \/ Connects
         \/ \E c \in Conns : AppOrphanClose(c)
         \/ AppAdopt \/ AppDirty \/ AppSurface \/ AppSurfaceDrop \/ AppBeginClose
         \/ AppFinishClose \/ AppPresent \/ AppAbandon \/ AppPacing \/ AppCrash
  BY DEF AppStep, AppTick, AppLost, Connects

\* Every step is one of the moves.
LEMMA StepMoves ==
  ASSUME TypeOK, TableInv, LinkInv, AcceptInv, [Next]_vars
  PROVE  Moves
  <1>1. ASSUME NEW c \in Conns, AcceptStep(c) \/ ReaderStep(c) PROVE Moves
    BY <1>1, ThreadRests DEF Moves
  <1>2. CASE AppStep
    <2>1. CASE Connects \/ AppAbandon \/ AppFinishClose \/ AppCrash
      BY <2>1, AppQuits DEF Moves, Connects
    <2>2. CASE AppAdopt \/ AppPacing \/ \E c \in Conns : AppOrphanClose(c)
      BY <2>2, AppRests DEF Moves
    <2>3. CASE AppDirty \/ AppSurface \/ AppSurfaceDrop
      BY <2>3, AppReads DEF Moves
    <2>4. CASE AppPresent
      BY <2>4, AppPresents DEF Moves
    <2>5. CASE AppBeginClose
      BY <2>5, AppCloses DEF Moves
    <2> QED
      BY <1>2, <2>1, <2>2, <2>3, <2>4, <2>5, AppCases
  <1>3. CASE CompStep
    <2>1. ASSUME NEW ok \in SUBSET Active, NEW lost \in SUBSET Active,
                 \/ CompPublish(ok, lost) \/ CompPublishDirect(ok, lost)
                 \/ (\E d \in Dyn : CompUnregister(d, ok, lost)) \/ CompCursor(lost)
          PROVE  Moves
      BY <2>1, CompSends DEF Moves
    <2>2. CASE \/ \E i \in Outputs : CompAcquire(i)
               \/ CompCancel \/ CompDraw
               \/ \E d \in Dyn : CompDirectCheck(d)
               \/ CompResize
      BY <2>2, CompRests DEF Moves
    <2>3. Active \in SUBSET Active
      OBVIOUS
    <2> QED
      BY <1>3, <2>1, <2>2, <2>3 DEF CompStep
  <1>4. CASE GpuStep
    BY <1>4, GpuRuns, CompRests DEF Moves, GpuStep
  <1>5. CASE UNCHANGED vars
    <2>1. app' = app /\ app_gpu' = app_gpu /\ conns' = conns /\ UNCHANGED <<timeline, dirty_seq>>
      BY <1>5 DEF vars, server, appside
    <2>2. Answered' \subseteq Answered
      BY <2>1, SameAnswers
    <2>3. Out' = Out /\ Caps' = Caps /\ Gen' = Gen
      BY <2>1, SameConn
    <2> QED
      BY <2>1, <2>2, <2>3 DEF Moves, Rests, SameFrame, SameEvents
  <1> QED
    BY <1>1, <1>2, <1>3, <1>4, <1>5 DEF Next

\* The order of the frames is kept.
LEMMA OrderStep ==
  ASSUME TypeOK, TypeOK', OrderInv, Moves
  PROVE  OrderInv'
  BY OrderRests, OrderReads, OrderShows, OrderQuits, OrderSends, OrderRuns DEF Moves

-----------------------------------------------------------------------------
(* Handshakes.                                                             *)

\* A connection goes on: its handshake in turn, and frames once it is added.
GoesOn(c) ==
    /\ \/ conns'[c].phase = conns[c].phase
       \/ HsTurn(c) /\ conns'[c].phase \in {"replied", "refused"}
       \/ /\ conns[c].phase \notin {"unused", "backlog"}
          /\ conns'[c].phase \notin {"unused", "backlog", "replied"}
    /\ conns'[c].app = "open" => conns[c].app = "open"
    /\ \/ conns'[c].out = conns[c].out \/ conns'[c].out = <<>>
       \/ conns[c].phase \notin {"unused", "backlog", "replied"}
    /\ \/ conns'[c].gen = conns[c].gen
       \/ conns'[c].gen = generation /\ conns'[c].phase = "replied"
    /\ conns'[c].reader => conns'[c].phase \in {"attached", "dropped"}

GoOn == (\A c \in Conns : GoesOn(c)) /\ app'.conn \in {app.conn, NoConn}

\* Connections go on.
LEMMA AcceptKept ==
  ASSUME TypeOK, AcceptInv, GoOn, \A c \in Conns : conns'[c].app = "open" => c = app'.conn
  PROVE  AcceptInv'
  <1>0. \A c \in Conns : GoesOn(c)
    BY DEF GoOn
  <1>1. \A c \in Conns : conns'[c].phase = "unused" <=> conns[c].phase = "unused"
    BY <1>0 DEF GoesOn, HsTurn
  <1>2. \A b, c \in Conns : b < c /\ conns'[b].phase = "unused" => conns'[c].phase = "unused"
    BY <1>1 DEF AcceptInv
  <1>3. app'.conn # NoConn => \A c \in Conns : app'.conn < c => conns'[c].phase = "unused"
    BY <1>1 DEF AcceptInv, GoOn
  <1>4. ASSUME NEW b \in Conns, NEW c \in Conns, b < c, conns'[b].phase \in {"backlog", "replied"}
        PROVE  conns'[c].phase \in {"unused", "backlog"}
    <2>1. conns[b].phase \in {"backlog", "replied"}
      BY <1>0, <1>4 DEF GoesOn, HsTurn
    <2>2. conns[c].phase \in {"unused", "backlog"}
      BY <1>4, <2>1 DEF AcceptInv
    <2>3. b \in Nat /\ c \in Nat
      BY DEF Conns
    <2>4. ~HsTurn(c)
      BY <1>4, <2>1, <2>3 DEF HsTurn
    <2> QED
      BY <1>0, <2>2, <2>4 DEF GoesOn
  <1>5. ASSUME NEW c \in Conns, conns'[c].phase \in {"unused", "backlog", "replied"}
        PROVE  conns'[c].out = <<>>
    <2>1. conns[c].phase \in {"unused", "backlog", "replied"}
      BY <1>0, <1>5 DEF GoesOn, HsTurn
    <2> QED
      BY <1>0, <2>1 DEF GoesOn, AcceptInv
  <1>6. ASSUME NEW c \in Conns, conns'[c].phase \in {"unused", "backlog"}
        PROVE  conns'[c].gen = 0
    <2>1. conns[c].phase \in {"unused", "backlog"}
      BY <1>0, <1>6 DEF GoesOn, HsTurn
    <2> QED
      BY <1>0, <1>6, <2>1 DEF GoesOn, AcceptInv
  <1>7. \A c \in Conns : conns'[c].reader => conns'[c].phase \in {"attached", "dropped"}
    BY <1>0 DEF GoesOn
  <1> QED
    BY <1>2, <1>3, <1>4, <1>5, <1>6, <1>7 DEF AcceptInv

\* A new connection is behind all others.
LEMMA AcceptConnect ==
  ASSUME TypeOK, LinkInv, AcceptInv, Connects
  PROVE  AcceptInv'
  <1>1. PICK c \in Conns, caps \in {"v2", "legacy"} : AppConnect(c, caps)
    BY DEF Connects
  <1>2. /\ conns[c].phase = "unused" /\ conns'[c].phase = "backlog" /\ conns'[c].out = conns[c].out
        /\ \A b \in Conns : b # c => conns'[b] = conns[b]
        /\ app'.conn = c
    BY <1>1, ConnectFacts
  <1>3. app.conn = NoConn /\ \A b \in Conns : b < c => conns[b].phase # "unused"
    BY <1>1 DEF AppConnect
  <1>4. conns'[c].gen = conns[c].gen /\ conns'[c].reader = conns[c].reader
    <2>1. conns'[c] = [conns[c] EXCEPT !.phase = "backlog", !.caps = caps, !.app = "open"]
      BY <1>1, ConnectEffect, OneConn, TypeParts
    <2> QED
      BY <2>1, TypeParts DEF ConnTypes, ConnRecords
  <1>5. \A b \in Conns : b \in Nat
    BY DEF Conns
  <1>6. \A b \in Conns : c < b => conns[b].phase = "unused"
    BY <1>2 DEF AcceptInv
  <1>7. \A b \in Conns : conns[b].app # "open"
    BY <1>3, Basics DEF AcceptInv
  <1>8. \A b \in Conns : conns'[b].app = "open" => b = app'.conn
    BY <1>2, <1>7
  <1>9. \A b, d \in Conns : b < d /\ conns'[b].phase = "unused" => conns'[d].phase = "unused"
    <2> SUFFICES ASSUME NEW b \in Conns, NEW d \in Conns, b < d, conns'[b].phase = "unused"
                 PROVE  conns'[d].phase = "unused"
      OBVIOUS
    <2>1. b # c /\ conns[b].phase = "unused"
      BY <1>2
    <2>2. ~(b < c)
      BY <1>3, <2>1
    <2>3. d # c /\ conns[d].phase = "unused"
      BY <1>5, <2>1, <2>2 DEF AcceptInv
    <2> QED
      BY <1>2, <2>3
  <1>10. \A d \in Conns : app'.conn < d => conns'[d].phase = "unused"
    BY <1>2, <1>5, <1>6
  <1>11. ASSUME NEW b \in Conns, NEW d \in Conns, b < d, conns'[b].phase \in {"backlog", "replied"}
         PROVE  conns'[d].phase \in {"unused", "backlog"}
    <2>1. CASE b = c
      BY <1>2, <1>5, <1>6, <1>11, <2>1
    <2>2. CASE b # c
      <3>1. conns[d].phase \in {"unused", "backlog"}
        BY <1>2, <1>11, <2>2 DEF AcceptInv
      <3> QED
        BY <1>2, <3>1
    <2> QED
      BY <2>1, <2>2
  <1>12. \A d \in Conns : conns'[d].phase \in {"unused", "backlog", "replied"} => conns'[d].out = <<>>
    BY <1>2 DEF AcceptInv
  <1>13. \A d \in Conns : conns'[d].phase \in {"unused", "backlog"} => conns'[d].gen = 0
    BY <1>2, <1>4 DEF AcceptInv
  <1>14. \A d \in Conns : conns'[d].reader => conns'[d].phase \in {"attached", "dropped"}
    BY <1>2, <1>4 DEF AcceptInv
  <1> QED
    BY <1>8, <1>9, <1>10, <1>11, <1>12, <1>13, <1>14 DEF AcceptInv

\* The app's other steps keep its connection or give it up.
LEMMA AppGoesOn ==
  ASSUME TypeOK, LinkInv, AcceptInv, AppStep, ~Connects
  PROVE  GoOn /\ \A c \in Conns : conns'[c].app = "open" => c = app'.conn
  <1>0. \A c \in Conns : conns[c].reader => conns[c].phase \in {"attached", "dropped"}
    BY DEF AcceptInv
  <1>1. \A c \in Conns : conns[c].app = "open" => c = app.conn
    BY DEF AcceptInv
  <1>2. ASSUME conns' = conns, app'.conn = app.conn
        PROVE  GoOn /\ \A c \in Conns : conns'[c].app = "open" => c = app'.conn
    BY <1>0, <1>1, <1>2 DEF GoOn, GoesOn
  <1>3. ASSUME NEW ends, conns' = AppEndsClosed(ends), app'.conn \in {app.conn, NoConn},
               app'.conn # app.conn => app.conn \in ends \/ app.conn = NoConn
        PROVE  GoOn /\ \A c \in Conns : conns'[c].app = "open" => c = app'.conn
    <2>1. \A c \in Conns :
               /\ c \notin ends => conns'[c] = conns[c]
               /\ c \in ends => conns'[c].app = "closed" /\ conns'[c].out = <<>>
               /\ conns'[c].phase = conns[c].phase /\ conns'[c].gen = conns[c].gen
               /\ conns'[c].reader = conns[c].reader
      BY <1>3, ClosedFacts
    <2>2. \A c \in Conns : GoesOn(c)
      BY <1>0, <2>1 DEF GoesOn
    <2>3. \A c \in Conns : conns'[c].app = "open" => c = app'.conn
      BY <1>1, <1>3, <2>1, Basics
    <2> QED
      BY <1>3, <2>2, <2>3 DEF GoOn
  <1>4. ASSUME Touches(app.conn),
               \/ conns'[app.conn].out = conns[app.conn].out
               \/ conns[app.conn].phase \notin {"unused", "backlog", "replied"},
               \/ conns'[app.conn].app = conns[app.conn].app /\ app'.conn = app.conn
               \/ conns'[app.conn].app = "orphan" /\ app'.conn = NoConn
        PROVE  GoOn /\ \A c \in Conns : conns'[c].app = "open" => c = app'.conn
    <2>1. /\ app.conn \in Conns
          /\ \A b \in Conns : b # app.conn => conns'[b] = conns[b]
          /\ conns'[app.conn].phase = conns[app.conn].phase
          /\ conns'[app.conn].gen = conns[app.conn].gen
          /\ conns'[app.conn].reader = conns[app.conn].reader
      BY <1>4 DEF Touches
    <2>2. \A c \in Conns : GoesOn(c)
      BY <1>0, <1>4, <2>1 DEF GoesOn
    <2>3. \A c \in Conns : conns'[c].app = "open" => c = app'.conn
      BY <1>1, <1>4, <2>1
    <2> QED
      BY <1>4, <2>2, <2>3 DEF GoOn
  <1>5. CASE AppDirty \/ AppSurface \/ AppSurfaceDrop
    <2>1. app'.conn = app.conn /\ conns[app.conn].out # <<>> /\ app.conn \in Conns
      BY <1>5, ReadKnows, ReadEffect
    <2>2. conns[app.conn].phase \notin {"unused", "backlog", "replied"}
      BY <2>1 DEF AcceptInv
    <2> QED
      BY <1>4, <1>5, <2>1, <2>2, ReadTouches
  <1>6. CASE AppPacing \/ AppBeginClose
    <2>1. app'.conn = app.conn
      BY <1>6, TypeParts DEF AppPacing, AppBeginClose, appside, LinkTypes, Links
    <2> QED
      BY <1>4, <1>6, <2>1, WriteTouches
  <1>7. CASE AppAbandon
    <2>1. app'.conn = NoConn
      BY <1>7, NoAppFacts DEF AppAbandon
    <2> QED
      BY <1>4, <1>7, <2>1, AbandonTouches
  <1>8. CASE AppAdopt \/ AppPresent
    <2>1. app'.conn = app.conn /\ conns' = conns
      BY <1>8, TypeParts DEF AppAdopt, AppPresent, LinkTypes, Links
    <2> QED
      BY <1>2, <2>1
  <1>9. CASE \E c \in Conns : AppOrphanClose(c)
    <2>1. \E c \in Conns : conns' = AppEndsClosed({c}) /\ app'.conn = app.conn
      BY <1>9 DEF AppOrphanClose, appside
    <2> QED
      BY <1>3, <2>1
  <1>10. CASE AppFinishClose
    <2>1. conns' = AppEndsClosed({app.conn}) /\ app'.conn = NoConn
      BY <1>10, NoAppFacts DEF AppFinishClose
    <2> QED
      BY <1>3, <2>1
  <1>11. CASE AppCrash
    <2>1. conns' = AppEndsClosed({c \in Conns : conns[c].app # "closed"}) /\ app'.conn = NoConn
      BY <1>11, NoAppFacts DEF AppCrash
    <2>2. app.conn # NoConn => app.conn \in Conns /\ conns[app.conn].app # "closed"
      BY FlowTypes DEF FlowTyped, LinkInv
    <2> QED
      BY <1>3, <2>1, <2>2
  <1> QED
    BY <1>5, <1>6, <1>7, <1>8, <1>9, <1>10, <1>11, AppCases

\* So do the server's and the GPUs' steps.
LEMMA ServerGoesOn ==
  ASSUME TypeOK, TableInv, LinkInv, AcceptInv,
         \/ \E c \in Conns : AcceptStep(c) \/ ReaderStep(c)
         \/ CompStep \/ GpuStep \/ UNCHANGED vars
  PROVE  GoOn /\ \A c \in Conns : conns'[c].app = "open" => c = app'.conn
  <1>0. /\ \A c \in Conns : conns[c].reader => conns[c].phase \in {"attached", "dropped"}
        /\ \A c \in Conns : conns[c].app = "open" => c = app.conn
    BY DEF AcceptInv
  <1>1. ASSUME NEW c \in Conns, AcceptStep(c) \/ ReaderStep(c)
        PROVE  GoOn /\ \A b \in Conns : conns'[b].app = "open" => b = app'.conn
    <2>1. /\ app' = app
          /\ \A b \in Conns : b # c => conns'[b] = conns[b]
          /\ ThreadMove(c)
      BY <1>1, ThreadMoves
    <2>2. \A b \in Conns : GoesOn(b)
      BY <1>0, <2>1 DEF GoesOn, ThreadMove
    <2>3. \A b \in Conns : conns'[b].app = "open" => b = app'.conn
      BY <1>0, <2>1 DEF ThreadMove
    <2> QED
      BY <2>1, <2>2, <2>3 DEF GoOn
  <1>2. ASSUME NEW ok, NEW lost, NEW recs, Broadcasts(ok, lost, recs)
        PROVE  GoOn /\ \A b \in Conns : conns'[b].app = "open" => b = app'.conn
    <2>1. /\ ok \subseteq Active /\ lost \subseteq Active
          /\ \A c \in Conns :
              /\ Keeps(c)
              /\ conns'[c].phase = IF Loses(c, lost) THEN "dropped" ELSE conns[c].phase
              /\ conns'[c].out = IF Gets(c, ok) THEN conns[c].out \o recs ELSE conns[c].out
          /\ app' = app
      BY <1>2, SentFacts DEF Broadcasts, appside
    <2>2. \A c \in Conns : Loses(c, lost) \/ Gets(c, ok) => conns[c].phase \in {"added", "attached"}
      BY <2>1 DEF Loses, Gets, TableInv, TableSound
    <2>3. \A c \in Conns : GoesOn(c)
      <3> SUFFICES ASSUME NEW c \in Conns PROVE GoesOn(c)
        OBVIOUS
      <3>1. /\ conns'[c].phase = conns[c].phase \/ (conns'[c].phase = "dropped" /\ conns[c].phase \in {"added", "attached"})
            /\ conns'[c].out = conns[c].out \/ conns[c].phase \in {"added", "attached"}
            /\ conns'[c].app = conns[c].app /\ conns'[c].gen = conns[c].gen
            /\ conns'[c].reader = conns[c].reader
        BY <2>1, <2>2 DEF Keeps
      <3> QED
        BY <1>0, <3>1 DEF GoesOn
    <2>4. \A b \in Conns : conns'[b].app = "open" => b = app'.conn
      BY <1>0, <2>1 DEF Keeps
    <2> QED
      BY <2>1, <2>3, <2>4 DEF GoOn
  <1>3. CASE CompResize
    <2>1. /\ \A c \in Conns :
              /\ Keeps(c) /\ conns'[c].out = conns[c].out
              /\ conns'[c].phase = IF Loses(c, Active) THEN "dropped" ELSE conns[c].phase
          /\ app' = app
      BY <1>3, CloseFacts DEF CompResize, appside
    <2>2. \A c \in Conns : Loses(c, Active) => conns[c].phase \in {"added", "attached"}
      BY DEF Loses, TableInv, TableSound
    <2>3. \A c \in Conns : GoesOn(c)
      <3> SUFFICES ASSUME NEW c \in Conns PROVE GoesOn(c)
        OBVIOUS
      <3>1. /\ conns'[c].phase = conns[c].phase \/ (conns'[c].phase = "dropped" /\ conns[c].phase \in {"added", "attached"})
            /\ conns'[c].out = conns[c].out
            /\ conns'[c].app = conns[c].app /\ conns'[c].gen = conns[c].gen
            /\ conns'[c].reader = conns[c].reader
        BY <2>1, <2>2 DEF Keeps
      <3> QED
        BY <1>0, <3>1 DEF GoesOn
    <2>4. \A b \in Conns : conns'[b].app = "open" => b = app'.conn
      BY <1>0, <2>1 DEF Keeps
    <2> QED
      BY <2>1, <2>3, <2>4 DEF GoOn
  <1>4. ASSUME conns' = conns, app' = app
        PROVE  GoOn /\ \A b \in Conns : conns'[b].app = "open" => b = app'.conn
    BY <1>0, <1>4 DEF GoOn, GoesOn
  <1>5. CASE GpuStep \/ UNCHANGED vars
    BY <1>4, <1>5 DEF GpuStep, AppGpuSample, AppGpuSignal, CompGpuWrite, vars, appside
  <1>6. CASE CompStep
    <2>1. ASSUME NEW ok \in SUBSET Active, NEW lost \in SUBSET Active,
                 \/ CompPublish(ok, lost) \/ CompPublishDirect(ok, lost)
                 \/ (\E d \in Dyn : CompUnregister(d, ok, lost)) \/ CompCursor(lost)
          PROVE  \E to, recs : Broadcasts(to, lost, recs)
      BY <2>1, BroadcastEffect
    <2>2. CASE \/ \E i \in Outputs : CompAcquire(i)
               \/ CompCancel \/ CompDraw
               \/ \E d \in Dyn : CompDirectCheck(d)
      BY <1>4, <2>2 DEF CompAcquire, CompCancel, CompDraw, CompDirectCheck, appside
    <2>3. Active \in SUBSET Active
      OBVIOUS
    <2> QED
      BY <1>2, <1>3, <1>6, <2>1, <2>2, <2>3 DEF CompStep
  <1> QED
    BY <1>1, <1>5, <1>6

\* Every step but a new connection.
LEMMA StepGoesOn ==
  ASSUME TypeOK, TableInv, LinkInv, AcceptInv, [Next]_vars
  PROVE  AcceptInv' /\ (GoOn \/ Connects)
  <1>1. CASE AppStep
    BY <1>1, AppGoesOn, AcceptKept, AcceptConnect
  <1>2. CASE ~AppStep
    BY <1>2, ServerGoesOn, AcceptKept DEF Next
  <1> QED
    BY <1>1, <1>2

-----------------------------------------------------------------------------
(* Draws and generations.                                                  *)

\* What a step does to the queued draws.
Drawing ==
    \/ writes' \subseteq writes /\ dirty_seq' = dirty_seq /\ comp'.drawn = comp.drawn
    \/ writes' = writes /\ dirty_seq' = dirty_seq + 1 /\ ~comp'.drawn
    \/ CompDraw

\* Every step is one of the three, and generations only grow.
LEMMA StepDraws ==
  ASSUME TypeOK, TableInv, AcceptInv, [Next]_vars
  PROVE  Drawing /\ generation <= generation'
  <1>0. CompTypes /\ generation \in Nat
    BY TypeParts, FlowTypes DEF FlowTyped
  <1>1. ASSUME NEW c \in Conns, AcceptStep(c) \/ ReaderStep(c)
        PROVE  Drawing /\ generation <= generation'
    BY <1>0, <1>1, ThreadMoves DEF Drawing
  <1>2. CASE AppStep
    <2>1. UNCHANGED <<server, compside>>
      BY <1>2, AppCases DEF Connects, AppConnect, AppOrphanClose, AppAdopt, AppDirty, AppSurface,
         AppSurfaceDrop, AppBeginClose, AppFinishClose, AppPresent, AppAbandon, AppPacing, AppCrash
    <2> QED
      BY <1>0, <2>1 DEF Drawing, server, compside
  <1>3. ASSUME NEW ok \in SUBSET Active, NEW lost \in SUBSET Active, CompPublish(ok, lost)
        PROVE  Drawing /\ generation <= generation'
    <2>1. writes' = writes /\ dirty_seq' = dirty_seq + 1 /\ generation' = generation
          /\ comp' = [comp EXCEPT !.target = NoSlot, !.drawn = FALSE]
      BY <1>3 DEF CompPublish
    <2>2. ~comp'.drawn
      BY <1>0, <2>1 DEF CompTypes
    <2> QED
      BY <1>0, <2>1, <2>2 DEF Drawing
  <1>4. ASSUME NEW ok \in SUBSET Active, NEW lost \in SUBSET Active, CompPublishDirect(ok, lost)
        PROVE  Drawing /\ generation <= generation'
    <2>1. writes' = writes /\ dirty_seq' = dirty_seq + 1 /\ generation' = generation
          /\ comp' = [comp EXCEPT !.direct = Nothing] /\ comp.direct # Nothing
      BY <1>4 DEF CompPublishDirect
    <2>2. ~comp.drawn
      BY <1>0, <2>1 DEF CompTypes
    <2>3. ~comp'.drawn
      BY <1>0, <2>1, <2>2 DEF CompTypes
    <2> QED
      BY <1>0, <2>1, <2>3 DEF Drawing
  <1>5. CASE CompDraw
    <2>1. generation' = generation
      BY <1>5 DEF CompDraw, server
    <2> QED
      BY <1>0, <1>5, <2>1 DEF Drawing
  <1>6. ASSUME writes' \subseteq writes, dirty_seq' = dirty_seq,
               generation' = generation \/ generation' = generation + 1,
               comp' = comp \/ (\E i : comp' = [comp EXCEPT !.target = i])
                            \/ \E d : comp' = [comp EXCEPT !.direct = d]
        PROVE  Drawing /\ generation <= generation'
    <2>1. comp'.drawn = comp.drawn
      BY <1>0, <1>6 DEF CompTypes
    <2> QED
      BY <1>0, <1>6, <2>1 DEF Drawing
  <1>7. CASE CompStep
    <2>1. CASE \E i \in Outputs : CompAcquire(i)
      BY <1>6, <2>1 DEF CompAcquire
    <2>2. CASE CompCancel
      BY <1>6, <2>2 DEF CompCancel
    <2>3. CASE \E d \in Dyn : CompDirectCheck(d)
      BY <1>6, <2>3 DEF CompDirectCheck
    <2>4. CASE \E d \in Dyn : \E ok \in SUBSET Active, lost \in SUBSET Active : CompUnregister(d, ok, lost)
      BY <1>6, <2>4 DEF CompUnregister, compside
    <2>5. CASE \E lost \in SUBSET Active : CompCursor(lost)
      BY <1>6, <2>5 DEF CompCursor, compside
    <2>6. CASE CompResize
      BY <1>6, <2>6 DEF CompResize, compside
    <2> QED
      BY <1>3, <1>4, <1>5, <1>7, <2>1, <2>2, <2>3, <2>4, <2>5, <2>6 DEF CompStep
  <1>8. CASE GpuStep \/ UNCHANGED vars
    BY <1>6, <1>8 DEF GpuStep, AppGpuSample, AppGpuSignal, CompGpuWrite, vars, compside, server
  <1> QED
    BY <1>1, <1>2, <1>7, <1>8 DEF Next

\* A draw of the next frame.
LEMMA DrawFacts ==
  ASSUME TypeOK, Drawing
  PROVE  /\ \A w \in writes' : \/ w \in writes
                               \/ CompDraw /\ w.seq = dirty_seq + 1 /\ w.gen = generation
         /\ dirty_seq' = dirty_seq \/ dirty_seq' = dirty_seq + 1
         /\ dirty_seq \in Nat
         /\ \A n \in Nat : n <= dirty_seq /\ Passed(n, writes) => Passed(n, writes')
  <1>1. dirty_seq \in Nat
    BY FlowTypes DEF FlowTyped
  <1>2. CompDraw => dirty_seq' = dirty_seq /\ \A w \in writes' :
            w \in writes \/ (w.seq = dirty_seq + 1 /\ w.gen = generation)
    BY DEF CompDraw, server
  <1>3. \A w \in writes' : \/ w \in writes
                           \/ CompDraw /\ w.seq = dirty_seq + 1 /\ w.gen = generation
    BY <1>2 DEF Drawing
  <1>4. dirty_seq' = dirty_seq \/ dirty_seq' = dirty_seq + 1
    BY <1>2 DEF Drawing
  <1>5. ASSUME NEW n \in Nat, n <= dirty_seq, Passed(n, writes), NEW w \in writes'
        PROVE  n < w.seq
    BY <1>1, <1>3, <1>5 DEF Passed
  <1> QED
    BY <1>1, <1>3, <1>4, <1>5 DEF Passed

\* Draws keep their numbers.
LEMMA DrawStep ==
  ASSUME TypeOK, DrawInv, Drawing
  PROVE  DrawInv'
  <1>0. dirty_seq \in Nat /\ \A w \in writes : w.seq \in Nat
    BY FlowTypes DEF FlowTyped
  <1>1. CASE CompDraw
    <2> DEFINE new == [slot |-> comp.target, gen |-> generation, seq |-> dirty_seq + 1, wait |-> gpu_wait]
    <2>1. writes' = writes \cup {new} /\ dirty_seq' = dirty_seq /\ ~comp.drawn
          /\ comp' = [comp EXCEPT !.drawn = TRUE]
      BY <1>1 DEF CompDraw, server
    <2>2. comp'.drawn
      BY <2>1, TypeParts DEF CompTypes
    <2>3. \A w \in writes : w.seq <= dirty_seq
      BY <2>1 DEF DrawInv
    <2>4. new.seq = dirty_seq + 1
      OBVIOUS
    <2> HIDE DEF new
    <2>5. \A w \in writes' : w.seq <= dirty_seq' \/ (comp'.drawn /\ w.seq = dirty_seq' + 1)
      BY <2>1, <2>2, <2>3, <2>4
    <2>6. \A w, v \in writes' : w.seq = v.seq => w = v
      BY <1>0, <2>1, <2>3, <2>4 DEF DrawInv
    <2> QED
      BY <2>5, <2>6 DEF DrawInv
  <1>2. CASE ~CompDraw
    <2>1. writes' \subseteq writes
      BY <1>2 DEF Drawing
    <2>2. \A w, v \in writes' : w.seq = v.seq => w = v
      BY <2>1 DEF DrawInv
    <2>3. \A w \in writes' : w.seq <= dirty_seq' \/ (comp'.drawn /\ w.seq = dirty_seq' + 1)
      BY <1>0, <1>2, <2>1 DEF DrawInv, Drawing
    <2> QED
      BY <2>2, <2>3 DEF DrawInv
  <1> QED
    BY <1>1, <1>2

\* The commands of the app's GPU are old ones or name the app's connection.
LEMMA CommandsFrom ==
  ASSUME TypeOK, Moves
  PROVE  \A i \in DOMAIN app_gpu' :
            \/ \E j \in DOMAIN app_gpu : app_gpu'[i] = app_gpu[j]
            \/ app.conn \in Conns /\ app_gpu'[i].gen = Gen /\ Gen' = Gen
  <1>0. FlowTyped
    BY FlowTypes
  <1>1. CASE Rests \/ Skips \/ Quits \/ \E recs, surf, to : Sends(recs, surf, to)
    BY <1>1 DEF Rests, Skips, Quits, Sends
  <1>2. CASE Reads \/ Closes
    BY <1>0, <1>2, SignalPlaces, SignalFacts DEF Reads, Closes, FlowTyped
  <1>3. CASE Presents
    <2>1. CASE app_gpu' = app_gpu
      BY <2>1
    <2>2. CASE app_gpu' # app_gpu
      <3> DEFINE m == [op |-> "sample", surf |-> app.surf, gen |-> Gen, seq |-> app.seq]
      <3>1. app_gpu' = Append(app_gpu, m) /\ Gen' = Gen /\ Cur /\ app.state = "live"
        BY <1>3, <2>2 DEF Presents
      <3>2. app.conn \in Conns
        BY <3>1, LinkFacts
      <3>3. m \in GpuCommands
        BY <3>1, <3>2, Basics, HeldFacts DEF Gen, Cur
      <3>4. m.gen = Gen
        OBVIOUS
      <3> HIDE DEF m
      <3> QED
        BY <1>0, <3>1, <3>2, <3>3, <3>4, AppendFacts DEF FlowTyped
    <2> QED
      BY <2>1, <2>2
  <1>4. CASE Runs
    BY <1>0, <1>4, TailFacts DEF Runs, FlowTyped
  <1> QED
    BY <1>1, <1>2, <1>3, <1>4 DEF Moves

\* Nothing is of a generation to come.
LEMMA GenStep ==
  ASSUME TypeOK, TypeOK', LinkInv, GenInv, Moves, GoOn \/ Connects, Drawing, generation <= generation'
  PROVE  GenInv'
  <1>0. FlowTyped /\ generation' \in Nat
    BY FlowTypes, FlowTypesNext DEF FlowTyped
  <1>1. ASSUME NEW c \in Conns PROVE conns'[c].gen <= generation'
    <2>0. conns[c].gen <= generation /\ conns[c].gen \in Nat /\ generation \in Nat
      BY <1>0, TypeParts, Basics DEF GenInv, FlowTyped, ConnTypes, ConnRecords, Generations
    <2>1. CASE GoOn
      <3>1. conns'[c].gen = conns[c].gen \/ conns'[c].gen = generation
        BY <2>1 DEF GoOn, GoesOn
      <3> QED
        BY <1>0, <2>0, <3>1
    <2>2. CASE Connects
      <3>1. conns'[c].gen = conns[c].gen
        <4>1. PICK b \in Conns, caps \in {"v2", "legacy"} : AppConnect(b, caps)
          BY <2>2 DEF Connects
        <4>2. conns'[b] = [conns[b] EXCEPT !.phase = "backlog", !.caps = caps, !.app = "open"]
          BY <4>1, ConnectEffect, OneConn, TypeParts
        <4>3. conns'[b].gen = conns[b].gen
          BY <4>2, TypeParts DEF ConnTypes, ConnRecords
        <4> QED
          BY <4>1, <4>3, ConnectFacts
      <3> QED
        BY <1>0, <2>0, <3>1
    <2> QED
      BY <2>1, <2>2
  <1>2. ASSUME NEW i \in DOMAIN app_gpu' PROVE app_gpu'[i].gen <= generation'
    <2>1. CASE \E j \in DOMAIN app_gpu : app_gpu'[i] = app_gpu[j]
      BY <1>0, <2>1 DEF GenInv, FlowTyped
    <2>2. CASE app.conn \in Conns /\ app_gpu'[i].gen = Gen
      <3>1. Gen <= generation /\ Gen \in Nat
        BY <2>2, Basics, TypeParts DEF Gen, GenInv, ConnTypes, ConnRecords, Generations
      <3> QED
        BY <1>0, <2>2, <3>1 DEF FlowTyped
    <2> QED
      BY <2>1, <2>2, CommandsFrom
  <1>3. ASSUME NEW w \in writes' PROVE w.gen <= generation'
    <2>1. CASE w \in writes
      BY <1>0, <2>1 DEF GenInv, FlowTyped
    <2>2. CASE w.gen = generation
      BY <1>0, <2>2
    <2> QED
      BY <2>1, <2>2, DrawFacts
  <1> QED
    BY <1>1, <1>2, <1>3 DEF GenInv

-----------------------------------------------------------------------------
(* Fences.                                                                 *)

\* A command at place j of q that follows the reading of frame n in surface s
\* runs after the frame's fence.
Fenced(q, s, n, j, drawn) == Passed(n, drawn) \/ SampledBefore(q, s, n, j)

\* FenceInv in these terms.
LEMMA FenceParts ==
  FenceInv <=>
    /\ \A j \in DOMAIN app_gpu : app_gpu[j].op = "signal" /\ app_gpu[j].surf \in Outputs =>
          Fenced(app_gpu, app_gpu[j].surf, app_gpu[j].seq, j, writes)
    /\ app.held /\ app.surf \in Outputs => Fenced(app_gpu, app.surf, app.seq, Len(app_gpu) + 1, writes)
  BY DEF FenceInv, Fenced

\* the same of the next state.
LEMMA FencePartsNext ==
  FenceInv' <=>
    /\ \A j \in DOMAIN app_gpu' : app_gpu'[j].op = "signal" /\ app_gpu'[j].surf \in Outputs =>
          Fenced(app_gpu', app_gpu'[j].surf, app_gpu'[j].seq, j, writes')
    /\ app'.held /\ app'.surf \in Outputs => Fenced(app_gpu', app'.surf, app'.seq, Len(app_gpu') + 1, writes')
  BY DEF FenceInv, Fenced

\* Commands that are added come after.
LEMMA FencedAppend ==
  ASSUME NEW q \in Seq(GpuCommands), NEW m \in GpuCommands, NEW s, NEW n, NEW j, NEW drawn,
         Fenced(q, s, n, j, drawn)
  PROVE  Fenced(Append(q, m), s, n, j, drawn)
  <1>1. \A i \in DOMAIN q : i \in DOMAIN Append(q, m) /\ Append(q, m)[i] = q[i]
    BY AppendFacts
  <1> DEFINE p == Append(q, m)
  <1> HIDE DEF p
  <1>2. Fenced(p, s, n, j, drawn)
    BY <1>1 DEF Fenced, SampledBefore, p
  <1> QED
    BY <1>2 DEF p

\* The command that runs was the reading, or comes before it.
LEMMA FencedTail ==
  ASSUME NEW q \in Seq(GpuCommands), q # <<>>, NEW s \in Outputs, NEW n, NEW j \in Int, NEW drawn,
         Fenced(q, s, n, j, drawn),
         Head(q).op = "sample" /\ Head(q).surf \in Outputs => Passed(Head(q).seq, drawn)
  PROVE  Fenced(Tail(q), s, n, j - 1, drawn)
  <1> SUFFICES ASSUME ~Passed(n, drawn) PROVE SampledBefore(Tail(q), s, n, j - 1)
    BY DEF Fenced
  <1>1. PICK i \in DOMAIN q : i < j /\ q[i].op = "sample" /\ q[i].surf = s /\ q[i].seq = n
    BY DEF Fenced, SampledBefore
  <1>2. i # 1
    <2>1. Head(q) = q[1]
      BY TailFacts
    <2> QED
      BY <1>1, <2>1
  <1>3. i - 1 \in DOMAIN Tail(q) /\ q[i] = Tail(q)[i - 1]
    BY <1>2, TailFacts
  <1>4. i \in Int
    OBVIOUS
  <1>5. i - 1 < j - 1
    BY <1>1, <1>4
  <1> QED
    BY <1>1, <1>3, <1>5 DEF SampledBefore

\* Frames that were published stay behind their fence.
LEMMA FencedLater ==
  ASSUME TypeOK, Drawing, NEW q, NEW s, NEW n \in Nat, n <= dirty_seq, NEW j, Fenced(q, s, n, j, writes)
  PROVE  Fenced(q, s, n, j, writes')
  BY DrawFacts DEF Fenced

\* What the frames in FenceInv are.
LEMMA FenceNumbers ==
  ASSUME TypeOK, OrderInv
  PROVE  /\ \A j \in DOMAIN app_gpu : app_gpu[j].op = "signal" =>
               app_gpu[j].seq \in Nat /\ app_gpu[j].seq <= dirty_seq /\ j \in Nat /\ j > 0
         /\ app.held => app.seq \in Nat /\ app.seq <= dirty_seq
         /\ Len(app_gpu) \in Nat /\ app_gpu \in Seq(GpuCommands)
  <1>1. FlowTyped
    BY FlowTypes
  <1>2. \A n : Older(n) => n <= dirty_seq
    BY DEF Older, Behind
  <1>3. app_gpu \in Seq(GpuCommands) /\ Len(app_gpu) \in Nat
    BY <1>1 DEF FlowTyped
  <1>4. \A j \in DOMAIN app_gpu : app_gpu[j].op = "signal" => Older(app_gpu[j].seq)
    BY DEF OrderInv
  <1>5. app.held => app.seq <= dirty_seq
    BY DEF OrderInv, Cur
  <1> QED
    BY <1>1, <1>2, <1>3, <1>4, <1>5 DEF FlowTyped

\* Signals run behind the samples of their frame, however the frames move.
LEMMA FenceStep ==
  ASSUME TypeOK, OrderInv, FenceInv, Moves, Drawing
  PROVE  FenceInv'
  <1>0. FlowTyped /\ app_gpu \in Seq(GpuCommands) /\ Len(app_gpu) \in Nat
    BY FlowTypes, FenceNumbers DEF FlowTyped
  <1>1. \A j \in DOMAIN app_gpu : app_gpu[j].op = "signal" /\ app_gpu[j].surf \in Outputs =>
          Fenced(app_gpu, app_gpu[j].surf, app_gpu[j].seq, j, writes')
    BY FenceParts, FenceNumbers, FencedLater
  <1>2. app.held /\ app.surf \in Outputs => Fenced(app_gpu, app.surf, app.seq, Len(app_gpu) + 1, writes')
    BY FenceParts, FenceNumbers, FencedLater
  <1>3. ASSUME app_gpu' = app_gpu, app'.held => app.held /\ app'.surf = app.surf /\ app'.seq = app.seq
        PROVE  FenceInv'
    BY <1>1, <1>2, <1>3, FencePartsNext
  <1>4. CASE Rests \/ Skips \/ \E recs, surf, to : Sends(recs, surf, to)
    BY <1>3, <1>4 DEF Rests, Skips, Sends, SameFrame
  <1>5. CASE Quits
    <2>1. CASE app_gpu' = app_gpu
      BY <1>3, <1>5, <2>1 DEF Quits
    <2>2. CASE app_gpu' = <<>>
      BY <1>5, <2>2, FencePartsNext DEF Quits
    <2> QED
      BY <1>5, <2>1, <2>2 DEF Quits
  <1>6. ASSUME NEW m \in GpuCommands, app_gpu' = Append(app_gpu, m),
               m.op = "signal" /\ m.surf \in Outputs =>
                  Fenced(app_gpu, m.surf, m.seq, Len(app_gpu) + 1, writes')
        PROVE  \A j \in DOMAIN app_gpu' : app_gpu'[j].op = "signal" /\ app_gpu'[j].surf \in Outputs =>
                  Fenced(app_gpu', app_gpu'[j].surf, app_gpu'[j].seq, j, writes')
    <2> SUFFICES ASSUME NEW j \in DOMAIN app_gpu', app_gpu'[j].op = "signal", app_gpu'[j].surf \in Outputs
                 PROVE  Fenced(app_gpu', app_gpu'[j].surf, app_gpu'[j].seq, j, writes')
      OBVIOUS
    <2>1. \/ j \in DOMAIN app_gpu /\ app_gpu'[j] = app_gpu[j]
          \/ j = Len(app_gpu) + 1 /\ app_gpu'[j] = m
      BY <1>0, <1>6, AppendFacts
    <2>2. Fenced(app_gpu, app_gpu'[j].surf, app_gpu'[j].seq, j, writes')
      BY <1>1, <1>6, <2>1
    <2>3. Fenced(Append(app_gpu, m), app_gpu'[j].surf, app_gpu'[j].seq, j, writes')
      BY <1>0, <2>2, FencedAppend
    <2> QED
      BY <1>6, <2>3
  <1>7. CASE Reads \/ Closes
    <2>1. app_gpu' = SignalHeld /\ ~app'.held
      BY <1>7 DEF Reads, Closes
    <2>2. CASE ~app.held
      BY <1>3, <2>1, <2>2, SignalFacts
    <2>3. CASE app.held
      <3>1. /\ app_gpu' = Append(app_gpu, HeldSignal) /\ HeldSignal \in GpuCommands
            /\ HeldSignal.seq = app.seq /\ HeldSignal.surf = app.surf
        BY <2>1, <2>3, SignalFacts
      <3> QED
        BY <1>2, <1>6, <2>1, <2>3, <3>1, FencePartsNext
    <2> QED
      BY <2>2, <2>3
  <1>8. CASE Presents
    <2>0. app.state = "live" /\ Cur /\ app'.seq = app.seq /\ app'.surf = app.surf
      BY <1>8 DEF Presents
    <2>1. CASE Caps # "v2"
      BY <1>3, <1>8, <2>0, <2>1 DEF Presents
    <2>2. CASE Caps = "v2"
      <3> DEFINE m == [op |-> "sample", surf |-> app.surf, gen |-> Gen, seq |-> app.seq]
      <3>1. app_gpu' = Append(app_gpu, m)
        BY <1>8, <2>2 DEF Presents
      <3>2. app.conn \in Conns
        BY <2>0, LinkFacts
      <3>3. m \in GpuCommands
        BY <2>0, <3>2, Basics, HeldFacts DEF Gen, Cur
      <3>4. m.op = "sample" /\ m.surf = app.surf /\ m.seq = app.seq
        OBVIOUS
      <3> HIDE DEF m
      <3>5. Len(app_gpu) + 1 \in DOMAIN app_gpu' /\ app_gpu'[Len(app_gpu) + 1] = m
            /\ Len(app_gpu') = Len(app_gpu) + 1
        BY <1>0, <3>1, <3>3, AppendFacts
      <3>6. Len(app_gpu) + 1 < Len(app_gpu') + 1
        BY <1>0, <3>5
      <3>7. SampledBefore(app_gpu', app'.surf, app'.seq, Len(app_gpu') + 1)
        BY <2>0, <3>4, <3>5, <3>6 DEF SampledBefore
      <3>8. \A j \in DOMAIN app_gpu' : app_gpu'[j].op = "signal" /\ app_gpu'[j].surf \in Outputs =>
                  Fenced(app_gpu', app_gpu'[j].surf, app_gpu'[j].seq, j, writes')
        BY <1>6, <3>1, <3>3, <3>4
      <3> QED
        BY <3>7, <3>8, FencePartsNext DEF Fenced
    <2> QED
      BY <2>1, <2>2
  <1>9. CASE Runs
    <2>0. /\ app_gpu # <<>> /\ app_gpu' = Tail(app_gpu) /\ SameFrame /\ writes' = writes
          /\ Head(app_gpu).op = "sample" /\ Head(app_gpu).surf \in Outputs => Passed(Head(app_gpu).seq, writes')
      BY <1>9 DEF Runs
    <2>1. ASSUME NEW j \in DOMAIN app_gpu', app_gpu'[j].op = "signal", app_gpu'[j].surf \in Outputs
          PROVE  Fenced(app_gpu', app_gpu'[j].surf, app_gpu'[j].seq, j, writes')
      <3>1. j + 1 \in DOMAIN app_gpu /\ app_gpu'[j] = app_gpu[j + 1] /\ j \in Nat
        BY <1>0, <2>0, TailFacts
      <3>2. Fenced(app_gpu, app_gpu'[j].surf, app_gpu'[j].seq, j + 1, writes')
        BY <1>1, <2>1, <3>1
      <3>3. Fenced(Tail(app_gpu), app_gpu'[j].surf, app_gpu'[j].seq, (j + 1) - 1, writes')
        BY <1>0, <2>0, <2>1, <3>1, <3>2, FencedTail
      <3>4. (j + 1) - 1 = j
        BY <3>1
      <3> QED
        BY <2>0, <3>3, <3>4
    <2>2. ASSUME app'.held, app'.surf \in Outputs
          PROVE  Fenced(app_gpu', app'.surf, app'.seq, Len(app_gpu') + 1, writes')
      <3>1. app.held /\ app.surf \in Outputs /\ app'.surf = app.surf /\ app'.seq = app.seq
        BY <2>0, <2>2 DEF SameFrame
      <3>2. Fenced(Tail(app_gpu), app.surf, app.seq, (Len(app_gpu) + 1) - 1, writes')
        BY <1>0, <1>2, <2>0, <3>1, FencedTail
      <3>3. (Len(app_gpu) + 1) - 1 = Len(app_gpu') + 1
        BY <1>0, <2>0
      <3> QED
        BY <2>0, <3>1, <3>2, <3>3
    <2> QED
      BY <2>1, <2>2, FencePartsNext
  <1> QED
    BY <1>4, <1>5, <1>7, <1>8, <1>9 DEF Moves

-----------------------------------------------------------------------------
(* The invariant of the flow.                                              *)

\* It holds at the start,
LEMMA FlowInit == Init => FlowInv
  <1> SUFFICES ASSUME Init PROVE FlowInv
    OBVIOUS
  <1>1. /\ app = NoApp /\ app_gpu = <<>> /\ timeline = 0 /\ dirty_seq = 0 /\ writes = {}
        /\ generation = 1
    BY DEF Init
  <1>2. app.conn = NoConn /\ ~app.pending /\ ~app.held
    BY <1>1, NoAppFacts
  <1>3. \A c \in Conns : /\ conns[c].phase = "unused" /\ conns[c].out = <<>> /\ conns[c].in = <<>>
                         /\ conns[c].gen = 0 /\ conns[c].app = "closed" /\ ~conns[c].reader
                         /\ conns[c].checked.type = "none"
    BY DEF Init, NewConn, NoRecord
  <1>4. Out = <<>> /\ ~Cur
    BY <1>2 DEF Out, Cur
  <1>5. DOMAIN Out = {} /\ DOMAIN app_gpu = {}
    BY <1>1, <1>4, Short
  <1>6. Answered = {}
    BY <1>3, Short DEF Answered, Echoes, Names
  <1>7. AcceptInv
    BY <1>2, <1>3 DEF AcceptInv
  <1>9. OrderInv
    BY <1>1, <1>2, <1>4, <1>5, <1>6 DEF OrderInv, Older, Behind, Cur
  <1>10. GenInv /\ DrawInv /\ FenceInv
    BY <1>1, <1>2, <1>3, <1>5 DEF GenInv, DrawInv, FenceInv
  <1> QED
    BY <1>7, <1>9, <1>10 DEF FlowInv

\* every step keeps it,
LEMMA FlowStep ==
  ASSUME TypeOK, TypeOK', TableInv, LinkInv, FlowInv, [Next]_vars
  PROVE  FlowInv'
  <1>0. AcceptInv /\ OrderInv /\ GenInv /\ DrawInv /\ FenceInv
    BY DEF FlowInv
  <1>1. AcceptInv' /\ (GoOn \/ Connects)
    BY <1>0, StepGoesOn
  <1>2. Moves
    BY <1>0, StepMoves
  <1>3. Drawing /\ generation <= generation'
    BY <1>0, StepDraws
  <1>5. OrderInv'
    BY <1>0, <1>2, OrderStep
  <1>6. GenInv'
    BY <1>0, <1>1, <1>2, <1>3, GenStep
  <1>7. DrawInv' /\ FenceInv'
    BY <1>0, <1>2, <1>3, DrawStep, FenceStep
  <1> QED
    BY <1>1, <1>5, <1>6, <1>7 DEF FlowInv

\* Frames, handshakes and draws stay in order through every run.
LEMMA FlowAlways == Spec => [](TypeOK /\ TableInv /\ LinkInv /\ FlowInv)
  <1> DEFINE Inv == TypeOK /\ TableInv /\ LinkInv /\ FlowInv
  <1>1. Init => Inv
    BY TypeInit, TableInit, DirectInit, FlowInit
  <1>2. Inv /\ [Next]_vars => Inv'
    <2> SUFFICES ASSUME Inv, [Next]_vars PROVE Inv'
      OBVIOUS
    <2>1. TypeOK' /\ TableInv' /\ LinkInv'
      BY TypeStep, TableStep, LinkStep
    <2>2. FlowInv'
      BY <2>1, FlowStep
    <2> QED
      BY <2>1, <2>2
  <1> QED
    BY <1>1, <1>2, PTL DEF Spec

-----------------------------------------------------------------------------
(* The frames the consumer may read, as the app's connection has them.     *)

\* Use, with the generation that is current given.
FrameUse(surf, gen, now, seq, stage) ==
    [slot |-> IF surf \in Outputs /\ gen = now THEN surf ELSE -1, seq |-> seq, stage |-> stage]

\* Frames in the socket, the app's frame, and frames with their release signal
\* committed.
Unread(out, caps, gen, now) ==
    {FrameUse(out[i].surf, gen, now, out[i].seq, "sent") :
        i \in {k \in DOMAIN out : caps = "v2" /\ out[k].type = "dirty"}}
Shown(caps, gen, now, pending, held, surf, seq) ==
    IF (pending \/ held) /\ caps = "v2"
    THEN {FrameUse(surf, gen, now, seq, IF held THEN "held" ELSE "sent")} ELSE {}
Leaving(q, now) ==
    {FrameUse(q[i].surf, q[i].gen, now, q[i].seq, "releasing") :
        i \in {k \in DOMAIN q : q[k].op = "signal"}}

UnreadNow == Unread(Out, Caps, Gen, generation)
ShownNow == Shown(Caps, Gen, generation, app.pending, app.held, app.surf, app.seq)
LeavingNow == Leaving(app_gpu, generation)

\* The members of the three sets.
LEMMA UnreadMembers ==
  ASSUME NEW out, NEW caps, NEW gen, NEW now
  PROVE  /\ \A u \in Unread(out, caps, gen, now) :
               /\ u.stage = "sent" /\ caps = "v2"
               /\ \E i \in DOMAIN out : /\ out[i].type = "dirty" /\ u.seq = out[i].seq
                                        /\ u = FrameUse(out[i].surf, gen, now, out[i].seq, "sent")
         /\ \A i \in DOMAIN out : caps = "v2" /\ out[i].type = "dirty" =>
               FrameUse(out[i].surf, gen, now, out[i].seq, "sent") \in Unread(out, caps, gen, now)
         /\ out = <<>> => Unread(out, caps, gen, now) = {}
  <1>1. \A surf, seq : /\ FrameUse(surf, gen, now, seq, "sent").seq = seq
                       /\ FrameUse(surf, gen, now, seq, "sent").stage = "sent"
    BY DEF FrameUse
  <1>2. /\ \A u \in Unread(out, caps, gen, now) :
               \E i \in DOMAIN out : /\ out[i].type = "dirty" /\ caps = "v2"
                                     /\ u = FrameUse(out[i].surf, gen, now, out[i].seq, "sent")
        /\ \A i \in DOMAIN out : caps = "v2" /\ out[i].type = "dirty" =>
               FrameUse(out[i].surf, gen, now, out[i].seq, "sent") \in Unread(out, caps, gen, now)
    BY DEF Unread
  <1>3. out = <<>> => Unread(out, caps, gen, now) = {}
    BY DEF Unread
  <1> QED
    BY <1>1, <1>2, <1>3

\* those whose signal the app's GPU has yet to run,
LEMMA LeavingMembers ==
  ASSUME NEW q, NEW now
  PROVE  /\ \A u \in Leaving(q, now) :
               /\ u.stage = "releasing"
               /\ \E i \in DOMAIN q : /\ q[i].op = "signal" /\ u.seq = q[i].seq
                                      /\ u = FrameUse(q[i].surf, q[i].gen, now, q[i].seq, "releasing")
         /\ \A i \in DOMAIN q : q[i].op = "signal" =>
               FrameUse(q[i].surf, q[i].gen, now, q[i].seq, "releasing") \in Leaving(q, now)
         /\ q = <<>> => Leaving(q, now) = {}
  <1>1. \A surf, gen, seq : /\ FrameUse(surf, gen, now, seq, "releasing").seq = seq
                            /\ FrameUse(surf, gen, now, seq, "releasing").stage = "releasing"
    BY DEF FrameUse
  <1>2. /\ \A u \in Leaving(q, now) :
               \E i \in DOMAIN q : /\ q[i].op = "signal"
                                   /\ u = FrameUse(q[i].surf, q[i].gen, now, q[i].seq, "releasing")
        /\ \A i \in DOMAIN q : q[i].op = "signal" =>
               FrameUse(q[i].surf, q[i].gen, now, q[i].seq, "releasing") \in Leaving(q, now)
    BY DEF Leaving
  <1>3. q = <<>> => Leaving(q, now) = {}
    BY DEF Leaving
  <1> QED
    BY <1>1, <1>2, <1>3

\* and the one the app has on its screen.
LEMMA ShownMembers ==
  ASSUME NEW caps, NEW gen, NEW now, NEW pending, NEW held, NEW surf, NEW seq
  PROVE  \A u \in Shown(caps, gen, now, pending, held, surf, seq) :
            /\ caps = "v2" /\ (pending \/ held) /\ u.seq = seq
            /\ u.stage = IF held THEN "held" ELSE "sent"
  BY DEF Shown, FrameUse

\* Together they are the uses: every one is later than the release event.
UsesSplit == UsesNow = UnreadNow \cup ShownNow \cup LeavingNow

\* The contract's uses are these three.
LEMMA UsesAre == TypeOK /\ LinkInv /\ FlowInv => UsesSplit
  <1> SUFFICES ASSUME TypeOK, LinkInv, FlowInv PROVE UsesNow = UnreadNow \cup ShownNow \cup LeavingNow
    BY DEF UsesSplit
  <1>0. FlowTyped /\ AcceptInv /\ OrderInv
    BY FlowTypes DEF FlowInv
  <1>1. \A s, g, n, stage : Use(s, g, n, stage) = FrameUse(s, g, generation, n, stage)
    BY DEF Use, FrameUse
  <1>2. UnreadUses = UnreadNow
    <2> DEFINE Of(c) == {FrameUse(conns[c].out[i].surf, conns[c].gen, generation, conns[c].out[i].seq, "sent") :
                            i \in {k \in DOMAIN conns[c].out : conns[c].out[k].type = "dirty"}}
               Rec(c) == {Use(m.surf, conns[c].gen, m.seq, "sent") :
                            m \in {r \in Range(conns[c].out) : r.type = "dirty"}}
    <2>1. \A c \in Conns : Rec(c) = Of(c)
      <3> SUFFICES ASSUME NEW c \in Conns PROVE Rec(c) = Of(c)
        OBVIOUS
      <3>1. \A m : m \in Range(conns[c].out) <=> \E i \in DOMAIN conns[c].out : m = conns[c].out[i]
        BY DEF Range
      <3>2. Rec(c) \subseteq Of(c)
        BY <1>1, <3>1
      <3>3. Of(c) \subseteq Rec(c)
        BY <1>1, <3>1
      <3> QED
        BY <3>2, <3>3
    <2>2. UnreadUses = UNION {Rec(c) : c \in {k \in Conns : conns[k].caps = "v2" /\ conns[k].app = "open"}}
      BY DEF UnreadUses
    <2>3. \A u : u \in UnreadUses <=> \E c \in Conns : conns[c].caps = "v2" /\ conns[c].app = "open" /\ u \in Of(c)
      <3> HIDE DEF Of, Rec
      <3> QED
        BY <2>1, <2>2
    <2>4. CASE app.conn = NoConn
      <3>1. \A c \in Conns : conns[c].app # "open"
        BY <1>0, <2>4, Basics DEF AcceptInv
      <3>2. UnreadNow = {}
        BY <2>4, UnreadMembers DEF UnreadNow, Out
      <3> HIDE DEF Of
      <3> QED
        BY <2>3, <3>1, <3>2
    <2>5. CASE app.conn # NoConn
      <3>1. app.conn \in Conns /\ \A c \in Conns : conns[c].app = "open" <=> c = app.conn
        BY <1>0, <2>5 DEF AcceptInv, LinkInv, FlowTyped
      <3>2. \A u : u \in UnreadUses <=> conns[app.conn].caps = "v2" /\ u \in Of(app.conn)
        <4> HIDE DEF Of
        <4> QED
          BY <2>3, <3>1
      <3>3. \A u : u \in UnreadNow <=> conns[app.conn].caps = "v2" /\ u \in Of(app.conn)
        BY <2>5 DEF UnreadNow, Unread, Out, Caps, Gen
      <3> HIDE DEF Of
      <3> QED
        BY <3>2, <3>3
    <2> QED
      BY <2>4, <2>5
  <1>3. CurrentUses = ShownNow
    <2>1. app.pending \/ app.held => app.conn # NoConn
      BY TypeParts DEF LinkTypes
    <2> QED
      BY <1>1, <2>1 DEF CurrentUses, ShownNow, Shown, Caps, Gen
  <1>4. ReleasingUses = LeavingNow
    <2>1. \A m : m \in Range(app_gpu) <=> \E i \in DOMAIN app_gpu : m = app_gpu[i]
      BY DEF Range
    <2>2. ReleasingUses \subseteq LeavingNow
      BY <1>1, <2>1 DEF ReleasingUses, LeavingNow, Leaving
    <2>3. LeavingNow \subseteq ReleasingUses
      BY <1>1, <2>1 DEF ReleasingUses, LeavingNow, Leaving
    <2> QED
      BY <2>2, <2>3
  <1>5. \A u \in UnreadNow \cup ShownNow \cup LeavingNow : u.seq > timeline
    <2>0. timeline \in Nat /\ Older(timeline)
      BY <1>0 DEF FlowTyped, OrderInv
    <2>1. ASSUME NEW u \in UnreadNow PROVE u.seq > timeline
      <3>1. PICK i \in DOMAIN Out : Out[i].type = "dirty" /\ u.seq = Out[i].seq
        BY UnreadMembers DEF UnreadNow
      <3>2. Out[i].seq \in Nat
        BY <1>0, <3>1 DEF FlowTyped
      <3> QED
        BY <2>0, <3>1, <3>2 DEF Older, Behind
    <2>2. ASSUME NEW u \in ShownNow PROVE u.seq > timeline
      <3>1. Cur /\ u.seq = app.seq
        BY ShownMembers DEF ShownNow, Cur
      <3>2. app.seq \in Nat
        BY <1>0 DEF FlowTyped
      <3> QED
        BY <2>0, <3>1, <3>2 DEF Older, Behind
    <2>3. ASSUME NEW u \in LeavingNow PROVE u.seq > timeline
      <3>1. PICK i \in DOMAIN app_gpu : app_gpu[i].op = "signal" /\ u.seq = app_gpu[i].seq
        BY LeavingMembers DEF LeavingNow
      <3>2. app_gpu[i].seq \in Nat
        BY <1>0, <3>1 DEF FlowTyped
      <3> QED
        BY <1>0, <2>0, <3>1, <3>2 DEF OrderInv
    <2> QED
      BY <2>1, <2>2, <2>3
  <1> QED
    BY <1>2, <1>3, <1>4, <1>5 DEF UsesNow

\* and so in the next state.
LEMMA UsesAreNext == TypeOK' /\ LinkInv' /\ FlowInv' => UsesSplit'
  BY UsesAre, PTL

-----------------------------------------------------------------------------
(* What a step does to the uses.                                           *)

\* The invariants, before and after a step.
Sound == TypeOK /\ TableInv /\ LinkInv /\ FlowInv
Steady == Sound /\ TypeOK' /\ LinkInv' /\ FlowInv'

\* What such a step starts and ends with.
LEMMA SteadyFacts ==
  ASSUME Steady
  PROVE  /\ TypeOK /\ TypeOK' /\ FlowTyped /\ FlowTyped' /\ LinkInv /\ TableInv
         /\ AcceptInv /\ OrderInv /\ GenInv /\ DrawInv /\ FenceInv
         /\ UsesNow = UnreadNow \cup ShownNow \cup LeavingNow
         /\ UsesNow' = UnreadNow' \cup ShownNow' \cup LeavingNow'
  <1>1. UsesSplit /\ UsesSplit'
    BY UsesAre, UsesAreNext DEF Steady, Sound
  <1> QED
    BY <1>1, FlowTypes, FlowTypesNext DEF Steady, Sound, FlowInv, UsesSplit

\* Records that are not frames do not count.
LEMMA UnreadTail ==
  ASSUME NEW out \in Seq(Records), out # <<>>, NEW caps, NEW gen, NEW now
  PROVE  Unread(out, caps, gen, now) =
            Unread(Tail(out), caps, gen, now) \cup
            (IF caps = "v2" /\ Head(out).type = "dirty"
             THEN {FrameUse(Head(out).surf, gen, now, Head(out).seq, "sent")} ELSE {})
  <1> DEFINE t == Tail(out)
             new == IF caps = "v2" /\ Head(out).type = "dirty"
                    THEN {FrameUse(Head(out).surf, gen, now, Head(out).seq, "sent")} ELSE {}
  <1>1. /\ 1 \in DOMAIN out /\ Head(out) = out[1]
        /\ \A i \in DOMAIN t : i + 1 \in DOMAIN out /\ t[i] = out[i + 1]
        /\ \A i \in DOMAIN out : i = 1 \/ (i - 1 \in DOMAIN t /\ out[i] = t[i - 1])
    BY TailFacts
  <1> HIDE DEF t
  <1>2. ASSUME NEW u \in Unread(out, caps, gen, now) PROVE u \in Unread(t, caps, gen, now) \cup new
    <2>1. PICK i \in DOMAIN out : /\ out[i].type = "dirty" /\ caps = "v2"
                                  /\ u = FrameUse(out[i].surf, gen, now, out[i].seq, "sent")
      BY UnreadMembers
    <2>2. CASE i = 1
      BY <1>1, <2>1, <2>2
    <2>3. CASE i # 1
      BY <1>1, <2>1, <2>3, UnreadMembers
    <2> QED
      BY <2>2, <2>3
  <1>3. ASSUME NEW u \in Unread(t, caps, gen, now) PROVE u \in Unread(out, caps, gen, now)
    <2>1. PICK i \in DOMAIN t : /\ t[i].type = "dirty" /\ caps = "v2"
                                /\ u = FrameUse(t[i].surf, gen, now, t[i].seq, "sent")
      BY UnreadMembers
    <2> QED
      BY <1>1, <2>1, UnreadMembers
  <1>4. new \subseteq Unread(out, caps, gen, now)
    BY <1>1, UnreadMembers
  <1> QED
    BY <1>2, <1>3, <1>4 DEF t

\* Records that are sent come behind the others.
LEMMA UnreadMore ==
  ASSUME NEW out \in Seq(Records), NEW recs \in Seq(Records), NEW caps, NEW gen, NEW now
  PROVE  Unread(out \o recs, caps, gen, now) = Unread(out, caps, gen, now) \cup Unread(recs, caps, gen, now)
  <1> DEFINE t == out \o recs
  <1>1. /\ \A i \in DOMAIN out : i \in DOMAIN t /\ t[i] = out[i]
        /\ \A i \in DOMAIN recs : Len(out) + i \in DOMAIN t /\ t[Len(out) + i] = recs[i] /\ i \in Nat
        /\ \A i \in DOMAIN t : i \in DOMAIN out \/ i - Len(out) \in DOMAIN recs
        /\ Len(out) \in Nat /\ t \in Seq(Records)
    BY ConcatFacts
  <1>2. \A i \in DOMAIN t : i \in Nat
    BY <1>1
  <1> HIDE DEF t
  <1>3. ASSUME NEW u \in Unread(t, caps, gen, now)
        PROVE  u \in Unread(out, caps, gen, now) \cup Unread(recs, caps, gen, now)
    <2>1. PICK i \in DOMAIN t : /\ t[i].type = "dirty" /\ caps = "v2"
                                /\ u = FrameUse(t[i].surf, gen, now, t[i].seq, "sent")
      BY UnreadMembers
    <2>2. CASE i \in DOMAIN out
      BY <1>1, <2>1, <2>2, UnreadMembers
    <2>3. CASE i - Len(out) \in DOMAIN recs
      <3>1. Len(out) + (i - Len(out)) = i
        BY <1>1, <1>2
      <3>2. recs[i - Len(out)] = t[i]
        BY <1>1, <2>3, <3>1
      <3> QED
        BY <2>1, <2>3, <3>2, UnreadMembers
    <2> QED
      BY <1>1, <2>2, <2>3
  <1>4. ASSUME NEW u \in Unread(out, caps, gen, now) PROVE u \in Unread(t, caps, gen, now)
    <2>1. PICK i \in DOMAIN out : /\ out[i].type = "dirty" /\ caps = "v2"
                                  /\ u = FrameUse(out[i].surf, gen, now, out[i].seq, "sent")
      BY UnreadMembers
    <2> QED
      BY <1>1, <2>1, UnreadMembers
  <1>5. ASSUME NEW u \in Unread(recs, caps, gen, now) PROVE u \in Unread(t, caps, gen, now)
    <2>1. PICK i \in DOMAIN recs : /\ recs[i].type = "dirty" /\ caps = "v2"
                                   /\ u = FrameUse(recs[i].surf, gen, now, recs[i].seq, "sent")
      BY UnreadMembers
    <2> QED
      BY <1>1, <2>1, UnreadMembers
  <1> QED
    BY <1>3, <1>4, <1>5 DEF t

\* The app's GPU queue grows by a command, or runs one.
LEMMA LeavingMore ==
  ASSUME NEW q \in Seq(GpuCommands), NEW m \in GpuCommands, NEW now
  PROVE  Leaving(Append(q, m), now) = Leaving(q, now) \cup
            (IF m.op = "signal" THEN {FrameUse(m.surf, m.gen, now, m.seq, "releasing")} ELSE {})
  <1> DEFINE t == Append(q, m)
             new == IF m.op = "signal" THEN {FrameUse(m.surf, m.gen, now, m.seq, "releasing")} ELSE {}
  <1>1. /\ \A i \in DOMAIN q : i \in DOMAIN t /\ t[i] = q[i]
        /\ Len(q) + 1 \in DOMAIN t /\ t[Len(q) + 1] = m
        /\ \A i \in DOMAIN t : i \in DOMAIN q \/ i = Len(q) + 1
    BY AppendFacts
  <1> HIDE DEF t
  <1>2. ASSUME NEW u \in Leaving(t, now) PROVE u \in Leaving(q, now) \cup new
    <2>1. PICK i \in DOMAIN t : /\ t[i].op = "signal"
                                /\ u = FrameUse(t[i].surf, t[i].gen, now, t[i].seq, "releasing")
      BY LeavingMembers
    <2>2. CASE i \in DOMAIN q
      BY <1>1, <2>1, <2>2, LeavingMembers
    <2>3. CASE i = Len(q) + 1
      BY <1>1, <2>1, <2>3
    <2> QED
      BY <1>1, <2>2, <2>3
  <1>3. ASSUME NEW u \in Leaving(q, now) PROVE u \in Leaving(t, now)
    <2>1. PICK i \in DOMAIN q : /\ q[i].op = "signal"
                                /\ u = FrameUse(q[i].surf, q[i].gen, now, q[i].seq, "releasing")
      BY LeavingMembers
    <2> QED
      BY <1>1, <2>1, LeavingMembers
  <1>4. new \subseteq Leaving(t, now)
    BY <1>1, LeavingMembers
  <1> QED
    BY <1>2, <1>3, <1>4 DEF t

\* The first command runs: the use whose signal it was is over.
LEMMA LeavingTail ==
  ASSUME NEW q \in Seq(GpuCommands), q # <<>>, NEW now
  PROVE  Leaving(q, now) = Leaving(Tail(q), now) \cup
            (IF Head(q).op = "signal"
             THEN {FrameUse(Head(q).surf, Head(q).gen, now, Head(q).seq, "releasing")} ELSE {})
  <1> DEFINE t == Tail(q)
             new == IF Head(q).op = "signal"
                    THEN {FrameUse(Head(q).surf, Head(q).gen, now, Head(q).seq, "releasing")} ELSE {}
  <1>1. /\ 1 \in DOMAIN q /\ Head(q) = q[1]
        /\ \A i \in DOMAIN t : i + 1 \in DOMAIN q /\ t[i] = q[i + 1]
        /\ \A i \in DOMAIN q : i = 1 \/ (i - 1 \in DOMAIN t /\ q[i] = t[i - 1])
    BY TailFacts
  <1> HIDE DEF t
  <1>2. ASSUME NEW u \in Leaving(q, now) PROVE u \in Leaving(t, now) \cup new
    <2>1. PICK i \in DOMAIN q : /\ q[i].op = "signal"
                                /\ u = FrameUse(q[i].surf, q[i].gen, now, q[i].seq, "releasing")
      BY LeavingMembers
    <2>2. CASE i = 1
      BY <1>1, <2>1, <2>2
    <2>3. CASE i # 1
      BY <1>1, <2>1, <2>3, LeavingMembers
    <2> QED
      BY <2>2, <2>3
  <1>3. ASSUME NEW u \in Leaving(t, now) PROVE u \in Leaving(q, now)
    <2>1. PICK i \in DOMAIN t : /\ t[i].op = "signal"
                                /\ u = FrameUse(t[i].surf, t[i].gen, now, t[i].seq, "releasing")
      BY LeavingMembers
    <2> QED
      BY <1>1, <2>1, LeavingMembers
  <1>4. new \subseteq Leaving(q, now)
    BY <1>1, LeavingMembers
  <1> QED
    BY <1>2, <1>3, <1>4 DEF t

\* A use goes on to its next stage.
Advances(from, to) ==
    \E u \in UsesNow : /\ u.stage = from
                       /\ UsesNow' = (UsesNow \ {u}) \cup {[u EXCEPT !.stage = to]}

\* A frame's stage changes, its place and number do not.
LEMMA Restaged ==
  ASSUME NEW surf, NEW gen, NEW now, NEW seq, NEW from, NEW to
  PROVE  /\ [FrameUse(surf, gen, now, seq, from) EXCEPT !.stage = to] = FrameUse(surf, gen, now, seq, to)
         /\ FrameUse(surf, gen, now, seq, from).stage = from
         /\ FrameUse(surf, gen, now, seq, from).seq = seq
  BY DEF FrameUse

\* Nothing moves, or a record that is no frame is read.
LEMMA UsesRest ==
  ASSUME Steady, generation' = generation, Rests \/ Skips
  PROVE  UsesNow' = UsesNow
  <1>0. /\ UsesNow = UnreadNow \cup ShownNow \cup LeavingNow /\ FlowTyped
        /\ UsesNow' = UnreadNow' \cup ShownNow' \cup LeavingNow'
    BY SteadyFacts
  <1>1. LeavingNow' = LeavingNow
    BY DEF LeavingNow, Rests, Skips
  <1>2. CASE Rests
    <2>1. CASE Gen' = Gen
      BY <1>0, <1>1, <1>2, <2>1 DEF UnreadNow, ShownNow, Rests, SameFrame
    <2>2. CASE Out = <<>> /\ ~Cur
      <3>1. UnreadNow = {} /\ UnreadNow' = {}
        BY <1>2, <2>2, UnreadMembers DEF UnreadNow, Rests
      <3>2. ShownNow = {} /\ ShownNow' = {}
        BY <1>2, <2>2 DEF ShownNow, Shown, Rests, SameFrame, Cur
      <3> QED
        BY <1>0, <1>1, <3>1, <3>2
    <2> QED
      BY <1>2, <2>1, <2>2 DEF Rests
  <1>3. CASE Skips
    <2>1. UnreadNow = UnreadNow'
      <3>1. Out # <<>> /\ Out' = Tail(Out) /\ Head(Out).type # "dirty" /\ Caps' = Caps /\ Gen' = Gen
        BY <1>3 DEF Skips
      <3>2. Out \in Seq(Records)
        BY <1>0 DEF FlowTyped
      <3>3. Unread(Out, Caps, Gen, generation) = Unread(Tail(Out), Caps, Gen, generation) \cup {}
        <4>1. Unread(Out, Caps, Gen, generation) =
                Unread(Tail(Out), Caps, Gen, generation) \cup
                (IF Caps = "v2" /\ Head(Out).type = "dirty"
                 THEN {FrameUse(Head(Out).surf, Gen, generation, Head(Out).seq, "sent")} ELSE {})
          BY <3>1, <3>2, UnreadTail
        <4> QED
          BY <3>1, <4>1
      <3> QED
        BY <3>1, <3>3 DEF UnreadNow
    <2>2. ShownNow' = ShownNow
      BY <1>3 DEF ShownNow, Skips, SameFrame
    <2> QED
      BY <1>0, <1>1, <2>1, <2>2
  <1> QED
    BY <1>2, <1>3

\* A release signal is committed for the frame the app held.
LEMMA UsesRelease ==
  ASSUME Steady, generation' = generation, app.held, app_gpu' = SignalHeld,
         UnreadNow' \cup ShownNow' = UnreadNow
  PROVE  Advances("held", "releasing")
  <1>0. /\ UsesNow = UnreadNow \cup ShownNow \cup LeavingNow
        /\ UsesNow' = UnreadNow' \cup ShownNow' \cup LeavingNow'
        /\ TypeOK /\ FlowTyped /\ OrderInv
    BY SteadyFacts
  <1> DEFINE u == FrameUse(app.surf, Gen, generation, app.seq, "held")
             v == FrameUse(app.surf, Gen, generation, app.seq, "releasing")
  <1>1. ShownNow = {u}
    <2>1. Caps = "v2"
      BY <1>0 DEF OrderInv
    <2> QED
      BY <2>1 DEF ShownNow, Shown
  <1>2. LeavingNow' = LeavingNow \cup {v}
    <2>1. /\ app_gpu' = Append(app_gpu, HeldSignal) /\ HeldSignal \in GpuCommands
          /\ HeldSignal.op = "signal" /\ HeldSignal.seq = app.seq
          /\ HeldSignal.surf = app.surf /\ HeldSignal.gen = Gen
      BY <1>0, SignalFacts
    <2>2. app_gpu \in Seq(GpuCommands)
      BY <1>0 DEF FlowTyped
    <2> QED
      BY <2>1, <2>2, LeavingMore DEF LeavingNow
  <1>3. v = [u EXCEPT !.stage = "releasing"] /\ u.stage = "held"
    BY Restaged
  <1> HIDE DEF u, v
  <1>4. u \notin UnreadNow /\ u \notin LeavingNow
    BY <1>3, UnreadMembers, LeavingMembers DEF UnreadNow, LeavingNow
  <1>5. UsesNow' = (UsesNow \ {u}) \cup {v} /\ u \in UsesNow
    BY <1>0, <1>1, <1>2, <1>4
  <1> QED
    BY <1>3, <1>5 DEF Advances

\* The app reads a frame.
LEMMA UsesRead ==
  ASSUME Steady, generation' = generation, Reads
  PROVE  IF app.held THEN Advances("held", "releasing") ELSE UsesNow' = UsesNow
  <1>0. /\ UsesNow = UnreadNow \cup ShownNow \cup LeavingNow
        /\ UsesNow' = UnreadNow' \cup ShownNow' \cup LeavingNow'
        /\ TypeOK /\ FlowTyped /\ OrderInv
    BY SteadyFacts
  <1>1. /\ Out # <<>> /\ Out' = Tail(Out) /\ Head(Out).type = "dirty" /\ Caps' = Caps /\ Gen' = Gen
        /\ app'.seq = Head(Out).seq /\ app'.surf = Head(Out).surf /\ ~app.pending
        /\ app'.pending = TRUE /\ app'.held = FALSE /\ app_gpu' = SignalHeld
    BY DEF Reads
  <1>2. Out \in Seq(Records)
    BY <1>0 DEF FlowTyped
  <1>3. UnreadNow' \cup ShownNow' = UnreadNow
    <2>1. ShownNow' = IF Caps = "v2" THEN {FrameUse(Head(Out).surf, Gen, generation, Head(Out).seq, "sent")} ELSE {}
      BY <1>1 DEF ShownNow, Shown
    <2>2. UnreadNow' = Unread(Tail(Out), Caps, Gen, generation)
      BY <1>1 DEF UnreadNow
    <2> QED
      BY <1>1, <1>2, <2>1, <2>2, UnreadTail DEF UnreadNow
  <1>4. CASE app.held
    BY <1>1, <1>3, <1>4, UsesRelease
  <1>5. CASE ~app.held
    <2>1. LeavingNow' = LeavingNow
      BY <1>0, <1>1, <1>5, SignalFacts DEF LeavingNow
    <2>2. ShownNow = {}
      BY <1>1, <1>5 DEF ShownNow, Shown
    <2> QED
      BY <1>0, <1>3, <1>5, <2>1, <2>2
  <1> QED
    BY <1>4, <1>5

\* The app gives up its stream.
LEMMA UsesClose ==
  ASSUME Steady, generation' = generation, Closes
  PROVE  IF app.held THEN Advances("held", "releasing") ELSE UsesNow' = UsesNow
  <1>0. /\ UsesNow = UnreadNow \cup ShownNow \cup LeavingNow
        /\ UsesNow' = UnreadNow' \cup ShownNow' \cup LeavingNow'
        /\ TypeOK /\ OrderInv
    BY SteadyFacts
  <1>1. /\ Out' = Out /\ Caps' = Caps /\ Gen' = Gen /\ app_gpu' = SignalHeld
        /\ app'.seq = app.seq /\ app'.surf = app.surf /\ app'.pending = app.pending /\ app'.held = FALSE
    BY DEF Closes
  <1>2. UnreadNow' = UnreadNow
    BY <1>1 DEF UnreadNow
  <1>3. CASE app.held
    <2>1. ~app.pending
      BY <1>0, <1>3 DEF OrderInv
    <2>2. ShownNow' = {}
      BY <1>1, <2>1 DEF ShownNow, Shown
    <2> QED
      BY <1>1, <1>2, <1>3, <2>2, UsesRelease
  <1>4. CASE ~app.held
    <2>1. LeavingNow' = LeavingNow
      BY <1>0, <1>1, <1>4, SignalFacts DEF LeavingNow
    <2>2. ShownNow' = ShownNow
      BY <1>1, <1>4 DEF ShownNow, Shown
    <2> QED
      BY <1>0, <1>2, <1>4, <2>1, <2>2
  <1> QED
    BY <1>3, <1>4

\* The app presents its frame.
LEMMA UsesPresent ==
  ASSUME Steady, generation' = generation, Presents
  PROVE  Advances("sent", "held") \/ UsesNow' = UsesNow
  <1>0. /\ UsesNow = UnreadNow \cup ShownNow \cup LeavingNow
        /\ UsesNow' = UnreadNow' \cup ShownNow' \cup LeavingNow'
        /\ TypeOK /\ FlowTyped /\ OrderInv
    BY SteadyFacts
  <1>1. /\ Cur /\ Out' = Out /\ Caps' = Caps /\ Gen' = Gen
        /\ app'.seq = app.seq /\ app'.surf = app.surf /\ app'.pending = FALSE /\ app.state = "live"
    BY DEF Presents
  <1>2. UnreadNow' = UnreadNow
    BY <1>1 DEF UnreadNow
  <1>3. CASE Caps # "v2"
    <2>1. app_gpu' = app_gpu
      BY <1>3 DEF Presents
    <2>2. ShownNow' = {} /\ ShownNow = {}
      BY <1>1, <1>3 DEF ShownNow, Shown
    <2>3. LeavingNow' = LeavingNow
      BY <2>1 DEF LeavingNow
    <2> QED
      BY <1>0, <1>2, <2>2, <2>3
  <1>4. CASE Caps = "v2"
    <2> DEFINE m == [op |-> "sample", surf |-> app.surf, gen |-> Gen, seq |-> app.seq]
               u == FrameUse(app.surf, Gen, generation, app.seq, "sent")
               v == FrameUse(app.surf, Gen, generation, app.seq, "held")
    <2>1. app_gpu' = Append(app_gpu, m) /\ app'.held = TRUE
      BY <1>4 DEF Presents
    <2>2. m \in GpuCommands /\ m.op = "sample"
      <3>1. app.conn \in Conns
        BY <1>0, <1>1, LinkFacts
      <3> QED
        BY <1>0, <1>1, <3>1, Basics, HeldFacts DEF Gen, Cur
    <2>3. ShownNow' = {v}
      BY <1>1, <1>4, <2>1 DEF ShownNow, Shown
    <2>4. ShownNow = IF app.held THEN {v} ELSE {u}
      BY <1>1, <1>4 DEF ShownNow, Shown, Cur
    <2>5. v = [u EXCEPT !.stage = "held"] /\ u.stage = "sent" /\ u.seq = app.seq
      BY Restaged
    <2> HIDE DEF m, u, v
    <2>6. LeavingNow' = LeavingNow
      <3>1. app_gpu \in Seq(GpuCommands)
        BY <1>0 DEF FlowTyped
      <3>2. Leaving(Append(app_gpu, m), generation) = Leaving(app_gpu, generation) \cup
              (IF m.op = "signal" THEN {FrameUse(m.surf, m.gen, generation, m.seq, "releasing")} ELSE {})
        BY <2>2, <3>1, LeavingMore
      <3>3. Leaving(Append(app_gpu, m), generation) = Leaving(app_gpu, generation)
        BY <2>2, <3>2
      <3> QED
        BY <2>1, <3>3 DEF LeavingNow
    <2>7. CASE app.held
      BY <1>0, <1>2, <2>3, <2>4, <2>6, <2>7
    <2>8. CASE ~app.held
      <3>1. u \notin LeavingNow
        BY <2>5, LeavingMembers DEF LeavingNow
      <3>2. u \notin UnreadNow
        <4> SUFFICES ASSUME u \in UnreadNow PROVE FALSE
          OBVIOUS
        <4>1. PICK i \in DOMAIN Out : Out[i].type = "dirty" /\ u.seq = Out[i].seq
          BY UnreadMembers DEF UnreadNow
        <4>2. app.seq < Out[i].seq /\ app.seq \in Nat
          BY <1>0, <1>1, <4>1 DEF OrderInv, FlowTyped
        <4> QED
          BY <2>5, <4>1, <4>2
      <3>3. UsesNow' = (UsesNow \ {u}) \cup {v} /\ u \in UsesNow
        BY <1>0, <1>2, <2>3, <2>4, <2>6, <2>8, <3>1, <3>2
      <3> QED
        BY <2>5, <3>3 DEF Advances
    <2> QED
      BY <2>7, <2>8
  <1> QED
    BY <1>3, <1>4

\* The app has nothing any more.
LEMMA UsesQuit ==
  ASSUME Steady, generation' = generation, Quits
  PROVE  UsesNow' \subseteq UsesNow
  <1>0. /\ UsesNow = UnreadNow \cup ShownNow \cup LeavingNow
        /\ UsesNow' = UnreadNow' \cup ShownNow' \cup LeavingNow'
    BY SteadyFacts
  <1>1. UnreadNow' = {}
    <2>1. Out' = <<>>
      BY DEF Quits
    <2> QED
      BY <2>1, UnreadMembers DEF UnreadNow
  <1>2. ShownNow' = {}
    BY DEF Quits, ShownNow, Shown
  <1>3. LeavingNow' \subseteq LeavingNow
    <2>1. CASE app_gpu' = app_gpu
      BY <2>1 DEF LeavingNow
    <2>2. CASE app_gpu' = <<>>
      BY <2>2, LeavingMembers DEF LeavingNow
    <2> QED
      BY <2>1, <2>2 DEF Quits
  <1> QED
    BY <1>0, <1>1, <1>2, <1>3

\* A frame is sent.
LEMMA UsesSend ==
  ASSUME Steady, generation' = generation, NEW recs, NEW surf, NEW to, Sends(recs, surf, to)
  PROVE  \E read : /\ UsesNow' = UsesNow \cup read
                   /\ read \subseteq (IF to = {} THEN {}
                                      ELSE {FrameUse(surf, generation, generation, dirty_seq + 1, "sent")})
                   /\ dirty_seq' = dirty_seq => read = {}
  <1>0. /\ UsesNow = UnreadNow \cup ShownNow \cup LeavingNow
        /\ UsesNow' = UnreadNow' \cup ShownNow' \cup LeavingNow'
        /\ TypeOK /\ FlowTyped
    BY SteadyFacts
  <1> DEFINE read == Unread(recs, Caps, Gen, generation)
  <1>1. /\ recs \in Seq(Records) /\ Out' = Out \o recs /\ app' = app /\ Caps' = Caps /\ Gen' = Gen
        /\ app_gpu' = app_gpu
        /\ recs # <<>> => Gen = generation
        /\ \A i \in DOMAIN recs : recs[i].type = "dirty" =>
              /\ recs[i].seq = dirty_seq + 1 /\ dirty_seq' = dirty_seq + 1 /\ recs[i].surf = surf
              /\ Caps = "v2" => to # {}
    BY DEF Sends
  <1>2. UnreadNow' = UnreadNow \cup read
    <2>1. Out \in Seq(Records)
      BY <1>0 DEF FlowTyped
    <2>2. UnreadNow' = Unread(Out \o recs, Caps, Gen, generation)
      BY <1>1 DEF UnreadNow
    <2> QED
      BY <1>1, <2>1, <2>2, UnreadMore DEF UnreadNow
  <1>3. ShownNow' = ShownNow /\ LeavingNow' = LeavingNow
    BY <1>1 DEF ShownNow, LeavingNow
  <1>4. ASSUME NEW u \in read
        PROVE  /\ to # {} /\ u = FrameUse(surf, generation, generation, dirty_seq + 1, "sent")
               /\ dirty_seq' = dirty_seq + 1
    <2>1. PICK i \in DOMAIN recs : /\ recs[i].type = "dirty" /\ Caps = "v2"
                                   /\ u = FrameUse(recs[i].surf, Gen, generation, recs[i].seq, "sent")
      BY UnreadMembers
    <2>2. recs # <<>>
      BY UnreadMembers
    <2> HIDE DEF read
    <2> QED
      BY <1>1, <2>1, <2>2
  <1> HIDE DEF read
  <1>5. dirty_seq \in Nat
    BY <1>0 DEF FlowTyped
  <1>6. UsesNow' = UsesNow \cup read
    BY <1>0, <1>2, <1>3
  <1>7. dirty_seq' = dirty_seq => read = {}
    BY <1>4, <1>5
  <1> QED
    BY <1>4, <1>6, <1>7

\* The app's GPU runs a command.
LEMMA UsesRun ==
  ASSUME Steady, generation' = generation, Runs
  PROVE  IF Head(app_gpu).op = "signal"
         THEN \E u \in UsesNow :
                 /\ u = FrameUse(Head(app_gpu).surf, Head(app_gpu).gen, generation, Head(app_gpu).seq, "releasing")
                 /\ UsesNow' = UsesNow \ {u}
                 /\ \A v \in UsesNow : u.seq <= v.seq
         ELSE UsesNow' = UsesNow
  <1>0. /\ UsesNow = UnreadNow \cup ShownNow \cup LeavingNow
        /\ UsesNow' = UnreadNow' \cup ShownNow' \cup LeavingNow'
        /\ FlowTyped /\ OrderInv
    BY SteadyFacts
  <1>1. /\ app_gpu # <<>> /\ app_gpu' = Tail(app_gpu) /\ SameFrame /\ Out' = Out
        /\ Caps' = Caps /\ Gen' = Gen
    BY DEF Runs
  <1>2. UnreadNow' = UnreadNow /\ ShownNow' = ShownNow
    BY <1>1 DEF UnreadNow, ShownNow, SameFrame
  <1>3. app_gpu \in Seq(GpuCommands)
    BY <1>0 DEF FlowTyped
  <1>4. CASE Head(app_gpu).op # "signal"
    <2>1. LeavingNow' = LeavingNow
      BY <1>1, <1>3, <1>4, LeavingTail DEF LeavingNow
    <2> QED
      BY <1>0, <1>2, <1>4, <2>1
  <1>5. CASE Head(app_gpu).op = "signal"
    <2> DEFINE h == Head(app_gpu)
               u == FrameUse(h.surf, h.gen, generation, h.seq, "releasing")
    <2>1. LeavingNow = LeavingNow' \cup {u}
      BY <1>1, <1>3, <1>5, LeavingTail DEF LeavingNow
    <2>2. u.stage = "releasing" /\ u.seq = h.seq
      BY Restaged
    <2>3. /\ 1 \in DOMAIN app_gpu /\ h = app_gpu[1]
          /\ \A i \in DOMAIN Tail(app_gpu) : i + 1 \in DOMAIN app_gpu /\ Tail(app_gpu)[i] = app_gpu[i + 1] /\ i \in Nat /\ i > 0
      BY <1>1, <1>3, TailFacts
    <2>4. h.seq \in Nat /\ Older(h.seq)
      BY <1>0, <1>5, <2>3 DEF FlowTyped, OrderInv
    <2>5. ASSUME NEW v \in LeavingNow' PROVE h.seq < v.seq
      <3>1. PICK i \in DOMAIN app_gpu' : app_gpu'[i].op = "signal" /\ v.seq = app_gpu'[i].seq
        BY LeavingMembers DEF LeavingNow
      <3>2. i + 1 \in DOMAIN app_gpu /\ app_gpu'[i] = app_gpu[i + 1] /\ 1 < i + 1
        BY <1>1, <2>3
      <3>3. app_gpu[1].op = "signal" /\ app_gpu[i + 1].op = "signal"
        BY <1>5, <2>3, <3>1, <3>2
      <3>4. app_gpu[1].seq < app_gpu[i + 1].seq
        BY <1>0, <2>3, <3>2, <3>3 DEF OrderInv
      <3> QED
        BY <2>3, <3>1, <3>2, <3>4
    <2>6. ASSUME NEW v \in UnreadNow PROVE h.seq < v.seq /\ v.stage # "releasing"
      <3>1. v.stage = "sent" /\ \E i \in DOMAIN Out : Out[i].type = "dirty" /\ v.seq = Out[i].seq
        BY UnreadMembers DEF UnreadNow
      <3> QED
        BY <2>4, <3>1 DEF Older, Behind
    <2>7. ASSUME NEW v \in ShownNow PROVE h.seq < v.seq /\ v.stage # "releasing"
      <3>1. Cur /\ v.seq = app.seq /\ v.stage # "releasing"
        BY ShownMembers DEF ShownNow, Cur
      <3> QED
        BY <2>4, <3>1 DEF Older, Behind
    <2> HIDE DEF u, h
    <2>8. u \notin UnreadNow /\ u \notin ShownNow /\ u \notin LeavingNow'
      BY <2>2, <2>4, <2>5, <2>6, <2>7
    <2>9. UsesNow' = UsesNow \ {u} /\ u \in UsesNow
      BY <1>0, <1>2, <2>1, <2>8
    <2>10. \A v \in UsesNow : h.seq < v.seq \/ v = u
      BY <1>0, <2>1, <2>5, <2>6, <2>7
    <2>11. \A v \in UsesNow : v.seq \in Nat => u.seq <= v.seq
      BY <2>2, <2>4, <2>10
    <2>12. \A v \in UsesNow : v.seq \in Nat
      <3>1. \A v \in UnreadNow : v.seq \in Nat
        BY <1>0, UnreadMembers DEF UnreadNow, FlowTyped
      <3>2. \A v \in ShownNow : v.seq \in Nat
        BY <1>0, ShownMembers DEF ShownNow, FlowTyped
      <3>3. \A v \in LeavingNow : v.seq \in Nat
        BY <1>0, LeavingMembers DEF LeavingNow, FlowTyped
      <3> QED
        BY <1>0, <3>1, <3>2, <3>3
    <2> QED
      BY <1>5, <2>9, <2>11, <2>12 DEF u, h
  <1> QED
    BY <1>4, <1>5

-----------------------------------------------------------------------------
(* The contract's actions in the terms of this specification.              *)

\* The names the two specifications share mean the same.
LEMMA SameNames ==
  /\ Contract!NoSlot = NoSlot /\ Contract!Elsewhere = -1 /\ Contract!Slots = Outputs
  /\ \A a, b : Contract!Larger(a, b) = Larger(a, b)
  /\ \A q, rotate, i : Contract!QueueOffers(q, rotate, i) <=> QueueOffers(q, rotate, i)
  BY DEF Contract!NoSlot, NoSlot, Contract!Elsewhere, Contract!Slots, Outputs, Contract!Larger, Larger,
         Contract!QueueOffers, QueueOffers, Contract!ScanCount, ScanCount, Contract!ScanSlot, ScanSlot,
         Contract!SlotFree, SlotFree

Obeys == [Contract!Next]_(Contract!vars)

\* The consumer gives up frames, or nothing of the contract's state changes.
LEMMA AsVanish ==
  ASSUME UsesNow' \subseteq UsesNow, WritesNow' = WritesNow, V2Mask' = V2Mask,
         comp'.target = comp.target, comp'.drawn = comp.drawn,
         UNCHANGED <<queue, dirty_seq, gpu_wait, timeline>>
  PROVE  Obeys
  <1> DEFINE gone == UsesNow \ UsesNow'
  <1>1. UsesNow' = UsesNow \ gone /\ gone \in SUBSET UsesNow
    OBVIOUS
  <1> HIDE DEF gone
  <1>2. Contract!Vanish(gone)
    BY <1>1 DEF Contract!Vanish
  <1> QED
    BY <1>1, <1>2 DEF Obeys, Contract!Next

\* The consumer samples or releases a frame.
LEMMA AsAdvance ==
  ASSUME Advances("sent", "held") \/ Advances("held", "releasing"),
         WritesNow' = WritesNow, V2Mask' = V2Mask,
         comp'.target = comp.target, comp'.drawn = comp.drawn,
         UNCHANGED <<queue, dirty_seq, gpu_wait, timeline>>
  PROVE  Obeys
  <1>1. PICK u \in UsesNow :
           \/ u.stage = "sent" /\ UsesNow' = (UsesNow \ {u}) \cup {[u EXCEPT !.stage = "held"]}
           \/ u.stage = "held" /\ UsesNow' = (UsesNow \ {u}) \cup {[u EXCEPT !.stage = "releasing"]}
    BY DEF Advances
  <1>2. \E next \in {<<"sent", "held">>, <<"held", "releasing">>} :
          /\ u.stage = next[1]
          /\ UsesNow' = (UsesNow \ {u}) \cup {[u EXCEPT !.stage = next[2]]}
    <2>1. CASE u.stage = "sent" /\ UsesNow' = (UsesNow \ {u}) \cup {[u EXCEPT !.stage = "held"]}
      <3>1. <<"sent", "held">>[1] = "sent" /\ <<"sent", "held">>[2] = "held"
        OBVIOUS
      <3> QED
        BY <2>1, <3>1
    <2>2. CASE u.stage = "held" /\ UsesNow' = (UsesNow \ {u}) \cup {[u EXCEPT !.stage = "releasing"]}
      <3>1. <<"held", "releasing">>[1] = "held" /\ <<"held", "releasing">>[2] = "releasing"
        OBVIOUS
      <3> QED
        BY <2>2, <3>1
    <2> QED
      BY <1>1, <2>1, <2>2
  <1>3. Contract!Advance(u)
    BY <1>2 DEF Contract!Advance
  <1> QED
    BY <1>3 DEF Obeys, Contract!Next

\* Clients are dropped.
LEMMA AsDrop ==
  ASSUME NEW lost \in SUBSET V2Mask, V2Mask' = V2Mask \ lost, queue' = QueueDropClients(queue, lost),
         UsesNow' = UsesNow, WritesNow' = WritesNow,
         comp'.target = comp.target, comp'.drawn = comp.drawn,
         UNCHANGED <<dirty_seq, gpu_wait, timeline>>
  PROVE  Obeys
  <1>1. Contract!Drop(lost)
    BY SameOperators DEF Contract!Drop
  <1> QED
    BY <1>1 DEF Obeys, Contract!Next

\* A client is added when there is none.
LEMMA AsAttach ==
  ASSUME NEW v2 \in {{}} \cup {{s} : s \in ClientSlots}, V2Mask = {}, V2Mask' = v2, QuarantineOver,
         queue' = QueueRecover(queue), UsesNow' = UsesNow, WritesNow' = WritesNow,
         comp'.target = comp.target, comp'.drawn = comp.drawn,
         UNCHANGED <<dirty_seq, gpu_wait, timeline>>
  PROVE  Obeys
  <1>1. Contract!Attach(v2)
    BY SameOperators, SameQueue DEF Contract!Attach, Contract!HandshakeProof, QuarantineOver
  <1> QED
    BY <1>1 DEF Obeys, Contract!Next

\* A RELEASED is applied.
LEMMA AsRelease ==
  ASSUME NEW s \in V2Mask, NEW i \in Outputs, NEW n \in 1..dirty_seq, s \in ClientSlots,
         \A u \in UsesNow : u.seq = n => u.stage = "releasing",
         QueueReleasable(queue, i, s, n), queue' = QueueRelease(queue, i, s, n),
         V2Mask' = V2Mask, UsesNow' = UsesNow, WritesNow' = WritesNow,
         comp'.target = comp.target, comp'.drawn = comp.drawn,
         UNCHANGED <<dirty_seq, gpu_wait, timeline>>
  PROVE  Obeys
  <1>1. Contract!Release(s, i, n)
    BY SameOperators DEF Contract!Release
  <1> QED
    BY <1>1, SameNames DEF Obeys, Contract!Next

\* A repaint.
LEMMA AsAcquire ==
  ASSUME NEW i \in Outputs, comp.target = NoSlot, QueueOffers(queue, V2Mask # {}, i),
         queue' = QueueAcquire(queue, V2Mask # {}, i), gpu_wait' = Larger(gpu_wait, queue.slots[i].wait),
         comp'.target = i, comp'.drawn = comp.drawn,
         V2Mask' = V2Mask, UsesNow' = UsesNow, WritesNow' = WritesNow, UNCHANGED <<dirty_seq, timeline>>
  PROVE  Obeys
  <1>1. Contract!Acquire(i)
    BY SameOperators, SameNames DEF Contract!Acquire
  <1> QED
    BY <1>1, SameNames DEF Obeys, Contract!Next

\* cancel,
LEMMA AsCancel ==
  ASSUME comp.target # NoSlot, ~comp.drawn, queue' = QueueCancel(queue, comp.target),
         comp'.target = NoSlot, comp'.drawn = comp.drawn,
         V2Mask' = V2Mask, UsesNow' = UsesNow, WritesNow' = WritesNow,
         UNCHANGED <<dirty_seq, gpu_wait, timeline>>
  PROVE  Obeys
  <1>1. Contract!Cancel
    BY SameOperators, SameNames DEF Contract!Cancel
  <1> QED
    BY <1>1 DEF Obeys, Contract!Next

\* draw,
LEMMA AsDraw ==
  ASSUME comp.target # NoSlot, ~comp.drawn, dirty_seq < MaxSeq,
         comp'.target = comp.target, comp'.drawn = TRUE,
         WritesNow' = WritesNow \cup {[slot |-> comp.target, seq |-> dirty_seq + 1, wait |-> gpu_wait]},
         V2Mask' = V2Mask, UsesNow' = UsesNow, UNCHANGED <<queue, dirty_seq, gpu_wait, timeline>>
  PROVE  Obeys
  <1>1. Contract!Draw
    BY SameNames DEF Contract!Draw
  <1> QED
    BY <1>1 DEF Obeys, Contract!Next

\* A frame is published, in an output or elsewhere.
LEMMA AsPublish ==
  ASSUME comp.target # NoSlot, comp.drawn, NEW ok \in SUBSET V2Mask, NEW lost \in SUBSET V2Mask,
         ok \cap lost = {}, NEW read, UsesNow' = UsesNow \cup read,
         read \subseteq (IF ok = {} THEN {}
                         ELSE {[slot |-> comp.target, seq |-> dirty_seq + 1, stage |-> "sent"]}),
         V2Mask' = V2Mask \ lost, dirty_seq' = dirty_seq + 1,
         queue' = QueuePublish(QueueDropClients(queue, lost), comp.target, ok, dirty_seq + 1),
         comp'.target = NoSlot, comp'.drawn = FALSE, WritesNow' = WritesNow, UNCHANGED <<gpu_wait, timeline>>
  PROVE  Obeys
  <1>1. read \in SUBSET Contract!NewUse(comp.target, ok)
    BY DEF Contract!NewUse
  <1>2. Contract!Publish(ok, lost)
    BY <1>1, SameOperators, SameNames DEF Contract!Publish
  <1> QED
    BY <1>2 DEF Obeys, Contract!Next

\* publish a surface that is not an output buffer,
LEMMA AsPublishElsewhere ==
  ASSUME comp.target = NoSlot, dirty_seq < MaxSeq, NEW ok \in SUBSET V2Mask, NEW lost \in SUBSET V2Mask,
         ok \cap lost = {}, NEW read, UsesNow' = UsesNow \cup read,
         read \subseteq (IF ok = {} THEN {} ELSE {[slot |-> -1, seq |-> dirty_seq + 1, stage |-> "sent"]}),
         V2Mask' = V2Mask \ lost, dirty_seq' = dirty_seq + 1, queue' = QueueDropClients(queue, lost),
         comp'.target = comp.target, comp'.drawn = comp.drawn, WritesNow' = WritesNow,
         UNCHANGED <<gpu_wait, timeline>>
  PROVE  Obeys
  <1>1. read \in SUBSET Contract!NewUse(Contract!Elsewhere, ok)
    BY SameNames DEF Contract!NewUse
  <1>2. Contract!PublishElsewhere(ok, lost)
    BY <1>1, SameOperators, SameNames DEF Contract!PublishElsewhere
  <1> QED
    BY <1>2 DEF Obeys, Contract!Next

\* The outputs are replaced.
LEMMA AsResize ==
  ASSUME comp.target = NoSlot, queue' = QueueReset(Count), V2Mask' = {},
         UsesNow' = {[u EXCEPT !.slot = -1] : u \in UsesNow},
         WritesNow' = {[w EXCEPT !.slot = -1] : w \in WritesNow},
         comp'.target = comp.target, comp'.drawn = comp.drawn,
         UNCHANGED <<dirty_seq, gpu_wait, timeline>>
  PROVE  Obeys
  <1>1. Contract!Resize
    BY SameOperators, SameNames DEF Contract!Resize
  <1> QED
    BY <1>1 DEF Obeys, Contract!Next

\* The GPUs.
LEMMA AsSignal ==
  ASSUME NEW u \in UsesNow, u.stage = "releasing",
         u.slot \in Outputs => \A w \in WritesNow : w.seq > u.seq,
         \A v \in UsesNow : u.seq <= v.seq, timeline' = u.seq, UsesNow' = UsesNow \ {u},
         V2Mask' = V2Mask, WritesNow' = WritesNow, comp'.target = comp.target, comp'.drawn = comp.drawn,
         UNCHANGED <<queue, dirty_seq, gpu_wait>>
  PROVE  Obeys
  <1>1. Contract!Signal(u)
    BY SameNames DEF Contract!Signal, Contract!FenceFired
  <1> QED
    BY <1>1 DEF Obeys, Contract!Next

\* and the compositor's GPU finishing a draw.
LEMMA AsWriteDone ==
  ASSUME NEW w \in WritesNow, timeline >= w.wait, \A v \in WritesNow : w.seq <= v.seq,
         WritesNow' = WritesNow \ {w}, UsesNow' = UsesNow, V2Mask' = V2Mask,
         comp'.target = comp.target, comp'.drawn = comp.drawn,
         UNCHANGED <<queue, dirty_seq, gpu_wait, timeline>>
  PROVE  Obeys
  <1>1. Contract!WriteDone(w)
    BY DEF Contract!WriteDone, Contract!Executing
  <1> QED
    BY <1>1 DEF Obeys, Contract!Next

-----------------------------------------------------------------------------
(* Every step obeys the contract.                                          *)

\* The draws of this generation are as they were.
LEMMA SameWrites ==
  ASSUME writes' = writes, generation' = generation
  PROVE  WritesNow' = WritesNow
  BY DEF WritesNow

\* The client table is as it was.
LEMMA SameMask ==
  ASSUME TypeOK, TableInv, Shrinks({}), generation' = generation
  PROVE  V2Mask' = V2Mask
  <1>1. V2Mask' = V2Mask \ {}
    BY ShrinkFacts
  <1> QED
    BY <1>1

\* Only stream-v2 clients are owed a buffer: dropping others changes nothing.
LEMMA DropMasked ==
  ASSUME TypeOK, TableInv, NEW lost
  PROVE  QueueDropClients(queue, lost) = QueueDropClients(queue, lost \cap V2Mask)
  <1>1. queue \in Queues /\ \A i \in Outputs : queue.slots[i].pending \subseteq V2Mask
    BY TypeParts DEF QueueTypes, TableInv, PendingOwnedByLive
  <1>2. queue.count = Count
    BY <1>1 DEF Queues
  <1>3. \A i \in 0..(queue.count - 1) : queue.slots[i].pending \subseteq V2Mask
    BY <1>1, <1>2 DEF Outputs
  <1>4. \A i \in 0..(queue.count - 1) :
           DroppedSlot(queue.slots[i], lost) = DroppedSlot(queue.slots[i], lost \cap V2Mask)
    <2> SUFFICES ASSUME NEW i \in 0..(queue.count - 1)
                 PROVE  DroppedSlot(queue.slots[i], lost) = DroppedSlot(queue.slots[i], lost \cap V2Mask)
      OBVIOUS
    <2> DEFINE p == queue.slots[i].pending
    <2>1. p \ lost = p \ (lost \cap V2Mask) /\ p \cap lost = p \cap (lost \cap V2Mask)
      BY <1>3
    <2> QED
      BY <2>1 DEF DroppedSlot
  <1> QED
    BY <1>4 DEF QueueDropClients

\* A thread of the server that touches neither the table nor the queue.
LEMMA ThreadObeys ==
  ASSUME Steady, NEW c \in Conns,
         \/ HsReply(c) \/ HsFail(c) \/ HsRefuse(c) \/ HsReader(c)
         \/ ReaderTake(c) \/ ReaderPacing(c)
  PROVE  Obeys
  <1>0. TypeOK /\ TableInv /\ AcceptInv /\ (AcceptStep(c) \/ ReaderStep(c))
    BY SteadyFacts DEF AcceptStep, ReaderStep
  <1>1. UNCHANGED <<timeline, dirty_seq, generation, comp, gpu_wait, writes>>
    BY <1>0, ThreadMoves
  <1>2. Rests
    BY <1>0, ThreadRests
  <1>3. UsesNow' = UsesNow
    BY <1>1, <1>2, UsesRest
  <1>4. V2Mask' = V2Mask
    BY <1>0, AcceptShrinks, SameMask
  <1>5. queue' = queue
    BY DEF HsReply, HsFail, HsRefuse, HsReader, ReaderTake, ReaderPacing, server
  <1> QED
    BY <1>1, <1>3, <1>4, <1>5, SameWrites, AsVanish

\* A connection's thread takes it out of the table.
LEMMA LeaveObeys ==
  ASSUME Steady, NEW c \in Conns, HsReaderFails(c) \/ ReaderExit(c)
  PROVE  Obeys
  <1>0. TypeOK /\ TableInv /\ AcceptInv /\ (AcceptStep(c) \/ ReaderStep(c))
    BY SteadyFacts DEF AcceptStep, ReaderStep
  <1>1. UNCHANGED <<timeline, dirty_seq, generation, comp, gpu_wait, writes>>
    BY <1>0, ThreadMoves
  <1>2. UsesNow' = UsesNow
    BY <1>0, <1>1, ThreadRests, UsesRest
  <1> DEFINE gone == Lost(c) \cap V2Mask
  <1>3. V2Mask' = V2Mask \ Lost(c)
    BY <1>0, LeaveShrinks, ShrinkFacts
  <1>4. V2Mask' = V2Mask \ gone /\ gone \in SUBSET V2Mask
    BY <1>3
  <1>5. queue' = QueueDropClients(queue, Lost(c))
    BY <1>0, TypeParts, LeaveEffect
  <1>6. queue' = QueueDropClients(queue, gone)
    BY <1>0, <1>5, DropMasked
  <1> HIDE DEF gone
  <1> QED
    BY <1>1, <1>2, <1>4, <1>6, SameWrites, AsDrop

\* A handshake completes.
LEMMA AddMask ==
  ASSUME TypeOK, TableInv, NEW c \in Conns, HsAdd(c)
  PROVE  V2Mask' = V2Mask \cup (IF conns[c].caps = "v2" THEN {HsSlot} ELSE {})
  <1>0. /\ HsSlot \in ClientSlots /\ HsSlot \notin Active
        /\ clients'[HsSlot] = c /\ conns'[c].caps = conns[c].caps
        /\ \A b \in Conns : b # c => conns'[b] = conns[b]
        /\ \A s \in ClientSlots : s # HsSlot => clients'[s] = clients[s]
        /\ \A s \in Active : clients[s] # c
        /\ Active' = Active \cup {HsSlot}
    BY AddFacts
  <1>1. \A s : s \in V2Mask' <=> s \in Active' /\ conns'[clients'[s]].caps = "v2"
    BY DEF V2Mask
  <1>2. \A s : s \in V2Mask <=> s \in Active /\ conns[clients[s]].caps = "v2"
    BY DEF V2Mask
  <1>3. \A s \in Active : conns'[clients'[s]] = conns[clients[s]]
    BY <1>0, ActiveFacts
  <1> QED
    BY <1>0, <1>1, <1>2, <1>3

\* A step that is a handshake which lifts a quarantine too early, or obeys.
EarlyAdd == \E c \in overlaps' : HsAdd(c)

\* A client enters the table: the contract's Attach, if the quarantine is over.
LEMMA AddObeys ==
  ASSUME Steady, NEW c \in Conns, HsAdd(c)
  PROVE  Obeys \/ EarlyAdd
  <1>0. TypeOK /\ TableInv /\ AcceptInv /\ AcceptStep(c)
    BY SteadyFacts DEF AcceptStep
  <1>1. UNCHANGED <<timeline, dirty_seq, generation, comp, gpu_wait, writes>>
    BY <1>0, ThreadMoves
  <1>2. UsesNow' = UsesNow
    BY <1>0, <1>1, ThreadRests, UsesRest
  <1>3. Active = {} /\ ~QuarantineOver => EarlyAdd
    BY DEF HsAdd, EarlyAdd
  <1>4. /\ V2Mask' = V2Mask \cup (IF conns[c].caps = "v2" THEN {HsSlot} ELSE {})
        /\ HsSlot \in ClientSlots
    BY <1>0, AddMask, AddFacts
  <1>5. CASE Active = {}
    <2>1. V2Mask = {}
      BY <1>5 DEF V2Mask
    <2>2. queue' = QueueRecover(queue)
      BY <1>5 DEF HsAdd
    <2>3. V2Mask' \in {{}} \cup {{s} : s \in ClientSlots}
      BY <1>4, <2>1
    <2> QED
      BY <1>1, <1>2, <1>3, <1>5, <2>1, <2>2, <2>3, SameWrites, AsAttach
  <1>6. CASE Active # {}
    <2>1. conns[c].caps # "v2"
      BY <1>6 DEF HsAdd, HsExcluded
    <2>2. V2Mask' = V2Mask
      BY <1>4, <2>1
    <2>3. queue' = queue
      BY <1>6 DEF HsAdd
    <2> QED
      BY <1>1, <1>2, <2>2, <2>3, SameWrites, AsVanish
  <1> QED
    BY <1>5, <1>6

\* A RELEASED is applied: its frame's release signal has been committed.
LEMMA ReleasedObeys ==
  ASSUME Steady, NEW c \in Conns, ReaderReleased(c)
  PROVE  Obeys
  <1>0. TypeOK /\ TableInv /\ AcceptInv /\ OrderInv /\ FlowTyped /\ ReaderStep(c)
    BY SteadyFacts DEF ReaderStep
  <1>1. UNCHANGED <<timeline, dirty_seq, generation, comp, gpu_wait, writes>>
    BY <1>0, ThreadMoves
  <1>2. UsesNow' = UsesNow
    BY <1>0, <1>1, ThreadRests, UsesRest
  <1>3. V2Mask' = V2Mask
    BY <1>0, AcceptShrinks, SameMask
  <1> DEFINE m == conns[c].checked
             s == conns[c].slot
  <1>4. CASE queue' = queue
    BY <1>1, <1>2, <1>3, <1>4, SameWrites, AsVanish
  <1>5. CASE queue' # queue
    <2>1. m.surf \in Outputs /\ queue' = QueueRelease(queue, m.surf, s, m.seq) /\ m.type = "released"
      BY <1>5 DEF ReaderReleased
    <2>2. QueueReleasable(queue, m.surf, s, m.seq)
      BY <1>5, <2>1 DEF QueueRelease
    <2>3. s \in V2Mask /\ s \in ClientSlots
      <3>1. s \in queue.slots[m.surf].pending
        BY <2>2 DEF QueueReleasable
      <3>2. s \in V2Mask
        BY <1>0, <2>1, <3>1 DEF TableInv, PendingOwnedByLive
      <3> QED
        BY <3>2 DEF V2Mask, Active
    <2>4. m.seq \in Seqs
      <3>1. m \in Replies \cup {NoRecord}
        BY <1>0, TypeParts DEF ConnTypes, ConnRecords
      <3>2. m # NoRecord
        BY <2>1 DEF NoRecord
      <3> QED
        BY <2>1, <3>1, <3>2, RecordFacts
    <2>5. m.seq \in Answered
      BY <2>1, <2>4 DEF Answered, Echoes, Names
    <2>6. Older(m.seq)
      BY <1>0, <2>5 DEF OrderInv
    <2>7. m.seq \in 1..dirty_seq
      BY <1>0, <2>4, <2>6, Basics DEF Older, Behind, Seqs, FlowTyped
    <2>8. ASSUME NEW u \in UsesNow, u.seq = m.seq PROVE u.stage = "releasing"
      <3>1. CASE u \in UnreadNow
        <4>1. PICK i \in DOMAIN Out : Out[i].type = "dirty" /\ u.seq = Out[i].seq
          BY <3>1, UnreadMembers DEF UnreadNow
        <4> QED
          BY <1>0, <2>6, <2>7, <2>8, <4>1 DEF Older, Behind, FlowTyped
      <3>2. CASE u \in ShownNow
        <4>1. Cur /\ u.seq = app.seq
          BY <3>2, ShownMembers DEF ShownNow, Cur
        <4> QED
          BY <1>0, <2>6, <2>7, <2>8, <4>1 DEF Older, Behind, FlowTyped
      <3>3. CASE u \in LeavingNow
        BY <3>3, LeavingMembers DEF LeavingNow
      <3> QED
        BY <3>1, <3>2, <3>3, SteadyFacts
    <2> HIDE DEF m, s
    <2> QED
      BY <1>1, <1>2, <1>3, <2>1, <2>2, <2>3, <2>7, <2>8, SameWrites, AsRelease
  <1> QED
    BY <1>4, <1>5

\* The app's steps.
LEMMA AppObeys ==
  ASSUME Steady, AppStep
  PROVE  Obeys
  <1>0. TypeOK /\ TableInv /\ LinkInv
    BY SteadyFacts
  <1>1. UNCHANGED <<server, compside, timeline>>
    BY AppCases DEF Connects, AppConnect, AppOrphanClose, AppAdopt, AppDirty, AppSurface,
       AppSurfaceDrop, AppBeginClose, AppFinishClose, AppPresent, AppAbandon, AppPacing, AppCrash
  <1>2. UNCHANGED <<generation, queue, dirty_seq, comp, gpu_wait, writes, timeline>>
    BY <1>1 DEF server, compside
  <1>3. V2Mask' = V2Mask
    BY <1>0, AppShrinks, SameMask
  <1>4. WritesNow' = WritesNow
    BY <1>2, SameWrites
  <1>5. UsesNow' \subseteq UsesNow \/ Advances("sent", "held") \/ Advances("held", "releasing")
    <2>1. CASE Connects \/ AppAbandon \/ AppFinishClose \/ AppCrash
      BY <1>0, <1>2, <2>1, AppQuits, UsesQuit DEF Connects
    <2>2. CASE AppAdopt \/ AppPacing \/ \E c \in Conns : AppOrphanClose(c)
      BY <1>0, <1>2, <2>2, AppRests, UsesRest
    <2>3. CASE AppSurface \/ AppSurfaceDrop
      BY <1>0, <1>2, <2>3, AppReads, UsesRest
    <2>4. CASE AppDirty
      BY <1>0, <1>2, <2>4, AppReads, UsesRead
    <2>5. CASE AppPresent
      BY <1>0, <1>2, <2>5, AppPresents, UsesPresent
    <2>6. CASE AppBeginClose
      BY <1>0, <1>2, <2>6, AppCloses, UsesClose
    <2> QED
      BY <2>1, <2>2, <2>3, <2>4, <2>5, <2>6, AppCases
  <1> QED
    BY <1>2, <1>3, <1>4, <1>5, AsVanish, AsAdvance

\* A repaint step leaves the client table alone.
LEMMA TableUnchanged ==
  ASSUME TypeOK, TableInv, UNCHANGED <<clients, conns>>
  PROVE  V2Mask' = V2Mask
  BY DEF V2Mask, Active

\* The fields of the repaint in progress.
LEMMA CompFields ==
  ASSUME TypeOK
  PROVE  /\ \A i : comp' = [comp EXCEPT !.target = i] => comp'.target = i /\ comp'.drawn = comp.drawn
         /\ \A d : comp' = [comp EXCEPT !.direct = d] => comp'.target = comp.target /\ comp'.drawn = comp.drawn
         /\ \A x : comp' = [comp EXCEPT !.drawn = x] => comp'.target = comp.target /\ comp'.drawn = x
         /\ \A i, x : comp' = [comp EXCEPT !.target = i, !.drawn = x] => comp'.target = i /\ comp'.drawn = x
  <1>1. comp \in [target : Outputs \cup {NoSlot}, drawn : BOOLEAN, direct : Dyn \cup {Nothing}]
    BY TypeParts DEF CompTypes
  <1> QED
    BY <1>1

\* Acquiring, giving back and drawing a buffer, and looking for a direct one.
LEMMA RepaintObeys ==
  ASSUME Steady,
         \/ \E i \in Outputs : CompAcquire(i)
         \/ CompCancel \/ CompDraw
         \/ \E d \in Dyn : CompDirectCheck(d)
  PROVE  Obeys
  <1>0. TypeOK /\ TableInv /\ CompTypes
    BY SteadyFacts, TypeParts
  <1>1. UNCHANGED <<clients, conns, generation, dirty_seq, timeline>>
    BY DEF CompAcquire, CompCancel, CompDraw, CompDirectCheck, server
  <1>2. UsesNow' = UsesNow
    BY <1>0, <1>1, CompRests, UsesRest
  <1>3. V2Mask' = V2Mask
    BY <1>0, <1>1, TableUnchanged
  <1>4. ASSUME NEW i \in Outputs, CompAcquire(i) PROVE Obeys
    <2>1. /\ comp.target = NoSlot /\ QueueOffers(queue, V2Mask # {}, i)
          /\ queue' = QueueAcquire(queue, V2Mask # {}, i)
          /\ gpu_wait' = Larger(gpu_wait, queue.slots[i].wait)
          /\ comp' = [comp EXCEPT !.target = i] /\ writes' = writes
      BY <1>4 DEF CompAcquire, CompIdle
    <2>2. comp'.target = i /\ comp'.drawn = comp.drawn
      BY <1>0, <2>1, CompFields
    <2> QED
      BY <1>1, <1>2, <1>3, <2>1, <2>2, SameWrites, AsAcquire
  <1>5. CASE CompCancel
    <2>1. /\ comp.target # NoSlot /\ ~comp.drawn /\ queue' = QueueCancel(queue, comp.target)
          /\ comp' = [comp EXCEPT !.target = NoSlot] /\ writes' = writes /\ gpu_wait' = gpu_wait
      BY <1>5 DEF CompCancel
    <2>2. comp'.target = NoSlot /\ comp'.drawn = comp.drawn
      BY <1>0, <2>1, CompFields
    <2> QED
      BY <1>1, <1>2, <1>3, <2>1, <2>2, SameWrites, AsCancel
  <1>6. CASE CompDraw
    <2> DEFINE new == [slot |-> comp.target, gen |-> generation, seq |-> dirty_seq + 1, wait |-> gpu_wait]
               View(w) == [slot |-> IF w.gen = generation THEN w.slot ELSE -1, seq |-> w.seq, wait |-> w.wait]
    <2>1. /\ comp.target # NoSlot /\ ~comp.drawn /\ queue' = queue
          /\ comp' = [comp EXCEPT !.drawn = TRUE] /\ gpu_wait' = gpu_wait
          /\ writes' = writes \cup {new}
      BY <1>6 DEF CompDraw, server
    <2>2. comp'.target = comp.target /\ comp'.drawn = TRUE
      BY <1>0, <2>1, CompFields
    <2>3. dirty_seq < MaxSeq
      BY <1>0, <2>1 DEF CompTypes, CompIdle
    <2>4. WritesNow' = {View(w) : w \in writes'} /\ WritesNow = {View(w) : w \in writes}
      BY <1>1 DEF WritesNow
    <2>5. View(new) = [slot |-> comp.target, seq |-> dirty_seq + 1, wait |-> gpu_wait]
      OBVIOUS
    <2> HIDE DEF new, View
    <2>6. WritesNow' = WritesNow \cup {[slot |-> comp.target, seq |-> dirty_seq + 1, wait |-> gpu_wait]}
      BY <2>1, <2>4, <2>5
    <2> QED
      BY <1>1, <1>2, <1>3, <2>1, <2>2, <2>3, <2>6, AsDraw
  <1>7. ASSUME NEW d \in Dyn, CompDirectCheck(d) PROVE Obeys
    <2>1. /\ comp' = [comp EXCEPT !.direct = d] /\ queue' = queue /\ gpu_wait' = gpu_wait /\ writes' = writes
      BY <1>7 DEF CompDirectCheck
    <2>2. comp'.target = comp.target /\ comp'.drawn = comp.drawn
      BY <1>0, <2>1, CompFields
    <2> QED
      BY <1>1, <1>2, <1>3, <2>1, <2>2, SameWrites, AsVanish
  <1> QED
    BY <1>4, <1>5, <1>6, <1>7

\* The effect of a broadcast on the stream-v2 clients.
LEMMA BroadcastMask ==
  ASSUME TypeOK, TableInv, NEW ok, NEW lost, NEW recs, Broadcasts(ok, lost, recs)
  PROVE  /\ V2Mask' = V2Mask \ (lost \cap V2Mask) /\ generation' = generation /\ timeline' = timeline
  <1>1. V2Mask' = V2Mask \ lost
    BY BroadcastShrinks, ShrinkFacts
  <1> QED
    BY <1>1 DEF Broadcasts

\* Publishing a frame in an output,
LEMMA PublishObeys ==
  ASSUME Steady, NEW ok \in SUBSET Active, NEW lost \in SUBSET Active, CompPublish(ok, lost)
  PROVE  Obeys
  <1>0. TypeOK /\ TableInv
    BY SteadyFacts
  <1>1. comp.target \in Outputs /\ Broadcasts(ok, lost, <<DirtyRecord(comp.target)>>)
    BY <1>0, BroadcastEffect
  <1>2. V2Mask' = V2Mask \ (lost \cap V2Mask) /\ generation' = generation /\ timeline' = timeline
    BY <1>0, <1>1, BroadcastMask
  <1>3. /\ comp.target # NoSlot /\ comp.drawn /\ ok \cap lost = {} /\ dirty_seq' = dirty_seq + 1
        /\ queue' = QueuePublish(QueueDropClients(queue, lost), comp.target, ok \cap V2Mask, dirty_seq + 1)
        /\ comp' = [comp EXCEPT !.target = NoSlot, !.drawn = FALSE]
        /\ gpu_wait' = gpu_wait /\ writes' = writes
    BY DEF CompPublish, SendOutcome
  <1>4. comp'.target = NoSlot /\ comp'.drawn = FALSE
    BY <1>0, <1>3, CompFields
  <1>5. PICK recs : Sends(recs, comp.target, ok \cap V2Mask)
    BY <1>0, CompSends
  <1>6. PICK read : /\ UsesNow' = UsesNow \cup read
                    /\ read \subseteq (IF ok \cap V2Mask = {} THEN {}
                          ELSE {FrameUse(comp.target, generation, generation, dirty_seq + 1, "sent")})
    BY <1>2, <1>5, UsesSend
  <1>7. FrameUse(comp.target, generation, generation, dirty_seq + 1, "sent")
          = [slot |-> comp.target, seq |-> dirty_seq + 1, stage |-> "sent"]
    BY <1>1 DEF FrameUse
  <1>8. queue' = QueuePublish(QueueDropClients(queue, lost \cap V2Mask), comp.target, ok \cap V2Mask, dirty_seq + 1)
    BY <1>0, <1>3, DropMasked
  <1>9. /\ ok \cap V2Mask \in SUBSET V2Mask /\ lost \cap V2Mask \in SUBSET V2Mask
        /\ (ok \cap V2Mask) \cap (lost \cap V2Mask) = {}
    BY <1>3
  <1>10. WritesNow' = WritesNow
    BY <1>2, <1>3, SameWrites
  <1>11. comp.drawn /\ comp.target # NoSlot /\ UNCHANGED <<gpu_wait, timeline>>
    BY <1>2, <1>3
  <1> QED
    BY <1>2, <1>3, <1>4, <1>6, <1>7, <1>8, <1>9, <1>10, <1>11, AsPublish

\* or in a client's buffer.
LEMMA DirectObeys ==
  ASSUME Steady, NEW ok \in SUBSET Active, NEW lost \in SUBSET Active, CompPublishDirect(ok, lost)
  PROVE  Obeys
  <1>0. TypeOK /\ TableInv /\ CompTypes
    BY SteadyFacts, TypeParts
  <1>1. comp.direct \in Dyn /\ Broadcasts(V2Mask \ lost, lost, DirectRecords(comp.direct, ok))
    BY <1>0, BroadcastEffect
  <1>2. V2Mask' = V2Mask \ (lost \cap V2Mask) /\ generation' = generation /\ timeline' = timeline
    BY <1>0, <1>1, BroadcastMask
  <1>3. /\ ok \subseteq V2Mask /\ lost \subseteq V2Mask /\ ok \cap lost = {} /\ dirty_seq' = dirty_seq + 1
        /\ queue' = QueueDropClients(queue, lost) /\ comp.direct # Nothing
        /\ comp' = [comp EXCEPT !.direct = Nothing]
        /\ gpu_wait' = gpu_wait /\ writes' = writes
    BY DEF CompPublishDirect, SendOutcome
  <1>4. comp'.target = comp.target /\ comp'.drawn = comp.drawn
    BY <1>0, <1>3, CompFields
  <1>5. comp.target = NoSlot /\ dirty_seq < MaxSeq
    BY <1>0, <1>3 DEF CompTypes, CompIdle
  <1>6. PICK recs : Sends(recs, comp.direct, ok)
    BY <1>0, CompSends
  <1>7. PICK read : /\ UsesNow' = UsesNow \cup read
                    /\ read \subseteq (IF ok = {} THEN {}
                          ELSE {FrameUse(comp.direct, generation, generation, dirty_seq + 1, "sent")})
    BY <1>2, <1>6, UsesSend
  <1>8. FrameUse(comp.direct, generation, generation, dirty_seq + 1, "sent")
          = [slot |-> -1, seq |-> dirty_seq + 1, stage |-> "sent"]
    BY <1>1, Basics DEF FrameUse
  <1>9. V2Mask' = V2Mask \ lost /\ UNCHANGED <<gpu_wait, timeline>>
    BY <1>2, <1>3
  <1>10. WritesNow' = WritesNow
    BY <1>2, <1>3, SameWrites
  <1> QED
    BY <1>3, <1>4, <1>5, <1>7, <1>8, <1>9, <1>10, AsPublishElsewhere

\* Records that are no frames, and the clients that could not take them.
LEMMA NoticeObeys ==
  ASSUME Steady, NEW ok \in SUBSET Active, NEW lost \in SUBSET Active,
         (\E d \in Dyn : CompUnregister(d, ok, lost)) \/ CompCursor(lost)
  PROVE  Obeys
  <1>0. TypeOK /\ TableInv
    BY SteadyFacts
  <1>1. \E to, recs : Broadcasts(to, lost, recs)
    BY <1>0, BroadcastEffect
  <1>2. V2Mask' = V2Mask \ (lost \cap V2Mask) /\ generation' = generation /\ timeline' = timeline
    BY <1>0, <1>1, BroadcastMask
  <1>3. queue' = QueueDropClients(queue, lost) /\ comp' = comp /\ gpu_wait' = gpu_wait /\ writes' = writes
    BY DEF CompUnregister, CompCursor, compside
  <1>4. PICK recs : Sends(recs, 0, {}) /\ UNCHANGED dirty_seq
    BY <1>0, CompSends
  <1>5. PICK read : UsesNow' = UsesNow \cup read /\ (dirty_seq' = dirty_seq => read = {})
    BY <1>2, <1>4, UsesSend
  <1>6. UsesNow' = UsesNow
    BY <1>4, <1>5
  <1>7. queue' = QueueDropClients(queue, lost \cap V2Mask)
    BY <1>0, <1>3, DropMasked
  <1>8. WritesNow' = WritesNow
    BY <1>2, <1>3, SameWrites
  <1>9. lost \cap V2Mask \in SUBSET V2Mask /\ UNCHANGED <<dirty_seq, gpu_wait, timeline>>
    BY <1>2, <1>3, <1>4
  <1> QED
    BY <1>2, <1>3, <1>6, <1>7, <1>8, <1>9, AsDrop

\* The outputs are replaced: nothing under way is in the new ones.
LEMMA ResizeObeys ==
  ASSUME Steady, CompResize
  PROVE  Obeys
  <1>0. /\ TypeOK /\ TableInv /\ GenInv /\ FlowTyped
        /\ UsesNow = UnreadNow \cup ShownNow \cup LeavingNow
        /\ UsesNow' = UnreadNow' \cup ShownNow' \cup LeavingNow'
    BY SteadyFacts
  <1>1. /\ comp.target = NoSlot /\ generation' = generation + 1 /\ queue' = QueueReset(Count)
        /\ clients' = ClientsWithout(ClientSlots) /\ conns' = CloseConns(conns, Active)
        /\ app' = app /\ app_gpu' = app_gpu
        /\ UNCHANGED <<dirty_seq, timeline, comp, gpu_wait, writes>>
    BY DEF CompResize, CompIdle, appside, compside
  <1>2. V2Mask' = {}
    BY <1>1, WithoutFacts DEF V2Mask, Active
  <1>3. Out' = Out /\ Caps' = Caps /\ Gen' = Gen
    <2>1. \A c \in Conns : /\ conns'[c].out = conns[c].out /\ conns'[c].caps = conns[c].caps
                           /\ conns'[c].gen = conns[c].gen
      BY <1>0, <1>1, CloseFacts DEF Keeps
    <2> QED
      BY <1>0, <1>1, <2>1, SameConn
  <1>4. generation \in Nat /\ Gen \in Nat /\ Gen <= generation
    <2>1. CASE app.conn = NoConn
      BY <1>0, <2>1 DEF Gen, FlowTyped
    <2>2. CASE app.conn # NoConn
      BY <1>0, <2>2, Basics, TypeParts DEF Gen, GenInv, FlowTyped, ConnTypes, ConnRecords, Generations
    <2> QED
      BY <2>1, <2>2
  <1> DEFINE Away(u) == [u EXCEPT !.slot = -1]
  <1>5. ASSUME NEW surf, NEW gen \in Nat, gen <= generation, NEW seq, NEW stage
        PROVE  FrameUse(surf, gen, generation', seq, stage) = Away(FrameUse(surf, gen, generation, seq, stage))
    <2>1. gen # generation'
      BY <1>1, <1>4, <1>5
    <2> QED
      BY <2>1 DEF FrameUse
  <1>6. UnreadNow' = {Away(u) : u \in UnreadNow}
    <2> HIDE DEF Away
    <2>1. \A surf, seq : FrameUse(surf, Gen, generation', seq, "sent")
                           = Away(FrameUse(surf, Gen, generation, seq, "sent"))
      BY <1>4, <1>5
    <2>2. UnreadNow' = {FrameUse(Out[i].surf, Gen, generation', Out[i].seq, "sent") :
                           i \in {k \in DOMAIN Out : Caps = "v2" /\ Out[k].type = "dirty"}}
      BY <1>3 DEF UnreadNow, Unread
    <2>3. UnreadNow = {FrameUse(Out[i].surf, Gen, generation, Out[i].seq, "sent") :
                           i \in {k \in DOMAIN Out : Caps = "v2" /\ Out[k].type = "dirty"}}
      BY DEF UnreadNow, Unread
    <2> QED
      BY <2>1, <2>2, <2>3
  <1>7. ShownNow' = {Away(u) : u \in ShownNow}
    <2> HIDE DEF Away
    <2> DEFINE st == IF app.held THEN "held" ELSE "sent"
    <2>1. FrameUse(app.surf, Gen, generation', app.seq, st) = Away(FrameUse(app.surf, Gen, generation, app.seq, st))
      BY <1>4, <1>5
    <2>2. ShownNow' = IF Cur /\ Caps = "v2" THEN {FrameUse(app.surf, Gen, generation', app.seq, st)} ELSE {}
      BY <1>1, <1>3 DEF ShownNow, Shown, Cur
    <2>3. ShownNow = IF Cur /\ Caps = "v2" THEN {FrameUse(app.surf, Gen, generation, app.seq, st)} ELSE {}
      BY DEF ShownNow, Shown, Cur
    <2> QED
      BY <2>1, <2>2, <2>3
  <1>8. LeavingNow' = {Away(u) : u \in LeavingNow}
    <2> HIDE DEF Away
    <2>1. \A i \in DOMAIN app_gpu : app_gpu[i].gen \in Nat /\ app_gpu[i].gen <= generation
      BY <1>0 DEF GenInv, FlowTyped
    <2>2. \A i \in DOMAIN app_gpu :
             FrameUse(app_gpu[i].surf, app_gpu[i].gen, generation', app_gpu[i].seq, "releasing")
               = Away(FrameUse(app_gpu[i].surf, app_gpu[i].gen, generation, app_gpu[i].seq, "releasing"))
      BY <1>5, <2>1
    <2>3. LeavingNow' = {FrameUse(app_gpu[i].surf, app_gpu[i].gen, generation', app_gpu[i].seq, "releasing") :
                           i \in {k \in DOMAIN app_gpu : app_gpu[k].op = "signal"}}
      BY <1>1 DEF LeavingNow, Leaving
    <2>4. LeavingNow = {FrameUse(app_gpu[i].surf, app_gpu[i].gen, generation, app_gpu[i].seq, "releasing") :
                           i \in {k \in DOMAIN app_gpu : app_gpu[k].op = "signal"}}
      BY DEF LeavingNow, Leaving
    <2> QED
      BY <2>2, <2>3, <2>4
  <1>9. UsesNow' = {Away(u) : u \in UsesNow}
    <2> HIDE DEF Away
    <2> QED
      BY <1>0, <1>6, <1>7, <1>8
  <1> DEFINE Was(w) == [slot |-> IF w.gen = generation THEN w.slot ELSE -1, seq |-> w.seq, wait |-> w.wait]
             Is(w) == [slot |-> IF w.gen = generation' THEN w.slot ELSE -1, seq |-> w.seq, wait |-> w.wait]
  <1>10. \A w \in writes : Is(w) = Away(Was(w))
    <2> SUFFICES ASSUME NEW w \in writes PROVE Is(w) = Away(Was(w))
      OBVIOUS
    <2>1. w.gen # generation'
      BY <1>0, <1>1, <1>4 DEF GenInv, FlowTyped
    <2> QED
      BY <2>1
  <1>11. WritesNow' = {Away(w) : w \in WritesNow}
    <2>1. WritesNow' = {Is(w) : w \in writes} /\ WritesNow = {Was(w) : w \in writes}
      BY <1>1 DEF WritesNow
    <2> HIDE DEF Away, Is, Was
    <2> QED
      BY <1>10, <2>1
  <1> QED
    BY <1>1, <1>2, <1>9, <1>11, AsResize

\* The GPUs.
LEMMA GpuObeys ==
  ASSUME Steady, GpuStep
  PROVE  Obeys
  <1>0. /\ TypeOK /\ TableInv /\ FlowTyped /\ FenceInv /\ DrawInv /\ OrderInv
    BY SteadyFacts
  <1>1. UNCHANGED <<queue, dirty_seq, generation, comp, gpu_wait, clients, conns>>
    BY DEF GpuStep, AppGpuSample, AppGpuSignal, CompGpuWrite, server, compside
  <1>2. V2Mask' = V2Mask
    BY <1>0, <1>1, TableUnchanged
  <1>3. CASE AppGpuSample
    <2>1. Runs /\ Head(app_gpu).op # "signal" /\ writes' = writes /\ timeline' = timeline
      BY <1>0, <1>3, GpuRuns DEF AppGpuSample, compside
    <2>2. UsesNow' = UsesNow
      BY <1>1, <2>1, UsesRun
    <2> QED
      BY <1>1, <1>2, <2>1, <2>2, SameWrites, AsVanish
  <1>4. CASE AppGpuSignal
    <2> DEFINE h == Head(app_gpu)
    <2>1. Runs /\ h.op = "signal" /\ writes' = writes /\ timeline' = h.seq /\ app_gpu # <<>>
      BY <1>0, <1>4, GpuRuns DEF AppGpuSignal, compside
    <2>2. PICK u \in UsesNow : /\ u = FrameUse(h.surf, h.gen, generation, h.seq, "releasing")
                               /\ UsesNow' = UsesNow \ {u}
                               /\ \A v \in UsesNow : u.seq <= v.seq
      BY <1>1, <2>1, UsesRun
    <2>3. u.stage = "releasing" /\ u.seq = h.seq
      BY <2>2, Restaged
    <2>4. u.slot \in Outputs => h.surf \in Outputs
      BY <2>2, Basics DEF FrameUse
    <2>5. 1 \in DOMAIN app_gpu /\ h = app_gpu[1]
      BY <1>0, <2>1, TailFacts DEF FlowTyped
    <2>6. h.surf \in Outputs => Passed(h.seq, writes)
      <3>1. \A i \in DOMAIN app_gpu : ~(i < 1)
        BY <1>0 DEF FlowTyped
      <3>2. \A s, n : ~SampledBefore(app_gpu, s, n, 1)
        BY <3>1 DEF SampledBefore
      <3> QED
        BY <1>0, <2>1, <2>5, <3>2 DEF FenceInv
    <2>7. u.slot \in Outputs => \A w \in WritesNow : w.seq > u.seq
      <3> SUFFICES ASSUME u.slot \in Outputs, NEW w \in WritesNow PROVE w.seq > u.seq
        OBVIOUS
      <3>1. PICK x \in writes : w.seq = x.seq
        BY DEF WritesNow
      <3>2. h.seq < x.seq /\ x.seq \in Nat /\ h.seq \in Nat
        BY <1>0, <2>4, <2>5, <2>6 DEF Passed, FlowTyped
      <3> QED
        BY <2>3, <3>1, <3>2
    <2> HIDE DEF h
    <2>8. timeline' = u.seq /\ WritesNow' = WritesNow
      BY <1>1, <2>1, <2>3, SameWrites
    <2> QED
      BY <1>1, <1>2, <2>2, <2>3, <2>7, <2>8, AsSignal
  <1>5. CASE CompGpuWrite
    <2> DEFINE View(w) == [slot |-> IF w.gen = generation THEN w.slot ELSE -1, seq |-> w.seq, wait |-> w.wait]
    <2>1. PICK w \in writes : /\ timeline >= w.wait /\ \A v \in writes : w.seq <= v.seq
                              /\ writes' = writes \ {w} /\ timeline' = timeline
      BY <1>5 DEF CompGpuWrite
    <2>2. UsesNow' = UsesNow
      BY <1>0, <1>1, <1>5, CompRests, UsesRest
    <2>3. WritesNow = {View(v) : v \in writes} /\ WritesNow' = {View(v) : v \in writes'}
      BY <1>1 DEF WritesNow
    <2>4. \A v \in writes : View(v).seq = v.seq /\ View(v).wait = v.wait
      OBVIOUS
    <2>5. \A v \in writes : v.seq = w.seq => v = w
      BY <1>0 DEF DrawInv
    <2> HIDE DEF View
    <2>6. WritesNow' = WritesNow \ {View(w)}
      BY <2>1, <2>3, <2>4, <2>5
    <2>7. View(w) \in WritesNow /\ timeline >= View(w).wait /\ \A v \in WritesNow : View(w).seq <= v.seq
      BY <2>1, <2>3, <2>4
    <2> QED
      BY <1>1, <1>2, <2>1, <2>2, <2>6, <2>7, AsWriteDone
  <1> QED
    BY <1>3, <1>4, <1>5 DEF GpuStep

\* Every step.
LEMMA StepObeys ==
  ASSUME Sound, [Next]_vars
  PROVE  Obeys \/ EarlyAdd
  <1>0. TypeOK' /\ TableInv' /\ LinkInv'
    BY TypeStep, TableStep, LinkStep DEF Sound
  <1>1. FlowInv'
    BY <1>0, FlowStep DEF Sound
  <1>2. Steady
    BY <1>0, <1>1 DEF Steady
  <1>3. ASSUME NEW c \in Conns, AcceptStep(c) \/ ReaderStep(c) PROVE Obeys \/ EarlyAdd
    BY <1>2, <1>3, ThreadObeys, LeaveObeys, AddObeys, ReleasedObeys DEF AcceptStep, ReaderStep
  <1>4. CASE AppStep
    BY <1>2, <1>4, AppObeys
  <1>5. CASE CompStep
    <2>1. \A ok \in SUBSET Active, lost \in SUBSET Active :
             CompPublish(ok, lost) \/ CompPublishDirect(ok, lost) => Obeys
      BY <1>2, PublishObeys, DirectObeys
    <2>2. \A ok \in SUBSET Active, lost \in SUBSET Active :
             (\E d \in Dyn : CompUnregister(d, ok, lost)) \/ CompCursor(lost) => Obeys
      BY <1>2, NoticeObeys
    <2>3. Active \in SUBSET Active
      OBVIOUS
    <2> QED
      BY <1>2, <1>5, <2>1, <2>2, <2>3, RepaintObeys, ResizeObeys DEF CompStep
  <1>6. CASE GpuStep
    BY <1>2, <1>6, GpuObeys
  <1>7. CASE UNCHANGED vars
    <2>1. UNCHANGED <<clients, conns, queue, dirty_seq, generation, comp, gpu_wait, writes, timeline, app, app_gpu>>
      BY <1>7 DEF vars, server, appside, compside
    <2>2. V2Mask' = V2Mask
      BY <2>1, TableUnchanged DEF Sound
    <2>3. UsesNow' = UsesNow
      BY <2>1 DEF UsesNow, UnreadUses, CurrentUses, ReleasingUses, Use
    <2> QED
      BY <2>1, <2>2, <2>3, SameWrites, AsVanish
  <1> QED
    BY <1>3, <1>4, <1>5, <1>6, <1>7 DEF Next

\* At the start nothing is in use.
LEMMA StartObeys == Init => Contract!Init
  <1> SUFFICES ASSUME Init PROVE Contract!Init
    OBVIOUS
  <1>1. /\ queue = QueueReset(Count) /\ dirty_seq = 0 /\ gpu_wait = 0 /\ writes = {} /\ timeline = 0
        /\ comp = [target |-> NoSlot, drawn |-> FALSE, direct |-> Nothing]
        /\ clients = [s \in ClientSlots |-> NoConn] /\ app = NoApp /\ app_gpu = <<>>
    BY DEF Init
  <1>2. V2Mask = {}
    BY <1>1 DEF V2Mask, Active
  <1>3. WritesNow = {}
    BY <1>1 DEF WritesNow
  <1>4. UsesNow = {}
    <2>1. UsesNow = UnreadNow \cup ShownNow \cup LeavingNow
      BY TypeInit, DirectInit, FlowInit, UsesAre DEF UsesSplit
    <2>2. UnreadNow = {}
      BY <1>1, NoAppFacts, UnreadMembers DEF UnreadNow, Out
    <2>3. ShownNow = {}
      BY <1>1, NoAppFacts DEF ShownNow, Shown
    <2>4. LeavingNow = {}
      BY <1>1, LeavingMembers DEF LeavingNow
    <2> QED
      BY <2>1, <2>2, <2>3, <2>4
  <1>5. comp.target = NoSlot /\ comp.drawn = FALSE
    BY <1>1
  <1> QED
    BY <1>1, <1>2, <1>3, <1>4, <1>5, SameOperators, SameNames DEF Contract!Init

\* The two instances of the contract say the same.
LEMMA SameStart == Contract!Init <=> Ownership!Init
  BY DEF Contract!Init, Ownership!Init, Contract!QueueReset, Ownership!QueueReset,
         Contract!FreshSlot, Ownership!FreshSlot, Contract!NoSlot, Ownership!NoSlot

\* Their steps are the same too.
LEMMA SameSteps == Contract!Next <=> Ownership!Next
  <1>1. /\ \A i : Contract!Acquire(i) <=> Ownership!Acquire(i)
        /\ Contract!Cancel <=> Ownership!Cancel
        /\ Contract!Draw <=> Ownership!Draw
    BY DEF Contract!Acquire, Ownership!Acquire, Contract!Cancel, Ownership!Cancel, Contract!Draw,
           Ownership!Draw, Contract!NoSlot, Ownership!NoSlot, Contract!QueueOffers, Ownership!QueueOffers,
           Contract!ScanCount, Ownership!ScanCount, Contract!ScanSlot, Ownership!ScanSlot,
           Contract!SlotFree, Ownership!SlotFree, Contract!Larger, Ownership!Larger,
           Contract!QueueAcquire, Ownership!QueueAcquire, Contract!WithSlot, Ownership!WithSlot,
           Contract!TakenSlot, Ownership!TakenSlot, Contract!QueueCancel, Ownership!QueueCancel
  <1>2. \A q, lost : Contract!QueueDropClients(q, lost) = Ownership!QueueDropClients(q, lost)
    BY DEF Contract!QueueDropClients, Ownership!QueueDropClients, Contract!DroppedSlot, Ownership!DroppedSlot
  <1>3. \A q, i, p, n : Contract!QueuePublish(q, i, p, n) = Ownership!QueuePublish(q, i, p, n)
    BY DEF Contract!QueuePublish, Ownership!QueuePublish, Contract!WithSlot, Ownership!WithSlot
  <1>4. /\ \A k, n : Contract!NewUse(k, n) = Ownership!NewUse(k, n)
        /\ Contract!NoSlot = Ownership!NoSlot /\ Contract!Elsewhere = Ownership!Elsewhere
        /\ Contract!Slots = Ownership!Slots
    BY DEF Contract!NewUse, Ownership!NewUse, Contract!NoSlot, Ownership!NoSlot,
           Contract!Elsewhere, Ownership!Elsewhere, Contract!Slots, Ownership!Slots
  <1>5. \A ok, lost : /\ Contract!Publish(ok, lost) <=> Ownership!Publish(ok, lost)
                      /\ Contract!PublishElsewhere(ok, lost) <=> Ownership!PublishElsewhere(ok, lost)
    BY <1>2, <1>3, <1>4 DEF Contract!Publish, Ownership!Publish, Contract!PublishElsewhere, Ownership!PublishElsewhere
  <1>6. Contract!Resize <=> Ownership!Resize
    BY <1>4 DEF Contract!Resize, Ownership!Resize, Contract!QueueReset, Ownership!QueueReset,
           Contract!FreshSlot, Ownership!FreshSlot
  <1>7. \A v2 : Contract!Attach(v2) <=> Ownership!Attach(v2)
    BY <1>4 DEF Contract!Attach, Ownership!Attach, Contract!HandshakeProof, Ownership!HandshakeProof,
           Contract!QueueRecover, Ownership!QueueRecover
  <1>8. \A lost : Contract!Drop(lost) <=> Ownership!Drop(lost)
    BY <1>2 DEF Contract!Drop, Ownership!Drop
  <1>9. \A c, i, n : Contract!Release(c, i, n) <=> Ownership!Release(c, i, n)
    BY DEF Contract!Release, Ownership!Release, Contract!QueueReleasable, Ownership!QueueReleasable,
           Contract!QueueRelease, Ownership!QueueRelease, Contract!WithSlot, Ownership!WithSlot,
           Contract!ReleasedSlot, Ownership!ReleasedSlot, Contract!Larger, Ownership!Larger
  <1>10. \A u : /\ Contract!Advance(u) <=> Ownership!Advance(u)
                /\ Contract!Vanish(u) <=> Ownership!Vanish(u)
    BY DEF Contract!Advance, Ownership!Advance, Contract!Vanish, Ownership!Vanish
  <1>11. \A u : /\ Contract!Signal(u) <=> Ownership!Signal(u)
                /\ Contract!WriteDone(u) <=> Ownership!WriteDone(u)
    BY <1>4 DEF Contract!Signal, Ownership!Signal, Contract!FenceFired, Ownership!FenceFired,
           Contract!WriteDone, Ownership!WriteDone, Contract!Executing, Ownership!Executing
  <1> QED
    BY <1>1, <1>4, <1>5, <1>6, <1>7, <1>8, <1>9, <1>10, <1>11 DEF Contract!Next, Ownership!Next

\* Through races of threads, sockets and reconnects, every step of the two
\* processes is one the ownership contract allows, but for the handshakes that
\* lift a quarantine too early.
THEOREM StreamObeysContract == Spec => OwnershipContract
  <1>1. Init => Ownership!Init
    BY StartObeys, SameStart
  <1>2. Sound /\ [Next]_vars => [Ownership!Next \/ \E c \in overlaps' : HsAdd(c)]_(Ownership!vars)
    <2> SUFFICES ASSUME Sound, [Next]_vars
                 PROVE  [Ownership!Next \/ \E c \in overlaps' : HsAdd(c)]_(Ownership!vars)
      OBVIOUS
    <2>1. Contract!Next \/ Contract!vars' = Contract!vars \/ EarlyAdd
      BY StepObeys DEF Obeys
    <2>2. Contract!vars' = Contract!vars => Ownership!vars' = Ownership!vars
      BY DEF Contract!vars, Ownership!vars
    <2> QED
      BY <2>1, <2>2, SameSteps DEF EarlyAdd
  <1>3. Spec => []Sound
    BY FlowAlways DEF Sound
  <1> QED
    BY <1>1, <1>2, <1>3, PTL DEF Spec, OwnershipContract

\* Until a handshake overlaps what is being read, the contract's invariants hold.
ContractInv == overlaps = {} => Contract!TypeOK /\ Contract!OwnershipInv

\* They hold at the start,
LEMMA ContractStart == Init => ContractInv
  <1>1. Contract!Init => Contract!TypeOK /\ Contract!OwnershipInv
    BY ContractAssumptions, Contract!TypeInit, Contract!InvInit
  <1> QED
    BY <1>1, StartObeys DEF ContractInv

\* and every step keeps them.
LEMMA ContractStep ==
  ASSUME Sound, ContractInv, [Next]_vars
  PROVE  ContractInv'
  <1> SUFFICES ASSUME overlaps' = {} PROVE (Contract!TypeOK /\ Contract!OwnershipInv)'
    BY DEF ContractInv
  <1>1. overlaps = {}
    BY HistoryGrows, TypeParts DEF Sound
  <1>2. Contract!TypeOK /\ Contract!OwnershipInv
    BY <1>1 DEF ContractInv
  <1>3. [Contract!Next]_(Contract!vars)
    BY StepObeys DEF Obeys, EarlyAdd
  <1> QED
    BY <1>2, <1>3, ContractAssumptions, Contract!TypeStep, Contract!InvStep

-----------------------------------------------------------------------------
(* No frame is drawn over while it is read.                                *)

\* Draw w is of no later frame than frame n, in surface s of generation g,
Spares(w, s, g, n) == s = w.slot /\ g = w.gen => w.seq <= n

\* and of no later frame than the one signal m releases, or waits for it.
Awaits(w, m) ==
    m.op = "signal" /\ m.surf = w.slot /\ m.gen = w.gen => w.seq <= m.seq \/ m.seq <= w.wait

\* So for every frame under way.
Harmless(w, out, caps, gen, cur, surf, seq, q) ==
    /\ caps = "v2" => \A i \in DOMAIN out : out[i].type = "dirty" => Spares(w, out[i].surf, gen, out[i].seq)
    /\ caps = "v2" /\ cur => Spares(w, surf, gen, seq)
    /\ \A i \in DOMAIN q : Awaits(w, q[i])
WholeInv == \A w \in writes : Harmless(w, Out, Caps, Gen, Cur, app.surf, app.seq, app_gpu)

\* A sample is of the frame the app holds, or before the signal that releases it.
Holds(held, surf, gen, seq, m) == held /\ m.surf = surf /\ m.gen = gen /\ m.seq = seq
Released(q, i) ==
    \E j \in DOMAIN q : /\ i < j /\ q[j].op = "signal" /\ q[j].surf = q[i].surf
                        /\ q[j].gen = q[i].gen /\ q[j].seq = q[i].seq
Tracked(held, surf, gen, seq, q) ==
    \A i \in DOMAIN q : q[i].op = "sample" => Holds(held, surf, gen, seq, q[i]) \/ Released(q, i)
SampleInv == Tracked(app.held, app.surf, Gen, app.seq, app_gpu)

\* A draw that was harmless stays so, however the frames move.
LEMMA StaysHarmless ==
  ASSUME TypeOK, OrderInv, Moves, NEW w, w.seq \in Nat, w.seq <= dirty_seq + 1,
         Harmless(w, Out, Caps, Gen, Cur, app.surf, app.seq, app_gpu)
  PROVE  Harmless(w, Out', Caps', Gen', Cur', app'.surf, app'.seq, app_gpu')
  <1>0. FlowTyped
    BY FlowTypes
  <1>1. /\ Caps = "v2" => \A i \in DOMAIN Out : Out[i].type = "dirty" => Spares(w, Out[i].surf, Gen, Out[i].seq)
        /\ Caps = "v2" /\ Cur => Spares(w, app.surf, Gen, app.seq)
        /\ \A i \in DOMAIN app_gpu : Awaits(w, app_gpu[i])
    BY DEF Harmless
  <1>2. ASSUME app_gpu' = SignalHeld PROVE \A i \in DOMAIN app_gpu' : Awaits(w, app_gpu'[i])
    <2>1. app.held => Caps = "v2" /\ Cur
      BY DEF OrderInv, Cur
    <2>2. app.held => Awaits(w, HeldSignal)
      BY <1>1, <2>1, SignalFacts DEF Awaits, Spares
    <2> QED
      BY <1>1, <1>2, <2>2, SignalPlaces
  <1>3. CASE Rests
    <2>1. Out' = Out /\ Caps' = Caps /\ app_gpu' = app_gpu /\ Cur' = Cur
          /\ app'.seq = app.seq /\ app'.surf = app.surf
      BY <1>3 DEF Rests, SameFrame, Cur
    <2>2. CASE Gen' = Gen
      BY <1>1, <2>1, <2>2 DEF Harmless
    <2>3. CASE Out = <<>> /\ ~Cur
      BY <1>1, <2>1, <2>3 DEF Harmless
    <2> QED
      BY <1>3, <2>2, <2>3 DEF Rests
  <1>4. ASSUME Out # <<>>, Out' = Tail(Out), Caps = "v2"
        PROVE  \A i \in DOMAIN Out' : Out'[i].type = "dirty" => Spares(w, Out'[i].surf, Gen, Out'[i].seq)
    BY <1>0, <1>1, <1>4, TailFacts DEF FlowTyped
  <1>5. CASE Skips
    <2>1. Out # <<>> /\ Out' = Tail(Out) /\ Caps' = Caps /\ Gen' = Gen /\ app_gpu' = app_gpu /\ Cur' = Cur
          /\ app'.seq = app.seq /\ app'.surf = app.surf
      BY <1>5 DEF Skips, SameFrame, Cur
    <2> QED
      BY <1>1, <1>4, <2>1 DEF Harmless
  <1>6. CASE Reads
    <2>1. Out # <<>> /\ Out' = Tail(Out) /\ Caps' = Caps /\ Gen' = Gen /\ app_gpu' = SignalHeld
          /\ app'.seq = Head(Out).seq /\ app'.surf = Head(Out).surf /\ Head(Out).type = "dirty"
      BY <1>6 DEF Reads
    <2>2. 1 \in DOMAIN Out /\ Head(Out) = Out[1]
      BY <1>0, <2>1, TailFacts DEF FlowTyped
    <2> QED
      BY <1>1, <1>2, <1>4, <2>1, <2>2 DEF Harmless
  <1>7. CASE Presents
    <2>1. Out' = Out /\ Caps' = Caps /\ Gen' = Gen /\ Cur /\ app'.seq = app.seq /\ app'.surf = app.surf
      BY <1>7 DEF Presents
    <2>2. \A i \in DOMAIN app_gpu' : Awaits(w, app_gpu'[i])
      <3> DEFINE m == [op |-> "sample", surf |-> app.surf, gen |-> Gen, seq |-> app.seq]
      <3>1. app_gpu' = app_gpu \/ app_gpu' = Append(app_gpu, m)
        BY <1>7 DEF Presents
      <3>2. m.op = "sample"
        OBVIOUS
      <3> HIDE DEF m
      <3>3. ASSUME app_gpu' = Append(app_gpu, m), NEW i \in DOMAIN app_gpu'
            PROVE  (i \in DOMAIN app_gpu /\ app_gpu'[i] = app_gpu[i]) \/ app_gpu'[i] = m
        BY <1>0, <3>3 DEF FlowTyped
      <3> QED
        BY <1>1, <3>1, <3>2, <3>3 DEF Awaits
    <2> QED
      BY <1>1, <2>1, <2>2 DEF Harmless
  <1>8. CASE Closes
    <2>1. Out' = Out /\ Caps' = Caps /\ Gen' = Gen /\ app_gpu' = SignalHeld /\ (Cur' => Cur)
          /\ app'.seq = app.seq /\ app'.surf = app.surf
      BY <1>8 DEF Closes, Cur
    <2> QED
      BY <1>1, <1>2, <2>1 DEF Harmless
  <1>9. CASE Quits
    <2>1. Out' = <<>> /\ ~Cur' /\ (app_gpu' = app_gpu \/ app_gpu' = <<>>)
      BY <1>9 DEF Quits, Cur
    <2> QED
      BY <1>1, <2>1 DEF Harmless
  <1>10. CASE Runs
    <2>1. Out' = Out /\ Caps' = Caps /\ Gen' = Gen /\ app_gpu # <<>> /\ app_gpu' = Tail(app_gpu) /\ Cur' = Cur
          /\ app'.seq = app.seq /\ app'.surf = app.surf
      BY <1>10 DEF Runs, SameFrame, Cur
    <2>2. \A i \in DOMAIN app_gpu' : Awaits(w, app_gpu'[i])
      BY <1>0, <1>1, <2>1, TailFacts DEF FlowTyped
    <2> QED
      BY <1>1, <2>1, <2>2 DEF Harmless
  <1>11. ASSUME NEW recs, NEW surf, NEW to, Sends(recs, surf, to)
         PROVE  Harmless(w, Out', Caps', Gen', Cur', app'.surf, app'.seq, app_gpu')
    <2>1. /\ recs \in Seq(Records) /\ Out' = Out \o recs /\ app' = app /\ Caps' = Caps /\ Gen' = Gen
          /\ app_gpu' = app_gpu /\ \A i \in DOMAIN recs : recs[i].type = "dirty" => recs[i].seq = dirty_seq + 1
      BY <1>11 DEF Sends
    <2>2. Cur' = Cur
      BY <2>1 DEF Cur
    <2>3. \A i \in DOMAIN recs : recs[i].type = "dirty" => Spares(w, recs[i].surf, Gen, recs[i].seq)
      BY <2>1 DEF Spares
    <2>4. \A i \in DOMAIN Out' : \/ i \in DOMAIN Out /\ Out'[i] = Out[i]
                                 \/ \E k \in DOMAIN recs : Out'[i] = recs[k]
      <3>1. Out \in Seq(Records)
        BY <1>0 DEF FlowTyped
      <3>2. /\ \A i \in DOMAIN Out : Out'[i] = Out[i]
            /\ \A k \in DOMAIN recs : Out'[Len(Out) + k] = recs[k]
            /\ \A i \in DOMAIN Out' : i \in DOMAIN Out \/ i - Len(Out) \in DOMAIN recs
            /\ Out' \in Seq(Records) /\ Len(Out) \in Nat
        BY <2>1, <3>1, ConcatFacts
      <3>3. \A i \in DOMAIN Out' : i \in Nat
        BY <3>2
      <3> QED
        BY <3>2, <3>3
    <2>5. Caps = "v2" => \A i \in DOMAIN Out' : Out'[i].type = "dirty" => Spares(w, Out'[i].surf, Gen, Out'[i].seq)
      BY <1>1, <2>3, <2>4
    <2> QED
      BY <1>1, <2>1, <2>2, <2>5 DEF Harmless
  <1> QED
    BY <1>3, <1>5, <1>6, <1>7, <1>8, <1>9, <1>10, <1>11 DEF Moves

\* A draw into a buffer just acquired is harmless: what the consumer has of the
\* buffer is released, and the draw waits for the release.
LEMMA DrawnHarmless ==
  ASSUME Sound, Contract!TypeOK, Contract!OwnershipInv, CompDraw, NEW w,
         w = [slot |-> comp.target, gen |-> generation, seq |-> dirty_seq + 1, wait |-> gpu_wait]
  PROVE  Harmless(w, Out', Caps', Gen', Cur', app'.surf, app'.seq, app_gpu')
  <1>0. FlowTyped /\ CompTypes /\ OrderInv /\ TypeOK /\ LinkInv /\ FlowInv
    BY FlowTypes, TypeParts DEF Sound, FlowInv
  <1>1. /\ w.slot = comp.target /\ w.gen = generation /\ w.seq = dirty_seq + 1 /\ w.wait = gpu_wait
        /\ comp.target \in Outputs /\ gpu_wait \in Nat
    BY <1>0 DEF CompDraw, CompTypes
  <1>2. UNCHANGED <<conns, app, app_gpu>>
    BY DEF CompDraw, appside
  <1>3. Out' = Out /\ Caps' = Caps /\ Gen' = Gen /\ Cur' = Cur /\ app' = app /\ app_gpu' = app_gpu
    BY <1>2 DEF Out, Caps, Gen, Cur
  <1>4. \A u \in UsesNow : u.slot = comp.target => u.stage = "releasing" /\ u.seq <= gpu_wait
    <2> SUFFICES ASSUME NEW u \in UsesNow, u.slot = comp.target
                 PROVE  u.stage = "releasing" /\ u.seq <= gpu_wait
      OBVIOUS
    <2>1. comp.target \in Contract!Slots
      BY <1>1, SameNames
    <2>2. /\ queue.slots[comp.target].pending = {} /\ ~queue.slots[comp.target].abandoned
          /\ queue.slots[comp.target].wait = 0
      BY <2>1 DEF Contract!OwnershipInv, Contract!TargetInv
    <2>3. \/ u.stage = "releasing" /\ queue.slots[u.slot].wait >= u.seq
          \/ u.stage = "releasing" /\ gpu_wait >= u.seq
      BY <2>1, <2>2 DEF Contract!OwnershipInv, Contract!UseInv, Contract!KeptFor
    <2>4. timeline < u.seq /\ u.seq <= dirty_seq
      BY DEF Contract!OwnershipInv, Contract!SeqInv
    <2>5. u.seq \in Nat /\ timeline \in Nat
      <3>1. UsesNow = UnreadNow \cup ShownNow \cup LeavingNow
        BY <1>0, UsesAre DEF UsesSplit
      <3>2. u \in UnreadNow => u.seq \in Nat
        BY <1>0, UnreadMembers DEF UnreadNow, FlowTyped
      <3>3. u \in ShownNow => u.seq \in Nat
        BY <1>0, ShownMembers DEF ShownNow, FlowTyped
      <3>4. u \in LeavingNow => u.seq \in Nat
        BY <1>0, LeavingMembers DEF LeavingNow, FlowTyped
      <3> QED
        BY <1>0, <3>1, <3>2, <3>3, <3>4 DEF FlowTyped
    <2> QED
      BY <1>1, <2>2, <2>3, <2>4, <2>5
  <1>5. \A s, n, stage : s = comp.target => FrameUse(s, generation, generation, n, stage).slot = comp.target
    BY <1>1 DEF FrameUse
  <1>6. \A s, g, n, stage : /\ FrameUse(s, g, generation, n, stage).seq = n
                            /\ FrameUse(s, g, generation, n, stage).stage = stage
    BY DEF FrameUse
  <1>7. UsesNow = UnreadNow \cup ShownNow \cup LeavingNow
    BY <1>0, UsesAre DEF UsesSplit
  <1>8. Caps = "v2" => \A i \in DOMAIN Out : Out[i].type = "dirty" => Spares(w, Out[i].surf, Gen, Out[i].seq)
    <2> SUFFICES ASSUME Caps = "v2", NEW i \in DOMAIN Out, Out[i].type = "dirty",
                        Out[i].surf = comp.target, Gen = generation
                 PROVE  FALSE
      BY <1>1 DEF Spares
    <2>1. FrameUse(Out[i].surf, Gen, generation, Out[i].seq, "sent") \in UnreadNow
      BY UnreadMembers DEF UnreadNow
    <2> QED
      BY <1>4, <1>5, <1>6, <1>7, <2>1
  <1>9. Caps = "v2" /\ Cur => Spares(w, app.surf, Gen, app.seq)
    <2> SUFFICES ASSUME Caps = "v2", Cur, app.surf = comp.target, Gen = generation PROVE FALSE
      BY <1>1 DEF Spares
    <2>1. FrameUse(app.surf, Gen, generation, app.seq, IF app.held THEN "held" ELSE "sent") \in ShownNow
      BY DEF ShownNow, Shown, Cur
    <2> QED
      BY <1>4, <1>5, <1>6, <1>7, <2>1
  <1>10. \A i \in DOMAIN app_gpu : Awaits(w, app_gpu[i])
    <2> SUFFICES ASSUME NEW i \in DOMAIN app_gpu, app_gpu[i].op = "signal", app_gpu[i].surf = comp.target,
                        app_gpu[i].gen = generation
                 PROVE  app_gpu[i].seq <= gpu_wait
      BY <1>1 DEF Awaits
    <2>1. FrameUse(app_gpu[i].surf, app_gpu[i].gen, generation, app_gpu[i].seq, "releasing") \in LeavingNow
      BY LeavingMembers DEF LeavingNow
    <2> QED
      BY <1>4, <1>5, <1>6, <1>7, <2>1
  <1> QED
    BY <1>3, <1>8, <1>9, <1>10 DEF Harmless

\* Every draw stays harmless.
LEMMA WholeStep ==
  ASSUME Sound, Contract!TypeOK, Contract!OwnershipInv, WholeInv, [Next]_vars
  PROVE  WholeInv'
  <1>0. TypeOK /\ TableInv /\ LinkInv /\ AcceptInv /\ OrderInv /\ GenInv /\ DrawInv /\ FlowTyped
    BY FlowTypes DEF Sound, FlowInv
  <1>1. Moves /\ Drawing
    BY <1>0, StepMoves, StepDraws
  <1> SUFFICES ASSUME NEW w \in writes'
               PROVE  Harmless(w, Out', Caps', Gen', Cur', app'.surf, app'.seq, app_gpu')
    BY DEF WholeInv
  <1>2. CASE w \in writes
    <2>1. w.seq \in Nat /\ w.seq <= dirty_seq + 1
      BY <1>0, <1>2 DEF DrawInv, FlowTyped
    <2> QED
      BY <1>0, <1>1, <1>2, <2>1, StaysHarmless DEF WholeInv
  <1>3. CASE w \notin writes
    <2>1. CompDraw
      BY <1>0, <1>1, <1>3, DrawFacts
    <2>2. w = [slot |-> comp.target, gen |-> generation, seq |-> dirty_seq + 1, wait |-> gpu_wait]
      BY <1>3, <2>1 DEF CompDraw
    <2> QED
      BY <2>1, <2>2, DrawnHarmless
  <1> QED
    BY <1>2, <1>3

\* A sample stays before the signal of its frame.
LEMMA SampleStep ==
  ASSUME TypeOK, OrderInv, Moves, SampleInv
  PROVE  SampleInv'
  <1>0. FlowTyped /\ app_gpu \in Seq(GpuCommands) /\ Len(app_gpu) \in Nat
    BY FlowTypes DEF FlowTyped
  <1>1. \A i \in DOMAIN app_gpu : app_gpu[i].op = "sample" =>
           Holds(app.held, app.surf, Gen, app.seq, app_gpu[i]) \/ Released(app_gpu, i)
    BY DEF SampleInv, Tracked
  <1>2. ASSUME app_gpu' = app_gpu, app.held => /\ app'.held /\ app'.surf = app.surf
                                               /\ app'.seq = app.seq /\ Gen' = Gen
        PROVE  SampleInv'
    BY <1>1, <1>2 DEF SampleInv, Tracked, Holds
  <1>3. CASE Rests \/ Skips
    <2>1. app.held => Cur
      BY DEF Cur
    <2> QED
      BY <1>2, <1>3, <2>1 DEF Rests, Skips, SameFrame
  <1>4. CASE \E recs, surf, to : Sends(recs, surf, to)
    BY <1>2, <1>4 DEF Sends
  <1>5. CASE Reads \/ Closes
    <2>1. app_gpu' = SignalHeld
      BY <1>5 DEF Reads, Closes
    <2>2. ASSUME NEW i \in DOMAIN app_gpu', app_gpu'[i].op = "sample" PROVE Released(app_gpu', i)
      <3>1. i \in DOMAIN app_gpu /\ app_gpu'[i] = app_gpu[i]
        BY <2>1, <2>2, SignalPlaces, SignalFacts
      <3>2. CASE Released(app_gpu, i)
        BY <2>1, <3>1, <3>2, SignalPlaces DEF Released
      <3>3. CASE Holds(app.held, app.surf, Gen, app.seq, app_gpu[i])
        <4>1. app.held /\ app_gpu' = Append(app_gpu, HeldSignal) /\ HeldSignal \in GpuCommands
          BY <2>1, <3>3, SignalFacts DEF Holds
        <4>2. /\ Len(app_gpu) + 1 \in DOMAIN app_gpu' /\ app_gpu'[Len(app_gpu) + 1] = HeldSignal
              /\ i < Len(app_gpu) + 1
          BY <1>0, <3>1, <4>1, AppendFacts
        <4> QED
          BY <3>1, <3>3, <4>1, <4>2, SignalFacts DEF Released, Holds
      <3> QED
        BY <1>1, <2>2, <3>1, <3>2, <3>3
    <2> QED
      BY <2>2 DEF SampleInv, Tracked
  <1>6. CASE Presents
    <2>1. app'.seq = app.seq /\ app'.surf = app.surf /\ Gen' = Gen
      BY <1>6 DEF Presents
    <2>2. CASE Caps # "v2"
      BY <1>2, <1>6, <2>1, <2>2 DEF Presents
    <2>3. CASE Caps = "v2"
      <3> DEFINE m == [op |-> "sample", surf |-> app.surf, gen |-> Gen, seq |-> app.seq]
      <3>1. app_gpu' = Append(app_gpu, m) /\ app'.held = TRUE
        BY <1>6, <2>3 DEF Presents
      <3>2. m.op = "sample" /\ m.surf = app.surf /\ m.gen = Gen /\ m.seq = app.seq
        OBVIOUS
      <3> HIDE DEF m
      <3>3. /\ \A i \in DOMAIN app_gpu : i \in DOMAIN app_gpu' /\ app_gpu'[i] = app_gpu[i]
            /\ \A i \in DOMAIN app_gpu' : (i \in DOMAIN app_gpu /\ app_gpu'[i] = app_gpu[i]) \/ app_gpu'[i] = m
        BY <1>0, <3>1
      <3>4. ASSUME NEW i \in DOMAIN app_gpu', app_gpu'[i].op = "sample"
            PROVE  Holds(app'.held, app'.surf, Gen', app'.seq, app_gpu'[i]) \/ Released(app_gpu', i)
        <4>1. CASE app_gpu'[i] = m
          BY <2>1, <3>1, <3>2, <4>1 DEF Holds
        <4>2. CASE i \in DOMAIN app_gpu /\ app_gpu'[i] = app_gpu[i]
          <5>1. CASE Holds(app.held, app.surf, Gen, app.seq, app_gpu[i])
            BY <2>1, <3>1, <4>2, <5>1 DEF Holds
          <5>2. CASE Released(app_gpu, i)
            BY <3>3, <4>2, <5>2 DEF Released
          <5> QED
            BY <1>1, <3>4, <4>2, <5>1, <5>2
        <4> QED
          BY <3>3, <4>1, <4>2
      <3> QED
        BY <3>4 DEF SampleInv, Tracked
    <2> QED
      BY <2>2, <2>3
  <1>7. CASE Quits
    <2>1. CASE app_gpu' = <<>>
      BY <2>1 DEF SampleInv, Tracked
    <2>2. CASE app_gpu' # <<>>
      <3>1. ~app.held /\ app_gpu' = app_gpu
        BY <1>7, <2>2 DEF Quits, OrderInv
      <3> QED
        BY <1>2, <3>1
    <2> QED
      BY <2>1, <2>2
  <1>8. CASE Runs
    <2>1. app_gpu # <<>> /\ app_gpu' = Tail(app_gpu) /\ Gen' = Gen
          /\ app'.held = app.held /\ app'.seq = app.seq /\ app'.surf = app.surf
      BY <1>8 DEF Runs, SameFrame
    <2>2. ASSUME NEW i \in DOMAIN app_gpu', app_gpu'[i].op = "sample"
          PROVE  Holds(app.held, app.surf, Gen, app.seq, app_gpu'[i]) \/ Released(app_gpu', i)
      <3>1. i + 1 \in DOMAIN app_gpu /\ app_gpu'[i] = app_gpu[i + 1] /\ i \in Nat /\ i > 0
        BY <1>0, <2>1, <2>2, TailFacts
      <3>2. CASE Released(app_gpu, i + 1)
        <4>1. PICK j \in DOMAIN app_gpu :
                 /\ i + 1 < j /\ app_gpu[j].op = "signal" /\ app_gpu[j].surf = app_gpu[i + 1].surf
                 /\ app_gpu[j].gen = app_gpu[i + 1].gen /\ app_gpu[j].seq = app_gpu[i + 1].seq
          BY <3>2 DEF Released
        <4>2. j \in Nat
          BY <1>0
        <4>3. j - 1 \in DOMAIN app_gpu' /\ app_gpu'[j - 1] = app_gpu[j]
          BY <1>0, <2>1, <3>1, <4>1, <4>2, TailFacts
        <4> QED
          BY <3>1, <4>1, <4>2, <4>3 DEF Released
      <3> QED
        BY <1>1, <2>2, <3>1, <3>2
    <2> QED
      BY <2>1, <2>2 DEF SampleInv, Tracked
  <1> QED
    BY <1>3, <1>4, <1>5, <1>6, <1>7, <1>8 DEF Moves

\* The two together are what the property needs.
LEMMA WholeSuffices ==
  ASSUME TypeOK, OrderInv, WholeInv, SampleInv
  PROVE  FramesReadWhole
  <1>0. FlowTyped
    BY FlowTypes
  <1> SUFFICES ASSUME NEW w \in writes, app_gpu # <<>>, Head(app_gpu).op = "sample",
                      Head(app_gpu).surf = w.slot, Head(app_gpu).gen = w.gen,
                      \A v \in writes : Head(app_gpu).seq < v.seq
               PROVE  timeline < w.wait
    BY DEF FramesReadWhole
  <1>1. 1 \in DOMAIN app_gpu /\ Head(app_gpu) = app_gpu[1] /\ app_gpu[1].seq < w.seq
    BY <1>0, TailFacts DEF FlowTyped
  <1>2. /\ w.seq \in Nat /\ w.wait \in Nat /\ timeline \in Nat
        /\ \A i \in DOMAIN app_gpu : app_gpu[i].seq \in Nat
    BY <1>0 DEF FlowTyped
  <1>3. Harmless(w, Out, Caps, Gen, Cur, app.surf, app.seq, app_gpu)
    BY DEF WholeInv
  <1>4. ~Holds(app.held, app.surf, Gen, app.seq, app_gpu[1])
    <2> SUFFICES ASSUME Holds(app.held, app.surf, Gen, app.seq, app_gpu[1]) PROVE FALSE
      OBVIOUS
    <2>1. Caps = "v2" /\ Cur
      BY DEF Holds, OrderInv, Cur
    <2>2. Spares(w, app.surf, Gen, app.seq)
      BY <1>3, <2>1 DEF Harmless
    <2> QED
      BY <1>1, <1>2, <2>2 DEF Spares, Holds
  <1>5. PICK j \in DOMAIN app_gpu :
           /\ app_gpu[j].op = "signal" /\ app_gpu[j].surf = w.slot
           /\ app_gpu[j].gen = w.gen /\ app_gpu[j].seq = app_gpu[1].seq
    BY <1>1, <1>4 DEF SampleInv, Tracked, Released
  <1>6. app_gpu[j].seq <= w.wait
    BY <1>1, <1>2, <1>3, <1>5 DEF Harmless, Awaits
  <1>7. timeline < app_gpu[j].seq
    BY <1>5 DEF OrderInv
  <1> QED
    BY <1>2, <1>6, <1>7

\* No frame is drawn over while it is read: in every behaviour of the two
\* processes, until a handshake lifts a quarantine too early, a draw that could
\* reach the buffer being sampled still waits on the GPU for the sample's release.
THEOREM ReadsWhole == Spec => []ConsumerReadsWhole
  <1> DEFINE Kept == ContractInv /\ (overlaps = {} => WholeInv) /\ SampleInv
  <1>1. Init => Kept
    <2> SUFFICES ASSUME Init PROVE Kept
      OBVIOUS
    <2>1. writes = {} /\ app_gpu = <<>>
      BY DEF Init
    <2>2. WholeInv /\ SampleInv
      BY <2>1 DEF WholeInv, SampleInv, Tracked
    <2> QED
      BY <2>2, ContractStart
  <1>2. Sound /\ Kept /\ [Next]_vars => Kept'
    <2> SUFFICES ASSUME Sound, Kept, [Next]_vars PROVE Kept'
      OBVIOUS
    <2>1. TypeOK /\ TableInv /\ LinkInv /\ AcceptInv /\ OrderInv
      BY DEF Sound, FlowInv
    <2>2. Moves
      BY <2>1, StepMoves
    <2>3. overlaps' = {} => overlaps = {}
      BY <2>1, HistoryGrows, TypeParts
    <2>4. overlaps' = {} => WholeInv'
      BY <2>3, WholeStep DEF ContractInv
    <2>5. SampleInv' /\ ContractInv'
      BY <2>1, <2>2, SampleStep, ContractStep
    <2> QED
      BY <2>4, <2>5
  <1>3. Sound /\ Kept => ConsumerReadsWhole
    <2>1. Sound => TypeOK /\ OrderInv
      BY DEF Sound, FlowInv
    <2> QED
      BY <2>1, WholeSuffices DEF ConsumerReadsWhole, Overlapped
  <1>4. Spec => []Sound
    BY FlowAlways DEF Sound
  <1> HIDE DEF Kept
  <1> QED
    BY <1>1, <1>2, <1>3, <1>4, PTL DEF Spec

=============================================================================
