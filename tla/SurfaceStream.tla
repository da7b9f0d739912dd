--------------------------- MODULE SurfaceStream ---------------------------
(***************************************************************************)
(* The presentation stream between the compositor's surface server         *)
(* (xios_surface.c) and the Xios app (XSurface.c, SurfaceLink.swift).      *)
(*                                                                         *)
(* Threads: the compositor's event loop (Comp... actions), the accept      *)
(* thread (Hs...), one reader thread per connection (Reader...), the app's *)
(* main thread (App...), and the two GPUs.  An action of the server is one *)
(* critical section of s_lock.  The app is one process that connects       *)
(* again and again; a connection number is used once and plays the part    *)
(* of fd and client serial.                                                *)
(***************************************************************************)
EXTENDS OutputQueue, Sequences, FiniteSets, SequencesExt

CONSTANTS NumConns,       \* bound: connections the app makes
          NumClients,     \* XIOS_MAX_CLIENTS
          Count,          \* s_output_count
          Dyn,            \* client buffers that can be presented directly
          MaxSeq,         \* bound: frames published
          MaxResize,      \* bound: output resizes
          LegacyApp,      \* the app may fall back to the legacy handshake
          Backpressure,   \* a write may block or be cut short
          Pacing,         \* the app sends its display clock
          Crashes         \* the app may be killed

ASSUME StreamAssumption ==
    /\ {NumConns, NumClients, Count} \subseteq Nat \ {0}
    /\ {MaxSeq, MaxResize} \subseteq Nat
    /\ {LegacyApp, Backpressure, Pacing, Crashes} \subseteq BOOLEAN
\* Direct surfaces are numbered from XIOS_DYNAMIC_SURFACE_ID_BASE, above every
\* output; -2 is Nothing below.
ASSUME SurfacesAreApart == \A d \in Dyn : d \notin 0..(Count - 1) /\ d # -2

VARIABLES
    generation,  \* s_generation, from 1; 0 in a connection: not read yet
    clients,     \* s_clients: the connection in each client slot, or NoConn
    queue,       \* s_output_queue
    streams,     \* s_stream_surfaces, by client buffer
    dirty_seq,   \* s_dirty_seq
    clock,       \* the display clock is set (s_vblank_interval_us # 0)
    conns,       \* each connection: handshake, both directions, reader
    app,         \* the app's SurfaceLink and XSurfaceConn
    app_gpu,     \* the app's Metal queue, oldest command first
    timeline,    \* value of the release MTLSharedEvent
    comp,        \* the repaint in progress
    gpu_wait,    \* highest release value awaited by the compositor's stream
    writes,      \* draws queued in the compositor's stream, unfinished
    overlaps,    \* history: the connections whose handshake lifted the
                 \* quarantine of a buffer that the app was still to read
    stale        \* history: the direct surfaces of which a resize left sent
                 \* bits set

server == <<generation, clients, queue, streams, dirty_seq, clock>>
appside == <<app, app_gpu>>
compside == <<comp, gpu_wait, writes>>
history == <<overlaps, stale>>
vars == <<server, conns, appside, timeline, compside, history>>

Conns == 1..NumConns
NoConn == 0
ClientSlots == 0..(NumClients - 1)
Outputs == 0..(Count - 1)
NoRecord == [type |-> "none"]
\* No client buffer: not a member of Dyn.
Nothing == -2
Surfaces == Outputs \cup Dyn

\* struct stream_surface.  A client buffer is registered at most once: it is
\* unregistered when its wl_buffer goes, and ids are never reused.
NewStream == [state |-> "fresh", sent |-> {}, last_seq |-> 0, released_seq |-> 0]

NewConn == [phase |-> "unused", caps |-> "v2", gen |-> 0, slot |-> 0,
            app |-> "closed", out |-> <<>>, in |-> <<>>, reader |-> FALSE,
            checked |-> NoRecord]

\* The app's connection: "connecting" on the worker queue, "live" once the main
\* thread adopted it, "closing" between the last release and the close.
NoApp == [conn |-> NoConn, state |-> "none", known |-> {}, retired |-> {},
          surf |-> 0, seq |-> 0, pending |-> FALSE, held |-> FALSE]

Init ==
    /\ generation = 1
    /\ clients = [s \in ClientSlots |-> NoConn]
    /\ queue = QueueReset(Count)
    /\ streams = [d \in Dyn |-> NewStream]
    /\ dirty_seq = 0
    /\ clock = FALSE
    /\ conns = [c \in Conns |-> NewConn]
    /\ app = NoApp
    /\ app_gpu = <<>>
    /\ timeline = 0
    /\ comp = [target |-> NoSlot, drawn |-> FALSE, direct |-> Nothing]
    /\ gpu_wait = 0
    /\ writes = {}
    /\ overlaps = {}
    /\ stale = {}

-----------------------------------------------------------------------------
(* The client table.                                                       *)

Active == {s \in ClientSlots : clients[s] # NoConn}

\* stream_v2_client_mask_locked
V2Mask == {s \in Active : conns[clients[s]].caps = "v2"}

\* A connection's server end is open.
ServerOpen(c) == conns[c].phase \in {"backlog", "replied", "added", "attached"}

\* drop_client_locked and drop_client_identity_locked, for the client slots
\* `lost': the fds close, owned output slots are quarantined, the sent bits are
\* cleared, and the display clock goes with the last client.
ClientsWithout(lost) == [s \in ClientSlots |-> IF s \in lost THEN NoConn ELSE clients[s]]

CloseConns(cs, lost) ==
    [c \in Conns |->
        IF \E s \in lost : clients[s] = c THEN [cs[c] EXCEPT !.phase = "dropped"] ELSE cs[c]]

SentWithout(strs, lost) == [d \in Dyn |-> [strs[d] EXCEPT !.sent = @ \ lost]]

ClockWithout(lost) == clock /\ (lost = {} \/ Active \ lost # {})

\* The slot still belongs to the connection (fd and serial agree).
Live(c) == clients[conns[c].slot] = c

\* Slip: the table entry goes, the output slots stay owed to it.
LeaveTableOwing(c, after) ==
    LET lost == IF Live(c) THEN {conns[c].slot} ELSE {}
    IN  /\ clients' = ClientsWithout(lost)
        /\ conns' = after
        /\ streams' = SentWithout(streams, lost)
        /\ clock' = ClockWithout(lost)
        /\ UNCHANGED queue

\* drop_client_identity_locked by a thread of connection c, which leaves the
\* connections as `after'.
LeaveTable(c, after) ==
    LET lost == IF Live(c) THEN {conns[c].slot} ELSE {}
    IN  /\ clients' = ClientsWithout(lost)
        /\ conns' = after
        /\ queue' = QueueDropClients(queue, lost)
        /\ streams' = SentWithout(streams, lost)
        /\ clock' = ClockWithout(lost)

-----------------------------------------------------------------------------
(* The frames under way.                                                   *)

\* The frames a stream-v2 consumer may read, as OutputOwnership counts them: in
\* an open connection or drained ("sent"), retained ("held"), or with the
\* release signal committed and not yet fired ("releasing").
Use(surf, gen, seq, stage) ==
    [slot |-> IF surf \in Outputs /\ gen = generation THEN surf ELSE -1,
     seq |-> seq, stage |-> stage]

UnreadUses ==
    UNION {{Use(m.surf, conns[c].gen, m.seq, "sent") :
               m \in {r \in Range(conns[c].out) : r.type = "dirty"}} :
           c \in {k \in Conns : conns[k].caps = "v2" /\ conns[k].app = "open"}}

CurrentUses ==
    IF (app.pending \/ app.held) /\ conns[app.conn].caps = "v2"
    THEN {Use(app.surf, conns[app.conn].gen, app.seq, IF app.held THEN "held" ELSE "sent")}
    ELSE {}

ReleasingUses ==
    {Use(g.surf, g.gen, g.seq, "releasing") : g \in {h \in Range(app_gpu) : h.op = "signal"}}

UsesNow == {u \in UnreadUses \cup CurrentUses \cup ReleasingUses : u.seq > timeline}

\* What add_client takes a completed handshake to prove: nobody reads a buffer
\* that is quarantined.
QuarantineOver == \A u \in UsesNow : u.slot \in Outputs => ~queue.slots[u.slot].abandoned

-----------------------------------------------------------------------------
(* The accept thread: handle_client, add_client.                           *)

\* The accept loop is sequential and the listen backlog is first in, first out:
\* c is next once no handshake is in progress.
HsTurn(c) ==
    /\ conns[c].phase = "backlog"
    /\ \A b \in Conns : /\ conns[b].phase \notin {"replied", "added"}
                        /\ conns[b].phase = "dropped" => conns[b].reader
                        /\ conns[b].phase = "backlog" => c <= b

\* The HELLO is valid, the outputs and the generation are read under the lock,
\* and the replies carrying the output surfaces go out.
HsReply(c) ==
    /\ HsTurn(c)
    /\ conns' = [conns EXCEPT ![c].phase = "replied", ![c].gen = generation]
    /\ UNCHANGED <<server, appside, timeline, history, compside>>

\* A step of the handshake fails (the peer is gone, a port send times out).
HsFail(c) ==
    /\ HsTurn(c)
    /\ conns' = [conns EXCEPT ![c].phase = "refused"]
    /\ UNCHANGED <<server, appside, timeline, history, compside>>

\* Slip: the generation is not compared.
HsStaleUnchecked(c) == FALSE

\* Slip: a stream-v2 client is only kept from another stream-v2 client.
HsExcludedByV2(c) == V2Mask # {}

\* add_client's three grounds for refusing, and the slot it picks otherwise.
HsStale(c) == conns[c].gen # generation
HsExcluded(c) ==
    IF conns[c].caps = "v2" THEN Active # {} ELSE V2Mask # {}
HsSlot == CHOOSE s \in ClientSlots \ Active : \A t \in ClientSlots \ Active : s <= t

HsRefuse(c) ==
    /\ conns[c].phase = "replied"
    /\ HsStale(c) \/ HsExcluded(c) \/ Active = ClientSlots
    /\ conns' = [conns EXCEPT ![c].phase = "refused"]
    /\ UNCHANGED <<server, appside, timeline, history, compside>>

\* Slip: only the output queue is recovered.
RecoverNoStreams == streams

\* recover_consumer_after_handshake_locked, for the direct surfaces.
RecoverStreams ==
    [d \in Dyn |->
        IF streams[d].state = "registered" /\ streams[d].sent = {}
        THEN [streams[d] EXCEPT !.released_seq = Larger(@, streams[d].last_seq)]
        ELSE streams[d]]

HsAdd(c) ==
    /\ conns[c].phase = "replied"
    /\ ~HsStale(c)
    /\ ~HsExcluded(c)
    /\ Active # ClientSlots
    /\ IF Active = {}
       THEN queue' = QueueRecover(queue) /\ streams' = RecoverStreams
       ELSE UNCHANGED <<queue, streams>>
    /\ clients' = [clients EXCEPT ![HsSlot] = c]
    /\ conns' = [conns EXCEPT ![c].phase = "added", ![c].slot = HsSlot]
    /\ overlaps' = IF Active = {} /\ ~QuarantineOver THEN overlaps \cup {c} ELSE overlaps
    /\ UNCHANGED <<generation, dirty_seq, clock, appside, timeline, stale, compside>>

\* The reader thread starts (if the client was dropped meanwhile, it finds the
\* socket shut down).
HsReader(c) ==
    /\ conns[c].phase \in {"added", "dropped"}
    /\ ~conns[c].reader
    /\ conns' = [conns EXCEPT ![c].reader = TRUE,
                              ![c].phase = IF @ = "added" THEN "attached" ELSE @]
    /\ UNCHANGED <<server, appside, timeline, history, compside>>

\* dup, malloc or pthread_create failed: the client is dropped again, unless
\* it already was.
HsReaderFails(c) ==
    /\ conns[c].phase \in {"added", "dropped"}
    /\ ~conns[c].reader
    /\ LeaveTable(c, [conns EXCEPT ![c].phase = "ended"])
    /\ UNCHANGED <<generation, dirty_seq, appside, timeline, history, compside>>

-----------------------------------------------------------------------------
(* Reader threads: client_read_loop, handle_client_msg.                    *)

\* One record is read and its sender is found to be a live client; the lock is
\* released before the record is applied.
ReaderTake(c) ==
    /\ conns[c].reader
    /\ conns[c].checked = NoRecord
    /\ conns[c].in # <<>>
    /\ conns' = [conns EXCEPT
                    ![c].in = Tail(@),
                    ![c].checked = IF Live(c) THEN Head(conns[c].in) ELSE NoRecord]
    /\ UNCHANGED <<server, appside, timeline, history, compside>>

\* PACING is stored without looking at the client again.
ReaderPacing(c) ==
    /\ conns[c].checked.type = "pacing"
    /\ clock' = TRUE
    /\ conns' = [conns EXCEPT ![c].checked = NoRecord]
    /\ UNCHANGED <<generation, clients, queue, streams, dirty_seq, appside, timeline, history, compside>>

\* RELEASED looks at the client again, under the lock that applies it.
ReaderReleased(c) ==
    LET m == conns[c].checked
        s == conns[c].slot
    IN  /\ m.type = "released"
        /\ conns' = [conns EXCEPT ![c].checked = NoRecord]
        /\ IF Live(c) /\ m.surf \in Outputs
           THEN queue' = QueueRelease(queue, m.surf, s, m.seq) /\ UNCHANGED streams
           ELSE /\ UNCHANGED queue
                /\ IF /\ Live(c)
                      /\ streams[m.surf].state = "registered"
                      /\ s \in streams[m.surf].sent
                      /\ streams[m.surf].last_seq = m.seq
                   THEN streams' = [streams EXCEPT ![m.surf].released_seq = Larger(@, m.seq)]
                   ELSE UNCHANGED streams
        /\ UNCHANGED <<generation, clients, dirty_seq, clock, appside, timeline, history, compside>>

\* The peer or the server closed the socket.  Records still queued may be lost:
\* the loop leaves as soon as poll reports the hang-up.
ReaderExit(c) ==
    /\ conns[c].reader
    /\ conns[c].checked = NoRecord
    /\ conns[c].app = "closed" \/ ~ServerOpen(c)
    /\ LeaveTable(c, [conns EXCEPT ![c].reader = FALSE, ![c].phase = "ended", ![c].in = <<>>])
    /\ UNCHANGED <<generation, dirty_seq, appside, timeline, history, compside>>

-----------------------------------------------------------------------------
(* The app.                                                                *)

\* xsurface_connect on the worker queue.  What the app's GPU queue still holds
\* of earlier connections is left alone.
AppConnect(c, caps) ==
    /\ app.conn = NoConn
    /\ conns[c].phase = "unused"
    /\ \A b \in Conns : b < c => conns[b].phase # "unused"
    /\ conns' = [conns EXCEPT ![c].phase = "backlog", ![c].caps = caps, ![c].app = "open"]
    /\ app' = [NoApp EXCEPT !.conn = c, !.state = "connecting"]
    /\ UNCHANGED <<server, app_gpu, timeline, history, compside>>

\* The attempt failed or was superseded: the main thread will close it later.
AppAbandon ==
    /\ app.state = "connecting"
    /\ conns' = [conns EXCEPT ![app.conn].app = "orphan"]
    /\ app' = NoApp
    /\ UNCHANGED <<server, app_gpu, timeline, history, compside>>

\* The app closes its end of the connections `ends'; unread records are gone.
AppEndsClosed(ends) ==
    [c \in Conns |-> IF c \in ends THEN [conns[c] EXCEPT !.app = "closed", !.out = <<>>]
                     ELSE conns[c]]

AppOrphanClose(c) ==
    /\ conns[c].app = "orphan"
    /\ conns' = AppEndsClosed({c})
    /\ UNCHANGED <<server, appside, timeline, history, compside>>

\* Slip: one output more than was announced.
AppAdoptExtraOutput ==
    /\ app.state = "connecting"
    /\ conns[app.conn].gen # 0
    /\ app' = [app EXCEPT !.state = "live", !.known = 0..Count]
    /\ UNCHANGED <<server, conns, app_gpu, timeline, history, compside>>

\* The replies are in: a stream-v2 app knows every output, a legacy one the
\* primary only.
AppAdopt ==
    /\ app.state = "connecting"
    /\ conns[app.conn].gen # 0
    /\ app' = [app EXCEPT !.state = "live",
                          !.known = IF conns[app.conn].caps = "v2" THEN Outputs ELSE {0}]
    /\ UNCHANGED <<server, conns, app_gpu, timeline, history, compside>>

\* Slip: RELEASED is sent without a signal behind the samples.
SignalHeldForgotten == app_gpu

\* submitHeldRelease: the release signal is committed behind every sample of
\* the held frame, then RELEASED is sent if the socket takes it.
SignalHeld ==
    IF app.held
    THEN Append(app_gpu, [op |-> "signal", surf |-> app.surf,
                          gen |-> conns[app.conn].gen, seq |-> app.seq])
    ELSE app_gpu

\* Slip: RELEASED names the frame before the held one.
ReleasedRecordOlder == [type |-> "released", surf |-> app.surf, seq |-> app.seq - 1]

ReleasedRecord == [type |-> "released", surf |-> app.surf, seq |-> app.seq]

\* The record at the front of the stream.
AppHas(type) ==
    /\ app.state = "live"
    /\ ~app.pending
    /\ conns[app.conn].out # <<>>
    /\ Head(conns[app.conn].out).type = type

AppRecord == Head(conns[app.conn].out)

\* pump accepts a DIRTY: the frame it replaces is released, and a surface the
\* server dropped while it was on screen goes.
AppDirty ==
    /\ AppHas("dirty")
    /\ AppRecord.surf \in app.known
    /\ app.held => ServerOpen(app.conn)
    /\ app_gpu' = SignalHeld
    /\ conns' = [conns EXCEPT ![app.conn].out = Tail(@),
                              ![app.conn].in = IF app.held THEN Append(@, ReleasedRecord) ELSE @]
    /\ LET gone == IF app.surf # AppRecord.surf THEN app.retired \cap {app.surf} ELSE {}
       IN  app' = [app EXCEPT !.surf = AppRecord.surf, !.seq = AppRecord.seq,
                              !.pending = TRUE, !.held = FALSE,
                              !.known = @ \ gone, !.retired = @ \ gone]
    /\ UNCHANGED <<server, timeline, history, compside>>

AppSurface ==
    /\ AppHas("surface")
    /\ AppRecord.surf \notin app.known
    /\ app' = [app EXCEPT !.known = @ \cup {AppRecord.surf}]
    /\ conns' = [conns EXCEPT ![app.conn].out = Tail(@)]
    /\ UNCHANGED <<server, app_gpu, timeline, history, compside>>

AppSurfaceDrop ==
    /\ AppHas("drop")
    /\ AppRecord.surf \in app.known
    /\ app' = IF AppRecord.surf = app.surf
              THEN [app EXCEPT !.retired = @ \cup {app.surf}]
              ELSE [app EXCEPT !.known = @ \ {AppRecord.surf}]
    /\ conns' = [conns EXCEPT ![app.conn].out = Tail(@)]
    /\ UNCHANGED <<server, app_gpu, timeline, history, compside>>

\* present, the idle redraw and the thumbnail commit a sample of the current
\* frame.  A legacy connection never releases, so its samples are left out.
AppPresent ==
    LET sample == [op |-> "sample", surf |-> app.surf,
                   gen |-> conns[app.conn].gen, seq |-> app.seq]
    IN  /\ app.state = "live"
        /\ app.pending \/ app.held
        /\ sample \notin Range(app_gpu)
        /\ IF conns[app.conn].caps = "v2"
           THEN /\ app_gpu' = Append(app_gpu, sample)
                /\ app' = [app EXCEPT !.pending = FALSE, !.held = TRUE]
           ELSE /\ app' = [app EXCEPT !.pending = FALSE]
                /\ UNCHANGED app_gpu
        /\ UNCHANGED <<server, conns, timeline, history, compside>>

AppPacing ==
    /\ Pacing
    /\ app.state = "live"
    /\ ServerOpen(app.conn)
    /\ [type |-> "pacing"] \notin Range(conns[app.conn].in)
    /\ conns' = [conns EXCEPT ![app.conn].in = Append(@, [type |-> "pacing"])]
    /\ UNCHANGED <<server, appside, timeline, history, compside>>

\* SurfaceLink.close, up to the release of the held frame.
AppBeginClose ==
    /\ app.state = "live"
    /\ app_gpu' = SignalHeld
    /\ \E delivered \in IF app.held /\ ServerOpen(app.conn)
                        THEN (IF Backpressure THEN BOOLEAN ELSE {TRUE}) ELSE {FALSE} :
          conns' = IF delivered
                   THEN [conns EXCEPT ![app.conn].in = Append(@, ReleasedRecord)] ELSE conns
    /\ app' = [app EXCEPT !.state = "closing", !.held = FALSE]
    /\ UNCHANGED <<server, timeline, history, compside>>

\* drain or pump report the stream lost: end of file, a record that does not
\* fit, a RELEASED that could not be sent.
AppLost ==
    /\ app.state = "live"
    /\ \/ conns[app.conn].out = <<>> /\ ~ServerOpen(app.conn) /\ ~app.pending
       \/ AppHas("dirty") /\ AppRecord.surf \notin app.known
       \/ AppHas("surface") /\ AppRecord.surf \in app.known
       \/ AppHas("drop") /\ AppRecord.surf \notin app.known
       \/ AppHas("dirty") /\ app.held /\ (Backpressure \/ ~ServerOpen(app.conn))
    /\ AppBeginClose

\* The rest of close: the socket and every texture go.
AppFinishClose ==
    /\ app.state = "closing"
    /\ conns' = AppEndsClosed({app.conn})
    /\ app' = NoApp
    /\ UNCHANGED <<server, app_gpu, timeline, history, compside>>

\* The process is killed; what its GPU queue held never runs.
AppCrash ==
    /\ Crashes
    /\ app.conn # NoConn \/ app_gpu # <<>>
    /\ conns' = AppEndsClosed({c \in Conns : conns[c].app # "closed"})
    /\ app' = NoApp
    /\ app_gpu' = <<>>
    /\ UNCHANGED <<server, timeline, history, compside>>

-----------------------------------------------------------------------------
(* The compositor thread.                                                  *)

CompIdle == comp.target = NoSlot /\ comp.direct = Nothing

\* Slip: the release wait is not queued.
CompAcquireUnfenced(i) ==
    /\ CompIdle
    /\ dirty_seq < MaxSeq
    /\ QueueOffers(queue, V2Mask # {}, i)
    /\ queue' = QueueAcquire(queue, V2Mask # {}, i)
    /\ comp' = [comp EXCEPT !.target = i]
    /\ UNCHANGED <<generation, clients, streams, dirty_seq, clock, conns, appside, timeline, history,
                   gpu_wait, writes>>

\* xios_output_acquire and iosc_gl_wait_release.
CompAcquire(i) ==
    /\ CompIdle
    /\ dirty_seq < MaxSeq
    /\ QueueOffers(queue, V2Mask # {}, i)
    /\ queue' = QueueAcquire(queue, V2Mask # {}, i)
    /\ gpu_wait' = Larger(gpu_wait, queue.slots[i].wait)
    /\ comp' = [comp EXCEPT !.target = i]
    /\ UNCHANGED <<generation, clients, streams, dirty_seq, clock, conns, appside, timeline, history, writes>>

\* xios_output_cancel: nothing to draw.
CompCancel ==
    /\ comp.target # NoSlot
    /\ ~comp.drawn
    /\ queue' = QueueCancel(queue, comp.target)
    /\ comp' = [comp EXCEPT !.target = NoSlot]
    /\ UNCHANGED <<generation, clients, streams, dirty_seq, clock, conns, appside, timeline, history, gpu_wait, writes>>

CompDraw ==
    /\ comp.target # NoSlot
    /\ ~comp.drawn
    /\ comp' = [comp EXCEPT !.drawn = TRUE]
    /\ writes' = writes \cup {[slot |-> comp.target, gen |-> generation,
                               seq |-> dirty_seq + 1, wait |-> gpu_wait]}
    /\ UNCHANGED <<server, conns, appside, timeline, history, gpu_wait>>

\* send_record to the clients `to': those in `ok' got the record, those in
\* `lost' are dropped, for the others the write would have blocked.
SendOutcome(to, ok, lost) ==
    /\ ok \subseteq to /\ lost \subseteq to /\ ok \cap lost = {}
    /\ \A s \in to :
          IF conns[clients[s]].app = "closed" THEN s \in lost ELSE Backpressure \/ s \in ok

\* The connections after `lost' are dropped and `recs' were written to `ok'.
Sent(ok, lost, recs) ==
    LET cs == CloseConns(conns, lost)
    IN  [c \in Conns |-> IF \E s \in ok : clients[s] = c
                         THEN [cs[c] EXCEPT !.out = @ \o recs] ELSE cs[c]]

DirtyRecord(surf) == [type |-> "dirty", surf |-> surf, seq |-> dirty_seq + 1]

\* notify_dirty_internal for an output buffer.
CompPublish(ok, lost) ==
    /\ comp.target # NoSlot
    /\ comp.drawn
    /\ SendOutcome(IF comp.target = 0 THEN Active ELSE V2Mask, ok, lost)
    /\ dirty_seq' = dirty_seq + 1
    /\ clients' = ClientsWithout(lost)
    /\ conns' = Sent(ok, lost, <<DirtyRecord(comp.target)>>)
    /\ streams' = SentWithout(streams, lost)
    /\ clock' = ClockWithout(lost)
    /\ queue' = QueuePublish(QueueDropClients(queue, lost), comp.target,
                             ok \cap V2Mask, dirty_seq + 1)
    /\ comp' = [comp EXCEPT !.target = NoSlot, !.drawn = FALSE]
    /\ UNCHANGED <<generation, appside, timeline, history, gpu_wait, writes>>

\* try_direct_present found the stream-v2 app attached alone, and the client's
\* buffer is registered if it was not.
CompDirectCheck(d) ==
    /\ CompIdle
    /\ dirty_seq < MaxSeq
    /\ streams[d].state # "gone"
    /\ Cardinality(Active) = 1
    /\ V2Mask # {}
    /\ streams' = [streams EXCEPT ![d].state = "registered"]
    /\ comp' = [comp EXCEPT !.direct = d]
    /\ UNCHANGED <<generation, clients, queue, dirty_seq, clock, conns, appside, timeline, history, gpu_wait, writes>>

\* Slip: one flag per surface instead of one bit per client.
SurfaceOwedOnce(d) == streams[d].state # "registered"

\* send_stream_surface_locked: the consumer has not been given the surface.
SurfaceOwed(d) == ~(V2Mask \subseteq streams[d].sent)

\* notify_dirty_internal for a client's buffer: a consumer that does not have
\* it yet gets SURFACE first, and is dropped if that does not fit.  (V2Mask
\* has at most one member: SingleConsumer.)
CompPublishDirect(ok, lost) ==
    LET d == comp.direct
        recs == (IF SurfaceOwed(d) THEN <<[type |-> "surface", surf |-> d]>> ELSE <<>>)
                \o (IF ok = {} THEN <<>> ELSE <<DirtyRecord(d)>>)
    IN  /\ d # Nothing
        /\ SendOutcome(V2Mask, ok, lost)
        /\ dirty_seq' = dirty_seq + 1
        /\ clients' = ClientsWithout(lost)
        /\ conns' = Sent(V2Mask \ lost, lost, recs)
        /\ streams' = [SentWithout(streams, lost) EXCEPT
                          ![d].sent = (@ \cup V2Mask) \ lost, ![d].last_seq = dirty_seq + 1]
        /\ queue' = QueueDropClients(queue, lost)
        /\ clock' = ClockWithout(lost)
        /\ comp' = [comp EXCEPT !.direct = Nothing]
        /\ UNCHANGED <<generation, appside, timeline, history, gpu_wait, writes>>

\* xios_stream_unregister_surface: the client destroyed the buffer.  Here even a
\* write that would block drops the consumer.
CompUnregister(d, ok, lost) ==
    LET to == streams[d].sent \cap Active
    IN  /\ CompIdle
        /\ streams[d].state = "registered"
        /\ SendOutcome(to, ok, lost)
        /\ ok \cup lost = to
        /\ clients' = ClientsWithout(lost)
        /\ conns' = Sent(ok, lost, <<[type |-> "drop", surf |-> d]>>)
        /\ streams' = [SentWithout(streams, lost) EXCEPT ![d] = [NewStream EXCEPT !.state = "gone"]]
        /\ queue' = QueueDropClients(queue, lost)
        /\ clock' = ClockWithout(lost)
        /\ UNCHANGED <<generation, dirty_seq, appside, timeline, history, compside>>

\* xios_notify_cursor and xios_notify_cursor_image: a client that cannot be
\* written to is dropped.
CompCursor(lost) ==
    /\ CompIdle
    /\ lost # {}
    /\ SendOutcome(Active, Active \ lost, lost)
    /\ clients' = ClientsWithout(lost)
    /\ conns' = CloseConns(conns, lost)
    /\ streams' = SentWithout(streams, lost)
    /\ queue' = QueueDropClients(queue, lost)
    /\ clock' = ClockWithout(lost)
    /\ UNCHANGED <<generation, dirty_seq, appside, timeline, history, compside>>

\* Slip: the queue of the old allocations is kept.
CompResizeKeepsQueue ==
    /\ CompIdle
    /\ generation <= MaxResize
    /\ generation' = generation + 1
    /\ clients' = ClientsWithout(ClientSlots)
    /\ conns' = CloseConns(conns, Active)
    /\ stale' = stale \cup {d \in Dyn : streams[d].sent # {}}
    /\ UNCHANGED <<queue, streams, dirty_seq, clock, appside, timeline, overlaps, compside>>

\* xios_surface_resize: every client is closed, but neither the display clock
\* nor the sent bits of the direct surfaces are touched.
CompResize ==
    /\ CompIdle
    /\ generation <= MaxResize
    /\ generation' = generation + 1
    /\ queue' = QueueReset(Count)
    /\ clients' = ClientsWithout(ClientSlots)
    /\ conns' = CloseConns(conns, Active)
    /\ stale' = stale \cup {d \in Dyn : streams[d].sent # {}}
    /\ UNCHANGED <<streams, dirty_seq, clock, appside, timeline, overlaps, compside>>

-----------------------------------------------------------------------------
(* The GPUs.                                                               *)

\* The app's queue runs in order; a sample waits for its frame's fence.
AppGpuSample ==
    /\ app_gpu # <<>>
    /\ Head(app_gpu).op = "sample"
    /\ Head(app_gpu).surf \in Outputs => \A w \in writes : w.seq > Head(app_gpu).seq
    /\ app_gpu' = Tail(app_gpu)
    /\ UNCHANGED <<server, conns, app, timeline, history, compside>>

AppGpuSignal ==
    /\ app_gpu # <<>>
    /\ Head(app_gpu).op = "signal"
    /\ timeline' = Head(app_gpu).seq
    /\ app_gpu' = Tail(app_gpu)
    /\ UNCHANGED <<server, conns, app, history, compside>>

\* The compositor's stream runs in order, behind the waits queued before.
CompGpuWrite ==
    \E w \in writes :
        /\ timeline >= w.wait
        /\ \A v \in writes : w.seq <= v.seq
        /\ writes' = writes \ {w}
        /\ UNCHANGED <<server, conns, appside, timeline, history, comp, gpu_wait>>

-----------------------------------------------------------------------------
(* Specification.                                                          *)

AcceptStep(c) == HsReply(c) \/ HsFail(c) \/ HsRefuse(c) \/ HsAdd(c) \/ HsReader(c) \/ HsReaderFails(c)

ReaderStep(c) == ReaderTake(c) \/ ReaderPacing(c) \/ ReaderReleased(c) \/ ReaderExit(c)

\* What the app's display-link tick and its close path do unprompted.
AppTick == AppAdopt \/ AppDirty \/ AppSurface \/ AppSurfaceDrop \/ AppLost \/ AppFinishClose

AppStep ==
    \/ \E c \in Conns, caps \in {"v2"} \cup (IF LegacyApp THEN {"legacy"} ELSE {}) :
          AppConnect(c, caps)
    \/ \E c \in Conns : AppOrphanClose(c)
    \/ AppTick
    \/ AppPresent
    \/ AppAbandon
    \/ AppPacing
    \/ AppBeginClose
    \/ AppCrash

CompStep ==
    \/ \E i \in Outputs : CompAcquire(i)
    \/ CompCancel
    \/ CompDraw
    \/ \E ok \in SUBSET Active, lost \in SUBSET Active : CompPublish(ok, lost)
    \/ \E d \in Dyn : CompDirectCheck(d)
    \/ \E ok \in SUBSET Active, lost \in SUBSET Active : CompPublishDirect(ok, lost)
    \/ \E d \in Dyn : \E ok \in SUBSET Active, lost \in SUBSET Active : CompUnregister(d, ok, lost)
    \/ \E lost \in SUBSET Active : CompCursor(lost)
    \/ CompResize

GpuStep == AppGpuSample \/ AppGpuSignal \/ CompGpuWrite

Next ==
    \/ \E c \in Conns : AcceptStep(c) \/ ReaderStep(c)
    \/ AppStep
    \/ CompStep
    \/ GpuStep

Spec == Init /\ [][Next]_vars

\* Threads are scheduled, the app's display link ticks and presents what it
\* drained, both GPUs run.  Nothing is assumed of the compositor's repaints,
\* of the network or of the user.
Fairness ==
    /\ \A c \in Conns : WF_vars(AcceptStep(c)) /\ WF_vars(ReaderStep(c)) /\ WF_vars(AppOrphanClose(c))
    /\ WF_vars(AppTick)
    /\ WF_vars(app.pending /\ AppPresent)
    /\ WF_vars(AppGpuSample)
    /\ WF_vars(AppGpuSignal)
    /\ WF_vars(CompGpuWrite)

FairSpec == Spec /\ Fairness

-----------------------------------------------------------------------------
(* Properties.                                                             *)

Generations == 1..(MaxResize + 1)
Seqs == 1..MaxSeq

\* What the server writes to a client, and what a client writes back.
Records == [type : {"dirty"}, surf : Surfaces, seq : Seqs]
           \cup [type : {"surface", "drop"}, surf : Dyn]
Replies == [type : {"released"}, surf : Surfaces, seq : Seqs] \cup [type : {"pacing"}]

SlotRecords ==
    [acquired : BOOLEAN, abandoned : BOOLEAN, pending : SUBSET ClientSlots,
     wait : Nat, last_frame : Nat, last_seq : Nat]
Queues == [count : {Count}, cursor : Outputs, frame : Nat, slots : [Outputs -> SlotRecords]]

StreamRecords == [state : {"fresh", "registered", "gone"}, sent : SUBSET ClientSlots,
                  last_seq : 0..MaxSeq, released_seq : 0..MaxSeq]

Phases == {"unused", "backlog", "replied", "added", "attached", "dropped", "refused", "ended"}
ConnRecords ==
    [phase : Phases, caps : {"v2", "legacy"}, gen : Generations \cup {0}, slot : ClientSlots,
     app : {"closed", "open", "orphan"}, out : Seq(Records), in : Seq(Replies),
     reader : BOOLEAN, checked : Replies \cup {NoRecord}]

Links == [conn : Conns \cup {NoConn}, state : {"none", "connecting", "live", "closing"},
          known : SUBSET Surfaces, retired : SUBSET Dyn, surf : Surfaces, seq : 0..MaxSeq,
          pending : BOOLEAN, held : BOOLEAN]
GpuCommands == [op : {"sample", "signal"}, surf : Surfaces, gen : Generations, seq : Seqs]
Draws == [slot : Outputs, gen : Generations, seq : Seqs, wait : Nat]

\* The variables range over the values the two processes can hold; the app's
\* frame and the connection it came from go together; a repaint in progress is
\* of one kind and has a sequence number left.
TypeOK ==
    /\ generation \in Generations
    /\ clients \in [ClientSlots -> Conns \cup {NoConn}]
    /\ queue \in Queues
    /\ streams \in [Dyn -> StreamRecords]
    /\ dirty_seq \in 0..MaxSeq
    /\ clock \in BOOLEAN
    /\ conns \in [Conns -> ConnRecords]
    /\ app \in Links
    /\ app.state = "none" <=> app.conn = NoConn
    /\ app.state \in {"live", "closing"} => conns[app.conn].gen # 0
    /\ app.pending \/ app.held => app.seq # 0 /\ app.state \in {"live", "closing"}
    /\ app_gpu \in Seq(GpuCommands)
    /\ timeline \in 0..MaxSeq
    /\ comp \in [target : Outputs \cup {NoSlot}, drawn : BOOLEAN, direct : Dyn \cup {Nothing}]
    /\ comp.drawn => comp.target # NoSlot
    /\ comp.target = NoSlot \/ comp.direct = Nothing
    /\ CompIdle \/ dirty_seq < MaxSeq
    /\ gpu_wait \in Nat
    /\ writes \subseteq Draws
    /\ overlaps \subseteq Conns
    /\ stale \subseteq Dyn

\* A stream-v2 consumer is alone: add_client admits no second client beside it
\* and no stream-v2 client beside another.
SingleConsumer == V2Mask # {} => Cardinality(Active) = 1

\* Every attached client completed its handshake against the outputs that are
\* current now, however resizes and handshakes interleave: no client is shown
\* surfaces a resize replaced (handle_client's snapshot, add_client's check).
CurrentGeneration == \A s \in Active : conns[clients[s]].gen = generation

\* An output buffer is owed only to stream-v2 clients that are attached: a
\* client slot taken over by a new connection inherits no debt, and no buffer
\* waits for a RELEASED nobody can send (clear_client_pending_locked).
PendingOwnedByLive == \A i \in Outputs : queue.slots[i].pending \subseteq V2Mask

WritesNow ==
    {[slot |-> IF w.gen = generation THEN w.slot ELSE -1, seq |-> w.seq, wait |-> w.wait] : w \in writes}

Ownership == INSTANCE OutputOwnership WITH
    Clients <- ClientSlots, live <- V2Mask, target <- comp.target,
    drawn <- comp.drawn, uses <- UsesNow, writes <- WritesNow

\* A handshake lifted a quarantine while the app was still to read the buffer:
\* the same process connected again before its GPU queue had drained.
Overlapped == overlaps # {}

\* Threads, sockets, reader races, reconnects and both processes together do
\* nothing but what the ownership contract allows, except that a handshake may
\* lift a quarantine too early.
OwnershipContract ==
    /\ Ownership!Init
    /\ [][Ownership!Next \/ \E c \in overlaps' : HsAdd(c)]_(Ownership!vars)

\* No frame is drawn over while it is read: when the app's GPU may sample a
\* frame in an output buffer, its fence reached, every draw queued into that
\* buffer still awaits a release event to come.  docs/handoff/iosc-compositor.md
\* says that quarantine and handshake see to it.
FramesReadWhole ==
    \A w \in writes :
        /\ app_gpu # <<>> /\ Head(app_gpu).op = "sample"
        /\ Head(app_gpu).surf = w.slot /\ Head(app_gpu).gen = w.gen
        /\ \A v \in writes : Head(app_gpu).seq < v.seq
        => timeline < w.wait

\* What the code achieves of it (XIOSMetalSync's fence, wait and release event
\* together): no frame is drawn over until a handshake overlaps what the app's
\* GPU has still to read.
ConsumerReadsWhole == Overlapped \/ FramesReadWhole

\* When a handshake completes with no client attached, every direct surface is
\* given back, its last frame counting as released, except those that were with
\* a client when the outputs were resized ("Direct-present buffers use the same
\* boundary", recover_consumer_after_handshake_locked: it skips the ones whose
\* sent bits xios_surface_resize left set).
HandshakeRecoversDirect ==
    [][ Active = {} /\ Active' # {} =>
            \A d \in Dyn : streams[d].state = "registered" /\ d \notin stale =>
                streams'[d].released_seq = streams'[d].last_seq ]_vars

\* A DIRTY never names a surface the app has not been given, over any number of
\* connections, except a direct surface that was with a client when the outputs
\* were resized.
DirtyNamesKnownSurface ==
    AppHas("dirty") =>
        \/ AppRecord.surf \in app.known
        \/ AppRecord.surf \in stale

\* With a consumer attached, an output buffer becomes available again and
\* again: the exchange of DIRTY and RELEASED never leaves the compositor
\* without a buffer for good.
BufferAvailable ==
    []<>(\/ V2Mask = {}
         \/ comp.target # NoSlot
         \/ \E i \in Outputs : QueueOffers(queue, TRUE, i))

\* The two GPU queues never wait for each other in a circle: queued drawing
\* finishes.
DrawsFinish == []<>(writes = {})
=============================================================================
