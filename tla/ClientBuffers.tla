--------------------------- MODULE ClientBuffers ---------------------------
(***************************************************************************)
(* The life of the buffers a GL client draws into.                         *)
(*                                                                         *)
(* The EGL shim (iosc_egl_shim.c) gives every window a swapchain of        *)
(* IOSurfaces, commits them over the Wayland socket and draws into one     *)
(* again when its wl_buffer.release has come back.  The compositor         *)
(* (iosc.c) sends that release when another buffer replaces it, or, for a  *)
(* buffer it presented directly, only when the app has given the frame     *)
(* back; the app does so when it takes the next frame.  Three processes    *)
(* and two FIFO sockets lie between a swap and its release, the window can *)
(* be resized meanwhile, and a swap that waited too long takes a buffer    *)
(* that was never released.                                                *)
(*                                                                         *)
(* One window.  The repaint schedule, the batches' feedback and the output *)
(* buffers are modelled in FramePacing and SurfaceStream; here a repaint   *)
(* is due or not and a batch is the generation it waits for.               *)
(***************************************************************************)
EXTENDS Integers, Sequences, FiniteSets, SequencesExt, FiniteSetsExt

CONSTANTS NBuf,       \* IOSC_NBUF, the length of a swapchain
          MaxResize,  \* bound on wl_egl_window_resize
          MaxSwaps,   \* bound on eglSwapBuffers
          MaxPaints,  \* bound on published frames
          MaxDrops    \* bound on losses of the app

ASSUME BoundsAreNaturals ==
    /\ NBuf \in Nat \ {0}
    /\ {MaxResize, MaxSwaps, MaxPaints, MaxDrops} \subseteq Nat

VARIABLES
    pc,        \* the render thread: "draw", "wait" (win_next_buffer), "sync"
               \* (roundtrip of win_alloc_bufs), "gone" (eglDestroySurface)
    chain,     \* which swapchain bufs[] holds: one per window size
    cur,       \* w->cur
    busy,      \* buffers whose busy flag is set
    retired,   \* the retired list
    alive,     \* buffers that exist
    swaps,
    requests,  \* the socket to the compositor
    events,    \* the window's event queue
    synced,    \* the surface is a synchronized subsurface
    pending,   \* pending_buffer of a cached commit, and cache_pending
    current,   \* current_buffer
    direct_seq,\* direct_present_seq
    fenced,    \* buffers whose acquire fence nobody consumed (acquire_pending)
    held,      \* g_direct_buffer_releases
    repaint,   \* g_recompose_scheduled
    batches,   \* generations of g_present_batches
    paints,    \* the newest generation
    presented, \* xios_presented_generation
    released,  \* released_seq of each buffer's stream surface
    last,      \* last_seq of each buffer's stream surface
    app,       \* a stream-v2 app is attached
    dirty,     \* DIRTY records it has not drained
    shown,     \* the frame it retains for redraws
    unseen,    \* generations rendered and not yet reported PRESENTED
    replies,   \* its messages to the compositor
    drops,
    expired,   \* history: a swap ran out of its release budget
    slow       \* history: a batch was answered by the 100 ms valve

shim   == <<pc, chain, cur, busy, retired, alive, swaps, expired>>
wire   == <<requests, events>>
server == <<synced, pending, current, direct_seq, fenced, held, repaint, batches, slow>>
stream == <<paints, presented, released, last>>
viewer == <<app, dirty, shown, unseen, replies, drops>>
vars   == <<shim, wire, server, stream, viewer>>

Slots == 0..(NBuf - 1)
Chain(g) == {<<g, i>> : i \in Slots}
Buffers == UNION {Chain(g) : g \in 0..MaxResize}
None == <<>>
Drawn == <<chain, cur>>
NoFrame == [buf |-> None, seq |-> 0]

\* What one flush of the client carries, and what the compositor sends back.
Request(op, bs) == [op |-> op, bufs |-> bs]
Release(b) == [op |-> "release", buf |-> b]
Requested(op) == UNION {r.bufs : r \in {q \in Range(requests) : q.op = op}}

\* The elements of a list that are in S, in their order.
Selected(s, S) ==
    LET f[n \in 0..Len(s)] ==
            IF n = 0 THEN <<>> ELSE IF s[n] \in S THEN Append(f[n - 1], s[n]) ELSE f[n - 1]
    IN  f[Len(s)]

Init ==
    /\ pc = "draw" /\ chain = 0 /\ cur = 0
    /\ busy = {} /\ retired = {} /\ alive = Chain(0) /\ swaps = 0
    /\ requests = <<>> /\ events = <<>>
    /\ synced \in BOOLEAN
    /\ pending = [buf |-> None, cached |-> FALSE]
    /\ current = None /\ direct_seq = 0 /\ fenced = {} /\ held = <<>>
    /\ repaint = FALSE /\ batches = <<>>
    /\ paints = 0 /\ presented = 0
    /\ released = [b \in Buffers |-> 0] /\ last = [b \in Buffers |-> 0]
    /\ app = TRUE /\ dirty = <<>> /\ shown = NoFrame /\ unseen = <<>> /\ replies = <<>>
    /\ drops = 0 /\ expired = FALSE /\ slow = FALSE

-----------------------------------------------------------------------------
(* The EGL shim.                                                           *)

\* eglSwapBuffers up to win_next_buffer: the fence, attach, damage and commit
\* of one frame leave in one flush.
SwapBuffers ==
    /\ pc = "draw" /\ swaps < MaxSwaps
    /\ swaps' = swaps + 1
    /\ requests' = Append(requests, Request("frame", {Drawn}))
    /\ busy' = busy \cup {Drawn}
    /\ pc' = "wait"
    /\ UNCHANGED <<chain, cur, retired, alive, expired, events, server, stream, viewer>>

\* win_find_free_buffer: offsets, from the slot after the one committed, of the
\* buffers that are not busy.
FreeOffsets == {n \in Slots : <<chain, (cur + 1 + n) % NBuf>> \notin busy}

\* win_next_buffer finds a released buffer.
NextBuffer ==
    /\ pc = "wait" /\ FreeOffsets # {}
    /\ cur' = (cur + 1 + Min(FreeOffsets)) % NBuf
    /\ pc' = "draw"
    /\ UNCHANGED <<chain, busy, retired, alive, swaps, expired,
                   wire, server, stream, viewer>>

\* IOSC_RELEASE_BUDGET_MS passed with every buffer attached: the oldest one is
\* drawn into although it is still busy.  Bound: once in a behaviour.
BudgetExpires ==
    /\ pc = "wait" /\ FreeOffsets = {} /\ ~ expired
    /\ cur' = (cur + 1) % NBuf
    /\ pc' = "draw"
    /\ expired' = TRUE
    /\ UNCHANGED <<chain, busy, retired, alive, swaps,
                   wire, server, stream, viewer>>

\* buf_release: a release frees a slot of the swapchain, destroys a retired
\* buffer, and is dropped by libwayland when the buffer is gone.
BufRelease(b) ==
    /\ busy' = IF b \in alive THEN busy \ {b} ELSE busy
    /\ retired' = retired \ {b}
    /\ alive' = alive \ (retired \cap {b})
    /\ requests' = IF b \in retired THEN Append(requests, Request("destroy", {b})) ELSE requests
    /\ UNCHANGED <<pc, chain, cur>>

\* The end of win_alloc_bufs' roundtrip and the rest of win_sync_size, with the
\* buffers `freed` of the old swapchain destroyed and the others retired.
Replace(freed) ==
    /\ retired' = retired \cup (Chain(chain) \ freed)
    /\ alive' = (alive \ freed) \cup Chain(chain + 1)
    /\ requests' = IF freed = {} THEN requests ELSE Append(requests, Request("destroy", freed))
    /\ chain' = chain + 1 /\ cur' = 0
    /\ pc' = "draw"
    /\ UNCHANGED busy

AllocationDoneSlip == Replace(Chain(chain))

AllocationDone == Replace(Chain(chain) \ busy)

\* The thread dispatches the window's queue: while it waits for a buffer and
\* during the roundtrip.
DispatchEventSlip ==
    /\ pc = "sync" /\ events # <<>>
    /\ events' = Tail(events)
    /\ IF Head(events).op = "release" THEN BufRelease(Head(events).buf) ELSE AllocationDone
    /\ UNCHANGED <<swaps, expired, server, stream, viewer>>

DispatchEvent ==
    /\ pc \in {"wait", "sync"} /\ events # <<>>
    /\ events' = Tail(events)
    /\ IF Head(events).op = "release" THEN BufRelease(Head(events).buf) ELSE AllocationDone
    /\ UNCHANGED <<swaps, expired, server, stream, viewer>>

\* eglMakeCurrent finds that wl_egl_window_resize changed the size:
\* create_buffer for each slot and a roundtrip.
MakeCurrent ==
    /\ pc = "draw" /\ chain < MaxResize
    /\ requests' = Append(requests, Request("sync", {}))
    /\ pc' = "sync"
    /\ UNCHANGED <<chain, cur, busy, retired, alive, swaps, expired,
                   events, server, stream, viewer>>

\* eglDestroySurface destroys every buffer, busy or not, and frees the window; the
\* toolkit destroys the wl_surface.  Events of destroyed objects are dropped.
DestroySurface ==
    /\ pc = "draw"
    /\ pc' = "gone"
    /\ alive' = {} /\ busy' = {} /\ retired' = {}
    /\ chain' = 0 /\ cur' = 0
    /\ requests' = Append(requests, Request("surface", alive))
    /\ events' = <<>>
    /\ UNCHANGED <<swaps, expired, server, stream, viewer>>

-----------------------------------------------------------------------------
(* The compositor.                                                         *)

\* release_direct_buffers, on the queue evs: what the app has given back goes
\* to the client, in the order it was held.
GivenBack(h) == released[h.buf] >= h.seq
ReleaseDirect(evs) ==
    LET back == Selected(held, {h \in Range(held) : GivenBack(h)}) IN
    /\ events' = evs \o [n \in DOMAIN back |-> Release(back[n].buf)]
    /\ held' = Selected(held, {h \in Range(held) : ~ GivenBack(h)})

\* surface_set_buffer: the buffer that is replaced is released at once, or held
\* while the app may still show it.
SetBufferSlip(b) ==
    /\ held' = held
    /\ events' = IF current \notin {None, b} THEN Append(events, Release(current)) ELSE events
    /\ direct_seq' = IF current = b THEN direct_seq ELSE 0
    /\ current' = b

SetBufferLost(b) ==
    LET hold == direct_seq # 0 /\ released[current] < direct_seq IN
    /\ held' = held
    /\ events' = IF current \notin {None, b} /\ ~ hold
                 THEN Append(events, Release(current)) ELSE events
    /\ direct_seq' = IF current = b THEN direct_seq ELSE 0
    /\ current' = b

SetBuffer(b) ==
    LET old == current \notin {None, b}
        hold == direct_seq # 0 /\ released[current] < direct_seq
    IN
    /\ held' = IF old /\ hold THEN Append(held, [buf |-> current, seq |-> direct_seq]) ELSE held
    /\ events' = IF old /\ ~ hold THEN Append(events, Release(current)) ELSE events
    /\ direct_seq' = IF current = b THEN direct_seq ELSE 0
    /\ current' = b

\* set_acquire_fence, surface_attach and surface_commit of one frame.  A
\* synchronized subsurface keeps the attach until its parent commits; an attach
\* that was kept before is overwritten.
HandleFrame(b) ==
    /\ fenced' = fenced \cup {b}
    /\ IF synced
       THEN /\ pending' = [buf |-> b, cached |-> TRUE]
            /\ UNCHANGED <<current, direct_seq, held, repaint, events>>
       ELSE /\ SetBuffer(b)
            /\ repaint' = TRUE
            /\ UNCHANGED pending
    /\ UNCHANGED <<last, released>>

\* on_buffer_destroyed, on_pending_buffer_destroyed, direct_buffer_destroyed
\* and iosurface_buffer_resource_destroy, which unregisters the stream surface.
Forget(bs) ==
    /\ repaint' = (repaint \/ current \in bs)
    /\ held' = Selected(held, {h \in Range(held) : h.buf \notin bs})
    /\ fenced' = fenced \ bs
    /\ last' = [b \in Buffers |-> IF b \in bs THEN 0 ELSE last[b]]
    /\ released' = [b \in Buffers |-> IF b \in bs THEN 0 ELSE released[b]]
    /\ UNCHANGED events

HandleDestroy(bs) ==
    /\ pending' = IF pending.buf \in bs THEN [pending EXCEPT !.buf = None] ELSE pending
    /\ current' = IF current \in bs THEN None ELSE current
    /\ Forget(bs)
    /\ UNCHANGED direct_seq

\* The same for every buffer of the window, then surface_resource_destroy: no
\* release is sent.
HandleSurfaceGone(bs) ==
    /\ pending' = [buf |-> None, cached |-> FALSE]
    /\ current' = None
    /\ direct_seq' = 0
    /\ Forget(bs)

HandleSync ==
    /\ events' = Append(events, [op |-> "done", buf |-> None])
    /\ UNCHANGED <<pending, current, direct_seq, fenced, held, repaint, last, released>>

HandleRequest ==
    /\ requests # <<>>
    /\ requests' = Tail(requests)
    /\ LET r == Head(requests) IN
         \/ r.op = "frame" /\ \E b \in r.bufs : HandleFrame(b)
         \/ r.op = "destroy" /\ HandleDestroy(r.bufs)
         \/ r.op = "surface" /\ HandleSurfaceGone(r.bufs)
         \/ r.op = "sync" /\ HandleSync
    /\ UNCHANGED <<shim, synced, batches, slow, paints, presented, viewer>>

\* surface_apply_sync_children: the parent's commit applies the cached one.  A
\* pending buffer that died is a NULL attach.
ParentCommit ==
    /\ pending.cached
    /\ pending' = [buf |-> None, cached |-> FALSE]
    /\ SetBuffer(pending.buf)
    /\ repaint' = TRUE
    /\ UNCHANGED <<shim, requests, synced, fenced, batches, slow, stream, viewer>>

\* frame_callbacks_after_present: a batch waits for the app; without one every
\* batch is answered at once and held buffers are looked at.
AfterPresent ==
    IF app
    THEN /\ batches' = Append(batches, paints')
         /\ UNCHANGED <<held, events>>
    ELSE /\ batches' = <<>>
         /\ ReleaseDirect(events)

\* A repaint that composites the current buffer: buffer_draw waits for its
\* fence, and the frame the app gets is an output's.
RepaintComposite ==
    /\ repaint /\ paints < MaxPaints
    /\ repaint' = FALSE
    /\ paints' = paints + 1
    /\ fenced' = fenced \ {current}
    /\ dirty' = IF app THEN Append(dirty, [buf |-> None, seq |-> paints']) ELSE dirty
    /\ AfterPresent
    /\ UNCHANGED <<shim, requests, synced, pending, current, direct_seq, slow,
                   presented, released, last, app, shown, unseen, replies, drops>>

\* try_direct_present: nothing else is on screen and the buffer has a fence that
\* was not consumed.
RepaintDirect ==
    /\ repaint /\ paints < MaxPaints
    /\ app /\ current # None /\ current \in fenced
    /\ repaint' = FALSE
    /\ paints' = paints + 1
    /\ fenced' = fenced \ {current}
    /\ direct_seq' = paints'
    /\ last' = [last EXCEPT ![current] = paints']
    /\ dirty' = Append(dirty, [buf |-> current, seq |-> paints'])
    /\ AfterPresent
    /\ UNCHANGED <<shim, requests, synced, pending, current, slow,
                   presented, released, app, shown, unseen, replies, drops>>

\* present_ack_timer_cb answers the first k batches: acknowledged ones, and ones
\* whose 100 ms are over, up to the first that is neither.
AckTimerSlip(k) ==
    /\ k \in 1..Len(batches)
    /\ k < Len(batches) => presented < batches[k + 1]
    /\ slow' = (slow \/ \E n \in 1..k : presented < batches[n])
    /\ batches' = SubSeq(batches, k + 1, Len(batches))
    /\ UNCHANGED <<held, events, shim, requests, synced, pending, current, direct_seq, fenced,
                   repaint, stream, viewer>>

AckTimer(k) ==
    /\ k \in 1..Len(batches)
    /\ k < Len(batches) => presented < batches[k + 1]
    /\ slow' = (slow \/ \E n \in 1..k : presented < batches[n])
    /\ batches' = SubSeq(batches, k + 1, Len(batches))
    /\ ReleaseDirect(events)
    /\ UNCHANGED <<shim, requests, synced, pending, current, direct_seq, fenced,
                   repaint, stream, viewer>>

\* The server's reader thread: RELEASED and PRESENTED only move forward, and a
\* RELEASED for a surface no longer registered is ignored.
ReadReplySlip ==
    /\ replies # <<>>
    /\ replies' = Tail(replies)
    /\ LET m == Head(replies) IN
         IF m.op = "presented"
         THEN /\ presented' = Max({presented, m.seq})
              /\ UNCHANGED released
         ELSE /\ released' = [released EXCEPT ![m.buf] = Max({@, m.seq})]
              /\ UNCHANGED presented
    /\ UNCHANGED <<shim, wire, server, paints, last, app, dirty, shown, unseen, drops>>

ReadReply ==
    /\ replies # <<>>
    /\ replies' = Tail(replies)
    /\ LET m == Head(replies) IN
         IF m.op = "presented"
         THEN /\ presented' = Max({presented, m.seq})
              /\ UNCHANGED released
         ELSE /\ released' = [released EXCEPT ![m.buf] =
                                 IF last[m.buf] # 0 THEN Max({@, m.seq}) ELSE @]
              /\ UNCHANGED presented
    /\ UNCHANGED <<shim, wire, server, paints, last, app, dirty, shown, unseen, drops>>

-----------------------------------------------------------------------------
(* The app.                                                                *)

\* SurfaceLink.pump and present: the frame that replaces the retained one gives
\* that one back, then it is rendered.
AppDrain ==
    /\ app /\ dirty # <<>>
    /\ shown' = Head(dirty)
    /\ dirty' = Tail(dirty)
    /\ unseen' = Append(unseen, Head(dirty).seq)
    /\ replies' = IF shown.buf = None THEN replies
                  ELSE Append(replies, [op |-> "released", buf |-> shown.buf, seq |-> shown.seq])
    /\ UNCHANGED <<shim, wire, server, stream, app, drops>>

\* The presented handler of a frame.
AppPresented ==
    /\ app /\ unseen # <<>>
    /\ unseen' = Tail(unseen)
    /\ replies' = Append(replies, [op |-> "presented", buf |-> None, seq |-> Head(unseen)])
    /\ UNCHANGED <<shim, wire, server, stream, app, dirty, shown, drops>>

\* The app dies or its socket does: nothing it was sent is given back.
AppDrop ==
    /\ app /\ drops < MaxDrops
    /\ drops' = drops + 1
    /\ app' = FALSE
    /\ dirty' = <<>> /\ unseen' = <<>> /\ replies' = <<>> /\ shown' = NoFrame
    /\ UNCHANGED <<shim, wire, server, stream>>

\* recover_consumer_after_handshake_locked: the next handshake gives back every
\* direct frame of the old connection.
AppAttach ==
    /\ ~ app
    /\ app' = TRUE
    /\ released' = last
    /\ UNCHANGED <<shim, wire, server, paints, presented, last,
                   dirty, shown, unseen, replies, drops>>

-----------------------------------------------------------------------------
ShimStep == SwapBuffers \/ NextBuffer \/ BudgetExpires \/ DispatchEvent
            \/ MakeCurrent \/ DestroySurface

CompositorStep == HandleRequest \/ ParentCommit \/ RepaintComposite \/ RepaintDirect
                  \/ (\E k \in 1..MaxPaints : AckTimer(k)) \/ ReadReply

AppStep == AppDrain \/ AppPresented \/ AppDrop \/ AppAttach

Next == ShimStep \/ CompositorStep \/ AppStep

Spec == Init /\ [][Next]_vars

\* The four threads run: one that waits for a buffer takes it or dispatches its
\* queue, the event loop handles requests, repaints and timers, the reader reads,
\* and an attached app takes its frames and reports them.  Nobody has to swap,
\* resize or reconnect, and the release budget need never run out.
Fairness ==
    /\ WF_vars(NextBuffer \/ DispatchEvent)
    /\ WF_vars(HandleRequest \/ RepaintComposite \/ RepaintDirect
               \/ \E k \in 1..MaxPaints : AckTimer(k))
    /\ WF_vars(ReadReply)
    /\ WF_vars(AppDrain \/ AppPresented)

FairSpec == Spec /\ Fairness

-----------------------------------------------------------------------------
(* Properties.                                                             *)

\* What the sockets and lists carry.
Generations == 1..MaxPaints
Requests == [op : {"frame"}, bufs : {{b} : b \in Buffers}]
            \cup [op : {"destroy", "surface"}, bufs : SUBSET Buffers]
            \cup [op : {"sync"}, bufs : {{}}]
Events == [op : {"release"}, buf : Buffers] \cup [op : {"done"}, buf : {None}]
DirectFrames == [buf : Buffers, seq : Generations]
Frames == [buf : Buffers \cup {None}, seq : Generations]
Replies == [op : {"released"}, buf : Buffers, seq : Generations]
           \cup [op : {"presented"}, buf : {None}, seq : Generations]

\* The variables range over the values the three processes can hold: no
\* generation is ahead of the newest, and no more of a stream surface is given
\* back than was sent.
TypeOK ==
    /\ pc \in {"draw", "wait", "sync", "gone"}
    /\ chain \in 0..MaxResize /\ cur \in Slots
    /\ retired \subseteq alive /\ busy \cup alive \subseteq Buffers
    /\ swaps \in 0..MaxSwaps /\ drops \in 0..MaxDrops
    /\ requests \in Seq(Requests) /\ events \in Seq(Events)
    /\ current \in Buffers \cup {None} /\ fenced \subseteq Buffers
    /\ pending \in [buf : Buffers \cup {None}, cached : BOOLEAN]
    /\ held \in Seq(DirectFrames) /\ dirty \in Seq(Frames) /\ shown \in Frames \cup {NoFrame}
    /\ batches \in Seq(Generations) /\ unseen \in Seq(Generations) /\ replies \in Seq(Replies)
    /\ paints \in 0..MaxPaints /\ direct_seq \in 0..paints /\ presented \in 0..paints
    /\ released \in [Buffers -> 0..MaxPaints] /\ last \in [Buffers -> 0..MaxPaints]
    /\ \A b \in Buffers : released[b] <= last[b] /\ last[b] <= paints
    /\ {synced, repaint, app, expired, slow} \subseteq BOOLEAN

\* What may still be read of a buffer: a frame on its way, the pending or
\* current buffer of the surface, a frame the app was sent or retains.
InUse ==
    Requested("frame") \cup {current, pending.buf, shown.buf}
    \cup {f.buf : f \in Range(dirty)} \cup {h.buf : h \in Range(held)}

\* As long as no swap ran out of its release budget, the client never draws into
\* a buffer the compositor or the app may still show, whatever the delays on
\* the two sockets, the resizes and the losses of the app (buf_release,
\* surface_set_buffer's hold, release_direct_buffers).
DrawnBufferFree == pc = "draw" /\ ~ expired => Drawn \notin InUse

\* No release is lost: a busy buffer of a surface that is not a synchronized
\* subsurface is on its way, current, held, or its release is.
BusyAccounted ==
    ~ synced /\ pc # "gone" =>
        busy \subseteq Requested("frame") \cup {current} \cup {h.buf : h \in Range(held)}
                       \cup {e.buf : e \in Range(events)}

\* A resize destroys nothing that is on screen or waits to be: buffers the
\* compositor still holds are retired and outlive their slot (win_sync_size).
DestroyedNotShown ==
    pc # "gone" /\ ~ expired => Requested("destroy") \cap InUse = {}

\* While the app answers within the 100 ms valve and stays attached, a held
\* buffer it has given back is not forgotten: a batch still to be answered will
\* look at the list (frame_callbacks_after_repaint, present_ack_timer_cb are
\* the only places that do).
GivenBackNoticed ==
    ~ slow /\ drops = 0 /\ (\E n \in DOMAIN held : GivenBack(held[n])) => batches # <<>>

\* ... and so a swap that waits for a buffer gets one without its budget: the
\* client, the compositor and the app do not wait in a circle.
SwapProceeds ==
    pc = "wait" /\ ~ synced ~> pc # "wait" \/ slow \/ drops > 0 \/ (repaint /\ paints = MaxPaints)
=============================================================================
