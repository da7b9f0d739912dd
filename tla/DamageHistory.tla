--------------------------- MODULE DamageHistory ---------------------------
(***************************************************************************)
(* Partial repaints of a rotating swapchain: the output damage, its        *)
(* three-deep history and the buffer age reported by the output queue      *)
(* (iosc.c with iosc_render_plan.c and xios_output_queue.h).               *)
(*                                                                         *)
(* The output is a set of cells.  A buffer's contents are abstracted to    *)
(* the cells in which it differs from the scene, and a damage list to the  *)
(* cells it covers: merging rectangles, or giving up at 16 of them, may    *)
(* cover more than was added and never less.                               *)
(***************************************************************************)
EXTENDS OutputQueue

CONSTANTS Cells,      \* the output's pixels
          Count,      \* output buffers
          MaxFrames   \* bound: composited frames since the last resize

ASSUME HistoryAssumption ==
    /\ Cells # {}
    /\ Count \in Nat \ {0}
    /\ MaxFrames \in Nat

VARIABLES
    stale,         \* cells in which each output buffer differs from the scene
    damage,        \* cells of g_output_damage_rects
    history,       \* g_output_damage_history: cells, {} for an invalid entry
    serial,        \* g_output_damage_history_serial
    direct_active, \* g_direct_present_active
    app,           \* a stream-v2 client is attached (client slot 0)
    queue,         \* s_output_queue
    published      \* history: the buffer composited last was complete

vars == <<stale, damage, history, serial, direct_active, app, queue, published>>

Outputs == 0..(Count - 1)
Depth == 3
NoHistory == [k \in 0..(Depth - 1) |-> {}]

\* New IOSurfaces hold nothing of the scene.
Init ==
    /\ stale = [i \in Outputs |-> Cells]
    /\ damage = {}
    /\ history = NoHistory
    /\ serial = 0
    /\ direct_active = FALSE
    /\ app = FALSE
    /\ queue = QueueReset(Count)
    /\ published = TRUE

-----------------------------------------------------------------------------
\* Slip: one frame more than the history holds.
HistoryMissingDeeper(hist, ser, age) ==
    \/ age = 0
    \/ \E back \in 1..(age - 1) :
          \/ back > Depth + 1
          \/ ser < back
          \/ hist[(ser - back) % Depth] = {}

\* output_damage_history_apply finds no usable entry for some frame the buffer
\* missed: it is too old, older than the history, or was not recorded.
HistoryMissing(hist, ser, age) ==
    \/ age = 0
    \/ \E back \in 1..(age - 1) :
          \/ back > Depth
          \/ ser < back
          \/ hist[(ser - back) % Depth] = {}

\* The recorded damage of the frames the buffer missed.
Missed(hist, ser, age) ==
    UNION {hist[(ser - back) % Depth] : back \in 1..(age - 1)}

\* output_damage_history_apply and iosc_render_plan_build: the cells to draw.
Needed(d, hist, ser, age) ==
    IF HistoryMissing(hist, ser, age) THEN Cells
    ELSE d \cup Missed(hist, ser, age)

\* The scene changes in the cells of `changed', and a damage list covering them
\* is added (a request may also damage what does not change).
Damage(changed, covered) ==
    /\ covered # {}
    /\ damage \cup changed \subseteq covered
    /\ damage' = covered
    /\ stale' = [i \in Outputs |-> stale[i] \cup changed]
    /\ UNCHANGED <<history, serial, direct_active, app, queue, published>>

\* Slip: leaving direct presentation damages nothing.
DamageKept == damage

\* recomposite_now leaves direct presentation: no buffer can be patched.
DamageNow == IF direct_active THEN Cells ELSE damage
HistoryNow == IF direct_active THEN NoHistory ELSE history
SerialNow == IF direct_active THEN 0 ELSE serial

\* recomposite_now takes buffer i and draws at least what it needs; merging the
\* added rectangles may draw more.
Composite(i, drawn) ==
    /\ queue.frame < MaxFrames
    /\ QueueOffers(queue, app, i)
    /\ LET needed == Needed(DamageNow, HistoryNow, SerialNow, QueueAge(queue, i))
       IN  needed # {} /\ needed \subseteq drawn
    /\ stale' = [stale EXCEPT ![i] = @ \ drawn]
    /\ published' = (stale'[i] = {})
    /\ damage' = {}
    /\ history' = [HistoryNow EXCEPT ![SerialNow % Depth] = drawn]
    /\ serial' = SerialNow + 1
    /\ direct_active' = FALSE
    /\ \E pending \in SUBSET (IF app THEN {0} ELSE {}) :
          queue' = QueuePublish(QueueAcquire(queue, app, i), i, pending, queue.frame + 1)
    /\ UNCHANGED app

\* Nothing to draw: the buffer goes back.
CompositeEmpty(i) ==
    /\ QueueOffers(queue, app, i)
    /\ Needed(DamageNow, HistoryNow, SerialNow, QueueAge(queue, i)) = {}
    /\ queue' = QueueCancel(QueueAcquire(queue, app, i), i)
    /\ UNCHANGED <<stale, damage, history, serial, direct_active, app, published>>

\* No buffer is free; the damage is kept for the retry.
CompositeRetry ==
    /\ \A i \in Outputs : ~QueueOffers(queue, app, i)
    /\ damage' = DamageNow
    /\ history' = HistoryNow
    /\ serial' = SerialNow
    /\ direct_active' = FALSE
    /\ UNCHANGED <<stale, app, queue, published>>

\* try_direct_present: the client's own buffer is shown; the damage goes with
\* it and no output buffer is drawn.
DirectPresent ==
    /\ app
    /\ damage' = {}
    /\ direct_active' = TRUE
    /\ UNCHANGED <<stale, history, serial, app, queue, published>>

\* output_reconfigure_px with a new size: new buffers, empty history; the
\* clients are dropped.
Reconfigure ==
    /\ stale' = [i \in Outputs |-> Cells]
    /\ damage' = Cells
    /\ history' = NoHistory
    /\ serial' = 0
    /\ direct_active' = FALSE
    /\ app' = FALSE
    /\ queue' = QueueReset(Count)
    /\ UNCHANGED published

-----------------------------------------------------------------------------
(* What the app does to the queue, from the server's side.                 *)

AppAttach ==
    /\ ~app
    /\ app' = TRUE
    /\ queue' = QueueRecover(queue)
    /\ UNCHANGED <<stale, damage, history, serial, direct_active, published>>

AppDrop ==
    /\ app
    /\ app' = FALSE
    /\ queue' = QueueDropClients(queue, {0})
    /\ UNCHANGED <<stale, damage, history, serial, direct_active, published>>

AppRelease(i) ==
    /\ app /\ 0 \in queue.slots[i].pending
    /\ queue' = QueueRelease(queue, i, 0, queue.slots[i].last_seq)
    /\ UNCHANGED <<stale, damage, history, serial, direct_active, app, published>>

Next ==
    \/ \E changed \in SUBSET Cells, covered \in SUBSET Cells : Damage(changed, covered)
    \/ \E i \in Outputs, drawn \in SUBSET Cells : Composite(i, drawn)
    \/ \E i \in Outputs : CompositeEmpty(i) \/ AppRelease(i)
    \/ CompositeRetry \/ DirectPresent \/ Reconfigure
    \/ AppAttach \/ AppDrop

Spec == Init /\ [][Next]_vars

-----------------------------------------------------------------------------
(* Properties.                                                             *)

SlotRecords ==
    [acquired : BOOLEAN, abandoned : BOOLEAN, pending : SUBSET {0},
     wait : Nat, last_frame : Nat, last_seq : Nat]

Queues == [count : {Count}, cursor : Outputs, frame : Nat,
           slots : [Outputs -> SlotRecords]]

\* Every variable keeps its type, and no buffer was drawn in a frame yet to come.
TypeOK ==
    /\ stale \in [Outputs -> SUBSET Cells]
    /\ damage \subseteq Cells
    /\ history \in [0..(Depth - 1) -> SUBSET Cells]
    /\ serial \in Nat
    /\ direct_active \in BOOLEAN /\ app \in BOOLEAN /\ published \in BOOLEAN
    /\ queue \in Queues
    /\ \A i \in Outputs : queue.slots[i].last_frame <= queue.frame

\* A composited frame is complete: whatever buffer the queue hands out, however
\* long ago it was drawn, and whatever was presented directly or resized in
\* between, the repaint leaves it equal to the scene in every pixel.
FrameComplete == published

\* What each buffer lacks is in the damage, in the history of the frames it
\* missed, or the next repaint of it is a full one.
Recoverable ==
    \/ direct_active
    \/ \A i \in Outputs :
          stale[i] \subseteq Needed(damage, history, serial, QueueAge(queue, i))
=============================================================================
