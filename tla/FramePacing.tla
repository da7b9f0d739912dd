---------------------------- MODULE FramePacing ----------------------------
(***************************************************************************)
(* When the compositor repaints and when it answers its clients: the       *)
(* repaint schedule, presentation feedback and frame callbacks of iosc.c.  *)
(*                                                                         *)
(* Everything here runs on the one event-loop thread, so a handler is one  *)
(* action; what interleaves is the order in which the loop delivers client *)
(* requests, the idle source and the three timers, and what the app does   *)
(* on its own.  The surfaces are mapped toplevels; a feedback or a frame   *)
(* callback is named by the commit it was requested for.  The app is a     *)
(* stream-v2 client in client slot 0; its threads are SurfaceStream's      *)
(* subject and appear here by what they do to the server's state.          *)
(***************************************************************************)
EXTENDS OutputQueue, Sequences, FiniteSets, SequencesExt

CONSTANTS Surfaces,    \* client surfaces
          Count,       \* output buffers
          MaxCommits,  \* bound: commits per surface
          MaxCopies,   \* bound: screencopy requests
          MaxDrops     \* bound: times the app goes away

ASSUME PacingAssumption ==
    /\ Count \in Nat \ {0}
    /\ {MaxCommits, MaxCopies, MaxDrops} \subseteq Nat

VARIABLES
    commits,       \* commits made on each surface
    alive,         \* surfaces not destroyed: g_surfaces
    asked,         \* surfaces with a feedback requested since their last commit
    offscreen,     \* surfaces placed outside the output
    touched,       \* history: surfaces damaged since their last commit
    waiting,       \* presentation_feedbacks of each surface, oldest first
    frames,        \* frame_callbacks of each surface
    answered,      \* history: feedbacks presented, per surface
    batches,       \* g_present_batches, oldest first
    dirty,         \* surfaces with gl_dirty set
    damage,        \* g_output_damage_valid
    direct_active, \* g_direct_present_active
    scheduled,     \* g_recompose_scheduled
    idle,          \* recompose_idle is queued in the event loop
    timer,         \* g_repaint_timer_armed
    clock,         \* g_frame_clock_armed
    ack,           \* g_present_ack_timer is armed
    app,           \* xios_have_app_client
    newest,        \* newest DIRTY the app has received, 0 for none
    presented,     \* s_presented_seq
    dirty_seq,     \* s_dirty_seq
    queue,         \* s_output_queue
    copies, drops  \* counters for the bounds

client == <<commits, alive, asked, offscreen, touched>>
feedback == <<waiting, frames, answered, batches>>
schedule == <<scheduled, idle, timer>>
paint == <<dirty, damage, direct_active>>
stream == <<app, newest, presented, dirty_seq, queue>>
vars == <<client, feedback, paint, schedule, clock, ack, stream, copies, drops>>

Outputs == 0..(Count - 1)
NoFeedback == [s \in Surfaces |-> <<>>]
NoFrames == [s \in Surfaces |-> {}]

Init ==
    /\ commits = [s \in Surfaces |-> 0] /\ alive = Surfaces /\ asked = {} /\ touched = {}
    /\ offscreen \in SUBSET Surfaces
    /\ waiting = NoFeedback /\ frames = NoFrames /\ answered = NoFeedback
    /\ batches = <<>>
    /\ dirty = {} /\ damage = FALSE /\ direct_active = FALSE
    /\ scheduled = FALSE /\ idle = FALSE /\ timer = FALSE
    /\ clock = FALSE /\ ack = FALSE
    /\ app = FALSE /\ newest = 0 /\ presented = 0 /\ dirty_seq = 0
    /\ queue = QueueReset(Count)
    /\ copies = 0 /\ drops = 0

-----------------------------------------------------------------------------
(* Answering clients.                                                      *)

\* The feedbacks of surface s held by a sequence of batches, oldest first.
BatchFeedback(bs, s) == FlattenSeq([i \in DOMAIN bs |-> bs[i].feedbacks[s]])

\* frame_callbacks_after_repaint: nobody will acknowledge the frame, so the
\* batches and then the surfaces' own lists are answered at once.
AfterRepaint ==
    /\ answered' = [s \in Surfaces |->
                       answered[s] \o BatchFeedback(batches, s) \o waiting[s]]
    /\ batches' = <<>>
    /\ waiting' = NoFeedback
    /\ frames' = NoFrames
    /\ clock' = FALSE
    /\ UNCHANGED ack

\* Slip: the batch waits for the frame after its own.
AfterPresentLate(attached, seq) ==
    IF ~attached THEN AfterRepaint
    ELSE /\ batches' = Append(batches, [seq |-> seq + 1, feedbacks |-> waiting,
                                        frames |-> frames])
         /\ waiting' = NoFeedback
         /\ frames' = NoFrames
         /\ clock' = FALSE
         /\ ack' = TRUE
         /\ UNCHANGED answered

\* frame_callbacks_after_present: everything outstanding joins a batch that
\* waits for the app to present generation seq.
AfterPresent(attached, seq) ==
    IF ~attached THEN AfterRepaint
    ELSE /\ batches' = Append(batches, [seq |-> seq, feedbacks |-> waiting,
                                        frames |-> frames])
         /\ waiting' = NoFeedback
         /\ frames' = NoFrames
         /\ clock' = FALSE
         /\ ack' = TRUE
         /\ UNCHANGED answered

\* Slip: batches still out are not looked at.
RepaintScheduled == scheduled

\* A repaint is coming, or an older frame is out.
RepaintPending == scheduled \/ batches # <<>>

\* frame_clock_timer_cb: callbacks always, feedback only when no repaint is
\* coming and no older batch is out.
ClockFire ==
    /\ clock
    /\ clock' = FALSE
    /\ frames' = NoFrames
    /\ IF RepaintPending
       THEN UNCHANGED <<waiting, answered>>
       ELSE /\ answered' = [s \in Surfaces |-> answered[s] \o waiting[s]]
            /\ waiting' = NoFeedback
    /\ UNCHANGED <<client, batches, paint, schedule, ack, stream, copies, drops>>

\* The batches the acknowledgement timer answers when the late oldest ones were
\* published 100 ms ago: the longest run of oldest ones that are late or presented.
Answerable(late) ==
    Cardinality({n \in DOMAIN batches :
                    \A i \in 1..n : i <= late \/ presented >= batches[i].seq})

\* Slip: feedback that waited for the batches is forgotten.
ClockAfterAckUnarmed(left) == clock

\* The frame clock is armed once no batch is left.
ClockAfterAck(left) == clock \/ left = <<>>

\* present_ack_timer_cb
AckTimer(late) ==
    /\ ack
    /\ LET left == SubSeq(batches, Answerable(late) + 1, Len(batches))
       IN  /\ answered' = [s \in Surfaces |-> answered[s] \o
                             BatchFeedback(SubSeq(batches, 1, Answerable(late)), s)]
           /\ batches' = left
           /\ ack' = (left # <<>>)
           /\ clock' = ClockAfterAck(left)
    /\ UNCHANGED <<client, waiting, frames, paint, schedule, stream, copies, drops>>

-----------------------------------------------------------------------------
(* Painting: recomposite_now.                                              *)

\* The one client's DIRTY record is sent, not sent because the socket is full,
\* or fails and drops the client.
Deliveries ==
    IF app THEN {"sent", "full"} \cup {x \in {"lost"} : drops < MaxDrops} ELSE {"none"}

\* notify_dirty_internal up to the publication: the queue it leaves.
Notify(q, delivery) ==
    /\ dirty_seq' = dirty_seq + 1
    /\ app' = (app /\ delivery # "lost")
    /\ newest' = (CASE delivery = "sent" -> dirty_seq + 1
                    [] delivery = "lost" -> 0
                    [] OTHER -> newest)
    /\ drops' = (IF delivery = "lost" THEN drops + 1 ELSE drops)
    /\ queue' = q
    /\ UNCHANGED presented

Delivered(delivery) == IF delivery = "sent" THEN {0} ELSE {}
Dropped(delivery) == IF delivery = "lost" THEN {0} ELSE {}

\* try_direct_present: the only mapped surface fills the output.  That its
\* buffer has a fence not yet consumed is left open.
DirectPaint(forced, sch) ==
    /\ ~forced /\ app
    /\ \E s \in alive \ offscreen : alive = {s} /\ dirty' = dirty \ {s}
    /\ \E delivery \in Deliveries :
        /\ Notify(QueueDropClients(queue, Dropped(delivery)), delivery)
        /\ AfterPresent(app', dirty_seq')
    /\ damage' = FALSE
    /\ direct_active' = TRUE
    /\ scheduled' = sch
    /\ timer' = FALSE

\* Slip: no retry is scheduled.
NoBufferGivesUp(d) ==
    /\ \A i \in Outputs : ~QueueOffers(queue, app, i)
    /\ damage' = d
    /\ scheduled' = FALSE
    /\ timer' = FALSE
    /\ UNCHANGED <<dirty, feedback, clock, ack, stream, drops>>

\* xios_output_acquire fails: the damage is kept for a retry in 4 ms.
NoBuffer(d) ==
    /\ \A i \in Outputs : ~QueueOffers(queue, app, i)
    /\ damage' = d
    /\ scheduled' = TRUE
    /\ timer' = TRUE
    /\ UNCHANGED <<dirty, feedback, clock, ack, stream, drops>>

\* Nothing is damaged and the buffer holds the last frame: it goes back.
EmptyPlan(i, d, sch) ==
    /\ ~d /\ QueueAge(queue, i) = 1
    /\ queue' = QueueCancel(QueueAcquire(queue, app, i), i)
    /\ damage' = FALSE
    /\ scheduled' = sch
    /\ timer' = FALSE
    /\ UNCHANGED <<dirty, feedback, clock, ack, app, newest, presented, dirty_seq,
                   drops>>

\* The damage and the history an older buffer needs are drawn and published.
PaintOutput(i, d, sch) ==
    /\ d \/ QueueAge(queue, i) # 1
    /\ \E delivery \in Deliveries :
        /\ Notify(QueuePublish(QueueDropClients(QueueAcquire(queue, app, i),
                                                Dropped(delivery)),
                               i, Delivered(delivery), dirty_seq + 1), delivery)
        /\ AfterPresent(app', dirty_seq')
    /\ dirty' = dirty \cap offscreen
    /\ damage' = FALSE
    /\ scheduled' = sch
    /\ timer' = FALSE

\* recomposite_now with damage d.  An armed repaint timer is retired first and
\* sch is what is then left of the schedule.
RecompositeNow(d, sch, forced) ==
    \/ DirectPaint(forced, sch)
    \/ /\ LET all == d \/ direct_active
          IN  \/ NoBuffer(all)
              \/ \E i \in Outputs :
                    /\ QueueOffers(queue, app, i)
                    /\ EmptyPlan(i, all, sch) \/ PaintOutput(i, all, sch)
       /\ direct_active' = FALSE

\* recompose_idle
IdleFire ==
    /\ idle
    /\ idle' = FALSE
    /\ RecompositeNow(damage, FALSE, FALSE)
    /\ UNCHANGED <<client, copies>>

\* repaint_timer_cb
TimerFire ==
    /\ timer
    /\ RecompositeNow(damage, FALSE, FALSE)
    /\ UNCHANGED <<client, idle, copies>>

\* Slip: the timer is disarmed, the flag stays.
AfterRetireFlagKept == scheduled

\* What is left of the schedule when recomposite_now retires the repaint timer.
AfterRetire == scheduled /\ ~timer

\* screencopy_do_copy, for a capture that leaves the pointer as it is.
Screencopy ==
    /\ copies < MaxCopies
    /\ copies' = copies + 1
    /\ RecompositeNow(TRUE, AfterRetire, TRUE)
    /\ UNCHANGED <<client, idle>>

-----------------------------------------------------------------------------
(* Client requests.                                                        *)

\* recomposite_all_at once the output damage is d: skipped when a repaint is
\* scheduled; without damage only the frame clock is armed.  The repaint is timed
\* by the app's display clock when there is one and its deadline is far enough,
\* and runs idle otherwise.
RecompositeAll(d) ==
    \/ scheduled /\ UNCHANGED <<schedule, clock>>
    \/ /\ ~scheduled /\ ~d
       /\ clock' = TRUE
       /\ UNCHANGED schedule
    \/ /\ ~scheduled /\ d
       /\ scheduled' = TRUE
       /\ \/ app /\ timer' = TRUE /\ UNCHANGED idle
          \/ idle' = TRUE /\ UNCHANGED timer
       /\ UNCHANGED clock

\* presentation_feedback: the request joins the surface's list at once, for the
\* commit that will follow.
Request(s) ==
    /\ s \in alive \ asked
    /\ commits[s] < MaxCommits
    /\ asked' = asked \cup {s}
    /\ waiting' = [waiting EXCEPT ![s] = Append(@, commits[s] + 1)]
    /\ UNCHANGED <<commits, alive, offscreen, touched, frames, answered, batches, paint,
                   schedule, clock, ack, stream, copies, drops>>

\* surface_damage, surface_damage_buffer: the output is damaged at the request.
Damage(s) ==
    /\ s \in alive /\ commits[s] < MaxCommits
    /\ dirty' = dirty \cup {s}
    /\ damage' = (damage \/ s \notin offscreen)
    /\ touched' = touched \cup {s}
    /\ UNCHANGED <<commits, alive, asked, offscreen, feedback, direct_active, schedule, clock, ack, stream,
                   copies, drops>>

\* A commit that needs no repaint leaves something to the frame clock.
ArmsClock(s) == frames'[s] # {} \/ waiting[s] # <<>>

\* surface_commit_apply, with or without a new buffer and a frame callback.
Commit(s, attach, frame) ==
    /\ s \in alive /\ commits[s] < MaxCommits
    /\ commits' = [commits EXCEPT ![s] = @ + 1]
    /\ asked' = asked \ {s}
    /\ touched' = touched \ {s}
    /\ frames' = [frames EXCEPT ![s] = IF frame THEN @ \cup {commits[s] + 1} ELSE @]
    /\ dirty' = IF attach THEN dirty \cup {s} ELSE dirty
    /\ damage' = (damage \/ (attach /\ s \notin offscreen))
    /\ IF attach \/ s \in dirty
       THEN RecompositeAll(damage')
       ELSE /\ clock' = (clock \/ ArmsClock(s))
            /\ UNCHANGED schedule
    /\ UNCHANGED <<alive, offscreen, waiting, answered, batches, direct_active, ack,
                   stream, copies, drops>>

\* surface_resource_destroy: what still waits on the surface is discarded.
Destroy(s) ==
    /\ s \in alive
    /\ alive' = alive \ {s}
    /\ asked' = asked \ {s}
    /\ touched' = touched \ {s}
    /\ waiting' = [waiting EXCEPT ![s] = <<>>]
    /\ frames' = [frames EXCEPT ![s] = {}]
    /\ dirty' = dirty \ {s}
    /\ damage' = (damage \/ s \notin offscreen)
    /\ RecompositeAll(damage')
    /\ UNCHANGED <<commits, offscreen, answered, batches, direct_active, ack, stream,
                   copies, drops>>

-----------------------------------------------------------------------------
(* The app.                                                                *)

\* A completed handshake recovers quarantined buffers.
AppAttach ==
    /\ ~app
    /\ app' = TRUE
    /\ queue' = QueueRecover(queue)
    /\ UNCHANGED <<client, feedback, paint, schedule, clock, ack, newest, presented,
                   dirty_seq, copies, drops>>

AppDrop ==
    /\ app /\ drops < MaxDrops
    /\ drops' = drops + 1
    /\ app' = FALSE
    /\ newest' = 0
    /\ queue' = QueueDropClients(queue, {0})
    /\ UNCHANGED <<client, feedback, paint, schedule, clock, ack, presented,
                   dirty_seq, copies>>

\* PRESENTED for the newest frame received; older ones are never shown.
AppPresent ==
    /\ app /\ newest > presented
    /\ presented' = newest
    /\ UNCHANGED <<client, feedback, paint, schedule, clock, ack, app, newest,
                   dirty_seq, queue, copies, drops>>

\* RELEASED for a buffer that is no longer shown.
AppRelease(i) ==
    /\ app /\ 0 \in queue.slots[i].pending
    /\ queue.slots[i].last_seq < presented
    /\ queue' = QueueRelease(queue, i, 0, queue.slots[i].last_seq)
    /\ UNCHANGED <<client, feedback, paint, schedule, clock, ack, app, newest,
                   presented, dirty_seq, copies, drops>>

-----------------------------------------------------------------------------
ClientStep ==
    \E s \in Surfaces :
        \/ Request(s) \/ Damage(s) \/ Destroy(s)
        \/ \E attach \in BOOLEAN, frame \in BOOLEAN : Commit(s, attach, frame)

LoopStep ==
    \/ IdleFire \/ TimerFire \/ ClockFire \/ Screencopy
    \/ \E late \in 0..Len(batches) : AckTimer(late)

AppStep == AppAttach \/ AppDrop \/ AppPresent \/ \E i \in Outputs : AppRelease(i)

Next == ClientStep \/ LoopStep \/ AppStep

Spec == Init /\ [][Next]_vars

\* The app, gone or not, holds every output buffer that could be painted: each
\* repaint is put off.
Starved == \A i \in Outputs : ~QueueOffers(queue, app, i)

\* The acknowledgement timer, when the oldest batch left is late.
LateAck ==
    \E late \in 0..Len(batches) : (late = 0 => batches = <<>>) /\ AckTimer(late)

\* The event loop runs its idle source and the timers that are due, and time
\* passes; nothing is assumed of clients or of the app.  This is weak fairness of
\* the four callbacks, in three of them with the states in which the callback is
\* due written out, so that TLC need not look for a successor to know; a retry that
\* finds no buffer changes nothing.
Fairness ==
    /\ WF_vars(ClockFire)
    /\ []<>~idle \/ []<><<IdleFire>>_vars
    /\ []<>(~timer \/ Starved) \/ []<><<TimerFire>>_vars
    /\ []<>~ack \/ []<><<LateAck>>_vars

FairSpec == Spec /\ Fairness

-----------------------------------------------------------------------------
(* Properties.                                                             *)

\* What the lists of feedbacks and callbacks, and a batch of them, range over.
Feedbacks == [Surfaces -> Seq(1..MaxCommits)]
Callbacks == [Surfaces -> SUBSET (1..MaxCommits)]
Batches == [seq : Nat, feedbacks : Feedbacks, frames : Callbacks]

\* Every variable keeps its type: no list names a commit beyond the bound, no
\* batch waits for a frame that was never published, and generations increase.
TypeOK ==
    /\ commits \in [Surfaces -> 0..MaxCommits]
    /\ alive \subseteq Surfaces /\ asked \subseteq alive
    /\ touched \subseteq alive /\ dirty \subseteq alive /\ offscreen \subseteq Surfaces
    /\ waiting \in Feedbacks /\ answered \in Feedbacks
    /\ frames \in Callbacks
    /\ batches \in Seq(Batches)
    /\ \A i \in DOMAIN batches : /\ batches[i].seq \in 1..dirty_seq
                                 /\ i > 1 => batches[i - 1].seq < batches[i].seq
    /\ {damage, direct_active, scheduled, idle, timer, clock, ack, app} \subseteq BOOLEAN
    /\ {presented, newest, dirty_seq} \subseteq Nat
    /\ presented <= dirty_seq /\ newest <= dirty_seq

\* A client's feedbacks are presented in commit order, whichever of the frame
\* clock, the acknowledgement timer and a repaint without an app answers them
\* (frame_clock_timer_cb: KWin pairs events with its oldest frame).
AnsweredInOrder ==
    \A s \in Surfaces : \A i, j \in DOMAIN answered[s] :
        i < j => answered[s][i] < answered[s][j]

\* No wake-up is lost: while g_recompose_scheduled makes recomposite_all return
\* early, an idle source or timer that will repaint exists, and while batches
\* are out the acknowledgement timer is armed.
WakeupPending ==
    /\ scheduled => idle \/ timer
    /\ batches # <<>> => ack

\* Output damage is never stranded: a repaint is scheduled for it, or the
\* client that damaged its surface has not committed (recomposite_now keeps the
\* damage when no buffer is free).
DamageScheduled == damage => scheduled \/ touched # {}

\* Feedbacks, callbacks of surface s a client waits for.
FeedbackOut(s) == Range(waiting[s]) \cup Range(BatchFeedback(batches, s))
FramesOut(s) == frames[s] \cup UNION {batches[i].frames[s] : i \in DOMAIN batches}

\* A capture has painted the damage a repaint is still scheduled for: that
\* repaint will find nothing to do.
Captured == scheduled /\ ~damage

\* The feedback of a commit that was made is owed; so is its callback, or both.
FeedbackOwed(s, n) == n \in FeedbackOut(s) /\ commits[s] >= n
AnswerOwed(s, n) == FeedbackOwed(s, n) \/ n \in FramesOut(s)

\* Every feedback of a commit ends in presented or discarded and every frame
\* callback is sent or goes with its surface (frame_clock_timer_cb): a client that
\* waits for its answer before it draws again is not stuck, whether the app is
\* there or not, unless the app keeps the buffers for ever, or a capture painted
\* the damage of a repaint the answer waited for.
EveryoneAnswered ==
    \/ <>[]Starved
    \/ \A s \in Surfaces : \A n \in 1..MaxCommits :
          \/ []<>~AnswerOwed(s, n)
          \/ <>(AnswerOwed(s, n) /\ Captured)

=============================================================================
