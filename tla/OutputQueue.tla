---------------------------- MODULE OutputQueue ----------------------------
(***************************************************************************)
(* The output-buffer ownership scheduler of xios_output_queue.h, as pure   *)
(* operators on a queue record.                                            *)
(*                                                                         *)
(* A queue is [count, cursor, frame, slots]; slots is a function on        *)
(* 0..count-1 whose values carry the fields of struct                      *)
(* xios_output_queue_slot.  The pending_clients bit mask is the set of     *)
(* client slots whose bit is set; `acquired' and `abandoned' are Booleans. *)
(***************************************************************************)
EXTENDS Integers

\* No slot: the compositor holds none.
NoSlot == -1

Larger(a, b) == IF a > b THEN a ELSE b

FreshSlot == [acquired |-> FALSE, abandoned |-> FALSE, pending |-> {},
              wait |-> 0, last_frame |-> 0, last_seq |-> 0]

\* xios_output_queue_reset
QueueReset(count) ==
    [count |-> count, cursor |-> 0, frame |-> 0,
     slots |-> [i \in 0..(count - 1) |-> FreshSlot]]

SlotFree(slot) ==
    /\ ~slot.acquired
    /\ ~slot.abandoned
    /\ slot.pending = {}

\* How many slots an acquisition scans: all of them only for a stream-v2
\* consumer, slot zero alone otherwise.
ScanCount(q, rotate) == IF rotate THEN q.count ELSE 1

\* The n-th slot an acquisition looks at.
ScanSlot(q, rotate, n) == IF rotate THEN (q.cursor + n) % q.count ELSE 0

\* Slot i is the one xios_output_queue_acquire takes: the first free one in
\* scan order.  When no slot qualifies, acquire fails.
QueueOffers(q, rotate, i) ==
    \E n \in 0..(ScanCount(q, rotate) - 1) :
        /\ i = ScanSlot(q, rotate, n)
        /\ SlotFree(q.slots[i])
        /\ \A m \in 0..(n - 1) : ~SlotFree(q.slots[ScanSlot(q, rotate, m)])

\* The queue with slot i replaced.
WithSlot(q, i, slot) == [q EXCEPT !.slots = [q.slots EXCEPT ![i] = slot]]

\* A slot the compositor took; its release wait is handed over once.
TakenSlot(slot) == [slot EXCEPT !.acquired = TRUE, !.wait = 0]

\* The state after acquire took slot i.
QueueAcquire(q, rotate, i) ==
    [WithSlot(q, i, TakenSlot(q.slots[i]))
        EXCEPT !.cursor = (i + 1) % ScanCount(q, rotate)]

\* The EGL-style buffer age reported with slot i.
QueueAge(q, i) ==
    IF q.slots[i].last_frame # 0 /\ q.frame >= q.slots[i].last_frame
    THEN q.frame - q.slots[i].last_frame + 1
    ELSE 0

QueueCancel(q, i) == WithSlot(q, i, [q.slots[i] EXCEPT !.acquired = FALSE])

\* Slip: the frame counter is not advanced.
PublishFrameNotCounted(q, i, pending, seq) ==
    WithSlot(q, i, [acquired |-> FALSE, abandoned |-> FALSE,
                    pending |-> pending, wait |-> q.slots[i].wait,
                    last_frame |-> q.frame + 1, last_seq |-> seq])

QueuePublish(q, i, pending, seq) ==
    [WithSlot(q, i, [acquired |-> FALSE, abandoned |-> FALSE,
                     pending |-> pending, wait |-> q.slots[i].wait,
                     last_frame |-> q.frame + 1, last_seq |-> seq])
        EXCEPT !.frame = q.frame + 1]

\* Slip: a late RELEASED of an older frame is accepted.
ReleasableAnySeq(q, i, client, seq) == client \in q.slots[i].pending

\* Only the exact generation still owned by the client is accepted.
QueueReleasable(q, i, client, seq) ==
    /\ client \in q.slots[i].pending
    /\ q.slots[i].last_seq = seq

\* Slip: the release value is not kept for the next acquire to await.
ReleasedSlotNoWait(slot, client, seq) ==
    [slot EXCEPT !.pending = slot.pending \ {client}]

ReleasedSlot(slot, client, seq) ==
    [slot EXCEPT !.pending = slot.pending \ {client},
                 !.wait = Larger(slot.wait, seq)]

QueueRelease(q, i, client, seq) ==
    IF QueueReleasable(q, i, client, seq)
    THEN WithSlot(q, i, ReleasedSlot(q.slots[i], client, seq))
    ELSE q

\* Slip: the slots of a lost client are free at once.
DroppedSlotFreed(slot, lost) == [slot EXCEPT !.pending = slot.pending \ lost]

\* A slot a lost client still owned is quarantined, not freed.  Like the code's
\* client_bit, `lost' is a mask: any set of client slots.
DroppedSlot(slot, lost) ==
    [slot EXCEPT !.abandoned = slot.abandoned \/ slot.pending \cap lost # {},
                 !.pending = slot.pending \ lost]

QueueDropClients(q, lost) ==
    [q EXCEPT !.slots =
        [i \in 0..(q.count - 1) |-> DroppedSlot(q.slots[i], lost)]]

QueueRecover(q) ==
    [q EXCEPT !.slots =
        [i \in 0..(q.count - 1) |-> [q.slots[i] EXCEPT !.abandoned = FALSE]]]
=============================================================================
