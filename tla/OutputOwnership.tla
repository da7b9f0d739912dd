-------------------------- MODULE OutputOwnership --------------------------
(***************************************************************************)
(* What the output swapchain promises: the compositor's GPU never writes   *)
(* an output buffer while the app's GPU may still read an earlier frame    *)
(* out of it.                                                              *)
(*                                                                         *)
(* The server side (acquire, wait, draw, publish, RELEASED, drop,          *)
(* handshake, resize) is the code of xios_surface.c over the queue of      *)
(* xios_output_queue.h, at the grain of its critical sections.  The two    *)
(* GPUs are reduced to what the code relies on: the compositor's command   *)
(* stream runs in order and a wait in it holds back everything queued      *)
(* after it; the consumer reads a frame only once the frame's own fence    *)
(* has fired; release signals of one consumer fire in order.               *)
(*                                                                         *)
(*   uses     the frames a stream-v2 consumer may read: "sent" (DIRTY      *)
(*            delivered), "held" (sampling committed), "releasing" (the    *)
(*            release signal is committed behind the sampling)             *)
(*   writes   the draws queued in the compositor's stream and not finished *)
(*   gpu_wait the highest release value the stream has been told to await  *)
(*   timeline the value of the shared release event                       *)
(***************************************************************************)
EXTENDS OutputQueue

CONSTANTS Clients,      \* client slots of the server (bits of a mask)
          Count,        \* output buffers, s_output_count
          MaxSeq        \* bound: frames published

ASSUME CountAssumption == Count \in Nat \ {0}
ASSUME MaxSeqAssumption == MaxSeq \in Nat
ASSUME ClientsAssumption == Clients # {}

VARIABLES queue, dirty_seq, live, target, drawn, gpu_wait, writes, uses, timeline

vars == <<queue, dirty_seq, live, target, drawn, gpu_wait, writes, uses, timeline>>

Slots == 0..(Count - 1)

\* A surface outside the current swapchain: a directly presented client
\* buffer, or an allocation a resize has replaced.
Elsewhere == -1

Stages == {"sent", "held", "releasing"}

SlotRecords ==
    [acquired : BOOLEAN, abandoned : BOOLEAN, pending : SUBSET Clients,
     wait : Nat, last_frame : Nat, last_seq : Nat]

Queues == [count : {Count}, cursor : Slots, frame : Nat,
           slots : [Slots -> SlotRecords]]

Uses == [slot : Slots \cup {Elsewhere}, seq : Nat \ {0}, stage : Stages]

Writes == [slot : Slots \cup {Elsewhere}, seq : Nat \ {0}, wait : Nat]

\* The variables range over the values the C fields can hold.
TypeOK ==
    /\ queue \in Queues
    /\ dirty_seq \in Nat
    /\ live \in SUBSET Clients
    /\ target \in Slots \cup {NoSlot}
    /\ drawn \in BOOLEAN
    /\ gpu_wait \in Nat
    /\ writes \in SUBSET Writes
    /\ uses \in SUBSET Uses
    /\ timeline \in Nat

Init ==
    /\ queue = QueueReset(Count)
    /\ dirty_seq = 0
    /\ live = {}
    /\ target = NoSlot
    /\ drawn = FALSE
    /\ gpu_wait = 0
    /\ writes = {}
    /\ uses = {}
    /\ timeline = 0

-----------------------------------------------------------------------------
(* The compositor thread.                                                  *)

\* xios_output_acquire, and the release wait recomposite_now queues at once.
Acquire(i) ==
    /\ target = NoSlot
    /\ QueueOffers(queue, live # {}, i)
    /\ target' = i
    /\ gpu_wait' = Larger(gpu_wait, queue.slots[i].wait)
    /\ queue' = QueueAcquire(queue, live # {}, i)
    /\ UNCHANGED <<dirty_seq, live, drawn, writes, uses, timeline>>

\* The repaint found nothing to draw and gives the buffer back.
Cancel ==
    /\ target # NoSlot
    /\ ~drawn
    /\ queue' = QueueCancel(queue, target)
    /\ target' = NoSlot
    /\ UNCHANGED <<dirty_seq, live, drawn, gpu_wait, writes, uses, timeline>>

\* Drawing is queued; the frame will carry the next sequence number.
Draw ==
    /\ target # NoSlot
    /\ ~drawn
    /\ dirty_seq < MaxSeq
    /\ drawn' = TRUE
    /\ writes' = writes \cup
                 {[slot |-> target, seq |-> dirty_seq + 1, wait |-> gpu_wait]}
    /\ UNCHANGED <<queue, dirty_seq, live, target, gpu_wait, uses, timeline>>

\* The use a DIRTY record hands to the consumers it was delivered to, unless
\* they have given up the connection and will never read it.
NewUse(slot, delivered) ==
    IF delivered = {} THEN {}
    ELSE {[slot |-> slot, seq |-> dirty_seq + 1, stage |-> "sent"]}

\* notify_dirty_internal for an output: a client the record could not be
\* written to is dropped, each notified consumer owns the slot.
Publish(delivered, lost) ==
    /\ target # NoSlot
    /\ drawn
    /\ delivered \cap lost = {}
    /\ dirty_seq' = dirty_seq + 1
    /\ live' = live \ lost
    /\ queue' = QueuePublish(QueueDropClients(queue, lost), target, delivered, dirty_seq + 1)
    /\ \E read \in SUBSET NewUse(target, delivered) : uses' = uses \cup read
    /\ target' = NoSlot
    /\ drawn' = FALSE
    /\ UNCHANGED <<gpu_wait, writes, timeline>>

\* notify_dirty_internal for a directly presented client buffer.
PublishElsewhere(delivered, lost) ==
    /\ target = NoSlot
    /\ dirty_seq < MaxSeq
    /\ delivered \cap lost = {}
    /\ dirty_seq' = dirty_seq + 1
    /\ live' = live \ lost
    /\ queue' = QueueDropClients(queue, lost)
    /\ \E read \in SUBSET NewUse(Elsewhere, delivered) : uses' = uses \cup read
    /\ UNCHANGED <<target, drawn, gpu_wait, writes, timeline>>

\* xios_surface_resize: new allocations, a new queue, every client closed.
Resize ==
    /\ target = NoSlot
    /\ queue' = QueueReset(Count)
    /\ live' = {}
    /\ uses' = {[u EXCEPT !.slot = Elsewhere] : u \in uses}
    /\ writes' = {[w EXCEPT !.slot = Elsewhere] : w \in writes}
    /\ UNCHANGED <<dirty_seq, target, drawn, gpu_wait, timeline>>

-----------------------------------------------------------------------------
(* The accept and reader threads.                                          *)

\* add_client with no client attached: a completed handshake lifts the
\* quarantine.  The code takes the handshake as proof that the previous
\* consumer no longer reads a quarantined buffer; that is the premise here.
HandshakeProof == \A u \in uses : u.slot \in Slots => ~queue.slots[u.slot].abandoned

\* `v2' is the slot a stream-v2 consumer got, or {} for a legacy one.
Attach(v2) ==
    /\ live = {}
    /\ HandshakeProof
    /\ queue' = QueueRecover(queue)
    /\ live' = v2
    /\ UNCHANGED <<dirty_seq, target, drawn, gpu_wait, writes, uses, timeline>>

\* drop_client_locked, drop_client_identity_locked
Drop(lost) ==
    /\ live' = live \ lost
    /\ queue' = QueueDropClients(queue, lost)
    /\ UNCHANGED <<dirty_seq, target, drawn, gpu_wait, writes, uses, timeline>>

\* The RELEASED branch of handle_client_msg.  A consumer sends RELEASED only
\* after it committed the release signal of that frame.
Release(c, i, seq) ==
    /\ c \in live
    /\ \A u \in uses : u.slot = i /\ u.seq = seq => u.stage = "releasing"
    /\ QueueReleasable(queue, i, c, seq)
    /\ queue' = QueueRelease(queue, i, c, seq)
    /\ UNCHANGED <<dirty_seq, live, target, drawn, gpu_wait, writes, uses, timeline>>

-----------------------------------------------------------------------------
(* The consumer and the two GPUs.                                          *)

\* The consumer commits a frame's sampling, then its release.
Advance(u) ==
    /\ \E next \in {<<"sent", "held">>, <<"held", "releasing">>} :
          /\ u.stage = next[1]
          /\ uses' = (uses \ {u}) \cup {[u EXCEPT !.stage = next[2]]}
    /\ UNCHANGED <<queue, dirty_seq, live, target, drawn, gpu_wait, writes, timeline>>

\* A consumer that is torn down stops reading without a signal.
Vanish(gone) ==
    /\ uses' = uses \ gone
    /\ UNCHANGED <<queue, dirty_seq, live, target, drawn, gpu_wait, writes, timeline>>

\* The fence of frame seq has fired: every draw up to it is done.
FenceFired(seq) == \A w \in writes : w.seq > seq

\* The consumer's GPU may be reading the buffer for this use right now.
Reading(u) == u.stage \in {"held", "releasing"} /\ FenceFired(u.seq)

\* The release signal fires: the frame's reads are over.
Signal(u) ==
    /\ u.stage = "releasing"
    /\ u.slot \in Slots => FenceFired(u.seq)
    /\ \A v \in uses : u.seq <= v.seq
    /\ timeline' = u.seq
    /\ uses' = uses \ {u}
    /\ UNCHANGED <<queue, dirty_seq, live, target, drawn, gpu_wait, writes>>

\* The compositor's GPU may be executing this draw right now.
Executing(w) == timeline >= w.wait /\ \A v \in writes : w.seq <= v.seq

WriteDone(w) ==
    /\ Executing(w)
    /\ writes' = writes \ {w}
    /\ UNCHANGED <<queue, dirty_seq, live, target, drawn, gpu_wait, uses, timeline>>

Next ==
    \/ \E i \in Slots : Acquire(i)
    \/ Cancel
    \/ Draw
    \/ \E delivered \in SUBSET live, lost \in SUBSET live : Publish(delivered, lost)
    \/ \E delivered \in SUBSET live, lost \in SUBSET live : PublishElsewhere(delivered, lost)
    \/ Resize
    \/ \E v2 \in {{}} \cup {{c} : c \in Clients} : Attach(v2)
    \/ \E lost \in SUBSET live : Drop(lost)
    \/ \E c \in Clients, i \in Slots, seq \in 1..dirty_seq : Release(c, i, seq)
    \/ \E u \in uses : Advance(u)
    \/ \E gone \in SUBSET uses : Vanish(gone)
    \/ \E u \in uses : Signal(u)
    \/ \E w \in writes : WriteDone(w)

Spec == Init /\ [][Next]_vars

-----------------------------------------------------------------------------
(* Safety.                                                                 *)

\* The compositor's GPU never executes a draw into an output buffer while the
\* consumer's GPU may still be reading an earlier frame out of that buffer.
\* (xios_output_acquire, iosc_gl_wait_release, the RELEASED handler.)
Exclusion ==
    \A w \in writes, u \in uses :
        w.slot = u.slot /\ w.slot \in Slots /\ Executing(w) => ~Reading(u)

\* A buffer whose frame the consumer holds without having committed its
\* release is never handed to the compositor again, whatever connection drops,
\* late releases and reconnects happen (xios_output_queue_drop_client,
\* xios_output_queue_release, xios_output_queue_recover_abandoned).
HeldBufferNotReissued ==
    \A u \in uses :
        u.slot \in Slots /\ u.stage # "releasing" =>
            ~SlotFree(queue.slots[u.slot]) /\ u.slot # target

-----------------------------------------------------------------------------
(* The inductive invariant behind Exclusion.                               *)

\* The slot is kept from the compositor on account of this use.
KeptFor(u) ==
    \/ queue.slots[u.slot].abandoned
    \/ queue.slots[u.slot].pending # {} /\ queue.slots[u.slot].last_seq = u.seq

\* The slot the compositor draws into is marked, owed to nobody, and its
\* release wait has been moved into the command stream.
TargetInv ==
    /\ \A i \in Slots : queue.slots[i].acquired <=> target = i
    /\ \A i \in Slots : queue.slots[i].acquired =>
          /\ queue.slots[i].pending = {}
          /\ ~queue.slots[i].abandoned
          /\ queue.slots[i].wait = 0
    /\ drawn => target # NoSlot

\* Sequence numbers: nothing in flight is newer than the frame being drawn,
\* and no use is older than what the release event has already reached.
SeqInv ==
    /\ timeline <= dirty_seq
    /\ \A u \in uses : timeline < u.seq /\ u.seq <= dirty_seq
    /\ \A u, v \in uses : u.seq = v.seq => u = v
    /\ \A w \in writes : w.seq <= dirty_seq \/ (drawn /\ w.seq = dirty_seq + 1)
    /\ \A i \in Slots : queue.slots[i].last_seq <= dirty_seq

\* Every use is covered: by the queue, or, once its release is committed, by a
\* wait that the next draw into the slot is queued behind.
UseInv ==
    \A u \in uses : u.slot \in Slots =>
        \/ KeptFor(u)
        \/ /\ u.stage = "releasing"
           /\ \/ queue.slots[u.slot].wait >= u.seq
              \/ gpu_wait >= u.seq

\* A draw queued over an older use of its buffer awaits that use's release.
WriteInv ==
    \A w \in writes, u \in uses :
        w.slot = u.slot /\ w.slot \in Slots /\ u.seq < w.seq =>
            u.stage = "releasing" /\ w.wait >= u.seq

\* The four parts together; they hold initially, every step of the server,
\* the consumer and the GPUs preserves them, and they imply Exclusion.
OwnershipInv == TargetInv /\ SeqInv /\ UseInv /\ WriteInv
=============================================================================
