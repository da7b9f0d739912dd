----------------------------- MODULE Clipboard -----------------------------
(***************************************************************************)
(* One clipboard kept in two places: the compositor's selection store and  *)
(* the iOS pasteboard.                                                     *)
(*                                                                         *)
(* The compositor reads a copied selection from its owner through one pipe *)
(* per representation (iosc.c), mirrors it in the bridge                   *)
(* (iosc-clipboard-bridge.c) and sends each representation, stamped with   *)
(* the copy's generation, to the app (ClipboardLink.swift), which writes   *)
(* the pasteboard.  An iOS copy goes the other way.  Reads finish in any   *)
(* order, records cross on the socket, either end may lose it, the app's   *)
(* writes run on a serial queue behind the main thread, and whoever        *)
(* reconnects must neither echo nor overwrite what the other side holds.   *)
(*                                                                         *)
(* A representation is the number of the user's copy it belongs to,        *)
(* positive on the desktop and negative on iOS, so a clipboard is a        *)
(* function from kinds to copies; 0 is an empty slot.                      *)
(***************************************************************************)
EXTENDS Integers, Sequences, FiniteSets, SequencesExt, FiniteSetsExt

CONSTANTS Kinds,      \* representations that cross: TEXT, PNG, ...
          GenMax,     \* the largest generation (2^32 - 1 in the code)
          MaxCopies,  \* bound on what users do on either side
          MaxDrops,   \* bound on lost connections
          MaxDetach,  \* bound on presentations of another desktop
          MaxRestart  \* bound on compositor restarts

None == "none"  \* the kind of a record that clears the clipboard

ASSUME ConstantsAreFinite ==
    /\ IsFiniteSet(Kinds) /\ Kinds # {} /\ None \notin Kinds
    /\ GenMax \in Nat /\ GenMax > 1
    /\ {MaxCopies, MaxDrops, MaxDetach, MaxRestart} \subseteq Nat

VARIABLES
    store,     \* g_clip_items
    readers,   \* g_clip_readers: kinds still read, and of which copy
    items,     \* the bridge's g_items
    gen,       \* the bridge's g_gen
    connected, \* the bridge has a handshaken client
    last_rx,   \* its last_rx_gen
    down, up,  \* the socket, to the app and to the compositor
    link,      \* the app's ClipboardLink: "closed", "idle", "connecting",
               \* "adopting", "open"
    object,    \* which ClipboardLink: one per presentation
    queue,     \* the serial dispatch queue
    rx_gen, rx_items,
    tx_gen,    \* s_tx_gen
    echo,      \* what each link last wrote to or read from the desktop
    deferred,  \* deferredPushTicks is running
    pb,        \* the pasteboard
    changed,   \* its changeCount moved since the link last looked
    copies, drops, detaches, restarts,
    alone,     \* history: since the newest copy was made nothing else was done
               \* while anything was under way, no push on connect outlasted what
               \* the desktop was sending, and some representation could be read
    emptied,   \* history: a source without types emptied the store alone
    mixed      \* history: what may merge two copies happened: a desktop selection
               \* between two records of one push, or generations that start
               \* again, or come round, under an app that remembers earlier ones

desktop == <<store, readers, items, gen, emptied, mixed>>
socket  == <<connected, last_rx, down, up>>
app     == <<link, object, queue, rx_gen, rx_items, tx_gen, echo, deferred>>
paste   == <<pb, changed>>
bounds  == <<copies, drops, detaches, restarts>>
vars    == <<desktop, socket, app, paste, bounds, alone>>

Empty == [k \in Kinds |-> 0]
SetKinds(c) == {k \in Kinds : c[k] # 0}
Whole(n, ks) == [k \in Kinds |-> IF k \in ks THEN n ELSE 0]

\* 0 is no generation: the counters skip it when they wrap.
NextGenSlip(g) == (g + 1) % (GenMax + 1)

NextGen(g) == IF g = GenMax THEN 1 ELSE g + 1

\* The records of a clipboard, one per kind; a clear is a record without one.
Record(k, g, n) == [kind |-> k, gen |-> g, item |-> n]
Records(c, g) == [n \in 1..Cardinality(SetKinds(c)) |->
                     LET k == SetToSeq(SetKinds(c))[n] IN Record(k, g, c[k])]

Init ==
    /\ store = Empty /\ readers = {} /\ items = Empty /\ gen = 0
    /\ connected = FALSE /\ last_rx = 0 /\ down = <<>> /\ up = <<>>
    /\ link = "idle" /\ object = 0 /\ queue = <<>> /\ rx_gen = 0 /\ rx_items = Empty
    /\ tx_gen = 0 /\ echo = [o \in 0..MaxDetach |-> Empty] /\ deferred = FALSE
    /\ pb = Empty /\ changed = FALSE
    /\ copies = 0 /\ drops = 0 /\ detaches = 0 /\ restarts = 0
    /\ alone = TRUE /\ emptied = FALSE /\ mixed = FALSE

\* Nothing is on its way between the two clipboards.
Quiet ==
    /\ link = "open" /\ connected /\ ~ changed /\ ~ deferred
    /\ down = <<>> /\ up = <<>> /\ queue = <<>> /\ readers = {}

\* A user acts.
UserActs ==
    /\ copies < MaxCopies
    /\ copies' = copies + 1
    /\ UNCHANGED <<drops, detaches, restarts>>

\* The newest copy is this one.
UserCopies ==
    /\ UserActs
    /\ alone' = (Quiet /\ restarts = 0)

-----------------------------------------------------------------------------
(* The compositor and its bridge.                                          *)

\* broadcast: a record for the handshaken client.
Broadcast(recs) == down' = IF connected THEN down \o recs ELSE down

\* The bridge has seen some records of a push and not all of them.
PushUnderWay == up # <<>> /\ Head(up).gen = last_rx

\* The next generation is one the app remembers, or will read of.
ComesRound == NextGen(gen) \in {rx_gen} \cup {down[n].gen : n \in DOMAIN down}

\* clip_ingest_source, from wl_data_device or wlr-data-control: the reads of the
\* selection it replaces are abandoned (clip_clear_items), a reader is set up
\* for each type offered, the bridge starts a new generation.
IngestSlip(n, ks) ==
    /\ store' = Empty
    /\ readers' = readers \cup {<<k, n>> : k \in ks}
    /\ gen' = NextGen(gen) /\ items' = Empty
    /\ emptied' = FALSE
    /\ mixed' = (mixed \/ PushUnderWay \/ ComesRound)

Ingest(n, ks) ==
    /\ store' = Empty
    /\ readers' = {<<k, n>> : k \in ks}
    /\ gen' = NextGen(gen) /\ items' = Empty
    /\ emptied' = FALSE
    /\ mixed' = (mixed \/ PushUnderWay \/ ComesRound)

DesktopCopy(ks) ==
    /\ UserCopies
    /\ Ingest(copies', ks)
    /\ UNCHANGED <<socket, app, paste>>

\* source_read_done: one representation is complete, or its read failed.
ReadDone(r) ==
    /\ readers' = readers \ {r}
    /\ store' = [store EXCEPT ![r[1]] = r[2]]
    /\ items' = [items EXCEPT ![r[1]] = r[2]]
    /\ Broadcast(<<Record(r[1], gen, r[2])>>)
    /\ UNCHANGED <<gen, emptied, mixed, connected, last_rx, up, app, paste, bounds, alone>>

ReadFails(r) ==
    /\ readers' = readers \ {r}
    /\ alone' = (alone /\ (store # Empty \/ readers' # {}))
    /\ UNCHANGED <<store, items, gen, emptied, mixed, socket, app, paste, bounds>>

SourceRead == \E r \in readers : ReadDone(r) \/ ReadFails(r)

\* data_device_set_selection without a source.
DesktopClear ==
    /\ UserCopies
    /\ store' = Empty /\ readers' = {}
    /\ gen' = NextGen(gen) /\ items' = Empty
    /\ Broadcast(<<Record(None, gen', 0)>>)
    /\ emptied' = FALSE
    /\ mixed' = (mixed \/ PushUnderWay \/ ComesRound)
    /\ UNCHANGED <<connected, last_rx, up, app, paste>>

\* data_control_device_set_selection with a source that offers nothing: the
\* store is emptied and the bridge is not told.
DataControlEmpty ==
    /\ UserCopies
    /\ store' = Empty /\ readers' = {}
    /\ emptied' = TRUE
    /\ UNCHANGED <<items, gen, mixed, socket, app, paste>>

\* rx_dispatch and clipboard_from_app: a generation not seen before on this
\* connection starts a new clipboard, the same one adds to it.
MirrorSlip(r, first) ==
    LET add(c) == IF r.kind = None THEN Empty ELSE [c EXCEPT ![r.kind] = r.item] IN
    /\ items' = add(IF first THEN Empty ELSE items)
    /\ store' = add(store)
    /\ readers' = IF first \/ r.kind = None THEN {} ELSE readers
    /\ gen' = IF first \/ r.kind = None THEN NextGen(gen) ELSE gen
    /\ emptied' = (emptied /\ ~ first /\ r.kind # None)

Mirror(r, first) ==
    LET old(c) == IF first THEN Empty ELSE c
        add(c) == IF r.kind = None THEN Empty ELSE [old(c) EXCEPT ![r.kind] = r.item]
    IN
    /\ items' = add(items)
    /\ store' = add(store)
    /\ readers' = IF first \/ r.kind = None THEN {} ELSE readers
    /\ gen' = IF first \/ r.kind = None THEN NextGen(gen) ELSE gen
    /\ emptied' = (emptied /\ ~ first /\ r.kind # None)

HandleRecord ==
    /\ up # <<>> /\ connected
    /\ up' = Tail(up)
    /\ last_rx' = Head(up).gen
    /\ Mirror(Head(up), Head(up).gen # last_rx)
    /\ mixed' = (mixed \/ (gen' # gen /\ ComesRound))
    /\ UNCHANGED <<connected, down, app, paste, bounds, alone>>

\* client_drop: a hangup, a full backlog, a protocol violation.  What the app
\* wrote is lost unread; what the bridge wrote may still be read.
ClientDrop ==
    /\ connected' = FALSE
    /\ up' = <<>>
    /\ UNCHANGED <<last_rx, down>>

ServerDrop ==
    /\ connected /\ drops < MaxDrops
    /\ drops' = drops + 1
    /\ alone' = (alone /\ Quiet)
    /\ ClientDrop
    /\ UNCHANGED <<desktop, app, paste, copies, detaches, restarts>>

\* The compositor dies and comes back behind the same socket path
\* (ioscclip_start): the store is empty and generations start again.
CompositorRestart ==
    /\ restarts < MaxRestart
    /\ restarts' = restarts + 1
    /\ store' = Empty /\ readers' = {} /\ items' = Empty /\ gen' = 0 /\ emptied' = FALSE
    /\ mixed' = (mixed \/ rx_gen # 0 \/ down # <<>>)
    /\ alone' = FALSE
    /\ ClientDrop
    /\ UNCHANGED <<app, paste, copies, drops, detaches>>

-----------------------------------------------------------------------------
(* The app's ClipboardLink: main thread.                                   *)

\* A user copies in an iOS app, or empties the pasteboard.
IOSCopy(ks) ==
    /\ UserCopies
    /\ pb' = Whole(- copies', ks)
    /\ changed' = TRUE
    /\ UNCHANGED <<desktop, socket, app>>

\* The changeCount moves without new contents.
IOSTouch ==
    /\ UserActs
    /\ changed' = TRUE
    /\ alone' = (alone /\ Quiet)
    /\ UNCHANGED <<desktop, socket, app, pb>>

\* service without a handle starts connect() on the queue.
ConnectStart ==
    /\ link = "idle"
    /\ link' = "connecting"
    /\ queue' = Append(queue, [op |-> "connect", object |-> object])
    /\ UNCHANGED <<desktop, socket, object, rx_gen, rx_items, tx_gen, echo, deferred,
                   paste, bounds, alone>>

\* The adopt on main: the pasteboard is looked at afresh, a push of it waits for
\* the desktop's replay.
Adopt ==
    /\ link = "adopting"
    /\ link' = "open"
    /\ changed' = FALSE
    /\ deferred' = TRUE
    /\ UNCHANGED <<desktop, socket, object, queue, rx_gen, rx_items, tx_gen, echo, pb, bounds, alone>>

\* What a record makes of the generation and the items received so far.
Received(rx, r) ==
    <<r.gen, IF r.kind = None THEN Empty
             ELSE [(IF r.gen = rx[1] THEN rx[2] ELSE Empty) EXCEPT ![r.kind] = r.item]>>

\* The records of recs are received one after the other.
Take(recs) ==
    LET rx[n \in 0..Len(recs)] ==
            IF n = 0 THEN <<rx_gen, rx_items>> ELSE Received(rx[n - 1], recs[n])
    IN  rx_gen' = rx[Len(recs)][1] /\ rx_items' = rx[Len(recs)][2]

\* service reads what is left in the socket, finds it dead and drops the handle:
\* what was read in that tick does not reach the pasteboard.
LinkLostSlip ==
    /\ link = "open" /\ ~ connected
    /\ \E n \in 0..Len(down) : Take(SubSeq(down, 1, n))
    /\ down' = <<>>
    /\ link' = "connecting"
    /\ deferred' = FALSE
    /\ queue' = Append(queue, [op |-> "close", object |-> object])
    /\ UNCHANGED <<desktop, connected, last_rx, up, object, tx_gen, echo, paste, bounds, alone>>

LinkLost ==
    /\ link = "open" /\ ~ connected
    /\ \E n \in 0..Len(down) : Take(SubSeq(down, 1, n))
    /\ down' = <<>>
    /\ link' = "idle"
    /\ deferred' = FALSE
    /\ queue' = Append(queue, [op |-> "close", object |-> object])
    /\ UNCHANGED <<desktop, connected, last_rx, up, object, tx_gen, echo, paste, bounds, alone>>

\* poll_item and commitReceived: the pasteboard becomes what was received, and
\* the link's own write is not a change.
Receive ==
    /\ link = "open" /\ connected /\ down # <<>>
    /\ down' = Tail(down)
    /\ deferred' = FALSE
    /\ Take(<<Head(down)>>)
    /\ pb' = rx_items'
    /\ changed' = FALSE
    /\ queue' = Append(queue, [op |-> "echo", object |-> object, content |-> rx_items'])
    /\ UNCHANGED <<desktop, connected, last_rx, up, link, object, tx_gen, echo,
                   bounds, alone>>

\* push reads the pasteboard on main and leaves the rest to the queue.
Push(onConnect) ==
    /\ changed' = FALSE
    /\ queue' = Append(queue, [op |-> "push", object |-> object, content |-> pb,
                              onConnect |-> onConnect])
    /\ UNCHANGED <<desktop, socket, link, object, rx_gen, rx_items, tx_gen, echo,
                   pb, bounds>>

PushChanged ==
    /\ link = "open" /\ connected /\ changed
    /\ Push(FALSE)
    /\ UNCHANGED <<deferred, alone>>

\* The deferral runs out.  It counts ticks without a whole record: a replay of
\* which only a part has arrived does not stop it.
PushDeferred ==
    /\ link = "open" /\ connected /\ deferred
    /\ Push(TRUE)
    /\ deferred' = FALSE
    /\ alone' = (alone /\ down = <<>>)

\* Another desktop is presented: close() ends this link behind the work already
\* queued; presenting this one again makes a new one.
Detach ==
    /\ link # "closed" /\ detaches < MaxDetach
    /\ detaches' = detaches + 1
    /\ link' = "closed"
    /\ queue' = IF link \in {"open", "adopting"}
                THEN Append(queue, [op |-> "close", object |-> object]) ELSE queue
    /\ deferred' = FALSE
    /\ alone' = (alone /\ Quiet)
    /\ UNCHANGED <<desktop, socket, object, rx_gen, rx_items, tx_gen, echo,
                   paste, copies, drops, restarts>>

Present ==
    /\ link = "closed"
    /\ link' = "idle"
    /\ object' = object + 1
    /\ rx_gen' = 0 /\ rx_items' = Empty
    /\ changed' = FALSE
    /\ UNCHANGED <<desktop, socket, queue, tx_gen, echo, deferred, pb, bounds, alone>>

-----------------------------------------------------------------------------
(* The app's ClipboardLink: the serial queue.                              *)

\* Each link has an echo guard of its own.
Remember(job) == echo' = [echo EXCEPT ![job.object] = job.content]

\* push's decision and write: nothing goes out that came from the desktop or
\* was sent before, and an empty pasteboard clears only when the user emptied
\* it.
SendSlip(job) ==
    LET clear == job.content = Empty
        send == job.onConnect \/ SetKinds(job.content) # SetKinds(echo[job.object])
        recs == IF clear THEN IF job.onConnect THEN <<>> ELSE <<Record(None, NextGen(tx_gen), 0)>>
                ELSE IF send THEN Records(job.content, NextGen(tx_gen)) ELSE <<>>
    IN
    /\ Remember(job)
    /\ tx_gen' = IF recs = <<>> THEN tx_gen ELSE NextGen(tx_gen)
    /\ up' = IF connected THEN up \o recs ELSE up
    /\ UNCHANGED <<connected, last_rx, down, link>>

Send(job) ==
    LET clear == job.content = Empty
        send == job.onConnect \/ job.content # echo[job.object]
        recs == IF clear THEN IF job.onConnect THEN <<>> ELSE <<Record(None, NextGen(tx_gen), 0)>>
                ELSE IF send THEN Records(job.content, NextGen(tx_gen)) ELSE <<>>
    IN
    /\ Remember(job)
    /\ tx_gen' = IF recs = <<>> THEN tx_gen ELSE NextGen(tx_gen)
    /\ up' = IF connected THEN up \o recs ELSE up
    /\ UNCHANGED <<connected, last_rx, down, link>>

\* iosc_clipboard_connect: HELLO, and the bridge replays its clipboard behind
\* its answer.  A link that is gone by then closes the socket again.
Hello(job) ==
    /\ IF job.object = object /\ link = "connecting"
       THEN /\ connected' = TRUE
            /\ last_rx' = 0
            /\ down' = Records(items, gen)
            /\ up' = <<>>
            /\ link' = "adopting"
       ELSE UNCHANGED <<socket, link>>
    /\ UNCHANGED <<echo, tx_gen>>

\* iosc_clipboard_close: the bridge's end sees a hangup.
Closed ==
    /\ connected' = FALSE
    /\ down' = <<>> /\ up' = <<>>
    /\ UNCHANGED <<last_rx>>

RunQueue ==
    /\ queue # <<>>
    /\ queue' = Tail(queue)
    /\ LET job == Head(queue) IN
         \/ /\ job.op = "echo"
            /\ Remember(job)
            /\ UNCHANGED <<socket, tx_gen, link>>
         \/ job.op = "push" /\ Send(job)
         \/ job.op = "connect" /\ Hello(job)
         \/ job.op = "close" /\ Closed /\ UNCHANGED <<echo, tx_gen, link>>
    /\ UNCHANGED <<desktop, object, rx_gen, rx_items, deferred, paste, bounds, alone>>

-----------------------------------------------------------------------------
User == \/ \E ks \in (SUBSET Kinds) \ {{}} : DesktopCopy(ks)
        \/ \E ks \in SUBSET Kinds : IOSCopy(ks)
        \/ DesktopClear \/ DataControlEmpty \/ IOSTouch

Bridge == SourceRead \/ HandleRecord

Link == ConnectStart \/ Adopt \/ LinkLost \/ Receive \/ PushChanged \/ PushDeferred \/ RunQueue

Faults == ServerDrop \/ CompositorRestart \/ Detach \/ Present

Next == User \/ Bridge \/ Link \/ Faults

Spec == Init /\ [][Next]_vars

\* A pipe is read to its end or fails, the event loop reads the socket, the
\* display tick and the serial queue run.  Users and faults do as they like.
Fairness ==
    /\ WF_vars(SourceRead) /\ WF_vars(HandleRecord)
    /\ WF_vars(ConnectStart) /\ WF_vars(Adopt) /\ WF_vars(LinkLost)
    /\ WF_vars(Receive) /\ WF_vars(PushChanged) /\ WF_vars(PushDeferred) /\ WF_vars(RunQueue)

FairSpec == Spec /\ Fairness

-----------------------------------------------------------------------------
(* Properties.                                                             *)

Clips == [Kinds -> (- MaxCopies)..MaxCopies]
FromOneCopy(c) == \A k, l \in SetKinds(c) : c[k] = c[l]

\* What the socket and the serial queue carry.
WireRecords == {r \in [kind : Kinds \cup {None}, gen : 1..GenMax,
                       item : (- MaxCopies)..MaxCopies] : r.kind = None <=> r.item = 0}
Links == 0..MaxDetach
Jobs == [op : {"connect", "close"}, object : Links]
        \cup [op : {"echo"}, object : Links, content : Clips]
        \cup [op : {"push"}, object : Links, content : Clips, onConnect : BOOLEAN]

\* The variables range over the values the two programs can hold: no record
\* carries generation 0, and nothing is written to a lost connection.
TypeOK ==
    /\ {store, items, rx_items, pb} \subseteq Clips
    /\ echo \in [Links -> Clips]
    /\ readers \subseteq Kinds \X (1..copies)
    /\ {gen, last_rx, rx_gen, tx_gen} \subseteq 0..GenMax
    /\ down \in Seq(WireRecords) /\ up \in Seq(WireRecords)
    /\ queue \in Seq(Jobs)
    /\ ~ connected => up = <<>>
    /\ link \in {"closed", "idle", "connecting", "adopting", "open"}
    /\ object = detaches - (IF link = "closed" THEN 1 ELSE 0)
    /\ copies \in 0..MaxCopies /\ detaches \in 0..MaxDetach
    /\ {connected, deferred, changed, alone, emptied, mixed} \subseteq BOOLEAN

\* The bridge's snapshot, which the next host is shown, is the compositor's
\* clipboard, whichever side produced it and whatever was lost or abandoned on
\* the way, unless a data-control source without types emptied the store alone.
SnapshotIsStore == ~ emptied => items = store

\* Neither clipboard holds representations of two copies: a slow read of a
\* replaced selection adds nothing to the next one, a new generation replaces the
\* old one on both sides, and what an iOS copy brings does not join what the
\* desktop copied.
OneCopyPerSide == ~ mixed => FromOneCopy(store) /\ FromOneCopy(pb)

\* When everything has come to rest after a copy that nothing else crossed, the
\* two clipboards hold the same: nothing was echoed into a loop, merged with an
\* older generation, or lost with a connection on one side only.
Agreement == Quiet /\ alone /\ ~ emptied /\ ~ mixed => pb = store

\* Copies are numbered in the order in which they are made.
Age(n) == IF n < 0 THEN - n ELSE n

\* A reattach does not clobber the desktop's clipboard with a stale one
\* (ClipboardLink's deferredPushTicks): what is pushed for the connection's sake
\* is no older than what the desktop is still sending.
DesktopWins ==
    [][PushDeferred => \A k \in SetKinds(pb), n \in DOMAIN down :
                           Age(pb[k]) >= Age(down[n].item)]_vars

\* Copies do not chase each other: after the users' last copy both sides fall
\* silent.
FallsSilent == <>[](link = "closed" \/ Quiet)
=============================================================================
