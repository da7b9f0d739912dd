# TLA+ models of the Xios desktop

The repository brings a Wayland and X11 desktop to an iPad.  Its core is the path
a frame takes: Wayland clients commit surfaces to the compositor `iosc`, `iosc`
draws them into one of a few IOSurface *output buffers*, a surface server inside
the compositor tells the Xios app which buffer is new, and the app samples the
buffer on its own GPU queue and shows it.  Two processes and two GPU command
streams share those buffers with no lock between them.  This directory models
that path, from a GL client's swap to the screen, checks it with TLC and proves
its central claims with TLAPS, for every number of buffers, clients and frames:

* the compositor's GPU never draws into a buffer the app's GPU may be reading, until the
  app reconnects before its GPU queue has drained, which is where the code falls short of
  what it says;
* every composited frame is complete, although buffers are only patched;
* no repaint is lost, no damage stranded, and clients are answered in order;
* a GL client never draws into, and a resize never destroys, a buffer that may be
  on screen, and no release of a buffer is lost.

Two further parts with protocols of their own are modelled beside it: the
clipboard that the desktop and iOS share, and the switch from one desktop to another,
which is a race of shell scripts and a daemon over a handful of files.  Their safety
properties are proved as well.

Paths below are relative to `src/x11/`.

## Inventory

### Components that are modelled

| Component | State | Operations | Module |
|---|---|---|---|
| Output queue, `linux-build/patches/xios/xios_output_queue.h` | per buffer: acquired, abandoned, owing clients, release wait, last frame and sequence; cursor, frame counter | reset, acquire, cancel, publish, release, drop client, recover abandoned | `OutputQueue` (pure operators) |
| Surface server, `linux-build/patches/xios/xios_surface.c` | client table, generation, direct surfaces with sent bits and released sequence, dirty sequence, display clock | accept and handshake, reader threads (PACING, RELEASED, PRESENTED), acquire, cancel, publish, register/unregister surface, cursor, resize | `SurfaceStream`, `OutputOwnership` |
| App surface link, `apps/Xios/Sources/C/XSurface.c`, `Session/SurfaceLink.swift`, `Session/SessionConnection.swift` | connection, known and retired surfaces, pending and held frame, Metal queue | connect on a worker, adopt, drain, present, release, pace, close; the process is killed | `SurfaceStream` |
| GPU synchronisation, `wayland/iosc_gl.c`, `wayland/xios_metal_sync.m` | in-order command streams, one shared release event, one fence per frame | queue a wait, draw, signal | `OutputOwnership`, `SurfaceStream` |
| Repaint schedule and answers to clients, `wayland/iosc.c` | `g_recompose_scheduled`, idle source, three timers, output damage flag, feedback and callback lists, present batches | feedback request, damage, commit, destroy, idle, repaint timer, frame clock, acknowledgement timer, synchronous repaint of a capture | `FramePacing` |
| Output damage, `wayland/iosc.c`, `wayland/iosc_render_plan.c` | damage list, three-deep history with serial, direct-presentation flag | damage, composite, retry, direct present, reconfigure | `DamageHistory` |
| EGL shim and client buffers, `wayland/iosc_egl_shim.c`, `wayland/iosc_iosurface.c`, `wayland/iosc.c` | swapchain with busy flags, retired list; pending, current and held buffers; unconsumed fences | swap, wait with a budget, resize, destroy; attach and commit, cached commits of subsurfaces, direct presentation, release | `ClientBuffers` |
| Clipboard bridge, `wayland/iosc-clipboard-bridge.c`, `wayland/iosc.c`, `apps/Xios/Sources/Session/ClipboardLink.swift`, `apps/Xios/Sources/C/IoscClipboard.c` | selection store and its readers, snapshot and generation, socket, link state, echo guard, pasteboard | copy and clear on either side, reads, replay, receive, push, reconnect, presentation of another desktop, compositor restart | `Clipboard` |
| Session switch, `apps/iosc-desktop/xios-session-lib.sh`, `apps/iosc-desktop/src/ioscd.c` | request number, lock directory, active marker, status record, running desktop | request, admit, number, lock, judge, reap, preflight, teardown, bring up, report, stop; scripts and desktops die | `SessionSwitch` |

### How they interact

`surface_commit_apply` adds damage and calls `recomposite_all`, which sets
`g_recompose_scheduled` and arms an idle source or a vblank timer.  The repaint
(`recomposite_now`) first tries to present a client's buffer directly, else
acquires an output buffer, queues a GPU wait for that buffer's release value,
widens the damage by the history for the buffer's age, draws and calls
`notify_dirty_internal`.  That sends DIRTY on every client's socket and makes the
notified stream-v2 client the owner of the buffer.  The app drains DIRTY, waits
on its GPU for the frame's fence, samples, and when a newer frame replaces it
commits a signal of the release event and sends RELEASED; a reader thread of the
server frees the buffer and keeps the sequence number for the next acquire to
await.  PRESENTED moves the generation that the acknowledgement timer compares
the batches with.  Shared state is guarded by `s_lock`; records cross a
non-blocking stream socket that either side may close at any time.

A GL client draws into IOSurfaces of its own.  Its swap sends fence, attach, damage
and commit, then waits until one of its buffers was released.  The compositor
releases a buffer when the next one replaces it; one that was presented directly
goes to a list until the app has given the frame back, and that list is looked at
only when a batch is answered or a repaint finds no app.

A copy on the desktop is read through one pipe per type into the compositor's store;
the bridge mirrors it, stamps it with a generation and sends it to the app, which
writes the pasteboard.  An iOS copy takes the opposite way.  A new connection is
shown the bridge's snapshot, and the app offers its pasteboard only when none comes.

Every desktop switch is a process.  It takes a number, then a lock directory, and
gives up when a newer number exists.  The daemon starts such processes for the app,
and for other peers only when it finds no healthy desktop, which it judges from the
marker and the status the scripts write and from the processes that run.

### What is hard about it

* *Concurrency.*  The event loop, the accept thread, one reader thread per
  client, the app's main thread and worker, and two GPUs; any number of switch
  scripts.  The reader checks that
  its client is alive in one critical section and acts in another.
* *Failure.*  The app is suspended or killed at any point; a socket is full or
  takes half a record; a thread cannot be started; a resize replaces the buffers
  during a handshake.
  A switch script is killed between two commands with its lock, marker and status in
  place; the clipboard's socket dies with a copy under way; the compositor restarts.
* *Ordering.*  RELEASED may name an earlier use of the buffer; three code paths
  answer presentation feedback and must do so in commit order.
* *Timeouts.*  The 4 ms retry when no buffer is free, the 100 ms limit on an
  acknowledgement, the 60 Hz frame clock for commits that change nothing; the 250 ms
  a swap waits for a release, the half second a new clipboard link waits for the
  replay, the sightings and polls after which a lock is taken or given up.
* *Boundaries.*  Buffer ages against a history of three; the cursor of a queue
  that is scanned in full or at slot zero only.

`PROJECT.json` lists each hazard at its line with the properties that cover it.

### Properties that make each component correct

* Queue and stream: exclusion of the two GPUs; a held buffer is not handed out;
  buffers are owed to attached clients only; one consumer; no client of an old
  generation; every surface is announced before it is named; buffers come back;
  the two GPU streams do not wait in a circle.
* Repaint schedule: no lost wake-up; no stranded damage; feedback in order; every
  feedback and callback is answered, whether an app is there or not.
* Damage: every composited frame is complete.
* Client buffers: nothing that may be on screen is drawn into or destroyed; no release
  is lost; no swap waits for ever.
* Clipboard: snapshot and store agree; a clipboard is one copy; after a copy nothing
  crossed both sides are equal; the exchange ends.  That the desktop wins on connect is
  what the code means to do and does not always achieve.
* Session switch: one switch at a time; the newest request wins; "up" is true; what a
  killed script leaves behind does not stop the next one.

### Components that are not modelled

Window management and the other Wayland objects, input, text input, session lock
and idle, XWayland window manager, output management objects, canvas server and
native host, session manager of the app, desktop entries, shell, accessibility, audio,
media, sensors, the iPad control daemon, tweaks, companion apps and package
publication.  `PROJECT.json` gives the reason for each: most are user interface or
pure I/O over iOS frameworks; the ones with state of their own are in the plan
below.  A large share of the repository's lines is vendored code (D-Bus sources under
`linux-build/src-tarballs` and others), which is not this program's logic.

## Plan

Done: `OutputQueue`, `OutputOwnership` with proofs, `SurfaceStream` with proofs of its
invariants and of its refinement of `OutputOwnership`, and `FramePacing`,
`DamageHistory`, `ClientBuffers`, `Clipboard` and `SessionSwitch` with proofs.

Next, in this order:

1. `DamageRects`: `output_damage_add_px` as a pure algorithm on rectangles (merging,
   limit of sixteen), checked against the cells it must cover.  It justifies the
   abstraction in `DamageHistory`.
2. Configure/ack of `iosc.c`; session lock.
3. `InputSocket` (framing and state across a lost connection), `CanvasServer`
   with the native host, slots of the session scripts, and the audio ring.

## Modules and the code they stand for

**`OutputQueue`** has the functions of `xios_output_queue.h` as operators on a queue
record.  The bit mask of clients is a set.  `QueueOffers(q, rotate, i)` holds when
`i` is the slot the scan stops at; acquire fails when it holds of none.

**`OutputOwnership`** is the contract: the server's critical sections over the queue,
the frames a consumer may read (`uses`, with the stages sent, held, releasing), the
draws queued in the compositor's stream (`writes`, each with the highest release
value queued before it) and the value of the release event.  A draw may execute
when its wait is satisfied and no earlier draw is unfinished; a use may be read once
the frame's fence fired.  `Attach` carries one premise, `HandshakeProof`: a quarantined
buffer is no longer being read when a handshake completes with no client attached.
The server relies on exactly that (`xios_surface.c` 514-518) and nothing makes the app
honour it; `SurfaceStream` shows what follows.

**`SurfaceStream`** is the implementation: connections with both directions of the
socket, handshakes in the accept thread, a reader per connection, the app and
both GPUs.  Server actions are critical sections of `s_lock`.  A connection number is
used once and stands for the file descriptor and the client serial.  A
write delivers, would block, or fails; which of these happen is chosen freely when
`Backpressure` is set, and a write to a closed peer fails.  Its `OwnershipContract`
property says that it implements `OutputOwnership`: `UsesNow` collects the frames
in open sockets, in the app's hands and in its Metal queue.  The app connects again
whenever it likes, with whatever is left in its Metal queue.  Two history variables name
where the code does less than it says: `overlaps`, the connections whose handshake lifted
the quarantine of a buffer still to be read, and `stale`, the direct surfaces whose sent bits
a resize left set.  `OwnershipContract` allows a step outside the contract to the handshakes in
`overlaps` alone, and everything around them, later drops and releases included, has to be
a step of the contract still.

**`FramePacing`** has one action per handler of the event loop.  A feedback or a
callback is named by the commit it belongs to.  Batches are a sequence; how many of the
oldest are past 100 ms when the acknowledgement timer looks is left open.  Which surfaces lie
off screen is chosen at the start.  The app appears by its effects on the
server: attach, drop, present, release.

**`DamageHistory`** abstracts the screen to a set of cells and a buffer to the cells in
which it differs from the scene.  A damage list is the cells it covers, and may
cover more than was asked for (merging), never less.

**`ClientBuffers`** follows one window's buffers through three processes.  A buffer is
named by its swapchain (one per window size) and slot.  A flush of the client is one
request: fence, attach, damage and commit of a frame are handled together, as
libwayland delivers them from one buffer.  Repaints and batches are reduced to what the
release of buffers depends on: a repaint is due or not, a batch is the generation it
waits for.  Whether the window is a synchronized subsurface is chosen at the start.

**`Clipboard`** names a representation by the number of the user's copy it comes from, so
that mixing two copies is visible.  The app's serial queue is a sequence of jobs, its
main thread one action per branch of `service`.  The socket's two directions are
sequences of records; the end that is dropped loses what it has not read.  `alone`,
`mixed` and `emptied` are history: they name the circumstances under which the
code promises less (see *Known limits*).  The deferred push may go out with records of the
replay still on their way, as counting ticks allows.

**`SessionSwitch`** has one process per request and one action per command, or group of
commands, whose effect on the shared files another process can see.  The lock
directory is a record of its pid file and its maker, and a script remembers whether the
lock it judged is still the same one, for the history and for the timing assumption
below.  Sightings of a lock without a pid are counted whichever lock it was, as the
script does (`SameLock` records when they were of several).  Time appears as choice: a lock held for 180 s, a number's lock that nobody will
release.  A waiter that sees one lock without a pid twice, a second apart, does not
see a script that is alive between `mkdir` and the next command.  The presets differ
only in their bring-up; one stands for all.

An operator marked *Slip* before a definition is a plausible mistake in that
definition.  Specifications do not use them; replacing the definition by its slip
must break the property it is paired with in `PROJECT.json`.

## Runs

| Run | What it shows | Bounds |
|---|---|---|
| `ownership` | `Exclusion`, `HeldBufferNotReissued` and the inductive invariant of the contract | 2 buffers, 2 clients, 3 frames |
| `stream` | the threaded stream implements the contract, and no frame is drawn over while the app's GPU reads it (`ConsumerReadsWhole`), until a handshake overlaps; no client of an old generation; one consumer; buffers are owed to attached clients only; surfaces are announced before they are named and given back by a handshake, but for those a resize left stale | 2 connections, legacy and stream-v2, 1 buffer, 1 direct surface, 2 frames, 1 resize, crashes |
| `stream_liveness` | the contract with several buffers; a buffer becomes available again and again; queued drawing finishes | 1 connection, 2 buffers, 3 frames, full sockets, no crash |
| `stream_overlap` | counterexample: a frame drawn over after an early reconnect | 2 connections, 2 buffers, 2 frames |
| `pacing` | the repaint flag has a wake-up behind it; damage is never stranded; feedback in commit order; every feedback and callback is answered (`EveryoneAnswered`) | 1 surface, on or off screen, 2 commits, 2 buffers, 1 capture, 1 loss of the app |
| `pacing_captured` | counterexample: a feedback never answered after a capture | the same without the loss |
| `damage_history` | every composited frame is complete | 2 buffers, 2 cells, 7 frames |
| `client_buffers` | nothing on screen is drawn into or destroyed, releases are accounted for, a held buffer given back is noticed, a swap gets a buffer | 2 buffers, 1 resize, 3 swaps, 3 frames, 1 loss of the app, 1 expired budget |
| `clipboard` | snapshot and store agree, one copy per side, both sides equal after an undisturbed copy, silence at the end | 2 types, 2 copies, 2 generations, 1 lost connection, 1 other presentation, 1 restart |
| `clipboard_outlasted` | counterexample: a stale pasteboard pushed over the desktop's clipboard | 2 types, 2 copies, 1 connection |
| `session_switch` | one switch at a time, the newest wins, "up" is true, the last request recovers | 3 requests, 1 preset and stop, 1 fault |
| `session_blocked` | counterexample: a killed switch turns peers away | the same |

The bounds are the smallest at which the interesting cases occur.  Two buffers and
three frames let a buffer be published, replaced, released and published again
while a record of its first use is still under way (`ownership`, `stream_liveness`); a
second connection exercises slot reuse, quarantine, recovery and the overlap.  One buffer and
two frames are enough for those in `stream`, which has the resize, the direct surface, the
legacy client and the crashes as well: the second frame, output or direct, may go to a second
client, before or after the resize.  In `damage_history` one buffer
sits out four frames, held by the app or because no app is attached, while the other
is drawn again and again at age one; that is the shortest way to an age beyond
the history of three with a damage the newer entries do not repeat.  Two cells
tell a partial from a full repaint.  In `pacing` the second commit finds the first one's
frame published, held or captured; an off-screen surface gives the commits that damage
nothing.  That one surface's commit is painted by what another caused is left to the proofs,
which hold for any number of surfaces.
In `client_buffers` three swaps with two buffers make the third wait for a release, in
the old and in the new swapchain; the budget runs out at most once.  In `clipboard` two copies are what it takes to
replace, cross and merge, and two generations make the counter wrap.
A third copy, without the restart and the other presentation, was needed once,
for `Agreement` (see *Proofs*).  In
`session_switch` three requests are an owner, a waiter and a newcomer; one fault is
a killed script, an overdue owner or a dead desktop.  Two sightings and two polls
stand for the three and forty-five of the code: what matters is that a
waiter looks again before it judges, and may run out of polls.

Deadlock is not reported where a bound on frames, commits, copies or requests ends the
behaviour; `damage_history` never ends.

Four runs end in a counterexample: the code does not do what a comment or a document of
the repository says.

*`stream_overlap`.*  "Pending output buffers stay quarantined until the next completed app
handshake proves the old Metal consumer is gone" (`docs/handoff/iosc-compositor.md` 90).  The
server loses a client, for instance because its reader thread cannot be started or a record is
half written; the app, whose GPU has still to sample the last frame, closes the link and
connects again at once (`SurfaceLink.swift` 358, `SessionConnection.swift` 300).  The handshake
lifts the quarantine, the compositor is offered the buffer with no release to await, and
draws over the frame while it is read.

*`pacing_captured`.*  "every feedback must end in presented or discarded" (`iosc.c` 731).  A
commit queues an idle repaint; a capture repaints at once and takes the damage, and the
flag stays set.  A feedback of the next commit is left by the frame clock to the repaint it
believes is coming; that repaint finds an empty plan and returns without answering.

*`clipboard_outlasted`.*  "a reattach mid-session does not clobber the desktop's clipboard with a
stale one" (`ClipboardLink.swift` 34).  The deferred push counts ticks, and a record that is
still being received does not stop the count; a replay that takes longer than half a
second is overtaken by the push of an older pasteboard.

*`session_blocked`.*  "a stale status file or marker left by a crashed session never blocks
recovery" (`apps/iosc-desktop/src/ioscd.c` 908).  A switch writes its marker and the status
"starting" and is killed; `active_session_healthy` trusts the pair without
looking at a process or its age, so every peer that may only ensure a desktop is
turned away with nothing running, until root or the picker switches.

## Known limits

The code promises less than a reader may expect in the following circumstances.
The models reach them; the properties of the passing runs exclude them by name.

*Stream.*  A handshake that overlaps what the app's GPU has still to read lifts a quarantine
too early (`overlaps`, the run `stream_overlap`).  A resize closes
the clients without clearing the sent bits of direct surfaces (`xios_surface.c` 404), so
the next handshake does not recover those, and a client that takes the slot may be sent a
DIRTY whose SURFACE it never got (the app then gives the connection up and makes a new
one).  `HandshakeRecoversDirect` and `DirtyNamesKnownSurface` name these surfaces
(`stale`) and hold of all others, before and after resizes.

*Pacing.*  A capture that consumes the damage of a queued idle repaint leaves what relied on
that repaint unanswered until something else repaints (`Captured`, the run
`pacing_captured`).  A feedback is listed when it is requested, before its commit (3767), and a
repaint in between answers it with a frame that does not contain the commit.  With
no client attached the compositor paints into output 0 only, and while that buffer is
quarantined every repaint is retried and no client is answered; the same goes for an app that
stays and releases nothing (`Starved`).  `EveryoneAnswered` excuses `Starved` only if it
lasts for ever.

*Client buffers.*  After the 250 ms budget a swap draws into a buffer still in use
(`expired`), and the late release of the first use clears the flag of the second.  A
synchronized subsurface that commits twice before its parent loses the first
buffer's release (`iosc.c` 3289), which is why `BusyAccounted` and `SwapProceeds` speak of
other surfaces.  After the 100 ms valve (`slow`) or the loss of the app, nothing looks at
the held list until the next repaint.  Client buffers have an acquire fence and no
release fence: a release is sent while a GPU may still be sampling; the module
has no GPUs.

*Clipboard.*  Copies that cross on the socket swap the two clipboards (`alone`); so does a
connection that drops with a copy under way.  A desktop copy between two records of one
push is merged with the second, and a compositor restart, or a generation that comes
round while the app still remembers its number, makes two copies look like one
(`mixed`); after a restart `Agreement` claims nothing.  A push on connect may overtake the
replay (the run `clipboard_outlasted`), which counts as a crossing.  A data-control source without types
empties the store and not the bridge (`emptied`).  When every read of a selection fails, iOS
keeps the previous one.  A change of `changeCount` without new contents is no copy
(`IOSTouch`): the echo guard holds its push back, and clipboards that were swapped before
stay swapped.

*Session switch.*  The reaper removes whatever lock is there, not the one it judged
(`raced`); two switches can then run.  Its count of sightings without a pid is not
reset when the lock changes hands (`xios-session-lib.sh` 297-309): a waiter that saw the
pid-less locks of two scripts in turn judges the third, taken a moment ago, stale at
first sight, which the comment at 302-305 wants to exclude.  It takes four requests and
three coincidences; the proof of `OneSwitch` failed until `raced` named it.  A script killed while it numbers itself leaves
that lock for ever, and later requests run without numbers (`unguarded`).  Numbers are
taken when a script runs, not when it is admitted, so "newest" is by number.

## Fairness

`SurfaceStream!FairSpec`: the accept thread and the readers are scheduled; the app's
display link ticks, so a live connection is drained and what was drained is
presented; an abandoned connection is closed; both GPUs run what is ready.
Nothing is assumed of the compositor's repaints, of reconnects or of crashes.

`FramePacing!FairSpec`: the event loop runs a queued idle source and every timer that
is armed, and time passes, so that the acknowledgement timer once finds the oldest batch
late.  Nothing is assumed of clients or of the app, which may present, release, leave and
come back or do none of it.  It is weak fairness of the four callbacks; for three of them the
states in which the callback is due are written out, because TLC evaluates that much faster
than `ENABLED`.  That these are the states in which it is enabled was checked with TLC, and
`EveryoneAnswered` also holds with `WF_vars` of all four (4 minutes).

`ClientBuffers!FairSpec`: each of the four threads runs as long as it has something to
do: a thread that waits for a buffer takes it or dispatches its queue, the event loop
handles requests, repaints and timers, the reader reads, an attached app takes and
reports its frames.  The budget need not run out: `SwapProceeds` says that it is not needed.
Its conclusion excuses the bound on frames (`paints = MaxPaints` with a repaint due).

`Clipboard!FairSpec`: a pipe is read to its end or fails, the event loop reads the socket,
the display tick and the serial queue run.  A pipe whose owner never closes it is
replaced with its selection; until then `FallsSilent` assumes it ends.

`SessionSwitch!FairSpec`: a script that is not killed runs its next command.

All of it is weak fairness, of single handlers or of one thread's steps.

## Proofs

`OutputOwnershipProofs` proves, for every number of buffers, clients and frames:
`TypeCorrect`, `OwnershipInvariant`, `GpuExclusion` and `NoReissue`.
`Exclusion` is not inductive: that no draw meets a read depends on how the draw
came to be queued.  `OwnershipInv` records the reasons, in four parts.
`TargetInv`: the buffer the compositor draws into is marked acquired, owed to nobody,
not quarantined, and its release wait has moved into the command stream.
`SeqInv`: the release event is below every use still to be signalled, and nothing in
flight is newer than the frame being drawn.  `UseInv`: a use is covered by the queue
(its buffer is quarantined, or owed under the use's sequence number), or its release is
committed and the buffer's wait or the command stream's reaches its number.
`WriteInv`: a draw queued over an older use of its buffer awaits that use's release.
A draw that may execute then has its wait satisfied, so the event has reached the
number of every earlier use, and none is left.  There is one lemma per action of `Next`,
resting on lemmas about what each queue operator changes.  The assumptions are that
there is at least one buffer and one client slot.

`SurfaceStreamProofs` proves `TypeCorrect`, `ClientsAreCurrent`, `ConsumerIsAlone`,
`DebtsAreLive`, `NamesAreKnown`, `DirectRecovered`, `StreamObeysContract` and `ReadsWhole` for every number of buffers, client
slots, connections, direct surfaces, frames and resizes and every setting of the switches.
The assumptions are those of the constants, and that the identifiers of direct surfaces
differ from those of the outputs and from "none" (`SurfacesAreApart`; the server numbers
them from `XIOS_DYNAMIC_SURFACE_ID_BASE`).  The app may reconnect at any time and resizes may
happen at any time.  The inductive invariant of the first six has four parts.  `TypeOK` includes that a repaint
in progress is of one kind and that the app's state, connection and held frame agree.
`TableInv`: a slot's connection finished its handshake under that slot and the current
generation (a resize between handshake and insertion is refused), a consumer that
returns buffers is alone, and a buffer waits only for clients in the table; the
three table theorems follow.  `LinkInv` is the app's side: a connection not yet used has carried nothing,
a live app knows the outputs, and what it retires is the one surface its frame shows.
`DirectInv`: `SentInv`, the sent bits of a direct
surface that is not `stale` name clients that return buffers, and released never exceeds last; `GivenInv`, the
records on a link come in order, so that a DIRTY of a direct surface follows its SURFACE, nothing
follows the drop of the connection, and a set sent bit means that the app has the
surface or will read it.  `NamesAreKnown` and `DirectRecovered` follow.  Two of these conjuncts were found by
proofs that failed without them: what is retired is only what is shown, and a repaint is
of one kind.  The lemmas about the queue come from
`OutputOwnershipProofs`, instantiated.

`StreamObeysContract` is the refinement, without premises: every step of the
threads, sockets, app and GPUs is under the mapping a step of `OutputOwnership` or none, unless it
is a handshake in `overlaps`; until there is one,
what is proved of the contract, `GpuExclusion` above all, holds of the stream.  The mapping
needs to know which use every record, held frame and GPU command stands for, which is
`FlowInv`.  `AcceptInv`: connections are accepted in the order they were made, and the newest
is the app's.  `OrderInv`: frames pass from socket
to app to GPU in the order of their numbers, with the release event and every RELEASED
behind them, so that a late RELEASED of an earlier use releases nothing newer.
`GenInv` and `DrawInv` number connections and draws; `FenceInv`: a release signal runs behind
a sample that awaits the frame's fence.  They hold whether handshakes overlap or not.  A
handshake that is not in `overlaps` satisfies the contract's `HandshakeProof` by what
`overlaps` records.  The uses are split into those unread in the socket,
the one shown and those leaving through the GPU; a lemma per action says how each
part changes, and from them that the action is one of the contract's, or
changes nothing the contract sees.  `ReadsWhole` says it in terms of the stream: when
the app's GPU may sample a frame, every draw queued into its buffer still awaits a release
that has not happened.  It rests
on the refinement (`OwnershipInv` of the contract, read back through the mapping, as long as
`overlaps` is empty) and on
two invariants of its own, `WholeInv`, every draw is of no later frame than one under way
in its buffer or awaits that frame's release, and `SampleInv`, a sample is of the
frame held or runs before the signal that releases it.

`DamageHistoryProofs` proves `TypeCorrect`, `BuffersRecoverable` and `FramesComplete`
for every set of cells, number of buffers and bound on frames.  `FrameComplete` only
looks at the last composited frame; what carries it from step to step is
`Recoverable`: the cells a buffer lacks are in the damage or in the history entries of
the frames it missed, or its age makes the next repaint a full one.  The inductive
invariant is `TypeOK /\ Recoverable /\ FrameComplete`.  The heart is the lemma
`RecordedFrame`: after a frame is recorded in the ring, what a buffer one frame older
needs contains what it needed before together with what was drawn, although
the entry overwritten belongs to a frame some buffer may still lack (for that buffer
the history is then too short and the repaint full).  `TypeOK` contributes that no
buffer was drawn in a frame yet to come, without which ages would be meaningless.

`CountingLemmas` has induction over the natural numbers in a form the provers can
use: on sets, from the well-foundedness of `<`.  With it the recursive functions the models use
(`Take`, `Selected`) and the order of sequences can be reasoned about.

`FramePacingProofs` proves `TypeCorrect`, `WakeupNeverLost`, `DamageNeverStranded` and
`FeedbackInOrder` for every number of surfaces and commits.  `WakeupPending` is inductive
with the types.  `DamageScheduled` needs `DamageInv`: a surface that excuses a missing
repaint is itself dirty, so that its client's commit will not be skipped.  `AnsweredInOrder` is the hard one: three
handlers append to what was answered, from two lists.  `OrderInv` says that for each surface
what was answered, what the batches hold (oldest batch first) and what waits are each
increasing, that everything answered is smaller than everything in a batch and that
than everything waiting, and that no commit is named that the client has not asked
about.  Every handler moves a prefix to the end of the list before.

`ClientBuffersProofs` proves `TypeCorrect`, `NoReleaseLost`, `DrawsIntoFreeBuffers`,
`ResizeKeepsShown` and `GivenBackIsNoticed` for every number of buffers, window sizes,
swaps and frames.  The claims depend on each other through the whole round trip of a buffer, so
one invariant carries them all.  `ChainInv`: what is alive is the swapchain and the
retired buffers, the retired ones are busy, the destroyed ones are not alive.  `SyncInv`: the round
trip of a resize is answered once.  `OrderInv`: frames drained, unread, sent and
reported follow each other in generation order.  `StreamInv`: nothing is given back that was not sent.
`NoticeInv`: a RELEASED is followed by a PRESENTED and a frame that was not presented has
a batch, which is why a buffer given back is looked at.  Unless a budget ran out, `PlaceInv`: a
buffer the client regards as committed is busy and in exactly one place, once (a
request, pending, current, held, or a release on its way), the buffer being drawn is
nowhere; and `SentInv`: a buffer the app was sent and has not given back is current
or held.  `DrawnBufferFree` and `DestroyedNotShown` follow.

`ClipboardProofs` proves `TypeCorrect`, `SnapshotFollowsStore`,
`OneCopyAtATime` and `SidesAgree` for every set of types, bound on copies and width of the generation
(at least two values; the code has 2^32).  `SnapshotIsStore` is inductive.
`OneCopyPerSide` needs that a generation is one copy wherever it is: `DownInv` for what
the bridge holds, has sent and the app has received under one number, `UpInv` for the
records of one push, which follow one another and are merged only with what the same push
brought, `PushInv` for what the app may push; the three are claimed while `mixed` is false.

`SidesAgree`, the theorem of `Agreement`, is about states at rest, and has to be carried through every state
in which a copy is under way.  `AgreeInv` gives the shape of those, while nothing crosses the
newest copy.  `IdleShape`: a link that is not open has nothing under way.  `OpenShape`: what an
open link has under way goes one way only.  `Heading`: the copy is on its way up, and the
bridge holds all of it but what is still in the socket (`Climbs`); or it is at rest or on
its way down, and the app holds all of it but what is in the socket or still read (`Falls`); or
it is about to be pushed and the echo guard will not hold it back (`Goes`).  At rest only
`Falls` is left, and it says that pasteboard and snapshot are equal.  `RecentInv` adds
that an iOS copy yet to be made is held nowhere, so that no echo guard recognises it.  The
attempt to prove it corrected the statement, at a third copy, one more than the run has: a
touch of the pasteboard was counted as a copy, which the echo guard leaves unsent although
the two sides differ from before, and a generation that comes round had to be excluded
here as it was in `OneCopyPerSide`.  With `MaxCopies = 3`, `GenMax = 4`, `MaxDetach = 0` and
`MaxRestart = 0` TLC confirms `Agreement` as it is now (2 million states).

`SessionSwitchProofs` proves `TypeCorrect`, `SwitchesExclude`, `NewestRequestWins` (an
action property) and `UpIsTrue` for every number of requests, limit of sightings and of
faults, with at least one request and no more sightings than polls (3 and 45 in the
code).  `OneSwitch` is not inductive: whoever is inside must own the lock, and whoever is
about to remove a lock must remove a dead owner's.  `LockInv` says, unless `raced`: the lock names
the one script that holds it; a lock left behind is a killed script's; a waiter on its way
to remove the lock it judged removes a killed script's, or first kills the script it names.
`CountInv` and `NumberInv`: numbers are drawn once per request and differ; `SwitchInv`: a
switch that has begun is newer than the desktop it will stop, which gives `NewestWins`.
`UpInv`: while a switch is under way the status does not say "up".  `WantInv` and `PidInv` are bookkeeping.

Every inductive invariant was checked by TLC on the run's instance first.

Only model-checked: all liveness, `FallsSilent`, `SwapProceeds`, `LastRecovers`,
`EveryoneAnswered`, `BufferAvailable` and `DrawsFinish`, since temporal
reasoning under fairness is outside what the proof system does.  Every invariant and
every other action property of a passing run is stated by a theorem.

## Not represented

* The contents of records beyond surface and sequence number, Mach ports and
  their failures except as a failed handshake, and the reuse of file descriptor
  numbers by other code.
* The FATAL exits of `recomposite_now` (no GPU target, wait or fence): they end the
  compositor, and with it every buffer.
* 64-bit wrap-around of sequence numbers.
* A release signal that never fires because the app is killed after RELEASED was
  read: `stream_liveness` has no crash.  Safety covers the crash.
* In `FramePacing`: synchronised subsurfaces, native mode, the session lock, the
  second paint of a capture with a cursor, and resizes.
* In `DamageHistory`: the rectangles.
* In `SurfaceStream`: a display clock that outlives its last client (PACING stored after
  the drop, `xios_surface.c` 627); its reader treats it as stale after a time.  Nor a
  publication without a release token, which takes no owner (1302-1309): that branch is for
  producers with one fixed buffer, `iosc` installs a token before the server starts.
* In `ClientBuffers`: allocation and display errors, several windows, the wrapping of
  sequence numbers.
* In `Clipboard`: several hosts, partial reads and writes of a record, the NULL
  data-control selection, HTML and URI conversions, and paste to Wayland clients.
* In `SessionSwitch`: slots, the resize preset, the daemon's debounce, cooldown and table
  of children (a request turned away is one not made), its own start of `iosc`, app
  launches, and the second transitional status of a bring-up.  The daemon's judgement of a
  running desktop reads marker, status, sockets and processes one after the other (`ioscd.c`
  916-923) and is one step here; a teardown between two of its reads is not reached.
