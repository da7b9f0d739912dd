--------------------------- MODULE SessionSwitch ---------------------------
(***************************************************************************)
(* Switching desktops.                                                     *)
(*                                                                         *)
(* Every switch is a shell process of its own (xios-session-lib.sh): root  *)
(* starts some from the command line, the daemon (ioscd.c) starts others,  *)
(* for the app's picker and for peers that may only ensure a desktop.  The *)
(* processes share files: a request number that lets the newest supersede  *)
(* the rest, a lock directory with its owner's pid, the active marker and  *)
(* the status record.  Any of them may be killed between two commands, a   *)
(* waiter takes the lock of a dead or overdue owner away, and the daemon   *)
(* judges from the same files whether a desktop is running.                *)
(***************************************************************************)
EXTENDS Integers, FiniteSets

CONSTANTS N,          \* switch requests, one process each
          Presets,    \* desktops that can be started
          None,
          NoPidLimit, \* sightings of a lock without a pid that make it stale (3)
          MaxWait,    \* polls of a held lock before a waiter gives up (45)
          MaxFaults   \* bound on killed scripts, owners that hold the lock for
                      \* 180 s and desktops that die

ASSUME RequestsAreKnown ==
    N \in Nat \ {0} /\ None \notin Presets /\ "stop" \notin Presets
ASSUME NoneIsApart ==
    /\ None \notin 1..N
    /\ None \notin [pid : (1..N) \cup {None}, maker : 1..N]
    /\ None \notin [by : 1..N, id : 0..N, preset : Presets]
ASSUME WaitOutlastsNoPid == NoPidLimit \in Nat \ {0} /\ MaxWait \in Nat /\ NoPidLimit <= MaxWait
ASSUME FaultsAreBounded == MaxFaults \in Nat

VARIABLES
    pc,              \* where each script is
    my,              \* a script's own variables: what it was asked for, its request
                     \* number (0 when it could not be had), its sightings of a lock without pid,
                     \* its polls; what the daemon saw for it; and whether the
                     \* lock it saw last has not been replaced (history)
    seq, seqlock,    \* XS_REQUEST_SEQ and the lock of its update
    lock,            \* XS_LOCK_DIR: None, or its pid file and who made it
    active, status,  \* XS_ACTIVE and XS_STATUS
    desktop,         \* the compositor that is running: the script that started it,
                     \* that script's number and its preset
    faults,
    raced,           \* history: a waiter removed another lock than it judged, or
                     \* one it had not seen before and that had no pid yet
    unguarded,       \* history: a request went on without a number
    blocked          \* history: a peer was turned away with nothing running

requests == <<pc, my>>
number   == <<seq, seqlock>>
session  == <<active, status, desktop>>
history  == <<raced, unguarded, blocked>>
vars     == <<requests, number, lock, session, faults, history>>

Reqs == 1..N

\* Where the signal traps are set: between taking the lock and releasing it.
Body == {"body", "stopping", "torn", "starting", "launched", "ending"}
Live == {r \in Reqs : pc[r] \notin {"idle", "judged", "done", "dead"}}

Fresh == [want |-> None, id |-> 0, nopid |-> 0, waited |-> 0, same |-> FALSE,
          marker |-> None, claim |-> FALSE]

Init ==
    /\ pc = [r \in Reqs |-> "idle"]
    /\ my = [r \in Reqs |-> Fresh]
    /\ seq = 0 /\ seqlock = FALSE /\ lock = None
    /\ active = None /\ status = <<None, "none">> /\ desktop = None
    /\ faults = 0 /\ raced = FALSE /\ unguarded = FALSE /\ blocked = FALSE

Go(r, to) == pc' = [pc EXCEPT ![r] = to]

\* The script ends, its variables with it.
Over(r) == [my EXCEPT ![r] = Fresh]
Exit(r) == Go(r, "done") /\ my' = Over(r)

-----------------------------------------------------------------------------
(* Requests and the daemon's policy.  What its debounce and its cooldown    *)
(* turn away is a request that is not made.                                *)

Transitional == {"starting", "waiting", "relaunching", "stopping"}
Claims == {"up", "waiting", "starting", "relaunching"}

\* active_session_healthy: a desktop runs, or the files say that a switch is in
\* flight.
Healthy ==
    \/ active # None /\ status[1] = active /\ status[2] \in Transitional
    \/ desktop # None

\* Requests are numbered as they are made.
Asked(r) ==
    /\ pc[r] = "idle" /\ \A o \in 1..(r - 1) : pc[o] # "idle"
    /\ UNCHANGED <<number, lock, session, faults, raced, unguarded>>

\* root, or the app's picker through the daemon.
RequestSwitch(r, w) ==
    /\ Asked(r)
    /\ my' = [my EXCEPT ![r].want = w]
    /\ Go(r, "marking")
    /\ UNCHANGED blocked

\* handle_session_request for everyone else: turned away while a desktop is
\* healthy.  The daemon handles one request at a time.
RequestEnsure(r, w) ==
    /\ Asked(r)
    /\ \A o \in Reqs : pc[o] # "judged"
    /\ IF Healthy
       THEN /\ Go(r, "done")
            /\ blocked' = (blocked \/ (desktop = None /\ Live = {}))
            /\ UNCHANGED my
       ELSE /\ Go(r, "judged")
            /\ my' = [my EXCEPT ![r].want = w, ![r].marker = active,
                                ![r].claim = active # None /\ status = <<active, "up">>]
            /\ UNCHANGED blocked

\* What it saw was stale: the claim of being up is corrected, the marker goes if
\* it still names the same desktop, and xios-session is forked.
Admit(r) ==
    /\ pc[r] = "judged"
    /\ status' = IF my[r].claim THEN <<my[r].marker, "down">> ELSE status
    /\ active' = IF active = my[r].marker THEN None ELSE active
    /\ my' = [my EXCEPT ![r].marker = None, ![r].claim = FALSE]
    /\ Go(r, "marking")
    /\ UNCHANGED <<number, lock, desktop, faults, history>>

-----------------------------------------------------------------------------
(* The request number and the lock.                                        *)

\* xs_switch_request_superseded.
Superseded(r) == my[r].id # 0 /\ seq # my[r].id

\* xs_mark_latest_switch_request.  Nothing removes the lock of a number whose
\* script was killed: after 5 s a request goes on without one.
MarkLock(r) ==
    /\ pc[r] = "marking" /\ ~ seqlock
    /\ seqlock' = TRUE
    /\ Go(r, "numbering")
    /\ UNCHANGED <<my, seq, lock, session, faults, history>>

MarkWithoutNumber(r) ==
    /\ pc[r] = "marking" /\ seqlock /\ \A o \in Reqs : pc[o] # "numbering"
    /\ unguarded' = TRUE
    /\ Go(r, "locking")
    /\ UNCHANGED <<my, number, lock, session, faults, raced, blocked>>

MarkNumber(r) ==
    /\ pc[r] = "numbering"
    /\ seq' = seq + 1
    /\ my' = [my EXCEPT ![r].id = seq']
    /\ seqlock' = FALSE
    /\ Go(r, "locking")
    /\ UNCHANGED <<lock, session, faults, history>>

\* xs_acquire_session_lock: mkdir succeeds.
TakeLock(r) ==
    /\ pc[r] = "locking" /\ lock = None
    /\ lock' = [pid |-> None, maker |-> r]
    /\ my' = [o \in Reqs |-> [my[o] EXCEPT !.same = FALSE]]
    /\ Go(r, "taken")
    /\ UNCHANGED <<number, session, faults, history>>

\* mkdir fails: a superseded request gives up.
LockHeld(r) ==
    /\ pc[r] = "locking" /\ lock # None
    /\ IF Superseded(r) THEN Exit(r) ELSE Go(r, "judging") /\ UNCHANGED my
    /\ UNCHANGED <<number, lock, session, faults, history>>

\* xs_session_lock_is_stale reads whatever lock is there now.
Pid == IF lock = None THEN None ELSE lock.pid

\* A script writes its pid right after mkdir, so a lock that is seen again
\* without one, a second later, is that of a dead script.
NoPidAgain(r) == Pid = None /\ (lock # None /\ my[r].same => lock.maker \notin Live)

StaleSlip(r) == NoPidAgain(r) /\ my[r].nopid + 1 >= NoPidLimit

Stale(r) ==
    \/ NoPidAgain(r) /\ my[r].nopid + 1 >= NoPidLimit
    \/ Pid # None /\ Pid \notin Live

\* The sightings of a lock without pid are counted whichever lock it was: only
\* the lock seen last time is known to be that of a dead script.
SameLock(r) == lock # None /\ (Pid = None => my[r].same)

JudgedStaleSlip(r) ==
    /\ pc[r] = "judging"
    /\ \/ Stale(r) /\ UNCHANGED faults
       \/ /\ Pid \in Live /\ pc[Pid] \in Body
          /\ faults < MaxFaults /\ faults' = faults + 1
    /\ my' = [my EXCEPT ![r].nopid = @ + 1, ![r].same = SameLock(r)]
    /\ Go(r, "reaping")
    /\ UNCHANGED <<number, lock, session, history>>

JudgedStale(r) ==
    /\ pc[r] = "judging"
    /\ \/ Stale(r) /\ UNCHANGED faults
       \/ /\ Pid \in Live /\ pc[Pid] \in Body
          /\ faults < MaxFaults /\ faults' = faults + 1
    /\ my' = [my EXCEPT ![r].nopid = 0, ![r].same = SameLock(r)]
    /\ Go(r, "reaping")
    /\ UNCHANGED <<number, lock, session, history>>

\* The lock is respected: wait, at most MaxWait times.
JudgedHeld(r) ==
    /\ pc[r] = "judging"
    /\ (Pid = None => NoPidAgain(r)) /\ ~ Stale(r)
    /\ IF my[r].waited >= MaxWait
       THEN status' = <<my[r].want, "error">> /\ Exit(r)
       ELSE /\ status' = IF my[r].waited = 0 THEN <<my[r].want, "waiting">> ELSE status
            /\ my' = [my EXCEPT ![r].nopid = IF Pid = None THEN @ + 1 ELSE 0,
                                ![r].waited = @ + 1, ![r].same = (lock # None)]
            /\ Go(r, "locking")
    /\ UNCHANGED <<number, lock, active, desktop, faults, history>>

\* xs_release_session_lock: only its own.
Released(r) == IF Pid = r THEN None ELSE lock

\* xs_reap_session_lock_owner: the owner named now is killed, with the desktop
\* of its process group; a trap it gets to run releases the lock ...
ReapOwner(r) ==
    /\ pc[r] = "reaping"
    /\ IF Pid \in Live
       THEN /\ pc' = [pc EXCEPT ![Pid] = "dead", ![r] = "removing"]
            /\ my' = Over(Pid)
            /\ lock' = lock \/ (pc[Pid] \in Body /\ lock' = None)
       ELSE Go(r, "removing") /\ UNCHANGED <<my, lock>>
    /\ desktop' = IF desktop # None /\ Pid = desktop.by THEN None ELSE desktop
    /\ UNCHANGED <<number, active, status, faults, history>>

\* ... and whatever lock is there by then is removed.
ReapLock(r) ==
    /\ pc[r] = "removing"
    /\ lock' = None
    /\ raced' = (raced \/ (lock # None /\ ~ my[r].same))
    /\ Go(r, "locking")
    /\ UNCHANGED <<my, number, session, faults, unguarded, blocked>>

WritePid(r) ==
    /\ pc[r] = "taken"
    /\ lock' = IF lock = None THEN None ELSE [lock EXCEPT !.pid = r]
    /\ Go(r, "owner")
    /\ UNCHANGED <<my, number, session, faults, history>>

\* The last look before the switch starts.
StartOrSkipSlip(r) ==
    /\ pc[r] = "owner"
    /\ Go(r, "body")
    /\ UNCHANGED <<my, number, lock, session, faults, history>>

StartOrSkip(r) ==
    /\ pc[r] = "owner"
    /\ IF Superseded(r)
       THEN Exit(r) /\ lock' = Released(r)
       ELSE Go(r, "body") /\ UNCHANGED <<my, lock>>
    /\ UNCHANGED <<number, session, faults, history>>

-----------------------------------------------------------------------------
(* The switch itself.                                                      *)

Says(state, p) == status' = <<p, state>>
Files == <<number, lock, faults, history>>
Outside == <<my, Files>>

\* xs_preset_preflight: a preset that cannot start stops nothing, and a live
\* desktop keeps its status.
PreflightFails(r) ==
    /\ pc[r] = "body" /\ my[r].want # "stop"
    /\ IF status[2] \in Claims THEN UNCHANGED status ELSE Says("error", my[r].want)
    /\ Go(r, "ending")
    /\ UNCHANGED <<Outside, active, desktop>>

Stopping(r) ==
    /\ pc[r] = "body"
    /\ Says("stopping", my[r].want)
    /\ Go(r, "stopping")
    /\ UNCHANGED <<Outside, active, desktop>>

\* xios_session_teardown: the compositor dies, and with it a script of the same
\* process group; a status that still claims a session is corrected.
Teardown(r) ==
    /\ pc[r] = "stopping"
    /\ \E hit \in SUBSET {o \in Reqs \ {r} : pc[o] = "launched"} :
         /\ pc' = [o \in Reqs |-> IF o = r THEN "torn" ELSE IF o \in hit THEN "dead" ELSE pc[o]]
         /\ my' = [o \in Reqs |-> IF o \in hit THEN Fresh ELSE my[o]]
    /\ desktop' = None
    /\ IF status[2] \in Claims THEN Says("down", status[1]) ELSE UNCHANGED status
    /\ UNCHANGED <<Files, active>>

\* stop: the marker goes.
Stopped(r) ==
    /\ pc[r] = "torn" /\ my[r].want = "stop"
    /\ active' = None
    /\ Says("stopped", "stop")
    /\ Go(r, "ending")
    /\ UNCHANGED <<Outside, desktop>>

SetActive(r) ==
    /\ pc[r] = "torn" /\ my[r].want # "stop"
    /\ active' = my[r].want
    /\ Says("starting", my[r].want)
    /\ Go(r, "starting")
    /\ UNCHANGED <<Outside, desktop>>

\* The compositor a script has started.
Running(r) == [by |-> r, id |-> my[r].id, preset |-> my[r].want]

\* The bring-up script: the compositor comes up, or it never does.
BringUpSlip(r) ==
    /\ pc[r] = "starting"
    /\ desktop' = Running(r) \/ UNCHANGED desktop
    /\ Go(r, "launched")
    /\ UNCHANGED <<Outside, active, status>>

BringUp(r) ==
    /\ pc[r] = "starting"
    /\ \/ desktop' = Running(r) /\ Go(r, "launched") /\ UNCHANGED status
       \/ Says("error", my[r].want) /\ Go(r, "ending") /\ UNCHANGED desktop
    /\ UNCHANGED <<Outside, active>>

ReportUp(r) ==
    /\ pc[r] = "launched"
    /\ Says("up", my[r].want)
    /\ Go(r, "ending")
    /\ UNCHANGED <<Outside, active, desktop>>

End(r) ==
    /\ pc[r] = "ending"
    /\ lock' = Released(r)
    /\ Exit(r)
    /\ UNCHANGED <<number, session, faults, history>>

-----------------------------------------------------------------------------
(* Faults.                                                                 *)

\* A signal: the traps of a switch release the lock and exit.  A script that has
\* not set them, or is killed outright, leaves it.
KillSlip(r) ==
    /\ r \in Live /\ faults < MaxFaults
    /\ faults' = faults + 1
    /\ \/ Go(r, "dead") /\ UNCHANGED lock
       \/ pc[r] \in Body /\ lock' = Released(r) /\ UNCHANGED pc
    /\ UNCHANGED <<my, number, session, history>>

Kill(r) ==
    /\ r \in Live /\ faults < MaxFaults
    /\ faults' = faults + 1
    /\ Go(r, "dead")
    /\ UNCHANGED lock \/ (pc[r] \in Body /\ lock' = Released(r))
    /\ my' = Over(r)
    /\ UNCHANGED <<number, session, history>>

DesktopDies ==
    /\ desktop # None /\ faults < MaxFaults
    /\ faults' = faults + 1
    /\ desktop' = None
    /\ UNCHANGED <<requests, number, lock, active, status, history>>

-----------------------------------------------------------------------------
Lock(r) == \/ MarkLock(r) \/ MarkWithoutNumber(r) \/ MarkNumber(r)
           \/ TakeLock(r) \/ LockHeld(r) \/ JudgedStale(r) \/ JudgedHeld(r)
           \/ ReapOwner(r) \/ ReapLock(r) \/ WritePid(r) \/ StartOrSkip(r)

Switch(r) == \/ PreflightFails(r) \/ Stopping(r) \/ Teardown(r) \/ Stopped(r)
             \/ SetActive(r) \/ BringUp(r) \/ ReportUp(r) \/ End(r)

Script(r) == Lock(r) \/ Switch(r)

Request(r) == (\E w \in Presets \cup {"stop"} : RequestSwitch(r, w) \/ RequestEnsure(r, w)) \/ Admit(r)

Next == (\E r \in Reqs : Request(r) \/ Script(r) \/ Kill(r)) \/ DesktopDies

Spec == Init /\ [][Next]_vars

\* A script that is not killed runs its next command.
FairSpec == Spec /\ \A r \in Reqs : WF_vars(Script(r))

-----------------------------------------------------------------------------
(* Properties.                                                             *)

Stages == Body \cup {"idle", "judged", "marking", "numbering", "locking", "judging",
                     "reaping", "removing", "taken", "owner", "done", "dead"}
Wants == Presets \cup {"stop"}
States == Transitional \cup {"none", "up", "down", "error", "stopped"}
Variables == [want : Wants \cup {None}, id : 0..N, nopid : 0..(NoPidLimit - 1),
              waited : 0..MaxWait, same : BOOLEAN, marker : Presets \cup {None}, claim : BOOLEAN]

\* The files and the scripts hold what the code can write; there are never more
\* numbers than requests, and a sighting count or a wait never passes its limit.
TypeOK ==
    /\ pc \in [Reqs -> Stages] /\ my \in [Reqs -> Variables]
    /\ seq \in 0..N /\ seqlock \in BOOLEAN
    /\ lock \in [pid : Reqs \cup {None}, maker : Reqs] \cup {None}
    /\ active \in Presets \cup {None}
    /\ status \in (Wants \cup {None}) \X States
    /\ desktop \in [by : Reqs, id : 0..N, preset : Presets] \cup {None}
    /\ faults \in 0..MaxFaults
    /\ raced \in BOOLEAN /\ unguarded \in BOOLEAN /\ blocked \in BOOLEAN

\* Two switches never run at once, however many were asked for and whoever was
\* killed on the way, except after a waiter removed another lock than the one
\* it had found stale, or took the locks of two scripts for one that stays
\* without a pid.
OneSwitch == ~ raced => Cardinality({r \in Reqs : pc[r] \in Body}) <= 1

\* The newest request wins: a switch never stops the desktop of a request that
\* was numbered after it, unless a lock was removed under its owner or someone
\* went on without a number.
NewestWins ==
    [][\A r \in Reqs : pc[r] = "stopping" /\ pc'[r] = "torn" /\ desktop # None
                         /\ ~ raced /\ ~ unguarded
                           => desktop.id < my[r].id]_vars

\* A status that says a desktop is up is true, as long as neither a desktop nor
\* a script died and no lock was removed under its owner: no waiter, no refused
\* preset and no request of a peer leaves a claim behind.
UpIsRunning ==
    ~ raced /\ faults = 0 /\ (\A r \in Reqs : pc[r] # "dead") /\ status[2] = "up"
        => desktop # None /\ desktop.preset = status[1]

\* A request made when no other script runs any more gets to switch, whatever
\* the scripts before it left behind when they were killed, unless it is killed
\* itself.
LastRecovers ==
    pc[N] = "marking" /\ (\A o \in 1..(N - 1) : pc[o] \in {"done", "dead"})
        ~> pc[N] \in Body \cup {"dead"}

\* A stale status or marker left by a crashed session never blocks recovery: the
\* daemon turns a peer away only while a desktop or a switch is running.
NeverBlocked == ~ blocked
=============================================================================
