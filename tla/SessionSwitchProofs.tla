------------------------ MODULE SessionSwitchProofs ------------------------
(***************************************************************************)
(* Proofs about SessionSwitch, for every number of requests and faults,    *)
(* every set of presets and every limit on sightings and waits.            *)
(***************************************************************************)
EXTENDS SessionSwitch, FiniteSetTheorems, TLAPS

-----------------------------------------------------------------------------
(* The inductive invariant.                                                *)

\* Stages before a request has drawn its number.
Unnumbered == {"idle", "judged", "marking", "numbering"}
Numbered == {r \in Reqs : pc[r] \notin Unnumbered}

\* Numbers are drawn once per request.
CountInv == seq <= Cardinality(Numbered)

\* A script knows what it was asked for, and only a preset is started.
WantInv ==
    \A r \in Reqs : /\ pc[r] \notin {"idle", "done", "dead"} => my[r].want \in Wants
                    /\ pc[r] \in {"starting", "launched"} => my[r].want \in Presets

Owners == {"owner"} \cup Body

\* A pid in the lock is that of a script that took a lock.
PidInv == lock # None /\ lock.pid # None => pc[lock.pid] \in Owners \cup {"done", "dead"}

\* Until a lock is removed under a running script, the lock names the one script
\* that holds it, a lock left behind is that of a killed script, and a waiter
\* on its way to remove the lock it judged removes one of a killed script, or
\* first kills the script it names.
LockInv ==
    ~ raced =>
        /\ \A r \in Reqs : pc[r] = "taken" => lock # None /\ lock.pid = None /\ lock.maker = r
        /\ \A r \in Reqs : pc[r] \in Owners => lock # None /\ lock.pid = r /\ lock.maker = r
        /\ lock # None => /\ lock.pid \in {None, lock.maker}
                          /\ pc[lock.maker] \in {"taken", "dead"} \cup Owners
        /\ \A r \in Reqs : lock # None /\ my[r].same =>
              /\ pc[r] = "reaping" => lock.pid = lock.maker \/ pc[lock.maker] = "dead"
              /\ pc[r] = "removing" => pc[lock.maker] = "dead"

\* Numbers of running scripts differ, and no desktop has the number of a script
\* that has not started one.
NumberInv ==
    /\ \A r \in Reqs : my[r].id <= seq
    /\ desktop # None => desktop.id <= seq
    /\ \A r \in Reqs : my[r].id # 0 => pc[r] \notin Unnumbered
    /\ \A r, q \in Reqs : r # q /\ my[r].id # 0 => my[r].id # my[q].id
    /\ ~ unguarded =>
          /\ \A r \in Reqs : pc[r] \notin Unnumbered \cup {"done", "dead"} => my[r].id # 0
          /\ \A r \in Reqs : desktop # None /\ my[r].id # 0 /\ pc[r] \notin {"launched", "ending"}
                               => my[r].id # desktop.id

\* A switch that has begun is newer than the desktop it will stop.
SwitchInv ==
    ~ raced /\ ~ unguarded =>
        \A r \in Reqs : pc[r] \in {"body", "stopping"} /\ desktop # None => desktop.id < my[r].id

\* While a switch is under way the status does not say "up".
UpInv ==
    ~ raced =>
        /\ \A r \in Reqs : pc[r] \in {"stopping", "torn", "starting", "launched"} => status[2] # "up"
        /\ faults = 0 /\ (\A r \in Reqs : pc[r] # "dead") =>
              /\ \A r \in Reqs : pc[r] = "launched" => desktop = Running(r)
              /\ status[2] = "up" => desktop # None /\ desktop.preset = status[1]

IInv == TypeOK /\ CountInv /\ WantInv /\ PidInv /\ LockInv /\ NumberInv /\ SwitchInv /\ UpInv
-----------------------------------------------------------------------------
(* Types and numbers.                                                      *)

\* There are N requests, and the numbered ones are among them.
LEMMA NumberedFinite ==
  /\ IsFiniteSet(Reqs) /\ Cardinality(Reqs) = N
  /\ IsFiniteSet(Numbered) /\ Cardinality(Numbered) \in Nat
  <1>1. IsFiniteSet(Reqs) /\ Cardinality(Reqs) = N
    BY RequestsAreKnown, FS_Interval DEF Reqs
  <1>2. Numbered \subseteq Reqs
    BY DEF Numbered
  <1> QED
    BY <1>1, <1>2, FS_Subset, FS_CardinalityType

\* While a request has not drawn its number there is a number left for it.
LEMMA RoomForNumber ==
  ASSUME IInv, NEW r \in Reqs, pc[r] \in Unnumbered
  PROVE  seq + 1 \in 0..N
  <1>1. r \notin Numbered
    BY DEF Numbered
  <1>2. /\ IsFiniteSet(Numbered \cup {r})
        /\ Cardinality(Numbered \cup {r}) = Cardinality(Numbered) + 1
    BY <1>1, NumberedFinite, FS_AddElement
  <1>3. Numbered \cup {r} \subseteq Reqs
    BY DEF Numbered
  <1>4. Cardinality(Numbered \cup {r}) <= N
    BY <1>3, NumberedFinite, FS_Subset
  <1> QED
    BY <1>2, <1>4, NumberedFinite, RequestsAreKnown DEF IInv, TypeOK, CountInv

\* A script's variables start out well formed.
LEMMA FreshTyped == Fresh \in Variables
  BY RequestsAreKnown, WaitOutlastsNoPid DEF Fresh, Variables

\* Every step keeps the types; numbers and polls stay within their limits.
LEMMA TypeStep == IInv /\ [Next]_vars => TypeOK'
  <1> SUFFICES ASSUME IInv, [Next]_vars PROVE TypeOK'
    OBVIOUS
  <1> USE RequestsAreKnown, NoneIsApart, WaitOutlastsNoPid, FaultsAreBounded
  <1>1. ASSUME NEW r \in Reqs, NEW w \in Wants, RequestSwitch(r, w) PROVE TypeOK'
    <2>1. pc' \in [Reqs -> Stages]
      BY <1>1 DEF RequestSwitch, Asked, Go, number, session, IInv, TypeOK, Stages, Body, Reqs
    <2>2. my' \in [Reqs -> Variables]
      <3>1. my \in [Reqs -> Variables] /\ my[r] \in Variables
        BY <1>1 DEF IInv, TypeOK
      <3>2. [my[r] EXCEPT !.want = w] \in Variables
        BY <1>1, <3>1 DEF Variables
      <3> QED
        BY <1>1, <3>1, <3>2 DEF RequestSwitch
    <2>3. /\ seq' \in 0..N /\ seqlock' \in BOOLEAN
          /\ lock' \in [pid : Reqs \cup {None}, maker : Reqs] \cup {None}
          /\ desktop' \in [by : Reqs, id : 0..N, preset : Presets] \cup {None}
      BY <1>1 DEF RequestSwitch, Asked, Go, number, session, IInv, TypeOK, WantInv, Variables,
         Reqs
    <2>4. /\ active' \in Presets \cup {None} /\ faults' \in 0..MaxFaults
          /\ raced' \in BOOLEAN /\ unguarded' \in BOOLEAN /\ blocked' \in BOOLEAN
      BY <1>1 DEF RequestSwitch, Asked, Go, number, session, IInv, TypeOK, Variables, Reqs
    <2>5. status' \in (Wants \cup {None}) \X States
      BY <1>1 DEF RequestSwitch, Asked, Go, number, session, IInv, TypeOK, WantInv, Variables,
         Reqs, Wants, States, Transitional
    <2> QED
      BY <2>1, <2>2, <2>3, <2>4, <2>5 DEF TypeOK
  <1>2. ASSUME NEW r \in Reqs, NEW w \in Wants, RequestEnsure(r, w) PROVE TypeOK'
    <2>1. pc' \in [Reqs -> Stages]
      <3>1. CASE Healthy
        BY <1>2, <3>1 DEF RequestEnsure, Go, IInv, TypeOK, Stages
      <3>2. CASE ~ Healthy
        BY <1>2, <3>2 DEF RequestEnsure, Go, IInv, TypeOK, Stages
      <3> QED
        BY <3>1, <3>2
    <2>2. my' \in [Reqs -> Variables]
      <3> DEFINE c == active # None /\ status = <<active, "up">>
      <3>1. CASE Healthy
        BY <1>2, <3>1 DEF RequestEnsure, IInv, TypeOK
      <3>2. CASE ~ Healthy
        <4>1. my' = [my EXCEPT ![r].want = w, ![r].marker = active, ![r].claim = c]
          BY <1>2, <3>2 DEF RequestEnsure
        <4>2. c \in BOOLEAN
          OBVIOUS
        <4> HIDE DEF c
        <4>3. my[r] \in Variables /\ active \in Presets \cup {None}
          BY <1>2 DEF IInv, TypeOK
        <4>4. [my[r] EXCEPT !.want = w, !.marker = active, !.claim = c] \in Variables
          BY <4>2, <4>3 DEF Variables
        <4> QED
          BY <4>1, <4>4, <1>2 DEF IInv, TypeOK
      <3> QED
        BY <3>1, <3>2
    <2>3. /\ seq' \in 0..N /\ seqlock' \in BOOLEAN
          /\ lock' \in [pid : Reqs \cup {None}, maker : Reqs] \cup {None}
          /\ desktop' \in [by : Reqs, id : 0..N, preset : Presets] \cup {None}
      BY <1>2 DEF RequestEnsure, Asked, Go, number, session, IInv, TypeOK, WantInv, Variables,
         Reqs
    <2>4. /\ active' \in Presets \cup {None} /\ faults' \in 0..MaxFaults
          /\ raced' \in BOOLEAN /\ unguarded' \in BOOLEAN /\ blocked' \in BOOLEAN
      BY <1>2 DEF RequestEnsure, Asked, Go, number, session, IInv, TypeOK, Variables, Reqs
    <2>5. status' \in (Wants \cup {None}) \X States
      BY <1>2 DEF RequestEnsure, Asked, Go, number, session, IInv, TypeOK, WantInv, Variables,
         Reqs, Wants, States, Transitional
    <2> QED
      BY <2>1, <2>2, <2>3, <2>4, <2>5 DEF TypeOK
  <1>3. ASSUME NEW r \in Reqs, Admit(r) PROVE TypeOK'
    <2>1. pc' \in [Reqs -> Stages]
      BY <1>3 DEF Admit, Go, number, history, IInv, TypeOK, Stages, Body, Reqs
    <2>2. my' \in [Reqs -> Variables]
      <3>1. my \in [Reqs -> Variables] /\ my[r] \in Variables
        BY <1>3 DEF IInv, TypeOK
      <3>2. [my[r] EXCEPT !.marker = None, !.claim = FALSE] \in Variables
        BY <3>1 DEF Variables
      <3> QED
        BY <1>3, <3>1, <3>2 DEF Admit
    <2>3. /\ seq' \in 0..N /\ seqlock' \in BOOLEAN
          /\ lock' \in [pid : Reqs \cup {None}, maker : Reqs] \cup {None}
          /\ desktop' \in [by : Reqs, id : 0..N, preset : Presets] \cup {None}
      BY <1>3 DEF Admit, Go, number, history, IInv, TypeOK, WantInv, Variables, Reqs
    <2>4. /\ active' \in Presets \cup {None} /\ faults' \in 0..MaxFaults
          /\ raced' \in BOOLEAN /\ unguarded' \in BOOLEAN /\ blocked' \in BOOLEAN
      BY <1>3 DEF Admit, Go, number, history, IInv, TypeOK, Variables, Reqs
    <2>5. status' \in (Wants \cup {None}) \X States
      BY <1>3 DEF Admit, Go, number, history, IInv, TypeOK, WantInv, Variables, Reqs, Wants,
         States, Transitional
    <2> QED
      BY <2>1, <2>2, <2>3, <2>4, <2>5 DEF TypeOK
  <1>4. ASSUME NEW r \in Reqs, MarkLock(r) PROVE TypeOK'
    BY <1>4 DEF MarkLock, Go, session, history, IInv, TypeOK, WantInv, Variables, Stages, Body,
       Wants, States, Transitional, Fresh, Reqs
  <1>5. ASSUME NEW r \in Reqs, MarkWithoutNumber(r) PROVE TypeOK'
    BY <1>5 DEF MarkWithoutNumber, Go, number, session, IInv, TypeOK, WantInv, Variables,
       Stages, Body, Wants, States, Transitional, Fresh, Reqs
  <1>6. ASSUME NEW r \in Reqs, MarkNumber(r) PROVE TypeOK'
    <2>1. pc' \in [Reqs -> Stages]
      BY <1>6 DEF MarkNumber, Go, session, history, IInv, TypeOK, Stages, Body, Reqs
    <2>2. my' \in [Reqs -> Variables]
      BY <1>6, RoomForNumber DEF MarkNumber, Unnumbered, IInv, TypeOK, Variables
    <2>3. /\ seq' \in 0..N /\ seqlock' \in BOOLEAN
          /\ lock' \in [pid : Reqs \cup {None}, maker : Reqs] \cup {None}
          /\ desktop' \in [by : Reqs, id : 0..N, preset : Presets] \cup {None}
      BY <1>6, RoomForNumber DEF MarkNumber, Unnumbered, session, history, IInv, TypeOK
    <2>4. /\ active' \in Presets \cup {None} /\ faults' \in 0..MaxFaults
          /\ raced' \in BOOLEAN /\ unguarded' \in BOOLEAN /\ blocked' \in BOOLEAN
      BY <1>6 DEF MarkNumber, Go, session, history, IInv, TypeOK, Variables, Reqs
    <2>5. status' \in (Wants \cup {None}) \X States
      BY <1>6 DEF MarkNumber, Go, session, history, IInv, TypeOK, WantInv, Variables, Reqs,
         Wants, States, Transitional
    <2> QED
      BY <2>1, <2>2, <2>3, <2>4, <2>5 DEF TypeOK
  <1>7. ASSUME NEW r \in Reqs, TakeLock(r) PROVE TypeOK'
    <2>1. pc' \in [Reqs -> Stages]
      BY <1>7 DEF TakeLock, Go, number, session, history, IInv, TypeOK, Stages, Body, Reqs
    <2>2. my' \in [Reqs -> Variables]
      BY <1>7, FreshTyped DEF TakeLock, Go, number, session, history, IInv, TypeOK, Variables,
         Reqs
    <2>3. /\ seq' \in 0..N /\ seqlock' \in BOOLEAN
          /\ lock' \in [pid : Reqs \cup {None}, maker : Reqs] \cup {None}
          /\ desktop' \in [by : Reqs, id : 0..N, preset : Presets] \cup {None}
      BY <1>7 DEF TakeLock, Go, number, session, history, IInv, TypeOK, WantInv, Variables, Reqs
    <2>4. /\ active' \in Presets \cup {None} /\ faults' \in 0..MaxFaults
          /\ raced' \in BOOLEAN /\ unguarded' \in BOOLEAN /\ blocked' \in BOOLEAN
      BY <1>7 DEF TakeLock, Go, number, session, history, IInv, TypeOK, Variables, Reqs
    <2>5. status' \in (Wants \cup {None}) \X States
      BY <1>7 DEF TakeLock, Go, number, session, history, IInv, TypeOK, WantInv, Variables,
         Reqs, Wants, States, Transitional
    <2> QED
      BY <2>1, <2>2, <2>3, <2>4, <2>5 DEF TypeOK
  <1>8. ASSUME NEW r \in Reqs, LockHeld(r) PROVE TypeOK'
    <2>1. pc' \in [Reqs -> Stages]
      BY <1>8 DEF LockHeld, Go, Exit, Over, number, session, history, IInv, TypeOK, Stages,
         Body, Reqs
    <2>2. my' \in [Reqs -> Variables]
      BY <1>8, FreshTyped DEF LockHeld, Go, Exit, Over, number, session, history, IInv, TypeOK,
         Variables, Reqs
    <2>3. /\ seq' \in 0..N /\ seqlock' \in BOOLEAN
          /\ lock' \in [pid : Reqs \cup {None}, maker : Reqs] \cup {None}
          /\ desktop' \in [by : Reqs, id : 0..N, preset : Presets] \cup {None}
      BY <1>8 DEF LockHeld, Go, Exit, Over, number, session, history, IInv, TypeOK, WantInv,
         Variables, Reqs
    <2>4. /\ active' \in Presets \cup {None} /\ faults' \in 0..MaxFaults
          /\ raced' \in BOOLEAN /\ unguarded' \in BOOLEAN /\ blocked' \in BOOLEAN
      BY <1>8 DEF LockHeld, Go, Exit, Over, number, session, history, IInv, TypeOK, Variables,
         Reqs
    <2>5. status' \in (Wants \cup {None}) \X States
      BY <1>8 DEF LockHeld, Go, Exit, Over, number, session, history, IInv, TypeOK, WantInv,
         Variables, Reqs, Wants, States, Transitional
    <2> QED
      BY <2>1, <2>2, <2>3, <2>4, <2>5 DEF TypeOK
  <1>9. ASSUME NEW r \in Reqs, JudgedStale(r) PROVE TypeOK'
    <2>1. pc' \in [Reqs -> Stages]
      BY <1>9 DEF JudgedStale, Go, number, session, history, SameLock, IInv, TypeOK, Stages,
         Body, Reqs
    <2>2. my' \in [Reqs -> Variables]
      <3> DEFINE same == SameLock(r)
      <3>1. my' = [my EXCEPT ![r].nopid = 0, ![r].same = same]
        BY <1>9 DEF JudgedStale
      <3>2. same \in BOOLEAN
        BY DEF SameLock
      <3> HIDE DEF same
      <3>3. my[r] \in Variables /\ 0 \in 0..(NoPidLimit - 1)
        BY <1>9 DEF IInv, TypeOK
      <3>4. [my[r] EXCEPT !.nopid = 0, !.same = same] \in Variables
        BY <3>2, <3>3 DEF Variables
      <3> QED
        BY <3>1, <3>4, <1>9 DEF IInv, TypeOK
    <2>3. /\ seq' \in 0..N /\ seqlock' \in BOOLEAN
          /\ lock' \in [pid : Reqs \cup {None}, maker : Reqs] \cup {None}
          /\ desktop' \in [by : Reqs, id : 0..N, preset : Presets] \cup {None}
      BY <1>9 DEF JudgedStale, Go, number, session, history, SameLock, IInv, TypeOK, WantInv,
         Variables, Reqs
    <2>4. /\ active' \in Presets \cup {None} /\ faults' \in 0..MaxFaults
          /\ raced' \in BOOLEAN /\ unguarded' \in BOOLEAN /\ blocked' \in BOOLEAN
      BY <1>9 DEF JudgedStale, Go, number, session, history, SameLock, IInv, TypeOK, Variables,
         Reqs
    <2>5. status' \in (Wants \cup {None}) \X States
      BY <1>9 DEF JudgedStale, Go, number, session, history, SameLock, IInv, TypeOK, WantInv,
         Variables, Reqs, Wants, States, Transitional
    <2> QED
      BY <2>1, <2>2, <2>3, <2>4, <2>5 DEF TypeOK
  <1>10. ASSUME NEW r \in Reqs, JudgedHeld(r) PROVE TypeOK'
    <2>1. pc' \in [Reqs -> Stages]
      <3>1. CASE my[r].waited >= MaxWait
        BY <1>10, <3>1 DEF JudgedHeld, Exit, Go, IInv, TypeOK, Stages
      <3>2. CASE ~ (my[r].waited >= MaxWait)
        BY <1>10, <3>2 DEF JudgedHeld, Go, IInv, TypeOK, Stages
      <3> QED
        BY <3>1, <3>2
    <2>2. my' \in [Reqs -> Variables]
      <3>1. CASE my[r].waited >= MaxWait
        BY <1>10, <3>1, FreshTyped DEF JudgedHeld, Exit, Over, IInv, TypeOK
      <3>2. CASE ~ (my[r].waited >= MaxWait)
        <4> DEFINE same == lock # None
                   seen == IF Pid = None THEN my[r].nopid + 1 ELSE 0
        <4>1. my' = [my EXCEPT ![r].nopid = seen, ![r].waited = my[r].waited + 1,
                               ![r].same = same]
          BY <1>10, <3>2 DEF JudgedHeld, IInv, TypeOK
        <4>2. same \in BOOLEAN
          OBVIOUS
        <4>3. my[r] \in Variables
          BY <1>10 DEF IInv, TypeOK
        <4>4. seen \in 0..(NoPidLimit - 1)
          BY <1>10, <4>3 DEF JudgedHeld, Stale, Variables
        <4>5. my[r].waited + 1 \in 0..MaxWait
          BY <3>2, <4>3 DEF Variables
        <4> HIDE DEF same, seen
        <4> QED
          BY <4>1, <4>2, <4>3, <4>4, <4>5, <1>10 DEF IInv, TypeOK, Variables
      <3> QED
        BY <3>1, <3>2
    <2>3. /\ seq' \in 0..N /\ seqlock' \in BOOLEAN
          /\ lock' \in [pid : Reqs \cup {None}, maker : Reqs] \cup {None}
          /\ desktop' \in [by : Reqs, id : 0..N, preset : Presets] \cup {None}
      BY <1>10 DEF JudgedHeld, Go, Exit, Over, number, history, Stale, NoPidAgain, Pid, IInv,
         TypeOK, WantInv, Variables, Reqs
    <2>4. /\ active' \in Presets \cup {None} /\ faults' \in 0..MaxFaults
          /\ raced' \in BOOLEAN /\ unguarded' \in BOOLEAN /\ blocked' \in BOOLEAN
      BY <1>10 DEF JudgedHeld, Go, Exit, Over, number, history, Stale, NoPidAgain, Pid, IInv,
         TypeOK, Variables, Reqs
    <2>5. status' \in (Wants \cup {None}) \X States
      BY <1>10 DEF JudgedHeld, Go, Exit, Over, number, history, Stale, NoPidAgain, Pid, IInv,
         TypeOK, WantInv, Variables, Reqs, Wants, States, Transitional
    <2> QED
      BY <2>1, <2>2, <2>3, <2>4, <2>5 DEF TypeOK
  <1>11. ASSUME NEW r \in Reqs, ReapOwner(r) PROVE TypeOK'
    <2>1. pc' \in [Reqs -> Stages]
      BY <1>11 DEF ReapOwner, Go, Over, number, history, Pid, Live, IInv, TypeOK, Stages, Body,
         Reqs
    <2>2. my' \in [Reqs -> Variables]
      BY <1>11, FreshTyped DEF ReapOwner, Go, Over, number, history, Pid, Live, IInv, TypeOK,
         Variables, Reqs
    <2>3. /\ seq' \in 0..N /\ seqlock' \in BOOLEAN
          /\ lock' \in [pid : Reqs \cup {None}, maker : Reqs] \cup {None}
          /\ desktop' \in [by : Reqs, id : 0..N, preset : Presets] \cup {None}
      BY <1>11 DEF ReapOwner, Go, Over, number, history, Pid, Live, IInv, TypeOK, WantInv,
         Variables, Reqs
    <2>4. /\ active' \in Presets \cup {None} /\ faults' \in 0..MaxFaults
          /\ raced' \in BOOLEAN /\ unguarded' \in BOOLEAN /\ blocked' \in BOOLEAN
      BY <1>11 DEF ReapOwner, Go, Over, number, history, Pid, Live, IInv, TypeOK, Variables,
         Reqs
    <2>5. status' \in (Wants \cup {None}) \X States
      BY <1>11 DEF ReapOwner, Go, Over, number, history, Pid, Live, IInv, TypeOK, WantInv,
         Variables, Reqs, Wants, States, Transitional
    <2> QED
      BY <2>1, <2>2, <2>3, <2>4, <2>5 DEF TypeOK
  <1>12. ASSUME NEW r \in Reqs, ReapLock(r) PROVE TypeOK'
    BY <1>12 DEF ReapLock, Go, number, session, IInv, TypeOK, WantInv, Variables, Stages, Body,
       Wants, States, Transitional, Fresh, Reqs
  <1>13. ASSUME NEW r \in Reqs, WritePid(r) PROVE TypeOK'
    BY <1>13 DEF WritePid, Go, number, session, history, IInv, TypeOK, WantInv, Variables,
       Stages, Body, Wants, States, Transitional, Fresh, Reqs
  <1>14. ASSUME NEW r \in Reqs, StartOrSkip(r) PROVE TypeOK'
    <2>1. pc' \in [Reqs -> Stages]
      BY <1>14 DEF StartOrSkip, Go, Exit, Over, Released, Pid, number, session, history, IInv,
         TypeOK, Stages, Body, Reqs
    <2>2. my' \in [Reqs -> Variables]
      BY <1>14, FreshTyped DEF StartOrSkip, Go, Exit, Over, Released, Pid, number, session,
         history, IInv, TypeOK, Variables, Reqs
    <2>3. /\ seq' \in 0..N /\ seqlock' \in BOOLEAN
          /\ lock' \in [pid : Reqs \cup {None}, maker : Reqs] \cup {None}
          /\ desktop' \in [by : Reqs, id : 0..N, preset : Presets] \cup {None}
      BY <1>14 DEF StartOrSkip, Go, Exit, Over, Released, Pid, number, session, history, IInv,
         TypeOK, WantInv, Variables, Reqs
    <2>4. /\ active' \in Presets \cup {None} /\ faults' \in 0..MaxFaults
          /\ raced' \in BOOLEAN /\ unguarded' \in BOOLEAN /\ blocked' \in BOOLEAN
      BY <1>14 DEF StartOrSkip, Go, Exit, Over, Released, Pid, number, session, history, IInv,
         TypeOK, Variables, Reqs
    <2>5. status' \in (Wants \cup {None}) \X States
      BY <1>14 DEF StartOrSkip, Go, Exit, Over, Released, Pid, number, session, history, IInv,
         TypeOK, WantInv, Variables, Reqs, Wants, States, Transitional
    <2> QED
      BY <2>1, <2>2, <2>3, <2>4, <2>5 DEF TypeOK
  <1>15. ASSUME NEW r \in Reqs, PreflightFails(r) PROVE TypeOK'
    <2>1. pc' \in [Reqs -> Stages]
      BY <1>15 DEF PreflightFails, Go, Says, Outside, Files, number, history, IInv, TypeOK,
         Stages, Body, Reqs
    <2>2. my' \in [Reqs -> Variables]
      BY <1>15, FreshTyped DEF PreflightFails, Go, Says, Outside, Files, number, history, IInv,
         TypeOK, Variables, Reqs
    <2>3. /\ seq' \in 0..N /\ seqlock' \in BOOLEAN
          /\ lock' \in [pid : Reqs \cup {None}, maker : Reqs] \cup {None}
          /\ desktop' \in [by : Reqs, id : 0..N, preset : Presets] \cup {None}
      BY <1>15 DEF PreflightFails, Go, Says, Outside, Files, number, history, IInv, TypeOK,
         WantInv, Variables, Reqs
    <2>4. /\ active' \in Presets \cup {None} /\ faults' \in 0..MaxFaults
          /\ raced' \in BOOLEAN /\ unguarded' \in BOOLEAN /\ blocked' \in BOOLEAN
      BY <1>15 DEF PreflightFails, Go, Says, Outside, Files, number, history, IInv, TypeOK,
         Variables, Reqs
    <2>5. status' \in (Wants \cup {None}) \X States
      BY <1>15 DEF PreflightFails, Go, Says, Outside, Files, number, history, IInv, TypeOK,
         WantInv, Variables, Reqs, Wants, States, Transitional
    <2> QED
      BY <2>1, <2>2, <2>3, <2>4, <2>5 DEF TypeOK
  <1>16. ASSUME NEW r \in Reqs, Stopping(r) PROVE TypeOK'
    BY <1>16 DEF Stopping, Go, Says, Outside, Files, number, history, IInv, TypeOK, WantInv,
       Variables, Stages, Body, Wants, States, Transitional, Fresh, Reqs
  <1>17. ASSUME NEW r \in Reqs, Teardown(r) PROVE TypeOK'
    BY <1>17 DEF Teardown, Says, Files, number, history, IInv, TypeOK, WantInv, Variables,
       Stages, Body, Wants, States, Transitional, Fresh, Reqs
  <1>18. ASSUME NEW r \in Reqs, Stopped(r) PROVE TypeOK'
    BY <1>18 DEF Stopped, Go, Says, Outside, Files, number, history, IInv, TypeOK, WantInv,
       Variables, Stages, Body, Wants, States, Transitional, Fresh, Reqs
  <1>19. ASSUME NEW r \in Reqs, SetActive(r) PROVE TypeOK'
    BY <1>19 DEF SetActive, Go, Says, Outside, Files, number, history, IInv, TypeOK, WantInv,
       Variables, Stages, Body, Wants, States, Transitional, Fresh, Reqs
  <1>20. ASSUME NEW r \in Reqs, BringUp(r) PROVE TypeOK'
    <2>1. pc' \in [Reqs -> Stages]
      BY <1>20 DEF BringUp, Go, Says, Running, Outside, Files, number, history, IInv, TypeOK,
         Stages, Body, Reqs
    <2>2. my' \in [Reqs -> Variables]
      BY <1>20, FreshTyped DEF BringUp, Go, Says, Running, Outside, Files, number, history,
         IInv, TypeOK, Variables, Reqs
    <2>3. /\ seq' \in 0..N /\ seqlock' \in BOOLEAN
          /\ lock' \in [pid : Reqs \cup {None}, maker : Reqs] \cup {None}
          /\ desktop' \in [by : Reqs, id : 0..N, preset : Presets] \cup {None}
      BY <1>20 DEF BringUp, Go, Says, Running, Outside, Files, number, history, IInv, TypeOK,
         WantInv, Variables, Reqs
    <2>4. /\ active' \in Presets \cup {None} /\ faults' \in 0..MaxFaults
          /\ raced' \in BOOLEAN /\ unguarded' \in BOOLEAN /\ blocked' \in BOOLEAN
      BY <1>20 DEF BringUp, Go, Says, Running, Outside, Files, number, history, IInv, TypeOK,
         Variables, Reqs
    <2>5. status' \in (Wants \cup {None}) \X States
      BY <1>20 DEF BringUp, Go, Says, Running, Outside, Files, number, history, IInv, TypeOK,
         WantInv, Variables, Reqs, Wants, States, Transitional
    <2> QED
      BY <2>1, <2>2, <2>3, <2>4, <2>5 DEF TypeOK
  <1>21. ASSUME NEW r \in Reqs, ReportUp(r) PROVE TypeOK'
    BY <1>21 DEF ReportUp, Go, Says, Outside, Files, number, history, IInv, TypeOK, WantInv,
       Variables, Stages, Body, Wants, States, Transitional, Fresh, Reqs
  <1>22. ASSUME NEW r \in Reqs, End(r) PROVE TypeOK'
    BY <1>22 DEF End, Go, Exit, Over, Released, Pid, number, session, history, IInv, TypeOK,
       WantInv, Variables, Stages, Body, Wants, States, Transitional, Fresh, Reqs
  <1>23. ASSUME NEW r \in Reqs, Kill(r) PROVE TypeOK'
    BY <1>23 DEF Kill, Go, Over, Released, Pid, Live, number, session, history, IInv, TypeOK,
       WantInv, Variables, Stages, Body, Wants, States, Transitional, Fresh, Reqs
  <1>24. ASSUME DesktopDies PROVE TypeOK'
    BY <1>24 DEF DesktopDies, requests, number, history, IInv, TypeOK, WantInv, Variables,
       Stages, Body, Wants, States, Transitional, Fresh, Reqs
  <1>25. CASE UNCHANGED vars
    BY <1>25 DEF vars, requests, number, session, history, IInv, TypeOK
  <1> QED
    BY <1>1, <1>2, <1>3, <1>4, <1>5, <1>6, <1>7, <1>8, <1>9, <1>10, <1>11, <1>12, <1>13, <1>14,
       <1>15, <1>16, <1>17, <1>18, <1>19, <1>20, <1>21, <1>22, <1>23, <1>24, <1>25 DEF Next,
       Request, Script, Lock, Switch, Wants

-----------------------------------------------------------------------------
(* What the actions with nested updates do, stage by stage.                *)

\* What the request of a peer changes: its own stage and variables.
LEMMA RequestEnsureEffect ==
  ASSUME IInv, NEW r \in Reqs, NEW w \in Wants, RequestEnsure(r, w)
  PROVE  /\ pc[r] = "idle" /\ pc'[r] \in {"judged", "done"}
         /\ pc'[r] = "judged" => my'[r].want = w
         /\ my'[r].id = my[r].id /\ my'[r].same = my[r].same
         /\ \A o \in Reqs \ {r} : pc'[o] = pc[o] /\ my'[o] = my[o]
         /\ UNCHANGED <<seq, seqlock, lock, active, status, desktop, faults, raced, unguarded>>
  <1>1. my \in [Reqs -> Variables] /\ pc \in [Reqs -> Stages]
    BY DEF IInv, TypeOK
  <1>2. CASE Healthy
    BY <1>1, <1>2 DEF RequestEnsure, Asked, Go, number, session
  <1>3. CASE ~ Healthy
    <2> DEFINE c == active # None /\ status = <<active, "up">>
    <2>1. my' = [my EXCEPT ![r].want = w, ![r].marker = active, ![r].claim = c]
      BY <1>3 DEF RequestEnsure
    <2> HIDE DEF c
    <2>2. my'[r] = [my[r] EXCEPT !.want = w, !.marker = active, !.claim = c]
      BY <1>1, <2>1
    <2>3. /\ my'[r].want = w /\ my'[r].id = my[r].id /\ my'[r].same = my[r].same
          /\ \A o \in Reqs \ {r} : my'[o] = my[o]
      BY <1>1, <2>1, <2>2 DEF Variables
    <2> QED
      BY <1>1, <1>3, <2>3 DEF RequestEnsure, Asked, Go, number, session
  <1> QED
    BY <1>2, <1>3

\* Taking the lock tells every script that it has been replaced.
LEMMA TakeLockEffect ==
  ASSUME IInv, NEW r \in Reqs, TakeLock(r)
  PROVE  /\ pc[r] = "locking" /\ pc'[r] = "taken"
         /\ \A o \in Reqs \ {r} : pc'[o] = pc[o]
         /\ \A o \in Reqs : /\ my'[o].want = my[o].want /\ my'[o].id = my[o].id
                            /\ ~ my'[o].same
         /\ lock = None /\ lock' # None /\ lock'.pid = None /\ lock'.maker = r
         /\ UNCHANGED <<seq, seqlock, active, status, desktop, faults, raced, unguarded>>
  <1>1. my \in [Reqs -> Variables] /\ pc \in [Reqs -> Stages]
    BY DEF IInv, TypeOK
  <1>2. ASSUME NEW o \in Reqs
        PROVE  my'[o].want = my[o].want /\ my'[o].id = my[o].id /\ ~ my'[o].same
    <2>1. my'[o] = [my[o] EXCEPT !.same = FALSE]
      BY DEF TakeLock
    <2> QED
      BY <1>1, <2>1 DEF Variables
  <1>3. lock' = [pid |-> None, maker |-> r] /\ lock' # None
    BY NoneIsApart DEF TakeLock, Reqs
  <1> QED
    BY <1>1, <1>2, <1>3 DEF TakeLock, Go, number, session, history

\* A waiter polls again, or gives up and ends.
LEMMA JudgedHeldEffect ==
  ASSUME IInv, NEW r \in Reqs, JudgedHeld(r)
  PROVE  /\ pc[r] = "judging"
         /\ \/ pc'[r] = "done" /\ my'[r] = Fresh
            \/ pc'[r] = "locking" /\ my'[r].want = my[r].want /\ my'[r].id = my[r].id
         /\ \A o \in Reqs \ {r} : pc'[o] = pc[o] /\ my'[o] = my[o]
         /\ status' = status \/ status'[2] \in {"waiting", "error"}
         /\ UNCHANGED <<seq, seqlock, lock, active, desktop, faults, raced, unguarded>>
  <1>1. my \in [Reqs -> Variables] /\ pc \in [Reqs -> Stages]
    BY DEF IInv, TypeOK
  <1>2. CASE my[r].waited >= MaxWait
    BY <1>1, <1>2 DEF JudgedHeld, Exit, Over, Go, number, history
  <1>3. CASE ~ (my[r].waited >= MaxWait)
    <2> DEFINE same == lock # None
               seen == IF Pid = None THEN my[r].nopid + 1 ELSE 0
    <2>1. my' = [my EXCEPT ![r].nopid = seen, ![r].waited = my[r].waited + 1, ![r].same = same]
      BY <1>1, <1>3 DEF JudgedHeld
    <2> HIDE DEF same, seen
    <2>2. my'[r] = [my[r] EXCEPT !.nopid = seen, !.waited = my[r].waited + 1, !.same = same]
      BY <1>1, <2>1
    <2>3. /\ my'[r].want = my[r].want /\ my'[r].id = my[r].id
          /\ \A o \in Reqs \ {r} : my'[o] = my[o]
      BY <1>1, <2>1, <2>2 DEF Variables
    <2> QED
      BY <1>1, <1>3, <2>3 DEF JudgedHeld, Go, number, history
  <1> QED
    BY <1>2, <1>3

\* A waiter that judged the lock stale keeps its request, and its `same' is about
\* that lock.
LEMMA JudgedStaleEffect ==
  ASSUME IInv, NEW r \in Reqs, JudgedStale(r)
  PROVE  /\ pc[r] = "judging" /\ pc'[r] = "reaping"
         /\ my'[r].want = my[r].want /\ my'[r].id = my[r].id /\ (my'[r].same <=> SameLock(r))
         /\ \A o \in Reqs \ {r} : pc'[o] = pc[o] /\ my'[o] = my[o]
         /\ Stale(r) \/ Pid \in Live
         /\ faults' = faults \/ faults' = faults + 1
         /\ UNCHANGED <<seq, seqlock, lock, active, status, desktop, raced, unguarded>>
  <1>1. my \in [Reqs -> Variables] /\ pc \in [Reqs -> Stages]
    BY DEF IInv, TypeOK
  <1> DEFINE same == SameLock(r)
  <1>2. my' = [my EXCEPT ![r].nopid = 0, ![r].same = same]
    BY DEF JudgedStale
  <1> HIDE DEF same
  <1>3. my'[r] = [my[r] EXCEPT !.nopid = 0, !.same = same]
    BY <1>1, <1>2
  <1>4. /\ my'[r].want = my[r].want /\ my'[r].id = my[r].id /\ my'[r].same = same
        /\ \A o \in Reqs \ {r} : my'[o] = my[o]
    BY <1>1, <1>2, <1>3 DEF Variables
  <1>5. my'[r].same <=> SameLock(r)
    BY <1>4 DEF same
  <1> QED
    BY <1>1, <1>4, <1>5 DEF JudgedStale, Go, number, session, history

\* The holder of the lock writes its pid into it.
LEMMA WritePidEffect ==
  ASSUME IInv, ~ raced, NEW r \in Reqs, WritePid(r)
  PROVE  lock' # None /\ lock'.pid = r /\ lock'.maker = r
  <1>1. lock \in [pid : Reqs \cup {None}, maker : Reqs] /\ lock # None /\ lock.maker = r
    BY DEF IInv, TypeOK, LockInv, WritePid
  <1>2. lock' = [lock EXCEPT !.pid = r]
    BY <1>1 DEF WritePid
  <1>3. lock' \in [pid : Reqs \cup {None}, maker : Reqs] /\ lock'.pid = r /\ lock'.maker = r
    BY <1>1, <1>2
  <1> QED
    BY <1>3, NoneIsApart DEF Reqs

\* Reaping kills the script named in the lock, if it runs, and nobody else.
LEMMA ReapOwnerEffect ==
  ASSUME IInv, NEW r \in Reqs, ReapOwner(r)
  PROVE  /\ pc[r] = "reaping" /\ pc'[r] = "removing" /\ my'[r] = my[r]
         /\ \/ /\ Pid \in Live /\ Pid # r /\ pc'[Pid] = "dead" /\ my'[Pid] = Fresh
               /\ \A o \in Reqs \ {r, Pid} : pc'[o] = pc[o] /\ my'[o] = my[o]
               /\ lock' = lock \/ lock' = None
            \/ /\ Pid \notin Live /\ UNCHANGED <<my, lock>>
               /\ \A o \in Reqs \ {r} : pc'[o] = pc[o]
         /\ desktop' = desktop \/ (desktop' = None /\ desktop # None /\ Pid = desktop.by)
         /\ UNCHANGED <<seq, seqlock, active, status, faults, raced, unguarded, blocked>>
  <1>1. my \in [Reqs -> Variables] /\ pc \in [Reqs -> Stages]
    BY DEF IInv, TypeOK
  <1>2. CASE Pid \in Live
    <2>1. Pid \in Reqs
      BY <1>2 DEF Live
    <2>2. Pid # r
      BY <2>1, NoneIsApart DEF ReapOwner, IInv, PidInv, Owners, Body, Pid, Reqs
    <2> QED
      BY <1>1, <1>2, <2>1, <2>2 DEF ReapOwner, Over, number, history
  <1>3. CASE Pid \notin Live
    BY <1>1, <1>3 DEF ReapOwner, Go, number, history
  <1> QED
    BY <1>2, <1>3

\* A script that ends leaves no number behind.
LEMMA ExitEffect ==
  ASSUME IInv, NEW r \in Reqs, Exit(r)
  PROVE  /\ pc'[r] = "done" /\ my'[r].id = 0
         /\ \A o \in Reqs \ {r} : pc'[o] = pc[o] /\ my'[o] = my[o]
  BY DEF Exit, Go, Over, Fresh, IInv, TypeOK

-----------------------------------------------------------------------------
(* Every step preserves each part of the invariant.                        *)

\* The numbered requests only grow.
LEMMA CountGrows ==
  ASSUME IInv, Numbered \subseteq Numbered', seq' = seq
  PROVE  CountInv'
  <1>1. IsFiniteSet(Numbered') /\ Cardinality(Numbered') \in Nat
    <2>1. Numbered' \subseteq Reqs
      BY DEF Numbered
    <2> QED
      BY <2>1, NumberedFinite, FS_Subset, FS_CardinalityType
  <1>2. Cardinality(Numbered) <= Cardinality(Numbered')
    BY <1>1, NumberedFinite, FS_Subset
  <1> QED
    BY <1>1, <1>2, NumberedFinite DEF IInv, TypeOK, CountInv

\* A request that draws its number joins them.
LEMMA CountNumber ==
  ASSUME IInv, NEW r \in Reqs, MarkNumber(r)
  PROVE  CountInv'
  <1>1. r \notin Numbered /\ Numbered' = Numbered \cup {r}
    BY DEF MarkNumber, Go, Numbered, Unnumbered, IInv, TypeOK
  <1>2. Cardinality(Numbered') = Cardinality(Numbered) + 1
    BY <1>1, NumberedFinite, FS_AddElement
  <1> QED
    BY <1>2, NumberedFinite DEF MarkNumber, IInv, TypeOK, CountInv

\* No step makes more numbers than numbered requests.
LEMMA CountStep == IInv /\ [Next]_vars => CountInv'
  <1> SUFFICES ASSUME IInv, [Next]_vars PROVE CountInv'
    OBVIOUS
  <1>1. ASSUME NEW r \in Reqs, NEW w \in Wants, RequestSwitch(r, w) PROVE CountInv'
    <2>1. Numbered \subseteq Numbered' /\ seq' = seq
      BY <1>1 DEF RequestSwitch, Asked, Go, number, session, Numbered, Unnumbered, IInv, TypeOK
    <2> QED
      BY <2>1, CountGrows
  <1>2. ASSUME NEW r \in Reqs, NEW w \in Wants, RequestEnsure(r, w) PROVE CountInv'
    <2>1. Numbered \subseteq Numbered' /\ seq' = seq
      BY <1>2 DEF RequestEnsure, Asked, Go, number, session, Numbered, Unnumbered, IInv, TypeOK
    <2> QED
      BY <2>1, CountGrows
  <1>3. ASSUME NEW r \in Reqs, Admit(r) PROVE CountInv'
    <2>1. Numbered \subseteq Numbered' /\ seq' = seq
      BY <1>3 DEF Admit, Go, number, history, Numbered, Unnumbered, IInv, TypeOK
    <2> QED
      BY <2>1, CountGrows
  <1>4. ASSUME NEW r \in Reqs, MarkLock(r) PROVE CountInv'
    <2>1. Numbered \subseteq Numbered' /\ seq' = seq
      BY <1>4 DEF MarkLock, Go, session, history, Numbered, Unnumbered, IInv, TypeOK
    <2> QED
      BY <2>1, CountGrows
  <1>5. ASSUME NEW r \in Reqs, MarkWithoutNumber(r) PROVE CountInv'
    <2>1. Numbered \subseteq Numbered' /\ seq' = seq
      BY <1>5 DEF MarkWithoutNumber, Go, number, session, Numbered, Unnumbered, IInv, TypeOK
    <2> QED
      BY <2>1, CountGrows
  <1>6. ASSUME NEW r \in Reqs, MarkNumber(r) PROVE CountInv'
    BY <1>6, CountNumber
  <1>7. ASSUME NEW r \in Reqs, TakeLock(r) PROVE CountInv'
    <2>1. Numbered \subseteq Numbered' /\ seq' = seq
      BY <1>7 DEF TakeLock, Go, number, session, history, Numbered, Unnumbered, IInv, TypeOK
    <2> QED
      BY <2>1, CountGrows
  <1>8. ASSUME NEW r \in Reqs, LockHeld(r) PROVE CountInv'
    <2>1. Numbered \subseteq Numbered' /\ seq' = seq
      BY <1>8 DEF LockHeld, Go, Exit, Over, number, session, history, Numbered, Unnumbered,
         IInv, TypeOK
    <2> QED
      BY <2>1, CountGrows
  <1>9. ASSUME NEW r \in Reqs, JudgedStale(r) PROVE CountInv'
    <2>1. Numbered \subseteq Numbered' /\ seq' = seq
      BY <1>9 DEF JudgedStale, Go, number, session, history, Numbered, Unnumbered, IInv, TypeOK
    <2> QED
      BY <2>1, CountGrows
  <1>10. ASSUME NEW r \in Reqs, JudgedHeld(r) PROVE CountInv'
    <2>1. Numbered \subseteq Numbered' /\ seq' = seq
      BY <1>10 DEF JudgedHeld, Go, Exit, Over, number, history, Numbered, Unnumbered, IInv,
         TypeOK
    <2> QED
      BY <2>1, CountGrows
  <1>11. ASSUME NEW r \in Reqs, ReapOwner(r) PROVE CountInv'
    <2>1. Numbered \subseteq Numbered' /\ seq' = seq
      BY <1>11 DEF ReapOwner, Go, Over, number, history, Pid, Live, Numbered, Unnumbered, IInv,
         TypeOK
    <2> QED
      BY <2>1, CountGrows
  <1>12. ASSUME NEW r \in Reqs, ReapLock(r) PROVE CountInv'
    <2>1. Numbered \subseteq Numbered' /\ seq' = seq
      BY <1>12 DEF ReapLock, Go, number, session, Numbered, Unnumbered, IInv, TypeOK
    <2> QED
      BY <2>1, CountGrows
  <1>13. ASSUME NEW r \in Reqs, WritePid(r) PROVE CountInv'
    <2>1. Numbered \subseteq Numbered' /\ seq' = seq
      BY <1>13 DEF WritePid, Go, number, session, history, Numbered, Unnumbered, IInv, TypeOK
    <2> QED
      BY <2>1, CountGrows
  <1>14. ASSUME NEW r \in Reqs, StartOrSkip(r) PROVE CountInv'
    <2>1. Numbered \subseteq Numbered' /\ seq' = seq
      BY <1>14 DEF StartOrSkip, Go, Exit, Over, Released, Pid, number, session, history,
         Numbered, Unnumbered, IInv, TypeOK
    <2> QED
      BY <2>1, CountGrows
  <1>15. ASSUME NEW r \in Reqs, PreflightFails(r) PROVE CountInv'
    <2>1. Numbered \subseteq Numbered' /\ seq' = seq
      BY <1>15 DEF PreflightFails, Go, Says, Outside, Files, number, history, Numbered,
         Unnumbered, IInv, TypeOK
    <2> QED
      BY <2>1, CountGrows
  <1>16. ASSUME NEW r \in Reqs, Stopping(r) PROVE CountInv'
    <2>1. Numbered \subseteq Numbered' /\ seq' = seq
      BY <1>16 DEF Stopping, Go, Says, Outside, Files, number, history, Numbered, Unnumbered,
         IInv, TypeOK
    <2> QED
      BY <2>1, CountGrows
  <1>17. ASSUME NEW r \in Reqs, Teardown(r) PROVE CountInv'
    <2>1. Numbered \subseteq Numbered' /\ seq' = seq
      BY <1>17 DEF Teardown, Says, Files, number, history, Numbered, Unnumbered, IInv, TypeOK
    <2> QED
      BY <2>1, CountGrows
  <1>18. ASSUME NEW r \in Reqs, Stopped(r) PROVE CountInv'
    <2>1. Numbered \subseteq Numbered' /\ seq' = seq
      BY <1>18 DEF Stopped, Go, Says, Outside, Files, number, history, Numbered, Unnumbered,
         IInv, TypeOK
    <2> QED
      BY <2>1, CountGrows
  <1>19. ASSUME NEW r \in Reqs, SetActive(r) PROVE CountInv'
    <2>1. Numbered \subseteq Numbered' /\ seq' = seq
      BY <1>19 DEF SetActive, Go, Says, Outside, Files, number, history, Numbered, Unnumbered,
         IInv, TypeOK
    <2> QED
      BY <2>1, CountGrows
  <1>20. ASSUME NEW r \in Reqs, BringUp(r) PROVE CountInv'
    <2>1. Numbered \subseteq Numbered' /\ seq' = seq
      BY <1>20 DEF BringUp, Go, Says, Running, Outside, Files, number, history, Numbered,
         Unnumbered, IInv, TypeOK
    <2> QED
      BY <2>1, CountGrows
  <1>21. ASSUME NEW r \in Reqs, ReportUp(r) PROVE CountInv'
    <2>1. Numbered \subseteq Numbered' /\ seq' = seq
      BY <1>21 DEF ReportUp, Go, Says, Outside, Files, number, history, Numbered, Unnumbered,
         IInv, TypeOK
    <2> QED
      BY <2>1, CountGrows
  <1>22. ASSUME NEW r \in Reqs, End(r) PROVE CountInv'
    <2>1. Numbered \subseteq Numbered' /\ seq' = seq
      BY <1>22 DEF End, Go, Exit, Over, Released, Pid, number, session, history, Numbered,
         Unnumbered, IInv, TypeOK
    <2> QED
      BY <2>1, CountGrows
  <1>23. ASSUME NEW r \in Reqs, Kill(r) PROVE CountInv'
    <2>1. Numbered \subseteq Numbered' /\ seq' = seq
      BY <1>23 DEF Kill, Go, Over, Released, Pid, Live, number, session, history, Live,
         Numbered, Unnumbered, IInv, TypeOK
    <2> QED
      BY <2>1, CountGrows
  <1>24. ASSUME DesktopDies PROVE CountInv'
    <2>1. Numbered \subseteq Numbered' /\ seq' = seq
      BY <1>24 DEF DesktopDies, requests, number, history, Numbered, Unnumbered, IInv, TypeOK
    <2> QED
      BY <2>1, CountGrows
  <1>25. CASE UNCHANGED vars
    BY <1>25, CountGrows DEF vars, requests, number, Numbered
  <1> QED
    BY <1>1, <1>2, <1>3, <1>4, <1>5, <1>6, <1>7, <1>8, <1>9, <1>10, <1>11, <1>12, <1>13, <1>14,
       <1>15, <1>16, <1>17, <1>18, <1>19, <1>20, <1>21, <1>22, <1>23, <1>24, <1>25 DEF Next,
       Request, Script, Lock, Switch, Wants

\* Every step keeps what a script was asked for until it ends.
LEMMA WantStep == IInv /\ [Next]_vars => WantInv'
  <1> SUFFICES ASSUME IInv, [Next]_vars PROVE WantInv'
    OBVIOUS
  <1>1. ASSUME NEW r \in Reqs, NEW w \in Wants, RequestSwitch(r, w) PROVE WantInv'
    BY <1>1, RequestsAreKnown DEF RequestSwitch, Asked, Go, number, session, IInv, TypeOK,
       WantInv, Wants
  <1>2. ASSUME NEW r \in Reqs, NEW w \in Wants, RequestEnsure(r, w) PROVE WantInv'
    BY <1>2, RequestsAreKnown, RequestEnsureEffect DEF IInv, TypeOK, WantInv, Wants
  <1>3. ASSUME NEW r \in Reqs, Admit(r) PROVE WantInv'
    BY <1>3, RequestsAreKnown DEF Admit, Go, number, history, IInv, TypeOK, WantInv, Wants
  <1>4. ASSUME NEW r \in Reqs, MarkLock(r) PROVE WantInv'
    BY <1>4, RequestsAreKnown DEF MarkLock, Go, session, history, IInv, TypeOK, WantInv, Wants
  <1>5. ASSUME NEW r \in Reqs, MarkWithoutNumber(r) PROVE WantInv'
    BY <1>5, RequestsAreKnown DEF MarkWithoutNumber, Go, number, session, IInv, TypeOK,
       WantInv, Wants
  <1>6. ASSUME NEW r \in Reqs, MarkNumber(r) PROVE WantInv'
    BY <1>6, RequestsAreKnown DEF MarkNumber, Go, session, history, IInv, TypeOK, WantInv, Wants
  <1>7. ASSUME NEW r \in Reqs, TakeLock(r) PROVE WantInv'
    BY <1>7, RequestsAreKnown, TakeLockEffect DEF IInv, TypeOK, WantInv, Wants
  <1>8. ASSUME NEW r \in Reqs, LockHeld(r) PROVE WantInv'
    BY <1>8, RequestsAreKnown DEF LockHeld, Go, Exit, Over, number, session, history, IInv,
       TypeOK, WantInv, Wants
  <1>9. ASSUME NEW r \in Reqs, JudgedStale(r) PROVE WantInv'
    BY <1>9, RequestsAreKnown, JudgedStaleEffect DEF IInv, TypeOK, WantInv, Wants
  <1>10. ASSUME NEW r \in Reqs, JudgedHeld(r) PROVE WantInv'
    BY <1>10, RequestsAreKnown, JudgedHeldEffect DEF IInv, TypeOK, WantInv, Wants
  <1>11. ASSUME NEW r \in Reqs, ReapOwner(r) PROVE WantInv'
    BY <1>11, RequestsAreKnown DEF ReapOwner, Go, Over, number, history, IInv, TypeOK, WantInv,
       Wants, Pid, Live
  <1>12. ASSUME NEW r \in Reqs, ReapLock(r) PROVE WantInv'
    BY <1>12, RequestsAreKnown DEF ReapLock, Go, number, session, IInv, TypeOK, WantInv, Wants
  <1>13. ASSUME NEW r \in Reqs, WritePid(r) PROVE WantInv'
    BY <1>13, RequestsAreKnown DEF WritePid, Go, number, session, history, IInv, TypeOK,
       WantInv, Wants
  <1>14. ASSUME NEW r \in Reqs, StartOrSkip(r) PROVE WantInv'
    BY <1>14, RequestsAreKnown DEF StartOrSkip, Go, Exit, Over, Released, Pid, number, session,
       history, IInv, TypeOK, WantInv, Wants
  <1>15. ASSUME NEW r \in Reqs, PreflightFails(r) PROVE WantInv'
    BY <1>15, RequestsAreKnown DEF PreflightFails, Go, Says, Outside, Files, number, history,
       IInv, TypeOK, WantInv, Wants
  <1>16. ASSUME NEW r \in Reqs, Stopping(r) PROVE WantInv'
    BY <1>16, RequestsAreKnown DEF Stopping, Go, Says, Outside, Files, number, history, IInv,
       TypeOK, WantInv, Wants
  <1>17. ASSUME NEW r \in Reqs, Teardown(r) PROVE WantInv'
    BY <1>17, RequestsAreKnown DEF Teardown, Says, Files, number, history, IInv, TypeOK,
       WantInv, Wants
  <1>18. ASSUME NEW r \in Reqs, Stopped(r) PROVE WantInv'
    BY <1>18, RequestsAreKnown DEF Stopped, Go, Says, Outside, Files, number, history, IInv,
       TypeOK, WantInv, Wants
  <1>19. ASSUME NEW r \in Reqs, SetActive(r) PROVE WantInv'
    BY <1>19, RequestsAreKnown DEF SetActive, Go, Says, Outside, Files, number, history, IInv,
       TypeOK, WantInv, Wants
  <1>20. ASSUME NEW r \in Reqs, BringUp(r) PROVE WantInv'
    BY <1>20, RequestsAreKnown DEF BringUp, Go, Says, Running, Outside, Files, number, history,
       IInv, TypeOK, WantInv, Wants
  <1>21. ASSUME NEW r \in Reqs, ReportUp(r) PROVE WantInv'
    BY <1>21, RequestsAreKnown DEF ReportUp, Go, Says, Outside, Files, number, history, IInv,
       TypeOK, WantInv, Wants
  <1>22. ASSUME NEW r \in Reqs, End(r) PROVE WantInv'
    BY <1>22, RequestsAreKnown DEF End, Go, Exit, Over, Released, Pid, number, session,
       history, IInv, TypeOK, WantInv, Wants
  <1>23. ASSUME NEW r \in Reqs, Kill(r) PROVE WantInv'
    BY <1>23, RequestsAreKnown DEF Kill, Go, Over, Released, Pid, Live, number, session,
       history, IInv, TypeOK, WantInv, Wants
  <1>24. ASSUME DesktopDies PROVE WantInv'
    BY <1>24, RequestsAreKnown DEF DesktopDies, requests, number, history, IInv, TypeOK,
       WantInv, Wants
  <1>25. CASE UNCHANGED vars
    BY <1>25 DEF vars, requests, number, session, history, IInv, TypeOK, WantInv, Wants
  <1> QED
    BY <1>1, <1>2, <1>3, <1>4, <1>5, <1>6, <1>7, <1>8, <1>9, <1>10, <1>11, <1>12, <1>13, <1>14,
       <1>15, <1>16, <1>17, <1>18, <1>19, <1>20, <1>21, <1>22, <1>23, <1>24, <1>25 DEF Next,
       Request, Script, Lock, Switch, Wants

\* Only a script that has the lock writes its pid, and it never goes back to waiting.
LEMMA PidStep == IInv /\ [Next]_vars => PidInv'
  <1> SUFFICES ASSUME IInv, [Next]_vars PROVE PidInv'
    OBVIOUS
  <1>1. ASSUME NEW r \in Reqs, NEW w \in Wants, RequestSwitch(r, w) PROVE PidInv'
    BY <1>1, RequestsAreKnown, NoneIsApart DEF RequestSwitch, Asked, Go, number, session, IInv,
       TypeOK, PidInv, Owners, Body, Reqs
  <1>2. ASSUME NEW r \in Reqs, NEW w \in Wants, RequestEnsure(r, w) PROVE PidInv'
    BY <1>2, RequestsAreKnown, NoneIsApart, RequestEnsureEffect DEF IInv, TypeOK, PidInv,
       Owners, Body, Reqs
  <1>3. ASSUME NEW r \in Reqs, Admit(r) PROVE PidInv'
    BY <1>3, RequestsAreKnown, NoneIsApart DEF Admit, Go, number, history, IInv, TypeOK,
       PidInv, Owners, Body, Reqs
  <1>4. ASSUME NEW r \in Reqs, MarkLock(r) PROVE PidInv'
    BY <1>4, RequestsAreKnown, NoneIsApart DEF MarkLock, Go, session, history, IInv, TypeOK,
       PidInv, Owners, Body, Reqs
  <1>5. ASSUME NEW r \in Reqs, MarkWithoutNumber(r) PROVE PidInv'
    BY <1>5, RequestsAreKnown, NoneIsApart DEF MarkWithoutNumber, Go, number, session, IInv,
       TypeOK, PidInv, Owners, Body, Reqs
  <1>6. ASSUME NEW r \in Reqs, MarkNumber(r) PROVE PidInv'
    BY <1>6, RequestsAreKnown, NoneIsApart DEF MarkNumber, Go, session, history, IInv, TypeOK,
       PidInv, Owners, Body, Reqs
  <1>7. ASSUME NEW r \in Reqs, TakeLock(r) PROVE PidInv'
    BY <1>7, RequestsAreKnown, NoneIsApart, TakeLockEffect DEF IInv, TypeOK, PidInv, Owners,
       Body, Reqs
  <1>8. ASSUME NEW r \in Reqs, LockHeld(r) PROVE PidInv'
    BY <1>8, RequestsAreKnown, NoneIsApart DEF LockHeld, Go, Exit, Over, number, session,
       history, IInv, TypeOK, PidInv, Owners, Body, Reqs
  <1>9. ASSUME NEW r \in Reqs, JudgedStale(r) PROVE PidInv'
    BY <1>9, RequestsAreKnown, NoneIsApart, JudgedStaleEffect DEF IInv, TypeOK, PidInv, Owners,
       Body, Reqs
  <1>10. ASSUME NEW r \in Reqs, JudgedHeld(r) PROVE PidInv'
    BY <1>10, RequestsAreKnown, NoneIsApart, JudgedHeldEffect DEF IInv, TypeOK, PidInv, Owners,
       Body, Reqs, Stages
  <1>11. ASSUME NEW r \in Reqs, ReapOwner(r) PROVE PidInv'
    BY <1>11, RequestsAreKnown, NoneIsApart, ReapOwnerEffect DEF IInv, TypeOK, PidInv, Owners,
       Body, Reqs, Live, Pid
  <1>12. ASSUME NEW r \in Reqs, ReapLock(r) PROVE PidInv'
    BY <1>12, RequestsAreKnown, NoneIsApart DEF ReapLock, Go, number, session, IInv, TypeOK,
       PidInv, Owners, Body, Reqs
  <1>13. ASSUME NEW r \in Reqs, WritePid(r) PROVE PidInv'
    BY <1>13, RequestsAreKnown, NoneIsApart DEF WritePid, Go, number, session, history, IInv,
       TypeOK, PidInv, Owners, Body, Reqs
  <1>14. ASSUME NEW r \in Reqs, StartOrSkip(r) PROVE PidInv'
    BY <1>14, RequestsAreKnown, NoneIsApart DEF StartOrSkip, Go, Exit, Over, Released, Pid,
       number, session, history, IInv, TypeOK, PidInv, Owners, Body, Reqs
  <1>15. ASSUME NEW r \in Reqs, PreflightFails(r) PROVE PidInv'
    BY <1>15, RequestsAreKnown, NoneIsApart DEF PreflightFails, Go, Says, Outside, Files,
       number, history, IInv, TypeOK, PidInv, Owners, Body, Reqs
  <1>16. ASSUME NEW r \in Reqs, Stopping(r) PROVE PidInv'
    BY <1>16, RequestsAreKnown, NoneIsApart DEF Stopping, Go, Says, Outside, Files, number,
       history, IInv, TypeOK, PidInv, Owners, Body, Reqs
  <1>17. ASSUME NEW r \in Reqs, Teardown(r) PROVE PidInv'
    BY <1>17, RequestsAreKnown, NoneIsApart DEF Teardown, Says, Files, number, history, IInv,
       TypeOK, PidInv, Owners, Body, Reqs
  <1>18. ASSUME NEW r \in Reqs, Stopped(r) PROVE PidInv'
    BY <1>18, RequestsAreKnown, NoneIsApart DEF Stopped, Go, Says, Outside, Files, number,
       history, IInv, TypeOK, PidInv, Owners, Body, Reqs
  <1>19. ASSUME NEW r \in Reqs, SetActive(r) PROVE PidInv'
    BY <1>19, RequestsAreKnown, NoneIsApart DEF SetActive, Go, Says, Outside, Files, number,
       history, IInv, TypeOK, PidInv, Owners, Body, Reqs
  <1>20. ASSUME NEW r \in Reqs, BringUp(r) PROVE PidInv'
    BY <1>20, RequestsAreKnown, NoneIsApart DEF BringUp, Go, Says, Running, Outside, Files,
       number, history, IInv, TypeOK, PidInv, Owners, Body, Reqs
  <1>21. ASSUME NEW r \in Reqs, ReportUp(r) PROVE PidInv'
    BY <1>21, RequestsAreKnown, NoneIsApart DEF ReportUp, Go, Says, Outside, Files, number,
       history, IInv, TypeOK, PidInv, Owners, Body, Reqs
  <1>22. ASSUME NEW r \in Reqs, End(r) PROVE PidInv'
    BY <1>22, RequestsAreKnown, NoneIsApart DEF End, Go, Exit, Over, Released, Pid, number,
       session, history, IInv, TypeOK, PidInv, Owners, Body, Reqs
  <1>23. ASSUME NEW r \in Reqs, Kill(r) PROVE PidInv'
    BY <1>23, RequestsAreKnown, NoneIsApart DEF Kill, Go, Over, Released, Pid, Live, number,
       session, history, IInv, TypeOK, PidInv, Owners, Body, Reqs, Live
  <1>24. ASSUME DesktopDies PROVE PidInv'
    BY <1>24, RequestsAreKnown, NoneIsApart DEF DesktopDies, requests, number, history, IInv,
       TypeOK, PidInv, Owners, Body, Reqs
  <1>25. CASE UNCHANGED vars
    BY <1>25 DEF vars, requests, number, session, history, IInv, TypeOK, PidInv, Owners, Body,
       Reqs
  <1> QED
    BY <1>1, <1>2, <1>3, <1>4, <1>5, <1>6, <1>7, <1>8, <1>9, <1>10, <1>11, <1>12, <1>13, <1>14,
       <1>15, <1>16, <1>17, <1>18, <1>19, <1>20, <1>21, <1>22, <1>23, <1>24, <1>25 DEF Next,
       Request, Script, Lock, Switch, Wants

\* The lock names its holder: the heart is in JudgedStale, where a waiter may
\* only trust what it saw of this lock, and in ReapOwner, which kills the owner
\* before ReapLock removes the directory.
LEMMA LockStep == IInv /\ [Next]_vars => LockInv'
  <1> SUFFICES ASSUME IInv, [Next]_vars PROVE LockInv'
    OBVIOUS
  <1>1. ASSUME NEW r \in Reqs, NEW w \in Wants, RequestSwitch(r, w) PROVE LockInv'
    BY <1>1, RequestsAreKnown, NoneIsApart DEF RequestSwitch, Asked, Go, number, session, IInv,
       TypeOK, LockInv, Owners, Body
  <1>2. ASSUME NEW r \in Reqs, NEW w \in Wants, RequestEnsure(r, w) PROVE LockInv'
    BY <1>2, RequestsAreKnown, NoneIsApart, RequestEnsureEffect DEF IInv, TypeOK, LockInv,
       Owners, Body
  <1>3. ASSUME NEW r \in Reqs, Admit(r) PROVE LockInv'
    BY <1>3, RequestsAreKnown, NoneIsApart DEF Admit, Go, number, history, IInv, TypeOK,
       LockInv, Owners, Body
  <1>4. ASSUME NEW r \in Reqs, MarkLock(r) PROVE LockInv'
    BY <1>4, RequestsAreKnown, NoneIsApart DEF MarkLock, Go, session, history, IInv, TypeOK,
       LockInv, Owners, Body
  <1>5. ASSUME NEW r \in Reqs, MarkWithoutNumber(r) PROVE LockInv'
    BY <1>5, RequestsAreKnown, NoneIsApart DEF MarkWithoutNumber, Go, number, session, IInv,
       TypeOK, LockInv, Owners, Body
  <1>6. ASSUME NEW r \in Reqs, MarkNumber(r) PROVE LockInv'
    BY <1>6, RequestsAreKnown, NoneIsApart DEF MarkNumber, Go, session, history, IInv, TypeOK,
       LockInv, Owners, Body
  <1>7. ASSUME NEW r \in Reqs, TakeLock(r) PROVE LockInv'
    BY <1>7, RequestsAreKnown, NoneIsApart, TakeLockEffect DEF IInv, TypeOK, LockInv, Owners,
       Body
  <1>8. ASSUME NEW r \in Reqs, LockHeld(r) PROVE LockInv'
    BY <1>8, RequestsAreKnown, NoneIsApart DEF LockHeld, Go, Exit, Over, number, session,
       history, IInv, TypeOK, LockInv, Owners, Body
  <1>9. ASSUME NEW r \in Reqs, JudgedStale(r) PROVE LockInv'
    <2> SUFFICES ASSUME ~ raced, lock # None, my'[r].same
                 PROVE  lock.pid = lock.maker \/ pc[lock.maker] = "dead"
      BY <1>9, JudgedStaleEffect DEF IInv, TypeOK, LockInv, Owners, Body
    <2>1. lock.pid \in {None, lock.maker} /\ lock.maker \in Reqs
      BY <1>9, JudgedStaleEffect DEF IInv, TypeOK, LockInv
    <2>2. CASE lock.pid = None
      <3>1. my[r].same /\ Stale(r) /\ Pid = None
        BY <2>2, <1>9, JudgedStaleEffect, NoneIsApart DEF SameLock, Pid, Live, Reqs
      <3>2. lock.maker \notin Live
        BY <3>1 DEF Stale, NoPidAgain
      <3> QED
        BY <2>1, <3>2, <1>9, JudgedStaleEffect DEF Live, IInv, TypeOK, LockInv, Owners, Body
    <2> QED
      BY <2>1, <2>2
  <1>10. ASSUME NEW r \in Reqs, JudgedHeld(r) PROVE LockInv'
    BY <1>10, RequestsAreKnown, NoneIsApart, JudgedHeldEffect DEF IInv, TypeOK, LockInv,
       Owners, Body, Fresh
  <1>11. ASSUME NEW r \in Reqs, ReapOwner(r) PROVE LockInv'
    <2> SUFFICES ASSUME ~ raced PROVE LockInv'
      BY <1>11, ReapOwnerEffect DEF LockInv
    <2>1. lock # None => /\ lock.pid \in {None, lock.maker} /\ lock.maker \in Reqs
                         /\ pc[lock.maker] \in {"taken", "dead"} \cup Owners
      BY DEF IInv, TypeOK, LockInv
    <2>2. CASE Pid \in Live
      <3>1. lock # None /\ Pid = lock.maker /\ Pid \in Reqs
        BY <2>1, <2>2, NoneIsApart DEF Pid, Live, Reqs
      <3> QED
        BY <2>1, <2>2, <3>1, <1>11, ReapOwnerEffect, RequestsAreKnown DEF IInv, TypeOK,
           LockInv, Owners, Body
    <2>3. CASE Pid \notin Live
      <3>1. lock # None /\ my[r].same => pc[lock.maker] = "dead"
        BY <2>1, <2>3, <1>11, ReapOwnerEffect DEF IInv, LockInv, Pid, Live, Owners, Body
      <3> QED
        BY <2>1, <2>3, <3>1, <1>11, ReapOwnerEffect DEF IInv, TypeOK, LockInv, Owners, Body
    <2> QED
      BY <2>2, <2>3
  <1>12. ASSUME NEW r \in Reqs, ReapLock(r) PROVE LockInv'
    BY <1>12, RequestsAreKnown, NoneIsApart DEF ReapLock, Go, number, session, IInv, TypeOK,
       LockInv, Owners, Body, Variables
  <1>13. ASSUME NEW r \in Reqs, WritePid(r) PROVE LockInv'
    BY <1>13, RequestsAreKnown, NoneIsApart, WritePidEffect DEF WritePid, Go, number, session,
       history, IInv, TypeOK, LockInv, Owners, Body
  <1>14. ASSUME NEW r \in Reqs, StartOrSkip(r) PROVE LockInv'
    BY <1>14, RequestsAreKnown, NoneIsApart DEF StartOrSkip, Go, Exit, Over, Released, Pid,
       number, session, history, IInv, TypeOK, LockInv, Owners, Body
  <1>15. ASSUME NEW r \in Reqs, PreflightFails(r) PROVE LockInv'
    BY <1>15, RequestsAreKnown, NoneIsApart DEF PreflightFails, Go, Says, Outside, Files,
       number, history, IInv, TypeOK, LockInv, Owners, Body
  <1>16. ASSUME NEW r \in Reqs, Stopping(r) PROVE LockInv'
    BY <1>16, RequestsAreKnown, NoneIsApart DEF Stopping, Go, Says, Outside, Files, number,
       history, IInv, TypeOK, LockInv, Owners, Body
  <1>17. ASSUME NEW r \in Reqs, Teardown(r) PROVE LockInv'
    BY <1>17, RequestsAreKnown, NoneIsApart DEF Teardown, Says, Files, number, history, IInv,
       TypeOK, LockInv, Owners, Body, Fresh
  <1>18. ASSUME NEW r \in Reqs, Stopped(r) PROVE LockInv'
    BY <1>18, RequestsAreKnown, NoneIsApart DEF Stopped, Go, Says, Outside, Files, number,
       history, IInv, TypeOK, LockInv, Owners, Body
  <1>19. ASSUME NEW r \in Reqs, SetActive(r) PROVE LockInv'
    BY <1>19, RequestsAreKnown, NoneIsApart DEF SetActive, Go, Says, Outside, Files, number,
       history, IInv, TypeOK, LockInv, Owners, Body
  <1>20. ASSUME NEW r \in Reqs, BringUp(r) PROVE LockInv'
    BY <1>20, RequestsAreKnown, NoneIsApart DEF BringUp, Go, Says, Running, Outside, Files,
       number, history, IInv, TypeOK, LockInv, Owners, Body
  <1>21. ASSUME NEW r \in Reqs, ReportUp(r) PROVE LockInv'
    BY <1>21, RequestsAreKnown, NoneIsApart DEF ReportUp, Go, Says, Outside, Files, number,
       history, IInv, TypeOK, LockInv, Owners, Body
  <1>22. ASSUME NEW r \in Reqs, End(r) PROVE LockInv'
    BY <1>22, RequestsAreKnown, NoneIsApart DEF End, Go, Exit, Over, Released, Pid, number,
       session, history, IInv, TypeOK, LockInv, Owners, Body
  <1>23. ASSUME NEW r \in Reqs, Kill(r) PROVE LockInv'
    BY <1>23, RequestsAreKnown, NoneIsApart DEF Kill, Go, Over, Released, Pid, Live, number,
       session, history, IInv, TypeOK, LockInv, Owners, Body, Variables
  <1>24. ASSUME DesktopDies PROVE LockInv'
    BY <1>24, RequestsAreKnown, NoneIsApart DEF DesktopDies, requests, number, history, IInv,
       TypeOK, LockInv, Owners, Body
  <1>25. CASE UNCHANGED vars
    BY <1>25 DEF vars, requests, number, session, history, IInv, TypeOK, LockInv, Owners, Body
  <1> QED
    BY <1>1, <1>2, <1>3, <1>4, <1>5, <1>6, <1>7, <1>8, <1>9, <1>10, <1>11, <1>12, <1>13, <1>14,
       <1>15, <1>16, <1>17, <1>18, <1>19, <1>20, <1>21, <1>22, <1>23, <1>24, <1>25 DEF Next,
       Request, Script, Lock, Switch, Wants

\* Numbers stay distinct.
LEMMA NumberStep == IInv /\ [Next]_vars => NumberInv'
  <1> SUFFICES ASSUME IInv, [Next]_vars PROVE NumberInv'
    OBVIOUS
  <1>1. ASSUME NEW r \in Reqs, NEW w \in Wants, RequestSwitch(r, w) PROVE NumberInv'
    BY <1>1, RequestsAreKnown, NoneIsApart DEF RequestSwitch, Asked, Go, number, session, IInv,
       TypeOK, NumberInv, Unnumbered, Variables, Fresh
  <1>2. ASSUME NEW r \in Reqs, NEW w \in Wants, RequestEnsure(r, w) PROVE NumberInv'
    BY <1>2, RequestsAreKnown, NoneIsApart, RequestEnsureEffect DEF IInv, TypeOK, NumberInv,
       Unnumbered, Variables, Fresh
  <1>3. ASSUME NEW r \in Reqs, Admit(r) PROVE NumberInv'
    BY <1>3, RequestsAreKnown, NoneIsApart DEF Admit, Go, number, history, IInv, TypeOK,
       NumberInv, Unnumbered, Variables, Fresh
  <1>4. ASSUME NEW r \in Reqs, MarkLock(r) PROVE NumberInv'
    BY <1>4, RequestsAreKnown, NoneIsApart DEF MarkLock, Go, session, history, IInv, TypeOK,
       NumberInv, Unnumbered, Variables, Fresh
  <1>5. ASSUME NEW r \in Reqs, MarkWithoutNumber(r) PROVE NumberInv'
    BY <1>5, RequestsAreKnown, NoneIsApart DEF MarkWithoutNumber, Go, number, session, IInv,
       TypeOK, NumberInv, Unnumbered, Variables, Fresh
  <1>6. ASSUME NEW r \in Reqs, MarkNumber(r) PROVE NumberInv'
    BY <1>6, RequestsAreKnown, NoneIsApart DEF MarkNumber, Go, session, history, IInv, TypeOK,
       NumberInv, Unnumbered, Variables, Fresh
  <1>7. ASSUME NEW r \in Reqs, TakeLock(r) PROVE NumberInv'
    BY <1>7, RequestsAreKnown, NoneIsApart, TakeLockEffect DEF IInv, TypeOK, NumberInv,
       Unnumbered, Variables, Fresh
  <1>8. ASSUME NEW r \in Reqs, LockHeld(r) PROVE NumberInv'
    <2>1. CASE Superseded(r)
      <3>1. Exit(r) /\ UNCHANGED <<seq, desktop, unguarded>>
        BY <1>8, <2>1 DEF LockHeld, number, session, history
      <3>2. \A o \in Reqs : my[o].id \in Nat
        BY DEF IInv, TypeOK, Variables
      <3>3. seq \in Nat
        BY RequestsAreKnown DEF IInv, TypeOK
      <3> QED
        BY <1>8, <3>1, <3>2, <3>3, ExitEffect DEF IInv, NumberInv, Unnumbered
    <2>2. CASE ~ Superseded(r)
      BY <1>8, <2>2, RequestsAreKnown, NoneIsApart DEF LockHeld, Go, number, session, history,
         IInv, TypeOK, NumberInv, Unnumbered, Variables, Fresh
    <2> QED
      BY <2>1, <2>2
  <1>9. ASSUME NEW r \in Reqs, JudgedStale(r) PROVE NumberInv'
    BY <1>9, RequestsAreKnown, NoneIsApart, JudgedStaleEffect DEF IInv, TypeOK, NumberInv,
       Unnumbered, Variables, Fresh
  <1>10. ASSUME NEW r \in Reqs, JudgedHeld(r) PROVE NumberInv'
    BY <1>10, RequestsAreKnown, NoneIsApart, JudgedHeldEffect DEF IInv, TypeOK, NumberInv,
       Unnumbered, Variables, Fresh
  <1>11. ASSUME NEW r \in Reqs, ReapOwner(r) PROVE NumberInv'
    BY <1>11, RequestsAreKnown, NoneIsApart, ReapOwnerEffect DEF IInv, TypeOK, NumberInv,
       Unnumbered, Variables, Fresh, Live
  <1>12. ASSUME NEW r \in Reqs, ReapLock(r) PROVE NumberInv'
    BY <1>12, RequestsAreKnown, NoneIsApart DEF ReapLock, Go, number, session, IInv, TypeOK,
       NumberInv, Unnumbered, Variables, Fresh
  <1>13. ASSUME NEW r \in Reqs, WritePid(r) PROVE NumberInv'
    BY <1>13, RequestsAreKnown, NoneIsApart DEF WritePid, Go, number, session, history, IInv,
       TypeOK, NumberInv, Unnumbered, Variables, Fresh
  <1>14. ASSUME NEW r \in Reqs, StartOrSkip(r) PROVE NumberInv'
    <2>1. CASE Superseded(r)
      <3>1. Exit(r) /\ UNCHANGED <<seq, desktop, unguarded>>
        BY <1>14, <2>1 DEF StartOrSkip, number, session, history
      <3>2. \A o \in Reqs : my[o].id \in Nat
        BY DEF IInv, TypeOK, Variables
      <3>3. seq \in Nat
        BY RequestsAreKnown DEF IInv, TypeOK
      <3> QED
        BY <1>14, <3>1, <3>2, <3>3, ExitEffect DEF IInv, NumberInv, Unnumbered
    <2>2. CASE ~ Superseded(r)
      BY <1>14, <2>2, RequestsAreKnown, NoneIsApart DEF StartOrSkip, Go, number, session,
         history, IInv, TypeOK, NumberInv, Unnumbered, Variables, Fresh
    <2> QED
      BY <2>1, <2>2
  <1>15. ASSUME NEW r \in Reqs, PreflightFails(r) PROVE NumberInv'
    BY <1>15, RequestsAreKnown, NoneIsApart DEF PreflightFails, Go, Says, Outside, Files,
       number, history, IInv, TypeOK, NumberInv, Unnumbered, Variables, Fresh
  <1>16. ASSUME NEW r \in Reqs, Stopping(r) PROVE NumberInv'
    BY <1>16, RequestsAreKnown, NoneIsApart DEF Stopping, Go, Says, Outside, Files, number,
       history, IInv, TypeOK, NumberInv, Unnumbered, Variables, Fresh
  <1>17. ASSUME NEW r \in Reqs, Teardown(r) PROVE NumberInv'
    BY <1>17, RequestsAreKnown, NoneIsApart DEF Teardown, Says, Files, number, history, IInv,
       TypeOK, NumberInv, Unnumbered, Variables, Fresh
  <1>18. ASSUME NEW r \in Reqs, Stopped(r) PROVE NumberInv'
    BY <1>18, RequestsAreKnown, NoneIsApart DEF Stopped, Go, Says, Outside, Files, number,
       history, IInv, TypeOK, NumberInv, Unnumbered, Variables, Fresh
  <1>19. ASSUME NEW r \in Reqs, SetActive(r) PROVE NumberInv'
    BY <1>19, RequestsAreKnown, NoneIsApart DEF SetActive, Go, Says, Outside, Files, number,
       history, IInv, TypeOK, NumberInv, Unnumbered, Variables, Fresh
  <1>20. ASSUME NEW r \in Reqs, BringUp(r) PROVE NumberInv'
    BY <1>20, RequestsAreKnown, NoneIsApart DEF BringUp, Go, Says, Running, Outside, Files,
       number, history, IInv, TypeOK, NumberInv, Unnumbered, Variables, Fresh
  <1>21. ASSUME NEW r \in Reqs, ReportUp(r) PROVE NumberInv'
    BY <1>21, RequestsAreKnown, NoneIsApart DEF ReportUp, Go, Says, Outside, Files, number,
       history, IInv, TypeOK, NumberInv, Unnumbered, Variables, Fresh
  <1>22. ASSUME NEW r \in Reqs, End(r) PROVE NumberInv'
    BY <1>22, RequestsAreKnown, NoneIsApart DEF End, Go, Exit, Over, Released, Pid, number,
       session, history, IInv, TypeOK, NumberInv, Unnumbered, Variables, Fresh
  <1>23. ASSUME NEW r \in Reqs, Kill(r) PROVE NumberInv'
    BY <1>23, RequestsAreKnown, NoneIsApart DEF Kill, Go, Over, Released, Pid, Live, number,
       session, history, IInv, TypeOK, NumberInv, Unnumbered, Variables, Fresh
  <1>24. ASSUME DesktopDies PROVE NumberInv'
    BY <1>24, RequestsAreKnown, NoneIsApart DEF DesktopDies, requests, number, history, IInv,
       TypeOK, NumberInv, Unnumbered, Variables, Fresh
  <1>25. CASE UNCHANGED vars
    BY <1>25 DEF vars, requests, number, session, history, IInv, TypeOK, NumberInv, Unnumbered,
       Variables, Fresh
  <1> QED
    BY <1>1, <1>2, <1>3, <1>4, <1>5, <1>6, <1>7, <1>8, <1>9, <1>10, <1>11, <1>12, <1>13, <1>14,
       <1>15, <1>16, <1>17, <1>18, <1>19, <1>20, <1>21, <1>22, <1>23, <1>24, <1>25 DEF Next,
       Request, Script, Lock, Switch, Wants

\* StartOrSkip admits only the newest number, and nobody else can start a
\* desktop while the switch runs.
LEMMA SwitchStep == IInv /\ [Next]_vars => SwitchInv'
  <1> SUFFICES ASSUME IInv, [Next]_vars PROVE SwitchInv'
    OBVIOUS
  <1>1. ASSUME NEW r \in Reqs, NEW w \in Wants, RequestSwitch(r, w) PROVE SwitchInv'
    BY <1>1, RequestsAreKnown, NoneIsApart DEF RequestSwitch, Asked, Go, number, session, IInv,
       TypeOK, NumberInv, SwitchInv, LockInv, Owners, Body, Unnumbered, Variables
  <1>2. ASSUME NEW r \in Reqs, NEW w \in Wants, RequestEnsure(r, w) PROVE SwitchInv'
    BY <1>2, RequestsAreKnown, NoneIsApart, RequestEnsureEffect DEF IInv, TypeOK, NumberInv,
       SwitchInv, LockInv, Owners, Body, Unnumbered, Variables
  <1>3. ASSUME NEW r \in Reqs, Admit(r) PROVE SwitchInv'
    BY <1>3, RequestsAreKnown, NoneIsApart DEF Admit, Go, number, history, IInv, TypeOK,
       NumberInv, SwitchInv, LockInv, Owners, Body, Unnumbered, Variables
  <1>4. ASSUME NEW r \in Reqs, MarkLock(r) PROVE SwitchInv'
    BY <1>4, RequestsAreKnown, NoneIsApart DEF MarkLock, Go, session, history, IInv, TypeOK,
       NumberInv, SwitchInv, LockInv, Owners, Body, Unnumbered, Variables
  <1>5. ASSUME NEW r \in Reqs, MarkWithoutNumber(r) PROVE SwitchInv'
    BY <1>5, RequestsAreKnown, NoneIsApart DEF MarkWithoutNumber, Go, number, session, IInv,
       TypeOK, NumberInv, SwitchInv, LockInv, Owners, Body, Unnumbered, Variables
  <1>6. ASSUME NEW r \in Reqs, MarkNumber(r) PROVE SwitchInv'
    BY <1>6, RequestsAreKnown, NoneIsApart DEF MarkNumber, Go, session, history, IInv, TypeOK,
       NumberInv, SwitchInv, LockInv, Owners, Body, Unnumbered, Variables
  <1>7. ASSUME NEW r \in Reqs, TakeLock(r) PROVE SwitchInv'
    BY <1>7, RequestsAreKnown, NoneIsApart, TakeLockEffect DEF IInv, TypeOK, NumberInv,
       SwitchInv, LockInv, Owners, Body, Unnumbered, Variables
  <1>8. ASSUME NEW r \in Reqs, LockHeld(r) PROVE SwitchInv'
    BY <1>8, RequestsAreKnown, NoneIsApart DEF LockHeld, Go, Exit, Over, number, session,
       history, IInv, TypeOK, NumberInv, SwitchInv, LockInv, Owners, Body, Unnumbered, Variables
  <1>9. ASSUME NEW r \in Reqs, JudgedStale(r) PROVE SwitchInv'
    BY <1>9, RequestsAreKnown, NoneIsApart, JudgedStaleEffect DEF IInv, TypeOK, NumberInv,
       SwitchInv, LockInv, Owners, Body, Unnumbered, Variables
  <1>10. ASSUME NEW r \in Reqs, JudgedHeld(r) PROVE SwitchInv'
    BY <1>10, RequestsAreKnown, NoneIsApart, JudgedHeldEffect DEF IInv, TypeOK, NumberInv,
       SwitchInv, LockInv, Owners, Body, Unnumbered, Variables
  <1>11. ASSUME NEW r \in Reqs, ReapOwner(r) PROVE SwitchInv'
    BY <1>11, RequestsAreKnown, NoneIsApart, ReapOwnerEffect DEF IInv, TypeOK, NumberInv,
       SwitchInv, LockInv, Owners, Body, Unnumbered, Variables, Live
  <1>12. ASSUME NEW r \in Reqs, ReapLock(r) PROVE SwitchInv'
    BY <1>12, RequestsAreKnown, NoneIsApart DEF ReapLock, Go, number, session, IInv, TypeOK,
       NumberInv, SwitchInv, LockInv, Owners, Body, Unnumbered, Variables
  <1>13. ASSUME NEW r \in Reqs, WritePid(r) PROVE SwitchInv'
    BY <1>13, RequestsAreKnown, NoneIsApart DEF WritePid, Go, number, session, history, IInv,
       TypeOK, NumberInv, SwitchInv, LockInv, Owners, Body, Unnumbered, Variables
  <1>14. ASSUME NEW r \in Reqs, StartOrSkip(r) PROVE SwitchInv'
    BY <1>14, RequestsAreKnown, NoneIsApart DEF StartOrSkip, Go, Exit, Over, Released, Pid,
       number, session, history, IInv, TypeOK, NumberInv, SwitchInv, LockInv, Owners, Body,
       Unnumbered, Variables, Superseded
  <1>15. ASSUME NEW r \in Reqs, PreflightFails(r) PROVE SwitchInv'
    BY <1>15, RequestsAreKnown, NoneIsApart DEF PreflightFails, Go, Says, Outside, Files,
       number, history, IInv, TypeOK, NumberInv, SwitchInv, LockInv, Owners, Body, Unnumbered,
       Variables
  <1>16. ASSUME NEW r \in Reqs, Stopping(r) PROVE SwitchInv'
    BY <1>16, RequestsAreKnown, NoneIsApart DEF Stopping, Go, Says, Outside, Files, number,
       history, IInv, TypeOK, NumberInv, SwitchInv, LockInv, Owners, Body, Unnumbered, Variables
  <1>17. ASSUME NEW r \in Reqs, Teardown(r) PROVE SwitchInv'
    BY <1>17, RequestsAreKnown, NoneIsApart DEF Teardown, Says, Files, number, history, IInv,
       TypeOK, NumberInv, SwitchInv, LockInv, Owners, Body, Unnumbered, Variables
  <1>18. ASSUME NEW r \in Reqs, Stopped(r) PROVE SwitchInv'
    BY <1>18, RequestsAreKnown, NoneIsApart DEF Stopped, Go, Says, Outside, Files, number,
       history, IInv, TypeOK, NumberInv, SwitchInv, LockInv, Owners, Body, Unnumbered, Variables
  <1>19. ASSUME NEW r \in Reqs, SetActive(r) PROVE SwitchInv'
    BY <1>19, RequestsAreKnown, NoneIsApart DEF SetActive, Go, Says, Outside, Files, number,
       history, IInv, TypeOK, NumberInv, SwitchInv, LockInv, Owners, Body, Unnumbered, Variables
  <1>20. ASSUME NEW r \in Reqs, BringUp(r) PROVE SwitchInv'
    BY <1>20, RequestsAreKnown, NoneIsApart DEF BringUp, Go, Says, Running, Outside, Files,
       number, history, IInv, TypeOK, NumberInv, SwitchInv, LockInv, Owners, Body, Unnumbered,
       Variables
  <1>21. ASSUME NEW r \in Reqs, ReportUp(r) PROVE SwitchInv'
    BY <1>21, RequestsAreKnown, NoneIsApart DEF ReportUp, Go, Says, Outside, Files, number,
       history, IInv, TypeOK, NumberInv, SwitchInv, LockInv, Owners, Body, Unnumbered, Variables
  <1>22. ASSUME NEW r \in Reqs, End(r) PROVE SwitchInv'
    BY <1>22, RequestsAreKnown, NoneIsApart DEF End, Go, Exit, Over, Released, Pid, number,
       session, history, IInv, TypeOK, NumberInv, SwitchInv, LockInv, Owners, Body, Unnumbered,
       Variables
  <1>23. ASSUME NEW r \in Reqs, Kill(r) PROVE SwitchInv'
    BY <1>23, RequestsAreKnown, NoneIsApart DEF Kill, Go, Over, Released, Pid, Live, number,
       session, history, IInv, TypeOK, NumberInv, SwitchInv, LockInv, Owners, Body, Unnumbered,
       Variables
  <1>24. ASSUME DesktopDies PROVE SwitchInv'
    BY <1>24, RequestsAreKnown, NoneIsApart DEF DesktopDies, requests, number, history, IInv,
       TypeOK, NumberInv, SwitchInv, LockInv, Owners, Body, Unnumbered, Variables
  <1>25. CASE UNCHANGED vars
    BY <1>25 DEF vars, requests, number, session, history, IInv, TypeOK, NumberInv, SwitchInv,
       LockInv, Owners, Body, Unnumbered, Variables
  <1> QED
    BY <1>1, <1>2, <1>3, <1>4, <1>5, <1>6, <1>7, <1>8, <1>9, <1>10, <1>11, <1>12, <1>13, <1>14,
       <1>15, <1>16, <1>17, <1>18, <1>19, <1>20, <1>21, <1>22, <1>23, <1>24, <1>25 DEF Next,
       Request, Script, Lock, Switch, Wants

\* "up" is only written by the one script whose desktop has just been started.
LEMMA UpStep == IInv /\ [Next]_vars => UpInv'
  <1> SUFFICES ASSUME IInv, [Next]_vars PROVE UpInv'
    OBVIOUS
  <1>1. ASSUME NEW r \in Reqs, NEW w \in Wants, RequestSwitch(r, w) PROVE UpInv'
    BY <1>1, RequestsAreKnown, NoneIsApart DEF RequestSwitch, Asked, Go, number, session, IInv,
       TypeOK, UpInv, LockInv, Owners, Body, Running, Variables
  <1>2. ASSUME NEW r \in Reqs, NEW w \in Wants, RequestEnsure(r, w) PROVE UpInv'
    BY <1>2, RequestsAreKnown, NoneIsApart, RequestEnsureEffect DEF IInv, TypeOK, UpInv,
       LockInv, Owners, Body, Running, Variables
  <1>3. ASSUME NEW r \in Reqs, Admit(r) PROVE UpInv'
    BY <1>3, RequestsAreKnown, NoneIsApart DEF Admit, Go, number, history, IInv, TypeOK, UpInv,
       LockInv, Owners, Body, Running, Variables, Claims
  <1>4. ASSUME NEW r \in Reqs, MarkLock(r) PROVE UpInv'
    BY <1>4, RequestsAreKnown, NoneIsApart DEF MarkLock, Go, session, history, IInv, TypeOK,
       UpInv, LockInv, Owners, Body, Running, Variables
  <1>5. ASSUME NEW r \in Reqs, MarkWithoutNumber(r) PROVE UpInv'
    BY <1>5, RequestsAreKnown, NoneIsApart DEF MarkWithoutNumber, Go, number, session, IInv,
       TypeOK, UpInv, LockInv, Owners, Body, Running, Variables
  <1>6. ASSUME NEW r \in Reqs, MarkNumber(r) PROVE UpInv'
    BY <1>6, RequestsAreKnown, NoneIsApart DEF MarkNumber, Go, session, history, IInv, TypeOK,
       UpInv, LockInv, Owners, Body, Running, Variables
  <1>7. ASSUME NEW r \in Reqs, TakeLock(r) PROVE UpInv'
    BY <1>7, RequestsAreKnown, NoneIsApart, TakeLockEffect DEF IInv, TypeOK, UpInv, LockInv,
       Owners, Body, Running, Variables
  <1>8. ASSUME NEW r \in Reqs, LockHeld(r) PROVE UpInv'
    BY <1>8, RequestsAreKnown, NoneIsApart DEF LockHeld, Go, Exit, Over, number, session,
       history, IInv, TypeOK, UpInv, LockInv, Owners, Body, Running, Variables
  <1>9. ASSUME NEW r \in Reqs, JudgedStale(r) PROVE UpInv'
    BY <1>9, RequestsAreKnown, NoneIsApart, JudgedStaleEffect DEF IInv, TypeOK, UpInv, LockInv,
       Owners, Body, Running, Variables
  <1>10. ASSUME NEW r \in Reqs, JudgedHeld(r) PROVE UpInv'
    BY <1>10, RequestsAreKnown, NoneIsApart, JudgedHeldEffect DEF IInv, TypeOK, UpInv, LockInv,
       Owners, Body, Running, Variables
  <1>11. ASSUME NEW r \in Reqs, ReapOwner(r) PROVE UpInv'
    <2> SUFFICES ASSUME ~ raced PROVE UpInv'
      BY <1>11, ReapOwnerEffect DEF UpInv
    <2>1. lock # None => /\ lock.pid \in {None, lock.maker} /\ lock.maker \in Reqs
                         /\ pc[lock.maker] \in {"taken", "dead"} \cup Owners
      BY DEF IInv, TypeOK, LockInv
    <2>2. CASE Pid \in Live
      BY <2>2, <1>11, ReapOwnerEffect DEF IInv, UpInv, Live, Running
    <2>3. CASE Pid \notin Live
      <3>1. CASE desktop' = desktop
        BY <2>3, <3>1, <1>11, ReapOwnerEffect DEF IInv, UpInv, Running
      <3>2. CASE desktop # None /\ Pid = desktop.by
        <4>1. lock # None /\ Pid \in Reqs /\ Pid = lock.maker
          BY <2>1, <3>2, NoneIsApart DEF Pid, IInv, TypeOK, Reqs
        <4>2. pc[Pid] = "dead" /\ Pid # r
          BY <2>1, <2>3, <4>1, <1>11, ReapOwnerEffect DEF Live, Owners, Body
        <4> QED
          BY <2>3, <4>1, <4>2, <1>11, ReapOwnerEffect DEF IInv, UpInv, Running
      <3> QED
        BY <3>1, <3>2, <1>11, ReapOwnerEffect
    <2> QED
      BY <2>2, <2>3
  <1>12. ASSUME NEW r \in Reqs, ReapLock(r) PROVE UpInv'
    BY <1>12, RequestsAreKnown, NoneIsApart DEF ReapLock, Go, number, session, IInv, TypeOK,
       UpInv, LockInv, Owners, Body, Running, Variables
  <1>13. ASSUME NEW r \in Reqs, WritePid(r) PROVE UpInv'
    BY <1>13, RequestsAreKnown, NoneIsApart DEF WritePid, Go, number, session, history, IInv,
       TypeOK, UpInv, LockInv, Owners, Body, Running, Variables
  <1>14. ASSUME NEW r \in Reqs, StartOrSkip(r) PROVE UpInv'
    BY <1>14, RequestsAreKnown, NoneIsApart DEF StartOrSkip, Go, Exit, Over, Released, Pid,
       number, session, history, IInv, TypeOK, UpInv, LockInv, Owners, Body, Running, Variables
  <1>15. ASSUME NEW r \in Reqs, PreflightFails(r) PROVE UpInv'
    BY <1>15, RequestsAreKnown, NoneIsApart DEF PreflightFails, Go, Says, Outside, Files,
       number, history, IInv, TypeOK, UpInv, LockInv, Owners, Body, Running, Variables
  <1>16. ASSUME NEW r \in Reqs, Stopping(r) PROVE UpInv'
    BY <1>16, RequestsAreKnown, NoneIsApart DEF Stopping, Go, Says, Outside, Files, number,
       history, IInv, TypeOK, UpInv, LockInv, Owners, Body, Running, Variables
  <1>17. ASSUME NEW r \in Reqs, Teardown(r) PROVE UpInv'
    BY <1>17, RequestsAreKnown, NoneIsApart DEF Teardown, Says, Files, number, history, IInv,
       TypeOK, UpInv, LockInv, Owners, Body, Running, Variables
  <1>18. ASSUME NEW r \in Reqs, Stopped(r) PROVE UpInv'
    BY <1>18, RequestsAreKnown, NoneIsApart DEF Stopped, Go, Says, Outside, Files, number,
       history, IInv, TypeOK, UpInv, LockInv, Owners, Body, Running, Variables
  <1>19. ASSUME NEW r \in Reqs, SetActive(r) PROVE UpInv'
    BY <1>19, RequestsAreKnown, NoneIsApart DEF SetActive, Go, Says, Outside, Files, number,
       history, IInv, TypeOK, UpInv, LockInv, Owners, Body, Running, Variables
  <1>20. ASSUME NEW r \in Reqs, BringUp(r) PROVE UpInv'
    BY <1>20, RequestsAreKnown, NoneIsApart DEF BringUp, Go, Says, Running, Outside, Files,
       number, history, IInv, TypeOK, UpInv, LockInv, Owners, Body, Running, Variables
  <1>21. ASSUME NEW r \in Reqs, ReportUp(r) PROVE UpInv'
    <2> SUFFICES ASSUME ~ raced PROVE UpInv'
      BY <1>21 DEF ReportUp, Outside, Files, history, UpInv
    <2>1. /\ pc[r] = "launched" /\ pc' = [pc EXCEPT ![r] = "ending"]
          /\ status' = <<my[r].want, "up">>
          /\ UNCHANGED <<my, lock, desktop, faults, raced>>
      BY <1>21 DEF ReportUp, Go, Says, Outside, Files, history
    <2>2. \A q \in Reqs : pc[q] \in Body => q = r
      BY <2>1 DEF IInv, LockInv, Owners, Body
    <2>3. \A q \in Reqs : pc'[q] \notin {"stopping", "torn", "starting", "launched"}
      BY <2>1, <2>2 DEF IInv, TypeOK, Body
    <2>4. ASSUME faults' = 0, \A q \in Reqs : pc'[q] # "dead"
          PROVE  desktop' # None /\ desktop'.preset = status'[1]
      <3>1. desktop = Running(r)
        BY <2>1, <2>4 DEF IInv, TypeOK, UpInv
      <3>2. desktop # None
        BY <3>1, NoneIsApart, <2>1 DEF Running, IInv, TypeOK, WantInv, Variables, Reqs
      <3> QED
        BY <2>1, <3>1, <3>2 DEF Running
    <2> QED
      BY <2>1, <2>3, <2>4 DEF UpInv
  <1>22. ASSUME NEW r \in Reqs, End(r) PROVE UpInv'
    BY <1>22, RequestsAreKnown, NoneIsApart DEF End, Go, Exit, Over, Released, Pid, number,
       session, history, IInv, TypeOK, UpInv, LockInv, Owners, Body, Running, Variables
  <1>23. ASSUME NEW r \in Reqs, Kill(r) PROVE UpInv'
    BY <1>23, RequestsAreKnown, NoneIsApart DEF Kill, Go, Over, Released, Pid, Live, number,
       session, history, IInv, TypeOK, UpInv, LockInv, Owners, Body, Running, Variables
  <1>24. ASSUME DesktopDies PROVE UpInv'
    BY <1>24, RequestsAreKnown, NoneIsApart DEF DesktopDies, requests, number, history, IInv,
       TypeOK, UpInv, LockInv, Owners, Body, Running, Variables
  <1>25. CASE UNCHANGED vars
    BY <1>25 DEF vars, requests, number, session, history, IInv, TypeOK, UpInv, LockInv,
       Owners, Body, Running, Variables
  <1> QED
    BY <1>1, <1>2, <1>3, <1>4, <1>5, <1>6, <1>7, <1>8, <1>9, <1>10, <1>11, <1>12, <1>13, <1>14,
       <1>15, <1>16, <1>17, <1>18, <1>19, <1>20, <1>21, <1>22, <1>23, <1>24, <1>25 DEF Next,
       Request, Script, Lock, Switch, Wants

-----------------------------------------------------------------------------
(* The theorems.                                                           *)

\* The invariant holds at the start ...
LEMMA InvInit == Init => IInv
  <1> SUFFICES ASSUME Init PROVE IInv
    OBVIOUS
  <1> USE RequestsAreKnown, NoneIsApart, WaitOutlastsNoPid, FaultsAreBounded
  <1>1. TypeOK
    <2>1. pc \in [Reqs -> Stages] /\ my \in [Reqs -> Variables]
      BY FreshTyped DEF Init, Stages
    <2>2. status \in (Wants \cup {None}) \X States
      BY DEF Init, States
    <2>3. 0 \in 0..N /\ 0 \in 0..MaxFaults
      OBVIOUS
    <2>4. /\ lock \in [pid : Reqs \cup {None}, maker : Reqs] \cup {None}
          /\ desktop \in [by : Reqs, id : 0..N, preset : Presets] \cup {None}
          /\ active \in Presets \cup {None} /\ seq \in 0..N /\ faults \in 0..MaxFaults
      BY <2>3 DEF Init
    <2>5. seqlock \in BOOLEAN /\ raced \in BOOLEAN /\ unguarded \in BOOLEAN /\ blocked \in BOOLEAN
      BY DEF Init
    <2> QED
      BY <2>1, <2>2, <2>4, <2>5 DEF TypeOK
  <1>2. CountInv
    BY NumberedFinite DEF Init, CountInv
  <1>3. WantInv /\ PidInv
    BY DEF Init, WantInv, PidInv
  <1>4. LockInv
    BY DEF Init, LockInv, Owners, Body
  <1>5. NumberInv
    <2>1. \A r \in Reqs : my[r].id = 0 /\ pc[r] = "idle"
      BY DEF Init, Fresh
    <2> QED
      BY <2>1 DEF Init, NumberInv, Unnumbered
  <1>6. SwitchInv /\ UpInv
    BY DEF Init, SwitchInv, UpInv
  <1> QED
    BY <1>1, <1>2, <1>3, <1>4, <1>5, <1>6 DEF IInv

\* ... and every step preserves it.
LEMMA InvStep == IInv /\ [Next]_vars => IInv'
  BY TypeStep, CountStep, WantStep, PidStep, LockStep, NumberStep, SwitchStep, UpStep DEF IInv

\* The invariant holds of every behaviour.
THEOREM Invariant == Spec => []IInv
  BY InvInit, InvStep, PTL DEF Spec

\* Type correctness: the files and the scripts hold what the code can write,
\* there are never more numbers than requests, and the sightings and polls of a
\* waiter stay within their limits (xs_acquire_session_lock).
THEOREM TypeCorrect == Spec => []TypeOK
  <1>1. IInv => TypeOK
    BY DEF IInv
  <1> QED
    BY <1>1, Invariant, PTL

\* Mutual exclusion of switches: at most one script is between taking the lock and
\* releasing it, whoever is killed, until a waiter removes the lock of a script
\* it did not judge (xs_acquire_session_lock, xs_reap_session_lock_owner).
THEOREM SwitchesExclude == Spec => []OneSwitch
  <1>1. ASSUME IInv PROVE OneSwitch
    <2> SUFFICES ASSUME ~ raced PROVE Cardinality({r \in Reqs : pc[r] \in Body}) <= 1
      BY DEF OneSwitch
    <2>1. CASE {r \in Reqs : pc[r] \in Body} = {}
      BY <2>1, FS_EmptySet
    <2>2. CASE {r \in Reqs : pc[r] \in Body} # {}
      <3>1. PICK q \in Reqs : pc[q] \in Body
        BY <2>2
      <3>2. {r \in Reqs : pc[r] \in Body} = {q}
        BY <1>1, <3>1 DEF IInv, LockInv, Owners
      <3>3. Cardinality({q}) = 1
        BY FS_Singleton
      <3> QED
        BY <3>2, <3>3
    <2> QED
      BY <2>1, <2>2
  <1> QED
    BY <1>1, Invariant, PTL

\* The newest request wins: the teardown of a switch only ever stops a desktop
\* with a smaller number (xs_switch_request_superseded), unless a lock was
\* removed under its owner or a request went on without a number.
THEOREM NewestRequestWins == Spec => NewestWins
  <1>1. ASSUME IInv, [Next]_vars, NEW r \in Reqs, pc[r] = "stopping", pc'[r] = "torn",
               desktop # None, ~ raced, ~ unguarded
        PROVE  desktop.id < my[r].id
    BY <1>1 DEF IInv, SwitchInv
  <1>2. IInv /\ [Next]_vars =>
          [\A r \in Reqs : pc[r] = "stopping" /\ pc'[r] = "torn" /\ desktop # None
                             /\ ~ raced /\ ~ unguarded => desktop.id < my[r].id]_vars
    BY <1>1
  <1> QED
    BY <1>2, Invariant, PTL DEF Spec, NewestWins

\* The status tells the truth: as long as nothing died and no lock was removed
\* under its owner, "up" means that the desktop it names is running
\* (xios_session_teardown, xs_write_status, active_session_healthy).
THEOREM UpIsTrue == Spec => []UpIsRunning
  <1>1. IInv => UpIsRunning
    BY DEF IInv, UpInv, UpIsRunning
  <1> QED
    BY <1>1, Invariant, PTL

=============================================================================
