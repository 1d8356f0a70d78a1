--------------------------- MODULE SignalsBot_proofs ---------------------------
(***************************************************************************)
(* Theorems of the signals bot: the instance lock and the life cycle of the *)
(* supervisors, for any number of supervisor and worker processes; and what *)
(* a pool's feed promises of its detectors, its alerts and its bankroll, for *)
(* any candles, entries and cuts of a refresh.                              *)
(***************************************************************************)
EXTENDS BotSupervision, TradeFeed, SharedLemmas


\* Who is at work has the lock.
LockHeld == \A s \in Supervisors : AtWork(s) <=> holder = s

\* A supervisor has no worker before its loop, and none that lives outside of
\* the watch and the two ways to end it.
Watching(s) == sup[s] \in {"watch", "stopping", "terminated"}

ChildrenKnown ==
    \A s \in Supervisors :
        /\ sup[s] \in {"none", "begin", "pidChecked", "locked", "pidWritten"} =>
              child[s] = NoOne
        /\ child[s] # NoOne => phase[child[s]] # "none"
        /\ child[s] # NoOne /\ WorkerAlive(child[s]) => Watching(s) \/ sup[s] = "killed"
        /\ Watching(s) => child[s] # NoOne

BotInv == TypeOK /\ LockHeld /\ ChildrenKnown

\* Every worker has a supervisor that watches it.
NoOrphans ==
    \A w \in Workers : WorkerAlive(w) =>
        \E s \in Supervisors : child[s] = w /\ Watching(s)

-----------------------------------------------------------------------------

LEMMA BotStarts == Init => BotInv
<1> SUFFICES ASSUME Init PROVE BotInv
  OBVIOUS
<1>1. TypeOK
  BY DEF Init, TypeOK, SupStates
<1>2. LockHeld
  BY ProcessesAssumption DEF Init, LockHeld, AtWork, SupAlive
<1>3. ChildrenKnown
  BY DEF Init, ChildrenKnown, WorkerAlive, Watching
<1> QED
  BY <1>1, <1>2, <1>3 DEF BotInv

\* Steps of a supervisor keep the types.
LEMMA SupervisorType ==
  ASSUME BotInv, NEW s \in Supervisors,
         Start(s) \/ Goes(s) \/ Signal(s) \/ SupervisorDies(s)
  PROVE  TypeOK'
<1>1. CASE Start(s) \/ CheckPid(s) \/ AcquireLock(s) \/ WritePid(s) \/ ClearOldFlag(s)
  BY ZenonT(40), <1>1 DEF BotInv, TypeOK, SupStates, Start, CheckPid, AcquireLock, WritePid,
     ClearOldFlag, Goto, supervisors, files, workers, operator
<1>2. CASE Spawn(s)
  BY <1>2 DEF BotInv, TypeOK, SupStates, Spawn, Goto, files, operator
<1>3. CASE LeaveLoop(s) \/ WatchStop(s) \/ WatchExit(s)
  BY <1>3 DEF BotInv, TypeOK, SupStates, LeaveLoop, WatchStop, WatchExit, Goto, files,
     workers, operator
<1>4. CASE WatchStall(s) \/ Terminate(s)
  <2>1. child[s] \in Workers
    BY <1>4 DEF BotInv, TypeOK, ChildrenKnown, Watching, WatchStall, Terminate
  <2>2. CASE WatchStall(s)
    BY <2>1, <2>2 DEF BotInv, TypeOK, SupStates, WatchStall, Goto, files, operator
  <2>3. CASE Terminate(s)
    BY <2>1, <2>3 DEF BotInv, TypeOK, SupStates, Terminate, Goto, files, operator
  <2> QED
    BY <1>4, <2>2, <2>3
<1>7. CASE Kill(s) \/ Reap(s)
  BY <1>7 DEF BotInv, TypeOK, SupStates, Kill, Reap, Goto, supervisors, files,
     workers, operator
<1>5. CASE Pause(s) \/ NoteConfig(s) \/ ConfigChanged(s) \/ UnlinkPid(s)
           \/ UnlinkFlag(s) \/ Exit(s)
  BY ZenonT(40), <1>5 DEF BotInv, TypeOK, SupStates, Pause, NoteConfig, ConfigChanged, UnlinkPid,
     UnlinkFlag, Exit, Goto, supervisors, files, workers, operator
<1>6. CASE Signal(s) \/ SupervisorDies(s)
  BY <1>6 DEF BotInv, TypeOK, SupStates, Signal, SupervisorDies, Goto, files, workers,
     operator
<1> QED
  BY <1>1, <1>2, <1>3, <1>4, <1>5, <1>6, <1>7 DEF Goes

\* Steps of a worker, the operator and the editor keep the types.
LEMMA WorkerType ==
  ASSUME BotInv, NEW w \in Workers,
         Works(w) \/ CycleFails(w) \/ Beat(w) \/ WorkerCrashes(w) \/ Hang(w)
  PROVE  TypeOK'
<1>1. ASSUME NEW p \in {"boot", "up", "cycle", "closing", "dead"}, SetPhase(w, p)
      PROVE  phase' \in [Workers -> {"none", "boot", "up", "cycle", "closing", "dead"}]
  BY <1>1 DEF BotInv, TypeOK, SetPhase
<1>2. CASE Boot(w) \/ BeginCycle(w) \/ EndCycle(w) \/ LeaveMainLoop(w)
           \/ WorkerExits(w) \/ CycleFails(w) \/ WorkerCrashes(w)
  <2>1. phase' \in [Workers -> {"none", "boot", "up", "cycle", "closing", "dead"}]
    BY <1>1, <1>2 DEF Boot, BeginCycle, EndCycle, LeaveMainLoop, WorkerExits,
       CycleFails, WorkerCrashes
  <2>2. heartbeat' \in [by : Workers \cup {NoOne}, progress : BOOLEAN]
    <3>1. CASE Boot(w)
      <4>1. CASE configOk
        <5>1. heartbeat' = [by |-> w, progress |-> FALSE]
          BY <3>1, <4>1 DEF Boot
        <5>2. FALSE \in BOOLEAN
          OBVIOUS
        <5> QED
          BY <5>1, <5>2
      <4>2. CASE ~configOk
        BY <3>1, <4>2 DEF BotInv, TypeOK, Boot
      <4> QED
        BY <4>1, <4>2
    <3>2. CASE WorkerExits(w)
      BY <3>2 DEF WorkerExits
    <3>3. CASE ~Boot(w) /\ ~WorkerExits(w)
      BY <1>2, <3>3 DEF BotInv, TypeOK, BeginCycle, EndCycle, LeaveMainLoop,
         CycleFails, WorkerCrashes, files
    <3> QED
      BY <3>1, <3>2, <3>3
  <2>3. progressed' \in SUBSET Workers /\ refused' \in SUBSET Workers
    BY <1>2 DEF BotInv, TypeOK, Boot, BeginCycle, EndCycle, LeaveMainLoop,
       WorkerExits, CycleFails, WorkerCrashes
  <2>4. UNCHANGED <<sup, child, asked, restart, edited, holder, pidFile, stopFlag,
                    configOk, health, termed, op, opPid>>
    BY <1>2 DEF Boot, BeginCycle, EndCycle, LeaveMainLoop, WorkerExits, CycleFails,
       WorkerCrashes, supervisors, files, operator
  <2> QED
    BY <2>1, <2>2, <2>3, <2>4 DEF BotInv, TypeOK
<1>3. CASE Beat(w)
  <2>1. heartbeat' \in [by : Workers \cup {NoOne}, progress : BOOLEAN]
    BY <1>3 DEF Beat
  <2> QED
    BY <1>3, <2>1 DEF BotInv, TypeOK, Beat, supervisors, workers, operator
<1>4. CASE Hang(w)
  BY <1>4 DEF BotInv, TypeOK, Hang, supervisors, files, operator
<1> QED
  BY <1>2, <1>3, <1>4 DEF Works

LEMMA OperatorType ==
  ASSUME BotInv, Parar \/ EditConfig
  PROVE  TypeOK'
BY DEF BotInv, TypeOK, Parar, ReadPid, CleanFiles, WriteFlag, SeeStopped, GiveUp,
   EditConfig, supervisors, files, workers, operator

-----------------------------------------------------------------------------

\* Steps that do not touch what the lock and the children depend on.
LEMMA NothingMoved ==
  ASSUME BotInv, UNCHANGED <<sup, child, holder, phase>>
  PROVE  LockHeld' /\ ChildrenKnown' /\ (NoOrphans => NoOrphans')
BY DEF BotInv, LockHeld, ChildrenKnown, NoOrphans, AtWork, SupAlive, WorkerAlive,
   Watching

\* A worker moves on, or dies.
LEMMA WorkerMoves ==
  ASSUME BotInv, NEW w \in Workers, NEW p, phase' = [phase EXCEPT ![w] = p],
         WorkerAlive(w), p # "none",
         UNCHANGED <<sup, child, holder>>
  PROVE  LockHeld' /\ ChildrenKnown' /\ (NoOrphans => NoOrphans')
<1>1. \A v \in Workers : /\ WorkerAlive(v)' => WorkerAlive(v)
                         /\ phase[v] # "none" => phase'[v] # "none"
  BY DEF BotInv, TypeOK, WorkerAlive
<1>2. LockHeld'
  BY DEF BotInv, LockHeld, AtWork, SupAlive
<1>3. ChildrenKnown'
  <2> SUFFICES ASSUME NEW s \in Supervisors
               PROVE  /\ sup[s] \in {"none", "begin", "pidChecked", "locked", "pidWritten"} =>
                            child[s] = NoOne
                      /\ child[s] # NoOne => phase'[child[s]] # "none"
                      /\ child[s] # NoOne /\ WorkerAlive(child[s])' =>
                            Watching(s) \/ sup[s] = "killed"
                      /\ Watching(s) => child[s] # NoOne
    BY DEF ChildrenKnown, Watching, WorkerAlive
  <2>1. child[s] # NoOne => child[s] \in Workers
    BY DEF BotInv, TypeOK
  <2>2. child[s] # NoOne /\ WorkerAlive(child[s])' => WorkerAlive(child[s])
    BY <1>1, <2>1 DEF WorkerAlive
  <2> QED
    BY <1>1, <2>1, <2>2 DEF BotInv, ChildrenKnown
<1>4. NoOrphans => NoOrphans'
  BY <1>1 DEF NoOrphans, Watching
<1> QED
  BY <1>2, <1>3, <1>4

\* A supervisor goes from one place to another and no worker is touched.
LEMMA SupervisorMoves ==
  ASSUME BotInv, NEW s \in Supervisors, NEW q \in SupStates, Goto(s, q),
         UNCHANGED <<child, phase>>,
         holder' = IF q \in {"exited", "killed"} /\ holder = s THEN NoOne ELSE holder,
         IF AtWork(s) THEN q \notin {"none", "begin", "pidChecked"}
                      ELSE q \in {"begin", "pidChecked", "exited", "killed"},
         q \in {"none", "begin", "pidChecked", "locked", "pidWritten"} =>
            child[s] = NoOne,
         child[s] # NoOne => ChildGone(s) \/ Watching(s)' \/ q = "killed",
         Watching(s)' => child[s] # NoOne
  PROVE  LockHeld' /\ ChildrenKnown' /\ (NoOrphans /\ q # "killed" => NoOrphans')
<1>1. \A t \in Supervisors : sup'[t] = IF t = s THEN q ELSE sup[t]
  BY DEF BotInv, TypeOK, Goto
<1>2. LockHeld'
  BY <1>1, ProcessesAssumption DEF BotInv, LockHeld, AtWork, SupAlive
<1>3. ChildrenKnown'
  BY <1>1 DEF BotInv, ChildrenKnown, ChildGone, WorkerAlive, Watching
<1>4. NoOrphans /\ q # "killed" => NoOrphans'
  <2> SUFFICES ASSUME NoOrphans, q # "killed", NEW w \in Workers, WorkerAlive(w)
               PROVE  \E t \in Supervisors : child[t] = w /\ Watching(t)'
    BY DEF NoOrphans, WorkerAlive, Watching
  <2>1. PICK t \in Supervisors : child[t] = w /\ Watching(t)
    BY DEF NoOrphans
  <2>2. CASE t = s
    BY <2>1, <2>2, ProcessesAssumption DEF ChildGone
  <2>3. CASE t # s
    BY <1>1, <2>1, <2>3 DEF Watching
  <2> QED
    BY <2>1, <2>2, <2>3
<1> QED
  BY <1>2, <1>3, <1>4

\* Spawn gives the supervisor a worker that was not there before.
LEMMA SpawnKeeps ==
  ASSUME BotInv, NEW s \in Supervisors, Spawn(s)
  PROVE  LockHeld' /\ ChildrenKnown' /\ (NoOrphans => NoOrphans')
<1>1. PICK w \in Workers : /\ phase[w] = "none"
                           /\ phase' = [phase EXCEPT ![w] = "boot"]
                           /\ child' = [child EXCEPT ![s] = w]
  BY DEF Spawn
<1>2. /\ \A t \in Supervisors : sup'[t] = IF t = s THEN "watch" ELSE sup[t]
      /\ \A t \in Supervisors : child'[t] = IF t = s THEN w ELSE child[t]
      /\ \A v \in Workers : phase'[v] = IF v = w THEN "boot" ELSE phase[v]
      /\ holder' = holder /\ sup[s] = "loop"
  BY <1>1 DEF BotInv, TypeOK, Spawn, Goto
<1>3. \A t \in Supervisors : child[t] # w /\ (child[t] # NoOne => child[t] \in Workers)
  BY <1>1, ProcessesAssumption DEF BotInv, TypeOK, ChildrenKnown
<1>4. LockHeld'
  BY <1>2 DEF BotInv, LockHeld, AtWork, SupAlive
<1>5. ChildrenKnown'
  BY <1>2, <1>3, ProcessesAssumption
     DEF BotInv, ChildrenKnown, WorkerAlive, Watching
<1>6. NoOrphans => NoOrphans'
  <2> SUFFICES ASSUME NoOrphans, NEW v \in Workers, WorkerAlive(v)'
               PROVE  \E t \in Supervisors : (child[t] = v /\ Watching(t))'
    BY DEF NoOrphans
  <2>1. CASE v = w
    BY <1>2, <2>1 DEF Watching
  <2>2. CASE v # w
    <3>1. PICK t \in Supervisors : child[t] = v /\ Watching(t)
      BY <1>2, <2>2 DEF NoOrphans, WorkerAlive
    <3>2. t # s
      BY <1>2, <3>1 DEF Watching
    <3> QED
      BY <1>2, <3>1, <3>2 DEF Watching
  <2> QED
    BY <2>1, <2>2
<1> QED
  BY <1>4, <1>5, <1>6

LEMMA SupervisorSafe ==
  ASSUME BotInv, NEW s \in Supervisors,
         Start(s) \/ Goes(s) \/ Signal(s) \/ SupervisorDies(s)
  PROVE  /\ LockHeld' /\ ChildrenKnown'
         /\ NoOrphans /\ ~SupervisorsMayDie => NoOrphans'
<1>1. /\ child[s] = NoOne \/ child[s] \in Workers
      /\ sup[s] \in SupStates
  BY DEF BotInv, TypeOK
<1>2. CASE Start(s) \/ CheckPid(s)
  <2>1. PICK q \in {"begin", "pidChecked", "exited"} : Goto(s, q)
    BY <1>2 DEF Start, CheckPid
  <2>2. /\ UNCHANGED <<child, phase, holder>> /\ child[s] = NoOne
        /\ ~AtWork(s) /\ holder # s
    BY <1>2 DEF Start, CheckPid, workers, BotInv, ChildrenKnown, LockHeld, AtWork,
       SupAlive
  <2> QED
    BY <2>1, <2>2, SupervisorMoves DEF SupStates, Watching, BotInv, TypeOK, Goto
<1>3. CASE AcquireLock(s)
  <2>1. UNCHANGED <<child, phase>> /\ child[s] = NoOne /\ ~AtWork(s) /\ holder # s
    BY <1>3 DEF AcquireLock, workers, BotInv, ChildrenKnown, LockHeld, AtWork, SupAlive
  <2>2. CASE LockFree
    <3>1. holder = NoOne /\ holder' = s /\ Goto(s, "locked")
      BY <1>3, <2>2 DEF AcquireLock, LockFree
    <3>2. \A t \in Supervisors : sup'[t] = IF t = s THEN "locked" ELSE sup[t]
      BY <3>1 DEF BotInv, TypeOK, Goto
    <3>3. LockHeld'
      BY <3>1, <3>2, ProcessesAssumption DEF BotInv, LockHeld, AtWork, SupAlive
    <3>4. ChildrenKnown' /\ (NoOrphans => NoOrphans')
      BY <1>3, <2>1, <3>2
         DEF AcquireLock, BotInv, ChildrenKnown, NoOrphans, Watching, WorkerAlive
    <3> QED
      BY <3>3, <3>4
  <2>3. CASE ~LockFree
    <3>1. UNCHANGED holder /\ Goto(s, "exited")
      BY <1>3, <2>3 DEF AcquireLock
    <3> QED
      BY <2>1, <3>1, SupervisorMoves DEF SupStates, Watching, BotInv, TypeOK, Goto
  <2> QED
    BY <2>2, <2>3
<1>4. CASE WritePid(s) \/ ClearOldFlag(s)
  <2>1. PICK q \in {"pidWritten", "loop"} : Goto(s, q)
    BY <1>4 DEF WritePid, ClearOldFlag
  <2>2. UNCHANGED <<child, phase, holder>> /\ child[s] = NoOne /\ AtWork(s)
    BY <1>4 DEF WritePid, ClearOldFlag, workers, BotInv, ChildrenKnown, AtWork, SupAlive
  <2> QED
    BY <2>1, <2>2, SupervisorMoves DEF SupStates, Watching, BotInv, TypeOK, Goto
<1>5. CASE Spawn(s)
  BY <1>5, SpawnKeeps
<1>6. CASE \/ LeaveLoop(s) \/ WatchExit(s) \/ Reap(s) \/ Pause(s) \/ NoteConfig(s)
           \/ ConfigChanged(s) \/ UnlinkPid(s) \/ UnlinkFlag(s) \/ Exit(s)
  <2>1. PICK q \in {"loop", "pause", "configSeen", "configWait", "unpid", "unflag",
                    "release", "exited"} : Goto(s, q)
    BY <1>6 DEF LeaveLoop, WatchExit, Reap, Pause, NoteConfig, ConfigChanged,
       UnlinkPid, UnlinkFlag, Exit
  <2>2. UNCHANGED <<child, phase>> /\ AtWork(s) /\ (child[s] # NoOne => ChildGone(s))
    BY <1>6 DEF LeaveLoop, WatchExit, Reap, Pause, NoteConfig, ConfigChanged,
       UnlinkPid, UnlinkFlag, Exit, workers, AtWork, SupAlive, BotInv, ChildrenKnown,
       ChildGone, Watching
  <2>3. holder' = IF q = "exited" THEN NoOne ELSE holder
    BY <1>1, <1>6, <2>1 DEF LeaveLoop, WatchExit, Reap, Pause, NoteConfig,
       ConfigChanged, UnlinkPid, UnlinkFlag, Exit, Goto, BotInv, TypeOK
  <2>4. holder = s
    BY <2>2 DEF BotInv, LockHeld
  <2> QED
    BY ZenonT(40), <2>1, <2>2, <2>3, <2>4, SupervisorMoves DEF SupStates, Watching, BotInv, TypeOK,
       Goto
<1>7. CASE WatchStop(s) \/ WatchStall(s) \/ Terminate(s)
  <2>1. PICK q \in {"stopping", "terminated"} : Goto(s, q)
    BY <1>7 DEF WatchStop, WatchStall, Terminate
  <2>2. /\ UNCHANGED <<child, phase, holder>> /\ AtWork(s) /\ Watching(s)
        /\ child[s] # NoOne
    BY <1>7 DEF WatchStop, WatchStall, Terminate, workers, AtWork, SupAlive, BotInv,
       ChildrenKnown, Watching
  <2> QED
    BY <2>1, <2>2, SupervisorMoves DEF SupStates, Watching, BotInv, TypeOK, Goto
<1>8. CASE Kill(s)
  <2>1. /\ UNCHANGED <<sup, child, holder>> /\ child[s] \in Workers
        /\ phase' = [phase EXCEPT ![child[s]] = "dead"] /\ WorkerAlive(child[s])
    BY <1>1, <1>8 DEF Kill, supervisors, ChildGone, BotInv, ChildrenKnown, Watching
  <2> QED
    BY <2>1, WorkerMoves
<1>9. CASE Signal(s)
  BY <1>9, NothingMoved DEF Signal, workers
<1>10. CASE SupervisorDies(s)
  <2>1. /\ Goto(s, "killed") /\ UNCHANGED <<child, phase>> /\ SupervisorsMayDie
        /\ holder' = IF holder = s THEN NoOne ELSE holder
    BY <1>10 DEF SupervisorDies, workers
  <2>2. ~Watching(s)'
    BY <1>1, <2>1 DEF Goto, BotInv, TypeOK, Watching
  <2> QED
    BY <2>1, <2>2, SupervisorMoves DEF SupStates
<1> QED
  BY <1>2, <1>3, <1>4, <1>5, <1>6, <1>7, <1>8, <1>9, <1>10 DEF Goes

LEMMA WorkerSafe ==
  ASSUME BotInv, NEW w \in Workers,
         Works(w) \/ CycleFails(w) \/ Beat(w) \/ WorkerCrashes(w) \/ Hang(w)
  PROVE  LockHeld' /\ ChildrenKnown' /\ (NoOrphans => NoOrphans')
<1>1. CASE Beat(w) \/ Hang(w)
  BY <1>1, NothingMoved DEF Beat, Hang, supervisors, workers
<1>2. CASE Works(w) \/ CycleFails(w) \/ WorkerCrashes(w)
  <2>1. PICK p \in {"up", "cycle", "closing", "dead"} : SetPhase(w, p)
    BY <1>2 DEF Works, Boot, BeginCycle, EndCycle, LeaveMainLoop, WorkerExits,
       CycleFails, WorkerCrashes
  <2>2. WorkerAlive(w) /\ UNCHANGED <<sup, child, holder>>
    BY <1>2 DEF Works, Boot, BeginCycle, EndCycle, LeaveMainLoop, WorkerExits,
       CycleFails, WorkerCrashes, WorkerAlive, supervisors
  <2> QED
    BY <2>1, <2>2, WorkerMoves DEF SetPhase
<1> QED
  BY <1>1, <1>2

LEMMA BotKeeps ==
  ASSUME BotInv, [Next]_vars
  PROVE  BotInv' /\ (NoOrphans /\ ~SupervisorsMayDie => NoOrphans')
<1>1. ASSUME NEW s \in Supervisors,
             Start(s) \/ Goes(s) \/ Signal(s) \/ SupervisorDies(s)
      PROVE  BotInv' /\ (NoOrphans /\ ~SupervisorsMayDie => NoOrphans')
  BY <1>1, SupervisorType, SupervisorSafe DEF BotInv
<1>2. ASSUME NEW w \in Workers,
             Works(w) \/ CycleFails(w) \/ Beat(w) \/ WorkerCrashes(w) \/ Hang(w)
      PROVE  BotInv' /\ (NoOrphans => NoOrphans')
  BY <1>2, WorkerType, WorkerSafe DEF BotInv
<1>3. CASE Parar \/ EditConfig
  <2>1. UNCHANGED <<sup, child, holder, phase>>
    BY <1>3 DEF Parar, ReadPid, CleanFiles, WriteFlag, SeeStopped, GiveUp,
       EditConfig, supervisors, workers
  <2> QED
    BY <1>3, <2>1, OperatorType, NothingMoved DEF BotInv
<1>4. CASE UNCHANGED vars
  <2>1. TypeOK'
    BY <1>4 DEF BotInv, TypeOK, vars, supervisors, files, workers, operator
  <2> QED
    BY <1>4, <2>1, NothingMoved DEF BotInv, vars, supervisors, workers
<1> QED
  BY <1>1, <1>2, <1>3, <1>4 DEF Next

\* Whoever is at work has the lock and knows its worker.
THEOREM BotInvariance == Spec => []BotInv
<1>1. BotInv /\ [Next]_vars => BotInv'
  BY BotKeeps
<1> QED
  BY BotStarts, <1>1, PTL DEF Spec

-----------------------------------------------------------------------------

\* The variables keep their types.
THEOREM BotTypeCorrect == Spec => []TypeOK
<1>1. BotInv => TypeOK
  BY DEF BotInv
<1> QED
  BY BotInvariance, <1>1, PTL

\* Whatever is killed, and whatever the operator does to the files, at most one
\* supervisor is at work, and a regular end leaves no worker behind.
THEOREM SupervisorsAreSerial == Spec => []SupervisorsSerial
<1>1. BotInv => SupervisorsSerial
  BY DEF BotInv, LockHeld, ChildrenKnown, SupervisorsSerial, ChildGone, Watching
<1> QED
  BY BotInvariance, <1>1, PTL

\* Two living workers would be watched by two supervisors at work.
LEMMA WatchedIsSingle ==
  ASSUME BotInv, NoOrphans
  PROVE  OneWorkerPerDatabase
<1> SUFFICES ASSUME NEW v \in Workers, NEW w \in Workers, WorkerAlive(v), WorkerAlive(w)
             PROVE  v = w
  BY DEF OneWorkerPerDatabase
<1>1. PICK s \in Supervisors : child[s] = v /\ Watching(s)
  BY DEF NoOrphans
<1>2. PICK t \in Supervisors : child[t] = w /\ Watching(t)
  BY DEF NoOrphans
<1>3. s = t
  BY <1>1, <1>2 DEF BotInv, LockHeld, Watching, AtWork, SupAlive
<1> QED
  BY <1>1, <1>2, <1>3

\* Unless a supervisor is killed, a database has one worker.
THEOREM WorkerIsSingle ==
  ASSUME ~SupervisorsMayDie
  PROVE  Spec => []OneWorkerPerDatabase
<1>1. Init => BotInv /\ NoOrphans
  BY BotStarts DEF Init, NoOrphans, WorkerAlive
<1>2. BotInv /\ NoOrphans /\ [Next]_vars => (BotInv /\ NoOrphans)'
  BY BotKeeps
<1>3. BotInv /\ NoOrphans => OneWorkerPerDatabase
  BY WatchedIsSingle
<1> QED
  BY <1>1, <1>2, <1>3, PTL DEF Spec

-----------------------------------------------------------------------------

\* The heartbeat is that of the worker that has got past its boot.
HeartbeatOwn ==
    \A w \in Workers : phase[w] \in {"up", "cycle", "closing"} => heartbeat.by = w

\* What the watchdog relies on when no supervisor is killed.
WatchInv == BotInv /\ NoOrphans /\ HeartbeatOwn

\* A worker writes the heartbeat while it lives, and nobody else lives then.
LEMMA HeartbeatKept ==
  ASSUME WatchInv, [Next]_vars
  PROVE  HeartbeatOwn'
<1>1. OneWorkerPerDatabase
  BY WatchedIsSingle DEF WatchInv
<1>2. ASSUME NEW s \in Supervisors,
             Start(s) \/ Goes(s) \/ Signal(s) \/ SupervisorDies(s)
      PROVE  HeartbeatOwn'
  <2>1. heartbeat' = heartbeat
    BY <1>2 DEF Goes, Start, CheckPid, AcquireLock, WritePid, ClearOldFlag, Spawn,
       LeaveLoop, WatchStop, WatchExit, WatchStall, Terminate, Kill, Reap, Pause,
       NoteConfig, ConfigChanged, UnlinkPid, UnlinkFlag, Exit, Signal,
       SupervisorDies, files
  <2>2. \A w \in Workers : phase'[w] \in {"boot", "dead", phase[w]}
    <3>1. CASE Spawn(s) \/ Kill(s)
      BY <3>1 DEF WatchInv, BotInv, TypeOK, Spawn, Kill
    <3>2. CASE ~Spawn(s) /\ ~Kill(s)
      BY <1>2, <3>2 DEF Goes, Start, CheckPid, AcquireLock, WritePid, ClearOldFlag,
         LeaveLoop, WatchStop, WatchExit, WatchStall, Terminate, Reap, Pause,
         NoteConfig, ConfigChanged, UnlinkPid, UnlinkFlag, Exit, Signal,
         SupervisorDies, workers
    <3> QED
      BY <3>1, <3>2
  <2> QED
    BY <2>1, <2>2 DEF WatchInv, HeartbeatOwn
<1>3. ASSUME NEW w \in Workers,
             Works(w) \/ CycleFails(w) \/ Beat(w) \/ WorkerCrashes(w) \/ Hang(w)
      PROVE  HeartbeatOwn'
  <2>1. WorkerAlive(w) /\ \A v \in Workers : v # w => phase'[v] = phase[v]
    BY <1>3 DEF WatchInv, BotInv, TypeOK, Works, Boot, BeginCycle, EndCycle,
       LeaveMainLoop, WorkerExits, CycleFails, Beat, WorkerCrashes, Hang, SetPhase,
       WorkerAlive, workers
  <2>2. \A v \in Workers : phase'[v] \in {"up", "cycle", "closing"} => v = w
    BY <1>1, <2>1 DEF OneWorkerPerDatabase, WorkerAlive
  <2>3. phase'[w] \in {"up", "cycle", "closing"} => heartbeat'.by = w
    <3>1. CASE Beat(w) \/ WorkerExits(w)
      BY <3>1 DEF Beat, WorkerExits
    <3>2. CASE Boot(w)
      BY <3>2 DEF WatchInv, BotInv, TypeOK, Boot, SetPhase
    <3>3. CASE ~Boot(w) /\ ~Beat(w) /\ ~WorkerExits(w)
      <4>1. /\ heartbeat' = heartbeat
            /\ phase'[w] \in {"up", "cycle", "closing"} =>
                  phase[w] \in {"up", "cycle", "closing"}
        BY <1>3, <3>3 DEF WatchInv, BotInv, TypeOK, Works, BeginCycle, EndCycle,
           LeaveMainLoop, CycleFails, WorkerCrashes, Hang, SetPhase, files
      <4> QED
        BY <4>1 DEF WatchInv, HeartbeatOwn
    <3> QED
      BY <3>1, <3>2, <3>3
  <2> QED
    BY <2>2, <2>3 DEF HeartbeatOwn
<1>4. CASE Parar \/ EditConfig \/ UNCHANGED vars
  <2>1. UNCHANGED <<heartbeat, phase>>
    BY <1>4 DEF Parar, ReadPid, CleanFiles, WriteFlag, SeeStopped, GiveUp,
       EditConfig, vars, files, workers
  <2> QED
    BY <2>1 DEF WatchInv, HeartbeatOwn
<1> QED
  BY <1>2, <1>3, <1>4 DEF Next

\* A stall is not seen of a worker whose threads all run.
LEMMA HealthyIsNoStall ==
  ASSUME WatchInv, NEW s \in Supervisors, sup[s] = "watch", ~ChildGone(s),
         health[child[s]] = "ok"
  PROVE  ~Stall(s)
<1>1. child[s] \in Workers /\ WorkerAlive(child[s])
  BY DEF WatchInv, BotInv, TypeOK, ChildrenKnown, Watching, ChildGone
<1>2. phase[child[s]] # "boot" => Fresh(s)
  BY <1>1 DEF WatchInv, BotInv, TypeOK, HeartbeatOwn, WorkerAlive, Fresh
<1>3. Fresh(s) => ~WriterSilent /\ ~ProgressOld
  BY <1>1 DEF Fresh, WriterSilent, ProgressOld
<1> QED
  BY <1>2, <1>3 DEF Stall

\* Unless a supervisor is killed (its worker would go on and write over the next
\* one's heartbeat), the watchdog shoots no healthy worker.
THEOREM WatchdogSparesTheHealthy ==
  ASSUME ~SupervisorsMayDie
  PROVE  Spec => HealthyWorkerKept
<1>1. Init => WatchInv
  BY BotStarts DEF Init, WatchInv, NoOrphans, WorkerAlive, HeartbeatOwn
<1>2. WatchInv /\ [Next]_vars => WatchInv'
  BY BotKeeps, HeartbeatKept DEF WatchInv
<1>3. WatchInv /\ [Next]_vars =>
        [\A s \in Supervisors :
            sup[s] = "watch" /\ sup'[s] = "terminated" => health[child[s]] # "ok"]_vars
  <2> SUFFICES ASSUME WatchInv, Next, NEW s \in Supervisors, sup[s] = "watch",
                      sup'[s] = "terminated"
               PROVE  health[child[s]] # "ok"
    OBVIOUS
  <2>1. WatchStall(s)
    <3>1. PICK t \in Supervisors :
             Start(t) \/ Goes(t) \/ Signal(t) \/ SupervisorDies(t)
      BY DEF Next, Works, Boot, BeginCycle, EndCycle, LeaveMainLoop, WorkerExits,
         CycleFails, Beat, WorkerCrashes, Hang, Parar, ReadPid, CleanFiles,
         WriteFlag, SeeStopped, GiveUp, EditConfig, supervisors
    <3>2. t = s
      BY <3>1 DEF WatchInv, BotInv, TypeOK, Goes, Start, CheckPid, AcquireLock,
         WritePid, ClearOldFlag, Spawn, LeaveLoop, WatchStop, WatchExit, WatchStall,
         Terminate, Kill, Reap, Pause, NoteConfig, ConfigChanged, UnlinkPid,
         UnlinkFlag, Exit, Signal, SupervisorDies, Goto, supervisors
    <3> QED
      BY <3>1, <3>2 DEF WatchInv, BotInv, TypeOK, Goes, Start, CheckPid, AcquireLock,
         WritePid, ClearOldFlag, Spawn, LeaveLoop, WatchStop, WatchExit,
         Terminate, Kill, Reap, Pause, NoteConfig, ConfigChanged, UnlinkPid,
         UnlinkFlag, Exit, Signal, SupervisorDies, Goto, supervisors
  <2> QED
    BY <2>1, HealthyIsNoStall DEF WatchStall
<1> QED
  BY <1>1, <1>2, <1>3, PTL DEF Spec, HealthyWorkerKept

-----------------------------------------------------------------------------
(***************************************************************************)
(* The trade feed: the invariant of a refresh.                              *)
(***************************************************************************)

\* Where an entry is handled, where an open trade, and where a closed trade is on
\* its way into the bankroll.
AtEntry == pc \in {"entrada", "avisar", "marcar"} \/ (pc = "enviar" /\ aviso = "e")
AtPaper ==
    \/ pc \in {"confirmar", "tp1", "gravar_tp1", "saida", "fechar"}
    \/ pc = "enviar" /\ aviso # "e"
InPair == pc \in {"banca", "linha", "salvar"}

Consuming == pc = "consumir" \/ AtEntry
Rebuilding == pc = "refazer" \/ (Consuming /\ modo = "refazer")
Following == pc = "papel" \/ AtPaper \/ InPair
Feeds == pc = "alimentar" \/ (Consuming /\ modo = "alimentar") \/ Following

\* What a refresh has in hand.
Phases ==
    /\ pc \in {"livre", "buscar"} \/ Rebuilding => frescos = <<>>
    /\ pc \in {"livre", "buscar", "primeiro", "gravar"} => vez = {}
    /\ pc \in {"primeiro", "gravar"} \/ Feeds => frescos # <<>>
    /\ pc \in {"primeiro", "gravar"} => Newest(frescos) \in 1..mercado
    /\ pc = "primeiro" => ~lbc
    /\ pc = "gravar" => lbc
    /\ Rebuilding => vez = Missing
    /\ Feeds => vez \subseteq feito
    /\ Consuming \/ Following => vez # {}
    /\ lista # {} => Following
    /\ barras <= mercado
    /\ ~lbc => barras = 0 /\ feito = {} /\ \A v \in Versions : visto[v] = <<>>

\* The trade at work.
InHand ==
    /\ AtEntry => /\ alvo \in Trades /\ alvo[1] = Now /\ alvo[2] >= Admissao
                  /\ pc # "entrada" => Opened(alvo)
    /\ AtPaper => alvo \in lista /\ sinal[alvo].status = "aberto"
    /\ InPair => alvo \in lista /\ sinal[alvo].status = "fechado"
    /\ \A t \in lista : sinal[t].status = "aberto" \/ (InPair /\ t = alvo)

Numbered(s) == \A i \in 1..Len(s) : s[i] = i
Follows(s, k) == \A i \in 1..Len(s) : s[i] = k + i

\* The candles a detector has, and those it still has to consume.
Counting ==
    /\ falhou => jaFalhou
    /\ ~falhou =>
        /\ \A v \in feito : Numbered(visto[v])
        /\ \A v \in feito : ~Feeds \/ v \notin vez \/ (Following /\ v = Now) =>
              Len(visto[v]) = barras
        /\ pc \in {"primeiro", "gravar"} /\ (feito # {} \/ ~lbc) => Follows(frescos, barras)
        /\ Feeds => \A v \in vez : v # Now \/ pc = "alimentar" =>
              Len(visto[v]) + Len(frescos) = barras /\ Follows(frescos, Len(visto[v]))
        /\ Consuming => /\ Numbered(visto[Now])
                        /\ Len(visto[Now]) + Len(fila) = barras
                        /\ Follows(fila, Len(visto[Now]))
        /\ pc = "entrada" => alvo[2] = Len(visto[Now])
    /\ ~jaFalhou => \A t \in Trades : Opened(t) => sinal[t].idx = t[2]

\* V1 has decided about a candle.
Decided(c) ==
    <<"V1", c>> \in Trades /\ c >= Admissao /\ ~Late(c) => Opened(<<"V1", c>>)

Work == IF modo = "refazer" THEN 1..barras ELSE Elems(frescos)
Partial == feito # {} /\ feito # Versions

\* V1 decides about a candle before V2 looks at it.
Order ==
    /\ "V1" \in Versions /\ "V2" \in feito => "V1" \in feito
    /\ Partial => /\ lbc /\ barras \notin Baixos
                  /\ pc = "livre" \/ Rebuilding
                  /\ \A c \in 1..barras : Decided(c)
    /\ Consuming =>
        /\ Elems(fila) \subseteq Work
        /\ AtEntry => alvo[2] \in Work
        /\ \A c \in Work : \/ Decided(c)
                           \/ Now = "V1" /\ (c \in Elems(fila) \/ (pc = "entrada" /\ c = alvo[2]))
    /\ Following \/ (pc = "alimentar" /\ vez # {} /\ "V1" \notin vez) =>
        \A c \in Elems(frescos) : Decided(c)

\* The one trade of a decision that sends full alerts.
Main(t) == t[1] = "V1" \/ <<"V1", t[2]>> \notin Trades

Merged == \A t \in Trades : Opened(t) /\ ~Main(t) => Opened(<<"V1", t[2]>>) /\ ~sinal[t].so

Keyed ==
    /\ pc = "enviar" => /\ <<aviso, alvo>> \in chaves
                        /\ aviso \in {"tp1", "x"} => sinal[alvo].so
    /\ \A k \in Kinds, c \in 1..N :
        /\ enviados[<<k, c>>] <= 1
        /\ enviados[<<k, c>>] = 1 =>
              \E t \in Trades : /\ t[2] = c /\ Main(t) /\ <<k, t>> \in chaves
                                /\ ~(pc = "enviar" /\ aviso = k /\ alvo = t)

\* How often a trade stands in the ledgers.
Saved(t) == Occurrences(salvo[t[1]], t[2])
Held(t) == Occurrences(memoria[t[1]], t[2])
Booked(t) == t[2] \in linhas[t[1]]

\* Closed trades that are not, or not once, in the bankroll.
Broken == {t \in Trades : /\ sinal[t].status = "fechado" /\ ~(InPair /\ t = alvo)
                          /\ ~Booked(t) \/ Saved(t) # 1}

Ledgers ==
    /\ \A t \in Trades :
        /\ Saved(t) <= 1 /\ Held(t) <= 1
        /\ t[1] \in carregada => Saved(t) <= Held(t)
        /\ sinal[t].status # "fechado" \/ (pc = "banca" /\ t = alvo) =>
              Saved(t) = 0 /\ Held(t) = 0 /\ ~Booked(t)
    /\ pc \in {"linha", "salvar"} => /\ alvo[1] \in carregada
                                     /\ Saved(alvo) = 0 /\ Held(alvo) = 1
                                     /\ Booked(alvo) <=> pc = "salvar"
    /\ Cardinality(Broken) <= cortesNoPar

FeedInv ==
    FeedTypeOK /\ Phases /\ InHand /\ Counting /\ Order /\ Merged /\ Keyed /\ Ledgers

-----------------------------------------------------------------------------

LEMMA TradeParts ==
  /\ \A t \in Trades : t[1] \in Versions /\ t[2] \in 1..N /\ t = <<t[1], t[2]>>
  /\ \A v, c : <<v, c>> \in Trades => v \in Versions /\ c \in 1..N
  /\ IsFiniteSet(Trades) /\ N \in Nat \ {0} /\ Versions \subseteq {"V1", "V2"}
  /\ "V1" # "V2"
<1>1. N \in Nat \ {0} /\ Versions \subseteq {"V1", "V2"} /\ "V1" # "V2"
  BY CandlesAssumption
<1>2. IsFiniteSet(Versions) /\ IsFiniteSet(1..N)
  <2>1. IsFiniteSet({"V1", "V2"})
    <3>1. IsFiniteSet({"V1"})
      BY FS_Singleton
    <3>2. {"V1", "V2"} = {"V1"} \cup {"V2"}
      OBVIOUS
    <3> QED
      BY <3>1, <3>2, FS_AddElement, Zenon
  <2>2. Versions \in SUBSET {"V1", "V2"} /\ 1 \in Int /\ N \in Int
    BY <1>1
  <2>3. IsFiniteSet(Versions)
    BY <2>1, <2>2, FS_Subset, Zenon
  <2> QED
    BY <2>2, <2>3, FS_Interval
<1>3. IsFiniteSet(Versions \X (1..N))
  BY <1>2, FS_Product
<1>4. Trades \subseteq Versions \X (1..N)
  BY DEF Trades
<1>5. IsFiniteSet(Trades)
  BY <1>3, <1>4, FS_Subset
<1> QED
  BY <1>1, <1>4, <1>5

\* Who is at work is one of those that are left.
LEMMA NowIsLeft ==
  ASSUME FeedTypeOK, vez # {}
  PROVE  Now \in vez /\ Now \in Versions
<1>1. vez \subseteq Versions /\ Versions \subseteq {"V1", "V2"}
  BY CandlesAssumption DEF FeedTypeOK
<1> QED
  BY <1>1 DEF Now, First

\* What Run is.
LEMMA RunIs ==
  ASSUME NEW a \in Nat \ {0}, NEW b \in Nat, a <= b + 1, b <= N
  PROVE  /\ Run(a, b) \in Seq(1..(2 * N))
         /\ Len(Run(a, b)) = b - a + 1
         /\ Follows(Run(a, b), a - 1)
<1>1. /\ b - a + 1 \in Nat
      /\ (IF b < a THEN 0 ELSE b - a + 1) = b - a + 1
      /\ \A i \in 1..(b - a + 1) : a + i - 1 \in 1..(2 * N) /\ a + i - 1 = a - 1 + i
  BY CandlesAssumption
<1>2. Run(a, b) = [i \in 1..(b - a + 1) |-> a + i - 1]
  BY <1>1 DEF Run
<1>3. Run(a, b) \in Seq(1..(2 * N)) /\ Len(Run(a, b)) = b - a + 1
  BY <1>1, <1>2
<1> QED
  BY <1>1, <1>2, <1>3 DEF Follows

LEMMA FeedTypesOf ==
  ASSUME FeedTypeOK
  PROVE  /\ visto \in [Versions -> Seq(1..(2 * N))]
         /\ sinal \in [Trades -> Signals]
         /\ memoria \in [Versions -> Seq(1..N)] /\ salvo \in [Versions -> Seq(1..N)]
         /\ frescos \in Seq(1..(2 * N)) /\ fila \in Seq(1..(2 * N))
         /\ vez \subseteq Versions /\ feito \subseteq Versions /\ lista \subseteq Trades
         /\ barras \in 0..N /\ mercado \in 1..N /\ N \in Nat \ {0}
BY CandlesAssumption DEF FeedTypeOK

\* Steps of the candles.
LEMMA RefreshTypes ==
  ASSUME FeedInv,
         \/ RefreshBegin \/ Rebuild \/ RebuildDone \/ RebuildEnd \/ FetchNothing
         \/ FirstBar \/ AppendBars \/ FeedNext \/ RefreshEnd \/ Consume \/ FeedDone
  PROVE  FeedTypeOK'
<1> USE DEF time, candles, memory, alerts, bankroll, loops, history
<1>1. FeedTypeOK
  BY DEF FeedInv
<1>2. CASE RefreshBegin \/ RebuildEnd \/ FetchNothing
  BY <1>1, <1>2 DEF FeedTypeOK, RefreshBegin, RebuildEnd, FetchNothing, Missing
<1>3. CASE FirstBar
  BY <1>1, <1>3 DEF FeedTypeOK, FirstBar
<1>4. CASE RebuildDone
  <2>1. Now \in Versions
    BY <1>1, <1>4, NowIsLeft DEF FeedInv, Phases, Consuming, RebuildDone
  <2> QED
    BY <1>1, <1>4, <2>1 DEF FeedTypeOK, RebuildDone
<1>5. CASE RefreshEnd
  BY <1>1, <1>5 DEF FeedTypeOK, RefreshEnd
<1>6. CASE Rebuild
  <2>1. Run(1, barras) \in Seq(1..(2 * N))
    BY <1>1, FeedTypesOf, RunIs
  <2>2. visto' \in [Versions -> Seq(1..(2 * N))]
    <3>1. <<>> \in Seq(1..(2 * N))
      OBVIOUS
    <3> QED
      BY <1>1, <1>6, <3>1, FeedTypesOf DEF Rebuild
  <2> QED
    BY <1>1, <1>6, <2>1, <2>2 DEF FeedTypeOK, Rebuild
<1>7. CASE AppendBars
  <2>1. Newest(frescos) \in 1..mercado
    BY <1>7 DEF FeedInv, Phases, AppendBars
  <2>2. barras' \in 0..N
    BY <1>1, <1>7, <2>1, FeedTypesOf DEF AppendBars
  <2> QED
    BY <1>1, <1>7, <2>2 DEF FeedTypeOK, AppendBars
<1>8. CASE FeedNext \/ FeedDone
  BY <1>1, <1>8 DEF FeedTypeOK, FeedNext, FeedDone
<1>9. CASE Consume
  <2>1. Now \in Versions
    BY <1>1, <1>9, NowIsLeft DEF FeedInv, Phases, Consuming, Consume
  <2>2. Head(fila) \in 1..(2 * N) /\ Tail(fila) \in Seq(1..(2 * N))
    BY <1>1, <1>9, FeedTypesOf DEF Consume
  <2>3. Append(visto[Now], Head(fila)) \in Seq(1..(2 * N))
    BY <1>1, <2>1, <2>2, FeedTypesOf
  <2>4. visto' \in [Versions -> Seq(1..(2 * N))]
    BY <1>1, <1>9, <2>3, FeedTypesOf DEF Consume
  <2>5. alvo' \in Trades \cup {NoTrade} /\ pc' \in {"entrada", "consumir"}
    BY <1>1, <1>9 DEF FeedTypeOK, Consume
  <2> QED
    BY <1>1, <1>9, <2>2, <2>4, <2>5 DEF FeedTypeOK, Consume
<1> QED
  BY <1>2, <1>3, <1>4, <1>5, <1>6, <1>7, <1>8, <1>9

\* The candles GeckoTerminal brings.
LEMMA FetchTypes ==
  ASSUME FeedInv, NEW k \in 1..N, Fetch(k) \/ FetchFallback(k)
  PROVE  /\ FeedTypeOK'
         /\ frescos' # <<>> /\ Newest(frescos') = k
         /\ LastBar \in 0..N
         /\ Fetch(k) => Follows(frescos', LastBar)
<1> USE DEF time, candles, memory, alerts, bankroll, loops, history
<1>1. FeedTypeOK
  BY DEF FeedInv
<1>2. LastBar \in 0..N
  <2>1. ASSUME NEW S \in SUBSET Versions, S # {} PROVE First(S) \in S
    BY <2>1, CandlesAssumption DEF First
  <2>2. ASSUME NEW v \in feito, visto[v] # <<>> PROVE Newest(visto[v]) \in 1..(2 * N)
    BY <1>1, <2>2, FeedTypesOf DEF Newest
  <2> DEFINE com == {v \in feito : visto[v] # <<>>}
  <2>3. com \in SUBSET Versions
    BY <1>1, FeedTypesOf
  <2>4. CASE com = {}
    BY <1>1, <2>4, FeedTypesOf DEF LastBar
  <2>5. CASE com # {}
    <3>1. First(com) \in com
      BY <2>1, <2>3, <2>5
    <3>2. Newest(visto[First(com)]) \in 1..(2 * N)
      BY <2>2, <3>1
    <3>3. LastBar = IF Newest(visto[First(com)]) > N THEN Newest(visto[First(com)]) - N
                    ELSE Newest(visto[First(com)])
      BY <2>5 DEF LastBar
    <3>4. N \in Nat
      BY CandlesAssumption
    <3> HIDE DEF com
    <3> QED
      BY <3>2, <3>3, <3>4
  <2> QED
    BY <2>4, <2>5
<1>3. CASE Fetch(k)
  <2>1. frescos' = Run(LastBar + 1, k) /\ LastBar + 1 <= k
    BY <1>1, <1>2, <1>3, FeedTypesOf DEF Fetch, Brought
  <2>2. /\ Run(LastBar + 1, k) \in Seq(1..(2 * N))
        /\ Len(Run(LastBar + 1, k)) = k - LastBar
        /\ Follows(Run(LastBar + 1, k), LastBar)
    <3>1. /\ LastBar + 1 \in Nat \ {0} /\ k \in Nat /\ LastBar + 1 <= k + 1 /\ k <= N
          /\ k - (LastBar + 1) + 1 = k - LastBar /\ (LastBar + 1) - 1 = LastBar
      BY <1>2, <2>1, CandlesAssumption
    <3> QED
      BY <3>1, RunIs
  <2>3. frescos' # <<>> /\ Newest(frescos') = k
    BY <1>2, <2>1, <2>2 DEF Newest, Follows
  <2>4. FeedTypeOK'
    BY <1>1, <1>3, <2>1, <2>2 DEF FeedTypeOK, Fetch, Brought
  <2> QED
    BY <1>2, <1>3, <2>1, <2>2, <2>3, <2>4
<1>4. CASE ~Fetch(k) /\ FetchFallback(k) /\ LastBar = 0
  <2>1. frescos' = Run(barras + 1, k) /\ barras + 1 <= k /\ barras \in Nat
    BY <1>1, <1>4, FeedTypesOf DEF FetchFallback, Brought
  <2>2. /\ Run(barras + 1, k) \in Seq(1..(2 * N))
        /\ Len(Run(barras + 1, k)) = k - barras
        /\ Follows(Run(barras + 1, k), barras)
    <3>1. /\ barras + 1 \in Nat \ {0} /\ k \in Nat /\ barras + 1 <= k + 1 /\ k <= N
          /\ k - (barras + 1) + 1 = k - barras /\ (barras + 1) - 1 = barras
      BY <2>1, CandlesAssumption
    <3> QED
      BY <3>1, RunIs
  <2>3. frescos' # <<>> /\ Newest(frescos') = k
    BY <2>1, <2>2 DEF Newest, Follows
  <2>4. FeedTypeOK'
    BY <1>1, <1>4, <2>1, <2>2 DEF FeedTypeOK, FetchFallback, Brought
  <2> QED
    BY <1>2, <1>4, <2>3, <2>4
<1>5. CASE ~Fetch(k) /\ FetchFallback(k) /\ LastBar # 0
  <2> DEFINE f == [i \in 1..(k - LastBar) |-> IF LastBar + i > barras THEN LastBar + i
                                                ELSE Flat(LastBar + i)]
  <2>1. frescos' = f /\ barras + 1 <= k /\ barras \in Nat /\ LastBar < barras
    BY <1>1, <1>5, FeedTypesOf DEF FetchFallback, Brought
  <2>2. k - LastBar \in Nat /\ k - LastBar >= 1
    BY <1>2, <2>1
  <2>3. \A i \in 1..(k - LastBar) : f[i] \in 1..(2 * N)
    BY <1>1, <1>2, <2>1, FeedTypesOf DEF Flat
  <2>4. f \in Seq(1..(2 * N)) /\ Len(f) = k - LastBar /\ f[k - LastBar] = k
    BY <1>2, <2>1, <2>2, <2>3
  <2>5. frescos' # <<>> /\ Newest(frescos') = k
    <3> HIDE DEF f
    <3> QED
      BY <2>1, <2>2, <2>4 DEF Newest
  <2>6. FeedTypeOK'
    <3> HIDE DEF f
    <3> QED
      BY <1>1, <1>5, <2>1, <2>4 DEF FeedTypeOK, FetchFallback, Brought
  <2> QED
    BY <1>2, <1>5, <2>5, <2>6
<1> QED
  BY <1>3, <1>4, <1>5

\* A signal of which one field is set.
LEMMA SignalTypes ==
  ASSUME NEW s \in [Trades -> Signals], NEW t \in Trades
  PROVE  /\ [s EXCEPT ![t].msg = TRUE] \in [Trades -> Signals]
         /\ [s EXCEPT ![t].tp1 = TRUE] \in [Trades -> Signals]
         /\ [s EXCEPT ![t].status = "fechado"] \in [Trades -> Signals]
<1>1. \A u \in Trades : s[u] \in Signals
  OBVIOUS
<1>2. /\ [s[t] EXCEPT !.msg = TRUE] \in Signals
      /\ [s[t] EXCEPT !.tp1 = TRUE] \in Signals
      /\ [s[t] EXCEPT !.status = "fechado"] \in Signals
  BY <1>1 DEF Signals
<1> QED
  BY <1>1, <1>2

\* Steps of an entry.
LEMMA EntryTypes ==
  ASSUME FeedInv, EntryLate \/ EntryInsert \/ EntryKnown \/ EntryAlert \/ Send \/ MarkSent
  PROVE  FeedTypeOK'
<1> USE DEF time, candles, memory, alerts, bankroll, loops, history
<1>1. FeedTypeOK
  BY DEF FeedInv
<1>2. CASE EntryLate \/ EntryKnown
  BY <1>1, <1>2 DEF FeedTypeOK, EntryLate, EntryKnown
<1>3. CASE EntryInsert
  <2>1. alvo \in Trades /\ alvo[1] \in Versions
    BY <1>3, TradeParts DEF FeedInv, InHand, AtEntry, EntryInsert
  <2>2. Len(visto[alvo[1]]) \in Nat /\ AloneAt(alvo) \in BOOLEAN
    BY <1>1, <2>1, FeedTypesOf DEF AloneAt
  <2>3. sinal' \in [Trades -> Signals]
    BY <1>1, <1>3, <2>1, <2>2, FeedTypesOf DEF EntryInsert, Signals
  <2> QED
    BY <1>1, <1>3, <2>3 DEF FeedTypeOK, EntryInsert
<1>4. CASE EntryAlert
  <2>1. alvo \in Trades
    BY <1>4 DEF FeedInv, InHand, AtEntry, EntryAlert
  <2> QED
    BY <1>1, <1>4, <2>1 DEF FeedTypeOK, EntryAlert, AlertOnce, Kinds
<1>5. CASE Send
  <2>1. enviados' \in [Kinds \X (1..N) -> Nat]
    <3>1. enviados \in [Kinds \X (1..N) -> Nat]
      BY <1>1 DEF FeedTypeOK
    <3>2. alvo \in Trades
      BY <1>1, <1>5, FeedTypesOf DEF FeedInv, InHand, AtEntry, AtPaper, Send
    <3>4. <<aviso, alvo[2]>> \in Kinds \X (1..N)
      BY <1>1, <3>2, TradeParts DEF FeedTypeOK
    <3>3. \/ enviados' = enviados
          \/ enviados' = [enviados EXCEPT ![<<aviso, alvo[2]>>] = @ + 1]
      BY <1>5 DEF Send
    <3> QED
      BY <3>1, <3>3, <3>4
  <2>2. pc' \in {"marcar", "consumir", "tp1", "gravar_tp1", "fechar"}
    <3>1. \A e \in BOOLEAN :
             AfterSend(e) \in {"marcar", "consumir", "tp1", "gravar_tp1", "fechar"}
      BY <1>1 DEF FeedTypeOK, AfterSend, Kinds
    <3> QED
      BY <1>5, <3>1 DEF Send
  <2> QED
    BY <1>1, <1>5, <2>1, <2>2 DEF FeedTypeOK, Send
<1>6. CASE MarkSent
  <2>1. sinal' \in [Trades -> Signals]
    <3>1. alvo \in Trades
      BY <1>6 DEF FeedInv, InHand, AtEntry, MarkSent
    <3> QED
      BY <1>1, <1>6, <3>1, FeedTypesOf, SignalTypes, Zenon DEF MarkSent
  <2> QED
    BY <1>1, <1>6, <2>1 DEF FeedTypeOK, MarkSent
<1> QED
  BY <1>2, <1>3, <1>4, <1>5, <1>6

\* Steps of the paper.
LEMMA PaperTypes ==
  ASSUME FeedInv,
         \/ PaperEnd \/ Confirm \/ TakeProfit \/ SaveTp1 \/ StillOpen \/ ExitAlert \/ Close
         \/ LedgerStep \/ LedgerLine \/ LedgerSave \/ \E t \in Trades : PaperNext(t)
  PROVE  FeedTypeOK'
<1> USE DEF time, candles, memory, alerts, bankroll, loops, history
<1>1. FeedTypeOK /\ (AtPaper \/ InPair => alvo \in Trades)
  BY FeedTypesOf DEF FeedInv, InHand
<1>2. CASE PaperEnd \/ StillOpen
  BY <1>1, <1>2 DEF FeedTypeOK, PaperEnd, StillOpen, Visited
<1>3. CASE Confirm \/ TakeProfit \/ ExitAlert
  <2>1. alvo \in Trades
    BY <1>1, <1>3 DEF AtPaper, Confirm, TakeProfit, ExitAlert
  <2>2. /\ pc' \in {"enviar", "tp1", "gravar_tp1", "saida", "fechar"}
        /\ UNCHANGED <<time, candles, memory, sinal, enviados, bankroll, vez, frescos, fila, modo,
                       lista, alvo, history>>
        /\ \/ UNCHANGED <<chaves, aviso>>
           \/ \E k \in Kinds : chaves' = chaves \cup {<<k, alvo>>} /\ aviso' = k
    BY <1>3 DEF Confirm, TakeProfit, ExitAlert, AlertOnce, Kinds
  <2>3. chaves' \subseteq Kinds \X Trades /\ aviso' \in Kinds
    BY <1>1, <2>1, <2>2 DEF FeedTypeOK
  <2> QED
    BY <1>1, <2>2, <2>3 DEF FeedTypeOK
<1>4. CASE SaveTp1 \/ Close
  <2>1. sinal' \in [Trades -> Signals]
    <3>1. alvo \in Trades
      BY <1>1, <1>4 DEF AtPaper, SaveTp1, Close
    <3>2. CASE SaveTp1
      BY <1>1, <3>1, <3>2, FeedTypesOf, SignalTypes, Zenon DEF SaveTp1
    <3>3. CASE Close
      BY <1>1, <3>1, <3>3, FeedTypesOf, SignalTypes, Zenon DEF Close
    <3> QED
      BY <1>4, <3>2, <3>3
  <2> QED
    BY <1>1, <1>4, <2>1 DEF FeedTypeOK, SaveTp1, Close
<1>5. CASE LedgerStep
  <2>1. alvo \in Trades /\ alvo[1] \in Versions /\ alvo[2] \in 1..N
    BY <1>1, <1>5, TradeParts DEF InPair, LedgerStep
  <2>2. ASSUME NEW s \in Seq(1..N) PROVE Append(s, alvo[2]) \in Seq(1..N)
    BY <2>1
  <2>3. memoria' \in [Versions -> Seq(1..N)]
    BY <1>1, <1>5, <2>1, <2>2, FeedTypesOf DEF LedgerStep
  <2> QED
    BY <1>1, <1>5, <2>1, <2>3 DEF FeedTypeOK, LedgerStep
<1>6. CASE LedgerLine
  <2>1. alvo \in Trades /\ alvo[1] \in Versions /\ alvo[2] \in 1..N
    BY <1>1, <1>6, TradeParts DEF InPair, LedgerLine
  <2>2. linhas' \in [Versions -> SUBSET (1..N)]
    BY <1>1, <1>6, <2>1 DEF FeedTypeOK, LedgerLine
  <2> QED
    BY <1>1, <1>6, <2>2 DEF FeedTypeOK, LedgerLine, Visited
<1>7. CASE LedgerSave
  <2>1. alvo[1] \in Versions
    BY <1>1, <1>7, TradeParts DEF InPair, LedgerSave
  <2>2. salvo' \in [Versions -> Seq(1..N)]
    BY <1>1, <1>7, <2>1, FeedTypesOf DEF LedgerSave
  <2> QED
    BY <1>1, <1>7, <2>2 DEF FeedTypeOK, LedgerSave, Visited
<1>8. CASE \E t \in Trades : PaperNext(t)
  <2>1. PICK t \in Trades : PaperNext(t)
    BY <1>8
  <2>2. sinal' = sinal \/ sinal' = [sinal EXCEPT ![t].status = "cancelado"]
    BY <2>1 DEF PaperNext
  <2>3. [sinal EXCEPT ![t].status = "cancelado"] \in [Trades -> Signals]
    BY <1>1, FeedTypesOf DEF Signals
  <2>4. sinal' \in [Trades -> Signals]
    BY <1>1, <2>2, <2>3, FeedTypesOf
  <2> QED
    BY <1>1, <2>1, <2>4 DEF FeedTypeOK, PaperNext, Visited
<1> QED
  BY <1>2, <1>3, <1>4, <1>5, <1>6, <1>7, <1>8

\* Time and cuts.
LEMMA CutTypes ==
  ASSUME FeedInv, NextCandle \/ HalfCandle \/ RefreshRaises \/ Restart
  PROVE  FeedTypeOK'
<1> USE DEF time, candles, memory, alerts, bankroll, loops, history
<1>1. FeedTypeOK
  BY DEF FeedInv
<1>2. CASE NextCandle
  <2>1. mercado' \in 1..N
    BY <1>1, <1>2, FeedTypesOf DEF NextCandle
  <2> QED
    BY <1>1, <1>2, <2>1 DEF FeedTypeOK, NextCandle
<1>3. CASE HalfCandle
  BY <1>1, <1>3 DEF FeedTypeOK, HalfCandle
<1>4. <<>> \in Seq(1..(2 * N)) /\ <<>> \in Seq(1..N)
  OBVIOUS
<1>5. CASE RefreshRaises
  <2>1. visto' \in [Versions -> Seq(1..(2 * N))]
    BY <1>1, <1>4, <1>5, FeedTypesOf DEF RefreshRaises
  <2>2. falhou' \in BOOLEAN /\ jaFalhou' \in BOOLEAN
    BY <1>1, <1>5 DEF FeedTypeOK, RefreshRaises
  <2>3. cortes' \in Nat /\ cortesNoPar' \in Nat
    BY <1>1, <1>5 DEF FeedTypeOK, RefreshRaises, Cut
  <2> QED
    BY <1>1, <1>4, <1>5, <2>1, <2>2, <2>3 DEF FeedTypeOK, RefreshRaises, Cut, Kinds
<1>6. CASE Restart
  <2>1. /\ visto' \in [Versions -> Seq(1..(2 * N))]
        /\ memoria' \in [Versions -> Seq(1..N)]
    BY <1>4, <1>6 DEF Restart
  <2>2. cortes' \in Nat /\ cortesNoPar' \in Nat
    BY <1>1, <1>6 DEF FeedTypeOK, Restart, Cut
  <2> QED
    BY <1>1, <1>4, <1>6, <2>1, <2>2 DEF FeedTypeOK, Restart, Cut, Kinds
<1> QED
  BY <1>2, <1>3, <1>5, <1>6

LEMMA FeedTypesKept ==
  ASSUME FeedInv, [FeedStep]_feedVars
  PROVE  FeedTypeOK'
<1>1. CASE FeedStep
  BY <1>1, RefreshTypes, FetchTypes, EntryTypes, PaperTypes, CutTypes DEF FeedStep, Refresh
<1>2. CASE UNCHANGED feedVars
  BY <1>2 DEF FeedInv, FeedTypeOK, feedVars, time, candles, memory, alerts, bankroll, loops,
     history
<1> QED
  BY <1>1, <1>2

-----------------------------------------------------------------------------
(* What a refresh has in hand.                                              *)

LEMMA PhasesOfRefresh ==
  ASSUME FeedInv,
         \/ RefreshBegin \/ Rebuild \/ RebuildDone \/ RebuildEnd \/ FetchNothing
         \/ FirstBar \/ AppendBars \/ FeedNext \/ RefreshEnd \/ Consume \/ FeedDone
  PROVE  Phases'
<1> USE DEF time, candles, memory, alerts, bankroll, loops, history
<1>1. FeedTypeOK /\ Phases
  BY DEF FeedInv
<1>2. CASE RefreshBegin
  BY <1>1, <1>2 DEF Phases, RefreshBegin, Rebuilding, Feeds, Following, Consuming, AtEntry,
     AtPaper, InPair, Missing
<1>3. CASE Rebuild
  BY <1>1, <1>3 DEF Phases, Rebuild, Rebuilding, Feeds, Following, Consuming, AtEntry,
     AtPaper, InPair, Missing
<1>4. CASE RebuildDone
  BY <1>1, <1>4 DEF Phases, RebuildDone, Rebuilding, Feeds, Following, Consuming, AtEntry,
     AtPaper, InPair, Missing
<1>5. CASE RebuildEnd \/ FetchNothing \/ RefreshEnd
  BY <1>1, <1>5 DEF Phases, RebuildEnd, FetchNothing, RefreshEnd, Rebuilding, Feeds, Following,
     Consuming, AtEntry, AtPaper, InPair, Missing
<1>6. CASE FirstBar
  BY <1>1, <1>6 DEF Phases, FirstBar, Rebuilding, Feeds, Following, Consuming, AtEntry,
     AtPaper, InPair, Missing
<1>7. CASE AppendBars
  BY <1>1, <1>7, FeedTypesOf DEF Phases, AppendBars, Rebuilding, Feeds, Following, Consuming,
     AtEntry, AtPaper, InPair, Missing
<1>8. CASE FeedNext
  BY <1>1, <1>8 DEF Phases, FeedNext, Rebuilding, Feeds, Following, Consuming, AtEntry,
     AtPaper, InPair, Missing
<1>9. CASE Consume \/ FeedDone
  <2>1. /\ pc = "consumir" /\ UNCHANGED <<time, candles, feito, vez, frescos, modo>>
        /\ \/ pc' \in {"entrada", "consumir"} /\ lista' = lista
           \/ pc' = "papel" /\ modo = "alimentar"
    BY <1>9 DEF Consume, FeedDone
  <2>2. ~lbc => visto' = visto
    <3>1. ~lbc => vez = {}
      <4>1. modo \in {"refazer", "alimentar"}
        BY <1>1 DEF FeedTypeOK
      <4> QED
        BY <1>1, <2>1, <4>1 DEF Phases, Rebuilding, Feeds, Consuming, Missing
    <3> QED
      BY <1>1, <2>1, <3>1 DEF Phases, Consuming
  <2> QED
    BY <1>1, <2>1, <2>2 DEF Phases, Rebuilding, Feeds, Following, Consuming, AtEntry,
       AtPaper, InPair, Missing
<1> QED
  BY <1>2, <1>3, <1>4, <1>5, <1>6, <1>7, <1>8, <1>9

LEMMA PhasesOfFetch ==
  ASSUME FeedInv, NEW k \in 1..N, Fetch(k) \/ FetchFallback(k)
  PROVE  Phases'
<1>1. Newest(frescos') = k /\ frescos' # <<>>
  BY FetchTypes
<1>2. /\ Phases /\ pc = "buscar" /\ k \in 1..mercado
      /\ UNCHANGED <<time, candles, memory, vez, lista, modo>>
      /\ pc' = IF lbc THEN "gravar" ELSE "primeiro"
  <2>1. LastBar \in 0..N /\ mercado \in 1..N /\ barras \in 0..N
    BY FetchTypes, FeedTypesOf DEF FeedInv
  <2> QED
    BY <2>1 DEF Fetch, FetchFallback, Brought, FeedInv
<1> QED
  BY <1>1, <1>2 DEF Phases, Rebuilding, Feeds, Following, Consuming, AtEntry, AtPaper, InPair,
     Missing, time, candles, memory

\* Who handles an entry or a trade stays in the phase he is in.
LEMMA PhasesOfRest ==
  ASSUME FeedInv, lbc' = lbc, barras' = barras, mercado' = mercado, feito' = feito,
         visto' = visto, frescos' = frescos, vez' = vez, modo' = modo,
         pc' = "enviar" => aviso' \in Kinds,
         \/ AtEntry /\ (AtEntry' \/ pc' = "consumir") /\ lista' = lista
         \/ Following /\ Following' /\ lista' \subseteq lista
  PROVE  Phases'
BY DEF FeedInv, Phases, Rebuilding, Feeds, Following, Consuming, AtEntry, AtPaper, InPair, Missing

LEMMA PhasesKept ==
  ASSUME FeedInv, [FeedStep]_feedVars
  PROVE  Phases'
<1> USE DEF time, candles, memory, alerts, bankroll, loops, history
<1>1. CASE EntryLate \/ EntryInsert \/ EntryKnown \/ EntryAlert \/ MarkSent \/ (Send /\ aviso = "e")
  <2>1. AtEntry /\ (AtEntry' \/ pc' = "consumir") /\ (pc' = "enviar" => aviso' \in Kinds)
    BY <1>1 DEF AtEntry, EntryLate, EntryInsert, EntryKnown, EntryAlert, MarkSent, Send,
       AfterSend, AlertOnce, Kinds
  <2> QED
    BY <1>1, <2>1, PhasesOfRest DEF EntryLate, EntryInsert, EntryKnown, EntryAlert, MarkSent, Send
<1>2. CASE \/ Confirm \/ TakeProfit \/ SaveTp1 \/ ExitAlert \/ Close \/ LedgerStep
           \/ (Send /\ aviso # "e")
  <2>1. Following /\ Following' /\ (pc' = "enviar" => aviso' \in Kinds)
    BY <1>2 DEF Following, AtPaper, InPair, Confirm, TakeProfit, SaveTp1, ExitAlert, Close,
       LedgerStep, Send, AfterSend, AlertOnce, Kinds, FeedInv, FeedTypeOK
  <2> QED
    BY <1>2, <2>1, PhasesOfRest DEF Confirm, TakeProfit, SaveTp1, ExitAlert, Close, LedgerStep,
       Send
<1>3. CASE StillOpen \/ LedgerLine \/ LedgerSave \/ \E t \in Trades : PaperNext(t)
  <2>1. Following /\ Following' /\ pc' # "enviar" /\ lista' \subseteq lista
    BY <1>3 DEF Following, AtPaper, InPair, StillOpen, LedgerLine, LedgerSave, PaperNext, Visited
  <2> QED
    BY <1>3, <2>1, PhasesOfRest DEF StillOpen, LedgerLine, LedgerSave, PaperNext
<1>4. CASE PaperEnd
  BY <1>4 DEF FeedInv, Phases, PaperEnd, Rebuilding, Feeds, Following, Consuming, AtEntry,
     AtPaper, InPair, Missing
<1>5. CASE NextCandle \/ HalfCandle
  BY <1>5, FeedTypesOf DEF FeedInv, Phases, NextCandle, HalfCandle, Rebuilding, Feeds,
     Following, Consuming, AtEntry, AtPaper, InPair, Missing
<1>6. CASE RefreshRaises \/ Restart
  BY <1>6 DEF FeedInv, Phases, RefreshRaises, Restart, Cut, Rebuilding, Feeds,
     Following, Consuming, AtEntry, AtPaper, InPair, Missing
<1>7. CASE UNCHANGED feedVars
  BY <1>7 DEF FeedInv, Phases, feedVars, Rebuilding, Feeds, Following, Consuming, AtEntry,
     AtPaper, InPair, Missing
<1> QED
  BY <1>1, <1>2, <1>3, <1>4, <1>5, <1>6, <1>7, PhasesOfRefresh, PhasesOfFetch DEF FeedStep, Refresh

-----------------------------------------------------------------------------
(* The trade at work.                                                       *)

LEMMA InHandOfEntry ==
  ASSUME FeedInv, EntryLate \/ EntryInsert \/ EntryKnown \/ EntryAlert \/ MarkSent \/ Consume
  PROVE  InHand'
<1> USE DEF time, candles, memory, alerts, bankroll, loops, history
<1>1. lista = {} /\ lista' = {} /\ ~AtPaper' /\ ~InPair' /\ vez' = vez
  BY DEF FeedInv, Phases, Following, AtPaper, InPair, EntryLate, EntryInsert, EntryKnown,
     EntryAlert, MarkSent, Consume, AlertOnce
<1>2. CASE Consume
  <2>1. AtEntry' => /\ alvo' \in Trades /\ alvo'[1] = Now /\ alvo'[2] >= Admissao
                    /\ pc' = "entrada"
    BY <1>2 DEF Consume, AtEntry
  <2> QED
    BY <1>1, <1>2, <2>1 DEF InHand, Now, First
<1>3. CASE EntryInsert
  <2>1. AtEntry /\ alvo \in Trades /\ alvo' = alvo /\ alvo[1] = Now /\ alvo[2] >= Admissao
    BY <1>3 DEF EntryInsert, AtEntry, FeedInv, InHand
  <2>2. Opened(alvo)'
    BY <1>3, <2>1, FeedTypesOf DEF EntryInsert, Opened, FeedInv, Signals
  <2> QED
    BY <1>1, <2>1, <2>2 DEF InHand, Now, First
<1>4. CASE EntryLate \/ EntryKnown \/ EntryAlert \/ MarkSent
  <2>1. /\ AtEntry /\ alvo \in Trades /\ alvo' = alvo /\ alvo[1] = Now /\ alvo[2] >= Admissao
        /\ AtEntry' => Opened(alvo) /\ sinal' = sinal
    BY <1>4 DEF EntryLate, EntryKnown, EntryAlert, MarkSent, AlertOnce, AtEntry, Opened,
       FeedInv, InHand
  <2> QED
    BY <1>1, <2>1 DEF InHand, Now, First, Opened
<1> QED
  BY <1>2, <1>3, <1>4

LEMMA InHandOfPaper ==
  ASSUME FeedInv,
         \/ Send \/ Confirm \/ TakeProfit \/ SaveTp1 \/ StillOpen \/ ExitAlert \/ Close
         \/ LedgerStep \/ LedgerLine \/ LedgerSave \/ \E t \in Trades : PaperNext(t)
  PROVE  InHand'
<1> USE DEF time, candles, memory, alerts, bankroll, loops, history
<1>1. FeedTypeOK /\ Phases /\ InHand
  BY DEF FeedInv
<1>2. CASE Send
  <2>1. /\ pc = "enviar" /\ UNCHANGED <<sinal, loops>> /\ aviso \in Kinds
        /\ pc' \in {"marcar", "consumir", "tp1", "gravar_tp1", "fechar"}
        /\ aviso = "e" <=> pc' \in {"marcar", "consumir"}
    BY <1>1, <1>2 DEF Send, AfterSend, FeedTypeOK, Kinds
  <2> QED
    BY <1>1, <2>1 DEF InHand, AtEntry, AtPaper, InPair, Now, First, Opened, loops
<1>3. CASE Confirm \/ TakeProfit \/ ExitAlert
  <2>1. AtPaper /\ AtPaper' /\ ~AtEntry' /\ ~InPair' /\ ~InPair /\ UNCHANGED <<sinal, lista, alvo>>
    BY <1>3 DEF AtPaper, AtEntry, InPair, Confirm, TakeProfit, ExitAlert, AlertOnce
  <2> QED
    BY <1>1, <2>1 DEF InHand
<1>4. CASE SaveTp1
  <2>1. /\ AtPaper /\ AtPaper' /\ ~AtEntry' /\ ~InPair' /\ ~InPair /\ UNCHANGED <<lista, alvo>>
        /\ \A t \in Trades : sinal'[t].status = sinal[t].status
    BY <1>1, <1>4, FeedTypesOf DEF AtPaper, AtEntry, InPair, SaveTp1, Signals
  <2> QED
    BY <1>1, <2>1, FeedTypesOf DEF InHand
<1>5. CASE Close
  <2>1. /\ AtPaper /\ ~AtPaper' /\ ~AtEntry' /\ InPair' /\ ~InPair /\ UNCHANGED <<lista, alvo>>
        /\ sinal' = [sinal EXCEPT ![alvo].status = "fechado"]
    BY <1>5 DEF AtPaper, AtEntry, InPair, Close
  <2>2. alvo \in lista /\ alvo \in Trades
    BY <1>1, <2>1, FeedTypesOf DEF InHand
  <2>3. /\ sinal'[alvo].status = "fechado"
        /\ \A t \in Trades : t # alvo => sinal'[t] = sinal[t]
    BY <1>1, <2>1, <2>2, FeedTypesOf DEF Signals
  <2> QED
    BY <1>1, <2>1, <2>2, <2>3, FeedTypesOf DEF InHand
<1>6. CASE StillOpen \/ LedgerStep \/ LedgerLine \/ LedgerSave
  <2>1. /\ AtPaper \/ InPair
        /\ ~AtPaper' /\ ~AtEntry' /\ UNCHANGED <<sinal, alvo>>
        /\ \/ lista' = lista /\ InPair /\ InPair'
           \/ lista' = lista \ {alvo} /\ ~InPair'
    BY <1>6 DEF AtPaper, AtEntry, InPair, StillOpen, LedgerStep, LedgerLine, LedgerSave, Visited
  <2> QED
    BY <1>1, <2>1 DEF InHand
<1>7. CASE \E t \in Trades : PaperNext(t)
  <2>1. PICK t \in Trades : PaperNext(t)
    BY <1>7
  <2>2. /\ ~InPair /\ ~AtPaper /\ ~InPair' /\ ~AtEntry' /\ t \in lista
        /\ \/ AtPaper' /\ alvo' = t /\ UNCHANGED <<lista, sinal>>
           \/ /\ ~AtPaper' /\ lista' = lista \ {t}
              /\ sinal' \in {sinal, [sinal EXCEPT ![t].status = "cancelado"]}
    BY <2>1 DEF AtPaper, AtEntry, InPair, PaperNext, Visited
  <2>3. \A u \in Trades : u # t => sinal'[u].status = sinal[u].status
    BY <1>1, <2>2, FeedTypesOf DEF Signals
  <2> QED
    BY <1>1, <2>2, <2>3, FeedTypesOf DEF InHand
<1> QED
  BY <1>2, <1>3, <1>4, <1>5, <1>6, <1>7

LEMMA InHandKept ==
  ASSUME FeedInv, [FeedStep]_feedVars
  PROVE  InHand'
<1> USE DEF time, candles, memory, alerts, bankroll, loops, history
<1>1. CASE \/ RefreshBegin \/ Rebuild \/ RebuildDone \/ RebuildEnd \/ FetchNothing \/ FirstBar
           \/ AppendBars \/ FeedNext \/ RefreshEnd \/ PaperEnd \/ NextCandle \/ HalfCandle
  <2>1. ~AtEntry' /\ ~AtPaper' /\ ~InPair' /\ lista' = {}
    <3>1. lista' = lista /\ (lista = {} \/ ~Following)
      BY <1>1 DEF RefreshBegin, Rebuild, RebuildDone, RebuildEnd, FetchNothing, FirstBar,
         AppendBars, FeedNext, RefreshEnd, PaperEnd, NextCandle, HalfCandle, Following, AtPaper,
         InPair
    <3>2. pc' \in {"livre", "refazer", "consumir", "buscar", "gravar", "alimentar"}
      BY <1>1 DEF RefreshBegin, Rebuild, RebuildDone, RebuildEnd, FetchNothing, FirstBar,
         AppendBars, FeedNext, RefreshEnd, PaperEnd, NextCandle, HalfCandle
    <3> QED
      BY <3>1, <3>2 DEF FeedInv, Phases, AtEntry, AtPaper, InPair
  <2> QED
    BY <2>1 DEF InHand
<1>2. CASE \E k \in 1..N : Fetch(k) \/ FetchFallback(k)
  <2>1. lista' = lista /\ pc = "buscar" /\ pc' \in {"gravar", "primeiro"}
    BY <1>2 DEF Fetch, FetchFallback, Brought
  <2> QED
    BY <2>1 DEF InHand, FeedInv, Phases, Following, AtEntry, AtPaper, InPair
<1>3. CASE FeedDone
  <2>1. /\ ~AtEntry' /\ ~AtPaper' /\ ~InPair' /\ sinal' = sinal
        /\ \A t \in lista' : sinal[t].status = "aberto"
    BY <1>3 DEF FeedDone, AtEntry, AtPaper, InPair
  <2> QED
    BY <2>1 DEF InHand
<1>4. CASE RefreshRaises \/ Restart
  BY <1>4 DEF RefreshRaises, Restart, Cut, InHand, AtEntry, AtPaper, InPair
<1>5. CASE UNCHANGED feedVars
  BY <1>5 DEF FeedInv, InHand, feedVars, AtEntry, AtPaper, InPair, Now, First, Opened
<1> QED
  BY <1>1, <1>2, <1>3, <1>4, <1>5, InHandOfEntry, InHandOfPaper DEF FeedStep, Refresh

-----------------------------------------------------------------------------
(* The bankroll.                                                            *)

\* A ledger that is moved on by a trade has it once more, and no other.
LEMMA LedgerAppend ==
  ASSUME NEW s \in Seq(1..N), NEW c \in 1..N, NEW x
  PROVE  /\ Occurrences(s, x) \in Nat
         /\ Occurrences(Append(s, c), x) = Occurrences(s, x) + IF c = x THEN 1 ELSE 0
<1> DEFINE X == 1..N
<1>1. s \in Seq(X) /\ c \in X
  OBVIOUS
<1> HIDE DEF X
<1> QED
  BY <1>1, AppendOccurrences

LEMMA LedgerTypes ==
  ASSUME FeedTypeOK
  PROVE  /\ \A t \in Trades : Saved(t) \in Nat /\ Held(t) \in Nat
         /\ IsFiniteSet(Broken) /\ Cardinality(Broken) \in Nat
<1>1. ASSUME NEW t \in Trades PROVE Saved(t) \in Nat /\ Held(t) \in Nat
  <2>1. salvo[t[1]] \in Seq(1..N) /\ memoria[t[1]] \in Seq(1..N) /\ 1 \in 1..N
    BY TradeParts, FeedTypesOf
  <2>2. \A s \in Seq(1..N) : Occurrences(s, t[2]) \in Nat
    BY <2>1, LedgerAppend
  <2> QED
    BY <2>1, <2>2 DEF Saved, Held
<1>2. Broken \subseteq Trades
  BY DEF Broken
<1>3. IsFiniteSet(Broken)
  BY <1>2, TradeParts, FS_Subset
<1> QED
  BY <1>1, <1>3, FS_CardinalityType

\* What leaves the bankroll and the closed trades alone.
LEMMA LedgersOfRest ==
  ASSUME FeedInv, UNCHANGED <<bankroll, cortesNoPar>>, ~InPair, ~InPair',
         \A t \in Trades : sinal'[t].status = "fechado" <=> sinal[t].status = "fechado"
  PROVE  Ledgers'
<1>1. /\ \A t \in Trades : Saved(t)' = Saved(t) /\ Held(t)' = Held(t) /\ (Booked(t)' <=> Booked(t))
      /\ carregada' = carregada
  BY DEF Saved, Held, Booked, bankroll
<1>2. Broken' = Broken
  BY <1>1 DEF Broken
<1>3. pc \notin {"banca", "linha", "salvar"} /\ pc' \notin {"banca", "linha", "salvar"}
  BY DEF InPair
<1> QED
  BY <1>1, <1>2, <1>3 DEF FeedInv, Ledgers

LEMMA LedgersOfPair ==
  ASSUME FeedInv, FeedTypeOK', Close \/ LedgerStep \/ LedgerLine \/ LedgerSave
  PROVE  Ledgers'
<1> USE DEF time, candles, memory, alerts, bankroll, loops, history
<1>1. FeedTypeOK /\ Ledgers
  BY DEF FeedInv
<1>2. /\ alvo \in Trades /\ alvo' = alvo /\ alvo[1] \in Versions /\ cortesNoPar' = cortesNoPar
      /\ alvo = <<alvo[1], alvo[2]>> /\ alvo[2] \in 1..N
      /\ \A t \in Trades : t[1] = alvo[1] /\ t[2] = alvo[2] => t = alvo
  <2>1. alvo \in lista /\ lista \subseteq Trades
    BY <1>1, FeedTypesOf DEF FeedInv, InHand, AtPaper, InPair, Close, LedgerStep, LedgerLine,
       LedgerSave
  <2> QED
    BY <2>1, TradeParts DEF Close, LedgerStep, LedgerLine, LedgerSave
<1>3. CASE Close
  <2>1. /\ pc = "fechar" /\ pc' = "banca" /\ UNCHANGED bankroll
        /\ sinal[alvo].status = "aberto"
        /\ \A t \in Trades : t # alvo => sinal'[t] = sinal[t]
    <3>1. sinal[alvo].status = "aberto"
      BY <1>3 DEF FeedInv, InHand, AtPaper, Close
    <3> QED
      BY <1>1, <1>2, <1>3, <3>1, FeedTypesOf DEF Close
  <2>2. /\ \A t \in Trades : Saved(t)' = Saved(t) /\ Held(t)' = Held(t) /\ (Booked(t)' <=> Booked(t))
        /\ carregada' = carregada
    BY <2>1 DEF Saved, Held, Booked
  <2>3. Broken' = Broken
    BY <1>2, <2>1, <2>2 DEF Broken, InPair
  <2> QED
    BY <1>1, <1>2, <2>1, <2>2, <2>3 DEF Ledgers
<1>4. CASE LedgerStep
  <2>1. /\ pc = "banca" /\ pc' = "linha" /\ UNCHANGED <<sinal, salvo, linhas>>
        /\ carregada' = carregada \cup {alvo[1]}
        /\ memoria' = [memoria EXCEPT ![alvo[1]] =
              Append(IF alvo[1] \in carregada THEN memoria[alvo[1]] ELSE salvo[alvo[1]], alvo[2])]
    BY <1>4 DEF LedgerStep
  <2>2. \A t \in Trades : Saved(t)' = Saved(t) /\ (Booked(t)' <=> Booked(t))
    BY <2>1 DEF Saved, Booked
  <2>3. ASSUME NEW t \in Trades
        PROVE  /\ t[1] # alvo[1] => Held(t)' = Held(t)
               /\ t[1] = alvo[1] =>
                    Held(t)' = (IF alvo[1] \in carregada THEN Held(t) ELSE Saved(t))
                               + IF alvo = t THEN 1 ELSE 0
    <3>1. CASE t[1] # alvo[1]
      BY <1>1, <1>2, <2>1, <3>1, FeedTypesOf, TradeParts DEF Held
    <3>2. CASE t[1] = alvo[1]
      <4> DEFINE old == IF alvo[1] \in carregada THEN memoria[alvo[1]] ELSE salvo[alvo[1]]
      <4>1. old \in Seq(1..N)
        BY <1>1, <1>2, FeedTypesOf
      <4>2. memoria'[alvo[1]] = Append(old, alvo[2])
        BY <1>1, <1>2, <2>1, FeedTypesOf
      <4>3. Occurrences(Append(old, alvo[2]), t[2])
               = Occurrences(old, t[2]) + IF alvo[2] = t[2] THEN 1 ELSE 0
        <5> HIDE DEF old
        <5> QED
          BY <1>2, <4>1, LedgerAppend
      <4>4. alvo[2] = t[2] <=> alvo = t
        BY <1>2, <3>2
      <4> QED
        BY <3>2, <4>2, <4>3, <4>4 DEF Held, Saved
    <3> QED
      BY <3>1, <3>2
  <2>4. Broken' = Broken
    BY <1>2, <2>1, <2>2 DEF Broken, InPair
  <2>5. sinal[alvo].status = "fechado" /\ Saved(alvo) = 0 /\ Held(alvo) = 0 /\ ~Booked(alvo)
    BY <1>1, <1>2, <2>1 DEF Ledgers, FeedInv, InHand, InPair
  <2>6. \A t \in Trades : Saved(t) \in Nat /\ Held(t) \in Nat
    BY <1>1, LedgerTypes
  <2>7. ASSUME NEW t \in Trades
        PROVE  /\ Saved(t)' <= 1 /\ Held(t)' <= 1
               /\ t[1] \in carregada' => Saved(t)' <= Held(t)'
               /\ sinal'[t].status # "fechado" => Saved(t)' = 0 /\ Held(t)' = 0 /\ ~Booked(t)'
    <3>1. CASE t = alvo
      BY <2>1, <2>2, <2>3, <2>5, <2>6, <3>1
    <3>2. CASE t # alvo
      BY <1>1, <2>1, <2>2, <2>3, <2>6, <3>2 DEF Ledgers
    <3> QED
      BY <3>1, <3>2
  <2>8. alvo[1] \in carregada' /\ Saved(alvo)' = 0 /\ Held(alvo)' = 1 /\ ~Booked(alvo)'
    BY <1>2, <2>1, <2>2, <2>3, <2>5
  <2> QED
    BY <1>1, <1>2, <2>1, <2>4, <2>7, <2>8 DEF Ledgers
<1>5. CASE LedgerLine
  <2>1. /\ pc = "linha" /\ UNCHANGED <<sinal, salvo, memoria, carregada>>
        /\ linhas' = [linhas EXCEPT ![alvo[1]] = @ \cup {alvo[2]}]
        /\ ~Booked(alvo) /\ Saved(alvo) = 0 /\ Held(alvo) = 1 /\ alvo[1] \in carregada
        /\ sinal[alvo].status = "fechado"
    BY <1>1, <1>2, <1>5 DEF LedgerLine, Ledgers, FeedInv, InHand, InPair
  <2>2. pc' = "salvar"
    BY <1>5, <2>1 DEF LedgerLine, Booked
  <2>3. /\ \A t \in Trades : Saved(t)' = Saved(t) /\ Held(t)' = Held(t)
        /\ \A t \in Trades : t # alvo => (Booked(t)' <=> Booked(t))
        /\ Booked(alvo)'
    <3>1. linhas \in [Versions -> SUBSET (1..N)]
      BY <1>1 DEF FeedTypeOK
    <3> QED
      BY <1>2, <2>1, <3>1, TradeParts DEF Saved, Held, Booked
  <2>4. Broken' = Broken
    BY <1>2, <2>1, <2>2, <2>3 DEF Broken, InPair
  <2> QED
    BY <1>1, <1>2, <2>1, <2>2, <2>3, <2>4 DEF Ledgers
<1>6. CASE LedgerSave
  <2>1. /\ pc = "salvar" /\ pc' = "papel" /\ UNCHANGED <<sinal, linhas, memoria, carregada>>
        /\ salvo' = [salvo EXCEPT ![alvo[1]] = memoria[alvo[1]]]
        /\ Booked(alvo) /\ Saved(alvo) = 0 /\ Held(alvo) = 1 /\ alvo[1] \in carregada
        /\ sinal[alvo].status = "fechado"
    BY <1>1, <1>2, <1>6 DEF LedgerSave, Visited, Ledgers, FeedInv, InHand, InPair
  <2>2. /\ \A t \in Trades : Held(t)' = Held(t) /\ (Booked(t)' <=> Booked(t))
        /\ \A t \in Trades : Saved(t)' = IF t[1] = alvo[1] THEN Held(t) ELSE Saved(t)
    BY <1>1, <1>2, <2>1, FeedTypesOf, TradeParts DEF Saved, Held, Booked
  <2>3. \A t \in Trades : Saved(t) \in Nat /\ Held(t) \in Nat
    BY <1>1, LedgerTypes
  <2>4. /\ \A t \in Trades : /\ Saved(t) <= 1 /\ Held(t) <= 1
                             /\ t[1] \in carregada => Saved(t) <= Held(t)
                             /\ sinal[t].status # "fechado" => Saved(t) = 0 /\ Held(t) = 0 /\ ~Booked(t)
    BY <1>1 DEF Ledgers
  <2>5. Broken' \subseteq Broken
    <3>1. ASSUME NEW t \in Trades, t \in Broken'
          PROVE  t \in Broken
      <4>1. sinal[t].status = "fechado" /\ (~Booked(t) \/ Saved(t)' # 1)
        BY <2>1, <2>2, <3>1 DEF Broken
      <4>2. t # alvo
        BY <2>1, <2>2, <4>1
      <4>3. ~Booked(t) \/ Saved(t) # 1
        BY <2>1, <2>2, <2>3, <2>4, <4>1
      <4> QED
        BY <4>1, <4>2, <4>3 DEF Broken
    <3> QED
      BY <3>1 DEF Broken
  <2>6. Cardinality(Broken') <= cortesNoPar'
    <3>1. Cardinality(Broken') <= Cardinality(Broken)
      BY <1>1, <2>5, LedgerTypes, FS_Subset
    <3>2. Cardinality(Broken) <= cortesNoPar /\ cortesNoPar \in Nat
      BY <1>1 DEF Ledgers, FeedTypeOK
    <3>3. Cardinality(Broken') \in Nat /\ Cardinality(Broken) \in Nat
      <4>1. IsFiniteSet(Broken')
        BY <1>1, <2>5, LedgerTypes, FS_Subset
      <4> QED
        BY <1>1, <4>1, LedgerTypes, FS_CardinalityType
    <3> QED
      BY <1>2, <3>1, <3>2, <3>3
  <2> QED
    BY <2>1, <2>2, <2>3, <2>4, <2>6 DEF Ledgers
<1> QED
  BY <1>3, <1>4, <1>5, <1>6

LEMMA LedgersOfCut ==
  ASSUME FeedInv, FeedTypeOK', RefreshRaises \/ Restart
  PROVE  Ledgers'
<1> USE DEF time, candles, memory, alerts, bankroll, loops, history
<1>1. FeedTypeOK /\ Ledgers
  BY DEF FeedInv
<1>2. /\ UNCHANGED <<sinal, salvo, linhas>> /\ pc' = "livre"
      /\ cortesNoPar' = cortesNoPar + IF InPair THEN 1 ELSE 0
      /\ InPair => alvo \in Trades /\ sinal[alvo].status = "fechado"
  <2>1. InPair => alvo \in Trades /\ sinal[alvo].status = "fechado"
    BY <1>1, FeedTypesOf DEF FeedInv, InHand
  <2> QED
    BY <2>1 DEF RefreshRaises, Restart, Cut, InPair
<1>3. /\ \A t \in Trades : Saved(t)' = Saved(t) /\ (Booked(t)' <=> Booked(t))
  BY <1>2 DEF Saved, Booked
<1>4. \/ carregada' = carregada /\ \A t \in Trades : Held(t)' = Held(t)
      \/ carregada' = {} /\ \A t \in Trades : Held(t)' = 0
  <2>1. CASE RefreshRaises
    BY <2>1 DEF RefreshRaises, Held
  <2>2. CASE Restart
    <3>1. ASSUME NEW t \in Trades PROVE Held(t)' = 0
      <4>1. memoria'[t[1]] = <<>>
        BY <2>2, TradeParts DEF Restart
      <4>2. {i \in DOMAIN <<>> : <<>>[i] = t[2]} = {}
        OBVIOUS
      <4> QED
        BY <4>1, <4>2, FS_EmptySet DEF Held, Occurrences
    <3> QED
      BY <2>2, <3>1 DEF Restart
  <2> QED
    BY <2>1, <2>2
<1>5. Broken' \subseteq Broken \cup (IF InPair THEN {alvo} ELSE {})
  BY <1>2, <1>3 DEF Broken
<1>6. Cardinality(Broken') <= cortesNoPar'
  <2>1. IsFiniteSet(Broken) /\ Cardinality(Broken) \in Nat
    BY <1>1, LedgerTypes
  <2>2. Cardinality(Broken) <= cortesNoPar /\ cortesNoPar \in Nat
    BY <1>1 DEF Ledgers, FeedTypeOK
  <2>3. IsFiniteSet(Broken \cup {alvo}) /\ Cardinality(Broken \cup {alvo}) <= Cardinality(Broken) + 1
    BY <2>1, FS_AddElement
  <2>4. IsFiniteSet(Broken \cup {alvo}) /\ Cardinality(Broken \cup {alvo}) \in Nat
    BY <2>3, FS_CardinalityType
  <2>5. CASE InPair
    <3>1. Broken' \subseteq Broken \cup {alvo}
      BY <1>5, <2>5
    <3>2. IsFiniteSet(Broken') /\ Cardinality(Broken') <= Cardinality(Broken \cup {alvo})
      BY <2>4, <3>1, FS_Subset
    <3>3. Cardinality(Broken') \in Nat
      BY <3>2, FS_CardinalityType
    <3> QED
      BY <1>2, <2>1, <2>2, <2>3, <2>4, <2>5, <3>2, <3>3
  <2>6. CASE ~InPair
    <3>1. Broken' \subseteq Broken
      BY <1>5, <2>6
    <3>2. IsFiniteSet(Broken') /\ Cardinality(Broken') <= Cardinality(Broken)
      BY <2>1, <3>1, FS_Subset
    <3>3. Cardinality(Broken') \in Nat
      BY <3>2, FS_CardinalityType
    <3> QED
      BY <1>2, <2>1, <2>2, <2>6, <3>2, <3>3
  <2> QED
    BY <2>5, <2>6
<1>7. \A t \in Trades : Saved(t) \in Nat /\ Held(t) \in Nat
  BY <1>1, LedgerTypes
<1>8. ASSUME NEW t \in Trades
      PROVE  /\ Saved(t)' <= 1 /\ Held(t)' <= 1
             /\ t[1] \in carregada' => Saved(t)' <= Held(t)'
             /\ sinal'[t].status # "fechado" => Saved(t)' = 0 /\ Held(t)' = 0 /\ ~Booked(t)'
  BY <1>1, <1>2, <1>3, <1>4, <1>7 DEF Ledgers
<1> QED
  BY <1>2, <1>6, <1>8 DEF Ledgers

LEMMA LedgersKept ==
  ASSUME FeedInv, FeedTypeOK', [FeedStep]_feedVars
  PROVE  Ledgers'
<1> USE DEF time, candles, memory, alerts, bankroll, loops, history
<1>1. FeedTypeOK
  BY DEF FeedInv
<1>2. CASE \/ RefreshBegin \/ Rebuild \/ RebuildDone \/ RebuildEnd \/ FetchNothing \/ FirstBar
           \/ AppendBars \/ FeedNext \/ RefreshEnd \/ FeedDone \/ PaperEnd \/ NextCandle
           \/ HalfCandle
  <2>1. UNCHANGED <<bankroll, cortesNoPar, sinal>> /\ ~InPair /\ ~InPair'
    BY <1>2 DEF RefreshBegin, Rebuild, RebuildDone, RebuildEnd, FetchNothing, FirstBar,
       AppendBars, FeedNext, RefreshEnd, FeedDone, PaperEnd, NextCandle, HalfCandle, InPair
  <2> QED
    BY <2>1, LedgersOfRest
<1>3. CASE \/ Consume \/ EntryLate \/ EntryKnown \/ EntryAlert \/ Send \/ Confirm \/ TakeProfit
           \/ StillOpen \/ ExitAlert \/ \E k \in 1..N : Fetch(k) \/ FetchFallback(k)
  <2>1. UNCHANGED <<bankroll, cortesNoPar, sinal>>
    BY <1>3 DEF Consume, EntryLate, EntryKnown, EntryAlert, Send, Confirm, TakeProfit, StillOpen,
       ExitAlert, Fetch, FetchFallback, Brought
  <2>2. ~InPair /\ ~InPair'
    <3>1. CASE Send
      BY <1>1, <3>1 DEF Send, AfterSend, InPair, FeedTypeOK, Kinds
    <3>2. CASE ~Send
      BY <1>3, <3>2 DEF Consume, EntryLate, EntryKnown, EntryAlert, Confirm, TakeProfit,
         StillOpen, ExitAlert, Fetch, FetchFallback, Brought, AlertOnce, Visited, InPair
    <3> QED
      BY <3>1, <3>2
  <2> QED
    BY <2>1, <2>2, LedgersOfRest
<1>4. CASE EntryInsert \/ MarkSent \/ SaveTp1
  <2>1. UNCHANGED <<bankroll, cortesNoPar>> /\ ~InPair /\ ~InPair'
    BY <1>4 DEF EntryInsert, MarkSent, SaveTp1, InPair
  <2>2. \A t \in Trades : sinal'[t].status = "fechado" <=> sinal[t].status = "fechado"
    <3>1. CASE EntryInsert
      BY <1>1, <3>1, FeedTypesOf DEF EntryInsert, Signals
    <3>2. CASE MarkSent
      BY <1>1, <3>2, FeedTypesOf DEF MarkSent, Signals
    <3>3. CASE SaveTp1
      BY <1>1, <3>3, FeedTypesOf DEF SaveTp1, Signals
    <3> QED
      BY <1>4, <3>1, <3>2, <3>3
  <2> QED
    BY <2>1, <2>2, LedgersOfRest
<1>5. CASE \E t \in Trades : PaperNext(t)
  <2>1. PICK t \in Trades : PaperNext(t)
    BY <1>5
  <2>2. UNCHANGED <<bankroll, cortesNoPar>> /\ ~InPair /\ ~InPair'
    BY <2>1 DEF PaperNext, Visited, InPair
  <2>3. sinal[t].status = "aberto"
    BY <2>1, <2>2 DEF PaperNext, FeedInv, InHand
  <2>4. sinal' \in {sinal, [sinal EXCEPT ![t].status = "cancelado"]}
    BY <2>1 DEF PaperNext
  <2>5. \A u \in Trades : sinal'[u].status = "fechado" <=> sinal[u].status = "fechado"
    BY <1>1, <2>3, <2>4, FeedTypesOf DEF Signals
  <2> QED
    BY <2>2, <2>5, LedgersOfRest
<1>6. CASE UNCHANGED feedVars
  <2>1. /\ \A t \in Trades : Saved(t)' = Saved(t) /\ Held(t)' = Held(t) /\ (Booked(t)' <=> Booked(t))
        /\ UNCHANGED <<sinal, pc, alvo, carregada, cortesNoPar>>
    BY <1>6 DEF feedVars, Saved, Held, Booked
  <2>2. Broken' = Broken
    BY <2>1 DEF Broken, InPair
  <2>3. pc \in {"linha", "salvar"} => alvo \in Trades
    BY <1>1, FeedTypesOf DEF FeedInv, InHand, InPair
  <2> QED
    BY <2>1, <2>2, <2>3 DEF FeedInv, Ledgers
<1> QED
  BY <1>2, <1>3, <1>4, <1>5, <1>6, LedgersOfPair, LedgersOfCut DEF FeedStep, Refresh

-----------------------------------------------------------------------------
(* V1 decides first.                                                        *)

\* An entry stays opened.
LEMMA OpenedStays ==
  ASSUME FeedInv, [FeedStep]_feedVars, NEW t \in Trades
  PROVE  Opened(t) => Opened(t)'
<1> USE DEF time, candles, memory, alerts, bankroll, loops, history
<1>1. FeedTypeOK
  BY DEF FeedInv
<1>2. CASE UNCHANGED sinal
  BY <1>2 DEF Opened
<1>3. CASE EntryInsert
  BY <1>1, <1>3, FeedTypesOf DEF EntryInsert, Opened, Signals
<1>4. CASE MarkSent
  BY <1>1, <1>4, FeedTypesOf DEF MarkSent, Opened, Signals
<1>5. CASE SaveTp1
  BY <1>1, <1>5, FeedTypesOf DEF SaveTp1, Opened, Signals
<1>6. CASE Close
  BY <1>1, <1>6, FeedTypesOf DEF Close, Opened, Signals
<1>7. ASSUME NEW u \in Trades, PaperNext(u) PROVE Opened(t) => Opened(t)'
  <2>1. sinal' \in {sinal, [sinal EXCEPT ![u].status = "cancelado"]}
    BY <1>7 DEF PaperNext
  <2> QED
    BY <1>1, <2>1, FeedTypesOf DEF Opened, Signals
<1>8. \/ EntryInsert \/ MarkSent \/ SaveTp1 \/ Close \/ UNCHANGED sinal
      \/ \E u \in Trades : PaperNext(u)
  BY DEF FeedStep, Refresh, RefreshBegin, Rebuild, RebuildDone, RebuildEnd, FetchNothing,
     FirstBar, AppendBars, FeedNext, RefreshEnd, FeedDone, PaperEnd, NextCandle, HalfCandle,
     Consume, EntryLate, EntryKnown, EntryAlert, Send, Confirm, TakeProfit, StillOpen, ExitAlert,
     Fetch, FetchFallback, Brought, LedgerStep, LedgerLine, LedgerSave, RefreshRaises, Restart,
     Cut, feedVars
<1> QED
  BY <1>2, <1>3, <1>4, <1>5, <1>6, <1>7, <1>8

\* A decision about a frozen candle is not taken back.
LEMMA DecidedStays ==
  ASSUME FeedInv, [FeedStep]_feedVars, NEW c \in Int,
         c <= mercado \/ UNCHANGED time, Decided(c)
  PROVE  Decided(c)'
<1>1. Late(c) => Late(c)'
  <2>1. \/ UNCHANGED time \/ NextCandle \/ HalfCandle
    BY DEF FeedStep, Refresh, RefreshBegin, Rebuild, RebuildDone, RebuildEnd, FetchNothing,
       FirstBar, AppendBars, FeedNext, RefreshEnd, FeedDone, PaperEnd, Consume, EntryInsert,
       EntryLate, EntryKnown, EntryAlert, Send, MarkSent, Confirm, TakeProfit, SaveTp1,
       StillOpen, ExitAlert, Close, PaperNext, Fetch, FetchFallback, Brought, LedgerStep,
       LedgerLine, LedgerSave, RefreshRaises, Restart, Cut, feedVars
  <2>2. CASE UNCHANGED time
    BY <2>2 DEF time, Late
  <2>3. CASE NextCandle
    <3>1. mercado' = mercado + 1 /\ mercado \in Int /\ (c <= mercado \/ c < mercado)
      BY <2>3, FeedTypesOf DEF NextCandle, FeedInv, time
    <3> QED
      BY <3>1 DEF Late
  <2>4. CASE HalfCandle
    BY <2>4 DEF HalfCandle, Late
  <2> QED
    BY <2>1, <2>2, <2>3, <2>4
<1>2. <<"V1", c>> \in Trades => (Opened(<<"V1", c>>) => Opened(<<"V1", c>>)')
  BY OpenedStays
<1> QED
  BY <1>1, <1>2 DEF Decided

\* What keeps who decides, the detectors and the frozen candles.
LEMMA OrderOfRest ==
  ASSUME FeedInv, [FeedStep]_feedVars,
         UNCHANGED <<time, candles, feito, frescos, vez, fila, modo>>,
         \/ AtEntry /\ AtEntry' /\ pc # "entrada" /\ pc' # "entrada" /\ alvo' = alvo
         \/ AtEntry /\ pc' = "consumir" /\ alvo' = alvo /\ (pc = "entrada" => Decided(alvo[2])')
         \/ AtEntry /\ AtEntry' /\ pc' # "entrada" /\ alvo' = alvo /\ Decided(alvo[2])'
         \/ Following /\ Following'
  PROVE  Order'
<1>1. FeedTypeOK /\ Order
  BY DEF FeedInv
<1>2. \A c \in Int : Decided(c) => Decided(c)'
  BY DecidedStays
<1>3. Work' = Work /\ Work \subseteq Int /\ 1..barras \subseteq Int /\ Elems(frescos) \subseteq Int
  <2>1. frescos \in Seq(1..(2 * N)) /\ barras \in 0..N /\ N \in Nat
    BY <1>1, FeedTypesOf
  <2>2. 1..barras \subseteq Int
    BY <2>1
  <2>3. Elems(frescos) \subseteq Int
    BY <2>1 DEF Elems
  <2> QED
    BY <2>2, <2>3 DEF Work, candles
<1>4. /\ (Consuming /\ Consuming') \/ (Following /\ Following')
      /\ ~(Consuming' /\ Following') /\ pc' # "alimentar" /\ pc' # "livre" /\ pc # "livre"
  BY DEF Consuming, AtEntry, Following, AtPaper, InPair
<1>5. /\ UNCHANGED <<lbc, barras, feito, frescos, Now, fila, Partial>>
      /\ Rebuilding => Rebuilding'
  BY <1>4 DEF candles, Now, First, Rebuilding, Consuming, Following, AtEntry, AtPaper, InPair,
     Partial
<1>6. ("V1" \in Versions /\ "V2" \in feito => "V1" \in feito)'
  BY <1>1, <1>5 DEF Order
<1>7. (Partial => /\ lbc /\ barras \notin Baixos
                  /\ pc = "livre" \/ Rebuilding
                  /\ \A c \in 1..barras : Decided(c))'
  BY <1>1, <1>2, <1>3, <1>4, <1>5 DEF Order
<1>8. (Consuming =>
        /\ Elems(fila) \subseteq Work
        /\ AtEntry => alvo[2] \in Work
        /\ \A c \in Work : \/ Decided(c)
                           \/ Now = "V1" /\ (c \in Elems(fila) \/ (pc = "entrada" /\ c = alvo[2])))'
  <2>1. ASSUME Consuming'
        PROVE  /\ Consuming
               /\ AtEntry' => AtEntry /\ alvo' = alvo
               /\ alvo' = alvo /\ pc' # "entrada"
               /\ pc = "entrada" => Decided(alvo[2])'
    BY <2>1 DEF Consuming, AtEntry, Following, AtPaper, InPair
  <2>2. ASSUME Consuming', NEW c \in Work
        PROVE  Decided(c)' \/ (Now = "V1" /\ c \in Elems(fila))
    <3>1. c \in Int
      BY <1>3
    <3>2. CASE Decided(c)
      BY <1>2, <3>1, <3>2
    <3>3. CASE pc = "entrada" /\ c = alvo[2]
      BY <2>1, <2>2, <3>3
    <3>4. CASE Now = "V1" /\ c \in Elems(fila)
      BY <3>4
    <3> QED
      BY <1>1, <2>1, <2>2, <3>2, <3>3, <3>4 DEF Order
  <2> QED
    BY <1>1, <1>3, <1>5, <2>1, <2>2 DEF Order
<1>9. (Following \/ (pc = "alimentar" /\ vez # {} /\ "V1" \notin vez) =>
        \A c \in Elems(frescos) : Decided(c))'
  BY <1>1, <1>2, <1>3, <1>4, <1>5 DEF Order
<1> QED
  BY <1>6, <1>7, <1>8, <1>9 DEF Order

\* Steps of the candles that end outside the consuming of them.
LEMMA OrderOfCandles ==
  ASSUME FeedInv, [FeedStep]_feedVars,
         \/ RefreshBegin \/ RebuildEnd \/ FetchNothing \/ FirstBar \/ AppendBars \/ RefreshEnd
         \/ NextCandle \/ HalfCandle \/ RefreshRaises \/ Restart
         \/ \E k \in 1..N : Fetch(k) \/ FetchFallback(k)
  PROVE  Order'
<1> USE DEF time, candles, memory, alerts, bankroll, loops, history
<1>1. FeedTypeOK /\ Phases /\ Order /\ Versions \subseteq {"V1", "V2"}
  BY CandlesAssumption DEF FeedInv
<1>2. ~Consuming' /\ ~Following'
  <2>1. pc' \in {"livre", "refazer", "buscar", "primeiro", "gravar", "alimentar"}
    BY DEF RefreshBegin, RebuildEnd, FetchNothing, FirstBar, AppendBars, RefreshEnd, NextCandle,
       HalfCandle, RefreshRaises, Restart, Cut, Fetch, FetchFallback, Brought
  <2> QED
    BY <2>1 DEF Consuming, Following, AtEntry, AtPaper, InPair
<1>3. \A c \in 1..barras : c \in Int /\ (Decided(c) => Decided(c)')
  <2>1. \A c \in 1..barras : c \in Int /\ c <= mercado
    BY <1>1, FeedTypesOf DEF Phases
  <2> QED
    BY <2>1, DecidedStays
<1>4. CASE RefreshBegin \/ NextCandle \/ HalfCandle
  <2>1. UNCHANGED <<lbc, barras, feito>> /\ pc = "livre" /\ pc' \in {"livre", "refazer"}
    BY <1>4 DEF RefreshBegin, NextCandle, HalfCandle
  <2> QED
    BY <1>1, <1>2, <1>3, <2>1 DEF Order, Partial, Rebuilding
<1>5. CASE RefreshRaises
  <2>1. UNCHANGED <<lbc, barras, feito>> /\ pc' = "livre"
    BY <1>5 DEF RefreshRaises, Cut
  <2> QED
    BY <1>1, <1>2, <1>3, <2>1 DEF Order, Partial
<1>6. CASE Restart
  BY <1>2, <1>6 DEF Order, Partial, Restart, Cut
<1>7. CASE RebuildEnd
  <2>1. ~Partial
    BY <1>1, <1>7 DEF RebuildEnd, Phases, Order, Partial, Missing, Rebuilding, FeedTypeOK
  <2> QED
    BY <1>1, <1>2, <1>7, <2>1 DEF RebuildEnd, Order, Partial
<1>8. CASE FirstBar
  <2>1. feito = {}
    BY <1>1, <1>8 DEF FirstBar, Phases
  <2> QED
    BY <1>1, <1>2, <1>8, <2>1 DEF FirstBar, Order, Partial
<1>9. CASE \/ FetchNothing \/ AppendBars \/ RefreshEnd
           \/ \E k \in 1..N : Fetch(k) \/ FetchFallback(k)
  <2>1. /\ pc \in {"buscar", "gravar", "alimentar"} /\ feito' = feito
        /\ pc' = "alimentar" => vez' = feito
    BY <1>9 DEF FetchNothing, AppendBars, RefreshEnd, Fetch, FetchFallback, Brought
  <2>2. ~Partial
    BY <1>1, <2>1 DEF Order, Rebuilding, Consuming, AtEntry
  <2>3. pc' = "alimentar" /\ vez' # {} /\ "V1" \notin vez' => "V1" \notin Versions
    BY <1>1, <2>1, FeedTypesOf DEF Order
  <2>4. "V1" \notin Versions => \A c : Decided(c)'
    BY TradeParts DEF Decided
  <2>5. ~Partial' /\ ("V1" \in Versions /\ "V2" \in feito' => "V1" \in feito')
    BY <1>1, <2>1, <2>2 DEF Order, Partial
  <2> QED
    BY <1>2, <2>3, <2>4, <2>5 DEF Order
<1> QED
  BY <1>4, <1>5, <1>6, <1>7, <1>8, <1>9

LEMMA OrderOfConsuming ==
  ASSUME FeedInv, [FeedStep]_feedVars,
         Rebuild \/ RebuildDone \/ FeedNext \/ Consume \/ FeedDone \/ PaperEnd
  PROVE  Order'
<1> USE DEF time, candles, memory, alerts, bankroll, loops, history
<1>1. FeedTypeOK /\ Phases /\ Order /\ Versions \subseteq {"V1", "V2"}
  BY CandlesAssumption DEF FeedInv
<1>2. /\ UNCHANGED <<lbc, barras, frescos, mercado, meio>>
      /\ \A c \in 1..barras : c \in Int
      /\ \A c \in Elems(frescos) : c \in Int
  <2>1. frescos \in Seq(1..(2 * N)) /\ barras \in 0..N /\ N \in Nat
    BY <1>1, FeedTypesOf
  <2>2. UNCHANGED <<lbc, barras, frescos, mercado, meio>>
    BY DEF Rebuild, RebuildDone, FeedNext, Consume, FeedDone, PaperEnd
  <2> QED
    BY <2>1, <2>2 DEF Elems
<1>3. \A c \in Int : Decided(c) => Decided(c)'
  BY <1>2, DecidedStays
<1>4. vez # {} => Now \in vez /\ Now \in Versions
  BY <1>1, NowIsLeft
<1>5. CASE Rebuild
  <2>1. /\ pc = "refazer" /\ pc' = "consumir" /\ modo' = "refazer" /\ fila' = Run(1, barras)
        /\ UNCHANGED <<feito, vez>> /\ vez # {}
    BY <1>5 DEF Rebuild
  <2>2. Elems(fila') = 1..barras
    <3>1. Len(Run(1, barras)) = barras /\ Follows(Run(1, barras), 0) /\ barras \in Nat
      <4>1. barras \in Nat /\ 1 \in Nat \ {0} /\ 1 <= barras + 1 /\ barras <= N
            /\ barras - 1 + 1 = barras /\ 1 - 1 = 0
        BY <1>1, FeedTypesOf
      <4> QED
        BY <4>1, RunIs
    <3> QED
      BY <2>1, <3>1 DEF Elems, Follows
  <2>3. Work' = 1..barras /\ Now' = Now
    BY <1>2, <2>1 DEF Work, Now, First
  <2>4. "V1" \in feito \/ "V1" \notin Versions \/ Now = "V1"
    BY <1>1, <1>4, <2>1 DEF Phases, Rebuilding, Missing, Now, First
  <2>5. \A c \in 1..barras : Decided(c)' \/ Now = "V1"
    <3>1. CASE Now = "V1"
      BY <3>1
    <3>2. CASE "V1" \notin Versions
      BY <3>2, TradeParts DEF Decided
    <3>3. CASE "V1" \in feito /\ Now # "V1"
      <4>1. Partial
        BY <1>1, <1>4, <2>1, <3>3 DEF Partial, Phases, Rebuilding, Missing
      <4> QED
        BY <1>1, <1>2, <1>3, <4>1 DEF Order
    <3> QED
      BY <2>4, <3>1, <3>2, <3>3
  <2>6. (Partial => /\ lbc /\ barras \notin Baixos
                    /\ pc = "livre" \/ Rebuilding
                    /\ \A c \in 1..barras : Decided(c))'
    BY <1>1, <1>2, <1>3, <2>1 DEF Order, Partial, Rebuilding, Consuming
  <2>7. ~AtEntry' /\ ~Following' /\ pc' # "alimentar" /\ pc' # "entrada"
    BY <2>1 DEF AtEntry, Following, AtPaper, InPair
  <2> QED
    BY <1>1, <2>1, <2>2, <2>3, <2>5, <2>6, <2>7 DEF Order
<1>6. CASE RebuildDone
  <2>1. /\ pc = "consumir" /\ pc' = "refazer" /\ modo = "refazer" /\ fila = <<>>
        /\ feito' = feito \cup {Now} /\ Consuming /\ Rebuilding
    BY <1>6 DEF RebuildDone, Consuming, Rebuilding
  <2>2. vez # {} /\ vez = Versions \ feito /\ lbc /\ barras \notin Baixos
    BY <1>1, <2>1 DEF Phases, Missing
  <2>3. Now \in Versions \ feito /\ ("V1" \in Versions \ feito => Now = "V1")
    BY <1>4, <2>2 DEF Now, First
  <2>4. ("V1" \in Versions /\ "V2" \in feito => "V1" \in feito)'
    BY <1>1, <2>1, <2>3 DEF Order
  <2>5. Elems(fila) = {}
    BY <2>1 DEF Elems
  <2>6. \A c \in 1..barras : Decided(c)
    BY <1>1, <2>1, <2>5 DEF Order, Work
  <2>7. ~Consuming' /\ ~Following' /\ pc' # "alimentar" /\ Rebuilding'
    BY <2>1 DEF Consuming, AtEntry, Following, AtPaper, InPair, Rebuilding
  <2> QED
    BY <1>2, <1>3, <2>2, <2>4, <2>6, <2>7 DEF Order
<1>7. CASE FeedNext
  <2>1. /\ pc = "alimentar" /\ pc' = "consumir" /\ modo' = "alimentar" /\ fila' = frescos
        /\ UNCHANGED <<feito, vez>> /\ vez # {}
    BY <1>7 DEF FeedNext
  <2>2. ~Partial /\ ~Partial'
    BY <1>1, <2>1 DEF Order, Partial, Rebuilding, Consuming, AtEntry
  <2>3. Work' = Elems(frescos) /\ Elems(fila') = Elems(frescos) /\ Now' = Now
    BY <1>2, <2>1 DEF Work, Now, First
  <2>4. \A c \in Elems(frescos) : Decided(c)' \/ Now = "V1"
    BY <1>1, <1>2, <1>3, <2>1 DEF Order, Now, First
  <2>5. ~AtEntry' /\ ~Following' /\ pc' # "alimentar" /\ pc' # "entrada"
    BY <2>1 DEF AtEntry, Following, AtPaper, InPair
  <2> QED
    BY <1>1, <2>1, <2>2, <2>3, <2>4, <2>5 DEF Order
<1>8. CASE Consume
  <2>1. /\ pc = "consumir" /\ fila # <<>> /\ fila' = Tail(fila)
        /\ UNCHANGED <<feito, vez, modo>>
        /\ \/ /\ pc' = "entrada" /\ alvo' = <<Now, Head(fila)>>
           \/ /\ pc' = "consumir"
              /\ ~(<<Now, Head(fila)>> \in Trades /\ Head(fila) >= Admissao)
    BY <1>8 DEF Consume
  <2>2. Elems(fila) = Elems(fila') \cup {Head(fila)}
    BY <1>1, <2>1, FeedTypesOf, TailElems
  <2>3. Work' = Work /\ Now' = Now /\ Consuming /\ Consuming' /\ (Rebuilding => Rebuilding')
    BY <1>2, <2>1 DEF Work, Now, First, Consuming, AtEntry, Rebuilding
  <2>4. Work \subseteq Int
    BY <1>2 DEF Work
  <2>5. ASSUME NEW c \in Work
        PROVE  Decided(c)' \/ /\ Now = "V1"
                              /\ c \in Elems(fila') \/ (pc' = "entrada" /\ c = alvo'[2])
    <3>1. CASE Decided(c)
      BY <1>3, <2>4, <3>1
    <3>2. CASE Now = "V1" /\ c \in Elems(fila')
      BY <3>2
    <3>3. CASE Now = "V1" /\ c = Head(fila)
      <4>1. CASE pc' = "entrada"
        BY <2>1, <3>3, <4>1
      <4>2. CASE pc' # "entrada"
        <5>1. ~(<<"V1", c>> \in Trades /\ c >= Admissao)
          BY <2>1, <3>3, <4>2
        <5> QED
          BY <5>1 DEF Decided
      <4> QED
        BY <4>1, <4>2
    <3>4. \/ Decided(c)
          \/ Now = "V1" /\ c \in Elems(fila)
      BY <1>1, <2>1, <2>3 DEF Order
    <3> QED
      BY <2>2, <3>1, <3>2, <3>3, <3>4
  <2>6. AtEntry' => alvo'[2] \in Work
    <3>1. AtEntry' => pc' = "entrada"
      BY <2>1 DEF AtEntry
    <3>2. Head(fila) \in Work
      BY <1>1, <2>2, <2>3 DEF Order
    <3> QED
      BY <2>1, <3>1, <3>2
  <2>7. (Partial => /\ lbc /\ barras \notin Baixos
                    /\ pc = "livre" \/ Rebuilding
                    /\ \A c \in 1..barras : Decided(c))'
    BY <1>1, <1>2, <1>3, <2>1, <2>3 DEF Order, Partial
  <2>8. ~Following' /\ pc' # "alimentar"
    BY <2>1 DEF Following, AtPaper, InPair
  <2> QED
    BY <1>1, <2>1, <2>2, <2>3, <2>5, <2>6, <2>7, <2>8 DEF Order
<1>9. CASE FeedDone \/ PaperEnd
  <2>1. /\ pc' \in {"papel", "alimentar"} /\ UNCHANGED feito
        /\ \/ pc = "consumir" /\ fila = <<>> /\ modo = "alimentar"
           \/ pc = "papel"
    BY <1>9 DEF FeedDone, PaperEnd
  <2>2. ~Partial /\ ~Partial'
    BY <1>1, <2>1 DEF Order, Partial, Rebuilding, Consuming, AtEntry
  <2>3. \A c \in Elems(frescos) : Decided(c)
    <3>1. CASE pc = "papel"
      BY <1>1, <3>1 DEF Order, Following
    <3>2. CASE pc = "consumir"
      <4>1. Elems(fila) = {} /\ Work = Elems(frescos) /\ Consuming
        BY <2>1, <3>2 DEF Elems, Work, Consuming
      <4> QED
        BY <1>1, <3>2, <4>1 DEF Order
    <3> QED
      BY <2>1, <3>1, <3>2
  <2>4. ~Consuming'
    BY <2>1 DEF Consuming, AtEntry
  <2> QED
    BY <1>1, <1>2, <1>3, <2>1, <2>2, <2>3, <2>4 DEF Order
<1> QED
  BY <1>5, <1>6, <1>7, <1>8, <1>9

LEMMA OrderKept ==
  ASSUME FeedInv, [FeedStep]_feedVars
  PROVE  Order'
<1> USE DEF time, candles, memory, alerts, bankroll, loops, history
<1>1. FeedTypeOK /\ Phases /\ InHand /\ Order
  BY DEF FeedInv
<1>2. CASE EntryLate \/ EntryInsert \/ EntryKnown
  <2>1. /\ pc = "entrada" /\ AtEntry /\ alvo' = alvo
        /\ UNCHANGED <<time, candles, feito, frescos, vez, fila, modo>>
        /\ AtEntry' \/ pc' = "consumir"
        /\ pc' \in {"avisar", "consumir"}
    BY <1>2 DEF EntryLate, EntryInsert, EntryKnown, AtEntry
  <2>2. Decided(alvo[2])'
    <3>1. alvo \in Trades /\ alvo[1] = Now
      BY <1>1, <2>1 DEF InHand
    <3>2. CASE alvo[1] = "V1"
      <4>1. alvo = <<"V1", alvo[2]>>
        BY <3>1, <3>2, TradeParts
      <4>2. Late(alvo[2])' \/ Opened(alvo)'
        <5>1. CASE EntryLate
          BY <5>1 DEF EntryLate, Late
        <5>2. CASE EntryInsert
          BY <1>1, <3>1, <5>2, FeedTypesOf DEF EntryInsert, Opened, Signals
        <5>3. CASE EntryKnown
          BY <5>3 DEF EntryKnown, Opened
        <5> QED
          BY <1>2, <5>1, <5>2, <5>3
      <4> QED
        BY <2>1, <4>1, <4>2 DEF Decided
    <3>3. CASE alvo[1] # "V1"
      <4>1. alvo[2] \in Work /\ Consuming
        BY <1>1, <2>1 DEF Order, Consuming
      <4>2. Decided(alvo[2])
        BY <1>1, <2>1, <3>1, <3>3, <4>1 DEF Order
      <4>3. alvo[2] \in Int
        BY <3>1, TradeParts
      <4> QED
        BY <2>1, <4>2, <4>3, DecidedStays
    <3> QED
      BY <3>2, <3>3
  <2> QED
    BY <2>1, <2>2, OrderOfRest DEF AtEntry
<1>3. CASE EntryAlert \/ MarkSent \/ (Send /\ aviso = "e")
  <2>1. /\ AtEntry /\ pc # "entrada" /\ alvo' = alvo /\ pc' # "entrada"
        /\ AtEntry' \/ pc' = "consumir"
        /\ UNCHANGED <<time, candles, feito, frescos, vez, fila, modo>>
    BY <1>3 DEF AtEntry, EntryAlert, MarkSent, Send, AlertOnce, AfterSend
  <2> QED
    BY <2>1, OrderOfRest
<1>4. CASE \/ Confirm \/ TakeProfit \/ SaveTp1 \/ StillOpen \/ ExitAlert \/ Close \/ LedgerStep
           \/ LedgerLine \/ LedgerSave \/ (Send /\ aviso # "e") \/ \E t \in Trades : PaperNext(t)
  <2>1. /\ Following /\ Following'
        /\ UNCHANGED <<time, candles, feito, frescos, vez, fila, modo>>
    BY <1>1, <1>4 DEF Following, AtPaper, InPair, Confirm, TakeProfit, SaveTp1, StillOpen,
       ExitAlert, Close, LedgerStep, LedgerLine, LedgerSave, Send, PaperNext, Visited, AlertOnce,
       AfterSend, FeedTypeOK, Kinds
  <2> QED
    BY <2>1, OrderOfRest
<1>5. CASE UNCHANGED feedVars
  BY <1>1, <1>5 DEF feedVars, Order, Partial, Rebuilding, Consuming, Following, AtEntry, AtPaper,
     InPair, Work, Now, First, Decided, Opened, Late
<1> QED
  BY <1>2, <1>3, <1>4, <1>5, OrderOfCandles, OrderOfConsuming DEF FeedStep, Refresh

\* A trade of V2 beside an entry of V1 is merged with it.
LEMMA MergedKept ==
  ASSUME FeedInv, [FeedStep]_feedVars
  PROVE  Merged'
<1> USE DEF time, candles, memory, alerts, bankroll, loops, history
<1>1. FeedTypeOK /\ InHand /\ Order /\ Merged
  BY DEF FeedInv
<1>2. CASE UNCHANGED sinal
  BY <1>1, <1>2 DEF Merged, Opened
<1>3. ASSUME \A t \in Trades : (Opened(t)' => Opened(t)) /\ sinal'[t].so = sinal[t].so
      PROVE  Merged'
  <2>1. \A t \in Trades : Opened(t) => Opened(t)'
    BY OpenedStays
  <2>2. \A t \in Trades : ~Main(t) => <<"V1", t[2]>> \in Trades
    BY DEF Main
  <2> QED
    BY <1>1, <1>3, <2>1, <2>2 DEF Merged
<1>4. CASE EntryInsert
  <2>1. /\ pc = "entrada" /\ AtEntry /\ alvo \in Trades /\ alvo[1] = Now /\ alvo[2] >= Admissao
        /\ ~Late(alvo[2])
    BY <1>1, <1>4 DEF EntryInsert, AtEntry, InHand
  <2>2. /\ \A t \in Trades : t # alvo => sinal'[t] = sinal[t]
        /\ sinal'[alvo].so = AloneAt(alvo)
    BY <1>1, <1>4, <2>1, FeedTypesOf DEF EntryInsert, Signals
  <2>3. \A t \in Trades : Opened(t) => Opened(t)'
    BY OpenedStays
  <2>4. ASSUME ~Main(alvo)
        PROVE  Opened(<<"V1", alvo[2]>>) /\ <<"V1", alvo[2]>> \in Trades /\ ~AloneAt(alvo)
    <3>1. alvo[1] # "V1" /\ <<"V1", alvo[2]>> \in Trades
      BY <2>4 DEF Main
    <3>2. alvo[2] \in Work /\ Consuming
      BY <1>1, <2>1 DEF Order, Consuming
    <3>3. Decided(alvo[2])
      BY <1>1, <2>1, <3>1, <3>2 DEF Order
    <3>4. Opened(<<"V1", alvo[2]>>)
      BY <2>1, <3>1, <3>3 DEF Decided
    <3> QED
      BY <3>1, <3>4 DEF AloneAt, Opened
  <2>5. ASSUME NEW t \in Trades, Opened(t)', ~Main(t)
        PROVE  Opened(<<"V1", t[2]>>)' /\ ~sinal'[t].so
    <3>1. CASE t = alvo
      BY <2>2, <2>3, <2>4, <2>5, <3>1
    <3>2. CASE t # alvo
      <4>1. Opened(t)
        BY <2>2, <2>5, <3>2 DEF Opened
      <4>2. <<"V1", t[2]>> \in Trades
        BY <2>5 DEF Main
      <4> QED
        BY <1>1, <2>2, <2>3, <2>5, <3>2, <4>1, <4>2 DEF Merged
    <3> QED
      BY <3>1, <3>2
  <2> QED
    BY <2>5 DEF Merged
<1>5. CASE MarkSent \/ SaveTp1 \/ Close
  <2>1. \A t \in Trades : (Opened(t)' => Opened(t)) /\ sinal'[t].so = sinal[t].so
    <3>1. CASE MarkSent
      BY <1>1, <3>1, FeedTypesOf DEF MarkSent, Opened, Signals
    <3>2. CASE SaveTp1
      BY <1>1, <3>2, FeedTypesOf DEF SaveTp1, Opened, Signals
    <3>3. CASE Close
      <4>1. sinal[alvo].status = "aberto"
        BY <1>1, <3>3 DEF Close, InHand, AtPaper
      <4> QED
        BY <1>1, <3>3, <4>1, FeedTypesOf DEF Close, Opened, Signals
    <3> QED
      BY <1>5, <3>1, <3>2, <3>3
  <2> QED
    BY <1>3, <2>1
<1>6. CASE \E t \in Trades : PaperNext(t)
  <2>1. PICK t \in Trades : PaperNext(t)
    BY <1>6
  <2>2. sinal[t].status = "aberto"
    BY <1>1, <2>1 DEF PaperNext, InHand, InPair
  <2>3. sinal' \in {sinal, [sinal EXCEPT ![t].status = "cancelado"]}
    BY <2>1 DEF PaperNext
  <2>4. \A u \in Trades : (Opened(u)' => Opened(u)) /\ sinal'[u].so = sinal[u].so
    BY <1>1, <2>2, <2>3, FeedTypesOf DEF Opened, Signals
  <2> QED
    BY <1>3, <2>4
<1>7. \/ EntryInsert \/ MarkSent \/ SaveTp1 \/ Close \/ UNCHANGED sinal
      \/ \E t \in Trades : PaperNext(t)
  BY DEF FeedStep, Refresh, RefreshBegin, Rebuild, RebuildDone, RebuildEnd, FetchNothing,
     FirstBar, AppendBars, FeedNext, RefreshEnd, FeedDone, PaperEnd, NextCandle, HalfCandle,
     Consume, EntryLate, EntryKnown, EntryAlert, Send, Confirm, TakeProfit, StillOpen, ExitAlert,
     Fetch, FetchFallback, Brought, LedgerStep, LedgerLine, LedgerSave, RefreshRaises, Restart,
     Cut, feedVars
<1> QED
  BY <1>2, <1>4, <1>5, <1>6, <1>7

-----------------------------------------------------------------------------
(* The alerts.                                                              *)

\* What sends nothing, and does not come to a send.
LEMMA KeyedOfRest ==
  ASSUME FeedInv, UNCHANGED alerts, pc' # "enviar"
  PROVE  Keyed'
BY DEF FeedInv, Keyed, alerts

\* One trade of a decision sends full alerts.
LEMMA OneMain ==
  ASSUME NEW t \in Trades, NEW u \in Trades, Main(t), Main(u), t[2] = u[2]
  PROVE  t = u
BY TradeParts DEF Main

\* An alert is keyed before it is sent.
LEMMA KeyedOfAlert ==
  ASSUME FeedInv, NEW kind \in Kinds, NEW senao \in {"consumir", "tp1", "gravar_tp1", "fechar"},
         AlertOnce(kind, senao), UNCHANGED <<enviados, alvo, sinal>>,
         kind \in {"tp1", "x"} => sinal[alvo].so
  PROVE  Keyed'
<1>1. Keyed
  BY DEF FeedInv
<1>2. CASE <<kind, alvo>> \in chaves
  BY <1>1, <1>2 DEF Keyed, AlertOnce
<1>3. CASE <<kind, alvo>> \notin chaves
  <2>1. /\ pc' = "enviar" /\ aviso' = kind /\ chaves' = chaves \cup {<<kind, alvo>>}
    BY <1>3 DEF AlertOnce
  <2> QED
    BY <1>1, <1>3, <2>1 DEF Keyed
<1> QED
  BY <1>2, <1>3

LEMMA KeyedOfSend ==
  ASSUME FeedInv, FeedTypeOK', Send
  PROVE  Keyed'
<1> USE DEF time, candles, memory, alerts, bankroll, loops, history
<1>1. FeedTypeOK /\ InHand /\ Merged /\ Keyed
  BY DEF FeedInv
<1>2. /\ pc = "enviar" /\ pc' # "enviar" /\ UNCHANGED chaves /\ aviso \in Kinds
      /\ enviados \in [Kinds \X (1..N) -> Nat]
  BY <1>1 DEF Send, AfterSend, FeedTypeOK, Kinds
<1>3. alvo \in Trades /\ Opened(alvo) /\ <<aviso, alvo>> \in chaves
  <2>1. CASE aviso = "e"
    BY <1>1, <1>2, <2>1 DEF InHand, AtEntry, Keyed
  <2>2. CASE aviso # "e"
    BY <1>1, <1>2, <2>2, FeedTypesOf DEF InHand, AtPaper, Keyed, Opened
  <2> QED
    BY <2>1, <2>2
<1>4. CASE enviados' = enviados
  BY <1>1, <1>2, <1>4 DEF Keyed
<1>5. CASE IsFull /\ enviados' = [enviados EXCEPT ![<<aviso, alvo[2]>>] = @ + 1]
  <2>1. Main(alvo)
    <3>1. CASE aviso \in {"tp1", "x"}
      BY <1>1, <1>2, <1>3, <3>1 DEF Keyed, Merged
    <3>2. CASE aviso = "e" /\ AloneAt(alvo)
      <4>1. ~Main(alvo) => Opened(<<"V1", alvo[2]>>)
        BY <1>1, <1>3 DEF Merged
      <4> QED
        BY <3>2, <4>1 DEF AloneAt, Main, Opened
    <3> QED
      BY <1>5, <3>1, <3>2 DEF IsFull
  <2>2. alvo[2] \in 1..N
    BY <1>3, TradeParts
  <2>3. enviados[<<aviso, alvo[2]>>] # 1
    <3>1. ASSUME NEW t \in Trades, t[2] = alvo[2], Main(t)
          PROVE  t = alvo
      BY <1>3, <2>1, <3>1, OneMain
    <3> QED
      BY <1>1, <1>2, <2>2, <3>1 DEF Keyed
  <2>4. enviados[<<aviso, alvo[2]>>] = 0
    <3>1. enviados[<<aviso, alvo[2]>>] \in Nat /\ enviados[<<aviso, alvo[2]>>] <= 1
      BY <1>1, <1>2, <2>2 DEF Keyed
    <3> QED
      BY <2>3, <3>1
  <2>5. ASSUME NEW k \in Kinds, NEW c \in 1..N
        PROVE  /\ enviados'[<<k, c>>] <= 1
               /\ enviados'[<<k, c>>] = 1 =>
                     \E t \in Trades : t[2] = c /\ Main(t) /\ <<k, t>> \in chaves
    <3>1. CASE k = aviso /\ c = alvo[2]
      <4>1. enviados'[<<k, c>>] = 1
        BY <1>2, <1>5, <2>2, <2>4, <3>1
      <4> QED
        BY <1>3, <2>1, <3>1, <4>1
    <3>2. CASE ~(k = aviso /\ c = alvo[2])
      <4>1. enviados'[<<k, c>>] = enviados[<<k, c>>]
        BY <1>2, <1>5, <2>2, <3>2
      <4> QED
        BY <1>1, <4>1 DEF Keyed
    <3> QED
      BY <3>1, <3>2
  <2> QED
    BY <1>2, <2>5 DEF Keyed
<1> QED
  BY <1>4, <1>5 DEF Send

LEMMA KeyedKept ==
  ASSUME FeedInv, FeedTypeOK', [FeedStep]_feedVars
  PROVE  Keyed'
<1> USE DEF time, candles, memory, alerts, bankroll, loops, history
<1>1. CASE EntryAlert
  <2>1. UNCHANGED <<enviados, alvo, sinal>> /\ "e" \in Kinds
    BY <1>1 DEF EntryAlert, Kinds
  <2>2. CASE sinal[alvo].msg \/ Late(alvo[2])
    BY <1>1, <2>2, KeyedOfRest DEF EntryAlert
  <2>3. CASE ~(sinal[alvo].msg \/ Late(alvo[2]))
    BY <1>1, <2>1, <2>3, KeyedOfAlert DEF EntryAlert
  <2> QED
    BY <2>2, <2>3
<1>2. CASE Confirm
  <2>1. UNCHANGED <<enviados, alvo, sinal>> /\ "confirma" \in Kinds
    BY <1>2 DEF Confirm, Kinds
  <2>2. CASE ~sinal[alvo].msg
    BY <1>2, <2>2, KeyedOfRest DEF Confirm
  <2>3. CASE sinal[alvo].msg
    BY <1>2, <2>1, <2>3, KeyedOfAlert DEF Confirm
  <2> QED
    BY <2>2, <2>3
<1>3. CASE TakeProfit
  <2>1. UNCHANGED <<enviados, alvo, sinal>> /\ "tp1" \in Kinds
    BY <1>3 DEF TakeProfit, Kinds
  <2>2. \/ UNCHANGED alerts /\ pc' # "enviar"
        \/ AlertOnce("tp1", "gravar_tp1") /\ sinal[alvo].so
    BY <1>3, <2>1 DEF TakeProfit, MayAlert
  <2> QED
    BY <2>1, <2>2, KeyedOfRest, KeyedOfAlert
<1>4. CASE ExitAlert
  <2>1. UNCHANGED <<enviados, alvo, sinal>> /\ "x" \in Kinds
    BY <1>4 DEF ExitAlert, Kinds
  <2>2. \/ UNCHANGED alerts /\ pc' # "enviar"
        \/ AlertOnce("x", "fechar") /\ sinal[alvo].so
    BY <1>4, <2>1 DEF ExitAlert, MayAlert
  <2> QED
    BY <2>1, <2>2, KeyedOfRest, KeyedOfAlert
<1>5. CASE UNCHANGED feedVars
  BY <1>5 DEF FeedInv, Keyed, feedVars
<1>6. CASE \/ RefreshBegin \/ Rebuild \/ RebuildDone \/ RebuildEnd \/ FetchNothing \/ FirstBar
           \/ AppendBars \/ FeedNext \/ RefreshEnd \/ FeedDone \/ PaperEnd
           \/ Consume \/ EntryLate \/ EntryKnown \/ EntryInsert \/ MarkSent \/ SaveTp1
           \/ StillOpen \/ Close \/ LedgerStep \/ LedgerLine \/ LedgerSave
           \/ (\E t \in Trades : PaperNext(t)) \/ \E k \in 1..N : Fetch(k) \/ FetchFallback(k)
  <2>1. UNCHANGED alerts /\ pc' # "enviar"
    BY <1>6 DEF RefreshBegin, Rebuild, RebuildDone, RebuildEnd, FetchNothing,
     FirstBar, AppendBars, FeedNext, RefreshEnd, FeedDone, PaperEnd,
     Consume, EntryLate, EntryKnown, EntryInsert, MarkSent, SaveTp1, StillOpen, Close,
     LedgerStep, LedgerLine, LedgerSave, PaperNext, Visited, Fetch, FetchFallback, Brought
  <2> QED
    BY <2>1, KeyedOfRest
<1>7. CASE NextCandle \/ HalfCandle \/ RefreshRaises \/ Restart
  <2>1. UNCHANGED alerts /\ pc' # "enviar"
    BY <1>7 DEF NextCandle, HalfCandle, RefreshRaises, Restart, Cut
  <2> QED
    BY <2>1, KeyedOfRest
<1> QED
  BY <1>1, <1>2, <1>3, <1>4, <1>5, <1>6, <1>7, KeyedOfSend DEF FeedStep, Refresh

-----------------------------------------------------------------------------
(* The candles a detector has.                                              *)

LEMMA FollowsAppend ==
  ASSUME NEW X, NEW s \in Seq(X), NEW q \in Seq(X), Numbered(s), q # <<>>, Follows(q, Len(s))
  PROVE  /\ Head(q) = Len(s) + 1
         /\ Numbered(Append(s, Head(q))) /\ Len(Append(s, Head(q))) = Len(s) + 1
         /\ Len(Tail(q)) = Len(q) - 1 /\ Follows(Tail(q), Len(s) + 1)
<1>1. /\ Len(q) \in Nat \ {0} /\ Len(s) \in Nat
      /\ Head(q) = q[1] /\ Len(Tail(q)) = Len(q) - 1
      /\ \A i \in 1..(Len(q) - 1) : Tail(q)[i] = q[i + 1]
      /\ Len(Append(s, Head(q))) = Len(s) + 1
      /\ \A i \in 1..Len(s) : Append(s, Head(q))[i] = s[i]
      /\ Append(s, Head(q))[Len(s) + 1] = Head(q)
  OBVIOUS
<1>2. Head(q) = Len(s) + 1
  BY <1>1 DEF Follows
<1>3. Numbered(Append(s, Head(q)))
  <2>1. \A i \in 1..(Len(s) + 1) : i \in 1..Len(s) \/ i = Len(s) + 1
    BY <1>1
  <2> QED
    BY <1>1, <1>2, <2>1 DEF Numbered
<1>4. Follows(Tail(q), Len(s) + 1)
  <2>1. ASSUME NEW i \in 1..(Len(q) - 1)
        PROVE  Tail(q)[i] = Len(s) + 1 + i
    <3>1. i + 1 \in 1..Len(q) /\ Len(s) + (i + 1) = Len(s) + 1 + i
      BY <1>1
    <3> QED
      BY <1>1, <3>1 DEF Follows
  <2> QED
    BY <1>1, <2>1 DEF Follows
<1> QED
  BY <1>1, <1>2, <1>3, <1>4

\* An undisturbed detector is not behind the frozen candles.
LEMMA LastBarIs ==
  ASSUME FeedInv, pc = "buscar", ~falhou, feito # {} \/ ~lbc
  PROVE  LastBar = barras
<1>1. FeedTypeOK /\ Phases /\ Counting
  BY DEF FeedInv
<1>2. barras \in 0..N /\ feito \subseteq Versions /\ \A v \in feito : visto[v] \in Seq(1..(2 * N))
  BY <1>1, FeedTypesOf
<1>3. CASE ~lbc
  <2>1. feito = {} /\ barras = 0
    BY <1>1, <1>3 DEF Phases
  <2> QED
    BY <2>1 DEF LastBar
<1>4. CASE feito # {}
  <2>1. ~Feeds
    BY DEF Feeds, Consuming, Following, AtEntry, AtPaper, InPair
  <2>2. \A v \in feito : Len(visto[v]) = barras /\ Numbered(visto[v])
    BY <1>1, <2>1 DEF Counting
  <2> DEFINE com == {v \in feito : visto[v] # <<>>}
  <2>3. CASE barras = 0
    <3>1. com = {}
      BY <1>2, <2>2, <2>3
    <3> QED
      BY <2>3, <3>1 DEF LastBar
  <2>4. CASE barras # 0
    <3>1. com = feito
      BY <1>2, <2>2, <2>4
    <3>2. First(com) \in feito
      BY <1>2, <1>4, <3>1, CandlesAssumption DEF First
    <3>3. Newest(visto[First(com)]) = barras
      BY <1>2, <2>2, <2>4, <3>2 DEF Newest, Numbered
    <3> QED
      BY <1>2, <1>4, <3>1, <3>3, CandlesAssumption DEF LastBar
  <2> QED
    BY <2>3, <2>4
<1> QED
  BY <1>3, <1>4

\* What keeps the candles, the detectors and the place in the refresh.
LEMMA CountingOfRest ==
  ASSUME FeedInv,
         UNCHANGED <<barras, lbc, feito, visto, frescos, vez, fila, modo, falhou, jaFalhou>>,
         Feeds' <=> Feeds, Consuming' <=> Consuming, Following' <=> Following,
         pc' \notin {"primeiro", "gravar", "entrada"}, pc = "alimentar" <=> pc' = "alimentar",
         \A t \in Trades : Opened(t)' => Opened(t) /\ sinal'[t].idx = sinal[t].idx
  PROVE  Counting'
<1>1. Now' = Now /\ Counting
  BY DEF Now, First, FeedInv
<1> QED
  BY <1>1 DEF Counting

LEMMA CountingOfCandles ==
  ASSUME FeedInv,
         \/ RefreshBegin \/ RebuildEnd \/ FetchNothing \/ FirstBar \/ AppendBars \/ RefreshEnd
         \/ NextCandle \/ HalfCandle \/ RefreshRaises \/ Restart
         \/ \E k \in 1..N : Fetch(k) \/ FetchFallback(k)
  PROVE  Counting'
<1> USE DEF time, candles, memory, alerts, bankroll, loops, history
<1>1. FeedTypeOK /\ Phases /\ Counting
  BY DEF FeedInv
<1>2. /\ ~Consuming' /\ ~Following' /\ (Feeds' <=> pc' = "alimentar") /\ pc' # "entrada"
      /\ pc' \in {"livre", "refazer", "buscar", "primeiro", "gravar", "alimentar"}
      /\ UNCHANGED sinal
  <2>1. /\ pc' \in {"livre", "refazer", "buscar", "primeiro", "gravar", "alimentar"}
        /\ UNCHANGED sinal
    BY DEF RefreshBegin, RebuildEnd, FetchNothing, FirstBar, AppendBars, RefreshEnd, NextCandle,
       HalfCandle, RefreshRaises, Restart, Cut, Fetch, FetchFallback, Brought
  <2> QED
    BY <2>1 DEF Consuming, Following, AtEntry, AtPaper, InPair, Feeds
<1>3. \A t \in Trades : Opened(t)' <=> Opened(t)
  BY <1>2 DEF Opened
<1>4. CASE RefreshBegin \/ RebuildEnd \/ FetchNothing \/ RefreshEnd \/ NextCandle \/ HalfCandle
  <2>1. /\ UNCHANGED <<barras, lbc, feito, visto, falhou, jaFalhou>>
        /\ ~Feeds \/ (pc = "alimentar" /\ vez = {})
        /\ pc' \in {"livre", "refazer", "buscar"}
    BY <1>4 DEF RefreshBegin, RebuildEnd, FetchNothing, RefreshEnd, NextCandle, HalfCandle, Feeds,
       Consuming, Following, AtEntry, AtPaper, InPair
  <2> QED
    BY <1>1, <1>2, <1>3, <2>1 DEF Counting
<1>5. CASE RefreshRaises
  <2>1. /\ pc' = "livre" /\ UNCHANGED <<barras, lbc, feito>>
        /\ falhou' = (falhou \/ Feeding) /\ jaFalhou' = (jaFalhou \/ Feeding)
        /\ \A v \in feito : v \in Versions => visto'[v] = visto[v]
    BY <1>5 DEF RefreshRaises, Cut
  <2>2. Feeds => Feeding
    BY <1>1 DEF Phases, Feeds, Feeding, Consuming, Following, AtEntry, AtPaper, InPair
  <2>3. feito \subseteq Versions
    BY <1>1, FeedTypesOf
  <2> QED
    BY <1>1, <1>2, <1>3, <2>1, <2>2, <2>3 DEF Counting
<1>6. CASE Restart
  <2>1. pc' = "livre" /\ feito' = {} /\ falhou' = FALSE /\ jaFalhou' = jaFalhou
    BY <1>6 DEF Restart, Cut
  <2> QED
    BY <1>1, <1>2, <1>3, <2>1 DEF Counting
<1>7. ASSUME NEW k \in 1..N, Fetch(k) \/ FetchFallback(k)
      PROVE  Counting'
  <2>1. /\ pc = "buscar" /\ pc' \in {"primeiro", "gravar"} /\ ~Feeds
        /\ UNCHANGED <<barras, lbc, feito, visto, falhou, jaFalhou>>
    BY <1>7 DEF Fetch, FetchFallback, Brought, Feeds, Consuming, Following, AtEntry, AtPaper, InPair
  <2>2. ASSUME ~falhou, feito # {} \/ ~lbc
        PROVE  Follows(frescos', barras)
    <3>1. LastBar = barras
      BY <2>1, <2>2, LastBarIs
    <3>2. Fetch(k)
      BY <1>1, <1>7, <3>1, FeedTypesOf DEF FetchFallback
    <3> QED
      BY <3>1, <3>2, FetchTypes
  <2> QED
    BY <1>1, <1>2, <1>3, <2>1, <2>2 DEF Counting
<1>8. CASE FirstBar
  <2>1. /\ pc = "primeiro" /\ pc' = "gravar" /\ ~lbc /\ feito = {} /\ barras = 0
        /\ feito' \subseteq Versions
        /\ UNCHANGED <<barras, visto, frescos, falhou, jaFalhou>>
        /\ \A v \in Versions : visto[v] = <<>>
    BY <1>1, <1>8 DEF FirstBar, Phases
  <2>2. \A v \in feito' : Len(visto[v]) = 0 /\ Numbered(visto[v])
    BY <2>1 DEF Numbered
  <2> QED
    BY <1>1, <1>2, <1>3, <2>1, <2>2 DEF Counting
<1>9. CASE AppendBars
  <2>1. /\ pc = "gravar" /\ pc' = "alimentar" /\ ~Feeds /\ vez' = feito
        /\ barras' = IF Newest(frescos) > barras THEN Newest(frescos) ELSE barras
        /\ UNCHANGED <<feito, visto, frescos, falhou, jaFalhou>>
    BY <1>9 DEF AppendBars, Feeds, Consuming, Following, AtEntry, AtPaper, InPair
  <2>2. ASSUME ~falhou, NEW v \in feito
        PROVE  Len(visto[v]) + Len(frescos) = barras' /\ Follows(frescos, Len(visto[v]))
    <3>1. Len(visto[v]) = barras /\ Follows(frescos, barras)
      BY <1>1, <2>1, <2>2 DEF Counting
    <3>2. frescos # <<>> /\ frescos \in Seq(1..(2 * N)) /\ barras \in Nat
      BY <1>1, <2>1, FeedTypesOf DEF Phases
    <3>3. Newest(frescos) = barras + Len(frescos) /\ Len(frescos) \in Nat \ {0}
      BY <3>1, <3>2 DEF Newest, Follows
    <3> QED
      BY <2>1, <3>1, <3>2, <3>3
  <2> QED
    BY <1>1, <1>2, <1>3, <2>1, <2>2 DEF Counting
<1> QED
  BY <1>4, <1>5, <1>6, <1>7, <1>8, <1>9

LEMMA CountingOfConsuming ==
  ASSUME FeedInv,
         Rebuild \/ RebuildDone \/ FeedNext \/ Consume \/ FeedDone \/ PaperEnd
  PROVE  Counting'
<1> USE DEF time, candles, memory, alerts, bankroll, loops, history
<1>1. FeedTypeOK /\ Phases /\ Counting
  BY DEF FeedInv
<1>2. /\ UNCHANGED <<lbc, barras, frescos, sinal, falhou, jaFalhou>>
      /\ pc' \in {"refazer", "consumir", "entrada", "papel", "alimentar"}
      /\ \A t \in Trades : Opened(t)' <=> Opened(t)
  BY DEF Rebuild, RebuildDone, FeedNext, Consume, FeedDone, PaperEnd, Opened
<1>3. vez # {} => Now \in vez /\ Now \in Versions
  BY <1>1, NowIsLeft
<1>4. /\ visto \in [Versions -> Seq(1..(2 * N))] /\ fila \in Seq(1..(2 * N))
      /\ barras \in Nat /\ barras <= N /\ feito \subseteq Versions
      /\ modo \in {"refazer", "alimentar"}
  BY <1>1, FeedTypesOf DEF FeedTypeOK
<1>5. CASE Rebuild
  <2>1. /\ pc = "refazer" /\ pc' = "consumir" /\ modo' = "refazer" /\ fila' = Run(1, barras)
        /\ visto' = [visto EXCEPT ![Now] = <<>>] /\ UNCHANGED <<feito, vez>> /\ vez # {}
    BY <1>5 DEF Rebuild
  <2>2. ~Feeds /\ ~Feeds' /\ Now' = Now
    BY <2>1 DEF Feeds, Consuming, Following, AtEntry, AtPaper, InPair, Now, First
  <2>3. Now \in Versions /\ Now \notin feito
    BY <1>1, <1>3, <2>1 DEF Phases, Rebuilding, Missing
  <2>4. Len(Run(1, barras)) = barras /\ Follows(Run(1, barras), 0)
    <3>1. barras \in Nat /\ 1 \in Nat \ {0} /\ 1 <= barras + 1 /\ barras <= N
          /\ barras - 1 + 1 = barras /\ 1 - 1 = 0
      BY <1>4
    <3> QED
      BY <3>1, RunIs
  <2>5. visto'[Now] = <<>> /\ \A v \in feito : visto'[v] = visto[v]
    BY <1>4, <2>1, <2>3
  <2>6. Numbered(<<>>) /\ Len(<<>>) = 0 /\ 0 + barras = barras
    BY <1>4 DEF Numbered
  <2> QED
    BY <1>1, <1>2, <2>1, <2>2, <2>4, <2>5, <2>6 DEF Counting
<1>6. CASE RebuildDone
  <2>1. /\ pc = "consumir" /\ pc' = "refazer" /\ modo = "refazer" /\ fila = <<>>
        /\ feito' = feito \cup {Now} /\ UNCHANGED visto /\ Consuming
    BY <1>6 DEF RebuildDone, Consuming
  <2>2. ~Feeds /\ ~Feeds' /\ ~Consuming' /\ Now \in Versions
    BY <1>1, <1>3, <2>1 DEF Feeds, Consuming, Following, AtEntry, AtPaper, InPair, Phases
  <2>3. ~falhou => Numbered(visto[Now]) /\ Len(visto[Now]) = barras
    BY <1>1, <1>4, <2>1, <2>2 DEF Counting
  <2> QED
    BY <1>1, <1>2, <2>1, <2>2, <2>3 DEF Counting
<1>7. CASE FeedNext
  <2>1. /\ pc = "alimentar" /\ pc' = "consumir" /\ modo' = "alimentar" /\ fila' = frescos
        /\ UNCHANGED <<feito, visto, vez>> /\ vez # {}
    BY <1>7 DEF FeedNext
  <2>2. /\ Feeds /\ Feeds' /\ Now' = Now /\ ~Following /\ ~Following' /\ Now \in vez /\ Now \in feito
    BY <1>1, <1>3, <2>1 DEF Feeds, Consuming, Following, AtEntry, AtPaper, InPair, Now, First, Phases
  <2> QED
    BY <1>1, <1>2, <2>1, <2>2 DEF Counting
<1>8. CASE Consume
  <2>1. /\ pc = "consumir" /\ fila # <<>> /\ fila' = Tail(fila) /\ UNCHANGED <<feito, vez, modo>>
        /\ visto' = [visto EXCEPT ![Now] = Append(visto[Now], Head(fila))]
        /\ pc' \in {"consumir", "entrada"}
        /\ pc' = "entrada" => alvo' = <<Now, Head(fila)>>
    BY <1>8 DEF Consume
  <2>2. /\ Consuming /\ Consuming' /\ Now' = Now /\ ~Following /\ ~Following'
        /\ (Feeds <=> modo = "alimentar") /\ (Feeds' <=> modo = "alimentar")
    BY <2>1 DEF Feeds, Consuming, Following, AtEntry, AtPaper, InPair, Now, First
  <2>3. /\ Now \in vez /\ Now \in Versions
        /\ modo = "refazer" => Now \notin feito
    BY <1>1, <1>3, <2>1, <2>2 DEF Phases, Rebuilding, Missing
  <2>4. /\ visto'[Now] = Append(visto[Now], Head(fila))
        /\ \A v \in Versions : v # Now => visto'[v] = visto[v]
    BY <1>4, <2>1, <2>3
  <2>5. ASSUME ~falhou
        PROVE  /\ Numbered(visto'[Now]) /\ Len(visto'[Now]) = Len(visto[Now]) + 1
               /\ Len(visto'[Now]) + Len(fila') = barras
               /\ Follows(fila', Len(visto'[Now]))
               /\ Head(fila) = Len(visto'[Now])
    <3>1. /\ Numbered(visto[Now]) /\ Len(visto[Now]) + Len(fila) = barras
          /\ Follows(fila, Len(visto[Now]))
      BY <1>1, <2>2, <2>5 DEF Counting
    <3>2. visto[Now] \in Seq(1..(2 * N)) /\ Len(visto[Now]) \in Nat /\ Len(fila) \in Nat
      BY <1>4, <2>3
    <3>3. /\ Head(fila) = Len(visto[Now]) + 1
          /\ Numbered(Append(visto[Now], Head(fila)))
          /\ Len(Append(visto[Now], Head(fila))) = Len(visto[Now]) + 1
          /\ Len(Tail(fila)) = Len(fila) - 1 /\ Follows(Tail(fila), Len(visto[Now]) + 1)
      BY <1>4, <2>1, <3>1, <3>2, FollowsAppend
    <3> QED
      BY <2>1, <2>4, <3>1, <3>2, <3>3
  <2>6. vez \subseteq Versions
    BY <1>1, FeedTypesOf
  <2>7. (~falhou => \A v \in feito : Numbered(visto[v]))'
    BY <1>1, <1>2, <1>4, <2>1, <2>4, <2>5 DEF Counting
  <2>8. (~falhou => \A v \in feito : ~Feeds \/ v \notin vez \/ (Following /\ v = Now) =>
                                      Len(visto[v]) = barras)'
    BY <1>1, <1>2, <1>4, <2>1, <2>2, <2>3, <2>4 DEF Counting
  <2>9. (~falhou /\ Feeds => \A v \in vez : v # Now \/ pc = "alimentar" =>
              Len(visto[v]) + Len(frescos) = barras /\ Follows(frescos, Len(visto[v])))'
    BY <1>1, <1>2, <2>1, <2>2, <2>4, <2>6 DEF Counting
  <2> QED
    BY <1>1, <1>2, <2>1, <2>2, <2>5, <2>7, <2>8, <2>9 DEF Counting
<1>9. CASE FeedDone
  <2>1. /\ pc = "consumir" /\ pc' = "papel" /\ fila = <<>> /\ modo = "alimentar"
        /\ UNCHANGED <<feito, visto, vez>>
    BY <1>9 DEF FeedDone
  <2>2. /\ Consuming /\ ~Consuming' /\ Now' = Now /\ ~Following /\ Following' /\ Feeds /\ Feeds'
    BY <2>1 DEF Feeds, Consuming, Following, AtEntry, AtPaper, InPair, Now, First
  <2>3. Now \in Versions
    BY <1>1, <1>3, <2>2 DEF Phases
  <2>4. ~falhou => Len(visto[Now]) = barras
    BY <1>1, <1>4, <2>1, <2>2, <2>3 DEF Counting
  <2> QED
    BY <1>1, <1>2, <2>1, <2>2, <2>4 DEF Counting
<1>10. CASE PaperEnd
  <2>1. /\ pc = "papel" /\ pc' = "alimentar" /\ vez' = vez \ {Now} /\ UNCHANGED <<feito, visto>>
    BY <1>10 DEF PaperEnd
  <2>2. ~Consuming' /\ Following /\ ~Following' /\ Feeds /\ Feeds'
    BY <2>1 DEF Feeds, Consuming, Following, AtEntry, AtPaper, InPair
  <2> QED
    BY <1>1, <1>2, <2>1, <2>2 DEF Counting
<1> QED
  BY <1>5, <1>6, <1>7, <1>8, <1>9, <1>10

LEMMA CountingKept ==
  ASSUME FeedInv, [FeedStep]_feedVars
  PROVE  Counting'
<1> USE DEF time, candles, memory, alerts, bankroll, loops, history
<1>1. FeedTypeOK /\ Phases /\ InHand /\ Counting
  BY DEF FeedInv
<1>2. CASE EntryInsert
  <2>1. /\ pc = "entrada" /\ pc' = "avisar" /\ alvo \in Trades /\ alvo[1] = Now
        /\ UNCHANGED <<barras, lbc, feito, visto, frescos, vez, fila, modo, falhou, jaFalhou>>
    BY <1>1, <1>2 DEF EntryInsert, InHand, AtEntry
  <2>2. /\ Consuming /\ Consuming' /\ (Feeds' <=> Feeds) /\ ~Following /\ ~Following' /\ Now' = Now
    BY <2>1 DEF Feeds, Consuming, Following, AtEntry, AtPaper, InPair, Now, First
  <2>3. /\ sinal'[alvo].idx = Len(visto[Now])
        /\ \A t \in Trades : t # alvo => sinal'[t] = sinal[t]
    BY <1>1, <1>2, <2>1, FeedTypesOf DEF EntryInsert
  <2>4. ~falhou => Len(visto[Now]) = alvo[2]
    BY <1>1, <2>1 DEF Counting
  <2>5. ~jaFalhou => \A t \in Trades : Opened(t)' => sinal'[t].idx = t[2]
    BY <1>1, <2>3, <2>4 DEF Counting, Opened
  <2> QED
    BY <1>1, <2>1, <2>2, <2>5 DEF Counting
<1>3. CASE EntryLate \/ EntryKnown \/ EntryAlert \/ MarkSent \/ (Send /\ aviso = "e")
  <2>1. /\ AtEntry /\ pc' \in {"consumir", "avisar", "enviar", "marcar"}
        /\ pc' = "enviar" => aviso' = "e"
        /\ UNCHANGED <<barras, lbc, feito, visto, frescos, vez, fila, modo, falhou, jaFalhou>>
    BY <1>3 DEF EntryLate, EntryKnown, EntryAlert, MarkSent, Send, AlertOnce, AfterSend, AtEntry
  <2>2. /\ (Feeds' <=> Feeds) /\ Consuming' /\ Consuming /\ ~Following /\ ~Following'
        /\ pc # "alimentar"
    BY <2>1 DEF Feeds, Consuming, Following, AtEntry, AtPaper, InPair
  <2>3. \A t \in Trades : Opened(t)' => Opened(t) /\ sinal'[t].idx = sinal[t].idx
    <3>1. CASE UNCHANGED sinal
      BY <3>1 DEF Opened
    <3>2. CASE MarkSent
      BY <1>1, <3>2, FeedTypesOf DEF MarkSent, Opened, Signals
    <3> QED
      BY <1>3, <3>1, <3>2 DEF EntryLate, EntryKnown, EntryAlert, Send
  <2> QED
    BY <2>1, <2>2, <2>3, CountingOfRest
<1>4. CASE \/ Confirm \/ TakeProfit \/ SaveTp1 \/ StillOpen \/ ExitAlert \/ Close \/ LedgerStep
           \/ LedgerLine \/ LedgerSave \/ (Send /\ aviso # "e") \/ \E t \in Trades : PaperNext(t)
  <2>1. /\ Following /\ Following'
        /\ pc \notin {"alimentar", "consumir"}
        /\ pc' \notin {"alimentar", "consumir", "entrada", "primeiro", "gravar"}
        /\ UNCHANGED <<barras, lbc, feito, visto, frescos, vez, fila, modo, falhou, jaFalhou>>
    BY <1>1, <1>4 DEF Following, AtPaper, InPair, Confirm, TakeProfit, SaveTp1, StillOpen,
       ExitAlert, Close, LedgerStep, LedgerLine, LedgerSave, Send, PaperNext, Visited, AlertOnce,
       AfterSend, FeedTypeOK, Kinds
  <2>2. Feeds' /\ Feeds /\ ~Consuming' /\ ~Consuming
    BY <2>1 DEF Feeds, Consuming, Following, AtEntry, AtPaper, InPair
  <2>3. \A t \in Trades : Opened(t)' => Opened(t) /\ sinal'[t].idx = sinal[t].idx
    <3>1. CASE UNCHANGED sinal
      BY <3>1 DEF Opened
    <3>2. CASE SaveTp1
      BY <1>1, <3>2, FeedTypesOf DEF SaveTp1, Opened, Signals
    <3>3. CASE Close
      <4>1. sinal[alvo].status = "aberto"
        BY <1>1, <3>3 DEF Close, InHand, AtPaper
      <4> QED
        BY <1>1, <3>3, <4>1, FeedTypesOf DEF Close, Opened, Signals
    <3>4. ASSUME NEW u \in Trades, PaperNext(u)
          PROVE  \A t \in Trades : Opened(t)' => Opened(t) /\ sinal'[t].idx = sinal[t].idx
      <4>1. sinal[u].status = "aberto"
        BY <1>1, <3>4 DEF PaperNext, InHand, InPair
      <4>2. sinal' \in {sinal, [sinal EXCEPT ![u].status = "cancelado"]}
        BY <3>4 DEF PaperNext
      <4>3. sinal \in [Trades -> Signals]
        BY <1>1, FeedTypesOf
      <4>4. /\ \A t \in Trades : t # u => sinal'[t] = sinal[t]
            /\ sinal'[u].idx = sinal[u].idx
        BY <4>2, <4>3 DEF Signals
      <4> QED
        BY <4>1, <4>4 DEF Opened
    <3>5. UNCHANGED sinal \/ SaveTp1 \/ Close \/ \E u \in Trades : PaperNext(u)
      BY <1>4 DEF Confirm, TakeProfit, StillOpen, ExitAlert, LedgerStep, LedgerLine, LedgerSave,
         Send
    <3> QED
      BY <3>1, <3>2, <3>3, <3>4, <3>5
  <2> QED
    BY <2>1, <2>2, <2>3, CountingOfRest
<1>5. CASE UNCHANGED feedVars
  <2>1. /\ (Feeds' <=> Feeds) /\ (Consuming' <=> Consuming) /\ (Following' <=> Following)
        /\ Now' = Now
        /\ \A t \in Trades : Opened(t)' <=> Opened(t)
    BY <1>5 DEF feedVars, Feeds, Consuming, Following, AtEntry, AtPaper, InPair, Now, First, Opened
  <2> QED
    BY <1>1, <1>5, <2>1 DEF feedVars, Counting
<1> QED
  BY <1>2, <1>3, <1>4, <1>5, CountingOfCandles, CountingOfConsuming DEF FeedStep, Refresh

-----------------------------------------------------------------------------
(* The invariant, and what follows from it.                                 *)

LEMMA FeedStarts == FeedInit => FeedInv
<1> SUFFICES ASSUME FeedInit PROVE FeedInv
  OBVIOUS
<1>1. FeedTypeOK
  <2>1. /\ mercado \in 1..N /\ barras \in 0..N /\ N \in Nat
        /\ <<>> \in Seq(1..N) /\ <<>> \in Seq(1..(2 * N))
    BY CandlesAssumption DEF FeedInit
  <2> QED
    BY <2>1 DEF FeedInit, FeedTypeOK, Kinds, NoSignal, Signals
<1>2. /\ ~AtEntry /\ ~AtPaper /\ ~InPair /\ ~Consuming /\ ~Rebuilding /\ ~Following /\ ~Feeds
      /\ \A t \in Trades : ~Opened(t)
  BY DEF FeedInit, AtEntry, AtPaper, InPair, Consuming, Rebuilding, Following, Feeds, Opened,
     NoSignal
<1>3. Phases
  BY <1>2, CandlesAssumption DEF FeedInit, Phases
<1>4. InHand /\ Counting /\ Order /\ Merged
  BY <1>2 DEF FeedInit, InHand, Counting, Order, Partial, Merged
<1>5. Keyed
  BY DEF FeedInit, Keyed
<1>6. Ledgers
  <2>1. ASSUME NEW t \in Trades
        PROVE  Saved(t) = 0 /\ Held(t) = 0 /\ ~Booked(t) /\ sinal[t].status # "fechado"
    <3>1. salvo[t[1]] = <<>> /\ memoria[t[1]] = <<>> /\ linhas[t[1]] = {}
      BY TradeParts DEF FeedInit
    <3>2. {i \in DOMAIN <<>> : <<>>[i] = t[2]} = {}
      OBVIOUS
    <3>3. sinal[t].status # "fechado"
      BY DEF FeedInit, NoSignal
    <3> QED
      BY <3>1, <3>2, <3>3, FS_EmptySet DEF Saved, Held, Booked, Occurrences
  <2>2. Broken = {}
    BY <2>1 DEF Broken
  <2>3. Cardinality(Broken) <= cortesNoPar
    BY <2>2, FS_EmptySet DEF FeedInit
  <2> QED
    BY <2>1, <2>3 DEF FeedInit, Ledgers
<1> QED
  BY <1>1, <1>3, <1>4, <1>5, <1>6 DEF FeedInv

LEMMA FeedKeeps == FeedInv /\ [FeedStep]_feedVars => FeedInv'
<1> SUFFICES ASSUME FeedInv, [FeedStep]_feedVars PROVE FeedInv'
  OBVIOUS
<1>1. FeedTypeOK'
  BY FeedTypesKept
<1> QED
  BY <1>1, PhasesKept, InHandKept, CountingKept, OrderKept, MergedKept, KeyedKept, LedgersKept
  DEF FeedInv

\* The invariant of a refresh: what it has in hand at each of its steps, who has
\* decided, which alerts are keyed and which trades are in the ledgers.
THEOREM FeedInvariance == FeedSpec => []FeedInv
BY FeedStarts, FeedKeeps, PTL DEF FeedSpec

\* The types.
THEOREM FeedTypeCorrect == FeedSpec => []FeedTypeOK
<1>1. FeedInv => FeedTypeOK
  BY DEF FeedInv
<1> QED
  BY <1>1, FeedInvariance, PTL

\* "O detector ve cada candle uma vez, em ordem": what a detector has between two
\* refreshes is what is frozen, unless a refresh raised while it fed.
THEOREM DetectorsSeeTheFrozen == FeedSpec => []FrozenCandlesSeen
<1>1. FeedInv => FrozenCandlesSeen
  <2> SUFFICES ASSUME FeedInv, pc = "livre" PROVE FrozenCandlesSeen
    BY DEF FrozenCandlesSeen
  <2>1. FeedTypeOK /\ Counting
    BY DEF FeedInv
  <2>2. ASSUME ~falhou, NEW v \in feito
        PROVE  visto[v] = Run(1, barras)
    <3>1. ~Feeds
      BY DEF Feeds, Consuming, Following, AtEntry, AtPaper, InPair
    <3>2. Numbered(visto[v]) /\ Len(visto[v]) = barras
      BY <2>1, <2>2, <3>1 DEF Counting
    <3>3. visto[v] \in Seq(1..(2 * N)) /\ barras \in Nat /\ barras <= N
      BY <2>1, FeedTypesOf
    <3>4. /\ Run(1, barras) \in Seq(1..(2 * N)) /\ Len(Run(1, barras)) = barras
          /\ Follows(Run(1, barras), 0)
      <4>1. 1 \in Nat \ {0} /\ 1 <= barras + 1 /\ barras - 1 + 1 = barras /\ 1 - 1 = 0
        BY <3>3
      <4> QED
        BY <3>3, <4>1, RunIs
    <3>5. \A i \in 1..barras : visto[v][i] = Run(1, barras)[i]
      BY <3>2, <3>3, <3>4 DEF Numbered, Follows
    <3> HIDE DEF Numbered
    <3> DEFINE s == visto[v]
               r == Run(1, barras)
    <3>6. s \in Seq(1..(2 * N)) /\ r \in Seq(1..(2 * N)) /\ Len(s) = Len(r)
          /\ \A i \in 1..Len(s) : s[i] = r[i]
      BY <3>2, <3>3, <3>4, <3>5
    <3> HIDE DEF s, r
    <3>7. s = r
      BY <3>6
    <3> QED
      BY <3>7 DEF s, r
  <2> QED
    BY <2>1, <2>2 DEF Counting, FrozenCandlesSeen
<1> QED
  BY <1>1, FeedInvariance, PTL

\* "Nunca repete alerta": one full alert of each kind for a decision, of V1 and V2
\* together, however refreshes are cut and the process restarted.
THEOREM OneFullAlert == FeedSpec => []AlertsNotRepeated
<1>1. FeedInv => AlertsNotRepeated
  <2> SUFFICES ASSUME FeedInv, NEW e \in Kinds \X (1..N) PROVE enviados[e] <= 1
    BY DEF AlertsNotRepeated
  <2>1. PICK k \in Kinds, c \in 1..N : e = <<k, c>>
    OBVIOUS
  <2> QED
    BY <2>1 DEF FeedInv, Keyed
<1> QED
  BY <1>1, FeedInvariance, PTL

\* Every closed trade is once in the bankroll and no other one is, but for one
\* trade for each cut between the closing and the last write of its bankroll.
THEOREM BankrollFollowsTheTrades == FeedSpec => []BankrollMatches
<1>1. FeedInv => BankrollMatches
  <2> SUFFICES ASSUME FeedInv PROVE BankrollMatches
    OBVIOUS
  <2> DEFINE Wrong(t) == IF sinal[t].status = "fechado"
                         THEN ~(t[2] \in linhas[t[1]])
                              \/ Cardinality({i \in DOMAIN salvo[t[1]] : salvo[t[1]][i] = t[2]}) # 1
                         ELSE t[2] \in linhas[t[1]]
                              \/ Cardinality({i \in DOMAIN salvo[t[1]] : salvo[t[1]][i] = t[2]}) # 0
             W == {t \in Trades \ {alvo} : Wrong(t)}
  <2>1. FeedTypeOK /\ Ledgers
    BY DEF FeedInv
  <2>2. \A t \in Trades \ {alvo} :
           Wrong(t) <=> IF sinal[t].status = "fechado" THEN ~Booked(t) \/ Saved(t) # 1
                        ELSE Booked(t) \/ Saved(t) # 0
    BY DEF Booked, Saved, Occurrences
  <2>3. W \subseteq Broken
    <3>1. ASSUME NEW t \in Trades \ {alvo}, Wrong(t)
          PROVE  t \in Broken
      <4>1. sinal[t].status # "fechado" => Saved(t) = 0 /\ ~Booked(t)
        BY <2>1 DEF Ledgers
      <4>2. sinal[t].status = "fechado" /\ (~Booked(t) \/ Saved(t) # 1)
        <5> HIDE DEF Wrong
        <5> QED
          BY <2>2, <3>1, <4>1
      <4> QED
        BY <4>2 DEF Broken
    <3> QED
      BY <3>1
  <2> HIDE DEF W
  <2>4. Cardinality(W) <= Cardinality(Broken) /\ Cardinality(W) \in Nat
    <3>1. IsFiniteSet(W) /\ Cardinality(W) <= Cardinality(Broken)
      BY <2>1, <2>3, LedgerTypes, FS_Subset
    <3> QED
      BY <3>1, FS_CardinalityType
  <2>5. Cardinality(Broken) <= cortesNoPar /\ Cardinality(Broken) \in Nat /\ cortesNoPar \in Nat
    BY <2>1, LedgerTypes DEF Ledgers, FeedTypeOK
  <2>6. Cardinality(W) <= cortesNoPar
    BY <2>4, <2>5
  <2> QED
    BY <2>6 DEF BankrollMatches, W
<1> QED
  BY <1>1, FeedInvariance, PTL
=============================================================================
