---------------------------- MODULE BotSupervision ----------------------------
(***************************************************************************)
(* How the signals bot is kept alive and single: supervisor processes      *)
(* (signals_mvp/supervisor.py) that start, watch, kill and restart one     *)
(* worker process each (signals_mvp/worker.py), the instance lock on the   *)
(* database (signals_mvp/instance_lock.py), and the operator's `parar'.    *)
(* They share four files: the pid file, the stop flag, the heartbeat and   *)
(* the config file.                                                        *)
(*                                                                         *)
(* A step is one access to a file, a process or the lock.  Time is left    *)
(* out: a limit may run out whenever what it waits for has not come, and   *)
(* a worker whose time is up is one that hangs.  A healthy worker is       *)
(* never slower than the limits of the watchdog.                           *)
(***************************************************************************)
EXTENDS Naturals, FiniteSets

CONSTANTS
    Supervisors,          \* bound: the supervisor processes ever started
    Workers,              \* bound: the worker processes ever spawned
    NoOne,                \* no process
    SupervisorsMayDie     \* whether a supervisor may be killed (kill -9)

ASSUME ProcessesAssumption ==
    /\ NoOne \notin Supervisors \cup Workers
    /\ SupervisorsMayDie \in BOOLEAN

VARIABLES
    sup,          \* where each supervisor stands
    child,        \* the worker each supervisor spawned last
    asked,        \* supervisors with stop_requested set by a signal
    restart,      \* supervisors whose _watch returned a reason to restart
    edited,       \* waiting supervisors whose config.yaml has changed since
    holder,       \* who has the lock on the database
    pidFile,      \* supervisor.pid
    stopFlag,     \* the file PARAR exists
    heartbeat,    \* heartbeat.json: the writer and whether it has progressed
    configOk,     \* config.yaml is valid
    phase,        \* where each worker stands
    health,       \* whether a worker hangs, and whether all of it does
    progressed,   \* workers that have finished a cycle
    refused,      \* workers that exited with EXIT_CONFIG_ERROR
    termed,       \* workers that got SIGTERM
    op,           \* where the operator's `parar' stands
    opPid         \* the supervisor whose pid `parar' read

supervisors == <<sup, child, asked, restart, edited>>
files == <<pidFile, stopFlag, heartbeat, configOk>>
workers == <<phase, health, progressed, refused, termed>>
operator == <<op, opPid>>
vars == <<supervisors, holder, files, workers, operator>>

-----------------------------------------------------------------------------

\* A process of the bot's command line that exists.
SupAlive(s) == sup[s] \notin {"none", "exited", "killed"}

WorkerAlive(w) == phase[w] \notin {"none", "dead"}

ChildGone(s) == child[s] # NoOne /\ ~WorkerAlive(child[s])

\* Past the lock, up to the release.
AtWork(s) == SupAlive(s) /\ sup[s] \notin {"begin", "pidChecked"}

\* In the main loop: the stop flag of an earlier `parar' is gone.
Running(s) ==
    sup[s] \in {"loop", "watch", "stopping", "terminated", "pause",
                "configSeen", "configWait"}

ShouldStop(s) == s \in asked \/ stopFlag

Goto(s, where) == sup' = [sup EXCEPT ![s] = where]

Init ==
    /\ sup = [s \in Supervisors |-> "none"]
    /\ child = [s \in Supervisors |-> NoOne]
    /\ asked = {}
    /\ restart = {}
    /\ edited = {}
    /\ holder = NoOne
    /\ pidFile = NoOne
    /\ stopFlag = FALSE
    /\ heartbeat = [by |-> NoOne, progress |-> FALSE]
    /\ configOk = TRUE
    /\ phase = [w \in Workers |-> "none"]
    /\ health = [w \in Workers |-> "ok"]
    /\ progressed = {}
    /\ refused = {}
    /\ termed = {}
    /\ op = "idle"
    /\ opPid = NoOne

-----------------------------------------------------------------------------
(* run_supervisor.                                                         *)

Start(s) ==
    /\ sup[s] = "none"
    /\ Goto(s, "begin")
    /\ UNCHANGED <<child, asked, restart, edited, holder, files, workers, operator>>

\* read_pid and pid_alive; --forcar goes on in any case.
CheckPid(s) ==
    /\ sup[s] = "begin"
    /\ \/ Goto(s, "pidChecked")
       \/ pidFile # NoOne /\ SupAlive(pidFile) /\ Goto(s, "exited")
    /\ UNCHANGED <<child, asked, restart, edited, holder, files, workers, operator>>

LockFree == holder = NoOne

AcquireLock(s) ==
    /\ sup[s] = "pidChecked"
    /\ IF LockFree THEN holder' = s /\ Goto(s, "locked")
                   ELSE Goto(s, "exited") /\ UNCHANGED holder
    /\ UNCHANGED <<child, asked, restart, edited, files, workers, operator>>

-----------------------------------------------------------------------------
(* Supervisor.run.                                                         *)

WritePid(s) ==
    /\ sup[s] = "locked"
    /\ pidFile' = s
    /\ Goto(s, "pidWritten")
    /\ UNCHANGED <<child, asked, restart, edited, holder, stopFlag, heartbeat,
                   configOk, workers, operator>>

ClearOldFlag(s) ==
    /\ sup[s] = "pidWritten"
    /\ stopFlag' = FALSE
    /\ Goto(s, "loop")
    /\ UNCHANGED <<child, asked, restart, edited, holder, pidFile, heartbeat,
                   configOk, workers, operator>>

Spawn(s) ==
    /\ sup[s] = "loop"
    /\ ~ShouldStop(s)
    /\ \E w \in Workers :
          /\ phase[w] = "none"
          /\ phase' = [phase EXCEPT ![w] = "boot"]
          /\ child' = [child EXCEPT ![s] = w]
    /\ Goto(s, "watch")
    /\ UNCHANGED <<asked, restart, edited, holder, files, health, progressed,
                   refused, termed, operator>>

LeaveLoop(s) ==
    /\ sup[s] = "loop"
    /\ ShouldStop(s)
    /\ Goto(s, "unpid")
    /\ UNCHANGED <<child, asked, restart, edited, holder, files, workers, operator>>

-----------------------------------------------------------------------------
(* _watch: what one poll finds.                                            *)

WatchStop(s) ==
    /\ sup[s] = "watch"
    /\ ShouldStop(s)
    /\ restart' = restart \ {s}
    /\ Goto(s, "stopping")
    /\ UNCHANGED <<child, asked, edited, holder, files, workers, operator>>

WatchExit(s) ==
    /\ sup[s] = "watch"
    /\ ~ShouldStop(s)
    /\ ChildGone(s)
    /\ restart' = restart \cup {s}
    /\ Goto(s, IF child[s] \in refused THEN "configSeen" ELSE "pause")
    /\ UNCHANGED <<child, asked, edited, holder, files, workers, operator>>

\* Mutant of Fresh: any heartbeat counts, whoever wrote it.
FreshForAnyone(s) == heartbeat.by # NoOne

\* The heartbeat was written by the worker that is watched.
Fresh(s) == heartbeat.by = child[s]

\* Its ts is old: the thread that writes it does not run.
WriterSilent == ~WorkerAlive(heartbeat.by) \/ health[heartbeat.by] = "frozen"

\* Its ultimo_progresso_ts is old; 0 until the first cycle has ended.
ProgressOld ==
    heartbeat.progress
      /\ (~WorkerAlive(heartbeat.by) \/ health[heartbeat.by] # "ok")

\* Mutant of Stall: the heartbeat's ts alone is looked at.
StallOnSilence(s) ==
    \/ ~Fresh(s) /\ (phase[child[s]] # "boot" \/ health[child[s]] # "ok")
    \/ Fresh(s) /\ WriterSilent

\* A worker that has not written a heartbeat by the end of the startup grace
\* is one that hangs or one whose heartbeat somebody else has overwritten.
Stall(s) ==
    \/ ~Fresh(s) /\ (phase[child[s]] # "boot" \/ health[child[s]] # "ok")
    \/ Fresh(s) /\ (WriterSilent \/ ProgressOld)

\* _kill_worker begins with terminate().
WatchStall(s) ==
    /\ sup[s] = "watch"
    /\ ~ShouldStop(s)
    /\ ~ChildGone(s)
    /\ Stall(s)
    /\ restart' = restart \cup {s}
    /\ termed' = termed \cup {child[s]}
    /\ Goto(s, "terminated")
    /\ UNCHANGED <<child, asked, edited, holder, files, phase, health, progressed,
                   refused, operator>>

-----------------------------------------------------------------------------
(* _stop_worker and _kill_worker.                                          *)

\* The graceful time is over.
Terminate(s) ==
    /\ sup[s] = "stopping"
    /\ ~ChildGone(s)
    /\ termed' = termed \cup {child[s]}
    /\ Goto(s, "terminated")
    /\ UNCHANGED <<child, asked, restart, edited, holder, files, phase, health,
                   progressed, refused, operator>>

\* SIGTERM has not helped within ten seconds, and kill() does.  The wait after
\* it is bounded too: that a killed process is still there after ten seconds,
\* which would end the supervisor with its worker alive, is left out.
Kill(s) ==
    /\ sup[s] = "terminated"
    /\ ~ChildGone(s)
    /\ phase' = [phase EXCEPT ![child[s]] = "dead"]
    /\ UNCHANGED <<supervisors, holder, files, health, progressed, refused,
                   termed, operator>>

\* Mutant of Reap: the supervisor does not wait for the worker's end.
ReapAtOnce(s) ==
    /\ sup[s] \in {"stopping", "terminated"}
    /\ Goto(s, IF s \in restart THEN "pause" ELSE "unpid")
    /\ UNCHANGED <<child, asked, restart, edited, holder, files, workers, operator>>

Reap(s) ==
    /\ sup[s] \in {"stopping", "terminated"}
    /\ ChildGone(s)
    /\ Goto(s, IF s \in restart THEN "pause" ELSE "unpid")
    /\ UNCHANGED <<child, asked, restart, edited, holder, files, workers, operator>>

-----------------------------------------------------------------------------
(* Between two workers, and the end.                                       *)

\* The back-off, cut short by a stop.
Pause(s) ==
    /\ sup[s] = "pause"
    /\ Goto(s, "loop")
    /\ UNCHANGED <<child, asked, restart, edited, holder, files, workers, operator>>

\* _wait_config_change notes the mtime it finds.
NoteConfig(s) ==
    /\ sup[s] = "configSeen"
    /\ Goto(s, "configWait")
    /\ UNCHANGED <<child, asked, restart, edited, holder, files, workers, operator>>

\* Mutant of ConfigChanged: only an edit ends the wait.
ConfigChangedOnly(s) ==
    /\ sup[s] = "configWait"
    /\ s \in edited
    /\ edited' = edited \ {s}
    /\ Goto(s, "loop")
    /\ UNCHANGED <<child, asked, restart, holder, files, workers, operator>>

ConfigChanged(s) ==
    /\ sup[s] = "configWait"
    /\ s \in edited \/ ShouldStop(s)
    /\ edited' = edited \ {s}
    /\ Goto(s, "loop")
    /\ UNCHANGED <<child, asked, restart, holder, files, workers, operator>>

UnlinkPid(s) ==
    /\ sup[s] = "unpid"
    /\ pidFile' = NoOne
    /\ Goto(s, "unflag")
    /\ UNCHANGED <<child, asked, restart, edited, holder, stopFlag, heartbeat,
                   configOk, workers, operator>>

UnlinkFlag(s) ==
    /\ sup[s] = "unflag"
    /\ stopFlag' = FALSE
    /\ Goto(s, "release")
    /\ UNCHANGED <<child, asked, restart, edited, holder, pidFile, heartbeat,
                   configOk, workers, operator>>

Exit(s) ==
    /\ sup[s] = "release"
    /\ holder' = NoOne
    /\ Goto(s, "exited")
    /\ UNCHANGED <<child, asked, restart, edited, files, workers, operator>>

\* A signal handler sets stop_requested; it is installed in the main loop.
Signal(s) ==
    /\ Running(s)
    /\ asked' = asked \cup {s}
    /\ UNCHANGED <<sup, child, restart, edited, holder, files, workers, operator>>

\* kill -9, or the system is short of memory.  The system frees the lock; the
\* worker, a process of its own, lives on.
SupervisorDies(s) ==
    /\ SupervisorsMayDie
    /\ SupAlive(s)
    /\ Goto(s, "killed")
    /\ holder' = IF holder = s THEN NoOne ELSE holder
    /\ UNCHANGED <<child, asked, restart, edited, files, workers, operator>>

-----------------------------------------------------------------------------
(* Worker.run.                                                             *)

SetPhase(w, p) == phase' = [phase EXCEPT ![w] = p]

MustStop(w) == w \in termed \/ stopFlag

Boot(w) ==
    /\ phase[w] = "boot" /\ health[w] = "ok"
    /\ IF configOk
       THEN /\ SetPhase(w, "up")
            /\ heartbeat' = [by |-> w, progress |-> FALSE]
            /\ UNCHANGED refused
       ELSE /\ SetPhase(w, "dead")
            /\ refused' = refused \cup {w}
            /\ UNCHANGED heartbeat
    /\ UNCHANGED <<supervisors, holder, pidFile, stopFlag, configOk, health,
                   progressed, termed, operator>>

BeginCycle(w) ==
    /\ phase[w] = "up" /\ health[w] = "ok"
    /\ ~MustStop(w)
    /\ SetPhase(w, "cycle")
    /\ UNCHANGED <<supervisors, holder, files, health, progressed, refused, termed,
                   operator>>

EndCycle(w) ==
    /\ phase[w] = "cycle" /\ health[w] = "ok"
    /\ SetPhase(w, "up")
    /\ progressed' = progressed \cup {w}
    /\ UNCHANGED <<supervisors, holder, files, health, refused, termed, operator>>

\* The cycle raises: that is logged, and is no progress.
CycleFails(w) ==
    /\ phase[w] = "cycle" /\ health[w] = "ok"
    /\ SetPhase(w, "up")
    /\ UNCHANGED <<supervisors, holder, files, health, progressed, refused, termed,
                   operator>>

\* The heartbeat thread.
Beat(w) ==
    /\ phase[w] \in {"up", "cycle"} /\ health[w] # "frozen"
    /\ heartbeat' = [by |-> w, progress |-> w \in progressed]
    /\ UNCHANGED <<supervisors, holder, pidFile, stopFlag, configOk, workers,
                   operator>>

\* The CSVs are written and the database is closed.
LeaveMainLoop(w) ==
    /\ phase[w] = "up" /\ health[w] = "ok"
    /\ MustStop(w)
    /\ SetPhase(w, "closing")
    /\ UNCHANGED <<supervisors, holder, files, health, progressed, refused, termed,
                   operator>>

WorkerExits(w) ==
    /\ phase[w] = "closing" /\ health[w] = "ok"
    /\ SetPhase(w, "dead")
    /\ heartbeat' = [by |-> w, progress |-> w \in progressed]
    /\ UNCHANGED <<supervisors, holder, pidFile, stopFlag, configOk, health,
                   progressed, refused, termed, operator>>

WorkerCrashes(w) ==
    /\ WorkerAlive(w)
    /\ SetPhase(w, "dead")
    /\ UNCHANGED <<supervisors, holder, files, health, progressed, refused, termed,
                   operator>>

\* The main thread hangs ("stuck"), or the interpreter with all threads.
Hang(w) ==
    /\ WorkerAlive(w) /\ health[w] = "ok"
    /\ \/ phase[w] \in {"up", "cycle"} /\ health' = [health EXCEPT ![w] = "stuck"]
       \/ health' = [health EXCEPT ![w] = "frozen"]
    /\ UNCHANGED <<supervisors, holder, files, phase, progressed, refused, termed,
                   operator>>

-----------------------------------------------------------------------------
(* request_stop, and the operator's editor.                                *)

ReadPid ==
    /\ op = "idle"
    /\ opPid' = pidFile
    /\ op' = IF pidFile # NoOne /\ SupAlive(pidFile) THEN "flag" ELSE "clean"
    /\ UNCHANGED <<supervisors, holder, files, workers>>

\* Nobody runs: both files are removed.
CleanFiles ==
    /\ op = "clean"
    /\ pidFile' = NoOne
    /\ stopFlag' = FALSE
    /\ op' = "idle" /\ opPid' = NoOne
    /\ UNCHANGED <<supervisors, holder, heartbeat, configOk, workers>>

WriteFlag ==
    /\ op = "flag"
    /\ stopFlag' = TRUE
    /\ op' = "wait"
    /\ UNCHANGED <<supervisors, holder, pidFile, heartbeat, configOk, workers, opPid>>

SeeStopped ==
    /\ op = "wait"
    /\ ~SupAlive(opPid)
    /\ stopFlag' = FALSE
    /\ op' = "idle" /\ opPid' = NoOne
    /\ UNCHANGED <<supervisors, holder, pidFile, heartbeat, configOk, workers>>

GiveUp ==
    /\ op = "wait"
    /\ SupAlive(opPid)
    /\ op' = "idle" /\ opPid' = NoOne
    /\ UNCHANGED <<supervisors, holder, files, workers>>

EditConfig ==
    /\ configOk' \in BOOLEAN
    /\ edited' = {s \in Supervisors : sup[s] = "configWait"}
    /\ UNCHANGED <<sup, child, asked, restart, holder, pidFile, stopFlag, heartbeat,
                   workers, operator>>

-----------------------------------------------------------------------------

Goes(s) ==
    \/ CheckPid(s) \/ AcquireLock(s) \/ WritePid(s) \/ ClearOldFlag(s)
    \/ Spawn(s) \/ LeaveLoop(s)
    \/ WatchStop(s) \/ WatchExit(s) \/ WatchStall(s)
    \/ Terminate(s) \/ Kill(s) \/ Reap(s)
    \/ Pause(s) \/ NoteConfig(s) \/ ConfigChanged(s)
    \/ UnlinkPid(s) \/ UnlinkFlag(s) \/ Exit(s)

Works(w) ==
    Boot(w) \/ BeginCycle(w) \/ EndCycle(w) \/ LeaveMainLoop(w) \/ WorkerExits(w)

Parar == ReadPid \/ CleanFiles \/ WriteFlag \/ SeeStopped \/ GiveUp

Next ==
    \/ \E s \in Supervisors : Start(s) \/ Goes(s) \/ Signal(s) \/ SupervisorDies(s)
    \/ \E w \in Workers :
          Works(w) \/ CycleFails(w) \/ Beat(w) \/ WorkerCrashes(w) \/ Hang(w)
    \/ Parar
    \/ EditConfig

Spec == Init /\ [][Next]_vars

\* The system schedules every process; a healthy worker's cycle ends.  Nothing
\* is assumed of the operator, of signals or of failures.
FairSpec ==
    /\ Spec
    /\ \A s \in Supervisors : WF_vars(Goes(s))
    /\ \A w \in Workers : WF_vars(Works(w)) /\ WF_vars(Beat(w))

-----------------------------------------------------------------------------

SupStates ==
    {"none", "begin", "pidChecked", "locked", "pidWritten", "loop", "watch",
     "stopping", "terminated", "pause", "configSeen", "configWait", "unpid",
     "unflag", "release", "exited", "killed"}

TypeOK ==
    /\ sup \in [Supervisors -> SupStates]
    /\ child \in [Supervisors -> Workers \cup {NoOne}]
    /\ asked \in SUBSET Supervisors
    /\ restart \in SUBSET Supervisors
    /\ edited \in SUBSET Supervisors
    /\ holder \in Supervisors \cup {NoOne}
    /\ pidFile \in Supervisors \cup {NoOne}
    /\ stopFlag \in BOOLEAN
    /\ heartbeat \in [by : Workers \cup {NoOne}, progress : BOOLEAN]
    /\ configOk \in BOOLEAN
    /\ phase \in [Workers -> {"none", "boot", "up", "cycle", "closing", "dead"}]
    /\ health \in [Workers -> {"ok", "stuck", "frozen"}]
    /\ progressed \in SUBSET Workers
    /\ refused \in SUBSET Workers
    /\ termed \in SUBSET Workers
    /\ op \in {"idle", "clean", "flag", "wait"}
    /\ opPid \in Supervisors \cup {NoOne}

\* The bot never lets two of its instances write to one database: there is at
\* most one worker process (docs/DEPLOY_VPS_LINUX.md, section 6).
OneWorkerPerDatabase ==
    \A v, w \in Workers : WorkerAlive(v) /\ WorkerAlive(w) => v = w

\* Whatever dies, two supervisors are never at work, and one that comes to its
\* regular end leaves no worker behind.
SupervisorsSerial ==
    /\ \A s, t \in Supervisors : AtWork(s) /\ AtWork(t) => s = t
    /\ \A s \in Supervisors : sup[s] \in {"unpid", "unflag", "release", "exited"}
                                => child[s] = NoOne \/ ChildGone(s)

\* The watchdog does not shoot a healthy worker: only one that hangs is
\* terminated, unless a stop was asked for.
HealthyWorkerKept ==
    [][\A s \in Supervisors :
          sup[s] = "watch" /\ sup'[s] = "terminated" => health[child[s]] # "ok"]_vars

\* A stop flag that a running supervisor can see ends it and its worker, unless
\* the supervisor is killed meanwhile.
StopHonoured ==
    \A s \in Supervisors :
        op = "wait" /\ opPid = s /\ stopFlag /\ Running(s)
          ~> \/ sup[s] = "exited" /\ (child[s] = NoOne \/ ChildGone(s))
             \/ sup[s] = "killed"

\* The supervisor of w has been killed.
Orphaned(w) == \E s \in Supervisors : child[s] = w /\ sup[s] = "killed"

\* A worker that stops making progress, or freezes, is got rid of.
HungWorkerReplaced ==
    \A w \in Workers :
        (health[w] = "frozen" \/ (health[w] = "stuck" /\ w \in progressed))
          ~> ~WorkerAlive(w) \/ Orphaned(w)

=============================================================================
