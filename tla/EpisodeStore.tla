----------------------------- MODULE EpisodeStore -----------------------------
(***************************************************************************)
(* Market opportunity episodes of one run: the store                       *)
(* (src/market_opportunity_episode_store.py), the cache of known windows   *)
(* and the two finalizers of unified_market_latency_smoke_v27.py, and the  *)
(* thread that appends continuation triggers                               *)
(* (src/market_trigger_continuation_writer.py), as they run under the      *)
(* write admission of v28 and the token locks of the commit lanes.         *)
(*                                                                         *)
(* A job is a notification whose prepared token has a trigger.  Its key is *)
(* the trigger key (signature and token); an episode is named by the key   *)
(* of the trigger that opened it.  Jobs with several tokens are the        *)
(* subject of TokenCommitLanes, the order in which the admission serves    *)
(* its writers that of SQLiteWriteAdmission.  The rows that audit a        *)
(* conflicting replay of a trigger that is stored are left out: no step    *)
(* reads them.  So are the RuntimeErrors for a row without its partner,    *)
(* which is inserted in the same transaction.                              *)
(***************************************************************************)
EXTENDS Integers, Sequences, FiniteSets, Functions

CONSTANTS
    Keys,        \* trigger keys
    TokenOf,     \* the token of each key
    PumpKeys,    \* the keys that come from the Pump stream
    Window,      \* episode_window_seconds
    BatchSize,   \* batch_size of the continuation writer
    Retries,     \* the delays of _SQLITE_LOCK_RETRY_DELAYS_SECONDS
    NumJobs,     \* bound: notifications
    MaxTime,     \* bound: the clock
    MaxFaults    \* bound: how often SQLite answers "database is locked"

ASSUME EpisodeAssumption ==
    /\ IsFiniteSet(Keys) /\ Keys # {} /\ PumpKeys \subseteq Keys
    /\ DOMAIN TokenOf = Keys
    /\ Window \in Nat \ {0} /\ BatchSize \in Nat \ {0} /\ Retries \in Nat
    /\ NumJobs \in Nat /\ MaxTime \in Nat /\ MaxFaults \in Nat

Jobs == 1 .. NumJobs     \* in the order of arrival

NoPlan == [does |-> "nothing"]
Sentinel == [job |-> 0]

Nobody == 0              \* holds the write admission

VARIABLES
    now,       \* the local clock, observed_at of what arrives
    pc, key, at,
    inline,    \* the jobs that are finalized on the event loop, without a lock
    plan,      \* what the SELECTs of an assignment have decided
    tries,     \* attempts of persist_once that met a locked database
    opened,    \* market_opportunity_episodes: first_trigger_observed_at
    triggers,  \* market_opportunity_episode_triggers: the episode of each key
    late,      \* market_trigger_replay_conflicts with the late-earlier action
    cache,     \* _EpisodeContinuationCache
    gate,      \* the job that is admitted to write
    queue, batch, wpc, stopping, fatal,  \* the continuation writer
    phase,     \* of the run: "open", "ending" (deadline), "closing" (the writer)
    faults

jobVars == <<pc, key, at, inline, plan, tries>>
storeVars == <<opened, triggers, late>>
writerVars == <<queue, batch, wpc, stopping, fatal>>
vars == <<now, jobVars, storeVars, cache, gate, writerVars, phase, faults>>

-----------------------------------------------------------------------------

Token(j) == TokenOf[key[j]]
IsPump(j) == key[j] \in PumpKeys
Goto(j, place) == pc' = [pc EXCEPT ![j] = place]

\* A call of assign_market_opportunity_trigger, up to cache.remember.
Assigning == {"waiting", "reading", "writing", "remembering"}

\* The calls that hold the lock of their token.
InLane(j) == j \notin inline /\ pc[j] \in Assigning \cup {"locked"}

\* No finalizer occupies the event loop.
LoopFree == \A j \in inline : pc[j] \notin Assigning \cup {"inline"}

\* Mutant of InWindow: the instant of closing belongs to the window.
InWindowClosed(e, t) == opened[e] <= t /\ t <= opened[e] + Window

\* The window of episode e contains t, for the cache.
InWindow(e, t) == opened[e] <= t /\ t < opened[e] + Window

\* first_trigger_observed_at <= t < episode_closes_at: what the store and the
\* continuation writer ask.
Holds(e, t) == opened[e] <= t /\ t < opened[e] + Window

Latest(E) == CHOOSE e \in E : \A f \in E : opened[f] <= opened[e]
Earliest(E) == CHOOSE e \in E : \A f \in E : opened[e] <= opened[f]

\* cache.find
Known(j) == {e \in cache : TokenOf[e] = Token(j) /\ InWindow(e, at[j])}

-----------------------------------------------------------------------------
(* Arrival, and what the event loop does with a prepared notification.     *)

Init ==
    /\ now = 0
    /\ pc = [j \in Jobs |-> "idle"]
    /\ key \in [Jobs -> {CHOOSE k \in Keys : TRUE}]
    /\ at = [j \in Jobs |-> 0]
    /\ inline = {}
    /\ plan = [j \in Jobs |-> NoPlan]
    /\ tries = [j \in Jobs |-> 0]
    /\ opened = <<>> /\ triggers = <<>> /\ late = <<>>
    /\ cache = {}
    /\ gate = Nobody
    /\ queue = <<>> /\ batch = <<>> /\ wpc = "collecting"
    /\ stopping = FALSE /\ fatal = FALSE
    /\ phase = "open"
    /\ faults = 0

\* Bound: the clock stands still when nothing can arrive any more.
Tick ==
    /\ now < MaxTime
    /\ phase = "open" /\ \E j \in Jobs : pc[j] = "idle"
    /\ now' = now + 1
    /\ UNCHANGED <<jobVars, storeVars, cache, gate, writerVars, phase, faults>>

\* The times of a trigger of key k.  The Pump stream may deliver a signature
\* again, and it is finalized again at its new time.  A PumpSwap notification
\* without new trades is skipped before it is prepared (has_new_evidence), but
\* one that brings a trade of the token, or of another one, is prepared from all
\* rows of its transaction: the token keeps its time unless it has a new row.
Times(j, k) ==
    {now} \cup (IF k \in PumpKeys THEN {} ELSE {at[i] : i \in {h \in 1 .. (j - 1) : key[h] = k}})

\* A notification arrives and is prepared, for the first time or again.
Arrive(j) ==
    /\ phase = "open"
    /\ pc[j] = "idle"
    /\ \A i \in 1 .. (j - 1) : pc[i] # "idle"
    /\ \E k \in Keys : \E t \in Times(j, k) :
        /\ key' = [key EXCEPT ![j] = k]
        /\ at' = [at EXCEPT ![j] = t]
    /\ Goto(j, "prepared")
    /\ UNCHANGED <<now, inline, plan, tries, storeVars, cache, gate, writerVars,
                   phase, faults>>

\* continuation_aware_has_trigger: a known window needs no commit lane.  Pump
\* notifications are taken in their order, unless the coordinator has failed.
Classify(j) ==
    /\ phase = "open"
    /\ LoopFree
    /\ pc[j] = "prepared"
    /\ IsPump(j) => \A i \in Jobs \ {j} :
        IsPump(i) => /\ i < j => pc[i] # "prepared"
                     /\ ~(pc[i] = "raised" /\ i \in inline)
    /\ IF Known(j) = {}
       THEN Goto(j, "queued") /\ inline' = inline
       ELSE Goto(j, "inline") /\ inline' = inline \cup {j}
    /\ UNCHANGED <<now, key, at, plan, tries, storeVars, cache, gate, writerVars,
                   phase, faults>>

\* MarketTriggerContinuationWriter.enqueue, by a finalizer that found its
\* episode; a writer that is closing or has failed refuses.
Enqueue(j, after) ==
    IF phase = "closing" \/ fatal
    THEN Goto(j, "raised") /\ UNCHANGED queue
    ELSE /\ Goto(j, after)
         /\ queue' = Append(queue, [job |-> j, episode |-> Latest(Known(j))])

\* finalize_pump, finalize_pumpswap: the window is looked up once more.
Lookup(j, after) ==
    /\ IF Known(j) # {}
       THEN Enqueue(j, after)
       ELSE Goto(j, "waiting") /\ UNCHANGED queue
    /\ UNCHANGED <<now, key, at, inline, plan, tries, storeVars, cache, gate,
                   batch, wpc, stopping, fatal, phase, faults>>

\* ... on the event loop, where handle_radar_result follows at once
FinalizeInline(j) == pc[j] = "inline" /\ Lookup(j, "reported")

\* ... in a lane, which returns to the loop
Finalize(j) == pc[j] = "locked" /\ Lookup(j, "returned")

-----------------------------------------------------------------------------
(* The commit lanes.                                                       *)

\* A thread of the lane takes the job.  One Pump commit worker awaits the
\* commits one after the other, until one raises.
Start(j) ==
    /\ phase = "open"
    /\ LoopFree
    /\ pc[j] = "queued"
    /\ IsPump(j) => \A i \in Jobs \ inline :
        IsPump(i) => /\ i < j => pc[i] # "queued"
                     /\ pc[i] \notin Assigning \cup {"starting", "locked", "raised"}
    /\ Goto(j, "starting")
    /\ UNCHANGED <<now, key, at, inline, plan, tries, storeVars, cache, gate,
                   writerVars, phase, faults>>

\* The lock of the token; a thread waits for it, and goes on, past the
\* deadline.
Lock(j) ==
    /\ pc[j] = "starting"
    /\ \A i \in Jobs : InLane(i) => Token(i) # Token(j)
    /\ Goto(j, "locked")
    /\ UNCHANGED <<now, key, at, inline, plan, tries, storeVars, cache, gate,
                   writerVars, phase, faults>>

\* The write admission, which is taken down once the writer has stopped: a call
\* that outlives the run does without.
EnterGate(j) ==
    /\ pc[j] = "waiting"
    /\ \/ gate = Nobody /\ gate' = j
       \/ wpc = "stopped" /\ UNCHANGED gate
    /\ Goto(j, "reading")
    /\ UNCHANGED <<now, key, at, inline, plan, tries, storeVars, cache,
                   writerVars, phase, faults>>

LeaveGate(j) == gate' = IF gate = j THEN Nobody ELSE gate

\* The open episode that the job belongs to.
Current(j) == {e \in DOMAIN opened : TokenOf[e] = Token(j) /\ Holds(e, at[j])}

\* Mutant of Later: an episode that was opened by a later trigger is not seen.
LaterUnseen(j) == {}

\* The episodes opened after the job's time whose window the job's would meet.
Later(j) ==
    {e \in DOMAIN opened :
        TokenOf[e] = Token(j) /\ at[j] < opened[e] /\ opened[e] < at[j] + Window}

\* persist_once, what it reads: SELECTs outside of a transaction.
Select(j) ==
    /\ pc[j] = "reading"
    /\ plan' = [plan EXCEPT ![j] =
        IF key[j] \in DOMAIN triggers
            THEN [does |-> "reuse", episode |-> triggers[key[j]]]
        ELSE IF key[j] \in DOMAIN late
            THEN [does |-> "reuse", episode |-> late[key[j]]]
        ELSE IF Current(j) # {}
            THEN [does |-> "join", episode |-> Latest(Current(j))]
        ELSE IF Later(j) # {}
            THEN [does |-> "suppress", episode |-> Earliest(Later(j))]
        ELSE [does |-> "open", episode |-> key[j]]]
    /\ Goto(j, "writing")
    /\ UNCHANGED <<now, key, at, inline, tries, storeVars, cache, gate, writerVars,
                   phase, faults>>

\* A table after an INSERT of new rows; a key that is stored keeps its row.
Inserted(rows, new) ==
    [k \in DOMAIN rows \cup DOMAIN new |->
        IF k \in DOMAIN rows THEN rows[k] ELSE new[k]]

Row(k, value) == [x \in {k} |-> value]

\* persist_once, what it writes, up to the commit.
Commit(j) ==
    /\ pc[j] = "writing"
    /\ LET does == plan[j].does
           e == plan[j].episode
       IN /\ opened' = IF does = "open" THEN Inserted(opened, Row(e, at[j])) ELSE opened
          /\ triggers' = IF does \in {"open", "join"}
                         THEN Inserted(triggers, Row(key[j], e)) ELSE triggers
          /\ late' = IF does = "suppress" THEN Inserted(late, Row(key[j], e)) ELSE late
    /\ LeaveGate(j)
    /\ Goto(j, "remembering")
    /\ UNCHANGED <<now, key, at, inline, plan, tries, cache, writerVars, phase,
                   faults>>

\* The first write meets a locked database: persist_once is done again from its
\* start, or the exception leaves the finalizer.
Busy(j) ==
    /\ pc[j] = "writing"
    /\ faults < MaxFaults /\ faults' = faults + 1
    /\ IF tries[j] < Retries
       THEN /\ tries' = [tries EXCEPT ![j] = @ + 1]
            /\ Goto(j, "reading") /\ UNCHANGED gate
       ELSE Goto(j, "raised") /\ LeaveGate(j) /\ UNCHANGED tries
    /\ plan' = [plan EXCEPT ![j] = NoPlan]
    /\ UNCHANGED <<now, key, at, inline, storeVars, cache, writerVars, phase>>

\* Mutant of Remembered: the cache has the last episode of each token.
RememberedLast(e) == {f \in cache : TokenOf[f] # TokenOf[e]} \cup {e}

\* cache.remember
Remembered(e) == cache \cup {e}

Remember(j) ==
    /\ pc[j] = "remembering"
    /\ cache' = Remembered(plan[j].episode)
    /\ plan' = [plan EXCEPT ![j] = NoPlan]
    /\ Goto(j, IF j \in inline THEN "reported" ELSE "returned")
    /\ UNCHANGED <<now, key, at, inline, tries, storeVars, gate, writerVars, phase,
                   faults>>

\* handle_radar_result; after the deadline the task that would call it is
\* cancelled.
Report(j) ==
    /\ phase = "open"
    /\ LoopFree
    /\ pc[j] = "returned"
    /\ Goto(j, "reported")
    /\ UNCHANGED <<now, key, at, inline, plan, tries, storeVars, cache, gate,
                   writerVars, phase, faults>>

-----------------------------------------------------------------------------
(* The continuation writer's thread, _run.                                 *)

\* The next item of the queue joins the batch; the sentinel ends it.
Take ==
    /\ wpc = "collecting"
    /\ queue # <<>> /\ Len(batch) < BatchSize
    /\ queue' = Tail(queue)
    /\ IF Head(queue) = Sentinel
       THEN /\ stopping' = TRUE
            /\ wpc' = IF batch = <<>> THEN "stopped" ELSE "waiting"
            /\ UNCHANGED batch
       ELSE /\ batch' = Append(batch, Head(queue))
            /\ UNCHANGED <<wpc, stopping>>
    /\ UNCHANGED <<now, jobVars, storeVars, cache, gate, fatal, phase, faults>>

\* The batch is full, or max_wait_seconds are over.
EndCollect ==
    /\ wpc = "collecting" /\ batch # <<>>
    /\ wpc' = "waiting"
    /\ UNCHANGED <<now, jobVars, storeVars, cache, gate, queue, batch, stopping,
                   fatal, phase, faults>>

\* _validate_expected_episode, after the episode's row is found.
Fits(r) ==
    /\ r.episode \in DOMAIN opened
    /\ TokenOf[r.episode] = Token(r.job)
    /\ Holds(r.episode, at[r.job])

\* The first record of the batch with key k.
FirstWith(k) == CHOOSE i \in DOMAIN batch :
    /\ key[batch[i].job] = k
    /\ \A h \in 1 .. (i - 1) : key[batch[h].job] # k

EndBatch ==
    /\ batch' = <<>>
    /\ wpc' = IF stopping THEN "stopped" ELSE "collecting"
    /\ UNCHANGED <<now, jobVars, opened, late, cache, gate, queue, stopping, phase>>

\* _persist_continuation_batch_db_stage: one transaction, once the write
\* admission is free; a key that is stored stays as it is (INSERT OR IGNORE).
Persist ==
    /\ wpc = "waiting" /\ gate = Nobody
    /\ \A r \in Range(batch) : Fits(r)
    /\ triggers' = Inserted(triggers,
        [k \in {key[r.job] : r \in Range(batch)} |-> batch[FirstWith(k)].episode])
    /\ EndBatch
    /\ UNCHANGED <<fatal, faults>>

\* The batch raises, of its own or because the database is locked: nothing of
\* it is stored, and the thread goes on with the next one.
PersistFails ==
    /\ wpc = "waiting" /\ gate = Nobody
    /\ LET refused == \E r \in Range(batch) : ~Fits(r)
       IN /\ refused \/ faults < MaxFaults
          /\ faults' = IF refused THEN faults ELSE faults + 1
    /\ fatal' = TRUE
    /\ EndBatch
    /\ UNCHANGED triggers

-----------------------------------------------------------------------------
(* The end of the run.                                                     *)

\* The deadline, or a task that has raised: the tasks are cancelled, and with
\* them every job that is not in a thread.
Deadline ==
    /\ phase = "open"
    /\ LoopFree
    /\ phase' = "ending"
    /\ UNCHANGED <<now, jobVars, storeVars, cache, gate, writerVars, faults>>

\* Mutant of Closed: close(cancel_pending=True).
ClosedAtOnce == <<Sentinel>>

\* What close(cancel_pending=False) makes of the queue.
Closed == Append(queue, Sentinel)

\* run_smoke_v27, finally: writer.close
CloseWriter ==
    /\ phase = "ending"
    /\ phase' = "closing"
    /\ queue' = Closed
    /\ UNCHANGED <<now, jobVars, storeVars, cache, gate, batch, wpc, stopping,
                   fatal, faults>>

\* What a thread does: it is not asked to stop.
Thread(j) ==
    Lock(j) \/ Finalize(j) \/ EnterGate(j) \/ Select(j) \/ Commit(j) \/ Remember(j)

Continuations == Take \/ EndCollect \/ Persist \/ PersistFails

Next ==
    \/ Tick \/ Deadline \/ CloseWriter
    \/ \E j \in Jobs :
        Arrive(j) \/ Classify(j) \/ FinalizeInline(j) \/ Start(j) \/ Thread(j)
        \/ Busy(j) \/ Report(j)
    \/ Continuations

Spec == Init /\ [][Next]_vars

\* The threads are scheduled; nothing makes notifications come or the run end.
Fairness ==
    /\ WF_vars(Continuations)
    /\ \A j \in Jobs : WF_vars(Thread(j))

FairSpec == Spec /\ Fairness

-----------------------------------------------------------------------------
(* Properties.                                                             *)

\* What the variables hold.
TypeOK ==
    /\ now \in 0 .. MaxTime
    /\ pc \in [Jobs -> {"idle", "prepared", "inline", "queued", "starting", "locked",
                        "returned", "reported", "raised"} \cup Assigning]
    /\ key \in [Jobs -> Keys]
    /\ at \in [Jobs -> 0 .. MaxTime]
    /\ inline \subseteq Jobs
    /\ tries \in [Jobs -> 0 .. Retries]
    /\ DOMAIN opened \subseteq Keys /\ Range(opened) \subseteq 0 .. MaxTime
    /\ DOMAIN triggers \subseteq Keys /\ Range(triggers) \subseteq Keys
    /\ DOMAIN late \subseteq Keys /\ Range(late) \subseteq Keys
    /\ cache \subseteq Keys
    /\ gate \in Jobs \cup {Nobody}
    /\ wpc \in {"collecting", "waiting", "stopped"}
    /\ stopping \in BOOLEAN /\ fatal \in BOOLEAN
    /\ phase \in {"open", "ending", "closing"}
    /\ faults \in 0 .. MaxFaults

\* No retroactive enrollment: whatever the order in which the two pipelines come
\* to the store, and however often an assignment is done again, the windows of
\* the episodes of one token never overlap, and a token has one open episode at
\* any time.
WindowsDisjoint ==
    \A e, f \in DOMAIN opened :
        e # f /\ TokenOf[e] = TokenOf[f] =>
            opened[e] + Window <= opened[f] \/ opened[f] + Window <= opened[e]

\* What a finalizer hands to the continuation writer on the word of the cache
\* is what the store will take: the episode is stored, is of the token, and its
\* window contains the trigger.  The writer has no other reason to fail than a
\* locked database.
ContinuationsFit ==
    \A r \in Range(queue) \cup Range(batch) : r # Sentinel => Fits(r)

\* An assignment runs in a lane, with the lock of its token, never on the event
\* loop: what was a continuation when the notification was classified is one
\* when it is finalized, whatever the lanes commit in between.
OpenersSerialized ==
    \A j \in Jobs : pc[j] \in Assigning =>
        /\ j \notin inline
        /\ \A i \in Jobs \ {j} : pc[i] \in Assigning => Token(i) # Token(j)

Audited(j) == key[j] \in DOMAIN triggers \cup DOMAIN late

\* In the end every hit that was reported has its row, be it written long after
\* and past the end of the run, or the writer's failure is kept for close to
\* raise.
EveryHitAudited ==
    <>[](fatal \/ \A j \in Jobs : pc[j] = "reported" => Audited(j))

=============================================================================
