--------------------------- MODULE TokenCommitLanes ---------------------------
(***************************************************************************)
(* CrossSourceTokenCommitLanes (src/cross_source_token_commit_lanes.py):   *)
(* Pump and PumpSwap finalizers run in a thread pool of their source, and  *)
(* every call locks the tokens it commits, one lock after the other in the *)
(* sorted order of the mints.  The locks are shared by both lanes.         *)
(*                                                                         *)
(* Calls are submitted and cancelled on the event loop; each lock          *)
(* operation of a worker thread is a step of its own.  A token is its      *)
(* place in the sorted order of the mints.                                 *)
(***************************************************************************)
EXTENDS Integers, Sequences, FiniteSets

CONSTANTS
    Calls,         \* the calls of run_sync_stage that are routed to a lane
    NumTokens,     \* bound: how many token mints there are
    PumpWorkers,
    PumpSwapWorkers

ASSUME LanesAssumption ==
    /\ NumTokens \in Nat
    /\ PumpWorkers \in Nat \ {0}
    /\ PumpSwapWorkers \in Nat \ {0}

Tokens == 1 .. NumTokens
Sources == {"pump", "pumpswap"}
Workers(s) == IF s = "pump" THEN PumpWorkers ELSE PumpSwapWorkers

VARIABLES
    stage,         \* where each call is
    source,        \* the lane of each call
    keys,          \* _trigger_token_keys of each call
    held,          \* acquired: the locks each call holds
    lane,          \* the work queue of each executor
    activeTokens,  \* _active_tokens
    overlaps,      \* same_token_overlap_violations is not zero
    closing        \* how far close() has come

lanesVars == <<stage, source, keys, held, lane, activeTokens, overlaps, closing>>

-----------------------------------------------------------------------------

AtWork == {"locking", "running", "releasing"}

Busy(s) == {c \in Calls : source[c] = s /\ stage[c] \in AtWork}

\* The lane has neither queued nor running work.
Drained(s) == lane[s] = <<>> /\ Busy(s) = {}

\* Mutant of LockFree: each lane has token locks of its own.
LockFreeInLane(t, c) ==
    \A d \in Calls \ {c} : source[d] = source[c] => t \notin held[d]

\* Nobody else holds the lock of t (Lock.acquire() by c).
LockFree(t, c) == \A d \in Calls \ {c} : t \notin held[d]

\* Mutant of NextLock: each source takes the tokens in an order of its own.
NextLockUnsorted(c, t) ==
    /\ t \in keys[c] \ held[c]
    /\ \A u \in keys[c] \ held[c] : IF source[c] = "pump" THEN t <= u ELSE u <= t

\* t is the first token in sorted order that c has not locked yet.
NextLock(c, t) ==
    /\ t \in keys[c] \ held[c]
    /\ \A u \in keys[c] \ held[c] : t <= u

LanesInit ==
    /\ stage = [c \in Calls |-> "idle"]
    /\ source = [c \in Calls |-> "pump"]
    /\ keys = [c \in Calls |-> {}]
    /\ held = [c \in Calls |-> {}]
    /\ lane = [s \in Sources |-> <<>>]
    /\ activeTokens = {}
    /\ overlaps = FALSE
    /\ closing = "open"

-----------------------------------------------------------------------------
(* The event loop.                                                         *)

\* run_sync_stage.  A call without trigger tokens is left to the inherited
\* runner and never gets here.
Submit(c, s, T) ==
    /\ closing = "open"
    /\ stage[c] = "idle"
    /\ T # {}
    /\ stage' = [stage EXCEPT ![c] = "queued"]
    /\ source' = [source EXCEPT ![c] = s]
    /\ keys' = [keys EXCEPT ![c] = T]
    /\ lane' = [lane EXCEPT ![s] = Append(@, c)]
    /\ UNCHANGED <<held, activeTokens, overlaps, closing>>

\* The awaiting task is cancelled.  Work that is still queued is marked and
\* never begins; a worker that has begun goes on, and nobody awaits it any more.
Cancel(c) ==
    /\ closing = "open"
    /\ stage[c] = "queued"
    /\ stage' = [stage EXCEPT ![c] = "dropped"]
    /\ UNCHANGED <<source, keys, held, lane, activeTokens, overlaps, closing>>

\* Mutant of CloseLane: shutdown does not wait for the calls at work.
CloseLaneAtOnce(s, from, to) ==
    /\ closing = from
    /\ lane[s] = <<>>
    /\ closing' = to
    /\ UNCHANGED <<stage, source, keys, held, lane, activeTokens, overlaps>>

\* executor.shutdown(wait=True, cancel_futures=False) returns.
CloseLane(s, from, to) ==
    /\ closing = from
    /\ Drained(s)
    /\ closing' = to
    /\ UNCHANGED <<stage, source, keys, held, lane, activeTokens, overlaps>>

\* close() blocks the event loop and closes the lanes one after the other.
Close ==
    /\ closing = "open"
    /\ closing' = "pump"
    /\ UNCHANGED <<stage, source, keys, held, lane, activeTokens, overlaps>>

-----------------------------------------------------------------------------
(* The worker threads.                                                     *)

\* A free worker takes the call at the head of its lane.
Take(c) ==
    LET s == source[c] IN
    /\ lane[s] # <<>>
    /\ c = Head(lane[s])
    /\ Cardinality(Busy(s)) < Workers(s)
    /\ lane' = [lane EXCEPT ![s] = Tail(@)]

\* The call begins and looks up its locks.
Start(c) ==
    /\ Take(c)
    /\ stage[c] = "queued"
    /\ stage' = [stage EXCEPT ![c] = "locking"]
    /\ UNCHANGED <<source, keys, held, activeTokens, overlaps, closing>>

\* A call that was cancelled in the queue is passed over.
Discard(c) ==
    /\ Take(c)
    /\ stage[c] = "dropped"
    /\ UNCHANGED <<stage, source, keys, held, activeTokens, overlaps, closing>>

Acquire(c, t) ==
    /\ stage[c] = "locking"
    /\ NextLock(c, t)
    /\ LockFree(t, c)
    /\ held' = [held EXCEPT ![c] = @ \cup {t}]
    /\ UNCHANGED <<stage, source, keys, lane, activeTokens, overlaps, closing>>

\* All locks are held: the overlap meter, then the commit.
Enter(c) ==
    /\ stage[c] = "locking"
    /\ held[c] = keys[c]
    /\ overlaps' = (overlaps \/ activeTokens \cap keys[c] # {})
    /\ activeTokens' = activeTokens \cup keys[c]
    /\ stage' = [stage EXCEPT ![c] = "running"]
    /\ UNCHANGED <<source, keys, held, lane, closing>>

\* The commit returns or raises; the finally clause is the same.
Finish(c) ==
    /\ stage[c] = "running"
    /\ activeTokens' = activeTokens \ keys[c]
    /\ stage' = [stage EXCEPT ![c] = "releasing"]
    /\ UNCHANGED <<source, keys, held, lane, overlaps, closing>>

\* The locks are released in reverse order.
Unlock(c, t) ==
    /\ stage[c] = "releasing"
    /\ t \in held[c]
    /\ \A u \in held[c] : u <= t
    /\ held' = [held EXCEPT ![c] = @ \ {t}]
    /\ UNCHANGED <<stage, source, keys, lane, activeTokens, overlaps, closing>>

Return(c) ==
    /\ stage[c] = "releasing"
    /\ held[c] = {}
    /\ stage' = [stage EXCEPT ![c] = "over"]
    /\ UNCHANGED <<source, keys, held, lane, activeTokens, overlaps, closing>>

Work(c) ==
    \/ Start(c) \/ Discard(c) \/ Enter(c) \/ Finish(c) \/ Return(c)
    \/ \E t \in Tokens : Acquire(c, t) \/ Unlock(c, t)

CloseNext == CloseLane("pump", "pump", "pumpswap")
             \/ CloseLane("pumpswap", "pumpswap", "closed")

LanesNext ==
    \/ \E c \in Calls :
          \/ \E s \in Sources, T \in SUBSET Tokens : Submit(c, s, T)
          \/ Cancel(c)
          \/ Work(c)
    \/ Close
    \/ CloseNext

LanesSpec == LanesInit /\ [][LanesNext]_lanesVars

\* Threads run, a commit comes to an end, and close() is not interrupted.
\* Each call happens once, so a lock is contended finitely often.
LanesFairSpec ==
    /\ LanesSpec
    /\ \A c \in Calls : WF_lanesVars(Work(c))
    /\ WF_lanesVars(CloseNext)

-----------------------------------------------------------------------------

LanesTypeOK ==
    /\ stage \in [Calls -> AtWork \cup {"idle", "queued", "dropped", "over"}]
    /\ source \in [Calls -> Sources]
    /\ keys \in [Calls -> SUBSET Tokens]
    /\ held \in [Calls -> SUBSET Tokens]
    /\ lane \in [Sources -> Seq(Calls)]
    /\ activeTokens \in SUBSET Tokens
    /\ overlaps \in BOOLEAN
    /\ closing \in {"open", "pump", "pumpswap", "closed"}

\* Two commits of the same token never run at the same time, whichever lanes
\* they come from.
TokensSerialized ==
    \A c, d \in Calls :
        c # d /\ stage[c] = "running" /\ stage[d] = "running" => keys[c] \cap keys[d] = {}

\* The overlap meter, on which the run fails closed, has the tokens of exactly
\* the running commits, and so reports no overlap that did not happen.
MeterExact ==
    /\ activeTokens = UNION {keys[c] : c \in {d \in Calls : stage[d] = "running"}}
    /\ ~overlaps

\* What a worker thread can do next.
CanMove(c) ==
    \/ stage[c] \in {"running", "releasing"}
    \/ stage[c] = "locking" /\ held[c] = keys[c]
    \/ stage[c] = "locking" /\ \E t \in Tokens : NextLock(c, t) /\ LockFree(t, c)

\* As long as a worker is at work, one of them is not waiting for a lock.
NoLockDeadlock ==
    (\E c \in Calls : stage[c] \in AtWork) => \E c \in Calls : CanMove(c)

\* Once close() has returned no thread commits any more, not even for a call
\* whose task was cancelled.
QuietAfterClose ==
    closing = "closed" => \A c \in Calls : stage[c] \notin AtWork \cup {"queued"}

\* Every accepted call comes to an end, and so does close().
EveryCallEnds ==
    /\ \A c \in Calls : stage[c] = "queued" ~> stage[c] \in {"dropped", "over"}
    /\ closing # "open" ~> closing = "closed"

=============================================================================
