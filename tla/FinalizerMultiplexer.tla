------------------------- MODULE FinalizerMultiplexer -------------------------
(***************************************************************************)
(* The PumpSwap finalizer task (src/unified_market_latency_smoke_v19.py):  *)
(* next_pumpswap_work serves stateful work from the scheduler's ready      *)
(* queue and audit items from the bounded demoted-audit queue, with a      *)
(* bound on how many stateful jobs pass while an audit waits.  When both   *)
(* queues are empty it waits with one helper task on each.                 *)
(*                                                                         *)
(* A step lasts from one await to the next.  Stateful work is anonymous    *)
(* and arrives for ever; audit items are told apart.  At the deadline, or  *)
(* when a task has failed, the monitor counts the audit items that are     *)
(* left, cancels the tasks and waits for them.                             *)
(***************************************************************************)
EXTENDS Integers, Sequences, FiniteSets

CONSTANTS
    Audits,        \* bound: the payloads that are ever demoted
    QueueSize,     \* maxsize of the demoted-audit queue
    BurstLimit,    \* demoted_audit_stateful_burst_limit
    MaxReady       \* bound: stateful jobs in the ready queue at a time

ASSUME MultiplexerAssumption ==
    /\ QueueSize \in Nat \ {0}
    /\ BurstLimit \in Nat \ {0}
    /\ MaxReady \in Nat \ {0}

VARIABLES
    ready,        \* size of the scheduler's ready queue
    auditQueue,   \* pumpswap_demoted_audit_queue
    unfinished,   \* _unfinished_tasks of the audit queue
    burst,        \* demoted_audit_stateful_burst, saturated at BurstLimit
    pc,           \* the await the finalizer stands at
    readyTask,    \* the helper task on the ready queue
    auditTask,    \* the helper task on the audit queue
    hand,         \* the audit item a helper or the finalizer has taken
    inService,    \* pumpswap_demoted_audit_in_service
    monitor,      \* the main task
    failed,       \* a task ended with an exception
    reported,     \* pumpswap_demoted_audit_pending_at_deadline
    demoted,      \* history: payloads handed to the audit lane
    finalized,    \* history: audit items whose finalizer returned
    overtakes,    \* history: stateful jobs begun since an audit could go
    transit       \* history: an audit item was taken but not in service when
                  \*          the monitor counted

queues == <<ready, auditQueue, unfinished>>
tasks == <<burst, pc, readyTask, auditTask, hand, inService>>
ending == <<monitor, failed, reported, transit>>
history == <<demoted, finalized, overtakes>>
vars == <<queues, tasks, ending, history>>

-----------------------------------------------------------------------------

AuditWaits == auditQueue # <<>>

HasRoom == Len(auditQueue) < QueueSize

\* Mutant of MayPass: an audit item waits for an idle moment.
MayAlwaysPass == TRUE

\* Stateful work may go first.
MayPass == ~AuditWaits \/ burst < BurstLimit

CountBurst == burst' = IF burst < BurstLimit THEN burst + 1 ELSE burst

\* The number of stateful jobs begun in a row while an audit item waits,
\* saturated one above the limit.
CountOvertake(waits) ==
    overtakes' = IF ~waits THEN 0
                 ELSE IF overtakes > BurstLimit THEN overtakes ELSE overtakes + 1

Idle == readyTask' = "none" /\ auditTask' = "none"

Init ==
    /\ ready = 0
    /\ auditQueue = <<>>
    /\ unfinished = 0
    /\ burst = 0
    /\ pc = "choose"
    /\ readyTask = "none"
    /\ auditTask = "none"
    /\ hand = {}
    /\ inService = FALSE
    /\ monitor = "running"
    /\ failed = FALSE
    /\ reported = 0
    /\ transit = FALSE
    /\ demoted = {}
    /\ finalized = {}
    /\ overtakes = 0

-----------------------------------------------------------------------------
(* The scheduler's side.                                                   *)

\* A job becomes ready.
PutReady ==
    /\ monitor = "running"
    /\ ready < MaxReady
    /\ ready' = ready + 1
    /\ UNCHANGED <<auditQueue, unfinished, tasks, ending, history>>

\* _demote_proven_pending hands a payload to the audit lane: put_nowait, which
\* raises when the queue is full and so ends the run.
PutAudit(a) ==
    /\ monitor = "running"
    /\ a \notin demoted
    /\ IF HasRoom
       THEN /\ auditQueue' = Append(auditQueue, a)
            /\ unfinished' = unfinished + 1
            /\ demoted' = demoted \cup {a}
            /\ UNCHANGED failed
       ELSE /\ failed' = TRUE
            /\ UNCHANGED <<auditQueue, unfinished, demoted>>
    /\ UNCHANGED <<ready, tasks, monitor, reported, transit, finalized, overtakes>>

-----------------------------------------------------------------------------
(* next_pumpswap_work.                                                     *)

TakeStateful ==
    /\ ready > 0
    /\ MayPass
    /\ ready' = ready - 1
    /\ CountBurst
    /\ CountOvertake(AuditWaits)
    /\ pc' = "stateful"
    /\ UNCHANGED <<auditQueue, unfinished, readyTask, auditTask, hand, inService,
                   ending, demoted, finalized>>

BeginAudit(a) ==
    /\ hand' = {a}
    /\ inService' = TRUE
    /\ burst' = 0
    /\ overtakes' = 0
    /\ pc' = "audit"

TakeAudit ==
    /\ AuditWaits
    /\ ~(ready > 0 /\ MayPass)
    /\ BeginAudit(Head(auditQueue))
    /\ auditQueue' = Tail(auditQueue)
    /\ UNCHANGED <<ready, unfinished, readyTask, auditTask, ending, demoted,
                   finalized>>

StartWaiting ==
    /\ ready = 0
    /\ ~AuditWaits
    /\ readyTask' = "waiting"
    /\ auditTask' = "waiting"
    /\ pc' = "waiting"
    /\ UNCHANGED <<queues, burst, hand, inService, ending, history>>

Choose == pc = "choose" /\ (TakeStateful \/ TakeAudit \/ StartWaiting)

ReadyHelperGets ==
    /\ readyTask = "waiting"
    /\ ready > 0
    /\ ready' = ready - 1
    /\ readyTask' = "got"
    /\ UNCHANGED <<auditQueue, unfinished, burst, pc, auditTask, hand, inService,
                   ending, history>>

AuditHelperGets ==
    /\ auditTask = "waiting"
    /\ AuditWaits
    /\ hand' = {Head(auditQueue)}
    /\ auditQueue' = Tail(auditQueue)
    /\ auditTask' = "got"
    /\ UNCHANGED <<ready, unfinished, burst, pc, readyTask, inService, ending,
                   history>>

\* asyncio.wait times out: the helpers, which took nothing, are cancelled.
WaitTimesOut ==
    /\ pc = "waiting"
    /\ readyTask = "waiting"
    /\ auditTask = "waiting"
    /\ Idle
    /\ pc' = "choose"
    /\ UNCHANGED <<queues, burst, hand, inService, ending, history>>

\* Both helpers are done on a fairness turn: the job goes back to the end of
\* the ready queue and the audit item is served.
WokenForAudit ==
    /\ pc = "waiting"
    /\ readyTask = "got" /\ auditTask = "got"
    /\ burst >= BurstLimit
    /\ ready' = ready + 1
    /\ \E a \in hand : BeginAudit(a)
    /\ Idle
    /\ UNCHANGED <<auditQueue, unfinished, ending, demoted, finalized>>

\* Mutant of WokenForBoth: the audit item is not put back.
WokenForBothKeepsJob ==
    /\ pc = "waiting"
    /\ readyTask = "got" /\ auditTask = "got"
    /\ burst < BurstLimit
    /\ Idle
    /\ hand' = {}
    /\ unfinished' = unfinished - 1
    /\ pc' = "stateful" /\ CountBurst /\ CountOvertake(TRUE)
    /\ UNCHANGED <<ready, auditQueue, inService, ending, demoted, finalized>>

\* An audit item that was taken is put back: task_done, then put_nowait, which
\* raises when the queue has filled up in the meantime.
PutBack ==
    IF HasRoom
    THEN /\ \E a \in hand : auditQueue' = Append(auditQueue, a)
         /\ UNCHANGED unfinished
    ELSE /\ unfinished' = unfinished - 1
         /\ UNCHANGED auditQueue

\* Both are done and the job goes first.
WokenForBoth ==
    /\ pc = "waiting"
    /\ readyTask = "got" /\ auditTask = "got"
    /\ burst < BurstLimit
    /\ Idle
    /\ PutBack
    /\ hand' = {}
    /\ IF HasRoom
       THEN pc' = "stateful" /\ CountBurst /\ CountOvertake(TRUE) /\ UNCHANGED failed
       ELSE pc' = "dead" /\ failed' = TRUE /\ UNCHANGED <<burst, overtakes>>
    /\ UNCHANGED <<ready, inService, monitor, reported, transit, demoted, finalized>>

\* One helper is done: the other is cancelled and awaited, the work in hand.
WokenForReady ==
    /\ pc = "waiting"
    /\ readyTask = "got" /\ auditTask = "waiting"
    /\ auditTask' = "none"
    /\ pc' = "settleReady"
    /\ CountOvertake(AuditWaits)
    /\ UNCHANGED <<queues, burst, readyTask, hand, inService, ending, demoted,
                   finalized>>

WokenForAuditOnly ==
    /\ pc = "waiting"
    /\ readyTask = "waiting" /\ auditTask = "got"
    /\ readyTask' = "none"
    /\ pc' = "settleAudit"
    /\ UNCHANGED <<queues, burst, auditTask, hand, inService, ending, history>>

SettleReady ==
    /\ pc = "settleReady"
    /\ Idle
    /\ CountBurst
    /\ pc' = "stateful"
    /\ UNCHANGED <<queues, hand, inService, ending, history>>

SettleAudit ==
    /\ pc = "settleAudit"
    /\ Idle
    /\ \E a \in hand : BeginAudit(a)
    /\ UNCHANGED <<queues, ending, demoted, finalized>>

Wake == WokenForAudit \/ WokenForBoth \/ WokenForReady \/ WokenForAuditOnly

Settle == SettleReady \/ SettleAudit

-----------------------------------------------------------------------------
(* pumpswap_finalize_worker.                                               *)

EndStateful ==
    /\ pc = "stateful"
    /\ pc' = "choose"
    /\ UNCHANGED <<queues, burst, readyTask, auditTask, hand, inService, ending,
                   history>>

\* The finally clause.
LeaveAudit ==
    /\ unfinished' = unfinished - 1
    /\ hand' = {}
    /\ inService' = FALSE

EndAudit ==
    /\ pc = "audit"
    /\ LeaveAudit
    /\ finalized' = finalized \cup hand
    /\ pc' = "choose"
    /\ UNCHANGED <<ready, auditQueue, burst, readyTask, auditTask, ending, demoted,
                   overtakes>>

\* A finalizer raises: the task ends, and with it the run.
ServiceFails ==
    /\ \/ pc = "stateful" /\ UNCHANGED <<unfinished, hand, inService>>
       \/ pc = "audit" /\ LeaveAudit
    /\ pc' = "dead"
    /\ failed' = TRUE
    /\ UNCHANGED <<ready, auditQueue, burst, readyTask, auditTask, monitor,
                   reported, transit, history>>

-----------------------------------------------------------------------------
(* The monitor at the end of run_smoke_v19.                                *)

\* Mutant of LeftOver: the item being finalized is taken for finished.
LeftOverQueued == Len(auditQueue)

LeftOver == Len(auditQueue) + (IF inService THEN 1 ELSE 0)

\* The deadline has come, or a failed task was found.  Cancelled tasks do
\* nothing but unwind from now on.
CountAndCancel ==
    /\ monitor = "running"
    /\ monitor' = "cancelling"
    /\ reported' = LeftOver
    /\ transit' = (hand # {} /\ ~inService)
    /\ UNCHANGED <<queues, tasks, failed, history>>

\* The CancelledError reaches the finalizer at the await where it stands.
Unwind ==
    /\ monitor = "cancelling"
    /\ pc # "dead"
    /\ pc' = "dead"
    /\ Idle
    /\ hand' = {}
    /\ \/ pc = "settleAudit" /\ PutBack /\ UNCHANGED inService
       \/ pc = "audit" /\ LeaveAudit /\ UNCHANGED auditQueue
       \/ /\ pc \notin {"settleAudit", "audit"}
          /\ UNCHANGED <<auditQueue, unfinished, inService>>
    /\ UNCHANGED <<ready, burst, ending, history>>

Stop ==
    /\ monitor = "cancelling"
    /\ pc = "dead"
    /\ monitor' = "stopped"
    /\ UNCHANGED <<queues, tasks, failed, reported, transit, history>>

-----------------------------------------------------------------------------

Helpers == ReadyHelperGets \/ AuditHelperGets

\* The finalizer goes on.
Finalizer == Choose \/ Wake \/ Settle \/ EndStateful \/ EndAudit

Next ==
    \/ PutReady
    \/ \E a \in Audits : PutAudit(a)
    \/ monitor = "running" /\ (Finalizer \/ WaitTimesOut \/ ServiceFails)
    \/ monitor # "stopped" /\ Helpers
    \/ CountAndCancel
    \/ Unwind
    \/ Stop

Spec == Init /\ [][Next]_vars

\* The event loop runs what is ready and a finalizer ends.  Nothing is assumed
\* of the scheduler's side, of timeouts or of the deadline.
FairSpec ==
    /\ Spec
    /\ WF_vars(monitor = "running" /\ Finalizer)
    /\ WF_vars(monitor # "stopped" /\ ReadyHelperGets)
    /\ WF_vars(monitor # "stopped" /\ AuditHelperGets)

-----------------------------------------------------------------------------

QueuedAudits == {auditQueue[i] : i \in 1 .. Len(auditQueue)}

TypeOK ==
    /\ ready \in 0 .. MaxReady + 1
    /\ auditQueue \in Seq(Audits)
    /\ Len(auditQueue) <= QueueSize
    /\ unfinished \in Nat
    /\ burst \in 0 .. BurstLimit
    /\ pc \in {"choose", "waiting", "settleReady", "settleAudit", "stateful",
               "audit", "dead"}
    /\ readyTask \in {"none", "waiting", "got"}
    /\ auditTask \in {"none", "waiting", "got"}
    /\ hand \in SUBSET Audits
    /\ inService \in BOOLEAN
    /\ monitor \in {"running", "cancelling", "stopped"}
    /\ failed \in BOOLEAN
    /\ reported \in Nat
    /\ transit \in BOOLEAN
    /\ demoted \in SUBSET Audits
    /\ finalized \in SUBSET Audits
    /\ overtakes \in Nat

\* While the run goes on, a demoted payload is queued, taken or finalized, and
\* only one of these.
EvidenceInOnePlace ==
    /\ monitor = "running" /\ ~failed => demoted = QueuedAudits \cup hand \cup finalized
    /\ QueuedAudits \cap (hand \cup finalized) = {}
    /\ hand \cap finalized = {}
    /\ Cardinality(QueuedAudits) = Len(auditQueue)

\* task_done() is called once for every put: the queue's own count is that of
\* the items that wait or are in somebody's hands.
TaskDoneBalanced ==
    monitor = "running" => unfinished = Len(auditQueue) + Cardinality(hand)

\* An audit item that waits sees at most BurstLimit stateful jobs begin.
BoundedBurst == overtakes <= BurstLimit

\* What the deadline count says covers the evidence that was not finalized,
\* unless an item was on its way from the queue to the finalizer.
DeadlineCountCovers ==
    monitor = "stopped" /\ ~failed /\ ~transit
      => Cardinality(demoted \ finalized) <= reported

\* However much stateful work keeps coming, a demoted payload is finalized
\* unless the run ends.
EveryAuditServed ==
    \A a \in Audits :
        a \in demoted ~> (a \in finalized \/ failed \/ monitor # "running")

=============================================================================
