--------------------------- MODULE DemotingScheduler ---------------------------
(***************************************************************************)
(* The scheduler the route-research runners install in place of            *)
(* ReadyAssetScheduler: pending jobs that a finalized predecessor has      *)
(* proven to be continuations are demoted, i.e. their tickets become       *)
(* no-ops and their payload goes to an audit                               *)
(* (src/pumpswap_demoting_scheduler_v34.py); a demotion pass also runs     *)
(* before each submit (src/pumpswap_eager_demoting_scheduler_v42.py); the  *)
(* ready queue gives stateful work before demoted work                     *)
(* (src/pumpswap_stateful_priority_scheduler_v51.py).                      *)
(*                                                                         *)
(* A call that demotes and then submits or completes is two steps of the   *)
(* model with nothing in between: `call' shuts everything else out.  The   *)
(* proof itself belongs to the runner's episode cache, so any pending job  *)
(* may be found proven.  In the variables of ReadyAssetScheduler a demoted *)
(* job counts as a no-op, no longer as an accepted one.                    *)
(***************************************************************************)
EXTENDS ReadyAssetScheduler

CONSTANT
    AuditRoom     \* maxsize of the queue behind the audit handler

ASSUME AuditRoomAssumption == AuditRoom \in Nat

VARIABLES
    split,        \* _demoted_audit_handler is set
    acks,         \* _demoted_finalizer_acks
    audits,       \* payloads the audit handler has been given
    lowReady,     \* demoted jobs in the ready queue (priority 1)
    auditing,     \* demoted jobs in a finalizer's hands
    audited,      \* history: demoted jobs that a finalizer has finished
    entered,      \* history: jobs whose submit has returned, demoted or not
    failed,       \* the audit handler has raised: the run is going to end
    call          \* the submit or complete whose demotion pass is over

demotion == <<split, acks, audits, lowReady, auditing, audited, entered, failed,
              call>>
allVars == <<vars, demotion>>

NoCall == [op |-> "none", job |-> 0]

LowQueued == {lowReady[i] : i \in 1 .. Len(lowReady)}

Demoted == LowQueued \cup audits \cup auditing \cup audited

\* The event loop is free.  After an overflow the monitor ends the run when it
\* next looks at its tasks, and until then they go on; which task has ended is
\* left out: here the one that raised may go on as well.
Idle == call = NoCall

DInit ==
    /\ Init
    /\ split \in BOOLEAN
    /\ acks = {}
    /\ audits = {}
    /\ lowReady = <<>>
    /\ auditing = {}
    /\ audited = {}
    /\ entered = {}
    /\ failed = FALSE
    /\ call = NoCall

-----------------------------------------------------------------------------
(* _demote_proven_pending, called by submit (v42) and complete (v34).      *)

\* The handler takes all of D.
Fits(D) == split => Cardinality(audits \cup D) <= AuditRoom

\* The tickets of D become no-ops.
Withdraw(D) ==
    /\ submitted' = submitted \ D
    /\ accepted' = accepted \ D
    /\ noop' = noop \cup D

NoOpsOf(D) ==
    [a \in Assets |->
        skipped[a] \cup {ticket[q][a] : q \in {d \in D : a \in assetsOf[d]}}]

AssetsOf(D) == UNION {assetsOf[q] : q \in D}

\* Mutant of Collapse: the cursors of one demoted job's assets are moved.
CollapseOne(D) ==
    \/ D = {} /\ AdvanceOver({}, completed, skipped, pending)
    \/ \E q \in D :
          AdvanceOver(assetsOf[q], completed, NoOpsOf(D), pending \ D)

\* Mutant of Collapse: the cursors jump over the demoted tickets.
CollapseAhead(D) ==
    AdvanceOver(AssetsOf(D),
                [a \in Assets |->
                    IF a \in AssetsOf(D)
                    THEN CHOOSE n \in {ticket[q][a] + 1 :
                                         q \in {d \in D : a \in assetsOf[d]}} : TRUE
                    ELSE completed[a]],
                NoOpsOf(D), pending \ D)

\* Cursors move over the contiguous no-ops and release who waited for that.
Collapse(D) == AdvanceOver(AssetsOf(D), completed, NoOpsOf(D), pending \ D)

\* Where the payloads go: to the audit handler, or behind the stateful jobs of
\* the ready queue, to be acknowledged by complete().
HandOver(D) ==
    IF split
    THEN audits' = audits \cup D /\ UNCHANGED <<acks, lowReady>>
    ELSE /\ acks' = acks \cup D
         /\ \E order \in Orderings(D) : lowReady' = lowReady \o order
         /\ UNCHANGED audits

DemoteAll(D) ==
    /\ Fits(D)
    /\ Withdraw(D)
    /\ Collapse(D)
    /\ HandOver(D)
    /\ UNCHANGED failed

\* Mutant of Overflow: the job is popped before the handler takes it.
OverflowPops(D, kept) ==
    /\ split /\ ~Fits(D)
    /\ kept \subseteq D /\ kept # D /\ Cardinality(audits \cup kept) = AuditRoom
    /\ \E lost \in D \ kept :
          /\ Withdraw(kept \cup {lost})
          /\ pending' = pending \ (kept \cup {lost})
          /\ byTicket' = {x \in byTicket : x[3] \notin kept \cup {lost}}
          /\ skipped' = NoOpsOf(kept \cup {lost})
    /\ HandOver(kept)
    /\ failed' = TRUE
    /\ UNCHANGED <<completed, ready>>

\* The handler raises when it is full.  The jobs it had taken are demoted, the
\* cursors have not moved, and the exception ends the finalizer or coordinator.
\* Jobs are taken in the order of their submission; any order here.
Overflow(D, kept) ==
    /\ split /\ ~Fits(D)
    /\ kept \subseteq D /\ kept # D /\ Cardinality(audits \cup kept) = AuditRoom
    /\ Withdraw(kept)
    /\ pending' = pending \ kept
    /\ byTicket' = {x \in byTicket : x[3] \notin kept}
    /\ skipped' = NoOpsOf(kept)
    /\ HandOver(kept)
    /\ failed' = TRUE
    /\ UNCHANGED <<completed, ready>>

DemoteProvenPending(then) ==
    /\ \E D \in SUBSET pending :
          \/ DemoteAll(D) /\ call' = then
          \/ \E kept \in SUBSET D : Overflow(D, kept) /\ UNCHANGED call
    /\ UNCHANGED <<nextId, issued, assetsOf, ticket, shutdown, serving, done,
                   split, auditing, audited, entered>>

-----------------------------------------------------------------------------
(* The scheduler's methods.                                                *)

BeginSubmit(r) ==
    /\ Idle /\ ~cancelled
    /\ r < nextId /\ FirstUse(r) /\ r \notin submitted /\ Unspent(r)
    /\ DemoteProvenPending([op |-> "submit", job |-> r])

EndSubmit(r) ==
    /\ call = [op |-> "submit", job |-> r]
    /\ Submit(r)
    /\ entered' = entered \cup {r}
    /\ call' = NoCall
    /\ UNCHANGED <<split, acks, audits, lowReady, auditing, audited, failed>>

BeginComplete(r) ==
    /\ Idle /\ ~cancelled
    /\ r \in serving \ acks
    /\ DemoteProvenPending([op |-> "complete", job |-> r])

EndComplete(r) ==
    /\ call = [op |-> "complete", job |-> r]
    /\ Complete(r)
    /\ call' = NoCall
    /\ UNCHANGED <<split, acks, audits, lowReady, auditing, audited, entered, failed>>

\* reserve, skip, get_ready of a stateful job, requeue_ready_nowait.
AsBefore ==
    /\ Idle
    /\ \/ \E A \in SUBSET Assets : Reserve(A)
       \/ \E r \in Ids : Skip(r) \/ RequeueReady(r)
       \/ GetReady
    /\ UNCHANGED demotion

\* get_ready finds only demoted jobs.
GetDemoted ==
    /\ Idle /\ ~cancelled
    /\ ready = <<>> /\ lowReady # <<>>
    /\ auditing' = auditing \cup {Head(lowReady)}
    /\ lowReady' = Tail(lowReady)
    /\ UNCHANGED <<vars, split, acks, audits, audited, entered, failed, call>>

\* complete of a demoted job: nothing but its acknowledgement.
CompleteDemoted(r) ==
    /\ Idle /\ ~cancelled
    /\ r \in auditing \cap acks
    /\ acks' = acks \ {r}
    /\ auditing' = auditing \ {r}
    /\ audited' = audited \cup {r}
    /\ UNCHANGED <<vars, split, audits, lowReady, entered, failed, call>>

\* The audit lane of the finalizer (FinalizerMultiplexer has its details).
TakeAudit(r) ==
    /\ Idle /\ ~cancelled
    /\ r \in audits
    /\ audits' = audits \ {r}
    /\ auditing' = auditing \cup {r}
    /\ UNCHANGED <<vars, split, acks, lowReady, audited, entered, failed, call>>

EndAudit(r) ==
    /\ Idle /\ ~cancelled
    /\ split /\ r \in auditing
    /\ auditing' = auditing \ {r}
    /\ audited' = audited \cup {r}
    /\ UNCHANGED <<vars, split, acks, audits, lowReady, entered, failed, call>>

\* cancel_waiters; the ready backlog counts both classes.
DCancelWaiters ==
    /\ Idle /\ ~cancelled
    /\ cancelled' = TRUE
    /\ backlog' = [ready |-> Len(ready) + Len(lowReady),
                   waiting |-> Cardinality(pending)]
    /\ pending' = {}
    /\ byTicket' = {}
    /\ skipped' = [a \in Assets |-> {}]
    /\ submitted' = {}
    /\ UNCHANGED <<cursors, ready, history, demotion>>

DNext ==
    \/ \E r \in Ids :
          \/ BeginSubmit(r) \/ EndSubmit(r) \/ BeginComplete(r) \/ EndComplete(r)
          \/ CompleteDemoted(r) \/ TakeAudit(r) \/ EndAudit(r)
    \/ AsBefore
    \/ GetDemoted
    \/ DCancelWaiters

DSpec == DInit /\ [][DNext]_allVars

-----------------------------------------------------------------------------

DTypeOK ==
    /\ TypeOK
    /\ split \in BOOLEAN
    /\ acks \in SUBSET Ids
    /\ audits \in SUBSET Ids
    /\ split => Cardinality(audits) <= AuditRoom
    /\ lowReady \in Seq(Ids)
    /\ auditing \in SUBSET Ids
    /\ audited \in SUBSET Ids
    /\ entered \in SUBSET Ids
    /\ failed \in BOOLEAN
    /\ call \in [op : {"none", "submit", "complete"}, job : Nat]

\* A demoted payload is waiting, in service or finished, in one place, and is
\* no stateful job any more; a job that entered is one or the other, and the
\* acknowledgements complete() goes by are those of the demoted jobs that are
\* not finished.  An overflow does not change that, nor what the tasks do after it.
EvidenceKept ==
    /\ LowQueued \cap (audits \cup auditing \cup audited) = {}
    /\ audits \cap (auditing \cup audited) = {}
    /\ auditing \cap audited = {}
    /\ Len(lowReady) = Cardinality(LowQueued)
    /\ entered = accepted \cup Demoted
    /\ Demoted \cap (pending \cup Live \cup done \cup accepted) = {}
    /\ acks = IF split THEN {} ELSE Demoted \ audited
    /\ ~cancelled => submitted = pending \cup Live

\* No cursor rests on a no-op: who waits behind demoted jobs is not held up.
NoCursorOnNoOp ==
    ~failed /\ ~cancelled => \A a \in Assets : completed[a] \notin skipped[a]

=============================================================================
