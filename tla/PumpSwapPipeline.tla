-------------------------- MODULE PumpSwapPipeline --------------------------
(***************************************************************************)
(* The PumpSwap half of the latency runner (run_smoke_v19 in               *)
(* src/unified_market_latency_smoke_v19.py) with the deferred persistence  *)
(* of src/src/pumpswap_deferred_persistence_v5.py: notifications are       *)
(* numbered on arrival, normalized, written by one batching thread, read   *)
(* back and prepared, while a coordinator takes a ticket for the assets    *)
(* they may touch; a notification goes to the per-asset scheduler when     *)
(* both its ticket and its work are there.  From v27 on work whose triggers *)
(* all fall into known episodes (continuations) does not wait for its      *)
(* turn: it has only rows of an audit to add.                              *)
(*                                                                         *)
(* A step is what a task does between two awaits, a batch of the writer    *)
(* thread, or a read of an executor thread.  The scheduler is CausalOrder, *)
(* which ReadyAssetScheduler implements; demotion takes a job out of it    *)
(* (DemotingScheduler has the tickets, and the audit queue that may        *)
(* overflow).  The episode cache is filled by the Pump half of the runner  *)
(* too, so any trigger may turn out to be a continuation at any time.      *)
(***************************************************************************)
EXTENDS Integers, Sequences, FiniteSets, Functions

CONSTANTS
    Assets,      \* the assets a trade can be of
    Signatures,  \* the transactions
    TradesOf,    \* the assets each transaction really trades
    Delivered,   \* the signature of every notification the stream delivers
    Workers,     \* persist workers
    Preparers,   \* prepare workers
    IngressSize,   \* queue_size
    BatchSize,   \* batch_size of the writer
    OldRows      \* rows an earlier run with the same key may have left

ASSUME DeliveryAssumption ==
    /\ TradesOf \in [Signatures -> SUBSET Assets]
    /\ Delivered \in Seq(Signatures)
    /\ OldRows \subseteq Signatures \X Assets

ASSUME CapacityAssumption ==
    /\ Workers \in Nat \ {0} /\ Preparers \in Nat \ {0}
    /\ IngressSize \in Nat \ {0} /\ BatchSize \in Nat \ {0}

\* The sequence numbers the producer may give out.
Numbers == 0 .. Len(Delivered) - 1

\* pumpswap_reservation_mode is global_prefix; a reservation_asset_index is
\* passed; stateful_only_finalize; the episode cache of v27 is asked.
Runner(g, i, e, c) ==
    [globalPrefix |-> g, indexed |-> i, elide |-> e, continuations |-> c]

\* v19, v20 to v25, v26, v27 to tailfix v5, tailfix v6 and later.
Runners ==
    {Runner(TRUE, FALSE, FALSE, FALSE), Runner(TRUE, TRUE, FALSE, FALSE),
     Runner(TRUE, TRUE, TRUE, FALSE), Runner(TRUE, TRUE, TRUE, TRUE),
     Runner(FALSE, TRUE, TRUE, TRUE)}

VARIABLES
    runner,        \* how the runner was started, one of Runners
    arrived,       \* notifications the stream has delivered so far
    signature,     \* signature[n + 1]: the notification numbered n
    stage,         \* how far each number has come
    tokens,        \* the trades of the request, until it has been written
    assets,        \* reservation_assets of the handle
    fresh,         \* the trades its write inserted
    affected,      \* affected_tokens of its result
    triggered,     \* its preparation found a trigger, of one token or more
    index,         \* _tokens_by_transaction
    store,         \* rows of market_trade_observations
    writes,        \* the numbers in the order they entered the writer's queue
    committed,     \* how many of them have been written
    hinted,        \* how many of their hints the coordinator has taken
    order,         \* the numbers in the order they took tickets
    emitted        \* history: the numbers that assigned a trigger to an episode

ingress == <<arrived, signature>>
results == <<fresh, affected>>
database == <<store, writes, committed>>
tickets == <<hinted, order>>
pipelineVars == <<runner, ingress, stage, tokens, assets, results, triggered, index,
          database, tickets, emitted>>

At(where) == {n \in Numbers : stage[n] \in where}

\* A task that raised does not take another item.
Persisting == At({"normalizing", "read", "writing", "written", "persistFailed"})
Preparing == At({"preparing", "prepareFailed"})
Finalizing == At({"finalizing", "finalizeFailed", "auditing", "auditFailed"})

Failed == At({"persistFailed", "prepareFailed", "finalizeFailed", "auditFailed"})

Ticketed == Range(order)

\* pending_reservation_hints
Pending == {writes[i] : i \in 1 .. hinted} \ Ticketed

StoredFor(g) == {a \in Assets : <<g, a>> \in store}

SignatureOf(n) == signature[n + 1]

Move(n, where) == stage' = [stage EXCEPT ![n] = where]

\* The runner is started with a store that may hold rows of an earlier run
\* with the same key; v20 loads its index from them.
PipelineInit ==
    /\ runner \in Runners
    /\ arrived = 0
    /\ signature = <<>>
    /\ stage = [n \in Numbers |-> "absent"]
    /\ tokens = [n \in Numbers |-> {}]
    /\ assets = [n \in Numbers |-> {}]
    /\ fresh = [n \in Numbers |-> {}]
    /\ affected = [n \in Numbers |-> {}]
    /\ triggered = [n \in Numbers |-> FALSE]
    /\ store \in SUBSET OldRows
    /\ index = [g \in Signatures |-> StoredFor(g)]
    /\ writes = <<>>
    /\ committed = 0
    /\ hinted = 0
    /\ order = <<>>
    /\ emitted = <<>>

-----------------------------------------------------------------------------
(* Ingress and normalization.                                               *)

Full == Cardinality(At({"queued"})) >= IngressSize

Enqueue(g) ==
    /\ signature' = Append(signature, g)
    /\ Move(Len(signature), "queued")

\* A notification that finds the queue full is dropped, and its number goes
\* to the next one.
Receive ==
    /\ arrived < Len(Delivered)
    /\ arrived' = arrived + 1
    /\ IF Full THEN UNCHANGED <<signature, stage>> ELSE Enqueue(Delivered[arrived + 1])
    /\ UNCHANGED <<runner, tokens, assets, results, triggered, index, database,
                   tickets, emitted>>

Take(n) ==
    /\ stage[n] = "queued"
    /\ \A m \in At({"queued"}) : n <= m
    /\ Cardinality(Persisting) < Workers
    /\ Move(n, "normalizing")
    /\ UNCHANGED <<runner, ingress, tokens, assets, results, triggered, index,
                   database, tickets, emitted>>

\* Mutant of IndexedAssets: what earlier deliveries resolved is forgotten.
IndexedAssetsForgets(n, resolved) == resolved

\* PumpSwapEarlyReservationAssetIndex.reservation_assets
IndexedAssets(n, resolved) == index[SignatureOf(n)] \cup resolved

\* With the index the request enters the writer's queue in the same step.
NormalizeIndexed(n) ==
    /\ runner.indexed
    /\ stage[n] = "normalizing"
    /\ \E resolved \in SUBSET TradesOf[SignatureOf(n)] :
          /\ tokens' = [tokens EXCEPT ![n] = resolved]
          /\ assets' = [assets EXCEPT ![n] = IndexedAssets(n, resolved)]
          /\ index' = [index EXCEPT ![SignatureOf(n)] = @ \cup resolved]
    /\ writes' = Append(writes, n)
    /\ Move(n, "writing")
    /\ UNCHANGED <<runner, ingress, results, triggered, store, committed,
                   tickets, emitted>>

\* Without it the tokens already stored are read first, by another thread.
NormalizeByRead(n) ==
    /\ ~runner.indexed
    /\ stage[n] = "normalizing"
    /\ \E resolved \in SUBSET TradesOf[SignatureOf(n)] :
          /\ tokens' = [tokens EXCEPT ![n] = resolved]
          /\ assets' = [assets EXCEPT ![n] = StoredFor(SignatureOf(n)) \cup resolved]
    /\ Move(n, "read")
    /\ UNCHANGED <<runner, ingress, results, triggered, index, database,
                   tickets, emitted>>

EnqueueWrite(n) ==
    /\ stage[n] = "read"
    /\ writes' = Append(writes, n)
    /\ Move(n, "writing")
    /\ UNCHANGED <<runner, ingress, tokens, assets, results, triggered, index,
                   store, committed, tickets, emitted>>

-----------------------------------------------------------------------------
(* The writer thread: one transaction for the first requests of its queue.  *)

RowsOf(n) == {SignatureOf(n)} \X tokens[n]

\* The store after the first k requests of the queue.
StoreAfter(k) == store \cup UNION {RowsOf(writes[committed + i]) : i \in 1 .. k}

\* Where a request stands in the batch.
Place(n) == (CHOOSE i \in 1 .. Len(writes) : writes[i] = n) - committed

\* The rows that were not there when the write of n reached them.
Inserted(n) == RowsOf(n) \ StoreAfter(Place(n) - 1)

\* The tokens of n's transaction: at the end of the batch when no transaction
\* is in it twice, right after n's own write otherwise.
ReadBack(n, size) ==
    LET batch == {writes[committed + i] : i \in 1 .. size}
        distinct == \A m, q \in batch : SignatureOf(m) = SignatureOf(q) => m = q
    IN  {a \in Assets : <<SignatureOf(n), a>> \in
            StoreAfter(IF distinct THEN size ELSE Place(n))}

InBatch(n, size) == \E i \in 1 .. size : writes[committed + i] = n

WriteBatch(size) ==
    /\ committed + size <= Len(writes)
    /\ fresh' = [n \in Numbers |-> IF InBatch(n, size) THEN Inserted(n) ELSE fresh[n]]
    /\ affected' = [n \in Numbers |->
                       IF InBatch(n, size) THEN ReadBack(n, size) ELSE affected[n]]
    /\ store' = StoreAfter(size)
    /\ committed' = committed + size
    /\ stage' = [n \in Numbers |-> IF InBatch(n, size) THEN "written" ELSE stage[n]]
    /\ tokens' = [n \in Numbers |-> IF InBatch(n, size) THEN {} ELSE tokens[n]]
    /\ UNCHANGED <<runner, ingress, assets, triggered, index, writes,
                   tickets, emitted>>

\* The transaction raises: it is rolled back, and each worker gets the error.
BatchFails(size) ==
    /\ committed + size <= Len(writes)
    /\ committed' = committed + size
    /\ stage' = [n \in Numbers |-> IF InBatch(n, size) THEN "persistFailed" ELSE stage[n]]
    /\ tokens' = [n \in Numbers |-> IF InBatch(n, size) THEN {} ELSE tokens[n]]
    /\ UNCHANGED <<runner, ingress, assets, results, triggered, index,
                   store, writes, tickets, emitted>>

-----------------------------------------------------------------------------
(* The tickets as the scheduler sees them.                                  *)

Tickets == 0 .. Len(Delivered) - 1

NumberOf(t) == order[t + 1]

TicketOf(n) == (CHOOSE i \in 1 .. Len(order) : order[i] = n) - 1

\* A skipped ticket and that of a demoted job are out of the way.
TicketStatus(t) ==
    IF t >= Len(order) THEN "free"
    ELSE CASE stage[NumberOf(t)] = "submitted" -> "submitted"
           [] stage[NumberOf(t)] = "finalizing" -> "running"
           [] stage[NumberOf(t)] \in {"processed", "demoted", "auditing", "auditFailed"}
                -> "done"
           [] OTHER -> "reserved"

Scheduler == INSTANCE CausalOrder WITH
    MaxReservations <- Len(Delivered),
    assetsOf <- [t \in Tickets |-> IF t < Len(order) THEN assets[NumberOf(t)] ELSE {}],
    status <- [t \in Tickets |-> TicketStatus(t)],
    stopped <- FALSE

\* Submitted, with an earlier ticket in the way.
Held == {n \in At({"submitted"}) : ~Scheduler!Free(TicketOf(n))}

\* What a demotion pass may find proven: v34 looks before each complete, v42
\* before each submit as well, the runners before never.
Demotions == IF runner.continuations THEN SUBSET Held ELSE {{}}

-----------------------------------------------------------------------------
(* The rendezvous of work and ticket.                                       *)

\* The numbers of S whose triggers may all fall into episodes the cache knows.
Continuations(S) ==
    IF runner.continuations THEN SUBSET {n \in S : triggered[n]} ELSE {{}}

\* Without a trigger that may need an episode there is nothing to order: if the
\* runner elides such work, its ticket is skipped and it is finalized at once,
\* continuations by queueing the rows of their triggers for the audit.
NothingToOrder(n, known) == runner.elide /\ (~triggered[n] \/ n \in known)

\* Where n goes when its work stands at a stage and its ticket is there.
Paired(n, where, known) ==
    CASE where = "prepared" ->
            IF NothingToOrder(n, known) THEN "processed" ELSE "submitted"
      [] where = "noEvidence" ->
            IF runner.elide THEN "processed" ELSE "submitted"
      [] OTHER -> where

\* maybe_submit and maybe_submit_skip, of numbers with a ticket, whose work
\* stands where `at' says.  A number that the pass of a later one in the same
\* drain demotes is one of the continuations known before.
MaybeSubmit(numbers, at) ==
    \E known \in Continuations(numbers), D \in Demotions :
        /\ D # {} => \E n \in numbers : Paired(n, at[n], known) = "submitted"
        /\ stage' = [n \in Numbers |->
                        IF n \in numbers THEN Paired(n, at[n], known)
                        ELSE IF n \in D THEN "demoted" ELSE stage[n]]

\* maybe_submit after the preparation, maybe_submit_skip after a result
\* without new evidence.
WorkReady(n, where) ==
    IF n \in Ticketed THEN MaybeSubmit({n}, [stage EXCEPT ![n] = where])
    ELSE Move(n, where)

\* Mutant of SupersetMissing: the guard is not evaluated.
SupersetIgnored(n) == {}

\* _reservation_missing_assets
SupersetMissing(n) == affected[n] \ assets[n]

\* wait_result returns: the guard raises, work with new evidence goes to the
\* prepare queue, the rest is done.
TakeResult(n) ==
    /\ stage[n] = "written"
    /\ CASE SupersetMissing(n) # {} -> Move(n, "persistFailed")
         [] SupersetMissing(n) = {} /\ fresh[n] # {} -> Move(n, "evidence")
         [] OTHER -> WorkReady(n, "noEvidence")
    /\ UNCHANGED <<runner, ingress, tokens, assets, results, triggered, index,
                   database, tickets, emitted>>

\* The preparation reads the transaction again, from the store as it is now.
Prepare(n) ==
    /\ stage[n] = "evidence"
    /\ Cardinality(Preparing) < Preparers
    /\ \E found \in BOOLEAN :
          /\ found => StoredFor(SignatureOf(n)) # {}
          /\ triggered' = [triggered EXCEPT ![n] = found]
    /\ Move(n, "preparing")
    /\ UNCHANGED <<runner, ingress, tokens, assets, results, index, database,
                   tickets, emitted>>

Prepared(n) ==
    /\ stage[n] = "preparing"
    /\ WorkReady(n, "prepared")
    /\ UNCHANGED <<runner, ingress, tokens, assets, results, triggered, index,
                   database, tickets, emitted>>

\* scheduler.reserve, then maybe_submit and maybe_submit_skip, for each.
Admit(numbers) ==
    /\ order' = order \o numbers
    /\ MaybeSubmit(Range(numbers), stage)

\* Mutant of Admissible: a hint is not held back for an earlier one.
AdmissibleAtOnce(n) == <<n>>

\* Mutant of Admissible: the hints a number released are not drained with it.
AdmissibleOneByOne(n) ==
    IF ~runner.globalPrefix \/ n = Len(order) THEN <<n>> ELSE <<>>

\* The hints that may take their tickets when n's has come: in global_prefix
\* mode, those from the next number on that are there without a gap.
Admissible(n) ==
    IF ~runner.globalPrefix THEN <<n>>
    ELSE LET next == Len(order)
             there == Pending \cup {n}
             end == CHOOSE e \in next .. next + Cardinality(there) :
                       next .. e - 1 \subseteq there /\ e \notin there
         IN  [i \in 1 .. end - next |-> next + i - 1]

Coordinate ==
    /\ hinted < Len(writes)
    /\ hinted' = hinted + 1
    /\ Admit(Admissible(writes[hinted + 1]))
    /\ UNCHANGED <<runner, ingress, tokens, assets, results, triggered, index,
                   database, emitted>>

-----------------------------------------------------------------------------
(* The scheduler and the finalizer.                                         *)

\* get_ready hands the one finalizer a job whose turn has come.
StartFinalize(n) ==
    /\ stage[n] = "submitted"
    /\ Finalizing = {}
    /\ Scheduler!Free(TicketOf(n))
    /\ Move(n, "finalizing")
    /\ UNCHANGED <<runner, ingress, tokens, assets, results, triggered, index,
                   database, tickets, emitted>>

\* The triggers are assigned to episodes, except those that have become
\* continuations by now; the ticket is completed, after a demotion pass.
Finalize(n) ==
    /\ stage[n] = "finalizing"
    /\ \E assigns \in BOOLEAN :
          /\ assigns => triggered[n]
          /\ triggered[n] /\ ~assigns => runner.continuations
          /\ emitted' = IF assigns THEN Append(emitted, n) ELSE emitted
    /\ \E D \in Demotions :
          stage' = [m \in Numbers |-> IF m = n THEN "processed"
                                     ELSE IF m \in D THEN "demoted" ELSE stage[m]]
    /\ UNCHANGED <<runner, ingress, tokens, assets, results, triggered, index,
                   database, tickets>>

\* A demoted job comes to the finalizer too, in no order.
StartAudit(n) ==
    /\ stage[n] = "demoted"
    /\ Finalizing = {}
    /\ Move(n, "auditing")
    /\ UNCHANGED <<runner, ingress, tokens, assets, results, triggered, index,
                   database, tickets, emitted>>

\* It has nothing to assign and no ticket to complete.
Audit(n) ==
    /\ stage[n] = "auditing"
    /\ Move(n, "processed")
    /\ UNCHANGED <<runner, ingress, tokens, assets, results, triggered, index,
                   database, tickets, emitted>>

-----------------------------------------------------------------------------

\* A task raises while it holds n.  The monitor ends the run when it next
\* looks at its tasks; until then the others go on.
TaskFails(n) ==
    /\ \/ stage[n] = "normalizing" /\ Move(n, "persistFailed")
       \/ stage[n] = "preparing" /\ Move(n, "prepareFailed")
       \/ stage[n] = "finalizing" /\ Move(n, "finalizeFailed")
       \/ stage[n] = "auditing" /\ Move(n, "auditFailed")
    /\ UNCHANGED <<runner, ingress, tokens, assets, results, triggered, index,
                   database, tickets, emitted>>

TaskStep(n) ==
    \/ Take(n) \/ NormalizeIndexed(n) \/ NormalizeByRead(n) \/ EnqueueWrite(n)
    \/ TakeResult(n) \/ Prepare(n) \/ Prepared(n)
    \/ StartFinalize(n) \/ Finalize(n) \/ StartAudit(n) \/ Audit(n)

Work ==
    \/ \E n \in Numbers : TaskStep(n)
    \/ \E size \in 1 .. BatchSize : WriteBatch(size)
    \/ Coordinate

\* Bound: one error before the monitor looks.
Errors ==
    /\ Failed = {}
    /\ \/ \E n \in Numbers : TaskFails(n)
       \/ \E size \in 1 .. BatchSize : BatchFails(size)

PipelineNext == Receive \/ Work \/ Errors

PipelineSpec == PipelineInit /\ [][PipelineNext]_pipelineVars

\* The event loop, the writer and the executors go on as long as there is
\* something to do.
PipelineFairSpec == PipelineSpec /\ WF_pipelineVars(Work)

-----------------------------------------------------------------------------

Stages ==
    {"absent", "queued", "normalizing", "read", "writing", "written",
     "evidence", "preparing", "prepared", "noEvidence", "submitted",
     "finalizing", "demoted", "auditing", "processed", "persistFailed",
     "prepareFailed", "finalizeFailed", "auditFailed"}

PipelineTypeOK ==
    /\ runner \in Runners
    /\ arrived \in 0 .. Len(Delivered)
    /\ signature \in Seq(Signatures) /\ Len(signature) <= arrived
    /\ stage \in [Numbers -> Stages]
    /\ Cardinality(At({"queued"})) <= IngressSize
    /\ {tokens, assets, affected} \subseteq [Numbers -> SUBSET Assets]
    /\ triggered \in [Numbers -> BOOLEAN]
    /\ fresh \in [Numbers -> SUBSET (Signatures \X Assets)]
    /\ index \in [Signatures -> SUBSET Assets]
    /\ store \subseteq Signatures \X Assets
    /\ {writes, order, emitted} \subseteq Seq(Numbers)
    /\ committed \in 0 .. Len(writes) /\ hinted \in 0 .. Len(writes)

\* With the index, the assets reserved before the write cover the tokens the
\* write reads back, whatever deliveries of the same transaction are on their
\* way: the superset guard of the persist worker never stops a run.
ReservationCovers ==
    runner.indexed => \A n \in At({"written"}) : SupersetMissing(n) = {}

Earlier(m, n) ==
    \E i, j \in 1 .. Len(emitted) : i < j /\ emitted[i] = m /\ emitted[j] = n

\* Notifications whose persisted results share a token assign triggers to
\* episodes in the order of their tickets, whatever is elided or demoted in
\* between; without the index it is the guard that sees to it.  Nothing is said
\* of triggers that are recorded as continuations (v27): those that are elided
\* or demoted are recorded in no order.
ResultsInTicketOrder ==
    \A m, n \in Numbers :
        Earlier(m, n) /\ affected[m] \cap affected[n] # {} => TicketOf(m) < TicketOf(n)

\* In global_prefix mode that is the order of arrival, although the writes
\* and the preparations may overtake each other; of assignments again, not of
\* continuations.
IngressOrderKept ==
    runner.globalPrefix =>
        \A m, n \in Numbers :
            Earlier(m, n) /\ affected[m] \cap affected[n] # {} => m < n

\* Every notification the producer has numbered is processed in the end,
\* unless a task fails: no gap in the numbers and no lost half holds one up.
EveryNotificationProcessed ==
    <>[](Failed # {} \/ \A n \in 0 .. Len(signature) - 1 : stage[n] = "processed")

=============================================================================
