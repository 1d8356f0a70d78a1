----------------------------- MODULE PoolIdentity -----------------------------
(***************************************************************************)
(* The identity (base and quote mint) of a PumpSwap pool, as the runner    *)
(* from tailfix v5 on resolves it: HardenedNormalizationResolverV5, that   *)
(* is resolve_for_normalization_v5 and learn_from_create_async_v5          *)
(* (src/pumpswap_normalization_resolver_v5.py) over the durable store      *)
(* (..._resolver_latency_hardening_v3.py, pumpswap_pool_store.py), the     *)
(* batching, budget and negative cache of v32 to v52, and the shared       *)
(* transports of tailfix v2.                                               *)
(*                                                                         *)
(* Code on the event loop is one step from one await to the next.  A read  *)
(* or write of the store runs in a thread: it is a step of its own, and    *)
(* the coroutine looks at the result in a later one.  Only who holds a     *)
(* pool's lock writes its row, so the holder's own reads are one step with *)
(* what the coroutine makes of them.                                       *)
(***************************************************************************)
EXTENDS Integers, Sequences, FiniteSets

CONSTANTS
    Calls,          \* calls of the two methods, each made once
    Pools,
    KindOf,         \* "resolve" or "create", of each call
    PoolOf,         \* the pool each call is about
    Identities,     \* identities in the order of their JSON, as numbers
    IdentityOf,     \* what the chain says of each pool; it never changes
    Histories,      \* the rows earlier runs may have left, for each pool
    NoMapping,
    MaxNow,         \* bound of the clock, in seconds
    MaxConcurrent,  \* max_concurrent_resolutions
    BatchWorkers,   \* hydration_batch_workers
    BatchSize,      \* hydration_batch_size
    Endpoints,      \* how many endpoints a batch is sent to: hedge_endpoints
    Budget          \* max_network_hydrations

Times == 0 .. MaxNow
Slots == 1 .. BatchWorkers

\* PumpSwapPoolMapping: who the pool is, and since when that is known.
Mappings == [id : Identities, at : Times]

ASSUME PoolsAssumption ==
    /\ IsFiniteSet(Calls)
    /\ KindOf \in [Calls -> {"resolve", "create"}]
    /\ PoolOf \in [Calls -> Pools]
    /\ Identities \subseteq Nat
    /\ IdentityOf \in [Pools -> Identities]
    /\ NoMapping \notin Mappings
    /\ MaxNow \in Nat
    /\ Histories \in [Pools -> SUBSET SUBSET Mappings]

\* hydration_batch_workers * hedge_endpoints must not exceed the concurrency.
ASSUME TransportsAssumption ==
    /\ {BatchWorkers, BatchSize, Endpoints} \subseteq Nat \ {0}
    /\ MaxConcurrent \in Nat /\ BatchWorkers * Endpoints <= MaxConcurrent
    /\ Budget \in Nat

VARIABLES
    now,             \* time.time()
    history,         \* rows of pumpswap_pool_mappings of earlier runs
    row,             \* the row of this run, for each pool
    cache,           \* _cache
    pc,              \* where each call is
    observed,        \* observed_at of the call's notification
    got,             \* what the call's last thread returned, and its result
    line,            \* _pool_locks: the holder of each pool's lock, then the waiters
    permits,         \* _resolution_semaphore: holders, then waiters
    failedUntil,     \* pools in the negative cache
    hydrations,      \* network_hydration_calls
    hydrationQueue,  \* _batch_queue
    batches,         \* the batch in each of _parallel_batch_slots
    transportQueue,  \* work queue of _tailfix_transport_executor: a slot for each request
    losers,          \* requests that run on after their batch was decided
    recorded,        \* history variable: all mappings written by this run
    learned,         \* history variable: how often a resolution wrote a pool
    provenAt         \* history variable: when this run first had proof of the identity

storeVars == <<history, row, recorded, learned>>
loopVars == <<cache, line, permits>>
netVars == <<failedUntil, hydrations, hydrationQueue, batches, transportQueue, losers>>
vars == <<now, storeVars, loopVars, netVars, pc, observed, got, provenAt>>

-----------------------------------------------------------------------------

NoBatch == [items |-> <<>>, pending |-> 0, running |-> 0]
Never == MaxNow + 1

True(p, t) == [id |-> IdentityOf[p], at |-> t]
Earlier(s, t) == IF s < t THEN s ELSE t

\* Requests that a transport worker is busy with.
ActiveTransports ==
    LET upTo[s \in 0 .. BatchWorkers] ==
            IF s = 0 THEN losers ELSE upTo[s - 1] + batches[s].running
    IN upTo[BatchWorkers]

Init ==
    /\ now = 0
    /\ history \in {h \in [Pools -> SUBSET Mappings] : \A p \in Pools : h[p] \in Histories[p]}
    /\ row = [p \in Pools |-> NoMapping]
    /\ cache = [p \in Pools |-> NoMapping]
    /\ pc = [c \in Calls |-> "new"]
    /\ observed = [c \in Calls |-> 0]
    /\ got = [c \in Calls |-> NoMapping]
    /\ line = [p \in Pools |-> <<>>]
    /\ permits = <<>>
    /\ failedUntil = {}
    /\ hydrations = 0
    /\ hydrationQueue = <<>>
    /\ batches = [s \in Slots |-> NoBatch]
    /\ transportQueue = <<>>
    /\ losers = 0
    /\ recorded = [p \in Pools |-> {}]
    /\ learned = [p \in Pools |-> 0]
    /\ provenAt = [p \in Pools |-> Never]

-----------------------------------------------------------------------------
(* The store.                                                              *)

Precedes(m, n) == m.at < n.at \/ (m.at = n.at /\ m.id < n.id)

\* Mutant of Canonical: at equal times the first writer wins.
CanonicalFirst(old, m) ==
    IF old = NoMapping THEN m ELSE IF m.at < old.at THEN m ELSE old

\* The row of a pool after m has been recorded: the earliest observation wins,
\* then the identity that comes first.
Canonical(old, m) == IF old = NoMapping THEN m ELSE IF Precedes(m, old) THEN m ELSE old

\* The earliest row of any run that was there when c's notification was
\* observed, unless the rows of that time contradict each other.
Remembered(c) ==
    LET p == PoolOf[c]
        rows == {m \in history[p] \cup ({row[p]} \ {NoMapping}) : m.at <= observed[c]}
    IN IF Cardinality({m.id : m \in rows}) = 1
       THEN CHOOSE m \in rows : \A n \in rows : m.at <= n.at
       ELSE NoMapping

-----------------------------------------------------------------------------
(* The event loop.                                                         *)

Goto(c, label) == pc' = [pc EXCEPT ![c] = label]

\* c returns m.
Return(c, m) ==
    /\ Goto(c, "over")
    /\ got' = [got EXCEPT ![c] = m]

Keep(c, m) == cache' = [cache EXCEPT ![PoolOf[c]] = m]

Leave(c) == line' = [line EXCEPT ![PoolOf[c]] = Tail(@)]

\* A resolution begins with the cache, whatever the notification's time.
Resolve(c) ==
    /\ pc[c] = "new" /\ KindOf[c] = "resolve"
    /\ \E t \in 0 .. now : observed' = [observed EXCEPT ![c] = t]
    /\ IF cache[PoolOf[c]] # NoMapping
       THEN Return(c, cache[PoolOf[c]])
       ELSE Goto(c, "look") /\ UNCHANGED got
    /\ UNCHANGED <<now, storeVars, loopVars, netVars, provenAt>>

\* A CreatePoolEvent goes for the pool's lock at once.
Create(c) ==
    LET p == PoolOf[c] IN
    /\ pc[c] = "new" /\ KindOf[c] = "create"
    /\ \E t \in 0 .. now :
          /\ observed' = [observed EXCEPT ![c] = t]
          /\ provenAt' = [provenAt EXCEPT ![p] = Earlier(@, t)]
    /\ line' = [line EXCEPT ![p] = Append(@, c)]
    /\ Goto(c, IF line[p] = <<>> THEN "recheck" ELSE "queued")
    /\ UNCHANGED <<now, storeVars, cache, permits, netVars, got>>

\* The store was looked at before the lock was asked for: what it had goes into
\* the cache, else the lock is taken or queued for.
Looked(c) ==
    LET p == PoolOf[c] IN
    /\ pc[c] = "looked"
    /\ \/ /\ got[c] # NoMapping
          /\ Keep(c, got[c]) /\ Goto(c, "over")
          /\ UNCHANGED <<line, got>>
       \/ /\ got[c] = NoMapping /\ line[p] = <<>> /\ cache[p] # NoMapping
          /\ Return(c, cache[p])
          /\ UNCHANGED <<cache, line>>
       \/ /\ got[c] = NoMapping /\ (line[p] # <<>> \/ cache[p] = NoMapping)
          /\ line' = [line EXCEPT ![p] = Append(@, c)]
          /\ Goto(c, IF line[p] = <<>> THEN "recheck" ELSE "queued")
          /\ UNCHANGED <<cache, got>>
    /\ UNCHANGED <<now, storeVars, permits, netVars, observed, provenAt>>

\* Mutant of Acquire: nobody looks at the cache and at the store again.
AcquireUnchecked(c) ==
    /\ pc[c] = "queued" /\ Head(line[PoolOf[c]]) = c
    /\ Goto(c, IF KindOf[c] = "create" THEN "recheck" ELSE "history")
    /\ UNCHANGED <<now, storeVars, loopVars, netVars, observed, got, provenAt>>

\* A waiter gets the pool's lock; a resolution looks at the cache again.
Acquire(c) ==
    LET p == PoolOf[c] IN
    /\ pc[c] = "queued" /\ Head(line[p]) = c
    /\ IF KindOf[c] = "resolve" /\ cache[p] # NoMapping
       THEN Return(c, cache[p]) /\ Leave(c)
       ELSE Goto(c, "recheck") /\ UNCHANGED <<got, line>>
    /\ UNCHANGED <<now, storeVars, cache, permits, netVars, observed, provenAt>>

\* With the lock held: a row of this run is good enough for a resolution, and
\* for a creation that does not bring it forward.
Recheck(c) ==
    LET p == PoolOf[c]
        enough == /\ row[p] # NoMapping
                  /\ KindOf[c] = "create" => /\ row[p].id = IdentityOf[p]
                                             /\ row[p].at <= observed[c]
    IN
    /\ pc[c] = "recheck"
    /\ \/ /\ enough
          /\ Keep(c, row[p]) /\ Return(c, row[p]) /\ Leave(c)
       \/ /\ ~enough /\ KindOf[c] = "create"
          /\ got' = [got EXCEPT ![c] = True(p, observed[c])]
          /\ Goto(c, "record")
          /\ UNCHANGED <<cache, line>>
       \/ /\ ~enough /\ KindOf[c] = "resolve"
          /\ Goto(c, "history")
          /\ UNCHANGED <<cache, line, got>>
    /\ UNCHANGED <<now, storeVars, permits, netVars, observed, provenAt>>

\* What an earlier run knew is promoted; else the network is asked, by as many
\* resolutions at a time as the semaphore admits.
LookUpHistory(c) ==
    /\ pc[c] = "history"
    /\ got' = [got EXCEPT ![c] = Remembered(c)]
    /\ IF Remembered(c) # NoMapping
       THEN Goto(c, "record") /\ UNCHANGED permits
       ELSE Goto(c, "permit") /\ permits' = Append(permits, c)
    /\ UNCHANGED <<now, storeVars, cache, line, netVars, observed, provenAt>>

\* Mutant of LearnedAt: the identity is said to be as old as the notification.
LearnedAtBackdated(c) == observed[c]

\* learned_at, read when the account is there.
LearnedAt(c) == now

\* _load_pool_account returns: the account has come, or the pool stays
\* unresolved, for the next retry_seconds if it was asked for.
Loaded(c) ==
    /\ pc[c] \in {"answered", "refused"}
    /\ \E i \in DOMAIN permits :
          /\ permits[i] = c
          /\ permits' = SubSeq(permits, 1, i - 1) \o SubSeq(permits, i + 1, Len(permits))
    /\ failedUntil' = IF got[c] # NoMapping THEN failedUntil \ {PoolOf[c]}
                      ELSE IF pc[c] = "answered" THEN failedUntil \cup {PoolOf[c]}
                      ELSE failedUntil
    /\ IF got[c] = NoMapping
       THEN Goto(c, "over") /\ Leave(c) /\ UNCHANGED got
       ELSE /\ got' = [got EXCEPT ![c] = True(PoolOf[c], LearnedAt(c))]
            /\ Goto(c, "record")
            /\ UNCHANGED line
    /\ UNCHANGED <<now, storeVars, cache, hydrations, hydrationQueue, batches,
                   transportQueue, losers, observed, provenAt>>

\* The canonical row is read back, cached and returned; the lock is free.
Reload(c) ==
    /\ pc[c] = "reload"
    /\ Keep(c, row[PoolOf[c]]) /\ Return(c, row[PoolOf[c]]) /\ Leave(c)
    /\ UNCHANGED <<now, storeVars, permits, netVars, observed, provenAt>>

-----------------------------------------------------------------------------
(* Threads.                                                                *)

\* The look at the store before the lock is asked for.
LookUp(c) ==
    /\ pc[c] = "look"
    /\ Goto(c, "looked")
    /\ got' = [got EXCEPT ![c] = row[PoolOf[c]]]
    /\ UNCHANGED <<now, storeVars, loopVars, netVars, observed, provenAt>>

\* _v3_record_mapping_sync, one transaction.
Record(c) ==
    LET p == PoolOf[c] IN
    /\ pc[c] = "record"
    /\ row' = [row EXCEPT ![p] = Canonical(@, got[c])]
    /\ recorded' = [recorded EXCEPT ![p] = @ \cup {got[c]}]
    /\ learned' = IF KindOf[c] = "resolve" THEN [learned EXCEPT ![p] = @ + 1] ELSE learned
    /\ Goto(c, "reload")
    /\ UNCHANGED <<now, history, loopVars, netVars, observed, got, provenAt>>

HasPermit(c) ==
    \E i \in DOMAIN permits : i <= MaxConcurrent /\ permits[i] = c

\* _load_pool_account up to future.result(): a pool that failed lately, and any
\* pool once the budget is spent, is not asked for.
Load(c) ==
    /\ pc[c] = "permit" /\ HasPermit(c)
    /\ IF PoolOf[c] \in failedUntil \/ hydrations >= Budget
       THEN Goto(c, "refused") /\ UNCHANGED <<hydrations, hydrationQueue>>
       ELSE /\ hydrations' = hydrations + 1
            /\ hydrationQueue' = Append(hydrationQueue, c)
            /\ Goto(c, "hydrating")
    /\ UNCHANGED <<now, storeVars, loopVars, failedUntil, batches, transportQueue, losers,
                   observed, got, provenAt>>

-----------------------------------------------------------------------------
(* Batches and their transports.                                           *)

Free(s) == batches[s] = NoBatch

\* The dispatcher has a slot: all that waits goes into one batch, up to its
\* size, and to each endpoint.  What the dispatcher holds while it waits for the
\* slot is still counted in the queue.
Dispatch(s) ==
    LET n == Earlier(BatchSize, Len(hydrationQueue)) IN
    /\ Free(s) /\ hydrationQueue # <<>>
    /\ batches' = [batches EXCEPT
                     ![s] = [items |-> SubSeq(hydrationQueue, 1, n),
                             pending |-> Endpoints, running |-> 0]]
    /\ hydrationQueue' = SubSeq(hydrationQueue, n + 1, Len(hydrationQueue))
    /\ transportQueue' = transportQueue \o [i \in 1 .. Endpoints |-> s]
    /\ UNCHANGED <<now, storeVars, loopVars, failedUntil, hydrations, losers, pc, observed,
                   got, provenAt>>

StartTransport ==
    /\ transportQueue # <<>> /\ ActiveTransports < MaxConcurrent
    /\ batches' = [batches EXCEPT ![Head(transportQueue)].running = @ + 1]
    /\ transportQueue' = Tail(transportQueue)
    /\ UNCHANGED <<now, storeVars, loopVars, failedUntil, hydrations, hydrationQueue, losers,
                   pc, observed, got, provenAt>>

\* Mutant of Release: a batch keeps its slot while a request of it runs on, as
\* it did in v52; here one that hangs keeps it for good.
ReleaseDrained(s, running) ==
    /\ batches' = [batches EXCEPT
                     ![s] = IF running = 0 THEN NoBatch
                            ELSE [items |-> <<>>, pending |-> 0, running |-> running]]
    /\ UNCHANGED losers

\* The batch gives its slot back; the requests that run keep their workers.
Release(s, running) ==
    /\ batches' = [batches EXCEPT ![s] = NoBatch]
    /\ losers' = losers + running

\* The batch of slot s is decided: the pools found are, the others are not;
\* its requests that have not begun are cancelled.
Decide(s, found, running) ==
    LET items == {batches[s].items[i] : i \in DOMAIN batches[s].items} IN
    /\ pc' = [c \in Calls |-> IF c \in items THEN "answered" ELSE pc[c]]
    /\ got' = [c \in Calls |->
                 IF c \notin items THEN got[c]
                 ELSE IF PoolOf[c] \in found THEN True(PoolOf[c], now) ELSE NoMapping]
    /\ provenAt' = [p \in Pools |-> IF p \in found THEN Earlier(provenAt[p], now) ELSE provenAt[p]]
    /\ transportQueue' = SelectSeq(transportQueue, LAMBDA t : t # s)
    /\ Release(s, running)
    /\ UNCHANGED <<now, storeVars, loopVars, failedUntil, hydrations, hydrationQueue, observed>>

PoolsIn(s) == {PoolOf[batches[s].items[i]] : i \in DOMAIN batches[s].items}

\* An endpoint answers first; an account that does not exist is not found.
Answer(s) ==
    /\ batches[s].items # <<>> /\ batches[s].running > 0
    /\ \E found \in SUBSET PoolsIn(s) : Decide(s, found, batches[s].running - 1)

\* An endpoint fails, or one account of its answer cannot be decoded.
EndpointFails(s) ==
    /\ batches[s].items # <<>> /\ batches[s].running > 0
    /\ \/ /\ batches[s].pending = 1
          /\ Decide(s, {}, 0)
       \/ /\ batches[s].pending > 1
          /\ batches' = [batches EXCEPT ![s].pending = @ - 1, ![s].running = @ - 1]
          /\ UNCHANGED <<now, storeVars, loopVars, failedUntil, hydrations, hydrationQueue,
                         transportQueue, losers, pc, observed, got, provenAt>>

\* hedge_wall_deadline_seconds after the dispatch.
DeadlineExpires(s) ==
    /\ batches[s].items # <<>>
    /\ Decide(s, {}, batches[s].running)

LoserEnds ==
    /\ losers > 0
    /\ losers' = losers - 1
    /\ UNCHANGED <<now, storeVars, loopVars, failedUntil, hydrations, hydrationQueue, batches,
                   transportQueue, pc, observed, got, provenAt>>

-----------------------------------------------------------------------------
(* Time.                                                                   *)

Tick ==
    /\ now < MaxNow
    /\ now' = now + 1
    /\ UNCHANGED <<storeVars, loopVars, netVars, pc, observed, got, provenAt>>

\* retry_seconds have passed.
RetryElapses(p) ==
    /\ p \in failedUntil
    /\ failedUntil' = failedUntil \ {p}
    /\ UNCHANGED <<now, storeVars, loopVars, hydrations, hydrationQueue, batches,
                   transportQueue, losers, pc, observed, got, provenAt>>

-----------------------------------------------------------------------------

Loop(c) ==
    \/ Resolve(c) \/ Create(c) \/ Looked(c) \/ Acquire(c) \/ Recheck(c)
    \/ LookUpHistory(c) \/ Loaded(c) \/ Reload(c)

Thread(c) == LookUp(c) \/ Record(c) \/ Load(c)

Next ==
    \/ \E c \in Calls : Loop(c) \/ Thread(c)
    \/ \E s \in Slots : Dispatch(s) \/ Answer(s) \/ EndpointFails(s) \/ DeadlineExpires(s)
    \/ StartTransport \/ LoserEnds \/ Tick
    \/ \E p \in Pools : RetryElapses(p)

Spec == Init /\ [][Next]_vars

\* Event loop, threads and dispatcher run, and deadlines come; nothing makes a
\* request end, nor a notification arrive.
Fairness ==
    /\ \A c \in Calls : WF_vars(pc[c] # "new" /\ Loop(c)) /\ WF_vars(Thread(c))
    /\ \A s \in Slots : WF_vars(Dispatch(s)) /\ WF_vars(DeadlineExpires(s))

FairSpec == Spec /\ Fairness

-----------------------------------------------------------------------------
(* Properties.                                                             *)

TypeOK ==
    /\ now \in Times
    /\ history \in [Pools -> SUBSET Mappings]
    /\ row \in [Pools -> Mappings \cup {NoMapping}]
    /\ cache \in [Pools -> Mappings \cup {NoMapping}]
    /\ observed \in [Calls -> Times]
    /\ got \in [Calls -> Mappings \cup {NoMapping}]
    /\ line \in [Pools -> Seq(Calls)]
    /\ permits \in Seq(Calls)
    /\ failedUntil \in SUBSET Pools
    /\ recorded \in [Pools -> SUBSET Mappings]
    /\ learned \in [Pools -> Nat]
    /\ provenAt \in [Pools -> 0 .. Never]

\* The store's row does not depend on who was first: it is the least of all
\* mappings of the pool this run has written.
EarliestWins ==
    \A p \in Pools :
        IF recorded[p] = {} THEN row[p] = NoMapping
        ELSE /\ row[p] \in recorded[p]
             /\ \A m \in recorded[p] : ~Precedes(m, row[p])

\* However many notifications ask for a pool at a time, one of them promotes it
\* or learns it from the network, and it is learned only once in the run.
LearnedOnce == \A p \in Pools : learned[p] <= 1

\* Mappings of p that are in use: cached, or the result of a call.
InUse(p) ==
    ({cache[p]} \cup {got[c] : c \in {d \in Calls : PoolOf[d] = p /\ pc[d] = "over"}})
        \ {NoMapping}

\* Nothing is published that is not durable or that is dated back: whoever uses
\* a mapping finds the pool in the store, and its time is not before there was
\* proof of the identity, by this run or by an earlier one.
NeverBackdated ==
    \A p \in Pools : \A m \in InUse(p) :
        /\ row[p] # NoMapping /\ row[p].at <= m.at
        /\ m \in history[p] \/ (m.id = IdentityOf[p] /\ provenAt[p] <= m.at)

\* Every call that is made comes to an end, also when no endpoint ever answers and when all
\* transport workers hang.
EveryResolveEnds == <>[](\A c \in Calls : pc[c] \in {"new", "over"})

=============================================================================
