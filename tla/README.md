# A verification of crypto-copy-trader

This directory holds TLA+ models of the concurrent core of the repository, the
TLC configurations that check them on small instances, and theorems about them
that the TLA+ proof system checks for every value of the constants. Paths are
relative to the root of the repository; `v19` stands for
`unified_market_latency_smoke_v19.py`.

1. [The system](#1-the-system)
2. [What is hard, and what makes it correct](#2-what-is-hard-and-what-makes-it-correct)
3. [Modules](#3-modules)
4. [Runs, bounds and fairness](#4-runs-bounds-and-fairness)
5. [Proofs](#5-proofs)
6. [Where the code and its documentation disagree](#6-where-the-code-and-its-documentation-disagree)
7. [What is not modelled](#7-what-is-not-modelled)
8. [Plan](#8-plan)

To check a model: `tlc -config Admission.cfg SQLiteWriteAdmission.tla`; to check
a proof: `tlapm CommitPath_proofs.tla`.

## 1. The system

The repository holds three programs and a large body of hand-run research.

**The market runner** (`v19` and the runners built on it) is one asyncio process
that listens to two log streams of Solana, Pump and PumpSwap, stores every trade
in SQLite, looks for movements of a token and opens an *episode* for each.

```
 PumpSwap stream --> numbering, bounded queue --> persist workers --> batching writer thread
                                                  |   (normalize)        |  (one transaction per batch)
                                   asset hint     |                      v
                                                  v               read-back, superset guard
                                        reservation coordinator          |
                                          (a ticket per asset)           v
                                                  |               prepare workers (threads)
                                                  +------> rendezvous <--+
                                                               |
                                                 ReadyAssetScheduler / demoting schedulers
                                                               |
                                  demoted payloads --> finalizer multiplexer
                                                               |
 Pump stream --> microbatches --> ordered coordinators --> token commit lanes (two thread pools)
                                                               |
                                              prioritized SQLite write admission
```

| Component | State | Operations | Talks to |
|---|---|---|---|
| Ingress (`v19:486`) | sequence number, bounded queue | receive, drop when full | persist workers |
| Deferred persistence (`src/pumpswap_deferred_persistence_v5.py`, `_normalized_persistence_v3/_v4.py`) | early asset index, writer queue, store | normalize, enqueue, write batch, read back | store, persist workers |
| Reservation coordinator (`v19:820`) | pending hints, next number, tickets | admit in ingress order or at once | scheduler |
| Rendezvous (`v19:389`) | prepared work, reservations | `maybe_submit`, `maybe_submit_skip` | scheduler |
| `ReadyAssetScheduler` (`src/pumpswap_ready_scheduler.py`) | tickets, cursors, pending index, ready queue | reserve, submit, skip, get, requeue, complete, cancel | finalizer |
| Demoting schedulers v34, v42, v51 | no-op tickets, acknowledgements, two-class queue | demotion pass before submit and complete | scheduler, audit queue |
| Finalizer multiplexer (`v19:955`) | audit queue, burst counter, two helper tasks | choose, wait, put back, serve, count at the deadline | scheduler, audits, monitor |
| `CrossSourceTokenCommitLanes` | a lock per token, two thread pools, overlap meter | submit, cancel, lock, commit, unlock, close | both finalizers |
| `PrioritizedSQLiteWriteAdmission` | one condition variable, two counters | acquire with a priority, release, starve | every SQLite writer |
| Pool identity resolvers (`src/pumpswap_normalization_resolver_v5.py` and its bases) | cache, a lock per pool, permits, negative cache, budget, batch queue, transports | resolve, learn from a creation, batch, hedge, give up | persist workers, RPC, store |
| Market store (`src/market_observation_store.py`) | SQLite tables | record trade, read a window | writers, preparation |
| Episodes (`src/market_opportunity_episode_store.py`, `_trigger_continuation_writer.py`, `unified_market_latency_smoke_v27.py`) | episodes and trigger rows, cache of known windows, writer queue | classify, assign, remember, enqueue, append a batch, close | finalizers, lanes, admission |
| Pump half (`v19:524-735`) | two sequence buffers, queues | microbatch, prepare, finalize in order | lanes |
| Route research | decisions, due outcomes, start pacer | freeze, capture once, complete | providers |

**The signals bot** (`signals_mvp/`) is a supervisor process and a worker process.
The worker runs cycles (discover pools, score them, alert by Telegram, follow up),
a Telegram poller thread, a heartbeat thread and, optionally, a thread that
verifies lineages for the embedded `pos_runner`.

| Component | State | Operations | Talks to |
|---|---|---|---|
| Supervisor (`supervisor.py`), worker (`worker.py`), instance lock | pid file, stop flag, heartbeat, config file, lock | start, spawn, watch, kill, restart, stop; `parar` | each other through files |
| HTTP layer (`http.py`) | tokens, stamp, pause, rate | acquire, 429, success | engine, runner |
| Engine (`engine.py`) | pools, signals | one cycle | storage, Telegram |
| Telegram (`telegram.py`) | update offset | poll, commands | storage, stop flag |
| pos_runner, watch list (`pos_runner/live.py:279-383, 804-1215`) | `pr_pools`, `pr_dormentes`, rotations of the last hour | offer, verify (a thread), promote, rotate, recheck, readmit, retire | radar, RPC, GeckoTerminal |
| pos_runner, trade feed (`live.py:1931-2004, 2428-2905, 3587-3769`) | `pr_bars`, detectors in memory, signals, alert keys, bankrolls | refresh, rebuild, feed, enter, alert, follow, close, book | GeckoTerminal, DexPaprika, Telegram |

**The copy-trade research** (`app.py`, `src/discovery`, `src/wallet_*`,
`src/wave_*`, `route_research_*`, `wallet_*`) is sequential: it reads RPC history
and the database, computes and prints. `benchmarks/` holds measurement harnesses
and the Rust decoders.

## 2. What is hard, and what makes it correct

* **A released writer may wake nobody.** The admission gate notifies on release
  only, and its waiting condition depends on who else waits. Correct when nobody
  sleeps beside a gate that is free for it, a causal writer is overtaken at most
  `Limit` times, and every writer gets in.
* **Tickets without gaps.** One lost or doubled ticket stops an asset for ever.
  Correct when jobs that share an asset finish in the order of their tickets, the
  index finds each job that has become ready, and no completion raises.
* **Demotion in the middle of a call.** It moves cursors while `submit` or
  `complete` is under way. Correct when the payload is in exactly one place,
  acknowledgements match the demoted jobs, and nobody waits behind a no-op.
* **Waiting on two queues at once.** The finalizer may have taken an item from
  both and must put one back. Correct when no item is lost, served twice or
  counted twice, and neither side starves.
* **Locks across two thread pools.** Correct when no token is committed twice at
  a time, the threads cannot deadlock, and nothing runs after `close()`.
* **An early reservation for a result that is not yet known.** Correct when the
  assets reserved cover what the write finds, whatever another delivery of the
  same transaction does meanwhile.
* **One identity, many who ask.** Notifications and creations of a pool meet in a
  cache, a lock, a table and a shared network budget, with a thread at every
  access to the table. Correct when the table keeps the earliest mapping in
  whatever order they come, an identity is learned once, none is dated before there
  was proof of it, and everybody gets an answer although no endpoint need give one.
* **Episodes that open out of order.** Two streams bring triggers of one token at
  their own times; the first opens an episode, the others belong to it, and a cache
  decides without the store which path a trigger takes. Correct when the windows of a
  token never overlap, the cache never says what the store would refuse, nothing that
  must be assigned skips the locks, and every reported hit has its row.
* **Rows that two threads write.** The lineage thread asks the RPC for minutes
  and writes its verdict over the row it read. Correct when the row still wants
  it, a token has one pool whatever way it takes through queue, watch, dormant
  list and back, and neither list fills up for good.
* **Writes that belong together and commit one by one.** `tick` may raise, and the
  process stop, between any two of them. Correct when pool and dormant record
  pair off, closed trades are in the bankroll, no alert is sent twice, and a
  detector made again after a restart is the one that was lost; where a cut does
  break that, a property counts what it may break.
* **Processes that find each other through files.** Correct when there is one
  worker per database, a stop request is honoured, and the watchdog ends the
  workers that hang and only those.

`PROJECT.json` lists the hazards with their lines and the properties that
cover them. Beyond those: a pool that has reached its maximal age leaves the watch
while a V1, V2 or V3 trade is open in it, because `_retire` asks for trades of V0
only (`live.py:1016`; `WatchedPools` has the guard as it is); a sleeping caller of
the rate limiter leaves a stamp in the future (`http.py:120`); at the deadline a
batch the writer has already taken is committed and its notifications are not
prepared (`v19:1226`), and the backlog the scheduler reports is the snapshot taken
before the pending jobs are cleared (`pumpswap_ready_scheduler.py:429`; the model
has both, no run asks).

## 3. Modules

| Module | Models | Kind |
|---|---|---|
| `SQLiteWriteAdmission` | `src/sqlite_write_admission.py` | detailed |
| `CausalOrder` | the promise of a per-asset causal scheduler | abstract |
| `ReadyAssetScheduler` | `src/pumpswap_ready_scheduler.py` | implements `CausalOrder` |
| `DemotingScheduler` | `src/pumpswap_demoting_scheduler_v34.py`, `_eager_..._v42.py`, `_stateful_priority_..._v51.py` | extends `ReadyAssetScheduler` |
| `FinalizerMultiplexer` | `v19:933-1165` and the deadline `v19:1202-1240` | detailed |
| `TokenCommitLanes` | `src/cross_source_token_commit_lanes.py` | detailed |
| `PumpSwapPipeline` | `v19` PumpSwap half with deferred persistence v5 and the batching writer | composes the parts around `CausalOrder` |
| `PoolIdentity` | `src/pumpswap_normalization_resolver_v5.py` on `_resolver_latency_hardening_v3.py`, `pumpswap_pool_store.py`, `_pool_mapping_fastpath_v4.py`, `_batched_resolver_v32.py`, `_parallel_batched_resolver_v41.py`, `_shared_transport_resolver_tailfix_v2.py` | composes event loop, threads, batches, transports |
| `EpisodeStore` | `src/market_opportunity_episode_store.py`, `market_trigger_continuation_writer.py`, `unified_market_latency_smoke_v27.py`, the gate of `_v28.py` | composes event loop, lanes, store, writer thread |
| `BotSupervision` | `signals_mvp/supervisor.py`, `worker.py`, `instance_lock.py` | composes processes and files |
| `WatchedPools` | `signals_mvp/pos_runner/live.py`: `offer`, `LineageVerifier`, `_startup`, `_promote`, `_retire`, rotation, dormant list | composes cycle, lineage thread, restarts |
| `TradeFeed` | `live.py`: `_refresh_core`, detectors, entries, alerts, paper trades, bankroll of V1 and V2 | composes two versions over shared candles, restarts |
| `CommitPath_proofs` | theorems of `SQLiteWriteAdmission` and `TokenCommitLanes` | proofs |
| `ReadyAssetScheduler_proofs` | theorems of `ReadyAssetScheduler`, its refinement of `CausalOrder`, and of `DemotingScheduler` | proofs |
| `PumpSwapPath_proofs` | theorems of `FinalizerMultiplexer` and `PumpSwapPipeline` | proofs |
| `SignalsBot_proofs` | theorems of `BotSupervision` and `TradeFeed` | proofs |
| `WatchedPools_proofs`, `PoolIdentity_proofs`, `EpisodeStore_proofs` | theorems of one module each | proofs |
| `SharedLemmas` | facts about numbers, sets and queues | lemmas |
| `MC*` | values of constants that need a definition, symmetry sets | model checking |

Definitions keep the names of the source; the comment of a variable names the
attribute it stands for, and the map in `PROJECT.json` gives the lines of every
definition. A definition whose comment begins with "Mutant of" is a plausible
mistake in the code it names: putting it in the place of the original makes the
run find the property violated that is meant to catch that mistake.

**Grain.** Code on an event loop is one step from one `await` to the next. A
thread takes a step for each operation on a lock, and for each transaction of
the database. A process takes a step for each access to a file, a process or the
lock. Clocks are left out: a timeout may happen whenever what it waits for has
not, and the fairness does not assume that it does.

**SQLiteWriteAdmission.** `pc` says where each thread is. `Block*` and `Grant*`
are the two outcomes of one evaluation of the waiting condition with the lock
held, on arrival and after each wake-up. `Release` is the `finally` clause with
its `notify_all`; `StarvationElapses` the audit's interval, and only a wait that
was given a timeout (`timed`) returns by itself. `consecutive` saturates at
`CountCap`, which a limited gate never reaches.

**ReadyAssetScheduler.** Each method is one action with its guards from the
exceptions the method raises; a call that raises changes nothing. `ticket`,
`issued` and `completed` are the dictionaries of the code; `byTicket` is the
pending index as a relation; `AdvanceOver` is `_advance_cursor` with the release
of the jobs found under the new ticket. `Requeue` is the put-back of the
multiplexer.

**DemotingScheduler.** A call that first runs the demotion pass and then submits
or completes is two steps with nothing in between (`call` locks the rest out). After an
overflow the tasks go on until the monitor looks (`v19:1202-1209`); the model does not
say which task the exception has ended, so it may go on too, which is more than the code
does.
The predicate that proves a pending job a continuation belongs to the runner's
episode cache: here any pending job may be proven. Both ways to hand the payload
over (the low class of the ready queue, or the audit handler with its bounded
queue, which may overflow and raise) are in the model.

**FinalizerMultiplexer.** The two helper tasks have states of their own, because
a helper may have taken an item when the `wait` that created it is over. Stateful
jobs are anonymous and come for ever, audits are told apart. The monitor's
end-of-run count, cancellation and unwinding are steps.

**TokenCommitLanes.** Tokens are numbers in the sorted order of the mints. The
meter and each lock are steps of their own. `lane` is the work queue of each
executor; a cancelled call that has started runs on in its thread.

**PumpSwapPipeline.** `runner` ranges over the five settings the runners use
(v19; v20-v25; v26; v27 to tailfix v5; tailfix v6 and later). The stages of a
notification are the awaits and threads it passes. A resolver is its outcome:
any subset of the assets a transaction trades, a different one for each
delivery. The writer is a thread that takes the waiting requests in batches; its
read-back follows the rule of the code (one read for the batch, or one after
each write when a transaction is in it twice). The scheduler is its abstract
form, the operator `Free` of `CausalOrder`, which the refinement above justifies.
From v26 on work without a trigger does not wait for its turn (`v19:403-415`): its
ticket is skipped. From v27 on the predicate at `v19:403` is another one
(`unified_market_latency_smoke_v27.py:122-133`), and the same goes for work with
triggers that all fall into known episodes: `Continuations` says which, `NothingToOrder`
that they are finalized at once, ahead of whatever of their token still waits. From v34
on waiting work that has become a continuation is demoted (`Demotions`) and finalized in
no order (`StartAudit`, `Audit`). The Pump half fills the same episode cache, so any
trigger may become a continuation at any time. `triggered` says that a preparation found
a trigger, and `emitted` has the notifications that assigned one to an episode: the
order properties are about these, and say nothing of continuations. Work that is drained
in one step with a later number is demoted by that number's pass as if it had been known
before. The audit queue that may overflow is in `DemotingScheduler`.

**PoolIdentity.** A call of `resolve_for_normalization_v5` or
`learn_from_create_async_v5` is a coroutine with a label in `pc`; `line` is the
lock of a pool with its waiters in order, `permits` the semaphore. The lookup before
the lock is asked for is two steps, the thread's read (`LookUp`) and what the
coroutine does with it later (`Looked`); so is the write (`Record`, `Reload`). Only
the holder of the lock writes the pool's row, so the reads it makes are merged with
their use. `IdentityOf` is what the chain says and never changes; `history` is what
earlier runs left, right or wrong. `batches`, `transportQueue` and `losers` are the
slots of v41 and the shared executor of tailfix v2: a decision frees the slot, and
what runs on keeps its worker. `recorded`, `learned` and `provenAt` are history
variables. The clock only dates mappings; every timeout may happen at any time.

**EpisodeStore.** A job is a prepared notification with a trigger; `key` is its
trigger key, `at` its `observed_at`, and an episode has the name of the key that
opened it. `opened`, `triggers` and `late` are the tables (`late` the rows of
`market_trigger_replay_conflicts` with the late-earlier action), `cache` the cache of
v27. `Classify` is `_prepared_has_trigger` on the event loop: a continuation is
finalized there (`inline`), with nothing else on the loop meanwhile; anything else
goes to a lane, takes its token's lock and looks again. An assignment is the SELECTs,
the commit and `cache.remember`, three steps within the write admission and the lock
(the last one outside of the admission), and a locked database sends it back to its
SELECTs. The writer's thread takes items one by one, and a batch commits as one. Past
the deadline threads go on, also after the writer has stopped. Both
streams' redeliveries reach a finalizer again: one of the Pump stream at its new time,
one of PumpSwap only when it brings a trade (`has_new_evidence`), but then for every
token of its transaction, whose rows are read again: a token without a new row keeps
its earlier time (`Times`).

**BotSupervision.** Processes are a bounded set of identities, each used once.
The supervisor's loop, its kill with grace period, the worker's cycles and
heartbeat thread, the operator's `parar` and config edits are actions. The
heartbeat is the pair the watchdog reads: who wrote it and whether that process
has finished a cycle. A healthy worker is never slower than the watchdog's
limits; a worker whose cycles keep failing counts as one that hangs. A process that is
killed ends: `proc.wait(timeout=10)` after `proc.kill()` (`supervisor.py:155-156`, 164-165)
does not time out. Where the system cannot end a killed process in ten seconds
(an uninterruptible read of a disk), `TimeoutExpired` leaves `run` through its `finally`,
the lock is released (`supervisor.py:298-301`) and the worker may live on beside a new
one, as after a `kill -9` of the supervisor; the theorems on supervision assume that
neither happens.

**WatchedPools.** `status`, `criado`, `tentativas` and `readmitido` are the row of
`pr_pools`; the open records of `pr_dormentes` are two queues, those never
rechecked and those rechecked once, of which the first `vencidos` are due again.
`pc` is where `tick` is; each row a loop visits is a step, and so is each write.
The lineage thread reads a row (`VerifierTake`) and writes its verdict later
(`Verdict`), with any step of the cycle in between. Market caps are left out: the
order of a queue by market cap is open, and a pool is `incapaz` when its phase and
its last candle allow its rotation. `TickRaises` and `Restart` cut a tick anywhere,
at most `MaxCuts` times. `_startup` sets `version_start` before it goes through the
pools, so a tick that raises in it is not begun again, as in the code.

**TradeFeed.** One pool and one timeframe; candles are numbers. What a detector
decides is a constant (`Entradas`: the candles that are an entry; `Saida`, `Tp1`:
where its trade ends): a detector that has seen the frozen candles in order makes
the same of them each time, and `FrozenCandlesSeen` is the promise that it has.
`visto` is `det.bars`; `sinal[t].idx` is the index the event is stored with, and
`Sees` the loop of `simulate_v1` that starts there. A refresh is one step per
write, per message and per consumed candle. `Send` delivers or does not. The
fallback (`FetchFallback`) asks for what follows the frozen candles, and the flat
candles `fill_gaps` makes are told apart from the frozen ones. `falhou` and
`jaFalhou` remember that a refresh raised while it fed its candles. `vez` is the set
of the versions a pass has still to visit; `First` says that V1 comes before V2.

## 4. Runs, bounds and fairness

| Run | Instance | What it shows |
|---|---|---|
| `admission` | 2 resolution, 2 causal, 1 audit thread, limit 2 | No lost wake-up; bounded overtaking; everybody is admitted |
| `scheduler` | 3 reservations of any subset of 3 assets | No completion raises, nothing lost or doubled; the refinement of `CausalOrder` with its fairness, hence exclusion, causal order, and every reservation is resolved |
| `demotion` | 4 reservations, 2 assets, an audit queue of 1 | No demoted payload is lost or doubled, also when the audit queue overflows; acknowledgements are exact; causal order survives demotion; nobody waits behind a no-op |
| `multiplexer_queues` | 4 audits, queue of 2, burst limit 3 | Evidence in one place, the deadline count covers what is left, every audit is served |
| `lanes` | 3 calls, 2 tokens, 1 and 2 workers | Tokens serialized, quiet after `close()`, every call ends |
| `pipeline` | 3 deliveries of 2 transactions, 2 workers, 2 preparers, queue and batch of 2 | The reservation covers the result; notifications whose persisted results share a token assign triggers to episodes in ticket order, and in ingress order in `global_prefix` mode, continuations excepted; everything numbered is processed |
| `pool_identity` | 2 notifications and the creation of one pool, with a wrong row of an earlier run, or a wrong and a right one; 1 notification of another; 1 batch worker, 2 endpoints, 2 transports, a budget of 2 | The earliest mapping wins; an identity is learned once; nothing in use is undurable or dated back; every call ends |
| `episodes` | 3 notifications of 1 token, 2 keys of Pump and 1 of PumpSwap, a window of 2, a clock to 2, batches of 2, 1 retry, 1 locked database | Windows never overlap; what the cache takes for a continuation the store takes; assignments of a token are serial and off the loop; every reported hit has its row |
| `supervision_safety` | 2 supervisors, 2 workers, no `kill -9` of a supervisor | One worker per database, a healthy worker is never killed by the watchdog |
| `supervision_liveness` | 1 supervisor that may be killed, 2 workers | A stop flag it can see ends it; a worker that hangs after its first cycle is replaced |
| `watched_pools` | 3 pools, 2 of one token, 1 left active by an earlier version; 1 slot, a queue of 2, 2 attempts, 1 rotation an hour, 1 cut | One pool per token; a verdict meets a row that still wants it; dormant pools and records pair off; the queue drains; dormant pools are rechecked |
| `trade_feed` | 5 candles, 3 entries of V1, 2 of V2, one in common, one cancelled, one before the watch; 1 cut | Detectors have the frozen candles; no alert twice; bankroll and closed trades agree; a trade whose exit is there is closed, unless its detector cannot be made again below the floor |

**Why the bounds are enough.** In the scheduler three reservations are the least
with a predecessor, a successor and one that shares an asset with each; the
demotion run has four so that a no-op in the middle of a chain has neighbours on
both sides. Two tokens and three calls make the crossing lock orders and a queue
behind a busy pool. A queue of two with four audits is full, empty and in between
while items are in flight; the burst and the overtakes saturate one above their
limit, where nothing more can be told apart. Three deliveries of which two are of
one transaction meet in every order in one batch, in two batches and across the
guard. A monitored run ends at the first error it sees, so one error before the
monitor looks is allowed. With two resolutions
and a creation a pool's lock has a holder and two waiters, and the creation comes
before, between and after the resolution's write; the other pool shares the batch, the
transports and the budget, which a third question would exceed. The semaphore never
fills there; three pools with a notification each and two permits (156 thousand states)
were checked once and hold. Three notifications are an opener, one before it that comes later, and a redelivery of
either; a clock to 2 with a window of 2 has both ends of the window. A clock to 3, so
that an episode follows one that has closed (4.3 million states), was checked once
without the liveness and holds. Two supervisors overlap in a start or a stop, and two
workers are a replacement. With one slot and three pools every pool is promoted,
rotated out by another and readmitted, a token's second pool is offered in each
state of the first, and the queue is full, so that an offer is refused. Five
candles let a trade be entered, confirmed, take profit, end and be booked while
another one is under way, with a cut and a refresh after it (a cut comes before the
last candle, so that what the next refresh makes good is seen). One cut falls in
every place; two cuts of `TradeFeed` without its liveness (2.1 million states) were
checked once and hold. `CHECK_DEADLOCK` is off where the system may stop:
all reservations used, the run ended, all processes dead.

**Fairness.** It is stated beside each specification.

* *Admission*: weak fairness of a woken thread's evaluation and of release (the
  lock is held for short, and every writer ends), strong fairness of the grant:
  a thread does not lose every race for the condition's lock. The starvation
  interval of a timed wait elapses.
* *Scheduler*: weak fairness of the runner's calls, strong fairness of `Complete`:
  the multiplexer resets its burst after a put-back, so a job that is put back is
  not put back for ever.
* *Multiplexer*: weak fairness of the finalizer's and helpers' steps, which the
  event loop schedules. Nothing makes stateful work stop coming.
* *Lanes*: weak fairness of each worker step; each call happens once.
* *Pipeline*: weak fairness of the tasks' and the writer's work; none of the stream.
* *Pool identities*: weak fairness of each call that has been made, of its threads and
  of the dispatcher, and deadlines come. None of the transports, which may hang for
  ever, nor of notifications.
* *Episodes*: weak fairness of the writer's thread and of the calls that have a
  thread. Nothing makes notifications come, the loop take them up, or the run end.
* *Supervision*: weak fairness of the processes that are scheduled; none of the
  operator, of failures, or of a process that hangs.
* *Watched pools*: weak fairness of the cycle and of the lineage thread; days pass
  and pools grow old; the call about a dormant pool is answered again and again.
  None of the radar, of verdicts that succeed, or of cuts. The last of the three
  is needed: a record whose call fails keeps its place, see 6.
* *Trade feed*: weak fairness of the refresh, candles keep closing, and
  GeckoTerminal serves all of them again and again. None of Telegram, of the
  fallback or of cuts.

## 5. Proofs

All theorems hold for every value of the constants under the assumptions the
modules name (`WritersAssumption`, `LimitAssumption`, `ReservationsAssumption`,
`AuditRoomAssumption`, `LanesAssumption`, `MultiplexerAssumption`,
`DeliveryAssumption`, `CapacityAssumption`,
`ProcessesAssumption`, `CandlesAssumption`, the assumptions of the watch, the pools and
the episodes): that
sets are finite where the code has a finite number of something, that limits are
numbers, that priorities do not overlap. None of them is about behaviour. Each proof
has an inductive invariant, which TLC has checked on the run's instance before it was
proved; a lemma per action that it is preserved; and short theorems that draw the
properties from it. `SharedLemmas` has what they have in common: least and greatest
elements of finite sets of numbers, the elements of a queue after an append or a take,
cardinalities of queues without repetition, and how often an element stands in a
sequence after an append, a take at the head or at the end.

* **CommitPath_proofs**, `SQLiteWriteAdmission`: `SingleWriter`, `BoundedOvertaking`,
  `NoLostWakeup`, types. `IInv` adds `SleepReason` (every sleeper has a reason
  that only a release, or its own timer, can remove; since arrivals do not
  notify, the reason must be one that arrivals cannot remove) and `Debt` (how
  many grants a waiting causal thread has seen is at most what the counter
  says, so the bound is on the counter).
* **CommitPath_proofs**, `TokenCommitLanes`: `TokensSerialized`, `MeterExact`,
  `NoLockDeadlock`, `QuietAfterClose`, types. `LockOrder` says that a call holds the
  least of its tokens; the holder of the greatest lock that anybody waits for can move.
  `QuietAfterClose` needs that a queued call is in its lane's queue (`QueuedInLane`) and
  that a lane which has been shut has nothing left and nobody at work (`ShutLanesIdle`).
* **ReadyAssetScheduler_proofs**, `ReadyAssetScheduler`: `AssetExclusion`, `CausalPrefix`,
  `CompletionAccepted`, `IndexExact`, `NothingLostOrDoubled`, types. `IInv` has
  the order of tickets, that everything behind a cursor is resolved
  (`BehindCursor`), that skipped tickets lie ahead of it, and where each job is
  (`Places`). The lemmas on `PastSkipped`, `Release` and `AdvanceOver` say what a
  cursor's move releases. `SchedulerImplementsCausalOrder` maps each action to one of
  `CausalOrder` or a stutter; `BehindCursor` gives the guard of `Start`.
* **ReadyAssetScheduler_proofs**, `DemotingScheduler`: `CausalPrefix`, `NoCursorOnNoOp`,
  `EvidenceKept`, types, of `DSpec`. `DIInv` adds to the scheduler's invariant that a
  demoted payload is a no-op and in one place (`Apart`), what `submit()` and
  `complete()` have counted (`Accounts`), and that after the shutdown nothing is
  pending (`Cleared`): a payload is then demoted by nobody. The lemmas about a
  cursor's move serve both specifications.
* **PumpSwapPath_proofs**, `FinalizerMultiplexer`: `EvidenceInOnePlace`, `TaskDoneBalanced`,
  `BoundedBurst`, `DeadlineCountCovers`, types. `Hands` says who may hold an item in
  which state, `Balance` ties `task_done` to it, `Overtaken` the burst to the history.
  `CountHolds` follows the number that was counted at the deadline through the
  cancellation and the unwinding: from there on items are only finalized.
* **PumpSwapPath_proofs**, `PumpSwapPipeline`: `ReservationCovers`,
  `ResultsInTicketOrder`, `IngressOrderKept`, types. `Reserved` says why the early
  reservation is enough: the index knows what is stored and what every waiting request
  will add, and what it held when a request entered the writer's queue covers all
  requests of the transaction that stand before it. `Drawn` ties tickets to the hints
  that were taken; the first number without a hint (`FirstGap`) makes the ticket of
  `global_prefix` mode the number. `Turns` says that who has started, or has assigned a
  trigger, has only predecessors that are out of the way (`Over`: processed, or demoted and
  left with nothing to assign); `Permitted` lists the moves that keep the invariant, so
  that a step which moves several numbers at once needs no proof of its own; the scheduler behind `Free` is the abstract `CausalOrder`, of which
  `FreeMeansTurn` is all that is needed.
* **WatchedPools_proofs**: `OnePoolPerToken`, `HeldRowStillAsks`, `RecordsMatchPools`,
  types. `Cycle` says what a tick has in hand between two writes that belong together,
  and that the rows a loop has still to visit are as they were read, although a verdict
  may come in between: the two threads' rows are disjoint, because a verdict is for a
  row that waits for one and a promotion for a row that does not. `Paired` counts the
  pools whose number of open records is not the `Expected` one, where the pool in hand
  is expected to be half done; only a cut there changes what is expected of it.
* **PoolIdentity_proofs**: `EarliestWins`, `LearnedOnce`, `NeverBackdated`, `Exclusion`,
  types. `Locks` says that the waiters of a pool's lock are the calls that wait, once
  each, and the first of them is the one at work; `Hydrations` whose answers the batches
  hold; `Searches` what a call that is at work knows (the row it missed is still
  missing, and it has not learned before); `Backed` that everything in use has a row
  and a proof.
* **EpisodeStore_proofs**: `WindowsDisjoint`, `ContinuationsFit`, `OpenersSerialized`,
  `NoRowCollides`, `FatalMeansLocked`, types. `Locked` says that an assignment holds its
  token's lock, `PlansStand` that what its SELECTs found is still so when it commits,
  `Rows` that triggers and cached keys lie in the windows of their episodes, `Admitted`
  that one transaction is open at a time.
* **SignalsBot_proofs**, `BotSupervision`: `SupervisorsSerial`, and `OneWorkerPerDatabase` as
  long as every worker has a supervisor that watches it, which holds when no
  supervisor is killed; types. The lock has the supervisor that is at work
  (`LockHeld`), and a supervisor's child is its own (`ChildrenKnown`).
  `HealthyWorkerKept` under the same condition: with one worker at a time, whoever has
  begun its cycles is who wrote the heartbeat (`HeartbeatOwn`), and the pair that the
  watchdog reads is about the worker it watches.
* **SignalsBot_proofs**, `TradeFeed`: `FrozenCandlesSeen`, `AlertsNotRepeated`,
  `BankrollMatches`, types. `Phases` and `InHand` say what a refresh has in hand at
  each of its steps. `Counting` says that what a detector has and what it still has to
  consume are the frozen candles, in order: the next fetch begins where every detector
  ends (`LastBarIs`), so that a refresh that is cut before it feeds leaves no hole.
  `Order` says that V1 has decided about a candle before V2 looks at it, in a feed, in
  a replay and across a cut replay of one version only (`Partial`); hence a trade of V2
  knows of the trade of V1 it is merged with (`Merged`), and one trade of a decision
  sends full alerts (`OneMain`), each after its key was written (`Keyed`). What was
  decided stays so because a candle that is late stays late (`DecidedStays`). `Ledgers`
  counts a trade in both ledgers: the saved one is never ahead of the one in memory, so
  that saving the second loses nothing, and only a cut between the closing and the
  last write adds to the `Broken` trades.

`SingleWriter`, `AssetExclusion`, `CausalPrefix` of the plain scheduler,
`IndexExact`, `MeterExact`, `NoLockDeadlock`, `TaskDoneBalanced`, `BoundedBurst`,
`SupervisorsSerial`, `Exclusion`, `NoRowCollides` and `FatalMeansLocked` are proved for
every value of the constants and are in no run.

Only model-checked: all liveness properties and the property of the fair refinement.
Liveness and ENABLED are beyond the prover, and so is
induction over data; the modules with theorems therefore use no recursive
operators, and what goes with each step is written pointwise (`EpisodeStore`,
`WatchedPools` and `PoolIdentity` have no operator of the libraries for that reason
where a plain function or `SubSeq` says the same).

## 6. Where the code and its documentation disagree

All of this was met while modelling, and the models have it. The properties that the
runs check say what does hold.

1. A comment in `_startup` (`live.py:822-828`) and a test
   (`signals_mvp/tests/test_pos_runner_v1_live.py:195-196`) say that an open trade of an active
   pool is resumed after a restart with the real prices. The detector is not made
   again while the last frozen candle is below `min_mc_usd` (`live.py:1956`): candles
   keep being frozen and the trade, whose exit is among them, is not looked at.
   `TradesClosed` states the exception (`Unwatched`) and its run has candles below the
   floor; the comment's promise, the same formula without `Unwatched(t)`, was checked
   once in that run and is violated.
2. The deployment guide says that two instances never write one database
   (`docs/DEPLOY_VPS_LINUX.md:130`, and `instance_lock.py:17`). The lock belongs to the
   supervisor alone (`supervisor.py:294`); when it is killed outside of a systemd
   control group the worker lives on, and a new supervisor starts a second one.
   `SupervisionSafety.cfg` with `SupervisorsMayDie = TRUE` shows it, and
   `WorkerIsSingle` is proved under the assumption that this does not happen.
3. A comment (`v19:1009-1011`) promises that an audit item taken from the queue is
   reported as pending at the deadline. The count (`v19:1212`) is taken before the
   tasks are cancelled: an item in a helper task or a hand is in neither summand.
   `DeadlineCountCovers` states what does hold.
4. The README of the bot (lines 59-61) says that a process without a cycle for the
   stall limit is replaced. The watchdog does not look at the progress before the
   first cycle has ended (`supervisor.py:275`), and the heartbeat thread keeps the
   file fresh. `HungWorkerReplaced` speaks of later cycles.
5. Finalization is to follow the per-asset order (`v19:166-167`). The preparation
   reads the transaction again after the superset guard
   (`pumpswap_radar_bridge_v5.py:70`); what a second delivery wrote meanwhile is
   committed without a ticket of that asset.
6. `_recheck_dormentes` says that each dormant pool is looked at about once a day
   (`live.py:1172-1176`). A call that fails does not stamp the record, so it stays
   at the head and all others wait for it (`live.py:1189-1194`); the open record a
   cut readmission leaves behind stays there for good. `DormantsRechecked` holds
   where calls succeed in the end and no such pair of writes was cut. Nothing
   repairs a cut pair later.
7. An exception while V1 is fed leaves V2 without candles that are frozen already
   (`live.py:3716`); the hole is there until the next start, and a trade opened
   behind it keeps an index that names another candle afterwards. `falhou` and
   `jaFalhou` exclude these cases from `FrozenCandlesSeen`.
8. A stop between closing a trade and the last of the two bankroll writes leaves
   the trade out of the bankroll for ever (`live.py:2705, 2725`): a closed signal
   is not visited again. `BankrollMatches` counts these.
9. V2 replies with a note to V1's entry alert also where that alert was never
   delivered (`live.py:2855`), and the confirmation of a merged fill is sent by
   both versions (`live.py:2871` does not ask for `so_v2`). `AlertsNotRepeated`
   counts entries, TP1 and exits.
10. "The store owns the canonical earliest-observed mapping, so reload it before
    normalization/cache use instead of returning a stale object", says
    `pumpswap_concurrent_resolver.py:94-97`. The resolver that overrides it looks at
    the store before it asks for the lock and caches what it read when the thread is
    back (`pumpswap_normalization_resolver_v5.py:113-116`, 88). A creation may have
    replaced the row in between and cached the canonical one: the cache then holds the
    replaced mapping, of a later time or with the wrong identity an earlier run left,
    and serves it for the rest of the run. In the model `\A p \in Pools : line[p] =
    <<>> => cache[p] \in {NoMapping, row[p]}` is violated; `NeverBackdated` bounds
    what a mapping in use may be.
11. An exception in `_startup` after `version_start` is set (`live.py:813`) skips
    the rest of it until the next start, although the cycle goes on.

12. "Repeated delivery of that trigger key reuses the same canonical episode", says the
    store of a trigger it has suppressed for being earlier than its episode
    (`market_opportunity_episode_store.py:241-247`), and the writer claims the same
    semantics (`market_trigger_continuation_writer.py:112-119`). It does not look at the
    suppressions: a Pump trigger delivered again inside the window is a continuation to
    the cache and becomes a row. `DOMAIN late \cap DOMAIN triggers = {}` is violated. In
    the same way a key delivered again in a later window is reported as a hit of another
    episode than its row names; windows stay disjoint all the same.

Without the index (v19 itself) the stored tokens are read before an await. The
model has the race; the superset guard then stops the run, which is what the
code intends, and `ResultsInTicketOrder` holds.

## 7. What is not modelled

`PROJECT.json` names every component with its reason. In short: provider I/O,
pure rules and statistics, reports and counters nobody acts on, sequential
hand-run scripts, benchmarks, and the parts of the plan below that are still to
be written. Within the modelled components: wall-clock durations, the contents of
messages and rows, metrics, the deadline of `PumpSwapPipeline` (a run that stops
is a prefix of a behaviour) and its backlog report, replay conflicts of one event.

Of the pool resolvers: the older `resolve` and the synchronous `learn_from_create`,
which no runner from tailfix v5 on calls; the audit rows of identity conflicts; the
prefetch, which those runners have turned off.

Of the episodes: the batch form of the store for the signal plane, the freezing of
`decision_as_of` and the loaders, the audit rows of a conflicting replay of a stored
trigger, the RuntimeErrors for a row without its partner in the same transaction.

Of `pos_runner`: V0 and V3, which are fed like V1 and V2; the shadow detectors, the
radar and the evidence, which measure beside them and write to tables nothing else
reads; wallets, reports and charts; prices, phases and the arithmetic of the
detectors. `l_bc` is written before the first candles are frozen; that a stop in
between skips the quality check of the first load is not a matter of the model,
which has no quality check.

## 8. Plan

In order of importance; the first eleven are done.

1. `SQLiteWriteAdmission`, with its proofs.
2. `CausalOrder`, `ReadyAssetScheduler`, with proofs and refinement.
3. `TokenCommitLanes`, with its proofs.
4. `FinalizerMultiplexer`, with its proofs.
5. `BotSupervision`, with its proofs.
6. `DemotingScheduler`.
7. `PumpSwapPipeline`.
8. `WatchedPools`.
9. `TradeFeed`.
10. `PoolIdentity`.
11. `EpisodeStore`.
12. `RateLimiter` (`signals_mvp/http.py:46-150`): grants within every window stay
    under the bucket; a pause lets nobody new through.

Every safety invariant that a run checks is stated by a theorem. Theorems to come:
that the demoting scheduler, whose causal order is proved, implements `CausalOrder`
as the plain one does, and the safety of the rate limiter when it is written.
