------------------------- MODULE ReadyAssetScheduler -------------------------
(***************************************************************************)
(* ReadyAssetScheduler (src/pumpswap_ready_scheduler.py): per-asset FIFO   *)
(* over multi-asset jobs.  Each reservation takes a ticket of every asset  *)
(* it touches.  A submitted job becomes ready when the completed cursor of *)
(* each of its assets stands at its ticket; until then it is pending and   *)
(* indexed by the tickets it still waits for, and only a cursor that       *)
(* reaches one of these looks at it again.  A reservation may be skipped   *)
(* instead; a skipped ticket is consumed when the cursor reaches it.       *)
(*                                                                         *)
(* All methods run on one event loop and none awaits half way, so each     *)
(* call is one step.  A call that raises changes nothing.                  *)
(***************************************************************************)
EXTENDS Integers, Sequences, FiniteSets, Functions

CONSTANTS
    Assets,           \* the assets (token mints) a notification can touch
    MaxReservations   \* bound: how many reservations are ever made

ASSUME ReservationsAssumption == MaxReservations \in Nat

Ids == 0 .. MaxReservations - 1

VARIABLES
    nextId,      \* _next_reservation_id
    issued,      \* _issued: the next ticket of each asset
    completed,   \* _completed: the cursor of each asset
    assetsOf,    \* the assets of each reservation
    ticket,      \* the ticket of each reservation for each of its assets
    ready,       \* _ready: the queue of jobs a finalizer may take
    pending,     \* _pending: the jobs that wait for a predecessor
    byTicket,    \* _pending_by_ticket, as a relation <<asset, ticket, job>>
    skipped,     \* _skipped_by_asset: no-op tickets still ahead of the cursor
    submitted,   \* _submitted_reservations
    cancelled,   \* cancel_waiters was called (_pre_cancel_snapshot is set)
    backlog,     \* the backlog that snapshot reports
    serving,     \* jobs a finalizer took from the ready queue
    accepted,    \* history: reservations whose submit returned
    noop,        \* history: reservations whose skip returned
    done         \* history: reservations whose complete returned

cursors == <<nextId, issued, completed, assetsOf, ticket>>
queues == <<ready, pending, byTicket, skipped, submitted>>
shutdown == <<cancelled, backlog>>
history == <<serving, accepted, noop, done>>
vars == <<cursors, queues, shutdown, history>>

-----------------------------------------------------------------------------

\* Mutant of ReadyAt: one asset whose turn has come is enough.
ReadyAtSome(r, c) == assetsOf[r] = {} \/ \E a \in assetsOf[r] : c[a] = ticket[r][a]

\* _reservation_ready, for cursors c.
ReadyAt(r, c) == \A a \in assetsOf[r] : c[a] = ticket[r][a]

Turn(r) == ReadyAt(r, completed)

Queued == {ready[i] : i \in 1 .. Len(ready)}

Least(S) == CHOOSE n \in S : \A m \in S : n <= m

\* _advance_skipped_asset: the cursor n moves over contiguous skipped tickets.
PastSkipped(n, tickets) == Least((n .. MaxReservations) \ tickets)

\* The candidates of _consider_successors are a set, released in any order.
Orderings(S) == Bijection(1 .. Cardinality(S), S)

Init ==
    /\ nextId = 0
    /\ issued = [a \in Assets |-> 0]
    /\ completed = [a \in Assets |-> 0]
    /\ assetsOf = [r \in Ids |-> {}]
    /\ ticket = [r \in Ids |-> [a \in Assets |-> 0]]
    /\ ready = <<>>
    /\ pending = {}
    /\ byTicket = {}
    /\ skipped = [a \in Assets |-> {}]
    /\ submitted = {}
    /\ cancelled = FALSE
    /\ backlog = [ready |-> 0, waiting |-> 0]
    /\ serving = {}
    /\ accepted = {}
    /\ noop = {}
    /\ done = {}

-----------------------------------------------------------------------------
(* The scheduler's methods.                                                *)

Reserve(A) ==
    /\ ~cancelled
    /\ nextId < MaxReservations
    /\ nextId' = nextId + 1
    /\ assetsOf' = [assetsOf EXCEPT ![nextId] = A]
    /\ ticket' = [ticket EXCEPT ![nextId] = issued]
    /\ issued' = [a \in Assets |-> IF a \in A THEN issued[a] + 1 ELSE issued[a]]
    /\ UNCHANGED <<completed, queues, shutdown, history>>

\* Callers submit or skip a reservation once.  The scheduler itself refuses a
\* second call, except for a reservation without assets, which leaves no trace.
FirstUse(r) == assetsOf[r] # {} \/ r \notin accepted \cup noop

\* The tickets of r that are neither consumed nor marked as no-op.
Unspent(r) ==
    \A a \in assetsOf[r] :
        ticket[r][a] >= completed[a] /\ ticket[r][a] \notin skipped[a]

\* Mutant of Submit: a second submit of a waiting job is not refused.
SubmitAgain(r) ==
    /\ ~cancelled
    /\ r < nextId
    /\ FirstUse(r)
    /\ Unspent(r)
    /\ submitted' = submitted \cup {r}
    /\ accepted' = accepted \cup {r}
    /\ IF Turn(r)
       THEN ready' = Append(ready, r) /\ UNCHANGED <<pending, byTicket>>
       ELSE /\ pending' = pending \cup {r}
            /\ byTicket' = byTicket \cup
                 {<<a, ticket[r][a], r>> : a \in assetsOf[r]}
            /\ UNCHANGED ready
    /\ UNCHANGED <<cursors, skipped, shutdown, serving, noop, done>>

Submit(r) ==
    /\ ~cancelled
    /\ r < nextId
    /\ FirstUse(r)
    /\ r \notin submitted
    /\ Unspent(r)
    /\ submitted' = submitted \cup {r}
    /\ accepted' = accepted \cup {r}
    /\ IF Turn(r)
       THEN /\ ready' = Append(ready, r)
            /\ UNCHANGED <<pending, byTicket>>
       ELSE /\ pending' = pending \cup {r}
            /\ byTicket' = byTicket \cup
                 {<<a, ticket[r][a], r>> :
                    a \in {b \in assetsOf[r] : completed[b] # ticket[r][b]}}
            /\ UNCHANGED ready
    /\ UNCHANGED <<cursors, skipped, shutdown, serving, noop, done>>

\* Cursors of the assets A move from `start' over the tickets `skip' marks; of
\* the jobs that still wait, those indexed by a ticket a cursor has reached are
\* considered for release.
AdvanceOver(A, start, skip, waiting) ==
    LET cursor == [a \in Assets |->
                     IF a \in A THEN PastSkipped(start[a], skip[a]) ELSE completed[a]]
        reached == {x \in byTicket :
                      completed[x[1]] < x[2] /\ x[2] <= cursor[x[1]]}
        candidates == {x[3] : x \in reached} \cap waiting
        released == {q \in candidates : ReadyAt(q, cursor)}
    IN  /\ completed' = cursor
        /\ skipped' = [a \in Assets |-> {n \in skip[a] : n >= cursor[a]}]
        /\ pending' = waiting \ released
        /\ byTicket' = {x \in byTicket \ reached :
                          x[3] \notin released \cup (pending \ waiting)}
        /\ \E order \in Orderings(released) : ready' = ready \o order

Advance(r, start, skip) == AdvanceOver(assetsOf[r], start, skip, pending)

\* Mutant of Skip: a submitted reservation may still be skipped.
SkipSubmitted(r) ==
    /\ ~cancelled
    /\ r < nextId
    /\ FirstUse(r)
    /\ Unspent(r)
    /\ Advance(r, completed,
               [a \in Assets |-> IF a \in assetsOf[r]
                                 THEN skipped[a] \cup {ticket[r][a]}
                                 ELSE skipped[a]])
    /\ noop' = noop \cup {r}
    /\ UNCHANGED <<nextId, issued, assetsOf, ticket, submitted, shutdown,
                   serving, accepted, done>>

Skip(r) ==
    /\ ~cancelled
    /\ r < nextId
    /\ FirstUse(r)
    /\ r \notin submitted
    /\ Unspent(r)
    /\ \A a \in assetsOf[r] : ticket[r][a] < issued[a]
    /\ Advance(r, completed,
               [a \in Assets |-> IF a \in assetsOf[r]
                                 THEN skipped[a] \cup {ticket[r][a]}
                                 ELSE skipped[a]])
    /\ noop' = noop \cup {r}
    /\ UNCHANGED <<nextId, issued, assetsOf, ticket, submitted, shutdown,
                   serving, accepted, done>>

GetReady ==
    /\ ~cancelled
    /\ ready # <<>>
    /\ serving' = serving \cup {Head(ready)}
    /\ ready' = Tail(ready)
    /\ UNCHANGED <<cursors, pending, byTicket, skipped, submitted, shutdown,
                   accepted, noop, done>>

RequeueReady(r) ==
    /\ ~cancelled
    /\ r \in serving
    /\ serving' = serving \ {r}
    /\ ready' = Append(ready, r)
    /\ UNCHANGED <<cursors, pending, byTicket, skipped, submitted, shutdown,
                   accepted, noop, done>>

Complete(r) ==
    /\ ~cancelled
    /\ r \in serving
    /\ r \in submitted
    /\ Turn(r)
    /\ submitted' = submitted \ {r}
    /\ Advance(r, [a \in Assets |-> ticket[r][a] + 1], skipped)
    /\ serving' = serving \ {r}
    /\ done' = done \cup {r}
    /\ UNCHANGED <<nextId, issued, assetsOf, ticket, shutdown, accepted, noop>>

\* The snapshot is taken before the structures it counts are cleared.
CancelWaiters ==
    /\ ~cancelled
    /\ cancelled' = TRUE
    /\ backlog' = [ready |-> Len(ready), waiting |-> Cardinality(pending)]
    /\ pending' = {}
    /\ byTicket' = {}
    /\ skipped' = [a \in Assets |-> {}]
    /\ submitted' = {}
    /\ UNCHANGED <<cursors, ready, history>>

Next ==
    \/ \E A \in SUBSET Assets : Reserve(A)
    \/ \E r \in Ids : Submit(r) \/ Skip(r) \/ RequeueReady(r) \/ Complete(r)
    \/ GetReady
    \/ CancelWaiters

Spec == Init /\ [][Next]_vars

\* The coordinator submits or skips what it reserved, the finalizer takes what
\* is ready and completes what it took.  It puts a job back only on a fairness
\* turn, after which its burst counter starts again, so it does not put the
\* same job back for ever.
Fairness ==
    /\ WF_vars(GetReady)
    /\ \A r \in Ids : WF_vars(Submit(r) \/ Skip(r)) /\ SF_vars(Complete(r))

FairSpec == Spec /\ Fairness

-----------------------------------------------------------------------------

TypeOK ==
    /\ nextId \in 0 .. MaxReservations
    /\ issued \in [Assets -> 0 .. nextId]
    /\ completed \in [Assets -> 0 .. nextId]
    /\ assetsOf \in [Ids -> SUBSET Assets]
    /\ ticket \in [Ids -> [Assets -> 0 .. MaxReservations]]
    /\ ready \in Seq(Ids)
    /\ pending \in SUBSET Ids
    /\ byTicket \in SUBSET (Assets \X (0 .. MaxReservations) \X Ids)
    /\ skipped \in [Assets -> SUBSET (0 .. MaxReservations)]
    /\ submitted \in SUBSET Ids
    /\ cancelled \in BOOLEAN
    /\ backlog \in [ready : Nat, waiting : Nat]
    /\ serving \in SUBSET Ids
    /\ accepted \in SUBSET Ids
    /\ noop \in SUBSET Ids
    /\ done \in SUBSET Ids

Live == Queued \cup serving

\* Jobs that are ready or being finalized never share an asset.
AssetExclusion ==
    \A q, r \in Live : q # r => assetsOf[q] \cap assetsOf[r] = {}

\* A job that is ready, being finalized or finished has no earlier reservation
\* of one of its assets that is neither finished nor a no-op.
CausalPrefix ==
    \A r \in Live \cup done : \A q \in Ids :
        q < r /\ assetsOf[q] \cap assetsOf[r] # {} => q \in done \cup noop

\* complete() never raises for a job a finalizer holds.
CompletionAccepted ==
    ~cancelled => \A r \in serving : r \in submitted /\ Turn(r)

\* Releasing by index misses nobody: a pending job is one whose turn has not
\* come, and the index holds exactly the tickets ahead of its cursors.
IndexExact ==
    ~cancelled =>
        /\ \A r \in pending : ~Turn(r)
        /\ byTicket = {x \in Assets \X (0 .. MaxReservations) \X pending :
                         /\ x[1] \in assetsOf[x[3]]
                         /\ x[2] = ticket[x[3]][x[1]]
                         /\ x[2] > completed[x[1]]}

\* An accepted job is in one place only until it is done, and once.
NothingLostOrDoubled ==
    /\ ~cancelled => accepted = pending \cup Queued \cup serving \cup done
    /\ pending \cap (Queued \cup serving \cup done) = {}
    /\ Queued \cap (serving \cup done) = {}
    /\ serving \cap done = {}
    /\ Cardinality(Queued) = Len(ready)
    /\ accepted \cap noop = {}

-----------------------------------------------------------------------------
(* The scheduler implements CausalOrder.                                   *)

StatusOf(r) ==
    IF r \in done THEN "done"
    ELSE IF r \in serving THEN "running"
    ELSE IF r \in accepted THEN "submitted"
    ELSE IF r \in noop THEN "noop"
    ELSE IF r < nextId THEN "reserved" ELSE "free"

Causal == INSTANCE CausalOrder
            WITH status <- [r \in Ids |-> StatusOf(r)], stopped <- cancelled

ImplementsCausalOrder == Causal!Spec
ImplementsFairCausalOrder == Causal!FairSpec

=============================================================================
