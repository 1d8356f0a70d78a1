----------------------------- MODULE CausalOrder -----------------------------
(***************************************************************************)
(* What a per-asset causal scheduler promises, without tickets, cursors or *)
(* queues (the docstring of ReadyAssetScheduler, src/pumpswap_ready_       *)
(* scheduler.py): reservations are numbered in ingress order, each names   *)
(* the assets it touches, and one may run only when every earlier one that *)
(* shares an asset has finished or was declared a no-op.                   *)
(***************************************************************************)
EXTENDS Integers

CONSTANTS
    Assets,           \* the assets (token mints) a notification can touch
    MaxReservations   \* bound: how many reservations are ever made

Ids == 0 .. MaxReservations - 1

VARIABLES
    assetsOf,   \* the assets of each reservation
    status,     \* how far each reservation has come
    stopped     \* the run is over

vars == <<assetsOf, status, stopped>>

Shares(q, r) == assetsOf[q] \cap assetsOf[r] # {}

\* Every earlier reservation that shares an asset with r is out of the way.
Free(r) ==
    \A q \in Ids : q < r /\ Shares(q, r) => status[q] \in {"done", "noop"}

Init ==
    /\ assetsOf = [r \in Ids |-> {}]
    /\ status = [r \in Ids |-> "free"]
    /\ stopped = FALSE

Become(r, s) == status' = [status EXCEPT ![r] = s]

\* Ids are given out in order.
Reserve(r, A) ==
    /\ ~stopped
    /\ \A q \in Ids : status[q] = "free" <=> q >= r
    /\ Become(r, "reserved")
    /\ assetsOf' = [assetsOf EXCEPT ![r] = A]
    /\ UNCHANGED stopped

Submit(r) ==
    /\ ~stopped
    /\ status[r] = "reserved"
    /\ Become(r, "submitted")
    /\ UNCHANGED <<assetsOf, stopped>>

Skip(r) ==
    /\ ~stopped
    /\ status[r] = "reserved"
    /\ Become(r, "noop")
    /\ UNCHANGED <<assetsOf, stopped>>

Start(r) ==
    /\ ~stopped
    /\ status[r] = "submitted"
    /\ Free(r)
    /\ Become(r, "running")
    /\ UNCHANGED <<assetsOf, stopped>>

PutBack(r) ==
    /\ ~stopped
    /\ status[r] = "running"
    /\ Become(r, "submitted")
    /\ UNCHANGED <<assetsOf, stopped>>

Finish(r) ==
    /\ ~stopped
    /\ status[r] = "running"
    /\ Become(r, "done")
    /\ UNCHANGED <<assetsOf, stopped>>

Stop == ~stopped /\ stopped' = TRUE /\ UNCHANGED <<assetsOf, status>>

Next ==
    \/ \E r \in Ids :
          \/ \E A \in SUBSET Assets : Reserve(r, A)
          \/ Submit(r) \/ Skip(r) \/ Start(r) \/ PutBack(r) \/ Finish(r)
    \/ Stop

Spec == Init /\ [][Next]_vars

\* A submitted job whose turn has come is not left waiting.
FairSpec == Spec /\ \A r \in Ids : WF_vars(Start(r)) /\ SF_vars(Finish(r))

=============================================================================
