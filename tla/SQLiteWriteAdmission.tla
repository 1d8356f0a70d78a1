------------------------ MODULE SQLiteWriteAdmission ------------------------
(***************************************************************************)
(* PrioritizedSQLiteWriteAdmission (src/sqlite_write_admission.py): one    *)
(* condition variable that hands the single SQLite writer to threads of    *)
(* three priorities.  `resolution' comes first, but with a limit set it    *)
(* yields to a waiting `causal' thread after Limit consecutive grants;     *)
(* `audit' yields to both until it has waited the starvation interval.     *)
(*                                                                         *)
(* A thread evaluates its waiting condition with the lock held, both when  *)
(* it arrives and each time it wakes, so one step is one evaluation: it    *)
(* is granted, or it sleeps.  Only a release notifies; an arrival does not.*)
(***************************************************************************)
EXTENDS Integers, FiniteSets

CONSTANTS
    ResolutionWriters,  \* threads that acquire("resolution")
    CausalWriters,      \* threads that acquire("causal")
    AuditWriters,       \* threads that acquire("audit")
    Limit,              \* resolution_max_consecutive_when_causal_waiting
    NoLimit,            \* its value None
    CountCap            \* bound: where the counters saturate in the model

Writers == ResolutionWriters \cup CausalWriters \cup AuditWriters

ASSUME WritersAssumption ==
    /\ ResolutionWriters \cap CausalWriters = {}
    /\ ResolutionWriters \cap AuditWriters = {}
    /\ CausalWriters \cap AuditWriters = {}

\* The constructor refuses a limit that is not positive.  The cap is never
\* reached by a limited gate, and an unlimited one does not read the counter.
ASSUME LimitAssumption ==
    /\ CountCap \in Nat \ {0}
    /\ NoLimit \notin Nat
    /\ Limit = NoLimit \/ (Limit \in Nat \ {0} /\ Limit < CountCap)

VARIABLES
    active,        \* _active
    pc,            \* where each thread is
    consecutive,   \* _consecutive_resolution_grants
    starved,       \* audit threads that have waited the starvation interval
    timed,         \* audit threads whose wait() has a timeout
    overtaken      \* history: resolution grants since a causal thread waits

vars == <<active, pc, consecutive, starved, timed, overtaken>>

-----------------------------------------------------------------------------

Waiting(W) == {t \in W : pc[t] \in {"woken", "asleep"}}
Writing == {t \in Writers : pc[t] = "writing"}
HigherWaiting == Waiting(ResolutionWriters \cup CausalWriters) # {}

\* _resolution_must_yield_to_causal, given whether a causal thread waits.
MustYield(causalWaits) ==
    /\ Limit # NoLimit
    /\ causalWaits
    /\ consecutive >= Limit

Bump(n) == IF n < CountCap THEN n + 1 ELSE n

Init ==
    /\ active = FALSE
    /\ pc = [t \in Writers |-> "idle"]
    /\ consecutive = 0
    /\ starved = {}
    /\ timed = {}
    /\ overtaken = 0

Grant(t) ==
    /\ active' = TRUE
    /\ pc' = [pc EXCEPT ![t] = "writing"]

Sleep(t) == pc' = [pc EXCEPT ![t] = "asleep"]

-----------------------------------------------------------------------------

GrantResolution(t) ==
    /\ ~active
    /\ ~MustYield(Waiting(CausalWriters) # {})
    /\ Grant(t)
    /\ IF Waiting(CausalWriters) = {}
       THEN consecutive' = 1 /\ overtaken' = 0
       ELSE consecutive' = Bump(consecutive) /\ overtaken' = Bump(overtaken)
    /\ UNCHANGED <<starved, timed>>

BlockResolution(t) ==
    /\ active \/ MustYield(Waiting(CausalWriters) # {})
    /\ Sleep(t)
    /\ UNCHANGED <<active, consecutive, starved, timed, overtaken>>

\* The thread has counted itself among the causal waiters.
ResolutionHasPriority ==
    Waiting(ResolutionWriters) # {} /\ ~MustYield(TRUE)

GrantCausal(t) ==
    /\ ~active
    /\ ~ResolutionHasPriority
    /\ Grant(t)
    /\ consecutive' = 0
    /\ overtaken' = 0
    /\ UNCHANGED <<starved, timed>>

BlockCausal(t) ==
    /\ active \/ ResolutionHasPriority
    /\ Sleep(t)
    /\ UNCHANGED <<active, consecutive, starved, timed, overtaken>>

\* Mutant of GrantAudit: an audit grant clears the fairness debt.
GrantAuditForgets(t) ==
    /\ ~active
    /\ ~HigherWaiting \/ t \in starved
    /\ Grant(t)
    /\ consecutive' = 0
    /\ starved' = starved \ {t}
    /\ timed' = timed \ {t}
    /\ UNCHANGED overtaken

\* Mutant of GrantAudit: no starvation path.
GrantAuditPatient(t) ==
    /\ ~active
    /\ ~HigherWaiting
    /\ Grant(t)
    /\ UNCHANGED <<consecutive, starved, timed, overtaken>>

GrantAudit(t) ==
    /\ ~active
    /\ ~HigherWaiting \/ t \in starved
    /\ Grant(t)
    /\ starved' = starved \ {t}
    /\ timed' = timed \ {t}
    /\ UNCHANGED <<consecutive, overtaken>>

BlockAudit(t) ==
    /\ active \/ (HigherWaiting /\ t \notin starved)
    /\ Sleep(t)
    /\ timed' = IF HigherWaiting /\ t \notin starved
                THEN timed \cup {t} ELSE timed \ {t}
    /\ UNCHANGED <<active, consecutive, starved, overtaken>>

\* One evaluation of the waiting condition, under the lock.
Evaluate(t) ==
    \/ t \in ResolutionWriters /\ (GrantResolution(t) \/ BlockResolution(t))
    \/ t \in CausalWriters /\ (GrantCausal(t) \/ BlockCausal(t))
    \/ t \in AuditWriters /\ (GrantAudit(t) \/ BlockAudit(t))

Arrive(t) == pc[t] = "idle" /\ Evaluate(t)

Wake(t) == pc[t] = "woken" /\ Evaluate(t)

\* Mutant of Release: notify() instead of notify_all().
ReleaseOne(t) ==
    /\ pc[t] = "writing"
    /\ active' = FALSE
    /\ \/ /\ \A u \in Writers : pc[u] # "asleep"
          /\ pc' = [pc EXCEPT ![t] = "idle"]
       \/ \E u \in Writers :
            /\ pc[u] = "asleep"
            /\ pc' = [pc EXCEPT ![t] = "idle", ![u] = "woken"]
    /\ UNCHANGED <<consecutive, starved, timed, overtaken>>

\* The finally of the context manager: notify_all wakes every sleeper.
Release(t) ==
    /\ pc[t] = "writing"
    /\ active
    /\ active' = FALSE
    /\ pc' = [u \in Writers |->
                IF u = t THEN "idle"
                ELSE IF pc[u] = "asleep" THEN "woken" ELSE pc[u]]
    /\ UNCHANGED <<consecutive, starved, timed, overtaken>>

\* The audit thread's clock passes audit_max_starvation_seconds.  A wait
\* with a timeout returns; one without sleeps on until a release.
StarvationElapses(t) ==
    /\ t \in Waiting(AuditWriters) \ starved
    /\ starved' = starved \cup {t}
    /\ pc' = IF t \in timed THEN [pc EXCEPT ![t] = "woken"] ELSE pc
    /\ timed' = timed \ {t}
    /\ UNCHANGED <<active, consecutive, overtaken>>

Next ==
    \E t \in Writers :
        Arrive(t) \/ Wake(t) \/ Release(t) \/ StarvationElapses(t)

Spec == Init /\ [][Next]_vars

-----------------------------------------------------------------------------
(* Fairness.  Transactions end, and a notified thread gets the lock and     *)
(* evaluates its condition; nobody is obliged to arrive.                    *)

Progress ==
    \A t \in Writers : WF_vars(Wake(t)) /\ WF_vars(Release(t))

\* In addition the operating system does not let one thread lose every race
\* for the lock, and time passes for a sleeping audit thread.
RaceFairness ==
    /\ \A t \in Writers : SF_vars(Wake(t) /\ pc'[t] = "writing")
    /\ \A t \in AuditWriters : SF_vars(StarvationElapses(t))

FairSpec == Spec /\ Progress /\ RaceFairness

-----------------------------------------------------------------------------

TypeOK ==
    /\ active \in BOOLEAN
    /\ pc \in [Writers -> {"idle", "woken", "asleep", "writing"}]
    /\ consecutive \in 0 .. CountCap
    /\ starved \in SUBSET AuditWriters
    /\ timed \in SUBSET AuditWriters
    /\ overtaken \in 0 .. CountCap

\* There is exactly one active SQLite writer, and _active says so: a release
\* never meets the "released while inactive" error.
SingleWriter ==
    /\ \A t, u \in Writing : t = u
    /\ active <=> Writing # {}

\* No lost wakeup.  Arrivals do not notify, so when nobody writes a sleeping
\* thread must have an awake one ahead of it that the gate will admit.
NoLostWakeup ==
    ~active /\ Waiting(Writers) # {} =>
        \E t \in Waiting(Writers) :
            /\ pc[t] = "woken"
            /\ \/ t \in ResolutionWriters /\ ~MustYield(Waiting(CausalWriters) # {})
               \/ t \in CausalWriters /\ ~ResolutionHasPriority
               \/ t \in AuditWriters /\ (~HigherWaiting \/ t \in starved)

\* While a causal thread waits, at most Limit resolution grants go before the
\* next causal one, whatever audit grants come in between.
BoundedOvertaking == Limit # NoLimit => overtaken <= Limit

\* Why a thread sleeps when nobody writes: what makes NoLostWakeup inductive.
SleepReason ==
    ~active =>
        /\ \A t \in ResolutionWriters :
              pc[t] = "asleep" => MustYield(Waiting(CausalWriters) # {})
        /\ \A t \in CausalWriters :
              pc[t] = "asleep" => ResolutionHasPriority
        /\ \A t \in AuditWriters :
              pc[t] = "asleep" => HigherWaiting

\* The gate's own counter bounds the history, and the limit bounds the counter.
Debt == Limit # NoLimit => overtaken <= consecutive /\ consecutive <= Limit

\* Every thread that waits, the audit ones included, is admitted in the end.
EveryWriterAdmitted ==
    \A t \in Writers : pc[t] \in {"woken", "asleep"} ~> pc[t] = "writing"

=============================================================================
