-------------------------- MODULE CommitPath_proofs --------------------------
(***************************************************************************)
(* What a trigger commit passes on its way to the database: the lanes that  *)
(* serialize the commits of a token, for any number of calls, tokens and    *)
(* workers, and the write admission, for any number of threads and any      *)
(* limit.  The specifications share no variable.                            *)
(***************************************************************************)
EXTENDS SQLiteWriteAdmission, TokenCommitLanes, SharedLemmas

-----------------------------------------------------------------------------
(* SQLiteWriteAdmission.  The inductive invariant adds to the promises why a *)
(* thread sleeps while nobody writes (SleepReason) and what the gate's       *)
(* counter says about the history (Debt).                                   *)

IInv == TypeOK /\ SingleWriter /\ SleepReason /\ Debt

\* Nobody has arrived, so the invariant holds initially.
LEMMA InitInvariant == Init => IInv
<1> SUFFICES ASSUME Init PROVE IInv
  OBVIOUS
<1>1. TypeOK
  <2>1. 0 \in 0 .. CountCap
    BY LimitAssumption
  <2> QED
    BY <2>1 DEF Init, TypeOK
<1>2. SingleWriter
  BY DEF Init, SingleWriter, Writing
<1>3. SleepReason
  BY DEF Init, SleepReason, Writers
<1>4. Debt
  BY LimitAssumption DEF Init, Debt
<1> QED
  BY <1>1, <1>2, <1>3, <1>4 DEF IInv

\* A grant to t, whatever its priority, keeps the writer single: nobody was
\* writing.  The counters are left to the three callers.
LEMMA GrantKeepsSingleWriter ==
  ASSUME NEW t \in Writers, IInv, ~active, Grant(t)
  PROVE  SingleWriter' /\ SleepReason'
<1>1. \A u \in Writers : pc[u] # "writing"
  BY DEF IInv, SingleWriter, Writing
<1>2. \A u \in Writers : pc'[u] = "writing" <=> u = t
  BY <1>1 DEF Grant, IInv, TypeOK
<1>3. SingleWriter'
  BY <1>2 DEF SingleWriter, Writing, Grant
<1>4. SleepReason'
  BY DEF SleepReason, Grant
<1> QED
  BY <1>3, <1>4

\* Falling asleep keeps the writer single.
LEMMA SleepKeepsSingleWriter ==
  ASSUME NEW t \in Writers, IInv, pc[t] \in {"idle", "woken"}, Sleep(t),
         UNCHANGED active
  PROVE  SingleWriter'
<1>1. \A u \in Writers : pc'[u] = "writing" <=> pc[u] = "writing"
  BY DEF Sleep, IInv, TypeOK
<1>2. Writing' = Writing
  BY <1>1 DEF Writing
<1> QED
  BY <1>2 DEF SingleWriter, IInv

LEMMA GrantsPreserve ==
  ASSUME NEW t \in Writers, IInv,
         \/ t \in ResolutionWriters /\ GrantResolution(t)
         \/ t \in CausalWriters /\ GrantCausal(t)
         \/ t \in AuditWriters /\ GrantAudit(t)
  PROVE  IInv'
<1>1. Grant(t) /\ ~active
  BY DEF GrantResolution, GrantCausal, GrantAudit
<1>2. SingleWriter' /\ SleepReason'
  BY <1>1, GrantKeepsSingleWriter
<1>3. CASE GrantResolution(t)
  <2>1. TypeOK'
    BY <1>3, LimitAssumption
    DEF GrantResolution, Grant, Bump, IInv, TypeOK, Writers
  <2>2. Debt'
    BY <1>3, LimitAssumption
    DEF GrantResolution, MustYield, Bump, IInv, TypeOK, Debt
  <2> QED
    BY <1>2, <2>1, <2>2 DEF IInv
<1>4. CASE GrantCausal(t)
  <2>1. TypeOK'
    BY <1>4, LimitAssumption DEF GrantCausal, Grant, IInv, TypeOK
  <2>2. Debt'
    BY <1>4, LimitAssumption DEF GrantCausal, Debt
  <2> QED
    BY <1>2, <2>1, <2>2 DEF IInv
<1>5. CASE GrantAudit(t)
  <2>1. TypeOK'
    BY <1>5 DEF GrantAudit, Grant, IInv, TypeOK
  <2>2. Debt'
    BY <1>5 DEF GrantAudit, IInv, Debt
  <2> QED
    BY <1>2, <2>1, <2>2 DEF IInv
<1> QED
  BY <1>3, <1>4, <1>5

LEMMA BlockResolutionPreserves ==
  ASSUME NEW t \in ResolutionWriters, IInv, pc[t] \in {"idle", "woken"},
         BlockResolution(t)
  PROVE  IInv'
<1>1. TypeOK' /\ Debt' /\ SingleWriter'
  BY SleepKeepsSingleWriter
  DEF BlockResolution, Sleep, IInv, TypeOK, Debt, Writers
<1>2. /\ Waiting(CausalWriters)' = Waiting(CausalWriters)
      /\ Waiting(ResolutionWriters)' # {}
      /\ HigherWaiting'
  BY WritersAssumption
  DEF BlockResolution, Sleep, Waiting, HigherWaiting, IInv, TypeOK, Writers
<1>3. SleepReason'
  <2> SUFFICES ASSUME ~active' PROVE SleepReason'
    BY DEF SleepReason
  <2>1. MustYield(Waiting(CausalWriters) # {})
    BY DEF BlockResolution
  <2>2. MustYield(Waiting(CausalWriters) # {})'
    BY <1>2, <2>1 DEF MustYield, BlockResolution
  <2>3. ASSUME NEW c \in CausalWriters PROVE pc'[c] # "asleep"
    BY <2>1, WritersAssumption
    DEF BlockResolution, Sleep, SleepReason, ResolutionHasPriority, MustYield,
        IInv, TypeOK, Writers
  <2> QED
    BY <1>2, <2>2, <2>3 DEF SleepReason
<1> QED
  BY <1>1, <1>3 DEF IInv

LEMMA BlockCausalPreserves ==
  ASSUME NEW t \in CausalWriters, IInv, pc[t] \in {"idle", "woken"},
         BlockCausal(t)
  PROVE  IInv'
<1>1. TypeOK' /\ Debt' /\ SingleWriter'
  BY SleepKeepsSingleWriter
  DEF BlockCausal, Sleep, IInv, TypeOK, Debt, Writers
<1>2. /\ Waiting(ResolutionWriters)' = Waiting(ResolutionWriters)
      /\ HigherWaiting'
  BY WritersAssumption
  DEF BlockCausal, Sleep, Waiting, HigherWaiting, IInv, TypeOK, Writers
<1>3. SleepReason'
  <2> SUFFICES ASSUME ~active' PROVE SleepReason'
    BY DEF SleepReason
  <2>1. ResolutionHasPriority
    BY DEF BlockCausal
  <2>2. ResolutionHasPriority'
    BY <1>2, <2>1 DEF ResolutionHasPriority, MustYield, BlockCausal
  <2>3. ASSUME NEW r \in ResolutionWriters PROVE pc'[r] # "asleep"
    BY <2>1, WritersAssumption
    DEF BlockCausal, Sleep, SleepReason, ResolutionHasPriority, MustYield,
        IInv, TypeOK, Writers
  <2> QED
    BY <1>2, <2>2, <2>3 DEF SleepReason
<1> QED
  BY <1>1, <1>3 DEF IInv

LEMMA BlockAuditPreserves ==
  ASSUME NEW t \in AuditWriters, IInv, pc[t] \in {"idle", "woken"},
         BlockAudit(t)
  PROVE  IInv'
<1>1. TypeOK' /\ Debt' /\ SingleWriter'
  BY SleepKeepsSingleWriter
  DEF BlockAudit, Sleep, IInv, TypeOK, Debt, Writers
<1>2. /\ Waiting(ResolutionWriters)' = Waiting(ResolutionWriters)
      /\ Waiting(CausalWriters)' = Waiting(CausalWriters)
      /\ HigherWaiting' = HigherWaiting
  BY WritersAssumption
  DEF BlockAudit, Sleep, Waiting, HigherWaiting, IInv, TypeOK, Writers
<1>3. SleepReason'
  <2>1. \A u \in ResolutionWriters \cup CausalWriters : pc'[u] = pc[u]
    BY WritersAssumption DEF BlockAudit, Sleep, IInv, TypeOK, Writers
  <2>2. ~active' => HigherWaiting \/ \A u \in AuditWriters : pc'[u] # "asleep"
    BY DEF BlockAudit
  <2>3. MustYield(Waiting(CausalWriters) # {})'
          = MustYield(Waiting(CausalWriters) # {})
    BY <1>2 DEF MustYield, BlockAudit
  <2>4. ResolutionHasPriority' = ResolutionHasPriority
    BY <1>2 DEF ResolutionHasPriority, MustYield, BlockAudit
  <2>5. active' = active
    BY DEF BlockAudit
  <2> QED
    BY <1>2, <2>1, <2>2, <2>3, <2>4, <2>5 DEF SleepReason, IInv
<1> QED
  BY <1>1, <1>3 DEF IInv

LEMMA ReleasePreserves ==
  ASSUME NEW t \in Writers, IInv, Release(t)
  PROVE  IInv'
<1>1. TypeOK' /\ Debt'
  BY DEF Release, IInv, TypeOK, Debt
<1>2. \A u \in Writers : pc'[u] \notin {"writing", "asleep"}
  BY DEF Release, IInv, TypeOK, SingleWriter, Writing
<1>3. SingleWriter'
  BY <1>2 DEF Release, SingleWriter, Writing
<1>4. SleepReason'
  BY <1>2 DEF SleepReason, Writers
<1> QED
  BY <1>1, <1>3, <1>4 DEF IInv

LEMMA StarvationPreserves ==
  ASSUME NEW t \in Writers, IInv, StarvationElapses(t)
  PROVE  IInv'
<1>1. TypeOK' /\ Debt'
  BY DEF StarvationElapses, IInv, TypeOK, Debt, Waiting
<1>2. \A u \in Writers :
        /\ pc'[u] = "writing" <=> pc[u] = "writing"
        /\ pc'[u] = "asleep" => pc[u] = "asleep"
        /\ pc'[u] \in {"woken", "asleep"} <=> pc[u] \in {"woken", "asleep"}
  BY DEF StarvationElapses, IInv, TypeOK, Waiting
<1>3. Writing' = Writing
  BY <1>2 DEF Writing
<1>4. SingleWriter'
  BY <1>3 DEF SingleWriter, IInv, StarvationElapses
<1>5. /\ Waiting(ResolutionWriters)' = Waiting(ResolutionWriters)
      /\ Waiting(CausalWriters)' = Waiting(CausalWriters)
      /\ HigherWaiting' = HigherWaiting
  BY <1>2 DEF Waiting, HigherWaiting, Writers
<1>6. /\ MustYield(Waiting(CausalWriters) # {})'
           = MustYield(Waiting(CausalWriters) # {})
      /\ ResolutionHasPriority' = ResolutionHasPriority
      /\ active' = active
  BY <1>5 DEF MustYield, ResolutionHasPriority, StarvationElapses
<1>7. SleepReason'
  BY <1>2, <1>5, <1>6 DEF SleepReason, IInv, Writers
<1> QED
  BY <1>1, <1>4, <1>7 DEF IInv

LEMMA NextInvariant == IInv /\ [Next]_vars => IInv'
<1> SUFFICES ASSUME IInv, [Next]_vars PROVE IInv'
  OBVIOUS
<1>1. ASSUME NEW t \in Writers, pc[t] \in {"idle", "woken"}, Evaluate(t)
      PROVE  IInv'
  BY <1>1, GrantsPreserve, BlockResolutionPreserves, BlockCausalPreserves,
     BlockAuditPreserves DEF Evaluate
<1>2. ASSUME NEW t \in Writers, Release(t) PROVE IInv'
  BY <1>2, ReleasePreserves
<1>3. ASSUME NEW t \in Writers, StarvationElapses(t) PROVE IInv'
  BY <1>3, StarvationPreserves
<1>4. CASE UNCHANGED vars
  BY <1>4 DEF vars, IInv, TypeOK, SingleWriter, Writing, SleepReason, Debt,
     Waiting, HigherWaiting, MustYield, ResolutionHasPriority
<1> QED
  BY <1>1, <1>2, <1>3, <1>4 DEF Next, Arrive, Wake

THEOREM Invariance == Spec => []IInv
BY InitInvariant, NextInvariant, PTL DEF Spec

\* Every variable of the gate keeps its type.
THEOREM TypeCorrect == Spec => []TypeOK
<1>1. IInv => TypeOK
  BY DEF IInv
<1> QED
  BY <1>1, Invariance, PTL

\* Mutual exclusion: at most one thread is between its grant and its release,
\* and _active is set exactly then, so no release raises.
THEOREM ExactlyOneWriter == Spec => []SingleWriter
<1>1. IInv => SingleWriter
  BY DEF IInv
<1> QED
  BY <1>1, Invariance, PTL

\* With a limit, at most Limit resolution grants overtake a waiting causal
\* thread between two causal grants.
THEOREM OvertakingIsBounded == Spec => []BoundedOvertaking
<1>1. IInv => BoundedOvertaking
  BY LimitAssumption DEF IInv, TypeOK, Debt, BoundedOvertaking
<1> QED
  BY <1>1, Invariance, PTL

LEMMA AwakeAndAdmissible == IInv => NoLostWakeup
<1> SUFFICES ASSUME IInv, ~active, Waiting(Writers) # {} PROVE NoLostWakeup
  BY DEF NoLostWakeup
<1>1. CASE MustYield(Waiting(CausalWriters) # {})
  <2>1. PICK c \in CausalWriters : pc[c] \in {"woken", "asleep"}
    BY <1>1 DEF MustYield, Waiting
  <2>2. ~ResolutionHasPriority
    BY <1>1 DEF MustYield, ResolutionHasPriority
  <2>3. pc[c] = "woken"
    BY <2>1, <2>2 DEF IInv, SleepReason
  <2> QED
    BY <2>2, <2>3 DEF NoLostWakeup, Waiting, Writers
<1>2. CASE /\ ~MustYield(Waiting(CausalWriters) # {})
           /\ Waiting(ResolutionWriters) # {}
  <2>1. PICK r \in ResolutionWriters : pc[r] \in {"woken", "asleep"}
    BY <1>2 DEF Waiting
  <2>2. pc[r] = "woken"
    BY <1>2, <2>1 DEF IInv, SleepReason
  <2> QED
    BY <1>2, <2>2 DEF NoLostWakeup, Waiting, Writers
<1>3. CASE /\ Waiting(ResolutionWriters) = {}
           /\ Waiting(CausalWriters) # {}
  <2>1. PICK c \in CausalWriters : pc[c] \in {"woken", "asleep"}
    BY <1>3 DEF Waiting
  <2>2. pc[c] = "woken"
    BY <1>3, <2>1 DEF IInv, SleepReason, ResolutionHasPriority
  <2> QED
    BY <1>3, <2>2 DEF NoLostWakeup, Waiting, Writers, ResolutionHasPriority
<1>4. CASE Waiting(ResolutionWriters) = {} /\ Waiting(CausalWriters) = {}
  <2>1. ~HigherWaiting
    BY <1>4 DEF HigherWaiting, Waiting
  <2>2. PICK a \in AuditWriters : pc[a] \in {"woken", "asleep"}
    BY <1>4 DEF Waiting, Writers
  <2>3. pc[a] = "woken"
    BY <2>1, <2>2 DEF IInv, SleepReason
  <2> QED
    BY <2>1, <2>3 DEF NoLostWakeup, Waiting, Writers
<1> QED
  BY <1>1, <1>2, <1>3, <1>4

\* No lost wakeup: whenever the gate is free and someone waits, an awake
\* thread is waiting that the gate will admit.
THEOREM WakeupsAreNotLost == Spec => []NoLostWakeup
BY Invariance, AwakeAndAdmissible, PTL

-----------------------------------------------------------------------------
(* TokenCommitLanes.                                                        *)

\* A lock has one holder.
OneHolder ==
    \A c, d \in Calls : c # d => held[c] \cap held[d] = {}

\* Locks are held by calls at work only, all of them while the commit runs, and
\* a call that is still locking holds the first of its tokens.
LockOrder ==
    /\ \A c \in Calls : held[c] \subseteq keys[c]
    /\ \A c \in Calls : held[c] # {} => stage[c] \in AtWork
    /\ \A c \in Calls : stage[c] = "running" => held[c] = keys[c]
    /\ \A c \in Calls : stage[c] = "locking" =>
          \A t \in held[c], u \in keys[c] \ held[c] : t < u

LanesInv == LanesTypeOK /\ OneHolder /\ LockOrder /\ MeterExact

-----------------------------------------------------------------------------

LEMMA LanesInitInvariant == LanesInit => LanesInv
<1> SUFFICES ASSUME LanesInit PROVE LanesInv
  OBVIOUS
<1>1. \A s \in Sources : lane[s] \in Seq(Calls)
  BY DEF LanesInit
<1>2. LanesTypeOK
  BY <1>1 DEF LanesInit, LanesTypeOK, Sources
<1>3. OneHolder /\ LockOrder /\ MeterExact
  BY DEF LanesInit, OneHolder, LockOrder, MeterExact
<1> QED
  BY <1>2, <1>3 DEF LanesInv

\* A step outside the locks: it moves a call from one place to another where it
\* holds nothing and does not commit.
LEMMA QuietStep ==
  ASSUME LanesInv, LanesTypeOK', held' = held, activeTokens' = activeTokens,
         overlaps' = overlaps, NEW c \in Calls,
         stage[c] # "running", stage'[c] \notin {"running", "locking"},
         held[c] = {},
         \A d \in Calls \ {c} : stage'[d] = stage[d] /\ keys'[d] = keys[d]
  PROVE  LanesInv'
<1>1. OneHolder'
  BY DEF LanesInv, OneHolder
<1>2. LockOrder'
  BY DEF LanesInv, LockOrder
<1>3. {d \in Calls : stage'[d] = "running"} = {d \in Calls : stage[d] = "running"}
  OBVIOUS
<1>4. MeterExact'
  BY <1>3 DEF LanesInv, MeterExact
<1> QED
  BY <1>1, <1>2, <1>4 DEF LanesInv

LEMMA SubmitPreserves ==
  ASSUME LanesInv, NEW c \in Calls, NEW s \in Sources, NEW T \in SUBSET Tokens,
         Submit(c, s, T)
  PROVE  LanesInv'
<1>1. lane[s] \in Seq(Calls) /\ Append(lane[s], c) \in Seq(Calls)
  BY DEF LanesInv, LanesTypeOK
<1>2. LanesTypeOK'
  BY <1>1 DEF LanesInv, LanesTypeOK, Submit
<1>3. held[c] = {}
  BY DEF LanesInv, LockOrder, AtWork, Submit
<1> QED
  BY <1>2, <1>3, QuietStep DEF LanesInv, LanesTypeOK, Submit

LEMMA CancelPreserves ==
  ASSUME LanesInv, NEW c \in Calls, Cancel(c)
  PROVE  LanesInv'
<1>1. LanesTypeOK'
  BY DEF LanesInv, LanesTypeOK, Cancel
<1>2. held[c] = {}
  BY DEF LanesInv, LockOrder, AtWork, Cancel
<1> QED
  BY <1>1, <1>2, QuietStep DEF LanesInv, LanesTypeOK, Cancel

\* Taking a call from its lane leaves a queue of calls.
LEMMA TakeTyped ==
  ASSUME LanesInv, NEW c \in Calls, Take(c)
  PROVE  lane' \in [Sources -> Seq(Calls)]
<1>1. source[c] \in Sources /\ lane \in [Sources -> Seq(Calls)]
  BY DEF LanesInv, LanesTypeOK
<1>2. Tail(lane[source[c]]) \in Seq(Calls)
  BY <1>1 DEF Take
<1> QED
  BY <1>1, <1>2 DEF Take

LEMMA StartPreserves ==
  ASSUME LanesInv, NEW c \in Calls, Start(c)
  PROVE  LanesInv'
<1>1. LanesTypeOK'
  BY TakeTyped DEF LanesInv, LanesTypeOK, Start, AtWork
<1>2. held[c] = {} /\ held' = held /\ stage' = [stage EXCEPT ![c] = "locking"]
  BY DEF LanesInv, LockOrder, AtWork, Start
<1>3. OneHolder' /\ LockOrder'
  BY <1>2 DEF LanesInv, LanesTypeOK, OneHolder, LockOrder, AtWork, Start
<1>4. {d \in Calls : stage'[d] = "running"} = {d \in Calls : stage[d] = "running"}
  BY <1>2 DEF LanesInv, LanesTypeOK, Start
<1>5. MeterExact'
  BY <1>4 DEF LanesInv, MeterExact, Start
<1> QED
  BY <1>1, <1>3, <1>5 DEF LanesInv

LEMMA DiscardPreserves ==
  ASSUME LanesInv, NEW c \in Calls, Discard(c)
  PROVE  LanesInv'
<1>1. LanesTypeOK'
  BY TakeTyped DEF LanesInv, LanesTypeOK, Discard
<1>2. OneHolder' /\ LockOrder' /\ MeterExact'
  BY DEF LanesInv, OneHolder, LockOrder, MeterExact, Discard
<1> QED
  BY <1>1, <1>2 DEF LanesInv

LEMMA AcquirePreserves ==
  ASSUME LanesInv, NEW c \in Calls, NEW t \in Tokens, Acquire(c, t)
  PROVE  LanesInv'
<1>1. LanesTypeOK'
  BY DEF LanesInv, LanesTypeOK, Acquire
<1>2. /\ held'[c] = held[c] \cup {t}
      /\ \A d \in Calls \ {c} : held'[d] = held[d]
      /\ stage' = stage /\ keys' = keys /\ stage[c] = "locking"
  BY DEF LanesInv, LanesTypeOK, Acquire
<1>3. OneHolder'
  BY <1>2 DEF LanesInv, OneHolder, Acquire, LockFree
<1>4. LockOrder'
  <2>1. ASSUME NEW u \in held'[c], NEW v \in keys[c] \ held'[c]
        PROVE  u < v
    <3>1. t <= v /\ t # v /\ t \in Int /\ v \in Int
      BY <1>2 DEF LanesInv, LanesTypeOK, Acquire, NextLock, Tokens
    <3>2. u \in held[c] => u < v
      BY <1>2 DEF LanesInv, LockOrder
    <3> QED
      BY <1>2, <3>1, <3>2
  <2> QED
    BY <1>2, <2>1 DEF LanesInv, LockOrder, Acquire, NextLock, AtWork
<1>5. MeterExact'
  BY <1>2 DEF LanesInv, MeterExact, Acquire
<1> QED
  BY <1>1, <1>3, <1>4, <1>5 DEF LanesInv

\* Entering, a call finds none of its tokens active: it holds their locks.
LEMMA EnterPreserves ==
  ASSUME LanesInv, NEW c \in Calls, Enter(c)
  PROVE  LanesInv'
<1>1. LanesTypeOK'
  BY DEF LanesInv, LanesTypeOK, Enter, AtWork
<1>2. /\ stage' = [stage EXCEPT ![c] = "running"] /\ stage[c] = "locking"
      /\ held' = held /\ keys' = keys /\ held[c] = keys[c]
      /\ activeTokens' = activeTokens \cup keys[c]
  BY DEF Enter
<1>3. OneHolder' /\ LockOrder'
  BY <1>2 DEF LanesInv, LanesTypeOK, OneHolder, LockOrder, AtWork
<1>4. {d \in Calls : stage'[d] = "running"}
        = {d \in Calls : stage[d] = "running"} \cup {c}
  BY <1>2 DEF LanesInv, LanesTypeOK
<1>5. activeTokens \cap keys[c] = {}
  <2>1. ASSUME NEW d \in Calls, stage[d] = "running"
        PROVE  keys[d] \cap keys[c] = {}
    BY <1>2, <2>1 DEF LanesInv, OneHolder, LockOrder
  <2> QED
    BY <2>1 DEF LanesInv, MeterExact
<1>6. overlaps' = FALSE
  BY <1>5, Zenon DEF LanesInv, MeterExact, Enter
<1>7. activeTokens'
        = UNION {keys'[d] : d \in {e \in Calls : stage'[e] = "running"}}
  BY <1>2, <1>4 DEF LanesInv, MeterExact
<1>8. MeterExact'
  BY <1>6, <1>7 DEF MeterExact
<1> QED
  BY <1>1, <1>3, <1>8 DEF LanesInv

LEMMA FinishPreserves ==
  ASSUME LanesInv, NEW c \in Calls, Finish(c)
  PROVE  LanesInv'
<1>1. LanesTypeOK'
  BY DEF LanesInv, LanesTypeOK, Finish, AtWork
<1>2. /\ stage' = [stage EXCEPT ![c] = "releasing"] /\ stage[c] = "running"
      /\ held' = held /\ keys' = keys
      /\ activeTokens' = activeTokens \ keys[c] /\ overlaps' = overlaps
  BY DEF Finish
<1>3. OneHolder' /\ LockOrder'
  BY <1>2 DEF LanesInv, LanesTypeOK, OneHolder, LockOrder, AtWork
<1>4. {d \in Calls : stage'[d] = "running"}
        = {d \in Calls : stage[d] = "running"} \ {c}
  BY <1>2 DEF LanesInv, LanesTypeOK
<1>5. \A d \in Calls \ {c} : stage[d] = "running" => keys[d] \cap keys[c] = {}
  BY <1>2 DEF LanesInv, OneHolder, LockOrder
<1>6. MeterExact'
  BY <1>2, <1>4, <1>5 DEF LanesInv, MeterExact
<1> QED
  BY <1>1, <1>3, <1>6 DEF LanesInv

LEMMA UnlockPreserves ==
  ASSUME LanesInv, NEW c \in Calls, NEW t \in Tokens, Unlock(c, t)
  PROVE  LanesInv'
<1>1. LanesTypeOK'
  BY DEF LanesInv, LanesTypeOK, Unlock
<1>2. /\ held'[c] = held[c] \ {t} /\ stage[c] = "releasing"
      /\ \A d \in Calls \ {c} : held'[d] = held[d]
      /\ stage' = stage /\ keys' = keys
  BY DEF LanesInv, LanesTypeOK, Unlock
<1>3. OneHolder' /\ LockOrder'
  BY <1>2 DEF LanesInv, OneHolder, LockOrder, AtWork
<1>4. MeterExact'
  BY <1>2 DEF LanesInv, MeterExact, Unlock
<1> QED
  BY <1>1, <1>3, <1>4 DEF LanesInv

LEMMA ReturnPreserves ==
  ASSUME LanesInv, NEW c \in Calls, Return(c)
  PROVE  LanesInv'
<1>1. LanesTypeOK'
  BY DEF LanesInv, LanesTypeOK, Return
<1> QED
  BY <1>1, QuietStep DEF LanesInv, LanesTypeOK, Return

LEMMA LanesNextInvariant == LanesInv /\ [LanesNext]_lanesVars => LanesInv'
<1> SUFFICES ASSUME LanesInv, [LanesNext]_lanesVars PROVE LanesInv'
  OBVIOUS
<1>1. ASSUME NEW c \in Calls, NEW s \in Sources, NEW T \in SUBSET Tokens,
             Submit(c, s, T)
      PROVE  LanesInv'
  BY <1>1, SubmitPreserves
<1>2. ASSUME NEW c \in Calls, Cancel(c) PROVE LanesInv'
  BY <1>2, CancelPreserves
<1>3. ASSUME NEW c \in Calls, Work(c) PROVE LanesInv'
  BY <1>3, StartPreserves, DiscardPreserves, EnterPreserves, FinishPreserves,
     ReturnPreserves, AcquirePreserves, UnlockPreserves DEF Work
<1>4. CASE Close \/ CloseNext \/ UNCHANGED lanesVars
  <2>1. /\ UNCHANGED <<stage, source, keys, held, lane, activeTokens, overlaps>>
        /\ closing' \in {"open", "pump", "pumpswap", "closed"}
    BY <1>4 DEF Close, CloseNext, CloseLane, lanesVars, LanesInv, LanesTypeOK
  <2>2. LanesTypeOK'
    BY <2>1 DEF LanesInv, LanesTypeOK
  <2>3. OneHolder' /\ LockOrder' /\ MeterExact'
    BY <2>1 DEF LanesInv, OneHolder, LockOrder, MeterExact
  <2> QED
    BY <2>2, <2>3 DEF LanesInv
<1> QED
  BY <1>1, <1>2, <1>3, <1>4 DEF LanesNext

\* The inductive invariant: a lock has one holder, locks are taken in sorted
\* order, and the overlap meter follows the running commits.
THEOREM LanesInvariance == LanesSpec => []LanesInv
BY LanesInitInvariant, LanesNextInvariant, PTL DEF LanesSpec

-----------------------------------------------------------------------------

\* Every variable of the lanes keeps its type.
THEOREM LanesTypeCorrect == LanesSpec => []LanesTypeOK
<1>1. LanesInv => LanesTypeOK
  BY DEF LanesInv
<1> QED
  BY LanesInvariance, <1>1, PTL

\* Two commits of one token never overlap, whichever lanes they are in.
THEOREM SameTokenCommitsAreSerial == LanesSpec => []TokensSerialized
<1>1. LanesInv => TokensSerialized
  BY DEF LanesInv, OneHolder, LockOrder, TokensSerialized
<1> QED
  BY LanesInvariance, <1>1, PTL

\* The meter that makes the run fail closed counts the running commits exactly
\* and never reports an overlap.
THEOREM OverlapMeterIsExact == LanesSpec => []MeterExact
<1>1. LanesInv => MeterExact
  BY DEF LanesInv
<1> QED
  BY LanesInvariance, <1>1, PTL

\* A call that is locking and has not got all its locks waits for one of them.
LEMMA NextLockExists ==
  ASSUME LanesInv, NEW c \in Calls, stage[c] = "locking", held[c] # keys[c]
  PROVE  \E t \in Tokens : NextLock(c, t)
<1>1. keys[c] \ held[c] \in SUBSET Nat /\ keys[c] \ held[c] # {}
  <2>1. keys[c] \in SUBSET Tokens /\ held[c] \subseteq keys[c]
    BY DEF LanesInv, LanesTypeOK, LockOrder
  <2> QED
    BY <2>1 DEF Tokens
<1>2. PICK t \in keys[c] \ held[c] : \A u \in keys[c] \ held[c] : t <= u
  BY <1>1, MinimumExists
<1> QED
  BY <1>2 DEF NextLock, LanesInv, LanesTypeOK

\* Of the tokens that calls wait for, take the greatest: its holder waits for
\* nothing, or it would wait for a greater one.
LEMMA SomebodyMoves == LanesInv => NoLockDeadlock
<1> DEFINE W == {t \in Tokens : \E c \in Calls : stage[c] = "locking" /\ NextLock(c, t)}
<1> SUFFICES ASSUME LanesInv, NEW a \in Calls, stage[a] \in AtWork,
                    \A c \in Calls : ~CanMove(c)
             PROVE  FALSE
  BY DEF NoLockDeadlock
<1>1. ASSUME NEW c \in Calls, stage[c] \in AtWork
      PROVE  stage[c] = "locking" /\ held[c] # keys[c]
  BY <1>1 DEF CanMove, AtWork
<1>2. W # {}
  BY <1>1, NextLockExists
<1>3. PICK t \in W : \A u \in W : u <= t
  <2>1. W \in SUBSET (0 .. NumTokens) /\ NumTokens \in Nat
    BY LanesAssumption DEF Tokens
  <2> HIDE DEF W
  <2> QED
    BY <1>2, <2>1, MaximumExists
<1>4. PICK c \in Calls : stage[c] = "locking" /\ NextLock(c, t)
  OBVIOUS
<1>5. PICK d \in Calls \ {c} : t \in held[d]
  BY <1>4 DEF CanMove, LockFree
<1>6. stage[d] = "locking" /\ held[d] # keys[d]
  BY <1>1, <1>5 DEF LanesInv, LockOrder
<1>7. PICK u \in Tokens : NextLock(d, u)
  BY <1>6, NextLockExists
<1>8. t < u
  BY <1>5, <1>6, <1>7 DEF LanesInv, LockOrder, NextLock
<1>9. u <= t
  BY <1>3, <1>6, <1>7
<1> QED
  BY <1>8, <1>9 DEF Tokens

\* Sorted locking cannot deadlock: as long as calls are at work, one of them
\* has what it needs for its next step.
THEOREM LanesNeverDeadlock == LanesSpec => []NoLockDeadlock
BY LanesInvariance, SomebodyMoves, PTL

-----------------------------------------------------------------------------
(* What close() leaves behind.                                             *)

\* The calls a shutdown has to wait for.
Unfinished == AtWork \cup {"queued"}

\* A call that has not begun is in the queue of its lane.
QueuedInLane == \A c \in Calls : stage[c] = "queued" => c \in Elems(lane[source[c]])

\* A lane that close() has shut down has no work left.
ShutLanesIdle ==
    \A c \in Calls : stage[c] \in Unfinished =>
        /\ source[c] = "pump" => closing \in {"open", "pump"}
        /\ source[c] = "pumpswap" => closing # "closed"

\* A step that brings no call to work, takes none out of a queue and leaves
\* close() where it is.
LEMMA NothingComes ==
  ASSUME QueuedInLane, ShutLanesIdle,
         UNCHANGED <<source, lane, closing>>,
         \A c \in Calls : /\ stage'[c] = "queued" => stage[c] = "queued"
                          /\ stage'[c] \in Unfinished => stage[c] \in Unfinished
  PROVE  QueuedInLane' /\ ShutLanesIdle'
BY DEF QueuedInLane, ShutLanesIdle

LEMMA SubmitComesToAnOpenLane ==
  ASSUME LanesInv, QueuedInLane, ShutLanesIdle,
         NEW c \in Calls, NEW s \in Sources, NEW T \in SUBSET Tokens,
         Submit(c, s, T)
  PROVE  QueuedInLane' /\ ShutLanesIdle'
<1>1. /\ lane \in [Sources -> Seq(Calls)] /\ source \in [Calls -> Sources]
      /\ stage' = [stage EXCEPT ![c] = "queued"] /\ source' = [source EXCEPT ![c] = s]
      /\ lane' = [lane EXCEPT ![s] = Append(lane[s], c)]
      /\ closing = "open" /\ closing' = "open"
  BY DEF LanesInv, LanesTypeOK, Submit
<1>2. Elems(lane'[s]) = Elems(lane[s]) \cup {c}
  BY <1>1, AppendElems
<1>3. ASSUME NEW d \in Calls, stage'[d] = "queued"
      PROVE  d \in Elems(lane'[source'[d]])
  <2>1. CASE d = c
    BY <1>1, <1>2, <2>1 DEF LanesInv, LanesTypeOK
  <2>2. CASE d # c
    <3>1. d \in Elems(lane[source[d]]) /\ source'[d] = source[d]
      BY <1>1, <1>3, <2>2 DEF LanesInv, LanesTypeOK, QueuedInLane
    <3> QED
      BY <1>1, <1>2, <3>1
  <2> QED
    BY <2>1, <2>2
<1> QED
  BY <1>1, <1>3 DEF QueuedInLane, ShutLanesIdle

\* What Take leaves of a queue: all but the call that is taken.
LEMMA TakeLeavesOthers ==
  ASSUME LanesInv, QueuedInLane, NEW c \in Calls, Take(c),
         NEW d \in Calls, d # c, stage[d] = "queued"
  PROVE  d \in Elems(lane'[source[d]])
<1>1. /\ lane \in [Sources -> Seq(Calls)] /\ source \in [Calls -> Sources]
      /\ lane[source[c]] # <<>> /\ c = Head(lane[source[c]])
      /\ lane' = [lane EXCEPT ![source[c]] = Tail(lane[source[c]])]
  BY DEF LanesInv, LanesTypeOK, Take
<1>2. d \in Elems(lane[source[d]])
  BY DEF QueuedInLane
<1>3. Elems(lane[source[c]]) = Elems(Tail(lane[source[c]])) \cup {c}
  BY <1>1, TailElems
<1> QED
  BY <1>1, <1>2, <1>3

LEMMA TakeKeepsQueues ==
  ASSUME LanesInv, QueuedInLane, ShutLanesIdle, NEW c \in Calls,
         Start(c) \/ Discard(c)
  PROVE  QueuedInLane' /\ ShutLanesIdle'
<1>1. /\ Take(c) /\ stage'[c] # "queued" /\ source' = source /\ closing' = closing
      /\ stage'[c] \in Unfinished => stage[c] = "queued"
      /\ \A d \in Calls \ {c} : stage'[d] = stage[d]
  BY DEF LanesInv, LanesTypeOK, Start, Discard, Unfinished, AtWork
<1>2. QueuedInLane'
  BY <1>1, TakeLeavesOthers DEF QueuedInLane
<1>3. ShutLanesIdle'
  BY <1>1 DEF ShutLanesIdle, Unfinished
<1> QED
  BY <1>2, <1>3

\* A lane is shut down when it is drained: nobody is at work in it, and nobody
\* waits in its queue.
LEMMA ShutdownWaits ==
  ASSUME LanesInv, QueuedInLane, ShutLanesIdle, CloseNext
  PROVE  QueuedInLane' /\ ShutLanesIdle'
<1>1. ASSUME NEW s \in Sources, Drained(s), NEW c \in Calls, source[c] = s
      PROVE  stage[c] \notin Unfinished
  <2>1. stage[c] \notin AtWork
    BY <1>1 DEF Drained, Busy
  <2>2. Elems(lane[s]) = {}
    BY <1>1 DEF Drained, Elems
  <2> QED
    BY <1>1, <2>1, <2>2 DEF QueuedInLane, Unfinished
<1>2. UNCHANGED <<stage, source, lane>>
  BY DEF CloseNext, CloseLane
<1>3. CASE CloseLane("pump", "pump", "pumpswap")
  BY <1>1, <1>2, <1>3 DEF CloseLane, Sources, QueuedInLane, ShutLanesIdle
<1>4. CASE CloseLane("pumpswap", "pumpswap", "closed")
  BY <1>1, <1>2, <1>4 DEF CloseLane, Sources, QueuedInLane, ShutLanesIdle
<1> QED
  BY <1>3, <1>4 DEF CloseNext

LEMMA ShutLanesStayIdle ==
  LanesInv /\ QueuedInLane /\ ShutLanesIdle /\ [LanesNext]_lanesVars => QueuedInLane' /\ ShutLanesIdle'
<1> SUFFICES ASSUME LanesInv, QueuedInLane, ShutLanesIdle, [LanesNext]_lanesVars
             PROVE  QueuedInLane' /\ ShutLanesIdle'
  OBVIOUS
<1>1. ASSUME NEW c \in Calls, NEW s \in Sources, NEW T \in SUBSET Tokens,
             Submit(c, s, T)
      PROVE  QueuedInLane' /\ ShutLanesIdle'
  BY <1>1, SubmitComesToAnOpenLane
<1>2. ASSUME NEW c \in Calls, Start(c) \/ Discard(c)
      PROVE  QueuedInLane' /\ ShutLanesIdle'
  BY <1>2, TakeKeepsQueues
<1>3. ASSUME NEW c \in Calls,
             \/ Cancel(c) \/ Enter(c) \/ Finish(c) \/ Return(c)
             \/ \E t \in Tokens : Acquire(c, t) \/ Unlock(c, t)
      PROVE  QueuedInLane' /\ ShutLanesIdle'
  <2>1. UNCHANGED <<source, lane, closing>>
    BY <1>3 DEF Cancel, Enter, Finish, Return, Acquire, Unlock
  <2>2. \A d \in Calls : /\ stage'[d] = "queued" => stage[d] = "queued"
                         /\ stage'[d] \in Unfinished => stage[d] \in Unfinished
    BY <1>3 DEF LanesInv, LanesTypeOK, Cancel, Enter, Finish, Return, Acquire, Unlock,
       Unfinished, AtWork
  <2> QED
    BY <2>1, <2>2, NothingComes
<1>4. CASE CloseNext
  BY <1>4, ShutdownWaits
<1>5. CASE Close
  BY <1>5 DEF Close, QueuedInLane, ShutLanesIdle
<1>6. CASE UNCHANGED lanesVars
  BY <1>6 DEF lanesVars, QueuedInLane, ShutLanesIdle
<1> QED
  BY <1>1, <1>2, <1>3, <1>4, <1>5, <1>6 DEF LanesNext, Work

\* When close() has returned the database may be closed: no thread commits any
\* more or has a commit before it, not even for a call whose task was cancelled.
THEOREM NothingRunsAfterClose == LanesSpec => []QuietAfterClose
<1>1. LanesInit => QueuedInLane /\ ShutLanesIdle
  BY DEF LanesInit, QueuedInLane, ShutLanesIdle, Unfinished, AtWork
<1>2. LanesInv /\ ShutLanesIdle => QuietAfterClose
  BY DEF LanesInv, LanesTypeOK, ShutLanesIdle, QuietAfterClose, Unfinished, Sources
<1> QED
  BY <1>1, <1>2, ShutLanesStayIdle, LanesInvariance, PTL DEF LanesSpec

=============================================================================
