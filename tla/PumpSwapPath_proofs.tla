------------------------- MODULE PumpSwapPath_proofs -------------------------
(***************************************************************************)
(* The PumpSwap half of the runner, for any number of notifications,       *)
(* payloads and tokens and any queue size: what the finalizer's            *)
(* multiplexer promises of the audit lane, and, from "The PumpSwap         *)
(* pipeline" on, what the pipeline before it promises of its tickets.      *)
(***************************************************************************)
EXTENDS FinalizerMultiplexer, PumpSwapPipeline, SharedLemmas

\* Who has the audit item that left the queue.
Hands ==
    /\ hand = {} \/ \E a \in Audits : hand = {a}
    /\ hand # {} <=> auditTask = "got" \/ pc = "audit"
    /\ inService <=> pc = "audit"
    /\ pc \in {"choose", "settleReady", "stateful", "audit", "dead"} =>
          auditTask = "none"
    /\ pc = "settleAudit" => auditTask = "got"
    /\ pc = "waiting" => auditTask \in {"waiting", "got"}
    /\ readyTask = "got" => ready <= MaxReady

\* A demoted payload is in one place.
Evidence ==
    /\ Once(auditQueue)
    /\ QueuedAudits \cup hand \cup finalized \subseteq demoted
    /\ QueuedAudits \cap (hand \cup finalized) = {}
    /\ hand \cap finalized = {}
    /\ monitor = "running" /\ ~failed => demoted = QueuedAudits \cup hand \cup finalized

\* The queue's own count, as long as the finalizer lives.
Balance ==
    monitor = "running" \/ pc # "dead"
      => unfinished = Len(auditQueue) + (IF hand = {} THEN 0 ELSE 1)

\* Stateful work that passed a waiting audit was counted in the burst.
Overtaken ==
    /\ pc \in {"waiting", "settleAudit", "audit"} => overtakes = 0
    /\ pc \in {"choose", "stateful", "settleReady"} /\ ~AuditWaits => overtakes = 0
    /\ pc = "settleReady" => overtakes <= 1
    /\ pc \notin {"settleReady", "dead"} => overtakes <= burst
    /\ overtakes <= BurstLimit

IInv == TypeOK /\ Hands /\ Evidence /\ Balance /\ Overtaken

-----------------------------------------------------------------------------

LEMMA QueuedIsElems == QueuedAudits = Elems(auditQueue)
BY DEF QueuedAudits, Elems

LEMMA InitInvariant == Init => IInv
<1> SUFFICES ASSUME Init PROVE IInv
  OBVIOUS
<1>1. TypeOK
  <2>1. /\ auditQueue \in Seq(Audits) /\ Len(auditQueue) = 0
        /\ 0 \in 0 .. MaxReady + 1 /\ 0 \in 0 .. BurstLimit /\ 0 <= QueueSize
    BY MultiplexerAssumption DEF Init
  <2> QED
    BY <2>1 DEF Init, TypeOK
<1>2. Elems(auditQueue) = {} /\ Once(auditQueue)
  BY DEF Init, Elems, Once
<1>3. Hands /\ Evidence /\ Balance /\ Overtaken
  BY <1>2, QueuedIsElems, MultiplexerAssumption
     DEF Init, Hands, Evidence, Balance, Overtaken, AuditWaits
<1> QED
  BY <1>1, <1>3 DEF IInv

\* A demoted payload enters the queue at its end.
LEMMA PutAuditPreserves ==
  ASSUME IInv, NEW a \in Audits, PutAudit(a)
  PROVE  IInv'
<1>1. /\ UNCHANGED <<ready, burst, pc, readyTask, auditTask, hand, inService>>
      /\ UNCHANGED <<monitor, reported, transit, finalized, overtakes>>
      /\ a \notin demoted /\ monitor = "running"
  BY DEF PutAudit, tasks
<1>2. CASE HasRoom
  <2>1. /\ auditQueue' = Append(auditQueue, a) /\ unfinished' = unfinished + 1
        /\ demoted' = demoted \cup {a} /\ failed' = failed
    BY <1>2 DEF PutAudit
  <2>2. auditQueue \in Seq(Audits) /\ Once(auditQueue) /\ a \notin Elems(auditQueue)
    BY <1>1, QueuedIsElems DEF IInv, TypeOK, Evidence
  <2>3. /\ auditQueue' \in Seq(Audits) /\ Elems(auditQueue') = Elems(auditQueue) \cup {a}
        /\ Once(auditQueue')
    BY <2>1, <2>2, AppendElems
  <2>4. Len(auditQueue') = Len(auditQueue) + 1 /\ Len(auditQueue) \in Nat
    BY <2>1, <2>2
  <2>5. TypeOK'
    BY <1>1, <1>2, <2>1, <2>3, <2>4, MultiplexerAssumption DEF IInv, TypeOK, HasRoom
  <2>6. QueuedAudits' = QueuedAudits \cup {a}
    BY <2>3 DEF QueuedAudits, Elems
  <2>7. Hands'
    BY <1>1 DEF IInv, Hands
  <2>8. Evidence'
    BY <1>1, <2>1, <2>3, <2>6 DEF IInv, Evidence
  <2>9. Balance'
    BY <1>1, <2>1, <2>4 DEF IInv, TypeOK, Balance
  <2>10. Overtaken'
    <3>1. AuditWaits'
      BY <2>4 DEF AuditWaits
    <3> QED
      BY <1>1, <3>1 DEF IInv, Overtaken
  <2> QED
    BY <2>5, <2>7, <2>8, <2>9, <2>10 DEF IInv
<1>3. CASE ~HasRoom
  <2>1. failed' = TRUE /\ UNCHANGED <<auditQueue, unfinished, demoted>>
    BY <1>3 DEF PutAudit
  <2>2. TypeOK' /\ Hands' /\ Balance' /\ Overtaken'
    BY <1>1, <2>1 DEF IInv, TypeOK, Hands, Balance, Overtaken, AuditWaits
  <2>3. Evidence'
    BY <1>1, <2>1 DEF IInv, Evidence, QueuedAudits
  <2> QED
    BY <2>2, <2>3 DEF IInv
<1> QED
  BY <1>2, <1>3

\* What taking the head of the queue does.
LEMMA HeadTaken ==
  ASSUME IInv, AuditWaits, auditQueue' = Tail(auditQueue), hand = {}
  PROVE  /\ Head(auditQueue) \in Audits
         /\ auditQueue' \in Seq(Audits) /\ Len(auditQueue') + 1 = Len(auditQueue)
         /\ Len(auditQueue') <= QueueSize /\ Len(auditQueue') \in Nat
         /\ Once(auditQueue')
         /\ QueuedAudits = QueuedAudits' \cup {Head(auditQueue)}
         /\ Head(auditQueue) \notin QueuedAudits' \cup finalized
<1>1. auditQueue \in Seq(Audits) /\ auditQueue # <<>> /\ Once(auditQueue)
      /\ Len(auditQueue) <= QueueSize
  BY DEF IInv, TypeOK, Evidence, AuditWaits
<1>2. /\ Tail(auditQueue) \in Seq(Audits)
      /\ Elems(auditQueue) = Elems(Tail(auditQueue)) \cup {Head(auditQueue)}
      /\ Once(Tail(auditQueue)) /\ Head(auditQueue) \notin Elems(Tail(auditQueue))
  BY <1>1, TailElems
<1>3. /\ Len(auditQueue) \in Nat \ {0} /\ Len(Tail(auditQueue)) = Len(auditQueue) - 1
      /\ Head(auditQueue) \in Audits
  BY <1>1
<1>4. QueuedAudits = Elems(auditQueue) /\ QueuedAudits' = Elems(Tail(auditQueue))
  BY DEF QueuedAudits, Elems
<1>5. Head(auditQueue) \notin finalized
  BY <1>2, <1>4 DEF IInv, Evidence
<1>6. Len(auditQueue') <= QueueSize
  BY <1>1, <1>3, MultiplexerAssumption
<1> QED
  BY <1>2, <1>3, <1>4, <1>5, <1>6

LEMMA TakeAuditPreserves ==
  ASSUME IInv, pc = "choose", TakeAudit
  PROVE  IInv'
<1> DEFINE a == Head(auditQueue)
<1>1. /\ AuditWaits /\ auditQueue' = Tail(auditQueue) /\ hand = {} /\ hand' = {a}
      /\ inService' = TRUE /\ burst' = 0 /\ overtakes' = 0 /\ pc' = "audit"
      /\ UNCHANGED <<ready, unfinished, readyTask, auditTask, demoted, finalized>>
      /\ UNCHANGED <<monitor, failed, reported, transit>> /\ auditTask = "none"
  BY DEF TakeAudit, BeginAudit, ending, IInv, Hands
<1>2. /\ a \in Audits /\ auditQueue' \in Seq(Audits)
      /\ Len(auditQueue') + 1 = Len(auditQueue) /\ Len(auditQueue') <= QueueSize
      /\ Len(auditQueue') \in Nat /\ Once(auditQueue')
      /\ QueuedAudits = QueuedAudits' \cup {a}
      /\ a \notin QueuedAudits' \cup finalized
  BY <1>1, HeadTaken
<1> HIDE DEF a
<1>3. TypeOK'
  BY <1>1, <1>2, MultiplexerAssumption DEF IInv, TypeOK
<1>4. Hands'
  BY <1>1, <1>2 DEF IInv, Hands
<1>5. Evidence'
  BY <1>1, <1>2 DEF IInv, Evidence
<1>6. Balance'
  BY <1>1, <1>2 DEF IInv, TypeOK, Balance
<1>7. Overtaken'
  BY <1>1, MultiplexerAssumption DEF IInv, Overtaken
<1> QED
  BY <1>3, <1>4, <1>5, <1>6, <1>7 DEF IInv

LEMMA AuditHelperPreserves ==
  ASSUME IInv, AuditHelperGets
  PROVE  IInv'
<1> DEFINE a == Head(auditQueue)
<1>1. /\ AuditWaits /\ auditQueue' = Tail(auditQueue) /\ hand = {} /\ hand' = {a}
      /\ auditTask = "waiting" /\ auditTask' = "got" /\ pc = "waiting"
      /\ UNCHANGED <<ready, unfinished, burst, pc, readyTask, inService>>
      /\ UNCHANGED <<monitor, failed, reported, transit>>
      /\ UNCHANGED <<demoted, finalized, overtakes>>
  BY DEF AuditHelperGets, ending, history, IInv, Hands, TypeOK
<1>2. /\ a \in Audits /\ auditQueue' \in Seq(Audits)
      /\ Len(auditQueue') + 1 = Len(auditQueue) /\ Len(auditQueue') <= QueueSize
      /\ Len(auditQueue') \in Nat /\ Once(auditQueue')
      /\ QueuedAudits = QueuedAudits' \cup {a}
      /\ a \notin QueuedAudits' \cup finalized
  BY <1>1, HeadTaken
<1> HIDE DEF a
<1>3. TypeOK'
  BY <1>1, <1>2, MultiplexerAssumption DEF IInv, TypeOK
<1>4. Hands'
  BY <1>1, <1>2 DEF IInv, Hands
<1>5. Evidence'
  BY <1>1, <1>2 DEF IInv, Evidence
<1>6. Balance'
  BY <1>1, <1>2 DEF IInv, TypeOK, Balance
<1>7. Overtaken'
  BY <1>1 DEF IInv, Overtaken
<1> QED
  BY <1>3, <1>4, <1>5, <1>6, <1>7 DEF IInv

\* Steps that neither touch the audit queue nor change who has its items.
LEMMA SameEvidence ==
  ASSUME IInv,
         UNCHANGED <<auditQueue, unfinished, hand, inService, auditTask>>,
         UNCHANGED <<monitor, failed, reported, transit, demoted, finalized>>
  PROVE  Evidence' /\ (pc' # "dead" => Balance' \/ (pc = "dead"))
<1>1. QueuedAudits' = QueuedAudits
  BY DEF QueuedAudits
<1> QED
  BY <1>1 DEF IInv, Evidence, Balance

LEMMA PutReadyPreserves ==
  ASSUME IInv, PutReady
  PROVE  IInv'
<1>1. /\ UNCHANGED <<auditQueue, unfinished, hand, inService, auditTask>>
      /\ UNCHANGED <<monitor, failed, reported, transit, demoted, finalized>>
      /\ UNCHANGED <<burst, pc, readyTask, overtakes>>
      /\ ready' = ready + 1 /\ ready < MaxReady
  BY DEF PutReady, tasks, ending, history
<1>2. TypeOK' /\ Hands'
  BY <1>1, MultiplexerAssumption DEF IInv, TypeOK, Hands
<1>3. Evidence' /\ Balance' /\ Overtaken'
  BY <1>1, SameEvidence DEF IInv, Balance, Overtaken, AuditWaits
<1> QED
  BY <1>2, <1>3 DEF IInv

LEMMA CountBurstBound ==
  ASSUME IInv, CountBurst
  PROVE  burst' \in 1 .. BurstLimit /\ (burst < BurstLimit => burst' = burst + 1)
BY MultiplexerAssumption DEF CountBurst, IInv, TypeOK

LEMMA TakeStatefulPreserves ==
  ASSUME IInv, pc = "choose", TakeStateful
  PROVE  IInv'
<1>1. /\ UNCHANGED <<auditQueue, unfinished, hand, inService, auditTask>>
      /\ UNCHANGED <<monitor, failed, reported, transit, demoted, finalized>>
      /\ UNCHANGED readyTask /\ ready' = ready - 1 /\ ready > 0
      /\ pc' = "stateful" /\ CountBurst /\ MayPass /\ CountOvertake(AuditWaits)
  BY DEF TakeStateful, ending
<1>2. burst' \in 1 .. BurstLimit /\ (burst < BurstLimit => burst' = burst + 1)
  BY <1>1, CountBurstBound
<1>3. overtakes' \in Nat /\ burst' \in 0 .. BurstLimit /\ ready' \in 0 .. MaxReady + 1
  BY <1>1, <1>2, MultiplexerAssumption DEF IInv, TypeOK, CountOvertake
<1>4. TypeOK' /\ Hands'
  BY <1>1, <1>3, MultiplexerAssumption DEF IInv, TypeOK, Hands
<1>5. Overtaken'
  BY <1>1, <1>2, MultiplexerAssumption
     DEF IInv, TypeOK, Overtaken, MayPass, CountOvertake, AuditWaits
<1>6. Evidence' /\ Balance'
  BY <1>1, SameEvidence DEF IInv, Balance
<1> QED
  BY <1>4, <1>5, <1>6 DEF IInv

LEMMA StartWaitingPreserves ==
  ASSUME IInv, pc = "choose", StartWaiting
  PROVE  IInv'
<1>1. /\ UNCHANGED <<auditQueue, unfinished, hand, inService, ready, burst>>
      /\ UNCHANGED <<monitor, failed, reported, transit>>
      /\ UNCHANGED <<demoted, finalized, overtakes>> /\ ~AuditWaits
      /\ pc' = "waiting" /\ readyTask' = "waiting" /\ auditTask' = "waiting"
  BY DEF StartWaiting, queues, ending, history
<1>2. TypeOK' /\ Hands' /\ Balance' /\ Overtaken'
  BY <1>1 DEF IInv, TypeOK, Hands, Balance, Overtaken
<1>3. Evidence'
  BY <1>1 DEF IInv, Evidence, QueuedAudits
<1> QED
  BY <1>2, <1>3 DEF IInv

LEMMA ReadyHelperPreserves ==
  ASSUME IInv, ReadyHelperGets
  PROVE  IInv'
<1>1. /\ UNCHANGED <<auditQueue, unfinished, hand, inService, auditTask>>
      /\ UNCHANGED <<monitor, failed, reported, transit, demoted, finalized>>
      /\ UNCHANGED <<burst, pc, overtakes>>
      /\ ready' = ready - 1 /\ ready > 0 /\ readyTask' = "got"
  BY DEF ReadyHelperGets, ending, history
<1>2. ready' \in 0 .. MaxReady /\ ready' \in 0 .. MaxReady + 1
  BY <1>1, MultiplexerAssumption DEF IInv, TypeOK
<1>3. TypeOK' /\ Hands'
  BY <1>1, <1>2 DEF IInv, TypeOK, Hands
<1>4. Evidence' /\ Balance' /\ Overtaken'
  BY <1>1, SameEvidence DEF IInv, Balance, Overtaken, AuditWaits
<1> QED
  BY <1>3, <1>4 DEF IInv

LEMMA WaitTimesOutPreserves ==
  ASSUME IInv, WaitTimesOut
  PROVE  IInv'
<1>1. /\ UNCHANGED <<auditQueue, unfinished, hand, inService, ready, burst>>
      /\ UNCHANGED <<monitor, failed, reported, transit>>
      /\ UNCHANGED <<demoted, finalized, overtakes>> /\ auditTask = "waiting"
      /\ pc = "waiting"
      /\ pc' = "choose" /\ readyTask' = "none" /\ auditTask' = "none"
  BY DEF WaitTimesOut, Idle, queues, ending, history
<1>2. TypeOK' /\ Hands' /\ Balance' /\ Overtaken'
  BY <1>1 DEF IInv, TypeOK, Hands, Balance, Overtaken
<1>3. Evidence'
  BY <1>1 DEF IInv, Evidence, QueuedAudits
<1> QED
  BY <1>2, <1>3 DEF IInv

\* The item that a helper took goes into service.
LEMMA ServePreserves ==
  ASSUME IInv, NEW a \in hand, BeginAudit(a), pc \in {"waiting", "settleAudit"},
         auditTask = "got", Idle, ready' \in 0 .. MaxReady + 1,
         UNCHANGED <<auditQueue, unfinished, demoted, finalized>>,
         UNCHANGED <<monitor, failed, reported, transit>>
  PROVE  IInv'
<1>1. /\ hand' = hand /\ hand = {a} /\ inService' = TRUE /\ burst' = 0
      /\ overtakes' = 0 /\ pc' = "audit" /\ auditTask' = "none"
      /\ readyTask' = "none"
  BY DEF BeginAudit, Idle, IInv, Hands
<1>2. TypeOK'
  BY <1>1, MultiplexerAssumption DEF IInv, TypeOK
<1>3. Hands' /\ Balance' /\ Overtaken'
  BY <1>1 DEF IInv, Hands, Balance, Overtaken
<1>4. Evidence'
  BY <1>1 DEF IInv, Evidence, QueuedAudits
<1> QED
  BY <1>2, <1>3, <1>4 DEF IInv

LEMMA WokenForAuditPreserves ==
  ASSUME IInv, WokenForAudit
  PROVE  IInv'
<1>1. ready' \in 0 .. MaxReady + 1
  BY MultiplexerAssumption DEF WokenForAudit, IInv, TypeOK, Hands
<1> QED
  BY <1>1, ServePreserves DEF WokenForAudit, ending

LEMMA SettleAuditPreserves ==
  ASSUME IInv, SettleAudit
  PROVE  IInv'
<1>1. ready' \in 0 .. MaxReady + 1 /\ auditTask = "got"
  BY DEF SettleAudit, queues, IInv, TypeOK, Hands
<1> QED
  BY <1>1, ServePreserves DEF SettleAudit, queues, ending

\* The item in hand goes back to the end of the queue.
LEMMA ItemBack ==
  ASSUME IInv, PutBack, HasRoom, hand # {}
  PROVE  /\ auditQueue' \in Seq(Audits) /\ Len(auditQueue') <= QueueSize
         /\ Len(auditQueue') = Len(auditQueue) + 1 /\ Len(auditQueue) \in Nat
         /\ Once(auditQueue') /\ QueuedAudits' = QueuedAudits \cup hand
         /\ unfinished' = unfinished
<1>1. PICK a \in hand : auditQueue' = Append(auditQueue, a)
  BY DEF PutBack
<1>2. hand = {a} /\ a \in Audits
  BY DEF IInv, Hands, TypeOK
<1>3. auditQueue \in Seq(Audits) /\ Once(auditQueue) /\ a \notin Elems(auditQueue)
  BY <1>2, QueuedIsElems DEF IInv, TypeOK, Evidence
<1>4. /\ Append(auditQueue, a) \in Seq(Audits) /\ Once(Append(auditQueue, a))
      /\ Elems(Append(auditQueue, a)) = Elems(auditQueue) \cup {a}
  BY <1>2, <1>3, AppendElems
<1>5. QueuedAudits' = QueuedAudits \cup {a}
  BY <1>1, <1>4 DEF QueuedAudits, Elems
<1>6. Len(auditQueue') = Len(auditQueue) + 1 /\ Len(auditQueue) \in Nat
  BY <1>1, <1>3
<1>7. Len(auditQueue') <= QueueSize
  BY <1>6, MultiplexerAssumption DEF HasRoom
<1> QED
  BY <1>1, <1>2, <1>4, <1>5, <1>6, <1>7 DEF PutBack

LEMMA WokenForBothPreserves ==
  ASSUME IInv, WokenForBoth
  PROVE  IInv'
<1>1. /\ UNCHANGED <<ready, inService, monitor, reported, transit>>
      /\ UNCHANGED <<demoted, finalized>> /\ pc = "waiting" /\ auditTask = "got"
      /\ hand # {} /\ hand' = {} /\ PutBack /\ burst < BurstLimit
      /\ readyTask' = "none" /\ auditTask' = "none" /\ ~inService
  BY DEF WokenForBoth, Idle, IInv, Hands
<1>2. CASE HasRoom
  <2>1. /\ pc' = "stateful" /\ CountBurst /\ CountOvertake(TRUE) /\ failed' = failed
    BY <1>2 DEF WokenForBoth
  <2>2. /\ auditQueue' \in Seq(Audits) /\ Len(auditQueue') <= QueueSize
        /\ Len(auditQueue') = Len(auditQueue) + 1 /\ Len(auditQueue) \in Nat
        /\ Once(auditQueue') /\ QueuedAudits' = QueuedAudits \cup hand
        /\ unfinished' = unfinished
    BY <1>1, <1>2, ItemBack
  <2>3. burst' \in 1 .. BurstLimit
    BY <2>1, CountBurstBound
  <2>4. overtakes' = 1
    BY <1>1, <2>1, MultiplexerAssumption DEF IInv, Overtaken, CountOvertake
  <2>5. TypeOK'
    BY <1>1, <2>1, <2>2, <2>3, <2>4, MultiplexerAssumption DEF IInv, TypeOK
  <2>6. Hands'
    BY <1>1, <2>1 DEF Hands
  <2>7. Evidence'
    BY <1>1, <2>1, <2>2 DEF IInv, Evidence
  <2>8. Balance'
    BY <1>1, <2>1, <2>2 DEF IInv, TypeOK, Balance
  <2>9. AuditWaits'
    BY <2>2 DEF AuditWaits
  <2>10. Overtaken'
    BY <2>1, <2>3, <2>4, <2>9, MultiplexerAssumption DEF Overtaken
  <2> QED
    BY <2>5, <2>6, <2>7, <2>8, <2>10 DEF IInv
<1>3. CASE ~HasRoom
  <2>1. /\ pc' = "dead" /\ failed' = TRUE /\ UNCHANGED <<burst, overtakes>>
        /\ auditQueue' = auditQueue /\ unfinished' = unfinished - 1
    BY <1>1, <1>3 DEF WokenForBoth, PutBack
  <2>2. unfinished = Len(auditQueue) + 1 /\ Len(auditQueue) \in Nat
    BY <1>1 DEF IInv, TypeOK, Balance
  <2>3. TypeOK' /\ Hands' /\ Balance' /\ Overtaken'
    BY <1>1, <2>1, <2>2 DEF IInv, TypeOK, Hands, Balance, Overtaken
  <2>4. Evidence'
    BY <1>1, <2>1 DEF IInv, Evidence, QueuedAudits
  <2> QED
    BY <2>3, <2>4 DEF IInv
<1> QED
  BY <1>2, <1>3

LEMMA WokenForReadyPreserves ==
  ASSUME IInv, WokenForReady
  PROVE  IInv'
<1>1. /\ UNCHANGED <<auditQueue, unfinished, hand, inService, ready, burst>>
      /\ UNCHANGED <<monitor, failed, reported, transit, readyTask>>
      /\ UNCHANGED <<demoted, finalized>> /\ auditTask = "waiting"
      /\ pc = "waiting" /\ pc' = "settleReady" /\ auditTask' = "none"
      /\ CountOvertake(AuditWaits)
  BY DEF WokenForReady, queues, ending
<1>2. overtakes' = IF AuditWaits THEN 1 ELSE 0
  BY <1>1, MultiplexerAssumption DEF IInv, Overtaken, CountOvertake
<1>3. TypeOK' /\ Hands' /\ Balance'
  BY <1>1, <1>2 DEF IInv, TypeOK, Hands, Balance
<1>4. Overtaken'
  BY <1>1, <1>2, MultiplexerAssumption DEF Overtaken, AuditWaits
<1>5. Evidence'
  BY <1>1 DEF IInv, Evidence, QueuedAudits
<1> QED
  BY <1>3, <1>4, <1>5 DEF IInv

LEMMA WokenForAuditOnlyPreserves ==
  ASSUME IInv, WokenForAuditOnly
  PROVE  IInv'
<1>1. /\ UNCHANGED <<auditQueue, unfinished, hand, inService, ready, burst>>
      /\ UNCHANGED <<monitor, failed, reported, transit, auditTask>>
      /\ UNCHANGED <<demoted, finalized, overtakes>> /\ auditTask = "got"
      /\ pc = "waiting" /\ pc' = "settleAudit" /\ readyTask' = "none"
  BY DEF WokenForAuditOnly, queues, ending, history
<1>2. TypeOK' /\ Hands' /\ Balance' /\ Overtaken'
  BY <1>1 DEF IInv, TypeOK, Hands, Balance, Overtaken
<1>3. Evidence'
  BY <1>1 DEF IInv, Evidence, QueuedAudits
<1> QED
  BY <1>2, <1>3 DEF IInv

LEMMA SettleReadyPreserves ==
  ASSUME IInv, SettleReady
  PROVE  IInv'
<1>1. /\ UNCHANGED <<auditQueue, unfinished, hand, inService, ready>>
      /\ UNCHANGED <<monitor, failed, reported, transit>>
      /\ UNCHANGED <<demoted, finalized, overtakes>> /\ auditTask = "none"
      /\ pc = "settleReady" /\ pc' = "stateful" /\ readyTask' = "none"
      /\ auditTask' = "none" /\ CountBurst
  BY DEF SettleReady, Idle, queues, ending, history, IInv, Hands
<1>2. burst' \in 1 .. BurstLimit
  BY <1>1, CountBurstBound
<1>3. TypeOK' /\ Hands' /\ Balance'
  BY <1>1, <1>2, MultiplexerAssumption DEF IInv, TypeOK, Hands, Balance
<1>4. Overtaken'
  BY <1>1, <1>2 DEF IInv, TypeOK, Overtaken, AuditWaits
<1>5. Evidence'
  BY <1>1 DEF IInv, Evidence, QueuedAudits
<1> QED
  BY <1>3, <1>4, <1>5 DEF IInv

LEMMA EndStatefulPreserves ==
  ASSUME IInv, EndStateful
  PROVE  IInv'
<1>1. /\ UNCHANGED <<auditQueue, unfinished, hand, inService, ready, burst>>
      /\ UNCHANGED <<monitor, failed, reported, transit, readyTask, auditTask>>
      /\ UNCHANGED <<demoted, finalized, overtakes>>
      /\ pc = "stateful" /\ pc' = "choose"
  BY DEF EndStateful, queues, ending, history
<1>2. TypeOK' /\ Hands' /\ Balance' /\ Overtaken'
  BY <1>1 DEF IInv, TypeOK, Hands, Balance, Overtaken, AuditWaits
<1>3. Evidence'
  BY <1>1 DEF IInv, Evidence, QueuedAudits
<1> QED
  BY <1>2, <1>3 DEF IInv

LEMMA LeaveAuditFacts ==
  ASSUME IInv, pc = "audit", LeaveAudit
  PROVE  /\ hand # {} /\ hand' = {} /\ ~inService'
         /\ unfinished' = Len(auditQueue) /\ Len(auditQueue) \in Nat
BY DEF LeaveAudit, IInv, TypeOK, Hands, Balance

LEMMA EndAuditPreserves ==
  ASSUME IInv, EndAudit
  PROVE  IInv'
<1>1. /\ UNCHANGED <<auditQueue, ready, burst, readyTask, auditTask, demoted>>
      /\ UNCHANGED <<monitor, failed, reported, transit, overtakes>>
      /\ pc = "audit" /\ pc' = "choose" /\ LeaveAudit
      /\ finalized' = finalized \cup hand
  BY DEF EndAudit, ending
<1>2. /\ hand' = {} /\ inService' = FALSE /\ unfinished' = Len(auditQueue)
      /\ Len(auditQueue) \in Nat
  BY <1>1, LeaveAuditFacts DEF LeaveAudit
<1>3. TypeOK'
  BY <1>1, <1>2 DEF IInv, TypeOK
<1>5. Hands'
  BY <1>1, <1>2 DEF IInv, Hands
<1>6. Balance'
  BY <1>1, <1>2 DEF IInv, Balance
<1>7. Overtaken'
  BY <1>1, <1>2 DEF IInv, TypeOK, Overtaken, AuditWaits
<1>4. Evidence'
  BY <1>1, <1>2 DEF IInv, Evidence, QueuedAudits
<1> QED
  BY <1>3, <1>4, <1>5, <1>6, <1>7 DEF IInv

LEMMA ServiceFailsPreserves ==
  ASSUME IInv, ServiceFails
  PROVE  IInv'
<1>1. /\ UNCHANGED <<auditQueue, ready, burst, readyTask, auditTask>>
      /\ UNCHANGED <<monitor, reported, transit, demoted, finalized, overtakes>>
      /\ pc' = "dead" /\ failed' = TRUE /\ pc \in {"stateful", "audit"}
  BY DEF ServiceFails, history
<1>2. /\ hand' = {} /\ inService' = FALSE /\ unfinished' = Len(auditQueue)
      /\ Len(auditQueue) \in Nat /\ auditTask = "none"
  <2>1. CASE pc = "audit"
    BY <2>1, LeaveAuditFacts DEF ServiceFails, LeaveAudit, IInv, Hands
  <2>2. CASE pc = "stateful"
    BY <2>2 DEF ServiceFails, IInv, TypeOK, Hands, Balance
  <2> QED
    BY <1>1, <2>1, <2>2
<1>3. TypeOK'
  BY <1>1, <1>2 DEF IInv, TypeOK
<1>5. Hands'
  BY <1>1, <1>2 DEF IInv, Hands
<1>6. Balance'
  BY <1>1, <1>2 DEF IInv, Balance
<1>7. Overtaken'
  BY <1>1, <1>2 DEF IInv, TypeOK, Overtaken, AuditWaits
<1>4. Evidence'
  BY <1>1, <1>2 DEF IInv, Evidence, QueuedAudits
<1> QED
  BY <1>3, <1>4, <1>5, <1>6, <1>7 DEF IInv

LEMMA CountPreserves ==
  ASSUME IInv, CountAndCancel
  PROVE  IInv'
<1>1. /\ UNCHANGED <<auditQueue, unfinished, hand, inService, ready, burst>>
      /\ UNCHANGED <<pc, readyTask, auditTask, failed>>
      /\ UNCHANGED <<demoted, finalized, overtakes>>
      /\ monitor' = "cancelling" /\ monitor = "running" /\ reported' = LeftOver
      /\ transit' = (hand # {} /\ ~inService)
  BY DEF CountAndCancel, queues, tasks, history
<1>2. reported' \in Nat
  BY <1>1 DEF IInv, TypeOK, LeftOver
<1>3. TypeOK'
  BY <1>1, <1>2 DEF IInv, TypeOK
<1>4. Hands' /\ Balance' /\ Overtaken' /\ Evidence'
  BY <1>1 DEF IInv, Hands, Balance, Overtaken, AuditWaits, Evidence, QueuedAudits
<1> QED
  BY <1>3, <1>4 DEF IInv

LEMMA UnwindPreserves ==
  ASSUME IInv, Unwind
  PROVE  IInv'
<1>1. /\ UNCHANGED <<ready, burst, demoted, finalized, overtakes>>
      /\ UNCHANGED <<monitor, failed, reported, transit>> /\ pc # "dead"
      /\ monitor = "cancelling" /\ pc' = "dead" /\ hand' = {}
      /\ readyTask' = "none" /\ auditTask' = "none"
  BY DEF Unwind, Idle, ending, history
<1>2. /\ auditQueue' \in Seq(Audits) /\ Len(auditQueue') <= QueueSize
      /\ Once(auditQueue') /\ QueuedAudits' \subseteq QueuedAudits \cup hand
      /\ unfinished' \in Nat /\ inService' = FALSE
  <2>1. CASE pc = "settleAudit" /\ HasRoom
    BY <2>1, ItemBack DEF Unwind, IInv, TypeOK, Hands
  <2>2. CASE pc = "settleAudit" /\ ~HasRoom
    <3>1. unfinished = Len(auditQueue) + 1 /\ Len(auditQueue) \in Nat
      BY <2>2 DEF IInv, TypeOK, Hands, Balance
    <3> QED
      BY <2>2, <3>1 DEF Unwind, PutBack, IInv, TypeOK, Hands, Evidence, QueuedAudits
  <2>3. CASE pc = "audit"
    BY <2>3, LeaveAuditFacts DEF Unwind, LeaveAudit, IInv, TypeOK, Evidence, QueuedAudits
  <2>4. CASE pc \notin {"settleAudit", "audit"}
    BY <2>4 DEF Unwind, IInv, TypeOK, Hands, Evidence, QueuedAudits
  <2> QED
    BY <2>1, <2>2, <2>3, <2>4
<1>3. TypeOK'
  BY <1>1, <1>2 DEF IInv, TypeOK
<1>5. Hands'
  BY <1>1, <1>2 DEF IInv, Hands
<1>6. Balance'
  BY <1>1, <1>2 DEF IInv, Balance
<1>7. Overtaken'
  BY <1>1, <1>2 DEF IInv, TypeOK, Overtaken, AuditWaits
<1>4. Evidence'
  BY <1>1, <1>2 DEF IInv, Evidence
<1> QED
  BY <1>3, <1>4, <1>5, <1>6, <1>7 DEF IInv

LEMMA NextInvariant == IInv /\ [Next]_vars => IInv'
<1> SUFFICES ASSUME IInv, [Next]_vars PROVE IInv'
  OBVIOUS
<1>1. ASSUME NEW a \in Audits, PutAudit(a) PROVE IInv'
  BY <1>1, PutAuditPreserves
<1>2. CASE PutReady
  BY <1>2, PutReadyPreserves
<1>3. CASE Choose
  BY <1>3, TakeStatefulPreserves, TakeAuditPreserves, StartWaitingPreserves
     DEF Choose
<1>4. CASE Wake
  BY <1>4, WokenForAuditPreserves, WokenForBothPreserves, WokenForReadyPreserves,
     WokenForAuditOnlyPreserves DEF Wake
<1>5. CASE Settle
  BY <1>5, SettleReadyPreserves, SettleAuditPreserves DEF Settle
<1>6. CASE EndStateful \/ EndAudit \/ ServiceFails \/ WaitTimesOut
  BY <1>6, EndStatefulPreserves, EndAuditPreserves, ServiceFailsPreserves,
     WaitTimesOutPreserves
<1>7. CASE Helpers
  BY <1>7, ReadyHelperPreserves, AuditHelperPreserves DEF Helpers
<1>8. CASE CountAndCancel \/ Unwind
  BY <1>8, CountPreserves, UnwindPreserves
<1>9. CASE Stop \/ UNCHANGED vars
  <2>1. /\ UNCHANGED <<queues, tasks, history, failed, reported, transit>>
        /\ monitor' = monitor \/ (monitor' = "stopped" /\ pc = "dead")
    BY <1>9 DEF Stop, vars, ending
  <2>2. /\ UNCHANGED <<ready, auditQueue, unfinished, burst, pc, readyTask>>
        /\ UNCHANGED <<auditTask, hand, inService, demoted, finalized, overtakes>>
        /\ UNCHANGED <<failed, reported, transit>>
    BY <2>1 DEF queues, tasks, history
  <2>3. TypeOK' /\ Hands' /\ Balance' /\ Overtaken' /\ Evidence'
    BY <2>1, <2>2 DEF IInv, TypeOK, Hands, Balance, Overtaken, AuditWaits,
       Evidence, QueuedAudits
  <2> QED
    BY <2>3 DEF IInv
<1> QED
  BY <1>1, <1>2, <1>3, <1>4, <1>5, <1>6, <1>7, <1>8, <1>9 DEF Next, Finalizer

\* The inductive invariant: who has the item that left the queue, and what the
\* burst counter knows of the jobs that passed a waiting item.
THEOREM Invariance == Spec => []IInv
BY InitInvariant, NextInvariant, PTL DEF Spec

-----------------------------------------------------------------------------

\* The counters and queues keep their types; the audit queue never exceeds its
\* size and its unfinished count never goes below zero, where task_done raises.
THEOREM TypeCorrect == Spec => []TypeOK
<1>1. IInv => TypeOK
  BY DEF IInv
<1> QED
  BY Invariance, <1>1, PTL

\* At most BurstLimit stateful jobs begin while an audit item waits.
THEOREM AuditsAreNotStarved == Spec => []BoundedBurst
<1>1. IInv => BoundedBurst
  BY MultiplexerAssumption DEF IInv, TypeOK, Overtaken, BoundedBurst
<1> QED
  BY Invariance, <1>1, PTL

\* Every demoted payload of a running, unfailed run is queued, taken or
\* finalized, and no payload is in two places.
THEOREM EvidenceIsNotLost == Spec => []EvidenceInOnePlace
<1>1. ASSUME IInv PROVE EvidenceInOnePlace
  <2>1. auditQueue \in Seq(Audits) /\ Once(auditQueue)
    BY <1>1 DEF IInv, TypeOK, Evidence
  <2>2. Cardinality(QueuedAudits) = Len(auditQueue)
    BY <2>1, OnceCardinality, QueuedIsElems
  <2> QED
    BY <1>1, <2>2 DEF IInv, Evidence, EvidenceInOnePlace
<1> QED
  BY Invariance, <1>1, PTL

\* task_done() is called once for every put, also when an item is put back.
THEOREM TaskDoneIsBalanced == Spec => []TaskDoneBalanced
<1>1. ASSUME IInv PROVE TaskDoneBalanced
  <2>1. Cardinality(hand) = IF hand = {} THEN 0 ELSE 1
    BY <1>1, FS_EmptySet, FS_Singleton DEF IInv, Hands
  <2> QED
    BY <1>1, <2>1 DEF IInv, Balance, TaskDoneBalanced
<1> QED
  BY Invariance, <1>1, PTL

-----------------------------------------------------------------------------
(* The count at the deadline.                                              *)

\* What the monitor has counted still holds when the tasks have unwound.
CountHolds ==
    monitor # "running" /\ ~failed /\ ~transit
      => Cardinality(demoted \ finalized) <= reported

\* When the monitor counts, an item that was taken is in service or in transit;
\* the queue and the item in service are all that was not finalized.
LEMMA CountCovers ==
  ASSUME IInv, CountAndCancel
  PROVE  CountHolds'
<1> SUFFICES ASSUME ~failed, hand = {} \/ inService
             PROVE  Cardinality(demoted \ finalized) <= LeftOver
  BY DEF CountAndCancel, CountHolds, history, vars
<1>1. demoted \ finalized = QueuedAudits \cup hand
  BY DEF IInv, Evidence, CountAndCancel
<1>2. /\ IsFiniteSet(QueuedAudits) /\ Cardinality(QueuedAudits) = Len(auditQueue)
      /\ Len(auditQueue) \in Nat
  <2>1. auditQueue \in Seq(Audits) /\ Once(auditQueue)
    BY DEF IInv, TypeOK, Evidence
  <2> QED
    BY <2>1, OnceCardinality, QueuedIsElems
<1>3. CASE hand = {}
  <2>1. demoted \ finalized = QueuedAudits
    BY <1>1, <1>3
  <2>2. Cardinality(demoted \ finalized) = Len(auditQueue)
    BY <1>2, <2>1
  <2>3. LeftOver >= Len(auditQueue)
    BY <1>2 DEF LeftOver, IInv, TypeOK
  <2>4. LeftOver \in Nat
    BY <1>2 DEF LeftOver
  <2> QED
    BY <1>2, <2>2, <2>3, <2>4
<1>4. CASE hand # {}
  <2>1. PICK a \in Audits : hand = {a}
    BY <1>4 DEF IInv, Hands
  <2>2. a \notin QueuedAudits
    BY <2>1 DEF IInv, Evidence
  <2>3. Cardinality(QueuedAudits \cup {a}) = Len(auditQueue) + 1
    BY <1>2, <2>2, FS_AddElement
  <2>4. demoted \ finalized = QueuedAudits \cup {a}
    BY <1>1, <2>1
  <2>5. Cardinality(demoted \ finalized) = Len(auditQueue) + 1
    BY <2>3, <2>4
  <2>6. LeftOver = Len(auditQueue) + 1
    BY <1>2, <1>4 DEF LeftOver
  <2> QED
    BY <1>2, <2>5, <2>6
<1> QED
  BY <1>3, <1>4

\* Nothing is demoted, finalized or reported after the count, and no task fails
\* any more.
LEMMA CountStands ==
  IInv /\ CountHolds /\ [Next]_vars => CountHolds'
<1> SUFFICES ASSUME IInv, CountHolds, [Next]_vars PROVE CountHolds'
  OBVIOUS
<1>1. CASE CountAndCancel
  BY <1>1, CountCovers
<1>2. CASE Helpers \/ Unwind \/ Stop \/ UNCHANGED vars
  <2>1. UNCHANGED <<demoted, finalized, reported, failed, transit>>
    BY <1>2 DEF Helpers, ReadyHelperGets, AuditHelperGets, Unwind, Stop, vars, ending,
       history
  <2>2. monitor # "running" \/ monitor' = "running"
    BY <1>2 DEF Helpers, ReadyHelperGets, AuditHelperGets, Unwind, Stop, vars, ending
  <2> QED
    BY <2>1, <2>2 DEF CountHolds
<1>3. ASSUME \/ PutReady \/ \E a \in Audits : PutAudit(a)
             \/ monitor = "running" /\ (Finalizer \/ WaitTimesOut \/ ServiceFails)
      PROVE  monitor' = "running"
  BY <1>3 DEF PutReady, PutAudit, Finalizer, Choose, TakeStateful, TakeAudit,
     StartWaiting, Wake, WokenForAudit, WokenForBoth, WokenForReady,
     WokenForAuditOnly, Settle, SettleReady, SettleAudit, EndStateful, EndAudit,
     WaitTimesOut, ServiceFails, ending
<1> QED
  BY <1>1, <1>2, <1>3 DEF Next, CountHolds

\* The backlog that is reported at the deadline covers every demoted payload that
\* was not finalized, unless one was on its way from the queue to the finalizer.
THEOREM DeadlineBacklogIsCovered == Spec => []DeadlineCountCovers
<1>1. Init => CountHolds
  BY DEF Init, CountHolds
<1>2. CountHolds => DeadlineCountCovers
  BY DEF CountHolds, DeadlineCountCovers
<1> QED
  BY <1>1, <1>2, CountStands, Invariance, PTL DEF Spec

-----------------------------------------------------------------------------
(* The PumpSwap pipeline.                                                   *)

\* Not yet in the writer's queue.
Early == {"absent", "queued", "normalizing", "read"}

\* Past the guard.
Passed ==
    {"evidence", "preparing", "prepared", "noEvidence", "submitted", "finalizing",
     "demoted", "auditing", "processed", "prepareFailed", "finalizeFailed",
     "auditFailed"}

\* What only a number with a ticket comes to.
Turned ==
    {"submitted", "finalizing", "demoted", "auditing", "processed", "finalizeFailed",
     "auditFailed"}

\* What holds nobody up.
Over == {"processed", "demoted", "auditing", "auditFailed"}

\* Numbers are given out one after the other.
Numbered == \A n \in Numbers : stage[n] # "absent" <=> n < Len(signature)

\* The writer's queue, of which the first `committed' requests are done.
Queue ==
    /\ Once(writes)
    /\ \A i \in 1 .. Len(writes) : /\ stage[writes[i]] \notin Early
                                   /\ stage[writes[i]] = "writing" <=> i > committed
    /\ \A n \in Numbers : stage[n] = "read" => ~runner.indexed

\* A ticket is for a number whose hint has been taken.
Drawn ==
    /\ Once(order)
    /\ \A i \in 1 .. Len(order) : \E k \in 1 .. hinted : order[i] = writes[k]
    /\ runner.globalPrefix => \A i \in 1 .. Len(order) : order[i] = i - 1
    /\ \A n \in Numbers : stage[n] \in Turned => n \in Elems(order)

\* The guard has compared the result.
Guarded == \A n \in Numbers : stage[n] \in Passed => affected[n] \subseteq assets[n]

\* The index knows what is stored and what will be; a waiting request has
\* reserved what is stored of its transaction and what the requests up to its
\* own will add.
Waiting == committed + 1 .. Len(writes)

Reserved ==
    runner.indexed =>
        /\ \A g \in Signatures : StoredFor(g) \subseteq index[g]
        /\ \A i \in Waiting :
              /\ tokens[writes[i]] \subseteq index[SignatureOf(writes[i])]
              /\ StoredFor(SignatureOf(writes[i])) \subseteq assets[writes[i]]
        /\ \A i, j \in Waiting :
              i <= j /\ SignatureOf(writes[i]) = SignatureOf(writes[j]) =>
                tokens[writes[i]] \subseteq assets[writes[j]]
        /\ \A n \in Numbers : stage[n] = "written" => affected[n] \subseteq assets[n]

Shared(m, n) == assets[m] \cap assets[n] # {}

\* Whoever has had its turn has only predecessors that are out of the way.
Turns ==
    /\ \A i \in 1 .. Len(emitted) : stage[emitted[i]] = "processed"
    /\ \A i, j \in 1 .. Len(order) :
          /\ i < j /\ Shared(order[i], order[j])
          /\ stage[order[j]] = "finalizing" \/ order[j] \in Elems(emitted)
          => stage[order[i]] \in Over
    /\ \A i, j \in 1 .. Len(emitted), k, l \in 1 .. Len(order) :
          /\ i < j /\ order[k] = emitted[i] /\ order[l] = emitted[j]
          /\ Shared(order[k], order[l])
          => k < l

PipelineInv ==
    PipelineTypeOK /\ Numbered /\ Queue /\ Drawn /\ Guarded /\ Reserved /\ Turns


LEMMA PipelineBasics ==
  ASSUME PipelineTypeOK
  PROVE  /\ writes \in Seq(Numbers) /\ order \in Seq(Numbers) /\ emitted \in Seq(Numbers)
         /\ tokens \in [Numbers -> SUBSET Assets] /\ assets \in [Numbers -> SUBSET Assets]
         /\ affected \in [Numbers -> SUBSET Assets] /\ triggered \in [Numbers -> BOOLEAN]
         /\ Len(Delivered) \in Nat /\ Numbers \subseteq Nat /\ IsFiniteSet(Numbers)
         /\ Cardinality(Numbers) = Len(Delivered)
         /\ committed \in Nat /\ hinted \in Nat /\ committed <= Len(writes)
         /\ hinted <= Len(writes) /\ Len(writes) \in Nat /\ Len(order) \in Nat
         /\ Len(signature) \in Nat /\ Len(signature) <= Len(Delivered)
<1>1. Len(Delivered) \in Nat
  BY DeliveryAssumption
<1>2. /\ Numbers \subseteq Nat /\ IsFiniteSet(Numbers)
      /\ Cardinality(Numbers) = Len(Delivered)
  <2>1. 0 .. Len(Delivered) - 1 \subseteq Nat
    OBVIOUS
  <2>2. Len(Delivered) - 1 \in Int /\ 0 \in Int
    BY <1>1
  <2>3. /\ IsFiniteSet(0 .. Len(Delivered) - 1)
        /\ Cardinality(0 .. Len(Delivered) - 1) =
              IF 0 > Len(Delivered) - 1 THEN 0 ELSE Len(Delivered) - 1 - 0 + 1
    BY <2>2, FS_Interval
  <2> QED
    BY <1>1, <2>1, <2>3 DEF Numbers
<1>3. /\ writes \in Seq(Numbers) /\ order \in Seq(Numbers) /\ emitted \in Seq(Numbers)
      /\ tokens \in [Numbers -> SUBSET Assets] /\ assets \in [Numbers -> SUBSET Assets]
      /\ affected \in [Numbers -> SUBSET Assets] /\ triggered \in [Numbers -> BOOLEAN]
  BY Zenon DEF PipelineTypeOK
<1>4. signature \in Seq(Signatures) /\ Len(signature) <= arrived
  BY DEF PipelineTypeOK
<1>5. committed \in 0 .. Len(writes) /\ hinted \in 0 .. Len(writes)
  BY DEF PipelineTypeOK
<1>6. arrived \in 0 .. Len(Delivered)
  BY DEF PipelineTypeOK
<1> QED
  BY <1>1, <1>2, <1>3, <1>4, <1>5, <1>6

LEMMA PlacesAreNumbers ==
  ASSUME PipelineTypeOK
  PROVE  /\ \A i \in 1 .. Len(order) : order[i] \in Numbers
         /\ \A i \in 1 .. Len(emitted) : emitted[i] \in Numbers
         /\ \A i \in 1 .. Len(writes) : writes[i] \in Numbers
<1>1. order \in Seq(Numbers) /\ emitted \in Seq(Numbers) /\ writes \in Seq(Numbers)
  BY PipelineBasics
<1> QED
  BY <1>1

\* A signature once delivered stays.
LEMMA Transactions ==
  ASSUME PipelineTypeOK, Numbered, NEW n \in Numbers, stage[n] # "absent"
  PROVE  SignatureOf(n) \in Signatures
<1>1. n + 1 \in 1 .. Len(signature)
  BY PipelineBasics DEF Numbered, Numbers
<1>2. signature \in Seq(Signatures)
  BY DEF PipelineTypeOK
<1> QED
  BY <1>1, <1>2 DEF SignatureOf

LEMMA QueuedShrinks ==
  ASSUME PipelineTypeOK, At({"queued"})' \subseteq At({"queued"})
  PROVE  Cardinality(At({"queued"}))' <= IngressSize
<1>1. IsFiniteSet(At({"queued"}))
  BY PipelineBasics, FS_Subset DEF At
<1>2. /\ Cardinality(At({"queued"})') <= Cardinality(At({"queued"}))
      /\ Cardinality(At({"queued"})') \in Nat /\ Cardinality(At({"queued"})) \in Nat
  BY <1>1, FS_Subset, FS_CardinalityType
<1> QED
  BY <1>2, CapacityAssumption DEF PipelineTypeOK

-----------------------------------------------------------------------------

LEMMA PipelineInitInvariant == PipelineInit => PipelineInv
<1> SUFFICES ASSUME PipelineInit PROVE PipelineInv
  OBVIOUS
<1>1. Len(Delivered) \in Nat
  BY DeliveryAssumption
<1>2. Cardinality(At({"queued"})) <= IngressSize
  <2>1. At({"queued"}) = {}
    BY DEF PipelineInit, At
  <2> QED
    BY <2>1, FS_EmptySet, CapacityAssumption
<1>3. /\ [n \in Numbers |-> {}] \in [Numbers -> SUBSET Assets]
      /\ [n \in Numbers |-> {}] \in [Numbers -> SUBSET (Signatures \X Assets)]
      /\ index \in [Signatures -> SUBSET Assets]
      /\ store \subseteq Signatures \X Assets
  BY DeliveryAssumption DEF PipelineInit, StoredFor
<1>4. /\ \A X : <<>> \in Seq(X)
      /\ Len(<<>>) = 0
  OBVIOUS
<1>5. /\ {tokens, assets, affected} \subseteq [Numbers -> SUBSET Assets]
      /\ triggered \in [Numbers -> BOOLEAN]
  BY <1>3 DEF PipelineInit
<1>6. {writes, order, emitted} \subseteq Seq(Numbers)
  BY <1>4 DEF PipelineInit
<1>7. PipelineTypeOK
  BY <1>1, <1>2, <1>3, <1>4, <1>5, <1>6 DEF PipelineInit, PipelineTypeOK, Stages
<1>8. Numbered
  BY <1>1, <1>4 DEF PipelineInit, Numbered, Numbers
<1>9. Queue /\ Drawn /\ Guarded /\ Turns
  BY DEF PipelineInit, Queue, Drawn, Guarded, Turns, Once, Elems, Passed, Turned
<1>10. Reserved
  BY DEF PipelineInit, Reserved, Waiting
<1> QED
  BY <1>7, <1>8, <1>9, <1>10 DEF PipelineInv

-----------------------------------------------------------------------------
(* Steps that only move numbers on.                                         *)

\* What the steps of one task leave alone.
Else ==
    UNCHANGED <<runner, ingress, tokens, assets, results, index, store, writes,
                committed, tickets>>

\* Where a number may go from its stage.
Permitted(m, where) ==
    /\ where \in Stages
    /\ stage[m] \notin {"absent", "writing", "processed"}
    /\ where \notin {"absent", "queued", "read", "writing", "written"}
    /\ where \in Early => stage[m] \in Early
    /\ where \in Turned => m \in Elems(order)
    /\ where \in Passed => affected[m] \subseteq assets[m]
    /\ stage[m] \in Over => where \in Over

LEMMA Moved ==
  ASSUME PipelineInv, NEW n \in Numbers, NEW where, Move(n, where)
  PROVE  /\ stage' = [m \in Numbers |-> stage'[m]]
         /\ \A m \in Numbers : stage'[m] = IF m = n THEN where ELSE stage[m]
BY DEF Move, PipelineInv, PipelineTypeOK

LEMMA SomeMove ==
  ASSUME PipelineInv, Else, stage' = [m \in Numbers |-> stage'[m]],
         \A m \in Numbers : stage'[m] = stage[m] \/ Permitted(m, stage'[m])
  PROVE  /\ stage' \in [Numbers -> Stages]
         /\ Cardinality(At({"queued"}))' <= IngressSize
         /\ Numbered' /\ Queue' /\ Drawn' /\ Guarded' /\ Reserved'
<1>1. stage' \in [Numbers -> Stages]
  <2>1. \A m \in Numbers : stage'[m] \in Stages
    BY DEF PipelineInv, PipelineTypeOK, Permitted
  <2> QED
    BY <2>1
<1>2. Cardinality(At({"queued"}))' <= IngressSize
  <2>1. At({"queued"})' \subseteq At({"queued"})
    BY DEF At, Permitted
  <2> QED
    BY <2>1, QueuedShrinks DEF PipelineInv
<1>3. Numbered'
  BY DEF Else, ingress, PipelineInv, Numbered, Permitted
<1>4. Queue'
  <2>1. \A i \in 1 .. Len(writes) : writes[i] \in Numbers
    BY PlacesAreNumbers DEF PipelineInv
  <2> QED
    BY <2>1 DEF Else, PipelineInv, Queue, Early, Permitted
<1>5. Drawn'
  BY DEF Else, tickets, PipelineInv, Drawn, Permitted
<1>6. Guarded'
  BY DEF Else, results, PipelineInv, Guarded, Permitted
<1>7. Reserved'
  <2>1. UNCHANGED <<runner, tokens, assets, affected, index, store, writes, committed>>
    BY DEF Else, results
  <2>2. \A q : SignatureOf(q)' = SignatureOf(q)
    BY DEF Else, ingress, SignatureOf
  <2>3. \A g : StoredFor(g)' = StoredFor(g)
    BY <2>1 DEF StoredFor
  <2>4. Waiting' = Waiting
    BY <2>1 DEF Waiting
  <2>5. \A m \in Numbers : stage'[m] = "written" => stage[m] = "written"
    BY DEF Permitted
  <2> QED
    BY <2>1, <2>2, <2>3, <2>4, <2>5 DEF PipelineInv, Reserved
<1> QED
  BY <1>1, <1>2, <1>3, <1>4, <1>5, <1>6, <1>7

\* Nobody starts and nothing is emitted.
LEMMA TurnsKept ==
  ASSUME PipelineInv, stage' \in [Numbers -> Stages],
         UNCHANGED <<assets, order, emitted>>,
         \A m \in Numbers : /\ stage[m] = "processed" => stage'[m] = "processed"
                            /\ stage[m] \in Over => stage'[m] \in Over
                            /\ stage'[m] = "finalizing" => stage[m] = "finalizing"
  PROVE  Turns'
<1>1. \A i \in 1 .. Len(order) : order[i] \in Numbers
  BY PlacesAreNumbers DEF PipelineInv
<1>2. \A i \in 1 .. Len(emitted) : emitted[i] \in Numbers
  BY PlacesAreNumbers DEF PipelineInv
<1>3. \A i \in 1 .. Len(emitted) : stage'[emitted[i]] = "processed"
  BY <1>2 DEF PipelineInv, Turns
<1>4. ASSUME NEW i \in 1 .. Len(order), NEW j \in 1 .. Len(order), i < j,
             Shared(order[i], order[j]),
             stage'[order[j]] = "finalizing" \/ order[j] \in Elems(emitted)
      PROVE  stage'[order[i]] \in Over
  <2>1. stage[order[j]] = "finalizing" \/ order[j] \in Elems(emitted)
    BY <1>1, <1>4
  <2>2. stage[order[i]] \in Over
    BY <1>4, <2>1 DEF PipelineInv, Turns
  <2> QED
    BY <1>1, <2>2
<1>5. \A m, n : Shared(m, n)' = Shared(m, n)
  BY DEF Shared
<1>6. order' = order /\ emitted' = emitted /\ Elems(emitted)' = Elems(emitted)
  BY DEF Elems
<1>7. (\A i \in 1 .. Len(emitted) : stage[emitted[i]] = "processed")'
  BY <1>3, <1>6
<1>8. (\A i, j \in 1 .. Len(order) :
          /\ i < j /\ Shared(order[i], order[j])
          /\ stage[order[j]] = "finalizing" \/ order[j] \in Elems(emitted)
          => stage[order[i]] \in Over)'
  BY <1>4, <1>5, <1>6
<1>9. (\A i, j \in 1 .. Len(emitted), k, l \in 1 .. Len(order) :
          /\ i < j /\ order[k] = emitted[i] /\ order[l] = emitted[j]
          /\ Shared(order[k], order[l])
          => k < l)'
  BY <1>5, <1>6 DEF PipelineInv, Turns
<1> QED
  BY <1>7, <1>8, <1>9, Zenon DEF Turns

LEMMA OneTypes ==
  ASSUME PipelineInv, Else, arrived' = arrived, stage' \in [Numbers -> Stages],
         Cardinality(At({"queued"}))' <= IngressSize,
         triggered' \in [Numbers -> BOOLEAN], emitted' \in Seq(Numbers)
  PROVE  PipelineTypeOK'
<1>1. /\ {tokens, assets, affected}' \subseteq [Numbers -> SUBSET Assets]
      /\ {writes, order, emitted}' \subseteq Seq(Numbers)
  BY PipelineBasics DEF PipelineInv, Else, results, tickets
<1> QED
  BY <1>1 DEF Else, ingress, results, tickets, PipelineInv, PipelineTypeOK

LEMMA TicketedIsElems ==
  ASSUME PipelineTypeOK
  PROVE  Ticketed = Elems(order)
<1>1. DOMAIN order = 1 .. Len(order)
  BY PipelineBasics
<1> QED
  BY <1>1 DEF Ticketed, Range, Elems

\* A step that moves numbers on and starts nobody.
LEMMA PlainMoves ==
  ASSUME PipelineInv, Else, stage' = [m \in Numbers |-> stage'[m]],
         \A m \in Numbers :
            \/ stage'[m] = stage[m]
            \/ Permitted(m, stage'[m]) /\ stage'[m] # "finalizing",
         arrived' = arrived, emitted' = emitted,
         triggered' \in [Numbers -> BOOLEAN]
  PROVE  PipelineInv'
<1>1. /\ stage' \in [Numbers -> Stages]
      /\ Cardinality(At({"queued"}))' <= IngressSize
      /\ Numbered' /\ Queue' /\ Drawn' /\ Guarded' /\ Reserved'
  BY SomeMove
<1>2. PipelineTypeOK'
  BY <1>1, OneTypes, PipelineBasics DEF PipelineInv
<1>3. Turns'
  <2>1. \A m \in Numbers : /\ stage[m] = "processed" => stage'[m] = "processed"
                           /\ stage[m] \in Over => stage'[m] \in Over
                           /\ stage'[m] = "finalizing" => stage[m] = "finalizing"
    BY DEF Permitted
  <2> QED
    BY <1>1, <2>1, TurnsKept DEF Else, tickets
<1> QED
  BY <1>1, <1>2, <1>3 DEF PipelineInv

LEMMA PlainMove ==
  ASSUME PipelineInv, NEW n \in Numbers, NEW where, Move(n, where), Else,
         Permitted(n, where), where # "finalizing",
         arrived' = arrived, emitted' = emitted,
         triggered' \in [Numbers -> BOOLEAN]
  PROVE  PipelineInv'
BY Moved, PlainMoves

LEMMA TakeKeeps ==
  ASSUME PipelineInv, NEW n \in Numbers, Take(n)
  PROVE  PipelineInv'
<1>1. /\ Move(n, "normalizing") /\ Else /\ stage[n] = "queued"
      /\ arrived' = arrived /\ emitted' = emitted /\ triggered' = triggered
  BY DEF Take, Else, ingress, results, database, tickets
<1>2. Permitted(n, "normalizing")
  BY <1>1 DEF Permitted, Stages, Early, Turned, Passed, Over
<1> QED
  BY <1>1, <1>2, PlainMove, PipelineBasics DEF PipelineInv

\* Of the numbers that meet their tickets, those whose work is there are
\* processed or submitted; pending ones may be demoted with it.
LEMMA Settled ==
  ASSUME PipelineInv, NEW S, NEW at, MaybeSubmit(S, at)
  PROVE  /\ stage' = [m \in Numbers |-> stage'[m]]
         /\ \A m \in Numbers :
               IF m \in S
               THEN IF at[m] \in {"prepared", "noEvidence"}
                    THEN stage'[m] \in {"processed", "submitted"}
                    ELSE stage'[m] = at[m]
               ELSE \/ stage'[m] = stage[m]
                    \/ stage[m] = "submitted" /\ stage'[m] = "demoted"
<1>1. PICK known, D :
         /\ D \in Demotions
         /\ stage' = [n \in Numbers |->
                         IF n \in S THEN Paired(n, at[n], known)
                         ELSE IF n \in D THEN "demoted" ELSE stage[n]]
  BY DEF MaybeSubmit
<1>2. \A m \in D : stage[m] = "submitted"
  BY <1>1 DEF Demotions, Held, At
<1>3. \A m \in Numbers :
         stage'[m] = IF m \in S THEN Paired(m, at[m], known)
                     ELSE IF m \in D THEN "demoted" ELSE stage[m]
  BY <1>1
<1>4. stage' = [m \in Numbers |-> stage'[m]]
  BY <1>1
<1> QED
  BY <1>2, <1>3, <1>4 DEF Paired

LEMMA DemotionPermitted ==
  ASSUME PipelineInv, NEW m \in Numbers, stage[m] = "submitted"
  PROVE  Permitted(m, "demoted")
BY DEF PipelineInv, Drawn, Guarded, Permitted, Stages, Early, Turned, Passed, Over

\* The work of n is ready.
LEMMA WorkReadyKeeps ==
  ASSUME PipelineInv, NEW n \in Numbers, NEW where \in {"prepared", "noEvidence"},
         WorkReady(n, where), Else, stage[n] \in {"written", "preparing"},
         affected[n] \subseteq assets[n],
         arrived' = arrived, emitted' = emitted, triggered' = triggered
  PROVE  PipelineInv'
<1>1. ASSUME NEW q \in {where, "processed", "submitted"}, q # where => n \in Elems(order)
      PROVE  Permitted(n, q)
  BY <1>1 DEF Permitted, Stages, Early, Turned, Passed, Over
<1>2. CASE n \in Ticketed
  <2> DEFINE at == [stage EXCEPT ![n] = where]
  <2>1. MaybeSubmit({n}, at) /\ n \in Elems(order)
    BY <1>2, TicketedIsElems DEF WorkReady, PipelineInv
  <2>2. at[n] = where
    BY DEF PipelineInv, PipelineTypeOK
  <2> HIDE DEF at
  <2>3. /\ stage' = [m \in Numbers |-> stage'[m]]
        /\ stage'[n] \in {"processed", "submitted"}
        /\ \A m \in Numbers : m # n =>
              \/ stage'[m] = stage[m]
              \/ stage[m] = "submitted" /\ stage'[m] = "demoted"
    BY <2>1, <2>2, Settled
  <2>4. Permitted(n, stage'[n])
    BY <1>1, <2>1, <2>3
  <2>5. \A m \in Numbers :
           \/ stage'[m] = stage[m]
           \/ Permitted(m, stage'[m]) /\ stage'[m] # "finalizing"
    BY <2>3, <2>4, DemotionPermitted
  <2> QED
    BY <2>3, <2>5, PlainMoves, PipelineBasics DEF PipelineInv
<1>3. CASE n \notin Ticketed
  <2>1. Move(n, where) /\ Permitted(n, where) /\ where # "finalizing"
    BY <1>1, <1>3 DEF WorkReady
  <2> QED
    BY <2>1, PlainMove, PipelineBasics DEF PipelineInv
<1> QED
  BY <1>2, <1>3

LEMMA TakeResultKeeps ==
  ASSUME PipelineInv, NEW n \in Numbers, TakeResult(n)
  PROVE  PipelineInv'
<1>1. /\ Else /\ stage[n] = "written"
      /\ arrived' = arrived /\ emitted' = emitted /\ triggered' = triggered
  BY DEF TakeResult, Else, ingress, results, database, tickets
<1>2. CASE SupersetMissing(n) # {}
  <2>1. Move(n, "persistFailed") /\ Permitted(n, "persistFailed")
    BY <1>1, <1>2 DEF TakeResult, Permitted, Stages, Early, Turned, Passed, Over
  <2> QED
    BY <1>1, <2>1, PlainMove, PipelineBasics DEF PipelineInv
<1>3. CASE SupersetMissing(n) = {}
  <2>1. affected[n] \subseteq assets[n]
    BY <1>3 DEF SupersetMissing
  <2>2. CASE fresh[n] # {}
    <3>1. Move(n, "evidence") /\ Permitted(n, "evidence")
      BY <1>1, <1>3, <2>1, <2>2 DEF TakeResult, Permitted, Stages, Early, Turned, Over
    <3> QED
      BY <1>1, <3>1, PlainMove, PipelineBasics DEF PipelineInv
  <2>3. CASE fresh[n] = {}
    <3>1. WorkReady(n, "noEvidence")
      BY <1>3, <2>3 DEF TakeResult
    <3> QED
      BY <1>1, <2>1, <3>1, WorkReadyKeeps
  <2> QED
    BY <2>2, <2>3
<1> QED
  BY <1>2, <1>3

LEMMA PrepareKeeps ==
  ASSUME PipelineInv, NEW n \in Numbers, Prepare(n)
  PROVE  PipelineInv'
<1>1. /\ Move(n, "preparing") /\ Else /\ stage[n] = "evidence"
      /\ arrived' = arrived /\ emitted' = emitted
  BY DEF Prepare, Else, ingress, results, database, tickets
<1>2. triggered' \in [Numbers -> BOOLEAN]
  BY PipelineBasics DEF Prepare, PipelineInv
<1>3. Permitted(n, "preparing")
  BY <1>1 DEF PipelineInv, Guarded, Passed, Permitted, Stages, Early, Turned, Over
<1> QED
  BY <1>1, <1>2, <1>3, PlainMove

LEMMA PreparedKeeps ==
  ASSUME PipelineInv, NEW n \in Numbers, Prepared(n)
  PROVE  PipelineInv'
<1>1. /\ WorkReady(n, "prepared") /\ Else /\ stage[n] = "preparing"
      /\ arrived' = arrived /\ emitted' = emitted /\ triggered' = triggered
  BY DEF Prepared, Else, ingress, results, database, tickets
<1>2. affected[n] \subseteq assets[n]
  BY <1>1 DEF PipelineInv, Guarded, Passed
<1> QED
  BY <1>1, <1>2, WorkReadyKeeps

LEMMA AuditKeeps ==
  ASSUME PipelineInv, NEW n \in Numbers, StartAudit(n) \/ Audit(n)
  PROVE  PipelineInv'
<1>1. /\ Else /\ arrived' = arrived /\ emitted' = emitted /\ triggered' = triggered
  BY DEF StartAudit, Audit, Else, ingress, results, database, tickets
<1>2. PICK q \in {"auditing", "processed"} : Move(n, q)
  BY DEF StartAudit, Audit
<1>3. stage[n] \in {"demoted", "auditing"}
  BY DEF StartAudit, Audit
<1>4. Permitted(n, q)
  BY <1>3 DEF PipelineInv, Drawn, Guarded, Permitted, Stages, Early, Turned, Passed, Over
<1> QED
  BY <1>1, <1>2, <1>4, PlainMove, PipelineBasics DEF PipelineInv

LEMMA TaskFailsKeeps ==
  ASSUME PipelineInv, NEW n \in Numbers, TaskFails(n)
  PROVE  PipelineInv'
<1>1. /\ Else /\ arrived' = arrived /\ emitted' = emitted /\ triggered' = triggered
  BY DEF TaskFails, Else, ingress, results, database, tickets
<1>2. PICK q \in {"persistFailed", "prepareFailed", "finalizeFailed", "auditFailed"} :
         /\ Move(n, q)
         /\ q = "persistFailed" => stage[n] = "normalizing"
         /\ q = "prepareFailed" => stage[n] = "preparing"
         /\ q = "finalizeFailed" => stage[n] = "finalizing"
         /\ q = "auditFailed" => stage[n] = "auditing"
  BY DEF TaskFails
<1>3. Permitted(n, q)
  BY <1>2 DEF PipelineInv, Drawn, Guarded, Permitted, Stages, Early, Turned, Passed, Over
<1> QED
  BY <1>1, <1>2, <1>3, PlainMove, PipelineBasics DEF PipelineInv

-----------------------------------------------------------------------------
(* The turn of a number.                                                    *)

LEMMA TicketIsPlace ==
  ASSUME PipelineInv, NEW k \in 1 .. Len(order)
  PROVE  TicketOf(order[k]) = k - 1
<1>1. \A i \in 1 .. Len(order) : order[i] = order[k] => i = k
  BY DEF PipelineInv, Drawn, Once
<1>2. (CHOOSE i \in 1 .. Len(order) : order[i] = order[k]) = k
  BY <1>1
<1> QED
  BY <1>2 DEF TicketOf

LEMMA TicketsAreFew ==
  ASSUME PipelineInv
  PROVE  Len(order) <= Len(Delivered)
<1>1. order \in Seq(Numbers) /\ Once(order)
  BY PipelineBasics DEF PipelineInv, Drawn
<1>2. /\ IsFiniteSet(Elems(order)) /\ Cardinality(Elems(order)) = Len(order)
  BY <1>1, OnceCardinality
<1>3. Elems(order) \subseteq Numbers
  BY <1>1 DEF Elems
<1> QED
  BY <1>2, <1>3, PipelineBasics, FS_Subset DEF PipelineInv

\* The scheduler lets a ticket start when the earlier ones that share an asset
\* are out of the way.
LEMMA FreeMeansTurn ==
  ASSUME PipelineInv, NEW k \in 1 .. Len(order), Scheduler!Free(k - 1),
         NEW i \in 1 .. Len(order), i < k, Shared(order[i], order[k])
  PROVE  stage[order[i]] \in Over
<1>1. /\ i - 1 \in Tickets /\ k - 1 \in Tickets /\ i - 1 \in Scheduler!Ids
      /\ i - 1 < k - 1 /\ i - 1 < Len(order) /\ k - 1 < Len(order)
      /\ NumberOf(i - 1) = order[i] /\ NumberOf(k - 1) = order[k]
      /\ ~(i - 1 >= Len(order))
  BY SMTT(30), TicketsAreFew, PipelineBasics DEF PipelineInv, Tickets, Scheduler!Ids, NumberOf
<1>2. Scheduler!Shares(i - 1, k - 1)
  BY <1>1 DEF Scheduler!Shares, Shared
<1>3. TicketStatus(i - 1) \in {"done", "noop"}
  BY <1>1, <1>2 DEF Scheduler!Free
<1> QED
  BY <1>1, <1>3 DEF TicketStatus, Over

LEMMA StartFinalizeKeeps ==
  ASSUME PipelineInv, NEW n \in Numbers, StartFinalize(n)
  PROVE  PipelineInv'
<1>1. /\ Move(n, "finalizing") /\ Else /\ stage[n] = "submitted"
      /\ arrived' = arrived /\ emitted' = emitted /\ triggered' = triggered
      /\ Scheduler!Free(TicketOf(n))
  BY DEF StartFinalize, Else, ingress, results, database, tickets
<1>2. Permitted(n, "finalizing") /\ n \in Elems(order)
  BY <1>1 DEF PipelineInv, Drawn, Guarded, Permitted, Stages, Early, Turned, Passed, Over
<1>3. /\ stage' = [m \in Numbers |-> stage'[m]]
      /\ \A m \in Numbers : stage'[m] = IF m = n THEN "finalizing" ELSE stage[m]
  BY <1>1, Moved
<1>4. /\ stage' \in [Numbers -> Stages]
      /\ Cardinality(At({"queued"}))' <= IngressSize
      /\ Numbered' /\ Queue' /\ Drawn' /\ Guarded' /\ Reserved'
  BY <1>1, <1>2, <1>3, SomeMove
<1>5. PipelineTypeOK'
  BY <1>1, <1>4, OneTypes, PipelineBasics DEF PipelineInv
<1>6. Turns'
  <2>1. PICK k \in 1 .. Len(order) : order[k] = n
    BY <1>2 DEF Elems
  <2>2. /\ \A i \in 1 .. Len(order) : order[i] \in Numbers
        /\ \A i \in 1 .. Len(emitted) : emitted[i] \in Numbers
    BY PlacesAreNumbers DEF PipelineInv
  <2>3. UNCHANGED <<order, emitted, assets>>
    BY <1>1 DEF Else, tickets
  <2>4. \A i \in 1 .. Len(emitted) : stage'[emitted[i]] = "processed"
    BY <1>1, <1>3, <2>2 DEF PipelineInv, Turns
  <2>5. ASSUME NEW i \in 1 .. Len(order), NEW j \in 1 .. Len(order), i < j,
               Shared(order[i], order[j]),
               stage'[order[j]] = "finalizing" \/ order[j] \in Elems(emitted)
        PROVE  stage'[order[i]] \in Over
    <3>1. stage[order[i]] \in Over
      <4>1. CASE j = k
        BY <1>1, <2>1, <2>5, <4>1, TicketIsPlace, FreeMeansTurn
      <4>2. CASE j # k
        <5>1. order[j] # n
          BY <2>1, <4>2 DEF PipelineInv, Drawn, Once
        <5> QED
          BY <1>3, <2>2, <2>5, <5>1 DEF PipelineInv, Turns
      <4> QED
        BY <4>1, <4>2
    <3>2. order[i] # n
      BY <1>1, <3>1 DEF Over
    <3> QED
      BY <1>3, <2>2, <3>1, <3>2
  <2>6. \A m, q : Shared(m, q)' = Shared(m, q)
    BY <2>3 DEF Shared
  <2> QED
    BY <2>3, <2>4, <2>5, <2>6 DEF PipelineInv, Turns
<1> QED
  BY <1>4, <1>5, <1>6 DEF PipelineInv

LEMMA FinalizeKeeps ==
  ASSUME PipelineInv, NEW n \in Numbers, Finalize(n)
  PROVE  PipelineInv'
<1>1. /\ Else /\ stage[n] = "finalizing" /\ arrived' = arrived /\ triggered' = triggered
      /\ emitted' = emitted \/ emitted' = Append(emitted, n)
  BY DEF Finalize, Else, ingress, results, database, tickets
<1>2. /\ Permitted(n, "processed") /\ n \in Elems(order)
  BY <1>1 DEF PipelineInv, Drawn, Guarded, Permitted, Stages, Early, Turned, Passed, Over
<1>3. /\ stage' = [m \in Numbers |-> stage'[m]]
      /\ stage'[n] = "processed"
      /\ \A m \in Numbers : m # n => \/ stage'[m] = stage[m]
                                     \/ stage[m] = "submitted" /\ stage'[m] = "demoted"
  <2>1. PICK D \in Demotions :
           stage' = [m \in Numbers |-> IF m = n THEN "processed"
                                       ELSE IF m \in D THEN "demoted" ELSE stage[m]]
    BY DEF Finalize
  <2>2. \A m \in D : stage[m] = "submitted"
    BY <2>1 DEF Demotions, Held, At
  <2>3. \A m \in Numbers : stage'[m] = IF m = n THEN "processed"
                                       ELSE IF m \in D THEN "demoted" ELSE stage[m]
    BY <2>1
  <2>4. stage' = [m \in Numbers |-> stage'[m]]
    BY <2>1
  <2> QED
    BY <2>2, <2>3, <2>4
<1>4. /\ stage' \in [Numbers -> Stages]
      /\ Cardinality(At({"queued"}))' <= IngressSize
      /\ Numbered' /\ Queue' /\ Drawn' /\ Guarded' /\ Reserved'
  <2>1. \A m \in Numbers : stage'[m] = stage[m] \/ Permitted(m, stage'[m])
    BY <1>2, <1>3, DemotionPermitted
  <2> QED
    BY <1>1, <1>3, <2>1, SomeMove
<1>5. PipelineTypeOK'
  <2>1. emitted \in Seq(Numbers) /\ Append(emitted, n) \in Seq(Numbers)
    BY PipelineBasics DEF PipelineInv
  <2>2. emitted' \in Seq(Numbers)
    BY <1>1, <2>1
  <2> QED
    BY <1>1, <1>4, <2>2, OneTypes, PipelineBasics DEF PipelineInv
<1>6. Turns'
  <2>1. PICK p \in 1 .. Len(order) : order[p] = n
    BY <1>2 DEF Elems
  <2>2. \A m \in Numbers : /\ stage[m] = "processed" => stage'[m] = "processed"
                           /\ stage[m] \in Over => stage'[m] \in Over
                           /\ stage'[m] = "finalizing" => stage[m] = "finalizing"
    BY <1>1, <1>3 DEF Over
  <2>3. /\ \A i \in 1 .. Len(order) : order[i] \in Numbers
        /\ \A i \in 1 .. Len(emitted) : emitted[i] \in Numbers
        /\ UNCHANGED <<order, assets>>
        /\ Len(emitted) \in Nat
    BY <1>1, PipelineBasics DEF PipelineInv, Else, tickets
  <2>4. /\ Elems(emitted') \subseteq Elems(emitted) \cup {n}
        /\ \A i \in 1 .. Len(emitted') :
              \/ i \in 1 .. Len(emitted) /\ emitted'[i] = emitted[i]
              \/ i = Len(emitted) + 1 /\ emitted'[i] = n
    <3>1. CASE emitted' = emitted
      BY <2>3, <3>1
    <3>2. CASE emitted' = Append(emitted, n)
      <4>1. /\ emitted' = Append(emitted, n) /\ Len(emitted') = Len(emitted) + 1
            /\ \A i \in 1 .. Len(emitted) : emitted'[i] = emitted[i]
            /\ emitted'[Len(emitted) + 1] = n
        BY <1>1, <3>2, PipelineBasics DEF PipelineInv
      <4>2. Elems(emitted') = Elems(emitted) \cup {n}
        BY <4>1, AppendElems, PipelineBasics DEF PipelineInv
      <4> QED
        BY <2>3, <4>1, <4>2
    <3> QED
      BY <1>1, <3>1, <3>2
  <2>5. \A i \in 1 .. Len(emitted') : stage'[emitted'[i]] = "processed"
    BY <1>3, <2>2, <2>3, <2>4 DEF PipelineInv, Turns
  <2>6. ASSUME NEW i \in 1 .. Len(order), NEW j \in 1 .. Len(order), i < j,
               Shared(order[i], order[j]),
               stage'[order[j]] = "finalizing" \/ order[j] \in Elems(emitted')
        PROVE  stage'[order[i]] \in Over
    <3>1. stage[order[j]] = "finalizing" \/ order[j] \in Elems(emitted)
      BY <1>1, <2>2, <2>3, <2>4, <2>6
    <3>2. stage[order[i]] \in Over
      BY <2>6, <3>1 DEF PipelineInv, Turns
    <3> QED
      BY <2>2, <2>3, <3>2
  <2>7. ASSUME NEW i \in 1 .. Len(emitted'), NEW j \in 1 .. Len(emitted'),
               NEW k \in 1 .. Len(order), NEW l \in 1 .. Len(order),
               i < j, order[k] = emitted'[i], order[l] = emitted'[j],
               Shared(order[k], order[l])
        PROVE  k < l
    <3>1. i \in 1 .. Len(emitted) /\ emitted'[i] = emitted[i]
      BY SMTT(30), <2>3, <2>4, <2>7
    <3>2. CASE j \in 1 .. Len(emitted) /\ emitted'[j] = emitted[j]
      BY <2>7, <3>1, <3>2 DEF PipelineInv, Turns
    <3>3. CASE emitted'[j] = n
      <4>1. stage[order[k]] = "processed" /\ order[k] \in Elems(emitted)
        BY <2>7, <3>1 DEF PipelineInv, Turns, Elems
      <4>2. k # l
        BY <1>1, <2>7, <3>3, <4>1
      <4>3. ~(l < k)
        <5>1. Shared(order[l], order[k])
          BY <2>7 DEF Shared
        <5> QED
          BY <1>1, <2>7, <3>3, <4>1, <5>1 DEF PipelineInv, Turns, Over
      <4> QED
        BY <4>2, <4>3, PipelineBasics DEF PipelineInv
    <3> QED
      BY <2>4, <2>7, <3>2, <3>3
  <2>8. \A m, q : Shared(m, q)' = Shared(m, q)
    BY <2>3 DEF Shared
  <2> QED
    BY <2>3, <2>5, <2>6, <2>7, <2>8 DEF Turns
<1> QED
  BY <1>4, <1>5, <1>6 DEF PipelineInv

-----------------------------------------------------------------------------
(* The way to the writer's queue.                                           *)

LEMMA EarlyHasNoTicket ==
  ASSUME PipelineInv, NEW n \in Numbers, stage[n] \in Early
  PROVE  /\ n \notin Elems(writes) /\ n \notin Elems(order)
         /\ \A i \in 1 .. Len(writes) : writes[i] # n
         /\ \A i \in 1 .. Len(order) : order[i] # n
         /\ \A i \in 1 .. Len(emitted) : emitted[i] # n
<1>1. \A i \in 1 .. Len(writes) : writes[i] # n
  BY DEF PipelineInv, Queue
<1>2. \A i \in 1 .. Len(order) : order[i] # n
  <2> SUFFICES ASSUME NEW i \in 1 .. Len(order), order[i] = n PROVE FALSE
    OBVIOUS
  <2>1. PICK k \in 1 .. hinted : order[i] = writes[k]
    BY DEF PipelineInv, Drawn
  <2>2. k \in 1 .. Len(writes)
    BY PipelineBasics DEF PipelineInv
  <2> QED
    BY <1>1, <2>1, <2>2
<1>3. \A i \in 1 .. Len(emitted) : emitted[i] # n
  BY DEF PipelineInv, Turns, Early
<1> QED
  BY <1>1, <1>2, <1>3 DEF Elems

LEMMA ReservedKept ==
  ASSUME PipelineInv,
         UNCHANGED <<runner, tokens, assets, affected, index, store, writes, committed>>,
         \A m \in Numbers : /\ stage[m] # "absent" => SignatureOf(m)' = SignatureOf(m)
                            /\ stage'[m] = "written" => stage[m] = "written"
  PROVE  Reserved'
<1>1. \A i \in Waiting : SignatureOf(writes[i])' = SignatureOf(writes[i])
  <2> SUFFICES ASSUME NEW i \in Waiting
               PROVE  SignatureOf(writes[i])' = SignatureOf(writes[i])
    OBVIOUS
  <2>1. i \in 1 .. Len(writes)
    BY PipelineBasics DEF Waiting, PipelineInv
  <2>2. writes[i] \in Numbers /\ stage[writes[i]] # "absent"
    BY <2>1, PlacesAreNumbers DEF PipelineInv, Queue, Early
  <2>3. signature'[writes[i] + 1] = signature[writes[i] + 1]
    BY <2>2 DEF SignatureOf
  <2> QED
    BY <2>3 DEF SignatureOf
<1>2. Waiting' = Waiting /\ \A g : StoredFor(g)' = StoredFor(g)
  BY DEF Waiting, StoredFor
<1>3. ASSUME runner.indexed
      PROVE  \A i \in Waiting :
                /\ tokens[writes[i]] \subseteq index[SignatureOf(writes[i])']
                /\ StoredFor(SignatureOf(writes[i])') \subseteq assets[writes[i]]
  BY <1>1, <1>3 DEF PipelineInv, Reserved
<1>4. ASSUME runner.indexed
      PROVE  \A i, j \in Waiting :
                i <= j /\ SignatureOf(writes[i])' = SignatureOf(writes[j])' =>
                  tokens[writes[i]] \subseteq assets[writes[j]]
  BY <1>1, <1>4 DEF PipelineInv, Reserved
<1> QED
  BY <1>2, <1>3, <1>4 DEF PipelineInv, Reserved, StoredFor

\* A number that is not in the writer's queue moves on towards it.
LEMMA Resolved ==
  ASSUME PipelineInv, NEW n \in Numbers, stage[n] \in {"normalizing", "read"},
         NEW where \in {"read", "writing"}, Move(n, where),
         UNCHANGED <<runner, ingress, affected, triggered, fresh, tickets, emitted>>,
         assets' \in [Numbers -> SUBSET Assets],
         \A m \in Numbers : m # n => assets'[m] = assets[m]
  PROVE  /\ \A m \in Numbers : stage'[m] = IF m = n THEN where ELSE stage[m]
         /\ stage' \in [Numbers -> Stages]
         /\ Cardinality(At({"queued"}))' <= IngressSize
         /\ Numbered' /\ Guarded' /\ Turns'
<1>1. /\ stage' \in [Numbers -> Stages]
      /\ \A m \in Numbers : stage'[m] = IF m = n THEN where ELSE stage[m]
  BY DEF Move, PipelineInv, PipelineTypeOK, Stages
<1>2. Cardinality(At({"queued"}))' <= IngressSize
  <2>1. At({"queued"})' \subseteq At({"queued"})
    BY <1>1 DEF At
  <2> QED
    BY <2>1, QueuedShrinks DEF PipelineInv
<1>3. Numbered'
  BY <1>1 DEF ingress, PipelineInv, Numbered
<1>4. Guarded'
  BY <1>1 DEF PipelineInv, Guarded, Passed
<1>5. Turns'
  <2>1. /\ \A i \in 1 .. Len(order) : order[i] \in Numbers /\ order[i] # n
        /\ \A i \in 1 .. Len(emitted) : emitted[i] \in Numbers /\ emitted[i] # n
    BY PlacesAreNumbers, EarlyHasNoTicket DEF PipelineInv, Early
  <2>2. UNCHANGED <<order, emitted>>
    BY DEF tickets
  <2>3. \A i, j \in 1 .. Len(order) :
           /\ Shared(order[i], order[j])' = Shared(order[i], order[j])
           /\ stage'[order[i]] = stage[order[i]]
    BY <1>1, <2>1, <2>2 DEF Shared
  <2>4. \A i \in 1 .. Len(emitted) : stage'[emitted[i]] = stage[emitted[i]]
    BY <1>1, <2>1
  <2>5. \A i \in 1 .. Len(emitted) : stage'[emitted[i]] = "processed"
    BY <2>4 DEF PipelineInv, Turns
  <2>6. \A i, j \in 1 .. Len(order) :
           /\ i < j /\ Shared(order[i], order[j])
           /\ stage'[order[j]] = "finalizing" \/ order[j] \in Elems(emitted)
           => stage'[order[i]] \in Over
    BY <2>3 DEF PipelineInv, Turns
  <2>7. \A i, j \in 1 .. Len(emitted), k, l \in 1 .. Len(order) :
           /\ i < j /\ order[k] = emitted[i] /\ order[l] = emitted[j]
           /\ Shared(order[k], order[l])
           => k < l
    BY DEF PipelineInv, Turns
  <2> QED
    BY <2>2, <2>3, <2>5, <2>6, <2>7 DEF Turns
<1> QED
  BY <1>1, <1>2, <1>3, <1>4, <1>5

LEMMA NormalizeByReadKeeps ==
  ASSUME PipelineInv, NEW n \in Numbers, NormalizeByRead(n)
  PROVE  PipelineInv'
<1>1. PICK resolved \in SUBSET TradesOf[SignatureOf(n)] :
         /\ tokens' = [tokens EXCEPT ![n] = resolved]
         /\ assets' = [assets EXCEPT ![n] = StoredFor(SignatureOf(n)) \cup resolved]
  BY DEF NormalizeByRead
<1>2. /\ stage[n] = "normalizing" /\ ~runner.indexed /\ Move(n, "read")
      /\ UNCHANGED <<runner, ingress, results, triggered, index, database, tickets, emitted>>
  BY DEF NormalizeByRead
<1>3. resolved \subseteq Assets
  BY <1>2, DeliveryAssumption, Transactions DEF PipelineInv
<1>4. /\ tokens' \in [Numbers -> SUBSET Assets] /\ assets' \in [Numbers -> SUBSET Assets]
      /\ \A m \in Numbers : m # n => assets'[m] = assets[m]
  BY <1>1, <1>3, PipelineBasics DEF PipelineInv, StoredFor
<1>5. /\ \A m \in Numbers : stage'[m] = IF m = n THEN "read" ELSE stage[m]
      /\ stage' \in [Numbers -> Stages]
      /\ Cardinality(At({"queued"}))' <= IngressSize
      /\ Numbered' /\ Guarded' /\ Turns'
  BY <1>2, <1>4, Resolved DEF results
<1>6. PipelineTypeOK'
  <2>1. /\ {tokens, assets, affected}' \subseteq [Numbers -> SUBSET Assets]
        /\ {writes, order, emitted}' \subseteq Seq(Numbers)
    BY <1>2, <1>4, PipelineBasics DEF PipelineInv, results, tickets, database
  <2> QED
    BY <1>2, <1>5, <2>1 DEF ingress, results, tickets, database, PipelineInv,
       PipelineTypeOK
<1>7. Queue'
  BY <1>2, <1>5, PlacesAreNumbers, EarlyHasNoTicket DEF PipelineInv, Queue, database, Early
<1>8. Drawn'
  BY <1>2, <1>5 DEF PipelineInv, Drawn, tickets, database, Turned
<1>9. Reserved'
  BY <1>2 DEF Reserved
<1> QED
  BY <1>5, <1>6, <1>7, <1>8, <1>9 DEF PipelineInv

\* A request enters the writer's queue.
LEMMA Enters ==
  ASSUME PipelineInv, NEW n \in Numbers, stage[n] \in Early,
         \A m \in Numbers : stage'[m] = IF m = n THEN "writing" ELSE stage[m],
         writes' = Append(writes, n), UNCHANGED <<runner, committed, tickets>>
  PROVE  /\ writes' \in Seq(Numbers) /\ Len(writes') = Len(writes) + 1
         /\ \A i \in 1 .. Len(writes) : writes'[i] = writes[i]
         /\ writes'[Len(writes) + 1] = n
         /\ Queue' /\ Drawn'
<1>1. /\ writes' \in Seq(Numbers) /\ Len(writes') = Len(writes) + 1
      /\ \A i \in 1 .. Len(writes) : writes'[i] = writes[i]
      /\ writes'[Len(writes) + 1] = n
      /\ Len(writes) \in Nat
  BY PipelineBasics DEF PipelineInv
<1>2. /\ \A i \in 1 .. Len(writes) : writes[i] \in Numbers /\ writes[i] # n
      /\ n \notin Elems(writes)
  BY PlacesAreNumbers, EarlyHasNoTicket DEF PipelineInv
<1>3. Queue'
  <2>1. Once(writes)'
    BY <1>2, AppendElems, PipelineBasics DEF PipelineInv, Queue
  <2>2. ASSUME NEW i \in 1 .. Len(writes')
        PROVE  /\ stage'[writes'[i]] \notin Early
               /\ stage'[writes'[i]] = "writing" <=> i > committed
    <3>1. CASE i \in 1 .. Len(writes)
      BY <1>1, <1>2, <3>1 DEF PipelineInv, Queue
    <3>2. CASE i = Len(writes) + 1
      BY <1>1, <3>2, PipelineBasics DEF PipelineInv, Early
    <3> QED
      BY <1>1, <3>1, <3>2
  <2>3. \A m \in Numbers : stage'[m] = "read" => ~runner'.indexed
    BY DEF PipelineInv, Queue
  <2> QED
    BY <2>1, <2>2, <2>3 DEF Queue
<1>4. Drawn'
  <2>1. \A k \in 1 .. hinted : writes'[k] = writes[k]
    BY <1>1, PipelineBasics DEF PipelineInv
  <2>2. \A i \in 1 .. Len(order) : \E k \in 1 .. hinted : order[i] = writes'[k]
    BY <2>1 DEF PipelineInv, Drawn
  <2>3. \A m \in Numbers : stage'[m] \in Turned => m \in Elems(order)
    BY DEF PipelineInv, Drawn, Turned
  <2> QED
    BY <2>2, <2>3 DEF PipelineInv, Drawn, tickets
<1> QED
  BY <1>1, <1>3, <1>4

LEMMA EnqueueWriteKeeps ==
  ASSUME PipelineInv, NEW n \in Numbers, EnqueueWrite(n)
  PROVE  PipelineInv'
<1>1. /\ stage[n] = "read" /\ Move(n, "writing") /\ writes' = Append(writes, n)
      /\ UNCHANGED <<runner, ingress, tokens, assets, results, triggered, index, store,
                     committed, tickets, emitted>>
  BY DEF EnqueueWrite
<1>2. assets' \in [Numbers -> SUBSET Assets]
  BY <1>1, PipelineBasics DEF PipelineInv
<1>3. /\ \A m \in Numbers : stage'[m] = IF m = n THEN "writing" ELSE stage[m]
      /\ stage' \in [Numbers -> Stages]
      /\ Cardinality(At({"queued"}))' <= IngressSize
      /\ Numbered' /\ Guarded' /\ Turns'
  BY <1>1, <1>2, Resolved DEF results
<1>4. /\ writes' \in Seq(Numbers) /\ Len(writes') = Len(writes) + 1
      /\ Queue' /\ Drawn'
  BY <1>1, <1>3, Enters DEF Early
<1>5. PipelineTypeOK'
  <2>1. /\ {tokens, assets, affected}' \subseteq [Numbers -> SUBSET Assets]
        /\ {writes, order, emitted}' \subseteq Seq(Numbers)
    BY <1>1, <1>4, PipelineBasics DEF PipelineInv, results, tickets
  <2>2. committed' \in 0 .. Len(writes') /\ hinted' \in 0 .. Len(writes')
    BY SMTT(30), <1>1, <1>4, PipelineBasics DEF PipelineInv, tickets
  <2> QED
    BY <1>1, <1>3, <2>1, <2>2 DEF ingress, results, tickets, PipelineInv, PipelineTypeOK
<1>6. Reserved'
  BY <1>1 DEF PipelineInv, Queue, Reserved
<1> QED
  BY <1>3, <1>4, <1>5, <1>6 DEF PipelineInv

LEMMA NormalizeIndexedKeeps ==
  ASSUME PipelineInv, NEW n \in Numbers, NormalizeIndexed(n)
  PROVE  PipelineInv'
<1>1. PICK resolved \in SUBSET TradesOf[SignatureOf(n)] :
         /\ tokens' = [tokens EXCEPT ![n] = resolved]
         /\ assets' = [assets EXCEPT ![n] = IndexedAssets(n, resolved)]
         /\ index' = [index EXCEPT ![SignatureOf(n)] = @ \cup resolved]
  BY DEF NormalizeIndexed
<1>2. /\ stage[n] = "normalizing" /\ Move(n, "writing") /\ writes' = Append(writes, n)
      /\ UNCHANGED <<runner, ingress, results, triggered, store, committed, tickets, emitted>>
  BY DEF NormalizeIndexed
<1>3. resolved \subseteq Assets /\ SignatureOf(n) \in Signatures
  BY <1>2, DeliveryAssumption, Transactions DEF PipelineInv
<1>4. index \in [Signatures -> SUBSET Assets]
  BY DEF PipelineInv, PipelineTypeOK
<1>5. /\ tokens' \in [Numbers -> SUBSET Assets] /\ assets' \in [Numbers -> SUBSET Assets]
      /\ index' \in [Signatures -> SUBSET Assets]
      /\ \A m \in Numbers : m # n => assets'[m] = assets[m] /\ tokens'[m] = tokens[m]
      /\ tokens'[n] = resolved /\ assets'[n] = index[SignatureOf(n)] \cup resolved
      /\ \A g \in Signatures : index[g] \subseteq index'[g]
      /\ resolved \subseteq index'[SignatureOf(n)]
  BY <1>1, <1>3, <1>4, PipelineBasics DEF PipelineInv, IndexedAssets
<1>6. /\ \A m \in Numbers : stage'[m] = IF m = n THEN "writing" ELSE stage[m]
      /\ stage' \in [Numbers -> Stages]
      /\ Cardinality(At({"queued"}))' <= IngressSize
      /\ Numbered' /\ Guarded' /\ Turns'
  BY <1>2, <1>5, Resolved DEF results
<1>7. /\ writes' \in Seq(Numbers) /\ Len(writes') = Len(writes) + 1
      /\ \A i \in 1 .. Len(writes) : writes'[i] = writes[i]
      /\ writes'[Len(writes) + 1] = n
      /\ Queue' /\ Drawn'
  BY <1>2, <1>6, Enters DEF Early
<1>8. PipelineTypeOK'
  <2>1. /\ {tokens, assets, affected}' \subseteq [Numbers -> SUBSET Assets]
        /\ {writes, order, emitted}' \subseteq Seq(Numbers)
    BY <1>2, <1>5, <1>7, PipelineBasics DEF PipelineInv, results, tickets
  <2>2. committed' \in 0 .. Len(writes') /\ hinted' \in 0 .. Len(writes')
    BY <1>2, <1>7, PipelineBasics DEF PipelineInv, tickets
  <2> QED
    BY <1>2, <1>5, <1>6, <2>1, <2>2 DEF ingress, results, tickets, PipelineInv, PipelineTypeOK
<1>9. Reserved'
  <2> SUFFICES ASSUME runner.indexed PROVE Reserved'
    BY <1>2 DEF Reserved
  <2>1. \A m : SignatureOf(m)' = SignatureOf(m)
    BY <1>2 DEF ingress, SignatureOf
  <2>2. \A g : StoredFor(g)' = StoredFor(g)
    BY <1>2 DEF StoredFor
  <2>3. \A i \in Waiting' : \/ /\ i \in Waiting /\ writes'[i] = writes[i]
                               /\ writes[i] \in Numbers /\ writes[i] # n
                               /\ SignatureOf(writes[i]) \in Signatures
                            \/ i = Len(writes) + 1 /\ writes'[i] = n
    <3> SUFFICES ASSUME NEW i \in Waiting', i # Len(writes) + 1
                 PROVE  /\ i \in Waiting /\ writes'[i] = writes[i]
                        /\ writes[i] \in Numbers /\ writes[i] # n
                        /\ SignatureOf(writes[i]) \in Signatures
      BY <1>7
    <3>3. committed \in Nat /\ Len(writes) \in Nat
      BY PipelineBasics DEF PipelineInv
    <3>4. i \in committed + 1 .. Len(writes) + 1
      BY <1>2, <1>7 DEF Waiting
    <3>1. i \in Waiting /\ i \in 1 .. Len(writes)
      BY <3>3, <3>4 DEF Waiting
    <3>2. /\ writes'[i] = writes[i] /\ writes[i] \in Numbers /\ writes[i] # n
          /\ stage[writes[i]] # "absent"
      BY <1>2, <1>7, <3>1, PlacesAreNumbers DEF PipelineInv, Queue, Early
    <3> QED
      BY <3>1, <3>2, Transactions DEF PipelineInv
  <2>4. \A g \in Signatures : StoredFor(g) \subseteq index'[g]
    BY <1>5 DEF PipelineInv, Reserved
  <2>5. \A i \in Waiting' :
           /\ tokens'[writes'[i]] \subseteq index'[SignatureOf(writes'[i])]
           /\ StoredFor(SignatureOf(writes'[i])) \subseteq assets'[writes'[i]]
    <3> SUFFICES ASSUME NEW i \in Waiting'
                 PROVE  /\ tokens'[writes'[i]] \subseteq index'[SignatureOf(writes'[i])]
                        /\ StoredFor(SignatureOf(writes'[i])) \subseteq assets'[writes'[i]]
      OBVIOUS
    <3>1. CASE writes'[i] = n
      BY <1>3, <1>5, <3>1 DEF PipelineInv, Reserved
    <3>2. CASE /\ i \in Waiting /\ writes'[i] = writes[i]
               /\ writes[i] \in Numbers /\ writes[i] # n
               /\ SignatureOf(writes[i]) \in Signatures
      BY <1>5, <3>2 DEF PipelineInv, Reserved
    <3> QED
      BY <2>3, <3>1, <3>2
  <2>6. ASSUME NEW i \in Waiting', NEW j \in Waiting', i <= j,
               SignatureOf(writes'[i]) = SignatureOf(writes'[j])
        PROVE  tokens'[writes'[i]] \subseteq assets'[writes'[j]]
    <3>1. CASE writes'[i] = n /\ writes'[j] = n
      BY <1>5, <3>1
    <3>2. CASE i \in Waiting /\ writes'[i] = writes[i] /\ writes[i] \in Numbers
               /\ writes[i] # n /\ writes'[j] = n
      <4>1. tokens[writes[i]] \subseteq index[SignatureOf(n)]
        BY <2>6, <3>2 DEF PipelineInv, Reserved
      <4> QED
        BY <1>5, <3>2, <4>1
    <3>3. CASE /\ i \in Waiting /\ writes'[i] = writes[i]
               /\ writes[i] \in Numbers /\ writes[i] # n
               /\ j \in Waiting /\ writes'[j] = writes[j]
               /\ writes[j] \in Numbers /\ writes[j] # n
      BY <1>5, <2>6, <3>3 DEF PipelineInv, Reserved
    <3>4. CASE i = Len(writes) + 1 /\ j \in Waiting
      BY <2>6, <3>4, PipelineBasics DEF Waiting, PipelineInv
    <3> QED
      BY <2>3, <3>1, <3>2, <3>3, <3>4
  <2>7. \A m \in Numbers : stage'[m] = "written" => affected'[m] \subseteq assets'[m]
    BY <1>2, <1>5, <1>6 DEF results, PipelineInv, Reserved
  <2> QED
    BY <2>1, <2>2, <2>4, <2>5, <2>6, <2>7 DEF Reserved
<1> QED
  BY <1>6, <1>7, <1>8, <1>9 DEF PipelineInv

LEMMA ReceiveKeeps ==
  ASSUME PipelineInv, Receive
  PROVE  PipelineInv'
<1>1. /\ arrived < Len(Delivered) /\ arrived' = arrived + 1
      /\ UNCHANGED <<runner, tokens, assets, results, triggered, index, database,
                     tickets, emitted>>
  BY DEF Receive
<1>2. CASE UNCHANGED <<signature, stage>>
  <2>1. At({"queued"})' = At({"queued"})
    BY <1>2 DEF At
  <2>2. PipelineTypeOK'
    BY <1>1, <1>2, <2>1, PipelineBasics
       DEF results, database, tickets, PipelineInv, PipelineTypeOK
  <2>3. Numbered' /\ Queue' /\ Drawn' /\ Guarded'
    BY <1>1, <1>2 DEF results, database, tickets, PipelineInv, Numbered, Queue, Drawn,
       Guarded
  <2>4. Turns'
    BY <1>1, <1>2, TurnsKept DEF tickets, PipelineInv, PipelineTypeOK
  <2>5. Reserved'
    BY <1>1, <1>2, ReservedKept DEF results, database, SignatureOf
  <2> QED
    BY <2>2, <2>3, <2>4, <2>5 DEF PipelineInv
<1>3. CASE ~Full /\ Enqueue(Delivered[arrived + 1])
  <2> DEFINE g == Delivered[arrived + 1]
             n == Len(signature)
  <2>1. /\ signature' = Append(signature, g) /\ g \in Signatures
        /\ signature \in Seq(Signatures)
        /\ Move(n, "queued") /\ n \in Numbers /\ n <= arrived
    BY <1>1, <1>3, DeliveryAssumption DEF Enqueue, PipelineInv, PipelineTypeOK, Numbers
  <2>2. /\ signature' \in Seq(Signatures) /\ Len(signature') = n + 1 /\ n \in Nat
        /\ \A i \in 1 .. n : signature'[i] = signature[i]
    BY <2>1
  <2> HIDE DEF g, n
  <2>3. stage[n] = "absent"
    BY <2>1, <2>2 DEF PipelineInv, Numbered, n
  <2>4. /\ stage' \in [Numbers -> Stages]
        /\ \A m \in Numbers : stage'[m] = IF m = n THEN "queued" ELSE stage[m]
    BY <2>1 DEF Move, PipelineInv, PipelineTypeOK, Stages
  <2>5. Cardinality(At({"queued"}))' <= IngressSize
    <3>1. At({"queued"})' = At({"queued"}) \cup {n} /\ n \notin At({"queued"})
      BY <2>1, <2>3, <2>4 DEF At
    <3>2. IsFiniteSet(At({"queued"}))
      BY PipelineBasics, FS_Subset DEF At, PipelineInv
    <3>3. /\ Cardinality(At({"queued"})') = Cardinality(At({"queued"})) + 1
          /\ Cardinality(At({"queued"})) \in Nat
      BY <3>1, <3>2, FS_AddElement, FS_CardinalityType
    <3>4. ~(Cardinality(At({"queued"})) >= IngressSize)
      BY <1>3 DEF Full
    <3> QED
      BY <3>3, <3>4, CapacityAssumption
  <2>6. PipelineTypeOK'
    <3>1. arrived' \in 0 .. Len(Delivered) /\ Len(signature') <= arrived'
      BY <1>1, <2>1, <2>2, PipelineBasics DEF PipelineInv, PipelineTypeOK
    <3> QED
      BY <1>1, <2>2, <2>4, <2>5, <3>1
         DEF results, database, tickets, PipelineInv, PipelineTypeOK
  <2>7. Numbered'
    <3>1. Numbers \subseteq Nat
      BY PipelineBasics DEF PipelineInv
    <3>2. \A m \in Numbers : stage[m] # "absent" <=> m < n
      BY DEF PipelineInv, Numbered, n
    <3>3. \A m \in Numbers : stage'[m] # "absent" <=> m < n + 1
      BY <2>2, <2>3, <2>4, <3>1, <3>2
    <3> QED
      BY <2>2, <3>3 DEF Numbered
  <2>8. Queue'
    BY <1>1, <2>3, <2>4, PlacesAreNumbers DEF database, PipelineInv, Queue, Early
  <2>9. Drawn' /\ Guarded'
    BY <1>1, <2>4 DEF results, database, tickets, PipelineInv, Drawn, Guarded, Turned,
       Passed
  <2>10. Turns'
    BY <1>1, <2>3, <2>4, TurnsKept DEF tickets, Over
  <2>11. Reserved'
    <3>1. ASSUME NEW m \in Numbers, stage[m] # "absent"
          PROVE  SignatureOf(m)' = SignatureOf(m)
      <4>1. m + 1 \in 1 .. n
        BY <2>2, <3>1, PipelineBasics DEF PipelineInv, Numbered, n
      <4> QED
        BY <2>2, <4>1 DEF SignatureOf
    <3> QED
      BY <1>1, <2>3, <2>4, <3>1, ReservedKept DEF results, database
  <2> QED
    BY <2>6, <2>7, <2>8, <2>9, <2>10, <2>11 DEF PipelineInv
<1> QED
  BY <1>2, <1>3 DEF Receive

-----------------------------------------------------------------------------
(* The writer thread.                                                       *)

\* A batch is taken from the front of the waiting requests.
LEMMA BatchPlaces ==
  ASSUME PipelineInv, NEW size \in 1 .. BatchSize, committed + size <= Len(writes)
  PROVE  /\ size \in Nat
         /\ \A i \in 1 .. size : /\ committed + i \in 1 .. Len(writes)
                                 /\ committed + i \in Waiting
                                 /\ writes[committed + i] \in Numbers
                                 /\ stage[writes[committed + i]] = "writing"
         /\ \A i \in 1 .. Len(writes) :
               InBatch(writes[i], size) <=> i > committed /\ i <= committed + size
<1>1. size \in Nat
  BY CapacityAssumption
<1>2. committed \in Nat /\ Len(writes) \in Nat
  BY PipelineBasics DEF PipelineInv
<1>3. ASSUME NEW i \in 1 .. size
      PROVE  committed + i \in 1 .. Len(writes) /\ committed + i > committed
  BY <1>1, <1>2
<1>4. ASSUME NEW i \in 1 .. size
      PROVE  /\ committed + i \in Waiting
             /\ writes[committed + i] \in Numbers
             /\ stage[writes[committed + i]] = "writing"
  BY <1>1, <1>2, <1>3, PlacesAreNumbers DEF PipelineInv, Queue, Waiting
<1>5. ASSUME NEW i \in 1 .. Len(writes)
      PROVE  InBatch(writes[i], size) <=> i > committed /\ i <= committed + size
  <2>1. ASSUME InBatch(writes[i], size)
        PROVE  i > committed /\ i <= committed + size
    <3>1. PICK k \in 1 .. size : writes[committed + k] = writes[i]
      BY <2>1 DEF InBatch
    <3>2. committed + k = i
      BY <1>3, <3>1 DEF PipelineInv, Queue, Once
    <3> QED
      BY <1>1, <1>2, <3>2
  <2>2. ASSUME i > committed, i <= committed + size
        PROVE  InBatch(writes[i], size)
    <3>1. i - committed \in 1 .. size /\ committed + (i - committed) = i
      BY <1>1, <1>2, <2>2
    <3> QED
      BY <3>1 DEF InBatch
  <2> QED
    BY <2>1, <2>2
<1> QED
  BY <1>1, <1>3, <1>4, <1>5

LEMMA BatchTaken ==
  ASSUME PipelineInv, NEW size \in 1 .. BatchSize, committed + size <= Len(writes),
         NEW where \in {"written", "persistFailed"},
         committed' = committed + size,
         stage' = [n \in Numbers |-> IF InBatch(n, size) THEN where ELSE stage[n]],
         \A n \in Numbers : ~InBatch(n, size) => affected'[n] = affected[n],
         UNCHANGED <<runner, ingress, assets, writes, tickets, emitted>>
  PROVE  /\ stage' \in [Numbers -> Stages]
         /\ Cardinality(At({"queued"}))' <= IngressSize
         /\ Numbered' /\ Queue' /\ Drawn' /\ Guarded' /\ Turns'
<1>1. /\ stage' \in [Numbers -> Stages]
      /\ \A n \in Numbers : stage'[n] = IF InBatch(n, size) THEN where ELSE stage[n]
  BY DEF PipelineInv, PipelineTypeOK, Stages
<1>2. ASSUME NEW n \in Numbers, InBatch(n, size)
      PROVE  stage[n] = "writing"
  <2>1. PICK i \in 1 .. size : writes[committed + i] = n
    BY <1>2 DEF InBatch
  <2> QED
    BY <2>1, BatchPlaces
<1>3. Cardinality(At({"queued"}))' <= IngressSize
  <2>1. At({"queued"})' \subseteq At({"queued"})
    BY <1>1 DEF At
  <2> QED
    BY <2>1, QueuedShrinks DEF PipelineInv
<1>4. Numbered'
  BY <1>1, <1>2 DEF ingress, PipelineInv, Numbered
<1>5. Queue'
  <2>1. ASSUME NEW i \in 1 .. Len(writes)
        PROVE  /\ stage'[writes[i]] \notin Early
               /\ stage'[writes[i]] = "writing" <=> i > committed + size
    <3>1. /\ writes[i] \in Numbers /\ stage[writes[i]] \notin Early
          /\ stage[writes[i]] = "writing" <=> i > committed
      BY PlacesAreNumbers DEF PipelineInv, Queue
    <3>2. committed \in Nat /\ size \in Nat /\ i \in Nat
      BY PipelineBasics, BatchPlaces DEF PipelineInv
    <3>3. InBatch(writes[i], size) <=> i > committed /\ i <= committed + size
      BY BatchPlaces
    <3>4. CASE InBatch(writes[i], size)
      BY <1>1, <3>1, <3>2, <3>3, <3>4 DEF Early
    <3>5. CASE ~InBatch(writes[i], size)
      BY <1>1, <3>1, <3>2, <3>3, <3>5
    <3> QED
      BY <3>4, <3>5
  <2>2. \A n \in Numbers : stage'[n] = "read" => ~runner.indexed
    BY <1>1 DEF PipelineInv, Queue
  <2> QED
    BY <2>1, <2>2 DEF PipelineInv, Queue
<1>6. Drawn'
  BY <1>1 DEF PipelineInv, Drawn, tickets, Turned
<1>7. Guarded'
  BY <1>1, <1>2 DEF PipelineInv, Guarded, Passed
<1>8. Turns'
  BY <1>1, <1>2, TurnsKept DEF tickets, Over
<1> QED
  BY <1>1, <1>3, <1>4, <1>5, <1>6, <1>7, <1>8

LEMMA StoreAfterIs ==
  ASSUME NEW k, NEW g, NEW a
  PROVE  <<g, a>> \in StoreAfter(k) <=>
            \/ <<g, a>> \in store
            \/ \E i \in 1 .. k : /\ SignatureOf(writes[committed + i]) = g
                                 /\ a \in tokens[writes[committed + i]]
BY DEF StoreAfter, RowsOf

\* A request that is not in the batch waits on.
LEMMA StillWaiting ==
  ASSUME PipelineInv, NEW size \in 1 .. BatchSize, committed + size <= Len(writes),
         committed' = committed + size, writes' = writes
  PROVE  \A i \in Waiting' : /\ i \in Waiting /\ ~InBatch(writes[i], size)
                             /\ writes[i] \in Numbers /\ i > committed + size
<1>1. committed \in Nat /\ size \in Nat /\ Len(writes) \in Nat
  BY PipelineBasics, BatchPlaces DEF PipelineInv
<1>2. \A i \in Waiting' : /\ i \in Waiting /\ i \in 1 .. Len(writes)
                          /\ i > committed + size
  BY <1>1 DEF Waiting
<1>3. \A i \in Waiting' : ~InBatch(writes[i], size)
  BY <1>1, <1>2, BatchPlaces
<1> QED
  BY <1>2, <1>3, PlacesAreNumbers DEF PipelineInv

LEMMA BatchFailsKeeps ==
  ASSUME PipelineInv, NEW size \in 1 .. BatchSize, BatchFails(size)
  PROVE  PipelineInv'
<1>1. /\ committed + size <= Len(writes) /\ committed' = committed + size
      /\ stage' = [n \in Numbers |->
                      IF InBatch(n, size) THEN "persistFailed" ELSE stage[n]]
      /\ tokens' = [n \in Numbers |-> IF InBatch(n, size) THEN {} ELSE tokens[n]]
      /\ UNCHANGED <<runner, ingress, assets, results, triggered, index, store, writes,
                     tickets, emitted>>
  BY DEF BatchFails
<1>2. /\ stage' \in [Numbers -> Stages]
      /\ Cardinality(At({"queued"}))' <= IngressSize
      /\ Numbered' /\ Queue' /\ Drawn' /\ Guarded' /\ Turns'
  BY <1>1, BatchTaken DEF results
<1>3. PipelineTypeOK'
  <2>1. tokens' \in [Numbers -> SUBSET Assets]
    BY <1>1, PipelineBasics DEF PipelineInv
  <2>2. /\ {tokens, assets, affected}' \subseteq [Numbers -> SUBSET Assets]
        /\ {writes, order, emitted}' \subseteq Seq(Numbers)
    BY <1>1, <2>1, PipelineBasics DEF PipelineInv, results, tickets
  <2>3. committed' \in 0 .. Len(writes')
    BY <1>1, PipelineBasics, BatchPlaces DEF PipelineInv
  <2> QED
    BY <1>1, <1>2, <2>2, <2>3 DEF ingress, results, tickets, PipelineInv, PipelineTypeOK
<1>4. Reserved'
  <2> SUFFICES ASSUME runner.indexed PROVE Reserved'
    BY <1>1 DEF Reserved
  <2>1. /\ \A m : SignatureOf(m)' = SignatureOf(m)
        /\ \A g : StoredFor(g)' = StoredFor(g)
    BY <1>1 DEF ingress, SignatureOf, StoredFor
  <2>2. \A i \in Waiting' : i \in Waiting /\ tokens'[writes[i]] = tokens[writes[i]]
    BY <1>1, StillWaiting
  <2>3. \A n \in Numbers : stage'[n] = "written" => stage[n] = "written"
    BY <1>1
  <2> QED
    BY <1>1, <2>1, <2>2, <2>3 DEF PipelineInv, Reserved, results
<1> QED
  BY <1>2, <1>3, <1>4 DEF PipelineInv

\* What is read back was reserved.
LEMMA ReadBackReserved ==
  ASSUME PipelineInv, runner.indexed, NEW size \in 1 .. BatchSize,
         committed + size <= Len(writes), NEW n \in Numbers, InBatch(n, size)
  PROVE  ReadBack(n, size) \subseteq assets[n]
<1>1. PICK p \in 1 .. size : writes[committed + p] = n
  BY DEF InBatch
<1>2. size \in Nat /\ committed \in Nat
  BY BatchPlaces, PipelineBasics DEF PipelineInv
<1>3. Place(n) = p
  <2>1. \A i \in 1 .. Len(writes) : writes[i] = n <=> i = committed + p
    BY <1>1, BatchPlaces DEF PipelineInv, Queue, Once
  <2>2. committed + p \in 1 .. Len(writes)
    BY BatchPlaces
  <2>3. (CHOOSE i \in 1 .. Len(writes) : writes[i] = n) = committed + p
    BY <2>1, <2>2
  <2>4. Place(n) = (committed + p) - committed
    BY <2>3, Zenon DEF Place
  <2>5. (committed + p) - committed = p
    BY <1>2
  <2> QED
    BY <2>4, <2>5
<1>4. committed + p \in Waiting
  BY BatchPlaces
<1>5. StoredFor(SignatureOf(n)) \subseteq assets[n]
  BY <1>1, <1>4 DEF PipelineInv, Reserved
<1>6. ASSUME NEW i \in 1 .. p, SignatureOf(writes[committed + i]) = SignatureOf(n)
      PROVE  tokens[writes[committed + i]] \subseteq assets[n]
  <2>1. i \in 1 .. size /\ committed + i <= committed + p
    BY <1>2
  <2>2. committed + i \in Waiting
    BY <2>1, BatchPlaces
  <2> QED
    BY <1>1, <1>4, <1>6, <2>1, <2>2 DEF PipelineInv, Reserved
<1> DEFINE Batch == {writes[committed + i] : i \in 1 .. size}
           Distinct == \A m, q \in Batch : SignatureOf(m) = SignatureOf(q) => m = q
<1>7. ReadBack(n, size) = {a \in Assets : <<SignatureOf(n), a>> \in
                              StoreAfter(IF Distinct THEN size ELSE Place(n))}
  BY DEF ReadBack
<1>8. ASSUME NEW a \in ReadBack(n, size) PROVE a \in assets[n]
  <2>1. CASE <<SignatureOf(n), a>> \in store
    BY <1>5, <1>7, <2>1 DEF StoredFor
  <2>2. CASE Distinct /\ <<SignatureOf(n), a>> \notin store
    <3>1. PICK i \in 1 .. size : /\ SignatureOf(writes[committed + i]) = SignatureOf(n)
                                 /\ a \in tokens[writes[committed + i]]
      BY <1>7, <2>2, StoreAfterIs
    <3>2. writes[committed + i] = n
      BY <1>1, <2>2, <3>1
    <3>3. p \in 1 .. p
      BY <1>2
    <3> QED
      BY <1>1, <1>6, <3>1, <3>2, <3>3
  <2>3. CASE ~Distinct /\ <<SignatureOf(n), a>> \notin store
    <3>1. PICK i \in 1 .. p : /\ SignatureOf(writes[committed + i]) = SignatureOf(n)
                              /\ a \in tokens[writes[committed + i]]
      BY <1>3, <1>7, <2>3, StoreAfterIs
    <3> QED
      BY <1>6, <3>1
  <2> QED
    BY <2>1, <2>2, <2>3
<1> QED
  BY <1>8

LEMMA WriteBatchKeeps ==
  ASSUME PipelineInv, NEW size \in 1 .. BatchSize, WriteBatch(size)
  PROVE  PipelineInv'
<1>1. /\ committed + size <= Len(writes) /\ committed' = committed + size
      /\ fresh' = [n \in Numbers |-> IF InBatch(n, size) THEN Inserted(n) ELSE fresh[n]]
      /\ affected' = [n \in Numbers |->
                         IF InBatch(n, size) THEN ReadBack(n, size) ELSE affected[n]]
      /\ store' = StoreAfter(size)
      /\ stage' = [n \in Numbers |-> IF InBatch(n, size) THEN "written" ELSE stage[n]]
      /\ tokens' = [n \in Numbers |-> IF InBatch(n, size) THEN {} ELSE tokens[n]]
      /\ UNCHANGED <<runner, ingress, assets, triggered, index, writes, tickets, emitted>>
  BY DEF WriteBatch
<1>2. /\ stage' \in [Numbers -> Stages]
      /\ Cardinality(At({"queued"}))' <= IngressSize
      /\ Numbered' /\ Queue' /\ Drawn' /\ Guarded' /\ Turns'
  <2>1. \A n \in Numbers : ~InBatch(n, size) => affected'[n] = affected[n]
    BY <1>1
  <2> QED
    BY <1>1, <2>1, BatchTaken
<1>3. \A n \in Numbers : InBatch(n, size) =>
         SignatureOf(n) \in Signatures /\ tokens[n] \subseteq Assets
  <2> SUFFICES ASSUME NEW n \in Numbers, InBatch(n, size)
               PROVE  SignatureOf(n) \in Signatures /\ tokens[n] \subseteq Assets
    OBVIOUS
  <2>1. stage[n] = "writing"
    BY <1>1, BatchPlaces DEF InBatch
  <2> QED
    BY <2>1, Transactions, PipelineBasics DEF PipelineInv
<1>4. PipelineTypeOK'
  <2>1. tokens' \in [Numbers -> SUBSET Assets]
    BY <1>1, PipelineBasics DEF PipelineInv
  <2>2. affected' \in [Numbers -> SUBSET Assets]
    <3>1. \A n \in Numbers : ReadBack(n, size) \subseteq Assets
      BY DEF ReadBack
    <3> QED
      BY <1>1, <3>1, PipelineBasics DEF PipelineInv
  <2>3. fresh' \in [Numbers -> SUBSET (Signatures \X Assets)]
    <3>1. ASSUME NEW n \in Numbers, InBatch(n, size)
          PROVE  Inserted(n) \subseteq Signatures \X Assets
      BY <1>3, <3>1 DEF Inserted, RowsOf
    <3>2. fresh \in [Numbers -> SUBSET (Signatures \X Assets)]
      BY DEF PipelineInv, PipelineTypeOK
    <3> QED
      BY <1>1, <3>1, <3>2
  <2>4. store' \subseteq Signatures \X Assets
    <3>1. \A i \in 1 .. size : /\ writes[committed + i] \in Numbers
                               /\ InBatch(writes[committed + i], size)
      BY <1>1, BatchPlaces DEF InBatch
    <3>2. \A i \in 1 .. size : RowsOf(writes[committed + i]) \subseteq Signatures \X Assets
      BY <1>3, <3>1 DEF RowsOf
    <3>3. store \subseteq Signatures \X Assets
      BY DEF PipelineInv, PipelineTypeOK
    <3> QED
      BY <1>1, <3>2, <3>3 DEF StoreAfter
  <2>5. /\ {tokens, assets, affected}' \subseteq [Numbers -> SUBSET Assets]
        /\ {writes, order, emitted}' \subseteq Seq(Numbers)
    BY <1>1, <2>1, <2>2, PipelineBasics DEF PipelineInv, tickets
  <2>6. committed' \in 0 .. Len(writes')
    BY <1>1, PipelineBasics, BatchPlaces DEF PipelineInv
  <2> QED
    BY <1>1, <1>2, <2>3, <2>4, <2>5, <2>6 DEF ingress, tickets, PipelineInv, PipelineTypeOK
<1>5. Reserved'
  <2> SUFFICES ASSUME runner.indexed PROVE Reserved'
    BY <1>1 DEF Reserved
  <2>1. \A m : SignatureOf(m)' = SignatureOf(m)
    BY <1>1 DEF ingress, SignatureOf
  <2>2. \A g : \A a \in StoredFor(g)' :
           \/ a \in StoredFor(g)
           \/ \E i \in 1 .. size : /\ SignatureOf(writes[committed + i]) = g
                                   /\ a \in tokens[writes[committed + i]]
    <3> SUFFICES ASSUME NEW g, NEW a \in StoredFor(g)', a \notin StoredFor(g)
                 PROVE  \E i \in 1 .. size : /\ SignatureOf(writes[committed + i]) = g
                                             /\ a \in tokens[writes[committed + i]]
      OBVIOUS
    <3>1. <<g, a>> \in StoreAfter(size) /\ <<g, a>> \notin store
      BY <1>1 DEF StoredFor
    <3> QED
      BY <3>1, StoreAfterIs
  <2>3. \A i \in 1 .. size : committed + i \in Waiting
    BY <1>1, BatchPlaces
  <2>4. \A g \in Signatures : StoredFor(g)' \subseteq index[g]
    BY <2>2, <2>3 DEF PipelineInv, Reserved
  <2>5. \A i \in Waiting' : /\ i \in Waiting /\ tokens'[writes[i]] = tokens[writes[i]]
                            /\ i > committed + size
    BY <1>1, StillWaiting
  <2>6. ASSUME NEW i \in Waiting'
        PROVE  StoredFor(SignatureOf(writes[i]))' \subseteq assets[writes[i]]
    <3>1. i \in Waiting
      BY <2>5
    <3>2. StoredFor(SignatureOf(writes[i])) \subseteq assets[writes[i]]
      BY <3>1 DEF PipelineInv, Reserved
    <3>3. ASSUME NEW k \in 1 .. size,
                 SignatureOf(writes[committed + k]) = SignatureOf(writes[i])
          PROVE  tokens[writes[committed + k]] \subseteq assets[writes[i]]
      <4>1. committed + k <= i
        BY SMTT(30), <2>5, <1>1, PipelineBasics, BatchPlaces DEF Waiting, PipelineInv
      <4> QED
        BY <2>3, <3>1, <3>3, <4>1 DEF PipelineInv, Reserved
    <3> QED
      BY <1>1, <2>1, <2>2, <3>2, <3>3
  <2>7. \A n \in Numbers : stage'[n] = "written" => affected'[n] \subseteq assets[n]
    <3> SUFFICES ASSUME NEW n \in Numbers, stage'[n] = "written"
                 PROVE  affected'[n] \subseteq assets[n]
      OBVIOUS
    <3>1. CASE InBatch(n, size)
      BY <1>1, <3>1, ReadBackReserved
    <3>2. CASE ~InBatch(n, size)
      BY <1>1, <3>2 DEF PipelineInv, Reserved
    <3> QED
      BY <3>1, <3>2
  <2>8. UNCHANGED <<runner, index, writes, assets>>
    BY <1>1 DEF ingress
  <2>9. (\A i \in Waiting : /\ tokens[writes[i]] \subseteq index[SignatureOf(writes[i])]
                            /\ StoredFor(SignatureOf(writes[i])) \subseteq assets[writes[i]])'
    BY <2>1, <2>5, <2>6, <2>8 DEF PipelineInv, Reserved
  <2>10. (\A i, j \in Waiting :
            i <= j /\ SignatureOf(writes[i]) = SignatureOf(writes[j]) =>
              tokens[writes[i]] \subseteq assets[writes[j]])'
    BY <2>1, <2>5, <2>8 DEF PipelineInv, Reserved
  <2> QED
    BY <2>4, <2>7, <2>8, <2>9, <2>10 DEF Reserved
<1> QED
  BY <1>2, <1>4, <1>5 DEF PipelineInv

-----------------------------------------------------------------------------
(* The coordinator.                                                         *)

\* From any number on, a finite set has a first gap, no further away than the
\* set has elements.
LEMMA FirstGap ==
  ASSUME NEW T \in SUBSET Nat, IsFiniteSet(T), NEW next \in Nat
  PROVE  \E e \in next .. next + Cardinality(T) : next .. e - 1 \subseteq T /\ e \notin T
<1> DEFINE S == {e \in Nat : e >= next /\ e \notin T}
<1>1. Cardinality(T) \in Nat
  BY FS_CardinalityType
<1>2. S # {}
  <2> SUFFICES ASSUME S = {} PROVE FALSE
    OBVIOUS
  <2>1. PICK b \in Int : b = next + Cardinality(T)
    BY <1>1
  <2> DEFINE I == next .. b
  <2>2. I \subseteq T
    OBVIOUS
  <2>3. Cardinality(I) = Cardinality(T) + 1
    <3>1. next \in Int /\ ~(next > b) /\ b - next + 1 = Cardinality(T) + 1
      BY <1>1, <2>1
    <3>2. Cardinality(I) = IF next > b THEN 0 ELSE b - next + 1
      BY <2>1, <3>1, FS_Interval
    <3> QED
      BY <3>1, <3>2
  <2> HIDE DEF I
  <2>4. Cardinality(I) <= Cardinality(T)
    BY <2>2, FS_Subset
  <2> QED
    BY <1>1, <2>3, <2>4
<1>3. PICK e \in S : \A f \in S : e <= f
  <2>1. S \in SUBSET Nat
    OBVIOUS
  <2> HIDE DEF S
  <2> QED
    BY <1>2, <2>1, MinimumExists
<1>4. next .. e - 1 \subseteq T
  <2> SUFFICES ASSUME NEW f \in next .. e - 1, f \notin T PROVE FALSE
    OBVIOUS
  <2>1. f \in S
    OBVIOUS
  <2> QED
    BY <1>3, <2>1
<1>5. e - next <= Cardinality(T)
  <2> DEFINE I == next .. e - 1
  <2>1. next \in Int /\ e - 1 \in Int /\ e >= next
    OBVIOUS
  <2>2. Cardinality(I) = IF next > e - 1 THEN 0 ELSE e - 1 - next + 1
    BY <2>1, FS_Interval
  <2>3. I \subseteq T
    BY <1>4
  <2> HIDE DEF I
  <2>4. Cardinality(I) <= Cardinality(T)
    BY <2>3, FS_Subset
  <2> QED
    BY <2>1, <2>2, <2>4
<1> QED
  BY <1>1, <1>4, <1>5

\* The numbers that take their tickets with the next hint: none of them has
\* one, and in global_prefix mode they go on where the tickets end.
LEMMA AdmissibleIs ==
  ASSUME PipelineInv, hinted < Len(writes), NEW s, s = Admissible(writes[hinted + 1])
  PROVE  /\ s \in Seq(Numbers)
         /\ Once(s)
         /\ \A i \in 1 .. Len(s) : /\ \E k \in 1 .. hinted + 1 : s[i] = writes[k]
                                   /\ s[i] \notin Elems(order)
         /\ runner.globalPrefix => \A i \in 1 .. Len(s) : s[i] = Len(order) + i - 1
<1> DEFINE n == writes[hinted + 1]
<1>1. hinted \in Nat /\ Len(writes) \in Nat /\ hinted + 1 \in 1 .. Len(writes)
  BY PipelineBasics DEF PipelineInv
<1>2. n \in Numbers
  BY <1>1, PlacesAreNumbers DEF PipelineInv
<1>3. n \notin Elems(order)
  <2> SUFFICES ASSUME NEW i \in 1 .. Len(order), order[i] = n PROVE FALSE
    BY DEF Elems
  <2>1. PICK k \in 1 .. hinted : order[i] = writes[k]
    BY DEF PipelineInv, Drawn
  <2>2. k \in 1 .. Len(writes) /\ k # hinted + 1
    BY <1>1
  <2> QED
    BY <1>1, <2>1, <2>2 DEF PipelineInv, Queue, Once
<1>4. CASE ~runner.globalPrefix
  <2>1. s = <<n>>
    BY <1>4 DEF Admissible
  <2>2. s \in Seq(Numbers) /\ Len(s) = 1 /\ s[1] = n
    BY <1>2, <2>1
  <2> QED
    BY <1>1, <1>3, <1>4, <2>2 DEF Once
<1>5. CASE runner.globalPrefix
  <2> DEFINE T == Pending \cup {n}
             next == Len(order)
             Gap(e) == next .. e - 1 \subseteq T /\ e \notin T
             end == CHOOSE e \in next .. next + Cardinality(T) : Gap(e)
  <2>1. /\ T \subseteq Numbers
        /\ \A m \in T : m \notin Elems(order) /\ \E k \in 1 .. hinted + 1 : m = writes[k]
    <3>1. ASSUME NEW m \in Pending
          PROVE  /\ m \in Numbers /\ m \notin Elems(order)
                 /\ \E k \in 1 .. hinted + 1 : m = writes[k]
      <4>1. PICK k \in 1 .. hinted : m = writes[k]
        BY DEF Pending
      <4>2. k \in 1 .. Len(writes) /\ k \in 1 .. hinted + 1
        BY <1>1
      <4>3. m \notin Elems(order)
        BY TicketedIsElems DEF Pending, PipelineInv
      <4> QED
        BY <4>1, <4>2, <4>3, PlacesAreNumbers DEF PipelineInv
    <3>2. hinted + 1 \in 1 .. hinted + 1
      BY <1>1
    <3> QED
      BY <1>2, <1>3, <3>1, <3>2
  <2>2. next \in Nat /\ Numbers \subseteq Nat /\ IsFiniteSet(Numbers)
    BY PipelineBasics DEF PipelineInv
  <2>3. s = [i \in 1 .. end - next |-> next + i - 1]
    BY <1>5 DEF Admissible
  <2> HIDE DEF T, n, next
  <2>4. IsFiniteSet(T) /\ T \in SUBSET Nat /\ Cardinality(T) \in Nat
    BY <2>1, <2>2, FS_Subset, FS_CardinalityType
  <2>5. \E e \in next .. next + Cardinality(T) : Gap(e)
    BY <2>2, <2>4, FirstGap
  <2>6. end \in next .. next + Cardinality(T) /\ Gap(end)
    <3> HIDE DEF Gap
    <3> QED
      BY <2>5
  <2> HIDE DEF end
  <2>7. end - next \in Nat /\ end \in Nat
    BY <2>2, <2>4, <2>6
  <2>8. \A i \in 1 .. end - next : next + i - 1 \in T
    BY <2>2, <2>6, <2>7
  <2>9. s \in Seq(Numbers) /\ Len(s) = end - next
    BY <2>1, <2>3, <2>7, <2>8
  <2>10. \A i \in 1 .. Len(s) : s[i] = next + i - 1
    BY <2>3, <2>9
  <2>11. Once(s)
    BY <2>2, <2>7, <2>9, <2>10 DEF Once
  <2> QED
    BY <2>1, <2>8, <2>9, <2>10, <2>11 DEF next
<1> QED
  BY <1>4, <1>5

LEMMA CoordinateKeeps ==
  ASSUME PipelineInv, Coordinate
  PROVE  PipelineInv'
<1> DEFINE s == Admissible(writes[hinted + 1])
<1>1. /\ hinted < Len(writes) /\ hinted' = hinted + 1
      /\ order' = order \o s
      /\ MaybeSubmit(Range(s), stage)
      /\ UNCHANGED <<runner, ingress, tokens, assets, results, triggered, index, database,
                     emitted>>
  BY DEF Coordinate, Admit
<1> HIDE DEF s
<1>2. /\ s \in Seq(Numbers) /\ Once(s)
      /\ \A i \in 1 .. Len(s) : /\ \E k \in 1 .. hinted + 1 : s[i] = writes[k]
                                /\ s[i] \notin Elems(order)
      /\ runner.globalPrefix => \A i \in 1 .. Len(s) : s[i] = Len(order) + i - 1
  BY <1>1, AdmissibleIs DEF s
<1>3. order \in Seq(Numbers) /\ Len(order) \in Nat /\ Len(s) \in Nat
  BY <1>2, PipelineBasics DEF PipelineInv
<1>4. /\ order' \in Seq(Numbers) /\ Len(order') = Len(order) + Len(s)
      /\ \A i \in 1 .. Len(order) : order'[i] = order[i]
      /\ \A i \in 1 .. Len(s) : order'[Len(order) + i] = s[i]
  BY <1>1, <1>2, <1>3
<1>5. ASSUME NEW i \in 1 .. Len(order')
      PROVE  \/ i \in 1 .. Len(order) /\ order'[i] = order[i]
             \/ /\ i - Len(order) \in 1 .. Len(s) /\ order'[i] = s[i - Len(order)]
                /\ i > Len(order) /\ order'[i] \notin Elems(order)
  <2>1. CASE i <= Len(order)
    BY <1>3, <1>4, <2>1
  <2>2. CASE i > Len(order)
    <3>1. i - Len(order) \in 1 .. Len(s) /\ i = Len(order) + (i - Len(order))
      BY <1>3, <1>4, <2>2
    <3> QED
      BY <1>2, <1>4, <2>2, <3>1
  <2> QED
    BY <1>3, <2>1, <2>2
<1>6. Elems(order') = Elems(order) \cup Elems(s)
  <2>1. ASSUME NEW m \in Elems(order') PROVE m \in Elems(order) \cup Elems(s)
    <3>1. PICK i \in 1 .. Len(order') : m = order'[i]
      BY DEF Elems
    <3> QED
      BY <1>5, <3>1 DEF Elems
  <2>2. ASSUME NEW m \in Elems(order) PROVE m \in Elems(order')
    <3>1. PICK i \in 1 .. Len(order) : m = order[i]
      BY DEF Elems
    <3>2. i \in 1 .. Len(order')
      BY <1>3, <1>4
    <3> QED
      BY <1>4, <3>1, <3>2 DEF Elems
  <2>3. ASSUME NEW m \in Elems(s) PROVE m \in Elems(order')
    <3>1. PICK i \in 1 .. Len(s) : m = s[i]
      BY DEF Elems
    <3>2. Len(order) + i \in 1 .. Len(order')
      BY <1>3, <1>4
    <3> QED
      BY <1>4, <3>1, <3>2 DEF Elems
  <2> QED
    BY <2>1, <2>2, <2>3
<1>7. /\ Range(s) = Elems(s) /\ Elems(s) \subseteq Numbers
      /\ Elems(s) \cap Elems(order) = {}
  <2>1. DOMAIN s = 1 .. Len(s) /\ \A i \in 1 .. Len(s) : s[i] \in Numbers
    BY <1>2
  <2> QED
    BY <1>2, <2>1 DEF Range, Elems
<1>8. ASSUME NEW m \in Numbers
      PROVE  \/ stage'[m] = stage[m]
             \/ /\ m \in Elems(s) /\ stage[m] \in {"prepared", "noEvidence"}
                /\ stage'[m] \in {"processed", "submitted"}
             \/ stage[m] = "submitted" /\ stage'[m] = "demoted"
  BY <1>1, <1>7, Settled
<1>9. /\ stage' \in [Numbers -> Stages]
      /\ Cardinality(At({"queued"}))' <= IngressSize
  <2>1. stage' = [n \in Numbers |-> stage'[n]]
    BY <1>1, Settled
  <2>2. \A m \in Numbers : stage'[m] \in Stages
    BY <1>8 DEF PipelineInv, PipelineTypeOK, Stages
  <2>3. stage' \in [Numbers -> Stages]
    BY <2>1, <2>2
  <2>4. At({"queued"})' \subseteq At({"queued"})
    BY <1>8 DEF At
  <2> QED
    BY <2>3, <2>4, QueuedShrinks DEF PipelineInv
<1>10. PipelineTypeOK'
  <2>1. /\ {tokens, assets, affected}' \subseteq [Numbers -> SUBSET Assets]
        /\ {writes, order, emitted}' \subseteq Seq(Numbers)
    BY <1>1, <1>4, PipelineBasics DEF PipelineInv, results, database
  <2>2. hinted' \in 0 .. Len(writes')
    BY <1>1, PipelineBasics DEF PipelineInv, database
  <2> QED
    BY <1>1, <1>9, <2>1, <2>2 DEF ingress, results, database, PipelineInv, PipelineTypeOK
<1>11. Numbered'
  BY <1>1, <1>8 DEF ingress, PipelineInv, Numbered
<1>12. Queue'
  <2>1. ASSUME NEW i \in 1 .. Len(writes)
        PROVE  /\ stage'[writes[i]] \notin Early
               /\ stage'[writes[i]] = "writing" <=> i > committed
    <3>1. /\ writes[i] \in Numbers /\ stage[writes[i]] \notin Early
          /\ stage[writes[i]] = "writing" <=> i > committed
      BY PlacesAreNumbers DEF PipelineInv, Queue
    <3> QED
      BY <1>8, <3>1 DEF Early
  <2>2. \A m \in Numbers : stage'[m] = "read" => ~runner.indexed
    BY <1>8 DEF PipelineInv, Queue
  <2> QED
    BY <1>1, <2>1, <2>2 DEF database, PipelineInv, Queue
<1>13. Drawn'
  <2>1. Once(order')
    <3> SUFFICES ASSUME NEW i \in 1 .. Len(order'), NEW j \in 1 .. Len(order'),
                        order'[i] = order'[j]
                 PROVE  i = j
      BY DEF Once
    <3>1. CASE order'[i] \in Elems(order)
      BY <1>5, <3>1 DEF PipelineInv, Drawn, Once
    <3>2. CASE order'[i] \notin Elems(order)
      <4>1. /\ i - Len(order) \in 1 .. Len(s) /\ order'[i] = s[i - Len(order)]
            /\ j - Len(order) \in 1 .. Len(s) /\ order'[j] = s[j - Len(order)]
        BY <1>5, <3>2 DEF Elems
      <4>2. i - Len(order) = j - Len(order)
        BY <1>2, <4>1 DEF Once
      <4> QED
        BY <1>3, <4>2
    <3> QED
      BY <3>1, <3>2
  <2>2. \A i \in 1 .. Len(order') : \E k \in 1 .. hinted + 1 : order'[i] = writes[k]
    <3> SUFFICES ASSUME NEW i \in 1 .. Len(order')
                 PROVE  \E k \in 1 .. hinted + 1 : order'[i] = writes[k]
      OBVIOUS
    <3>1. hinted \in Nat
      BY PipelineBasics DEF PipelineInv
    <3>2. CASE i \in 1 .. Len(order) /\ order'[i] = order[i]
      <4>1. PICK k \in 1 .. hinted : order[i] = writes[k]
        BY <3>2 DEF PipelineInv, Drawn
      <4> QED
        BY <3>1, <3>2, <4>1
    <3>3. CASE i - Len(order) \in 1 .. Len(s) /\ order'[i] = s[i - Len(order)]
      BY <1>2, <3>3
    <3> QED
      BY <1>5, <3>2, <3>3
  <2>3. ASSUME runner.globalPrefix, NEW i \in 1 .. Len(order') PROVE order'[i] = i - 1
    <3>1. CASE i \in 1 .. Len(order) /\ order'[i] = order[i]
      BY <2>3, <3>1 DEF PipelineInv, Drawn
    <3>2. CASE i - Len(order) \in 1 .. Len(s) /\ order'[i] = s[i - Len(order)]
      <4>1. s[i - Len(order)] = Len(order) + (i - Len(order)) - 1
        BY <1>2, <2>3, <3>2
      <4> QED
        BY <1>3, <3>2, <4>1
    <3> QED
      BY <1>5, <3>1, <3>2
  <2>4. \A m \in Numbers : stage'[m] \in Turned => m \in Elems(order')
    BY <1>6, <1>8 DEF PipelineInv, Drawn, Turned
  <2> QED
    BY <1>1, <2>1, <2>2, <2>3, <2>4 DEF Drawn, database
<1>14. Guarded'
  BY <1>1, <1>8 DEF results, PipelineInv, Guarded, Passed
<1>15. Reserved'
  <2>1. \A m \in Numbers : SignatureOf(m)' = SignatureOf(m)
    BY <1>1 DEF ingress, SignatureOf
  <2> QED
    BY <1>1, <1>8, <2>1, ReservedKept DEF results, database
<1>16. Turns'
  <2>1. /\ \A i \in 1 .. Len(order') : order'[i] \in Numbers
        /\ \A i \in 1 .. Len(emitted) : emitted[i] \in Numbers /\ emitted[i] \in Elems(order)
    <3>1. \A i \in 1 .. Len(order') : order'[i] \in Numbers
      BY <1>4
    <3>2. \A i \in 1 .. Len(emitted) : emitted[i] \in Numbers
      BY PlacesAreNumbers DEF PipelineInv
    <3>3. \A i \in 1 .. Len(emitted) : emitted[i] \in Elems(order)
      BY <3>2 DEF PipelineInv, Turns, Drawn, Turned
    <3> QED
      BY <3>1, <3>2, <3>3
  <2>2. \A i \in 1 .. Len(emitted) : stage'[emitted[i]] = "processed"
    BY <1>8, <2>1 DEF PipelineInv, Turns
  <2>3. ASSUME NEW i \in 1 .. Len(order'), NEW j \in 1 .. Len(order'), i < j,
               Shared(order'[i], order'[j]),
               stage'[order'[j]] = "finalizing" \/ order'[j] \in Elems(emitted)
        PROVE  stage'[order'[i]] \in Over
    <3>1. stage[order'[j]] = "finalizing" \/ order'[j] \in Elems(emitted)
      BY <1>8, <2>1, <2>3
    <3>2. order'[j] \in Elems(order)
      BY <2>1, <3>1 DEF PipelineInv, Drawn, Turned, Elems
    <3>3. j \in 1 .. Len(order) /\ order'[j] = order[j]
      BY <1>5, <3>2
    <3>4. i \in 1 .. Len(order) /\ order'[i] = order[i]
      BY <1>3, <1>4, <2>3, <3>3
    <3>5. stage[order[i]] \in Over
      BY <2>3, <3>1, <3>3, <3>4 DEF PipelineInv, Turns
    <3> QED
      BY <1>8, <2>1, <3>4, <3>5 DEF Over
  <2>4. ASSUME NEW i \in 1 .. Len(emitted), NEW j \in 1 .. Len(emitted),
               NEW k \in 1 .. Len(order'), NEW l \in 1 .. Len(order'),
               i < j, order'[k] = emitted[i], order'[l] = emitted[j],
               Shared(order'[k], order'[l])
        PROVE  k < l
    <3>1. /\ k \in 1 .. Len(order) /\ order'[k] = order[k]
          /\ l \in 1 .. Len(order) /\ order'[l] = order[l]
      BY <1>5, <2>1, <2>4
    <3> QED
      BY <2>4, <3>1 DEF PipelineInv, Turns
  <2>5. emitted' = emitted /\ \A m, q : Shared(m, q)' = Shared(m, q)
    BY <1>1 DEF Shared
  <2> QED
    BY <2>2, <2>3, <2>4, <2>5 DEF Turns
<1> QED
  BY <1>10, <1>11, <1>12, <1>13, <1>14, <1>15, <1>16 DEF PipelineInv

-----------------------------------------------------------------------------

LEMMA PipelineNextInvariant ==
  ASSUME PipelineInv, [PipelineNext]_pipelineVars
  PROVE  PipelineInv'
<1>1. CASE Receive
  BY <1>1, ReceiveKeeps
<1>2. ASSUME NEW n \in Numbers, TaskStep(n) PROVE PipelineInv'
  BY <1>2, TakeKeeps, NormalizeIndexedKeeps, NormalizeByReadKeeps, EnqueueWriteKeeps,
     TakeResultKeeps, PrepareKeeps, PreparedKeeps, StartFinalizeKeeps, FinalizeKeeps,
     AuditKeeps DEF TaskStep
<1>3. ASSUME NEW size \in 1 .. BatchSize, WriteBatch(size) \/ BatchFails(size)
      PROVE  PipelineInv'
  BY <1>3, WriteBatchKeeps, BatchFailsKeeps
<1>4. CASE Coordinate
  BY <1>4, CoordinateKeeps
<1>5. ASSUME NEW n \in Numbers, TaskFails(n) PROVE PipelineInv'
  BY <1>5, TaskFailsKeeps
<1>6. CASE UNCHANGED pipelineVars
  <2>1. UNCHANGED <<runner, arrived, signature, stage, tokens, assets, fresh, affected,
                    triggered, index, store, writes, committed, hinted, order, emitted>>
    BY <1>6 DEF pipelineVars, ingress, results, database, tickets
  <2>2. At({"queued"})' = At({"queued"})
    BY <2>1 DEF At
  <2>3. PipelineTypeOK'
    BY <2>1, <2>2 DEF PipelineInv, PipelineTypeOK
  <2>4. Numbered' /\ Queue' /\ Drawn' /\ Guarded'
    BY <2>1 DEF PipelineInv, Numbered, Queue, Drawn, Guarded
  <2>5. Turns'
    BY <2>1, TurnsKept DEF PipelineInv, PipelineTypeOK
  <2>6. Reserved'
    BY <2>1, ReservedKept DEF SignatureOf
  <2> QED
    BY <2>3, <2>4, <2>5, <2>6 DEF PipelineInv
<1> QED
  BY <1>1, <1>2, <1>3, <1>4, <1>5, <1>6 DEF PipelineNext, Work, Errors

THEOREM PipelineInvariance == PipelineSpec => []PipelineInv
<1>1. PipelineInv /\ [PipelineNext]_pipelineVars => PipelineInv'
  BY PipelineNextInvariant
<1> QED
  BY PipelineInitInvariant, <1>1, PTL DEF PipelineSpec

\* The variables of the pipeline keep their types.
THEOREM PipelineTypeCorrect == PipelineSpec => []PipelineTypeOK
<1>1. PipelineInv => PipelineTypeOK
  BY DEF PipelineInv
<1> QED
  BY PipelineInvariance, <1>1, PTL

\* With the index, the superset guard never stops a run, whatever deliveries of
\* a transaction are on their way and however the writer cuts its batches.
THEOREM ReservationIsEnough == PipelineSpec => []ReservationCovers
<1>1. PipelineInv => ReservationCovers
  BY DEF PipelineInv, Reserved, ReservationCovers, SupersetMissing, At
<1> QED
  BY PipelineInvariance, <1>1, PTL

\* Two results that share a token are in the order of their tickets.
LEMMA EmittedInOrder ==
  ASSUME PipelineInv, NEW m \in Numbers, NEW n \in Numbers, Earlier(m, n),
         affected[m] \cap affected[n] # {}
  PROVE  \E k, l \in 1 .. Len(order) : k < l /\ order[k] = m /\ order[l] = n
<1>1. PICK i, j \in 1 .. Len(emitted) : i < j /\ emitted[i] = m /\ emitted[j] = n
  BY DEF Earlier
<1>2. stage[m] = "processed" /\ stage[n] = "processed"
  BY <1>1 DEF PipelineInv, Turns
<1>3. m \in Elems(order) /\ n \in Elems(order)
  BY <1>2 DEF PipelineInv, Drawn, Turned
<1>4. PICK k, l \in 1 .. Len(order) : order[k] = m /\ order[l] = n
  BY <1>3 DEF Elems
<1>5. Shared(m, n)
  <2>1. affected[m] \subseteq assets[m] /\ affected[n] \subseteq assets[n]
    BY <1>2 DEF PipelineInv, Guarded, Passed
  <2> QED
    BY <2>1 DEF Shared
<1>6. k < l
  BY <1>1, <1>4, <1>5 DEF PipelineInv, Turns
<1> QED
  BY <1>4, <1>6

\* Notifications whose persisted results share a token assign their triggers to
\* episodes in the order of their tickets, also when others are elided or
\* demoted as continuations in between.
THEOREM CommitsFollowTickets == PipelineSpec => []ResultsInTicketOrder
<1>1. ASSUME PipelineInv, NEW m \in Numbers, NEW n \in Numbers, Earlier(m, n),
             affected[m] \cap affected[n] # {}
      PROVE  TicketOf(m) < TicketOf(n)
  <2>1. PICK k, l \in 1 .. Len(order) : k < l /\ order[k] = m /\ order[l] = n
    BY <1>1, EmittedInOrder
  <2>2. TicketOf(m) = k - 1 /\ TicketOf(n) = l - 1
    BY <1>1, <2>1, TicketIsPlace
  <2> QED
    BY <1>1, <2>1, <2>2, PipelineBasics DEF PipelineInv
<1>2. PipelineInv => ResultsInTicketOrder
  BY <1>1 DEF ResultsInTicketOrder
<1> QED
  BY PipelineInvariance, <1>2, PTL

\* In global_prefix mode the tickets are the numbers, so the assignments follow
\* the order in which the notifications came.
THEOREM CommitsFollowIngress == PipelineSpec => []IngressOrderKept
<1>1. ASSUME PipelineInv, runner.globalPrefix, NEW m \in Numbers, NEW n \in Numbers,
             Earlier(m, n), affected[m] \cap affected[n] # {}
      PROVE  m < n
  <2>1. PICK k, l \in 1 .. Len(order) : k < l /\ order[k] = m /\ order[l] = n
    BY <1>1, EmittedInOrder
  <2>2. m = k - 1 /\ n = l - 1
    BY <1>1, <2>1 DEF PipelineInv, Drawn
  <2> QED
    BY <1>1, <2>1, <2>2, PipelineBasics DEF PipelineInv
<1>2. PipelineInv => IngressOrderKept
  BY <1>1 DEF IngressOrderKept
<1> QED
  BY PipelineInvariance, <1>2, PTL
=============================================================================
