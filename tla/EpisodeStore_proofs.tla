------------------------- MODULE EpisodeStore_proofs -------------------------
(* What EpisodeStore guarantees for any keys, tokens, window, clock and number
   of notifications: one open episode for each token, whatever the order and
   the retries, and a continuation writer that is never given a record that
   the store would refuse. *)
EXTENDS EpisodeStore, SharedLemmas

Records == [job : Jobs, episode : Keys]

Plans == [does : {"reuse", "join", "suppress", "open"}, episode : Keys]

\* The tables are functions on stored keys.
Shapes ==
    /\ TypeOK
    /\ opened \in [DOMAIN opened -> 0 .. MaxTime]
    /\ triggers \in [DOMAIN triggers -> Keys]
    /\ late \in [DOMAIN late -> Keys]
    /\ plan \in [Jobs -> Plans \cup {NoPlan}]
    /\ queue \in Seq(Records \cup {Sentinel})
    /\ batch \in Seq(Records)

\* A job that was sent to the loop finds its window there and goes no further.
OnLoop ==
    /\ \A j \in inline : pc[j] \in {"inline", "reported", "raised"}
    /\ \A j \in Jobs : pc[j] = "inline" => j \in inline /\ Known(j) # {}

\* The lane locks exclude each other.
Locked ==
    \A i, j \in Jobs : i # j /\ InLane(i) /\ InLane(j) => Token(i) # Token(j)

\* Every row of a trigger has its episode, of its token, and every episode the
\* row of the trigger that opened it.
Rows ==
    /\ cache \subseteq DOMAIN opened
    /\ DOMAIN opened \subseteq DOMAIN triggers
    /\ \A k \in DOMAIN triggers :
        triggers[k] \in DOMAIN opened /\ TokenOf[triggers[k]] = TokenOf[k]
    /\ \A k \in DOMAIN late :
        late[k] \in DOMAIN opened /\ TokenOf[late[k]] = TokenOf[k]

\* What the SELECTs found still holds when the INSERTs come.
Stands(j) ==
    /\ plan[j] \in Plans
    /\ TokenOf[plan[j].episode] = Token(j)
    /\ plan[j].does # "open" => plan[j].episode \in DOMAIN opened
    /\ plan[j].does \in {"open", "join"} => key[j] \notin DOMAIN triggers
    /\ plan[j].does = "open" =>
        plan[j].episode = key[j] /\ Current(j) = {} /\ Later(j) = {}

PlansStand ==
    \A j \in Jobs :
        /\ pc[j] = "writing" => Stands(j)
        /\ pc[j] = "remembering" => /\ plan[j] \in Plans
                                    /\ plan[j].episode \in DOMAIN opened

\* Who is between its SELECTs and its commit was admitted, or nothing else
\* writes any more.
Admitted ==
    \A j \in Jobs : pc[j] \in {"reading", "writing"} => gate = j \/ wpc = "stopped"

\* Only a job that has arrived is handed to the writer.
Handed ==
    \A r \in Range(queue) \cup Range(batch) : r # Sentinel => pc[r.job] # "idle"

IInv == /\ Shapes /\ OnLoop /\ Locked /\ Rows /\ PlansStand /\ Admitted
        /\ WindowsDisjoint /\ ContinuationsFit /\ Handed

-----------------------------------------------------------------------------
(* What the helpers return.                                                *)

\* The values of a table are among its values.
LEMMA RangeWithin ==
  ASSUME NEW V, NEW f, f \in [DOMAIN f -> V]
  PROVE  Range(f) \subseteq V
BY DEF Range

LEMMA RangeIsElems ==
  ASSUME NEW X, NEW s \in Seq(X)
  PROVE  Range(s) = Elems(s)
<1>1. DOMAIN s = 1 .. Len(s)
  OBVIOUS
<1> QED
  BY <1>1 DEF Range, Elems

LEMMA AppendRange ==
  ASSUME NEW X, NEW s \in Seq(X), NEW r \in X
  PROVE  Append(s, r) \in Seq(X) /\ Range(Append(s, r)) = Range(s) \cup {r}
<1>1. Append(s, r) \in Seq(X) /\ Elems(Append(s, r)) = Elems(s) \cup {r}
  BY AppendElems
<1>2. Range(s) = Elems(s) /\ Range(Append(s, r)) = Elems(Append(s, r))
  BY <1>1, RangeIsElems
<1> QED
  BY <1>1, <1>2

LEMMA TailRange ==
  ASSUME NEW X, NEW s \in Seq(X), s # <<>>
  PROVE  /\ Tail(s) \in Seq(X) /\ Head(s) \in X /\ Head(s) \in Range(s)
         /\ Range(Tail(s)) \subseteq Range(s)
<1>1. /\ Tail(s) \in Seq(X) /\ Head(s) \in Elems(s)
      /\ Elems(s) = Elems(Tail(s)) \cup {Head(s)}
  BY TailElems
<1>2. Range(s) = Elems(s) /\ Range(Tail(s)) = Elems(Tail(s))
  BY <1>1, RangeIsElems
<1> QED
  BY <1>1, <1>2

\* ORDER BY ... LIMIT 1 returns one of the rows that there are.
LEMMA LatestIsOne ==
  ASSUME opened \in [DOMAIN opened -> 0 .. MaxTime],
         NEW E \in SUBSET DOMAIN opened, E # {}
  PROVE  Latest(E) \in E
<1> DEFINE S == {opened[e] : e \in E}
<1>1. MaxTime \in Nat
  BY EpisodeAssumption
<1>2. S \in SUBSET (0 .. MaxTime) /\ S # {}
  OBVIOUS
<1>3. PICK n \in S : \A m \in S : m <= n
  <2> HIDE DEF S
  <2> QED
    BY <1>1, <1>2, MaximumExists
<1>4. \E e \in E : \A f \in E : opened[f] <= opened[e]
  BY <1>3
<1> QED
  BY <1>4 DEF Latest

LEMMA EarliestIsOne ==
  ASSUME opened \in [DOMAIN opened -> 0 .. MaxTime],
         NEW E \in SUBSET DOMAIN opened, E # {}
  PROVE  Earliest(E) \in E
<1> DEFINE S == {opened[e] : e \in E}
<1>1. S \in SUBSET Nat /\ S # {}
  BY EpisodeAssumption
<1>2. PICK n \in S : \A m \in S : n <= m
  <2> HIDE DEF S
  <2> QED
    BY <1>1, MinimumExists
<1>3. \E e \in E : \A f \in E : opened[e] <= opened[f]
  BY <1>2
<1> QED
  BY <1>3 DEF Earliest

\* The oldest record of a batch that carries a key exists, if one does.
LEMMA FirstWithKey ==
  ASSUME batch \in Seq(Records), NEW k \in {key[r.job] : r \in Range(batch)}
  PROVE  /\ FirstWith(k) \in 1 .. Len(batch)
         /\ key[batch[FirstWith(k)].job] = k
<1> DEFINE S == {i \in 1 .. Len(batch) : key[batch[i].job] = k}
<1>1. DOMAIN batch = 1 .. Len(batch) /\ Len(batch) \in Nat
  OBVIOUS
<1>2. S \in SUBSET Nat /\ S # {}
  BY <1>1 DEF Range
<1>3. PICK n \in S : \A m \in S : n <= m
  <2> HIDE DEF S
  <2> QED
    BY <1>2, MinimumExists
<1>4. n \in DOMAIN batch /\ key[batch[n].job] = k
  BY <1>1
<1>5. \A h \in 1 .. (n - 1) : key[batch[h].job] # k
  BY <1>1, <1>3
<1> QED
  BY <1>1, <1>4, <1>5 DEF FirstWith

-----------------------------------------------------------------------------
(* The inductive invariant.                                                *)

LEMMA InitInvariant ==
  Init => IInv
<1> SUFFICES ASSUME Init PROVE IInv
  OBVIOUS
<1>1. DOMAIN opened = {} /\ DOMAIN triggers = {} /\ DOMAIN late = {}
  BY DEF Init
<1>2. Range(opened) = {} /\ Range(triggers) = {} /\ Range(late) = {}
      /\ Range(queue) = {} /\ Range(batch) = {}
  BY <1>1 DEF Init, Range
<1>3. key \in [Jobs -> Keys]
  BY EpisodeAssumption DEF Init
<1>4. TypeOK
  <2>1. pc \in [Jobs -> {"idle"}] /\ at \in [Jobs -> {0}] /\ tries \in [Jobs -> {0}]
    BY DEF Init
  <2>2. 0 \in 0 .. MaxTime /\ 0 \in 0 .. Retries /\ 0 \in 0 .. MaxFaults
    BY EpisodeAssumption
  <2>3. /\ pc \in [Jobs -> {"idle", "prepared", "inline", "queued", "starting",
                        "locked", "returned", "reported", "raised"} \cup Assigning]
        /\ at \in [Jobs -> 0 .. MaxTime] /\ tries \in [Jobs -> 0 .. Retries]
    BY <2>1, <2>2
  <2> QED
    BY <1>1, <1>2, <1>3, <2>2, <2>3 DEF Init, TypeOK
<1>5. Shapes
  BY <1>1, <1>4 DEF Init, Shapes
<1>6. OnLoop /\ Locked /\ PlansStand /\ Admitted
  BY DEF Init, OnLoop, Locked, InLane, Assigning, PlansStand, Admitted
<1>7. Rows /\ WindowsDisjoint
  BY <1>1 DEF Init, Rows, WindowsDisjoint
<1>8. ContinuationsFit /\ Handed
  BY <1>2 DEF ContinuationsFit, Handed
<1> QED
  BY <1>5, <1>6, <1>7, <1>8 DEF IInv

\* What is known, found and in order stays so while the tables and the jobs stay
\* as they are, wherever the jobs are.
LEMMA SameTables ==
  ASSUME IInv, UNCHANGED <<key, at, storeVars, cache>>
  PROVE  /\ Rows' /\ WindowsDisjoint'
         /\ \A j \in Jobs : Known(j)' = Known(j)
         /\ \A j \in Jobs : plan'[j] = plan[j] /\ Stands(j) => Stands(j)'
         /\ \A r : Fits(r) => Fits(r)'
<1>1. UNCHANGED <<opened, triggers, late>>
  BY DEF storeVars
<1>2. Rows' /\ WindowsDisjoint'
  BY <1>1 DEF IInv, Rows, WindowsDisjoint
<1>3. \A j \in Jobs : Known(j)' = Known(j)
  BY <1>1 DEF Known, Token, InWindow
<1>4. ASSUME NEW j \in Jobs, plan'[j] = plan[j], Stands(j) PROVE Stands(j)'
  BY <1>1, <1>4 DEF Stands, Token, Current, Later, Holds
<1>5. \A r : Fits(r) => Fits(r)'
  BY <1>1 DEF Fits, Token, Holds
<1> QED
  BY <1>2, <1>3, <1>4, <1>5

\* A step of the clock, of the run or of the writer's timer.
LEMMA QuietPreserves ==
  ASSUME IInv, TypeOK', UNCHANGED <<jobVars, storeVars, cache, gate, queue, batch>>,
         wpc = "stopped" => wpc' = "stopped"
  PROVE  IInv'
<1>1. UNCHANGED <<pc, key, at, inline, plan, tries, opened, triggers, late>>
  BY DEF jobVars, storeVars
<1>2. Shapes'
  BY <1>1 DEF IInv, Shapes
<1>3. OnLoop'
  BY <1>1, SameTables DEF IInv, OnLoop
<1>4. Locked' /\ Admitted'
  BY <1>1 DEF IInv, Locked, InLane, Token, Admitted
<1>5. PlansStand'
  BY <1>1, SameTables DEF IInv, PlansStand
<1>6. ContinuationsFit' /\ Handed'
  BY <1>1, SameTables DEF IInv, ContinuationsFit, Handed
<1> QED
  BY <1>1, <1>2, <1>3, <1>4, <1>5, <1>6, SameTables DEF IInv

-----------------------------------------------------------------------------
(* The thread of the continuation writer.                                  *)

\* A step of the writer leaves the jobs, the episodes and what is known alone.
LEMMA WriterPreserves ==
  ASSUME IInv, UNCHANGED <<jobVars, opened, late, cache, gate>>,
         Shapes', Rows', ContinuationsFit', Handed',
         wpc = "stopped" => wpc' = "stopped",
         triggers' = triggers \/ (gate = Nobody /\ wpc # "stopped")
  PROVE  IInv'
<1>1. UNCHANGED <<pc, key, at, inline, plan>>
  BY DEF jobVars
<1>2. OnLoop'
  BY <1>1 DEF IInv, OnLoop, Known, Token, InWindow
<1>3. Locked' /\ Admitted'
  BY <1>1 DEF IInv, Locked, InLane, Token, Admitted
<1>4. WindowsDisjoint'
  BY DEF IInv, WindowsDisjoint
<1>5. ASSUME NEW j \in Jobs, pc[j] = "writing" PROVE Stands(j)'
  <2>1. Stands(j) /\ j # Nobody
    BY <1>5 DEF IInv, PlansStand, Jobs, Nobody
  <2>2. triggers' = triggers
    BY <1>5, <2>1 DEF IInv, Admitted
  <2> QED
    BY <1>1, <2>1, <2>2 DEF Stands, Token, Current, Later, Holds
<1>6. PlansStand'
  BY <1>1, <1>5 DEF IInv, PlansStand
<1> QED
  BY <1>2, <1>3, <1>4, <1>6 DEF IInv

LEMMA TakePreserves ==
  ASSUME IInv, Take
  PROVE  IInv'
<1>1. /\ queue \in Seq(Records \cup {Sentinel}) /\ batch \in Seq(Records)
      /\ Sentinel \notin Records
  BY DEF IInv, Shapes, Records, Sentinel, Jobs
<1>2. /\ queue # <<>> /\ queue' = Tail(queue)
      /\ UNCHANGED <<jobVars, storeVars, cache, gate, now, fatal, phase, faults>>
  BY DEF Take
<1>3. /\ queue' \in Seq(Records \cup {Sentinel})
      /\ Head(queue) \in Range(queue) /\ Range(queue') \subseteq Range(queue)
  BY <1>1, <1>2, TailRange
<1>4. batch' \in Seq(Records) /\ Range(batch') \subseteq Range(batch) \cup Range(queue)
  <2>1. CASE Head(queue) = Sentinel
    BY <1>1, <2>1 DEF Take
  <2>2. CASE Head(queue) # Sentinel
    <3>1. Head(queue) \in Records
      BY <1>1, <1>3, <2>2, RangeIsElems DEF Elems
    <3>2. batch' = Append(batch, Head(queue))
      BY <2>2 DEF Take
    <3>3. batch' \in Seq(Records) /\ Range(batch') = Range(batch) \cup {Head(queue)}
      BY <1>1, <3>1, <3>2, AppendRange
    <3> QED
      BY <1>3, <3>3
  <2> QED
    BY <2>1, <2>2
<1>5. wpc # "stopped" /\ wpc' \in {"collecting", "waiting", "stopped"}
      /\ stopping' \in BOOLEAN
  BY DEF Take, IInv, Shapes, TypeOK
<1>6. UNCHANGED <<pc, key, at, inline, plan, tries, opened, triggers, late>>
  BY <1>2 DEF jobVars, storeVars
<1>7. Shapes'
  <2>1. TypeOK'
    BY <1>2, <1>5, <1>6 DEF IInv, Shapes, TypeOK
  <2> QED
    BY <1>3, <1>4, <1>6, <2>1 DEF IInv, Shapes
<1>8. ContinuationsFit' /\ Handed'
  BY <1>2, <1>3, <1>4, <1>6, SameTables DEF IInv, ContinuationsFit, Handed
<1> QED
  BY <1>2, <1>5, <1>6, <1>7, <1>8, SameTables, WriterPreserves

LEMMA CloseWriterPreserves ==
  ASSUME IInv, CloseWriter
  PROVE  IInv'
<1>1. /\ queue \in Seq(Records \cup {Sentinel}) /\ batch \in Seq(Records)
      /\ Sentinel \in Records \cup {Sentinel}
  BY DEF IInv, Shapes
<1>2. /\ queue' = Append(queue, Sentinel) /\ phase' = "closing"
      /\ UNCHANGED <<now, jobVars, storeVars, cache, gate, batch, wpc, stopping,
                     fatal, faults>>
  BY DEF CloseWriter, Closed
<1>3. /\ queue' \in Seq(Records \cup {Sentinel})
      /\ Range(queue') = Range(queue) \cup {Sentinel}
  BY <1>1, <1>2, AppendRange
<1>4. UNCHANGED <<pc, key, at, inline, plan, tries, opened, triggers, late>>
  BY <1>2 DEF jobVars, storeVars
<1>5. Shapes'
  <2>1. TypeOK'
    BY <1>2, <1>4 DEF IInv, Shapes, TypeOK
  <2> QED
    BY <1>2, <1>3, <1>4, <2>1 DEF IInv, Shapes
<1>6. ContinuationsFit' /\ Handed'
  BY <1>2, <1>3, <1>4, SameTables DEF IInv, ContinuationsFit, Handed
<1> QED
  BY <1>2, <1>4, <1>5, <1>6, SameTables, WriterPreserves

\* The batch is done: nothing of it is left to fit.
LEMMA EndBatchLeaves ==
  ASSUME IInv, EndBatch
  PROVE  /\ ContinuationsFit' /\ Handed'
         /\ batch' = <<>> /\ batch' \in Seq(Records) /\ queue' = queue
         /\ UNCHANGED <<now, jobVars, opened, late, cache, gate, stopping, phase>>
         /\ wpc' \in {"collecting", "waiting", "stopped"}
<1>1. /\ batch' = <<>> /\ queue' = queue /\ wpc' \in {"collecting", "waiting", "stopped"}
      /\ UNCHANGED <<now, jobVars, opened, late, cache, gate, stopping, phase>>
  BY DEF EndBatch
<1>2. Range(batch') = {}
  BY <1>1 DEF Range
<1>3. UNCHANGED <<pc, key, at>>
  BY <1>1 DEF jobVars
<1>4. ContinuationsFit'
  BY <1>1, <1>2, <1>3 DEF IInv, ContinuationsFit, Fits, Holds, Token
<1>5. Handed'
  BY <1>1, <1>2, <1>3 DEF IInv, Handed
<1> QED
  BY <1>1, <1>4, <1>5

LEMMA PersistPreserves ==
  ASSUME IInv, Persist
  PROVE  IInv'
<1> DEFINE K == {key[r.job] : r \in Range(batch)}
           new == [k \in K |-> batch[FirstWith(k)].episode]
<1>1. /\ wpc = "waiting" /\ gate = Nobody /\ EndBatch
      /\ \A r \in Range(batch) : Fits(r)
      /\ triggers' = Inserted(triggers, new) /\ UNCHANGED <<fatal, faults>>
  BY DEF Persist
<1>2. batch \in Seq(Records) /\ Range(batch) \subseteq Records
  BY RangeIsElems DEF IInv, Shapes, Elems
<1>3. ASSUME NEW k \in K
      PROVE  /\ k \in Keys /\ new[k] \in DOMAIN opened
             /\ TokenOf[new[k]] = TokenOf[k]
  <2>1. /\ FirstWith(k) \in 1 .. Len(batch) /\ key[batch[FirstWith(k)].job] = k
    BY <1>2, <1>3, FirstWithKey
  <2>2. batch[FirstWith(k)] \in Range(batch)
    BY <1>2, <2>1 DEF Range
  <2>3. batch[FirstWith(k)].job \in Jobs
    BY <1>2, <2>2 DEF Records
  <2> QED
    BY <1>1, <2>1, <2>2, <2>3 DEF Fits, Token, IInv, Shapes, TypeOK
<1>4. new \in [DOMAIN new -> Keys] /\ DOMAIN new = K
  BY <1>3 DEF IInv, Shapes, TypeOK
<1>5. triggers \in [DOMAIN triggers -> Keys] /\ DOMAIN triggers \subseteq Keys
  BY DEF IInv, Shapes, TypeOK
<1> HIDE DEF new, K
<1>6. /\ DOMAIN triggers' = DOMAIN triggers \cup K
      /\ triggers' \in [DOMAIN triggers' -> Keys]
      /\ \A k \in DOMAIN triggers : triggers'[k] = triggers[k]
      /\ \A k \in K \ DOMAIN triggers : triggers'[k] = new[k]
  BY <1>1, <1>4, <1>5 DEF Inserted
<1>7. /\ batch' \in Seq(Records) /\ queue' = queue
      /\ UNCHANGED <<now, jobVars, opened, late, cache, gate, stopping, phase>>
      /\ wpc' \in {"collecting", "waiting", "stopped"}
      /\ ContinuationsFit' /\ Handed'
  BY <1>1, EndBatchLeaves
<1>8. UNCHANGED <<pc, key, at, inline, plan, tries, fatal, faults>>
  BY <1>1, <1>7 DEF jobVars
<1>9. Shapes'
  <2>1. DOMAIN triggers' \subseteq Keys /\ Range(triggers') \subseteq Keys
    BY <1>3, <1>5, <1>6, RangeWithin
  <2>2. TypeOK'
    BY <1>7, <1>8, <2>1 DEF IInv, Shapes, TypeOK
  <2> QED
    BY <1>6, <1>7, <1>8, <2>2 DEF IInv, Shapes
<1>10. Rows'
  BY <1>3, <1>6, <1>7 DEF IInv, Rows
<1> QED
  BY <1>1, <1>7, <1>9, <1>10, WriterPreserves

LEMMA PersistFailsPreserves ==
  ASSUME IInv, PersistFails
  PROVE  IInv'
<1>1. wpc = "waiting" /\ EndBatch /\ UNCHANGED triggers /\ fatal' \in BOOLEAN
      /\ faults' \in 0 .. MaxFaults
  BY EpisodeAssumption DEF PersistFails, IInv, Shapes, TypeOK
<1>2. /\ batch' \in Seq(Records) /\ queue' = queue
      /\ UNCHANGED <<now, jobVars, opened, late, cache, gate, stopping, phase>>
      /\ wpc' \in {"collecting", "waiting", "stopped"}
      /\ ContinuationsFit' /\ Handed'
  BY <1>1, EndBatchLeaves
<1>3. UNCHANGED <<pc, key, at, inline, plan, tries, storeVars>>
  BY <1>1, <1>2 DEF jobVars, storeVars
<1>4. Shapes'
  <2>1. TypeOK'
    BY <1>1, <1>2, <1>3 DEF IInv, Shapes, TypeOK, storeVars
  <2> QED
    BY <1>1, <1>2, <1>3, <2>1 DEF IInv, Shapes
<1> QED
  BY <1>1, <1>2, <1>3, <1>4, SameTables, WriterPreserves

-----------------------------------------------------------------------------
(* The notifications.                                                      *)

\* What the writer has to do is records of jobs.
LEMMA QueuedRecords ==
  ASSUME IInv
  PROVE  \A r \in Range(queue) \cup Range(batch) : r # Sentinel => r.job \in Jobs
<1>1. Range(queue) \subseteq Records \cup {Sentinel}
  BY DEF IInv, Shapes, Range
<1>2. Range(batch) \subseteq Records
  BY DEF IInv, Shapes, Range
<1> QED
  BY <1>1, <1>2 DEF Records

\* A job that is not on the loop moves on; no table changes.
LEMMA MovePreserves ==
  ASSUME IInv, NEW j \in Jobs, NEW p, Goto(j, p), Shapes',
         UNCHANGED <<key, at, inline, storeVars, cache, queue, batch, wpc>>,
         pc[j] \notin {"inline", "reported", "raised"},
         p \notin {"idle", "inline", "remembering"},
         p \in Assigning \cup {"locked"} =>
            InLane(j) \/ \A i \in Jobs : InLane(i) => Token(i) # Token(j),
         \A i \in Jobs \ {j} : plan'[i] = plan[i],
         p = "writing" => Stands(j)',
         \A i \in Jobs \ {j} : gate = i => gate' = i,
         p \in {"reading", "writing"} => gate' = j \/ wpc = "stopped"
  PROVE  IInv'
<1>1. j \notin inline /\ inline \subseteq Jobs
  BY DEF IInv, OnLoop, Shapes, TypeOK
<1>2. pc'[j] = p /\ \A i \in Jobs \ {j} : pc'[i] = pc[i]
  BY DEF Goto, IInv, Shapes, TypeOK
<1>3. OnLoop'
  BY <1>1, <1>2, SameTables DEF IInv, OnLoop
<1>4. Locked'
  <2>1. \A i \in Jobs : Token(i)' = Token(i)
    BY DEF Token
  <2>2. \A i \in Jobs \ {j} : InLane(i)' <=> InLane(i)
    BY <1>2 DEF InLane
  <2>3. InLane(j)' =>
          InLane(j) \/ \A i \in Jobs : InLane(i) => Token(i) # Token(j)
    BY <1>2 DEF InLane
  <2> QED
    BY <2>1, <2>2, <2>3 DEF IInv, Locked
<1>5. PlansStand'
  <2>1. ASSUME NEW i \in Jobs \ {j}
        PROVE  /\ pc'[i] = "writing" => Stands(i)'
               /\ pc'[i] = "remembering" =>
                    plan'[i] \in Plans /\ plan'[i].episode \in DOMAIN opened'
    BY <1>2, SameTables DEF IInv, PlansStand, storeVars
  <2>2. /\ pc'[j] = "writing" => Stands(j)'
        /\ pc'[j] # "remembering"
    BY <1>2
  <2> QED
    BY <2>1, <2>2 DEF PlansStand
<1>6. Admitted'
  BY <1>2 DEF IInv, Admitted
<1>7. ContinuationsFit'
  BY SameTables DEF IInv, ContinuationsFit
<1>8. Handed'
  BY <1>2, QueuedRecords DEF IInv, Handed
<1> QED
  BY <1>3, <1>4, <1>5, <1>6, <1>7, <1>8, SameTables DEF IInv

LEMMA StartPreserves ==
  ASSUME IInv, NEW j \in Jobs, Start(j)
  PROVE  IInv'
<1>1. /\ pc[j] = "queued" /\ Goto(j, "starting")
      /\ UNCHANGED <<now, key, at, inline, plan, tries, storeVars, cache, gate,
                     writerVars, phase, faults>>
  BY DEF Start
<1>2. UNCHANGED <<opened, triggers, late, queue, batch, wpc, stopping, fatal>>
  BY <1>1 DEF storeVars, writerVars
<1>3. TypeOK'
  BY <1>1, <1>2 DEF Goto, IInv, Shapes, TypeOK
<1>4. Shapes'
  BY <1>1, <1>2, <1>3 DEF IInv, Shapes
<1> QED
  BY <1>1, <1>2, <1>4, MovePreserves DEF Assigning

LEMMA LockPreserves ==
  ASSUME IInv, NEW j \in Jobs, Lock(j)
  PROVE  IInv'
<1>1. /\ pc[j] = "starting" /\ Goto(j, "locked")
      /\ \A i \in Jobs : InLane(i) => Token(i) # Token(j)
      /\ UNCHANGED <<now, key, at, inline, plan, tries, storeVars, cache, gate,
                     writerVars, phase, faults>>
  BY DEF Lock
<1>2. UNCHANGED <<opened, triggers, late, queue, batch, wpc, stopping, fatal>>
  BY <1>1 DEF storeVars, writerVars
<1>3. TypeOK'
  BY <1>1, <1>2 DEF Goto, IInv, Shapes, TypeOK
<1>4. Shapes'
  BY <1>1, <1>2, <1>3 DEF IInv, Shapes
<1> QED
  BY <1>1, <1>2, <1>4, MovePreserves

LEMMA ReportPreserves ==
  ASSUME IInv, NEW j \in Jobs, Report(j)
  PROVE  IInv'
<1>1. /\ pc[j] = "returned" /\ Goto(j, "reported")
      /\ UNCHANGED <<now, key, at, inline, plan, tries, storeVars, cache, gate,
                     writerVars, phase, faults>>
  BY DEF Report
<1>2. UNCHANGED <<opened, triggers, late, queue, batch, wpc, stopping, fatal>>
  BY <1>1 DEF storeVars, writerVars
<1>3. TypeOK'
  BY <1>1, <1>2 DEF Goto, IInv, Shapes, TypeOK
<1>4. Shapes'
  BY <1>1, <1>2, <1>3 DEF IInv, Shapes
<1> QED
  BY <1>1, <1>2, <1>4, MovePreserves DEF Assigning

LEMMA EnterGatePreserves ==
  ASSUME IInv, NEW j \in Jobs, EnterGate(j)
  PROVE  IInv'
<1>1. /\ pc[j] = "waiting" /\ Goto(j, "reading")
      /\ (gate = Nobody /\ gate' = j) \/ (wpc = "stopped" /\ gate' = gate)
      /\ UNCHANGED <<now, key, at, inline, plan, tries, storeVars, cache,
                     writerVars, phase, faults>>
  BY DEF EnterGate
<1>2. UNCHANGED <<opened, triggers, late, queue, batch, wpc, stopping, fatal>>
  BY <1>1 DEF storeVars, writerVars
<1>3. TypeOK'
  BY <1>1, <1>2 DEF Goto, IInv, Shapes, TypeOK, Assigning
<1>4. Shapes'
  BY <1>1, <1>2, <1>3 DEF IInv, Shapes
<1>5. InLane(j)
  BY <1>1 DEF IInv, OnLoop, InLane, Assigning
<1>6. \A i \in Jobs \ {j} : gate = i => gate' = i
  BY <1>1 DEF Nobody, Jobs
<1> QED
  BY <1>1, <1>2, <1>4, <1>5, <1>6, MovePreserves

\* The SELECTs find an episode of the token, or that none is open.
LEMMA SelectPreserves ==
  ASSUME IInv, NEW j \in Jobs, Select(j)
  PROVE  IInv'
<1>1. /\ pc[j] = "reading" /\ Goto(j, "writing")
      /\ UNCHANGED <<now, key, at, inline, tries, storeVars, cache, gate,
                     writerVars, phase, faults>>
  BY DEF Select
<1>2. UNCHANGED <<opened, triggers, late, queue, batch, wpc, stopping, fatal>>
  BY <1>1 DEF storeVars, writerVars
<1>3. TypeOK'
  BY <1>1, <1>2 DEF Goto, IInv, Shapes, TypeOK, Assigning
<1>4. /\ key[j] \in Keys /\ DOMAIN opened \subseteq Keys
      /\ opened \in [DOMAIN opened -> 0 .. MaxTime]
      /\ \A i \in Jobs \ {j} : plan'[i] = plan[i]
      /\ plan \in [Jobs -> Plans \cup {NoPlan}]
  BY DEF Select, IInv, Shapes, TypeOK
<1>5. Current(j) # {} => Latest(Current(j)) \in Current(j)
  BY <1>4, LatestIsOne DEF Current
<1>6. Later(j) # {} => Earliest(Later(j)) \in Later(j)
  BY <1>4, EarliestIsOne DEF Later
<1>7. plan'[j] \in Plans /\ Stands(j)'
  <2> DEFINE d == plan'[j].does
             e == plan'[j].episode
  <2>1. /\ UNCHANGED <<Token(j), Current(j), Later(j), triggers, opened>>
        /\ key'[j] = key[j]
    BY <1>1, <1>2 DEF Token, Current, Later, Holds
  <2>2. CASE key[j] \in DOMAIN triggers
    <3>1. plan'[j] = [does |-> "reuse", episode |-> triggers[key[j]]]
      BY <1>4, <2>2 DEF Select
    <3> QED
      BY <1>4, <2>1, <2>2, <3>1 DEF Stands, Plans, IInv, Rows, Token
  <2>3. CASE key[j] \notin DOMAIN triggers /\ key[j] \in DOMAIN late
    <3>1. plan'[j] = [does |-> "reuse", episode |-> late[key[j]]]
      BY <1>4, <2>3 DEF Select
    <3> QED
      BY <1>4, <2>1, <2>3, <3>1 DEF Stands, Plans, IInv, Rows, Token
  <2>4. CASE /\ key[j] \notin DOMAIN triggers /\ key[j] \notin DOMAIN late
             /\ Current(j) # {}
    <3>1. plan'[j] = [does |-> "join", episode |-> Latest(Current(j))]
      BY <1>4, <2>4 DEF Select
    <3>2. Latest(Current(j)) \in DOMAIN opened /\ TokenOf[Latest(Current(j))] = Token(j)
      BY <1>5, <2>4 DEF Current
    <3> QED
      BY <1>4, <2>1, <2>4, <3>1, <3>2 DEF Stands, Plans
  <2>5. CASE /\ key[j] \notin DOMAIN triggers /\ key[j] \notin DOMAIN late
             /\ Current(j) = {} /\ Later(j) # {}
    <3>1. plan'[j] = [does |-> "suppress", episode |-> Earliest(Later(j))]
      BY <1>4, <2>5 DEF Select
    <3>2. Earliest(Later(j)) \in DOMAIN opened /\ TokenOf[Earliest(Later(j))] = Token(j)
      BY <1>6, <2>5 DEF Later
    <3> QED
      BY <1>4, <2>1, <2>5, <3>1, <3>2 DEF Stands, Plans
  <2>6. CASE /\ key[j] \notin DOMAIN triggers /\ key[j] \notin DOMAIN late
             /\ Current(j) = {} /\ Later(j) = {}
    <3>1. plan'[j] = [does |-> "open", episode |-> key[j]]
      BY <1>4, <2>6 DEF Select
    <3>2. TokenOf[key[j]] = Token(j)
      BY DEF Token
    <3> QED
      BY <1>4, <2>1, <2>6, <3>1, <3>2 DEF Stands, Plans
  <2> QED
    BY <2>2, <2>3, <2>4, <2>5, <2>6
<1>8. Shapes'
  <2>1. plan' \in [Jobs -> Plans \cup {NoPlan}]
    BY <1>4, <1>7 DEF Select
  <2> QED
    BY <1>1, <1>2, <1>3, <2>1 DEF IInv, Shapes
<1>9. InLane(j) /\ (gate = j \/ wpc = "stopped")
  BY <1>1 DEF IInv, OnLoop, Admitted, InLane, Assigning
<1> QED
  BY <1>1, <1>2, <1>4, <1>7, <1>8, <1>9, MovePreserves

LEMMA BusyPreserves ==
  ASSUME IInv, NEW j \in Jobs, Busy(j)
  PROVE  IInv'
<1> DEFINE p == IF tries[j] < Retries THEN "reading" ELSE "raised"
<1>1. /\ pc[j] = "writing" /\ Goto(j, p) /\ faults' \in 0 .. MaxFaults
      /\ plan' = [plan EXCEPT ![j] = NoPlan]
      /\ UNCHANGED <<now, key, at, inline, storeVars, cache, writerVars, phase>>
  BY EpisodeAssumption DEF Busy, IInv, Shapes, TypeOK
<1>2. UNCHANGED <<opened, triggers, late, queue, batch, wpc, stopping, fatal>>
  BY <1>1 DEF storeVars, writerVars
<1>3. tries' \in [Jobs -> 0 .. Retries]
  <2>1. tries \in [Jobs -> 0 .. Retries] /\ Retries \in Nat
    BY EpisodeAssumption DEF IInv, Shapes, TypeOK
  <2>2. CASE tries[j] < Retries
    <3>1. tries' = [tries EXCEPT ![j] = tries[j] + 1] /\ tries[j] + 1 \in 0 .. Retries
      BY <2>1, <2>2 DEF Busy
    <3> QED
      BY <2>1, <3>1
  <2>3. CASE ~(tries[j] < Retries)
    BY <2>1, <2>3 DEF Busy
  <2> QED
    BY <2>2, <2>3
<1>4. /\ gate' \in Jobs \cup {Nobody}
      /\ \A i \in Jobs \ {j} : gate = i => gate' = i
      /\ p = "reading" => gate' = gate
  BY DEF Busy, LeaveGate, IInv, Shapes, TypeOK
<1>5. Shapes'
  <2>1. TypeOK'
    BY <1>1, <1>2, <1>3, <1>4 DEF Goto, IInv, Shapes, TypeOK, Assigning
  <2>2. plan' \in [Jobs -> Plans \cup {NoPlan}]
    BY <1>1 DEF IInv, Shapes
  <2> QED
    BY <1>1, <1>2, <2>1, <2>2 DEF IInv, Shapes
<1>6. InLane(j) /\ (gate = j \/ wpc = "stopped")
  BY <1>1 DEF IInv, OnLoop, Admitted, InLane, Assigning
<1>7. p \in {"reading", "raised"} /\ \A i \in Jobs \ {j} : plan'[i] = plan[i]
  BY <1>1 DEF IInv, Shapes
<1> HIDE DEF p
<1> QED
  BY <1>1, <1>2, <1>4, <1>5, <1>6, <1>7, MovePreserves

\* What is put on the queue on the word of the cache fits.
LEMMA EnqueuePreserves ==
  ASSUME IInv, NEW j \in Jobs, NEW after \in {"reported", "returned"},
         Enqueue(j, after), Known(j) # {},
         \/ pc[j] = "inline" /\ after = "reported"
         \/ pc[j] = "locked" /\ after = "returned",
         UNCHANGED <<now, key, at, inline, plan, tries, storeVars, cache, gate,
                     batch, wpc, stopping, fatal, phase, faults>>
  PROVE  IInv'
<1> DEFINE r == [job |-> j, episode |-> Latest(Known(j))]
<1>1. PICK p \in {"raised", after} : Goto(j, p)
  BY DEF Enqueue
<1>2. /\ pc'[j] = p /\ \A i \in Jobs \ {j} : pc'[i] = pc[i]
      /\ UNCHANGED <<opened, triggers, late>>
  BY <1>1 DEF Goto, storeVars, IInv, Shapes, TypeOK
<1>3. Latest(Known(j)) \in Known(j) /\ Known(j) \subseteq DOMAIN opened
  BY LatestIsOne DEF Known, IInv, Shapes, Rows
<1>4. r \in Records /\ Fits(r) /\ r.job = j
  BY <1>3 DEF Records, Fits, Known, InWindow, Holds, Token, IInv, Shapes, TypeOK
<1>5. queue' \in Seq(Records \cup {Sentinel}) /\ Range(queue') \subseteq Range(queue) \cup {r}
  <2>1. queue' = queue \/ queue' = Append(queue, r)
    BY DEF Enqueue
  <2>2. queue \in Seq(Records \cup {Sentinel})
    BY DEF IInv, Shapes
  <2>3. r \in Records \cup {Sentinel}
    BY <1>4
  <2> HIDE DEF r
  <2>4. /\ Append(queue, r) \in Seq(Records \cup {Sentinel})
        /\ Range(Append(queue, r)) = Range(queue) \cup {r}
    BY <2>2, <2>3, AppendRange
  <2> QED
    BY <2>1, <2>2, <2>4
<1>6. Shapes'
  <2>1. TypeOK'
    BY <1>1, <1>2 DEF Goto, IInv, Shapes, TypeOK
  <2> QED
    BY <1>2, <1>5, <2>1 DEF IInv, Shapes
<1>7. OnLoop'
  <2>1. inline \subseteq Jobs /\ \A i \in Jobs : Known(i)' = Known(i)
    BY SameTables DEF IInv, Shapes, TypeOK
  <2>2. \A i \in inline : pc'[i] \in {"inline", "reported", "raised"}
    BY <1>2, <2>1 DEF IInv, OnLoop
  <2>3. ASSUME NEW i \in Jobs, pc'[i] = "inline" PROVE i \in inline /\ Known(i)' # {}
    BY <1>2, <2>1, <2>3 DEF IInv, OnLoop
  <2> QED
    BY <2>2, <2>3 DEF OnLoop
<1>8. Locked'
  BY <1>2 DEF IInv, Locked, InLane, Assigning, Token
<1>9. PlansStand' /\ Admitted'
  BY <1>2, SameTables DEF IInv, PlansStand, Admitted
<1>10. ContinuationsFit'
  BY <1>4, <1>5, SameTables DEF IInv, ContinuationsFit
<1>11. Handed'
  BY <1>2, <1>4, <1>5, QueuedRecords DEF IInv, Handed
<1> QED
  BY <1>6, <1>7, <1>8, <1>9, <1>10, <1>11, SameTables DEF IInv

\* On the loop the window that was known when the job was classified is found.
LEMMA FinalizePreserves ==
  ASSUME IInv, NEW j \in Jobs, FinalizeInline(j) \/ Finalize(j)
  PROVE  IInv'
<1>1. CASE Known(j) # {}
  BY <1>1, EnqueuePreserves DEF FinalizeInline, Finalize, Lookup
<1>2. CASE Known(j) = {}
  <2>1. pc[j] = "locked" /\ Lookup(j, "returned")
    BY <1>2 DEF IInv, OnLoop, FinalizeInline, Finalize
  <2>2. /\ Goto(j, "waiting") /\ queue' = queue
        /\ UNCHANGED <<now, key, at, inline, plan, tries, storeVars, cache, gate,
                       batch, wpc, stopping, fatal, phase, faults>>
    BY <1>2, <2>1 DEF Lookup
  <2>3. TypeOK'
    BY <2>1, <2>2 DEF Goto, IInv, Shapes, TypeOK, Assigning, storeVars
  <2>4. Shapes'
    BY <2>2, <2>3 DEF IInv, Shapes, storeVars
  <2>5. InLane(j)
    BY <2>1 DEF IInv, OnLoop, InLane
  <2> QED
    BY <2>1, <2>2, <2>4, <2>5, MovePreserves
<1> QED
  BY <1>1, <1>2

LEMMA ClassifyPreserves ==
  ASSUME IInv, NEW j \in Jobs, Classify(j)
  PROVE  IInv'
<1>1. /\ pc[j] = "prepared"
      /\ UNCHANGED <<now, key, at, plan, tries, storeVars, cache, gate, writerVars,
                     phase, faults>>
  BY DEF Classify
<1>2. UNCHANGED <<opened, triggers, late, queue, batch, wpc, stopping, fatal>>
  BY <1>1 DEF storeVars, writerVars
<1>3. CASE Known(j) = {}
  <2>1. Goto(j, "queued") /\ inline' = inline
    BY <1>3 DEF Classify
  <2>2. TypeOK'
    BY <1>1, <1>2, <2>1 DEF Goto, IInv, Shapes, TypeOK
  <2>3. Shapes'
    BY <1>1, <1>2, <2>2 DEF IInv, Shapes
  <2> QED
    BY <1>1, <1>2, <2>1, <2>3, MovePreserves DEF Assigning
<1>4. CASE Known(j) # {}
  <2>1. Goto(j, "inline") /\ inline' = inline \cup {j}
    BY <1>4 DEF Classify
  <2>2. pc'[j] = "inline" /\ \A i \in Jobs \ {j} : pc'[i] = pc[i]
    BY <2>1 DEF Goto, IInv, Shapes, TypeOK
  <2>3. Shapes'
    <3>1. TypeOK'
      BY <1>1, <1>2, <2>1 DEF Goto, IInv, Shapes, TypeOK
    <3> QED
      BY <1>1, <1>2, <3>1 DEF IInv, Shapes
  <2>4. OnLoop'
    <3>1. inline \subseteq Jobs /\ \A i \in Jobs : Known(i)' = Known(i)
      BY <1>1, SameTables DEF IInv, Shapes, TypeOK
    <3>2. \A i \in inline' : pc'[i] \in {"inline", "reported", "raised"}
      BY <2>1, <2>2, <3>1 DEF IInv, OnLoop
    <3>3. ASSUME NEW i \in Jobs, pc'[i] = "inline"
          PROVE  i \in inline' /\ Known(i)' # {}
      BY <1>4, <2>1, <2>2, <3>1, <3>3 DEF IInv, OnLoop
    <3> QED
      BY <3>2, <3>3 DEF OnLoop
  <2>5. Locked'
    BY <1>1, <2>1, <2>2 DEF IInv, Locked, InLane, Assigning, Token
  <2>6. PlansStand' /\ Admitted'
    BY <1>1, <1>2, <2>2, SameTables DEF IInv, PlansStand, Admitted
  <2>7. ContinuationsFit' /\ Handed'
    BY <1>1, <1>2, <2>2, SameTables, QueuedRecords DEF IInv, ContinuationsFit, Handed
  <2> QED
    BY <1>1, <2>3, <2>4, <2>5, <2>6, <2>7, SameTables DEF IInv
<1> QED
  BY <1>3, <1>4

\* Nothing knows of a job that has not arrived.
LEMMA ArrivePreserves ==
  ASSUME IInv, NEW j \in Jobs, Arrive(j)
  PROVE  IInv'
<1>1. /\ pc[j] = "idle" /\ Goto(j, "prepared")
      /\ UNCHANGED <<now, inline, plan, tries, storeVars, cache, gate, writerVars,
                     phase, faults>>
      /\ key' \in [Jobs -> Keys] /\ at' \in [Jobs -> 0 .. MaxTime]
      /\ \A i \in Jobs \ {j} : key'[i] = key[i] /\ at'[i] = at[i]
  <2>0. PICK k \in Keys : \E t \in Times(j, k) :
            key' = [key EXCEPT ![j] = k] /\ at' = [at EXCEPT ![j] = t]
    BY DEF Arrive
  <2>1. PICK t \in Times(j, k) :
            key' = [key EXCEPT ![j] = k] /\ at' = [at EXCEPT ![j] = t]
    BY <2>0
  <2>2. now \in 0 .. MaxTime /\ key \in [Jobs -> Keys] /\ at \in [Jobs -> 0 .. MaxTime]
    BY DEF IInv, Shapes, TypeOK
  <2>3. \A i \in 1 .. (j - 1) : i \in Jobs
    BY EpisodeAssumption DEF Jobs
  <2>4. t \in 0 .. MaxTime
    BY <2>1, <2>2, <2>3 DEF Times
  <2> QED
    BY <2>1, <2>2, <2>4 DEF Arrive
<1>2. UNCHANGED <<opened, triggers, late, queue, batch, wpc, stopping, fatal>>
  BY <1>1 DEF storeVars, writerVars
<1>3. pc'[j] = "prepared" /\ \A i \in Jobs \ {j} : pc'[i] = pc[i]
  BY <1>1 DEF Goto, IInv, Shapes, TypeOK
<1>4. Shapes'
  <2>1. TypeOK'
    BY <1>1, <1>2 DEF Goto, IInv, Shapes, TypeOK
  <2> QED
    BY <1>1, <1>2, <2>1 DEF IInv, Shapes
<1>5. \A i \in Jobs \ {j} : Known(i)' = Known(i)
  BY <1>1, <1>2 DEF Known, Token, InWindow
<1>6. OnLoop'
  <2>1. inline \subseteq Jobs \ {j} /\ inline' = inline
    BY <1>1 DEF IInv, Shapes, TypeOK, OnLoop
  <2>2. \A i \in inline : pc'[i] \in {"inline", "reported", "raised"}
    BY <1>3, <2>1 DEF IInv, OnLoop
  <2>3. ASSUME NEW i \in Jobs, pc'[i] = "inline"
        PROVE  i \in inline /\ Known(i)' # {}
    BY <1>3, <1>5, <2>3 DEF IInv, OnLoop
  <2> QED
    BY <2>1, <2>2, <2>3 DEF OnLoop
<1>7. Locked'
  BY <1>1, <1>3 DEF IInv, Locked, InLane, Assigning, Token
<1>8. PlansStand'
  <2>1. ASSUME NEW i \in Jobs \ {j}, Stands(i) PROVE Stands(i)'
    BY <1>1, <1>2, <2>1 DEF Stands, Token, Current, Later, Holds
  <2> QED
    BY <1>1, <1>2, <1>3, <2>1 DEF IInv, PlansStand
<1>9. Admitted' /\ Rows' /\ WindowsDisjoint'
  BY <1>1, <1>2, <1>3 DEF IInv, Admitted, Rows, WindowsDisjoint
<1>10. ASSUME NEW r \in Range(queue) \cup Range(batch), r # Sentinel
       PROVE  Fits(r)' /\ pc'[r.job] # "idle"
  <2>1. r.job \in Jobs \ {j} /\ Fits(r)
    BY <1>1, <1>10, QueuedRecords DEF IInv, Handed, ContinuationsFit
  <2> QED
    BY <1>1, <1>2, <1>3, <1>10, <2>1 DEF Fits, Holds, Token, IInv, Handed
<1>11. ContinuationsFit' /\ Handed'
  BY <1>2, <1>10 DEF ContinuationsFit, Handed
<1> QED
  BY <1>4, <1>6, <1>7, <1>8, <1>9, <1>11 DEF IInv

\* The cache learns a window that is stored.
LEMMA RememberPreserves ==
  ASSUME IInv, NEW j \in Jobs, Remember(j)
  PROVE  IInv'
<1> DEFINE p == IF j \in inline THEN "reported" ELSE "returned"
<1>1. /\ pc[j] = "remembering" /\ Goto(j, p)
      /\ cache' = cache \cup {plan[j].episode}
      /\ plan' = [plan EXCEPT ![j] = NoPlan]
      /\ UNCHANGED <<now, key, at, inline, tries, storeVars, gate, writerVars, phase,
                     faults>>
  BY DEF Remember, Remembered
<1>2. UNCHANGED <<opened, triggers, late, queue, batch, wpc, stopping, fatal>>
  BY <1>1 DEF storeVars, writerVars
<1>3. j \notin inline /\ inline \subseteq Jobs
  BY <1>1 DEF IInv, OnLoop, Shapes, TypeOK
<1>4. /\ pc'[j] = "returned" /\ \A i \in Jobs \ {j} : pc'[i] = pc[i]
      /\ \A i \in Jobs \ {j} : plan'[i] = plan[i]
  BY <1>1, <1>3 DEF Goto, IInv, Shapes, TypeOK
<1>5. cache' \subseteq DOMAIN opened
  BY <1>1 DEF IInv, Rows, PlansStand
<1>6. Shapes'
  <2>1. TypeOK'
    BY <1>1, <1>2, <1>3, <1>5 DEF Goto, IInv, Shapes, TypeOK
  <2>2. plan' \in [Jobs -> Plans \cup {NoPlan}]
    BY <1>1 DEF IInv, Shapes
  <2> QED
    BY <1>1, <1>2, <2>1, <2>2 DEF IInv, Shapes
<1>7. Rows' /\ WindowsDisjoint'
  BY <1>2, <1>5 DEF IInv, Rows, WindowsDisjoint
<1>8. OnLoop'
  <2>1. \A i \in Jobs : Known(i) \subseteq Known(i)'
    BY <1>1, <1>2 DEF Known, Token, InWindow
  <2>2. \A i \in inline' : pc'[i] \in {"inline", "reported", "raised"}
    BY <1>1, <1>3, <1>4 DEF IInv, OnLoop
  <2>3. ASSUME NEW i \in Jobs, pc'[i] = "inline"
        PROVE  i \in inline' /\ Known(i)' # {}
    BY <1>1, <1>4, <2>1, <2>3 DEF IInv, OnLoop
  <2> QED
    BY <2>2, <2>3 DEF OnLoop
<1>9. Locked'
  BY <1>1, <1>4 DEF IInv, Locked, InLane, Assigning, Token
<1>10. PlansStand' /\ Admitted'
  <2>1. ASSUME NEW i \in Jobs \ {j}, Stands(i) PROVE Stands(i)'
    BY <1>1, <1>2, <1>4, <2>1 DEF Stands, Token, Current, Later, Holds
  <2> QED
    BY <1>1, <1>2, <1>4, <2>1 DEF IInv, PlansStand, Admitted
<1>11. ContinuationsFit' /\ Handed'
  <2>1. \A r : Fits(r) => Fits(r)'
    BY <1>1, <1>2 DEF Fits, Token, Holds
  <2> QED
    BY <1>1, <1>2, <1>4, <2>1, QueuedRecords DEF IInv, ContinuationsFit, Handed
<1> QED
  BY <1>6, <1>7, <1>8, <1>9, <1>10, <1>11 DEF IInv

\* What a commit makes of the tables.
LEMMA CommitWrites ==
  ASSUME IInv, NEW j \in Jobs, Commit(j)
  PROVE  /\ \A e \in DOMAIN opened : e \in DOMAIN opened' /\ opened'[e] = opened[e]
         /\ \A e \in DOMAIN opened' \ DOMAIN opened :
              /\ e = key[j] /\ opened'[e] = at[j]
              /\ plan[j].does = "open"
         /\ plan[j].episode \in DOMAIN opened'
         /\ opened' \in [DOMAIN opened' -> 0 .. MaxTime]
         /\ DOMAIN opened' \subseteq Keys
         /\ triggers' \in [DOMAIN triggers' -> Keys]
         /\ DOMAIN triggers \subseteq DOMAIN triggers'
         /\ DOMAIN triggers' \subseteq DOMAIN triggers \cup {key[j]}
         /\ late' \in [DOMAIN late' -> Keys]
         /\ DOMAIN late' \subseteq Keys
         /\ Rows'
<1> DEFINE e == plan[j].episode
           does == plan[j].does
<1>1. /\ Stands(j) /\ key[j] \in Keys /\ at[j] \in 0 .. MaxTime /\ e \in Keys
      /\ opened \in [DOMAIN opened -> 0 .. MaxTime] /\ DOMAIN opened \subseteq Keys
      /\ triggers \in [DOMAIN triggers -> Keys] /\ DOMAIN triggers \subseteq Keys
      /\ late \in [DOMAIN late -> Keys] /\ DOMAIN late \subseteq Keys
  BY DEF Commit, IInv, Shapes, TypeOK, PlansStand, Stands, Plans
<1>2. TokenOf[e] = TokenOf[key[j]]
  BY <1>1 DEF Stands, Token
<1>3. CASE does = "open"
  <2>1. /\ e = key[j] /\ key[j] \notin DOMAIN triggers /\ key[j] \notin DOMAIN opened
    BY <1>1, <1>3 DEF Stands, IInv, Rows
  <2>2. /\ opened' = Inserted(opened, Row(e, at[j]))
        /\ triggers' = Inserted(triggers, Row(key[j], e)) /\ late' = late
        /\ cache' = cache
    BY <1>3 DEF Commit
  <2> HIDE DEF e, does
  <2>3. /\ DOMAIN opened' = DOMAIN opened \cup {e}
        /\ opened' \in [DOMAIN opened' -> 0 .. MaxTime]
        /\ \A h \in DOMAIN opened : opened'[h] = opened[h]
        /\ opened'[e] = at[j]
    BY <1>1, <2>1, <2>2 DEF Inserted, Row
  <2>4. /\ DOMAIN triggers' = DOMAIN triggers \cup {key[j]}
        /\ triggers' \in [DOMAIN triggers' -> Keys]
        /\ \A h \in DOMAIN triggers : triggers'[h] = triggers[h]
        /\ triggers'[key[j]] = e
    BY <1>1, <2>1, <2>2 DEF Inserted, Row
  <2>5. Rows'
    BY <1>2, <2>1, <2>2, <2>3, <2>4 DEF IInv, Rows
  <2> QED
    BY <1>1, <1>3, <2>1, <2>2, <2>3, <2>4, <2>5 DEF e, does
<1>4. CASE does = "join"
  <2>1. /\ e \in DOMAIN opened /\ key[j] \notin DOMAIN triggers
    BY <1>1, <1>4 DEF Stands
  <2>2. /\ opened' = opened
        /\ triggers' = Inserted(triggers, Row(key[j], e)) /\ late' = late
        /\ cache' = cache
    BY <1>4 DEF Commit
  <2> HIDE DEF e, does
  <2>3. /\ DOMAIN triggers' = DOMAIN triggers \cup {key[j]}
        /\ triggers' \in [DOMAIN triggers' -> Keys]
        /\ \A h \in DOMAIN triggers : triggers'[h] = triggers[h]
        /\ triggers'[key[j]] = e
    BY <1>1, <2>1, <2>2 DEF Inserted, Row
  <2>4. Rows'
    BY <1>2, <2>1, <2>2, <2>3 DEF IInv, Rows
  <2> QED
    BY <1>1, <2>1, <2>2, <2>3, <2>4 DEF e, does
<1>5. CASE does = "suppress"
  <2>1. e \in DOMAIN opened
    BY <1>1, <1>5 DEF Stands
  <2>2. /\ opened' = opened /\ triggers' = triggers
        /\ late' = Inserted(late, Row(key[j], e)) /\ cache' = cache
    BY <1>5 DEF Commit
  <2> HIDE DEF e, does
  <2>3. /\ DOMAIN late' = DOMAIN late \cup {key[j]}
        /\ late' \in [DOMAIN late' -> Keys]
        /\ \A h \in DOMAIN late : late'[h] = late[h]
        /\ key[j] \notin DOMAIN late => late'[key[j]] = e
    BY <1>1, <2>2 DEF Inserted, Row
  <2>4. Rows'
    BY <1>2, <2>1, <2>2, <2>3 DEF IInv, Rows
  <2> QED
    BY <1>1, <2>1, <2>2, <2>3, <2>4 DEF e, does
<1>6. CASE does = "reuse"
  <2>1. e \in DOMAIN opened
    BY <1>1, <1>6 DEF Stands
  <2>2. /\ opened' = opened /\ triggers' = triggers /\ late' = late /\ cache' = cache
    BY <1>6 DEF Commit
  <2> QED
    BY <1>1, <2>1, <2>2 DEF IInv, Rows
<1> QED
  BY <1>1, <1>3, <1>4, <1>5, <1>6 DEF Stands, Plans

\* The commit opens an episode only where no window of the token meets it, and
\* disturbs the plan of no other assignment, which is of another token.
LEMMA CommitPreserves ==
  ASSUME IInv, NEW j \in Jobs, Commit(j)
  PROVE  IInv'
<1>1. /\ pc[j] = "writing" /\ Goto(j, "remembering")
      /\ UNCHANGED <<now, key, at, inline, plan, tries, cache, writerVars, phase,
                     faults>>
      /\ gate' = IF gate = j THEN Nobody ELSE gate
  BY DEF Commit, LeaveGate
<1>2. UNCHANGED <<queue, batch, wpc, stopping, fatal>>
  BY <1>1 DEF writerVars
<1>3. pc'[j] = "remembering" /\ \A i \in Jobs \ {j} : pc'[i] = pc[i]
  BY <1>1 DEF Goto, IInv, Shapes, TypeOK
<1>4. j \notin inline /\ inline \subseteq Jobs /\ InLane(j)
  BY <1>1 DEF IInv, OnLoop, Shapes, TypeOK, InLane, Assigning
<1>5. Shapes'
  <2>1. /\ DOMAIN opened' \subseteq Keys /\ Range(opened') \subseteq 0 .. MaxTime
        /\ DOMAIN triggers' \subseteq Keys /\ Range(triggers') \subseteq Keys
        /\ DOMAIN late' \subseteq Keys /\ Range(late') \subseteq Keys
    <3>1. key[j] \in Keys /\ DOMAIN triggers \subseteq Keys
      BY DEF IInv, Shapes, TypeOK
    <3> QED
      BY <3>1, CommitWrites DEF Range
  <2>2. gate' \in Jobs \cup {Nobody}
    BY <1>1 DEF IInv, Shapes, TypeOK
  <2>3. TypeOK'
    BY <1>1, <1>2, <2>1, <2>2 DEF Goto, IInv, Shapes, TypeOK, Assigning
  <2> QED
    BY <1>1, <1>2, <2>3, CommitWrites DEF IInv, Shapes
<1>6. OnLoop'
  <2>1. \A i \in Jobs : Known(i) \subseteq Known(i)'
    BY <1>1, CommitWrites DEF Known, Token, InWindow, IInv, Rows
  <2>2. \A i \in inline' : pc'[i] \in {"inline", "reported", "raised"}
    BY <1>1, <1>3, <1>4 DEF IInv, OnLoop
  <2>3. ASSUME NEW i \in Jobs, pc'[i] = "inline"
        PROVE  i \in inline' /\ Known(i)' # {}
    BY <1>1, <1>3, <2>1, <2>3 DEF IInv, OnLoop
  <2> QED
    BY <2>2, <2>3 DEF OnLoop
<1>7. Locked'
  BY <1>1, <1>3, <1>4 DEF IInv, Locked, InLane, Assigning, Token
<1>8. PlansStand'
  <2>1. ASSUME NEW i \in Jobs \ {j}, pc[i] = "writing" PROVE Stands(i)'
    <3>1. Stands(i) /\ InLane(i)
      BY <2>1 DEF IInv, PlansStand, OnLoop, InLane, Assigning
    <3>2. Token(i) # Token(j) /\ TokenOf[key[i]] # TokenOf[key[j]] /\ key[i] # key[j]
      BY <1>4, <3>1 DEF IInv, Locked, Token
    <3>3. Token(i)' = Token(i) /\ key'[i] = key[i] /\ plan'[i] = plan[i]
      BY <1>1 DEF Token
    <3>4. Current(i)' = Current(i) /\ Later(i)' = Later(i)
      <4>1. \A e \in DOMAIN opened' : TokenOf[e] = Token(i) =>
              e \in DOMAIN opened /\ opened'[e] = opened[e]
        BY <3>2, CommitWrites DEF Token
      <4> QED
        BY <1>1, <3>3, <4>1, CommitWrites DEF Current, Later, Holds
    <3>5. plan[i].episode \in DOMAIN opened => plan[i].episode \in DOMAIN opened'
      BY CommitWrites
    <3>6. key[i] \notin DOMAIN triggers => key[i] \notin DOMAIN triggers'
      BY <3>2, CommitWrites
    <3> QED
      BY <3>1, <3>3, <3>4, <3>5, <3>6 DEF Stands
  <2>2. ASSUME NEW i \in Jobs \ {j}, pc[i] = "remembering"
        PROVE  plan'[i] \in Plans /\ plan'[i].episode \in DOMAIN opened'
    BY <1>1, <2>2, CommitWrites DEF IInv, PlansStand
  <2>3. plan'[j] \in Plans /\ plan'[j].episode \in DOMAIN opened'
    BY <1>1, CommitWrites DEF IInv, PlansStand, Stands
  <2> QED
    BY <1>3, <2>1, <2>2, <2>3 DEF PlansStand
<1>9. Admitted'
  BY <1>1, <1>2, <1>3 DEF IInv, Admitted
<1>10. WindowsDisjoint'
  <2>1. SUFFICES ASSUME NEW e \in DOMAIN opened', NEW f \in DOMAIN opened',
                        e # f, TokenOf[e] = TokenOf[f],
                        e \notin DOMAIN opened \/ opened'[e] = opened[e]
                 PROVE  \/ opened'[e] + Window <= opened'[f]
                        \/ opened'[f] + Window <= opened'[e]
    BY CommitWrites DEF WindowsDisjoint
  <2>2. ASSUME NEW n \in DOMAIN opened' \ DOMAIN opened, NEW o \in DOMAIN opened,
               TokenOf[n] = TokenOf[o]
        PROVE  \/ opened'[n] + Window <= opened'[o]
               \/ opened'[o] + Window <= opened'[n]
    <3>1. /\ n = key[j] /\ opened'[n] = at[j] /\ opened'[o] = opened[o]
          /\ Current(j) = {} /\ Later(j) = {}
      BY <1>1, CommitWrites DEF IInv, PlansStand, Stands
    <3>2. ~Holds(o, at[j]) /\ ~(at[j] < opened[o] /\ opened[o] < at[j] + Window)
      BY <2>2, <3>1 DEF Current, Later, Token
    <3>3. at[j] \in Nat /\ opened[o] \in Nat /\ Window \in Nat
      BY EpisodeAssumption DEF IInv, Shapes, TypeOK
    <3> QED
      BY <3>1, <3>2, <3>3 DEF Holds
  <2>3. CASE e \in DOMAIN opened /\ f \in DOMAIN opened
    BY <2>1, <2>3, CommitWrites DEF IInv, WindowsDisjoint
  <2>4. CASE e \notin DOMAIN opened /\ f \in DOMAIN opened
    BY <2>1, <2>2, <2>4
  <2>5. CASE e \in DOMAIN opened /\ f \notin DOMAIN opened
    BY <2>1, <2>2, <2>5
  <2>6. CASE e \notin DOMAIN opened /\ f \notin DOMAIN opened
    BY <2>1, <2>6, CommitWrites
  <2> QED
    BY <2>3, <2>4, <2>5, <2>6
<1>11. ContinuationsFit' /\ Handed'
  <2>1. \A r : Fits(r) => Fits(r)'
    BY <1>1, CommitWrites DEF Fits, Token, Holds
  <2> QED
    BY <1>1, <1>2, <1>3, <2>1, QueuedRecords DEF IInv, ContinuationsFit, Handed
<1> QED
  BY <1>5, <1>6, <1>7, <1>8, <1>9, <1>10, <1>11, CommitWrites DEF IInv

LEMMA NextInvariant ==
  IInv /\ [Next]_vars => IInv'
<1> SUFFICES ASSUME IInv, [Next]_vars PROVE IInv'
  OBVIOUS
<1>1. CASE Tick \/ Deadline \/ EndCollect \/ UNCHANGED vars
  <2>1. /\ UNCHANGED <<jobVars, storeVars, cache, gate, queue, batch>>
        /\ UNCHANGED <<stopping, fatal, faults>>
        /\ wpc' = wpc \/ (wpc = "collecting" /\ wpc' = "waiting")
        /\ phase' = phase \/ phase' = "ending"
        /\ now' = now \/ (now < MaxTime /\ now' = now + 1)
    BY <1>1 DEF Tick, Deadline, EndCollect, vars, writerVars
  <2>2. now' \in 0 .. MaxTime
    BY <2>1, EpisodeAssumption DEF IInv, Shapes, TypeOK
  <2>3. TypeOK'
    BY <2>1, <2>2 DEF jobVars, storeVars, IInv, Shapes, TypeOK
  <2> QED
    BY <2>1, <2>3, QuietPreserves
<1>2. CASE CloseWriter
  BY <1>2, CloseWriterPreserves
<1>3. CASE Take \/ Persist \/ PersistFails
  BY <1>3, TakePreserves, PersistPreserves, PersistFailsPreserves
<1>4. ASSUME NEW j \in Jobs, Arrive(j) \/ Classify(j) \/ Start(j) \/ Busy(j) \/ Report(j)
      PROVE  IInv'
  BY <1>4, ArrivePreserves, ClassifyPreserves, StartPreserves, BusyPreserves,
     ReportPreserves
<1>5. ASSUME NEW j \in Jobs, FinalizeInline(j) \/ Thread(j)
      PROVE  IInv'
  BY <1>5, FinalizePreserves, LockPreserves, EnterGatePreserves, SelectPreserves,
     CommitPreserves, RememberPreserves DEF Thread
<1> QED
  BY <1>1, <1>2, <1>3, <1>4, <1>5 DEF Next, Continuations

\* The inductive invariant: the locks of the tokens exclude each other, nothing
\* but the holder of a token's lock changes what its plan was decided on, and the
\* cache knows nothing that is not stored.
THEOREM Invariance == Spec => []IInv
BY InitInvariant, NextInvariant, PTL DEF Spec

-----------------------------------------------------------------------------

\* The variables of the store, the cache and the writer keep their types.
THEOREM TypeCorrect == Spec => []TypeOK
<1>1. IInv => TypeOK
  BY DEF IInv, Shapes
<1> QED
  BY Invariance, <1>1, PTL

\* No retroactive enrollment: the windows of the episodes of a token never
\* overlap, however the two pipelines, the retries and redeliveries interleave.
THEOREM OneOpenEpisode == Spec => []WindowsDisjoint
<1>1. IInv => WindowsDisjoint
  BY DEF IInv
<1> QED
  BY Invariance, <1>1, PTL

\* Every record that waits for the continuation writer names a stored episode of
\* its token whose window contains it.
THEOREM CacheMatchesStore == Spec => []ContinuationsFit
<1>1. IInv => ContinuationsFit
  BY DEF IInv
<1> QED
  BY Invariance, <1>1, PTL

\* Assignments of one token are serial and none runs on the event loop.
THEOREM AssignmentsAreSerial == Spec => []OpenersSerialized
<1>1. ASSUME IInv, NEW j \in Jobs, pc[j] \in Assigning
      PROVE  j \notin inline /\ InLane(j)
  BY <1>1 DEF IInv, OnLoop, InLane, Assigning
<1>2. IInv => OpenersSerialized
  BY <1>1 DEF IInv, Locked, OpenersSerialized
<1> QED
  BY Invariance, <1>2, PTL

\* The plain INSERTs never meet a row: between the SELECT that did not find the
\* trigger and the commit nobody stores it, the continuation writer included.
NoRowCollides ==
    \A j \in Jobs :
        pc[j] = "writing" =>
            /\ plan[j].does \in {"open", "join"} => key[j] \notin DOMAIN triggers
            /\ plan[j].does = "open" => plan[j].episode \notin DOMAIN opened

\* No INSERT of an assignment violates a UNIQUE constraint.
THEOREM InsertsNeverCollide == Spec => []NoRowCollides
<1>1. IInv => NoRowCollides
  BY DEF IInv, PlansStand, Stands, Rows, NoRowCollides
<1> QED
  BY Invariance, <1>1, PTL

\* The writer's fatal error has one cause, a locked database.
FatalMeansLocked == fatal => faults > 0

\* The continuation writer never fails of what it was given.
THEOREM OnlyLocksFailTheWriter == Spec => []FatalMeansLocked
<1>1. Init => FatalMeansLocked
  BY DEF Init, FatalMeansLocked
<1>2. IInv /\ FatalMeansLocked /\ [Next]_vars => FatalMeansLocked'
  <2> SUFFICES ASSUME IInv, FatalMeansLocked, [Next]_vars PROVE FatalMeansLocked'
    OBVIOUS
  <2>1. faults \in Nat
    BY EpisodeAssumption DEF IInv, Shapes, TypeOK
  <2>2. CASE PersistFails
    <3>1. Range(batch) \subseteq Records
      BY DEF IInv, Shapes, Range
    <3>2. \A r \in Range(batch) : Fits(r)
      BY <3>1 DEF IInv, ContinuationsFit, Records, Sentinel, Jobs
    <3> QED
      BY <2>1, <2>2, <3>2 DEF PersistFails, FatalMeansLocked
  <2>3. ASSUME NEW j \in Jobs, Busy(j) PROVE faults' = faults + 1 /\ fatal' = fatal
    BY <2>3 DEF Busy, writerVars
  <2>4. ASSUME \/ Tick \/ Deadline \/ CloseWriter \/ Take \/ EndCollect \/ Persist
               \/ UNCHANGED vars
               \/ \E j \in Jobs : \/ Arrive(j) \/ Classify(j) \/ FinalizeInline(j)
                                  \/ Start(j) \/ Thread(j) \/ Report(j)
        PROVE  faults' = faults /\ fatal' = fatal
    BY <2>4 DEF Tick, Deadline, CloseWriter, Take, EndCollect, Persist, vars, Arrive,
       Classify, FinalizeInline, Lookup, Start, Thread, Lock, Finalize, EnterGate,
       Select, Commit, Remember, Report, writerVars
  <2>5. \/ PersistFails \/ (faults' = faults /\ fatal' = fatal)
        \/ (faults' = faults + 1 /\ fatal' = fatal)
    BY <2>3, <2>4 DEF Next, Continuations
  <2>6. CASE faults' = faults /\ fatal' = fatal
    BY <2>6 DEF FatalMeansLocked
  <2>7. CASE faults' = faults + 1 /\ fatal' = fatal
    <3>1. faults' > 0
      BY <2>1, <2>7
    <3> QED
      BY <3>1 DEF FatalMeansLocked
  <2> QED
    BY <2>2, <2>5, <2>6, <2>7
<1> QED
  BY <1>1, <1>2, Invariance, PTL DEF Spec

=============================================================================
