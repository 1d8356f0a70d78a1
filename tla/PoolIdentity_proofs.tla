------------------------- MODULE PoolIdentity_proofs -------------------------
(* What the resolution of pool identities guarantees for any calls, pools,
   rows of earlier runs, clock, batches and endpoints: the earliest mapping is
   kept, an identity is learned once, and none is used that is dated back. *)
EXTENDS PoolIdentity, SharedLemmas, SequenceTheorems

\* Where a call holds its pool's lock, and where it is on its way to a row that
\* is not there yet.
Searching == {"history", "permit", "hydrating", "answered", "refused", "record"}
Holding == Searching \cup {"recheck", "reload"}
Labels == Holding \cup {"new", "look", "looked", "queued", "over"}

InBatch(s) == {batches[s].items[i] : i \in DOMAIN batches[s].items}

Typed ==
    /\ TypeOK
    /\ pc \in [Calls -> Labels]
    /\ hydrationQueue \in Seq(Calls)
    /\ batches \in [Slots -> [items : Seq(Calls), pending : Int, running : Int]]

\* The lock of a pool is a queue whose head holds it.
Locks ==
    /\ \A p \in Pools : Once(line[p])
    /\ \A p \in Pools : \A c \in Elems(line[p]) :
          PoolOf[c] = p /\ pc[c] \in Holding \cup {"queued"}
    /\ \A c \in Calls : pc[c] \in Holding =>
          line[PoolOf[c]] # <<>> /\ Head(line[PoolOf[c]]) = c
    /\ \A c \in Calls : pc[c] = "queued" => c \in Elems(line[PoolOf[c]])

\* A call waits for one batch only.
Hydrations ==
    /\ Once(hydrationQueue)
    /\ \A c \in Elems(hydrationQueue) : pc[c] = "hydrating"
    /\ \A s \in Slots : \A c \in InBatch(s) :
          pc[c] = "hydrating" /\ c \notin Elems(hydrationQueue)
    /\ \A s, u \in Slots : s # u => InBatch(s) \cap InBatch(u) = {}

\* Who asks for an identity does so because the run has no row.
Searches ==
    /\ \A c \in Calls : KindOf[c] = "resolve" /\ pc[c] \in Searching =>
          row[PoolOf[c]] = NoMapping
    /\ \A p \in Pools : learned[p] <= 1 /\ (row[p] = NoMapping => learned[p] = 0)
    /\ \A c \in Calls : pc[c] = "reload" => row[PoolOf[c]] # NoMapping

\* A mapping that there was proof of at its time, and one that is durable too.
Proven(p, m) ==
    m \in history[p] \/ (m.id = IdentityOf[p] /\ provenAt[p] <= m.at)

Sound(p, m) == row[p] # NoMapping /\ row[p].at <= m.at /\ Proven(p, m)

Backed ==
    /\ \A p \in Pools : row[p] # NoMapping => Proven(p, row[p])
    /\ \A p \in Pools : cache[p] # NoMapping => Sound(p, cache[p])
    /\ \A c \in Calls : pc[c] \in {"looked", "over"} /\ got[c] # NoMapping =>
          Sound(PoolOf[c], got[c])
    /\ \A c \in Calls : pc[c] = "record" =>
          got[c] # NoMapping /\ Proven(PoolOf[c], got[c])
    /\ \A c \in Calls : pc[c] \in {"permit", "hydrating", "answered", "refused"} =>
          got[c] = NoMapping \/ provenAt[PoolOf[c]] <= now
    /\ \A c \in Calls : KindOf[c] = "create" /\ pc[c] # "new" =>
          provenAt[PoolOf[c]] <= observed[c]

IInv ==
    /\ Typed
    /\ Locks /\ Hydrations
    /\ EarliestWins
    /\ Searches /\ Backed

-----------------------------------------------------------------------------
(* The lock of a pool.                                                     *)

\* Two calls do not hold one pool.
LEMMA OneHolder ==
  ASSUME Typed, Locks, NEW c \in Calls, NEW d \in Calls,
         pc[c] \in Holding, pc[d] \in Holding, PoolOf[c] = PoolOf[d]
  PROVE  c = d
BY DEF Locks

\* A step of a call that leaves all locks as they are.
LEMMA LocksKept ==
  ASSUME Typed, Locks, NEW c \in Calls, UNCHANGED line,
         \A d \in Calls \ {c} : pc'[d] = pc[d],
         \/ pc[c] \in Holding /\ pc'[c] \in Holding
         \/ /\ pc[c] = "queued" /\ pc'[c] \in Holding
            /\ Head(line[PoolOf[c]]) = c
         \/ pc[c] \notin Holding \cup {"queued"} /\ pc'[c] \notin Holding \cup {"queued"}
  PROVE  Locks'
<1>1. PoolOf \in [Calls -> Pools] /\ \A p \in Pools : line[p] \in Seq(Calls)
  BY PoolsAssumption DEF Typed, TypeOK
<1>2. \A p \in Pools : Once(line[p])'
  BY DEF Locks, Once
<1>3. ASSUME NEW p \in Pools, NEW d \in Elems(line[p])
      PROVE  PoolOf[d] = p /\ pc'[d] \in Holding \cup {"queued"}
  <2>1. d \in Calls
    BY <1>1 DEF Elems
  <2> QED
    BY <2>1 DEF Locks
<1>4. ASSUME NEW d \in Calls, pc'[d] \in Holding
      PROVE  line[PoolOf[d]] # <<>> /\ Head(line[PoolOf[d]]) = d
  <2>1. CASE d = c
    <3>1. CASE pc[c] \in Holding
      BY <2>1, <3>1 DEF Locks
    <3>2. CASE pc[c] = "queued" /\ Head(line[PoolOf[c]]) = c
      <4>1. c \in Elems(line[PoolOf[c]])
        BY <3>2 DEF Locks
      <4>2. line[PoolOf[c]] # <<>>
        BY <1>1, <4>1 DEF Elems
      <4> QED
        BY <2>1, <3>2, <4>2
    <3> QED
      BY <1>4, <2>1, <3>1, <3>2
  <2>2. CASE d # c
    BY <1>4, <2>2 DEF Locks
  <2> QED
    BY <2>1, <2>2
<1>5. ASSUME NEW d \in Calls, pc'[d] = "queued" PROVE d \in Elems(line[PoolOf[d]])
  <2>1. "queued" \notin Holding
    BY DEF Holding, Searching
  <2>2. pc[d] = "queued"
    BY <1>5, <2>1
  <2> QED
    BY <2>2 DEF Locks
<1>6. \A p \in Pools : \A d \in Elems(line[p])' :
        PoolOf[d] = p /\ pc'[d] \in Holding \cup {"queued"}
  BY <1>3 DEF Elems
<1>7. \A d \in Calls : pc'[d] = "queued" => d \in Elems(line[PoolOf[d]])'
  BY <1>5 DEF Elems
<1> QED
  BY <1>2, <1>4, <1>6, <1>7 DEF Locks

\* A call that has not been in a queue gets the lock or queues for it.
LEMMA LockTaken ==
  ASSUME Typed, Locks, NEW c \in Calls,
         pc[c] \notin Holding \cup {"queued"},
         line' = [line EXCEPT ![PoolOf[c]] = Append(@, c)],
         \A d \in Calls \ {c} : pc'[d] = pc[d],
         pc'[c] = IF line[PoolOf[c]] = <<>> THEN "recheck" ELSE "queued"
  PROVE  Locks' /\ line' \in [Pools -> Seq(Calls)]
<1> DEFINE q == PoolOf[c]
<1>1. /\ PoolOf \in [Calls -> Pools] /\ line \in [Pools -> Seq(Calls)] /\ q \in Pools
      /\ line[q] \in Seq(Calls) /\ "queued" \notin Holding /\ "recheck" \in Holding
  BY PoolsAssumption DEF Typed, TypeOK, Holding, Searching
<1>2. c \notin Elems(line[q])
  BY <1>1 DEF Locks
<1>3. /\ Append(line[q], c) \in Seq(Calls)
      /\ Elems(Append(line[q], c)) = Elems(line[q]) \cup {c}
      /\ Once(line[q]) => Once(Append(line[q], c))
  BY <1>1, <1>2, AppendElems
<1>4. /\ Append(line[q], c) # <<>>
      /\ Head(Append(line[q], c)) = IF line[q] = <<>> THEN c ELSE Head(line[q])
  BY <1>1
<1>5. line'[q] = Append(line[q], c) /\ \A p \in Pools : p # q => line'[p] = line[p]
  BY <1>1
<1>6. line' \in [Pools -> Seq(Calls)]
  BY <1>1, <1>3
<1> HIDE DEF q
<1>7. \A p \in Pools : Once(line'[p])
  BY <1>3, <1>5 DEF Locks
<1>8. ASSUME NEW p \in Pools, NEW d \in Elems(line'[p])
      PROVE  PoolOf[d] = p /\ pc'[d] \in Holding \cup {"queued"}
  <2>1. CASE d = c
    <3>1. p = q
      BY <1>2, <1>5, <1>8, <2>1 DEF Locks, q
    <3> QED
      BY <1>1, <2>1, <3>1 DEF q
  <2>2. CASE d # c
    <3>1. d \in Elems(line[p])
      BY <1>3, <1>5, <1>8, <2>2
    <3>2. d \in Calls
      BY <1>1, <3>1 DEF Elems
    <3> QED
      BY <2>2, <3>1, <3>2 DEF Locks
  <2> QED
    BY <2>1, <2>2
<1>9. ASSUME NEW d \in Calls, pc'[d] \in Holding
      PROVE  line'[PoolOf[d]] # <<>> /\ Head(line'[PoolOf[d]]) = d
  <2>1. CASE d = c
    <3>1. line[q] = <<>>
      BY <1>1, <1>9, <2>1 DEF q
    <3> QED
      BY <1>4, <1>5, <2>1, <3>1 DEF q
  <2>2. CASE d # c
    <3>1. line[PoolOf[d]] # <<>> /\ Head(line[PoolOf[d]]) = d /\ PoolOf[d] \in Pools
      BY <1>1, <1>9, <2>2 DEF Locks
    <3> QED
      BY <1>4, <1>5, <3>1
  <2> QED
    BY <2>1, <2>2
<1>10. ASSUME NEW d \in Calls, pc'[d] = "queued" PROVE d \in Elems(line'[PoolOf[d]])
  <2>1. CASE d = c
    BY <1>3, <1>5, <2>1 DEF q
  <2>2. CASE d # c
    <3>1. d \in Elems(line[PoolOf[d]]) /\ PoolOf[d] \in Pools
      BY <1>1, <1>10, <2>2 DEF Locks
    <3> QED
      BY <1>3, <1>5, <3>1
  <2> QED
    BY <2>1, <2>2
<1> QED
  BY <1>6, <1>7, <1>8, <1>9, <1>10 DEF Locks, Once, Elems

\* The head of the queue leaves it.
LEMMA LockLeft ==
  ASSUME Typed, Locks, NEW c \in Calls, Leave(c),
         \/ pc[c] \in Holding
         \/ pc[c] = "queued" /\ Head(line[PoolOf[c]]) = c,
         \A d \in Calls \ {c} : pc'[d] = pc[d],
         pc'[c] \notin Holding \cup {"queued"}
  PROVE  Locks' /\ line' \in [Pools -> Seq(Calls)]
<1> DEFINE q == PoolOf[c]
<1>1. /\ PoolOf \in [Calls -> Pools] /\ line \in [Pools -> Seq(Calls)] /\ q \in Pools
      /\ line[q] \in Seq(Calls) /\ "queued" \notin Holding
      /\ line' = [line EXCEPT ![q] = Tail(line[q])]
  BY PoolsAssumption DEF Typed, TypeOK, Holding, Searching, Leave
<1>2. line[q] # <<>> /\ Head(line[q]) = c /\ Once(line[q])
  <2>1. pc[c] = "queued" => c \in Elems(line[q])
    BY DEF Locks
  <2>2. c \in Elems(line[q]) => line[q] # <<>>
    BY <1>1 DEF Elems
  <2> QED
    BY <1>1, <2>1, <2>2 DEF Locks
<1>3. /\ Tail(line[q]) \in Seq(Calls)
      /\ Elems(line[q]) = Elems(Tail(line[q])) \cup {c}
      /\ Once(Tail(line[q])) /\ c \notin Elems(Tail(line[q]))
  BY <1>1, <1>2, TailElems
<1>4. line'[q] = Tail(line[q]) /\ \A p \in Pools : p # q => line'[p] = line[p]
  BY <1>1
<1>5. line' \in [Pools -> Seq(Calls)]
  BY <1>1, <1>3
<1> HIDE DEF q
<1>6. \A p \in Pools : Once(line'[p])
  BY <1>3, <1>4 DEF Locks
<1>7. ASSUME NEW p \in Pools, NEW d \in Elems(line'[p])
      PROVE  PoolOf[d] = p /\ pc'[d] \in Holding \cup {"queued"}
  <2>1. d \in Elems(line[p])
    BY <1>3, <1>4, <1>7
  <2>2. d \in Calls
    BY <1>1, <2>1 DEF Elems
  <2>3. d # c
    BY <1>3, <1>4, <1>7, <2>1 DEF Locks, q
  <2> QED
    BY <2>1, <2>2, <2>3 DEF Locks
<1>8. ASSUME NEW d \in Calls, pc'[d] \in Holding
      PROVE  line'[PoolOf[d]] # <<>> /\ Head(line'[PoolOf[d]]) = d
  <2>1. d # c /\ PoolOf[d] \in Pools
    BY <1>1, <1>8
  <2>2. line[PoolOf[d]] # <<>> /\ Head(line[PoolOf[d]]) = d
    BY <1>8, <2>1 DEF Locks
  <2> QED
    BY <1>2, <1>4, <2>1, <2>2
<1>9. ASSUME NEW d \in Calls, pc'[d] = "queued" PROVE d \in Elems(line'[PoolOf[d]])
  <2>1. d # c /\ PoolOf[d] \in Pools
    BY <1>1, <1>9
  <2>2. d \in Elems(line[PoolOf[d]])
    BY <1>9, <2>1 DEF Locks
  <2> QED
    BY <1>3, <1>4, <2>1, <2>2
<1> QED
  BY <1>5, <1>6, <1>7, <1>8, <1>9 DEF Locks, Once, Elems

-----------------------------------------------------------------------------
(* The mappings.                                                           *)

\* The order of the store: what precedes is not later.
LEMMA PrecedesFacts ==
  ASSUME NEW m \in Mappings, NEW n \in Mappings
  PROVE  /\ m.at \in Times /\ m.id \in Nat
         /\ Precedes(m, n) => m.at <= n.at
         /\ ~Precedes(m, n) => n.at <= m.at
         /\ ~Precedes(m, m)
         /\ \A k \in Mappings : ~Precedes(m, n) /\ ~Precedes(k, m) => ~Precedes(k, n)
         /\ \A k \in Mappings : Precedes(m, n) /\ ~Precedes(k, n) => ~Precedes(k, m)
<1>1. ASSUME NEW k \in Mappings
      PROVE  k.at \in Times /\ k.at \in Int /\ k.id \in Nat
  <2>1. k.id \in Identities /\ k.at \in Times
    BY DEF Mappings
  <2>2. k.at \in Int
    BY <2>1 DEF Times
  <2>3. k.id \in Nat
    BY <2>1, PoolsAssumption, Zenon
  <2> QED
    BY <2>1, <2>2, <2>3
<1>2. \A k \in Mappings : ~Precedes(m, n) /\ ~Precedes(k, m) => ~Precedes(k, n)
  BY <1>1 DEF Precedes
<1>3. \A k \in Mappings : Precedes(m, n) /\ ~Precedes(k, n) => ~Precedes(k, m)
  BY <1>1 DEF Precedes
<1>4. /\ Precedes(m, n) => m.at <= n.at
      /\ ~Precedes(m, n) => n.at <= m.at
      /\ ~Precedes(m, m)
  BY <1>1 DEF Precedes
<1> QED
  BY <1>1, <1>2, <1>3, <1>4

LEMMA TrueIsMapping ==
  ASSUME NEW p \in Pools, NEW t \in Times
  PROVE  True(p, t) \in Mappings /\ True(p, t).id = IdentityOf[p] /\ True(p, t).at = t
BY PoolsAssumption DEF True, Mappings

LEMMA EarlierFacts ==
  ASSUME NEW s \in Int, NEW t \in Int
  PROVE  /\ Earlier(s, t) \in {s, t}
         /\ Earlier(s, t) <= s /\ Earlier(s, t) <= t
BY DEF Earlier

\* What proves a mapping goes on proving it.
LEMMA ProvenStays ==
  ASSUME Typed, NEW p \in Pools, NEW m \in Mappings, Proven(p, m),
         UNCHANGED history, provenAt'[p] \in Int, provenAt'[p] <= provenAt[p]
  PROVE  Proven(p, m)'
<1>1. provenAt[p] \in Int /\ m.at \in Int
  BY PoolsAssumption DEF Typed, TypeOK, Mappings, Times, Never
<1> QED
  BY <1>1 DEF Proven

\* load_known_pumpswap_pool_mapping finds one of the rows it has read.
LEMMA RememberedFacts ==
  ASSUME Typed, NEW c \in Calls, Remembered(c) # NoMapping
  PROVE  /\ Remembered(c) \in Mappings
         /\ Remembered(c) \in history[PoolOf[c]] \cup ({row[PoolOf[c]]} \ {NoMapping})
<1> DEFINE p == PoolOf[c]
           rows == {m \in history[p] \cup ({row[p]} \ {NoMapping}) : m.at <= observed[c]}
           ats == {m.at : m \in rows}
<1>1. /\ p \in Pools /\ rows \subseteq Mappings
      /\ rows \subseteq history[p] \cup ({row[p]} \ {NoMapping})
  BY PoolsAssumption DEF Typed, TypeOK
<1>2. /\ Cardinality({m.id : m \in rows}) = 1
      /\ Remembered(c) = CHOOSE m \in rows : \A n \in rows : m.at <= n.at
  BY DEF Remembered
<1> HIDE DEF rows, p
<1>3. rows # {}
  <2>1. rows = {} => {m.id : m \in rows} = {}
    OBVIOUS
  <2> QED
    BY <1>2, <2>1, FS_EmptySet
<1>4. ats \in SUBSET Nat /\ ats # {}
  BY <1>1, <1>3 DEF Mappings, Times
<1>5. PICK t \in ats : \A u \in ats : t <= u
  <2> HIDE DEF ats
  <2> QED
    BY <1>4, MinimumExists
<1>6. \E m \in rows : \A n \in rows : m.at <= n.at
  BY <1>5
<1>7. Remembered(c) \in rows
  BY <1>2, <1>6
<1> QED
  BY <1>1, <1>7 DEF p

\* A step of one call that leaves the store as it is.  What the call has then
\* must be worth what its place says.
Moves(c) ==
    /\ \A d \in Calls \ {c} : pc'[d] = pc[d] /\ got'[d] = got[d]
    /\ got'[c] \in Mappings \cup {NoMapping}
    /\ KindOf[c] = "resolve" /\ pc'[c] \in Searching => row[PoolOf[c]] = NoMapping
    /\ pc'[c] # "reload"
    /\ pc'[c] \in {"looked", "over"} /\ got'[c] # NoMapping => Sound(PoolOf[c], got'[c])
    /\ pc'[c] = "record" => got'[c] # NoMapping /\ Proven(PoolOf[c], got'[c])
    /\ pc'[c] \in {"permit", "hydrating", "answered", "refused"} => got'[c] = NoMapping

\* The rest of such a step: time stands still and proof is only added.
Around ==
    /\ UNCHANGED <<now, history, row, recorded, learned>>
    /\ \A p \in Pools : provenAt'[p] \in Int /\ provenAt'[p] <= provenAt[p]
    /\ cache' \in [Pools -> Mappings \cup {NoMapping}]
    /\ \A p \in Pools : cache'[p] # NoMapping => Sound(p, cache'[p])
    /\ \A d \in Calls : KindOf[d] = "create" /\ pc'[d] # "new" =>
          provenAt'[PoolOf[d]] <= observed'[d]

LEMMA MoveKeeps ==
  ASSUME IInv, NEW c \in Calls, Moves(c), Around
  PROVE  EarliestWins' /\ Searches' /\ Backed'
<1>1. /\ PoolOf \in [Calls -> Pools]
      /\ row \in [Pools -> Mappings \cup {NoMapping}] /\ UNCHANGED <<row, history>>
      /\ got \in [Calls -> Mappings \cup {NoMapping}]
      /\ \A p \in Pools : provenAt[p] \in Int /\ now \in Int
      /\ Typed /\ Searches /\ Backed
  BY SMTT(30), PoolsAssumption DEF IInv, Typed, TypeOK, Around, Times, Never
<1>2. ASSUME NEW p \in Pools, NEW m \in Mappings, Proven(p, m) PROVE Proven(p, m)'
  BY <1>1, <1>2, ProvenStays DEF Around
<1>3. ASSUME NEW p \in Pools, NEW m \in Mappings, Sound(p, m) PROVE Sound(p, m)'
  BY <1>1, <1>2, <1>3 DEF Sound
<1>4. EarliestWins'
  BY DEF IInv, EarliestWins, Around
<1>5. Searches'
  BY <1>1 DEF Searches, Moves, Around
<1>6. \A p \in Pools : row'[p] # NoMapping => Proven(p, row[p])'
  BY <1>1, <1>2 DEF Backed
<1>7. \A p \in Pools : cache'[p] # NoMapping => Sound(p, cache[p])'
  <2>1. ASSUME NEW p \in Pools, cache'[p] # NoMapping PROVE Sound(p, cache[p])'
    <3>1. cache'[p] \in Mappings /\ Sound(p, cache'[p])
      BY <2>1 DEF Around
    <3> QED
      BY <1>1, <1>2, <3>1 DEF Sound
  <2> QED
    BY <2>1
<1>8. ASSUME NEW d \in Calls, pc'[d] \in {"looked", "over"}, got'[d] # NoMapping
      PROVE  Sound(PoolOf[d], got[d])'
  <2>1. got'[d] \in Mappings /\ Sound(PoolOf[d], got'[d]) /\ PoolOf[d] \in Pools
    BY <1>1, <1>8 DEF Moves, Backed
  <2> QED
    BY <1>1, <1>2, <2>1 DEF Sound
<1>9. ASSUME NEW d \in Calls, pc'[d] = "record"
      PROVE  got'[d] # NoMapping /\ Proven(PoolOf[d], got[d])'
  <2>1. /\ got'[d] \in Mappings \cup {NoMapping} /\ got'[d] # NoMapping
        /\ Proven(PoolOf[d], got'[d]) /\ PoolOf[d] \in Pools
    BY <1>1, <1>9 DEF Moves, Backed
  <2>2. Proven(PoolOf[d], got[d])'
    BY <1>1, <2>1 DEF Proven, Around, Mappings, Times
  <2> QED
    BY <2>1, <2>2
<1>10. ASSUME NEW d \in Calls, pc'[d] \in {"permit", "hydrating", "answered", "refused"}
       PROVE  got'[d] = NoMapping \/ provenAt'[PoolOf[d]] <= now'
  <2>1. CASE d = c
    BY <1>10, <2>1 DEF Moves
  <2>2. CASE d # c
    <3>1. got[d] = NoMapping \/ provenAt[PoolOf[d]] <= now
      BY <1>1, <1>10, <2>2 DEF Moves, Backed
    <3>2. provenAt'[PoolOf[d]] <= provenAt[PoolOf[d]] /\ got'[d] = got[d]
      BY <1>1, <2>2 DEF Moves, Around
    <3> QED
      BY <1>1, <3>1, <3>2 DEF Around
  <2> QED
    BY <2>1, <2>2
<1>11. Backed'
  BY <1>6, <1>7, <1>8, <1>9, <1>10 DEF Backed, Around
<1> QED
  BY <1>4, <1>5, <1>11

\* A call that neither was nor is now in a batch.
LEMMA HydrationsKept ==
  ASSUME Typed, Hydrations, NEW c \in Calls,
         \A d \in Calls \ {c} : pc'[d] = pc[d],
         pc[c] # "hydrating", UNCHANGED <<hydrationQueue, batches>>
  PROVE  Hydrations'
<1>1. \A s \in Slots : InBatch(s)' = InBatch(s) /\ InBatch(s) \subseteq Calls
  BY DEF InBatch, Typed
<1>2. Elems(hydrationQueue)' = Elems(hydrationQueue) /\ Elems(hydrationQueue) \subseteq Calls
  BY DEF Elems, Typed
<1>3. Once(hydrationQueue)'
  BY DEF Hydrations, Once
<1> QED
  BY <1>1, <1>2, <1>3 DEF Hydrations

LEMMA AroundStill ==
  ASSUME IInv, NEW c \in Calls, NEW m \in Mappings \cup {NoMapping},
         UNCHANGED <<now, storeVars, observed, provenAt>>,
         cache' \in {cache, [cache EXCEPT ![PoolOf[c]] = m]},
         m # NoMapping => Sound(PoolOf[c], m),
         \A d \in Calls : pc[d] = "new" => pc'[d] = "new"
  PROVE  Around
<1>1. /\ PoolOf[c] \in Pools /\ cache \in [Pools -> Mappings \cup {NoMapping}]
      /\ \A p \in Pools : provenAt[p] \in Int
      /\ Backed
  BY PoolsAssumption DEF IInv, Typed, TypeOK, Times, Never
<1>2. /\ cache' \in [Pools -> Mappings \cup {NoMapping}]
      /\ \A p \in Pools : cache'[p] # NoMapping => Sound(p, cache'[p])
  BY <1>1 DEF Backed
<1>3. \A d \in Calls : KindOf[d] = "create" /\ pc'[d] # "new" =>
          provenAt'[PoolOf[d]] <= observed'[d]
  BY <1>1 DEF Backed
<1> QED
  BY <1>1, <1>2, <1>3 DEF Around, storeVars

-----------------------------------------------------------------------------
(* Every step keeps the invariant.                                         *)

LEMMA InitInvariant == Init => IInv
<1> SUFFICES ASSUME Init PROVE IInv
  OBVIOUS
<1>1. Typed
  <2>1. history \in [Pools -> SUBSET Mappings]
    BY PoolsAssumption DEF Init
  <2>2. now \in Times /\ 0 \in Times /\ Never \in 0 .. Never
    BY PoolsAssumption DEF Init, Times, Never
  <2>3. TypeOK
    BY <2>1, <2>2 DEF Init, TypeOK
  <2>4. batches \in [Slots -> [items : Seq(Calls), pending : Int, running : Int]]
    BY DEF Init, NoBatch
  <2> QED
    BY <2>3, <2>4 DEF Init, Typed, Labels
<1>2. \A c \in Calls : pc[c] = "new" /\ "new" \notin Holding \cup {"queued"}
  BY DEF Init, Holding, Searching
<1>3. Locks
  <2>1. \A p \in Pools : Once(line[p]) /\ Elems(line[p]) = {}
    BY DEF Init, Once, Elems
  <2> QED
    BY <1>2, <2>1 DEF Locks
<1>4. Hydrations
  <2>1. \A s \in Slots : InBatch(s) = {}
    BY DEF Init, NoBatch, InBatch
  <2>2. Once(hydrationQueue) /\ Elems(hydrationQueue) = {}
    BY DEF Init, Once, Elems
  <2> QED
    BY <2>1, <2>2 DEF Hydrations
<1>5. EarliestWins
  BY DEF Init, EarliestWins
<1>6. Searches
  BY <1>2 DEF Init, Searches, Holding
<1>7. Backed
  BY <1>2 DEF Init, Backed
<1> QED
  BY <1>1, <1>3, <1>4, <1>5, <1>6, <1>7 DEF IInv

\* What a step on the event loop or in a thread does to the types.
LEMMA Types ==
  ASSUME Typed, NEW c \in Calls
  PROVE  /\ PoolOf[c] \in Pools /\ KindOf[c] \in {"resolve", "create"}
         /\ cache[PoolOf[c]] \in Mappings \cup {NoMapping}
         /\ row[PoolOf[c]] \in Mappings \cup {NoMapping}
         /\ got[c] \in Mappings \cup {NoMapping}
         /\ observed[c] \in Times /\ now \in Times /\ Times \subseteq Int
         /\ provenAt[PoolOf[c]] \in 0 .. Never /\ Times \subseteq 0 .. Never
         /\ NoMapping \notin Mappings
BY PoolsAssumption DEF Typed, TypeOK, Times, Never

LEMMA ResolvePreserves ==
  ASSUME IInv, NEW c \in Calls, Resolve(c)
  PROVE  IInv'
<1> DEFINE p == PoolOf[c]
<1>1. /\ Typed /\ Locks /\ Hydrations /\ Backed
      /\ pc[c] = "new" /\ KindOf[c] = "resolve"
      /\ UNCHANGED <<now, history, row, recorded, learned, cache, line, permits,
                     failedUntil, hydrationQueue, batches, provenAt>>
  BY DEF IInv, Resolve, storeVars, loopVars, netVars
<1>2. PICK t \in 0 .. now : observed' = [observed EXCEPT ![c] = t]
  BY DEF Resolve
<1>3. \/ pc' = [pc EXCEPT ![c] = "over"] /\ got' = [got EXCEPT ![c] = cache[p]]
         /\ cache[p] # NoMapping
      \/ pc' = [pc EXCEPT ![c] = "look"] /\ got' = got
  BY DEF Resolve, Return, Goto
<1>4. Typed'
  <2>1. t \in Times
    BY <1>1, <1>2, PoolsAssumption DEF Typed, TypeOK, Times
  <2> QED
    BY <1>1, <1>2, <1>3, <2>1, Types DEF Typed, TypeOK, Labels
<1>5. Moves(c)
  <2>1. pc \in [Calls -> Labels] /\ got \in [Calls -> Mappings \cup {NoMapping}]
    BY <1>1 DEF Typed, TypeOK
  <2>2. cache[p] # NoMapping => Sound(p, cache[p])
    BY <1>1, Types DEF Backed
  <2> QED
    BY <1>1, <1>3, <2>1, <2>2, Types DEF Moves, Searching
<1>6. Around
  <2>1. \A d \in Calls \ {c} : pc'[d] = pc[d] /\ observed'[d] = observed[d]
    BY <1>1, <1>2, <1>3 DEF Typed, TypeOK
  <2>2. \A q \in Pools : provenAt[q] \in Int
    BY <1>1 DEF Typed, TypeOK, Never
  <2> QED
    <3>1. \A d \in Calls : KindOf[d] = "create" /\ pc'[d] # "new" =>
            provenAt'[PoolOf[d]] <= observed'[d]
      BY <1>1, <2>1 DEF Backed
    <3>2. /\ cache' \in [Pools -> Mappings \cup {NoMapping}]
          /\ \A q \in Pools : cache'[q] # NoMapping => Sound(q, cache'[q])
      BY <1>1 DEF Typed, TypeOK, Backed
    <3> QED
      BY <1>1, <2>2, <3>1, <3>2 DEF Around
<1>7. Locks'
  <2>1. /\ \A d \in Calls \ {c} : pc'[d] = pc[d]
        /\ pc[c] \notin Holding \cup {"queued"} /\ pc'[c] \notin Holding \cup {"queued"}
    BY <1>1, <1>3 DEF Holding, Searching, Typed
  <2> QED
    BY <1>1, <2>1, LocksKept
<1>8. Hydrations'
  <2>1. \A d \in Calls \ {c} : pc'[d] = pc[d]
    BY <1>1, <1>3 DEF Typed
  <2> QED
    BY <1>1, <2>1, HydrationsKept
<1> QED
  BY <1>4, <1>5, <1>6, <1>7, <1>8, MoveKeeps DEF IInv

LEMMA CreatePreserves ==
  ASSUME IInv, NEW c \in Calls, Create(c)
  PROVE  IInv'
<1> DEFINE p == PoolOf[c]
<1>1. /\ Typed /\ Locks /\ Hydrations /\ Backed
      /\ pc[c] = "new" /\ KindOf[c] = "create"
      /\ line' = [line EXCEPT ![p] = Append(@, c)]
      /\ pc' = [pc EXCEPT ![c] = IF line[p] = <<>> THEN "recheck" ELSE "queued"]
      /\ UNCHANGED <<now, history, row, recorded, learned, cache, permits,
                     failedUntil, hydrationQueue, batches, got>>
  BY DEF IInv, Create, Goto, storeVars, netVars
<1>2. PICK t \in 0 .. now : /\ observed' = [observed EXCEPT ![c] = t]
                            /\ provenAt' = [provenAt EXCEPT ![p] = Earlier(@, t)]
  BY DEF Create
<1>3. /\ pc \in [Calls -> Labels] /\ got \in [Calls -> Mappings \cup {NoMapping}]
      /\ \A d \in Calls \ {c} : pc'[d] = pc[d] /\ observed'[d] = observed[d]
      /\ pc'[c] = IF line[p] = <<>> THEN "recheck" ELSE "queued"
      /\ observed'[c] = t /\ p \in Pools
  BY <1>1, <1>2, Types DEF Typed, TypeOK
<1>4. Locks' /\ line' \in [Pools -> Seq(Calls)]
  <2>1. pc[c] \notin Holding \cup {"queued"}
    BY <1>1 DEF Holding, Searching
  <2> QED
    BY <1>1, <1>3, <2>1, LockTaken
<1>5. /\ t \in Times /\ provenAt' \in [Pools -> 0 .. Never]
      /\ \A q \in Pools : /\ provenAt'[q] \in Int /\ provenAt[q] \in Int
                          /\ provenAt'[q] <= provenAt[q]
      /\ provenAt'[p] <= t
  <2>1. t \in Times /\ t \in Int /\ provenAt[p] \in 0 .. Never /\ t \in 0 .. Never
    BY <1>1, Types, PoolsAssumption DEF Times
  <2>2. /\ Earlier(provenAt[p], t) \in 0 .. Never
        /\ Earlier(provenAt[p], t) <= t /\ Earlier(provenAt[p], t) <= provenAt[p]
    BY <2>1, EarlierFacts
  <2>3. provenAt \in [Pools -> 0 .. Never]
    BY <1>1 DEF Typed, TypeOK
  <2> QED
    BY <1>2, <1>3, <2>1, <2>2, <2>3
<1>6. Typed'
  BY <1>1, <1>2, <1>3, <1>4, <1>5 DEF Typed, TypeOK, Labels, Holding
<1>7. Moves(c)
  BY <1>1, <1>3, Types DEF Moves, Searching
<1>8. Around
  <2>1. \A d \in Calls : KindOf[d] = "create" /\ pc'[d] # "new" =>
          provenAt'[PoolOf[d]] <= observed'[d]
    <3>1. ASSUME NEW d \in Calls, d # c, KindOf[d] = "create", pc[d] # "new"
          PROVE  provenAt'[PoolOf[d]] <= observed[d]
      <4>1. provenAt[PoolOf[d]] <= observed[d] /\ PoolOf[d] \in Pools /\ observed[d] \in Int
        BY <1>1, <3>1, Types DEF Backed
      <4> QED
        BY <1>5, <4>1
    <3> QED
      BY <1>3, <1>5, <3>1
  <2> QED
    BY <1>1, <1>5, <2>1 DEF Around, Backed, Typed, TypeOK
<1>9. Hydrations'
  BY <1>1, <1>3, HydrationsKept
<1> QED
  BY <1>4, <1>6, <1>7, <1>8, <1>9, MoveKeeps DEF IInv

LEMMA LookedPreserves ==
  ASSUME IInv, NEW c \in Calls, Looked(c)
  PROVE  IInv'
<1> DEFINE p == PoolOf[c]
<1>1. /\ Typed /\ Locks /\ Hydrations /\ Backed /\ pc[c] = "looked"
      /\ UNCHANGED <<now, storeVars, permits, failedUntil, hydrationQueue, batches,
                     observed, provenAt>>
      /\ pc \in [Calls -> Labels] /\ got \in [Calls -> Mappings \cup {NoMapping}]
      /\ line \in [Pools -> Seq(Calls)]
  BY DEF IInv, Looked, netVars, Typed, TypeOK
<1>2. /\ pc[c] # "hydrating" /\ pc[c] \notin Holding \cup {"queued"}
      /\ "over" \notin Holding \cup {"queued"}
  BY <1>1 DEF Holding, Searching
<1>3. /\ got[c] # NoMapping => Sound(p, got[c])
      /\ cache[p] # NoMapping => Sound(p, cache[p])
  BY <1>1, Types DEF Backed
<1>4. CASE /\ cache' = [cache EXCEPT ![p] = got[c]]
           /\ pc' = [pc EXCEPT ![c] = "over"] /\ UNCHANGED <<line, got>>
  <2>1. Typed'
    BY <1>1, <1>4, Types DEF Typed, TypeOK, Labels, storeVars
  <2>2. Moves(c)
    BY <1>1, <1>3, <1>4 DEF Moves, Searching
  <2>3. Around
    BY <1>1, <1>3, <1>4, AroundStill, Types
  <2>4. Locks' /\ Hydrations'
    BY <1>1, <1>2, <1>4, LocksKept, HydrationsKept
  <2> QED
    BY <2>1, <2>2, <2>3, <2>4, MoveKeeps DEF IInv
<1>5. CASE /\ pc' = [pc EXCEPT ![c] = "over"] /\ got' = [got EXCEPT ![c] = cache[p]]
           /\ UNCHANGED <<cache, line>>
  <2>1. Typed'
    BY <1>1, <1>5, Types DEF Typed, TypeOK, Labels, storeVars
  <2>2. Moves(c)
    BY <1>1, <1>3, <1>5, Types DEF Moves, Searching
  <2>3. Around
    BY <1>1, <1>5, AroundStill
  <2>4. Locks' /\ Hydrations'
    BY <1>1, <1>2, <1>5, LocksKept, HydrationsKept
  <2> QED
    BY <2>1, <2>2, <2>3, <2>4, MoveKeeps DEF IInv
<1>6. CASE /\ line' = [line EXCEPT ![p] = Append(@, c)]
           /\ pc' = [pc EXCEPT ![c] = IF line[p] = <<>> THEN "recheck" ELSE "queued"]
           /\ UNCHANGED <<cache, got>>
  <2>1. Locks' /\ line' \in [Pools -> Seq(Calls)]
    BY <1>1, <1>2, <1>6, LockTaken
  <2>2. Typed'
    BY <1>1, <1>6, <2>1 DEF Typed, TypeOK, Labels, Holding, storeVars
  <2>3. Moves(c)
    BY <1>1, <1>6 DEF Moves, Searching
  <2>4. Around
    BY <1>1, <1>6, AroundStill
  <2>5. Hydrations'
    BY <1>1, <1>2, <1>6, HydrationsKept
  <2> QED
    BY <2>1, <2>2, <2>3, <2>4, <2>5, MoveKeeps DEF IInv
<1> QED
  BY <1>4, <1>5, <1>6 DEF Looked, Keep, Return, Goto

LEMMA AcquirePreserves ==
  ASSUME IInv, NEW c \in Calls, Acquire(c)
  PROVE  IInv'
<1> DEFINE p == PoolOf[c]
<1>1. /\ Typed /\ Locks /\ Hydrations /\ Backed
      /\ pc[c] = "queued" /\ Head(line[p]) = c
      /\ UNCHANGED <<now, storeVars, cache, permits, failedUntil, hydrationQueue,
                     batches, observed, provenAt>>
      /\ pc \in [Calls -> Labels] /\ got \in [Calls -> Mappings \cup {NoMapping}]
      /\ line \in [Pools -> Seq(Calls)]
  BY DEF IInv, Acquire, netVars, Typed, TypeOK
<1>2. /\ "over" \notin Holding \cup {"queued"} /\ "recheck" \in Holding
      /\ "queued" \notin Holding
      /\ cache[p] # NoMapping => Sound(p, cache[p])
  BY <1>1, Types DEF Holding, Searching, Backed
<1>3. CASE /\ pc' = [pc EXCEPT ![c] = "over"] /\ got' = [got EXCEPT ![c] = cache[p]]
           /\ Leave(c)
  <2>1. Locks' /\ line' \in [Pools -> Seq(Calls)]
    BY <1>1, <1>2, <1>3, LockLeft
  <2>2. Typed'
    BY <1>1, <1>3, <2>1, Types DEF Typed, TypeOK, Labels, storeVars
  <2>3. Moves(c)
    BY <1>1, <1>2, <1>3, Types DEF Moves, Searching
  <2>4. Around
    BY <1>1, <1>3, AroundStill
  <2>5. Hydrations'
    BY <1>1, <1>3, HydrationsKept
  <2> QED
    BY <2>1, <2>2, <2>3, <2>4, <2>5, MoveKeeps DEF IInv
<1>4. CASE pc' = [pc EXCEPT ![c] = "recheck"] /\ UNCHANGED <<got, line>>
  <2>1. Typed'
    BY <1>1, <1>4 DEF Typed, TypeOK, Labels, Holding, storeVars
  <2>2. Moves(c)
    BY <1>1, <1>4 DEF Moves, Searching
  <2>3. Around
    BY <1>1, <1>4, AroundStill
  <2>4. Locks' /\ Hydrations'
    BY <1>1, <1>2, <1>4, LocksKept, HydrationsKept
  <2> QED
    BY <2>1, <2>2, <2>3, <2>4, MoveKeeps DEF IInv
<1> QED
  BY <1>3, <1>4 DEF Acquire, Return, Goto

LEMMA RecheckPreserves ==
  ASSUME IInv, NEW c \in Calls, Recheck(c)
  PROVE  IInv'
<1> DEFINE p == PoolOf[c]
<1>1. /\ Typed /\ Locks /\ Hydrations /\ Backed /\ pc[c] = "recheck"
      /\ UNCHANGED <<now, storeVars, permits, failedUntil, hydrationQueue, batches,
                     observed, provenAt>>
      /\ pc \in [Calls -> Labels] /\ got \in [Calls -> Mappings \cup {NoMapping}]
      /\ line \in [Pools -> Seq(Calls)]
  BY DEF IInv, Recheck, netVars, Typed, TypeOK
<1>2. /\ pc[c] \in Holding /\ "over" \notin Holding \cup {"queued"}
      /\ "record" \in Holding /\ "history" \in Holding
  BY <1>1 DEF Holding, Searching
<1>3. CASE /\ row[p] # NoMapping
           /\ Keep(c, row[p]) /\ Return(c, row[p]) /\ Leave(c)
  <2>1. /\ pc' = [pc EXCEPT ![c] = "over"] /\ got' = [got EXCEPT ![c] = row[p]]
        /\ cache' = [cache EXCEPT ![p] = row[p]]
    BY <1>3 DEF Keep, Return, Goto
  <2>2. Sound(p, row[p])
    BY <1>1, <1>3, Types, PrecedesFacts DEF Backed, Sound
  <2>3. Locks' /\ line' \in [Pools -> Seq(Calls)]
    BY <1>1, <1>2, <1>3, <2>1, LockLeft
  <2>4. Typed'
    BY <1>1, <2>1, <2>3, Types DEF Typed, TypeOK, Labels, storeVars
  <2>5. Moves(c)
    BY <1>1, <2>1, <2>2, Types DEF Moves, Searching
  <2>6. Around
    BY <1>1, <2>1, <2>2, Types, AroundStill
  <2>7. Hydrations'
    BY <1>1, <2>1, HydrationsKept
  <2> QED
    BY <2>3, <2>4, <2>5, <2>6, <2>7, MoveKeeps DEF IInv
<1>4. CASE /\ KindOf[c] = "create"
           /\ got' = [got EXCEPT ![c] = True(p, observed[c])]
           /\ Goto(c, "record") /\ UNCHANGED <<cache, line>>
  <2>1. pc' = [pc EXCEPT ![c] = "record"]
    BY <1>4 DEF Goto
  <2>2. /\ True(p, observed[c]) \in Mappings /\ True(p, observed[c]) # NoMapping
        /\ Proven(p, True(p, observed[c]))
    <3>1. provenAt[p] <= observed[c]
      BY <1>1, <1>4 DEF Backed
    <3> QED
      BY <1>1, <3>1, Types, TrueIsMapping DEF Proven
  <2>3. Typed'
    BY <1>1, <1>4, <2>1, <2>2 DEF Typed, TypeOK, Labels, Holding, Searching, storeVars
  <2>4. Moves(c)
    BY <1>1, <1>4, <2>1, <2>2 DEF Moves
  <2>5. Around
    BY <1>1, <1>4, <2>1, AroundStill
  <2>6. Locks' /\ Hydrations'
    BY <1>1, <1>2, <1>4, <2>1, LocksKept, HydrationsKept
  <2> QED
    BY <2>3, <2>4, <2>5, <2>6, MoveKeeps DEF IInv
<1>5. CASE /\ KindOf[c] = "resolve" /\ row[p] = NoMapping
           /\ Goto(c, "history") /\ UNCHANGED <<cache, line, got>>
  <2>1. pc' = [pc EXCEPT ![c] = "history"]
    BY <1>5 DEF Goto
  <2>2. Typed'
    BY <1>1, <1>5, <2>1 DEF Typed, TypeOK, Labels, Holding, Searching, storeVars
  <2>3. Moves(c)
    BY <1>1, <1>5, <2>1 DEF Moves
  <2>4. Around
    BY <1>1, <1>5, <2>1, AroundStill
  <2>5. Locks' /\ Hydrations'
    BY <1>1, <1>2, <1>5, <2>1, LocksKept, HydrationsKept
  <2> QED
    BY <2>2, <2>3, <2>4, <2>5, MoveKeeps DEF IInv
<1>6. KindOf[c] = "resolve" /\ row[p] # NoMapping =>
        /\ row[p] # NoMapping
        /\ KindOf[c] = "create" => row[p].id = IdentityOf[p] /\ row[p].at <= observed[c]
  OBVIOUS
<1> QED
  BY <1>3, <1>4, <1>5, <1>6 DEF Recheck

LEMMA LookUpHistoryPreserves ==
  ASSUME IInv, NEW c \in Calls, LookUpHistory(c)
  PROVE  IInv'
<1> DEFINE p == PoolOf[c]
<1>1. /\ Typed /\ Locks /\ Hydrations /\ Backed /\ Searches /\ pc[c] = "history"
      /\ got' = [got EXCEPT ![c] = Remembered(c)]
      /\ pc' = [pc EXCEPT ![c] = IF Remembered(c) # NoMapping THEN "record" ELSE "permit"]
      /\ permits' \in {permits, Append(permits, c)}
      /\ UNCHANGED <<now, storeVars, cache, line, failedUntil, hydrationQueue, batches,
                     observed, provenAt>>
      /\ pc \in [Calls -> Labels] /\ got \in [Calls -> Mappings \cup {NoMapping}]
  BY DEF IInv, LookUpHistory, Goto, netVars, Typed, TypeOK
<1>2. Remembered(c) \in Mappings \cup {NoMapping}
  BY <1>1, RememberedFacts
<1>3. ASSUME Remembered(c) # NoMapping PROVE Proven(p, Remembered(c))
  <2>1. CASE Remembered(c) \in history[p]
    BY <2>1 DEF Proven
  <2>2. CASE Remembered(c) = row[p]
    BY <1>1, <1>3, <2>2, Types DEF Backed
  <2> QED
    BY <1>1, <1>3, <2>1, <2>2, RememberedFacts
<1>4. permits' \in Seq(Calls)
  <2>1. permits \in Seq(Calls)
    BY <1>1 DEF Typed, TypeOK
  <2>2. Append(permits, c) \in Seq(Calls)
    BY <2>1
  <2> QED
    BY <1>1, <2>1, <2>2
<1>5. Typed'
  BY <1>1, <1>2, <1>4 DEF Typed, TypeOK, Labels, Holding, Searching, storeVars
<1>6. Moves(c)
  <2>1. KindOf[c] = "resolve" => row[p] = NoMapping
    BY <1>1 DEF Searches, Searching
  <2> QED
    BY <1>1, <1>2, <1>3, <2>1 DEF Moves
<1>7. Around
  BY <1>1, AroundStill
<1>8. Locks' /\ Hydrations'
  <2>1. /\ pc[c] \in Holding /\ pc'[c] \in Holding
        /\ \A d \in Calls \ {c} : pc'[d] = pc[d]
    BY <1>1 DEF Holding, Searching
  <2> QED
    BY <1>1, <2>1, LocksKept, HydrationsKept
<1> QED
  BY <1>5, <1>6, <1>7, <1>8, MoveKeeps DEF IInv

LEMMA LoadedPreserves ==
  ASSUME IInv, NEW c \in Calls, Loaded(c)
  PROVE  IInv'
<1> DEFINE p == PoolOf[c]
<1>1. /\ Typed /\ Locks /\ Hydrations /\ Backed /\ Searches
      /\ pc[c] \in {"answered", "refused"}
      /\ UNCHANGED <<now, storeVars, cache, hydrationQueue, batches, observed, provenAt>>
      /\ pc \in [Calls -> Labels] /\ got \in [Calls -> Mappings \cup {NoMapping}]
  BY DEF IInv, Loaded, Typed, TypeOK
<1>2. /\ pc[c] \in Holding /\ "over" \notin Holding \cup {"queued"} /\ "record" \in Holding
      /\ pc[c] \in Searching
  BY <1>1 DEF Holding, Searching
<1>3. permits' \in Seq(Calls)
  <2>1. permits \in Seq(Calls)
    BY <1>1 DEF Typed, TypeOK
  <2>2. PICK i \in DOMAIN permits :
          permits' = SubSeq(permits, 1, i - 1) \o SubSeq(permits, i + 1, Len(permits))
    BY DEF Loaded
  <2>3. /\ SubSeq(permits, 1, i - 1) \in Seq(Calls)
        /\ SubSeq(permits, i + 1, Len(permits)) \in Seq(Calls)
    <3>1. /\ i \in Int /\ Len(permits) \in Nat
          /\ \A k \in 1 .. Len(permits) : permits[k] \in Calls
      BY <2>1
    <3>2. i \in 1 .. Len(permits)
      BY <2>1
    <3> QED
      BY <3>1, <3>2, SubSeqProperties
  <2> QED
    BY <2>2, <2>3, ConcatProperties
<1>4. failedUntil' \in SUBSET Pools
  BY <1>1, Types DEF Loaded, Typed, TypeOK
<1>5. CASE /\ got[c] = NoMapping
           /\ Goto(c, "over") /\ Leave(c) /\ UNCHANGED got
  <2>1. pc' = [pc EXCEPT ![c] = "over"]
    BY <1>5 DEF Goto
  <2>2. Locks' /\ line' \in [Pools -> Seq(Calls)]
    BY <1>1, <1>2, <1>5, <2>1, LockLeft
  <2>3. Typed'
    BY <1>1, <1>3, <1>4, <1>5, <2>1, <2>2 DEF Typed, TypeOK, Labels, storeVars
  <2>4. Moves(c)
    BY <1>1, <1>5, <2>1 DEF Moves, Searching
  <2>5. Around
    BY <1>1, <2>1, AroundStill
  <2>6. Hydrations'
    BY <1>1, <2>1, HydrationsKept
  <2> QED
    BY <2>2, <2>3, <2>4, <2>5, <2>6, MoveKeeps DEF IInv
<1>6. CASE /\ got[c] # NoMapping
           /\ got' = [got EXCEPT ![c] = True(p, now)]
           /\ Goto(c, "record") /\ UNCHANGED line
  <2>1. pc' = [pc EXCEPT ![c] = "record"]
    BY <1>6 DEF Goto
  <2>2. /\ True(p, now) \in Mappings /\ True(p, now) # NoMapping
        /\ Proven(p, True(p, now))
    <3>1. provenAt[p] <= now
      BY <1>1, <1>6 DEF Backed
    <3> QED
      BY <1>1, <3>1, Types, TrueIsMapping DEF Proven
  <2>3. Typed'
    BY <1>1, <1>3, <1>4, <1>6, <2>1, <2>2 DEF Typed, TypeOK, Labels, Holding, Searching,
       storeVars
  <2>4. Moves(c)
    <3>1. KindOf[c] = "resolve" => row[p] = NoMapping
      BY <1>1, <1>2 DEF Searches
    <3> QED
      BY <1>1, <1>6, <2>1, <2>2, <3>1 DEF Moves
  <2>5. Around
    BY <1>1, <2>1, AroundStill
  <2>6. Locks' /\ Hydrations'
    BY <1>1, <1>2, <1>6, <2>1, LocksKept, HydrationsKept
  <2> QED
    BY <2>3, <2>4, <2>5, <2>6, MoveKeeps DEF IInv
<1> QED
  BY <1>5, <1>6 DEF Loaded, LearnedAt

LEMMA ReloadPreserves ==
  ASSUME IInv, NEW c \in Calls, Reload(c)
  PROVE  IInv'
<1> DEFINE p == PoolOf[c]
<1>1. /\ Typed /\ Locks /\ Hydrations /\ Backed /\ Searches /\ pc[c] = "reload"
      /\ pc' = [pc EXCEPT ![c] = "over"] /\ got' = [got EXCEPT ![c] = row[p]]
      /\ cache' = [cache EXCEPT ![p] = row[p]] /\ Leave(c)
      /\ UNCHANGED <<now, storeVars, permits, failedUntil, hydrationQueue, batches,
                     observed, provenAt>>
      /\ pc \in [Calls -> Labels] /\ got \in [Calls -> Mappings \cup {NoMapping}]
  BY DEF IInv, Reload, Keep, Return, Goto, netVars, Typed, TypeOK
<1>2. pc[c] \in Holding /\ "over" \notin Holding \cup {"queued"}
  BY <1>1 DEF Holding, Searching
<1>3. row[p] \in Mappings /\ Sound(p, row[p])
  BY <1>1, Types, PrecedesFacts DEF Searches, Backed, Sound
<1>4. Locks' /\ line' \in [Pools -> Seq(Calls)]
  BY <1>1, <1>2, LockLeft
<1>5. Typed'
  BY <1>1, <1>3, <1>4, Types DEF Typed, TypeOK, Labels, storeVars
<1>6. Moves(c)
  BY <1>1, <1>3 DEF Moves, Searching
<1>7. Around
  BY <1>1, <1>3, AroundStill
<1>8. Hydrations'
  BY <1>1, HydrationsKept
<1> QED
  BY <1>4, <1>5, <1>6, <1>7, <1>8, MoveKeeps DEF IInv

LEMMA LookUpPreserves ==
  ASSUME IInv, NEW c \in Calls, LookUp(c)
  PROVE  IInv'
<1> DEFINE p == PoolOf[c]
<1>1. /\ Typed /\ Locks /\ Hydrations /\ Backed /\ pc[c] = "look"
      /\ pc' = [pc EXCEPT ![c] = "looked"] /\ got' = [got EXCEPT ![c] = row[p]]
      /\ UNCHANGED <<now, storeVars, cache, line, permits, failedUntil, hydrationQueue,
                     batches, observed, provenAt>>
      /\ pc \in [Calls -> Labels] /\ got \in [Calls -> Mappings \cup {NoMapping}]
  BY DEF IInv, LookUp, Goto, loopVars, netVars, Typed, TypeOK
<1>2. row[p] # NoMapping => Sound(p, row[p])
  BY <1>1, Types, PrecedesFacts DEF Backed, Sound
<1>3. Typed'
  BY <1>1, Types DEF Typed, TypeOK, Labels, storeVars
<1>4. Moves(c)
  BY <1>1, <1>2, Types DEF Moves, Searching
<1>5. Around
  BY <1>1, AroundStill
<1>6. Locks' /\ Hydrations'
  <2>1. /\ pc[c] \notin Holding \cup {"queued"} /\ pc'[c] \notin Holding \cup {"queued"}
        /\ \A d \in Calls \ {c} : pc'[d] = pc[d]
    BY <1>1 DEF Holding, Searching
  <2> QED
    BY <1>1, <2>1, LocksKept, HydrationsKept
<1> QED
  BY <1>3, <1>4, <1>5, <1>6, MoveKeeps DEF IInv

LEMMA LoadPreserves ==
  ASSUME IInv, NEW c \in Calls, Load(c)
  PROVE  IInv'
<1> DEFINE p == PoolOf[c]
<1>1. /\ Typed /\ Locks /\ Hydrations /\ Backed /\ Searches /\ pc[c] = "permit"
      /\ UNCHANGED <<now, storeVars, cache, line, permits, failedUntil, batches, got,
                     observed, provenAt>>
      /\ \/ pc' = [pc EXCEPT ![c] = "refused"] /\ hydrationQueue' = hydrationQueue
         \/ /\ pc' = [pc EXCEPT ![c] = "hydrating"]
            /\ hydrationQueue' = Append(hydrationQueue, c)
      /\ pc \in [Calls -> Labels] /\ got \in [Calls -> Mappings \cup {NoMapping}]
      /\ hydrationQueue \in Seq(Calls)
  BY DEF IInv, Load, Goto, loopVars, Typed, TypeOK
<1>2. pc'[c] \in {"refused", "hydrating"} /\ \A d \in Calls \ {c} : pc'[d] = pc[d]
  BY <1>1
<1>3. c \notin Elems(hydrationQueue)
  BY <1>1 DEF Hydrations
<1>4. /\ Append(hydrationQueue, c) \in Seq(Calls)
      /\ Elems(Append(hydrationQueue, c)) = Elems(hydrationQueue) \cup {c}
      /\ Once(hydrationQueue) => Once(Append(hydrationQueue, c))
  BY <1>1, <1>3, AppendElems
<1>5. Typed'
  BY <1>1, <1>4 DEF Typed, TypeOK, Labels, Holding, Searching, storeVars
<1>6. Locks'
  <2>1. pc[c] \in Holding /\ pc'[c] \in Holding
    BY <1>1, <1>2 DEF Holding, Searching
  <2> QED
    BY <1>1, <1>2, <2>1, LocksKept
<1>7. Hydrations'
  <2>1. CASE hydrationQueue' = hydrationQueue
    BY <1>1, <1>2, <2>1, HydrationsKept
  <2>2. CASE pc'[c] = "hydrating" /\ hydrationQueue' = Append(hydrationQueue, c)
    <3>1. \A s \in Slots : InBatch(s)' = InBatch(s) /\ InBatch(s) \subseteq Calls
      BY <1>1 DEF InBatch, Typed
    <3>2. \A s \in Slots : c \notin InBatch(s)
      BY <1>1 DEF Hydrations
    <3>3. Elems(hydrationQueue') = Elems(hydrationQueue) \cup {c} /\ Once(hydrationQueue')
      BY <1>1, <1>4, <2>2 DEF Hydrations
    <3>4. Elems(hydrationQueue) \subseteq Calls
      BY <1>1 DEF Elems
    <3>5. \A d \in Elems(hydrationQueue') : pc'[d] = "hydrating"
      BY <1>1, <1>2, <2>2, <3>3, <3>4 DEF Hydrations
    <3>6. \A s \in Slots : \A d \in InBatch(s) :
            pc'[d] = "hydrating" /\ d \notin Elems(hydrationQueue')
      BY <1>1, <1>2, <3>1, <3>2, <3>3 DEF Hydrations
    <3>7. \A s, u \in Slots : s # u => InBatch(s) \cap InBatch(u) = {}
      BY <1>1 DEF Hydrations
    <3> QED
      BY <3>1, <3>3, <3>5, <3>6, <3>7 DEF Hydrations, Once, Elems
  <2> QED
    BY <1>1, <2>1, <2>2
<1>8. EarliestWins' /\ Searches' /\ Backed'
  <2>1. \/ KindOf[c] = "create" \/ row[p] = NoMapping
    BY <1>1, Types DEF Searches, Searching
  <2>2. EarliestWins'
    BY <1>1 DEF IInv, EarliestWins, storeVars
  <2>3. Searches'
    BY <1>1, <1>2, <2>1 DEF Searches, Searching, storeVars
  <2>4. got[c] = NoMapping \/ provenAt[p] <= now
    BY <1>1 DEF Backed
  <2>5. Backed'
    <3>1. \A d \in Calls : pc'[d] \in {"permit", "hydrating", "answered", "refused"} =>
            got[d] = NoMapping \/ provenAt[PoolOf[d]] <= now
      BY <1>1, <1>2, <2>4 DEF Backed
    <3>2. \A d \in Calls : /\ pc'[d] \in {"looked", "over", "record"} => pc'[d] = pc[d]
                           /\ pc'[d] # "new" => pc[d] # "new"
      BY <1>1, <1>2
    <3> QED
      BY <1>1, <3>1, <3>2 DEF Backed, Sound, Proven, storeVars
  <2> QED
    BY <2>2, <2>3, <2>5
<1> QED
  BY <1>5, <1>6, <1>7, <1>8 DEF IInv

\* The one transaction that writes the store: the row moves to what precedes it,
\* and it moves under the lock of its pool.
LEMMA RecordPreserves ==
  ASSUME IInv, NEW c \in Calls, Record(c)
  PROVE  IInv'
<1> DEFINE p == PoolOf[c]
           m == got[c]
           r == row[p]
<1>1. /\ Typed /\ Locks /\ Hydrations /\ EarliestWins /\ Backed /\ Searches
      /\ pc[c] = "record" /\ pc' = [pc EXCEPT ![c] = "reload"]
      /\ row' = [row EXCEPT ![p] = Canonical(@, m)]
      /\ recorded' = [recorded EXCEPT ![p] = @ \cup {m}]
      /\ learned' = IF KindOf[c] = "resolve" THEN [learned EXCEPT ![p] = @ + 1] ELSE learned
      /\ UNCHANGED <<now, history, cache, line, permits, failedUntil, hydrationQueue,
                     batches, observed, got, provenAt>>
      /\ pc \in [Calls -> Labels] /\ row \in [Pools -> Mappings \cup {NoMapping}]
      /\ recorded \in [Pools -> SUBSET Mappings] /\ learned \in [Pools -> Nat]
      /\ p \in Pools
  BY Types DEF IInv, Record, Goto, loopVars, netVars, Typed, TypeOK
<1>2. m \in Mappings /\ Proven(p, m) /\ NoMapping \notin Mappings
  BY <1>1, Types DEF Backed
<1>3. /\ row'[p] \in Mappings /\ row'[p] # NoMapping
      /\ row'[p] = IF r = NoMapping \/ Precedes(m, r) THEN m ELSE r
      /\ \A q \in Pools : q # p => row'[q] = row[q]
  BY <1>1, <1>2 DEF Canonical
<1>4. /\ row'[p].at <= m.at
      /\ r # NoMapping => r \in Mappings /\ row'[p].at <= r.at
  BY <1>1, <1>2, <1>3, PrecedesFacts DEF Times
<1>5. /\ recorded'[p] = recorded[p] \cup {m}
      /\ \A q \in Pools : q # p => recorded'[q] = recorded[q]
  BY <1>1
<1>6. /\ pc'[c] = "reload" /\ \A d \in Calls \ {c} : pc'[d] = pc[d]
      /\ pc[c] \in Searching /\ pc[c] \in Holding /\ "reload" \in Holding
      /\ "reload" \notin Searching
  BY <1>1 DEF Holding, Searching
<1> HIDE DEF p, m, r
<1>7. Typed'
  <2>1. row' \in [Pools -> Mappings \cup {NoMapping}]
    BY <1>1, <1>2 DEF Canonical
  <2>2. recorded' \in [Pools -> SUBSET Mappings] /\ learned' \in [Pools -> Nat]
    BY <1>1, <1>2
  <2>3. pc' \in [Calls -> Labels]
    BY <1>1 DEF Labels, Holding
  <2> QED
    BY <1>1, <2>1, <2>2, <2>3 DEF Typed, TypeOK
<1>8. Locks' /\ Hydrations'
  BY <1>1, <1>6, LocksKept, HydrationsKept
<1>9. EarliestWins'
  <2>1. ASSUME NEW k \in recorded'[p] PROVE ~Precedes(k, row'[p])
    <3>1. CASE r = NoMapping
      <4>1. recorded[p] = {}
        BY <1>1, <1>2, <3>1 DEF EarliestWins, r
      <4> QED
        BY <1>2, <1>3, <1>5, <2>1, <3>1, <4>1, PrecedesFacts
    <3>2. CASE r # NoMapping
      <4>1. r \in Mappings /\ \A n \in recorded[p] : n \in Mappings /\ ~Precedes(n, r)
        BY <1>1, <3>2 DEF EarliestWins, r
      <4>2. CASE k = m
        BY <1>2, <1>3, <3>2, <4>1, <4>2, PrecedesFacts
      <4>3. CASE k \in recorded[p]
        <5>1. CASE Precedes(m, r)
          BY <1>2, <1>3, <4>1, <4>3, <5>1, PrecedesFacts
        <5>2. CASE ~Precedes(m, r)
          BY <1>3, <3>2, <4>1, <4>3, <5>2
        <5> QED
          BY <5>1, <5>2
      <4> QED
        BY <1>5, <2>1, <4>2, <4>3
    <3> QED
      BY <3>1, <3>2
  <2>2. row'[p] \in recorded'[p]
    <3>1. r # NoMapping => r \in recorded[p]
      BY <1>1 DEF EarliestWins, r
    <3> QED
      BY <1>3, <1>5, <3>1
  <2> QED
    BY <1>1, <1>3, <1>5, <2>1, <2>2 DEF EarliestWins
<1>10. Searches'
  <2>1. ASSUME NEW d \in Calls, KindOf[d] = "resolve", pc'[d] \in Searching
        PROVE  row'[PoolOf[d]] = NoMapping
    <3>1. d # c /\ pc[d] \in Searching /\ pc[d] \in Holding
      BY <1>6, <2>1 DEF Holding
    <3>2. PoolOf[d] # p /\ PoolOf[d] \in Pools
      BY <1>1, <1>6, <3>1, OneHolder, Types DEF p
    <3> QED
      BY <1>1, <1>3, <2>1, <3>1, <3>2 DEF Searches
  <2>2. ASSUME NEW q \in Pools
        PROVE  learned'[q] <= 1 /\ (row'[q] = NoMapping => learned'[q] = 0)
    <3>1. CASE KindOf[c] = "resolve" /\ q = p
      <4>1. row[p] = NoMapping
        BY <1>1, <1>6, <3>1 DEF Searches, p
      <4>2. learned[p] = 0
        BY <1>1, <4>1 DEF Searches
      <4> QED
        BY <1>1, <1>3, <3>1, <4>2
    <3>2. CASE ~(KindOf[c] = "resolve" /\ q = p)
      <4>1. learned'[q] = learned[q]
        BY <1>1, <3>2
      <4> QED
        BY <1>1, <1>3, <4>1 DEF Searches
    <3> QED
      BY <3>1, <3>2
  <2>3. ASSUME NEW d \in Calls, pc'[d] = "reload" PROVE row'[PoolOf[d]] # NoMapping
    <3>1. PoolOf[d] = p \/ d # c
      BY DEF p
    <3>2. PoolOf[d] \in Pools
      BY <1>1, Types
    <3> QED
      BY <1>1, <1>3, <1>6, <2>3, <3>1, <3>2 DEF Searches
  <2> QED
    BY <2>1, <2>2, <2>3 DEF Searches
<1>11. Backed'
  <2>1. \A q \in Pools : \A n : Proven(q, n)' <=> Proven(q, n)
    BY <1>1 DEF Proven
  <2>2. ASSUME NEW q \in Pools, NEW n \in Mappings, Sound(q, n) PROVE Sound(q, n)'
    <3>1. row'[q] # NoMapping /\ row'[q].at <= n.at
      <4>1. CASE q = p
        <5>1. r # NoMapping /\ r.at <= n.at
          BY <2>2, <4>1 DEF Sound, r
        <5>2. /\ row'[p].at <= r.at /\ row'[p].at \in Int /\ r.at \in Int /\ n.at \in Int
          BY <1>3, <1>4, <5>1, PrecedesFacts DEF Times
        <5> QED
          BY <1>3, <4>1, <5>1, <5>2
      <4>2. CASE q # p
        BY <1>3, <2>2, <4>2 DEF Sound
      <4> QED
        BY <4>1, <4>2
    <3> QED
      BY <2>1, <2>2, <3>1 DEF Sound
  <2>3. \A q \in Pools : row'[q] # NoMapping => Proven(q, row[q])'
    <3>1. ASSUME NEW q \in Pools, row'[q] # NoMapping PROVE Proven(q, row'[q])
      <4>1. r # NoMapping => Proven(p, r)
        BY <1>1 DEF Backed, r
      <4> QED
        BY <1>1, <1>2, <1>3, <3>1, <4>1 DEF Backed
    <3> QED
      BY <2>1, <3>1 DEF Proven
  <2>4. \A q \in Pools : cache'[q] # NoMapping => Sound(q, cache[q])'
    <3>1. ASSUME NEW q \in Pools, cache[q] # NoMapping PROVE Sound(q, cache[q])'
      <4>1. cache[q] \in Mappings /\ Sound(q, cache[q])
        BY <1>1, <3>1 DEF Backed, Typed, TypeOK
      <4>2. UNCHANGED <<history, provenAt, cache>>
        BY <1>1
      <4> QED
        BY <2>2, <4>1, <4>2 DEF Sound, Proven
    <3> QED
      BY <1>1, <3>1
  <2>5. ASSUME NEW d \in Calls, pc'[d] \in {"looked", "over"}, got'[d] # NoMapping
        PROVE  Sound(PoolOf[d], got[d])'
    <3>1. /\ pc[d] \in {"looked", "over"} /\ got[d] # NoMapping /\ PoolOf[d] \in Pools
          /\ got[d] \in Mappings
      BY <1>1, <1>6, <2>5, Types
    <3>2. Sound(PoolOf[d], got[d])
      BY <1>1, <3>1 DEF Backed
    <3>3. UNCHANGED <<history, provenAt, got>>
      BY <1>1
    <3> QED
      BY <2>2, <3>1, <3>2, <3>3 DEF Sound, Proven
  <2>6. \A d \in Calls : /\ pc'[d] \in {"record", "permit", "hydrating", "answered", "refused"}
                            => pc'[d] = pc[d]
                         /\ pc'[d] # "new" => pc[d] # "new"
    BY <1>1, <1>6
  <2>7. \A d \in Calls : pc'[d] = "record" =>
            got'[d] # NoMapping /\ Proven(PoolOf[d], got[d])'
    BY <1>1, <2>6 DEF Backed, Proven
  <2> QED
    BY <1>1, <2>3, <2>4, <2>5, <2>6, <2>7 DEF Backed
<1> QED
  BY <1>7, <1>8, <1>9, <1>10, <1>11 DEF IInv

-----------------------------------------------------------------------------
(* The batches.                                                            *)

\* Steps that no call takes: time, transports, and the dispatcher.
LEMMA QuietKeeps ==
  ASSUME IInv, UNCHANGED <<storeVars, loopVars, pc, observed, got, provenAt>>,
         now' \in Times, now <= now', failedUntil' \in SUBSET Pools,
         hydrationQueue' \in Seq(Calls),
         batches' \in [Slots -> [items : Seq(Calls), pending : Int, running : Int]],
         Hydrations'
  PROVE  IInv'
<1>1. /\ UNCHANGED <<history, row, recorded, learned, cache, line, permits, pc,
                     observed, got, provenAt>>
      /\ Typed /\ Locks /\ EarliestWins /\ Searches /\ Backed
  BY DEF IInv, storeVars, loopVars
<1>2. Typed'
  BY <1>1 DEF Typed, TypeOK
<1>3. Locks'
  BY <1>1 DEF Locks, Once, Elems
<1>4. EarliestWins' /\ Searches'
  BY <1>1 DEF EarliestWins, Searches
<1>5. Backed'
  <2>1. \A c \in Calls : got[c] = NoMapping \/ provenAt[PoolOf[c]] <= now =>
                         got[c] = NoMapping \/ provenAt[PoolOf[c]] <= now'
    <3>1. \A c \in Calls : provenAt[PoolOf[c]] \in Int /\ now \in Int /\ now' \in Int
      BY <1>1, Types DEF Never, Times
    <3> QED
      BY <3>1
  <2> QED
    BY <1>1, <2>1 DEF Backed, Sound, Proven
<1> QED
  BY <1>2, <1>3, <1>4, <1>5 DEF IInv

\* The calls in the batches and in their queue do not change.
LEMMA ItemsKept ==
  ASSUME Typed, Hydrations, UNCHANGED <<hydrationQueue, pc>>,
         batches' \in [Slots -> [items : Seq(Calls), pending : Int, running : Int]],
         \A s \in Slots : batches'[s].items = batches[s].items
  PROVE  Hydrations'
<1>1. \A s \in Slots : InBatch(s)' = InBatch(s)
  BY DEF InBatch
<1>2. Elems(hydrationQueue)' = Elems(hydrationQueue)
  BY DEF Elems
<1>3. Once(hydrationQueue)'
  BY DEF Hydrations, Once
<1> QED
  BY <1>1, <1>2, <1>3 DEF Hydrations

\* What cutting a sequence in two does.
LEMMA SplitElems ==
  ASSUME NEW X, NEW s \in Seq(X), NEW n \in 0 .. Len(s), Once(s)
  PROVE  /\ SubSeq(s, 1, n) \in Seq(X) /\ SubSeq(s, n + 1, Len(s)) \in Seq(X)
         /\ Elems(SubSeq(s, 1, n)) \subseteq Elems(s)
         /\ Elems(SubSeq(s, n + 1, Len(s))) \subseteq Elems(s)
         /\ Elems(SubSeq(s, 1, n)) \cap Elems(SubSeq(s, n + 1, Len(s))) = {}
         /\ Once(SubSeq(s, n + 1, Len(s)))
<1> DEFINE a == SubSeq(s, 1, n)
           b == SubSeq(s, n + 1, Len(s))
<1>1. Len(s) \in Nat /\ n \in Nat /\ \A i \in 1 .. Len(s) : s[i] \in X
  OBVIOUS
<1>2. a \in Seq(X) /\ Len(a) = n /\ \A i \in 1 .. n : a[i] = s[i]
  BY <1>1, SubSeqProperties
<1>3. /\ b \in Seq(X) /\ Len(b) = Len(s) - n
      /\ \A i \in 1 .. Len(s) - n : b[i] = s[n + i]
  BY <1>1, SubSeqProperties
<1> HIDE DEF a, b
<1>4. Elems(a) \subseteq Elems(s)
  BY <1>1, <1>2 DEF Elems
<1>5. Elems(b) \subseteq Elems(s)
  <2>1. \A i \in 1 .. Len(b) : b[i] = s[n + i] /\ n + i \in 1 .. Len(s)
    BY <1>1, <1>3
  <2> QED
    BY <2>1 DEF Elems
<1>6. ASSUME NEW i \in 1 .. Len(a), NEW j \in 1 .. Len(b), a[i] = b[j] PROVE FALSE
  <2>1. s[i] = s[n + j] /\ i \in 1 .. Len(s) /\ n + j \in 1 .. Len(s) /\ i # n + j
    BY <1>1, <1>2, <1>3, <1>6
  <2> QED
    BY <2>1 DEF Once
<1>7. ASSUME NEW i \in 1 .. Len(b), NEW j \in 1 .. Len(b), b[i] = b[j] PROVE i = j
  <2>1. s[n + i] = s[n + j] /\ n + i \in 1 .. Len(s) /\ n + j \in 1 .. Len(s)
    BY <1>1, <1>3, <1>7
  <2>2. n + i = n + j
    BY <2>1 DEF Once
  <2> QED
    BY <1>1, <2>2
<1>8. Elems(a) \cap Elems(b) = {} /\ Once(b)
  BY <1>6, <1>7 DEF Elems, Once
<1> QED
  BY <1>2, <1>3, <1>4, <1>5, <1>8 DEF a, b

LEMMA DispatchPreserves ==
  ASSUME IInv, NEW s \in Slots, Dispatch(s)
  PROVE  IInv'
<1> DEFINE n == Earlier(BatchSize, Len(hydrationQueue))
           first == SubSeq(hydrationQueue, 1, n)
           rest == SubSeq(hydrationQueue, n + 1, Len(hydrationQueue))
<1>1. /\ Typed /\ Hydrations
      /\ UNCHANGED <<now, storeVars, loopVars, failedUntil, pc, observed, got, provenAt>>
      /\ batches' = [batches EXCEPT
                       ![s] = [items |-> first, pending |-> Endpoints, running |-> 0]]
      /\ hydrationQueue' = rest
      /\ hydrationQueue \in Seq(Calls) /\ Once(hydrationQueue)
      /\ batches \in [Slots -> [items : Seq(Calls), pending : Int, running : Int]]
  BY DEF IInv, Dispatch, Typed, Hydrations
<1>2. n \in 0 .. Len(hydrationQueue) /\ Endpoints \in Int
  <2>1. Len(hydrationQueue) \in Nat /\ BatchSize \in Nat /\ Endpoints \in Int
    BY <1>1, TransportsAssumption
  <2> QED
    BY <2>1 DEF Earlier
<1>3. /\ first \in Seq(Calls) /\ rest \in Seq(Calls) /\ Once(rest)
      /\ Elems(first) \subseteq Elems(hydrationQueue)
      /\ Elems(rest) \subseteq Elems(hydrationQueue)
      /\ Elems(first) \cap Elems(rest) = {}
  BY <1>1, <1>2, SplitElems
<1> HIDE DEF first, rest, n
<1>4. batches' \in [Slots -> [items : Seq(Calls), pending : Int, running : Int]]
  BY <1>1, <1>2, <1>3
<1>5. /\ InBatch(s)' = Elems(first)
      /\ \A u \in Slots : u # s => InBatch(u)' = InBatch(u)
  <2>1. batches'[s].items = first /\ DOMAIN first = 1 .. Len(first)
    BY <1>1, <1>3
  <2>2. \A u \in Slots : u # s => batches'[u] = batches[u]
    BY <1>1
  <2> QED
    BY <2>1, <2>2 DEF InBatch, Elems
<1>6. Hydrations'
  <2>1. Once(hydrationQueue)' /\ Elems(hydrationQueue)' = Elems(rest)
    BY <1>1, <1>3 DEF Once, Elems
  <2>2. \A c \in Elems(rest) : pc'[c] = "hydrating"
    BY <1>1, <1>3 DEF Hydrations
  <2>3. ASSUME NEW u \in Slots, NEW c \in InBatch(u)'
        PROVE  pc'[c] = "hydrating" /\ c \notin Elems(rest)
    BY <1>1, <1>3, <1>5, <2>3 DEF Hydrations
  <2>4. ASSUME NEW u \in Slots, NEW v \in Slots, u # v
        PROVE  InBatch(u)' \cap InBatch(v)' = {}
    <3>1. \A w \in Slots : InBatch(w) \cap Elems(first) = {}
      BY <1>1, <1>3 DEF Hydrations
    <3>2. InBatch(u) \cap InBatch(v) = {}
      BY <1>1, <2>4 DEF Hydrations
    <3> QED
      BY <1>5, <2>4, <3>1, <3>2
  <2> QED
    BY <2>1, <2>2, <2>3, <2>4 DEF Hydrations
<1>7. now' \in Times /\ now <= now' /\ failedUntil' \in SUBSET Pools
  BY <1>1, PoolsAssumption DEF Typed, TypeOK, Times
<1> QED
  BY <1>1, <1>3, <1>4, <1>6, <1>7, QuietKeeps

\* Every call of a batch that is decided goes on with what was found for its
\* pool, and is in no batch any more.
LEMMA DecidePreserves ==
  ASSUME IInv, NEW s \in Slots, NEW found \in SUBSET Pools, NEW running,
         Decide(s, found, running)
  PROVE  IInv'
<1>1. /\ Typed /\ Locks /\ Hydrations /\ EarliestWins /\ Searches /\ Backed
      /\ pc' = [c \in Calls |-> IF c \in InBatch(s) THEN "answered" ELSE pc[c]]
      /\ got' = [c \in Calls |->
                   IF c \notin InBatch(s) THEN got[c]
                   ELSE IF PoolOf[c] \in found THEN True(PoolOf[c], now) ELSE NoMapping]
      /\ provenAt' = [p \in Pools |->
                        IF p \in found THEN Earlier(provenAt[p], now) ELSE provenAt[p]]
      /\ batches' = [batches EXCEPT ![s] = NoBatch]
      /\ UNCHANGED <<now, history, row, recorded, learned, cache, line, permits,
                     failedUntil, hydrationQueue, observed>>
      /\ batches \in [Slots -> [items : Seq(Calls), pending : Int, running : Int]]
      /\ got \in [Calls -> Mappings \cup {NoMapping}] /\ pc \in [Calls -> Labels]
  BY DEF IInv, Decide, Release, InBatch, storeVars, loopVars, Typed, TypeOK
<1>2. /\ \A c \in InBatch(s) : pc[c] = "hydrating"
      /\ \A c \in Calls : pc'[c] = pc[c] \/ (pc[c] = "hydrating" /\ pc'[c] = "answered")
      /\ \A c \in Calls : c \notin InBatch(s) => pc'[c] = pc[c] /\ got'[c] = got[c]
      /\ \A c \in Calls : pc'[c] \in {"looked", "over", "record"} => got'[c] = got[c]
  BY <1>1 DEF Hydrations
<1>3. /\ provenAt' \in [Pools -> 0 .. Never]
      /\ \A p \in Pools : /\ provenAt'[p] \in Int /\ provenAt[p] \in Int /\ now \in Int
                          /\ provenAt'[p] <= provenAt[p]
                          /\ p \in found => provenAt'[p] <= now
  <2>1. /\ now \in 0 .. Never /\ now \in Int
        /\ provenAt \in [Pools -> 0 .. Never]
    BY <1>1, PoolsAssumption DEF Typed, TypeOK, Times, Never
  <2>2. ASSUME NEW p \in Pools
        PROVE  /\ Earlier(provenAt[p], now) \in 0 .. Never
               /\ Earlier(provenAt[p], now) <= provenAt[p]
               /\ Earlier(provenAt[p], now) <= now
    <3>1. provenAt[p] \in 0 .. Never /\ provenAt[p] \in Int
      BY <2>1
    <3> QED
      BY <2>1, <3>1, EarlierFacts
  <2>3. \A p \in Pools : provenAt[p] \in 0 .. Never /\ provenAt[p] \in Int
    BY <2>1
  <2> QED
    BY <1>1, <2>1, <2>2, <2>3
<1>4. Typed'
  <2>1. got' \in [Calls -> Mappings \cup {NoMapping}]
    <3>1. \A c \in Calls : True(PoolOf[c], now) \in Mappings
      BY <1>1, Types, TrueIsMapping
    <3> QED
      BY <1>1, <3>1
  <2>2. pc' \in [Calls -> Labels]
    BY <1>1 DEF Labels, Holding, Searching
  <2>3. batches' \in [Slots -> [items : Seq(Calls), pending : Int, running : Int]]
    BY <1>1 DEF NoBatch
  <2> QED
    BY <1>1, <1>3, <2>1, <2>2, <2>3 DEF Typed, TypeOK
<1>5. Locks'
  <2>1. \A c \in Calls : /\ pc'[c] \in Holding <=> pc[c] \in Holding
                         /\ pc'[c] = "queued" <=> pc[c] = "queued"
    BY <1>2 DEF Holding, Searching
  <2>2. \A p \in Pools : Elems(line[p]) \subseteq Calls
    BY <1>1 DEF Typed, TypeOK, Elems
  <2>3. \A p \in Pools : \A c \in Elems(line[p]) :
          PoolOf[c] = p /\ pc'[c] \in Holding \cup {"queued"}
    BY <1>1, <2>1, <2>2 DEF Locks
  <2>4. \A p \in Pools : Elems(line[p])' = Elems(line[p]) /\ Once(line[p])'
    BY <1>1 DEF Locks, Elems, Once
  <2>5. \A c \in Calls : pc'[c] = "queued" => c \in Elems(line'[PoolOf[c]])
    BY <1>1, <2>1 DEF Locks
  <2> QED
    BY <1>1, <2>1, <2>3, <2>4, <2>5 DEF Locks, Elems
<1>6. Hydrations'
  <2>1. /\ InBatch(s)' = {}
        /\ \A u \in Slots : u # s => InBatch(u)' = InBatch(u)
    BY <1>1 DEF InBatch, NoBatch
  <2>2. \A u \in Slots : InBatch(u) \subseteq Calls
    BY <1>1 DEF InBatch
  <2>3. Elems(hydrationQueue)' = Elems(hydrationQueue) /\ Elems(hydrationQueue) \subseteq Calls
    BY <1>1 DEF Elems, Typed
  <2>4. Once(hydrationQueue)'
    BY <1>1 DEF Hydrations, Once
  <2>5. \A c \in Elems(hydrationQueue) : c \notin InBatch(s) /\ pc'[c] = "hydrating"
    BY <1>1, <1>2, <2>3 DEF Hydrations
  <2>6. ASSUME NEW u \in Slots, NEW c \in InBatch(u)'
        PROVE  pc'[c] = "hydrating" /\ c \notin Elems(hydrationQueue)
    <3>1. u # s /\ c \in InBatch(u) /\ c \in Calls
      BY <2>1, <2>2, <2>6
    <3>2. c \notin InBatch(s) /\ pc[c] = "hydrating" /\ c \notin Elems(hydrationQueue)
      BY <1>1, <3>1 DEF Hydrations
    <3> QED
      BY <1>2, <3>1, <3>2
  <2>7. \A u, v \in Slots : u # v => InBatch(u)' \cap InBatch(v)' = {}
    BY <1>1, <2>1 DEF Hydrations
  <2> QED
    BY <2>3, <2>4, <2>5, <2>6, <2>7 DEF Hydrations
<1>7. EarliestWins' /\ Searches'
  <2>1. EarliestWins'
    BY <1>1 DEF EarliestWins
  <2>2. \A c \in Calls : /\ pc'[c] \in Searching => pc[c] \in Searching
                         /\ pc'[c] = "reload" => pc[c] = "reload"
    BY <1>2 DEF Searching
  <2> QED
    BY <1>1, <2>1, <2>2 DEF Searches
<1>8. Backed'
  <2>1. ASSUME NEW p \in Pools, NEW m \in Mappings, Proven(p, m)
        PROVE  m \in history[p] \/ (m.id = IdentityOf[p] /\ provenAt'[p] <= m.at)
    <3>1. m.at \in Int
      BY PrecedesFacts DEF Times
    <3> QED
      BY <1>3, <2>1, <3>1 DEF Proven
  <2>2. /\ \A p \in Pools : row'[p] # NoMapping => Proven(p, row[p])'
        /\ \A p \in Pools : cache'[p] # NoMapping => Sound(p, cache[p])'
    <3>1. ASSUME NEW p \in Pools, row[p] # NoMapping PROVE Proven(p, row[p])'
      <4>1. row[p] \in Mappings /\ Proven(p, row[p])
        BY <1>1, <3>1 DEF Backed, Typed, TypeOK
      <4> QED
        BY <1>1, <2>1, <4>1 DEF Proven
    <3>2. ASSUME NEW p \in Pools, cache[p] # NoMapping PROVE Sound(p, cache[p])'
      <4>1. cache[p] \in Mappings /\ Sound(p, cache[p])
        BY <1>1, <3>2 DEF Backed, Typed, TypeOK
      <4> QED
        BY <1>1, <2>1, <4>1 DEF Sound, Proven
    <3> QED
      BY <1>1, <3>1, <3>2
  <2>3. ASSUME NEW c \in Calls, pc'[c] \in {"looked", "over"}, got'[c] # NoMapping
        PROVE  Sound(PoolOf[c], got[c])'
    <3>1. /\ pc[c] \in {"looked", "over"} /\ got'[c] = got[c] /\ got[c] \in Mappings
          /\ PoolOf[c] \in Pools
      BY <1>1, <1>2, <2>3, Types
    <3>2. Sound(PoolOf[c], got[c])
      BY <1>1, <2>3, <3>1 DEF Backed
    <3> QED
      BY <1>1, <2>1, <3>1, <3>2 DEF Sound, Proven
  <2>4. ASSUME NEW c \in Calls, pc'[c] = "record"
        PROVE  got'[c] # NoMapping /\ Proven(PoolOf[c], got[c])'
    <3>1. pc[c] = "record" /\ got'[c] = got[c] /\ PoolOf[c] \in Pools
      BY <1>1, <1>2, <2>4, Types
    <3>2. got[c] # NoMapping /\ got[c] \in Mappings /\ Proven(PoolOf[c], got[c])
      BY <1>1, <3>1 DEF Backed
    <3> QED
      BY <1>1, <2>1, <3>1, <3>2 DEF Proven
  <2>5. ASSUME NEW c \in Calls,
               pc'[c] \in {"permit", "hydrating", "answered", "refused"}
        PROVE  got'[c] = NoMapping \/ provenAt'[PoolOf[c]] <= now'
    <3>1. PoolOf[c] \in Pools
      BY <1>1, Types
    <3>2. CASE c \in InBatch(s)
      BY <1>1, <1>3, <3>1, <3>2
    <3>3. CASE c \notin InBatch(s)
      <4>1. got[c] = NoMapping \/ provenAt[PoolOf[c]] <= now
        BY <1>1, <1>2, <2>5, <3>3 DEF Backed
      <4> QED
        BY <1>1, <1>2, <1>3, <3>1, <3>3, <4>1
    <3> QED
      BY <3>2, <3>3
  <2>6. ASSUME NEW c \in Calls, KindOf[c] = "create", pc'[c] # "new"
        PROVE  provenAt'[PoolOf[c]] <= observed'[c]
    <3>1. /\ provenAt[PoolOf[c]] <= observed[c] /\ PoolOf[c] \in Pools
          /\ observed[c] \in Int
      BY <1>1, <1>2, <2>6, Types DEF Backed
    <3> QED
      BY <1>1, <1>3, <3>1
  <2> QED
    BY <2>2, <2>3, <2>4, <2>5, <2>6 DEF Backed
<1> QED
  BY <1>4, <1>5, <1>6, <1>7, <1>8 DEF IInv

\* An answer, the failure of an endpoint, a deadline.
LEMMA OutcomePreserves ==
  ASSUME IInv, NEW s \in Slots, Answer(s) \/ EndpointFails(s) \/ DeadlineExpires(s)
  PROVE  IInv'
<1>1. /\ Typed /\ Hydrations
      /\ batches \in [Slots -> [items : Seq(Calls), pending : Int, running : Int]]
  BY DEF IInv, Typed
<1>2. PoolsIn(s) \subseteq Pools /\ {} \subseteq Pools
  <2>1. \A i \in DOMAIN batches[s].items : batches[s].items[i] \in Calls
    BY <1>1
  <2>2. \A c \in Calls : PoolOf[c] \in Pools
    BY <1>1, Types
  <2> QED
    BY <2>1, <2>2 DEF PoolsIn
<1>3. CASE \E found \in SUBSET Pools : \E running : Decide(s, found, running)
  BY <1>3, DecidePreserves
<1>4. CASE /\ batches' = [batches EXCEPT ![s].pending = @ - 1, ![s].running = @ - 1]
           /\ UNCHANGED <<now, storeVars, loopVars, failedUntil, hydrations, hydrationQueue,
                          transportQueue, losers, pc, observed, got, provenAt>>
  <2>1. batches' = [batches EXCEPT ![s] = [items |-> batches[s].items,
                                           pending |-> batches[s].pending - 1,
                                           running |-> batches[s].running - 1]]
    BY <1>1, <1>4
  <2>2. /\ batches' \in [Slots -> [items : Seq(Calls), pending : Int, running : Int]]
        /\ \A u \in Slots : batches'[u].items = batches[u].items
    BY <1>1, <2>1
  <2>3. Hydrations'
    BY <1>1, <1>4, <2>2, ItemsKept
  <2>4. /\ now' \in Times /\ now <= now' /\ failedUntil' \in SUBSET Pools
        /\ hydrationQueue' \in Seq(Calls)
    BY <1>1, <1>4, PoolsAssumption DEF Typed, TypeOK, Times
  <2> QED
    BY <1>4, <2>2, <2>3, <2>4, QuietKeeps
<1>5. CASE Answer(s)
  <2>1. PICK found \in SUBSET PoolsIn(s) : Decide(s, found, batches[s].running - 1)
    BY <1>5 DEF Answer
  <2> QED
    BY <1>2, <1>3, <2>1
<1>6. CASE EndpointFails(s)
  BY <1>2, <1>3, <1>4, <1>6 DEF EndpointFails
<1>7. CASE DeadlineExpires(s)
  BY <1>2, <1>3, <1>7 DEF DeadlineExpires
<1> QED
  BY <1>5, <1>6, <1>7

\* Transports and time.
LEMMA OutsidePreserves ==
  ASSUME IInv, \/ StartTransport \/ LoserEnds \/ Tick
               \/ \E p \in Pools : RetryElapses(p)
               \/ UNCHANGED vars
  PROVE  IInv'
<1>1. /\ Typed /\ Hydrations
      /\ batches \in [Slots -> [items : Seq(Calls), pending : Int, running : Int]]
      /\ UNCHANGED <<storeVars, loopVars, hydrationQueue, pc, observed, got, provenAt>>
  BY DEF IInv, Typed, StartTransport, LoserEnds, Tick, RetryElapses, vars, netVars
<1>2. /\ batches' \in [Slots -> [items : Seq(Calls), pending : Int, running : Int]]
      /\ \A u \in Slots : batches'[u].items = batches[u].items
  <2>1. CASE UNCHANGED batches
    BY <1>1, <2>1
  <2>2. CASE StartTransport
    <3>1. PICK u : batches' = [batches EXCEPT ![u].running = @ + 1]
      BY <2>2 DEF StartTransport
    <3>2. DOMAIN batches = Slots
      BY <1>1
    <3>3. ASSUME NEW w \in Slots
          PROVE  /\ batches'[w] \in [items : Seq(Calls), pending : Int, running : Int]
                 /\ batches'[w].items = batches[w].items
      <4>1. /\ batches[w] \in [items : Seq(Calls), pending : Int, running : Int]
            /\ batches[w].running + 1 \in Int
        BY <1>1
      <4>2. batches'[w] = IF w = u THEN [batches[w] EXCEPT !.running = @ + 1]
                          ELSE batches[w]
        BY <3>1, <3>2
      <4> QED
        BY <4>1, <4>2
    <3>4. batches' = [w \in Slots |-> batches'[w]]
      BY <3>1, <3>2
    <3> QED
      BY <3>3, <3>4
  <2> QED
    BY <2>1, <2>2 DEF LoserEnds, Tick, RetryElapses, vars, netVars
<1>3. Hydrations'
  BY <1>1, <1>2, ItemsKept
<1>4. now' \in Times /\ now <= now'
  <2>1. now \in Times /\ MaxNow \in Nat
    BY <1>1, PoolsAssumption DEF Typed, TypeOK
  <2>2. CASE UNCHANGED now
    BY <2>1, <2>2 DEF Times
  <2>3. CASE Tick
    BY <2>1, <2>3 DEF Tick, Times
  <2> QED
    BY <2>2, <2>3 DEF StartTransport, LoserEnds, RetryElapses, vars
<1>5. failedUntil' \in SUBSET Pools
  BY <1>1 DEF Typed, TypeOK, StartTransport, LoserEnds, Tick, RetryElapses, vars, netVars
<1>6. hydrationQueue' \in Seq(Calls)
  BY <1>1 DEF Typed
<1> QED
  BY <1>1, <1>2, <1>3, <1>4, <1>5, <1>6, QuietKeeps

LEMMA NextInvariant == IInv /\ [Next]_vars => IInv'
<1> SUFFICES ASSUME IInv, [Next]_vars PROVE IInv'
  OBVIOUS
<1>1. ASSUME NEW c \in Calls, Loop(c) PROVE IInv'
  BY <1>1, ResolvePreserves, CreatePreserves, LookedPreserves, AcquirePreserves,
     RecheckPreserves, LookUpHistoryPreserves, LoadedPreserves, ReloadPreserves DEF Loop
<1>2. ASSUME NEW c \in Calls, Thread(c) PROVE IInv'
  BY <1>2, LookUpPreserves, RecordPreserves, LoadPreserves DEF Thread
<1>3. ASSUME NEW s \in Slots,
             Dispatch(s) \/ Answer(s) \/ EndpointFails(s) \/ DeadlineExpires(s)
      PROVE  IInv'
  BY <1>3, DispatchPreserves, OutcomePreserves
<1> QED
  BY <1>1, <1>2, <1>3, OutsidePreserves DEF Next

LEMMA Invariance == Spec => []IInv
<1> QED
  BY InitInvariant, NextInvariant, PTL DEF Spec

-----------------------------------------------------------------------------

\* The variables hold what their comments say; what is recorded, cached or
\* returned is a mapping.
THEOREM TypeCorrect == Spec => []TypeOK
<1>1. IInv => TypeOK
  BY DEF IInv, Typed
<1> QED
  BY <1>1, Invariance, PTL

\* record_pumpswap_pool_mapping_fast_v4 leaves the least of all mappings of a
\* pool that were recorded, whatever the order in which they came.
THEOREM EarliestMappingWins == Spec => []EarliestWins
<1>1. IInv => EarliestWins
  BY DEF IInv
<1> QED
  BY <1>1, Invariance, PTL

\* However many notifications ask for a pool at a time, resolve_for_normalization_v5
\* promotes it or learns it from the network once: two calls never hold its lock.
THEOREM IdentityLearnedOnce == Spec => []LearnedOnce
<1>1. IInv => LearnedOnce
  BY DEF IInv, Searches, LearnedOnce
<1> QED
  BY <1>1, Invariance, PTL

\* A cached mapping, or one that a call has returned, is durable and not dated
\* before there was proof of it, by the network, a creation or an earlier run.
THEOREM MappingsNeverBackdated == Spec => []NeverBackdated
<1>1. IInv => NeverBackdated
  <2> SUFFICES ASSUME IInv, NEW p \in Pools, NEW m \in InUse(p)
               PROVE  Sound(p, m)
    BY Zenon DEF NeverBackdated, Sound, Proven
  <2>1. Backed /\ m # NoMapping
    BY DEF IInv, InUse
  <2>2. CASE m = cache[p]
    BY <2>1, <2>2 DEF Backed
  <2>3. CASE \E c \in Calls : PoolOf[c] = p /\ pc[c] = "over" /\ m = got[c]
    BY <2>1, <2>3 DEF Backed
  <2> QED
    BY <2>2, <2>3 DEF InUse
<1> QED
  BY <1>1, Invariance, PTL

Exclusion ==
    \A c, d \in Calls :
        (PoolOf[c] = PoolOf[d] /\ pc[c] \in Holding /\ pc[d] \in Holding) => c = d

\* Of all calls for a pool, one at a time is between the acquisition of its lock
\* in _pool_locks and the return.
THEOREM OneCallPerPool == Spec => []Exclusion
<1>1. IInv => Exclusion
  BY OneHolder DEF IInv, Exclusion
<1> QED
  BY <1>1, Invariance, PTL

=============================================================================
