--------------------- MODULE ReadyAssetScheduler_proofs ---------------------
(***************************************************************************)
(* What ReadyAssetScheduler, and the demoting scheduler that is built on   *)
(* it, promise for any set of assets and any number of reservations.       *)
(***************************************************************************)
EXTENDS DemotingScheduler, SharedLemmas, FiniteSetTheorems, TLAPS

Tickets == 0 .. MaxReservations

\* Tickets are issued per asset in the order of the reservations.
TicketOrder ==
    /\ \A a \in Assets : completed[a] <= issued[a] /\ issued[a] <= nextId
    /\ \A r \in Ids : r >= nextId => assetsOf[r] = {}
    /\ \A r \in Ids : \A a \in assetsOf[r] : ticket[r][a] < issued[a]
    /\ \A q, r \in Ids : q < r =>
          \A a \in assetsOf[q] \cap assetsOf[r] : ticket[q][a] < ticket[r][a]

\* What lies behind a cursor is resolved, and what is done lies behind.
BehindCursor ==
    /\ \A r \in Ids : \A a \in assetsOf[r] :
          ticket[r][a] < completed[a] => r \in done \cup noop
    /\ \A r \in done : \A a \in assetsOf[r] : ticket[r][a] < completed[a]

\* A skipped ticket ahead of the cursor is the ticket of a no-op.
SkippedAhead ==
    /\ \A a \in Assets : \A n \in skipped[a] : n < issued[a]
    /\ \A r \in Ids : \A a \in assetsOf[r] :
          ticket[r][a] \in skipped[a] => r \in noop
    /\ ~cancelled => \A r \in noop : \A a \in assetsOf[r] :
          ticket[r][a] < completed[a] \/ ticket[r][a] \in skipped[a]

\* Where an accepted job can be.
Places ==
    /\ \A r \in Live : Turn(r)
    /\ Live \cup done \subseteq accepted
    /\ accepted \cup noop \subseteq 0 .. nextId - 1
    /\ accepted \cap noop = {}
    /\ Live \cap done = {}
    /\ ~cancelled => /\ submitted = pending \cup Live
                     /\ accepted = submitted \cup done
                     /\ submitted \cap done = {}
    /\ pending \cap Live = {}
    /\ Queued \cap serving = {}
    /\ \A i, j \in 1 .. Len(ready) : ready[i] = ready[j] => i = j

IInv ==
    /\ TypeOK
    /\ TicketOrder
    /\ BehindCursor
    /\ SkippedAhead
    /\ Places
    /\ IndexExact

-----------------------------------------------------------------------------
(* The operators the methods are built from.                               *)

LEMMA LeastExists ==
  ASSUME NEW S \in SUBSET Nat, S # {}
  PROVE  Least(S) \in S /\ \A m \in S : Least(S) <= m
BY MinimumExists DEF Least

\* The cursor stops at the first ticket that is not skipped.
LEMMA PastSkippedFacts ==
  ASSUME NEW n \in Tickets, NEW T, MaxReservations \notin T
  PROVE  /\ PastSkipped(n, T) \in n .. MaxReservations
         /\ PastSkipped(n, T) \notin T
         /\ \A m \in n .. PastSkipped(n, T) - 1 : m \in T
<1> DEFINE S == (n .. MaxReservations) \ T
<1>1. S \in SUBSET Nat /\ S # {}
  BY ReservationsAssumption DEF Tickets
<1>2. Least(S) \in S /\ \A m \in S : Least(S) <= m
  <2> HIDE DEF S
  <2> QED
    BY <1>1, LeastExists
<1>3. PastSkipped(n, T) = Least(S)
  BY DEF PastSkipped
<1> HIDE DEF PastSkipped
<1> QED
  BY <1>2, <1>3, ReservationsAssumption DEF Tickets

\* Releasing a set in some order queues each of its members once.
LEMMA ReleaseElems ==
  ASSUME NEW s \in Seq(Ids), NEW S \in SUBSET Ids, NEW f \in Orderings(S)
  PROVE  /\ s \o f \in Seq(Ids)
         /\ Elems(s \o f) = Elems(s) \cup S
         /\ Once(s) /\ S \cap Elems(s) = {} => Once(s \o f)
<1> DEFINE n == Cardinality(S)
<1>1. IsFiniteSet(S) /\ n \in Nat
  <2>1. IsFiniteSet(Ids)
    BY FS_Interval, ReservationsAssumption DEF Ids
  <2>2. IsFiniteSet(S)
    BY <2>1, FS_Subset
  <2> QED
    BY <2>2, FS_CardinalityType
<1>2. /\ f \in [1 .. n -> S]
      /\ \A i, j \in 1 .. n : f[i] = f[j] => i = j
      /\ \A x \in S : \E i \in 1 .. n : f[i] = x
  BY DEF Orderings, Bijection, Injection, Surjection, IsInjective
<1> HIDE DEF n
<1>3. f \in Seq(Ids) /\ Len(f) = n
  BY <1>1, <1>2
<1>4. /\ s \o f \in Seq(Ids)
      /\ Len(s \o f) = Len(s) + n
      /\ Len(s) \in Nat
      /\ \A i \in 1 .. Len(s) : (s \o f)[i] = s[i]
      /\ \A i \in 1 .. n : (s \o f)[Len(s) + i] = f[i]
  BY <1>1, <1>3
<1>5. ASSUME NEW x \in Elems(s \o f) PROVE x \in Elems(s) \cup S
  <2>1. PICK k \in 1 .. Len(s) + n : x = (s \o f)[k]
    BY <1>4 DEF Elems
  <2>2. CASE k <= Len(s)
    BY <1>4, <2>1, <2>2 DEF Elems
  <2>3. CASE k > Len(s)
    <3>1. k - Len(s) \in 1 .. n /\ k = Len(s) + (k - Len(s))
      BY <1>1, <1>4, <2>3
    <3>2. x = f[k - Len(s)]
      BY <1>4, <2>1, <3>1
    <3> QED
      BY <1>2, <3>1, <3>2
  <2> QED
    BY <1>4, <1>1, <2>2, <2>3
<1>6. ASSUME NEW x \in Elems(s) \cup S PROVE x \in Elems(s \o f)
  <2>1. CASE x \in Elems(s)
    <3>1. PICK i \in 1 .. Len(s) : x = s[i]
      BY <2>1 DEF Elems
    <3>2. i \in 1 .. Len(s \o f) /\ (s \o f)[i] = x
      BY <1>1, <1>4, <3>1
    <3> QED
      BY <3>2 DEF Elems
  <2>2. CASE x \in S
    <3>1. PICK i \in 1 .. n : f[i] = x
      BY <1>2, <2>2
    <3>2. Len(s) + i \in 1 .. Len(s \o f) /\ (s \o f)[Len(s) + i] = x
      BY <1>1, <1>4, <3>1
    <3> QED
      BY <3>2 DEF Elems
  <2> QED
    BY <2>1, <2>2
<1>7. ASSUME Once(s), S \cap Elems(s) = {},
             NEW i \in 1 .. Len(s) + n, NEW j \in 1 .. Len(s) + n,
             (s \o f)[i] = (s \o f)[j], i < j
      PROVE  FALSE
  <2>1. CASE j <= Len(s)
    BY <1>4, <1>7, <2>1 DEF Once
  <2>2. CASE i <= Len(s) /\ j > Len(s)
    <3>1. j - Len(s) \in 1 .. n /\ j = Len(s) + (j - Len(s))
      BY <1>1, <1>4, <2>2
    <3>2. (s \o f)[i] \in Elems(s) /\ (s \o f)[j] \in S
      BY <1>2, <1>4, <2>2, <3>1 DEF Elems
    <3> QED
      BY <1>7, <3>2
  <2>3. CASE i > Len(s)
    <3>1. /\ i - Len(s) \in 1 .. n /\ i = Len(s) + (i - Len(s))
          /\ j - Len(s) \in 1 .. n /\ j = Len(s) + (j - Len(s))
      BY <1>1, <1>4, <1>7, <2>3
    <3>2. f[i - Len(s)] = f[j - Len(s)]
      BY <1>4, <1>7, <3>1
    <3> QED
      BY <1>2, <1>4, <1>7, <3>1, <3>2
  <2> QED
    BY <1>1, <1>4, <1>7, <2>1, <2>2, <2>3
<1>8. ASSUME Once(s), S \cap Elems(s) = {} PROVE Once(s \o f)
  <2>1. SUFFICES ASSUME NEW i \in 1 .. Len(s) + n, NEW j \in 1 .. Len(s) + n,
                        (s \o f)[i] = (s \o f)[j]
                 PROVE  i = j
    BY <1>4 DEF Once
  <2>2. i < j \/ j < i \/ i = j
    BY <1>1, <1>4
  <2> QED
    BY <1>7, <1>8, <2>1, <2>2
<1> QED
  BY <1>4, <1>5, <1>6, <1>8

\* From where the cursors of the assets A may start, and which tickets they may
\* pass.
Movable(A, start, skip, waiting) ==
    /\ A \subseteq Assets /\ waiting \subseteq pending
    /\ start \in [Assets -> Nat] /\ skip \in [Assets -> SUBSET Tickets]
    /\ \A a \in Assets : \A n \in skip[a] : n < issued[a]
    /\ \A a \in A : completed[a] <= start[a] /\ start[a] <= issued[a]

\* What moving them does to the cursors, the skipped tickets, the jobs that still
\* wait, the index and the ready queue.
Moved(A, start, skip, waiting) ==
    /\ completed' \in [Assets -> 0 .. nextId]
    /\ \A a \in Assets : completed[a] <= completed'[a] /\ completed'[a] <= issued[a]
    /\ \A a \in A : /\ start[a] <= completed'[a]
                    /\ completed'[a] \notin skip[a]
                    /\ \A m \in start[a] .. completed'[a] - 1 : m \in skip[a]
    /\ \A a \in Assets \ A : completed'[a] = completed[a]
    /\ skipped' = [a \in Assets |-> {n \in skip[a] : n >= completed'[a]}]
    /\ pending' \subseteq waiting
    /\ \A q \in waiting \ pending' : ReadyAt(q, completed')
    /\ \A q \in pending' : ~ReadyAt(q, completed')
    /\ ready' \in Seq(Ids)
    /\ Elems(ready') = Elems(ready) \cup (waiting \ pending')
    /\ Once(ready) /\ waiting \cap Elems(ready) = {} => Once(ready')
    /\ byTicket' = {x \in byTicket : x[3] \in pending' /\ x[2] > completed'[x[1]]}

LEMMA AdvanceOverFacts ==
  ASSUME NEW A, NEW start, NEW skip, NEW waiting, IInv, ~cancelled,
         Movable(A, start, skip, waiting), AdvanceOver(A, start, skip, waiting)
  PROVE  Moved(A, start, skip, waiting)
<1> USE DEF Movable
<1> DEFINE cursor == [a \in Assets |->
                        IF a \in A
                        THEN PastSkipped(start[a], skip[a]) ELSE completed[a]]
           reached == {x \in byTicket :
                         completed[x[1]] < x[2] /\ x[2] <= cursor[x[1]]}
           candidates == {x[3] : x \in reached} \cap waiting
           released == {q \in candidates : ReadyAt(q, cursor)}
<1>1. /\ completed' = cursor
      /\ skipped' = [a \in Assets |-> {n \in skip[a] : n >= cursor[a]}]
      /\ pending' = waiting \ released
      /\ byTicket' = {x \in byTicket \ reached :
                        x[3] \notin released \cup (pending \ waiting)}
      /\ \E order \in Orderings(released) : ready' = ready \o order
  BY DEF AdvanceOver
<1>2. TypeOK /\ TicketOrder /\ IndexExact
  BY DEF IInv
<1>3. \A a \in A : a \in Assets
  OBVIOUS
<1>4. ASSUME NEW a \in A
      PROVE  /\ cursor[a] \in start[a] .. MaxReservations
             /\ cursor[a] \notin skip[a]
             /\ \A m \in start[a] .. cursor[a] - 1 : m \in skip[a]
             /\ completed[a] <= cursor[a]
             /\ cursor[a] <= issued[a]
  <2>1. a \in Assets
    BY <1>3
  <2>0. /\ issued[a] \in 0 .. MaxReservations
        /\ completed[a] \in 0 .. MaxReservations
    BY <1>2, <2>1, ReservationsAssumption DEF TypeOK, TicketOrder
  <2>2. /\ issued[a] \in 0 .. MaxReservations
        /\ start[a] \in Tickets
        /\ completed[a] \in 0 .. MaxReservations
    BY <2>0, <2>1, ReservationsAssumption DEF Tickets
  <2>3. MaxReservations \notin skip[a]
    BY <2>1, <2>2, ReservationsAssumption
  <2>4. cursor[a] = PastSkipped(start[a], skip[a])
    BY <2>1
  <2>5. /\ cursor[a] \in start[a] .. MaxReservations
        /\ cursor[a] \notin skip[a]
        /\ \A m \in start[a] .. cursor[a] - 1 : m \in skip[a]
    BY <2>2, <2>3, <2>4, PastSkippedFacts
  <2>6. completed[a] <= start[a] /\ start[a] <= issued[a]
    OBVIOUS
  <2> HIDE DEF cursor
  <2>7. completed[a] <= cursor[a]
    BY <2>2, <2>5, <2>6 DEF Tickets
  <2>8. cursor[a] <= issued[a]
    <3>1. CASE cursor[a] = start[a]
      BY <3>1, <2>6
    <3>2. CASE cursor[a] # start[a]
      <4>1. cursor[a] - 1 \in start[a] .. cursor[a] - 1
        BY <2>2, <2>5, <3>2 DEF Tickets
      <4>2. cursor[a] - 1 < issued[a]
        BY <2>1, <2>5, <4>1
      <4> QED
        BY <2>2, <2>5, <4>2 DEF Tickets
    <3> QED
      BY <3>1, <3>2
  <2> QED
    BY <2>5, <2>7, <2>8
<1>5. \A a \in Assets \ A : cursor[a] = completed[a]
  OBVIOUS
<1>6. \A a \in Assets : /\ completed[a] <= cursor[a]
                        /\ cursor[a] <= issued[a]
                        /\ cursor[a] \in 0 .. nextId
  <2>1. ASSUME NEW a \in Assets
        PROVE  completed[a] <= cursor[a] /\ cursor[a] <= issued[a]
    <3>1. CASE a \in A
      BY <1>4, <3>1
    <3>2. CASE a \notin A
      BY <1>2, <1>5, <3>2 DEF TypeOK, TicketOrder
    <3> QED
      BY <3>1, <3>2
  <2>2. ASSUME NEW a \in Assets PROVE cursor[a] \in 0 .. nextId
    <3>1. completed[a] \in 0 .. nextId /\ issued[a] \in 0 .. nextId /\ nextId \in Nat
      BY <1>2 DEF TypeOK
    <3> HIDE DEF cursor
    <3>2. cursor[a] \in Int
      <4>1. CASE a \in A
        BY <1>4, <4>1
      <4>2. CASE a \notin A
        BY <1>5, <3>1, <4>2
      <4> QED
        BY <4>1, <4>2
    <3> QED
      BY <2>1, <3>1, <3>2
  <2> QED
    BY <2>1, <2>2
<1>7. completed' \in [Assets -> 0 .. nextId]
  BY <1>1, <1>6
<1>8. released \subseteq waiting /\ waiting \ pending' = released
  BY <1>1
<1> HIDE DEF cursor
<1>9. \A q \in pending' : ~ReadyAt(q, cursor)
  <2>1. SUFFICES ASSUME NEW q \in waiting, ReadyAt(q, cursor)
                 PROVE  q \in released
    BY <1>1
  <2>2. PICK a \in assetsOf[q] : completed[a] # ticket[q][a]
    BY <1>2 DEF IndexExact, Turn, ReadyAt
  <2>3. a \in Assets /\ q \in Ids /\ ticket[q][a] \in Tickets
    BY <1>2 DEF TypeOK, Tickets
  <2>4. ticket[q][a] = cursor[a]
    BY <2>1 DEF ReadyAt
  <2>5. completed[a] < ticket[q][a]
    BY <1>2, <1>6, <2>2, <2>3, <2>4 DEF TypeOK, Tickets
  <2>6. <<a, ticket[q][a], q>> \in byTicket
    BY <1>2, <2>3, <2>5 DEF IndexExact, Tickets
  <2>7. <<a, ticket[q][a], q>> \in reached
    BY <2>4, <2>5, <2>6, <2>3 DEF Tickets
  <2>8. q \in candidates
    BY <2>7
  <2> QED
    BY <2>1, <2>8
<1>10. \A q \in released : ReadyAt(q, cursor)
  OBVIOUS
<1>11. /\ ready' \in Seq(Ids)
       /\ Elems(ready') = Elems(ready) \cup released
       /\ Once(ready) /\ waiting \cap Elems(ready) = {} => Once(ready')
  <2>1. PICK order \in Orderings(released) : ready' = ready \o order
    BY <1>1
  <2>2. ready \in Seq(Ids) /\ released \in SUBSET Ids
    BY <1>2, <1>8 DEF TypeOK
  <2> HIDE DEF released
  <2>3. /\ ready \o order \in Seq(Ids)
        /\ Elems(ready \o order) = Elems(ready) \cup released
        /\ Once(ready) /\ released \cap Elems(ready) = {} => Once(ready \o order)
    BY <2>1, <2>2, ReleaseElems
  <2> QED
    BY <1>8, <2>1, <2>3
<1>12. byTicket' = {x \in byTicket : x[3] \in pending' /\ x[2] > cursor[x[1]]}
  <2>1. ASSUME NEW x \in byTicket
        PROVE  /\ x[3] \in pending /\ completed[x[1]] < x[2]
               /\ x[1] \in Assets /\ x[2] \in Tickets
    BY <1>2 DEF IndexExact, Tickets
  <2>2. ASSUME NEW x \in byTicket
        PROVE  x \notin reached <=> x[2] > cursor[x[1]]
    <3>1. /\ x[2] \in Nat /\ cursor[x[1]] \in Int
          /\ completed[x[1]] < x[2]
      BY <1>6, <2>1 DEF Tickets
    <3> QED
      BY <3>1
  <2> QED
    BY <1>1, <2>1, <2>2
<1> QED
  <2> HIDE DEF released, candidates, reached
  <2> QED
    BY <1>1, <1>4, <1>5, <1>6, <1>7, <1>8, <1>9, <1>10, <1>11, <1>12 DEF Moved

\* The same for skip() and complete(), which move the cursors of one job.
LEMMA AdvanceFacts ==
  ASSUME NEW r \in Ids, NEW start \in [Assets -> Nat],
         NEW skip \in [Assets -> SUBSET Tickets],
         IInv, ~cancelled,
         \A a \in Assets : \A n \in skip[a] : n < issued[a],
         \A a \in assetsOf[r] : completed[a] <= start[a] /\ start[a] <= issued[a],
         Advance(r, start, skip)
  PROVE  /\ completed' \in [Assets -> 0 .. nextId]
         /\ \A a \in Assets : /\ completed[a] <= completed'[a]
                              /\ completed'[a] <= issued[a]
         /\ \A a \in assetsOf[r] :
              /\ start[a] <= completed'[a]
              /\ completed'[a] \notin skip[a]
              /\ \A m \in start[a] .. completed'[a] - 1 : m \in skip[a]
         /\ \A a \in Assets \ assetsOf[r] : completed'[a] = completed[a]
         /\ skipped' = [a \in Assets |-> {n \in skip[a] : n >= completed'[a]}]
         /\ pending' \subseteq pending
         /\ ready' \in Seq(Ids)
         /\ Elems(ready') = Elems(ready) \cup (pending \ pending')
         /\ Once(ready) /\ pending \cap Elems(ready) = {} => Once(ready')
<1>1. assetsOf[r] \in SUBSET Assets
  BY DEF IInv, TypeOK
<1>2. AdvanceOver(assetsOf[r], start, skip, pending)
  BY DEF Advance
<1>3. Movable(assetsOf[r], start, skip, pending)
  BY <1>1 DEF Movable
<1>4. Moved(assetsOf[r], start, skip, pending)
  BY <1>2, <1>3, AdvanceOverFacts
<1> QED
  BY <1>4 DEF Moved

-----------------------------------------------------------------------------
(* Consequences of the invariant.                                          *)

\* Live jobs stand at the cursors of their assets and tickets differ, so live
\* jobs share no asset.
LEMMA LiveExclusion == IInv => AssetExclusion
<1> SUFFICES ASSUME IInv, NEW q \in Live, NEW r \in Live, q # r,
                    NEW a \in assetsOf[q] \cap assetsOf[r]
             PROVE  FALSE
  BY DEF AssetExclusion
<1>1. q \in Ids /\ r \in Ids
  BY DEF IInv, TypeOK, Places, Ids
<1>2. ticket[q][a] = completed[a] /\ ticket[r][a] = completed[a]
  BY DEF IInv, Places, Turn, ReadyAt
<1>3. q < r \/ r < q
  BY <1>1 DEF Ids
<1>4. ticket[q][a] \in Nat /\ ticket[r][a] \in Nat
  BY <1>1 DEF IInv, TypeOK
<1> QED
  BY <1>1, <1>2, <1>3, <1>4 DEF IInv, TicketOrder

\* No two reservations hold the same ticket of an asset.
LEMMA TicketsDiffer ==
  ASSUME IInv, NEW q \in Ids, NEW r \in Ids, NEW a \in assetsOf[q],
         a \in assetsOf[r], ticket[q][a] = ticket[r][a]
  PROVE  q = r
<1>1. ticket[q][a] \in Nat /\ ticket[r][a] \in Nat
  BY DEF IInv, TypeOK
<1>2. q < r \/ r < q \/ q = r
  BY DEF Ids
<1> QED
  BY <1>1, <1>2 DEF IInv, TicketOrder

\* A submit or skip that is not refused is the first call for its reservation.
LEMMA FreshCall ==
  ASSUME IInv, ~cancelled, NEW r \in Ids, FirstUse(r), r \notin submitted,
         Unspent(r)
  PROVE  r \notin accepted \cup noop
<1>1. CASE assetsOf[r] = {}
  BY <1>1 DEF FirstUse
<1>2. CASE assetsOf[r] # {}
  <2>1. PICK a \in assetsOf[r] : TRUE
    BY <1>2
  <2>2. a \in Assets
    BY DEF IInv, TypeOK
  <2>3. /\ ~(ticket[r][a] < completed[a])
        /\ ticket[r][a] \notin skipped[a]
    BY <2>1, <2>2 DEF Unspent, IInv, TypeOK
  <2>4. r \notin noop
    BY <2>3 DEF IInv, SkippedAhead
  <2>5. r \notin done
    BY <2>3 DEF IInv, BehindCursor
  <2> QED
    BY <2>4, <2>5 DEF IInv, Places
<1> QED
  BY <1>1, <1>2

\* Live jobs and what is behind them: the causal prefix.
LEMMA PrefixResolved == IInv => CausalPrefix
<1> SUFFICES ASSUME IInv, NEW r \in Live \cup done, NEW q \in Ids, q < r,
                    NEW a \in assetsOf[q] \cap assetsOf[r]
             PROVE  q \in done \cup noop
  BY DEF CausalPrefix
<1>1. r \in Ids /\ a \in Assets
  BY DEF IInv, TypeOK, Places, Ids
<1>2. ticket[r][a] <= completed[a]
  <2>1. ticket[r][a] \in Nat /\ completed[a] \in Nat
    BY <1>1 DEF IInv, TypeOK
  <2>2. CASE r \in Live
    BY <2>1, <2>2 DEF IInv, Places, Turn, ReadyAt
  <2>3. CASE r \in done
    BY <2>1, <2>3 DEF IInv, BehindCursor
  <2> QED
    BY <2>2, <2>3
<1>3. ticket[q][a] < ticket[r][a]
  BY <1>1 DEF IInv, TicketOrder
<1>4. ticket[q][a] < completed[a]
  BY <1>1, <1>2, <1>3 DEF IInv, TypeOK
<1> QED
  BY <1>4 DEF IInv, BehindCursor

-----------------------------------------------------------------------------
(* Every step keeps the invariant.                                         *)

LEMMA InitInvariant == Init => IInv
<1> SUFFICES ASSUME Init PROVE IInv
  OBVIOUS
<1>1. Queued = {} /\ Live = {}
  BY DEF Init, Queued, Live
<1>2. TypeOK
  <2>1. 0 \in 0 .. MaxReservations /\ 0 \in 0 .. 0
    BY ReservationsAssumption
  <2>2. ready \in Seq(Ids) /\ byTicket \in SUBSET (Assets \X (0 .. MaxReservations) \X Ids)
    BY DEF Init
  <2> QED
    BY <2>1, <2>2 DEF Init, TypeOK
<1>3. TicketOrder /\ BehindCursor /\ SkippedAhead
  BY DEF Init, TicketOrder, BehindCursor, SkippedAhead
<1>4. Places
  BY <1>1 DEF Init, Places, Live
<1>5. IndexExact
  BY DEF Init, IndexExact
<1> QED
  BY <1>2, <1>3, <1>4, <1>5 DEF IInv

LEMMA ReservePreserves ==
  ASSUME IInv, NEW A \in SUBSET Assets, Reserve(A)
  PROVE  IInv'
<1>1. /\ nextId \in Ids /\ nextId' = nextId + 1 /\ nextId \in Nat
      /\ assetsOf[nextId] = {} /\ nextId' \in 0 .. MaxReservations
  BY ReservationsAssumption DEF IInv, TypeOK, TicketOrder, Reserve, Ids
<1>2. \A a \in Assets : /\ issued[a] \in 0 .. nextId
                        /\ issued'[a] = IF a \in A THEN issued[a] + 1 ELSE issued[a]
  BY DEF Reserve, IInv, TypeOK
<1>3. /\ \A r \in Ids : r # nextId =>
           assetsOf'[r] = assetsOf[r] /\ ticket'[r] = ticket[r]
      /\ assetsOf'[nextId] = A /\ ticket'[nextId] = issued
  BY <1>1 DEF Reserve, IInv, TypeOK
<1>4. TypeOK'
  <2>1. issued' \in [Assets -> 0 .. nextId']
    BY <1>1, <1>2 DEF Reserve
  <2>2. completed' \in [Assets -> 0 .. nextId']
    BY <1>1 DEF Reserve, IInv, TypeOK
  <2>3. assetsOf' \in [Ids -> SUBSET Assets]
    BY DEF Reserve, IInv, TypeOK
  <2>4. issued \in [Assets -> 0 .. MaxReservations]
    <3>1. issued \in [Assets -> 0 .. nextId] /\ nextId \in 0 .. MaxReservations
      BY DEF IInv, TypeOK
    <3>2. \A a \in Assets : issued[a] \in 0 .. MaxReservations
      BY <3>1, ReservationsAssumption
    <3> QED
      BY <3>1, <3>2
  <2>5. ticket' \in [Ids -> [Assets -> 0 .. MaxReservations]]
    BY <2>4 DEF Reserve, IInv, TypeOK
  <2> QED
    BY <1>1, <2>1, <2>2, <2>3, <2>5
    DEF Reserve, IInv, TypeOK, queues, shutdown, history
<1>5. \A r \in accepted \cup noop \cup done \cup Live \cup (IF cancelled THEN {} ELSE pending) :
        r \in Ids /\ r # nextId
  BY DEF IInv, Places, TypeOK, Ids
<1>6. ~cancelled /\ Queued' = Queued /\ Live' = Live
  BY DEF Reserve, Queued, Live, queues, history
<1>7. TicketOrder'
  <2>1. \A a \in Assets : completed'[a] <= issued'[a] /\ issued'[a] <= nextId'
    BY <1>1, <1>2 DEF Reserve, IInv, TypeOK, TicketOrder
  <2>2. \A r \in Ids : r >= nextId' => assetsOf'[r] = {}
    BY <1>1, <1>3 DEF IInv, TicketOrder, Ids
  <2>3. \A r \in Ids : \A a \in assetsOf'[r] : ticket'[r][a] < issued'[a]
    <3>1. SUFFICES ASSUME NEW r \in Ids, NEW a \in assetsOf'[r]
                   PROVE  ticket'[r][a] < issued'[a]
      OBVIOUS
    <3>2. CASE r = nextId
      BY <1>2, <1>3, <3>2
    <3>3. CASE r # nextId
      <4>1. a \in Assets /\ ticket[r][a] < issued[a] /\ ticket[r][a] \in Nat
        BY <1>3, <3>3 DEF IInv, TicketOrder, TypeOK
      <4> QED
        BY <1>2, <1>3, <3>3, <4>1
    <3> QED
      BY <3>2, <3>3
  <2>4. \A q, r \in Ids : q < r =>
          \A a \in assetsOf'[q] \cap assetsOf'[r] : ticket'[q][a] < ticket'[r][a]
    <3>1. SUFFICES ASSUME NEW q \in Ids, NEW r \in Ids, q < r,
                          NEW a \in assetsOf'[q] \cap assetsOf'[r]
                   PROVE  ticket'[q][a] < ticket'[r][a]
      OBVIOUS
    <3>2. q # nextId
      BY <1>1, <1>3, <3>1 DEF IInv, TicketOrder, Ids
    <3>3. CASE r = nextId
      BY <1>3, <3>1, <3>2, <3>3 DEF IInv, TicketOrder
    <3>4. CASE r # nextId
      BY <1>3, <3>1, <3>2, <3>4 DEF IInv, TicketOrder
    <3> QED
      BY <3>3, <3>4
  <2> QED
    BY <2>1, <2>2, <2>3, <2>4 DEF TicketOrder
<1>8. /\ completed' = completed /\ done' = done /\ noop' = noop
      /\ skipped' = skipped /\ cancelled' = cancelled
  BY DEF Reserve, history, shutdown, queues
<1>9. ASSUME NEW a \in A
      PROVE  issued[a] >= completed[a] /\ issued[a] \notin skipped[a]
  BY DEF IInv, TicketOrder, SkippedAhead, TypeOK
<1>10. BehindCursor'
  <2>1. ASSUME NEW r \in Ids, NEW a \in assetsOf'[r], ticket'[r][a] < completed[a]
        PROVE  r \in done \cup noop
    <3>1. CASE r = nextId
      BY <1>2, <1>3, <1>9, <2>1, <3>1 DEF IInv, TypeOK
    <3>2. CASE r # nextId
      BY <1>3, <2>1, <3>2 DEF IInv, BehindCursor
    <3> QED
      BY <3>1, <3>2
  <2>2. ASSUME NEW r \in done, NEW a \in assetsOf'[r]
        PROVE  ticket'[r][a] < completed[a]
    BY <1>3, <1>5 DEF IInv, BehindCursor
  <2> QED
    BY <1>8, <2>1, <2>2 DEF BehindCursor
<1>11. SkippedAhead'
  <2>1. ASSUME NEW a \in Assets, NEW n \in skipped[a] PROVE n < issued'[a]
    <3>1. n < issued[a] /\ n \in Nat
      BY DEF IInv, SkippedAhead, TypeOK
    <3> QED
      BY <1>2, <3>1
  <2>2. ASSUME NEW r \in Ids, NEW a \in assetsOf'[r], ticket'[r][a] \in skipped[a]
        PROVE  r \in noop
    <3>1. CASE r = nextId
      BY <1>3, <1>9, <2>2, <3>1
    <3>2. CASE r # nextId
      BY <1>3, <2>2, <3>2 DEF IInv, SkippedAhead
    <3> QED
      BY <3>1, <3>2
  <2>3. ASSUME NEW r \in noop, NEW a \in assetsOf'[r]
        PROVE  ticket'[r][a] < completed[a] \/ ticket'[r][a] \in skipped[a]
    BY <1>3, <1>5, <1>6 DEF IInv, SkippedAhead
  <2> QED
    BY <1>8, <2>1, <2>2, <2>3 DEF SkippedAhead
<1>12. Places'
  <2>1. \A r \in Live : Turn(r)'
    BY <1>3, <1>5, <1>8 DEF IInv, Places, Turn, ReadyAt
  <2>2. accepted' = accepted /\ submitted' = submitted /\ pending' = pending
        /\ ready' = ready /\ serving' = serving
    BY DEF Reserve, history, queues
  <2>3. accepted \cup noop \subseteq 0 .. nextId' - 1
    BY <1>1 DEF IInv, Places
  <2> QED
    BY <1>6, <1>8, <2>1, <2>2, <2>3 DEF IInv, Places
<1>13. IndexExact'
  <2>1. pending' = pending /\ byTicket' = byTicket
    BY DEF Reserve, queues
  <2>2. \A r \in pending : r \in Ids /\ r # nextId
    BY <1>5, <1>6
  <2>3. \A r \in pending : ~Turn(r)'
    BY <1>3, <1>6, <1>8, <2>2 DEF IInv, IndexExact, Turn, ReadyAt
  <2>4. \A r \in pending : assetsOf'[r] = assetsOf[r] /\ ticket'[r] = ticket[r]
    BY <1>3, <2>2
  <2>5. byTicket = {x \in Assets \X (0 .. MaxReservations) \X pending :
                         /\ x[1] \in assetsOf'[x[3]]
                         /\ x[2] = ticket'[x[3]][x[1]]
                         /\ x[2] > completed[x[1]]}
    BY <1>6, <2>4 DEF IInv, IndexExact
  <2> QED
    BY <1>8, <2>1, <2>3, <2>5 DEF IndexExact
<1> QED
  BY <1>4, <1>7, <1>10, <1>11, <1>12, <1>13 DEF IInv

LEMMA SubmitPreserves ==
  ASSUME IInv, NEW r \in Ids, Submit(r)
  PROVE  IInv'
<1>1. /\ ~cancelled /\ r < nextId /\ r \notin submitted /\ Unspent(r)
      /\ r \notin accepted \cup noop
      /\ submitted' = submitted \cup {r} /\ accepted' = accepted \cup {r}
      /\ cancelled' = cancelled
  BY FreshCall DEF Submit, shutdown
<1>2. /\ nextId' = nextId /\ issued' = issued /\ completed' = completed
      /\ assetsOf' = assetsOf /\ ticket' = ticket /\ skipped' = skipped
      /\ serving' = serving /\ noop' = noop /\ done' = done
      /\ backlog' = backlog
  BY DEF Submit, cursors, shutdown
<1>3. /\ r \notin pending /\ r \notin Queued /\ r \notin serving
      /\ r \notin done /\ r \notin Live
  BY <1>1 DEF IInv, Places, Live
<1>4. TicketOrder' /\ BehindCursor' /\ SkippedAhead'
  <2>1. TicketOrder'
    BY <1>2 DEF IInv, TicketOrder
  <2>2. BehindCursor'
    BY <1>2 DEF IInv, BehindCursor
  <2>3. SkippedAhead'
    BY <1>1, <1>2 DEF IInv, SkippedAhead
  <2> QED
    BY <2>1, <2>2, <2>3
<1>5. \A q \in Ids : Turn(q)' <=> Turn(q)
  BY <1>2 DEF Turn, ReadyAt
<1>6. r \in 0 .. nextId - 1
  BY <1>1 DEF Ids, IInv, TypeOK
<1>7. CASE Turn(r)
  <2>1. ready' = Append(ready, r) /\ pending' = pending /\ byTicket' = byTicket
    BY <1>7 DEF Submit
  <2>2. /\ ready' \in Seq(Ids) /\ Elems(ready') = Elems(ready) \cup {r}
        /\ Once(ready')
    <3>1. ready \in Seq(Ids) /\ Once(ready) /\ r \notin Elems(ready)
      BY <1>3 DEF IInv, TypeOK, Places, Once, Elems, Queued
    <3> QED
      BY <2>1, <3>1, AppendElems
  <2>3. /\ Queued' = Queued \cup {r} /\ Live' = Live \cup {r}
        /\ \A i, j \in 1 .. Len(ready') : ready'[i] = ready'[j] => i = j
    BY <1>2, <2>2 DEF Queued, Elems, Live, Once
  <2>4. TypeOK'
    BY <1>1, <1>2, <2>1, <2>2 DEF IInv, TypeOK
  <2>5. Places'
    <3>1. \A q \in Live' : Turn(q)'
      <4>1. ASSUME NEW q \in Live' PROVE q \in Ids /\ Turn(q)
        BY <1>7, <2>3, <1>6 DEF IInv, Places, TypeOK, Ids
      <4> QED
        BY <1>5, <4>1
    <3> QED
      BY <1>1, <1>2, <1>3, <1>6, <2>1, <2>3, <3>1 DEF IInv, Places
  <2>6. IndexExact'
    BY <1>1, <1>2, <1>5, <2>1 DEF IInv, IndexExact, TypeOK
  <2> QED
    BY <1>4, <2>4, <2>5, <2>6 DEF IInv
<1>8. CASE ~Turn(r)
  <2> DEFINE blocked == {<<a, ticket[r][a], r>> :
                           a \in {b \in assetsOf[r] : completed[b] # ticket[r][b]}}
  <2>1. /\ ready' = ready /\ pending' = pending \cup {r}
        /\ byTicket' = byTicket \cup blocked
    BY <1>8 DEF Submit
  <2>2. Queued' = Queued /\ Live' = Live
    BY <1>2, <2>1 DEF Queued, Live
  <2>3. ASSUME NEW a \in assetsOf[r]
        PROVE  /\ a \in Assets /\ ticket[r][a] \in 0 .. MaxReservations
               /\ completed[a] # ticket[r][a] <=> ticket[r][a] > completed[a]
    <3>1. a \in Assets /\ ticket[r][a] \in 0 .. MaxReservations /\ completed[a] \in Nat
      BY DEF IInv, TypeOK
    <3>2. ticket[r][a] >= completed[a]
      BY <1>1 DEF Unspent
    <3> QED
      BY <3>1, <3>2
  <2>4. blocked = {x \in Assets \X (0 .. MaxReservations) \X {r} :
                     /\ x[1] \in assetsOf[x[3]]
                     /\ x[2] = ticket[x[3]][x[1]]
                     /\ x[2] > completed[x[1]]}
    BY <2>3
  <2>5. TypeOK'
    <3>1. blocked \in SUBSET (Assets \X (0 .. MaxReservations) \X Ids)
      BY <2>3
    <3> HIDE DEF blocked
    <3> QED
      BY <1>1, <1>2, <2>1, <3>1 DEF IInv, TypeOK
  <2>6. Places'
    <3>1. \A q \in Live' : Turn(q)'
      BY <1>2, <2>2 DEF IInv, Places, Turn, ReadyAt
    <3> QED
      BY <1>1, <1>2, <1>3, <1>6, <2>1, <2>2, <3>1 DEF IInv, Places
  <2>7. IndexExact'
    <3>1. \A q \in pending' : ~Turn(q)'
      BY <1>1, <1>2, <1>8, <2>1 DEF IInv, IndexExact, Turn, ReadyAt
    <3>2. byTicket' = {x \in Assets \X (0 .. MaxReservations) \X pending' :
                         /\ x[1] \in assetsOf[x[3]]
                         /\ x[2] = ticket[x[3]][x[1]]
                         /\ x[2] > completed[x[1]]}
      <4>1. byTicket = {x \in Assets \X (0 .. MaxReservations) \X pending :
                         /\ x[1] \in assetsOf[x[3]]
                         /\ x[2] = ticket[x[3]][x[1]]
                         /\ x[2] > completed[x[1]]}
        BY <1>1 DEF IInv, IndexExact
      <4> HIDE DEF blocked
      <4> QED
        BY <2>1, <2>4, <4>1
    <3> QED
      BY <1>2, <3>1, <3>2 DEF IndexExact
  <2> QED
    BY <1>4, <2>5, <2>6, <2>7 DEF IInv
<1> QED
  BY <1>7, <1>8

LEMMA GetReadyPreserves ==
  ASSUME IInv, GetReady
  PROVE  IInv'
<1> DEFINE r == Head(ready)
<1>1. /\ serving' = serving \cup {r} /\ ready' = Tail(ready)
      /\ nextId' = nextId /\ issued' = issued /\ completed' = completed
      /\ assetsOf' = assetsOf /\ ticket' = ticket /\ skipped' = skipped
      /\ pending' = pending /\ byTicket' = byTicket /\ submitted' = submitted
      /\ cancelled' = cancelled /\ backlog' = backlog
      /\ accepted' = accepted /\ noop' = noop /\ done' = done
  BY DEF GetReady, cursors, shutdown
<1>2. /\ ready' \in Seq(Ids) /\ r \in Queued /\ Queued = Queued' \cup {r}
      /\ r \notin Queued'
      /\ \A i, j \in 1 .. Len(ready') : ready'[i] = ready'[j] => i = j
  <2>1. ready \in Seq(Ids) /\ ready # <<>> /\ Once(ready)
    BY DEF IInv, TypeOK, Places, Once, GetReady
  <2>2. /\ Tail(ready) \in Seq(Ids) /\ Head(ready) \in Elems(ready)
        /\ Elems(ready) = Elems(Tail(ready)) \cup {Head(ready)}
        /\ Once(Tail(ready)) /\ Head(ready) \notin Elems(Tail(ready))
    BY <2>1, TailElems
  <2>3. Queued = Elems(ready) /\ Queued' = Elems(Tail(ready)) /\ ready' = Tail(ready)
    BY <1>1 DEF Elems, Queued
  <2> QED
    BY <2>2, <2>3 DEF Once
<1>3. Live' = Live
  BY <1>1, <1>2 DEF Live
<1> HIDE DEF r
<1>4. TypeOK'
  <2>1. r \in Ids
    BY <1>2 DEF IInv, TypeOK, Queued
  <2> QED
    BY <1>1, <1>2, <2>1 DEF IInv, TypeOK
<1>5. TicketOrder' /\ BehindCursor' /\ SkippedAhead' /\ IndexExact'
  BY <1>1 DEF IInv, TicketOrder, BehindCursor, SkippedAhead, IndexExact, Turn,
     ReadyAt
<1>6. Places'
  <2>1. \A q \in Live' : Turn(q)'
    BY <1>1, <1>3 DEF IInv, Places, Turn, ReadyAt
  <2> QED
    BY <1>1, <1>2, <1>3, <2>1 DEF IInv, Places
<1> QED
  BY <1>4, <1>5, <1>6 DEF IInv

LEMMA RequeuePreserves ==
  ASSUME IInv, NEW r \in Ids, RequeueReady(r)
  PROVE  IInv'
<1>1. /\ r \in serving /\ serving' = serving \ {r} /\ ready' = Append(ready, r)
      /\ nextId' = nextId /\ issued' = issued /\ completed' = completed
      /\ assetsOf' = assetsOf /\ ticket' = ticket /\ skipped' = skipped
      /\ pending' = pending /\ byTicket' = byTicket /\ submitted' = submitted
      /\ cancelled' = cancelled /\ backlog' = backlog
      /\ accepted' = accepted /\ noop' = noop /\ done' = done
  BY DEF RequeueReady, cursors, shutdown
<1>2. /\ ready' \in Seq(Ids) /\ Queued' = Queued \cup {r}
      /\ \A i, j \in 1 .. Len(ready') : ready'[i] = ready'[j] => i = j
  <2>1. ready \in Seq(Ids) /\ Once(ready) /\ r \notin Elems(ready)
    BY <1>1 DEF IInv, TypeOK, Places, Once, Elems, Queued
  <2>2. /\ ready' \in Seq(Ids) /\ Elems(ready') = Elems(ready) \cup {r}
        /\ Once(ready')
    BY <1>1, <2>1, AppendElems
  <2> QED
    BY <2>2 DEF Elems, Once, Queued
<1>3. Live' = Live
  BY <1>1, <1>2 DEF Live
<1>4. TypeOK'
  BY <1>1, <1>2 DEF IInv, TypeOK
<1>5. TicketOrder' /\ BehindCursor' /\ SkippedAhead' /\ IndexExact'
  BY <1>1 DEF IInv, TicketOrder, BehindCursor, SkippedAhead, IndexExact, Turn,
     ReadyAt
<1>6. Places'
  <2>1. \A q \in Live' : Turn(q)'
    BY <1>1, <1>3 DEF IInv, Places, Turn, ReadyAt
  <2> QED
    BY <1>1, <1>2, <1>3, <2>1 DEF IInv, Places
<1> QED
  BY <1>4, <1>5, <1>6 DEF IInv

\* What every cancel_waiters clears, whatever backlog it reports.
LEMMA ClearingPreserves ==
  ASSUME IInv, cancelled' = TRUE, backlog' \in [ready : Nat, waiting : Nat],
         pending' = {}, byTicket' = {}, submitted' = {},
         skipped' = [a \in Assets |-> {}], UNCHANGED <<cursors, ready, history>>
  PROVE  IInv'
<1>1. /\ ready' = ready
      /\ nextId' = nextId /\ issued' = issued /\ completed' = completed
      /\ assetsOf' = assetsOf /\ ticket' = ticket /\ serving' = serving
      /\ accepted' = accepted /\ noop' = noop /\ done' = done
  BY DEF cursors, history
<1>2. Queued' = Queued /\ Live' = Live
  BY <1>1 DEF Queued, Live
<1>3. TypeOK'
  BY <1>1 DEF IInv, TypeOK
<1>4. TicketOrder' /\ BehindCursor' /\ SkippedAhead' /\ IndexExact'
  <2>1. TicketOrder' /\ BehindCursor'
    BY <1>1 DEF IInv, TicketOrder, BehindCursor
  <2>2. \A a \in Assets : skipped'[a] = {}
    OBVIOUS
  <2>3. \A r \in Ids : assetsOf'[r] \subseteq Assets
    BY <1>1 DEF IInv, TypeOK
  <2>4. SkippedAhead'
    BY <1>1, <2>2, <2>3 DEF SkippedAhead
  <2>5. IndexExact'
    BY DEF IndexExact
  <2> QED
    BY <2>1, <2>4, <2>5
<1>5. Places'
  <2>1. \A q \in Live' : Turn(q)'
    BY <1>1, <1>2 DEF IInv, Places, Turn, ReadyAt
  <2> QED
    BY <1>1, <1>2, <2>1 DEF IInv, Places
<1> QED
  BY <1>3, <1>4, <1>5 DEF IInv

LEMMA CountsAreNaturals ==
  ASSUME TypeOK
  PROVE  Len(ready) \in Nat /\ Cardinality(pending) \in Nat
<1>1. IsFiniteSet(Ids)
  BY FS_Interval, ReservationsAssumption DEF Ids
<1>2. IsFiniteSet(pending)
  BY <1>1, FS_Subset DEF TypeOK
<1> QED
  BY <1>2, FS_CardinalityType DEF TypeOK

LEMMA CancelPreserves ==
  ASSUME IInv, CancelWaiters
  PROVE  IInv'
<1>1. backlog' \in [ready : Nat, waiting : Nat]
  BY CountsAreNaturals DEF CancelWaiters, IInv
<1> QED
  BY <1>1, ClearingPreserves DEF CancelWaiters

\* The parts of the invariant about the index and the queue after an Advance,
\* and the two about tickets; the callers add what they do to their own job.
LEMMA AdvanceOverKeeps ==
  ASSUME NEW A, NEW start, NEW skip, NEW waiting, IInv,
         waiting \subseteq pending, Moved(A, start, skip, waiting),
         UNCHANGED <<nextId, issued, assetsOf, ticket, cancelled>>, ~cancelled,
         skip \in [Assets -> SUBSET Tickets]
  PROVE  /\ TicketOrder'
         /\ IndexExact'
         /\ \A q \in waiting \ pending' : Turn(q)'
         /\ completed' \in [Assets -> 0 .. nextId]
         /\ skipped' \in [Assets -> SUBSET (0 .. MaxReservations)]
         /\ byTicket' \subseteq byTicket
<1>1. /\ completed' \in [Assets -> 0 .. nextId]
      /\ \A a \in Assets : completed[a] <= completed'[a] /\ completed'[a] <= issued[a]
      /\ skipped' = [a \in Assets |-> {n \in skip[a] : n >= completed'[a]}]
      /\ pending' \subseteq waiting
      /\ \A q \in waiting \ pending' : ReadyAt(q, completed')
      /\ \A q \in pending' : ~ReadyAt(q, completed')
      /\ byTicket' = {x \in byTicket : x[3] \in pending' /\ x[2] > completed'[x[1]]}
  BY DEF Moved
<1>2. \A q \in Ids : Turn(q)' <=> ReadyAt(q, completed')
  BY DEF Turn, ReadyAt
<1>3. pending \subseteq Ids
  BY DEF IInv, TypeOK
<1>4. TicketOrder'
  BY <1>1 DEF IInv, TicketOrder
<1>5. IndexExact'
  <2>1. \A q \in pending' : ~Turn(q)'
    BY <1>1, <1>2, <1>3
  <2>2. byTicket = {x \in Assets \X (0 .. MaxReservations) \X pending :
                         /\ x[1] \in assetsOf[x[3]]
                         /\ x[2] = ticket[x[3]][x[1]]
                         /\ x[2] > completed[x[1]]}
    BY DEF IInv, IndexExact
  <2>3. ASSUME NEW x \in Assets \X (0 .. MaxReservations) \X pending,
               x[2] > completed'[x[1]]
        PROVE  x[2] > completed[x[1]]
    <3>1. /\ x[1] \in Assets /\ x[2] \in 0 .. MaxReservations
      OBVIOUS
    <3>2. /\ completed[x[1]] <= completed'[x[1]]
          /\ completed[x[1]] \in Nat /\ completed'[x[1]] \in Nat
      BY <1>1, <3>1 DEF IInv, TypeOK
    <3> QED
      BY <2>3, <3>1, <3>2
  <2>4. byTicket' = {x \in Assets \X (0 .. MaxReservations) \X pending' :
                         /\ x[1] \in assetsOf[x[3]]
                         /\ x[2] = ticket[x[3]][x[1]]
                         /\ x[2] > completed'[x[1]]}
    BY <1>1, <2>2, <2>3
  <2> QED
    BY <2>1, <2>4 DEF IndexExact
<1>6. \A q \in waiting \ pending' : Turn(q)'
  BY <1>1, <1>2, <1>3
<1>7. skipped' \in [Assets -> SUBSET (0 .. MaxReservations)]
  BY <1>1 DEF Tickets
<1> QED
  BY <1>1, <1>4, <1>5, <1>6, <1>7

LEMMA AdvanceKeeps ==
  ASSUME NEW r \in Ids, NEW start \in [Assets -> Nat],
         NEW skip \in [Assets -> SUBSET Tickets],
         IInv, ~cancelled,
         \A a \in Assets : \A n \in skip[a] : n < issued[a],
         \A a \in assetsOf[r] : completed[a] <= start[a] /\ start[a] <= issued[a],
         Advance(r, start, skip),
         UNCHANGED <<nextId, issued, assetsOf, ticket, cancelled>>
  PROVE  /\ TicketOrder'
         /\ IndexExact'
         /\ \A q \in pending \ pending' : Turn(q)'
         /\ completed' \in [Assets -> 0 .. nextId]
         /\ skipped' \in [Assets -> SUBSET (0 .. MaxReservations)]
         /\ byTicket' \subseteq byTicket
<1>1. assetsOf[r] \in SUBSET Assets
  BY DEF IInv, TypeOK
<1>2. AdvanceOver(assetsOf[r], start, skip, pending)
  BY DEF Advance
<1>3. Movable(assetsOf[r], start, skip, pending)
  BY <1>1 DEF Movable
<1>4. Moved(assetsOf[r], start, skip, pending)
  BY <1>2, <1>3, AdvanceOverFacts
<1> QED
  BY <1>4, AdvanceOverKeeps

LEMMA SkipPreserves ==
  ASSUME IInv, NEW r \in Ids, Skip(r)
  PROVE  IInv'
<1> DEFINE skip == [a \in Assets |-> IF a \in assetsOf[r]
                                     THEN skipped[a] \cup {ticket[r][a]}
                                     ELSE skipped[a]]
<1>1. /\ ~cancelled /\ r < nextId /\ r \notin submitted /\ Unspent(r)
      /\ r \notin accepted \cup noop
      /\ Advance(r, completed, skip)
      /\ noop' = noop \cup {r}
      /\ nextId' = nextId /\ issued' = issued /\ assetsOf' = assetsOf
      /\ ticket' = ticket /\ submitted' = submitted /\ cancelled' = cancelled
      /\ backlog' = backlog /\ serving' = serving /\ accepted' = accepted
      /\ done' = done
  BY FreshCall DEF Skip, shutdown
<1>2. TypeOK /\ TicketOrder /\ BehindCursor /\ SkippedAhead /\ Places
  BY DEF IInv
<1>3. \A q \in Ids : \A a \in assetsOf[q] : a \in Assets /\ ticket[q][a] \in Tickets
  BY <1>2 DEF TypeOK, Tickets
<1>4. /\ skip \in [Assets -> SUBSET Tickets]
      /\ completed \in [Assets -> Nat]
      /\ \A a \in Assets : \A n \in skip[a] : n < issued[a]
      /\ \A a \in assetsOf[r] : completed[a] <= completed[a] /\ completed[a] <= issued[a]
  <2>1. skip \in [Assets -> SUBSET Tickets]
    BY <1>2, <1>3 DEF TypeOK, Tickets
  <2>2. completed \in [Assets -> Nat]
    BY <1>2 DEF TypeOK
  <2>3. \A a \in Assets : \A n \in skip[a] : n < issued[a]
    BY <1>2 DEF TicketOrder, SkippedAhead
  <2>4. \A a \in assetsOf[r] : completed[a] <= completed[a] /\ completed[a] <= issued[a]
    BY <1>2, <1>3, <2>2 DEF TicketOrder
  <2> QED
    BY <2>1, <2>2, <2>3, <2>4
<1>5. \A q \in Ids : \A a \in assetsOf[q] :
        /\ ticket[q][a] \in skip[a] => q \in noop'
        /\ ticket[q][a] \in skipped[a] => ticket[q][a] \in skip[a]
        /\ q = r => ticket[q][a] \in skip[a]
  <2>1. SUFFICES ASSUME NEW q \in Ids, NEW a \in assetsOf[q], ticket[q][a] \in skip[a]
                 PROVE  q \in noop'
    BY <1>3
  <2>2. CASE ticket[q][a] \in skipped[a]
    BY <1>1, <1>2, <2>2 DEF SkippedAhead
  <2>3. CASE a \in assetsOf[r] /\ ticket[q][a] = ticket[r][a]
    BY <1>1, <2>3, TicketsDiffer
  <2> QED
    BY <1>3, <2>1, <2>2, <2>3
<1> HIDE DEF skip
<1>6. /\ TicketOrder' /\ IndexExact'
      /\ \A q \in pending \ pending' : Turn(q)'
      /\ completed' \in [Assets -> 0 .. nextId]
      /\ skipped' \in [Assets -> SUBSET (0 .. MaxReservations)]
      /\ byTicket' \subseteq byTicket
  BY <1>1, <1>4, AdvanceKeeps
<1>7. /\ \A a \in Assets : completed[a] <= completed'[a]
      /\ \A a \in assetsOf[r] :
              /\ completed'[a] \notin skip[a]
              /\ \A m \in completed[a] .. completed'[a] - 1 : m \in skip[a]
      /\ \A a \in Assets \ assetsOf[r] : completed'[a] = completed[a]
      /\ skipped' = [a \in Assets |-> {n \in skip[a] : n >= completed'[a]}]
      /\ pending' \subseteq pending
      /\ ready' \in Seq(Ids)
      /\ Elems(ready') = Elems(ready) \cup (pending \ pending')
      /\ Once(ready) /\ pending \cap Elems(ready) = {} => Once(ready')
  BY <1>1, <1>4, AdvanceFacts
<1>8. /\ Queued' = Queued \cup (pending \ pending')
      /\ Live' = Live \cup (pending \ pending')
      /\ \A i, j \in 1 .. Len(ready') : ready'[i] = ready'[j] => i = j
  <2>1. Once(ready) /\ pending \cap Elems(ready) = {}
    BY <1>2 DEF Places, Once, Elems, Live, Queued
  <2> QED
    BY <1>1, <1>7, <2>1 DEF Queued, Live, Elems, Once
<1>9. TypeOK'
  BY <1>1, <1>2, <1>6, <1>7 DEF TypeOK
<1>10. BehindCursor'
  <2>1. ASSUME NEW q \in Ids, NEW a \in assetsOf[q], ticket[q][a] < completed'[a]
        PROVE  q \in done \cup noop'
    <3>1. /\ a \in Assets /\ ticket[q][a] \in Nat /\ completed[a] \in Nat
          /\ completed'[a] \in Nat
      BY <1>2, <1>3, <1>6 DEF TypeOK, Tickets
    <3>2. CASE ticket[q][a] < completed[a]
      BY <1>1, <1>2, <3>2 DEF BehindCursor
    <3>3. CASE ticket[q][a] >= completed[a]
      <4>1. a \in assetsOf[r]
        BY <1>7, <2>1, <3>1, <3>3
      <4>2. ticket[q][a] \in completed[a] .. completed'[a] - 1
        BY <2>1, <3>1, <3>3
      <4> QED
        BY <1>5, <1>7, <4>1, <4>2
    <3> QED
      BY <3>1, <3>2, <3>3
  <2>2. ASSUME NEW q \in done, NEW a \in assetsOf[q]
        PROVE  ticket[q][a] < completed'[a]
    <3>1. q \in Ids /\ a \in Assets /\ ticket[q][a] \in Nat
      BY <1>2, <1>3 DEF TypeOK, Tickets
    <3>2. ticket[q][a] < completed[a] /\ completed[a] <= completed'[a]
      BY <1>2, <1>7, <3>1 DEF BehindCursor
    <3> QED
      BY <1>2, <1>6, <3>1, <3>2 DEF TypeOK
  <2> QED
    BY <1>1, <2>1, <2>2 DEF BehindCursor
<1>11. SkippedAhead'
  <2>1. \A a \in Assets : \A n \in skipped'[a] : n < issued'[a]
    BY <1>1, <1>4, <1>7
  <2>2. \A q \in Ids : \A a \in assetsOf[q] :
          ticket[q][a] \in skipped'[a] => q \in noop'
    BY <1>3, <1>5, <1>7
  <2>3. ASSUME NEW q \in noop', NEW a \in assetsOf[q]
        PROVE  ticket[q][a] < completed'[a] \/ ticket[q][a] \in skipped'[a]
    <3>1. q \in Ids
      BY <1>1, <1>2 DEF TypeOK
    <3>2. /\ a \in Assets /\ ticket[q][a] \in Nat /\ completed[a] \in Nat
          /\ completed'[a] \in Nat
      BY <1>2, <1>3, <1>6, <3>1 DEF TypeOK, Tickets
    <3>3. ticket[q][a] < completed[a] \/ ticket[q][a] \in skip[a]
      BY <1>1, <1>2, <1>5, <3>1 DEF SkippedAhead
    <3>4. CASE ticket[q][a] < completed[a]
      BY <1>7, <3>2, <3>4
    <3>5. CASE ticket[q][a] \in skip[a]
      BY <1>7, <3>2, <3>5
    <3> QED
      BY <3>3, <3>4, <3>5
  <2> QED
    BY <1>1, <2>1, <2>2, <2>3 DEF SkippedAhead
<1>12. Places'
  <2>1. ASSUME NEW q \in Live PROVE Turn(q)'
    <3>1. q \in Ids /\ q # r /\ q \notin noop /\ q \notin noop'
      BY <1>1, <1>2 DEF Places, TypeOK, Ids
    <3>2. ASSUME NEW a \in assetsOf[q] PROVE completed'[a] = ticket[q][a]
      <4>1. a \in Assets /\ completed[a] = ticket[q][a]
        BY <1>2, <1>3, <3>1 DEF Places, Turn, ReadyAt
      <4>2. CASE a \in assetsOf[r]
        <5>1. completed[a] \notin skip[a]
          BY <1>5, <3>1, <4>1
        <5>2. completed[a] \in Nat /\ completed'[a] \in Nat
          BY <1>2, <1>6, <4>1 DEF TypeOK
        <5>3. completed'[a] # completed[a] =>
                completed[a] \in completed[a] .. completed'[a] - 1
          BY <1>7, <4>1, <5>2
        <5> QED
          BY <1>7, <4>1, <4>2, <5>1, <5>3
      <4>3. CASE a \notin assetsOf[r]
        BY <1>7, <4>1, <4>3
      <4> QED
        BY <4>2, <4>3
    <3> QED
      BY <1>1, <3>1, <3>2 DEF Turn, ReadyAt
  <2>2. \A q \in Live' : Turn(q)'
    BY <1>6, <1>8, <2>1
  <2>3. r \in 0 .. nextId - 1
    BY <1>1, <1>2 DEF Ids, TypeOK
  <2>4. /\ submitted = pending \cup Live /\ accepted = submitted \cup done
        /\ submitted \cap done = {} /\ pending \cap Live = {}
        /\ Queued \cap serving = {} /\ Queued \cup serving = Live
        /\ accepted \cup noop \subseteq 0 .. nextId - 1
        /\ accepted \cap noop = {}
    BY <1>1, <1>2 DEF Places, Live
  <2>5. /\ submitted' = pending' \cup Live' /\ accepted' = submitted' \cup done'
        /\ submitted' \cap done' = {} /\ pending' \cap Live' = {}
        /\ Queued' \cap serving' = {}
    BY <1>1, <1>7, <1>8, <2>4
  <2>6. /\ accepted' \cup noop' \subseteq 0 .. nextId' - 1
        /\ accepted' \cap noop' = {}
    BY <1>1, <2>3, <2>4
  <2>7. Live' \cup done' \subseteq accepted' /\ Live' \cap done' = {}
    BY <2>5
  <2> QED
    BY <1>8, <2>2, <2>5, <2>6, <2>7 DEF Places
<1> QED
  BY <1>6, <1>9, <1>10, <1>11, <1>12 DEF IInv

LEMMA CompletePreserves ==
  ASSUME IInv, NEW r \in Ids, Complete(r)
  PROVE  IInv'
<1> DEFINE start == [a \in Assets |-> ticket[r][a] + 1]
<1>1. /\ ~cancelled /\ r \in serving /\ r \in submitted /\ Turn(r)
      /\ submitted' = submitted \ {r} /\ serving' = serving \ {r}
      /\ done' = done \cup {r}
      /\ Advance(r, start, skipped)
      /\ nextId' = nextId /\ issued' = issued /\ assetsOf' = assetsOf
      /\ ticket' = ticket /\ cancelled' = cancelled /\ backlog' = backlog
      /\ accepted' = accepted /\ noop' = noop
  BY DEF Complete, shutdown
<1>2. TypeOK /\ TicketOrder /\ BehindCursor /\ SkippedAhead /\ Places
  BY DEF IInv
<1>3. \A q \in Ids : \A a \in assetsOf[q] : a \in Assets /\ ticket[q][a] \in Tickets
  BY <1>2 DEF TypeOK, Tickets
<1>4. /\ skipped \in [Assets -> SUBSET Tickets]
      /\ start \in [Assets -> Nat]
      /\ \A a \in Assets : \A n \in skipped[a] : n < issued[a]
      /\ \A a \in assetsOf[r] : /\ completed[a] <= start[a]
                                /\ start[a] <= issued[a]
                                /\ completed[a] = ticket[r][a]
                                /\ start[a] = ticket[r][a] + 1
  <2>1. skipped \in [Assets -> SUBSET Tickets]
    BY <1>2 DEF TypeOK, Tickets
  <2>2. start \in [Assets -> Nat]
    BY <1>2 DEF TypeOK
  <2>3. \A a \in Assets : \A n \in skipped[a] : n < issued[a]
    BY <1>2 DEF SkippedAhead
  <2>4. ASSUME NEW a \in assetsOf[r]
        PROVE  /\ completed[a] <= start[a]
               /\ start[a] <= issued[a]
               /\ completed[a] = ticket[r][a]
               /\ start[a] = ticket[r][a] + 1
    <3>1. a \in Assets /\ ticket[r][a] \in Nat /\ issued[a] \in Nat
      BY <1>2, <1>3 DEF TypeOK, Tickets
    <3>2. completed[a] = ticket[r][a] /\ ticket[r][a] < issued[a]
      BY <1>1, <1>2 DEF Turn, ReadyAt, TicketOrder
    <3>3. start[a] = ticket[r][a] + 1
      BY <3>1
    <3> HIDE DEF start
    <3> QED
      BY <3>1, <3>2, <3>3
  <2> QED
    BY <2>1, <2>2, <2>3, <2>4
<1> HIDE DEF start
<1>5. r \in Live /\ r \notin pending /\ r \notin Queued /\ r \in accepted
  BY <1>1, <1>2 DEF Places, Live
<1>6. /\ TicketOrder' /\ IndexExact'
      /\ \A q \in pending \ pending' : Turn(q)'
      /\ completed' \in [Assets -> 0 .. nextId]
      /\ skipped' \in [Assets -> SUBSET (0 .. MaxReservations)]
      /\ byTicket' \subseteq byTicket
  BY <1>1, <1>4, AdvanceKeeps
<1>7. /\ \A a \in Assets : completed[a] <= completed'[a]
      /\ \A a \in assetsOf[r] :
              /\ start[a] <= completed'[a]
              /\ \A m \in start[a] .. completed'[a] - 1 : m \in skipped[a]
      /\ \A a \in Assets \ assetsOf[r] : completed'[a] = completed[a]
      /\ skipped' = [a \in Assets |-> {n \in skipped[a] : n >= completed'[a]}]
      /\ pending' \subseteq pending
      /\ ready' \in Seq(Ids)
      /\ Elems(ready') = Elems(ready) \cup (pending \ pending')
      /\ Once(ready) /\ pending \cap Elems(ready) = {} => Once(ready')
  BY <1>1, <1>4, AdvanceFacts
<1>8. /\ Queued' = Queued \cup (pending \ pending')
      /\ Live' = (Live \ {r}) \cup (pending \ pending')
      /\ \A i, j \in 1 .. Len(ready') : ready'[i] = ready'[j] => i = j
  <2>1. Once(ready) /\ pending \cap Elems(ready) = {}
    BY <1>2 DEF Places, Once, Elems, Live, Queued
  <2>2. Queued' = Queued \cup (pending \ pending')
    BY <1>7 DEF Queued, Elems
  <2>3. Live' = (Live \ {r}) \cup (pending \ pending')
    BY <1>1, <1>5, <2>2 DEF Live
  <2> QED
    BY <1>7, <2>1, <2>2, <2>3 DEF Once
<1>9. TypeOK'
  BY <1>1, <1>2, <1>6, <1>7 DEF TypeOK
<1>10. BehindCursor'
  <2>1. ASSUME NEW q \in Ids, NEW a \in assetsOf[q], ticket[q][a] < completed'[a]
        PROVE  q \in done' \cup noop
    <3>1. /\ a \in Assets /\ ticket[q][a] \in Nat /\ completed[a] \in Nat
          /\ completed'[a] \in Nat
      BY <1>2, <1>3, <1>6 DEF TypeOK, Tickets
    <3>2. CASE ticket[q][a] < completed[a]
      BY <1>1, <1>2, <3>2 DEF BehindCursor
    <3>3. CASE ticket[q][a] >= completed[a]
      <4>1. a \in assetsOf[r]
        BY <1>7, <2>1, <3>1, <3>3
      <4>2. CASE ticket[q][a] = completed[a]
        BY <1>1, <1>4, <4>1, <4>2, TicketsDiffer
      <4>3. CASE ticket[q][a] # completed[a]
        <5>1. ticket[q][a] \in start[a] .. completed'[a] - 1
          BY <1>4, <2>1, <3>1, <3>3, <4>1, <4>3
        <5> QED
          BY <1>2, <1>7, <4>1, <5>1 DEF SkippedAhead
      <4> QED
        BY <4>2, <4>3
    <3> QED
      BY <3>1, <3>2, <3>3
  <2>2. ASSUME NEW q \in done', NEW a \in assetsOf[q]
        PROVE  ticket[q][a] < completed'[a]
    <3>1. q \in Ids
      BY <1>1, <1>2 DEF TypeOK
    <3>2. /\ a \in Assets /\ ticket[q][a] \in Nat /\ completed[a] \in Nat
          /\ completed'[a] \in Nat
      BY <1>2, <1>3, <1>6, <3>1 DEF TypeOK, Tickets
    <3>3. CASE q = r
      BY <1>4, <1>7, <3>2, <3>3
    <3>4. CASE q \in done
      <4>1. ticket[q][a] < completed[a] /\ completed[a] <= completed'[a]
        BY <1>2, <1>7, <3>2, <3>4 DEF BehindCursor
      <4> QED
        BY <3>2, <4>1
    <3> QED
      BY <1>1, <3>3, <3>4
  <2> QED
    BY <1>1, <2>1, <2>2 DEF BehindCursor
<1>11. SkippedAhead'
  <2>1. \A a \in Assets : \A n \in skipped'[a] : n < issued'[a]
    BY <1>1, <1>4, <1>7
  <2>2. \A q \in Ids : \A a \in assetsOf[q] :
          ticket[q][a] \in skipped'[a] => q \in noop
    BY <1>2, <1>3, <1>7 DEF SkippedAhead
  <2>3. ASSUME NEW q \in noop, NEW a \in assetsOf[q]
        PROVE  ticket[q][a] < completed'[a] \/ ticket[q][a] \in skipped'[a]
    <3>1. q \in Ids
      BY <1>2 DEF TypeOK
    <3>2. /\ a \in Assets /\ ticket[q][a] \in Nat /\ completed[a] \in Nat
          /\ completed'[a] \in Nat
      BY <1>2, <1>3, <1>6, <3>1 DEF TypeOK, Tickets
    <3>3. ticket[q][a] < completed[a] \/ ticket[q][a] \in skipped[a]
      BY <1>1, <1>2 DEF SkippedAhead
    <3>4. CASE ticket[q][a] < completed[a]
      BY <1>7, <3>2, <3>4
    <3>5. CASE ticket[q][a] \in skipped[a]
      BY <1>7, <3>2, <3>5
    <3> QED
      BY <3>3, <3>4, <3>5
  <2> QED
    BY <1>1, <2>1, <2>2, <2>3 DEF SkippedAhead
<1>12. Places'
  <2>1. ASSUME NEW q \in Live, q # r PROVE Turn(q)'
    <3>1. assetsOf[q] \cap assetsOf[r] = {}
      BY <1>5, <2>1, LiveExclusion DEF AssetExclusion
    <3>2. q \in Ids
      BY <1>2 DEF Places, TypeOK, Ids
    <3>3. ASSUME NEW a \in assetsOf[q] PROVE completed'[a] = ticket[q][a]
      BY <1>2, <1>3, <1>7, <3>1, <3>2 DEF Places, Turn, ReadyAt
    <3> QED
      BY <1>1, <3>3 DEF Turn, ReadyAt
  <2>2. \A q \in Live' : Turn(q)'
    BY <1>6, <1>8, <2>1
  <2>3. /\ submitted = pending \cup Live /\ accepted = submitted \cup done
        /\ submitted \cap done = {} /\ pending \cap Live = {}
        /\ Queued \cap serving = {} /\ Queued \cup serving = Live
        /\ accepted \cup noop \subseteq 0 .. nextId - 1
        /\ accepted \cap noop = {}
    BY <1>1, <1>2 DEF Places, Live
  <2>4. /\ submitted' = pending' \cup Live' /\ accepted' = submitted' \cup done'
        /\ submitted' \cap done' = {} /\ pending' \cap Live' = {}
        /\ Queued' \cap serving' = {}
    BY <1>1, <1>5, <1>7, <1>8, <2>3
  <2>5. /\ accepted' \cup noop' \subseteq 0 .. nextId' - 1
        /\ accepted' \cap noop' = {}
    BY <1>1, <2>3
  <2>6. Live' \cup done' \subseteq accepted' /\ Live' \cap done' = {}
    BY <2>4
  <2> QED
    BY <1>8, <2>2, <2>4, <2>5, <2>6 DEF Places
<1> QED
  BY <1>6, <1>9, <1>10, <1>11, <1>12 DEF IInv

LEMMA NextInvariant == IInv /\ [Next]_vars => IInv'
<1> SUFFICES ASSUME IInv, [Next]_vars PROVE IInv'
  OBVIOUS
<1>1. ASSUME NEW A \in SUBSET Assets, Reserve(A) PROVE IInv'
  BY <1>1, ReservePreserves
<1>2. ASSUME NEW r \in Ids, Submit(r) PROVE IInv'
  BY <1>2, SubmitPreserves
<1>3. ASSUME NEW r \in Ids, Skip(r) PROVE IInv'
  BY <1>3, SkipPreserves
<1>4. ASSUME NEW r \in Ids, RequeueReady(r) PROVE IInv'
  BY <1>4, RequeuePreserves
<1>5. ASSUME NEW r \in Ids, Complete(r) PROVE IInv'
  BY <1>5, CompletePreserves
<1>6. CASE GetReady
  BY <1>6, GetReadyPreserves
<1>7. CASE CancelWaiters
  BY <1>7, CancelPreserves
<1>8. CASE UNCHANGED vars
  <2>1. /\ UNCHANGED <<nextId, issued, completed, assetsOf, ticket>>
        /\ UNCHANGED <<ready, pending, byTicket, skipped, submitted>>
        /\ UNCHANGED <<cancelled, backlog, serving, accepted, noop, done>>
    BY <1>8 DEF vars, cursors, queues, shutdown, history
  <2>2. TypeOK' /\ TicketOrder' /\ BehindCursor' /\ SkippedAhead'
    BY <2>1 DEF IInv, TypeOK, TicketOrder, BehindCursor, SkippedAhead
  <2>3. Places' /\ IndexExact'
    BY <2>1 DEF IInv, Places, IndexExact, Live, Queued, Turn, ReadyAt
  <2> QED
    BY <2>2, <2>3 DEF IInv
<1> QED
  BY <1>1, <1>2, <1>3, <1>4, <1>5, <1>6, <1>7, <1>8 DEF Next

\* The inductive invariant: tickets follow the reservations, what lies behind a
\* cursor is resolved, and the index holds exactly the tickets still ahead.
THEOREM Invariance == Spec => []IInv
BY InitInvariant, NextInvariant, PTL DEF Spec

-----------------------------------------------------------------------------

\* Cursors never pass the number of reservations, and the queues, the index and
\* the skipped tickets only ever hold what reserve() gave out.
THEOREM TypeCorrect == Spec => []TypeOK
<1>1. IInv => TypeOK
  BY DEF IInv
<1> QED
  BY Invariance, <1>1, PTL

\* Two jobs that are ready or in a finalizer's hands never share an asset: the
\* reason why several finalizers may run at once.
THEOREM LiveJobsShareNoAsset == Spec => []AssetExclusion
BY Invariance, LiveExclusion, PTL

\* A job overtakes no earlier reservation of one of its assets, whatever was
\* skipped, submitted out of order or put back in between.
THEOREM CausalPrefixHolds == Spec => []CausalPrefix
BY Invariance, PrefixResolved, PTL

\* complete() finds the job submitted and every cursor at its ticket, so it
\* never raises for a finalizer that completes what get_ready() gave it.
THEOREM CompletionNeverRaises == Spec => []CompletionAccepted
<1>1. IInv => CompletionAccepted
  BY DEF IInv, Places, CompletionAccepted, Live
<1> QED
  BY Invariance, <1>1, PTL

\* After the shutdown nothing is pending.
Cleared == cancelled => pending = {}

LEMMA ClearedInvariance == Spec => []Cleared
<1>1. Init => Cleared
  BY DEF Init, Cleared
<1>2. Cleared /\ [Next]_vars => Cleared'
  <2> SUFFICES ASSUME Cleared, [Next]_vars PROVE Cleared'
    OBVIOUS
  <2>1. CASE CancelWaiters
    BY <2>1 DEF CancelWaiters, Cleared
  <2>2. CASE UNCHANGED vars
    BY <2>2 DEF vars, queues, shutdown, Cleared
  <2>3. CASE Next /\ ~CancelWaiters
    <3>1. ~cancelled /\ cancelled' = cancelled
      BY <2>3 DEF Next, Reserve, Submit, Skip, RequeueReady, Complete, GetReady,
         shutdown
    <3> QED
      BY <3>1 DEF Cleared
  <2> QED
    BY <2>1, <2>2, <2>3
<1> QED
  BY <1>1, <1>2, PTL DEF Spec

\* An accepted job is waiting, ready, in a finalizer's hands or done, and never
\* in two of these places nor twice in the ready queue.
THEOREM NoJobLostOrDoubled == Spec => []NothingLostOrDoubled
<1>1. ASSUME IInv, Cleared PROVE NothingLostOrDoubled
  <2>1. Cardinality(Queued) = Len(ready)
    <3>1. ready \in Seq(Ids) /\ Once(ready) /\ Queued = Elems(ready)
      BY <1>1 DEF IInv, TypeOK, Places, Once, Queued, Elems
    <3> QED
      BY <3>1, OnceCardinality
  <2>2. ~cancelled => accepted = pending \cup Queued \cup serving \cup done
    BY <1>1 DEF IInv, Places, Live
  <2>3. /\ Queued \cap (serving \cup done) = {} /\ serving \cap done = {}
        /\ accepted \cap noop = {} /\ pending \cap (Queued \cup serving) = {}
    BY <1>1 DEF IInv, Places, Live
  <2>4. pending \cap done = {}
    BY <1>1 DEF IInv, Places, Cleared
  <2> QED
    BY <2>1, <2>2, <2>3, <2>4 DEF NothingLostOrDoubled
<1> QED
  BY Invariance, ClearedInvariance, <1>1, PTL

\* No pending job is one whose turn has come: looking only at the jobs indexed
\* by a reached ticket misses nobody.
THEOREM ReleaseMissesNobody == Spec => []IndexExact
<1>1. IInv => IndexExact
  BY DEF IInv
<1> QED
  BY Invariance, <1>1, PTL

-----------------------------------------------------------------------------
(* Tickets, cursors and the pending index implement the causal order.      *)

\* The status every reservation has, as CausalOrder sees it.
StatusMap == [q \in Ids |-> StatusOf(q)]

\* A step that changes the status of r to s and of no other reservation.
LEMMA BecomeByStatus ==
  ASSUME NEW r \in Ids, NEW s,
         \A q \in Ids : StatusOf(q)' = IF q = r THEN s ELSE StatusOf(q)
  PROVE  Causal!Become(r, s)
<1> HIDE DEF StatusOf
<1> QED
  BY DEF Causal!Become, Ids

LEMMA InitRefines == Init => Causal!Init
<1> SUFFICES ASSUME Init PROVE Causal!Init
  OBVIOUS
<1>1. \A r \in Ids : StatusOf(r) = "free"
  BY DEF Init, StatusOf, Ids
<1> HIDE DEF StatusOf
<1> QED
  BY <1>1 DEF Init, Causal!Init, Causal!Ids, Ids

\* What CausalPrefix says in terms of the status.
LEMMA FreeByPrefix ==
  ASSUME IInv, NEW r \in Live
  PROVE  Causal!Free(r)
<1>1. CausalPrefix
  BY PrefixResolved
<1>2. SUFFICES ASSUME NEW q \in Ids, q < r, assetsOf[q] \cap assetsOf[r] # {}
               PROVE  StatusMap[q] \in {"done", "noop"}
  BY DEF Causal!Free, Causal!Shares, Causal!Ids, Ids, StatusMap
<1>3. q \in done \cup noop
  BY <1>1, <1>2 DEF CausalPrefix
<1>4. q \in noop => q \notin accepted /\ q \notin serving
  BY DEF IInv, Places, Live
<1> QED
  BY <1>3, <1>4 DEF StatusMap, StatusOf

LEMMA ReserveRefines ==
  ASSUME IInv, NEW A \in SUBSET Assets, Reserve(A)
  PROVE  Causal!Reserve(nextId, A)
<1>1. /\ ~cancelled /\ cancelled' = cancelled /\ nextId' = nextId + 1
      /\ nextId \in Ids /\ nextId \in Nat
      /\ assetsOf' = [assetsOf EXCEPT ![nextId] = A]
      /\ done' = done /\ serving' = serving /\ accepted' = accepted
      /\ noop' = noop
  BY ReservationsAssumption DEF Reserve, IInv, TypeOK, Ids, shutdown, history
<1>2. /\ Live \cup done \cup accepted \cup noop \subseteq 0 .. nextId - 1
      /\ serving \subseteq Live
  BY DEF IInv, Places, Live
<1>3. nextId \notin done \cup serving \cup accepted \cup noop
  BY <1>1, <1>2
<1>4. \A q \in Ids : StatusOf(q) = "free" <=> q >= nextId
  BY <1>1, <1>2 DEF StatusOf, Ids
<1>5. \A q \in Ids : StatusOf(q)' = IF q = nextId THEN "reserved" ELSE StatusOf(q)
  BY <1>1, <1>3 DEF StatusOf, Ids
<1>6. Causal!Become(nextId, "reserved")
  BY <1>1, <1>5, BecomeByStatus
<1> HIDE DEF StatusOf
<1> QED
  BY <1>1, <1>4, <1>6 DEF Causal!Reserve, Causal!Ids, Ids

LEMMA SubmitRefines ==
  ASSUME IInv, NEW r \in Ids, Submit(r)
  PROVE  Causal!Submit(r)
<1>1. /\ ~cancelled /\ cancelled' = cancelled /\ r < nextId /\ nextId' = nextId
      /\ assetsOf' = assetsOf /\ accepted' = accepted \cup {r}
      /\ done' = done /\ serving' = serving /\ noop' = noop
      /\ r \notin accepted \cup noop
  BY FreshCall DEF Submit, cursors, shutdown
<1>2. r \notin done \cup serving
  BY <1>1 DEF IInv, Places, Live
<1>3. StatusOf(r) = "reserved"
  BY <1>1, <1>2 DEF StatusOf
<1>4. \A q \in Ids : StatusOf(q)' = IF q = r THEN "submitted" ELSE StatusOf(q)
  BY <1>1, <1>2 DEF StatusOf
<1>5. Causal!Become(r, "submitted")
  BY <1>4, BecomeByStatus
<1> HIDE DEF StatusOf
<1> QED
  BY <1>1, <1>3, <1>5 DEF Causal!Submit

LEMMA SkipRefines ==
  ASSUME IInv, NEW r \in Ids, Skip(r)
  PROVE  Causal!Skip(r)
<1>1. /\ ~cancelled /\ cancelled' = cancelled /\ r < nextId /\ nextId' = nextId
      /\ assetsOf' = assetsOf /\ noop' = noop \cup {r}
      /\ done' = done /\ serving' = serving /\ accepted' = accepted
      /\ r \notin accepted \cup noop
  BY FreshCall DEF Skip, shutdown
<1>2. r \notin done \cup serving
  BY <1>1 DEF IInv, Places, Live
<1>3. StatusOf(r) = "reserved"
  BY <1>1, <1>2 DEF StatusOf
<1>4. \A q \in Ids : StatusOf(q)' = IF q = r THEN "noop" ELSE StatusOf(q)
  BY <1>1, <1>2 DEF StatusOf
<1>5. Causal!Become(r, "noop")
  BY <1>4, BecomeByStatus
<1> HIDE DEF StatusOf
<1> QED
  BY <1>1, <1>3, <1>5 DEF Causal!Skip

LEMMA GetReadyRefines ==
  ASSUME IInv, GetReady
  PROVE  \E r \in Ids : Causal!Start(r)
<1> DEFINE r == Head(ready)
<1>1. /\ ~cancelled /\ cancelled' = cancelled /\ nextId' = nextId
      /\ assetsOf' = assetsOf /\ serving' = serving \cup {r}
      /\ done' = done /\ accepted' = accepted /\ noop' = noop
      /\ ready # <<>> /\ ready \in Seq(Ids)
  BY DEF GetReady, cursors, shutdown, IInv, TypeOK
<1>2. r \in Ids /\ r \in Queued
  BY <1>1, TailElems DEF Queued, Elems
<1> HIDE DEF r
<1>3. r \in Live /\ r \in accepted /\ r \notin done \cup serving
  BY <1>2 DEF IInv, Places, Live
<1>4. StatusOf(r) = "submitted"
  BY <1>3 DEF StatusOf
<1>5. \A q \in Ids : StatusOf(q)' = IF q = r THEN "running" ELSE StatusOf(q)
  BY <1>1, <1>3 DEF StatusOf
<1>6. Causal!Become(r, "running") /\ Causal!Free(r)
  BY <1>2, <1>3, <1>5, BecomeByStatus, FreeByPrefix
<1> HIDE DEF StatusOf
<1> QED
  BY <1>1, <1>2, <1>4, <1>6 DEF Causal!Start

LEMMA RequeueRefines ==
  ASSUME IInv, NEW r \in Ids, RequeueReady(r)
  PROVE  Causal!PutBack(r)
<1>1. /\ ~cancelled /\ cancelled' = cancelled /\ nextId' = nextId
      /\ assetsOf' = assetsOf /\ serving' = serving \ {r} /\ r \in serving
      /\ done' = done /\ accepted' = accepted /\ noop' = noop
  BY DEF RequeueReady, cursors, shutdown
<1>2. r \in accepted /\ r \notin done
  BY <1>1 DEF IInv, Places, Live
<1>3. StatusOf(r) = "running"
  BY <1>1, <1>2 DEF StatusOf
<1>4. \A q \in Ids : StatusOf(q)' = IF q = r THEN "submitted" ELSE StatusOf(q)
  BY <1>1, <1>2 DEF StatusOf
<1>5. Causal!Become(r, "submitted")
  BY <1>4, BecomeByStatus
<1> HIDE DEF StatusOf
<1> QED
  BY <1>1, <1>3, <1>5 DEF Causal!PutBack

LEMMA CompleteRefines ==
  ASSUME IInv, NEW r \in Ids, Complete(r)
  PROVE  Causal!Finish(r)
<1>1. /\ ~cancelled /\ cancelled' = cancelled /\ nextId' = nextId
      /\ assetsOf' = assetsOf /\ serving' = serving \ {r} /\ r \in serving
      /\ done' = done \cup {r} /\ accepted' = accepted /\ noop' = noop
  BY DEF Complete, shutdown
<1>2. r \notin done
  BY <1>1 DEF IInv, Places, Live
<1>3. StatusOf(r) = "running"
  BY <1>1, <1>2 DEF StatusOf
<1>4. \A q \in Ids : StatusOf(q)' = IF q = r THEN "done" ELSE StatusOf(q)
  BY <1>1, <1>2 DEF StatusOf
<1>5. Causal!Become(r, "done")
  BY <1>4, BecomeByStatus
<1> HIDE DEF StatusOf
<1> QED
  BY <1>1, <1>3, <1>5 DEF Causal!Finish

LEMMA CancelRefines ==
  ASSUME CancelWaiters
  PROVE  Causal!Stop
<1>1. /\ ~cancelled /\ cancelled' = TRUE /\ nextId' = nextId
      /\ assetsOf' = assetsOf /\ serving' = serving
      /\ done' = done /\ accepted' = accepted /\ noop' = noop
  BY DEF CancelWaiters, cursors, history
<1>2. \A q \in Ids : StatusOf(q)' = StatusOf(q)
  BY <1>1 DEF StatusOf
<1> HIDE DEF StatusOf
<1> QED
  BY <1>1, <1>2 DEF Causal!Stop

LEMMA NextRefines == IInv /\ [Next]_vars => [Causal!Next]_(Causal!vars)
<1> SUFFICES ASSUME IInv, [Next]_vars PROVE [Causal!Next]_(Causal!vars)
  OBVIOUS
<1>1. ASSUME NEW A \in SUBSET Assets, Reserve(A) PROVE Causal!Next
  <2>1. nextId \in Ids
    BY <1>1, ReservationsAssumption DEF Reserve, IInv, TypeOK, Ids
  <2> QED
    BY <1>1, <2>1, ReserveRefines DEF Causal!Next, Causal!Ids, Ids
<1>2. ASSUME NEW r \in Ids, Submit(r) PROVE Causal!Next
  BY <1>2, SubmitRefines DEF Causal!Next, Causal!Ids, Ids
<1>3. ASSUME NEW r \in Ids, Skip(r) PROVE Causal!Next
  BY <1>3, SkipRefines DEF Causal!Next, Causal!Ids, Ids
<1>4. ASSUME NEW r \in Ids, RequeueReady(r) PROVE Causal!Next
  BY <1>4, RequeueRefines DEF Causal!Next, Causal!Ids, Ids
<1>5. ASSUME NEW r \in Ids, Complete(r) PROVE Causal!Next
  BY <1>5, CompleteRefines DEF Causal!Next, Causal!Ids, Ids
<1>6. CASE GetReady
  BY <1>6, GetReadyRefines DEF Causal!Next, Causal!Ids, Ids
<1>7. CASE CancelWaiters
  BY <1>7, CancelRefines DEF Causal!Next
<1>8. CASE UNCHANGED vars
  <2>1. /\ assetsOf' = assetsOf /\ cancelled' = cancelled /\ nextId' = nextId
        /\ serving' = serving /\ done' = done /\ accepted' = accepted
        /\ noop' = noop
    BY <1>8 DEF vars, cursors, shutdown, history
  <2>2. \A q \in Ids : StatusOf(q)' = StatusOf(q)
    BY <2>1 DEF StatusOf
  <2> HIDE DEF StatusOf
  <2> QED
    BY <2>1, <2>2 DEF Causal!vars
<1> QED
  BY <1>1, <1>2, <1>3, <1>4, <1>5, <1>6, <1>7, <1>8 DEF Next

\* The scheduler runs a job only when every earlier reservation that shares an
\* asset with it is finished or a no-op, puts back only what it runs, and stops
\* once: every behaviour is one of the abstract causal order.
THEOREM SchedulerImplementsCausalOrder == Spec => ImplementsCausalOrder
<1>1. Spec => Causal!Init /\ [][Causal!Next]_(Causal!vars)
  BY InitRefines, NextRefines, Invariance, PTL DEF Spec
<1> QED
  BY <1>1 DEF ImplementsCausalOrder, Causal!Spec

-----------------------------------------------------------------------------
(* The demoting scheduler keeps the order, and loses no payload.           *)

\* A demoted payload is a no-op of the scheduler and in one place.
Apart ==
    /\ LowQueued \cap (audits \cup auditing \cup audited) = {}
    /\ audits \cap (auditing \cup audited) = {}
    /\ auditing \cap audited = {}
    /\ Once(lowReady)
    /\ Demoted \subseteq noop

\* The books of submit() and complete().
Accounts ==
    /\ entered = accepted \cup Demoted
    /\ acks = IF split THEN {} ELSE Demoted \ audited

DIInv ==
    /\ IInv /\ Cleared
    /\ DTypeOK /\ Apart /\ Accounts
    /\ NoCursorOnNoOp

LEMMA LowQueuedIsElems == LowQueued = Elems(lowReady)
BY DEF LowQueued, Elems

LEMMA DInitInvariant == DInit => DIInv
<1> SUFFICES ASSUME DInit PROVE DIInv
  OBVIOUS
<1>1. IInv /\ Cleared
  BY InitInvariant DEF DInit, Init, Cleared
<1>2. LowQueued = {} /\ Demoted = {}
  BY DEF DInit, LowQueued, Demoted
<1>3. DTypeOK
  <2>1. Cardinality(audits) <= AuditRoom
    BY FS_EmptySet, AuditRoomAssumption DEF DInit
  <2>2. lowReady \in Seq(Ids) /\ call \in [op : {"none", "submit", "complete"}, job : Nat]
    BY DEF DInit, NoCall
  <2> QED
    BY <1>1, <2>1, <2>2 DEF DInit, DTypeOK, IInv
<1>4. Apart /\ Accounts
  BY <1>2 DEF DInit, Init, Apart, Accounts, Once
<1>5. NoCursorOnNoOp
  BY DEF DInit, Init, NoCursorOnNoOp
<1> QED
  BY <1>1, <1>3, <1>4, <1>5 DEF DIInv

\* The tickets that become no-ops are those of the demoted jobs and no others.
LEMMA NoOpsFacts ==
  ASSUME IInv, ~cancelled, NEW D \in SUBSET pending
  PROVE  /\ Movable(AssetsOf(D), completed, NoOpsOf(D), pending \ D)
         /\ \A q \in Ids : \A a \in assetsOf[q] :
              /\ ticket[q][a] \in NoOpsOf(D)[a] => q \in noop \cup D
              /\ q \in D => ticket[q][a] \in NoOpsOf(D)[a] /\ a \in AssetsOf(D)
         /\ \A a \in Assets : skipped[a] \subseteq NoOpsOf(D)[a]
         /\ \A a \in Assets \ AssetsOf(D) : NoOpsOf(D)[a] = skipped[a]
<1>1. TypeOK /\ TicketOrder /\ SkippedAhead /\ D \subseteq Ids
  BY DEF IInv, TypeOK
<1>2. \A q \in Ids : \A a \in assetsOf[q] :
        a \in Assets /\ ticket[q][a] \in Tickets /\ ticket[q][a] < issued[a]
  BY <1>1 DEF TypeOK, Tickets, TicketOrder
<1>3. AssetsOf(D) \subseteq Assets
  BY <1>1, <1>2 DEF AssetsOf
<1>4. NoOpsOf(D) \in [Assets -> SUBSET Tickets]
  BY <1>1, <1>2 DEF NoOpsOf, TypeOK, Tickets
<1>5. \A a \in Assets : NoOpsOf(D)[a] =
        skipped[a] \cup {ticket[q][a] : q \in {d \in D : a \in assetsOf[d]}}
  BY DEF NoOpsOf
<1>6. \A a \in Assets : \A n \in NoOpsOf(D)[a] : n < issued[a]
  BY <1>1, <1>2, <1>5 DEF SkippedAhead
<1>7. completed \in [Assets -> Nat]
  BY <1>1 DEF TypeOK
<1>8. \A a \in AssetsOf(D) : completed[a] <= completed[a] /\ completed[a] <= issued[a]
  BY <1>1, <1>3, <1>7 DEF TicketOrder
<1>9. Movable(AssetsOf(D), completed, NoOpsOf(D), pending \ D)
  BY <1>3, <1>4, <1>6, <1>7, <1>8 DEF Movable
<1>10. ASSUME NEW q \in Ids, NEW a \in assetsOf[q], ticket[q][a] \in NoOpsOf(D)[a]
       PROVE  q \in noop \cup D
  <2>1. CASE ticket[q][a] \in skipped[a]
    BY <1>1, <2>1 DEF SkippedAhead
  <2>2. CASE ticket[q][a] \notin skipped[a]
    <3>1. PICK d \in D : a \in assetsOf[d] /\ ticket[q][a] = ticket[d][a]
      BY <1>2, <1>5, <1>10, <2>2
    <3>2. q = d
      BY <1>1, <3>1, TicketsDiffer
    <3> QED
      BY <3>2
  <2> QED
    BY <2>1, <2>2
<1>11. ASSUME NEW q \in D, NEW a \in assetsOf[q]
       PROVE  ticket[q][a] \in NoOpsOf(D)[a] /\ a \in AssetsOf(D)
  BY <1>1, <1>2, <1>5 DEF AssetsOf
<1>12. ASSUME NEW a \in Assets \ AssetsOf(D)
       PROVE  NoOpsOf(D)[a] = skipped[a]
  <2>1. \A d \in D : a \notin assetsOf[d]
    BY DEF AssetsOf
  <2> QED
    BY <1>5, <2>1
<1> QED
  BY <1>1, <1>5, <1>9, <1>10, <1>11, <1>12

\* What demoting the jobs D of `waiting' and moving the cursors does to what is
\* behind a cursor and ahead of it.
LEMMA DemotedOrder ==
  ASSUME IInv, ~cancelled, NEW D \in SUBSET pending, Withdraw(D),
         \A a \in Assets : completed[a] <= completed'[a],
         completed' \in [Assets -> 0 .. nextId],
         \A a \in AssetsOf(D) : \A m \in completed[a] .. completed'[a] - 1 :
            m \in NoOpsOf(D)[a],
         \A a \in Assets \ AssetsOf(D) : completed'[a] = completed[a],
         \A a \in Assets : /\ skipped'[a] \subseteq NoOpsOf(D)[a]
                           /\ \A n \in NoOpsOf(D)[a] :
                                n >= completed'[a] => n \in skipped'[a],
         UNCHANGED <<nextId, issued, assetsOf, ticket, shutdown, serving, done>>
  PROVE  BehindCursor' /\ SkippedAhead' /\ \A q \in Live : Turn(q)'
<1>1. /\ noop' = noop \cup D /\ cancelled' = cancelled
      /\ TypeOK /\ TicketOrder /\ BehindCursor /\ SkippedAhead /\ Places
      /\ D \subseteq Ids
  BY DEF Withdraw, shutdown, IInv, TypeOK
<1>2. \A q \in Ids : \A a \in assetsOf[q] :
        /\ a \in Assets /\ ticket[q][a] \in Nat
        /\ completed[a] \in Nat /\ completed'[a] \in Nat
  BY <1>1 DEF TypeOK
<1>3. BehindCursor'
  <2>1. ASSUME NEW q \in Ids, NEW a \in assetsOf[q], ticket[q][a] < completed'[a]
        PROVE  q \in done \cup noop'
    <3>1. CASE ticket[q][a] < completed[a]
      BY <1>1, <3>1 DEF BehindCursor
    <3>2. CASE ticket[q][a] >= completed[a]
      <4>1. ticket[q][a] \in completed[a] .. completed'[a] - 1 /\ a \in AssetsOf(D)
        BY <1>2, <2>1, <3>2
      <4> QED
        BY <1>1, <4>1, NoOpsFacts
    <3> QED
      BY <1>2, <3>1, <3>2
  <2>2. ASSUME NEW q \in done, NEW a \in assetsOf[q]
        PROVE  ticket[q][a] < completed'[a]
    <3>1. q \in Ids /\ ticket[q][a] < completed[a]
      BY <1>1 DEF TypeOK, BehindCursor
    <3> QED
      BY <1>2, <3>1
  <2> QED
    BY <2>1, <2>2 DEF BehindCursor
<1>4. SkippedAhead'
  <2>1. \A a \in Assets : \A n \in skipped'[a] : n < issued[a]
    BY NoOpsFacts DEF Movable
  <2>2. \A q \in Ids : \A a \in assetsOf[q] : ticket[q][a] \in skipped'[a] => q \in noop'
    BY <1>1, <1>2, NoOpsFacts
  <2>3. ASSUME NEW q \in noop', NEW a \in assetsOf[q]
        PROVE  ticket[q][a] < completed'[a] \/ ticket[q][a] \in skipped'[a]
    <3>1. q \in Ids
      BY <1>1 DEF TypeOK
    <3>2. ticket[q][a] < completed[a] \/ ticket[q][a] \in NoOpsOf(D)[a]
      BY <1>1, <1>2, <3>1, NoOpsFacts DEF SkippedAhead
    <3> QED
      BY <1>2, <3>1, <3>2
  <2> QED
    BY <1>1, <2>1, <2>2, <2>3 DEF SkippedAhead
<1>5. ASSUME NEW q \in Live PROVE Turn(q)'
  <2>1. q \in Ids /\ q \notin noop /\ q \notin D
    BY <1>1 DEF Places, Ids, TypeOK
  <2>2. ASSUME NEW a \in assetsOf[q] PROVE completed'[a] = ticket[q][a]
    <3>1. completed[a] = ticket[q][a]
      BY <1>1 DEF Places, Turn, ReadyAt
    <3>2. completed[a] \notin NoOpsOf(D)[a]
      BY <2>1, <3>1, NoOpsFacts
    <3>3. a \in AssetsOf(D) /\ completed'[a] # completed[a] =>
            completed[a] \in completed[a] .. completed'[a] - 1
      BY <1>2, <2>1
    <3> QED
      BY <1>2, <2>1, <3>1, <3>2, <3>3
  <2> QED
    BY <2>2 DEF Turn, ReadyAt
<1> QED
  BY <1>3, <1>4, <1>5

\* The jobs of D leave the accepted ones; who is released joins the ready ones.
LEMMA DemotedPlaces ==
  ASSUME IInv, ~cancelled, NEW D \in SUBSET pending, Withdraw(D),
         \A q \in Live : Turn(q)', \A q \in (pending \ D) \ pending' : Turn(q)',
         pending' \subseteq pending \ D,
         Queued' = Queued \cup ((pending \ D) \ pending'), Once(ready'),
         UNCHANGED <<nextId, shutdown, serving, done>>
  PROVE  Places' /\ Live' = Live \cup ((pending \ D) \ pending')
<1>1. /\ submitted' = submitted \ D /\ accepted' = accepted \ D /\ noop' = noop \cup D
      /\ cancelled' = cancelled
  BY DEF Withdraw, shutdown
<1>2. /\ submitted = pending \cup Live /\ accepted = submitted \cup done
      /\ submitted \cap done = {} /\ pending \cap Live = {}
      /\ Queued \cap serving = {} /\ Live = Queued \cup serving
      /\ accepted \cup noop \subseteq 0 .. nextId - 1
      /\ accepted \cap noop = {}
  BY DEF IInv, Places, Live
<1>3. Live' = Live \cup ((pending \ D) \ pending') /\ Live' = Queued' \cup serving'
  BY <1>2 DEF Live
<1>4. \A q \in Live' : Turn(q)'
  BY <1>3
<1>5. /\ submitted' = pending' \cup Live' /\ accepted' = submitted' \cup done'
      /\ submitted' \cap done' = {} /\ pending' \cap Live' = {}
      /\ Queued' \cap serving' = {}
  BY <1>1, <1>2, <1>3
<1>6. accepted' \cup noop' \subseteq 0 .. nextId' - 1 /\ accepted' \cap noop' = {}
  BY <1>1, <1>2
<1>7. Live' \cup done' \subseteq accepted' /\ Live' \cap done' = {}
  BY <1>5
<1> QED
  BY <1>3, <1>4, <1>5, <1>6, <1>7 DEF Places, Once

LEMMA DemoteAllKeepsOrder ==
  ASSUME IInv, ~cancelled, NEW D \in SUBSET pending, Withdraw(D), Collapse(D),
         UNCHANGED <<nextId, issued, assetsOf, ticket, shutdown, serving, done>>
  PROVE  /\ IInv'
         /\ \A a \in Assets :
              completed[a] \notin skipped[a] => completed'[a] \notin skipped'[a]
<1>1. Movable(AssetsOf(D), completed, NoOpsOf(D), pending \ D)
  BY NoOpsFacts
<1>2. Moved(AssetsOf(D), completed, NoOpsOf(D), pending \ D)
  BY <1>1, AdvanceOverFacts DEF Collapse
<1>3. /\ TicketOrder' /\ IndexExact'
      /\ \A q \in (pending \ D) \ pending' : Turn(q)'
      /\ completed' \in [Assets -> 0 .. nextId]
      /\ skipped' \in [Assets -> SUBSET (0 .. MaxReservations)]
      /\ byTicket' \subseteq byTicket
  BY <1>1, <1>2, AdvanceOverKeeps DEF Movable, shutdown
<1>4. BehindCursor' /\ SkippedAhead' /\ \A q \in Live : Turn(q)'
  BY <1>2, <1>3, DemotedOrder DEF Moved
<1>5. /\ ready' \in Seq(Ids) /\ pending' \subseteq pending \ D
      /\ Queued' = Queued \cup ((pending \ D) \ pending') /\ Once(ready')
  <2>1. Once(ready) /\ (pending \ D) \cap Elems(ready) = {}
    BY DEF IInv, Places, Once, Elems, Live, Queued
  <2> QED
    BY <1>2, <2>1 DEF Moved, Queued, Elems
<1>6. Places'
  BY <1>3, <1>4, <1>5, DemotedPlaces
<1>7. TypeOK'
  BY <1>3, <1>5 DEF IInv, TypeOK, Withdraw, shutdown
<1>8. ASSUME NEW a \in Assets, completed[a] \notin skipped[a]
      PROVE  completed'[a] \notin skipped'[a]
  <2>1. CASE a \in AssetsOf(D)
    BY <1>2, <2>1 DEF Moved
  <2>2. CASE a \notin AssetsOf(D)
    BY <1>2, <1>8, <2>2, NoOpsFacts DEF Moved
  <2> QED
    BY <2>1, <2>2
<1> QED
  BY <1>3, <1>4, <1>6, <1>7, <1>8 DEF IInv

\* The handler was full: some jobs are demoted, no cursor has moved.
LEMMA OverflowKeepsOrder ==
  ASSUME IInv, ~cancelled, NEW D \in SUBSET pending, Withdraw(D),
         pending' = pending \ D, byTicket' = {x \in byTicket : x[3] \notin D},
         skipped' = NoOpsOf(D),
         UNCHANGED <<completed, ready, nextId, issued, assetsOf, ticket, shutdown,
                     serving, done>>
  PROVE  IInv'
<1>1. Movable(AssetsOf(D), completed, NoOpsOf(D), pending \ D)
  BY NoOpsFacts
<1>2. TypeOK /\ TicketOrder /\ IndexExact
  BY DEF IInv
<1>3. BehindCursor' /\ SkippedAhead' /\ \A q \in Live : Turn(q)'
  <2>1. \A a \in Assets : completed[a] <= completed'[a]
    BY <1>2 DEF TypeOK
  <2>2. \A a \in Assets : \A m \in completed[a] .. completed'[a] - 1 : FALSE
    BY <1>2 DEF TypeOK
  <2>3. \A a \in AssetsOf(D) : a \in Assets
    BY <1>1 DEF Movable
  <2>4. completed' \in [Assets -> 0 .. nextId]
    BY <1>2 DEF TypeOK
  <2> QED
    BY <2>1, <2>2, <2>3, <2>4, DemotedOrder
<1>4. Queued' = Queued /\ Once(ready')
  BY DEF Queued, IInv, Places, Once
<1>5. Places'
  <2>1. (pending \ D) \ pending' = {}
    OBVIOUS
  <2> QED
    BY <1>3, <1>4, <2>1, DemotedPlaces
<1>6. TypeOK'
  <2>1. skipped' \in [Assets -> SUBSET (0 .. MaxReservations)]
    BY <1>1 DEF Movable, Tickets
  <2> QED
    BY <1>2, <2>1 DEF TypeOK, Withdraw, shutdown
<1>7. TicketOrder'
  BY <1>2 DEF TicketOrder
<1>8. IndexExact'
  <2>1. \A r \in pending' : ~Turn(r)'
    BY <1>2 DEF IndexExact, Turn, ReadyAt
  <2>2. byTicket' = {x \in Assets \X (0 .. MaxReservations) \X pending' :
                       /\ x[1] \in assetsOf'[x[3]]
                       /\ x[2] = ticket'[x[3]][x[1]]
                       /\ x[2] > completed'[x[1]]}
    BY <1>2 DEF IndexExact
  <2> QED
    BY <2>1, <2>2 DEF IndexExact
<1> QED
  BY <1>3, <1>5, <1>6, <1>7, <1>8 DEF IInv

\* A demoted payload was pending, so it is in no other place, and the books
\* follow it.
LEMMA HandOverKeeps ==
  ASSUME DIInv, ~cancelled, NEW D \in SUBSET pending, Withdraw(D), HandOver(D),
         UNCHANGED <<split, auditing, audited, entered>>
  PROVE  /\ Apart' /\ Accounts'
         /\ acks' \in SUBSET Ids /\ audits' \in SUBSET Ids /\ lowReady' \in Seq(Ids)
<1>1. /\ TypeOK /\ Places /\ DTypeOK /\ Apart /\ Accounts
      /\ accepted' = accepted \ D /\ noop' = noop \cup D /\ D \subseteq Ids
  BY DEF DIInv, IInv, TypeOK, Withdraw
<1>2. D \subseteq accepted /\ D \cap Demoted = {}
  BY <1>1 DEF Places, Apart
<1>3. lowReady \in Seq(Ids) /\ Once(lowReady) /\ LowQueued = Elems(lowReady)
  BY <1>1, LowQueuedIsElems DEF DTypeOK, Apart
<1>4. CASE split
  <2>1. audits' = audits \cup D /\ UNCHANGED <<acks, lowReady>>
    BY <1>4 DEF HandOver
  <2>2. LowQueued' = LowQueued /\ Demoted' = Demoted \cup D
    BY <2>1 DEF LowQueued, Demoted
  <2>3. D \cap (LowQueued \cup audits \cup auditing \cup audited) = {}
    BY <1>2 DEF Demoted
  <2>4. Apart'
    BY <1>1, <2>1, <2>2, <2>3 DEF Apart, Once
  <2>5. Accounts'
    BY <1>1, <1>2, <1>4, <2>1, <2>2 DEF Accounts
  <2> QED
    BY <1>1, <2>1, <2>4, <2>5 DEF DTypeOK
<1>5. CASE ~split
  <2>1. PICK order \in Orderings(D) : lowReady' = lowReady \o order
    BY <1>5 DEF HandOver
  <2>2. acks' = acks \cup D /\ audits' = audits
    BY <1>5 DEF HandOver
  <2>3. D \cap (LowQueued \cup audits \cup auditing \cup audited) = {}
    BY <1>2 DEF Demoted
  <2>4. /\ lowReady \o order \in Seq(Ids)
        /\ Elems(lowReady \o order) = Elems(lowReady) \cup D
        /\ Once(lowReady) /\ D \cap Elems(lowReady) = {} => Once(lowReady \o order)
    BY <1>1, <1>3, ReleaseElems
  <2>5. /\ lowReady' \in Seq(Ids) /\ Once(lowReady')
        /\ LowQueued' = LowQueued \cup D
    BY <1>3, <2>1, <2>3, <2>4 DEF LowQueued, Elems
  <2>6. Demoted' = Demoted \cup D
    BY <2>2, <2>5 DEF Demoted
  <2>7. Apart'
    BY <1>1, <2>2, <2>3, <2>5, <2>6 DEF Apart
  <2>8. Accounts'
    <3>1. acks' = Demoted' \ audited'
      BY <1>1, <1>5, <2>2, <2>3, <2>6 DEF Accounts
    <3> QED
      BY <1>1, <1>2, <1>5, <2>6, <3>1 DEF Accounts
  <2> QED
    BY <1>1, <2>2, <2>5, <2>7, <2>8 DEF DTypeOK
<1> QED
  BY <1>4, <1>5

\* _demote_proven_pending, also when the audit handler raises.
LEMMA DemotePreserves ==
  ASSUME DIInv, ~cancelled, NEW then,
         then \in [op : {"none", "submit", "complete"}, job : Nat],
         DemoteProvenPending(then)
  PROVE  DIInv'
<1>1. PICK D \in SUBSET pending :
        \/ DemoteAll(D) /\ call' = then
        \/ \E kept \in SUBSET D : Overflow(D, kept) /\ UNCHANGED call
  BY DEF DemoteProvenPending
<1>2. /\ UNCHANGED <<nextId, issued, assetsOf, ticket, shutdown, serving, done>>
      /\ UNCHANGED <<split, auditing, audited, entered, cancelled>>
  BY DEF DemoteProvenPending, shutdown
<1>3. IInv /\ DTypeOK /\ NoCursorOnNoOp
  BY DEF DIInv
<1>4. Cleared'
  BY <1>2 DEF Cleared
<1>5. CASE DemoteAll(D) /\ call' = then
  <2>1. Fits(D) /\ Withdraw(D) /\ Collapse(D) /\ HandOver(D) /\ failed' = failed
    BY <1>5 DEF DemoteAll
  <2>2. /\ IInv'
        /\ \A a \in Assets :
             completed[a] \notin skipped[a] => completed'[a] \notin skipped'[a]
    BY <1>2, <1>3, <2>1, DemoteAllKeepsOrder
  <2>3. NoCursorOnNoOp'
    BY <1>2, <1>3, <2>1, <2>2 DEF NoCursorOnNoOp
  <2>4. /\ Apart' /\ Accounts'
        /\ acks' \in SUBSET Ids /\ audits' \in SUBSET Ids /\ lowReady' \in Seq(Ids)
    BY <1>2, <2>1, HandOverKeeps
  <2>5. split => Cardinality(audits') <= AuditRoom
    BY <2>1 DEF Fits, HandOver
  <2>6. DTypeOK'
    BY <1>2, <1>3, <1>5, <2>1, <2>2, <2>4, <2>5 DEF DTypeOK, IInv
  <2> QED
    BY <1>4, <2>2, <2>3, <2>4, <2>6 DEF DIInv
<1>6. ASSUME NEW kept \in SUBSET D, Overflow(D, kept), UNCHANGED call
      PROVE  DIInv'
  <2>1. /\ Withdraw(kept) /\ HandOver(kept) /\ failed' = TRUE /\ split
        /\ Cardinality(audits \cup kept) = AuditRoom
        /\ pending' = pending \ kept /\ byTicket' = {x \in byTicket : x[3] \notin kept}
        /\ skipped' = NoOpsOf(kept) /\ UNCHANGED <<completed, ready>>
        /\ kept \in SUBSET pending
    BY <1>6 DEF Overflow
  <2>2. IInv'
    BY <1>2, <1>3, <2>1, OverflowKeepsOrder
  <2>3. NoCursorOnNoOp'
    BY <2>1 DEF NoCursorOnNoOp
  <2>4. /\ Apart' /\ Accounts'
        /\ acks' \in SUBSET Ids /\ audits' \in SUBSET Ids /\ lowReady' \in Seq(Ids)
    BY <1>2, <2>1, HandOverKeeps
  <2>5. Cardinality(audits') <= AuditRoom
    BY <2>1, AuditRoomAssumption DEF HandOver
  <2>6. DTypeOK'
    BY <1>2, <1>3, <1>6, <2>1, <2>2, <2>4, <2>5 DEF DTypeOK, IInv
  <2> QED
    BY <1>4, <2>2, <2>3, <2>4, <2>6 DEF DIInv
<1> QED
  BY <1>1, <1>5, <1>6

\* No cursor comes to rest on a no-op by a step of the scheduler as it was.
LEMMA CursorsOffNoOps ==
  ASSUME IInv, NoCursorOnNoOp, ~failed, ~cancelled,
         \/ \E A \in SUBSET Assets : Reserve(A)
         \/ \E r \in Ids : Submit(r) \/ Skip(r) \/ RequeueReady(r) \/ Complete(r)
         \/ GetReady
  PROVE  \A a \in Assets : completed'[a] \notin skipped'[a]
<1>1. \A a \in Assets : completed[a] \notin skipped[a]
  BY DEF NoCursorOnNoOp
<1>2. CASE \/ \E A \in SUBSET Assets : Reserve(A)
           \/ \E r \in Ids : Submit(r) \/ RequeueReady(r)
           \/ GetReady
  <2>1. completed' = completed /\ skipped' = skipped
    BY <1>2 DEF Reserve, Submit, RequeueReady, GetReady, cursors, queues
  <2> QED
    BY <1>1, <2>1
<1>3. ASSUME NEW r \in Ids, NEW start, NEW skip, Advance(r, start, skip),
             \A b \in Assets \ assetsOf[r] : skip[b] = skipped[b],
             \A b \in assetsOf[r] : completed'[b] \notin skip[b], NEW a \in Assets
      PROVE  completed'[a] \notin skipped'[a]
  <2>1. skipped'[a] = {n \in skip[a] : n >= completed'[a]}
    BY <1>3 DEF Advance, AdvanceOver
  <2>2. CASE a \in assetsOf[r]
    BY <1>3, <2>1, <2>2
  <2>3. CASE a \notin assetsOf[r]
    <3>1. completed'[a] = completed[a]
      BY <1>3, <2>3 DEF Advance, AdvanceOver
    <3> QED
      BY <1>1, <1>3, <2>1, <2>3, <3>1
  <2> QED
    BY <2>2, <2>3
<1>4. ASSUME NEW r \in Ids, Skip(r), NEW a \in Assets
      PROVE  completed'[a] \notin skipped'[a]
  <2> DEFINE skip == [b \in Assets |-> IF b \in assetsOf[r]
                                       THEN skipped[b] \cup {ticket[r][b]}
                                       ELSE skipped[b]]
  <2>1. Advance(r, completed, skip)
    BY <1>4 DEF Skip
  <2>2. \A b \in Assets \ assetsOf[r] : skip[b] = skipped[b]
    OBVIOUS
  <2>3. /\ skip \in [Assets -> SUBSET Tickets] /\ completed \in [Assets -> Nat]
        /\ \A b \in Assets : \A n \in skip[b] : n < issued[b]
        /\ \A b \in assetsOf[r] : completed[b] <= completed[b] /\ completed[b] <= issued[b]
    <3>1. /\ TypeOK /\ TicketOrder /\ SkippedAhead
          /\ \A b \in assetsOf[r] : b \in Assets /\ ticket[r][b] \in Tickets
      BY DEF IInv, TypeOK, Tickets
    <3>2. skip \in [Assets -> SUBSET Tickets]
      BY <3>1 DEF TypeOK, Tickets
    <3>3. completed \in [Assets -> Nat]
      BY <3>1 DEF TypeOK
    <3>4. \A b \in Assets : \A n \in skip[b] : n < issued[b]
      BY <3>1 DEF TicketOrder, SkippedAhead
    <3> QED
      BY <3>1, <3>2, <3>3, <3>4 DEF TicketOrder
  <2> HIDE DEF skip
  <2>4. \A b \in assetsOf[r] : completed'[b] \notin skip[b]
    BY <2>1, <2>3, AdvanceFacts
  <2> QED
    BY <1>3, <2>1, <2>2, <2>4
<1>5. ASSUME NEW r \in Ids, Complete(r), NEW a \in Assets
      PROVE  completed'[a] \notin skipped'[a]
  <2> DEFINE start == [b \in Assets |-> ticket[r][b] + 1]
  <2>1. Advance(r, start, skipped) /\ r \in serving /\ Turn(r)
    BY <1>5 DEF Complete
  <2>2. /\ skipped \in [Assets -> SUBSET Tickets] /\ start \in [Assets -> Nat]
        /\ \A b \in Assets : \A n \in skipped[b] : n < issued[b]
        /\ \A b \in assetsOf[r] : completed[b] <= start[b] /\ start[b] <= issued[b]
    <3>1. /\ TypeOK /\ TicketOrder /\ SkippedAhead
          /\ \A b \in assetsOf[r] : b \in Assets /\ ticket[r][b] = completed[b]
      BY <2>1 DEF IInv, TypeOK, Turn, ReadyAt
    <3>2. /\ skipped \in [Assets -> SUBSET Tickets]
          /\ \A b \in Assets : ticket[r][b] \in Nat /\ issued[b] \in Nat
      BY <3>1 DEF TypeOK, Tickets
    <3>3. start \in [Assets -> Nat]
      BY <3>2
    <3>4. \A b \in assetsOf[r] : ticket[r][b] < issued[b]
      BY <3>1 DEF TicketOrder
    <3> QED
      BY <3>1, <3>2, <3>3, <3>4 DEF SkippedAhead
  <2> HIDE DEF start
  <2>3. \A b \in assetsOf[r] : completed'[b] \notin skipped[b]
    BY <2>1, <2>2, AdvanceFacts
  <2> QED
    BY <1>3, <2>1, <2>3
<1> QED
  BY <1>2, <1>4, <1>5

-----------------------------------------------------------------------------
(* Every step of the demoting scheduler keeps the invariant.               *)

LEMMA EndSubmitPreserves ==
  ASSUME DIInv, NEW r \in Ids, EndSubmit(r)
  PROVE  DIInv'
<1>1. /\ Submit(r) /\ entered' = entered \cup {r} /\ call' = NoCall
      /\ UNCHANGED <<split, acks, audits, lowReady, auditing, audited, failed>>
      /\ ~cancelled /\ cancelled' = cancelled
      /\ accepted' = accepted \cup {r} /\ noop' = noop
      /\ IInv /\ DTypeOK /\ Apart /\ Accounts /\ NoCursorOnNoOp
  BY DEF EndSubmit, Submit, shutdown, DIInv
<1>2. IInv'
  BY <1>1, SubmitPreserves
<1>3. Cleared'
  BY <1>1 DEF Cleared
<1>4. DTypeOK'
  BY <1>1, <1>2 DEF IInv, DTypeOK, NoCall
<1>5. LowQueued' = LowQueued /\ Demoted' = Demoted
  BY <1>1 DEF LowQueued, Demoted
<1>6. Apart' /\ Accounts'
  BY <1>1, <1>5 DEF Apart, Accounts, Once
<1>7. NoCursorOnNoOp'
  BY <1>1, CursorsOffNoOps DEF NoCursorOnNoOp
<1> QED
  BY <1>2, <1>3, <1>4, <1>6, <1>7 DEF DIInv

LEMMA EndCompletePreserves ==
  ASSUME DIInv, NEW r \in Ids, EndComplete(r)
  PROVE  DIInv'
<1>1. /\ Complete(r) /\ call' = NoCall
      /\ UNCHANGED <<split, acks, audits, lowReady, auditing, audited, entered, failed>>
      /\ ~cancelled /\ cancelled' = cancelled
      /\ accepted' = accepted /\ noop' = noop
      /\ IInv /\ DTypeOK /\ Apart /\ Accounts /\ NoCursorOnNoOp
  BY DEF EndComplete, Complete, shutdown, DIInv
<1>2. IInv'
  BY <1>1, CompletePreserves
<1>3. Cleared'
  BY <1>1 DEF Cleared
<1>4. DTypeOK'
  BY <1>1, <1>2 DEF IInv, DTypeOK, NoCall
<1>5. LowQueued' = LowQueued /\ Demoted' = Demoted
  BY <1>1 DEF LowQueued, Demoted
<1>6. Apart' /\ Accounts'
  BY <1>1, <1>5 DEF Apart, Accounts, Once
<1>7. NoCursorOnNoOp'
  BY <1>1, CursorsOffNoOps DEF NoCursorOnNoOp
<1> QED
  BY <1>2, <1>3, <1>4, <1>6, <1>7 DEF DIInv

LEMMA AsBeforePreserves ==
  ASSUME DIInv, AsBefore
  PROVE  DIInv'
<1>1. /\ \/ \E A \in SUBSET Assets : Reserve(A)
         \/ \E r \in Ids : Skip(r) \/ RequeueReady(r)
         \/ GetReady
      /\ UNCHANGED <<split, acks, audits, lowReady, auditing, audited, entered,
                     failed, call>>
      /\ IInv /\ DTypeOK /\ Apart /\ Accounts /\ NoCursorOnNoOp
  BY DEF AsBefore, demotion, DIInv, Idle
<1>2. /\ ~cancelled /\ cancelled' = cancelled
      /\ accepted' = accepted /\ noop \subseteq noop'
  BY <1>1 DEF Reserve, Skip, RequeueReady, GetReady, shutdown, history
<1>3. IInv'
  BY <1>1, ReservePreserves, SkipPreserves, RequeuePreserves, GetReadyPreserves
<1>4. Cleared'
  BY <1>2 DEF Cleared
<1>5. DTypeOK'
  BY <1>1, <1>3 DEF IInv, DTypeOK
<1>6. LowQueued' = LowQueued /\ Demoted' = Demoted
  BY <1>1 DEF LowQueued, Demoted
<1>7. Apart' /\ Accounts'
  BY <1>1, <1>2, <1>6 DEF Apart, Accounts, Once
<1>8. NoCursorOnNoOp'
  BY <1>1, <1>2, CursorsOffNoOps DEF NoCursorOnNoOp
<1> QED
  BY <1>3, <1>4, <1>5, <1>7, <1>8 DEF DIInv

LEMMA DCancelPreserves ==
  ASSUME DIInv, DCancelWaiters
  PROVE  DIInv'
<1>1. /\ cancelled' = TRUE /\ pending' = {} /\ accepted' = accepted /\ noop' = noop
      /\ UNCHANGED <<split, acks, audits, lowReady, auditing, audited, entered,
                     failed, call>>
      /\ IInv /\ DTypeOK /\ Apart /\ Accounts
  BY DEF DCancelWaiters, history, demotion, DIInv
<1>2. IInv'
  <2>1. Len(ready) \in Nat /\ Cardinality(pending) \in Nat /\ Len(lowReady) \in Nat
    BY <1>1, CountsAreNaturals DEF IInv, DTypeOK
  <2>2. backlog' \in [ready : Nat, waiting : Nat]
    BY <2>1 DEF DCancelWaiters
  <2> QED
    BY <1>1, <2>2, ClearingPreserves DEF DCancelWaiters
<1>3. Cleared' /\ NoCursorOnNoOp'
  BY <1>1 DEF Cleared, NoCursorOnNoOp
<1>4. DTypeOK'
  BY <1>1, <1>2 DEF IInv, DTypeOK
<1>5. LowQueued' = LowQueued /\ Demoted' = Demoted
  BY <1>1 DEF LowQueued, Demoted
<1>6. Apart' /\ Accounts'
  BY <1>1, <1>5 DEF Apart, Accounts, Once
<1> QED
  BY <1>2, <1>3, <1>4, <1>6 DEF DIInv

\* The steps of the audit and of the finalizers with demoted jobs leave the
\* scheduler as it is.
LEMMA PayloadsKeep ==
  ASSUME DIInv, UNCHANGED <<vars, split, failed>>
  PROVE  /\ IInv' /\ Cleared' /\ NoCursorOnNoOp'
         /\ accepted' = accepted /\ noop' = noop /\ TypeOK'
<1>1. /\ nextId' = nextId /\ issued' = issued /\ completed' = completed
      /\ assetsOf' = assetsOf /\ ticket' = ticket /\ ready' = ready
      /\ pending' = pending /\ byTicket' = byTicket /\ skipped' = skipped
      /\ submitted' = submitted /\ cancelled' = cancelled /\ backlog' = backlog
      /\ serving' = serving /\ accepted' = accepted /\ noop' = noop /\ done' = done
      /\ failed' = failed
  BY DEF vars, cursors, queues, shutdown, history
<1>2. Queued' = Queued /\ Live' = Live
  BY <1>1 DEF Queued, Live
<1>3. IInv'
  BY <1>1, <1>2 DEF DIInv, IInv, TypeOK, TicketOrder, BehindCursor, SkippedAhead,
     Places, IndexExact, Turn, ReadyAt
<1>4. Cleared' /\ NoCursorOnNoOp'
  BY <1>1 DEF DIInv, Cleared, NoCursorOnNoOp
<1> QED
  BY <1>1, <1>3, <1>4 DEF IInv

LEMMA GetDemotedPreserves ==
  ASSUME DIInv, GetDemoted
  PROVE  DIInv'
<1> DEFINE r == Head(lowReady)
<1>1. /\ auditing' = auditing \cup {r} /\ lowReady' = Tail(lowReady)
      /\ UNCHANGED <<vars, split, acks, audits, audited, entered, failed, call>>
      /\ DTypeOK /\ Apart /\ Accounts
      /\ lowReady \in Seq(Ids) /\ lowReady # <<>> /\ Once(lowReady)
  BY DEF GetDemoted, DIInv, DTypeOK, Apart
<1>2. /\ Tail(lowReady) \in Seq(Ids) /\ r \in Elems(lowReady)
      /\ Elems(lowReady) = Elems(Tail(lowReady)) \cup {r}
      /\ Once(Tail(lowReady)) /\ r \notin Elems(Tail(lowReady))
  BY <1>1, TailElems
<1> HIDE DEF r
<1>3. LowQueued = LowQueued' \cup {r} /\ r \notin LowQueued' /\ r \in Ids
  <2>1. LowQueued = Elems(lowReady) /\ LowQueued' = Elems(Tail(lowReady))
    BY <1>1 DEF LowQueued, Elems
  <2>2. LowQueued = LowQueued' \cup {r} /\ r \notin LowQueued'
    BY <1>2, <2>1
  <2>3. r \in Ids
    BY <1>1, <1>2 DEF Elems
  <2> QED
    BY <2>2, <2>3
<1>4. Demoted' = Demoted
  BY <1>1, <1>3 DEF Demoted
<1>5. /\ IInv' /\ Cleared' /\ NoCursorOnNoOp' /\ TypeOK'
      /\ accepted' = accepted /\ noop' = noop
  BY <1>1, PayloadsKeep
<1>6. DTypeOK'
  BY <1>1, <1>2, <1>3, <1>5 DEF DTypeOK
<1>7. Apart' /\ Accounts'
  BY <1>1, <1>2, <1>3, <1>4, <1>5 DEF Apart, Accounts
<1> QED
  BY <1>5, <1>6, <1>7 DEF DIInv

\* complete() of a demoted job, and both ends of the audit lane.
LEMMA AuditPreserves ==
  ASSUME DIInv, NEW r \in Ids, CompleteDemoted(r) \/ TakeAudit(r) \/ EndAudit(r)
  PROVE  DIInv'
<1>1. /\ DTypeOK /\ Apart /\ Accounts
      /\ UNCHANGED <<vars, split, lowReady, entered, failed, call>>
  BY DEF DIInv, CompleteDemoted, TakeAudit, EndAudit
<1>2. /\ IInv' /\ Cleared' /\ NoCursorOnNoOp' /\ TypeOK'
      /\ accepted' = accepted /\ noop' = noop
  BY <1>1, PayloadsKeep
<1>3. LowQueued' = LowQueued /\ (Once(lowReady) => Once(lowReady'))
  BY <1>1 DEF LowQueued, Once
<1>4. CASE CompleteDemoted(r) \/ EndAudit(r)
  <2>1. /\ audits' = audits /\ auditing' = auditing \ {r}
        /\ audited' = audited \cup {r} /\ r \in auditing
        /\ acks' = IF split THEN acks ELSE acks \ {r}
    BY <1>1, <1>4 DEF CompleteDemoted, EndAudit, Accounts
  <2>2. Demoted' = Demoted
    BY <1>3, <2>1 DEF Demoted
  <2>3. DTypeOK'
    BY <1>1, <1>2, <2>1 DEF DTypeOK
  <2>4. Apart'
    BY <1>1, <1>2, <1>3, <2>1, <2>2 DEF Apart
  <2>5. Accounts'
    BY <1>1, <1>2, <2>1, <2>2 DEF Accounts
  <2> QED
    BY <1>2, <2>3, <2>4, <2>5 DEF DIInv
<1>5. CASE TakeAudit(r)
  <2>1. /\ r \in audits /\ audits' = audits \ {r} /\ auditing' = auditing \cup {r}
        /\ audited' = audited /\ acks' = acks
    BY <1>5 DEF TakeAudit
  <2>2. Demoted' = Demoted
    BY <1>3, <2>1 DEF Demoted
  <2>3. split => Cardinality(audits') <= AuditRoom
    <3>1. IsFiniteSet(audits)
      <4>1. IsFiniteSet(Ids)
        BY FS_Interval, ReservationsAssumption DEF Ids
      <4> QED
        BY <1>1, <4>1, FS_Subset DEF DTypeOK
    <3>2. Cardinality(audits \ {r}) = Cardinality(audits) - 1
      BY <2>1, <3>1, FS_RemoveElement
    <3>3. Cardinality(audits) \in Nat
      BY <3>1, FS_CardinalityType
    <3> QED
      BY <1>1, <2>1, <3>2, <3>3, AuditRoomAssumption DEF DTypeOK
  <2>4. DTypeOK'
    BY <1>1, <1>2, <2>1, <2>3 DEF DTypeOK
  <2>5. Apart'
    BY <1>1, <1>2, <1>3, <2>1, <2>2 DEF Apart
  <2>6. Accounts'
    BY <1>1, <1>2, <2>1, <2>2 DEF Accounts
  <2> QED
    BY <1>2, <2>4, <2>5, <2>6 DEF DIInv
<1> QED
  BY <1>4, <1>5

LEMMA DNextInvariant == DIInv /\ [DNext]_allVars => DIInv'
<1> SUFFICES ASSUME DIInv, [DNext]_allVars PROVE DIInv'
  OBVIOUS
<1>1. ASSUME NEW r \in Ids, BeginSubmit(r) PROVE DIInv'
  <2>1. [op |-> "submit", job |-> r] \in [op : {"none", "submit", "complete"}, job : Nat]
    BY DEF Ids
  <2> QED
    BY <1>1, <2>1, DemotePreserves DEF BeginSubmit, Idle
<1>2. ASSUME NEW r \in Ids, BeginComplete(r) PROVE DIInv'
  <2>1. [op |-> "complete", job |-> r] \in [op : {"none", "submit", "complete"}, job : Nat]
    BY DEF Ids
  <2> QED
    BY <1>2, <2>1, DemotePreserves DEF BeginComplete, Idle
<1>3. ASSUME UNCHANGED allVars PROVE DIInv'
  <2>1. UNCHANGED <<vars, split, acks, audits, lowReady, auditing, audited, entered,
                    failed, call>>
    BY <1>3 DEF allVars, demotion
  <2>2. /\ IInv' /\ Cleared' /\ NoCursorOnNoOp' /\ TypeOK'
        /\ accepted' = accepted /\ noop' = noop
    BY <2>1, PayloadsKeep
  <2>3. LowQueued' = LowQueued /\ Demoted' = Demoted
    BY <2>1 DEF LowQueued, Demoted
  <2> QED
    BY <2>1, <2>2, <2>3 DEF DIInv, DTypeOK, Apart, Accounts, Once
<1> QED
  BY <1>1, <1>2, <1>3, EndSubmitPreserves, EndCompletePreserves, AuditPreserves,
     AsBeforePreserves, GetDemotedPreserves, DCancelPreserves DEF DNext

LEMMA DInvariance == DSpec => []DIInv
<1> QED
  BY DInitInvariant, DNextInvariant, PTL DEF DSpec

\* The variables hold what their comments say, also while a demotion pass of
\* submit() or complete() is between its two steps and after the handler raised.
THEOREM DemotingTypeCorrect == DSpec => []DTypeOK
<1>1. DIInv => DTypeOK
  BY DEF DIInv
<1> QED
  BY <1>1, DInvariance, PTL

\* Demoting proven jobs out of the middle of the per-asset order breaks no
\* promise of the order: whoever runs has only done or demoted predecessors.
THEOREM CausalPrefixUnderDemotion == DSpec => []CausalPrefix
<1>1. DIInv => CausalPrefix
  BY PrefixResolved DEF DIInv
<1> QED
  BY <1>1, DInvariance, PTL

\* _demote_proven_pending moves the cursors over what it demotes, and skip() and
\* complete() leave none on a no-op: nobody waits behind a demoted job.
THEOREM DemotionHoldsUpNobody == DSpec => []NoCursorOnNoOp
<1>1. DIInv => NoCursorOnNoOp
  BY DEF DIInv
<1> QED
  BY <1>1, DInvariance, PTL

\* No demoted payload is lost or handed out twice, by submit(), complete(), the
\* two queues and the audit handler, and the acknowledgements follow it.
THEOREM DemotedEvidenceKept == DSpec => []EvidenceKept
<1>1. DIInv => EvidenceKept
  <2> SUFFICES ASSUME DIInv PROVE EvidenceKept
    OBVIOUS
  <2>1. /\ IInv /\ Places /\ Cleared /\ DTypeOK /\ Apart /\ Accounts
        /\ lowReady \in Seq(Ids) /\ Once(lowReady)
    BY DEF DIInv, IInv, DTypeOK, Apart
  <2>2. Len(lowReady) = Cardinality(LowQueued)
    BY <2>1, OnceCardinality, LowQueuedIsElems
  <2>3. Demoted \cap (pending \cup Live \cup done \cup accepted) = {}
    BY <2>1 DEF Apart, Places, Cleared
  <2>4. ~cancelled => submitted = pending \cup Live
    BY <2>1 DEF Places
  <2> QED
    BY <2>1, <2>2, <2>3, <2>4 DEF EvidenceKept, Apart, Accounts
<1> QED
  BY <1>1, DInvariance, PTL

=============================================================================
