------------------------ MODULE WatchedPools_proofs ------------------------
(* Theorems of WatchedPools, for any pools, tokens, slots, attempts and      *)
(* versions, and for ticks that are cut anywhere and any number of times.   *)
EXTENDS WatchedPools, SharedLemmas, SequenceTheorems

\* Where a tick is between two writes that belong together, and what it has in
\* hand there; the rows a loop still has to visit are as they were when read.
MidWay == {"registrar", "readmitir", "fechar_registro"}

Cycle ==
    /\ pc = "promovendo" => fila \subseteq Esperando
    /\ pc = "atualizar" => fila \subseteq In("ativo")
    /\ pc = "registrar" => restam > 0
    /\ pc \in {"registrar", "readmitir"} => status[emcurso] = "dormente"
    /\ pc = "fechar_registro" => status[emcurso] # "dormente"
    /\ pc \in {"readmitir", "fechar_registro"} =>
          conferidos # <<>> /\ conferidos[Len(conferidos)] = emcurso
    /\ IF pc \in MidWay THEN emcurso \in Pools ELSE emcurso = NoPool

\* The open records p should have: one when it is dormant; the pool in hand has
\* none before its record is written, and one until it is closed.
Expected(p) ==
    IF p = emcurso THEN (IF pc = "registrar" THEN 0 ELSE 1)
    ELSE IF status[p] = "dormente" THEN 1 ELSE 0

Unpaired == {p \in Pools : OpenRecords(p) # Expected(p)}

Paired == Cardinality(Unpaired) <= cortesNoPar

IInv == TypeOK /\ OnePoolPerToken /\ HeldRowStillAsks /\ Cycle /\ Paired

-----------------------------------------------------------------------------

USE DEF MidWay

LEMMA InitInvariant == Init => IInv
<1> SUFFICES ASSUME Init PROVE IInv
  OBVIOUS
<1>1. 0 \in 0 .. MaxAttempts /\ 0 \in Nat /\ <<>> \in Seq(Pools)
  BY LimitsAssumption
<1>2. TypeOK
  <2>1. aberto \subseteq Pools \X Versions
    BY PoolsAssumption DEF Init
  <2>2. status \in [Pools -> Statuses] /\ tentativas \in [Pools -> 0 .. MaxAttempts]
    BY <1>1 DEF Init, Statuses
  <2>3. vencidos \in 0 .. Len(conferidos)
    BY DEF Init
  <2> QED
    BY <1>1, <2>1, <2>2, <2>3 DEF Init, TypeOK
<1>3. OnePoolPerToken
  <2> SUFFICES ASSUME NEW p \in Pools, NEW q \in Pools, p # q, MintOf[p] = MintOf[q],
                      status[p] \notin {"fora", "rejeitado"}
               PROVE  status[q] \in {"fora", "rejeitado"}
    BY DEF OnePoolPerToken
  <2>1. p \in Legacy
    BY DEF Init
  <2>2. q \notin Legacy
    BY <2>1, PoolsAssumption
  <2> QED
    BY <2>2 DEF Init
<1>4. HeldRowStillAsks /\ Cycle
  BY DEF Init, HeldRowStillAsks, Cycle
<1>5. Paired
  <2>1. ASSUME NEW p \in Pools PROVE OpenRecords(p) = 0
    <3>1. {i \in DOMAIN nunca : nunca[i] = p} = {} /\ {i \in DOMAIN conferidos : conferidos[i] = p} = {}
      BY DEF Init
    <3> QED
      BY <3>1, FS_EmptySet DEF OpenRecords
  <2>2. ASSUME NEW p \in Pools PROVE Expected(p) = 0
    BY PoolsAssumption DEF Init, Expected
  <2>3. Unpaired = {}
    BY <2>1, <2>2 DEF Unpaired
  <2> QED
    BY <2>3, FS_EmptySet DEF Paired, Init
<1> QED
  BY <1>2, <1>3, <1>4, <1>5 DEF IInv

-----------------------------------------------------------------------------
(* What a step leaves as it is.                                             *)

\* A token keeps its one pool unless a row comes into the table.
LEMMA TokensKept ==
  ASSUME OnePoolPerToken,
         \A p \in Pools : status[p] \in {"fora", "rejeitado"} => status'[p] \in {"fora", "rejeitado"}
  PROVE  OnePoolPerToken'
BY DEF OnePoolPerToken

\* The row in the lineage thread's hands still asks for its verdict when no row
\* that asks for one is touched.
LEMMA HeldRowKept ==
  ASSUME HeldRowStillAsks, verificando' = verificando,
         \A p \in NeedsVerification : status'[p] = status[p] /\ (p \in criado' => p \in criado)
  PROVE  HeldRowStillAsks'
BY DEF HeldRowStillAsks, NeedsVerification

LEMMA UnpairedFinite == IsFiniteSet(Unpaired) /\ Cardinality(Unpaired) \in Nat
<1>1. Unpaired \in SUBSET Pools
  BY DEF Unpaired
<1> QED
  BY <1>1, PoolsAssumption, FS_Subset, FS_CardinalityType

\* Fewer pools without their record are no more than before.
LEMMA PairedKept ==
  ASSUME Paired, cortesNoPar' = cortesNoPar, cortesNoPar \in Nat,
         Unpaired' \subseteq Unpaired
  PROVE  Paired'
<1>1. IsFiniteSet(Unpaired') /\ Cardinality(Unpaired') <= Cardinality(Unpaired)
  BY UnpairedFinite, FS_Subset
<1>2. Cardinality(Unpaired') \in Nat
  BY <1>1, FS_CardinalityType
<1> QED
  BY <1>1, <1>2, UnpairedFinite DEF Paired

\* Pools and records pair off as before when no record is written and no pool
\* becomes dormant or ceases to be.
LEMMA RecordsKept ==
  ASSUME IInv, nunca' = nunca, conferidos' = conferidos, emcurso' = emcurso,
         cortesNoPar' = cortesNoPar, pc' = pc \/ pc \notin MidWay,
         \A p \in Pools : status'[p] = "dormente" <=> status[p] = "dormente"
  PROVE  Paired'
<1>1. ASSUME NEW p \in Pools PROVE OpenRecords(p)' = OpenRecords(p)
  BY DEF OpenRecords
<1>2. ASSUME NEW p \in Pools PROVE Expected(p)' = Expected(p)
  <2>1. pc' = pc \/ p # emcurso
    BY PoolsAssumption DEF IInv, Cycle
  <2> QED
    BY <2>1 DEF Expected
<1>3. Unpaired' = Unpaired
  BY <1>1, <1>2 DEF Unpaired
<1> QED
  BY <1>3, PairedKept DEF IInv, TypeOK

\* A step that writes no row and no record.
LEMMA RowsKept ==
  ASSUME IInv, UNCHANGED <<table, nunca, conferidos, verificando, emcurso, cortesNoPar>>,
         pc' = pc \/ pc \notin MidWay
  PROVE  OnePoolPerToken' /\ HeldRowStillAsks' /\ Paired'
<1>1. OnePoolPerToken'
  BY TokensKept DEF IInv, table
<1>2. HeldRowStillAsks'
  BY HeldRowKept DEF IInv, table
<1>3. Paired'
  BY RecordsKept DEF table
<1> QED
  BY <1>1, <1>2, <1>3

\* A pool that is given up is one of the watch, or a waiting one whose creation
\* date is known.
LEMMA PoolEnds ==
  ASSUME IInv, NEW p \in Pools, p \in In("ativo") \cup Esperando, Encerrar(p),
         UNCHANGED <<nunca, conferidos, verificando, emcurso, cortesNoPar, pc>>
  PROVE  OnePoolPerToken' /\ HeldRowStillAsks' /\ Paired'
<1>1. /\ status \in [Pools -> Statuses]
      /\ status[p] \in {"ativo", "verificado"}
      /\ p \notin NeedsVerification
  BY DEF IInv, TypeOK, In, Esperando, NeedsVerification
<1>2. /\ status'[p] = "encerrado"
      /\ \A q \in Pools : q # p => status'[q] = status[q]
      /\ \A q \in Pools : q \in criado' => q \in criado
  BY <1>1 DEF Encerrar
<1>3. OnePoolPerToken'
  BY <1>1, <1>2, TokensKept DEF IInv
<1>4. HeldRowStillAsks'
  <2>1. NeedsVerification \subseteq Pools
    BY DEF NeedsVerification
  <2> QED
    BY <1>1, <1>2, <2>1, HeldRowKept DEF IInv
<1>5. Paired'
  BY <1>1, <1>2, RecordsKept
<1> QED
  BY <1>3, <1>4, <1>5

-----------------------------------------------------------------------------
(* The lineage thread.                                                      *)

LEMMA VerifierTakePreserves == ASSUME IInv, NEW p \in Pools, VerifierTake(p) PROVE IInv'
<1> USE DEF VerifierTake
<1>1. TypeOK'
  BY DEF IInv, TypeOK, table, records, locals, history
<1>2. HeldRowStillAsks'
  BY DEF HeldRowStillAsks, NeedsVerification, table
<1>3. OnePoolPerToken' /\ Paired'
  BY TokensKept, RecordsKept DEF IInv, table, records, locals, history
<1>4. Cycle'
  BY DEF IInv, Cycle, Esperando, In, table, records, locals
<1> QED
  BY <1>1, <1>2, <1>3, <1>4 DEF IInv

\* The verdict is written over a row that still asks for it, so nothing in the
\* cycle's hands changes.
LEMMA VerdictPreserves ==
  ASSUME IInv, NEW novo \in {"verificado", "rejeitado", "pendente"}, NEW n \in 0 .. MaxAttempts,
         Verdict(novo, n), criado' \in {criado, criado \cup {verificando}},
         novo = "pendente" => status[verificando] = "pendente"
  PROVE  IInv'
<1>1. /\ verificando \in Pools /\ verificando \in NeedsVerification
      /\ status \in [Pools -> Statuses] /\ tentativas \in [Pools -> 0 .. MaxAttempts]
      /\ criado \subseteq Pools
  BY DEF IInv, TypeOK, Verdict, HeldRowStillAsks
<1>2. /\ status[verificando] \in {"pendente", "verificado"}
      /\ verificando \notin Esperando /\ verificando \notin In("ativo")
  BY <1>1 DEF NeedsVerification, Esperando, In
<1>3. /\ status'[verificando] = novo /\ status' \in [Pools -> Statuses]
      /\ \A q \in Pools : q # verificando => status'[q] = status[q]
  BY <1>1 DEF Verdict, Statuses
<1>4. TypeOK'
  <2>1. tentativas' \in [Pools -> 0 .. MaxAttempts]
    BY <1>1 DEF Verdict
  <2>2. criado' \subseteq Pools
    BY <1>1
  <2> QED
    BY <1>3, <2>1, <2>2 DEF IInv, TypeOK, Verdict, records, locals, history
<1>5. OnePoolPerToken'
  BY <1>2, <1>3, TokensKept DEF IInv
<1>6. HeldRowStillAsks'
  BY DEF Verdict, HeldRowStillAsks
<1>7. Paired'
  BY <1>2, <1>3, RecordsKept DEF Verdict, records, locals, history
<1>8. Cycle'
  <2>1. Esperando \subseteq Esperando' /\ In("ativo") \subseteq In("ativo")'
    BY <1>2, <1>3 DEF Esperando, In
  <2>2. emcurso \in Pools => status'[emcurso] = "dormente" <=> status[emcurso] = "dormente"
    BY <1>2, <1>3
  <2> QED
    BY <2>1, <2>2 DEF IInv, Cycle, Verdict, records, locals
<1> QED
  BY <1>4, <1>5, <1>6, <1>7, <1>8 DEF IInv

LEMMA VerifierPreserves == ASSUME IInv, Verifier PROVE IInv'
<1>1. 0 \in 0 .. MaxAttempts /\ MaxAttempts \in Nat
  BY LimitsAssumption
<1>2. CASE \E p \in Pools : VerifierTake(p)
  BY <1>2, VerifierTakePreserves
<1>3. CASE VerifierAccepts
  BY <1>1, <1>3, VerdictPreserves DEF VerifierAccepts
<1>4. CASE VerifierRejects
  BY <1>1, <1>4, VerdictPreserves DEF VerifierRejects
<1>5. CASE VerifierError
  <2> DEFINE n == tentativas[verificando] + 1
  <2>1. verificando \in Pools /\ verificando \in NeedsVerification /\ n \in Nat
    BY <1>1, <1>5 DEF VerifierError, IInv, TypeOK, HeldRowStillAsks
  <2>2. status[verificando] \in {"pendente", "verificado"}
    BY <2>1 DEF NeedsVerification
  <2>3. CASE n >= MaxAttempts
    BY <1>1, <1>5, <2>3, VerdictPreserves DEF VerifierError
  <2>4. CASE ~(n >= MaxAttempts)
    <3>1. n \in 0 .. MaxAttempts
      BY <1>1, <2>1, <2>4
    <3>2. Verdict(status[verificando], n) /\ criado' = criado
      BY <1>5, <2>4 DEF VerifierError
    <3> HIDE DEF n
    <3> QED
      BY <2>2, <3>1, <3>2, VerdictPreserves
  <2> QED
    BY <2>3, <2>4
<1> QED
  BY <1>2, <1>3, <1>4, <1>5 DEF Verifier

-----------------------------------------------------------------------------
(* _startup, offer and _promote.                                            *)

LEMMA StartupPreserves ==
  ASSUME IInv, StartupMark \/ StartupPools \/ StartupTrades
  PROVE  IInv'
<1>1. CASE StartupMark \/ StartupTrades
  <2> USE <1>1 DEF StartupMark, StartupTrades
  <2>1. OnePoolPerToken' /\ HeldRowStillAsks' /\ Paired'
    BY RowsKept DEF records, locals, history
  <2>2. TypeOK'
    BY DEF IInv, TypeOK, table, records, locals, history
  <2>3. Cycle'
    BY DEF IInv, Cycle, table, records, locals
  <2> QED
    BY <2>1, <2>2, <2>3 DEF IInv
<1>2. CASE StartupPools
  <2> USE <1>2 DEF StartupPools
  <2>1. \A p \in Pools : /\ status'[p] # status[p] => status[p] = "ativo" /\ status'[p] = "verificado"
                         /\ status[p] \in Statuses
    BY DEF IInv, TypeOK
  <2>2. status' \in [Pools -> Statuses]
    BY <2>1 DEF Statuses
  <2>3. TypeOK'
    BY <2>2 DEF IInv, TypeOK, records, locals, history
  <2>4. OnePoolPerToken'
    BY <2>1, TokensKept DEF IInv
  <2>5. HeldRowStillAsks'
    <3>1. \A p \in NeedsVerification : p \in Pools /\ status[p] # "ativo"
      BY DEF NeedsVerification
    <3> QED
      BY <2>1, <3>1, HeldRowKept DEF IInv
  <2>6. Paired'
    BY <2>1, RecordsKept DEF records, locals, history
  <2>7. Cycle'
    BY DEF IInv, Cycle, records, locals
  <2> QED
    BY <2>3, <2>4, <2>5, <2>6, <2>7 DEF IInv
<1> QED
  BY <1>1, <1>2

\* The pool offered has no row, and its token none that was not rejected.
LEMMA OfferPreserves == ASSUME IInv, NEW p \in Pools, Offer(p) PROVE IInv'
<1> USE DEF Offer
<1>1. /\ status \in [Pools -> Statuses] /\ status' \in [Pools -> Statuses]
      /\ status[p] = "fora" /\ status'[p] = "pendente"
      /\ \A q \in Pools : q # p => status'[q] = status[q]
  BY DEF IInv, TypeOK, Statuses
<1>2. TypeOK'
  BY <1>1 DEF IInv, TypeOK, records, locals, history
<1>3. OnePoolPerToken'
  <2>1. \A q \in Pools : MintOf[q] = MintOf[p] => status[q] \in {"fora", "rejeitado"}
    BY DEF KnownToken
  <2>2. ASSUME NEW q \in Pools, NEW r \in Pools, q # r, MintOf[q] = MintOf[r],
               status'[q] \notin {"fora", "rejeitado"}
        PROVE  status'[r] \in {"fora", "rejeitado"}
    <3>1. CASE q = p
      BY <1>1, <2>1, <2>2, <3>1
    <3>2. CASE q # p
      BY <1>1, <2>1, <2>2, <3>2 DEF IInv, OnePoolPerToken
    <3> QED
      BY <3>1, <3>2
  <2> QED
    BY <2>2 DEF OnePoolPerToken
<1>4. HeldRowStillAsks'
  <2>1. \A q \in NeedsVerification : q \in Pools /\ status[q] # "fora"
    BY DEF NeedsVerification
  <2> QED
    BY <1>1, <2>1, HeldRowKept DEF IInv
<1>5. Paired'
  BY <1>1, RecordsKept DEF records, locals, history
<1>6. Cycle'
  BY <1>1 DEF IInv, Cycle, Esperando, In, records, locals
<1> QED
  BY <1>2, <1>3, <1>4, <1>5, <1>6 DEF IInv

LEMMA PoolsCounted == ASSUME NEW S \in SUBSET Pools PROVE Cardinality(S) \in Nat
BY PoolsAssumption, FS_Subset, FS_CardinalityType

\* The loops of the cycle begin with the rows as they are in the table.
LEMMA LoopsPreserve ==
  ASSUME IInv, PromoteBegin \/ PromoteEnd \/ RefreshEnd
  PROVE  IInv'
<1> USE DEF PromoteBegin, PromoteEnd, RefreshEnd
<1>1. OnePoolPerToken' /\ HeldRowStillAsks' /\ Paired'
  BY RowsKept DEF records, locals, history
<1>2. TypeOK'
  <2>1. Esperando \subseteq Pools /\ In("ativo") \subseteq Pools /\ Cardinality(In("ativo")) \in Nat
    <3>1. Esperando \subseteq Pools /\ In("ativo") \subseteq Pools
      BY DEF Esperando, In
    <3> QED
      BY <3>1, PoolsCounted
  <2> QED
    BY <2>1 DEF IInv, TypeOK, table, records, locals, history
<1>3. Cycle'
  BY DEF IInv, Cycle, Esperando, In, table, records, locals
<1> QED
  BY <1>1, <1>2, <1>3 DEF IInv

\* The row that is promoted or given up is one that waits for a slot, because
\* nobody touched the rows of the loop since they were read.
LEMMA PromoteOnePreserves == ASSUME IInv, NEW p \in Pools, PromoteOne(p) PROVE IInv'
<1> USE DEF PromoteOne
<1>1. /\ p \in Esperando /\ status[p] = "verificado" /\ p \in criado
      /\ status \in [Pools -> Statuses]
      /\ fila' = fila \ {p} /\ fila \subseteq Esperando
      /\ pc = "promovendo" /\ pc' = pc
  BY DEF IInv, TypeOK, Cycle, Esperando, In
<1>2. UNCHANGED <<tentativas, aberto, nunca, conferidos, vencidos, verificando, restam, emcurso,
                  rotacoes, iniciado, cortes, cortesNoPar>>
  BY DEF records, history
<1>3. CASE p \in velho /\ Encerrar(p) /\ UNCHANGED ativos
  <2>1. OnePoolPerToken' /\ HeldRowStillAsks' /\ Paired'
    BY <1>1, <1>2, <1>3, PoolEnds
  <2>2. /\ status' \in [Pools -> Statuses]
        /\ \A q \in Pools : q # p => status'[q] = status[q] /\ (q \in criado' <=> q \in criado)
    BY <1>1, <1>3 DEF Encerrar, Statuses
  <2>3. TypeOK'
    <3>1. {criado, readmitido, incapaz, velho, fila}' \subseteq SUBSET Pools
      BY <1>1, <1>3 DEF Encerrar, IInv, TypeOK
    <3> QED
      BY <1>1, <1>2, <1>3, <2>2, <3>1 DEF IInv, TypeOK
  <2>4. Cycle'
    <3>1. fila' \subseteq Esperando'
      BY <1>1, <2>2 DEF Esperando, In
    <3> QED
      BY <1>1, <1>2, <3>1 DEF IInv, Cycle
  <2> QED
    BY <2>1, <2>3, <2>4 DEF IInv
<1>4. CASE UNCHANGED <<status, criado, readmitido, ativos, velho, incapaz>>
  <2>1. OnePoolPerToken' /\ HeldRowStillAsks' /\ Paired'
    BY <1>1, <1>2, <1>4, RowsKept DEF table
  <2>2. TypeOK'
    BY <1>1, <1>2, <1>4 DEF IInv, TypeOK
  <2>3. Cycle'
    BY <1>1, <1>2, <1>4 DEF IInv, Cycle, Esperando, In
  <2> QED
    BY <2>1, <2>2, <2>3 DEF IInv
<1>5. CASE /\ status' = [status EXCEPT ![p] = "ativo"] /\ ativos' = ativos + 1
           /\ UNCHANGED <<criado, readmitido, velho, incapaz>>
  <2>1. /\ status' \in [Pools -> Statuses] /\ status'[p] = "ativo"
        /\ \A q \in Pools : q # p => status'[q] = status[q]
    BY <1>1, <1>5 DEF Statuses
  <2>2. OnePoolPerToken'
    BY <1>1, <2>1, TokensKept DEF IInv
  <2>3. HeldRowStillAsks'
    <3>1. \A q \in NeedsVerification : q \in Pools /\ q # p
      BY <1>1 DEF NeedsVerification
    <3> QED
      BY <1>2, <1>5, <2>1, <3>1, HeldRowKept DEF IInv
  <2>4. Paired'
    BY <1>1, <1>2, <2>1, RecordsKept
  <2>5. TypeOK'
    BY SMTT(30), <1>1, <1>2, <1>5, <2>1 DEF IInv, TypeOK
  <2>6. Cycle'
    <3>1. fila' \subseteq Esperando'
      BY <1>1, <1>5, <2>1 DEF Esperando, In
    <3> QED
      BY <1>1, <1>2, <3>1 DEF IInv, Cycle
  <2> QED
    BY <2>2, <2>3, <2>4, <2>5, <2>6 DEF IInv
<1> QED
  BY <1>3, <1>4, <1>5

-----------------------------------------------------------------------------
(* The refresh and the ways a pool leaves the watch.                        *)

LEMMA RefreshCandlesPreserves == ASSUME IInv, NEW p \in Pools, RefreshCandles(p) PROVE IInv'
<1> USE DEF RefreshCandles
<1>1. OnePoolPerToken' /\ HeldRowStillAsks' /\ Paired'
  BY RowsKept DEF records, history
<1>2. TypeOK'
  <2>1. aberto' \subseteq Pools \X Versions
    BY DEF IInv, TypeOK
  <2>2. incapaz' \subseteq Pools
    BY DEF IInv, TypeOK
  <2> QED
    BY <2>1, <2>2 DEF IInv, TypeOK, table, records, history
<1>3. Cycle'
  BY DEF IInv, Cycle, In, table, records
<1> QED
  BY <1>1, <1>2, <1>3 DEF IInv

LEMMA GivenUpPreserves ==
  ASSUME IInv, NEW p \in Pools, RefreshGivesUp(p) \/ RetireOld(p) \/ RetireStagnant(p)
  PROVE  IInv'
<1> USE DEF RefreshGivesUp, RetireOld, RetireStagnant
<1>1. /\ Encerrar(p) /\ pc' = pc /\ pc \in {"atualizar", "aposentar", "estagnados"}
      /\ pc = "atualizar" => p \in fila
      /\ fila' \in {fila, fila \ {p}} /\ (pc = "atualizar" => fila' = fila \ {p})
      /\ UNCHANGED <<tentativas, aberto, nunca, conferidos, vencidos, verificando, ativos, restam,
                     emcurso, rotacoes, iniciado, cortes, cortesNoPar>>
  BY DEF records, locals, history
<1>2. p \in In("ativo")
  BY DEF IInv, Cycle, TooOld
<1>3. OnePoolPerToken' /\ HeldRowStillAsks' /\ Paired'
  BY <1>1, <1>2, PoolEnds
<1>4. /\ status' \in [Pools -> Statuses]
      /\ \A q \in Pools : q # p => status'[q] = status[q]
  BY <1>1 DEF Encerrar, IInv, TypeOK, Statuses
<1>5. TypeOK'
  <2>1. {criado, readmitido, incapaz, velho, fila}' \subseteq SUBSET Pools
    BY <1>1 DEF Encerrar, IInv, TypeOK
  <2> QED
    BY <1>1, <1>4, <2>1 DEF IInv, TypeOK
<1>6. Cycle'
  BY <1>1, <1>4 DEF IInv, Cycle, In
<1> QED
  BY <1>3, <1>5, <1>6 DEF IInv

LEMMA PassesEndPreserves ==
  ASSUME IInv, RetireOldEnd \/ RetireStagnantEnd \/ RotateEnd
  PROVE  IInv'
<1> USE DEF RetireOldEnd, RetireStagnantEnd, RotateEnd
<1>1. OnePoolPerToken' /\ HeldRowStillAsks' /\ Paired'
  BY RowsKept DEF records, locals, history
<1>2. TypeOK'
  <2>1. restam' \in Nat
    <3>1. Cardinality(Esperando) \in Nat
      <4>1. Esperando \subseteq Pools
        BY DEF Esperando, In
      <4> QED
        BY <4>1, PoolsCounted
    <3>2. RotationsPerHour \in Nat /\ rotacoes \in Nat /\ restam \in Nat
      BY LimitsAssumption DEF IInv, TypeOK
    <3> QED
      BY <3>1, <3>2 DEF locals
  <2> QED
    BY <2>1 DEF IInv, TypeOK, table, records, locals, history
<1>3. Cycle'
  BY DEF IInv, Cycle, table, records, locals
<1> QED
  BY <1>1, <1>2, <1>3 DEF IInv

-----------------------------------------------------------------------------
(* The rotation and its record.                                             *)

\* The pool that is put to sleep has no record to have until the second write.
LEMMA RotateRowPreserves == ASSUME IInv, NEW p \in Pools, RotateRow(p) PROVE IInv'
<1> USE DEF RotateRow
<1>1. /\ status \in [Pools -> Statuses] /\ status[p] = "ativo" /\ p \notin NeedsVerification
      /\ emcurso = NoPool /\ emcurso' = p /\ pc = "rotacionar" /\ pc' = "registrar"
  BY DEF IInv, TypeOK, Cycle, In, NeedsVerification
<1>2. /\ status' \in [Pools -> Statuses] /\ status'[p] = "dormente"
      /\ \A q \in Pools : q # p => status'[q] = status[q]
  BY <1>1 DEF Statuses
<1>3. TypeOK'
  BY <1>2 DEF IInv, TypeOK, records, history
<1>4. OnePoolPerToken'
  BY <1>1, <1>2, TokensKept DEF IInv
<1>5. HeldRowStillAsks'
  <2>1. \A q \in NeedsVerification : q \in Pools /\ q # p
    BY <1>1 DEF NeedsVerification
  <2> QED
    BY <1>2, <2>1, HeldRowKept DEF IInv
<1>6. Paired'
  <2>1. ASSUME NEW q \in Pools PROVE OpenRecords(q)' = OpenRecords(q)
    BY DEF OpenRecords, records
  <2>2. ASSUME NEW q \in Pools PROVE Expected(q)' = Expected(q)
    <3>1. CASE q = p
      BY <1>1, <3>1, PoolsAssumption DEF Expected
    <3>2. CASE q # p
      BY <1>1, <1>2, <3>2, PoolsAssumption DEF Expected
    <3> QED
      BY <3>1, <3>2
  <2>3. Unpaired' = Unpaired
    BY <2>1, <2>2 DEF Unpaired
  <2> QED
    BY <2>3, PairedKept DEF IInv, TypeOK, history
<1>7. Cycle'
  BY <1>1, <1>2 DEF Cycle
<1> QED
  BY <1>3, <1>4, <1>5, <1>6, <1>7 DEF IInv

LEMMA OpenRecordsAreOccurrences ==
  \A p : OpenRecords(p) = Occurrences(nunca, p) + Occurrences(conferidos, p)
BY DEF OpenRecords, Occurrences

LEMMA RotateRecordPreserves == ASSUME IInv, RotateRecord PROVE IInv'
<1> USE DEF RotateRecord
<1>1. /\ emcurso \in Pools /\ status[emcurso] = "dormente" /\ restam \in Nat \ {0}
      /\ nunca \in Seq(Pools) /\ conferidos \in Seq(Pools) /\ emcurso' = NoPool
      /\ status' = status /\ conferidos' = conferidos /\ cortesNoPar' = cortesNoPar
  BY DEF IInv, TypeOK, Cycle, table, history
<1>2. nunca' = Append(nunca, emcurso) /\ nunca' \in Seq(Pools)
  BY <1>1
<1>3. TypeOK'
  BY SMTT(30), <1>1, <1>2 DEF IInv, TypeOK, table, history
<1>4. OnePoolPerToken'
  BY <1>1, TokensKept DEF IInv
<1>5. HeldRowStillAsks'
  BY HeldRowKept DEF IInv, table
<1>6. Paired'
  <2>1. ASSUME NEW q \in Pools, q \in Unpaired' PROVE q \in Unpaired
    <3>1. /\ OpenRecords(q)' = Occurrences(nunca', q) + Occurrences(conferidos, q)
          /\ OpenRecords(q) = Occurrences(nunca, q) + Occurrences(conferidos, q)
      BY <1>1, OpenRecordsAreOccurrences DEF OpenRecords, Occurrences
    <3>2. /\ Occurrences(nunca, q) \in Nat /\ Occurrences(conferidos, q) \in Nat
          /\ Occurrences(nunca', q) = Occurrences(nunca, q) + IF emcurso = q THEN 1 ELSE 0
      BY <1>1, <1>2, AppendOccurrences
    <3>3. Expected(q)' = IF status[q] = "dormente" THEN 1 ELSE 0
      BY <1>1, PoolsAssumption DEF Expected
    <3>4. OpenRecords(q)' # Expected(q)'
      BY <2>1 DEF Unpaired
    <3>5. CASE q = emcurso
      <4>1. OpenRecords(q)' = OpenRecords(q) + 1 /\ OpenRecords(q) \in Nat
        BY <3>1, <3>2, <3>5
      <4>2. Expected(q) = 0 /\ Expected(q)' = 1
        BY <1>1, <3>3, <3>5 DEF Expected
      <4> QED
        BY <3>4, <4>1, <4>2 DEF Unpaired
    <3>6. CASE q # emcurso
      <4>1. OpenRecords(q)' = OpenRecords(q)
        BY <3>1, <3>2, <3>6
      <4>2. Expected(q)' = Expected(q)
        BY <3>3, <3>6 DEF Expected
      <4> QED
        BY <3>4, <4>1, <4>2 DEF Unpaired
    <3> QED
      BY <3>5, <3>6
  <2>2. Unpaired' \subseteq Unpaired
    BY <2>1 DEF Unpaired
  <2> QED
    BY <1>1, <2>2, PairedKept DEF IInv, TypeOK
<1>7. Cycle'
  BY <1>1 DEF Cycle
<1> QED
  BY <1>3, <1>4, <1>5, <1>6, <1>7 DEF IInv

-----------------------------------------------------------------------------
(* The recheck, the readmission and the record that is closed.              *)

LEMMA NextTickPreserves == ASSUME IInv, pc = "rechecar", NextTick PROVE IInv'
<1> USE DEF NextTick
<1>1. OnePoolPerToken' /\ HeldRowStillAsks' /\ Paired'
  BY RowsKept DEF records, locals, history
<1>2. TypeOK'
  BY DEF IInv, TypeOK, table, records, locals, history
<1>3. Cycle'
  BY DEF IInv, Cycle, table, records, locals
<1> QED
  BY <1>1, <1>2, <1>3 DEF IInv

\* The record that is stamped goes from the head of one queue to the end of the
\* other: nobody has more or fewer records than before.
LEMMA StampMoves ==
  ASSUME TypeOK, NEW p \in Pools, Due # <<>>, Head(Due) = p, Stamp(p)
  PROVE  /\ nunca' \in Seq(Pools) /\ conferidos' \in Seq(Pools)
         /\ vencidos' \in 0 .. Len(conferidos')
         /\ conferidos' # <<>> /\ conferidos'[Len(conferidos')] = p
         /\ \A q \in Pools : OpenRecords(q)' = OpenRecords(q)
<1>1. /\ nunca \in Seq(Pools) /\ conferidos \in Seq(Pools) /\ vencidos \in 0 .. Len(conferidos)
      /\ Len(conferidos) \in Nat
  BY DEF TypeOK
<1>2. \A q : OpenRecords(q)' = Occurrences(nunca', q) + Occurrences(conferidos', q)
  BY DEF OpenRecords, Occurrences
<1>3. CASE nunca # <<>>
  <2>1. /\ nunca' = Tail(nunca) /\ conferidos' = Append(conferidos, p) /\ vencidos' = vencidos
    BY <1>3 DEF Stamp
  <2>2. p = Head(nunca)
    <3>1. Due = nunca \o SubSeq(conferidos, 1, vencidos) /\ SubSeq(conferidos, 1, vencidos) \in Seq(Pools)
      BY <1>1 DEF Due
    <3>2. Head(nunca \o SubSeq(conferidos, 1, vencidos)) = Head(nunca)
      BY <1>1, <1>3, <3>1
    <3> QED
      BY <3>1, <3>2
  <2>3. ASSUME NEW q \in Pools PROVE OpenRecords(q)' = OpenRecords(q)
    <3>1. /\ Occurrences(Tail(nunca), q) \in Nat
          /\ Occurrences(nunca, q) = Occurrences(Tail(nunca), q) + IF p = q THEN 1 ELSE 0
      BY <1>1, <1>3, <2>2, TailOccurrences
    <3>2. /\ Occurrences(conferidos, q) \in Nat
          /\ Occurrences(Append(conferidos, p), q) = Occurrences(conferidos, q) + IF p = q THEN 1 ELSE 0
      BY <1>1, AppendOccurrences
    <3> QED
      BY <1>2, <2>1, <3>1, <3>2, OpenRecordsAreOccurrences
  <2>4. /\ nunca' \in Seq(Pools) /\ conferidos' \in Seq(Pools)
        /\ Len(conferidos') = Len(conferidos) + 1 /\ conferidos'[Len(conferidos')] = p
    BY <1>1, <1>3, <2>1
  <2>5. vencidos' \in 0 .. Len(conferidos') /\ conferidos' # <<>>
    BY <1>1, <2>1, <2>4
  <2> QED
    BY <2>3, <2>4, <2>5
<1>4. CASE nunca = <<>>
  <2>1. vencidos > 0 /\ conferidos # <<>>
    <3>1. SUFFICES ASSUME vencidos = 0 \/ conferidos = <<>> PROVE FALSE
      BY <1>1
    <3>2. vencidos = 0
      BY <1>1, <3>1
    <3>3. Due = <<>>
      BY <1>1, <1>4, <3>2 DEF Due
    <3> QED
      BY <3>3
  <2>2. p = Head(conferidos)
    <3>1. SubSeq(conferidos, 1, vencidos) \in Seq(Pools) /\ Len(SubSeq(conferidos, 1, vencidos)) = vencidos
          /\ SubSeq(conferidos, 1, vencidos)[1] = conferidos[1]
      BY <1>1, <2>1, SubSeqProperties
    <3>2. Due = SubSeq(conferidos, 1, vencidos)
      BY <1>4, <3>1 DEF Due
    <3> QED
      BY <1>1, <2>1, <3>1, <3>2
  <2>3. /\ nunca' = nunca /\ conferidos' = Append(Tail(conferidos), p) /\ vencidos' = vencidos - 1
    BY <1>4 DEF Stamp
  <2>4. Tail(conferidos) \in Seq(Pools) /\ Len(Tail(conferidos)) = Len(conferidos) - 1
    BY <1>1, <2>1
  <2>5. ASSUME NEW q \in Pools PROVE OpenRecords(q)' = OpenRecords(q)
    <3>1. /\ Occurrences(Tail(conferidos), q) \in Nat
          /\ Occurrences(conferidos, q) = Occurrences(Tail(conferidos), q) + IF p = q THEN 1 ELSE 0
      BY <1>1, <2>1, <2>2, TailOccurrences
    <3>2. Occurrences(Append(Tail(conferidos), p), q)
             = Occurrences(Tail(conferidos), q) + IF p = q THEN 1 ELSE 0
      <4>1. \A s \in Seq(Pools) :
               Occurrences(Append(s, p), q) = Occurrences(s, q) + IF p = q THEN 1 ELSE 0
        BY AppendOccurrences
      <4> QED
        BY <2>4, <4>1
    <3>3. Occurrences(conferidos', q) = Occurrences(conferidos, q)
      BY <2>3, <3>1, <3>2
    <3>4. OpenRecords(q)' = Occurrences(nunca, q) + Occurrences(conferidos, q)
      BY <1>2, <2>3, <3>3
    <3> QED
      BY <3>4, OpenRecordsAreOccurrences
  <2>6. /\ conferidos' \in Seq(Pools) /\ Len(conferidos') = Len(conferidos)
        /\ conferidos'[Len(conferidos')] = p
    BY <1>1, <2>3, <2>4
  <2>7. vencidos' \in 0 .. Len(conferidos') /\ conferidos' # <<>>
    BY <1>1, <2>1, <2>3, <2>6
  <2> QED
    BY <1>1, <2>3, <2>5, <2>6, <2>7
<1> QED
  BY <1>3, <1>4

LEMMA RecheckAnswerPreserves == ASSUME IInv, NEW p \in Pools, RecheckAnswer(p) PROVE IInv'
<1>1. /\ pc = "rechecar" /\ emcurso = NoPool /\ status[p] = "dormente"
      /\ Due # <<>> /\ Head(Due) = p /\ Stamp(p)
      /\ \/ pc' = "promover" /\ emcurso' = NoPool
         \/ pc' = "readmitir" /\ emcurso' = p
      /\ status' = status
      /\ UNCHANGED <<criado, tentativas, readmitido, incapaz, velho, aberto, verificando, fila,
                     ativos, restam, rotacoes, iniciado, cortes, cortesNoPar>>
  BY DEF IInv, Cycle, RecheckAnswer, table, history
<1>2. /\ nunca' \in Seq(Pools) /\ conferidos' \in Seq(Pools)
      /\ vencidos' \in 0 .. Len(conferidos')
      /\ conferidos' # <<>> /\ conferidos'[Len(conferidos')] = p
      /\ \A q \in Pools : OpenRecords(q)' = OpenRecords(q)
  BY <1>1, StampMoves DEF IInv
<1>3. TypeOK'
  BY <1>1, <1>2 DEF IInv, TypeOK
<1>4. OnePoolPerToken'
  BY <1>1, TokensKept DEF IInv
<1>5. HeldRowStillAsks'
  BY <1>1, HeldRowKept DEF IInv
<1>6. Paired'
  <2>1. ASSUME NEW q \in Pools PROVE Expected(q)' = Expected(q)
    BY <1>1, PoolsAssumption DEF Expected
  <2>2. Unpaired' = Unpaired
    BY <1>2, <2>1 DEF Unpaired
  <2> QED
    BY <1>1, <2>2, PairedKept DEF IInv, TypeOK
<1>7. Cycle'
  BY <1>1, <1>2 DEF Cycle
<1> QED
  BY <1>3, <1>4, <1>5, <1>6, <1>7 DEF IInv

\* The pool goes back to the queue with its record still open.
LEMMA ReadmitRowPreserves == ASSUME IInv, ReadmitRow PROVE IInv'
<1> USE DEF ReadmitRow
<1>1. /\ emcurso \in Pools /\ status[emcurso] = "dormente" /\ status \in [Pools -> Statuses]
      /\ emcurso' = emcurso /\ emcurso \notin NeedsVerification
      /\ pc = "readmitir" /\ pc' = "fechar_registro"
  BY DEF IInv, TypeOK, Cycle, locals, NeedsVerification
<1>2. /\ status' \in [Pools -> Statuses] /\ status'[emcurso] = "verificado"
      /\ \A q \in Pools : q # emcurso => status'[q] = status[q]
  BY <1>1 DEF Statuses
<1>3. TypeOK'
  BY <1>1, <1>2 DEF IInv, TypeOK, records, locals, history
<1>4. OnePoolPerToken'
  BY <1>1, <1>2, TokensKept DEF IInv
<1>5. HeldRowStillAsks'
  <2>1. \A q \in NeedsVerification : q \in Pools /\ q # emcurso
    BY <1>1 DEF NeedsVerification
  <2> QED
    BY <1>2, <2>1, HeldRowKept DEF IInv
<1>6. Paired'
  <2>1. ASSUME NEW q \in Pools PROVE OpenRecords(q)' = OpenRecords(q)
    BY DEF OpenRecords, records
  <2>2. ASSUME NEW q \in Pools PROVE Expected(q)' = Expected(q)
    BY <1>1, <1>2 DEF Expected
  <2>3. Unpaired' = Unpaired
    BY <2>1, <2>2 DEF Unpaired
  <2> QED
    BY <2>3, PairedKept DEF IInv, TypeOK, history
<1>7. Cycle'
  BY <1>1, <1>2 DEF IInv, Cycle, records
<1> QED
  BY <1>3, <1>4, <1>5, <1>6, <1>7 DEF IInv

\* The record that was stamped last is the one of the pool in hand.
LEMMA CloseRecordPreserves == ASSUME IInv, CloseRecord PROVE IInv'
<1> USE DEF CloseRecord
<1> DEFINE front == SubSeq(conferidos, 1, Len(conferidos) - 1)
<1>1. /\ emcurso \in Pools /\ status[emcurso] # "dormente" /\ pc = "fechar_registro"
      /\ conferidos \in Seq(Pools) /\ conferidos # <<>> /\ conferidos[Len(conferidos)] = emcurso
      /\ vencidos \in 0 .. Len(conferidos) /\ nunca' = nunca /\ status' = status
      /\ emcurso' = NoPool /\ conferidos' = front /\ cortesNoPar' = cortesNoPar
  BY DEF IInv, TypeOK, Cycle, table, history
<1>2. /\ front \in Seq(Pools) /\ Len(front) = Len(conferidos) - 1
      /\ \A q : /\ Occurrences(front, q) \in Nat
                /\ Occurrences(conferidos, q)
                      = Occurrences(front, q) + IF emcurso = q THEN 1 ELSE 0
  BY <1>1, FrontOccurrences
<1> HIDE DEF front
<1>3. TypeOK'
  <2>1. vencidos' \in 0 .. Len(conferidos')
    <3>1. Len(conferidos) \in Nat \ {0}
      BY <1>1
    <3>2. vencidos' = IF vencidos = Len(conferidos) THEN vencidos - 1 ELSE vencidos
      OBVIOUS
    <3> QED
      BY <1>1, <1>2, <3>1, <3>2
  <2> QED
    BY <1>1, <1>2, <2>1 DEF IInv, TypeOK, table, history
<1>4. OnePoolPerToken'
  BY <1>1, TokensKept DEF IInv
<1>5. HeldRowStillAsks'
  BY HeldRowKept DEF IInv, table
<1>6. Paired'
  <2>1. ASSUME NEW q \in Pools, q \in Unpaired' PROVE q \in Unpaired
    <3>1. /\ OpenRecords(q)' = Occurrences(nunca, q) + Occurrences(front, q)
          /\ OpenRecords(q) = Occurrences(nunca, q) + Occurrences(conferidos, q)
      BY <1>1, OpenRecordsAreOccurrences DEF OpenRecords, Occurrences
    <3>2. Occurrences(nunca, q) \in Nat
      BY AppendOccurrences DEF IInv, TypeOK
    <3>3. Expected(q)' = IF status[q] = "dormente" THEN 1 ELSE 0
      BY <1>1, PoolsAssumption DEF Expected
    <3>4. OpenRecords(q)' # Expected(q)'
      BY <2>1 DEF Unpaired
    <3>5. CASE q = emcurso
      <4>1. OpenRecords(q) = OpenRecords(q)' + 1 /\ OpenRecords(q)' \in Nat
        BY <1>2, <3>1, <3>2, <3>5
      <4>2. Expected(q) = 1 /\ Expected(q)' = 0
        BY <1>1, <3>3, <3>5 DEF Expected
      <4> QED
        BY <3>4, <4>1, <4>2 DEF Unpaired
    <3>6. CASE q # emcurso
      <4>1. OpenRecords(q)' = OpenRecords(q)
        BY <1>2, <3>1, <3>2, <3>6
      <4>2. Expected(q)' = Expected(q)
        BY <3>3, <3>6 DEF Expected
      <4> QED
        BY <3>4, <4>1, <4>2 DEF Unpaired
    <3> QED
      BY <3>5, <3>6
  <2>2. Unpaired' \subseteq Unpaired
    BY <2>1 DEF Unpaired
  <2> QED
    BY <1>1, <2>2, PairedKept DEF IInv, TypeOK
<1>7. Cycle'
  BY <1>1 DEF Cycle
<1> QED
  BY <1>3, <1>4, <1>5, <1>6, <1>7 DEF IInv

-----------------------------------------------------------------------------
(* Time, and ticks that are cut.                                            *)

LEMMA TimePreserves ==
  ASSUME IInv, (\E p \in Pools : GrowsOld(p)) \/ HourPasses \/ DayPasses
  PROVE  IInv'
<1> USE DEF GrowsOld, HourPasses, DayPasses, BetweenTicks
<1>1. /\ pc \in {"inicio", "promover"} /\ pc' = pc
      /\ UNCHANGED <<status, criado, tentativas, readmitido, incapaz, aberto, nunca, conferidos,
                     verificando, fila, ativos, restam, emcurso, iniciado, cortes, cortesNoPar>>
  BY DEF table, records, locals, history
<1>2. OnePoolPerToken' /\ HeldRowStillAsks' /\ Paired'
  BY <1>1, RowsKept DEF table
<1>3. TypeOK'
  <2>1. velho' \subseteq Pools
    BY DEF IInv, TypeOK
  <2>2. rotacoes' \in Nat
    BY DEF IInv, TypeOK
  <2>3. vencidos' \in 0 .. Len(conferidos)
    <3>1. Len(conferidos) \in Nat /\ vencidos \in 0 .. Len(conferidos)
      BY DEF IInv, TypeOK
    <3> QED
      BY <3>1 DEF records
  <2> QED
    BY <1>1, <2>1, <2>2, <2>3 DEF IInv, TypeOK
<1>4. Cycle'
  BY <1>1 DEF IInv, Cycle
<1> QED
  BY <1>2, <1>3, <1>4 DEF IInv

\* A cut between two writes that belong together leaves at most the pool in hand
\* without its pair; any other cut leaves nobody so.
LEMMA CutPreserves == ASSUME IInv, TickRaises \/ Restart PROVE IInv'
<1> USE DEF TickRaises, Restart, CutTick
<1>1. /\ UNCHANGED <<status, criado, tentativas, readmitido, incapaz, velho, aberto, nunca,
                     conferidos, vencidos>>
      /\ fila' = {} /\ ativos' = 0 /\ restam' = 0 /\ emcurso' = NoPool
      /\ pc' \in {"inicio", "promover"}
      /\ verificando' \in {verificando, NoPool} /\ rotacoes' \in {rotacoes, 0}
      /\ iniciado' \in {iniciado, FALSE}
      /\ cortes' = cortes + 1 /\ cortesNoPar' = cortesNoPar + IF BetweenPair THEN 1 ELSE 0
  BY DEF table, records
<1>2. TypeOK'
  <2>1. cortes' \in Nat /\ cortesNoPar' \in Nat
    <3>1. cortes \in Nat /\ cortesNoPar \in Nat
      BY DEF IInv, TypeOK
    <3>2. cortesNoPar' \in {cortesNoPar, cortesNoPar + 1}
      BY <1>1, <3>1
    <3> QED
      BY <1>1, <3>1, <3>2
  <2>2. iniciado' \in BOOLEAN
    BY <1>1 DEF IInv, TypeOK
  <2>3. {ativos, restam, rotacoes}' \subseteq Nat /\ {verificando, emcurso}' \subseteq Pools \cup {NoPool}
    BY <1>1 DEF IInv, TypeOK
  <2>4. /\ status' \in [Pools -> Statuses] /\ tentativas' \in [Pools -> 0 .. MaxAttempts]
        /\ {criado, readmitido, incapaz, velho, fila}' \subseteq SUBSET Pools
        /\ aberto' \subseteq Pools \X Versions
        /\ nunca' \in Seq(Pools) /\ conferidos' \in Seq(Pools)
        /\ vencidos' \in 0 .. Len(conferidos')
    BY <1>1 DEF IInv, TypeOK
  <2> QED
    BY <1>1, <2>1, <2>2, <2>3, <2>4 DEF TypeOK
<1>3. OnePoolPerToken'
  BY <1>1, TokensKept DEF IInv
<1>4. HeldRowStillAsks'
  BY <1>1 DEF IInv, HeldRowStillAsks, NeedsVerification
<1>5. Paired'
  <2>1. ASSUME NEW q \in Pools PROVE OpenRecords(q)' = OpenRecords(q)
    BY <1>1 DEF OpenRecords
  <2>2. ASSUME NEW q \in Pools
        PROVE  Expected(q)' = IF status[q] = "dormente" THEN 1 ELSE 0
    BY <1>1, PoolsAssumption DEF Expected
  <2>3. CASE BetweenPair
    <3>1. Unpaired' \subseteq Unpaired \cup {emcurso}
      BY <2>1, <2>2 DEF Unpaired, Expected
    <3>2. /\ IsFiniteSet(Unpaired \cup {emcurso})
          /\ Cardinality(Unpaired \cup {emcurso}) <= Cardinality(Unpaired) + 1
          /\ Cardinality(Unpaired \cup {emcurso}) \in Nat
      <4>1. IsFiniteSet(Unpaired) /\ Cardinality(Unpaired) \in Nat
        BY UnpairedFinite
      <4>2. /\ IsFiniteSet(Unpaired \cup {emcurso})
            /\ Cardinality(Unpaired \cup {emcurso})
                  = IF emcurso \in Unpaired THEN Cardinality(Unpaired) ELSE Cardinality(Unpaired) + 1
        BY <4>1, FS_AddElement
      <4> QED
        BY <4>1, <4>2
    <3>3. /\ Cardinality(Unpaired') <= Cardinality(Unpaired \cup {emcurso})
          /\ Cardinality(Unpaired') \in Nat
      BY <3>1, <3>2, FS_Subset, FS_CardinalityType
    <3>4. Cardinality(Unpaired) <= cortesNoPar /\ cortesNoPar \in Nat
      BY DEF IInv, Paired, TypeOK
    <3>5. cortesNoPar' = cortesNoPar + 1
      BY <1>1, <2>3
    <3> QED
      BY <3>2, <3>3, <3>4, <3>5, UnpairedFinite DEF Paired
  <2>4. CASE ~BetweenPair
    <3>1. ASSUME NEW q \in Pools PROVE Expected(q) = IF status[q] = "dormente" THEN 1 ELSE 0
      BY <2>4, PoolsAssumption DEF IInv, Cycle, Expected, BetweenPair
    <3>2. Unpaired' = Unpaired
      BY <2>1, <2>2, <3>1 DEF Unpaired
    <3>3. cortesNoPar' = cortesNoPar
      BY <1>1, <2>4 DEF IInv, TypeOK
    <3> QED
      BY <3>2, <3>3, PairedKept DEF IInv, TypeOK
  <2> QED
    BY <2>3, <2>4
<1>6. Cycle'
  BY <1>1 DEF Cycle
<1> QED
  BY <1>2, <1>3, <1>4, <1>5, <1>6 DEF IInv

-----------------------------------------------------------------------------

LEMMA TickPreserves == ASSUME IInv, Tick PROVE IInv'
<1>1. CASE StartupMark \/ StartupPools \/ StartupTrades
  BY <1>1, StartupPreserves
<1>2. CASE PromoteBegin \/ PromoteEnd \/ RefreshEnd
  BY <1>2, LoopsPreserve
<1>3. CASE RetireOldEnd \/ RetireStagnantEnd \/ RotateEnd
  BY <1>3, PassesEndPreserves
<1>4. CASE RecheckNothing \/ RecheckFails
  BY <1>4, NextTickPreserves DEF RecheckNothing, RecheckFails
<1>5. CASE RotateRecord
  BY <1>5, RotateRecordPreserves
<1>6. CASE ReadmitRow
  BY <1>6, ReadmitRowPreserves
<1>7. CASE CloseRecord
  BY <1>7, CloseRecordPreserves
<1>8. ASSUME NEW p \in Pools,
             \/ PromoteOne(p) \/ RefreshCandles(p) \/ RefreshGivesUp(p)
             \/ RetireOld(p) \/ RetireStagnant(p) \/ RotateRow(p) \/ RecheckAnswer(p)
      PROVE  IInv'
  BY <1>8, PromoteOnePreserves, RefreshCandlesPreserves, GivenUpPreserves, RotateRowPreserves,
     RecheckAnswerPreserves
<1> QED
  BY <1>1, <1>2, <1>3, <1>4, <1>5, <1>6, <1>7, <1>8 DEF Tick

LEMMA NextInvariant == ASSUME IInv, [Next]_vars PROVE IInv'
<1>1. CASE Tick
  BY <1>1, TickPreserves
<1>2. CASE Verifier
  BY <1>2, VerifierPreserves
<1>3. CASE \E p \in Pools : Offer(p)
  BY <1>3, OfferPreserves
<1>4. CASE (\E p \in Pools : GrowsOld(p)) \/ HourPasses \/ DayPasses
  BY <1>4, TimePreserves
<1>5. CASE TickRaises \/ Restart
  BY <1>5, CutPreserves
<1>6. CASE UNCHANGED vars
  <2>1. UNCHANGED <<status, criado, tentativas, readmitido, incapaz, velho, aberto, nunca,
                    conferidos, vencidos, verificando, pc, fila, ativos, restam, emcurso, rotacoes,
                    iniciado, cortes, cortesNoPar>>
    BY <1>6 DEF vars, table, records, locals, history
  <2>2. OnePoolPerToken' /\ HeldRowStillAsks' /\ Paired'
    BY <2>1, RowsKept DEF table
  <2>3. TypeOK'
    BY <2>1 DEF IInv, TypeOK
  <2>4. Cycle'
    BY <2>1 DEF IInv, Cycle, Esperando, In
  <2> QED
    BY <2>2, <2>3, <2>4 DEF IInv
<1> QED
  BY <1>1, <1>2, <1>3, <1>4, <1>5, <1>6 DEF Next

LEMMA Invariance == Spec => []IInv
BY InitInvariant, NextInvariant, PTL DEF Spec

-----------------------------------------------------------------------------

\* The columns of pr_pools, the dormant records and the locals of the cycle hold
\* what their comments say; no count of verifications exceeds VERIFY_MAX_ATTEMPTS.
THEOREM TypeCorrect == Spec => []TypeOK
BY Invariance, PTL DEF IInv

\* offer and pr_pool_for_mint let one pool of a token in, and neither the verdicts
\* of the lineage thread nor the dormant list bring a second one back.
THEOREM TokenHasOnePool == Spec => []OnePoolPerToken
BY Invariance, PTL DEF IInv

\* LineageVerifier.step writes its verdict minutes after it read the row, without
\* looking at it again: no step of tick has moved the row in the meantime.
THEOREM VerdictMeetsItsRow == Spec => []HeldRowStillAsks
BY Invariance, PTL DEF IInv

\* Dormant pools and open dormant records pair off, whatever rotations, rechecks
\* and readmissions interleave; a tick cut between two writes costs one pair.
THEOREM DormantsHaveTheirRecord == Spec => []RecordsMatchPools
<1>1. IInv => RecordsMatchPools
  <2> SUFFICES ASSUME IInv PROVE RecordsMatchPools
    OBVIOUS
  <2> DEFINE W == {p \in Pools \ {emcurso} :
                      OpenRecords(p) # (IF status[p] = "dormente" THEN 1 ELSE 0)}
  <2>1. W \subseteq Unpaired
    BY DEF Unpaired, Expected
  <2>2. Cardinality(W) <= Cardinality(Unpaired) /\ Cardinality(W) \in Nat
    <3> HIDE DEF W
    <3> QED
      BY <2>1, UnpairedFinite, FS_Subset, FS_CardinalityType
  <2>3. Cardinality(Unpaired) <= cortesNoPar /\ cortesNoPar \in Nat
    BY DEF IInv, Paired, TypeOK
  <2>4. Cardinality(W) <= cortesNoPar
    <3> HIDE DEF W
    <3> QED
      BY <2>2, <2>3, UnpairedFinite
  <2> QED
    BY <2>4 DEF RecordsMatchPools
<1> QED
  BY <1>1, Invariance, PTL

=============================================================================
