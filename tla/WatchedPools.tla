---------------------------- MODULE WatchedPools ----------------------------
(***************************************************************************)
(* The pools POS-RUNNER follows (signals_mvp/pos_runner/live.py).  A pool   *)
(* is offered by the radar, has its lineage verified by a thread of its     *)
(* own, is followed while it has one of max_pools slots, may be rotated to  *)
(* the dormant list and be readmitted from it, and is retired in the end.   *)
(* Two threads share the table pr_pools: the cycle (tick) and the lineage   *)
(* verifier.  Every call of the storage commits on its own, so the process  *)
(* may stop, or the tick may raise, between any two of them.                *)
(***************************************************************************)
EXTENDS Naturals, Sequences, FiniteSets

CONSTANTS
    Pools,           \* the pools the radar may show
    MintOf,          \* [Pools -> tokens]
    Legacy,          \* pools an earlier version of the bot left active
    Versions,        \* the paper versions switched on, among V0, V1, V2, V3
    MaxPools,        \* settings.max_pools
    QueueMax,        \* QUEUE_MAX
    MaxAttempts,     \* VERIFY_MAX_ATTEMPTS
    RotationsPerHour,\* rotacao_max_por_hora
    MaxCuts,         \* bound: how many ticks are cut short
    NoPool

ASSUME PoolsAssumption ==
    /\ IsFiniteSet(Pools)
    /\ NoPool \notin Pools
    /\ Legacy \subseteq Pools
    /\ \A p, q \in Legacy : MintOf[p] = MintOf[q] => p = q
    /\ Cardinality(Legacy) <= MaxPools
    /\ Versions \subseteq {"V0", "V1", "V2", "V3"}

ASSUME LimitsAssumption ==
    {MaxPools, QueueMax, MaxAttempts, RotationsPerHour, MaxCuts} \subseteq Nat

VARIABLES
    status,      \* pr_pools.status, "fora" while the pool has no row
    criado,      \* the pools whose info holds criado_ts
    tentativas,  \* info.tentativas: verifications begun and written
    readmitido,  \* the pools whose info holds readmitido_dormente
    incapaz,     \* sem_fase_desde beyond its limit and last stored candle below the floor
    velho,       \* the pools older than idade_max_dias
    aberto,      \* open paper trades, as <<pool, version>>
    nunca,       \* open dormant records never rechecked, oldest first
    conferidos,  \* open dormant records rechecked once, least recently first
    vencidos,    \* how many of conferidos were rechecked 24 h ago or more
    verificando, \* the row the lineage thread has read and not yet written
    pc,          \* where the cycle thread is in the tick
    fila,        \* the rows the running loop of the tick still has to visit
    ativos,      \* the local count of _promote
    restam,      \* how many rotations this tick may still do
    emcurso,     \* the pool between two writes that belong together
    rotacoes,    \* _rotacoes_recentes: rotations of the last hour, in memory
    iniciado,    \* version_start is not None
    cortes,      \* history: ticks cut short
    cortesNoPar  \* history: the ones cut between two writes that belong together

table   == <<status, criado, tentativas, readmitido>>
records == <<nunca, conferidos, vencidos>>
locals  == <<fila, ativos, restam, emcurso>>
history == <<cortes, cortesNoPar>>
vars == <<table, incapaz, velho, aberto, records, verificando, pc, locals,
          rotacoes, iniciado, history>>

Statuses == {"fora", "pendente", "verificado", "ativo", "dormente", "encerrado", "rejeitado"}

In(s) == {p \in Pools : status[p] = s}

\* Mutant of Esperando: whatever is verified is promoted.
EsperandoUndated == In("verificado")

\* A row of the queue that can be promoted: its token's creation date is known.
Esperando == In("verificado") \cap criado

\* The pool is given up for good: nothing asks again what its age, its candles
\* and the info of its row say of it.
Encerrar(p) ==
    /\ status' = [status EXCEPT ![p] = "encerrado"]
    /\ velho' = velho \ {p}
    /\ incapaz' = incapaz \ {p}
    /\ criado' = criado \ {p}
    /\ readmitido' = readmitido \ {p}

HasTrade(p, vs) == \E v \in vs \cap Versions : <<p, v>> \in aberto

TypeOK ==
    /\ status \in [Pools -> Statuses]
    /\ tentativas \in [Pools -> 0..MaxAttempts]
    /\ {criado, readmitido, incapaz, velho, fila} \subseteq SUBSET Pools
    /\ aberto \subseteq Pools \X Versions
    /\ nunca \in Seq(Pools) /\ conferidos \in Seq(Pools)
    /\ vencidos \in 0..Len(conferidos)
    /\ {verificando, emcurso} \subseteq Pools \cup {NoPool}
    /\ pc \in {"inicio", "inicio_pools", "inicio_trades", "promover", "promovendo",
               "atualizar", "aposentar", "estagnados", "rotacionar", "registrar",
               "rechecar", "readmitir", "fechar_registro"}
    /\ {ativos, restam, rotacoes, cortes, cortesNoPar} \subseteq Nat
    /\ iniciado \in BOOLEAN

Init ==
    /\ status = [p \in Pools |-> IF p \in Legacy THEN "ativo" ELSE "fora"]
    /\ tentativas = [p \in Pools |-> 0]
    /\ criado = {} /\ readmitido = {} /\ incapaz = {} /\ velho = {}
    /\ aberto \in SUBSET (Legacy \X Versions)
    /\ nunca = <<>> /\ conferidos = <<>> /\ vencidos = 0
    /\ verificando = NoPool /\ emcurso = NoPool
    /\ pc = "inicio" /\ fila = {} /\ ativos = 0 /\ restam = 0
    /\ rotacoes = 0 /\ iniciado = FALSE
    /\ cortes = 0 /\ cortesNoPar = 0
-----------------------------------------------------------------------------
(* The lineage thread: LineageVerifier.step.  The row is read, the RPC      *)
(* answers minutes later, and the verdict is written over the row.          *)

NeedsVerification ==
    {p \in Pools : status[p] = "pendente" \/ (status[p] = "verificado" /\ p \notin criado)}

\* A row never checked comes first; which of the others is ready depends on
\* its backoff, so any of them may be next.
VerifierTake(p) ==
    /\ verificando = NoPool
    /\ p \in NeedsVerification
    /\ tentativas[p] = 0 \/ \A q \in NeedsVerification : tentativas[q] > 0
    /\ verificando' = p
    /\ UNCHANGED <<table, incapaz, velho, aberto, records, pc, locals, rotacoes,
                   iniciado, history>>

Verdict(novo, n) ==
    /\ verificando # NoPool
    /\ status' = [status EXCEPT ![verificando] = novo]
    /\ tentativas' = [tentativas EXCEPT ![verificando] = n]
    /\ verificando' = NoPool
    /\ UNCHANGED <<readmitido, incapaz, velho, aberto, records, pc, locals, rotacoes,
                   iniciado, history>>

\* A decided row is never verified again, so its count is not kept.
VerifierAccepts == Verdict("verificado", 0) /\ criado' = criado \cup {verificando}
VerifierRejects == Verdict("rejeitado", 0) /\ UNCHANGED criado

\* Mutant of VerifierError: the attempt is not written.
VerifierErrorUncounted ==
    /\ verificando # NoPool
    /\ Verdict(status[verificando], tentativas[verificando])
    /\ UNCHANGED criado

\* The RPC failed: the row waits for its next attempt until they are used up.
VerifierError ==
    /\ verificando # NoPool
    /\ LET n == tentativas[verificando] + 1
       IN IF n >= MaxAttempts THEN Verdict("rejeitado", 0)
          ELSE Verdict(status[verificando], n)
    /\ UNCHANGED criado

Verifier == (\E p \in Pools : VerifierTake(p)) \/ VerifierAccepts \/ VerifierRejects \/ VerifierError
-----------------------------------------------------------------------------
(* The start of the first tick: _startup.                                   *)

\* The version is marked as begun before anything else is done; V0 trades of
\* another version are given up.
StartupMark ==
    /\ pc = "inicio"
    /\ iniciado' = TRUE
    /\ \/ UNCHANGED aberto
       \/ aberto' = {t \in aberto : t[2] # "V0"}
    /\ pc' = "inicio_pools"
    /\ UNCHANGED <<table, incapaz, velho, records, verificando, locals, rotacoes, history>>

\* A pool without the creation date goes back to the verifier.
StartupPools ==
    /\ pc = "inicio_pools"
    /\ status' = [p \in Pools |-> IF status[p] = "ativo" /\ p \notin criado
                                  THEN "verificado" ELSE status[p]]
    /\ pc' = "inicio_trades"
    /\ UNCHANGED <<criado, tentativas, readmitido, incapaz, velho, aberto, records,
                   verificando, locals, rotacoes, iniciado, history>>

\* V1, V2 and V3: other version, given up; late and not followed, lost offline.
StartupTrades ==
    /\ pc = "inicio_trades"
    /\ \E outra \in SUBSET (Versions \ {"V0"}), tarde \in SUBSET aberto :
          aberto' = {t \in aberto : \/ t[2] = "V0"
                                    \/ t[2] \notin outra /\ (t \notin tarde \/ status[t[1]] = "ativo")}
    /\ pc' = "promover"
    /\ UNCHANGED <<table, incapaz, velho, records, verificando, locals, rotacoes,
                   iniciado, history>>
-----------------------------------------------------------------------------
(* Discovery: offer, called by the engine before tick and by _discover.     *)

Queued == Cardinality(In("pendente") \cup In("verificado"))

\* Mutant of KnownToken: only pools in the queue or in the watch are looked at.
KnownTokenInUse(p) == \E q \in Pools : /\ MintOf[q] = MintOf[p]
                                       /\ status[q] \in {"pendente", "verificado", "ativo"}

\* pr_pool_for_mint: a pool of the token that was not rejected.
KnownToken(p) == \E q \in Pools : /\ MintOf[q] = MintOf[p]
                                  /\ status[q] \notin {"fora", "rejeitado"}

Offer(p) ==
    /\ pc \in {"inicio", "promover", "atualizar"}
    /\ p \notin velho
    /\ status[p] = "fora" /\ ~KnownToken(p)
    /\ Queued < QueueMax
    /\ status' = [status EXCEPT ![p] = "pendente"]
    /\ UNCHANGED <<criado, tentativas, readmitido, incapaz, velho, aberto, records,
                   verificando, pc, locals, rotacoes, iniciado, history>>
-----------------------------------------------------------------------------
(* _promote: the waiting rows are read once and visited in order; a         *)
(* readmitted pool comes before the new ones, the market cap orders the     *)
(* rest.                                                                    *)

PromoteBegin ==
    /\ pc = "promover"
    /\ fila' = Esperando
    /\ ativos' = Cardinality(In("ativo"))
    /\ pc' = "promovendo"
    /\ UNCHANGED <<table, incapaz, velho, aberto, records, verificando, restam, emcurso,
                   rotacoes, iniciado, history>>

\* The row the loop visits: too old, it leaves the queue; else it takes a slot
\* if there is one.
PromoteOne(p) ==
    /\ pc = "promovendo" /\ p \in fila
    /\ p \in readmitido \/ fila \cap readmitido = {}
    /\ fila' = fila \ {p}
    /\ \/ /\ p \in velho
          /\ Encerrar(p)
          /\ UNCHANGED ativos
       \/ /\ p \notin velho /\ ativos >= MaxPools
          /\ UNCHANGED <<status, criado, readmitido, ativos, velho, incapaz>>
       \/ /\ p \notin velho /\ ativos < MaxPools
          /\ status' = [status EXCEPT ![p] = "ativo"]
          /\ ativos' = ativos + 1
                /\ UNCHANGED <<criado, readmitido, velho, incapaz>>
    /\ UNCHANGED <<tentativas, aberto, records,
                   verificando, pc, restam, emcurso, rotacoes, iniciado, history>>

PromoteEnd ==
    /\ pc = "promovendo" /\ fila = {}
    /\ fila' = In("ativo")
    /\ pc' = "atualizar"
    /\ UNCHANGED <<table, incapaz, velho, aberto, records, verificando, ativos, restam, emcurso,
                   rotacoes, iniciado, history>>
-----------------------------------------------------------------------------
(* _refresh_safe, as far as the watch is concerned: candles arrive and open  *)
(* or close paper trades, or the pool is given up.                          *)

\* New candles; whether the pool is then incapable is theirs to say.
RefreshCandles(p) ==
    /\ pc = "atualizar" /\ p \in fila
    /\ fila' = fila \ {p}
    /\ \E vs \in SUBSET Versions :
          aberto' = {t \in aberto : t[1] # p} \cup ({p} \X vs)
    /\ \/ incapaz' = incapaz \cup {p}
       \/ incapaz' = incapaz \ {p}
    /\ UNCHANGED <<table, velho, records, verificando, pc, ativos, restam, emcurso,
                   rotacoes, iniciado, history>>

\* The third 404, or a quote with no USD reference: no trade is asked about.
RefreshGivesUp(p) ==
    /\ pc = "atualizar" /\ p \in fila
    /\ fila' = fila \ {p}
    /\ Encerrar(p)
    /\ UNCHANGED <<tentativas, aberto, records, verificando,
                   pc, ativos, restam, emcurso, rotacoes, iniciado, history>>

\* What is left of the watch was not due, did not answer, or the calls of the
\* tick were used up.
RefreshEnd ==
    /\ pc = "atualizar"
    /\ fila' = {}
    /\ pc' = "aposentar"
    /\ UNCHANGED <<table, incapaz, velho, aberto, records, verificando, ativos, restam, emcurso,
                   rotacoes, iniciado, history>>
-----------------------------------------------------------------------------
(* _retire and _retire_estagnado.                                           *)

TooOld == {p \in In("ativo") \cap velho : ~HasTrade(p, {"V0"})}

RetireOld(p) ==
    /\ pc = "aposentar" /\ p \in TooOld
    /\ Encerrar(p)
    /\ UNCHANGED <<tentativas, aberto, records, verificando,
                   pc, locals, rotacoes, iniciado, history>>

RetireOldEnd ==
    /\ pc = "aposentar" /\ TooOld = {}
    /\ pc' = "estagnados"
    /\ UNCHANGED <<table, incapaz, velho, aberto, records, verificando, locals, rotacoes,
                   iniciado, history>>

\* Whether the pool stagnated is for its candles to say; here it did.
RetireStagnant(p) ==
    /\ pc = "estagnados" /\ p \in In("ativo")
    /\ ~HasTrade(p, {"V1", "V2"})
    /\ Encerrar(p)
    /\ UNCHANGED <<tentativas, aberto, records, verificando,
                   pc, locals, rotacoes, iniciado, history>>

\* The waiting rows are counted once for the rotation that follows.
RetireStagnantEnd ==
    /\ pc = "estagnados"
    /\ restam' = IF rotacoes >= RotationsPerHour THEN 0
                 ELSE LET vagas == RotationsPerHour - rotacoes
                          n == Cardinality(Esperando)
                      IN IF n < vagas THEN n ELSE vagas
    /\ pc' = "rotacionar"
    /\ UNCHANGED <<table, incapaz, velho, aberto, records, verificando, fila, ativos, emcurso,
                   rotacoes, iniciado, history>>
-----------------------------------------------------------------------------
(* _rotacionar_vagas: an incapable pool gives its slot to a waiting one.    *)
(* The row is written first, the dormant record next.                       *)

\* Evidence still being collected may keep an incapable pool, hence no duty.
RotateRow(p) ==
    /\ pc = "rotacionar" /\ restam > 0
    /\ p \in In("ativo") \cap incapaz
    /\ ~HasTrade(p, {"V1", "V2"})
    /\ status' = [status EXCEPT ![p] = "dormente"]
    /\ emcurso' = p
    /\ pc' = "registrar"
    /\ UNCHANGED <<criado, tentativas, readmitido, incapaz, velho, aberto, records, verificando,
                   fila, ativos, restam, rotacoes, iniciado, history>>

RotateRecord ==
    /\ pc = "registrar"
    /\ nunca' = Append(nunca, emcurso)
    /\ restam' = restam - 1
    /\ rotacoes' = rotacoes + 1
    /\ emcurso' = NoPool
    /\ pc' = "rotacionar"
    /\ UNCHANGED <<table, incapaz, velho, aberto, conferidos, vencidos, verificando, fila, ativos,
                   iniciado, history>>

RotateEnd ==
    /\ pc = "rotacionar"
    /\ restam' = 0
    /\ pc' = "rechecar"
    /\ UNCHANGED <<table, incapaz, velho, aberto, records, verificando, fila, ativos, emcurso,
                   rotacoes, iniciado, history>>
-----------------------------------------------------------------------------
(* _recheck_dormentes: one call per tick, for the open record whose last    *)
(* recheck is the oldest.                                                   *)

\* Mutant of Due: a record that was never rechecked is not due.
DueOnceRechecked == SubSeq(conferidos, 1, vencidos)

\* pr_dormentes("dormente"), sorted by (ts_recheck_ultimo or 0).
Due == nunca \o SubSeq(conferidos, 1, vencidos)

NextTick ==
    /\ pc' = "promover"
    /\ UNCHANGED <<table, incapaz, velho, aberto, records, verificando, locals, rotacoes,
                   iniciado, history>>

\* No record is due, or the first one's pool is not dormant any more.
RecheckNothing ==
    /\ pc = "rechecar"
    /\ Due # <<>> => status[Head(Due)] # "dormente"
    /\ NextTick

\* The call failed: the record keeps its place.
RecheckFails ==
    /\ pc = "rechecar"
    /\ Due # <<>> /\ status[Head(Due)] = "dormente"
    /\ NextTick

\* ts_recheck_ultimo = now: the record goes behind all others.
Stamp(d) ==
    /\ nunca' = IF nunca # <<>> THEN Tail(nunca) ELSE nunca
    /\ conferidos' = Append(IF nunca # <<>> THEN conferidos ELSE Tail(conferidos), d)
    /\ vencidos' = IF nunca # <<>> THEN vencidos ELSE vencidos - 1

\* The call answered; at or above the floor the pool is to be readmitted.
RecheckAnswer(p) ==
    /\ pc = "rechecar"
    /\ Due # <<>> /\ Head(Due) = p /\ status[p] = "dormente"
    /\ Stamp(p)
    /\ \/ pc' = "promover" /\ UNCHANGED emcurso
       \/ pc' = "readmitir" /\ emcurso' = p
    /\ UNCHANGED <<table, incapaz, velho, aberto, verificando, fila, ativos, restam,
                   rotacoes, iniciado, history>>

ReadmitRow ==
    /\ pc = "readmitir"
    /\ status' = [status EXCEPT ![emcurso] = "verificado"]
    /\ readmitido' = readmitido \cup {emcurso}
    /\ pc' = "fechar_registro"
    /\ UNCHANGED <<criado, tentativas, incapaz, velho, aberto, records, verificando, locals,
                   rotacoes, iniciado, history>>

\* Mutant of CloseRecord: the record stays open.
CloseRecordKept ==
    /\ pc = "fechar_registro"
    /\ emcurso' = NoPool
    /\ pc' = "promover"
    /\ UNCHANGED <<table, incapaz, velho, aberto, records, verificando, fila, ativos, restam,
                   rotacoes, iniciado, history>>

\* The record stamped last is the one that is closed.
CloseRecord ==
    /\ pc = "fechar_registro"
    /\ conferidos' = SubSeq(conferidos, 1, Len(conferidos) - 1)
    /\ vencidos' = IF vencidos = Len(conferidos) THEN vencidos - 1 ELSE vencidos
    /\ emcurso' = NoPool
    /\ pc' = "promover"
    /\ UNCHANGED <<table, incapaz, velho, aberto, nunca, verificando, fila, ativos, restam,
                   rotacoes, iniciado, history>>
-----------------------------------------------------------------------------
(* Time, and what cuts a tick short.  A tick works with one `now`, so time   *)
(* passes between ticks.                                                    *)

BetweenTicks == pc \in {"inicio", "promover"}

GrowsOld(p) ==
    /\ BetweenTicks
    /\ status[p] \notin {"fora", "encerrado", "rejeitado"} /\ p \notin velho
    /\ velho' = velho \cup {p}
    /\ UNCHANGED <<table, incapaz, aberto, records, verificando, pc, locals, rotacoes,
                   iniciado, history>>

HourPasses ==
    /\ BetweenTicks
    /\ rotacoes > 0
    /\ rotacoes' = 0
    /\ UNCHANGED <<table, incapaz, velho, aberto, records, verificando, pc, locals,
                   iniciado, history>>

DayPasses ==
    /\ BetweenTicks
    /\ vencidos < Len(conferidos)
    /\ vencidos' = vencidos + 1
    /\ UNCHANGED <<table, incapaz, velho, aberto, nunca, conferidos, verificando, pc, locals,
                   rotacoes, iniciado, history>>

BetweenPair == pc \in {"registrar", "fechar_registro"}

\* What every cut does to the tick: the rest of it is not executed.
CutTick ==
    /\ cortes < MaxCuts
    /\ cortes' = cortes + 1
    /\ cortesNoPar' = cortesNoPar + (IF BetweenPair THEN 1 ELSE 0)
    /\ fila' = {} /\ ativos' = 0 /\ restam' = 0 /\ emcurso' = NoPool
    /\ UNCHANGED <<table, incapaz, velho, aberto, records>>

\* A call raises: the engine logs it and calls tick again in the next cycle.
TickRaises ==
    /\ CutTick
    /\ pc' = IF iniciado THEN "promover" ELSE "inicio"
    /\ UNCHANGED <<verificando, rotacoes, iniciado>>

\* The process stops and is started again: the tables stay, the memory goes.
Restart ==
    /\ CutTick
    /\ pc' = "inicio"
    /\ verificando' = NoPool /\ rotacoes' = 0 /\ iniciado' = FALSE

Tick ==
    \/ StartupMark \/ StartupPools \/ StartupTrades
    \/ PromoteBegin \/ PromoteEnd \/ RefreshEnd \/ RetireOldEnd \/ RetireStagnantEnd
    \/ RotateRecord \/ RotateEnd \/ RecheckNothing \/ RecheckFails \/ ReadmitRow \/ CloseRecord
    \/ \E p \in Pools :
          \/ PromoteOne(p) \/ RefreshCandles(p) \/ RefreshGivesUp(p)
          \/ RetireOld(p) \/ RetireStagnant(p) \/ RotateRow(p) \/ RecheckAnswer(p)

Next ==
    \/ Tick
    \/ Verifier
    \/ \E p \in Pools : Offer(p) \/ GrowsOld(p)
    \/ HourPasses \/ DayPasses
    \/ TickRaises \/ Restart

Spec == Init /\ [][Next]_vars

\* The threads run, time passes, and the calls about a dormant pool succeed again
\* and again.
Fairness ==
    /\ WF_vars(Tick) /\ WF_vars(Verifier)
    /\ SF_vars(DayPasses)
    /\ SF_vars(\E p \in Pools : GrowsOld(p))
    /\ SF_vars(\E p \in Pools : RecheckAnswer(p))

FairSpec == Spec /\ Fairness
-----------------------------------------------------------------------------
(* Properties.                                                              *)

\* "Um pool por token" (offer, pr_pool_for_mint): two pools of one token are
\* never in the table together unless one of them was rejected, whatever way
\* the other took through the queue, the watch, the dormant list and back.
OnePoolPerToken ==
    \A p, q \in Pools :
        /\ p # q /\ MintOf[p] = MintOf[q]
        /\ status[p] \notin {"fora", "rejeitado"}
        => status[q] \in {"fora", "rejeitado"}

\* The row the lineage thread read and will write minutes later still asks for
\* its verdict: no step of the cycle thread has moved it in the meantime.
HeldRowStillAsks == verificando # NoPool => verificando \in NeedsVerification

OpenRecords(p) == Cardinality({i \in DOMAIN nunca : nunca[i] = p})
                  + Cardinality({i \in DOMAIN conferidos : conferidos[i] = p})

\* Exactly the dormant pools have exactly one open dormant record; only a tick
\* cut between the two writes of a rotation or of a readmission breaks the
\* pairing, of one pool each.
RecordsMatchPools ==
    Cardinality({p \in Pools \ {emcurso} :
                    OpenRecords(p) # (IF status[p] = "dormente" THEN 1 ELSE 0)}) <= cortesNoPar

\* The queue drains: every candidate gets its verdict although RPC calls fail,
\* and every verified pool a slot or its way out although the slots stay taken,
\* so that QUEUE_MAX never shuts discovery out for good.
QueueDrains == Queued > 0 ~> Queued = 0

\* "Cada um ser conferido mais ou menos 1x/dia" (_recheck_dormentes): every pool
\* put on the dormant list is rechecked, if the calls succeed again and again and
\* no tick was cut between two writes that belong together.
DormantsRechecked ==
    cortesNoPar = 0 /\ nunca # <<>> ~> cortesNoPar > 0 \/ nunca = <<>>
=============================================================================
