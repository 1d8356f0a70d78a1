------------------------------ MODULE TradeFeed ------------------------------
(***************************************************************************)
(* One watched pool and one timeframe of POS-RUNNER, from the candle to the *)
(* bankroll (signals_mvp/pos_runner/live.py: _refresh_core, _entry_v1/_v2,  *)
(* _update_paper_v1/_v2, _update_bankroll_v1/_v2).  A refresh fetches the   *)
(* candles after the last one its first detector has, freezes them in       *)
(* pr_bars, and feeds them to the versions one after the other; a version   *)
(* opens and closes paper trades and sends alerts while it is fed.  Every   *)
(* write of the storage commits on its own, and a call may raise, or the    *)
(* process stop, before any of them.                                        *)
(***************************************************************************)
EXTENDS Integers, Sequences, FiniteSets

CONSTANTS
    N,          \* bound: the candles are 1..N
    Versions,   \* the versions switched on
    Entradas,   \* [versions -> SUBSET 1..N]: the candles that decide an entry
    Saida,      \* [1..N -> 1..N]: where a trade entered at a candle ends
    Tp1,        \* [1..N -> 0..N]: where it takes profit first, 0 when it does not
    Anulados,   \* entries whose next candle opens beyond the stop or the top
    Baixos,     \* candles that close below the floor min_mc_usd
    Admissao,   \* the first candle closed after the pool got its slot
    MaxCuts     \* bound: how many refreshes are cut short

Trades == {t \in Versions \X (1..N) : t[2] \in Entradas[t[1]]}

ASSUME CandlesAssumption ==
    /\ N \in Nat \ {0} /\ Admissao \in Nat /\ MaxCuts \in Nat
    /\ Versions \subseteq {"V1", "V2"}
    /\ {Anulados, Baixos} \subseteq SUBSET (1..N)
    /\ \A v \in Versions : Entradas[v] \subseteq 1..N
    /\ \A c \in 1..N : Saida[c] >= c /\ Tp1[c] < Saida[c] + 1

VARIABLES
    mercado,     \* candles closed and indexed so far
    meio,        \* half a candle has passed since the newest one closed
    lbc,         \* pr_pools.l_bc is known
    barras,      \* pr_bars holds the candles 1..barras
    feito,       \* versions with a detector in dets_v1, dets_v2
    visto,       \* [versions -> Seq(candles)]: the bars of each detector
    sinal,       \* [Trades -> signal]: the rows of pr1_signals, pr2_signals
    chaves,      \* pr_alerts
    enviados,    \* [kinds \X candles -> Nat]: full alerts delivered
    memoria,     \* [versions -> Seq(candles)]: trades in the ledger in memory
    carregada,   \* versions whose ledger is in memory
    salvo,       \* [versions -> Seq(candles)]: trades in the saved ledger state
    linhas,      \* [versions -> SUBSET candles]: lines of the bankroll table
    pc,          \* where the refresh is
    vez,         \* versions the running pass still has to visit
    frescos,     \* the candles this refresh brought
    fila,        \* the candles the detector at work still has to consume
    modo,        \* whether it is rebuilt ("refazer") or fed ("alimentar")
    lista,       \* open trades the paper update still has to visit
    alvo,        \* the trade at work
    aviso,       \* the alert that is being sent
    falhou,      \* history: since the start, a refresh raised while it fed
    jaFalhou,    \* history: the same, in any run of the process
    cortes,      \* history: refreshes cut short
    cortesNoPar  \* history: those cut between closing a trade and its bankroll

time     == <<mercado, meio>>
candles  == <<lbc, barras>>
memory   == <<feito, visto>>
alerts   == <<chaves, enviados>>
bankroll == <<memoria, carregada, salvo, linhas>>
loops    == <<vez, frescos, fila, modo, lista, alvo, aviso>>
history  == <<falhou, jaFalhou, cortes, cortesNoPar>>
feedVars == <<time, candles, memory, sinal, alerts, bankroll, pc, loops, history>>

Kinds == {"e", "confirma", "tp1", "x"}

NoSignal == [status |-> "nenhum", idx |-> 0, so |-> FALSE, msg |-> FALSE, tp1 |-> FALSE]
NoTrade == <<"nenhuma", 0>>

Signals == [status : {"nenhum", "aberto", "cancelado", "fechado"},
            idx : Nat, so : BOOLEAN, msg : BOOLEAN, tp1 : BOOLEAN]

\* V1 always comes before V2.
First(versions) == IF "V1" \in versions THEN "V1" ELSE "V2"
Now == First(vez)
Newest(s) == s[Len(s)]
Run(a, b) == [i \in 1..(IF b < a THEN 0 ELSE b - a + 1) |-> a + i - 1]

\* A flat candle made by fill_gaps in the place of the frozen one.
Flat(c) == N + c

FeedTypeOK ==
    /\ mercado \in 1..N /\ barras \in 0..N
    /\ meio \in BOOLEAN /\ lbc \in BOOLEAN /\ falhou \in BOOLEAN /\ jaFalhou \in BOOLEAN
    /\ feito \subseteq Versions /\ carregada \subseteq Versions
    /\ visto \in [Versions -> Seq(1..(2 * N))]
    /\ sinal \in [Trades -> Signals]
    /\ chaves \subseteq Kinds \X Trades
    /\ enviados \in [Kinds \X (1..N) -> Nat]
    /\ memoria \in [Versions -> Seq(1..N)] /\ salvo \in [Versions -> Seq(1..N)]
    /\ linhas \in [Versions -> SUBSET (1..N)]
    /\ pc \in {"livre", "refazer", "buscar", "primeiro", "gravar", "alimentar", "consumir",
               "entrada", "avisar", "enviar", "marcar", "papel", "confirmar", "tp1",
               "gravar_tp1", "saida", "fechar", "banca", "linha", "salvar"}
    /\ vez \subseteq Versions /\ frescos \in Seq(1..(2 * N)) /\ fila \in Seq(1..(2 * N))
    /\ modo \in {"refazer", "alimentar"} /\ aviso \in Kinds
    /\ lista \subseteq Trades /\ alvo \in Trades \cup {NoTrade}
    /\ cortes \in Nat /\ cortesNoPar \in Nat

FeedInit ==
    /\ mercado = 1 /\ meio = FALSE /\ lbc = FALSE /\ barras = 0
    /\ feito = {} /\ visto = [v \in Versions |-> <<>>]
    /\ sinal = [t \in Trades |-> NoSignal]
    /\ chaves = {} /\ enviados = [k \in Kinds \X (1..N) |-> 0]
    /\ memoria = [v \in Versions |-> <<>>] /\ carregada = {}
    /\ salvo = [v \in Versions |-> <<>>] /\ linhas = [v \in Versions |-> {}]
    /\ pc = "livre" /\ vez = {} /\ frescos = <<>> /\ fila = <<>> /\ modo = "alimentar"
    /\ lista = {} /\ alvo = NoTrade /\ aviso = "e"
    /\ falhou = FALSE /\ jaFalhou = FALSE /\ cortes = 0 /\ cortesNoPar = 0
-----------------------------------------------------------------------------
(* The candles: _refresh_core, _detector_v1, _detector_v2.                  *)

\* A detector is made once l_bc is known and the last frozen candle is not
\* below the floor.
Missing == IF lbc /\ barras \notin Baixos THEN Versions \ feito ELSE {}

RefreshBegin ==
    /\ pc = "livre"
    /\ vez' = Missing
    /\ pc' = "refazer"
    /\ UNCHANGED <<time, candles, memory, sinal, alerts, bankroll, frescos, fila, modo, lista,
                   alvo, aviso, history>>

\* Mutant of Rebuild: the detector is kept before it is fed the frozen candles.
RebuildKept ==
    /\ pc = "refazer" /\ vez # {}
    /\ visto' = [visto EXCEPT ![Now] = <<>>]
    /\ fila' = Run(1, barras)
    /\ modo' = "refazer"
    /\ feito' = feito \cup {Now}
    /\ pc' = "consumir"
    /\ UNCHANGED <<time, candles, sinal, alerts, bankroll, vez, frescos, lista, alvo, aviso, history>>

\* It is fed the frozen candles, its events are handled again.
Rebuild ==
    /\ pc = "refazer" /\ vez # {}
    /\ visto' = [visto EXCEPT ![Now] = <<>>]
    /\ fila' = Run(1, barras)
    /\ modo' = "refazer"
    /\ pc' = "consumir"
    /\ UNCHANGED <<time, candles, feito, sinal, alerts, bankroll, vez, frescos, lista, alvo,
                   aviso, history>>

\* Only then it is kept in the dictionary.
RebuildDone ==
    /\ pc = "consumir" /\ fila = <<>> /\ modo = "refazer"
    /\ feito' = feito \cup {Now}
    /\ vez' = vez \ {Now}
    /\ pc' = "refazer"
    /\ UNCHANGED <<time, candles, visto, sinal, alerts, bankroll, frescos, fila, modo, lista,
                   alvo, aviso, history>>

RebuildEnd ==
    /\ pc = "refazer" /\ vez = {}
    /\ pc' = "buscar"
    /\ UNCHANGED <<time, candles, memory, sinal, alerts, bankroll, loops, history>>

\* `last`: the last bar of the first detector that has one.
LastBar ==
    LET com == {v \in feito : visto[v] # <<>>}
        c == Newest(visto[First(com)])
    IN IF com = {} THEN 0 ELSE IF c > N THEN c - N ELSE c

Brought(seq) ==
    /\ frescos' = seq
    /\ pc' = IF lbc THEN "gravar" ELSE "primeiro"
    /\ UNCHANGED <<time, candles, memory, sinal, alerts, bankroll, vez, fila, modo, lista, alvo,
                   aviso, history>>

\* GeckoTerminal serves the history; the USD quote may cover a part of it only.
Fetch(k) ==
    /\ pc = "buscar"
    /\ k \in (LastBar + 1)..mercado
    /\ Brought(Run(LastBar + 1, k))

\* DexPaprika is asked for what comes after the frozen candles only; where the
\* detector is behind them, fill_gaps puts flat candles after its last bar, if it
\* has one.
FetchFallback(k) ==
    /\ pc = "buscar"
    /\ LastBar < barras
    /\ k \in (barras + 1)..mercado
    /\ Brought(IF LastBar = 0 THEN Run(barras + 1, k)
               ELSE [i \in 1..(k - LastBar) |-> IF LastBar + i > barras THEN LastBar + i
                                                ELSE Flat(LastBar + i)])

\* No answer, no USD quote or no candle: neither is the paper looked at.
FetchNothing ==
    /\ pc = "buscar"
    /\ pc' = "livre"
    /\ UNCHANGED <<time, candles, memory, sinal, alerts, bankroll, loops, history>>

\* The first candles of the pool give l_bc; the detectors that the newest one
\* allows are made, with no frozen candle to replay.
FirstBar ==
    /\ pc = "primeiro"
    /\ lbc' = TRUE
    /\ feito' = IF Newest(frescos) \in Baixos THEN feito ELSE Versions
    /\ pc' = "gravar"
    /\ UNCHANGED <<time, barras, visto, sinal, alerts, bankroll, loops, history>>

\* One transaction; a candle that is already frozen is never written again.
AppendBars ==
    /\ pc = "gravar"
    /\ barras' = IF Newest(frescos) > barras THEN Newest(frescos) ELSE barras
    /\ vez' = feito
    /\ pc' = "alimentar"
    /\ UNCHANGED <<time, lbc, memory, sinal, alerts, bankroll, frescos, fila, modo, lista, alvo,
                   aviso, history>>

FeedNext ==
    /\ pc = "alimentar" /\ vez # {}
    /\ fila' = frescos
    /\ modo' = "alimentar"
    /\ pc' = "consumir"
    /\ UNCHANGED <<time, candles, memory, sinal, alerts, bankroll, vez, frescos, lista, alvo,
                   aviso, history>>

RefreshEnd ==
    /\ pc = "alimentar" /\ vez = {}
    /\ frescos' = <<>>
    /\ pc' = "livre"
    /\ UNCHANGED <<time, candles, memory, sinal, alerts, bankroll, vez, fila, modo, lista, alvo,
                   aviso, history>>

\* det.update(b), and what _on_event does when it returns an entry.
Consume ==
    /\ pc = "consumir" /\ fila # <<>>
    /\ LET c == Head(fila)
       IN /\ visto' = [visto EXCEPT ![Now] = Append(@, c)]
          /\ IF <<Now, c>> \in Trades /\ c >= Admissao
             THEN pc' = "entrada" /\ alvo' = <<Now, c>>
             ELSE UNCHANGED <<pc, alvo>>
    /\ fila' = Tail(fila)
    /\ UNCHANGED <<time, candles, feito, sinal, alerts, bankroll, vez, frescos, modo, lista,
                   aviso, history>>

\* The paper of a version is looked at once it has consumed all of them.
FeedDone ==
    /\ pc = "consumir" /\ fila = <<>> /\ modo = "alimentar"
    /\ lista' = {t \in Trades : t[1] = Now /\ sinal[t].status = "aberto"}
    /\ pc' = "papel"
    /\ UNCHANGED <<time, candles, memory, sinal, alerts, bankroll, vez, frescos, fila, modo, alvo,
                   aviso, history>>
-----------------------------------------------------------------------------
(* An entry: _entry_v1, _entry_v2.                                          *)

\* The limit of _late is half a candle after the close.
Late(c) == c < mercado \/ meio

\* An entry decided too late never opens a position, in no version.
EntryLate ==
    /\ pc = "entrada" /\ sinal[alvo].status = "nenhum" /\ Late(alvo[2])
    /\ pc' = "consumir"
    /\ UNCHANGED <<time, candles, memory, sinal, alerts, bankroll, loops, history>>

\* so_v2: V1 has no entry at the candle.
AloneAt(t) == t[1] = "V1" \/ <<"V1", t[2]>> \notin Trades \/ sinal[<<"V1", t[2]>>].status = "nenhum"

EntryInsert ==
    /\ pc = "entrada" /\ sinal[alvo].status = "nenhum" /\ ~Late(alvo[2])
    /\ sinal' = [sinal EXCEPT ![alvo] =
                    [status |-> "aberto", idx |-> Len(visto[alvo[1]]), so |-> AloneAt(alvo),
                     msg |-> FALSE, tp1 |-> FALSE]]
    /\ pc' = "avisar"
    /\ UNCHANGED <<time, candles, memory, alerts, bankroll, loops, history>>

EntryKnown ==
    /\ pc = "entrada" /\ sinal[alvo].status # "nenhum"
    /\ pc' = "avisar"
    /\ UNCHANGED <<time, candles, memory, sinal, alerts, bankroll, loops, history>>

\* Mutant of AlertOnce: no key is written.
AlertUnkeyed(kind, senao) ==
    pc' = "enviar" /\ aviso' = kind /\ UNCHANGED chaves

\* pr_alert_once: the key is written first, and who wrote it sends.
AlertOnce(kind, senao) ==
    IF <<kind, alvo>> \in chaves
    THEN pc' = senao /\ UNCHANGED <<chaves, aviso>>
    ELSE pc' = "enviar" /\ chaves' = chaves \cup {<<kind, alvo>>} /\ aviso' = kind

EntryAlert ==
    /\ pc = "avisar"
    /\ IF sinal[alvo].msg \/ Late(alvo[2])
       THEN pc' = "consumir" /\ UNCHANGED <<chaves, aviso>>
       ELSE AlertOnce("e", "consumir")
    /\ UNCHANGED <<time, candles, memory, sinal, enviados, bankroll, vez, frescos, fila, modo,
                   lista, alvo, history>>

AfterSend(entregue) ==
    CASE aviso = "e" -> IF entregue THEN "marcar" ELSE "consumir"
      [] aviso = "confirma" -> "tp1"
      [] aviso = "tp1" -> "gravar_tp1"
      [] aviso = "x" -> "fechar"

\* A note of V2 in reply to the entry of V1 is no full alert.
IsFull == aviso \in {"tp1", "x"} \/ (aviso = "e" /\ AloneAt(alvo))

\* _send never raises; a message that is not delivered is not sent again.
Send ==
    /\ pc = "enviar"
    /\ \E entregue \in BOOLEAN :
          /\ enviados' = IF entregue /\ IsFull
                         THEN [enviados EXCEPT ![<<aviso, alvo[2]>>] = @ + 1]
                         ELSE enviados
          /\ pc' = AfterSend(entregue)
    /\ UNCHANGED <<time, candles, memory, sinal, chaves, bankroll, loops, history>>

MarkSent ==
    /\ pc = "marcar"
    /\ sinal' = [sinal EXCEPT ![alvo].msg = TRUE]
    /\ pc' = "consumir"
    /\ UNCHANGED <<time, candles, memory, alerts, bankroll, loops, history>>
-----------------------------------------------------------------------------
(* The paper: simulate_v1 over the bars of the detector, and what           *)
(* _update_paper_v1, _update_paper_v2 make of its result.                   *)

\* Mutant of Sees: only the newest candle is looked at.
SeesNewest(t, k) == visto[t[1]] # <<>> /\ Newest(visto[t[1]]) = k

\* The simulation begins at the stored index, whatever candle stands there.
Sees(t, k) == \E j \in (sinal[t].idx + 1)..Len(visto[t[1]]) : visto[t[1]][j] = k

Filled(t) == Len(visto[t[1]]) > sinal[t].idx

Visited(t) ==
    /\ lista' = lista \ {t}
    /\ pc' = "papel"

\* The signals are read oldest first.
PaperNext(t) ==
    /\ pc = "papel" /\ t \in lista
    /\ \A u \in lista : t[2] <= u[2]
    /\ IF ~Filled(t) \/ t[2] \in Anulados
       THEN /\ Visited(t)
            /\ sinal' = IF Filled(t) THEN [sinal EXCEPT ![t].status = "cancelado"] ELSE sinal
            /\ UNCHANGED alvo
       ELSE alvo' = t /\ pc' = "confirmar" /\ UNCHANGED <<sinal, lista>>
    /\ UNCHANGED <<time, candles, memory, alerts, bankroll, vez, frescos, fila, modo, aviso, history>>

PaperEnd ==
    /\ pc = "papel" /\ lista = {}
    /\ vez' = vez \ {Now}
    /\ pc' = "alimentar"
    /\ UNCHANGED <<time, candles, memory, sinal, alerts, bankroll, frescos, fila, modo, lista, alvo,
                   aviso, history>>

\* Both versions confirm the fill, merged or not.
Confirm ==
    /\ pc = "confirmar"
    /\ IF sinal[alvo].msg THEN AlertOnce("confirma", "tp1")
       ELSE pc' = "tp1" /\ UNCHANGED <<chaves, aviso>>
    /\ UNCHANGED <<time, candles, memory, sinal, enviados, bankroll, vez, frescos, fila, modo, lista,
                   alvo, history>>

\* pode_alertar: the exits of a merged V2 trade are left to V1.
MayAlert(t) == sinal[t].msg /\ sinal[t].so

TakeProfit ==
    /\ pc = "tp1"
    /\ IF Tp1[alvo[2]] = 0 \/ ~Sees(alvo, Tp1[alvo[2]]) \/ sinal[alvo].tp1
       THEN pc' = "saida" /\ UNCHANGED <<chaves, aviso>>
       ELSE IF MayAlert(alvo) THEN AlertOnce("tp1", "gravar_tp1")
       ELSE pc' = "gravar_tp1" /\ UNCHANGED <<chaves, aviso>>
    /\ UNCHANGED <<time, candles, memory, sinal, enviados, bankroll, vez, frescos, fila, modo, lista,
                   alvo, history>>

SaveTp1 ==
    /\ pc = "gravar_tp1"
    /\ sinal' = [sinal EXCEPT ![alvo].tp1 = TRUE]
    /\ pc' = "saida"
    /\ UNCHANGED <<time, candles, memory, alerts, bankroll, loops, history>>

StillOpen ==
    /\ pc = "saida" /\ ~Sees(alvo, Saida[alvo[2]])
    /\ Visited(alvo)
    /\ UNCHANGED <<time, candles, memory, sinal, alerts, bankroll, vez, frescos, fila, modo, alvo,
                   aviso, history>>

ExitAlert ==
    /\ pc = "saida" /\ Sees(alvo, Saida[alvo[2]])
    /\ IF MayAlert(alvo) THEN AlertOnce("x", "fechar")
       ELSE pc' = "fechar" /\ UNCHANGED <<chaves, aviso>>
    /\ UNCHANGED <<time, candles, memory, sinal, enviados, bankroll, vez, frescos, fila, modo, lista,
                   alvo, history>>

Close ==
    /\ pc = "fechar"
    /\ sinal' = [sinal EXCEPT ![alvo].status = "fechado"]
    /\ pc' = "banca"
    /\ UNCHANGED <<time, candles, memory, alerts, bankroll, loops, history>>
-----------------------------------------------------------------------------
(* The bankroll of a version: _update_bankroll_v1, _update_bankroll_v2.     *)

\* Mutant of LedgerStep: a new ledger instead of the saved one.
LedgerStepNew ==
    /\ pc = "banca"
    /\ memoria' = [memoria EXCEPT ![alvo[1]] = Append(@, alvo[2])]
    /\ carregada' = carregada \cup {alvo[1]}
    /\ pc' = "linha"
    /\ UNCHANGED <<time, candles, memory, sinal, alerts, salvo, linhas, loops, history>>

\* The ledger is loaded when it is first needed, and moved on by the trade.
LedgerStep ==
    /\ pc = "banca"
    /\ LET v == alvo[1]
       IN /\ memoria' = [memoria EXCEPT ![v] =
                            Append(IF v \in carregada THEN @ ELSE salvo[v], alvo[2])]
          /\ carregada' = carregada \cup {v}
    /\ pc' = "linha"
    /\ UNCHANGED <<time, candles, memory, sinal, alerts, salvo, linhas, loops, history>>

\* A line that is there already is not written again, nor is then the state.
LedgerLine ==
    /\ pc = "linha"
    /\ linhas' = [linhas EXCEPT ![alvo[1]] = @ \cup {alvo[2]}]
    /\ IF alvo[2] \in linhas[alvo[1]] THEN Visited(alvo)
       ELSE pc' = "salvar" /\ UNCHANGED lista
    /\ UNCHANGED <<time, candles, memory, sinal, alerts, memoria, carregada, salvo, vez, frescos,
                   fila, modo, alvo, aviso, history>>

LedgerSave ==
    /\ pc = "salvar"
    /\ salvo' = [salvo EXCEPT ![alvo[1]] = memoria[alvo[1]]]
    /\ Visited(alvo)
    /\ UNCHANGED <<time, candles, memory, sinal, alerts, memoria, carregada, linhas, vez, frescos,
                   fila, modo, alvo, aviso, history>>
-----------------------------------------------------------------------------
(* Time, and what cuts a refresh short.  A tick works with one `now`.       *)

NextCandle ==
    /\ pc = "livre" /\ mercado < N
    /\ mercado' = mercado + 1
    /\ meio' = FALSE
    /\ UNCHANGED <<candles, memory, sinal, alerts, bankroll, pc, loops, history>>

HalfCandle ==
    /\ pc = "livre" /\ ~meio
    /\ meio' = TRUE
    /\ UNCHANGED <<mercado, candles, memory, sinal, alerts, bankroll, pc, loops, history>>

Feeding == pc \notin {"livre", "refazer", "buscar", "primeiro", "gravar"} /\ frescos # <<>>

\* What every cut does: the rest of the refresh is not executed.  A candle
\* still comes after it, so that the bound on candles does not hide what the
\* next refresh makes good.
Cut ==
    /\ cortes < MaxCuts /\ mercado < N
    /\ cortes' = cortes + 1
    /\ cortesNoPar' = cortesNoPar + (IF pc \in {"banca", "linha", "salvar"} THEN 1 ELSE 0)
    /\ pc' = "livre" /\ vez' = {} /\ frescos' = <<>> /\ fila' = <<>> /\ modo' = "alimentar"
    /\ lista' = {} /\ alvo' = NoTrade /\ aviso' = "e"
    /\ UNCHANGED <<time, candles, sinal, alerts, salvo, linhas>>

\* A call raises: _refresh_safe logs it, the pool waits for its next turn.
RefreshRaises ==
    /\ pc # "livre" /\ Cut
    /\ visto' = [v \in Versions |-> IF v \in feito THEN visto[v] ELSE <<>>]
    /\ falhou' = (falhou \/ Feeding) /\ jaFalhou' = (jaFalhou \/ Feeding)
    /\ UNCHANGED <<feito, memoria, carregada>>

\* The process stops and is started again.
Restart ==
    /\ Cut
    /\ feito' = {} /\ visto' = [v \in Versions |-> <<>>]
    /\ memoria' = [v \in Versions |-> <<>>] /\ carregada' = {}
    /\ falhou' = FALSE /\ UNCHANGED jaFalhou

Refresh ==
    \/ RefreshBegin \/ Rebuild \/ RebuildDone \/ RebuildEnd
    \/ FetchNothing \/ FirstBar \/ AppendBars \/ FeedNext \/ RefreshEnd \/ Consume \/ FeedDone
    \/ EntryLate \/ EntryInsert \/ EntryKnown \/ EntryAlert \/ Send \/ MarkSent
    \/ PaperEnd \/ Confirm \/ TakeProfit \/ SaveTp1 \/ StillOpen \/ ExitAlert \/ Close
    \/ LedgerStep \/ LedgerLine \/ LedgerSave
    \/ \E t \in Trades : PaperNext(t)
    \/ \E k \in 1..N : Fetch(k) \/ FetchFallback(k)

FeedStep == Refresh \/ NextCandle \/ HalfCandle \/ RefreshRaises \/ Restart

FeedSpec == FeedInit /\ [][FeedStep]_feedVars

\* The cycle goes on, candles keep closing, and GeckoTerminal serves all of
\* them again and again.
Fairness ==
    /\ WF_feedVars(Refresh)
    /\ SF_feedVars(NextCandle)
    /\ SF_feedVars(\E k \in 1..N : k = mercado /\ Fetch(k))

FeedFairSpec == FeedSpec /\ Fairness
-----------------------------------------------------------------------------
(* Properties.                                                              *)

Opened(t) == sinal[t].status # "nenhum"

\* "O detector ve cada candle uma vez, em ordem; reiniciar o bot refaz o mesmo
\* estado": between refreshes every detector has exactly the frozen candles, and
\* the index a trade was stored with still is that of its candle, wherever the
\* process was stopped; only a refresh that raised while it fed its candles may
\* have left a hole.
FrozenCandlesSeen ==
    pc = "livre" =>
        /\ ~falhou => \A v \in feito : visto[v] = Run(1, barras)
        /\ ~jaFalhou => \A t \in Trades : Opened(t) => sinal[t].idx = t[2]

\* "Nunca repete alerta", "sem duplicar": of one decision the operator gets one
\* full entry alert, one TP1 and one exit, of V1 and V2 together, across
\* restarts, replays and refreshes cut between writing the key and sending.
AlertsNotRepeated == \A k \in Kinds \X (1..N) : enviados[k] <= 1

\* A closed trade is in the bankroll once, by a line and in the saved state, and
\* an open one is not; only cuts between the closing and the last of the two
\* writes break that, of one trade each.
BankrollMatches ==
    LET Booked(t) == t[2] \in linhas[t[1]]
        Times(t) == Cardinality({i \in DOMAIN salvo[t[1]] : salvo[t[1]][i] = t[2]})
        Wrong(t) == IF sinal[t].status = "fechado" THEN ~Booked(t) \/ Times(t) # 1
                    ELSE Booked(t) \/ Times(t) # 0
    IN Cardinality({t \in Trades \ {alvo} : Wrong(t)}) <= cortesNoPar

Ends(t) == sinal[t].status = "aberto" /\ Saida[t[2]] <= mercado

\* A detector that is not in memory is not made while the last frozen candle is
\* below the floor.
Unwatched(t) == t[1] \notin feito /\ barras \in Baixos

\* A paper trade whose exit is among the candles is closed in the end, wherever
\* the process was stopped, unless a refresh raised while it fed, or its
\* detector has to be made again and the last frozen candle is below the floor
\* (_detector_v1, min_mc_usd): then nobody looks at the trade.
TradesClosed == \A t \in Trades : Ends(t) ~> ~Ends(t) \/ falhou \/ Unwatched(t)
=============================================================================
