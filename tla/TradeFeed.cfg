CONSTANTS
    N = 5
    Versions = {"V1", "V2"}
    Entradas <- MCEntradas
    Saida <- MCSaida
    Tp1 <- MCTp1
    Anulados = {4}
    Baixos = {1, 3, 5}
    Admissao = 2
    MaxCuts = 1
SPECIFICATION FeedFairSpec
INVARIANTS
    FrozenCandlesSeen
    AlertsNotRepeated
    BankrollMatches
PROPERTIES
    TradesClosed
