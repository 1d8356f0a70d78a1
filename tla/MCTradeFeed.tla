---------------------------- MODULE MCTradeFeed ----------------------------
(* Five candles.  V1 and V2 enter at the second; V1 has an entry before the *)
(* pool was watched and one at the third, V2 one that is cancelled.         *)
EXTENDS TradeFeed

MCEntradas == [v \in {"V1", "V2"} |-> IF v = "V1" THEN {1, 2, 3} ELSE {2, 4}]
MCSaida == <<5, 4, 5, 5, 5>>
MCTp1 == <<0, 3, 0, 0, 0>>
=============================================================================
