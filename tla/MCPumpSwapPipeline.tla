------------------------- MODULE MCPumpSwapPipeline -------------------------
(* Small instances of PumpSwapPipeline for TLC. *)
EXTENDS PumpSwapPipeline, TLC

CONSTANTS x, y, t1, t2

\* t1 trades both assets, t2 one of them.
MCTradesOf == (t1 :> {x, y}) @@ (t2 :> {y})

\* t1 is delivered twice, with t2 in between.
MCDelivered == <<t1, t2, t1>>

MCOldRows == {}

=============================================================================
