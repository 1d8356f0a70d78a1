--------------------------- MODULE MCWatchedPools ---------------------------
(* Three pools; p1 and p2 are of one token.                                 *)
EXTENDS WatchedPools

CONSTANTS p1, p2, p3, x, y

MCMintOf == [p \in Pools |-> IF p = p3 THEN y ELSE x]
=============================================================================
