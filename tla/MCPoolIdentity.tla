---------------------------- MODULE MCPoolIdentity ----------------------------
(* Two notifications and a creation of pool p1, one notification of p2.  An  *)
(* earlier run may have left p1 with a wrong identity, the right one, or both. *)
EXTENDS PoolIdentity

CONSTANTS c1, c2, c3, c4, p1, p2

MCKindOf == [c \in Calls |-> IF c = c3 THEN "create" ELSE "resolve"]
MCPoolOf == [c \in Calls |-> IF c = c4 THEN p2 ELSE p1]
MCIdentityOf == [p \in Pools |-> 1]

Wrong == [id |-> 2, at |-> 0]
Right == [id |-> 1, at |-> 0]
MCHistories ==
    [p \in Pools |-> IF p = p1 THEN {{Wrong}, {Wrong, Right}} ELSE {{}}]
=============================================================================
