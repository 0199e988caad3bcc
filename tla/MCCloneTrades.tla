--------------------------- MODULE MCCloneTrades ---------------------------
(* Two requests, four contracts, a ladder of three tiers whose last stop *)
(* is below the one before, and a general ladder of four.                 *)
EXTENDS CloneTrades

Tier(target, stop, pct) == [target |-> target, stop |-> stop, pct |-> pct]
MCOwnLadder == <<Tier(1, -2, 45), Tier(2, 1, 10), Tier(3, 0, 45)>>
MCNewLadder == <<Tier(1, -1, 25), Tier(2, -1, 25), Tier(3, 1, 25), Tier(4, 2, 25)>>
MCLevels == {-2, 0, 1, 3}
=============================================================================
