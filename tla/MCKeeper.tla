-------------------------------- MODULE MCKeeper --------------------------------
(***************************************************************************)
(* Instances of Keeper: loan to values in per cent, one on each side of    *)
(* every level, and the strategies of two positions.                       *)
(***************************************************************************)
EXTENDS Keeper

CONSTANTS routed, unrouted

\* Only the guard level matters.
Guarded == [target |-> 40, protect |-> 55, growBelow |-> 0,
            growEnabled |-> FALSE, exitOnFlag |-> FALSE]
OnlyGuarded == [p \in Positions |-> Guarded]

\* Positions that grow back after a rise and leave with the market.
GrowsAndLeaves == [p \in Positions |-> [Guarded EXCEPT !.growBelow = 30, !.growEnabled = TRUE,
                                                       !.exitOnFlag = TRUE]]

\* What happens to the position without a route is only what puts it in the
\* other's way.
AnythingToOne ==
    [p \in Positions |-> IF p \in Unroutable THEN {"price"}
                         ELSE {"price", "others", "close", "rescue", "top up"}]
ClearedOrFlagged ==
    [p \in Positions |-> IF p \in Unroutable THEN {"price", "clear"}
                         ELSE {"price", "clear", "flag"}]
==============================================================================
