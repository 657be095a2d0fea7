--------------------------- MODULE MCAccruePosition ---------------------------
(***************************************************************************)
(* Values of AccruePosition's constants that TLC explores.  A raw USDC is  *)
(* a dollar; ten stock units at 100 dollars back a loan of 500.            *)
(***************************************************************************)
EXTENDS AccruePosition

Running == [openPaused |-> FALSE, growPaused |-> FALSE, sunset |-> FALSE,
            collateralEnabled |-> TRUE, destinationEnabled |-> TRUE, fee |-> 1000]
Retired == [Running EXCEPT !.openPaused = TRUE, !.sunset = TRUE]
RetiredUnpaused == [Running EXCEPT !.sunset = TRUE]
Paused == [Running EXCEPT !.openPaused = TRUE, !.growPaused = TRUE]
DearerFee == [Running EXCEPT !.fee = 2000]
Delisted == [Running EXCEPT !.collateralEnabled = FALSE, !.destinationEnabled = FALSE]

RunningOnly == {Running}
AdminConfigs == {Running, Paused, DearerFee, Delisted, Retired, RetiredUnpaused}

Guarded == [target |-> 5000, protect |-> 6000, growBelow |-> 4000,
            growEnabled |-> TRUE, exitOnFlag |-> TRUE]
Eager == [target |-> 5000, protect |-> 5500, growBelow |-> 4999,
          growEnabled |-> TRUE, exitOnFlag |-> FALSE]

OneStrategy == {Guarded}
TwoStrategies == {Guarded, Eager}

Obsolete == [NoSignals EXCEPT !.obsolete = TRUE]
LimitCrossed == [NoSignals EXCEPT !.marketDeleverages = TRUE, !.reserveDeleverages = TRUE,
                                  !.borrowCrossedAt = 1, !.period = 1]

QuietOnly == {NoSignals}
LimitSignals == {NoSignals, LimitCrossed}
ObsoleteSignals == {NoSignals, Obsolete}

Collapse == {119, 45}
Swing == {100, 150}
Flat == {10}
Drift == {10, 12}
Halves == {10, 20}
\* Where a raw USDC is small beside a basis point of the collateral.
FineSwing == {13000, 8500, 20000}
==============================================================================
