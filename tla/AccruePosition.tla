---------------------------- MODULE AccruePosition ----------------------------
(***************************************************************************)
(* One Accrue position: the Position account of state/position.rs, its     *)
(* three token accounts, its obligation at the lending market, the part of *)
(* the Config account the instructions read, and the market around it.     *)
(* Every instruction of lib.rs that touches a position is one action; a    *)
(* transaction is atomic, so a handler is one step and a failed require!   *)
(* is the action not being enabled.                                        *)
(*                                                                         *)
(* The lending market, the swap router and the oracle are other programs:  *)
(* they appear as the actions and operators marked external.               *)
(***************************************************************************)
EXTENDS GuardMath

CONSTANTS
    \* Limits of the Config account.
    BountyBps, BountyCap, SlippageBps, ProtectInterval, GrowInterval,
    ShareBps, MinPositionUsd, MaxPositionUsd,
    \* The configurations this instance explores: [openPaused, growPaused,
    \* sunset, collateralEnabled, destinationEnabled, fee].
    Configs,
    \* The strategies an owner may ask for: [target, protect, growBelow,
    \* growEnabled, exitOnFlag].
    Strategies,
    \* The lending market: its limits for the stock, the weight of a USDC
    \* debt, the USDC it can lend and whether it liquidates in this instance.
    MaxLtv, LiquidationThreshold, BorrowFactor, Available, LiquidationBonusBps,
    LiquidationHappens,
    \* Token units, the price of a whole USDC and a whole dollar in the units
    \* prices are counted in, and the prices and flags the market moves between.
    StockUnit, UsdcUnit, DestinationUnit, UsdcPrice, One,
    StockPrices, DestinationPrices, Signals,
    \* The router's fills, in basis points of the oracle's fair output, and
    \* how much of the input it may leave unspent.
    RouterRates, Unspent,
    \* The amounts the owner passes.
    StockAmounts, BorrowAmounts, RepayAmounts,
    \* Bounds of the instance.
    MaxTime, MaxStock, MaxBorrowed, MaxInterest, MaxGuardCount

NoSignals == [obsolete |-> FALSE, marginCallAt |-> 0,
              marketDeleverages |-> FALSE, reserveDeleverages |-> FALSE,
              depositCrossedAt |-> 0, borrowCrossedAt |-> 0, period |-> 0]

StrategyType == [target : Nat, protect : Nat, growBelow : Nat,
                 growEnabled : BOOLEAN, exitOnFlag : BOOLEAN]
ConfigType == [openPaused : BOOLEAN, growPaused : BOOLEAN, sunset : BOOLEAN,
               collateralEnabled : BOOLEAN, destinationEnabled : BOOLEAN,
               fee : Nat]
SignalType == [obsolete : BOOLEAN, marginCallAt : Nat,
               marketDeleverages : BOOLEAN, reserveDeleverages : BOOLEAN,
               depositCrossedAt : Nat, borrowCrossedAt : Nat, period : Nat]

ASSUME LimitsAssumption ==
    /\ BountyBps \in 0..100 /\ BountyCap \in Nat /\ SlippageBps \in 0..500
    /\ ProtectInterval \in Nat \ {0} /\ GrowInterval \in Nat \ {0}
    /\ ShareBps \in 0..2000
    /\ MinPositionUsd \in Nat \ {0} /\ MaxPositionUsd \in Nat

ASSUME ChoicesAssumption ==
    /\ Configs \subseteq {c \in ConfigType : c.fee <= 2000}
    /\ Strategies \subseteq StrategyType
    /\ Signals \subseteq SignalType /\ NoSignals \in Signals
    /\ RouterRates \subseteq Nat /\ Unspent \subseteq Nat
    /\ StockAmounts \subseteq Nat /\ BorrowAmounts \subseteq Nat
    /\ RepayAmounts \subseteq Nat

ASSUME MarketAssumption ==
    /\ MaxLtv \in Nat /\ LiquidationThreshold \in Nat
    /\ BorrowFactor \in Nat \ {0} /\ Available \in Nat
    /\ LiquidationBonusBps \in Nat /\ LiquidationHappens \in BOOLEAN
    /\ StockUnit \in Nat \ {0} /\ UsdcUnit \in Nat \ {0}
    /\ DestinationUnit \in Nat \ {0} /\ UsdcPrice \in Nat \ {0}
    /\ One \in Nat \ {0}
    /\ StockPrices \subseteq Nat \ {0} /\ DestinationPrices \subseteq Nat \ {0}

ASSUME BoundsAssumption ==
    /\ MaxTime \in Nat /\ MaxStock \in Nat /\ MaxBorrowed \in Nat
    /\ MaxInterest \in Nat /\ MaxGuardCount \in Nat

VARIABLES
    pos,      \* the Position account; state "None" while it does not exist
    config,   \* the Config account
    obl,      \* the obligation: exists, deposited stock, USDC debt rounded up
    held,     \* the position's token accounts
    market,   \* prices, whether the oracle is fresh, deleverage signals
    now,      \* the clock, in seconds of some coarse unit
    paid,     \* USDC sent to the treasury and to the callers of protect
    tally     \* history: interest accrued, debt repaid by liquidators

vars == <<pos, config, obl, held, market, now, paid, tally>>

------------------------------------------------------------------------------
(* Reading the accounts.                                                   *)

Callers == {"owner", "anyone"}

Stock == [unit |-> StockUnit, price |-> market.stockPrice]
Usdc == [unit |-> UsdcUnit, price |-> UsdcPrice]
Destination == [unit |-> DestinationUnit, price |-> market.destinationPrice]

DepositedValue(o) == UsdValue(Stock, o.dep)
AdjustedDebt(o) == Weighted(UsdValue(Usdc, o.debt), BorrowFactor)
LoanToValue(o) == LoanToValueBps(AdjustedDebt(o), DepositedValue(o))
WithinTarget(o, target) ==
    AdjustedDebt(o) <= ValueAllowedAtTarget(DepositedValue(o), target)
\* Slip: the market's own limit instead of the owner's target.
LandsWithinTheMarket(o) == LoanToValue(o) <= MaxLtv
LandsAtTarget(o) == LoanToValue(o) <= pos.strategy.target
WholeUsd(value) == value \div One

NothingHeld == [stock |-> 0, usdc |-> 0, dest |-> 0]
NoObligation == [exists |-> FALSE, dep |-> 0, debt |-> 0]
NoPosition ==
    [state |-> "None", strategy |-> [target |-> 0, protect |-> 0, growBelow |-> 0,
                                     growEnabled |-> FALSE, exitOnFlag |-> FALSE],
     fee |-> 0, lastProtect |-> 0, lastGrow |-> 0, protects |-> 0, grows |-> 0,
     borrowed |-> 0, repaid |-> 0, sales |-> 0, owed |-> 0]

Exists == pos.state # "None"
NotClosed == Exists /\ pos.state # "Closed"
\* Slip: the pause flag alone, which the guardian can lift again.
OpensNotPaused == ~config.openPaused
OpensAllowed == ~config.sunset /\ ~config.openPaused
GrowsAllowed == ~config.growPaused
BothTokensEnabled == config.collateralEnabled /\ config.destinationEnabled

\* record_borrow, record_repay and record_sale; and slips in them.
RecordBorrow(p, amount) == [p EXCEPT !.borrowed = @ + amount]
RecordRepayUnsaturated(p, amount) == [p EXCEPT !.repaid = @ + amount, !.owed = @ - amount]
RecordRepayOfOwed(p, amount) == [p EXCEPT !.repaid = @ + Least(p.owed, amount), !.owed = Monus(@, amount)]
RecordRepayAlone(p, amount) == [p EXCEPT !.repaid = @ + amount]
RecordRepay(p, amount) == [p EXCEPT !.repaid = @ + amount, !.owed = Monus(@, amount)]
RecordSale(p, amount) == [p EXCEPT !.sales = @ + amount]

------------------------------------------------------------------------------
(* The other programs, external.                                           *)

\* The market lets a debt stand only below its own limit for the stock.
MarketAllows(o) ==
    o.debt = 0 \/ AdjustedDebt(o) <= ValueAllowedAtTarget(DepositedValue(o), MaxLtv)

\* Once nothing is left in it the market closes the obligation account.
ClosedWhenEmpty(o) == [o EXCEPT !.exists = (o.dep # 0 \/ o.debt # 0)]

\* The router spends most of what it is given and returns what it likes; a
\* swap lands when the return reaches the caller's minimum.
Swaps(selling, amount, buying, minimum) ==
    {s \in [spent : {amount - u : u \in {x \in Unspent : x < amount}},
            got : {(FairOutput(selling, amount, buying) * r) \div Bps : r \in RouterRates}] :
        s.got >= minimum}

\* An owner names the minimum themselves; everyone else gets the oracle's.
SwapMinimum(by, selling, amount, buying) ==
    IF by = "owner" THEN 0 ELSE MinimumOutput(selling, amount, buying, SlippageBps)

------------------------------------------------------------------------------
(* The owner's instructions.                                               *)

\* What open_position and top_up share once the amounts are accepted: the
\* stock is deposited, the USDC borrowed and, unless the swap is left for
\* later, all of it spent on the destination token: a swap that leaves some
\* unspent ends with more USDC than the position began with and is refused.
DepositAndBorrow(p, dep, borrow, later, leastOut) ==
    LET o == [exists |-> TRUE, dep |-> obl.dep + dep, debt |-> obl.debt + borrow]
    IN  /\ MarketAllows(o)
        /\ WithinTarget(o, p.strategy.target)
        /\ obl' = o
        /\ \/ /\ later
              /\ held' = [held EXCEPT !.usdc = @ + borrow]
              /\ pos' = [RecordBorrow(p, borrow) EXCEPT !.state = "AwaitingSwap"]
           \/ /\ ~later
              /\ \E s \in Swaps(Usdc, borrow, Destination, leastOut) :
                    /\ s.spent = borrow
                    /\ held' = [held EXCEPT !.dest = @ + s.got]
              /\ pos' = RecordBorrow(p, borrow)

OpenPosition(strategy, dep, borrow, later) ==
    LET value == UsdValue(Stock, dep)
        usd == WholeUsd(value)
    IN  /\ pos.state = "None"
        /\ OpensAllowed
        /\ BothTokensEnabled
        /\ ~market.signals.obsolete
        /\ StrategyIsValid(strategy, MaxLtv, LiquidationThreshold)
        /\ dep > 0 /\ borrow > 0
        /\ usd >= MinPositionUsd /\ usd <= MaxPositionUsd
        /\ Weighted(WholeUsd(UsdValue(Usdc, borrow)), BorrowFactor)
             <= ValueAllowedAtTarget(usd, strategy.target)
        /\ WithinAvailableShare(borrow, Available, ShareBps)
        /\ borrow <= MaxBorrowed /\ dep <= MaxStock
        /\ DepositAndBorrow([NoPosition EXCEPT !.state = "Open", !.strategy = strategy,
                                               !.fee = config.fee],
                            dep, borrow, later, 0)
        /\ paid' = [treasury |-> 0, callers |-> 0]
        /\ tally' = [interest |-> 0, liquidated |-> 0]
        /\ UNCHANGED <<config, market, now>>

BuyDestination ==
    /\ pos.state = "AwaitingSwap"
    /\ config.collateralEnabled
    /\ obl.exists
    /\ held.usdc > 0
    /\ \E s \in Swaps(Usdc, held.usdc, Destination, 1) :
          held' = [held EXCEPT !.usdc = @ - s.spent, !.dest = @ + s.got]
    /\ pos' = [pos EXCEPT !.state = "Open"]
    /\ UNCHANGED <<config, obl, market, now, paid, tally>>

TopUp(dep, borrow, later) ==
    /\ pos.state = "Open"
    /\ OpensAllowed
    /\ BothTokensEnabled
    /\ obl.exists
    /\ ~market.signals.obsolete
    /\ dep > 0 /\ borrow > 0
    /\ WithinAvailableShare(borrow, Available, ShareBps)
    /\ WholeUsd(UsdValue(Stock, obl.dep + dep)) <= MaxPositionUsd
    /\ pos.borrowed + borrow <= MaxBorrowed /\ obl.dep + dep <= MaxStock
    /\ DepositAndBorrow(pos, dep, borrow, later, 1)
    /\ UNCHANGED <<config, market, now, paid, tally>>

AddCollateral(amount) ==
    /\ NotClosed
    /\ obl.exists
    /\ amount > 0
    /\ ~market.signals.obsolete
    /\ obl.dep + amount <= MaxStock
    /\ obl' = [obl EXCEPT !.dep = @ + amount]
    /\ UNCHANGED <<pos, config, held, market, now, paid, tally>>

Repay(requested) ==
    LET amount == Least(requested, obl.debt)
    IN  /\ NotClosed
        /\ obl.exists
        /\ requested > 0
        /\ obl.debt > 0
        /\ obl' = [obl EXCEPT !.debt = @ - amount]
        /\ pos' = RecordRepay(pos, amount)
        /\ UNCHANGED <<config, held, market, now, paid, tally>>

\* The obligation is refreshed again after the withdrawal, so taking the last
\* of the stock out of an obligation without debt fails: it is gone by then.
WithdrawCollateral(amount) ==
    LET o == [obl EXCEPT !.dep = @ - amount]
    IN  /\ NotClosed
        /\ obl.exists
        /\ amount > 0 /\ amount <= obl.dep
        /\ MarketAllows(o)
        /\ ClosedWhenEmpty(o).exists
        /\ LandsAtTarget(o)
        /\ obl' = o
        /\ held' = [held EXCEPT !.stock = 0]
        /\ UNCHANGED <<pos, config, market, now, paid, tally>>

SetStrategy(strategy) ==
    /\ NotClosed
    /\ obl.exists
    /\ StrategyIsValid(strategy, MaxLtv, LiquidationThreshold)
    /\ pos' = [pos EXCEPT !.strategy = strategy]
    /\ UNCHANGED <<config, obl, held, market, now, paid, tally>>

\* The sale of all of the destination token, or nothing when none is held.
SaleOfEverything(minimum) ==
    IF held.dest = 0 THEN {[spent |-> 0, got |-> 0]}
    ELSE Swaps(Destination, held.dest, Usdc, minimum)

\* The fee is the one copied when the position opened; slip: today's.
FeeAtTodaysRate(sales, repaid, left) == Least(PerformanceFee(sales, repaid, config.fee), left)
FeeOnClosing(sales, repaid, left) == Least(PerformanceFee(sales, repaid, pos.fee), left)

\* What the sale leaves short comes from the owner's wallet, so the debt is
\* always repaid in full; an owner who cannot cover it cannot call unwind.
Unwind ==
    /\ NotClosed
    /\ obl.exists
    /\ \E s \in SaleOfEverything(0) :
         LET cash == held.usdc + s.got
             shortfall == Monus(obl.debt, cash)
             left == cash + shortfall - obl.debt
             fee == FeeOnClosing(pos.sales + s.got, pos.repaid + obl.debt, left)
         IN  /\ paid' = [paid EXCEPT !.treasury = @ + fee]
             /\ pos' = [RecordRepay(RecordSale(pos, s.got), obl.debt) EXCEPT !.state = "Closed"]
    /\ obl' = IF obl.dep > 0 THEN NoObligation ELSE [obl EXCEPT !.debt = 0]
    /\ held' = NothingHeld
    /\ UNCHANGED <<config, market, now, tally>>

RescuedObligation ==
    LET out == Withdrawable(obl.dep, obl.debt, AdjustedDebt(obl), DepositedValue(obl), MaxLtv)
    IN  [obl EXCEPT !.dep = @ - out]

\* Slips: the loan is not looked at, the state is left as it was.
ClosedAfterRescue(o) == "Closed"
UnmarkedAfterRescue(o) == IF o.debt > 0 THEN pos.state ELSE "Closed"
StateAfterRescue(o) == IF o.debt > 0 THEN "Closing" ELSE "Closed"

\* No state, pause or price is looked at.  The withdrawal is sized so that the
\* market lets it through.
Rescue ==
    LET o == RescuedObligation
    IN  /\ Exists
        /\ o.dep # obl.dep => MarketAllows(o)
        /\ obl' = IF o.dep # obl.dep THEN ClosedWhenEmpty(o) ELSE obl
        /\ held' = NothingHeld
        /\ pos' = [pos EXCEPT !.state = StateAfterRescue(o)]
        /\ UNCHANGED <<config, market, now, paid, tally>>

\* Slip: only the token accounts are looked at.
NothingHeldHere == held = NothingHeld
NothingIsLeft == obl.debt = 0 /\ obl.dep = 0 /\ held = NothingHeld

ClosePosition ==
    /\ Exists
    /\ NothingIsLeft
    /\ pos' = NoPosition
    /\ UNCHANGED <<config, obl, held, market, now, paid, tally>>

------------------------------------------------------------------------------
(* The guard's instructions, which anyone may send.                        *)

PriceIsUsable(by) == by = "owner" \/ market.fresh

\* The interval binds neither the owner nor a position past the liquidation
\* line.
ProtectMayRun(by) ==
    \/ by = "owner"
    \/ LoanToValue(obl) >= LiquidationThreshold
    \/ IntervalHasElapsed(pos.lastProtect, now, ProtectInterval)

RepayNeeded ==
    RawWorthRoundingUp(Usdc, RepayToReachTarget(
        AdjustedDebt(obl), DepositedValue(obl), pos.strategy.target, BorrowFactor))
\* Slip: the cap is forgotten.
BountyUncapped ==
    RawWorthRoundingDown(Usdc, BountyOn(RepayToReachTarget(
        AdjustedDebt(obl), DepositedValue(obl), pos.strategy.target, BorrowFactor),
        BountyBps))
BountyWanted ==
    Least(BountyCap,
          RawWorthRoundingDown(Usdc, BountyOn(RepayToReachTarget(
              AdjustedDebt(obl), DepositedValue(obl), pos.strategy.target, BorrowFactor),
              BountyBps)))
DestinationToSell ==
    Least(held.dest,
          AddTheSlippageBuffer(
              RawWorthRoundingUp(Destination, UsdValue(Usdc, RepayNeeded + BountyWanted)),
              SlippageBps))

\* Slip: all that was raised is repaid, the surplus of the slippage buffer too.
RepayingAll(raised) == Least(raised, obl.debt)
Repaying(raised) == Least(RepayNeeded, Least(raised, obl.debt))

Protect(by) ==
    /\ pos.state = "Open"
    /\ obl.exists
    /\ LoanToValue(obl) >= pos.strategy.protect
    /\ ProtectMayRun(by)
    /\ PriceIsUsable(by)
    /\ DestinationToSell > 0
    /\ pos.protects < MaxGuardCount
    /\ \E s \in Swaps(Destination, DestinationToSell, Usdc,
                      SwapMinimum(by, Destination, DestinationToSell, Usdc)) :
         LET repaying == Repaying(s.got)
             bounty == Least(BountyWanted, s.got - repaying)
             o == [obl EXCEPT !.debt = @ - repaying]
         IN  /\ repaying > 0
             /\ LandsAtTarget(o) \/ held.dest = s.spent
             /\ obl' = o
             /\ held' = [held EXCEPT !.usdc = @ + s.got - repaying - bounty,
                                     !.dest = @ - s.spent]
             /\ paid' = [paid EXCEPT !.callers = @ + bounty]
             /\ pos' = [RecordRepay(RecordSale(pos, s.got), repaying)
                          EXCEPT !.lastProtect = now, !.protects = @ + 1]
    /\ UNCHANGED <<config, market, now, tally>>

RoomToTarget ==
    RawWorthRoundingDown(Usdc, BorrowToReachTarget(
        AdjustedDebt(obl), DepositedValue(obl), pos.strategy.target, BorrowFactor))

Grow(by) ==
    LET borrow == RoomToTarget
        o == [obl EXCEPT !.debt = @ + borrow]
    IN  /\ pos.state = "Open"
        /\ GrowsAllowed
        /\ pos.strategy.growEnabled
        /\ config.destinationEnabled
        /\ obl.exists
        /\ LoanToValue(obl) <= pos.strategy.growBelow
        /\ IntervalHasElapsed(pos.lastGrow, now, GrowInterval)
        /\ PriceIsUsable(by)
        /\ borrow > 0
        /\ WithinAvailableShare(borrow, Available, ShareBps)
        /\ MarketAllows(o)
        /\ LandsAtTarget(o)
        /\ pos.grows < MaxGuardCount /\ pos.borrowed + borrow <= MaxBorrowed
        /\ \E s \in Swaps(Usdc, borrow, Destination, SwapMinimum(by, Usdc, borrow, Destination)) :
              held' = [held EXCEPT !.usdc = @ + borrow - s.spent, !.dest = @ + s.got]
        /\ obl' = o
        /\ pos' = [RecordBorrow(pos, borrow) EXCEPT !.lastGrow = now, !.grows = @ + 1]
        /\ UNCHANGED <<config, market, now, paid, tally>>

\* Only a sale needs a price.
LeaveMayRun(by) ==
    /\ NotClosed
    /\ obl.exists
    /\ config.sunset \/ pos.strategy.exitOnFlag
    /\ ThereIsAReasonToLeave(market.signals, config.sunset, now)
    /\ held.dest > 0 => PriceIsUsable(by)

\* The floor is the oracle's for every caller.
LeaveSales ==
    SaleOfEverything(MinimumOutput(Destination, held.dest, Usdc, SlippageBps))

LeavePartWay(by) ==
    /\ LeaveMayRun(by)
    /\ \E s \in LeaveSales :
         LET cash == held.usdc + s.got
             owed == obl.debt - cash
         IN  /\ obl.debt > cash
             /\ obl' = [obl EXCEPT !.debt = owed]
             /\ held' = [held EXCEPT !.usdc = 0, !.dest = @ - s.spent]
             /\ pos' = [RecordRepay(RecordSale(pos, s.got), cash)
                          EXCEPT !.owed = owed, !.state = "Closing"]
    /\ UNCHANGED <<config, market, now, paid, tally>>

LeaveEntirely(by) ==
    /\ LeaveMayRun(by)
    /\ \E s \in LeaveSales :
         /\ obl.debt <= held.usdc + s.got
         /\ pos' = [RecordRepay(RecordSale(pos, s.got), obl.debt) EXCEPT !.state = "Closed"]
    /\ obl' = IF obl.dep > 0 THEN NoObligation ELSE [obl EXCEPT !.debt = 0]
    /\ held' = NothingHeld
    /\ UNCHANGED <<config, market, now, paid, tally>>

------------------------------------------------------------------------------
(* The admin and the guardian.                                             *)

SetPaused(openPaused, growPaused) ==
    /\ config' = [config EXCEPT !.openPaused = openPaused, !.growPaused = growPaused]
    /\ config' \in Configs
    /\ UNCHANGED <<pos, obl, held, market, now, paid, tally>>

SetSunset ==
    /\ config' = [config EXCEPT !.sunset = TRUE, !.openPaused = TRUE]
    /\ config' \in Configs
    /\ UNCHANGED <<pos, obl, held, market, now, paid, tally>>

\* The limits and list entries an update rewrites; it reaches no flag.
UpdateConfig(fee, collateralEnabled, destinationEnabled) ==
    /\ config' = [config EXCEPT !.fee = fee, !.collateralEnabled = collateralEnabled,
                                !.destinationEnabled = destinationEnabled]
    /\ config' \in Configs
    /\ UNCHANGED <<pos, obl, held, market, now, paid, tally>>

------------------------------------------------------------------------------
(* The market around the position, external.                               *)

StockPriceMoves ==
    /\ \E p \in StockPrices : market' = [market EXCEPT !.stockPrice = p]
    /\ UNCHANGED <<pos, config, obl, held, now, paid, tally>>

DestinationPriceMoves ==
    /\ \E p \in DestinationPrices : market' = [market EXCEPT !.destinationPrice = p]
    /\ UNCHANGED <<pos, config, obl, held, now, paid, tally>>

\* The last price grows older than max_price_age_slots, or a new one arrives.
OracleFreshnessChanges ==
    /\ market' = [market EXCEPT !.fresh = ~@]
    /\ UNCHANGED <<pos, config, obl, held, now, paid, tally>>

MarketFlags ==
    /\ \E f \in Signals : market' = [market EXCEPT !.signals = f]
    /\ UNCHANGED <<pos, config, obl, held, now, paid, tally>>

TimePasses ==
    /\ now < MaxTime
    /\ now' = now + 1
    /\ UNCHANGED <<pos, config, obl, held, market, paid, tally>>

InterestAccrues ==
    /\ obl.debt > 0
    /\ tally.interest < MaxInterest
    /\ obl' = [obl EXCEPT !.debt = @ + 1]
    /\ tally' = [tally EXCEPT !.interest = @ + 1]
    /\ UNCHANGED <<pos, config, held, market, now, paid>>

\* A liquidator repays part or all of the debt and takes stock worth as much
\* and the bonus, or all of the stock.
Liquidation ==
    /\ LiquidationHappens
    /\ obl.debt > 0
    /\ LoanToValue(obl) >= LiquidationThreshold
    /\ \E repaid \in {obl.debt, DivideRoundingUp(obl.debt, 2)} :
         LET worth == (UsdValue(Usdc, repaid) * (Bps + LiquidationBonusBps)) \div Bps
             seized == Least(obl.dep, RawWorthRoundingUp(Stock, worth))
         IN  /\ obl' = ClosedWhenEmpty([obl EXCEPT !.debt = @ - repaid, !.dep = @ - seized])
             /\ tally' = [tally EXCEPT !.liquidated = @ + repaid]
    /\ UNCHANGED <<pos, config, held, market, now, paid>>

------------------------------------------------------------------------------
Init ==
    /\ pos = NoPosition
    /\ config \in {c \in Configs : ~c.sunset}
    /\ obl = NoObligation
    /\ held = NothingHeld
    /\ market \in [stockPrice : StockPrices, destinationPrice : DestinationPrices,
                   fresh : {TRUE}, signals : {NoSignals}]
    /\ now = 1
    /\ paid = [treasury |-> 0, callers |-> 0]
    /\ tally = [interest |-> 0, liquidated |-> 0]

OwnerSteps ==
    \/ \E strategy \in Strategies, dep \in StockAmounts, borrow \in BorrowAmounts,
          later \in BOOLEAN : OpenPosition(strategy, dep, borrow, later)
    \/ BuyDestination
    \/ \E dep \in StockAmounts, borrow \in BorrowAmounts, later \in BOOLEAN :
          TopUp(dep, borrow, later)
    \/ \E amount \in StockAmounts : AddCollateral(amount)
    \/ \E amount \in RepayAmounts : Repay(amount)
    \/ \E amount \in StockAmounts : WithdrawCollateral(amount)
    \/ \E strategy \in Strategies : SetStrategy(strategy)
    \/ Unwind
    \/ Rescue
    \/ ClosePosition

GuardSteps ==
    \E by \in Callers : Protect(by) \/ Grow(by) \/ LeavePartWay(by) \/ LeaveEntirely(by)

AdminSteps ==
    \/ \E o \in BOOLEAN, g \in BOOLEAN : SetPaused(o, g)
    \/ SetSunset
    \/ \E c \in Configs : UpdateConfig(c.fee, c.collateralEnabled, c.destinationEnabled)

MarketSteps ==
    \/ StockPriceMoves
    \/ DestinationPriceMoves
    \/ OracleFreshnessChanges
    \/ MarketFlags
    \/ TimePasses
    \/ InterestAccrues
    \/ Liquidation

Next == OwnerSteps \/ GuardSteps \/ AdminSteps \/ MarketSteps

Spec == Init /\ [][Next]_vars

------------------------------------------------------------------------------
(* Properties.                                                             *)

PositionType ==
    [state : {"None", "AwaitingSwap", "Open", "Closing", "Closed"},
     strategy : StrategyType, fee : Nat, lastProtect : Nat, lastGrow : Nat,
     protects : Nat, grows : Nat, borrowed : Nat, repaid : Nat, sales : Nat, owed : Nat]

\* Every account holds what its type allows: no amount ever goes below zero,
\* in particular no subtraction a handler makes unchecked in this model.
TypeOK ==
    /\ pos \in PositionType
    /\ config \in Configs
    /\ obl \in [exists : BOOLEAN, dep : Nat, debt : Nat]
    /\ held \in [stock : Nat, usdc : Nat, dest : Nat]
    /\ market \in [stockPrice : StockPrices, destinationPrice : DestinationPrices,
                   fresh : BOOLEAN, signals : Signals]
    /\ now \in Nat
    /\ paid \in [treasury : Nat, callers : Nat]
    /\ tally \in [interest : Nat, liquidated : Nat]

\* A position that says it is closed owes the market nothing and nothing is
\* left in its obligation or its accounts, a position handed back keeps no
\* cash the owner could still be missing, and stock is never left between the
\* owner and the market: the sends at the end of unwind, leave and rescue.
HandedBackIsEmpty ==
    /\ pos.state \in {"None", "Closed"} =>
          obl.dep = 0 /\ obl.debt = 0 /\ held = NothingHeld
    /\ pos.state = "Closing" => held.usdc = 0
    /\ held.stock = 0
    /\ ~obl.exists => obl.dep = 0 /\ obl.debt = 0

\* The totals on the account explain the debt: what was borrowed and what the
\* market added is what was repaid, by anyone, and what is still owed.  Every
\* handler that moves USDC to or from the market has to record it.
LedgerBalances ==
    Exists => obl.debt + pos.repaid + tally.liquidated = pos.borrowed + tally.interest

\* state/position.rs: usdc_owed_at_leave is zero in every state but Closing,
\* and the number never says more is owed than is.
OwedIsNeverOverstated ==
    /\ pos.owed <= obl.debt
    /\ pos.state # "Closing" => pos.owed = 0

\* A position waiting for its swap always has the USDC to swap, so
\* buy_destination can never be stuck on an empty account.
AwaitingSwapHasItsCash == pos.state = "AwaitingSwap" => held.usdc > 0

\* The amount rescue takes out is one the market lets through, in whatever
\* state the position and the prices are: an owner is never refused.
RescueIsNeverRefused ==
    Exists /\ RescuedObligation.dep # obl.dep => MarketAllows(RescuedObligation)

\* One more unit of stock, and where the stock's worth is not a whole value, the
\* units its rounding may hide.
OneMore ==
    IF (obl.dep * market.stockPrice) % StockUnit = 0 THEN 1
    ELSE 1 + RawWorthRoundingUp(Stock, 1)

\* Rescue leaves nothing behind it could have taken: the market would refuse
\* one more unit of any stock that is worth something.
RescueTakesAllItMay ==
    Exists /\ RescuedObligation.dep > 0 /\ DepositedValue(obl) > 0 =>
        ~MarketAllows([RescuedObligation EXCEPT !.dep = Monus(@, OneMore)])

\* A step that leaves more debt or less stock behind it and is neither the
\* market's interest nor a liquidation, which the tally counts: an instruction.
TakesRisk ==
    /\ obl'.debt > obl.debt \/ obl'.dep < obl.dep
    /\ tally'.interest <= tally.interest /\ tally'.liquidated <= tally.liquidated

\* The loan to value is at most a limit, and means something: the market reads
\* zero for a debt whose collateral is worth nothing.
IsWithin(o, limit) ==
    /\ LoanToValue(o) <= limit
    /\ DepositedValue(o) = 0 => AdjustedDebt(o) = 0

\* Whoever calls, an instruction that lends or lets stock go (open, top-up,
\* grow, withdraw, unwind, leave) ends within the owner's target, from whatever
\* liquidators have left; rescue alone goes up to the limit the market sets,
\* and hands back.
RiskOnlyRisesToTheTarget ==
    [][TakesRisk => \/ IsWithin(obl, pos.strategy.target)'
                    \/ Rescue /\ pos'.state = "Closing" /\ IsWithin(obl, MaxLtv)']_vars

ProtectIsCalledFor ==
    /\ pos.state = "Open" /\ obl.exists
    /\ LoanToValue(obl) >= pos.strategy.protect
    /\ DestinationToSell > 0

GrowIsCalledFor ==
    /\ pos.state = "Open" /\ obl.exists /\ pos.strategy.growEnabled
    /\ LoanToValue(obl) <= pos.strategy.growBelow
    /\ RoomToTarget > 0

\* What the sale brought repays the loan down to the target, or there was no
\* more to sell.
FillReachesTheTarget(s) ==
    LET o == [obl EXCEPT !.debt = @ - Repaying(s.got)]
    IN  /\ Repaying(s.got) > 0
        /\ LandsAtTarget(o) \/ held.dest = s.spent

\* What the conversions between a loan and its sale may round away in all, as a
\* weighted debt, against a basis point of the collateral.
UsdcLostToRounding == 2 + 2 * RawWorthRoundingUp(Usdc, 1)
DebtLostToRounding ==
    DivideRoundingUp(
        DivideRoundingUp(UsdcLostToRounding * UsdcPrice, UsdcUnit) * BorrowFactor, Percent)
RoundingIsBelowABasisPoint == DebtLostToRounding * Bps < DepositedValue(obl)

\* The sale is sized before the swap and buffered for its slippage: whenever
\* protect is called for, every fill that sells all of it and that the oracle's
\* minimum lets through reaches the target, so a bad price is never what keeps
\* protect from landing.  Fills that sell a part only are left out, and so is
\* the last dust of a holding, of which the router may pay nothing at all.
AnyFillReachesTheTarget ==
    ProtectIsCalledFor /\ RoundingIsBelowABasisPoint =>
        \A s \in Swaps(Destination, DestinationToSell, Usdc,
                       SwapMinimum("anyone", Destination, DestinationToSell, Usdc)) :
            s.spent = DestinationToSell /\ s.got > 0 => FillReachesTheTarget(s)

\* The room a guard step may leave below the target: what its two roundings to a
\* whole raw USDC and a whole weighted value cost, one raw USDC as a rule.
RoomLeftByRounding ==
    RawWorthRoundingDown(Usdc,
        DivideRoundingUp(UsdcPrice, UsdcUnit) + DivideRoundingUp(Percent, BorrowFactor))

\* A guard step settles the position: until the market or the owner moves,
\* protect is not called for again, nor grow for more than a rounding, so a
\* caller can neither earn the bounty twice for one fall nor drive the
\* position back and forth.
GuardSettles ==
    [][pos'.protects > pos.protects \/ pos'.grows > pos.grows =>
         /\ ~ProtectIsCalledFor'
         /\ GrowIsCalledFor' => RoomToTarget' <= RoomLeftByRounding]_vars

\* A caller is paid for debt actually repaid, at no more than the bounty's
\* rate and cap, and out of the sale: never out of USDC the position held.
BountyIsEarned ==
    [][paid'.callers > paid.callers =>
         /\ (paid'.callers - paid.callers) * Bps <= BountyBps * (pos'.repaid - pos.repaid)
         /\ paid'.callers - paid.callers <= BountyCap
         /\ held'.usdc >= held.usdc]_vars

\* The treasury takes the share agreed when the position opened of what the
\* sales brought beyond the loan and its interest, whatever the config says
\* by then, and takes it only when the position is closed.
FeeIsOnProfitAtTheAgreedRate ==
    [][paid'.treasury > paid.treasury =>
         /\ (paid'.treasury - paid.treasury) * Bps
              <= pos.fee * Monus(pos'.sales, pos'.borrowed + tally.interest)
         /\ pos'.state = "Closed"]_vars

\* Once the program retires it stays retired, whatever the pause flags say
\* later: no account is opened and none takes a new loan for its owner.
SunsetIsForever ==
    [][config.sunset =>
         /\ config'.sunset
         /\ pos.state = "None" => pos'.state = "None"
         /\ pos'.borrowed > pos.borrowed => pos'.grows > pos.grows]_vars

\* The promise of PositionLifecycle, with the amounts forgotten.
Lifecycle ==
    INSTANCE PositionLifecycle WITH
        state <- pos.state,
        indebted <- obl.debt > 0,
        funded <- obl.dep > 0 \/ held # NothingHeld

KeepsItsLifecycle == Lifecycle!LifecycleSpec

==============================================================================
