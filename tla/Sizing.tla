-------------------------------- MODULE Sizing --------------------------------
(***************************************************************************)
(* Amounts are decided twice.  The app and the keeper read prices, size a  *)
(* borrow or a sale and build a transaction around it (packages/core,      *)
(* buildOpenPosition, buildTopUp, buildProtectByOwner, the keeper's        *)
(* guard.ts); when it lands the program works everything out again at the  *)
(* prices of that moment, and refuses what does not fit.  Between the two  *)
(* the stock's price moves and anybody refreshes the market.               *)
(*                                                                         *)
(* One position with the default strategy, grow switched on.  The prices   *)
(* of USDC and of the yield token stand still and no interest accrues.     *)
(***************************************************************************)
EXTENDS GuardMath

CONSTANTS
    One,                    \* SCALED_FRACTION_ONE, a dollar
    StockUnit, Usdc, Destination,
    Factor, MaxLtv, Threshold, Available,
    ShareBps, SlippageBps, BountyBps, BountyCap,
    MinPositionUsd, MaxPositionUsd,
    \* Inputs of an instance.
    StockPrices, StockAmounts, RouterRates,
    \* Bound of an instance: how many transactions are built.
    MaxBuilt

ASSUME SizingAssumption ==
    /\ {Usdc, Destination} \subseteq [unit : Nat \ {0}, price : Nat \ {0}]
    /\ {One, StockUnit, Factor, MaxLtv, Threshold} \subseteq Nat \ {0}
    /\ {Available, ShareBps, BountyBps, BountyCap, MinPositionUsd, MaxPositionUsd,
        MaxBuilt} \subseteq Nat
    /\ SlippageBps \in 0..500 /\ StockPrices \subseteq Nat \ {0}
    /\ StockAmounts \subseteq Nat \ {0} /\ RouterRates \subseteq (Bps - SlippageBps)..Bps

VARIABLES
    feed,        \* the price of the stock now
    reserve,     \* the price the market's reserve of it was last refreshed at
    position,    \* stock and USDC owed at the market, its value when last refreshed, yield token
    built,       \* the transaction on its way, or Nothing
    outcome,     \* what became of the last one
    count

sizingVars == <<feed, reserve, position, built, outcome, count>>

Nothing == [for |-> "nothing", by |-> "nobody", at |-> 0, valued |-> 0, stock |-> 0, raw |-> 0]

StockAt(price) == [unit |-> StockUnit, price |-> price]
Collateral(price) == UsdValue(StockAt(price), position.held)
AdjustedDebt(raw) == Weighted(UsdValue(Usdc, raw), Factor)
Ltv(price) == LoanToValueBps(AdjustedDebt(position.debt), Collateral(price))

------------------------------------------------------------------------------
(* The sizes (packages/core).                                              *)

\* Slip: the grow level of the target itself.
GrowUpToTheTarget(maxLtv) ==
    LET most == maxLtv \div 100
        target == ((most * 3) \div 20) * 5
    IN  [target |-> target * 100, protect |-> (most - 5) * 100, growBelow |-> target * 100]
DefaultStrategyFor(maxLtv) ==
    LET most == maxLtv \div 100
        target == ((most * 3) \div 20) * 5
    IN  [target |-> target * 100, protect |-> (most - 5) * 100,
         growBelow |-> Monus(target, 10) * 100]

strategy == DefaultStrategyFor(MaxLtv)

\* Slip: the margin on the wrong side.
ValuedABitOver(value) == (value * (Bps + 100)) \div Bps
ValuedForBorrowing(value) == (value * (Bps - 100)) \div Bps

\* A target is a whole number of percents, so that a hundred cancels.
BorrowForAnOpen(value) ==
    (ValuedForBorrowing(value) * (strategy.target \div 100) * Usdc.unit) \div (Percent * One)

TheBorrowToAskFor(room) ==
    LET share == (room * 10) \div Bps
        cent == One \div 100
    IN  Monus(room, IF share > cent THEN share ELSE cent)

\* Slip: what the added stock allows, whatever is owed already.
TheAddedValueAlone(value, added, debt) ==
    ValueAllowedAtTarget(ValuedForBorrowing(added), strategy.target)
BorrowForAddedValue(value, added, debt) ==
    Monus(ValueAllowedAtTarget(ValuedForBorrowing(value + added), strategy.target), debt)

\* Slip: the bounty left out of the sale.
SellForTheDebtAlone(adjusted, deposited) ==
    LET repay == RawWorthRoundingUp(Usdc, RepayToReachTarget(adjusted, deposited, strategy.target, Factor))
    IN  Least(AddTheSlippageBuffer(RawWorthRoundingUp(Destination, UsdValue(Usdc, repay)), SlippageBps),
              position.yield)
DestinationToSellForProtect(adjusted, deposited) ==
    LET value == RepayToReachTarget(adjusted, deposited, strategy.target, Factor)
        raise == RawWorthRoundingUp(Usdc, value)
                   + Least(RawWorthRoundingDown(Usdc, BountyOn(value, BountyBps)), BountyCap)
    IN  Least(AddTheSlippageBuffer(RawWorthRoundingUp(Destination, UsdValue(Usdc, raise)), SlippageBps),
              position.yield)

UsdcToBorrowForGrow(adjusted, deposited) ==
    RawWorthRoundingDown(Usdc, BorrowToReachTarget(adjusted, deposited, strategy.target, Factor))

------------------------------------------------------------------------------
(* What is built.                                                          *)

Build(tx) ==
    /\ built = Nothing /\ count < MaxBuilt
    /\ built' = tx /\ count' = count + 1 /\ outcome' = "none"
    /\ UNCHANGED <<feed, reserve, position>>

\* theLivePriceOf: the feed, or what the reserve carries when it cannot be read.
LivePrices == {feed, reserve}

BuildAnOpen(stock, live) ==
    LET value == UsdValue(StockAt(live), stock)
        borrow == BorrowForAnOpen(value)
    IN  /\ position.held = 0
        /\ value >= MinPositionUsd * One /\ value <= MaxPositionUsd * One
        /\ WithinAvailableShare(borrow, Available, ShareBps)
        /\ Build([for |-> "open", by |-> "owner", at |-> live, valued |-> value,
                  stock |-> stock, raw |-> borrow])

\* atTheLivePrice: what the market wrote for the position, by the price now over
\* the price the reserve carries.
AtTheLivePrice(value, live) == (value * live) \div reserve

BuildATopUp(stock, live) ==
    LET value == AtTheLivePrice(position.value, live)
        added == UsdValue(StockAt(live), stock)
        borrow == RawWorthRoundingDown(Usdc,
                    TheBorrowToAskFor(BorrowForAddedValue(value, added, AdjustedDebt(position.debt))))
    IN  /\ position.held > 0
        /\ (value + added) \div One <= MaxPositionUsd
        /\ borrow > 0
        /\ Build([for |-> "topUp", by |-> "owner", at |-> live, valued |-> value + added,
                  stock |-> stock, raw |-> borrow])

\* The keeper refreshes in a simulation and so sizes at the feed; the owner's
\* screen at the price the reserve carries.
PriceFor(by) == IF by = "keeper" THEN feed ELSE reserve

BuildAProtect(by) ==
    LET sell == DestinationToSellForProtect(AdjustedDebt(position.debt), Collateral(PriceFor(by)))
    IN  /\ position.held > 0 /\ sell > 0
        /\ by = "keeper" => Ltv(feed) >= strategy.protect
        /\ Build([for |-> "protect", by |-> by, at |-> PriceFor(by),
                  valued |-> Collateral(PriceFor(by)), stock |-> 0, raw |-> sell])

BuildAGrow ==
    LET borrow == UsdcToBorrowForGrow(AdjustedDebt(position.debt), Collateral(feed))
    IN  /\ position.held > 0 /\ borrow > 0 /\ Ltv(feed) <= strategy.growBelow
        /\ Build([for |-> "grow", by |-> "keeper", at |-> feed, valued |-> Collateral(feed),
                  stock |-> 0, raw |-> borrow])

------------------------------------------------------------------------------
(* What the program makes of it.                                           *)

WholeUsd(token, raw) == (raw * token.price) \div (token.unit * One)

Bought(usdc, rate) == (FairOutput(Usdc, usdc, Destination) * rate) \div Bps
Raised(sold, rate) == (FairOutput(Destination, sold, Usdc) * rate) \div Bps

LandsAtTarget(held, debt) ==
    AdjustedDebt(debt) <= ValueAllowedAtTarget(UsdValue(StockAt(feed), held), strategy.target)

\* Every instruction refreshes the market on its way; one that is refused, in the
\* app's own simulation or on the chain, leaves nothing behind.
Accept(held, debt, yield) ==
    /\ position' = [held |-> held, debt |-> debt, yield |-> yield,
                    value |-> UsdValue(StockAt(feed), held)]
    /\ reserve' = feed /\ outcome' = "done"
Refuse == outcome' = "refused" /\ UNCHANGED <<position, reserve>>

\* require_borrow_within_target counts both sides in whole dollars, the check
\* after the borrow does not.
OpenFits(tx) ==
    LET worth == WholeUsd(StockAt(feed), tx.stock)
    IN  /\ StrategyIsValid(strategy, MaxLtv, Threshold)
        /\ tx.raw > 0 /\ worth \in MinPositionUsd..MaxPositionUsd
        /\ Weighted(WholeUsd(Usdc, tx.raw), Factor) <= ValueAllowedAtTarget(worth, strategy.target)
        /\ WithinAvailableShare(tx.raw, Available, ShareBps)
        /\ LandsAtTarget(tx.stock, tx.raw)

TopUpFits(tx) ==
    /\ WithinAvailableShare(tx.raw, Available, ShareBps)
    /\ UsdValue(StockAt(feed), position.held + tx.stock) \div One <= MaxPositionUsd
    /\ LandsAtTarget(position.held + tx.stock, position.debt + tx.raw)

\* The route spends what it was built for, the program asks what it needs now.
Protecting == LET value == RepayToReachTarget(AdjustedDebt(position.debt), Collateral(feed),
                                              strategy.target, Factor)
                  repay == RawWorthRoundingUp(Usdc, value)
                  bounty == Least(RawWorthRoundingDown(Usdc, BountyOn(value, BountyBps)), BountyCap)
              IN  [repay |-> repay, bounty |-> bounty,
                   sell |-> Least(AddTheSlippageBuffer(
                                    RawWorthRoundingUp(Destination, UsdValue(Usdc, repay + bounty)),
                                    SlippageBps), position.yield)]

ProtectFits(tx, raised) ==
    LET p == Protecting
        repaying == Least(Least(p.repay, raised), position.debt)
    IN  /\ Ltv(feed) >= strategy.protect
        /\ p.sell > 0 /\ tx.raw <= p.sell
        /\ raised >= IF tx.by = "keeper"
                     THEN MinimumOutput(Destination, p.sell, Usdc, SlippageBps)
                     ELSE MinimumOutput(Destination, tx.raw, Usdc, SlippageBps)
        /\ repaying > 0
        /\ \/ LoanToValueBps(AdjustedDebt(position.debt - repaying), Collateral(feed)) <= strategy.target
           \/ tx.raw = position.yield

GrowFits(tx, bought) ==
    LET borrowing == UsdcToBorrowForGrow(AdjustedDebt(position.debt), Collateral(feed))
    IN  /\ Ltv(feed) <= strategy.growBelow
        /\ borrowing > 0 /\ WithinAvailableShare(borrowing, Available, ShareBps)
        /\ tx.raw <= borrowing
        /\ bought >= MinimumOutput(Usdc, borrowing, Destination, SlippageBps)
        /\ LoanToValueBps(AdjustedDebt(position.debt + borrowing), Collateral(feed)) <= strategy.target

Land(rate) ==
    /\ built # Nothing /\ built' = Nothing
    /\ CASE built.for = "open" ->
              IF OpenFits(built) THEN Accept(built.stock, built.raw, Bought(built.raw, rate)) ELSE Refuse
         [] built.for = "topUp" ->
              IF TopUpFits(built)
              THEN Accept(position.held + built.stock, position.debt + built.raw,
                          position.yield + Bought(built.raw, rate))
              ELSE Refuse
         [] built.for = "protect" ->
              IF ProtectFits(built, Raised(built.raw, rate))
              THEN Accept(position.held,
                          Monus(position.debt, Least(Protecting.repay, Raised(built.raw, rate))),
                          position.yield - built.raw)
              ELSE Refuse
         [] built.for = "grow" ->
              IF GrowFits(built, Bought(built.raw, rate))
              THEN Accept(position.held,
                          position.debt + UsdcToBorrowForGrow(AdjustedDebt(position.debt), Collateral(feed)),
                          position.yield + Bought(built.raw, rate))
              ELSE Refuse
    /\ UNCHANGED <<feed, count>>

------------------------------------------------------------------------------
(* What goes on around it (external).                                      *)

PriceMoves(price) ==
    /\ price # feed /\ feed' = price
    /\ UNCHANGED <<reserve, position, built, outcome, count>>

\* Anybody's transaction refreshes the reserve, a liquidator's the position too.
MarketIsRefreshed ==
    /\ reserve # feed /\ reserve' = feed
    /\ \/ UNCHANGED position
       \/ position' = [position EXCEPT !.value = Collateral(feed)]
    /\ UNCHANGED <<feed, built, outcome, count>>

SizingInit ==
    /\ feed \in StockPrices /\ reserve = feed
    /\ position = [held |-> 0, debt |-> 0, value |-> 0, yield |-> 0]
    /\ built = Nothing /\ outcome = "none" /\ count = 0

SizingNext ==
    \/ \E stock \in StockAmounts, live \in LivePrices :
         BuildAnOpen(stock, live) \/ BuildATopUp(stock, live)
    \/ \E by \in {"keeper", "owner"} : BuildAProtect(by)
    \/ BuildAGrow
    \/ \E rate \in RouterRates : Land(rate)
    \/ \E price \in StockPrices : PriceMoves(price)
    \/ MarketIsRefreshed

SizingSpec == SizingInit /\ [][SizingNext]_sizingVars

------------------------------------------------------------------------------
(* Properties.                                                             *)

\* The types of the variables; the default strategy is one the program accepts.
SizingTypeOK ==
    /\ {feed, reserve} \subseteq Nat \ {0}
    /\ position \in [held : Nat, debt : Nat, value : Nat, yield : Nat]
    /\ built \in [for : {"nothing", "open", "topUp", "protect", "grow"},
                  by : {"nobody", "owner", "keeper"}, at : Nat, valued : Nat, stock : Nat, raw : Nat]
    /\ outcome \in {"none", "done", "refused"} /\ count \in 0..MaxBuilt
    /\ StrategyIsValid(strategy, MaxLtv, Threshold)

\* What a value may have lost and still be within what the app allows for
\* (priceMargin.ts).
WithinTheMargin(now, then) == now * Bps >= then * (Bps - 100)

Lands(kind) == built.for = kind /\ \E rate \in RouterRates : Land(rate)

\* priceMargin.ts: an open lands under its target and is not refused, though the
\* program rounds to whole dollars on the way, while those whole dollars are within
\* the margin of what the stock was worth when the borrow was sized.
OpensTheMarginCovers ==
    [][LET worth == WholeUsd(StockAt(feed), built.stock)
       IN  /\ Lands("open") /\ built.raw > 0
           /\ worth \in MinPositionUsd..MaxPositionUsd
           /\ WithinTheMargin(worth * One, built.valued)
           => outcome' = "done"]_sizingVars

\* priceMargin.ts, topUp.ts: so does a top-up while the price is within the margin,
\* whatever the position owed before and however its value was rounded on the way,
\* when the app did not hold the position to be worth more than it was.
TopUpsTheMarginCovers ==
    [][/\ Lands("topUp") /\ WithinTheMargin(feed, built.at)
       /\ built.valued <= UsdValue(StockAt(built.at), position.held + built.stock)
       /\ UsdValue(StockAt(feed), position.held + built.stock) \div One <= MaxPositionUsd
       /\ WithinAvailableShare(built.raw, Available, ShareBps)
       => outcome' = "done"]_sizingVars

\* What the conversions between a debt and its sale may round away in all, against
\* a basis point of the collateral.
LostToRounding ==
    DivideRoundingUp((2 + 2 * RawWorthRoundingUp(Usdc, 1)) * Usdc.price, Usdc.unit)
RoundingIsBelowABasisPoint == LostToRounding * Bps < Collateral(feed)

\* core's guard.ts: the keeper's and the owner's sizes are the program's own. A
\* guard call that lands at the price it was sized at is never refused for its
\* size, whatever the router's rate within the slippage allowed, as long as what it
\* sells is not dust.
GuardCallsFit ==
    [][/\ built.at = feed /\ RoundingIsBelowABasisPoint
       /\ \/ /\ Lands("protect") /\ Ltv(feed) >= strategy.protect
             /\ MinimumOutput(Destination, built.raw, Usdc, SlippageBps) > 0
          \/ Lands("grow") /\ WithinAvailableShare(built.raw, Available, ShareBps)
       => outcome' = "done"]_sizingVars

\* priceMargin.ts, as it says: an open that lands at the price it was sized at is
\* under its target and not refused.
OpensFit == [][Lands("open") /\ built.at = feed => outcome' = "done"]_sizingVars
==============================================================================
