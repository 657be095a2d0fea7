------------------------------ MODULE SizingProofs ------------------------------
(***************************************************************************)
(* What the app and the keeper ask for is what the program accepts, for    *)
(* every price, amount, market and rate: as long as the value stays within *)
(* the margin, an open and a top-up land, and a guard call does that lands *)
(* at the price it was sized at.                                           *)
(***************************************************************************)
EXTENDS Sizing, GuardMathProofs

------------------------------------------------------------------------------
(* What the constants and the sizes are.                                   *)

\* The tokens can be priced and the limits have the types the arithmetic needs.
LEMMA SizingConstants ==
    /\ Usdc \in TokenType /\ Destination \in TokenType
    /\ StockUnit \in Nat \ {0} /\ One \in Nat \ {0} /\ Factor \in Nat \ {0}
    /\ MaxLtv \in Nat \ {0} /\ Threshold \in Nat \ {0}
    /\ {Available, ShareBps, BountyBps, BountyCap, MinPositionUsd, MaxPositionUsd,
        MaxBuilt} \subseteq Nat
    /\ SlippageBps \in 0..500
    /\ \A rate \in RouterRates : rate \in Nat /\ Bps - SlippageBps <= rate
BY SizingAssumption DEF TokenType, Bps

\* The default strategy's levels are numbers, its target a whole number of percents.
LEMMA StrategyFact ==
    /\ strategy.target \in Nat /\ strategy.protect \in Int /\ strategy.growBelow \in Nat
    /\ strategy.target \div 100 \in Nat
    /\ strategy.target = (strategy.target \div 100) * 100
<1> DEFINE most == MaxLtv \div 100
           target == ((most * 3) \div 20) * 5
<1>1. most \in Nat
  BY SizingConstants
<1>2. target \in Nat
  <2> HIDE DEF most
  <2>1. (most * 3) \div 20 \in Nat
    BY <1>1
  <2>2. QED
    BY <2>1
<1>3. Monus(target, 10) \in Nat
  <2> HIDE DEF target
  <2> QED BY <1>2, MonusFact
<1>4. /\ strategy.target = target * 100 /\ strategy.protect = (most - 5) * 100
      /\ strategy.growBelow = Monus(target, 10) * 100
  BY DEF strategy, DefaultStrategyFor
<1> HIDE DEF most, target
<1>5. (target * 100) \div 100 = target
  BY <1>2
<1>6. QED
  BY <1>1, <1>2, <1>3, <1>4, <1>5

\* The program accepts the default strategy of every market that lends 35 percent or
\* more and liquidates no earlier than it lends.
LEMMA DefaultStrategyIsValid ==
    ASSUME MaxLtv >= 3500, MaxLtv <= Threshold
    PROVE  StrategyIsValid(strategy, MaxLtv, Threshold)
<1> DEFINE most == MaxLtv \div 100
           fives == (most * 3) \div 20
<1>1. most \in Nat /\ most >= 35 /\ 100 * most <= MaxLtv
  BY SizingConstants
<1>2. /\ strategy.target = (fives * 5) * 100 /\ strategy.protect = (most - 5) * 100
      /\ strategy.growBelow = Monus(fives * 5, 10) * 100
  BY DEF strategy, DefaultStrategyFor
<1>3. MaxLtv \in Nat /\ Threshold \in Nat
  BY SizingConstants
<1> HIDE DEF most
<1>4. fives \in Nat /\ 20 * fives <= 3 * most /\ fives >= 5
  BY <1>1
<1> HIDE DEF fives
<1>5. fives * 5 + 10 <= most
  BY <1>1, <1>4
<1>6. QED
  BY <1>1, <1>2, <1>3, <1>4, <1>5 DEF StrategyIsValid, MinGuardRoom, Monus

------------------------------------------------------------------------------
(* The types.                                                              *)

PositionType == [held : Nat, debt : Nat, value : Nat, yield : Nat]
BuiltType == [for : {"nothing", "open", "topUp", "protect", "grow"},
              by : {"nobody", "owner", "keeper"}, at : Nat, valued : Nat, stock : Nat, raw : Nat]

\* The type invariant without what it says of the strategy, which never changes.
StateTypes ==
    /\ feed \in Nat \ {0} /\ reserve \in Nat \ {0}
    /\ position \in PositionType /\ built \in BuiltType
    /\ outcome \in {"none", "done", "refused"} /\ count \in 0..MaxBuilt

\* The stock is a token at every price there is.
LEMMA StockIsAToken ==
    ASSUME NEW price \in Nat \ {0}
    PROVE  /\ StockAt(price) \in TokenType
           /\ StockAt(price).price = price /\ StockAt(price).unit = StockUnit
BY SizingConstants DEF StockAt, TokenType

\* What the position holds and owes, as the market values it.
LEMMA PositionFact ==
    ASSUME StateTypes
    PROVE  /\ position.held \in Nat /\ position.debt \in Nat
           /\ position.value \in Nat /\ position.yield \in Nat
           /\ UsdValue(Usdc, position.debt) \in Nat /\ AdjustedDebt(position.debt) \in Nat
           /\ \A price \in Nat \ {0} : Collateral(price) \in Nat
<1>1. /\ position.held \in Nat /\ position.debt \in Nat
      /\ position.value \in Nat /\ position.yield \in Nat
  BY DEF StateTypes, PositionType
<1>2. UsdValue(Usdc, position.debt) \in Nat
  BY <1>1, SizingConstants, ConversionsAreNat
<1>3. AdjustedDebt(position.debt) \in Nat
  BY <1>2, SizingConstants, RatesAreNat DEF AdjustedDebt
<1>4. ASSUME NEW price \in Nat \ {0} PROVE Collateral(price) \in Nat
  BY <1>1, StockIsAToken, ConversionsAreNat DEF Collateral
<1>5. QED
  BY <1>1, <1>2, <1>3, <1>4

\* The value a borrow is sized against, and what may be borrowed against it.
LEMMA BorrowSizesAreNat ==
    ASSUME NEW value \in Nat, NEW debt \in Nat
    PROVE  /\ ValuedForBorrowing(value) \in Nat
           /\ ValuedForBorrowing(value) * Bps <= value * (Bps - 100)
           /\ ValueAllowedAtTarget(ValuedForBorrowing(value), strategy.target) \in Nat
           /\ BorrowForAnOpen(value) \in Nat
           /\ RawWorthRoundingDown(Usdc, TheBorrowToAskFor(
                Monus(ValueAllowedAtTarget(ValuedForBorrowing(value), strategy.target), debt))) \in Nat
<1> DEFINE valued == ValuedForBorrowing(value)
           room == Monus(ValueAllowedAtTarget(valued, strategy.target), debt)
           percents == strategy.target \div 100
<1>1. valued \in Nat /\ Bps * valued <= value * (Bps - 100)
  <2>1. value * (Bps - 100) \in Nat
    BY DEF Bps
  <2>2. QED
    BY <2>1, QuotientIsBelow, DenominatorsArePositive DEF ValuedForBorrowing
<1>2. ValueAllowedAtTarget(valued, strategy.target) \in Nat
  <2> HIDE DEF valued
  <2> QED BY <1>1, StrategyFact, RatesAreNat
<1>3. room \in Nat
  <2> HIDE DEF valued
  <2> QED BY <1>2, MonusFact
<1>4. TheBorrowToAskFor(room) \in Nat
  <2> HIDE DEF room
  <2>1. (room * 10) \div Bps \in Nat /\ One \div 100 \in Nat
    BY <1>3, SizingConstants, ProductIsNat, QuotientIsBelow, DenominatorsArePositive
  <2>2. QED
    BY <1>3, <2>1, MonusFact DEF TheBorrowToAskFor
<1>5. RawWorthRoundingDown(Usdc, TheBorrowToAskFor(room)) \in Nat
  <2> HIDE DEF room
  <2> QED BY <1>4, SizingConstants, ConversionsAreNat
<1>6. BorrowForAnOpen(value) \in Nat
  <2>1. percents \in Nat /\ Usdc.unit \in Nat /\ One \in Nat \ {0}
    BY StrategyFact, SizingConstants DEF TokenType
  <2> HIDE DEF valued, percents
  <2>2. valued * percents * Usdc.unit \in Nat
    BY <1>1, <2>1, ProductIsNat
  <2>3. Percent * One \in Nat \ {0}
    BY <2>1 DEF Percent
  <2>4. (valued * percents * Usdc.unit) \div (Percent * One) \in Nat
    BY <2>2, <2>3, QuotientIsBelow
  <2>5. QED
    BY <2>4 DEF BorrowForAnOpen, valued, percents
<1>7. valued * Bps = Bps * valued
  <2> HIDE DEF valued
  <2> QED BY <1>1 DEF Bps
<1>8. QED
  BY <1>1, <1>2, <1>5, <1>6, <1>7 DEF Bps

\* The sizes of the guard calls, the keeper's and the program's.
LEMMA GuardSizesAreNat ==
    ASSUME StateTypes, NEW price \in Nat \ {0}
    PROVE  /\ DestinationToSellForProtect(AdjustedDebt(position.debt), Collateral(price)) \in 0..position.yield
           /\ UsdcToBorrowForGrow(AdjustedDebt(position.debt), Collateral(price)) \in Nat
<1> DEFINE adjusted == AdjustedDebt(position.debt)
           deposited == Collateral(price)
           value == RepayToReachTarget(adjusted, deposited, strategy.target, Factor)
           bounty == RawWorthRoundingDown(Usdc, BountyOn(value, BountyBps))
           raise == RawWorthRoundingUp(Usdc, value) + Least(bounty, BountyCap)
           sell == AddTheSlippageBuffer(RawWorthRoundingUp(Destination, UsdValue(Usdc, raise)), SlippageBps)
<1>1. adjusted \in Nat /\ deposited \in Nat /\ position.yield \in Nat
  BY PositionFact
<1> HIDE DEF adjusted, deposited
<1>2. value \in Nat /\ BorrowToReachTarget(adjusted, deposited, strategy.target, Factor) \in Nat
  BY <1>1, StrategyFact, SizingConstants, SizesAreNat
<1>3. UsdcToBorrowForGrow(adjusted, deposited) \in Nat
  BY <1>2, SizingConstants, ConversionsAreNat DEF UsdcToBorrowForGrow
<1> HIDE DEF value
<1>4. RawWorthRoundingUp(Usdc, value) \in Nat /\ bounty \in Nat
  BY <1>2, SizingConstants, RatesAreNat, ConversionsAreNat
<1> HIDE DEF bounty
<1>5. raise \in Nat
  BY <1>4, SizingConstants, LeastFact
<1> HIDE DEF raise
<1>6. sell \in Nat
  <2>1. UsdValue(Usdc, raise) \in Nat
    BY <1>5, SizingConstants, ConversionsAreNat
  <2>2. QED
    BY <2>1, SizingConstants, ConversionsAreNat, BufferIsNat
<1>7. DestinationToSellForProtect(adjusted, deposited) = Least(sell, position.yield)
  BY DEF DestinationToSellForProtect, value, bounty, raise, sell
<1> HIDE DEF sell
<1>8. Least(sell, position.yield) \in Nat /\ Least(sell, position.yield) <= position.yield
  BY <1>1, <1>6, LeastFact
<1>9. DestinationToSellForProtect(adjusted, deposited) \in 0..position.yield
  BY <1>1, <1>7, <1>8
<1>10. QED
  BY <1>3, <1>9 DEF adjusted, deposited

\* What a swap of a transaction returns.
LEMMA FillsOfASwapAreNat ==
    ASSUME NEW raw \in Nat, NEW rate \in RouterRates
    PROVE  Bought(raw, rate) \in Nat /\ Raised(raw, rate) \in Nat
BY SizingConstants, FillsAreNat DEF Bought, Raised

\* What a build leaves alone and what it makes.
LEMMA BuildFact ==
    ASSUME StateTypes, NEW tx \in BuiltType, Build(tx)
    PROVE  StateTypes' /\ built' = tx /\ UNCHANGED <<feed, reserve, position>>
<1>1. count + 1 \in 0..MaxBuilt
  BY SizingConstants DEF Build, StateTypes
<1>2. QED
  BY <1>1 DEF Build, StateTypes

\* A live price is a price.
LEMMA LivePriceFact ==
    ASSUME StateTypes
    PROVE  LivePrices \subseteq Nat \ {0}
BY DEF StateTypes, LivePrices

\* An open and a top-up are sized in natural numbers.
LEMMA OpenIsTyped ==
    ASSUME StateTypes, NEW stock \in StockAmounts, NEW live \in LivePrices,
           BuildAnOpen(stock, live)
    PROVE  /\ StateTypes' /\ UNCHANGED position /\ built'.for = "open"
           /\ built'.raw = BorrowForAnOpen(built'.valued)
           /\ WithinAvailableShare(built'.raw, Available, ShareBps)
<1> DEFINE value == UsdValue(StockAt(live), stock)
           tx == [for |-> "open", by |-> "owner", at |-> live, valued |-> value,
                  stock |-> stock, raw |-> BorrowForAnOpen(value)]
<1>1. stock \in Nat /\ live \in Nat \ {0}
  BY SizingAssumption, LivePriceFact
<1>2. value \in Nat
  BY <1>1, StockIsAToken, ConversionsAreNat
<1>3. Build(tx) /\ WithinAvailableShare(BorrowForAnOpen(value), Available, ShareBps)
  BY DEF BuildAnOpen
<1> HIDE DEF value
<1>4. BorrowForAnOpen(value) \in Nat
  BY <1>2, BorrowSizesAreNat
<1>5. tx \in BuiltType
  BY <1>1, <1>2, <1>4 DEF BuiltType
<1>6. StateTypes' /\ built' = tx /\ UNCHANGED position
  BY <1>3, <1>5, BuildFact
<1>7. QED
  BY <1>3, <1>6

\* The size of a top-up built for stock then worth so much in all.
TopUpBorrow(valued, debt) ==
    RawWorthRoundingDown(Usdc, TheBorrowToAskFor(
        Monus(ValueAllowedAtTarget(ValuedForBorrowing(valued), strategy.target), debt)))

LEMMA TopUpIsTyped ==
    ASSUME StateTypes, NEW stock \in StockAmounts, NEW live \in LivePrices,
           BuildATopUp(stock, live)
    PROVE  /\ StateTypes' /\ UNCHANGED position /\ built'.for = "topUp" /\ built'.raw > 0
           /\ built'.at > 0
           /\ built'.raw = TopUpBorrow(built'.valued, AdjustedDebt(position.debt))
<1> DEFINE value == AtTheLivePrice(position.value, live)
           added == UsdValue(StockAt(live), stock)
           all == value + added
           debt == AdjustedDebt(position.debt)
           tx == [for |-> "topUp", by |-> "owner", at |-> live, valued |-> all,
                  stock |-> stock, raw |-> TopUpBorrow(all, debt)]
<1>1. stock \in Nat /\ live \in Nat \ {0}
  BY SizingAssumption, LivePriceFact
<1>2. added \in Nat
  BY <1>1, StockIsAToken, ConversionsAreNat
<1>3. value \in Nat
  <2>1. position.value * live \in Nat /\ reserve \in Nat \ {0}
    BY <1>1, PositionFact, ProductIsNat DEF StateTypes
  <2>2. QED
    BY <2>1, QuotientIsBelow DEF AtTheLivePrice
<1>4. Build(tx) /\ TopUpBorrow(all, debt) > 0
  BY DEF BuildATopUp, TopUpBorrow, BorrowForAddedValue
<1>5. debt \in Nat /\ all \in Nat
  <2> HIDE DEF value, added
  <2> QED BY <1>2, <1>3, PositionFact
<1> HIDE DEF all, debt
<1>6. TopUpBorrow(all, debt) \in Nat
  BY <1>5, BorrowSizesAreNat DEF TopUpBorrow
<1>7. tx \in BuiltType
  BY <1>1, <1>5, <1>6 DEF BuiltType
<1>8. StateTypes' /\ built' = tx /\ UNCHANGED position
  BY <1>4, <1>7, BuildFact
<1>9. QED
  BY <1>1, <1>4, <1>8 DEF debt

\* A protect is sized as the program would at the price it was built at.
LEMMA ProtectIsTyped ==
    ASSUME StateTypes, NEW by \in {"keeper", "owner"}, BuildAProtect(by)
    PROVE  /\ StateTypes' /\ UNCHANGED position /\ built'.for = "protect" /\ built'.raw > 0
           /\ built'.at \in Nat \ {0}
           /\ built'.raw = DestinationToSellForProtect(AdjustedDebt(position.debt),
                                                       Collateral(built'.at))
<1> DEFINE price == PriceFor(by)
           sell == DestinationToSellForProtect(AdjustedDebt(position.debt), Collateral(price))
           tx == [for |-> "protect", by |-> by, at |-> price, valued |-> Collateral(price),
                  stock |-> 0, raw |-> sell]
<1>1. price \in Nat \ {0}
  BY DEF StateTypes, PriceFor
<1>2. Build(tx) /\ sell > 0
  BY DEF BuildAProtect
<1> HIDE DEF price
<1>3. Collateral(price) \in Nat /\ sell \in Nat
  BY <1>1, PositionFact, GuardSizesAreNat
<1> HIDE DEF sell
<1>4. tx \in BuiltType
  BY <1>1, <1>3 DEF BuiltType
<1>5. StateTypes' /\ built' = tx /\ UNCHANGED position
  BY <1>2, <1>4, BuildFact
<1>6. QED
  BY <1>1, <1>2, <1>5 DEF sell

\* So is a grow, and only at or below its level.
LEMMA GrowIsTyped ==
    ASSUME StateTypes, BuildAGrow
    PROVE  /\ StateTypes' /\ UNCHANGED position /\ built'.for = "grow" /\ built'.raw > 0
           /\ built'.at \in Nat \ {0} /\ Ltv(built'.at) <= strategy.growBelow
           /\ built'.raw = UsdcToBorrowForGrow(AdjustedDebt(position.debt),
                                               Collateral(built'.at))
<1> DEFINE borrow == UsdcToBorrowForGrow(AdjustedDebt(position.debt), Collateral(feed))
           tx == [for |-> "grow", by |-> "keeper", at |-> feed, valued |-> Collateral(feed),
                  stock |-> 0, raw |-> borrow]
<1>1. feed \in Nat \ {0}
  BY DEF StateTypes
<1>2. Build(tx) /\ borrow > 0 /\ Ltv(feed) <= strategy.growBelow
  BY DEF BuildAGrow
<1>3. Collateral(feed) \in Nat /\ borrow \in Nat
  BY <1>1, PositionFact, GuardSizesAreNat
<1> HIDE DEF borrow
<1>4. tx \in BuiltType
  BY <1>1, <1>3 DEF BuiltType
<1>5. StateTypes' /\ built' = tx /\ UNCHANGED position
  BY <1>2, <1>4, BuildFact
<1>6. QED
  BY <1>1, <1>2, <1>5 DEF borrow

\* The program sizes a protect as the keeper and the app do.
LEMMA ProtectingFact ==
    ASSUME StateTypes
    PROVE  /\ Protecting.sell = DestinationToSellForProtect(AdjustedDebt(position.debt), Collateral(feed))
           /\ Protecting.sell \in 0..position.yield
           /\ Protecting.repay = RawWorthRoundingUp(Usdc,
                RepayToReachTarget(AdjustedDebt(position.debt), Collateral(feed), strategy.target, Factor))
           /\ Protecting.repay \in Nat
<1>1. /\ Protecting.sell = DestinationToSellForProtect(AdjustedDebt(position.debt), Collateral(feed))
      /\ Protecting.repay = RawWorthRoundingUp(Usdc,
           RepayToReachTarget(AdjustedDebt(position.debt), Collateral(feed), strategy.target, Factor))
  BY DEF Protecting, DestinationToSellForProtect
<1>2. feed \in Nat \ {0}
  BY DEF StateTypes
<1>3. Protecting.sell \in 0..position.yield
  BY <1>1, <1>2, GuardSizesAreNat
<1>4. RepayToReachTarget(AdjustedDebt(position.debt), Collateral(feed), strategy.target, Factor) \in Nat
  BY <1>2, PositionFact, StrategyFact, SizingConstants, SizesAreNat
<1>5. Protecting.repay \in Nat
  BY <1>1, <1>4, SizingConstants, ConversionsAreNat
<1>6. QED
  BY <1>1, <1>3, <1>5

\* A transaction that lands leaves natural amounts.
LEMMA AcceptIsTyped ==
    ASSUME StateTypes, NEW held \in Nat, NEW debt \in Nat, NEW yield \in Nat,
           Accept(held, debt, yield)
    PROVE  position' \in PositionType /\ reserve' = feed /\ outcome' = "done"
<1>1. UsdValue(StockAt(feed), held) \in Nat
  BY StockIsAToken, ConversionsAreNat DEF StateTypes
<1>2. QED
  BY <1>1 DEF Accept, PositionType

LEMMA LandIsTyped ==
    ASSUME StateTypes, built.for = "nothing" => built = Nothing,
           NEW rate \in RouterRates, Land(rate)
    PROVE  StateTypes' /\ built' = Nothing
<1>1. built \in BuiltType /\ built # Nothing /\ built' = Nothing /\ feed' = feed /\ count' = count
  BY DEF StateTypes, Land
<1>2. /\ built.raw \in Nat /\ built.stock \in Nat
      /\ built.for \in {"nothing", "open", "topUp", "protect", "grow"}
  BY <1>1 DEF BuiltType
<1>3. Nothing \in BuiltType
  BY DEF Nothing, BuiltType
<1>4. Bought(built.raw, rate) \in Nat /\ Raised(built.raw, rate) \in Nat
  BY <1>2, FillsOfASwapAreNat
<1>5. position.held \in Nat /\ position.debt \in Nat /\ position.yield \in Nat
  BY PositionFact
<1>6. SUFFICES position' \in PositionType /\ reserve' \in Nat \ {0}
               /\ outcome' \in {"none", "done", "refused"}
  BY <1>1, <1>3 DEF StateTypes
<1>7. feed \in Nat \ {0}
  BY DEF StateTypes
<1>8. ASSUME Refuse
     PROVE  position' \in PositionType /\ reserve' \in Nat \ {0}
            /\ outcome' \in {"none", "done", "refused"}
  BY <1>8 DEF Refuse, StateTypes
<1>9. CASE built.for = "open"
  <2>1. Refuse \/ Accept(built.stock, built.raw, Bought(built.raw, rate))
    BY <1>9 DEF Land
  <2>2. QED
    BY <1>2, <1>4, <1>7, <1>8, <2>1, AcceptIsTyped
<1>10. CASE built.for = "topUp"
  <2>1. Refuse \/ Accept(position.held + built.stock, position.debt + built.raw,
                         position.yield + Bought(built.raw, rate))
    BY <1>10 DEF Land
  <2>2. /\ position.held + built.stock \in Nat /\ position.debt + built.raw \in Nat
        /\ position.yield + Bought(built.raw, rate) \in Nat
    BY <1>2, <1>4, <1>5
  <2>3. QED
    BY <1>7, <1>8, <2>1, <2>2, AcceptIsTyped
<1>11. CASE built.for = "protect"
  <2> DEFINE repaid == Least(Protecting.repay, Raised(built.raw, rate))
  <2>1. \/ Refuse
        \/ /\ ProtectFits(built, Raised(built.raw, rate))
           /\ Accept(position.held, Monus(position.debt, repaid), position.yield - built.raw)
    BY <1>11 DEF Land
  <2>2. repaid \in Nat
    BY <1>4, ProtectingFact, LeastFact
  <2> HIDE DEF repaid
  <2>3. Monus(position.debt, repaid) \in Nat
    BY <1>5, <2>2, MonusFact
  <2>4. ASSUME ProtectFits(built, Raised(built.raw, rate)) PROVE position.yield - built.raw \in Nat
    <3>1. built.raw <= Protecting.sell
      BY <2>4 DEF ProtectFits
    <3>2. QED
      BY <1>2, <1>5, <3>1, ProtectingFact
  <2>5. QED
    BY <1>5, <1>7, <1>8, <2>1, <2>3, <2>4, AcceptIsTyped
<1>12. CASE built.for = "grow"
  <2> DEFINE borrowed == UsdcToBorrowForGrow(AdjustedDebt(position.debt), Collateral(feed))
  <2>1. Refuse \/ Accept(position.held, position.debt + borrowed,
                         position.yield + Bought(built.raw, rate))
    BY <1>12 DEF Land
  <2>2. borrowed \in Nat
    BY <1>7, GuardSizesAreNat
  <2> HIDE DEF borrowed
  <2>3. position.debt + borrowed \in Nat /\ position.yield + Bought(built.raw, rate) \in Nat
    BY <1>4, <1>5, <2>2
  <2>4. QED
    BY <1>5, <1>7, <1>8, <2>1, <2>3, AcceptIsTyped
<1>13. QED
  BY <1>1, <1>2, <1>9, <1>10, <1>11, <1>12

------------------------------------------------------------------------------
(* What is on its way was sized for the position as it is.                 *)

\* While a transaction is on its way nothing but the market's record of the
\* position's value changes, so its size is still what it was built from.
BuiltAsSized ==
    /\ built.for = "nothing" => built = Nothing
    /\ built.for = "open" =>
         /\ built.raw = BorrowForAnOpen(built.valued)
         /\ WithinAvailableShare(built.raw, Available, ShareBps)
    /\ built.for = "topUp" =>
         /\ built.raw > 0 /\ built.at > 0
         /\ built.raw = TopUpBorrow(built.valued, AdjustedDebt(position.debt))
    /\ built.for = "protect" =>
         /\ built.raw > 0
         /\ built.raw = DestinationToSellForProtect(AdjustedDebt(position.debt), Collateral(built.at))
    /\ built.for = "grow" =>
         /\ built.raw > 0 /\ Ltv(built.at) <= strategy.growBelow
         /\ built.raw = UsdcToBorrowForGrow(AdjustedDebt(position.debt), Collateral(built.at))

SizingInv == StateTypes /\ BuiltAsSized

\* Holding the same stock, debt and yield token, a position is sized the same.
LEMMA SameSizes ==
    ASSUME UNCHANGED built, position'.held = position.held,
           position'.debt = position.debt, position'.yield = position.yield, BuiltAsSized
    PROVE  BuiltAsSized'
<1>1. /\ AdjustedDebt(position.debt)' = AdjustedDebt(position.debt)
      /\ Collateral(built.at)' = Collateral(built.at)
      /\ Ltv(built.at)' = Ltv(built.at)
  BY DEF AdjustedDebt, Collateral, Ltv
<1>2. \A a, d : DestinationToSellForProtect(a, d)' = DestinationToSellForProtect(a, d)
  BY DEF DestinationToSellForProtect
<1>3. QED
  BY <1>1, <1>2 DEF BuiltAsSized

LEMMA InitIsSized == SizingInit => SizingInv
BY SizingAssumption DEF SizingInit, SizingInv, StateTypes, BuiltAsSized, PositionType,
   BuiltType, Nothing

LEMMA NextIsSized == SizingInv /\ [SizingNext]_sizingVars => SizingInv'
<1> SUFFICES ASSUME SizingInv, [SizingNext]_sizingVars PROVE SizingInv'
  OBVIOUS
<1>1. StateTypes /\ BuiltAsSized
  BY DEF SizingInv
<1>2. ASSUME NEW stock \in StockAmounts, NEW live \in LivePrices, BuildAnOpen(stock, live)
      PROVE  SizingInv'
  BY <1>1, <1>2, OpenIsTyped DEF SizingInv, BuiltAsSized
<1>3. ASSUME NEW stock \in StockAmounts, NEW live \in LivePrices, BuildATopUp(stock, live)
      PROVE  SizingInv'
  <2>1. /\ StateTypes' /\ UNCHANGED position /\ built'.for = "topUp" /\ built'.raw > 0
        /\ built'.at > 0
        /\ built'.raw = TopUpBorrow(built'.valued, AdjustedDebt(position.debt))
    BY <1>1, <1>3, TopUpIsTyped
  <2>2. AdjustedDebt(position.debt)' = AdjustedDebt(position.debt)
    BY <2>1 DEF AdjustedDebt
  <2>3. QED
    BY <2>1, <2>2 DEF SizingInv, BuiltAsSized
<1>4. ASSUME NEW by \in {"keeper", "owner"}, BuildAProtect(by) PROVE SizingInv'
  <2>1. /\ StateTypes' /\ UNCHANGED position /\ built'.for = "protect" /\ built'.raw > 0
        /\ built'.raw = DestinationToSellForProtect(AdjustedDebt(position.debt),
                                                    Collateral(built'.at))
    BY <1>1, <1>4, ProtectIsTyped
  <2>2. DestinationToSellForProtect(AdjustedDebt(position.debt), Collateral(built.at))'
          = DestinationToSellForProtect(AdjustedDebt(position.debt), Collateral(built'.at))
    BY <2>1 DEF DestinationToSellForProtect, AdjustedDebt, Collateral
  <2>3. QED
    BY <2>1, <2>2 DEF SizingInv, BuiltAsSized
<1>5. CASE BuildAGrow
  <2>1. /\ StateTypes' /\ UNCHANGED position /\ built'.for = "grow" /\ built'.raw > 0
        /\ Ltv(built'.at) <= strategy.growBelow
        /\ built'.raw = UsdcToBorrowForGrow(AdjustedDebt(position.debt),
                                            Collateral(built'.at))
    BY <1>1, <1>5, GrowIsTyped
  <2>2. /\ Ltv(built.at)' = Ltv(built'.at)
        /\ AdjustedDebt(position.debt)' = AdjustedDebt(position.debt)
        /\ Collateral(built.at)' = Collateral(built'.at)
    BY <2>1 DEF Ltv, AdjustedDebt, Collateral
  <2>3. QED
    BY <2>1, <2>2 DEF SizingInv, BuiltAsSized
<1>6. ASSUME NEW rate \in RouterRates, Land(rate) PROVE SizingInv'
  <2>1. StateTypes' /\ built' = Nothing
    BY <1>1, <1>6, LandIsTyped DEF BuiltAsSized
  <2>2. QED
    BY <2>1 DEF SizingInv, BuiltAsSized, Nothing
<1>7. ASSUME NEW price \in StockPrices, PriceMoves(price) PROVE SizingInv'
  <2>1. StateTypes'
    BY <1>1, <1>7, SizingAssumption DEF PriceMoves, StateTypes
  <2>2. UNCHANGED <<built, position>>
    BY <1>7 DEF PriceMoves
  <2>3. QED
    BY <1>1, <2>1, <2>2, SameSizes DEF SizingInv
<1>8. CASE MarketIsRefreshed
  <2>1. feed \in Nat \ {0} /\ position \in PositionType
    BY <1>1 DEF StateTypes
  <2>2. Collateral(feed) \in Nat
    BY <1>1, <2>1, PositionFact
  <2>3. /\ position' \in PositionType /\ position'.held = position.held
        /\ position'.debt = position.debt /\ position'.yield = position.yield
    BY <1>8, <2>1, <2>2 DEF MarketIsRefreshed, PositionType
  <2>4. StateTypes' /\ UNCHANGED built
    BY <1>1, <1>8, <2>1, <2>3 DEF MarketIsRefreshed, StateTypes
  <2>5. QED
    BY <1>1, <2>3, <2>4, SameSizes DEF SizingInv
<1>9. CASE UNCHANGED sizingVars
  <2>1. StateTypes'
    BY <1>1, <1>9 DEF sizingVars, StateTypes
  <2>2. UNCHANGED <<built, position>>
    BY <1>9 DEF sizingVars
  <2>3. QED
    BY <1>1, <2>1, <2>2, SameSizes DEF SizingInv
<1>10. QED
  BY <1>2, <1>3, <1>4, <1>5, <1>6, <1>7, <1>8, <1>9 DEF SizingNext

LEMMA AlwaysSized == SizingSpec => []SizingInv
BY InitIsSized, NextIsSized, PTL DEF SizingSpec

\* The variables keep their types, and the program accepts the default strategy of every
\* market that lends 35 percent or more and liquidates no earlier than it lends.
THEOREM SizesAreTyped ==
    ASSUME MaxLtv >= 3500, MaxLtv <= Threshold
    PROVE  SizingSpec => []SizingTypeOK
<1>1. SizingInv => SizingTypeOK
  BY DefaultStrategyIsValid DEF SizingInv, StateTypes, SizingTypeOK, PositionType, BuiltType
<1>2. QED
  BY <1>1, AlwaysSized, PTL

------------------------------------------------------------------------------
(* Opens and top-ups.                                                      *)

\* With a borrow factor of a hundred a debt weighs what it is worth.
LEMMA UnweightedDebt ==
    ASSUME Factor = Percent, NEW value \in Nat
    PROVE  Weighted(value, Factor) = value
BY DEF Weighted, Percent

\* Whole dollars are never more than the value they are taken from.
LEMMA WholeUsdIsBelow ==
    ASSUME NEW t \in TokenType, NEW raw \in Nat
    PROVE  /\ WholeUsd(t, raw) \in Nat
           /\ WholeUsd(t, raw) * One * t.unit <= raw * t.price
           /\ WholeUsd(t, raw) * One <= UsdValue(t, raw)
<1> DEFINE dollars == WholeUsd(t, raw)
<1>1. t.unit \in Nat \ {0} /\ t.price \in Nat \ {0} /\ One \in Nat \ {0}
  BY SizingConstants DEF TokenType
<1>2. raw * t.price \in Nat /\ t.unit * One \in Nat \ {0}
  BY <1>1, ProductIsNat
<1>3. dollars \in Nat /\ (t.unit * One) * dollars <= raw * t.price
  BY <1>2, QuotientIsBelow DEF WholeUsd
<1> HIDE DEF dollars
<1>4. /\ (t.unit * One) * dollars = dollars * One * t.unit
      /\ (t.unit * One) * dollars = t.unit * (dollars * One)
  BY <1>1, <1>3
<1>5. dollars * One \in Nat
  BY <1>1, <1>3
<1>6. dollars * One <= UsdValue(t, raw)
  BY <1>1, <1>2, <1>3, <1>4, <1>5, QuotientReaches DEF UsdValue
<1>7. QED
  BY <1>3, <1>4, <1>6 DEF dollars

\* What the app lets an open borrow, in the program's terms: no more than the target
\* share of the value it was sized against, in USDC worth a dollar at most.
LEMMA OpenBorrowsItsShare ==
    ASSUME Usdc.price <= One, NEW value \in Nat, NEW raw \in Nat, raw = BorrowForAnOpen(value)
    PROVE  raw * Usdc.price * Bps <= ValuedForBorrowing(value) * strategy.target * Usdc.unit
<1> DEFINE valued == ValuedForBorrowing(value)
           percents == strategy.target \div 100
           sized == valued * percents * Usdc.unit
<1>1. /\ valued \in Nat /\ percents \in Nat /\ strategy.target = percents * 100
      /\ Usdc.unit \in Nat /\ Usdc.price \in Nat /\ One \in Nat \ {0}
  BY BorrowSizesAreNat, StrategyFact, SizingConstants DEF TokenType
<1>2. raw = sized \div (Percent * One)
  BY DEF BorrowForAnOpen
<1> HIDE DEF valued, percents
<1>3. valued * percents \in Nat /\ sized \in Nat
  BY <1>1, ProductIsNat
<1>4. Percent * One \in Nat \ {0}
  BY <1>1 DEF Percent
<1>5. (Percent * One) * raw <= sized
  BY <1>2, <1>3, <1>4, QuotientIsBelow
<1>6. raw * Usdc.price <= raw * One
  BY <1>1, ProductMonotone
<1>7. raw * Usdc.price \in Nat /\ raw * One \in Nat /\ (Percent * One) * raw = 100 * (raw * One)
  BY <1>1, ProductIsNat DEF Percent
<1>8. 100 * (raw * Usdc.price) <= sized
  BY <1>3, <1>5, <1>6, <1>7
<1>9. raw * Usdc.price * Bps = 100 * (100 * (raw * Usdc.price))
  BY <1>7 DEF Bps
<1>10. valued * strategy.target * Usdc.unit = 100 * sized
  <2>1. valued * strategy.target = 100 * (valued * percents)
    BY <1>1, <1>3
  <2>2. (100 * (valued * percents)) * Usdc.unit = 100 * ((valued * percents) * Usdc.unit)
    BY <1>1, <1>3
  <2>3. QED
    BY <2>1, <2>2
<1> HIDE DEF sized
<1>11. QED
  BY <1>3, <1>7, <1>8, <1>9, <1>10 DEF valued

\* A number of units of the target share of a value, rounded down either way, is no more
\* than what the target allows on that value.
LEMMA ShareIsAllowed ==
    ASSUME NEW n \in Nat, NEW unit \in Nat \ {0}, NEW value \in Nat, NEW target \in Nat,
           n * unit * Bps <= value * target * unit
    PROVE  n <= ValueAllowedAtTarget(value, target)
<1>1. n * Bps \in Nat /\ value * target \in Nat
  BY ProductIsNat, DenominatorsArePositive
<1>2. n * unit * Bps = unit * (n * Bps) /\ value * target * unit = unit * (value * target)
  BY <1>1 DEF Bps
<1>3. n * Bps <= value * target
  BY <1>1, <1>2, Cancellation
<1>4. Bps * n <= value * target
  BY <1>3 DEF Bps
<1>5. QED
  BY <1>1, <1>4, QuotientReaches, DenominatorsArePositive DEF ValueAllowedAtTarget

\* More collateral allows no smaller a debt.
LEMMA MoreIsAllowed ==
    ASSUME NEW a \in Nat, NEW b \in Nat, NEW target \in Nat, a <= b
    PROVE  ValueAllowedAtTarget(a, target) <= ValueAllowedAtTarget(b, target)
<1>1. a * target \in Nat /\ b * target \in Nat /\ a * target <= b * target
  <2>1. target * a <= target * b
    BY ProductMonotone
  <2>2. QED
    BY <2>1, ProductIsNat
<1>2. QED
  BY <1>1, QuotientMonotone, DenominatorsArePositive DEF ValueAllowedAtTarget

\* An open whose stock is, in whole dollars, within the margin fits.
LEMMA CoveredOpenFits ==
    ASSUME SizingInv, Factor = Percent, Usdc.price <= One,
           StrategyIsValid(strategy, MaxLtv, Threshold),
           built.for = "open", built.raw > 0,
           WholeUsd(StockAt(feed), built.stock) \in MinPositionUsd..MaxPositionUsd,
           WithinTheMargin(WholeUsd(StockAt(feed), built.stock) * One, built.valued)
    PROVE  OpenFits(built)
<1> DEFINE stock == StockAt(feed)
           worth == WholeUsd(stock, built.stock)
           valued == ValuedForBorrowing(built.valued)
           raw == built.raw
           owed == UsdValue(Usdc, raw)
           dollars == WholeUsd(Usdc, raw)
           held == UsdValue(stock, built.stock)
           target == strategy.target
<1>1. /\ built.valued \in Nat /\ raw \in Nat /\ built.stock \in Nat
      /\ stock \in TokenType /\ Usdc \in TokenType /\ One \in Nat \ {0} /\ target \in Nat
      /\ Usdc.unit \in Nat \ {0} /\ Usdc.price \in Nat
  BY StockIsAToken, SizingConstants, StrategyFact DEF SizingInv, StateTypes, BuiltType, TokenType
<1>2. raw = BorrowForAnOpen(built.valued) /\ WithinAvailableShare(raw, Available, ShareBps)
  BY DEF SizingInv, BuiltAsSized
<1>3. worth \in Nat /\ worth * One \in Nat /\ worth * One <= held /\ held \in Nat
  BY <1>1, WholeUsdIsBelow, ConversionsAreNat, ProductIsNat
<1>4. valued \in Nat /\ valued <= worth * One
  <2>1. valued \in Nat /\ valued * Bps <= built.valued * (Bps - 100)
    BY <1>1, BorrowSizesAreNat
  <2>2. built.valued * (Bps - 100) <= (worth * One) * Bps
    BY DEF WithinTheMargin
  <2> HIDE DEF worth, valued
  <2>3. Bps * valued <= Bps * (worth * One)
    BY <1>1, <1>3, <2>1, <2>2 DEF Bps
  <2>4. QED
    BY <1>3, <2>1, <2>3, Cancellation, DenominatorsArePositive
<1>5. raw * Usdc.price * Bps <= valued * target * Usdc.unit
  BY <1>1, <1>2, OpenBorrowsItsShare
<1>6. owed \in Nat /\ owed * Usdc.unit * Bps <= valued * target * Usdc.unit
  <2>1. owed \in Nat /\ Usdc.unit * owed <= raw * Usdc.price
    BY <1>1, ProductIsNat, QuotientIsBelow DEF UsdValue
  <2>2. raw * Usdc.price \in Nat /\ valued * target * Usdc.unit \in Nat
    <3> HIDE DEF valued, target
    <3> QED BY <1>1, <1>4, ProductIsNat
  <2> HIDE DEF owed, valued, raw
  <2>3. owed * Usdc.unit * Bps <= raw * Usdc.price * Bps
    BY <1>1, <2>1, <2>2 DEF Bps
  <2>4. owed * Usdc.unit * Bps \in Nat /\ raw * Usdc.price * Bps \in Nat
    BY <1>1, <2>1, <2>2, ProductIsNat DEF Bps
  <2>5. QED
    BY <1>5, <2>1, <2>2, <2>3, <2>4
<1>7. owed <= ValueAllowedAtTarget(valued, target)
  <2> HIDE DEF owed, valued, target
  <2> QED BY <1>1, <1>4, <1>6, ShareIsAllowed
<1>8. dollars \in Nat /\ dollars * One <= owed
  BY <1>1, WholeUsdIsBelow
<1>9. owed <= ValueAllowedAtTarget(held, target)
  <2> HIDE DEF owed, valued, held, target, worth
  <2>1. valued <= held
    BY <1>3, <1>4
  <2>2. ValueAllowedAtTarget(valued, target) <= ValueAllowedAtTarget(held, target)
    BY <1>1, <1>3, <1>4, <2>1, MoreIsAllowed
  <2>3. /\ ValueAllowedAtTarget(valued, target) \in Nat
        /\ ValueAllowedAtTarget(held, target) \in Nat
    BY <1>1, <1>3, <1>4, RatesAreNat
  <2>4. QED
    BY <1>6, <1>7, <2>2, <2>3
<1>10. dollars <= ValueAllowedAtTarget(worth, target)
  <2> HIDE DEF owed, valued, held, target, worth, dollars
  <2>1. owed <= ValueAllowedAtTarget(worth * One, target)
    <3>1. ValueAllowedAtTarget(valued, target) <= ValueAllowedAtTarget(worth * One, target)
      BY <1>1, <1>3, <1>4, MoreIsAllowed
    <3>2. /\ ValueAllowedAtTarget(valued, target) \in Nat
          /\ ValueAllowedAtTarget(worth * One, target) \in Nat
      BY <1>1, <1>3, <1>4, RatesAreNat
    <3>3. QED
      BY <1>6, <1>7, <3>1, <3>2
  <2>2. /\ ValueAllowedAtTarget(worth * One, target) \in Nat
        /\ Bps * ValueAllowedAtTarget(worth * One, target) <= worth * One * target
    BY <1>1, <1>3, ProductIsNat, QuotientIsBelow, DenominatorsArePositive DEF ValueAllowedAtTarget
  <2>3. dollars * One <= ValueAllowedAtTarget(worth * One, target) /\ dollars * One \in Nat
    BY <1>1, <1>6, <1>8, <2>1, <2>2, ProductIsNat
  <2>4. Bps * (dollars * One) <= worth * One * target
    BY <1>1, <1>3, <2>2, <2>3, ProductIsNat DEF Bps
  <2>5. /\ dollars * One * Bps = Bps * (dollars * One)
        /\ worth * One * target = worth * target * One
    BY <1>1, <1>3, <1>8, <2>3 DEF Bps
  <2>6. dollars * One * Bps <= worth * target * One
    BY <2>4, <2>5
  <2>7. QED
    BY <1>1, <1>3, <1>8, <2>6, ShareIsAllowed
<1>11. Weighted(dollars, Factor) = dollars /\ AdjustedDebt(raw) = owed
  <2>1. Weighted(dollars, Factor) = dollars
    BY <1>8, UnweightedDebt
  <2>2. Weighted(owed, Factor) = owed
    BY <1>6, UnweightedDebt
  <2>3. QED
    BY <2>1, <2>2 DEF AdjustedDebt
<1>12. LandsAtTarget(built.stock, raw)
  BY <1>9, <1>11 DEF LandsAtTarget
<1>13. QED
  BY <1>2, <1>10, <1>11, <1>12 DEF OpenFits

\* Raising a debt by what a value buys of it raises its worth by no more than the value.
LEMMA DebtGrowsByItsValue ==
    ASSUME NEW t \in TokenType, NEW debt \in Nat, NEW value \in Nat
    PROVE  UsdValue(t, debt + RawWorthRoundingDown(t, value)) <= UsdValue(t, debt) + value
<1> DEFINE raw == RawWorthRoundingDown(t, value)
           before == UsdValue(t, debt)
           after == UsdValue(t, debt + raw)
<1>1. t.unit \in Nat \ {0} /\ t.price \in Nat \ {0}
  BY DEF TokenType
<1>2. raw \in Nat /\ t.price * raw <= value * t.unit
  BY <1>1, ProductIsNat, QuotientIsBelow DEF RawWorthRoundingDown
<1> HIDE DEF raw
<1>3. debt * t.price \in Nat /\ raw * t.price \in Nat /\ value * t.unit \in Nat
  BY <1>1, <1>2, ProductIsNat
<1>4. before \in Nat /\ debt * t.price < t.unit * before + t.unit
  BY <1>1, <1>3, QuotientIsClose DEF UsdValue
<1>5. (debt + raw) * t.price = debt * t.price + raw * t.price /\ t.price * raw = raw * t.price
  BY <1>1, <1>2
<1>6. after \in Nat /\ t.unit * after <= debt * t.price + raw * t.price
  <2>1. (debt + raw) * t.price \in Nat
    BY <1>3, <1>5
  <2>2. after \in Nat /\ t.unit * after <= (debt + raw) * t.price
    BY <1>1, <2>1, QuotientIsBelow DEF UsdValue
  <2>3. QED
    BY <1>5, <2>2
<1> HIDE DEF before, after
<1>7. t.unit * (before + value + 1) = t.unit * before + t.unit + value * t.unit
  BY <1>1, <1>4
<1>8. t.unit * after < t.unit * (before + value + 1)
  BY <1>1, <1>2, <1>3, <1>4, <1>5, <1>6, <1>7, ProductIsNat
<1>9. after < before + value + 1
  BY <1>1, <1>4, <1>6, <1>8, StrictCancellation
<1>10. QED
  BY <1>4, <1>6, <1>9 DEF before, after, raw

\* A price within the margin keeps the stock worth what a borrow was sized against.
LEMMA MarginHolds ==
    ASSUME NEW now \in Nat \ {0}, NEW then \in Nat \ {0}, WithinTheMargin(now, then),
           NEW n \in Nat, NEW valued \in Nat, valued <= UsdValue(StockAt(then), n)
    PROVE  ValuedForBorrowing(valued) <= UsdValue(StockAt(now), n)
<1> DEFINE sized == ValuedForBorrowing(valued)
           worth == UsdValue(StockAt(then), n)
<1>1. /\ StockUnit \in Nat \ {0}
      /\ UsdValue(StockAt(now), n) = (n * now) \div StockUnit
      /\ worth = (n * then) \div StockUnit
  BY SizingConstants DEF UsdValue, StockAt
<1>2. sized \in Nat /\ sized * Bps <= valued * (Bps - 100)
  BY BorrowSizesAreNat
<1>3. n * now \in Nat /\ n * then \in Nat
  BY ProductIsNat
<1>4. worth \in Nat /\ StockUnit * worth <= n * then
  BY <1>1, <1>3, QuotientIsBelow
<1> HIDE DEF sized, worth
<1>5. StockUnit * valued <= n * then
  <2>1. StockUnit * valued <= StockUnit * worth
    BY <1>1, <1>4, ProductMonotone DEF worth
  <2>2. QED
    BY <1>1, <1>3, <1>4, <2>1, ProductIsNat
<1>6. n * (then * (Bps - 100)) <= n * (now * Bps)
  BY ProductMonotone DEF WithinTheMargin, Bps
<1>7. Bps * (StockUnit * sized) <= Bps * (n * now)
  <2>1. /\ StockUnit * sized \in Nat /\ StockUnit * valued \in Nat
        /\ sized * Bps \in Nat /\ valued * (Bps - 100) \in Nat
    BY <1>1, <1>2, ProductIsNat DEF Bps
  <2>2. StockUnit * (sized * Bps) <= StockUnit * (valued * (Bps - 100))
    BY <1>1, <1>2, <2>1, ProductMonotone
  <2>3. /\ StockUnit * (sized * Bps) = Bps * (StockUnit * sized)
        /\ StockUnit * (valued * (Bps - 100)) = (StockUnit * valued) * 9900
    BY <1>1, <1>2, <2>1 DEF Bps
  <2>4. (StockUnit * valued) * 9900 <= (n * then) * 9900
    BY <1>3, <1>5, <2>1
  <2>5. /\ n * (then * (Bps - 100)) = (n * then) * 9900
        /\ n * (now * Bps) = Bps * (n * now)
    BY <1>3 DEF Bps
  <2>6. QED
    BY <1>3, <1>6, <2>1, <2>2, <2>3, <2>4, <2>5, ProductIsNat DEF Bps
<1>8. StockUnit * sized <= n * now
  BY <1>1, <1>2, <1>3, <1>7, ProductIsNat, Cancellation, DenominatorsArePositive
<1>9. QED
  BY <1>1, <1>2, <1>3, <1>8, QuotientReaches DEF sized

\* A top-up at a price within the margin fits.
LEMMA CoveredTopUpFits ==
    ASSUME SizingInv, Factor = Percent, built.for = "topUp", WithinTheMargin(feed, built.at),
           built.valued <= UsdValue(StockAt(built.at), position.held + built.stock),
           UsdValue(StockAt(feed), position.held + built.stock) \div One <= MaxPositionUsd,
           WithinAvailableShare(built.raw, Available, ShareBps)
    PROVE  TopUpFits(built)
<1> DEFINE held == position.held + built.stock
           worth == UsdValue(StockAt(feed), held)
           valued == ValuedForBorrowing(built.valued)
           allowed == ValueAllowedAtTarget(valued, strategy.target)
           owed == UsdValue(Usdc, position.debt)
           room == Monus(allowed, owed)
           ask == TheBorrowToAskFor(room)
           after == UsdValue(Usdc, position.debt + built.raw)
<1>1. /\ built.valued \in Nat /\ built.raw \in Nat /\ built.stock \in Nat
      /\ position.held \in Nat /\ position.debt \in Nat
      /\ feed \in Nat \ {0} /\ built.at \in Nat \ {0} /\ owed \in Nat /\ StockAt(feed) \in TokenType /\ strategy.target \in Nat
  BY PositionFact, StockIsAToken, StrategyFact
     DEF SizingInv, StateTypes, BuiltType, BuiltAsSized
<1>2. held \in Nat
  BY <1>1
<1>3. worth \in Nat /\ valued \in Nat /\ allowed \in Nat
  <2> HIDE DEF held
  <2> QED BY <1>1, <1>2, ConversionsAreNat, BorrowSizesAreNat
<1>4. AdjustedDebt(position.debt) = owed
  BY <1>1, UnweightedDebt DEF AdjustedDebt
<1>5. built.raw = RawWorthRoundingDown(Usdc, ask) /\ built.raw > 0
  BY <1>4 DEF SizingInv, BuiltAsSized, TopUpBorrow
<1>6. valued <= worth
  <2>1. built.valued <= UsdValue(StockAt(built.at), held)
    OBVIOUS
  <2> HIDE DEF held
  <2>2. QED
    BY <1>1, <1>2, <2>1, MarginHolds
<1> HIDE DEF held, worth, valued, owed
<1>7. allowed <= ValueAllowedAtTarget(worth, strategy.target)
  BY <1>1, <1>3, <1>6, MoreIsAllowed
<1>8. ValueAllowedAtTarget(worth, strategy.target) \in Nat
  BY <1>1, <1>3, RatesAreNat
<1> HIDE DEF allowed
<1>9. room \in Nat /\ (room > 0 => room = allowed - owed)
  BY <1>1, <1>3 DEF Monus
<1> HIDE DEF room
<1>10. ask \in Nat /\ ask <= room
  <2>1. (room * 10) \div Bps \in Nat /\ One \div 100 \in Nat
    BY <1>9, SizingConstants, ProductIsNat, QuotientIsBelow, DenominatorsArePositive
  <2>2. QED
    BY <1>9, <2>1, MonusFact DEF TheBorrowToAskFor
<1> HIDE DEF ask
<1>11. ask # 0
  <2>1. SUFFICES ASSUME ask = 0 PROVE FALSE
    OBVIOUS
  <2>2. Usdc.unit \in Nat \ {0} /\ Usdc.price \in Nat \ {0}
    BY SizingConstants DEF TokenType
  <2>3. RawWorthRoundingDown(Usdc, 0) = 0
    BY <2>2 DEF RawWorthRoundingDown
  <2>4. QED
    BY <1>1, <1>5, <2>1, <2>3
<1>12. after <= owed + ask
  BY <1>1, <1>5, <1>10, SizingConstants, DebtGrowsByItsValue DEF owed
<1>13. after \in Nat
  <2>1. position.debt + built.raw \in Nat
    BY <1>1
  <2>2. QED
    BY <2>1, SizingConstants, ConversionsAreNat
<1>14. AdjustedDebt(position.debt + built.raw) = after
  BY <1>13, UnweightedDebt DEF AdjustedDebt
<1> HIDE DEF after
<1>15. after <= ValueAllowedAtTarget(worth, strategy.target)
  BY <1>1, <1>3, <1>7, <1>8, <1>9, <1>10, <1>11, <1>12, <1>13
<1>16. LandsAtTarget(held, position.debt + built.raw)
  BY <1>14, <1>15 DEF LandsAtTarget, worth
<1>17. QED
  BY <1>16 DEF TopUpFits, held

------------------------------------------------------------------------------
(* Guard calls.                                                            *)

\* No route the program accepts returns less than the oracle's minimum.
LEMMA RatesCoverTheMinimum ==
    ASSUME NEW selling \in TokenType, NEW buying \in TokenType, NEW raw \in Nat,
           NEW rate \in RouterRates
    PROVE  /\ MinimumOutput(selling, raw, buying, SlippageBps)
                <= (FairOutput(selling, raw, buying) * rate) \div Bps
           /\ MinimumOutput(selling, raw, buying, SlippageBps) \in Nat
<1> DEFINE fair == FairOutput(selling, raw, buying)
           least == Bps - SlippageBps
<1>1. fair \in Nat /\ rate \in Nat /\ least \in Nat /\ least <= rate
  <2>1. fair \in Nat
    BY ConversionsAreNat DEF FairOutput
  <2>2. rate \in Nat /\ least <= rate /\ SlippageBps \in 0..500
    BY SizingConstants
  <2>3. QED
    BY <2>1, <2>2 DEF Bps
<1> HIDE DEF fair, least
<1>2. fair * least \in Nat /\ fair * rate \in Nat /\ fair * least <= fair * rate
  BY <1>1, ProductIsNat, ProductMonotone
<1>3. /\ (fair * least) \div Bps <= (fair * rate) \div Bps
      /\ (fair * least) \div Bps \in Nat
  BY <1>2, QuotientMonotone, QuotientIsBelow, DenominatorsArePositive
<1>4. QED
  BY <1>3 DEF MinimumOutput, fair, least

\* The keeper's grow borrows what the program would, and that stays within the target.
LEMMA SizedGrowFits ==
    ASSUME SizingInv, Factor = Percent, built.for = "grow", built.at = feed,
           WithinAvailableShare(built.raw, Available, ShareBps), NEW rate \in RouterRates
    PROVE  GrowFits(built, Bought(built.raw, rate))
<1> DEFINE deposited == Collateral(feed)
           owed == UsdValue(Usdc, position.debt)
           target == strategy.target
           allowed == ValueAllowedAtTarget(deposited, target)
           room == Monus(allowed, owed)
           value == BorrowToReachTarget(owed, deposited, target, Factor)
           after == UsdValue(Usdc, position.debt + built.raw)
<1>1. /\ built.raw \in Nat /\ built.raw > 0 /\ Ltv(feed) <= strategy.growBelow
      /\ built.raw = UsdcToBorrowForGrow(AdjustedDebt(position.debt), deposited)
  BY DEF SizingInv, StateTypes, BuiltType, BuiltAsSized
<1>2. /\ deposited \in Nat /\ owed \in Nat /\ position.debt \in Nat /\ target \in Nat
      /\ feed \in Nat \ {0}
  BY PositionFact, StrategyFact DEF SizingInv, StateTypes
<1>3. AdjustedDebt(position.debt) = owed
  BY <1>2, UnweightedDebt DEF AdjustedDebt
<1>4. built.raw = RawWorthRoundingDown(Usdc, value)
  BY <1>1, <1>3 DEF UsdcToBorrowForGrow
<1> HIDE DEF deposited, owed, target
<1>5. allowed \in Nat
  BY <1>2, RatesAreNat
<1>6. value \in Nat /\ value <= room
  <2>1. value \in Nat
    BY <1>2, SizingConstants, SizesAreNat
  <2>2. Weighted(value, Factor) <= room
    BY <1>2, SizingConstants, BorrowStaysWithinTheTarget
  <2>3. QED
    BY <2>1, <2>2, UnweightedDebt
<1>7. after <= owed + value /\ after \in Nat
  <2>1. position.debt + built.raw \in Nat
    BY <1>1, <1>2
  <2> HIDE DEF value
  <2>2. QED
    BY <1>2, <1>4, <1>6, <2>1, SizingConstants, ConversionsAreNat, DebtGrowsByItsValue DEF owed
<1>8. value # 0
  <2>1. Usdc.unit \in Nat \ {0} /\ Usdc.price \in Nat \ {0}
    BY SizingConstants DEF TokenType
  <2>2. RawWorthRoundingDown(Usdc, 0) = 0
    BY <2>1 DEF RawWorthRoundingDown
  <2>3. QED
    BY <1>1, <1>4, <2>2
<1> HIDE DEF allowed, value, after
<1>9. after <= allowed
  BY <1>2, <1>5, <1>6, <1>7, <1>8 DEF Monus
<1>10. AdjustedDebt(position.debt + built.raw) = after
  BY <1>7, UnweightedDebt DEF AdjustedDebt, after
<1>11. LoanToValueBps(AdjustedDebt(position.debt + built.raw), Collateral(feed)) <= strategy.target
  BY <1>2, <1>7, <1>9, <1>10, AllowedIsAtTarget DEF allowed, deposited, target
<1>12. Bought(built.raw, rate) >= MinimumOutput(Usdc, built.raw, Destination, SlippageBps)
  BY <1>1, SizingConstants, RatesCoverTheMinimum DEF Bought
<1>13. QED
  BY <1>1, <1>11, <1>12 DEF GrowFits, deposited

\* Past the target there is a debt to repay.
LEMMA ProtectIsOwed ==
    ASSUME SizingInv, Factor = Percent, StrategyIsValid(strategy, MaxLtv, Threshold),
           Ltv(feed) >= strategy.protect
    PROVE  Protecting.repay > 0 /\ position.debt > 0
<1> DEFINE deposited == Collateral(feed)
           owed == UsdValue(Usdc, position.debt)
           target == strategy.target
           allowed == ValueAllowedAtTarget(deposited, target)
           value == RepayToReachTarget(owed, deposited, target, Factor)
<1>1. /\ deposited \in Nat /\ owed \in Nat /\ position.debt \in Nat /\ target \in Nat
      /\ feed \in Nat \ {0} /\ strategy.protect \in Int
      /\ Usdc.unit \in Nat \ {0} /\ Usdc.price \in Nat \ {0}
  BY PositionFact, StrategyFact, SizingConstants DEF SizingInv, StateTypes, TokenType
<1>2. AdjustedDebt(position.debt) = owed
  BY <1>1, UnweightedDebt DEF AdjustedDebt
<1>3. LoanToValueBps(owed, deposited) > target
  <2>1. LoanToValueBps(owed, deposited) >= strategy.protect
    BY <1>2 DEF Ltv
  <2>2. LoanToValueBps(owed, deposited) \in Nat
    BY <1>1, LoanToValueIsNat
  <2>3. QED
    BY <1>1, <2>1, <2>2 DEF StrategyIsValid, MinGuardRoom
<1>4. Protecting.repay = RawWorthRoundingUp(Usdc, value) /\ Protecting.repay \in Nat
  BY <1>2, ProtectingFact DEF SizingInv
<1> HIDE DEF deposited, target
<1>5. position.debt # 0
  <2>1. SUFFICES ASSUME position.debt = 0 PROVE FALSE
    OBVIOUS
  <2>2. owed = 0
    BY <1>1, <2>1 DEF UsdValue
  <2>3. allowed \in Nat
    BY <1>1, RatesAreNat
  <2>4. QED
    BY <1>1, <1>3, <2>2, <2>3, PastTheTargetIsNotAllowed
<1> HIDE DEF owed
<1>6. allowed < owed /\ allowed \in Nat
  BY <1>1, <1>3, PastTheTargetIsNotAllowed, RatesAreNat
<1>7. value \in Nat
  BY <1>1, SizingConstants, SizesAreNat
<1>8. owed <= allowed + value
  <2>1. owed <= allowed + Weighted(value, Factor)
    BY <1>1, SizingConstants, RepayReachesTheTarget
  <2> HIDE DEF value, allowed
  <2>2. QED
    BY <1>7, <2>1, UnweightedDebt
<1> HIDE DEF allowed, value
<1>9. Protecting.repay # 0
  <2>1. value * Usdc.unit \in Nat /\ value * Usdc.unit > 0
    <3>1. value > 0
      BY <1>1, <1>6, <1>7, <1>8
    <3>2. Usdc.unit * 0 < Usdc.unit * value
      BY <1>1, <1>7, <3>1, ProductStrict
    <3>3. QED
      BY <1>1, <1>7, <3>2, ProductIsNat
  <2>2. value * Usdc.unit <= Usdc.price * Protecting.repay
    BY <1>1, <1>4, <2>1, RoundingUpCovers DEF RawWorthRoundingUp
  <2>3. QED
    BY <1>1, <2>1, <2>2
<1>10. QED
  BY <1>1, <1>4, <1>5, <1>9

\* A protect sized at the price it lands at sells enough, whatever the route loses.
LEMMA SizedProtectFits ==
    ASSUME SizingInv, Factor = Percent, StrategyIsValid(strategy, MaxLtv, Threshold),
           built.for = "protect", built.at = feed, Ltv(feed) >= strategy.protect,
           RoundingIsBelowABasisPoint,
           MinimumOutput(Destination, built.raw, Usdc, SlippageBps) > 0,
           NEW rate \in RouterRates
    PROVE  ProtectFits(built, Raised(built.raw, rate))
<1> DEFINE deposited == Collateral(feed)
           owed == UsdValue(Usdc, position.debt)
           target == strategy.target
           value == RepayToReachTarget(owed, deposited, target, Factor)
           bounty == Least(RawWorthRoundingDown(Usdc, BountyOn(value, BountyBps)), BountyCap)
           repay == RawWorthRoundingUp(Usdc, value)
           need == repay + bounty
           amount == AddTheSlippageBuffer(RawWorthRoundingUp(Destination, UsdValue(Usdc, need)), SlippageBps)
           least == MinimumOutput(Destination, built.raw, Usdc, SlippageBps)
           raised == Raised(built.raw, rate)
           repaying == Least(Least(repay, raised), position.debt)
           missing == 2 + 2 * RawWorthRoundingUp(Usdc, 1)
           lost == DivideRoundingUp(missing * Usdc.price, Usdc.unit)
           left == UsdValue(Usdc, position.debt - repaying)
<1>1. /\ built.raw \in Nat /\ built.raw > 0
      /\ built.raw = DestinationToSellForProtect(AdjustedDebt(position.debt), deposited)
  BY DEF SizingInv, StateTypes, BuiltType, BuiltAsSized
<1>2. /\ deposited \in Nat /\ owed \in Nat /\ position.debt \in Nat /\ target \in Nat
      /\ feed \in Nat \ {0} /\ position.yield \in Nat
      /\ Usdc.unit \in Nat \ {0} /\ Usdc.price \in Nat \ {0}
  BY PositionFact, StrategyFact, SizingConstants DEF SizingInv, StateTypes, TokenType
<1>3. AdjustedDebt(position.debt) = owed
  BY <1>2, UnweightedDebt DEF AdjustedDebt
<1>4. Protecting.sell = built.raw /\ Protecting.repay = repay /\ repay \in Nat
  BY <1>1, <1>3, ProtectingFact DEF SizingInv
<1>5. repay > 0 /\ position.debt > 0
  BY <1>4, ProtectIsOwed
<1>6. built.raw = Least(amount, position.yield)
  BY <1>1, <1>3 DEF DestinationToSellForProtect
<1>7. least <= raised /\ least \in Nat /\ raised \in Nat /\ least > 0
  BY <1>1, SizingConstants, RatesCoverTheMinimum, FillsOfASwapAreNat DEF Raised
<1> HIDE DEF deposited, owed, target
<1>8. value \in Nat
  BY <1>2, SizingConstants, SizesAreNat
<1>9. bounty \in Nat
  <2> HIDE DEF value
  <2>1. RawWorthRoundingDown(Usdc, BountyOn(value, BountyBps)) \in Nat
    BY <1>8, SizingConstants, RatesAreNat, ConversionsAreNat
  <2>2. QED
    BY <2>1, SizingConstants, LeastFact
<1> HIDE DEF value, bounty
<1>10. repaying \in Nat /\ repaying <= position.debt /\ repaying > 0
  <2> HIDE DEF repay, raised
  <2> QED BY <1>2, <1>4, <1>5, <1>7 DEF Least
<1>11. missing \in Nat
  BY SMTT(30), SizingConstants, ConversionsAreNat
<1>12. \/ built.raw = position.yield
       \/ LoanToValueBps(AdjustedDebt(position.debt - repaying), deposited) <= target
  <2>1. SUFFICES ASSUME built.raw # position.yield
                 PROVE  LoanToValueBps(AdjustedDebt(position.debt - repaying), deposited) <= target
    OBVIOUS
  <2>2. built.raw = amount
    BY <1>6, <2>1 DEF Least
  <2>3. need \in Nat /\ repay <= need
    <3> HIDE DEF repay
    <3> QED BY <1>4, <1>9
  <2>4. need <= least + missing
    <3>1. need <= least + 2 + 2 * RawWorthRoundingUp(Usdc, 1)
      <4> HIDE DEF need
      <4> QED BY <1>1, <2>2, <2>3, SizingConstants, SaleCoversTheNeed
    <3>2. RawWorthRoundingUp(Usdc, 1) \in Nat
      BY SizingConstants, ConversionsAreNat
    <3> HIDE DEF need, least
    <3>3. QED
      BY <1>7, <2>3, <3>1, <3>2
  <2> HIDE DEF need, least, missing, amount
  <2>5. repay <= repaying + missing
    <3>1. repay <= position.debt
      <4>1. Weighted(owed, Factor) = owed
        BY <1>2, UnweightedDebt
      <4>2. QED
        BY <1>2, <4>1, SizingConstants, RepayIsOwed DEF owed, value
    <3> HIDE DEF repay, raised
    <3>2. QED
      BY <1>2, <1>4, <1>7, <1>11, <2>3, <2>4, <3>1 DEF Least
  <2>6. left <= ValueAllowedAtTarget(deposited, target) + lost /\ left \in Nat /\ lost \in Nat
    <3>1. position.debt - repaying \in Nat
      BY <1>2, <1>10
    <3> HIDE DEF repaying
    <3>2. left \in Nat
      BY <3>1, SizingConstants, ConversionsAreNat
    <3>3. lost \in Nat
      BY <1>2, <1>11, ProductIsNat, RoundingUpIsNat
    <3>4. Weighted(owed, Factor) = owed /\ Weighted(left, Factor) = left
      <4> HIDE DEF left
      <4> QED BY <1>2, <3>2, UnweightedDebt
    <3>5. DivideRoundingUp(lost * Factor, Percent) = lost
      <4> HIDE DEF lost
      <4> QED BY <3>3 DEF DivideRoundingUp, Percent
    <3>6. repay = RawWorthRoundingUp(Usdc, RepayToReachTarget(
                    Weighted(UsdValue(Usdc, position.debt), Factor), deposited, target, Factor))
      BY <3>4 DEF owed, value
    <3>7. Weighted(left, Factor) <= ValueAllowedAtTarget(deposited, target)
                                    + DivideRoundingUp(lost * Factor, Percent)
      <4> HIDE DEF repay
      <4> QED BY <1>2, <1>4, <1>10, <1>11, <2>5, <3>6, SizingConstants, ShortRepayNearlyReaches
    <3>8. QED
      BY <3>2, <3>3, <3>4, <3>5, <3>7
  <2>7. AdjustedDebt(position.debt - repaying) = left
    <3>1. Weighted(left, Factor) = left
      <4> HIDE DEF left
      <4> QED BY <2>6, UnweightedDebt
    <3>2. QED
      BY <3>1 DEF AdjustedDebt
  <2>8. lost * Bps < deposited
    BY DEF RoundingIsBelowABasisPoint, LostToRounding, deposited, missing
  <2> HIDE DEF left, lost
  <2>9. QED
    BY <1>2, <2>6, <2>7, <2>8, NearlyAllowedIsAtTarget
<1>13. ProtectFits(built, raised)
  <2>1. Protecting.sell > 0 /\ built.raw <= Protecting.sell
    BY <1>1, <1>4
  <2>2. raised >= IF built.by = "keeper"
                  THEN MinimumOutput(Destination, Protecting.sell, Usdc, SlippageBps)
                  ELSE least
    BY <1>4, <1>7
  <2>3. Least(Least(Protecting.repay, raised), position.debt) = repaying
    BY <1>4
  <2>4. QED
    BY <1>10, <1>12, <2>1, <2>2, <2>3 DEF ProtectFits, deposited, target
<1>14. QED
  BY <1>13 DEF raised

------------------------------------------------------------------------------
(* What the margins are for is not refused.                                *)

\* An open that fits, lands; so does each of the others.
LEMMA WhatFitsLands ==
    ASSUME NEW rate \in RouterRates, Land(rate)
    PROVE  /\ built.for = "open" /\ OpenFits(built) => outcome' = "done"
           /\ built.for = "topUp" /\ TopUpFits(built) => outcome' = "done"
           /\ built.for = "protect" /\ ProtectFits(built, Raised(built.raw, rate)) => outcome' = "done"
           /\ built.for = "grow" /\ GrowFits(built, Bought(built.raw, rate)) => outcome' = "done"
BY DEF Land, Accept

\* priceMargin.ts, open_position.rs: an open is not refused while the stock, counted in
\* whole dollars, is within the margin.
THEOREM OpensAreCovered ==
    ASSUME Factor = Percent, Usdc.price <= One, MaxLtv >= 3500, MaxLtv <= Threshold
    PROVE  SizingSpec => OpensTheMarginCovers
<1> DEFINE worth == WholeUsd(StockAt(feed), built.stock)
           Covered == /\ Lands("open") /\ built.raw > 0
                      /\ worth \in MinPositionUsd..MaxPositionUsd
                      /\ WithinTheMargin(worth * One, built.valued)
<1>1. SizingInv /\ [SizingNext]_sizingVars => [Covered => outcome' = "done"]_sizingVars
  <2>1. SUFFICES ASSUME SizingInv, Covered PROVE outcome' = "done"
    OBVIOUS
  <2>2. PICK rate \in RouterRates : built.for = "open" /\ Land(rate)
    BY <2>1 DEF Lands
  <2>3. OpenFits(built)
    BY <2>1, <2>2, CoveredOpenFits, DefaultStrategyIsValid
  <2>4. QED
    BY <2>2, <2>3, WhatFitsLands
<1>2. QED
  BY <1>1, AlwaysSized, PTL DEF SizingSpec, OpensTheMarginCovers

\* Counting whole dollars uses up none of the margin of an open of a hundred dollars or
\* more, the price of which has not fallen.
LEMMA AHundredDollarsAreCovered ==
    ASSUME NEW now \in Nat \ {0}, NEW then \in Nat \ {0}, then <= now, NEW stock \in Nat,
           WholeUsd(StockAt(now), stock) >= 99
    PROVE  WithinTheMargin(WholeUsd(StockAt(now), stock) * One, UsdValue(StockAt(then), stock))
<1> DEFINE worth == WholeUsd(StockAt(now), stock)
           value == UsdValue(StockAt(now), stock)
           before == UsdValue(StockAt(then), stock)
<1>1. /\ StockUnit \in Nat \ {0} /\ One \in Nat \ {0}
      /\ worth = (stock * now) \div (StockUnit * One)
      /\ value = (stock * now) \div StockUnit /\ before = (stock * then) \div StockUnit
  BY SizingConstants DEF WholeUsd, UsdValue, StockAt
<1>2. /\ stock * now \in Nat /\ stock * then \in Nat /\ stock * then <= stock * now
      /\ StockUnit * One \in Nat \ {0}
  BY <1>1, ProductIsNat, ProductMonotone
<1>3. before \in Nat /\ value \in Nat /\ before <= value /\ StockUnit * value <= stock * now
  BY <1>1, <1>2, QuotientMonotone, QuotientIsBelow
<1>4. worth \in Nat /\ stock * now < (StockUnit * One) * worth + StockUnit * One
  BY <1>1, <1>2, QuotientIsClose
<1>5. worth >= 99
  OBVIOUS
<1> HIDE DEF worth, value, before
<1>6. (StockUnit * One) * worth + StockUnit * One = StockUnit * (One * worth + One)
  <2>1. \A a, b, c \in Nat : (a * b) * c + a * b = a * (b * c + b)
    OBVIOUS
  <2>2. StockUnit \in Nat /\ One \in Nat /\ worth \in Nat
    BY <1>1, <1>4
  <2>3. QED
    BY <2>1, <2>2
<1>7. One * worth + One \in Nat
  BY <1>1, <1>4, ProductIsNat
<1>8. value < One * worth + One
  <2>1. StockUnit * value < StockUnit * (One * worth + One)
    BY <1>1, <1>2, <1>3, <1>4, <1>6, <1>7, ProductIsNat
  <2>2. QED
    BY <1>1, <1>3, <1>7, <2>1, StrictCancellation
<1>9. One * 99 <= One * worth
  BY <1>1, <1>4, <1>5, ProductMonotone
<1>10. before * 9900 <= (One * worth) * 10000
  BY <1>1, <1>3, <1>4, <1>8, <1>9, ProductIsNat
<1>11. One * worth = worth * One
  BY <1>1, <1>4
<1>12. WithinTheMargin(worth * One, before)
  BY <1>10, <1>11 DEF WithinTheMargin, Bps
<1>13. QED
  BY <1>12 DEF worth, before

\* topUp.ts: nor is a top-up while its price is within the margin, whatever the position
\* owed before.
THEOREM TopUpsAreCovered ==
    ASSUME Factor = Percent
    PROVE  SizingSpec => TopUpsTheMarginCovers
<1> DEFINE Covered ==
             /\ Lands("topUp") /\ WithinTheMargin(feed, built.at)
             /\ built.valued <= UsdValue(StockAt(built.at), position.held + built.stock)
             /\ UsdValue(StockAt(feed), position.held + built.stock) \div One <= MaxPositionUsd
             /\ WithinAvailableShare(built.raw, Available, ShareBps)
<1>1. SizingInv /\ [SizingNext]_sizingVars => [Covered => outcome' = "done"]_sizingVars
  <2>1. SUFFICES ASSUME SizingInv, Covered PROVE outcome' = "done"
    OBVIOUS
  <2>2. PICK rate \in RouterRates : built.for = "topUp" /\ Land(rate)
    BY <2>1 DEF Lands
  <2>3. TopUpFits(built)
    BY <2>1, <2>2, CoveredTopUpFits
  <2>4. QED
    BY <2>2, <2>3, WhatFitsLands
<1>2. QED
  BY <1>1, AlwaysSized, PTL DEF SizingSpec, TopUpsTheMarginCovers

\* core's guard.ts: a guard call that lands at the price it was sized at is not refused for
\* its size, whatever the route loses within the slippage.
THEOREM GuardCallsAreTaken ==
    ASSUME Factor = Percent, MaxLtv >= 3500, MaxLtv <= Threshold
    PROVE  SizingSpec => GuardCallsFit
<1> DEFINE Sized ==
             /\ built.at = feed /\ RoundingIsBelowABasisPoint
             /\ \/ /\ Lands("protect") /\ Ltv(feed) >= strategy.protect
                   /\ MinimumOutput(Destination, built.raw, Usdc, SlippageBps) > 0
                \/ Lands("grow") /\ WithinAvailableShare(built.raw, Available, ShareBps)
<1>1. SizingInv /\ [SizingNext]_sizingVars => [Sized => outcome' = "done"]_sizingVars
  <2>1. SUFFICES ASSUME SizingInv, Sized PROVE outcome' = "done"
    OBVIOUS
  <2>2. CASE /\ Lands("protect") /\ Ltv(feed) >= strategy.protect
             /\ MinimumOutput(Destination, built.raw, Usdc, SlippageBps) > 0
    <3>1. PICK rate \in RouterRates : built.for = "protect" /\ Land(rate)
      BY <2>2 DEF Lands
    <3>2. ProtectFits(built, Raised(built.raw, rate))
      BY <2>1, <2>2, <3>1, SizedProtectFits, DefaultStrategyIsValid
    <3>3. QED
      BY <3>1, <3>2, WhatFitsLands
  <2>3. CASE Lands("grow") /\ WithinAvailableShare(built.raw, Available, ShareBps)
    <3>1. PICK rate \in RouterRates : built.for = "grow" /\ Land(rate)
      BY <2>3 DEF Lands
    <3>2. GrowFits(built, Bought(built.raw, rate))
      BY <2>1, <2>3, <3>1, SizedGrowFits
    <3>3. QED
      BY <3>1, <3>2, WhatFitsLands
  <2>4. QED
    BY <2>1, <2>2, <2>3
<1>2. QED
  BY <1>1, AlwaysSized, PTL DEF SizingSpec, GuardCallsFit
==============================================================================
