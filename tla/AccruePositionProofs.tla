-------------------------- MODULE AccruePositionProofs --------------------------
(***************************************************************************)
(* What holds of an Accrue position for every limit, strategy, price,      *)
(* amount and router, proved from the assumptions of AccruePosition: the   *)
(* types; what each instruction does to the amounts the properties speak   *)
(* of (the Effect lemmas); the inductive invariant that follows, and from  *)
(* it the invariants, the action properties and the refinement of          *)
(* PositionLifecycle.  Last comes the guard: that risk only rises to the   *)
(* owner's target, that a bounty is earned, that a fill within the         *)
(* slippage lands, that a guard step settles the position, and that rescue *)
(* takes out all there is.                                                 *)
(***************************************************************************)
EXTENDS AccruePosition, GuardMathProofs

ObligationType == [exists : BOOLEAN, dep : Nat, debt : Nat]
HeldType == [stock : Nat, usdc : Nat, dest : Nat]

------------------------------------------------------------------------------
(* What the operators the handlers share return.                           *)

\* The program's limits have the types the arithmetic needs.
LEMMA LimitsFact ==
    SlippageBps \in 0..500 /\ BountyBps \in Nat /\ BountyCap \in Nat
BY LimitsAssumption

\* Under the type invariant the configured fee is a natural number.
LEMMA ConfigFact ==
    ASSUME TypeOK
    PROVE  config \in ConfigType /\ config.fee \in Nat
BY ChoicesAssumption DEF TypeOK, ConfigType

\* Under the type invariant every token can be priced.
LEMMA TokensFact ==
    ASSUME TypeOK
    PROVE  Stock \in TokenType /\ Usdc \in TokenType /\ Destination \in TokenType
BY MarketAssumption DEF TypeOK, Stock, Usdc, Destination, TokenType

\* A swap spends at most what it was handed and gives at least its minimum.
LEMMA SwapFact ==
    ASSUME NEW selling \in TokenType, NEW buying \in TokenType, NEW amount \in Nat,
           NEW minimum \in Nat, NEW s \in Swaps(selling, amount, buying, minimum)
    PROVE  /\ s.spent \in Nat /\ s.spent <= amount
           /\ s.got \in Nat /\ s.got >= minimum
<1>1. PICK u \in Unspent : u < amount /\ s.spent = amount - u
  BY DEF Swaps
<1>2. PICK r \in RouterRates : s.got = (FairOutput(selling, amount, buying) * r) \div Bps
  BY DEF Swaps
<1>3. u \in Nat /\ r \in Nat
  BY ChoicesAssumption
<1>4. s.got \in Nat
  BY <1>2, <1>3, FillsAreNat
<1>5. s.got >= minimum
  BY DEF Swaps
<1>6. QED
  BY <1>1, <1>3, <1>4, <1>5

\* The minimum a caller asks of a swap is a natural number.
LEMMA SwapMinimumIsNat ==
    ASSUME NEW selling \in TokenType, NEW buying \in TokenType, NEW amount \in Nat, NEW by
    PROVE  SwapMinimum(by, selling, amount, buying) \in Nat
<1>1. MinimumOutput(selling, amount, buying, SlippageBps) \in Nat
  BY ZenonT(60), MinimumOutputIsNat, LimitsFact
<1>2. QED
  BY <1>1 DEF SwapMinimum

\* Selling every destination token spends at most what is held.
LEMMA SaleFact ==
    ASSUME TypeOK, NEW minimum \in Nat, NEW s \in SaleOfEverything(minimum)
    PROVE  s.spent \in Nat /\ s.spent <= held.dest /\ s.got \in Nat
<1>1. held.dest \in Nat
  BY DEF TypeOK
<1>2. CASE held.dest = 0
  BY <1>2 DEF SaleOfEverything
<1>3. CASE held.dest # 0
  BY <1>1, <1>3, TokensFact, SwapFact DEF SaleOfEverything
<1>4. QED
  BY <1>2, <1>3

\* The sale of a delegated leave spends at most what is held.
LEMMA LeaveSaleFact ==
    ASSUME TypeOK, NEW s \in LeaveSales
    PROVE  s.spent \in Nat /\ s.spent <= held.dest /\ s.got \in Nat
<1>1. MinimumOutput(Destination, held.dest, Usdc, SlippageBps) \in Nat
  BY ZenonT(60), TokensFact, MinimumOutputIsNat, LimitsFact DEF TypeOK
<1>2. QED
  BY <1>1, SaleFact DEF LeaveSales

\* The two values an obligation is judged by are natural numbers.
LEMMA ValuesFact ==
    ASSUME TypeOK, NEW o \in ObligationType
    PROVE  DepositedValue(o) \in Nat /\ AdjustedDebt(o) \in Nat
<1>1. o.dep \in Nat /\ o.debt \in Nat /\ BorrowFactor \in Nat
  BY MarketAssumption DEF ObligationType
<1>2. UsdValue(Stock, o.dep) \in Nat /\ UsdValue(Usdc, o.debt) \in Nat
  BY <1>1, TokensFact, ConversionsAreNat
<1>3. QED
  BY <1>1, <1>2, RatesAreNat DEF DepositedValue, AdjustedDebt

\* The amounts protect and grow derive are natural, and the sale fits the holding.
LEMMA GuardSizesFact ==
    ASSUME TypeOK
    PROVE  /\ RepayNeeded \in Nat /\ BountyWanted \in Nat /\ RoomToTarget \in Nat
           /\ DestinationToSell \in Nat /\ DestinationToSell <= held.dest
<1>1. /\ DepositedValue(obl) \in Nat /\ AdjustedDebt(obl) \in Nat
      /\ pos.strategy.target \in Nat /\ BorrowFactor \in Nat \ {0}
      /\ held.dest \in Nat
  BY ValuesFact, MarketAssumption DEF TypeOK, ObligationType, PositionType, StrategyType
<1> DEFINE repay == RepayToReachTarget(AdjustedDebt(obl), DepositedValue(obl),
                                       pos.strategy.target, BorrowFactor)
           room == BorrowToReachTarget(AdjustedDebt(obl), DepositedValue(obl),
                                       pos.strategy.target, BorrowFactor)
<1>2. repay \in Nat /\ room \in Nat
  BY <1>1, SizesAreNat
<1>3. BountyOn(repay, BountyBps) \in Nat
  BY <1>2, RatesAreNat, LimitsFact
<1> HIDE DEF repay, room
<1>4. RepayNeeded \in Nat /\ RoomToTarget \in Nat
  BY <1>2, TokensFact, ConversionsAreNat DEF RepayNeeded, RoomToTarget, repay, room
<1>5. RawWorthRoundingDown(Usdc, BountyOn(repay, BountyBps)) \in Nat
  BY <1>3, TokensFact, ConversionsAreNat
<1>6. BountyWanted \in Nat
  BY <1>5, LeastFact, LimitsFact DEF BountyWanted, repay
<1> DEFINE raw == RawWorthRoundingUp(Destination, UsdValue(Usdc, RepayNeeded + BountyWanted))
<1>7. RepayNeeded + BountyWanted \in Nat
  BY <1>4, <1>6
<1>8. raw \in Nat
  BY <1>7, TokensFact, ConversionsAreNat
<1>9. AddTheSlippageBuffer(raw, SlippageBps) \in Nat
  BY <1>8, BufferIsNat, LimitsFact
<1>10. DestinationToSell \in Nat /\ DestinationToSell <= held.dest
  BY <1>1, <1>9, LeastFact DEF DestinationToSell
<1>11. QED
  BY <1>4, <1>6, <1>10

\* What a rescue leaves in the market is an obligation of the right type.
LEMMA RescuedFact ==
    ASSUME TypeOK
    PROVE  /\ RescuedObligation \in ObligationType
           /\ RescuedObligation.exists = obl.exists
           /\ RescuedObligation.debt = obl.debt
           /\ RescuedObligation.dep <= obl.dep
           /\ obl.debt = 0 => RescuedObligation.dep = 0
<1> DEFINE out == Withdrawable(obl.dep, obl.debt, AdjustedDebt(obl), DepositedValue(obl), MaxLtv)
<1>1. obl \in ObligationType /\ AdjustedDebt(obl) \in Nat /\ DepositedValue(obl) \in Nat
  BY ValuesFact DEF TypeOK, ObligationType
<1>2. out \in Nat /\ out <= obl.dep
  BY <1>1, WithdrawableFact, MarketAssumption DEF ObligationType
<1>3. obl.debt = 0 => out = obl.dep
  BY DEF Withdrawable
<1>4. RescuedObligation = [obl EXCEPT !.dep = @ - out]
  BY DEF RescuedObligation
<1> HIDE DEF out
<1>5. QED
  BY <1>1, <1>2, <1>3, <1>4 DEF ObligationType

\* An update of two fields is two updates.
LEMMA HeldUpdateFact ==
    ASSUME NEW h \in HeldType, NEW u \in Nat, NEW d \in Nat
    PROVE  [h EXCEPT !.usdc = u, !.dest = d] \in HeldType
<1> DEFINE g == [h EXCEPT !.usdc = u]
<1>1. g \in HeldType
  BY DEF HeldType
<1> HIDE DEF g
<1>2. [g EXCEPT !.dest = d] \in HeldType
  BY <1>1 DEF HeldType
<1>3. QED
  BY <1>2 DEF g

\* Each group of field writes the handlers make keeps the position's type.
LEMMA PositionUpdatesFact ==
    ASSUME NEW p \in PositionType, NEW a \in Nat, NEW b \in Nat,
           NEW st \in {"None", "AwaitingSwap", "Open", "Closing", "Closed"}
    PROVE  /\ [p EXCEPT !.repaid = a, !.owed = b] \in PositionType
           /\ [p EXCEPT !.lastProtect = a, !.protects = b] \in PositionType
           /\ [p EXCEPT !.lastGrow = a, !.grows = b] \in PositionType
           /\ [p EXCEPT !.owed = a, !.state = st] \in PositionType
<1>1. [p EXCEPT !.repaid = a, !.owed = b] \in PositionType
  <2> DEFINE q == [p EXCEPT !.repaid = a]
  <2>1. q \in PositionType
    BY DEF PositionType
  <2> HIDE DEF q
  <2>2. [q EXCEPT !.owed = b] \in PositionType
    BY <2>1 DEF PositionType
  <2>3. QED
    BY <2>2 DEF q
<1>2. [p EXCEPT !.lastProtect = a, !.protects = b] \in PositionType
  <2> DEFINE q == [p EXCEPT !.lastProtect = a]
  <2>1. q \in PositionType
    BY DEF PositionType
  <2> HIDE DEF q
  <2>2. [q EXCEPT !.protects = b] \in PositionType
    BY <2>1 DEF PositionType
  <2>3. QED
    BY <2>2 DEF q
<1>3. [p EXCEPT !.lastGrow = a, !.grows = b] \in PositionType
  <2> DEFINE q == [p EXCEPT !.lastGrow = a]
  <2>1. q \in PositionType
    BY DEF PositionType
  <2> HIDE DEF q
  <2>2. [q EXCEPT !.grows = b] \in PositionType
    BY <2>1 DEF PositionType
  <2>3. QED
    BY <2>2 DEF q
<1>4. [p EXCEPT !.owed = a, !.state = st] \in PositionType
  <2> DEFINE q == [p EXCEPT !.owed = a]
  <2>1. q \in PositionType
    BY DEF PositionType
  <2> HIDE DEF q
  <2>2. [q EXCEPT !.state = st] \in PositionType
    BY <2>1 DEF PositionType
  <2>3. QED
    BY <2>2 DEF q
<1>5. QED
  BY <1>1, <1>2, <1>3, <1>4

\* The numeric fields of a position are natural numbers.
LEMMA PositionFieldsFact ==
    ASSUME NEW p \in PositionType
    PROVE  /\ p.strategy \in StrategyType /\ p.fee \in Nat
           /\ p.lastProtect \in Nat /\ p.lastGrow \in Nat
           /\ p.protects \in Nat /\ p.grows \in Nat
           /\ p.borrowed \in Nat /\ p.repaid \in Nat
           /\ p.sales \in Nat /\ p.owed \in Nat
BY DEF PositionType

\* The bookkeeping helpers return positions of the right type.
LEMMA RecordsFact ==
    ASSUME NEW p \in PositionType, NEW amount \in Nat
    PROVE  /\ RecordBorrow(p, amount) \in PositionType
           /\ RecordRepay(p, amount) \in PositionType
           /\ RecordSale(p, amount) \in PositionType
<1>1. p.owed \in Nat /\ p.borrowed \in Nat /\ p.repaid \in Nat /\ p.sales \in Nat
  BY PositionFieldsFact
<1> DEFINE repaid == p.repaid + amount
           owed == Monus(p.owed, amount)
<1>2. repaid \in Nat
  BY <1>1
<1>3. owed \in Nat
  BY <1>1, MonusFact
<1>4. RecordRepay(p, amount) \in PositionType
  <2>1. RecordRepay(p, amount) = [p EXCEPT !.repaid = repaid, !.owed = owed]
    BY DEF RecordRepay
  <2> HIDE DEF repaid, owed
  <2>2. [p EXCEPT !.repaid = repaid, !.owed = owed] \in PositionType
    BY <1>2, <1>3, PositionUpdatesFact
  <2>3. QED
    BY <2>1, <2>2
<1>5. RecordBorrow(p, amount) \in PositionType /\ RecordSale(p, amount) \in PositionType
  BY <1>1 DEF RecordBorrow, RecordSale, PositionType
<1>6. QED
  BY <1>4, <1>5

\* The account open_position writes.
LEMMA NewPositionFact ==
    ASSUME TypeOK, NEW strategy \in Strategies
    PROVE  [NoPosition EXCEPT !.state = "Open", !.strategy = strategy, !.fee = config.fee]
             \in PositionType
<1>1. strategy \in StrategyType /\ config.fee \in Nat
  BY ConfigFact, ChoicesAssumption
<1>2. NoPosition \in PositionType
  BY DEF NoPosition, PositionType, StrategyType
<1> DEFINE p == [NoPosition EXCEPT !.state = "Open"]
<1>3. p \in PositionType
  BY <1>2 DEF PositionType
<1> HIDE DEF p
<1> DEFINE q == [p EXCEPT !.strategy = strategy]
<1>4. q \in PositionType
  BY <1>1, <1>3 DEF PositionType
<1> HIDE DEF q
<1>5. [q EXCEPT !.fee = config.fee] \in PositionType
  BY <1>1, <1>4 DEF PositionType
<1>6. QED
  BY <1>5 DEF p, q

\* The deposit and borrow shared by open and top-up keep the types.
LEMMA DepositAndBorrowType ==
    ASSUME TypeOK, NEW p \in PositionType, NEW dep \in Nat, NEW borrow \in Nat,
           NEW later \in BOOLEAN, NEW leastOut \in Nat,
           DepositAndBorrow(p, dep, borrow, later, leastOut)
    PROVE  pos' \in PositionType /\ obl' \in ObligationType /\ held' \in HeldType
<1>1. RecordBorrow(p, borrow) \in PositionType
  BY RecordsFact
<1>2. held \in HeldType /\ obl \in ObligationType
  BY DEF TypeOK, HeldType, ObligationType
<1>3. obl' \in ObligationType
  <2>1. obl' = [exists |-> TRUE, dep |-> obl.dep + dep, debt |-> obl.debt + borrow]
    BY DEF DepositAndBorrow
  <2>2. obl.dep + dep \in Nat /\ obl.debt + borrow \in Nat
    BY <1>2 DEF ObligationType
  <2>3. QED
    BY <2>1, <2>2 DEF ObligationType
<1>4. CASE later
  <2>1. /\ held' = [held EXCEPT !.usdc = @ + borrow]
        /\ pos' = [RecordBorrow(p, borrow) EXCEPT !.state = "AwaitingSwap"]
    BY <1>4 DEF DepositAndBorrow
  <2>2. QED
    BY <1>1, <1>2, <1>3, <2>1 DEF HeldType, PositionType
<1>5. CASE ~later
  <2>1. pos' = RecordBorrow(p, borrow)
    BY <1>5 DEF DepositAndBorrow
  <2>2. PICK s \in Swaps(Usdc, borrow, Destination, leastOut) :
          held' = [held EXCEPT !.dest = @ + s.got]
    BY <1>5 DEF DepositAndBorrow
  <2>3. s.got \in Nat
    BY TokensFact, SwapFact
  <2>4. held.dest + s.got \in Nat
    BY <1>2, <2>3 DEF HeldType
  <2>5. held' \in HeldType
    BY <1>2, <2>2, <2>4 DEF HeldType
  <2>6. QED
    BY <1>1, <1>3, <2>1, <2>5
<1>6. QED
  BY <1>4, <1>5

------------------------------------------------------------------------------
(* Type correctness.                                                       *)

\* No owner instruction breaks the type invariant.
LEMMA OwnerStepType ==
    ASSUME TypeOK, OwnerSteps
    PROVE  TypeOK'
<1>1. /\ pos \in PositionType /\ obl \in ObligationType /\ held \in HeldType
      /\ paid \in [treasury : Nat, callers : Nat]
  BY DEF TypeOK, ObligationType, HeldType
<1>2. ASSUME NEW strategy \in Strategies, NEW dep \in StockAmounts, NEW borrow \in BorrowAmounts,
             NEW later \in BOOLEAN, OpenPosition(strategy, dep, borrow, later)
      PROVE  TypeOK'
  <2> DEFINE fresh == [NoPosition EXCEPT !.state = "Open", !.strategy = strategy, !.fee = config.fee]
  <2>1. fresh \in PositionType
    BY NewPositionFact
  <2>2. DepositAndBorrow(fresh, dep, borrow, later, 0)
    BY <1>2 DEF OpenPosition
  <2> HIDE DEF fresh
  <2>3. pos' \in PositionType /\ obl' \in ObligationType /\ held' \in HeldType
    BY <2>1, <2>2, DepositAndBorrowType, ChoicesAssumption
  <2>4. QED
    BY <1>2, <2>3 DEF OpenPosition, TypeOK, ObligationType, HeldType
<1>3. CASE BuyDestination
  <2>1. PICK s \in Swaps(Usdc, held.usdc, Destination, 1) :
          held' = [held EXCEPT !.usdc = @ - s.spent, !.dest = @ + s.got]
    BY <1>3 DEF BuyDestination
  <2>2. s.spent \in Nat /\ s.spent <= held.usdc /\ s.got \in Nat
    BY <1>1, TokensFact, SwapFact DEF HeldType
  <2>3. held.usdc - s.spent \in Nat /\ held.dest + s.got \in Nat
    BY <1>1, <2>2 DEF HeldType
  <2>4. held' \in HeldType
    BY <1>1, <2>1, <2>3, HeldUpdateFact
  <2>5. QED
    BY <1>1, <1>3, <2>4 DEF BuyDestination, TypeOK, PositionType, HeldType
<1>4. ASSUME NEW dep \in StockAmounts, NEW borrow \in BorrowAmounts,
             NEW later \in BOOLEAN, TopUp(dep, borrow, later)
      PROVE  TypeOK'
  <2>1. pos' \in PositionType /\ obl' \in ObligationType /\ held' \in HeldType
    BY <1>1, <1>4, DepositAndBorrowType, ChoicesAssumption DEF TopUp
  <2>2. QED
    BY <1>4, <2>1 DEF TopUp, TypeOK, ObligationType, HeldType
<1>5. ASSUME NEW amount \in StockAmounts, AddCollateral(amount)
      PROVE  TypeOK'
  BY <1>5, ChoicesAssumption DEF AddCollateral, TypeOK
<1>6. ASSUME NEW requested \in RepayAmounts, Repay(requested)
      PROVE  TypeOK'
  <2> DEFINE amount == Least(requested, obl.debt)
  <2>1. amount \in Nat /\ amount <= obl.debt
    BY <1>1, LeastFact, ChoicesAssumption DEF ObligationType
  <2>2. obl' = [obl EXCEPT !.debt = @ - amount] /\ pos' = RecordRepay(pos, amount)
    BY <1>6 DEF Repay
  <2> HIDE DEF amount
  <2>3. obl' \in ObligationType
    BY <1>1, <2>1, <2>2 DEF ObligationType
  <2>4. pos' \in PositionType
    BY <1>1, <2>1, <2>2, RecordsFact
  <2>5. QED
    BY <1>6, <2>3, <2>4 DEF Repay, TypeOK, ObligationType
<1>7. ASSUME NEW amount \in StockAmounts, WithdrawCollateral(amount)
      PROVE  TypeOK'
  BY <1>7, ChoicesAssumption DEF WithdrawCollateral, TypeOK
<1>8. ASSUME NEW strategy \in Strategies, SetStrategy(strategy)
      PROVE  TypeOK'
  BY <1>8, ChoicesAssumption DEF SetStrategy, TypeOK, PositionType
<1>9. CASE Unwind
  <2>1. PICK s \in SaleOfEverything(0) :
          /\ paid' = [paid EXCEPT !.treasury = @ +
                FeeOnClosing(pos.sales + s.got, pos.repaid + obl.debt,
                    held.usdc + s.got + Monus(obl.debt, held.usdc + s.got) - obl.debt)]
          /\ pos' = [RecordRepay(RecordSale(pos, s.got), obl.debt) EXCEPT !.state = "Closed"]
    BY <1>9 DEF Unwind
  <2>2. s.got \in Nat
    BY SaleFact
  <2> DEFINE left == held.usdc + s.got + Monus(obl.debt, held.usdc + s.got) - obl.debt
             sales == pos.sales + s.got
             repaid == pos.repaid + obl.debt
  <2>3. left \in Nat /\ sales \in Nat /\ repaid \in Nat /\ pos.fee \in Nat
    BY <1>1, <2>2 DEF Monus, HeldType, ObligationType, PositionType
  <2> HIDE DEF left, sales, repaid
  <2>4. FeeOnClosing(sales, repaid, left) \in Nat
    BY <2>3, RatesAreNat, LeastFact DEF FeeOnClosing
  <2>5. paid' = [paid EXCEPT !.treasury = @ + FeeOnClosing(sales, repaid, left)]
    BY <2>1 DEF left, sales, repaid
  <2>6. RecordRepay(RecordSale(pos, s.got), obl.debt) \in PositionType
    BY <1>1, <2>2, RecordsFact DEF ObligationType
  <2>7. pos' \in PositionType
    BY <2>1, <2>6 DEF PositionType
  <2>8. paid' \in [treasury : Nat, callers : Nat]
    BY <1>1, <2>4, <2>5
  <2>9. QED
    BY <1>1, <1>9, <2>7, <2>8 DEF Unwind, TypeOK, ObligationType, NoObligation, NothingHeld
<1>10. CASE Rescue
  <2>1. ClosedWhenEmpty(RescuedObligation) \in ObligationType
    BY RescuedFact DEF ClosedWhenEmpty, ObligationType
  <2>2. obl' \in ObligationType
    BY <1>1, <1>10, <2>1 DEF Rescue
  <2>3. pos' \in PositionType
    BY <1>1, <1>10 DEF Rescue, StateAfterRescue, PositionType
  <2>4. QED
    BY <1>10, <2>2, <2>3 DEF Rescue, TypeOK, ObligationType, NothingHeld
<1>11. CASE ClosePosition
  BY <1>11 DEF ClosePosition, TypeOK, NoPosition, PositionType, StrategyType
<1>12. QED
  BY <1>2, <1>3, <1>4, <1>5, <1>6, <1>7, <1>8, <1>9, <1>10, <1>11 DEF OwnerSteps

\* No guard or delegated instruction breaks the type invariant.
LEMMA GuardStepType ==
    ASSUME TypeOK, GuardSteps
    PROVE  TypeOK'
<1>1. /\ pos \in PositionType /\ obl \in ObligationType /\ held \in HeldType
      /\ paid \in [treasury : Nat, callers : Nat] /\ now \in Nat
  BY DEF TypeOK, ObligationType, HeldType
<1>2. /\ obl.dep \in Nat /\ obl.debt \in Nat /\ held.usdc \in Nat /\ held.dest \in Nat
      /\ pos.protects \in Nat /\ pos.grows \in Nat
  BY <1>1, PositionFieldsFact DEF ObligationType, HeldType
<1>3. ASSUME NEW by \in Callers, Protect(by)
      PROVE  TypeOK'
  <2>1. PICK s \in Swaps(Destination, DestinationToSell, Usdc,
                         SwapMinimum(by, Destination, DestinationToSell, Usdc)) :
          /\ obl' = [obl EXCEPT !.debt = @ - Repaying(s.got)]
          /\ held' = [held EXCEPT
                !.usdc = @ + s.got - Repaying(s.got) - Least(BountyWanted, s.got - Repaying(s.got)),
                !.dest = @ - s.spent]
          /\ paid' = [paid EXCEPT !.callers = @ + Least(BountyWanted, s.got - Repaying(s.got))]
          /\ pos' = [RecordRepay(RecordSale(pos, s.got), Repaying(s.got))
                       EXCEPT !.lastProtect = now, !.protects = @ + 1]
    BY <1>3 DEF Protect
  <2>2. /\ s.spent \in Nat /\ s.spent <= held.dest /\ s.got \in Nat
    <3>1. s.spent \in Nat /\ s.spent <= DestinationToSell /\ s.got \in Nat
      BY TokensFact, GuardSizesFact, SwapMinimumIsNat, SwapFact
    <3>2. QED
      BY <1>2, <3>1, GuardSizesFact
  <2> DEFINE repaying == Repaying(s.got)
             bounty == Least(BountyWanted, s.got - repaying)
  <2>3. repaying \in Nat /\ repaying <= obl.debt /\ repaying <= s.got
    BY <1>2, <2>2, GuardSizesFact DEF Repaying, Least
  <2>4. bounty \in Nat /\ bounty <= s.got - repaying
    BY <2>2, <2>3, GuardSizesFact DEF Least
  <2> HIDE DEF repaying, bounty
  <2>5. obl' \in ObligationType
    BY <1>1, <2>1, <2>3 DEF ObligationType, repaying
  <2>6. held' \in HeldType
    <3>1. held.usdc + s.got - repaying - bounty \in Nat /\ held.dest - s.spent \in Nat
      BY <1>2, <2>2, <2>3, <2>4
    <3>2. held' = [held EXCEPT !.usdc = held.usdc + s.got - repaying - bounty,
                               !.dest = held.dest - s.spent]
      BY <2>1 DEF repaying, bounty
    <3>3. QED
      BY <1>1, <3>1, <3>2, HeldUpdateFact
  <2>7. paid' \in [treasury : Nat, callers : Nat]
    BY <1>1, <2>1, <2>4 DEF repaying, bounty
  <2>8. pos' \in PositionType
    <3> DEFINE p == RecordRepay(RecordSale(pos, s.got), repaying)
    <3>1. p \in PositionType
      BY <1>1, <2>2, <2>3, RecordsFact
    <3>2. pos' = [p EXCEPT !.lastProtect = now, !.protects = p.protects + 1]
      BY <2>1 DEF repaying
    <3> HIDE DEF p
    <3>3. p.protects + 1 \in Nat
      BY <3>1, PositionFieldsFact
    <3>4. QED
      BY <1>1, <3>1, <3>2, <3>3, PositionUpdatesFact
  <2>9. QED
    BY <1>3, <2>5, <2>6, <2>7, <2>8 DEF Protect, TypeOK, ObligationType, HeldType
<1>4. ASSUME NEW by \in Callers, Grow(by)
      PROVE  TypeOK'
  <2> DEFINE borrow == RoomToTarget
  <2>1. borrow \in Nat
    BY GuardSizesFact
  <2>2. PICK s \in Swaps(Usdc, borrow, Destination, SwapMinimum(by, Usdc, borrow, Destination)) :
          held' = [held EXCEPT !.usdc = @ + borrow - s.spent, !.dest = @ + s.got]
    BY <1>4 DEF Grow
  <2>3. /\ obl' = [obl EXCEPT !.debt = @ + borrow]
        /\ pos' = [RecordBorrow(pos, borrow) EXCEPT !.lastGrow = now, !.grows = @ + 1]
    BY <1>4 DEF Grow
  <2> HIDE DEF borrow
  <2>4. s.spent \in Nat /\ s.spent <= borrow /\ s.got \in Nat
    BY <2>1, TokensFact, SwapMinimumIsNat, SwapFact
  <2>5. held' \in HeldType
    <3>1. held.usdc + borrow - s.spent \in Nat /\ held.dest + s.got \in Nat
      BY <1>2, <2>1, <2>4
    <3>2. QED
      BY <1>1, <2>2, <3>1, HeldUpdateFact
  <2>6. obl' \in ObligationType
    BY <1>1, <2>1, <2>3 DEF ObligationType
  <2>7. pos' \in PositionType
    <3> DEFINE p == RecordBorrow(pos, borrow)
    <3>1. p \in PositionType
      BY <1>1, <2>1, RecordsFact
    <3>2. pos' = [p EXCEPT !.lastGrow = now, !.grows = p.grows + 1]
      BY <2>3
    <3> HIDE DEF p
    <3>3. p.grows + 1 \in Nat
      BY <3>1, PositionFieldsFact
    <3>4. QED
      BY <1>1, <3>1, <3>2, <3>3, PositionUpdatesFact
  <2>8. QED
    BY <1>4, <2>5, <2>6, <2>7 DEF Grow, TypeOK, ObligationType, HeldType
<1>5. ASSUME NEW by \in Callers, LeavePartWay(by)
      PROVE  TypeOK'
  <2>1. PICK s \in LeaveSales :
          /\ obl.debt > held.usdc + s.got
          /\ obl' = [obl EXCEPT !.debt = obl.debt - (held.usdc + s.got)]
          /\ held' = [held EXCEPT !.usdc = 0, !.dest = @ - s.spent]
          /\ pos' = [RecordRepay(RecordSale(pos, s.got), held.usdc + s.got)
                       EXCEPT !.owed = obl.debt - (held.usdc + s.got), !.state = "Closing"]
    BY <1>5 DEF LeavePartWay
  <2>2. s.spent \in Nat /\ s.spent <= held.dest /\ s.got \in Nat
    BY LeaveSaleFact
  <2> DEFINE cash == held.usdc + s.got
             owed == obl.debt - cash
  <2>3. cash \in Nat
    BY <1>2, <2>2
  <2>4. owed \in Nat
    BY <1>2, <2>1, <2>3
  <2> HIDE DEF cash, owed
  <2>5. obl' \in ObligationType
    BY <1>1, <2>1, <2>4 DEF ObligationType, cash, owed
  <2>6. held' \in HeldType
    <3>1. held.dest - s.spent \in Nat /\ 0 \in Nat
      BY <1>2, <2>2
    <3>2. QED
      BY <1>1, <2>1, <3>1, HeldUpdateFact
  <2>7. pos' \in PositionType
    <3> DEFINE p == RecordRepay(RecordSale(pos, s.got), cash)
    <3>1. p \in PositionType
      BY <1>1, <2>2, <2>3, RecordsFact
    <3>2. pos' = [p EXCEPT !.owed = owed, !.state = "Closing"]
      BY <2>1 DEF cash, owed
    <3> HIDE DEF p
    <3>3. QED
      BY <2>4, <3>1, <3>2, PositionUpdatesFact
  <2>8. QED
    BY <1>5, <2>5, <2>6, <2>7 DEF LeavePartWay, TypeOK, ObligationType, HeldType
<1>6. ASSUME NEW by \in Callers, LeaveEntirely(by)
      PROVE  TypeOK'
  <2>1. PICK s \in LeaveSales :
          pos' = [RecordRepay(RecordSale(pos, s.got), obl.debt) EXCEPT !.state = "Closed"]
    BY <1>6 DEF LeaveEntirely
  <2>2. RecordRepay(RecordSale(pos, s.got), obl.debt) \in PositionType
    BY <1>1, <1>2, LeaveSaleFact, RecordsFact
  <2>3. pos' \in PositionType
    BY <2>1, <2>2 DEF PositionType
  <2>4. QED
    BY <1>1, <1>6, <2>3
       DEF LeaveEntirely, TypeOK, ObligationType, NoObligation, NothingHeld
<1>7. QED
  BY <1>3, <1>4, <1>5, <1>6 DEF GuardSteps

\* No admin instruction breaks the type invariant.
LEMMA AdminStepType ==
    ASSUME TypeOK, AdminSteps
    PROVE  TypeOK'
BY DEF AdminSteps, SetPaused, SetSunset, UpdateConfig, TypeOK

\* Nothing the market does breaks the type invariant.
LEMMA MarketStepType ==
    ASSUME TypeOK, MarketSteps
    PROVE  TypeOK'
<1>1. obl \in ObligationType /\ tally \in [interest : Nat, liquidated : Nat]
  BY DEF TypeOK, ObligationType
<1>2. CASE StockPriceMoves
  BY <1>2 DEF StockPriceMoves, TypeOK
<1>3. CASE DestinationPriceMoves
  BY <1>3 DEF DestinationPriceMoves, TypeOK
<1>4. CASE OracleFreshnessChanges
  BY <1>4 DEF OracleFreshnessChanges, TypeOK
<1>5. CASE MarketFlags
  BY <1>5 DEF MarketFlags, TypeOK
<1>6. CASE TimePasses
  BY <1>6 DEF TimePasses, TypeOK
<1>7. CASE InterestAccrues
  BY <1>7 DEF InterestAccrues, TypeOK
<1>8. CASE Liquidation
  <2>0. PICK repaid \in {obl.debt, DivideRoundingUp(obl.debt, 2)} : \E seized :
          /\ seized = Least(obl.dep, RawWorthRoundingUp(Stock,
                        (UsdValue(Usdc, repaid) * (Bps + LiquidationBonusBps)) \div Bps))
          /\ obl' = ClosedWhenEmpty([obl EXCEPT !.debt = @ - repaid, !.dep = @ - seized])
          /\ tally' = [tally EXCEPT !.liquidated = @ + repaid]
    BY <1>8 DEF Liquidation
  <2>1. PICK seized :
          /\ seized = Least(obl.dep, RawWorthRoundingUp(Stock,
                        (UsdValue(Usdc, repaid) * (Bps + LiquidationBonusBps)) \div Bps))
          /\ obl' = ClosedWhenEmpty([obl EXCEPT !.debt = @ - repaid, !.dep = @ - seized])
          /\ tally' = [tally EXCEPT !.liquidated = @ + repaid]
    BY <2>0
  <2>2. repaid \in Nat /\ repaid <= obl.debt
    BY <1>1, RoundingUpIsNat, RoundingUpIsLeast DEF ObligationType
  <2>3. seized \in Nat /\ seized <= obl.dep
    <3>1. UsdValue(Usdc, repaid) \in Nat /\ Bps + LiquidationBonusBps \in Nat
      BY <2>2, TokensFact, ConversionsAreNat, MarketAssumption, DenominatorsArePositive
    <3>2. (UsdValue(Usdc, repaid) * (Bps + LiquidationBonusBps)) \div Bps \in Nat
      BY <3>1, ProductIsNat, QuotientIsBelow, DenominatorsArePositive
    <3>3. QED
      BY <1>1, <2>1, <3>2, TokensFact, ConversionsAreNat, LeastFact DEF ObligationType
  <2> DEFINE debt == obl.debt - repaid
             dep == obl.dep - seized
  <2>4. debt \in Nat /\ dep \in Nat
    BY <1>1, <2>2, <2>3 DEF ObligationType
  <2>5. obl' = ClosedWhenEmpty([obl EXCEPT !.debt = debt, !.dep = dep])
    BY <2>1
  <2> HIDE DEF debt, dep
  <2>6. obl' \in ObligationType
    <3> DEFINE o1 == [obl EXCEPT !.debt = debt]
    <3>1. o1 \in ObligationType
      BY <1>1, <2>4 DEF ObligationType
    <3> HIDE DEF o1
    <3> DEFINE o2 == [o1 EXCEPT !.dep = dep]
    <3>2. o2 \in ObligationType
      BY <2>4, <3>1 DEF ObligationType
    <3> HIDE DEF o2
    <3>3. ClosedWhenEmpty(o2) \in ObligationType
      BY <3>2 DEF ClosedWhenEmpty, ObligationType
    <3>4. QED
      BY <2>5, <3>3 DEF o1, o2
  <2>7. tally' \in [interest : Nat, liquidated : Nat]
    BY <1>1, <2>1, <2>2
  <2>8. QED
    BY <1>8, <2>6, <2>7 DEF Liquidation, TypeOK, ObligationType
<1>9. QED
  BY <1>2, <1>3, <1>4, <1>5, <1>6, <1>7, <1>8 DEF MarketSteps

\* The type invariant holds before the first instruction.
LEMMA InitialType ==
    ASSUME Init
    PROVE  TypeOK
<1>1. NoPosition \in PositionType
  BY DEF NoPosition, PositionType, StrategyType
<1>2. config \in Configs
  BY DEF Init
<1>3. market \in [stockPrice : StockPrices, destinationPrice : DestinationPrices,
                  fresh : BOOLEAN, signals : Signals]
  <2>1. market \in [stockPrice : StockPrices, destinationPrice : DestinationPrices,
                     fresh : {TRUE}, signals : {NoSignals}]
    BY DEF Init
  <2>2. NoSignals \in Signals
    BY ChoicesAssumption
  <2>3. QED
    BY <2>1, <2>2
<1>4. /\ obl \in [exists : BOOLEAN, dep : Nat, debt : Nat]
      /\ held \in [stock : Nat, usdc : Nat, dest : Nat]
  BY DEF Init, NoObligation, NothingHeld
<1>5. /\ now \in Nat /\ paid \in [treasury : Nat, callers : Nat]
      /\ tally \in [interest : Nat, liquidated : Nat] /\ pos = NoPosition
  BY DEF Init
<1>6. QED
  BY <1>1, <1>2, <1>3, <1>4, <1>5 DEF TypeOK

\* Every step, stuttering included, keeps the type invariant.
LEMMA StepType ==
    ASSUME TypeOK, [Next]_vars
    PROVE  TypeOK'
<1>1. CASE UNCHANGED vars
  BY <1>1 DEF vars, TypeOK
<1>2. QED
  BY <1>1, OwnerStepType, GuardStepType, AdminStepType, MarketStepType DEF Next

\* Every handler keeps every account within its type, whatever the prices,
\* amounts, fills and limits: no subtraction goes below zero.
THEOREM TypeIsCorrect == Spec => []TypeOK
BY InitialType, StepType, PTL DEF Spec


------------------------------------------------------------------------------
(* What a step does to the amounts.                                        *)

\* The bookkeeping helpers change the fields they name and leave the state alone.
LEMMA RecordEffects ==
    ASSUME NEW p \in PositionType, NEW amount \in Nat
    PROVE  /\ RecordBorrow(p, amount).state = p.state
           /\ RecordBorrow(p, amount).borrowed = p.borrowed + amount
           /\ RecordBorrow(p, amount).repaid = p.repaid
           /\ RecordBorrow(p, amount).owed = p.owed
           /\ RecordRepay(p, amount).state = p.state
           /\ RecordRepay(p, amount).borrowed = p.borrowed
           /\ RecordRepay(p, amount).repaid = p.repaid + amount
           /\ RecordRepay(p, amount).sales = p.sales
           /\ RecordRepay(p, amount).owed = Monus(p.owed, amount)
           /\ RecordSale(p, amount).state = p.state
           /\ RecordSale(p, amount).borrowed = p.borrowed
           /\ RecordSale(p, amount).repaid = p.repaid
           /\ RecordSale(p, amount).sales = p.sales + amount
           /\ RecordSale(p, amount).owed = p.owed
BY DEF PositionType, RecordBorrow, RecordRepay, RecordSale

\* A sale and a repayment, as every handler that closes or shrinks a loan
\* records them, and a change of state on top.
LEMMA SaleAndRepayEffects ==
    ASSUME NEW p \in PositionType, NEW got \in Nat, NEW amount \in Nat
    PROVE  /\ RecordRepay(RecordSale(p, got), amount) \in PositionType
           /\ RecordRepay(RecordSale(p, got), amount).state = p.state
           /\ RecordRepay(RecordSale(p, got), amount).borrowed = p.borrowed
           /\ RecordRepay(RecordSale(p, got), amount).repaid = p.repaid + amount
           /\ RecordRepay(RecordSale(p, got), amount).sales = p.sales + got
           /\ RecordRepay(RecordSale(p, got), amount).owed = Monus(p.owed, amount)
<1> DEFINE q == RecordSale(p, got)
<1>1. /\ q \in PositionType /\ q.state = p.state /\ q.borrowed = p.borrowed
      /\ q.repaid = p.repaid /\ q.sales = p.sales + got /\ q.owed = p.owed
  BY RecordsFact, RecordEffects
<1> HIDE DEF q
<1>2. /\ RecordRepay(q, amount) \in PositionType
      /\ RecordRepay(q, amount).state = q.state
      /\ RecordRepay(q, amount).borrowed = q.borrowed
      /\ RecordRepay(q, amount).repaid = q.repaid + amount
      /\ RecordRepay(q, amount).sales = q.sales
      /\ RecordRepay(q, amount).owed = Monus(q.owed, amount)
  BY <1>1, RecordsFact, RecordEffects
<1>3. QED
  BY <1>1, <1>2 DEF q

\* What the deposit and borrow of open and top-up do to the books and the debt.
LEMMA DepositAndBorrowEffect ==
    ASSUME TypeOK, NEW p \in PositionType, NEW dep \in Nat, NEW borrow \in Nat,
           NEW later \in BOOLEAN, NEW leastOut \in Nat,
           DepositAndBorrow(p, dep, borrow, later, leastOut)
    PROVE  /\ obl'.exists = TRUE
           /\ obl'.dep = obl.dep + dep
           /\ obl'.debt = obl.debt + borrow
           /\ held'.stock = held.stock
           /\ pos'.borrowed = p.borrowed + borrow
           /\ pos'.repaid = p.repaid
           /\ pos'.owed = p.owed
           /\ pos'.state \in {p.state, "AwaitingSwap"}
           /\ pos'.state # p.state => held'.usdc = held.usdc + borrow
<1>1. RecordBorrow(p, borrow) \in PositionType
  BY RecordsFact
<1>2. held \in HeldType
  BY DEF TypeOK, HeldType
<1>3. /\ obl'.exists = TRUE
      /\ obl'.dep = obl.dep + dep
      /\ obl'.debt = obl.debt + borrow
  BY DEF DepositAndBorrow
<1>4. CASE later
  <2>1. /\ held' = [held EXCEPT !.usdc = @ + borrow]
        /\ pos' = [RecordBorrow(p, borrow) EXCEPT !.state = "AwaitingSwap"]
    BY <1>4 DEF DepositAndBorrow
  <2>2. held'.stock = held.stock /\ held'.usdc = held.usdc + borrow
    BY <1>2, <2>1 DEF HeldType
  <2> DEFINE q == RecordBorrow(p, borrow)
  <2>3. q \in PositionType /\ q.borrowed = p.borrowed + borrow /\ q.repaid = p.repaid /\ q.owed = p.owed
    BY RecordsFact, RecordEffects
  <2> HIDE DEF q
  <2>4. pos' = [q EXCEPT !.state = "AwaitingSwap"]
    BY <2>1 DEF q
  <2>5. /\ pos'.state = "AwaitingSwap" /\ pos'.borrowed = q.borrowed
        /\ pos'.repaid = q.repaid /\ pos'.owed = q.owed
    BY <2>3, <2>4 DEF PositionType
  <2>6. QED
    BY <1>3, <2>2, <2>3, <2>5
<1>5. CASE ~later
  <2>1. pos' = RecordBorrow(p, borrow)
    BY <1>5 DEF DepositAndBorrow
  <2>2. PICK s \in Swaps(Usdc, borrow, Destination, leastOut) :
          held' = [held EXCEPT !.dest = @ + s.got]
    BY <1>5 DEF DepositAndBorrow
  <2>3. held'.stock = held.stock
    BY <1>2, <2>2 DEF HeldType
  <2>4. /\ pos'.state = p.state /\ pos'.borrowed = p.borrowed + borrow
        /\ pos'.repaid = p.repaid /\ pos'.owed = p.owed
    BY <2>1, RecordEffects
  <2>5. QED
    BY <1>3, <2>3, <2>4
<1>6. QED
  BY <1>4, <1>5

\* What open_position does to the books, the debt and the holding.
LEMMA OpenEffect ==
    ASSUME TypeOK, NEW strategy \in Strategies, NEW dep \in StockAmounts,
           NEW borrow \in BorrowAmounts, NEW later \in BOOLEAN,
           OpenPosition(strategy, dep, borrow, later)
    PROVE  /\ pos.state = "None"
           /\ dep \in Nat /\ borrow \in Nat /\ dep > 0 /\ borrow > 0
           /\ obl'.exists = TRUE
           /\ obl'.dep = obl.dep + dep
           /\ obl'.debt = obl.debt + borrow
           /\ held'.stock = held.stock
           /\ pos'.borrowed = borrow /\ pos'.repaid = 0 /\ pos'.owed = 0
           /\ pos'.state \in {"Open", "AwaitingSwap"}
           /\ pos'.state = "AwaitingSwap" => held'.usdc = held.usdc + borrow
           /\ tally'.interest = 0 /\ tally'.liquidated = 0
<1> DEFINE p == [NoPosition EXCEPT !.state = "Open", !.strategy = strategy, !.fee = config.fee]
<1>1. DepositAndBorrow(p, dep, borrow, later, 0) /\ pos.state = "None" /\ dep > 0 /\ borrow > 0
  BY DEF OpenPosition
<1>2. tally' = [interest |-> 0, liquidated |-> 0]
  BY DEF OpenPosition
<1>3. p \in PositionType
  BY NewPositionFact
<1>4. p.state = "Open" /\ p.borrowed = 0 /\ p.repaid = 0 /\ p.owed = 0
  BY DEF NoPosition
<1>5. dep \in Nat /\ borrow \in Nat
  BY ChoicesAssumption
<1> HIDE DEF p
<1>6. /\ obl'.exists = TRUE /\ obl'.dep = obl.dep + dep /\ obl'.debt = obl.debt + borrow
      /\ held'.stock = held.stock
      /\ pos'.borrowed = p.borrowed + borrow /\ pos'.repaid = p.repaid /\ pos'.owed = p.owed
      /\ pos'.state \in {p.state, "AwaitingSwap"}
      /\ pos'.state # p.state => held'.usdc = held.usdc + borrow
  BY ZenonT(60), <1>1, <1>3, <1>5, 0 \in Nat, DepositAndBorrowEffect
<1>7. p.borrowed + borrow = borrow
  BY <1>4, <1>5
<1>8. tally'.interest = 0 /\ tally'.liquidated = 0
  BY <1>2
<1>9. QED
  BY <1>1, <1>4, <1>5, <1>6, <1>7, <1>8

\* What is read of the types below.
LEMMA AccountsFact ==
    ASSUME TypeOK
    PROVE  /\ pos \in PositionType /\ obl \in ObligationType /\ held \in HeldType
           /\ pos.borrowed \in Nat /\ pos.repaid \in Nat /\ pos.owed \in Nat
           /\ pos.sales \in Nat /\ pos.fee \in Nat
           /\ obl.dep \in Nat /\ obl.debt \in Nat /\ obl.exists \in BOOLEAN
           /\ held.stock \in Nat /\ held.usdc \in Nat /\ held.dest \in Nat
           /\ tally.interest \in Nat /\ tally.liquidated \in Nat
           /\ pos.state \in {"None", "AwaitingSwap", "Open", "Closing", "Closed"}
<1>1. pos \in PositionType /\ obl \in ObligationType /\ held \in HeldType
  BY DEF TypeOK, ObligationType, HeldType
<1>2. tally.interest \in Nat /\ tally.liquidated \in Nat
  BY DEF TypeOK
<1>3. pos.state \in {"None", "AwaitingSwap", "Open", "Closing", "Closed"}
  BY <1>1 DEF PositionType
<1>4. /\ obl.dep \in Nat /\ obl.debt \in Nat /\ obl.exists \in BOOLEAN
      /\ held.stock \in Nat /\ held.usdc \in Nat /\ held.dest \in Nat
  BY <1>1 DEF ObligationType, HeldType
<1>5. QED
  BY <1>1, <1>2, <1>3, <1>4, PositionFieldsFact

\* What top_up does to the books, the debt and the holding.
LEMMA TopUpEffect ==
    ASSUME TypeOK, NEW dep \in StockAmounts, NEW borrow \in BorrowAmounts,
           NEW later \in BOOLEAN, TopUp(dep, borrow, later)
    PROVE  /\ pos.state = "Open"
           /\ dep \in Nat /\ borrow \in Nat /\ borrow > 0
           /\ obl'.exists = TRUE
           /\ obl'.dep = obl.dep + dep
           /\ obl'.debt = obl.debt + borrow
           /\ held'.stock = held.stock
           /\ pos'.borrowed = pos.borrowed + borrow
           /\ pos'.repaid = pos.repaid /\ pos'.owed = pos.owed
           /\ pos'.state \in {"Open", "AwaitingSwap"}
           /\ pos'.state = "AwaitingSwap" => held'.usdc = held.usdc + borrow
           /\ tally' = tally
<1>1. DepositAndBorrow(pos, dep, borrow, later, 1) /\ pos.state = "Open" /\ borrow > 0
  BY DEF TopUp
<1>2. tally' = tally
  BY DEF TopUp
<1>3. dep \in Nat /\ borrow \in Nat /\ pos \in PositionType
  BY ChoicesAssumption, AccountsFact
<1>4. /\ obl'.exists = TRUE /\ obl'.dep = obl.dep + dep /\ obl'.debt = obl.debt + borrow
      /\ held'.stock = held.stock
      /\ pos'.borrowed = pos.borrowed + borrow
      /\ pos'.repaid = pos.repaid /\ pos'.owed = pos.owed
      /\ pos'.state \in {pos.state, "AwaitingSwap"}
      /\ pos'.state # pos.state => held'.usdc = held.usdc + borrow
  BY ZenonT(60), <1>1, <1>3, 1 \in Nat, DepositAndBorrowEffect
<1>5. QED
  BY <1>1, <1>2, <1>3, <1>4

\* Buying the destination ends the wait for the swap and moves no debt.
LEMMA BuyEffect ==
    ASSUME TypeOK, BuyDestination
    PROVE  /\ pos.state = "AwaitingSwap" /\ pos'.state = "Open"
           /\ pos'.borrowed = pos.borrowed /\ pos'.repaid = pos.repaid
           /\ pos'.owed = pos.owed
           /\ held'.stock = held.stock
           /\ obl' = obl /\ tally' = tally
<1>1. pos.state = "AwaitingSwap" /\ pos' = [pos EXCEPT !.state = "Open"]
  BY DEF BuyDestination
<1>2. obl' = obl /\ tally' = tally
  BY DEF BuyDestination
<1>3. PICK s \in Swaps(Usdc, held.usdc, Destination, 1) :
        held' = [held EXCEPT !.usdc = @ - s.spent, !.dest = @ + s.got]
  BY DEF BuyDestination
<1>4. pos \in PositionType /\ held \in HeldType
  BY AccountsFact
<1>5. held'.stock = held.stock
  BY <1>3, <1>4 DEF HeldType
<1>6. /\ pos'.state = "Open"
      /\ pos'.borrowed = pos.borrowed /\ pos'.repaid = pos.repaid /\ pos'.owed = pos.owed
  BY <1>1, <1>4 DEF PositionType
<1>7. QED
  BY <1>1, <1>2, <1>5, <1>6

\* Adding collateral touches neither the books nor the holding.
LEMMA AddCollateralEffect ==
    ASSUME TypeOK, NEW amount \in StockAmounts, AddCollateral(amount)
    PROVE  /\ pos.state \notin {"None", "Closed"}
           /\ pos' = pos /\ held' = held /\ tally' = tally
           /\ obl'.exists = TRUE /\ obl'.debt = obl.debt
BY AccountsFact DEF AddCollateral, NotClosed, Exists, ObligationType

\* A repayment lowers the debt by exactly what the books record as repaid.
LEMMA RepayEffect ==
    ASSUME TypeOK, NEW requested \in RepayAmounts, Repay(requested)
    PROVE  \E amount \in Nat :
              /\ amount <= obl.debt
              /\ pos.state \notin {"None", "Closed"}
              /\ pos'.state = pos.state
              /\ pos'.borrowed = pos.borrowed
              /\ pos'.repaid = pos.repaid + amount
              /\ pos'.owed = Monus(pos.owed, amount)
              /\ obl'.exists = TRUE /\ obl'.dep = obl.dep /\ obl'.debt = obl.debt - amount
              /\ held' = held /\ tally' = tally
<1> DEFINE amount == Least(requested, obl.debt)
<1>1. amount \in Nat /\ amount <= obl.debt
  <2>1. requested \in Nat /\ obl.debt \in Nat
    BY AccountsFact, ChoicesAssumption
  <2>2. QED
    BY <2>1, LeastFact
<1>2. /\ pos.state \notin {"None", "Closed"} /\ obl.exists
      /\ obl' = [obl EXCEPT !.debt = @ - amount]
      /\ pos' = RecordRepay(pos, amount)
      /\ held' = held /\ tally' = tally
  BY DEF Repay, NotClosed, Exists
<1> HIDE DEF amount
<1>3. obl'.exists = TRUE /\ obl'.dep = obl.dep /\ obl'.debt = obl.debt - amount
  BY <1>1, <1>2, AccountsFact DEF ObligationType
<1>4. /\ pos'.state = pos.state /\ pos'.borrowed = pos.borrowed
      /\ pos'.repaid = pos.repaid + amount /\ pos'.owed = Monus(pos.owed, amount)
  BY <1>1, <1>2, AccountsFact, RecordEffects
<1>5. QED
  BY <1>1, <1>2, <1>3, <1>4

\* Withdrawing collateral is for a live position and touches no ledger.
LEMMA WithdrawEffect ==
    ASSUME TypeOK, NEW amount \in StockAmounts, WithdrawCollateral(amount)
    PROVE  /\ pos.state \notin {"None", "Closed"}
           /\ pos' = pos /\ tally' = tally
           /\ obl'.exists = TRUE /\ obl'.debt = obl.debt
           /\ held'.stock = 0 /\ held'.usdc = held.usdc
BY AccountsFact DEF WithdrawCollateral, NotClosed, Exists, ObligationType, HeldType

\* Changing the strategy changes no state and no ledger.
LEMMA SetStrategyEffect ==
    ASSUME TypeOK, NEW strategy \in Strategies, SetStrategy(strategy)
    PROVE  /\ pos.state \notin {"None", "Closed"}
           /\ pos'.state = pos.state /\ pos'.borrowed = pos.borrowed
           /\ pos'.repaid = pos.repaid /\ pos'.owed = pos.owed
           /\ obl' = obl /\ held' = held /\ tally' = tally
BY AccountsFact DEF SetStrategy, NotClosed, Exists, PositionType

\* An unwind repays everything, hands everything back and closes the position.
LEMMA UnwindEffect ==
    ASSUME TypeOK, Unwind
    PROVE  /\ pos.state \notin {"None", "Closed"}
           /\ pos'.state = "Closed"
           /\ pos'.borrowed = pos.borrowed
           /\ pos'.repaid = pos.repaid + obl.debt
           /\ pos'.owed = Monus(pos.owed, obl.debt)
           /\ obl'.dep = 0 /\ obl'.debt = 0
           /\ held' = NothingHeld /\ tally' = tally
<1>1. PICK s \in SaleOfEverything(0) :
        pos' = [RecordRepay(RecordSale(pos, s.got), obl.debt) EXCEPT !.state = "Closed"]
  BY DEF Unwind
<1>2. /\ pos.state \notin {"None", "Closed"}
      /\ obl' = IF obl.dep > 0 THEN NoObligation ELSE [obl EXCEPT !.debt = 0]
      /\ held' = NothingHeld /\ tally' = tally
  BY DEF Unwind, NotClosed, Exists
<1>3. obl'.dep = 0 /\ obl'.debt = 0
  BY <1>2, AccountsFact DEF NoObligation, ObligationType
<1> DEFINE q == RecordRepay(RecordSale(pos, s.got), obl.debt)
<1>4. /\ q \in PositionType /\ q.borrowed = pos.borrowed
      /\ q.repaid = pos.repaid + obl.debt /\ q.owed = Monus(pos.owed, obl.debt)
  <2>1. s.got \in Nat /\ obl.debt \in Nat /\ pos \in PositionType
    BY SaleFact, AccountsFact
  <2>2. QED
    BY ZenonT(60), <2>1, SaleAndRepayEffects
<1>5. pos' = [q EXCEPT !.state = "Closed"]
  BY <1>1
<1> HIDE DEF q
<1>6. /\ pos'.state = "Closed" /\ pos'.borrowed = q.borrowed
      /\ pos'.repaid = q.repaid /\ pos'.owed = q.owed
  BY <1>4, <1>5 DEF PositionType
<1>7. QED
  BY <1>2, <1>3, <1>4, <1>6

\* A rescue closes a debt-free position and leaves an indebted one closing.
LEMMA RescueEffect ==
    ASSUME TypeOK, Rescue
    PROVE  /\ pos.state # "None"
           /\ pos'.state = IF obl.debt > 0 THEN "Closing" ELSE "Closed"
           /\ pos'.borrowed = pos.borrowed
           /\ pos'.repaid = pos.repaid /\ pos'.owed = pos.owed
           /\ obl'.debt = obl.debt /\ (obl.debt = 0 => obl'.dep = 0)
           /\ ~obl'.exists => (~obl.exists \/ (obl'.debt = 0 /\ obl'.dep = 0))
           /\ obl'.dep <= obl.dep
           /\ held' = NothingHeld /\ tally' = tally
<1> DEFINE o == RescuedObligation
<1>1. /\ o \in ObligationType /\ o.exists = obl.exists /\ o.debt = obl.debt
      /\ o.dep <= obl.dep /\ (obl.debt = 0 => o.dep = 0)
  BY RescuedFact
<1>2. /\ pos.state # "None"
      /\ obl' = IF o.dep # obl.dep THEN ClosedWhenEmpty(o) ELSE obl
      /\ held' = NothingHeld
      /\ pos' = [pos EXCEPT !.state = StateAfterRescue(o)]
      /\ tally' = tally
  BY DEF Rescue, Exists
<1> HIDE DEF o
<1>3. /\ obl'.debt = o.debt /\ obl'.dep = o.dep
      /\ ~obl'.exists => (~obl.exists \/ (o.debt = 0 /\ o.dep = 0))
  <2>1. CASE o.dep # obl.dep
    BY <1>1, <1>2, <2>1 DEF ClosedWhenEmpty, ObligationType
  <2>2. CASE o.dep = obl.dep
    BY <1>1, <1>2, <2>2
  <2>3. QED
    BY <2>1, <2>2
<1>4. /\ pos'.state = StateAfterRescue(o) /\ pos'.borrowed = pos.borrowed
      /\ pos'.repaid = pos.repaid /\ pos'.owed = pos.owed
  BY <1>2, AccountsFact DEF PositionType
<1>5. QED
  BY <1>1, <1>2, <1>3, <1>4 DEF StateAfterRescue

\* The accounts are only closed when they hold and owe nothing.
LEMMA CloseEffect ==
    ASSUME ClosePosition
    PROVE  /\ pos.state # "None" /\ pos'.state = "None" /\ pos'.owed = 0
           /\ obl.dep = 0 /\ obl.debt = 0 /\ held = NothingHeld
           /\ obl' = obl /\ held' = held /\ tally' = tally
BY DEF ClosePosition, NothingIsLeft, NoPosition, Exists

\* A protection repays at most the debt and records what it repaid.
LEMMA ProtectEffect ==
    ASSUME TypeOK, NEW by \in Callers, Protect(by)
    PROVE  \E repaying \in Nat :
              /\ repaying <= obl.debt
              /\ pos.state = "Open" /\ pos'.state = "Open"
              /\ pos'.borrowed = pos.borrowed
              /\ pos'.repaid = pos.repaid + repaying
              /\ pos'.owed = Monus(pos.owed, repaying)
              /\ obl'.exists = obl.exists /\ obl'.dep = obl.dep
              /\ obl'.debt = obl.debt - repaying
              /\ obl.exists
              /\ held'.stock = held.stock /\ tally' = tally
<1>1. PICK s \in Swaps(Destination, DestinationToSell, Usdc,
                       SwapMinimum(by, Destination, DestinationToSell, Usdc)) :
        /\ obl' = [obl EXCEPT !.debt = @ - Repaying(s.got)]
        /\ held' = [held EXCEPT
              !.usdc = @ + s.got - Repaying(s.got) - Least(BountyWanted, s.got - Repaying(s.got)),
              !.dest = @ - s.spent]
        /\ pos' = [RecordRepay(RecordSale(pos, s.got), Repaying(s.got))
                     EXCEPT !.lastProtect = now, !.protects = @ + 1]
  BY DEF Protect
<1>2. pos.state = "Open" /\ obl.exists /\ tally' = tally
  BY DEF Protect
<1>3. s.got \in Nat
  BY TokensFact, GuardSizesFact, SwapMinimumIsNat, SwapFact
<1> DEFINE repaying == Repaying(s.got)
<1>4. repaying \in Nat /\ repaying <= obl.debt
  BY <1>3, AccountsFact, GuardSizesFact DEF Repaying, Least
<1> HIDE DEF repaying
<1>5. held'.stock = held.stock
  BY <1>1, AccountsFact DEF HeldType
<1>6. obl'.exists = obl.exists /\ obl'.dep = obl.dep /\ obl'.debt = obl.debt - repaying
  BY <1>1, AccountsFact DEF ObligationType, repaying
<1> DEFINE q == RecordRepay(RecordSale(pos, s.got), repaying)
<1>7. /\ q \in PositionType /\ q.state = pos.state /\ q.borrowed = pos.borrowed
      /\ q.repaid = pos.repaid + repaying /\ q.owed = Monus(pos.owed, repaying)
  <2>1. pos \in PositionType
    BY AccountsFact
  <2>2. QED
    BY <1>3, <1>4, <2>1, SaleAndRepayEffects
<1>8. pos' = [q EXCEPT !.lastProtect = now, !.protects = @ + 1]
  BY <1>1 DEF repaying
<1> HIDE DEF q
<1>9. /\ pos'.state = q.state /\ pos'.borrowed = q.borrowed
      /\ pos'.repaid = q.repaid /\ pos'.owed = q.owed
  BY <1>7, <1>8 DEF PositionType
<1>10. QED
  BY <1>2, <1>4, <1>5, <1>6, <1>7, <1>9

\* A growth borrows exactly what it records, on an open position.
LEMMA GrowEffect ==
    ASSUME TypeOK, NEW by \in Callers, Grow(by)
    PROVE  \E borrow \in Nat :
              /\ pos.state = "Open" /\ pos'.state = "Open"
              /\ pos'.borrowed = pos.borrowed + borrow
              /\ pos'.repaid = pos.repaid /\ pos'.owed = pos.owed
              /\ obl'.exists = obl.exists /\ obl'.dep = obl.dep
              /\ obl'.debt = obl.debt + borrow
              /\ obl.exists
              /\ held'.stock = held.stock /\ tally' = tally
<1> DEFINE borrow == RoomToTarget
<1>1. borrow \in Nat
  BY GuardSizesFact
<1>2. PICK s \in Swaps(Usdc, borrow, Destination, SwapMinimum(by, Usdc, borrow, Destination)) :
        held' = [held EXCEPT !.usdc = @ + borrow - s.spent, !.dest = @ + s.got]
  BY DEF Grow
<1>3. /\ pos.state = "Open" /\ obl.exists /\ tally' = tally
      /\ obl' = [obl EXCEPT !.debt = @ + borrow]
      /\ pos' = [RecordBorrow(pos, borrow) EXCEPT !.lastGrow = now, !.grows = @ + 1]
  BY DEF Grow
<1> HIDE DEF borrow
<1>4. held'.stock = held.stock
  BY <1>2, AccountsFact DEF HeldType
<1>5. obl'.exists = obl.exists /\ obl'.dep = obl.dep /\ obl'.debt = obl.debt + borrow
  BY <1>1, <1>3, AccountsFact DEF ObligationType
<1> DEFINE q == RecordBorrow(pos, borrow)
<1>6. /\ q \in PositionType /\ q.state = pos.state /\ q.borrowed = pos.borrowed + borrow
      /\ q.repaid = pos.repaid /\ q.owed = pos.owed
  <2>1. pos \in PositionType
    BY AccountsFact
  <2>2. QED
    BY <1>1, <2>1, RecordsFact, RecordEffects
<1>7. pos' = [q EXCEPT !.lastGrow = now, !.grows = @ + 1]
  BY <1>3
<1> HIDE DEF q
<1>8. /\ pos'.state = q.state /\ pos'.borrowed = q.borrowed
      /\ pos'.repaid = q.repaid /\ pos'.owed = q.owed
  BY <1>6, <1>7 DEF PositionType
<1>9. QED
  BY <1>1, <1>3, <1>4, <1>5, <1>6, <1>8

\* A leave whose sale falls short repays what it raised and stays closing.
LEMMA LeavePartWayEffect ==
    ASSUME TypeOK, NEW by \in Callers, LeavePartWay(by)
    PROVE  \E cash \in Nat :
              /\ cash < obl.debt
              /\ pos.state \notin {"None", "Closed"} /\ pos'.state = "Closing"
              /\ pos'.borrowed = pos.borrowed
              /\ pos'.repaid = pos.repaid + cash
              /\ pos'.owed = obl.debt - cash
              /\ obl'.exists = obl.exists /\ obl'.dep = obl.dep
              /\ obl'.debt = obl.debt - cash
              /\ obl.exists
              /\ held'.stock = held.stock /\ held'.usdc = 0 /\ tally' = tally
<1>1. PICK s \in LeaveSales :
        /\ obl.debt > held.usdc + s.got
        /\ obl' = [obl EXCEPT !.debt = obl.debt - (held.usdc + s.got)]
        /\ held' = [held EXCEPT !.usdc = 0, !.dest = @ - s.spent]
        /\ pos' = [RecordRepay(RecordSale(pos, s.got), held.usdc + s.got)
                     EXCEPT !.owed = obl.debt - (held.usdc + s.got), !.state = "Closing"]
  BY DEF LeavePartWay
<1>2. pos.state \notin {"None", "Closed"} /\ obl.exists /\ tally' = tally
  BY DEF LeavePartWay, LeaveMayRun, NotClosed, Exists
<1>3. s.got \in Nat
  BY LeaveSaleFact
<1> DEFINE cash == held.usdc + s.got
<1>4. cash \in Nat
  BY <1>3, AccountsFact
<1> HIDE DEF cash
<1>5. held'.stock = held.stock /\ held'.usdc = 0
  BY <1>1, AccountsFact DEF HeldType
<1>6. /\ obl'.exists = obl.exists /\ obl'.dep = obl.dep /\ obl'.debt = obl.debt - cash
      /\ cash < obl.debt
  BY <1>1, <1>4, AccountsFact DEF ObligationType, cash
<1> DEFINE q == RecordRepay(RecordSale(pos, s.got), cash)
<1>7. /\ q \in PositionType /\ q.borrowed = pos.borrowed /\ q.repaid = pos.repaid + cash
  <2>1. pos \in PositionType
    BY AccountsFact
  <2>2. QED
    BY <1>3, <1>4, <2>1, SaleAndRepayEffects
<1>8. pos' = [q EXCEPT !.owed = obl.debt - cash, !.state = "Closing"]
  BY <1>1 DEF cash
<1> HIDE DEF q
<1>9. /\ pos'.state = "Closing" /\ pos'.borrowed = q.borrowed
      /\ pos'.repaid = q.repaid /\ pos'.owed = obl.debt - cash
  BY <1>7, <1>8 DEF PositionType
<1>10. QED
  BY <1>2, <1>4, <1>5, <1>6, <1>7, <1>9

\* A leave whose sale covers the debt repays it and closes the position.
LEMMA LeaveEntirelyEffect ==
    ASSUME TypeOK, NEW by \in Callers, LeaveEntirely(by)
    PROVE  /\ pos.state \notin {"None", "Closed"}
           /\ pos'.state = "Closed"
           /\ pos'.borrowed = pos.borrowed
           /\ pos'.repaid = pos.repaid + obl.debt
           /\ pos'.owed = Monus(pos.owed, obl.debt)
           /\ obl'.dep = 0 /\ obl'.debt = 0
           /\ held' = NothingHeld /\ tally' = tally
<1>1. PICK s \in LeaveSales :
        pos' = [RecordRepay(RecordSale(pos, s.got), obl.debt) EXCEPT !.state = "Closed"]
  BY DEF LeaveEntirely
<1>2. /\ pos.state \notin {"None", "Closed"}
      /\ obl' = IF obl.dep > 0 THEN NoObligation ELSE [obl EXCEPT !.debt = 0]
      /\ held' = NothingHeld /\ tally' = tally
  BY DEF LeaveEntirely, LeaveMayRun, NotClosed, Exists
<1>3. obl'.dep = 0 /\ obl'.debt = 0
  BY <1>2, AccountsFact DEF NoObligation, ObligationType
<1> DEFINE q == RecordRepay(RecordSale(pos, s.got), obl.debt)
<1>4. /\ q \in PositionType /\ q.borrowed = pos.borrowed
      /\ q.repaid = pos.repaid + obl.debt /\ q.owed = Monus(pos.owed, obl.debt)
  <2>1. s.got \in Nat /\ obl.debt \in Nat /\ pos \in PositionType
    BY LeaveSaleFact, AccountsFact
  <2>2. QED
    BY ZenonT(60), <2>1, SaleAndRepayEffects
<1>5. pos' = [q EXCEPT !.state = "Closed"]
  BY <1>1
<1> HIDE DEF q
<1>6. /\ pos'.state = "Closed" /\ pos'.borrowed = q.borrowed
      /\ pos'.repaid = q.repaid /\ pos'.owed = q.owed
  BY <1>4, <1>5 DEF PositionType
<1>7. QED
  BY <1>2, <1>3, <1>4, <1>6

\* No admin instruction touches a position.
LEMMA AdminEffect ==
    ASSUME AdminSteps
    PROVE  UNCHANGED <<pos, obl, held, tally>>
BY DEF AdminSteps, SetPaused, SetSunset, UpdateConfig

\* Of the market's own steps two reach the position's amounts.
LEMMA MarketEffect ==
    ASSUME TypeOK, MarketSteps
    PROVE  /\ pos' = pos /\ held' = held
           /\ \/ obl' = obl /\ tally' = tally
              \/ /\ obl.debt > 0
                 /\ obl'.exists = obl.exists /\ obl'.dep = obl.dep
                 /\ obl'.debt = obl.debt + 1
                 /\ tally'.interest = tally.interest + 1
                 /\ tally'.liquidated = tally.liquidated
              \/ /\ LiquidationHappens
                 /\ obl.debt > 0
                 /\ obl'.debt \in Nat /\ obl'.debt <= obl.debt /\ obl'.dep <= obl.dep
                 /\ ~obl'.exists => obl'.debt = 0 /\ obl'.dep = 0
                 /\ tally'.interest = tally.interest
                 /\ tally'.liquidated = tally.liquidated + (obl.debt - obl'.debt)
<1>1. CASE InterestAccrues
  BY <1>1, AccountsFact DEF InterestAccrues, ObligationType, TypeOK
<1>2. CASE Liquidation
  <2>0. PICK repaid \in {obl.debt, DivideRoundingUp(obl.debt, 2)} : \E seized :
          /\ seized = Least(obl.dep, RawWorthRoundingUp(Stock,
                        (UsdValue(Usdc, repaid) * (Bps + LiquidationBonusBps)) \div Bps))
          /\ obl' = ClosedWhenEmpty([obl EXCEPT !.debt = @ - repaid, !.dep = @ - seized])
          /\ tally' = [tally EXCEPT !.liquidated = @ + repaid]
    BY <1>2 DEF Liquidation
  <2>1. PICK seized :
          /\ seized = Least(obl.dep, RawWorthRoundingUp(Stock,
                        (UsdValue(Usdc, repaid) * (Bps + LiquidationBonusBps)) \div Bps))
          /\ obl' = ClosedWhenEmpty([obl EXCEPT !.debt = @ - repaid, !.dep = @ - seized])
          /\ tally' = [tally EXCEPT !.liquidated = @ + repaid]
    BY <2>0
  <2>2. pos' = pos /\ held' = held /\ LiquidationHappens /\ obl.debt > 0
    BY <1>2 DEF Liquidation
  <2>3. repaid \in Nat /\ repaid <= obl.debt
    BY AccountsFact, RoundingUpIsNat, RoundingUpIsLeast
  <2>4. seized \in Nat /\ seized <= obl.dep
    <3>1. UsdValue(Usdc, repaid) \in Nat /\ Bps + LiquidationBonusBps \in Nat
      BY <2>3, TokensFact, ConversionsAreNat, MarketAssumption, DenominatorsArePositive
    <3>2. (UsdValue(Usdc, repaid) * (Bps + LiquidationBonusBps)) \div Bps \in Nat
      BY <3>1, ProductIsNat, QuotientIsBelow, DenominatorsArePositive
    <3>3. QED
      BY <2>1, <3>2, AccountsFact, TokensFact, ConversionsAreNat, LeastFact
  <2> DEFINE o == [obl EXCEPT !.debt = @ - repaid, !.dep = @ - seized]
  <2>5. o.debt = obl.debt - repaid /\ o.dep = obl.dep - seized
    BY AccountsFact DEF ObligationType
  <2>6. obl' = [o EXCEPT !.exists = (o.dep # 0 \/ o.debt # 0)]
    BY <2>1 DEF ClosedWhenEmpty
  <2>7. obl'.debt = o.debt /\ obl'.dep = o.dep /\ obl'.exists = (o.dep # 0 \/ o.debt # 0)
    BY <2>6, AccountsFact DEF ObligationType
  <2>8. tally'.interest = tally.interest /\ tally'.liquidated = tally.liquidated + repaid
    BY <2>1 DEF TypeOK
  <2> HIDE DEF o
  <2>9. ~obl'.exists => obl'.debt = 0 /\ obl'.dep = 0
    BY <2>7, Zenon
  <2>10. /\ obl'.debt \in Nat /\ obl'.debt <= obl.debt /\ obl'.dep <= obl.dep
         /\ repaid = obl.debt - obl'.debt
    <3>1. obl.debt \in Nat /\ obl.dep \in Nat
      BY AccountsFact
    <3>2. obl'.debt = obl.debt - repaid /\ obl'.dep = obl.dep - seized
      BY <2>5, <2>7, Zenon
    <3>3. QED
      BY <2>3, <2>4, <3>1, <3>2
  <2>11. QED
    BY <2>2, <2>8, <2>9, <2>10, Zenon
<1>3. CASE \/ StockPriceMoves \/ DestinationPriceMoves \/ OracleFreshnessChanges
           \/ MarketFlags \/ TimePasses
  BY <1>3 DEF StockPriceMoves, DestinationPriceMoves, OracleFreshnessChanges,
              MarketFlags, TimePasses
<1>4. QED
  BY <1>1, <1>2, <1>3 DEF MarketSteps

------------------------------------------------------------------------------
(* The inductive invariant.                                                *)

\* The ledger needs to know that a position which does not exist owes nothing,
\* and the emptiness of a closed one that no market step finds a debt there.
Safe == TypeOK /\ HandedBackIsEmpty /\ AwaitingSwapHasItsCash /\ LedgerBalances

\* Owner instructions keep the inductive invariant.
LEMMA OwnerStepSafe ==
    ASSUME Safe, TypeOK', OwnerSteps
    PROVE  Safe'
<1>1. TypeOK
  BY DEF Safe
<1> USE <1>1
<1>2. ASSUME NEW strategy \in Strategies, NEW dep \in StockAmounts, NEW borrow \in BorrowAmounts,
             NEW later \in BOOLEAN, OpenPosition(strategy, dep, borrow, later)
      PROVE  Safe'
  <2>1. /\ pos.state = "None"
        /\ dep \in Nat /\ borrow \in Nat /\ borrow > 0
        /\ obl'.exists = TRUE /\ obl'.debt = obl.debt + borrow
        /\ held'.stock = held.stock
        /\ pos'.borrowed = borrow /\ pos'.repaid = 0
        /\ pos'.state \in {"Open", "AwaitingSwap"}
        /\ pos'.state = "AwaitingSwap" => held'.usdc = held.usdc + borrow
        /\ tally'.interest = 0 /\ tally'.liquidated = 0
    BY <1>2, OpenEffect
  <2>2. obl.debt = 0 /\ held.stock = 0 /\ held.usdc = 0
    BY <2>1 DEF Safe, HandedBackIsEmpty, NothingHeld
  <2>3. HandedBackIsEmpty'
    BY <2>1, <2>2 DEF HandedBackIsEmpty
  <2>4. AwaitingSwapHasItsCash'
    BY <2>1, <2>2 DEF AwaitingSwapHasItsCash
  <2>5. LedgerBalances'
    BY <2>1, <2>2 DEF LedgerBalances
  <2>6. QED
    BY <2>3, <2>4, <2>5 DEF Safe
<1>3. CASE BuyDestination
  BY <1>3, BuyEffect, AccountsFact
     DEF Safe, HandedBackIsEmpty, AwaitingSwapHasItsCash, LedgerBalances, NothingHeld, Exists
<1>4. ASSUME NEW dep \in StockAmounts, NEW borrow \in BorrowAmounts,
             NEW later \in BOOLEAN, TopUp(dep, borrow, later)
      PROVE  Safe'
  <2>1. /\ pos.state = "Open" /\ borrow \in Nat /\ borrow > 0
        /\ obl'.exists = TRUE /\ obl'.debt = obl.debt + borrow
        /\ held'.stock = held.stock
        /\ pos'.borrowed = pos.borrowed + borrow /\ pos'.repaid = pos.repaid
        /\ pos'.state \in {"Open", "AwaitingSwap"}
        /\ pos'.state = "AwaitingSwap" => held'.usdc = held.usdc + borrow
        /\ tally' = tally
    BY <1>4, TopUpEffect
  <2>2. HandedBackIsEmpty'
    BY <2>1 DEF Safe, HandedBackIsEmpty
  <2>3. AwaitingSwapHasItsCash'
    BY <2>1, AccountsFact DEF AwaitingSwapHasItsCash
  <2>4. LedgerBalances'
    BY <2>1, AccountsFact DEF Safe, LedgerBalances, Exists
  <2>5. QED
    BY <2>2, <2>3, <2>4 DEF Safe
<1>5. ASSUME NEW amount \in StockAmounts, AddCollateral(amount)
      PROVE  Safe'
  BY <1>5, AddCollateralEffect, AccountsFact
     DEF Safe, HandedBackIsEmpty, AwaitingSwapHasItsCash, LedgerBalances, Exists
<1>6. ASSUME NEW requested \in RepayAmounts, Repay(requested)
      PROVE  Safe'
  <2>1. PICK amount \in Nat :
          /\ amount <= obl.debt
          /\ pos.state \notin {"None", "Closed"} /\ pos'.state = pos.state
          /\ pos'.borrowed = pos.borrowed /\ pos'.repaid = pos.repaid + amount
          /\ obl'.exists = TRUE /\ obl'.dep = obl.dep /\ obl'.debt = obl.debt - amount
          /\ held' = held /\ tally' = tally
    BY <1>6, RepayEffect
  <2>2. HandedBackIsEmpty' /\ AwaitingSwapHasItsCash'
    BY <2>1 DEF Safe, HandedBackIsEmpty, AwaitingSwapHasItsCash
  <2>3. LedgerBalances'
    BY <2>1, AccountsFact DEF Safe, LedgerBalances, Exists
  <2>4. QED
    BY <2>2, <2>3 DEF Safe
<1>7. ASSUME NEW amount \in StockAmounts, WithdrawCollateral(amount)
      PROVE  Safe'
  BY <1>7, WithdrawEffect, AccountsFact
     DEF Safe, HandedBackIsEmpty, AwaitingSwapHasItsCash, LedgerBalances, Exists
<1>8. ASSUME NEW strategy \in Strategies, SetStrategy(strategy)
      PROVE  Safe'
  BY <1>8, SetStrategyEffect, AccountsFact
     DEF Safe, HandedBackIsEmpty, AwaitingSwapHasItsCash, LedgerBalances, Exists
<1>9. CASE Unwind
  BY <1>9, UnwindEffect, AccountsFact
     DEF Safe, HandedBackIsEmpty, AwaitingSwapHasItsCash, LedgerBalances, NothingHeld, Exists
<1>10. CASE Rescue
  BY <1>10, RescueEffect, AccountsFact
     DEF Safe, HandedBackIsEmpty, AwaitingSwapHasItsCash, LedgerBalances, NothingHeld, Exists
<1>11. CASE ClosePosition
  BY <1>11, CloseEffect, AccountsFact
     DEF Safe, HandedBackIsEmpty, AwaitingSwapHasItsCash, LedgerBalances, NothingHeld, Exists
<1>12. QED
  BY <1>2, <1>3, <1>4, <1>5, <1>6, <1>7, <1>8, <1>9, <1>10, <1>11 DEF OwnerSteps

\* Guard and delegated instructions keep the inductive invariant.
LEMMA GuardStepSafe ==
    ASSUME Safe, TypeOK', GuardSteps
    PROVE  Safe'
<1>1. TypeOK
  BY DEF Safe
<1> USE <1>1
<1>2. ASSUME NEW by \in Callers, Protect(by)
      PROVE  Safe'
  BY <1>2, ProtectEffect, AccountsFact
     DEF Safe, HandedBackIsEmpty, AwaitingSwapHasItsCash, LedgerBalances, Exists
<1>3. ASSUME NEW by \in Callers, Grow(by)
      PROVE  Safe'
  BY <1>3, GrowEffect, AccountsFact
     DEF Safe, HandedBackIsEmpty, AwaitingSwapHasItsCash, LedgerBalances, Exists
<1>4. ASSUME NEW by \in Callers, LeavePartWay(by)
      PROVE  Safe'
  BY <1>4, LeavePartWayEffect, AccountsFact
     DEF Safe, HandedBackIsEmpty, AwaitingSwapHasItsCash, LedgerBalances, Exists
<1>5. ASSUME NEW by \in Callers, LeaveEntirely(by)
      PROVE  Safe'
  BY <1>5, LeaveEntirelyEffect, AccountsFact
     DEF Safe, HandedBackIsEmpty, AwaitingSwapHasItsCash, LedgerBalances, NothingHeld, Exists
<1>6. QED
  BY <1>2, <1>3, <1>4, <1>5 DEF GuardSteps

\* Admin and market steps keep the inductive invariant.
LEMMA OtherStepSafe ==
    ASSUME Safe, TypeOK', AdminSteps \/ MarketSteps \/ UNCHANGED vars
    PROVE  Safe'
<1>1. TypeOK
  BY DEF Safe
<1>2. CASE AdminSteps \/ UNCHANGED vars
  BY <1>2, AdminEffect
     DEF Safe, HandedBackIsEmpty, AwaitingSwapHasItsCash, LedgerBalances, Exists, vars
<1>3. CASE MarketSteps
  BY <1>1, <1>3, MarketEffect, AccountsFact
     DEF Safe, HandedBackIsEmpty, AwaitingSwapHasItsCash, LedgerBalances, Exists
<1>4. QED
  BY <1>2, <1>3

\* What every reachable state satisfies, whatever the market, the router and
\* the callers do, liquidations included.
THEOREM AlwaysSafe == Spec => []Safe
<1>1. Init => Safe
  <2>1. Init => TypeOK
    BY InitialType
  <2>2. Init => pos.state = "None" /\ obl = NoObligation /\ held = NothingHeld
    BY DEF Init, NoPosition
  <2>3. Init => HandedBackIsEmpty /\ AwaitingSwapHasItsCash /\ LedgerBalances
    BY <2>2 DEF HandedBackIsEmpty, AwaitingSwapHasItsCash, LedgerBalances,
                NoObligation, NothingHeld, Exists
  <2>4. QED
    BY <2>1, <2>3 DEF Safe
<1>2. Safe /\ [Next]_vars => Safe'
  <2>1. Safe /\ [Next]_vars => TypeOK'
    BY StepType DEF Safe
  <2>2. QED
    BY <2>1, OwnerStepSafe, GuardStepSafe, OtherStepSafe DEF Next
<1>3. QED
  BY <1>1, <1>2, PTL DEF Spec

------------------------------------------------------------------------------
(* The invariants the runs check.                                          *)

\* A closed position owes nothing and leaves nothing behind, and one handed
\* back keeps no USDC: the sends that end unwind, leave and rescue miss nothing.
THEOREM ClosedIsEmpty == Spec => []HandedBackIsEmpty
BY AlwaysSafe, PTL DEF Safe

\* record_borrow and record_repay are called wherever USDC moves between the
\* position and the market, so the totals on the account explain its debt.
THEOREM LedgerIsExact == Spec => []LedgerBalances
BY AlwaysSafe, PTL DEF Safe

\* buy_destination always finds the USDC it is called to spend.
THEOREM SwapIsNeverStranded == Spec => []AwaitingSwapHasItsCash
BY AlwaysSafe, PTL DEF Safe

\* Whatever the prices and the state, the stock rescue takes out is stock the
\* market lets go: the rounding of release_value never asks for one unit more.
THEOREM RescueIsAlwaysAllowed == Spec => []RescueIsNeverRefused
<1>1. ASSUME TypeOK PROVE RescueIsNeverRefused
  <2> DEFINE out == Withdrawable(obl.dep, obl.debt, AdjustedDebt(obl), DepositedValue(obl), MaxLtv)
             o == RescuedObligation
  <2>1. SUFFICES ASSUME o.dep # obl.dep, obl.debt # 0
                 PROVE  MarketAllows(o)
    BY <1>1, RescuedFact DEF RescueIsNeverRefused, MarketAllows
  <2>2. /\ obl \in ObligationType /\ obl.dep \in Nat /\ obl.debt \in Nat \ {0}
        /\ AdjustedDebt(obl) \in Nat /\ DepositedValue(obl) \in Nat /\ MaxLtv \in Nat
    BY <1>1, <2>1, AccountsFact, ValuesFact, MarketAssumption
  <2>3. out \in Nat /\ out <= obl.dep
    BY <2>2, WithdrawableFact
  <2>4. o = [obl EXCEPT !.dep = obl.dep - out]
    BY DEF RescuedObligation
  <2> HIDE DEF o
  <2>5. o.dep = obl.dep - out /\ o.debt = obl.debt
    BY <2>2, <2>4 DEF ObligationType
  <2>6. out # 0
    BY <2>1, <2>2, <2>5
  <2>7. out = Withdrawable(obl.dep, obl.debt, AdjustedDebt(obl), UsdValue(Stock, obl.dep), MaxLtv)
    BY DEF DepositedValue
  <2> HIDE DEF out
  <2>8. AdjustedDebt(obl) <= ValueAllowedAtTarget(UsdValue(Stock, obl.dep - out), MaxLtv)
    BY <1>1, <2>2, <2>6, <2>7, TokensFact, ReleaseIsAllowed
  <2>9. AdjustedDebt(o) = AdjustedDebt(obl) /\ DepositedValue(o) = UsdValue(Stock, obl.dep - out)
    BY <2>5 DEF AdjustedDebt, DepositedValue
  <2>10. QED
    BY <2>8, <2>9 DEF MarketAllows
<1>2. QED
  BY <1>1, TypeIsCorrect, PTL

\* Where nobody is liquidated, no step makes the position's books overstate the debt.
LEMMA StepOwing ==
    ASSUME LiquidationHappens = FALSE, Safe, OwedIsNeverOverstated, [Next]_vars
    PROVE  OwedIsNeverOverstated'
<1>1. TypeOK
  BY DEF Safe
<1> USE <1>1
<1>2. ASSUME NEW strategy \in Strategies, NEW dep \in StockAmounts, NEW borrow \in BorrowAmounts,
             NEW later \in BOOLEAN, OpenPosition(strategy, dep, borrow, later)
      PROVE  OwedIsNeverOverstated'
  <2>1. pos'.owed = 0 /\ obl'.debt = obl.debt + borrow /\ borrow \in Nat
    BY <1>2, OpenEffect
  <2>2. QED
    BY <2>1, AccountsFact DEF OwedIsNeverOverstated
<1>3. CASE BuyDestination
  BY <1>3, BuyEffect DEF OwedIsNeverOverstated
<1>4. ASSUME NEW dep \in StockAmounts, NEW borrow \in BorrowAmounts,
             NEW later \in BOOLEAN, TopUp(dep, borrow, later)
      PROVE  OwedIsNeverOverstated'
  <2>1. /\ pos'.owed = pos.owed /\ pos.state = "Open"
        /\ obl'.debt = obl.debt + borrow /\ borrow \in Nat
    BY <1>4, TopUpEffect
  <2>2. QED
    BY <2>1, AccountsFact DEF OwedIsNeverOverstated
<1>5. ASSUME NEW amount \in StockAmounts, AddCollateral(amount)
      PROVE  OwedIsNeverOverstated'
  BY <1>5, AddCollateralEffect DEF OwedIsNeverOverstated
<1>6. ASSUME NEW requested \in RepayAmounts, Repay(requested)
      PROVE  OwedIsNeverOverstated'
  <2>1. PICK amount \in Nat :
          /\ amount <= obl.debt /\ pos'.state = pos.state
          /\ pos'.owed = Monus(pos.owed, amount) /\ obl'.debt = obl.debt - amount
    BY <1>6, RepayEffect
  <2>2. QED
    BY <2>1, AccountsFact DEF OwedIsNeverOverstated, Monus
<1>7. ASSUME NEW amount \in StockAmounts, WithdrawCollateral(amount)
      PROVE  OwedIsNeverOverstated'
  BY <1>7, WithdrawEffect DEF OwedIsNeverOverstated
<1>8. ASSUME NEW strategy \in Strategies, SetStrategy(strategy)
      PROVE  OwedIsNeverOverstated'
  BY <1>8, SetStrategyEffect DEF OwedIsNeverOverstated
<1>9. CASE Unwind
  BY <1>9, UnwindEffect, AccountsFact DEF OwedIsNeverOverstated, Monus
<1>10. CASE Rescue
  BY <1>10, RescueEffect, AccountsFact DEF OwedIsNeverOverstated
<1>11. CASE ClosePosition
  BY <1>11, CloseEffect, AccountsFact DEF OwedIsNeverOverstated
<1>12. ASSUME NEW by \in Callers, Protect(by)
       PROVE  OwedIsNeverOverstated'
  <2>1. PICK repaying \in Nat :
          /\ repaying <= obl.debt /\ pos.state = "Open"
          /\ pos'.owed = Monus(pos.owed, repaying) /\ obl'.debt = obl.debt - repaying
    BY <1>12, ProtectEffect
  <2>2. QED
    BY <2>1, AccountsFact DEF OwedIsNeverOverstated, Monus
<1>13. ASSUME NEW by \in Callers, Grow(by)
       PROVE  OwedIsNeverOverstated'
  <2>1. PICK borrow \in Nat :
          pos.state = "Open" /\ pos'.owed = pos.owed /\ obl'.debt = obl.debt + borrow
    BY <1>13, GrowEffect
  <2>2. QED
    BY <2>1, AccountsFact DEF OwedIsNeverOverstated
<1>14. ASSUME NEW by \in Callers, LeavePartWay(by)
       PROVE  OwedIsNeverOverstated'
  <2>1. PICK cash \in Nat :
          /\ cash < obl.debt /\ pos'.state = "Closing"
          /\ pos'.owed = obl.debt - cash /\ obl'.debt = obl.debt - cash
    BY <1>14, LeavePartWayEffect
  <2>2. QED
    BY <2>1, AccountsFact DEF OwedIsNeverOverstated
<1>15. ASSUME NEW by \in Callers, LeaveEntirely(by)
       PROVE  OwedIsNeverOverstated'
  BY <1>15, LeaveEntirelyEffect, AccountsFact DEF OwedIsNeverOverstated, Monus
<1>16. CASE AdminSteps \/ UNCHANGED vars
  BY <1>16, AdminEffect DEF OwedIsNeverOverstated, vars
<1>17. CASE MarketSteps
  BY <1>17, MarketEffect, AccountsFact DEF OwedIsNeverOverstated
<1>18. QED
  BY <1>2, <1>3, <1>4, <1>5, <1>6, <1>7, <1>8, <1>9, <1>10, <1>11, <1>12, <1>13, <1>14,
     <1>15, <1>16, <1>17 DEF Next, OwnerSteps, GuardSteps

\* Without a liquidation, which repays debt the account never hears of, the
\* account never says more is owed than is, and says so only once handed back.
THEOREM OwedIsExact == LiquidationHappens = FALSE => (Spec => []OwedIsNeverOverstated)
<1> SUFFICES ASSUME LiquidationHappens = FALSE
             PROVE  Spec => []OwedIsNeverOverstated
  OBVIOUS
<1>1. Init => OwedIsNeverOverstated
  BY DEF Init, OwedIsNeverOverstated, NoPosition, NoObligation
<1>2. Safe /\ OwedIsNeverOverstated /\ [Next]_vars => OwedIsNeverOverstated'
  BY StepOwing
<1>3. QED
  BY <1>1, <1>2, AlwaysSafe, PTL DEF Spec

------------------------------------------------------------------------------
(* Action properties.                                                      *)

\* Once the sunset is set no step clears it, opens a position or borrows except by a growth.
LEMMA StepSunset ==
    ASSUME TypeOK, [Next]_vars, config.sunset
    PROVE  /\ config'.sunset
           /\ pos.state = "None" => pos'.state = "None"
           /\ pos'.borrowed > pos.borrowed => pos'.grows > pos.grows
<1> DEFINE Goal == /\ config'.sunset
                   /\ pos.state = "None" => pos'.state = "None"
                   /\ pos'.borrowed > pos.borrowed => pos'.grows > pos.grows
<1>1. config \in ConfigType /\ pos.borrowed \in Nat /\ pos.grows \in Nat
  BY ConfigFact, AccountsFact, PositionFieldsFact
<1>2. ASSUME NEW strategy \in Strategies, NEW dep \in StockAmounts, NEW borrow \in BorrowAmounts,
             NEW later \in BOOLEAN, OpenPosition(strategy, dep, borrow, later)
      PROVE  FALSE
  BY <1>2 DEF OpenPosition, OpensAllowed
<1>3. CASE BuyDestination
  BY <1>1, <1>3, BuyEffect DEF BuyDestination
<1>4. ASSUME NEW dep \in StockAmounts, NEW borrow \in BorrowAmounts,
             NEW later \in BOOLEAN, TopUp(dep, borrow, later)
      PROVE  FALSE
  BY <1>4 DEF TopUp, OpensAllowed
<1>5. ASSUME NEW amount \in StockAmounts, AddCollateral(amount)
      PROVE  Goal
  BY <1>1, <1>5, AddCollateralEffect DEF AddCollateral
<1>6. ASSUME NEW requested \in RepayAmounts, Repay(requested)
      PROVE  Goal
  <2>1. pos'.state = pos.state /\ pos'.borrowed = pos.borrowed /\ config' = config
    BY <1>6, RepayEffect DEF Repay
  <2>2. QED
    BY <1>1, <2>1
<1>7. ASSUME NEW amount \in StockAmounts, WithdrawCollateral(amount)
      PROVE  Goal
  BY <1>1, <1>7, WithdrawEffect DEF WithdrawCollateral
<1>8. ASSUME NEW strategy \in Strategies, SetStrategy(strategy)
      PROVE  Goal
  BY <1>1, <1>8, SetStrategyEffect DEF SetStrategy
<1>9. CASE Unwind
  <2>1. pos.state # "None" /\ pos'.borrowed = pos.borrowed /\ config' = config
    BY <1>9, UnwindEffect DEF Unwind
  <2>2. QED
    BY <1>1, <2>1
<1>10. CASE Rescue
  BY <1>1, <1>10, RescueEffect DEF Rescue
<1>11. CASE ClosePosition
  BY <1>1, <1>11 DEF ClosePosition, NoPosition
<1>12. ASSUME NEW by \in Callers, Protect(by)
       PROVE  Goal
  <2>1. pos.state = "Open" /\ pos'.borrowed = pos.borrowed /\ config' = config
    BY <1>12, ProtectEffect DEF Protect
  <2>2. QED
    BY <1>1, <2>1
<1>13. ASSUME NEW by \in Callers, Grow(by)
       PROVE  Goal
  <2>1. /\ pos.state = "Open" /\ config' = config
        /\ pos' = [RecordBorrow(pos, RoomToTarget) EXCEPT !.lastGrow = now, !.grows = @ + 1]
    BY <1>13 DEF Grow
  <2> DEFINE q == RecordBorrow(pos, RoomToTarget)
  <2>2. q \in PositionType /\ q.grows = pos.grows
    BY AccountsFact, GuardSizesFact, RecordsFact DEF RecordBorrow, PositionType
  <2>3. pos' = [q EXCEPT !.lastGrow = now, !.grows = @ + 1]
    BY <2>1
  <2> HIDE DEF q
  <2>4. pos'.grows = q.grows + 1
    BY <2>2, <2>3 DEF PositionType
  <2>5. QED
    BY <1>1, <2>1, <2>2, <2>4
<1>14. ASSUME NEW by \in Callers, LeavePartWay(by)
       PROVE  Goal
  <2>1. pos.state # "None" /\ pos'.borrowed = pos.borrowed /\ config' = config
    BY <1>14, LeavePartWayEffect DEF LeavePartWay
  <2>2. QED
    BY <1>1, <2>1
<1>15. ASSUME NEW by \in Callers, LeaveEntirely(by)
       PROVE  Goal
  <2>1. pos.state # "None" /\ pos'.borrowed = pos.borrowed /\ config' = config
    BY <1>15, LeaveEntirelyEffect DEF LeaveEntirely
  <2>2. QED
    BY <1>1, <2>1
<1>16. CASE AdminSteps
  <2>1. pos' = pos
    BY <1>16, AdminEffect
  <2>2. config'.sunset
    BY <1>1, <1>16 DEF AdminSteps, SetPaused, SetSunset, UpdateConfig, ConfigType
  <2>3. QED
    BY <1>1, <2>1, <2>2
<1>17. CASE MarketSteps
  <2>1. pos' = pos /\ config' = config
    BY <1>17, MarketEffect DEF MarketSteps, StockPriceMoves, DestinationPriceMoves,
       OracleFreshnessChanges, MarketFlags, TimePasses, InterestAccrues, Liquidation
  <2>2. QED
    BY <1>1, <2>1
<1>18. CASE UNCHANGED vars
  BY <1>1, <1>18 DEF vars
<1>19. QED
  BY <1>2, <1>3, <1>4, <1>5, <1>6, <1>7, <1>8, <1>9, <1>10, <1>11, <1>12, <1>13, <1>14,
     <1>15, <1>16, <1>17, <1>18 DEF Next, OwnerSteps, GuardSteps

\* set_sunset is final: set_paused and update_config cannot undo it, and after
\* it neither open_position nor top_up can take a new loan.
THEOREM SunsetIsFinal == Spec => SunsetIsForever
<1>1. TypeOK /\ [Next]_vars =>
        [config.sunset =>
           /\ config'.sunset
           /\ pos.state = "None" => pos'.state = "None"
           /\ pos'.borrowed > pos.borrowed => pos'.grows > pos.grows]_vars
  BY StepSunset
<1>2. QED
  BY <1>1, TypeIsCorrect, PTL DEF Spec, SunsetIsForever

\* Of all the instructions only unwind pays the treasury.
LEMMA OnlyUnwindPaysTheTreasury ==
    ASSUME TypeOK, [Next]_vars, paid'.treasury > paid.treasury
    PROVE  Unwind
<1>1. paid.treasury \in Nat /\ paid.callers \in Nat /\ paid \in [treasury : Nat, callers : Nat]
  BY DEF TypeOK
<1>2. ASSUME NEW strategy, NEW dep, NEW borrow, NEW later,
             OpenPosition(strategy, dep, borrow, later)
      PROVE  FALSE
  <2>1. paid'.treasury = 0
    BY <1>2 DEF OpenPosition
  <2>2. QED
    BY <1>1, <2>1
<1>3. ASSUME NEW by, Protect(by)
      PROVE  FALSE
  <2>1. PICK s, bounty : paid' = [paid EXCEPT !.callers = @ + bounty]
    BY <1>3 DEF Protect
  <2>2. paid'.treasury = paid.treasury
    BY <1>1, <2>1
  <2>3. QED
    BY <1>1, <2>2
<1>4. ASSUME paid' = paid PROVE FALSE
  BY <1>1, <1>4
<1>5. CASE OwnerSteps
  BY <1>2, <1>4, <1>5 DEF OwnerSteps, BuyDestination, TopUp, AddCollateral, Repay,
     WithdrawCollateral, SetStrategy, Rescue, ClosePosition
<1>6. CASE GuardSteps
  BY <1>3, <1>4, <1>6 DEF GuardSteps, Grow, LeavePartWay, LeaveEntirely
<1>7. CASE AdminSteps
  BY <1>4, <1>7 DEF AdminSteps, SetPaused, SetSunset, UpdateConfig
<1>8. CASE MarketSteps
  BY <1>4, <1>8 DEF MarketSteps, StockPriceMoves, DestinationPriceMoves,
     OracleFreshnessChanges, MarketFlags, TimePasses, InterestAccrues, Liquidation
<1>9. QED
  BY <1>4, <1>5, <1>6, <1>7, <1>8 DEF Next, vars

NotLiquidated == tally.liquidated = 0

\* Where nobody is liquidated, the liquidation tally never moves.
LEMMA StepNotLiquidated ==
    ASSUME LiquidationHappens = FALSE, TypeOK, NotLiquidated, [Next]_vars
    PROVE  NotLiquidated'
<1>1. CASE MarketSteps
  BY <1>1, MarketEffect DEF NotLiquidated
<1>2. CASE OwnerSteps
  <2>1. ASSUME NEW strategy, NEW dep, NEW borrow, NEW later,
               OpenPosition(strategy, dep, borrow, later)
        PROVE  NotLiquidated'
    BY <2>1 DEF OpenPosition, NotLiquidated
  <2>2. ASSUME tally' = tally PROVE NotLiquidated'
    BY <2>2 DEF NotLiquidated
  <2>3. QED
    BY <1>2, <2>1, <2>2 DEF OwnerSteps, BuyDestination, TopUp, AddCollateral, Repay,
       WithdrawCollateral, SetStrategy, Unwind, Rescue, ClosePosition
<1>3. CASE GuardSteps \/ AdminSteps \/ UNCHANGED vars
  <2>1. tally' = tally
    BY <1>3, AdminEffect DEF GuardSteps, Protect, Grow, LeavePartWay, LeaveEntirely, vars
  <2>2. QED
    BY <2>1 DEF NotLiquidated
<1>4. QED
  BY <1>1, <1>2, <1>3 DEF Next

\* The fee of one unwind is within the agreed share of the true profit.
LEMMA UnwindFee ==
    ASSUME Safe, NotLiquidated, Unwind
    PROVE  /\ (paid'.treasury - paid.treasury) * Bps
                <= pos.fee * Monus(pos'.sales, pos'.borrowed + tally.interest)
           /\ pos'.state = "Closed"
<1>1. TypeOK
  BY DEF Safe
<1>2. PICK s \in SaleOfEverything(0) :
        /\ paid' = [paid EXCEPT !.treasury = @ +
              FeeOnClosing(pos.sales + s.got, pos.repaid + obl.debt,
                  held.usdc + s.got + Monus(obl.debt, held.usdc + s.got) - obl.debt)]
        /\ pos' = [RecordRepay(RecordSale(pos, s.got), obl.debt) EXCEPT !.state = "Closed"]
  BY DEF Unwind
<1>3. s.got \in Nat
  BY <1>1, SaleFact
<1> DEFINE sales == pos.sales + s.got
           repaid == pos.repaid + obl.debt
           left == held.usdc + s.got + Monus(obl.debt, held.usdc + s.got) - obl.debt
           q == RecordRepay(RecordSale(pos, s.got), obl.debt)
<1>4. q \in PositionType /\ q.sales = sales /\ q.borrowed = pos.borrowed
  <2>1. pos \in PositionType /\ obl.debt \in Nat
    BY <1>1, AccountsFact
  <2>2. QED
    BY ZenonT(60), <1>3, <2>1, SaleAndRepayEffects
<1>5. sales \in Nat /\ repaid \in Nat /\ left \in Nat
  BY <1>1, <1>3, AccountsFact DEF Monus
<1>6. pos' = [q EXCEPT !.state = "Closed"]
  BY <1>2
<1>7. paid' = [paid EXCEPT !.treasury = @ + FeeOnClosing(sales, repaid, left)]
  BY <1>2
<1> HIDE DEF q, left
<1>8. pos'.sales = sales /\ pos'.borrowed = pos.borrowed /\ pos'.state = "Closed"
  BY <1>4, <1>6 DEF PositionType
\* The ledger: what is repaid by now is what was borrowed and its interest.
<1>9. repaid = pos'.borrowed + tally.interest
  <2>1. Exists
    BY DEF Unwind, NotClosed
  <2>2. QED
    BY <1>1, <1>8, <2>1, AccountsFact DEF Safe, LedgerBalances, NotLiquidated
<1> HIDE DEF sales, repaid
<1>10. FeeOnClosing(sales, repaid, left) <= PerformanceFee(sales, repaid, pos.fee)
  BY <1>1, <1>5, AccountsFact, RatesAreNat, LeastFact DEF FeeOnClosing
<1>11. FeeOnClosing(sales, repaid, left) \in Nat /\ PerformanceFee(sales, repaid, pos.fee) \in Nat
  BY <1>1, <1>5, AccountsFact, RatesAreNat, LeastFact DEF FeeOnClosing
<1>12. Bps * PerformanceFee(sales, repaid, pos.fee) <= Monus(sales, repaid) * pos.fee
  BY <1>1, <1>5, AccountsFact, MonusFact, ProductIsNat, QuotientIsBelow, DenominatorsArePositive
     DEF PerformanceFee
<1>13. paid'.treasury - paid.treasury = FeeOnClosing(sales, repaid, left)
  BY <1>1, <1>7, <1>11 DEF TypeOK
<1> DEFINE fee == FeeOnClosing(sales, repaid, left)
           whole == PerformanceFee(sales, repaid, pos.fee)
           profit == Monus(sales, repaid)
<1>14. fee * Bps <= pos.fee * profit
  <2>1. fee \in Nat /\ whole \in Nat /\ profit \in Nat /\ pos.fee \in Nat /\ fee <= whole
    BY <1>1, <1>5, <1>10, <1>11, AccountsFact, MonusFact
  <2>2. Bps * whole <= profit * pos.fee
    BY <1>12
  <2> HIDE DEF fee, whole, profit
  <2>3. Bps * fee <= Bps * whole
    BY <2>1, ProductMonotone, DenominatorsArePositive
  <2>4. /\ Bps * fee = fee * Bps /\ profit * pos.fee = pos.fee * profit
        /\ Bps * fee \in Nat /\ Bps * whole \in Nat /\ profit * pos.fee \in Nat
    BY <2>1, ProductIsNat, DenominatorsArePositive
  <2>5. QED
    BY <2>2, <2>3, <2>4
<1>15. QED
  BY <1>8, <1>9, <1>13, <1>14

\* The treasury is paid at closing only, and never more than the agreed share
\* of what the sales brought beyond the loan and its interest; a liquidation is
\* the one thing that breaks this, for the ledger does not see it.
THEOREM FeeIsFair ==
    LiquidationHappens = FALSE => (Spec => FeeIsOnProfitAtTheAgreedRate)
<1> SUFFICES ASSUME LiquidationHappens = FALSE
             PROVE  Spec => FeeIsOnProfitAtTheAgreedRate
  OBVIOUS
<1>1. Init => NotLiquidated
  BY DEF Init, NotLiquidated
<1>2. Safe /\ NotLiquidated /\ [Next]_vars => NotLiquidated'
  BY StepNotLiquidated DEF Safe
<1>3. Safe /\ NotLiquidated /\ [Next]_vars =>
        [paid'.treasury > paid.treasury =>
           /\ (paid'.treasury - paid.treasury) * Bps
                <= pos.fee * Monus(pos'.sales, pos'.borrowed + tally.interest)
           /\ pos'.state = "Closed"]_vars
  BY OnlyUnwindPaysTheTreasury, UnwindFee DEF Safe
<1>4. QED
  BY <1>1, <1>2, <1>3, AlwaysSafe, PTL DEF Spec, FeeIsOnProfitAtTheAgreedRate

------------------------------------------------------------------------------
(* The position implements its lifecycle.                                  *)

Indebted == obl.debt > 0

\* A step that keeps a watched position watched, or a handed back one from
\* owing again, is one of the lifecycle's.
LEMMA StaysInState ==
    ASSUME pos'.state = pos.state, pos.state \in {"AwaitingSwap", "Open", "Closing"},
           Indebted' => Indebted \/ pos.state # "Closing"
    PROVE  Lifecycle!LifecycleNext
BY DEF Lifecycle!LifecycleNext, Lifecycle!Run, Lifecycle!Settle, Indebted

\* Every step of the program is a step of the lifecycle or stutters on it.
LEMMA StepKeepsLifecycle ==
    ASSUME Safe, [Next]_vars
    PROVE  [Lifecycle!LifecycleNext]_Lifecycle!lifecycle
<1>1. TypeOK /\ HandedBackIsEmpty
  BY DEF Safe
<1> USE <1>1
<1>2. ASSUME NEW strategy \in Strategies, NEW dep \in StockAmounts, NEW borrow \in BorrowAmounts,
             NEW later \in BOOLEAN, OpenPosition(strategy, dep, borrow, later)
      PROVE  Lifecycle!LifecycleNext
  <2>1. /\ pos.state = "None" /\ pos'.state \in {"Open", "AwaitingSwap"}
        /\ obl'.debt = obl.debt + borrow /\ borrow \in Nat /\ borrow > 0
        /\ obl'.dep = obl.dep + dep /\ dep \in Nat /\ dep > 0
    BY <1>2, OpenEffect
  <2>2. obl'.debt > 0 /\ obl'.dep > 0
    BY <2>1, AccountsFact
  <2>3. QED
    BY <2>1, <2>2 DEF Lifecycle!LifecycleNext, Lifecycle!Begin
<1>3. CASE BuyDestination
  <2>1. pos.state = "AwaitingSwap" /\ pos'.state = "Open"
    BY <1>3, BuyEffect
  <2>2. QED
    BY <2>1 DEF Lifecycle!LifecycleNext, Lifecycle!Run
<1>4. ASSUME NEW dep \in StockAmounts, NEW borrow \in BorrowAmounts,
             NEW later \in BOOLEAN, TopUp(dep, borrow, later)
      PROVE  Lifecycle!LifecycleNext
  <2>1. pos.state = "Open" /\ pos'.state \in {"Open", "AwaitingSwap"}
    BY <1>4, TopUpEffect
  <2>2. QED
    BY <2>1 DEF Lifecycle!LifecycleNext, Lifecycle!Run
<1>5. ASSUME NEW amount \in StockAmounts, AddCollateral(amount)
      PROVE  Lifecycle!LifecycleNext
  BY <1>5, AddCollateralEffect, AccountsFact, StaysInState DEF Indebted
<1>6. ASSUME NEW requested \in RepayAmounts, Repay(requested)
      PROVE  Lifecycle!LifecycleNext
  <2>1. PICK amount \in Nat :
          /\ amount <= obl.debt /\ pos.state \notin {"None", "Closed"}
          /\ pos'.state = pos.state /\ obl'.debt = obl.debt - amount
    BY <1>6, RepayEffect
  <2>2. Indebted' => Indebted
    BY <2>1, AccountsFact DEF Indebted
  <2>3. QED
    BY <2>1, <2>2, AccountsFact, StaysInState
<1>7. ASSUME NEW amount \in StockAmounts, WithdrawCollateral(amount)
      PROVE  Lifecycle!LifecycleNext
  BY <1>7, WithdrawEffect, AccountsFact, StaysInState DEF Indebted
<1>8. ASSUME NEW strategy \in Strategies, SetStrategy(strategy)
      PROVE  Lifecycle!LifecycleNext
  BY <1>8, SetStrategyEffect, AccountsFact, StaysInState DEF Indebted
<1>9. ASSUME pos.state # "None", pos'.state = "Closed",
             obl'.dep = 0, obl'.debt = 0, held' = NothingHeld
      PROVE  Lifecycle!LifecycleNext
  BY <1>9 DEF Lifecycle!LifecycleNext, Lifecycle!Finish, NothingHeld
<1>10. ASSUME pos.state \in {"AwaitingSwap", "Open", "Closing"}, pos'.state = "Closing",
              obl'.debt > 0
       PROVE  Lifecycle!LifecycleNext
  BY <1>10 DEF Lifecycle!LifecycleNext, Lifecycle!HandBack
<1>11. CASE Unwind
  BY <1>9, <1>11, UnwindEffect
<1>12. CASE Rescue
  <2>1. CASE obl.debt = 0
    BY <1>9, <1>12, <2>1, RescueEffect
  <2>2. CASE obl.debt > 0
    <3>1. pos.state \in {"AwaitingSwap", "Open", "Closing"}
      BY <1>12, <2>2, RescueEffect, AccountsFact DEF HandedBackIsEmpty
    <3>2. QED
      BY <1>10, <1>12, <2>2, <3>1, RescueEffect
  <2>3. QED
    BY <2>1, <2>2, AccountsFact
<1>13. CASE ClosePosition
  <2>1. /\ pos.state # "None" /\ pos'.state = "None"
        /\ obl.dep = 0 /\ obl.debt = 0 /\ held = NothingHeld
        /\ obl' = obl /\ held' = held
    BY <1>13, CloseEffect
  <2>2. QED
    BY <2>1 DEF Lifecycle!LifecycleNext, Lifecycle!Delete, NothingHeld
<1>14. ASSUME NEW by \in Callers, Protect(by) \/ Grow(by)
       PROVE  Lifecycle!LifecycleNext
  <2>1. pos.state = "Open" /\ pos'.state = "Open"
    BY <1>14, ProtectEffect, GrowEffect
  <2>2. QED
    BY <2>1, StaysInState
<1>15. ASSUME NEW by \in Callers, LeavePartWay(by)
       PROVE  Lifecycle!LifecycleNext
  <2>1. PICK cash \in Nat :
          /\ cash < obl.debt /\ pos.state \notin {"None", "Closed"} /\ pos'.state = "Closing"
          /\ obl'.debt = obl.debt - cash
    BY <1>15, LeavePartWayEffect
  <2>2. obl'.debt > 0 /\ pos.state \in {"AwaitingSwap", "Open", "Closing"}
    BY <2>1, AccountsFact
  <2>3. QED
    BY <1>10, <2>1, <2>2
<1>16. ASSUME NEW by \in Callers, LeaveEntirely(by)
       PROVE  Lifecycle!LifecycleNext
  BY <1>9, <1>16, LeaveEntirelyEffect
<1>17. CASE AdminSteps \/ UNCHANGED vars
  <2>1. UNCHANGED <<pos, obl, held>>
    BY <1>17, AdminEffect DEF vars
  <2>2. QED
    BY <2>1 DEF Lifecycle!lifecycle, NothingHeld
<1>18. CASE MarketSteps
  <2>1. pos' = pos /\ held' = held
    BY <1>18, MarketEffect
  <2>2. CASE obl' = obl
    BY <2>1, <2>2 DEF Lifecycle!lifecycle, NothingHeld
  <2>3. CASE obl.debt > 0
    <3>1. pos.state \in {"AwaitingSwap", "Open", "Closing"}
      BY <2>3, AccountsFact DEF HandedBackIsEmpty
    <3>2. QED
      BY <2>1, <2>3, <3>1, StaysInState DEF Indebted
  <2>4. QED
    BY <1>18, <2>2, <2>3, MarketEffect
<1>19. QED
  BY <1>2, <1>3, <1>4, <1>5, <1>6, <1>7, <1>8, <1>11, <1>12, <1>13, <1>14,
     <1>15, <1>16, <1>17, <1>18 DEF Next, OwnerSteps, GuardSteps

\* Every behaviour of a position, liquidations included, is one PositionLifecycle
\* allows: the states come in its order, debt is only taken on while watched,
\* and nothing is called closed or deleted that owes or holds anything.
THEOREM ImplementsItsLifecycle == Spec => KeepsItsLifecycle
<1>1. Init => Lifecycle!LifecycleInit
  BY DEF Init, Lifecycle!LifecycleInit, NoPosition, NoObligation, NothingHeld
<1>2. Safe /\ [Next]_vars => [Lifecycle!LifecycleNext]_Lifecycle!lifecycle
  BY StepKeepsLifecycle
<1>3. QED
  BY <1>1, <1>2, AlwaysSafe, PTL DEF Spec, KeepsItsLifecycle, Lifecycle!LifecycleSpec

------------------------------------------------------------------------------
(* What a step does to the strategy and to the counts of guard steps.      *)

PlanKept ==
    /\ pos'.strategy = pos.strategy
    /\ pos'.protects = pos.protects /\ pos'.grows = pos.grows

\* The bookkeeping helpers leave the strategy and the counts alone.
LEMMA RecordsKeepThePlan ==
    ASSUME NEW p \in PositionType, NEW amount \in Nat
    PROVE  /\ RecordBorrow(p, amount).strategy = p.strategy
           /\ RecordBorrow(p, amount).protects = p.protects
           /\ RecordBorrow(p, amount).grows = p.grows
           /\ RecordRepay(p, amount).strategy = p.strategy
           /\ RecordRepay(p, amount).protects = p.protects
           /\ RecordRepay(p, amount).grows = p.grows
           /\ RecordSale(p, amount).strategy = p.strategy
           /\ RecordSale(p, amount).protects = p.protects
           /\ RecordSale(p, amount).grows = p.grows
BY DEF PositionType, RecordBorrow, RecordRepay, RecordSale

\* So does a sale with the repayment it pays for.
LEMMA SaleAndRepayKeepThePlan ==
    ASSUME NEW p \in PositionType, NEW got \in Nat, NEW amount \in Nat
    PROVE  /\ RecordRepay(RecordSale(p, got), amount) \in PositionType
           /\ RecordRepay(RecordSale(p, got), amount).strategy = p.strategy
           /\ RecordRepay(RecordSale(p, got), amount).protects = p.protects
           /\ RecordRepay(RecordSale(p, got), amount).grows = p.grows
<1> DEFINE q == RecordSale(p, got)
<1>1. /\ q \in PositionType /\ q.strategy = p.strategy
      /\ q.protects = p.protects /\ q.grows = p.grows
  BY RecordsFact, RecordsKeepThePlan
<1> HIDE DEF q
<1>2. /\ RecordRepay(q, amount) \in PositionType
      /\ RecordRepay(q, amount).strategy = q.strategy
      /\ RecordRepay(q, amount).protects = q.protects
      /\ RecordRepay(q, amount).grows = q.grows
  BY <1>1, RecordsFact, RecordsKeepThePlan
<1>3. QED
  BY <1>1, <1>2 DEF q

\* What open and top-up share keeps the plan of the position they start from.
LEMMA DepositAndBorrowKeepsThePlan ==
    ASSUME NEW p \in PositionType, NEW dep \in Nat, NEW borrow \in Nat,
           NEW later \in BOOLEAN, NEW leastOut \in Nat,
           DepositAndBorrow(p, dep, borrow, later, leastOut)
    PROVE  /\ pos'.strategy = p.strategy
           /\ pos'.protects = p.protects /\ pos'.grows = p.grows
<1> DEFINE q == RecordBorrow(p, borrow)
<1>1. /\ q \in PositionType /\ q.strategy = p.strategy
      /\ q.protects = p.protects /\ q.grows = p.grows
  BY RecordsFact, RecordsKeepThePlan
<1>2. pos' = [q EXCEPT !.state = "AwaitingSwap"] \/ pos' = q
  BY DEF DepositAndBorrow
<1> HIDE DEF q
<1>3. QED
  BY <1>1, <1>2 DEF PositionType

\* A position opens with the strategy its owner asked for, which is sound.
LEMMA OpenPlans ==
    ASSUME TypeOK, NEW strategy \in Strategies, NEW dep \in StockAmounts,
           NEW borrow \in BorrowAmounts, NEW later \in BOOLEAN,
           OpenPosition(strategy, dep, borrow, later)
    PROVE  /\ pos'.strategy = strategy /\ pos'.protects = 0 /\ pos'.grows = 0
           /\ StrategyIsValid(strategy, MaxLtv, LiquidationThreshold)
<1> DEFINE p == [NoPosition EXCEPT !.state = "Open", !.strategy = strategy, !.fee = config.fee]
<1>1. /\ DepositAndBorrow(p, dep, borrow, later, 0)
      /\ StrategyIsValid(strategy, MaxLtv, LiquidationThreshold)
  BY DEF OpenPosition
<1>2. p \in PositionType
  BY NewPositionFact
<1>3. p.strategy = strategy /\ p.protects = 0 /\ p.grows = 0
  BY DEF NoPosition
<1>4. dep \in Nat /\ borrow \in Nat
  BY ChoicesAssumption
<1> HIDE DEF p
<1>5. pos'.strategy = p.strategy /\ pos'.protects = p.protects /\ pos'.grows = p.grows
  BY <1>1, <1>2, <1>4, 0 \in Nat, DepositAndBorrowKeepsThePlan
<1>6. QED
  BY <1>1, <1>3, <1>5

\* A protection counts itself and keeps the strategy.
LEMMA ProtectCounts ==
    ASSUME TypeOK, NEW by \in Callers, Protect(by)
    PROVE  pos'.strategy = pos.strategy
<1>1. PICK s \in Swaps(Destination, DestinationToSell, Usdc,
                       SwapMinimum(by, Destination, DestinationToSell, Usdc)) :
        pos' = [RecordRepay(RecordSale(pos, s.got), Repaying(s.got))
                  EXCEPT !.lastProtect = now, !.protects = @ + 1]
  BY DEF Protect
<1>2. s.got \in Nat
  BY TokensFact, GuardSizesFact, SwapMinimumIsNat, SwapFact
<1>3. Repaying(s.got) \in Nat
  BY <1>2, AccountsFact, GuardSizesFact DEF Repaying, Least
<1> DEFINE q == RecordRepay(RecordSale(pos, s.got), Repaying(s.got))
<1>4. q \in PositionType /\ q.strategy = pos.strategy
  <2>1. pos \in PositionType
    BY AccountsFact
  <2>2. QED
    BY <1>2, <1>3, <2>1, SaleAndRepayKeepThePlan
<1>5. pos' = [q EXCEPT !.lastProtect = now, !.protects = @ + 1]
  BY <1>1
<1> HIDE DEF q
<1>6. QED
  BY <1>4, <1>5 DEF PositionType

\* A growth keeps the strategy.
LEMMA GrowKeepsTheStrategy ==
    ASSUME TypeOK, NEW by \in Callers, Grow(by)
    PROVE  pos'.strategy = pos.strategy
<1> DEFINE q == RecordBorrow(pos, RoomToTarget)
<1>1. pos' = [q EXCEPT !.lastGrow = now, !.grows = @ + 1]
  BY DEF Grow
<1>2. q \in PositionType /\ q.strategy = pos.strategy
  BY AccountsFact, GuardSizesFact, RecordsFact, RecordsKeepThePlan
<1> HIDE DEF q
<1>3. QED
  BY <1>1, <1>2 DEF PositionType

\* Every other step, but a change of the strategy and the end of the account, keeps
\* the plan of a position that exists.
LEMMA OtherStepsKeepThePlan ==
    ASSUME TypeOK, [Next]_vars
    PROVE  \/ PlanKept
           \/ \E strategy \in Strategies, dep \in StockAmounts, borrow \in BorrowAmounts,
                 later \in BOOLEAN : OpenPosition(strategy, dep, borrow, later)
           \/ \E strategy \in Strategies : SetStrategy(strategy)
           \/ ClosePosition
           \/ \E by \in Callers : Protect(by) \/ Grow(by)
<1>0. pos \in PositionType /\ obl.debt \in Nat /\ held.usdc \in Nat
  BY AccountsFact
<1>1. ASSUME pos' = pos PROVE PlanKept
  BY <1>1 DEF PlanKept
<1>2. ASSUME NEW st, pos' = [pos EXCEPT !.state = st] PROVE PlanKept
  BY <1>0, <1>2 DEF PlanKept, PositionType
<1>3. ASSUME NEW dep \in StockAmounts, NEW borrow \in BorrowAmounts, NEW later \in BOOLEAN,
             TopUp(dep, borrow, later)
      PROVE  PlanKept
  <2>1. DepositAndBorrow(pos, dep, borrow, later, 1)
    BY <1>3 DEF TopUp
  <2>2. dep \in Nat /\ borrow \in Nat
    BY ChoicesAssumption
  <2>3. QED
    BY <1>0, <2>1, <2>2, 1 \in Nat, DepositAndBorrowKeepsThePlan DEF PlanKept
<1>4. ASSUME NEW requested \in RepayAmounts, Repay(requested)
      PROVE  PlanKept
  <2>1. pos' = RecordRepay(pos, Least(requested, obl.debt)) /\ requested \in Nat
    BY <1>4, ChoicesAssumption DEF Repay
  <2>2. Least(requested, obl.debt) \in Nat
    BY <1>0, <2>1, LeastFact
  <2>3. QED
    BY <1>0, <2>1, <2>2, RecordsKeepThePlan DEF PlanKept
<1>5. ASSUME NEW got \in Nat, NEW amount \in Nat, NEW st, NEW owed,
             \/ pos' = [RecordRepay(RecordSale(pos, got), amount) EXCEPT !.state = st]
             \/ pos' = [RecordRepay(RecordSale(pos, got), amount) EXCEPT !.owed = owed, !.state = st]
      PROVE  PlanKept
  <2> DEFINE q == RecordRepay(RecordSale(pos, got), amount)
  <2>1. /\ q \in PositionType /\ q.strategy = pos.strategy
        /\ q.protects = pos.protects /\ q.grows = pos.grows
    BY <1>0, SaleAndRepayKeepThePlan
  <2>2. pos' = [q EXCEPT !.state = st] \/ pos' = [q EXCEPT !.owed = owed, !.state = st]
    BY <1>5
  <2> HIDE DEF q
  <2>3. QED
    BY <2>1, <2>2 DEF PlanKept, PositionType
<1>6. CASE Unwind
  <2>1. PICK s \in SaleOfEverything(0) :
          pos' = [RecordRepay(RecordSale(pos, s.got), obl.debt) EXCEPT !.state = "Closed"]
    BY <1>6 DEF Unwind
  <2>2. s.got \in Nat
    BY 0 \in Nat, SaleFact
  <2>3. QED
    BY <1>0, <1>5, <2>1, <2>2
<1>7. ASSUME NEW by \in Callers, LeavePartWay(by)
      PROVE  PlanKept
  <2>1. PICK s \in LeaveSales :
          pos' = [RecordRepay(RecordSale(pos, s.got), held.usdc + s.got)
                    EXCEPT !.owed = obl.debt - (held.usdc + s.got), !.state = "Closing"]
    BY <1>7 DEF LeavePartWay
  <2>2. s.got \in Nat /\ held.usdc + s.got \in Nat
    BY <1>0, LeaveSaleFact
  <2>3. QED
    BY <1>5, <2>1, <2>2
<1>8. ASSUME NEW by \in Callers, LeaveEntirely(by)
      PROVE  PlanKept
  <2>1. PICK s \in LeaveSales :
          pos' = [RecordRepay(RecordSale(pos, s.got), obl.debt) EXCEPT !.state = "Closed"]
    BY <1>8 DEF LeaveEntirely
  <2>2. s.got \in Nat
    BY LeaveSaleFact
  <2>3. QED
    BY <1>0, <1>5, <2>1, <2>2
<1>9. CASE OwnerSteps
  BY <1>1, <1>2, <1>3, <1>4, <1>6, <1>9 DEF OwnerSteps, BuyDestination, AddCollateral,
     WithdrawCollateral, Rescue
<1>10. CASE GuardSteps
  BY <1>7, <1>8, <1>10 DEF GuardSteps
<1>11. CASE AdminSteps \/ MarketSteps \/ UNCHANGED vars
  BY <1>1, <1>11, AdminEffect, MarketEffect DEF vars
<1>12. QED
  BY <1>9, <1>10, <1>11 DEF Next

------------------------------------------------------------------------------
(* The strategy of a position is sound.                                    *)

\* What open_position and set_strategy check stays true: the target lies below the
\* guard level with room to spare, and the market lends at all.
StrategyIsSound == Exists => StrategyIsValid(pos.strategy, MaxLtv, LiquidationThreshold)

\* No step leaves a position with a strategy that was not checked.
LEMMA StepStrategy ==
    ASSUME TypeOK, StrategyIsSound, [Next]_vars
    PROVE  StrategyIsSound'
<1>1. ASSUME NEW strategy \in Strategies, NEW dep \in StockAmounts, NEW borrow \in BorrowAmounts,
             NEW later \in BOOLEAN, OpenPosition(strategy, dep, borrow, later)
      PROVE  StrategyIsSound'
  BY <1>1, OpenPlans DEF StrategyIsSound
<1>2. ASSUME NEW strategy \in Strategies, SetStrategy(strategy)
      PROVE  StrategyIsSound'
  BY <1>2, AccountsFact DEF SetStrategy, StrategyIsSound, PositionType
<1>3. CASE ClosePosition
  BY <1>3 DEF ClosePosition, NoPosition, StrategyIsSound, Exists
<1>4. CASE pos'.strategy = pos.strategy
  <2>1. ASSUME pos.state = "None", pos'.state # "None"
        PROVE  \E strategy \in Strategies, dep \in StockAmounts, borrow \in BorrowAmounts,
                  later \in BOOLEAN : OpenPosition(strategy, dep, borrow, later)
    <3>1. ~GuardSteps
      BY <2>1 DEF GuardSteps, Protect, Grow, LeavePartWay, LeaveEntirely, LeaveMayRun,
         NotClosed, Exists
    <3>2. ~AdminSteps /\ ~MarketSteps /\ ~UNCHANGED vars
      BY <2>1, AdminEffect, MarketEffect DEF vars
    <3>3. QED
      BY <2>1, <3>1, <3>2 DEF Next, OwnerSteps, BuyDestination, TopUp, AddCollateral, Repay,
         WithdrawCollateral, SetStrategy, Unwind, Rescue, ClosePosition, NotClosed, Exists
  <2>2. CASE Exists' => Exists
    BY <1>4, <2>2 DEF StrategyIsSound
  <2>3. QED
    BY <1>1, <2>1, <2>2 DEF Exists
<1>5. QED
  BY <1>1, <1>2, <1>3, <1>4, OtherStepsKeepThePlan, ProtectCounts, GrowKeepsTheStrategy
     DEF PlanKept

\* Every position that exists has a strategy the program would accept today.
LEMMA StrategyStaysSound == Spec => []StrategyIsSound
<1>1. Init => StrategyIsSound
  BY DEF Init, NoPosition, StrategyIsSound, Exists
<1>2. QED
  BY <1>1, StepStrategy, TypeIsCorrect, PTL DEF Spec

------------------------------------------------------------------------------
(* Risk only rises to the target.                                          *)

\* With the prices unchanged the program and the next state value an obligation alike.
LEMMA LoanToValueNext ==
    ASSUME market' = market, NEW o, obl' = o
    PROVE  LoanToValue(obl)' = LoanToValue(o)
BY DEF LoanToValue, AdjustedDebt, DepositedValue, Stock, Usdc

\* A debt within what a limit allows is within the limit, also when nothing
\* the stock is worth is left to compare it with.
LEMMA AllowedIsWithin ==
    ASSUME TypeOK, NEW o \in ObligationType, NEW limit \in Nat,
           AdjustedDebt(o) <= ValueAllowedAtTarget(DepositedValue(o), limit)
    PROVE  IsWithin(o, limit)
<1>1. AdjustedDebt(o) \in Nat /\ DepositedValue(o) \in Nat
  BY ValuesFact
<1>2. LoanToValue(o) <= limit
  BY <1>1, AllowedIsAtTarget DEF LoanToValue
<1>3. ASSUME DepositedValue(o) = 0
      PROVE  AdjustedDebt(o) = 0
  <2>1. ValueAllowedAtTarget(0, limit) = 0
    BY DEF ValueAllowedAtTarget, Bps
  <2>2. QED
    BY <1>1, <1>3, <2>1
<1>4. QED
  BY <1>2, <1>3 DEF IsWithin

\* No debt is within any limit.
LEMMA ClearedIsWithin ==
    ASSUME TypeOK, NEW o \in ObligationType, NEW limit \in Nat, o.debt = 0
    PROVE  IsWithin(o, limit)
<1>1. Usdc \in TokenType /\ BorrowFactor \in Nat
  BY TokensFact, MarketAssumption
<1>2. UsdValue(Usdc, o.debt) = 0
  BY <1>1 DEF UsdValue, TokenType
<1>3. AdjustedDebt(o) = 0
  BY <1>1, <1>2 DEF AdjustedDebt, Weighted, Percent
<1>4. ValueAllowedAtTarget(DepositedValue(o), limit) \in Nat
  BY ValuesFact, RatesAreNat
<1>5. QED
  BY <1>3, <1>4, AllowedIsWithin

\* What the market lets stand is backed by stock that is worth something.
LEMMA AllowedIsBacked ==
    ASSUME TypeOK, NEW o \in ObligationType, MarketAllows(o), DepositedValue(o) = 0
    PROVE  AdjustedDebt(o) = 0
<1>1. MaxLtv \in Nat
  BY MarketAssumption
<1>2. IsWithin(o, MaxLtv)
  BY <1>1, AllowedIsWithin, ClearedIsWithin DEF MarketAllows
<1>3. QED
  BY <1>2 DEF IsWithin

LandsWhereItMay ==
    \/ IsWithin(obl, pos.strategy.target)'
    \/ Rescue /\ pos'.state = "Closing" /\ IsWithin(obl, MaxLtv)'

\* An obligation within a target is so in the next state, where that is the
\* target and that the obligation, but for whether the account exists.
LEMMA WithinIsWhereItMay ==
    ASSUME market' = market, NEW o, NEW limit, IsWithin(o, limit),
           obl'.dep = o.dep, obl'.debt = o.debt, pos'.strategy.target = limit
    PROVE  LandsWhereItMay
<1>1. LoanToValue(obl)' = LoanToValue(o)
  BY DEF LoanToValue, AdjustedDebt, DepositedValue, Stock, Usdc
<1>2. DepositedValue(obl)' = DepositedValue(o) /\ AdjustedDebt(obl)' = AdjustedDebt(o)
  BY DEF AdjustedDebt, DepositedValue, Stock, Usdc
<1>3. QED
  BY <1>1, <1>2 DEF IsWithin, LandsWhereItMay

\* A step that leaves no debt lands where it may.
LEMMA ClearedIsWhereItMay ==
    ASSUME TypeOK, TypeOK', market' = market, obl'.debt = 0
    PROVE  LandsWhereItMay
<1>1. obl' \in ObligationType /\ pos' \in PositionType
  BY DEF TypeOK, ObligationType
<1>2. pos'.strategy.target \in Nat
  BY <1>1 DEF PositionType, StrategyType
<1>3. IsWithin(obl', pos'.strategy.target)
  BY <1>1, <1>2, ClearedIsWithin
<1>4. QED
  BY <1>3, WithinIsWhereItMay

\* A deposit and a loan within the target land at the target.
LEMMA DepositAndBorrowLands ==
    ASSUME TypeOK, TypeOK', NEW p \in PositionType, NEW dep \in Nat, NEW borrow \in Nat,
           NEW later \in BOOLEAN, NEW leastOut \in Nat, market' = market,
           DepositAndBorrow(p, dep, borrow, later, leastOut), pos'.strategy = p.strategy
    PROVE  LandsWhereItMay
<1>1. /\ obl' = [exists |-> TRUE, dep |-> obl.dep + dep, debt |-> obl.debt + borrow]
      /\ WithinTarget([exists |-> TRUE, dep |-> obl.dep + dep, debt |-> obl.debt + borrow],
                      p.strategy.target)
  BY DEF DepositAndBorrow
<1>2. WithinTarget(obl', p.strategy.target)
  BY <1>1
<1>3. obl' \in ObligationType /\ p.strategy.target \in Nat
  BY PositionFieldsFact DEF TypeOK, ObligationType, StrategyType
<1>4. IsWithin(obl', p.strategy.target)
  BY <1>2, <1>3, AllowedIsWithin DEF WithinTarget
<1>5. QED
  BY <1>4, WithinIsWhereItMay

\* A rescue of an indebted position stops at the market's limit and hands back.
LEMMA RescueLands ==
    ASSUME TypeOK, TypeOK', Rescue, TakesRisk
    PROVE  LandsWhereItMay
<1> DEFINE o == RescuedObligation
<1>1. /\ market' = market
      /\ o.dep # obl.dep => MarketAllows(o)
      /\ obl' = IF o.dep # obl.dep THEN ClosedWhenEmpty(o) ELSE obl
  BY DEF Rescue
<1>2. /\ o \in ObligationType /\ o.debt = obl.debt /\ o.dep <= obl.dep
  BY RescuedFact
<1>3. /\ obl.dep \in Nat /\ obl.debt \in Nat /\ obl'.debt = obl.debt
  BY AccountsFact, RescueEffect
<1>4. CASE obl.debt = 0
  BY <1>1, <1>3, <1>4, ClearedIsWhereItMay
<1>5. CASE obl.debt # 0
  <2>1. pos'.state = "Closing"
    BY <1>3, <1>5, RescueEffect
  <2>2. o.dep # obl.dep
    BY <1>1, <1>3 DEF TakesRisk
  <2> HIDE DEF o
  <2>3. /\ obl' = ClosedWhenEmpty(o)
        /\ AdjustedDebt(o) <= ValueAllowedAtTarget(DepositedValue(o), MaxLtv)
    BY <1>1, <1>2, <1>5, <2>2 DEF MarketAllows
  <2>4. obl'.dep = o.dep /\ obl'.debt = o.debt
    BY <1>2, <2>3 DEF ClosedWhenEmpty, ObligationType
  <2>5. IsWithin(o, MaxLtv)
    BY <1>2, <2>3, AllowedIsWithin, MarketAssumption
  <2>6. LoanToValue(obl)' = LoanToValue(o)
    BY <1>1, <2>4 DEF LoanToValue, AdjustedDebt, DepositedValue, Stock, Usdc
  <2>7. DepositedValue(obl)' = DepositedValue(o) /\ AdjustedDebt(obl)' = AdjustedDebt(o)
    BY <1>1, <2>4 DEF AdjustedDebt, DepositedValue, Stock, Usdc
  <2>8. IsWithin(obl, MaxLtv)'
    BY <2>5, <2>6, <2>7 DEF IsWithin
  <2>9. QED
    BY <2>1, <2>8 DEF LandsWhereItMay
<1>6. QED
  BY <1>4, <1>5

\* What liquidators repay and what interest adds is seen in the tally, and
\* nothing else the market does touches the obligation.
LEMMA MarketTakesNoRisk ==
    ASSUME TypeOK, TypeOK', MarketSteps
    PROVE  ~TakesRisk
<1>1. obl.debt \in Nat /\ obl.dep \in Nat /\ tally \in [interest : Nat, liquidated : Nat]
  BY AccountsFact DEF TypeOK
<1>2. CASE InterestAccrues
  <2>1. tally'.interest = tally.interest + 1
    BY <1>1, <1>2 DEF InterestAccrues
  <2>2. QED
    BY <1>1, <2>1 DEF TakesRisk
<1>3. CASE Liquidation
  <2>1. PICK repaid \in {obl.debt, DivideRoundingUp(obl.debt, 2)} :
          tally' = [tally EXCEPT !.liquidated = @ + repaid]
    BY <1>3 DEF Liquidation
  <2>2. obl.debt > 0
    BY <1>3 DEF Liquidation
  <2>3. DivideRoundingUp(obl.debt, 2) \in Nat /\ obl.debt <= 2 * DivideRoundingUp(obl.debt, 2)
    BY <1>1, RoundingUpIsClose
  <2>4. repaid \in Nat /\ repaid > 0
    BY <1>1, <2>1, <2>2, <2>3
  <2>5. tally'.liquidated = tally.liquidated + repaid
    BY <1>1, <2>1
  <2>6. QED
    BY <1>1, <2>4, <2>5 DEF TakesRisk
<1>4. CASE \/ StockPriceMoves \/ DestinationPriceMoves \/ OracleFreshnessChanges
           \/ MarketFlags \/ TimePasses
  <2>1. obl' = obl
    BY <1>4 DEF StockPriceMoves, DestinationPriceMoves, OracleFreshnessChanges,
                MarketFlags, TimePasses
  <2>2. QED
    BY <1>1, <2>1 DEF TakesRisk
<1>5. QED
  BY <1>2, <1>3, <1>4 DEF MarketSteps

\* Whatever an owner's instruction lends or lets go, it lands where it may.
LEMMA OwnerRisk ==
    ASSUME TypeOK, TypeOK', OwnerSteps, TakesRisk
    PROVE  LandsWhereItMay
<1>1. /\ pos \in PositionType /\ obl \in ObligationType
      /\ obl.dep \in Nat /\ obl.debt \in Nat
  BY AccountsFact, PositionFieldsFact DEF TypeOK
<1>2. ASSUME obl'.debt <= obl.debt, obl.dep <= obl'.dep
      PROVE  FALSE
  BY <1>1, <1>2, AccountsFact DEF TakesRisk, TypeOK
<1>3. ASSUME NEW strategy \in Strategies, NEW dep \in StockAmounts, NEW borrow \in BorrowAmounts,
             NEW later \in BOOLEAN, OpenPosition(strategy, dep, borrow, later)
      PROVE  LandsWhereItMay
  <2> DEFINE p == [NoPosition EXCEPT !.state = "Open", !.strategy = strategy, !.fee = config.fee]
  <2>1. DepositAndBorrow(p, dep, borrow, later, 0) /\ market' = market
    BY <1>3 DEF OpenPosition
  <2>2. p \in PositionType
    BY NewPositionFact
  <2>3. p.strategy = strategy
    BY DEF NoPosition
  <2>4. dep \in Nat /\ borrow \in Nat
    BY ChoicesAssumption
  <2> HIDE DEF p
  <2>5. pos'.strategy = p.strategy
    BY <1>3, <2>3, OpenPlans
  <2>6. QED
    BY <2>1, <2>2, <2>4, <2>5, 0 \in Nat, DepositAndBorrowLands
<1>4. ASSUME NEW dep \in StockAmounts, NEW borrow \in BorrowAmounts, NEW later \in BOOLEAN,
             TopUp(dep, borrow, later)
      PROVE  LandsWhereItMay
  <2>1. DepositAndBorrow(pos, dep, borrow, later, 1) /\ market' = market
    BY <1>4 DEF TopUp
  <2>2. dep \in Nat /\ borrow \in Nat
    BY ChoicesAssumption
  <2>3. pos'.strategy = pos.strategy
    BY <1>1, <2>1, <2>2, 1 \in Nat, DepositAndBorrowKeepsThePlan
  <2>4. QED
    BY <1>1, <2>1, <2>2, <2>3, 1 \in Nat, DepositAndBorrowLands
<1>5. ASSUME NEW amount \in StockAmounts, AddCollateral(amount)
      PROVE  FALSE
  <2>1. amount \in Nat /\ obl' = [obl EXCEPT !.dep = @ + amount]
    BY <1>5, ChoicesAssumption DEF AddCollateral
  <2>2. obl'.debt = obl.debt /\ obl'.dep = obl.dep + amount
    BY <2>1, AccountsFact DEF ObligationType
  <2>3. QED
    BY <1>1, <1>2, <2>1, <2>2
<1>6. ASSUME NEW requested \in RepayAmounts, Repay(requested)
      PROVE  FALSE
  <2>1. PICK amount \in Nat : obl'.dep = obl.dep /\ obl'.debt = obl.debt - amount
    BY <1>6, RepayEffect
  <2>2. QED
    BY <1>1, <1>2, <2>1
<1>7. ASSUME NEW amount \in StockAmounts, WithdrawCollateral(amount)
      PROVE  LandsWhereItMay
  <2>1. /\ LandsAtTarget(obl') /\ MarketAllows(obl')
        /\ pos' = pos /\ market' = market
    BY <1>7 DEF WithdrawCollateral
  <2>2. obl' \in ObligationType
    BY DEF TypeOK, ObligationType
  <2>3. IsWithin(obl', pos.strategy.target)
    BY <2>1, <2>2, AllowedIsBacked DEF LandsAtTarget, IsWithin
  <2>4. QED
    BY <2>1, <2>3, WithinIsWhereItMay
<1>8. CASE Unwind
  <2>1. obl'.debt = 0 /\ market' = market
    BY <1>8, UnwindEffect DEF Unwind
  <2>2. QED
    BY <2>1, ClearedIsWhereItMay
<1>9. CASE Rescue
  BY <1>9, RescueLands
<1>10. CASE BuyDestination \/ (\E strategy \in Strategies : SetStrategy(strategy)) \/ ClosePosition
  <2>1. obl' = obl
    BY <1>10 DEF BuyDestination, SetStrategy, ClosePosition
  <2>2. QED
    BY <1>1, <1>2, <2>1
<1>11. QED
  BY <1>3, <1>4, <1>5, <1>6, <1>7, <1>8, <1>9, <1>10 DEF OwnerSteps

\* Whatever a guard step lends or lets go, it lands where it may.
LEMMA GuardRisk ==
    ASSUME TypeOK, TypeOK', GuardSteps, TakesRisk
    PROVE  LandsWhereItMay
<1>1. /\ pos \in PositionType /\ obl \in ObligationType
      /\ obl.dep \in Nat /\ obl.debt \in Nat
  BY AccountsFact, PositionFieldsFact DEF TypeOK
<1>2. ASSUME obl'.debt <= obl.debt, obl.dep <= obl'.dep
      PROVE  FALSE
  BY <1>1, <1>2, AccountsFact DEF TakesRisk, TypeOK
<1>3. ASSUME NEW by \in Callers, Protect(by)
      PROVE  FALSE
  <2>1. PICK repaying \in Nat : obl'.dep = obl.dep /\ obl'.debt = obl.debt - repaying
    BY <1>3, ProtectEffect
  <2>2. QED
    BY <1>1, <1>2, <2>1
<1>4. ASSUME NEW by \in Callers, Grow(by)
      PROVE  LandsWhereItMay
  <2>1. LandsAtTarget(obl') /\ MarketAllows(obl') /\ market' = market
    BY <1>4 DEF Grow
  <2>2. obl' \in ObligationType
    BY DEF TypeOK, ObligationType
  <2>3. pos'.strategy = pos.strategy
    BY <1>4, GrowKeepsTheStrategy
  <2>4. IsWithin(obl', pos.strategy.target)
    BY <2>1, <2>2, AllowedIsBacked DEF LandsAtTarget, IsWithin
  <2>5. QED
    BY <2>1, <2>3, <2>4, WithinIsWhereItMay
<1>5. ASSUME NEW by \in Callers, LeavePartWay(by)
      PROVE  FALSE
  <2>1. PICK cash \in Nat : obl'.dep = obl.dep /\ obl'.debt = obl.debt - cash
    BY <1>5, LeavePartWayEffect
  <2>2. QED
    BY <1>1, <1>2, <2>1
<1>6. ASSUME NEW by \in Callers, LeaveEntirely(by)
      PROVE  LandsWhereItMay
  <2>1. obl'.debt = 0 /\ market' = market
    BY <1>6, LeaveEntirelyEffect DEF LeaveEntirely
  <2>2. QED
    BY <2>1, ClearedIsWhereItMay
<1>7. QED
  BY <1>3, <1>4, <1>5, <1>6 DEF GuardSteps

\* A step that takes risk is an owner's or a guard's, and lands where it may.
LEMMA StepRisk ==
    ASSUME TypeOK, TypeOK', [Next]_vars, TakesRisk
    PROVE  LandsWhereItMay
<1>1. CASE AdminSteps \/ UNCHANGED vars
  <2>1. obl' = obl
    BY <1>1, AdminEffect DEF vars
  <2>2. QED
    BY <2>1, AccountsFact DEF TakesRisk
<1>2. QED
  BY <1>1, OwnerRisk, GuardRisk, MarketTakesNoRisk DEF Next

\* Every instruction that lends or lets stock go, an open included, ends within
\* the owner's target with stock behind the debt, whoever calls and whatever
\* liquidators left; rescue alone goes up to the market's limit, and hands back.
THEOREM RiskStopsAtTheTarget == Spec => RiskOnlyRisesToTheTarget
<1>1. TypeOK /\ TypeOK' /\ [Next]_vars =>
        [TakesRisk => \/ IsWithin(obl, pos.strategy.target)'
                      \/ Rescue /\ pos'.state = "Closing" /\ IsWithin(obl, MaxLtv)']_vars
  BY StepRisk DEF LandsWhereItMay
<1>2. QED
  BY <1>1, TypeIsCorrect, PTL DEF Spec, RiskOnlyRisesToTheTarget

------------------------------------------------------------------------------
(* The bounty is earned.                                                   *)

\* The loan covers what protect needs repaid, and the bounty it offers is no more
\* than its share of that, or than its cap.
LEMMA BountyIsSmall ==
    ASSUME TypeOK
    PROVE  /\ RepayNeeded <= obl.debt
           /\ BountyWanted <= BountyCap
           /\ BountyWanted * Bps <= BountyBps * RepayNeeded
<1> DEFINE repay == RepayToReachTarget(AdjustedDebt(obl), DepositedValue(obl),
                                       pos.strategy.target, BorrowFactor)
           share == RawWorthRoundingDown(Usdc, BountyOn(repay, BountyBps))
<1>1. /\ Usdc \in TokenType /\ BorrowFactor \in Nat \ {0} /\ obl.debt \in Nat
      /\ AdjustedDebt(obl) \in Nat /\ DepositedValue(obl) \in Nat
      /\ pos.strategy.target \in Nat /\ BountyBps \in Nat /\ BountyCap \in Nat
  BY TokensFact, MarketAssumption, AccountsFact, ValuesFact, PositionFieldsFact, LimitsFact
     DEF ObligationType, StrategyType
<1>2. RepayNeeded <= obl.debt
  BY <1>1, RepayIsOwed DEF RepayNeeded, AdjustedDebt
<1>3. repay \in Nat
  BY <1>1, SizesAreNat
<1>4. share \in Nat
  <2> HIDE DEF repay
  <2>1. BountyOn(repay, BountyBps) \in Nat
    BY <1>1, <1>3, RatesAreNat
  <2>2. QED
    BY <1>1, <2>1, ConversionsAreNat
<1>5. BountyWanted = Least(BountyCap, share) /\ RepayNeeded = RawWorthRoundingUp(Usdc, repay)
  BY DEF BountyWanted, RepayNeeded
<1>6. share * Bps <= BountyBps * RawWorthRoundingUp(Usdc, repay)
  <2> HIDE DEF repay
  <2> QED BY <1>1, <1>3, BountyIsAShare
<1> HIDE DEF repay, share
<1>7. BountyWanted \in Nat /\ BountyWanted <= BountyCap /\ BountyWanted <= share
  BY <1>1, <1>4, <1>5, LeastFact
<1>8. BountyWanted * Bps <= share * Bps
  BY <1>4, <1>7 DEF Bps
<1>9. /\ BountyWanted * Bps \in Nat /\ share * Bps \in Nat
      /\ BountyBps * RawWorthRoundingUp(Usdc, repay) \in Nat
  BY <1>1, <1>3, <1>4, <1>7, ConversionsAreNat, ProductIsNat, DenominatorsArePositive
<1>10. QED
  BY <1>2, <1>5, <1>6, <1>7, <1>8, <1>9

\* Only protect pays its callers.
LEMMA OnlyProtectPaysCallers ==
    ASSUME TypeOK, [Next]_vars, paid'.callers > paid.callers
    PROVE  \E by \in Callers : Protect(by)
<1>1. paid.treasury \in Nat /\ paid.callers \in Nat /\ paid \in [treasury : Nat, callers : Nat]
  BY DEF TypeOK
<1>2. ASSUME NEW strategy, NEW dep, NEW borrow, NEW later,
             OpenPosition(strategy, dep, borrow, later)
      PROVE  FALSE
  <2>1. paid'.callers = 0
    BY <1>2 DEF OpenPosition
  <2>2. QED
    BY <1>1, <2>1
<1>3. CASE Unwind
  <2>1. PICK fee : paid' = [paid EXCEPT !.treasury = @ + fee]
    BY <1>3 DEF Unwind
  <2>2. paid'.callers = paid.callers
    BY <1>1, <2>1
  <2>3. QED
    BY <1>1, <2>2
<1>4. ASSUME paid' = paid PROVE FALSE
  BY <1>1, <1>4
<1>5. CASE OwnerSteps
  BY <1>2, <1>3, <1>4, <1>5 DEF OwnerSteps, BuyDestination, TopUp, AddCollateral, Repay,
     WithdrawCollateral, SetStrategy, Rescue, ClosePosition
<1>6. CASE GuardSteps
  BY <1>4, <1>6 DEF GuardSteps, Grow, LeavePartWay, LeaveEntirely
<1>7. CASE AdminSteps
  BY <1>4, <1>7 DEF AdminSteps, SetPaused, SetSunset, UpdateConfig
<1>8. CASE MarketSteps
  BY <1>4, <1>8 DEF MarketSteps, StockPriceMoves, DestinationPriceMoves,
     OracleFreshnessChanges, MarketFlags, TimePasses, InterestAccrues, Liquidation
<1>9. QED
  BY <1>4, <1>5, <1>6, <1>7, <1>8 DEF Next, vars

\* What a protection pays its caller is a share of what it repays: where the sale
\* brings less than is needed, all of it repays and nothing is paid.
LEMMA ProtectPays ==
    ASSUME TypeOK, NEW by \in Callers, Protect(by)
    PROVE  /\ (paid'.callers - paid.callers) * Bps <= BountyBps * (pos'.repaid - pos.repaid)
           /\ paid'.callers - paid.callers <= BountyCap
           /\ held'.usdc >= held.usdc
<1>1. PICK s \in Swaps(Destination, DestinationToSell, Usdc,
                       SwapMinimum(by, Destination, DestinationToSell, Usdc)) :
        /\ held' = [held EXCEPT
              !.usdc = @ + s.got - Repaying(s.got) - Least(BountyWanted, s.got - Repaying(s.got)),
              !.dest = @ - s.spent]
        /\ paid' = [paid EXCEPT !.callers = @ + Least(BountyWanted, s.got - Repaying(s.got))]
        /\ pos' = [RecordRepay(RecordSale(pos, s.got), Repaying(s.got))
                     EXCEPT !.lastProtect = now, !.protects = @ + 1]
  BY DEF Protect
<1>2. s.got \in Nat
  BY TokensFact, GuardSizesFact, SwapMinimumIsNat, SwapFact
<1> DEFINE repaying == Repaying(s.got)
           bounty == Least(BountyWanted, s.got - repaying)
<1>3. /\ RepayNeeded \in Nat /\ BountyWanted \in Nat /\ obl.debt \in Nat
      /\ RepayNeeded <= obl.debt
      /\ BountyBps \in Nat /\ BountyCap \in Nat
  BY GuardSizesFact, AccountsFact, BountyIsSmall, LimitsFact
<1>4. /\ repaying \in Nat /\ repaying <= s.got
      /\ repaying = RepayNeeded \/ repaying = s.got
  BY <1>2, <1>3 DEF Repaying, Least
<1> HIDE DEF repaying
<1>5. /\ bounty \in Nat /\ bounty <= BountyWanted /\ bounty <= s.got - repaying
  <2>1. s.got - repaying \in Nat
    BY <1>2, <1>4
  <2>2. QED
    BY <1>3, <2>1, LeastFact
<1>6. paid'.callers - paid.callers = bounty
  <2>1. paid'.callers = paid.callers + bounty
    BY <1>1 DEF TypeOK, repaying
  <2> HIDE DEF bounty
  <2>2. QED
    BY <1>5, <2>1 DEF TypeOK
<1>7. held'.usdc >= held.usdc
  <2>1. held'.usdc = held.usdc + s.got - repaying - bounty
    BY <1>1, AccountsFact DEF HeldType, repaying
  <2> HIDE DEF bounty
  <2>2. held.usdc \in Nat
    BY AccountsFact
  <2>3. QED
    BY <1>2, <1>4, <1>5, <2>1, <2>2
<1>8. pos'.repaid - pos.repaid = repaying
  <2> DEFINE q == RecordRepay(RecordSale(pos, s.got), repaying)
  <2>1. q \in PositionType /\ q.repaid = pos.repaid + repaying /\ pos.repaid \in Nat
    <3>1. pos \in PositionType
      BY AccountsFact
    <3>2. q \in PositionType /\ q.repaid = pos.repaid + repaying
      BY <1>2, <1>4, <3>1, SaleAndRepayEffects
    <3>3. pos.repaid \in Nat
      BY <3>1, PositionFieldsFact
    <3>4. QED
      BY <3>2, <3>3
  <2>2. pos' = [q EXCEPT !.lastProtect = now, !.protects = @ + 1]
    BY <1>1 DEF repaying
  <2> HIDE DEF q
  <2>3. pos'.repaid = q.repaid
    BY <2>1, <2>2 DEF PositionType
  <2>4. QED
    BY <1>4, <2>1, <2>3
<1> HIDE DEF bounty
<1>9. bounty * Bps <= BountyBps * repaying
  <2>1. CASE repaying = RepayNeeded
    <3>1. bounty * Bps <= BountyWanted * Bps
      BY <1>3, <1>5 DEF Bps
    <3>2. /\ bounty * Bps \in Nat /\ BountyWanted * Bps \in Nat
          /\ BountyBps * RepayNeeded \in Nat
      BY <1>3, <1>5, ProductIsNat, DenominatorsArePositive
    <3>3. QED
      BY <2>1, <3>1, <3>2, BountyIsSmall
  <2>2. CASE repaying = s.got
    <3>1. bounty = 0
      BY <1>2, <1>5, <2>2
    <3>2. BountyBps * repaying \in Nat
      BY <1>3, <1>4, ProductIsNat
    <3>3. QED
      BY <3>1, <3>2 DEF Bps
  <2>3. QED
    BY <1>4, <2>1, <2>2
<1>10. bounty <= BountyCap
  BY <1>3, <1>5, BountyIsSmall
<1>11. QED
  BY <1>6, <1>7, <1>8, <1>9, <1>10

\* protect pays a caller out of the sale, at most the configured share of what it
\* repaid and at most the cap; nothing else pays anyone.
THEOREM CallersEarnTheirBounty == Spec => BountyIsEarned
<1>1. TypeOK /\ [Next]_vars =>
        [paid'.callers > paid.callers =>
           /\ (paid'.callers - paid.callers) * Bps <= BountyBps * (pos'.repaid - pos.repaid)
           /\ paid'.callers - paid.callers <= BountyCap
           /\ held'.usdc >= held.usdc]_vars
  BY OnlyProtectPaysCallers, ProtectPays
<1>2. QED
  BY <1>1, TypeIsCorrect, PTL DEF Spec, BountyIsEarned

------------------------------------------------------------------------------
(* Rescue takes out all there is.                                          *)

\* While there is a debt, one more unit than rescue takes is past the market's limit.
LEMMA NothingMoreComesOut ==
    ASSUME TypeOK, StrategyIsSound, Exists, RescuedObligation.dep > 0, DepositedValue(obl) > 0
    PROVE  ~MarketAllows([RescuedObligation EXCEPT !.dep = Monus(@, OneMore)])
<1> DEFINE out == Withdrawable(obl.dep, obl.debt, AdjustedDebt(obl), DepositedValue(obl), MaxLtv)
           left == RescuedObligation.dep
           o == [RescuedObligation EXCEPT !.dep = Monus(@, OneMore)]
<1>1. /\ obl \in ObligationType /\ RescuedObligation \in ObligationType
      /\ obl.dep \in Nat /\ obl.debt \in Nat
      /\ RescuedObligation.debt = obl.debt
      /\ obl.debt = 0 => left = 0
  BY AccountsFact, RescuedFact
<1>2. left \in Nat \ {0} /\ obl.debt \in Nat \ {0}
  BY <1>1 DEF ObligationType
<1>3. left = obl.dep - out
  BY <1>1 DEF RescuedObligation, ObligationType
<1>4. o.dep = Monus(left, OneMore) /\ o.debt = obl.debt
  BY <1>1 DEF ObligationType
<1>5. MaxLtv \in Nat \ {0}
  <2>1. pos.strategy.target > 0 /\ pos.strategy.target <= MaxLtv
    BY DEF StrategyIsSound, StrategyIsValid
  <2>2. pos.strategy.target \in Nat /\ MaxLtv \in Nat
    BY AccountsFact, PositionFieldsFact, MarketAssumption DEF StrategyType
  <2>3. QED
    BY <2>1, <2>2
<1>6. Stock \in TokenType /\ AdjustedDebt(obl) \in Nat
  BY <1>1, TokensFact, ValuesFact
<1>7. /\ OneMore = IF (obl.dep * Stock.price) % Stock.unit = 0 THEN 1
                   ELSE 1 + RawWorthRoundingUp(Stock, 1)
      /\ OneMore \in Nat
  <2>1. Stock.price = market.stockPrice /\ Stock.unit = StockUnit
    BY DEF Stock
  <2>2. RawWorthRoundingUp(Stock, 1) \in Nat
    BY <1>6, ConversionsAreNat
  <2>3. QED
    BY <2>1, <2>2 DEF OneMore
<1>8. UsdValue(Stock, obl.dep) > 0
  BY DEF DepositedValue
<1>9. left = obl.dep - Withdrawable(obl.dep, obl.debt, AdjustedDebt(obl), UsdValue(Stock, obl.dep), MaxLtv)
  BY <1>3 DEF DepositedValue
<1> HIDE DEF left, out
<1>10. ValueAllowedAtTarget(UsdValue(Stock, Monus(left, OneMore)), MaxLtv) < AdjustedDebt(obl)
  BY <1>1, <1>2, <1>5, <1>6, <1>7, <1>8, <1>9, ReleaseIsAllThereIs
<1> HIDE DEF o
<1>11. AdjustedDebt(o) = AdjustedDebt(obl)
       /\ DepositedValue(o) = UsdValue(Stock, Monus(left, OneMore))
  BY <1>4 DEF AdjustedDebt, DepositedValue
<1>12. ValueAllowedAtTarget(UsdValue(Stock, Monus(left, OneMore)), MaxLtv) \in Nat
  <2>1. UsdValue(Stock, Monus(left, OneMore)) \in Nat
    BY <1>2, <1>6, <1>7, MonusFact, ConversionsAreNat
  <2>2. QED
    BY <1>5, <2>1, RatesAreNat
<1>13. ~MarketAllows(o)
  BY <1>2, <1>4, <1>6, <1>10, <1>11, <1>12 DEF MarketAllows
<1>14. QED
  BY <1>13 DEF o

\* rescue leaves nothing in the obligation that the market would have let out, but for
\* what the rounding of the stock's worth may hide.
THEOREM RescueLeavesNothingItCouldTake == Spec => []RescueTakesAllItMay
<1>1. TypeOK /\ StrategyIsSound => RescueTakesAllItMay
  BY NothingMoreComesOut DEF RescueTakesAllItMay
<1>2. QED
  BY <1>1, TypeIsCorrect, StrategyStaysSound, PTL

------------------------------------------------------------------------------
(* A fill within the slippage lands.                                       *)

\* A position at its guard level is past its target.
LEMMA ProtectIsPastTheTarget ==
    ASSUME TypeOK, StrategyIsSound, Exists, LoanToValue(obl) >= pos.strategy.protect
    PROVE  LoanToValue(obl) > pos.strategy.target
<1>1. pos.strategy.target + MinGuardRoom <= pos.strategy.protect
  BY DEF StrategyIsSound, StrategyIsValid
<1>2. pos.strategy.target \in Nat /\ pos.strategy.protect \in Nat
  BY AccountsFact, PositionFieldsFact DEF StrategyType
<1>3. LoanToValue(obl) \in Nat
  BY AccountsFact, ValuesFact, LoanToValueIsNat DEF LoanToValue
<1>4. QED
  BY <1>1, <1>2, <1>3 DEF MinGuardRoom

\* Past the target there is something to repay.
LEMMA PastTheTargetSomethingIsOwed ==
    ASSUME TypeOK, LoanToValue(obl) > pos.strategy.target
    PROVE  /\ ValueAllowedAtTarget(DepositedValue(obl), pos.strategy.target) < AdjustedDebt(obl)
           /\ RepayNeeded > 0
<1> DEFINE allowed == ValueAllowedAtTarget(DepositedValue(obl), pos.strategy.target)
           repay == RepayToReachTarget(AdjustedDebt(obl), DepositedValue(obl),
                                       pos.strategy.target, BorrowFactor)
<1>1. /\ AdjustedDebt(obl) \in Nat /\ DepositedValue(obl) \in Nat
      /\ pos.strategy.target \in Nat /\ BorrowFactor \in Nat \ {0} /\ Usdc \in TokenType
  BY AccountsFact, ValuesFact, PositionFieldsFact, MarketAssumption, TokensFact DEF StrategyType
<1>2. allowed < AdjustedDebt(obl)
  BY <1>1, PastTheTargetIsNotAllowed DEF LoanToValue
<1>3. repay \in Nat /\ allowed \in Nat
  BY <1>1, SizesAreNat, RatesAreNat
<1>4. AdjustedDebt(obl) <= allowed + Weighted(repay, BorrowFactor)
  BY <1>1, RepayReachesTheTarget
<1>5. RepayNeeded = DivideRoundingUp(repay * UsdcUnit, UsdcPrice)
  BY DEF RepayNeeded, RawWorthRoundingUp, Usdc
<1> HIDE DEF allowed, repay
<1>6. repay # 0
  <2>1. SUFFICES ASSUME repay = 0 PROVE FALSE
    OBVIOUS
  <2>2. Weighted(repay, BorrowFactor) = 0
    BY <1>1, <2>1 DEF Weighted, Percent
  <2>3. QED
    BY <1>1, <1>2, <1>3, <1>4, <2>2
<1>7. UsdcUnit \in Nat \ {0} /\ UsdcPrice \in Nat \ {0}
  BY MarketAssumption
<1>8. repay * UsdcUnit \in Nat /\ repay * UsdcUnit > 0
  <2>1. UsdcUnit * 0 < UsdcUnit * repay
    BY <1>3, <1>6, <1>7, ProductStrict
  <2>2. UsdcUnit * 0 = 0 /\ UsdcUnit * repay = repay * UsdcUnit
    BY <1>3, <1>7
  <2>3. QED
    BY <1>3, <1>7, <2>1, <2>2, ProductIsNat
<1>9. RepayNeeded > 0
  <2>1. RepayNeeded \in Nat /\ repay * UsdcUnit <= UsdcPrice * RepayNeeded
    BY <1>5, <1>7, <1>8, RoundingUpIsClose
  <2>2. SUFFICES ASSUME RepayNeeded = 0 PROVE FALSE
    BY <2>1
  <2>3. UsdcPrice * RepayNeeded = 0
    BY <1>7, <2>2
  <2>4. QED
    BY <1>8, <2>1, <2>3
<1>10. QED
  BY <1>2, <1>9 DEF allowed

\* What the roundings lose is a natural number.
LEMMA LossesAreNat ==
    UsdcLostToRounding \in Nat /\ DebtLostToRounding \in Nat
<1>1. UsdcUnit \in Nat \ {0} /\ UsdcPrice \in Nat \ {0} /\ BorrowFactor \in Nat \ {0}
  BY MarketAssumption
<1>2. UsdcLostToRounding \in Nat
  <2>1. 1 * UsdcUnit \in Nat
    BY <1>1
  <2>2. DivideRoundingUp(1 * UsdcUnit, UsdcPrice) \in Nat
    BY <1>1, <2>1, RoundingUpIsNat
  <2>3. QED
    BY <2>2 DEF UsdcLostToRounding, RawWorthRoundingUp, Usdc
<1> DEFINE value == DivideRoundingUp(UsdcLostToRounding * UsdcPrice, UsdcUnit)
<1>3. value \in Nat
  BY <1>1, <1>2, ProductIsNat, RoundingUpIsNat
<1>4. DebtLostToRounding = DivideRoundingUp(value * BorrowFactor, Percent)
  BY DEF DebtLostToRounding
<1> HIDE DEF value
<1>5. QED
  BY <1>1, <1>2, <1>3, <1>4, ProductIsNat, RoundingUpIsNat, DenominatorsArePositive

\* Where not all of the holding is offered, the sale brings at least what is to be
\* repaid, but for what the conversions lose.
LEMMA SaleBringsTheRepayment ==
    ASSUME TypeOK, DestinationToSell # held.dest,
           NEW s \in Swaps(Destination, DestinationToSell, Usdc,
                           SwapMinimum("anyone", Destination, DestinationToSell, Usdc))
    PROVE  RepayNeeded <= s.got + UsdcLostToRounding
<1> DEFINE need == RepayNeeded + BountyWanted
           minimum == MinimumOutput(Destination, DestinationToSell, Usdc, SlippageBps)
<1>1. /\ RepayNeeded \in Nat /\ BountyWanted \in Nat /\ DestinationToSell \in Nat
      /\ held.dest \in Nat /\ SlippageBps \in 0..500
      /\ Destination \in TokenType /\ Usdc \in TokenType
  BY GuardSizesFact, AccountsFact, LimitsFact, TokensFact
<1>2. DestinationToSell = AddTheSlippageBuffer(
                            RawWorthRoundingUp(Destination, UsdValue(Usdc, need)), SlippageBps)
  BY DEF DestinationToSell, Least
<1>3. s.got \in Nat /\ s.got >= minimum
  <2>1. SwapMinimum("anyone", Destination, DestinationToSell, Usdc) = minimum
    BY DEF SwapMinimum
  <2>2. SwapMinimum("anyone", Destination, DestinationToSell, Usdc) \in Nat
    BY <1>1, SwapMinimumIsNat
  <2> HIDE DEF minimum
  <2>3. QED
    BY <1>1, <2>1, <2>2, SwapFact
<1>4. need \in Nat /\ RepayNeeded <= need
  BY <1>1
<1> HIDE DEF need
<1>5. need <= minimum + 2 + 2 * RawWorthRoundingUp(Usdc, 1)
  BY <1>1, <1>2, <1>4, SaleCoversTheNeed
<1>6. minimum \in Nat /\ RawWorthRoundingUp(Usdc, 1) \in Nat
  BY ZenonT(60), <1>1, MinimumOutputIsNat, ConversionsAreNat
<1> HIDE DEF minimum
<1>7. QED
  BY <1>1, <1>3, <1>4, <1>5, <1>6 DEF UsdcLostToRounding

\* Such a repayment lands the position at its target.
LEMMA FillLands ==
    ASSUME TypeOK, RoundingIsBelowABasisPoint, NEW got \in Nat,
           RepayNeeded <= got + UsdcLostToRounding
    PROVE  LandsAtTarget([obl EXCEPT !.debt = @ - Repaying(got)])
<1> DEFINE repaid == Repaying(got)
           o == [obl EXCEPT !.debt = @ - repaid]
           target == pos.strategy.target
           needed == RawWorthRoundingUp(Usdc, RepayToReachTarget(
                         Weighted(UsdValue(Usdc, obl.debt), BorrowFactor),
                         DepositedValue(obl), target, BorrowFactor))
           lost == DivideRoundingUp(
                     DivideRoundingUp(UsdcLostToRounding * Usdc.price, Usdc.unit) * BorrowFactor,
                     Percent)
<1>1. /\ RepayNeeded \in Nat /\ obl.debt \in Nat /\ RepayNeeded <= obl.debt
      /\ obl \in ObligationType /\ DepositedValue(obl) \in Nat /\ target \in Nat
      /\ BorrowFactor \in Nat \ {0} /\ Usdc \in TokenType
      /\ UsdcLostToRounding \in Nat /\ DebtLostToRounding \in Nat
  BY GuardSizesFact, AccountsFact, BountyIsSmall, ValuesFact, PositionFieldsFact,
     MarketAssumption, TokensFact, LossesAreNat DEF StrategyType
<1>2. needed = RepayNeeded
  BY DEF RepayNeeded, AdjustedDebt
<1>3. lost = DebtLostToRounding
  BY DEF DebtLostToRounding, Usdc
<1>4. /\ repaid \in Nat /\ repaid <= obl.debt
      /\ RepayNeeded <= repaid + UsdcLostToRounding
  BY <1>1 DEF Repaying, Least
<1>5. o \in ObligationType /\ o.debt = obl.debt - repaid /\ o.dep = obl.dep
  BY <1>1, <1>4 DEF ObligationType
<1> HIDE DEF repaid, o, target, needed, lost
<1>6. Weighted(UsdValue(Usdc, obl.debt - repaid), BorrowFactor)
        <= ValueAllowedAtTarget(DepositedValue(obl), target) + lost
  BY <1>1, <1>2, <1>4, ShortRepayNearlyReaches DEF needed, lost
<1>7. AdjustedDebt(o) = Weighted(UsdValue(Usdc, obl.debt - repaid), BorrowFactor)
      /\ DepositedValue(o) = DepositedValue(obl)
  BY <1>5 DEF AdjustedDebt, DepositedValue
<1>8. AdjustedDebt(o) \in Nat
  BY <1>5, ValuesFact
<1>9. AdjustedDebt(o) <= ValueAllowedAtTarget(DepositedValue(obl), target) + DebtLostToRounding
  BY <1>3, <1>6, <1>7
<1>10. LoanToValueBps(AdjustedDebt(o), DepositedValue(obl)) <= target
  BY <1>1, <1>8, <1>9, NearlyAllowedIsAtTarget DEF RoundingIsBelowABasisPoint
<1>11. LandsAtTarget(o)
  BY <1>7, <1>10 DEF LandsAtTarget, LoanToValue, target
<1>12. QED
  BY <1>11 DEF o, repaid

\* protect sells enough: whatever the router pays above the oracle's minimum reaches the
\* target, unless the whole holding was sold.
THEOREM FillsWithinTheSlippageLand == Spec => []AnyFillReachesTheTarget
<1>1. ASSUME TypeOK, StrategyIsSound, ProtectIsCalledFor, RoundingIsBelowABasisPoint,
             NEW s \in Swaps(Destination, DestinationToSell, Usdc,
                             SwapMinimum("anyone", Destination, DestinationToSell, Usdc)),
             s.spent = DestinationToSell, s.got > 0
      PROVE  FillReachesTheTarget(s)
  <2>1. RepayNeeded > 0
    BY <1>1, ProtectIsPastTheTarget, PastTheTargetSomethingIsOwed DEF ProtectIsCalledFor, Exists
  <2>2. s.got \in Nat
    BY <1>1, TokensFact, GuardSizesFact, SwapMinimumIsNat, SwapFact
  <2>3. /\ RepayNeeded \in Nat /\ RepayNeeded <= obl.debt /\ obl.debt \in Nat
    BY <1>1, GuardSizesFact, BountyIsSmall, AccountsFact
  <2>4. Repaying(s.got) > 0
    BY <1>1, <2>1, <2>2, <2>3 DEF Repaying, Least
  <2>5. CASE DestinationToSell = held.dest
    BY <1>1, <2>4, <2>5 DEF FillReachesTheTarget
  <2>6. CASE DestinationToSell # held.dest
    <3>1. RepayNeeded <= s.got + UsdcLostToRounding
      BY <1>1, <2>6, SaleBringsTheRepayment
    <3>2. QED
      BY <1>1, <2>2, <2>4, <3>1, FillLands DEF FillReachesTheTarget
  <2>7. QED
    BY <2>5, <2>6
<1>2. TypeOK /\ StrategyIsSound => AnyFillReachesTheTarget
  BY <1>1 DEF AnyFillReachesTheTarget
<1>3. QED
  BY <1>2, TypeIsCorrect, StrategyStaysSound, PTL

------------------------------------------------------------------------------
(* A guard step settles the position.                                      *)

\* Only protect and grow count a guard step.
LEMMA OnlyTheGuardCounts ==
    ASSUME TypeOK, [Next]_vars, pos'.protects > pos.protects \/ pos'.grows > pos.grows
    PROVE  \E by \in Callers : Protect(by) \/ Grow(by)
<1>1. pos \in PositionType /\ pos.protects \in Nat /\ pos.grows \in Nat
  BY AccountsFact, PositionFieldsFact
<1>2. ~PlanKept
  BY <1>1 DEF PlanKept
<1>3. ASSUME NEW strategy \in Strategies, NEW dep \in StockAmounts, NEW borrow \in BorrowAmounts,
             NEW later \in BOOLEAN, OpenPosition(strategy, dep, borrow, later)
      PROVE  FALSE
  <2>1. pos'.protects = 0 /\ pos'.grows = 0
    BY <1>3, OpenPlans
  <2>2. QED
    BY <1>1, <2>1
<1>4. ASSUME NEW strategy \in Strategies, SetStrategy(strategy) PROVE FALSE
  <2>1. pos' = [pos EXCEPT !.strategy = strategy]
    BY <1>4 DEF SetStrategy
  <2>2. pos'.protects = pos.protects /\ pos'.grows = pos.grows
    BY <1>1, <2>1 DEF PositionType
  <2>3. QED
    BY <1>1, <2>2
<1>5. ~ClosePosition
  BY <1>1 DEF ClosePosition, NoPosition
<1>6. QED
  BY <1>2, <1>3, <1>4, <1>5, OtherStepsKeepThePlan

\* Where the prices and the collateral hold, the next state values the position as this
\* one values its new debt.
LEMMA ValuesNext ==
    ASSUME TypeOK, market' = market, pos'.strategy = pos.strategy, obl'.dep = obl.dep,
           NEW debt, obl'.debt = debt
    PROVE  RoomToTarget' = RawWorthRoundingDown(Usdc, BorrowToReachTarget(
                             Weighted(UsdValue(Usdc, debt), BorrowFactor),
                             DepositedValue(obl), pos.strategy.target, BorrowFactor))
<1>1. DepositedValue(obl)' = DepositedValue(obl)
  BY DEF DepositedValue, Stock
<1>2. AdjustedDebt(obl)' = Weighted(UsdValue(Usdc, debt), BorrowFactor)
  BY DEF AdjustedDebt, Usdc
<1>3. QED
  BY <1>1, <1>2 DEF RoomToTarget, Usdc

\* A room worth no more than the roundings is no more raw USDC than they are.
LEMMA RoomIsRounding ==
    ASSUME NEW room \in Nat,
           room <= DivideRoundingUp(UsdcPrice, UsdcUnit) + DivideRoundingUp(Percent, BorrowFactor)
    PROVE  RawWorthRoundingDown(Usdc, room) <= RoomLeftByRounding
<1> DEFINE most == DivideRoundingUp(UsdcPrice, UsdcUnit) + DivideRoundingUp(Percent, BorrowFactor)
<1>1. /\ UsdcPrice \in Nat \ {0} /\ UsdcUnit \in Nat \ {0} /\ BorrowFactor \in Nat \ {0}
      /\ Percent \in Nat
  BY MarketAssumption, DenominatorsArePositive
<1>2. Usdc \in TokenType
  BY <1>1 DEF Usdc, TokenType
<1>3. DivideRoundingUp(UsdcPrice, UsdcUnit) \in Nat /\ DivideRoundingUp(Percent, BorrowFactor) \in Nat
  BY <1>1, RoundingUpIsNat
<1>4. most \in Nat /\ room <= most /\ RoomLeftByRounding = RawWorthRoundingDown(Usdc, most)
  BY <1>3 DEF RoomLeftByRounding
<1> HIDE DEF most
<1>5. QED
  BY <1>2, <1>4, 0 \in Nat, ValuesAreMonotone

\* In any state the risk is a number and what protect would sell is held.
LEMMA RiskAndSaleFact ==
    TypeOK => LoanToValue(obl) \in Nat /\ DestinationToSell \in Nat
              /\ DestinationToSell <= held.dest
<1>1. ASSUME TypeOK PROVE LoanToValue(obl) \in Nat
  BY <1>1, AccountsFact, ValuesFact, LoanToValueIsNat DEF LoanToValue
<1>2. QED
  BY <1>1, GuardSizesFact

\* A position at its target is not one protect is called for.
LEMMA AtTargetIsNotCalledFor ==
    ASSUME TypeOK, TypeOK', StrategyIsSound, Exists, pos'.strategy = pos.strategy,
           LoanToValue(obl)' <= pos.strategy.target
    PROVE  ~ProtectIsCalledFor'
<1>1. pos.strategy.target + MinGuardRoom <= pos.strategy.protect
  BY DEF StrategyIsSound, StrategyIsValid
<1>2. pos.strategy.target \in Nat /\ pos.strategy.protect \in Nat
  BY AccountsFact, PositionFieldsFact DEF StrategyType
<1>3. TypeOK' => (LoanToValue(obl) \in Nat)'
  BY RiskAndSaleFact, PTL
<1>4. pos.strategy.target < pos.strategy.protect
  BY <1>1, <1>2 DEF MinGuardRoom
<1>5. ~(LoanToValue(obl)' >= pos'.strategy.protect)
  BY <1>2, <1>3, <1>4
<1>6. QED
  BY <1>5 DEF ProtectIsCalledFor

\* A protection lands at the target or sells all there is, and leaves no more room than
\* its roundings.
LEMMA ProtectSettles ==
    ASSUME TypeOK, TypeOK', StrategyIsSound, NEW by \in Callers, Protect(by)
    PROVE  ~ProtectIsCalledFor' /\ RoomToTarget' <= RoomLeftByRounding
<1>1. PICK s \in Swaps(Destination, DestinationToSell, Usdc,
                       SwapMinimum(by, Destination, DestinationToSell, Usdc)) :
        /\ LandsAtTarget(obl') \/ held.dest = s.spent
        /\ obl' = [obl EXCEPT !.debt = @ - Repaying(s.got)]
        /\ held'.dest = held.dest - s.spent
  <2>1. PICK s \in Swaps(Destination, DestinationToSell, Usdc,
                         SwapMinimum(by, Destination, DestinationToSell, Usdc)) :
          /\ LandsAtTarget(obl') \/ held.dest = s.spent
          /\ obl' = [obl EXCEPT !.debt = @ - Repaying(s.got)]
          /\ held' = [held EXCEPT
                !.usdc = @ + s.got - Repaying(s.got) - Least(BountyWanted, s.got - Repaying(s.got)),
                !.dest = @ - s.spent]
    BY ZenonT(60) DEF Protect
  <2>2. held'.dest = held.dest - s.spent
    BY <2>1, AccountsFact DEF HeldType
  <2>3. QED
    BY <2>1, <2>2
<1>2. /\ market' = market /\ Exists
      /\ LoanToValue(obl) >= pos.strategy.protect
      /\ pos'.strategy = pos.strategy
  <2>1. /\ market' = market /\ pos.state = "Open"
        /\ LoanToValue(obl) >= pos.strategy.protect
    BY DEF Protect
  <2>2. QED
    BY <2>1, ProtectCounts DEF Exists
<1>3. /\ s.got \in Nat /\ s.spent \in Nat
      /\ RepayNeeded \in Nat /\ obl.debt \in Nat /\ obl \in ObligationType /\ held.dest \in Nat
      /\ BorrowFactor \in Nat \ {0} /\ Usdc \in TokenType
      /\ DepositedValue(obl) \in Nat /\ pos.strategy.target \in Nat
  BY TokensFact, GuardSizesFact, SwapMinimumIsNat, SwapFact, AccountsFact, MarketAssumption,
     ValuesFact, PositionFieldsFact DEF StrategyType
<1> DEFINE repaid == Repaying(s.got)
<1>4. repaid \in Nat /\ repaid <= obl.debt /\ repaid <= RepayNeeded
  BY <1>3 DEF Repaying, Least
<1>5. obl'.dep = obl.dep /\ obl'.debt = obl.debt - repaid
  BY <1>1, <1>3 DEF ObligationType
<1>6. ~ProtectIsCalledFor'
  <2>1. CASE LandsAtTarget(obl')
    <3>1. LoanToValue(obl)' = LoanToValue(obl')
      BY <1>2, LoanToValueNext
    <3>2. LoanToValue(obl)' <= pos.strategy.target
      BY <2>1, <3>1 DEF LandsAtTarget
    <3>3. QED
      BY <1>2, <3>2, AtTargetIsNotCalledFor
  <2>2. CASE held.dest = s.spent
    <3>1. held'.dest = 0
      BY <1>1, <1>3, <2>2
    <3>2. TypeOK' => (DestinationToSell \in Nat /\ DestinationToSell <= held.dest)'
      BY RiskAndSaleFact, PTL
    <3>3. ~(DestinationToSell' > 0)
      BY <3>1, <3>2
    <3>4. QED
      BY <3>3 DEF ProtectIsCalledFor
  <2>3. QED
    BY <1>1, <2>1, <2>2
<1> HIDE DEF repaid
<1> DEFINE room == BorrowToReachTarget(Weighted(UsdValue(Usdc, obl.debt - repaid), BorrowFactor),
                                       DepositedValue(obl), pos.strategy.target, BorrowFactor)
<1>7. RoomToTarget' = RawWorthRoundingDown(Usdc, room)
  BY <1>2, <1>5, ValuesNext
<1>8. ValueAllowedAtTarget(DepositedValue(obl), pos.strategy.target)
        <= Weighted(UsdValue(Usdc, obl.debt), BorrowFactor)
  <2>1. ValueAllowedAtTarget(DepositedValue(obl), pos.strategy.target) < AdjustedDebt(obl)
    BY <1>2, ProtectIsPastTheTarget, PastTheTargetSomethingIsOwed
  <2>2. ValueAllowedAtTarget(DepositedValue(obl), pos.strategy.target) \in Nat
        /\ AdjustedDebt(obl) \in Nat
    BY <1>3, RatesAreNat, ValuesFact
  <2>3. QED
    BY <2>1, <2>2 DEF AdjustedDebt
<1>9. repaid <= RawWorthRoundingUp(Usdc, RepayToReachTarget(
                  Weighted(UsdValue(Usdc, obl.debt), BorrowFactor),
                  DepositedValue(obl), pos.strategy.target, BorrowFactor))
  BY <1>4 DEF RepayNeeded, AdjustedDebt
<1>10. room <= DivideRoundingUp(Usdc.price, Usdc.unit) + DivideRoundingUp(Percent, BorrowFactor)
  BY <1>3, <1>4, <1>8, <1>9, RepayLeavesNoRoom
<1>11. room \in Nat
  <2>1. obl.debt - repaid \in Nat
    BY <1>3, <1>4
  <2>2. UsdValue(Usdc, obl.debt - repaid) \in Nat
    BY <1>3, <2>1, ConversionsAreNat
  <2>3. Weighted(UsdValue(Usdc, obl.debt - repaid), BorrowFactor) \in Nat
    BY <1>3, <2>2, RatesAreNat
  <2>4. QED
    BY <1>3, <2>3, SizesAreNat
<1> HIDE DEF room
<1>12. RawWorthRoundingDown(Usdc, room) <= RoomLeftByRounding
  <2>1. Usdc.price = UsdcPrice /\ Usdc.unit = UsdcUnit
    BY DEF Usdc
  <2>2. QED
    BY <1>10, <1>11, <2>1, RoomIsRounding
<1>13. QED
  BY <1>6, <1>7, <1>12

\* A growth lands at the target and leaves no more room than its roundings.
LEMMA GrowSettles ==
    ASSUME TypeOK, TypeOK', StrategyIsSound, NEW by \in Callers, Grow(by)
    PROVE  ~ProtectIsCalledFor' /\ RoomToTarget' <= RoomLeftByRounding
<1>1. /\ market' = market /\ Exists /\ LandsAtTarget(obl')
      /\ obl' = [obl EXCEPT !.debt = @ + RoomToTarget]
      /\ pos'.strategy = pos.strategy
  <2>1. LandsAtTarget(obl')
    BY DEF Grow
  <2>2. /\ market' = market /\ pos.state = "Open"
        /\ obl' = [obl EXCEPT !.debt = @ + RoomToTarget]
    BY DEF Grow
  <2>3. QED
    BY <2>1, <2>2, GrowKeepsTheStrategy DEF Exists
<1>2. /\ RoomToTarget \in Nat /\ obl.debt \in Nat /\ obl \in ObligationType
      /\ BorrowFactor \in Nat \ {0} /\ Usdc \in TokenType
      /\ DepositedValue(obl) \in Nat /\ pos.strategy.target \in Nat
  BY TokensFact, GuardSizesFact, AccountsFact, MarketAssumption, ValuesFact, PositionFieldsFact
     DEF StrategyType
<1>3. obl'.dep = obl.dep /\ obl'.debt = obl.debt + RoomToTarget
  BY <1>1, <1>2 DEF ObligationType
<1>4. ~ProtectIsCalledFor'
  <2>1. LoanToValue(obl)' = LoanToValue(obl')
    BY <1>1, LoanToValueNext
  <2>2. LoanToValue(obl)' <= pos.strategy.target
    BY <1>1, <2>1 DEF LandsAtTarget
  <2>3. QED
    BY <1>1, <2>2, AtTargetIsNotCalledFor
<1> DEFINE borrow == RoomToTarget
           room == BorrowToReachTarget(Weighted(UsdValue(Usdc, obl.debt + borrow), BorrowFactor),
                                       DepositedValue(obl), pos.strategy.target, BorrowFactor)
<1>5. RoomToTarget' = RawWorthRoundingDown(Usdc, room)
  BY <1>1, <1>3, ValuesNext
<1>6. borrow \in Nat
      /\ borrow = RawWorthRoundingDown(Usdc, BorrowToReachTarget(
                    Weighted(UsdValue(Usdc, obl.debt), BorrowFactor),
                    DepositedValue(obl), pos.strategy.target, BorrowFactor))
  BY <1>2 DEF RoomToTarget, AdjustedDebt
<1> HIDE DEF borrow
<1>7. room <= DivideRoundingUp(Usdc.price, Usdc.unit) + DivideRoundingUp(Percent, BorrowFactor)
  BY <1>2, <1>6, BorrowLeavesNoRoom
<1>8. room \in Nat
  <2>1. obl.debt + borrow \in Nat
    BY <1>2, <1>6
  <2>2. UsdValue(Usdc, obl.debt + borrow) \in Nat
    BY <1>2, <2>1, ConversionsAreNat
  <2>3. Weighted(UsdValue(Usdc, obl.debt + borrow), BorrowFactor) \in Nat
    BY <1>2, <2>2, RatesAreNat
  <2>4. QED
    BY <1>2, <2>3, SizesAreNat
<1> HIDE DEF room
<1>9. RawWorthRoundingDown(Usdc, room) <= RoomLeftByRounding
  <2>1. Usdc.price = UsdcPrice /\ Usdc.unit = UsdcUnit
    BY DEF Usdc
  <2>2. QED
    BY <1>7, <1>8, <2>1, RoomIsRounding
<1>10. QED
  BY <1>4, <1>5, <1>9

\* After protect or grow nobody can send protect again, nor grow for more than a rounding,
\* before the market or the owner moves: no bounty is paid twice for one fall.
THEOREM GuardStepsSettle == Spec => GuardSettles
<1>1. TypeOK /\ TypeOK' /\ StrategyIsSound /\ [Next]_vars =>
        [pos'.protects > pos.protects \/ pos'.grows > pos.grows =>
           /\ ~ProtectIsCalledFor'
           /\ GrowIsCalledFor' => RoomToTarget' <= RoomLeftByRounding]_vars
  BY OnlyTheGuardCounts, ProtectSettles, GrowSettles
<1>2. QED
  BY <1>1, TypeIsCorrect, StrategyStaysSound, PTL DEF Spec, GuardSettles
==============================================================================
