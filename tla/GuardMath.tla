------------------------------ MODULE GuardMath ------------------------------
(***************************************************************************)
(* The arithmetic of the Accrue program: guard.rs, the conversions of      *)
(* scope.rs, the loan to value of kamino/obligation.rs, the release rule   *)
(* of rescue.rs and the strategy bounds of state/position.rs.              *)
(*                                                                         *)
(* Values are the program's scaled dollars, amounts are raw token units.   *)
(* A token is a record [unit, price]: unit is ten to the mint's decimals,  *)
(* price is the scaled value of one whole token.  Every operator is total  *)
(* on natural numbers; the code's checked arithmetic fails on overflow,    *)
(* which never yields a number, so no width is modelled here.              *)
(***************************************************************************)
EXTENDS Integers

Bps == 10000                  \* BASIS_POINTS_DENOMINATOR
Percent == 100                \* PERCENT_DENOMINATOR
MinGuardRoom == 500           \* MIN_GUARD_ROOM_BPS
U16Max == 65535

Least(a, b) == IF a <= b THEN a ELSE b
Monus(a, b) == IF a >= b THEN a - b ELSE 0
DivideRoundingUp(n, d) == IF n % d = 0 THEN n \div d ELSE n \div d + 1

------------------------------------------------------------------------------
(* Amounts and values (scope.rs).                                          *)

UsdValue(token, raw) == (raw * token.price) \div token.unit
RawWorthRoundingUp(token, value) ==
    DivideRoundingUp(value * token.unit, token.price)
RawWorthRoundingDown(token, value) == (value * token.unit) \div token.price

\* Slips: the sale not raised for what a fill may lose.
NoSlippageBuffer(raw, slippage) == raw
AddTheSlippageBuffer(raw, slippage) ==
    DivideRoundingUp(raw * Bps, Bps - slippage)

\* What the sale would bring at the oracle's prices, with no slippage.
FairOutput(selling, raw, buying) ==
    RawWorthRoundingDown(buying, UsdValue(selling, raw))
MinimumOutput(selling, raw, buying, slippage) ==
    (FairOutput(selling, raw, buying) * (Bps - slippage)) \div Bps

------------------------------------------------------------------------------
(* Loan to value and the distance to the target (guard.rs, obligation.rs). *)

\* The market weighs a debt by the reserve's borrow factor.
Weighted(value, factor) == (value * factor) \div Percent

LoanToValueBps(adjusted, deposited) ==
    IF deposited = 0 THEN 0 ELSE Least((adjusted * Bps) \div deposited, U16Max)

ValueAllowedAtTarget(deposited, target) == (deposited * target) \div Bps

RepayToReachTarget(adjusted, deposited, target, factor) ==
    DivideRoundingUp(
        Monus(adjusted, ValueAllowedAtTarget(deposited, target)) * Percent, factor)

BorrowToReachTarget(adjusted, deposited, target, factor) ==
    (Monus(ValueAllowedAtTarget(deposited, target), adjusted) * Percent) \div factor

BountyOn(repayValue, bountyBps) == (repayValue * bountyBps) \div Bps

PerformanceFee(sales, repaid, feeBps) == (Monus(sales, repaid) * feeBps) \div Bps

WithinAvailableShare(amount, available, shareBps) ==
    amount <= (available * shareBps) \div Bps

------------------------------------------------------------------------------
(* Conditions (guard.rs, state/position.rs).                               *)

\* A timestamp of zero means never.
IntervalHasElapsed(last, now, interval) == last = 0 \/ now >= last + interval

MarginCallPeriodHasElapsed(started, period, now) ==
    started # 0 /\ now >= started + period

\* signals mirrors DeleverageSignals; retiring is the program's own sunset.
ThereIsAReasonToLeave(signals, retiring, now) ==
    \/ signals.obsolete
    \/ retiring
    \/ signals.marginCallAt # 0
    \/ /\ signals.marketDeleverages
       /\ signals.reserveDeleverages
       /\ \/ MarginCallPeriodHasElapsed(signals.depositCrossedAt, signals.period, now)
          \/ MarginCallPeriodHasElapsed(signals.borrowCrossedAt, signals.period, now)

StrategyIsValid(s, maxLtv, threshold) ==
    /\ s.protect + MinGuardRoom <= threshold
    /\ s.target + MinGuardRoom <= s.protect
    /\ s.target <= maxLtv
    /\ s.target > 0
    /\ s.growBelow < s.target

------------------------------------------------------------------------------
(* What rescue may take out of the obligation (rescue.rs).                 *)

\* Slips: rounded in the owner's favour; nothing released, or all, while indebted.
ValueThatMayAlmostStay(adjusted, maxLtv) == (adjusted * Bps) \div maxLtv
ValueThatMustStay(adjusted, maxLtv) == DivideRoundingUp(adjusted * Bps, maxLtv)

WithdrawableOnceRepaid(dep, debt, adjusted, deposited, maxLtv) ==
    IF debt = 0 THEN dep ELSE 0
Withdrawable(dep, debt, adjusted, deposited, maxLtv) ==
    IF debt = 0 THEN dep
    ELSE IF maxLtv = 0 \/ deposited = 0 THEN 0
    ELSE (dep * Monus(deposited, ValueThatMustStay(adjusted, maxLtv))) \div deposited
==============================================================================
