---------------------------- MODULE GuardMathProofs ----------------------------
(***************************************************************************)
(* What the arithmetic of GuardMath returns and how far off its rounding   *)
(* may be, for every amount, price and rate.                               *)
(***************************************************************************)
EXTENDS GuardMath, TLAPS

\* Division by a positive number, the only fact about \div the rest needs.
LEMMA DivisionFact ==
    ASSUME NEW n \in Nat, NEW d \in Nat \ {0}
    PROVE  /\ n \div d \in Nat /\ n % d \in 0..(d - 1)
           /\ n = d * (n \div d) + (n % d)
OBVIOUS

\* Products of u128 amounts and prices stay natural numbers.
LEMMA ProductIsNat ==
    ASSUME NEW a \in Nat, NEW b \in Nat
    PROVE  a * b \in Nat
OBVIOUS

\* The smaller of two amounts (Rust's min) is at most each of them.
LEMMA LeastFact ==
    ASSUME NEW a \in Nat, NEW b \in Nat
    PROVE  Least(a, b) \in Nat /\ Least(a, b) <= a /\ Least(a, b) <= b
BY DEF Least

\* A saturating subtraction never exceeds what it starts from.
LEMMA MonusFact ==
    ASSUME NEW a \in Nat, NEW b \in Nat
    PROVE  Monus(a, b) \in Nat /\ Monus(a, b) <= a
BY DEF Monus

\* A division rounded up is a natural number.
LEMMA RoundingUpIsNat ==
    ASSUME NEW n \in Nat, NEW d \in Nat \ {0}
    PROVE  DivideRoundingUp(n, d) \in Nat
BY DivisionFact DEF DivideRoundingUp

\* A quotient is at most what its dividend is a multiple of.
LEMMA QuotientBound ==
    ASSUME NEW n \in Nat, NEW d \in Nat \ {0}, NEW q \in Nat, n <= d * q
    PROVE  n \div d <= q
<1>1. PICK x \in Nat, r \in Nat : x = n \div d /\ n = d * x + r
  BY DivisionFact
<1>2. ASSUME x > q PROVE FALSE
  <2>1. PICK k \in Nat \ {0} : x = q + k
    BY <1>2
  <2>2. d * x = d * q + d * k
    BY <2>1
  <2>3. d * k >= 1
    BY <2>1
  <2>4. QED
    BY <1>1, <2>2, <2>3, ProductIsNat
<1>3. QED
  BY <1>1, <1>2

\* A truncated quotient times the divisor never exceeds the dividend.
LEMMA QuotientIsBelow ==
    ASSUME NEW n \in Nat, NEW d \in Nat \ {0}
    PROVE  n \div d \in Nat /\ d * (n \div d) <= n
<1>1. PICK x \in Nat, r \in Nat : x = n \div d /\ n = d * x + r
  BY DivisionFact
<1>2. d * x <= n
  BY <1>1, ProductIsNat
<1>3. QED
  BY <1>1, <1>2

\* A common positive factor may be cancelled from an inequality.
LEMMA Cancellation ==
    ASSUME NEW a \in Nat, NEW b \in Nat, NEW c \in Nat \ {0}, c * a <= c * b
    PROVE  a <= b
<1>1. ASSUME a > b PROVE FALSE
  <2>1. PICK k \in Nat \ {0} : a = b + k
    BY <1>1
  <2>2. c * a = c * b + c * k /\ c * k >= 1
    BY <2>1
  <2>3. QED
    BY <2>2, ProductIsNat
<1>2. QED
  BY <1>1

\* A product grows with its factors.
LEMMA ProductMonotone ==
    ASSUME NEW a \in Nat, NEW b \in Nat, NEW c \in Nat, a <= b
    PROVE  c * a <= c * b
<1>1. PICK k \in Nat : b = a + k
  OBVIOUS
<1>2. c * b = c * a + c * k
  BY <1>1
<1>3. QED
  BY <1>2, ProductIsNat

\* A quotient reaches every number whose multiple the dividend reaches.
LEMMA QuotientReaches ==
    ASSUME NEW n \in Nat, NEW d \in Nat \ {0}, NEW q \in Nat, d * q <= n
    PROVE  q <= n \div d
<1>1. PICK x \in Nat, r \in 0..(d - 1) : x = n \div d /\ n = d * x + r
  BY DivisionFact
<1>2. ASSUME q > x PROVE FALSE
  <2>1. d * (x + 1) <= d * q
    BY <1>1, <1>2, ProductMonotone
  <2>2. d * (x + 1) = d * x + d
    BY <1>1
  <2>3. QED
    BY <1>1, <2>1, <2>2, ProductIsNat
<1>3. QED
  BY <1>1, <1>2

\* A quotient rounded up times the divisor covers the dividend.
LEMMA RoundingUpCovers ==
    ASSUME NEW n \in Nat, NEW d \in Nat \ {0}
    PROVE  n <= d * DivideRoundingUp(n, d)
<1>1. PICK x \in Nat, r \in 0..(d - 1) :
        x = n \div d /\ r = n % d /\ n = d * x + r
  BY DivisionFact
<1>2. d * (x + 1) = d * x + d
  BY <1>1
<1>3. QED
  BY <1>1, <1>2, ProductIsNat DEF DivideRoundingUp

\* Rounding up is the least number that covers.
LEMMA RoundingUpIsLeast ==
    ASSUME NEW n \in Nat, NEW d \in Nat \ {0}, NEW q \in Nat, n <= d * q
    PROVE  DivideRoundingUp(n, d) <= q
<1>1. PICK x \in Nat, r \in 0..(d - 1) :
        x = n \div d /\ r = n % d /\ n = d * x + r
  BY DivisionFact
<1>2. CASE r = 0
  BY <1>1, <1>2, QuotientBound DEF DivideRoundingUp
<1>3. CASE r # 0
  <2>1. ASSUME q <= x PROVE FALSE
    <3>1. d * q <= d * x
      BY <1>1, <2>1, ProductMonotone
    <3>2. QED
      BY <1>1, <1>3, <3>1, ProductIsNat
  <2>2. QED
    BY <1>1, <1>3, <2>1 DEF DivideRoundingUp
<1>4. QED
  BY <1>1, <1>2, <1>3

\* A truncated quotient is off by less than one.
LEMMA QuotientIsClose ==
    ASSUME NEW n \in Nat, NEW d \in Nat \ {0}
    PROVE  n \div d \in Nat /\ d * (n \div d) <= n /\ n < d * (n \div d) + d
<1>1. PICK x \in Nat, r \in 0..(d - 1) : x = n \div d /\ n = d * x + r
  BY DivisionFact
<1>2. d * x \in Nat
  BY <1>1, ProductIsNat
<1>3. d * x <= n /\ n < d * x + d
  BY <1>1, <1>2
<1>4. QED
  BY <1>1, <1>3

\* A quotient rounded up is off by less than one, the other way.
LEMMA RoundingUpIsClose ==
    ASSUME NEW n \in Nat, NEW d \in Nat \ {0}
    PROVE  /\ DivideRoundingUp(n, d) \in Nat
           /\ n <= d * DivideRoundingUp(n, d) /\ d * DivideRoundingUp(n, d) < n + d
<1>1. PICK x \in Nat, r \in 0..(d - 1) :
        x = n \div d /\ r = n % d /\ n = d * x + r
  BY DivisionFact
<1>2. d * x \in Nat /\ d * (x + 1) = d * x + d
  BY <1>1, ProductIsNat
<1>3. QED
  BY <1>1, <1>2 DEF DivideRoundingUp

\* A common positive factor may be cancelled from a strict inequality.
LEMMA StrictCancellation ==
    ASSUME NEW a \in Nat, NEW b \in Nat, NEW c \in Nat, c * a < c * b
    PROVE  a < b
<1>1. ASSUME b <= a PROVE FALSE
  <2>1. c * b <= c * a
    BY <1>1, ProductMonotone
  <2>2. QED
    BY <2>1, ProductIsNat
<1>2. QED
  BY <1>1

\* A product grows strictly with its factor.
LEMMA ProductStrict ==
    ASSUME NEW a \in Nat, NEW b \in Nat, NEW c \in Nat \ {0}, a < b
    PROVE  c * a < c * b
<1>1. PICK k \in Nat \ {0} : b = a + k
  <2>1. b - a \in Nat \ {0} /\ b = a + (b - a)
    OBVIOUS
  <2>2. QED
    BY <2>1
<1>2. c * b = c * a + c * k /\ c * k >= 1
  BY <1>1
<1>3. QED
  BY <1>2, ProductIsNat

\* Division keeps the order of its dividends.
LEMMA QuotientMonotone ==
    ASSUME NEW a \in Nat, NEW b \in Nat, NEW d \in Nat \ {0}, a <= b
    PROVE  a \div d <= b \div d
<1>1. a \div d \in Nat /\ d * (a \div d) <= a
  BY QuotientIsBelow
<1>2. d * (a \div d) <= b
  BY <1>1, ProductIsNat
<1>3. QED
  BY <1>1, <1>2, QuotientReaches

------------------------------------------------------------------------------
(* The conversions and sizes of the program.                               *)

\* The two denominators the arithmetic divides by are not zero.
LEMMA DenominatorsArePositive ==
    Bps \in Nat \ {0} /\ Percent \in Nat \ {0}
BY DEF Bps, Percent

TokenType == [unit : Nat \ {0}, price : Nat \ {0}]

\* Converting between raw amounts and dollars, in either rounding, is total.
LEMMA ConversionsAreNat ==
    ASSUME NEW t \in TokenType, NEW n \in Nat
    PROVE  /\ UsdValue(t, n) \in Nat
           /\ RawWorthRoundingUp(t, n) \in Nat
           /\ RawWorthRoundingDown(t, n) \in Nat
<1>1. t.unit \in Nat \ {0} /\ t.price \in Nat \ {0}
  BY DEF TokenType
<1>2. n * t.price \in Nat /\ n * t.unit \in Nat
  BY <1>1, ProductIsNat
<1>3. QED
  BY <1>1, <1>2, DivisionFact, RoundingUpIsNat
     DEF UsdValue, RawWorthRoundingUp, RawWorthRoundingDown

\* Applying a basis-point or percent rate, either way, is total.
LEMMA RatesAreNat ==
    ASSUME NEW n \in Nat, NEW m \in Nat, NEW r \in Nat
    PROVE  /\ Weighted(n, r) \in Nat
           /\ ValueAllowedAtTarget(n, r) \in Nat
           /\ BountyOn(n, r) \in Nat
           /\ PerformanceFee(n, m, r) \in Nat
<1>1. n * r \in Nat /\ Monus(n, m) * r \in Nat
  BY ProductIsNat, MonusFact
<1>2. /\ (n * r) \div Percent \in Nat
      /\ (n * r) \div Bps \in Nat
      /\ (Monus(n, m) * r) \div Bps \in Nat
  BY <1>1, QuotientIsBelow, DenominatorsArePositive
<1>3. QED
  BY <1>2 DEF Weighted, ValueAllowedAtTarget, BountyOn, PerformanceFee

\* The repayment and borrowing sizes the guard computes are natural numbers.
LEMMA SizesAreNat ==
    ASSUME NEW adjusted \in Nat, NEW deposited \in Nat, NEW target \in Nat,
           NEW factor \in Nat \ {0}
    PROVE  /\ RepayToReachTarget(adjusted, deposited, target, factor) \in Nat
           /\ BorrowToReachTarget(adjusted, deposited, target, factor) \in Nat
<1>1. ValueAllowedAtTarget(deposited, target) \in Nat
  BY RatesAreNat
<1>2. /\ Monus(adjusted, ValueAllowedAtTarget(deposited, target)) * Percent \in Nat
      /\ Monus(ValueAllowedAtTarget(deposited, target), adjusted) * Percent \in Nat
  BY <1>1, MonusFact, ProductIsNat DEF Percent
<1>3. QED
  BY <1>2, RoundingUpIsNat, DivisionFact DEF RepayToReachTarget, BorrowToReachTarget

\* What a swap fills at any rate against fair value is a natural number.
LEMMA FillsAreNat ==
    ASSUME NEW selling \in TokenType, NEW buying \in TokenType, NEW n \in Nat, NEW r \in Nat
    PROVE  (FairOutput(selling, n, buying) * r) \div Bps \in Nat
<1>1. FairOutput(selling, n, buying) \in Nat
  BY ConversionsAreNat DEF FairOutput
<1>2. QED
  BY <1>1, ProductIsNat, QuotientIsBelow, DenominatorsArePositive

\* Within the program's slippage limit the discounted rate stays positive.
LEMMA SlippageIsNat ==
    ASSUME NEW slippage \in 0..500
    PROVE  Bps - slippage \in Nat \ {0}
BY DEF Bps

\* The least output a swap must give is a natural number.
LEMMA MinimumOutputIsNat ==
    ASSUME NEW selling \in TokenType, NEW buying \in TokenType, NEW n \in Nat,
           NEW slippage \in 0..500
    PROVE  MinimumOutput(selling, n, buying, slippage) \in Nat
BY SlippageIsNat, FillsAreNat DEF MinimumOutput

\* A sale size enlarged for slippage is a natural number.
LEMMA BufferIsNat ==
    ASSUME NEW n \in Nat, NEW slippage \in 0..500
    PROVE  AddTheSlippageBuffer(n, slippage) \in Nat
BY SlippageIsNat, ProductIsNat, RoundingUpIsNat, DenominatorsArePositive
   DEF AddTheSlippageBuffer

\* More of a token is worth no less, and a larger debt weighs no less.
LEMMA ValuesAreMonotone ==
    ASSUME NEW t \in TokenType, NEW a \in Nat, NEW b \in Nat, NEW r \in Nat, a <= b
    PROVE  /\ UsdValue(t, a) <= UsdValue(t, b)
           /\ RawWorthRoundingDown(t, a) <= RawWorthRoundingDown(t, b)
           /\ Weighted(a, r) <= Weighted(b, r)
<1>1. t.unit \in Nat \ {0} /\ t.price \in Nat \ {0}
  BY DEF TokenType
<1>2. \A c \in Nat : c * a <= c * b /\ c * a = a * c /\ c * b = b * c
  BY ProductMonotone
<1>3. /\ a * t.price <= b * t.price
      /\ a * t.unit <= b * t.unit
      /\ a * r <= b * r
  BY <1>1, <1>2
<1>4. /\ a * t.price \in Nat /\ b * t.price \in Nat /\ a * t.unit \in Nat
      /\ b * t.unit \in Nat /\ a * r \in Nat /\ b * r \in Nat
  BY <1>1, ProductIsNat
<1>5. QED
  BY <1>1, <1>3, <1>4, QuotientMonotone, DenominatorsArePositive
     DEF UsdValue, RawWorthRoundingDown, Weighted

------------------------------------------------------------------------------
(* Guard sizes do what their names say, however they round.                *)

\* Repaying what repay_to_reach_target asks for brings the weighted debt down
\* to what the target allows: the market takes at least the excess off.
THEOREM RepayReachesTheTarget ==
    ASSUME NEW adjusted \in Nat, NEW deposited \in Nat, NEW target \in Nat,
           NEW factor \in Nat \ {0}
    PROVE  adjusted <= ValueAllowedAtTarget(deposited, target)
                       + Weighted(RepayToReachTarget(adjusted, deposited, target, factor), factor)
<1> DEFINE allowed == ValueAllowedAtTarget(deposited, target)
           excess == Monus(adjusted, allowed)
           repay == RepayToReachTarget(adjusted, deposited, target, factor)
<1>1. allowed \in Nat /\ repay \in Nat
  BY RatesAreNat, SizesAreNat
<1>2. excess \in Nat /\ adjusted <= allowed + excess
  <2> HIDE DEF allowed
  <2> QED BY <1>1 DEF Monus
<1>3. excess * Percent <= factor * repay
  BY <1>2, ProductIsNat, RoundingUpCovers DEF RepayToReachTarget, Percent
<1>4. Percent * excess <= repay * factor
  BY <1>1, <1>2, <1>3 DEF Percent
<1>5. excess <= Weighted(repay, factor)
  BY <1>1, <1>2, <1>4, ProductIsNat, QuotientReaches DEF Weighted, Percent
<1>6. Weighted(repay, factor) \in Nat
  BY <1>1, RatesAreNat
<1> HIDE DEF allowed, excess, repay
<1>7. QED
  BY <1>1, <1>2, <1>5, <1>6 DEF allowed, repay

\* Borrowing what borrow_to_reach_target finds room for adds no more weighted
\* debt than the room the target leaves.
THEOREM BorrowStaysWithinTheTarget ==
    ASSUME NEW adjusted \in Nat, NEW deposited \in Nat, NEW target \in Nat,
           NEW factor \in Nat \ {0}
    PROVE  Weighted(BorrowToReachTarget(adjusted, deposited, target, factor), factor)
             <= Monus(ValueAllowedAtTarget(deposited, target), adjusted)
<1> DEFINE room == Monus(ValueAllowedAtTarget(deposited, target), adjusted)
           borrow == BorrowToReachTarget(adjusted, deposited, target, factor)
<1>1. room \in Nat /\ borrow \in Nat /\ room * Percent \in Nat
  BY RatesAreNat, SizesAreNat, MonusFact, ProductIsNat DEF Percent
<1>2. factor * borrow <= room * Percent
  BY <1>1, QuotientIsBelow DEF BorrowToReachTarget
<1>3. borrow * factor <= Percent * room /\ borrow * factor \in Nat
  BY <1>1, <1>2, ProductIsNat DEF Percent
<1>4. QED
  BY <1>1, <1>3, QuotientBound DEF Weighted, Percent

\* The rescue's withdrawal is an amount the obligation holds.
LEMMA WithdrawableFact ==
    ASSUME NEW dep \in Nat, NEW debt \in Nat, NEW adjusted \in Nat,
           NEW deposited \in Nat, NEW maxLtv \in Nat
    PROVE  /\ Withdrawable(dep, debt, adjusted, deposited, maxLtv) \in Nat
           /\ Withdrawable(dep, debt, adjusted, deposited, maxLtv) <= dep
<1>1. CASE debt = 0 \/ maxLtv = 0 \/ deposited = 0
  BY <1>1 DEF Withdrawable
<1>2. CASE debt # 0 /\ maxLtv # 0 /\ deposited # 0
  <2> DEFINE must == ValueThatMustStay(adjusted, maxLtv)
             free == Monus(deposited, must)
  <2>1. must \in Nat
    BY <1>2, ProductIsNat, RoundingUpIsNat DEF ValueThatMustStay, Bps
  <2>2. free \in Nat /\ free <= deposited
    BY <2>1, MonusFact
  <2>3. dep * free \in Nat /\ dep * free <= dep * deposited
    BY <2>2, ProductIsNat, ProductMonotone
  <2>4. dep * deposited = deposited * dep
    OBVIOUS
  <2>5. /\ (dep * free) \div deposited \in Nat
        /\ (dep * free) \div deposited <= dep
    BY <1>2, <2>3, <2>4, DivisionFact, QuotientBound
  <2>6. QED
    BY <1>2, <2>5 DEF Withdrawable
<1>3. QED
  BY <1>1, <1>2

\* What rescue takes out of an indebted obligation leaves enough behind: the
\* market, which values the stock again after the withdrawal and rounds down
\* each time, still allows the whole debt at its own limit.
THEOREM ReleaseIsAllowed ==
    ASSUME NEW token \in TokenType, NEW dep \in Nat, NEW debt \in Nat \ {0},
           NEW adjusted \in Nat, NEW maxLtv \in Nat,
           NEW out, out = Withdrawable(dep, debt, adjusted, UsdValue(token, dep), maxLtv),
           out # 0
    PROVE  adjusted <= ValueAllowedAtTarget(UsdValue(token, dep - out), maxLtv)
<1> DEFINE price == token.price
           unit == token.unit
           value == UsdValue(token, dep)
           must == ValueThatMustStay(adjusted, maxLtv)
           left == dep - out
<1>1. price \in Nat \ {0} /\ unit \in Nat \ {0} /\ value \in Nat
  BY ConversionsAreNat DEF TokenType
<1>2. maxLtv # 0 /\ value # 0
  BY DEF Withdrawable
<1>3. must \in Nat /\ adjusted * Bps <= maxLtv * must
  BY <1>2, ProductIsNat, RoundingUpIsNat, RoundingUpCovers, DenominatorsArePositive
     DEF ValueThatMustStay
<1>4. out = (dep * Monus(value, must)) \div value
  BY <1>2 DEF Withdrawable
<1>5. out \in Nat /\ left \in Nat /\ out + left = dep
  <2>1. out = Withdrawable(dep, debt, adjusted, value, maxLtv) /\ debt \in Nat
    OBVIOUS
  <2> HIDE DEF value
  <2>2. out \in Nat /\ out <= dep
    BY <1>1, <2>1, WithdrawableFact
  <2>3. QED
    BY <2>2
<1> HIDE DEF value, must, left, price, unit
<1>6. must < value
  <2>1. SUFFICES ASSUME must >= value PROVE FALSE
    BY <1>1, <1>3
  <2>2. Monus(value, must) = 0
    BY <2>1, <1>1, <1>3 DEF Monus
  <2>3. dep * 0 = 0 /\ 0 \div value = 0
    BY <1>1, <1>2
  <2>4. QED
    BY <1>4, <2>2, <2>3
<1>7. PICK free \in Nat : free = Monus(value, must) /\ value = must + free
  BY <1>1, <1>3, <1>6 DEF Monus
\* In proportion, what is left of the stock is worth what must stay.
<1>8. dep * must <= value * left
  <2>1. value * out <= dep * free
    BY <1>1, <1>2, <1>4, <1>7, ProductIsNat, QuotientIsBelow
  <2>2. value * (out + left) = value * out + value * left
    BY <1>1, <1>5
  <2>3. dep * value = dep * must + dep * free
    BY <1>3, <1>7
  <2>4. value * dep = dep * value
    BY <1>1
  <2>5. value * out \in Nat /\ value * left \in Nat /\ dep * must \in Nat /\ dep * free \in Nat
    BY <1>1, <1>3, <1>5, <1>7, ProductIsNat
  <2>6. QED
    BY <1>5, <2>1, <2>2, <2>3, <2>4, <2>5
<1>9. dep # 0
  BY <1>5
\* The rounding of the first valuation only helps.
<1>10. unit * must <= left * price
  <2>1. unit * value <= dep * price
    BY <1>1, ProductIsNat, QuotientIsBelow DEF value, UsdValue, unit, price
  <2>2. unit * (dep * must) <= unit * (value * left)
    BY <1>1, <1>3, <1>5, <1>8, ProductIsNat, ProductMonotone
  <2>3. left * (unit * value) <= left * (dep * price)
    BY <1>1, <1>5, <2>1, ProductIsNat, ProductMonotone
  <2>4. /\ unit * (dep * must) = dep * (unit * must)
        /\ unit * (value * left) = left * (unit * value)
        /\ left * (dep * price) = dep * (left * price)
    BY <1>1, <1>3, <1>5
  <2>5. unit * must \in Nat /\ left * price \in Nat
    BY <1>1, <1>3, <1>5, ProductIsNat
  <2>6. /\ unit * (dep * must) \in Nat /\ left * (unit * value) \in Nat
        /\ left * (dep * price) \in Nat
    BY <1>1, <1>3, <1>5, ProductIsNat
  <2>7. dep * (unit * must) <= dep * (left * price)
    BY <2>2, <2>3, <2>4, <2>6
  <2>8. QED
    BY <1>9, <2>5, <2>7, Cancellation
<1>11. must <= UsdValue(token, left)
  BY <1>1, <1>3, <1>5, <1>10, ProductIsNat, QuotientReaches DEF UsdValue, unit, price
<1>12. UsdValue(token, left) \in Nat
  BY <1>5, ConversionsAreNat
<1>13. Bps * adjusted <= UsdValue(token, left) * maxLtv
  <2>1. maxLtv * must <= maxLtv * UsdValue(token, left)
    BY <1>3, <1>11, <1>12, ProductMonotone
  <2>2. /\ Bps * adjusted = adjusted * Bps /\ adjusted * Bps \in Nat
        /\ maxLtv * UsdValue(token, left) = UsdValue(token, left) * maxLtv
        /\ maxLtv * must \in Nat /\ maxLtv * UsdValue(token, left) \in Nat
    BY <1>3, <1>12, ProductIsNat, DenominatorsArePositive
  <2>3. QED
    BY <1>3, <2>1, <2>2
<1>14. QED
  BY <1>12, <1>13, ProductIsNat, QuotientReaches, DenominatorsArePositive
     DEF ValueAllowedAtTarget, left

------------------------------------------------------------------------------
(* Loan to value against the value a target allows.                        *)

\* The ratio is total: it reads zero where nothing is deposited.
LEMMA LoanToValueIsNat ==
    ASSUME NEW adjusted \in Nat, NEW deposited \in Nat
    PROVE  LoanToValueBps(adjusted, deposited) \in Nat
<1>1. CASE deposited = 0
  BY <1>1 DEF LoanToValueBps
<1>2. CASE deposited # 0
  <2>1. (adjusted * Bps) \div deposited \in Nat
    BY <1>2, ProductIsNat, QuotientIsBelow, DenominatorsArePositive
  <2>2. U16Max \in Nat
    BY DEF U16Max
  <2>3. QED
    BY <1>2, <2>1, <2>2, LeastFact DEF LoanToValueBps
<1>3. QED
  BY <1>1, <1>2

\* A debt over what the target allows by less than a basis point of the collateral
\* still reads as being at the target.
LEMMA NearlyAllowedIsAtTarget ==
    ASSUME NEW adjusted \in Nat, NEW deposited \in Nat, NEW target \in Nat, NEW lost \in Nat,
           adjusted <= ValueAllowedAtTarget(deposited, target) + lost,
           lost = 0 \/ lost * Bps < deposited
    PROVE  LoanToValueBps(adjusted, deposited) <= target
<1> DEFINE allowed == ValueAllowedAtTarget(deposited, target)
           ratio == (adjusted * Bps) \div deposited
<1>1. CASE deposited = 0
  BY <1>1 DEF LoanToValueBps
<1>2. CASE deposited # 0
  <2>1. allowed \in Nat /\ Bps * allowed <= deposited * target
    BY ProductIsNat, QuotientIsBelow, DenominatorsArePositive DEF ValueAllowedAtTarget
  <2>2. lost * Bps < deposited
    <3>1. CASE lost = 0
      BY <1>2, <3>1 DEF Bps
    <3>2. QED
      BY <3>1
  <2>3. ratio \in Nat /\ deposited * ratio <= adjusted * Bps
    BY <1>2, ProductIsNat, QuotientIsBelow, DenominatorsArePositive
  <2>4. adjusted <= allowed + lost
    OBVIOUS
  <2> HIDE DEF allowed, ratio
  <2>5. adjusted * Bps <= Bps * allowed + lost * Bps
    BY <2>1, <2>4 DEF Bps
  <2>6. deposited * (target + 1) = deposited * target + deposited
    OBVIOUS
  <2>7. deposited * ratio < deposited * (target + 1)
    BY <2>1, <2>2, <2>3, <2>5, <2>6, ProductIsNat, DenominatorsArePositive
  <2>8. ratio < target + 1
    BY <2>3, <2>7, StrictCancellation
  <2>9. Least(ratio, U16Max) \in Nat /\ Least(ratio, U16Max) <= ratio
    <3>1. U16Max \in Nat
      BY DEF U16Max
    <3>2. QED
      BY <2>3, <3>1, LeastFact
  <2>10. LoanToValueBps(adjusted, deposited) = Least(ratio, U16Max)
    BY <1>2 DEF LoanToValueBps, ratio
  <2>11. QED
    BY <2>3, <2>8, <2>9, <2>10
<1>3. QED
  BY <1>1, <1>2

\* A debt within what the target allows reads as being at the target.
LEMMA AllowedIsAtTarget ==
    ASSUME NEW adjusted \in Nat, NEW deposited \in Nat, NEW target \in Nat,
           adjusted <= ValueAllowedAtTarget(deposited, target)
    PROVE  LoanToValueBps(adjusted, deposited) <= target
<1>1. ValueAllowedAtTarget(deposited, target) \in Nat
  BY RatesAreNat
<1>2. QED
  BY <1>1, NearlyAllowedIsAtTarget

\* A loan to value past the target is a debt over what the target allows.
LEMMA PastTheTargetIsNotAllowed ==
    ASSUME NEW adjusted \in Nat, NEW deposited \in Nat, NEW target \in Nat,
           LoanToValueBps(adjusted, deposited) > target
    PROVE  ValueAllowedAtTarget(deposited, target) < adjusted
<1>1. ValueAllowedAtTarget(deposited, target) \in Nat
  BY RatesAreNat
<1>2. LoanToValueBps(adjusted, deposited) \in Nat
  BY LoanToValueIsNat
<1>3. QED
  BY <1>1, <1>2, AllowedIsAtTarget

------------------------------------------------------------------------------
(* The sizes of a protection.                                              *)

\* Protect never wants to repay more than the loan: repay_to_reach_target asks
\* for no more than the debt is worth.
THEOREM RepayIsOwed ==
    ASSUME NEW t \in TokenType, NEW debt \in Nat, NEW deposited \in Nat, NEW target \in Nat,
           NEW factor \in Nat \ {0}
    PROVE  RawWorthRoundingUp(t, RepayToReachTarget(Weighted(UsdValue(t, debt), factor),
                                                   deposited, target, factor)) <= debt
<1> DEFINE v == UsdValue(t, debt)
           adjusted == Weighted(v, factor)
           excess == Monus(adjusted, ValueAllowedAtTarget(deposited, target))
           repay == RepayToReachTarget(adjusted, deposited, target, factor)
<1>1. t.unit \in Nat \ {0} /\ t.price \in Nat \ {0} /\ v \in Nat
  BY ConversionsAreNat DEF TokenType
<1>2. adjusted \in Nat /\ Percent * adjusted <= v * factor
  BY <1>1, ProductIsNat, QuotientIsBelow, DenominatorsArePositive DEF Weighted
<1>3. excess \in Nat /\ excess <= adjusted
  BY <1>2, RatesAreNat, MonusFact
<1>4. excess * Percent <= factor * v
  <2> HIDE DEF v, adjusted, excess
  <2>1. Percent * excess <= Percent * adjusted
    BY <1>2, <1>3 DEF Percent
  <2>2. v * factor = factor * v /\ factor * v \in Nat
    BY <1>1, ProductIsNat
  <2>3. QED
    BY <1>2, <1>3, <2>1, <2>2 DEF Percent
<1>5. repay \in Nat /\ repay <= v
  <2>1. excess * Percent \in Nat
    BY <1>3, ProductIsNat, DenominatorsArePositive
  <2>2. DivideRoundingUp(excess * Percent, factor) \in Nat
        /\ DivideRoundingUp(excess * Percent, factor) <= v
    BY <1>1, <1>4, <2>1, RoundingUpIsLeast, RoundingUpIsNat
  <2>3. QED
    BY <2>2 DEF RepayToReachTarget
<1>6. t.unit * v <= debt * t.price
  BY <1>1, ProductIsNat, QuotientIsBelow DEF UsdValue
<1>7. repay * t.unit <= t.price * debt
  <2> HIDE DEF v, repay
  <2>1. t.unit * repay <= t.unit * v
    BY <1>1, <1>5, ProductMonotone
  <2>2. repay * t.unit = t.unit * repay /\ t.price * debt = debt * t.price
    BY <1>1, <1>5
  <2>3. t.unit * repay \in Nat /\ t.unit * v \in Nat /\ debt * t.price \in Nat
    BY <1>1, <1>5, ProductIsNat
  <2>4. QED
    BY <1>6, <2>1, <2>2, <2>3
<1>8. repay * t.unit \in Nat
  BY <1>1, <1>5, ProductIsNat
<1>9. DivideRoundingUp(repay * t.unit, t.price) <= debt
  BY <1>1, <1>7, <1>8, RoundingUpIsLeast
<1>10. QED
  BY <1>9 DEF RawWorthRoundingUp

\* The bounty, in raw units and before its cap, is no more than its rate on the
\* repayment, in raw units: rounding down twice never pays more.
THEOREM BountyIsAShare ==
    ASSUME NEW t \in TokenType, NEW repay \in Nat, NEW rate \in Nat
    PROVE  RawWorthRoundingDown(t, BountyOn(repay, rate)) * Bps
             <= rate * RawWorthRoundingUp(t, repay)
<1> DEFINE bounty == BountyOn(repay, rate)
           paid == RawWorthRoundingDown(t, bounty)
           repaid == RawWorthRoundingUp(t, repay)
<1>1. t.unit \in Nat \ {0} /\ t.price \in Nat \ {0}
  BY DEF TokenType
<1>2. bounty \in Nat /\ Bps * bounty <= repay * rate
  BY ProductIsNat, QuotientIsBelow, DenominatorsArePositive DEF BountyOn
<1>3. paid \in Nat /\ t.price * paid <= bounty * t.unit
  <2> HIDE DEF bounty
  <2> QED BY <1>1, <1>2, ProductIsNat, QuotientIsBelow DEF RawWorthRoundingDown
<1>4. repaid \in Nat /\ repay * t.unit <= t.price * repaid
  BY <1>1, ProductIsNat, RoundingUpIsClose DEF RawWorthRoundingUp
<1> HIDE DEF bounty, paid, repaid
<1>5. Bps * (t.price * paid) <= Bps * (bounty * t.unit)
  BY <1>1, <1>2, <1>3, ProductIsNat, ProductMonotone, DenominatorsArePositive
<1>6. t.unit * (Bps * bounty) <= t.unit * (repay * rate)
  BY <1>1, <1>2, ProductIsNat, ProductMonotone, DenominatorsArePositive
<1>7. rate * (repay * t.unit) <= rate * (t.price * repaid)
  BY <1>1, <1>4, ProductIsNat, ProductMonotone
<1>8. /\ Bps * (t.price * paid) = t.price * (paid * Bps)
      /\ Bps * (bounty * t.unit) = t.unit * (Bps * bounty)
      /\ t.unit * (repay * rate) = rate * (repay * t.unit)
      /\ rate * (t.price * repaid) = t.price * (rate * repaid)
  BY <1>1, <1>2, <1>3, <1>4 DEF Bps
<1>9. paid * Bps \in Nat /\ rate * repaid \in Nat
  BY <1>3, <1>4, ProductIsNat, DenominatorsArePositive
<1>10. /\ t.price * (paid * Bps) \in Nat /\ t.unit * (Bps * bounty) \in Nat
       /\ rate * (repay * t.unit) \in Nat /\ t.price * (rate * repaid) \in Nat
  BY <1>1, <1>2, <1>9, ProductIsNat, DenominatorsArePositive
<1>11. t.price * (paid * Bps) <= t.price * (rate * repaid)
  BY <1>5, <1>6, <1>7, <1>8, <1>10
<1>12. paid * Bps <= rate * repaid
  BY <1>1, <1>9, <1>11, Cancellation
<1>13. QED
  BY <1>12 DEF paid, repaid, bounty

\* A repayment that falls short of the needed one by no more than missing raw units
\* leaves the weighted debt over what the target allows by no more than those weigh.
THEOREM ShortRepayNearlyReaches ==
    ASSUME NEW t \in TokenType, NEW debt \in Nat, NEW deposited \in Nat, NEW target \in Nat,
           NEW factor \in Nat \ {0}, NEW repaid \in Nat, NEW missing \in Nat,
           NEW needed \in Nat,
           needed = RawWorthRoundingUp(t, RepayToReachTarget(Weighted(UsdValue(t, debt), factor),
                                                             deposited, target, factor)),
           repaid <= debt, needed <= repaid + missing
    PROVE  Weighted(UsdValue(t, debt - repaid), factor)
             <= ValueAllowedAtTarget(deposited, target)
                + DivideRoundingUp(DivideRoundingUp(missing * t.price, t.unit) * factor, Percent)
<1> DEFINE v == UsdValue(t, debt)
           left == UsdValue(t, debt - repaid)
           adjusted == Weighted(v, factor)
           after == Weighted(left, factor)
           allowed == ValueAllowedAtTarget(deposited, target)
           excess == Monus(adjusted, allowed)
           repay == RepayToReachTarget(adjusted, deposited, target, factor)
           short == DivideRoundingUp(missing * t.price, t.unit)
           lost == DivideRoundingUp(short * factor, Percent)
<1>1. /\ t.unit \in Nat \ {0} /\ t.price \in Nat \ {0} /\ debt - repaid \in Nat
      /\ v \in Nat /\ left \in Nat
  BY ConversionsAreNat DEF TokenType
<1>2. adjusted \in Nat /\ after \in Nat /\ allowed \in Nat
  BY <1>1, RatesAreNat
<1>3. /\ excess \in Nat /\ adjusted <= allowed + excess
  <2> HIDE DEF allowed, adjusted
  <2> QED BY <1>2 DEF Monus
<1>4. repay \in Nat /\ Percent * excess <= factor * repay
  <2>1. excess * Percent \in Nat /\ excess * Percent = Percent * excess
    BY <1>3, ProductIsNat DEF Percent
  <2>2. QED
    BY <2>1, RoundingUpIsClose DEF RepayToReachTarget
<1>5. short \in Nat /\ missing * t.price <= t.unit * short
  BY <1>1, ProductIsNat, RoundingUpIsClose
<1>6. lost \in Nat /\ short * factor <= Percent * lost
  <2> HIDE DEF short
  <2> QED BY <1>5, ProductIsNat, RoundingUpIsClose, DenominatorsArePositive
<1>7. debt * t.price < t.unit * v + t.unit
  BY <1>1, ProductIsNat, QuotientIsClose DEF UsdValue
<1>8. t.unit * left <= (debt - repaid) * t.price
  BY <1>1, ProductIsNat, QuotientIsClose DEF UsdValue
<1>9. repay * t.unit <= t.price * needed
  <2> HIDE DEF repay
  <2>1. needed = DivideRoundingUp(repay * t.unit, t.price)
    BY DEF RawWorthRoundingUp, repay
  <2>2. QED
    BY <1>1, <1>4, <2>1, ProductIsNat, RoundingUpIsClose
<1>10. v * factor < Percent * adjusted + Percent
  <2> HIDE DEF v
  <2> QED BY <1>1, ProductIsNat, QuotientIsClose, DenominatorsArePositive DEF Weighted
<1>11. Percent * after <= left * factor
  <2> HIDE DEF left
  <2> QED BY <1>1, ProductIsNat, QuotientIsClose, DenominatorsArePositive DEF Weighted
<1> HIDE DEF v, left, adjusted, after, allowed, excess, repay, short, lost
\* In values: what is left, and what was to be repaid, against the loan.
<1>12. left + repay <= v + short
  <2>1. t.price * needed <= t.price * (repaid + missing)
    BY <1>1, ProductMonotone
  <2>2. /\ t.price * (repaid + missing) = repaid * t.price + missing * t.price
        /\ (debt - repaid) * t.price = debt * t.price - repaid * t.price
        /\ t.unit * (left + repay) = t.unit * left + repay * t.unit
        /\ t.unit * (v + short + 1) = t.unit * v + t.unit * short + t.unit
    BY <1>1, <1>4, <1>5
  <2>3. /\ t.price * needed \in Nat /\ repaid * t.price \in Nat /\ missing * t.price \in Nat
        /\ debt * t.price \in Nat /\ t.unit * left \in Nat /\ repay * t.unit \in Nat
        /\ t.unit * v \in Nat /\ t.unit * short \in Nat
    BY <1>1, <1>4, <1>5, ProductIsNat
  <2>4. t.unit * (left + repay) < t.unit * (v + short + 1)
    BY <1>1, <1>5, <1>7, <1>8, <1>9, <2>1, <2>2, <2>3
  <2>5. left + repay < v + short + 1
    BY <1>1, <1>4, <1>5, <2>4, StrictCancellation
  <2>6. QED
    BY <1>1, <1>4, <1>5, <2>5
\* The same weighted.
<1>13. after + excess <= adjusted + lost
  <2>1. factor * (left + repay) <= factor * (v + short)
    BY <1>1, <1>4, <1>5, <1>12, ProductMonotone
  <2>2. /\ factor * (left + repay) = left * factor + factor * repay
        /\ factor * (v + short) = v * factor + short * factor
        /\ Percent * (after + excess) = Percent * after + Percent * excess
        /\ Percent * (adjusted + lost + 1) = Percent * adjusted + Percent * lost + Percent
    BY <1>1, <1>2, <1>3, <1>4, <1>5, <1>6 DEF Percent
  <2>3. /\ left * factor \in Nat /\ factor * repay \in Nat /\ v * factor \in Nat
        /\ short * factor \in Nat /\ Percent * after \in Nat /\ Percent * excess \in Nat
        /\ Percent * adjusted \in Nat /\ Percent * lost \in Nat /\ Percent \in Nat
    BY <1>1, <1>2, <1>3, <1>4, <1>5, <1>6, ProductIsNat, DenominatorsArePositive
  <2>4. Percent * (after + excess) < Percent * (adjusted + lost + 1)
    BY <1>4, <1>6, <1>10, <1>11, <2>1, <2>2, <2>3
  <2>5. after + excess < adjusted + lost + 1
    BY <1>2, <1>3, <1>6, <2>4, StrictCancellation, DenominatorsArePositive
  <2>6. QED
    BY <1>2, <1>3, <1>6, <2>5
<1>14. after <= allowed + lost
  BY <1>2, <1>3, <1>6, <1>13
<1>15. QED
  BY <1>14 DEF after, left, allowed, lost, short

\* The least a sale sized by the guard must bring covers the raw USDC it was sized
\* for, up to two of them and two of the smallest values.
THEOREM SaleCoversTheNeed ==
    ASSUME NEW cash \in TokenType, NEW sold \in TokenType, NEW need \in Nat,
           NEW slippage \in 0..500, NEW amount \in Nat,
           amount = AddTheSlippageBuffer(RawWorthRoundingUp(sold, UsdValue(cash, need)), slippage)
    PROVE  need <= MinimumOutput(sold, amount, cash, slippage)
                   + 2 + 2 * RawWorthRoundingUp(cash, 1)
<1> DEFINE keep == Bps - slippage
           worth == UsdValue(cash, need)
           raw == RawWorthRoundingUp(sold, worth)
           value == UsdValue(sold, amount)
           fair == RawWorthRoundingDown(cash, value)
           least == MinimumOutput(sold, amount, cash, slippage)
           grain == RawWorthRoundingUp(cash, 1)
<1>1. /\ cash.unit \in Nat \ {0} /\ cash.price \in Nat \ {0}
      /\ sold.unit \in Nat \ {0} /\ sold.price \in Nat \ {0}
      /\ keep \in Nat \ {0} /\ keep <= Bps
  BY SlippageIsNat DEF TokenType, Bps
<1>2. worth \in Nat /\ raw \in Nat /\ value \in Nat /\ fair \in Nat /\ least \in Nat /\ grain \in Nat
  <2>1. worth \in Nat /\ value \in Nat /\ grain \in Nat
    BY ConversionsAreNat
  <2>2. raw \in Nat
    BY <2>1, ConversionsAreNat
  <2>3. fair \in Nat
    <3> HIDE DEF value
    <3> QED BY <2>1, ConversionsAreNat
  <2>4. least \in Nat
    BY MinimumOutputIsNat
  <2>5. QED
    BY <2>1, <2>2, <2>3, <2>4
<1>3. need * cash.price < cash.unit * worth + cash.unit
  BY <1>1, ProductIsNat, QuotientIsClose DEF UsdValue
<1>4. worth * sold.unit <= sold.price * raw
  <2> HIDE DEF worth
  <2> QED BY <1>1, <1>2, ProductIsNat, RoundingUpIsClose DEF RawWorthRoundingUp
<1>5. raw * Bps <= keep * amount
  <2> HIDE DEF raw
  <2>1. amount = DivideRoundingUp(raw * Bps, keep)
    BY DEF AddTheSlippageBuffer, raw
  <2>2. QED
    BY <1>1, <1>2, <2>1, ProductIsNat, RoundingUpIsClose, DenominatorsArePositive
<1>6. amount * sold.price < sold.unit * value + sold.unit
  BY <1>1, ProductIsNat, QuotientIsClose DEF UsdValue
<1>7. value * cash.unit < cash.price * fair + cash.price
  <2> HIDE DEF value
  <2> QED BY <1>1, <1>2, ProductIsNat, QuotientIsClose DEF RawWorthRoundingDown
<1>8. fair * keep < Bps * least + Bps
  <2>1. least = (fair * keep) \div Bps
    BY DEF MinimumOutput, FairOutput
  <2> HIDE DEF fair, least, keep
  <2>2. QED
    BY <1>1, <1>2, <2>1, ProductIsNat, QuotientIsClose, DenominatorsArePositive
<1>9. cash.unit <= cash.price * grain
  <2>1. grain = DivideRoundingUp(1 * cash.unit, cash.price) /\ 1 * cash.unit = cash.unit
    BY <1>1 DEF RawWorthRoundingUp
  <2>2. QED
    BY <1>1, <2>1, RoundingUpIsClose
<1> HIDE DEF keep, worth, raw, value, fair, least, grain
\* What is sold is worth what is needed once the slippage is off.
<1>10. Bps * worth < keep * (value + 1)
  <2>1. Bps * (worth * sold.unit) <= Bps * (sold.price * raw)
    BY <1>1, <1>2, <1>4, ProductIsNat, ProductMonotone, DenominatorsArePositive
  <2>2. sold.price * (raw * Bps) <= sold.price * (keep * amount)
    BY <1>1, <1>2, <1>5, ProductIsNat, ProductMonotone, DenominatorsArePositive
  <2>3. keep * (amount * sold.price) < keep * (sold.unit * value + sold.unit)
    BY <1>1, <1>2, <1>6, ProductIsNat, ProductStrict
  <2>4. /\ Bps * (worth * sold.unit) = sold.unit * (Bps * worth)
        /\ Bps * (sold.price * raw) = sold.price * (raw * Bps)
        /\ sold.price * (keep * amount) = keep * (amount * sold.price)
        /\ keep * (sold.unit * value + sold.unit) = sold.unit * (keep * (value + 1))
    BY <1>1, <1>2 DEF Bps
  <2>5. Bps * worth \in Nat /\ keep * (value + 1) \in Nat
    BY <1>1, <1>2, ProductIsNat, DenominatorsArePositive
  <2>6. /\ sold.unit * (Bps * worth) \in Nat /\ sold.unit * (keep * (value + 1)) \in Nat
        /\ sold.price * (raw * Bps) \in Nat /\ keep * (amount * sold.price) \in Nat
    BY <1>1, <1>2, <2>5, ProductIsNat, DenominatorsArePositive
  <2>7. sold.unit * (Bps * worth) < sold.unit * (keep * (value + 1))
    BY <2>1, <2>2, <2>3, <2>4, <2>6
  <2>8. QED
    BY <1>1, <2>5, <2>7, StrictCancellation
\* Turned into raw USDC at the least fill.
<1>11. cash.unit * worth < cash.price * (least + 2) + cash.unit
  <2>1. cash.unit * (Bps * worth) < cash.unit * (keep * (value + 1))
    BY <1>1, <1>2, <1>10, ProductIsNat, ProductStrict, DenominatorsArePositive
  <2>2. keep * (value * cash.unit) < keep * (cash.price * fair + cash.price)
    BY <1>1, <1>2, <1>7, ProductIsNat, ProductStrict
  <2>3. cash.price * (fair * keep) <= cash.price * (Bps * least + Bps)
    BY <1>1, <1>2, <1>8, ProductIsNat, ProductMonotone, DenominatorsArePositive
  <2>4. /\ keep * cash.price <= Bps * cash.price
        /\ keep * cash.unit <= Bps * cash.unit
    <3>1. /\ cash.price * keep <= cash.price * Bps
          /\ cash.unit * keep <= cash.unit * Bps
      BY <1>1, ProductMonotone, DenominatorsArePositive
    <3>2. QED
      BY <1>1, <3>1, DenominatorsArePositive
  <2>5. /\ cash.unit * (Bps * worth) = Bps * (cash.unit * worth)
        /\ cash.unit * (keep * (value + 1)) = keep * (value * cash.unit) + keep * cash.unit
        /\ keep * (cash.price * fair + cash.price) = cash.price * (fair * keep) + keep * cash.price
        /\ cash.price * (Bps * least + Bps) = Bps * (cash.price * (least + 1))
        /\ Bps * (cash.price * (least + 2) + cash.unit)
             = Bps * (cash.price * (least + 1)) + Bps * cash.price + Bps * cash.unit
    BY <1>1, <1>2 DEF Bps
  <2>6. /\ cash.unit * worth \in Nat /\ cash.price * (least + 2) + cash.unit \in Nat
        /\ cash.price * (least + 1) \in Nat /\ keep * (value * cash.unit) \in Nat
        /\ keep * cash.unit \in Nat /\ keep * cash.price \in Nat
        /\ cash.price * (fair * keep) \in Nat
        /\ Bps * cash.price \in Nat /\ Bps * cash.unit \in Nat
    BY <1>1, <1>2, ProductIsNat, DenominatorsArePositive
  <2>7. /\ Bps * (cash.unit * worth) \in Nat
        /\ Bps * (cash.price * (least + 1)) \in Nat
    BY <2>6, ProductIsNat, DenominatorsArePositive
  <2>8. Bps * (cash.unit * worth) < Bps * (cash.price * (least + 2) + cash.unit)
    BY <2>1, <2>2, <2>3, <2>4, <2>5, <2>6, <2>7
  <2>9. QED
    BY <2>6, <2>8, StrictCancellation, DenominatorsArePositive
<1>12. cash.price * need < cash.price * (least + 2 + 2 * grain)
  <2>1. cash.price * (least + 2 + 2 * grain) = cash.price * (least + 2) + 2 * (cash.price * grain)
    BY <1>1, <1>2
  <2>2. cash.price * need = need * cash.price
    BY <1>1
  <2>3. /\ cash.unit * worth \in Nat /\ cash.price * (least + 2) \in Nat
        /\ cash.price * grain \in Nat /\ need * cash.price \in Nat
    BY <1>1, <1>2, ProductIsNat
  <2>4. QED
    BY <1>1, <1>3, <1>9, <1>11, <2>1, <2>2, <2>3
<1>13. need < least + 2 + 2 * grain
  BY <1>1, <1>2, <1>12, StrictCancellation
<1>14. QED
  BY <1>2, <1>13 DEF least, grain

------------------------------------------------------------------------------
(* The room a guard step leaves below the target.                          *)

\* Where a loan's weight lacks little more than grain of what the target allows,
\* there is room left for no more than the roundings.
LEMMA LittleRoomIsLeft ==
    ASSUME NEW value \in Nat, NEW grain \in Nat, NEW deposited \in Nat, NEW target \in Nat,
           NEW factor \in Nat \ {0},
           Percent * ValueAllowedAtTarget(deposited, target) < factor * (value + 1 + grain)
    PROVE  BorrowToReachTarget(Weighted(value, factor), deposited, target, factor)
             <= grain + DivideRoundingUp(Percent, factor)
<1> DEFINE adjusted == Weighted(value, factor)
           allowed == ValueAllowedAtTarget(deposited, target)
           gap == Monus(allowed, adjusted)
           room == BorrowToReachTarget(adjusted, deposited, target, factor)
           extra == DivideRoundingUp(Percent, factor)
<1>1. adjusted \in Nat /\ allowed \in Nat /\ gap \in Nat
  BY RatesAreNat, MonusFact
<1>2. value * factor < Percent * adjusted + Percent
  BY ProductIsNat, QuotientIsClose, DenominatorsArePositive DEF Weighted
<1>3. room \in Nat /\ factor * room <= Percent * gap
  <2>1. gap * Percent \in Nat /\ gap * Percent = Percent * gap
    BY <1>1, ProductIsNat DEF Percent
  <2>2. QED
    BY <2>1, QuotientIsClose DEF BorrowToReachTarget
<1>4. extra \in Nat /\ Percent <= factor * extra
  BY RoundingUpIsClose, DenominatorsArePositive
<1>5. CASE allowed <= adjusted
  <2>1. gap = 0
    <3> HIDE DEF allowed, adjusted
    <3> QED BY <1>1, <1>5 DEF Monus
  <2>2. factor * room <= factor * 0
    BY <1>3, <2>1 DEF Percent
  <2>3. room <= 0
    BY <1>3, <2>2, Cancellation
  <2>4. QED
    BY <1>3, <1>4, <2>3
<1>6. CASE adjusted < allowed
  <2>1. adjusted + gap = allowed
    <3> HIDE DEF allowed, adjusted
    <3> QED BY <1>1, <1>6 DEF Monus
  <2> HIDE DEF adjusted, allowed, gap, room, extra
  <2>2. Percent * allowed = Percent * adjusted + Percent * gap
    BY <1>1, <2>1 DEF Percent
  <2>3. factor * (value + 1 + grain) = value * factor + factor * (1 + grain)
    OBVIOUS
  <2>4. factor * (1 + grain + extra) = factor * (1 + grain) + factor * extra
    BY <1>4
  <2>5. Percent * allowed < factor * (value + 1 + grain)
    BY DEF allowed
  <2>6. /\ value * factor \in Nat /\ factor * (1 + grain) \in Nat /\ factor * extra \in Nat
        /\ Percent * adjusted \in Nat /\ Percent * gap \in Nat /\ Percent \in Nat
        /\ factor * room \in Nat
    BY <1>1, <1>3, <1>4, ProductIsNat, DenominatorsArePositive
  <2>7. factor * room < factor * (1 + grain + extra)
    BY <1>2, <1>3, <1>4, <2>2, <2>3, <2>4, <2>5, <2>6
  <2>8. room < 1 + grain + extra
    BY <1>3, <1>4, <2>7, StrictCancellation
  <2>9. QED
    BY <1>3, <1>4, <2>8 DEF room, adjusted, extra
<1>7. QED
  BY <1>1, <1>5, <1>6

\* A repayment of no more than the needed one leaves hardly any room to borrow.
THEOREM RepayLeavesNoRoom ==
    ASSUME NEW t \in TokenType, NEW debt \in Nat, NEW deposited \in Nat, NEW target \in Nat,
           NEW factor \in Nat \ {0}, NEW repaid \in Nat,
           ValueAllowedAtTarget(deposited, target) <= Weighted(UsdValue(t, debt), factor),
           repaid <= debt,
           repaid <= RawWorthRoundingUp(t, RepayToReachTarget(Weighted(UsdValue(t, debt), factor),
                                                              deposited, target, factor))
    PROVE  BorrowToReachTarget(Weighted(UsdValue(t, debt - repaid), factor),
                               deposited, target, factor)
             <= DivideRoundingUp(t.price, t.unit) + DivideRoundingUp(Percent, factor)
<1> DEFINE v == UsdValue(t, debt)
           left == UsdValue(t, debt - repaid)
           adjusted == Weighted(v, factor)
           allowed == ValueAllowedAtTarget(deposited, target)
           excess == Monus(adjusted, allowed)
           repay == RepayToReachTarget(adjusted, deposited, target, factor)
           needed == RawWorthRoundingUp(t, repay)
           grain == DivideRoundingUp(t.price, t.unit)
<1>1. /\ t.unit \in Nat \ {0} /\ t.price \in Nat \ {0} /\ debt - repaid \in Nat
      /\ v \in Nat /\ left \in Nat
  BY ConversionsAreNat DEF TokenType
<1>2. adjusted \in Nat /\ allowed \in Nat /\ allowed <= adjusted
  BY <1>1, RatesAreNat
<1>3. excess \in Nat /\ adjusted = allowed + excess
  <2> HIDE DEF allowed, adjusted
  <2> QED BY <1>2 DEF Monus
<1>4. repay \in Nat /\ factor * repay < Percent * excess + factor
  <2>1. excess * Percent \in Nat /\ excess * Percent = Percent * excess
    BY <1>3, ProductIsNat DEF Percent
  <2>2. QED
    BY <2>1, RoundingUpIsClose DEF RepayToReachTarget
<1>5. grain \in Nat /\ t.price <= t.unit * grain
  BY <1>1, RoundingUpIsClose
<1>6. t.unit * v <= debt * t.price
  BY <1>1, ProductIsNat, QuotientIsClose DEF UsdValue
<1>7. (debt - repaid) * t.price < t.unit * left + t.unit
  BY <1>1, ProductIsNat, QuotientIsClose DEF UsdValue
<1>8. needed \in Nat /\ t.price * needed < repay * t.unit + t.price
  <2> HIDE DEF repay
  <2> QED BY <1>1, <1>4, ProductIsNat, RoundingUpIsClose DEF RawWorthRoundingUp
<1>9. Percent * adjusted <= v * factor
  <2> HIDE DEF v
  <2> QED BY <1>1, ProductIsNat, QuotientIsClose, DenominatorsArePositive DEF Weighted
<1>10. repaid <= needed
  OBVIOUS
<1> HIDE DEF v, left, adjusted, allowed, excess, repay, needed, grain
\* In values: no more is taken off than was to be, and one raw unit.
<1>11. v <= left + repay + grain
  <2>1. t.price * repaid <= t.price * needed
    BY <1>1, <1>8, <1>10, ProductMonotone
  <2>2. /\ (debt - repaid) * t.price = debt * t.price - t.price * repaid
        /\ t.unit * (left + repay + grain + 1)
             = t.unit * left + repay * t.unit + t.unit * grain + t.unit
    BY <1>1, <1>4, <1>5
  <2>3. /\ t.price * needed \in Nat /\ t.price * repaid \in Nat /\ t.unit * v \in Nat
        /\ debt * t.price \in Nat /\ t.unit * left \in Nat /\ repay * t.unit \in Nat
        /\ t.unit * grain \in Nat
    BY <1>1, <1>4, <1>5, <1>8, ProductIsNat
  <2>4. t.unit * v < t.unit * (left + repay + grain + 1)
    BY <1>1, <1>5, <1>6, <1>7, <1>8, <2>1, <2>2, <2>3
  <2>5. v < left + repay + grain + 1
    BY <1>1, <1>4, <1>5, <2>4, StrictCancellation
  <2>6. QED
    BY <1>1, <1>4, <1>5, <2>5
<1>12. Percent * allowed < factor * (left + 1 + grain)
  <2>1. factor * v <= factor * (left + repay + grain)
    BY <1>1, <1>4, <1>5, <1>11, ProductMonotone
  <2>2. /\ factor * (left + repay + grain) = factor * left + factor * repay + factor * grain
        /\ factor * (left + 1 + grain) = factor * left + factor + factor * grain
        /\ Percent * adjusted = Percent * allowed + Percent * excess
        /\ v * factor = factor * v
    BY <1>1, <1>2, <1>3, <1>4, <1>5 DEF Percent
  <2>3. /\ factor * left \in Nat /\ factor * repay \in Nat /\ factor * grain \in Nat
        /\ Percent * allowed \in Nat /\ Percent * excess \in Nat /\ factor * v \in Nat
    BY <1>1, <1>2, <1>3, <1>4, <1>5, ProductIsNat, DenominatorsArePositive
  <2>4. QED
    BY <1>4, <1>9, <2>1, <2>2, <2>3
<1>13. BorrowToReachTarget(Weighted(left, factor), deposited, target, factor)
         <= grain + DivideRoundingUp(Percent, factor)
  BY <1>1, <1>5, <1>12, LittleRoomIsLeft DEF allowed
<1>14. QED
  BY <1>13 DEF left, grain

\* Borrowing all the room there is leaves hardly any.
THEOREM BorrowLeavesNoRoom ==
    ASSUME NEW t \in TokenType, NEW debt \in Nat, NEW deposited \in Nat, NEW target \in Nat,
           NEW factor \in Nat \ {0}, NEW borrow \in Nat,
           borrow = RawWorthRoundingDown(t, BorrowToReachTarget(Weighted(UsdValue(t, debt), factor),
                                                                deposited, target, factor))
    PROVE  BorrowToReachTarget(Weighted(UsdValue(t, debt + borrow), factor),
                               deposited, target, factor)
             <= DivideRoundingUp(t.price, t.unit) + DivideRoundingUp(Percent, factor)
<1> DEFINE v == UsdValue(t, debt)
           more == UsdValue(t, debt + borrow)
           adjusted == Weighted(v, factor)
           allowed == ValueAllowedAtTarget(deposited, target)
           gap == Monus(allowed, adjusted)
           room == BorrowToReachTarget(adjusted, deposited, target, factor)
           grain == DivideRoundingUp(t.price, t.unit)
<1>1. /\ t.unit \in Nat \ {0} /\ t.price \in Nat \ {0} /\ debt + borrow \in Nat
      /\ v \in Nat /\ more \in Nat
  BY ConversionsAreNat DEF TokenType
<1>2. adjusted \in Nat /\ allowed \in Nat
  BY <1>1, RatesAreNat
<1>3. gap \in Nat /\ allowed <= adjusted + gap
  <2> HIDE DEF allowed, adjusted
  <2> QED BY <1>2 DEF Monus
<1>4. room \in Nat /\ Percent * gap < factor * room + factor
  <2>1. gap * Percent \in Nat /\ gap * Percent = Percent * gap
    BY <1>3, ProductIsNat DEF Percent
  <2>2. QED
    BY <2>1, QuotientIsClose DEF BorrowToReachTarget
<1>5. grain \in Nat /\ t.price <= t.unit * grain
  BY <1>1, RoundingUpIsClose
<1>6. t.unit * v <= debt * t.price
  BY <1>1, ProductIsNat, QuotientIsClose DEF UsdValue
<1>7. (debt + borrow) * t.price < t.unit * more + t.unit
  BY <1>1, ProductIsNat, QuotientIsClose DEF UsdValue
<1>8. room * t.unit < t.price * borrow + t.price
  <2>1. borrow = RawWorthRoundingDown(t, room)
    OBVIOUS
  <2> HIDE DEF room
  <2>2. QED
    BY <1>1, <1>4, <2>1, ProductIsNat, QuotientIsClose DEF RawWorthRoundingDown
<1>9. Percent * adjusted <= v * factor
  <2> HIDE DEF v
  <2> QED BY <1>1, ProductIsNat, QuotientIsClose, DenominatorsArePositive DEF Weighted
<1> HIDE DEF v, more, adjusted, allowed, gap, room, grain
<1>10. v + room <= more + grain
  <2>1. /\ (debt + borrow) * t.price = debt * t.price + t.price * borrow
        /\ t.unit * (v + room) = t.unit * v + room * t.unit
        /\ t.unit * (more + grain + 1) = t.unit * more + t.unit * grain + t.unit
    BY <1>1, <1>4, <1>5
  <2>2. /\ t.price * borrow \in Nat /\ t.unit * v \in Nat /\ room * t.unit \in Nat
        /\ debt * t.price \in Nat /\ t.unit * more \in Nat /\ t.unit * grain \in Nat
    BY <1>1, <1>4, <1>5, ProductIsNat
  <2>3. t.unit * (v + room) < t.unit * (more + grain + 1)
    BY <1>1, <1>5, <1>6, <1>7, <1>8, <2>1, <2>2
  <2>4. v + room < more + grain + 1
    BY <1>1, <1>4, <1>5, <2>3, StrictCancellation
  <2>5. QED
    BY <1>1, <1>4, <1>5, <2>4
<1>11. Percent * allowed < factor * (more + 1 + grain)
  <2>1. factor * (v + room) <= factor * (more + grain)
    BY <1>1, <1>4, <1>5, <1>10, ProductMonotone
  <2>2. /\ factor * (v + room) = v * factor + factor * room
        /\ factor * (more + grain) = factor * more + factor * grain
        /\ factor * (more + 1 + grain) = factor * more + factor + factor * grain
        /\ Percent * (adjusted + gap) = Percent * adjusted + Percent * gap
    BY <1>1, <1>2, <1>3, <1>4, <1>5 DEF Percent
  <2>3. /\ factor * more \in Nat /\ factor * room \in Nat /\ factor * grain \in Nat
        /\ Percent * allowed \in Nat /\ Percent * gap \in Nat /\ v * factor \in Nat
        /\ Percent * adjusted \in Nat
    BY <1>1, <1>2, <1>3, <1>4, <1>5, ProductIsNat, DenominatorsArePositive
  <2>4. Percent * allowed <= Percent * (adjusted + gap)
    BY <1>2, <1>3, ProductMonotone, DenominatorsArePositive
  <2>5. QED
    BY <1>4, <1>9, <2>1, <2>2, <2>3, <2>4
<1>12. BorrowToReachTarget(Weighted(more, factor), deposited, target, factor)
         <= grain + DivideRoundingUp(Percent, factor)
  BY <1>1, <1>5, <1>11, LittleRoomIsLeft DEF allowed
<1>13. QED
  BY <1>12 DEF more, grain

------------------------------------------------------------------------------
(* Rescue takes out all the market lets go.                                *)

\* One more unit of stock out, and the units the rounding of its worth may hide, and
\* what stays is not worth what must stay.
LEMMA OneMoreIsTooMuch ==
    ASSUME NEW token \in TokenType, NEW dep \in Nat, NEW must \in Nat, NEW left \in Nat \ {0},
           UsdValue(token, dep) > 0,
           left = dep - ((dep * Monus(UsdValue(token, dep), must)) \div UsdValue(token, dep)),
           NEW more \in Nat,
           more = IF (dep * token.price) % token.unit = 0 THEN 1
                  ELSE 1 + RawWorthRoundingUp(token, 1)
    PROVE  UsdValue(token, Monus(left, more)) < must
<1> DEFINE price == token.price
           unit == token.unit
           value == UsdValue(token, dep)
           free == Monus(value, must)
           out == (dep * free) \div value
           grain == RawWorthRoundingUp(token, 1)
           kept == Monus(left, more)
           worth == UsdValue(token, kept)
<1>1. price \in Nat \ {0} /\ unit \in Nat \ {0} /\ value \in Nat \ {0} /\ grain \in Nat
  <2>1. value > 0
    OBVIOUS
  <2>2. QED
    BY <2>1, ConversionsAreNat DEF TokenType
<1>2. /\ unit * value <= dep * price /\ dep * price < unit * value + unit
      /\ (dep * price) % unit = 0 => dep * price = unit * value
  <2>1. dep * price \in Nat
    BY <1>1, ProductIsNat
  <2>2. value = (dep * price) \div unit
    BY DEF UsdValue
  <2>3. dep * price = unit * value + ((dep * price) % unit)
    BY <1>1, <2>1, <2>2, DivisionFact
  <2>4. unit * value \in Nat
    BY <1>1, ProductIsNat
  <2>5. /\ unit * value <= dep * price /\ dep * price < unit * value + unit
    BY <1>1, <2>1, <2>2, QuotientIsClose
  <2> HIDE DEF value
  <2>6. QED
    BY <2>3, <2>4, <2>5
<1>3. unit <= price * grain
  <2>1. grain = DivideRoundingUp(1 * unit, price) /\ 1 * unit = unit
    BY <1>1 DEF RawWorthRoundingUp
  <2>2. QED
    BY <1>1, <2>1, RoundingUpIsClose
<1>4. free \in Nat /\ free <= value /\ value <= must + free /\ (free = 0 \/ value = must + free)
  <2> HIDE DEF value
  <2> QED BY <1>1 DEF Monus
<1>5. out \in Nat /\ dep * free < value * out + value
  <2> HIDE DEF value, free
  <2> QED BY <1>1, <1>4, ProductIsNat, QuotientIsClose
<1>6. left = dep - out /\ left + out = dep /\ dep >= 1
  <2>1. left = dep - out
    OBVIOUS
  <2> HIDE DEF out
  <2>2. QED
    BY <1>5, <2>1
<1>7. kept \in Nat /\ kept <= left /\ (kept = 0 \/ kept = left - more)
  BY MonusFact DEF Monus
<1>8. worth \in Nat /\ unit * worth <= kept * price
  <2> HIDE DEF kept
  <2> QED BY <1>1, <1>7, ConversionsAreNat, ProductIsNat, QuotientIsClose DEF UsdValue
<1>9. more = IF (dep * price) % unit = 0 THEN 1 ELSE 1 + grain
  OBVIOUS
<1> HIDE DEF price, unit, value, free, out, grain, kept, worth
\* In proportion, the stock but its last unit is worth less than what must stay.
<1>10. value * (left - 1) < dep * must
  <2>1. /\ value * (left - 1) = dep * value - value * out - value
        /\ dep * (must + free) = dep * must + dep * free
    <3>1. value * (left + out) = value * left + value * out
      BY <1>1, <1>5
    <3>2. value * (left - 1) = value * left - value
      BY <1>1
    <3>3. value * (left + out) = dep * value
      BY <1>1, <1>5, <1>6
    <3>4. dep * (must + free) = dep * must + dep * free
      BY <1>4
    <3>5. value * left \in Nat /\ value * out \in Nat
      BY <1>1, <1>5, ProductIsNat
    <3>6. QED
      BY <1>1, <3>1, <3>2, <3>3, <3>4, <3>5
  <2>2. dep * value <= dep * (must + free)
    BY <1>1, <1>4, ProductMonotone
  <2>3. /\ dep * value \in Nat /\ value * out \in Nat /\ dep * must \in Nat /\ dep * free \in Nat
    BY <1>1, <1>4, <1>5, ProductIsNat
  <2>4. QED
    BY <1>1, <1>5, <2>1, <2>2, <2>3
<1>11. must >= 1
  <2>1. ASSUME must = 0 PROVE FALSE
    <3>1. dep * must = 0 /\ value * (left - 1) \in Nat
      BY <1>1, <2>1, ProductIsNat
    <3>2. QED
      BY <1>10, <3>1
  <2>2. QED
    BY <2>1
<1>12. CASE kept = 0
  <2>1. unit * worth <= unit * 0
    BY <1>1, <1>8, <1>12
  <2>2. worth <= 0
    BY <1>1, <1>8, <2>1, Cancellation
  <2>3. QED
    BY <1>8, <1>11, <2>2 DEF worth, kept
<1>13. CASE kept = left - more
  <2> DEFINE last == left - 1
  <2>1. last \in Nat /\ last < dep
    BY <1>5, <1>6
  <2>2. unit * (value * last) < unit * (dep * must)
    BY <1>1, <1>10, <2>1, ProductIsNat, ProductStrict
  <2>3. CASE (dep * price) % unit = 0
    <3>1. kept = last
      BY <1>9, <1>13, <2>3
    <3>2. dep * price = unit * value
      BY <1>2, <2>3
    <3>3. dep * (kept * price) = last * (dep * price) /\ last * (unit * value) = unit * (value * last)
      <4> HIDE DEF last
      <4> QED BY <1>1, <2>1, <3>1
    <3>4. dep * (unit * worth) <= dep * (kept * price)
      BY <1>1, <1>7, <1>8, ProductIsNat, ProductMonotone
    <3>5. unit * (dep * must) = dep * (unit * must)
      BY <1>1
    <3>6. /\ dep * (unit * worth) \in Nat /\ dep * (unit * must) \in Nat
          /\ unit * worth \in Nat /\ unit * must \in Nat /\ unit * (value * last) \in Nat
      BY <1>1, <1>8, <2>1, ProductIsNat
    <3>7. dep * (unit * worth) < dep * (unit * must)
      <4>1. dep * (kept * price) = unit * (value * last)
        BY <3>2, <3>3
      <4> HIDE DEF last
      <4>2. QED
        BY <2>2, <3>4, <3>5, <3>6, <4>1
    <3>8. unit * worth < unit * must
      BY <3>6, <3>7, StrictCancellation
    <3>9. worth < must
      BY <1>1, <1>8, <3>8, StrictCancellation
    <3>10. QED
      BY <3>9 DEF worth, kept
  <2>4. CASE (dep * price) % unit # 0
    <3>1. kept = last - grain
      BY <1>1, <1>9, <1>13, <2>4
    <3> HIDE DEF last
    <3>2. last * (dep * price) <= last * (unit * value + unit)
      BY <1>1, <1>2, <2>1, ProductIsNat, ProductMonotone
    <3>3. unit * last < unit * dep
      BY <1>1, <2>1, ProductStrict
    <3>4. /\ last * (unit * value + unit) = unit * (value * last) + unit * last
          /\ unit * (dep * must) + unit * dep = dep * (unit * (must + 1))
          /\ last * (dep * price) = dep * (last * price)
      BY <1>1, <2>1
    <3>5. /\ unit * (value * last) \in Nat /\ unit * last \in Nat /\ unit * (dep * must) \in Nat
          /\ unit * dep \in Nat /\ last * (dep * price) \in Nat
          /\ last * price \in Nat /\ unit * (must + 1) \in Nat
      BY <1>1, <2>1, ProductIsNat
    <3>6. dep * (last * price) < dep * (unit * (must + 1))
      BY <2>2, <3>2, <3>3, <3>4, <3>5
    <3>7. last * price < unit * (must + 1)
      BY <3>5, <3>6, StrictCancellation
    <3>8. /\ kept * price = last * price - price * grain
          /\ unit * (must + 1) = unit * must + unit
      BY <1>1, <2>1, <3>1
    <3>9. /\ unit * worth \in Nat /\ unit * must \in Nat /\ price * grain \in Nat
      BY <1>1, <1>8, ProductIsNat
    <3>10. unit * worth < unit * must
      BY <1>1, <1>3, <1>8, <3>5, <3>7, <3>8, <3>9
    <3>11. worth < must
      BY <1>1, <1>8, <3>10, StrictCancellation
    <3>12. QED
      BY <3>11 DEF worth, kept
  <2>5. QED
    BY <2>3, <2>4
<1>14. QED
  BY <1>7, <1>12, <1>13

\* The market allows no more of an indebted obligation's stock to go than rescue takes.
THEOREM ReleaseIsAllThereIs ==
    ASSUME NEW token \in TokenType, NEW dep \in Nat, NEW debt \in Nat \ {0},
           NEW adjusted \in Nat, NEW maxLtv \in Nat \ {0},
           UsdValue(token, dep) > 0,
           NEW left \in Nat \ {0},
           left = dep - Withdrawable(dep, debt, adjusted, UsdValue(token, dep), maxLtv),
           NEW more \in Nat,
           more = IF (dep * token.price) % token.unit = 0 THEN 1
                  ELSE 1 + RawWorthRoundingUp(token, 1)
    PROVE  ValueAllowedAtTarget(UsdValue(token, Monus(left, more)), maxLtv) < adjusted
<1> DEFINE must == ValueThatMustStay(adjusted, maxLtv)
           worth == UsdValue(token, Monus(left, more))
           allowed == ValueAllowedAtTarget(worth, maxLtv)
<1>1. must \in Nat /\ maxLtv * must < adjusted * Bps + maxLtv
  BY ProductIsNat, RoundingUpIsClose, DenominatorsArePositive DEF ValueThatMustStay
<1>2. left = dep - ((dep * Monus(UsdValue(token, dep), must)) \div UsdValue(token, dep))
  BY DEF Withdrawable
<1>3. worth \in Nat
  BY MonusFact, ConversionsAreNat
<1>4. worth < must
  <2> HIDE DEF must
  <2> QED BY <1>1, <1>2, OneMoreIsTooMuch
<1>5. allowed \in Nat /\ Bps * allowed <= worth * maxLtv
  <2> HIDE DEF worth
  <2> QED BY <1>3, ProductIsNat, QuotientIsClose, DenominatorsArePositive DEF ValueAllowedAtTarget
<1> HIDE DEF must, worth, allowed
<1>6. Bps * allowed < Bps * adjusted
  <2>1. maxLtv * (worth + 1) <= maxLtv * must
    BY <1>1, <1>3, <1>4, ProductMonotone
  <2>2. maxLtv * (worth + 1) = worth * maxLtv + maxLtv /\ adjusted * Bps = Bps * adjusted
    BY <1>3 DEF Bps
  <2>3. /\ worth * maxLtv \in Nat /\ maxLtv * must \in Nat /\ Bps * adjusted \in Nat
        /\ Bps * allowed \in Nat
    BY <1>1, <1>3, <1>5, ProductIsNat, DenominatorsArePositive
  <2>4. QED
    BY <1>1, <1>5, <2>1, <2>2, <2>3
<1>7. allowed < adjusted
  BY <1>5, <1>6, StrictCancellation, DenominatorsArePositive
<1>8. QED
  BY <1>7 DEF allowed, worth
==============================================================================
