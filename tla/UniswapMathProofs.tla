------------------------- MODULE UniswapMathProofs -------------------------
(***************************************************************************)
(* What the contracts' integer arithmetic computes, for every input.       *)
(***************************************************************************)
EXTENDS UniswapMath, TLAPS

-----------------------------------------------------------------------------
(* Shares. *)

LEMMA Division ==
    ASSUME NEW a \in Nat, NEW b \in Nat \ {0}
    PROVE  a \div b \in Nat /\ b * (a \div b) <= a /\ a < b * (a \div b) + b
  OBVIOUS

LEMMA TimesMonotone ==
    ASSUME NEW a \in Nat, NEW b \in Nat, a <= b, NEW c \in Nat
    PROVE  a * c <= b * c
  OBVIOUS

LEMMA AboveQuotient ==
    ASSUME NEW n \in Nat, NEW b \in Nat \ {0}, NEW x \in Nat, n \div b <= x
    PROVE  n < (x + 1) * b
  <1> DEFINE d == n \div b
  <1>1. d \in Nat /\ n < b * d + b
    BY Division
  <1>2. d + 1 \in Nat /\ x + 1 \in Nat /\ d + 1 <= x + 1
    BY <1>1
  <1>3. (d + 1) * b <= (x + 1) * b
    BY <1>2, TimesMonotone
  <1>4. (d + 1) * b = b * d + b /\ b * d + b \in Nat /\ (x + 1) * b \in Nat
    BY <1>1
  <1> HIDE DEF d
  <1> QED
    BY <1>1, <1>3, <1>4

LEMMA BelowQuotient ==
    ASSUME NEW n \in Nat, NEW b \in Nat \ {0}, NEW x \in Nat, x <= n \div b
    PROVE  x * b <= n
  <1> DEFINE d == n \div b
  <1>1. d \in Nat /\ b * d <= n
    BY Division
  <1>2. x * b <= d * b
    BY <1>1, TimesMonotone
  <1>3. d * b = b * d /\ b * d \in Nat /\ x * b \in Nat
    BY <1>1
  <1> HIDE DEF d
  <1> QED
    BY <1>1, <1>2, <1>3

\* A part is at most the amount, and never more than its share.
LEMMA PartBounds ==
    ASSUME NEW amount \in Nat, NEW share \in 0..Bps
    PROVE  /\ Part(amount, share) \in 0..amount
           /\ Part(amount, share) * Bps <= amount * share
  <1>1. amount * share \in Nat /\ amount * share <= amount * Bps
    BY MathAssumption
  <1>2. Part(amount, share) \in Nat /\ Bps * Part(amount, share) <= amount * share
    BY <1>1, Division, MathAssumption DEF Part
  <1>3. Part(amount, share) <= amount
    BY <1>1, <1>2, MathAssumption
  <1> QED
    BY <1>2, <1>3, MathAssumption

\* Of a larger amount the same share is no smaller.
LEMMA PartMonotone ==
    ASSUME NEW a \in Nat, NEW b \in Nat, a <= b, NEW share \in 0..Bps
    PROVE  Part(a, share) <= Part(b, share)
  BY MathAssumption DEF Part
-----------------------------------------------------------------------------
(* Ticks. *)

\* TickFloor rounds down, also for negative ticks, where Solidity's division
\* rounds up.
THEOREM TickFloorIsFloor ==
    ASSUME NEW tick \in Int, NEW spacing \in Nat \ {0}
    PROVE  /\ TickFloor(tick, spacing) \in Int
           /\ TickFloor(tick, spacing) <= tick
           /\ tick < TickFloor(tick, spacing) + spacing
  BY Division DEF TickFloor, Quotient, Remainder

\* ... to a tick the pool can use.
THEOREM TickFloorIsUsable ==
    ASSUME NEW tick \in Int, NEW spacing \in Nat \ {0}
    PROVE  \E k \in Int : TickFloor(tick, spacing) = k * spacing
  <1> DEFINE q == Quotient(tick, spacing)
  <1>1. q \in Int
    BY Division DEF Quotient
  <1>2. CASE tick < 0 /\ Remainder(tick, spacing) # 0
    <2>1. TickFloor(tick, spacing) = q * spacing - spacing
      BY <1>2 DEF TickFloor
    <2>2. q - 1 \in Int /\ (q - 1) * spacing = q * spacing - spacing
      BY <1>1
    <2> QED
      BY <2>1, <2>2
  <1>3. CASE ~(tick < 0 /\ Remainder(tick, spacing) # 0)
    BY <1>1, <1>3 DEF TickFloor
  <1> QED
    BY <1>2, <1>3

\* The range a launch gets lies above the current tick when the launch token is
\* token0 and not above it otherwise: minting into it takes launch tokens only.
THEOREM SingleSided ==
    ASSUME NEW tick \in Int, NEW spacing \in Nat \ {0}
    PROVE  /\ SingleSidedTicks(tick, spacing, TRUE).lower > tick
           /\ SingleSidedTicks(tick, spacing, FALSE).upper <= tick
  BY TickFloorIsFloor DEF SingleSidedTicks

\* AverageTick is the mean tick rounded down, as Uniswap's own oracle rounds it.
THEOREM AverageTickIsFloor ==
    ASSUME NEW tickDelta \in Int, NEW window \in Nat \ {0}
    PROVE  /\ AverageTick(tickDelta, window) \in Int
           /\ AverageTick(tickDelta, window) * window <= tickDelta
           /\ tickDelta < (AverageTick(tickDelta, window) + 1) * window
  BY Division DEF AverageTick, Quotient, Remainder
-----------------------------------------------------------------------------
(* The price limit. *)

\* A buyback moves the price in its own direction only, by at most the impact
\* allowed, and stays inside the prices the pool accepts.
THEOREM PriceLimitIsClose ==
    ASSUME NEW price \in (MinPrice + 1)..(MaxPrice - 1)
    PROVE  /\ PriceLimit(price, TRUE) \in (MinPrice + 1)..price
           /\ (PriceLimit(price, TRUE) + 1) * Bps > price * (Bps - MaxImpact)
           /\ PriceLimit(price, FALSE) \in price..(MaxPrice - 1)
           /\ PriceLimit(price, FALSE) * Bps <= price * (Bps + MaxImpact)
  <1>1. /\ price \in Nat /\ Bps \in Nat \ {0} /\ MaxImpact \in Nat /\ MaxImpact <= Bps
        /\ MinPrice \in Nat /\ MaxPrice \in Nat
    BY MathAssumption
  <1> DEFINE down == price * (Bps - MaxImpact)
             up == price * (Bps + MaxImpact)
  <1>2. /\ down \in Nat /\ down <= price * Bps
        /\ up \in Nat /\ price * Bps <= up
    BY <1>1
  <1>3. /\ down \div Bps \in Nat
        /\ Bps * (down \div Bps) <= down /\ down < Bps * (down \div Bps) + Bps
        /\ up \div Bps \in Nat
        /\ Bps * (up \div Bps) <= up /\ up < Bps * (up \div Bps) + Bps
    BY <1>1, <1>2, Division
  <1>4. down \div Bps <= price
    BY <1>1, <1>2, <1>3
  <1>5. price <= up \div Bps
    BY <1>1, <1>2, <1>3
  <1>6. PriceLimit(price, TRUE) \in (MinPrice + 1)..price
    BY <1>1, <1>3, <1>4 DEF PriceLimit
  <1>7. PriceLimit(price, FALSE) \in price..(MaxPrice - 1)
    BY <1>1, <1>3, <1>5 DEF PriceLimit
  <1>8. PriceLimit(price, TRUE) \in Nat /\ down \div Bps <= PriceLimit(price, TRUE)
    BY <1>1, <1>3 DEF PriceLimit
  <1>9. PriceLimit(price, FALSE) \in Nat /\ PriceLimit(price, FALSE) <= up \div Bps
    BY <1>1, <1>3, <1>7 DEF PriceLimit
  <1> HIDE DEF down, up
  <1>10. down < (PriceLimit(price, TRUE) + 1) * Bps
    BY <1>1, <1>2, <1>8, AboveQuotient
  <1>11. PriceLimit(price, FALSE) * Bps <= up
    BY <1>1, <1>2, <1>9, BelowQuotient
  <1> QED
    BY <1>2, <1>6, <1>7, <1>10, <1>11 DEF down, up
=============================================================================
