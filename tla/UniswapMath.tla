---------------------------- MODULE UniswapMath ----------------------------
(***************************************************************************)
(* The integer arithmetic of the contracts: tick ranges, the average tick  *)
(* and the price limit of a buyback, and the shares of an amount.          *)
(* Solidity's / and % on signed integers round towards zero, TLA+'s \div   *)
(* rounds down: the code's corrections for negative ticks are the point.   *)
(***************************************************************************)
EXTENDS Integers

CONSTANTS
    MaxTick,            \* MAX_TICK; MIN_TICK is -MaxTick
    MinPrice, MaxPrice, \* MIN_SQRT_RATIO and MAX_SQRT_RATIO
    Bps,                \* BPS: the whole, in shares
    MaxImpact           \* MAX_SQRT_PRICE_IMPACT_BPS

ASSUME MathAssumption ==
    /\ MaxTick \in Nat
    /\ MinPrice \in Nat /\ MaxPrice \in Nat /\ MinPrice + 1 < MaxPrice
    /\ Bps \in Nat \ {0} /\ MaxImpact \in 0..Bps

\* a / b and a % b of Solidity, for b > 0.
Quotient(a, b) == IF a >= 0 THEN a \div b ELSE -((-a) \div b)
Remainder(a, b) == a - b * Quotient(a, b)

\* The part of an amount that a share of it is worth.
Part(amount, share) == (amount * share) \div Bps

MinUsableTick(spacing) == Quotient(-MaxTick, spacing) * spacing
MaxUsableTick(spacing) == Quotient(MaxTick, spacing) * spacing

\* The greatest multiple of the spacing that is not above the tick.
TickFloor(tick, spacing) ==
    LET truncated == Quotient(tick, spacing) * spacing
    IN  IF tick < 0 /\ Remainder(tick, spacing) # 0 THEN truncated - spacing ELSE truncated

\* The range of a position that holds launch tokens only.
SingleSidedTicks(tick, spacing, launchTokenIsToken0) ==
    IF launchTokenIsToken0
    THEN [lower |-> TickFloor(tick, spacing) + spacing, upper |-> MaxUsableTick(spacing)]
    ELSE [lower |-> MinUsableTick(spacing), upper |-> TickFloor(tick, spacing)]

\* The mean tick over the window, rounded down.
AverageTick(tickDelta, window) ==
    IF tickDelta < 0 /\ Remainder(tickDelta, window) # 0
    THEN Quotient(tickDelta, window) - 1
    ELSE Quotient(tickDelta, window)

\* How far a buyback may move the price: down when it sells token0, up otherwise.
PriceLimit(price, quoteIsToken0) ==
    IF quoteIsToken0
    THEN LET raw == (price * (Bps - MaxImpact)) \div Bps
         IN  IF raw <= MinPrice THEN MinPrice + 1 ELSE raw
    ELSE LET raw == (price * (Bps + MaxImpact)) \div Bps
         IN  IF raw >= MaxPrice THEN MaxPrice - 1 ELSE raw
=============================================================================
