--------------------------- MODULE PancakeActions ---------------------------
(***************************************************************************)
(* The PancakeSwap V3 actions of a vault: swap, swap to the ratio of a      *)
(* range, mint, increase, decrease and collect a position.  What the vault  *)
(* computes is modelled exactly: the range around the live tick, the amount *)
(* to sell, the share to remove.  Pool, router and position manager are     *)
(* external: the market moves, a trade pays at most its value, and a        *)
(* deposit takes one token to its end.                                      *)
(*                                                                         *)
(* Solidity divides signed integers towards zero.                           *)
(***************************************************************************)
EXTENDS Integers

CONSTANTS
    Tick,        \* ticks the market may be at
    Spacing,     \* tickSpacing of the pool
    Delta,       \* half-widths a step may ask for
    SqrtRatio,   \* TickMath.getSqrtRatioAtTick, increasing
    Q96,         \* the unit of a square-root price
    Percent,     \* shares a step may remove
    MaxBalance,  \* bound: tokens of each kind in the state
    Funds        \* larger balances, for the sizing of the swap alone

\* Ratios grow with the tick, as TickMath's do.
ASSUME TicksAssumption ==
    /\ Q96 \in Nat \ {0} /\ Spacing \in Nat \ {0} /\ Delta \subseteq Nat /\ Funds \subseteq Nat
    /\ \A t \in DOMAIN SqrtRatio : t \in Int /\ SqrtRatio[t] \in Nat \ {0}
    /\ \A s, t \in DOMAIN SqrtRatio : s < t => SqrtRatio[s] < SqrtRatio[t]
    /\ \A t \in Tick : t \in DOMAIN SqrtRatio /\ t + 1 \in DOMAIN SqrtRatio

VARIABLES
    tick, sqrtP,    \* slot0 of the pool
    bal0, bal1,     \* the vault's balances
    position        \* the position whose id is in the context slot

lpVars == <<tick, sqrtP, bal0, bal1, position>>

NoPosition == [lower |-> 0, upper |-> 0, liquidity |-> 0, owed0 |-> 0, owed1 |-> 0]
PricesAt(t) == SqrtRatio[t] .. SqrtRatio[t + 1] - 1
Held == 0 .. MaxBalance

LpTypeOK ==
    /\ tick \in Tick
    /\ sqrtP \in PricesAt(tick)
    /\ bal0 \in Held /\ bal1 \in Held
    /\ position \in [lower : Int, upper : Int, liquidity : Nat, owed0 : Nat, owed1 : Nat]

LpInit ==
    /\ tick \in Tick /\ sqrtP \in PricesAt(tick)
    /\ bal0 \in Held /\ bal1 = 0
    /\ position = NoPosition

(***************************************************************************)
(* The range around the live tick.                                         *)
(***************************************************************************)

Quotient(x, s) == IF x >= 0 THEN x \div s ELSE -((-x) \div s)
OnGrid(x, s) == x = Quotient(x, s) * s

\* A floor that forgets that Solidity rounds towards zero.
roundDown_Truncates(x, s) == Quotient(x, s) * s

roundDown(x, s) == Quotient(x, s) * s - (IF x < 0 /\ ~OnGrid(x, s) THEN s ELSE 0)
roundUp(x, s) == Quotient(x, s) * s + (IF x > 0 /\ ~OnGrid(x, s) THEN s ELSE 0)

\* _resolveTicks of the mint, and the same lines of the swap before it.
resolveTicks(t, delta, s) ==
    LET lower == roundDown(t - delta, s)
        upper == roundUp(t + delta, s)
    IN [lower |-> lower, upper |-> IF lower = upper THEN upper + s ELSE upper]

\* TickMath reverts beyond its ticks.
ASSUME RangesAssumption ==
    \A t \in Tick, delta \in Delta :
        LET r == resolveTicks(t, delta, Spacing) IN
        r.lower \in DOMAIN SqrtRatio /\ r.upper \in DOMAIN SqrtRatio

(***************************************************************************)
(* The swap to the ratio of the range.                                     *)
(***************************************************************************)

Clamp(x, low, high) == IF x < low THEN low ELSE IF x > high THEN high ELSE x
Least(x, y) == IF x < y THEN x ELSE y

\* The legs of a deposit in the range, in token1: r0 = A / (A + B).
Legs(delta) ==
    LET r == resolveTicks(tick, delta, Spacing)
        sa == SqrtRatio[r.lower]
        sb == SqrtRatio[r.upper]
        sp == Clamp(sqrtP, sa, sb)
    IN [sp |-> sp, A |-> (sp * (sb - sp)) \div sb, B |-> sp - sa]

\* The price applied once instead of twice.
toToken0_Once(x, sp) == (x * Q96) \div sp

toToken1(x, sp) == (((x * sp) \div Q96) * sp) \div Q96
toToken0(x, sp) == (((x * Q96) \div sp) * Q96) \div sp

\* What is sold of the balances b0 and b1 for the legs l: in0 of token0 or in1 of
\* token1.
Sale(l, b0, b1) ==
    LET value0 == toToken1(b0, l.sp)
        target0 == ((value0 + b1) * l.A) \div (l.A + l.B)
    IN CASE l.A + l.B = 0 -> [in0 |-> 0, in1 |-> 0]
         [] l.A + l.B > 0 /\ value0 > target0 ->
              [in0 |-> Least(toToken0(value0 - target0, l.sp), b0), in1 |-> 0]
         [] OTHER -> [in0 |-> 0, in1 |-> Least(target0 - value0, b1)]

\* exactInputSingle: at most the value at the price of before.
swap(in0, in1) ==
    \E out0, out1 \in Held :
        /\ out0 * sqrtP * sqrtP <= in1 * Q96 * Q96
        /\ out1 * Q96 * Q96 <= in0 * sqrtP * sqrtP
        /\ bal0' = bal0 - in0 + out0 /\ bal0' <= MaxBalance
        /\ bal1' = bal1 - in1 + out1 /\ bal1' <= MaxBalance

\* The market, a trade's own impact included.
moveMarket ==
    /\ tick' \in Tick /\ sqrtP' \in PricesAt(tick')
    /\ UNCHANGED <<bal0, bal1, position>>

swapToRangeRatio(delta) ==
    /\ LET s == Sale(Legs(delta), bal0, bal1) IN swap(s.in0, s.in1)
    /\ UNCHANGED <<tick, sqrtP, position>>

\* The plain swap: a balance, or a part of it.
swapStep ==
    \E in0 \in 0 .. bal0, in1 \in 0 .. bal1 :
        /\ (in0 = 0) # (in1 = 0)
        /\ swap(in0, in1)
        /\ UNCHANGED <<tick, sqrtP, position>>

(***************************************************************************)
(* The position.                                                           *)
(***************************************************************************)

\* A deposit of both balances into the range r: one of them is used up, and
\* outside of the range only one of the tokens is taken.
Deposit(r, liquidity) ==
    \E use0 \in 0 .. bal0, use1 \in 0 .. bal1 :
        /\ tick < r.lower => use0 = bal0 /\ use1 = 0
        /\ tick >= r.upper => use1 = bal1 /\ use0 = 0
        /\ use0 = bal0 \/ use1 = bal1
        /\ use0 + use1 > 0
        /\ bal0' = bal0 - use0 /\ bal1' = bal1 - use1
        /\ liquidity = use0 + use1

\* Mint in the preset mode, with the full balances.  The id of the new
\* position replaces the one in the slot.
mint(delta) ==
    LET r == resolveTicks(tick, delta, Spacing) IN
    /\ \E liquidity \in 1 .. 2 * MaxBalance :
         /\ Deposit(r, liquidity)
         /\ position' = [NoPosition EXCEPT !.lower = r.lower, !.upper = r.upper,
                                           !.liquidity = liquidity]
    /\ UNCHANGED <<tick, sqrtP>>

increaseLiquidity ==
    /\ position # NoPosition
    /\ \E liquidity \in 1 .. 2 * MaxBalance :
         /\ Deposit(position, liquidity)
         /\ position' = [position EXCEPT !.liquidity = @ + liquidity]
    /\ position.liquidity' <= 2 * MaxBalance
    /\ UNCHANGED <<tick, sqrtP>>

\* Trading fees accrue to the position.
accrue ==
    /\ position.liquidity > 0
    /\ position.owed0 + position.owed1 = 0
    /\ \/ position' = [position EXCEPT !.owed0 = 1]
       \/ position' = [position EXCEPT !.owed1 = 1]
    /\ UNCHANGED <<tick, sqrtP, bal0, bal1>>

\* decreaseLiquidity of a share, then collect of everything owed.
decreaseLiquidity(percent) ==
    LET removed == (position.liquidity * percent) \div 100 IN
    /\ position # NoPosition
    /\ \E free0 \in 0 .. removed :
         /\ bal0' = bal0 + free0 + position.owed0 /\ bal0' <= MaxBalance
         /\ bal1' = bal1 + removed - free0 + position.owed1 /\ bal1' <= MaxBalance
    /\ position' = [position EXCEPT !.liquidity = @ - removed, !.owed0 = 0, !.owed1 = 0]
    /\ UNCHANGED <<tick, sqrtP>>

collect ==
    /\ position.owed0 + position.owed1 > 0
    /\ bal0' = bal0 + position.owed0 /\ bal0' <= MaxBalance
    /\ bal1' = bal1 + position.owed1 /\ bal1' <= MaxBalance
    /\ position' = [position EXCEPT !.owed0 = 0, !.owed1 = 0]
    /\ UNCHANGED <<tick, sqrtP>>

LpNext ==
    \/ moveMarket
    \/ \E delta \in Delta : swapToRangeRatio(delta) \/ mint(delta)
    \/ swapStep
    \/ increaseLiquidity
    \/ \E percent \in Percent : decreaseLiquidity(percent)
    \/ collect
    \/ accrue

LpSpec == LpInit /\ [][LpNext]_lpVars

(***************************************************************************)
(* Properties.                                                             *)
(***************************************************************************)

\* A range lies on the grid, holds the tick it was computed for, on either
\* side of zero, and is at most one spacing wider on each side.
RangeHolds(t, delta, s) ==
    LET r == resolveTicks(t, delta, s) IN
    /\ OnGrid(r.lower, s) /\ OnGrid(r.upper, s)
    /\ r.lower <= t - delta /\ t + delta <= r.upper /\ t < r.upper
    /\ t - delta - s < r.lower /\ r.upper <= t + delta + s

\* A position minted now earns fees at once (_resolveTicks, _roundDown, _roundUp).
RangeHoldsTick == \A delta \in Delta : RangeHolds(tick, delta, Spacing)

\* After the swap, at the price it was sized with, the values of the two
\* balances stand in the ratio of the range, up to one unit of each token and
\* the rounding of the two-stage price, and no more is sold than is held
\* (PancakeSwapV3SwapToRangeRatioAction.sol, execute).
RatioMet ==
    \A delta \in Delta :
        LET l == Legs(delta) IN
        \A b0, b1 \in Funds :
            LET s == Sale(l, b0, b1)
                value0 == (b0 - s.in0) * l.sp * l.sp + s.in1 * Q96 * Q96
                value1 == (b1 - s.in1) * Q96 * Q96 + s.in0 * l.sp * l.sp
                unit == l.A + l.B
            IN /\ s.in0 <= b0 /\ s.in1 <= b1
               /\ value0 * l.B + unit * Q96 * Q96 >= value1 * l.A
               /\ value0 * l.B <= value1 * l.A + unit * (l.sp + Q96) * (l.sp + Q96)

\* A mint and a swap to the ratio work wherever the market is.
LpStepsWork == RangeHoldsTick /\ RatioMet
=============================================================================
