----------------------------- MODULE AaveActions -----------------------------
(***************************************************************************)
(* The four Aave V3 actions of a vault.  Each resolves an amount from its   *)
(* mode (a fixed one, one read from a context slot, the protocol's maximum, *)
(* or what moves the health factor to a target), makes one call of the Pool *)
(* and writes what was moved to a context slot.  The Pool and its oracle    *)
(* are external; they are modelled by what the actions rely on.             *)
(*                                                                         *)
(* The code's fixed-point units are kept and scaled down: a price is base   *)
(* units per Unit of token, Norm is the step from Aave's 8-decimal base     *)
(* units to the 18 decimals the actions compute with, Bps and Wad are the   *)
(* denominators of thresholds and health factors.                           *)
(***************************************************************************)
EXTENDS Integers, FiniteSetsExt

CONSTANTS
    Asset,       \* listed tokens
    LT,          \* liquidation threshold of each asset, in Bps
    LTV,         \* loan-to-value of each asset, in Bps
    AssetPrice,  \* prices the oracle may report
    Balance,     \* the vault's first balance of each asset
    FixedAmount, \* amounts a FIXED or FROM_SLOT step may ask for
    Target,      \* health factors a TARGET_HF step may ask for, in Wad
    Unit, Norm, Bps, Wad,
    MinTargetHF, \* MIN_TARGET_HF, in Wad
    HaircutBps   \* HAIRCUT_BPS

\* The Pool counts no token as collateral that has no threshold.
ASSUME AaveAssumption ==
    /\ IsFiniteSet(Asset) /\ LT \in [Asset -> Nat \ {0}] /\ LTV \in [Asset -> Nat]
    /\ AssetPrice \subseteq Nat \ {0} /\ Balance \in [Asset -> Nat]
    /\ FixedAmount \subseteq Nat /\ Target \subseteq Nat /\ MinTargetHF \in Nat
    /\ {Unit, Norm, Bps, Wad} \subseteq Nat \ {0} /\ HaircutBps \in 0 .. Bps

VARIABLES
    wallet,      \* the vault's token balances
    supplied,    \* its aTokens
    owed,        \* its variable debt
    price        \* the oracle

aaveVars == <<wallet, supplied, owed, price>>

AaveTypeOK ==
    /\ wallet \in [Asset -> Nat]
    /\ supplied \in [Asset -> Nat]
    /\ owed \in [Asset -> Nat]
    /\ price \in [Asset -> AssetPrice]

AaveInit ==
    /\ wallet = Balance
    /\ supplied = [a \in Asset |-> 0]
    /\ owed = [a \in Asset |-> 0]
    /\ price \in [Asset -> AssetPrice]

Lower(x, y) == IF x < y THEN x ELSE y

(***************************************************************************)
(* The Pool.                                                               *)
(***************************************************************************)

BaseOf(x, a) == (x * price[a]) \div Unit

\* getUserAccountData for the balances s and debts o.
BaseTotal(f) == MapThenSumSet(LAMBDA a : f[a], Asset)
Collateral(s) == BaseTotal([a \in Asset |-> BaseOf(s[a], a)])
Debt(o) == BaseTotal([a \in Asset |-> BaseOf(o[a], a)])
Average(bps, s) ==
    IF Collateral(s) = 0 THEN 0
    ELSE BaseTotal([a \in Asset |-> BaseOf(s[a], a) * bps[a]]) \div Collateral(s)
BorrowLimit == (Collateral(supplied) * Average(LTV, supplied)) \div Bps
Available == IF BorrowLimit > Debt(owed) THEN BorrowLimit - Debt(owed) ELSE 0

Healthy(s, o) == Debt(o) = 0 \/ Collateral(s) * Average(LT, s) >= Debt(o) * Bps

\* What a call of the Pool does: whether it succeeds, and what it moves.
Reverts == [ok |-> FALSE, moved |-> 0]
Moves(x) == [ok |-> TRUE, moved |-> x]

All == -1   \* type(uint256).max

poolSupply(a, x) == IF x \in 1 .. wallet[a] THEN Moves(x) ELSE Reverts
poolWithdraw(a, x) ==
    LET out == IF x = All THEN supplied[a] ELSE x IN
    IF out \in 1 .. supplied[a] /\ Healthy([supplied EXCEPT ![a] = @ - out], owed)
    THEN Moves(out) ELSE Reverts
poolBorrow(a, x) ==
    IF x > 0 /\ Debt([owed EXCEPT ![a] = @ + x]) <= BorrowLimit THEN Moves(x) ELSE Reverts
poolRepay(a, x) ==
    LET in == IF x = All THEN owed[a] ELSE Lower(x, owed[a]) IN
    IF in \in 1 .. wallet[a] THEN Moves(in) ELSE Reverts

(***************************************************************************)
(* ActionLib.                                                              *)
(***************************************************************************)

baseToToken(base, a) == (base * Unit) \div (price[a] * Norm)

\* The maximum without its safety margin.
applyHaircut_None(base) == base

applyHaircut(base) == (base * (Bps - HaircutBps)) \div Bps

\* The target of a code that forgets the threshold.
targetDebtBase_NoThreshold(t) == (Norm * Collateral(supplied) * Wad) \div t

targetDebtBase(t) ==
    (Norm * Collateral(supplied) * Average(LT, supplied) * Wad) \div (Bps * t)
targetCollateralBase(t) ==
    IF Average(LT, supplied) = 0 THEN 0
    ELSE (t * Norm * Debt(owed) * Bps) \div (Average(LT, supplied) * Wad)
collateralFloor == (Norm * Debt(owed) * Bps) \div Average(LT, supplied)
maxSafeWithdrawBase ==
    IF Average(LT, supplied) = 0 \/ Norm * Collateral(supplied) <= collateralFloor THEN 0
    ELSE applyHaircut(Norm * Collateral(supplied) - collateralFloor)

(***************************************************************************)
(* The amounts of the oracle-bound modes; 0 makes the step do nothing.      *)
(***************************************************************************)

Excess(x, y) == IF x > y THEN x - y ELSE 0

targetHfSupply(a, t) ==
    IF Debt(owed) = 0 THEN 0
    ELSE Lower(wallet[a],
               baseToToken(Excess(targetCollateralBase(t), Norm * Collateral(supplied)), a))
maxWithdraw(a) ==
    IF Debt(owed) = 0 THEN All ELSE Lower(supplied[a], baseToToken(maxSafeWithdrawBase, a))
targetHfWithdraw(a, t) ==
    IF Debt(owed) = 0 THEN 0
    ELSE Lower(supplied[a],
               baseToToken(Excess(Norm * Collateral(supplied), targetCollateralBase(t)), a))
maxBorrow(a) == IF Available = 0 THEN 0 ELSE baseToToken(applyHaircut(Norm * Available), a)
targetHfBorrow(a, t) == baseToToken(Excess(targetDebtBase(t), Norm * Debt(owed)), a)
maxRepay(a) ==
    IF owed[a] = 0 \/ wallet[a] = 0 THEN 0
    ELSE IF wallet[a] >= owed[a] THEN All ELSE wallet[a]
targetHfRepay(a, t) ==
    IF Debt(owed) = 0 THEN 0
    ELSE Lower(wallet[a], baseToToken(Excess(Norm * Debt(owed), targetDebtBase(t)), a))

\* The modes of a step: its name and its parameter.
Fixed == {[mode |-> "fixed", value |-> x] : x \in FixedAmount}   \* FROM_SLOT, too
Maximum == [mode |-> "max", value |-> 0]
ToTarget == {[mode |-> "target", value |-> t] : t \in Target}
Mode == Fixed \cup {Maximum} \cup ToTarget
Op == {"supply", "withdraw", "borrow", "repay"}

resolveAmount(op, a, m) ==
    CASE m.mode = "fixed" -> m.value
      [] m = Maximum ->
            (CASE op = "supply" -> wallet[a] [] op = "withdraw" -> maxWithdraw(a)
               [] op = "borrow" -> maxBorrow(a) [] OTHER -> maxRepay(a))
      [] OTHER ->
            (CASE op = "supply" -> targetHfSupply(a, m.value)
               [] op = "withdraw" -> targetHfWithdraw(a, m.value)
               [] op = "borrow" -> targetHfBorrow(a, m.value)
               [] OTHER -> targetHfRepay(a, m.value))

pool(op, a, x) ==
    CASE op = "supply" -> poolSupply(a, x) [] op = "withdraw" -> poolWithdraw(a, x)
      [] op = "borrow" -> poolBorrow(a, x) [] OTHER -> poolRepay(a, x)

\* Why execute itself reverts, before it calls the Pool.
Refused(m) ==
    \/ m.mode = "fixed" /\ m.value = 0
    \/ m.mode = "target" /\ m.value <= MinTargetHF

\* execute: what the whole step does.
execute(op, a, m) ==
    LET x == resolveAmount(op, a, m) IN
    IF Refused(m) THEN Reverts ELSE IF x = 0 THEN Moves(0) ELSE pool(op, a, x)

\* The vault after `x` of asset a was moved by op.
SuppliedAfter(op, a, x) ==
    CASE op = "supply" -> [supplied EXCEPT ![a] = @ + x]
      [] op = "withdraw" -> [supplied EXCEPT ![a] = @ - x]
      [] OTHER -> supplied
OwedAfter(op, a, x) ==
    CASE op = "borrow" -> [owed EXCEPT ![a] = @ + x]
      [] op = "repay" -> [owed EXCEPT ![a] = @ - x]
      [] OTHER -> owed

\* A step of an automation; the run of a step that reverts leaves no trace.
step(op, a, m) ==
    LET done == execute(op, a, m) IN
    /\ done.ok
    /\ supplied' = SuppliedAfter(op, a, done.moved)
    /\ owed' = OwedAfter(op, a, done.moved)
    /\ wallet' = [wallet EXCEPT ![a] =
                    IF op \in {"withdraw", "borrow"} THEN @ + done.moved ELSE @ - done.moved]
    /\ UNCHANGED price

movePrice ==
    /\ price' \in [Asset -> AssetPrice]
    /\ UNCHANGED <<wallet, supplied, owed>>

AaveNext ==
    \/ \E op \in Op, a \in Asset, m \in Mode : step(op, a, m)
    \/ movePrice

AaveSpec == AaveInit /\ [][AaveNext]_aaveVars

(***************************************************************************)
(* Properties.                                                             *)
(***************************************************************************)

\* The step leaves the average threshold of the collateral as it is.
OneThreshold(op, a) ==
    op \in {"supply", "withdraw"} => \A b \in Asset : supplied[b] > 0 => LT[b] = LT[a]

\* Less than one base unit stays above health factor 1: of a withdrawal to a
\* target, or of the safety margin of a maximal one.
DustAt(t) == targetCollateralBase(t) - collateralFloor < Norm
DustMargin == (Norm * Collateral(supplied) - collateralFloor) * HaircutBps < Norm * Bps

\* The steps with an oracle-bound mode that do revert.
NamedRevert(op, a, m) ==
    \/ Refused(m)
    \* MAX with no debt asks for everything, and there is nothing.
    \/ op = "withdraw" /\ m = Maximum /\ Debt(owed) = 0 /\ supplied[a] = 0
    \/ op = "withdraw" /\ ~OneThreshold(op, a)
    \/ op = "withdraw" /\ m = Maximum /\ DustMargin
    \/ op = "withdraw" /\ m.mode = "target" /\ DustAt(m.value)
    \* The target is computed from the threshold, the Pool lends up to the LTV.
    \/ op = "borrow" /\ m.mode = "target" /\ targetDebtBase(m.value) > Norm * BorrowLimit
    \* The debt is in other assets.
    \/ op = "repay" /\ m.mode = "target" /\ owed[a] = 0

\* MAX_AVAILABLE and TARGET_HF never make a run revert but in the cases named
\* (AaveV3WithdrawAction.sol 69-70, AaveV3RepayAction.sol 25): whatever the
\* prices do, the amount asked for is one the Pool accepts.
OracleModesDoNotRevert ==
    \A op \in Op, a \in Asset, m \in {Maximum} \cup ToTarget :
        execute(op, a, m).ok \/ NamedRevert(op, a, m)

\* The health factor of collateral c and debt d, compared with t.
AtMost(c, d, t) == c * Average(LT, supplied) * Wad <= t * d * Bps
AtLeast(c, d, t) == c * Average(LT, supplied) * Wad >= t * d * Bps

\* TARGET_HF moves the health factor to its target: never across it by more
\* than one base unit, in the wrong direction not at all, and short of it by
\* less than a token, unless the vault has no more to move.  With collateral
\* of different thresholds the code misses: it sizes the step with the average
\* of before (_targetHfAmount, _targetHfWithdraw, _targetHfBorrow, _targetHfRepay).
TargetMet ==
    Debt(owed) > 0 /\ Collateral(supplied) > 0 =>
    \A op \in Op, a \in Asset, m \in ToTarget :
        LET done == execute(op, a, m)
            t == m.value
            c == Collateral(SuppliedAfter(op, a, done.moved))
            d == Debt(OwedAfter(op, a, done.moved))
            token == BaseOf(1, a) + 2
        IN  done.ok /\ OneThreshold(op, a) =>
              /\ done.moved > 0 =>
                   CASE op = "supply" -> AtMost(c - 1, d, t)
                     [] op = "repay" -> AtMost(c, d + 1, t)
                     [] op = "withdraw" -> AtLeast(c + 1, d, t)
                     [] OTHER -> AtLeast(c, d - 1, t)
              /\ CASE op = "supply" -> done.moved < wallet[a] => AtLeast(c + token, d, t)
                   [] op = "repay" ->
                        done.moved < Lower(wallet[a], owed[a]) => AtLeast(c, d - token, t)
                   [] op = "withdraw" -> done.moved < supplied[a] => AtMost(c - token, d, t)
                   [] OTHER -> AtMost(c, d + token, t)

\* The oracle's modes neither revert nor miss their target (AaveV3*Action.sol).
AaveStepsWork == OracleModesDoNotRevert /\ TargetMet
=============================================================================
