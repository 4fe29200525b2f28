----------------------------- MODULE FeeLedger -----------------------------
(***************************************************************************)
(* The money that FeeRegistry.sol and the vaults move, as a value, and the *)
(* registry's calls as operators on that value.  A transaction that makes  *)
(* several calls (a vault's withdraw, an automation run) composes the      *)
(* operators in the order of the calls; a call that reverts is one whose   *)
(* guard is false.                                                         *)
(*                                                                         *)
(* A ledger m has three parts:                                             *)
(*   m.bal[t][a]   balanceOf(a) in the ERC-20 token t                      *)
(*   m.dep[t][v]   vaultDeposits[v][t], the pre-funded gas compensation    *)
(*   m.fees[t]     collectedFees[t]                                        *)
(* Tokens are plain ERC-20s: a transfer moves exactly the amount asked     *)
(* for, or reverts.                                                        *)
(***************************************************************************)
EXTENDS Naturals, FiniteSets

CONSTANTS
    Token,      \* ERC-20 contracts
    Account,    \* every address that can hold tokens or a deposit
    Registry,   \* the address of the FeeRegistry
    BPS,        \* basis points in a whole (10_000)
    WAD         \* one US dollar in 18-decimals fixed point (1e18)

ASSUME FeeLedgerAssumption ==
    /\ IsFiniteSet(Account)
    /\ Registry \in Account
    /\ BPS \in Nat \ {0}
    /\ WAD \in Nat \ {0}

Ledger == [bal  : [Token -> [Account -> Nat]],
           dep  : [Token -> [Account -> Nat]],
           fees : [Token -> Nat]]

-----------------------------------------------------------------------------
(* Sums.  Total(f) counts the units <<a, k>> with 1 <= k <= f[a], which is  *)
(* the sum of f over its (finite) domain.                                  *)

Units(f) == UNION {{a} \X (1 .. f[a]) : a \in DOMAIN f}

Total(f) == Cardinality(Units(f))

\* What the registry owes in token t.
Booked(m, t) == Total(m.dep[t]) + m.fees[t]

Solvent(m) == \A t \in Token : Booked(m, t) <= m.bal[t][Registry]

\* From m to n, what the registry holds beyond its books does not shrink.
KeepsSurplus(m, n) ==
    \A t \in Token :
        m.bal[t][Registry] + Booked(n, t) <= n.bal[t][Registry] + Booked(m, t)

-----------------------------------------------------------------------------
(* ERC-20 transfer and transferFrom.                                       *)

CanPay(m, t, from, amount) == amount <= m.bal[t][from]

Transfer(m, t, from, to, amount) ==
    LET paid == [m.bal[t] EXCEPT ![from] = @ - amount]
    IN  [m EXCEPT !.bal[t] = [paid EXCEPT ![to] = @ + amount]]

-----------------------------------------------------------------------------
(* The registry's state-changing calls.                                    *)

\* A flat fee in basis points, rounded down as Solidity's division does.
Fee(amount, bps) == (amount * bps) \div BPS

CanCollectFee(m, t, caller, amount) == amount = 0 \/ CanPay(m, t, caller, amount)

CollectFee(m, t, caller, amount) ==
    IF amount = 0
    THEN m
    ELSE LET pulled == Transfer(m, t, caller, Registry, amount)
         IN  [pulled EXCEPT !.fees[t] = @ + amount]

\* depositFor also requires that the token is enabled: see its callers.
DepositFor(m, t, caller, vault, amount) ==
    LET pulled == Transfer(m, t, caller, Registry, amount)
    IN  [pulled EXCEPT !.dep[t][vault] = @ + amount]

\* Pays `amount` of vault's deposit to `to`: the common tail of
\* withdrawDeposit and deductGasComp.
PayFromDeposit(m, t, vault, to, amount) ==
    LET booked == [m EXCEPT !.dep[t][vault] = @ - amount]
    IN  Transfer(booked, t, Registry, to, amount)

\* withdrawFees zeroes the book before it pays the owner.
WithdrawFees(m, t, to) ==
    LET booked == [m EXCEPT !.fees[t] = 0]
    IN  Transfer(booked, t, Registry, to, m.fees[t])

-----------------------------------------------------------------------------
(* Gas compensation.  cfg is the registry's gas configuration, tok the     *)
(* TokenConfig of the fee token, with unit = 10 ** decimals.  An oracle    *)
(* call that fails and one that answers 0 are treated alike by the code:   *)
(* both are price 0 here.                                                  *)

FeeTokenAmount(tok, feeUSD, tokenPrice) ==
    IF feeUSD = 0 \/ ~tok.enabled THEN 0
    ELSE IF tokenPrice > 0   THEN (feeUSD * tok.unit) \div tokenPrice
    ELSE IF tok.unit >= WAD  THEN feeUSD * (tok.unit \div WAD)
    ELSE                          feeUSD \div (WAD \div tok.unit)

EstimateWithPrice(cfg, tok, totalGas, gasPrice, nativePrice, tokenPrice) ==
    LET costUSD == (totalGas * gasPrice * nativePrice) \div WAD
        compUSD == costUSD + Fee(costUSD, cfg.markupBps)
    IN  IF gasPrice = 0 THEN 0 ELSE FeeTokenAmount(tok, compUSD, tokenPrice)

\* estimateGasComp: what the off-chain callers are shown.
EstimateGasComp(cfg, tok, gasUsed, gasPrice, nativePrice, tokenPrice) ==
    IF ~cfg.oracle \/ nativePrice = 0
    THEN 0
    ELSE EstimateWithPrice(cfg, tok, gasUsed + cfg.overhead, gasPrice,
                           nativePrice, tokenPrice)

\* Mutant: the cap replaces the gas price instead of bounding it.
ComputeGasComp_CapIsPrice(cfg, tok, gasUsed, txGasPrice, nativePrice, tokenPrice) ==
    LET capped == IF cfg.maxGasPrice > 0 THEN cfg.maxGasPrice ELSE txGasPrice
    IN  IF ~cfg.oracle \/ nativePrice = 0
        THEN 0
        ELSE EstimateWithPrice(cfg, tok, gasUsed + cfg.overhead, capped,
                               nativePrice, tokenPrice)

\* _computeGasComp: what an execution is charged.
ComputeGasComp(cfg, tok, gasUsed, txGasPrice, nativePrice, tokenPrice) ==
    LET capped == IF cfg.maxGasPrice > 0 /\ txGasPrice > cfg.maxGasPrice
                  THEN cfg.maxGasPrice ELSE txGasPrice
    IN  IF ~cfg.oracle \/ nativePrice = 0
        THEN 0
        ELSE EstimateWithPrice(cfg, tok, gasUsed + cfg.overhead, capped,
                               nativePrice, tokenPrice)
=============================================================================
