---------------------------- MODULE FeeRegistry ----------------------------
(***************************************************************************)
(* FeeRegistry.sol as a state machine.  Every external function is one     *)
(* action and every action is one transaction: any account may call the    *)
(* unrestricted functions for itself, the registry's owner the restricted  *)
(* ones, and anyone may also send tokens straight to the registry, which   *)
(* no function of it notices.                                              *)
(***************************************************************************)
EXTENDS FeeLedger

CONSTANTS
    MAX_FEE_BPS,    \* ceiling of the two fee rates (1_000)
    NoOwner,        \* owner() after renounceOwnership
    InitialOwner,   \* the deployer
    NewOwner,       \* whom ownerships are transferred to
    InitialBal,     \* token balances before the registry is deployed
    Amount,         \* amounts the callers try
    FeeBps,         \* fee rates the owner tries
    TokenUnit,      \* 10 ** decimals of the tokens the owner accepts
    GasConfig,      \* gas configurations the owner tries
    Gas,            \* gasUsed of an execution
    GasPrice,       \* tx.gasprice
    Price           \* oracle answers; 0 stands for a failed call too

\* The registry makes no call to itself.
Caller == Account \ {Registry}

ASSUME FeeRegistryAssumption ==
    /\ MAX_FEE_BPS \in 0 .. BPS
    /\ NoOwner \notin Account
    /\ InitialOwner \in Account \ {Registry}
    /\ NewOwner \subseteq Caller \cup {NoOwner}
    /\ InitialBal \in [Token -> [Account -> Nat]]
    /\ \A s \in {Amount, FeeBps, Gas, GasPrice, Price} : s \subseteq Nat
    /\ TokenUnit \subseteq Nat \ {0}
    /\ GasConfig \subseteq [oracle : BOOLEAN, markupBps : Nat,
                            overhead : Nat, maxGasPrice : Nat]

VARIABLES
    ledger,         \* balances, vaultDeposits and collectedFees
    tokens,         \* _tokens: [enabled, unit]
    depositFeeBps,
    withdrawFeeBps,
    gasConfig,      \* _priceOracle # 0, executorMarkupBps, gasOverhead, maxGasPrice
    owner

configVars == <<tokens, depositFeeBps, withdrawFeeBps, gasConfig, owner>>
registryVars == <<ledger, tokens, depositFeeBps, withdrawFeeBps, gasConfig, owner>>

NoGasConfig == [oracle |-> FALSE, markupBps |-> 0, overhead |-> 0, maxGasPrice |-> 0]

TokenConfig == [enabled : BOOLEAN, unit : Nat \ {0}]

RegistryTypeOK ==
    /\ ledger \in Ledger
    /\ tokens \in [Token -> TokenConfig]
    /\ depositFeeBps \in 0 .. MAX_FEE_BPS
    /\ withdrawFeeBps \in 0 .. MAX_FEE_BPS
    /\ gasConfig \in GasConfig \cup {NoGasConfig}
    /\ owner \in Caller \cup {NoOwner}

RegistryInit ==
    /\ ledger = [bal  |-> InitialBal,
                 dep  |-> [t \in Token |-> [a \in Account |-> 0]],
                 fees |-> [t \in Token |-> 0]]
    /\ tokens = [t \in Token |-> [enabled |-> FALSE, unit |-> 1]]
    /\ depositFeeBps = 0
    /\ withdrawFeeBps = 0
    /\ gasConfig = NoGasConfig
    /\ owner = InitialOwner

-----------------------------------------------------------------------------
(* The owner's configuration.                                              *)

addAcceptedToken(t, unit) ==
    /\ owner # NoOwner
    /\ tokens' = [tokens EXCEPT ![t] = [enabled |-> TRUE, unit |-> unit]]
    /\ UNCHANGED <<ledger, depositFeeBps, withdrawFeeBps, gasConfig, owner>>

\* Deposits already made in the token stay booked.
removeAcceptedToken(t) ==
    /\ owner # NoOwner
    /\ tokens' = [tokens EXCEPT ![t].enabled = FALSE]
    /\ UNCHANGED <<ledger, depositFeeBps, withdrawFeeBps, gasConfig, owner>>

setDepositFeeBps(bps) ==
    /\ owner # NoOwner
    /\ bps <= MAX_FEE_BPS
    /\ depositFeeBps' = bps
    /\ UNCHANGED <<ledger, tokens, withdrawFeeBps, gasConfig, owner>>

\* Mutant: no ceiling.
setWithdrawFeeBps_NoCeiling(bps) ==
    /\ owner # NoOwner
    /\ withdrawFeeBps' = bps
    /\ UNCHANGED <<ledger, tokens, depositFeeBps, gasConfig, owner>>

setWithdrawFeeBps(bps) ==
    /\ owner # NoOwner
    /\ bps <= MAX_FEE_BPS
    /\ withdrawFeeBps' = bps
    /\ UNCHANGED <<ledger, tokens, depositFeeBps, gasConfig, owner>>

setGasConfig(cfg) ==
    /\ owner # NoOwner
    /\ gasConfig' = cfg
    /\ UNCHANGED <<ledger, tokens, depositFeeBps, withdrawFeeBps, owner>>

\* OpenZeppelin's Ownable: transferOwnership and renounceOwnership.
transferOwnership(newOwner) ==
    /\ owner # NoOwner
    /\ owner' = newOwner
    /\ UNCHANGED <<ledger, tokens, depositFeeBps, withdrawFeeBps, gasConfig>>

withdrawFees(t) ==
    /\ owner # NoOwner
    /\ ledger.fees[t] # 0
    /\ CanPay(ledger, t, Registry, ledger.fees[t])
    /\ ledger' = WithdrawFees(ledger, t, owner)
    /\ UNCHANGED configVars

-----------------------------------------------------------------------------
(* Calls open to everyone.                                                 *)

depositFor(caller, vault, t, amount) ==
    /\ tokens[t].enabled
    /\ CanPay(ledger, t, caller, amount)
    /\ ledger' = DepositFor(ledger, t, caller, vault, amount)
    /\ UNCHANGED configVars

\* Mutant: pays, but leaves the deposit on the books.
withdrawDeposit_NotBooked(caller, t, amount) ==
    LET available  == ledger.dep[t][caller]
        toWithdraw == IF amount = 0 THEN available ELSE amount
    IN  /\ available # 0
        /\ toWithdraw <= available
        /\ CanPay(ledger, t, Registry, toWithdraw)
        /\ ledger' = Transfer(ledger, t, Registry, caller, toWithdraw)
        /\ UNCHANGED configVars

\* amount 0 withdraws everything.
withdrawDeposit(caller, t, amount) ==
    LET available  == ledger.dep[t][caller]
        toWithdraw == IF amount = 0 THEN available ELSE amount
    IN  /\ available # 0
        /\ toWithdraw <= available
        /\ CanPay(ledger, t, Registry, toWithdraw)
        /\ ledger' = PayFromDeposit(ledger, t, caller, caller, toWithdraw)
        /\ UNCHANGED configVars

collectFee(caller, t, amount) ==
    /\ CanCollectFee(ledger, t, caller, amount)
    /\ ledger' = CollectFee(ledger, t, caller, amount)
    /\ UNCHANGED configVars

\* Mutant: pays the executor without looking at the vault's deposit.
deductGasComp_Unfunded(caller, t, executor, gasUsed, txGasPrice, nativePrice, tokenPrice) ==
    LET comp == ComputeGasComp(gasConfig, tokens[t], gasUsed, txGasPrice,
                               nativePrice, tokenPrice)
    IN  /\ comp # 0
        /\ CanPay(ledger, t, Registry, comp)
        /\ ledger' = Transfer(ledger, t, Registry, executor, comp)
        /\ UNCHANGED configVars

\* The caller is the vault that pays; it names the executor and the gas used.
deductGasComp(caller, t, executor, gasUsed, txGasPrice, nativePrice, tokenPrice) ==
    LET comp == ComputeGasComp(gasConfig, tokens[t], gasUsed, txGasPrice,
                               nativePrice, tokenPrice)
    IN  /\ comp # 0
        /\ comp <= ledger.dep[t][caller]
        /\ CanPay(ledger, t, Registry, comp)
        /\ ledger' = PayFromDeposit(ledger, t, caller, executor, comp)
        /\ UNCHANGED configVars

\* A token transfer that does not involve the registry's code.
transfer(from, to, t, amount) ==
    /\ CanPay(ledger, t, from, amount)
    /\ ledger' = Transfer(ledger, t, from, to, amount)
    /\ UNCHANGED configVars

-----------------------------------------------------------------------------
OwnerNext ==
    \/ \E t \in Token, unit \in TokenUnit : addAcceptedToken(t, unit)
    \/ \E t \in Token : removeAcceptedToken(t)
    \/ \E bps \in FeeBps : setDepositFeeBps(bps)
    \/ \E bps \in FeeBps : setWithdrawFeeBps(bps)
    \/ \E cfg \in GasConfig : setGasConfig(cfg)
    \/ \E newOwner \in NewOwner : transferOwnership(newOwner)
    \/ \E t \in Token : withdrawFees(t)

PublicCall(caller) ==
    \E t \in Token :
        \/ \E vault \in Account, amount \in Amount : depositFor(caller, vault, t, amount)
        \/ \E amount \in Amount : withdrawDeposit(caller, t, amount)
        \/ \E amount \in Amount : collectFee(caller, t, amount)
        \/ \E executor \in Account, gasUsed \in Gas, txGasPrice \in GasPrice,
              nativePrice \in Price, tokenPrice \in Price :
               deductGasComp(caller, t, executor, gasUsed, txGasPrice, nativePrice, tokenPrice)
        \/ \E to \in Account, amount \in Amount : transfer(caller, to, t, amount)

RegistryNext == OwnerNext \/ \E caller \in Caller : PublicCall(caller)

RegistrySpec == RegistryInit /\ [][RegistryNext]_registryVars

-----------------------------------------------------------------------------
(* Properties.                                                             *)

\* Whatever the order of deposits, withdrawals, fee collection, gas
\* compensation and configuration changes, the registry holds at least what it
\* owes to all vaults together plus the fees it has collected: no vault's
\* deposit can be spent by another one (FeeRegistry.sol, vaultDeposits and
\* collectedFees).
RegistrySolvent == Solvent(ledger)

\* No step pays out tokens that the books do not account for: what the
\* registry holds beyond its books never shrinks.  Every outgoing transfer is
\* matched by the book entry it reduces (withdrawFees, withdrawDeposit,
\* deductGasComp), and every credit by tokens that came in.
SurplusNeverSpent == [][KeepsSurplus(ledger, ledger')]_registryVars

\* An execution is never charged more than estimateGasComp announces for the
\* same gas, gas price and oracle answers: a deposit sized by the estimate is
\* enough (estimateGasComp ignores maxGasPrice, _computeGasComp applies it).
EstimateCoversCharge ==
    \A t \in Token, g \in Gas, gp \in GasPrice, np \in Price, tp \in Price :
        ComputeGasComp(gasConfig, tokens[t], g, gp, np, tp)
            <= EstimateGasComp(gasConfig, tokens[t], g, gp, np, tp)
=============================================================================
