----------------------------- MODULE MCVaultRun -----------------------------
(* Money: automations that branch on a balance, transfer with a fee, top up *)
(* their own gas deposit and loop, run by the owner and by a keeper while   *)
(* the registry's rates, tokens and gas configuration change.               *)
(* Beside the vault, on their own: the arithmetic of its PancakeSwap steps, *)
(* and a keeper's pass over two vaults of the factory.  The initial state   *)
(* picks a part, the others stay.                                           *)
EXTENDS StrategyBuilderVault, PancakeActions, Keeper

CONSTANTS t1, reg, o, k, v

VARIABLE part

MCInitialBal == [t \in Token |-> [a \in Account |-> IF a = v THEN 2 ELSE 0]]

MCGasConfig == {[oracle |-> TRUE, markupBps |-> 1, overhead |-> 0, maxGasPrice |-> 1]}

Data(n, slot, outSlot, flag) ==
    [n |-> n, slot |-> slot, outSlot |-> outSlot, flag |-> flag, token |-> t1]

HasAtLeast(n, onTrue, onFalse) ==
    [stepType |-> "CONDITION", target |-> "TokenBalance", nextOnTrue |-> onTrue,
     nextOnFalse |-> onFalse, data |-> Data(n, NO_SLOT, NO_SLOT, TRUE)]

Act(target, data, next) ==
    [stepType |-> "ACTION", target |-> target, nextOnTrue |-> next,
     nextOnFalse |-> DONE, data |-> data]

\* Send everything and note the amount; top up the deposit and, while tokens
\* are left, loop; send what the slot says; one with a dangling false branch
\* (rejected); one that begins with an action (for the owner only).
MCProgram ==
    { << HasAtLeast(2, 2, DONE), Act("ERC20Transfer", Data(0, NO_SLOT, 1, TRUE), DONE) >>,
      << HasAtLeast(1, 2, DONE), Act("FeeDeposit", Data(1, NO_SLOT, NO_SLOT, FALSE), 1) >>,
      << HasAtLeast(1, DONE, 3) >>,
      << Act("ERC20Transfer", Data(1, 1, 1, FALSE), DONE) >> }

MCContext == { <<1>> }

mcTick == -3 .. 3
mcSqrtRatio ==
    [t \in -6 .. 6 |-> <<5, 6, 7, 8, 9, 10, 12, 14, 16, 18, 21, 24, 28>>[t + 7]]

\* A vault with a public and an owner-only automation, and one without any, to
\* which others may add some, of a stranger or of the executor itself.
mcFleet == <<<<NewAutomation, [NewAutomation EXCEPT !.ownerOnly = TRUE]>>, <<>>>>

MoneyInit ==
    /\ part \in {"vault", "lp", "keeper"}
    /\ Init /\ LpInit /\ KeeperInit
    /\ part # "keeper" => secret
    /\ part # "lp" => tick = 0 /\ sqrtP = SqrtRatio[0] /\ bal0 = 0

MoneyNext ==
    /\ UNCHANGED part
    /\ \/ part = "vault" /\ Next /\ UNCHANGED <<lpVars, keeperVars>>
       \/ part = "lp" /\ LpNext /\ UNCHANGED <<vars, keeperVars>>
       \/ part = "keeper" /\ KeeperNext /\ UNCHANGED <<vars, lpVars>>
       \* The script has ended.
       \/ pass.at \in {"done", "aborted"} /\ UNCHANGED <<vars, lpVars, keeperVars>>

MoneySpec == MoneyInit /\ [][MoneyNext]_<<part, vars, lpVars, keeperVars>>
=============================================================================
