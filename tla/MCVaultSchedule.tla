-------------------------- MODULE MCVaultSchedule --------------------------
(* Time triggers: the owner deploys, re-arms and pauses automations that    *)
(* share two context slots, a keeper runs them early, late and repeatedly.  *)
(* Nobody deposits for gas: once the registry's owner has configured the    *)
(* compensation, a keeper's run reverts at its very end.                    *)
(* Beside the vault, on their own: the Aave steps, whose amounts depend on  *)
(* when they run, too.  The initial state picks a part, the other stays.    *)
EXTENDS StrategyBuilderVault, AaveActions

CONSTANTS t1, reg, o, k, v, dai, eth

VARIABLE part

MCInitialBal == [t \in Token |-> [a \in Account |-> 0]]

Data(n, slot, outSlot) ==
    [n |-> n, slot |-> slot, outSlot |-> outSlot, flag |-> FALSE, token |-> t1]

Cond(target, n, slot, onTrue, onFalse) ==
    [stepType |-> "CONDITION", target |-> target, nextOnTrue |-> onTrue,
     nextOnFalse |-> onFalse, data |-> Data(n, slot, NO_SLOT)]

Act(target, outSlot, next) ==
    [stepType |-> "ACTION", target |-> target, nextOnTrue |-> next,
     nextOnFalse |-> DONE, data |-> Data(0, NO_SLOT, outSlot)]

\* The first one loops back to its trigger until a second interval holds, and
\* then writes the trigger's own slot.
MCProgram ==
    { << Cond("Interval", 2, 1, 2, DONE), Cond("Interval", 1, 2, 3, 1),
         Act("Protocol", 1, DONE) >>,
      << Cond("Timer", 1, 1, 2, DONE), Act("Protocol", 2, DONE) >>,
      << Cond("WickWait", 2, 2, DONE, DONE) >> }

MCGasConfig == { [oracle |-> TRUE, markupBps |-> 1, overhead |-> 0, maxGasPrice |-> 1] }

MCContext == { <<1, Empty>>, <<Empty>> }

mcLT == [x \in Asset |-> IF x = dai THEN 80 ELSE 60]
mcLTV == [x \in Asset |-> IF x = dai THEN 75 ELSE 50]
mcBalance == [x \in Asset |-> IF x = dai THEN 4 ELSE 2]

ScheduleInit ==
    /\ part \in {"vault", "aave"}
    /\ Init /\ AaveInit
    /\ part # "aave" => \A x, y \in Asset : price[x] = price[y] /\ price[x] >= 7

ScheduleNext ==
    /\ UNCHANGED part
    /\ \/ part = "vault" /\ Next /\ UNCHANGED aaveVars
       \/ part = "aave" /\ AaveNext /\ UNCHANGED vars

\* A transaction that has begun is executed to its end.
ScheduleSpec == ScheduleInit /\ [][ScheduleNext]_<<part, vars, aaveVars>> /\ WF_vars(Run)
=============================================================================
