------------------------ MODULE StrategyBuilderVault ------------------------
(***************************************************************************)
(* One StrategyBuilderVault beside the FeeRegistry: the owner's            *)
(* transactions, and executeAutomation by anyone.                          *)
(*                                                                         *)
(* A run of executeAutomation is a sequence of steps of this machine, one  *)
(* per step of the automation's graph, on a frame: the memory copy of the  *)
(* context and the money as the transaction has moved it so far.  The      *)
(* frame is committed at the end, or dropped by a revert.  Nothing else    *)
(* happens while a frame is open: the EVM runs one transaction at a time,  *)
(* and executeAutomation is nonReentrant.                                  *)
(***************************************************************************)
EXTENDS FeeRegistry, StepTargets

CONSTANTS
    VaultAddr,          \* this vault
    FirstOwner,         \* initialOwner
    Executor,           \* accounts that call executeAutomation
    DepositToken,       \* _depositToken, or NoToken for address(0)
    NoToken,
    RegistrySet,        \* _feeRegistry # address(0)
    MAX_STEPS,          \* longest run (256)
    NoFrame,            \* no run in progress
    Program,            \* step arrays the owner deploys
    Context,            \* contexts the owner writes with setContext
    SlotInput,          \* values the owner writes with setContextSlot
    MaxTime,            \* bound: the last block timestamp
    MaxAutomations      \* bound: automations created

\* A run in progress: the locals of executeAutomation.
Frame == [id : Nat, caller : Account, current : Nat \cup {DONE}, stepCount : Nat,
          triggerFired : BOOLEAN, ctxDirty : BOOLEAN,
          ctx : Seq(SlotValue), ledger : Ledger]

ASSUME VaultAssumption ==
    /\ {VaultAddr, FirstOwner, Recipient} \subseteq Account \ {Registry}
    /\ VaultAddr # FirstOwner
    /\ Executor \subseteq Account \ {Registry, VaultAddr}
    /\ DepositToken \in Token \cup {NoToken}
    /\ NoToken \notin Token
    /\ RegistrySet \in BOOLEAN
    /\ MAX_STEPS \in Nat \ {0}
    /\ MAX_UINT \in Nat
    /\ DONE \notin Nat
    /\ Empty \notin Nat
    /\ NoFrame \notin Frame
    /\ Output \subseteq Uint
    /\ Program \subseteq Seq(Step)
    /\ Context \subseteq Seq(SlotValue)
    /\ SlotInput \subseteq SlotValue
    /\ MaxTime \in Uint \ {0}
    /\ MaxAutomations \in Nat

VARIABLES
    now,            \* block.timestamp
    vaultOwner,     \* owner() of the vault
    automations,    \* _automations[0 .. _automationCount - 1]
    context,        \* _ctx
    minFeeDeposit,  \* _minFeeDeposit
    frame,          \* the open run, or NoFrame
    fires           \* history, per automation: see Fired

vaultVars == <<now, vaultOwner, automations, context, minFeeDeposit, frame, fires>>
vars == <<registryVars, vaultVars>>

Automation == [active : BOOLEAN, ownerOnly : BOOLEAN, steps : Seq(Step)]

\* Since the trigger's slot last got another value than from the automation's
\* own afterExecution: the value it got then, how often the trigger has fired
\* in a committed run, the time of the last firing (0 if none), and whether some
\* firing came sooner after the previous one than the trigger's n.
FireLog == [start : SlotValue, count : Nat, last : Nat, early : BOOLEAN]

Ids == 1 .. Len(automations)

TypeOK ==
    /\ RegistryTypeOK
    /\ now \in Nat
    /\ vaultOwner \in (Caller \cup {NoOwner}) \ {VaultAddr}
    /\ automations \in Seq(Automation)
    /\ context \in Seq(SlotValue)
    /\ minFeeDeposit \in Nat
    /\ frame \in Frame \cup {NoFrame}
    /\ fires \in Seq(FireLog) /\ Len(fires) = Len(automations)

Init ==
    /\ RegistryInit
    /\ now = 1
    /\ vaultOwner = FirstOwner
    /\ automations = <<>>
    /\ context = <<>>
    /\ minFeeDeposit = 0
    /\ frame = NoFrame
    /\ fires = <<>>

-----------------------------------------------------------------------------
(* History of the triggers.                                                *)

\* The slot in which a time trigger keeps its state.
TriggerSlot(a) == a.steps[1].data.slot

NewLog(a, ctx) ==
    [start |-> IF TriggerSlot(a) \in DOMAIN ctx THEN ctx[TriggerSlot(a)] ELSE Empty,
     count |-> 0, last |-> 0, early |-> FALSE]

\* Logs restart when somebody else writes the trigger's slot.
Rearmed(autos, logs, ctx, new) ==
    [i \in DOMAIN autos |->
        IF i \in DOMAIN logs /\ NewLog(autos[i], ctx).start = NewLog(autos[i], new).start
        THEN logs[i] ELSE NewLog(autos[i], new)]

\* Only triggers with an afterExecution are counted.  rewritten is whether an
\* action of the same run gave the trigger's slot another value: then it fired
\* on the value before, and afterExecution starts from the new one.
Fired(log, trigger, rewritten) ==
    IF trigger.target \notin {"Interval", "Timer", "WickWait"} THEN log
    ELSE IF rewritten THEN [log EXCEPT !.last = now]
    ELSE [log EXCEPT !.count = @ + 1, !.last = now,
                     !.early = @ \/ (log.last > 0 /\ now < log.last + trigger.data.n)]

-----------------------------------------------------------------------------
(* Owner: money.  Deposit and withdraw fees go to the registry.            *)

OwnerTx == frame = NoFrame /\ vaultOwner # NoOwner

deposit(t, amount) ==
    LET pulled == Transfer(ledger, t, vaultOwner, VaultAddr, amount)
        fee    == IF RegistrySet THEN Fee(amount, depositFeeBps) ELSE 0
    IN  /\ OwnerTx
        /\ CanPay(ledger, t, vaultOwner, amount)
        /\ CanCollectFee(pulled, t, VaultAddr, fee)
        /\ ledger' = CollectFee(pulled, t, VaultAddr, fee)
        /\ UNCHANGED <<configVars, vaultVars>>

withdraw(t, amount, recipient) ==
    LET fee     == IF RegistrySet THEN Fee(amount, withdrawFeeBps) ELSE 0
        charged == CollectFee(ledger, t, VaultAddr, fee)
    IN  /\ OwnerTx
        /\ CanCollectFee(ledger, t, VaultAddr, fee)
        /\ CanPay(charged, t, VaultAddr, amount - fee)
        /\ ledger' = Transfer(charged, t, VaultAddr, recipient, amount - fee)
        /\ UNCHANGED <<configVars, vaultVars>>

depositFees(t, amount) ==
    /\ OwnerTx
    /\ RegistrySet
    /\ tokens[t].enabled
    /\ CanPay(ledger, t, VaultAddr, amount)
    /\ ledger' = DepositFor(ledger, t, VaultAddr, VaultAddr, amount)
    /\ UNCHANGED <<configVars, vaultVars>>

setMinFeeDeposit(amount) ==
    /\ OwnerTx
    /\ minFeeDeposit' = amount
    /\ UNCHANGED <<registryVars, now, vaultOwner, automations, context, frame, fires>>

-----------------------------------------------------------------------------
(* Owner: automations and context.                                         *)

\* Mutant: forgets that a public automation must start with a condition.
ValidSteps_AnyFirst(steps, ownerOnly) ==
    /\ Len(steps) > 0
    /\ \A i \in 1 .. Len(steps) :
          /\ steps[i].target # "None"
          /\ steps[i].nextOnTrue \in (1 .. Len(steps)) \cup {DONE}
          /\ IF steps[i].stepType = "CONDITION"
             THEN steps[i].nextOnFalse \in (1 .. Len(steps)) \cup {DONE}
             ELSE steps[i].nextOnFalse = DONE

\* Mutant: forgets the false branch of a condition.
ValidSteps_TrueOnly(steps, ownerOnly) ==
    /\ Len(steps) > 0
    /\ ownerOnly \/ steps[1].stepType = "CONDITION"
    /\ \A i \in 1 .. Len(steps) :
          /\ steps[i].target # "None"
          /\ steps[i].nextOnTrue \in (1 .. Len(steps)) \cup {DONE}

ValidSteps(steps, ownerOnly) ==
    /\ Len(steps) > 0
    /\ ownerOnly \/ steps[1].stepType = "CONDITION"
    /\ \A i \in 1 .. Len(steps) :
          /\ steps[i].target # "None"
          /\ steps[i].nextOnTrue \in (1 .. Len(steps)) \cup {DONE}
          /\ IF steps[i].stepType = "CONDITION"
             THEN steps[i].nextOnFalse \in (1 .. Len(steps)) \cup {DONE}
             ELSE steps[i].nextOnFalse = DONE

\* createAutomation and createOwnerAutomation.
create(steps, ownerOnly) ==
    /\ OwnerTx
    /\ Len(automations) < MaxAutomations
    /\ ValidSteps(steps, ownerOnly)
    /\ automations' = Append(automations,
                        [active |-> TRUE, ownerOnly |-> ownerOnly, steps |-> steps])
    /\ fires' = Rearmed(automations', fires, context, context)
    /\ UNCHANGED <<registryVars, now, vaultOwner, context, minFeeDeposit, frame>>

updateAutomationSteps(id, steps) ==
    /\ OwnerTx
    /\ ValidSteps(steps, automations[id].ownerOnly)
    /\ automations' = [automations EXCEPT ![id].steps = steps]
    /\ fires' = [fires EXCEPT ![id] = NewLog(automations'[id], context)]
    /\ UNCHANGED <<registryVars, now, vaultOwner, context, minFeeDeposit, frame>>

setAutomationActive(id, active) ==
    /\ OwnerTx
    /\ automations' = [automations EXCEPT ![id].active = active]
    /\ UNCHANGED <<registryVars, now, vaultOwner, context, minFeeDeposit, frame, fires>>

\* Every owner write starts the logs afresh, even when it writes the same value.
WriteContext(new) ==
    /\ OwnerTx
    /\ context' = new
    /\ fires' = [i \in Ids |-> NewLog(automations[i], new)]
    /\ UNCHANGED <<registryVars, now, vaultOwner, automations, minFeeDeposit, frame>>

\* Replaces the whole array and resizes it.
setContext(new) == WriteContext(new)

setContextSlot(slot, value) ==
    /\ slot \in DOMAIN context
    /\ WriteContext([context EXCEPT ![slot] = value])

\* OwnableUpgradeable's transferOwnership and renounceOwnership.
transferVault(newOwner) ==
    /\ OwnerTx
    /\ vaultOwner' = newOwner
    /\ UNCHANGED <<registryVars, now, automations, context, minFeeDeposit, frame, fires>>

-----------------------------------------------------------------------------
(* executeAutomation.                                                      *)

Steps == automations[frame.id].steps
CurrentStep == Steps[frame.current]

\* The checks before the loop; ctx is loaded into memory.
executeAutomation(id, caller) ==
    LET a == automations[id]
    IN  /\ frame = NoFrame
        /\ a.active
        /\ ~a.ownerOnly \/ caller = vaultOwner
        /\ frame' = [id |-> id, caller |-> caller, current |-> 1, stepCount |-> 0,
                     triggerFired |-> a.ownerOnly /\ a.steps[1].stepType = "ACTION",
                     ctxDirty |-> FALSE, ctx |-> context, ledger |-> ledger]
        /\ UNCHANGED <<registryVars, now, vaultOwner, automations, context, minFeeDeposit, fires>>

\* A revert anywhere in the transaction drops the frame and everything in it.
Revert ==
    /\ frame' = NoFrame
    /\ UNCHANGED <<registryVars, now, vaultOwner, automations, context, minFeeDeposit, fires>>

\* One more turn of the while loop.
InLoop == frame # NoFrame /\ frame.current # DONE

StepBudget == frame.stepCount < MAX_STEPS

maxStepsExceeded == InLoop /\ ~StepBudget /\ Revert

\* The trigger is step 1 on the first turn; coming back to it is an ordinary
\* check.
IsTrigger == frame.current = 1 /\ frame.stepCount = 0

\* Mutant: a non-owner's run goes on when its trigger is not met.
TriggerRejects_Never(met) == FALSE

TriggerRejects(met) == IsTrigger /\ ~met /\ frame.caller # vaultOwner

Verdicts == Check(CurrentStep, frame.ctx, now, frame.ledger.bal[CurrentStep.data.token][VaultAddr])

\* Mutant: the turn is not counted.
conditionStep_NotCounted(met) ==
    /\ InLoop /\ StepBudget
    /\ CurrentStep.stepType = "CONDITION"
    /\ met \in Verdicts
    /\ ~TriggerRejects(met)
    /\ frame' = [frame EXCEPT
                    !.triggerFired = IF IsTrigger THEN met ELSE @,
                    !.current = IF met THEN CurrentStep.nextOnTrue ELSE CurrentStep.nextOnFalse]
    /\ UNCHANGED <<registryVars, now, vaultOwner, automations, context, minFeeDeposit, fires>>

conditionStep(met) ==
    /\ InLoop /\ StepBudget
    /\ CurrentStep.stepType = "CONDITION"
    /\ met \in Verdicts
    /\ ~TriggerRejects(met)
    /\ frame' = [frame EXCEPT
                    !.triggerFired = IF IsTrigger THEN met ELSE @,
                    !.current = IF met THEN CurrentStep.nextOnTrue ELSE CurrentStep.nextOnFalse,
                    !.stepCount = @ + 1]
    /\ UNCHANGED <<registryVars, now, vaultOwner, automations, context, minFeeDeposit, fires>>

\* ConditionCallFailed and TriggerNotMet.
conditionReverts ==
    /\ InLoop /\ StepBudget
    /\ CurrentStep.stepType = "CONDITION"
    /\ \/ Verdicts = {} \/ MayFail(CurrentStep)
       \/ \E met \in Verdicts : TriggerRejects(met)
    /\ Revert

ActionResults ==
    LET d == CurrentStep.data
    IN  CASE CurrentStep.target = "ERC20Transfer" ->
                ERC20TransferResults(d, frame.ctx, frame.ledger, VaultAddr, withdrawFeeBps)
          [] CurrentStep.target = "FeeDeposit" ->
                FeeDepositResults(d, frame.ledger, VaultAddr, minFeeDeposit, tokens[d.token].enabled)
          [] CurrentStep.target = "Protocol" -> ProtocolResults(d, frame.ledger, VaultAddr)
          [] OTHER -> {}

\* A diff outside the context reverts the run.
Applicable(result) == result.slot = NO_SLOT \/ result.slot \in DOMAIN frame.ctx

actionStep(result) ==
    /\ InLoop /\ StepBudget
    /\ CurrentStep.stepType = "ACTION"
    /\ result \in ActionResults
    /\ Applicable(result)
    /\ frame' = [frame EXCEPT
                    !.ctx = IF result.slot = NO_SLOT THEN @
                            ELSE [@ EXCEPT ![result.slot] = result.value],
                    !.ledger = result.ledger,
                    !.ctxDirty = TRUE,
                    !.current = CurrentStep.nextOnTrue,
                    !.stepCount = @ + 1]
    /\ UNCHANGED <<registryVars, now, vaultOwner, automations, context, minFeeDeposit, fires>>

\* ActionExecutionFailed and ContextSlotOutOfBounds.
actionReverts ==
    /\ InLoop /\ StepBudget
    /\ CurrentStep.stepType = "ACTION"
    /\ \/ ActionResults = {} \/ MayFail(CurrentStep)
       \/ \E result \in ActionResults : ~Applicable(result)
    /\ Revert

\* The context after the loop: afterExecution of the trigger, when it fired.
FinalCtx ==
    IF frame.triggerFired THEN AfterExecution(Steps[1], frame.ctx, now) ELSE frame.ctx

\* Mutant: the owner's runs are charged too.
Charge_Everybody(gasUsed, txGasPrice, nativePrice, tokenPrice) ==
    IF ~RegistrySet \/ DepositToken = NoToken
    THEN 0
    ELSE ComputeGasComp(gasConfig, tokens[DepositToken], gasUsed, txGasPrice,
                        nativePrice, tokenPrice)

\* _settleGasComp: what a run is charged.  The owner pays nothing.
Charge(gasUsed, txGasPrice, nativePrice, tokenPrice) ==
    IF frame.caller = vaultOwner \/ ~RegistrySet \/ DepositToken = NoToken
    THEN 0
    ELSE ComputeGasComp(gasConfig, tokens[DepositToken], gasUsed, txGasPrice,
                        nativePrice, tokenPrice)

\* Mutant: looks at the registry's tokens but not at the vault's deposit.
Funded_PoolOnly(comp) == comp # 0 => CanPay(frame.ledger, DepositToken, Registry, comp)

Funded(comp) == comp # 0 => /\ comp <= frame.ledger.dep[DepositToken][VaultAddr]
                            /\ CanPay(frame.ledger, DepositToken, Registry, comp)

\* Mutant: an unfunded run is paid from the registry's pool anyway.
Settled_FromPool(comp) ==
    IF comp = 0 THEN frame.ledger
    ELSE Transfer(frame.ledger, DepositToken, Registry, frame.caller, comp)

Settled(comp) ==
    IF comp = 0 THEN frame.ledger
    ELSE PayFromDeposit(frame.ledger, DepositToken, VaultAddr, frame.caller, comp)

\* The end of executeAutomation: trigger update, context save, settlement.
commit(gasUsed, txGasPrice, nativePrice, tokenPrice) ==
    LET comp == Charge(gasUsed, txGasPrice, nativePrice, tokenPrice)
        id   == frame.id
        logs == Rearmed(automations, fires, context, frame.ctx)
        fin  == Rearmed(automations, logs, frame.ctx, FinalCtx)
        rewritten == NewLog(automations[id], context).start # NewLog(automations[id], frame.ctx).start
    IN  /\ frame # NoFrame /\ frame.current = DONE
        /\ Funded(comp)
        /\ context' = IF frame.ctxDirty \/ frame.triggerFired THEN FinalCtx ELSE context
        /\ ledger' = Settled(comp)
        /\ fires' = IF frame.triggerFired
                    THEN [fin EXCEPT ![id] = Fired(IF rewritten THEN @ ELSE logs[id], Steps[1], rewritten)]
                    ELSE logs
        /\ frame' = NoFrame
        /\ UNCHANGED <<configVars, now, vaultOwner, automations, minFeeDeposit>>

\* InsufficientFeeDeposit.
commitReverts(gasUsed, txGasPrice, nativePrice, tokenPrice) ==
    /\ frame # NoFrame /\ frame.current = DONE
    /\ ~Funded(Charge(gasUsed, txGasPrice, nativePrice, tokenPrice))
    /\ frame' = NoFrame
    /\ UNCHANGED <<registryVars, now, vaultOwner, automations, context, minFeeDeposit, fires>>

-----------------------------------------------------------------------------
(* The environment: time, and everybody else's calls to the registry.      *)

nextBlock ==
    /\ frame = NoFrame
    /\ now < MaxTime
    /\ now' = now + 1
    /\ UNCHANGED <<registryVars, vaultOwner, automations, context, minFeeDeposit, frame, fires>>

registryTx ==
    /\ frame = NoFrame
    /\ OwnerNext \/ \E caller \in Caller \ {VaultAddr} : PublicCall(caller)
    /\ UNCHANGED vaultVars

OwnerCall ==
    \/ \E t \in Token, amount \in Amount :
          \/ deposit(t, amount)
          \/ \E recipient \in Account \ {Registry} : withdraw(t, amount, recipient)
          \/ depositFees(t, amount)
    \/ \E amount \in Amount : setMinFeeDeposit(amount)
    \/ \E steps \in Program, ownerOnly \in BOOLEAN : create(steps, ownerOnly)
    \/ \E id \in Ids, steps \in Program : updateAutomationSteps(id, steps)
    \/ \E id \in Ids, active \in BOOLEAN : setAutomationActive(id, active)
    \/ \E new \in Context : setContext(new)
    \/ \E slot \in DOMAIN context, value \in SlotInput : setContextSlot(slot, value)
    \/ \E newOwner \in NewOwner \ {VaultAddr} : transferVault(newOwner)

Run ==
    \/ maxStepsExceeded
    \/ \E met \in BOOLEAN : conditionStep(met)
    \/ conditionReverts
    \/ InLoop /\ \E result \in ActionResults : actionStep(result)
    \/ actionReverts
    \/ \E gasUsed \in Gas, txGasPrice \in GasPrice, nativePrice \in Price, tokenPrice \in Price :
          \/ commit(gasUsed, txGasPrice, nativePrice, tokenPrice)
          \/ commitReverts(gasUsed, txGasPrice, nativePrice, tokenPrice)

Next ==
    \/ OwnerCall
    \/ \E id \in Ids, caller \in Executor : executeAutomation(id, caller)
    \/ Run
    \/ nextBlock
    \/ registryTx

\* A transaction that has begun is executed to its end.
Spec == Init /\ [][Next]_vars /\ WF_vars(Run)

-----------------------------------------------------------------------------
(* Properties.                                                             *)

\* The run never leaves the step array: current is a step of the automation or
\* DONE on every turn, whatever the owner deployed, updated or looped
\* (_validateSteps against the unchecked automation.steps[current]).
StepInBounds == frame # NoFrame => frame.current \in DOMAIN Steps \cup {DONE}

\* A run by anyone but the owner changes the vault's context, its tokens or its
\* fee deposit only if the trigger was met when the run began: no path through
\* the graph, loop back to step 0 or owner-only automation lets a stranger move
\* the vault's money (executeAutomation, TriggerNotMet and CallerNotOwner).
KeeperNeedsTrigger ==
    [][ (/\ frame # NoFrame /\ frame.caller # vaultOwner
         /\ <<ledger, context>>' # <<ledger, context>>) => frame.triggerFired ]_vars

\* The gas deposit of the vault shrinks only by the settlement of a triggered
\* run of somebody else, in the vault's own deposit token (_settleGasComp).
DepositPaysOnlyKeepers ==
    [][ \A t \in Token :
          ledger'.dep[t][VaultAddr] < ledger.dep[t][VaultAddr] =>
              /\ frame # NoFrame /\ frame.triggerFired
              /\ frame.caller # vaultOwner
              /\ t = DepositToken ]_vars

\* The registry stays solvent under whole vault transactions too, and so does
\* the ledger inside a run: a run that tops up its own deposit (FeeDepositAction)
\* and is charged at its end, and one that pays withdraw fees from an action,
\* never spend another vault's tokens.
VaultSolvent ==
    /\ Solvent(ledger)
    /\ frame # NoFrame => Solvent(frame.ledger) /\ KeepsSurplus(ledger, frame.ledger)

\* Triggers of the automations, with the log of their firings.
TriggersOf(target) ==
    {i \in Ids : automations[i].steps[1].stepType = "CONDITION"
                    /\ automations[i].steps[1].target = target}
TriggerData(i) == automations[i].steps[1].data

\* Drift-free schedule: the k-th firing of an interval trigger since its slot
\* was set to `start` comes no earlier than start + (k - 1) * interval, however
\* late or bunched the keepers are, and whichever of them runs it
\* (IntervalCondition.afterExecution: "drift-free").  Intervals that overflow
\* within the bound on time are excluded.
IntervalPaced ==
    \A i \in TriggersOf("Interval") :
        LET n == TriggerData(i).n IN
        n > 0 /\ MaxTime + n <= MAX_UINT /\ fires[i].count > 0
            => fires[i].start + (fires[i].count - 1) * n <= fires[i].last

\* "TimerCondition fires exactly once per manual start": between two writes of
\* its slot a timer's automation is run as triggered at most once.
TimerOncePerStart ==
    \A i \in TriggersOf("Timer") : TriggerData(i).n > 0 => fires[i].count <= 1

\* Two rebalances of a WickWait automation are at least the cooldown apart,
\* unless its slot is rewritten in between.  Cooldowns that overflow within the
\* bound on time are excluded here too.
CooldownRespected ==
    \A i \in TriggersOf("WickWait") :
        MaxTime + TriggerData(i).n <= MAX_UINT => ~fires[i].early

\* Time triggers keep their promises whoever runs, edits or pauses what else uses
\* the context (IntervalCondition, TimerCondition, WickWaitRebalanceCondition).
SchedulesKept == IntervalPaced /\ TimerOncePerStart /\ CooldownRespected

\* Every run ends, by commit or revert, even when the owner deployed a graph
\* that loops (MAX_STEPS).
RunEnds == frame # NoFrame ~> frame = NoFrame
=============================================================================
