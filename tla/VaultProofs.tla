---------------------------- MODULE VaultProofs ----------------------------
(***************************************************************************)
(* A vault's automations, for every step array an owner may deploy, every  *)
(* context, any number of accounts and any amounts: runs stay inside the   *)
(* step array, a stranger's run changes nothing unless its trigger was     *)
(* met, and the registry stays solvent.                                    *)
(***************************************************************************)
EXTENDS StrategyBuilderVault, FeeRegistryProofs, SequenceTheorems

USE FeeLedgerAssumption, FeeRegistryAssumption

-----------------------------------------------------------------------------
(* Conditions and actions keep contexts and ledgers well formed.           *)

\* Writing a slot of a context gives a context.
LEMMA SlotWritten ==
    ASSUME NEW ctx \in Seq(SlotValue), NEW s \in DOMAIN ctx, NEW x \in SlotValue
    PROVE  [ctx EXCEPT ![s] = x] \in Seq(SlotValue)
BY ExceptSeq, LenProperties

\* afterExecution turns a context into a context.
LEMMA AfterTyped ==
    ASSUME NEW step \in Step, NEW ctx \in Seq(SlotValue), NEW time \in Nat
    PROVE  AfterExecution(step, ctx, time) \in Seq(SlotValue)
<1> DEFINE d == step.data
<1>1. d.n \in Nat
  BY DEF Step, StepData, Uint
<1>2. \A s \in DOMAIN ctx : ctx[s] \in Nat \cup {Empty}
  BY LenProperties, ElementOfSeq DEF SlotValue
<1>3. \A x \in Nat : x \in SlotValue
  BY DEF SlotValue
<1>4. IntervalAfter(d, ctx, time) \in Seq(SlotValue)
  <2>1. CASE d.n = 0 \/ d.slot \notin DOMAIN ctx
    BY <2>1 DEF IntervalAfter
  <2>2. CASE d.n # 0 /\ d.slot \in DOMAIN ctx
    <3> DEFINE next == IF ctx[d.slot] = Empty THEN 0 ELSE ctx[d.slot]
    <3>1. next + d.n \in SlotValue
      BY <1>1, <1>2, <1>3, <2>2
    <3>2. IntervalAfter(d, ctx, time) \in {ctx, [ctx EXCEPT ![d.slot] = next + d.n]}
      BY <2>2 DEF IntervalAfter
    <3> QED BY SMTT(30), <2>2, <3>1, <3>2, SlotWritten
  <2> QED BY <2>1, <2>2
<1>5. TimerAfter(d, ctx, time) \in Seq(SlotValue)
  BY <1>3, SlotWritten DEF TimerAfter
<1>6. WickWaitAfter(d, ctx, time) \in Seq(SlotValue)
  BY <1>3, SlotWritten DEF WickWaitAfter
<1> QED BY <1>4, <1>5, <1>6 DEF AfterExecution

\* What an action may leave behind.
ResultOK(m, result) ==
    /\ result.ledger \in Ledger
    /\ KeepsSurplus(m, result.ledger)
    /\ result.value \in SlotValue

\* A surplus that stays the same does not shrink.
LEMMA SurplusReflexive ==
    ASSUME NEW m \in Ledger
    PROVE  KeepsSurplus(m, m)
BY BookedNat DEF KeepsSurplus, Ledger

\* Nor over two steps.
LEMMA SurplusTransitive ==
    ASSUME NEW m \in Ledger, NEW n \in Ledger, NEW p \in Ledger,
           KeepsSurplus(m, n), KeepsSurplus(n, p)
    PROVE  KeepsSurplus(m, p)
<1> SUFFICES ASSUME NEW t \in Token
             PROVE  m.bal[t][Registry] + Booked(p, t) <= p.bal[t][Registry] + Booked(m, t)
  BY DEF KeepsSurplus
<1>1. /\ Booked(m, t) \in Nat /\ Booked(n, t) \in Nat /\ Booked(p, t) \in Nat
  BY BookedNat
<1>2. m.bal[t][Registry] \in Nat /\ n.bal[t][Registry] \in Nat /\ p.bal[t][Registry] \in Nat
  BY DEF Ledger
<1>3. /\ m.bal[t][Registry] + Booked(n, t) <= n.bal[t][Registry] + Booked(m, t)
      /\ n.bal[t][Registry] + Booked(p, t) <= p.bal[t][Registry] + Booked(n, t)
  BY DEF KeepsSurplus
<1> QED BY <1>1, <1>2, <1>3

\* A fee is a natural number no larger than the amount.
LEMMA FeeBound ==
    ASSUME NEW amount \in Nat, NEW bps \in 0 .. MAX_FEE_BPS
    PROVE  Fee(amount, bps) \in 0 .. amount
<1>1. bps \in Nat /\ bps <= BPS
  OBVIOUS
<1>2. amount * bps \in Nat /\ amount * BPS \in Nat
  BY <1>1
<1>3. amount * bps <= amount * BPS
  BY <1>1
<1>4. Fee(amount, bps) \in Nat
  BY <1>2, DivNat DEF Fee
<1>5. ASSUME NEW q \in Nat, q = (amount * bps) \div BPS PROVE q <= amount
  <2>1. q * BPS <= amount * bps
    BY <1>2, <1>5
  <2>2. q * BPS <= amount * BPS
    BY <1>2, <1>3, <2>1
  <2> QED BY <2>2
<1> QED BY <1>4, <1>5 DEF Fee

\* A transfer takes no more than the amount from the payer.
LEMMA TransferLeaves ==
    ASSUME NEW m \in Ledger, NEW t \in Token, NEW from \in Account, NEW to \in Account,
           NEW amount \in Nat, CanPay(m, t, from, amount)
    PROVE  Transfer(m, t, from, to, amount).bal[t][from] >= m.bal[t][from] - amount
BY DEF Transfer, Ledger, CanPay

\* ERC20TransferAction pays the recipient first and the fee from what is left.
LEMMA ERC20TransferResultsOK ==
    ASSUME NEW d \in StepData, NEW ctx \in Seq(SlotValue), NEW m \in Ledger,
           NEW vault \in Account \ {Registry}, NEW bps \in 0 .. MAX_FEE_BPS,
           Recipient \in Account \ {Registry},
           NEW result \in ERC20TransferResults(d, ctx, m, vault, bps)
    PROVE  ResultOK(m, result)
<1> DEFINE amount == IF d.slot # NO_SLOT THEN ctx[d.slot]
                     ELSE IF d.n = 0 THEN m.bal[d.token][vault] ELSE d.n
           fee    == IF d.flag THEN Fee(amount, bps) ELSE 0
           sent   == Transfer(m, d.token, vault, Recipient, amount - fee)
           paid   == CollectFee(sent, d.token, vault, fee)
<1>1. /\ d.slot = NO_SLOT \/ (d.slot \in DOMAIN ctx /\ ctx[d.slot] # Empty)
      /\ CanPay(m, d.token, vault, amount)
      /\ result = Result(paid, d.outSlot, amount)
  BY DEF ERC20TransferResults
<1>2. d.token \in Token /\ d.n \in Nat
  BY DEF StepData, Uint
<1>3. amount \in Nat
  <2>1. d.slot \in DOMAIN ctx => ctx[d.slot] \in Nat \cup {Empty}
    BY LenProperties, ElementOfSeq DEF SlotValue
  <2>2. m.bal[d.token][vault] \in Nat
    BY <1>2 DEF Ledger
  <2> QED BY <1>1, <1>2, <2>1, <2>2
<1> HIDE DEF amount
<1>4. fee \in 0 .. amount
  <2>1. Fee(amount, bps) \in 0 .. amount
    BY <1>3, FeeBound
  <2>2. 0 \in 0 .. amount
    BY <1>3
  <2>3. fee = Fee(amount, bps) \/ fee = 0
    OBVIOUS
  <2> HIDE DEF fee
  <2> QED BY <2>1, <2>2, <2>3
<1> HIDE DEF fee
<1>5. amount - fee \in Nat /\ fee \in Nat
  BY <1>3, <1>4
<1>6. m.bal[d.token][vault] \in Nat /\ amount <= m.bal[d.token][vault]
  BY <1>1, <1>2 DEF Ledger, CanPay
<1>7. CanPay(m, d.token, vault, amount - fee)
  BY <1>3, <1>4, <1>6 DEF CanPay
<1>8. sent \in Ledger /\ KeepsSurplus(m, sent)
  BY <1>2, <1>5, <1>7, TransferKeeps
<1>9. sent.bal[d.token][vault] >= m.bal[d.token][vault] - (amount - fee)
  BY <1>2, <1>5, <1>7, TransferLeaves
<1> HIDE DEF sent
<1>10. CanCollectFee(sent, d.token, vault, fee)
  <2>1. sent.bal[d.token][vault] \in Nat
    BY <1>2, <1>8 DEF Ledger
  <2> QED BY SMTT(30), <1>3, <1>4, <1>6, <1>9, <2>1 DEF CanCollectFee, CanPay
<1>11. paid \in Ledger /\ KeepsSurplus(sent, paid)
  BY <1>2, <1>5, <1>8, <1>10, CollectFeeKeeps
<1> HIDE DEF paid
<1>12. KeepsSurplus(m, paid)
  BY <1>8, <1>11, SurplusTransitive
<1> QED BY <1>1, <1>3, <1>11, <1>12 DEF ResultOK, Result, SlotValue

\* FeeDepositAction never deposits more than the vault holds.
LEMMA FeeDepositResultsOK ==
    ASSUME NEW d \in StepData, NEW m \in Ledger, NEW vault \in Account \ {Registry},
           NEW minimum \in Nat, NEW enabled \in BOOLEAN,
           NEW result \in FeeDepositResults(d, m, vault, minimum, enabled)
    PROVE  ResultOK(m, result)
<1> DEFINE current   == m.dep[d.token][vault]
           needed    == IF d.n > 0 THEN d.n ELSE minimum - current
           available == m.bal[d.token][vault]
           toDeposit == IF needed > available THEN available ELSE needed
<1>1. /\ d.token \in Token /\ d.n \in Nat
      /\ current \in Nat /\ available \in Nat
  BY DEF StepData, Uint, Ledger
<1>2. CASE result = Result(m, NO_SLOT, 0)
  BY <1>2, SurplusReflexive DEF ResultOK, Result, SlotValue
<1>3. CASE /\ ~(minimum = 0 \/ current >= minimum \/ toDeposit = 0)
           /\ result = Result(DepositFor(m, d.token, vault, vault, toDeposit), NO_SLOT, 0)
  <2>1. toDeposit \in Nat /\ CanPay(m, d.token, vault, toDeposit)
    BY <1>1, <1>3 DEF CanPay
  <2> HIDE DEF toDeposit
  <2>2. /\ DepositFor(m, d.token, vault, vault, toDeposit) \in Ledger
        /\ KeepsSurplus(m, DepositFor(m, d.token, vault, vault, toDeposit))
    BY <1>1, <2>1, DepositForKeeps
  <2> QED BY <1>3, <2>2 DEF ResultOK, Result, SlotValue
<1> QED BY <1>2, <1>3 DEF FeeDepositResults

\* A protocol is paid from the vault's own tokens.
LEMMA ProtocolResultsOK ==
    ASSUME NEW d \in StepData, NEW m \in Ledger, NEW vault \in Account \ {Registry},
           Recipient \in Account \ {Registry}, Output \subseteq Uint,
           NEW result \in ProtocolResults(d, m, vault)
    PROVE  ResultOK(m, result)
<1>1. CanPay(m, d.token, vault, d.n)
  BY DEF ProtocolResults
<1>2. PICK v \in Output : result = Result(Transfer(m, d.token, vault, Recipient, d.n), d.outSlot, v)
  BY <1>1 DEF ProtocolResults
<1>3. d.token \in Token /\ d.n \in Nat /\ v \in Nat
  BY DEF StepData, Uint
<1>4. /\ Transfer(m, d.token, vault, Recipient, d.n) \in Ledger
      /\ KeepsSurplus(m, Transfer(m, d.token, vault, Recipient, d.n))
  BY <1>1, <1>3, TransferKeeps
<1> QED BY <1>2, <1>3, <1>4 DEF ResultOK, Result, SlotValue

-----------------------------------------------------------------------------
(* The inductive invariants.                                               *)

\* Whatever is stored passed _validateSteps, and a run is on a stored
\* automation and inside its steps.
RunOK ==
    /\ \A i \in Ids : ValidSteps(automations[i].steps, automations[i].ownerOnly)
    /\ frame # NoFrame => frame.id \in Ids /\ frame.current \in DOMAIN Steps \cup {DONE}

\* A stranger's run is on a public automation; before its first turn it stands
\* at the trigger, and afterwards the trigger was met.
StrangerOK ==
    frame # NoFrame =>
        /\ frame.stepCount = 0 => frame.current = 1
        /\ frame.caller # vaultOwner =>
              /\ ~automations[frame.id].ownerOnly
              /\ frame.stepCount # 0 => frame.triggerFired

\* What the steps of a run need to know about it.
LEMMA FrameFacts ==
    ASSUME TypeOK, RunOK, frame # NoFrame
    PROVE  /\ frame \in Frame /\ frame.id \in Ids
           /\ frame.ctx \in Seq(SlotValue) /\ frame.ledger \in Ledger
           /\ frame.stepCount \in Nat
           /\ Steps \in Seq(Step) /\ Steps # <<>> /\ Steps[1] \in Step
           /\ automations[frame.id] \in Automation
           /\ frame.current # DONE => CurrentStep \in Step
<1>1. frame \in Frame /\ frame.id \in Ids
  BY DEF TypeOK, RunOK
<1>2. automations \in Seq(Automation)
  BY DEF TypeOK
<1>3. automations[frame.id] \in Automation
  BY <1>1, <1>2, ElementOfSeq DEF Ids
<1>4. Steps \in Seq(Step)
  BY <1>3 DEF Automation, Steps
<1>5. ValidSteps(Steps, automations[frame.id].ownerOnly)
  BY <1>1 DEF RunOK, Steps
<1>6. Len(Steps) > 0
  BY <1>5 DEF ValidSteps
<1>7. DOMAIN Steps = 1 .. Len(Steps) /\ Len(Steps) \in Nat
  BY <1>4, LenProperties
<1>8. \A i \in DOMAIN Steps : Steps[i] \in Step
  BY <1>4, <1>7, ElementOfSeq
<1>9. 1 \in DOMAIN Steps /\ Steps # <<>>
  BY <1>4, <1>6, <1>7, EmptySeq
<1>10. frame.current # DONE => CurrentStep \in Step
  BY <1>8 DEF RunOK, CurrentStep
<1> QED BY <1>1, <1>3, <1>4, <1>8, <1>9, <1>10 DEF Frame

\* Every branch that a run takes leads to a step or to DONE.
LEMMA BranchFacts ==
    ASSUME TypeOK, RunOK, frame # NoFrame, frame.current # DONE
    PROVE  /\ CurrentStep.nextOnTrue \in DOMAIN Steps \cup {DONE}
           /\ CurrentStep.stepType = "CONDITION" =>
                 CurrentStep.nextOnFalse \in DOMAIN Steps \cup {DONE}
           /\ DOMAIN Steps \subseteq Nat
<1>1. Steps \in Seq(Step)
  BY FrameFacts
<1>2. DOMAIN Steps = 1 .. Len(Steps) /\ Len(Steps) \in Nat
  BY <1>1, LenProperties
<1>3. frame.current \in 1 .. Len(Steps)
  BY <1>2 DEF RunOK
<1>4. ValidSteps(Steps, automations[frame.id].ownerOnly)
  BY DEF RunOK, Steps
<1> QED BY <1>2, <1>3, <1>4 DEF ValidSteps, CurrentStep

\* The actions of a run only move money the vault has.
LEMMA ActionResultsOK ==
    ASSUME TypeOK, RunOK, frame # NoFrame, frame.current # DONE,
           NEW result \in ActionResults
    PROVE  ResultOK(frame.ledger, result)
<1> DEFINE d == CurrentStep.data
<1>1. d \in StepData
  BY FrameFacts DEF Step
<1>2. /\ frame.ctx \in Seq(SlotValue) /\ frame.ledger \in Ledger
      /\ withdrawFeeBps \in 0 .. MAX_FEE_BPS
      /\ minFeeDeposit \in Nat
      /\ tokens[d.token].enabled \in BOOLEAN
  BY <1>1, FrameFacts DEF TypeOK, RegistryTypeOK, StepData, TokenConfig
<1>3. VaultAddr \in Account \ {Registry} /\ Recipient \in Account \ {Registry} /\ Output \subseteq Uint
  BY VaultAssumption
<1> HIDE DEF d
<1>4. CASE CurrentStep.target = "ERC20Transfer"
  <2>1. result \in ERC20TransferResults(d, frame.ctx, frame.ledger, VaultAddr, withdrawFeeBps)
    BY <1>4 DEF ActionResults, d
  <2> QED BY <1>1, <1>2, <1>3, <2>1, ERC20TransferResultsOK
<1>5. CASE CurrentStep.target = "FeeDeposit"
  <2>1. result \in FeeDepositResults(d, frame.ledger, VaultAddr, minFeeDeposit, tokens[d.token].enabled)
    BY <1>5 DEF ActionResults, d
  <2> QED BY <1>1, <1>2, <1>3, <2>1, FeeDepositResultsOK
<1>6. CASE CurrentStep.target = "Protocol"
  <2>1. result \in ProtocolResults(d, frame.ledger, VaultAddr)
    BY <1>6 DEF ActionResults, d
  <2> QED BY <1>1, <1>2, <1>3, <2>1, ProtocolResultsOK
<1> QED BY <1>4, <1>5, <1>6 DEF ActionResults

-----------------------------------------------------------------------------
(* The history of the triggers is well formed.                             *)

\* The schedule logs are well typed: a fresh one,
LEMMA NewLogTyped ==
    ASSUME NEW a, NEW ctx \in Seq(SlotValue)
    PROVE  NewLog(a, ctx) \in FireLog
<1>1. TriggerSlot(a) \in DOMAIN ctx => ctx[TriggerSlot(a)] \in SlotValue
  BY LenProperties, ElementOfSeq
<1>2. Empty \in SlotValue
  BY DEF SlotValue
<1> QED BY <1>1, <1>2 DEF NewLog, FireLog

\* A function on 1 .. n is a sequence of length n.
LEMMA SeqOfFunction ==
    ASSUME NEW S, NEW n \in Nat, NEW f \in [1 .. n -> S]
    PROVE  f \in Seq(S) /\ Len(f) = n
<1>1. f \in Seq(S)
  BY SeqDef
<1>2. DOMAIN f = 1 .. n /\ DOMAIN f = 1 .. Len(f) /\ Len(f) \in Nat
  BY <1>1, LenProperties
<1> QED BY <1>1, <1>2

\* those that survive a context write,
LEMMA RearmedTyped ==
    ASSUME NEW autos \in Seq(Automation), NEW logs \in Seq(FireLog),
           NEW ctx \in Seq(SlotValue), NEW new \in Seq(SlotValue)
    PROVE  /\ Rearmed(autos, logs, ctx, new) \in Seq(FireLog)
           /\ Len(Rearmed(autos, logs, ctx, new)) = Len(autos)
<1>1. DOMAIN autos = 1 .. Len(autos) /\ Len(autos) \in Nat
  BY LenProperties
<1>2. \A i \in DOMAIN logs : logs[i] \in FireLog
  BY LenProperties, ElementOfSeq
<1>3. \A i \in DOMAIN autos : NewLog(autos[i], new) \in FireLog
  BY NewLogTyped
<1>4. Rearmed(autos, logs, ctx, new) \in [1 .. Len(autos) -> FireLog]
  BY <1>1, <1>2, <1>3 DEF Rearmed
<1> QED BY <1>1, <1>4, SeqOfFunction

\* and one that counts a firing.
LEMMA FiredTyped ==
    ASSUME NEW log \in FireLog, NEW trigger, NEW rewritten \in BOOLEAN, now \in Nat
    PROVE  Fired(log, trigger, rewritten) \in FireLog
<1>1. log.count + 1 \in Nat
  BY DEF FireLog
<1>2. (log.early \/ (log.last > 0 /\ now < log.last + trigger.data.n)) \in BOOLEAN
  OBVIOUS
<1>3. [log EXCEPT !.count = @ + 1, !.last = now,
                  !.early = @ \/ (log.last > 0 /\ now < log.last + trigger.data.n)] \in FireLog
  BY <1>1, <1>2 DEF FireLog
<1>4. [log EXCEPT !.last = now] \in FireLog
  BY DEF FireLog
<1> QED BY <1>3, <1>4 DEF Fired

-----------------------------------------------------------------------------
(* Every action keeps TypeOK and RunOK and does not touch the surplus.     *)

Kept == TypeOK' /\ RunOK' /\ KeepsSurplus(ledger, ledger')

\* The ledger of a typed state keeps its own surplus.
LEMMA LedgerTyped ==
    ASSUME TypeOK
    PROVE  ledger \in Ledger /\ KeepsSurplus(ledger, ledger)
BY SurplusReflexive DEF TypeOK, RegistryTypeOK

\* Money that the owner moves goes through the same registry calls.
LEMMA OwnerMoneyKept ==
    ASSUME TypeOK, RunOK, NEW t \in Token, NEW amount \in Amount,
           \/ deposit(t, amount)
           \/ \E recipient \in Account \ {Registry} : withdraw(t, amount, recipient)
           \/ depositFees(t, amount)
    PROVE  Kept
<1> DEFINE before == ledger
<1>1. /\ ledger \in Ledger /\ amount \in Nat /\ VaultAddr \in Account \ {Registry}
      /\ depositFeeBps \in 0 .. MAX_FEE_BPS /\ withdrawFeeBps \in 0 .. MAX_FEE_BPS
  BY VaultAssumption DEF TypeOK, RegistryTypeOK
<1>2. UNCHANGED <<configVars, vaultVars>>
  BY DEF deposit, withdraw, depositFees
<1>3. ledger' \in Ledger /\ KeepsSurplus(ledger, ledger')
  <2>1. CASE deposit(t, amount)
    <3> DEFINE pulled == Transfer(ledger, t, vaultOwner, VaultAddr, amount)
               fee    == IF RegistrySet THEN Fee(amount, depositFeeBps) ELSE 0
    <3>1. /\ CanPay(ledger, t, vaultOwner, amount)
          /\ CanCollectFee(pulled, t, VaultAddr, fee)
          /\ ledger' = CollectFee(pulled, t, VaultAddr, fee)
          /\ vaultOwner \in Account \ {Registry}
      BY <2>1 DEF deposit, OwnerTx, TypeOK, Caller
    <3>2. fee \in Nat
      BY <1>1, FeeBound
    <3> HIDE DEF fee
    <3>3. pulled \in Ledger /\ KeepsSurplus(ledger, pulled)
      BY <1>1, <3>1, TransferKeeps
    <3> HIDE DEF pulled
    <3>4. CollectFee(pulled, t, VaultAddr, fee) \in Ledger /\ KeepsSurplus(pulled, CollectFee(pulled, t, VaultAddr, fee))
      BY <1>1, <3>1, <3>2, <3>3, CollectFeeKeeps
    <3> QED BY <1>1, <3>1, <3>3, <3>4, SurplusTransitive
  <2>2. CASE \E recipient \in Account \ {Registry} : withdraw(t, amount, recipient)
    <3>1. PICK recipient \in Account \ {Registry} : withdraw(t, amount, recipient)
      BY <2>2
    <3> DEFINE fee     == IF RegistrySet THEN Fee(amount, withdrawFeeBps) ELSE 0
               charged == CollectFee(ledger, t, VaultAddr, fee)
    <3>2. /\ CanCollectFee(ledger, t, VaultAddr, fee)
          /\ CanPay(charged, t, VaultAddr, amount - fee)
          /\ ledger' = Transfer(charged, t, VaultAddr, recipient, amount - fee)
      BY <3>1 DEF withdraw
    <3>3. fee \in 0 .. amount
      BY <1>1, FeeBound
    <3> HIDE DEF fee
    <3>4. fee \in Nat /\ amount - fee \in Nat
      BY <1>1, <3>3
    <3>5. charged \in Ledger /\ KeepsSurplus(ledger, charged)
      BY <1>1, <3>2, <3>4, CollectFeeKeeps
    <3> HIDE DEF charged
    <3>6. ledger' \in Ledger /\ KeepsSurplus(charged, ledger')
      BY <1>1, <3>2, <3>4, <3>5, TransferKeeps
    <3> QED BY <1>1, <3>5, <3>6, SurplusTransitive
  <2>3. CASE depositFees(t, amount)
    BY <1>1, <2>3, DepositForKeeps DEF depositFees
  <2> QED BY <2>1, <2>2, <2>3
<1>4. RegistryTypeOK'
  BY <1>2, <1>3 DEF TypeOK, RegistryTypeOK, configVars
<1> QED BY <1>2, <1>3, <1>4 DEF Kept, TypeOK, RunOK, vaultVars, Ids, Steps

\* Only steps that pass _validateSteps are stored.
LEMMA CreateKept ==
    ASSUME TypeOK, RunOK, NEW steps \in Program, NEW ownerOnly \in BOOLEAN,
           create(steps, ownerOnly)
    PROVE  Kept
<1> DEFINE a == [active |-> TRUE, ownerOnly |-> ownerOnly, steps |-> steps]
<1>1. /\ automations \in Seq(Automation) /\ fires \in Seq(FireLog)
      /\ context \in Seq(SlotValue) /\ frame = NoFrame
      /\ ValidSteps(steps, ownerOnly)
      /\ automations' = Append(automations, a)
      /\ fires' = Rearmed(automations', fires, context, context)
      /\ UNCHANGED <<registryVars, now, vaultOwner, context, minFeeDeposit, frame>>
  BY DEF create, OwnerTx, TypeOK
<1>2. a \in Automation
  BY VaultAssumption DEF Automation
<1>3. /\ automations' \in Seq(Automation) /\ Len(automations') = Len(automations) + 1
      /\ \A i \in 1 .. Len(automations) + 1 :
            automations'[i] = IF i <= Len(automations) THEN automations[i] ELSE a
      /\ Len(automations) \in Nat
  BY <1>1, <1>2, AppendProperties, LenProperties
<1>4. \A i \in Ids' : ValidSteps(automations'[i].steps, automations'[i].ownerOnly)
  <2> SUFFICES ASSUME NEW i \in 1 .. Len(automations) + 1
               PROVE  ValidSteps(automations'[i].steps, automations'[i].ownerOnly)
    BY <1>3 DEF Ids
  <2>1. CASE i <= Len(automations)
    <3>1. i \in Ids /\ automations'[i] = automations[i]
      BY <1>3, <2>1 DEF Ids
    <3> QED BY <3>1 DEF RunOK
  <2>2. CASE i > Len(automations)
    <3>1. automations'[i] = a
      BY <1>3, <2>2
    <3> QED BY <1>1, <3>1
  <2> QED BY <1>3, <2>1, <2>2
<1>5. fires' \in Seq(FireLog) /\ Len(fires') = Len(automations')
  <2>1. /\ Rearmed(automations', fires, context, context) \in Seq(FireLog)
        /\ Len(Rearmed(automations', fires, context, context)) = Len(automations')
    <3> DEFINE autos == automations'
    <3>1. autos \in Seq(Automation) /\ fires \in Seq(FireLog) /\ context \in Seq(SlotValue)
      BY <1>1, <1>3
    <3> HIDE DEF autos
    <3>2. /\ Rearmed(autos, fires, context, context) \in Seq(FireLog)
          /\ Len(Rearmed(autos, fires, context, context)) = Len(autos)
      BY <3>1, RearmedTyped
    <3> QED BY <3>2 DEF autos
  <2> QED BY <1>1, <2>1
<1>6. TypeOK'
  BY <1>1, <1>3, <1>5 DEF TypeOK, RegistryTypeOK, registryVars
<1>7. ledger' = ledger
  BY <1>1 DEF registryVars
<1> QED BY <1>1, <1>4, <1>6, <1>7, LedgerTyped DEF Kept, RunOK

\* The same for an update, which keeps the automation's ownerOnly.
LEMMA UpdateKept ==
    ASSUME TypeOK, RunOK, NEW id \in Ids, NEW steps \in Program,
           updateAutomationSteps(id, steps)
    PROVE  Kept
<1>1. /\ automations \in Seq(Automation) /\ fires \in Seq(FireLog)
      /\ Len(fires) = Len(automations)
      /\ context \in Seq(SlotValue) /\ frame = NoFrame
      /\ ValidSteps(steps, automations[id].ownerOnly)
      /\ automations' = [automations EXCEPT ![id].steps = steps]
      /\ fires' = [fires EXCEPT ![id] = NewLog(automations'[id], context)]
      /\ UNCHANGED <<registryVars, now, vaultOwner, context, minFeeDeposit, frame>>
  BY DEF updateAutomationSteps, OwnerTx, TypeOK
<1>2. automations[id] \in Automation
  BY <1>1, ElementOfSeq DEF Ids
<1>3. [automations[id] EXCEPT !.steps = steps] \in Automation
  BY <1>2, VaultAssumption DEF Automation
<1>4. automations' = [automations EXCEPT ![id] = [automations[id] EXCEPT !.steps = steps]]
  BY <1>1
<1>5. /\ automations' \in Seq(Automation) /\ Len(automations') = Len(automations)
      /\ \A i \in Ids : automations'[i] = IF i = id THEN [automations[id] EXCEPT !.steps = steps]
                                          ELSE automations[i]
  BY <1>1, <1>3, <1>4, ExceptSeq DEF Ids
<1>6. fires' \in Seq(FireLog) /\ Len(fires') = Len(fires)
  BY <1>1, NewLogTyped, ExceptSeq DEF Ids
<1>7. \A i \in Ids' : ValidSteps(automations'[i].steps, automations'[i].ownerOnly)
  <2> SUFFICES ASSUME NEW i \in Ids
               PROVE  ValidSteps(automations'[i].steps, automations'[i].ownerOnly)
    BY <1>5 DEF Ids
  <2>1. CASE i = id
    <3>1. automations'[i].steps = steps /\ automations'[i].ownerOnly = automations[id].ownerOnly
      BY <1>2, <1>5, <2>1 DEF Automation
    <3> QED BY <1>1, <3>1
  <2>2. CASE i # id
    BY <1>5, <2>2 DEF RunOK
  <2> QED BY <2>1, <2>2
<1>8. TypeOK'
  BY <1>1, <1>5, <1>6 DEF TypeOK, RegistryTypeOK, registryVars
<1>9. ledger' = ledger
  BY <1>1 DEF registryVars
<1> QED BY <1>1, <1>7, <1>8, <1>9, LedgerTyped DEF Kept, RunOK

\* setAutomationActive keeps types and run.
LEMMA SetActiveKept ==
    ASSUME TypeOK, RunOK, NEW id \in Ids, NEW active \in BOOLEAN,
           setAutomationActive(id, active)
    PROVE  Kept
<1>1. /\ automations \in Seq(Automation) /\ frame = NoFrame
      /\ automations' = [automations EXCEPT ![id].active = active]
      /\ UNCHANGED <<registryVars, now, vaultOwner, context, minFeeDeposit, frame, fires>>
  BY DEF setAutomationActive, OwnerTx, TypeOK
<1>2. automations[id] \in Automation
  BY <1>1, ElementOfSeq DEF Ids
<1>3. PICK a \in Automation :
          /\ automations' = [automations EXCEPT ![id] = a]
          /\ a.steps = automations[id].steps /\ a.ownerOnly = automations[id].ownerOnly
  <2>1. /\ [automations[id] EXCEPT !.active = active] \in Automation
        /\ [automations[id] EXCEPT !.active = active].steps = automations[id].steps
        /\ [automations[id] EXCEPT !.active = active].ownerOnly = automations[id].ownerOnly
    BY <1>2 DEF Automation
  <2> QED BY <1>1, <2>1
<1>4. /\ automations' \in Seq(Automation) /\ Len(automations') = Len(automations)
      /\ \A i \in Ids : automations'[i] = IF i = id THEN a ELSE automations[i]
  <2>1. automations \in Seq(Automation) /\ id \in 1 .. Len(automations)
    BY <1>1 DEF Ids
  <2>2. /\ [automations EXCEPT ![id] = a] \in Seq(Automation)
        /\ Len([automations EXCEPT ![id] = a]) = Len(automations)
        /\ \A i \in 1 .. Len(automations) :
              [automations EXCEPT ![id] = a][i] = IF i = id THEN a ELSE automations[i]
    BY <2>1, ExceptSeq
  <2> QED BY <1>3, <2>2 DEF Ids
<1>5. \A i \in Ids' : ValidSteps(automations'[i].steps, automations'[i].ownerOnly)
  <2> SUFFICES ASSUME NEW i \in Ids
               PROVE  ValidSteps(automations'[i].steps, automations'[i].ownerOnly)
    BY <1>4 DEF Ids
  <2>1. automations'[i].steps = automations[i].steps /\ automations'[i].ownerOnly = automations[i].ownerOnly
    BY <1>3, <1>4
  <2> QED BY <2>1 DEF RunOK
<1>6. TypeOK'
  BY <1>1, <1>4 DEF TypeOK, RegistryTypeOK, registryVars
<1>7. ledger' = ledger
  BY <1>1 DEF registryVars
<1> QED BY <1>1, <1>5, <1>6, <1>7, LedgerTyped DEF Kept, RunOK

\* So does a context write,
LEMMA WriteContextKept ==
    ASSUME TypeOK, RunOK, NEW new \in Seq(SlotValue), WriteContext(new)
    PROVE  Kept
<1>1. /\ automations \in Seq(Automation) /\ frame = NoFrame
      /\ context' = new
      /\ fires' = [i \in Ids |-> NewLog(automations[i], new)]
      /\ UNCHANGED <<registryVars, now, vaultOwner, automations, minFeeDeposit, frame>>
  BY DEF WriteContext, OwnerTx, TypeOK
<1>2. fires' \in [1 .. Len(automations) -> FireLog] /\ Len(automations) \in Nat
  BY <1>1, NewLogTyped, LenProperties DEF Ids
<1>3. fires' \in Seq(FireLog) /\ Len(fires') = Len(automations)
  BY <1>2, SeqOfFunction
<1>4. TypeOK'
  BY <1>1, <1>3 DEF TypeOK, RegistryTypeOK, registryVars
<1>5. ledger' = ledger
  BY <1>1 DEF registryVars
<1> QED BY <1>1, <1>4, <1>5, LedgerTyped DEF Kept, RunOK, Ids

\* Every transaction of the vault's owner.
LEMMA OwnerCallKept ==
    ASSUME TypeOK, RunOK, OwnerCall
    PROVE  Kept
<1>1. ASSUME NEW amount \in Amount, setMinFeeDeposit(amount) PROVE Kept
  <2>1. /\ ledger' = ledger /\ TypeOK' /\ RunOK'
    BY <1>1 DEF setMinFeeDeposit, TypeOK, RegistryTypeOK, RunOK, registryVars, Ids, OwnerTx
  <2> QED BY <2>1, LedgerTyped DEF Kept
<1>2. ASSUME NEW newOwner \in NewOwner \ {VaultAddr}, transferVault(newOwner) PROVE Kept
  <2>1. /\ ledger' = ledger /\ TypeOK' /\ RunOK'
    BY <1>2 DEF transferVault, TypeOK, RegistryTypeOK, RunOK, registryVars, Ids, OwnerTx
  <2> QED BY <2>1, LedgerTyped DEF Kept
<1>3. ASSUME NEW new \in Context, setContext(new) PROVE Kept
  BY <1>3, VaultAssumption, WriteContextKept DEF setContext
<1>4. ASSUME NEW slot \in DOMAIN context, NEW value \in SlotInput, setContextSlot(slot, value) PROVE Kept
  <2>1. [context EXCEPT ![slot] = value] \in Seq(SlotValue)
    BY VaultAssumption, SlotWritten DEF TypeOK
  <2> QED BY <1>4, <2>1, WriteContextKept DEF setContextSlot
<1> QED BY <1>1, <1>2, <1>3, <1>4, OwnerMoneyKept, CreateKept, UpdateKept, SetActiveKept DEF OwnerCall

\* A new run starts at step 1 on a copy of the committed state.
LEMMA ExecuteKept ==
    ASSUME TypeOK, RunOK, NEW id \in Ids, NEW caller \in Executor,
           executeAutomation(id, caller)
    PROVE  Kept
<1> DEFINE f == [id |-> id, caller |-> caller, current |-> 1, stepCount |-> 0,
                 triggerFired |-> automations[id].ownerOnly
                                    /\ automations[id].steps[1].stepType = "ACTION",
                 ctxDirty |-> FALSE, ctx |-> context, ledger |-> ledger]
<1>1. /\ frame' = f
      /\ UNCHANGED <<registryVars, now, vaultOwner, automations, context, minFeeDeposit, fires>>
  BY DEF executeAutomation
<1>2. id \in Nat /\ automations \in Seq(Automation)
  BY LenProperties DEF Ids, TypeOK
<1>3. (automations[id].ownerOnly /\ automations[id].steps[1].stepType = "ACTION") \in BOOLEAN
  OBVIOUS
<1>4. f \in Frame
  BY <1>2, <1>3, VaultAssumption DEF Frame, TypeOK, RegistryTypeOK
<1>5. f.id = id /\ f.current = 1
  OBVIOUS
<1> HIDE DEF f
<1>6. TypeOK'
  BY <1>1, <1>4 DEF TypeOK, RegistryTypeOK, registryVars
<1>7. automations[id] \in Automation /\ ValidSteps(automations[id].steps, automations[id].ownerOnly)
  BY <1>2, ElementOfSeq DEF RunOK, Ids
<1>8. automations[id].steps \in Seq(Step) /\ Len(automations[id].steps) > 0
  BY <1>7 DEF Automation, ValidSteps
<1>9. 1 \in DOMAIN automations[id].steps
  BY <1>8, LenProperties
<1>10. RunOK'
  BY <1>1, <1>5, <1>9 DEF RunOK, Ids, Steps
<1>11. ledger' = ledger
  BY <1>1 DEF registryVars
<1> QED BY <1>6, <1>10, <1>11, LedgerTyped DEF Kept

\* A revert leaves the committed state as it was.
LEMMA RevertKept ==
    ASSUME TypeOK, RunOK, Revert
    PROVE  Kept
<1>1. TypeOK' /\ RunOK' /\ ledger' = ledger
  BY DEF Revert, TypeOK, RegistryTypeOK, RunOK, registryVars, Ids
<1> QED BY <1>1, LedgerTyped DEF Kept

\* Steps that only replace the frame by another one of the same run.
LEMMA FrameKept ==
    ASSUME TypeOK, RunOK, frame # NoFrame, NEW f \in Frame,
           f.id = frame.id, f.current \in DOMAIN Steps \cup {DONE},
           frame' = f,
           UNCHANGED <<registryVars, now, vaultOwner, automations, context, minFeeDeposit, fires>>
    PROVE  Kept
<1>1. TypeOK' /\ ledger' = ledger
  BY DEF TypeOK, RegistryTypeOK, registryVars
<1>2. RunOK'
  BY DEF RunOK, Ids, Steps
<1> QED BY <1>1, <1>2, LedgerTyped DEF Kept

\* a condition step,
LEMMA ConditionKept ==
    ASSUME TypeOK, RunOK, NEW met \in BOOLEAN, conditionStep(met)
    PROVE  Kept
<1>1. /\ frame # NoFrame /\ frame.current # DONE
      /\ CurrentStep.stepType = "CONDITION"
      /\ UNCHANGED <<registryVars, now, vaultOwner, automations, context, minFeeDeposit, fires>>
  BY DEF conditionStep, InLoop
<1>2. frame \in Frame /\ frame.triggerFired \in BOOLEAN /\ frame.stepCount \in Nat
  BY <1>1, FrameFacts DEF Frame
<1>3. PICK next \in DOMAIN Steps \cup {DONE} :
          next = IF met THEN CurrentStep.nextOnTrue ELSE CurrentStep.nextOnFalse
  BY <1>1, BranchFacts
<1>4. PICK fired \in BOOLEAN : fired = IF IsTrigger THEN met ELSE frame.triggerFired
  BY <1>2
<1>5. PICK k \in Nat : k = frame.stepCount + 1
  BY <1>2
<1>6. frame' = [frame EXCEPT !.triggerFired = fired, !.current = next, !.stepCount = k]
  BY <1>3, <1>4, <1>5 DEF conditionStep
<1>7. next \in Nat \cup {DONE}
  BY <1>1, BranchFacts
<1>8. frame' \in Frame /\ frame'.id = frame.id /\ frame'.current = next
  BY <1>2, <1>6, <1>7 DEF Frame
<1> QED BY <1>1, <1>8, FrameKept

\* and an action step.
LEMMA ActionKept ==
    ASSUME TypeOK, RunOK, InLoop, NEW result \in ActionResults, actionStep(result)
    PROVE  Kept
<1>1. /\ frame # NoFrame /\ frame.current # DONE
      /\ Applicable(result)
      /\ UNCHANGED <<registryVars, now, vaultOwner, automations, context, minFeeDeposit, fires>>
  BY DEF actionStep, InLoop
<1>2. frame \in Frame /\ frame.ctx \in Seq(SlotValue) /\ frame.stepCount \in Nat
  BY <1>1, FrameFacts
<1>3. PICK next \in DOMAIN Steps \cup {DONE} : next = CurrentStep.nextOnTrue
  BY <1>1, BranchFacts
<1>4. ResultOK(frame.ledger, result)
  BY <1>1, ActionResultsOK
<1>5. PICK new \in Seq(SlotValue) :
          new = IF result.slot = NO_SLOT THEN frame.ctx
                ELSE [frame.ctx EXCEPT ![result.slot] = result.value]
  BY <1>1, <1>2, <1>4, SlotWritten DEF Applicable, ResultOK
<1>6. PICK k \in Nat : k = frame.stepCount + 1
  BY <1>2
<1>7. PICK m \in Ledger : m = result.ledger
  BY <1>4 DEF ResultOK
<1>8. frame' = [frame EXCEPT !.ctx = new, !.ledger = m, !.ctxDirty = TRUE,
                             !.current = next, !.stepCount = k]
  BY <1>3, <1>5, <1>6, <1>7 DEF actionStep
<1>9. next \in Nat \cup {DONE}
  BY <1>1, BranchFacts
<1>10. frame' \in Frame /\ frame'.id = frame.id /\ frame'.current = next
  BY <1>2, <1>8, <1>9 DEF Frame
<1> QED BY <1>1, <1>10, FrameKept

\* The money of a run has only been moved by registry calls.
SurplusOK == frame # NoFrame => KeepsSurplus(ledger, frame.ledger)

\* The context that a run commits is well typed.
LEMMA FinalCtxTyped ==
    ASSUME TypeOK, RunOK, frame # NoFrame
    PROVE  FinalCtx \in Seq(SlotValue)
BY FrameFacts, AfterTyped DEF FinalCtx, TypeOK

\* The settlement of a run is a payment from the vault's own deposit.
LEMMA SettledKept ==
    ASSUME TypeOK, RunOK, frame # NoFrame,
           NEW gasUsed \in Gas, NEW txGasPrice \in GasPrice,
           NEW nativePrice \in Price, NEW tokenPrice \in Price,
           Funded(Charge(gasUsed, txGasPrice, nativePrice, tokenPrice))
    PROVE  LET n == Settled(Charge(gasUsed, txGasPrice, nativePrice, tokenPrice))
           IN  n \in Ledger /\ KeepsSurplus(frame.ledger, n)
<1> DEFINE comp == Charge(gasUsed, txGasPrice, nativePrice, tokenPrice)
<1>1. frame.ledger \in Ledger /\ frame.caller \in Account /\ VaultAddr \in Account
  BY FrameFacts, VaultAssumption DEF Frame
<1>2. CASE comp = 0
  BY <1>1, <1>2, SurplusReflexive DEF Settled
<1>3. CASE comp # 0
  <2>1. DepositToken \in Token
    BY <1>3, VaultAssumption DEF Charge
  <2>2. comp = ComputeGasComp(gasConfig, tokens[DepositToken], gasUsed, txGasPrice,
                              nativePrice, tokenPrice)
    BY <1>3 DEF Charge
  <2>3. /\ gasConfig \in [oracle : BOOLEAN, markupBps : Nat, overhead : Nat, maxGasPrice : Nat]
        /\ tokens[DepositToken] \in TokenConfig
    BY <2>1, ConfigRead DEF TypeOK
  <2>4. gasUsed \in Nat /\ txGasPrice \in Nat /\ nativePrice \in Nat /\ tokenPrice \in Nat
    OBVIOUS
  <2>5. comp \in Nat
    BY <2>2, <2>3, <2>4, ChargeNat
  <2>6. comp <= frame.ledger.dep[DepositToken][VaultAddr] /\ CanPay(frame.ledger, DepositToken, Registry, comp)
    BY <1>3 DEF Funded
  <2>7. Settled(comp) = PayFromDeposit(frame.ledger, DepositToken, VaultAddr, frame.caller, comp)
    BY <1>3 DEF Settled
  <2> HIDE DEF comp
  <2>8. Settled(comp) \in Ledger /\ KeepsSurplus(frame.ledger, Settled(comp))
    BY <1>1, <2>1, <2>5, <2>6, <2>7, PayFromDepositKeeps
  <2> QED BY <2>8 DEF comp
<1> QED BY <1>2, <1>3

\* A committed run writes a well-formed context and history.
LEMMA CommitKept ==
    ASSUME TypeOK, RunOK, SurplusOK,
           NEW gasUsed \in Gas, NEW txGasPrice \in GasPrice,
           NEW nativePrice \in Price, NEW tokenPrice \in Price,
           commit(gasUsed, txGasPrice, nativePrice, tokenPrice)
    PROVE  Kept
<1> DEFINE id == frame.id
<1>1. /\ frame # NoFrame /\ frame' = NoFrame
      /\ Funded(Charge(gasUsed, txGasPrice, nativePrice, tokenPrice))
      /\ context' \in {context, FinalCtx}
      /\ ledger' = Settled(Charge(gasUsed, txGasPrice, nativePrice, tokenPrice))
      /\ UNCHANGED <<configVars, now, vaultOwner, automations, minFeeDeposit>>
  BY DEF commit
<1>2. /\ automations \in Seq(Automation) /\ fires \in Seq(FireLog) /\ now \in Nat
      /\ context \in Seq(SlotValue) /\ frame.ctx \in Seq(SlotValue)
      /\ FinalCtx \in Seq(SlotValue)
      /\ id \in 1 .. Len(automations)
  BY <1>1, FrameFacts, FinalCtxTyped DEF TypeOK, Ids
<1>3. PICK logs \in Seq(FireLog) :
          logs = Rearmed(automations, fires, context, frame.ctx) /\ Len(logs) = Len(automations)
  <2>1. /\ Rearmed(automations, fires, context, frame.ctx) \in Seq(FireLog)
        /\ Len(Rearmed(automations, fires, context, frame.ctx)) = Len(automations)
    BY <1>2, RearmedTyped
  <2> QED BY <2>1
<1>4. PICK fin \in Seq(FireLog) :
          fin = Rearmed(automations, logs, frame.ctx, FinalCtx) /\ Len(fin) = Len(automations)
  <2>1. /\ Rearmed(automations, logs, frame.ctx, FinalCtx) \in Seq(FireLog)
        /\ Len(Rearmed(automations, logs, frame.ctx, FinalCtx)) = Len(automations)
    BY <1>2, RearmedTyped
  <2> QED BY <2>1
<1>5. PICK log \in FireLog :
          LET rewritten == NewLog(automations[id], context).start
                             # NewLog(automations[id], frame.ctx).start
          IN  log = Fired(IF rewritten THEN fin[id] ELSE logs[id], Steps[1], rewritten)
  <2>1. PICK rewritten \in BOOLEAN :
            rewritten <=> NewLog(automations[id], context).start
                            # NewLog(automations[id], frame.ctx).start
    OBVIOUS
  <2>2. fin[id] \in FireLog /\ logs[id] \in FireLog
    BY <1>2, <1>3, <1>4, ElementOfSeq
  <2>3. Fired(IF rewritten THEN fin[id] ELSE logs[id], Steps[1], rewritten) \in FireLog
    BY <1>2, <2>2, FiredTyped
  <2> QED BY <2>1, <2>3
<1>6. fires' \in Seq(FireLog) /\ Len(fires') = Len(automations)
  <2>1. /\ [fin EXCEPT ![id] = log] \in Seq(FireLog)
        /\ Len([fin EXCEPT ![id] = log]) = Len(fin)
    BY <1>2, <1>4, ExceptSeq
  <2>2. fires' = IF frame.triggerFired THEN [fin EXCEPT ![id] = log] ELSE logs
    BY <1>3, <1>4, <1>5 DEF commit
  <2> QED BY <1>3, <1>4, <2>1, <2>2
<1>7. ledger' \in Ledger /\ KeepsSurplus(frame.ledger, ledger')
  BY <1>1, SettledKept
<1>8. KeepsSurplus(ledger, ledger')
  <2>1. ledger \in Ledger /\ frame.ledger \in Ledger /\ KeepsSurplus(ledger, frame.ledger)
    BY <1>1, FrameFacts, LedgerTyped DEF SurplusOK
  <2> QED BY <1>7, <2>1, SurplusTransitive
<1>9. TypeOK'
  BY <1>1, <1>2, <1>6, <1>7 DEF TypeOK, RegistryTypeOK, configVars
<1>10. RunOK'
  BY <1>1 DEF RunOK, Ids
<1> QED BY <1>8, <1>9, <1>10 DEF Kept

\* Everybody else's calls to the registry.
LEMMA RegistryTxKept ==
    ASSUME TypeOK, RunOK, registryTx
    PROVE  Kept
<1>1. RegistryTypeOK /\ RegistryNext
  BY DEF registryTx, RegistryNext, TypeOK
<1>2. RegistryTypeOK' /\ KeepsSurplus(ledger, ledger')
  BY <1>1, StepKeeps, ConfigTyped DEF RegistryTypeOK
<1>3. UNCHANGED vaultVars
  BY DEF registryTx
<1> QED BY <1>2, <1>3 DEF Kept, TypeOK, RunOK, vaultVars, Ids, Steps

\* Time passes between transactions.
LEMMA NextBlockKept ==
    ASSUME TypeOK, RunOK, nextBlock
    PROVE  Kept
<1>1. ledger' = ledger /\ TypeOK' /\ RunOK'
  BY DEF nextBlock, TypeOK, RegistryTypeOK, RunOK, registryVars, Ids
<1> QED BY <1>1, LedgerTyped DEF Kept

\* Every step of a run.
LEMMA RunStepKept ==
    ASSUME TypeOK, RunOK, SurplusOK, Run
    PROVE  Kept
<1>1. Revert => Kept
  BY RevertKept
<1>2. CASE InLoop /\ \E result \in ActionResults : actionStep(result)
  BY <1>2, ActionKept
<1>3. CASE \E gasUsed \in Gas, txGasPrice \in GasPrice, nativePrice \in Price, tokenPrice \in Price :
             commit(gasUsed, txGasPrice, nativePrice, tokenPrice)
  BY <1>3, CommitKept
<1>4. CASE \E met \in BOOLEAN : conditionStep(met)
  BY <1>4, ConditionKept
<1>5. CASE maxStepsExceeded \/ conditionReverts \/ actionReverts
  BY <1>1, <1>5 DEF maxStepsExceeded, conditionReverts, actionReverts
<1>6. CASE \E gasUsed \in Gas, txGasPrice \in GasPrice, nativePrice \in Price, tokenPrice \in Price :
             commitReverts(gasUsed, txGasPrice, nativePrice, tokenPrice)
  BY <1>1, <1>6 DEF commitReverts, Revert
<1> QED BY <1>2, <1>3, <1>4, <1>5, <1>6 DEF Run

\* Every step of the system.
LEMMA StepKept ==
    ASSUME TypeOK, RunOK, SurplusOK, [Next]_vars
    PROVE  Kept
<1>1. CASE UNCHANGED vars
  <2>1. ledger' = ledger /\ TypeOK' /\ RunOK'
    BY <1>1 DEF vars, registryVars, vaultVars, TypeOK, RegistryTypeOK, RunOK, Ids, Steps
  <2> QED BY <2>1, LedgerTyped DEF Kept
<1> QED BY <1>1, OwnerCallKept, ExecuteKept, RunStepKept, NextBlockKept, RegistryTxKept DEF Next

\* Outside a run there is no frame before or after.
LEMMA NoRunNoFrame ==
    ASSUME OwnerCall \/ nextBlock \/ registryTx
    PROVE  frame = NoFrame /\ frame' = NoFrame
BY DEF OwnerCall, nextBlock, registryTx, deposit, withdraw, depositFees, setMinFeeDeposit,
       create, updateAutomationSteps, setAutomationActive, setContext, setContextSlot,
       WriteContext, transferVault, OwnerTx, vaultVars

\* A step of a run ends it or replaces the frame.
LEMMA RunFrame ==
    ASSUME Run, frame' # NoFrame
    PROVE  \/ \E met \in BOOLEAN : conditionStep(met)
           \/ InLoop /\ \E result \in ActionResults : actionStep(result)
BY DEF Run, maxStepsExceeded, conditionReverts, actionReverts, Revert, commit, commitReverts

\* Inside a run the surplus never shrinks.
LEMMA SurplusKept ==
    ASSUME TypeOK, RunOK, SurplusOK, [Next]_vars
    PROVE  SurplusOK'
<1>1. CASE OwnerCall \/ nextBlock \/ registryTx
  BY <1>1, NoRunNoFrame DEF SurplusOK
<1>2. CASE \E id \in Ids, caller \in Executor : executeAutomation(id, caller)
  <2>1. frame'.ledger = ledger /\ ledger' = ledger
    BY <1>2 DEF executeAutomation, registryVars
  <2> QED BY <2>1, LedgerTyped DEF SurplusOK
<1>3. CASE Run
  <2> SUFFICES ASSUME frame' # NoFrame PROVE KeepsSurplus(ledger', frame'.ledger)
    BY DEF SurplusOK
  <2>1. CASE \E met \in BOOLEAN : conditionStep(met)
    <3>1. /\ frame # NoFrame /\ frame.current # DONE
          /\ ledger' = ledger
          /\ \E fired, next, k : frame' = [frame EXCEPT !.triggerFired = fired, !.current = next,
                                                        !.stepCount = k]
      BY <2>1 DEF conditionStep, InLoop, registryVars
    <3>2. frame'.ledger = frame.ledger
      BY <3>1, FrameFacts DEF Frame
    <3> QED BY <3>1, <3>2 DEF SurplusOK
  <2>2. CASE InLoop /\ \E result \in ActionResults : actionStep(result)
    <3>1. PICK result \in ActionResults : actionStep(result)
      BY <2>2
    <3>2. /\ frame # NoFrame /\ frame.current # DONE
          /\ ledger' = ledger
          /\ \E new, next, k : frame' = [frame EXCEPT !.ctx = new, !.ledger = result.ledger,
                                   !.ctxDirty = TRUE, !.current = next, !.stepCount = k]
      BY <2>2, <3>1 DEF actionStep, InLoop, registryVars
    <3>3. frame'.ledger = result.ledger
      BY <3>2, FrameFacts DEF Frame
    <3>4. /\ frame.ledger \in Ledger /\ ledger \in Ledger
          /\ result.ledger \in Ledger /\ KeepsSurplus(frame.ledger, result.ledger)
          /\ KeepsSurplus(ledger, frame.ledger)
      BY <3>2, FrameFacts, ActionResultsOK, LedgerTyped DEF ResultOK, SurplusOK
    <3>5. KeepsSurplus(ledger, result.ledger)
      BY <3>4, SurplusTransitive
    <3> QED BY <3>2, <3>3, <3>5
  <2> QED BY <1>3, <2>1, <2>2, RunFrame
<1>4. CASE UNCHANGED vars
  BY <1>4 DEF vars, vaultVars, registryVars, SurplusOK
<1> QED BY <1>1, <1>2, <1>3, <1>4 DEF Next

\* A stranger's run goes on only past its trigger.
LEMMA StrangerKept ==
    ASSUME TypeOK, RunOK, StrangerOK, [Next]_vars
    PROVE  StrangerOK'
<1>1. CASE OwnerCall \/ nextBlock \/ registryTx
  BY <1>1, NoRunNoFrame DEF StrangerOK
<1>2. CASE \E id \in Ids, caller \in Executor : executeAutomation(id, caller)
  <2>1. PICK id \in Ids, caller \in Executor : executeAutomation(id, caller)
    BY <1>2
  <2>2. /\ frame'.id = id /\ frame'.caller = caller
        /\ frame'.current = 1 /\ frame'.stepCount = 0
        /\ vaultOwner' = vaultOwner /\ automations' = automations
        /\ ~automations[id].ownerOnly \/ caller = vaultOwner
    BY <2>1 DEF executeAutomation
  <2> QED BY <2>2 DEF StrangerOK
<1>3. CASE Run
  <2> SUFFICES ASSUME frame' # NoFrame PROVE StrangerOK'
    BY DEF StrangerOK
  <2>1. CASE \E met \in BOOLEAN : conditionStep(met)
    <3>1. PICK met \in BOOLEAN : conditionStep(met)
      BY <2>1
    <3>2. frame # NoFrame /\ frame.current # DONE
      BY <3>1 DEF conditionStep, InLoop
    <3>3. frame \in Frame /\ frame.stepCount \in Nat
      BY <3>2, FrameFacts
    <3>4. /\ frame'.id = frame.id /\ frame'.caller = frame.caller
          /\ frame'.stepCount = frame.stepCount + 1
          /\ frame'.triggerFired = IF IsTrigger THEN met ELSE frame.triggerFired
          /\ vaultOwner' = vaultOwner /\ automations' = automations
          /\ ~TriggerRejects(met)
      BY <3>1, <3>3 DEF conditionStep, Frame
    <3>5. frame'.stepCount # 0
      BY <3>3, <3>4
    <3>6. ASSUME frame.caller # vaultOwner PROVE frame'.triggerFired
      <4>1. CASE IsTrigger
        BY <3>4, <3>6, <4>1 DEF TriggerRejects
      <4>2. CASE ~IsTrigger
        BY <3>2, <3>4, <3>6, <4>2 DEF StrangerOK, IsTrigger
      <4> QED BY <4>1, <4>2
    <3> QED BY <3>2, <3>4, <3>5, <3>6 DEF StrangerOK
  <2>2. CASE InLoop /\ \E result \in ActionResults : actionStep(result)
    <3>1. PICK result \in ActionResults : actionStep(result)
      BY <2>2
    <3>2. frame # NoFrame /\ frame.current # DONE /\ CurrentStep.stepType = "ACTION"
      BY <3>1 DEF actionStep, InLoop
    <3>3. frame \in Frame /\ frame.stepCount \in Nat
      BY <3>2, FrameFacts
    <3>4. /\ frame'.id = frame.id /\ frame'.caller = frame.caller
          /\ frame'.stepCount = frame.stepCount + 1
          /\ frame'.triggerFired = frame.triggerFired
          /\ vaultOwner' = vaultOwner /\ automations' = automations
      BY <3>1, <3>3 DEF actionStep, Frame
    <3>5. frame'.stepCount # 0
      BY <3>3, <3>4
    <3>6. ASSUME frame.caller # vaultOwner PROVE frame.triggerFired
      <4>1. ~automations[frame.id].ownerOnly
        BY <3>2, <3>6 DEF StrangerOK
      <4>2. Steps[1].stepType = "CONDITION"
        BY <3>2, <4>1 DEF RunOK, ValidSteps, Steps
      <4>3. frame.current # 1
        BY <3>2, <4>2 DEF CurrentStep
      <4> QED BY <3>2, <3>6, <4>3 DEF StrangerOK
    <3> QED BY <3>2, <3>4, <3>5, <3>6 DEF StrangerOK
  <2> QED BY <1>3, <2>1, <2>2, RunFrame
<1>4. CASE UNCHANGED vars
  BY <1>4 DEF vars, vaultVars, StrangerOK
<1> QED BY <1>1, <1>2, <1>3, <1>4 DEF Next

-----------------------------------------------------------------------------
(* Theorems.                                                               *)

Inv == TypeOK /\ RunOK /\ SurplusOK /\ StrangerOK /\ Solvent(ledger)

\* The invariant holds of a new vault.
LEMMA InitInv == Init => Inv
<1> SUFFICES ASSUME Init PROVE Inv
  OBVIOUS
<1>1. RegistryInit /\ automations = <<>> /\ context = <<>> /\ fires = <<>> /\ frame = NoFrame
  BY DEF Init
<1>2. RegistryTypeOK
  BY <1>1 DEF RegistryInit, RegistryTypeOK, Ledger, TokenConfig, Caller
<1>3. TypeOK
  BY <1>1, <1>2, VaultAssumption, EmptySeq DEF Init, TypeOK, Caller
<1>4. RunOK /\ SurplusOK /\ StrangerOK
  BY <1>1 DEF RunOK, SurplusOK, StrangerOK, Ids
<1>5. Solvent(ledger)
  <2> SUFFICES ASSUME NEW t \in Token PROVE Booked(ledger, t) <= ledger.bal[t][Registry]
    BY DEF Solvent
  <2>1. Booked(ledger, t) = 0 + 0
    BY <1>1, NothingBooked DEF RegistryInit, Booked
  <2>2. ledger.bal[t][Registry] \in Nat
    BY <1>1 DEF RegistryInit
  <2> QED BY <2>1, <2>2
<1> QED BY <1>3, <1>4, <1>5 DEF Inv

\* Every step keeps it.
LEMMA NextInv == Inv /\ [Next]_vars => Inv'
<1> SUFFICES ASSUME Inv, [Next]_vars PROVE Inv'
  OBVIOUS
<1>1. Kept /\ SurplusOK' /\ StrangerOK'
  BY StepKept, SurplusKept, StrangerKept DEF Inv
<1>2. ledger \in Ledger /\ ledger' \in Ledger
  BY <1>1 DEF Kept, Inv, TypeOK, RegistryTypeOK
<1>3. Solvent(ledger')
  BY <1>1, <1>2, SolventKept DEF Inv, Kept
<1> QED BY <1>1, <1>3 DEF Inv, Kept, Solvent

\* It holds throughout.
LEMMA Invariance == Spec => []Inv
BY InitInv, NextInv, PTL DEF Spec

\* Every reachable state of the vault beside the registry is well typed: no
\* deposit or balance underflows, and every stored context slot is a value.
THEOREM VaultTypeCorrect == Spec => []TypeOK
<1>1. Inv => TypeOK
  BY DEF Inv
<1> QED BY <1>1, Invariance, PTL

\* No run leaves the step array of its automation, whatever the owner deploys.
THEOREM RunsStayInBounds == Spec => []StepInBounds
<1>1. Inv => StepInBounds
  BY DEF Inv, RunOK, StepInBounds
<1> QED BY <1>1, Invariance, PTL

\* The registry is solvent in every committed state and in the ledger of every
\* unfinished run.
THEOREM VaultStaysSolvent == Spec => []VaultSolvent
<1>1. Inv => VaultSolvent
  <2> SUFFICES ASSUME Inv PROVE VaultSolvent
    OBVIOUS
  <2>1. CASE frame = NoFrame
    BY <2>1 DEF Inv, VaultSolvent
  <2>2. CASE frame # NoFrame
    <3>1. /\ ledger \in Ledger /\ frame.ledger \in Ledger
          /\ KeepsSurplus(ledger, frame.ledger) /\ Solvent(ledger)
      BY <2>2, FrameFacts, LedgerTyped DEF Inv, SurplusOK
    <3> QED BY <3>1, SolventKept DEF VaultSolvent
  <2> QED BY <2>1, <2>2
<1> QED BY <1>1, Invariance, PTL

\* A run by anyone but the owner that changes money or context had its trigger
\* met when it began.
THEOREM StrangersNeedTheTrigger == Spec => KeeperNeedsTrigger
<1> DEFINE A == (/\ frame # NoFrame /\ frame.caller # vaultOwner
                 /\ <<ledger, context>>' # <<ledger, context>>) => frame.triggerFired
<1>1. Inv /\ [Next]_vars => [A]_vars
  <2> SUFFICES ASSUME Inv, Next, frame # NoFrame, frame.caller # vaultOwner,
                      <<ledger, context>>' # <<ledger, context>>
               PROVE  frame.triggerFired
    OBVIOUS
  <2>1. Run
    BY NoRunNoFrame DEF Next, executeAutomation
  <2>2. frame.current = DONE
    BY <2>1 DEF Run, maxStepsExceeded, conditionStep, conditionReverts, actionStep,
                actionReverts, Revert, commitReverts, commit, registryVars
  <2>3. DONE \notin Nat
    BY VaultAssumption
  <2> QED BY <2>2, <2>3 DEF Inv, StrangerOK
<1> QED BY <1>1, Invariance, PTL DEF Spec, KeeperNeedsTrigger

-----------------------------------------------------------------------------
(* The vault's gas deposit.                                                *)

\* From m to n, the vault's deposit does not shrink in any token.
DepositHeld(m, n) == \A t \in Token : m.dep[t][VaultAddr] <= n.dep[t][VaultAddr]

\* A run has not lowered the deposit before its settlement.
DepositOK == frame # NoFrame => DepositHeld(ledger, frame.ledger)

\* A value with the parts of a ledger, well typed or not.
IsMoney(m) == m = [bal |-> m.bal, dep |-> m.dep, fees |-> m.fees]

\* A ledger has balances, deposits and fees.
LEMMA LedgerIsMoney ==
    ASSUME NEW m \in Ledger
    PROVE  IsMoney(m)
BY DEF Ledger, IsMoney

\* Transfers and fees leave every deposit alone.
LEMMA TransferHolds ==
    ASSUME NEW m, IsMoney(m), NEW t, NEW from, NEW to, NEW amount
    PROVE  LET n == Transfer(m, t, from, to, amount) IN IsMoney(n) /\ n.dep = m.dep
<1>1. PICK b : Transfer(m, t, from, to, amount) = [m EXCEPT !.bal = b]
  BY DEF Transfer
<1>2. [m EXCEPT !.bal = b] = [bal |-> b, dep |-> m.dep, fees |-> m.fees]
  BY DEF IsMoney
<1> QED BY <1>1, <1>2 DEF IsMoney

\* So does a fee.
LEMMA CollectFeeHolds ==
    ASSUME NEW m, IsMoney(m), NEW t, NEW caller, NEW amount
    PROVE  CollectFee(m, t, caller, amount).dep = m.dep
<1>1. PICK n : n = Transfer(m, t, caller, Registry, amount)
  OBVIOUS
<1>2. IsMoney(n) /\ n.dep = m.dep
  BY <1>1, TransferHolds
<1>3. \E l : CollectFee(m, t, caller, amount) \in {m, [n EXCEPT !.fees = l]}
  BY <1>1 DEF CollectFee
<1>4. \A l : [n EXCEPT !.fees = l].dep = n.dep
  BY <1>2 DEF IsMoney
<1> QED BY <1>2, <1>3, <1>4

\* A deposit only raises deposits.
LEMMA DepositForHolds ==
    ASSUME NEW m \in Ledger, NEW t \in Token, NEW caller \in Account, NEW vault \in Account,
           NEW amount \in Nat
    PROVE  DepositHeld(m, DepositFor(m, t, caller, vault, amount))
<1>1. PICK pulled : pulled = Transfer(m, t, caller, Registry, amount)
  OBVIOUS
<1>2. IsMoney(pulled) /\ pulled.dep = m.dep
  BY <1>1, LedgerIsMoney, TransferHolds
<1>3. DepositFor(m, t, caller, vault, amount) = [pulled EXCEPT !.dep[t][vault] = @ + amount]
  BY <1>1 DEF DepositFor
<1>4. DepositFor(m, t, caller, vault, amount).dep
        = [m.dep EXCEPT ![t] = [m.dep[t] EXCEPT ![vault] = m.dep[t][vault] + amount]]
  BY <1>2, <1>3 DEF IsMoney
<1>5. m.dep \in [Token -> [Account -> Nat]] /\ VaultAddr \in Account
  BY VaultAssumption DEF Ledger
<1> QED BY <1>4, <1>5 DEF DepositHeld

\* A payment from a deposit lowers that deposit only.
LEMMA PayFromDepositHolds ==
    ASSUME NEW m \in Ledger, NEW t \in Token, NEW vault \in Account, NEW to \in Account,
           NEW amount, NEW u \in Token, NEW v \in Account, t # u \/ vault # v
    PROVE  PayFromDeposit(m, t, vault, to, amount).dep[u][v] = m.dep[u][v]
<1> DEFINE booked == [m EXCEPT !.dep[t][vault] = @ - amount]
<1>0. /\ IsMoney(booked)
      /\ booked.dep = [m.dep EXCEPT ![t] = [m.dep[t] EXCEPT ![vault] = m.dep[t][vault] - amount]]
  BY LedgerIsMoney DEF IsMoney
<1>1. PayFromDeposit(m, t, vault, to, amount).dep = booked.dep
  <2>1. PayFromDeposit(m, t, vault, to, amount) = Transfer(booked, t, Registry, to, amount)
    BY DEF PayFromDeposit
  <2> HIDE DEF booked
  <2> QED BY <1>0, <2>1, TransferHolds
<1>2. m.dep \in [Token -> [Account -> Nat]]
  BY DEF Ledger
<1> QED BY <1>0, <1>1, <1>2

\* A deposit that is left alone is held.
LEMMA SameDeposits ==
    ASSUME NEW m \in Ledger, NEW n, n.dep = m.dep
    PROVE  DepositHeld(m, n)
<1>1. \A t \in Token : m.dep[t][VaultAddr] \in Nat
  BY VaultAssumption DEF Ledger
<1> QED BY <1>1 DEF DepositHeld

\* A deposit held over two steps is held over both.
LEMMA HeldTransitive ==
    ASSUME NEW m \in Ledger, NEW n \in Ledger, NEW p \in Ledger,
           DepositHeld(m, n), DepositHeld(n, p)
    PROVE  DepositHeld(m, p)
<1>1. \A t \in Token : /\ m.dep[t][VaultAddr] \in Nat /\ n.dep[t][VaultAddr] \in Nat
                       /\ p.dep[t][VaultAddr] \in Nat
  BY VaultAssumption DEF Ledger
<1> QED BY <1>1 DEF DepositHeld

\* No action lowers the deposit of the vault that runs it.
LEMMA ActionHolds ==
    ASSUME TypeOK, RunOK, frame # NoFrame, frame.current # DONE,
           NEW result \in ActionResults
    PROVE  DepositHeld(frame.ledger, result.ledger)
<1> DEFINE d == CurrentStep.data
           m == frame.ledger
<1>1. d \in StepData
  BY FrameFacts DEF Step
<1>2. d.token \in Token /\ d.n \in Nat
  BY <1>1 DEF StepData, Uint
<1>3. /\ frame.ctx \in Seq(SlotValue) /\ m \in Ledger
      /\ withdrawFeeBps \in 0 .. MAX_FEE_BPS /\ minFeeDeposit \in Nat
  BY FrameFacts DEF TypeOK, RegistryTypeOK
<1>4. VaultAddr \in Account /\ Recipient \in Account
  BY VaultAssumption
<1> HIDE DEF d, m
<1>5. CASE CurrentStep.target = "ERC20Transfer"
  <2>1. result \in ERC20TransferResults(d, frame.ctx, m, VaultAddr, withdrawFeeBps)
    BY <1>5 DEF ActionResults, d, m
  <2>2. PICK fee, sum :
            result.ledger = CollectFee(Transfer(m, d.token, VaultAddr, Recipient, sum),
                                       d.token, VaultAddr, fee)
    BY <2>1 DEF ERC20TransferResults, Result
  <2>3. result.ledger.dep = m.dep
    BY <1>3, <2>2, LedgerIsMoney, TransferHolds, CollectFeeHolds
  <2> QED BY <1>3, <2>3, SameDeposits DEF m
<1>6. CASE CurrentStep.target = "FeeDeposit"
  <2>1. result \in FeeDepositResults(d, m, VaultAddr, minFeeDeposit, tokens[d.token].enabled)
    BY <1>6 DEF ActionResults, d, m
  <2>2. /\ m.dep[d.token][VaultAddr] \in Nat /\ m.bal[d.token][VaultAddr] \in Nat
    BY SMTT(30), <1>2, <1>3, <1>4 DEF Ledger
  <2>3. \/ result.ledger = m
        \/ \E sum \in Nat : result.ledger = DepositFor(m, d.token, VaultAddr, VaultAddr, sum)
    BY <1>2, <1>3, <2>1, <2>2 DEF FeeDepositResults, Result
  <2> QED BY <1>2, <1>3, <1>4, <2>3, SameDeposits, DepositForHolds DEF m
<1>7. CASE CurrentStep.target = "Protocol"
  <2>1. result \in ProtocolResults(d, m, VaultAddr)
    BY <1>7 DEF ActionResults, d, m
  <2>2. PICK v \in Output : result = Result(Transfer(m, d.token, VaultAddr, Recipient, d.n), d.outSlot, v)
    BY <2>1 DEF ProtocolResults
  <2>3. result.ledger.dep = m.dep
    BY <1>3, <2>2, LedgerIsMoney, TransferHolds DEF Result
  <2> QED BY <1>3, <2>3, SameDeposits DEF m
<1> QED BY <1>5, <1>6, <1>7 DEF ActionResults

\* The registry's own transactions lower only the caller's deposit.
LEMMA RegistryTxHolds ==
    ASSUME TypeOK, registryTx
    PROVE  DepositHeld(ledger, ledger')
<1>1. ledger \in Ledger
  BY DEF TypeOK, RegistryTypeOK
<1>2. CASE OwnerNext
  <2>1. ledger' = ledger \/ \E t \in Token : withdrawFees(t)
    BY <1>2 DEF OwnerNext, addAcceptedToken, removeAcceptedToken, setDepositFeeBps,
                setWithdrawFeeBps, setGasConfig, transferOwnership
  <2>2. ASSUME NEW t \in Token, withdrawFees(t) PROVE ledger'.dep = ledger.dep
    <3>1. PICK n : n = [ledger EXCEPT !.fees[t] = 0]
      OBVIOUS
    <3>2. IsMoney(n) /\ n.dep = ledger.dep
      BY <1>1, <3>1 DEF Ledger, IsMoney
    <3>3. ledger' = Transfer(n, t, Registry, owner, ledger.fees[t])
      BY <2>2, <3>1 DEF withdrawFees, WithdrawFees
    <3> QED BY <3>2, <3>3, TransferHolds
  <2> QED BY <1>1, <2>1, <2>2, SameDeposits
<1>3. CASE \E caller \in Caller \ {VaultAddr} : PublicCall(caller)
  <2>1. PICK caller \in Caller \ {VaultAddr} : PublicCall(caller)
    BY <1>3
  <2>2. caller \in Account /\ caller # VaultAddr /\ VaultAddr \in Account
    BY <2>1, VaultAssumption DEF Caller
  <2>3. PICK t \in Token :
          \/ \E vault \in Account, amount \in Amount : depositFor(caller, vault, t, amount)
          \/ \E amount \in Amount : withdrawDeposit(caller, t, amount)
          \/ \E amount \in Amount : collectFee(caller, t, amount)
          \/ \E executor \in Account, gasUsed \in Gas, txGasPrice \in GasPrice,
                nativePrice \in Price, tokenPrice \in Price :
                 deductGasComp(caller, t, executor, gasUsed, txGasPrice, nativePrice, tokenPrice)
          \/ \E to \in Account, amount \in Amount : transfer(caller, to, t, amount)
    BY <2>1 DEF PublicCall
  <2>4. ASSUME NEW to \in Account, NEW sum,
               ledger' = PayFromDeposit(ledger, t, caller, to, sum)
        PROVE  DepositHeld(ledger, ledger')
    <3>1. \A u \in Token : ledger'.dep[u][VaultAddr] = ledger.dep[u][VaultAddr]
      BY <1>1, <2>2, <2>4, PayFromDepositHolds
    <3>2. \A u \in Token : ledger.dep[u][VaultAddr] \in Nat
      BY <1>1, <2>2 DEF Ledger
    <3> QED BY <3>1, <3>2 DEF DepositHeld
  <2>5. ASSUME NEW vault \in Account, NEW amount \in Amount, depositFor(caller, vault, t, amount)
        PROVE  DepositHeld(ledger, ledger')
    BY <1>1, <2>2, <2>5, DepositForHolds DEF depositFor
  <2>6. ASSUME NEW amount \in Amount, withdrawDeposit(caller, t, amount)
        PROVE  DepositHeld(ledger, ledger')
    BY <2>2, <2>4, <2>6 DEF withdrawDeposit
  <2>7. ASSUME NEW amount \in Amount, collectFee(caller, t, amount)
        PROVE  DepositHeld(ledger, ledger')
    BY <1>1, <2>7, LedgerIsMoney, CollectFeeHolds, SameDeposits DEF collectFee
  <2>8. ASSUME NEW executor \in Account, NEW gasUsed \in Gas, NEW txGasPrice \in GasPrice,
               NEW nativePrice \in Price, NEW tokenPrice \in Price,
               deductGasComp(caller, t, executor, gasUsed, txGasPrice, nativePrice, tokenPrice)
        PROVE  DepositHeld(ledger, ledger')
    BY <2>4, <2>8 DEF deductGasComp
  <2>9. ASSUME NEW to \in Account, NEW amount \in Amount, transfer(caller, to, t, amount)
        PROVE  DepositHeld(ledger, ledger')
    BY <1>1, <2>9, LedgerIsMoney, TransferHolds, SameDeposits DEF transfer
  <2> QED BY <2>3, <2>5, <2>6, <2>7, <2>8, <2>9
<1> QED BY <1>2, <1>3 DEF registryTx

\* The owner's transactions never take from the gas deposit.
LEMMA OwnerCallHolds ==
    ASSUME TypeOK, OwnerCall
    PROVE  DepositHeld(ledger, ledger')
<1>1. ledger \in Ledger /\ VaultAddr \in Account
  BY VaultAssumption DEF TypeOK, RegistryTypeOK
<1>2. ASSUME NEW t \in Token, NEW amount \in Amount, deposit(t, amount)
      PROVE  ledger'.dep = ledger.dep
  BY <1>1, <1>2, LedgerIsMoney, TransferHolds, CollectFeeHolds DEF deposit
<1>3. ASSUME NEW t \in Token, NEW amount \in Amount, NEW recipient \in Account \ {Registry},
             withdraw(t, amount, recipient)
      PROVE  ledger'.dep = ledger.dep
  <2>1. PICK n, fee : /\ n = CollectFee(ledger, t, VaultAddr, fee)
                      /\ fee \in Nat
                      /\ CanCollectFee(ledger, t, VaultAddr, fee)
                      /\ ledger' = Transfer(n, t, VaultAddr, recipient, amount - fee)
    <3>0. withdrawFeeBps \in 0 .. MAX_FEE_BPS /\ amount \in Nat
      BY DEF TypeOK, RegistryTypeOK
    <3>1. Fee(amount, withdrawFeeBps) \in Nat
      BY <3>0, FeeBound
    <3>2. PICK fee \in Nat : fee = IF RegistrySet THEN Fee(amount, withdrawFeeBps) ELSE 0
      BY <3>1
    <3> QED BY <1>3, <3>2 DEF withdraw
  <2>2. n \in Ledger
    BY <1>1, <2>1, VaultAssumption, CollectFeeKeeps
  <2>3. n.dep = ledger.dep
    BY <1>1, <2>1, LedgerIsMoney, CollectFeeHolds
  <2> QED BY <2>1, <2>2, <2>3, LedgerIsMoney, TransferHolds
<1>4. ASSUME NEW t \in Token, NEW amount \in Amount, depositFees(t, amount)
      PROVE  DepositHeld(ledger, ledger')
  BY <1>1, <1>4, DepositForHolds DEF depositFees
<1>5. \/ ledger' = ledger
      \/ \E t \in Token, amount \in Amount :
            \/ deposit(t, amount)
            \/ \E recipient \in Account \ {Registry} : withdraw(t, amount, recipient)
            \/ depositFees(t, amount)
  BY DEF OwnerCall, setMinFeeDeposit, create, updateAutomationSteps, setAutomationActive,
         setContext, setContextSlot, WriteContext, transferVault, registryVars
<1> QED BY <1>1, <1>2, <1>3, <1>4, <1>5, SameDeposits

\* Inside a run the vault's gas deposit is held.
LEMMA DepositKept ==
    ASSUME TypeOK, RunOK, DepositOK, [Next]_vars
    PROVE  DepositOK'
<1>1. CASE OwnerCall \/ nextBlock \/ registryTx
  BY <1>1, NoRunNoFrame DEF DepositOK
<1>2. CASE \E id \in Ids, caller \in Executor : executeAutomation(id, caller)
  <2>1. frame'.ledger = ledger /\ ledger' = ledger
    BY <1>2 DEF executeAutomation, registryVars
  <2> QED BY <2>1, LedgerTyped, SameDeposits DEF DepositOK
<1>3. CASE Run
  <2> SUFFICES ASSUME frame' # NoFrame PROVE DepositHeld(ledger', frame'.ledger)
    BY DEF DepositOK, DepositHeld
  <2>1. CASE \E met \in BOOLEAN : conditionStep(met)
    <3>1. /\ frame # NoFrame /\ frame.current # DONE
          /\ ledger' = ledger
          /\ \E fired, next, k : frame' = [frame EXCEPT !.triggerFired = fired, !.current = next,
                                                        !.stepCount = k]
      BY <2>1 DEF conditionStep, InLoop, registryVars
    <3>2. frame'.ledger = frame.ledger
      BY <3>1, FrameFacts DEF Frame
    <3> QED BY <3>1, <3>2 DEF DepositOK
  <2>2. CASE InLoop /\ \E result \in ActionResults : actionStep(result)
    <3>1. PICK result \in ActionResults : actionStep(result)
      BY <2>2
    <3>2. /\ frame # NoFrame /\ frame.current # DONE
          /\ ledger' = ledger
          /\ \E new, next, k : frame' = [frame EXCEPT !.ctx = new, !.ledger = result.ledger,
                                   !.ctxDirty = TRUE, !.current = next, !.stepCount = k]
      BY <2>2, <3>1 DEF actionStep, InLoop, registryVars
    <3>3. frame'.ledger = result.ledger
      BY <3>2, FrameFacts DEF Frame
    <3>4. /\ frame.ledger \in Ledger /\ ledger \in Ledger /\ result.ledger \in Ledger
          /\ DepositHeld(frame.ledger, result.ledger) /\ DepositHeld(ledger, frame.ledger)
      BY <3>2, FrameFacts, ActionResultsOK, ActionHolds, LedgerTyped DEF ResultOK, DepositOK
    <3>5. DepositHeld(ledger, result.ledger)
      BY <3>4, HeldTransitive
    <3> QED BY <3>2, <3>3, <3>5
  <2> QED BY <1>3, <2>1, <2>2, RunFrame
<1>4. CASE UNCHANGED vars
  BY <1>4 DEF vars, vaultVars, registryVars, DepositOK
<1> QED BY <1>1, <1>2, <1>3, <1>4 DEF Next

\* The vault's gas deposit shrinks only by the settlement of a triggered run of
\* somebody else, in the vault's own deposit token.
THEOREM DepositsPayOnlyKeepers == Spec => DepositPaysOnlyKeepers
<1> DEFINE A == \A t \in Token :
                  ledger'.dep[t][VaultAddr] < ledger.dep[t][VaultAddr] =>
                      /\ frame # NoFrame /\ frame.triggerFired
                      /\ frame.caller # vaultOwner
                      /\ t = DepositToken
<1>1. Inv /\ DepositOK /\ [Next]_vars => [A]_vars
  <2> SUFFICES ASSUME Inv, DepositOK, Next, NEW t \in Token,
                      ledger'.dep[t][VaultAddr] < ledger.dep[t][VaultAddr]
               PROVE  /\ frame # NoFrame /\ frame.triggerFired
                      /\ frame.caller # vaultOwner
                      /\ t = DepositToken
    OBVIOUS
  <2>1. ledger \in Ledger /\ ledger.dep[t][VaultAddr] \in Nat /\ VaultAddr \in Account
    <3>1. ledger \in Ledger
      BY DEF Inv, TypeOK, RegistryTypeOK
    <3>2. VaultAddr \in Account
      BY VaultAssumption
    <3> QED BY <3>1, <3>2 DEF Ledger
  <2>2. ledger'.dep[t][VaultAddr] \in Nat
    <3>1. ledger' \in Ledger
      BY NextInv DEF Inv, TypeOK, RegistryTypeOK
    <3> QED BY <2>1, <3>1 DEF Ledger
  <2>3. ~DepositHeld(ledger, ledger')
    BY <2>1, <2>2 DEF DepositHeld
  <2>4. Run /\ ledger' # ledger
    BY <2>1, <2>3, OwnerCallHolds, RegistryTxHolds, SameDeposits
       DEF Inv, Next, executeAutomation, nextBlock, registryVars
  <2>5. PICK gasUsed \in Gas, txGasPrice \in GasPrice, nativePrice \in Price, tokenPrice \in Price :
            commit(gasUsed, txGasPrice, nativePrice, tokenPrice)
    BY <2>4 DEF Run, maxStepsExceeded, conditionStep, conditionReverts, actionStep,
                actionReverts, Revert, commitReverts, registryVars
  <2>6. PICK comp : comp = Charge(gasUsed, txGasPrice, nativePrice, tokenPrice)
    OBVIOUS
  <2>7. frame # NoFrame /\ frame.current = DONE /\ ledger' = Settled(comp)
    BY <2>5, <2>6 DEF commit
  <2>8. frame.ledger \in Ledger /\ frame.caller \in Account /\ DepositHeld(ledger, frame.ledger)
    BY <2>7, FrameFacts DEF Inv, Frame, DepositOK
  <2>9. comp # 0
    BY <2>3, <2>7, <2>8 DEF Settled
  <2>10. frame.caller # vaultOwner /\ DepositToken \in Token
    BY <2>6, <2>9, VaultAssumption DEF Charge
  <2>11. ledger' = PayFromDeposit(frame.ledger, DepositToken, VaultAddr, frame.caller, comp)
    BY <2>7, <2>9 DEF Settled
  <2>12. t = DepositToken
    <3> SUFFICES ASSUME t # DepositToken PROVE FALSE
      OBVIOUS
    <3>1. ledger'.dep[t][VaultAddr] = frame.ledger.dep[t][VaultAddr]
      BY <2>1, <2>8, <2>10, <2>11, PayFromDepositHolds
    <3>2. ledger.dep[t][VaultAddr] <= frame.ledger.dep[t][VaultAddr]
      BY <2>8 DEF DepositHeld
    <3> QED BY <2>1, <2>2, <3>1, <3>2
  <2>13. frame.triggerFired
    BY <2>7, <2>10, VaultAssumption DEF Inv, StrangerOK
  <2> QED BY <2>7, <2>10, <2>12, <2>13
<1>2. Init => DepositOK
  BY DEF Init, DepositOK
<1>3. Inv /\ DepositOK /\ [Next]_vars => DepositOK'
  BY DepositKept DEF Inv
<1> QED BY <1>1, <1>2, <1>3, Invariance, PTL DEF Spec, DepositPaysOnlyKeepers

-----------------------------------------------------------------------------
(* The promises of the vault's time triggers, for any automations on any    *)
(* shared slots, any owner writes and any actions: an interval never runs   *)
(* ahead of its schedule, a timer fires once per start, a cooldown is       *)
(* respected.                                                               *)
(*                                                                          *)
(* The invariant ties the log of a trigger's firings to the value that its  *)
(* slot has now.  It is inductive only together with what a run knows: the  *)
(* trigger was met on the committed context, which the run cannot change    *)
(* before its end.                                                          *)

\* Conditions with an afterExecution.
TimeTarget == {"Interval", "Timer", "WickWait"}

\* What a time trigger reads: Empty stands for a slot outside the context too.
SlotOf(ctx, s) == IF s \in DOMAIN ctx THEN ctx[s] ELSE Empty

\* The k-th firing found the slot at start + (k - 1) * n, and moved it by n.
IntervalLog(log, n, x) ==
    n > 0 /\ MaxTime + n <= MAX_UINT /\ log.count > 0 =>
        /\ log.start \in Nat
        /\ x = log.start + log.count * n
        /\ log.start + (log.count - 1) * n <= log.last

\* A timer that fired stands at 0, which never fires.
TimerLog(log, n, x) == n > 0 => log.count <= 1 /\ (log.count = 1 => x = 0)

\* The slot holds the time of the last rebalance.
WickWaitLog(log, n, x) ==
    /\ MaxTime + n <= MAX_UINT => ~log.early
    /\ log.last > 0 => x = log.last

\* A trigger's log, when its slot holds x at the given time.
LogOK(trigger, log, x, time) ==
    /\ log.last <= time
    /\ log.count = 0 => log.start = x
    /\ trigger.target = "Interval" => IntervalLog(log, trigger.data.n, x)
    /\ trigger.target = "Timer" => TimerLog(log, trigger.data.n, x)
    /\ trigger.target = "WickWait" => WickWaitLog(log, trigger.data.n, x)

\* All logs of a history against a context.
LogsOK(logs, ctx, time) ==
    \A i \in Ids : automations[i].steps[1].stepType = "CONDITION" =>
        LogOK(automations[i].steps[1], logs[i], SlotOf(ctx, TriggerSlot(automations[i])), time)

ScheduleOK == now \in 1 .. MaxTime /\ LogsOK(fires, context, now)

\* A run starts on the committed context, and when it has a fired trigger, that
\* was met on the committed context.
RunContextOK ==
    frame # NoFrame =>
        /\ Len(frame.ctx) = Len(context)
        /\ ~frame.ctxDirty => frame.ctx = context
        /\ frame.stepCount = 0 =>
              /\ frame.current = 1
              /\ frame.ctx = context
              /\ Steps[1].stepType = "CONDITION" => ~frame.triggerFired
        /\ (/\ frame.triggerFired
            /\ Steps[1].stepType = "CONDITION"
            /\ Steps[1].target \in TimeTarget)
           => TRUE \in Check(Steps[1], context, now, 0)

-----------------------------------------------------------------------------
(* Logs that restart.                                                      *)

\* A fresh log starts on the trigger slot's value.
LEMMA NewLogStart ==
    ASSUME NEW a, NEW ctx
    PROVE  NewLog(a, ctx) = [start |-> SlotOf(ctx, TriggerSlot(a)),
                             count |-> 0, last |-> 0, early |-> FALSE]
BY DEF NewLog, SlotOf

\* A log that starts on the slot's value promises nothing yet.
LEMMA NewLogOK ==
    ASSUME NEW a, NEW ctx, NEW time \in Nat, NEW trigger
    PROVE  LogOK(trigger, NewLog(a, ctx), SlotOf(ctx, TriggerSlot(a)), time)
<1> DEFINE log == NewLog(a, ctx)
<1>1. /\ log.start = SlotOf(ctx, TriggerSlot(a)) /\ log.count = 0 /\ log.last = 0
      /\ log.early = FALSE
  BY NewLogStart
<1> HIDE DEF log
<1>2. \A n : IntervalLog(log, n, SlotOf(ctx, TriggerSlot(a)))
  BY <1>1 DEF IntervalLog
<1>3. \A n : TimerLog(log, n, SlotOf(ctx, TriggerSlot(a)))
  BY <1>1 DEF TimerLog
<1>4. \A n : WickWaitLog(log, n, SlotOf(ctx, TriggerSlot(a)))
  BY <1>1 DEF WickWaitLog
<1> QED BY <1>1, <1>2, <1>3, <1>4 DEF LogOK, log

\* A log restarts exactly when its slot is rewritten.
LEMMA RearmedLog ==
    ASSUME NEW autos, NEW logs, NEW ctx, NEW new, NEW i \in DOMAIN autos
    PROVE  Rearmed(autos, logs, ctx, new)[i]
             = IF i \in DOMAIN logs
                  /\ SlotOf(ctx, TriggerSlot(autos[i])) = SlotOf(new, TriggerSlot(autos[i]))
               THEN logs[i] ELSE NewLog(autos[i], new)
BY NewLogStart DEF Rearmed

\* Logs stay true when the context changes and the changed slots restart.
LEMMA RearmedOK ==
    ASSUME NEW logs, NEW ctx, NEW new, NEW time \in Nat,
           automations \in Seq(Automation), DOMAIN logs = Ids,
           LogsOK(logs, ctx, time)
    PROVE  LogsOK(Rearmed(automations, logs, ctx, new), new, time)
<1> SUFFICES ASSUME NEW i \in Ids, automations[i].steps[1].stepType = "CONDITION"
             PROVE  LogOK(automations[i].steps[1], Rearmed(automations, logs, ctx, new)[i],
                          SlotOf(new, TriggerSlot(automations[i])), time)
  BY DEF LogsOK
<1>1. i \in DOMAIN automations
  BY LenProperties DEF Ids
<1>2. CASE SlotOf(ctx, TriggerSlot(automations[i])) = SlotOf(new, TriggerSlot(automations[i]))
  <2>1. Rearmed(automations, logs, ctx, new)[i] = logs[i]
    BY <1>1, <1>2, RearmedLog
  <2> QED BY <1>2, <2>1 DEF LogsOK
<1>3. CASE SlotOf(ctx, TriggerSlot(automations[i])) # SlotOf(new, TriggerSlot(automations[i]))
  <2>1. Rearmed(automations, logs, ctx, new)[i] = NewLog(automations[i], new)
    BY <1>1, <1>3, RearmedLog
  <2> QED BY <2>1, NewLogOK
<1> QED BY <1>2, <1>3

-----------------------------------------------------------------------------
(* A firing.  The trigger was met on ctx; new is the context after its      *)
(* afterExecution.                                                          *)

\* What a condition that answers TRUE has found.
LEMMA IntervalMet ==
    ASSUME NEW d, NEW ctx, TRUE \in IntervalCheck(d, ctx, now)
    PROVE  d.slot \in DOMAIN ctx /\ ctx[d.slot] \notin {Empty, 0} /\ now >= ctx[d.slot]
<1>1. IntervalCheck(d, ctx, now) \in {{}, {FALSE}, {now >= ctx[d.slot]}}
  BY DEF IntervalCheck
<1>2. ~(d.slot \notin DOMAIN ctx) /\ ~(~Armed(ctx, d.slot))
  BY Zenon DEF IntervalCheck
<1>3. IntervalCheck(d, ctx, now) = {now >= ctx[d.slot]}
  BY <1>2, Zenon DEF IntervalCheck
<1>4. now >= ctx[d.slot]
  BY <1>3, Zenon
<1> QED BY <1>2, <1>4 DEF Armed

\* A timer is met only on an armed slot.
LEMMA TimerMet ==
    ASSUME NEW d, NEW ctx, TRUE \in TimerCheck(d, ctx, now)
    PROVE  d.slot \in DOMAIN ctx /\ ctx[d.slot] \notin {Empty, 0}
<1>1. ~(d.slot \notin DOMAIN ctx) /\ ~(~Armed(ctx, d.slot))
  BY Zenon DEF TimerCheck
<1> QED BY <1>1 DEF Armed

\* A cooldown is met only when it is over.
LEMMA WickWaitMet ==
    ASSUME NEW d, NEW ctx, TRUE \in WickWaitCheck(d, ctx, now)
    PROVE  /\ d.slot \in DOMAIN ctx
           /\ LET last     == IF ctx[d.slot] = Empty THEN 0 ELSE ctx[d.slot]
                  unlockAt == IF last + d.n > MAX_UINT THEN MAX_UINT ELSE last + d.n
              IN  now >= unlockAt
<1> DEFINE last     == IF ctx[d.slot] = Empty THEN 0 ELSE ctx[d.slot]
           unlockAt == IF last + d.n > MAX_UINT THEN MAX_UINT ELSE last + d.n
<1>1. WickWaitCheck(d, ctx, now)
        = {FALSE} \cup (IF d.slot \in DOMAIN ctx THEN {now >= unlockAt} ELSE {})
  BY DEF WickWaitCheck
<1> HIDE DEF unlockAt
<1>2. d.slot \in DOMAIN ctx /\ now >= unlockAt
  BY <1>1, Zenon
<1> QED BY <1>2 DEF unlockAt

\* The same slots exist in the context before and in that of the run.
LEMMA SameSlots ==
    ASSUME NEW ctx \in Seq(SlotValue), NEW mem \in Seq(SlotValue), Len(mem) = Len(ctx)
    PROVE  DOMAIN mem = DOMAIN ctx
BY LenProperties

\* A firing moves an interval's slot by n, from a time that has come.
LEMMA IntervalFires ==
    ASSUME NEW log \in FireLog, NEW d \in StepData, NEW ctx \in Seq(SlotValue),
           NEW mem \in Seq(SlotValue), Len(mem) = Len(ctx),
           now \in 1 .. MaxTime, MaxTime \in Nat, MAX_UINT \in Nat, Empty \notin Nat,
           TRUE \in IntervalCheck(d, ctx, now),
           SlotOf(mem, d.slot) = SlotOf(ctx, d.slot),
           log.count = 0 => log.start = SlotOf(ctx, d.slot),
           IntervalLog(log, d.n, SlotOf(ctx, d.slot)),
           NEW fired \in FireLog,
           fired.start = log.start, fired.count = log.count + 1, fired.last = now
    PROVE  IntervalLog(fired, d.n, SlotOf(IntervalAfter(d, mem, now), d.slot))
<1> SUFFICES ASSUME d.n > 0, MaxTime + d.n <= MAX_UINT
             PROVE  /\ fired.start \in Nat
                    /\ SlotOf(IntervalAfter(d, mem, now), d.slot) = fired.start + fired.count * d.n
                    /\ fired.start + (fired.count - 1) * d.n <= fired.last
  BY DEF IntervalLog
<1>1. d.slot \in DOMAIN ctx /\ d.slot \in DOMAIN mem /\ d.n \in Nat /\ log.count \in Nat
  <2>1. d.slot \in DOMAIN ctx
    BY IntervalMet
  <2>2. DOMAIN mem = DOMAIN ctx
    BY SameSlots
  <2>3. d.n \in Nat
    BY DEF StepData, Uint
  <2>4. log.count \in Nat
    BY DEF FireLog
  <2> QED BY <2>1, <2>2, <2>3, <2>4
<1>2. PICK x \in Nat : x = ctx[d.slot] /\ x <= now
  <2>1. ctx[d.slot] \in Nat
    <3>1. ctx[d.slot] \in SlotValue
      BY <1>1, LenProperties, ElementOfSeq
    <3> QED BY <3>1, IntervalMet DEF SlotValue
  <2> QED BY <2>1, IntervalMet
<1>3. mem[d.slot] = x /\ x # Empty
  BY <1>1, <1>2 DEF SlotOf
<1>4. x + d.n <= MAX_UINT
  BY <1>1, <1>2
<1>5. IntervalAfter(d, mem, now) = [mem EXCEPT ![d.slot] = x + d.n]
  BY <1>1, <1>2, <1>3, <1>4 DEF IntervalAfter
<1>6. SlotOf(IntervalAfter(d, mem, now), d.slot) = x + d.n
  BY <1>1, <1>5 DEF SlotOf
<1>7. log.start \in Nat /\ x = log.start + log.count * d.n
  <2>1. CASE log.count = 0
    <3>1. log.start = x
      BY <1>1, <1>2, <2>1 DEF SlotOf
    <3>2. 0 * d.n = 0
      BY <1>1
    <3> QED BY <1>2, <2>1, <3>1, <3>2
  <2>2. CASE log.count > 0
    BY <1>1, <1>2, <2>2 DEF IntervalLog, SlotOf
  <2> QED BY <1>1, <2>1, <2>2
<1>8. PICK c \in Nat : c = log.count
  BY <1>1
<1>9. PICK n \in Nat : n = d.n
  BY <1>1
<1>10. PICK p \in Nat : p = c * n
  BY <1>8, <1>9
<1>11. (c + 1) * n = p + n
  BY <1>10
<1>12. fired.start + fired.count * d.n = x + d.n
  <2>1. PICK k \in Nat : k = fired.start
    BY <1>7
  <2>2. x = k + p
    BY <1>7, <1>8, <1>9, <1>10, <2>1
  <2>3. fired.count * d.n = p + n
    BY <1>8, <1>9, <1>11
  <2>4. k + (p + n) = x + n
    BY <2>2
  <2>5. fired.start = k /\ d.n = n
    BY <1>9, <2>1
  <2> QED BY <2>3, <2>4, <2>5, Zenon
<1>13. fired.start + (fired.count - 1) * d.n = x
  <2>1. fired.count - 1 = c
    BY <1>8
  <2> QED BY <1>7, <1>8, <1>9, <1>10, <2>1
<1> QED BY <1>2, <1>6, <1>7, <1>12, <1>13

\* A timer that fires had not fired since its slot was written.
LEMMA TimerFires ==
    ASSUME NEW log \in FireLog, NEW d \in StepData, NEW ctx \in Seq(SlotValue),
           NEW mem \in Seq(SlotValue), Len(mem) = Len(ctx),
           TRUE \in TimerCheck(d, ctx, now),
           TimerLog(log, d.n, SlotOf(ctx, d.slot)),
           NEW fired \in FireLog, fired.count = log.count + 1
    PROVE  TimerLog(fired, d.n, SlotOf(TimerAfter(d, mem, now), d.slot))
<1> SUFFICES ASSUME d.n > 0
             PROVE  fired.count <= 1 /\ SlotOf(TimerAfter(d, mem, now), d.slot) = 0
  BY DEF TimerLog
<1>1. d.slot \in DOMAIN ctx /\ d.slot \in DOMAIN mem /\ d.n \in Nat /\ log.count \in Nat
  <2>1. d.slot \in DOMAIN ctx
    BY TimerMet
  <2>2. DOMAIN mem = DOMAIN ctx
    BY SameSlots
  <2>3. d.n \in Nat
    BY DEF StepData, Uint
  <2>4. log.count \in Nat
    BY DEF FireLog
  <2> QED BY <2>1, <2>2, <2>3, <2>4
<1>2. ctx[d.slot] # 0
  BY TimerMet
<1>3. log.count = 0
  BY <1>1, <1>2 DEF TimerLog, SlotOf
<1>4. TimerAfter(d, mem, now) = [mem EXCEPT ![d.slot] = 0]
  BY <1>1 DEF TimerAfter
<1> QED BY <1>1, <1>3, <1>4 DEF SlotOf

\* A rebalance is only allowed when the cooldown has passed, and is noted.
LEMMA WickWaitFires ==
    ASSUME NEW log \in FireLog, NEW d \in StepData, NEW ctx \in Seq(SlotValue),
           NEW mem \in Seq(SlotValue), Len(mem) = Len(ctx),
           now \in 1 .. MaxTime, MaxTime \in Nat, MAX_UINT \in Nat, Empty \notin Nat,
           log.last <= now,
           TRUE \in WickWaitCheck(d, ctx, now),
           WickWaitLog(log, d.n, SlotOf(ctx, d.slot)),
           NEW fired \in FireLog, fired.last = now,
           fired.early = (log.early \/ (log.last > 0 /\ now < log.last + d.n))
    PROVE  WickWaitLog(fired, d.n, SlotOf(WickWaitAfter(d, mem, now), d.slot))
<1>1. d.slot \in DOMAIN ctx /\ d.slot \in DOMAIN mem /\ d.n \in Nat /\ log.last \in Nat
  <2>1. d.slot \in DOMAIN ctx
    BY WickWaitMet
  <2>2. DOMAIN mem = DOMAIN ctx
    BY SameSlots
  <2>3. d.n \in Nat
    BY DEF StepData, Uint
  <2>4. log.last \in Nat
    BY DEF FireLog
  <2> QED BY <2>1, <2>2, <2>3, <2>4
<1>2. SlotOf(WickWaitAfter(d, mem, now), d.slot) = now
  BY <1>1 DEF WickWaitAfter, SlotOf
<1>3. ASSUME MaxTime + d.n <= MAX_UINT, log.last > 0 PROVE ~(now < log.last + d.n)
  <2>1. ctx[d.slot] = log.last /\ log.last # Empty
    BY <1>1, <1>3 DEF WickWaitLog, SlotOf
  <2>2. log.last + d.n <= MAX_UINT
    BY <1>1, <1>3
  <2>3. now >= log.last + d.n
    <3>1. (IF ctx[d.slot] = Empty THEN 0 ELSE ctx[d.slot]) = log.last
      BY <2>1
    <3>2. ~(log.last + d.n > MAX_UINT)
      BY <1>1, <2>2
    <3> QED BY <3>1, <3>2, WickWaitMet
  <2> QED BY <1>1, <2>3
<1> QED BY <1>2, <1>3 DEF WickWaitLog

\* The log of a trigger that fires on the slot's committed value.
LEMMA FiringOK ==
    ASSUME NEW step \in Step, NEW log \in FireLog, NEW ctx \in Seq(SlotValue),
           NEW mem \in Seq(SlotValue), Len(mem) = Len(ctx), now \in 1 .. MaxTime,
           step.target \in TimeTarget => TRUE \in Check(step, ctx, now, 0),
           SlotOf(mem, step.data.slot) = SlotOf(ctx, step.data.slot),
           LogOK(step, log, SlotOf(ctx, step.data.slot), now)
    PROVE  LogOK(step, Fired(log, step, FALSE),
                 SlotOf(AfterExecution(step, mem, now), step.data.slot), now)
<1> DEFINE d == step.data
<1>1. d \in StepData /\ now \in Nat
  BY VaultAssumption DEF Step
<1>2. MaxTime \in Nat /\ MAX_UINT \in Nat /\ Empty \notin Nat
  BY VaultAssumption DEF Uint
<1>3. CASE step.target \notin TimeTarget
  <2>1. Fired(log, step, FALSE) = log /\ AfterExecution(step, mem, now) = mem
    BY <1>3 DEF Fired, AfterExecution, TimeTarget
  <2> QED BY <2>1
<1>4. CASE step.target \in TimeTarget
  <2>1. PICK fired \in FireLog : fired = Fired(log, step, FALSE)
    BY <1>1, FiredTyped
  <2>2. fired = [log EXCEPT !.count = @ + 1, !.last = now,
                            !.early = @ \/ (log.last > 0 /\ now < log.last + d.n)]
    BY <1>4, <2>1 DEF Fired, TimeTarget
  <2>3. /\ fired.start = log.start /\ fired.count = log.count + 1 /\ fired.last = now
        /\ fired.early = (log.early \/ (log.last > 0 /\ now < log.last + d.n))
    BY <2>2, Zenon DEF FireLog
  <2>4. fired.count # 0 /\ fired.last <= now
    BY <1>1, <2>3 DEF FireLog
  <2>5. CASE step.target = "Interval"
    <3>1. TRUE \in IntervalCheck(d, ctx, now) /\ AfterExecution(step, mem, now) = IntervalAfter(d, mem, now)
      BY <1>4, <2>5 DEF Check, AfterExecution
    <3>2. IntervalLog(fired, d.n, SlotOf(IntervalAfter(d, mem, now), d.slot))
      BY <1>1, <1>2, <2>3, <2>5, <3>1, IntervalFires DEF LogOK
    <3> QED BY <2>1, <2>4, <2>5, <3>1, <3>2 DEF LogOK
  <2>6. CASE step.target = "Timer"
    <3>1. TRUE \in TimerCheck(d, ctx, now) /\ AfterExecution(step, mem, now) = TimerAfter(d, mem, now)
      BY <1>4, <2>6 DEF Check, AfterExecution
    <3>2. TimerLog(fired, d.n, SlotOf(TimerAfter(d, mem, now), d.slot))
      BY <1>1, <2>3, <2>6, <3>1, TimerFires DEF LogOK
    <3> QED BY <2>1, <2>4, <2>6, <3>1, <3>2 DEF LogOK
  <2>7. CASE step.target = "WickWait"
    <3>1. TRUE \in WickWaitCheck(d, ctx, now) /\ AfterExecution(step, mem, now) = WickWaitAfter(d, mem, now)
      BY <1>4, <2>7 DEF Check, AfterExecution
    <3>2. WickWaitLog(fired, d.n, SlotOf(WickWaitAfter(d, mem, now), d.slot))
      BY <1>1, <1>2, <2>3, <2>7, <3>1, WickWaitFires DEF LogOK
    <3> QED BY <2>1, <2>4, <2>7, <3>1, <3>2 DEF LogOK
  <2> QED BY <1>4, <2>5, <2>6, <2>7 DEF TimeTarget
<1> QED BY <1>3, <1>4

\* The log of a trigger whose slot was rewritten by an action of its own run: it
\* starts on what afterExecution made of the new value.
LEMMA RestartOK ==
    ASSUME NEW step \in Step, NEW ctx \in Seq(SlotValue),
           NEW mem \in Seq(SlotValue), Len(mem) = Len(ctx), now \in 1 .. MaxTime,
           step.target \in TimeTarget => TRUE \in Check(step, ctx, now, 0),
           NEW a, TriggerSlot(a) = step.data.slot,
           NEW log, log = NewLog(a, AfterExecution(step, mem, now))
    PROVE  LogOK(step, Fired(log, step, TRUE),
                 SlotOf(AfterExecution(step, mem, now), step.data.slot), now)
<1> DEFINE d == step.data
           x == SlotOf(AfterExecution(step, mem, now), d.slot)
<1>1. now \in Nat
  BY VaultAssumption
<1>2. log = [start |-> x, count |-> 0, last |-> 0, early |-> FALSE]
  BY NewLogStart
<1>3. CASE step.target \notin TimeTarget
  <2>1. Fired(log, step, TRUE) = log
    BY <1>3 DEF Fired, TimeTarget
  <2>2. LogOK(step, log, SlotOf(AfterExecution(step, mem, now), TriggerSlot(a)), now)
    BY <1>1, NewLogOK, ZenonT(30)
  <2> QED BY <2>1, <2>2, ZenonT(30)
<1>4. CASE step.target \in TimeTarget
  <2> HIDE DEF x
  <2>1. PICK fired : fired = Fired(log, step, TRUE)
    OBVIOUS
  <2>2. fired = [log EXCEPT !.last = now]
    BY <1>4, <2>1 DEF Fired, TimeTarget
  <2>3. fired.start = x /\ fired.count = 0 /\ fired.last = now /\ fired.early = FALSE
    BY <1>2, <2>2
  <2>4. IntervalLog(fired, d.n, x) /\ TimerLog(fired, d.n, x)
    BY <2>3 DEF IntervalLog, TimerLog
  <2>5. ASSUME step.target = "WickWait" PROVE x = now
    <3>1. TRUE \in WickWaitCheck(d, ctx, now)
      BY <1>4, <2>5 DEF Check
    <3>2. d.slot \in DOMAIN mem
      <4>1. d.slot \in DOMAIN ctx
        BY <3>1, WickWaitMet
      <4> QED BY <4>1, SameSlots
    <3>3. AfterExecution(step, mem, now) = [mem EXCEPT ![d.slot] = now]
      BY <2>5, <3>2 DEF AfterExecution, WickWaitAfter
    <3> QED BY <3>2, <3>3 DEF SlotOf, x
  <2>6. step.target = "WickWait" => WickWaitLog(fired, d.n, x)
    BY <2>3, <2>5 DEF WickWaitLog
  <2>7. LogOK(step, fired, x, now)
    BY <1>1, <2>3, <2>4, <2>6 DEF LogOK
  <2> QED BY <2>1, <2>7 DEF x
<1> QED BY <1>3, <1>4

-----------------------------------------------------------------------------
(* Every action keeps the invariant.                                       *)

\* The end of a run: the logs restart for what the actions wrote and for what
\* afterExecution wrote to other automations' slots.
LEMMA CommitSchedule ==
    ASSUME TypeOK, RunOK, ScheduleOK, RunContextOK,
           NEW gasUsed \in Gas, NEW txGasPrice \in GasPrice,
           NEW nativePrice \in Price, NEW tokenPrice \in Price,
           commit(gasUsed, txGasPrice, nativePrice, tokenPrice)
    PROVE  LogsOK(fires', context', now)
<1> DEFINE id == frame.id
           mem == frame.ctx
<1>1. frame # NoFrame /\ frame.current = DONE
  BY DEF commit
<1>2. /\ automations \in Seq(Automation) /\ fires \in Seq(FireLog) /\ now \in 1 .. MaxTime
      /\ now \in Nat /\ context \in Seq(SlotValue) /\ mem \in Seq(SlotValue)
      /\ FinalCtx \in Seq(SlotValue) /\ Len(mem) = Len(context)
      /\ id \in Ids /\ Steps[1] \in Step /\ DOMAIN fires = Ids
  BY <1>1, FrameFacts, FinalCtxTyped, LenProperties DEF TypeOK, Ids, ScheduleOK, RunContextOK
<1>3. LogsOK(fires, context, now)
  BY DEF ScheduleOK
<1>4. PICK logs \in Seq(FireLog) :
          /\ logs = Rearmed(automations, fires, context, mem)
          /\ DOMAIN logs = Ids /\ LogsOK(logs, mem, now)
  <2>1. /\ Rearmed(automations, fires, context, mem) \in Seq(FireLog)
        /\ Len(Rearmed(automations, fires, context, mem)) = Len(automations)
    BY <1>2, RearmedTyped, SMTT(60)
  <2>2. LogsOK(Rearmed(automations, fires, context, mem), mem, now)
    BY <1>2, <1>3, RearmedOK
  <2> QED BY <2>1, <2>2, LenProperties DEF Ids
<1>5. PICK fin \in Seq(FireLog) :
          /\ fin = Rearmed(automations, logs, mem, FinalCtx)
          /\ DOMAIN fin = Ids /\ LogsOK(fin, FinalCtx, now)
  <2>1. /\ Rearmed(automations, logs, mem, FinalCtx) \in Seq(FireLog)
        /\ Len(Rearmed(automations, logs, mem, FinalCtx)) = Len(automations)
    BY <1>2, RearmedTyped, ZenonT(60)
  <2>2. LogsOK(Rearmed(automations, logs, mem, FinalCtx), FinalCtx, now)
    BY <1>2, <1>4, RearmedOK
  <2> QED BY <2>1, <2>2, LenProperties DEF Ids
<1>6. CASE ~frame.triggerFired
  <2>1. fires' = logs
    BY <1>4, <1>6 DEF commit
  <2>2. context' = mem
    BY <1>1, <1>6 DEF commit, FinalCtx, RunContextOK
  <2> QED BY <1>4, <2>1, <2>2
<1>7. CASE frame.triggerFired
  <2>1. context' = FinalCtx
    BY <1>7 DEF commit
  <2>2. FinalCtx = AfterExecution(Steps[1], mem, now)
    BY <1>7 DEF FinalCtx
  <2>3. PICK s : s = TriggerSlot(automations[id]) /\ s = Steps[1].data.slot
    BY DEF TriggerSlot, Steps
  <2>4. PICK rewritten \in BOOLEAN :
            rewritten <=> NewLog(automations[id], context).start # NewLog(automations[id], mem).start
    OBVIOUS
  <2>5. rewritten <=> SlotOf(context, s) # SlotOf(mem, s)
    BY <2>3, <2>4, NewLogStart
  <2>6. fires' = [fin EXCEPT ![id] = Fired(IF rewritten THEN fin[id] ELSE logs[id], Steps[1], rewritten)]
    BY <1>4, <1>5, <1>7, <2>4 DEF commit
  <2>7. id \in DOMAIN automations /\ id \in DOMAIN logs
    BY <1>2, <1>4, LenProperties DEF Ids
  <2>8. logs[id] = IF /\ id \in DOMAIN fires
                       /\ SlotOf(context, TriggerSlot(automations[id]))
                            = SlotOf(mem, TriggerSlot(automations[id]))
                    THEN fires[id] ELSE NewLog(automations[id], mem)
    BY <1>4, <2>7, RearmedLog
  <2>9. fin[id] = IF /\ id \in DOMAIN logs
                      /\ SlotOf(mem, TriggerSlot(automations[id]))
                           = SlotOf(FinalCtx, TriggerSlot(automations[id]))
                   THEN logs[id] ELSE NewLog(automations[id], FinalCtx)
    BY <1>5, <2>7, RearmedLog
  <2>10. ASSUME Steps[1].stepType = "CONDITION"
        PROVE  LogOK(Steps[1], fires'[id], SlotOf(FinalCtx, s), now)
    <3>1. Steps[1].target \in TimeTarget => TRUE \in Check(Steps[1], context, now, 0)
      BY <1>1, <1>7, <2>10 DEF RunContextOK
    <3>2. CASE rewritten
      <4>1. logs[id] = NewLog(automations[id], mem)
        BY <2>3, <2>5, <2>8, <3>2
      <4>2. fin[id] = IF SlotOf(mem, s) = SlotOf(FinalCtx, s) THEN logs[id]
                      ELSE NewLog(automations[id], FinalCtx)
        BY <2>3, <2>7, <2>9
      <4>3. fin[id] = NewLog(automations[id], FinalCtx)
        BY <2>3, <4>1, <4>2, NewLogStart
      <4>4. fires'[id] = Fired(fin[id], Steps[1], TRUE)
        BY <1>2, <1>5, <2>6, <3>2
      <4>5. PICK log : log = fin[id]
        OBVIOUS
      <4>6. log = NewLog(automations[id], AfterExecution(Steps[1], mem, now))
        BY <2>2, <4>3, <4>5
      <4>7. LogOK(Steps[1], Fired(log, Steps[1], TRUE),
                  SlotOf(AfterExecution(Steps[1], mem, now), Steps[1].data.slot), now)
        BY <1>2, <2>3, <3>1, <4>6, RestartOK
      <4> QED BY <2>2, <2>3, <4>4, <4>5, <4>7
    <3>3. CASE ~rewritten
      <4>1. logs[id] = fires[id]
        BY <1>2, <2>3, <2>5, <2>8, <3>3
      <4>2. fires'[id] = Fired(fires[id], Steps[1], FALSE)
        BY <1>2, <1>5, <2>6, <3>3, <4>1
      <4>3. PICK log \in FireLog : log = fires[id]
        BY <1>2, LenProperties, ElementOfSeq DEF TypeOK, Ids
      <4>4. LogOK(Steps[1], log, SlotOf(context, s), now)
        BY <1>2, <1>3, <2>3, <2>10, <4>3 DEF LogsOK, Steps
      <4>5. LogOK(Steps[1], Fired(log, Steps[1], FALSE),
                  SlotOf(AfterExecution(Steps[1], mem, now), Steps[1].data.slot), now)
        BY <1>2, <2>3, <2>5, <3>1, <3>3, <4>4, FiringOK
      <4> QED BY <2>2, <2>3, <4>2, <4>3, <4>5
    <3> QED BY <3>2, <3>3
  <2> SUFFICES ASSUME NEW i \in Ids, automations[i].steps[1].stepType = "CONDITION"
               PROVE  LogOK(automations[i].steps[1], fires'[i],
                            SlotOf(FinalCtx, TriggerSlot(automations[i])), now)
    BY <2>1 DEF LogsOK
  <2>11. CASE i = id
    BY <2>3, <2>10, <2>11 DEF Steps
  <2>12. CASE i # id
    <3>1. fires'[i] = fin[i]
      BY <1>5, <2>6, <2>12
    <3> QED BY <1>5, <3>1 DEF LogsOK
  <2> QED BY <2>11, <2>12
<1> QED BY <1>6, <1>7

\* The invariant speaks of nothing but these.
LEMMA ScheduleFrame ==
    ASSUME ScheduleOK, UNCHANGED <<now, automations, context, fires>>
    PROVE  ScheduleOK'
BY DEF ScheduleOK, LogsOK, Ids

\* A new automation gets a log that starts on what its slot holds.
LEMMA CreateSchedule ==
    ASSUME TypeOK, RunOK, ScheduleOK, NEW steps \in Program, NEW ownerOnly \in BOOLEAN,
           create(steps, ownerOnly)
    PROVE  ScheduleOK'
<1>1. PICK a \in Automation : automations' = Append(automations, a)
  <2>1. [active |-> TRUE, ownerOnly |-> ownerOnly, steps |-> steps] \in Automation
    BY VaultAssumption DEF Automation
  <2> QED BY <2>1 DEF create
<1>2. /\ automations \in Seq(Automation) /\ now' = now /\ context' = context /\ now \in Nat
      /\ DOMAIN fires = Ids /\ DOMAIN automations = Ids /\ Len(automations) \in Nat
      /\ fires' = Rearmed(automations', fires, context, context)
  BY LenProperties DEF create, TypeOK, Ids
<1>3. /\ \A i \in Ids : automations'[i] = automations[i]
      /\ DOMAIN automations' = Ids'
  BY <1>1, <1>2, AppendProperties, LenProperties DEF Ids
<1> SUFFICES ASSUME NEW i \in Ids', automations'[i].steps[1].stepType = "CONDITION"
             PROVE  LogOK(automations'[i].steps[1], fires'[i],
                          SlotOf(context, TriggerSlot(automations'[i])), now)
  BY <1>2 DEF ScheduleOK, LogsOK, TriggerSlot
<1>4. PICK autos : autos = automations'
  OBVIOUS
<1>5. Rearmed(autos, fires, context, context)[i]
        = IF i \in DOMAIN fires THEN fires[i] ELSE NewLog(autos[i], context)
  BY <1>3, <1>4, RearmedLog
<1>6. fires'[i] = IF i \in Ids THEN fires[i] ELSE NewLog(autos[i], context)
  BY <1>2, <1>4, <1>5
<1>7. CASE i \in Ids
  BY <1>3, <1>6, <1>7 DEF ScheduleOK, LogsOK
<1>8. CASE i \notin Ids
  BY <1>2, <1>4, <1>6, <1>8, NewLogOK
<1> QED BY <1>7, <1>8

\* An update starts the log afresh.
LEMMA UpdateSchedule ==
    ASSUME TypeOK, RunOK, ScheduleOK, NEW id \in Ids, NEW steps \in Program,
           updateAutomationSteps(id, steps)
    PROVE  ScheduleOK'
<1>1. /\ automations \in Seq(Automation) /\ now' = now /\ context' = context /\ now \in Nat
      /\ DOMAIN fires = Ids /\ DOMAIN automations = Ids
      /\ automations' = [automations EXCEPT ![id].steps = steps]
      /\ fires' = [fires EXCEPT ![id] = NewLog(automations'[id], context)]
  BY LenProperties DEF updateAutomationSteps, TypeOK, Ids
<1>2. /\ \A i \in Ids \ {id} : automations'[i] = automations[i] /\ fires'[i] = fires[i]
      /\ fires'[id] = NewLog(automations'[id], context)
  BY <1>1
<1>3. Ids' = Ids
  <2>1. Kept
    BY UpdateKept
  <2>2. automations' \in Seq(Automation)
    BY <2>1 DEF Kept, TypeOK
  <2>3. DOMAIN automations' = DOMAIN automations
    BY <1>1
  <2>4. DOMAIN automations' = Ids'
    BY <2>2, LenProperties DEF Ids
  <2> QED BY <1>1, <2>3, <2>4
<1> SUFFICES ASSUME NEW i \in Ids, automations'[i].steps[1].stepType = "CONDITION"
             PROVE  LogOK(automations'[i].steps[1], fires'[i],
                          SlotOf(context, TriggerSlot(automations'[i])), now)
  BY <1>1, <1>3 DEF ScheduleOK, LogsOK, TriggerSlot
<1>4. CASE i = id
  <2>1. PICK a : a = automations'[id]
    OBVIOUS
  <2> QED BY <1>1, <1>2, <1>4, <2>1, NewLogOK
<1>5. CASE i # id
  BY <1>2, <1>5 DEF ScheduleOK, LogsOK
<1> QED BY <1>4, <1>5

\* Pausing an automation leaves its schedule alone.
LEMMA SetActiveSchedule ==
    ASSUME TypeOK, RunOK, ScheduleOK, NEW id \in Ids, NEW active \in BOOLEAN,
           setAutomationActive(id, active)
    PROVE  ScheduleOK'
<1>1. /\ automations \in Seq(Automation) /\ now' = now /\ context' = context /\ fires' = fires
      /\ DOMAIN automations = Ids
      /\ automations' = [automations EXCEPT ![id].active = active]
  BY LenProperties DEF setAutomationActive, TypeOK, Ids
<1>2. \A i \in Ids : automations'[i].steps = automations[i].steps
  <2>1. \A i \in Ids : automations[i] \in Automation
    BY <1>1, ElementOfSeq DEF Ids
  <2>2. [automations[id] EXCEPT !.active = active].steps = automations[id].steps
    BY <2>1 DEF Automation
  <2>3. \A i \in Ids : automations'[i] = IF i = id THEN [automations[id] EXCEPT !.active = active]
                                         ELSE automations[i]
    BY <1>1
  <2> QED BY <2>2, <2>3
<1>3. Ids' = Ids
  <2>1. Kept
    BY SetActiveKept
  <2>2. automations' \in Seq(Automation)
    BY <2>1 DEF Kept, TypeOK
  <2>3. DOMAIN automations' = DOMAIN automations
    BY <1>1
  <2>4. DOMAIN automations' = Ids'
    BY <2>2, LenProperties DEF Ids
  <2> QED BY <1>1, <2>3, <2>4
<1> QED BY <1>1, <1>2, <1>3 DEF ScheduleOK, LogsOK, TriggerSlot

\* An owner's write to the context starts every log afresh.
LEMMA WriteContextSchedule ==
    ASSUME TypeOK, ScheduleOK, NEW new, WriteContext(new)
    PROVE  ScheduleOK'
<1>1. /\ now' = now /\ now \in Nat /\ context' = new /\ automations' = automations
      /\ fires' = [i \in Ids |-> NewLog(automations[i], new)]
  BY DEF WriteContext, TypeOK
<1>2. \A i \in Ids : LogOK(automations[i].steps[1], NewLog(automations[i], new),
                           SlotOf(new, TriggerSlot(automations[i])), now)
  BY <1>1, NewLogOK
<1> QED BY <1>1, <1>2 DEF ScheduleOK, LogsOK, Ids, TriggerSlot

\* The owner's calls rearm what they rewrite.
LEMMA OwnerCallSchedule ==
    ASSUME TypeOK, RunOK, ScheduleOK, OwnerCall
    PROVE  ScheduleOK'
<1>1. ASSUME NEW t \in Token, NEW amount \in Amount,
             \/ deposit(t, amount)
             \/ \E recipient \in Account \ {Registry} : withdraw(t, amount, recipient)
             \/ depositFees(t, amount)
      PROVE  ScheduleOK'
  BY <1>1, ScheduleFrame DEF deposit, withdraw, depositFees, vaultVars
<1>2. ASSUME NEW amount \in Amount, setMinFeeDeposit(amount) PROVE ScheduleOK'
  BY <1>2, ScheduleFrame DEF setMinFeeDeposit
<1>3. ASSUME NEW newOwner \in NewOwner \ {VaultAddr}, transferVault(newOwner) PROVE ScheduleOK'
  BY <1>3, ScheduleFrame DEF transferVault
<1>4. ASSUME NEW new \in Context, setContext(new) PROVE ScheduleOK'
  BY <1>4, WriteContextSchedule DEF setContext
<1>5. ASSUME NEW slot \in DOMAIN context, NEW value \in SlotInput, setContextSlot(slot, value)
      PROVE  ScheduleOK'
  BY <1>5, WriteContextSchedule DEF setContextSlot
<1> QED BY <1>1, <1>2, <1>3, <1>4, <1>5, CreateSchedule, UpdateSchedule, SetActiveSchedule DEF OwnerCall

\* Time passes only up to MaxTime, and no firing lies in the future.
LEMMA NextBlockSchedule ==
    ASSUME ScheduleOK, TypeOK, nextBlock
    PROVE  ScheduleOK'
<1>1. /\ now' = now + 1 /\ now' \in 1 .. MaxTime
      /\ UNCHANGED <<automations, context, fires>>
  BY VaultAssumption DEF nextBlock, ScheduleOK, Uint
<1>2. ASSUME NEW i \in Ids, NEW trigger, NEW x, LogOK(trigger, fires[i], x, now)
      PROVE  LogOK(trigger, fires[i], x, now')
  <2>1. fires[i] \in FireLog
    BY LenProperties, ElementOfSeq DEF TypeOK, Ids
  <2>2. fires[i].last \in Nat /\ now \in Nat
    BY <2>1 DEF FireLog, TypeOK
  <2> QED BY <1>1, <1>2, <2>2 DEF LogOK
<1> QED BY <1>1, <1>2 DEF ScheduleOK, LogsOK, Ids

\* Every step keeps the logs true to the slots.
LEMMA ScheduleKept ==
    ASSUME TypeOK, RunOK, ScheduleOK, RunContextOK, [Next]_vars
    PROVE  ScheduleOK'
<1>1. CASE \E id \in Ids, caller \in Executor : executeAutomation(id, caller)
  BY <1>1, ScheduleFrame DEF executeAutomation
<1>2. CASE Run
  <2>1. CASE \E gasUsed \in Gas, txGasPrice \in GasPrice, nativePrice \in Price, tokenPrice \in Price :
               commit(gasUsed, txGasPrice, nativePrice, tokenPrice)
    <3>1. LogsOK(fires', context', now)
      BY <2>1, CommitSchedule
    <3>2. now' = now /\ automations' = automations
      BY <2>1 DEF commit
    <3> QED BY <3>1, <3>2 DEF ScheduleOK, LogsOK, Ids, TriggerSlot
  <2>2. CASE UNCHANGED <<now, automations, context, fires>>
    BY <2>2, ScheduleFrame
  <2> QED BY <1>2, <2>1, <2>2 DEF Run, maxStepsExceeded, conditionStep, conditionReverts,
             actionStep, actionReverts, Revert, commitReverts
<1>3. CASE registryTx
  BY <1>3, ScheduleFrame DEF registryTx, vaultVars
<1>4. CASE UNCHANGED vars
  BY <1>4, ScheduleFrame DEF vars, vaultVars
<1> QED BY <1>1, <1>2, <1>3, <1>4, OwnerCallSchedule, NextBlockSchedule DEF Next

\* The verdict of a condition with an afterExecution does not depend on money.
LEMMA TimeVerdict ==
    ASSUME NEW step, step.target \in TimeTarget, NEW ctx, NEW bal
    PROVE  Check(step, ctx, now, bal) = Check(step, ctx, now, 0)
BY DEF Check, TimeTarget

\* Every step keeps the run's snapshot of the context.
LEMMA RunContextKept ==
    ASSUME TypeOK, RunOK, RunContextOK, [Next]_vars
    PROVE  RunContextOK'
<1>1. CASE OwnerCall \/ nextBlock \/ registryTx
  BY <1>1, NoRunNoFrame DEF RunContextOK
<1>2. CASE \E id \in Ids, caller \in Executor : executeAutomation(id, caller)
  <2>1. PICK id \in Ids, caller \in Executor : executeAutomation(id, caller)
    BY <1>2
  <2>2. /\ frame'.id = id /\ frame'.current = 1 /\ frame'.stepCount = 0
        /\ frame'.ctx = context /\ frame'.ctxDirty = FALSE
        /\ frame'.triggerFired = (automations[id].ownerOnly
                                    /\ automations[id].steps[1].stepType = "ACTION")
        /\ automations' = automations /\ context' = context
    BY <2>1, Zenon DEF executeAutomation
  <2>3. Steps' = automations[id].steps
    BY <2>2 DEF Steps
  <2>4. (Steps[1].stepType = "CONDITION")' => ~frame'.triggerFired
    BY <2>2, <2>3
  <2> QED BY <2>2, <2>4 DEF RunContextOK
<1>3. CASE Run
  <2> SUFFICES ASSUME frame' # NoFrame PROVE RunContextOK'
    BY DEF RunContextOK
  <2>1. CASE \E met \in BOOLEAN : conditionStep(met)
    <3>1. PICK met \in BOOLEAN : conditionStep(met)
      BY <2>1
    <3>2. frame # NoFrame /\ frame.current # DONE /\ met \in Verdicts
      BY <3>1 DEF conditionStep, InLoop
    <3>3. frame \in Frame /\ frame.stepCount \in Nat
      BY <3>2, FrameFacts
    <3>4. /\ frame'.id = frame.id /\ frame'.ctx = frame.ctx /\ frame'.ctxDirty = frame.ctxDirty
          /\ frame'.stepCount = frame.stepCount + 1
          /\ frame'.triggerFired = IF IsTrigger THEN met ELSE frame.triggerFired
          /\ UNCHANGED <<now, context, automations>>
      BY <3>1, <3>3 DEF conditionStep, Frame
    <3>5. Steps' = Steps /\ frame'.stepCount # 0
      BY <3>3, <3>4 DEF Steps
    <3>6. ASSUME frame'.triggerFired, Steps[1].stepType = "CONDITION", Steps[1].target \in TimeTarget
          PROVE  TRUE \in Check(Steps[1], context, now, 0)
      <4>1. CASE IsTrigger
        <5>1. met = TRUE
          BY <3>4, <3>6, <4>1
        <5>2. CurrentStep = Steps[1] /\ frame.ctx = context
          BY <3>2, <4>1 DEF IsTrigger, CurrentStep, RunContextOK
        <5> QED BY <3>2, <3>6, <5>1, <5>2, TimeVerdict DEF Verdicts
      <4>2. CASE ~IsTrigger
        BY <3>2, <3>4, <3>6, <4>2 DEF RunContextOK
      <4> QED BY <4>1, <4>2
    <3> QED BY <3>2, <3>4, <3>5, <3>6 DEF RunContextOK
  <2>2. CASE InLoop /\ \E result \in ActionResults : actionStep(result)
    <3>1. PICK result \in ActionResults : actionStep(result)
      BY <2>2
    <3>2. frame # NoFrame /\ frame.current # DONE /\ Applicable(result)
      BY <3>1 DEF actionStep, InLoop
    <3>3. frame \in Frame /\ frame.stepCount \in Nat /\ frame.ctx \in Seq(SlotValue)
      BY <3>2, FrameFacts
    <3>4. result.value \in SlotValue
      BY <3>2, ActionResultsOK DEF ResultOK
    <3>5. /\ frame'.id = frame.id /\ frame'.ctxDirty = TRUE
          /\ frame'.ctx = IF result.slot = NO_SLOT THEN frame.ctx
                          ELSE [frame.ctx EXCEPT ![result.slot] = result.value]
          /\ frame'.stepCount = frame.stepCount + 1
          /\ frame'.triggerFired = frame.triggerFired
          /\ UNCHANGED <<now, context, automations>>
      BY <3>1, <3>3 DEF actionStep, Frame
    <3>6. Len(frame'.ctx) = Len(frame.ctx)
      <4>1. CASE result.slot = NO_SLOT
        BY <3>5, <4>1
      <4>2. CASE result.slot # NO_SLOT
        <5>1. result.slot \in 1 .. Len(frame.ctx)
          BY <3>2, <3>3, <4>2, LenProperties DEF Applicable
        <5>2. Len([frame.ctx EXCEPT ![result.slot] = result.value]) = Len(frame.ctx)
          BY <3>3, <3>4, <5>1, ExceptSeq
        <5> QED BY <3>5, <4>2, <5>2
      <4> QED BY <4>1, <4>2
    <3>7. Steps' = Steps /\ frame'.stepCount # 0
      BY <3>3, <3>5 DEF Steps
    <3> QED BY <3>2, <3>5, <3>6, <3>7 DEF RunContextOK
  <2> QED BY <1>3, <2>1, <2>2, RunFrame
<1>4. CASE UNCHANGED vars
  BY <1>4 DEF vars, vaultVars, RunContextOK, Steps
<1> QED BY <1>1, <1>2, <1>3, <1>4 DEF Next

-----------------------------------------------------------------------------
(* Theorems.                                                               *)

ScheduleInv == Inv /\ ScheduleOK /\ RunContextOK

\* Both hold throughout.
LEMMA ScheduleInvariance == Spec => []ScheduleInv
<1>1. Init => ScheduleInv
  <2>1. Init => ScheduleOK /\ RunContextOK
    BY VaultAssumption DEF Init, ScheduleOK, LogsOK, RunContextOK, Ids, Uint
  <2> QED BY <2>1, InitInv DEF ScheduleInv
<1>2. ScheduleInv /\ [Next]_vars => ScheduleInv'
  BY NextInv, ScheduleKept, RunContextKept DEF ScheduleInv, Inv
<1> QED BY <1>1, <1>2, PTL DEF Spec

\* Time triggers keep their promises whoever runs, edits or pauses what else
\* uses their slots: the k-th firing of an interval comes no earlier than
\* start + (k - 1) * interval, a timer fires once per start, and two rebalances
\* are at least the cooldown apart.
THEOREM SchedulesAlwaysKept == Spec => []SchedulesKept
<1>1. ScheduleInv => SchedulesKept
  <2> SUFFICES ASSUME ScheduleInv PROVE SchedulesKept
    OBVIOUS
  <2>1. \A i \in Ids : automations[i].steps[1].stepType = "CONDITION" =>
            \E x : LogOK(automations[i].steps[1], fires[i], x, now)
    BY DEF ScheduleInv, ScheduleOK, LogsOK
  <2>2. IntervalPaced
    BY <2>1 DEF IntervalPaced, TriggersOf, TriggerData, LogOK, IntervalLog
  <2>3. TimerOncePerStart
    BY <2>1 DEF TimerOncePerStart, TriggersOf, TriggerData, LogOK, TimerLog
  <2>4. CooldownRespected
    BY <2>1 DEF CooldownRespected, TriggersOf, TriggerData, LogOK, WickWaitLog
  <2> QED BY <2>2, <2>3, <2>4 DEF SchedulesKept
<1> QED BY <1>1, ScheduleInvariance, PTL

=============================================================================
