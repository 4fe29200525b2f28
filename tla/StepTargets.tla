---------------------------- MODULE StepTargets ----------------------------
(***************************************************************************)
(* The contracts that the steps of an automation call: the conditions      *)
(* (check by staticcall, and afterExecution when the trigger fired) and    *)
(* the actions (execute by delegatecall, on the vault's own money).        *)
(*                                                                         *)
(* A context is a sequence of slot values: a uint256, or Empty for bytes   *)
(* shorter than 32.  Slots and steps are numbered from 1 (from 0 in the    *)
(* code).  A call is described by the set of its possible results; a call  *)
(* without a result reverts.                                               *)
(***************************************************************************)
EXTENDS FeeLedger, Sequences

CONSTANTS
    Empty,      \* bytes too short to hold a uint256
    MAX_UINT,   \* type(uint256).max
    DONE,       \* "no next step", type(uint32).max
    Recipient,  \* where ERC20TransferAction sends tokens
    Output      \* values a protocol action leaves in its output slot

NO_SLOT == 0

Uint == 0 .. MAX_UINT

\* An amount that an action notes is bounded by the token's supply only.
SlotValue == Nat \cup {Empty}

ConditionTarget == {"Interval", "Timer", "WickWait", "TokenBalance"}
ActionTarget == {"ERC20Transfer", "FeeDeposit", "Protocol"}

\* Step.data.  n is the interval, delta, cooldown, minimum balance, amount or
\* top-up amount; slot the slot read and outSlot the slot written (NO_SLOT for
\* none); flag is aboveOrEqual of a TokenBalance condition and "feeRegistry is
\* set" of an ERC20Transfer.
StepData == [n : Uint, slot : Nat, outSlot : Nat, flag : BOOLEAN, token : Token]

\* The target "None" is the zero address or a zero selector.
Step == [stepType : {"CONDITION", "ACTION"},
         target   : ConditionTarget \cup ActionTarget \cup {"None"},
         nextOnTrue  : Nat \cup {DONE},
         nextOnFalse : Nat \cup {DONE},
         data     : StepData]

-----------------------------------------------------------------------------
(* Conditions: the verdicts check can return at time now, on a vault that  *)
(* holds bal tokens.                                                       *)

Armed(ctx, s) == ctx[s] \notin {Empty, 0}

IntervalCheck(d, ctx, now) ==
    IF d.slot \notin DOMAIN ctx THEN {}
    ELSE IF ~Armed(ctx, d.slot) THEN {FALSE}
    ELSE {now >= ctx[d.slot]}

\* startTime + delta is checked arithmetic.
TimerCheck(d, ctx, now) ==
    IF d.slot \notin DOMAIN ctx THEN {}
    ELSE IF ~Armed(ctx, d.slot) THEN {FALSE}
    ELSE IF ctx[d.slot] + d.n > MAX_UINT THEN {}
    ELSE {now >= ctx[d.slot] + d.n}

\* Whether the mean tick left the range is up to the pool; the cooldown is
\* looked at only when it did.
WickWaitCheck(d, ctx, now) ==
    LET last     == IF ctx[d.slot] = Empty THEN 0 ELSE ctx[d.slot]
        unlockAt == IF last + d.n > MAX_UINT THEN MAX_UINT ELSE last + d.n
    IN  {FALSE} \cup (IF d.slot \in DOMAIN ctx THEN {now >= unlockAt} ELSE {})

TokenBalanceCheck(d, ctx, bal) ==
    LET readable  == d.slot = NO_SLOT \/ (d.slot \in DOMAIN ctx /\ ctx[d.slot] # Empty)
        threshold == IF d.slot = NO_SLOT THEN d.n ELSE ctx[d.slot]
    IN  IF ~readable THEN {}
        ELSE IF d.flag THEN {bal >= threshold} ELSE {bal < threshold}

Check(step, ctx, now, bal) ==
    CASE step.target = "Interval"     -> IntervalCheck(step.data, ctx, now)
      [] step.target = "Timer"        -> TimerCheck(step.data, ctx, now)
      [] step.target = "WickWait"     -> WickWaitCheck(step.data, ctx, now)
      [] step.target = "TokenBalance" -> TokenBalanceCheck(step.data, ctx, bal)
      [] OTHER                        -> {}

\* Calls that leave the vault's own contracts can fail for reasons of the pool
\* or the protocol.
MayFail(step) == step.target \in {"WickWait", "Protocol"}

-----------------------------------------------------------------------------
(* afterExecution as the vault applies it: a call that reverts, and a      *)
(* target without afterExecution, leave the context as it is.              *)

\* Mutant: relative to the time of the run.
IntervalAfter_FromNow(d, ctx, now) ==
    IF d.n = 0 \/ d.slot \notin DOMAIN ctx THEN ctx
    ELSE IF now + d.n > MAX_UINT THEN ctx
    ELSE [ctx EXCEPT ![d.slot] = now]

IntervalAfter(d, ctx, now) ==
    LET next == IF ctx[d.slot] = Empty THEN 0 ELSE ctx[d.slot]
    IN  IF d.n = 0 \/ d.slot \notin DOMAIN ctx THEN ctx
        ELSE IF next + d.n > MAX_UINT THEN ctx
        ELSE [ctx EXCEPT ![d.slot] = next + d.n]

\* Mutant: restarts the timer instead of stopping it.
TimerAfter_Restart(d, ctx, now) ==
    IF d.n = 0 \/ d.slot \notin DOMAIN ctx THEN ctx
    ELSE [ctx EXCEPT ![d.slot] = now]

TimerAfter(d, ctx, now) ==
    IF d.n = 0 \/ d.slot \notin DOMAIN ctx THEN ctx
    ELSE [ctx EXCEPT ![d.slot] = 0]

\* Mutant: does not record the time of the rebalance.
WickWaitAfter_Forgets(d, ctx, now) == ctx

WickWaitAfter(d, ctx, now) ==
    IF d.slot \notin DOMAIN ctx THEN ctx
    ELSE [ctx EXCEPT ![d.slot] = now]

AfterExecution(step, ctx, now) ==
    CASE step.target = "Interval" -> IntervalAfter(step.data, ctx, now)
      [] step.target = "Timer"    -> TimerAfter(step.data, ctx, now)
      [] step.target = "WickWait" -> WickWaitAfter(step.data, ctx, now)
      [] OTHER                    -> ctx

-----------------------------------------------------------------------------
(* Actions: the ledgers and slot diffs that execute can leave behind.  A   *)
(* diff is at most one slot; slot NO_SLOT is no diff.                      *)

Result(m, slot, value) == [ledger |-> m, slot |-> slot, value |-> value]

ERC20TransferResults(d, ctx, m, vault, withdrawFeeBps) ==
    LET readable == d.slot = NO_SLOT \/ (d.slot \in DOMAIN ctx /\ ctx[d.slot] # Empty)
        amount   == IF d.slot # NO_SLOT THEN ctx[d.slot]
                    ELSE IF d.n = 0 THEN m.bal[d.token][vault] ELSE d.n
        fee      == IF d.flag THEN Fee(amount, withdrawFeeBps) ELSE 0
        sent     == Transfer(m, d.token, vault, Recipient, amount - fee)
    IN  IF readable /\ CanPay(m, d.token, vault, amount)
        THEN {Result(CollectFee(sent, d.token, vault, fee), d.outSlot, amount)}
        ELSE {}

\* enabled is whether the registry accepts the token.
FeeDepositResults(d, m, vault, minFeeDeposit, enabled) ==
    LET current   == m.dep[d.token][vault]
        needed    == IF d.n > 0 THEN d.n ELSE minFeeDeposit - current
        available == m.bal[d.token][vault]
        toDeposit == IF needed > available THEN available ELSE needed
    IN  IF minFeeDeposit = 0 \/ current >= minFeeDeposit \/ toDeposit = 0
        THEN {Result(m, NO_SLOT, 0)}
        ELSE IF enabled
        THEN {Result(DepositFor(m, d.token, vault, vault, toDeposit), NO_SLOT, 0)}
        ELSE {}

\* An Aave or PancakeSwap action, seen from the vault: it moves n tokens to the
\* protocol and writes a value to its output slot.
ProtocolResults(d, m, vault) ==
    IF CanPay(m, d.token, vault, d.n)
    THEN {Result(Transfer(m, d.token, vault, Recipient, d.n), d.outSlot, v) : v \in Output}
    ELSE {}
=============================================================================
