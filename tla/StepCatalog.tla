----------------------------- MODULE StepCatalog -----------------------------
(***************************************************************************)
(* The step types and recipes the team ships (backend/prisma/seed/catalog/  *)
(* and recipe-seed-data.ts), and the two guards over them: the catalogue's  *)
(* agreement with the contracts (catalog-integrity.ts, action-              *)
(* capabilities.ts, shared's step-roles.ts), and a recipe's agreement with  *)
(* the catalogue (recipe-validation.ts).                                    *)
(*                                                                         *)
(* Of a parameter the guards see its name, its widget, its explicit role,   *)
(* and whether the form's generic loop leaves it out ("hidden").  The       *)
(* fragment of the ABI is the set of its components' names, and the subset  *)
(* of those that are addresses.                                             *)
(***************************************************************************)
EXTENDS Integers, Sequences, FiniteSets

FIXED == 0
FROM_SLOT == 1
MAX_AVAILABLE == 2
TARGET_HF == 3

-----------------------------------------------------------------------------
(* The catalogue.                                                          *)

Field(name, widget) == [name |-> name, widget |-> widget, role |-> "none", hidden |-> FALSE]
Hidden(field) == [field EXCEPT !.hidden = TRUE]

Condition(key, name, fields, abi, addresses) ==
    [name |-> name, contractKey |-> key, selector |-> "check", modes |-> {},
     fields |-> fields, abi |-> abi, addresses |-> addresses]

Action(key, name, fields, abi, addresses) ==
    [Condition(key, name, fields, abi, addresses) EXCEPT !.selector = "execute"]

TokenBalanceCondition ==
    Condition("TokenBalanceCondition", "Token Balance Condition",
        {Field("token", "token-selector"), Field("account", "account-selector"),
         Field("minBalance", "token-amount"), Field("aboveOrEqual", "none"),
         Field("minBalanceFromSlot", "context-slot")},
        {"token", "account", "minBalance", "aboveOrEqual", "minBalanceFromSlot"},
        {"token", "account"})

\* The start time is no parameter of the contract: it becomes the slot's value.
Timed(key, name, delay) ==
    Condition(key, name,
        {Field(delay, "duration"), Field("startTime", "start-time"),
         Hidden(Field("timeSlot", "context-slot"))},
        {delay, "timeSlot"}, {})

IntervalCondition == Timed("IntervalCondition", "Interval Condition", "interval")
TimerCondition == Timed("TimerCondition", "Timer Condition", "delta")

\* Mutant: the recipient is an ordinary address field.
ERC20TransferAction_NoRole ==
    Action("ERC20TransferAction", "ERC-20 Transfer",
        {Field("token", "token-selector"), Field("recipient", "none"),
         Field("amount", "token-amount"), Field("amountFromSlot", "context-slot"),
         Field("amountToSlot", "context-slot"), Field("feeRegistry", "none")},
        {"token", "recipient", "amount", "amountFromSlot", "amountToSlot", "feeRegistry"},
        {"token", "recipient", "feeRegistry"})

ERC20TransferAction ==
    Action("ERC20TransferAction", "ERC-20 Transfer",
        {Field("token", "token-selector"),
         [Field("recipient", "none") EXCEPT !.role = "recipient"],
         Field("amount", "token-amount"), Field("amountFromSlot", "context-slot"),
         Field("amountToSlot", "context-slot"), Field("feeRegistry", "none")},
        {"token", "recipient", "amount", "amountFromSlot", "amountToSlot", "feeRegistry"},
        {"token", "recipient", "feeRegistry"})

FeeDepositAction ==
    Action("FeeDepositAction", "Fee Deposit",
        {Field("feeRegistry", "none"), Field("token", "token-selector"),
         Field("topUpAmount", "token-amount")},
        {"feeRegistry", "token", "topUpAmount"}, {"feeRegistry", "token"})

WickWaitRebalanceCondition ==
    Condition("WickWaitRebalanceCondition", "Wick & Wait Rebalance",
        {Field("tokenIdSlot", "context-slot"), Field("twapWindow", "duration"),
         Field("cooldown", "duration"), Field("lastRebalanceSlot", "context-slot")},
        {"tokenIdSlot", "twapWindow", "cooldown", "lastRebalanceSlot"}, {})

\* The widget of the mode shows the hidden fields itself, the one the mode needs.
AaveAction(key, name) ==
    [Action(key, name,
        {Field("asset", "token-selector"), Field("mode", "aave-amount-mode"),
         Hidden(Field("amount", "token-amount")),
         Hidden(Field("amountFromSlot", "context-slot")),
         Hidden(Field("targetHealthFactor", "health-factor")),
         Field("amountToSlot", "context-slot")},
        {"asset", "mode", "amount", "amountFromSlot", "targetHealthFactor", "amountToSlot"},
        {"asset"}) EXCEPT !.modes = {FIXED, FROM_SLOT, MAX_AVAILABLE, TARGET_HF}]

AaveV3SupplyAction == AaveAction("AaveV3SupplyAction", "Aave V3 Supply")
AaveV3WithdrawAction == AaveAction("AaveV3WithdrawAction", "Aave V3 Withdraw")
AaveV3BorrowAction == AaveAction("AaveV3BorrowAction", "Aave V3 Borrow")
AaveV3RepayAction == AaveAction("AaveV3RepayAction", "Aave V3 Repay")

PancakeSwapV3SwapAction ==
    Action("PancakeSwapV3SwapAction", "PancakeSwap V3 Swap",
        {Field("tokenIn", "token-selector"), Field("tokenOut", "token-selector"),
         Field("fee", "fee-tier"), Field("amountIn", "token-amount"),
         Field("amountInFromSlot", "context-slot"), Field("amountOutToSlot", "context-slot"),
         Hidden(Field("amountOutMinimum", "none")),
         Hidden(Field("minOutFromSlot", "context-slot"))},
        {"tokenIn", "tokenOut", "fee", "amountIn", "amountInFromSlot", "amountOutToSlot",
         "amountOutMinimum", "minOutFromSlot"},
        {"tokenIn", "tokenOut"})

PancakeSwapV3MintAction ==
    Action("PancakeSwapV3MintAction", "PancakeSwap V3 LP Mint",
        {Field("tokenA", "token-selector"), Field("tokenB", "token-selector"),
         Field("fee", "fee-tier"), Field("rangeMode", "tick-range"),
         Hidden(Field("tickLower", "none")), Hidden(Field("tickUpper", "none")),
         Hidden(Field("tickDelta", "none")), Field("amountADesired", "token-amount"),
         Field("amountBDesired", "token-amount"), Field("tokenIdToSlot", "context-slot")},
        {"tokenA", "tokenB", "fee", "rangeMode", "tickLower", "tickUpper", "tickDelta",
         "amountADesired", "amountBDesired", "tokenIdToSlot"},
        {"tokenA", "tokenB"})

PancakeSwapV3IncreaseLiquidityAction ==
    Action("PancakeSwapV3IncreaseLiquidityAction", "PancakeSwap V3 Increase Liquidity",
        {Field("tokenA", "token-selector"), Field("tokenB", "token-selector"),
         Field("tokenIdFromSlot", "context-slot"), Field("amountADesired", "token-amount"),
         Field("amountAFromSlot", "context-slot"), Field("amountBDesired", "token-amount"),
         Field("amountBFromSlot", "context-slot")},
        {"tokenA", "tokenB", "tokenIdFromSlot", "amountADesired", "amountAFromSlot",
         "amountBDesired", "amountBFromSlot"},
        {"tokenA", "tokenB"})

PancakeSwapV3DecreaseLiquidityAction ==
    Action("PancakeSwapV3DecreaseLiquidityAction", "PancakeSwap V3 Decrease Liquidity",
        {Field("tokenIdFromSlot", "context-slot"), Field("percent", "percent")},
        {"tokenIdFromSlot", "percent"}, {})

PancakeSwapV3CollectAction ==
    Action("PancakeSwapV3CollectAction", "PancakeSwap V3 Collect",
        {Field("tokenIdFromSlot", "context-slot")}, {"tokenIdFromSlot"}, {})

PancakeSwapV3SwapToRangeRatioAction ==
    Action("PancakeSwapV3SwapToRangeRatioAction", "PancakeSwap V3 Swap to Range Ratio",
        {Field("tokenA", "token-selector"), Field("tokenB", "token-selector"),
         Field("fee", "fee-tier"), Field("tickDelta", "range-percent"),
         Hidden(Field("amountOutMinimum", "none"))},
        {"tokenA", "tokenB", "fee", "tickDelta", "amountOutMinimum"},
        {"tokenA", "tokenB"})

STEP_TYPE_CATALOG ==
    << TokenBalanceCondition, IntervalCondition, TimerCondition, ERC20TransferAction,
       FeeDepositAction, WickWaitRebalanceCondition,
       AaveV3SupplyAction, AaveV3WithdrawAction, AaveV3BorrowAction, AaveV3RepayAction,
       PancakeSwapV3SwapAction, PancakeSwapV3MintAction,
       PancakeSwapV3IncreaseLiquidityAction, PancakeSwapV3DecreaseLiquidityAction,
       PancakeSwapV3CollectAction, PancakeSwapV3SwapToRangeRatioAction >>

-----------------------------------------------------------------------------
(* checkCatalogIntegrity.                                                  *)

\* The amount modes the contract resolves, and the widget a mode cannot do without.
SupportedModes(key) ==
    IF key \in {"AaveV3SupplyAction", "AaveV3WithdrawAction", "AaveV3BorrowAction",
                "AaveV3RepayAction"}
    THEN {FIXED, FROM_SLOT, MAX_AVAILABLE, TARGET_HF} ELSE {}

ModeFields(key) == IF SupportedModes(key) = {} THEN {} ELSE {<<TARGET_HF, "health-factor">>}

\* An explicit role before the one the widget stands for.
resolveFieldRole(field) ==
    IF field.role # "none" THEN field.role
    ELSE CASE field.widget = "token-selector"   -> "token"
           [] field.widget = "token-amount"     -> "amount"
           [] field.widget = "aave-amount-mode" -> "direction"
           [] OTHER                             -> "none"

RECIPIENT_FIELD_NAMES == {"recipient", "to", "receiver", "destination"}

\* Money targets that neither the confirmation's summary nor the allowlist would see.
findUnannotatedRecipients(entry) ==
    {name \in entry.addresses \cap RECIPIENT_FIELD_NAMES :
        ~ \E f \in entry.fields : f.name = name /\ resolveFieldRole(f) = "recipient"}

\* The rule about phrases such as "not yet available" is about wording and left out.
checkCatalogIntegrity(entry) ==
    LET names == {f.name : f \in entry.fields}
        \* Without a mode field no mode is advertised.
        advertised == IF \E f \in entry.fields : f.widget = "aave-amount-mode"
                      THEN entry.modes ELSE {}
        known == SupportedModes(entry.contractKey) # {}
    IN  (IF known THEN {<<"mode-unsupported", m>> :
                            m \in advertised \ SupportedModes(entry.contractKey)} ELSE {})
        \cup {<<"mode-field-missing", need[2]>> :
                 need \in {n \in ModeFields(entry.contractKey) :
                             /\ n[1] \in advertised
                             /\ \A f \in entry.fields : f.widget # n[2]}}
        \cup {<<"abi-schema-drift", a>> : a \in entry.abi \ names}
        \cup {<<"abi-schema-drift", f.name>> :
                 f \in {g \in entry.fields : /\ g.name \notin entry.abi
                                             /\ ~g.hidden
                                             /\ g.widget # "start-time"}}
        \cup {<<"unannotated-role", name>> : name \in findUnannotatedRecipients(entry)}

-----------------------------------------------------------------------------
(* Recipes: a node is a step type's name and the parameters it presets, an  *)
(* edge a pair of positions in the list of nodes.                           *)

RecipeNode(stepType, params) == [stepType |-> stepType, params |-> params]

Chain(key, nodes) ==
    [key |-> key, nodes |-> nodes, edges |-> {<<i, i + 1>> : i \in 1 .. Len(nodes) - 1}]

Each == RecipeNode("Interval Condition", {"interval"})
Swap == RecipeNode("PancakeSwap V3 Swap", {"tokenIn", "tokenOut", "fee", "amountIn"})
Collect == RecipeNode("PancakeSwap V3 Collect", {"tokenIdFromSlot"})
Reinvest == RecipeNode("PancakeSwap V3 Increase Liquidity",
                 {"tokenA", "tokenB", "tokenIdFromSlot", "amountADesired", "amountBDesired"})
Size == RecipeNode("PancakeSwap V3 Swap to Range Ratio",
             {"tokenA", "tokenB", "fee", "tickDelta", "amountOutMinimum"})
Mint == RecipeNode("PancakeSwap V3 LP Mint",
             {"tokenA", "tokenB", "fee", "rangeMode", "tickDelta", "amountADesired",
              "amountBDesired", "tokenIdToSlot"})

IntervalRecipes ==
    << Chain("dca", <<Each, Swap>>),
       Chain("interval-aave-supply",
             <<Each, RecipeNode("Aave V3 Supply", {"asset", "mode", "amount"})>>),
       Chain("pancake-auto-reinvest", <<Each, Collect, Reinvest>>),
       Chain("interval-rebalance", <<Each, Swap>>) >>

WickWaitRecipes ==
    << Chain("wick-wait-entry", <<Size, Mint>>),
       Chain("wick-wait-rebalance",
             << RecipeNode("Wick & Wait Rebalance",
                     {"tokenIdSlot", "twapWindow", "cooldown", "lastRebalanceSlot"}),
                Collect,
                RecipeNode("PancakeSwap V3 Decrease Liquidity", {"tokenIdFromSlot", "percent"}),
                Size, Mint >>),
       Chain("wick-wait-compound",
             << Each, Collect, RecipeNode("Fee Deposit", {"feeRegistry", "token", "topUpAmount"}),
                Reinvest >>) >>

RECIPES == IntervalRecipes \o WickWaitRecipes

\* Mutant: a node whose step type is unknown has no parameters to check.
validateRecipeShape_KnownOnly(recipe, entries) ==
    {<<"param drift", i>> : i \in {j \in DOMAIN recipe.nodes :
        \E e \in entries : /\ e.name = recipe.nodes[j].stepType
                           /\ ~(recipe.nodes[j].params \subseteq {f.name : f \in e.fields})}}

\* What keeps a recipe from being delivered beside these step types.
validateRecipeShape(recipe, entries) ==
    {<<"unknown step type", i>> : i \in {j \in DOMAIN recipe.nodes :
        \A e \in entries : e.name # recipe.nodes[j].stepType}}
    \cup
    {<<"param drift", i>> : i \in {j \in DOMAIN recipe.nodes :
        \E e \in entries : /\ e.name = recipe.nodes[j].stepType
                           /\ ~(recipe.nodes[j].params \subseteq {f.name : f \in e.fields})}}
    \cup
    {<<"edge", e>> : e \in recipe.edges \ ((DOMAIN recipe.nodes) \X (DOMAIN recipe.nodes))}
=============================================================================
