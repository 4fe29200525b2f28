---------------------------- MODULE MCStrategies ----------------------------
(***************************************************************************)
(* The parts a strategy passes through on its way to the chain: the         *)
(* editor's draft, its context variables, the forms of its steps, the       *)
(* compiler of its graph, and the way a graph takes when an agent proposes  *)
(* it.  They share no state and are explored side by side: the initial      *)
(* state picks one, the others stay as they begin.                          *)
(***************************************************************************)
EXTENDS Editor, StepForm, GraphCompiler, IntentCheck

CONSTANTS t1, t2, me, them

VARIABLE part

mcDecimals == <<0, 1>>
mcUnits == t1 :> 0 @@ t2 :> 1

StepNode(entry, values) == [step |-> entry, params |-> values]

mcConditions ==
    {StepNode(IntervalCondition, "interval" :> 60),
     StepNode(TokenBalanceCondition, "token" :> t2 @@ "minBalance" :> 1)}

mcActions ==
    {StepNode(PancakeSwapV3SwapAction, "tokenIn" :> t2 @@ "tokenOut" :> t1 @@ "amountIn" :> 1),
     StepNode(AaveV3SupplyAction, "asset" :> t1 @@ "mode" :> 2),
     StepNode(PancakeSwapV3IncreaseLiquidityAction,
            "tokenA" :> t1 @@ "tokenB" :> t2 @@ "amountADesired" :> 0 @@ "amountBDesired" :> 1)}
    \cup {StepNode(ERC20TransferAction, "token" :> t2 @@ "recipient" :> r @@ "amount" :> 1) :
             r \in {me, them}}

mcDeclared ==
    {[token |-> t, amount |-> a, direction |-> Absent] : t \in {t1, t2}, a \in {0, 1}}
    \cup {[token |-> Absent, amount |-> Absent, direction |-> d] : d \in {0, 2, Absent}}

Init ==
    /\ part \in {"editor", "variables", "form", "graph", "proposal"}
    /\ EditorInit /\ VariablesInit /\ FormInit /\ GraphInit /\ IntentInit
    /\ part # "form" => /\ selected = "mint" /\ optionsKnown /\ decimalsKnown
                        /\ params["supply"] = Defaults("supply")
    /\ part # "proposal" => marked

Next ==
    /\ UNCHANGED part
    /\ \/ /\ part = "editor" /\ EditorNext
          /\ UNCHANGED <<variablesVars, formVars, graphVars, intentVars>>
       \/ /\ part = "variables" /\ VariablesNext
          /\ UNCHANGED <<editorVars, formVars, graphVars, intentVars>>
       \/ /\ part = "form" /\ FormNext
          /\ UNCHANGED <<editorVars, variablesVars, graphVars, intentVars>>
       \/ /\ part = "graph" /\ GraphNext
          /\ UNCHANGED <<editorVars, variablesVars, formVars, intentVars>>
       \/ /\ part = "proposal" /\ IntentNext
          /\ UNCHANGED <<editorVars, variablesVars, formVars, graphVars>>

Spec == Init /\ [][Next]_<<part, editorVars, variablesVars, formVars, graphVars, intentVars>>
=============================================================================
