------------------------------ MODULE MCClients ------------------------------
(***************************************************************************)
(* Parts of the clients, and of what they are offered, that share no state, *)
(* explored side by side: the initial state picks one, the others stay as   *)
(* they begin.                                                             *)
(***************************************************************************)
EXTENDS PolicyGate, Session, Registration, CatalogSeed, McpServer

VARIABLE part

\* Addresses no deployment of this instance gives out, and three it does.
mcFallback == [k \in Kinds |-> IF k = "IntervalCondition" THEN 200 ELSE 0]
mcOldFile == "IntervalCondition" :> 16 @@ "TimerCondition" :> 17 @@ "ERC20TransferAction" :> 18

CONSTANTS t1, t2, q1, k1
mcCoinDecimals == t1 :> 0 @@ t2 :> 1
mcTokenLists == <<t1 :> 0, t1 :> 0, t2 :> 1>>

\* The server: its wallet; every tool; two calls that share the session; two that share
\* the decimals.
mcpParts == {"wallet", "tools", "tokens", "decimals"}
mcTools == {"get_portfolio", "list_step_types", "deposit", "withdraw", "top_up_gas_deposit",
            "set_min_fee_deposit", "set_automation_active", "get_vault", "list_vaults",
            "simulate_action", "create_vault", "propose_automation"}

McpNext ==
    \/ part = "wallet" /\ WalletNext
    \/ part \in {"tools", "tokens"} /\ TokensExpire
    \/ part = "tools" /\ CallsNext({q1}, mcTools)
    \/ part = "tokens" /\ CallsNext(Query, {"get_portfolio"})
    \/ part = "decimals" /\ CallsNext(Query, {"simulate_action"})

Init ==
    /\ part \in {"gate", "session", "registration", "catalog"} \cup mcpParts
    /\ GateInit /\ SessionInit /\ RegistrationInit /\ CatalogInit
    /\ IF part \in mcpParts \ {"wallet"} THEN McpUp ELSE McpInit
    /\ process.owner \in {NoKey, k1}
    /\ part \notin mcpParts => disk.keystore = NoKey
    /\ part # "gate" => readOnly /\ elicits /\ \A d \in Draft : drafts[d].kind = "plain"
    /\ part # "catalog" => file = NoFile

clientVars == <<gateVars, sessionVars, registrationVars, catalogVars>>

Next ==
    /\ UNCHANGED part
    /\ \/ /\ part = "gate" /\ GateNext
          /\ UNCHANGED <<sessionVars, registrationVars, catalogVars, mcpVars>>
       \/ /\ part = "session" /\ SessionNext
          /\ UNCHANGED <<gateVars, registrationVars, catalogVars, mcpVars>>
       \/ /\ part = "registration" /\ RegistrationNext
          /\ UNCHANGED <<gateVars, sessionVars, catalogVars, mcpVars>>
       \/ /\ part = "catalog" /\ CatalogNext
          /\ UNCHANGED <<gateVars, sessionVars, registrationVars, mcpVars>>
       \/ McpNext /\ UNCHANGED clientVars

Spec == /\ Init /\ [][Next]_<<part, clientVars, mcpVars>>
        /\ GateFairness /\ RegistrationFairness
=============================================================================
