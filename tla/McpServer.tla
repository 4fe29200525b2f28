----------------------------- MODULE McpServer -----------------------------
(***************************************************************************)
(* The MCP server around its gate (mcp/src): onboarding, which puts the     *)
(* keystore's password into the OS keychain; the start, which opens the     *)
(* keystore with it and signs in; and the tools, each a list of backend     *)
(* calls and checks that ends with an answer, an error, or a request to     *)
(* the PolicyGate.                                                         *)
(*                                                                         *)
(* All tools share one access token, one refresh token and one cache of     *)
(* token decimals; calls run concurrently and interleave at every await.    *)
(* A keystore stands for its password, its owner and the owner's vault.     *)
(***************************************************************************)
EXTENDS Integers, Sequences, Functions

CONSTANTS
    Query,          \* tool calls in flight
    Keystore,       \* the keystores a user has
    NoKey,          \* no keystore, no password
    Coin,           \* tokens
    CoinDecimals,   \* their decimals on chain
    TokenLists,     \* /tokens?protocol=aave, =pancakeswap and /tokens/accepted: coin |-> decimals
    MaxHuman,       \* PECUNITY_MAX_AMOUNT_PER_TOKEN, in human units
    DecimalsTTL,    \* sixty seconds
    MaxMinted,      \* bound on access tokens, over all
    MaxFaults,      \* bound on failing calls
    MaxSeconds      \* bound on time

VARIABLES
    disk,      \* the keystore in place, and the keychain's password
    opened,    \* history: passwords that have opened a keystore
    onboarding,
    process,   \* the server and whom it has signed in
    auth,      \* its tokens, and what the backend still honours
    decimalsCache,
    seconds,
    faults,
    queries

mcpVars == <<disk, opened, onboarding, process, auth, decimalsCache, seconds, faults, queries>>
walletVars == <<disk, opened, onboarding>>

\* Not every coin is on a list; a list has the decimals of those it names right.
ASSUME McpAssumption ==
    /\ CoinDecimals \in [Coin -> Nat]
    /\ Len(TokenLists) = 3
    /\ \A i \in 1 .. 3 : /\ DOMAIN TokenLists[i] \subseteq Coin
                         /\ \A c \in DOMAIN TokenLists[i] : TokenLists[i][c] = CoinDecimals[c]
    /\ MaxMinted \in Nat /\ MaxFaults \in Nat /\ MaxSeconds \in Nat /\ DecimalsTTL \in Nat

-----------------------------------------------------------------------------
(* The tools (index.ts registers them, tools/ implements them).            *)

\* One backend call, owner-guarded for a vault or public, handed through.
ReadTools == {"get_portfolio", "list_automations", "get_executions", "get_positions",
              "get_performance", "get_value_history"}
CatalogTools == {"list_step_types", "describe_step_type", "list_recipes"}
MoneyTools == {"deposit", "withdraw"}
LifecycleTools == {"top_up_gas_deposit", "set_min_fee_deposit", "set_automation_active"}

\* The tools that act on a vault they name.
VaultTools == ReadTools \cup MoneyTools \cup LifecycleTools
                 \cup {"get_vault", "propose_automation"}

\* What a tool does, in order.
getVaultPlan == <<"owned", "guarded">>
depositPlan == <<"decimals", "owned", "units", "fees", "gate">>
withdrawPlan == <<"decimals", "owned", "units", "recipient", "fees", "gate">>
simulatePlan == <<"decimals", "units", "estimate", "fees">>
topUpPlan == <<"decimals", "owned", "units", "gate">>
setActivePlan == <<"owned", "gate">>
createVaultPlan == <<"public", "gate">>
proposePlan == <<"public", "decimals", "units", "estimate", "row", "encode", "intent">>

PlanOf(tool) ==
    CASE tool \in ReadTools              -> <<"guarded">>
      [] tool \in CatalogTools           -> <<"public">>
      [] tool = "list_vaults"            -> <<"vaults">>
      [] tool = "get_vault"              -> getVaultPlan
      [] tool = "deposit"                -> depositPlan
      [] tool = "withdraw"               -> withdrawPlan
      [] tool = "simulate_action"        -> simulatePlan
      [] tool \in LifecycleTools \ {"set_automation_active"} -> topUpPlan
      [] tool = "set_automation_active"  -> setActivePlan
      [] tool = "create_vault"           -> createVaultPlan
      [] tool = "propose_automation"     -> proposePlan

\* Steps that send the access token; guarded ones name a vault as well.
Authorized == {"vaults", "owned", "guarded", "row", "encode", "cleanup"}
VaultGuarded == {"guarded", "row", "encode", "cleanup"}

Idle == [tool |-> "none", vault |-> NoKey, coin |-> CHOOSE c \in Coin : TRUE, amount |-> 0,
         plan |-> << >>, at |-> "idle", token |-> 0, again |-> FALSE, mine |-> 0, lists |-> 0,
         spoilt |-> FALSE, known |-> << >>, base |-> 0, row |-> FALSE, since |-> 0,
         why |-> "none"]

NoCache == [known |-> << >>, ts |-> 0 - DecimalsTTL - 1]
\* `spoiltAt` is history: when a load that missed a list was last cached.
Unspoilt == [cache |-> NoCache, spoiltAt |-> 0 - DecimalsTTL - 1]

Down == [at |-> "down", password |-> NoKey, owner |-> NoKey]
NoTokens == [access |-> 0, minted |-> 0, dead |-> 0, refresh |-> TRUE]

McpInit ==
    /\ disk \in [keystore : Keystore \cup {NoKey}, keychain : {NoKey}]
    /\ opened = {}
    /\ onboarding = [at |-> "idle", keystore |-> NoKey]
    /\ process = Down /\ auth = NoTokens
    /\ decimalsCache = Unspoilt
    /\ seconds = 0 /\ faults = 0
    /\ queries = [q \in Query |-> Idle]

\* A server that runs.
McpUp ==
    \E k \in Keystore :
    /\ disk = [keystore |-> k, keychain |-> k]
    /\ opened = {k}
    /\ onboarding = [at |-> "idle", keystore |-> NoKey]
    /\ process = [at |-> "up", password |-> NoKey, owner |-> k]
    /\ auth = [NoTokens EXCEPT !.access = 1, !.minted = 1]
    /\ decimalsCache = Unspoilt
    /\ seconds = 0 /\ faults = 0
    /\ queries = [q \in Query |-> Idle]

Fault == faults < MaxFaults /\ faults' = faults + 1
Fine == UNCHANGED faults

-----------------------------------------------------------------------------
(* Onboarding (cli/init.ts, onboarding.ts).                                *)

\* The user puts another keystore in place, or removes it.
moveKeystore(k) ==
    /\ disk.keystore # k
    /\ disk' = [disk EXCEPT !.keystore = k]
    /\ UNCHANGED <<opened, onboarding, process, auth, decimalsCache, seconds, faults, queries>>

\* Without a readable file there is no prompt.
readKeystoreFile ==
    /\ onboarding.at = "idle" /\ disk.keystore # NoKey
    /\ onboarding' = [at |-> "prompt", keystore |-> disk.keystore]
    /\ UNCHANGED <<disk, opened, process, auth, decimalsCache, seconds, faults, queries>>

\* WalletSigner.fromKeystore.
Opens(password, keystore) == password # NoKey /\ password = keystore

\* Mutant: stored first, verified afterwards.
promptPassword_StoresFirst(password) ==
    /\ onboarding.at = "prompt"
    /\ onboarding' = [at |-> "idle", keystore |-> NoKey]
    /\ disk' = [disk EXCEPT !.keychain = password]
    /\ opened' = IF Opens(password, onboarding.keystore) THEN opened \cup {password} ELSE opened
    /\ UNCHANGED <<process, auth, decimalsCache, seconds, faults, queries>>

\* A password that does not open what was read ends the onboarding (NoKey: none).
promptPassword(password) ==
    /\ onboarding.at = "prompt"
    /\ IF Opens(password, onboarding.keystore)
       THEN /\ onboarding' = [onboarding EXCEPT !.at = "store"]
            /\ opened' = opened \cup {password}
       ELSE /\ onboarding' = [at |-> "idle", keystore |-> NoKey]
            /\ UNCHANGED opened
    /\ UNCHANGED <<disk, process, auth, decimalsCache, seconds, faults, queries>>

writePassword ==
    /\ onboarding.at = "store"
    /\ onboarding' = [at |-> "idle", keystore |-> NoKey]
    /\ disk' = [disk EXCEPT !.keychain = onboarding.keystore]
    /\ UNCHANGED <<opened, process, auth, decimalsCache, seconds, faults, queries>>

\* pecunity-mcp-init --remove; a running server keeps what it has read.
deleteKeystorePassword ==
    /\ disk.keychain # NoKey
    /\ disk' = [disk EXCEPT !.keychain = NoKey]
    /\ UNCHANGED <<opened, onboarding, process, auth, decimalsCache, seconds, faults, queries>>

-----------------------------------------------------------------------------
(* connectOwnerSession.                                                    *)

readPassword ==
    /\ process.at = "down" /\ disk.keychain # NoKey
    /\ process' = [Down EXCEPT !.at = "opening", !.password = disk.keychain]
    /\ UNCHANGED <<walletVars, auth, decimalsCache, seconds, faults, queries>>

fromKeystore ==
    /\ process.at = "opening"
    /\ process' = IF Opens(process.password, disk.keystore)
                  THEN [at |-> "signing in", password |-> NoKey, owner |-> disk.keystore]
                  ELSE Down
    /\ UNCHANGED <<walletVars, auth, decimalsCache, seconds, faults, queries>>

\* Nonce, signature, verification; then the server listens.
authenticate ==
    /\ process.at = "signing in"
    /\ auth.minted < MaxMinted
    /\ process' = [process EXCEPT !.at = "up"]
    /\ auth' = [auth EXCEPT !.access = auth.minted + 1, !.minted = @ + 1, !.refresh = TRUE]
    /\ UNCHANGED <<walletVars, decimalsCache, seconds, faults, queries>>

\* The handshake fails, a signal, a crash: nothing is kept.
stop ==
    /\ process.at # "down"
    /\ process' = Down
    /\ auth' = [auth EXCEPT !.access = 0]
    /\ decimalsCache' = Unspoilt
    /\ queries' = [q \in Query |-> Idle]
    /\ UNCHANGED <<walletVars, seconds, faults>>

\* Access tokens die in the order they were made; the refresh token dies once.
expireAccess ==
    /\ auth.dead < auth.minted
    /\ auth' = [auth EXCEPT !.dead = @ + 1]
    /\ UNCHANGED <<walletVars, process, decimalsCache, seconds, faults, queries>>

expireRefresh ==
    /\ process.at = "up" /\ auth.refresh
    /\ auth' = [auth EXCEPT !.refresh = FALSE]
    /\ UNCHANGED <<walletVars, process, decimalsCache, seconds, faults, queries>>

passes ==
    /\ seconds < MaxSeconds
    /\ seconds' = seconds + 1
    /\ UNCHANGED <<walletVars, process, auth, decimalsCache, faults, queries>>

-----------------------------------------------------------------------------
(* A call of a tool.                                                       *)

callMcpTool(q, tool, vault, coin, amount) ==
    /\ process.at = "up" /\ queries[q].at = "idle"
    /\ tool \notin VaultTools => vault = process.owner
    /\ "units" \notin Range(PlanOf(tool)) => coin = Idle.coin /\ amount = 1
    /\ queries' = [queries EXCEPT ![q] =
                     [Idle EXCEPT !.tool = tool, !.vault = vault, !.coin = coin,
                        !.amount = amount, !.plan = PlanOf(tool), !.at = "next",
                        !.since = seconds]]
    /\ UNCHANGED <<walletVars, process, auth, decimalsCache, seconds, faults>>

At_(q, at, step) == queries[q].at = at /\ Head(queries[q].plan) = step
AtOneOf(q, at, steps) == queries[q].at = at /\ Head(queries[q].plan) \in steps

\* On to the plan's next step, or to the end.
Done(r) == [r EXCEPT !.plan = Tail(@), !.again = FALSE, !.token = 0,
                     !.at = IF Len(r.plan) = 1 THEN "answered" ELSE "next"]

\* An exception ends the call.
Ended(r, why) == [r EXCEPT !.at = "thrown", !.why = why]

CleaningUp(r) == [r EXCEPT !.plan = <<"cleanup">>, !.at = "next", !.again = FALSE, !.token = 0]

\* Once the backend row exists it is removed first; a removal that throws is swallowed.
Thrown(r, why) ==
    CASE Head(r.plan) = "encode"  -> CleaningUp(r)
      [] Head(r.plan) = "cleanup" -> Ended(r, "uncleaned")
      [] OTHER                    -> Ended(r, why)

Becomes(q, r) == queries' = [queries EXCEPT ![q] = r]

\* #request reads the token when it sends.
request(q) ==
    /\ AtOneOf(q, "next", Authorized)
    /\ Becomes(q, [queries[q] EXCEPT !.at = "sent", !.token = auth.access])
    /\ UNCHANGED <<walletVars, process, auth, decimalsCache, seconds, faults>>

Honoured(r) == r.token > auth.dead
Allowed(r) == Head(r.plan) \in VaultGuarded => r.vault = process.owner

\* Mutant: makeAssertOwnedVault asks and does not look.
Owned_Asked(r) == TRUE

\* listVaults holds the signed-in owner's.
Owned(r) == r.vault = process.owner

\* Mutant: a graph the encoder rejects keeps its row.
Served_KeepsRow(r) ==
    CASE Head(r.plan) = "owned"   -> {IF Owned(r) THEN Done(r) ELSE Thrown(r, "foreign")}
      [] Head(r.plan) = "row"     -> {Done([r EXCEPT !.row = TRUE])}
      [] Head(r.plan) = "encode"  -> {Done(r), Ended(r, "unencodable")}
      [] Head(r.plan) = "cleanup" -> {Ended([r EXCEPT !.row = FALSE], "rejected")}
      [] OTHER                    -> {Done(r)}

\* What a call becomes by a 2xx, or by a 400 of the encoder.
Served(r) ==
    CASE Head(r.plan) = "owned"   -> {IF Owned(r) THEN Done(r) ELSE Thrown(r, "foreign")}
      [] Head(r.plan) = "row"     -> {Done([r EXCEPT !.row = TRUE])}
      [] Head(r.plan) = "encode"  -> {Done(r), Thrown(r, "unencodable")}
      [] Head(r.plan) = "cleanup" -> {Ended([r EXCEPT !.row = FALSE], "rejected")}
      [] OTHER                    -> {Done(r)}

handled(q) ==
    /\ queries[q].at = "sent" /\ Honoured(queries[q])
    /\ IF Allowed(queries[q]) THEN \E r \in Served(queries[q]) : Becomes(q, r)
       ELSE Becomes(q, Thrown(queries[q], "foreign"))
    /\ UNCHANGED <<walletVars, process, auth, decimalsCache, seconds, faults>>

\* 401: the first one of a request asks for a new token, the second is an error.
unauthorized(q) ==
    /\ queries[q].at = "sent" /\ ~Honoured(queries[q])
    /\ Becomes(q, IF queries[q].again THEN Thrown(queries[q], "unauthorized")
                  ELSE [queries[q] EXCEPT !.at = "refreshing", !.again = TRUE])
    /\ UNCHANGED <<walletVars, process, auth, decimalsCache, seconds, faults>>

\* /auth/refresh, as the backend answers it.
refresh(q) ==
    /\ queries[q].at = "refreshing"
    /\ IF auth.refresh
       THEN /\ auth.minted < MaxMinted
            /\ auth' = [auth EXCEPT !.minted = @ + 1]
            /\ Becomes(q, [queries[q] EXCEPT !.at = "refreshed", !.token = auth.minted + 1,
                                            !.mine = auth.minted + 1])
       ELSE /\ Becomes(q, Thrown(queries[q], "signed out"))
            /\ UNCHANGED auth
    /\ UNCHANGED <<walletVars, process, decimalsCache, seconds, faults>>

\* Mutant: the request is repeated as it was, and the new token forgotten.
repeat_SameRequest(q) ==
    /\ queries[q].at = "refreshed"
    /\ Becomes(q, [queries[q] EXCEPT !.at = "sent", !.token = auth.access])
    /\ UNCHANGED <<walletVars, process, auth, decimalsCache, seconds, faults>>

\* The answer arrives, after or before that of another call's refresh; the request is
\* sent again in the same turn.
repeat(q) ==
    /\ queries[q].at = "refreshed"
    /\ auth' = [auth EXCEPT !.access = queries[q].token]
    /\ Becomes(q, [queries[q] EXCEPT !.at = "sent"])
    /\ UNCHANGED <<walletVars, process, decimalsCache, seconds, faults>>

\* A network error or 5xx; a row may have come about, or gone, nevertheless.
sendFails(q) ==
    /\ queries[q].at \in {"sent", "refreshing"}
    /\ Fault
    /\ LET r == queries[q] IN
       \/ Becomes(q, Thrown(r, "unreachable"))
       \/ /\ AtOneOf(q, "sent", {"row", "cleanup"}) /\ Honoured(r) /\ Allowed(r)
          /\ Becomes(q, Thrown([r EXCEPT !.row = Head(r.plan) = "row"], "unreachable"))
    /\ UNCHANGED <<walletVars, process, auth, decimalsCache, seconds>>

\* Step types, recipes, accepted tokens, a pool or a gas estimate: no session needed.
\* A token that is not accepted, an unknown step type, a missing pool end the call.
readsPublic(q) ==
    /\ AtOneOf(q, "next", {"public", "estimate"})
    /\ \/ Becomes(q, Done(queries[q])) /\ Fine
       \/ /\ queries[q].tool \in {"create_vault", "propose_automation"}
          /\ Becomes(q, Thrown(queries[q], "refused")) /\ Fine
       \/ Becomes(q, Thrown(queries[q], "unreachable")) /\ Fault
    /\ UNCHANGED <<walletVars, process, auth, decimalsCache, seconds>>

\* feeLine: without an answer the fee is "unknown".
feeLine(q) ==
    /\ At_(q, "next", "fees")
    /\ Becomes(q, Done(queries[q]))
    /\ UNCHANGED <<walletVars, process, auth, decimalsCache, seconds, faults>>

-----------------------------------------------------------------------------
(* Decimals: three lists, a cache, units.                                  *)

\* Mutant: a map once loaded is kept.
CacheHolds_ForGood == decimalsCache.cache # NoCache

CacheHolds == seconds - decimalsCache.cache.ts <= DecimalsTTL

getTokenDecimals(q) ==
    /\ At_(q, "next", "decimals")
    /\ Becomes(q, IF CacheHolds
                  THEN Done([queries[q] EXCEPT !.known = decimalsCache.cache.known])
                  ELSE [queries[q] EXCEPT !.at = "loading", !.lists = 0, !.known = << >>])
    /\ UNCHANGED <<walletVars, process, auth, decimalsCache, seconds, faults>>

\* What a list has replaces what was known of its tokens.
add(list, known) ==
    [c \in DOMAIN list \cup DOMAIN known |-> IF c \in DOMAIN list THEN list[c] ELSE known[c]]

\* A list that fails counts as empty; the third one's end fills the cache.
loadTokenDecimals(q) ==
    /\ queries[q].at = "loading"
    /\ \E ok \in BOOLEAN :
         LET r == queries[q]
             s == [r EXCEPT !.lists = @ + 1, !.spoilt = @ \/ ~ok,
                            !.known = IF ok THEN add(TokenLists[r.lists + 1], @) ELSE @]
         IN  /\ IF ok THEN Fine ELSE Fault
             /\ Becomes(q, IF s.lists = 3 THEN Done(s) ELSE s)
             /\ decimalsCache' =
                  IF s.lists < 3 THEN decimalsCache
                  ELSE [cache |-> [known |-> s.known, ts |-> seconds],
                        spoiltAt |-> IF s.spoilt THEN seconds ELSE decimalsCache.spoiltAt]
    /\ UNCHANGED <<walletVars, process, auth, seconds>>

\* Mutant: a token of no list has the decimals native tokens here have.
decimalsOf_Guess(r) == IF r.coin \in DOMAIN r.known THEN r.known[r.coin] ELSE 0

\* A token of no list has none.
decimalsOf(r) == IF r.coin \in DOMAIN r.known THEN r.known[r.coin] ELSE -1

\* checkMax: the limit is for deposits, withdrawals and top-ups.
Refusal(r) ==
    IF decimalsOf(r) < 0 THEN "uncurated"
    ELSE IF r.tool \in MoneyTools \cup {"top_up_gas_deposit"} /\ r.amount > MaxHuman
         THEN "too much" ELSE "none"

toBaseUnits(r) == r.amount * 10 ^ decimalsOf(r)

units(q) ==
    /\ At_(q, "next", "units")
    /\ LET r == queries[q] IN
       Becomes(q, IF Refusal(r) = "none" THEN Done([r EXCEPT !.base = toBaseUnits(r)])
                  ELSE Thrown(r, Refusal(r)))
    /\ UNCHANGED <<walletVars, process, auth, decimalsCache, seconds, faults>>

\* The recipient is on the allowlist, or not.
recipient(q) ==
    /\ At_(q, "next", "recipient")
    /\ \/ Becomes(q, Done(queries[q]))
       \/ Becomes(q, Thrown(queries[q], "recipient"))
    /\ UNCHANGED <<walletVars, process, auth, decimalsCache, seconds, faults>>

\* PolicyGate takes over.
gate(q) ==
    /\ At_(q, "next", "gate")
    /\ Becomes(q, [queries[q] EXCEPT !.at = "gated"])
    /\ UNCHANGED <<walletVars, process, auth, decimalsCache, seconds, faults>>

\* crossCheckIntent: the draft is stored, or the row removed.
intent(q) ==
    /\ At_(q, "next", "intent")
    /\ \/ Becomes(q, [queries[q] EXCEPT !.at = "held"])
       \/ Becomes(q, CleaningUp(queries[q]))
    /\ UNCHANGED <<walletVars, process, auth, decimalsCache, seconds, faults>>

\* Onboarding and start touch nothing a call reads: the two are explored apart.
WalletNext ==
    \/ \E k \in Keystore \cup {NoKey} : moveKeystore(k) \/ promptPassword(k)
    \/ readKeystoreFile \/ writePassword \/ deleteKeystorePassword
    \/ readPassword \/ fromKeystore \/ authenticate \/ stop

TokensExpire == expireAccess \/ expireRefresh

CallsNext(running, tools) ==
    \/ passes
    \/ \E q \in running :
         \/ \E tool \in tools, vault \in Keystore, coin \in Coin, amount \in {1, MaxHuman + 1} :
              callMcpTool(q, tool, vault, coin, amount)
         \/ request(q) \/ handled(q) \/ unauthorized(q) \/ refresh(q) \/ repeat(q) \/ sendFails(q)
         \/ readsPublic(q) \/ feeLine(q) \/ getTokenDecimals(q) \/ loadTokenDecimals(q)
         \/ units(q) \/ recipient(q) \/ gate(q) \/ intent(q)

-----------------------------------------------------------------------------
Over(r) == r.at \in {"answered", "gated", "held", "thrown"}

\* What the keychain holds has opened a keystore, and a server runs for the owner of
\* one that was opened, whatever files are exchanged meanwhile (onboarding.ts:
\* "verify-before-store").
KeychainOpens ==
    /\ disk.keychain # NoKey => disk.keychain \in opened
    /\ process.owner # NoKey => process.owner \in opened

\* An answer, a request to the gate, a draft is about a vault of the signed-in owner.
OwnVaultsOnly ==
    \A q \in Query : LET r == queries[q] IN
        Over(r) /\ r.at # "thrown" /\ r.tool \in VaultTools => r.vault = process.owner

\* A call ends for want of a session only if the refresh token has expired, or if the
\* very token it was given by its own refresh has, whoever else refreshes at the same
\* time (backend-client.ts:59-63).
RefusedForCause ==
    \A q \in Query : LET r == queries[q] IN
        /\ r.why = "signed out" => ~auth.refresh
        /\ r.why = "unauthorized" => r.mine \in 1 .. auth.dead

\* Amounts leave in the units of the chain.  A listed token is refused only if a list
\* could not be read shortly before (automation-deps.ts:52-58 counts it as empty, index.ts
\* caches that for a minute).
UnitsTrue ==
    \A q \in Query : LET r == queries[q] IN
        /\ r.base # 0 => r.base = r.amount * 10 ^ CoinDecimals[r.coin]
        /\ r.why = "uncurated" /\ (\E i \in 1 .. 3 : r.coin \in DOMAIN TokenLists[i])
              => decimalsCache.spoiltAt >= r.since - DecimalsTTL

\* A backend row made for a proposal ends as a draft or is removed, unless a call that
\* says so got no answer (propose-automation.ts:117-120).
RowsAccounted ==
    \A q \in Query : LET r == queries[q] IN
        Over(r) /\ r.row => r.at = "held" \/ r.why \in {"uncleaned", "unreachable"}

\* The five together: what a tool call may rely on (mcp/src/index.ts).
ToolsServeOwner ==
    KeychainOpens /\ OwnVaultsOnly /\ RefusedForCause /\ UnitsTrue /\ RowsAccounted
=============================================================================
