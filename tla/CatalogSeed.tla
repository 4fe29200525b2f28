----------------------------- MODULE CatalogSeed -----------------------------
(***************************************************************************)
(* From contracts to rows: the two deployment scripts and the file they     *)
(* write (contracts/scripts/deploy-fork.ts, deploy-defi-actions.ts), and    *)
(* the seed that turns file and catalogue into the tables StepType, Recipe  *)
(* and ProtocolToken (backend/prisma/seed.ts).                              *)
(*                                                                         *)
(* A contract's address follows from its deployer's nonce, so a fork that   *)
(* is started again gives the addresses of before to whatever is deployed   *)
(* at those nonces now.  The seed is a list of awaits without a             *)
(* transaction; it may fail at each, and contracts may be deployed while    *)
(* it runs.                                                                *)
(***************************************************************************)
EXTENDS StepCatalog, Functions, SequencesExt

CONSTANTS
    Kinds,       \* the contracts of the step types this instance looks at
    Fallback,    \* *_ADDRESS of the environment, for want of a file; 0 if unset
    OldFile,     \* a deployment file of an earlier version, or NoFile
    NoFile,
    Stops,       \* after how many transactions a deployment may break off
    MaxChanges,  \* bound on deployments, broken off ones and new forks
    MaxFailures  \* bound on failing seeds

VARIABLES
    nonce,           \* of the deployer
    code,            \* the chain: address |-> contract
    file,            \* fork-latest.json: contract |-> address, or NoFile
    changes,
    typeRows,        \* StepType: set of [id, address, selector, name]
    recipes,         \* Recipe: keys
    protocolTokens,  \* ProtocolToken: set of <<protocol, symbol>>
    seed,            \* the seed, its local variables, and what it found
    failures

catalogVars == <<nonce, code, file, changes, typeRows, recipes, protocolTokens, seed, failures>>
chainVars == <<nonce, code, file, changes>>
tableVars == <<typeRows, recipes, protocolTokens>>

ZERO_ADDRESS == 0

stepTypes == SelectSeq(STEP_TYPE_CATALOG, LAMBDA e : e.contractKey \in Kinds)

-----------------------------------------------------------------------------
(* Deployment.  A script is the list of the deployer's transactions: the    *)
(* contract it deploys, or a call.                                         *)

Tx == "tx"

RegistryTxs == <<"FeeRegistry", Tx, Tx, Tx, Tx, "MockPriceOracle", Tx, Tx, Tx>>
VaultTxs == <<"StrategyBuilderVault", "StrategyBuilderVaultFactory", Tx, Tx>>
CoreTxs == <<"TokenBalanceCondition", "IntervalCondition", "TimerCondition",
             "ERC20TransferAction", "FeeDepositAction">>
AaveTxs == <<"AaveV3Registry", "AaveV3SupplyAction", "AaveV3WithdrawAction",
             "AaveV3BorrowAction", "AaveV3RepayAction">>
PancakeTxs == <<"PancakeSwapV3Registry", "PancakeSwapV3SwapAction", "PancakeSwapV3MintAction",
                "PancakeSwapV3IncreaseLiquidityAction", "PancakeSwapV3DecreaseLiquidityAction",
                "PancakeSwapV3CollectAction", "PancakeSwapV3SwapToRangeRatioAction",
                "WickWaitRebalanceCondition">>
\* The test wallet's WBNB; its USDT come from another account.
WalletTxs == <<Tx, Tx>>

ForkTxs == RegistryTxs \o VaultTxs \o CoreTxs \o AaveTxs \o PancakeTxs \o WalletTxs
DefiTxs == AaveTxs \o PancakeTxs

\* The first address is 1: 0 is the zero address.
AddressOf(i) == nonce + i

Deployed(txs) == {i \in DOMAIN txs : txs[i] # Tx}

\* contract |-> address, what a script has learnt by its end.
Learnt(txs) ==
    [c \in {txs[i] : i \in Deployed(txs)} |->
        AddressOf(CHOOSE i \in DOMAIN txs : txs[i] = c)]

Send(txs) ==
    /\ changes < MaxChanges
    /\ changes' = changes + 1
    /\ nonce' = nonce + Len(txs)
    /\ code' = [a \in {AddressOf(i) : i \in Deployed(txs)} |-> txs[a - nonce]] @@ code

deployFork ==
    /\ Send(ForkTxs)
    /\ file' = Learnt(ForkTxs)
    /\ UNCHANGED <<tableVars, seed, failures>>

\* Meant for a base system that runs already: its contracts are on this chain.
deployDefiActions ==
    /\ file # NoFile
    /\ Range(CoreTxs) \subseteq Range(code)
    /\ Send(DefiTxs)
    /\ file' = Learnt(DefiTxs) @@ file
    /\ UNCHANGED <<tableVars, seed, failures>>

\* A transaction fails, or the connection; the file is written last.
deployBreaksOff(n) ==
    /\ Send(SubSeq(ForkTxs, 1, n))
    /\ UNCHANGED <<file, tableVars, seed, failures>>

\* The developer's node is started again.
restartFork ==
    /\ changes < MaxChanges /\ nonce > 0
    /\ changes' = changes + 1
    /\ nonce' = 0
    /\ code' = << >>
    /\ UNCHANGED <<file, tableVars, seed, failures>>

-----------------------------------------------------------------------------
(* The seed.                                                               *)

\* What older files lack, and what no variable names, is not deployed.
loadContractAddresses ==
    [k \in Kinds |-> IF file = NoFile THEN Fallback[k]
                     ELSE IF k \in DOMAIN file THEN file[k] ELSE ZERO_ADDRESS]

NoSeed == [at |-> "idle", i |-> 0, addresses |-> [k \in Kinds |-> ZERO_ADDRESS], kept |-> {},
           found |-> {}, foundRecipes |-> {}]

DeployedTypes(addresses) == {e \in Range(stepTypes) : addresses[e.contractKey] # ZERO_ADDRESS}

begin ==
    /\ seed.at \in {"idle", "done", "failed"}
    /\ seed' = [NoSeed EXCEPT !.at = "steps", !.i = 1, !.addresses = loadContractAddresses,
                              !.found = typeRows, !.foundRecipes = recipes]
    /\ typeRows' = {r \in typeRows : r.address # ZERO_ADDRESS}
    /\ UNCHANGED <<chainVars, recipes, protocolTokens, failures>>

\* An id nobody has, nor had when the seed began.
NewId == CHOOSE n \in 1 .. Cardinality(typeRows \cup seed.found) + 1 :
            \A r \in typeRows \cup seed.found : r.id # n

\* Mutant: the key forgets the selector.
upsertStepType_ByAddress ==
    /\ seed.at = "steps" /\ seed.i <= Len(stepTypes)
    /\ LET e == stepTypes[seed.i]
           address == seed.addresses[e.contractKey]
           same == {r \in typeRows : r.address = address}
           row == [id |-> IF same = {} THEN NewId ELSE (CHOOSE r \in same : TRUE).id,
                   address |-> address,
                   selector |-> IF same = {} THEN e.selector
                                ELSE (CHOOSE r \in same : TRUE).selector,
                   name |-> e.name]
       IN  IF address = ZERO_ADDRESS
           THEN /\ seed' = [seed EXCEPT !.i = @ + 1]
                /\ UNCHANGED typeRows
           ELSE /\ seed' = [seed EXCEPT !.i = @ + 1, !.kept = @ \cup {row.id}]
                /\ typeRows' = (typeRows \ same) \cup {row}
    /\ UNCHANGED <<chainVars, recipes, protocolTokens, failures>>

\* One turn of the loop: skipped if not deployed, else upserted by its key
\* (contractAddress, selector), which no two rows share.
upsertStepType ==
    /\ seed.at = "steps" /\ seed.i <= Len(stepTypes)
    /\ LET e == stepTypes[seed.i]
           address == seed.addresses[e.contractKey]
           same == {r \in typeRows : r.address = address /\ r.selector = e.selector}
           row == [id |-> IF same = {} THEN NewId ELSE (CHOOSE r \in same : TRUE).id,
                   address |-> address, selector |-> e.selector, name |-> e.name]
       IN  IF address = ZERO_ADDRESS
           THEN /\ seed' = [seed EXCEPT !.i = @ + 1]
                /\ UNCHANGED typeRows
           ELSE /\ seed' = [seed EXCEPT !.i = @ + 1, !.kept = @ \cup {row.id}]
                /\ typeRows' = (typeRows \ same) \cup {row}
    /\ UNCHANGED <<chainVars, recipes, protocolTokens, failures>>

\* Mutant: a row stays if some step type has its address.
prune_ByAddress ==
    /\ seed.at = "steps" /\ seed.i > Len(stepTypes)
    /\ seed' = [seed EXCEPT !.at = "recipes", !.i = 1]
    /\ typeRows' = IF seed.kept = {} THEN typeRows
               ELSE {r \in typeRows : \E k \in Kinds : seed.addresses[k] = r.address}
    /\ UNCHANGED <<chainVars, recipes, protocolTokens, failures>>

prune ==
    /\ seed.at = "steps" /\ seed.i > Len(stepTypes)
    /\ seed' = [seed EXCEPT !.at = "recipes", !.i = 1]
    /\ typeRows' = IF seed.kept = {} THEN typeRows ELSE {r \in typeRows : r.id \in seed.kept}
    /\ UNCHANGED <<chainVars, recipes, protocolTokens, failures>>

\* A recipe that does not fit is skipped; a row of an earlier seed stays.
upsertRecipe ==
    /\ seed.at = "recipes" /\ seed.i <= Len(RECIPES)
    /\ seed' = [seed EXCEPT !.i = @ + 1]
    /\ recipes' = IF validateRecipeShape(RECIPES[seed.i], DeployedTypes(seed.addresses)) # {}
                  THEN recipes ELSE recipes \cup {RECIPES[seed.i].key}
    /\ UNCHANGED <<chainVars, typeRows, protocolTokens, failures>>

PANCAKESWAP_BSC_TOKENS == {"WBNB", "USDT", "USDC", "BTCB", "ETH", "CAKE"}
AAVE_BSC_TOKENS == PANCAKESWAP_BSC_TOKENS \cup {"FDUSD", "wstETH"}

\* The upserts of one protocol's list, taken as one: a failure falls between the lists.
upsertTokens(from, protocol, list, to) ==
    /\ \/ from = "recipes" /\ seed.at = "recipes" /\ seed.i > Len(RECIPES)
       \/ from # "recipes" /\ seed.at = from
    /\ seed' = [seed EXCEPT !.at = to, !.i = 0]
    /\ protocolTokens' = protocolTokens \cup ({protocol} \X list)
    /\ UNCHANGED <<chainVars, typeRows, recipes, failures>>

\* An await throws: exit code 1, and the tables as they are.
seedFails ==
    /\ seed.at \notin {"idle", "done", "failed"}
    /\ failures < MaxFailures
    /\ failures' = failures + 1
    /\ seed' = [seed EXCEPT !.at = "failed"]
    /\ UNCHANGED <<chainVars, tableVars>>

-----------------------------------------------------------------------------
\* Rows of an earlier version: one not deployed, and one for each contract of its file.
OldRows ==
    IF OldFile = NoFile THEN {}
    ELSE {[id |-> i, address |-> OldFile[stepTypes[i].contractKey],
           selector |-> stepTypes[i].selector, name |-> stepTypes[i].name] :
             i \in {j \in DOMAIN stepTypes : stepTypes[j].contractKey \in DOMAIN OldFile}}
         \cup {[id |-> 0, address |-> ZERO_ADDRESS, selector |-> "execute",
                name |-> "PancakeSwap V3 Swap"]}

CatalogInit ==
    /\ nonce = 0 /\ code = << >> /\ changes = 0
    /\ \/ file = NoFile /\ typeRows = {}
       \/ file = OldFile /\ typeRows = OldRows
    /\ recipes = {} /\ protocolTokens = {} /\ seed = NoSeed /\ failures = 0

CatalogNext ==
    \/ deployFork \/ deployDefiActions \/ restartFork
    \/ \E n \in Stops : deployBreaksOff(n)
    \/ begin \/ upsertStepType \/ prune \/ upsertRecipe \/ seedFails
    \/ upsertTokens("recipes", "aave", AAVE_BSC_TOKENS, "pancakeswap")
    \/ upsertTokens("pancakeswap", "pancakeswap", PANCAKESWAP_BSC_TOKENS, "done")

-----------------------------------------------------------------------------
\* A seed came to its end, and read what is in the file now.
Seeded == seed.at = "done" /\ seed.addresses = loadContractAddresses

Entry(r) == CHOOSE e \in Range(stepTypes) : e.name = r.name

\* The file names contracts of this chain.
FileHolds == file # NoFile /\ \A c \in DOMAIN file : file[c] \in DOMAIN code /\ code[file[c]] = c

\* After a seed each deployed step type has one row, at its current address, whatever
\* earlier deployments, recycled addresses and failed seeds have left (seed.ts:125-183),
\* and on a chain that is still the file's that address holds its contract.
RowsAreDeployment ==
    Seeded /\ seed.kept # {} =>
        /\ {<<r.address, r.selector, r.name>> : r \in typeRows} =
               {<<seed.addresses[e.contractKey], e.selector, e.name>> :
                   e \in DeployedTypes(seed.addresses)}
        /\ Cardinality(typeRows) = Cardinality(DeployedTypes(seed.addresses))
        /\ FileHolds => \A r \in typeRows : code[r.address] = Entry(r).contractKey

\* A draft refers to its steps by these ids: a row whose contract is where it was keeps
\* its id (seed.ts:144-161).
IdsKept ==
    seed.at = "done" =>
        \A r \in seed.found :
            (\E e \in DeployedTypes(seed.addresses) :
                e.selector = r.selector /\ seed.addresses[e.contractKey] = r.address)
                => \E q \in typeRows : q.id = r.id /\ q.address = r.address /\ q.selector = r.selector

\* A seed delivers the recipes that can be built from what is deployed; any other one
\* is left from an earlier seed (seed.ts:185-212).
RecipesExpressible ==
    seed.at = "done" =>
        LET fits == {recipe.key : recipe \in {q \in Range(RECIPES) :
                \A i \in DOMAIN q.nodes : \E e \in DeployedTypes(seed.addresses) :
                    e.name = q.nodes[i].stepType}}
        IN  recipes = fits \cup seed.foundRecipes

\* The shipped catalogue contradicts no contract, every recipe fits it, and the
\* deployment deploys all of it (catalog-integrity.ts, recipe-seed-data.ts:6-7).
CatalogClean ==
    /\ \A e \in Range(STEP_TYPE_CATALOG) :
          checkCatalogIntegrity(e) = {} /\ e.contractKey \in Range(ForkTxs)
    /\ \A recipe \in Range(RECIPES) : validateRecipeShape(recipe, Range(STEP_TYPE_CATALOG)) = {}

\* The four together: what the editor and the assistant are offered is what the vaults
\* can run (backend/prisma/seed.ts).
CatalogSound == RowsAreDeployment /\ IdsKept /\ RecipesExpressible /\ CatalogClean
=============================================================================
