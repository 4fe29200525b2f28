# A formal model of strategy-builder-v2

strategy-builder-v2 lets a user own a smart-contract vault and program it with
automations: directed graphs of conditions and actions that anyone may execute
when the trigger is met, and that pay the executor from a pre-funded deposit.
Around the contracts stand a keeper script, a backend that encodes strategies
and indexes what happened on chain, a web frontend and an MCP server through
which an AI agent works for the owner.

This directory models the parts of it in which money, schedules, sessions and
what people are told can go wrong: TLA+ modules, TLC runs on small instances,
and TLAPS proofs for every instance. Paths below are relative to
`src/packages/`.

## 1. Inventory

### On chain

| Component | State | Operations | Correct means |
|---|---|---|---|
| `FeeRegistry.sol` | `_tokens`, two fee rates, gas configuration, `vaultDeposits`, `collectedFees`, owner, one ERC-20 balance per token shared by all | deposits, withdrawals, `collectFee`, `deductGasComp`, `withdrawFees`, configuration | one vault never spends another's deposit; the charge is never above the estimate; nothing underflows |
| `StrategyBuilderVault.sol` | owner, `_automations`, `_ctx` (slots shared by all automations), `_minFeeDeposit`, its tokens | deposit, withdraw, `depositFees`, create and update automations, `setContext`, `executeAutomation` | a run stays in its step array and ends; a stranger moves money only through a met trigger; only somebody else's triggered run is paid for |
| Conditions and actions (`contracts/examples`) | none of their own: schedules live in the vault's context, actions run by delegatecall on the vault's money | `check`, `afterExecution`, `execute` | intervals do not drift, a timer fires once, cooldowns hold |
| Aave and PancakeSwap actions | positions in external protocols | supply, borrow, repay, withdraw, swaps, LP | the sizing and health-factor arithmetic does what the comments say and asks for no amount the protocol refuses |
| `StrategyBuilderVaultFactory.sol` | implementation, registry, list of vaults | `createVault`, upgrades | every listed vault was created by it and initialised once |
| Deployment scripts (`deploy-fork.ts`, `deploy-defi-actions.ts`) | a file of addresses | deploy and write | the file names contracts of this chain |

### Off chain

| Component | State | Operations | Correct means |
|---|---|---|---|
| Keeper script (`contracts/scripts/execute-automations.ts`) | counters of one pass | scan active automations, `isTriggerMet`, execute, report failures | nothing due is left out, what it reports is so |
| Execution indexer (`backend/src/indexer`) | cursor row, `Execution`, `VaultEvent`, `ProtocolFlow` rows, an in-memory loop | boot, seed, tick: plan, fetch, persist, push, advance | history without gaps, duplicates or reorganised logs; live push at most once; it catches up after failures |
| Failure ledger (`failure-ingest.service.ts`, schema) | `ExecutionFailure` rows, at most one open per automation | report handlers; the indexer's resolution | no lost attempt, one open row, open exactly while the automation is failing |
| Automations, slots, encoding (`backend/src/automation`) | drafts and deployed automations, a slot table per vault, a 30-second status cache | save, encode, confirm, reconcile, delete | two names never share a slot; encoding does not undo a running schedule; a live automation is never orphaned; steps link as the graph does |
| Vaults and authentication (`backend/src/vault`, `auth`) | rows, labels, nonces, tokens | register, verify, refresh, sign out | a created vault is registered; a session acts as the account it shows |
| Cockpit and portfolio (`backend/src/cockpit`, `portfolio`) | caches of 30 s and 60 s, hourly snapshots, events | value, snapshot, prune, performance, history | each token counted once; a deposit is never a profit |
| Catalogue (`backend/prisma/seed*`) | `StepType`, `Recipe`, `ProtocolToken` rows | seed after each deployment | rows name deployed contracts and keep their ids; shipped recipes can be built |
| MCP server (`mcp/src`) | keystore and keychain, one session, decimals cache, pending approvals, one-shot drafts, audit file | onboarding, tools, `guard`, redeem, cancel, propose, deploy | nothing is signed without its approval, once, in time; every outcome is audited; a draft does what the agent declared |
| Frontend (`frontend/src`) | editor store, forms, context variables, local storage, panels | edit, deploy, register, fund, look | what the user sees saved is saved; a form shows what will be deployed; a panel at rest shows what was asked |
| Shared (`shared/src`) | none | validation, friendly-to-raw conversion | what is accepted converts, and means what was typed |

### How they interact

```
user/MCP ── tx ──> Vault ── calls ──> FeeRegistry
                     ^  └─ staticcall/delegatecall ─> conditions, actions
keeper ── executeAutomation ┘
keeper ── failure report ──> backend: ExecutionFailure <── resolves ── indexer
chain ── logs (confirmed blocks) ──> indexer ──> rows ──> REST, websocket push
user/MCP ──> backend: drafts, slots, encode ──> calldata ──> tx ──> confirm
deployment ──> file of addresses ──> seed ──> step types ──> editor, agent
agent ──> MCP tool ──> gate ──> owner's answer ──> tx, audit entry
```

### What is hard

* A vault's context is one array written by every automation's actions, by every
  `afterExecution`, and by the owner, in any order and at any time.
* A run is committed or dropped as a whole, yet it may fund the deposit from
  which it is charged at its end.
* The deposits of all vaults lie in one balance per token.
* The indexer reads head, vault set, logs and rows at four different moments of
  a chain that reorganises, writes three tables and a cursor separately, and may
  be killed or fail between any two of them.
* The keeper reports a failure at once, the indexer learns of a success
  `confirmations` blocks later; both write the same rows.
* Deployment, funding, registration and the seed are lists of transactions and
  calls, each of which may fail, or succeed without an answer, after the
  previous one took effect.
* Nothing in the browser cancels a request: answers overtake each other and
  arrive for an earlier page, range, session or draft.
* The owner's approval and its timeout race; the owner is asked minutes before
  the transaction, about a draft whose step types may have been seeded anew.
* A value crosses four representations: what is typed, the friendly field, the
  raw parameter in base units, and the integer arithmetic of the action.

`PROJECT.json` lists these as hazards, each at its line, with the properties that
would notice.

## 2. Plan

1. **Money and runs** (modelled, checked, proved): `FeeLedger`,
   `FeeRegistry`, `StepTargets`, `StrategyBuilderVault`.
2. **History** (modelled, checked, proved): `RangePlanner`, `FailureLedger`,
   `Indexer`, with `HistoryFeed` as the abstract specification it implements;
   `LiveHistory` for the reader's end.
3. **Deployment** (modelled, checked; `DeployFlow`, `EditorDraft` and
   `ContextVariables` proved): `DeployFlow`, `GraphCompiler`, `EditorDraft`,
   `ContextVariables`, `StepForm`.
4. **Approvals and sessions** (modelled, checked; gate, session and server
   proved): `PolicyGate`, `McpServer`, `IntentCheck`, `Session`, `Registration`.
5. **Pure algorithms** (modelled, checked; both action modules proved):
   `AaveActions`, `PancakeActions`, and the validation and conversion operators
   of `StepForm`, `StepCatalog` and `IntentCheck`.
6. **Loops, stores and screens** (modelled, checked, all but the catalogue
   proved): `Keeper`, `Cockpit`, `LpPositions`, `Panels`, `Funding`,
   `CatalogSeed`.

What stays with TLC, and why, is in section 5.

Left to model: `withdrawETH`, NFTs and native value of the vault, proxy upgrades
of the factory, and the composition of `DeployFlow` with the vault's full run
semantics (now an environment event that moves armed schedules).

## 3. Modules

| Module | Models | Correspondence |
|---|---|---|
| `FeeLedger` | the money as a value | a record `[bal, dep, fees]`; every registry call and ERC-20 transfer is an operator on it, a revert is a false guard. `Fee`, `ComputeGasComp`, `EstimateGasComp` keep Solidity's integer divisions; `BPS` and `WAD` are constants so that they stay meaningful on small numbers |
| `FeeRegistry` | `FeeRegistry.sol` | one action per external function; oracle answers and gas are inputs, 0 also stands for a failing oracle. `transfer` is a token transfer past the registry |
| `StepTargets` | conditions and actions | `check` is the set of verdicts it may return (empty: reverts), `execute` the set of results, `afterExecution` a function on contexts |
| `StrategyBuilderVault` | the vault beside the registry | `frame` is the open transaction: memory context, `current`, `stepCount`, `triggerFired`, `ctxDirty`, and the money as moved so far. `commit` writes it back and settles the gas, `Revert` drops it. Steps and slots are numbered from 1 |
| `AaveActions` | the four Aave actions | one step per call of the pool: mode resolution, target arithmetic, no-op rules, then what the pool accepts; prices move between steps |
| `PancakeActions` | the six PancakeSwap actions | ticks and rounding, sizing of the swap to the ratio of the range, minting, shares of an existing position; `TickMath` is a table |
| `Keeper` | `execute-automations.ts` | `pass` says which call of the pass is next; owners, other keepers and the clock move in between. `RevertOf` is `executeAutomation` as far as a caller sees it: refused, ended well, or reverted in one of the ways of `Ending`; `Reported` sends nothing without the secret and may be lost; `decodeRevert` gives the reason that is stored |
| `RangePlanner` | `range-planner.ts` | `Plan` and `Halve`, as functions to sequences of windows |
| `FailureLedger` | `ExecutionFailure` and its ingest | a report handler is `receiveReport` (find the open row) and then `updateOpenRow`, `createRow` or `createConflicts` (the partial unique index) |
| `Indexer` | `indexer.service.ts`, cursor store | `loop.pc` is the next await of the process; one action per database or RPC call, `fetchRejected`, `protocolFlowsFail` and `tickFails` for calls that throw, `crash` for a kill. The chain is a sequence of sets of logs; `reorg` replaces up to `Confirmations` blocks at the tip |
| `HistoryFeed` | nothing: the promise | confirm, begin, publish, pass |
| `LiveHistory` | history table, socket hook, gateway, paged query | a request is sent, answered and shown in three steps; rooms, pushes, polling, lost connections |
| `DeployFlow` | `automation.service.ts`, `context.service.ts`, `encoding.service.ts`, `trigger-status.service.ts`, the delete handler, and the clients `deploy-dialog.tsx` and `mcp/src/chain.ts` | a session is a client together with its request; `pc` is its next database call, chain read or transaction, so that `allocateSlots` is `readSlots` then `writeSlots`, a reconciliation `tryReconcile` then `linkDraft`, a deletion `checkStatus` then `remove`. A slot holds a time, or 0 for `0x` |
| `GraphCompiler` | drawing, `validate-graph.ts`, `encode` and `bfs` of `encoding.service.ts`, `_validateSteps` | a graph is built edit by edit with the store's own rules (copies, reloads, repeated ids), then compiled by operators |
| `EditorDraft` | editor store, `use-auto-save.ts` | a draft is a version number; PATCH requests are sent, served and answered in any order |
| `ContextVariables` | `contextVariables` of the store, both loads, context panel, input and output fields | a variable is a slot with a name; the canvas holds one step with a field of each kind |
| `Editor` | the editor page | `EditorDraft` and `ContextVariables` side by side, and `EditorKeepsWork`, which is about both |
| `StepForm` | `dynamic-form.tsx`, `validation.ts`, `encode-boundary.ts`, `ticks.ts`, `use-pool-validity.ts` | the forms of a mint, a supply and an interval step: what the inputs show is state of its own, apart from the store's parameters; validation, conversion and tick arithmetic are operators |
| `StepCatalog` | seed data, `catalog-integrity.ts`, `recipe-validation.ts`, `step-roles.ts` | the sixteen step types and the recipes as sets of records, the guards as operators |
| `CatalogSeed` | deployment scripts, `seed.ts` | a seed is one await after another, with deployments, restarts of the chain and failures in between |
| `Registration` | `createVault`, `use-create-vault.ts`, `vault.service.ts` | a registration is four database calls; answers are lost, requests repeated |
| `Session` | `auth.service.ts`, `auth-context.tsx`, `api.ts` | a token is the account it was issued to; it may expire at any time |
| `Funding` | create wizard, deposit and withdraw forms, gas card | a run is a list of transactions planned from what the page knew; wallets refuse, receipts are late |
| `Panels` | dashboard, performance card, chart, positions panel, context view | each panel has its requests under way, what it shows, and whether it spins |
| `Cockpit` | valuation, portfolio, snapshots, performance, history sampling | a valuation is one read after another through caches; `flaws` names the failures that were swallowed |
| `LpPositions` | `pancake-v3.adapter.ts` | one call per id, position, fees and price; on `PancakeActions`' tick arithmetic |
| `PolicyGate` | `policy-gate.ts`, `confirmation.ts`, `draft-store.ts`, `wallet-signer.ts`, audit log | a call is a `pc`; approval, timeout, the page's server and the audit file's failures are actions |
| `McpServer` | onboarding, keystore, `backend-client.ts`, every tool | a tool is a list of calls and checks, given by `Served`; a query is one call of a tool |
| `IntentCheck` | `propose-automation.ts`, `summary-decoder.ts`, `intent-check.ts`, `deploy-automation.ts` | the graph the agent writes, its way to base units and back, the comparison, the inspection at deployment |
| `MC*` | instances | constants, and which parts are explored side by side |
| `FeeRegistryProofs`, `VaultProofs` (money, schedules), `IndexerProofs` (indexer, failures), `KeeperProofs`, `ClientProofs` (gate, session, server), `BrowserProofs` (deployments, history table, funds), `EditorProofs`, `BooksProofs` (positions, mints and sales, valuations and profits, panels) | proofs | section 6 |

`StrategyBuilderVault` composes `FeeRegistry` (by EXTENDS, with `registryTx` for
everybody else's calls between vault transactions) and `StepTargets`. `Indexer`
composes `RangePlanner` and `FailureLedger`: the indexer's `persist` stores
successes and resolves failures in one step, as its transaction does.
`LpPositions` stands on `PancakeActions`, `CatalogSeed` on `StepCatalog`.
The step from a tool's guarded request in `McpServer` to the gate is the
boundary to `PolicyGate`: the former ends with the request, the latter begins
with it.

**Parts.** `MCBooks`, `MCBrowser`, `MCClients`, `MCStrategies`, `MCVaultRun` and
`MCVaultSchedule` explore several modules side by side: `part` is chosen by the initial state, the
other modules' variables stay as they begin. These modules share no state in the
program, or only state that each models as moved by an environment (the chain
under `Cockpit`, the session under `PolicyGate`), so a product of their
behaviours would show nothing a part does not, and would be too large to explore.

**History variables** are not program state, and no guard of the program reads
them: `fires` (when a trigger fired since its slot was last written by somebody
else), `owed` (which logs the indexer has to record), `accepted`, `raced`,
`refused`, `seen`, `stale`, `quiet`, `flaws`, `mine`, `loose`, `stray` and others
marked "history" at their declaration. Most of them name the exceptions of a property: the places
where the code has no protection. `raced` and `stale` in `DeployFlow`, for
instance, mark an allocation that overwrites slots it has not read and a context
transaction that is lost or replaces a longer context than the encoder saw. The
property then says that nothing else breaks what is promised, and section 7
says what happens in those places.

Definitions whose name has a suffix (`Charge_Everybody`) are deliberate
mistakes. No specification uses them: each shows that some property would
notice the mistake.

## 4. Runs

| Run | Question | Result |
|---|---|---|
| `books` | Can any order of calls make the registry insolvent, underflow, pay unbooked tokens or charge more than estimated? Do valuations, profits, position rows and panels tell the truth while caches age, reads fail and requests overtake each other? | the registry stays sound; the rest is true outside the conditions its properties name |
| `vault_money` | Do branching, looping, self-funding automations keep bounds, solvency and the owner's money, for owner, keeper, changing rates and owners? Does a mint's range hold the tick, and is the sale before it sized to the range? Does a keeper's pass try everything that was due, count right and report what is so, while others use the vaults, answers and reports are lost, and runs revert in steps, at the step limit, for gas and at their settlement? | yes, outside the named conditions |
| `vault_schedule` | With two automations on shared slots, re-armed, edited, paused and reverted for want of a gas deposit: do intervals keep their schedule, timers fire once, cooldowns hold, and does every run end, also one that loops back to its trigger? Do the Aave actions ask for what the pool accepts and reach their targets? | yes, the Aave actions outside the named conditions |
| `vault_pages` | While two clients deploy, edit, open and delete drafts that look alike: do slots stay apart, does a context cover its automations, do other schedules survive, is an automation linked to one row, is a public row deleted only when its automation was recently not active or not readable? Is an owner told the truth about money moved, and does the history table keep up? | yes, outside the named races |
| `deploy_orphan` | Does deletion never orphan a live public automation, as `automation.controller.ts:196-197` says? | no: the status cache may be older than the automation, and an automation without a status counts as inactive |
| `indexer_feed` | Is the history on the canonical chain, gapless, pushed at most once, and complete in the end, under a reorganisation, late registration, failing calls and a kill? Does the indexer implement `HistoryFeed`? | yes |
| `failures` | Do racing reports and the indexer's transaction keep one open row, lose no attempt, and close exactly the automation's own failures? | yes |
| `failure_older_success` | Is a failure closed only by a success that ran after it, as `schema.prisma` says ("when the automation next succeeds")? | no: the indexer lags, so an older success indexed after the report closes it |
| `failure_not_reopened` | Does a later failure open a fresh row, as `schema.prisma` says? | no: a report that found an open row updates it by id after the indexer has resolved it |
| `clients` | Is nothing signed without the owner's answer to this very call, and no draft twice? Can the audit file be believed, does asking end? Do tools act for their owner, in the chain's units, whatever tokens expire? Does the page act as the account it shows? Does a created vault get registered? Are the rows of the catalogue those of this chain's contracts? | yes, outside the named conditions |
| `strategies` | Is what the editor shows as saved saved, if no PATCH was under way when it was changed? Does a dirty draft have its save ahead of it, and is no variable lost to the order of loads? Is what a form shows what the step gets? Does a compiled array walk the graph? Does a draft do what its agent declared? | yes, outside the named conditions |
| `editor_unmount` | Is a dirty draft saved when the editor is left, as the comment in `use-auto-save.ts:51` says? | no: the effect only clears the timers |

Five invariants are conjunctions of parts that speak about one subject:
`SlotsSound` (`SlotsDistinctUnlessRaced`, `SlotsCoveredUnlessStale`),
`SchedulesKept` (`IntervalPaced`, `TimerOncePerStart`, `CooldownRespected`),
`RowsExact` (`RowsFromChain`, `NoGap`), `LedgerExact` (`OneOpenFailure`,
`AttemptsAccounted`), `SignedAsAgreed` (`SignedOnlyIfApproved`,
`DraftDeployedOnce`). `CatalogSound`, `ToolsServeOwner`, `DraftsHonest`,
`FormTellsTruth`, `CockpitTellsTruth`, `PanelsTellTruth`, `FundsTellTruth`,
`EditorKeepsWork` (`CleanMeansStored`, `DirtyGetsSaved`, `VariablesKept`) and
`KeeperServes` (`EveryDueTried`, `OutcomeTrue`, `ReportsTrue`, `CountsTrue`) are
built the same way; the mutants of each break its different parts.

### Bounds, and why they are enough

* **Registry**: one token (tokens do not interact in any function), two vaults,
  the owner and the registry; two units per vault, so that one vault's
  withdrawal can reach into the other's money. `BPS = WAD = 2` with prices 0 and
  2, token units below and above `WAD` and gas prices below and above the cap
  take every branch of the gas formula and make both divisions round.
* **Cockpit**: one token and one reserve; moves of 2, ranges of one interval, a
  retention of one interval, three events, a clock of two intervals: a snapshot
  of the beginning is pruned at the end. A range whose baseline is gone is judged
  only if nothing happened before it (`Aligned`). **Positions**: four NFTs (empty,
  closed with fees, two ranges), one shift of the market or of the holdings
  during a read, legs with and without a price. **Panels**: two requests under
  way and two knobs turned, so that answers overtake; four moments, three points
  kept of the chart, two lengths of range.
* **`vault_money`**: `MAX_STEPS = 3` runs out on the looping program; programs
  cover a condition first and an action first, both branches, a self-funding
  loop, an amount read from a slot, a rejected dangling branch. One automation
  suffices, as runs of several are sequential and share only money and context,
  which the owner's other calls already change. **PancakeSwap**: ticks
  -3..3 with spacing 3, so that both sides of zero and of the grid occur, a table
  of prices, funds of 0, 9 and 30. The guard `SqrtPriceTooHigh`
  (`PancakeSwapV3SwapToRangeRatioAction.sol:98`) is left out: it is about prices
  above 2^128, which neither grid nor table has, and where the real action reverts
  the properties, which are about steps that went through, say nothing.
  **Keeper**: two vaults, one with a public and an owner-only automation and one
  without any, to which others may add some, of a stranger or of the executor
  itself; two moves of others during the pass, and a run that may end in each of
  `Ending`'s ways. One vault with work shows the loop over automations, the
  other the loop over vaults and the jump over an empty one; one move is enough
  for each of the three calls about an automation to see something else, the
  second undoes the first.
* **`vault_schedule`**: time 1..4 with intervals of 1 and 2 allows late, bunched
  and repeated runs. One program loops back to its trigger until a second
  interval holds and then writes the trigger's own slot, a timer's action writes
  a slot that a cooldown uses, and two automations share a slot; four steps let
  the loop close once. Nobody deposits for gas, so that once the registry's owner
  has configured the compensation a keeper's run reverts at its end
  (`commitReverts`) and has to leave the schedules alone. **Aave**: two assets,
  thresholds, targets and prices on a scaled grid (`Unit`, `Norm`, `Bps`, `Wad`
  stand for the powers of ten) on which every division of the code rounds.
* **Deployment**: two sessions, as every race here is between two requests; a
  draft of the editor and one of the MCP server with the same number of steps
  and the same first contract, so that a reconciliation can take the other's
  automation; two deployments, one clock step (the cache lives one), and one
  event of the kind run, toggle, failing read, reverted context transaction or
  abandoned session. `deploy_orphan` needs one session only.
* **Funding**: two runs, sums of 2 out of a wealth of 3, fee rates of a half (the
  smallest numbers on which a fee is visible), one move of somebody else, two
  reads of the page under way. The setup wizard, each form and the gas card are
  explored separately, since a page shows one at a time. **History table**: pages
  of one row, two rows, two reads under way, two turns of a page or filter.
* **Indexer**: two vaults, one registered late; four blocks with
  `Confirmations = 1` and `MaxRange = 2`, so a tick has two windows and a window
  has two halves; one reorganisation, one kill, two failing calls, so a retry
  may fail as well. Fewer blocks never give a second window. **Failures**: two
  handlers, three reports (a third is needed to reopen), two vaults whose
  automation has the same id.
* **Gate**: two calls of one draft; the tools are one that deploys a draft, one
  that always asks and one that may be pre-approved, which between them take
  every path through `guard`. **Session**: two accounts, two requests, three
  sign-ins. **Registration**: two vaults of one owner, one retry, two handlers of
  the backend, labels that collide with a default. **Catalogue**: the guards are
  evaluated on all sixteen step types; the state machine seeds five of them,
  with every kind of dependency between a recipe and its steps, two changes on
  chain and one failure; a restarted chain hands out old addresses again.
* **Server**: one call of every tool with expiring tokens; two `get_portfolio`
  calls that share the session; two `simulate_action` calls that share the
  decimals cache; one failing call, three tokens issued.
* **Editor**: two edits, two visits, two requests under way, two undo snapshots.
  **Context variables**: one automation opened twice, two slots and names, two
  edits, allocations by other deployments at any time. A third edit finds nothing
  that two do not: checked apart, to the depth that fits the time.
  **Forms**: three acts after mounting, price ticks of powers of three, tokens
  with 0 and 1 decimals (so that precision can be exceeded), one request per step
  type under way. **Graphs**: every graph of up to three nodes and three edges that the
  editor's own operations build, with one imported edge. **Proposals**: a
  condition and up to two actions out of five, tokens with 0 and 1 decimals.

Reorganisations are no deeper than `Confirmations`. This is the assumption the
setting stands for; a deeper one defeats the design and no property claims
otherwise.

`CHECK_DEADLOCK FALSE` is set where the run may really stop: when the bounded
chain is full and everything is indexed, when all rows are deleted, when the
bounded number of edits, visits, calls or movements is used up. The vault's runs
check for deadlock.

### Fairness

* `WF(Run)` in the vault: a transaction that has begun is executed to its end by
  the EVM. Nobody is assumed to call `executeAutomation`.
* `WF(LoopStep)` in the indexer: `scheduleNext` re-arms the loop after every
  tick, failed or not, an await whose call does not fail returns, and a killed
  process is restarted by its supervisor. Faults, reorganisations and kills need
  no fairness and are bounded, so they are finitely many. A failure during
  startup leaves the loop unstarted (`indexer.service.ts:100-116`); the liveness
  property names this state as its exception.
* `GateFairness`: the timers of the confirmation fire, and the gate's own steps
  are taken. The owner is not assumed to answer, nor the page's server to start.
* `RegistrationFairness`: requests are sent, and the backend serves those it has
  received to an end; answers may be lost, and the user may leave.

## 5. Properties that are model-checked only

* **Liveness**: `RunEnds`, `EventuallyRecorded`, `AskEnds` and
  `VaultGetsRegistered`. Fairness and ENABLED are out of the prover's reach.
* **Concrete data**: `CatalogSound` is about the sixteen step types and the
  recipes as they are written, and about addresses that a restarted chain hands
  out again; there are no parameters for a theorem to range over.
* **Traversals**: `CompiledKeepsFlow` and `DraftsHonest` compare what a breadth-first
  search and a walk over declared intents compute with a declarative reading.
  Their statements are inductions over the graph and the list; induction is
  available here only through a least counterexample, which served for sums
  (section 6) and was not carried out for these.
* **Arithmetic of the forms**: `FormTellsTruth` is checked for every value of a
  grid on which every conversion rounds; it is about decimal digits and logarithms
  of prices, which the provers know nothing of.

No module has a RECURSIVE operator.

## 6. Proofs

All theorems hold for every value of the constants that satisfies the named
assumptions. On chain (`FeeLedgerAssumption`, `FeeRegistryAssumption`,
`VaultAssumption`) these admit any tokens, a finite set of accounts, any amounts,
prices, rates up to the ceiling, and any step arrays the owner may try to deploy;
the finiteness of the accounts is needed for sums to exist, and the vault is
neither the registry nor its own first owner. Off chain the constants have their
types: any vaults, logs and settings of the indexer (`IndexerAssumption`), any
drafts and number of sessions (`DeployAssumption`), any tools, calls and wallets
(`GateAssumption`, `SessionAssumption`), any fleet of vaults with up to three
automations each (`KeeperAssumption`), any amounts and fee rates
(`FundingAssumption`), any gross values and ranges (`CockpitAssumption`,
`PanelsAssumption`). `EditorAssumption` and `VariablesAssumption` say that bounds
are naturals and that the empty text is no name. `McpAssumption`: a token list
gives a token the decimals its contract has. `TicksAssumption`: the price of a
tick is positive and grows with the tick, for the ticks that occur and the next
one; `RangesAssumption`: the ranges asked for lie in the table, outside of which
`TickMath` reverts; `PositionsAssumption`: an NFT's lower tick is below its upper
one. `AaveAssumption`: finitely many assets, prices and units above 0, and a
liquidation threshold for every asset the pool counts as collateral. The bounds of TLC's instances (blocks, faults, deployments, sign-ins, edits,
requests) are any naturals.

* **Sums.** The total of a book is the cardinality of a set of units, so that
  "total after a credit" is a fact about finite sets (`TotalCredit`,
  `TotalDebit`) rather than an induction.
* **Registry.** `RegistrySolvent` alone is inductive only together with typing.
  Each call is shown to *keep the surplus*: balance minus books does not shrink
  (`TransferKeeps`, `CollectFeeKeeps`, `DepositForKeeps`, `PayFromDepositKeeps`,
  `WithdrawFeesKeeps`, collected in `StepKeeps`). This gives
  `RegistryTypeCorrect`, `RegistrySurplusNeverSpent` and, as the surplus starts
  at 0 or more, `RegistryStaysSolvent`.
* **Vault.** The inductive invariant is
  `Inv == TypeOK /\ RunOK /\ SurplusOK /\ StrangerOK /\ Solvent(ledger)`.
  `RunOK`: stored step arrays are valid and `current` is in bounds; without it
  nothing types the next step. `SurplusOK`: the ledger of an open run has at
  least the surplus of the committed one; without it a commit could replace a
  solvent ledger by an insolvent one. `StrangerOK`: a stranger's run that is
  past its first turn had its trigger met; a first step that is an action, an
  owner-only automation and a loop back to step 1 are the cases it has to
  exclude. There is one lemma per action. The theorems are `VaultTypeCorrect`,
  `RunsStayInBounds`, `VaultStaysSolvent` and `StrangersNeedTheTrigger`.
* **Charges.** `EstimatesCoverCharges` needs no invariant beyond typing; it is
  arithmetic. The estimate and the charge round at the same two divisions, and
  each division is monotone, so a capped gas price gives no larger a result.
* **Deposits.** `DepositsPayOnlyKeepers` follows a whole run: at every step the
  frame's deposit is at least the committed one, and only `commit` settles, for a
  triggered run of somebody else, in the vault's deposit token.
* **Schedules.** `SchedulesAlwaysKept` rests on `ScheduleInv`, which is `Inv`
  with two conjuncts. `ScheduleOK` ties the log of a trigger's firings to the
  value its slot has now (after k firings an interval stands at start + k times
  its length, a fired timer at 0, a cooldown at its last firing). `RunContextOK`
  says what a run knows: while nothing is dirty its memory context is the
  committed one, and a trigger that has fired was met on the committed context,
  which nothing changes before the run's end. It matters that an action may write
  the trigger's own slot in the run the trigger began: the log then restarts from
  the value written, as it does for a write by the owner.
* **Indexer.** `IndexerInv` says why neither the chain nor the registrations that
  move under the loop matter. `ChainOK`, `OwedOK`, `RowsInChain`: what is owed or
  recorded lies in settled blocks, which a reorganisation does not reach.
  `WindowsOK`: the windows still to be scanned follow the cursor without a gap
  and end in a settled block (`PlanFollows`, `HalvesCover`: the planner's windows
  begin at `cursor + 1`, join up and stop at the safe head, and the two halves
  of a rejected window are that window). `KnownOK`: what becomes due during a tick
  lies behind the tick's last window, so a vault list read earlier is good
  enough. `FetchOK`: what is missing of the window is in the calls still to be
  made. `WrittenOK`, `FreshOK`: the tables are written before the cursor moves,
  and only new successes are pushed. The theorems are `HistoryExact`,
  `SuccessPushedOnce` and `IndexerImplementsFeed`, which maps the confirmed
  part of the chain, the tables and the cursor to the variables of `HistoryFeed` and shows every step of the
  loop to be one of its steps or a stutter.
* **Failures.** The unique index alone keeps one open row per automation. That no
  attempt is lost needs that a handler between its read and its update holds the
  id of a row of its own automation (`HandlersOK`); that the row may have been
  closed meanwhile is harmless for the count, as the update is by id. The rows'
  attempts are added up as the cardinality of a set of pairs, as the books are.
  The theorem is `LedgerStaysExact`; `FailuresCloseWithSuccess` is about the one
  step that closes rows.
* **History table.** What a request will bring is fixed when the database answers
  it, and other answers, pushes and turns of the page pass before it is shown.
  `LiveInv` gives each answer the rows it was taken from (`AnswersOK`) and says of
  the newest request, until an older answer comes after it, that it asks for the
  page on the screen, and that the page was told, or will be, of every row stored
  since it was answered, unless nobody was (`NewestOK`). The theorem is `TableTellsTruth`.
* **Keeper.** `KeeperInv` divides the automations by the place of the pass: those
  it has not reached are as they were (`Untouched`), those behind it have an
  outcome and, if it got through, a report that is so (`Handled`), the one in
  hand is between its calls (`HereOK`). `Intact` and `SkippedRightly` tie an
  outcome to what others did meanwhile. The three counters are cardinalities of
  sets of automations. The theorem is `KeeperAlwaysServes`. Of a failure it says
  that the run was not made and, if nobody touched the automation since its flags
  were read, that it fails of itself: in a step, at the step limit, at the
  context's bounds, for gas or at the settlement, but not because it was inactive,
  owner-only or unmet, which the keeper had looked at. It does not say that a
  failure is the fault of a step, which is false of a vault without a deposit,
  nor that a failure is reported.
* **Deployment.** A session carries copies of shared state through several
  awaits, and `DeployInv` says what is still true of each: a slot table that was
  read is a prefix of the stored one unless an allocation was lost (`raced`), a
  context is no longer than the one it replaces unless a write was lost
  (`stale`), a row's automation exists, and a status that does not say active was
  quiet no longer ago than the cache allows (`CacheOK`, `QuietNow`). Without the
  copies in the invariant nothing is known at the moment they are written back.
  The theorems are `DeployedSlotsSound`, `RowsLinkedOnce`, `DeletionsWereQuiet`
  and `DeploysKeepSchedules`.
* **Gate.** `GateInv` says for every phase of a call what its record may look
  like, so that each step is about one call (`CallMoves`). What calls share is in
  `PagesOK` (a page is open only for a call that waits for it, so a late answer
  reaches nobody) and `DraftsOK` (a draft taken by a call is gone, and no other
  call has it). The theorems are `SignaturesAgreed` and `AuditFileTrue`; the
  latter counts appends that failed (`lost`) as what a call tried to say.
* **Session.** `SessionInv` holds as long as no refresh straddles a change of
  session: the stored tokens are those of the account shown, a refresh under way
  was begun by it (`RefreshOK`), and a request that saw no change was sent by it
  (`SenderOK`). The theorem is `SessionIsShownAccount`.
* **Server.** A query of a tool is judged by what is left of its plan: `QueryOK`
  says that what it has passed was checked, that units are known before they are
  used (`UnitsLater`) and that a plan with a vault still has its check before it.
  Tokens, the cache of decimals and the wallet are shared by all queries and have
  conjuncts of their own (`AuthOK`, `CacheOK`, `WalletOK`). The theorem is
  `ToolsServeTheirOwner`.
* **Editor.** `DraftInv`: unless an edit overtook it, a PATCH under way carries the
  draft shown (`PatchesCurrent`), and only a page on the screen loads or waits to
  save (`OnScreen`). A dirty draft has the timer running, or just that draft in
  the PATCH the timer sent, or a PATCH that failed (`DirtyGetsSaved`, which
  holds of overtaken drafts too). What the theorem says of a clean draft has an
  exception (`raced`): one that was changed or loaded while a PATCH was under way,
  which that PATCH's answer marks clean (section 7). `VariablesInv`: a list of
  variables never has a slot twice; a
  request of each kind is asked once per visit (`AskedOnce`), and what has not
  been answered has brought nothing (`NotYet`), so that both orders of merging end
  in the same list. The theorem is `EditorKeeps`.
* **Funds.** `FundsInv` gives each run of transactions the stage it is at. A run
  that nobody disturbed has in the mempool only the next transaction of its plan
  (`MempoolOK`). For the gas card, a good read is later than an outdated one, or a
  run is about to ask for one (`CardInv`). The theorem is `OwnerToldTheTruth`.
* **Positions.** The adapter's answer is compared row by row with the chain at the
  moment of its last read; rows behind the read keep what they were given
  (`RowsOK`). Amounts are divided twice by the code; a quotient of a quotient is
  one quotient by the product. The theorem is `RowsTellPositions`.
* **Mints and sales.** Flooring to the spacing is treated on either side of zero,
  as the code does, since Solidity's division truncates. That the sale leaves the
  balances in the ratio of the range is a comparison of nested quotients, each
  kept as the two bounds that define it (`Aimed`, `Balanced`, scaled by the square
  of `Q96`). The theorem is `MintsAndSalesFit`.
* **Aave steps.** Collateral and debt are sums over the assets of which a step
  changes one term (`TotalScaled`, by the smallest set on which two sums differ).
  An amount becomes tokens by one division and base units again by another;
  `BaseAdded` bounds what the two drop, so a balance moved towards a goal stops
  less than one base unit past it and less than a token before it (`Raised`,
  `Lowered`), and a withdrawal that is a base unit short of the floor leaves the
  health factor at 1 or more (`StaysHealthy`). Collateral of one threshold has
  that threshold on average (`AverageOfOne`), before the step and after. The
  theorem is `AaveStepsFit`.
* **Valuations and profits.** `CockpitInv` reads a valuation as it grows: while
  all its reads came from where the chain stands, its total is the part of net
  equity read so far; a movement voids that, and the last read is never cached.
  The history of movements is a running total over times that only grow
  (`BookOK`), so what happened before a range is a beginning of it (`BeganIs`),
  and the events the profit subtracts add up to what was paid in since
  (`DepositsPaidIn`). Sums are recursive functions, reasoned about through a least
  counterexample. The theorem is `ValuesAndProfits`.
* **Panels.** `PanelsInv`: what a panel shows was so when its question was asked or
  later (`AnswerTrue`), it is of the selected range when nothing was asked since
  (`ShownTrue`), the newest request of a panel asks for that range
  (`RequestTrue`), and a panel nobody waits for is neither busy nor silent about
  its failure (`WaitingTrue`). Thinning a
  chart keeps its first and last point because the places it takes rise and end
  at the last. The theorem is `PanelsTellTheTruth`.

## 7. What the code leaves open

Four documented claims do not hold; they are the `violation` runs. Beside them,
modelling met behaviour that no text of the repository denies. Most of it is an
exception of some property; it is collected here for the reader who changes the
code.

**Contracts.**
* The registry's balance is at least its books, not equal to them as the header
  of `FeeRegistry.sol` (lines 24-28) says: a plain transfer to it is held and
  booked nowhere.
* A failing `afterExecution` is ignored and the run is committed
  (`StrategyBuilderVault.sol:511`).
* `AaveV3WithdrawAction.sol`: the header (21-23) says a maximal withdrawal passes
  `uint256.max` and leaves it to Aave to revert; with a debt the code withdraws
  what keeps the health factor at 1 (103-118). Targets are sized with the average
  threshold of before the step, and with the liquidation threshold for borrowing,
  too; with collateral of different thresholds they are missed.

**Keeper.** An RPC error outside the `try` ends the pass. A lost answer of
`tx.wait` reports a mined run as failed; losing a race to another keeper is
reported as a failure; the exception of a mined revert carries no revert data.
`isTriggerMet` turns a failing condition into "not met" (cf. the comment at
lines 161-163). Nothing simulates a run (the gas limit is fixed,
`execute-automations.ts:185`), so one that reverts after its trigger, in a later
condition or action, at the step limit, for gas, or at the settlement of a vault
whose gas deposit is too small, is sent again with every pass, at the keeper's
expense. Without `KEEPER_INGEST_SECRET` no failure is reported; a failing request
and the endpoint's answer are ignored. `InsufficientFeeDeposit` and
`WithdrawExceedsDeposit` are listed without their parameters in
`contract-error.service.ts:72` and `:74` (cf. `IFeeRegistry.sol:56` and `:58`), so
their selectors are unknown to it: where the data of the revert reach it, a
vault's owner whose gas deposit is too small reads `0x` and eight digits, not the
message of line 30.

**Backend.**
* Events of a vault registered after the cursor passed them, and protocol flows
  whose fetch failed, are never indexed.
* Two overlapping slot allocations may give two names one slot; a context
  transaction signed late writes back a context that runs have changed since.
* The seed has no transaction: readers see old and new rows while it runs. It
  skips recipes that cannot be built but never deletes those that no longer can
  (cf. `recipe-seed-data.ts:6-7`). An address handed out again after a restart
  makes a step type's id denote another step. Some recipes leave a condition by
  the handle `out`, which `encoding.service.ts:123-127` ignores.
* Profit: deposits newer than the current snapshot, or between baseline and
  cutoff, appear as loss or profit; events without a price are skipped;
  `performance.service.ts:74-75` does not hold once a range filter drops older
  events. `refresh=1` still uses the 60-second portfolio cache. A failing token
  read counts as 0, and a failing `claimedTokens` counts collateral twice. One
  unpriced leg of a position is silently 0.
* `fee.service.ts` (57-187, not modelled): a token removed and accepted again is
  never listed, one accepted more than 10,000 blocks ago vanishes from the list.

**Browser.**
* A refresh stores its token whatever the session has become since. A conflict
  of the label is read as "already registered". The setup wizard's retry after
  its 60-second timeout creates a second vault, and one of the two is not registered.
* Receipts are not looked at; explicit gas limits skip the simulation; the
  deposit button is free while the last receipt is awaited; an allowance read
  earlier may be stale; a run goes on prompting after its page is left.
* The history table reads when the socket connects, before the room is joined; a
  rejected subscription leaves polling off; deposits and failures are pushed to
  nobody; a success does not clear the error of another read. The table assumes
  18 decimals, since `execution-history-table.tsx:177` takes the answer of
  `/tokens/accepted` for an array.
* Panels: changing the range during an older request may show that one's answer,
  and an older request that fails late leaves its error over good data.
* Auto-save: an older PATCH's answer marks a newer draft clean and stops its
  timer, so that neither a save nor the warning on closing (`use-auto-save.ts:60`)
  follows until the next edit; a failed save, too, is tried again only then.
  `nodeCounter` restarts at 0 after a reload, so ids repeat; the encoder drops the
  second of two edges of one handle.
* Context variables: a slow answer of an earlier visit fills the store of the
  present one, and auto-save may store it under the present id. The draft's
  answer marks the store clean, so a variable added before it is stored only
  with the next edit, or gives way when the draft has its slot. Renaming does not
  reach the steps: an output field goes on showing the old name, an input field
  shows it as text, and the encoder allocates a slot for it. The slot shown may
  differ from the one allocated later. A name may be empty or given twice. A
  ticked output without a variable is encoded as off.
* Forms: undo does not refresh inputs; ticks are not computed again when tokens,
  fee or decimals change; a cleared price leaves the old ticks; validation is
  300 ms late and the pool check 400 ms and a call, with Deploy enabled;
  fractional durations, emptied fixed amounts and targets like "2e0" pass the
  friendly validation and fail at encoding; an error of a hidden field blocks
  Deploy without a word; unknown decimals count as 18.

**MCP server.** A request refreshes once and never signs in again. A token list
that cannot be read counts as empty for a minute. A server stopped between the
backend's row and the draft leaves the row. The intent check compares by
position in the nodes array, not by the graph (cf. `index.ts:307`), and of a step
with two amounts only the last; what either side leaves out is not compared; an
amount that a slot replaces is still shown; `periodSeconds` is compared with the
first duration of the first condition that has one, in the key order of the
database, which need not be the trigger's.

## 8. Not modelled

* **Vault**: `withdrawETH`, `onERC721Received` and native value sent with an
  action: no other state depends on them. Tokens that take a fee on transfer or
  rebase: every theorem about money assumes plain ERC-20s, as the code's
  bookkeeping does. Reentrancy: `executeAutomation` is `nonReentrant`, and a frame
  excludes every other transaction. `setFeeRegistry` and the proxy upgrade of the
  factory.
* **Actions**: in a run of `StrategyBuilderVault` a protocol action is one step
  that moves vault tokens and leaves a value in a slot; its own arithmetic is
  `AaveActions` and `PancakeActions`. Liquidity limits of the pool, allowances
  within one call, and fixed ticks of a mint (which are inputs) are left out.
* **Keeper**: gas is not measured: a run that takes more than the keeper gives is
  one of the ways a run may end, as are the reverts of steps and settlement, and
  others may change which it is at any time. What a run does to the vault's money
  and context is `StrategyBuilderVault`.
* **Indexer**: USD values and decimals are data no property tells apart. Provider
  nodes that answer from different heads, a `createdAtBlock` that a reorganisation
  makes stale, and two indexers on one database are excluded.
* **Deployment**: a status check and the storing of its answer are one step (the
  reads are short beside the 30 seconds the answer lives), and a run only moves
  the armed schedules of its automation. The ABI encoding of parameters is not
  modelled.
* **Cockpit**: price sources with their fallbacks, cost reports, and the
  `TickMath` values beyond the table.
* **Reads**: the endpoints of catalogue, recipes, users and tokens, and the MCP
  tools that pass such a list on.
* **Several tabs** of one browser, which share local storage.
* **Nothing to model**: rendering, layout and wording of the frontend; generated
  ABI files, contract types and factories (about a third of the repository's
  lines); interfaces and test doubles; scripts that drive a test chain by hand
  (`wick-wait-price-driver.ts`) and build configuration.
