------------------------------ MODULE Indexer -------------------------------
(***************************************************************************)
(* The execution indexer: a loop that reads the logs of confirmed blocks   *)
(* from the chain, writes them to the database and moves a durable cursor. *)
(*                                                                         *)
(* Around it: a chain that grows and reorganises, users who register their *)
(* vaults, keepers who report failures, an RPC provider and a database     *)
(* whose calls fail now and then, and a process that may be killed between *)
(* any two of its awaits.  A log is identified by (txHash, logIndex), which *)
(* is a Key here; Event says what the log is.                              *)
(***************************************************************************)
EXTENDS RangePlanner, FailureLedger

CONSTANTS
    Key,            \* logs that may be mined
    Event,          \* the log of each key
    CreatedAtBlock, \* the block in which each vault was created
    Confirmations,  \* INDEXER_CONFIRMATIONS
    MaxRange,       \* INDEXER_MAX_RANGE
    StartBlock,     \* INDEXER_START_BLOCK, or NoStart
    NoStart,
    NoCursor,       \* no row in the IndexerCursor table
    MaxBlocks,      \* bound: length of the chain
    MaxReorgs,      \* bound: reorganisations
    MaxFaults,      \* bound: failing RPC and database calls
    MaxCrashes      \* bound: kills of the process

\* "exec": AutomationExecuted, "money": Deposited or Withdrawn,
\* "flow": a protocol's log about the vault.
LogEvent == [vault : Vault, kind : {"exec", "money", "flow"}, automation : Automation]

ASSUME IndexerAssumption ==
    /\ Event \in [Key -> LogEvent]
    /\ CreatedAtBlock \in [Vault -> Nat \ {0}]
    /\ Confirmations \in Nat
    /\ MaxRange \in Nat \ {0}
    /\ StartBlock \in Nat \cup {NoStart}
    /\ NoStart \notin Nat
    /\ NoCursor \notin Int
    /\ NoRow \notin Nat
    /\ {MaxBlocks, MaxReorgs, MaxFaults, MaxCrashes, MaxReports} \subseteq Nat

VARIABLES
    chain,      \* the canonical chain: per block, the set of its logs
    cursor,     \* lastProcessedBlock, or NoCursor
    rows,       \* Execution, VaultEvent and ProtocolFlow rows
    loop,       \* the indexer process
    pushed,     \* websocket events sent, per log
    spent,      \* reorganisations, faults and crashes so far
    owed        \* history: logs the indexer has to record, see Due

indexerVars == <<cursor, rows, loop, pushed, owed>>
vars == <<registered, failureVars, chain, cursor, rows, loop, pushed, spent, owed>>

Row == [key : Key, block : Nat]

\* Where the process is:
\*   down (not running), unstarted (running without the loop), boot, seed,
\*   idle (between ticks), vaults, fetch, persist, push, events, flows, advance.
\* `todo` are the windows getLogs is still to be asked for, `fresh` the
\* executions to push, `seed` the first cursor.
Loop == [pc : {"down", "unstarted", "boot", "seed", "idle", "vaults", "fetch",
               "persist", "push", "events", "flows", "advance"},
         windows : Seq([from : Nat, to : Nat]),
         known : SUBSET Vault,
         todo : Seq([from : Nat, to : Nat]),
         logs : SUBSET Row,
         fresh : SUBSET Key,
         seed : Nat]

At(pc) == [pc |-> pc, windows |-> <<>>, known |-> {}, todo |-> <<>>, logs |-> {},
           fresh |-> {}, seed |-> 0]

TypeOK ==
    /\ FailureTypeOK
    /\ chain \in Seq(SUBSET Key)
    /\ cursor \in Nat \cup {NoCursor}
    /\ rows \subseteq Row
    /\ loop \in Loop
    /\ pushed \in [Key -> Nat]
    /\ spent \in [reorgs : 0 .. MaxReorgs, faults : 0 .. MaxFaults, crashes : 0 .. MaxCrashes]
    /\ owed \subseteq Key

Init ==
    /\ registered = {}
    /\ FailureInit
    /\ chain = <<>>
    /\ cursor = NoCursor
    /\ rows = {}
    /\ loop = At("down")
    /\ pushed = [k \in Key |-> 0]
    /\ spent = [reorgs |-> 0, faults |-> 0, crashes |-> 0]
    /\ owed = {}

-----------------------------------------------------------------------------
(* The chain and the users.                                                *)

Confirmed(blocks) == IF Len(blocks) < Confirmations THEN 0 ELSE Len(blocks) - Confirmations

Mined(blocks) == UNION {blocks[b] : b \in DOMAIN blocks}

\* A vault has no logs before its creation; RPC logs of unregistered addresses
\* are those of vaults not registered yet.
MayHold(k, b) == b >= CreatedAtBlock[Event[k].vault]

\* The block the feed starts behind, as far as it is decided.
Floor == IF cursor # NoCursor THEN cursor
         ELSE IF loop.pc = "seed" THEN loop.seed ELSE 0

\* A log becomes due when its block is confirmed while its vault is registered
\* and the block lies behind the start of the feed.  Protocol flows are best
\* effort.
Due(blocks) ==
    {k \in Key : /\ Event[k].kind # "flow"
                 /\ Event[k].vault \in registered
                 /\ \E b \in Confirmed(chain) + 1 .. Confirmed(blocks) :
                       /\ k \in blocks[b]
                       /\ b > Floor
                       /\ StartBlock # NoStart => b >= StartBlock}

Grow(blocks) ==
    /\ Len(blocks) <= MaxBlocks
    /\ chain' = blocks
    /\ owed' = owed \cup Due(blocks)
    /\ UNCHANGED <<registered, failureVars, cursor, rows, loop, pushed>>

mineBlock(logs) ==
    /\ logs \cap Mined(chain) = {}
    /\ \A k \in logs : MayHold(k, Len(chain) + 1)
    /\ Grow(Append(chain, logs))
    /\ UNCHANGED spent

\* The last n blocks are replaced by n + 1 others; a log of theirs is mined
\* elsewhere or not at all.
reorg(n, place) ==
    LET base == SubSeq(chain, 1, Len(chain) - n)
        new  == [i \in 1 .. n + 1 |-> {k \in DOMAIN place : place[k] = i}]
    IN  /\ spent.reorgs < MaxReorgs
        /\ DOMAIN place = Key \ Mined(base)
        /\ \A k \in DOMAIN place : place[k] > 0 => MayHold(k, Len(base) + place[k])
        /\ Grow(base \o new)
        /\ spent' = [spent EXCEPT !.reorgs = @ + 1]

\* POST /vaults, once the factory knows the vault.
registerVault(v) ==
    /\ v \notin registered
    /\ CreatedAtBlock[v] <= Len(chain)
    /\ registered' = registered \cup {v}
    /\ UNCHANGED <<failureVars, chain, indexerVars, spent>>

-----------------------------------------------------------------------------
(* The process: boot, crash, restart.                                      *)

Keep == UNCHANGED <<registered, failureVars, chain, rows, pushed, spent, owed>>

start == loop.pc = "down" /\ loop' = At("boot") /\ Keep /\ UNCHANGED cursor

crash ==
    /\ loop.pc # "down"
    /\ spent.crashes < MaxCrashes
    /\ loop' = At("down")
    /\ spent' = [spent EXCEPT !.crashes = @ + 1]
    /\ UNCHANGED <<registered, failureVars, chain, cursor, rows, pushed, owed>>

Fault == /\ spent.faults < MaxFaults
         /\ spent' = [spent EXCEPT !.faults = @ + 1]
         /\ UNCHANGED <<registered, failureVars, chain, cursor, rows, pushed, owed>>

\* Mutant: the oldest vault's creation block itself is skipped.
Seed_AtCreation ==
    IF StartBlock # NoStart THEN IF StartBlock = 0 THEN 0 ELSE StartBlock - 1
    ELSE IF registered = {} THEN Len(chain)
    ELSE CHOOSE b \in {CreatedAtBlock[v] : v \in registered} :
             \A v \in registered : b <= CreatedAtBlock[v]

\* ensureCursorSeeded: the configured block, else the oldest vault's, else the
\* head.
Seed ==
    IF StartBlock # NoStart THEN IF StartBlock = 0 THEN 0 ELSE StartBlock - 1
    ELSE IF registered = {} THEN Len(chain)
    ELSE (CHOOSE b \in {CreatedAtBlock[v] : v \in registered} :
             \A v \in registered : b <= CreatedAtBlock[v]) - 1

readCursor ==
    /\ loop.pc = "boot"
    /\ loop' = IF cursor = NoCursor THEN [At("seed") EXCEPT !.seed = Seed] ELSE At("idle")
    /\ Keep /\ UNCHANGED cursor

\* initIfMissing leaves an existing cursor alone.
initIfMissing ==
    /\ loop.pc = "seed"
    /\ cursor' = IF cursor = NoCursor THEN loop.seed ELSE cursor
    /\ loop' = At("idle")
    /\ Keep

\* A failure during startup leaves the loop unstarted.
startFails ==
    /\ loop.pc \in {"boot", "seed"}
    /\ Fault
    /\ loop' = At("unstarted")

-----------------------------------------------------------------------------
(* A tick.                                                                 *)

\* Head, cursor and plan.  No other step writes the cursor.
tick ==
    LET windows == Plan(Len(chain), cursor, MaxRange, Confirmations)
    IN  /\ loop.pc = "idle"
        /\ windows # <<>>
        /\ loop' = [At("vaults") EXCEPT !.windows = windows]
        /\ Keep /\ UNCHANGED cursor

Fetching(windows, known) ==
    [At("fetch") EXCEPT !.windows = windows, !.known = known, !.todo = <<Head(windows)>>]

\* The known-vault set, after the head was read and once per tick.
loadVaults ==
    /\ loop.pc = "vaults"
    /\ loop' = Fetching(loop.windows, registered)
    /\ Keep /\ UNCHANGED cursor

LogsOf(range) ==
    {r \in [key : Key, block : range.from .. range.to] :
        r.block \in DOMAIN chain /\ r.key \in chain[r.block]}

\* One getLogs call of fetchLogs.
fetchLogs ==
    /\ loop.pc = "fetch"
    /\ loop' = [loop EXCEPT !.logs = @ \cup LogsOf(Head(loop.todo)),
                            !.todo = Tail(@),
                            !.pc = IF Len(loop.todo) = 1 THEN "persist" ELSE @]
    /\ Keep /\ UNCHANGED cursor

\* A rejected call is repeated on the halves of its window; on a single block
\* the error ends the tick.
fetchRejected ==
    LET range == Head(loop.todo)
    IN  /\ loop.pc = "fetch"
        /\ Fault
        /\ loop' = IF range.from < range.to
                   THEN [loop EXCEPT !.todo = Halve(range) \o Tail(@)]
                   ELSE At("idle")

Recorded == {r.key : r \in rows}

\* Logs of other addresses are dropped before they are decoded.
KnownLogs == {r \in loop.logs : Event[r.key].vault \in loop.known}

\* What a database step has to insert.
NewRows(kind) == {r \in KnownLogs : Event[r.key].kind = kind /\ r.key \notin Recorded}

PairOf(k) == <<Event[k].vault, Event[k].automation>>

\* Mutant: everything in the window is pushed, not what the window added.
persist_PushesAll ==
    LET new == NewRows("exec")
    IN  /\ loop.pc = "persist"
        /\ rows' = rows \cup new
        /\ failures' = Resolved(failures, {PairOf(r.key) : r \in new})
        /\ loop' = [loop EXCEPT !.pc = "push", !.fresh = {r.key : r \in loop.logs}]
        /\ UNCHANGED <<registered, handlers, reports, accepted, chain, cursor, pushed, spent, owed>>

\* The transaction of persist: success rows, and the open failures they resolve.
persist ==
    LET new == NewRows("exec")
    IN  /\ loop.pc = "persist"
        /\ rows' = rows \cup new
        /\ failures' = Resolved(failures, {PairOf(r.key) : r \in new})
        /\ loop' = [loop EXCEPT !.pc = IF new = {} THEN "events" ELSE "push",
                                !.fresh = {r.key : r \in new}]
        /\ UNCHANGED <<registered, handlers, reports, accepted, chain, cursor, pushed, spent, owed>>

\* emitNewExecutions, after the transaction.
push ==
    /\ loop.pc = "push"
    /\ pushed' = [k \in Key |-> IF k \in loop.fresh THEN pushed[k] + 1 ELSE pushed[k]]
    /\ loop' = [loop EXCEPT !.pc = "events", !.fresh = {}]
    /\ UNCHANGED <<registered, failureVars, chain, cursor, rows, spent, owed>>

persistVaultEvents ==
    /\ loop.pc = "events"
    /\ rows' = rows \cup NewRows("money")
    /\ loop' = [loop EXCEPT !.pc = "flows"]
    /\ UNCHANGED <<registered, failureVars, chain, cursor, pushed, spent, owed>>

\* Protocol flows are fetched by calls of their own.
indexProtocolFlows ==
    /\ loop.pc = "flows"
    /\ rows' = rows \cup NewRows("flow")
    /\ loop' = [loop EXCEPT !.pc = "advance"]
    /\ UNCHANGED <<registered, failureVars, chain, cursor, pushed, spent, owed>>

\* Their errors are swallowed.
protocolFlowsFail ==
    /\ loop.pc = "flows"
    /\ Fault
    /\ loop' = [loop EXCEPT !.pc = "advance"]

\* Mutant: the last planned block instead of the end of this window.
advance_ToLast ==
    /\ loop.pc = "advance"
    /\ cursor' = loop.windows[Len(loop.windows)].to
    /\ loop' = IF Len(loop.windows) = 1 THEN At("idle")
               ELSE Fetching(Tail(loop.windows), loop.known)
    /\ Keep

advance ==
    /\ loop.pc = "advance"
    /\ cursor' = Head(loop.windows).to
    /\ loop' = IF Len(loop.windows) = 1 THEN At("idle")
               ELSE Fetching(Tail(loop.windows), loop.known)
    /\ Keep

\* Any other call of a tick may throw: the tick ends and the cursor stays.
tickFails ==
    /\ loop.pc \in {"vaults", "persist", "push", "events", "advance"}
    /\ Fault
    /\ loop' = At("idle")

-----------------------------------------------------------------------------
LoopStep ==
    \/ start \/ readCursor \/ initIfMissing
    \/ tick \/ loadVaults \/ fetchLogs \/ persist \/ push
    \/ persistVaultEvents \/ indexProtocolFlows \/ advance

Environment ==
    \/ \E logs \in SUBSET Key : mineBlock(logs)
    \/ \E n \in 1 .. Confirmations :
          /\ n <= Len(chain)
          /\ \E place \in [Key \ Mined(SubSeq(chain, 1, Len(chain) - n)) -> 0 .. n + 1] :
                reorg(n, place)
    \/ \E v \in Vault : registerVault(v)
    \/ IngestNext(Len(chain)) /\ UNCHANGED <<registered, chain, indexerVars, spent>>

Next ==
    \/ LoopStep
    \/ Environment
    \/ crash \/ startFails \/ fetchRejected \/ protocolFlowsFail \/ tickFails

\* The loop schedules itself and a killed process is restarted.
Spec == Init /\ [][Next]_vars /\ WF_vars(LoopStep)

-----------------------------------------------------------------------------
(* Properties.                                                             *)

\* The history is reorg-safe: every row stands for a log of the canonical
\* chain, in the block the row names, and no log has two rows, although the
\* head, the logs and the rows are read and written at different times
\* (RangePlanner.plan: "Only blocks <= head - confirmations are eligible").
RowsFromChain ==
    /\ \A r \in rows : r.block <= Confirmed(chain) /\ r.key \in chain[r.block]
    /\ \A r, q \in rows : r.key = q.key => r = q

\* The history has no gap: a log whose vault was registered by the time its
\* block was confirmed has a row once the cursor has passed the block, whatever
\* crashed, failed or was split on the way (tick advances the cursor last and
\* loads the vaults after it has read the head).
NoGap ==
    cursor # NoCursor =>
        \A b \in 1 .. Lesser(cursor, Confirmed(chain)) :
            \A k \in chain[b] \cap owed : [key |-> k, block |-> b] \in rows

\* The two together: the history shows what the chain holds, neither more nor less
\* (indexer.service.ts runOnce and tick).
RowsExact == RowsFromChain /\ NoGap

\* A success is pushed to the browser at most once, and only when it is in the
\* history: rescans after a crash or a failed tick push nothing again.
PushedOnce ==
    \A k \in Key : pushed[k] > 0 => pushed[k] = 1 /\ Event[k].kind = "exec" /\ k \in Recorded

\* An open failure is closed by a success of its own automation, in the
\* transaction that stores the success, and that transaction leaves none open
\* (persist: "no window where a success exists while its failure is still open,
\* or vice versa").
FailureClosedBySuccess ==
    [][ LET stored == {PairOf(r.key) : r \in {q \in rows' \ rows : Event[q.key].kind = "exec"}}
        IN  \A i \in DOMAIN failures :
                failures[i].open => (failures'[i].open <=> failures[i].pair \notin stored) ]_vars

\* schema.prisma: "the indexer sets resolvedAt when the automation next
\* succeeds".  So the success that closes a failure did not run before it.
ClosedByLaterSuccess ==
    [][ \A i \in DOMAIN failures :
          failures[i].open /\ ~failures'[i].open =>
              \E r \in rows' \ rows : /\ PairOf(r.key) = failures[i].pair
                                      /\ r.block >= failures[i].last ]_vars

\* schema.prisma: "A later failure opens a fresh row."  So a failure that ran
\* after every recorded success of its automation is not counted on a row that
\* is resolved.
LaterFailureOpensRow ==
    [][ \A i \in DOMAIN failures :
          ~failures[i].open /\ failures'[i] # failures[i] =>
              \E r \in rows : /\ PairOf(r.key) = failures[i].pair
                              /\ r.block >= failures'[i].last ]_vars

\* Every log that is due is recorded in the end, as long as the loop was
\* started (self-rescheduling ticks that resume at cursor + 1).
EventuallyRecorded ==
    \A k \in Key : k \in owed ~> k \in Recorded \/ loop.pc = "unstarted"

\* The indexer implements the feed.
Feed == INSTANCE HistoryFeed WITH
    confirmed <- SubSeq(chain, 1, Confirmed(chain)),
    record    <- {<<r.key, r.block>> : r \in rows},
    passed    <- cursor

FeedSpec == Feed!Spec
=============================================================================
