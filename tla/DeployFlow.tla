----------------------------- MODULE DeployFlow -----------------------------
(***************************************************************************)
(* How strategies get from drafts into a vault: encoding, slots,           *)
(* deployment, reconciliation and deletion, for one vault.                 *)
(*                                                                         *)
(* A session is a client (browser tab, MCP server) with its backend        *)
(* request: it goes from one database call, chain read or transaction to   *)
(* the next, with the other sessions, the keepers and the owner's toggles  *)
(* in between.  Slots and on-chain ids are numbered from 1 (from 0 in the  *)
(* code).                                                                  *)
(***************************************************************************)
EXTENDS Naturals, FiniteSets, Sequences

CONSTANTS
    Row,          \* automations of the backend, each with its editor graph
    Session,
    Graph,        \* the graph of each row
    Name,         \* names of context variables
    CacheTTL,     \* CACHE_TTL of the status cache
    MaxTime,      \* bound: clock
    MaxDeploys,   \* bound: deployments begun
    MaxEvents     \* bound: runs, activations, failing reads, abandoned sessions

NoId == 0

\* `names` are the context variables of the graph and `starts` those that get a
\* start time; `saved` is whether the backend has the graph's nodes (a draft of
\* the MCP server keeps them to itself).
GraphInfo == [ownerOnly : BOOLEAN, stepCount : Nat, target : STRING,
              names : Seq(Name), starts : SUBSET Name, saved : BOOLEAN]

ASSUME DeployAssumption ==
    /\ Row # {}
    /\ Graph \in [Row -> GraphInfo]
    /\ CacheTTL \in Nat \ {0}
    /\ {MaxTime, MaxDeploys, MaxEvents} \subseteq Nat

VARIABLES
    table,      \* Vault.contextSlots: the name of each slot
    context,    \* the vault's context: 0 for 0x, else a time
    automations,\* the vault's automations
    rows,       \* the Automation table
    cache,      \* the status cache, or NoCache
    now,        \* wall clock
    sessions,
    used,       \* deployments and other bounded events so far
    raced,      \* history: an allocation overwrote a table it had not read
    stale,      \* history: a context write was lost or replaced a longer context
    quiet       \* history: when each automation last was not active

vars == <<table, context, automations, rows, cache, now, sessions, used, raced, stale, quiet>>

Automation == [active : BOOLEAN, ownerOnly : BOOLEAN, graph : Row, slots : SUBSET (Name \X (Nat \ {0}))]

Ids == DOMAIN automations

DbRow == [there : BOOLEAN, id : Nat, ownerOnly : BOOLEAN]

\* A status is "unread" where the code reports "Error reading status".
Status == {"active", "inactive", "unread"}
NoCache == [statuses |-> <<>>, until |-> 0]

\* `found` is the row as findById returned it, `cand` the automation it is to
\* be linked to; `tbl` the slot table as read, then as written; `base` the
\* context as read; `status` and `at` the answer of the status check.
Kind == {"none", "open", "create", "update", "delete"}
SessionState ==
    [kind : Kind, row : Row, found : DbRow, cand : Nat,
     pc : {"idle", "look", "link", "alloc", "store", "context", "setContext",
           "send", "confirm", "status", "remove"},
     tbl : Seq(Name), base : Seq(Nat), id : Nat, status : Status, at : Nat]

SomeRow == CHOOSE r \in Row : TRUE
Idle == [kind |-> "none", row |-> SomeRow, found |-> [there |-> FALSE, id |-> NoId, ownerOnly |-> FALSE],
         cand |-> NoId, pc |-> "idle", tbl |-> <<>>, base |-> <<>>, id |-> NoId,
         status |-> "inactive", at |-> 0]

TypeOK ==
    /\ table \in Seq(Name)
    /\ context \in Seq(Nat)
    /\ automations \in Seq(Automation)
    /\ rows \in [Row -> DbRow]
    /\ cache.statuses \in Seq(Status) /\ cache.until \in Nat
    /\ now \in 0 .. MaxTime
    /\ sessions \in [Session -> SessionState]
    /\ used \in [deploys : 0 .. MaxDeploys, events : 0 .. MaxEvents]
    /\ raced \in BOOLEAN /\ stale \in BOOLEAN
    /\ quiet \in [Ids -> 0 .. now]

\* A vault that has been set up, with its drafts saved.
Init ==
    /\ table = <<>>
    /\ context = <<>>
    /\ automations = <<>>
    /\ rows = [r \in Row |-> [there |-> TRUE, id |-> NoId, ownerOnly |-> FALSE]]
    /\ cache = NoCache
    /\ now = 0
    /\ sessions = [s \in Session |-> Idle]
    /\ used = [deploys |-> 0, events |-> 0]
    /\ raced = FALSE /\ stale = FALSE
    /\ quiet = <<>>

-----------------------------------------------------------------------------
(* Sessions.                                                               *)

Row_(s) == sessions[s].row
At(s, pc) == sessions[s].pc = pc
Becomes(s, state) == sessions' = [sessions EXCEPT ![s] = state]
Goto(s, pc) == Becomes(s, [sessions[s] EXCEPT !.pc = pc])
Finish(s) == Becomes(s, Idle)

Event == used.events < MaxEvents /\ used' = [used EXCEPT !.events = @ + 1]

Chain == <<context, automations, stale, quiet>>
Backend == <<table, rows, cache, raced>>

\* The tab is closed, the transaction rejected, its receipt timed out, or a
\* call fails.
abandon(s) ==
    /\ ~At(s, "idle")
    /\ Event
    /\ Finish(s)
    /\ UNCHANGED <<Chain, Backend, now>>

-----------------------------------------------------------------------------
(* findById, with the reconciliation of drafts.                            *)

\* What follows findById in each kind of request.
AfterFind(kind, found) ==
    CASE kind = "create" -> "alloc"
      [] kind = "update" -> IF found.id = NoId THEN "idle" ELSE "alloc"
      [] kind = "delete" -> IF found.id # NoId /\ ~found.ownerOnly THEN "status" ELSE "remove"
      [] OTHER           -> "idle"

Continue(s, found) ==
    LET pc == AfterFind(sessions[s].kind, found)
    IN  IF pc = "idle" THEN Finish(s)
        ELSE Becomes(s, [sessions[s] EXCEPT !.pc = pc, !.found = found, !.cand = NoId])

\* A client opens a draft, deploys it, edits a deployed automation or deletes
\* one: the request begins with findById.  The page the client shows may be
\* out of date, so that a deployed draft can be deployed again.
findById(s, kind, r) ==
    LET state == [Idle EXCEPT !.kind = kind, !.row = r, !.found = rows[r]]
    IN  /\ At(s, "idle")
        /\ rows[r].there
        /\ IF kind \in {"create", "update"}
           THEN used.deploys < MaxDeploys /\ used' = [used EXCEPT !.deploys = @ + 1]
           ELSE UNCHANGED used
        /\ IF rows[r].id = NoId /\ Graph[r].saved
           THEN Becomes(s, [state EXCEPT !.pc = "look"])
           ELSE /\ AfterFind(kind, rows[r]) # "idle"
                /\ Becomes(s, [state EXCEPT !.pc = AfterFind(kind, rows[r])])
        /\ UNCHANGED <<Chain, Backend, now>>

Linked == {rows[r].id : r \in Row} \ {NoId}

\* Same number of steps and same first contract.
Lookalike(r, g) == Graph[r].stepCount = Graph[g].stepCount /\ Graph[r].target = Graph[g].target

\* The first automation nobody is linked to that looks like the draft.  An
\* error ends the reconciliation, not the request.
tryReconcile(s) ==
    LET free == {i \in Ids \ Linked : Lookalike(Row_(s), automations[i].graph)}
    IN  /\ At(s, "look")
        /\ \/ /\ free # {}
              /\ Becomes(s, [sessions[s] EXCEPT !.pc = "link",
                                !.cand = CHOOSE i \in free : \A j \in free : i <= j])
              /\ UNCHANGED used
           \/ free = {} /\ Continue(s, sessions[s].found) /\ UNCHANGED used
           \/ Event /\ Continue(s, sessions[s].found)
        /\ UNCHANGED <<Chain, Backend, now>>

\* update by id; the unique index on (vaultId, onChainId) and a deleted row
\* make it throw, which is caught.  ownerOnly is left alone.
linkDraft(s) ==
    LET r  == Row_(s)
        id == sessions[s].cand
    IN  /\ At(s, "link")
        /\ IF rows[r].there /\ \A q \in Row \ {r} : rows[q].id # id
           THEN rows' = [rows EXCEPT ![r].id = id] /\ Continue(s, rows'[r])
           ELSE Continue(s, sessions[s].found) /\ UNCHANGED rows
        /\ UNCHANGED <<Chain, table, cache, raced, now, used>>

-----------------------------------------------------------------------------
(* encode and encodeUpdate.                                                *)

\* allocateSlots: reads the table ...
readSlots(s) ==
    /\ At(s, "alloc")
    /\ IF Graph[Row_(s)].names = <<>> THEN Goto(s, "context")
       ELSE Becomes(s, [sessions[s] EXCEPT !.tbl = table, !.pc = "store"])
    /\ UNCHANGED <<Chain, Backend, now, used>>

\* Where the names stand, each at its first place, that have no slot.
Unslotted(tbl, names) ==
    {i \in DOMAIN names : /\ \A j \in DOMAIN tbl : tbl[j] # names[i]
                         /\ \A j \in 1 .. i - 1 : names[j] # names[i]}

PlaceIn(S, i) == Cardinality({j \in S : j <= i})

\* They get the next slots, in their order.
WithNames(tbl, names) ==
    LET new == Unslotted(tbl, names)
    IN  tbl \o [k \in 1 .. Cardinality(new) |-> names[CHOOSE i \in new : PlaceIn(new, i) = k]]

\* Mutant: the new table is not stored.
writeSlots_NotStored(s) ==
    /\ At(s, "store")
    /\ Becomes(s, [sessions[s] EXCEPT !.tbl = WithNames(@, Graph[Row_(s)].names),
                                      !.pc = "context"])
    /\ UNCHANGED <<Chain, Backend, now, used>>

\* ... and writes all of it back.
writeSlots(s) ==
    LET new == WithNames(sessions[s].tbl, Graph[Row_(s)].names)
    IN  /\ At(s, "store")
        /\ table' = new
        /\ raced' = (raced \/ sessions[s].tbl # table)
        /\ Becomes(s, [sessions[s] EXCEPT !.tbl = new, !.pc = "context"])
        /\ UNCHANGED <<Chain, rows, cache, now, used>>

\* Mutant: numbered from 0, in a table that is numbered from 1.
SlotOf_FromZero(tbl, n) == (CHOOSE i \in DOMAIN tbl : tbl[i] = n) - 1

SlotOf(tbl, n) == CHOOSE i \in DOMAIN tbl : tbl[i] = n
SlotsOf(tbl, r) ==
    {<<n, SlotOf(tbl, n)>> : n \in {Graph[r].names[i] : i \in DOMAIN Graph[r].names}}

Start == 1

Greatest(S) == CHOOSE x \in S : \A y \in S : y <= x

\* Mutant: only slots that lie behind the context are laid out, at its end.
Expanded_ToBase(base, slots, starts) ==
    [i \in 1 .. Len(base) |->
        IF \E p \in slots : p[2] = i /\ p[1] \in starts THEN Start ELSE base[i]]

\* Mutant: every slot gets its initial value.
Expanded_Initial(base, slots, starts) ==
    [i \in 1 .. Greatest({Len(base)} \cup {p[2] : p \in slots}) |->
        IF \E p \in slots : p[2] = i /\ p[1] \in starts THEN Start ELSE 0]

\* buildExpandedContext: start times first, then what the chain has, then 0x.
Expanded(base, slots, starts) ==
    [i \in 1 .. Greatest({Len(base)} \cup {p[2] : p \in slots}) |->
        IF \E p \in slots : p[2] = i /\ p[1] \in starts THEN Start
        ELSE IF i <= Len(base) THEN base[i] ELSE 0]

\* encode writes the context whenever the graph has a slot, encodeUpdate when
\* it has a new one or a start time.
NeedsContextTx(s, base) ==
    LET slots == SlotsOf(sessions[s].tbl, Row_(s))
    IN  /\ slots # {}
        /\ \/ sessions[s].kind = "create"
           \/ \E p \in slots : p[2] > Len(base)
           \/ Graph[Row_(s)].starts # {}

\* A context that cannot be read counts as empty.
readContext(s) ==
    /\ At(s, "context")
    /\ \E base \in {context, <<>>} :
          /\ IF base = context THEN UNCHANGED used ELSE Event
          /\ Becomes(s, [sessions[s] EXCEPT !.base = base,
                            !.pc = IF NeedsContextTx(s, base) THEN "setContext" ELSE "send"])
    /\ UNCHANGED <<Chain, Backend, now>>

-----------------------------------------------------------------------------
(* The client's transactions and the confirmation.                         *)

setContext(s) ==
    /\ At(s, "setContext")
    /\ context' = Expanded(sessions[s].base, SlotsOf(sessions[s].tbl, Row_(s)),
                           Graph[Row_(s)].starts)
    /\ stale' = (stale \/ Len(sessions[s].base) < Len(context))
    /\ Goto(s, "send")
    /\ UNCHANGED <<automations, quiet, Backend, now, used>>

\* The deploy dialog looks at no status of the context transaction: when it
\* reverts the automation is deployed all the same.
setContextReverts(s) ==
    /\ At(s, "setContext")
    /\ Graph[Row_(s)].saved
    /\ Event
    /\ stale' = TRUE
    /\ Goto(s, "send")
    /\ UNCHANGED <<context, automations, quiet, Backend, now>>

createAutomation(s) ==
    LET r == Row_(s)
    IN  /\ At(s, "send") /\ sessions[s].kind = "create"
        /\ automations' = Append(automations,
              [active |-> TRUE, ownerOnly |-> Graph[r].ownerOnly, graph |-> r,
               slots |-> SlotsOf(sessions[s].tbl, r)])
        /\ quiet' = Append(quiet, now)
        /\ Becomes(s, [sessions[s] EXCEPT !.id = Len(automations'), !.pc = "confirm"])
        /\ UNCHANGED <<context, stale, Backend, now, used>>

\* The transaction of an edit logs no AutomationCreated: the dialog ends with
\* an error, although the steps were replaced.  A public automation does not
\* take steps that begin with an action.
updateAutomationSteps(s) ==
    LET r  == Row_(s)
        id == sessions[s].found.id
    IN  /\ At(s, "send") /\ sessions[s].kind = "update"
        /\ automations' = IF automations[id].ownerOnly \/ ~Graph[r].ownerOnly
                          THEN [automations EXCEPT ![id].graph = r,
                                                   ![id].slots = SlotsOf(sessions[s].tbl, r)]
                          ELSE automations
        /\ Finish(s)
        /\ UNCHANGED <<context, stale, quiet, Backend, now, used>>

\* Mutant: the unique index is missing.
confirmDeployment_NoIndex(s) ==
    LET r  == Row_(s)
        id == sessions[s].id
    IN  /\ At(s, "confirm")
        /\ rows' = IF rows[r].there
                   THEN [rows EXCEPT ![r].id = id, ![r].ownerOnly = Graph[r].ownerOnly]
                   ELSE rows
        /\ Finish(s)
        /\ UNCHANGED <<Chain, table, cache, raced, now, used>>

\* PATCH with the on-chain id.  It fails when the row is gone or another row is
\* linked to the automation.
confirmDeployment(s) ==
    LET r  == Row_(s)
        id == sessions[s].id
    IN  /\ At(s, "confirm")
        /\ rows' = IF rows[r].there /\ \A q \in Row \ {r} : rows[q].id # id
                   THEN [rows EXCEPT ![r].id = id, ![r].ownerOnly = Graph[r].ownerOnly]
                   ELSE rows
        /\ Finish(s)
        /\ UNCHANGED <<Chain, table, cache, raced, now, used>>

-----------------------------------------------------------------------------
(* Statuses and deletion.                                                  *)

\* What a read of the vault finds; some automations may not answer.
Readings ==
    {st \in [Ids -> Status] :
        \A i \in Ids : st[i] \in {"unread", IF automations[i].active THEN "active" ELSE "inactive"}}

Faultless(st) == \A i \in DOMAIN st : st[i] # "unread"

\* Mutant: an entry never expires.
CacheValid_Always == cache # NoCache

CacheValid == cache # NoCache /\ now < cache.until

\* getStatuses: from the cache, or read and, if there is anything, cached.
getStatuses(st) ==
    IF CacheValid THEN st = cache.statuses /\ UNCHANGED <<cache, used>>
    ELSE /\ st \in Readings
         /\ IF Faultless(st) THEN UNCHANGED used ELSE Event
         /\ cache' = IF st = <<>> THEN cache ELSE [statuses |-> st, until |-> now + CacheTTL]

AnyStatuses == Readings \cup {cache.statuses}

\* The list polls the statuses.
pollStatuses ==
    /\ ~CacheValid
    /\ \E st \in AnyStatuses : getStatuses(st)
    /\ UNCHANGED <<Chain, table, rows, raced, now, sessions>>

\* An automation without a status counts as inactive.
checkStatus(s) ==
    LET id == sessions[s].found.id
    IN  /\ At(s, "status")
        /\ \E st \in AnyStatuses :
              /\ getStatuses(st)
              /\ LET status == IF id \in DOMAIN st THEN st[id] ELSE "inactive"
                 IN  IF status = "active" THEN Finish(s)
                     ELSE Becomes(s, [sessions[s] EXCEPT !.status = status, !.at = now,
                                                         !.pc = "remove"])
        /\ UNCHANGED <<Chain, table, rows, raced, now>>

remove(s) ==
    /\ At(s, "remove")
    /\ rows' = [rows EXCEPT ![Row_(s)] = Idle.found]
    /\ Finish(s)
    /\ UNCHANGED <<Chain, table, cache, raced, now, used>>

-----------------------------------------------------------------------------
(* Everybody else.                                                         *)

Quiet(autos, time) == [i \in DOMAIN autos |-> IF autos[i].active THEN quiet[i] ELSE time]

\* setAutomationActive, by the owner.
setAutomationActive(id) ==
    /\ Event
    /\ automations' = [automations EXCEPT ![id].active = ~@]
    /\ quiet' = [quiet EXCEPT ![id] = now]
    /\ UNCHANGED <<context, stale, Backend, now, sessions>>

\* A run moves the armed schedules of its automation on.
executeAutomation(id) ==
    LET slots == {p[2] : p \in automations[id].slots} \cap DOMAIN context
    IN  /\ automations[id].active
        /\ \E i \in slots : context[i] > 0
        /\ context' = [i \in DOMAIN context |->
                          IF i \in slots /\ context[i] > 0 THEN context[i] + 1 ELSE context[i]]
        /\ Event
        /\ UNCHANGED <<automations, stale, quiet, Backend, now, sessions>>

tick ==
    /\ now < MaxTime
    /\ now' = now + 1
    /\ quiet' = Quiet(automations, now')
    /\ UNCHANGED <<context, automations, stale, Backend, sessions, used>>

Request(s) ==
    \/ tryReconcile(s) \/ linkDraft(s)
    \/ readSlots(s) \/ writeSlots(s) \/ readContext(s)
    \/ setContext(s) \/ setContextReverts(s) \/ createAutomation(s) \/ updateAutomationSteps(s) \/ confirmDeployment(s)
    \/ checkStatus(s) \/ remove(s)

Next ==
    \/ \E s \in Session : Request(s) \/ abandon(s)
    \/ \E s \in Session, kind \in Kind \ {"none"}, r \in Row : findById(s, kind, r)
    \/ \E id \in Ids : setAutomationActive(id) \/ executeAutomation(id)
    \/ pollStatuses \/ tick

Spec == Init /\ [][Next]_vars

-----------------------------------------------------------------------------
(* Properties.                                                             *)

\* What the vault's automations keep in its context (context.service.ts:32,
\* encoding.service.ts:178).  Two variables share a slot only if two encodings
\* overlapped: allocateSlots, one request at a time, keeps the names of all automations
\* apart, whatever was deployed, deleted, reconciled or abandoned before.  And each
\* finds all of its slots unless a deployment wrote back a shorter context than the one
\* it replaced, or lost its context transaction (encode sizes the context before the
\* automation exists; setContext resizes it).
SlotsSound ==
    /\ ~raced => \A i, j \in Ids : \A p \in automations[i].slots, q \in automations[j].slots :
                     p[2] = q[2] => p[1] = q[1]
    /\ ~stale => \A i \in Ids : \A p \in automations[i].slots : p[2] \in DOMAIN context

\* A deployment that writes the context over the one it has read sets its own
\* start times and leaves every other schedule as it is (encode: "only slots
\* that receive a name-keyed start-time override get a non-zero initial value").
DeployKeepsSchedules ==
    [][ \A s \in Session :
          At(s, "setContext") /\ sessions[s].base = context /\ context' # context
          /\ sessions'[s].pc = "send" =>
              \A i \in DOMAIN context :
                  \/ i \in DOMAIN context' /\ context'[i] = context[i]
                  \/ \E n \in Graph[Row_(s)].starts : <<n, i>> \in SlotsOf(sessions[s].tbl, Row_(s))
      ]_vars

\* Two rows are never linked to one automation, although confirmations and
\* reconciliations of several requests race.
OneRowPerAutomation ==
    \A r, q \in Row : r # q /\ rows[r].id # NoId => rows[r].id # rows[q].id

\* The row of a public automation is deleted only if the automation could not
\* be read or was not active at some time in the CACHE_TTL before the check.
DeletedWasQuiet ==
    [][ \A s \in Session :
          At(s, "remove") /\ sessions'[s].pc = "idle" /\ rows' # rows
          /\ sessions[s].found.id # NoId /\ ~sessions[s].found.ownerOnly =>
              \/ sessions[s].status = "unread"
              \/ quiet[sessions[s].found.id] + CacheTTL > sessions[s].at ]_vars

\* automation.controller.ts: "Public automations still require on-chain
\* deactivation first to avoid orphaning a live, executor-run graph."  So no
\* deletion takes away the row of an active public automation.
LiveNotOrphaned ==
    [][ \A r \in Row :
          rows[r].id # NoId /\ ~rows'[r].there =>
              automations[rows[r].id].ownerOnly \/ ~automations[rows[r].id].active ]_vars
=============================================================================
