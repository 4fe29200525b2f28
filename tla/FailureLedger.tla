--------------------------- MODULE FailureLedger ----------------------------
(***************************************************************************)
(* The ExecutionFailure table of the backend.  A reverted execution leaves *)
(* no log, so keepers report it; the report handler collapses repeated     *)
(* failures of an automation into one open row, and the indexer closes the *)
(* row in the transaction that stores a success.                           *)
(*                                                                         *)
(* A report handler is two database calls, findFirst and then update or    *)
(* create, with other handlers and the indexer in between.                 *)
(***************************************************************************)
EXTENDS Naturals, FiniteSets, Sequences

CONSTANTS
    Vault,        \* vault addresses that may be registered
    Automation,   \* automation ids, unique within a vault only
    Handler,      \* report requests served at the same time
    NoRow,        \* findFirst found nothing
    MaxReports    \* bound: reports received

VARIABLES
    registered,   \* the Vault table
    failures,     \* the ExecutionFailure table, in order of insertion
    handlers,     \* the report each handler is working on
    reports,      \* number of reports received so far
    accepted      \* history: reports answered with success, per automation

failureVars == <<failures, handlers, reports, accepted>>

Pair == Vault \X Automation

\* `last` is the block height the last failed attempt ran at (lastFailedAt).
Failure == [pair : Pair, open : BOOLEAN, attempts : Nat \ {0}, last : Nat]

Idle == [busy |-> FALSE]
Report == [busy : {TRUE}, pair : Pair, at : Nat, open : Nat \cup {NoRow}]

FailureTypeOK ==
    /\ registered \subseteq Vault
    /\ failures \in Seq(Failure)
    /\ handlers \in [Handler -> Report \cup {Idle}]
    /\ reports \in 0 .. MaxReports
    /\ accepted \in [Pair -> Nat]

FailureInit ==
    /\ failures = <<>>
    /\ handlers = [h \in Handler |-> Idle]
    /\ reports = 0
    /\ accepted = [p \in Pair |-> 0]

OpenRows(p) == {i \in DOMAIN failures : failures[i].pair = p /\ failures[i].open}

\* findFirst: any open row of the automation.
FirstOpen(p) == IF OpenRows(p) = {} THEN {NoRow} ELSE OpenRows(p)

\* The vault must be registered; then the handler looks for an open row.
receiveReport(h, p, at) ==
    /\ ~handlers[h].busy
    /\ reports < MaxReports
    /\ p[1] \in registered
    /\ \E row \in FirstOpen(p) :
          handlers' = [handlers EXCEPT ![h] = [busy |-> TRUE, pair |-> p, at |-> at, open |-> row]]
    /\ reports' = reports + 1
    /\ UNCHANGED <<failures, accepted>>

Answer(h) == handlers' = [handlers EXCEPT ![h] = Idle] /\ UNCHANGED reports

Count(p) == accepted' = [accepted EXCEPT ![p] = @ + 1]

\* Mutant: two overlapping updates of a row count as one (a read, then a write
\* of the count).
updateOpenRow_Overwrites(h) ==
    /\ handlers[h].busy /\ handlers[h].open # NoRow
    /\ failures' = [failures EXCEPT ![handlers[h].open].attempts =
                        IF \E g \in Handler \ {h} : /\ handlers[g].busy
                                                    /\ handlers[g].open = handlers[h].open
                        THEN @ ELSE @ + 1]
    /\ Count(handlers[h].pair)
    /\ Answer(h)

\* The row is updated by its id, whether or not it is still open; the database
\* increments the count.
updateOpenRow(h) ==
    /\ handlers[h].busy /\ handlers[h].open # NoRow
    /\ failures' = [failures EXCEPT ![handlers[h].open].attempts = @ + 1,
                                    ![handlers[h].open].last = handlers[h].at]
    /\ Count(handlers[h].pair)
    /\ Answer(h)

\* Mutant: no unique index on open rows.
createRow_NoIndex(h) ==
    /\ handlers[h].busy /\ handlers[h].open = NoRow
    /\ failures' = Append(failures, [pair |-> handlers[h].pair, open |-> TRUE, attempts |-> 1,
                                     last |-> handlers[h].at])
    /\ Count(handlers[h].pair)
    /\ Answer(h)

\* Mutant: attempts are counted from zero.
createRow_FromZero(h) ==
    /\ handlers[h].busy /\ handlers[h].open = NoRow
    /\ OpenRows(handlers[h].pair) = {}
    /\ failures' = Append(failures, [pair |-> handlers[h].pair, open |-> TRUE, attempts |-> 0,
                                     last |-> handlers[h].at])
    /\ Count(handlers[h].pair)
    /\ Answer(h)

\* The partial unique index on open rows lets one of two creators through.
createRow(h) ==
    /\ handlers[h].busy /\ handlers[h].open = NoRow
    /\ OpenRows(handlers[h].pair) = {}
    /\ failures' = Append(failures, [pair |-> handlers[h].pair, open |-> TRUE, attempts |-> 1,
                                     last |-> handlers[h].at])
    /\ Count(handlers[h].pair)
    /\ Answer(h)

\* The other one gets a database error; its report is lost, for the keeper does
\* not look at the answer.
createConflicts(h) ==
    /\ handlers[h].busy /\ handlers[h].open = NoRow
    /\ OpenRows(handlers[h].pair) # {}
    /\ Answer(h)
    /\ UNCHANGED <<failures, accepted>>

IngestNext(height) ==
    \E h \in Handler :
        \/ \E p \in Pair, at \in 1 .. height : receiveReport(h, p, at)
        \/ updateOpenRow(h)
        \/ createRow(h)
        \/ createConflicts(h)

\* Mutant: matches on the automation id and forgets the vault.
Resolved_AnyVault(rows, pairs) ==
    [i \in DOMAIN rows |->
        [rows[i] EXCEPT !.open = @ /\ rows[i].pair[2] \notin {p[2] : p \in pairs}]]

\* updateMany { vaultId, automationId, resolvedAt: null }, for every pair.
Resolved(rows, pairs) ==
    [i \in DOMAIN rows |-> [rows[i] EXCEPT !.open = @ /\ rows[i].pair \notin pairs]]

-----------------------------------------------------------------------------
(* Properties of the table.                                                *)

\* At most one open failure per automation, however many reports race
\* (schema.prisma: "One open record per (vaultId, automationId)").
OneOpenFailure == \A p \in Pair : Cardinality(OpenRows(p)) <= 1

\* The attempts of an automation, each a row and its number in the row.
Attempts(p) ==
    UNION {{i} \X (1 .. failures[i].attempts) : i \in {j \in DOMAIN failures : failures[j].pair = p}}

\* No report that was answered with success is lost in a concurrent one: the
\* attempts of an automation's rows are as many as the reports accepted.
AttemptsAccounted == \A p \in Pair : Cardinality(Attempts(p)) = accepted[p]

\* The ledger of failures is neither split nor short (failure-ingest.service.ts).
LedgerExact == OneOpenFailure /\ AttemptsAccounted
=============================================================================
