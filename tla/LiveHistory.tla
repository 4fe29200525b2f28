----------------------------- MODULE LiveHistory -----------------------------
(***************************************************************************)
(* A vault's history as its page shows it: a table that is read page by     *)
(* page from the backend, and a socket that says when to read it again.     *)
(* Executions are pushed to those in the vault's room; deposits, withdrawals *)
(* and failures are pushed to nobody.  While the socket is down the table   *)
(* is polled.  Answers may overtake each other.  A row is named by its place *)
(* in the order of storing; its time, which the table is sorted by, may be  *)
(* earlier than that of rows stored before it.                              *)
(***************************************************************************)
EXTENDS Integers, Sequences, SequencesExt

CONSTANTS
    PageSize,   \* PAGE_SIZE
    MaxRows,    \* bound: rows the history grows to
    MaxAsked,   \* bound: reads of the table under way
    MaxTurns    \* bound: connections, disconnections, pages turned, filters set,
                \*   failing reads

VARIABLES
    history,     \* the rows the backend has stored, oldest first
    silent,      \* history: the rows nobody was told of
    unsent,      \* executions the indexer has stored and not emitted
    socket,      \* "down", "up", or "dropped": the server hung up, no reconnect
    room,        \* "out", "joining", or "in" the vault's room
    pushes,      \* events on their way to the browser
    shownPage,   \* page
    filter,      \* only what belongs to an automation
    queries,     \* reads under way, oldest first
    view,       \* what is shown
    turns,       \* what counts against MaxTurns
    met          \* rows that were stored when the socket last connected

historyVars == <<history, silent, unsent, socket, room, pushes, shownPage, filter, queries, view,
                 turns, met>>

RowKind == {"execution", "failure", "deposit"}
Unanswered == -1

\* Deposits and withdrawals belong to no automation.
Rows(stored, filtered) == {r \in DOMAIN stored : filtered => stored[r].kind # "deposit"}

\* The first n rows stored.
First(n) == SubSeq(history, 1, n)

\* getExecutions: one page of the rows stored, newest first.
getExecutions(stored, page, filtered) ==
    LET newest == SetToSortSeq(Rows(stored, filtered), LAMBDA r, q : stored[r].time > stored[q].time)
        offset == (page - 1) * PageSize
    IN SubSeq(newest, offset + 1, Min({offset + PageSize, Len(newest)}))

Query(page, filtered) ==
    [page |-> page, filter |-> filtered, rows |-> <<>>, asOf |-> Unanswered, old |-> FALSE]

HistoryInit ==
    /\ history = <<>> /\ silent = {} /\ unsent = {}
    /\ socket = "down" /\ room = "out" /\ pushes = {}
    /\ shownPage = 1 /\ filter = FALSE
    /\ queries = <<Query(1, FALSE)>>
    /\ view = [page |-> 1, filter |-> FALSE, rows |-> <<>>, asOf |-> 0, total |-> 0,
                old |-> TRUE, error |-> FALSE, loading |-> TRUE]
    /\ turns = 0 /\ met = 0

Turn == turns < MaxTurns /\ turns' = turns + 1

\* fetchHistory, with what the effect that runs it has just rendered.
fetchHistory(page, filtered) ==
    /\ Len(queries) < MaxAsked
    /\ queries' = Append(queries, Query(page, filtered))
    /\ view' = [view EXCEPT !.error = FALSE, !.loading = TRUE]
    /\ shownPage' = page /\ filter' = filtered

---------------------------------------------------------------------------
(* The backend.                                                             *)

persist(kind, time) ==
    /\ Len(history) < MaxRows /\ \A i \in DOMAIN history : history[i].time # time
    /\ history' = Append(history, [kind |-> kind, time |-> time])
    /\ IF kind = "execution" THEN unsent' = unsent \cup {Len(history')} /\ UNCHANGED silent
                             ELSE silent' = silent \cup {Len(history')} /\ UNCHANGED unsent
    /\ UNCHANGED <<socket, room, pushes, shownPage, filter, queries, view, turns, met>>

\* emitNewExecutions: to the room, whoever is in it.
emit ==
    /\ unsent # {}
    /\ unsent' = {}
    /\ IF room = "in"
       THEN pushes' = pushes \cup unsent /\ UNCHANGED silent
       ELSE silent' = silent \cup unsent /\ UNCHANGED pushes
    /\ UNCHANGED <<history, socket, room, shownPage, filter, queries, view, turns, met>>

\* onSubscribe: the ownership check may refuse; the browser does not listen for that.
onSubscribe ==
    /\ room = "joining"
    /\ room' \in {"in", "out"}
    /\ UNCHANGED <<history, silent, unsent, socket, pushes, shownPage, filter, queries, view, turns, met>>

\* The backend reads the page.
answer(i) ==
    /\ queries[i].asOf = Unanswered
    /\ queries' = [queries EXCEPT ![i].asOf = Len(history),
                                  ![i].rows = getExecutions(history, queries[i].page, queries[i].filter)]
    /\ UNCHANGED <<history, silent, unsent, socket, room, pushes, shownPage, filter, view, turns, met>>

---------------------------------------------------------------------------
(* The browser.                                                             *)

\* Mutant: the table is not read when the socket connects.
subscribeAndSync_NoSync ==
    /\ socket = "down" /\ Turn
    /\ socket' = "up" /\ room' = "joining"
    /\ met' = Len(history)
    /\ UNCHANGED <<history, silent, unsent, pushes, shownPage, filter, queries, view>>

\* The socket connects, the first time or again: subscribe, and read what was
\* missed.  Neither waits for the other.
subscribeAndSync ==
    /\ socket = "down" /\ Turn
    /\ socket' = "up" /\ room' = "joining"
    /\ met' = Len(history)
    /\ fetchHistory(1, filter)
    /\ UNCHANGED <<history, silent, unsent, pushes>>

\* The connection breaks, or the server refuses the token of the handshake.
onDisconnect ==
    /\ socket = "up" /\ Turn
    /\ socket' \in {"down", "dropped"}
    /\ room' = "out" /\ pushes' = {}
    /\ silent' = silent \cup pushes
    /\ UNCHANGED <<history, unsent, shownPage, filter, queries, view, met>>

onExecution ==
    /\ pushes # {}
    /\ pushes' = pushes \ {Min(pushes)}
    /\ fetchHistory(1, filter)
    /\ UNCHANGED <<history, silent, unsent, socket, room, turns, met>>

\* Every 15 seconds while the socket is not connected.
poll ==
    /\ socket # "up"
    /\ fetchHistory(shownPage, filter)
    /\ UNCHANGED <<history, silent, unsent, socket, room, pushes, turns, met>>

retry ==
    /\ view.error
    /\ fetchHistory(shownPage, filter)
    /\ UNCHANGED <<history, silent, unsent, socket, room, pushes, turns, met>>

turnPage ==
    /\ ~view.loading /\ ~view.error /\ view.rows # <<>>
    /\ Turn
    /\ \/ shownPage > 1 /\ fetchHistory(shownPage - 1, filter)
       \/ shownPage * PageSize < view.total /\ fetchHistory(shownPage + 1, filter)
    /\ UNCHANGED <<history, silent, unsent, socket, room, pushes, met>>

setFilter ==
    /\ Turn
    /\ fetchHistory(1, ~filter)
    /\ UNCHANGED <<history, silent, unsent, socket, room, pushes, met>>

\* The other reads once the i-th has arrived; those before it are overtaken.
Left(i) == [j \in 1 .. Len(queries) - 1 |->
              IF j < i THEN [queries[j] EXCEPT !.old = TRUE] ELSE queries[j + 1]]

\* An answer arrives.  The number of rows was counted after the page was read; the
\* answer does not take back the error of another read.
arrives(i) ==
    LET q == queries[i] IN
    /\ q.asOf # Unanswered
    /\ queries' = Left(i)
    /\ \E counted \in q.asOf .. Len(history) :
         view' = [view EXCEPT !.page = q.page, !.filter = q.filter, !.rows = q.rows,
                              !.asOf = q.asOf, !.old = q.old, !.loading = FALSE,
                              !.total = Cardinality(Rows(First(counted), q.filter))]
    /\ UNCHANGED <<history, silent, unsent, socket, room, pushes, shownPage, filter, turns, met>>

failsToLoad(i) ==
    /\ Turn
    /\ queries' = Left(i)
    /\ view' = [view EXCEPT !.error = TRUE, !.loading = FALSE]
    /\ UNCHANGED <<history, silent, unsent, socket, room, pushes, shownPage, filter, met>>

HistoryNext ==
    \/ \E kind \in RowKind, time \in 1 .. MaxRows : persist(kind, time)
    \/ emit \/ onSubscribe
    \/ subscribeAndSync \/ onDisconnect \/ onExecution \/ poll \/ retry \/ turnPage \/ setFilter
    \/ \E i \in DOMAIN queries :
         answer(i) \/ arrives(i) \/ failsToLoad(i)

HistorySpec == HistoryInit /\ [][HistoryNext]_historyVars

---------------------------------------------------------------------------

Settled == queries = <<>> /\ unsent = {} /\ pushes = {} /\ ~view.error

\* When nothing is under way and no answer was overtaken, the table shows the page
\* and the filter that are set, as they were stored at one instant.  What it lacks
\* was stored later and nobody in the room was told: a deposit, a withdrawal or a
\* failure, or an execution emitted while the browser was not in the room.  With
\* the socket up, it lacks nothing that was stored before the socket connected
\* (execution-history-table.tsx, fetchHistory; use-executions-socket.ts: "fill any
\* gap missed while disconnected").
HistoryTellsTruth ==
    Settled /\ ~view.old =>
       /\ view.page = shownPage /\ view.filter = filter
       /\ view.rows = getExecutions(First(view.asOf), shownPage, filter)
       /\ view.asOf + 1 .. Len(history) \subseteq silent
       /\ socket = "up" => met <= view.asOf
=============================================================================
