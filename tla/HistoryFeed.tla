---------------------------- MODULE HistoryFeed -----------------------------
(***************************************************************************)
(* What the indexer promises, without ticks, windows, RPC calls, crashes   *)
(* or tables: of the logs the chain has confirmed, the owed ones are       *)
(* recorded, each once and at its confirmed place, before the feed reports *)
(* the block as processed.                                                 *)
(***************************************************************************)
EXTENDS Naturals, Sequences

CONSTANT NoCursor   \* the feed has not been started

VARIABLES
    confirmed,   \* the confirmed blocks, each the set of its logs
    owed,        \* logs the feed has to record
    record,      \* what is recorded: pairs of a log and its block
    passed       \* last block reported as processed, or NoCursor

feedVars == <<confirmed, owed, record, passed>>

Init ==
    /\ confirmed = <<>>
    /\ owed = {}
    /\ record = {}
    /\ passed = NoCursor

\* The chain confirms more blocks; some of their logs are owed.
Confirm ==
    /\ Len(confirmed) < Len(confirmed')
    /\ SubSeq(confirmed', 1, Len(confirmed)) = confirmed
    /\ owed \subseteq owed'
    /\ \A k \in owed' \ owed : \E b \in Len(confirmed) + 1 .. Len(confirmed') : k \in confirmed'[b]
    /\ UNCHANGED <<record, passed>>

\* The feed starts behind some block; nothing owed lies before it.
Begin ==
    /\ passed = NoCursor
    /\ passed' \in Nat
    /\ \A b \in DOMAIN confirmed : b <= passed' => confirmed[b] \cap owed = {}
    /\ UNCHANGED <<confirmed, owed, record>>

\* Logs of confirmed blocks are recorded, none twice; nothing is taken back.
Publish ==
    /\ record \subseteq record'
    /\ \A r \in record' \ record : r[2] \in DOMAIN confirmed /\ r[1] \in confirmed[r[2]]
    /\ \A r, q \in record' : r[1] = q[1] => r = q
    /\ UNCHANGED <<confirmed, owed, passed>>

\* More blocks are reported as processed: nothing owed in them is missing.
Pass ==
    /\ passed # NoCursor
    /\ passed' \in passed + 1 .. Len(confirmed)
    /\ \A b \in passed + 1 .. passed' : \A k \in confirmed[b] \cap owed : <<k, b>> \in record
    /\ UNCHANGED <<confirmed, owed, record>>

Next == Confirm \/ Begin \/ Publish \/ Pass

Spec == Init /\ [][Next]_feedVars
=============================================================================
