----------------------------- MODULE MCBrowser ------------------------------
(***************************************************************************)
(* What the pages of a vault do, beyond the editor: automations are saved,  *)
(* deployed and deleted, money is moved, the history is shown.  The three   *)
(* share no state and are explored side by side: the initial state picks    *)
(* one, the others stay as they begin.                                      *)
(***************************************************************************)
EXTENDS MCDeployFlow, Funding, LiveHistory

VARIABLE part

mcRates == {[deposit |-> 0, withdraw |-> 5000], [deposit |-> 5000, withdraw |-> 0]}

BrowserInit ==
    /\ part \in {"deploy", "funding", "history"}
    /\ Init /\ FundingInit /\ HistoryInit
    /\ part # "funding" => page = "setup" /\ strict /\ \A q \in Rates : rates.deposit <= q.deposit
                           /\ known.rates = rates

BrowserNext ==
    /\ UNCHANGED part
    /\ \/ part = "deploy" /\ Next /\ UNCHANGED <<fundingVars, historyVars>>
       \/ part = "funding" /\ FundingNext /\ UNCHANGED <<vars, historyVars>>
       \/ part = "history" /\ HistoryNext /\ UNCHANGED <<vars, fundingVars>>

BrowserSpec == BrowserInit /\ [][BrowserNext]_<<part, vars, fundingVars, historyVars>>
=============================================================================
