------------------------------- MODULE Keeper -------------------------------
(***************************************************************************)
(* One pass of the keeper script over all vaults of the factory.  It asks   *)
(* the chain about an automation three times (its flags, its trigger, its   *)
(* execution) while owners and other keepers go on using the vaults.  A      *)
(* failing trigger check and a failing execution are reported to the        *)
(* backend, if the keeper has its secret and the request gets through; any  *)
(* other failing call ends the pass.                                        *)
(***************************************************************************)
EXTENDS Naturals, Sequences, FiniteSets

CONSTANTS
    Fleet,      \* the vaults of the factory at first, each a sequence of automations
    MaxMoves    \* bound: transactions of others during the pass

VARIABLES
    fleet,      \* the vaults and their automations, on chain
    pass,       \* where the keeper is
    count,      \* its three counters
    secret,     \* KEEPER_INGEST_SECRET is set
    reports,    \* what reached the ingest endpoint
    moves,      \* number of transactions of others
    seen        \* history, per automation: what happened since the pass began

keeperVars == <<fleet, pass, count, secret, reports, moves, seen>>

\* Why the call of a step reverts: with an error the backend knows, with one it
\* does not, or without a word.
Reason == {"known", "unknown", "empty"}

\* What a run can revert with, by the name of the error.  Step 1 is the trigger
\* as the run begins, 2 stands for every step after that, 0 for none.
NoError == [name |-> "none"]
NoData == [name |-> "no data"]
VaultError(name) == [name |-> name]
StepError(name, step, reason) == [name |-> name, step |-> step, reason |-> reason]

Wrapper == {"ActionExecutionFailed", "ConditionCallFailed"}

\* How a run ends that has passed its trigger: well; at a later step; at the
\* step limit; with a result that does not fit the context; out of the gas the
\* keeper gives it, or at a word that cannot be decoded; at the settlement of
\* the gas compensation, from a deposit too small or in a token that refuses.
Settlement == {VaultError("InsufficientFeeDeposit"), VaultError("TransferRefused")}
Ending ==
    {NoError, NoData, VaultError("MaxStepsExceeded"), VaultError("ContextSlotOutOfBounds")}
    \cup Settlement
    \cup {StepError(name, 2, reason) : name \in Wrapper, reason \in Reason}

\* What the trigger answers now, or the reason of its reverting.
Trigger == {"met", "unmet"} \cup Reason

\* `mine`: the executor owns the vault.
OnChain == [active : BOOLEAN, ownerOnly : BOOLEAN, mine : BOOLEAN, trigger : Trigger, ending : Ending]

\* bound: three automations per vault
ASSUME KeeperAssumption ==
    /\ MaxMoves \in Nat
    /\ Fleet \in Seq(Seq(OnChain)) /\ \A v \in DOMAIN Fleet : Len(Fleet[v]) <= 3

PassStep == {"start", "vault", "flags", "trigger", "execute", "mined", "done", "aborted"}
AutomationIds == {a \in (1 .. Len(fleet)) \X (1 .. 3) : a[2] <= Len(fleet[a[1]])}

KeeperTypeOK ==
    /\ \A v \in DOMAIN fleet : fleet[v] \in Seq(OnChain)
    /\ pass \in [at : PassStep, vaults : Nat, v : Nat, autos : Nat, i : Nat, mined : {"none", "executed", "reverted"}]
    /\ count \in [executed : Nat, skipped : Nat, failed : Nat]
    /\ secret \in BOOLEAN

\* `due`: could have been executed at any time of the pass; `still`: unchanged
\* since its flags were read; `lost`: an answer about it was; `silent`: a report
\* of it was not sent or did not get through; `outcome`: what the keeper made of it.
Unseen == [due |-> TRUE, still |-> FALSE, lost |-> FALSE, silent |-> FALSE, ran |-> 0,
           outcome |-> "none"]

KeeperInit ==
    /\ fleet = Fleet
    /\ pass = [at |-> "start", vaults |-> 0, v |-> 1, autos |-> 0, i |-> 1, mined |-> "none"]
    /\ count = [executed |-> 0, skipped |-> 0, failed |-> 0]
    /\ secret \in BOOLEAN
    /\ reports = {}
    /\ moves = 0
    /\ seen = [a \in AutomationIds |-> Unseen]

Here == <<pass.v, pass.i>>
AutoAt(a) == fleet[a[1]][a[2]]
NewAutomation ==
    [active |-> TRUE, ownerOnly |-> FALSE, mine |-> FALSE, trigger |-> "met", ending |-> NoError]
Public(x) == x.active /\ ~x.ownerOnly

\* executeAutomation of the vault: what a run the keeper asks for reverts with.
\* The owner runs without a met trigger and settles nothing.
RevertOf(x) ==
    CASE ~x.active -> VaultError("AutomationNotActive")
      [] x.active /\ x.ownerOnly /\ ~x.mine -> VaultError("CallerNotOwner")
      [] OTHER ->
            CASE x.trigger \in Reason -> StepError("ConditionCallFailed", 1, x.trigger)
              [] x.trigger = "unmet" /\ ~x.mine -> VaultError("TriggerNotMet")
              [] x.mine /\ x.ending \in Settlement -> NoError
              [] OTHER -> x.ending
Runs(x) == RevertOf(x) = NoError

\* ERROR_SIGNATURES, as far as they are those of the contracts: the registry's
\* InsufficientFeeDeposit has two parameters, the one listed has none.
ERROR_SIGNATURES ==
    {"AutomationNotActive", "CallerNotOwner", "TriggerNotMet", "MaxStepsExceeded",
     "ContextSlotOutOfBounds"}

\* The text of a reason: its message, or the bare selector.
Text(name) == IF name \in ERROR_SIGNATURES THEN name ELSE "selector"

\* Mutant: the wrapper is not opened.
decodeRevert_Outer(data) ==
    IF data = NoData THEN [step |-> 0, text |-> "fallback"] ELSE [step |-> 0, text |-> data.name]

\* What the backend stores: the keeper's own message when there are no data; for
\* a wrapper the reason in it, behind the number of its step.
decodeRevert(data) ==
    CASE data = NoData -> [step |-> 0, text |-> "fallback"]
      [] data.name \in Wrapper ->
            [step |-> data.step, text |-> CASE data.reason = "empty" -> "without reason"
                                            [] data.reason = "known" -> "message"
                                            [] OTHER -> "selector"]
      [] OTHER -> [step |-> 0, text |-> Text(data.name)]

\* The loops: the next automation, the next vault, the end.
Onward(p) ==
    IF p.i < p.autos THEN [p EXCEPT !.at = "flags", !.i = @ + 1]
    ELSE IF p.v < p.vaults THEN [p EXCEPT !.at = "vault", !.v = @ + 1]
    ELSE [p EXCEPT !.at = "done"]

\* vaultCount is read once: a vault created later waits for the next pass.
readVaultCount ==
    /\ pass.at = "start"
    /\ pass' = [pass EXCEPT !.vaults = Len(fleet), !.at = IF fleet = <<>> THEN "done" ELSE "vault"]
    /\ UNCHANGED <<fleet, count, reports, moves, seen>>

\* getVault, owner and automationCount.
openVault ==
    /\ pass.at = "vault"
    /\ LET autos == Len(fleet[pass.v])
           p == [pass EXCEPT !.autos = autos, !.i = 1]
       IN  pass' = IF autos = 0 THEN Onward(p) ELSE [p EXCEPT !.at = "flags"]
    /\ UNCHANGED <<fleet, count, reports, moves, seen>>

Skip ==
    /\ count' = [count EXCEPT !.skipped = @ + 1]
    /\ pass' = Onward(pass)

\* Mutant: owner-only automations are not left alone.
getAutomation_OwnerOnlyToo ==
    /\ pass.at = "flags"
    /\ IF AutoAt(Here).active
       THEN /\ pass' = [pass EXCEPT !.at = "trigger"]
            /\ seen' = [seen EXCEPT ![Here].still = TRUE]
            /\ UNCHANGED count
       ELSE Skip /\ seen' = [seen EXCEPT ![Here].outcome = "skipped"]
    /\ UNCHANGED <<fleet, reports, moves>>

getAutomation ==
    /\ pass.at = "flags"
    /\ IF Public(AutoAt(Here))
       THEN /\ pass' = [pass EXCEPT !.at = "trigger"]
            /\ seen' = [seen EXCEPT ![Here].still = TRUE]
            /\ UNCHANGED count
       ELSE Skip /\ seen' = [seen EXCEPT ![Here].outcome = "skipped"]
    /\ UNCHANGED <<fleet, reports, moves>>

\* The view answers false for an automation that is inactive by now, and for a
\* condition that reverts.
isTriggerMet ==
    /\ pass.at = "trigger"
    /\ IF AutoAt(Here).active /\ AutoAt(Here).trigger = "met"
       THEN pass' = [pass EXCEPT !.at = "execute"] /\ UNCHANGED <<count, seen>>
       ELSE Skip /\ seen' = [seen EXCEPT ![Here].outcome = "skipped"]
    /\ UNCHANGED <<fleet, reports, moves>>

\* reportFailure: without the secret nothing is sent; a request that fails is
\* forgotten, an answer of any kind is not looked at.
Reported(path, hash, data, posted) ==
    /\ posted => secret
    /\ reports' = IF posted
                  THEN reports \cup {[of |-> Here, path |-> path, hash |-> hash, errorData |-> data,
                                     reason |-> decodeRevert(data)]}
                  ELSE reports

\* So a check fails only when its call does (or when a condition answers with a
\* word that is no bool, which none of the repository does); the keeper reports
\* the automation.
triggerCheckFails ==
    /\ pass.at = "trigger"
    /\ Skip
    /\ \E posted \in BOOLEAN :
           /\ Reported("trigger-check", FALSE, NoData, posted)
           /\ seen' = [seen EXCEPT ![Here].outcome = "skipped", ![Here].lost = TRUE,
                                   ![Here].silent = ~posted]
    /\ UNCHANGED <<fleet, moves>>

\* The run is mined, as the vault then is; a gas limit is given, so nothing
\* simulates it before.  Its trigger is left as the run leaves it: a schedule
\* unmet, a condition on a balance perhaps still met.
sendExecution ==
    /\ pass.at = "execute"
    /\ pass' = [pass EXCEPT !.at = "mined",
                           !.mined = IF Runs(AutoAt(Here)) THEN "executed" ELSE "reverted"]
    /\ IF Runs(AutoAt(Here))
       THEN /\ \E t \in Trigger : fleet' = [fleet EXCEPT ![pass.v][pass.i].trigger = t]
            /\ seen' = [seen EXCEPT ![Here].ran = @ + 1]
       ELSE UNCHANGED <<fleet, seen>>
    /\ UNCHANGED <<count, reports, moves>>

Failed(hash, data, lost) ==
    /\ count' = [count EXCEPT !.failed = @ + 1]
    /\ pass' = Onward([pass EXCEPT !.mined = "none"])
    /\ \E posted \in BOOLEAN :
           /\ Reported("execution", hash, data, posted)
           /\ seen' = [seen EXCEPT ![Here].outcome = "failed", ![Here].lost = lost,
                                   ![Here].silent = ~posted]

\* A development node runs the transaction as it is sent and answers with the
\* data of the revert.
sendReverts ==
    /\ pass.at = "execute"
    /\ ~Runs(AutoAt(Here))
    /\ Failed(FALSE, RevertOf(AutoAt(Here)), FALSE)
    /\ UNCHANGED <<fleet, moves>>

\* The node does not take the transaction.
sendFails ==
    /\ pass.at = "execute"
    /\ Failed(FALSE, NoData, TRUE)
    /\ UNCHANGED <<fleet, moves>>

\* Mutant: the receipt of a reverted run counts as an execution.
wait_AnyReceipt ==
    /\ pass.at = "mined"
    /\ count' = [count EXCEPT !.executed = @ + 1] /\ pass' = Onward([pass EXCEPT !.mined = "none"])
    /\ seen' = [seen EXCEPT ![Here].outcome = "executed"]
    /\ UNCHANGED <<fleet, moves, reports>>

\* tx.wait: a receipt of a run that was made, an exception without data for a
\* reverted one.
wait ==
    /\ pass.at = "mined"
    /\ IF pass.mined = "executed"
       THEN /\ count' = [count EXCEPT !.executed = @ + 1]
            /\ pass' = Onward([pass EXCEPT !.mined = "none"])
            /\ seen' = [seen EXCEPT ![Here].outcome = "executed"]
            /\ UNCHANGED reports
       ELSE Failed(TRUE, NoData, FALSE)
    /\ UNCHANGED <<fleet, moves>>

\* The answer is lost, whatever became of the run.
waitFails ==
    /\ pass.at = "mined"
    /\ Failed(TRUE, NoData, TRUE)
    /\ UNCHANGED <<fleet, moves>>

\* Every other call is outside the try blocks: the script ends.
abort ==
    /\ pass.at \in {"start", "vault", "flags"}
    /\ pass' = [pass EXCEPT !.at = "aborted"]
    /\ UNCHANGED <<fleet, count, reports, moves, seen>>

\* Owners and other keepers: an automation is paused or resumed.
others(a) ==
    /\ moves < MaxMoves /\ pass.at \notin {"done", "aborted"}
    /\ fleet' = [fleet EXCEPT ![a[1]][a[2]].active = ~@]
    /\ moves' = moves + 1
    /\ seen' = [seen EXCEPT ![a].still = FALSE, ![a].due = FALSE]
    /\ UNCHANGED <<pass, count, reports>>

\* Its trigger comes or goes, or begins to revert: by a run, of another keeper
\* or of another automation that shares the money or the context, by the clock,
\* by the owner.
othersTrigger(a, t) ==
    /\ moves < MaxMoves /\ pass.at \notin {"done", "aborted"}
    /\ t # AutoAt(a).trigger
    /\ fleet' = [fleet EXCEPT ![a[1]][a[2]].trigger = t]
    /\ moves' = moves + 1
    /\ seen' = [seen EXCEPT ![a].still = FALSE, ![a].due = FALSE]
    /\ UNCHANGED <<pass, count, reports>>

\* A run of it ends otherwise now: a protocol changes, the vault's gas deposit
\* is used up or filled, its steps are edited.
othersBreak(a, e) ==
    /\ moves < MaxMoves /\ pass.at \notin {"done", "aborted"}
    /\ e # AutoAt(a).ending
    /\ fleet' = [fleet EXCEPT ![a[1]][a[2]].ending = e]
    /\ moves' = moves + 1
    /\ seen' = [seen EXCEPT ![a].still = FALSE]
    /\ UNCHANGED <<pass, count, reports>>

\* A vault gets one more automation; all of a vault have its owner.
othersAdd(v) ==
    /\ moves < MaxMoves /\ pass.at \notin {"done", "aborted"}
    /\ Len(fleet[v]) < 3
    /\ \E mine \in BOOLEAN :
           /\ fleet[v] # <<>> => mine = fleet[v][1].mine
           /\ fleet' = [fleet EXCEPT ![v] = Append(@, [NewAutomation EXCEPT !.mine = mine])]
    /\ moves' = moves + 1
    /\ seen' = [a \in AutomationIds \cup {<<v, Len(fleet[v]) + 1>>} |->
                  IF a \in AutomationIds THEN seen[a] ELSE [Unseen EXCEPT !.due = FALSE]]
    /\ UNCHANGED <<pass, count, reports>>

KeeperStep ==
    \/ readVaultCount \/ openVault \/ getAutomation \/ isTriggerMet
    \/ sendExecution \/ wait

KeeperNext ==
    /\ UNCHANGED secret
    /\ \/ KeeperStep
       \/ triggerCheckFails \/ sendReverts \/ sendFails \/ waitFails \/ abort
       \/ \E a \in AutomationIds : others(a)
       \/ \E a \in AutomationIds, t \in Trigger : othersTrigger(a, t)
       \/ \E a \in AutomationIds, e \in Ending : othersBreak(a, e)
       \/ \E v \in DOMAIN fleet : othersAdd(v)

KeeperSpec == KeeperInit /\ [][KeeperNext]_keeperVars

-----------------------------------------------------------------------------
(* Properties of the pass.                                                  *)

\* Nothing is left out: when a pass ends by itself, every automation that was
\* there at its start has been dealt with, and one that could be executed all
\* the time was tried, unless the call that asked for its trigger failed
\* (execute-automations.ts: "executes every externally-executable automation
\* across all registered vaults").
EveryDueTried ==
    pass.at = "done" =>
      \A v \in DOMAIN Fleet : \A i \in DOMAIN Fleet[v] :
        LET s == seen[<<v, i>>] x == Fleet[v][i] IN
          /\ s.outcome # "none"
          /\ s.due /\ Public(x) /\ x.trigger = "met" /\ ~s.lost => s.outcome \in {"executed", "failed"}

\* The reverts of a call the keeper should not have made: the three things it
\* looks at before (execute-automations.ts, lines 6-9).
Refusal == {"AutomationNotActive", "CallerNotOwner", "TriggerNotMet"}

\* What the keeper says of an automation is so, unless an answer was lost: an
\* execution was made, once; a failure is a run that was not made, and if nobody
\* touched the automation since its flags were read, not for want of what the
\* keeper looked at: the run fails of itself, in a step, at the step limit, for
\* gas or at its settlement.
OutcomeTrue(a) ==
    LET s == seen[a] IN
      /\ s.outcome = "executed" => s.ran = 1
      /\ s.outcome = "failed" /\ ~s.lost =>
            /\ s.ran = 0
            /\ s.still => ~Runs(AutoAt(a)) /\ RevertOf(AutoAt(a)).name \notin Refusal

\* A report is of an automation that failed, or whose check did, and of the path
\* it took; a failure has one, unless it was kept silent, as all are without the
\* secret.  A reason that names a step is that of a step that reverted, with its
\* message if it has one, and never the wrapper's name.
ReportsTrue ==
    /\ \A a \in AutomationIds :
         seen[a].outcome = "failed" /\ ~seen[a].silent =>
             \E r \in reports : r.of = a /\ r.path = "execution"
    /\ ~secret => reports = {}
    /\ \A r \in reports :
         /\ ~seen[r.of].silent
         /\ IF r.path = "execution" THEN seen[r.of].outcome = "failed"
            ELSE seen[r.of].outcome = "skipped" /\ seen[r.of].lost
         /\ r.reason.step # 0 =>
               r.errorData.name \in Wrapper /\ r.errorData.step = r.reason.step
         /\ r.reason.text = "message" => r.errorData.reason = "known"
         /\ r.reason.text \notin Wrapper

\* The counters add up.
CountsTrue ==
    \A o \in {"executed", "skipped", "failed"} :
        count[o] = Cardinality({a \in AutomationIds : seen[a].outcome = o})

OutcomesTrue == (\A a \in AutomationIds : OutcomeTrue(a)) /\ ReportsTrue /\ CountsTrue

KeeperServes == EveryDueTried /\ OutcomesTrue
=============================================================================
