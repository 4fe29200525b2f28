----------------------------- MODULE PolicyGate -----------------------------
(***************************************************************************)
(* The MCP server signs with the owner's key on behalf of a language model. *)
(* Every writing tool passes one gate: read-only mode rejects it; a         *)
(* sensitive one waits for the owner, asked through the client or, where    *)
(* the client cannot ask, on a page of a local server; then its plan of     *)
(* transactions and backend calls runs step by step.  Each decision is      *)
(* appended to an audit file before the next one, and any append may fail.  *)
(*                                                                         *)
(* Tool calls run concurrently and interleave at every await.  A call has   *)
(* a token of its own, so the token of a pending page is the call itself.   *)
(***************************************************************************)
EXTENDS Naturals, Sequences, FiniteSets

CONSTANTS
    Call,     \* tool calls of one server process
    Draft,    \* automation drafts proposed to it
    NoDraft,  \* a call that deploys no draft
    Tool      \* the writing tools in use

VARIABLES
    readOnly,   \* the server's configuration
    elicits,    \* whether the connected client can ask its user
    server,     \* the local confirmation server: off, starting, up
    pending,    \* PendingApprovals: calls whose page may still be answered
    drafts,     \* the draft store, and what its entries are
    call        \* the tool calls

gateVars == <<readOnly, elicits, server, pending, drafts, call>>

\* The steps that broadcast a transaction; the others talk to the backend.
Signing == {"reset", "approve", "context", "automation", "send"}
PlanStep == Signing \cup {"encode", "register"}

\* The plans of each tool, by what the chain and the backend answer: whether
\* the allowance suffices, whether the context must be extended first.
Plans(tool) ==
    CASE tool = "create_vault" -> {<<"send", "register">>}
      [] tool = "deploy_automation" ->
            {<<"encode", "automation", "register">>,
             <<"encode", "context", "automation", "register">>}
      [] tool = "deposit" ->
            {<<"send">>, <<"approve", "send">>, <<"reset", "approve", "send">>}
      [] OTHER -> {<<"send">>}

AllTools == {"create_vault", "deploy_automation", "deposit", "withdraw",
             "top_up_gas_deposit", "activate", "pause"}

ASSUME GateAssumption == Tool \subseteq AllTools /\ NoDraft \notin Draft

\* The owner must agree; a deployment only if it names a recipient.
Sensitive(tool, d) ==
    IF tool = "deploy_automation" THEN drafts[d].kind = "recipient"
    ELSE tool \notin {"top_up_gas_deposit", "pause"}

DraftState == [kind : {"plain", "recipient", "blocked"}, row : BOOLEAN,
               stored : {"no", "held", "gone"}]

Outcome == {"rejected", "requested", "timeout", "denied", "approved", "success", "error"}

Phase == {"idle", "rejecting", "requesting", "asking", "starting", "page",
          "unanswered", "refused", "agreed", "executing", "executed", "failed",
          "returned", "thrown"}

\* `heard` is history: what the owner answered first, while it was asked.
\* `lost` is history: the audit entries that could not be appended.
CallState == [phase : Phase, sensitive : BOOLEAN,
              draft : Draft \cup {NoDraft}, plan : Seq(PlanStep), done : Nat,
              signed : SUBSET Signing, heard : {"none", "yes", "no"},
              log : Seq(Outcome), lost : SUBSET Outcome]

Fresh == [phase |-> "idle", sensitive |-> FALSE, draft |-> NoDraft,
          plan |-> <<>>, done |-> 0, signed |-> {}, heard |-> "none",
          log |-> <<>>, lost |-> {}]

GateTypeOK ==
    /\ readOnly \in BOOLEAN /\ elicits \in BOOLEAN
    /\ server \in {"off", "starting", "up"}
    /\ pending \subseteq Call
    /\ drafts \in [Draft -> DraftState]
    /\ call \in [Call -> CallState]

GateInit ==
    /\ readOnly \in BOOLEAN /\ elicits \in BOOLEAN
    /\ server = "off"
    /\ pending = {}
    /\ drafts \in [Draft -> [kind : {"plain", "recipient", "blocked"},
                             row : {FALSE}, stored : {"no"}]]
    /\ call = [c \in Call |-> Fresh]

Go(c, phase) == call' = [call EXCEPT ![c].phase = phase]

\* AuditLog.record: on to `next` once the line is appended, else the append
\* throws and the call goes on at `broken`.
Record(c, from, outcome, next, broken) ==
    /\ call[c].phase = from
    /\ \/ call' = [call EXCEPT ![c].log = Append(@, outcome), ![c].phase = next]
       \/ call' = [call EXCEPT ![c].lost = @ \cup {outcome}, ![c].phase = broken]
    /\ UNCHANGED <<readOnly, elicits, server, pending, drafts>>

(***************************************************************************)
(* Drafts.                                                                 *)
(***************************************************************************)

\* proposeAutomation, up to the creation of the backend row.
postDraft(d) ==
    /\ drafts[d].stored = "no" /\ ~drafts[d].row
    /\ drafts' = [drafts EXCEPT ![d].row = TRUE]
    /\ UNCHANGED <<readOnly, elicits, server, pending, call>>

\* The graph encodes and agrees with the stated intent: the draft is kept.
storeDraft(d) ==
    /\ drafts[d].stored = "no" /\ drafts[d].row
    /\ drafts' = [drafts EXCEPT ![d].stored = "held"]
    /\ UNCHANGED <<readOnly, elicits, server, pending, call>>

\* It does not: the row is deleted again, if that call succeeds.
rejectDraft(d) ==
    /\ drafts[d].stored = "no" /\ drafts[d].row
    /\ \E row \in BOOLEAN :
         drafts' = [drafts EXCEPT ![d].stored = "gone", ![d].row = row]
    /\ UNCHANGED <<readOnly, elicits, server, pending, call>>

\* Ten minutes have passed; the next get deletes the entry.
expireDraft(d) ==
    /\ drafts[d].stored = "held"
    /\ drafts' = [drafts EXCEPT ![d].stored = "gone"]
    /\ UNCHANGED <<readOnly, elicits, server, pending, call>>

\* A store that only reads.
Consumed_Get(d) == drafts

\* DraftStore.consume: reads and removes, before anybody is asked.
Consumed(d) == [drafts EXCEPT ![d].stored = "gone"]

(***************************************************************************)
(* The gate.                                                               *)
(***************************************************************************)

\* guard, up to its first await.
Guarded(sensitive) ==
    IF readOnly THEN "rejecting" ELSE IF sensitive THEN "requesting" ELSE "executing"

\* A tool passes its own checks (vault owned, amount within the limit,
\* recipient allowed, token accepted) and enters the gate, or throws.
callTool(c, tool) ==
    /\ call[c].phase = "idle"
    /\ tool # "deploy_automation"
    /\ \E plan \in Plans(tool), phase \in {Guarded(Sensitive(tool, NoDraft)), "thrown"} :
         call' = [call EXCEPT ![c] =
                    [Fresh EXCEPT !.plan = plan, !.phase = phase,
                                  !.sensitive = Sensitive(tool, NoDraft)]]
    /\ UNCHANGED <<readOnly, elicits, server, pending, drafts>>

\* deployAutomation consumes the draft, then inspects it: a recipient outside
\* the allowlist or a step that is not enabled is thrown out, draft and all.
deployAutomation(c, d) ==
    /\ call[c].phase = "idle"
    /\ "deploy_automation" \in Tool
    /\ drafts[d].stored = "held"
    /\ drafts' = Consumed(d)
    /\ \E plan \in Plans("deploy_automation") :
         call' = [call EXCEPT ![c] =
                    [Fresh EXCEPT !.plan = plan, !.draft = d,
                       !.sensitive = Sensitive("deploy_automation", d),
                       !.phase = IF drafts[d].kind = "blocked" THEN "thrown"
                                 ELSE Guarded(Sensitive("deploy_automation", d))]]
    /\ UNCHANGED <<readOnly, elicits, server, pending>>

\* An unknown, used or expired draft id.
deployUnknown(c, d) ==
    /\ call[c].phase = "idle"
    /\ drafts[d].stored # "held"
    /\ call' = [call EXCEPT ![c] = [Fresh EXCEPT !.phase = "thrown"]]
    /\ UNCHANGED <<readOnly, elicits, server, pending, drafts>>

\* The catch around requestApproval without its throw.
recordTimeout_FallsThrough(c) == Record(c, "unanswered", "timeout", "executing", "thrown")

\* An approval recorded in the background.
recordApproved_NotAwaited(c) == Record(c, "agreed", "approved", "executing", "executing")

recordRejected(c) == Record(c, "rejecting", "rejected", "thrown", "thrown")
recordRequested(c) == Record(c, "requesting", "requested", "asking", "thrown")
recordTimeout(c) == Record(c, "unanswered", "timeout", "thrown", "thrown")
recordDenied(c) == Record(c, "refused", "denied", "thrown", "thrown")
recordApproved(c) == Record(c, "agreed", "approved", "executing", "thrown")

\* The owner's decision, taken while the call waits for it.
Heard(c, yes) ==
    call' = [call EXCEPT ![c].heard = IF yes THEN "yes" ELSE "no",
                         ![c].phase = IF yes THEN "agreed" ELSE "refused"]

\* ElicitationConfirmationProvider: only accepted with confirm = true is a yes.
elicitAnswer(c, yes) ==
    /\ call[c].phase = "asking" /\ elicits
    /\ Heard(c, yes)
    /\ UNCHANGED <<readOnly, elicits, server, pending, drafts>>

\* The SDK's request timeout, or another error: a hard failure, no fallback.
elicitTimeout(c) ==
    /\ call[c].phase = "asking" /\ elicits
    /\ Go(c, "unanswered")
    /\ UNCHANGED <<readOnly, elicits, server, pending, drafts>>

\* requestApproval of the page, where a server is listening already.
openPage(c) ==
    /\ call[c].phase = "asking" /\ ~elicits
    /\ server = "up"
    /\ Go(c, "page")
    /\ pending' = pending \cup {c}
    /\ UNCHANGED <<readOnly, elicits, server, drafts>>

\* #ensureServer: the first caller starts it, the others share its promise.
ensureServer(c) ==
    /\ call[c].phase = "asking" /\ ~elicits
    /\ server # "up"
    /\ Go(c, "starting")
    /\ server' = "starting"
    /\ UNCHANGED <<readOnly, elicits, pending, drafts>>

Starting == {c \in Call : call[c].phase = "starting"}
AllStarting(phase) ==
    [c \in Call |-> IF c \in Starting THEN [call[c] EXCEPT !.phase = phase] ELSE call[c]]

serverListens ==
    /\ server = "starting"
    /\ server' = "up"
    /\ pending' = pending \cup Starting
    /\ call' = AllStarting("page")
    /\ UNCHANGED <<readOnly, elicits, drafts>>

serverFails ==
    /\ server = "starting"
    /\ server' = "off"
    /\ call' = AllStarting("unanswered")
    /\ UNCHANGED <<readOnly, elicits, pending, drafts>>

\* redeem: a token works once, and a click that comes too late finds none.
redeem(c, yes) ==
    /\ c \in pending
    /\ pending' = pending \ {c}
    /\ Heard(c, yes)
    /\ UNCHANGED <<readOnly, elicits, server, drafts>>

\* A page whose race has no timer.
pageTimeout_Never(c) == FALSE /\ UNCHANGED gateVars

pageTimeout(c) ==
    /\ call[c].phase = "page"
    /\ pending' = pending \ {c}
    /\ Go(c, "unanswered")
    /\ UNCHANGED <<readOnly, elicits, server, drafts>>

(***************************************************************************)
(* Execution.                                                              *)
(***************************************************************************)

NextStep(c) == call[c].plan[call[c].done + 1]

\* The next transaction is mined, or the next backend call answered.
perform(c) ==
    /\ call[c].phase = "executing"
    /\ LET steps == call[c].done + 1 IN
         call' = [call EXCEPT
            ![c].done = steps,
            ![c].signed = @ \cup ({NextStep(c)} \cap Signing),
            ![c].phase = IF steps = Len(call[c].plan) THEN "executed" ELSE "executing"]
    /\ UNCHANGED <<readOnly, elicits, server, pending, drafts>>

\* It throws.  A transaction may be out by then: it reverts when mined, or
\* the connection is lost while waiting for the receipt.
performFails(c) ==
    /\ call[c].phase = "executing"
    /\ \E sent \in SUBSET ({NextStep(c)} \cap Signing) :
         call' = [call EXCEPT ![c].signed = @ \cup sent, ![c].phase = "failed"]
    /\ UNCHANGED <<readOnly, elicits, server, pending, drafts>>

\* The success is recorded inside the try, so its failure is an error, too.
recordSuccess(c) == Record(c, "executed", "success", "returned", "failed")
recordError(c) == Record(c, "failed", "error", "thrown", "thrown")

GateStep(c) ==
    \/ \E tool \in Tool : callTool(c, tool)
    \/ \E d \in Draft : deployAutomation(c, d)
    \/ \E d \in Draft : deployUnknown(c, d)
    \/ recordRejected(c)
    \/ recordRequested(c)
    \/ recordTimeout(c)
    \/ recordDenied(c)
    \/ recordApproved(c)
    \/ \E yes \in BOOLEAN : elicitAnswer(c, yes)
    \/ elicitTimeout(c)
    \/ openPage(c)
    \/ ensureServer(c)
    \/ \E yes \in BOOLEAN : redeem(c, yes)
    \/ pageTimeout(c)
    \/ perform(c)
    \/ performFails(c)
    \/ recordSuccess(c)
    \/ recordError(c)

DraftStep(d) == postDraft(d) \/ storeDraft(d) \/ rejectDraft(d) \/ expireDraft(d)

GateNext ==
    \/ \E c \in Call : GateStep(c)
    \/ \E d \in Draft : DraftStep(d)
    \/ serverListens
    \/ serverFails

\* Timers fire and appends and listen() complete; nobody has to answer, and a
\* transaction may never be mined.
GateFairness ==
    /\ \A c \in Call :
         /\ WF_gateVars(recordRequested(c)) /\ WF_gateVars(recordTimeout(c))
         /\ WF_gateVars(recordDenied(c)) /\ WF_gateVars(recordApproved(c))
         /\ WF_gateVars(elicitTimeout(c)) /\ WF_gateVars(pageTimeout(c))
         /\ WF_gateVars(openPage(c)) /\ WF_gateVars(ensureServer(c))
    /\ WF_gateVars(serverListens \/ serverFails)

GateSpec == GateInit /\ [][GateNext]_gateVars /\ GateFairness

(***************************************************************************)
(* Properties.                                                             *)
(***************************************************************************)

Logged(c, outcome) == \E i \in DOMAIN call[c].log : call[c].log[i] = outcome

\* A call that must be confirmed has broadcast a transaction only if the owner
\* said yes to this very call while it was waiting; in read-only mode none has
\* (policy-gate.ts, guard).
SignedOnlyIfApproved ==
    \A c \in Call : call[c].signed # {} =>
        ~readOnly /\ (call[c].sensitive => call[c].heard = "yes")

\* The audit file can be believed: what the last decision of a call says is
\* what happened on chain, an approval is on record before the signature, and
\* an unfinished call is never recorded as a success.  The one exception is a
\* finished call whose success could not be written: it ends as an error.
AuditTellsTruth ==
    \A c \in Call :
        /\ Logged(c, "success") =>
             /\ call[c].done = Len(call[c].plan)
             /\ \A i \in DOMAIN call[c].plan :
                  call[c].plan[i] \in Signing => call[c].plan[i] \in call[c].signed
        /\ (\E o \in {"rejected", "timeout", "denied"} : Logged(c, o)) => call[c].signed = {}
        /\ call[c].sensitive /\ call[c].signed # {} => Logged(c, "approved")
        /\ Logged(c, "error") => call[c].done < Len(call[c].plan) \/ "success" \in call[c].lost
        /\ call[c].phase = "thrown" /\ call[c].signed # {} =>
             Logged(c, "error") \/ "error" \in call[c].lost

\* However often a draft id is passed to deploy_automation, at most one call
\* broadcasts its automation (draft-store.ts, consume).
DraftDeployedOnce ==
    \A c1, c2 \in Call :
        /\ "automation" \in call[c1].signed /\ "automation" \in call[c2].signed
        /\ call[c1].draft = call[c2].draft
        => c1 = c2

\* What is broadcast is what was agreed on: no signature without the owner's answer to
\* this very call, and none a second time for the same draft.
SignedAsAgreed == SignedOnlyIfApproved /\ DraftDeployedOnce

\* A call never waits for ever for its confirmation: it is carried out or
\* refused, also if nobody answers and if the page's server cannot start.
AskEnds ==
    \A c \in Call : call[c].phase = "requesting" ~> call[c].phase \in {"executing", "thrown"}
=============================================================================
