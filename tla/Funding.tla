------------------------------- MODULE Funding -------------------------------
(***************************************************************************)
(* Money through the browser: the wizard that creates a vault and makes the *)
(* first deposit, and on the vault's page the forms that deposit, withdraw, *)
(* top up the gas reserve and set its minimum.  A click starts a run, which *)
(* has the wallet sign one transaction after another and waits for each     *)
(* receipt; receipts time out, wallets refuse, and a run goes on when its   *)
(* page is left.  No step looks at the status of a receipt.                 *)
(***************************************************************************)
EXTENDS Integers, Sequences, FiniteSets

CONSTANTS
    Run,        \* numbers of runs; bounds the clicks
    Sum,        \* amounts an owner types
    Rates,      \* fee rates of the registry, in basis points
    Wealth,     \* tokens of the owner when the exploration begins
    MaxMoves,   \* bound: what others do, pages opened anew, refreshes
    MaxReads    \* bound: reads of the gas card under way

VARIABLES
    page,       \* wizard step, or what is used of the vault's page: "vault" or "card"
    ledger,     \* on chain: what the transactions change
    strict,     \* the token refuses to change an allowance that is not 0, as USDT does
    rates,      \* on chain: the registry's fee rates
    mempool,    \* the owner's transactions that are not mined, in nonce order
    moves,      \* what counts against MaxMoves
    known,      \* allowance and rates as the page has read them
    steps,      \* the step each form is at
    runs,       \* the runs under way, and how the last ones ended
    card,       \* what the gas card shows
    reads       \* its reads under way, oldest first

fundingVars == <<page, ledger, strict, rates, mempool, moves, known, steps, runs, card, reads>>
chainVars == <<ledger, strict, rates, mempool>>
cardVars == <<card, reads>>

Unlimited == 1000

\* Amounts and rates are unsigned; an unlimited allowance covers every amount.
ASSUME FundingAssumption ==
    /\ Sum \subseteq 0 .. Unlimited /\ Wealth \in Nat
    /\ Rates \subseteq [deposit : Nat, withdraw : Nat]

Form == {"create", "deposit", "withdraw", "topUp", "minimum"}
NoRun == [at |-> "none"]
NoData == [reserve |-> -1, minimum |-> -1]
NotRead == [reserve |-> -2, minimum |-> -2]
Failed == [reserve |-> -3, minimum |-> -3]

Fee(amount, bps) == (amount * bps) \div 10000
Over(r) == runs[r].at \in {"none", "done", "failed"}
OnCard(form) == form \in {"topUp", "minimum"}
Reserve(l) == [reserve |-> l.reserve, minimum |-> l.minimum]

Fresh == [f \in Form |-> "idle"]
Read(by) == [by |-> by, answer |-> NotRead, old |-> FALSE]

FundingInit ==
    /\ page \in {"setup", "vault", "card"}
    /\ \E allowance \in IF page = "vault" THEN {0, 1, Unlimited} ELSE {0} :
         ledger = [wallet |-> Wealth, allowance |-> allowance, minimum |-> 0,
                   reserve |-> IF page = "card" THEN 1 ELSE 0,
                   vault |-> IF page = "setup" THEN 0 ELSE 2,
                   vaults |-> IF page = "setup" THEN 0 ELSE 1]
    /\ strict \in (IF page = "card" THEN {FALSE} ELSE BOOLEAN)
    /\ rates \in Rates
    /\ mempool = <<>> /\ moves = 0
    /\ \E q \in Rates : known = [allowance |-> 0, rates |-> q]
    /\ steps = Fresh
    /\ runs = [r \in Run |-> NoRun]
    /\ card = [data |-> NoData, loading |-> page = "card", error |-> FALSE, doubt |-> FALSE]
    /\ reads = IF page = "card" THEN <<Read({})>> ELSE <<>>

---------------------------------------------------------------------------
(* Clicks.                                                                  *)

\* Mutant: the allowance of a strict token is raised as it is.
depositPlan_NoReset(amount) ==
    IF known.allowance < amount THEN <<"approve", "deposit">> ELSE <<"deposit">>

\* approveAndDeposit: approve if the allowance is too small as far as the page
\* knows, and take what is left of it back first if the token asks for that.
depositPlan(amount) ==
    LET needsApproval == known.allowance < amount
        needsResetToZero == needsApproval /\ known.allowance > 0 /\ strict
    IN  CASE needsResetToZero -> <<"reset", "approve", "deposit">>
          [] needsApproval /\ ~needsResetToZero -> <<"approve", "deposit">>
          [] OTHER -> <<"deposit">>

Plan(form, amount) == IF form = "deposit" THEN depositPlan(amount) ELSE <<form>>

\* What a form does while it is busy cannot be done twice; a deposit that waits
\* for its receipt is not among it.
busy(form) ==
    CASE form = "create" -> steps[form] \in {"confirming", "waiting", "registering"}
      [] form = "deposit" -> steps[form] \in {"checking", "approving", "depositing"}
      [] form = "withdraw" -> steps[form] \in {"confirming", "waiting"}
      [] OTHER -> steps[form] = "sending"

Shown(form) ==
    CASE page = "create" -> form = "create"
      [] page = "deposit" -> form = "deposit" /\ steps[form] # "done"
      [] page = "vault" -> form \in {"deposit", "withdraw"}
      [] page = "card" -> OnCard(form) /\ card.data # NoData /\ ~card.error
      [] OTHER -> FALSE

\* The step before the wallet is asked for a transaction.
Asking(what) ==
    CASE what \in {"reset", "approve"} -> "approving"
      [] what = "deposit" -> "depositing"
      [] what \in {"create", "withdraw"} -> "confirming"
      [] OTHER -> "sending"

\* The page's knowledge is right, the amounts are there, and nothing else moves.
NothingElse(form, amount) ==
    /\ \A r \in Run : Over(r)
    /\ mempool = <<>>
    /\ form = "deposit" => known.allowance = ledger.allowance /\ amount <= ledger.wallet
    /\ form \in {"withdraw", "topUp"} => amount <= ledger.vault
    /\ form \in {"deposit", "withdraw"} => known.rates = rates

Clouded(rs) == [r \in Run |-> IF rs[r] = NoRun THEN NoRun ELSE [rs[r] EXCEPT !.clear = FALSE]]

\* "shown", "clear" and "before" are history: the rates the form has shown, whether
\* nothing else moved since the click, and what the ledger was then.
click(r, form, amount) ==
    /\ runs[r] = NoRun /\ \A q \in Run : q < r => runs[q] # NoRun
    /\ Shown(form) /\ ~busy(form)
    /\ LET plan == Plan(form, amount) IN
         /\ runs' = [Clouded(runs) EXCEPT ![r] =
              [at |-> "sign", form |-> form, plan |-> plan, amount |-> amount, tx |-> "none",
               mounted |-> TRUE, shown |-> known.rates,
               clear |-> NothingElse(form, amount), before |-> ledger]]
         /\ steps' = [steps EXCEPT ![form] = Asking(plan[1])]
    /\ UNCHANGED <<page, chainVars, moves, known, cardVars>>

---------------------------------------------------------------------------
(* A run and the chain.                                                     *)

Goes(r, run, step) ==
    /\ runs' = [runs EXCEPT ![r] = run]
    /\ steps' = IF run.mounted THEN [steps EXCEPT ![run.form] = step] ELSE steps

sign(r) ==
    LET run == runs[r] IN
    /\ run.at = "sign"
    /\ mempool' = Append(mempool, [what |-> run.plan[1], amount |-> run.amount, run |-> {r}])
    /\ Goes(r, [run EXCEPT !.at = "wait", !.tx = "sent"],
            CASE run.plan[1] = "deposit" -> "confirming"
              [] run.form \in {"create", "withdraw"} -> "waiting"
              [] OTHER -> steps[run.form])
    /\ UNCHANGED <<page, ledger, strict, rates, moves, known, cardVars>>

\* The wallet refuses, or cannot be reached.
reject(r) ==
    /\ runs[r].at = "sign"
    /\ Goes(r, [runs[r] EXCEPT !.at = "failed"], "error")
    /\ UNCHANGED <<page, chainVars, moves, known, cardVars>>

Paid(what, amount, l) ==
    CASE what = "deposit" ->
           [l EXCEPT !.wallet = @ - amount, !.vault = @ + amount - Fee(amount, rates.deposit),
                     !.allowance = IF @ = Unlimited THEN @ ELSE @ - amount]
      [] what = "withdraw" ->
           [l EXCEPT !.vault = @ - amount, !.wallet = @ + amount - Fee(amount, rates.withdraw)]
      [] what = "topUp" -> [l EXCEPT !.vault = @ - amount, !.reserve = @ + amount]
      [] what = "minimum" -> [l EXCEPT !.minimum = amount]
      [] what = "reset" -> [l EXCEPT !.allowance = 0]
      [] what = "approve" -> [l EXCEPT !.allowance = Unlimited]
      [] what = "create" -> [l EXCEPT !.vaults = @ + 1]

\* The contracts take a transaction; the factory may refuse the token at any time.
Taken(what, amount, ok) ==
    /\ what = "deposit" => (ok <=> amount <= ledger.allowance /\ amount <= ledger.wallet)
    /\ what \in {"withdraw", "topUp"} => (ok <=> amount <= ledger.vault)
    /\ what = "approve" => (ok <=> (strict => ledger.allowance = 0))
    /\ what \in {"reset", "minimum"} => ok

\* "doubt" and "old" are history: what the card shows, or an answer on its way, is
\* older than a change of the reserve that no run of the card waits for.
unseen ==
    LET moved == Reserve(ledger') # Reserve(ledger) IN
    /\ card' = [card EXCEPT !.doubt = @ \/ moved]
    /\ reads' = [i \in DOMAIN reads |->
         [reads[i] EXCEPT !.old = @ \/ (moved /\ reads[i].answer # NotRead)]]

mine ==
    /\ mempool # <<>>
    /\ LET tx == Head(mempool) IN \E ok \in BOOLEAN :
         /\ Taken(tx.what, tx.amount, ok)
         /\ ledger' = IF ok THEN Paid(tx.what, tx.amount, ledger) ELSE ledger
         /\ runs' = [r \in Run |->
              IF r \in tx.run THEN [runs[r] EXCEPT !.tx = IF ok THEN "ok" ELSE "reverted"]
              ELSE IF runs[r] # NoRun THEN [runs[r] EXCEPT !.clear = FALSE] ELSE NoRun]
         /\ IF \E r \in tx.run : runs[r].mounted THEN UNCHANGED cardVars ELSE unseen
    /\ mempool' = Tail(mempool)
    /\ UNCHANGED <<page, strict, rates, moves, known, steps>>

Move == moves < MaxMoves /\ moves' = moves + 1

\* Executors are paid from the reserve, automations spend the vault's tokens, the
\* registry's owner changes the rates.
others ==
    /\ Move
    /\ ledger.vaults > 0
    /\ \/ /\ ledger.reserve > 0
          /\ ledger' = [ledger EXCEPT !.reserve = @ - 1]
          /\ UNCHANGED rates
       \/ /\ ledger.vault > 0
          /\ ledger' = [ledger EXCEPT !.vault = @ - 1]
          /\ UNCHANGED rates
       \/ rates' \in Rates \ {rates} /\ UNCHANGED ledger
    /\ runs' = Clouded(runs)
    /\ unseen
    /\ UNCHANGED <<page, strict, mempool, known, steps>>

\* A receipt: the next transaction of the plan, or the end of it.  Only the wizard
\* looks into one, for the event that tells the vault's address.
receipt(r) ==
    LET run == runs[r]
        rest == Tail(run.plan)
    IN
    /\ run.at = "wait" /\ run.tx \in {"ok", "reverted"}
    /\ IF rest # <<>>
       THEN /\ Goes(r, [run EXCEPT !.at = "sign", !.plan = rest, !.tx = "none"], Asking(rest[1]))
            /\ UNCHANGED <<page, cardVars>>
       ELSE CASE run.form = "create" ->
                   /\ IF run.tx = "ok"
                      THEN Goes(r, [run EXCEPT !.at = "register"], "registering")
                      ELSE Goes(r, [run EXCEPT !.at = "failed"], "error")
                   /\ UNCHANGED <<page, cardVars>>
              [] OnCard(run.form) /\ run.mounted ->
                   /\ Len(reads) < MaxReads
                   /\ runs' = [runs EXCEPT ![r].at = "fetch"]
                   /\ reads' = Append(reads, Read({r}))
                   /\ card' = [card EXCEPT !.loading = TRUE, !.error = FALSE]
                   /\ UNCHANGED <<page, steps>>
              [] OTHER ->
                   /\ Goes(r, [run EXCEPT !.at = "done"], "done")
                   /\ page' = IF run.mounted /\ page = "deposit" THEN "done" ELSE page
                   /\ UNCHANGED cardVars
    /\ UNCHANGED <<chainVars, moves, known>>

\* The receipt did not come in time; the transaction may still be mined.
timeout(r) ==
    LET run == runs[r] IN
    /\ run.at = "wait" /\ run.tx = "sent"
    /\ mempool' = [i \in DOMAIN mempool |-> [mempool[i] EXCEPT !.run = @ \ {r}]]
    /\ Goes(r, [run EXCEPT !.at = "failed", !.tx = "late"], "error")
    /\ UNCHANGED <<page, ledger, strict, rates, moves, known, cardVars>>

\* registerVault ends, however the backend answered; a first deposit may follow.
registered(r) ==
    /\ runs[r].at = "register"
    /\ Goes(r, [runs[r] EXCEPT !.at = "done"], "done")
    /\ page' \in {"deposit", "done"}
    /\ UNCHANGED <<chainVars, moves, known, cardVars>>

---------------------------------------------------------------------------
(* Pages.                                                                   *)

turn ==
    /\ \/ page = "setup" /\ page' = "create"
       \/ page = "create" /\ ~busy("create") /\ page' = "setup"
       \/ page = "deposit" /\ ~busy("deposit") /\ page' = "done"
    /\ UNCHANGED <<chainVars, moves, known, steps, runs, cardVars>>

\* The vault's page is opened, from the wizard's end or anew: its forms begin
\* afresh, and what still runs no longer reaches a form.
openVault ==
    /\ page \in {"done", "vault", "card"} /\ Move
    /\ page' = IF page = "done" THEN "vault" ELSE page
    /\ \E q \in Rates : known' = [allowance |-> 0, rates |-> q]
    /\ steps' = Fresh
    /\ runs' = [r \in Run |->
         IF runs[r] = NoRun THEN NoRun
         ELSE IF runs[r].at = "fetch" THEN [runs[r] EXCEPT !.at = "done", !.mounted = FALSE]
         ELSE [runs[r] EXCEPT !.mounted = FALSE]]
    /\ card' = [data |-> NoData, loading |-> page = "card", error |-> FALSE, doubt |-> FALSE]
    /\ reads' = IF page = "card" THEN <<Read({})>> ELSE <<>>
    /\ UNCHANGED chainVars

\* The allowance query is answered, the first time or again.
readAllowance ==
    /\ ledger.vaults > 0 /\ page # "card"
    /\ known' = [known EXCEPT !.allowance = ledger.allowance]
    /\ UNCHANGED <<page, chainVars, moves, steps, runs, cardVars>>

refresh ==
    /\ page = "card" /\ (~card.loading \/ card.error) /\ Len(reads) < MaxReads /\ Move
    /\ reads' = Append(reads, Read({}))
    /\ card' = [card EXCEPT !.loading = TRUE, !.error = FALSE]
    /\ UNCHANGED <<page, chainVars, known, steps, runs>>

\* The backend reads the chain.
readChain(i) ==
    /\ reads[i].answer = NotRead
    /\ \E answer \in {Reserve(ledger), Failed} : reads' = [reads EXCEPT ![i].answer = answer]
    /\ UNCHANGED <<page, chainVars, moves, known, steps, runs, card>>

\* An answer arrives, perhaps before that of an earlier read; the form whose run
\* asked for it is free again.
arrive(i) ==
    LET q == reads[i]
        left == [j \in 1 .. Len(reads) - 1 |->
                      IF j < i THEN [reads[j] EXCEPT !.old = TRUE] ELSE reads[j + 1]]
    IN
    /\ q.answer # NotRead
    /\ reads' = left
    /\ card' = IF q.answer = Failed
               THEN [card EXCEPT !.loading = FALSE, !.error = TRUE]
               ELSE [card EXCEPT !.loading = FALSE, !.data = q.answer, !.doubt = q.old]
    /\ \/ q.by = {} /\ UNCHANGED <<steps, runs>>
       \/ \E r \in q.by : Goes(r, [runs[r] EXCEPT !.at = "done"], "done")
    /\ UNCHANGED <<page, chainVars, moves, known>>

FundingNext ==
    \/ \E r \in Run :
         \/ click(r, "create", 0)
         \/ \E form \in Form \ {"create"}, amount \in Sum : click(r, form, amount)
         \/ sign(r) \/ reject(r) \/ receipt(r) \/ timeout(r) \/ registered(r)
    \/ mine \/ others \/ turn \/ openVault \/ readAllowance \/ refresh
    \/ \E i \in DOMAIN reads : readChain(i) \/ arrive(i)

FundingSpec == FundingInit /\ [][FundingNext]_fundingVars

---------------------------------------------------------------------------

\* What a run is to do, with the fee the form has shown.
Promised(run) ==
    LET l == run.before IN
    CASE run.form = "deposit" ->
           /\ ledger.wallet = l.wallet - run.amount
           /\ ledger.vault = l.vault + run.amount - Fee(run.amount, run.shown.deposit)
      [] run.form = "withdraw" ->
           /\ ledger.vault = l.vault - run.amount
           /\ ledger.wallet = l.wallet + run.amount - Fee(run.amount, run.shown.withdraw)
      [] run.form = "topUp" ->
           ledger.vault = l.vault - run.amount /\ ledger.reserve = l.reserve + run.amount
      [] run.form = "minimum" -> ledger.minimum = run.amount
      [] run.form = "create" -> ledger.vaults = l.vaults + 1

\* A run that began with a page that knew the chain, and that nothing crossed, did
\* what its form says: all of it when it ended well - no transaction of it was
\* reverted, though nobody asked the receipts - and none of it when it failed,
\* unless its last transaction was still to be mined.
RunsTellTruth ==
    \A r \in Run : Over(r) /\ runs[r] # NoRun /\ runs[r].clear =>
       LET run == runs[r]
           l == [run.before EXCEPT !.allowance = ledger.allowance]
       IN  IF run.at = "done" THEN Promised(run) ELSE run.tx # "late" => ledger = l

\* The gas card shows what is on chain once its reads are answered, unless an older
\* answer came last or others moved the reserve after it was read.
CardTellsTruth ==
    (reads = <<>> /\ card.data # NoData /\ ~card.error /\ ~card.doubt)
      => \/ card.data = Reserve(ledger)
         \/ \E r \in Run : ~Over(r) /\ OnCard(runs[r].form)

\* The browser does not misinform an owner about money (create.tsx,
\* use-approve-and-deposit.ts, use-withdraw.ts, gas-deposit-card.tsx).
FundsTellTruth == RunsTellTruth /\ CardTellsTruth
=============================================================================
