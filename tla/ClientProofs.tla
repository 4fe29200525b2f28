---------------------------- MODULE ClientProofs ----------------------------
(***************************************************************************)
(* The two clients of the backend, for any wallets, requests, sign-ins and  *)
(* tool calls: the browser's session has the tokens of the account the page *)
(* shows, the tools of the MCP server act for the owner it has signed in,   *)
(* with amounts in the units of the chain, and its policy gate has nothing  *)
(* signed without the owner's answer to the very call.                      *)
(***************************************************************************)
EXTENDS Session, McpServer, PolicyGate, SequenceTheorems, TLAPS

Step == {"idle", "sent", "refreshing", "resent", "done"}
RequestState == [step : Step, as : Holder, token : Holder, refresh : Holder, crossed : BOOLEAN]
Storage == [access : Holder, refresh : Holder, wallet : Holder]

\* What the page has stored belongs together.
StorageOK == storage.access = storage.wallet /\ storage.refresh = storage.wallet

\* A refresh under way was begun by the account that is shown.
RefreshOK == \A r \in Request : requests[r].step = "refreshing" => requests[r].refresh = storage.wallet

\* A request that saw no change of session was sent by the account that is
\* shown, as long as it may still be repeated; its token is its sender's.
SenderOK ==
    \A r \in Request :
        ~requests[r].crossed =>
            /\ requests[r].token = requests[r].as
            /\ requests[r].step \in {"sent", "refreshing"} => requests[r].as = storage.wallet

\* The part of the state the argument is about, as one invariant: the stored
\* tokens are those of the account shown only because no refresh of an earlier
\* session is under way.
SessionInv ==
    /\ SessionTypeOK
    /\ ~straddled => StorageOK /\ RefreshOK /\ SenderOK

\* A request after a change of session made outside the requests in `by`.
LEMMA Straddled ==
    ASSUME SessionInv, NEW by, Straddles(by), by \subseteq Request
    PROVE  /\ requests' \in [Request -> RequestState] /\ straddled' \in BOOLEAN
           /\ \A r \in Request :
                 /\ requests'[r].token = requests[r].token /\ requests'[r].as = requests[r].as
                 /\ requests[r].crossed => requests'[r].crossed
                 /\ requests'[r].step = IF r \in by THEN "done" ELSE requests[r].step
                 /\ r \notin by /\ requests[r].step \in {"sent", "refreshing"} => requests'[r].crossed
           /\ ~straddled' => ~straddled /\ \A r \in Request \ by : requests[r].step # "refreshing"
<1>1. requests \in [Request -> RequestState] /\ straddled \in BOOLEAN
  BY DEF SessionInv, SessionTypeOK, RequestState, Step
<1>2. straddled' \in BOOLEAN /\ (~straddled' => ~straddled /\ Refreshing \ by = {})
  BY <1>1 DEF Straddles
<1>3. ASSUME NEW r \in Request
      PROVE  /\ requests'[r] \in RequestState
             /\ requests'[r].token = requests[r].token /\ requests'[r].as = requests[r].as
             /\ requests[r].crossed => requests'[r].crossed
             /\ requests'[r].step = IF r \in by THEN "done" ELSE requests[r].step
             /\ r \notin by /\ requests[r].step \in {"sent", "refreshing"} => requests'[r].crossed
  <2>1. PICK q \in RequestState : q = requests[r] /\ q.crossed \in BOOLEAN
    BY <1>1 DEF RequestState
  <2>2. CASE r \in by
    <3>1. requests'[r] = [q EXCEPT !.step = "done"]
      BY <2>1, <2>2 DEF Straddles
    <3> QED BY <2>1, <2>2, <3>1 DEF RequestState, Step
  <2>3. CASE r \notin by
    <3>1. PICK c \in BOOLEAN : c <=> (q.crossed \/ q.step \in {"sent", "refreshing"})
      <4>1. (q.crossed \/ q.step \in {"sent", "refreshing"}) \in BOOLEAN
        BY <2>1
      <4> QED BY <4>1
    <3>2. (q.crossed \/ q.step \in {"sent", "refreshing"}) = c
      BY <2>1, <3>1
    <3>3. requests'[r] = [q EXCEPT !.crossed = c]
      BY <2>1, <2>3, <3>2 DEF Straddles
    <3> QED BY <2>1, <2>3, <3>1, <3>3 DEF RequestState
  <2> QED BY <2>2, <2>3
<1>4. requests' \in [Request -> RequestState]
  <2>1. requests' = [r \in Request |-> requests'[r]]
    BY DEF Straddles
  <2> QED BY <1>3, <2>1
<1>5. Refreshing \ by = {} => \A r \in Request \ by : requests[r].step # "refreshing"
  BY DEF Refreshing
<1> QED BY <1>2, <1>3, <1>4, <1>5

\* A new session: nothing that was begun in the old one counts.
LEMMA NewSession ==
    ASSUME SessionInv, NEW by, by \subseteq Request, Straddles(by), NEW a \in Holder,
           storage' = Stored(a), signIn' = signIn \/ signIn' = NoSignIn, UNCHANGED signIns
    PROVE  SessionInv'
<1>1. storage' \in Storage /\ storage'.access = a /\ storage'.refresh = a /\ storage'.wallet = a
  BY DEF Stored, Storage
<1>2. SessionTypeOK'
  <2>1. NoSignIn \in [step : {"idle", "nonce", "signed", "lapsed", "granted"}, as : Holder]
    BY DEF NoSignIn, Holder
  <2> QED BY <1>1, <2>1, Straddled DEF SessionInv, SessionTypeOK, Storage, RequestState, Step
<1>3. ASSUME ~straddled' PROVE StorageOK' /\ RefreshOK' /\ SenderOK'
  <2>1. SenderOK
    BY <1>3, Straddled DEF SessionInv
  <2>2. RefreshOK'
    BY <1>3, Straddled DEF RefreshOK
  <2>3. SenderOK'
    BY <2>1, Straddled DEF SenderOK
  <2> QED BY <1>1, <2>2, <2>3 DEF StorageOK
<1> QED BY <1>2, <1>3 DEF SessionInv

\* Signing out stores nobody's tokens.
LEMMA SignedOutStored == SignedOut = Stored(Nobody) /\ Nobody \in Holder
BY DEF SignedOut, Stored, Holder

\* One request takes a step of its own.
LEMMA RequestMoves ==
    ASSUME SessionInv, NEW r \in Request, NEW q \in RequestState, requests' = [requests EXCEPT ![r] = q],
           storage' \in Storage, UNCHANGED <<signIn, signIns, straddled>>,
           ~straddled =>
              /\ storage'.wallet = storage.wallet /\ StorageOK'
              /\ q.step = "refreshing" => q.refresh = storage.wallet
              /\ ~q.crossed => /\ q.token = q.as
                               /\ q.step \in {"sent", "refreshing"} => q.as = storage.wallet
    PROVE  SessionInv'
<1>1. requests \in [Request -> RequestState]
  BY DEF SessionInv, SessionTypeOK, RequestState, Step
<1>2. requests' \in [Request -> RequestState] /\ requests'[r] = q
      /\ \A p \in Request \ {r} : requests'[p] = requests[p]
  BY <1>1
<1>3. SessionTypeOK'
  BY <1>2 DEF SessionInv, SessionTypeOK, Storage, RequestState, Step
<1>4. ASSUME ~straddled PROVE RefreshOK' /\ SenderOK'
  BY <1>2, <1>4 DEF SessionInv, RefreshOK, SenderOK
<1> QED BY <1>3, <1>4 DEF SessionInv

\* The invariant is inductive.
LEMMA SessionStays ==
    ASSUME SessionInv, [SessionNext]_sessionVars
    PROVE  SessionInv'
<1>0. /\ requests \in [Request -> RequestState] /\ storage \in Storage
      /\ Nobody \in Holder
  BY DEF SessionInv, SessionTypeOK, RequestState, Step, Storage, Holder
<1>1. CASE UNCHANGED <<storage, requests, straddled>> /\ SessionTypeOK'
  BY <1>1 DEF SessionInv, StorageOK, RefreshOK, SenderOK
<1>2. CASE UNCHANGED sessionVars
  <2>1. SessionTypeOK'
    BY <1>2 DEF sessionVars, SessionInv, SessionTypeOK
  <2> QED BY <1>1, <1>2, <2>1 DEF sessionVars
<1>3. CASE \E a \in Account : fetchNonce(a)
  <2>1. PICK a \in Account : fetchNonce(a)
    BY <1>3
  <2>2. signIns' \in 0 .. MaxSignIns
    BY <2>1, SessionAssumption DEF fetchNonce, SessionInv, SessionTypeOK
  <2>3. SessionTypeOK'
    BY <2>1, <2>2 DEF fetchNonce, SessionInv, SessionTypeOK, Holder
  <2> QED BY <1>1, <2>1, <2>3 DEF fetchNonce
<1>4. CASE signMessage \/ nonceExpires \/ verify \/ signInFails
  <2>1. SessionTypeOK'
    BY <1>0, <1>4 DEF signMessage, nonceExpires, verify, signInFails, NoSignIn, SessionInv, SessionTypeOK
  <2> QED BY <1>1, <1>4, <2>1 DEF signMessage, nonceExpires, verify, signInFails
<1>5. CASE signedIn
  <2>1. signIn.as \in Holder
    BY DEF SessionInv, SessionTypeOK
  <2> QED BY <1>5, <2>1, NewSession DEF signedIn
<1>6. CASE logout
  BY <1>6, NewSession, SignedOutStored DEF logout
<1>7. ASSUME NEW r \in Request, refreshFails(r) PROVE SessionInv'
  <2>1. {r} \subseteq Request /\ Straddles({r}) /\ UNCHANGED <<signIn, signIns>>
        /\ storage' = Stored(Nobody) /\ Nobody \in Holder
    BY <1>7, SignedOutStored DEF refreshFails
  <2> QED BY <2>1, NewSession
<1>8. ASSUME NEW r \in Request, send(r) PROVE SessionInv'
  <2>1. PICK p \in RequestState : p = Request0
    BY <1>0 DEF Request0, RequestState, Step
  <2>2. PICK q : q = [p EXCEPT !.step = "sent", !.as = storage.wallet, !.token = storage.access]
    OBVIOUS
  <2>3. /\ requests' = [requests EXCEPT ![r] = q] /\ q \in RequestState /\ q.step = "sent"
        /\ q.as = storage.wallet /\ q.token = storage.access
    BY <1>0, <1>8, <2>1, <2>2 DEF send, RequestState, Step, Storage
  <2>4. UNCHANGED <<storage, signIn, signIns, straddled>>
    BY <1>8 DEF send
  <2>5. ~straddled => StorageOK /\ StorageOK'
    BY <2>4 DEF SessionInv, StorageOK
  <2>6. ~straddled => q.token = q.as
    BY <2>3, <2>5 DEF StorageOK
  <2> QED BY <1>0, <2>3, <2>4, <2>5, <2>6, RequestMoves
<1>9. ASSUME NEW r \in Request, answered(r) PROVE SessionInv'
  <2>1. PICK p \in RequestState : p = requests[r]
    BY <1>0
  <2>2. PICK q : q = [p EXCEPT !.step = "done"]
    OBVIOUS
  <2>3. q \in RequestState /\ q.step = "done" /\ q.token = p.token /\ q.as = p.as /\ q.crossed = p.crossed
    BY <2>2 DEF RequestState, Step
  <2>4. requests' = [requests EXCEPT ![r] = q] /\ UNCHANGED <<storage, signIn, signIns, straddled>>
    BY <1>0, <1>9, <2>1, <2>2 DEF answered
  <2>5. ~straddled => StorageOK' /\ (~p.crossed => p.token = p.as)
    BY <2>1, <2>4 DEF SessionInv, StorageOK, SenderOK
  <2> QED BY <1>0, <2>3, <2>4, <2>5, RequestMoves
<1>10. ASSUME NEW r \in Request, silentRefresh(r) PROVE SessionInv'
  <2>1. PICK p \in RequestState : p = requests[r] /\ p.step = "sent"
    BY <1>0, <1>10 DEF silentRefresh
  <2>2. PICK q : q = [p EXCEPT !.step = "refreshing", !.refresh = storage.refresh]
    OBVIOUS
  <2>3. /\ q \in RequestState /\ q.step = "refreshing" /\ q.refresh = storage.refresh
        /\ q.token = p.token /\ q.as = p.as /\ q.crossed = p.crossed
    BY <1>0, <2>2 DEF RequestState, Step, Storage
  <2>4. requests' = [requests EXCEPT ![r] = q] /\ UNCHANGED <<storage, signIn, signIns, straddled>>
    BY <1>0, <1>10, <2>1, <2>2 DEF silentRefresh
  <2>5. ~straddled => /\ StorageOK' /\ storage.refresh = storage.wallet
                      /\ ~p.crossed => p.token = p.as /\ p.as = storage.wallet
    BY <2>1, <2>4 DEF SessionInv, StorageOK, SenderOK
  <2> QED BY <1>0, <2>3, <2>4, <2>5, RequestMoves
<1>11. ASSUME NEW r \in Request, refreshed(r) PROVE SessionInv'
  <2>1. PICK p \in RequestState : p = requests[r] /\ p.step = "refreshing"
    BY <1>0, <1>11 DEF refreshed
  <2>2. PICK q : q = [p EXCEPT !.step = "resent", !.token = p.refresh]
    OBVIOUS
  <2>3. /\ q \in RequestState /\ q.step = "resent" /\ q.token = p.refresh
        /\ q.as = p.as /\ q.crossed = p.crossed /\ p.refresh \in Holder
    BY <2>2 DEF RequestState, Step
  <2>4. /\ requests' = [requests EXCEPT ![r] = q] /\ UNCHANGED <<signIn, signIns, straddled>>
        /\ storage' = [storage EXCEPT !.access = p.refresh]
    BY <1>0, <1>11, <2>1, <2>2 DEF refreshed
  <2>5. /\ storage' \in Storage /\ storage'.access = p.refresh
        /\ storage'.wallet = storage.wallet /\ storage'.refresh = storage.refresh
    BY <1>0, <2>3, <2>4 DEF Storage
  <2>6. ~straddled => /\ storage.refresh = storage.wallet /\ p.refresh = storage.wallet
                      /\ ~p.crossed => p.as = storage.wallet
    BY <2>1 DEF SessionInv, StorageOK, RefreshOK, SenderOK
  <2>7. ~straddled => StorageOK' /\ (~q.crossed => q.token = q.as)
    BY <2>3, <2>5, <2>6 DEF StorageOK
  <2> QED BY <2>3, <2>4, <2>5, <2>7, RequestMoves
<1> QED BY <1>2, <1>3, <1>4, <1>5, <1>6, <1>7, <1>8, <1>9, <1>10, <1>11 DEF SessionNext

\* While no refresh straddles a change of session, the page's tokens are those
\* of the account it shows, and a request that saw no change is sent, and sent
\* again, in the name of its sender, for any interleaving of requests, refreshes,
\* sign-ins and sign-outs (api.ts apiFetch and silentRefresh, auth-context).
THEOREM SessionIsShownAccount == SessionSpec => []SessionOfShownAccount
<1>1. SessionInit => SessionInv
  <2> SUFFICES ASSUME SessionInit PROVE SessionInv
    OBVIOUS
  <2>1. /\ storage = SignedOut /\ signIn = NoSignIn /\ signIns = 0 /\ straddled = FALSE
        /\ requests = [r \in Request |-> Request0] /\ Nobody \in Holder
    BY DEF SessionInit, Holder
  <2>2. SessionTypeOK
    <3>1. Request0 \in RequestState /\ Request0.step = "idle" /\ Request0.token = Request0.as
      BY <2>1 DEF Request0, RequestState, Step
    <3>2. signIns \in 0 .. MaxSignIns
      BY <2>1, SessionAssumption
    <3> QED BY <2>1, <3>1, <3>2 DEF SessionTypeOK, RequestState, Step, SignedOut, NoSignIn
  <2>3. StorageOK /\ RefreshOK /\ SenderOK
    BY <2>1 DEF StorageOK, RefreshOK, SenderOK, SignedOut, Request0
  <2> QED BY <2>2, <2>3 DEF SessionInv
<1>2. SessionInv /\ [SessionNext]_sessionVars => SessionInv'
  BY SessionStays
<1>3. SessionInv => SessionOfShownAccount
  BY DEF SessionInv, SessionOfShownAccount, StorageOK, SenderOK
<1> QED BY <1>1, <1>2, <1>3, PTL DEF SessionSpec

---------------------------------------------------------------------------
(* The MCP server with everything that may happen to it: any tool called    *)
(* any number of times at once, tokens that expire, an onboarding beside it. *)

Tools == VaultTools \cup CatalogTools \cup {"list_vaults", "simulate_action", "create_vault"}

ServerNext == WalletNext \/ TokensExpire \/ CallsNext(Query, Tools)

ServerSpec == (McpInit \/ McpUp) /\ [][ServerNext]_mcpVars

---------------------------------------------------------------------------
(* Plans.                                                                   *)

\* The steps by which a call finds out whose the vault is.
CheckSteps == VaultGuarded \cup {"owned"}
Checks(p) == \E i \in DOMAIN p : p[i] \in CheckSteps

ToolStep == {"public", "guarded", "vaults", "owned", "decimals", "units", "recipient", "fees",
             "estimate", "gate", "row", "encode", "intent", "cleanup"}

\* What ends a call is last; a row is made only to be encoded and compared.
PlanOK(p) ==
    /\ p \in Seq(ToolStep) /\ p # <<>>
    /\ \A i \in DOMAIN p : p[i] \in {"gate", "intent"} => i = Len(p)
    /\ \A i \in DOMAIN p : p[i] = "encode" => i + 1 = Len(p) /\ p[i + 1] = "intent"
    /\ \A i \in DOMAIN p : p[i] = "row" => i + 1 \in DOMAIN p /\ p[i + 1] = "encode"

\* An amount is converted after the decimals were read.
UnitsLater(p) == \A i \in DOMAIN p : p[i] = "units" => \E j \in 1 .. i - 1 : p[j] = "decimals"

---------------------------------------------------------------------------
(* A call.                                                                  *)

QueryFields == {"tool", "vault", "coin", "amount", "plan", "at", "token", "again", "mine", "lists",
                "spoilt", "known", "base", "row", "since", "why"}

Active(r) == r.at \in {"next", "sent", "refreshing", "refreshed", "loading"}

\* The decimals that are known are right; they cover the first n lists.
Right(known) == DOMAIN known \subseteq Coin /\ \A c \in DOMAIN known : known[c] = CoinDecimals[c]
Covers(known, n) == \A i \in 1 .. n : DOMAIN TokenLists[i] \subseteq DOMAIN known
Listed(coin) == \E i \in 1 .. 3 : coin \in DOMAIN TokenLists[i]

ShapeOK(r) ==
    /\ DOMAIN r = QueryFields
    /\ r.at \in {"idle", "next", "sent", "refreshing", "refreshed", "loading",
                 "answered", "gated", "held", "thrown"}
    /\ r.again \in BOOLEAN /\ r.spoilt \in BOOLEAN /\ r.row \in BOOLEAN
    /\ r.token \in Int /\ r.mine \in Int /\ r.since \in Int /\ r.lists \in Nat
    /\ Active(r) => PlanOK(r.plan) /\ r.why = "none"
    /\ r.at \in {"sent", "refreshing", "refreshed"} => Head(r.plan) \in Authorized
    /\ r.at = "idle" => r = Idle

\* The vault is the owner's, or this is still to be found out.
VaultOK(r, owner) ==
    /\ Active(r) => r.vault = owner \/ Checks(r.plan)
    /\ r.at \in {"answered", "gated", "held"} => r.vault = owner

\* A repeated request has the token that was made for it.
TokenOK(r, a) ==
    /\ r.at = "next" => ~r.again
    /\ r.at \in {"refreshing", "refreshed"} => r.again
    /\ r.again /\ r.at \in {"sent", "refreshed"} => r.token = r.mine /\ r.mine \in 1 .. a.minted
    /\ r.at # "idle" /\ r.why = "signed out" => ~a.refresh
    /\ r.at # "idle" /\ r.why = "unauthorized" => r.mine \in 1 .. a.dead

\* The decimals a call has cover the lists, or a list was missed shortly before.
Loaded(r, spoiltAt) == Covers(r.known, 3) \/ spoiltAt >= r.since - DecimalsTTL
UnitsOK(r, spoiltAt) ==
    /\ Right(r.known)
    /\ r.at = "loading" => r.lists \in 0 .. 2 /\ (r.spoilt \/ Covers(r.known, r.lists)) /\ Head(r.plan) = "decimals"
    /\ Active(r) => Loaded(r, spoiltAt) \/ UnitsLater(r.plan)
    /\ r.base # 0 => r.base = r.amount * 10 ^ CoinDecimals[r.coin]
    /\ r.why = "uncurated" /\ Listed(r.coin) => spoiltAt >= r.since - DecimalsTTL

RowOK(r) ==
    r.row => \/ Active(r) /\ Head(r.plan) \in {"encode", "intent", "cleanup"}
             \/ r.at = "held"
             \/ r.at = "thrown" /\ r.why \in {"uncleaned", "unreachable"}

QueryOK(r, owner, a, spoiltAt, now) ==
    /\ ShapeOK(r) /\ VaultOK(r, owner) /\ TokenOK(r, a) /\ UnitsOK(r, spoiltAt) /\ RowOK(r)
    /\ r.since <= now

---------------------------------------------------------------------------
(* What calls share.                                                        *)

WalletOK ==
    /\ DOMAIN disk = {"keystore", "keychain"} /\ DOMAIN onboarding = {"at", "keystore"}
    /\ DOMAIN process = {"at", "password", "owner"}
    /\ disk.keychain \in opened \cup {NoKey}
    /\ onboarding.at = "store" => onboarding.keystore \in opened
    /\ process.password \in opened \cup {NoKey}
    /\ process.owner \in opened \cup {NoKey}

AuthOK ==
    /\ DOMAIN auth = {"access", "minted", "dead", "refresh"}
    /\ auth.access \in Int /\ auth.minted \in Nat /\ auth.dead \in Nat /\ auth.refresh \in BOOLEAN

CacheOK ==
    LET c == decimalsCache.cache IN
    /\ DOMAIN decimalsCache = {"cache", "spoiltAt"}
    /\ seconds \in Nat /\ c.ts \in Int /\ decimalsCache.spoiltAt \in Int
    /\ c.ts <= seconds /\ decimalsCache.spoiltAt <= seconds
    /\ Right(c.known) /\ (Covers(c.known, 3) \/ decimalsCache.spoiltAt >= c.ts)

QueriesOK ==
    /\ DOMAIN queries = Query
    /\ \A q \in Query : QueryOK(queries[q], process.owner, auth, decimalsCache.spoiltAt, seconds)
    /\ process.at # "up" => \A q \in Query : queries[q].at = "idle"

ServerInv == WalletOK /\ AuthOK /\ CacheOK /\ QueriesOK

---------------------------------------------------------------------------
(* Plans and their rests.                                                   *)

LEMMA PlansOK ==
    \A tool \in Tools : /\ PlanOK(PlanOf(tool)) /\ UnitsLater(PlanOf(tool))
                        /\ tool \in VaultTools => Checks(PlanOf(tool))
<1> DEFINE Fits(p) == PlanOK(p) /\ UnitsLater(p)
<1>1. Fits(<<"guarded">>) /\ Checks(<<"guarded">>)
  BY DEF PlanOK, ToolStep, UnitsLater, Checks, CheckSteps, VaultGuarded
<1>2. Fits(<<"public">>) /\ Fits(<<"vaults">>)
  BY DEF PlanOK, ToolStep, UnitsLater
<1>3. Fits(getVaultPlan) /\ Checks(getVaultPlan)
  BY DEF PlanOK, ToolStep, UnitsLater, Checks, CheckSteps, VaultGuarded, getVaultPlan
<1>4. Fits(depositPlan) /\ Checks(depositPlan)
  <2>1. PlanOK(depositPlan)
    BY DEF PlanOK, ToolStep, depositPlan
  <2>2. UnitsLater(depositPlan)
    BY DEF UnitsLater, depositPlan
  <2>3. 2 \in DOMAIN depositPlan /\ depositPlan[2] \in CheckSteps
    BY DEF CheckSteps, depositPlan
  <2> QED
    BY <2>1, <2>2, <2>3 DEF Checks
<1>5. Fits(withdrawPlan) /\ Checks(withdrawPlan)
  <2>1. PlanOK(withdrawPlan)
    BY DEF PlanOK, ToolStep, withdrawPlan
  <2>2. UnitsLater(withdrawPlan)
    BY DEF UnitsLater, withdrawPlan
  <2>3. 2 \in DOMAIN withdrawPlan /\ withdrawPlan[2] \in CheckSteps
    BY DEF CheckSteps, withdrawPlan
  <2> QED
    BY <2>1, <2>2, <2>3 DEF Checks
<1>6. Fits(simulatePlan)
  BY DEF PlanOK, ToolStep, UnitsLater, simulatePlan
<1>7. Fits(topUpPlan) /\ Checks(topUpPlan)
  <2>1. Fits(topUpPlan)
    BY DEF PlanOK, ToolStep, UnitsLater, topUpPlan
  <2>2. 2 \in DOMAIN topUpPlan /\ topUpPlan[2] \in CheckSteps
    BY DEF CheckSteps, topUpPlan
  <2> QED
    BY <2>1, <2>2 DEF Checks
<1>8. Fits(setActivePlan) /\ Checks(setActivePlan)
  BY DEF PlanOK, ToolStep, UnitsLater, Checks, CheckSteps, setActivePlan
<1>9. Fits(createVaultPlan)
  BY DEF PlanOK, ToolStep, UnitsLater, createVaultPlan
<1>10. Fits(proposePlan) /\ Checks(proposePlan)
  <2>1. PlanOK(proposePlan)
    BY DEF PlanOK, ToolStep, proposePlan
  <2>2. UnitsLater(proposePlan)
    BY DEF UnitsLater, proposePlan
  <2>3. 5 \in DOMAIN proposePlan /\ proposePlan[5] \in CheckSteps
    BY DEF CheckSteps, VaultGuarded, proposePlan
  <2> QED
    BY <2>1, <2>2, <2>3 DEF Checks
<1> HIDE DEF Fits
<1>11. ASSUME NEW tool \in Tools
       PROVE  Fits(PlanOf(tool)) /\ (tool \in VaultTools => Checks(PlanOf(tool)))
  <2>1. CASE tool \in ReadTools
    <3>1. PlanOf(tool) = <<"guarded">>
      BY <2>1 DEF PlanOf, ReadTools, CatalogTools, LifecycleTools
    <3> QED
      BY <1>1, <3>1
  <2>2. CASE tool \in CatalogTools
    <3>1. PlanOf(tool) = <<"public">> /\ tool \notin VaultTools
      BY <2>2 DEF PlanOf, ReadTools, CatalogTools, LifecycleTools, VaultTools, MoneyTools
    <3> QED
      BY <1>2, <3>1
  <2>3. CASE tool = "list_vaults"
    <3>1. PlanOf(tool) = <<"vaults">> /\ tool \notin VaultTools
      BY <2>3 DEF PlanOf, ReadTools, CatalogTools, LifecycleTools, VaultTools, MoneyTools
    <3> QED
      BY <1>2, <3>1
  <2>4. CASE tool = "get_vault"
    BY <1>3, <2>4 DEF PlanOf, ReadTools, CatalogTools, LifecycleTools
  <2>5. CASE tool = "deposit"
    BY <1>4, <2>5 DEF PlanOf, ReadTools, CatalogTools, LifecycleTools
  <2>6. CASE tool = "withdraw"
    BY <1>5, <2>6 DEF PlanOf, ReadTools, CatalogTools, LifecycleTools
  <2>7. CASE tool = "simulate_action"
    <3>1. PlanOf(tool) = simulatePlan /\ tool \notin VaultTools
      BY <2>7 DEF PlanOf, ReadTools, CatalogTools, LifecycleTools, VaultTools, MoneyTools
    <3> QED
      BY <1>6, <3>1
  <2>8. CASE tool \in LifecycleTools \ {"set_automation_active"}
    <3>1. PlanOf(tool) = topUpPlan
      BY <2>8 DEF PlanOf, ReadTools, CatalogTools, LifecycleTools
    <3> QED
      BY <1>7, <3>1
  <2>9. CASE tool = "set_automation_active"
    BY <1>8, <2>9 DEF PlanOf, ReadTools, CatalogTools, LifecycleTools
  <2>10. CASE tool = "create_vault"
    <3>1. PlanOf(tool) = createVaultPlan /\ tool \notin VaultTools
      BY <2>10 DEF PlanOf, ReadTools, CatalogTools, LifecycleTools, VaultTools, MoneyTools
    <3> QED
      BY <1>9, <3>1
  <2>11. CASE tool = "propose_automation"
    BY <1>10, <2>11 DEF PlanOf, ReadTools, CatalogTools, LifecycleTools
  <2> QED
    BY <2>1, <2>2, <2>3, <2>4, <2>5, <2>6, <2>7, <2>8, <2>9, <2>10, <2>11
       DEF Tools, VaultTools, MoneyTools, LifecycleTools
<1> QED
  BY <1>11 DEF Fits

LEMMA Rest ==
    ASSUME NEW p, PlanOK(p)
    PROVE  /\ Len(p) \in Nat \ {0} /\ DOMAIN p = 1 .. Len(p) /\ Head(p) = p[1]
           /\ Len(Tail(p)) = Len(p) - 1 /\ DOMAIN Tail(p) = 1 .. Len(p) - 1
           /\ \A i \in 1 .. Len(p) - 1 : Tail(p)[i] = p[i + 1]
           /\ Len(p) # 1 => PlanOK(Tail(p)) /\ Head(Tail(p)) = p[2]
<1>1. p \in Seq(ToolStep) /\ p # <<>>
  BY DEF PlanOK
<1>2. /\ Len(p) \in Nat \ {0} /\ DOMAIN p = 1 .. Len(p) /\ Head(p) = p[1]
      /\ Tail(p) \in Seq(ToolStep) /\ Len(Tail(p)) = Len(p) - 1 /\ DOMAIN Tail(p) = 1 .. Len(p) - 1
      /\ \A i \in 1 .. Len(p) - 1 : Tail(p)[i] = p[i + 1]
  BY <1>1
<1>3. ASSUME Len(p) # 1 PROVE PlanOK(Tail(p)) /\ Head(Tail(p)) = p[2]
  <2>1. Tail(p) # <<>> /\ Head(Tail(p)) = Tail(p)[1] /\ Tail(p)[1] = p[2]
    BY <1>2, <1>3
  <2>2. \A i \in 1 .. Len(p) - 1 : i + 1 \in DOMAIN p /\ Tail(p)[i] = p[i + 1]
    BY <1>2
  <2>3. \A i \in DOMAIN Tail(p) : Tail(p)[i] \in {"gate", "intent"} => i = Len(Tail(p))
    BY <1>2, <2>2 DEF PlanOK
  <2>4. \A i \in DOMAIN Tail(p) : Tail(p)[i] = "encode" => i + 1 = Len(Tail(p)) /\ Tail(p)[i + 1] = "intent"
    <3> SUFFICES ASSUME NEW i \in 1 .. Len(p) - 1, Tail(p)[i] = "encode"
                 PROVE  i + 1 = Len(Tail(p)) /\ Tail(p)[i + 1] = "intent"
      BY <1>2
    <3>1. (i + 1) + 1 = Len(p) /\ p[(i + 1) + 1] = "intent"
      BY <2>2 DEF PlanOK
    <3>2. Len(p) \in Nat /\ i \in Nat /\ i >= 1 /\ Len(Tail(p)) = Len(p) - 1
      BY <1>2
    <3>3. i + 1 \in 1 .. Len(p) - 1 /\ i + 1 = Len(Tail(p))
      <4>1. i + 1 = Len(p) - 1
        BY <3>1, <3>2
      <4> QED
        BY <3>2, <4>1
    <3>4. Tail(p)[i + 1] = p[(i + 1) + 1]
      BY <1>2, <3>3
    <3> QED
      BY <3>1, <3>3, <3>4
  <2>5. \A i \in DOMAIN Tail(p) : Tail(p)[i] = "row" => i + 1 \in DOMAIN Tail(p) /\ Tail(p)[i + 1] = "encode"
    <3> SUFFICES ASSUME NEW i \in 1 .. Len(p) - 1, Tail(p)[i] = "row"
                 PROVE  i + 1 \in DOMAIN Tail(p) /\ Tail(p)[i + 1] = "encode"
      BY <1>2
    <3>1. (i + 1) + 1 \in DOMAIN p /\ p[(i + 1) + 1] = "encode"
      BY <2>2 DEF PlanOK
    <3> QED
      BY <1>2, <3>1
  <2> QED
    BY <1>2, <2>1, <2>3, <2>4, <2>5 DEF PlanOK
<1> QED
  BY <1>2, <1>3

---------------------------------------------------------------------------
(* What a call becomes.                                                     *)

\* Neither what the call is about nor what it has learnt.
SameCall(s, r) ==
    /\ s.tool = r.tool /\ s.vault = r.vault /\ s.coin = r.coin /\ s.amount = r.amount
    /\ s.known = r.known /\ s.base = r.base /\ s.since = r.since

LEMMA DoneIs ==
    ASSUME NEW r, DOMAIN r = QueryFields
    PROVE  /\ DOMAIN Done(r) = QueryFields /\ SameCall(Done(r), r)
           /\ Done(r).plan = Tail(r.plan) /\ ~Done(r).again /\ Done(r).again \in BOOLEAN
           /\ Done(r).token = 0 /\ Done(r).at = IF Len(r.plan) = 1 THEN "answered" ELSE "next"
           /\ Done(r).mine = r.mine /\ Done(r).lists = r.lists /\ Done(r).spoilt = r.spoilt
           /\ Done(r).row = r.row /\ Done(r).why = r.why
BY DEF Done, SameCall, QueryFields

LEMMA EndedIs ==
    ASSUME NEW r, DOMAIN r = QueryFields, NEW why
    PROVE  /\ DOMAIN Ended(r, why) = QueryFields /\ SameCall(Ended(r, why), r)
           /\ Ended(r, why).plan = r.plan /\ Ended(r, why).again = r.again
           /\ Ended(r, why).token = r.token /\ Ended(r, why).at = "thrown"
           /\ Ended(r, why).mine = r.mine /\ Ended(r, why).lists = r.lists
           /\ Ended(r, why).spoilt = r.spoilt /\ Ended(r, why).row = r.row
           /\ Ended(r, why).why = why
BY DEF Ended, SameCall, QueryFields

LEMMA CleaningUpIs ==
    ASSUME NEW r, DOMAIN r = QueryFields
    PROVE  /\ DOMAIN CleaningUp(r) = QueryFields /\ SameCall(CleaningUp(r), r)
           /\ CleaningUp(r).plan = <<"cleanup">> /\ ~CleaningUp(r).again
           /\ CleaningUp(r).again \in BOOLEAN /\ CleaningUp(r).token = 0
           /\ CleaningUp(r).at = "next" /\ CleaningUp(r).mine = r.mine
           /\ CleaningUp(r).lists = r.lists /\ CleaningUp(r).spoilt = r.spoilt
           /\ CleaningUp(r).row = r.row /\ CleaningUp(r).why = r.why
BY DEF CleaningUp, SameCall, QueryFields

\* The call goes on to the next step: it knows whose the vault is if the step found it out.
LEMMA DoneOK ==
    ASSUME NEW r, NEW owner, NEW a, NEW sp, NEW now, ShapeOK(r), Active(r), r.since <= now,
           r.vault = owner \/ (Checks(r.plan) /\ Head(r.plan) \notin CheckSteps),
           Right(r.known), Loaded(r, sp) \/ (UnitsLater(r.plan) /\ Head(r.plan) # "decimals"),
           r.base # 0 => r.base = r.amount * 10 ^ CoinDecimals[r.coin],
           r.row => Head(r.plan) \in {"row", "encode"}
    PROVE  QueryOK(Done(r), owner, a, sp, now)
<1> DEFINE s == Done(r)
           p == r.plan
<1>1. DOMAIN r = QueryFields /\ PlanOK(p) /\ r.why = "none"
  BY DEF ShapeOK
<1>2. /\ DOMAIN s = QueryFields /\ SameCall(s, r)
      /\ s.plan = Tail(p) /\ ~s.again /\ s.again \in BOOLEAN /\ s.token = 0
      /\ s.at = IF Len(p) = 1 THEN "answered" ELSE "next"
      /\ s.mine = r.mine /\ s.lists = r.lists /\ s.spoilt = r.spoilt
      /\ s.row = r.row /\ s.why = "none"
  BY <1>1, DoneIs
<1> HIDE DEF s
<1>3. /\ Len(p) \in Nat \ {0} /\ DOMAIN p = 1 .. Len(p) /\ Head(p) = p[1]
      /\ Len(Tail(p)) = Len(p) - 1 /\ DOMAIN Tail(p) = 1 .. Len(p) - 1
      /\ \A i \in 1 .. Len(p) - 1 : Tail(p)[i] = p[i + 1]
      /\ Len(p) # 1 => PlanOK(Tail(p)) /\ Head(Tail(p)) = p[2]
  BY <1>1, Rest
<1> HIDE DEF p
<1>4. ShapeOK(s)
  <2>1. s.mine \in Int /\ s.since \in Int /\ s.lists \in Nat /\ s.spoilt \in BOOLEAN /\ s.row \in BOOLEAN
    BY <1>2 DEF ShapeOK, SameCall
  <2>2. Active(s) => PlanOK(s.plan)
    BY <1>2, <1>3 DEF Active
  <2> QED
    BY <1>2, <2>1, <2>2 DEF ShapeOK
<1>5. Active(s) <=> Len(p) # 1
  BY <1>2 DEF Active
<1>6. VaultOK(s, owner)
  <2>1. CASE r.vault = owner
    BY <1>2, <2>1 DEF VaultOK, SameCall
  <2>2. CASE Checks(p) /\ p[1] \notin CheckSteps
    <3>1. PICK i \in 1 .. Len(p) : p[i] \in CheckSteps
      BY <1>3, <2>2 DEF Checks
    <3>2. i - 1 \in 1 .. Len(p) - 1 /\ (i - 1) + 1 = i
      BY <1>3, <2>2, <3>1
    <3>3. Tail(p)[i - 1] \in CheckSteps
      BY <1>3, <3>1, <3>2
    <3>4. Checks(s.plan)
      BY <1>2, <1>3, <3>2, <3>3 DEF Checks
    <3>5. s.at = "next"
      BY <1>2, <1>3, <3>2
    <3> QED
      BY <3>4, <3>5 DEF VaultOK
  <2> QED
    BY <1>3, <2>1, <2>2 DEF p
<1>7. TokenOK(s, a)
  BY <1>2 DEF TokenOK
<1>8. UnitsOK(s, sp)
  <2>1. Loaded(s, sp) \/ UnitsLater(Tail(p))
    <3>1. CASE Loaded(r, sp)
      BY <1>2, <3>1 DEF Loaded, SameCall
    <3>2. CASE UnitsLater(p) /\ p[1] # "decimals"
      <4> SUFFICES ASSUME NEW i \in 1 .. Len(p) - 1, Tail(p)[i] = "units"
                   PROVE  \E j \in 1 .. i - 1 : Tail(p)[j] = "decimals"
        BY <1>3 DEF UnitsLater
      <4>1. i + 1 \in DOMAIN p /\ p[i + 1] = "units"
        BY <1>3
      <4>2. PICK j \in 1 .. (i + 1) - 1 : p[j] = "decimals"
        BY <3>2, <4>1 DEF UnitsLater
      <4>3. j - 1 \in 1 .. i - 1 /\ (j - 1) + 1 = j /\ j - 1 \in 1 .. Len(p) - 1
        BY <1>3, <3>2, <4>2
      <4> QED
        BY <1>3, <4>2, <4>3
    <3> QED
      BY <1>3, <3>1, <3>2 DEF p
  <2>2. s.at # "loading" /\ s.why # "uncurated"
    BY <1>2
  <2>3. s.base # 0 => s.base = s.amount * 10 ^ CoinDecimals[s.coin]
    BY <1>2 DEF SameCall
  <2> QED
    BY <1>2, <2>1, <2>2, <2>3 DEF UnitsOK, SameCall
<1>9. RowOK(s)
  <2> SUFFICES ASSUME r.row PROVE Len(p) # 1 /\ p[2] \in {"encode", "intent"}
    BY <1>2, <1>3, <1>5 DEF RowOK
  <2>1. p[1] \in {"row", "encode"} /\ 1 \in DOMAIN p /\ PlanOK(p)
    BY <1>1, <1>3 DEF p
  <2>2. CASE p[1] = "row"
    <3>1. 1 + 1 \in DOMAIN p /\ p[1 + 1] = "encode"
      BY <2>1, <2>2 DEF PlanOK
    <3> QED
      BY <1>3, <3>1
  <2>3. CASE p[1] = "encode"
    <3>1. 1 + 1 = Len(p) /\ p[1 + 1] = "intent"
      BY <2>1, <2>3 DEF PlanOK
    <3> QED
      BY <3>1
  <2> QED
    BY <2>1, <2>2, <2>3
<1>10. s.since <= now
  BY <1>2 DEF SameCall
<1> QED
  BY <1>4, <1>6, <1>7, <1>8, <1>9, <1>10 DEF QueryOK, s

\* The call ends, or removes its row first.
LEMMA CleaningUpOK ==
    ASSUME NEW r, NEW owner, NEW a, NEW sp, NEW now, ShapeOK(r), Active(r), r.since <= now, Right(r.known),
           r.base # 0 => r.base = r.amount * 10 ^ CoinDecimals[r.coin]
    PROVE  QueryOK(CleaningUp(r), owner, a, sp, now)
<1> DEFINE s == CleaningUp(r)
<1>1. /\ DOMAIN s = QueryFields /\ SameCall(s, r)
      /\ s.plan = <<"cleanup">> /\ ~s.again /\ s.again \in BOOLEAN /\ s.token = 0 /\ s.at = "next"
      /\ s.mine = r.mine /\ s.lists = r.lists /\ s.spoilt = r.spoilt
      /\ s.row = r.row /\ s.why = "none"
  <2>1. DOMAIN r = QueryFields /\ r.why = "none"
    BY DEF ShapeOK
  <2> QED
    BY <2>1, CleaningUpIs
<1> HIDE DEF s
<1>2. /\ PlanOK(<<"cleanup">>) /\ UnitsLater(<<"cleanup">>) /\ Checks(<<"cleanup">>)
      /\ Head(<<"cleanup">>) = "cleanup"
  BY DEF PlanOK, ToolStep, UnitsLater, Checks, CheckSteps, VaultGuarded
<1>3. ShapeOK(s) /\ VaultOK(s, owner) /\ TokenOK(s, a) /\ RowOK(s)
  <2>1. ShapeOK(s)
    BY <1>1, <1>2 DEF ShapeOK, SameCall
  <2>2. VaultOK(s, owner) /\ TokenOK(s, a) /\ RowOK(s)
    BY <1>1, <1>2 DEF VaultOK, TokenOK, RowOK, Active
  <2> QED
    BY <2>1, <2>2
<1>4. UnitsOK(s, sp)
  BY <1>1, <1>2 DEF UnitsOK, SameCall
<1>5. s.since <= now
  BY <1>1 DEF SameCall
<1> QED
  BY <1>3, <1>4, <1>5 DEF QueryOK, s

LEMMA EndedOK ==
    ASSUME NEW r, NEW why, NEW owner, NEW a, NEW sp, NEW now,
           ShapeOK(r), r.since <= now, Right(r.known),
           r.base # 0 => r.base = r.amount * 10 ^ CoinDecimals[r.coin],
           r.row => why \in {"uncleaned", "unreachable"},
           why = "signed out" => ~a.refresh,
           why = "unauthorized" => r.mine \in 1 .. a.dead,
           why = "uncurated" /\ Listed(r.coin) => sp >= r.since - DecimalsTTL
    PROVE  QueryOK(Ended(r, why), owner, a, sp, now)
<1> DEFINE s == Ended(r, why)
<1>1. /\ DOMAIN s = QueryFields /\ SameCall(s, r)
      /\ s.plan = r.plan /\ s.again = r.again /\ s.token = r.token /\ s.at = "thrown"
      /\ s.mine = r.mine /\ s.lists = r.lists /\ s.spoilt = r.spoilt
      /\ s.row = r.row /\ s.why = why
  <2>1. DOMAIN r = QueryFields
    BY DEF ShapeOK
  <2> QED
    BY ONLY <2>1, EndedIs
<1> HIDE DEF s
<1>2. ShapeOK(s) /\ VaultOK(s, owner)
  BY <1>1 DEF ShapeOK, VaultOK, Active, SameCall
<1>3. TokenOK(s, a)
  BY <1>1 DEF TokenOK
<1>4. UnitsOK(s, sp)
  BY <1>1 DEF UnitsOK, SameCall, Active
<1>5. RowOK(s)
  BY <1>1 DEF RowOK
<1>6. s.since <= now
  BY <1>1 DEF SameCall
<1> QED
  BY <1>2, <1>3, <1>4, <1>5, <1>6 DEF QueryOK, s

LEMMA ThrownOK ==
    ASSUME NEW r, NEW why, NEW owner, NEW a, NEW sp, NEW now,
           ShapeOK(r), Active(r), r.since <= now, Right(r.known),
           r.base # 0 => r.base = r.amount * 10 ^ CoinDecimals[r.coin],
           r.row => Head(r.plan) \in {"encode", "cleanup"} \/ why = "unreachable",
           why = "signed out" => ~a.refresh,
           why = "unauthorized" => r.mine \in 1 .. a.dead,
           why = "uncurated" /\ Listed(r.coin) => sp >= r.since - DecimalsTTL
    PROVE  QueryOK(Thrown(r, why), owner, a, sp, now)
<1>1. CASE Head(r.plan) = "encode"
  <2>1. Thrown(r, why) = CleaningUp(r)
    BY <1>1 DEF Thrown
  <2> QED
    BY <2>1, CleaningUpOK
<1>2. CASE Head(r.plan) = "cleanup"
  <2>1. Thrown(r, why) = Ended(r, "uncleaned")
    BY <1>2 DEF Thrown
  <2> QED
    BY <2>1, EndedOK
<1>3. CASE Head(r.plan) \notin {"encode", "cleanup"}
  <2>1. Thrown(r, why) = Ended(r, why)
    BY <1>3 DEF Thrown
  <2> QED
    BY <1>3, <2>1, EndedOK
<1> QED
  BY <1>1, <1>2, <1>3

---------------------------------------------------------------------------
(* Frames.                                                                  *)

\* What else happens: tokens are made and die, time passes, the cache is filled anew.
Later(a, b) == a.minted <= b.minted /\ a.dead <= b.dead /\ (b.refresh => a.refresh)

LEMMA QueryStays ==
    ASSUME NEW r, NEW owner, NEW a, NEW b, NEW sp \in Int, NEW sp2 \in Int, NEW now \in Int, NEW now2 \in Int,
           QueryOK(r, owner, a, sp, now), Later(a, b), sp <= sp2, now <= now2,
           a.minted \in Int, a.dead \in Int, b.minted \in Int, b.dead \in Int
    PROVE  QueryOK(r, owner, b, sp2, now2)
<1>1. r.since \in Int /\ r.mine \in Int /\ DecimalsTTL \in Int
  BY McpAssumption DEF QueryOK, ShapeOK
<1>2. TokenOK(r, b)
  <2>1. TokenOK(r, a) /\ a.minted <= b.minted /\ a.dead <= b.dead /\ (b.refresh => a.refresh)
    BY DEF QueryOK, Later
  <2>2. r.mine \in 1 .. a.minted => r.mine \in 1 .. b.minted
    BY <1>1, <2>1
  <2>3. r.mine \in 1 .. a.dead => r.mine \in 1 .. b.dead
    BY <1>1, <2>1
  <2> QED
    BY <2>1, <2>2, <2>3 DEF TokenOK
<1>3. UnitsOK(r, sp2)
  BY <1>1 DEF QueryOK, UnitsOK, Loaded
<1>4. r.since <= now2
  BY <1>1 DEF QueryOK
<1> QED
  BY <1>2, <1>3, <1>4 DEF QueryOK

\* One call moves.
LEMMA QueryMoves ==
    ASSUME ServerInv, NEW q \in Query, NEW r, queries' = [queries EXCEPT ![q] = r],
           process' = process, process.at = "up",
           AuthOK', CacheOK', Later(auth, auth'), decimalsCache.spoiltAt <= decimalsCache'.spoiltAt,
           seconds <= seconds',
           QueryOK(r, process.owner, auth', decimalsCache'.spoiltAt, seconds')
    PROVE  QueriesOK'
<1>1. DOMAIN queries' = Query /\ queries'[q] = r /\ \A p \in Query \ {q} : queries'[p] = queries[p]
  BY DEF ServerInv, QueriesOK
<1>2. ASSUME NEW p \in Query \ {q}
      PROVE  QueryOK(queries[p], process.owner, auth', decimalsCache'.spoiltAt, seconds')
  <2>1. /\ QueryOK(queries[p], process.owner, auth, decimalsCache.spoiltAt, seconds)
        /\ decimalsCache.spoiltAt \in Int /\ decimalsCache'.spoiltAt \in Int
        /\ seconds \in Int /\ seconds' \in Int
        /\ auth.minted \in Int /\ auth.dead \in Int /\ auth'.minted \in Int /\ auth'.dead \in Int
    BY DEF ServerInv, QueriesOK, AuthOK, CacheOK
  <2> QED
    BY <2>1, QueryStays
<1> QED
  BY <1>1, <1>2 DEF QueriesOK

\* Or none does.
LEMMA QueriesStay ==
    ASSUME ServerInv, UNCHANGED <<queries, process>>, AuthOK', CacheOK', Later(auth, auth'),
           decimalsCache.spoiltAt <= decimalsCache'.spoiltAt, seconds <= seconds'
    PROVE  QueriesOK'
<1>1. ASSUME NEW p \in Query
      PROVE  QueryOK(queries[p], process.owner, auth', decimalsCache'.spoiltAt, seconds')
  <2>1. /\ QueryOK(queries[p], process.owner, auth, decimalsCache.spoiltAt, seconds)
        /\ decimalsCache.spoiltAt \in Int /\ decimalsCache'.spoiltAt \in Int
        /\ seconds \in Int /\ seconds' \in Int
        /\ auth.minted \in Int /\ auth.dead \in Int /\ auth'.minted \in Int /\ auth'.dead \in Int
    BY DEF ServerInv, QueriesOK, AuthOK, CacheOK
  <2> QED
    BY <2>1, QueryStays
<1> QED
  BY <1>1 DEF ServerInv, QueriesOK

---------------------------------------------------------------------------
(* The calls' actions.                                                      *)

\* A call on its way, and a step that moves it alone.
LEMMA Here ==
    ASSUME ServerInv, NEW q \in Query, Active(queries[q])
    PROVE  /\ process.at = "up"
           /\ QueryOK(queries[q], process.owner, auth, decimalsCache.spoiltAt, seconds)
           /\ DOMAIN queries[q] = QueryFields
           /\ PlanOK(queries[q].plan) /\ queries[q].why = "none"
BY DEF ServerInv, QueriesOK, QueryOK, ShapeOK, Active

LEMMA CallMoves ==
    ASSUME ServerInv, NEW q \in Query, NEW r, Becomes(q, r), process.at = "up",
           UNCHANGED <<walletVars, process, auth, decimalsCache, seconds>>,
           QueryOK(r, process.owner, auth, decimalsCache.spoiltAt, seconds)
    PROVE  ServerInv'
<1>1. WalletOK' /\ AuthOK' /\ CacheOK'
  BY DEF ServerInv, WalletOK, AuthOK, CacheOK, Right, Covers, walletVars
<1>2. /\ Later(auth, auth') /\ decimalsCache.spoiltAt <= decimalsCache'.spoiltAt
      /\ seconds <= seconds'
  BY DEF ServerInv, AuthOK, CacheOK, Later
<1>3. QueriesOK'
  BY <1>1, <1>2, QueryMoves DEF Becomes
<1> QED
  BY <1>1, <1>3 DEF ServerInv

\* A step inside a request changes neither the plan nor what the call is about.
LEMMA RequestOK ==
    ASSUME NEW r, NEW s, NEW owner, NEW a, NEW sp, NEW now, QueryOK(r, owner, a, sp, now), Active(r),
           DOMAIN s = QueryFields, SameCall(s, r), s.plan = r.plan,
           s.at \in {"sent", "refreshing", "refreshed"}, Head(r.plan) \in Authorized,
           s.token \in Int, s.mine \in Int, s.again \in BOOLEAN,
           s.lists = r.lists, s.spoilt = r.spoilt, s.row = r.row, s.why = r.why, TokenOK(s, a)
    PROVE  QueryOK(s, owner, a, sp, now)
<1>1. ShapeOK(r) /\ VaultOK(r, owner) /\ UnitsOK(r, sp) /\ RowOK(r) /\ r.since <= now
  BY DEF QueryOK
<1>2. ShapeOK(s)
  BY <1>1 DEF ShapeOK, SameCall, Active
<1>3. VaultOK(s, owner)
  BY <1>1 DEF VaultOK, SameCall, Active
<1>4. UnitsOK(s, sp)
  BY <1>1 DEF UnitsOK, ShapeOK, SameCall, Active, Loaded
<1>5. RowOK(s)
  BY <1>1 DEF RowOK, Active
<1>6. s.since <= now
  BY <1>1 DEF SameCall
<1> QED
  BY <1>2, <1>3, <1>4, <1>5, <1>6 DEF QueryOK

LEMMA RequestKeeps == ASSUME ServerInv, NEW q \in Query, request(q) PROVE ServerInv'
<1> DEFINE r == queries[q]
           s == [r EXCEPT !.at = "sent", !.token = auth.access]
<1>1. Active(r) /\ Becomes(q, s) /\ UNCHANGED <<walletVars, process, auth, decimalsCache, seconds>>
      /\ r.at = "next" /\ Head(r.plan) \in Authorized
  BY DEF request, AtOneOf, Active
<1>2. /\ process.at = "up" /\ QueryOK(r, process.owner, auth, decimalsCache.spoiltAt, seconds)
      /\ DOMAIN r = QueryFields /\ PlanOK(r.plan) /\ r.why = "none"
  BY <1>1, Here
<1>3. auth.access \in Int
  BY DEF ServerInv, AuthOK
<1>4. /\ DOMAIN s = QueryFields /\ SameCall(s, r) /\ s.plan = r.plan /\ s.at = "sent"
      /\ s.token \in Int /\ s.mine = r.mine /\ s.again = r.again
      /\ s.lists = r.lists /\ s.spoilt = r.spoilt /\ s.row = r.row /\ s.why = r.why
  BY <1>2, <1>3 DEF SameCall, QueryFields
<1>5. /\ s.mine \in Int /\ s.again \in BOOLEAN /\ ~s.again /\ s.why = "none"
  BY <1>1, <1>2, <1>4 DEF QueryOK, ShapeOK, TokenOK
<1> HIDE DEF r, s
<1>6. TokenOK(s, auth)
  BY <1>4, <1>5 DEF TokenOK
<1>7. QueryOK(s, process.owner, auth, decimalsCache.spoiltAt, seconds)
  BY <1>1, <1>2, <1>4, <1>5, <1>6, RequestOK
<1> QED
  BY <1>1, <1>2, <1>7, CallMoves

\* The two ways out of a step.
LEMMA GoesOn ==
    ASSUME NEW r, NEW owner, NEW a, NEW sp, NEW now, QueryOK(r, owner, a, sp, now), Active(r),
           r.vault = owner \/ Head(r.plan) \notin CheckSteps, Head(r.plan) # "decimals",
           r.row => Head(r.plan) \in {"row", "encode"}
    PROVE  QueryOK(Done(r), owner, a, sp, now)
<1>1. /\ ShapeOK(r) /\ r.since <= now /\ Right(r.known)
      /\ r.base # 0 => r.base = r.amount * 10 ^ CoinDecimals[r.coin]
  BY DEF QueryOK, UnitsOK
<1>2. r.vault = owner \/ (Checks(r.plan) /\ Head(r.plan) \notin CheckSteps)
  BY DEF QueryOK, VaultOK
<1>3. Loaded(r, sp) \/ (UnitsLater(r.plan) /\ Head(r.plan) # "decimals")
  BY DEF QueryOK, UnitsOK
<1> QED
  BY <1>1, <1>2, <1>3, DoneOK

LEMMA Stops ==
    ASSUME NEW r, NEW why, NEW owner, NEW a, NEW sp, NEW now, QueryOK(r, owner, a, sp, now), Active(r),
           r.row => Head(r.plan) \in {"encode", "cleanup"} \/ why = "unreachable",
           why = "signed out" => ~a.refresh,
           why = "unauthorized" => r.mine \in 1 .. a.dead,
           why = "uncurated" /\ Listed(r.coin) => sp >= r.since - DecimalsTTL
    PROVE  QueryOK(Thrown(r, why), owner, a, sp, now)
<1>1. /\ ShapeOK(r) /\ r.since <= now /\ Right(r.known)
      /\ r.base # 0 => r.base = r.amount * 10 ^ CoinDecimals[r.coin]
  BY DEF QueryOK, UnitsOK
<1> QED
  BY <1>1, ThrownOK

LEMMA HandledKeeps == ASSUME ServerInv, NEW q \in Query, handled(q) PROVE ServerInv'
<1> DEFINE r == queries[q]
           Good(s) == QueryOK(s, process.owner, auth, decimalsCache.spoiltAt, seconds)
<1>1. /\ Active(r) /\ r.at = "sent"
      /\ UNCHANGED <<walletVars, process, auth, decimalsCache, seconds>>
  BY DEF handled, Active
<1>2. process.at = "up" /\ Good(r) /\ DOMAIN r = QueryFields
  BY <1>1, Here
<1>3. /\ Head(r.plan) \in Authorized
      /\ r.row => Head(r.plan) \in {"encode", "cleanup"}
  BY <1>1, <1>2 DEF QueryOK, ShapeOK, RowOK, Authorized
<1> HIDE DEF r
<1>4. Good(Thrown(r, "foreign")) /\ Good(Thrown(r, "unencodable"))
  BY <1>1, <1>2, <1>3, Stops
<1>5. ASSUME Allowed(r), NEW s \in Served(r) PROVE Good(s)
  <2>1. CASE Head(r.plan) = "owned"
    <3>1. s = IF Owned(r) THEN Done(r) ELSE Thrown(r, "foreign")
      BY <1>5, <2>1 DEF Served
    <3>2. Owned(r) => Good(Done(r))
      BY <1>1, <1>2, <1>3, <2>1, GoesOn DEF Owned
    <3> QED
      BY <1>4, <3>1, <3>2
  <2>2. CASE Head(r.plan) = "row"
    <3> DEFINE t == [r EXCEPT !.row = TRUE]
    <3>1. s = Done(t)
      BY <1>5, <2>2 DEF Served
    <3>2. /\ DOMAIN t = QueryFields /\ t.plan = r.plan /\ t.vault = r.vault /\ t.at = r.at
          /\ t.row /\ t.row \in BOOLEAN /\ SameCall(t, r) /\ t.why = r.why
          /\ t.token = r.token /\ t.mine = r.mine /\ t.again = r.again
          /\ t.lists = r.lists /\ t.spoilt = r.spoilt
      BY <1>2 DEF QueryFields, SameCall
    <3>3. r.vault = process.owner
      BY <1>5, <2>2 DEF Allowed, VaultGuarded
    <3> HIDE DEF t
    <3>4. Active(t) /\ ShapeOK(t)
      BY <1>1, <1>2, <3>2 DEF Active, QueryOK, ShapeOK, SameCall
    <3>5. /\ Right(t.known) /\ (t.base # 0 => t.base = t.amount * 10 ^ CoinDecimals[t.coin])
          /\ t.since <= seconds /\ (Loaded(t, decimalsCache.spoiltAt) \/ UnitsLater(t.plan))
      BY <1>1, <1>2, <3>2 DEF QueryOK, UnitsOK, Loaded, SameCall
    <3> QED
      BY <2>2, <3>1, <3>2, <3>3, <3>4, <3>5, DoneOK
  <2>3. CASE Head(r.plan) = "encode"
    <3>1. s \in {Done(r), Thrown(r, "unencodable")}
      BY <1>5, <2>3 DEF Served
    <3>2. r.vault = process.owner
      BY <1>5, <2>3 DEF Allowed, VaultGuarded
    <3>3. Good(Done(r))
      BY <1>1, <1>2, <2>3, <3>2, GoesOn
    <3> QED
      BY <1>4, <3>1, <3>3
  <2>4. CASE Head(r.plan) = "cleanup"
    <3> DEFINE t == [r EXCEPT !.row = FALSE]
    <3>1. s = Ended(t, "rejected")
      BY <1>5, <2>4 DEF Served
    <3>2. /\ DOMAIN t = QueryFields /\ t.plan = r.plan /\ t.at = r.at
          /\ ~t.row /\ t.row \in BOOLEAN /\ SameCall(t, r) /\ t.why = r.why
          /\ t.token = r.token /\ t.mine = r.mine /\ t.again = r.again
          /\ t.lists = r.lists /\ t.spoilt = r.spoilt
      BY <1>2 DEF QueryFields, SameCall
    <3> HIDE DEF t
    <3>3. ShapeOK(t)
      BY <1>1, <1>2, <3>2 DEF Active, QueryOK, ShapeOK, SameCall
    <3>4. /\ Right(t.known) /\ (t.base # 0 => t.base = t.amount * 10 ^ CoinDecimals[t.coin])
          /\ t.since <= seconds
      BY <1>1, <1>2, <3>2 DEF QueryOK, UnitsOK, SameCall
    <3> QED
      BY <3>1, <3>2, <3>3, <3>4, EndedOK
  <2>5. CASE Head(r.plan) \in {"vaults", "guarded"}
    <3>1. s = Done(r)
      BY <1>5, <2>5 DEF Served
    <3>2. r.vault = process.owner \/ Head(r.plan) \notin CheckSteps
      BY <1>5, <2>5 DEF Allowed, VaultGuarded, CheckSteps
    <3> QED
      BY <1>1, <1>2, <1>3, <2>5, <3>1, <3>2, GoesOn
  <2> QED
    BY <1>3, <2>1, <2>2, <2>3, <2>4, <2>5 DEF Authorized
<1>6. PICK s : Becomes(q, s) /\ Good(s)
  <2>1. CASE Allowed(r)
    <3>1. \E s \in Served(r) : Becomes(q, s)
      BY <2>1 DEF handled, r
    <3> QED
      BY <1>5, <2>1, <3>1
  <2>2. CASE ~Allowed(r)
    <3>1. Becomes(q, Thrown(r, "foreign"))
      BY <2>2 DEF handled, r
    <3> QED
      BY <1>4, <3>1
  <2> QED
    BY <2>1, <2>2
<1> QED
  BY <1>1, <1>2, <1>6, CallMoves

LEMMA UnauthorizedKeeps == ASSUME ServerInv, NEW q \in Query, unauthorized(q) PROVE ServerInv'
<1> DEFINE r == queries[q]
           s == [r EXCEPT !.at = "refreshing", !.again = TRUE]
           Good(x) == QueryOK(x, process.owner, auth, decimalsCache.spoiltAt, seconds)
<1>1. /\ Active(r) /\ r.at = "sent" /\ ~(r.token > auth.dead)
      /\ UNCHANGED <<walletVars, process, auth, decimalsCache, seconds>>
      /\ Becomes(q, IF r.again THEN Thrown(r, "unauthorized") ELSE s)
  BY DEF unauthorized, Active, Honoured
<1>2. process.at = "up" /\ Good(r) /\ DOMAIN r = QueryFields
  BY <1>1, Here
<1>3. /\ Head(r.plan) \in Authorized /\ r.token \in Int /\ r.mine \in Int
      /\ r.row => Head(r.plan) \in {"encode", "cleanup"}
  BY <1>1, <1>2 DEF QueryOK, ShapeOK, RowOK, Authorized
<1>4. /\ DOMAIN s = QueryFields /\ SameCall(s, r) /\ s.plan = r.plan /\ s.at = "refreshing"
      /\ s.token = r.token /\ s.mine = r.mine /\ s.again /\ s.again \in BOOLEAN
      /\ s.lists = r.lists /\ s.spoilt = r.spoilt /\ s.row = r.row /\ s.why = r.why
  BY <1>2 DEF SameCall, QueryFields
<1> HIDE DEF r, s
<1>5. ASSUME r.again PROVE Good(Thrown(r, "unauthorized"))
  <2>1. r.token = r.mine /\ r.mine \in 1 .. auth.minted
    BY <1>1, <1>2, <1>5 DEF QueryOK, TokenOK
  <2>2. auth.dead \in Int /\ auth.minted \in Int
    BY DEF ServerInv, AuthOK
  <2>3. r.mine \in 1 .. auth.dead
    BY <1>1, <1>3, <2>1, <2>2
  <2> QED
    BY <1>1, <1>2, <1>3, <2>3, Stops
<1>6. Good(s)
  <2>1. TokenOK(s, auth)
    BY <1>1, <1>2, <1>4 DEF TokenOK, QueryOK
  <2> QED
    BY <1>1, <1>2, <1>3, <1>4, <2>1, RequestOK
<1> QED
  BY <1>1, <1>2, <1>5, <1>6, CallMoves

LEMMA RefreshKeeps == ASSUME ServerInv, NEW q \in Query, refresh(q) PROVE ServerInv'
<1> DEFINE r == queries[q]
           s == [r EXCEPT !.at = "refreshed", !.token = auth.minted + 1, !.mine = auth.minted + 1]
<1>1. /\ Active(r) /\ r.at = "refreshing"
      /\ UNCHANGED <<walletVars, process, decimalsCache, seconds>>
  BY DEF refresh, Active
<1>2. /\ process.at = "up" /\ DOMAIN r = QueryFields
      /\ QueryOK(r, process.owner, auth, decimalsCache.spoiltAt, seconds)
  BY <1>1, Here
<1>3. /\ Head(r.plan) \in Authorized /\ r.again /\ r.again \in BOOLEAN
      /\ r.row => Head(r.plan) \in {"encode", "cleanup"}
  BY <1>1, <1>2 DEF QueryOK, ShapeOK, RowOK, Authorized, TokenOK
<1>4. CASE auth.refresh
  <2>1. auth' = [auth EXCEPT !.minted = @ + 1] /\ Becomes(q, s)
    BY <1>4 DEF refresh
  <2>2. AuthOK' /\ auth'.minted = auth.minted + 1 /\ auth.minted \in Nat /\ Later(auth, auth')
    BY <2>1 DEF ServerInv, AuthOK, Later
  <2>3. /\ DOMAIN s = QueryFields /\ SameCall(s, r) /\ s.plan = r.plan /\ s.at = "refreshed"
        /\ s.token = auth.minted + 1 /\ s.mine = auth.minted + 1 /\ s.again = r.again
        /\ s.lists = r.lists /\ s.spoilt = r.spoilt /\ s.row = r.row /\ s.why = r.why
    BY <1>2 DEF SameCall, QueryFields
  <2>4. r.why = "none"
    BY <1>1, <1>2 DEF QueryOK, ShapeOK
  <2> HIDE DEF r, s
  <2>5. TokenOK(s, auth')
    <3>1. s.mine \in 1 .. auth'.minted
      BY <2>2, <2>3
    <3> QED
      BY <1>3, <2>3, <2>4, <3>1 DEF TokenOK
  <2>6. QueryOK(r, process.owner, auth', decimalsCache.spoiltAt, seconds)
    <3>1. /\ auth.minted \in Int /\ auth.dead \in Int /\ auth'.minted \in Int /\ auth'.dead \in Int
          /\ decimalsCache.spoiltAt \in Int /\ seconds \in Int
          /\ decimalsCache.spoiltAt <= decimalsCache.spoiltAt /\ seconds <= seconds
      BY <2>2 DEF ServerInv, AuthOK, CacheOK
    <3> QED
      BY <1>2, <2>2, <3>1, QueryStays
  <2>7. QueryOK(s, process.owner, auth', decimalsCache.spoiltAt, seconds)
    <3>1. s.token \in Int /\ s.mine \in Int /\ s.again \in BOOLEAN
      BY <1>3, <2>2, <2>3
    <3> QED
      BY <1>1, <1>3, <2>3, <2>5, <2>6, <3>1, RequestOK
  <2>8. WalletOK' /\ CacheOK'
    BY <1>1 DEF ServerInv, WalletOK, CacheOK, Right, Covers, walletVars
  <2>9. decimalsCache.spoiltAt <= decimalsCache'.spoiltAt /\ seconds <= seconds'
    BY <1>1 DEF ServerInv, CacheOK
  <2>10. QueriesOK'
    BY <1>1, <1>2, <2>1, <2>2, <2>7, <2>8, <2>9, QueryMoves DEF Becomes
  <2> QED
    BY <2>2, <2>8, <2>10 DEF ServerInv
<1>5. CASE ~auth.refresh
  <2>1. Becomes(q, Thrown(r, "signed out")) /\ UNCHANGED auth
    BY <1>5 DEF refresh
  <2> HIDE DEF r
  <2>2. QueryOK(Thrown(r, "signed out"), process.owner, auth, decimalsCache.spoiltAt, seconds)
    BY <1>1, <1>2, <1>3, <1>5, Stops
  <2> QED
    BY <1>1, <1>2, <2>1, <2>2, CallMoves
<1> QED
  BY <1>4, <1>5

LEMMA RepeatKeeps == ASSUME ServerInv, NEW q \in Query, repeat(q) PROVE ServerInv'
<1> DEFINE r == queries[q]
           s == [r EXCEPT !.at = "sent"]
<1>1. /\ Active(r) /\ r.at = "refreshed" /\ Becomes(q, s)
      /\ auth' = [auth EXCEPT !.access = r.token]
      /\ UNCHANGED <<walletVars, process, decimalsCache, seconds>>
  BY DEF repeat, Active
<1>2. /\ process.at = "up" /\ DOMAIN r = QueryFields
      /\ QueryOK(r, process.owner, auth, decimalsCache.spoiltAt, seconds)
  BY <1>1, Here
<1>3. /\ DOMAIN s = QueryFields /\ SameCall(s, r) /\ s.plan = r.plan /\ s.at = "sent"
      /\ s.token = r.token /\ s.mine = r.mine /\ s.again = r.again
      /\ s.lists = r.lists /\ s.spoilt = r.spoilt /\ s.row = r.row /\ s.why = r.why
  BY <1>2 DEF SameCall, QueryFields
<1>4. /\ Head(r.plan) \in Authorized /\ r.token \in Int /\ r.mine \in Int
      /\ r.again \in BOOLEAN /\ r.again /\ r.why = "none"
  BY <1>1, <1>2 DEF QueryOK, ShapeOK, TokenOK
<1>5. TokenOK(r, auth) /\ (r.again => r.token = r.mine /\ r.mine \in 1 .. auth.minted)
  BY <1>1, <1>2 DEF QueryOK, TokenOK
<1>6. /\ AuthOK' /\ auth'.minted = auth.minted /\ auth'.dead = auth.dead
      /\ auth'.refresh = auth.refresh /\ Later(auth, auth')
  BY <1>1, <1>4 DEF ServerInv, AuthOK, Later
<1> HIDE DEF r, s
<1>7. TokenOK(s, auth')
  BY <1>3, <1>4, <1>5, <1>6 DEF TokenOK
<1>8. QueryOK(r, process.owner, auth', decimalsCache.spoiltAt, seconds)
  <2>1. TokenOK(r, auth')
    BY <1>5, <1>6 DEF TokenOK
  <2> QED
    BY <1>2, <2>1 DEF QueryOK
<1>9. QueryOK(s, process.owner, auth', decimalsCache.spoiltAt, seconds)
  BY <1>1, <1>3, <1>4, <1>7, <1>8, RequestOK
<1>10. WalletOK' /\ CacheOK'
  BY <1>1 DEF ServerInv, WalletOK, CacheOK, Right, Covers, walletVars
<1>11. decimalsCache.spoiltAt <= decimalsCache'.spoiltAt /\ seconds <= seconds'
  BY <1>1 DEF ServerInv, CacheOK
<1>12. QueriesOK'
  BY <1>1, <1>2, <1>6, <1>9, <1>10, <1>11, QueryMoves DEF Becomes
<1> QED
  BY <1>6, <1>10, <1>12 DEF ServerInv

LEMMA SendFailsKeeps == ASSUME ServerInv, NEW q \in Query, sendFails(q) PROVE ServerInv'
<1> DEFINE r == queries[q]
           t == [r EXCEPT !.row = Head(r.plan) = "row"]
           Good(x) == QueryOK(x, process.owner, auth, decimalsCache.spoiltAt, seconds)
<1>1. /\ Active(r) /\ r.at \in {"sent", "refreshing"}
      /\ UNCHANGED <<walletVars, process, auth, decimalsCache, seconds>>
      /\ Becomes(q, Thrown(r, "unreachable")) \/ Becomes(q, Thrown(t, "unreachable"))
  BY DEF sendFails, Active
<1>2. process.at = "up" /\ Good(r) /\ DOMAIN r = QueryFields
  BY <1>1, Here
<1>3. /\ DOMAIN t = QueryFields /\ t.plan = r.plan /\ t.at = r.at
      /\ t.row \in BOOLEAN /\ SameCall(t, r) /\ t.why = r.why
      /\ t.token = r.token /\ t.mine = r.mine /\ t.again = r.again
      /\ t.lists = r.lists /\ t.spoilt = r.spoilt
  BY <1>2 DEF QueryFields, SameCall
<1> HIDE DEF r, t
<1>4. Good(Thrown(r, "unreachable"))
  BY <1>1, <1>2, Stops
<1>5. Good(Thrown(t, "unreachable"))
  <2>1. Active(t) /\ ShapeOK(t)
    BY <1>1, <1>2, <1>3 DEF Active, QueryOK, ShapeOK, SameCall
  <2>2. /\ Right(t.known) /\ (t.base # 0 => t.base = t.amount * 10 ^ CoinDecimals[t.coin])
        /\ t.since <= seconds
    BY <1>2, <1>3 DEF QueryOK, UnitsOK, SameCall
  <2> QED
    BY <2>1, <2>2, ThrownOK
<1> QED
  BY <1>1, <1>2, <1>4, <1>5, CallMoves

\* Steps that need no session.
LEMMA AtNext ==
    ASSUME ServerInv, NEW q \in Query, queries[q].at = "next", Head(queries[q].plan) \notin CheckSteps,
           Head(queries[q].plan) \notin {"decimals", "intent"}, NEW r, Becomes(q, r),
           UNCHANGED <<walletVars, process, auth, decimalsCache, seconds>>,
           \/ r = Done(queries[q])
           \/ r \in {Thrown(queries[q], why) : why \in {"refused", "unreachable", "recipient"}}
    PROVE  ServerInv'
<1> DEFINE o == queries[q]
           Good(x) == QueryOK(x, process.owner, auth, decimalsCache.spoiltAt, seconds)
<1>1. Active(o)
  BY DEF Active
<1>2. process.at = "up" /\ Good(o) /\ DOMAIN o = QueryFields
  BY <1>1, Here
<1>3. ~o.row /\ o.row \in BOOLEAN
  BY <1>2 DEF QueryOK, ShapeOK, RowOK, CheckSteps, VaultGuarded
<1>4. Good(Done(o))
  BY <1>1, <1>2, <1>3, GoesOn
<1>5. \A why \in {"refused", "unreachable", "recipient"} : Good(Thrown(o, why))
  BY <1>1, <1>2, <1>3, Stops
<1> QED
  BY <1>2, <1>4, <1>5, CallMoves

LEMMA AtNextKeeps ==
    ASSUME ServerInv, NEW q \in Query, readsPublic(q) \/ feeLine(q) \/ recipient(q)
    PROVE  ServerInv'
<1>1. CASE readsPublic(q)
  BY <1>1, AtNext DEF readsPublic, AtOneOf, CheckSteps, VaultGuarded
<1>2. CASE feeLine(q)
  BY <1>2, AtNext DEF feeLine, At_, CheckSteps, VaultGuarded
<1>3. CASE recipient(q)
  BY <1>3, AtNext DEF recipient, At_, CheckSteps, VaultGuarded
<1> QED
  BY <1>1, <1>2, <1>3

\* A plan that begins with the decimals converts nothing before them.
LEMMA DecimalsFirst ==
    ASSUME NEW p, PlanOK(p), Head(p) = "decimals"
    PROVE  UnitsLater(p)
<1>1. Len(p) \in Nat \ {0} /\ DOMAIN p = 1 .. Len(p) /\ p[1] = "decimals"
  BY Rest
<1>2. ASSUME NEW i \in 1 .. Len(p), p[i] = "units" PROVE 1 \in 1 .. i - 1
  BY <1>1, <1>2
<1> QED
  BY <1>1, <1>2 DEF UnitsLater

LEMMA GetTokenDecimalsKeeps == ASSUME ServerInv, NEW q \in Query, getTokenDecimals(q) PROVE ServerInv'
<1> DEFINE r == queries[q]
           c == decimalsCache.cache
           s == [r EXCEPT !.known = c.known]
           t == [r EXCEPT !.at = "loading", !.lists = 0, !.known = << >>]
           Good(x) == QueryOK(x, process.owner, auth, decimalsCache.spoiltAt, seconds)
<1>1. /\ Active(r) /\ r.at = "next" /\ Head(r.plan) = "decimals"
      /\ UNCHANGED <<walletVars, process, auth, decimalsCache, seconds>>
      /\ Becomes(q, IF CacheHolds THEN Done(s) ELSE t)
  BY DEF getTokenDecimals, Active, At_
<1>2. process.at = "up" /\ Good(r) /\ DOMAIN r = QueryFields /\ PlanOK(r.plan)
  BY <1>1, Here
<1>3. ~r.row /\ r.row \in BOOLEAN /\ UnitsLater(r.plan)
      /\ (r.vault = process.owner \/ Checks(r.plan)) /\ "decimals" \notin CheckSteps
  BY <1>1, <1>2, DecimalsFirst DEF QueryOK, ShapeOK, RowOK, VaultOK, CheckSteps, VaultGuarded
<1>4. CacheHolds => seconds - c.ts <= DecimalsTTL
  BY DEF CacheHolds
<1>5. /\ c.ts \in Int /\ seconds \in Nat /\ decimalsCache.spoiltAt \in Int
      /\ Right(c.known) /\ (Covers(c.known, 3) \/ decimalsCache.spoiltAt >= c.ts)
  BY DEF ServerInv, CacheOK
<1>6. /\ DOMAIN s = QueryFields /\ s.plan = r.plan /\ s.at = r.at /\ s.tool = r.tool
      /\ s.vault = r.vault /\ s.coin = r.coin /\ s.amount = r.amount /\ s.base = r.base
      /\ s.since = r.since /\ s.known = c.known /\ s.row = r.row /\ s.why = r.why
      /\ s.token = r.token /\ s.mine = r.mine /\ s.again = r.again
      /\ s.lists = r.lists /\ s.spoilt = r.spoilt
  BY <1>2 DEF QueryFields
<1>7. /\ DOMAIN t = QueryFields /\ t.plan = r.plan /\ t.at = "loading" /\ t.tool = r.tool
      /\ t.vault = r.vault /\ t.coin = r.coin /\ t.amount = r.amount /\ t.base = r.base
      /\ t.since = r.since /\ t.known = << >> /\ t.row = r.row /\ t.why = r.why
      /\ t.token = r.token /\ t.mine = r.mine /\ t.again = r.again
      /\ t.lists = 0 /\ t.spoilt = r.spoilt
  BY <1>2 DEF QueryFields
<1> HIDE DEF r, s, t, c
<1>8. ASSUME CacheHolds PROVE Good(Done(s))
  <2>1. ShapeOK(s) /\ Active(s) /\ s.since <= seconds
    BY <1>1, <1>2, <1>6 DEF Active, QueryOK, ShapeOK
  <2>2. Loaded(s, decimalsCache.spoiltAt)
    <3>1. s.since \in Int /\ DecimalsTTL \in Nat
      BY <2>1, McpAssumption DEF ShapeOK
    <3>2. decimalsCache.spoiltAt >= c.ts => decimalsCache.spoiltAt >= s.since - DecimalsTTL
      BY <1>4, <1>5, <1>8, <2>1, <3>1
    <3> QED
      BY <1>5, <1>6, <3>2 DEF Loaded
  <2>3. s.base # 0 => s.base = s.amount * 10 ^ CoinDecimals[s.coin]
    BY <1>2, <1>6 DEF QueryOK, UnitsOK
  <2> QED
    BY <1>1, <1>3, <1>5, <1>6, <2>1, <2>2, <2>3, DoneOK
<1>9. Good(t)
  <2>1. ShapeOK(t) /\ t.since <= seconds
    BY <1>1, <1>2, <1>7 DEF Active, QueryOK, ShapeOK
  <2>2. VaultOK(t, process.owner) /\ RowOK(t)
    BY <1>3, <1>7 DEF VaultOK, RowOK
  <2>3. TokenOK(t, auth)
    BY <1>1, <1>2, <1>7 DEF QueryOK, TokenOK
  <2>4. Right(t.known) /\ Covers(t.known, t.lists)
    BY <1>7 DEF Right, Covers
  <2>5. t.base # 0 => t.base = t.amount * 10 ^ CoinDecimals[t.coin]
    BY <1>2, <1>7 DEF QueryOK, UnitsOK
  <2>6. t.why = "none"
    BY <1>1, <1>2, <1>7 DEF QueryOK, ShapeOK
  <2>7. UnitsOK(t, decimalsCache.spoiltAt)
    BY <1>1, <1>3, <1>7, <2>4, <2>5, <2>6 DEF UnitsOK
  <2> QED
    BY <2>1, <2>2, <2>3, <2>7 DEF QueryOK
<1> QED
  BY <1>1, <1>2, <1>8, <1>9, CallMoves

\* A list adds what it has.
LEMMA ListRead ==
    ASSUME NEW i \in 1 .. 3, NEW known, Right(known)
    PROVE  /\ Right(add(TokenLists[i], known))
           /\ DOMAIN add(TokenLists[i], known) = DOMAIN TokenLists[i] \cup DOMAIN known
<1> DEFINE l == TokenLists[i]
           f == add(l, known)
<1>1. DOMAIN l \subseteq Coin /\ \A c \in DOMAIN l : l[c] = CoinDecimals[c]
  BY McpAssumption
<1>2. f = [c \in DOMAIN l \cup DOMAIN known |-> IF c \in DOMAIN l THEN l[c] ELSE known[c]]
  BY DEF add
<1> HIDE DEF l, f
<1>3. Right(f) /\ DOMAIN f = DOMAIN l \cup DOMAIN known
  BY <1>1, <1>2 DEF Right
<1> QED
  BY <1>3 DEF l, f

LEMMA LoadTokenDecimalsKeeps == ASSUME ServerInv, NEW q \in Query, loadTokenDecimals(q) PROVE ServerInv'
<1> DEFINE r == queries[q]
           Next_(ok) == [r EXCEPT !.lists = @ + 1, !.spoilt = @ \/ ~ok,
                                  !.known = IF ok THEN add(TokenLists[r.lists + 1], @) ELSE @]
<1>1. Active(r) /\ r.at = "loading" /\ UNCHANGED <<walletVars, process, auth, seconds>>
  BY DEF loadTokenDecimals, Active
<1>2. PICK ok \in BOOLEAN :
        /\ Becomes(q, IF Next_(ok).lists = 3 THEN Done(Next_(ok)) ELSE Next_(ok))
        /\ decimalsCache' =
             IF Next_(ok).lists < 3 THEN decimalsCache
             ELSE [cache |-> [known |-> Next_(ok).known, ts |-> seconds],
                   spoiltAt |-> IF Next_(ok).spoilt THEN seconds ELSE decimalsCache.spoiltAt]
  BY DEF loadTokenDecimals
<1> DEFINE s == Next_(ok)
           sp == decimalsCache'.spoiltAt
<1>3. /\ process.at = "up" /\ DOMAIN r = QueryFields /\ PlanOK(r.plan)
      /\ QueryOK(r, process.owner, auth, decimalsCache.spoiltAt, seconds)
  BY <1>1, Here
<1>4. /\ DOMAIN s = QueryFields /\ s.plan = r.plan /\ s.at = r.at /\ s.tool = r.tool
      /\ s.vault = r.vault /\ s.coin = r.coin /\ s.amount = r.amount /\ s.base = r.base
      /\ s.since = r.since /\ s.row = r.row /\ s.why = r.why
      /\ s.token = r.token /\ s.mine = r.mine /\ s.again = r.again
      /\ s.lists = r.lists + 1 /\ s.spoilt = (r.spoilt \/ ~ok)
      /\ s.known = IF ok THEN add(TokenLists[r.lists + 1], r.known) ELSE r.known
  BY <1>3 DEF QueryFields
<1> HIDE DEF r
<1>5. /\ Head(r.plan) = "decimals" /\ r.lists \in 0 .. 2 /\ Right(r.known)
      /\ r.spoilt \/ Covers(r.known, r.lists)
      /\ r.spoilt \in BOOLEAN /\ r.since \in Int /\ r.since <= seconds
      /\ r.base # 0 => r.base = r.amount * 10 ^ CoinDecimals[r.coin]
  BY <1>1, <1>3 DEF QueryOK, UnitsOK, ShapeOK
<1>6. ~r.row /\ r.row \in BOOLEAN /\ UnitsLater(r.plan) /\ r.why = "none"
      /\ (r.vault = process.owner \/ Checks(r.plan)) /\ "decimals" \notin CheckSteps
  BY <1>1, <1>3, <1>5, DecimalsFirst DEF QueryOK, ShapeOK, RowOK, VaultOK, CheckSteps, VaultGuarded
<1>7. /\ Becomes(q, IF s.lists = 3 THEN Done(s) ELSE s)
      /\ decimalsCache' =
           IF s.lists < 3 THEN decimalsCache
           ELSE [cache |-> [known |-> s.known, ts |-> seconds],
                 spoiltAt |-> IF s.spoilt THEN seconds ELSE decimalsCache.spoiltAt]
  BY <1>2
<1> HIDE DEF s, Next_
<1>8. Right(s.known) /\ (s.spoilt \/ Covers(s.known, s.lists)) /\ s.spoilt \in BOOLEAN
      /\ s.lists \in 1 .. 3
  <2>1. CASE ok
    <3>1. /\ s.known = add(TokenLists[r.lists + 1], r.known) /\ s.spoilt = r.spoilt
          /\ r.lists + 1 \in 1 .. 3
      BY <1>4, <1>5, <2>1
    <3>2. /\ Right(s.known)
          /\ DOMAIN s.known = DOMAIN TokenLists[r.lists + 1] \cup DOMAIN r.known
      BY <1>5, <3>1, ListRead
    <3>3. Covers(r.known, r.lists) => Covers(s.known, r.lists + 1)
      <4> SUFFICES ASSUME Covers(r.known, r.lists), NEW i \in 1 .. r.lists + 1
                   PROVE  DOMAIN TokenLists[i] \subseteq DOMAIN s.known
        BY DEF Covers
      <4>1. i = r.lists + 1 \/ i \in 1 .. r.lists
        BY <1>5
      <4> QED
        BY <3>2, <4>1 DEF Covers
    <3> QED
      BY <1>4, <1>5, <3>1, <3>2, <3>3
  <2>2. CASE ~ok
    <3>1. s.spoilt = (r.spoilt \/ TRUE) /\ s.known = r.known /\ s.lists = r.lists + 1
      BY <1>4, <2>2
    <3>2. s.spoilt = TRUE
      BY <3>1
    <3>3. s.lists \in 1 .. 3
      BY <1>5, <3>1
    <3> QED
      BY <1>5, <3>1, <3>2, <3>3
  <2> QED
    BY <2>1, <2>2
<1>9. /\ ShapeOK(s) /\ Active(s) /\ s.at = "loading" /\ s.since <= seconds /\ s.why = "none"
      /\ s.base # 0 => s.base = s.amount * 10 ^ CoinDecimals[s.coin]
  <2>1. s.lists \in Nat
    BY <1>8
  <2> QED
    BY <1>1, <1>3, <1>4, <1>5, <1>6, <1>8, <2>1 DEF Active, QueryOK, ShapeOK
<1>10. seconds \in Nat /\ DecimalsTTL \in Nat /\ decimalsCache.spoiltAt \in Int
       /\ decimalsCache.spoiltAt <= seconds
  BY McpAssumption DEF ServerInv, CacheOK
<1>11. WalletOK' /\ AuthOK' /\ Later(auth, auth') /\ seconds <= seconds'
  BY <1>1, <1>10 DEF ServerInv, WalletOK, AuthOK, Later, walletVars
<1>12. CASE s.lists = 3
  <2>1. /\ Becomes(q, Done(s))
        /\ decimalsCache' = [cache |-> [known |-> s.known, ts |-> seconds],
                             spoiltAt |-> IF s.spoilt THEN seconds ELSE decimalsCache.spoiltAt]
    BY <1>7, <1>12
  <2>2. CacheOK' /\ decimalsCache.spoiltAt <= decimalsCache'.spoiltAt
    <3>1. /\ DOMAIN decimalsCache' = {"cache", "spoiltAt"} /\ decimalsCache'.cache.known = s.known
          /\ decimalsCache'.cache.ts = seconds
          /\ decimalsCache'.spoiltAt = IF s.spoilt THEN seconds ELSE decimalsCache.spoiltAt
      BY <2>1
    <3>2. decimalsCache'.spoiltAt \in Int /\ decimalsCache'.spoiltAt <= seconds'
          /\ decimalsCache.spoiltAt <= decimalsCache'.spoiltAt
          /\ (s.spoilt => decimalsCache'.spoiltAt >= seconds)
      BY <1>1, <1>10, <3>1
    <3>3. Covers(s.known, 3) \/ s.spoilt
      BY <1>8, <1>12
    <3> QED
      BY <1>1, <1>8, <1>10, <1>12, <3>1, <3>2, <3>3 DEF CacheOK, Right, Covers
  <2>3. Loaded(s, sp)
    <3>1. s.spoilt => sp = seconds
      BY <2>1
    <3>2. s.spoilt => sp >= s.since - DecimalsTTL
      BY <1>4, <1>5, <1>10, <3>1
    <3> QED
      BY <1>8, <1>12, <3>2 DEF Loaded
  <2>4. QueryOK(Done(s), process.owner, auth, sp, seconds)
    BY <1>4, <1>5, <1>6, <1>8, <1>9, <2>3, DoneOK
  <2>5. QueriesOK'
    BY <1>1, <1>3, <1>11, <2>1, <2>2, <2>4, QueryMoves DEF Becomes
  <2> QED
    BY <1>11, <2>2, <2>5 DEF ServerInv
<1>13. CASE s.lists # 3
  <2>1. Becomes(q, s) /\ decimalsCache' = decimalsCache /\ s.lists \in 0 .. 2
    BY <1>7, <1>8, <1>13
  <2>2. VaultOK(s, process.owner) /\ RowOK(s)
    BY <1>4, <1>6, <1>9 DEF VaultOK, RowOK
  <2>3. TokenOK(s, auth)
    BY <1>1, <1>3, <1>4, <1>9 DEF QueryOK, TokenOK
  <2>4. UnitsOK(s, decimalsCache.spoiltAt)
    BY <1>4, <1>5, <1>6, <1>8, <1>9, <2>1 DEF UnitsOK
  <2>5. QueryOK(s, process.owner, auth, decimalsCache.spoiltAt, seconds)
    BY <1>9, <2>2, <2>3, <2>4 DEF QueryOK
  <2> QED
    BY <1>1, <1>3, <2>1, <2>5, CallMoves
<1> QED
  BY <1>12, <1>13

LEMMA UnitsKeeps == ASSUME ServerInv, NEW q \in Query, units(q) PROVE ServerInv'
<1> DEFINE r == queries[q]
           s == [r EXCEPT !.base = toBaseUnits(r)]
           Good(x) == QueryOK(x, process.owner, auth, decimalsCache.spoiltAt, seconds)
<1>1. /\ Active(r) /\ r.at = "next" /\ Head(r.plan) = "units"
      /\ UNCHANGED <<walletVars, process, auth, decimalsCache, seconds>>
      /\ Becomes(q, IF Refusal(r) = "none" THEN Done(s) ELSE Thrown(r, Refusal(r)))
  BY DEF units, Active, At_
<1>2. process.at = "up" /\ Good(r) /\ DOMAIN r = QueryFields /\ PlanOK(r.plan)
  BY <1>1, Here
<1>3. /\ ~r.row /\ r.row \in BOOLEAN /\ Right(r.known) /\ "units" \notin CheckSteps
      /\ r.vault = process.owner \/ Checks(r.plan)
  BY <1>1, <1>2 DEF QueryOK, ShapeOK, RowOK, VaultOK, UnitsOK, CheckSteps, VaultGuarded
<1>4. /\ DOMAIN s = QueryFields /\ s.plan = r.plan /\ s.at = r.at /\ s.tool = r.tool
      /\ s.vault = r.vault /\ s.coin = r.coin /\ s.amount = r.amount /\ s.base = toBaseUnits(r)
      /\ s.since = r.since /\ s.known = r.known /\ s.row = r.row /\ s.why = r.why
      /\ s.token = r.token /\ s.mine = r.mine /\ s.again = r.again
      /\ s.lists = r.lists /\ s.spoilt = r.spoilt
  BY <1>2 DEF QueryFields
<1> HIDE DEF r, s
\* The decimals were read, for nothing is converted first.
<1>5. Loaded(r, decimalsCache.spoiltAt)
  <2>1. Len(r.plan) \in Nat \ {0} /\ DOMAIN r.plan = 1 .. Len(r.plan) /\ r.plan[1] = "units"
    BY <1>1, <1>2, Rest
  <2>2. 1 \in DOMAIN r.plan
    BY <2>1
  <2>3. ~UnitsLater(r.plan)
    BY <2>1, <2>2 DEF UnitsLater
  <2> QED
    BY <1>1, <1>2, <2>3 DEF QueryOK, UnitsOK
<1>6. r.coin \in DOMAIN r.known => decimalsOf(r) = CoinDecimals[r.coin] /\ decimalsOf(r) \in Nat
  BY <1>3, McpAssumption DEF decimalsOf, Right
<1>7. r.coin \notin DOMAIN r.known => decimalsOf(r) = -1
  BY DEF decimalsOf
<1>8. Refusal(r) \in {"none", "uncurated", "too much"}
      /\ (Refusal(r) = "uncurated" <=> decimalsOf(r) < 0)
  BY DEF Refusal
<1>9. ASSUME Refusal(r) = "none" PROVE Good(Done(s))
  <2>1. r.coin \in DOMAIN r.known
    BY <1>7, <1>8, <1>9
  <2>2. s.base = s.amount * 10 ^ CoinDecimals[s.coin]
    BY <1>4, <1>6, <2>1 DEF toBaseUnits
  <2>3. ShapeOK(s) /\ Active(s) /\ s.since <= seconds
    BY <1>1, <1>2, <1>4 DEF Active, QueryOK, ShapeOK
  <2>4. Loaded(s, decimalsCache.spoiltAt)
    BY <1>4, <1>5 DEF Loaded
  <2> QED
    BY <1>1, <1>3, <1>4, <2>2, <2>3, <2>4, DoneOK
<1>10. ASSUME Refusal(r) # "none" PROVE Good(Thrown(r, Refusal(r)))
  <2>1. ASSUME Refusal(r) = "uncurated", Listed(r.coin)
        PROVE  decimalsCache.spoiltAt >= r.since - DecimalsTTL
    <3>1. r.coin \notin DOMAIN r.known
      BY <1>6, <1>8, <2>1
    <3>2. ~Covers(r.known, 3)
      BY <2>1, <3>1 DEF Covers, Listed
    <3> QED
      BY <1>5, <3>2 DEF Loaded
  <2> QED
    BY <1>1, <1>2, <1>3, <1>8, <1>10, <2>1, Stops
<1> QED
  BY <1>1, <1>2, <1>9, <1>10, CallMoves

\* At the last step, which asks nobody, the vault is known to be the owner's.
LEMMA LastStep ==
    ASSUME NEW p, PlanOK(p), Head(p) \in {"gate", "intent"}
    PROVE  ~Checks(p)
<1>1. Len(p) \in Nat \ {0} /\ DOMAIN p = 1 .. Len(p) /\ p[1] = Head(p)
  BY Rest
<1>2. 1 = Len(p)
  BY <1>1 DEF PlanOK
<1> QED
  BY <1>1, <1>2 DEF Checks, CheckSteps, VaultGuarded

LEMMA HandedOver ==
    ASSUME ServerInv, NEW q \in Query, queries[q].at = "next",
           Head(queries[q].plan) \in {"gate", "intent"}, NEW at \in {"gated", "held"},
           queries[q].row => at = "held",
           Becomes(q, [queries[q] EXCEPT !.at = at]),
           UNCHANGED <<walletVars, process, auth, decimalsCache, seconds>>
    PROVE  ServerInv'
<1> DEFINE r == queries[q]
           s == [r EXCEPT !.at = at]
<1>1. Active(r)
  BY DEF Active
<1>2. /\ process.at = "up" /\ DOMAIN r = QueryFields /\ PlanOK(r.plan) /\ r.why = "none"
      /\ QueryOK(r, process.owner, auth, decimalsCache.spoiltAt, seconds)
  BY <1>1, Here
<1>3. /\ DOMAIN s = QueryFields /\ SameCall(s, r) /\ s.plan = r.plan /\ s.at = at
      /\ s.token = r.token /\ s.mine = r.mine /\ s.again = r.again
      /\ s.lists = r.lists /\ s.spoilt = r.spoilt /\ s.row = r.row /\ s.why = r.why
  BY <1>2 DEF SameCall, QueryFields
<1>4. r.vault = process.owner
  BY <1>1, <1>2, LastStep DEF QueryOK, VaultOK
<1>5. Becomes(q, s) /\ (r.row => at = "held")
  OBVIOUS
<1> HIDE DEF r, s
<1>6. ShapeOK(s)
  BY <1>2, <1>3 DEF QueryOK, ShapeOK, SameCall, Active
<1>7. VaultOK(s, process.owner) /\ TokenOK(s, auth) /\ RowOK(s)
  BY <1>2, <1>3, <1>4, <1>5 DEF VaultOK, TokenOK, RowOK, SameCall, Active
<1>8. UnitsOK(s, decimalsCache.spoiltAt) /\ s.since <= seconds
  BY <1>2, <1>3 DEF QueryOK, UnitsOK, SameCall, Active
<1>9. QueryOK(s, process.owner, auth, decimalsCache.spoiltAt, seconds)
  BY <1>6, <1>7, <1>8 DEF QueryOK
<1> QED
  BY <1>2, <1>5, <1>9, CallMoves

LEMMA HandedOverKeeps == ASSUME ServerInv, NEW q \in Query, gate(q) \/ intent(q) PROVE ServerInv'
<1> DEFINE r == queries[q]
<1>1. r.at = "next" /\ UNCHANGED <<walletVars, process, auth, decimalsCache, seconds>>
  BY DEF gate, intent, At_
<1>2. Active(r)
  BY <1>1 DEF Active
<1>3. process.at = "up" /\ QueryOK(r, process.owner, auth, decimalsCache.spoiltAt, seconds)
  BY <1>2, Here
<1>4. CASE gate(q)
  <2>1. Head(r.plan) = "gate" /\ Becomes(q, [r EXCEPT !.at = "gated"])
    BY <1>4 DEF gate, At_
  <2>2. /\ r.row => "gated" = "held"
        /\ "gated" \in {"gated", "held"} /\ Head(r.plan) \in {"gate", "intent"}
    BY <1>1, <1>3, <2>1 DEF QueryOK, RowOK
  <2> QED
    BY <1>1, <2>1, <2>2, HandedOver
<1>5. CASE intent(q)
  <2>1. /\ Head(r.plan) = "intent"
        /\ Becomes(q, [r EXCEPT !.at = "held"]) \/ Becomes(q, CleaningUp(r))
    BY <1>5 DEF intent, At_
  <2>2. CASE Becomes(q, [r EXCEPT !.at = "held"])
    BY <1>1, <2>1, <2>2, HandedOver
  <2>3. CASE Becomes(q, CleaningUp(r))
    <3>1. QueryOK(CleaningUp(r), process.owner, auth, decimalsCache.spoiltAt, seconds)
      <4>1. /\ ShapeOK(r) /\ r.since <= seconds /\ Right(r.known)
            /\ r.base # 0 => r.base = r.amount * 10 ^ CoinDecimals[r.coin]
        BY <1>3 DEF QueryOK, UnitsOK
      <4> QED
        BY <1>2, <4>1, CleaningUpOK
    <3> QED
      BY <1>1, <1>3, <2>3, <3>1, CallMoves
  <2> QED
    BY <2>1, <2>2, <2>3
<1> QED
  BY <1>4, <1>5

LEMMA CallMcpToolKeeps ==
    ASSUME ServerInv, NEW q \in Query, NEW tool \in Tools, NEW vault, NEW coin, NEW amount,
           callMcpTool(q, tool, vault, coin, amount)
    PROVE  ServerInv'
<1> DEFINE s == [Idle EXCEPT !.tool = tool, !.vault = vault, !.coin = coin, !.amount = amount,
                             !.plan = PlanOf(tool), !.at = "next", !.since = seconds]
<1>1. /\ process.at = "up" /\ Becomes(q, s) /\ (tool \notin VaultTools => vault = process.owner)
      /\ UNCHANGED <<walletVars, process, auth, decimalsCache, seconds>>
  BY DEF callMcpTool, Becomes
<1>2. /\ DOMAIN s = QueryFields /\ s.vault = vault /\ s.plan = PlanOf(tool) /\ s.at = "next"
      /\ s.token = 0 /\ s.again = FALSE /\ s.mine = 0 /\ s.lists = 0 /\ s.spoilt = FALSE
      /\ s.known = << >> /\ s.base = 0 /\ s.row = FALSE /\ s.since = seconds /\ s.why = "none"
  BY DEF Idle, QueryFields
<1> HIDE DEF s
<1>3. /\ PlanOK(PlanOf(tool)) /\ UnitsLater(PlanOf(tool))
      /\ (tool \in VaultTools => Checks(PlanOf(tool)))
  BY PlansOK
<1>4. ShapeOK(s)
  <2>1. seconds \in Int /\ FALSE \in BOOLEAN
    BY DEF ServerInv, CacheOK
  <2>2. s.token \in Int /\ s.mine \in Int /\ s.lists \in Nat /\ s.since \in Int
    BY <1>2, <2>1
  <2>3. s.again \in BOOLEAN /\ s.spoilt \in BOOLEAN /\ s.row \in BOOLEAN
    BY <1>2
  <2> QED
    BY <1>2, <1>3, <2>2, <2>3 DEF ShapeOK
<1>5. VaultOK(s, process.owner) /\ TokenOK(s, auth) /\ RowOK(s)
  BY <1>1, <1>2, <1>3 DEF VaultOK, TokenOK, RowOK
<1>6. Right(<< >>)
  BY DEF Right
<1>7. UnitsOK(s, decimalsCache.spoiltAt) /\ s.since <= seconds
  BY <1>2, <1>3, <1>6 DEF UnitsOK, ServerInv, CacheOK
<1> QED
  BY <1>1, <1>4, <1>5, <1>7, CallMoves DEF QueryOK

---------------------------------------------------------------------------
(* What happens around the calls.                                           *)

LEMMA TimeKeeps == ASSUME ServerInv, passes \/ expireAccess \/ expireRefresh PROVE ServerInv'
<1>1. /\ UNCHANGED <<walletVars, process, decimalsCache, queries>>
      /\ seconds' \in {seconds, seconds + 1}
      /\ \/ auth' = auth
         \/ auth' = [auth EXCEPT !.dead = @ + 1]
         \/ auth' = [auth EXCEPT !.refresh = FALSE] /\ auth.refresh
  BY DEF passes, expireAccess, expireRefresh
<1>2. AuthOK' /\ Later(auth, auth')
  <2>1. CASE auth' = auth
    BY <2>1 DEF ServerInv, AuthOK, Later
  <2>2. CASE auth' = [auth EXCEPT !.dead = @ + 1]
    BY <2>2 DEF ServerInv, AuthOK, Later
  <2>3. CASE auth' = [auth EXCEPT !.refresh = FALSE] /\ auth.refresh
    BY <2>3 DEF ServerInv, AuthOK, Later
  <2> QED
    BY <1>1, <2>1, <2>2, <2>3
<1>3. /\ seconds \in Nat /\ seconds' \in Nat /\ seconds <= seconds'
      /\ decimalsCache.spoiltAt <= decimalsCache'.spoiltAt
  BY <1>1 DEF ServerInv, CacheOK
<1>4. WalletOK' /\ CacheOK'
  <2>1. WalletOK'
    BY <1>1 DEF ServerInv, WalletOK, walletVars
  <2>2. CacheOK'
    BY <1>1, <1>3 DEF ServerInv, CacheOK, Right, Covers
  <2> QED
    BY <2>1, <2>2
<1>5. QueriesOK'
  BY <1>1, <1>2, <1>3, <1>4, QueriesStay
<1> QED
  BY <1>2, <1>4, <1>5 DEF ServerInv

\* Onboarding leaves the server alone.
LEMMA OnboardingKeeps ==
    ASSUME ServerInv,
           \/ \E k \in Keystore \cup {NoKey} : moveKeystore(k) \/ promptPassword(k)
           \/ readKeystoreFile \/ writePassword \/ deleteKeystorePassword
    PROVE  ServerInv'
<1>1. UNCHANGED <<process, auth, decimalsCache, seconds, queries>>
  BY DEF moveKeystore, promptPassword, readKeystoreFile, writePassword, deleteKeystorePassword
<1>2. WalletOK'
  <2>1. ASSUME NEW k \in Keystore \cup {NoKey}, moveKeystore(k) PROVE WalletOK'
    BY <1>1, <2>1 DEF ServerInv, WalletOK, moveKeystore
  <2>2. ASSUME NEW k \in Keystore \cup {NoKey}, promptPassword(k) PROVE WalletOK'
    <3>1. CASE Opens(k, onboarding.keystore)
      BY <1>1, <2>2, <3>1 DEF ServerInv, WalletOK, promptPassword, Opens
    <3>2. CASE ~Opens(k, onboarding.keystore)
      BY <1>1, <2>2, <3>2 DEF ServerInv, WalletOK, promptPassword
    <3> QED
      BY <3>1, <3>2
  <2>3. CASE readKeystoreFile
    BY <1>1, <2>3 DEF ServerInv, WalletOK, readKeystoreFile
  <2>4. CASE writePassword
    BY <1>1, <2>4 DEF ServerInv, WalletOK, writePassword
  <2>5. CASE deleteKeystorePassword
    BY <1>1, <2>5 DEF ServerInv, WalletOK, deleteKeystorePassword
  <2> QED
    BY <2>1, <2>2, <2>3, <2>4, <2>5
<1>3. AuthOK' /\ CacheOK' /\ Later(auth, auth')
  BY <1>1 DEF ServerInv, AuthOK, CacheOK, Right, Covers, Later
<1>4. decimalsCache.spoiltAt <= decimalsCache'.spoiltAt /\ seconds <= seconds'
  BY <1>1 DEF ServerInv, CacheOK
<1>5. QueriesOK'
  BY <1>1, <1>3, <1>4, QueriesStay
<1> QED
  BY <1>2, <1>3, <1>5 DEF ServerInv

LEMMA IdleOK ==
    ASSUME NEW owner, NEW a, NEW sp, NEW now \in Nat
    PROVE  QueryOK(Idle, owner, a, sp, now)
<1> DEFINE i == Idle
<1>1. /\ DOMAIN i = QueryFields /\ i.at = "idle" /\ i.token = 0 /\ i.again = FALSE /\ i.mine = 0
      /\ i.lists = 0 /\ i.spoilt = FALSE /\ i.known = << >> /\ i.base = 0 /\ i.row = FALSE
      /\ i.since = 0 /\ i.why = "none"
  BY DEF Idle, QueryFields
<1>2. i = Idle
  OBVIOUS
<1> HIDE DEF i
<1>3. ShapeOK(i)
  <2>1. i.token \in Int /\ i.mine \in Int /\ i.lists \in Nat /\ i.since \in Int
    BY <1>1
  <2>2. i.again \in BOOLEAN /\ i.spoilt \in BOOLEAN /\ i.row \in BOOLEAN
    BY <1>1
  <2> QED
    BY <1>1, <1>2, <2>1, <2>2 DEF ShapeOK, Active
<1>4. VaultOK(i, owner) /\ TokenOK(i, a) /\ RowOK(i)
  BY <1>1 DEF VaultOK, TokenOK, RowOK, Active
<1>5. UnitsOK(i, sp) /\ i.since <= now
  BY <1>1 DEF UnitsOK, Active, Right
<1> QED
  BY <1>2, <1>3, <1>4, <1>5 DEF QueryOK

\* A server that does not run has no calls.
LEMMA ProcessKeeps ==
    ASSUME ServerInv, readPassword \/ fromKeystore \/ authenticate \/ stop
    PROVE  ServerInv'
<1>1. WalletOK'
  <2>1. CASE readPassword
    BY <2>1 DEF ServerInv, WalletOK, readPassword, Down, walletVars
  <2>2. CASE fromKeystore
    BY <2>2 DEF ServerInv, WalletOK, fromKeystore, Down, Opens, walletVars
  <2>3. CASE authenticate
    BY <2>3 DEF ServerInv, WalletOK, authenticate, walletVars
  <2>4. CASE stop
    BY <2>4 DEF ServerInv, WalletOK, stop, Down, walletVars
  <2> QED
    BY <2>1, <2>2, <2>3, <2>4
<1>2. AuthOK'
  <2>1. CASE auth' = auth
    BY <2>1 DEF ServerInv, AuthOK
  <2>2. CASE authenticate
    <3>1. auth' = [auth EXCEPT !.access = auth.minted + 1, !.minted = @ + 1, !.refresh = TRUE]
      BY <2>2 DEF authenticate
    <3>2. /\ DOMAIN auth = {"access", "minted", "dead", "refresh"}
          /\ auth.minted \in Nat /\ auth.dead \in Nat
      BY DEF ServerInv, AuthOK
    <3>3. /\ DOMAIN auth' = {"access", "minted", "dead", "refresh"}
          /\ auth'.access = auth.minted + 1 /\ auth'.minted = auth.minted + 1
          /\ auth'.dead = auth.dead /\ auth'.refresh = TRUE
      BY <3>1, <3>2
    <3>4. auth'.access \in Int /\ auth'.minted \in Nat /\ auth'.dead \in Nat
      BY <3>2, <3>3
    <3>5. auth'.refresh \in BOOLEAN
      BY <3>3
    <3> QED
      BY <3>3, <3>4, <3>5 DEF AuthOK
  <2>3. CASE stop
    BY <2>3 DEF ServerInv, AuthOK, stop
  <2> QED
    BY <2>1, <2>2, <2>3 DEF readPassword, fromKeystore
<1>3. seconds \in Nat /\ seconds' = seconds
  BY DEF ServerInv, CacheOK, readPassword, fromKeystore, authenticate, stop
<1>4. CacheOK'
  <2>1. CASE decimalsCache' = decimalsCache
    BY <1>3, <2>1 DEF ServerInv, CacheOK, Right, Covers
  <2>2. CASE decimalsCache' = Unspoilt
    BY <1>3, <2>2, McpAssumption DEF CacheOK, Unspoilt, NoCache, Right
  <2> QED
    BY <2>1, <2>2 DEF readPassword, fromKeystore, authenticate, stop
<1>5. DOMAIN queries' = Query /\ \A q \in Query : queries'[q] = Idle
  <2>1. CASE stop
    BY <2>1 DEF stop
  <2>2. CASE readPassword \/ fromKeystore \/ authenticate
    <3>1. queries' = queries /\ process.at # "up"
      BY <2>2 DEF readPassword, fromKeystore, authenticate
    <3> QED
      BY <3>1 DEF ServerInv, QueriesOK, QueryOK, ShapeOK
  <2> QED
    BY <2>1, <2>2
<1>6. \A q \in Query : QueryOK(queries'[q], process'.owner, auth', decimalsCache'.spoiltAt, seconds')
  BY <1>3, <1>5, IdleOK
<1>7. Idle.at = "idle"
  BY DEF Idle
<1>8. QueriesOK'
  BY <1>5, <1>6, <1>7 DEF QueriesOK
<1> QED
  BY <1>1, <1>2, <1>4, <1>8 DEF ServerInv

---------------------------------------------------------------------------
(* The invariant and what it says.                                          *)

LEMMA ServerStarts == ASSUME McpInit \/ McpUp PROVE ServerInv
<1>1. /\ decimalsCache = Unspoilt /\ seconds = 0 /\ queries = [q \in Query |-> Idle]
  BY DEF McpInit, McpUp
<1>2. WalletOK
  <2>1. CASE McpInit
    BY <2>1 DEF McpInit, WalletOK, Down
  <2>2. CASE McpUp
    BY <2>2 DEF McpUp, WalletOK
  <2> QED
    BY <2>1, <2>2
<1>3. AuthOK
  <2>1. CASE McpInit
    BY <2>1 DEF McpInit, AuthOK, NoTokens
  <2>2. CASE McpUp
    BY <2>2 DEF McpUp, AuthOK, NoTokens
  <2> QED
    BY <2>1, <2>2
<1>4. CacheOK
  BY <1>1, McpAssumption DEF CacheOK, Unspoilt, NoCache, Right
<1>5. QueriesOK
  <2>1. \A q \in Query : QueryOK(queries[q], process.owner, auth, decimalsCache.spoiltAt, seconds)
    BY <1>1, IdleOK
  <2>2. Idle.at = "idle"
    BY DEF Idle
  <2> QED
    BY <1>1, <2>1, <2>2 DEF QueriesOK
<1> QED
  BY <1>2, <1>3, <1>4, <1>5 DEF ServerInv

LEMMA ServerSteps == ASSUME ServerInv, [ServerNext]_mcpVars PROVE ServerInv'
<1>1. CASE WalletNext
  BY <1>1, OnboardingKeeps, ProcessKeeps DEF WalletNext
<1>2. CASE TokensExpire
  BY <1>2, TimeKeeps DEF TokensExpire
<1>3. CASE CallsNext(Query, Tools)
  <2>1. CASE passes
    BY <2>1, TimeKeeps
  <2>2. ASSUME NEW q \in Query,
               \/ \E tool \in Tools, vault \in Keystore, coin \in Coin, amount \in {1, MaxHuman + 1} :
                    callMcpTool(q, tool, vault, coin, amount)
               \/ request(q) \/ handled(q) \/ unauthorized(q) \/ refresh(q) \/ repeat(q) \/ sendFails(q)
               \/ readsPublic(q) \/ feeLine(q) \/ getTokenDecimals(q) \/ loadTokenDecimals(q)
               \/ units(q) \/ recipient(q) \/ gate(q) \/ intent(q)
        PROVE  ServerInv'
    BY <2>2, CallMcpToolKeeps, RequestKeeps, HandledKeeps, UnauthorizedKeeps, RefreshKeeps,
       RepeatKeeps, SendFailsKeeps, AtNextKeeps, GetTokenDecimalsKeeps, LoadTokenDecimalsKeeps,
       UnitsKeeps, HandedOverKeeps
  <2> QED
    BY <1>3, <2>1, <2>2 DEF CallsNext
<1>4. CASE UNCHANGED mcpVars
  <2>1. UNCHANGED <<disk, opened, onboarding, process, auth, decimalsCache, seconds, queries>>
    BY <1>4 DEF mcpVars
  <2>2. WalletOK' /\ AuthOK' /\ CacheOK'
    BY <2>1 DEF ServerInv, WalletOK, AuthOK, CacheOK, Right, Covers
  <2>3. /\ Later(auth, auth') /\ decimalsCache.spoiltAt <= decimalsCache'.spoiltAt
        /\ seconds <= seconds'
    BY <2>1 DEF ServerInv, AuthOK, CacheOK, Later
  <2>4. QueriesOK'
    BY <2>1, <2>2, <2>3, QueriesStay
  <2> QED
    BY <2>2, <2>4 DEF ServerInv
<1> QED
  BY <1>1, <1>2, <1>3, <1>4 DEF ServerNext

LEMMA ServerServes == ASSUME ServerInv PROVE ToolsServeOwner
<1>1. KeychainOpens
  BY DEF ServerInv, WalletOK, KeychainOpens
<1>2. ASSUME NEW q \in Query, NEW r, r = queries[q]
      PROVE  /\ Over(r) /\ r.at # "thrown" /\ r.tool \in VaultTools => r.vault = process.owner
             /\ r.why = "signed out" => ~auth.refresh
             /\ r.why = "unauthorized" => r.mine \in 1 .. auth.dead
             /\ r.base # 0 => r.base = r.amount * 10 ^ CoinDecimals[r.coin]
             /\ r.why = "uncurated" /\ (\E i \in 1 .. 3 : r.coin \in DOMAIN TokenLists[i])
                   => decimalsCache.spoiltAt >= r.since - DecimalsTTL
             /\ Over(r) /\ r.row => r.at = "held" \/ r.why \in {"uncleaned", "unreachable"}
  <2>1. QueryOK(r, process.owner, auth, decimalsCache.spoiltAt, seconds)
    BY <1>2 DEF ServerInv, QueriesOK
  <2>2. r.at = "idle" => r.why = "none"
    BY <2>1 DEF QueryOK, ShapeOK, Idle
  <2>3. Over(r) /\ r.at # "thrown" => r.vault = process.owner
    BY <2>1 DEF QueryOK, VaultOK, Over
  <2>4. /\ r.why = "signed out" => ~auth.refresh
        /\ r.why = "unauthorized" => r.mine \in 1 .. auth.dead
    BY <2>1, <2>2 DEF QueryOK, TokenOK
  <2>5. /\ r.base # 0 => r.base = r.amount * 10 ^ CoinDecimals[r.coin]
        /\ r.why = "uncurated" /\ Listed(r.coin) => decimalsCache.spoiltAt >= r.since - DecimalsTTL
    BY <2>1 DEF QueryOK, UnitsOK
  <2>6. Over(r) /\ r.row => r.at = "held" \/ r.why \in {"uncleaned", "unreachable"}
    BY <2>1 DEF QueryOK, RowOK, Over, Active
  <2> QED
    BY <2>3, <2>4, <2>5, <2>6 DEF Listed
<1>3. OwnVaultsOnly /\ RefusedForCause /\ UnitsTrue /\ RowsAccounted
  BY <1>2 DEF OwnVaultsOnly, RefusedForCause, UnitsTrue, RowsAccounted
<1> QED
  BY <1>1, <1>3 DEF ToolsServeOwner

\* Whatever calls run at once, whoever refreshes the tokens they share, and whatever the
\* user does to the keystore meanwhile: a tool acts for the vault of the owner who is
\* signed in, refuses only for cause, converts amounts with the token's own decimals, and
\* leaves no backend row behind unsaid (mcp/src/index.ts, backend-client.ts, onboarding.ts).
THEOREM ToolsServeTheirOwner == ServerSpec => []ToolsServeOwner
<1>1. McpInit \/ McpUp => ServerInv
  BY ServerStarts
<1>2. ServerInv /\ [ServerNext]_mcpVars => ServerInv'
  BY ServerSteps
<1>3. ServerInv => ToolsServeOwner
  BY ServerServes
<1> QED
  BY <1>1, <1>2, <1>3, PTL DEF ServerSpec

(***************************************************************************)
(* The policy gate.  A call's record is an account of what has been decided *)
(* about it.  The invariant says for every phase what its record may look   *)
(* like, so that every step has to do with one call only; what calls share, *)
(* the drafts and the pending pages, is in two further conjuncts.           *)
(***************************************************************************)

USE GateAssumption

\* Phases before anything may be signed, those of a call that passed read-only
\* mode, those of an approved call, and what follows a failed signature.
Deciding == {"requesting", "asking", "starting", "page", "unanswered", "refused", "agreed"}
Waiting == {"idle", "rejecting"} \cup Deciding
Running == {"executing", "executed", "failed"}

Said(x) == {x.log[i] : i \in DOMAIN x.log}

\* The transactions among the first n steps of the plan have been broadcast.
SignedUpTo(x, n) ==
    \A i \in DOMAIN x.plan : i <= n /\ x.plan[i] \in Signing => x.plan[i] \in x.signed

\* A call at rest: the owner has not been asked, or has not answered.
WaitingOK(x) ==
    x.phase \in Waiting => /\ x.signed = {} /\ x.done = 0
                           /\ Said(x) \subseteq {"requested"}

\* An execution has the owner's yes on record, and stands within its plan.
RunningOK(x) ==
    /\ x.phase \in Deciding => x.sensitive
    /\ x.phase \in Deciding \cup {"rejecting", "executing"} => x.done < Len(x.plan)
    /\ x.phase = "agreed" => x.heard = "yes"
    /\ x.phase \in Running =>
          /\ Said(x) \subseteq {"requested", "approved"}
          /\ x.sensitive => x.heard = "yes" /\ "approved" \in Said(x)
    /\ x.phase \in {"executing", "executed"} => SignedUpTo(x, x.done)
    /\ x.phase = "executed" => x.done = Len(x.plan)
    /\ x.phase = "failed" => x.done < Len(x.plan) \/ "success" \in x.lost

\* The last word on a call that has ended.
GateEndedOK(x) ==
    /\ x.phase = "returned" =>
          /\ Said(x) \subseteq {"requested", "approved", "success"}
          /\ x.done = Len(x.plan) /\ SignedUpTo(x, x.done)
    /\ x.phase = "thrown" =>
          /\ "success" \notin Said(x)
          /\ Said(x) \cap {"rejected", "timeout", "denied"} # {} => x.signed = {}
          /\ "error" \in Said(x) => x.done < Len(x.plan) \/ "success" \in x.lost
          /\ x.signed # {} => "error" \in Said(x) \cup x.lost

\* What has been signed was in the plan, allowed and agreed to.
SignedOK(x) ==
    /\ \A s \in x.signed : \E i \in DOMAIN x.plan : x.plan[i] = s
    /\ x.draft = NoDraft => \A i \in DOMAIN x.plan : x.plan[i] # "automation"
    /\ x.signed # {} /\ x.sensitive => x.heard = "yes" /\ "approved" \in Said(x)

\* Read-only mode stops a call at its first step.
AllowedOK(x) ==
    /\ x.phase \in Deciding \cup Running => ~readOnly
    /\ x.signed # {} => ~readOnly

CallOK(x) == WaitingOK(x) /\ RunningOK(x) /\ GateEndedOK(x) /\ SignedOK(x) /\ AllowedOK(x)

\* A page is answered only while its call waits for it.
PagesOK == \A c \in pending : call[c].phase = "page"

\* A draft that a call has taken is gone, and no other call has it.
DraftsOK ==
    /\ \A c \in Call : call[c].draft # NoDraft => drafts[call[c].draft].stored = "gone"
    /\ \A c1, c2 \in Call : call[c1].draft = call[c2].draft /\ call[c1].draft # NoDraft => c1 = c2

CallsOK == \A c \in Call : CallOK(call[c])

GateInv == GateTypeOK /\ CallsOK /\ PagesOK /\ DraftsOK

-----------------------------------------------------------------------------
(* One call moves on.                                                      *)

\* A step of one call keeps the invariant when its new record is all right, it
\* takes no draft, and its page is closed as it leaves it.
LEMMA GateCallMoves ==
    ASSUME GateInv, NEW c \in Call, NEW y \in CallState, CallOK(y),
           y.draft \in {call[c].draft, NoDraft},
           call' = [call EXCEPT ![c] = y],
           pending' \subseteq Call,
           \A d \in pending' : IF d = c THEN y.phase = "page" ELSE d \in pending,
           server' \in {"off", "starting", "up"},
           UNCHANGED <<readOnly, elicits, drafts>>
    PROVE  GateInv'
<1>1. call \in [Call -> CallState]
  BY DEF GateInv, GateTypeOK
<1>2. /\ call' \in [Call -> CallState] /\ call'[c] = y
      /\ \A d \in Call : d # c => call'[d] = call[d]
  BY <1>1
<1>3. GateTypeOK'
  BY <1>2 DEF GateInv, GateTypeOK
<1>4. CallsOK'
  <2>1. \A d \in Call : CallOK(call'[d])
    BY <1>2 DEF GateInv, CallsOK
  <2> QED BY ZenonT(30), <2>1 DEF CallsOK, CallOK, WaitingOK, RunningOK, GateEndedOK, SignedOK, AllowedOK
<1>5. PagesOK'
  BY <1>2 DEF GateInv, PagesOK
<1>6. DraftsOK'
  <2>1. \A d \in Call : call'[d].draft \in {call[d].draft, NoDraft}
    BY <1>2
  <2> QED BY <2>1 DEF GateInv, DraftsOK
<1> QED BY <1>3, <1>4, <1>5, <1>6 DEF GateInv

\* What recording a decision leaves alone.
SameAccount(x, y) ==
    /\ y.sensitive = x.sensitive /\ y.draft = x.draft /\ y.plan = x.plan
    /\ y.done = x.done /\ y.signed = x.signed /\ y.heard = x.heard

\* The record of a call whose entry was appended, and of one whose was lost.
Noted(x, o, p) == [x EXCEPT !.log = Append(@, o), !.phase = p]
Missed(x, o, p) == [x EXCEPT !.lost = @ \cup {o}, !.phase = p]

\* An appended entry is the only thing new in the audit file.
LEMMA Appended ==
    ASSUME NEW x \in CallState, NEW o \in Outcome, NEW p \in Phase
    PROVE  /\ Noted(x, o, p) \in CallState /\ SameAccount(x, Noted(x, o, p))
           /\ Noted(x, o, p).phase = p /\ Noted(x, o, p).lost = x.lost
           /\ Said(Noted(x, o, p)) = Said(x) \cup {o}
<1>0. PICK y : y = Noted(x, o, p)
  OBVIOUS
<1>1. PICK l \in Seq(Outcome) :
          /\ l = Append(x.log, o)
          /\ {l[i] : i \in DOMAIN l} = {x.log[i] : i \in DOMAIN x.log} \cup {o}
  <2>1. x.log \in Seq(Outcome)
    BY DEF CallState
  <2>2. /\ Append(x.log, o) \in Seq(Outcome) /\ Len(Append(x.log, o)) = Len(x.log) + 1
        /\ \A i \in 1 .. Len(x.log) : Append(x.log, o)[i] = x.log[i]
        /\ Append(x.log, o)[Len(x.log) + 1] = o
    BY <2>1, AppendProperties
  <2>3. /\ DOMAIN x.log = 1 .. Len(x.log) /\ Len(x.log) \in Nat
        /\ DOMAIN Append(x.log, o) = 1 .. Len(x.log) + 1
    BY <2>1, <2>2, LenProperties
  <2>4. PICK l \in Seq(Outcome) : l = Append(x.log, o)
    BY <2>2
  <2>5. PICK n \in Nat : n = Len(x.log)
    BY <2>3
  <2>6. /\ DOMAIN l = 1 .. n + 1 /\ DOMAIN x.log = 1 .. n
        /\ \A i \in 1 .. n : l[i] = x.log[i]
        /\ l[n + 1] = o
    BY <2>2, <2>3, <2>4, <2>5
  <2>7. 1 .. n + 1 = (1 .. n) \cup {n + 1}
    OBVIOUS
  <2>8. {l[i] : i \in DOMAIN l} = {x.log[i] : i \in DOMAIN x.log} \cup {o}
    BY <2>6, <2>7
  <2> QED BY <2>4, <2>8
<1>2. y = [x EXCEPT !.log = l, !.phase = p]
  BY <1>0, <1>1 DEF Noted
<1>3. y \in CallState
  BY <1>2 DEF CallState
<1>4. SameAccount(x, y) /\ y.phase = p /\ y.lost = x.lost /\ y.log = l
  BY <1>2 DEF CallState, SameAccount
<1>5. Said(y) = Said(x) \cup {o}
  BY <1>1, <1>4 DEF Said
<1> QED BY <1>0, <1>3, <1>4, <1>5

\* An append that throws leaves the audit file as it is.
LEMMA Mislaid ==
    ASSUME NEW x \in CallState, NEW o \in Outcome, NEW p \in Phase
    PROVE  /\ Missed(x, o, p) \in CallState /\ SameAccount(x, Missed(x, o, p))
           /\ Missed(x, o, p).phase = p /\ Missed(x, o, p).lost = x.lost \cup {o}
           /\ Said(Missed(x, o, p)) = Said(x)
<1>0. PICK y : y = [x EXCEPT !.lost = @ \cup {o}, !.phase = p]
  OBVIOUS
<1>1. y.log = x.log /\ y.lost = x.lost \cup {o} /\ y.phase = p /\ SameAccount(x, y)
  BY <1>0 DEF CallState, SameAccount
<1>2. y \in CallState
  BY <1>0 DEF CallState
<1>3. Said(y) = Said(x)
  BY <1>1 DEF Said
<1> QED BY <1>0, <1>1, <1>2, <1>3 DEF Missed

\* A record keeps the invariant when both its outcomes are all right.
LEMMA RecordKeeps ==
    ASSUME GateInv, NEW c \in Call, NEW from \in Phase \ {"page"}, NEW o \in Outcome,
           NEW next \in Phase, NEW broken \in Phase,
           Record(c, from, o, next, broken),
           \A y \in CallState :
               (/\ SameAccount(call[c], y) /\ y.phase = next
                /\ y.lost = call[c].lost /\ Said(y) = Said(call[c]) \cup {o})
               => CallOK(y),
           \A y \in CallState :
               (/\ SameAccount(call[c], y) /\ y.phase = broken
                /\ y.lost = call[c].lost \cup {o} /\ Said(y) = Said(call[c]))
               => CallOK(y)
    PROVE  GateInv'
<1>1. call \in [Call -> CallState] /\ call[c] \in CallState /\ c \notin pending
  BY DEF GateInv, GateTypeOK, PagesOK, Record
<1>2. PICK x \in CallState : x = call[c]
  BY <1>1
<1>3. PICK y \in CallState : CallOK(y) /\ SameAccount(call[c], y) /\ call' = [call EXCEPT ![c] = y]
  <2>1. CASE call' = [call EXCEPT ![c].log = Append(@, o), ![c].phase = next]
    <3>1. PICK y : y = Noted(x, o, next)
      OBVIOUS
    <3>2. /\ y \in CallState /\ SameAccount(x, y) /\ y.phase = next
          /\ y.lost = x.lost /\ Said(y) = Said(x) \cup {o}
      BY <3>1, Appended
    <3>3. call' = [call EXCEPT ![c] = y]
      BY <1>2, <1>1, <2>1, <3>1 DEF Noted
    <3> QED BY <1>2, <3>2, <3>3
  <2>2. CASE call' = [call EXCEPT ![c].lost = @ \cup {o}, ![c].phase = broken]
    <3>1. PICK y : y = Missed(x, o, broken)
      OBVIOUS
    <3>2. /\ y \in CallState /\ SameAccount(x, y) /\ y.phase = broken
          /\ y.lost = x.lost \cup {o} /\ Said(y) = Said(x)
      BY <3>1, Mislaid
    <3>3. call' = [call EXCEPT ![c] = y]
      BY <1>2, <1>1, <2>2, <3>1 DEF Missed
    <3> QED BY <1>2, <3>2, <3>3
  <2> QED BY <2>1, <2>2 DEF Record
<1>4. y.draft = call[c].draft
  BY <1>3 DEF SameAccount
<1>5. pending' = pending /\ server' = server /\ UNCHANGED <<readOnly, elicits, drafts>>
  BY DEF Record
<1> QED BY <1>1, <1>3, <1>4, <1>5, GateCallMoves DEF GateInv, GateTypeOK

\* Nothing changes with the phase but the phase.
LEMMA SamePlan ==
    ASSUME NEW x, NEW y, SameAccount(x, y)
    PROVE  \A n : SignedUpTo(y, n) <=> SignedUpTo(x, n)
BY DEF SameAccount, SignedUpTo

\* A call that is refused before it ran ends without a signature.
LEMMA RefusedOK ==
    ASSUME NEW x \in CallState, NEW y \in CallState, CallOK(x), x.phase \in Waiting,
           SameAccount(x, y), y.phase = "thrown",
           Said(y) \subseteq {"requested", "rejected", "timeout", "denied"}
    PROVE  CallOK(y)
<1>1. y.signed = {} /\ "success" \notin Said(y) /\ "error" \notin Said(y)
  BY DEF CallOK, WaitingOK, SameAccount
<1>2. WaitingOK(y) /\ RunningOK(y) /\ AllowedOK(y)
  BY <1>1 DEF WaitingOK, RunningOK, AllowedOK, Waiting, Deciding, Running
<1>3. GateEndedOK(y)
  BY <1>1 DEF GateEndedOK
<1>4. SignedOK(y)
  BY <1>1 DEF CallOK, SignedOK, SameAccount
<1> QED BY <1>2, <1>3, <1>4 DEF CallOK

\* rejected, timeout and denied: the call is over, also when the append throws.
LEMMA RefusalKeeps ==
    ASSUME GateInv, NEW c \in Call,
           recordRejected(c) \/ recordTimeout(c) \/ recordDenied(c)
    PROVE  GateInv'
<1>1. PICK from \in {"rejecting", "unanswered", "refused"}, o \in {"rejected", "timeout", "denied"} :
          Record(c, from, o, "thrown", "thrown")
  BY DEF recordRejected, recordTimeout, recordDenied
<1>2. call[c] \in CallState /\ CallOK(call[c]) /\ call[c].phase = from
  BY <1>1 DEF GateInv, GateTypeOK, CallsOK, Record
<1>3. Said(call[c]) \subseteq {"requested"} /\ call[c].phase \in Waiting
  BY <1>2 DEF CallOK, WaitingOK, Waiting, Deciding
<1>4. from \in Phase \ {"page"} /\ o \in Outcome /\ "thrown" \in Phase
  BY DEF Phase, Outcome
<1>5. ASSUME NEW y \in CallState, SameAccount(call[c], y), y.phase = "thrown",
             Said(y) \subseteq Said(call[c]) \cup {o}
      PROVE  CallOK(y)
  BY <1>2, <1>3, <1>5, RefusedOK
<1> QED BY <1>1, <1>4, <1>5, RecordKeeps

\* requested: the owner is asked next.
LEMMA RequestedKeeps ==
    ASSUME GateInv, NEW c \in Call, recordRequested(c)
    PROVE  GateInv'
<1>1. Record(c, "requesting", "requested", "asking", "thrown")
  BY DEF recordRequested
<1>2. call[c] \in CallState /\ CallOK(call[c]) /\ call[c].phase = "requesting"
  BY <1>1 DEF GateInv, GateTypeOK, CallsOK, Record
<1>3. /\ Said(call[c]) \subseteq {"requested"} /\ call[c].signed = {} /\ call[c].done = 0
      /\ call[c].phase \in Waiting
  BY <1>2 DEF CallOK, WaitingOK, Waiting, Deciding
<1>4. ASSUME NEW y \in CallState, SameAccount(call[c], y), y.phase = "asking",
             Said(y) = Said(call[c]) \cup {"requested"}
      PROVE  CallOK(y)
  <2>1. WaitingOK(y)
    BY <1>3, <1>4 DEF WaitingOK, SameAccount
  <2>2. RunningOK(y)
    BY <1>2, <1>4 DEF CallOK, RunningOK, Running, Deciding, SameAccount
  <2>3. GateEndedOK(y)
    BY <1>4 DEF GateEndedOK
  <2>4. SignedOK(y)
    BY <1>2, <1>3, <1>4 DEF CallOK, SignedOK, SameAccount
  <2>5. AllowedOK(y)
    BY <1>2, <1>4 DEF CallOK, AllowedOK, Deciding, Running, SameAccount
  <2> QED BY <2>1, <2>2, <2>3, <2>4, <2>5 DEF CallOK
<1>5. ASSUME NEW y \in CallState, SameAccount(call[c], y), y.phase = "thrown",
             Said(y) = Said(call[c])
      PROVE  CallOK(y)
  BY <1>2, <1>3, <1>5, RefusedOK
<1>6. "requesting" \in Phase \ {"page"} /\ "requested" \in Outcome /\ "asking" \in Phase /\ "thrown" \in Phase
  BY DEF Phase, Outcome
<1> QED BY <1>1, <1>4, <1>5, <1>6, RecordKeeps

\* approved: only now does the execution begin.
LEMMA ApprovedKeeps ==
    ASSUME GateInv, NEW c \in Call, recordApproved(c)
    PROVE  GateInv'
<1>1. Record(c, "agreed", "approved", "executing", "thrown")
  BY DEF recordApproved
<1>2. call[c] \in CallState /\ CallOK(call[c]) /\ call[c].phase = "agreed"
  BY <1>1 DEF GateInv, GateTypeOK, CallsOK, Record
<1>3. /\ Said(call[c]) \subseteq {"requested"} /\ call[c].signed = {} /\ call[c].done = 0
      /\ call[c].phase \in Waiting
  BY <1>2 DEF CallOK, WaitingOK, Waiting, Deciding
<1>4. ASSUME NEW y \in CallState, SameAccount(call[c], y), y.phase = "executing",
             Said(y) = Said(call[c]) \cup {"approved"}
      PROVE  CallOK(y)
  <2>1. WaitingOK(y) /\ GateEndedOK(y)
    BY <1>4 DEF WaitingOK, GateEndedOK, Waiting, Deciding
  <2>2. SignedUpTo(y, y.done)
    <3>1. y.plan \in Seq(PlanStep) /\ y.done = 0
      BY <1>3, <1>4 DEF CallState, SameAccount
    <3>2. \A i \in DOMAIN y.plan : ~(i <= 0)
      BY <3>1, LenProperties
    <3> QED BY <3>1, <3>2 DEF SignedUpTo
  <2>3. RunningOK(y)
    BY <1>2, <1>3, <1>4, <2>2 DEF CallOK, RunningOK, Running, Deciding, SameAccount
  <2>4. SignedOK(y)
    BY <1>2, <1>3, <1>4 DEF CallOK, SignedOK, SameAccount
  <2>5. AllowedOK(y)
    BY <1>2, <1>3, <1>4 DEF CallOK, AllowedOK, Deciding, Running, SameAccount
  <2> QED BY <2>1, <2>3, <2>4, <2>5 DEF CallOK
<1>5. ASSUME NEW y \in CallState, SameAccount(call[c], y), y.phase = "thrown",
             Said(y) = Said(call[c])
      PROVE  CallOK(y)
  BY <1>2, <1>3, <1>5, RefusedOK
<1>6. "agreed" \in Phase \ {"page"} /\ "approved" \in Outcome /\ "executing" \in Phase /\ "thrown" \in Phase
  BY DEF Phase, Outcome
<1> QED BY <1>1, <1>4, <1>5, <1>6, RecordKeeps

\* success, recorded inside the try: if the append throws, the call has failed.
LEMMA SuccessKeeps ==
    ASSUME GateInv, NEW c \in Call, recordSuccess(c)
    PROVE  GateInv'
<1>1. Record(c, "executed", "success", "returned", "failed")
  BY DEF recordSuccess
<1>2. call[c] \in CallState /\ CallOK(call[c]) /\ call[c].phase = "executed"
  BY <1>1 DEF GateInv, GateTypeOK, CallsOK, Record
<1>3. /\ Said(call[c]) \subseteq {"requested", "approved"}
      /\ call[c].sensitive => call[c].heard = "yes" /\ "approved" \in Said(call[c])
      /\ call[c].done = Len(call[c].plan) /\ SignedUpTo(call[c], call[c].done)
      /\ ~readOnly
  BY <1>2 DEF CallOK, RunningOK, AllowedOK, Running
<1>4. ASSUME NEW y \in CallState, SameAccount(call[c], y), y.phase = "returned",
             Said(y) = Said(call[c]) \cup {"success"}
      PROVE  CallOK(y)
  <2>1. WaitingOK(y) /\ RunningOK(y)
    BY <1>4 DEF WaitingOK, RunningOK, Waiting, Deciding, Running
  <2>2. GateEndedOK(y)
    BY <1>3, <1>4 DEF GateEndedOK, SameAccount, SignedUpTo
  <2>3. SignedOK(y) /\ AllowedOK(y)
    BY <1>2, <1>3, <1>4 DEF CallOK, SignedOK, AllowedOK, SameAccount
  <2> QED BY <2>1, <2>2, <2>3 DEF CallOK
<1>5. ASSUME NEW y \in CallState, SameAccount(call[c], y), y.phase = "failed",
             y.lost = call[c].lost \cup {"success"}, Said(y) = Said(call[c])
      PROVE  CallOK(y)
  <2>1. WaitingOK(y) /\ GateEndedOK(y)
    BY <1>5 DEF WaitingOK, GateEndedOK, Waiting, Deciding
  <2>2. RunningOK(y)
    BY <1>3, <1>5 DEF RunningOK, SameAccount, Running, Deciding
  <2>3. SignedOK(y) /\ AllowedOK(y)
    BY <1>2, <1>3, <1>5 DEF CallOK, SignedOK, AllowedOK, SameAccount
  <2> QED BY <2>1, <2>2, <2>3 DEF CallOK
<1>6. /\ "executed" \in Phase \ {"page"} /\ "success" \in Outcome
      /\ "returned" \in Phase /\ "failed" \in Phase
  BY DEF Phase, Outcome
<1> QED BY <1>1, <1>4, <1>5, <1>6, RecordKeeps

\* error: the call throws, with or without the entry.
LEMMA ErrorKeeps ==
    ASSUME GateInv, NEW c \in Call, recordError(c)
    PROVE  GateInv'
<1>1. Record(c, "failed", "error", "thrown", "thrown")
  BY DEF recordError
<1>2. call[c] \in CallState /\ CallOK(call[c]) /\ call[c].phase = "failed"
  BY <1>1 DEF GateInv, GateTypeOK, CallsOK, Record
<1>3. /\ Said(call[c]) \subseteq {"requested", "approved"}
      /\ call[c].done < Len(call[c].plan) \/ "success" \in call[c].lost
  BY <1>2 DEF CallOK, RunningOK, Running
<1>4. ASSUME NEW y \in CallState, SameAccount(call[c], y), y.phase = "thrown",
             \/ y.lost = call[c].lost /\ Said(y) = Said(call[c]) \cup {"error"}
             \/ y.lost = call[c].lost \cup {"error"} /\ Said(y) = Said(call[c])
      PROVE  CallOK(y)
  <2>1. WaitingOK(y) /\ RunningOK(y)
    BY <1>4 DEF WaitingOK, RunningOK, Waiting, Deciding, Running
  <2>2. GateEndedOK(y)
    BY <1>3, <1>4 DEF GateEndedOK, SameAccount
  <2>3. SignedOK(y) /\ AllowedOK(y)
    BY <1>2, <1>3, <1>4 DEF CallOK, SignedOK, AllowedOK, SameAccount, Deciding, Running
  <2> QED BY <2>1, <2>2, <2>3 DEF CallOK
<1>5. "failed" \in Phase \ {"page"} /\ "error" \in Outcome /\ "thrown" \in Phase
  BY DEF Phase, Outcome
<1> QED BY <1>1, <1>4, <1>5, RecordKeeps

-----------------------------------------------------------------------------
(* The owner is asked.                                                     *)

\* A call that waits for its confirmation may go on waiting in any way, and is
\* agreed to only by a yes.
LEMMA DecidingOK ==
    ASSUME NEW x \in CallState, NEW y \in CallState, CallOK(x),
           x.phase \in Deciding, y.phase \in Deciding,
           y.phase = "agreed" => y.heard = "yes",
           y.sensitive = x.sensitive, y.draft = x.draft, y.plan = x.plan, y.done = x.done,
           y.signed = x.signed, y.log = x.log
    PROVE  CallOK(y)
<1>1. x.signed = {} /\ x.done = 0 /\ Said(x) \subseteq {"requested"} /\ Said(y) = Said(x)
  BY DEF CallOK, WaitingOK, Waiting, Said
<1>2. WaitingOK(y) /\ GateEndedOK(y)
  BY <1>1 DEF WaitingOK, GateEndedOK, Deciding
<1>3. RunningOK(y)
  BY <1>1 DEF CallOK, RunningOK, Deciding, Running
<1>4. SignedOK(y) /\ AllowedOK(y)
  BY <1>1 DEF CallOK, SignedOK, AllowedOK
<1> QED BY <1>2, <1>3, <1>4 DEF CallOK

\* The call's next phase, and nothing else of it.
Moved(x, p) == [x EXCEPT !.phase = p]
Answered(x, yes) == [x EXCEPT !.heard = IF yes THEN "yes" ELSE "no",
                              !.phase = IF yes THEN "agreed" ELSE "refused"]

\* A call that moves on before it is agreed to has signed nothing.
LEMMA MovedOK ==
    ASSUME NEW x \in CallState, CallOK(x), x.phase \in Deciding,
           NEW p \in Deciding \ {"agreed"}
    PROVE  /\ Moved(x, p) \in CallState /\ CallOK(Moved(x, p))
           /\ Moved(x, p).draft = x.draft /\ Moved(x, p).phase = p
<1>1. PICK y : y = Moved(x, p)
  OBVIOUS
<1>2. p \in Phase
  BY DEF Deciding, Phase
<1>3. y \in CallState
  BY <1>1, <1>2 DEF Moved, CallState
<1>4. /\ y.phase = p /\ y.sensitive = x.sensitive /\ y.draft = x.draft /\ y.plan = x.plan
      /\ y.done = x.done /\ y.signed = x.signed /\ y.log = x.log
  BY <1>1 DEF Moved, CallState
<1>5. CallOK(y)
  BY <1>3, <1>4, DecidingOK
<1> QED BY <1>1, <1>3, <1>4, <1>5

\* A call that is answered is agreed to or refused.
LEMMA AnsweredOK ==
    ASSUME NEW x \in CallState, CallOK(x), x.phase \in Deciding, NEW yes \in BOOLEAN
    PROVE  /\ Answered(x, yes) \in CallState /\ CallOK(Answered(x, yes))
           /\ Answered(x, yes).draft = x.draft /\ Answered(x, yes).phase # "page"
<1>1. PICK y : y = Answered(x, yes)
  OBVIOUS
<1>2. y \in CallState
  BY <1>1 DEF Answered, CallState, Phase
<1>3. /\ y.sensitive = x.sensitive /\ y.draft = x.draft /\ y.plan = x.plan
      /\ y.done = x.done /\ y.signed = x.signed /\ y.log = x.log
      /\ y.phase = IF yes THEN "agreed" ELSE "refused"
      /\ y.heard = IF yes THEN "yes" ELSE "no"
  BY <1>1 DEF Answered, CallState
<1>4. y.phase \in Deciding /\ y.phase # "page" /\ (y.phase = "agreed" => y.heard = "yes")
  BY <1>3 DEF Deciding
<1>5. CallOK(y)
  BY <1>2, <1>3, <1>4, DecidingOK
<1> QED BY <1>1, <1>2, <1>3, <1>4, <1>5

\* The client asks its user, or the page is opened, or nobody answers in time.
LEMMA AskingKeeps ==
    ASSUME GateInv, NEW c \in Call,
           elicitTimeout(c) \/ openPage(c) \/ ensureServer(c) \/ pageTimeout(c)
    PROVE  GateInv'
<1>1. PICK p \in {"unanswered", "page", "starting"} : Go(c, p) /\ (c \in pending' => p = "page")
  BY DEF elicitTimeout, openPage, ensureServer, pageTimeout, GateInv, PagesOK
<1>2. /\ call \in [Call -> CallState] /\ call[c] \in CallState /\ CallOK(call[c])
      /\ call[c].phase \in Deciding /\ p \in Deciding \ {"agreed"}
  BY DEF GateInv, GateTypeOK, CallsOK, Deciding, elicitTimeout, openPage, ensureServer, pageTimeout
<1>3. PICK x \in CallState : x = call[c]
  BY <1>2
<1>4. PICK y \in CallState : y = Moved(x, p) /\ CallOK(y) /\ y.draft = x.draft /\ y.phase = p
  BY <1>2, <1>3, MovedOK
<1>5. call' = [call EXCEPT ![c] = y]
  BY <1>1, <1>2, <1>3, <1>4 DEF Go, Moved
<1>6. /\ pending' \subseteq pending \cup {c} /\ pending \subseteq Call
      /\ server' \in {"off", "starting", "up"}
      /\ UNCHANGED <<readOnly, elicits, drafts>>
  BY DEF elicitTimeout, openPage, ensureServer, pageTimeout, GateInv, GateTypeOK
<1> QED BY <1>1, <1>3, <1>4, <1>5, <1>6, GateCallMoves

\* The owner answers; a page answers once.
LEMMA AnswerKeeps ==
    ASSUME GateInv, NEW c \in Call, NEW yes \in BOOLEAN,
           elicitAnswer(c, yes) \/ redeem(c, yes)
    PROVE  GateInv'
<1>1. Heard(c, yes) /\ c \notin pending'
  BY DEF elicitAnswer, redeem, GateInv, PagesOK
<1>2. /\ call \in [Call -> CallState] /\ call[c] \in CallState /\ CallOK(call[c])
      /\ call[c].phase \in Deciding
  BY DEF GateInv, GateTypeOK, CallsOK, PagesOK, Deciding, elicitAnswer, redeem
<1>3. PICK x \in CallState : x = call[c]
  BY <1>2
<1>4. PICK y \in CallState : y = Answered(x, yes) /\ CallOK(y) /\ y.draft = x.draft
  BY <1>2, <1>3, AnsweredOK
<1>5. call' = [call EXCEPT ![c] = y]
  BY <1>1, <1>2, <1>3, <1>4 DEF Heard, Answered
<1>6. /\ pending' \subseteq pending /\ pending \subseteq Call
      /\ server' \in {"off", "starting", "up"}
      /\ UNCHANGED <<readOnly, elicits, drafts>>
  BY DEF elicitAnswer, redeem, GateInv, GateTypeOK
<1> QED BY <1>1, <1>3, <1>4, <1>5, <1>6, GateCallMoves

\* The page server comes up, or fails: all calls that shared its promise move.
LEMMA ServerKeeps ==
    ASSUME GateInv, serverListens \/ serverFails
    PROVE  GateInv'
<1>1. PICK p \in {"page", "unanswered"} :
          /\ call' = AllStarting(p)
          /\ pending' = IF p = "page" THEN pending \cup Starting ELSE pending
  BY DEF serverListens, serverFails
<1>2. call \in [Call -> CallState] /\ p \in Deciding \ {"agreed"}
  BY DEF GateInv, GateTypeOK, Deciding
<1>3. \A c \in Call : /\ call'[c] \in CallState /\ CallOK(call'[c])
                      /\ call'[c].draft = call[c].draft
                      /\ c \in Starting => call'[c].phase = p
                      /\ c \notin Starting => call'[c] = call[c]
  <2> SUFFICES ASSUME NEW c \in Call
               PROVE  /\ call'[c] \in CallState /\ CallOK(call'[c])
                      /\ call'[c].draft = call[c].draft
                      /\ c \in Starting => call'[c].phase = p
                      /\ c \notin Starting => call'[c] = call[c]
    OBVIOUS
  <2>1. PICK x \in CallState : x = call[c] /\ CallOK(x)
    BY <1>2 DEF GateInv, CallsOK
  <2>2. call'[c] = IF c \in Starting THEN Moved(x, p) ELSE x
    BY <1>1, <2>1 DEF AllStarting, Moved
  <2>3. CASE c \in Starting
    <3>1. x.phase \in Deciding
      BY <2>1, <2>3 DEF Starting, Deciding
    <3> QED BY <2>1, <2>2, <2>3, <3>1, <1>2, MovedOK
  <2>4. CASE c \notin Starting
    BY <2>1, <2>2, <2>4
  <2> QED BY <2>3, <2>4
<1>4. GateTypeOK'
  <2>1. call' \in [Call -> CallState]
    BY <1>1, <1>3 DEF AllStarting
  <2>2. /\ pending' \subseteq Call /\ server' \in {"off", "starting", "up"}
        /\ UNCHANGED <<readOnly, elicits, drafts>>
    BY DEF serverListens, serverFails, GateInv, GateTypeOK, Starting
  <2> QED BY <2>1, <2>2 DEF GateInv, GateTypeOK
<1>5. CallsOK'
  <2>1. UNCHANGED readOnly
    BY DEF serverListens, serverFails
  <2> QED BY ZenonT(30), <1>3, <2>1 DEF CallsOK, CallOK, WaitingOK, RunningOK, GateEndedOK, SignedOK, AllowedOK
<1>6. PagesOK'
  <2>1. \A c \in pending : c \in Call /\ c \notin Starting
    BY DEF GateInv, GateTypeOK, PagesOK, Starting
  <2>2. \A c \in pending : call'[c].phase = "page"
    BY <1>3, <2>1 DEF GateInv, PagesOK
  <2>3. p = "page" => \A c \in Starting : call'[c].phase = "page"
    BY <1>3 DEF Starting
  <2> QED BY <1>1, <2>2, <2>3 DEF PagesOK
<1>7. DraftsOK'
  <2>1. UNCHANGED drafts
    BY DEF serverListens, serverFails
  <2> QED BY <1>3, <2>1 DEF GateInv, DraftsOK
<1> QED BY <1>4, <1>5, <1>6, <1>7 DEF GateInv

-----------------------------------------------------------------------------
(* A call enters the gate.                                                 *)

\* No plan is empty; a tool without a draft sends no automation.
LEMMA GatePlansOK ==
    ASSUME NEW tool \in Tool, NEW plan \in Plans(tool)
    PROVE  /\ plan \in Seq(PlanStep) /\ 0 < Len(plan)
           /\ tool # "deploy_automation" =>
                \A i \in DOMAIN plan : plan[i] # "automation"
<1>1. plan \in {<<"send", "register">>, <<"encode", "automation", "register">>,
                <<"encode", "context", "automation", "register">>,
                <<"send">>, <<"approve", "send">>, <<"reset", "approve", "send">>}
  BY DEF Plans
<1>2. plan \in Seq(PlanStep) /\ 0 < Len(plan)
  <2>1. \A S : /\ \A a \in S : <<a>> \in Seq(S) /\ 0 < Len(<<a>>)
               /\ \A a, b \in S : <<a, b>> \in Seq(S) /\ 0 < Len(<<a, b>>)
               /\ \A a, b, e \in S : <<a, b, e>> \in Seq(S) /\ 0 < Len(<<a, b, e>>)
               /\ \A a, b, e, f \in S : <<a, b, e, f>> \in Seq(S) /\ 0 < Len(<<a, b, e, f>>)
    OBVIOUS
  <2>2. PICK S : S = PlanStep /\ {"send", "register", "encode", "context", "automation",
                                "approve", "reset"} \subseteq S
    BY DEF PlanStep, Signing
  <2>3. /\ <<"send", "register">> \in Seq(S) /\ 0 < Len(<<"send", "register">>)
        /\ <<"approve", "send">> \in Seq(S) /\ 0 < Len(<<"approve", "send">>)
        /\ <<"send">> \in Seq(S) /\ 0 < Len(<<"send">>)
    BY <2>1, <2>2
  <2>4. /\ <<"encode", "automation", "register">> \in Seq(S)
        /\ 0 < Len(<<"encode", "automation", "register">>)
        /\ <<"reset", "approve", "send">> \in Seq(S)
        /\ 0 < Len(<<"reset", "approve", "send">>)
        /\ <<"encode", "context", "automation", "register">> \in Seq(S)
        /\ 0 < Len(<<"encode", "context", "automation", "register">>)
    BY <2>1, <2>2
  <2> QED BY <1>1, <2>2, <2>3, <2>4
<1>3. ASSUME tool # "deploy_automation", NEW i \in DOMAIN plan
      PROVE  plan[i] # "automation"
  <2>1. plan \in {<<"send", "register">>, <<"send">>, <<"approve", "send">>,
                  <<"reset", "approve", "send">>}
    BY <1>3 DEF Plans
  <2>2. i \in 1 .. Len(plan)
    BY <1>2, <1>3, LenProperties
  <2> QED BY <2>1, <2>2
<1> QED BY <1>2, <1>3

Entered(plan, d, sensitive, p) ==
    [phase |-> p, sensitive |-> sensitive, draft |-> d, plan |-> plan, done |-> 0,
     signed |-> {}, heard |-> "none", log |-> <<>>, lost |-> {}]

\* Whatever a tool brings along, its call starts in order.
LEMMA EnteredOK ==
    ASSUME NEW plan \in Seq(PlanStep), NEW d \in Draft \cup {NoDraft},
           NEW sensitive \in BOOLEAN, NEW p \in {Guarded(sensitive), "thrown"},
           p = "thrown" \/ 0 < Len(plan), readOnly \in BOOLEAN,
           d = NoDraft => \A i \in DOMAIN plan : plan[i] # "automation"
    PROVE  /\ Entered(plan, d, sensitive, p) \in CallState
           /\ CallOK(Entered(plan, d, sensitive, p))
           /\ Entered(plan, d, sensitive, p).draft = d
           /\ Entered(plan, d, sensitive, p).phase # "page"
<1>1. PICK y : y = Entered(plan, d, sensitive, p)
  OBVIOUS
<1>2. /\ y.phase = p /\ y.plan = plan /\ y.draft = d /\ y.sensitive = sensitive
      /\ y.done = 0 /\ y.signed = {} /\ y.heard = "none" /\ y.log = <<>> /\ y.lost = {}
      /\ y = [phase |-> p, sensitive |-> sensitive, draft |-> d, plan |-> plan,
              done |-> 0, signed |-> {}, heard |-> "none", log |-> <<>>, lost |-> {}]
  BY <1>1 DEF Entered
<1>3. /\ p \in {"rejecting", "requesting", "executing", "thrown"}
      /\ p = "requesting" => sensitive /\ ~readOnly
      /\ p = "executing" => ~sensitive /\ ~readOnly
  BY DEF Guarded
<1>4. y \in CallState
  <2>1. <<>> \in Seq(Outcome)
    OBVIOUS
  <2>2. p \in Phase
    BY <1>3 DEF Phase
  <2> QED BY <1>2, <2>1, <2>2 DEF CallState
<1>5. Said(y) = {}
  BY <1>2 DEF Said
<1>6. SignedUpTo(y, 0)
  <2>1. \A i \in DOMAIN y.plan : ~(i <= 0)
    BY <1>2, LenProperties
  <2> QED BY <2>1 DEF SignedUpTo
<1>7. WaitingOK(y) /\ GateEndedOK(y)
  BY <1>2, <1>3, <1>5 DEF WaitingOK, GateEndedOK
<1>8. RunningOK(y)
  BY <1>2, <1>3, <1>5, <1>6 DEF RunningOK, Deciding, Running
<1>9. SignedOK(y) /\ AllowedOK(y)
  BY <1>2, <1>3 DEF SignedOK, AllowedOK, Deciding, Running
<1> QED BY <1>1, <1>2, <1>3, <1>4, <1>7, <1>8, <1>9 DEF CallOK

\* A tool that takes no draft, or one that asks for a draft that is not there.
LEMMA CallKeeps ==
    ASSUME GateInv, NEW c \in Call,
           \/ \E tool \in Tool : callTool(c, tool)
           \/ \E d \in Draft : deployUnknown(c, d)
    PROVE  GateInv'
<1>1. call \in [Call -> CallState] /\ readOnly \in BOOLEAN
  BY DEF GateInv, GateTypeOK
<1>2. PICK y \in CallState :
          /\ CallOK(y) /\ y.draft = NoDraft /\ y.phase # "page"
          /\ call' = [call EXCEPT ![c] = y]
  <2>1. ASSUME NEW tool \in Tool, callTool(c, tool)
        PROVE  \E y \in CallState : /\ CallOK(y) /\ y.draft = NoDraft /\ y.phase # "page"
                                   /\ call' = [call EXCEPT ![c] = y]
    <3>1. PICK sensitive \in BOOLEAN : sensitive = Sensitive(tool, NoDraft)
      BY <2>1 DEF Sensitive, callTool
    <3>2. PICK plan \in Plans(tool), p \in {Guarded(sensitive), "thrown"} :
              call' = [call EXCEPT ![c] = [Fresh EXCEPT !.plan = plan, !.phase = p,
                                                        !.sensitive = sensitive]]
      BY <2>1, <3>1 DEF callTool
    <3>3. [Fresh EXCEPT !.plan = plan, !.phase = p, !.sensitive = sensitive]
             = Entered(plan, NoDraft, sensitive, p)
      <4>1. PICK y : y = [Fresh EXCEPT !.plan = plan, !.phase = p, !.sensitive = sensitive]
        OBVIOUS
      <4>2. y = Entered(plan, NoDraft, sensitive, p)
        BY <4>1 DEF Entered, Fresh
      <4> QED BY <4>1, <4>2
    <3>4. /\ plan \in Seq(PlanStep) /\ 0 < Len(plan)
          /\ \A i \in DOMAIN plan : plan[i] # "automation"
      BY <2>1, GatePlansOK DEF callTool
    <3>5. /\ Entered(plan, NoDraft, sensitive, p) \in CallState
          /\ CallOK(Entered(plan, NoDraft, sensitive, p))
          /\ Entered(plan, NoDraft, sensitive, p).draft = NoDraft
          /\ Entered(plan, NoDraft, sensitive, p).phase # "page"
      BY <1>1, <3>4, EnteredOK
    <3> QED BY <3>2, <3>3, <3>5
  <2>2. ASSUME NEW d \in Draft, deployUnknown(c, d)
        PROVE  \E y \in CallState : /\ CallOK(y) /\ y.draft = NoDraft /\ y.phase # "page"
                                   /\ call' = [call EXCEPT ![c] = y]
    <3>1. [Fresh EXCEPT !.phase = "thrown"] = Entered(<<>>, NoDraft, FALSE, "thrown")
      <4>1. PICK y : y = [Fresh EXCEPT !.phase = "thrown"]
        OBVIOUS
      <4>2. y = Entered(<<>>, NoDraft, FALSE, "thrown")
        BY <4>1 DEF Entered, Fresh
      <4> QED BY <4>1, <4>2
    <3>2. <<>> \in Seq(PlanStep) /\ \A i \in DOMAIN <<>> : <<>>[i] # "automation"
      OBVIOUS
    <3>3. /\ Entered(<<>>, NoDraft, FALSE, "thrown") \in CallState
          /\ CallOK(Entered(<<>>, NoDraft, FALSE, "thrown"))
          /\ Entered(<<>>, NoDraft, FALSE, "thrown").draft = NoDraft
          /\ Entered(<<>>, NoDraft, FALSE, "thrown").phase # "page"
      BY <1>1, <3>2, EnteredOK
    <3> QED BY <2>2, <3>1, <3>3 DEF deployUnknown
  <2> QED BY <2>1, <2>2
<1>3. /\ pending' = pending /\ server' = server /\ UNCHANGED <<readOnly, elicits, drafts>>
      /\ call[c].phase = "idle"
  BY DEF callTool, deployUnknown
<1>4. c \notin pending
  BY <1>3 DEF GateInv, PagesOK
<1> QED BY ZenonT(30), <1>2, <1>3, <1>4, GateCallMoves DEF GateInv, GateTypeOK

\* A deployment takes its draft before anything else; no other call has it.
LEMMA DeployKeeps ==
    ASSUME GateInv, NEW c \in Call, NEW d \in Draft, deployAutomation(c, d)
    PROVE  GateInv'
<1>1. /\ call \in [Call -> CallState] /\ readOnly \in BOOLEAN /\ drafts \in [Draft -> DraftState]
      /\ drafts' = [drafts EXCEPT ![d].stored = "gone"] /\ drafts[d].stored = "held"
      /\ UNCHANGED <<readOnly, elicits, server, pending>> /\ call[c].phase = "idle"
      /\ "deploy_automation" \in Tool
  BY DEF GateInv, GateTypeOK, deployAutomation, Consumed
<1>2. PICK y \in CallState :
          /\ CallOK(y) /\ y.draft = d /\ y.phase # "page"
          /\ call' = [call EXCEPT ![c] = y]
  <2>1. PICK sensitive \in BOOLEAN : sensitive = Sensitive("deploy_automation", d)
    BY DEF Sensitive
  <2>2. PICK p \in {Guarded(sensitive), "thrown"} :
            p = IF drafts[d].kind = "blocked" THEN "thrown" ELSE Guarded(sensitive)
    OBVIOUS
  <2>3. PICK plan \in Plans("deploy_automation") :
            call' = [call EXCEPT ![c] = [Fresh EXCEPT !.plan = plan, !.draft = d,
                                             !.sensitive = sensitive, !.phase = p]]
    BY <2>1, <2>2 DEF deployAutomation
  <2>4. PICK y : y = [Fresh EXCEPT !.plan = plan, !.draft = d, !.sensitive = sensitive, !.phase = p]
    OBVIOUS
  <2>5. y = Entered(plan, d, sensitive, p)
    BY <2>4 DEF Entered, Fresh
  <2>6. plan \in Seq(PlanStep) /\ 0 < Len(plan) /\ d # NoDraft
    BY <1>1, GatePlansOK
  <2>7. y \in CallState /\ CallOK(y) /\ y.draft = d /\ y.phase # "page"
    BY <1>1, <2>5, <2>6, EnteredOK
  <2> QED BY <2>3, <2>4, <2>7
<1>3. /\ call' \in [Call -> CallState] /\ call'[c] = y
      /\ \A e \in Call : e # c => call'[e] = call[e]
  BY <1>1, <1>2
<1>4. /\ drafts' \in [Draft -> DraftState] /\ drafts'[d].stored = "gone"
      /\ \A e \in Draft : drafts[e].stored = "gone" => drafts'[e].stored = "gone"
  BY <1>1 DEF DraftState
<1>5. GateTypeOK'
  BY <1>1, <1>3, <1>4 DEF GateInv, GateTypeOK
<1>6. CallsOK'
  <2>1. \A e \in Call : CallOK(call'[e])
    BY <1>2, <1>3 DEF GateInv, CallsOK
  <2> QED BY ZenonT(30), <1>1, <2>1 DEF CallsOK, CallOK, WaitingOK, RunningOK, GateEndedOK, SignedOK, AllowedOK
<1>7. PagesOK'
  BY <1>1, <1>3 DEF GateInv, GateTypeOK, PagesOK
<1>8. DraftsOK'
  <2>1. \A e \in Call : call[e].draft # d
    BY <1>1 DEF GateInv, DraftsOK
  <2>2. \A e \in Call : call'[e].draft # NoDraft => drafts'[call'[e].draft].stored = "gone"
    <3> SUFFICES ASSUME NEW e \in Call, call'[e].draft # NoDraft
                 PROVE  drafts'[call'[e].draft].stored = "gone"
      OBVIOUS
    <3>1. CASE e = c
      BY <1>2, <1>3, <1>4, <3>1
    <3>2. CASE e # c
      <4>1. call'[e].draft = call[e].draft /\ call[e].draft \in Draft
        BY <1>1, <1>3, <3>2 DEF CallState
      <4> QED BY <1>4, <4>1 DEF GateInv, DraftsOK
    <3> QED BY <3>1, <3>2
  <2>3. \A c1, c2 \in Call :
            call'[c1].draft = call'[c2].draft /\ call'[c1].draft # NoDraft => c1 = c2
    BY <1>2, <1>3, <2>1 DEF GateInv, DraftsOK
  <2> QED BY <2>2, <2>3 DEF DraftsOK
<1> QED BY <1>5, <1>6, <1>7, <1>8 DEF GateInv

\* Proposing, keeping, rejecting and expiring: a draft that is gone stays gone.
LEMMA DraftKeeps ==
    ASSUME GateInv, NEW d \in Draft, DraftStep(d)
    PROVE  GateInv'
<1>1. /\ drafts \in [Draft -> DraftState]
      /\ UNCHANGED <<readOnly, elicits, server, pending, call>>
  BY DEF GateInv, GateTypeOK, DraftStep, postDraft, storeDraft, rejectDraft, expireDraft
<1>2. /\ drafts' \in [Draft -> DraftState]
      /\ \A e \in Draft : drafts[e].stored = "gone" => drafts'[e].stored = "gone"
  <2>1. CASE postDraft(d)
    BY <1>1, <2>1 DEF postDraft, DraftState
  <2>2. CASE storeDraft(d)
    BY <1>1, <2>2 DEF storeDraft, DraftState
  <2>3. CASE rejectDraft(d)
    <3>1. PICK row \in BOOLEAN :
              drafts' = [drafts EXCEPT ![d] = [drafts[d] EXCEPT !.stored = "gone", !.row = row]]
      BY <1>1, <2>3 DEF rejectDraft
    <3>2. PICK z : z = [drafts[d] EXCEPT !.stored = "gone", !.row = row]
      OBVIOUS
    <3>3. z \in DraftState /\ z.stored = "gone"
      BY <1>1, <3>2 DEF DraftState
    <3> QED BY <1>1, <3>1, <3>2, <3>3
  <2>4. CASE expireDraft(d)
    BY <1>1, <2>4 DEF expireDraft, DraftState
  <2> QED BY <2>1, <2>2, <2>3, <2>4 DEF DraftStep
<1>3. DraftsOK'
  <2>1. \A e \in Call : call[e].draft \in Draft \cup {NoDraft}
    BY DEF GateInv, GateTypeOK, CallState
  <2> QED BY <1>1, <1>2, <2>1 DEF GateInv, DraftsOK
<1>4. CallsOK'
  <2>1. \A c \in Call : CallOK(call'[c])
    BY <1>1 DEF GateInv, CallsOK
  <2> QED BY ZenonT(30), <1>1, <2>1 DEF CallsOK, CallOK, WaitingOK, RunningOK, GateEndedOK, SignedOK, AllowedOK
<1> QED BY <1>1, <1>2, <1>3, <1>4 DEF GateInv, GateTypeOK, PagesOK

-----------------------------------------------------------------------------
(* The plan is carried out.                                                *)

\* A step of an approved plan, whether it is mined or throws.
LEMMA ExecutionKeeps ==
    ASSUME GateInv, NEW c \in Call, perform(c) \/ performFails(c)
    PROVE  GateInv'
<1>1. /\ call \in [Call -> CallState] /\ call[c] \in CallState /\ CallOK(call[c])
      /\ call[c].phase = "executing" /\ pending' = pending /\ server' = server
      /\ UNCHANGED <<readOnly, elicits, drafts>>
  BY DEF GateInv, GateTypeOK, CallsOK, perform, performFails
<1>2. PICK x \in CallState : x = call[c]
  BY <1>1
<1>3. PICK n : n = x.done + 1
  OBVIOUS
<1>4. /\ x.plan \in Seq(PlanStep) /\ n \in Nat /\ n \in DOMAIN x.plan /\ n <= Len(x.plan)
      /\ x.done \in Nat /\ x.signed \subseteq Signing /\ Len(x.plan) \in Nat
  <2>1. x.plan \in Seq(PlanStep) /\ x.done \in Nat /\ x.signed \subseteq Signing
    BY DEF CallState
  <2>2. x.done < Len(x.plan)
    BY <1>1, <1>2 DEF CallOK, RunningOK
  <2> QED BY <1>3, <2>1, <2>2, LenProperties
<1>5. PICK sent \in SUBSET ({x.plan[n]} \cap Signing), done \in {x.done, n}, p \in Phase :
          /\ call' = [call EXCEPT ![c] = [x EXCEPT !.done = done, !.signed = @ \cup sent, !.phase = p]]
          /\ \/ /\ done = n /\ sent = {x.plan[n]} \cap Signing
                /\ p = IF n = Len(x.plan) THEN "executed" ELSE "executing"
             \/ done = x.done /\ p = "failed"
  <2>1. CASE perform(c)
    <3>1. call' = [call EXCEPT ![c] = [x EXCEPT !.done = n, !.signed = @ \cup ({x.plan[n]} \cap Signing),
                     !.phase = IF n = Len(x.plan) THEN "executed" ELSE "executing"]]
      BY <1>1, <1>2, <1>3, <2>1 DEF perform, NextStep
    <3>2. (IF n = Len(x.plan) THEN "executed" ELSE "executing") \in Phase
      BY DEF Phase
    <3> QED BY <3>1, <3>2
  <2>2. CASE performFails(c)
    <3>1. PICK sent \in SUBSET ({x.plan[n]} \cap Signing) :
              call' = [call EXCEPT ![c].signed = @ \cup sent, ![c].phase = "failed"]
      BY <1>2, <1>3, <2>2 DEF performFails, NextStep
    <3>2. [x EXCEPT !.done = x.done, !.signed = @ \cup sent, !.phase = "failed"]
             = [x EXCEPT !.signed = @ \cup sent, !.phase = "failed"]
      BY DEF CallState
    <3>3. call' = [call EXCEPT ![c] = [x EXCEPT !.signed = @ \cup sent, !.phase = "failed"]]
      BY <1>1, <1>2, <3>1
    <3>4. "failed" \in Phase
      BY DEF Phase
    <3> QED BY <3>2, <3>3, <3>4
  <2> QED BY <2>1, <2>2
<1>6. PICK y : y = [x EXCEPT !.done = done, !.signed = @ \cup sent, !.phase = p]
  OBVIOUS
<1>7. /\ y.sensitive = x.sensitive /\ y.draft = x.draft /\ y.plan = x.plan /\ y.heard = x.heard
      /\ y.log = x.log /\ y.lost = x.lost
      /\ y.done = done /\ y.signed = x.signed \cup sent /\ y.phase = p
  BY <1>6 DEF CallState
<1>8. y \in CallState
  BY <1>4, <1>5, <1>6 DEF CallState
<1>9. CallOK(y)
  <2>1. /\ Said(x) \subseteq {"requested", "approved"}
        /\ x.sensitive => x.heard = "yes" /\ "approved" \in Said(x)
        /\ SignedUpTo(x, x.done) /\ ~readOnly /\ SignedOK(x)
    BY <1>1, <1>2 DEF CallOK, RunningOK, AllowedOK, Running
  <2>2. Said(y) = Said(x)
    BY <1>7 DEF Said
  <2>3. p \in {"executing", "executed", "failed"}
    BY <1>5
  <2>4. WaitingOK(y) /\ GateEndedOK(y) /\ AllowedOK(y)
    BY <1>7, <2>1, <2>3 DEF WaitingOK, GateEndedOK, AllowedOK, Waiting, Deciding
  <2>5. SignedOK(y)
    <3>1. \A t \in y.signed : \E i \in DOMAIN y.plan : y.plan[i] = t
      BY <1>4, <1>5, <1>7, <2>1 DEF SignedOK
    <3> QED BY <1>7, <2>1, <2>2, <3>1 DEF SignedOK
  <2>6. p \in {"executing", "executed"} => SignedUpTo(y, y.done)
    <3> SUFFICES ASSUME p \in {"executing", "executed"}, NEW i \in DOMAIN y.plan,
                        i <= y.done, y.plan[i] \in Signing
                 PROVE  y.plan[i] \in y.signed
      BY DEF SignedUpTo
    <3>1. i \in Nat /\ y.done = n /\ y.signed = x.signed \cup ({x.plan[n]} \cap Signing)
      BY <1>4, <1>5, <1>7, LenProperties
    <3>2. i <= x.done \/ i = n
      BY <1>3, <1>4, <3>1
    <3> QED BY <1>7, <2>1, <3>1, <3>2 DEF SignedUpTo
  <2>7. RunningOK(y)
    <3>1. p = "executing" => y.done < Len(y.plan)
      BY <1>3, <1>4, <1>5, <1>7
    <3>2. p = "executed" => y.done = Len(y.plan)
      BY <1>5, <1>7
    <3>3. p = "failed" => y.done < Len(y.plan)
      BY <1>3, <1>4, <1>5, <1>7
    <3> QED BY <1>7, <2>1, <2>2, <2>3, <2>6, <3>1, <3>2, <3>3 DEF RunningOK, Running, Deciding
  <2> QED BY <2>4, <2>5, <2>7 DEF CallOK
<1>10. c \notin pending
  BY <1>1 DEF GateInv, PagesOK
<1>11. call' = [call EXCEPT ![c] = y] /\ y.draft = call[c].draft
  BY <1>2, <1>5, <1>6, <1>7
<1> QED BY ZenonT(30), <1>1, <1>8, <1>9, <1>10, <1>11, GateCallMoves DEF GateInv, GateTypeOK

-----------------------------------------------------------------------------
(* The invariant, and what follows from it.                                *)

\* The invariant holds before the first call.
LEMMA GateStarts == GateInit => GateInv
<1> SUFFICES ASSUME GateInit PROVE GateInv
  OBVIOUS
<1>1. /\ readOnly \in BOOLEAN /\ Fresh = Entered(<<>>, NoDraft, FALSE, "idle")
      /\ Fresh.phase = "idle" /\ Fresh.draft = NoDraft
  BY DEF GateInit, Fresh, Entered
<1>2. Fresh \in CallState
  <2>1. <<>> \in Seq(Outcome) /\ <<>> \in Seq(PlanStep)
    OBVIOUS
  <2> QED BY <2>1 DEF Fresh, CallState, Phase
<1>3. CallOK(Fresh)
  <2>1. Said(Fresh) = {}
    BY DEF Said, Fresh
  <2>2. /\ Fresh.signed = {} /\ Fresh.done = 0 /\ Fresh.phase = "idle" /\ Fresh.plan = <<>>
        /\ \A i \in DOMAIN Fresh.plan : FALSE
    BY DEF Fresh
  <2> QED BY <2>1, <2>2 DEF CallOK, WaitingOK, RunningOK, GateEndedOK, SignedOK, AllowedOK,
                            Waiting, Deciding, Running
<1>4. GateTypeOK
  <2>1. call \in [Call -> CallState]
    BY <1>2 DEF GateInit
  <2>2. drafts \in [Draft -> DraftState]
    BY DEF GateInit, DraftState
  <2> QED BY <2>1, <2>2 DEF GateInit, GateTypeOK
<1>5. \A c \in Call : call[c] = Fresh
  BY DEF GateInit
<1>6. CallsOK /\ PagesOK /\ DraftsOK
  BY <1>1, <1>3, <1>5 DEF GateInit, CallsOK, PagesOK, DraftsOK
<1> QED BY <1>4, <1>6 DEF GateInv

\* Every step keeps it.
LEMMA GateStays == GateInv /\ [GateNext]_gateVars => GateInv'
<1> SUFFICES ASSUME GateInv, [GateNext]_gateVars PROVE GateInv'
  OBVIOUS
<1>1. ASSUME NEW c \in Call, GateStep(c) PROVE GateInv'
  <2>1. CASE recordRejected(c) \/ recordTimeout(c) \/ recordDenied(c)
    BY <2>1, RefusalKeeps
  <2>2. CASE recordRequested(c) \/ recordApproved(c)
    BY <2>2, RequestedKeeps, ApprovedKeeps
  <2>3. CASE recordSuccess(c) \/ recordError(c)
    BY <2>3, SuccessKeeps, ErrorKeeps
  <2>4. CASE elicitTimeout(c) \/ openPage(c) \/ ensureServer(c) \/ pageTimeout(c)
    BY <2>4, AskingKeeps
  <2>5. CASE \E yes \in BOOLEAN : elicitAnswer(c, yes) \/ redeem(c, yes)
    BY <2>5, AnswerKeeps
  <2>6. CASE \/ \E tool \in Tool : callTool(c, tool)
             \/ \E d \in Draft : deployUnknown(c, d)
    BY <2>6, CallKeeps
  <2>7. CASE \E d \in Draft : deployAutomation(c, d)
    BY <2>7, DeployKeeps
  <2>8. CASE perform(c) \/ performFails(c)
    BY <2>8, ExecutionKeeps
  <2> QED BY <1>1, <2>1, <2>2, <2>3, <2>4, <2>5, <2>6, <2>7, <2>8 DEF GateStep
<1>2. ASSUME NEW d \in Draft, DraftStep(d) PROVE GateInv'
  BY <1>2, DraftKeeps
<1>3. CASE serverListens \/ serverFails
  BY <1>3, ServerKeeps
<1>4. CASE UNCHANGED gateVars
  BY <1>4 DEF gateVars, GateInv, GateTypeOK, CallsOK, CallOK, WaitingOK, RunningOK, GateEndedOK,
              SignedOK, AllowedOK, PagesOK, DraftsOK
<1> QED BY <1>1, <1>2, <1>3, <1>4 DEF GateNext

\* Nothing is broadcast but what the owner agreed to: a sensitive call signs
\* after the yes to that call, no call signs in read-only mode, and a draft is
\* deployed by one call only (policy-gate.ts, guard; draft-store.ts, consume).
LEMMA AgreedFromInv == GateInv => SignedAsAgreed
<1> SUFFICES ASSUME GateInv PROVE SignedAsAgreed
  OBVIOUS
<1>1. \A c \in Call : SignedOK(call[c]) /\ AllowedOK(call[c])
  BY DEF GateInv, CallsOK, CallOK
<1>2. SignedOnlyIfApproved
  BY <1>1 DEF SignedOnlyIfApproved, SignedOK, AllowedOK
<1>3. DraftDeployedOnce
  <2>1. \A c \in Call : "automation" \in call[c].signed => call[c].draft # NoDraft
    BY <1>1 DEF SignedOK
  <2> QED BY <2>1 DEF DraftDeployedOnce, GateInv, DraftsOK
<1> QED BY <1>2, <1>3 DEF SignedAsAgreed

\* The audit file of a call agrees with what the call did, in every phase.
LEMMA TruthFromInv == GateInv => AuditTellsTruth
<1> SUFFICES ASSUME GateInv, NEW c \in Call
             PROVE  /\ Logged(c, "success") =>
                         /\ call[c].done = Len(call[c].plan)
                         /\ \A i \in DOMAIN call[c].plan :
                              call[c].plan[i] \in Signing => call[c].plan[i] \in call[c].signed
                    /\ (\E o \in {"rejected", "timeout", "denied"} : Logged(c, o)) =>
                         call[c].signed = {}
                    /\ call[c].sensitive /\ call[c].signed # {} => Logged(c, "approved")
                    /\ Logged(c, "error") =>
                         call[c].done < Len(call[c].plan) \/ "success" \in call[c].lost
                    /\ call[c].phase = "thrown" /\ call[c].signed # {} =>
                         Logged(c, "error") \/ "error" \in call[c].lost
  BY DEF AuditTellsTruth
<1>1. PICK x \in CallState : x = call[c] /\ CallOK(x)
  BY DEF GateInv, GateTypeOK, CallsOK
<1>2. \A o : Logged(c, o) <=> o \in Said(x)
  BY <1>1 DEF Logged, Said
<1>3. x.phase \in Waiting \cup Running \cup {"returned", "thrown"}
  BY DEF CallState, Phase, Waiting, Deciding, Running
<1>4. "success" \in Said(x) => /\ x.done = Len(x.plan)
                              /\ \A i \in DOMAIN x.plan : x.plan[i] \in Signing => x.plan[i] \in x.signed
  <2> SUFFICES ASSUME "success" \in Said(x)
               PROVE  /\ x.done = Len(x.plan)
                      /\ \A i \in DOMAIN x.plan : x.plan[i] \in Signing => x.plan[i] \in x.signed
    OBVIOUS
  <2>1. x.phase = "returned"
    BY <1>1, <1>3 DEF CallOK, WaitingOK, RunningOK, GateEndedOK
  <2>2. x.done = Len(x.plan) /\ SignedUpTo(x, Len(x.plan))
    BY <1>1, <2>1 DEF CallOK, GateEndedOK
  <2>3. \A i \in DOMAIN x.plan : i <= Len(x.plan)
    BY LenProperties DEF CallState
  <2> QED BY <2>2, <2>3 DEF SignedUpTo
<1>5. Said(x) \cap {"rejected", "timeout", "denied"} # {} => x.signed = {}
  BY <1>1, <1>3 DEF CallOK, WaitingOK, RunningOK, GateEndedOK
<1>6. x.sensitive /\ x.signed # {} => "approved" \in Said(x)
  BY <1>1 DEF CallOK, SignedOK
<1>7. "error" \in Said(x) => x.done < Len(x.plan) \/ "success" \in x.lost
  BY <1>1, <1>3 DEF CallOK, WaitingOK, RunningOK, GateEndedOK
<1>8. x.phase = "thrown" /\ x.signed # {} => "error" \in Said(x) \/ "error" \in x.lost
  BY <1>1 DEF CallOK, GateEndedOK
<1> QED BY <1>1, <1>2, <1>4, <1>5, <1>6, <1>7, <1>8

\* Whatever the owner, the client, the page's timer and the audit file do, a
\* signature is one the owner agreed to, and for one deployment of a draft.
THEOREM SignaturesAgreed == GateSpec => []SignedAsAgreed
<1>1. GateInit => GateInv
  BY GateStarts
<1>2. GateInv /\ [GateNext]_gateVars => GateInv'
  BY GateStays
<1>3. GateInv => SignedAsAgreed
  BY AgreedFromInv
<1> QED BY <1>1, <1>2, <1>3, PTL DEF GateSpec

\* Also when appends to it fail, the audit file says of no call what did not
\* happen, and of every signature what the owner said to it.
THEOREM AuditFileTrue == GateSpec => [](GateTypeOK /\ AuditTellsTruth)
<1>1. GateInit => GateInv
  BY GateStarts
<1>2. GateInv /\ [GateNext]_gateVars => GateInv'
  BY GateStays
<1>3. GateInv => GateTypeOK /\ AuditTellsTruth
  BY TruthFromInv DEF GateInv
<1> QED BY <1>1, <1>2, <1>3, PTL DEF GateSpec
=============================================================================
