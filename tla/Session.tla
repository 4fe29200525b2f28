------------------------------ MODULE Session -------------------------------
(***************************************************************************)
(* Signing in with a wallet and using the tokens it yields.  The browser    *)
(* keeps an access token, a refresh token and the wallet address in local   *)
(* storage; requests read it before they are sent, and a request that is    *)
(* told its token expired fetches a new one and is sent again.  Requests,   *)
(* sign-ins and sign-outs interleave wherever the code awaits.              *)
(*                                                                         *)
(* A token is modelled by the account it was issued to.  It may expire at   *)
(* any time, so any request may be told that it has.                        *)
(***************************************************************************)
EXTENDS Naturals, FiniteSets

CONSTANTS
    Account,     \* wallets the user may connect
    Nobody,      \* no token, no account
    Request,     \* API requests of the page
    MaxSignIns   \* bound: sign-ins begun

ASSUME SessionAssumption == MaxSignIns \in Nat

VARIABLES
    storage,   \* localStorage: access token, refresh token, wallet
    signIn,    \* the login callback in progress, and the nonce it holds
    requests,  \* apiFetch calls
    signIns,   \* number of sign-ins begun
    straddled  \* history: a refresh was under way when the session changed

sessionVars == <<storage, signIn, requests, signIns, straddled>>

Holder == Account \cup {Nobody}

\* `crossed` is history: the session changed while the request was under way.
Request0 == [step |-> "idle", as |-> Nobody, token |-> Nobody, refresh |-> Nobody,
             crossed |-> FALSE]
NoSignIn == [step |-> "idle", as |-> Nobody]
SignedOut == [access |-> Nobody, refresh |-> Nobody, wallet |-> Nobody]

SessionTypeOK ==
    /\ storage \in [access : Holder, refresh : Holder, wallet : Holder]
    /\ signIn \in [step : {"idle", "nonce", "signed", "lapsed", "granted"}, as : Holder]
    /\ requests \in [Request -> [step : {"idle", "sent", "refreshing", "resent", "done"},
                                 as : Holder, token : Holder, refresh : Holder,
                                 crossed : BOOLEAN]]
    /\ signIns \in 0 .. MaxSignIns
    /\ straddled \in BOOLEAN

SessionInit ==
    /\ storage = SignedOut
    /\ signIn = NoSignIn
    /\ requests = [r \in Request |-> Request0]
    /\ signIns = 0
    /\ straddled = FALSE

Refreshing == {r \in Request : requests[r].step = "refreshing"}

\* History of a change of session made outside the requests in `by`.
Straddles(by) ==
    /\ straddled' = (straddled \/ Refreshing \ by # {})
    /\ requests' = [r \in Request |->
         IF r \in by THEN [requests[r] EXCEPT !.step = "done"]
         ELSE [requests[r] EXCEPT !.crossed = @ \/ requests[r].step \in {"sent", "refreshing"}]]

\* login: GET /auth/nonce, for the wallet that is connected now.
fetchNonce(a) ==
    /\ signIn.step = "idle"
    /\ signIns < MaxSignIns
    /\ signIn' = [step |-> "nonce", as |-> a]
    /\ signIns' = signIns + 1
    /\ UNCHANGED <<storage, requests, straddled>>

signMessage ==
    /\ signIn.step = "nonce"
    /\ signIn' = [signIn EXCEPT !.step = "signed"]
    /\ UNCHANGED <<storage, requests, signIns, straddled>>

\* Five minutes pass before the backend sees the signature.
nonceExpires ==
    /\ signIn.step \in {"nonce", "signed"}
    /\ signIn' = [signIn EXCEPT !.step = "lapsed"]
    /\ UNCHANGED <<storage, requests, signIns, straddled>>

\* POST /auth/verify: one conditional update uses the nonce up.
verify ==
    /\ signIn.step = "signed"
    /\ signIn' = [signIn EXCEPT !.step = "granted"]
    /\ UNCHANGED <<storage, requests, signIns, straddled>>

\* The user refuses, the nonce is gone, or the answer never arrives.
signInFails ==
    /\ signIn.step # "idle"
    /\ signIn' = NoSignIn
    /\ UNCHANGED <<storage, requests, signIns, straddled>>

\* A page that keeps the refresh token it has.
Stored_KeepsRefresh(a) ==
    [access |-> a, wallet |-> a,
     refresh |-> IF storage.refresh = Nobody THEN a ELSE storage.refresh]

\* What the page stores when the tokens arrive.
Stored(a) == [access |-> a, refresh |-> a, wallet |-> a]

signedIn ==
    /\ signIn.step = "granted"
    /\ storage' = Stored(signIn.as)
    /\ signIn' = NoSignIn
    /\ Straddles({})
    /\ UNCHANGED signIns

logout ==
    /\ storage # SignedOut
    /\ storage' = SignedOut
    /\ Straddles({})
    /\ UNCHANGED <<signIn, signIns>>

\* apiFetch reads the access token and sends the request.
send(r) ==
    /\ requests[r].step = "idle"
    /\ storage.access # Nobody
    /\ requests' = [requests EXCEPT ![r] =
         [Request0 EXCEPT !.step = "sent", !.as = storage.wallet, !.token = storage.access]]
    /\ UNCHANGED <<storage, signIn, signIns, straddled>>

\* Anything but 401 TOKEN_EXPIRED is handed to the caller.
answered(r) ==
    /\ requests[r].step \in {"sent", "resent"}
    /\ requests' = [requests EXCEPT ![r].step = "done"]
    /\ UNCHANGED <<storage, signIn, signIns, straddled>>

\* 401 TOKEN_EXPIRED: silentRefresh, with the refresh token stored by now.
silentRefresh(r) ==
    /\ requests[r].step = "sent"
    /\ storage.refresh # Nobody
    /\ requests' = [requests EXCEPT ![r].step = "refreshing", ![r].refresh = storage.refresh]
    /\ UNCHANGED <<storage, signIn, signIns, straddled>>

\* The new token is stored, whatever is stored by now, and the request is
\* sent again with it.
refreshed(r) ==
    /\ requests[r].step = "refreshing"
    /\ storage' = [storage EXCEPT !.access = requests[r].refresh]
    /\ requests' = [requests EXCEPT ![r].step = "resent", ![r].token = requests[r].refresh]
    /\ UNCHANGED <<signIn, signIns, straddled>>

\* No refresh token, or it is refused: clearAuth, whoever is signed in by now.
refreshFails(r) ==
    /\ \/ requests[r].step = "refreshing"
       \/ requests[r].step = "sent" /\ storage.refresh = Nobody
    /\ storage' = SignedOut
    /\ Straddles({r})
    /\ UNCHANGED <<signIn, signIns>>

SessionNext ==
    \/ \E a \in Account : fetchNonce(a)
    \/ signMessage \/ nonceExpires \/ verify \/ signInFails \/ signedIn
    \/ logout
    \/ \E r \in Request :
         send(r) \/ answered(r) \/ silentRefresh(r) \/ refreshed(r) \/ refreshFails(r)

SessionSpec == SessionInit /\ [][SessionNext]_sessionVars

\* The page acts as the account it shows: the stored tokens belong to it, and
\* a request is never repeated in another account's name.  Excepted are what
\* the code does not guard against: a refresh whose answer arrives after the
\* session changed, and a request that is repeated after it (api.ts, apiFetch).
SessionOfShownAccount ==
    ~straddled =>
        /\ storage.access = storage.wallet
        /\ storage.refresh = storage.wallet
        /\ \A r \in Request : ~requests[r].crossed => requests[r].token = requests[r].as
=============================================================================
