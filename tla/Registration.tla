---------------------------- MODULE Registration ----------------------------
(***************************************************************************)
(* From the factory on chain to the Vault table.  A client (the browser     *)
(* hook or the MCP tool) has the factory create a vault and then registers  *)
(* it with the backend, which answers from several database calls in a row. *)
(* The browser tries again when an answer is an error or is lost, while     *)
(* the earlier request may still be served; a conflict ends the attempts.   *)
(*                                                                         *)
(* A label is a number: n stands for "Vault #n", the default of a vault     *)
(* registered without a label, which an owner may also choose or rename to. *)
(***************************************************************************)
EXTENDS Naturals, FiniteSets

CONSTANTS
    Vault,     \* vaults the factory may create
    Owner,     \* accounts
    Handler,   \* registration requests served at the same time
    NoOwner,   \* not created, or not registered
    NoLabel,   \* registered without a label
    Label,     \* labels an owner may ask for
    Retries    \* attempts of the browser after the first

VARIABLES
    implementation,   \* the factory has a vault implementation
    owner,            \* on chain: who owns each created vault
    rows,             \* the Vault table
    clients,          \* who registers each vault
    handlers          \* requests being served

registrationVars == <<implementation, owner, rows, clients, handlers>>

NoRow == [owner |-> NoOwner, label |-> NoLabel]
NoClient == [step |-> "none", kind |-> "browser", left |-> 0, label |-> NoLabel, heard |-> "nothing"]
Unserved == [step |-> "unserved"]

Answer == {"created", "exists", "label", "error", "lost"}

Number == (0 .. Cardinality(Vault) + 1) \cup Label
Client == [step : {"none", "posting", "waiting", "done", "failed"}, kind : {"browser", "mcp"},
           left : 0 .. Retries, label : Label \cup {NoLabel}, heard : Answer \cup {"nothing"}]
PostRequest == [step : {"findVault", "countVaults", "findLabel", "insert"}, vault : Vault,
            label : Number \cup {NoLabel}, awaited : BOOLEAN]

RegistrationTypeOK ==
    /\ implementation \in BOOLEAN
    /\ owner \in [Vault -> Owner \cup {NoOwner}]
    /\ rows \in [Vault -> [owner : Owner \cup {NoOwner}, label : Number \cup {NoLabel}]]
    /\ clients \in [Vault -> Client]
    /\ handlers \in [Handler -> PostRequest \cup {Unserved}]

RegistrationInit ==
    /\ implementation = FALSE
    /\ owner = [v \in Vault |-> NoOwner]
    /\ rows = [v \in Vault |-> NoRow]
    /\ clients = [v \in Vault |-> NoClient]
    /\ handlers = [h \in Handler |-> Unserved]

Registered(v) == rows[v] # NoRow
LabelTaken(o, n) == \E w \in Vault : rows[w] = [owner |-> o, label |-> n]

setVaultImplementation ==
    /\ ~implementation
    /\ implementation' = TRUE
    /\ UNCHANGED <<owner, rows, clients, handlers>>

\* The factory deploys the proxy; whoever signed reads its address from the
\* receipt and goes on to register it.
createVault(v, o, kind, label) ==
    /\ implementation
    /\ owner[v] = NoOwner
    /\ owner' = [owner EXCEPT ![v] = o]
    /\ clients' = [clients EXCEPT ![v] =
         [step |-> "posting", kind |-> kind, label |-> label, heard |-> "nothing",
          left |-> IF kind = "browser" THEN Retries ELSE 0]]
    /\ UNCHANGED <<implementation, rows, handlers>>

post(v, h) ==
    /\ clients[v].step = "posting"
    /\ handlers[h] = Unserved
    /\ clients' = [clients EXCEPT ![v].step = "waiting"]
    /\ handlers' = [handlers EXCEPT ![h] =
         [step |-> "findVault", vault |-> v, label |-> clients[v].label, awaited |-> TRUE]]
    /\ UNCHANGED <<implementation, owner, rows>>

\* A client that stops at a lost answer instead of trying again.
Hears_LostIsFinal(v, answer) ==
    [clients EXCEPT ![v].heard = answer, ![v].step = "done"]

\* What a client does with an answer: success and conflict end the attempts,
\* the browser then reports a success also when its retries are used up, and
\* the MCP tool reports the error of its only attempt.
Hears(v, answer) ==
    [clients EXCEPT
       ![v].heard = answer,
       ![v].step = IF answer \in {"created", "exists", "label"} THEN "done"
                   ELSE IF clients[v].left > 0 THEN "posting"
                   ELSE IF clients[v].kind = "browser" THEN "done" ELSE "failed",
       ![v].left = IF answer \in {"error", "lost"} /\ @ > 0 THEN @ - 1 ELSE @]

\* The connection breaks; the backend goes on serving the request.
loseConnection(h) ==
    /\ handlers[h] # Unserved /\ handlers[h].awaited
    /\ handlers' = [handlers EXCEPT ![h].awaited = FALSE]
    /\ clients' = Hears(handlers[h].vault, "lost")
    /\ UNCHANGED <<implementation, owner, rows>>

\* The handler of h ends with an answer, if anybody still waits for it.
Answers(h, answer) ==
    /\ handlers' = [handlers EXCEPT ![h] = Unserved]
    /\ clients' = IF handlers[h].awaited THEN Hears(handlers[h].vault, answer) ELSE clients

At(h, step) == handlers[h] # Unserved /\ handlers[h].step = step
Goes(h, request) == handlers' = [handlers EXCEPT ![h] = request] /\ UNCHANGED clients

\* VaultService.createVault: is the address registered?  If not, and if the
\* chain confirms the vault and its owner, the label is next.
findVault(h) ==
    /\ At(h, "findVault")
    /\ LET q == handlers[h] IN
         IF Registered(q.vault) THEN Answers(h, "exists")
         ELSE Goes(h, [q EXCEPT !.step = IF q.label = NoLabel THEN "countVaults" ELSE "findLabel"])
    /\ UNCHANGED <<implementation, owner, rows>>

\* generateDefaultLabel: one more than the owner has.
countVaults(h) ==
    /\ At(h, "countVaults")
    /\ LET q == handlers[h]
           mine == {w \in Vault : rows[w].owner = owner[q.vault]}
       IN  Goes(h, [q EXCEPT !.step = "findLabel", !.label = Cardinality(mine) + 1])
    /\ UNCHANGED <<implementation, owner, rows>>

findLabel(h) ==
    /\ At(h, "findLabel")
    /\ LET q == handlers[h] IN
         IF LabelTaken(owner[q.vault], q.label) THEN Answers(h, "label")
         ELSE Goes(h, [q EXCEPT !.step = "insert"])
    /\ UNCHANGED <<implementation, owner, rows>>

\* Both unique indexes hold, or the insert fails and so does the request.
insert(h) ==
    /\ At(h, "insert")
    /\ LET q == handlers[h] IN
         IF Registered(q.vault) \/ LabelTaken(owner[q.vault], q.label)
         THEN Answers(h, "error") /\ UNCHANGED rows
         ELSE /\ rows' = [rows EXCEPT ![q.vault] = [owner |-> owner[q.vault], label |-> q.label]]
              /\ Answers(h, "created")
    /\ UNCHANGED <<implementation, owner>>

\* A database or RPC call throws.
fails(h) ==
    /\ handlers[h] # Unserved
    /\ Answers(h, "error")
    /\ UNCHANGED <<implementation, owner, rows>>

\* updateLabel: the owner renames a vault to a label that is free.
updateLabel(v, n) ==
    /\ Registered(v)
    /\ ~LabelTaken(rows[v].owner, n)
    /\ rows' = [rows EXCEPT ![v].label = n]
    /\ UNCHANGED <<implementation, owner, clients, handlers>>

serve(h) == findVault(h) \/ countVaults(h) \/ findLabel(h) \/ insert(h)

RegistrationNext ==
    \/ setVaultImplementation
    \/ \E v \in Vault :
         \/ \E o \in Owner, kind \in {"browser", "mcp"}, label \in Label \cup {NoLabel} :
              createVault(v, o, kind, label)
         \/ \E h \in Handler : post(v, h)
         \/ \E n \in Label : updateLabel(v, n)
    \/ \E h \in Handler : serve(h) \/ fails(h) \/ loseConnection(h)

\* Requests are sent, and the backend serves them to an end.
RegistrationFairness ==
    /\ \A v \in Vault : WF_registrationVars(\E h \in Handler : post(v, h))
    /\ \A h \in Handler : WF_registrationVars(serve(h))

RegistrationSpec == RegistrationInit /\ [][RegistrationNext]_registrationVars /\ RegistrationFairness

\* The exceptions of the code: the last attempt failed or its answer was lost
\* (the browser gives up without a word), or the label was taken, which both
\* clients read as "already registered".
GaveUp(v) ==
    /\ clients[v].step \in {"done", "failed"}
    /\ \/ clients[v].heard = "label"
       \/ clients[v].heard \in {"error", "lost"} /\ clients[v].left = 0

\* A vault the factory created ends up in the Vault table, whatever answers
\* are lost and whichever requests overlap, unless its client gave up
\* (use-create-vault.ts, registerVault; backend-client.ts, post).
VaultGetsRegistered ==
    \A v \in Vault : owner[v] # NoOwner ~> Registered(v) \/ GaveUp(v)
=============================================================================
