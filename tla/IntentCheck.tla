----------------------------- MODULE IntentCheck -----------------------------
(***************************************************************************)
(* What the MCP server makes of a proposed graph (mcp/src): its raw form,   *)
(* the summary decoded from it by the roles of the catalogue's fields, the  *)
(* comparison of that summary with the intent the agent declared, and the   *)
(* inspection of the stored draft before it is deployed.  The catalogue may *)
(* be seeded anew between the two.                                         *)
(*                                                                         *)
(* A node is an entry of StepCatalog and the values of some of its fields.  *)
(* Amounts are whole numbers; a zero toggle that is on is the amount 0.     *)
(***************************************************************************)
EXTENDS StepCatalog, Functions, SequencesExt

CONSTANTS
    Absent,          \* a value that is left out
    TokenDecimals,   \* curated tokens: token |-> decimals
    Allowlist,       \* money targets the server's configuration allows
    ConditionNodes,  \* conditions an agent puts in front
    ActionNodes,     \* actions an agent chains
    Declared,        \* what it may declare of an action: [token, amount, direction]
    Period,          \* seconds it may declare of the trigger
    MaxActions       \* bound on the actions of a graph

VARIABLES
    marked,    \* whether the catalogue marks money targets as such
    graph,     \* [nodes, edges] under construction; an edge is <<i, handle, j>>
    held,      \* the draft held for it
    verdict    \* what became of its deployment

intentVars == <<marked, graph, held, verdict>>

NotHeld == [made |-> FALSE]

IntentInit ==
    /\ marked \in BOOLEAN
    /\ graph = [nodes |-> << >>, edges |-> {}]
    /\ held = NotHeld /\ verdict = [of |-> "none"]

\* The entry as the catalogue holds it: before its fields were annotated, a money target
\* was an address like any other.
AsServed(step) ==
    IF marked THEN step
    ELSE [step EXCEPT !.fields = {[f EXCEPT !.role = "none"] : f \in @}]

-----------------------------------------------------------------------------
(* Fields by role, in the order the database returns them: JSONB sorts the  *)
(* keys of an object by length, then by bytes.                             *)

KeyOrder == <<"asset", "delta", "token", "amount", "tokenA", "tokenB", "tokenIn", "amountIn",
              "cooldown", "interval", "tokenOut", "minBalance", "twapWindow", "topUpAmount",
              "amountADesired", "amountBDesired">>

InOrder(names) == SelectSeq(KeyOrder, LAMBDA name : name \in names)
WithRole(step, role) == {f.name : f \in {g \in step.fields : resolveFieldRole(g) = role}}
Value(params, name) == IF name \in DOMAIN params THEN params[name] ELSE Absent

\* x-ui-amount-token-field.
AmountTokenField(name) ==
    CASE name = "amountIn"       -> "tokenIn"
      [] name = "amountADesired" -> "tokenA"
      [] name = "amountBDesired" -> "tokenB"
      [] OTHER                   -> "token"

TokenFieldOf(step, name) ==
    IF name = "amount" /\ "asset" \in {f.name : f \in step.fields} THEN "asset"
    ELSE AmountTokenField(name)

Unit(token) == 10 ^ TokenDecimals[token]

\* mapGraphToRaw: whether it can be built, and the amounts in base units.
Buildable(node) ==
    \A name \in WithRole(node.step, "amount") \cap DOMAIN node.params :
        Value(node.params, TokenFieldOf(node.step, name)) \in DOMAIN TokenDecimals

mapToRaw(node) ==
    [node EXCEPT !.params =
        [name \in DOMAIN @ |->
            IF name \in WithRole(node.step, "amount")
            THEN @[name] * Unit(@[TokenFieldOf(node.step, name)]) ELSE @[name]]]

-----------------------------------------------------------------------------
(* decodeRawGraph.                                                         *)

\* Mutant: every amount is read in the units of the node's first token.
AmountToken_First(step, params, name) ==
    Value(params, Head(InOrder(WithRole(step, "token"))))

AmountToken(step, params, name) == Value(params, TokenFieldOf(step, name))

\* The token, amount, recipient and direction of a raw node; of several amounts the last.
Decoded(step, params) ==
    LET tokens  == InOrder(WithRole(step, "token") \cap DOMAIN params)
        first   == IF tokens = << >> THEN Absent ELSE params[Head(tokens)]
        amounts == InOrder(WithRole(step, "amount"))
        token   == IF amounts = << >> THEN Absent ELSE AmountToken(step, params, Last(amounts))
        raw     == IF amounts = << >> THEN Absent ELSE Value(params, Last(amounts))
        modes   == WithRole(step, "direction") \cap DOMAIN params
        targets == WithRole(step, "recipient") \cap DOMAIN params
    IN  [category  |-> step.selector,
         token     |-> IF token = Absent THEN first ELSE token,
         amount    |-> IF raw = Absent THEN Absent ELSE raw \div Unit(token),
         direction |-> IF modes = {} THEN Absent ELSE params[CHOOSE m \in modes : TRUE],
         recipient |-> IF targets = {} THEN Absent ELSE params[CHOOSE t \in targets : TRUE]]

Summary(raw) ==
    [steps    |-> [i \in DOMAIN raw.nodes |-> Decoded(raw.nodes[i].step, raw.nodes[i].params)],
     warnings |-> UNION {findUnannotatedRecipients(raw.nodes[i].step) : i \in DOMAIN raw.nodes}]

-----------------------------------------------------------------------------
(* crossCheckIntent.                                                       *)

isBranched(raw) ==
    \E i \in DOMAIN raw.nodes : {"true", "false"} \subseteq {e[2] : e \in {f \in raw.edges : f[1] = i}}

\* The first duration of the first condition that has one.
extractTriggerSeconds(raw) ==
    LET durations(step) == {f.name : f \in {g \in step.fields : g.widget = "duration"}}
        timed == SelectSeq(raw.nodes, LAMBDA n : /\ n.step.selector = "check"
                                                /\ durations(n.step) \cap DOMAIN n.params # {})
    IN  IF timed = << >> THEN Absent
        ELSE Head(timed).params[Head(InOrder(durations(Head(timed).step)
                                               \cap DOMAIN Head(timed).params))]

\* Left out on either side, nothing is compared.
Agrees(want, has) == want = Absent \/ has = Absent \/ want = has

\* Mutant: what both lists have is compared.
actionsAgree_Shortest(intent, decoded) ==
    LET actions == SelectSeq(decoded.steps, LAMBDA s : s.category = "execute") IN
    \A i \in DOMAIN actions \cap DOMAIN intent.actions :
        \A part \in {"token", "amount", "direction"} :
            Agrees(intent.actions[i][part], actions[i][part])

\* One by one, in the order in which the graph lists its nodes.
actionsAgree(intent, decoded) ==
    LET actions == SelectSeq(decoded.steps, LAMBDA s : s.category = "execute") IN
    /\ Len(actions) = Len(intent.actions)
    /\ \A i \in DOMAIN actions :
         \A part \in {"token", "amount", "direction"} :
             Agrees(intent.actions[i][part], actions[i][part])

crossCheckIntent(intent, decoded, ownerOnly, triggerSeconds) ==
    /\ (intent.execution = "owner") = ownerOnly
    /\ actionsAgree(intent, decoded)
    /\ Agrees(intent.period, triggerSeconds)

-----------------------------------------------------------------------------
(* The agent composes, proposes and deploys.                               *)

\* A chain: each node follows the one before, out of its handle.
append(node) ==
    /\ held = NotHeld
    /\ graph' = [nodes |-> Append(graph.nodes, [node EXCEPT !.step = AsServed(node.step)]),
                 edges |-> graph.edges \cup
                     (IF graph.nodes = << >> THEN {}
                      ELSE {<<Len(graph.nodes),
                              IF Last(graph.nodes).step.selector = "check" THEN "true" ELSE "out",
                              Len(graph.nodes) + 1>>})]
    /\ UNCHANGED <<marked, held, verdict>>

appendCondition(node) == graph.nodes = << >> /\ append(node)

appendAction(node) ==
    /\ Cardinality({i \in DOMAIN graph.nodes : graph.nodes[i].step.selector = "execute"}) < MaxActions
    /\ append(node)

\* The last action hangs on the condition's other exit.
fork ==
    /\ held = NotHeld
    /\ Len(graph.nodes) = 3 /\ graph.nodes[1].step.selector = "check"
    /\ graph' = [graph EXCEPT !.edges = {<<1, "true", 2>>, <<1, "false", 3>>}]
    /\ UNCHANGED <<marked, held, verdict>>

Intents == {[execution |-> e, period |-> p, actions |-> a] :
              e \in {"public", "owner"}, p \in Period \cup {Absent},
              a \in UNION {[1 .. n -> Declared] : n \in 0 .. MaxActions}}

\* The encoder has accepted the graph and says who may run it; a rejection leaves nothing
\* behind.
proposeAutomation ==
    LET raw == [graph EXCEPT !.nodes = [i \in DOMAIN @ |-> mapToRaw(@[i])]]
        ownerOnly == graph.nodes[1].step.selector = "execute"
        decoded == Summary(raw)
        triggerSeconds == extractTriggerSeconds(raw)
    IN  /\ held = NotHeld /\ graph.nodes # << >>
        /\ \A i \in DOMAIN graph.nodes : Buildable(graph.nodes[i])
        /\ \E intent \in Intents :
             /\ crossCheckIntent(intent, decoded, ownerOnly, triggerSeconds)
             /\ held' = [made |-> TRUE, raw |-> raw, ownerOnly |-> ownerOnly,
                         summary |-> decoded, intent |-> intent,
                         branched |-> isBranched(raw)]
        /\ UNCHANGED <<marked, graph, verdict>>

\* The catalogue is seeded anew, with or without the annotations.
reseed ==
    /\ held # NotHeld
    /\ marked' = ~marked
    /\ UNCHANGED <<graph, held, verdict>>

\* Mutant: the fields' roles are those of today's catalogue.
Inspected_Fresh(i) == AsServed(held.raw.nodes[i].step)

\* The catalogue the draft was made with is kept with it.
Inspected(i) == held.raw.nodes[i].step

Targets(i) == WithRole(Inspected(i), "recipient")

\* An empty or foreign target, a step the owner has not opted in to.
inspectGraph(optedIn) ==
    \A i \in DOMAIN held.raw.nodes :
        /\ \A t \in Targets(i) : Value(held.raw.nodes[i].params, t) \in Allowlist
        /\ Targets(i) # {} => optedIn

\* The server's configuration says whether the owner has opted in.
deployAutomation(optedIn) ==
    /\ held # NotHeld /\ verdict.of = "none"
    /\ verdict' = [of |-> IF ~inspectGraph(optedIn) THEN "rejected"
                          ELSE IF \E i \in DOMAIN held.raw.nodes : Targets(i) # {}
                          THEN "confirm" ELSE "deploy",
                   optedIn |-> optedIn]
    /\ UNCHANGED <<marked, graph, held>>

IntentNext ==
    \/ \E node \in ConditionNodes : appendCondition(node)
    \/ \E node \in ActionNodes : appendAction(node)
    \/ fork
    \/ proposeAutomation
    \/ reseed
    \/ \E optedIn \in BOOLEAN : deployAutomation(optedIn)

-----------------------------------------------------------------------------
Acting == SelectSeq(graph.nodes, LAMBDA n : n.step.selector = "execute")

Shown == SelectSeq(held.summary.steps, LAMBDA s : s.category = "execute")

\* Where the agent wrote a value: in the field the summary is about.
Written(node, part) ==
    LET tokens  == InOrder(WithRole(node.step, "token"))
        amounts == InOrder(WithRole(node.step, "amount"))
    IN  CASE part = "amount" ->
               IF amounts = << >> THEN Absent ELSE Value(node.params, Last(amounts))
          [] part = "token" ->
               IF amounts # << >> THEN Value(node.params, TokenFieldOf(node.step, Last(amounts)))
               ELSE IF tokens # << >> THEN Value(node.params, Head(tokens)) ELSE Absent
          [] part = "direction" -> Value(node.params, "mode")

\* A draft is held only for an intent that names its actions, all of them, with the tokens,
\* amounts and modes the agent wrote into the graph, and shows them as written, after their
\* way into base units and back; and what moves to somebody is shown or warned of
\* (intent-check.ts: "Bei Abweichung -> Reject mit Diff"; summary-decoder.ts: "nie still
\* weggelassen").
DraftMeansIntent ==
    held # NotHeld =>
        /\ Len(held.intent.actions) = Len(Acting)
        /\ held.ownerOnly = (held.intent.execution = "owner")
        /\ \A i \in DOMAIN Acting : \A part \in {"token", "amount", "direction"} :
               LET written == Written(Acting[i], part) IN
               /\ Agrees(held.intent.actions[i][part], written)
               /\ written \in {Absent, Shown[i][part]}
        /\ \A i \in DOMAIN graph.nodes :
               \/ Value(graph.nodes[i].params, "recipient")
                    \in {Absent, held.summary.steps[i].recipient}
               \/ "recipient" \in held.summary.warnings

\* A draft that was shown to move money to somebody deploys only to allowed targets, opted
\* in to and confirmed, whatever the catalogue says by then (draft-store.ts: "was du
\* gesehen hast = was du deployst").
DeployedAsShown ==
    \A i \in DOMAIN graph.nodes :
        verdict.of \in {"confirm", "deploy"} /\ held.summary.steps[i].recipient # Absent =>
            /\ verdict.of = "confirm" /\ verdict.optedIn
            /\ held.summary.steps[i].recipient \in Allowlist

DraftsHonest == DraftMeansIntent /\ DeployedAsShown
==============================================================================
