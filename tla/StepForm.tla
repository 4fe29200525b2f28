------------------------------ MODULE StepForm ------------------------------
(***************************************************************************)
(* The editor's side panel: the form of the selected node, the parameters   *)
(* in the store, and what becomes of them at the encode boundary.  Inputs   *)
(* keep what was typed in a state of their own, made when they are mounted; *)
(* prices are turned into ticks as they are typed; the form's description,  *)
(* the token lists, the validation and the pool check arrive later.         *)
(*                                                                         *)
(* There is one node of each of three step types.  A price is its logarithm *)
(* in ticks, an amount a number of tenths to the power of its places, a     *)
(* duration a number of 120ths of its unit, a start time one of seconds.    *)
(***************************************************************************)
EXTENDS Integers, Sequences, FiniteSetsExt, TLC

CONSTANTS
    Unset,      \* a parameter that is not there
    Empty,      \* an empty input
    Odd,        \* a number Number() reads and the amount pattern refuses: "2e0"
    PriceLog,   \* prices, as logarithms
    Decimals,   \* of each token; tokens are numbers, ordered like their addresses
    PoolFee,    \* fee tiers for which the two tokens have a pool
    MaxUndo,    \* MAX_HISTORY: snapshots kept for undo
    MaxActs     \* bound: inputs, undos, selections and late token lists

VARIABLES
    params,         \* data.params of every node
    undoable,       \* past
    redoable,       \* future
    form,           \* the mounted form, or NoForm
    selected,       \* selectedNodeId
    detail,         \* stepTypeDetail: the description the panel renders
    asked,          \* requests for descriptions under way
    optionsKnown,   \* the panel has its token lists
    decimalsKnown,  \* the store has tokenDecimals
    errors,         \* validationErrors is not empty
    pending,        \* the validation timer runs
    external,       \* externalErrors is not empty
    checking,       \* the pools of the present nodes are being looked up
    acts,           \* what counts against the bound
    stale           \* history: why the form may differ from what is stored

formVars == <<params, undoable, redoable, form, selected, detail, asked, optionsKnown,
              decimalsKnown, errors, pending, external, checking, acts, stale>>
checkVars == <<errors, pending, external, checking>>

Node == {"mint", "supply", "interval"}
None == "none"
NoForm == [node |-> None]
Token == DOMAIN Decimals
Fee == {500, 2500}
Typeable == {[n |-> 0, places |-> 0], [n |-> 1, places |-> 0], [n |-> 5, places |-> 1]}
Zero == [n |-> 0, places |-> 0]

isEmpty(v) == v \in {Unset, Empty}
Val(p, field) == IF field \in DOMAIN p THEN p[field] ELSE Unset

---------------------------------------------------------------------------
(* Prices and ticks.                                                        *)

feeToSpacing(fee) == CASE fee = 100 -> 1 [] fee = 500 -> 10 [] fee = 2500 -> 50 [] fee = 10000 -> 200

Log10 == 23027
priceToTick(price, dec0, dec1) == price + (dec1 - dec0) * Log10
roundTickDown(t, spacing) == (t \div spacing) * spacing
roundTickUp(t, spacing) == -((-t) \div spacing) * spacing

\* Mutant: Token A is taken for token0.
computeExplicitTicks_AnyOrder(min, max, tokenA, tokenB, decA, decB, fee) ==
    LET spacing == feeToSpacing(fee)
    IN <<roundTickDown(priceToTick(min, decA, decB), spacing),
         roundTickUp(priceToTick(max, decA, decB), spacing)>>

\* When Token A is token1, the price is inverted - its logarithm negated - and the
\* bounds change places.
computeExplicitTicks(min, max, tokenA, tokenB, decA, decB, fee) ==
    LET spacing == feeToSpacing(fee)
        ticks == IF tokenA < tokenB
                 THEN <<priceToTick(min, decA, decB), priceToTick(max, decA, decB)>>
                 ELSE <<priceToTick(-max, decB, decA), priceToTick(-min, decB, decA)>>
    IN <<roundTickDown(ticks[1], spacing), roundTickUp(ticks[2], spacing)>>

PresetWidth == {5, 10, 20}
presetTickDelta(pct) == CASE pct = 5 -> 488 [] pct = 10 -> 953 [] pct = 20 -> 1823

\* The width a stored delta is shown as; the limits are 7.5 and 15 per cent.
nearestPreset(delta) ==
    IF delta <= 0 THEN 10 ELSE IF delta <= 723 THEN 5 ELSE IF delta <= 1397 THEN 10 ELSE 20

\* Until the token lists have arrived, every token has 18 decimals.
decimalsOf(token) == IF decimalsKnown THEN Decimals[token] ELSE 18

---------------------------------------------------------------------------
(* Validation.                                                              *)

tokenAmountOk(v, token, toggled, required) ==
    \/ toggled
    \/ ~required /\ isEmpty(v)
    \/ /\ ~isEmpty(v)
       /\ required => v.n > 0
       /\ decimalsKnown /\ ~isEmpty(token) => v.places <= Decimals[token]

TargetFloor == 105   \* MIN_TARGET_HF, in hundredths

validateAaveAmountMode(p) ==
    p.mode = 3 => ~isEmpty(p.targetHealthFactor)
                  /\ (p.targetHealthFactor = Odd \/ p.targetHealthFactor > TargetFloor)

validateTickRange(p) == p.rangeMode = 0 => p.tickLower < p.tickUpper

validateDuration(d) == d.value # Empty /\ d.value > 0

validateParams(n, p) ==
    CASE n = "mint" ->
           /\ ~isEmpty(Val(p, "tokenA")) /\ ~isEmpty(Val(p, "tokenB"))
           /\ validateTickRange(p)
           /\ tokenAmountOk(Val(p, "amountADesired"), Val(p, "tokenA"), p.useZero, TRUE)
      [] n = "supply" ->
           /\ ~isEmpty(Val(p, "asset"))
           /\ validateAaveAmountMode(p)
           /\ tokenAmountOk(p.amount, Val(p, "asset"), FALSE, FALSE)
      [] n = "interval" -> validateDuration(p.duration)

Valid(ps) == \A n \in Node : validateParams(n, ps[n])

---------------------------------------------------------------------------
(* The encode boundary.                                                     *)

Throws == -1
toBaseUnits(v, decimals) ==
    IF isEmpty(v) \/ v.places > decimals THEN Throws ELSE v.n * 10 ^ (decimals - v.places)

\* mapFieldToRaw of a token amount; what is not set gets the backend's default, 0.
mapAmountToRaw(v, token, toggled) ==
    IF toggled \/ v = Unset THEN 0
    ELSE IF ~decimalsKnown \/ isEmpty(token) THEN Throws ELSE toBaseUnits(v, Decimals[token])

mapTargetToRaw(v) == IF v = Odd THEN Throws ELSE IF isEmpty(v) THEN 0 ELSE v

\* Seconds, doubled: half a second is no whole number.
toSeconds(d) == d.value * (CASE d.unit = "minutes" -> 1 [] d.unit = "hours" -> 60)

\* mapParamsToRaw: what the ABI knows of a node's parameters, as the step will
\* read it; what the other mode of a step would read is left out.
mapParamsToRaw(n, p) ==
    CASE n = "mint" ->
           [tokenA |-> Val(p, "tokenA"), tokenB |-> Val(p, "tokenB"), fee |-> p.fee,
            mode |-> p.rangeMode,
            range |-> IF p.rangeMode = 0 THEN <<p.tickLower, p.tickUpper>> ELSE <<p.tickDelta>>,
            amount |-> mapAmountToRaw(Val(p, "amountADesired"), Val(p, "tokenA"), p.useZero)]
      [] n = "supply" ->
           [asset |-> Val(p, "asset"), mode |-> p.mode,
            amount |-> mapAmountToRaw(p.amount, Val(p, "asset"), FALSE),
            target |-> mapTargetToRaw(p.targetHealthFactor)]
      [] n = "interval" -> [seconds |-> toSeconds(p.duration)]

\* buildContextOverrides.
override(p) == p.startTime

Maps(raw) == \A k \in DOMAIN raw : k \in {"amount", "target"} => raw[k] # Throws

\* The backend's validateRawParams lets the node pass.
Accepted(n, p) ==
    LET raw == mapParamsToRaw(n, p) IN
    /\ Maps(raw)
    /\ n = "mint" => /\ raw.tokenA \in Token /\ raw.tokenB \in Token
                     /\ raw.mode = 0 => raw.range[1] < raw.range[2]
    /\ n = "supply" => raw.asset \in Token /\ (raw.mode = 3 => raw.target > TargetFloor)
    /\ n = "interval" => raw.seconds % 2 = 0 /\ raw.seconds > 0

---------------------------------------------------------------------------
(* The store.                                                               *)

\* materializeDefaultParams, and drafts that were stored before.
Defaults(n) ==
    CASE n = "mint" -> [fee |-> 500, rangeMode |-> 1, tickLower |-> 0, tickUpper |-> 0,
                        tickDelta |-> 0, useZero |-> FALSE]
      [] n = "supply" -> [mode |-> 0, amount |-> Zero, targetHealthFactor |-> 0]
      [] n = "interval" -> [duration |-> [value |-> 120, unit |-> "hours"], startTime |-> 61]

Drafts ==
    {[n \in Node |-> Defaults(n)],
     [n \in Node |->
        CASE n = "mint" -> [tokenA |-> 2, tokenB |-> 1, useZero |-> TRUE, rangeMode |-> 0,
                            tickLower |-> -50, tickUpper |-> 50, tickDelta |-> 488] @@ Defaults(n)
          [] n = "supply" -> [asset |-> 2] @@ Defaults(n)
          [] OTHER -> Defaults(n)]}

\* collectSwapPoolChecks: the pools to look up, of nodes with two tokens and a tier.
toCheck(ps) == ~isEmpty(Val(ps["mint"], "tokenA")) /\ ~isEmpty(Val(ps["mint"], "tokenB"))
PoolExists(p) == p.tokenA # p.tokenB /\ p.fee \in PoolFee

FormInit ==
    /\ params \in Drafts
    /\ undoable = <<>> /\ redoable = <<>>
    /\ form = NoForm /\ detail = None
    /\ selected \in Node /\ asked = {selected}
    /\ optionsKnown \in BOOLEAN /\ decimalsKnown \in BOOLEAN
    /\ errors = FALSE /\ pending = TRUE /\ external = FALSE /\ checking = toCheck(params)
    /\ acts = 0
    /\ stale = {}

\* scheduleValidation, and the effect of usePoolValidity: a new look-up, or none.
NodesChanged(ps) ==
    /\ params' = ps
    /\ pending' = TRUE
    /\ IF toCheck(ps)
       THEN checking' = TRUE /\ UNCHANGED <<external, errors>>
       ELSE checking' = FALSE /\ external' = FALSE /\ errors' = ~Valid(ps)

\* The youngest snapshots.
Kept(snapshots) == SubSeq(snapshots, Len(snapshots) - Min({MaxUndo, Len(snapshots)}) + 1, Len(snapshots))

\* updateNodeParams, called once for every field: each call merges its field into
\* what the call before has left.
updateNodeParams(n, fields) ==
    LET after[i \in 0 .. Len(fields)] ==
            IF i = 0 THEN params ELSE [after[i - 1] EXCEPT ![n] = fields[i] @@ @]
    IN /\ undoable' = Kept(undoable \o [i \in DOMAIN fields |-> after[i - 1]])
       /\ redoable' = <<>>
       /\ NodesChanged(after[Len(fields)])

Act == acts < MaxActs /\ acts' = acts + 1

undoParams ==
    /\ undoable # <<>> /\ Act
    /\ NodesChanged(undoable[Len(undoable)])
    /\ undoable' = SubSeq(undoable, 1, Len(undoable) - 1)
    /\ redoable' = Append(redoable, params)
    /\ stale' = IF form = NoForm THEN stale ELSE stale \cup {"undone"}
    /\ UNCHANGED <<form, selected, detail, asked, optionsKnown, decimalsKnown>>

redoParams ==
    /\ redoable # <<>> /\ Act
    /\ NodesChanged(redoable[Len(redoable)])
    /\ redoable' = SubSeq(redoable, 1, Len(redoable) - 1)
    /\ undoable' = Append(undoable, params)
    /\ stale' = IF form = NoForm THEN stale ELSE stale \cup {"undone"}
    /\ UNCHANGED <<form, selected, detail, asked, optionsKnown, decimalsKnown>>

runValidation ==
    /\ pending
    /\ pending' = FALSE
    /\ errors' = (external \/ ~Valid(params))
    /\ UNCHANGED <<params, undoable, redoable, form, selected, detail, asked, optionsKnown,
                   decimalsKnown, external, checking, acts, stale>>

\* The look-up answers - a failing one like one that finds no pool - and
\* setExternalErrors validates at once.
checkPools ==
    /\ checking
    /\ checking' = FALSE
    /\ external' \in {TRUE, ~PoolExists(params["mint"])}
    /\ errors' = (external' \/ ~Valid(params))
    /\ UNCHANGED <<params, undoable, redoable, form, selected, detail, asked, optionsKnown,
                   decimalsKnown, pending, acts, stale>>

setTokenDecimals ==
    /\ ~decimalsKnown /\ Act
    /\ decimalsKnown' = TRUE
    /\ pending' = TRUE
    /\ stale' = stale \cup {"moved"}
    /\ UNCHANGED <<params, undoable, redoable, form, selected, detail, asked, optionsKnown,
                   errors, external, checking>>

---------------------------------------------------------------------------
(* The panel and its form.                                                  *)

Select(token) == IF optionsKnown /\ ~isEmpty(token) THEN token ELSE Empty
Minutes(seconds) == IF seconds = Unset THEN Empty ELSE (seconds \div 60) * 60
RangeMode(p) == IF Val(p, "rangeMode") = Unset THEN 1 ELSE p.rangeMode
RangeDelta(p) == IF Val(p, "tickDelta") = Unset THEN 0 ELSE p.tickDelta
AaveMode(p) == IF Val(p, "mode") = Unset THEN 0 ELSE p.mode
Text(v) == IF isEmpty(v) THEN Empty ELSE v
TargetText(v) == IF isEmpty(v) \/ v = 0 THEN Empty ELSE v

\* The inputs a form of description t begins with over parameters p.
Inputs(t, p) ==
    CASE t = "mint" ->
           [tokenA |-> Select(Val(p, "tokenA")), tokenB |-> Select(Val(p, "tokenB")),
            mode |-> RangeMode(p), min |-> Empty, max |-> Empty, pct |-> nearestPreset(RangeDelta(p)),
            amount |-> Text(Val(p, "amountADesired"))]
      [] t = "supply" ->
           [asset |-> Select(Val(p, "asset")), amount |-> Text(Val(p, "amount")),
            target |-> TargetText(Val(p, "targetHealthFactor"))]
      [] t = "interval" ->
           [value |-> IF Val(p, "duration") = Unset THEN Empty ELSE p.duration.value,
            unit |-> IF Val(p, "duration") = Unset THEN "days" ELSE p.duration.unit,
            start |-> Minutes(Val(p, "startTime"))]

\* Where a fresh form does not show what is stored: a token whose list has not
\* arrived.
Differs(p) == {f \in {"tokenA", "tokenB", "asset"} : ~optionsKnown /\ ~isEmpty(Val(p, f))}

\* The calls of applyPreset.
applyPreset(pct) == <<"rangeMode" :> 1, "tickDelta" :> presetTickDelta(pct)>>

\* A form is mounted; a tick-range without a width writes the one it shows.
Mount(n, t) ==
    LET p == params[n] IN
    /\ form' = [node |-> n, type |-> t] @@ Inputs(t, p)
    /\ stale' = Differs(p)
    /\ IF t = "mint" /\ RangeMode(p) = 1 /\ RangeDelta(p) <= 0
       THEN updateNodeParams(n, applyPreset(nearestPreset(RangeDelta(p))))
       ELSE UNCHANGED <<params, undoable, redoable, checkVars>>

Unmount ==
    /\ form' = NoForm
    /\ UNCHANGED <<params, undoable, redoable, checkVars, stale>>

\* Another node is selected: its description is asked for, and until it arrives
\* its form is rendered from the one at hand.  (Bound: one request of a type is
\* under way.)
select(n) ==
    /\ n # selected /\ n \notin asked /\ Act
    /\ selected' = n
    /\ asked' = asked \cup {n}
    /\ IF detail = None THEN Unmount ELSE Mount(n, detail)
    /\ UNCHANGED <<detail, optionsKnown, decimalsKnown>>

deselect ==
    /\ selected # None /\ Act
    /\ selected' = None /\ detail' = None
    /\ Unmount
    /\ UNCHANGED <<asked, optionsKnown, decimalsKnown>>

\* An answer of whichever request arrives, or its failure.
setStepTypeDetail(t) ==
    /\ t \in asked
    /\ asked' = asked \ {t}
    /\ detail' \in {t, None}
    /\ IF selected = None \/ detail' = None THEN Unmount
       ELSE IF detail' = detail THEN UNCHANGED <<form, stale, params, undoable, redoable, checkVars>>
       ELSE Mount(selected, detail')
    /\ UNCHANGED <<selected, optionsKnown, decimalsKnown, acts>>

setTokens ==
    /\ ~optionsKnown /\ Act
    /\ optionsKnown' = TRUE
    /\ UNCHANGED <<params, undoable, redoable, form, selected, detail, asked, decimalsKnown,
                   checkVars, stale>>

---------------------------------------------------------------------------
(* Inputs.                                                                  *)

Shows(t) == form # NoForm /\ form.type = t
P == params[form.node]

\* One event of an input of the form of description t: what it changes in the
\* form, the calls of onChange it makes, and why it may differ afterwards.
Input(t, inputs, calls, differs) ==
    /\ Shows(t) /\ Act
    /\ form' = inputs @@ form
    /\ updateNodeParams(form.node, calls)
    /\ stale' = differs
    /\ UNCHANGED <<selected, detail, asked, optionsKnown, decimalsKnown>>

pickToken(t, field) ==
    \E token \in Token \cup {Empty} :
        /\ optionsKnown /\ Shows(t) /\ token # form[field]
        /\ Input(t, field :> token, <<field :> token>>, (stale \ {field}) \cup {"moved"})

pickFee ==
    \E fee \in Fee :
        /\ Shows("mint") /\ fee # Val(P, "fee")
        /\ Input("mint", <<>>, <<"fee" :> fee>>, stale \cup {"moved"})

\* The two buttons and the widths.
usePreset == Input("mint", "mode" :> 1, applyPreset(form.pct), stale)

pickWidth ==
    \E pct \in PresetWidth :
        /\ Shows("mint") /\ form.mode = 1 /\ pct # form.pct
        /\ Input("mint", "pct" :> pct, applyPreset(pct), stale)

\* applyExplicit: the mode, and, as soon as both prices and both tokens are there, the ticks.
applyExplicit(inputs, min, max) ==
    LET tokenA == Val(P, "tokenA")
        tokenB == Val(P, "tokenB")
        ticks == computeExplicitTicks(min, max, tokenA, tokenB, decimalsOf(tokenA), decimalsOf(tokenB),
                                      IF Val(P, "fee") = Unset THEN 500 ELSE P.fee)
        complete == \A v \in {min, max, tokenA, tokenB} : ~isEmpty(v)
    IN IF complete
       THEN Input("mint", inputs,
                  <<"rangeMode" :> 0, "tickLower" :> ticks[1], "tickUpper" :> ticks[2]>>,
                  stale \ {"moved"})
       ELSE Input("mint", inputs, <<"rangeMode" :> 0>>, stale)

useExplicit == Shows("mint") /\ applyExplicit("mode" :> 0, form.min, form.max)

typePrice ==
    \E price \in PriceLog \cup {Empty} :
        /\ Shows("mint") /\ form.mode = 0
        /\ \/ price # form.min /\ applyExplicit("min" :> price, price, form.max)
           \/ price # form.max /\ applyExplicit("max" :> price, form.min, price)

toggleZero ==
    Shows("mint") /\ Input("mint", <<>>, <<"useZero" :> (Val(P, "useZero") # TRUE)>>, stale)

typeAmount ==
    \E v \in Typeable \cup {Empty} :
        /\ form # NoForm /\ form.type # "interval" /\ v # form.amount
        /\ \/ Val(P, "useZero") # TRUE /\ Input("mint", "amount" :> v, <<"amountADesired" :> v>>, stale)
           \/ AaveMode(P) = 0 /\ Input("supply", "amount" :> v, <<"amount" :> v>>, stale)

\* Another mode mounts its own input.
pickMode ==
    \E m \in {0, 2, 3} :
        /\ Shows("supply") /\ m # AaveMode(P)
        /\ Input("supply", [k \in {"amount", "target"} |-> Inputs("supply", P)[k]], <<"mode" :> m>>, stale)

typeTarget ==
    \E v \in {Empty, Odd, TargetFloor, TargetFloor + 1} :
        /\ Shows("supply") /\ AaveMode(P) = 3 /\ v # form.target
        /\ Input("supply", "target" :> v, <<"targetHealthFactor" :> v>>, stale)

\* commit of the duration.
typeDuration ==
    \E value \in {Empty, 0, 1, 120} :
        /\ Shows("interval") /\ value # form.value
        /\ Input("interval", "value" :> value,
                 <<"duration" :> [value |-> value, unit |-> form.unit]>>, stale)

pickUnit ==
    \E unit \in {"minutes", "hours"} :
        /\ Shows("interval") /\ unit # form.unit
        /\ Input("interval", "unit" :> unit,
                 <<"duration" :> [value |-> form.value, unit |-> unit]>>, stale)

pickStart ==
    \E start \in {Empty, 120} :
        /\ Shows("interval") /\ start # form.start
        /\ Input("interval", "start" :> start,
                 <<"startTime" :> IF start = Empty THEN Unset ELSE start>>, stale)

FormNext ==
    \/ undoParams \/ redoParams \/ runValidation \/ checkPools \/ setTokenDecimals \/ setTokens
    \/ \E n \in Node : select(n) \/ setStepTypeDetail(n)
    \/ deselect
    \/ pickToken("mint", "tokenA") \/ pickToken("mint", "tokenB") \/ pickToken("supply", "asset")
    \/ pickFee \/ usePreset \/ pickWidth \/ useExplicit \/ typePrice \/ toggleZero
    \/ typeAmount \/ pickMode \/ typeTarget
    \/ typeDuration \/ pickUnit \/ pickStart

FormSpec == FormInit /\ [][FormNext]_formVars

---------------------------------------------------------------------------

\* The Deploy button is enabled, and the validation has seen the last edit.
Deployable == ~errors /\ ~pending

\* A graph that can be deployed is encoded and let through by the backend, unless
\* the token lists have not arrived, a duration is no whole number of seconds, a
\* fixed Aave amount was emptied or a health factor was written as "2e0" - what
\* friendly validation lets pass and the encode boundary refuses (validation.ts,
\* encode-boundary.ts).
EncodesWhatIsValid ==
    Deployable /\ decimalsKnown =>
      \A n \in Node :
        \/ Accepted(n, params[n])
        \/ n = "interval" /\ toSeconds(params[n].duration) % 2 = 1
        \/ n = "supply" /\ (params[n].amount = Empty \/ params[n].targetHealthFactor = Odd)

\* A mint is deployed for a pool that exists, unless the look-up is under way
\* (use-pool-validity.ts: 400 ms after an edit, and the time of a call).
PoolsExist ==
    Deployable /\ ~checking /\ toCheck(params) => PoolExists(params["mint"])

\* Amount v of a token in its base units is raw.
Equals(v, token, raw) == raw * 10 ^ v.places = v.n * 10 ^ Decimals[token]

\* The position of a price of Token A in Token B on the tick axis of the pool.
Position(p, price) ==
    (IF p.tokenA < p.tokenB THEN 1 ELSE -1)
      * (price + (Decimals[p.tokenB] - Decimals[p.tokenA]) * Log10)

\* The range holds both prices, and no multiple of the spacing more than it must.
Covers(range, p, prices) ==
    LET at == {Position(p, price) : price \in prices}
        spacing == feeToSpacing(p.fee)
    IN /\ \A x \in at : range[1] <= x /\ x <= range[2]
       /\ \E x \in at : x < range[1] + spacing
       /\ \E x \in at : x > range[2] - spacing
       /\ range[1] % spacing = 0 /\ range[2] % spacing = 0

MintAsShown(p, raw) ==
    /\ \A f \in {"tokenA", "tokenB"} \ stale : raw[f] = form[f]
    /\ raw.mode = form.mode
    /\ form.mode = 1 => raw.range = <<presetTickDelta(form.pct)>>
    /\ form.mode = 0 /\ "moved" \notin stale /\ Empty \notin {form.min, form.max}
         => Covers(raw.range, p, {form.min, form.max})
    /\ IF p.useZero THEN raw.amount = 0
       ELSE raw.amount > 0 /\ Equals(form.amount, p.tokenA, raw.amount)

SupplyAsShown(p, raw) ==
    /\ "asset" \notin stale => raw.asset = form.asset
    /\ raw.mode = 0 => Equals(form.amount, p.asset, raw.amount)
    /\ raw.mode = 3 => raw.target = form.target

IntervalAsShown(p, raw) ==
    /\ raw.seconds = toSeconds([value |-> form.value, unit |-> form.unit])
    /\ Minutes(override(p)) = form.start

\* What the form of a deployable node shows is what the step gets: its tokens, the
\* amount in the token's own decimals, "full balance" exactly when the box is
\* ticked, the range around the typed prices in the pool's order, the width, the
\* duration, the start.  This is so unless something was undone under the form
\* (its inputs keep what was typed), the tokens, the fee or the decimals changed
\* after the prices were acts, or the form could not show what it was opened
\* over (dynamic-form.tsx, encode-boundary.ts).
FormAsShown ==
    /\ Deployable /\ decimalsKnown /\ form # NoForm
    /\ form.type = form.node /\ "undone" \notin stale
    => LET raw == mapParamsToRaw(form.node, P) IN
       Maps(raw) => CASE form.node = "mint" -> MintAsShown(P, raw)
                      [] form.node = "supply" -> SupplyAsShown(P, raw)
                      [] form.node = "interval" -> IntervalAsShown(P, raw)

FormTellsTruth == EncodesWhatIsValid /\ PoolsExist /\ FormAsShown
=============================================================================
