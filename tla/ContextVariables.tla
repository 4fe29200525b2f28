-------------------------- MODULE ContextVariables ---------------------------
(***************************************************************************)
(* The context variables of the automation editor: the names under which    *)
(* steps read and write the vault's context.  Two sources fill the list     *)
(* when the editor opens, the vault's slots and the variables stored with   *)
(* the draft; their answers arrive in any order, between the user's own     *)
(* edits, and those of an earlier visit arrive too, since nothing cancels   *)
(* them.                                                                    *)
(*                                                                          *)
(* A variable is its slot and its name; the canvas holds at most one step,  *)
(* with a field it writes and one it reads.  Saving is one step here: the   *)
(* order of its requests is EditorDraft's.                                  *)
(***************************************************************************)
EXTENDS Naturals, FiniteSets, FiniteSetsExt

CONSTANTS
    Automation,    \* the drafts of one vault
    Name,          \* names of variables
    NO_SLOT,       \* an optional field that is off
    NoName,        \* the empty text
    MaxVariables,  \* bound: slots
    MaxOpenings,   \* bound: times the editor is opened
    MaxDeeds       \* bound: edits of the user

\* NO_SLOT and the empty text are no names of variables.
ASSUME VariablesAssumption == NO_SLOT \notin Name /\ NoName \notin Name

VARIABLES
    canvas,        \* the automation the editor shows
    variables,     \* contextVariables of the store
    fields,        \* the context fields of the step on the canvas
    unsaved,       \* isDirty
    inFlight,      \* requests under way, with what they were answered
    rows,          \* editorState of the automations in the database
    vaultSlots,    \* Vault.contextSlots
    openings, deeds,
    mine,          \* history: variables the user made or renamed in this visit
    fromDraft, fromVault, \* history: what this visit's requests brought
    loose,         \* history: names in fields that were typed, or renamed since
    stray          \* history: an answer of an earlier visit was taken

storeVars == <<variables, fields, unsaved, mine, loose>>
visitVars == <<canvas, openings, fromDraft, fromVault, stray>>
serverVars == <<rows, vaultSlots>>
variablesVars == <<storeVars, visitVars, serverVars, inFlight, deeds>>

NoRow == [made |-> FALSE]
NewStep == [at |-> TRUE, output |-> NO_SLOT, input |-> NO_SLOT]
Nowhere == [at |-> FALSE]
InFields == IF fields.at THEN {fields.output, fields.input} \cap Name ELSE {}

SlotsOf(vs) == {v.slot : v \in vs}
NamesOf(vs) == {v.name : v \in vs}

\* mergeContextVariables: overlay entries win where both have a slot.
mergeContextVariables(base, overlay) ==
    overlay \cup {v \in base : v.slot \notin SlotsOf(overlay)}

\* One request is enough: the slots overwrite what is there.
mergeVaultContextSlots_Overwrites(slots) == mergeContextVariables(variables, slots)

\* The vault's slots only fill gaps.
mergeVaultContextSlots(slots) == mergeContextVariables(slots, variables)

\* The draft's variables win.
mergeEditorContextVariables(vs) == mergeContextVariables(variables, vs)

\* Counting from one instead of zero is forgotten.
nextSlot_Last(vs) == IF vs = {} THEN 0 ELSE Max(SlotsOf(vs))

nextSlot(vs) == IF vs = {} THEN 0 ELSE Max(SlotsOf(vs)) + 1

VariablesInit ==
    /\ canvas \in Automation
    /\ variables = {} /\ fields = Nowhere /\ unsaved = FALSE
    /\ inFlight = {}
    /\ rows = [a \in Automation |-> NoRow]
    /\ vaultSlots = {}
    /\ openings = 0 /\ deeds = 0
    /\ mine = {} /\ fromDraft = {} /\ fromVault = {}
    /\ loose = {}
    /\ stray = FALSE

Request(what, a) == [what |-> what, of |-> a, visit |-> openings + 1, step |-> "sent"]

\* The page mounts: the store is blanked, the slots and the draft are asked for.
openEditor(a) ==
    /\ openings < MaxOpenings
    /\ openings' = openings + 1
    /\ canvas' = a
    /\ variables' = {} /\ fields' = Nowhere /\ unsaved' = FALSE
    /\ inFlight' = inFlight \cup {Request("slots", a), Request("draft", a)}
    /\ mine' = {} /\ fromDraft' = {} /\ fromVault' = {} /\ loose' = {} /\ stray' = FALSE
    /\ UNCHANGED <<serverVars, deeds>>

\* The backend answers a request, unless it fails: nothing is asked again.
serve(r) ==
    /\ r.step = "sent"
    /\ inFlight' = (inFlight \ {r}) \cup
           {IF r.what = "slots"
            THEN [what |-> r.what, visit |-> r.visit, step |-> "got", slots |-> vaultSlots]
            ELSE [what |-> r.what, visit |-> r.visit, step |-> "got", row |-> rows[r.of]]}
    /\ UNCHANGED <<storeVars, visitVars, serverVars, deeds>>

\* An answer is taken, whichever visit asked.
Takes(r) ==
    /\ r.step = "got"
    /\ inFlight' = inFlight \ {r}
    /\ stray' = (stray \/ r.visit # openings)

takeSlots(r) ==
    /\ Takes(r) /\ r.what = "slots"
    /\ variables' = mergeVaultContextSlots(r.slots)
    /\ fromVault' = r.slots
    /\ UNCHANGED <<canvas, openings, fromDraft, serverVars, fields, unsaved, mine, loose, deeds>>

\* loadEditorState replaces the canvas and marks it clean, then the draft's
\* variables are merged; a draft that was never saved changes nothing.
takeDraft(r) ==
    /\ Takes(r) /\ r.what = "draft"
    /\ IF r.row.made
       THEN /\ variables' = mergeEditorContextVariables(r.row.variables)
            /\ fields' = r.row.fields
            /\ unsaved' = FALSE
            /\ fromDraft' = r.row.variables
            /\ mine' = {v \in mine : v.slot \notin SlotsOf(r.row.variables)}
            /\ loose' = r.row.loose
       ELSE UNCHANGED <<storeVars, fromDraft>>
    /\ UNCHANGED <<canvas, openings, fromVault, serverVars, deeds>>

\* Every edit marks the draft dirty.
Edits ==
    /\ openings > 0
    /\ deeds < MaxDeeds /\ deeds' = deeds + 1
    /\ unsaved' = TRUE
    /\ UNCHANGED <<visitVars, serverVars, inFlight>>

\* addNode, with the default of its optional fields.
addStep ==
    /\ Edits
    /\ fields = Nowhere
    /\ fields' = NewStep
    /\ UNCHANGED <<variables, mine, loose>>

Added(name) == [slot |-> nextSlot(variables), name |-> name]

\* addContextVariable, from the panel; CreateVariableInline asks for a name.
addContextVariable(name) ==
    /\ Edits
    /\ nextSlot(variables) < MaxVariables
    /\ variables' = variables \cup {Added(name)}
    /\ mine' = mine \cup {Added(name)}
    /\ UNCHANGED <<fields, loose>>

\* updateContextVariable, from the panel: any name, the empty one included.
\* The steps that use the old name keep it.
updateContextVariable(v, name) ==
    /\ Edits
    /\ LET now == [slot |-> v.slot, name |-> name] IN
       /\ variables' = (variables \ {v}) \cup {now}
       /\ mine' = (mine \ {v}) \cup {now}
    /\ loose' = loose \cup ({v.name} \cap InFields)
    /\ UNCHANGED fields

\* updateNodeParams for one field of the step.
Sets(field, value) ==
    /\ Edits
    /\ fields.at
    /\ fields' = [fields EXCEPT ![field] = value]

\* The output field: ticked, cleared (the variable is still to be chosen) or unticked.
tickOutput ==
    \E value \in {NoName, NO_SLOT} :
        Sets("output", value) /\ UNCHANGED <<variables, mine, loose>>

\* The dropdown of either field lists every variable; an output field only
\* shows it while it is ticked.
Offered(field) == field = "output" => fields.output # NO_SLOT

pick(field) ==
    /\ fields.at /\ Offered(field)
    /\ \E name \in NamesOf(variables) : Sets(field, name)
    /\ UNCHANGED <<variables, mine, loose>>

\* "Neue Variable erstellen" in the dropdown: the variable, then the field.
createInline(field, name) ==
    /\ fields.at /\ Offered(field)
    /\ nextSlot(variables) < MaxVariables
    /\ variables' = variables \cup {Added(name)}
    /\ mine' = mine \cup {Added(name)}
    /\ Sets(field, name)
    /\ UNCHANGED loose

\* An input field shows a listed name as a chip, anything else as text.
InContextMode == fields.input \in NamesOf(variables)

\* The text is taken as it is when the focus leaves it.
typeInput(text) ==
    /\ fields.at /\ ~InContextMode
    /\ Sets("input", text)
    /\ loose' = loose \cup ({text} \ {NoName})
    /\ UNCHANGED <<variables, mine>>

clearInput ==
    /\ fields.at /\ InContextMode
    /\ Sets("input", NO_SLOT)
    /\ UNCHANGED <<variables, mine, loose>>

\* useAutoSave stores the store's content under the id of this page.
saveDraft ==
    /\ unsaved
    /\ rows' = [rows EXCEPT ![canvas] =
           [made |-> TRUE, variables |-> variables, fields |-> fields, loose |-> loose]]
    /\ unsaved' = FALSE
    /\ UNCHANGED <<variables, fields, mine, loose, visitVars, vaultSlots, inFlight, deeds>>

\* allocateSlots, as some automation of the vault is deployed.
allocateSlots(name) ==
    /\ name \notin NamesOf(vaultSlots)
    /\ nextSlot(vaultSlots) < MaxVariables
    /\ vaultSlots' = vaultSlots \cup {[slot |-> nextSlot(vaultSlots), name |-> name]}
    /\ UNCHANGED <<storeVars, visitVars, rows, inFlight, deeds>>

VariablesNext ==
    \/ \E a \in Automation : openEditor(a)
    \/ \E r \in inFlight : serve(r) \/ takeSlots(r) \/ takeDraft(r)
    \/ addStep \/ tickOutput \/ clearInput \/ saveDraft
    \/ \E n \in Name :
           \/ addContextVariable(n) \/ typeInput(n) \/ allocateSlots(n)
           \/ \E field \in {"output", "input"} : createInline(field, n)
    \/ typeInput(NoName)
    \/ \E v \in variables, n \in Name \cup {NoName} : v.name # n /\ updateContextVariable(v, n)
    \/ \E field \in {"output", "input"} : pick(field)

VariablesSpec == VariablesInit /\ [][VariablesNext]_variablesVars

\* Both load paths run while the user already works, and the outcome must not
\* depend on which answer comes first (editor-store.ts, lines 139 to 141): the
\* user's variables come first, then the draft's, then the vault's, and no
\* slot has two names.  Left out are answers of an earlier visit, which the
\* store takes as its own.
MergedInAnyOrder ==
    ~stray => variables = mergeContextVariables(mergeContextVariables(fromVault, fromDraft), mine)

OneNamePerSlot == Cardinality(SlotsOf(variables)) = Cardinality(variables)

\* A step's field never names a variable the editor does not list, unless the
\* name was typed by hand or the variable renamed since: what was picked or
\* created in a field survives loading, saving and opening again, answers of
\* an earlier visit included.
FieldsListed == InFields \subseteq NamesOf(variables) \cup loose

VariablesKept == MergedInAnyOrder /\ OneNamePerSlot /\ FieldsListed
=============================================================================
