---------------------------- MODULE EditorDraft -----------------------------
(***************************************************************************)
(* The automation editor's store and its copy in the database.  Edits mark  *)
(* the draft dirty and (re)start a timer; when it fires, the whole draft is *)
(* sent; the answer marks it clean.  Opening the editor blanks the store    *)
(* and loads the draft, leaving it only stops the timer, and answers that   *)
(* are still on their way arrive later, in any order.                       *)
(*                                                                         *)
(* A draft is a number: every edit makes a new one, 0 is the blank canvas.  *)
(***************************************************************************)
EXTENDS Naturals, Sequences, FiniteSets

CONSTANTS
    Slot,         \* requests under way at the same time
    MaxHistory,   \* MAX_HISTORY: snapshots kept for undo
    MaxEdits,     \* bound: drafts made
    MaxVisits     \* bound: times the editor is opened

ASSUME EditorAssumption ==
    MaxHistory \in Nat /\ MaxEdits \in Nat /\ MaxVisits \in Nat

VARIABLES
    mounted,    \* the editor is on the screen
    draft,      \* nodes, edges, label and variables of the store
    past,       \* undo snapshots
    future,     \* redo snapshots
    isDirty,
    timer,      \* the auto-save timer runs
    loading,    \* the load of this visit: what the backend answered, if it did
    stored,     \* editorState in the database
    patches,    \* PATCH requests under way
    edits, visits,
    raced,      \* history: the draft changed while a PATCH was under way
    refused     \* history: the PATCH that carried this draft failed

editorVars == <<mounted, draft, past, future, isDirty, timer, loading, stored, patches,
                edits, visits, raced, refused>>
loadVars == <<mounted, loading, visits>>
undoVars == <<past, future>>

Version == 0 .. MaxEdits
Unused == [step |-> "unused"]
NoLoad == [step |-> "no", value |-> 0]

EditorTypeOK ==
    /\ mounted \in BOOLEAN /\ isDirty \in BOOLEAN /\ timer \in BOOLEAN /\ raced \in BOOLEAN
    /\ refused \in BOOLEAN
    /\ draft \in Version /\ stored \in Version
    /\ past \in Seq(Version) /\ Len(past) <= MaxHistory
    /\ future \in Seq(Version)
    /\ loading \in [step : {"no", "asked", "got"}, value : Version]
    /\ patches \in [Slot -> [step : {"sent", "stored", "failed"}, body : Version, auto : BOOLEAN]
                            \cup {Unused}]
    /\ edits \in 0 .. MaxEdits /\ visits \in 0 .. MaxVisits

EditorInit ==
    /\ mounted = FALSE
    /\ draft = 0 /\ stored = 0
    /\ past = <<>> /\ future = <<>>
    /\ isDirty = FALSE /\ timer = FALSE
    /\ loading = NoLoad
    /\ patches = [s \in Slot |-> Unused]
    /\ edits = 0 /\ visits = 0
    /\ raced = FALSE /\ refused = FALSE

UnderWay == \E s \in Slot : patches[s] # Unused

\* The page mounts: the store is blanked and GET is sent.
open ==
    /\ ~mounted /\ visits < MaxVisits
    /\ mounted' = TRUE
    /\ visits' = visits + 1
    /\ loading' = [NoLoad EXCEPT !.step = "asked"]
    /\ draft' = 0
    /\ past' = <<>> /\ future' = <<>>
    /\ isDirty' = FALSE /\ timer' = FALSE
    /\ raced' = UnderWay /\ refused' = FALSE
    /\ UNCHANGED <<stored, patches, edits>>

\* The backend reads the row.
read ==
    /\ loading.step = "asked"
    /\ loading' = [step |-> "got", value |-> stored]
    /\ raced' = (raced \/ UnderWay)
    /\ UNCHANGED <<mounted, draft, undoVars, isDirty, timer, stored, patches, edits, visits,
                   refused>>

\* The answer arrives: loadEditorState replaces whatever is on the canvas.
loadEditorState ==
    /\ loading.step = "got"
    /\ mounted
    /\ draft' = loading.value
    /\ past' = <<>> /\ future' = <<>>
    /\ isDirty' = FALSE /\ timer' = FALSE
    /\ loading' = NoLoad
    /\ raced' = (raced \/ UnderWay \/ loading.value # stored)
    /\ refused' = FALSE
    /\ UNCHANGED <<mounted, stored, patches, edits, visits>>

\* The load fails silently: the canvas stays as it is.
loadFails ==
    /\ loading.step # "no"
    /\ loading' = NoLoad
    /\ UNCHANGED <<mounted, draft, undoVars, isDirty, timer, stored, patches, edits, visits,
                   raced, refused>>

\* Mutant: the timer starts when the draft gets dirty, and not with every change.
Dirty_Once(d) ==
    /\ mounted
    /\ draft' = d
    /\ isDirty' = TRUE /\ timer' = (timer \/ ~isDirty)
    /\ raced' = UnderWay /\ refused' = FALSE
    /\ UNCHANGED <<loadVars, stored, patches>>

\* isDirty is set, and the effect of useAutoSave restarts the timer.
Dirty(d) ==
    /\ mounted
    /\ draft' = d
    /\ isDirty' = TRUE /\ timer' = TRUE
    /\ raced' = UnderWay /\ refused' = FALSE
    /\ UNCHANGED <<loadVars, stored, patches>>

New(d) == edits < MaxEdits /\ edits' = edits + 1 /\ d = edits + 1

Snapshots(d) ==
    LET all == Append(past, d) IN IF Len(all) > MaxHistory THEN Tail(all) ELSE all

\* addNode, onConnect, removeSelected, updateNodeParams, paste, applyAutoLayout:
\* a snapshot, then the change.
edit ==
    \E d \in Version :
        /\ New(d) /\ Dirty(d)
        /\ past' = Snapshots(draft) /\ future' = <<>>

\* The end of a drag: the change, then a snapshot of its result.
drag ==
    \E d \in Version :
        /\ New(d) /\ Dirty(d)
        /\ past' = Snapshots(d) /\ future' = <<>>

\* setLabel, setDescription, context variables: no snapshot.
rename ==
    \E d \in Version : New(d) /\ Dirty(d) /\ UNCHANGED undoVars

undo ==
    /\ past # <<>>
    /\ Dirty(past[Len(past)])
    /\ past' = SubSeq(past, 1, Len(past) - 1)
    /\ future' = Append(future, draft)
    /\ UNCHANGED edits

redo ==
    /\ future # <<>>
    /\ Dirty(future[Len(future)])
    /\ future' = SubSeq(future, 1, Len(future) - 1)
    /\ past' = Append(past, draft)
    /\ UNCHANGED edits

Sends(s, auto) ==
    /\ patches[s] = Unused
    /\ patches' = [patches EXCEPT ![s] = [step |-> "sent", body |-> draft, auto |-> auto]]

\* save, when the timer fires.
save(s) ==
    /\ timer
    /\ timer' = FALSE
    /\ Sends(s, TRUE)
    /\ UNCHANGED <<loadVars, undoVars, draft, isDirty, stored, edits, raced, refused>>

\* handleDeploy stores the draft, too, and looks at no answer.
handleDeploy(s) ==
    /\ mounted
    /\ Sends(s, FALSE)
    /\ UNCHANGED <<loadVars, undoVars, draft, isDirty, timer, stored, edits, raced, refused>>

\* The backend handles requests in any order, or fails.
update(s) ==
    /\ patches[s] # Unused /\ patches[s].step = "sent"
    /\ stored' = patches[s].body
    /\ patches' = [patches EXCEPT ![s].step = "stored"]
    /\ UNCHANGED <<loadVars, undoVars, draft, isDirty, timer, edits, raced, refused>>

updateFails(s) ==
    /\ patches[s] # Unused /\ patches[s].step = "sent"
    /\ patches' = [patches EXCEPT ![s].step = "failed"]
    /\ UNCHANGED <<loadVars, undoVars, draft, isDirty, timer, stored, edits, raced, refused>>

\* Every answer counts as saved.
Cleans_Always(p) == p.auto

\* setSaveStatus: "saved" marks the store clean; "error" leaves it dirty.
Cleans(p) == p.auto /\ p.step = "stored"

\* The answer arrives; a clean store's effect stops the timer.
answer(s) ==
    /\ patches[s] # Unused /\ patches[s].step # "sent"
    /\ isDirty' = (isDirty /\ ~Cleans(patches[s]))
    /\ timer' = (timer /\ ~Cleans(patches[s]))
    /\ patches' = [patches EXCEPT ![s] = Unused]
    /\ refused' = (refused \/ (patches[s].auto /\ patches[s].step = "failed" /\ patches[s].body = draft))
    /\ UNCHANGED <<loadVars, undoVars, draft, stored, edits, raced>>

\* The page unmounts; "Save on unmount" stops the timers.
leave ==
    /\ mounted
    /\ mounted' = FALSE
    /\ timer' = FALSE
    /\ loading' = NoLoad
    /\ UNCHANGED <<draft, undoVars, isDirty, stored, patches, edits, visits, raced, refused>>

EditorNext ==
    \/ open \/ read \/ loadEditorState \/ loadFails \/ leave
    \/ edit \/ drag \/ rename \/ undo \/ redo
    \/ \E s \in Slot : save(s) \/ handleDeploy(s) \/ update(s) \/ updateFails(s) \/ answer(s)

EditorSpec == EditorInit /\ [][EditorNext]_editorVars

\* A clean draft of an open editor is the one in the database, if its load has
\* succeeded and it was neither changed nor loaded while a PATCH was under way.
\* In that case the editor may well show as saved what is not: an answer marks
\* the store clean whatever it carried (use-auto-save.ts, line 33).
CleanMeansStored ==
    mounted /\ ~isDirty /\ ~raced /\ (draft # 0 \/ stored = 0) => draft = stored

\* A dirty draft of an open editor has its save ahead of it, however edits and
\* answers interleave: the timer runs, or the PATCH the timer sent carries just
\* this draft, or that PATCH has failed, after which only a further change tries
\* again (use-auto-save.ts, lines 41-49).
DirtyGetsSaved ==
    mounted /\ isDirty =>
        \/ timer \/ refused
        \/ \E s \in Slot : patches[s] # Unused /\ patches[s].auto /\ patches[s].body = draft

\* What the comment over the unmount effect says (use-auto-save.ts, line 51):
\* "Save on unmount if dirty".
SavedOnUnmount ==
    [][mounted /\ ~mounted' /\ isDirty =>
         \E s \in Slot : patches'[s] # Unused /\ patches'[s].body = draft]_editorVars
=============================================================================
