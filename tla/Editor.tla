------------------------------- MODULE Editor -------------------------------
(***************************************************************************)
(* The automation editor as its user sees it: the draft on the canvas with  *)
(* its undo history (EditorDraft) and the context variables its steps name  *)
(* (ContextVariables).  The two share no state; each steps on its own.      *)
(***************************************************************************)
EXTENDS EditorDraft, ContextVariables

BothSpec == EditorSpec /\ VariablesSpec

\* What the user did in the editor is kept, as far as the code keeps it: a clean
\* draft is stored unless an older PATCH overtook it, a dirty one has its save
\* ahead (use-auto-save.ts), and loads in any order neither displace a context
\* variable nor leave a field naming none (editor-store.ts, 132-151).
EditorKeepsWork == CleanMeansStored /\ DirtyGetsSaved /\ VariablesKept
=============================================================================
