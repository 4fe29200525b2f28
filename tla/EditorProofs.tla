---------------------------- MODULE EditorProofs ----------------------------
(***************************************************************************)
(* The editor keeps what its user did, for any number of requests under     *)
(* way, edits, visits, drafts and names.                                    *)
(***************************************************************************)
EXTENDS Editor, FiniteSetTheorems, SequenceTheorems, TLAPS

-----------------------------------------------------------------------------
(* The draft and its copy in the database. *)

Patch == [step : {"sent", "stored", "failed"}, body : Version, auto : BOOLEAN]

\* Only the page on the screen loads or waits to save.
OnScreen == timer \/ loading.step # "no" => mounted

\* Unless an edit overtook it, a PATCH under way carries the draft shown, and
\* is in the database once it has been stored.
PatchesCurrent ==
    mounted /\ ~raced =>
        \A s \in Slot : patches[s] # Unused =>
            /\ patches[s].body = draft
            /\ patches[s].step = "stored" => stored = draft

\* Undoing and redoing only move snapshots from one list to the other.
HistoryBounded == Len(past) + Len(future) <= MaxHistory

DraftInv ==
    /\ EditorTypeOK
    /\ HistoryBounded
    /\ OnScreen
    /\ PatchesCurrent
    /\ CleanMeansStored
    /\ DirtyGetsSaved

\* A record of a PATCH is never the mark of a free slot.
LEMMA PatchUsed ==
    ASSUME NEW p \in Patch \cup {Unused}
    PROVE  p # Unused <=> p \in Patch
<1>1. Unused.step = "unused" /\ \A q \in Patch : q.step \in {"sent", "stored", "failed"}
  BY DEF Patch, Unused
<1> QED BY <1>1

\* What a change of the canvas leaves: a dirty draft, whose PATCHes are none.
LEMMA DirtyKeeps ==
    ASSUME DraftInv, NEW d \in Version, Dirty(d),
           past' \in Seq(Version), future' \in Seq(Version),
           Len(past') + Len(future') <= MaxHistory,
           edits' \in 0 .. MaxEdits
    PROVE  DraftInv'
<1>1. Len(past') <= MaxHistory
  <2>1. Len(past') \in Nat /\ Len(future') \in Nat
    OBVIOUS
  <2> QED BY <2>1, EditorAssumption
<1>2. EditorTypeOK'
  BY <1>1 DEF DraftInv, EditorTypeOK, Dirty, loadVars, UnderWay
<1>3. HistoryBounded' /\ OnScreen' /\ CleanMeansStored' /\ DirtyGetsSaved'
  BY DEF DraftInv, HistoryBounded, OnScreen, Dirty, loadVars, CleanMeansStored, DirtyGetsSaved
<1>4. PatchesCurrent'
  BY DEF Dirty, UnderWay, PatchesCurrent
<1> QED BY <1>2, <1>3, <1>4 DEF DraftInv

\* The snapshots after one more: the oldest goes when there are too many.
LEMMA SnapshotsBounded ==
    ASSUME DraftInv, NEW d \in Version
    PROVE  Snapshots(d) \in Seq(Version) /\ Len(Snapshots(d)) <= MaxHistory
<1> DEFINE all == Append(past, d)
<1>1. past \in Seq(Version) /\ Len(past) <= MaxHistory /\ MaxHistory \in Nat
  BY EditorAssumption DEF DraftInv, EditorTypeOK
<1>2. all \in Seq(Version) /\ Len(all) = Len(past) + 1
  BY <1>1
<1>3. Tail(all) \in Seq(Version) /\ Len(Tail(all)) = Len(all) - 1
  <2> HIDE DEF all
  <2>1. all # <<>>
    BY <1>1, <1>2, EmptySeq
  <2> QED BY <1>2, <2>1, HeadTailProperties
<1> QED
  <2> HIDE DEF all
  <2>1. Len(past) \in Nat
    BY <1>1
  <2>2. Snapshots(d) = IF Len(all) > MaxHistory THEN Tail(all) ELSE all
    BY DEF Snapshots, all
  <2> QED BY <1>1, <1>2, <1>3, <2>1, <2>2

\* Taking the last of a list of snapshots.
LEMMA LastTaken ==
    ASSUME NEW list \in Seq(Version), list # <<>>
    PROVE  /\ list[Len(list)] \in Version
           /\ SubSeq(list, 1, Len(list) - 1) \in Seq(Version)
           /\ Len(SubSeq(list, 1, Len(list) - 1)) = Len(list) - 1
<1>1. Len(list) \in Nat \ {0}
  BY EmptySeq
<1>2. list[Len(list)] \in Version
  BY <1>1, ElementOfSeq
<1>3. \A i \in 1 .. Len(list) - 1 : list[i] \in Version
  BY <1>1, ElementOfSeq
<1> DEFINE front == SubSeq(list, 1, Len(list) - 1)
<1>4. Len(list) - 1 \in Nat /\ 1 <= Len(list) - 1 + 1
  BY <1>1
<1>5. front \in Seq(Version) /\ Len(front) = Len(list) - 1
  <2> DEFINE last == Len(list) - 1
  <2>1. last \in Int /\ 1 \in Int /\ \A i \in 1 .. last : list[i] \in Version
    BY <1>1, <1>3
  <2> HIDE DEF last
  <2>2. SubSeq(list, 1, last) \in Seq(Version)
        /\ Len(SubSeq(list, 1, last)) = IF 1 <= last THEN last - 1 + 1 ELSE 0
    BY <2>1, SubSeqProperties
  <2>3. 0 <= last
    BY <1>4 DEF last
  <2>4. Len(SubSeq(list, 1, last)) = last
    BY <2>1, <2>2, <2>3
  <2> QED BY <2>2, <2>4 DEF last
<1> QED BY <1>2, <1>5

LEMMA EditKeeps ==
    ASSUME DraftInv, edit \/ drag \/ rename
    PROVE  DraftInv'
<1>1. PICK d \in Version : New(d) /\ Dirty(d) /\
          \/ past' = Snapshots(draft) /\ future' = <<>>
          \/ past' = Snapshots(d) /\ future' = <<>>
          \/ UNCHANGED undoVars
  BY DEF edit, drag, rename
<1>2. edits' \in 0 .. MaxEdits
  BY <1>1, EditorAssumption DEF New, DraftInv, EditorTypeOK
<1>3. draft \in Version
  BY DEF DraftInv, EditorTypeOK
<1>4. CASE future' = <<>> /\ \E e \in Version : past' = Snapshots(e)
  <2>1. past' \in Seq(Version) /\ Len(past') <= MaxHistory
    BY <1>4, SnapshotsBounded
  <2>2. future' \in Seq(Version) /\ Len(future') = 0
    BY <1>4
  <2>3. Len(past') + Len(future') <= MaxHistory
    BY <2>1, <2>2, EditorAssumption
  <2> QED BY <1>1, <1>2, <2>1, <2>2, <2>3, DirtyKeeps
<1>5. CASE UNCHANGED undoVars
  <2>1. past' \in Seq(Version) /\ future' \in Seq(Version) /\ Len(past') + Len(future') <= MaxHistory
    BY <1>5 DEF undoVars, DraftInv, EditorTypeOK, HistoryBounded
  <2> QED BY <1>1, <1>2, <2>1, DirtyKeeps
<1> QED BY <1>1, <1>3, <1>4, <1>5

LEMMA UndoKeeps ==
    ASSUME DraftInv, undo \/ redo
    PROVE  DraftInv'
<1>1. /\ past \in Seq(Version) /\ future \in Seq(Version) /\ draft \in Version
      /\ edits \in 0 .. MaxEdits /\ Len(past) + Len(future) <= MaxHistory
  BY DEF DraftInv, EditorTypeOK, HistoryBounded
<1>2. ASSUME NEW f \in Seq(Version) PROVE /\ Append(f, draft) \in Seq(Version)
                                          /\ Len(Append(f, draft)) = Len(f) + 1
                                          /\ Len(f) \in Nat
  BY <1>1
<1>3. CASE undo
  <2>1. past # <<>> /\ Dirty(past[Len(past)]) /\ past' = SubSeq(past, 1, Len(past) - 1)
        /\ future' = Append(future, draft) /\ edits' = edits
    BY <1>3 DEF undo
  <2>2. past[Len(past)] \in Version /\ past' \in Seq(Version) /\ Len(past') = Len(past) - 1
    BY <1>1, <2>1, LastTaken
  <2>3. future' \in Seq(Version) /\ Len(future') = Len(future) + 1
    BY <1>1, <1>2, <2>1
  <2>4. Len(past') + Len(future') <= MaxHistory
    BY <1>1, <1>2, <2>2, <2>3, EditorAssumption
  <2> QED BY <1>1, <2>1, <2>2, <2>3, <2>4, DirtyKeeps
<1>4. CASE redo
  <2>1. future # <<>> /\ Dirty(future[Len(future)]) /\ future' = SubSeq(future, 1, Len(future) - 1)
        /\ past' = Append(past, draft) /\ edits' = edits
    BY <1>4 DEF redo
  <2>2. future[Len(future)] \in Version /\ future' \in Seq(Version) /\ Len(future') = Len(future) - 1
    BY <1>1, <2>1, LastTaken
  <2>3. past' \in Seq(Version) /\ Len(past') = Len(past) + 1
    BY <1>1, <1>2, <2>1
  <2>4. Len(past') + Len(future') <= MaxHistory
    BY <1>1, <1>2, <2>2, <2>3, EditorAssumption
  <2> QED BY <1>1, <2>1, <2>2, <2>3, <2>4, DirtyKeeps
<1> QED BY <1>3, <1>4

\* The screen opens blank, or shows what a load brought.
LEMMA LoadKeeps ==
    ASSUME DraftInv, open \/ read \/ loadEditorState \/ loadFails \/ leave
    PROVE  DraftInv'
<1>0. /\ MaxHistory \in Nat /\ MaxEdits \in Nat /\ MaxVisits \in Nat /\ 0 \in Version
      /\ <<>> \in Seq(Version) /\ Len(<<>>) = 0
  BY EditorAssumption DEF Version
<1> USE <1>0
<1>1. CASE open
  <2>1. EditorTypeOK'
    <3>1. loading' = [step |-> "asked", value |-> 0] /\ visits' \in 0 .. MaxVisits
      BY <1>1 DEF open, NoLoad, DraftInv, EditorTypeOK
    <3>2. raced' \in BOOLEAN /\ isDirty' \in BOOLEAN /\ timer' \in BOOLEAN /\ mounted' \in BOOLEAN
          /\ refused' \in BOOLEAN
      BY <1>1 DEF open, UnderWay
    <3>3. past' \in Seq(Version) /\ Len(past') <= MaxHistory /\ future' \in Seq(Version)
      BY <1>1 DEF open
    <3>4. loading' \in [step : {"no", "asked", "got"}, value : Version]
      BY <3>1
    <3>5. draft' \in Version /\ UNCHANGED <<stored, patches, edits>>
      BY <1>1 DEF open
    <3> QED BY <3>1, <3>2, <3>3, <3>4, <3>5 DEF DraftInv, EditorTypeOK
  <2>2. HistoryBounded' /\ OnScreen' /\ CleanMeansStored' /\ DirtyGetsSaved'
    BY <1>1 DEF open, DraftInv, HistoryBounded, OnScreen, CleanMeansStored, DirtyGetsSaved
  <2>3. PatchesCurrent'
    BY <1>1 DEF open, UnderWay, PatchesCurrent
  <2> QED BY <2>1, <2>2, <2>3 DEF DraftInv
<1>2. CASE read
  <2>1. EditorTypeOK'
    BY <1>2 DEF read, DraftInv, EditorTypeOK, undoVars, UnderWay
  <2>2. HistoryBounded' /\ OnScreen' /\ CleanMeansStored' /\ DirtyGetsSaved'
    BY <1>2 DEF read, undoVars, DraftInv, HistoryBounded, OnScreen, CleanMeansStored, DirtyGetsSaved
  <2>3. PatchesCurrent'
    BY <1>2 DEF read, UnderWay, PatchesCurrent, DraftInv
  <2> QED BY <2>1, <2>2, <2>3 DEF DraftInv
<1>3. CASE loadEditorState
  <2>1. EditorTypeOK'
    <3>1. loading' = [step |-> "no", value |-> 0] /\ draft' \in Version
      BY <1>3 DEF loadEditorState, NoLoad, DraftInv, EditorTypeOK
    <3>2. raced' \in BOOLEAN /\ isDirty' \in BOOLEAN /\ timer' \in BOOLEAN /\ mounted' \in BOOLEAN
          /\ refused' \in BOOLEAN
      BY <1>3 DEF loadEditorState, DraftInv, EditorTypeOK
    <3> QED BY <1>3, <3>1, <3>2 DEF loadEditorState, DraftInv, EditorTypeOK
  <2>2. HistoryBounded' /\ OnScreen'
    BY <1>3 DEF loadEditorState, DraftInv, HistoryBounded, OnScreen, NoLoad
  <2>4. CleanMeansStored' /\ DirtyGetsSaved'
    BY <1>3 DEF loadEditorState, CleanMeansStored, DirtyGetsSaved
  <2>3. PatchesCurrent'
    BY <1>3 DEF loadEditorState, UnderWay, PatchesCurrent
  <2> QED BY <2>1, <2>2, <2>3, <2>4 DEF DraftInv
<1>4. CASE loadFails
  <2>1. EditorTypeOK'
    BY <1>4 DEF loadFails, DraftInv, EditorTypeOK, undoVars, NoLoad
  <2>2. HistoryBounded' /\ OnScreen' /\ CleanMeansStored' /\ PatchesCurrent' /\ DirtyGetsSaved'
    BY <1>4 DEF loadFails, undoVars, NoLoad, DraftInv, HistoryBounded, OnScreen, CleanMeansStored,
                PatchesCurrent, DirtyGetsSaved
  <2> QED BY <2>1, <2>2 DEF DraftInv
<1>5. CASE leave
  <2>1. EditorTypeOK'
    BY <1>5 DEF leave, DraftInv, EditorTypeOK, undoVars, NoLoad
  <2>2. HistoryBounded' /\ OnScreen' /\ CleanMeansStored' /\ PatchesCurrent' /\ DirtyGetsSaved'
    BY <1>5 DEF leave, undoVars, NoLoad, DraftInv, HistoryBounded, OnScreen, CleanMeansStored,
                PatchesCurrent, DirtyGetsSaved
  <2> QED BY <2>1, <2>2 DEF DraftInv
<1> QED BY <1>1, <1>2, <1>3, <1>4, <1>5

\* A PATCH is sent with the draft shown, stored or refused, and answered.
LEMMA PatchKeeps ==
    ASSUME DraftInv, NEW s \in Slot,
           save(s) \/ handleDeploy(s) \/ update(s) \/ updateFails(s) \/ answer(s)
    PROVE  DraftInv'
<1>1. patches \in [Slot -> Patch \cup {Unused}] /\ draft \in Version /\ stored \in Version
  BY DEF DraftInv, EditorTypeOK, Patch
<1>2. \A t \in Slot : patches[t] # Unused => patches[t] \in Patch
  BY <1>1
<1>3. ASSUME NEW auto \in BOOLEAN, Sends(s, auto), mounted,
             UNCHANGED <<loadVars, undoVars, draft, isDirty, stored, edits, raced, refused>>,
             timer' \in {timer, FALSE}, ~auto => timer' = timer
      PROVE  DraftInv'
  <2> DEFINE p == [step |-> "sent", body |-> draft, auto |-> auto]
  <2>1. p \in Patch /\ p.body = draft /\ p.step = "sent" /\ p.auto = auto
    BY <1>1, <1>3 DEF Patch
  <2>2. patches' = [patches EXCEPT ![s] = p]
    BY <1>3 DEF Sends
  <2> HIDE DEF p
  <2>3. EditorTypeOK'
    BY <1>1, <1>3, <2>1, <2>2 DEF DraftInv, EditorTypeOK, loadVars, undoVars, Patch
  <2>4. HistoryBounded' /\ OnScreen' /\ CleanMeansStored'
    BY <1>3 DEF loadVars, undoVars, DraftInv, HistoryBounded, OnScreen, CleanMeansStored
  <2>5. PatchesCurrent'
    BY <1>1, <1>3, <2>1, <2>2 DEF loadVars, DraftInv, PatchesCurrent
  <2>6. DirtyGetsSaved'
    <3>1. patches'[s] = p /\ \A t \in Slot \ {s} : patches'[t] = patches[t]
      BY <1>1, <2>2
    <3>2. p # Unused /\ patches[s] = Unused
      BY <1>3, <2>1, PatchUsed DEF Sends
    <3> QED BY <1>3, <2>1, <3>1, <3>2 DEF loadVars, DraftInv, DirtyGetsSaved
  <2> QED BY <2>3, <2>4, <2>5, <2>6 DEF DraftInv
<1>4. CASE save(s)
  BY <1>3, <1>4 DEF save, DraftInv, OnScreen
<1>5. CASE handleDeploy(s)
  BY <1>3, <1>5 DEF handleDeploy
<1>6. CASE update(s)
  <2>1. /\ patches[s] \in Patch /\ stored' = patches[s].body
        /\ patches' = [patches EXCEPT ![s].step = "stored"]
        /\ UNCHANGED <<loadVars, undoVars, draft, isDirty, timer, edits, raced, refused>>
    BY <1>2, <1>6 DEF update
  <2>2. /\ patches' \in [Slot -> Patch \cup {Unused}] /\ patches'[s] \in Patch
        /\ patches'[s].body = patches[s].body /\ patches'[s].auto = patches[s].auto
        /\ \A t \in Slot \ {s} : patches'[t] = patches[t]
    BY <1>1, <2>1 DEF Patch
  <2>3. stored' \in Version
    BY <2>1 DEF Patch
  <2>4. EditorTypeOK'
    BY <2>1, <2>2, <2>3 DEF DraftInv, EditorTypeOK, loadVars, undoVars, Patch
  <2>5. mounted /\ ~raced => stored' = draft
    BY <1>6, <2>1 DEF update, DraftInv, PatchesCurrent
  <2>6. HistoryBounded' /\ OnScreen' /\ CleanMeansStored'
    BY <2>1, <2>5 DEF loadVars, undoVars, DraftInv, HistoryBounded, OnScreen, CleanMeansStored
  <2>7. PatchesCurrent'
    BY <1>6, <2>1, <2>2, <2>5 DEF update, loadVars, DraftInv, PatchesCurrent
  <2>8. DirtyGetsSaved'
    <3>1. patches'[s] # Unused
      BY <1>1, <2>2, PatchUsed
    <3> QED BY <2>1, <2>2, <3>1 DEF loadVars, DraftInv, DirtyGetsSaved
  <2> QED BY <2>4, <2>6, <2>7, <2>8 DEF DraftInv
<1>7. CASE updateFails(s)
  <2>1. /\ patches[s] \in Patch
        /\ patches' = [patches EXCEPT ![s].step = "failed"]
        /\ UNCHANGED <<loadVars, undoVars, draft, isDirty, timer, stored, edits, raced, refused>>
    BY <1>2, <1>7 DEF updateFails
  <2>2. /\ patches' \in [Slot -> Patch \cup {Unused}]
        /\ patches'[s].body = patches[s].body /\ patches'[s].step = "failed"
        /\ patches'[s] \in Patch /\ patches'[s].auto = patches[s].auto
        /\ \A t \in Slot \ {s} : patches'[t] = patches[t]
    BY <1>1, <2>1 DEF Patch
  <2>3. EditorTypeOK'
    BY <2>1, <2>2 DEF DraftInv, EditorTypeOK, loadVars, undoVars, Patch
  <2>4. HistoryBounded' /\ OnScreen' /\ CleanMeansStored'
    BY <2>1 DEF loadVars, undoVars, DraftInv, HistoryBounded, OnScreen, CleanMeansStored
  <2>5. PatchesCurrent'
    BY <1>7, <2>1, <2>2 DEF updateFails, loadVars, DraftInv, PatchesCurrent
  <2>6. DirtyGetsSaved'
    <3>1. patches'[s] # Unused
      BY <1>1, <2>2, PatchUsed
    <3> QED BY <2>1, <2>2, <3>1 DEF loadVars, DraftInv, DirtyGetsSaved
  <2> QED BY <2>3, <2>4, <2>5, <2>6 DEF DraftInv
<1>8. CASE answer(s)
  <2>1. /\ patches[s] \in Patch
        /\ isDirty' = (isDirty /\ ~Cleans(patches[s])) /\ timer' = (timer /\ ~Cleans(patches[s]))
        /\ patches' = [patches EXCEPT ![s] = Unused]
        /\ refused' = (refused \/ (patches[s].auto /\ patches[s].step = "failed"
                                     /\ patches[s].body = draft))
        /\ UNCHANGED <<loadVars, undoVars, draft, stored, edits, raced>>
    BY <1>2, <1>8 DEF answer
  <2>2. EditorTypeOK'
    BY <1>1, <2>1 DEF DraftInv, EditorTypeOK, loadVars, undoVars, Patch
  <2>3. HistoryBounded' /\ OnScreen'
    BY <2>1 DEF loadVars, undoVars, DraftInv, HistoryBounded, OnScreen
  <2>4. PatchesCurrent'
    BY <1>1, <2>1 DEF loadVars, DraftInv, PatchesCurrent
  <2>5. CleanMeansStored'
    <3>1. UNCHANGED <<mounted, raced, draft, stored>>
      BY <2>1 DEF loadVars
    <3>2. CASE Cleans(patches[s])
      <4>1. patches[s].step = "stored" /\ patches[s] # Unused
        BY <1>8, <3>2 DEF Cleans, answer
      <4>2. mounted /\ ~raced => stored = draft
        BY <4>1 DEF DraftInv, PatchesCurrent
      <4> QED BY <3>1, <4>2 DEF CleanMeansStored
    <3>3. CASE ~Cleans(patches[s])
      <4>1. isDirty' = isDirty
        BY <2>1, <3>3 DEF DraftInv, EditorTypeOK
      <4> QED BY <3>1, <4>1 DEF CleanMeansStored, DraftInv
    <3> QED BY <3>2, <3>3
  <2>6. DirtyGetsSaved'
    <3>1. patches[s].step # "sent" /\ patches[s].step \in {"sent", "stored", "failed"}
      BY <1>8, <2>1 DEF answer, Patch
    <3>2. CASE ~isDirty'
      BY <3>2 DEF DirtyGetsSaved
    <3>3. CASE isDirty'
      <4>1. isDirty /\ ~Cleans(patches[s]) /\ timer' = timer
        BY <2>1, <3>3 DEF DraftInv, EditorTypeOK
      <4>2. \A t \in Slot \ {s} : patches'[t] = patches[t]
        BY <1>1, <2>1
      <4>3. patches[s].auto => patches[s].step = "failed"
        BY <3>1, <4>1 DEF Cleans
      <4> QED BY <2>1, <4>1, <4>2, <4>3 DEF loadVars, DraftInv, DirtyGetsSaved
    <3> QED BY <3>2, <3>3
  <2> QED BY <2>2, <2>3, <2>4, <2>5, <2>6 DEF DraftInv
<1> QED BY <1>4, <1>5, <1>6, <1>7, <1>8

\* The draft shown as saved is the one in the database, always.
LEMMA DraftStays == EditorSpec => []DraftInv
<1>1. EditorInit => DraftInv
  <2>1. ASSUME EditorInit PROVE EditorTypeOK
    <3>1. 0 \in Version /\ <<>> \in Seq(Version) /\ Len(<<>>) = 0
      BY EditorAssumption DEF Version
    <3>2. loading = [step |-> "no", value |-> 0] /\ patches \in [Slot -> {Unused}]
      BY <2>1 DEF EditorInit, NoLoad
    <3>3. past \in Seq(Version) /\ Len(past) <= MaxHistory /\ future \in Seq(Version)
      BY <2>1, <3>1, EditorAssumption DEF EditorInit
    <3>4. loading \in [step : {"no", "asked", "got"}, value : Version]
      BY <3>1, <3>2
    <3>5. edits \in 0 .. MaxEdits /\ visits \in 0 .. MaxVisits
          /\ draft \in Version /\ stored \in Version
      BY <2>1, <3>1, EditorAssumption DEF EditorInit
    <3>6. mounted \in BOOLEAN /\ isDirty \in BOOLEAN /\ timer \in BOOLEAN /\ raced \in BOOLEAN
          /\ refused \in BOOLEAN
      BY <2>1 DEF EditorInit
    <3>7. patches \in [Slot -> Patch \cup {Unused}]
      BY <3>2
    <3> QED BY <3>3, <3>4, <3>5, <3>6, <3>7 DEF EditorTypeOK, Patch
  <2>2. ASSUME EditorInit PROVE /\ HistoryBounded /\ OnScreen /\ PatchesCurrent
                                 /\ CleanMeansStored /\ DirtyGetsSaved
    <3>1. Len(<<>>) = 0
      OBVIOUS
    <3> QED BY <2>2, <3>1, EditorAssumption
             DEF EditorInit, HistoryBounded, OnScreen, PatchesCurrent, CleanMeansStored,
                 DirtyGetsSaved, NoLoad
  <2> QED BY <2>1, <2>2 DEF DraftInv
<1>2. DraftInv /\ [EditorNext]_editorVars => DraftInv'
  <2> SUFFICES ASSUME DraftInv, [EditorNext]_editorVars PROVE DraftInv'
    OBVIOUS
  <2>1. CASE UNCHANGED editorVars
    BY <2>1 DEF editorVars, DraftInv, EditorTypeOK, HistoryBounded, OnScreen, PatchesCurrent,
                CleanMeansStored, DirtyGetsSaved
  <2>2. CASE EditorNext
    BY <2>2, LoadKeeps, EditKeeps, UndoKeeps, PatchKeeps DEF EditorNext
  <2> QED BY <2>1, <2>2
<1> QED BY <1>1, <1>2, PTL DEF EditorSpec

-----------------------------------------------------------------------------
(* The context variables. *)

Top(S) == S = {} \/ \E m \in S : \A y \in S : m >= y

\* A list of variables the editor can hold.
ListOK(vs) ==
    /\ IsFiniteSet(vs)
    /\ SlotsOf(vs) \subseteq Nat /\ Top(SlotsOf(vs))
    /\ \A v, w \in vs : v.slot = w.slot => v = w

LEMMA NoneOK == ListOK({}) /\ SlotsOf({}) = {}
BY FS_EmptySet DEF ListOK, SlotsOf, Top

LEMMA MergeSlots ==
    ASSUME NEW b, NEW o
    PROVE  SlotsOf(mergeContextVariables(b, o)) = SlotsOf(b) \cup SlotsOf(o)
BY DEF SlotsOf, mergeContextVariables

LEMMA MergeNone ==
    ASSUME NEW b
    PROVE  mergeContextVariables(b, {}) = b /\ mergeContextVariables({}, b) = b
BY DEF SlotsOf, mergeContextVariables

\* Merging is associative, which is why the answers may come in any order.
LEMMA MergeAssociative ==
    ASSUME NEW a, NEW b, NEW c
    PROVE  mergeContextVariables(mergeContextVariables(a, b), c)
           = mergeContextVariables(a, mergeContextVariables(b, c))
<1> DEFINE ab == mergeContextVariables(a, b)
           bc == mergeContextVariables(b, c)
<1>1. SlotsOf(bc) = SlotsOf(b) \cup SlotsOf(c)
  BY MergeSlots
<1>2. ab = b \cup {v \in a : v.slot \notin SlotsOf(b)}
      /\ bc = c \cup {v \in b : v.slot \notin SlotsOf(c)}
  BY DEF mergeContextVariables
<1>3. mergeContextVariables(ab, c) = c \cup {v \in ab : v.slot \notin SlotsOf(c)}
      /\ mergeContextVariables(a, bc) = bc \cup {v \in a : v.slot \notin SlotsOf(bc)}
  BY DEF mergeContextVariables
<1>4. \A v : v \in mergeContextVariables(ab, c) <=>
           \/ v \in c
           \/ v \in b /\ v.slot \notin SlotsOf(c)
           \/ v \in a /\ v.slot \notin SlotsOf(b) /\ v.slot \notin SlotsOf(c)
  <2> HIDE DEF ab, bc
  <2> QED BY <1>2, <1>3
<1>5. \A v : v \in mergeContextVariables(a, bc) <=>
           \/ v \in c
           \/ v \in b /\ v.slot \notin SlotsOf(c)
           \/ v \in a /\ v.slot \notin SlotsOf(b) /\ v.slot \notin SlotsOf(c)
  <2> HIDE DEF ab, bc
  <2> QED BY <1>1, <1>2, <1>3
<1> DEFINE left == mergeContextVariables(ab, c)
           right == mergeContextVariables(a, bc)
<1>6. left = right
  <2>1. \A v : v \in left <=> v \in right
    BY <1>4, <1>5
  <2> HIDE DEF left, right
  <2> QED BY <2>1
<1> QED BY <1>6

\* A slot only one of the lists has keeps its place.
LEMMA MergeApart ==
    ASSUME NEW m, NEW r
    PROVE  LET rest == {v \in m : v.slot \notin SlotsOf(r)}
           IN  mergeContextVariables(m, r) = mergeContextVariables(r, rest)
BY DEF mergeContextVariables, SlotsOf

LEMMA MergeAdded ==
    ASSUME NEW b, NEW m, NEW n, n.slot \notin SlotsOf(mergeContextVariables(b, m))
    PROVE  mergeContextVariables(b, m \cup {n}) = mergeContextVariables(b, m) \cup {n}
<1>1. n.slot \notin SlotsOf(b) /\ n.slot \notin SlotsOf(m)
  BY MergeSlots
<1>2. SlotsOf(m \cup {n}) = SlotsOf(m) \cup {n.slot}
  BY DEF SlotsOf
<1>3. \A v \in b : v.slot # n.slot
  BY <1>1 DEF SlotsOf
<1> QED BY <1>2, <1>3 DEF mergeContextVariables

LEMMA MergeRenamed ==
    ASSUME NEW b, NEW m, NEW v \in mergeContextVariables(b, m), NEW now, now.slot = v.slot,
           ListOK(mergeContextVariables(b, m))
    PROVE  mergeContextVariables(b, (m \ {v}) \cup {now})
           = (mergeContextVariables(b, m) \ {v}) \cup {now}
<1> DEFINE all == mergeContextVariables(b, m)
           left == (m \ {v}) \cup {now}
<1>1. \A u, w \in all : u.slot = w.slot => u = w
  BY DEF ListOK
<1>2. all = m \cup {u \in b : u.slot \notin SlotsOf(m)}
  BY DEF mergeContextVariables
<1>3. \A k : k \in SlotsOf(left) <=> k = v.slot \/ \E u \in m \ {v} : u.slot = k
  BY DEF SlotsOf
<1>4. \A k : k \in SlotsOf(m) <=> \E u \in m : u.slot = k
  BY DEF SlotsOf
<1>5. mergeContextVariables(b, left) = left \cup {u \in b : u.slot \notin SlotsOf(left)}
  BY DEF mergeContextVariables
<1>6. \A u \in b : u.slot \notin SlotsOf(left) <=> u.slot \notin SlotsOf(m) /\ u.slot # v.slot
  BY <1>3, <1>4
<1>7. \A u \in all : u # v <=> u.slot # v.slot
  BY <1>1
<1>8. \A u : u \in mergeContextVariables(b, left) <=> u \in (all \ {v}) \cup {now}
  <2> HIDE DEF all
  <2>1. \A u : u \in left <=> (u \in m /\ u # v) \/ u = now
    OBVIOUS
  <2> HIDE DEF left
  <2> QED BY <1>2, <1>5, <1>6, <1>7, <2>1
<1> DEFINE renamed == mergeContextVariables(b, left)
<1>9. renamed = (all \ {v}) \cup {now}
  <2> HIDE DEF renamed, all
  <2> QED BY <1>8 DEF renamed
<1> QED BY <1>9

LEMMA TopUnion ==
    ASSUME NEW S \in SUBSET Nat, NEW T \in SUBSET Nat, Top(S), Top(T)
    PROVE  Top(S \cup T)
<1>1. CASE S = {} \/ T = {}
  BY <1>1 DEF Top
<1>2. CASE S # {} /\ T # {}
  <2>1. PICK m \in S : \A y \in S : m >= y
    BY <1>2 DEF Top
  <2>2. PICK n \in T : \A y \in T : n >= y
    BY <1>2 DEF Top
  <2>3. CASE m >= n
    BY <2>1, <2>2, <2>3 DEF Top
  <2>4. CASE n >= m
    BY <2>1, <2>2, <2>4 DEF Top
  <2> QED BY <2>3, <2>4
<1> QED BY <1>1, <1>2

LEMMA MergeOK ==
    ASSUME NEW b, NEW o, ListOK(b), ListOK(o)
    PROVE  ListOK(mergeContextVariables(b, o))
<1> DEFINE all == mergeContextVariables(b, o)
<1>1. all = o \cup {v \in b : v.slot \notin SlotsOf(o)}
  BY DEF mergeContextVariables
<1>2. IsFiniteSet(all)
  <2>1. IsFiniteSet({v \in b : v.slot \notin SlotsOf(o)})
    BY FS_Subset DEF ListOK
  <2>2. IsFiniteSet(o)
    BY DEF ListOK
  <2>3. IsFiniteSet(o \cup {v \in b : v.slot \notin SlotsOf(o)})
    BY <2>1, <2>2, FS_Union
  <2> QED BY <1>1, <2>3
<1>3. SlotsOf(all) \subseteq Nat /\ Top(SlotsOf(all))
  BY MergeSlots, TopUnion DEF ListOK
<1>4. \A v, w \in all : v.slot = w.slot => v = w
  BY <1>1 DEF ListOK, SlotsOf
<1> QED BY <1>2, <1>3, <1>4 DEF ListOK

\* The next slot is free.
LEMMA NextSlotFree ==
    ASSUME NEW vs, ListOK(vs)
    PROVE  /\ nextSlot(vs) \in Nat
           /\ \A k \in SlotsOf(vs) : k < nextSlot(vs)
<1>1. CASE vs = {}
  BY <1>1 DEF nextSlot, SlotsOf
<1>2. CASE vs # {}
  <2>1. SlotsOf(vs) # {}
    BY <1>2 DEF SlotsOf
  <2>2. \E m \in SlotsOf(vs) : \A y \in SlotsOf(vs) : m >= y
    BY <2>1 DEF ListOK, Top
  <2>3. Max(SlotsOf(vs)) \in SlotsOf(vs) /\ \A y \in SlotsOf(vs) : Max(SlotsOf(vs)) >= y
    BY <2>2 DEF Max
  <2>4. nextSlot(vs) = Max(SlotsOf(vs)) + 1
    BY <1>2 DEF nextSlot
  <2> QED BY <2>3, <2>4 DEF ListOK
<1> QED BY <1>1, <1>2

LEMMA AddOK ==
    ASSUME NEW vs, ListOK(vs), NEW v, v.slot = nextSlot(vs)
    PROVE  /\ ListOK(vs \cup {v})
           /\ v.slot \notin SlotsOf(vs)
<1>1. v.slot \in Nat /\ \A k \in SlotsOf(vs) : k < v.slot
  BY NextSlotFree
<1>2. SlotsOf(vs) \subseteq Nat
  BY DEF ListOK
<1>3. v.slot \notin SlotsOf(vs)
  BY <1>1, <1>2
<1>4. SlotsOf(vs \cup {v}) = SlotsOf(vs) \cup {v.slot}
  BY DEF SlotsOf
<1>5. Top({v.slot})
  BY <1>1 DEF Top
<1>6. SlotsOf(vs \cup {v}) \subseteq Nat /\ Top(SlotsOf(vs \cup {v}))
  <2>1. {v.slot} \in SUBSET Nat /\ SlotsOf(vs) \in SUBSET Nat /\ Top(SlotsOf(vs))
    BY <1>1, <1>2 DEF ListOK
  <2>2. Top(SlotsOf(vs) \cup {v.slot})
    BY <1>5, <2>1, TopUnion
  <2> QED BY <1>4, <2>1, <2>2
<1>7. IsFiniteSet(vs \cup {v})
  BY FS_AddElement DEF ListOK
<1>8. \A u, w \in vs \cup {v} : u.slot = w.slot => u = w
  BY <1>3 DEF ListOK, SlotsOf
<1> QED BY <1>3, <1>6, <1>7, <1>8 DEF ListOK

LEMMA RenameOK ==
    ASSUME NEW vs, ListOK(vs), NEW v \in vs, NEW now, now.slot = v.slot
    PROVE  ListOK((vs \ {v}) \cup {now})
<1> DEFINE left == (vs \ {v}) \cup {now}
<1>1. SlotsOf(left) = SlotsOf(vs)
  BY DEF SlotsOf
<1>2. IsFiniteSet(left)
  <2>1. IsFiniteSet(vs \ {v})
    BY FS_Subset DEF ListOK
  <2> QED BY <2>1, FS_AddElement
<1>3. \A u, w \in left : u.slot = w.slot => u = w
  BY DEF ListOK
<1> QED BY <1>1, <1>2, <1>3 DEF ListOK

\* A slot with one name each: as many slots as variables.
LEMMA ListCounts ==
    ASSUME NEW vs, ListOK(vs)
    PROVE  Cardinality(SlotsOf(vs)) = Cardinality(vs)
<1> DEFINE g == [v \in vs |-> v.slot]
<1>1. g \in Bijection(vs, SlotsOf(vs))
  BY DEF Bijection, Injection, Surjection, IsInjective, SlotsOf, ListOK
<1>2. ExistsBijection(vs, SlotsOf(vs)) /\ IsFiniteSet(vs)
  BY <1>1 DEF ExistsBijection, ListOK
<1> QED BY <1>2, FS_Bijection

\* The fields of the canvas, by name only.
FieldsOK(f) == f = Nowhere \/ f = [at |-> TRUE, output |-> f.output, input |-> f.input]
NamesIn(f) == IF f.at THEN {f.output, f.input} \cap Name ELSE {}
Listed(f, vs, known) == NamesIn(f) \subseteq NamesOf(vs) \cup known

\* What was saved can be loaded.
RowOK(row) ==
    row.made => /\ ListOK(row.variables)
                /\ FieldsOK(row.fields)
                /\ Listed(row.fields, row.variables, row.loose)

RequestOK(r) ==
    /\ r.what \in {"slots", "draft"}
    /\ r.visit \in Nat /\ r.visit <= openings
    /\ r.step \in {"sent", "got"}
    /\ r.step = "sent" => r.of \in Automation
    /\ r.step = "got" /\ r.what = "slots" => ListOK(r.slots)
    /\ r.step = "got" /\ r.what = "draft" => RowOK(r.row)

\* Each visit asks once for the slots and once for the draft, and an answer of
\* this visit that is still to come has brought nothing yet.
AskedOnce == \A r, q \in inFlight : r.what = q.what /\ r.visit = q.visit => r = q
NotYet ==
    ~stray => \A r \in inFlight : r.visit = openings =>
                 /\ r.what = "slots" => fromVault = {}
                 /\ r.what = "draft" => fromDraft = {}

Brought == mergeContextVariables(fromVault, fromDraft)

VariablesInv ==
    /\ openings \in Nat /\ stray \in BOOLEAN
    /\ ListOK(variables) /\ ListOK(vaultSlots)
    /\ FieldsOK(fields) /\ Listed(fields, variables, loose)
    /\ DOMAIN rows = Automation /\ \A a \in Automation : RowOK(rows[a])
    /\ \A r \in inFlight : RequestOK(r)
    /\ AskedOnce /\ NotYet
    /\ MergedInAnyOrder

\* The list only grows by a merge.
LEMMA MergeNames ==
    ASSUME NEW b, NEW o
    PROVE  NamesOf(o) \subseteq NamesOf(mergeContextVariables(b, o))
BY DEF NamesOf, mergeContextVariables

LEMMA OpenKeeps ==
    ASSUME VariablesInv, NEW a \in Automation, openEditor(a)
    PROVE  VariablesInv'
<1>1. /\ openings' = openings + 1 /\ variables' = {} /\ fields' = Nowhere /\ loose' = {}
      /\ inFlight' = inFlight \cup {Request("slots", a), Request("draft", a)}
      /\ mine' = {} /\ fromDraft' = {} /\ fromVault' = {} /\ stray' = FALSE
      /\ rows' = rows /\ vaultSlots' = vaultSlots
  BY DEF openEditor, serverVars
<1>2. ASSUME NEW w \in {"slots", "draft"}
      PROVE  LET q == Request(w, a)
             IN  q.what = w /\ q.visit = openings + 1 /\ q.step = "sent" /\ q.of = a
  BY DEF Request
<1>3. openings \in Nat /\ \A r \in inFlight : RequestOK(r) /\ r.visit \in Nat /\ r.visit <= openings
  BY DEF VariablesInv, RequestOK
<1>4. \A r \in inFlight : r.visit # openings + 1
  BY <1>3
<1>5. ASSUME NEW r \in inFlight' PROVE RequestOK(r)'
  <2>1. CASE r \in inFlight
    <3>1. r.visit <= openings + 1
      BY <1>3, <2>1
    <3>2. RequestOK(r)
      BY <1>3, <2>1
    <3> QED BY <1>1, <3>1, <3>2 DEF RequestOK, RowOK, Listed
  <2>2. CASE r \in {Request("slots", a), Request("draft", a)}
    <3>1. r.what \in {"slots", "draft"} /\ r.visit = openings + 1 /\ r.step = "sent" /\ r.of = a
      BY <1>2, <2>2
    <3> QED BY <1>1, <1>3, <3>1 DEF RequestOK
  <2> QED BY <1>1, <2>1, <2>2
<1>6. AskedOnce'
  BY <1>1, <1>2, <1>4 DEF AskedOnce, VariablesInv
<1>7. NotYet' /\ MergedInAnyOrder'
  <2>1. mergeContextVariables(mergeContextVariables({}, {}), {}) = {}
    BY MergeNone
  <2> QED BY <1>1, <2>1 DEF NotYet, MergedInAnyOrder
<1>8. FieldsOK(fields)' /\ Listed(fields, variables, loose)'
  BY <1>1 DEF FieldsOK, Listed, NamesIn, Nowhere
<1>9. /\ openings' \in Nat /\ stray' \in BOOLEAN /\ ListOK(variables)' /\ ListOK(vaultSlots)'
      /\ DOMAIN rows' = Automation /\ \A x \in Automation : RowOK(rows[x])'
  <2>1. openings' \in Nat
    BY <1>1, <1>3
  <2>4. stray' \in BOOLEAN
    BY <1>1
  <2>2. ListOK(variables') /\ ListOK(vaultSlots')
    BY <1>1, NoneOK DEF VariablesInv
  <2>3. DOMAIN rows' = Automation /\ \A x \in Automation : RowOK(rows'[x])
    BY <1>1 DEF VariablesInv
  <2> QED BY <2>1, <2>2, <2>3, <2>4
<1> QED BY <1>5, <1>6, <1>7, <1>8, <1>9 DEF VariablesInv

\* The backend answers: what it has is what can be loaded.
LEMMA ServeKeeps ==
    ASSUME VariablesInv, NEW r \in inFlight, serve(r)
    PROVE  VariablesInv'
<1> DEFINE q == IF r.what = "slots"
                THEN [what |-> r.what, visit |-> r.visit, step |-> "got", slots |-> vaultSlots]
                ELSE [what |-> r.what, visit |-> r.visit, step |-> "got", row |-> rows[r.of]]
<1>1. r.step = "sent" /\ inFlight' = (inFlight \ {r}) \cup {q}
  BY DEF serve
<1>2. UNCHANGED <<variables, fields, loose, mine, openings, fromDraft, fromVault, stray, rows, vaultSlots>>
  BY DEF serve, storeVars, visitVars, serverVars
<1>3. RequestOK(r)
  BY DEF VariablesInv
<1>4. /\ q.what = r.what /\ q.visit = r.visit /\ q.step = "got"
      /\ r.what = "slots" => q.slots = vaultSlots
      /\ r.what # "slots" => q.row = rows[r.of]
  OBVIOUS
<1> HIDE DEF q
<1>5. ListOK(vaultSlots) /\ RowOK(rows[r.of])
  BY <1>1, <1>3 DEF VariablesInv, RequestOK
<1>6. RequestOK(q)
  BY <1>3, <1>4, <1>5 DEF RequestOK
<1>7. \A p \in inFlight' : RequestOK(p)
  BY <1>1, <1>6 DEF VariablesInv
<1>8. \A p \in inFlight' : RequestOK(p)'
  BY <1>2, <1>7 DEF RequestOK, RowOK, Listed
<1>9. AskedOnce' /\ NotYet'
  <2>1. AskedOnce'
    BY <1>1, <1>4 DEF VariablesInv, AskedOnce
  <2>2. NotYet'
    BY <1>1, <1>2, <1>4 DEF VariablesInv, NotYet
  <2> QED BY <2>1, <2>2
<1> QED BY <1>2, <1>8, <1>9 DEF VariablesInv, MergedInAnyOrder, RowOK, Listed

\* What an answer leaves of the requests.
LEMMA TakenLeaves ==
    ASSUME VariablesInv, NEW r \in inFlight, Takes(r), openings' = openings
    PROVE  /\ \A q \in inFlight' : RequestOK(q)'
           /\ AskedOnce'
           /\ stray' \in BOOLEAN /\ (~stray' => ~stray /\ r.visit = openings)
           /\ \A q \in inFlight' : q \in inFlight /\ (q.what = r.what => q.visit # r.visit)
<1>1. inFlight' = inFlight \ {r} /\ stray' = (stray \/ r.visit # openings)
  BY DEF Takes
<1>2. \A q \in inFlight' : RequestOK(q)'
  BY <1>1 DEF VariablesInv, RequestOK, RowOK, Listed
<1> QED BY <1>1, <1>2 DEF VariablesInv, AskedOnce

LEMMA TakeSlotsKeeps ==
    ASSUME VariablesInv, NEW r \in inFlight, takeSlots(r)
    PROVE  VariablesInv'
<1>1. /\ Takes(r) /\ r.what = "slots" /\ r.step = "got"
      /\ variables' = mergeContextVariables(r.slots, variables) /\ fromVault' = r.slots
      /\ UNCHANGED <<openings, fromDraft, rows, vaultSlots, fields, mine, loose>>
  BY DEF takeSlots, Takes, mergeVaultContextSlots, serverVars
<1>2. ListOK(r.slots) /\ ListOK(variables)
  BY <1>1 DEF VariablesInv, RequestOK
<1>3. ListOK(variables')
  BY <1>1, <1>2, MergeOK
<1>4. /\ \A q \in inFlight' : RequestOK(q)'
      /\ AskedOnce' /\ stray' \in BOOLEAN
      /\ ~stray' => ~stray /\ r.visit = openings
      /\ \A q \in inFlight' : q \in inFlight /\ (q.what = r.what => q.visit # r.visit)
  BY <1>1, TakenLeaves
<1>5. NotYet'
  BY <1>1, <1>4 DEF NotYet, VariablesInv
<1>6. MergedInAnyOrder'
  <2>1. SUFFICES ASSUME ~stray'
                 PROVE  variables' = mergeContextVariables(mergeContextVariables(r.slots, fromDraft), mine)
    BY <1>1 DEF MergedInAnyOrder
  <2>2. fromVault = {} /\ ~stray
    BY <1>1, <1>4, <2>1 DEF VariablesInv, NotYet
  <2>3. variables = mergeContextVariables(fromDraft, mine)
    BY <2>2, MergeNone DEF VariablesInv, MergedInAnyOrder
  <2> QED BY <1>1, <2>3, MergeAssociative
<1>7. Listed(fields, variables, loose)'
  <2>1. NamesOf(variables) \subseteq NamesOf(variables')
    BY <1>1, MergeNames
  <2> QED BY <1>1, <2>1 DEF VariablesInv, Listed, NamesIn
<1>8. FieldsOK(fields)' /\ ListOK(vaultSlots)' /\ \A a \in Automation : RowOK(rows[a])'
  BY <1>1 DEF VariablesInv
<1> QED BY <1>1, <1>3, <1>4, <1>5, <1>6, <1>7, <1>8 DEF VariablesInv

LEMMA TakeDraftKeeps ==
    ASSUME VariablesInv, NEW r \in inFlight, takeDraft(r)
    PROVE  VariablesInv'
<1> DEFINE row == r.row
           rest == {v \in mine : v.slot \notin SlotsOf(row.variables)}
<1>1. Takes(r) /\ r.what = "draft" /\ r.step = "got" /\ UNCHANGED <<openings, fromVault, rows, vaultSlots>>
  BY DEF takeDraft, Takes, serverVars
<1>2. RowOK(row) /\ ListOK(variables)
  BY <1>1 DEF VariablesInv, RequestOK
<1>3. /\ \A q \in inFlight' : RequestOK(q)'
      /\ AskedOnce' /\ stray' \in BOOLEAN
      /\ ~stray' => ~stray /\ r.visit = openings
      /\ \A q \in inFlight' : q \in inFlight /\ (q.what = r.what => q.visit # r.visit)
  BY <1>1, TakenLeaves
<1>4. ListOK(vaultSlots)' /\ DOMAIN rows' = Automation /\ \A a \in Automation : RowOK(rows[a])'
  BY <1>1 DEF VariablesInv
<1>5. CASE row.made
  <2>1. /\ variables' = mergeContextVariables(variables, row.variables) /\ fields' = row.fields
        /\ fromDraft' = row.variables /\ mine' = rest /\ loose' = row.loose
    BY <1>5 DEF takeDraft, mergeEditorContextVariables
  <2>2. ListOK(row.variables) /\ FieldsOK(row.fields) /\ Listed(row.fields, row.variables, row.loose)
    BY <1>2, <1>5 DEF RowOK
  <2>3. ListOK(variables')
    BY <1>2, <2>1, <2>2, MergeOK
  <2>4. NotYet'
    BY <1>1, <1>3 DEF NotYet, VariablesInv
  <2>5. MergedInAnyOrder'
    <3>1. SUFFICES ASSUME ~stray'
                   PROVE  variables' = mergeContextVariables(mergeContextVariables(fromVault, row.variables), rest)
      BY <1>1, <2>1 DEF MergedInAnyOrder
    <3>2. fromDraft = {} /\ ~stray
      BY <1>1, <1>3, <3>1 DEF VariablesInv, NotYet
    <3>3. variables = mergeContextVariables(fromVault, mine)
      BY <3>2, MergeNone DEF VariablesInv, MergedInAnyOrder
    <3>4. variables' = mergeContextVariables(fromVault, mergeContextVariables(mine, row.variables))
      BY <2>1, <3>3, MergeAssociative
    <3>5. mergeContextVariables(mine, row.variables) = mergeContextVariables(row.variables, rest)
      BY MergeApart
    <3> HIDE DEF rest, row
    <3> QED BY <3>4, <3>5, MergeAssociative
  <2>6. Listed(fields, variables, loose)'
    <3>1. NamesOf(row.variables) \subseteq NamesOf(variables')
      BY <2>1, MergeNames
    <3> QED BY <2>1, <2>2, <3>1 DEF Listed, NamesIn
  <2>7. FieldsOK(fields)'
    BY <2>1, <2>2
  <2> QED BY <1>1, <1>3, <1>4, <2>3, <2>4, <2>5, <2>6, <2>7 DEF VariablesInv
<1>6. CASE ~row.made
  <2>1. UNCHANGED <<variables, fields, mine, loose, fromDraft>>
    BY <1>6 DEF takeDraft, storeVars
  <2>2. NotYet'
    BY <1>1, <1>3, <2>1 DEF NotYet, VariablesInv
  <2>3. MergedInAnyOrder'
    BY <1>1, <1>3, <2>1 DEF VariablesInv, MergedInAnyOrder
  <2> QED BY <1>1, <1>3, <1>4, <2>1, <2>2, <2>3 DEF VariablesInv, Listed
<1> QED BY <1>5, <1>6

\* An edit leaves the requests and what they brought alone; what is left to
\* show is what it does to the list and the fields.
LEMMA EditLeaves ==
    ASSUME VariablesInv, UNCHANGED <<visitVars, serverVars, inFlight>>,
           ListOK(variables'), FieldsOK(fields'), Listed(fields, variables, loose)',
           MergedInAnyOrder'
    PROVE  VariablesInv'
<1>1. UNCHANGED <<openings, fromDraft, fromVault, stray, rows, vaultSlots, inFlight>>
  BY DEF visitVars, serverVars
<1>2. \A r \in inFlight' : RequestOK(r)'
  BY <1>1 DEF VariablesInv, RequestOK, RowOK, Listed
<1>3. AskedOnce' /\ NotYet'
  BY <1>1 DEF VariablesInv, AskedOnce, NotYet
<1> QED BY <1>1, <1>2, <1>3 DEF VariablesInv

\* A new variable, and perhaps the field it is for.
LEMMA AddedKeeps ==
    ASSUME VariablesInv, UNCHANGED <<visitVars, serverVars, inFlight>>, NEW name,
           variables' = variables \cup {Added(name)}, mine' = mine \cup {Added(name)}
    PROVE  ListOK(variables') /\ MergedInAnyOrder' /\ name \in NamesOf(variables')
           /\ NamesOf(variables) \subseteq NamesOf(variables')
<1>1. Added(name).slot = nextSlot(variables) /\ Added(name).name = name
  BY DEF Added
<1>2. ListOK(variables') /\ Added(name).slot \notin SlotsOf(variables)
  BY <1>1, AddOK DEF VariablesInv
<1>3. MergedInAnyOrder'
  <2>1. UNCHANGED <<fromVault, fromDraft, stray>>
    BY DEF visitVars
  <2>2. ASSUME ~stray PROVE variables' = mergeContextVariables(Brought, mine')
    <3>1. variables = mergeContextVariables(Brought, mine)
      BY <2>2 DEF VariablesInv, MergedInAnyOrder, Brought
    <3> QED BY <1>2, <3>1, MergeAdded
  <2> QED BY <2>1, <2>2 DEF MergedInAnyOrder, Brought
<1>4. name \in NamesOf(variables') /\ NamesOf(variables) \subseteq NamesOf(variables')
  BY <1>1 DEF NamesOf
<1> QED BY <1>2, <1>3, <1>4

\* Setting a field of the step names at most the new value.
LEMMA SetsField ==
    ASSUME VariablesInv, fields.at, NEW field \in {"output", "input"}, NEW value,
           fields' = [fields EXCEPT ![field] = value]
    PROVE  FieldsOK(fields') /\ NamesIn(fields') \subseteq NamesIn(fields) \cup ({value} \cap Name)
<1>1. Nowhere.at = FALSE
  BY DEF Nowhere
<1>2. fields = [at |-> TRUE, output |-> fields.output, input |-> fields.input]
  BY <1>1 DEF VariablesInv, FieldsOK
<1>3. CASE field = "output"
  <2>1. fields' = [at |-> TRUE, output |-> value, input |-> fields.input]
    BY <1>2, <1>3
  <2> QED BY <2>1 DEF FieldsOK, NamesIn
<1>4. CASE field = "input"
  <2>1. fields' = [at |-> TRUE, output |-> fields.output, input |-> value]
    BY <1>2, <1>4
  <2> QED BY <2>1 DEF FieldsOK, NamesIn
<1> QED BY <1>3, <1>4

LEMMA StepEditKeeps ==
    ASSUME VariablesInv, Edits,
           \/ addStep \/ tickOutput \/ clearInput
           \/ \E text \in Name \cup {NoName} : typeInput(text)
           \/ \E field \in {"output", "input"} : pick(field)
    PROVE  VariablesInv'
<1>1. UNCHANGED <<visitVars, serverVars, inFlight>>
  BY DEF Edits
<1>2. variables' = variables /\ mine' = mine
  BY DEF addStep, tickOutput, clearInput, typeInput, pick
<1>3. ListOK(variables') /\ MergedInAnyOrder'
  BY <1>1, <1>2 DEF VariablesInv, MergedInAnyOrder, visitVars
<1>4. NamesOf(variables') = NamesOf(variables) /\ Listed(fields, variables, loose) /\ FieldsOK(fields)
  BY <1>2 DEF VariablesInv
<1>5. CASE addStep
  <2>1. fields' = NewStep /\ loose' = loose
    BY <1>5 DEF addStep
  <2>2. FieldsOK(fields') /\ NamesIn(fields') = {}
    BY <2>1, VariablesAssumption DEF NewStep, FieldsOK, NamesIn
  <2> QED BY <1>1, <1>3, <2>2, EditLeaves DEF Listed
<1>6. ASSUME NEW field \in {"output", "input"}, NEW value, Sets(field, value),
             value \in Name => value \in NamesOf(variables) \cup loose', loose \subseteq loose'
      PROVE  VariablesInv'
  <2>1. fields.at /\ fields' = [fields EXCEPT ![field] = value]
    BY <1>6 DEF Sets
  <2>2. FieldsOK(fields') /\ NamesIn(fields') \subseteq NamesIn(fields) \cup ({value} \cap Name)
    BY <2>1, SetsField
  <2>3. Listed(fields, variables, loose)'
    BY <1>4, <1>6, <2>2 DEF Listed
  <2> QED BY <1>1, <1>3, <2>2, <2>3, EditLeaves
<1>7. CASE tickOutput
  BY <1>6, <1>7, VariablesAssumption DEF tickOutput
<1>8. CASE clearInput
  BY <1>6, <1>8, VariablesAssumption DEF clearInput
<1>9. CASE \E text \in Name \cup {NoName} : typeInput(text)
  <2>1. PICK text \in Name \cup {NoName} : typeInput(text)
    BY <1>9
  <2>2. Sets("input", text) /\ loose' = loose \cup ({text} \ {NoName})
    BY <2>1 DEF typeInput
  <2>3. text \in Name => text \in loose'
    BY <2>2, VariablesAssumption
  <2> QED BY <1>6, <2>2, <2>3
<1>10. CASE \E field \in {"output", "input"} : pick(field)
  <2>1. PICK field \in {"output", "input"} : pick(field)
    BY <1>10
  <2>2. PICK name \in NamesOf(variables) : Sets(field, name) /\ loose' = loose
    BY <2>1 DEF pick
  <2> QED BY <1>6, <2>2
<1> QED BY <1>5, <1>7, <1>8, <1>9, <1>10

LEMMA ListEditKeeps ==
    ASSUME VariablesInv, Edits,
           \/ \E n \in Name : addContextVariable(n) \/ \E field \in {"output", "input"} : createInline(field, n)
           \/ \E v \in variables, n \in Name \cup {NoName} : v.name # n /\ updateContextVariable(v, n)
    PROVE  VariablesInv'
<1>1. UNCHANGED <<visitVars, serverVars, inFlight>>
  BY DEF Edits
<1>2. Listed(fields, variables, loose) /\ FieldsOK(fields)
  BY DEF VariablesInv
<1>3. ASSUME NEW n \in Name, addContextVariable(n) PROVE VariablesInv'
  <2>1. /\ variables' = variables \cup {Added(n)} /\ mine' = mine \cup {Added(n)}
        /\ fields' = fields /\ loose' = loose
    BY <1>3 DEF addContextVariable
  <2>2. ListOK(variables') /\ MergedInAnyOrder' /\ NamesOf(variables) \subseteq NamesOf(variables')
    BY <1>1, <2>1, AddedKeeps
  <2> QED BY <1>1, <1>2, <2>1, <2>2, EditLeaves DEF Listed
<1>4. ASSUME NEW n \in Name, NEW field \in {"output", "input"}, createInline(field, n)
      PROVE  VariablesInv'
  <2>1. /\ variables' = variables \cup {Added(n)} /\ mine' = mine \cup {Added(n)}
        /\ fields.at /\ fields' = [fields EXCEPT ![field] = n] /\ loose' = loose
    BY <1>4 DEF createInline, Sets
  <2>2. /\ ListOK(variables') /\ MergedInAnyOrder' /\ n \in NamesOf(variables')
        /\ NamesOf(variables) \subseteq NamesOf(variables')
    BY <1>1, <2>1, AddedKeeps
  <2>3. FieldsOK(fields') /\ NamesIn(fields') \subseteq NamesIn(fields) \cup ({n} \cap Name)
    BY <2>1, SetsField
  <2> QED BY <1>1, <1>2, <2>1, <2>2, <2>3, EditLeaves DEF Listed
<1>5. ASSUME NEW v \in variables, NEW n \in Name \cup {NoName}, updateContextVariable(v, n)
      PROVE  VariablesInv'
  <2> DEFINE now == [slot |-> v.slot, name |-> n]
  <2>1. /\ variables' = (variables \ {v}) \cup {now} /\ mine' = (mine \ {v}) \cup {now}
        /\ loose' = loose \cup ({v.name} \cap InFields) /\ fields' = fields
    BY <1>5 DEF updateContextVariable
  <2>2. now.slot = v.slot /\ now.name = n
    OBVIOUS
  <2> HIDE DEF now
  <2>3. ListOK(variables')
    BY <2>1, <2>2, RenameOK DEF VariablesInv
  <2>4. MergedInAnyOrder'
    <3>1. UNCHANGED <<fromVault, fromDraft, stray>>
      BY <1>1 DEF visitVars
    <3>2. ASSUME ~stray PROVE variables' = mergeContextVariables(Brought, mine')
      <4>1. variables = mergeContextVariables(Brought, mine) /\ ListOK(variables)
        BY <3>2 DEF VariablesInv, MergedInAnyOrder, Brought
      <4> QED BY <2>1, <2>2, <4>1, MergeRenamed
    <3> QED BY <3>1, <3>2 DEF MergedInAnyOrder, Brought
  <2>5. InFields = NamesIn(fields)
    BY DEF InFields, NamesIn
  <2>6. NamesOf(variables) \subseteq NamesOf(variables') \cup {v.name}
    BY <2>1 DEF NamesOf
  <2>7. Listed(fields, variables, loose)'
    BY <1>2, <2>1, <2>5, <2>6 DEF Listed
  <2> QED BY <1>1, <1>2, <2>1, <2>3, <2>4, <2>7, EditLeaves
<1> QED BY <1>3, <1>4, <1>5

\* Saving stores what the editor holds, and a deployment adds a slot.
LEMMA ServerKeeps ==
    ASSUME VariablesInv, saveDraft \/ \E n \in Name : allocateSlots(n)
    PROVE  VariablesInv'
<1>1. UNCHANGED <<openings, fromDraft, fromVault, stray, variables, fields, mine, loose, inFlight>>
  BY DEF saveDraft, allocateSlots, storeVars, visitVars
<1>2. \A r \in inFlight' : RequestOK(r)'
  BY <1>1 DEF VariablesInv, RequestOK, RowOK, Listed
<1>3. /\ AskedOnce' /\ NotYet' /\ MergedInAnyOrder' /\ Listed(fields, variables, loose)'
      /\ openings' \in Nat /\ stray' \in BOOLEAN /\ ListOK(variables') /\ FieldsOK(fields')
  BY <1>1 DEF VariablesInv, AskedOnce, NotYet, MergedInAnyOrder, Listed
<1>4. ListOK(vaultSlots')
  <2>1. CASE saveDraft
    BY <2>1 DEF saveDraft, VariablesInv
  <2>2. CASE \E n \in Name : allocateSlots(n)
    <3>1. PICK n \in Name : allocateSlots(n)
      BY <2>2
    <3> DEFINE v == [slot |-> nextSlot(vaultSlots), name |-> n]
    <3>2. vaultSlots' = vaultSlots \cup {v} /\ v.slot = nextSlot(vaultSlots)
      BY <3>1 DEF allocateSlots
    <3> HIDE DEF v
    <3> QED BY <3>2, AddOK DEF VariablesInv
  <2> QED BY <2>1, <2>2
<1>5. DOMAIN rows' = Automation /\ \A a \in Automation : RowOK(rows'[a])
  <2>1. CASE saveDraft
    <3> DEFINE row == [made |-> TRUE, variables |-> variables, fields |-> fields, loose |-> loose]
    <3>1. rows' = [rows EXCEPT ![canvas] = row]
      BY <2>1 DEF saveDraft
    <3>2. row.variables = variables /\ row.fields = fields /\ row.loose = loose
      OBVIOUS
    <3> HIDE DEF row
    <3>3. RowOK(row)
      BY <3>2 DEF RowOK, VariablesInv
    <3> QED BY <3>1, <3>3 DEF VariablesInv
  <2>2. CASE \E n \in Name : allocateSlots(n)
    BY <2>2 DEF allocateSlots, VariablesInv
  <2> QED BY <2>1, <2>2
<1> QED BY <1>2, <1>3, <1>4, <1>5 DEF VariablesInv

LEMMA VariablesStay == VariablesSpec => []VariablesInv
<1>1. VariablesInit => VariablesInv
  <2> SUFFICES ASSUME VariablesInit PROVE VariablesInv
    OBVIOUS
  <2>1. /\ openings \in Nat /\ stray \in BOOLEAN /\ inFlight = {}
        /\ variables = {} /\ fields = Nowhere /\ loose = {} /\ vaultSlots = {}
        /\ fromVault = {} /\ fromDraft = {} /\ mine = {}
        /\ rows = [a \in Automation |-> NoRow]
    BY DEF VariablesInit
  <2>2. mergeContextVariables(mergeContextVariables({}, {}), {}) = {}
    BY MergeNone
  <2>3. \A a \in Automation : RowOK(rows[a])
    BY <2>1 DEF RowOK, NoRow
  <2>4. FieldsOK(fields) /\ Listed(fields, variables, loose)
    BY <2>1 DEF FieldsOK, Listed, NamesIn, Nowhere
  <2> QED BY <2>1, <2>2, <2>3, <2>4, NoneOK DEF VariablesInv, AskedOnce, NotYet, MergedInAnyOrder
<1>2. VariablesInv /\ [VariablesNext]_variablesVars => VariablesInv'
  <2> SUFFICES ASSUME VariablesInv, [VariablesNext]_variablesVars PROVE VariablesInv'
    OBVIOUS
  <2>1. CASE UNCHANGED variablesVars
    BY <2>1 DEF variablesVars, storeVars, visitVars, serverVars, VariablesInv, RequestOK, RowOK,
                Listed, AskedOnce, NotYet, MergedInAnyOrder
  <2>2. CASE \E a \in Automation : openEditor(a)
    BY <2>2, OpenKeeps
  <2>3. CASE \E r \in inFlight : serve(r) \/ takeSlots(r) \/ takeDraft(r)
    BY <2>3, ServeKeeps, TakeSlotsKeeps, TakeDraftKeeps
  <2>4. CASE \/ addStep \/ tickOutput \/ clearInput
             \/ \E text \in Name \cup {NoName} : typeInput(text)
             \/ \E field \in {"output", "input"} : pick(field)
    <3>1. Edits
      BY <2>4 DEF addStep, tickOutput, clearInput, typeInput, pick, Sets
    <3> QED BY <2>4, <3>1, StepEditKeeps
  <2>5. CASE \/ \E n \in Name : addContextVariable(n)
                               \/ \E field \in {"output", "input"} : createInline(field, n)
             \/ \E v \in variables, n \in Name \cup {NoName} : v.name # n /\ updateContextVariable(v, n)
    <3>1. Edits
      BY <2>5 DEF addContextVariable, createInline, updateContextVariable, Sets
    <3> QED BY <2>5, <3>1, ListEditKeeps
  <2>6. CASE saveDraft \/ \E n \in Name : allocateSlots(n)
    BY <2>6, ServerKeeps
  <2> QED BY <2>1, <2>2, <2>3, <2>4, <2>5, <2>6 DEF VariablesNext
<1> QED BY <1>1, <1>2, PTL DEF VariablesSpec

\* What the editor keeps of its user's work (use-auto-save.ts, editor-store.ts),
\* for any number of visits, answers and edits.  A clean draft is the stored one,
\* if its load succeeded and no PATCH was under way when it was last changed or
\* loaded; of the others nothing is said, for an older PATCH's answer may mark a
\* newer draft clean.  A dirty draft, overtaken or not, has its save ahead: the
\* timer runs, or the PATCH carrying it is under way, or it has failed.  Loads of
\* variables merge in any order, no slot has two names and no field names a
\* variable that was never there.
THEOREM EditorKeeps == BothSpec => []EditorKeepsWork
<1>1. DraftInv => CleanMeansStored /\ DirtyGetsSaved
  BY DEF DraftInv
<1>2. VariablesInv => VariablesKept
  <2> SUFFICES ASSUME VariablesInv PROVE VariablesKept
    OBVIOUS
  <2>1. OneNamePerSlot
    BY ListCounts DEF VariablesInv, OneNamePerSlot
  <2>2. FieldsListed
    BY DEF VariablesInv, Listed, NamesIn, FieldsListed, InFields
  <2> QED BY <2>1, <2>2 DEF VariablesInv, VariablesKept
<1> QED BY <1>1, <1>2, DraftStays, VariablesStay, PTL DEF BothSpec, EditorKeepsWork

=============================================================================
