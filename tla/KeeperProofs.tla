---------------------------- MODULE KeeperProofs ----------------------------
(***************************************************************************)
(* One pass of the keeper, for any vaults, any number of transactions of    *)
(* others between its calls and any calls that fail: what it counts and     *)
(* reports is so, and nothing that was due is left out.                     *)
(***************************************************************************)
EXTENDS Keeper, FiniteSetTheorems, SequenceTheorems, TLAPS

Outcome == {"executed", "skipped", "failed"}
History == [due : BOOLEAN, still : BOOLEAN, lost : BOOLEAN, silent : BOOLEAN, ran : Nat,
            outcome : Outcome \cup {"none"}]

FleetOK ==
    /\ fleet \in Seq(Seq(OnChain))
    /\ Len(fleet) = Len(Fleet)
    /\ \A v \in 1 .. Len(fleet) : Len(Fleet[v]) <= Len(fleet[v]) /\ Len(fleet[v]) <= 3

\* The automations that were there when the pass began.
FirstIds == {a \in AutomationIds : a[2] <= Len(Fleet[a[1]])}
First(a) == Fleet[a[1]][a[2]]

AtAutomation == pass.at \in {"flags", "trigger", "execute", "mined"}
Working == pass.at \in {"vault", "flags", "trigger", "execute", "mined"}

PassOK ==
    /\ pass \in [at : PassStep, vaults : Nat, v : Nat, autos : Nat, i : Nat,
                 mined : {"none", "executed", "reverted"}]
    /\ pass.at = "start" => pass.v = 1
    /\ Working => pass.vaults = Len(fleet) /\ pass.v \in 1 .. pass.vaults
    /\ AtAutomation =>
         /\ pass.i \in 1 .. pass.autos
         /\ Len(Fleet[pass.v]) <= pass.autos /\ pass.autos <= Len(fleet[pass.v])
    /\ pass.at = "mined" <=> pass.mined # "none"

\* The loops have yet to come to an automation, or have come past it.
Ahead(a) ==
    \/ pass.at = "start"
    \/ Working /\ \/ a[1] > pass.v
                  \/ a[1] = pass.v /\ \/ pass.at = "vault"
                                      \/ pass.at = "flags" /\ a[2] = pass.i
                                      \/ a[2] > pass.i
Behind(a) ==
    \/ pass.at = "done"
    \/ Working /\ \/ a[1] < pass.v
                  \/ a[1] = pass.v /\ pass.at # "vault" /\ a[2] < pass.i

Fresh(h) == h.outcome = "none" /\ h.ran = 0 /\ ~h.still /\ ~h.lost /\ ~h.silent
Untouched == \A a \in AutomationIds : Ahead(a) => Fresh(seen[a])
Handled == \A a \in FirstIds : Behind(a) => seen[a].outcome # "none"

\* A failure is of a run that fails of itself, or of an automation others changed.
Fails(x) == ~Runs(x) /\ RevertOf(x).name \notin Refusal
Broke(a) == seen[a].ran = 0 /\ (seen[a].still => Fails(AutoAt(a)))

\* What the keeper has learnt of the automation it is at, if nobody moved.
HereOK ==
    pass.at \in {"trigger", "execute", "mined"} =>
        /\ seen[Here].outcome = "none" /\ ~seen[Here].lost /\ ~seen[Here].silent
        /\ pass.at # "mined" => seen[Here].ran = 0 /\ (seen[Here].still => Public(AutoAt(Here)))
        /\ pass.at = "execute" => (seen[Here].still => AutoAt(Here).trigger = "met")
        /\ pass.mined = "executed" => seen[Here].ran = 1
        /\ pass.mined = "reverted" => Broke(Here)

\* An automation that was due all the time is as it was, until it runs.
Intact ==
    \A a \in FirstIds : seen[a].due /\ seen[a].ran = 0 =>
        /\ AutoAt(a).active = First(a).active /\ AutoAt(a).ownerOnly = First(a).ownerOnly
        /\ AutoAt(a).trigger = First(a).trigger

Due(a) == seen[a].due /\ Public(First(a)) /\ First(a).trigger = "met"
SkippedRightly ==
    \A a \in FirstIds : seen[a].outcome = "skipped" /\ ~seen[a].lost => ~Due(a)

\* The parts of OutcomesTrue.
OutcomeOK(a) ==
    /\ seen[a].outcome = "executed" => seen[a].ran = 1
    /\ seen[a].outcome = "failed" /\ ~seen[a].lost => Broke(a)
    /\ seen[a].outcome = "failed" /\ ~seen[a].silent =>
          \E r \in reports : r.of = a /\ r.path = "execution"
ReasonOK(r) ==
    /\ r.reason.step # 0 => r.errorData.name \in Wrapper /\ r.errorData.step = r.reason.step
    /\ r.reason.text = "message" => r.errorData.reason = "known"
    /\ r.reason.text \notin Wrapper
\* What a report tells of its automation.
Fits(r, h) ==
    /\ ~h.silent
    /\ IF r.path = "execution" THEN h.outcome = "failed" ELSE h.outcome = "skipped" /\ h.lost
ReportOK(r) == r.of \in AutomationIds /\ Fits(r, seen[r.of]) /\ ReasonOK(r)
With(o) == {a \in AutomationIds : seen[a].outcome = o}
CountsOK == \A o \in Outcome : count[o] = Cardinality(With(o))

KeeperInv ==
    /\ FleetOK /\ PassOK
    /\ seen \in [AutomationIds -> History]
    /\ count \in [executed : Nat, skipped : Nat, failed : Nat]
    /\ Untouched /\ Handled /\ HereOK /\ Intact /\ SkippedRightly
    /\ \A a \in AutomationIds : OutcomeOK(a)
    /\ \A r \in reports : ReportOK(r)
    /\ ~secret => reports = {}
    /\ CountsOK

-----------------------------------------------------------------------------
(* The automations. *)

LEMMA IdsAre ==
    ASSUME FleetOK, NEW v, NEW i
    PROVE  <<v, i>> \in AutomationIds <=> v \in 1 .. Len(fleet) /\ i \in 1 .. Len(fleet[v])
<1>1. <<v, i>> \in AutomationIds <=> v \in 1 .. Len(fleet) /\ i \in 1 .. 3 /\ i <= Len(fleet[v])
  BY DEF AutomationIds
<1>2. v \in 1 .. Len(fleet) => Len(fleet[v]) \in Nat /\ Len(fleet[v]) <= 3
  BY DEF FleetOK
<1> QED BY <1>1, <1>2

LEMMA IdsArePairs ==
    ASSUME FleetOK, NEW a \in AutomationIds
    PROVE  /\ a = <<a[1], a[2]>> /\ a[1] \in 1 .. Len(fleet) /\ a[2] \in 1 .. Len(fleet[a[1]])
           /\ a[1] \in Nat /\ a[2] \in Nat
           /\ AutoAt(a) \in OnChain
<1>1. a = <<a[1], a[2]>> /\ a[1] \in 1 .. Len(fleet) /\ a[2] \in 1 .. 3 /\ a[2] <= Len(fleet[a[1]])
  BY DEF AutomationIds
<1>2. fleet[a[1]] \in Seq(OnChain) /\ Len(fleet[a[1]]) \in Nat /\ Len(fleet) \in Nat
  BY <1>1 DEF FleetOK
<1>3. a[2] \in 1 .. Len(fleet[a[1]])
  BY <1>1, <1>2
<1> QED BY <1>1, <1>2, <1>3 DEF AutoAt

LEMMA IdsFinite ==
    ASSUME FleetOK
    PROVE  IsFiniteSet(AutomationIds) /\ \A o : IsFiniteSet(With(o))
<1>1. Len(fleet) \in Int /\ 1 \in Int /\ 3 \in Int
  BY DEF FleetOK
<1>2. IsFiniteSet((1 .. Len(fleet)) \X (1 .. 3))
  BY <1>1, FS_Interval, FS_Product
<1>3. IsFiniteSet(AutomationIds)
  BY <1>2, FS_Subset DEF AutomationIds
<1> QED BY <1>3, FS_Subset DEF With

\* Where the keeper is, when it is at an automation.
LEMMA HereIs ==
    ASSUME KeeperInv, AtAutomation
    PROVE  /\ Here \in AutomationIds /\ Here[1] = pass.v /\ Here[2] = pass.i
           /\ AutoAt(Here) \in OnChain /\ seen[Here] \in History
           /\ pass.at = "flags" => Fresh(seen[Here])
           /\ seen[Here].outcome = "none"
<1>1. /\ pass.v \in 1 .. Len(fleet) /\ pass.i \in 1 .. pass.autos
      /\ pass.autos <= Len(fleet[pass.v]) /\ pass.autos \in Nat
  BY DEF KeeperInv, PassOK, AtAutomation, Working
<1>2. FleetOK /\ Len(fleet[pass.v]) \in Nat
  BY <1>1 DEF KeeperInv, FleetOK
<1>3. pass.i \in 1 .. Len(fleet[pass.v])
  BY <1>1, <1>2
<1>4. Here \in AutomationIds /\ Here[1] = pass.v /\ Here[2] = pass.i
  BY <1>1, <1>2, <1>3, IdsAre DEF Here
<1>5. AutoAt(Here) \in OnChain /\ seen[Here] \in History
  BY <1>2, <1>4, IdsArePairs DEF KeeperInv
<1>6. pass.at = "flags" => Fresh(seen[Here])
  BY <1>4 DEF KeeperInv, Untouched, Ahead, Working
<1>7. seen[Here].outcome = "none"
  BY <1>6 DEF KeeperInv, HereOK, AtAutomation, Fresh
<1> QED BY <1>4, <1>5, <1>6, <1>7

-----------------------------------------------------------------------------
(* The keeper's loops. *)

\* What follows an automation: the next of the vault, the next vault or the end.
LEMMA OnwardGoes ==
    ASSUME FleetOK, PassOK, AtAutomation,
           NEW p, p = [pass EXCEPT !.mined = "none"], pass' = Onward(p), fleet' = fleet
    PROVE  /\ PassOK' /\ ~(pass'.at \in {"trigger", "execute", "mined"}) /\ pass'.mined = "none"
           /\ \A a \in AutomationIds : Ahead(a)' => a # Here /\ Ahead(a)
           /\ \A a \in FirstIds : Behind(a)' => a = Here \/ Behind(a)
<1>1. /\ pass.v \in 1 .. pass.vaults /\ pass.vaults = Len(fleet) /\ pass.i \in 1 .. pass.autos
      /\ Len(Fleet[pass.v]) <= pass.autos /\ pass.autos <= Len(fleet[pass.v])
      /\ pass.v \in Nat /\ pass.i \in Nat /\ pass.autos \in Nat /\ pass.vaults \in Nat
  BY DEF PassOK, AtAutomation, Working
<1>2. pass \in [at : PassStep, vaults : Nat, v : Nat, autos : Nat, i : Nat,
                mined : {"none", "executed", "reverted"}]
  BY DEF PassOK
<1>3. ASSUME NEW a \in AutomationIds
      PROVE  /\ a[1] \in Nat /\ a[2] \in Nat /\ a[1] <= Len(fleet) /\ 1 <= a[1] /\ 1 <= a[2]
             /\ a = Here <=> a[1] = pass.v /\ a[2] = pass.i
             /\ a \in FirstIds /\ a[1] = pass.v => a[2] <= pass.autos
  <2>1. a = <<a[1], a[2]>> /\ a[1] \in 1 .. Len(fleet) /\ a[2] \in 1 .. Len(fleet[a[1]])
        /\ a[1] \in Nat /\ a[2] \in Nat
    BY IdsArePairs
  <2>2. Len(fleet) \in Nat /\ Len(fleet[a[1]]) \in Nat
    BY <2>1 DEF FleetOK
  <2>3. a = Here <=> a[1] = pass.v /\ a[2] = pass.i
    BY <2>1 DEF Here
  <2>4. a \in FirstIds /\ a[1] = pass.v => a[2] <= Len(Fleet[pass.v])
    BY DEF FirstIds
  <2>5. pass.v \in 1 .. Len(Fleet) /\ Len(Fleet[pass.v]) \in Nat
    BY <1>1, KeeperAssumption DEF FleetOK
  <2>6. a \in FirstIds /\ a[1] = pass.v => a[2] <= pass.autos
    BY <1>1, <2>1, <2>4, <2>5
  <2> QED BY <2>1, <2>2, <2>3, <2>6
<1>4. FirstIds \subseteq AutomationIds
  BY DEF FirstIds
<1>5. CASE pass.i < pass.autos
  <2>1. pass' = [pass EXCEPT !.mined = "none", !.at = "flags", !.i = @ + 1]
    BY <1>2, <1>5 DEF Onward
  <2>2. /\ pass'.at = "flags" /\ pass'.i = pass.i + 1 /\ pass'.v = pass.v /\ pass'.mined = "none"
        /\ pass'.autos = pass.autos /\ pass'.vaults = pass.vaults
        /\ pass' \in [at : PassStep, vaults : Nat, v : Nat, autos : Nat, i : Nat,
                      mined : {"none", "executed", "reverted"}]
    <3>1. pass.i + 1 \in Nat /\ "flags" \in PassStep
      BY <1>1 DEF PassStep
    <3> QED BY <1>2, <2>1, <3>1
  <2>3. PassOK'
    BY <1>1, <1>5, <2>2 DEF PassOK, AtAutomation, Working
  <2>4. \A a \in AutomationIds : Ahead(a)' => a # Here /\ Ahead(a)
    BY <1>1, <1>3, <2>2 DEF Ahead, Working, AtAutomation
  <2>5. \A a \in FirstIds : Behind(a)' => a = Here \/ Behind(a)
    BY <1>1, <1>3, <1>4, <2>2 DEF Behind, Working, AtAutomation
  <2> QED BY <2>2, <2>3, <2>4, <2>5
<1>6. CASE ~(pass.i < pass.autos) /\ pass.v < pass.vaults
  <2>1. pass' = [pass EXCEPT !.mined = "none", !.at = "vault", !.v = @ + 1]
    BY <1>2, <1>6 DEF Onward
  <2>2. /\ pass'.at = "vault" /\ pass'.v = pass.v + 1 /\ pass'.mined = "none"
        /\ pass'.vaults = pass.vaults
        /\ pass' \in [at : PassStep, vaults : Nat, v : Nat, autos : Nat, i : Nat,
                      mined : {"none", "executed", "reverted"}]
    <3>1. pass.v + 1 \in Nat /\ "vault" \in PassStep
      BY <1>1 DEF PassStep
    <3> QED BY <1>2, <2>1, <3>1
  <2>3. PassOK'
    BY <1>1, <1>6, <2>2 DEF PassOK, AtAutomation, Working
  <2>4. \A a \in AutomationIds : Ahead(a)' => a # Here /\ Ahead(a)
    BY <1>1, <1>3, <2>2 DEF Ahead, Working, AtAutomation
  <2>5. \A a \in FirstIds : Behind(a)' => a = Here \/ Behind(a)
    <3>1. pass.i = pass.autos
      BY <1>1, <1>6
    <3>2. SUFFICES ASSUME NEW a \in FirstIds, Behind(a)' PROVE a = Here \/ Behind(a)
      OBVIOUS
    <3>3. a[1] \in Nat /\ a[1] < pass.v + 1
      BY <1>3, <1>4, <2>2, <3>2 DEF Behind, Working
    <3>4. CASE a[1] = pass.v
      <4>1. a[2] \in Nat /\ a[2] <= pass.autos /\ (a = Here <=> a[2] = pass.i)
        BY <1>3, <1>4, <3>4
      <4>2. pass.at # "vault" /\ Working
        BY DEF AtAutomation, Working
      <4> QED BY <1>1, <3>1, <3>4, <4>1, <4>2 DEF Behind
    <3>5. CASE a[1] # pass.v
      BY <1>1, <3>3, <3>5 DEF Behind, Working, AtAutomation
    <3> QED BY <3>4, <3>5
  <2> QED BY <2>2, <2>3, <2>4, <2>5
<1>7. CASE ~(pass.i < pass.autos) /\ ~(pass.v < pass.vaults)
  <2>1. pass' = [pass EXCEPT !.mined = "none", !.at = "done"]
    BY <1>2, <1>7 DEF Onward
  <2>2. /\ pass'.at = "done" /\ pass'.mined = "none"
        /\ pass' \in [at : PassStep, vaults : Nat, v : Nat, autos : Nat, i : Nat,
                      mined : {"none", "executed", "reverted"}]
    BY <1>1, <1>2, <2>1 DEF PassStep
  <2>3. PassOK'
    BY <2>2 DEF PassOK, AtAutomation, Working
  <2>4. \A a \in AutomationIds : Ahead(a)' => a # Here /\ Ahead(a)
    BY <2>2 DEF Ahead, Working
  <2>5. \A a \in FirstIds : Behind(a)' => a = Here \/ Behind(a)
    BY <1>1, <1>3, <1>4, <1>7 DEF Behind, Working, AtAutomation
  <2> QED BY <2>2, <2>3, <2>4, <2>5
<1> QED BY <1>5, <1>6, <1>7

\* A vault is opened: its automations, as many as it has now, are ahead.
LEMMA OpenGoes ==
    ASSUME KeeperInv, openVault
    PROVE  /\ PassOK' /\ pass'.mined = "none" /\ ~(pass'.at \in {"trigger", "execute", "mined"})
           /\ \A a \in AutomationIds : Ahead(a)' => Ahead(a)
           /\ \A a \in FirstIds : Behind(a)' => Behind(a)
<1> DEFINE n == Len(fleet[pass.v])
           p == [pass EXCEPT !.autos = n, !.i = 1]
<1>1. /\ pass.at = "vault" /\ fleet' = fleet
      /\ pass' = IF n = 0 THEN Onward(p) ELSE [p EXCEPT !.at = "flags"]
  BY DEF openVault
<1>2. FleetOK /\ PassOK
  BY DEF KeeperInv
<1>3. /\ pass.v \in 1 .. pass.vaults /\ pass.vaults = Len(fleet) /\ pass.mined = "none"
      /\ pass.v \in Nat /\ pass.vaults \in Nat
      /\ pass \in [at : PassStep, vaults : Nat, v : Nat, autos : Nat, i : Nat,
                   mined : {"none", "executed", "reverted"}]
  BY <1>1, <1>2 DEF PassOK, Working
<1>4. n \in Nat /\ Len(Fleet[pass.v]) <= n
  BY <1>2, <1>3 DEF FleetOK
<1>5. ASSUME NEW a \in AutomationIds
      PROVE  /\ a[1] \in Nat /\ a[2] \in Nat /\ a[1] <= Len(fleet) /\ 1 <= a[1] /\ 1 <= a[2]
             /\ a[1] = pass.v => a[2] <= n
  BY <1>2, IdsArePairs DEF FleetOK
<1>6. FirstIds \subseteq AutomationIds
  BY DEF FirstIds
<1> HIDE DEF n
<1>7. CASE n # 0
  <2>1. /\ pass'.at = "flags" /\ pass'.i = 1 /\ pass'.v = pass.v /\ pass'.mined = "none"
        /\ pass'.autos = n /\ pass'.vaults = pass.vaults
        /\ pass' \in [at : PassStep, vaults : Nat, v : Nat, autos : Nat, i : Nat,
                      mined : {"none", "executed", "reverted"}]
    BY <1>1, <1>3, <1>4, <1>7 DEF PassStep
  <2>2. PassOK'
    <3>1. 1 \in 1 .. n
      BY <1>4, <1>7
    <3> QED BY <1>1, <1>3, <1>4, <2>1, <3>1 DEF PassOK, AtAutomation, Working, n
  <2> QED BY <1>1, <1>3, <1>5, <1>6, <2>1, <2>2 DEF Ahead, Behind, Working
<1>8. CASE n = 0 /\ pass.v < pass.vaults
  <2>1. pass' = [p EXCEPT !.at = "vault", !.v = @ + 1]
    BY <1>1, <1>3, <1>8 DEF Onward
  <2>2. /\ pass'.at = "vault" /\ pass'.v = pass.v + 1 /\ pass'.mined = "none"
        /\ pass'.vaults = pass.vaults
        /\ pass' \in [at : PassStep, vaults : Nat, v : Nat, autos : Nat, i : Nat,
                      mined : {"none", "executed", "reverted"}]
    <3>1. pass.v + 1 \in Nat /\ "vault" \in PassStep /\ 1 \in Nat
      BY <1>3 DEF PassStep
    <3> QED BY <1>3, <1>4, <2>1, <3>1
  <2>3. PassOK'
    BY <1>1, <1>3, <1>8, <2>2 DEF PassOK, AtAutomation, Working
  <2> QED BY <1>1, <1>3, <1>5, <1>6, <1>8, <2>2, <2>3 DEF Ahead, Behind, Working
<1>9. CASE n = 0 /\ ~(pass.v < pass.vaults)
  <2>1. pass' = [p EXCEPT !.at = "done"]
    BY <1>1, <1>3, <1>9 DEF Onward
  <2>2. /\ pass'.at = "done" /\ pass'.mined = "none"
        /\ pass' \in [at : PassStep, vaults : Nat, v : Nat, autos : Nat, i : Nat,
                      mined : {"none", "executed", "reverted"}]
    BY <1>3, <1>9, <2>1 DEF PassStep
  <2>3. PassOK'
    BY <2>2 DEF PassOK, AtAutomation, Working
  <2> QED BY <1>1, <1>3, <1>5, <1>6, <1>9, <2>2, <2>3 DEF Ahead, Behind, Working
<1> QED BY <1>4, <1>7, <1>8, <1>9

\* A step of the keeper that settles nothing leaves what is known untouched.
LEMMA UnsettledKeeps ==
    ASSUME KeeperInv, UNCHANGED <<fleet, count, reports, seen, secret>>, PassOK', HereOK',
           \A a \in AutomationIds : Ahead(a)' => Ahead(a),
           \A a \in FirstIds : Behind(a)' => Behind(a)
    PROVE  KeeperInv'
<1>1. AutomationIds' = AutomationIds /\ FirstIds' = FirstIds /\ FleetOK'
  BY DEF AutomationIds, FirstIds, KeeperInv, FleetOK
<1>2. Untouched' /\ Handled'
  BY <1>1 DEF KeeperInv, Untouched, Handled
<1>3. Intact' /\ SkippedRightly'
  BY <1>1 DEF KeeperInv, Intact, SkippedRightly, Due, AutoAt
<1>4. \A a \in AutomationIds' : OutcomeOK(a)'
  BY <1>1 DEF KeeperInv, OutcomeOK, Broke, AutoAt
<1>5. (\A r \in reports' : ReportOK(r)') /\ CountsOK'
  <2>1. \A o : With(o)' = With(o)
    BY <1>1 DEF With
  <2> QED BY <1>1, <2>1 DEF KeeperInv, ReportOK, Fits, ReasonOK, CountsOK
<1> QED BY <1>1, <1>2, <1>3, <1>4, <1>5 DEF KeeperInv

-----------------------------------------------------------------------------
(* The keeper is done with an automation. *)

LEMMA Concluded ==
    ASSUME KeeperInv, AtAutomation, fleet' = fleet,
           pass' = Onward([pass EXCEPT !.mined = "none"]),
           NEW o \in Outcome, NEW h \in History,
           h.outcome = o, h.due = seen[Here].due, h.still = seen[Here].still, h.ran = seen[Here].ran,
           seen' = [seen EXCEPT ![Here] = h],
           count' = [count EXCEPT ![o] = @ + 1],
           o = "executed" => h.ran = 1,
           o = "failed" /\ ~h.lost => Broke(Here),
           o = "failed" /\ ~h.silent => \E r \in reports' : r.of = Here /\ r.path = "execution",
           o = "skipped" /\ ~h.lost /\ Here \in FirstIds => ~Due(Here),
           reports \subseteq reports',
           \A r \in reports' \ reports : r.of = Here /\ Fits(r, h) /\ ReasonOK(r),
           secret' = secret, ~secret => reports' = reports
    PROVE  KeeperInv'
<1>1. FleetOK /\ PassOK /\ seen \in [AutomationIds -> History]
  BY DEF KeeperInv
<1>2. Here \in AutomationIds /\ seen[Here].outcome = "none"
  BY HereIs
<1>3. AutomationIds' = AutomationIds /\ FirstIds' = FirstIds /\ FleetOK'
  BY <1>1 DEF AutomationIds, FirstIds, FleetOK
<1> DEFINE here == Here
<1>4. /\ here \in AutomationIds /\ seen' \in [AutomationIds' -> History] /\ seen'[here] = h
      /\ \A a \in AutomationIds \ {here} : seen'[a] = seen[a]
  BY <1>1, <1>2, <1>3
<1>5. /\ PassOK' /\ ~(pass'.at \in {"trigger", "execute", "mined"}) /\ pass'.mined = "none"
      /\ \A a \in AutomationIds : Ahead(a)' => a # here /\ Ahead(a)
      /\ \A a \in FirstIds : Behind(a)' => a = here \/ Behind(a)
  BY <1>1, OnwardGoes
<1>6. \A a \in AutomationIds : AutoAt(a)' = AutoAt(a)
  BY DEF AutoAt
<1>7. FirstIds \subseteq AutomationIds
  BY DEF FirstIds
<1>8. h.outcome \in Outcome /\ o # "none" /\ seen[here].outcome = "none"
  BY <1>2 DEF Outcome
<1> HIDE DEF here
<1>9. Untouched' /\ Handled' /\ HereOK'
  <2>1. Untouched'
    BY <1>3, <1>4, <1>5 DEF KeeperInv, Untouched
  <2>2. Handled'
    BY <1>3, <1>4, <1>5, <1>7, <1>8 DEF KeeperInv, Handled
  <2>3. HereOK'
    BY <1>5 DEF HereOK
  <2> QED BY <2>1, <2>2, <2>3
<1>10. \A a \in AutomationIds : /\ seen'[a].due = seen[a].due /\ seen'[a].ran = seen[a].ran
                                /\ seen'[a].still = seen[a].still
  BY <1>4 DEF here
<1>11. Intact' /\ SkippedRightly'
  <2>1. Intact'
    BY <1>3, <1>6, <1>7, <1>10 DEF KeeperInv, Intact
  <2>2. ASSUME NEW a \in FirstIds, seen'[a].outcome = "skipped", ~seen'[a].lost PROVE ~Due(a)'
    <3>1. Due(a)' <=> Due(a)
      BY <1>7, <1>10 DEF Due
    <3>2. CASE a = here
      BY <1>4, <2>2, <3>1, <3>2 DEF here
    <3>3. CASE a # here
      BY <1>4, <1>7, <2>2, <3>1, <3>3 DEF KeeperInv, SkippedRightly
    <3> QED BY <3>2, <3>3
  <2> QED BY <1>3, <2>1, <2>2 DEF SkippedRightly
<1>12. \A a \in AutomationIds : Broke(a)' <=> Broke(a)
  BY <1>6, <1>10 DEF Broke
<1>13. \A a \in AutomationIds : OutcomeOK(a)'
  <2> SUFFICES ASSUME NEW a \in AutomationIds PROVE OutcomeOK(a)'
    OBVIOUS
  <2>1. CASE a = here
    BY <1>4, <1>12, <2>1 DEF OutcomeOK, here
  <2>2. CASE a # here
    BY <1>4, <1>12, <2>2 DEF OutcomeOK, KeeperInv
  <2> QED BY <2>1, <2>2
<1>14. \A r \in reports' : ReportOK(r)'
  <2> SUFFICES ASSUME NEW r \in reports' PROVE ReportOK(r)'
    OBVIOUS
  <2>1. CASE r \in reports
    <3>1. ReportOK(r)
      BY <2>1 DEF KeeperInv
    <3>2. r.of # here
      BY <1>8, <3>1 DEF ReportOK, Fits
    <3> QED BY <1>3, <1>4, <3>1, <3>2 DEF ReportOK, Fits, ReasonOK
  <2>2. CASE r \notin reports
    BY <1>3, <1>4, <2>2 DEF ReportOK, Fits, ReasonOK, here
  <2> QED BY <2>1, <2>2
<1>15. CountsOK'
  <2>1. \A x \in Outcome : With(x)' = IF x = o THEN With(x) \cup {here} ELSE With(x)
    BY <1>3, <1>4, <1>8 DEF With, Outcome
  <2>2. here \notin With(o) /\ \A x : IsFiniteSet(With(x))
    BY <1>1, <1>8, IdsFinite DEF With
  <2>3. \A x \in Outcome : count[x] = Cardinality(With(x)) /\ count[x] \in Nat
    BY DEF KeeperInv, CountsOK, Outcome
  <2>4. Cardinality(With(o) \cup {here}) = Cardinality(With(o)) + 1
    BY <2>2, FS_AddElement
  <2>5. \A x \in Outcome : count'[x] = IF x = o THEN count[x] + 1 ELSE count[x]
    BY DEF KeeperInv, Outcome
  <2> QED BY <2>1, <2>3, <2>4, <2>5 DEF CountsOK
<1>16. count' \in [executed : Nat, skipped : Nat, failed : Nat]
  BY DEF KeeperInv, Outcome
<1> QED BY <1>3, <1>4, <1>5, <1>9, <1>11, <1>13, <1>14, <1>15, <1>16 DEF KeeperInv

\* The reasons of the reports.
LEMMA ReasonsTrue ==
    ASSUME NEW data, NEW r, r.reason = decodeRevert(data), r.errorData = data
    PROVE  ReasonOK(r)
<1>1. NoData.name = "no data" /\ "no data" \notin Wrapper
  BY DEF NoData, Wrapper
<1>2. CASE data = NoData
  <2>1. r.reason = [step |-> 0, text |-> "fallback"]
    BY <1>1, <1>2 DEF decodeRevert
  <2>2. r.reason.step = 0 /\ r.reason.text = "fallback"
    BY <2>1
  <2> QED BY <2>2 DEF ReasonOK, Wrapper
<1>3. CASE data # NoData /\ data.name \in Wrapper
  <2> DEFINE words == CASE data.reason = "empty" -> "without reason"
                        [] data.reason = "known" -> "message"
                        [] OTHER -> "selector"
  <2>1. r.reason = [step |-> data.step, text |-> words]
    BY <1>3 DEF decodeRevert
  <2>2. r.reason.step = data.step /\ r.reason.text = words
    <3> HIDE DEF words
    <3> QED BY <2>1
  <2>3. words \in {"without reason", "message", "selector"} /\ (words = "message" => data.reason = "known")
    OBVIOUS
  <2> HIDE DEF words
  <2> QED BY <1>3, <2>2, <2>3 DEF ReasonOK, Wrapper
<1>4. CASE data # NoData /\ data.name \notin Wrapper
  <2>1. r.reason = [step |-> 0, text |-> Text(data.name)]
    BY <1>4 DEF decodeRevert
  <2>2. r.reason.step = 0 /\ r.reason.text = Text(data.name)
    BY <2>1
  <2>3. Text(data.name) \in ERROR_SIGNATURES \cup {"selector"}
    BY DEF Text
  <2> QED BY <2>2, <2>3 DEF ReasonOK, Wrapper, ERROR_SIGNATURES
<1> QED BY <1>2, <1>3, <1>4

\* A run the keeper may ask for that reverts does so of itself.
LEMMA RunFacts ==
    ASSUME NEW x \in OnChain, Public(x), x.trigger = "met", ~Runs(x)
    PROVE  Fails(x)
<1>1. x.active /\ ~x.ownerOnly /\ "met" \notin Reason /\ x.ending \in Ending
  BY DEF Public, OnChain, Reason
<1>2. RevertOf(x) = NoError \/ RevertOf(x) = x.ending
  BY <1>1 DEF RevertOf
<1>3. RevertOf(x) = x.ending
  BY <1>2 DEF Runs
<1>4. x.ending.name \notin Refusal
  <2>1. CASE x.ending \in {StepError(name, 2, reason) : name \in Wrapper, reason \in Reason}
    <3>1. PICK name \in Wrapper, reason \in Reason : x.ending = StepError(name, 2, reason)
      BY <2>1
    <3>2. x.ending.name = name
      BY <3>1 DEF StepError
    <3> QED BY <3>2 DEF Wrapper, Refusal
  <2>2. CASE x.ending = NoError \/ x.ending = NoData
    <3>1. NoError.name = "none" /\ NoData.name = "no data"
      BY DEF NoError, NoData
    <3> QED BY <2>2, <3>1 DEF Refusal
  <2>3. CASE \E name \in {"MaxStepsExceeded", "ContextSlotOutOfBounds", "InsufficientFeeDeposit",
                          "TransferRefused"} : x.ending = VaultError(name)
    BY <2>3 DEF VaultError, Refusal
  <2> QED BY <1>1, <2>1, <2>2, <2>3 DEF Ending, Settlement
<1> QED BY <1>3, <1>4 DEF Fails

-----------------------------------------------------------------------------
(* The keeper's calls. *)

\* Skipping an automation is right: it was not due, or the answer was lost.
LEMMA SkipKeeps ==
    ASSUME KeeperInv, pass.at \in {"flags", "trigger"}, fleet' = fleet, Skip,
           NEW lost \in BOOLEAN, NEW silent \in BOOLEAN, secret' = secret,
           seen' = [seen EXCEPT ![Here] = [@ EXCEPT !.outcome = "skipped", !.lost = lost, !.silent = silent]],
           ~lost => /\ pass.at = "flags" => ~Public(AutoAt(Here))
                    /\ pass.at = "trigger" => ~(AutoAt(Here).active /\ AutoAt(Here).trigger = "met"),
           reports \subseteq reports', ~secret => reports' = reports,
           \A r \in reports' \ reports :
               r.of = Here /\ r.path # "execution" /\ lost /\ ~silent /\ ReasonOK(r)
    PROVE  KeeperInv'
<1>1. AtAutomation /\ pass.mined = "none"
  BY DEF AtAutomation, KeeperInv, PassOK
<1>2. Here \in AutomationIds /\ seen[Here] \in History /\ seen[Here].ran = 0
  BY <1>1, HereIs DEF KeeperInv, HereOK, Fresh
<1> DEFINE h == [seen[Here] EXCEPT !.outcome = "skipped", !.lost = lost, !.silent = silent]
<1>3. /\ h \in History /\ h.outcome = "skipped" /\ h.lost = lost /\ h.silent = silent
      /\ h.due = seen[Here].due /\ h.still = seen[Here].still /\ h.ran = seen[Here].ran
  BY <1>2 DEF History, Outcome
<1>4. seen' = [seen EXCEPT ![Here] = h]
  BY <1>2 DEF KeeperInv
<1>5. pass' = Onward([pass EXCEPT !.mined = "none"])
  <2>1. [pass EXCEPT !.mined = "none"] = pass
    BY <1>1 DEF KeeperInv, PassOK
  <2> QED BY <2>1 DEF Skip
<1>6. count' = [count EXCEPT !["skipped"] = @ + 1]
  BY DEF Skip
<1> HIDE DEF h
<1>7. ~lost /\ Here \in FirstIds => ~Due(Here)
  BY <1>2 DEF KeeperInv, Intact, Due, Public
<1>8. "skipped" \in Outcome
  BY DEF Outcome
<1>9. \A r \in reports' \ reports : r.of = Here /\ Fits(r, h) /\ ReasonOK(r)
  BY <1>3 DEF Fits
<1> QED BY <1>1, <1>3, <1>4, <1>5, <1>6, <1>7, <1>8, <1>9, Concluded

\* A failure is counted, reported unless it is kept silent, and so.
LEMMA FailedKeeps ==
    ASSUME KeeperInv, pass.at \in {"execute", "mined"}, fleet' = fleet, secret' = secret,
           NEW hash, NEW data, NEW lost \in BOOLEAN,
           Failed(hash, data, lost),
           ~lost => Broke(Here)
    PROVE  KeeperInv'
<1>1. AtAutomation
  BY DEF AtAutomation
<1>2. Here \in AutomationIds /\ seen[Here] \in History
  BY <1>1, HereIs
<1>3. PICK posted \in BOOLEAN :
          /\ Reported("execution", hash, data, posted)
          /\ seen' = [seen EXCEPT ![Here].outcome = "failed", ![Here].lost = lost,
                                  ![Here].silent = ~posted]
  BY DEF Failed
<1> DEFINE h == [seen[Here] EXCEPT !.outcome = "failed", !.lost = lost, !.silent = ~posted]
           r == [of |-> Here, path |-> "execution", hash |-> hash, errorData |-> data,
                 reason |-> decodeRevert(data)]
<1>4. /\ h \in History /\ h.outcome = "failed" /\ h.lost = lost /\ h.silent = ~posted
      /\ h.due = seen[Here].due /\ h.still = seen[Here].still /\ h.ran = seen[Here].ran
  BY <1>2 DEF History, Outcome
<1>5. seen' = [seen EXCEPT ![Here] = h]
  BY <1>2, <1>3 DEF KeeperInv
<1>6. pass' = Onward([pass EXCEPT !.mined = "none"]) /\ count' = [count EXCEPT !["failed"] = @ + 1]
  BY DEF Failed
<1>7. reports' = (IF posted THEN reports \cup {r} ELSE reports) /\ (posted => secret)
  BY <1>3 DEF Reported
<1>8. r.of = Here /\ r.path = "execution" /\ r.reason = decodeRevert(data) /\ r.errorData = data
  OBVIOUS
<1> HIDE DEF h, r
<1>9. ReasonOK(r) /\ (posted => Fits(r, h))
  BY <1>4, <1>8, ReasonsTrue DEF Fits
<1>10. "failed" \in Outcome
  BY DEF Outcome
<1>11. /\ reports \subseteq reports'
       /\ ~secret => reports' = reports
       /\ ~h.silent => \E q \in reports' : q.of = Here /\ q.path = "execution"
       /\ \A q \in reports' \ reports : q.of = Here /\ Fits(q, h) /\ ReasonOK(q)
  BY <1>4, <1>7, <1>8, <1>9
<1> QED BY <1>1, <1>4, <1>5, <1>6, <1>10, <1>11, Concluded

\* The count of the vaults, and the end of a pass by a failing call.
LEMMA StartKeeps ==
    ASSUME KeeperInv, readVaultCount \/ openVault \/ abort, secret' = secret
    PROVE  KeeperInv'
<1>1. UNCHANGED <<fleet, count, reports, seen>>
  BY DEF readVaultCount, openVault, abort
<1>2. FleetOK /\ PassOK
  BY DEF KeeperInv
<1>3. CASE openVault
  <2>1. /\ PassOK' /\ pass'.mined = "none" /\ ~(pass'.at \in {"trigger", "execute", "mined"})
        /\ \A a \in AutomationIds : Ahead(a)' => Ahead(a)
        /\ \A a \in FirstIds : Behind(a)' => Behind(a)
    BY <1>3, OpenGoes
  <2>2. HereOK'
    BY <2>1 DEF HereOK
  <2> QED BY <1>1, <2>1, <2>2, UnsettledKeeps
<1>4. CASE abort
  <2>1. pass' = [pass EXCEPT !.at = "aborted"] /\ pass.mined = "none"
    BY <1>2, <1>4 DEF abort, PassOK
  <2>2. /\ pass'.at = "aborted" /\ pass'.mined = "none"
        /\ pass' \in [at : PassStep, vaults : Nat, v : Nat, autos : Nat, i : Nat,
                      mined : {"none", "executed", "reverted"}]
    BY <1>2, <2>1 DEF PassOK, PassStep
  <2>3. PassOK' /\ HereOK'
    BY <2>2 DEF PassOK, HereOK, AtAutomation, Working
  <2>4. (\A a \in AutomationIds : Ahead(a)' => Ahead(a)) /\ (\A a \in FirstIds : Behind(a)' => Behind(a))
    BY <2>2 DEF Ahead, Behind, Working
  <2> QED BY <1>1, <2>3, <2>4, UnsettledKeeps
<1>5. CASE readVaultCount
  <2> DEFINE at == IF fleet = <<>> THEN "done" ELSE "vault"
  <2>1. pass' = [pass EXCEPT !.vaults = Len(fleet), !.at = at] /\ pass.at = "start"
    BY <1>5 DEF readVaultCount
  <2>2. at \in PassStep /\ Len(fleet) \in Nat
    BY <1>2 DEF PassStep, FleetOK
  <2>3. fleet = <<>> => AutomationIds = {}
    BY DEF AutomationIds
  <2>4. fleet # <<>> => 1 \in 1 .. Len(fleet)
    <3>1. fleet # <<>> => Len(fleet) \in Nat \ {0}
      BY <1>2, EmptySeq DEF FleetOK
    <3> QED BY <3>1
  <2>5. at = "done" <=> fleet = <<>>
    OBVIOUS
  <2>6. at \in {"done", "vault"}
    OBVIOUS
  <2> HIDE DEF at
  <2>7. /\ pass'.at = at /\ pass'.vaults = Len(fleet) /\ pass'.v = 1 /\ pass'.mined = "none"
        /\ pass' \in [at : PassStep, vaults : Nat, v : Nat, autos : Nat, i : Nat,
                      mined : {"none", "executed", "reverted"}]
    BY <1>2, <2>1, <2>2 DEF PassOK
  <2>8. PassOK' /\ HereOK'
    BY <1>1, <2>4, <2>5, <2>6, <2>7 DEF PassOK, HereOK, AtAutomation, Working
  <2>9. \A a \in AutomationIds : Ahead(a)' => Ahead(a)
    BY <2>1 DEF Ahead
  <2>10. \A a \in FirstIds : Behind(a)' => Behind(a)
    <3> SUFFICES ASSUME NEW a \in FirstIds, Behind(a)' PROVE FALSE
      OBVIOUS
    <3>1. a \in AutomationIds
      BY DEF FirstIds
    <3>2. a[1] \in Nat /\ 1 <= a[1] /\ fleet # <<>>
      BY <1>2, <2>3, <3>1, IdsArePairs
    <3> QED BY <2>5, <2>6, <2>7, <3>2 DEF Behind, Working
  <2> QED BY <1>1, <2>8, <2>9, <2>10, UnsettledKeeps
<1> QED BY <1>3, <1>4, <1>5

\* The call that asks for the flags or the trigger sends the keeper on to the
\* next call of the same automation.
LEMMA NextCall ==
    ASSUME KeeperInv, AtAutomation, fleet' = fleet, NEW at \in {"trigger", "execute"},
           pass.at # "mined", pass' = [pass EXCEPT !.at = at]
    PROVE  /\ PassOK' /\ Here' = Here /\ pass'.at = at /\ pass'.mined = "none"
           /\ \A a \in AutomationIds : Ahead(a)' => a # Here /\ Ahead(a)
           /\ \A a \in FirstIds : Behind(a)' => Behind(a)
<1>1. PassOK /\ pass.mined = "none" /\ FleetOK
  BY DEF KeeperInv, PassOK
<1>2. /\ pass'.at = at /\ pass'.mined = "none" /\ pass'.v = pass.v /\ pass'.i = pass.i
      /\ pass'.autos = pass.autos /\ pass'.vaults = pass.vaults
      /\ pass' \in [at : PassStep, vaults : Nat, v : Nat, autos : Nat, i : Nat,
                    mined : {"none", "executed", "reverted"}]
  BY <1>1 DEF PassOK, PassStep
<1>3. PassOK'
  BY <1>1, <1>2 DEF PassOK, AtAutomation, Working
<1>4. Here' = Here
  BY <1>2 DEF Here
<1>5. \A a \in AutomationIds : (a[1] \in Nat /\ a[2] \in Nat)
                                /\ (a = Here => a[1] = pass.v /\ a[2] = pass.i)
  BY <1>1, IdsArePairs DEF Here
<1>6. \A a \in AutomationIds : Ahead(a)' => a # Here /\ Ahead(a)
  BY <1>1, <1>2, <1>5 DEF Ahead, Working, AtAutomation, PassOK
<1>7. \A a \in FirstIds : Behind(a)' => Behind(a)
  BY <1>1, <1>2 DEF Behind, Working, AtAutomation
<1> QED BY <1>2, <1>3, <1>4, <1>6, <1>7

LEMMA FlagsKeep ==
    ASSUME KeeperInv, getAutomation, secret' = secret
    PROVE  KeeperInv'
<1>1. pass.at = "flags" /\ AtAutomation /\ UNCHANGED <<fleet, reports>>
  BY DEF getAutomation, AtAutomation
<1>2. /\ Here \in AutomationIds /\ Fresh(seen[Here]) /\ seen[Here] \in History
      /\ FleetOK /\ seen \in [AutomationIds -> History]
  BY <1>1, HereIs DEF KeeperInv
<1>3. CASE ~Public(AutoAt(Here))
  <2>1. Skip /\ seen' = [seen EXCEPT ![Here].outcome = "skipped"]
    BY <1>3 DEF getAutomation
  <2>2. seen' = [seen EXCEPT ![Here] = [@ EXCEPT !.outcome = "skipped", !.lost = FALSE, !.silent = FALSE]]
    <3>1. seen[Here].lost = FALSE /\ seen[Here].silent = FALSE
      BY <1>2 DEF Fresh, History
    <3>2. [seen[Here] EXCEPT !.outcome = "skipped"]
          = [seen[Here] EXCEPT !.outcome = "skipped", !.lost = FALSE, !.silent = FALSE]
      BY <1>2, <3>1 DEF History
    <3> QED BY <2>1, <3>2
  <2> QED BY <1>1, <1>3, <2>1, <2>2, SkipKeeps
<1>4. CASE Public(AutoAt(Here))
  <2>1. /\ pass' = [pass EXCEPT !.at = "trigger"]
        /\ seen' = [seen EXCEPT ![Here].still = TRUE] /\ count' = count
    BY <1>4 DEF getAutomation
  <2> DEFINE here == Here
             h == [seen[here] EXCEPT !.still = TRUE]
  <2>2. /\ h \in History /\ h.outcome = "none" /\ h.ran = 0 /\ ~h.lost /\ ~h.silent /\ h.still
        /\ h.due = seen[here].due
    BY <1>2 DEF History, Fresh
  <2>3. /\ seen' \in [AutomationIds -> History] /\ seen'[here] = h /\ here \in AutomationIds
        /\ \A a \in AutomationIds \ {here} : seen'[a] = seen[a]
    BY <1>2, <2>1, <2>2
  <2> HIDE DEF h
  <2>4. /\ PassOK' /\ Here' = here /\ pass'.at = "trigger" /\ pass'.mined = "none"
        /\ \A a \in AutomationIds : Ahead(a)' => a # here /\ Ahead(a)
        /\ \A a \in FirstIds : Behind(a)' => Behind(a)
    BY <1>1, <2>1, NextCall
  <2> HIDE DEF here
  <2>5. AutomationIds' = AutomationIds /\ FirstIds' = FirstIds /\ FleetOK'
    BY <1>1, <1>2 DEF AutomationIds, FirstIds, FleetOK
  <2>6. \A a \in AutomationIds : AutoAt(a)' = AutoAt(a)
    BY <1>1 DEF AutoAt
  <2>7. FirstIds \subseteq AutomationIds
    BY DEF FirstIds
  <2>8. \A a \in AutomationIds :
            /\ seen'[a].due = seen[a].due /\ seen'[a].ran = seen[a].ran
            /\ seen'[a].outcome = seen[a].outcome /\ seen'[a].lost = seen[a].lost
            /\ seen'[a].silent = seen[a].silent
            /\ seen[a].outcome # "none" => seen'[a].still = seen[a].still
    BY <1>2, <2>2, <2>3 DEF Fresh, here, History
  <2>9. Untouched'
    BY <2>3, <2>4, <2>5 DEF KeeperInv, Untouched
  <2>10. Handled'
    BY <2>4, <2>5, <2>7, <2>8 DEF KeeperInv, Handled
  <2>11. Public(AutoAt(Here))'
    <3>1. AutoAt(Here)' = AutoAt(Here)
      BY <1>1, <2>4 DEF AutoAt, here
    <3> QED BY <1>4, <3>1 DEF Public
  <2>12. HereOK'
    <3>1. seen'[Here'] = h
      BY <2>3, <2>4
    <3> QED BY <2>2, <2>4, <2>11, <3>1 DEF HereOK
  <2>13. Intact' /\ SkippedRightly'
    BY <2>5, <2>6, <2>7, <2>8 DEF KeeperInv, Intact, SkippedRightly, Due
  <2>14. \A a \in AutomationIds : OutcomeOK(a)'
    BY <1>1, <2>6, <2>8 DEF KeeperInv, OutcomeOK, Broke
  <2>15. \A r \in reports' : ReportOK(r)'
    BY <1>1, <2>5, <2>8 DEF KeeperInv, ReportOK, Fits, ReasonOK
  <2>16. CountsOK'
    <3>1. \A x : With(x)' = With(x)
      BY <2>5, <2>8 DEF With
    <3> QED BY <2>1, <3>1 DEF KeeperInv, CountsOK
  <2> QED BY <1>1, <2>1, <2>3, <2>4, <2>5, <2>9, <2>10, <2>12, <2>13, <2>14, <2>15, <2>16 DEF KeeperInv
<1> QED BY <1>3, <1>4

LEMMA TriggerKeeps ==
    ASSUME KeeperInv, isTriggerMet \/ triggerCheckFails, secret' = secret
    PROVE  KeeperInv'
<1>1. pass.at = "trigger" /\ AtAutomation /\ fleet' = fleet
  BY DEF isTriggerMet, triggerCheckFails, AtAutomation
<1>2. /\ Here \in AutomationIds /\ AutoAt(Here) \in OnChain /\ seen[Here] \in History
      /\ ~seen[Here].lost /\ ~seen[Here].silent /\ seen \in [AutomationIds -> History]
  BY <1>1, HereIs DEF KeeperInv, HereOK
<1>3. CASE triggerCheckFails
  <2>1. PICK posted \in BOOLEAN :
          /\ Reported("trigger-check", FALSE, NoData, posted)
          /\ seen' = [seen EXCEPT ![Here].outcome = "skipped", ![Here].lost = TRUE,
                                  ![Here].silent = ~posted]
    BY <1>3 DEF triggerCheckFails
  <2>2. /\ Skip
        /\ seen' = [seen EXCEPT ![Here] = [@ EXCEPT !.outcome = "skipped", !.lost = TRUE, !.silent = ~posted]]
    BY <1>2, <1>3, <2>1 DEF triggerCheckFails
  <2> DEFINE r == [of |-> Here, path |-> "trigger-check", hash |-> FALSE, errorData |-> NoData,
                   reason |-> decodeRevert(NoData)]
  <2>3. reports' = (IF posted THEN reports \cup {r} ELSE reports) /\ (posted => secret)
    BY <2>1 DEF Reported
  <2>4. r.of = Here /\ r.path # "execution" /\ r.reason = decodeRevert(NoData) /\ r.errorData = NoData
    OBVIOUS
  <2> HIDE DEF r
  <2>5. ReasonOK(r)
    BY <2>4, ReasonsTrue
  <2>6. /\ reports \subseteq reports'
        /\ ~secret => reports' = reports
        /\ \A q \in reports' \ reports :
               q.of = Here /\ q.path # "execution" /\ posted /\ ReasonOK(q)
    BY <2>3, <2>4, <2>5
  <2>7. (~posted) \in BOOLEAN
    OBVIOUS
  <2> QED BY <1>1, <2>2, <2>6, <2>7, SkipKeeps
<1>4. CASE isTriggerMet /\ ~(AutoAt(Here).active /\ AutoAt(Here).trigger = "met")
  <2>1. Skip /\ seen' = [seen EXCEPT ![Here].outcome = "skipped"] /\ reports' = reports
    BY <1>4 DEF isTriggerMet
  <2>2. seen' = [seen EXCEPT ![Here] = [@ EXCEPT !.outcome = "skipped", !.lost = FALSE, !.silent = FALSE]]
    <3>1. seen[Here].lost = FALSE /\ seen[Here].silent = FALSE
      BY <1>2 DEF History
    <3>2. [seen[Here] EXCEPT !.outcome = "skipped"]
          = [seen[Here] EXCEPT !.outcome = "skipped", !.lost = FALSE, !.silent = FALSE]
      BY <1>2, <3>1 DEF History
    <3> QED BY <2>1, <3>2
  <2>3. reports \subseteq reports' /\ reports' \ reports = {}
    BY <2>1
  <2> QED BY <1>1, <1>4, <2>1, <2>2, <2>3, SkipKeeps
<1>5. CASE isTriggerMet /\ AutoAt(Here).active /\ AutoAt(Here).trigger = "met"
  <2>1. pass' = [pass EXCEPT !.at = "execute"] /\ UNCHANGED <<count, seen, reports>>
    BY <1>5 DEF isTriggerMet
  <2>2. /\ PassOK' /\ Here' = Here /\ pass'.at = "execute" /\ pass'.mined = "none"
        /\ \A a \in AutomationIds : Ahead(a)' => a # Here /\ Ahead(a)
        /\ \A a \in FirstIds : Behind(a)' => Behind(a)
    BY <1>1, <2>1, NextCall
  <2>3. AutoAt(Here)' = AutoAt(Here)
    BY <1>1, <2>2 DEF AutoAt
  <2>4. HereOK'
    BY <1>1, <1>5, <2>1, <2>2, <2>3 DEF KeeperInv, HereOK, Public
  <2> QED BY <1>1, <2>1, <2>2, <2>4, UnsettledKeeps
<1> QED BY <1>3, <1>4, <1>5

-----------------------------------------------------------------------------
(* The chain moves. *)

\* One automation changes, all else stays.
LEMMA FleetChanged ==
    ASSUME FleetOK, NEW a \in AutomationIds, NEW x \in OnChain,
           fleet' = [fleet EXCEPT ![a[1]] = [@ EXCEPT ![a[2]] = x]]
    PROVE  /\ FleetOK' /\ AutomationIds' = AutomationIds /\ FirstIds' = FirstIds
           /\ Len(fleet') = Len(fleet) /\ \A v \in 1 .. Len(fleet) : Len(fleet'[v]) = Len(fleet[v])
           /\ fleet'[a[1]][a[2]] = x
           /\ \A b \in AutomationIds \ {a} : fleet'[b[1]][b[2]] = fleet[b[1]][b[2]]
<1>1. /\ a = <<a[1], a[2]>> /\ a[1] \in 1 .. Len(fleet) /\ a[2] \in 1 .. Len(fleet[a[1]])
      /\ fleet[a[1]] \in Seq(OnChain)
  BY IdsArePairs DEF FleetOK
<1> DEFINE vault == [fleet[a[1]] EXCEPT ![a[2]] = x]
<1>2. vault \in Seq(OnChain) /\ Len(vault) = Len(fleet[a[1]]) /\ vault[a[2]] = x
      /\ \A i \in 1 .. Len(fleet[a[1]]) : i # a[2] => vault[i] = fleet[a[1]][i]
  BY <1>1
<1>3. fleet' = [fleet EXCEPT ![a[1]] = vault] /\ fleet \in Seq(Seq(OnChain))
  BY DEF FleetOK
<1> HIDE DEF vault
<1>4. /\ fleet' \in Seq(Seq(OnChain)) /\ Len(fleet') = Len(fleet) /\ fleet'[a[1]] = vault
      /\ \A v \in 1 .. Len(fleet) : v # a[1] => fleet'[v] = fleet[v]
  BY <1>1, <1>2, <1>3
<1>5. \A v \in 1 .. Len(fleet) : Len(fleet'[v]) = Len(fleet[v])
  BY <1>2, <1>4
<1>6. FleetOK'
  BY <1>4, <1>5 DEF FleetOK
<1>7. AutomationIds' = AutomationIds /\ FirstIds' = FirstIds
  BY <1>4, <1>5 DEF AutomationIds, FirstIds
<1>8. ASSUME NEW b \in AutomationIds, b # a PROVE fleet'[b[1]][b[2]] = fleet[b[1]][b[2]]
  <2>1. b = <<b[1], b[2]>> /\ b[1] \in 1 .. Len(fleet) /\ b[2] \in 1 .. Len(fleet[b[1]])
    BY IdsArePairs
  <2>2. CASE b[1] = a[1]
    <3>1. b[2] # a[2]
      BY <1>1, <1>8, <2>1, <2>2
    <3> QED BY <1>2, <1>4, <2>1, <2>2, <3>1
  <2>3. CASE b[1] # a[1]
    BY <1>4, <2>1, <2>3
  <2> QED BY <2>2, <2>3
<1> QED BY <1>2, <1>4, <1>5, <1>6, <1>7, <1>8

\* Others move: what the keeper learnt of the automation may be so no longer.
LEMMA MoveKeeps ==
    ASSUME KeeperInv, NEW a \in AutomationIds, NEW x \in OnChain, NEW h \in History,
           fleet' = [fleet EXCEPT ![a[1]] = [@ EXCEPT ![a[2]] = x]],
           seen' = [seen EXCEPT ![a] = h],
           h.outcome = seen[a].outcome, h.ran = seen[a].ran, h.lost = seen[a].lost,
           h.silent = seen[a].silent, ~h.still,
           h.due => /\ seen[a].due /\ x.active = AutoAt(a).active
                    /\ x.ownerOnly = AutoAt(a).ownerOnly /\ x.trigger = AutoAt(a).trigger,
           UNCHANGED <<pass, count, reports, secret>>
    PROVE  KeeperInv'
<1>1. FleetOK /\ PassOK /\ seen \in [AutomationIds -> History]
  BY DEF KeeperInv
<1>2. /\ FleetOK' /\ AutomationIds' = AutomationIds /\ FirstIds' = FirstIds
      /\ Len(fleet') = Len(fleet) /\ \A v \in 1 .. Len(fleet) : Len(fleet'[v]) = Len(fleet[v])
      /\ fleet'[a[1]][a[2]] = x
      /\ \A b \in AutomationIds \ {a} : fleet'[b[1]][b[2]] = fleet[b[1]][b[2]]
  BY <1>1, FleetChanged
<1>3. /\ seen' \in [AutomationIds' -> History] /\ seen'[a] = h
      /\ \A b \in AutomationIds \ {a} : seen'[b] = seen[b]
  BY <1>1, <1>2
<1>4. \A b \in AutomationIds :
          /\ seen'[b].outcome = seen[b].outcome /\ seen'[b].ran = seen[b].ran
          /\ seen'[b].lost = seen[b].lost /\ seen'[b].silent = seen[b].silent
          /\ (seen'[b].due => seen[b].due)
          /\ seen'[b].still => b # a /\ seen[b].still /\ AutoAt(b)' = AutoAt(b)
  BY <1>2, <1>3 DEF AutoAt
<1>5. PassOK'
  BY <1>1, <1>2 DEF PassOK, AtAutomation, Working
<1>6. (\A b : Ahead(b)' <=> Ahead(b)) /\ (\A b : Behind(b)' <=> Behind(b)) /\ Here' = Here
  BY DEF Ahead, Behind, Working, Here
<1>7. FirstIds \subseteq AutomationIds
  BY DEF FirstIds
<1>8. Untouched' /\ Handled'
  <2>1. \A b \in AutomationIds : Fresh(seen[b]) => Fresh(seen'[b])
    BY <1>4 DEF Fresh
  <2> QED BY <1>2, <1>4, <1>6, <1>7, <2>1 DEF KeeperInv, Untouched, Handled
<1>9. ASSUME NEW b \in AutomationIds, Broke(b) PROVE Broke(b)'
  BY <1>4, <1>9 DEF Broke
<1>10. HereOK'
  <2>1. pass.at \in {"trigger", "execute", "mined"} => Here \in AutomationIds
    BY HereIs DEF AtAutomation
  <2>2. pass.at \in {"trigger", "execute", "mined"} =>
            (seen'[Here].still => seen[Here].still /\ AutoAt(Here)' = AutoAt(Here))
    BY <1>2, <1>3, <1>6, <2>1 DEF AutoAt
  <2>3. pass.mined = "reverted" => Broke(Here)'
    <3>1. pass.mined = "reverted" => pass.at = "mined"
      BY <1>1 DEF PassOK
    <3>2. pass.mined = "reverted" => Broke(Here)
      BY <3>1 DEF KeeperInv, HereOK
    <3> QED BY <1>4, <1>6, <2>1, <2>2, <3>1, <3>2 DEF Broke
  <2> QED BY <1>4, <1>6, <2>1, <2>2, <2>3 DEF KeeperInv, HereOK, Public
<1>11. Intact'
  <2> SUFFICES ASSUME NEW b \in FirstIds, seen'[b].due, seen'[b].ran = 0
               PROVE  /\ fleet'[b[1]][b[2]].active = First(b).active
                      /\ fleet'[b[1]][b[2]].ownerOnly = First(b).ownerOnly
                      /\ fleet'[b[1]][b[2]].trigger = First(b).trigger
    BY <1>2 DEF Intact, AutoAt, First
  <2>1. /\ AutoAt(b).active = First(b).active /\ AutoAt(b).ownerOnly = First(b).ownerOnly
        /\ AutoAt(b).trigger = First(b).trigger
    BY <1>4, <1>7 DEF KeeperInv, Intact
  <2>2. CASE b = a
    BY <1>2, <1>3, <2>1, <2>2
  <2>3. CASE b # a
    BY <1>2, <1>7, <2>1, <2>3 DEF AutoAt
  <2> QED BY <2>2, <2>3
<1>12. SkippedRightly'
  BY <1>2, <1>4, <1>7 DEF KeeperInv, SkippedRightly, Due, First
<1>13. \A b \in AutomationIds : OutcomeOK(b)'
  BY <1>4, <1>9 DEF KeeperInv, OutcomeOK
<1>14. \A r \in reports' : ReportOK(r)'
  BY <1>2, <1>4 DEF KeeperInv, ReportOK, Fits, ReasonOK
<1>15. CountsOK'
  <2>1. \A o : With(o)' = With(o)
    BY <1>2, <1>4 DEF With
  <2> QED BY <2>1 DEF KeeperInv, CountsOK
<1> QED BY <1>2, <1>3, <1>5, <1>8, <1>10, <1>11, <1>12, <1>13, <1>14, <1>15 DEF KeeperInv

LEMMA OthersKeep ==
    ASSUME KeeperInv, NEW a \in AutomationIds, secret' = secret,
           \/ others(a)
           \/ \E t \in Trigger : othersTrigger(a, t)
           \/ \E e \in Ending : othersBreak(a, e)
    PROVE  KeeperInv'
<1>1. AutoAt(a) \in OnChain /\ seen[a] \in History /\ seen \in [AutomationIds -> History]
  BY IdsArePairs DEF KeeperInv
<1> DEFINE gone == [seen[a] EXCEPT !.still = FALSE, !.due = FALSE]
<1>2. /\ gone \in History /\ gone.outcome = seen[a].outcome /\ gone.ran = seen[a].ran
      /\ gone.lost = seen[a].lost /\ gone.silent = seen[a].silent /\ ~gone.still /\ ~gone.due
  BY <1>1 DEF History
<1>3. CASE others(a)
  <2> DEFINE x == [AutoAt(a) EXCEPT !.active = ~@]
  <2>1. x \in OnChain
    BY <1>1 DEF OnChain
  <2>2. fleet' = [fleet EXCEPT ![a[1]] = [@ EXCEPT ![a[2]] = x]]
    BY <1>3 DEF others, AutoAt
  <2>3. seen' = [seen EXCEPT ![a] = gone] /\ UNCHANGED <<pass, count, reports, secret>>
    BY <1>1, <1>3 DEF others
  <2> HIDE DEF x, gone
  <2> QED BY <1>2, <2>1, <2>2, <2>3, MoveKeeps
<1>4. ASSUME NEW t \in Trigger, othersTrigger(a, t) PROVE KeeperInv'
  <2> DEFINE x == [AutoAt(a) EXCEPT !.trigger = t]
  <2>1. x \in OnChain
    BY <1>1 DEF OnChain
  <2>2. fleet' = [fleet EXCEPT ![a[1]] = [@ EXCEPT ![a[2]] = x]]
    BY <1>4 DEF othersTrigger, AutoAt
  <2>3. seen' = [seen EXCEPT ![a] = gone] /\ UNCHANGED <<pass, count, reports, secret>>
    BY <1>1, <1>4 DEF othersTrigger
  <2> HIDE DEF x, gone
  <2> QED BY <1>2, <2>1, <2>2, <2>3, MoveKeeps
<1>5. ASSUME NEW e \in Ending, othersBreak(a, e) PROVE KeeperInv'
  <2> DEFINE x == [AutoAt(a) EXCEPT !.ending = e]
             h == [seen[a] EXCEPT !.still = FALSE]
  <2>1. /\ x \in OnChain /\ x.active = AutoAt(a).active /\ x.ownerOnly = AutoAt(a).ownerOnly
        /\ x.trigger = AutoAt(a).trigger
    BY <1>1 DEF OnChain
  <2>2. /\ h \in History /\ h.outcome = seen[a].outcome /\ h.ran = seen[a].ran
        /\ h.lost = seen[a].lost /\ h.silent = seen[a].silent /\ ~h.still /\ h.due = seen[a].due
    BY <1>1 DEF History
  <2>3. fleet' = [fleet EXCEPT ![a[1]] = [@ EXCEPT ![a[2]] = x]]
    BY <1>5 DEF othersBreak, AutoAt
  <2>4. seen' = [seen EXCEPT ![a] = h] /\ UNCHANGED <<pass, count, reports, secret>>
    BY <1>1, <1>5 DEF othersBreak
  <2> HIDE DEF x, h
  <2> QED BY <2>1, <2>2, <2>3, <2>4, MoveKeeps
<1> QED BY <1>3, <1>4, <1>5

\* A vault grows: what was there is as it was, the new automation is nobody's.
LEMMA AddKeeps ==
    ASSUME KeeperInv, NEW v \in DOMAIN fleet, othersAdd(v), secret' = secret
    PROVE  KeeperInv'
<1>1. FleetOK /\ PassOK /\ seen \in [AutomationIds -> History]
  BY DEF KeeperInv
<1>2. v \in 1 .. Len(fleet) /\ fleet[v] \in Seq(OnChain) /\ Len(fleet[v]) \in Nat /\ Len(fleet[v]) < 3
  <2>1. fleet \in Seq(Seq(OnChain)) /\ v \in 1 .. Len(fleet)
    BY <1>1, LenProperties DEF FleetOK
  <2>2. fleet[v] \in Seq(OnChain)
    BY <2>1, ElementOfSeq
  <2> QED BY <2>1, <2>2, LenProperties DEF othersAdd
<1>3. PICK mine \in BOOLEAN :
          fleet' = [fleet EXCEPT ![v] = Append(@, [NewAutomation EXCEPT !.mine = mine])]
  BY DEF othersAdd
<1> DEFINE x == [NewAutomation EXCEPT !.mine = mine]
<1>0. PICK n : n = Len(fleet[v]) + 1
  OBVIOUS
<1>25. PICK new : new = <<v, n>>
  OBVIOUS
<1>4. x \in OnChain
  <2>1. NoError \in Ending /\ "met" \in Trigger
    BY DEF Ending, Trigger
  <2> QED BY <2>1 DEF NewAutomation, OnChain
<1> HIDE DEF x
<1> DEFINE vault == Append(fleet[v], x)
<1>5. vault \in Seq(OnChain) /\ Len(vault) = n /\ \A i \in 1 .. Len(fleet[v]) : vault[i] = fleet[v][i]
  BY <1>0, <1>2, <1>4, AppendProperties
<1>6. fleet' = [fleet EXCEPT ![v] = vault]
  BY <1>3 DEF x
<1> HIDE DEF vault
<1>7. /\ fleet' \in Seq(Seq(OnChain)) /\ Len(fleet') = Len(fleet) /\ fleet'[v] = vault
      /\ \A w \in 1 .. Len(fleet) : w # v => fleet'[w] = fleet[w]
  BY <1>1, <1>2, <1>5, <1>6 DEF FleetOK
<1>8. n \in 1 .. 3 /\ n = Len(fleet[v]) + 1
  BY <1>0, <1>2
<1>9. FleetOK'
  <2>1. Len(Fleet) = Len(fleet) /\ \A w \in 1 .. Len(fleet) : Len(Fleet[w]) \in Nat
    BY <1>1, KeeperAssumption DEF FleetOK
  <2>2. \A w \in 1 .. Len(fleet) : Len(Fleet[w]) <= Len(fleet'[w]) /\ Len(fleet'[w]) <= 3
    <3> SUFFICES ASSUME NEW w \in 1 .. Len(fleet)
                 PROVE  Len(Fleet[w]) <= Len(fleet'[w]) /\ Len(fleet'[w]) <= 3
      OBVIOUS
    <3>1. Len(Fleet[w]) \in Nat /\ Len(Fleet[w]) <= Len(fleet[w]) /\ Len(fleet[w]) <= 3
      BY <1>1, <2>1 DEF FleetOK
    <3>2. CASE w = v
      BY <1>2, <1>5, <1>7, <1>8, <3>1, <3>2
    <3>3. CASE w # v
      BY <1>7, <3>1, <3>3
    <3> QED BY <3>2, <3>3
  <2> QED BY <1>7, <2>1, <2>2 DEF FleetOK
<1>10. AutomationIds' = AutomationIds \cup {new} /\ new \notin AutomationIds
  <2>1. ASSUME NEW a
        PROVE  a \in AutomationIds' <=> a \in AutomationIds \/ a = new
    <3>1. CASE a \in (1 .. Len(fleet)) \X (1 .. 3)
      <4>1. a = <<a[1], a[2]>> /\ a[1] \in 1 .. Len(fleet) /\ a[2] \in 1 .. 3
        BY <3>1
      <4>2. CASE a[1] = v
        BY <1>2, <1>5, <1>7, <1>8, <1>25, <4>1, <4>2 DEF AutomationIds
      <4>3. CASE a[1] # v
        BY <1>7, <1>25, <4>1, <4>3 DEF AutomationIds
      <4> QED BY <4>2, <4>3
    <3>2. CASE a \notin (1 .. Len(fleet)) \X (1 .. 3)
      BY <1>2, <1>7, <1>8, <1>25, <3>2 DEF AutomationIds
    <3> QED BY <3>1, <3>2
  <2>2. new \notin AutomationIds
    BY <1>2, <1>8, <1>25 DEF AutomationIds
  <2> QED BY <2>1, <2>2
<1>11. \A a \in AutomationIds : AutoAt(a)' = AutoAt(a)
  <2> SUFFICES ASSUME NEW a \in AutomationIds PROVE fleet'[a[1]][a[2]] = fleet[a[1]][a[2]]
    BY DEF AutoAt
  <2>1. a[1] \in 1 .. Len(fleet) /\ a[2] \in 1 .. Len(fleet[a[1]])
    BY <1>1, IdsArePairs
  <2>2. CASE a[1] = v
    BY <1>5, <1>7, <2>1, <2>2
  <2>3. CASE a[1] # v
    BY <1>7, <2>1, <2>3
  <2> QED BY <2>2, <2>3
<1>12. FirstIds' = FirstIds /\ FirstIds \subseteq AutomationIds
  <2>1. ~(n <= Len(Fleet[v]))
    <3>1. Len(Fleet[v]) <= Len(fleet[v]) /\ Len(Fleet[v]) \in Nat
      BY <1>1, <1>2, KeeperAssumption DEF FleetOK
    <3> QED BY <1>2, <1>8, <3>1
  <2> QED BY <1>10, <1>25, <2>1 DEF FirstIds
<1> DEFINE fresh == [Unseen EXCEPT !.due = FALSE]
<1>13. fresh \in History /\ Fresh(fresh)
  BY DEF Unseen, History, Outcome, Fresh
<1>14. /\ seen' = [a \in AutomationIds \cup {new} |-> IF a \in AutomationIds THEN seen[a] ELSE fresh]
       /\ UNCHANGED <<pass, count, reports>>
  BY <1>0, <1>25 DEF othersAdd
<1> HIDE DEF fresh
<1>15. /\ seen' \in [AutomationIds' -> History] /\ seen'[new] = fresh
       /\ \A a \in AutomationIds : seen'[a] = seen[a]
  BY <1>1, <1>10, <1>13, <1>14
<1>16. PassOK'
  <2>1. \A w \in 1 .. Len(fleet) : Len(fleet[w]) \in Nat /\ Len(fleet[w]) <= Len(fleet'[w])
    <3> SUFFICES ASSUME NEW w \in 1 .. Len(fleet)
                 PROVE  Len(fleet[w]) \in Nat /\ Len(fleet[w]) <= Len(fleet'[w])
      OBVIOUS
    <3>1. Len(fleet[w]) \in Nat
      BY <1>1 DEF FleetOK
    <3>2. CASE w = v
      BY <1>2, <1>5, <1>7, <1>8, <3>2
    <3>3. CASE w # v
      BY <1>7, <3>1, <3>3
    <3> QED BY <3>1, <3>2, <3>3
  <2>2. AtAutomation => pass.autos <= Len(fleet'[pass.v])
    <3>1. AtAutomation => pass.v \in 1 .. Len(fleet) /\ pass.autos <= Len(fleet[pass.v]) /\ pass.autos \in Nat
      BY <1>1 DEF PassOK, AtAutomation, Working
    <3>2. \A w \in 1 .. Len(fleet) : Len(fleet'[w]) \in Nat
      BY <1>7
    <3> QED BY <2>1, <3>1, <3>2
  <2> QED BY <1>1, <1>7, <1>14, <2>2 DEF PassOK, AtAutomation, Working
<1>17. (\A b : Ahead(b)' <=> Ahead(b)) /\ (\A b : Behind(b)' <=> Behind(b)) /\ Here' = Here
  BY <1>14 DEF Ahead, Behind, Working, Here
<1>18. Untouched' /\ Handled'
  BY <1>10, <1>12, <1>13, <1>15, <1>17 DEF KeeperInv, Untouched, Handled
<1>19. HereOK'
  <2>1. pass.at \in {"trigger", "execute", "mined"} => Here \in AutomationIds
    BY HereIs DEF AtAutomation
  <2>2. pass.at \in {"trigger", "execute", "mined"} =>
            seen'[Here] = seen[Here] /\ fleet'[Here[1]][Here[2]] = fleet[Here[1]][Here[2]]
    BY <1>11, <1>15, <2>1 DEF AutoAt
  <2>3. PassOK
    BY <1>1
  <2> QED BY <1>14, <1>17, <2>2, <2>3 DEF KeeperInv, HereOK, Public, Broke, AutoAt, PassOK
<1>20. Intact' /\ SkippedRightly'
  BY <1>11, <1>12, <1>15 DEF KeeperInv, Intact, SkippedRightly, Due, First
<1>21. \A a \in AutomationIds' : OutcomeOK(a)'
  <2>1. OutcomeOK(new)'
    BY <1>13, <1>15 DEF OutcomeOK, Fresh
  <2>2. \A a \in AutomationIds : OutcomeOK(a)'
    BY <1>11, <1>14, <1>15 DEF KeeperInv, OutcomeOK, Broke
  <2> QED BY <1>10, <2>1, <2>2
<1>22. \A r \in reports' : ReportOK(r)'
  BY <1>10, <1>14, <1>15 DEF KeeperInv, ReportOK, Fits, ReasonOK
<1>23. CountsOK'
  <2>1. \A o \in Outcome : With(o)' = With(o)
    BY <1>10, <1>13, <1>15 DEF With, Outcome, Fresh
  <2> QED BY <1>14, <2>1 DEF KeeperInv, CountsOK
<1> QED BY <1>9, <1>14, <1>15, <1>16, <1>18, <1>19, <1>20, <1>21, <1>22, <1>23 DEF KeeperInv

-----------------------------------------------------------------------------
(* The execution. *)

LEMMA RunKeeps ==
    ASSUME KeeperInv, sendExecution, secret' = secret
    PROVE  KeeperInv'
<1>1. pass.at = "execute" /\ AtAutomation /\ UNCHANGED <<count, reports>>
  BY DEF sendExecution, AtAutomation
<1>2. /\ FleetOK /\ PassOK /\ seen \in [AutomationIds -> History]
      /\ pass \in [at : PassStep, vaults : Nat, v : Nat, autos : Nat, i : Nat,
                   mined : {"none", "executed", "reverted"}]
  BY DEF KeeperInv, PassOK
<1>3. PICK here : here = Here
  OBVIOUS
<1>4. /\ here \in AutomationIds /\ here[1] = pass.v /\ here[2] = pass.i
      /\ AutoAt(here) \in OnChain /\ seen[here] \in History /\ seen[here].outcome = "none"
      /\ ~seen[here].lost /\ ~seen[here].silent /\ seen[here].ran = 0
      /\ seen[here].still => Public(AutoAt(here)) /\ AutoAt(here).trigger = "met"
  BY <1>1, <1>3, HereIs DEF KeeperInv, HereOK
<1> DEFINE how == IF Runs(AutoAt(here)) THEN "executed" ELSE "reverted"
<1>5. pass' = [pass EXCEPT !.at = "mined", !.mined = how] /\ how \in {"executed", "reverted"}
  BY <1>3 DEF sendExecution
<1>6. /\ pass'.at = "mined" /\ pass'.mined = how /\ pass'.v = pass.v /\ pass'.i = pass.i
      /\ pass'.autos = pass.autos /\ pass'.vaults = pass.vaults
      /\ pass' \in [at : PassStep, vaults : Nat, v : Nat, autos : Nat, i : Nat,
                    mined : {"none", "executed", "reverted"}]
  <2> HIDE DEF how
  <2>1. "mined" \in PassStep
    BY DEF PassStep
  <2> QED BY <1>2, <1>5, <2>1
<1>7. Here' = here
  BY <1>3, <1>6 DEF Here
<1>8. \A a \in AutomationIds : (a[1] \in Nat /\ a[2] \in Nat)
                                /\ (a = here => a[1] = pass.v /\ a[2] = pass.i)
  BY <1>2, <1>4, IdsArePairs
<1>9. \A a \in AutomationIds : Ahead(a)' => a # here /\ Ahead(a)
  BY <1>1, <1>2, <1>6, <1>8 DEF Ahead, Working, PassOK
<1>10. \A a \in FirstIds : Behind(a)' => Behind(a)
  BY <1>1, <1>2, <1>6 DEF Behind, Working
<1>11. CASE ~Runs(AutoAt(here))
  <2>1. UNCHANGED <<fleet, seen>> /\ pass'.mined = "reverted"
    BY <1>3, <1>6, <1>11 DEF sendExecution
  <2>2. PassOK'
    BY <1>1, <1>2, <1>6, <2>1 DEF PassOK, AtAutomation, Working
  <2>3. seen[here].still => Fails(AutoAt(here))
    BY <1>4, <1>11, RunFacts
  <2>4. HereOK'
    <3>1. fleet'[here[1]][here[2]] = AutoAt(here) /\ seen'[here] = seen[here]
      BY <2>1 DEF AutoAt
    <3> QED BY <1>4, <1>6, <1>7, <2>1, <2>3, <3>1 DEF HereOK, Broke, AutoAt
  <2> QED BY <1>1, <1>9, <1>10, <2>1, <2>2, <2>4, UnsettledKeeps
<1>12. CASE Runs(AutoAt(here))
  <2>0. PICK t \in Trigger : fleet' = [fleet EXCEPT ![pass.v][pass.i].trigger = t]
    BY <1>3, <1>12 DEF sendExecution
  <2> DEFINE x == [AutoAt(here) EXCEPT !.trigger = t]
             h == [seen[here] EXCEPT !.ran = @ + 1]
  <2>1. /\ fleet' = [fleet EXCEPT ![here[1]] = [@ EXCEPT ![here[2]] = x]]
        /\ seen' = [seen EXCEPT ![here] = h] /\ pass'.mined = "executed"
    BY <1>2, <1>3, <1>4, <1>6, <1>12, <2>0 DEF sendExecution, AutoAt
  <2>2. /\ x \in OnChain
        /\ h \in History /\ h.ran = 1 /\ h.outcome = "none" /\ ~h.lost /\ ~h.silent
        /\ h.due = seen[here].due /\ h.still = seen[here].still
    <3>1. x \in OnChain
      BY <1>4 DEF OnChain
    <3>2. h = [due |-> seen[here].due, still |-> seen[here].still, lost |-> seen[here].lost,
               silent |-> seen[here].silent, ran |-> 1, outcome |-> seen[here].outcome]
      BY <1>4 DEF History
    <3> HIDE DEF x, h
    <3> QED BY <1>4, <3>1, <3>2 DEF History
  <2> HIDE DEF x, h
  <2>3. /\ FleetOK' /\ AutomationIds' = AutomationIds /\ FirstIds' = FirstIds
        /\ Len(fleet') = Len(fleet) /\ \A v \in 1 .. Len(fleet) : Len(fleet'[v]) = Len(fleet[v])
        /\ \A b \in AutomationIds \ {here} : fleet'[b[1]][b[2]] = fleet[b[1]][b[2]]
    BY <1>2, <1>4, <2>1, <2>2, FleetChanged
  <2>4. /\ seen' \in [AutomationIds' -> History] /\ seen'[here] = h
        /\ \A b \in AutomationIds \ {here} : seen'[b] = seen[b]
    BY <1>2, <1>4, <2>1, <2>2, <2>3
  <2>5. PassOK'
    BY <1>1, <1>2, <1>6, <2>1, <2>3 DEF PassOK, AtAutomation, Working
  <2>6. FirstIds \subseteq AutomationIds
    BY DEF FirstIds
  <2>7. \A b \in AutomationIds : seen'[b].outcome = seen[b].outcome /\ seen'[b].due = seen[b].due
                                 /\ seen'[b].lost = seen[b].lost /\ seen'[b].silent = seen[b].silent
    <3> SUFFICES ASSUME NEW b \in AutomationIds
                 PROVE  seen'[b].outcome = seen[b].outcome /\ seen'[b].due = seen[b].due
                        /\ seen'[b].lost = seen[b].lost /\ seen'[b].silent = seen[b].silent
      OBVIOUS
    <3>1. CASE b = here
      <4>1. h.lost = seen[here].lost /\ h.silent = seen[here].silent
        BY <1>4, <2>2 DEF History
      <4> QED BY <1>4, <2>2, <2>4, <3>1, <4>1
    <3>2. CASE b # here
      BY <2>4, <3>2
    <3> QED BY <3>1, <3>2
  <2>8. Untouched' /\ Handled'
    BY <1>9, <1>10, <2>3, <2>4, <2>6, <2>7 DEF KeeperInv, Untouched, Handled
  <2>9. HereOK'
    BY <1>6, <1>7, <2>1, <2>2, <2>4 DEF HereOK
  <2>10. Intact' /\ SkippedRightly'
    <3>1. Intact'
      <4> SUFFICES ASSUME NEW b \in FirstIds, seen'[b].due, seen'[b].ran = 0
                   PROVE  /\ fleet'[b[1]][b[2]].active = First(b).active
                          /\ fleet'[b[1]][b[2]].ownerOnly = First(b).ownerOnly
                          /\ fleet'[b[1]][b[2]].trigger = First(b).trigger
        BY <2>3 DEF Intact, AutoAt, First
      <4>1. b # here
        BY <2>2, <2>4
      <4> QED BY <2>3, <2>4, <2>6, <4>1 DEF KeeperInv, Intact, AutoAt
    <3>2. SkippedRightly'
      BY <2>3, <2>6, <2>7 DEF KeeperInv, SkippedRightly, Due, First
    <3> QED BY <3>1, <3>2
  <2>11. \A b \in AutomationIds : OutcomeOK(b)'
    <3> SUFFICES ASSUME NEW b \in AutomationIds PROVE OutcomeOK(b)'
      OBVIOUS
    <3>1. CASE b = here
      BY <2>2, <2>4, <3>1 DEF OutcomeOK
    <3>2. CASE b # here
      <4>1. seen'[b] = seen[b] /\ AutoAt(b)' = AutoAt(b)
        BY <2>3, <2>4, <3>2 DEF AutoAt
      <4> QED BY <1>1, <4>1 DEF KeeperInv, OutcomeOK, Broke
    <3> QED BY <3>1, <3>2
  <2>12. \A r \in reports' : ReportOK(r)'
    BY <1>1, <2>3, <2>7 DEF KeeperInv, ReportOK, Fits, ReasonOK
  <2>13. CountsOK'
    <3>1. \A o : With(o)' = With(o)
      BY <2>3, <2>7 DEF With
    <3> QED BY <1>1, <3>1 DEF KeeperInv, CountsOK
  <2> QED BY <1>1, <2>3, <2>4, <2>5, <2>8, <2>9, <2>10, <2>11, <2>12, <2>13 DEF KeeperInv
<1> QED BY <1>11, <1>12

\* What a send or its receipt says.
LEMMA AnswerKeeps ==
    ASSUME KeeperInv, sendReverts \/ sendFails \/ wait \/ waitFails, secret' = secret
    PROVE  KeeperInv'
<1>1. fleet' = fleet /\ pass.at \in {"execute", "mined"} /\ AtAutomation
  BY DEF sendReverts, sendFails, wait, waitFails, Failed, AtAutomation
<1>2. /\ Here \in AutomationIds /\ AutoAt(Here) \in OnChain /\ seen[Here] \in History
      /\ seen \in [AutomationIds -> History] /\ PassOK
  BY <1>1, HereIs DEF KeeperInv
<1>3. CASE sendReverts
  <2>1. pass.at = "execute" /\ ~Runs(AutoAt(Here)) /\ Failed(FALSE, RevertOf(AutoAt(Here)), FALSE)
    BY <1>3 DEF sendReverts
  <2>2. Broke(Here)
    BY <1>2, <2>1, RunFacts DEF KeeperInv, HereOK, Broke
  <2> QED BY <1>1, <2>1, <2>2, FailedKeeps
<1>4. CASE sendFails
  <2>1. Failed(FALSE, NoData, TRUE)
    BY <1>4 DEF sendFails
  <2> QED BY <1>1, <2>1, FailedKeeps
<1>5. CASE waitFails
  <2>1. Failed(TRUE, NoData, TRUE)
    BY <1>5 DEF waitFails
  <2> QED BY <1>1, <2>1, FailedKeeps
<1>6. CASE wait /\ pass.mined # "executed"
  <2>1. Failed(TRUE, NoData, FALSE) /\ pass.at = "mined"
    BY <1>6 DEF wait
  <2>2. pass.mined = "reverted"
    BY <1>2, <1>6, <2>1 DEF PassOK
  <2>3. Broke(Here)
    BY <2>1, <2>2 DEF KeeperInv, HereOK
  <2> QED BY <1>1, <2>1, <2>3, FailedKeeps
<1>7. CASE wait /\ pass.mined = "executed"
  <2>1. /\ count' = [count EXCEPT !["executed"] = @ + 1]
        /\ pass' = Onward([pass EXCEPT !.mined = "none"])
        /\ seen' = [seen EXCEPT ![Here].outcome = "executed"] /\ reports' = reports
        /\ pass.at = "mined"
    BY <1>7 DEF wait
  <2> DEFINE h == [seen[Here] EXCEPT !.outcome = "executed"]
  <2>2. /\ h \in History /\ h.outcome = "executed"
        /\ h.due = seen[Here].due /\ h.still = seen[Here].still /\ h.ran = seen[Here].ran
    BY <1>2 DEF History, Outcome
  <2>3. seen' = [seen EXCEPT ![Here] = h]
    BY <1>2, <2>1
  <2> HIDE DEF h
  <2>4. h.ran = 1
    BY <1>7, <2>1, <2>2 DEF KeeperInv, HereOK
  <2>5. "executed" \in Outcome /\ reports \subseteq reports' /\ reports' \ reports = {}
    BY <2>1 DEF Outcome
  <2> QED BY <1>1, <2>1, <2>2, <2>3, <2>4, <2>5, Concluded
<1> QED BY <1>3, <1>4, <1>5, <1>6, <1>7

-----------------------------------------------------------------------------
LEMMA KeeperStays == KeeperSpec => []KeeperInv
<1>1. KeeperInit => KeeperInv
  <2> SUFFICES ASSUME KeeperInit PROVE KeeperInv
    OBVIOUS
  <2>1. fleet = Fleet /\ reports = {} /\ seen = [a \in AutomationIds |-> Unseen]
        /\ count = [executed |-> 0, skipped |-> 0, failed |-> 0]
    BY DEF KeeperInit
  <2>2. /\ pass.at = "start" /\ pass.v = 1 /\ pass.mined = "none"
        /\ pass \in [at : PassStep, vaults : Nat, v : Nat, autos : Nat, i : Nat,
                     mined : {"none", "executed", "reverted"}]
    BY DEF KeeperInit, PassStep
  <2>3. FleetOK
    BY <2>1, KeeperAssumption DEF FleetOK
  <2>4. PassOK /\ HereOK
    BY <2>2 DEF PassOK, HereOK, AtAutomation, Working
  <2>5. Unseen \in History /\ Fresh(Unseen)
    BY DEF Unseen, History, Outcome, Fresh
  <2>6. seen \in [AutomationIds -> History] /\ \A a \in AutomationIds : seen[a] = Unseen
    BY <2>1, <2>5
  <2>7. Untouched /\ Handled
    BY <2>2, <2>5, <2>6 DEF Untouched, Handled, Behind, Working
  <2>8. Intact /\ SkippedRightly
    BY <2>1, <2>5, <2>6 DEF Intact, SkippedRightly, FirstIds, AutoAt, First, Fresh
  <2>9. \A a \in AutomationIds : OutcomeOK(a)
    BY <2>5, <2>6 DEF OutcomeOK, Fresh
  <2>10. CountsOK
    <3>1. \A o \in Outcome : With(o) = {}
      BY <2>5, <2>6 DEF With, Outcome, Fresh
    <3>2. \A o \in Outcome : count[o] = 0
      BY <2>1 DEF Outcome
    <3> QED BY <3>1, <3>2, FS_EmptySet DEF CountsOK
  <2> QED BY <2>1, <2>3, <2>4, <2>6, <2>7, <2>8, <2>9, <2>10 DEF KeeperInv
<1>2. KeeperInv /\ [KeeperNext]_keeperVars => KeeperInv'
  <2> SUFFICES ASSUME KeeperInv, [KeeperNext]_keeperVars PROVE KeeperInv'
    OBVIOUS
  <2>1. CASE UNCHANGED keeperVars
    <3>1. UNCHANGED <<fleet, pass, count, reports, seen, secret>>
      BY <2>1 DEF keeperVars
    <3>2. PassOK' /\ HereOK'
      BY <3>1 DEF KeeperInv, PassOK, HereOK, AtAutomation, Working, Here, AutoAt, Broke
    <3>3. (\A a \in AutomationIds : Ahead(a)' => Ahead(a)) /\ (\A a \in FirstIds : Behind(a)' => Behind(a))
      BY <3>1 DEF Ahead, Behind, Working
    <3> QED BY <3>1, <3>2, <3>3, UnsettledKeeps
  <2>2. CASE KeeperNext
    <3>1. secret' = secret
      BY <2>2 DEF KeeperNext
    <3> QED BY <2>2, <3>1, StartKeeps, FlagsKeep, TriggerKeeps, RunKeeps, AnswerKeeps, OthersKeep, AddKeeps
            DEF KeeperNext, KeeperStep
  <2> QED BY <2>1, <2>2
<1> QED BY <1>1, <1>2, PTL DEF KeeperSpec

\* A pass of the keeper (execute-automations.ts), whatever others do between its
\* calls and whichever of them fail.  Every automation that was there and due is
\* tried, unless the call for its trigger failed.  What the keeper counts is so; a
\* run it counts as failed and whose answer it got was not made, and when nobody
\* touched the automation meanwhile, it was neither inactive nor for the owner
\* only nor untriggered, but failed of itself: in a step, at the step limit, for
\* gas, or when its gas compensation was settled.  A report that got through is
\* of such a failure or of a failed check; without the secret there is none.
THEOREM KeeperAlwaysServes == KeeperSpec => []KeeperServes
<1>1. KeeperInv => KeeperServes
  <2> SUFFICES ASSUME KeeperInv PROVE KeeperServes
    OBVIOUS
  <2>1. EveryDueTried
    <3> SUFFICES ASSUME pass.at = "done", NEW v \in DOMAIN Fleet, NEW i \in DOMAIN Fleet[v]
                 PROVE  /\ seen[<<v, i>>].outcome # "none"
                        /\ seen[<<v, i>>].due /\ Public(Fleet[v][i]) /\ Fleet[v][i].trigger = "met"
                             /\ ~seen[<<v, i>>].lost
                             => seen[<<v, i>>].outcome \in {"executed", "failed"}
      BY DEF EveryDueTried
    <3>1. PICK a : a = <<v, i>>
      OBVIOUS
    <3>2. a[1] = v /\ a[2] = i
      BY <3>1
    <3>3. /\ v \in 1 .. Len(fleet) /\ Len(Fleet[v]) \in Nat /\ Len(fleet[v]) \in Nat
          /\ i \in 1 .. Len(Fleet[v]) /\ Len(Fleet[v]) <= Len(fleet[v])
      BY KeeperAssumption DEF KeeperInv, FleetOK
    <3>4. a \in AutomationIds /\ a \in FirstIds
      <4>1. a \in AutomationIds
        BY <3>1, <3>3, IdsAre DEF KeeperInv
      <4> QED BY <3>2, <3>3, <4>1 DEF FirstIds
    <3>5. seen[a] \in History /\ seen[a].outcome # "none"
      BY <3>4 DEF KeeperInv, Handled, Behind
    <3>6. seen[a].outcome \in Outcome
      BY <3>5 DEF History
    <3>7. First(a) = Fleet[v][i]
      BY <3>2 DEF First
    <3>8. seen[a].outcome = "skipped" /\ ~seen[a].lost => ~Due(a)
      BY <3>4 DEF KeeperInv, SkippedRightly
    <3> QED BY <3>1, <3>5, <3>6, <3>7, <3>8 DEF Due, Outcome
  <2>2. OutcomesTrue
    <3>1. \A a \in AutomationIds : OutcomeTrue(a)
      BY DEF KeeperInv, OutcomeOK, OutcomeTrue, Broke, Fails
    <3>2. ReportsTrue
      BY DEF KeeperInv, OutcomeOK, ReportsTrue, ReportOK, Fits, ReasonOK
    <3>3. CountsTrue
      BY DEF KeeperInv, CountsTrue, CountsOK, With, Outcome
    <3> QED BY <3>1, <3>2, <3>3 DEF OutcomesTrue
  <2> QED BY <2>1, <2>2 DEF KeeperServes
<1> QED BY <1>1, KeeperStays, PTL

=============================================================================
